------------------------ MODULE TenantCatalogProofs ------------------------
(***************************************************************************)
(* Proofs about `mudd tenant add` and `mudd tenant remove` over any number *)
(* of tenants, ports, tags and commands at once.  What a command may put   *)
(* in the file holds however many run; what stays in the file and on disk  *)
(* is proved of commands that run one after another, killed anywhere: the  *)
(* invariant says what the only running command has still to do.           *)
(***************************************************************************)
EXTENDS TenantCatalog, FiniteSetTheorems, SequenceTheorems, TLAPS

\* A running command, and the catalogue it has loaded and changed.
Stages   == {"scaffold", "world", "config", "confirm", "save", "write", "purge"}
Commands == {"add", "remove", "purge"}
Running  ==
  {r \in [at : Stages, command : Commands, name : Names, catalog : Seq(Entries)] :
     Loads(r.catalog) /\ (r.command = "add" => r.catalog # <<>>)}

Typed ==
  /\ file \in Seq(Entries) \union {Malformed}
  /\ folder \in [Names -> SUBSET Parts]
  /\ \A n \in Names : folder[n] # Absent => "dir" \in folder[n]
  /\ proc \in [Procs -> {Idle} \union Running]
  /\ reported \subseteq Entries
  /\ overlapped \in BOOLEAN /\ torn \in BOOLEAN

\* What the entries of a file are, and that each has its config.toml.
EntriesOf(fl) == IF fl = Malformed THEN {} ELSE ToSet(fl)
Configured(es, fo) == \A e \in es : "config" \in fo[e.name]

\* The only running command, at each of its stages.  The tenants it leaves alone
\* have their folders; the one it adds has its own before it is saved, and the
\* one it removes is out of the file before its folder goes.  What an add has
\* reported is in the catalogue it is about to write.
Sits(r, fl, fo, rep, tn) ==
  /\ r.command # "add" => \A e \in ToSet(r.catalog) : e.name # r.name
  /\ Configured({e \in ToSet(r.catalog) : e.name # r.name}, fo)
  /\ r.command = "add" /\ r.at \in {"save", "write"} => "config" \in fo[r.name]
  /\ r.at = "confirm" => r.command # "add"
  /\ r.at = "purge" => \A e \in EntriesOf(fl) : e.name # r.name
  /\ r.at = "write" => fl = <<>>
  /\ ~tn /\ r.at # "purge" =>
       \A e \in rep : r.command = "add" \/ e.name # r.name \/ r.at = "write" =>
                        e \in ToSet(r.catalog)

InOrder ==
  ~overlapped =>
    /\ \A p, q \in Procs : proc[p] # Idle /\ proc[q] # Idle => p = q
    /\ Configured(EntriesOf(file), folder)
    /\ ~torn /\ ~Saving => reported \subseteq EntriesOf(file)
    /\ \A p \in Procs : proc[p] # Idle => Sits(proc[p], file, folder, reported, torn)

CatalogProofInv == Typed /\ InOrder

-----------------------------------------------------------------------------
\* Some one of finitely many naturals is the lowest: numbering each by how many
\* are below it gives every number from 1 up, so nothing is below the first.
LEMMA LowestFree ==
  ASSUME NEW S \in SUBSET Nat, IsFiniteSet(S), S # {}
  PROVE  LowestOf(S) \in S
  <1> DEFINE below(v) == {w \in S : w < v}
             size == Cardinality(S)
             rank == [v \in S |-> Cardinality(below(v)) + 1]
  <1>1. size \in Nat \ {0}
    BY FS_CardinalityType, FS_EmptySet
  <1>2. ASSUME NEW v \in S PROVE IsFiniteSet(below(v)) /\ Cardinality(below(v)) \in Nat
    <2>1. below(v) \subseteq S
      OBVIOUS
    <2> QED BY <2>1, FS_Subset, FS_CardinalityType
  <1>3. ASSUME NEW v \in S PROVE Cardinality(below(v)) + 1 \in 1 .. size
    <2>1. below(v) \subseteq S \ {v} /\ IsFiniteSet(S \ {v}) /\ Cardinality(S \ {v}) = size - 1
      BY FS_RemoveElement
    <2>2. Cardinality(below(v)) <= size - 1
      BY <2>1, FS_Subset
    <2>3. Cardinality(below(v)) \in Nat
      BY <1>2
    <2> HIDE DEF below, size
    <2> QED BY <1>1, <2>2, <2>3
  <1>4. ASSUME NEW v \in S, NEW w \in S, v < w
        PROVE  Cardinality(below(v)) < Cardinality(below(w))
    <2>1. v \in below(w) /\ below(v) \subseteq below(w) \ {v}
      <3>1. \A u \in S : u < v => u < w /\ u # v
        BY <1>4
      <3> QED BY <1>4, <3>1
    <2>2. /\ IsFiniteSet(below(w) \ {v})
          /\ Cardinality(below(w) \ {v}) = Cardinality(below(w)) - 1
      BY <1>2, <2>1, FS_RemoveElement
    <2>3. Cardinality(below(v)) <= Cardinality(below(w)) - 1
      BY <2>1, <2>2, FS_Subset
    <2>4. Cardinality(below(v)) \in Nat /\ Cardinality(below(w)) \in Nat
      BY <1>2
    <2> HIDE DEF below
    <2> QED BY <2>3, <2>4
  <1>5. rank \in Injection(S, 1 .. size)
    <2>1. rank \in [S -> 1 .. size]
      BY <1>3
    <2>2. ASSUME NEW v \in S, NEW w \in S, rank[v] = rank[w], v # w PROVE FALSE
      <3>1. v < w \/ w < v
        BY <2>2
      <3>2. Cardinality(below(v)) = Cardinality(below(w))
        <4>1. Cardinality(below(v)) + 1 = Cardinality(below(w)) + 1
          BY <2>2
        <4>2. Cardinality(below(v)) \in Nat /\ Cardinality(below(w)) \in Nat
          BY <1>2
        <4> HIDE DEF below
        <4> QED BY <4>1, <4>2
      <3>3. Cardinality(below(v)) \in Nat
        BY <1>2
      <3> HIDE DEF below
      <3> QED BY <1>4, <3>1, <3>2, <3>3
    <2> HIDE DEF rank
    <2> QED BY <2>1, <2>2 DEF Injection, IsInjective
  <1>6. \E v \in S : rank[v] = 1
    <2>1. IsFiniteSet(1 .. size) /\ Cardinality(1 .. size) = size
      BY <1>1, FS_Interval
    <2>2. rank \in Surjection(S, 1 .. size)
      BY <1>5, <2>1, FS_Injection
    <2>3. 1 \in 1 .. size
      BY <1>1
    <2> HIDE DEF rank, size
    <2> QED BY <2>2, <2>3 DEF Surjection
  <1>7. PICK v \in S : Cardinality(below(v)) + 1 = 1
    BY <1>6
  <1>8. below(v) = {}
    <2>1. Cardinality(below(v)) = 0
      <3>1. Cardinality(below(v)) \in Nat
        BY <1>2
      <3> HIDE DEF below
      <3> QED BY <1>7, <3>1
    <2> QED BY <1>2, <2>1, FS_EmptySet
  <1>9. \A w \in S : v <= w
    BY <1>8
  <1> QED BY <1>9 DEF LowestOf

\* The elements of a sequence of entries, by position.
LEMMA Positions ==
  ASSUME NEW c \in Seq(Entries)
  PROVE  /\ DOMAIN c = 1 .. Len(c) /\ Len(c) \in Nat
         /\ ToSet(c) = {c[i] : i \in 1 .. Len(c)} /\ ToSet(c) \subseteq Entries
         /\ TagsIn(c) \subseteq 1 .. MaxTag
  <1>1. DOMAIN c = 1 .. Len(c) /\ Len(c) \in Nat
    BY LenProperties
  <1>2. \A i \in 1 .. Len(c) : c[i] \in Entries
    BY ElementOfSeq
  <1>3. ToSet(c) = {c[i] : i \in 1 .. Len(c)} /\ ToSet(c) \subseteq Entries
    BY <1>1, <1>2 DEF ToSet
  <1>4. TagsIn(c) \subseteq 1 .. MaxTag
    BY <1>3 DEF TagsIn, Entries
  <1> QED BY <1>1, <1>3, <1>4

\* A catalogue is appended to with a name, a port and a tag nobody in it has.
LEMMA AddedLoads ==
  ASSUME NEW c \in Seq(Entries), Unique(c), NEW n \in Names, CanAdd(c, n)
  PROVE  /\ Added(c, n) \in Seq(Entries) /\ Added(c, n) # <<>> /\ Loads(Added(c, n))
         /\ Last(Added(c, n)) \in ToSet(Added(c, n)) /\ Last(Added(c, n)).name = n
         /\ ToSet(c) \subseteq ToSet(Added(c, n))
         /\ \A e \in ToSet(Added(c, n)) : e \in ToSet(c) \/ e.name = n
  <1> DEFINE m == Len(c)
  <1>1. PICK x : x = Entry(n, LowestOf(FreePorts(c)), LowestOf(FreeTags(c)))
    OBVIOUS
  <1>2. LowestOf(FreePorts(c)) \in FreePorts(c) /\ LowestOf(FreeTags(c)) \in FreeTags(c)
    <2>1. FreePorts(c) \in SUBSET Nat /\ FreeTags(c) \in SUBSET Nat
      BY CatalogAssumption DEF FreePorts, FreeTags
    <2>2. IsFiniteSet(BasePort .. MaxPort) /\ IsFiniteSet(1 .. MaxTag)
      BY CatalogAssumption, FS_Interval
    <2>3. IsFiniteSet(FreePorts(c)) /\ IsFiniteSet(FreeTags(c))
      BY <2>2, FS_Subset DEF FreePorts, FreeTags
    <2> QED BY <2>1, <2>3, LowestFree DEF CanAdd
  <1>3. x.name = n /\ x.port \in FreePorts(c) /\ x.tag \in FreeTags(c) /\ x \in Entries
    BY <1>1, <1>2, CatalogAssumption DEF Entry, Entries, FreePorts, FreeTags
  <1>4. /\ Added(c, n) \in Seq(Entries) /\ Added(c, n) # <<>> /\ Len(Added(c, n)) = m + 1
        /\ \A i \in 1 .. m : Added(c, n)[i] = c[i]
        /\ Added(c, n)[m + 1] = x /\ m \in Nat
    BY <1>1, <1>3, AppendProperties, LenProperties DEF Added
  <1>5. PICK d : d = Added(c, n)
    OBVIOUS
  <1>6. /\ d \in Seq(Entries) /\ DOMAIN d = 1 .. m + 1 /\ Len(d) = m + 1 /\ d[m + 1] = x
        /\ \A i \in 1 .. m : d[i] = c[i]
        /\ DOMAIN c = 1 .. m
    BY <1>4, <1>5, Positions
  <1> HIDE DEF m
  <1>7. \A i \in 1 .. m + 1 : i = m + 1 \/ i \in 1 .. m
    BY <1>4
  <1>8. ASSUME NEW i \in 1 .. m
        PROVE  c[i].name # n /\ c[i].port # x.port /\ c[i].tag # x.tag
    <2>1. c[i] \in ToSet(c)
      BY <1>6 DEF ToSet
    <2> QED BY <1>3, <2>1 DEF CanAdd, NamesIn, PortsIn, TagsIn, FreePorts, FreeTags
  <1>9. Unique(d)
    <2> SUFFICES ASSUME NEW i \in 1 .. m + 1, NEW j \in 1 .. m + 1, i # j
                 PROVE  d[i].name # d[j].name /\ d[i].port # d[j].port /\ d[i].tag # d[j].tag
      BY <1>6 DEF Unique
    <2>1. CASE i \in 1 .. m /\ j \in 1 .. m
      BY <1>6, <2>1 DEF Unique
    <2>2. CASE i \in 1 .. m /\ j = m + 1
      BY <1>3, <1>6, <1>8, <2>2
    <2>3. CASE i = m + 1 /\ j \in 1 .. m
      BY <1>3, <1>6, <1>8, <2>3
    <2> QED BY <1>7, <2>1, <2>2, <2>3
  <1>10. Loads(d)
    BY <1>6, <1>9, Positions, CatalogAssumption DEF Loads
  <1>11. ToSet(d) = ToSet(c) \union {x}
    <2>1. ToSet(d) \subseteq ToSet(c) \union {x}
      BY <1>6, <1>7 DEF ToSet
    <2>2. m + 1 \in 1 .. m + 1 /\ \A i \in 1 .. m : i \in 1 .. m + 1
      BY <1>4
    <2>3. ToSet(c) \union {x} \subseteq ToSet(d)
      BY <1>6, <2>2 DEF ToSet
    <2> QED BY <2>1, <2>3
  <1>12. Last(d) = x
    BY <1>6 DEF Last
  <1> QED BY <1>3, <1>4, <1>5, <1>10, <1>11, <1>12

\* The elements left when one is taken out, and where they go.
LEMMA RemoveAtPlaces ==
  ASSUME NEW S, NEW s \in Seq(S), NEW i \in 1 .. Len(s)
  PROVE  /\ RemoveAt(s, i) \in Seq(S) /\ Len(RemoveAt(s, i)) = Len(s) - 1
         /\ \A k \in 1 .. Len(s) - 1 : RemoveAt(s, i)[k] = s[IF k < i THEN k ELSE k + 1]
  <1> DEFINE n == Len(s)
             a == SubSeq(s, 1, i - 1)
             b == SubSeq(s, i + 1, n)
  <1>1. n \in Nat /\ i \in 1 .. n /\ \A k \in 1 .. n : s[k] \in S
    BY LenProperties, ElementOfSeq
  <1>2. /\ a \in Seq(S) /\ Len(a) = i - 1
        /\ \A k \in 1 .. i - 1 : a[k] = s[k]
    <2>1. 1 \in Int /\ i - 1 \in Int /\ \A k \in 1 .. i - 1 : s[k] \in S
      BY <1>1
    <2> HIDE DEF n
    <2>2. /\ a \in Seq(S) /\ Len(a) = IF 1 <= i - 1 THEN i - 1 - 1 + 1 ELSE 0
          /\ \A k \in 1 .. i - 1 - 1 + 1 : a[k] = s[1 + k - 1]
      BY <2>1, SubSeqProperties
    <2> HIDE DEF a
    <2> QED BY <1>1, <2>2
  <1>3. /\ b \in Seq(S) /\ Len(b) = n - i
        /\ \A k \in 1 .. n - i : b[k] = s[i + k]
    <2>1. i + 1 \in Int /\ n \in Int /\ \A k \in i + 1 .. n : s[k] \in S
      BY <1>1
    <2> HIDE DEF n
    <2>2. /\ b \in Seq(S) /\ Len(b) = IF i + 1 <= n THEN n - (i + 1) + 1 ELSE 0
          /\ \A k \in 1 .. n - (i + 1) + 1 : b[k] = s[i + 1 + k - 1]
      BY <2>1, SubSeqProperties
    <2> HIDE DEF b
    <2> QED BY <1>1, <2>2
  <1>4. /\ a \o b \in Seq(S) /\ Len(a \o b) = Len(a) + Len(b)
        /\ \A k \in 1 .. Len(a) + Len(b) : (a \o b)[k] = IF k <= Len(a) THEN a[k] ELSE b[k - Len(a)]
    BY <1>2, <1>3, ConcatProperties
  <1>5. RemoveAt(s, i) = a \o b
    BY DEF RemoveAt
  <1> HIDE DEF a, b, n
  <1>6. Len(a) + Len(b) = n - 1
    BY <1>1, <1>2, <1>3
  <1>7. ASSUME NEW k \in 1 .. n - 1
        PROVE  (a \o b)[k] = s[IF k < i THEN k ELSE k + 1]
    <2>1. CASE k < i
      <3>1. k <= Len(a) /\ k \in 1 .. i - 1 /\ k \in 1 .. Len(a) + Len(b)
        BY <1>1, <1>2, <1>6, <2>1
      <3> QED BY <1>2, <1>4, <2>1, <3>1
    <2>2. CASE ~(k < i)
      <3>1. ~(k <= Len(a)) /\ k - Len(a) \in 1 .. n - i /\ i + (k - Len(a)) = k + 1
            /\ k \in 1 .. Len(a) + Len(b)
        BY <1>1, <1>2, <1>6, <2>2
      <3> QED BY <1>3, <1>4, <2>2, <3>1
    <2> QED BY <2>1, <2>2
  <1> QED BY <1>4, <1>5, <1>6, <1>7 DEF n

\* A catalogue without the entry of one name: the other entries, still apart.
LEMMA RemovedLoads ==
  ASSUME NEW c \in Seq(Entries), Unique(c), NEW n \in NamesIn(c)
  PROVE  /\ Removed(c, n) \in Seq(Entries) /\ Loads(Removed(c, n))
         /\ ToSet(Removed(c, n)) = {e \in ToSet(c) : e.name # n}
  <1>1. PICK i \in 1 .. Len(c) : i = PositionOf(c, n) /\ c[i].name = n
    BY Positions DEF NamesIn, ToSet, PositionOf
  <1>2. PICK d : d = RemoveAt(c, i)
    OBVIOUS
  <1>3. PICK m : m = Len(c)
    OBVIOUS
  <1>4. /\ d \in Seq(Entries) /\ Len(d) = m - 1 /\ m \in Nat /\ i \in 1 .. m
        /\ \A k \in 1 .. m - 1 : d[k] = c[IF k < i THEN k ELSE k + 1]
    BY <1>1, <1>2, <1>3, RemoveAtPlaces, LenProperties
  <1>5. DOMAIN d = 1 .. m - 1 /\ DOMAIN c = 1 .. m
    BY <1>3, <1>4, Positions
  <1>6. ASSUME NEW k \in 1 .. m - 1
        PROVE  (IF k < i THEN k ELSE k + 1) \in 1 .. m /\ (IF k < i THEN k ELSE k + 1) # i
    BY <1>4
  <1>7. Unique(d)
    <2> SUFFICES ASSUME NEW j \in 1 .. m - 1, NEW k \in 1 .. m - 1, j # k
                 PROVE  d[j].name # d[k].name /\ d[j].port # d[k].port /\ d[j].tag # d[k].tag
      BY <1>5 DEF Unique
    <2>1. PICK a, b : a = (IF j < i THEN j ELSE j + 1) /\ b = (IF k < i THEN k ELSE k + 1)
      OBVIOUS
    <2>2. a # b
      BY <1>4, <2>1
    <2>3. a \in 1 .. m /\ b \in 1 .. m
      BY <1>6, <2>1
    <2>4. d[j] = c[a] /\ d[k] = c[b]
      BY <1>4, <2>1
    <2> QED BY <1>5, <2>2, <2>3, <2>4 DEF Unique
  <1>8. Loads(d)
    BY <1>4, <1>7, Positions, CatalogAssumption DEF Loads
  <1>9. ToSet(d) \subseteq {e \in ToSet(c) : e.name # n}
    <2> SUFFICES ASSUME NEW k \in 1 .. m - 1 PROVE d[k] \in ToSet(c) /\ d[k].name # n
      BY <1>5 DEF ToSet
    <2>1. PICK a : a = (IF k < i THEN k ELSE k + 1)
      OBVIOUS
    <2>2. a \in 1 .. m /\ a # i /\ d[k] = c[a]
      BY <1>4, <1>6, <2>1
    <2>3. c[a].name # c[i].name
      BY <1>4, <1>5, <2>2 DEF Unique
    <2> QED BY <1>1, <1>5, <2>2, <2>3 DEF ToSet
  <1>10. ASSUME NEW j \in 1 .. m, c[j].name # n PROVE c[j] \in ToSet(d)
    <2>1. j < i \/ i < j
      BY <1>1, <1>4, <1>10
    <2>2. PICK k : k = (IF j < i THEN j ELSE j - 1)
      OBVIOUS
    <2>3. k \in 1 .. m - 1 /\ (IF k < i THEN k ELSE k + 1) = j
      BY <1>4, <2>1, <2>2
    <2>4. d[k] = c[j]
      BY <1>4, <2>3
    <2> QED BY <1>5, <2>3, <2>4 DEF ToSet
  <1>11. {e \in ToSet(c) : e.name # n} \subseteq ToSet(d)
    BY <1>5, <1>10 DEF ToSet
  <1>12. Removed(c, n) = d
    BY <1>1, <1>2 DEF Removed
  <1> QED BY <1>4, <1>8, <1>9, <1>11, <1>12

\* A beginning of a catalogue is one, and has no entry the whole had not.
LEMMA Beginning ==
  ASSUME NEW c \in Seq(Entries), NEW k \in 0 .. Len(c)
  PROVE  SubSeq(c, 1, k) \in Seq(Entries) /\ ToSet(SubSeq(c, 1, k)) \subseteq ToSet(c)
  <1>1. /\ Len(c) \in Nat /\ \A i \in 1 .. k : i \in 1 .. Len(c) /\ c[i] \in Entries
        /\ 1 \in Int /\ k \in Int
    BY LenProperties, ElementOfSeq
  <1>2. PICK d : d = SubSeq(c, 1, k)
    OBVIOUS
  <1>3. /\ d \in Seq(Entries) /\ Len(d) = IF 1 <= k THEN k - 1 + 1 ELSE 0
        /\ \A i \in 1 .. k - 1 + 1 : d[i] = c[1 + i - 1]
    BY <1>1, <1>2, SubSeqProperties
  <1>4. Len(d) = k /\ \A i \in 1 .. k : d[i] = c[i]
    BY <1>1, <1>3
  <1>5. DOMAIN d = 1 .. k /\ DOMAIN c = 1 .. Len(c)
    BY <1>3, <1>4, Positions
  <1>6. ToSet(d) \subseteq ToSet(c)
    BY <1>1, <1>4, <1>5 DEF ToSet
  <1> QED BY <1>2, <1>3, <1>6

\* What two writes leave of each other is a catalogue or does not parse.
LEMMA OverlaidParses ==
  ASSUME NEW c \in Seq(Entries), NEW f \in Seq(Entries) \union {Malformed}, NEW g \in Overlaid(c, f)
  PROVE  g \in Seq(Entries) \union {Malformed} /\ (f = <<>> => g = c)
  <1>1. CASE g \in {c, Malformed}
    <2>1. f = <<>> => g = c
      BY DEF Overlaid
    <2> QED BY <1>1, <2>1
  <1>2. CASE f \in Seq(Entries) /\ f # <<>> /\ g = c \o SubSeq(f, Len(c) + 1, Len(f))
    <2>1. /\ Len(c) \in Nat /\ Len(f) \in Nat /\ Len(c) + 1 \in Int /\ Len(f) \in Int
          /\ \A i \in Len(c) + 1 .. Len(f) : f[i] \in Entries
      <3>1. Len(c) \in Nat /\ Len(f) \in Nat /\ \A i \in 1 .. Len(f) : f[i] \in Entries
        BY <1>2, LenProperties, ElementOfSeq
      <3> QED BY <3>1
    <2>2. SubSeq(f, Len(c) + 1, Len(f)) \in Seq(Entries)
      BY <2>1, SubSeqProperties
    <2> QED BY <1>2, <2>2, ConcatProperties
  <1> QED BY <1>1, <1>2 DEF Overlaid

\* What a cut write leaves is a beginning of what it wrote, or does not parse.
LEMMA CutParses ==
  ASSUME NEW c \in Seq(Entries), NEW g \in CutShort(c)
  PROVE  g \in Seq(Entries) \union {Malformed} /\ EntriesOf(g) \subseteq ToSet(c)
  <1>1. CASE g = Malformed
    BY <1>1 DEF EntriesOf
  <1>2. ASSUME NEW k \in 0 .. Len(c), g = SubSeq(c, 1, k)
        PROVE  g \in Seq(Entries) /\ EntriesOf(g) \subseteq ToSet(c)
    BY <1>2, Beginning, CatalogAssumption DEF EntriesOf
  <1> QED BY <1>1, <1>2 DEF CutShort

-----------------------------------------------------------------------------
\* A running command is not idle; an add has the entry it adds.
LEMMA RunningCommand ==
  ASSUME NEW r \in Running
  PROVE  /\ r # Idle /\ r.at \in Stages /\ r.command \in Commands /\ r.name \in Names
         /\ r.catalog \in Seq(Entries) /\ Loads(r.catalog)
         /\ ToSet(r.catalog) \subseteq Entries
         /\ r.command = "add" => Last(r.catalog) \in ToSet(r.catalog)
  <1>1. /\ r \in [at : Stages, command : Commands, name : Names, catalog : Seq(Entries)]
        /\ Loads(r.catalog) /\ (r.command = "add" => r.catalog # <<>>)
    BY DEF Running
  <1>2. r # Idle
    BY <1>1 DEF Stages, Idle
  <1>3. r.command = "add" => Last(r.catalog) \in ToSet(r.catalog)
    <2> SUFFICES ASSUME r.command = "add" PROVE Last(r.catalog) \in ToSet(r.catalog)
      OBVIOUS
    <2>1. r.catalog \in Seq(Entries) /\ r.catalog # <<>>
      BY <1>1
    <2>2. Len(r.catalog) \in Nat \ {0} /\ DOMAIN r.catalog = 1 .. Len(r.catalog)
      BY <2>1, EmptySeq, LenProperties
    <2> QED BY <2>2 DEF Last, ToSet
  <1> QED BY <1>1, <1>2, <1>3, Positions

\* It may go to any of its stages with the catalogue it has.
LEMMA RunsOn ==
  ASSUME NEW r \in Running, NEW at \in Stages, NEW s, s = [r EXCEPT !.at = at]
  PROVE  /\ s \in Running /\ s.at = at /\ s.command = r.command
         /\ s.name = r.name /\ s.catalog = r.catalog
  <1>1. /\ r \in [at : Stages, command : Commands, name : Names, catalog : Seq(Entries)]
        /\ Loads(r.catalog) /\ (r.command = "add" => r.catalog # <<>>)
    BY DEF Running
  <1>2. s = [at |-> at, command |-> r.command, name |-> r.name, catalog |-> r.catalog]
    BY <1>1
  <1>3. s \in [at : Stages, command : Commands, name : Names, catalog : Seq(Entries)]
    BY <1>1, <1>2
  <1> QED BY <1>1, <1>2, <1>3 DEF Running

\* Going to a stage replaces the command.
LEMMA GotoReplaces ==
  ASSUME NEW p \in Procs, NEW at, Goto(p, at)
  PROVE  proc' = [proc EXCEPT ![p] = [proc[p] EXCEPT !.at = at]]
  BY DEF Goto

\* A command that is not idle is at the stage its guard names.
LEMMA AtStage ==
  ASSUME Typed, NEW p \in Procs, proc[p] # Idle \/ proc[p].at # "idle"
  PROVE  proc[p] \in Running
  BY DEF Typed, Idle

\* What a step of one command has to show: it is alone, or others overlap it.
LEMMA OneActs ==
  ASSUME Typed, InOrder, NEW p \in Procs, NEW r \in {Idle} \union Running,
         proc' = [proc EXCEPT ![p] = r],
         ~overlapped' => ~overlapped /\ \A q \in Procs \ {p} : proc[q] = Idle,
         ~overlapped' => Configured(EntriesOf(file'), folder'),
         ~overlapped' /\ ~torn' /\ r.at # "write" => reported' \subseteq EntriesOf(file'),
         ~overlapped' /\ r # Idle => Sits(r, file', folder', reported', torn')
  PROVE  InOrder'
  <1> SUFFICES ASSUME ~overlapped'
               PROVE  /\ \A q1, q2 \in Procs : proc'[q1] # Idle /\ proc'[q2] # Idle => q1 = q2
                      /\ Configured(EntriesOf(file'), folder')
                      /\ ~torn' /\ ~Saving' => reported' \subseteq EntriesOf(file')
                      /\ \A q \in Procs : proc'[q] # Idle =>
                           Sits(proc'[q], file', folder', reported', torn')
    BY DEF InOrder
  <1>1. proc'[p] = r /\ \A q \in Procs \ {p} : proc'[q] = Idle
    BY DEF Typed
  <1>2. ~Saving' => r.at # "write"
    BY <1>1 DEF Saving
  <1> QED BY <1>1, <1>2

\* What is known when a command acts: its stage, and, unless commands overlapped,
\* that no other runs.
LEMMA WhoActs ==
  ASSUME Typed, InOrder, NEW p \in Procs, proc[p] # Idle, ~overlapped
  PROVE  /\ \A q \in Procs \ {p} : proc[q] = Idle
         /\ Configured(EntriesOf(file), folder)
         /\ Sits(proc[p], file, folder, reported, torn)
         /\ ~torn /\ proc[p].at # "write" => reported \subseteq EntriesOf(file)
  <1>1. \A q \in Procs \ {p} : proc[q] = Idle
    BY DEF InOrder
  <1>2. proc[p].at # "write" => ~Saving
    BY <1>1 DEF Saving, Idle
  <1> QED BY <1>1, <1>2 DEF InOrder

-----------------------------------------------------------------------------
\* `tenant add` begins: the new entry is the only one without a folder.
LEMMA AddStep ==
  ASSUME CatalogProofInv, NEW p \in Procs, NEW n \in Names, AddTenant(p, n)
  PROVE  CatalogProofInv'
  <1>1. Typed /\ InOrder
    BY DEF CatalogProofInv
  <1>2. /\ proc[p] = Idle /\ file \in Seq(Entries) /\ Unique(file) /\ CanAdd(file, n)
        /\ file # Malformed
    BY <1>1 DEF AddTenant, Loads, Typed
  <1>3. PICK c : c = Added(file, n)
    OBVIOUS
  <1>4. /\ c \in Seq(Entries) /\ c # <<>> /\ Loads(c) /\ ToSet(file) \subseteq ToSet(c)
        /\ \A e \in ToSet(c) : e \in ToSet(file) \/ e.name = n
    BY <1>2, <1>3, AddedLoads
  <1>5. PICK r : r = Command("scaffold", "add", n, c)
    OBVIOUS
  <1>6. /\ r.at = "scaffold" /\ r.command = "add" /\ r.name = n /\ r.catalog = c
        /\ r \in Running
    BY <1>4, <1>5 DEF Command, Running, Stages, Commands
  <1>7. /\ proc' = [proc EXCEPT ![p] = r]
        /\ overlapped' = (overlapped \/ \E q \in Procs \ {p} : proc[q] # Idle)
        /\ torn' = torn /\ file' = file /\ folder' = folder /\ reported' = reported
    BY <1>3, <1>5 DEF AddTenant, Begin
  <1>8. ~overlapped' => ~overlapped /\ \A q \in Procs \ {p} : proc[q] = Idle
    BY <1>7
  <1>9. ASSUME ~overlapped'
        PROVE  /\ Configured(EntriesOf(file), folder)
               /\ ~torn => reported \subseteq ToSet(file)
    <2>1. ~Saving
      BY <1>2, <1>8, <1>9 DEF Saving, Idle
    <2> QED BY <1>1, <1>2, <1>8, <1>9, <2>1 DEF InOrder, EntriesOf
  <1>10. ~overlapped' => Sits(r, file', folder', reported', torn')
    BY <1>2, <1>4, <1>6, <1>7, <1>9 DEF Sits, Configured, EntriesOf
  <1>11. ~overlapped' => /\ Configured(EntriesOf(file'), folder')
                         /\ ~torn' => reported' \subseteq EntriesOf(file')
    BY <1>2, <1>7, <1>9 DEF EntriesOf
  <1>12. InOrder'
    BY <1>1, <1>6, <1>7, <1>8, <1>10, <1>11, OneActs
  <1>13. Typed'
    BY <1>1, <1>6, <1>7 DEF Typed
  <1> QED BY <1>12, <1>13 DEF CatalogProofInv

\* `tenant remove` begins: its catalogue is the file without one name.
LEMMA RemoveStep ==
  ASSUME CatalogProofInv, NEW p \in Procs, NEW n \in Names,
         NEW command \in {"remove", "purge"}, RemoveTenant(p, n, command)
  PROVE  CatalogProofInv'
  <1>1. Typed /\ InOrder
    BY DEF CatalogProofInv
  <1>2. /\ proc[p] = Idle /\ file \in Seq(Entries) /\ Unique(file) /\ n \in NamesIn(file)
        /\ file # Malformed
    BY <1>1 DEF RemoveTenant, Loads, Typed
  <1>3. PICK c : c = Removed(file, n)
    OBVIOUS
  <1>4. c \in Seq(Entries) /\ Loads(c) /\ ToSet(c) = {e \in ToSet(file) : e.name # n}
    BY <1>2, <1>3, RemovedLoads
  <1>5. PICK at, r :
          /\ at = (IF command = "purge" THEN "confirm" ELSE "save")
          /\ r = Command(at, command, n, c)
    OBVIOUS
  <1>6. /\ r.at \in {"confirm", "save"} /\ r.command # "add" /\ r.name = n /\ r.catalog = c
        /\ r \in Running
    BY <1>4, <1>5 DEF Command, Running, Stages, Commands
  <1>7. /\ proc' = [proc EXCEPT ![p] = r]
        /\ overlapped' = (overlapped \/ \E q \in Procs \ {p} : proc[q] # Idle)
        /\ torn' = torn /\ file' = file /\ folder' = folder /\ reported' = reported
    BY <1>3, <1>5 DEF RemoveTenant, Begin
  <1>8. ~overlapped' => ~overlapped /\ \A q \in Procs \ {p} : proc[q] = Idle
    BY <1>7
  <1>9. ASSUME ~overlapped'
        PROVE  /\ Configured(EntriesOf(file), folder)
               /\ ~torn => reported \subseteq ToSet(file)
    <2>1. ~Saving
      BY <1>2, <1>8, <1>9 DEF Saving, Idle
    <2> QED BY <1>1, <1>2, <1>8, <1>9, <2>1 DEF InOrder, EntriesOf
  <1>10. ~overlapped' => Sits(r, file', folder', reported', torn')
    BY <1>2, <1>4, <1>6, <1>7, <1>9 DEF Sits, Configured, EntriesOf
  <1>11. ~overlapped' => /\ Configured(EntriesOf(file'), folder')
                         /\ ~torn' => reported' \subseteq EntriesOf(file')
    BY <1>2, <1>7, <1>9 DEF EntriesOf
  <1>12. InOrder'
    BY <1>1, <1>6, <1>7, <1>8, <1>10, <1>11, OneActs
  <1>13. Typed'
    BY <1>1, <1>6, <1>7 DEF Typed
  <1> QED BY <1>12, <1>13 DEF CatalogProofInv

\* A command ends, or is killed, between two steps: nothing it did is undone, and
\* only inside its write is the file not what it was or is to be.
LEMMA EndsStep ==
  ASSUME CatalogProofInv, NEW p \in Procs, proc[p] # Idle, End(p),
         file' = file, folder' = folder, reported' = reported, overlapped' = overlapped,
         torn' \in BOOLEAN, ~torn' => ~torn /\ proc[p].at # "write"
  PROVE  CatalogProofInv'
  <1>1. Typed /\ InOrder
    BY DEF CatalogProofInv
  <1>2. proc' = [proc EXCEPT ![p] = Idle] /\ Idle \in {Idle} \union Running
    BY DEF End
  <1>3. ~overlapped' => ~overlapped /\ \A q \in Procs \ {p} : proc[q] = Idle
    BY <1>1, WhoActs
  <1>4. ~overlapped' => /\ Configured(EntriesOf(file'), folder')
                        /\ ~torn' => reported' \subseteq EntriesOf(file')
    BY <1>1, WhoActs
  <1>5. InOrder'
    BY <1>1, <1>2, <1>3, <1>4, OneActs
  <1>6. Typed'
    BY <1>1, <1>2 DEF Typed
  <1> QED BY <1>5, <1>6 DEF CatalogProofInv

\* The folders a command leaves alone keep their config.toml.
LEMMA ConfiguredStays ==
  ASSUME NEW es, NEW fo, NEW fo2, Configured(es, fo), \A e \in es : fo[e.name] \subseteq fo2[e.name]
  PROVE  Configured(es, fo2)
  BY DEF Configured

\* The command goes on to another stage before its write, adding to its folder:
\* an add has its config.toml before it saves, and only a removal is confirmed.
LEMMA GoesOnStep ==
  ASSUME CatalogProofInv, NEW p \in Procs, proc[p] # Idle,
         NEW at \in {"world", "config", "save"}, Goto(p, at),
         proc[p].at \notin {"write", "purge"},
         file' = file, reported' = reported, overlapped' = overlapped, torn' = torn,
         folder' \in [Names -> SUBSET Parts],
         \A n \in Names : folder[n] \subseteq folder'[n] /\ (folder'[n] # Absent => "dir" \in folder'[n]),
         ~overlapped /\ at = "save" /\ proc[p].command = "add" =>
           "config" \in folder'[proc[p].name]
  PROVE  CatalogProofInv'
  <1>1. Typed /\ InOrder
    BY DEF CatalogProofInv
  <1>2. PICK r \in Running : r = proc[p]
    BY <1>1, AtStage
  <1>3. PICK s : s = [r EXCEPT !.at = at]
    OBVIOUS
  <1>4. /\ s \in Running /\ s.at = at /\ s.command = r.command /\ s.name = r.name
        /\ s.catalog = r.catalog
    <2>1. at \in Stages
      BY DEF Stages
    <2> QED BY <1>3, <2>1, RunsOn
  <1>5. proc' = [proc EXCEPT ![p] = s]
    BY <1>2, <1>3, GotoReplaces
  <1>6. file \in Seq(Entries) \union {Malformed}
    BY <1>1 DEF Typed
  <1>7. ASSUME NEW es, es \subseteq Entries, Configured(es, folder) PROVE Configured(es, folder')
    <2>1. \A e \in es : folder[e.name] \subseteq folder'[e.name]
      BY <1>7 DEF Entries
    <2> QED BY <1>7, <2>1, ConfiguredStays
  <1>8. EntriesOf(file) \subseteq Entries
    BY <1>6, Positions DEF EntriesOf
  <1>9. ~overlapped' => ~overlapped /\ \A q \in Procs \ {p} : proc[q] = Idle
    BY <1>1, WhoActs
  <1>10. ~overlapped' => /\ Configured(EntriesOf(file'), folder')
                         /\ ~torn' => reported' \subseteq EntriesOf(file')
    BY <1>1, <1>7, <1>8, WhoActs
  <1>11. ~overlapped' => Sits(s, file', folder', reported', torn')
    <2> SUFFICES ASSUME ~overlapped PROVE Sits(s, file', folder', reported', torn')
      OBVIOUS
    <2>1. Sits(r, file, folder, reported, torn)
      BY <1>1, <1>2, WhoActs
    <2>2. {e \in ToSet(r.catalog) : e.name # r.name} \subseteq Entries
      BY RunningCommand
    <2>3. Configured({e \in ToSet(s.catalog) : e.name # s.name}, folder')
      BY <1>4, <1>7, <2>1, <2>2 DEF Sits
    <2>4. s.at \notin {"confirm", "purge", "write"} /\ r.at \notin {"write", "purge"}
      BY <1>2, <1>4
    <2>5. s.command = "add" /\ s.at = "save" => "config" \in folder'[s.name]
      BY <1>2, <1>4
    <2> QED BY <1>4, <2>1, <2>3, <2>4, <2>5 DEF Sits
  <1>12. InOrder'
    BY <1>1, <1>4, <1>5, <1>9, <1>10, <1>11, OneActs
  <1>13. Typed'
    BY <1>1, <1>4, <1>5 DEF Typed
  <1> QED BY <1>12, <1>13 DEF CatalogProofInv

\* Confirmation: only a removal asks for one.
LEMMA ConfirmStep ==
  ASSUME CatalogProofInv, NEW p \in Procs, Confirm(p)
  PROVE  CatalogProofInv'
  <1>1. /\ proc[p].at = "confirm" /\ proc[p] # Idle /\ Typed
        /\ file' = file /\ folder' = folder /\ reported' = reported
        /\ overlapped' = overlapped /\ torn' = torn
    BY DEF Confirm, histories, Idle, CatalogProofInv
  <1>2. torn \in BOOLEAN
    BY <1>1 DEF Typed
  <1>3. CASE End(p)
    BY <1>1, <1>2, <1>3, EndsStep
  <1>4. CASE Goto(p, "save")
    <2>1. /\ folder' \in [Names -> SUBSET Parts]
          /\ \A n \in Names : folder[n] \subseteq folder'[n] /\ (folder'[n] # Absent => "dir" \in folder'[n])
      BY <1>1 DEF Typed
    <2>2. ~overlapped => proc[p].command # "add"
      BY <1>1, WhoActs DEF CatalogProofInv, Sits
    <2> QED BY <1>1, <1>4, <2>1, <2>2, GoesOnStep
  <1> QED BY <1>3, <1>4 DEF Confirm

\* ensure_tenant_dir: a new folder begins without the files, a complete one is
\* registered as it is, and any other is refused.
LEMMA ScaffoldStep ==
  ASSUME CatalogProofInv, NEW p \in Procs, Scaffold(p)
  PROVE  CatalogProofInv'
  <1>1. /\ proc[p].at = "scaffold" /\ proc[p] # Idle /\ Typed
        /\ file' = file /\ reported' = reported
        /\ overlapped' = overlapped /\ torn' = torn
    BY DEF Scaffold, histories, Idle, CatalogProofInv
  <1>2. PICK n \in Names : n = proc[p].name
    BY <1>1, AtStage, RunningCommand
  <1>3. torn \in BOOLEAN /\ folder \in [Names -> SUBSET Parts]
        /\ \A m \in Names : folder[m] # Absent => "dir" \in folder[m]
    BY <1>1 DEF Typed
  <1>4. CASE folder[n] = Absent /\ folder' = [folder EXCEPT ![n] = {"dir"}] /\ Goto(p, "world")
    <2>1. folder' \in [Names -> SUBSET Parts]
      BY <1>3, <1>4 DEF Parts
    <2>2. \A m \in Names : folder[m] \subseteq folder'[m] /\ (folder'[m] # Absent => "dir" \in folder'[m])
      BY <1>3, <1>4 DEF Absent
    <2> QED BY <1>1, <1>4, <2>1, <2>2, GoesOnStep
  <1>5. CASE IsComplete(folder[n]) /\ Goto(p, "save") /\ UNCHANGED folder
    <2>1. folder' \in [Names -> SUBSET Parts]
      BY <1>3, <1>5
    <2>2. \A m \in Names : folder[m] \subseteq folder'[m] /\ (folder'[m] # Absent => "dir" \in folder'[m])
      BY <1>3, <1>5
    <2>3. "config" \in folder'[proc[p].name]
      BY <1>2, <1>5 DEF IsComplete
    <2> QED BY <1>1, <1>5, <2>1, <2>2, <2>3, GoesOnStep
  <1>6. CASE End(p) /\ UNCHANGED folder
    BY <1>1, <1>3, <1>6, EndsStep
  <1> QED BY <1>2, <1>4, <1>5, <1>6 DEF Scaffold

\* write_new: a part is added to the folder, config.toml before the save.
LEMMA WriteNewStep ==
  ASSUME CatalogProofInv, NEW p \in Procs, WriteWorld(p) \/ WriteConfig(p)
  PROVE  CatalogProofInv'
  <1>1. /\ proc[p].at \in {"world", "config"} /\ proc[p] # Idle /\ Typed
        /\ file' = file /\ reported' = reported
        /\ overlapped' = overlapped /\ torn' = torn
    BY DEF WriteWorld, WriteConfig, WriteNew, histories, Idle, CatalogProofInv
  <1>2. PICK n \in Names : n = proc[p].name
    BY <1>1, AtStage, RunningCommand
  <1>3. torn \in BOOLEAN /\ folder \in [Names -> SUBSET Parts]
        /\ \A m \in Names : folder[m] # Absent => "dir" \in folder[m]
    BY <1>1 DEF Typed
  <1>4. PICK part \in {"world", "config"}, next \in {"config", "save"} :
          WriteNew(p, part, next) /\ (next = "save" => part = "config")
    BY DEF WriteWorld, WriteConfig
  <1>5. CASE folder[n] = Absent
    <2>1. End(p) /\ folder' = folder
      BY <1>2, <1>4, <1>5 DEF WriteNew
    <2> QED BY <1>1, <1>3, <2>1, EndsStep
  <1>6. CASE folder[n] # Absent
    <2>1. Goto(p, next) /\ folder' = [folder EXCEPT ![n] = folder[n] \union {part}]
      BY <1>2, <1>4, <1>6 DEF WriteNew
    <2>2. folder' \in [Names -> SUBSET Parts]
      BY <1>3, <2>1 DEF Parts
    <2>3. \A m \in Names : folder[m] \subseteq folder'[m] /\ (folder'[m] # Absent => "dir" \in folder'[m])
      BY <1>3, <1>6, <2>1 DEF Absent
    <2>4. next = "save" => "config" \in folder'[proc[p].name]
      BY <1>2, <1>3, <1>4, <2>1
    <2> QED BY <1>1, <2>1, <2>2, <2>3, <2>4, GoesOnStep
  <1> QED BY <1>5, <1>6

\* The first half of a save empties the file: what it held that was reported is
\* in the catalogue about to be written.
LEMMA TruncateStep ==
  ASSUME CatalogProofInv, NEW p \in Procs, Truncate(p)
  PROVE  CatalogProofInv'
  <1>1. /\ proc[p].at = "save" /\ proc[p] # Idle /\ Typed /\ InOrder /\ Goto(p, "write")
        /\ file' = <<>> /\ folder' = folder /\ overlapped' = overlapped /\ torn' = torn
    BY DEF Truncate, histories, Idle, CatalogProofInv
  <1>2. PICK r \in Running : r = proc[p]
    BY <1>1, AtStage
  <1>3. PICK s : s = [r EXCEPT !.at = "write"]
    OBVIOUS
  <1>4. /\ s \in Running /\ s.at = "write" /\ s.command = r.command /\ s.name = r.name
        /\ s.catalog = r.catalog
    <2>1. "write" \in Stages
      BY DEF Stages
    <2> QED BY <1>3, <2>1, RunsOn
  <1>5. proc' = [proc EXCEPT ![p] = s]
    BY <1>1, <1>2, <1>3, GotoReplaces
  <1>6. /\ reported' \subseteq reported
        /\ r.command # "add" => \A e \in reported' : e.name # r.name
    BY <1>2 DEF Truncate
  <1>7. ~overlapped' => ~overlapped /\ \A q \in Procs \ {p} : proc[q] = Idle
    BY <1>1, WhoActs
  <1>8. <<>> \in Seq(Entries) /\ <<>> # Malformed /\ EntriesOf(<<>>) = {}
    <2>1. <<>> \in Seq(Entries) /\ DOMAIN <<>> = {}
      OBVIOUS
    <2> QED BY <2>1, CatalogAssumption DEF EntriesOf, ToSet
  <1>9. Configured(EntriesOf(file'), folder')
    BY <1>1, <1>8 DEF Configured
  <1>10. ~overlapped' => Sits(s, file', folder', reported', torn')
    <2> SUFFICES ASSUME ~overlapped PROVE Sits(s, file', folder', reported', torn')
      BY <1>1
    <2>1. Sits(r, file, folder, reported, torn)
      BY <1>1, <1>2, WhoActs
    <2> QED BY <1>1, <1>2, <1>4, <1>6, <2>1 DEF Sits
  <1>11. InOrder'
    BY <1>1, <1>4, <1>5, <1>7, <1>9, <1>10, OneActs
  <1>12. Typed'
    BY <1>1, <1>4, <1>5, <1>6, <1>8 DEF Typed
  <1> QED BY <1>11, <1>12 DEF CatalogProofInv

\* The second half: alone, the file becomes the catalogue, all of it configured
\* and all that was reported in it.
LEMMA WriteStep ==
  ASSUME CatalogProofInv, NEW p \in Procs, Write(p)
  PROVE  CatalogProofInv'
  <1>1. /\ proc[p].at = "write" /\ proc[p] # Idle /\ Typed /\ InOrder
        /\ folder' = folder /\ overlapped' = overlapped /\ torn' = torn
    BY DEF Write, histories, Idle, CatalogProofInv
  <1>2. PICK r \in Running : r = proc[p]
    BY <1>1, AtStage
  <1>3. PICK c \in Seq(Entries) : c = r.catalog
    BY RunningCommand
  <1>4. /\ file' \in Overlaid(c, file)
        /\ IF r.command = "purge" THEN Goto(p, "purge") ELSE End(p)
        /\ reported' = IF r.command = "add" THEN reported \union {Last(c)} ELSE reported
    BY <1>2, <1>3 DEF Write
  <1>5. file' \in Seq(Entries) \union {Malformed} /\ (file = <<>> => file' = c)
    BY <1>1, <1>4, OverlaidParses DEF Typed
  <1>6. ToSet(c) \subseteq Entries /\ (r.command = "add" => Last(c) \in ToSet(c)) /\ c # Malformed
    BY <1>3, RunningCommand, CatalogAssumption
  <1>7. ~overlapped' => ~overlapped /\ \A q \in Procs \ {p} : proc[q] = Idle
    BY <1>1, WhoActs
  <1>8. ASSUME ~overlapped
        PROVE  /\ EntriesOf(file') = ToSet(c) /\ Configured(EntriesOf(file'), folder')
               /\ ~torn => reported' \subseteq EntriesOf(file')
               /\ r.command # "add" => \A e \in ToSet(c) : e.name # r.name
    <2>1. Sits(r, file, folder, reported, torn)
      BY <1>1, <1>2, <1>8, WhoActs
    <2>2. EntriesOf(file') = ToSet(c)
      BY <1>1, <1>2, <1>5, <1>6, <2>1 DEF Sits, EntriesOf
    <2>3. Configured(ToSet(c), folder)
      BY <1>1, <1>2, <1>3, <2>1 DEF Sits, Configured
    <2>4. ~torn => reported' \subseteq ToSet(c)
      BY <1>1, <1>2, <1>3, <1>4, <1>6, <2>1 DEF Sits
    <2> QED BY <1>1, <1>3, <2>1, <2>2, <2>3, <2>4 DEF Sits
  <1>9. reported' \subseteq Entries
    BY <1>1, <1>4, <1>6 DEF Typed
  <1>10. CASE r.command = "purge"
    <2>1. PICK s : s = [r EXCEPT !.at = "purge"]
      OBVIOUS
    <2>2. /\ s \in Running /\ s.at = "purge" /\ s.command = r.command /\ s.name = r.name
          /\ s.catalog = r.catalog
      <3>1. "purge" \in Stages
        BY DEF Stages
      <3> QED BY <2>1, <3>1, RunsOn
    <2>3. proc' = [proc EXCEPT ![p] = s]
      BY <1>2, <1>4, <1>10, <2>1, GotoReplaces
    <2>4. ~overlapped' => Sits(s, file', folder', reported', torn')
      <3> SUFFICES ASSUME ~overlapped PROVE Sits(s, file', folder', reported', torn')
        BY <1>1
      <3>1. Sits(r, file, folder, reported, torn)
        BY <1>1, <1>2, WhoActs
      <3> QED BY <1>1, <1>2, <1>3, <1>8, <1>10, <2>2, <3>1 DEF Sits
    <2>5. InOrder'
      BY <1>1, <1>7, <1>8, <2>2, <2>3, <2>4, OneActs
    <2>6. Typed'
      BY <1>1, <1>5, <1>9, <2>2, <2>3 DEF Typed
    <2> QED BY <2>5, <2>6 DEF CatalogProofInv
  <1>11. CASE r.command # "purge"
    <2>1. proc' = [proc EXCEPT ![p] = Idle]
      BY <1>4, <1>11 DEF End
    <2>2. Idle \in {Idle} \union Running
      OBVIOUS
    <2>3. InOrder'
      BY <1>1, <1>7, <1>8, <2>1, <2>2, OneActs
    <2>4. Typed'
      BY <1>1, <1>5, <1>9, <2>1 DEF Typed
    <2> QED BY <2>3, <2>4 DEF CatalogProofInv
  <1> QED BY <1>10, <1>11

\* A write cut short: what is left of the catalogue is still configured.
LEMMA WriteFailsStep ==
  ASSUME CatalogProofInv, NEW p \in Procs, WriteFails(p)
  PROVE  CatalogProofInv'
  <1>1. /\ proc[p].at = "write" /\ proc[p] # Idle /\ Typed /\ InOrder
        /\ folder' = folder /\ overlapped' = overlapped /\ torn' = TRUE /\ reported' = reported
        /\ proc' = [proc EXCEPT ![p] = Idle]
    BY DEF WriteFails, End, Idle, CatalogProofInv
  <1>2. PICK r \in Running : r = proc[p]
    BY <1>1, AtStage
  <1>3. PICK c \in Seq(Entries) : c = r.catalog
    BY RunningCommand
  <1>4. file' \in Seq(Entries) \union {Malformed} /\ EntriesOf(file') \subseteq ToSet(c)
    BY <1>2, <1>3, CutParses DEF WriteFails
  <1>5. ~overlapped' => ~overlapped /\ \A q \in Procs \ {p} : proc[q] = Idle
    BY <1>1, WhoActs
  <1>6. ~overlapped' => Configured(EntriesOf(file'), folder')
    <2> SUFFICES ASSUME ~overlapped PROVE Configured(EntriesOf(file'), folder)
      BY <1>1
    <2>1. Sits(r, file, folder, reported, torn)
      BY <1>1, <1>2, WhoActs
    <2>2. Configured(ToSet(c), folder)
      BY <1>1, <1>2, <1>3, <2>1 DEF Sits, Configured
    <2> QED BY <1>4, <2>2 DEF Configured
  <1>7. Idle \in {Idle} \union Running
    OBVIOUS
  <1>8. InOrder'
    BY <1>1, <1>5, <1>6, <1>7, OneActs
  <1>9. Typed'
    BY <1>1, <1>4 DEF Typed
  <1> QED BY <1>8, <1>9 DEF CatalogProofInv

\* remove_dir_all: only the folder of a tenant out of the file is taken apart.
LEMMA PurgeStep ==
  ASSUME CatalogProofInv, NEW p \in Procs, Purge(p)
  PROVE  CatalogProofInv'
  <1>1. /\ proc[p].at = "purge" /\ proc[p] # Idle /\ Typed /\ InOrder
        /\ file' = file /\ overlapped' = overlapped /\ torn' = torn /\ reported' = reported
    BY DEF Purge, histories, Idle, CatalogProofInv
  <1>2. PICK r \in Running : r = proc[p]
    BY <1>1, AtStage
  <1>3. PICK n \in Names : n = r.name
    BY RunningCommand
  <1>4. /\ folder \in [Names -> SUBSET Parts]
        /\ \A m \in Names : folder[m] # Absent => "dir" \in folder[m]
    BY <1>1 DEF Typed
  <1>5. /\ folder' \in [Names -> SUBSET Parts]
        /\ \A m \in Names : folder'[m] # Absent => "dir" \in folder'[m]
        /\ \A m \in Names \ {n} : folder'[m] = folder[m]
        /\ proc' = proc \/ proc' = [proc EXCEPT ![p] = Idle]
    <2>1. CASE \E part \in folder[n] \ {"dir"} : folder' = [folder EXCEPT ![n] = folder[n] \ {part}]
               /\ UNCHANGED proc
      BY <1>4, <2>1 DEF Absent
    <2>2. CASE folder' = [folder EXCEPT ![n] = Absent] /\ End(p)
      BY <1>4, <2>2 DEF Absent, End
    <2> QED BY <1>2, <1>3, <2>1, <2>2 DEF Purge
  <1>6. ~overlapped' => ~overlapped /\ \A q \in Procs \ {p} : proc[q] = Idle
    BY <1>1, WhoActs
  <1>7. file \in Seq(Entries) \union {Malformed} /\ EntriesOf(file) \subseteq Entries
        /\ ToSet(r.catalog) \subseteq Entries
    BY <1>1, Positions, RunningCommand DEF Typed, EntriesOf
  <1>8. ASSUME ~overlapped
        PROVE  /\ Configured(EntriesOf(file'), folder')
               /\ ~torn => reported' \subseteq EntriesOf(file')
               /\ Sits(r, file', folder', reported', torn')
    <2>1. Sits(r, file, folder, reported, torn) /\ Configured(EntriesOf(file), folder)
          /\ (~torn => reported \subseteq EntriesOf(file))
      BY <1>1, <1>2, <1>8, WhoActs
    <2>2. ASSUME NEW e \in Entries, e.name # r.name PROVE folder'[e.name] = folder[e.name]
      BY <1>3, <1>5, <2>2 DEF Entries
    <2>3. \A e \in EntriesOf(file) : e.name # r.name
      BY <1>1, <1>2, <2>1 DEF Sits
    <2>4. Configured(EntriesOf(file'), folder')
      BY <1>1, <1>7, <2>1, <2>2, <2>3 DEF Configured
    <2>5. Configured({e \in ToSet(r.catalog) : e.name # r.name}, folder')
      BY <1>7, <2>1, <2>2 DEF Sits, Configured
    <2> QED BY <1>1, <1>2, <2>1, <2>4, <2>5 DEF Sits
  <1>9. CASE proc' = proc
    <2>1. proc' = [proc EXCEPT ![p] = r] /\ r \in {Idle} \union Running
      BY <1>1, <1>2, <1>9 DEF Typed
    <2>2. InOrder'
      BY <1>1, <1>6, <1>8, <2>1, OneActs
    <2>3. Typed'
      BY <1>1, <1>5, <1>9 DEF Typed
    <2> QED BY <2>2, <2>3 DEF CatalogProofInv
  <1>10. CASE proc' = [proc EXCEPT ![p] = Idle]
    <2>1. Idle \in {Idle} \union Running
      OBVIOUS
    <2>2. InOrder'
      BY <1>1, <1>6, <1>8, <1>10, <2>1, OneActs
    <2>3. Typed'
      BY <1>1, <1>5, <1>10 DEF Typed
    <2> QED BY <2>2, <2>3 DEF CatalogProofInv
  <1> QED BY <1>5, <1>9, <1>10

\* A command is killed at any stage.
LEMMA CrashStep ==
  ASSUME CatalogProofInv, NEW p \in Procs, Crash(p)
  PROVE  CatalogProofInv'
  <1>1. /\ proc[p] # Idle /\ End(p) /\ torn' = (torn \/ proc[p].at = "write")
        /\ file' = file /\ folder' = folder /\ reported' = reported /\ overlapped' = overlapped
    BY DEF Crash
  <1>2. torn' \in BOOLEAN /\ (~torn' => ~torn /\ proc[p].at # "write")
    BY <1>1 DEF CatalogProofInv, Typed
  <1> QED BY <1>1, <1>2, EndsStep

\* At first no command runs, and the tenants of the file have their folders.
LEMMA InitInOrder == Init => CatalogProofInv
  <1> SUFFICES ASSUME Init PROVE CatalogProofInv
    OBVIOUS
  <1>1. PICK f : f = file
    OBVIOUS
  <1>2. /\ f \in Seq(Entries) /\ f # Malformed
        /\ folder = [n \in Names |-> IF n \in NamesIn(f) THEN Parts ELSE Absent]
        /\ proc = [p \in Procs |-> Idle] /\ reported = {} /\ overlapped = FALSE /\ torn = FALSE
    <2>1. <<>> \in Seq(Entries)
      BY EmptySeq
    <2> QED BY <1>1, <2>1, CatalogAssumption DEF Init
  <1>3. EntriesOf(f) = ToSet(f) /\ ToSet(f) \subseteq Entries
    BY <1>2, Positions DEF EntriesOf
  <1>4. Configured(EntriesOf(f), folder)
    <2> SUFFICES ASSUME NEW e \in ToSet(f) PROVE "config" \in folder[e.name]
      BY <1>3 DEF Configured
    <2>1. e.name \in Names /\ e.name \in NamesIn(f)
      BY <1>3 DEF Entries, NamesIn
    <2> QED BY <1>2, <2>1 DEF Parts
  <1>5. Typed
    BY <1>1, <1>2 DEF Typed, Parts, Absent
  <1>6. InOrder
    BY <1>1, <1>2, <1>4 DEF InOrder
  <1> QED BY <1>5, <1>6 DEF CatalogProofInv

\* Every step of every command keeps catalogue and folders in order.
LEMMA StepInOrder == CatalogProofInv /\ [Next]_vars => CatalogProofInv'
  <1> SUFFICES ASSUME CatalogProofInv, [Next]_vars PROVE CatalogProofInv'
    OBVIOUS
  <1>1. CASE UNCHANGED vars
    BY <1>1 DEF vars, histories, CatalogProofInv, Typed, InOrder, Saving
  <1>2. ASSUME NEW p \in Procs, NEW n \in Names, AddTenant(p, n) PROVE CatalogProofInv'
    BY <1>2, AddStep
  <1>3. ASSUME NEW p \in Procs, NEW n \in Names, NEW command \in {"remove", "purge"},
               RemoveTenant(p, n, command)
        PROVE  CatalogProofInv'
    BY <1>3, RemoveStep
  <1>4. ASSUME NEW p \in Procs,
               Confirm(p) \/ Scaffold(p) \/ WriteWorld(p) \/ WriteConfig(p)
        PROVE  CatalogProofInv'
    BY <1>4, ConfirmStep, ScaffoldStep, WriteNewStep
  <1>5. ASSUME NEW p \in Procs,
               Truncate(p) \/ Write(p) \/ WriteFails(p) \/ Purge(p) \/ Crash(p)
        PROVE  CatalogProofInv'
    BY <1>5, TruncateStep, WriteStep, WriteFailsStep, PurgeStep, CrashStep
  <1> QED BY <1>1, <1>2, <1>3, <1>4, <1>5 DEF Next

-----------------------------------------------------------------------------
\* Of any number of tenants, ports, tags and commands: file, folders and running
\* commands fit one another in every state.
THEOREM CatalogCorrect == Spec => []CatalogProofInv
  <1>1. Init => CatalogProofInv
    BY InitInOrder
  <1>2. CatalogProofInv /\ [Next]_vars => CatalogProofInv'
    BY StepInOrder
  <1> QED BY <1>1, <1>2, PTL DEF Spec

\* However many commands run at once and wherever they are killed, a file that
\* parses has entries in range, and a catalogue a command goes on to save has no
\* two tenants of one name, port or tag (catalog.rs load, add).
THEOREM CatalogSound == Spec => []CatalogInv
  <1>1. CatalogProofInv => CatalogInv
    <2> SUFFICES ASSUME Typed PROVE CatalogInv
      BY DEF CatalogProofInv
    <2>1. ASSUME NEW p \in Procs, proc[p] # Idle
          PROVE  /\ proc[p].at \in Stages /\ proc[p].command \in Commands /\ proc[p].name \in Names
                 /\ proc[p].catalog \in Seq(Entries) /\ Loads(proc[p].catalog)
      BY <2>1, AtStage, RunningCommand
    <2>2. SavedLoads
      BY <2>1 DEF SavedLoads
    <2>3. CatalogTypeOK
      BY <2>1 DEF CatalogTypeOK, Typed, Stages, Commands
    <2> QED BY <2>2, <2>3 DEF CatalogInv
  <1> QED BY <1>1, CatalogCorrect, PTL

\* Of commands that run one after another: an entry an add reported stays, with
\* its port and tag, until a removal of its name is confirmed (tenant.rs add,
\* remove).
THEOREM CatalogAddedStays == Spec => []AddedStays
  <1>1. CatalogProofInv => AddedStays
    BY DEF CatalogProofInv, InOrder, AddedStays, EntriesOf, Listed
  <1> QED BY <1>1, CatalogCorrect, PTL

\* Of commands that run one after another: a tenant in the file has a folder with
\* a config.toml, wherever a command is killed or its write cut (tenant.rs,
\* scaffold.rs).
THEOREM CatalogConfigured == Spec => []RegisteredHasConfig
  <1>1. CatalogProofInv => RegisteredHasConfig
    BY DEF CatalogProofInv, InOrder, RegisteredHasConfig, EntriesOf, Listed, Configured
  <1> QED BY <1>1, CatalogCorrect, PTL

==============================================================================
