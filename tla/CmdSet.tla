-------------------------------- MODULE CmdSet --------------------------------
(***************************************************************************)
(* The merge of command sets into one table, and the lookup of a typed     *)
(* word in it (mud-cmd cmdset.rs, trie.rs, parser.rs), as the layers of a  *)
(* caller use them (mud-engine layers.rs).  Layers contribute sets one     *)
(* after another; the table is a function of the sets in their order.      *)
(***************************************************************************)
EXTENDS Integers, Sequences, FiniteSets, SequencesExt

CONSTANTS
  NameOrder,   (* the canonical names, as BTreeSet<CommandName> orders them *)
  Bundles,     (* the command lists a layer may contribute: sequences of
                  records [name, aliases], each token a sequence of letters *)
  Priorities,  (* the levels of the layers                                  *)
  MaxSets      (* bound: sets of one merge                                  *)

VARIABLE sets  (* the sets contributed so far: [priority, mergetype, commands] *)

MergeTypes == {"Union", "Replace", "Remove"}
NoCommand == [found |-> FALSE]

-----------------------------------------------------------------------------
(* CmdSet::merge.                                                          *)

\* Every command of every set, in the order the loops meet them.
Contributions(ss) ==
  FlattenSeq([i \in DOMAIN ss |->
    [j \in DOMAIN ss[i].commands |->
      [found |-> TRUE, priority |-> ss[i].priority,
       mergetype |-> ss[i].mergetype, command |-> ss[i].commands[j]]]])

\* keep_higher.
KeepHigher(best, c) ==
  IF ~best.found \/ c.priority > best.priority THEN c ELSE best

\* resolve_name, with a bug in the first: Remove by priority.
ResolveByPriority(ss, name) ==
  LET mine == SelectSeq(Contributions(ss), LAMBDA c : c.command.name = name)
      best == FoldLeft(KeepHigher, NoCommand, mine)
  IN  IF best.found /\ best.mergetype = "Remove" THEN NoCommand ELSE best
ResolveName(ss, name) ==
  LET mine    == SelectSeq(Contributions(ss), LAMBDA c : c.command.name = name)
      By(t)   == SelectSeq(mine, LAMBDA c : c.mergetype = t)
      Best(t) == FoldLeft(KeepHigher, NoCommand, By(t))
  IN  IF By("Remove") # <<>> THEN NoCommand
      ELSE IF Best("Replace").found THEN Best("Replace")
      ELSE Best("Union")

\* The surviving commands in canonical-name order.
Resolved(ss) ==
  LET best == [i \in DOMAIN NameOrder |-> ResolveName(ss, NameOrder[i])]
  IN  SelectSeq(best, LAMBDA c : c.found)

Aliases(c) == ToSet(c.command.aliases)
Tokens(c)  == {c.command.name} \cup Aliases(c)

\* The rank order of claims on a token: r[i] claims it, and so does r[j].  With
\* a bug in the first: a canonical name beats an alias of any priority.
OutranksByKind(r, t, i, j) ==
  LET Canonical(k) == r[k].command.name = t
  IN  IF Canonical(i) # Canonical(j) THEN Canonical(i)
      ELSE \/ r[i].priority > r[j].priority
           \/ r[i].priority = r[j].priority /\ i < j
Outranks(r, t, i, j) ==
  LET Canonical(k) == r[k].command.name = t
  IN  IF r[i].priority # r[j].priority THEN r[i].priority > r[j].priority
      ELSE IF Canonical(i) # Canonical(j) THEN Canonical(i)
      ELSE i < j

Claimants(r, t) == {i \in DOMAIN r : t \in Tokens(r[i])}
Claimed(r) == UNION {Tokens(r[i]) : i \in DOMAIN r}

\* settle_token_ownership: the index of each token's owner, as the trie holds
\* it.
Owners(r) ==
  [t \in Claimed(r) |->
    CHOOSE i \in Claimants(r, t) :
      \A j \in Claimants(r, t) \ {i} : Outranks(r, t, i, j)]

Merge(ss) == LET r == Resolved(ss) IN [commands |-> r, owner |-> Owners(r)]

-----------------------------------------------------------------------------
(* PrefixTrie::lookup and CommandTable::parse.                             *)
Extending(table, t) == {u \in DOMAIN table.owner : IsPrefix(t, u)}

\* The indices a typed word may mean: one when it is a token, else every owner
\* of a token it is a prefix of.  With a bug in the first: prefixes always.
CandidatesByPrefix(table, t) == {table.owner[u] : u \in Extending(table, t)}
Candidates(table, t) ==
  IF t \in DOMAIN table.owner THEN {table.owner[t]}
  ELSE {table.owner[u] : u \in Extending(table, t)}

\* parse: the commands a word matches; one is run, several are listed, an index
\* the table does not hold is not found.
Meant(table, t) ==
  {table.commands[i].command : i \in Candidates(table, t) \cap DOMAIN table.commands}

-----------------------------------------------------------------------------
\* The type invariant, of the sets and of the table they merge to: commands in
\* canonical-name order, none twice, and every owner one of them.
CmdSetTypeOK ==
  LET table == Merge(sets)
      At(c) == CHOOSE k \in DOMAIN NameOrder : NameOrder[k] = c.command.name
  IN  /\ sets \in Seq([priority : Priorities, mergetype : MergeTypes, commands : Bundles])
      /\ Len(sets) <= MaxSets
      /\ \A i, j \in DOMAIN table.commands :
           i < j => At(table.commands[i]) < At(table.commands[j])
      /\ \A t \in DOMAIN table.owner : table.owner[t] \in DOMAIN table.commands

NoSets == sets = <<>>

\* push_layer, or an author's set with another merge type.
Contribute(priority, mergetype, commands) ==
  /\ Len(sets) < MaxSets
  /\ sets' = Append(sets, [priority |-> priority, mergetype |-> mergetype,
                           commands |-> commands])

-----------------------------------------------------------------------------
(* Properties.                                                             *)
Words == UNION {{SubSeq(t, 1, k) : k \in 1 .. Len(t)} :
                 t \in Claimed(Contributions(sets))}

\* The rules of cmdset.rs:7-13, stated without a loop: a name survives unless
\* some set removes it, and its command is that of the first contribution of
\* highest priority among the Replaces, or among the Unions when there is none.
MergesAsDocumented ==
  LET cs    == Contributions(sets)
      table == Merge(sets)
      Of(n, t) == {k \in DOMAIN cs : cs[k].command.name = n /\ cs[k].mergetype = t}
      Wins(k, K) ==
        /\ k \in K
        /\ \A l \in K : \/ cs[k].priority > cs[l].priority
                        \/ cs[k].priority = cs[l].priority /\ k <= l
  IN  \A n \in ToSet(NameOrder) :
        LET K == IF Of(n, "Replace") # {} THEN Of(n, "Replace") ELSE Of(n, "Union")
            won == {i \in DOMAIN table.commands : table.commands[i].command.name = n}
        IN  IF Of(n, "Remove") # {} \/ K = {} THEN won = {}
            ELSE \E i \in won, k \in K :
                   /\ won = {i} /\ Wins(k, K)
                   /\ table.commands[i].command = cs[k].command

\* The two together: the table is in order and holds what the rules give it.
CmdSetInv == CmdSetTypeOK /\ MergesAsDocumented

\* What a word runs answers to it (parser.rs:141-143, trie.rs:1-7): a word that
\* is a token of a surviving command means one command and that one has the
\* token; any other word means only commands with a token it abbreviates.
RunsWhatAnswers ==
  LET table == Merge(sets)
  IN  \A w \in Words :
        LET exact == \E i \in DOMAIN table.commands : w \in Tokens(table.commands[i])
        IN  /\ exact => /\ Cardinality(Meant(table, w)) = 1
                        /\ \A c \in Meant(table, w) : w \in {c.name} \cup ToSet(c.aliases)
            /\ \A c \in Meant(table, w) :
                 \E t \in {c.name} \cup ToSet(c.aliases) : IsPrefix(w, t)

\* Every word that is a token of the table of the sets before the last one
\* means the same in the table with it.
KeepsTokens ==
  LET before == Merge(Front(sets))
      after  == Merge(sets)
  IN  \A t \in DOMAIN before.owner : Meant(after, t) = Meant(before, t)

\* A layer below all others never changes what a word they answer to means,
\* whatever names and aliases it brings (layers.rs:6-11): a channel's command
\* never shadows a more local one.
LowerNeverShadows ==
  (/\ sets # <<>>
   /\ Last(sets).mergetype = "Union"
   /\ \A i \in 1 .. Len(sets) - 1 : Last(sets).priority < sets[i].priority)
  => KeepsTokens
=============================================================================
