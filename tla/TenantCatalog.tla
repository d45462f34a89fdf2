---------------------------- MODULE TenantCatalog ----------------------------
(***************************************************************************)
(* The commands `mudd tenant add` and `mudd tenant remove [--purge]`       *)
(* (mudd tenant.rs) over the catalogue file (catalog.rs) and the tenants'  *)
(* folders (scaffold.rs).  Each command is a process of its own: it loads  *)
(* the catalogue, changes its copy, and replaces the file without a lock   *)
(* and without a rename, so commands interleave and a kill or a full disk  *)
(* may come between any two steps.                                         *)
(***************************************************************************)
EXTENDS Naturals, Sequences, FiniteSets, SequencesExt

CONSTANTS
  Names,      (* tenant names that parse                                    *)
  Procs,      (* processes: how many commands may run at once               *)
  BasePort,   (* base_port of the settings                                  *)
  MaxPort,    (* u16::MAX                                                   *)
  MaxTag,     (* TenantTag::MAX                                             *)
  Malformed,  (* a catalogue file that does not parse                       *)
  HandEdits   (* catalogues an operator may have written by hand            *)

\* What an entry of a file that parses holds.
Entries == [name : Names, port : 0 .. MaxPort, tag : 1 .. MaxTag]

ASSUME CatalogAssumption ==
  /\ BasePort \in Nat /\ MaxPort \in Nat /\ MaxTag \in Nat
  /\ HandEdits \subseteq Seq(Entries) /\ Malformed \notin Seq(Entries)

VARIABLES
  file,      (* catalog.toml: its entries in order, or Malformed            *)
  folder,    (* each name's folder under tenants_dir: what exists of it     *)
  proc,      (* each process: its command, where it is, and its catalogue   *)
  reported,  (* history: the entries an `add` has reported and no `remove`
                has begun to take out                                       *)
  overlapped, (* history: whether a command began while another ran         *)
  torn        (* history: whether a write of the file was cut short         *)

histories == <<overlapped, torn>>
vars      == <<file, folder, proc, reported, histories>>

\* The parts of a folder: the directory, the world files, config.toml.
Parts  == {"dir", "world", "config"}
Absent == {}
Idle   == [at |-> "idle"]

-----------------------------------------------------------------------------
(* Catalog.                                                                *)
Entry(n, port, tag) == [name |-> n, port |-> port, tag |-> tag]
NamesIn(c) == {e.name : e \in ToSet(c)}
PortsIn(c) == {e.port : e \in ToSet(c)}
TagsIn(c)  == {e.tag  : e \in ToSet(c)}

\* load: what it accepts.
Unique(c) ==
  \A i, j \in DOMAIN c :
    i # j => /\ c[i].name # c[j].name
             /\ c[i].port # c[j].port
             /\ c[i].tag  # c[j].tag
Loads(f) == f # Malformed /\ Unique(f) /\ TagsIn(f) \subseteq 1 .. MaxTag

\* add: the values free for a new tenant; the lowest of each is assigned.
FreePorts(c) == (BasePort .. MaxPort) \ PortsIn(c)
\* Tags with a bug: counted on from the number of tenants.
FreeTagsByCount(c) == {Len(c) + 1} \cap 1 .. MaxTag
FreeTags(c)  == (1 .. MaxTag) \ TagsIn(c)
LowestOf(S) == CHOOSE v \in S : \A w \in S : v <= w

CanAdd(c, n) == n \notin NamesIn(c) /\ FreePorts(c) # {} /\ FreeTags(c) # {}
Added(c, n)  == Append(c, Entry(n, LowestOf(FreePorts(c)), LowestOf(FreeTags(c))))

\* remove: the entry of that name goes and the rest close up.  With a bug: the
\* last entry takes its place and its port.
PositionOf(c, n) == CHOOSE k \in DOMAIN c : c[k].name = n
RemovedSwapped(c, n) ==
  LET i == PositionOf(c, n)
  IN  IF i = Len(c) THEN Front(c)
      ELSE [Front(c) EXCEPT ![i] = [Last(c) EXCEPT !.port = c[i].port]]
Removed(c, n) == RemoveAt(c, PositionOf(c, n))

-----------------------------------------------------------------------------
\* The type invariant.  It holds more than types: whatever the commands do to
\* each other's writes, every file that parses keeps its tags in range.
CatalogTypeOK ==
  /\ file = Malformed \/ file \in Seq(Entries)
  /\ folder \in [Names -> SUBSET Parts]
  /\ \A n \in Names : folder[n] # Absent => "dir" \in folder[n]
  /\ \A p \in Procs : proc[p] # Idle =>
       /\ proc[p].at \in {"scaffold", "world", "config", "confirm", "save",
                          "write", "purge"}
       /\ proc[p].command \in {"add", "remove", "purge"}
       /\ proc[p].name \in Names
       /\ proc[p].catalog \in Seq(Entries)
  /\ reported \subseteq Entries
  /\ overlapped \in BOOLEAN /\ torn \in BOOLEAN

\* A catalogue an operator wrote has folders for the tenants it names.
Init ==
  /\ file \in HandEdits \cup {<<>>}
  /\ folder = [n \in Names |-> IF n \in NamesIn(file) THEN Parts ELSE Absent]
  /\ proc = [p \in Procs |-> Idle]
  /\ reported = {} /\ overlapped = FALSE /\ torn = FALSE

-----------------------------------------------------------------------------
Command(at, command, n, c) ==
  [at |-> at, command |-> command, name |-> n, catalog |-> c]
Begin(p, command) ==
  /\ proc' = [proc EXCEPT ![p] = command]
  /\ overlapped' = (overlapped \/ \E q \in Procs \ {p} : proc[q] # Idle)
  /\ UNCHANGED torn
Goto(p, at) == proc' = [proc EXCEPT ![p].at = at]
End(p)      == proc' = [proc EXCEPT ![p] = Idle]

\* tenant::add as far as the catalogue in memory.
AddTenant(p, n) ==
  /\ proc[p] = Idle
  /\ Loads(file) /\ CanAdd(file, n)
  /\ Begin(p, Command("scaffold", "add", n, Added(file, n)))
  /\ UNCHANGED <<file, folder, reported>>

\* tenant::remove as far as the catalogue in memory.
RemoveTenant(p, n, command) ==
  /\ proc[p] = Idle
  /\ Loads(file) /\ n \in NamesIn(file)
  /\ Begin(p, Command(IF command = "purge" THEN "confirm" ELSE "save",
                      command, n, Removed(file, n)))
  /\ UNCHANGED <<file, folder, reported>>

\* The operator types the tenant's name, or something else.
Confirm(p) ==
  /\ proc[p].at = "confirm"
  /\ Goto(p, "save") \/ End(p)
  /\ UNCHANGED <<file, folder, reported, histories>>

\* Whether ensure_tenant_dir registers a folder that exists.  With a bug: any.
IsAnyFolder(parts) == "dir" \in parts
IsComplete(parts) == "config" \in parts

\* ensure_tenant_dir: an existing folder is registered or refused, and a new
\* one is made in three steps, config.toml last.
Scaffold(p) ==
  LET n == proc[p].name IN
  /\ proc[p].at = "scaffold"
  /\ \/ /\ folder[n] = Absent
        /\ folder' = [folder EXCEPT ![n] = {"dir"}]
        /\ Goto(p, "world")
     \/ folder[n] # Absent /\ IsComplete(folder[n])
        /\ Goto(p, "save") /\ UNCHANGED folder
     \/ folder[n] # Absent /\ ~IsComplete(folder[n])
        /\ End(p) /\ UNCHANGED folder
  /\ UNCHANGED <<file, reported, histories>>

\* write_new: it fails when the folder has been deleted meanwhile.
WriteNew(p, part, next) ==
  LET n == proc[p].name IN
  /\ IF folder[n] = Absent
     THEN End(p) /\ UNCHANGED folder
     ELSE Goto(p, next) /\ folder' = [folder EXCEPT ![n] = @ \cup {part}]
  /\ UNCHANGED <<file, reported, histories>>
WriteWorld(p)  == proc[p].at = "world"  /\ WriteNew(p, "world", "config")
WriteConfig(p) == proc[p].at = "config" /\ WriteNew(p, "config", "save")

\* Catalog::save, first half: fs::write opens the file and truncates it.
\* From here on a `remove` is no longer undone.
Truncate(p) ==
  /\ proc[p].at = "save"
  /\ file' = <<>>
  /\ Goto(p, "write")
  /\ reported' = IF proc[p].command = "add" THEN reported
                 ELSE {e \in reported : e.name # proc[p].name}
  /\ UNCHANGED <<folder, histories>>

\* What is left of a file that held f once c is written over its start.
Overlaid(c, f) ==
  IF f = <<>> THEN {c}
  ELSE {Malformed} \cup
       (IF f = Malformed THEN {} ELSE {c \o SubSeq(f, Len(c) + 1, Len(f))})

\* Second half: the text is written, the command reports (add), goes on to
\* delete the folder (purge) or ends.
Write(p) ==
  LET c == proc[p].catalog IN
  /\ proc[p].at = "write"
  /\ file' \in Overlaid(c, file)
  /\ IF proc[p].command = "purge" THEN Goto(p, "purge") ELSE End(p)
  /\ reported' = IF proc[p].command = "add" THEN reported \cup {Last(c)}
                 ELSE reported
  /\ UNCHANGED <<folder, histories>>

\* What a write of c may leave when it is cut: whole entries, or half of one.
CutShort(c) == {SubSeq(c, 1, k) : k \in 0 .. Len(c)} \cup {Malformed}

\* The disk fills up or the process dies inside the write.
WriteFails(p) ==
  /\ proc[p].at = "write"
  /\ file' \in CutShort(proc[p].catalog)
  /\ End(p) /\ torn' = TRUE
  /\ UNCHANGED <<folder, reported, overlapped>>

\* remove_dir_all: the contents in any order, then the directory; it fails on
\* a folder that is not there.
Purge(p) ==
  LET n == proc[p].name IN
  /\ proc[p].at = "purge"
  /\ \/ /\ folder[n] \ {"dir"} # {}
        /\ \E part \in folder[n] \ {"dir"} :
             folder' = [folder EXCEPT ![n] = @ \ {part}]
        /\ UNCHANGED proc
     \/ /\ folder[n] \subseteq {"dir"}
        /\ folder' = [folder EXCEPT ![n] = Absent]
        /\ End(p)
  /\ UNCHANGED <<file, reported, histories>>

\* The process is killed, or a file operation of its next step fails.  Between
\* the two halves of save that is a write cut short.
Crash(p) ==
  /\ proc[p] # Idle
  /\ End(p) /\ torn' = (torn \/ proc[p].at = "write")
  /\ UNCHANGED <<file, folder, reported, overlapped>>

Next ==
  \E p \in Procs :
    \/ \E n \in Names : AddTenant(p, n)
    \/ \E n \in Names, command \in {"remove", "purge"} : RemoveTenant(p, n, command)
    \/ Confirm(p)
    \/ Scaffold(p)
    \/ WriteWorld(p)
    \/ WriteConfig(p)
    \/ Truncate(p)
    \/ Write(p)
    \/ WriteFails(p)
    \/ Purge(p)
    \/ Crash(p)

Spec == Init /\ [][Next]_vars

-----------------------------------------------------------------------------
(* Properties.                                                             *)
Listed == IF file = Malformed THEN {} ELSE ToSet(file)
Saving == \E p \in Procs : proc[p].at = "write"

\* Of commands that run one after another: what `add` has reported stays in the
\* catalogue, with the port and the tag it reported, until a `remove` of that
\* name is confirmed (tenant.rs:12-14, 45-52).  Neither a refused confirmation,
\* nor the removal of another tenant, nor a command killed anywhere but inside
\* its write may take or change it.
AddedStays == overlapped \/ torn \/ Saving \/ reported \subseteq Listed

\* Of commands that run one after another: a tenant the catalogue names has a
\* folder with a config.toml, wherever a command is killed and however its
\* write is cut.  The folder comes before the entry (tenant.rs:20-21) and goes
\* after it (tenant.rs:79-82), and one some command left unfinished is refused.
RegisteredHasConfig == overlapped \/ \A e \in Listed : "config" \in folder[e.name]

\* A catalogue a command goes on to save would load again: no two tenants share
\* a name, a port or a tag, also when commands overwrite each other's file
\* (catalog.rs:82-85).
SavedLoads == \A p \in Procs : proc[p] # Idle => Loads(proc[p].catalog)

\* The two together: what is in the file and what a command is about to put
\* there are well formed.
CatalogInv == CatalogTypeOK /\ SavedLoads
=============================================================================
