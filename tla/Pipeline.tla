------------------------------- MODULE Pipeline -------------------------------
(***************************************************************************)
(* A line of a player on its way through the engine (mud-engine            *)
(* pipeline.rs, dispatch.rs, builtins/, presence.rs; mudd world_loop.rs):  *)
(* the caller is resolved, the layers merged, the words looked up, the     *)
(* lock asked, the handler run over a world it only reads; its reply goes  *)
(* to the caller, its broadcasts to whoever has a session in a room, and   *)
(* its effects to the queue of the next tick.  The commands on items are   *)
(* in WorldLoop.  Before the first line an author wires layers or writes a *)
(* lock.                                                                   *)
(***************************************************************************)
EXTENDS CmdSet, Locks, Messages

CONSTANTS
  Sids,        (* the session ids                                           *)
  NoPuppet,    (* a session that is not in the world                        *)
  PuppetOrder, (* the puppets, in the order of their names                  *)
  NameOf,      (* the name of each, a text                                  *)
  Access,      (* the LockContext of each.  RegistryResolver gives every
                  caller an empty one; the type admits any                  *)
  Places,      (* the PlaceIds: those of rooms, and one no room has         *)
  Rooms,       (* Rooms[p]: the room of a place of the registry             *)
  StartRoom,   (* where every puppet is at first                            *)
  Builtins,    (* the commands of builtins::register                        *)
  Gated,       (* the name of the command the author's lock gates           *)
  Lines,       (* what clients send: a first word, switches, the rest       *)
  Pieces,      (* what an author writes a lock from: lists of tokens        *)
  MaxPieces,   (* bound: pieces of a lock                                   *)
  LockSamples, (* bound: the locks commands are played under                *)
  MaxLayers,   (* bound: layers commands are played with, besides Builtins  *)
  MaxContent,  (* text.rs MAX_CONTENT_BYTES, cut to size                    *)
  MaxId,       (* the last CommandId: NonZeroU64::MAX, cut to size          *)
  MaxQueue     (* bound: moves waiting for a tick                           *)

Puppets == ToSet(PuppetOrder)

ASSUME PipelineAssumption ==
  /\ NoPuppet \notin Puppets
  /\ DOMAIN Rooms \subseteq Places /\ StartRoom \in DOMAIN Rooms
  /\ MaxId \in Nat \ {0} /\ MaxQueue \in Nat \ {0}

VARIABLES
  lock,      (* the pieces of the lock on Gated; none: ungated              *)
  phase,     (* "wiring", "serving", or "down" once the ids are used up     *)
  nextId,    (* CommandIdGen: the next id, 0 once exhausted                 *)
  session,   (* each session's puppet, or NoPuppet                          *)
  where,     (* World::location_of each puppet                              *)
  queue,     (* the moves submitted since the last tick                     *)
  last,      (* the outcome of the last step, and the line it answers       *)
  awaited    (* history: where the last announced arrival of each mover was *)

playVars == <<nextId, session, where, queue, last, awaited>>
vars     == <<sets, lock, phase, playVars>>

-----------------------------------------------------------------------------
(* The roster: session_of and connected find some session of a puppet; a   *)
(* map of hashes decides which when there are two.                         *)
Connected == {session[s] : s \in Sids} \ {NoPuppet}
Rosters   == {f \in [Connected -> Sids] : \A p \in Connected : session[f[p]] = p}

\* presence::announce: to the sessions of the occupants of a place but one.
\* With a bug in the first: to the sessions of all of them.
AnnounceToAll(roster, place, except, text) ==
  LET heard == SelectSeq(PuppetOrder, LAMBDA p : where[p] = place /\ p \in Connected)
  IN  [i \in DOMAIN heard |-> [to |-> roster[heard[i]], text |-> text]]
Announce(roster, place, except, text) ==
  LET heard == SelectSeq(PuppetOrder,
                 LAMBDA p : where[p] = place /\ p # except /\ p \in Connected)
  IN  [i \in DOMAIN heard |-> [to |-> roster[heard[i]], text |-> text]]

\* presence::entered and left, and presence_announcement.
Presence(roster, s, key) ==
  Announce(roster, where[session[s]], session[s],
           System(T(EN, key, << <<"n", NameOf[session[s]]>> >>)))

-----------------------------------------------------------------------------
(* CommandReply, and the handlers.                                         *)
ToCaller(text) == [output |-> text, broadcasts |-> <<>>, effects |-> <<>>, closes |-> FALSE]
Says(key)      == ToCaller(System(T(EN, key, <<>>)))
Broadcast(place, text) == [place |-> place, text |-> text]

\* occupants, of look: the players by name, and no things; a puppet without a
\* session has no name to show.
RoomView(place, viewer) ==
  LET here == SelectSeq(PuppetOrder,
                LAMBDA p : p # viewer /\ where[p] = place /\ p \in Connected)
  IN  RenderRoom(Rooms[place], [i \in DOMAIN here |-> NameOf[here[i]]], <<>>, EN)

Look(p) ==
  IF where[p] \in DOMAIN Rooms THEN ToCaller(RoomView(where[p], p)) ELSE Says("look.void")

\* With a bug in the first: the message is filled in before the name.
HeardMessageFirst(name, message) ==
  InRole(T(EN, "say.broadcast", << <<"m", message>>, <<"n", name>> >>), "say")
Heard(name, message) ==
  InRole(T(EN, "say.broadcast", << <<"n", name>>, <<"m", message>> >>), "say")
Say(p, args) ==
  LET message == Sanitize(args, MaxContent)
  IN  IF ~message.ok THEN Says("content.too-long")
      ELSE IF Blank(message.val) THEN Says("say.nothing")
      ELSE [ToCaller(<<InRole(T(EN, "say.speech", << <<"m", message.val>> >>), "say")>>)
              EXCEPT !.broadcasts =
                <<Broadcast(where[p], <<Heard(NameOf[p], message.val)>>)>>]

\* An exit to a place without a room is no exit.
Neighbor(p, dir) ==
  {to \in DOMAIN Rooms : /\ where[p] \in DOMAIN Rooms
                         /\ dir \in DOMAIN Rooms[where[p]].exits
                         /\ Rooms[where[p]].exits[dir] = to}
Passing(p, key, dir) ==
  System(T(EN, key, << <<"n", NameOf[p]>>, <<"d", <<dir>>>> >>))
Move(p, dir) ==
  IF Neighbor(p, dir) = {} THEN Says("move.no-exit")
  ELSE LET to == CHOOSE place \in Neighbor(p, dir) : TRUE
       IN  [output |-> RoomView(to, p), closes |-> FALSE,
            broadcasts |-> <<Broadcast(where[p], Passing(p, "move.depart", dir)),
                             Broadcast(to, Passing(p, "move.arrive-from", Opposite(dir)))>>,
            effects |-> <<[entity |-> p, place |-> to]>>]

Who ==
  LET online == SelectSeq(PuppetOrder, LAMBDA p : p \in Connected)
  IN  ToCaller(System(T(EN, "who.online",
        << <<"n", Joined([i \in DOMAIN online |-> NameOf[online[i]]], ", ")>> >>)))

Quit == [Says("quit.goodbye") EXCEPT !.closes = TRUE]

\* The bindings of builtins::register, by the first two letters of a name.
Handler(name, p, args) ==
  CASE name = <<"l", "o">> -> Look(p)
    [] name = <<"s", "a">> -> Say(p, args)
    [] name = <<"n", "o">> -> Move(p, "north")
    [] name = <<"s", "o">> -> Move(p, "south")
    [] name = <<"w", "h">> -> Who
    [] name = <<"q", "u">> -> Quit
IsBound(name) == name \in {Builtins[i].name : i \in DOMAIN Builtins}

-----------------------------------------------------------------------------
(* Pipeline::dispatch.                                                     *)

\* LayerCommands::merge: Builtins lie below every other layer.
Table == Merge(Append(sets, [priority |-> 0, mergetype |-> "Union", commands |-> Builtins]))

\* A name or a switch: CommandName::parse, Switch::parse.
IsToken(word) == word # <<>> /\ ToSet(word) \subseteq {"a", "h", "l", "n", "o", "q", "s", "u", "w"}
ToLowercase(word) == [i \in DOMAIN word |-> IF word[i] = "N" THEN "n" ELSE word[i]]

LockText == IF lock = <<>> THEN <<>> ELSE <<"cmd", ":">> \o FlattenSeq(lock)

\* run_matched: no binding, a lock that denies, or the handler.  With a bug in
\* the first: the lock is asked by what was typed.
RunMatchedAsTyped(c, word, p, args) ==
  IF ~IsBound(c.name) THEN Says("command.unbound")
  ELSE IF word = Gated /\ lock # <<>> /\ ~Permits(LockText, Access[p])
       THEN Says("command.denied")
  ELSE Handler(c.name, p, args)
RunMatched(c, word, p, args) ==
  IF ~IsBound(c.name) THEN Says("command.unbound")
  ELSE IF c.name = Gated /\ lock # <<>> /\ ~Permits(LockText, Access[p])
       THEN Says("command.denied")
  ELSE Handler(c.name, p, args)

\* Every other outcome of parse is a message to the caller, or nothing.
Reply(table, p, line) ==
  LET word  == ToLowercase(line.head)
      means == Meant(table, word)
      names == SelectSeq(NameOrder, LAMBDA n : \E c \in means : c.name = n)
  IN  IF \E i \in DOMAIN line.switches : ~IsToken(line.switches[i])
      THEN Says("command.bad-switch")
      ELSE CASE Cardinality(means) = 0 -> Says("command.not-found")
             [] Cardinality(means) = 1 ->
                  RunMatched(CHOOSE c \in means : TRUE, word, p, line.args)
             [] OTHER -> ToCaller(System(T(EN, "command.ambiguous",
                                            << <<"o", Joined(names, ", ")>> >>)))

\* A blank line is answered by silence, switches without a word by not-found;
\* any other by a reply, and by what its broadcasts let others hear.
Answered(p, line, outputs, effects, closes) ==
  [line |-> line, by |-> p, outputs |-> outputs, effects |-> effects, closes |-> closes]
Delivered(s, line, roster, reply) ==
  Answered(session[s], line,
    <<[to |-> s, text |-> reply.output]>> \o
      FlattenSeq([i \in DOMAIN reply.broadcasts |->
        Announce(roster, reply.broadcasts[i].place, session[s], reply.broadcasts[i].text)]),
    reply.effects, reply.closes)
Outcome(table, roster, s, line) ==
  CASE line.head = <<>> /\ line.switches = <<>> ->
         Answered(session[s], line, <<>>, <<>>, FALSE)
    [] line.head = <<>> /\ line.switches # <<>> ->
         Delivered(s, line, roster, Says("command.not-found"))
    [] OTHER -> Delivered(s, line, roster, Reply(table, session[s], line))

-----------------------------------------------------------------------------
Nothing == [by |-> NoPuppet, outputs |-> <<>>]

Init ==
  /\ NoSets /\ lock = <<>> /\ phase = "wiring"
  /\ nextId = 1 /\ queue = <<>> /\ last = Nothing
  /\ session = [s \in Sids |-> NoPuppet]
  /\ where = [p \in Puppets |-> StartRoom]
  /\ awaited = where

\* An author wires a layer, or writes the lock a piece at a time.
Wire(priority, mergetype, commands) ==
  /\ phase = "wiring" /\ lock = <<>>
  /\ Contribute(priority, mergetype, commands)
  /\ UNCHANGED <<lock, phase, playVars>>
Write(piece) ==
  /\ phase = "wiring" /\ sets = <<>> /\ Len(lock) < MaxPieces
  /\ lock' = Append(lock, piece)
  /\ UNCHANGED <<sets, phase, playVars>>

\* The layers are those LayerCommands::merge can push: unions, from the highest
\* level down.  A lock that does not parse or resolve cannot gate a command.
Serve ==
  /\ phase = "wiring"
  /\ Len(sets) <= MaxLayers
  /\ \A i \in DOMAIN sets : sets[i].mergetype = "Union"
  /\ \A i, j \in DOMAIN sets : i < j => sets[i].priority >= sets[j].priority
  /\ lock \in LockSamples /\ (lock # <<>> => MakesLock(LockText))
  /\ phase' = "serving"
  /\ UNCHANGED <<sets, lock, playVars>>

\* A login ends in the world, and the room is told.
Enter(s, p) ==
  /\ phase = "serving" /\ session[s] = NoPuppet
  /\ session' = [session EXCEPT ![s] = p]
  /\ UNCHANGED <<sets, lock, phase, nextId, where, queue, awaited>>
  /\ \E roster \in Rosters' :
       last' = [by |-> p, outputs |-> Presence(roster, s, "presence.enter")']

\* handle_disconnect: the room is told while the roster still has the session.
HangUp(s) ==
  /\ phase = "serving" /\ session[s] # NoPuppet
  /\ session' = [session EXCEPT ![s] = NoPuppet]
  /\ \E roster \in Rosters :
       last' = [by |-> session[s], outputs |-> Presence(roster, s, "presence.leave")]
  /\ UNCHANGED <<sets, lock, phase, nextId, where, queue, awaited>>

\* handle_input: dispatch, submit the effects, and close if the reply says so.
\* The id is spent before anything else is known of the line.
Conclude(s, roster, o) ==
  /\ Len(queue \o o.effects) <= MaxQueue
  /\ queue' = queue \o o.effects
  /\ awaited' = [p \in Puppets |-> IF o.effects # <<>> /\ p = session[s]
                                   THEN o.effects[1].place ELSE awaited[p]]
  /\ IF o.closes
     THEN /\ session' = [session EXCEPT ![s] = NoPuppet]
          /\ last' = [o EXCEPT !.outputs = @ \o Presence(roster, s, "presence.leave")]
     ELSE last' = o /\ UNCHANGED session
Type(s, table, line) ==
  /\ phase = "serving" /\ session[s] # NoPuppet /\ nextId # 0
  /\ nextId' = IF nextId = MaxId THEN 0 ELSE nextId + 1
  /\ \E roster \in Rosters : Conclude(s, roster, Outcome(table, roster, s, line))
  /\ UNCHANGED <<sets, lock, phase, where>>

\* An input after the last id ends the World loop.
RunOut(s) ==
  /\ phase = "serving" /\ session[s] # NoPuppet /\ nextId = 0
  /\ phase' = "down"
  /\ UNCHANGED <<sets, lock, playVars>>

\* tick: the moves in the order they were submitted.  With a bug in the first:
\* the newest first.
AppliedNewestFirst(moves) ==
  FoldRight(LAMBDA m, w : [w EXCEPT ![m.entity] = m.place], moves, where)
Applied(moves) ==
  FoldLeft(LAMBDA w, m : [w EXCEPT ![m.entity] = m.place], where, moves)
Tick ==
  /\ phase = "serving" /\ queue # <<>>
  /\ where' = Applied(queue) /\ queue' = <<>> /\ last' = Nothing
  /\ UNCHANGED <<sets, lock, phase, nextId, session, awaited>>

Next ==
  \/ \E p \in Priorities, m \in MergeTypes, b \in Bundles : Wire(p, m, b)
  \/ \E piece \in Pieces : Write(piece)
  \/ Serve \/ Tick
  \/ \E s \in Sids : HangUp(s) \/ RunOut(s) \/ \E p \in Puppets : Enter(s, p)
  \/ /\ phase = "serving"
     /\ \E table \in {Table} : \E s \in Sids, line \in Lines : Type(s, table, line)

Spec == Init /\ [][Next]_vars

-----------------------------------------------------------------------------
(* A lock as a reader takes it: split at the operators that stand outside  *)
(* every parenthesis, "or" before "and", and read what is left as a set of *)
(* the callers it lets through.                                            *)
Callers == {Access[p] : p \in Puppets} \cup {NoAccess}
Depth(ts, i) == Cardinality({j \in 1 .. i : ts[j] = "("})
              - Cardinality({j \in 1 .. i - 1 : ts[j] = ")"})
Outside(ts, word) == {i \in DOMAIN ts : ts[i] = word /\ Depth(ts, i) = 0}
Unread == [ok |-> FALSE, lets |-> {}]

\* One function of the language on its argument.
CallReads(ts) ==
  LET unary == Len(ts) = 4 /\ ts[1] \in {"perm", "attr", "tag", "status"} /\ IsIdent(ts[3])
  IN  IF ts = <<"self", "(", ")">>
      THEN [ok |-> TRUE, lets |-> {c \in Callers : c.self}]
      ELSE IF unary /\ ts[2] = "(" /\ ts[4] = ")"
      THEN [ok |-> TRUE, lets |-> {c \in Callers : ts[3] \in c[ts[1]]}]
      ELSE Unread
RECURSIVE Reads(_)
Reads(ts) ==
  LET ors  == Outside(ts, "or")
      ands == Outside(ts, "and")
      Split(i, Join(_, _)) ==
        LET l == Reads(SubSeq(ts, 1, i - 1))
            r == Reads(From(ts, i + 1))
        IN  IF l.ok /\ r.ok THEN [ok |-> TRUE, lets |-> Join(l.lets, r.lets)] ELSE Unread
  IN  CASE ts = <<>> -> Unread
        [] ors # {}  -> Split(CHOOSE i \in ors : TRUE, LAMBDA a, b : a \cup b)
        [] ors = {} /\ ands # {} -> Split(CHOOSE i \in ands : TRUE, LAMBDA a, b : a \cap b)
        [] ors \cup ands = {} /\ ts # <<>> /\ ts[1] = "not" ->
             LET r == Reads(Tail(ts))
             IN  IF r.ok THEN [ok |-> TRUE, lets |-> Callers \ r.lets] ELSE Unread
        [] ors \cup ands = {} /\ ts # <<>> /\ ts[1] = "(" ->
             IF Last(ts) = ")" /\ \A i \in 2 .. Len(ts) : Depth(ts, i) > 0
             THEN Reads(SubSeq(ts, 2, Len(ts) - 1)) ELSE Unread
        [] OTHER -> CallReads(ts)

-----------------------------------------------------------------------------
(* What a terminal would be left with of a message, read a character at a  *)
(* time.                                                                   *)
Visible(text) ==
  LET AsText(m, ch) ==
        IF ch = "ESC" THEN [m EXCEPT !.mode = "esc"]
        ELSE [mode |-> "text", seen |-> IF ch \in Controls THEN m.seen ELSE Append(m.seen, ch)]
      Char1(m, ch) ==
        CASE m.mode = "esc" /\ ch = "["           -> [m EXCEPT !.mode = "csi"]
          [] m.mode = "esc" /\ ch = "]"           -> [m EXCEPT !.mode = "osc"]
          [] m.mode = "csi" /\ ch \in CsiParams   -> m
          [] m.mode = "csi" /\ ch \in CsiFinals   -> [m EXCEPT !.mode = "text"]
          [] m.mode = "osc" /\ ch = "BEL"         -> [m EXCEPT !.mode = "text"]
          [] m.mode = "osc" /\ ch = "ESC"         -> [m EXCEPT !.mode = "st"]
          [] m.mode = "osc" /\ ch \notin {"BEL", "ESC"} -> m
          [] m.mode = "st" /\ ch = "\\"          -> [m EXCEPT !.mode = "text"]
          [] OTHER -> AsText(m, ch)
  IN  FoldLeft(Char1, [mode |-> "text", seen |-> <<>>], text).seen

-----------------------------------------------------------------------------
(* Properties.                                                             *)

\* The two of CmdSet on the table itself, while sets are wired: the table is what
\* the rules of the merge give, and what a word runs answers to that word.
TableInv == phase = "wiring" => CmdSetInv /\ RunsWhatAnswers

\* The one on layers: a layer below all others never changes what a word they
\* answer to means.
LocalFirst == phase = "wiring" => LowerNeverShadows

\* A lock admits a text that reads as an expression over its five functions,
\* and no other, and lets through the callers the text reads for (locks/):
\* precedence, chains and parentheses mean what they say.  While it gates a
\* command, nobody else moves by that command, whatever was typed for it.
LocksAsRead ==
  LET r == Reads(From(LockText, 3)) IN
  /\ lock # <<>> => /\ MakesLock(LockText) <=> r.ok
                    /\ r.ok => r.lets = {c \in Callers : Permits(LockText, c)}
  /\ last # Nothing /\ "effects" \in DOMAIN last =>
       \A i \in DOMAIN last.effects :
         /\ lock # <<>>
         /\ last.effects[i].place \in Neighbor(last.by, "north")
         => Access[last.by] \in r.lets

\* Where a text spells the placeholder of the message without spaces, and what a
\* message comes out as: there, the whole message stands once more.
Spells(text) == {i \in 1 .. Len(text) - 3 : SubSeq(text, i, i + 3) = Tight("m")}
ReadBack(text) ==
  FlattenSeq([i \in DOMAIN text |->
    IF i \in Spells(text) THEN text
    ELSE IF \E j \in Spells(text) : i \in j + 1 .. j + 3 THEN <<>> ELSE <<text[i]>>])

\* Others hear what a player hears himself say (say.rs, text.rs, translate.rs):
\* the name, the phrase and the message without its controls and escapes.  The
\* message is as said, a placeholder of the name or of the spaced form included;
\* only `{$message}`, which interpolate fills in over what it has just filled in,
\* is read as the message again, each time it is spelled and never further.  No
\* output of any command carries a control character.
SaidBy(o) == o.text[1].role = "say"
HeardAsSaid ==
  \A i \in DOMAIN last.outputs :
    LET text == PlainString(last.outputs[i].text) IN
    /\ ToSet(text) \cap Controls = {}
    /\ SaidBy(last.outputs[i]) =>
         text = (IF i = 1 THEN <<"You say, ">> ELSE NameOf[last.by] \o <<" says, ">>)
                  \o ReadBack(Visible(last.line.args)) \o <<"'">>

\* Whoever hears a player speak has that player in view, and the other way
\* round; whoever hears a player arrive is who that player sees on arrival
\* (presence.rs and look.rs resolve an audience and a view apart).
ShownIn(text) == {p \in Puppets : NameOf[p][1] \in ToSet(PlainString(text))}
Hearers(sub)  == {session[o.to] : o \in sub}
HeardBySight ==
  LET outs == ToSet(last.outputs)
      says == {o \in outs : SaidBy(o) /\ last.by \in ShownIn(o.text)}
      arrivals == {o \in outs : " arrives from " \in ToSet(PlainString(o.text))}
  IN  /\ (\E o \in outs : SaidBy(o)) =>
           Hearers(says) = {p \in Connected : last.by \in ShownIn(RoomView(where[p], p))}
      /\ last # Nothing /\ "effects" \in DOMAIN last /\ last.effects # <<>> =>
           Hearers(arrivals) = ShownIn(last.outputs[1].text)

\* The type invariant: ids stay in range, sessions name puppets, puppets are in
\* places, the queue moves puppets to rooms.
PipelineTypeOK ==
  /\ phase \in {"wiring", "serving", "down"}
  /\ nextId \in 0 .. MaxId
  /\ session \in [Sids -> Puppets \cup {NoPuppet}]
  /\ where \in [Puppets -> DOMAIN Rooms]
  /\ Len(queue) <= MaxQueue
  /\ \A i \in DOMAIN queue : queue[i].entity \in Puppets /\ queue[i].place \in DOMAIN Rooms

\* Once the queue is drained every puppet is where its last move was announced
\* to arrive (movement.rs): announcements are made of a world the queue has yet
\* to change, and come true in the end, for a puppet of two sessions too.
ArrivesWhereHeard == queue = <<>> => where = awaited

\* The two together: every value in its range, and every announcement kept.
PipelineInv == PipelineTypeOK /\ ArrivesWhereHeard
=============================================================================
