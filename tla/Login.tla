-------------------------------- MODULE Login --------------------------------
(***************************************************************************)
(* Login of a session: the machine of mud-session (fsm.rs), the driver of  *)
(* mud-engine (session/mod.rs) that performs its effects one after another *)
(* until none is left, and the tenant's account store (mud-db accounts.rs, *)
(* mudd backend.rs).  The World loop drives one input line at a time to    *)
(* its end; the backend may fail each effect, and the process may die      *)
(* between two of them.                                                    *)
(***************************************************************************)
EXTENDS Naturals, Sequences, FiniteSets

CONSTANTS
  Sids,            (* the session ids                                       *)
  Usernames,       (* names a login or a registration gives                 *)
  Passwords,       (* lines typed where a password is collected             *)
  Names,           (* puppet names, equal when equal without case           *)
  NoOne,           (* no session is being driven                            *)
  MaxPuppets       (* bound: puppets of the tenant                          *)

ASSUME LoginAssumption ==
  /\ NoOne \notin Sids /\ MaxPuppets \in Nat
  /\ IsFiniteSet(Usernames)                \* of 1 to 32 characters (name.rs)

VARIABLES
  accounts,   (* the accounts table: rows [id, username, password, state]   *)
  puppets,    (* the puppets table: rows [key, account, name]               *)
  resident,   (* the puppet keys mapped to a live entity                    *)
  state,      (* each session: its machine's State, "Absent" or "InWorld"   *)
  driving,    (* the session whose line is being driven, or NoOne           *)
  effect,     (* the effect outstanding for it, or none                     *)
  pending,    (* the coalesced block: the kinds of its messages             *)
  outputs,    (* the blocks of the last line, each with the echo it meets   *)
  echo,       (* the local echo each session was last told                  *)
  claim       (* history: the username and password a session is to have    *)
              (* been authenticated by                                      *)

dbVars  == <<accounts, puppets, resident>>
outVars == <<pending, outputs, echo>>
vars    == <<dbVars, state, driving, effect, outVars, claim>>

AccountStates == {"active", "suspended", "banned", "deleted"}
Ids  == 1 .. Cardinality(Usernames)
Keys == 1 .. MaxPuppets
NoEffect == [kind |-> "None"]
NoClaim  == <<>>

-----------------------------------------------------------------------------
\* State: what each variant holds.
At(at)                 == [at |-> at]
LoginPassword(u)       == [at |-> "LoginPassword", username |-> u]
RegisterPassword(u)    == [at |-> "RegisterPassword", username |-> u]
RegisterConfirm(u, pw) == [at |-> "RegisterConfirm", username |-> u, password |-> pw]
PuppetSelect(a, ps)    == [at |-> "PuppetSelect", account |-> a, puppets |-> ps]
AwaitingCreate(a, ps)  == [at |-> "AwaitingCreate", account |-> a, puppets |-> ps]
AwaitingEnter(a, ps, k) ==
  [at |-> "AwaitingEnter", account |-> a, puppets |-> ps, chosen |-> k]
InWorld(a, k)          == [at |-> "InWorld", account |-> a, puppet |-> k]

CollectsSecret(st) == st.at \in {"LoginPassword", "RegisterPassword", "RegisterConfirm"}
Awaiting(st) == st.at \in {"AwaitingAuth", "AwaitingRegister", "AwaitingCreate", "AwaitingEnter"}

EchoChange(was, is) ==
  CASE ~was /\ is -> "Suppressed"
    [] was /\ ~is -> "Enabled"
    [] OTHER      -> "Same"

-----------------------------------------------------------------------------
\* A transition: the next state, the kinds of its messages, its effect and
\* whether it leaves the login flow.
Transition(st, messages, eff, terminal) ==
  [state |-> st, messages |-> messages, effect |-> eff, terminal |-> terminal]
Says(st, messages) == Transition(st, messages, NoEffect, "None")
Asks(st, eff)      == Transition(st, <<>>, eff, "None")
Bye(st)            == Transition(st, <<"Line">>, NoEffect, "Closed")

\* anon_input: a word, and the name after it where it takes one.
AnonInput(st) ==
  {Says(st, <<>>), Says(st, <<"Line">>), Bye(st)}
    \union {Says(LoginPassword(u), <<"Prompt">>) : u \in Usernames}
    \union {Says(RegisterPassword(u), <<"Prompt">>) : u \in Usernames}

CaptureLogin(st, pw) ==
  Asks(At("AwaitingAuth"),
       [kind |-> "Authenticate", username |-> st.username, password |-> pw])
CaptureRegister(st, pw) == Says(RegisterConfirm(st.username, pw), <<"Prompt">>)
ConfirmRegister(st, pw) ==
  IF st.password # pw
  THEN Says(At("Anon"), <<"Line">>)
  ELSE Asks(At("AwaitingRegister"),
            [kind |-> "Register", username |-> st.username, password |-> pw])

\* enter: the machine waits for the driver to resolve the chosen puppet.
EnterPuppet(st, k) ==
  Asks(AwaitingEnter(st.account, st.puppets, k),
       [kind |-> "Enter", account |-> st.account, puppet |-> k])

\* match_puppet: by ordinal any entry of the list as displayed, by name the
\* first that has it.
Matches(list) == {list[n] : n \in 1 .. Len(list)}
SelectInput(st) ==
  {Says(st, <<>>), Says(st, <<"Line">>), Bye(st)}
    \union {EnterPuppet(st, k) : k \in Matches(st.puppets)}
    \union {Asks(AwaitingCreate(st.account, st.puppets),
                 [kind |-> "CreatePuppet", account |-> st.account, name |-> nm]) :
              nm \in IF Cardinality(puppets) < MaxPuppets THEN Names ELSE {}}

\* dispatch_input: what a line can do in each state.
DispatchInput(st) ==
  CASE st.at = "Anon"             -> AnonInput(st)
    [] st.at = "LoginPassword"    -> {CaptureLogin(st, pw) : pw \in Passwords}
    [] st.at = "RegisterPassword" -> {CaptureRegister(st, pw) : pw \in Passwords}
    [] st.at = "RegisterConfirm"  -> {ConfirmRegister(st, pw) : pw \in Passwords}
    [] st.at = "PuppetSelect"     -> SelectInput(st)
    [] OTHER                      -> {Says(st, <<>>)}

-----------------------------------------------------------------------------
\* dispatch_effect: the transition an effect's result takes.  A result the
\* state does not expect leaves it as it is.
EnterPuppetSelect(a, ps) == Says(PuppetSelect(a, ps), <<"Line">>)
FailedWaiting(st) == Says(st, <<>>)                     \* mutant: no arm for it
FailedRetrying(st) ==                                   \* mutant: asks again
  IF st.at = "AwaitingEnter"
  THEN Asks(st, [kind |-> "Enter", account |-> st.account, puppet |-> st.chosen])
  ELSE Says(At("Anon"), <<"Line">>)
Failed(st) ==
  IF st.at \in {"AwaitingCreate", "AwaitingEnter"}
  THEN Says(PuppetSelect(st.account, st.puppets), <<"Line">>)
  ELSE Says(At("Anon"), <<"Line">>)

DispatchEffect(st, result) ==
  CASE st.at = "AwaitingAuth" /\ result.kind = "Authenticated"
         -> EnterPuppetSelect(result.account, result.puppets)
    [] st.at = "AwaitingRegister" /\ result.kind = "Registered"
         -> EnterPuppetSelect(result.account, <<>>)
    [] st.at = "AwaitingAuth" /\ result.kind = "LoginRejected"
         -> Says(At("Anon"), <<"Line">>)
    [] st.at = "AwaitingRegister" /\ result.kind = "RegisterRejected"
         -> Says(At("Anon"), <<"Line">>)
    [] st.at = "AwaitingCreate" /\ result.kind = "PuppetCreated"
         -> [EnterPuppet(PuppetSelect(st.account, Append(st.puppets, result.key)), result.key)
               EXCEPT !.messages = <<"Line">>]
    [] st.at = "AwaitingEnter" /\ result.kind = "Entered"
         -> Transition(st, <<"Line">>, NoEffect, "Bound")
    [] Awaiting(st) /\ result.kind = "BackendError" -> Failed(st)
    [] OTHER -> Says(st, <<>>)

-----------------------------------------------------------------------------
\* drive: one turn of its loop.  An echo change flushes the pending block, the
\* messages join it, and the end of the line flushes what is left.
Blocks(kinds, e) == IF kinds = <<>> THEN <<>> ELSE <<[kinds |-> kinds, echo |-> e]>>
Ends(t)      == t.terminal # "None" \/ t.effect = NoEffect
Change(s, t) == EchoChange(CollectsSecret(state[s]), CollectsSecret(t.state))

\* apply_terminal: bound to the resident puppet, or dropped.
Landed(t) ==
  CASE t.terminal = "None" -> t.state
    [] t.terminal = "Bound" /\ t.state.chosen \in resident
         -> InWorld(t.state.account, t.state.chosen)
    [] OTHER -> At("Absent")

DriveEchoLast(s, t, sent, held) ==          \* mutant: text before its echo change
  /\ state' = [state EXCEPT ![s] = Landed(t)]
  /\ effect' = t.effect
  /\ driving' = IF Ends(t) THEN NoOne ELSE s
  /\ echo' = IF Change(s, t) = "Same" THEN echo ELSE [echo EXCEPT ![s] = Change(s, t)]
  /\ pending' = IF Ends(t) THEN <<>> ELSE held \o t.messages
  /\ outputs' = sent \o (IF Ends(t) THEN Blocks(held \o t.messages, echo[s]) ELSE <<>>)
Drive(s, t, sent, held) ==
  LET told  == IF Change(s, t) = "Same" THEN echo[s] ELSE Change(s, t)
      shown == IF Change(s, t) = "Same" THEN sent ELSE sent \o Blocks(held, echo[s])
      block == IF Change(s, t) = "Same" THEN held \o t.messages ELSE t.messages
  IN /\ state' = [state EXCEPT ![s] = Landed(t)]
     /\ effect' = t.effect
     /\ driving' = IF Ends(t) THEN NoOne ELSE s
     /\ echo' = [echo EXCEPT ![s] = told]
     /\ pending' = IF Ends(t) THEN <<>> ELSE block
     /\ outputs' = shown \o (IF Ends(t) THEN Blocks(block, told) ELSE <<>>)

Claimed(s, t) ==
  claim' = [claim EXCEPT ![s] =
              CASE Landed(t).at \in {"Anon", "Absent"}             -> NoClaim
                [] t.effect.kind \in {"Authenticate", "Register"} ->
                     <<t.effect.username, t.effect.password>>
                [] OTHER                                          -> @]

-----------------------------------------------------------------------------
\* SessionService::connect, on_input and disconnect; a session in the world is
\* the pipeline's, which may end it.
Connect(s) ==
  /\ driving = NoOne /\ state[s].at = "Absent"
  /\ state' = [state EXCEPT ![s] = At("Anon")]
  /\ echo' = [echo EXCEPT ![s] = "Enabled"]
  /\ UNCHANGED <<dbVars, driving, effect, pending, outputs, claim>>

OnInput(s) ==
  /\ driving = NoOne /\ state[s].at \notin {"Absent", "InWorld"}
  /\ \E t \in DispatchInput(state[s]) :
       Drive(s, t, <<>>, <<>>) /\ Claimed(s, t)
  /\ UNCHANGED dbVars

Disconnect(s) ==
  /\ driving = NoOne /\ state[s].at # "Absent"
  /\ state' = [state EXCEPT ![s] = At("Absent")]
  /\ echo' = [echo EXCEPT ![s] = "Enabled"]
  /\ claim' = [claim EXCEPT ![s] = NoClaim]
  /\ UNCHANGED <<dbVars, driving, effect, pending, outputs>>

-----------------------------------------------------------------------------
\* perform: the effect's backend call, and its result fed back.
Feed(result) ==
  LET t == DispatchEffect(state[driving], result) IN
    Drive(driving, t, outputs, pending) /\ Claimed(driving, t)
Result(kind) == [kind |-> kind]
Fails == Feed(Result("BackendError"))

\* Accounts::authenticate, then the account's puppets, oldest first.
RowsOf(u) == {r \in accounts : r.username = u}
OldestFirst(keys) ==
  [n \in 1 .. Cardinality(keys) |->
     CHOOSE k \in keys : Cardinality({j \in keys : j < k}) = n - 1]
PuppetsOfAnyone(a) == OldestFirst({p.key : p \in puppets})       \* mutant
PuppetsOf(a) == OldestFirst({p.key : p \in {p \in puppets : p.account = a}})
VerifiedByName(u, pw) == {r \in RowsOf(u) : r.state = "active"}  \* mutant
Verified(u, pw) == {r \in RowsOf(u) : r.password = pw /\ r.state = "active"}
Authenticate ==
  /\ effect.kind = "Authenticate"
  /\ LET found == Verified(effect.username, effect.password)
     IN \/ /\ found = {} /\ Feed(Result("LoginRejected"))
        \/ \E r \in found :
             Feed([kind |-> "Authenticated", account |-> r.id, puppets |-> PuppetsOf(r.id)])
        \/ Fails
  /\ UNCHANGED dbVars

\* Accounts::register: the username is UNIQUE.
Taken(u) == RowsOf(u) # {}
NewRow(u, pw) ==
  [id |-> Cardinality(accounts) + 1, username |-> u, password |-> pw, state |-> "active"]
Register ==
  /\ effect.kind = "Register"
  /\ \/ /\ Taken(effect.username)
        /\ Feed(Result("RegisterRejected")) /\ UNCHANGED accounts
     \/ /\ ~Taken(effect.username)
        /\ LET r == NewRow(effect.username, effect.password)
           IN /\ accounts' = accounts \union {r}
              /\ Feed([kind |-> "Registered", account |-> r.id])
     \/ Fails /\ UNCHANGED accounts
  /\ UNCHANGED <<puppets, resident>>

\* DbBackend::create_puppet: the row commits, then the entity is hydrated; a
\* failure of the second leaves the row, mapped or not.
NewPuppet ==
  [key |-> Cardinality(puppets) + 1, account |-> effect.account, name |-> effect.name]
CreatePuppet ==
  /\ effect.kind = "CreatePuppet"
  /\ \/ /\ puppets' = puppets \union {NewPuppet}
        /\ resident' = resident \union {NewPuppet.key}
        /\ Feed([kind |-> "PuppetCreated", key |-> NewPuppet.key])
     \/ /\ puppets' = puppets \union {NewPuppet}
        /\ resident' \in {resident, resident \union {NewPuppet.key}}
        /\ Fails
     \/ Fails /\ UNCHANGED <<puppets, resident>>
  /\ UNCHANGED accounts

\* Enter resolves the puppet's live entity.
Enter ==
  /\ effect.kind = "Enter"
  /\ Feed(Result(IF effect.puppet \in resident THEN "Entered" ELSE "BackendError"))
  /\ UNCHANGED dbVars

Perform == driving # NoOne /\ (Authenticate \/ Register \/ CreatePuppet \/ Enter)

\* The process restarts: sessions are gone, every durable puppet is loaded.
Restart ==
  /\ resident' = {p.key : p \in puppets}
  /\ state' = [s \in Sids |-> At("Absent")]
  /\ driving' = NoOne /\ effect' = NoEffect
  /\ pending' = <<>> /\ outputs' = <<>>
  /\ echo' = [s \in Sids |-> "Enabled"]
  /\ claim' = [s \in Sids |-> NoClaim]
  /\ UNCHANGED <<accounts, puppets>>

-----------------------------------------------------------------------------
\* A new tenant, or one with an account in any state.
Init ==
  /\ accounts \in {{}} \union
       {{[id |-> 1, username |-> u, password |-> pw, state |-> st]} :
          u \in Usernames, pw \in Passwords, st \in AccountStates}
  /\ puppets = {} /\ resident = {}
  /\ state = [s \in Sids |-> At("Absent")]
  /\ driving = NoOne /\ effect = NoEffect
  /\ pending = <<>> /\ outputs = <<>>
  /\ echo = [s \in Sids |-> "Enabled"]
  /\ claim = [s \in Sids |-> NoClaim]

Next ==
  \/ \E s \in Sids : Connect(s) \/ OnInput(s) \/ Disconnect(s)
  \/ Perform \/ Restart

Spec     == Init /\ [][Next]_vars
\* The loop awaits each backend call, and the backend answers every call.
FairSpec == Spec /\ WF_vars(Perform)

-----------------------------------------------------------------------------
\* Rows and sessions stay in their ranges; an effect is outstanding exactly
\* while a session is driven, and it is the session's own.
LoginTypeOK ==
  /\ accounts \subseteq [id : Ids, username : Usernames, password : Passwords, state : AccountStates]
  /\ puppets \subseteq [key : Keys, account : Ids, name : Names]
  /\ resident \subseteq {p.key : p \in puppets}
  /\ echo \in [Sids -> {"Enabled", "Suppressed"}]
  /\ driving = NoOne <=> effect = NoEffect

\* No session is left waiting: a machine awaits an effect's result exactly while
\* its line is being driven.  (A result its state does not expect would be
\* ignored and the session would answer no line again.)
AwaitingIsDriven == \A s \in Sids : Awaiting(state[s]) <=> driving = s

\* The two together: sessions, rows and the outstanding effect fit each other.
LoginInv == LoginTypeOK /\ AwaitingIsDriven

\* A session past the password holds an active account whose username and
\* password are the ones it last gave, and no username has two accounts.
HasAccount(s) == state[s].at \in {"PuppetSelect", "AwaitingCreate", "AwaitingEnter", "InWorld"}
Identified ==
  /\ \A r, q \in accounts : r.username = q.username => r = q
  /\ \A s \in Sids : HasAccount(s) =>
       \E r \in accounts : /\ r.id = state[s].account /\ r.state = "active"
                           /\ claim[s] = <<r.username, r.password>>

\* A session lists, chooses and controls only its own account's puppets, in the
\* order of their creation: an ordinal typed means the entry displayed.
OwnedBy(a, k) == \E p \in puppets : p.key = k /\ p.account = a
ListOf(st) == IF "puppets" \in DOMAIN st THEN st.puppets ELSE <<>>
OwnPuppets ==
  \A s \in Sids :
    LET st == state[s] list == ListOf(st)
    IN /\ \A n \in 1 .. Len(list) : OwnedBy(st.account, list[n])
       /\ \A m, n \in 1 .. Len(list) : m < n => list[m] < list[n]
       /\ st.at = "AwaitingEnter" => st.chosen \in {list[n] : n \in 1 .. Len(list)}
       /\ st.at = "InWorld" => OwnedBy(st.account, st.puppet) /\ st.puppet \in resident

\* The two together: a session acts for the account it has proved it owns, and
\* for no other.
ActsForItsAccount == Identified /\ OwnPuppets

\* Between lines the client's echo is off exactly where it types a password.
EchoFollowsState ==
  \A s \in Sids : state[s].at # "Absent" =>
    (echo[s] = "Suppressed" <=> CollectsSecret(state[s]))

\* A prompt lands masked and is the last message of its block.
PromptsMasked ==
  \A n \in 1 .. Len(outputs) : LET b == outputs[n] IN
    \A m \in 1 .. Len(b.kinds) : b.kinds[m] = "Prompt" =>
      b.echo = "Suppressed" /\ m = Len(b.kinds)

\* The two together: what is typed as a secret is never echoed, from before its
\* prompt until it is given, and everything else is.
SecretsMasked == EchoFollowsState /\ PromptsMasked

\* Every line is answered: the driver's loop ends whatever the backend returns.
LinesEnd == \A s \in Sids : driving = s ~> driving # s
=============================================================================
