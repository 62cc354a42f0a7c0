------------------------------ MODULE ChatTurns ------------------------------
(***************************************************************************)
(* A conversation with the agent: rsci/ui/server.py (_chat_stream,         *)
(* _chat_action, _stop_chat), rsci/agents/memory.py and the loop of        *)
(* rsci/agents/runtime.py.  A question is handled by a thread of a         *)
(* console, which takes a slot, the execution lock of the session and an   *)
(* entry in the console's registry, writes the question and a running      *)
(* answer into the session file, and lets the model and its tools work.    *)
(* Other threads load, compact or delete the session or stop the answer.   *)
(* Several consoles share the files and have a registry each; one may die  *)
(* at any step, and a client may send the same question again.             *)
(*                                                                         *)
(* Every method of the store holds the session's own lock from its load to *)
(* its save, so each is one step.                                          *)
(***************************************************************************)
EXTENDS Naturals, FiniteSets

CONSTANTS
    Consoles,    \* processes of the console on one state directory
    Threads,     \* threads that handle questions
    Readers,     \* threads that handle the other requests
    Home(_),     \* Home(t): the console of a thread
    Slots,       \* questions a console works on at once (4)
    Sessions,    \* sessions that have been created
    Requests,    \* request identifiers chosen by clients
    MaxCalls,    \* bound: tool calls in one reply of the model
    None         \* no request, no session, nobody

ASSUME HomeAssumption == \A t \in Threads \cup Readers : Home(t) \in Consoles
ASSUME BoundAssumption == Slots \in Nat \ {0} /\ MaxCalls \in Nat \ {0}
ASSUME NoneAssumption == None \notin Requests \cup Sessions \cup Threads \cup Readers
ASSUME ApartAssumption == Threads \cap Readers = {}

VARIABLES
    file,    \* file[s]: the session file
    owner,   \* owner[s]: the thread that holds the execution lock
    th,      \* th[t]: a thread that handles a question
    reader,  \* reader[d]: a thread that handles another request
    begun    \* history: the turns that were begun

vars == <<file, owner, th, reader, begun>>
-----------------------------------------------------------------------------
(* Types *)

Outcomes == {"completed", "stopped", "failed"}
Statuses == {"running", "interrupted"} \cup Outcomes
\* A cancel flag is kept as the request it was meant for.
Flags == Requests \cup {None}
Turns == [req : Requests \cup {None}, status : Statuses \cup {"none"}, cancel : Flags]
Files == [there : BOOLEAN, turn : Turns, rows : [Requests -> Statuses \cup {"none"}],
          archived : SUBSET Requests]

Turning == {"resolving", "loop", "calls", "tool", "finish"}
Registered == {"registered", "prepared", "leaving"} \cup Turning
Points == {"idle", "admitted", "tried", "checked", "unlock", "unslot"} \cup Registered
Handling == [at : Points, sess : Sessions \cup {None}, req : Requests \cup {None},
             cancel : Flags, calls : 0 .. MaxCalls, outcome : Outcomes \cup {"none"},
             late : 0 .. 2]
Kinds == {"load", "stop", "delete", "compact"}
Reading == [at : {"idle", "open", "want"}, kind : Kinds \cup {"none"},
            sess : Sessions \cup {None}, req : Requests \cup {None}]

TypeOK == /\ file \in [Sessions -> Files]
          /\ owner \in [Sessions -> Threads \cup Readers \cup {None}]
          /\ th \in [Threads -> Handling]
          /\ reader \in [Readers -> Reading]
          /\ begun \subseteq Sessions \X Requests
-----------------------------------------------------------------------------
(* The store *)

NoTurn == [req |-> None, status |-> "none", cancel |-> None]
NewFile == [there |-> TRUE, turn |-> NoTurn, rows |-> [r \in Requests |-> "none"],
            archived |-> {}]
Idle == [at |-> "idle", sess |-> None, req |-> None, cancel |-> None, calls |-> 0,
         outcome |-> "none", late |-> 0]
Away == [at |-> "idle", kind |-> "none", sess |-> None, req |-> None]

Init == /\ file = [s \in Sessions |-> NewFile]
        /\ owner = [s \in Sessions |-> None]
        /\ th = [t \in Threads |-> Idle]
        /\ reader = [d \in Readers |-> Away]
        /\ begun = {}

\* Mutant: the rows that were archived are not looked at.
InWindow(s, r) == file[s].rows[r] # "none" /\ r \notin file[s].archived
Received(s, r) == file[s].rows[r] # "none"

\* Mutant: whatever turn the session is in.
SomeTurn(s, r) == file[s].there /\ file[s].turn.req # None
TurnIs(s, r) == file[s].there /\ file[s].turn.req = r

\* update_turn with a status, which it copies to the row of the answer.
Conclude(s, r, status) ==
    file' = [file EXCEPT ![s].turn.status = status, ![s].rows[r] = status]

\* The rows after begin_turn: an answer that is still running has lost its
\* owner, since the caller holds the execution lock.
RowsWith(s, r) ==
    [q \in Requests |->
        IF q = r THEN "running"
        ELSE IF q = file[s].turn.req /\ file[s].turn.status = "running" THEN "interrupted"
        ELSE file[s].rows[q]]

\* What is older than the last turn goes to the archive, if there is enough.
Archive(s) == \/ file' = [file EXCEPT ![s].archived = {r \in Requests : Received(s, r)}
                                                        \ {file[s].turn.req}]
              \/ UNCHANGED file
-----------------------------------------------------------------------------
(* Admission: slot, execution lock, load, registry *)

Move(t, point) == th' = [th EXCEPT ![t].at = point]
InUse(c) == Cardinality({t \in Threads : Home(t) = c /\ th[t].at # "idle"})

\* Beyond the slots a question is refused at once, and nothing changes.
Post(t) == /\ th[t].at = "idle"
           /\ InUse(Home(t)) < Slots
           /\ \E s \in Sessions, r \in Requests :
                 th' = [th EXCEPT ![t] = [Idle EXCEPT !.at = "admitted", !.sess = s, !.req = r]]
           /\ UNCHANGED <<file, owner, reader, begun>>

TryLock(t) == /\ th[t].at = "admitted"
              /\ Move(t, "tried")
              /\ owner' = IF owner[th[t].sess] = None THEN [owner EXCEPT ![th[t].sess] = t]
                                                      ELSE owner
              /\ UNCHANGED <<file, reader, begun>>

Owned(t) == owner[th[t].sess] = t

\* Refused: the session is gone, busy, or has the request already.
Load(t) == /\ th[t].at = "tried"
           /\ LET s == th[t].sess
                  good == file[s].there /\ Owned(t) /\ ~Received(s, th[t].req)
              IN Move(t, IF good THEN "checked" ELSE "unlock")
           /\ UNCHANGED <<file, owner, reader, begun>>

Entries(c, r) == {t \in Threads : Home(t) = c /\ th[t].at \in Registered /\ th[t].req = r}

Register(t) == /\ th[t].at = "checked"
               /\ Move(t, IF Entries(Home(t), th[t].req) = {} THEN "registered" ELSE "unlock")
               /\ UNCHANGED <<file, owner, reader, begun>>
-----------------------------------------------------------------------------
(* The turn *)

\* The attachments are refused, or the context is compacted where it has grown.
Prepare(t) == /\ th[t].at = "registered"
              /\ \/ Move(t, "leaving") /\ UNCHANGED file
                 \/ Move(t, "prepared") /\ Archive(th[t].sess)
              /\ UNCHANGED <<owner, reader, begun>>

Begin(t) ==
    LET s == th[t].sess
        r == th[t].req
    IN /\ th[t].at = "prepared"
       /\ IF file[s].there /\ ~Received(s, r)
          THEN /\ file' = [file EXCEPT ![s].rows = RowsWith(s, r),
                                       ![s].turn = [req |-> r, status |-> "running", cancel |-> None]]
               /\ begun' = begun \cup {<<s, r>>}
               /\ Move(t, "resolving")
          ELSE Move(t, "leaving") /\ UNCHANGED <<file, begun>>
       /\ UNCHANGED <<owner, reader>>

Cancelled(t) == th[t].cancel # None
End(t, outcome) == th' = [th EXCEPT ![t].at = "finish", ![t].outcome = outcome, ![t].calls = 0]

\* An error while a stop is wanted is the stop, unless it is one of rsci's own.
EndBadly(t) == \/ End(t, "failed")
               \/ Cancelled(t) /\ End(t, "stopped")

\* The provider is found and probed, the research workflow selected.
Resolve(t) == /\ th[t].at = "resolving"
              /\ \/ EndBadly(t)
                 \/ ~Cancelled(t) /\ Move(t, "loop")
              /\ UNCHANGED <<file, owner, reader, begun>>

\* One call of the model: it fails, answers, or wants tools.  A stop that has
\* come meanwhile makes an answer a stopped one, and is looked at before a tool.
Think(t) == /\ th[t].at = "loop"
            /\ \/ EndBadly(t)
               \/ ~Cancelled(t) /\ End(t, "completed")
               \/ /\ ~Cancelled(t)
                  /\ \E n \in 1 .. MaxCalls : th' = [th EXCEPT ![t].at = "calls", ![t].calls = n]
            /\ UNCHANGED <<file, owner, reader, begun>>

CallsDone(t) == th[t].calls = 0

\* Mutant: a stop is looked at only before the model is called.
NotNow(t) == FALSE
Stopped(t) == Cancelled(t)

NextCall(t) == /\ th[t].at = "calls"
               /\ CASE CallsDone(t) -> Move(t, "loop")
                    [] ~CallsDone(t) /\ Stopped(t) -> End(t, "stopped")
                    [] OTHER -> Move(t, "tool")
               /\ UNCHANGED <<file, owner, reader, begun>>

\* A tool runs and comes back, well or badly; a plan that waits for a person
\* ends the turn, so that the model has no further say.
Tool(t) == /\ th[t].at = "tool"
           /\ \E next \in {"calls", "finish"} :
                 th' = [th EXCEPT ![t].at = next,
                                  ![t].outcome = IF next = "finish" THEN "completed" ELSE "none",
                                  ![t].calls = IF next = "finish" THEN 0 ELSE @ - 1,
                                  ![t].late = IF Cancelled(t) /\ @ < 2 THEN @ + 1 ELSE @]
           /\ UNCHANGED <<file, owner, reader, begun>>

\* finish: the answer is saved if the turn is still this one and the disk allows.
Finish(t) == LET s == th[t].sess
                 r == th[t].req
             IN /\ th[t].at = "finish"
                /\ \/ TurnIs(s, r) /\ Conclude(s, r, th[t].outcome)
                   \/ UNCHANGED file
                /\ th' = [th EXCEPT ![t].at = "leaving", ![t].outcome = "none"]
                /\ UNCHANGED <<owner, reader, begun>>

\* The exit stack: registry, lock, slot.
Unregister(t) == /\ th[t].at = "leaving"
                 /\ Move(t, "unlock")
                 /\ UNCHANGED <<file, owner, reader, begun>>

Unlock(t) == /\ th[t].at = "unlock"
             /\ Move(t, "unslot")
             /\ owner' = IF Owned(t) THEN [owner EXCEPT ![th[t].sess] = None] ELSE owner
             /\ UNCHANGED <<file, reader, begun>>

Unslot(t) == /\ th[t].at = "unslot"
             /\ th' = [th EXCEPT ![t] = Idle]
             /\ UNCHANGED <<file, owner, reader, begun>>

\* Mutant: the heartbeat ends when the model is called for the first time.
AtFirst(t) == th[t].at = "resolving"
Beating(t) == th[t].at \in Turning

\* Every 5 seconds the heartbeat reads the file.
Heartbeat(t) == /\ Beating(t)
                /\ file[th[t].sess].turn.cancel # None
                /\ th' = [th EXCEPT ![t].cancel = file[th[t].sess].turn.cancel]
                /\ UNCHANGED <<file, owner, reader, begun>>
-----------------------------------------------------------------------------
(* The other requests *)

\* A stop that finds the request in the registry of its own console.
StopHere(d) == /\ reader[d].at = "idle"
               /\ \E r \in Requests, t \in Threads :
                     /\ t \in Entries(Home(d), r)
                     /\ th' = [th EXCEPT ![t].cancel = r]
               /\ UNCHANGED <<file, owner, reader, begun>>

\* Everything else begins with one try for the execution lock: snapshot goes
\* on without it, delete and compact (and fork and setproject, which leave the
\* turns alone) are refused.
Open(d) == /\ reader[d].at = "idle"
           /\ \E s \in Sessions, kind \in Kinds, r \in Requests \cup {None} :
                 /\ kind = "stop" <=> r # None
                 /\ r # None => Entries(Home(d), r) = {}
                 /\ kind \in {"delete", "compact"} => owner[s] = None
                 /\ reader' = [reader EXCEPT ![d] = [at |-> "open", kind |-> kind,
                                                     sess |-> s, req |-> r]]
                 /\ owner' = IF owner[s] = None THEN [owner EXCEPT ![s] = d] ELSE owner
           /\ UNCHANGED <<file, th, begun>>

\* Mutant: the lock is not asked.
Always(d) == TRUE
\* The session is idle: this reader has its lock.
IsIdle(d) == owner[reader[d].sess] = d

Close(d) == owner' = IF owner[reader[d].sess] = d
                     THEN [owner EXCEPT ![reader[d].sess] = None] ELSE owner

\* snapshot: a running answer of an idle session was interrupted.  A stop goes
\* on if the session is active and its turn is the one to stop.
Snapshot(d) ==
    LET s == reader[d].sess
        turn == file[s].turn
    IN /\ reader[d].at = "open" /\ reader[d].kind \in {"load", "stop"}
       /\ IF file[s].there /\ IsIdle(d) /\ turn.status = "running"
          THEN Conclude(s, turn.req, "interrupted") ELSE UNCHANGED file
       /\ reader' = IF /\ reader[d].kind = "stop" /\ ~IsIdle(d)
                       /\ file[s].there /\ turn.req = reader[d].req
                    THEN [reader EXCEPT ![d].at = "want"] ELSE [reader EXCEPT ![d] = Away]
       /\ Close(d)
       /\ UNCHANGED <<th, begun>>

\* update_turn from another console: refused when the turn has changed.
AskStop(d) == LET s == reader[d].sess
              IN /\ reader[d].at = "want"
                 /\ file' = IF TurnIs(s, reader[d].req)
                            THEN [file EXCEPT ![s].turn.cancel = reader[d].req] ELSE file
                 /\ reader' = [reader EXCEPT ![d] = Away]
                 /\ UNCHANGED <<owner, th, begun>>

\* Refused while the console has an entry for the session or a card waits.
Delete(d) == LET s == reader[d].sess
             IN /\ reader[d].at = "open" /\ reader[d].kind = "delete"
                /\ \/ /\ \A t \in Threads : Home(t) = Home(d) /\ th[t].at \in Registered => th[t].sess # s
                      /\ file' = [file EXCEPT ![s] = [NewFile EXCEPT !.there = FALSE]]
                   \/ UNCHANGED file
                /\ reader' = [reader EXCEPT ![d] = Away]
                /\ Close(d)
                /\ UNCHANGED <<th, begun>>

Compact(d) == /\ reader[d].at = "open" /\ reader[d].kind = "compact"
              /\ Archive(reader[d].sess)
              /\ reader' = [reader EXCEPT ![d] = Away]
              /\ Close(d)
              /\ UNCHANGED <<th, begun>>

\* append, for the note on a decided card, needs no execution lock; beyond 60
\* rows the older ones are archived.
Note(s) == /\ file[s].there
           /\ Archive(s)
           /\ UNCHANGED <<owner, th, reader, begun>>

\* A console dies: its threads, entries, slots and locks are gone.
Crash(c) == /\ th' = [t \in Threads |-> IF Home(t) = c THEN Idle ELSE th[t]]
            /\ reader' = [d \in Readers |-> IF Home(d) = c THEN Away ELSE reader[d]]
            /\ owner' = [s \in Sessions |-> IF owner[s] # None /\ Home(owner[s]) = c
                                            THEN None ELSE owner[s]]
            /\ UNCHANGED <<file, begun>>
-----------------------------------------------------------------------------
\* What a thread does by itself once a question is admitted.
Work(t) == \/ TryLock(t) \/ Load(t) \/ Register(t) \/ Prepare(t) \/ Begin(t) \/ Resolve(t)
           \/ Think(t) \/ NextCall(t) \/ Tool(t) \/ Finish(t)
           \/ Unregister(t) \/ Unlock(t) \/ Unslot(t)

Serve(d) == StopHere(d) \/ Open(d) \/ Snapshot(d) \/ AskStop(d) \/ Delete(d) \/ Compact(d)

Next == \/ \E t \in Threads : Post(t) \/ Work(t) \/ Heartbeat(t)
        \/ \E d \in Readers : Serve(d)
        \/ \E s \in Sessions : Note(s)
        \/ \E c \in Consoles : Crash(c)

Spec == Init /\ [][Next]_vars

\* A thread goes on, the model's answer or the error of its connection comes,
\* a tool returns (each has a timeout), and the heartbeat beats.
FairSpec == /\ Spec
            /\ \A t \in Threads : WF_vars(Work(t)) /\ WF_vars(Heartbeat(t))
-----------------------------------------------------------------------------
(* Properties *)

InTurn(t) == th[t].at \in Turning

\* The record is true: the turn a thread works on is in the file as running,
\* nobody has taken it for interrupted, replaced or deleted it; and an answer
\* that is running in the file is the one of the session's last turn.
RecordTrue ==
    /\ \A t \in Threads : InTurn(t) => /\ TurnIs(th[t].sess, th[t].req)
                                       /\ file[th[t].sess].turn.status = "running"
    /\ \A s \in Sessions, r \in Requests :
          file[s].rows[r] = "running" => file[s].turn.req = r /\ file[s].turn.status = "running"

\* A question is begun at most once, whoever sends it again, whatever was
\* archived and whatever console died: its tools are never replayed.
NoReplay ==
    [][\A t \in Threads : ~InTurn(t) /\ InTurn(t)' => <<th[t].sess, th[t].req>> \notin begun]_vars

\* A turn is stopped only if somebody wanted that turn stopped, however late
\* the stop is written.
StopsTheRight == \A t \in Threads : th[t].cancel \in {th[t].req, None}

\* After the stop at most the tool in flight still runs.
AtMostOneMore == \A t \in Threads : th[t].late <= 1

\* A stop that reached the thread or the session file ends the turn.
StopEnds == \A t \in Threads :
    (Cancelled(t) \/ (InTurn(t) /\ file[th[t].sess].turn.cancel # None)) ~> (th[t].at = "idle")
=============================================================================
