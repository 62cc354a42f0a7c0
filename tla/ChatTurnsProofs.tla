--------------------------- MODULE ChatTurnsProofs ---------------------------
(***************************************************************************)
(* For any consoles, threads, sessions and requests: the file tells the    *)
(* truth about the turn a thread works on, a question is never replayed,   *)
(* and a stop ends the turn it was meant for, with at most the tool in     *)
(* flight after it.                                                        *)
(*                                                                         *)
(* What carries the argument is the execution lock: from the check of a    *)
(* question until the thread leaves its turn the thread owns the session   *)
(* (ThreadFits), and so does a reader that deletes or compacts it, so      *)
(* nobody else changes the turn.                                           *)
(***************************************************************************)
EXTENDS ChatTurns, TLAPS

\* Where a thread owns the session of its question.
Owning == {"checked"} \cup Registered

\* What holds of a thread t that is as x says.
ThreadFits(t, x) ==
    /\ x.at # "idle" => x.sess \in Sessions /\ x.req \in Requests
    /\ x.cancel \in {x.req, None}
    /\ x.late <= 1 /\ (x.late > 0 => x.cancel # None /\ x.at # "tool")
    /\ x.at = "tool" => x.calls > 0
    /\ x.at = "finish" => x.outcome # "none"
    /\ x.at \in Owning => owner[x.sess] = t
    /\ x.at \in Turning => TurnIs(x.sess, x.req) /\ file[x.sess].turn.status = "running"

\* What holds of a session s whose file is f.
FileFits(s, f) ==
    /\ f.turn.cancel \in {f.turn.req, None}
    /\ f.turn.status = "running" => f.turn.req \in Requests
    /\ \A r \in Requests : /\ f.rows[r] = "running" => f.turn.req = r /\ f.turn.status = "running"
                           /\ f.there /\ <<s, r>> \in begun => f.rows[r] # "none"

\* What holds of a reader d that is as x says.
ReaderFits(d, x) ==
    /\ x.at # "idle" => x.sess \in Sessions
    /\ x.kind = "stop" => x.req \in Requests
    /\ x.at = "want" => x.kind = "stop"
    /\ x.at = "open" /\ x.kind \in {"delete", "compact"} => owner[x.sess] = d

ThreadsFit == \A t \in Threads : ThreadFits(t, th[t])
FilesFit == \A s \in Sessions : FileFits(s, file[s])
ReadersFit == \A d \in Readers : ReaderFits(d, reader[d])
IInv == TypeOK /\ ThreadsFit /\ FilesFit /\ ReadersFit
-----------------------------------------------------------------------------
(* What a step leaves alone *)

\* What a thread that owns s relies on.
SameTurn(s) == /\ file'[s].there = file[s].there /\ file'[s].turn.req = file[s].turn.req
               /\ file'[s].turn.status = file[s].turn.status

\* What x owns stays its own.
Keeps(x) == \A s \in Sessions : owner[s] = x => owner'[s] = x

LEMMA OtherThreads ==
    ASSUME IInv, NEW u \in Threads, th'[u] = th[u], Keeps(u),
           \A s \in Sessions : owner[s] = u => SameTurn(s)
    PROVE  ThreadFits(u, th[u])'
<1>1. ThreadFits(u, th[u])
  BY DEF IInv, ThreadsFit
<1>2. th[u].at \in Owning => th[u].sess \in Sessions
  BY <1>1 DEF ThreadFits, Owning, Registered, Turning
<1>3. th[u].at \in Turning => th[u].at \in Owning
  BY DEF Owning, Registered
<1> QED BY <1>1, <1>2, <1>3 DEF ThreadFits, Keeps, SameTurn, TurnIs

LEMMA OtherReaders ==
    ASSUME IInv, NEW d \in Readers, reader'[d] = reader[d], Keeps(d)
    PROVE  ReaderFits(d, reader[d])'
<1>1. ReaderFits(d, reader[d])
  BY DEF IInv, ReadersFit
<1> QED BY <1>1 DEF ReaderFits, Keeps

\* A step of one thread that leaves the sessions alone.
LEMMA ThreadStep ==
    ASSUME IInv, NEW t \in Threads, th' \in [Threads -> Handling],
           \A u \in Threads : u # t => th'[u] = th[u],
           ThreadFits(t, th'[t]),
           UNCHANGED <<file, owner, reader, begun>>
    PROVE  IInv'
<1>1. TypeOK'
  BY DEF IInv, TypeOK
<1>2. ASSUME NEW u \in Threads PROVE ThreadFits(u, th[u])'
  <2>1. CASE u = t
    BY <2>1 DEF ThreadFits, TurnIs
  <2>2. CASE u # t
    BY <2>2, OtherThreads DEF Keeps, SameTurn
  <2> QED BY <2>1, <2>2
<1>3. FilesFit' /\ ReadersFit'
  BY DEF IInv, FilesFit, FileFits, ReadersFit, ReaderFits
<1> QED BY <1>1, <1>2, <1>3 DEF IInv, ThreadsFit

\* Going to another point.
LEMMA Moves ==
    ASSUME TypeOK, NEW t \in Threads, NEW point \in Points, Move(t, point)
    PROVE  /\ th' \in [Threads -> Handling]
           /\ th'[t] = [th[t] EXCEPT !.at = point]
           /\ \A u \in Threads : u # t => th'[u] = th[u]
BY DEF Move, TypeOK, Handling

\* One that goes on without having reached a tool or an end.
LEMMA MoveStep ==
    ASSUME IInv, NEW t \in Threads, NEW point \in Points, Move(t, point), th[t].at # "idle",
           point \in Owning => th[t].at \in Owning,
           point \in Turning => th[t].at \in Turning,
           point = "tool" => th[t].late = 0 /\ th[t].calls > 0,
           point # "finish",
           UNCHANGED <<file, owner, reader, begun>>
    PROVE  IInv'
<1>1. /\ th' \in [Threads -> Handling]
      /\ th'[t] = [th[t] EXCEPT !.at = point]
      /\ \A u \in Threads : u # t => th'[u] = th[u]
  BY Moves DEF IInv
<1>2. th[t] \in Handling /\ ThreadFits(t, th[t])
  BY DEF IInv, TypeOK, ThreadsFit
<1>3. ThreadFits(t, th'[t])
  BY <1>1, <1>2 DEF ThreadFits, Handling, TurnIs
<1> QED BY <1>1, <1>3, ThreadStep
-----------------------------------------------------------------------------
(* Admission *)

LEMMA IdleFits == Idle \in Handling /\ \A t \in Threads : ThreadFits(t, Idle)
<1>1. 0 \in 0 .. MaxCalls /\ 0 \in 0 .. 2 /\ 0 <= 1 /\ ~(0 > 0)
  BY BoundAssumption
<1>2. Idle \in Handling
  BY <1>1 DEF Idle, Handling, Points, Flags
<1>3. \A t \in Threads : ThreadFits(t, Idle)
  BY <1>1 DEF Idle, ThreadFits, Owning, Registered, Turning
<1> QED BY <1>2, <1>3

LEMMA PostStep == \A t \in Threads : IInv /\ Post(t) => IInv'
<1> SUFFICES ASSUME NEW t \in Threads, IInv, Post(t) PROVE IInv'
  OBVIOUS
<1>1. PICK s \in Sessions, r \in Requests :
        th' = [th EXCEPT ![t] = [Idle EXCEPT !.at = "admitted", !.sess = s, !.req = r]]
  BY DEF Post
<1> DEFINE new == [Idle EXCEPT !.at = "admitted", !.sess = s, !.req = r]
<1>2. new \in Handling
  BY IdleFits DEF Idle, Handling, Points
<1>4. ThreadFits(t, new)
  BY DEF Idle, ThreadFits, Owning, Registered, Turning
<1>3. /\ th' \in [Threads -> Handling] /\ th'[t] = new
      /\ \A u \in Threads : u # t => th'[u] = th[u]
  BY <1>1, <1>2 DEF IInv, TypeOK
<1> HIDE DEF new
<1> QED BY <1>3, <1>4, ThreadStep DEF Post

LEMMA TryLockStep == \A t \in Threads : IInv /\ TryLock(t) => IInv'
<1> SUFFICES ASSUME NEW t \in Threads, IInv, TryLock(t) PROVE IInv'
  OBVIOUS
<1>1. /\ th[t].at = "admitted" /\ Move(t, "tried") /\ UNCHANGED <<file, reader, begun>>
      /\ owner' = IF owner[th[t].sess] = None THEN [owner EXCEPT ![th[t].sess] = t] ELSE owner
  BY DEF TryLock
<1>2. /\ th' \in [Threads -> Handling]
      /\ th'[t] = [th[t] EXCEPT !.at = "tried"]
      /\ \A u \in Threads : u # t => th'[u] = th[u]
  BY <1>1, Moves DEF IInv, Points
<1>3. th[t] \in Handling /\ ThreadFits(t, th[t])
  BY DEF IInv, TypeOK, ThreadsFit
<1>4. ThreadFits(t, th[t])'
  BY <1>1, <1>2, <1>3 DEF ThreadFits, Handling, Owning, Registered, Turning
<1>5. \A x \in Threads \cup Readers : Keeps(x)
  BY <1>1, NoneAssumption DEF Keeps, IInv, TypeOK
<1>6. TypeOK'
  BY <1>1, <1>2 DEF IInv, TypeOK
<1>7. ThreadsFit'
  BY <1>1, <1>2, <1>4, <1>5, OtherThreads DEF ThreadsFit, SameTurn
<1>8. ReadersFit'
  BY <1>1, <1>5, OtherReaders DEF ReadersFit
<1>9. FilesFit'
  BY <1>1 DEF IInv, FilesFit, FileFits
<1> QED BY <1>6, <1>7, <1>8, <1>9 DEF IInv

LEMMA LoadStep == \A t \in Threads : IInv /\ Load(t) => IInv'
<1> SUFFICES ASSUME NEW t \in Threads, IInv, Load(t) PROVE IInv'
  OBVIOUS
<1>1. th[t].at = "tried" /\ UNCHANGED <<file, owner, reader, begun>>
  BY DEF Load
<1>2. CASE Move(t, "unlock")
  BY <1>1, <1>2, MoveStep DEF Points, Owning, Registered, Turning
<1>3. CASE Move(t, "checked") /\ Owned(t)
  <2>1. /\ th' \in [Threads -> Handling]
        /\ th'[t] = [th[t] EXCEPT !.at = "checked"]
        /\ \A u \in Threads : u # t => th'[u] = th[u]
    BY <1>3, Moves DEF IInv, Points
  <2>2. th[t] \in Handling /\ ThreadFits(t, th[t])
    BY DEF IInv, TypeOK, ThreadsFit
  <2>3. ThreadFits(t, th'[t])
    BY <1>1, <1>3, <2>1, <2>2 DEF ThreadFits, Handling, Owned, Turning
  <2> QED BY <1>1, <2>1, <2>3, ThreadStep
<1> QED BY <1>2, <1>3 DEF Load

LEMMA RegisterStep == \A t \in Threads : IInv /\ Register(t) => IInv'
<1> SUFFICES ASSUME NEW t \in Threads, IInv, Register(t) PROVE IInv'
  OBVIOUS
<1>1. th[t].at = "checked" /\ UNCHANGED <<file, owner, reader, begun>>
      /\ (Move(t, "registered") \/ Move(t, "unlock"))
  BY DEF Register
<1> QED BY <1>1, MoveStep DEF Points, Owning, Registered, Turning

\* The exit of a question.
LEMMA UnregisterStep == \A t \in Threads : IInv /\ Unregister(t) => IInv'
<1> SUFFICES ASSUME NEW t \in Threads, IInv, Unregister(t) PROVE IInv'
  OBVIOUS
<1> QED BY MoveStep DEF Unregister, Points, Owning, Registered, Turning

LEMMA UnlockStep == \A t \in Threads : IInv /\ Unlock(t) => IInv'
<1> SUFFICES ASSUME NEW t \in Threads, IInv, Unlock(t) PROVE IInv'
  OBVIOUS
<1>1. /\ th[t].at = "unlock" /\ Move(t, "unslot") /\ UNCHANGED <<file, reader, begun>>
      /\ owner' = IF Owned(t) THEN [owner EXCEPT ![th[t].sess] = None] ELSE owner
  BY DEF Unlock
<1>2. /\ th' \in [Threads -> Handling]
      /\ th'[t] = [th[t] EXCEPT !.at = "unslot"]
      /\ \A u \in Threads : u # t => th'[u] = th[u]
  BY <1>1, Moves DEF IInv, Points
<1>3. th[t] \in Handling /\ ThreadFits(t, th[t])
  BY DEF IInv, TypeOK, ThreadsFit
<1>4. ThreadFits(t, th[t])'
  BY <1>1, <1>2, <1>3 DEF ThreadFits, Handling, Owning, Registered, Turning
<1>5. \A x \in Threads \cup Readers : x # t => Keeps(x)
  BY <1>1 DEF Keeps, IInv, TypeOK, Owned
<1>6. TypeOK'
  BY <1>1, <1>2 DEF IInv, TypeOK
<1>7. ThreadsFit'
  BY <1>1, <1>2, <1>4, <1>5, OtherThreads DEF ThreadsFit, SameTurn
<1>8. ReadersFit'
  BY <1>1, <1>5, ApartAssumption, OtherReaders DEF ReadersFit
<1>9. FilesFit'
  BY <1>1 DEF IInv, FilesFit, FileFits
<1> QED BY <1>6, <1>7, <1>8, <1>9 DEF IInv

LEMMA UnslotStep == \A t \in Threads : IInv /\ Unslot(t) => IInv'
<1> SUFFICES ASSUME NEW t \in Threads, IInv, Unslot(t) PROVE IInv'
  OBVIOUS
<1>2. /\ th' \in [Threads -> Handling] /\ th'[t] = Idle
      /\ \A u \in Threads : u # t => th'[u] = th[u]
  BY IdleFits DEF Unslot, IInv, TypeOK
<1> QED BY <1>2, IdleFits, ThreadStep DEF Unslot
-----------------------------------------------------------------------------
(* The turn *)

\* A step of t that changes the file of its session, which it owns.
LEMMA FileStep ==
    ASSUME IInv, NEW t \in Threads, NEW s \in Sessions, owner[s] = t,
           th' \in [Threads -> Handling], \A u \in Threads : u # t => th'[u] = th[u],
           ThreadFits(t, th[t])',
           file' \in [Sessions -> Files], \A z \in Sessions : z # s => file'[z] = file[z],
           FileFits(s, file[s])',
           begun' \subseteq Sessions \X Requests,
           \A z \in Sessions, r \in Requests : <<z, r>> \in begun' => z = s \/ <<z, r>> \in begun,
           UNCHANGED <<owner, reader>>
    PROVE  IInv'
<1>1. TypeOK'
  BY DEF IInv, TypeOK
<1>2. \A x \in Threads \cup Readers : Keeps(x)
  BY DEF Keeps
<1>3. ThreadsFit'
  <2> SUFFICES ASSUME NEW u \in Threads, u # t PROVE ThreadFits(u, th[u])'
    BY DEF ThreadsFit
  <2>1. \A z \in Sessions : owner[z] = u => SameTurn(z)
    BY DEF SameTurn
  <2> QED BY <1>2, <2>1, OtherThreads
<1>4. ReadersFit'
  BY <1>2, OtherReaders DEF ReadersFit
<1>5. ASSUME NEW z \in Sessions, z # s PROVE FileFits(z, file[z])'
  <2>1. FileFits(z, file[z]) /\ file'[z] = file[z]
    BY <1>5 DEF IInv, FilesFit
  <2> QED BY <1>5, <2>1 DEF FileFits
<1> QED BY <1>1, <1>3, <1>4, <1>5 DEF IInv, FilesFit

\* What a thread knows of its session when it has been admitted.
LEMMA OwnsSession ==
    ASSUME IInv, NEW t \in Threads, th[t].at \in Owning
    PROVE  /\ th[t] \in Handling /\ ThreadFits(t, th[t])
           /\ th[t].sess \in Sessions /\ th[t].req \in Requests /\ owner[th[t].sess] = t
           /\ file[th[t].sess] \in Files /\ FileFits(th[t].sess, file[th[t].sess])
<1>1. th[t] \in Handling /\ ThreadFits(t, th[t]) /\ th[t].at # "idle"
  BY DEF IInv, TypeOK, ThreadsFit, Owning, Registered, Turning
<1> QED BY <1>1 DEF IInv, TypeOK, FilesFit, ThreadFits

\* Archiving leaves turns and answers as they are.
LEMMA ArchiveKeeps ==
    ASSUME TypeOK, NEW s \in Sessions, Archive(s)
    PROVE  /\ file' \in [Sessions -> Files]
           /\ \A z \in Sessions : z # s => file'[z] = file[z]
           /\ file'[s].turn = file[s].turn /\ file'[s].rows = file[s].rows
           /\ file'[s].there = file[s].there
<1>1. CASE UNCHANGED file
  BY <1>1 DEF TypeOK
<1>2. CASE file' = [file EXCEPT ![s].archived = {r \in Requests : Received(s, r)} \ {file[s].turn.req}]
  BY <1>2 DEF TypeOK, Files
<1> QED BY <1>1, <1>2 DEF Archive

LEMMA PrepareStep == \A t \in Threads : IInv /\ Prepare(t) => IInv'
<1> SUFFICES ASSUME NEW t \in Threads, IInv, Prepare(t) PROVE IInv'
  OBVIOUS
<1>1. th[t].at = "registered" /\ UNCHANGED <<owner, reader, begun>>
  BY DEF Prepare
<1>2. CASE Move(t, "leaving") /\ UNCHANGED file
  BY <1>1, <1>2, MoveStep DEF Points, Owning, Registered, Turning
<1>3. CASE Move(t, "prepared") /\ Archive(th[t].sess)
  <2>0. PICK s : s = th[t].sess
    OBVIOUS
  <2>1. /\ th[t] \in Handling /\ ThreadFits(t, th[t]) /\ s \in Sessions /\ owner[s] = t
        /\ FileFits(s, file[s])
    BY <1>1, <2>0, OwnsSession DEF Owning, Registered
  <2>2. /\ th' \in [Threads -> Handling]
        /\ th'[t] = [th[t] EXCEPT !.at = "prepared"]
        /\ \A u \in Threads : u # t => th'[u] = th[u]
    BY <1>3, Moves DEF IInv, Points, Registered
  <2>3. ThreadFits(t, th[t])'
    BY <1>1, <2>1, <2>2 DEF ThreadFits, Handling, Owning, Registered, Turning
  <2>4. /\ file' \in [Sessions -> Files]
        /\ \A z \in Sessions : z # s => file'[z] = file[z]
        /\ file'[s].turn = file[s].turn /\ file'[s].rows = file[s].rows
        /\ file'[s].there = file[s].there
    BY <1>3, <2>0, <2>1, ArchiveKeeps DEF IInv
  <2>6. begun' \subseteq Sessions \X Requests
    BY <1>1 DEF IInv, TypeOK
  <2>7. FileFits(s, file[s])'
    BY <1>1, <2>1, <2>4 DEF FileFits
  <2> QED BY <1>1, <2>1, <2>2, <2>3, <2>4, <2>6, <2>7, FileStep
<1> QED BY <1>2, <1>3 DEF Prepare

LEMMA BeginStep == \A t \in Threads : IInv /\ Begin(t) => IInv'
<1> SUFFICES ASSUME NEW t \in Threads, IInv, Begin(t) PROVE IInv'
  OBVIOUS
<1>0. PICK s, r : s = th[t].sess /\ r = th[t].req
  OBVIOUS
<1>1. th[t].at = "prepared" /\ UNCHANGED <<owner, reader>>
  BY DEF Begin
<1>2. CASE Move(t, "leaving") /\ UNCHANGED <<file, begun>>
  BY <1>1, <1>2, MoveStep DEF Points, Owning, Registered, Turning
<1>3. CASE /\ file[s].there
           /\ file' = [file EXCEPT ![s].rows = RowsWith(s, r),
                                   ![s].turn = [req |-> r, status |-> "running", cancel |-> None]]
           /\ begun' = begun \cup {<<s, r>>}
           /\ Move(t, "resolving")
  <2>1. /\ th[t] \in Handling /\ ThreadFits(t, th[t]) /\ s \in Sessions /\ r \in Requests /\ owner[s] = t
        /\ file[s] \in Files /\ FileFits(s, file[s])
    BY <1>0, <1>1, OwnsSession DEF Owning, Registered
  <2>2. /\ th' \in [Threads -> Handling]
        /\ th'[t] = [th[t] EXCEPT !.at = "resolving"]
        /\ \A u \in Threads : u # t => th'[u] = th[u]
    BY <1>3, Moves DEF IInv, Points, Registered, Turning
  <2> DEFINE turn == [req |-> r, status |-> "running", cancel |-> None]
             rows == RowsWith(s, r)
             new == [file[s] EXCEPT !.rows = rows, !.turn = turn]
  <2>3. turn \in Turns /\ turn.req = r /\ turn.status = "running" /\ turn.cancel = None
    BY <2>1 DEF Turns, Statuses, Flags
  <2>4. /\ rows \in [Requests -> Statuses \cup {"none"}]
        /\ rows[r] = "running"
        /\ \A q \in Requests : q # r => /\ rows[q] # "running"
                                        /\ file[s].rows[q] # "none" => rows[q] # "none"
    <3>2. "running" \in Statuses /\ "interrupted" \in Statuses /\ "interrupted" # "none"
      BY DEF Statuses
    <3> QED BY <2>1, <3>2 DEF RowsWith, FileFits, Files
  <2>5. /\ file' \in [Sessions -> Files] /\ file'[s].rows = rows /\ file'[s].turn = turn
        /\ file'[s].there = file[s].there
        /\ \A z \in Sessions : z # s => file'[z] = file[z]
    <3> HIDE DEF turn, rows
    <3>1. file' = [file EXCEPT ![s].rows = rows, ![s].turn = turn]
      BY <1>3 DEF turn, rows
    <3> QED BY <2>1, <2>3, <2>4, <3>1 DEF IInv, TypeOK, Files
  <2>6. ThreadFits(t, th[t])'
    BY <1>0, <1>1, <1>3, <2>1, <2>2, <2>3, <2>5 DEF ThreadFits, Handling, TurnIs
  <2>7. FileFits(s, file[s])'
    <3> HIDE DEF turn, rows
    <3> QED BY <1>3, <2>1, <2>3, <2>4, <2>5 DEF FileFits
  <2>8. begun' \subseteq Sessions \X Requests
    BY <1>3, <2>1 DEF IInv, TypeOK
  <2>9. \A z \in Sessions, q \in Requests : <<z, q>> \in begun' => z = s \/ <<z, q>> \in begun
    BY <1>3
  <2> QED BY <1>1, <2>1, <2>2, <2>5, <2>6, <2>7, <2>8, <2>9, FileStep
<1> QED BY <1>0, <1>2, <1>3 DEF Begin

LEMMA Ends ==
    ASSUME IInv, NEW t \in Threads, th[t].at \in Turning, NEW outcome \in Outcomes, End(t, outcome),
           UNCHANGED <<file, owner, reader, begun>>
    PROVE  IInv'
<1>1. th[t] \in Handling /\ ThreadFits(t, th[t])
  BY DEF IInv, TypeOK, ThreadsFit
<1> DEFINE new == [th[t] EXCEPT !.at = "finish", !.outcome = outcome, !.calls = 0]
<1>2. 0 \in 0 .. MaxCalls
  BY BoundAssumption
<1>3. new \in Handling
  BY <1>1, <1>2 DEF Handling, Points, Registered, Turning
<1>4. /\ th' \in [Threads -> Handling] /\ th'[t] = new
      /\ \A u \in Threads : u # t => th'[u] = th[u]
  BY <1>1, <1>3 DEF End, IInv, TypeOK
<1>5. ThreadFits(t, new)
  BY <1>1 DEF ThreadFits, Handling, Owning, Registered, Turning, Outcomes
<1> QED BY <1>4, <1>5, ThreadStep

LEMMA ResolveStep == \A t \in Threads : IInv /\ Resolve(t) => IInv'
<1> SUFFICES ASSUME NEW t \in Threads, IInv, Resolve(t) PROVE IInv'
  OBVIOUS
<1>1. th[t].at = "resolving" /\ UNCHANGED <<file, owner, reader, begun>>
  BY DEF Resolve
<1>2. CASE EndBadly(t)
  BY <1>1, <1>2, Ends DEF EndBadly, Turning, Outcomes
<1>3. CASE Move(t, "loop")
  BY <1>1, <1>3, MoveStep DEF Points, Owning, Registered, Turning
<1> QED BY <1>2, <1>3 DEF Resolve

LEMMA ThinkStep == \A t \in Threads : IInv /\ Think(t) => IInv'
<1> SUFFICES ASSUME NEW t \in Threads, IInv, Think(t) PROVE IInv'
  OBVIOUS
<1>1. th[t].at = "loop" /\ UNCHANGED <<file, owner, reader, begun>>
  BY DEF Think
<1>2. CASE EndBadly(t)
  BY <1>1, <1>2, Ends DEF EndBadly, Turning, Outcomes
<1>3. CASE End(t, "completed")
  BY <1>1, <1>3, Ends DEF Turning, Outcomes
<1>4. CASE \E n \in 1 .. MaxCalls : th' = [th EXCEPT ![t].at = "calls", ![t].calls = n]
  <2>1. PICK n \in 1 .. MaxCalls : th' = [th EXCEPT ![t].at = "calls", ![t].calls = n]
    BY <1>4
  <2>2. th[t] \in Handling /\ ThreadFits(t, th[t])
    BY DEF IInv, TypeOK, ThreadsFit
  <2> DEFINE new == [th[t] EXCEPT !.at = "calls", !.calls = n]
  <2>3. n \in 0 .. MaxCalls
    BY BoundAssumption
  <2>4. new \in Handling
    BY <2>2, <2>3 DEF Handling, Points, Registered, Turning
  <2>5. /\ th' \in [Threads -> Handling] /\ th'[t] = new
        /\ \A u \in Threads : u # t => th'[u] = th[u]
    BY <2>1, <2>2, <2>4 DEF IInv, TypeOK
  <2>6. ThreadFits(t, new)
    BY <1>1, <2>2 DEF ThreadFits, Handling, Owning, Registered, Turning
  <2> QED BY <1>1, <2>5, <2>6, ThreadStep
<1> QED BY <1>2, <1>3, <1>4 DEF Think

LEMMA NextCallStep == \A t \in Threads : IInv /\ NextCall(t) => IInv'
<1> SUFFICES ASSUME NEW t \in Threads, IInv, NextCall(t) PROVE IInv'
  OBVIOUS
<1>1. th[t].at = "calls" /\ UNCHANGED <<file, owner, reader, begun>>
  BY DEF NextCall
<1>2. CASE Move(t, "loop")
  BY <1>1, <1>2, MoveStep DEF Points, Owning, Registered, Turning
<1>3. CASE End(t, "stopped")
  BY <1>1, <1>3, Ends DEF Turning, Outcomes
<1>4. CASE ~CallsDone(t) /\ ~Stopped(t) /\ Move(t, "tool")
  <2>1. th[t] \in Handling /\ ThreadFits(t, th[t])
    BY DEF IInv, TypeOK, ThreadsFit
  <2>2. th[t].late = 0 /\ th[t].calls > 0
    BY <1>4, <2>1 DEF ThreadFits, Handling, CallsDone, Stopped, Cancelled
  <2> QED BY <1>1, <1>4, <2>2, MoveStep DEF Points, Owning, Registered, Turning
<1> QED BY <1>2, <1>3, <1>4 DEF NextCall

LEMMA ToolStep == \A t \in Threads : IInv /\ Tool(t) => IInv'
<1> SUFFICES ASSUME NEW t \in Threads, IInv, Tool(t) PROVE IInv'
  OBVIOUS
<1>1. th[t].at = "tool" /\ UNCHANGED <<file, owner, reader, begun>>
  BY DEF Tool
<1>2. th[t] \in Handling /\ ThreadFits(t, th[t])
  BY DEF IInv, TypeOK, ThreadsFit
<1>3. th[t].late = 0 /\ th[t].calls \in 1 .. MaxCalls
  BY <1>1, <1>2, BoundAssumption DEF ThreadFits, Handling
<1>4. PICK next \in {"calls", "finish"} :
        th' = [th EXCEPT ![t].at = next,
                         ![t].outcome = IF next = "finish" THEN "completed" ELSE "none",
                         ![t].calls = IF next = "finish" THEN 0 ELSE @ - 1,
                         ![t].late = IF Cancelled(t) /\ @ < 2 THEN @ + 1 ELSE @]
  BY DEF Tool
<1> DEFINE outcome == IF next = "finish" THEN "completed" ELSE "none"
           calls == IF next = "finish" THEN 0 ELSE th[t].calls - 1
           late == IF Cancelled(t) THEN 1 ELSE 0
           new == [th[t] EXCEPT !.at = next, !.outcome = outcome, !.calls = calls, !.late = late]
<1>5. outcome \in Outcomes \cup {"none"} /\ calls \in 0 .. MaxCalls /\ late \in 0 .. 2
  BY <1>3, BoundAssumption DEF Outcomes
<1>6. new \in Handling
  BY <1>2, <1>5 DEF Handling, Points, Registered, Turning
<1>7. th' = [th EXCEPT ![t] = new]
  <2>1. (IF Cancelled(t) /\ th[t].late < 2 THEN th[t].late + 1 ELSE th[t].late) = late
    BY <1>3
  <2>2. th' = [th EXCEPT ![t] = [th[t] EXCEPT
                 !.at = next, !.outcome = outcome, !.calls = calls,
                 !.late = IF Cancelled(t) /\ th[t].late < 2 THEN th[t].late + 1 ELSE th[t].late]]
    BY <1>4
  <2> QED BY <2>1, <2>2
<1>8. /\ th' \in [Threads -> Handling] /\ th'[t] = new
      /\ \A u \in Threads : u # t => th'[u] = th[u]
  BY <1>6, <1>7 DEF IInv, TypeOK
<1>9. ThreadFits(t, new)
  BY <1>1, <1>2, <1>3 DEF ThreadFits, Handling, Owning, Registered, Turning, Cancelled
<1> QED BY <1>1, <1>8, <1>9, ThreadStep

\* Giving the turn of s its last status keeps its file in order.
LEMMA Concludes ==
    ASSUME IInv, NEW s \in Sessions, NEW status \in Statuses \ {"running"}, file[s].turn.req \in Requests,
           Conclude(s, file[s].turn.req, status), UNCHANGED begun
    PROVE  /\ file' \in [Sessions -> Files]
           /\ \A z \in Sessions : z # s => file'[z] = file[z]
           /\ FileFits(s, file[s])'
<1>1. file[s] \in Files /\ FileFits(s, file[s])
  BY DEF IInv, TypeOK, FilesFit
<1> DEFINE r == file[s].turn.req
<1>2. file[s].turn \in Turns /\ file[s].rows \in [Requests -> Statuses \cup {"none"}]
  BY <1>1 DEF Files
<1> DEFINE turn == [file[s].turn EXCEPT !.status = status]
           rows == [file[s].rows EXCEPT ![r] = status]
           new == [file[s] EXCEPT !.turn = turn, !.rows = rows]
<1>3. /\ turn \in Turns /\ turn.req = r /\ turn.status = status /\ turn.cancel = file[s].turn.cancel
      /\ rows \in [Requests -> Statuses \cup {"none"}] /\ rows[r] = status
      /\ \A q \in Requests : q # r => rows[q] = file[s].rows[q]
  BY <1>2 DEF Turns
<1>4. file' = [file EXCEPT ![s] = new]
  BY DEF Conclude, IInv, TypeOK, Files, Turns
<1> HIDE DEF turn, rows
<1>5. new \in Files /\ new.turn = turn /\ new.rows = rows /\ new.there = file[s].there
  BY <1>1, <1>3 DEF Files
<1> HIDE DEF new
<1>6. /\ file' \in [Sessions -> Files] /\ file'[s] = new
      /\ \A z \in Sessions : z # s => file'[z] = file[z]
  BY <1>4, <1>5 DEF IInv, TypeOK
<1>7. "none" \notin Statuses
  BY DEF Statuses, Outcomes
<1>8. FileFits(s, file[s])'
  BY <1>1, <1>3, <1>5, <1>6, <1>7 DEF FileFits
<1> QED BY <1>6, <1>8

LEMMA FinishStep == \A t \in Threads : IInv /\ Finish(t) => IInv'
<1> SUFFICES ASSUME NEW t \in Threads, IInv, Finish(t) PROVE IInv'
  OBVIOUS
<1>0. PICK s, r : s = th[t].sess /\ r = th[t].req
  OBVIOUS
<1>1. /\ th[t].at = "finish" /\ UNCHANGED <<owner, reader, begun>>
      /\ th' = [th EXCEPT ![t].at = "leaving", ![t].outcome = "none"]
  BY DEF Finish
<1>2. /\ th[t] \in Handling /\ ThreadFits(t, th[t]) /\ s \in Sessions /\ r \in Requests /\ owner[s] = t
      /\ file[s].turn.req = r
  BY <1>0, <1>1, OwnsSession DEF Owning, Registered, Turning, ThreadFits, TurnIs
<1> DEFINE new == [th[t] EXCEPT !.at = "leaving", !.outcome = "none"]
<1>3. new \in Handling
  BY <1>2 DEF Handling, Points, Registered
<1>4. /\ th' \in [Threads -> Handling] /\ th'[t] = new
      /\ \A u \in Threads : u # t => th'[u] = th[u]
  BY <1>1, <1>3 DEF IInv, TypeOK
<1>5. ThreadFits(t, new)
  BY <1>0, <1>1, <1>2 DEF ThreadFits, Handling, Owning, Registered, Turning
<1>6. CASE UNCHANGED file
  BY <1>1, <1>4, <1>5, <1>6, ThreadStep
<1>7. CASE Conclude(s, r, th[t].outcome)
  <2>1. th[t].outcome \in Statuses \ {"running"}
    BY <1>1, <1>2 DEF ThreadFits, Handling, Statuses, Outcomes
  <2>2. /\ file' \in [Sessions -> Files]
        /\ \A z \in Sessions : z # s => file'[z] = file[z]
        /\ FileFits(s, file[s])'
    <3>1. Conclude(s, file[s].turn.req, th[t].outcome)
      BY <1>2, <1>7
    <3> QED BY <1>1, <1>2, <2>1, <3>1, Concludes
  <2>3. ThreadFits(t, th[t])'
    BY <1>1, <1>2, <1>4 DEF ThreadFits, Handling, Owning, Registered, Turning
  <2>4. begun' \subseteq Sessions \X Requests
    BY <1>1 DEF IInv, TypeOK
  <2> QED BY <1>1, <1>2, <1>4, <2>2, <2>3, <2>4, FileStep
<1> QED BY <1>0, <1>6, <1>7 DEF Finish

\* Somebody wants the turn of t stopped.
LEMMA FlagStep ==
    ASSUME IInv, NEW t \in Threads, th[t].at \in Owning, th[t].at # "tool" \/ th[t].late = 0,
           NEW flag, flag \in {th[t].req, None}, flag # None,
           th' = [th EXCEPT ![t].cancel = flag],
           UNCHANGED <<file, owner, reader, begun>>
    PROVE  IInv'
<1>1. th[t] \in Handling /\ ThreadFits(t, th[t]) /\ th[t].req \in Requests
  BY OwnsSession
<1> DEFINE new == [th[t] EXCEPT !.cancel = flag]
<1>2. new \in Handling
  BY <1>1 DEF Handling, Flags
<1>3. /\ th' \in [Threads -> Handling] /\ th'[t] = new
      /\ \A u \in Threads : u # t => th'[u] = th[u]
  BY <1>2 DEF IInv, TypeOK
<1>4. ThreadFits(t, new)
  BY <1>1 DEF ThreadFits, Handling
<1> QED BY <1>3, <1>4, ThreadStep

LEMMA HeartbeatStep == \A t \in Threads : IInv /\ Heartbeat(t) => IInv'
<1> SUFFICES ASSUME NEW t \in Threads, IInv, Heartbeat(t) PROVE IInv'
  OBVIOUS
<1>0. PICK flag : flag = file[th[t].sess].turn.cancel
  OBVIOUS
<1>1. /\ th[t].at \in Turning /\ flag # None /\ UNCHANGED <<file, owner, reader, begun>>
      /\ th' = [th EXCEPT ![t].cancel = flag]
  BY <1>0 DEF Heartbeat, Beating
<1>2. th[t].at \in Owning
  BY <1>1 DEF Owning, Registered
<1>3. ThreadFits(t, th[t]) /\ FileFits(th[t].sess, file[th[t].sess]) /\ th[t] \in Handling
  BY <1>2, OwnsSession
<1>4. flag \in {th[t].req, None} /\ (th[t].at # "tool" \/ th[t].late = 0)
  BY <1>0, <1>1, <1>3 DEF ThreadFits, FileFits, TurnIs, Handling
<1> QED BY <1>1, <1>2, <1>4, FlagStep
-----------------------------------------------------------------------------
(* The other requests *)

LEMMA StopHereStep == \A d \in Readers : IInv /\ StopHere(d) => IInv'
<1> SUFFICES ASSUME NEW d \in Readers, IInv, StopHere(d) PROVE IInv'
  OBVIOUS
<1>1. PICK r \in Requests, t \in Threads : t \in Entries(Home(d), r) /\ th' = [th EXCEPT ![t].cancel = r]
  BY DEF StopHere
<1>2. th[t].at \in Owning /\ th[t].req = r /\ r # None
  BY <1>1, NoneAssumption DEF Entries, Owning
<1>3. th[t].at # "tool" \/ th[t].late = 0
  BY <1>2, OwnsSession DEF ThreadFits, Handling
<1>4. UNCHANGED <<file, owner, reader, begun>>
  BY DEF StopHere
<1> QED BY <1>1, <1>2, <1>3, <1>4, FlagStep

\* A reader's step that leaves the threads alone, and the turns of sessions
\* that a thread owns.
LEMMA ReaderStep ==
    ASSUME IInv, NEW d \in Readers, TypeOK', UNCHANGED <<th, begun>>,
           \A x \in Threads \cup Readers : x # d => Keeps(x),
           \A s \in Sessions : SameTurn(s) \/ owner[s] \notin Threads,
           \A e \in Readers : e # d => reader'[e] = reader[e],
           ReaderFits(d, reader[d])', FilesFit'
    PROVE  IInv'
<1>1. \A t \in Threads : t # d
  BY ApartAssumption
<1>2. ThreadsFit'
  <2> SUFFICES ASSUME NEW u \in Threads PROVE ThreadFits(u, th[u])'
    BY DEF ThreadsFit
  <2> QED BY <1>1, OtherThreads
<1>3. ReadersFit'
  BY OtherReaders DEF ReadersFit
<1> QED BY <1>2, <1>3 DEF IInv

LEMMA OpenStep == \A d \in Readers : IInv /\ Open(d) => IInv'
<1> SUFFICES ASSUME NEW d \in Readers, IInv, Open(d) PROVE IInv'
  OBVIOUS
<1>1. PICK s \in Sessions, kind \in Kinds, r \in Requests \cup {None} :
        /\ kind = "stop" <=> r # None
        /\ kind \in {"delete", "compact"} => owner[s] = None
        /\ reader' = [reader EXCEPT ![d] = [at |-> "open", kind |-> kind, sess |-> s, req |-> r]]
        /\ owner' = IF owner[s] = None THEN [owner EXCEPT ![s] = d] ELSE owner
  BY DEF Open
<1>2. UNCHANGED <<file, th, begun>>
  BY DEF Open
<1> DEFINE new == [at |-> "open", kind |-> kind, sess |-> s, req |-> r]
<1>3. new \in Reading
  BY DEF Reading
<1>4. TypeOK'
  BY <1>1, <1>2, <1>3 DEF IInv, TypeOK
<1>5. reader'[d] = new /\ \A e \in Readers : e # d => reader'[e] = reader[e]
  BY <1>1, <1>3 DEF IInv, TypeOK
<1>6. \A x \in Threads \cup Readers : Keeps(x)
  BY <1>1, NoneAssumption DEF Keeps, IInv, TypeOK
<1>7. \A z \in Sessions : SameTurn(z)
  BY <1>2 DEF SameTurn
<1>8. ReaderFits(d, reader[d])'
  BY <1>1, <1>5 DEF ReaderFits, IInv, TypeOK
<1>9. FilesFit'
  BY <1>2 DEF IInv, FilesFit, FileFits
<1> QED BY <1>2, <1>4, <1>5, <1>6, <1>7, <1>8, <1>9, ReaderStep

LEMMA AwayFits == Away \in Reading /\ \A d \in Readers : ReaderFits(d, Away)
BY DEF Away, Reading, ReaderFits

\* Giving the lock back.
LEMMA CloseKeeps ==
    ASSUME TypeOK, NEW d \in Readers, Close(d)
    PROVE  /\ owner' \in [Sessions -> Threads \cup Readers \cup {None}]
           /\ \A x \in Threads \cup Readers : x # d => Keeps(x)
BY DEF Close, Keeps, TypeOK

LEMMA SnapshotStep == \A d \in Readers : IInv /\ Snapshot(d) => IInv'
<1> SUFFICES ASSUME NEW d \in Readers, IInv, Snapshot(d) PROVE IInv'
  OBVIOUS
<1>0. PICK s : s = reader[d].sess
  OBVIOUS
<1>1. /\ reader[d].at = "open" /\ Close(d) /\ UNCHANGED <<th, begun>>
      /\ \/ UNCHANGED file
         \/ /\ IsIdle(d) /\ file[s].turn.status = "running"
            /\ Conclude(s, file[s].turn.req, "interrupted")
      /\ \/ reader[d].kind = "stop" /\ reader' = [reader EXCEPT ![d].at = "want"]
         \/ reader' = [reader EXCEPT ![d] = Away]
  BY <1>0 DEF Snapshot
<1>2. reader[d] \in Reading /\ ReaderFits(d, reader[d]) /\ s \in Sessions
  BY <1>0, <1>1 DEF IInv, TypeOK, ReadersFit, ReaderFits
<1> DEFINE new == [reader[d] EXCEPT !.at = "want"]
<1>3. new \in Reading /\ (reader[d].kind = "stop" => ReaderFits(d, new))
  BY <1>1, <1>2 DEF Reading, ReaderFits
<1>4. /\ reader' \in [Readers -> Reading]
      /\ (reader'[d] = new /\ reader[d].kind = "stop") \/ reader'[d] = Away
      /\ \A e \in Readers : e # d => reader'[e] = reader[e]
  BY <1>1, <1>3, AwayFits DEF IInv, TypeOK
<1>5. ReaderFits(d, reader[d])'
  <2>1. CASE reader'[d] = new /\ reader[d].kind = "stop"
    BY <1>2, <1>3, <2>1 DEF ReaderFits, Reading
  <2>2. CASE reader'[d] = Away
    BY <2>2 DEF ReaderFits, Away
  <2> QED BY <1>4, <2>1, <2>2
<1>6. /\ owner' \in [Sessions -> Threads \cup Readers \cup {None}]
      /\ \A x \in Threads \cup Readers : x # d => Keeps(x)
  BY <1>1, CloseKeeps DEF IInv
<1>7. CASE UNCHANGED file
  <2>1. TypeOK'
    BY <1>1, <1>4, <1>6, <1>7 DEF IInv, TypeOK
  <2>2. FilesFit'
    BY <1>1, <1>7 DEF IInv, FilesFit, FileFits
  <2>3. \A z \in Sessions : SameTurn(z)
    BY <1>7 DEF SameTurn
  <2> QED BY <1>1, <1>4, <1>5, <1>6, <2>1, <2>2, <2>3, ReaderStep
<1>8. CASE /\ IsIdle(d) /\ file[s].turn.status = "running"
           /\ Conclude(s, file[s].turn.req, "interrupted")
  <2>1. FileFits(s, file[s]) /\ file[s].turn.req \in Requests
    BY <1>2, <1>8 DEF IInv, FilesFit, FileFits
  <2>2. "interrupted" \in Statuses \ {"running"}
    BY DEF Statuses
  <2>3. /\ file' \in [Sessions -> Files]
        /\ \A z \in Sessions : z # s => file'[z] = file[z]
        /\ FileFits(s, file[s])'
    BY <1>1, <1>2, <1>8, <2>1, <2>2, Concludes
  <2>4. TypeOK'
    BY <1>1, <1>4, <1>6, <2>3 DEF IInv, TypeOK
  <2>5. FilesFit'
    BY <1>1, <2>3 DEF IInv, FilesFit, FileFits
  <2>6. \A z \in Sessions : SameTurn(z) \/ owner[z] \notin Threads
    BY <1>0, <1>8, <2>3, ApartAssumption DEF SameTurn, IsIdle
  <2> QED BY <1>1, <1>4, <1>5, <1>6, <2>4, <2>5, <2>6, ReaderStep
<1> QED BY <1>1, <1>7, <1>8

LEMMA AskStopStep == \A d \in Readers : IInv /\ AskStop(d) => IInv'
<1> SUFFICES ASSUME NEW d \in Readers, IInv, AskStop(d) PROVE IInv'
  OBVIOUS
<1>0. PICK s, r : s = reader[d].sess /\ r = reader[d].req
  OBVIOUS
<1>1. /\ reader[d].at = "want" /\ UNCHANGED <<owner, th, begun>>
      /\ file' = IF TurnIs(s, r) THEN [file EXCEPT ![s].turn.cancel = r] ELSE file
      /\ reader' = [reader EXCEPT ![d] = Away]
  BY <1>0 DEF AskStop
<1>2. reader[d] \in Reading /\ ReaderFits(d, reader[d]) /\ s \in Sessions /\ r \in Requests
  BY <1>0, <1>1 DEF IInv, TypeOK, ReadersFit, ReaderFits
<1>3. /\ reader' \in [Readers -> Reading] /\ reader'[d] = Away
      /\ \A e \in Readers : e # d => reader'[e] = reader[e]
  BY <1>1, AwayFits DEF IInv, TypeOK
<1>4. ReaderFits(d, reader[d])'
  BY <1>3, AwayFits DEF ReaderFits, Away
<1>5. file[s] \in Files /\ file[s].turn \in Turns /\ FileFits(s, file[s])
  BY <1>2 DEF IInv, TypeOK, Files, FilesFit
<1>6. CASE TurnIs(s, r)
  <2> DEFINE turn == [file[s].turn EXCEPT !.cancel = r]
             new == [file[s] EXCEPT !.turn = turn]
  <2>1. turn \in Turns /\ turn.req = r /\ turn.status = file[s].turn.status /\ turn.cancel = r
    BY <1>2, <1>5, <1>6 DEF Turns, Flags, TurnIs
  <2>2. file' = [file EXCEPT ![s] = new]
    BY <1>1, <1>6 DEF IInv, TypeOK, Files
  <2> HIDE DEF turn
  <2>3. new \in Files /\ new.turn = turn /\ new.rows = file[s].rows /\ new.there = file[s].there
    BY <1>5, <2>1 DEF Files
  <2> HIDE DEF new
  <2>4. /\ file' \in [Sessions -> Files] /\ file'[s] = new
        /\ \A z \in Sessions : z # s => file'[z] = file[z]
    BY <1>2, <2>2, <2>3 DEF IInv, TypeOK
  <2>5. TypeOK'
    BY <1>1, <1>3, <2>4 DEF IInv, TypeOK
  <2>6. FileFits(s, file[s])'
    BY <1>1, <1>5, <1>6, <2>1, <2>3, <2>4 DEF FileFits, TurnIs
  <2>7. FilesFit'
    BY <1>1, <2>4, <2>6 DEF IInv, FilesFit, FileFits
  <2>8. \A z \in Sessions : SameTurn(z)
    BY <1>6, <2>1, <2>3, <2>4 DEF SameTurn, TurnIs
  <2> QED BY <1>1, <1>3, <1>4, <2>5, <2>7, <2>8, ReaderStep DEF Keeps
<1>7. CASE ~TurnIs(s, r)
  <2>1. file' = file
    BY <1>1, <1>7
  <2>2. TypeOK'
    BY <1>1, <1>3, <2>1 DEF IInv, TypeOK
  <2>3. FilesFit'
    BY <1>1, <2>1 DEF IInv, FilesFit, FileFits
  <2> QED BY <1>1, <1>3, <1>4, <2>1, <2>2, <2>3, ReaderStep DEF Keeps, SameTurn
<1> QED BY <1>6, <1>7

LEMMA DeleteStep == \A d \in Readers : IInv /\ Delete(d) => IInv'
<1> SUFFICES ASSUME NEW d \in Readers, IInv, Delete(d) PROVE IInv'
  OBVIOUS
<1>0. PICK s : s = reader[d].sess
  OBVIOUS
<1> DEFINE gone == [NewFile EXCEPT !.there = FALSE]
<1>1. /\ reader[d].at = "open" /\ reader[d].kind = "delete" /\ Close(d) /\ UNCHANGED <<th, begun>>
      /\ file' \in {file, [file EXCEPT ![s] = gone]}
      /\ reader' = [reader EXCEPT ![d] = Away]
  BY <1>0 DEF Delete
<1>2. reader[d] \in Reading /\ ReaderFits(d, reader[d]) /\ s \in Sessions /\ owner[s] = d
  BY <1>0, <1>1 DEF IInv, TypeOK, ReadersFit, ReaderFits
<1>3. /\ reader' \in [Readers -> Reading] /\ reader'[d] = Away
      /\ \A e \in Readers : e # d => reader'[e] = reader[e]
  BY <1>1, AwayFits DEF IInv, TypeOK
<1>4. ReaderFits(d, reader[d])'
  BY <1>3, AwayFits DEF ReaderFits, Away
<1>5. /\ owner' \in [Sessions -> Threads \cup Readers \cup {None}]
      /\ \A x \in Threads \cup Readers : x # d => Keeps(x)
  BY <1>1, CloseKeeps DEF IInv
<1>6. gone \in Files /\ ~gone.there /\ gone.turn = NoTurn /\ gone.rows = [r \in Requests |-> "none"]
  BY DEF NewFile, NoTurn, Files, Turns, Flags
<1> HIDE DEF gone
<1>7. file' \in [Sessions -> Files] /\ file'[s] \in {file[s], gone}
      /\ \A z \in Sessions : z # s => file'[z] = file[z]
  BY <1>1, <1>2, <1>6 DEF IInv, TypeOK
<1>8. TypeOK'
  BY <1>1, <1>3, <1>5, <1>7 DEF IInv, TypeOK
<1>9. FileFits(s, gone)
  BY <1>6 DEF FileFits, NoTurn
<1>10. FilesFit'
  BY <1>1, <1>7, <1>9 DEF IInv, FilesFit, FileFits
<1>11. \A z \in Sessions : SameTurn(z) \/ owner[z] \notin Threads
  BY <1>2, <1>7, ApartAssumption DEF SameTurn
<1> QED BY <1>1, <1>3, <1>4, <1>5, <1>8, <1>10, <1>11, ReaderStep

LEMMA ArchivingFits ==
    ASSUME IInv, NEW s \in Sessions, Archive(s), UNCHANGED begun
    PROVE  /\ file' \in [Sessions -> Files] /\ FilesFit'
           /\ \A z \in Sessions : SameTurn(z)
<1>1. /\ file' \in [Sessions -> Files]
      /\ \A z \in Sessions : z # s => file'[z] = file[z]
      /\ file'[s].turn = file[s].turn /\ file'[s].rows = file[s].rows
      /\ file'[s].there = file[s].there
  BY ArchiveKeeps DEF IInv
<1>2. \A z \in Sessions : SameTurn(z) /\ file'[z].turn = file[z].turn /\ file'[z].rows = file[z].rows
  BY <1>1 DEF SameTurn
<1> QED BY <1>1, <1>2 DEF IInv, FilesFit, FileFits, SameTurn

LEMMA CompactStep == \A d \in Readers : IInv /\ Compact(d) => IInv'
<1> SUFFICES ASSUME NEW d \in Readers, IInv, Compact(d) PROVE IInv'
  OBVIOUS
<1>0. PICK s : s = reader[d].sess
  OBVIOUS
<1>1. /\ reader[d].at = "open" /\ Close(d) /\ UNCHANGED <<th, begun>> /\ Archive(s)
      /\ reader' = [reader EXCEPT ![d] = Away]
  BY <1>0 DEF Compact
<1>2. s \in Sessions
  BY <1>0, <1>1 DEF IInv, ReadersFit, ReaderFits
<1>3. /\ reader' \in [Readers -> Reading] /\ reader'[d] = Away
      /\ \A e \in Readers : e # d => reader'[e] = reader[e]
  BY <1>1, AwayFits DEF IInv, TypeOK
<1>4. ReaderFits(d, reader[d])'
  BY <1>3, AwayFits DEF ReaderFits, Away
<1>5. /\ owner' \in [Sessions -> Threads \cup Readers \cup {None}]
      /\ \A x \in Threads \cup Readers : x # d => Keeps(x)
  BY <1>1, CloseKeeps DEF IInv
<1>6. file' \in [Sessions -> Files] /\ FilesFit' /\ \A z \in Sessions : SameTurn(z)
  BY <1>1, <1>2, ArchivingFits
<1>7. TypeOK'
  BY <1>1, <1>3, <1>5, <1>6 DEF IInv, TypeOK
<1> QED BY <1>1, <1>3, <1>4, <1>5, <1>6, <1>7, ReaderStep

LEMMA NoteStep == \A s \in Sessions : IInv /\ Note(s) => IInv'
<1> SUFFICES ASSUME NEW s \in Sessions, IInv, Note(s) PROVE IInv'
  OBVIOUS
<1>1. UNCHANGED <<owner, th, reader, begun>> /\ Archive(s)
  BY DEF Note
<1>2. file' \in [Sessions -> Files] /\ FilesFit' /\ \A z \in Sessions : SameTurn(z)
  BY <1>1, ArchivingFits
<1>3. TypeOK'
  BY <1>1, <1>2 DEF IInv, TypeOK
<1>4. ThreadsFit'
  <2> SUFFICES ASSUME NEW u \in Threads PROVE ThreadFits(u, th[u])'
    BY DEF ThreadsFit
  <2> QED BY <1>1, <1>2, OtherThreads DEF Keeps
<1>5. ReadersFit'
  BY <1>1, OtherReaders DEF ReadersFit, Keeps
<1> QED BY <1>2, <1>3, <1>4, <1>5 DEF IInv

LEMMA CrashStep == \A c \in Consoles : IInv /\ Crash(c) => IInv'
<1> SUFFICES ASSUME NEW c \in Consoles, IInv, Crash(c) PROVE IInv'
  OBVIOUS
<1>1. /\ \A t \in Threads : th'[t] = IF Home(t) = c THEN Idle ELSE th[t]
      /\ \A d \in Readers : reader'[d] = IF Home(d) = c THEN Away ELSE reader[d]
      /\ \A s \in Sessions : owner'[s] = IF owner[s] # None /\ Home(owner[s]) = c THEN None ELSE owner[s]
      /\ UNCHANGED <<file, begun>>
  BY DEF Crash
<1>2. TypeOK'
  <2>1. th' \in [Threads -> Handling]
    BY IdleFits DEF Crash, IInv, TypeOK
  <2>2. reader' \in [Readers -> Reading]
    BY AwayFits DEF Crash, IInv, TypeOK
  <2>3. owner' \in [Sessions -> Threads \cup Readers \cup {None}]
    BY DEF Crash, IInv, TypeOK
  <2> QED BY <1>1, <2>1, <2>2, <2>3 DEF IInv, TypeOK
<1>3. \A x \in Threads \cup Readers : Home(x) # c => Keeps(x)
  BY <1>1 DEF Keeps
<1>4. ThreadsFit'
  <2> SUFFICES ASSUME NEW u \in Threads PROVE ThreadFits(u, th[u])'
    BY DEF ThreadsFit
  <2>1. CASE Home(u) = c
    <3>1. th'[u] = Idle
      BY <1>1, <2>1
    <3> QED BY <3>1, IdleFits DEF ThreadFits, Idle, Owning, Registered, Turning
  <2>2. CASE Home(u) # c
    BY <1>1, <1>3, <2>2, OtherThreads DEF SameTurn
  <2> QED BY <2>1, <2>2
<1>5. ReadersFit'
  <2> SUFFICES ASSUME NEW d \in Readers PROVE ReaderFits(d, reader[d])'
    BY DEF ReadersFit
  <2>1. CASE Home(d) = c
    <3>1. reader'[d] = Away
      BY <1>1, <2>1
    <3> QED BY <3>1 DEF ReaderFits, Away
  <2>2. CASE Home(d) # c
    BY <1>1, <1>3, <2>2, OtherReaders
  <2> QED BY <2>1, <2>2
<1>6. FilesFit'
  BY <1>1 DEF IInv, FilesFit, FileFits
<1> QED BY <1>2, <1>4, <1>5, <1>6 DEF IInv
-----------------------------------------------------------------------------
(* The theorems *)

LEMMA InitIInv == Init => IInv
<1> SUFFICES ASSUME Init PROVE IInv
  OBVIOUS
<1>1. NewFile \in Files /\ \A s \in Sessions : FileFits(s, NewFile)
  BY DEF NewFile, NoTurn, Files, Turns, Flags, FileFits, Init
<1>2. TypeOK
  BY <1>1, IdleFits, AwayFits DEF Init, TypeOK
<1>3. ThreadsFit /\ ReadersFit /\ FilesFit
  BY <1>1, IdleFits, AwayFits DEF Init, ThreadsFit, ReadersFit, FilesFit
<1> QED BY <1>2, <1>3 DEF IInv

LEMMA NextKeeps == IInv /\ [Next]_vars => IInv'
<1> SUFFICES ASSUME IInv, [Next]_vars PROVE IInv'
  OBVIOUS
<1>1. CASE UNCHANGED vars
  BY <1>1 DEF vars, IInv, TypeOK, ThreadsFit, ThreadFits, TurnIs, FilesFit, FileFits, ReadersFit, ReaderFits
<1>2. CASE \E t \in Threads : Post(t) \/ Work(t) \/ Heartbeat(t)
  BY <1>2, PostStep, HeartbeatStep, TryLockStep, LoadStep, RegisterStep, PrepareStep, BeginStep,
     ResolveStep, ThinkStep, NextCallStep, ToolStep, FinishStep, UnregisterStep, UnlockStep,
     UnslotStep DEF Work
<1>3. CASE \E d \in Readers : Serve(d)
  BY <1>3, StopHereStep, OpenStep, SnapshotStep, AskStopStep, DeleteStep, CompactStep DEF Serve
<1>4. CASE (\E s \in Sessions : Note(s)) \/ (\E c \in Consoles : Crash(c))
  BY <1>4, NoteStep, CrashStep
<1> QED BY <1>1, <1>2, <1>3, <1>4 DEF Next

\* The invariant of the sessions, the threads that handle questions and the
\* readers (_chat_stream and _chat_action in ui/server.py, agents/memory.py).
THEOREM Invariant == Spec => []IInv
BY InitIInv, NextKeeps, PTL DEF Spec

\* Every variable keeps its type.
THEOREM TypeCorrect == Spec => []TypeOK
<1>1. IInv => TypeOK
  BY DEF IInv
<1> QED BY <1>1, Invariant, PTL

\* The turn a thread works on is in its file as running, whatever other
\* consoles load, compact, stop or delete, and whichever of them dies.
THEOREM RecordsTruly == Spec => []RecordTrue
<1>1. IInv => RecordTrue
  BY DEF IInv, ThreadsFit, ThreadFits, FilesFit, FileFits, RecordTrue, InTurn
<1> QED BY <1>1, Invariant, PTL

\* A stop ends only the turn it was meant for (_stop_chat, update_turn).
THEOREM StopsItsTurn == Spec => []StopsTheRight
<1>1. IInv => StopsTheRight
  BY DEF IInv, ThreadsFit, ThreadFits, StopsTheRight
<1> QED BY <1>1, Invariant, PTL

\* After a stop at most the tool in flight runs (the loop of runtime.py).
THEOREM StopsSoon == Spec => []AtMostOneMore
<1>1. IInv => AtMostOneMore
  BY DEF IInv, ThreadsFit, ThreadFits, AtMostOneMore
<1> QED BY <1>1, Invariant, PTL

\* A thread enters a turn with the begin_turn of its question only.
LEMMA TurnsBegin ==
    ASSUME IInv, [Next]_vars, NEW t \in Threads, ~InTurn(t), InTurn(t)'
    PROVE  Begin(t)
<1>1. th \in [Threads -> Handling]
  BY DEF IInv, TypeOK
<1>2. th'[t] # th[t]
  BY DEF InTurn
<1>3. \A point \in Points : Move(t, point) => point \in Turning
  BY <1>1 DEF Move, InTurn
<1>4. PICK u \in Threads : \/ Post(u) \/ Work(u) \/ Heartbeat(u)
                          \/ \E r \in Requests : th' = [th EXCEPT ![u].cancel = r]
  <2>1. th' # th
    BY <1>2
  <2>2. ~(\E s \in Sessions : Note(s)) /\ vars' # vars
    BY <2>1 DEF Note, vars
  <2>3. ~(\E c \in Consoles : Crash(c))
    BY <1>1 DEF Crash, InTurn, Idle, Turning
  <2>4. \A d \in Readers : Serve(d) => StopHere(d)
    BY <2>1 DEF Serve, Open, Snapshot, AskStop, Delete, Compact
  <2> QED BY <2>2, <2>3, <2>4 DEF Next, StopHere
<1>5. u = t
  BY <1>1, <1>2, <1>4 DEF Post, Work, Heartbeat, TryLock, Load, Register, Prepare, Begin, Resolve, Think,
     NextCall, Tool, Finish, Unregister, Unlock, Unslot, Move, End, EndBadly
<1>6. th[t].at \notin Turning /\ th'[t].at \in Turning
  BY DEF InTurn
<1>7. \A r : th' # [th EXCEPT ![t].cancel = r]
  BY <1>1, <1>6 DEF Handling
<1>8. ~Post(t) /\ ~Heartbeat(t)
  BY <1>1, <1>6, <1>7 DEF Post, Heartbeat, Idle, Turning
<1>9. ~Resolve(t) /\ ~Think(t) /\ ~NextCall(t) /\ ~Tool(t) /\ ~Finish(t)
  BY <1>6 DEF Resolve, Think, NextCall, Tool, Finish, Turning
<1>10. ~TryLock(t) /\ ~Load(t) /\ ~Register(t) /\ ~Prepare(t) /\ ~Unregister(t) /\ ~Unlock(t)
  BY <1>3 DEF TryLock, Load, Register, Prepare, Unregister, Unlock, Points, Registered, Turning
<1>11. ~Unslot(t)
  BY <1>1, <1>6 DEF Unslot, Idle, Turning
<1> QED BY <1>4, <1>5, <1>7, <1>8, <1>9, <1>10, <1>11 DEF Work

\* A question is begun once at most: a request that was begun has its row in
\* the session, or the session is gone (begin_turn, memory.py).
THEOREM ReplaysNothing == Spec => NoReplay
<1>1. IInv /\ [Next]_vars =>
        [\A t \in Threads : ~InTurn(t) /\ InTurn(t)' => <<th[t].sess, th[t].req>> \notin begun]_vars
  <2> SUFFICES ASSUME IInv, [Next]_vars, NEW t \in Threads, ~InTurn(t), InTurn(t)'
               PROVE  <<th[t].sess, th[t].req>> \notin begun
    OBVIOUS
  <2>1. Begin(t)
    BY TurnsBegin
  <2>2. file[th[t].sess].there /\ ~Received(th[t].sess, th[t].req)
    <3>1. ~Move(t, "leaving")
      <4>1. th \in [Threads -> Handling]
        BY DEF IInv, TypeOK
      <4>2. Move(t, "leaving") => th'[t].at = "leaving"
        BY <4>1 DEF Move, Handling
      <4>3. InTurn(t)' <=> th'[t].at \in Turning
        BY DEF InTurn
      <4> QED BY <4>2, <4>3 DEF Turning
    <3> QED BY <2>1, <3>1 DEF Begin
  <2>3. th[t].sess \in Sessions /\ th[t].req \in Requests /\ FileFits(th[t].sess, file[th[t].sess])
    BY <2>1, OwnsSession DEF Begin, Owning, Registered
  <2> QED BY <2>2, <2>3 DEF FileFits, Received
<1> QED BY <1>1, Invariant, PTL DEF Spec, NoReplay
=============================================================================
