-------------------------- MODULE LocalPythonProofs --------------------------
(***************************************************************************)
(* For any number of runs of a plan and any outputs, whoever dies and      *)
(* whatever is changed or deleted: the script is started once at most, a   *)
(* conclusion is what a supervisor saw, and a doubt is declared only when  *)
(* nobody can still clear it.                                              *)
(*                                                                         *)
(* Two facts carry the argument.  A supervisor works only while it holds   *)
(* the lock (Held), so what it has read of the result file stays so until  *)
(* it writes (Stages).  And the report in the file is that of a supervisor *)
(* which is at work or gone (Written): a run whose supervisor was never    *)
(* started has a report only from one that came late.                      *)
(***************************************************************************)
EXTENDS LocalPython, FiniteSetTheorems, TLAPS

\* The worker between reading its record and leaving it.
Active == Points \ {"idle", "begin"}

\* The lock: a supervisor at work holds it, and so does the worker's look.
Held == /\ \A r \in Runs : sup[r].at \in Supervising => plock = r
        /\ \A r \in Runs : plock = r => sup[r].at \in Supervising
        /\ at = "probe" => plock = Worker

\* What a supervisor at work knows of the result file and of the script.
Stages ==
    \A r \in Runs :
        /\ sup[r].at = "check" => Missing
        /\ sup[r].at \in {"start", "watch", "report"} =>
             result.state = "RUNNING" /\ result.run = sup[r].run
        /\ sup[r].at = "start" => starts = 0
        /\ sup[r].at = "report" => script # "running"

\* What the result file says of the script.
Reports == /\ Missing => starts = 0
           /\ starts = 0 => script = "none"
           /\ Ended => script # "running"
           /\ result.state = "COMPLETED" => script = "ok"

\* A supervisor at work is late or works for the run it was started for, and
\* such a one has written the report.
Timely(r) == sup[r].slow \/ sup[r].run = r
Came(r) == sup[r].at \notin {"none", "launched", "loaded"}
Written == /\ \A r \in Runs : /\ sup[r].at \in Supervising => Timely(r)
                              /\ sup[r].slow => Came(r)
           /\ ~Missing => \E r \in Runs : Came(r) /\ Timely(r) /\ sup[r].run = result.run

\* The record and the point of the worker that holds the run lock.
Recorded ==
    /\ rec.phase # "absent" => rec.run \in Runs
    /\ rec.phase = "absent" => rec.reason = "none"
    /\ at # "idle" => rec.phase \notin {"absent", "finished"}
    /\ at \in Active => rec.reason = "none"
    /\ at \in {"snapshot", "intend"} => ~rec.intent
    /\ at \in Active \ {"snapshot", "intend"} => rec.intent
    /\ rec.phase # "absent" /\ (~rec.intent \/ at = "launch") => sup[rec.run].at = "none"
    /\ at \in {"collect", "copy"} => Ours /\ Ended

\* At its second reading, after the wait, only latecomers can be at work.
Waited == at = "reread" => old /\ \A r \in Runs : sup[r].at \in Supervising => sup[r].slow

\* Why a worker may say it does not know: its supervisor was never started,
\* the report is that of another run, or nobody came in time.
Doubtful ==
    rec.reason = "execution_uncertain" =>
        \/ sup[rec.run].at = "none"
        \/ ~Missing /\ ~Ours
        \/ old /\ (\/ ~Ended /\ \A r \in Runs : sup[r].at \notin Supervising
                   \/ \E r \in Runs : sup[r].slow)

\* The invariant, in the parts a step of one side leaves alone.
Ran == Held /\ Stages /\ Reports /\ RunsOnce /\ Written
Judged == Recorded /\ Waited /\ Doubtful /\ ConclusionTrue
IInv == TypeOK /\ Ran /\ Judged

WorkerTypes == /\ rec \in Recs /\ at \in Points /\ done \subseteq Outputs
               /\ current \in SUBSET Outputs /\ Cardinality(current) <= 1
-----------------------------------------------------------------------------
(* The steps of the worker *)

\* The worker moves with nothing but its own record and place changed.
LEMMA RanStays ==
    ASSUME Ran, at' = "probe" => at = "probe",
           UNCHANGED <<sup, plock, result, script, starts>>
    PROVE  Ran'
BY DEF Ran, Held, Stages, Reports, RunsOnce, Written, Timely, Came, Missing, Ended, Final, Supervising

\* A worker that blocks the run, or crashes or ends, forgets what it collected.
LEMMA EmptyPlaces == {} \in SUBSET Outputs /\ Cardinality({}) <= 1
BY FS_EmptySet

LEMMA OthersStay ==
    ASSUME TypeOK, WorkerTypes', UNCHANGED <<sup, plock, result, script, outputs, old, starts, meddled>>
    PROVE  TypeOK'
BY DEF TypeOK, WorkerTypes, outputs

\* Blocking keeps everything, but for the reasons of a doubt.
LEMMA BlockKeeps ==
    ASSUME IInv, at # "idle", NEW reason \in Sticky \cup {"worker_error"}, Block(reason),
           UNCHANGED <<sup, plock, result, script, old, starts>>
    PROVE  /\ WorkerTypes' /\ Ran' /\ Recorded' /\ Waited' /\ ConclusionTrue'
           /\ at' = "idle" /\ rec'.reason = reason /\ rec'.run = rec.run /\ rec.run \in Runs
<1>1. rec \in Recs /\ rec.phase # "absent" /\ rec.run \in Runs
  BY DEF IInv, TypeOK, Judged, Recorded
<1>2. /\ rec' \in Recs /\ rec'.phase = "blocked" /\ rec'.reason = reason /\ rec'.run = rec.run
      /\ rec'.intent = rec.intent /\ at' = "idle" /\ done' = {} /\ current' = {}
  BY <1>1 DEF Block, Recs, Phases
<1>3. WorkerTypes'
  BY <1>2, EmptyPlaces DEF WorkerTypes, Points
<1>4. Ran'
  BY <1>2, RanStays DEF IInv
<1>5. Recorded' /\ Waited' /\ ConclusionTrue'
  BY <1>1, <1>2 DEF IInv, Judged, Recorded, Waited, ConclusionTrue, Active
<1> QED BY <1>1, <1>2, <1>3, <1>4, <1>5

\* Another point, with the same run and intent, and no reason to doubt.
LEMMA MovesOn ==
    ASSUME IInv, NEW point \in Active, NEW phase \in Phases \ {"absent", "finished"},
           at \in Active \ {"snapshot", "intend"}, at' = point, point \notin {"snapshot", "intend", "launch", "probe"},
           rec' = [rec EXCEPT !.phase = phase],
           UNCHANGED <<sup, plock, result, script, old, starts>>,
           point \in {"collect", "copy"} => Ours /\ Ended,
           Waited'
    PROVE  rec' \in Recs /\ at' \in Points /\ Ran' /\ Judged'
<1>1. rec \in Recs /\ rec.phase # "absent" /\ rec.run \in Runs /\ rec.reason = "none" /\ rec.intent
  BY DEF IInv, TypeOK, Judged, Recorded, Active
<1>2. /\ rec' \in Recs /\ rec'.phase = phase /\ rec'.reason = "none" /\ rec'.run = rec.run
      /\ rec'.intent
  BY <1>1 DEF Recs
<1>3. Ran'
  BY <1>2, RanStays DEF IInv
<1>4. Judged'
  BY <1>1, <1>2 DEF IInv, Judged, Recorded, Doubtful, ConclusionTrue, Active, Ours, Ended
<1> QED BY <1>2, <1>3, <1>4 DEF Active

LEMMA Holders == \A r \in Runs : r # Nobody /\ r # Worker
BY HolderAssumption DEF Runs

LEMMA EnqueueStep == IInv /\ Enqueue => IInv'
<1> SUFFICES ASSUME IInv, Enqueue PROVE IInv'
  OBVIOUS
<1>1. TypeOK'
  <2>1. WorkerTypes'
    BY DEF IInv, Enqueue, NoRec, TypeOK, WorkerTypes, Recs, Phases
  <2> QED BY <2>1, OthersStay DEF IInv, Enqueue, outputs
<1>2. Ran'
  BY RanStays DEF IInv, Enqueue, outputs
<1>3. Judged'
  <2>1. at = "idle" /\ at' = "idle"
    BY DEF IInv, Enqueue, TypeOK, Judged, Recorded
  <2>2. PICK r \in Runs : /\ \A s \in Runs : sup[s].at = "none" <=> s >= r
                          /\ rec' = [NoRec EXCEPT !.run = r, !.phase = "queued"]
    BY DEF Enqueue
  <2>3. sup'[r].at = "none"
    BY <2>2, BoundAssumption DEF Enqueue, Runs
  <2>4. /\ rec'.run = r /\ rec'.phase = "queued" /\ rec'.reason = "none"
        /\ rec' \in Recs
    BY <2>2 DEF NoRec, Recs, Phases
  <2> QED BY <2>1, <2>3, <2>4 DEF Judged, Recorded, Waited, Doubtful, ConclusionTrue, Active
<1> QED BY <1>1, <1>2, <1>3 DEF IInv

LEMMA TakeUpStep == IInv /\ (Recover \/ Resume) => IInv'
<1> SUFFICES ASSUME IInv, Recover \/ Resume PROVE IInv'
  OBVIOUS
<1>0. at' = "begin" /\ rec.phase \notin {"absent", "finished"}
      /\ UNCHANGED <<rec, done, current, sup, plock, result, script, outputs, old, starts, meddled>>
  BY DEF Recover, Resume, Recoverable, Goto
<1>1. TypeOK'
  BY <1>0 DEF IInv, TypeOK, Points, outputs
<1>2. Ran'
  BY <1>0, RanStays DEF IInv, outputs
<1>3. Judged'
  BY <1>0 DEF IInv, outputs, Judged, Recorded, Waited, Doubtful, ConclusionTrue,
     Active, Points, Ours, Ended, Final, Missing, Supervising
<1> QED BY <1>1, <1>2, <1>3 DEF IInv

LEMMA BeginStep == IInv /\ Begin => IInv'
<1> SUFFICES ASSUME IInv, Begin PROVE IInv'
  OBVIOUS
<1>1. TypeOK'
  BY DEF IInv, Begin, TypeOK, Recs, Phases, Points, outputs
<1>2. Ran'
  BY RanStays DEF IInv, Begin, outputs
<1>3. Judged'
  BY DEF IInv, Begin, TypeOK, Recs, outputs, Judged, Recorded, Waited, Doubtful, ConclusionTrue,
     Active, Points, Ours, Ended, Final, Missing, Supervising
<1> QED BY <1>1, <1>2, <1>3 DEF IInv

LEMMA RefuseStep == IInv /\ Refuse => IInv'
<1> SUFFICES ASSUME IInv, Refuse PROVE IInv'
  OBVIOUS
<1>1. PICK reason \in Sticky \cup {"worker_error"} :
        Block(reason) /\ at # "idle" /\ reason # "execution_uncertain"
  BY DEF Refuse
<1>2. UNCHANGED <<sup, plock, result, script, outputs, old, starts, meddled>>
  BY DEF Refuse
<1>3. WorkerTypes' /\ Ran' /\ Recorded' /\ Waited' /\ ConclusionTrue' /\ rec'.reason = reason
  BY <1>1, <1>2, BlockKeeps
<1> QED BY <1>1, <1>2, <1>3, OthersStay DEF IInv, Judged, Doubtful

LEMMA SnapshotStep == IInv /\ Snapshot => IInv'
<1> SUFFICES ASSUME IInv, Snapshot PROVE IInv'
  OBVIOUS
<1>1. UNCHANGED <<sup, plock, result, script, outputs, old, starts, meddled>>
  BY DEF Snapshot
<1>2. CASE Block("result_conflict")
  <2>1. WorkerTypes' /\ Ran' /\ Recorded' /\ Waited' /\ ConclusionTrue' /\ rec'.reason = "result_conflict"
    BY <1>1, <1>2, BlockKeeps DEF Snapshot, Sticky
  <2> QED BY <1>1, <2>1, OthersStay DEF IInv, Judged, Doubtful
<1>3. CASE Goto("intend")
  <2>1. at = "snapshot" /\ at' = "intend" /\ UNCHANGED <<rec, done, current>>
    BY <1>3 DEF Snapshot, Goto
  <2>2. WorkerTypes'
    BY <2>1 DEF IInv, TypeOK, WorkerTypes, Points
  <2>3. Ran'
    BY <1>1, <2>1, RanStays DEF IInv
  <2>4. Judged'
    BY <1>1, <2>1 DEF IInv, Judged, Recorded, Waited, Doubtful, ConclusionTrue, Active, Points
  <2> QED BY <1>1, <2>2, <2>3, <2>4, OthersStay DEF IInv
<1> QED BY <1>2, <1>3 DEF Snapshot

LEMMA FinishStep == IInv /\ Finish => IInv'
<1> SUFFICES ASSUME IInv, Finish PROVE IInv'
  OBVIOUS
<1>1. UNCHANGED <<sup, plock, result, script, outputs, old, starts, meddled>>
  BY DEF Finish
<1>2. /\ rec \in Recs /\ at = "collect" /\ rec.phase # "absent" /\ rec.run \in Runs /\ rec.reason = "none"
      /\ rec.intent /\ Ours /\ Ended /\ script # "running"
      /\ result.state = "COMPLETED" => script = "ok"
  BY DEF IInv, TypeOK, Ran, Reports, Judged, Recorded, Active, Finish, Points
<1>3. /\ rec' = [rec EXCEPT !.phase = "finished", !.status = Conclusion]
      /\ at' = "idle" /\ done' = {} /\ current' = {}
  BY DEF Finish
<1>4. Conclusion \in {"failed", "completed", "needs_review"}
      /\ (Conclusion = "completed" => script = "ok" /\ result.artifacts = Outputs)
  BY <1>2 DEF Conclusion
<1>5. /\ rec' \in Recs /\ rec'.phase = "finished" /\ rec'.reason = "none" /\ rec'.run = rec.run
      /\ rec'.intent /\ rec'.status = Conclusion
  BY <1>2, <1>3, <1>4 DEF Recs, Phases
<1>6. WorkerTypes'
  BY <1>3, <1>5, EmptyPlaces DEF WorkerTypes, Points
<1>7. Ran'
  BY <1>1, <1>3, RanStays DEF IInv
<1>8. Judged'
  BY <1>1, <1>2, <1>3, <1>4, <1>5 DEF Judged, Recorded, Waited, Doubtful, ConclusionTrue, Active, Ours, Ended
<1> QED BY <1>1, <1>6, <1>7, <1>8, OthersStay DEF IInv

LEMMA DeleteStep == IInv /\ DeleteRecord => IInv'
<1> SUFFICES ASSUME IInv, DeleteRecord PROVE IInv'
  OBVIOUS
<1>1. /\ at = "idle" /\ rec' = NoRec
      /\ UNCHANGED <<at, done, current, sup, plock, result, script, outputs, old, starts, meddled>>
  BY DEF DeleteRecord
<1>2. WorkerTypes'
  BY <1>1 DEF NoRec, IInv, TypeOK, WorkerTypes, Recs, Phases
<1>3. Ran'
  BY <1>1, RanStays DEF IInv
<1>4. Judged'
  BY <1>1 DEF NoRec, Judged, Recorded, Waited, Doubtful, ConclusionTrue, Active
<1> QED BY <1>1, <1>2, <1>3, <1>4, OthersStay DEF IInv

\* What a worker does with the report, when its last resort is sound.
LEMMA JudgeKeeps ==
    ASSUME IInv, at \in {"poll", "reread"}, NEW ACTION A, Judge(A),
           A /\ (Missing \/ Ours) /\ ~Ended => IInv'
    PROVE  IInv'
<1>1. UNCHANGED <<sup, plock, result, script, outputs, old, starts, meddled>>
  BY DEF Judge
<1>2. CASE ~Missing /\ ~Ours
  <2>1. Block("execution_uncertain")
    BY <1>2 DEF Judge
  <2>2. /\ WorkerTypes' /\ Ran' /\ Recorded' /\ Waited' /\ ConclusionTrue' /\ rec'.run = rec.run
    BY <1>1, <2>1, BlockKeeps DEF Sticky
  <2>3. Doubtful'
    BY <1>1, <1>2, <2>2 DEF Doubtful, Missing, Ours
  <2> QED BY <1>1, <2>2, <2>3, OthersStay DEF IInv, Judged
<1>3. CASE (Missing \/ Ours) /\ Ended
  <2>1. Save("collect", "collecting") /\ Ours
    BY <1>3 DEF Judge, Missing, Ended, Final
  <2>2. at' = "collect" /\ rec' = [rec EXCEPT !.phase = "collecting"] /\ UNCHANGED <<done, current>>
    BY <2>1 DEF Save
  <2>3. rec' \in Recs /\ at' \in Points /\ Ran' /\ Judged'
    BY <1>1, <1>3, <2>1, <2>2, MovesOn DEF Active, Points, Phases, Waited
  <2>4. WorkerTypes'
    BY <2>2, <2>3 DEF IInv, TypeOK, WorkerTypes
  <2> QED BY <1>1, <2>3, <2>4, OthersStay DEF IInv
<1>4. CASE (Missing \/ Ours) /\ ~Ended
  BY <1>4 DEF Judge
<1> QED BY <1>2, <1>3, <1>4

LEMMA PollStep == IInv /\ Poll => IInv'
<1> SUFFICES ASSUME IInv, Poll PROVE IInv'
  OBVIOUS
<1>1. at = "poll" /\ Judge(Goto("look"))
  BY DEF Poll
<1>2. ASSUME Goto("look") PROVE IInv'
  <2>1. at' = "look" /\ rec' = [rec EXCEPT !.phase = rec.phase] /\ UNCHANGED <<rec, done, current>>
        /\ UNCHANGED <<sup, plock, result, script, outputs, old, starts, meddled>>
    BY <1>1, <1>2 DEF Goto, Judge, IInv, TypeOK, Recs
  <2>2. rec.phase \in Phases \ {"absent", "finished"}
    BY <1>1 DEF IInv, TypeOK, Recs, Judged, Recorded
  <2>3. rec' \in Recs /\ at' \in Points /\ Ran' /\ Judged'
    BY <1>1, <2>1, <2>2, MovesOn DEF Active, Points, Waited
  <2>4. WorkerTypes'
    BY <2>1, <2>3 DEF IInv, TypeOK, WorkerTypes
  <2> QED BY <2>1, <2>3, <2>4, OthersStay DEF IInv
<1> QED BY <1>1, <1>2, JudgeKeeps

LEMMA RereadStep == IInv /\ Reread => IInv'
<1> SUFFICES ASSUME IInv, Reread PROVE IInv'
  OBVIOUS
<1>1. at = "reread" /\ Judge(Block("execution_uncertain"))
  BY DEF Reread
<1>2. ASSUME Block("execution_uncertain"), ~Ended PROVE IInv'
  <2>1. UNCHANGED <<sup, plock, result, script, outputs, old, starts, meddled>>
    BY <1>1 DEF Judge
  <2>2. /\ WorkerTypes' /\ Ran' /\ Recorded' /\ Waited' /\ ConclusionTrue' /\ rec'.run = rec.run
    BY <1>1, <1>2, <2>1, BlockKeeps DEF Sticky
  <2>3. Doubtful'
    BY <1>1, <1>2, <2>1 DEF IInv, Judged, Waited, Doubtful, Ended
  <2> QED BY <2>1, <2>2, <2>3, OthersStay DEF IInv, Judged
<1> QED BY <1>1, <1>2, JudgeKeeps

LEMMA CollectStep == \A o \in Outputs : IInv /\ Collect(o) => IInv'
<1> SUFFICES ASSUME NEW o \in Outputs, IInv, Collect(o) PROVE IInv'
  OBVIOUS
<1>1. at = "collect" /\ UNCHANGED <<sup, plock, result, script, outputs, old, starts, meddled>>
  BY DEF Collect
<1>2. CASE Block("result_conflict")
  <2>1. WorkerTypes' /\ Ran' /\ Recorded' /\ Waited' /\ ConclusionTrue' /\ rec'.reason = "result_conflict"
    BY <1>1, <1>2, BlockKeeps DEF Sticky
  <2> QED BY <1>1, <2>1, OthersStay DEF IInv, Judged, Doubtful
<1>3. CASE /\ rec' = rec /\ done' \in {done, done \cup {o}} /\ at' \in {"collect", "copy"}
           /\ current' \in {current, {o}}
  <2>1. rec' = [rec EXCEPT !.phase = rec.phase]
    BY <1>3 DEF IInv, TypeOK, Recs
  <2>2. rec.phase \in Phases \ {"absent", "finished"} /\ Ours /\ Ended
    BY <1>1 DEF IInv, TypeOK, Recs, Judged, Recorded
  <2>3. rec' \in Recs /\ at' \in Points /\ Ran' /\ Judged'
    <3>1. CASE at' = "collect"
      BY <1>1, <1>3, <2>1, <2>2, <3>1, MovesOn DEF Active, Points, Waited
    <3>2. CASE at' = "copy"
      BY <1>1, <1>3, <2>1, <2>2, <3>2, MovesOn DEF Active, Points, Waited
    <3> QED BY <1>3, <3>1, <3>2
  <2>4. {o} \in SUBSET Outputs /\ Cardinality({o}) <= 1
    BY FS_Singleton
  <2>5. WorkerTypes'
    BY <1>3, <2>3, <2>4 DEF IInv, TypeOK, WorkerTypes
  <2> QED BY <1>1, <2>3, <2>5, OthersStay DEF IInv
<1> QED BY <1>1, <1>2, <1>3 DEF Collect

LEMMA CopyStep == IInv /\ Copy => IInv'
<1> SUFFICES ASSUME IInv, Copy PROVE IInv'
  OBVIOUS
<1>1. at = "copy" /\ UNCHANGED <<sup, plock, result, script, files, changed, old, starts, meddled>>
  BY DEF Copy
<1>2. PICK o \in current :
        /\ target' = [target EXCEPT ![o] = IF AsReported(o) THEN "ours" ELSE "other"]
        /\ \/ Block("result_conflict")
           \/ rec' = rec /\ done' = done \cup {o} /\ at' = "collect" /\ current' = {}
  BY DEF Copy
<1>3. target' \in [Outputs -> {"none", "ours", "other"}] /\ o \in Outputs
  BY <1>2 DEF IInv, TypeOK
<1>4. ASSUME WorkerTypes' PROVE TypeOK'
  BY <1>1, <1>3, <1>4 DEF IInv, TypeOK, WorkerTypes
<1>5. CASE Block("result_conflict")
  <2>1. WorkerTypes' /\ Ran' /\ Recorded' /\ Waited' /\ ConclusionTrue' /\ rec'.reason = "result_conflict"
    BY <1>1, <1>5, BlockKeeps DEF Sticky
  <2> QED BY <1>4, <2>1 DEF IInv, Judged, Doubtful
<1>6. CASE rec' = rec /\ done' = done \cup {o} /\ at' = "collect" /\ current' = {}
  <2>1. rec' = [rec EXCEPT !.phase = rec.phase]
    BY <1>6 DEF IInv, TypeOK, Recs
  <2>2. rec.phase \in Phases \ {"absent", "finished"} /\ Ours /\ Ended
    BY <1>1 DEF IInv, TypeOK, Recs, Judged, Recorded
  <2>3. rec' \in Recs /\ at' \in Points /\ Ran' /\ Judged'
    <3>1. at' = "collect" /\ UNCHANGED <<sup, plock, result, script, old, starts>>
      BY <1>1, <1>6
    <3> QED BY <1>1, <2>1, <2>2, <3>1, MovesOn DEF Active, Points, Waited
  <2>4. WorkerTypes'
    BY <1>3, <1>6, <2>3, EmptyPlaces DEF IInv, TypeOK, WorkerTypes
  <2> QED BY <1>4, <2>3, <2>4 DEF IInv
<1> QED BY <1>2, <1>5, <1>6

LEMMA IntendStep == IInv /\ Intend => IInv'
<1> SUFFICES ASSUME IInv, Intend PROVE IInv'
  OBVIOUS
<1>1. /\ at = "intend" /\ rec' = [rec EXCEPT !.phase = "monitoring", !.intent = TRUE]
      /\ at' = "launch" /\ old' = FALSE
      /\ UNCHANGED <<done, current, sup, plock, result, script, outputs, starts, meddled>>
  BY DEF Intend
<1>2. /\ rec \in Recs /\ rec.phase # "absent" /\ rec.run \in Runs /\ rec.reason = "none"
      /\ sup[rec.run].at = "none"
  BY <1>1 DEF IInv, TypeOK, Judged, Recorded, Active, Points
<1>3. /\ rec' \in Recs /\ rec'.phase = "monitoring" /\ rec'.intent /\ rec'.reason = "none"
      /\ rec'.run = rec.run
  BY <1>1, <1>2 DEF Recs, Phases
<1>4. TypeOK'
  BY <1>1, <1>3 DEF IInv, TypeOK, Points, outputs
<1>5. Ran'
  BY <1>1, RanStays DEF IInv
<1>6. Judged'
  BY <1>1, <1>2, <1>3 DEF Judged, Recorded, Waited, Doubtful, ConclusionTrue
<1> QED BY <1>4, <1>5, <1>6 DEF IInv

LEMMA LaunchStep == IInv /\ Launch => IInv'
<1> SUFFICES ASSUME IInv, Launch PROVE IInv'
  OBVIOUS
<1>1. at = "launch" /\ UNCHANGED <<plock, result, script, outputs, old, starts, meddled>>
  BY DEF Launch
<1>2. /\ rec \in Recs /\ rec.phase \notin {"absent", "finished"} /\ rec.run \in Runs /\ rec.reason = "none"
      /\ sup[rec.run].at = "none" /\ rec.intent
  BY <1>1 DEF IInv, TypeOK, Judged, Recorded, Active, Points
<1>3. CASE sup' = [sup EXCEPT ![rec.run].at = "launched"] /\ Goto("poll")
  <2>1. at' = "poll" /\ UNCHANGED <<rec, done, current>>
    BY <1>3 DEF Goto
  <2>2. /\ sup' \in [Runs -> Sups]
        /\ sup'[rec.run].at = "launched"
        /\ \A r \in Runs : r # rec.run => sup'[r] = sup[r]
    BY <1>2, <1>3 DEF IInv, TypeOK, Sups, Supervising
  <2>3. TypeOK'
    BY <1>1, <2>1, <2>2 DEF IInv, TypeOK, Points, outputs
  <2>4. \A r \in Runs : /\ sup'[r].at \in Supervising => sup'[r] = sup[r]
                        /\ Came(r) => sup'[r] = sup[r]
                        /\ sup'[r].slow = sup[r].slow /\ sup'[r].run = sup[r].run
    BY <1>2, <1>3, <2>2 DEF Supervising, Came, IInv, TypeOK, Sups
  <2>5. Ran'
    BY <1>1, <2>1, <2>2, <2>4 DEF IInv, Ran, Held, Stages, Reports, RunsOnce, Written, Timely, Came, Missing,
       Ended, Final, Supervising
  <2>6. Judged'
    BY <1>1, <1>2, <2>1 DEF Judged, Recorded, Waited, Doubtful, ConclusionTrue
  <2> QED BY <2>3, <2>5, <2>6 DEF IInv
<1>4. CASE Block("execution_uncertain") /\ UNCHANGED sup
  <2>1. /\ WorkerTypes' /\ Ran' /\ Recorded' /\ Waited' /\ ConclusionTrue' /\ rec'.run = rec.run
    BY <1>1, <1>4, BlockKeeps DEF Sticky
  <2>2. Doubtful'
    BY <1>2, <1>4, <2>1 DEF Doubtful
  <2> QED BY <1>1, <1>4, <2>1, <2>2, OthersStay DEF IInv, Judged
<1> QED BY <1>1, <1>3, <1>4 DEF Launch

LEMMA LookStep == IInv /\ Look => IInv'
<1> SUFFICES ASSUME IInv, Look PROVE IInv'
  OBVIOUS
<1>1. /\ at = "look" /\ UNCHANGED <<rec, done, current, sup, result, script, outputs, old, starts, meddled>>
      /\ \/ at' = "poll" /\ plock' = plock
         \/ plock = Nobody /\ at' = "probe" /\ plock' = Worker
  BY DEF Look, Goto
<1>2. TypeOK'
  BY <1>1 DEF IInv, TypeOK, Points, outputs
<1>3. Ran'
  <2>1. Held'
    BY <1>1, Holders, HolderAssumption DEF IInv, Ran, Held
  <2>2. Stages' /\ Reports' /\ RunsOnce' /\ Written'
    BY <1>1 DEF IInv, Ran, Stages, Reports, RunsOnce, Written, Timely, Came, Missing, Ended
  <2> QED BY <2>1, <2>2 DEF Ran
<1>4. Judged'
  BY <1>1 DEF IInv, Judged, Recorded, Waited, Doubtful, ConclusionTrue, Active, Points, Ours, Ended, Missing
<1> QED BY <1>2, <1>3, <1>4 DEF IInv

LEMMA EndLookStep == IInv /\ EndLook => IInv'
<1> SUFFICES ASSUME IInv, EndLook PROVE IInv'
  OBVIOUS
<1>1. /\ at = "probe" /\ UNCHANGED <<rec, done, current, sup, result, script, outputs, old, starts, meddled>>
      /\ plock' = Nobody
      /\ at' \in {"reread", "poll"} /\ (at' = "reread" => old)
  BY DEF EndLook, Goto, Patient
<1>2. \A r \in Runs : sup[r].at \notin Supervising
  BY <1>1, HolderAssumption DEF IInv, Ran, Held, Runs
<1>3. TypeOK'
  BY <1>1 DEF IInv, TypeOK, Points, outputs
<1>4. Ran'
  <2>1. Held'
    BY <1>1, <1>2, Holders DEF IInv, Ran, Held
  <2>2. Stages' /\ Reports' /\ RunsOnce' /\ Written'
    BY <1>1 DEF IInv, Ran, Stages, Reports, RunsOnce, Written, Timely, Came, Missing, Ended
  <2> QED BY <2>1, <2>2 DEF Ran
<1>5. Judged'
  BY <1>1, <1>2 DEF IInv, Judged, Recorded, Waited, Doubtful, ConclusionTrue, Active, Points, Ours, Ended, Missing
<1> QED BY <1>3, <1>4, <1>5 DEF IInv

LEMMA CrashStep == IInv /\ Crash => IInv'
<1> SUFFICES ASSUME IInv, Crash PROVE IInv'
  OBVIOUS
<1>1. /\ at' = "idle" /\ done' = {} /\ current' = {}
      /\ plock' = (IF plock = Worker THEN Nobody ELSE plock)
      /\ UNCHANGED <<rec, sup, result, script, outputs, old, starts, meddled>>
  BY DEF Crash
<1>2. TypeOK'
  BY <1>1, EmptyPlaces DEF IInv, TypeOK, Points, outputs
<1>3. Ran'
  <2>1. Held'
    BY <1>1, Holders, HolderAssumption DEF IInv, Ran, Held
  <2>2. Stages' /\ Reports' /\ RunsOnce' /\ Written'
    BY <1>1 DEF IInv, Ran, Stages, Reports, RunsOnce, Written, Timely, Came, Missing, Ended
  <2> QED BY <2>1, <2>2 DEF Ran
<1>4. Judged'
  BY <1>1 DEF IInv, Judged, Recorded, Waited, Doubtful, ConclusionTrue, Active, Points, Ours, Ended, Missing
<1> QED BY <1>2, <1>3, <1>4 DEF IInv
-----------------------------------------------------------------------------
(* The steps of the supervisors *)

\* Where a supervisor is, for the judgement of the worker.
LEMMA JudgedStays ==
    ASSUME IInv, UNCHANGED <<worker, old>>,
           \A s \in Runs : /\ sup[s].at = "none" => sup'[s].at = "none"
                           /\ sup[s].slow => sup'[s].slow
                           /\ sup'[s].at \in Supervising =>
                                sup[s].at \in Supervising \/ (old => sup'[s].slow),
           \/ result' = result /\ script' = script
           \/ /\ ~Ended /\ \E s \in Runs : sup[s].at \in Supervising
              /\ ~Missing => result'.run = result.run /\ result'.state # "none"
    PROVE  Judged'
<1>1. Recorded'
  BY DEF IInv, Judged, Recorded, worker, Ours, Ended
<1>2. Waited'
  BY DEF IInv, Judged, Waited, worker
<1>3. Doubtful'
  BY DEF IInv, Judged, Recorded, Doubtful, worker, Ours, Ended, Missing
<1>4. ConclusionTrue'
  BY DEF IInv, Judged, ConclusionTrue, worker, Ours, Ended
<1> QED BY <1>1, <1>2, <1>3, <1>4 DEF Judged

\* One that leaves gives its lock back, and what it has written stays.
LEMMA LeaveKeeps ==
    ASSUME IInv, NEW r \in Runs, sup[r].at # "none", sup' = [sup EXCEPT ![r].at = "gone"],
           plock' = (IF plock = r THEN Nobody ELSE plock),
           UNCHANGED <<worker, result, script, outputs, old, starts, meddled>>
    PROVE  IInv'
<1>1. /\ sup' \in [Runs -> Sups]
      /\ sup'[r].at = "gone" /\ sup'[r].run = sup[r].run /\ sup'[r].slow = sup[r].slow
      /\ \A s \in Runs : s # r => sup'[s] = sup[s]
  BY DEF IInv, TypeOK, Sups
<1>2. TypeOK'
  BY <1>1 DEF IInv, TypeOK, worker, outputs
<1>4. Held'
  BY <1>1, Holders, HolderAssumption DEF IInv, Ran, Held, worker, Supervising
<1>5. Stages' /\ Reports' /\ RunsOnce'
  BY <1>1 DEF IInv, Ran, Stages, Reports, RunsOnce, Missing, Ended
<1>6. Written'
  BY <1>1 DEF IInv, Ran, Written, Came, Timely, Missing, Supervising
<1>7. Judged'
  BY <1>1, JudgedStays DEF Supervising
<1> QED BY <1>2, <1>4, <1>5, <1>6, <1>7 DEF IInv, Ran

LEMMA LoadStep == \A r \in Runs : IInv /\ Load(r) => IInv'
<1> SUFFICES ASSUME NEW r \in Runs, IInv, Load(r) PROVE IInv'
  OBVIOUS
<1>1. sup[r].at = "launched" /\ UNCHANGED <<worker, plock, result, script, outputs, old, starts, meddled>>
  BY DEF Load
<1>2. CASE rec.intent
  <2>0. sup[r] \in Sups /\ rec.run \in Runs \cup {0}
    BY DEF IInv, TypeOK, Recs
  <2> DEFINE new == [sup[r] EXCEPT !.at = "loaded", !.run = rec.run]
  <2>a. sup' = [sup EXCEPT ![r] = new]
    BY <1>2 DEF Load
  <2>b. new \in Sups /\ new.at = "loaded" /\ new.slow = sup[r].slow
    BY <2>0 DEF Sups
  <2>1. /\ sup' \in [Runs -> Sups] /\ sup'[r].at = "loaded" /\ sup'[r].slow = sup[r].slow
        /\ \A s \in Runs : s # r => sup'[s] = sup[s]
    BY <2>a, <2>b DEF IInv, TypeOK
  <2>2. TypeOK'
    BY <1>1, <2>1 DEF IInv, TypeOK, worker, outputs
  <2>3. Held' /\ Stages' /\ Reports' /\ RunsOnce'
    BY <1>1, <2>1 DEF IInv, Ran, Held, Stages, Reports, RunsOnce, Missing, Ended, worker, Supervising
  <2>4. Written'
    BY <1>1, <2>1 DEF IInv, Ran, Written, Came, Timely, Missing, Supervising
  <2>5. Judged'
    BY <1>1, <2>1, JudgedStays DEF Supervising
  <2> QED BY <2>2, <2>3, <2>4, <2>5 DEF IInv, Ran
<1>3. CASE ~rec.intent
  <2>1. sup' = [sup EXCEPT ![r].at = "gone"]
    BY <1>3 DEF Load
  <2>2. plock # r
    BY <1>1 DEF IInv, Ran, Held, Supervising
  <2> QED BY <1>1, <2>1, <2>2, LeaveKeeps
<1> QED BY <1>2, <1>3

LEMMA TakeLockStep == \A r \in Runs : IInv /\ TakeLock(r) => IInv'
<1> SUFFICES ASSUME NEW r \in Runs, IInv, TakeLock(r) PROVE IInv'
  OBVIOUS
<1>1. sup[r].at = "loaded" /\ UNCHANGED <<worker, result, script, outputs, old, starts, meddled>>
  BY DEF TakeLock
<1>2. CASE plock = Nobody /\ NeverRan(r)
  <2>1. plock' = r /\ sup' = [sup EXCEPT ![r].at = "check", ![r].slow = old \/ sup[r].run # r]
        /\ Missing
    BY <1>2 DEF TakeLock, NeverRan
  <2>2. /\ sup' \in [Runs -> Sups]
        /\ sup'[r].at = "check" /\ sup'[r].run = sup[r].run /\ sup'[r].slow = (old \/ sup[r].run # r)
        /\ \A s \in Runs : s # r => sup'[s] = sup[s]
    BY <2>1 DEF IInv, TypeOK, Sups, Supervising
  <2>3. TypeOK'
    BY <1>1, <2>1, <2>2 DEF IInv, TypeOK, worker, outputs
  <2>4. \A s \in Runs : sup[s].at \notin Supervising
    BY <1>2, Holders DEF IInv, Ran, Held
  <2>5. Held'
    BY <1>1, <1>2, <2>1, <2>2, <2>4, Holders, HolderAssumption DEF IInv, Ran, Held, worker, Supervising
  <2>6. Stages' /\ Reports' /\ RunsOnce' /\ Written'
    BY <1>1, <2>1, <2>2, <2>4 DEF IInv, Ran, Stages, Reports, RunsOnce, Written, Timely, Came, Missing, Ended, Supervising
  <2>7. ~sup[r].slow
    <3>1. sup[r].slow => Came(r)
      BY DEF IInv, Ran, Written
    <3> QED BY <1>1, <3>1 DEF Came
  <2>8. Judged'
    BY <1>1, <2>2, <2>7, JudgedStays DEF Supervising
  <2> QED BY <2>3, <2>5, <2>6, <2>8 DEF IInv, Ran
<1>3. CASE Leave(r)
  BY <1>1, <1>3, LeaveKeeps DEF Leave, Supervise
<1> QED BY <1>2, <1>3 DEF TakeLock

LEMMA CheckInputsStep == \A r \in Runs : IInv /\ CheckInputs(r) => IInv'
<1> SUFFICES ASSUME NEW r \in Runs, IInv, CheckInputs(r) PROVE IInv'
  OBVIOUS
<1>1. sup[r].at = "check" /\ UNCHANGED <<worker, script, outputs, old, starts, meddled>>
  BY DEF CheckInputs
<1>2. CASE Leave(r) /\ UNCHANGED result
  BY <1>1, <1>2, LeaveKeeps DEF Leave, Supervise
<1>3. CASE /\ result' = [run |-> sup[r].run, state |-> "RUNNING", artifacts |-> {}]
           /\ Supervise(r, "start") /\ UNCHANGED plock
  <2>1. /\ sup' \in [Runs -> Sups]
        /\ sup'[r].at = "start" /\ sup'[r].run = sup[r].run /\ sup'[r].slow = sup[r].slow
        /\ \A s \in Runs : s # r => sup'[s] = sup[s]
    BY <1>3 DEF Supervise, IInv, TypeOK, Sups, Supervising
  <2>2. TypeOK'
    BY <1>1, <1>3, <2>1 DEF IInv, TypeOK, Results, Sups, worker, outputs
  <2>3. Missing /\ starts = 0 /\ script = "none" /\ \A s \in Runs : sup[s].at \in Supervising => s = r
    BY <1>1 DEF IInv, Ran, Held, Stages, Reports, Supervising
  <2>4. Held'
    BY <1>1, <1>3, <2>1 DEF IInv, Ran, Held, worker, Supervising
  <2>5. Stages' /\ Reports' /\ RunsOnce'
    BY <1>1, <1>3, <2>1, <2>3 DEF IInv, Ran, Stages, Reports, RunsOnce, Missing, Ended, Final, Supervising
  <2>6. Written'
    BY <1>1, <1>3, <2>1 DEF IInv, Ran, Written, Came, Timely, Missing, Supervising
  <2>7. Judged'
    BY <1>1, <2>1, <2>3, JudgedStays DEF Supervising, Missing, Ended, Final
  <2> QED BY <2>2, <2>4, <2>5, <2>6, <2>7 DEF IInv, Ran
<1> QED BY <1>2, <1>3 DEF CheckInputs

LEMMA StartScriptStep == \A r \in Runs : IInv /\ StartScript(r) => IInv'
<1> SUFFICES ASSUME NEW r \in Runs, IInv, StartScript(r) PROVE IInv'
  OBVIOUS
<1>1. sup[r].at = "start" /\ UNCHANGED <<worker, plock, result, outputs, old, meddled>>
  BY DEF StartScript
<1>2. PICK point \in {"watch", "report"} :
        /\ Supervise(r, point)
        /\ IF point = "watch" THEN script' = "running" /\ starts' = starts + 1
                              ELSE UNCHANGED <<script, starts>>
  BY DEF StartScript
<1>3. /\ sup' \in [Runs -> Sups]
      /\ sup'[r].at = point /\ sup'[r].run = sup[r].run /\ sup'[r].slow = sup[r].slow
      /\ \A s \in Runs : s # r => sup'[s] = sup[s]
  BY <1>2 DEF Supervise, IInv, TypeOK, Sups, Supervising
<1>4. /\ result.state = "RUNNING" /\ result.run = sup[r].run /\ starts = 0 /\ script = "none"
      /\ \A s \in Runs : sup[s].at \in Supervising => s = r
  BY <1>1 DEF IInv, Ran, Held, Stages, Reports, Supervising
<1>5. starts' \in 0 .. MaxRuns /\ starts' <= 1
  BY <1>2, <1>4, BoundAssumption DEF Runs
<1>6. TypeOK'
  BY <1>1, <1>2, <1>3, <1>5 DEF IInv, TypeOK, worker, outputs
<1>7. Held'
  BY <1>1, <1>3 DEF IInv, Ran, Held, worker, Supervising
<1>8. Stages' /\ Reports' /\ RunsOnce'
  BY <1>1, <1>2, <1>3, <1>4, <1>5 DEF IInv, Ran, Stages, Reports, RunsOnce, Missing, Ended, Final, Supervising
<1>9. Written'
  BY <1>1, <1>3 DEF IInv, Ran, Written, Came, Timely, Missing, Supervising
<1>10. Judged'
  BY <1>1, <1>3, <1>4, JudgedStays DEF Supervising, Missing, Ended, Final
<1> QED BY <1>6, <1>7, <1>8, <1>9, <1>10 DEF IInv, Ran

LEMMA WatchStep == \A r \in Runs : IInv /\ Watch(r) => IInv'
<1> SUFFICES ASSUME NEW r \in Runs, IInv, Watch(r) PROVE IInv'
  OBVIOUS
<1>1. /\ sup[r].at = "watch" /\ UNCHANGED <<worker, plock, result, outputs, old, starts, meddled>>
      /\ script' = IF script = "running" THEN "killed" ELSE script
  BY DEF Watch
<1>2. /\ sup' \in [Runs -> Sups]
      /\ sup'[r].at = "report" /\ sup'[r].run = sup[r].run /\ sup'[r].slow = sup[r].slow
      /\ \A s \in Runs : s # r => sup'[s] = sup[s]
  BY DEF Watch, Supervise, IInv, TypeOK, Sups, Supervising
<1>3. /\ result.state = "RUNNING" /\ result.run = sup[r].run
      /\ \A s \in Runs : sup[s].at \in Supervising => s = r
  BY <1>1 DEF IInv, Ran, Held, Stages, Supervising
<1>4. TypeOK'
  BY <1>1, <1>2 DEF IInv, TypeOK, worker, outputs
<1>5. Held'
  BY <1>1, <1>2 DEF IInv, Ran, Held, worker, Supervising
<1>6. Stages' /\ Reports' /\ RunsOnce'
  BY <1>1, <1>2, <1>3 DEF IInv, Ran, Stages, Reports, RunsOnce, Missing, Ended, Final, Supervising
<1>7. Written'
  BY <1>1, <1>2 DEF IInv, Ran, Written, Came, Timely, Missing, Supervising
<1>8. Judged'
  BY <1>1, <1>2, <1>3, JudgedStays DEF Supervising, Missing, Ended, Final
<1> QED BY <1>4, <1>5, <1>6, <1>7, <1>8 DEF IInv, Ran

LEMMA ReportStep == \A r \in Runs : IInv /\ Report(r) => IInv'
<1> SUFFICES ASSUME NEW r \in Runs, IInv, Report(r) PROVE IInv'
  OBVIOUS
<1>1. /\ sup[r].at = "report" /\ UNCHANGED <<worker, script, files, target, old, starts, meddled>>
      /\ changed' = {} /\ plock' = (IF plock = r THEN Nobody ELSE plock)
  BY DEF Report, Leave
<1>2. PICK state \in Verdicts, present \in SUBSET files :
        result' = [run |-> sup[r].run, state |-> state, artifacts |-> present]
  BY DEF Report
<1>3. /\ sup' \in [Runs -> Sups]
      /\ sup'[r].at = "gone" /\ sup'[r].run = sup[r].run /\ sup'[r].slow = sup[r].slow
      /\ \A s \in Runs : s # r => sup'[s] = sup[s]
  BY DEF Report, Leave, Supervise, IInv, TypeOK, Sups
<1>4. /\ result.state = "RUNNING" /\ result.run = sup[r].run /\ script # "running"
      /\ \A s \in Runs : sup[s].at \in Supervising => s = r
  BY <1>1 DEF IInv, Ran, Held, Stages, Supervising
<1>5. state \in Final /\ (state = "COMPLETED" => script = "ok")
  BY <1>2 DEF Verdicts, Final
<1>6. TypeOK'
  BY <1>1, <1>2, <1>3, <1>5 DEF IInv, TypeOK, Results, Sups, worker
<1>8. Held'
  BY <1>1, <1>3, <1>4, Holders, HolderAssumption DEF IInv, Ran, Held, worker, Supervising
<1>9. Stages' /\ Reports' /\ RunsOnce'
  BY <1>1, <1>2, <1>3, <1>4, <1>5 DEF IInv, Ran, Stages, Reports, RunsOnce, Missing, Ended, Final, Supervising
<1>10. Written'
  BY <1>1, <1>2, <1>3, <1>4 DEF IInv, Ran, Written, Came, Timely, Missing, Supervising
<1>11. Judged'
  BY <1>1, <1>2, <1>3, <1>4, <1>5, JudgedStays DEF Supervising, Missing, Ended, Final
<1> QED BY <1>6, <1>8, <1>9, <1>10, <1>11 DEF IInv, Ran

LEMMA DieStep == \A r \in Runs : IInv /\ Die(r) => IInv'
BY LeaveKeeps DEF Die, Leave, Supervise, Supervising
-----------------------------------------------------------------------------
(* The rest of the world *)

LEMMA ScriptEndsStep == IInv /\ ScriptEnds => IInv'
<1> SUFFICES ASSUME IInv, ScriptEnds PROVE IInv'
  OBVIOUS
<1>1. /\ script = "running" /\ UNCHANGED <<worker, sup, plock, result, target, old, starts, meddled>>
      /\ script' \in {"ok", "bad"}
  BY DEF ScriptEnds
<1>2. files' \subseteq Outputs /\ changed' \subseteq Outputs
  BY DEF ScriptEnds, IInv, TypeOK
<1>3. TypeOK'
  BY <1>1, <1>2 DEF IInv, TypeOK, worker
<1>4. Ran'
  BY <1>1 DEF IInv, Ran, Held, Stages, Reports, RunsOnce, Written, Timely, Came, Missing, Ended, Final, worker
<1>5. Judged'
  BY <1>1 DEF IInv, Judged, Recorded, Waited, Doubtful, ConclusionTrue, Ours, Ended, Missing, worker
<1> QED BY <1>3, <1>4, <1>5 DEF IInv

LEMMA TickStep == IInv /\ Tick => IInv'
<1> SUFFICES ASSUME IInv, Tick PROVE IInv'
  OBVIOUS
<1>1. old' = TRUE /\ UNCHANGED <<worker, sup, plock, result, script, outputs, starts, meddled>>
  BY DEF Tick
<1>2. TypeOK'
  BY <1>1 DEF IInv, TypeOK, worker, outputs
<1>3. Ran'
  BY <1>1, RanStays DEF IInv, worker
<1>4. Judged'
  BY <1>1 DEF IInv, Judged, Recorded, Waited, Doubtful, ConclusionTrue, Ours, Ended, Missing, worker
<1> QED BY <1>2, <1>3, <1>4 DEF IInv

LEMMA MeddleStep == \A o \in Outputs : IInv /\ Meddle(o) => IInv'
<1> SUFFICES ASSUME NEW o \in Outputs, IInv, Meddle(o) PROVE IInv'
  OBVIOUS
<1>1. /\ UNCHANGED <<worker, sup, plock, result, script, old, starts>>
      /\ meddled < MaxMeddling /\ meddled' = meddled + 1
  BY DEF Meddle
<1>2. /\ files' \subseteq Outputs /\ changed' \subseteq Outputs
      /\ target' \in [Outputs -> {"none", "ours", "other"}]
  BY DEF Meddle, IInv, TypeOK
<1>3. meddled' \in 0 .. MaxMeddling
  BY <1>1, BoundAssumption DEF IInv, TypeOK
<1>4. TypeOK'
  BY <1>1, <1>2, <1>3 DEF IInv, TypeOK, worker
<1>5. Ran'
  BY <1>1, RanStays DEF IInv, worker
<1>6. Judged'
  BY <1>1 DEF IInv, Judged, Recorded, Waited, Doubtful, ConclusionTrue, Ours, Ended, Missing, worker
<1> QED BY <1>4, <1>5, <1>6 DEF IInv
-----------------------------------------------------------------------------
(* The theorems *)

LEMMA InitIInv == Init => IInv
<1> SUFFICES ASSUME Init PROVE IInv
  OBVIOUS
<1>1. TypeOK
  <2>1. NoRec \in Recs /\ NoSup \in Sups
    BY DEF NoRec, NoSup, Recs, Phases, Sups
  <2>2. result \in Results /\ 0 \in 0 .. MaxRuns /\ 0 \in 0 .. MaxMeddling
    BY BoundAssumption DEF Init, Results
  <2> QED BY <2>1, <2>2, EmptyPlaces DEF Init, TypeOK, Points
<1>2. Ran
  BY Holders DEF Init, NoSup, Ran, Held, Stages, Reports, RunsOnce, Written, Timely, Came, Missing, Ended, Final, Supervising
<1>3. Judged
  BY DEF Init, NoRec, NoSup, Judged, Recorded, Waited, Doubtful, ConclusionTrue, Active
<1> QED BY <1>1, <1>2, <1>3 DEF IInv

LEMMA NextKeeps == IInv /\ [Next]_vars => IInv'
<1> SUFFICES ASSUME IInv, [Next]_vars PROVE IInv'
  OBVIOUS
<1>1. CASE UNCHANGED vars
  <2>1. TypeOK'
    BY <1>1 DEF IInv, TypeOK, vars, worker, outputs
  <2>2. Ran'
    BY <1>1, RanStays DEF IInv, vars, worker
  <2>3. Judged'
    BY <1>1, JudgedStays DEF vars
  <2> QED BY <2>1, <2>2, <2>3 DEF IInv
<1>2. CASE Work
  BY <1>2, BeginStep, RefuseStep, SnapshotStep, IntendStep, LaunchStep, PollStep, LookStep,
     EndLookStep, RereadStep, CollectStep, CopyStep, FinishStep DEF Work
<1>3. CASE \E r \in Runs : Supervisor(r) \/ Die(r)
  BY <1>3, LoadStep, TakeLockStep, CheckInputsStep, StartScriptStep, WatchStep, ReportStep,
     DieStep DEF Supervisor
<1>4. CASE Enqueue \/ Recover \/ Resume \/ Crash \/ DeleteRecord
  BY <1>4, EnqueueStep, TakeUpStep, CrashStep, DeleteStep
<1>5. CASE ScriptEnds \/ Tick \/ \E o \in Outputs : Meddle(o)
  BY <1>5, ScriptEndsStep, TickStep, MeddleStep
<1> QED BY <1>1, <1>2, <1>3, <1>4, <1>5 DEF Next

\* The invariant of a plan's runs: the worker, the supervisors and the files
\* they share (local_python.py).
THEOREM Invariant == Spec => []IInv
BY InitIInv, NextKeeps, PTL DEF Spec

\* Every variable keeps its type.
THEOREM TypeCorrect == Spec => []TypeOK
<1>1. IInv => TypeOK
  BY DEF IInv
<1> QED BY <1>1, Invariant, PTL

\* However many runs a plan has, and whoever dies, its script is started once
\* at most (main, local_python.py:233).
THEOREM StartedOnce == Spec => []RunsOnce
<1>1. IInv => RunsOnce
  BY DEF IInv, Ran
<1> QED BY <1>1, Invariant, PTL

\* A finished run says what a supervisor of its own saw (execute,
\* local_python.py:151).
THEOREM ConcludesTruly == Spec => []ConclusionTrue
<1>1. IInv => ConclusionTrue
  BY DEF IInv, Judged
<1> QED BY <1>1, Invariant, PTL

\* A worker says "execution_uncertain" only when no supervisor that came in
\* time is at work for the run, or has left its last word (execute,
\* local_python.py:154).
THEOREM DoubtsHonestly == Spec => []HonestDoubt
<1>1. IInv => HonestDoubt
  <2> SUFFICES ASSUME IInv, rec.reason = "execution_uncertain", Ours, \A r \in Runs : ~sup[r].slow
               PROVE  /\ ~Ended
                      /\ \A r \in Runs : sup[r].at \in Supervising => sup[r].run # rec.run
    BY DEF HonestDoubt
  <2>1. rec.run \in Runs
    BY DEF IInv, Judged, Recorded
  <2>2. CASE sup[rec.run].at = "none"
    <3>1. \A r \in Runs : sup[r].at \in Supervising \/ Came(r) => r # rec.run
      BY <2>2 DEF Came, Supervising
    <3>2. ~Ended
      BY <2>1, <3>1 DEF IInv, Ran, Written, Timely, Ours, Missing, Ended, Final
    <3> QED BY <3>1, <3>2 DEF IInv, Ran, Written, Timely
  <2>3. CASE ~Missing /\ ~Ours
    BY <2>3
  <2>4. CASE old /\ ~Ended /\ \A r \in Runs : sup[r].at \notin Supervising
    BY <2>4
  <2> QED BY <2>2, <2>3, <2>4 DEF IInv, Judged, Doubtful
<1> QED BY <1>1, Invariant, PTL
=============================================================================
