----------------------------- MODULE LocalPython -----------------------------
(***************************************************************************)
(* The local analyses of rsci/workflow/local_python.py.  The worker of an  *)
(* approved plan, which holds the plan's run lock, takes a snapshot of the *)
(* inputs, saves its intent, and starts a supervisor: a process of its     *)
(* own, with a lock and a result file of its own, that runs the script and *)
(* outlives the worker.  The worker, or its successor, watches the result  *)
(* and the supervisor's lock, and collects the outputs.                    *)
(*                                                                         *)
(* Lock and result file belong to the plan, not to the run: a deleted run  *)
(* record may be followed by another run with another approval.            *)
(***************************************************************************)
EXTENDS Naturals, FiniteSets

CONSTANTS
    MaxRuns,     \* bound: runs of the plan, each with its supervisor
    Outputs,     \* the result files the plan declares
    Worker,      \* the worker, as the holder of the supervisors' lock
    Nobody,      \* the lock is free
    MaxMeddling  \* bound: changes of people to workspace and results

Runs == 1 .. MaxRuns

ASSUME BoundAssumption == MaxRuns \in Nat /\ MaxMeddling \in Nat
ASSUME HolderAssumption == Worker \notin Nat /\ Nobody \notin Nat /\ Worker # Nobody
ASSUME OutputsAssumption == IsFiniteSet(Outputs)

VARIABLES
    rec,      \* the run record
    at,       \* where the worker that holds the run lock is
    done,     \* outputs it has collected
    current,  \* the output it copies, a set of at most one
    sup,      \* sup[r]: the supervisor started for run r
    plock,    \* who holds <plan>.python.lock
    result,   \* <plan>.python.json
    script,   \* what the script does
    files,    \* outputs that are in the workspace
    changed,  \* outputs whose content is not the one last reported
    target,   \* target[o]: the file in the project's results
    old,      \* whether the intent is older than 15 seconds
    starts,   \* history: how often the script was started
    meddled   \* history: changes of people so far

worker == <<rec, at, done, current>>
outputs == <<files, changed, target>>
vars == <<worker, sup, plock, result, script, outputs, old, starts, meddled>>
-----------------------------------------------------------------------------
(* Types *)

Final == {"COMPLETED", "FAILED", "TIMEOUT"}
Sticky == {"execution_uncertain", "approval_required", "inputs_changed", "result_conflict",
           "server_changed", "invalid_plan"}
Phases == {"absent", "queued", "preparing", "monitoring", "collecting", "finished", "blocked"}
Recs == [run : Runs \cup {0}, phase : Phases, intent : BOOLEAN,
         reason : Sticky \cup {"none", "worker_error"},
         status : {"running", "paused", "completed", "needs_review", "failed"}]
Points == {"idle", "begin", "snapshot", "intend", "launch", "poll", "look", "probe", "reread",
           "collect", "copy"}
Supervising == {"check", "start", "watch", "report"}     \* holding the lock
Sups == [at : Supervising \cup {"none", "launched", "loaded", "gone"}, run : Runs \cup {0},
         slow : BOOLEAN]
Results == [run : Runs \cup {0}, state : Final \cup {"none", "RUNNING"}, artifacts : SUBSET Outputs]

TypeOK == /\ rec \in Recs
          /\ at \in Points
          /\ done \subseteq Outputs
          /\ current \in SUBSET Outputs /\ Cardinality(current) <= 1
          /\ sup \in [Runs -> Sups]
          /\ plock \in Runs \cup {Nobody, Worker}
          /\ result \in Results
          /\ script \in {"none", "running", "ok", "bad", "killed"}
          /\ files \subseteq Outputs /\ changed \subseteq Outputs
          /\ target \in [Outputs -> {"none", "ours", "other"}]
          /\ old \in BOOLEAN
          /\ starts \in 0 .. MaxRuns
          /\ meddled \in 0 .. MaxMeddling
-----------------------------------------------------------------------------
(* Helpers *)

NoRec == [run |-> 0, phase |-> "absent", intent |-> FALSE, reason |-> "none", status |-> "running"]
NoSup == [at |-> "none", run |-> 0, slow |-> FALSE]

Init == /\ rec = NoRec /\ at = "idle" /\ done = {} /\ current = {}
        /\ sup = [r \in Runs |-> NoSup] /\ plock = Nobody
        /\ result = [run |-> 0, state |-> "none", artifacts |-> {}]
        /\ script = "none" /\ files = {} /\ changed = {}
        /\ target = [o \in Outputs |-> "none"]
        /\ old = FALSE /\ starts = 0 /\ meddled = 0

\* Mutant: any report is taken for the last word.
SomeState == result.state # "none"
Ended == result.state \in Final

Ours == result.run = rec.run
Missing == result.state = "none"

Block(reason) == /\ rec' = [rec EXCEPT !.phase = "blocked", !.reason = reason,
                                       !.status = IF reason \in {"inputs_changed", "invalid_plan"}
                                                  THEN "failed" ELSE "paused"]
                 /\ at' = "idle" /\ done' = {} /\ current' = {}

\* The worker goes to another point with the record it has saved.
Goto(point) == at' = point /\ UNCHANGED <<rec, done, current>>
Save(point, phase) == /\ rec' = [rec EXCEPT !.phase = phase]
                      /\ at' = point /\ UNCHANGED <<done, current>>
-----------------------------------------------------------------------------
(* The worker *)

Enqueue == /\ rec.phase = "absent"
           /\ \E r \in Runs : /\ \A s \in Runs : sup[s].at = "none" <=> s >= r
                              /\ rec' = [NoRec EXCEPT !.run = r, !.phase = "queued"]
           /\ UNCHANGED <<at, done, current, sup, plock, result, script, outputs, old, starts, meddled>>

\* Mutant: only a run that never began is taken up again.
QueuedOnly == rec.phase = "queued"
Recoverable == /\ rec.phase \notin {"absent", "finished"}
               /\ rec.phase = "blocked" => rec.reason \notin Sticky

\* recover starts a worker unless a person has to look; a person may resume
\* what is blocked.
Recover == /\ at = "idle"
           /\ Recoverable
           /\ Goto("begin")
           /\ UNCHANGED <<sup, plock, result, script, outputs, old, starts, meddled>>

Resume == /\ at = "idle"
          /\ rec.phase = "blocked"
          /\ Goto("begin")
          /\ UNCHANGED <<sup, plock, result, script, outputs, old, starts, meddled>>

Begin == /\ at = "begin"
         /\ rec' = [rec EXCEPT !.phase = IF rec.intent THEN "monitoring" ELSE "preparing",
                               !.reason = "none", !.status = "running"]
         /\ at' = IF rec.intent THEN "poll" ELSE "snapshot"
         /\ UNCHANGED <<done, current, sup, plock, result, script, outputs, old, starts, meddled>>

\* The receipt, the project, the interpreter or the inputs are not what was
\* approved, the approval has expired, or a file cannot be read or written.
Refuse == /\ \E reason \in Sticky \cup {"worker_error"} :
               /\ \/ at \in {"begin", "poll"} /\ reason \in {"server_changed", "invalid_plan"}
                  \/ at = "snapshot" /\ reason \in {"approval_required", "inputs_changed"}
                  \/ at \in {"snapshot", "poll", "collect", "copy"} /\ reason = "worker_error"
               /\ Block(reason)
          /\ UNCHANGED <<sup, plock, result, script, outputs, old, starts, meddled>>

Snapshot == /\ at = "snapshot"
            /\ IF files = {} THEN Goto("intend") ELSE Block("result_conflict")
            /\ UNCHANGED <<sup, plock, result, script, outputs, old, starts, meddled>>

Intend == /\ at = "intend"
          /\ rec' = [rec EXCEPT !.phase = "monitoring", !.intent = TRUE]
          /\ at' = "launch" /\ old' = FALSE
          /\ UNCHANGED <<done, current, sup, plock, result, script, outputs, starts, meddled>>

Launch == /\ at = "launch"
          /\ \/ sup' = [sup EXCEPT ![rec.run].at = "launched"] /\ Goto("poll")
             \/ Block("execution_uncertain") /\ UNCHANGED sup
          /\ UNCHANGED <<plock, result, script, outputs, old, starts, meddled>>

\* What a worker does with the report it has read.
Judge(otherwise) == /\ IF ~Missing /\ ~Ours THEN Block("execution_uncertain")
                       ELSE IF Ended THEN Save("collect", "collecting")
                       ELSE otherwise
                    /\ UNCHANGED <<sup, plock, result, script, outputs, old, starts, meddled>>

Poll == at = "poll" /\ Judge(Goto("look"))

\* The look at the lock takes it for a moment.
Look == /\ at = "look"
        /\ \/ plock # Nobody /\ Goto("poll") /\ UNCHANGED plock
           \/ plock = Nobody /\ Goto("probe") /\ plock' = Worker
        /\ UNCHANGED <<sup, result, script, outputs, old, starts, meddled>>

\* Mutant: no time is given to a supervisor that has not begun.
AtOnce == TRUE
Patient == old

EndLook == /\ at = "probe"
           /\ plock' = Nobody
           /\ Goto(IF Patient THEN "reread" ELSE "poll")
           /\ UNCHANGED <<sup, result, script, outputs, old, starts, meddled>>

Reread == at = "reread" /\ Judge(Block("execution_uncertain"))

\* A file of the workspace that is as the supervisor has reported it.
AsReported(o) == o \in files \ changed

Collect(o) == /\ at = "collect"
              /\ o \in result.artifacts \ done
              /\ IF ~AsReported(o) \/ target[o] = "other" THEN Block("result_conflict")
                 ELSE IF target[o] = "ours" THEN done' = done \cup {o} /\ UNCHANGED <<rec, at, current>>
                 ELSE at' = "copy" /\ current' = {o} /\ UNCHANGED <<rec, done>>
              /\ UNCHANGED <<sup, plock, result, script, outputs, old, starts, meddled>>

\* The copy replaces what has appeared there since, and is then compared with
\* the report: the workspace may have changed since it was hashed.
Copy == /\ at = "copy"
        /\ \E o \in current :
             /\ target' = [target EXCEPT ![o] = IF AsReported(o) THEN "ours" ELSE "other"]
             /\ IF AsReported(o) THEN done' = done \cup {o} /\ at' = "collect" /\ current' = {}
                                      /\ UNCHANGED rec
                ELSE Block("result_conflict")
        /\ UNCHANGED <<sup, plock, result, script, files, changed, old, starts, meddled>>

Conclusion == IF result.state # "COMPLETED" THEN "failed"
              ELSE IF result.artifacts = Outputs THEN "completed" ELSE "needs_review"

Finish == /\ at = "collect" /\ result.artifacts \subseteq done
          /\ rec' = [rec EXCEPT !.phase = "finished", !.status = Conclusion]
          /\ at' = "idle" /\ done' = {} /\ current' = {}
          /\ UNCHANGED <<sup, plock, result, script, outputs, old, starts, meddled>>

Crash == /\ at # "idle"
         /\ at' = "idle" /\ done' = {} /\ current' = {}
         /\ plock' = IF plock = Worker THEN Nobody ELSE plock
         /\ UNCHANGED <<rec, sup, result, script, outputs, old, starts, meddled>>
-----------------------------------------------------------------------------
(* The supervisor *)

Supervise(r, point) == sup' = [sup EXCEPT ![r].at = point]
Leave(r) == /\ Supervise(r, "gone")
            /\ plock' = IF plock = r THEN Nobody ELSE plock

\* It works for the run whose record it finds.
Load(r) == /\ sup[r].at = "launched"
           /\ sup' = [sup EXCEPT ![r] = IF rec.intent THEN [@ EXCEPT !.at = "loaded", !.run = rec.run]
                                        ELSE [@ EXCEPT !.at = "gone"]]
           /\ UNCHANGED <<worker, plock, result, script, outputs, old, starts, meddled>>

\* Mutant: another run of the plan may start the script.
NotOfThis(r) == result.run # sup[r].run
NeverRan(r) == Missing

TakeLock(r) == /\ sup[r].at = "loaded"
               /\ IF plock = Nobody /\ NeverRan(r)
                  THEN plock' = r /\ sup' = [sup EXCEPT ![r].at = "check", ![r].slow = old \/ sup[r].run # r]
                  ELSE Leave(r)
               /\ UNCHANGED <<worker, result, script, outputs, old, starts, meddled>>

\* Receipt, interpreter and snapshot are as approved, or it leaves.
CheckInputs(r) == /\ sup[r].at = "check"
                  /\ \/ Leave(r) /\ UNCHANGED result
                     \/ /\ result' = [run |-> sup[r].run, state |-> "RUNNING", artifacts |-> {}]
                        /\ Supervise(r, "start") /\ UNCHANGED plock
                  /\ UNCHANGED <<worker, script, outputs, old, starts, meddled>>

StartScript(r) == /\ sup[r].at = "start"
                  /\ \/ script' = "running" /\ starts' = starts + 1 /\ Supervise(r, "watch")
                     \/ UNCHANGED <<script, starts>> /\ Supervise(r, "report")
                  /\ UNCHANGED <<worker, plock, result, outputs, old, meddled>>

\* The script has ended, or its time or its log is over.
Watch(r) == /\ sup[r].at = "watch"
            /\ script' = IF script = "running" THEN "killed" ELSE script
            /\ Supervise(r, "report")
            /\ UNCHANGED <<worker, plock, result, outputs, old, starts, meddled>>

\* Outputs beyond the limits, or an exception, make it a failure.
Verdicts == IF script = "ok" THEN {"COMPLETED", "FAILED"}
            ELSE IF script = "killed" THEN {"TIMEOUT", "FAILED"} ELSE {"FAILED"}

Report(r) == /\ sup[r].at = "report"
             /\ \E state \in Verdicts, present \in SUBSET files :
                  /\ state # "FAILED" => present = files
                  /\ result' = [run |-> sup[r].run, state |-> state, artifacts |-> present]
             /\ changed' = {}
             /\ Leave(r)
             /\ UNCHANGED <<worker, script, files, target, old, starts, meddled>>

\* The script is in a session of its own and goes on.
Die(r) == /\ sup[r].at \in Supervising \cup {"launched", "loaded"}
          /\ Leave(r)
          /\ UNCHANGED <<worker, result, script, outputs, old, starts, meddled>>
-----------------------------------------------------------------------------
(* The rest of the world *)

ScriptEnds == /\ script = "running"
              /\ \E s \in {"ok", "bad"}, written \in SUBSET Outputs :
                   script' = s /\ files' = files \cup written /\ changed' = changed \cup written
              /\ UNCHANGED <<worker, sup, plock, result, target, old, starts, meddled>>

Tick == /\ rec.intent /\ ~old /\ old' = TRUE
        /\ UNCHANGED <<worker, sup, plock, result, script, outputs, starts, meddled>>

\* Somebody changes a file of the workspace, or the project's results.
Meddle(o) == /\ meddled < MaxMeddling
             /\ \/ \E now \in {files \ {o}, files \cup {o}} :
                     files' = now /\ changed' = changed \cup {o} /\ UNCHANGED target
                \/ \E now \in {"none", "other"} :
                     target' = [target EXCEPT ![o] = now] /\ UNCHANGED <<files, changed>>
             /\ meddled' = meddled + 1
             /\ UNCHANGED <<worker, sup, plock, result, script, old, starts>>

DeleteRecord == /\ at = "idle"
                /\ rec.phase # "absent"
                /\ rec' = NoRec
                /\ UNCHANGED <<at, done, current, sup, plock, result, script, outputs, old, starts, meddled>>
-----------------------------------------------------------------------------
Work == \/ Begin \/ Refuse \/ Snapshot \/ Intend \/ Launch \/ Poll \/ Look \/ EndLook \/ Reread
        \/ \E o \in Outputs : Collect(o)
        \/ Copy \/ Finish
Supervisor(r) == \/ Load(r) \/ TakeLock(r) \/ CheckInputs(r) \/ StartScript(r) \/ Watch(r)
                 \/ Report(r)

Next == \/ Enqueue \/ Recover \/ Resume \/ Work \/ Crash
        \/ \E r \in Runs : Supervisor(r) \/ Die(r)
        \/ ScriptEnds \/ Tick \/ DeleteRecord
        \/ \E o \in Outputs : Meddle(o)

Spec == Init /\ [][Next]_vars

\* Processes go on, time passes, and consoles are started again and again.
FairSpec == /\ Spec
            /\ WF_vars(Work) /\ WF_vars(Tick) /\ WF_vars(Recover)
            /\ \A r \in Runs : WF_vars(Supervisor(r))
-----------------------------------------------------------------------------
(* Properties *)

\* The script of a plan is started once at most, whatever dies and is resumed,
\* also by a second run after the first record was deleted: the result file
\* is saved before the start and belongs to the plan (main, line 233).
RunsOnce == starts <= 1

\* A finished run rests on the report of a supervisor that worked for this
\* run and saw the script end; "completed" is said only of a script that
\* ended well and left every declared output.
ConclusionTrue ==
    rec.phase = "finished" =>
        /\ Ours /\ Ended /\ script # "running"
        /\ rec.status = "completed" => script = "ok" /\ result.artifacts = Outputs

\* "execution_uncertain" is said only when nobody works for the run and no
\* last report is there to be read.  A supervisor that takes its lock more
\* than 15 seconds after the intent, or that was started for an earlier run,
\* may still come after the verdict.
HonestDoubt ==
    rec.reason = "execution_uncertain" /\ Ours /\ (\A r \in Runs : ~sup[r].slow) =>
        /\ ~Ended
        /\ \A r \in Runs : sup[r].at \in Supervising => sup[r].run # rec.run

\* Once processes stop dying, a run comes to its end or to a person.
Settles == <>[][~Crash /\ \A r \in Runs : ~Die(r)]_vars =>
             (rec.phase \notin {"absent", "finished", "blocked"}
                ~> rec.phase \in {"absent", "finished", "blocked"})
=============================================================================
