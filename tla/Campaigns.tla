------------------------------ MODULE Campaigns ------------------------------
(***************************************************************************)
(* A campaign of rsci/workflow/campaign.py: the stages of one approved     *)
(* plan, each a job of the scheduler, advanced by the console's ticker     *)
(* (rsci/ui/server.py) and aborted from the console or from an agent's     *)
(* tool (rsci/tools/registry.py).                                          *)
(*                                                                         *)
(* CampaignStore.lock is a lock between the threads of a process, so a     *)
(* process is in at most one operation.  Nothing excludes the operations   *)
(* of two processes: each loads the record, works on its copy through      *)
(* calls to the cluster that take minutes, and saves the whole copy.       *)
(***************************************************************************)
EXTENDS Naturals, FiniteSets, Sequences

CONSTANTS
    Order,      \* the stages of the plan, in the order they are visited
    Requires,   \* Requires[s]: the stage s is built on
    NoStage,    \* ... or none
    Processes,  \* processes that run operations on the campaign
    Consoles,   \* those with a ticker and a person who decides
    JobIds,     \* what the scheduler calls jobs
    NoJob,      \* a row without a job id
    MaxFaults   \* bound: dead operations, dropped or useless connections, ends of jobs
                \* that the code does not know, and edits of the file

Stages == {Order[k] : k \in DOMAIN Order}

ASSUME OrderAssumption == Order \in Seq(Stages)
ASSUME RequiresAssumption == /\ NoStage \notin Stages
                             /\ Requires \in [Stages -> Stages \cup {NoStage}]
ASSUME ConsoleAssumption == Consoles \subseteq Processes
ASSUME JobAssumption == NoJob \notin JobIds
ASSUME FaultAssumption == MaxFaults \in Nat

VARIABLES
    record,   \* the file campaigns/<id>.json
    at,       \* at[p]: where process p is in its operation
    copy,     \* copy[p]: its copy of the record
    pos,      \* pos[p]: the place in Order its loop has reached
    stageOf,  \* stageOf[j]: the stage job j was submitted for
    jobState, \* jobState[j]: how job j really is
    good,     \* stages whose files have come to show convergence
    scheduler,\* the scheduler of the server, for good
    twice,    \* history: jobs of a submission that the client sent again
    faults,   \* faults so far
    shared    \* history: two processes were in an operation at the same time

local == <<at, copy, pos>>
jobs == <<jobState, good, scheduler>>
remote == <<stageOf, twice, jobs>>
vars == <<record, local, remote, faults, shared>>
-----------------------------------------------------------------------------
(* Types *)

Stopped == {"needs_review", "failed", "blocked", "aborted"}      \* STAGE_STOPPED
Final == Stopped \cup {"completed", "rejected"}                  \* CAMPAIGN_FINAL
Cancelling == {"cancelling", "cancel_failed"}
Active == Cancelling \cup {"running"}
\* How a job ends; "unlisted" is an end of Slurm, such as DEADLINE, which
\* TERMINAL_SCHEDULER_STATES does not have.
Ends == {"completed", "failed", "unlisted"}
JobStates == Ends \cup {"alive"}
RowStatuses == Stopped \cup Active \cup {"waiting", "preparing", "converged"}
Statuses == Final \cup {"absent", "awaiting_approval", "running", "cancelling"}
Rows == [status : RowStatuses, job : JobIds \cup {NoJob},
         early : BOOLEAN]       \* history: its verdict came before the end of its job
Records == [status : Statuses, approval : {"none", "own", "other"}, rows : [Stages -> Rows]]
Points == {"idle", "save", "advance", "generate", "submit", "answer", "settle",
           "confirm", "cancel"}

TypeOK == /\ record \in Records
          /\ at \in [Processes -> Points]
          /\ copy \in [Processes -> Records]
          /\ pos \in [Processes -> 1 .. Len(Order) + 1]
          /\ stageOf \in [JobIds -> Stages \cup {NoStage}]
          /\ jobState \in [JobIds -> JobStates]
          /\ good \in SUBSET Stages
          /\ scheduler \in {"slurm", "pbs"}
          /\ twice \in SUBSET JobIds
          /\ faults \in 0 .. MaxFaults
          /\ shared \in BOOLEAN
-----------------------------------------------------------------------------
(* The record *)

Row(status, job, early) == [status |-> status, job |-> job, early |-> early]
Waiting == Row("waiting", NoJob, FALSE)
NoRecord == [status |-> "absent", approval |-> "none", rows |-> [s \in Stages |-> Waiting]]

\* A copy with the status of one row changed; the row keeps its job id.
Marked(r, s, status) == [r EXCEPT !.rows[s].status = status]

\* The stage the ticker's loop does something about.
\* Mutant: the required stage has been started.
RequiredStarted(r, s) == Requires[s] = NoStage \/ r.rows[Requires[s]].status # "waiting"
RequiredGood(r, s) == Requires[s] = NoStage \/ r.rows[Requires[s]].status = "converged"
Actionable(r, s) == r.rows[s].status \notin Stopped \cup {"converged"} /\ RequiredGood(r, s)
\* The one abort cancels.
Cancellable(r, s) == r.rows[s].status \in Active /\ r.rows[s].job # NoJob

First(places) == {i \in places : \A k \in places : i <= k}

\* _settle: completed, still going, or stopped by the first stage that is.
AllConverged(r) == \A s \in Stages : r.rows[s].status = "converged"
Stops(r) == First({i \in DOMAIN Order : r.rows[Order[i]].status \in Stopped})
StoppedBy(r, i) == [r EXCEPT !.status = r.rows[Order[i]].status]
UnderWay(r) == \E s \in Stages : \/ r.rows[s].status \in {"running", "preparing"}
                                 \/ r.rows[s].status = "waiting" /\ RequiredGood(r, s)
Settled(r) == IF AllConverged(r) THEN {[r EXCEPT !.status = "completed"]}
              ELSE IF UnderWay(r) THEN {r}
              ELSE {StoppedBy(r, i) : i \in Stops(r)}

Init == /\ record = NoRecord
        /\ at = [p \in Processes |-> "idle"]
        /\ copy = [p \in Processes |-> NoRecord]
        /\ pos = [p \in Processes |-> 1]
        /\ stageOf = [j \in JobIds |-> NoStage]
        /\ jobState = [j \in JobIds |-> "alive"]
        /\ good = {}
        /\ scheduler \in {"slurm", "pbs"}
        /\ twice = {}
        /\ faults = 0
        /\ shared = FALSE
-----------------------------------------------------------------------------
(* How an operation moves *)

\* It takes the lock of its process, loads the record and goes to a point.
Open(p, point, r) ==
    /\ at[p] = "idle"
    /\ at' = [at EXCEPT ![p] = point]
    /\ copy' = [copy EXCEPT ![p] = r]
    /\ pos' = [pos EXCEPT ![p] = 1]
    /\ shared' = (shared \/ \E q \in Processes : at[q] # "idle")
    /\ UNCHANGED <<record, remote, faults>>

\* It has copy r now, and is at place k.
Goto(p, point, r, k) == /\ at' = [at EXCEPT ![p] = point]
                        /\ copy' = [copy EXCEPT ![p] = r]
                        /\ pos' = [pos EXCEPT ![p] = k]
\* It saves copy r, and goes on.
Save(p, point, r, k) == record' = r /\ Goto(p, point, r, k)
\* It forgets its copy.
Leave(p) == Goto(p, "idle", NoRecord, 1)
Close(p, r) == record' = r /\ Leave(p)

Fault == faults < MaxFaults /\ faults' = faults + 1
\* The places where the loop of process p has something to do.
Turns(p) == {i \in pos[p] .. Len(Order) : Actionable(copy[p], Order[i])}
Requests(p) == {i \in pos[p] .. Len(Order) : Cancellable(copy[p], Order[i])}
-----------------------------------------------------------------------------
(* CampaignStore: create, approve, reject *)

\* campaign_start, which approves at once when submissions need no person.
Create == /\ record.status = "absent"
          /\ \/ record' = [NoRecord EXCEPT !.status = "awaiting_approval"]
             \/ record' = [NoRecord EXCEPT !.status = "running", !.approval = "own"]
          /\ UNCHANGED <<local, remote, faults, shared>>

Decide(p) == /\ record.status = "awaiting_approval"
             /\ \/ Open(p, "save", [record EXCEPT !.status = "running", !.approval = "own"])
                \/ Open(p, "save", [record EXCEPT !.status = "rejected"])

Conclude(p) == /\ at[p] = "save"
               /\ Close(p, copy[p])
               /\ UNCHANGED <<remote, faults, shared>>
-----------------------------------------------------------------------------
(* CampaignRunner.tick *)

Tick(p) == \/ record.status = "cancelling" /\ Open(p, "confirm", record)
           \/ /\ record.status = "running"
              /\ IF record.approval = "own"
                 THEN Open(p, "advance", record)
                 ELSE Open(p, "save", [record EXCEPT !.status = "blocked"])

\* The loop comes to place k, for stage s; and process p is there, at a point
\* of _start.
Turn(p, k, s) == at[p] = "advance" /\ k \in First(Turns(p)) /\ s = Order[k]
In(p, point, k, s) == at[p] = point /\ k = pos[p] /\ s = Order[k]
\* A turn ends by saving; or a connection was lost, and the loop with it.
EndTurn(p, k, r) == Save(p, "advance", r, k + 1)
Disconnect(p, k, r) == Fault /\ Save(p, "settle", r, k)

\* _start: the directory, and the row is saved before anything else.
MakeDir(p, k, s) ==
    /\ Turn(p, k, s)
    /\ copy[p].rows[s].status = "waiting"
    /\ \/ Save(p, "generate", Marked(copy[p], s, "preparing"), k) /\ UNCHANGED faults
       \/ EndTurn(p, k, Marked(copy[p], s, "failed")) /\ UNCHANGED faults
       \/ Disconnect(p, k, copy[p])
    /\ UNCHANGED <<remote, shared>>

\* A row found in "preparing" was left by an operation that died.
\* Mutant: it is started again.
Again(r, s) == Marked(r, s, "waiting")
Interrupted(r, s) == Marked(r, s, "failed")
GiveUp(p, k, s) == /\ Turn(p, k, s)
                   /\ copy[p].rows[s].status = "preparing"
                   /\ EndTurn(p, k, Interrupted(copy[p], s))
                   /\ UNCHANGED <<remote, faults, shared>>

\* The inputs are generated, compared with what was approved, and checked.
Generate(p, k, s) ==
    /\ In(p, "generate", k, s)
    /\ \/ Goto(p, "submit", copy[p], k) /\ UNCHANGED <<record, faults>>
       \/ \E why \in {"failed", "blocked"} :
             EndTurn(p, k, Marked(copy[p], s, why)) /\ UNCHANGED faults
       \/ Disconnect(p, k, Marked(copy[p], s, "failed"))
    /\ UNCHANGED <<remote, shared>>

\* client.submit: accepted, refused, or the scheduler never hears of it.
Submit(p, k, s) ==
    /\ In(p, "submit", k, s)
    /\ \/ \E j \in JobIds :
             /\ stageOf[j] = NoStage
             /\ stageOf' = [stageOf EXCEPT ![j] = s]
             /\ Goto(p, "answer", [copy[p] EXCEPT !.rows[s].job = j], k)
             /\ UNCHANGED <<record, faults>>
       \/ /\ EndTurn(p, k, Marked(copy[p], s, "failed"))
          /\ UNCHANGED <<stageOf, faults>>
       \/ /\ Disconnect(p, k, Marked(copy[p], s, "failed"))
          /\ UNCHANGED stageOf
    /\ UNCHANGED <<twice, jobs, shared>>

\* The connection broke before the answer came; client._call takes that for an expired
\* session and sends the submission again (see RemoteCalls).
Resend(p, k, s) ==
    /\ In(p, "answer", k, s)
    /\ Fault
    /\ \E j \in JobIds :
          /\ stageOf[j] = NoStage
          /\ stageOf' = [stageOf EXCEPT ![j] = s]
          /\ twice' = twice \cup {j}
          /\ Goto(p, "answer", [copy[p] EXCEPT !.rows[s].job = j], k)
    /\ UNCHANGED <<record, jobs, shared>>

\* The answer arrives, or is lost on the way.
Unanswered(r, s) == [r EXCEPT !.rows[s] = Row("failed", NoJob, FALSE)]
Answer(p, k, s) ==
    /\ In(p, "answer", k, s)
    /\ \/ EndTurn(p, k, Marked(copy[p], s, "running")) /\ UNCHANGED faults
       \/ EndTurn(p, k, Unanswered(copy[p], s)) /\ UNCHANGED faults
       \/ Disconnect(p, k, Unanswered(copy[p], s))
    /\ UNCHANGED <<remote, shared>>

\* op_job_state and normalize_state: Slurm's CONFIGURING and COMPLETING, in which a
\* live job may be, are answered as COMPLETED, as is, under PBS, every finished job.
Slurm == scheduler = "slurm"
Words(j) == CASE jobState[j] = "alive" -> {"OTHER"} \cup IF Slurm THEN {"COMPLETED"} ELSE {}
              [] jobState[j] = "completed" -> {"COMPLETED"}
              [] jobState[j] = "failed" -> IF Slurm THEN {"FAILED"} ELSE {"COMPLETED"}
              [] jobState[j] = "unlisted" -> {"OTHER"}
Terminal == {"COMPLETED", "FAILED"}
Early(j) == jobState[j] = "alive"

\* _poll of a job that the scheduler calls ended.  A result that cannot be read does
\* not count as converged.
\* Mutant: a job that completed has converged.
CompletedIsEnough(s, word) == IF word = "COMPLETED" THEN {"converged"} ELSE {"failed"}
Verdicts(s, word) == CASE word = "FAILED" -> {"failed"}
                       [] s \in good -> {"converged", "needs_review"}
                       [] OTHER -> {"needs_review"}
Judged(r, s, verdict) ==
    [r EXCEPT !.rows[s] = Row(verdict, r.rows[s].job, Early(r.rows[s].job))]
\* An error of the query fails the stage, whether its job is over or not.
Poll(p, k, s) ==
    /\ Turn(p, k, s)
    /\ copy[p].rows[s].status = "running"
    /\ \/ \E word \in Words(copy[p].rows[s].job) :
             IF word \in Terminal
             THEN \/ /\ \E v \in Verdicts(s, word) : EndTurn(p, k, Judged(copy[p], s, v))
                     /\ UNCHANGED faults
                  \/ Fault /\ EndTurn(p, k, copy[p])      \* the scheduler says UNKNOWN
             ELSE EndTurn(p, k, copy[p]) /\ UNCHANGED faults
       \/ EndTurn(p, k, Marked(copy[p], s, "failed")) /\ UNCHANGED faults
       \/ Disconnect(p, k, copy[p])
    /\ UNCHANGED <<remote, shared>>

Settle(p) == /\ \/ at[p] = "settle"
                \/ at[p] = "advance" /\ Turns(p) = {}
             /\ \E r \in Settled(copy[p]) : Close(p, r)
             /\ UNCHANGED <<remote, faults, shared>>

\* _poll_cancellation: aborted when every job it cancels is said to have ended.
Outstanding(r) == {s \in Stages : r.rows[s].status \in Cancelling}
Seen(r, over) ==
    LET rows == [s \in Stages |->
                    IF s \in over
                    THEN Row("aborted", r.rows[s].job, Early(r.rows[s].job))
                    ELSE r.rows[s]] IN
    [r EXCEPT !.rows = rows,
              !.status = IF Outstanding(r) \subseteq over THEN "aborted" ELSE @]
\* Mutant: only the jobs whose cancellation was accepted are looked at.
OverAccepted(r) == {s \in Stages : /\ r.rows[s].status = "cancelling"
                                   /\ Words(r.rows[s].job) \cap Terminal # {}}
\* What may be said to have ended, and what is, unless its query fails.
Over(r) == {s \in Outstanding(r) : Words(r.rows[s].job) \cap Terminal # {}}
Surely(r) == {s \in Over(r) : Words(r.rows[s].job) \subseteq Terminal}
ConfirmCancelled(p) ==
    /\ at[p] = "confirm"
    /\ \E over \in SUBSET Over(copy[p]) :
          /\ Close(p, Seen(copy[p], over))
          /\ IF Surely(copy[p]) \subseteq over THEN UNCHANGED faults ELSE Fault
    /\ UNCHANGED <<remote, shared>>
-----------------------------------------------------------------------------
(* CampaignRunner.abort *)

Abort(p) == /\ record.status # "absent"
            /\ record.status \notin Final \/ \E s \in Stages : Cancellable(record, s)
            /\ Open(p, "cancel", record)

\* The scheduler takes the request, or refuses it.
Cancel(p) ==
    /\ at[p] = "cancel"
    /\ \E k \in First(Requests(p)), status \in Cancelling :
          Goto(p, "cancel", Marked(copy[p], Order[k], status), k + 1)
    /\ UNCHANGED <<record, remote, faults, shared>>

\* What has no job to cancel is aborted at once.
Aborted(r) ==
    [r EXCEPT !.rows = [s \in Stages |->
                           IF \/ r.rows[s].status \in Stopped \cup {"converged"}
                              \/ Cancellable(r, s)
                           THEN r.rows[s] ELSE [r.rows[s] EXCEPT !.status = "aborted"]],
              !.status = IF \E s \in Stages : Cancellable(r, s) THEN "cancelling"
                         ELSE "aborted"]
FinishAbort(p) == /\ at[p] = "cancel"
                  /\ Requests(p) = {}
                  /\ Close(p, Aborted(copy[p]))
                  /\ UNCHANGED <<remote, faults, shared>>
-----------------------------------------------------------------------------
(* The scheduler, the processes, and who edits the file *)

Started(j) == stageOf[j] # NoStage
\* A job that runs may come to converged results, in the directory of its stage.
Converges(j) == /\ Started(j) /\ jobState[j] = "alive"
                /\ good' = good \cup {stageOf[j]}
                /\ UNCHANGED <<record, local, stageOf, twice, jobState, scheduler, faults, shared>>
JobEnds(j) == /\ Started(j) /\ jobState[j] = "alive"
              /\ \E end \in Ends : /\ jobState' = [jobState EXCEPT ![j] = end]
                                  /\ IF end = "unlisted" THEN Slurm /\ Fault
                                     ELSE UNCHANGED faults
              /\ UNCHANGED <<record, local, stageOf, twice, good, scheduler, shared>>

Die(p) == /\ at[p] # "idle"
          /\ Fault
          /\ Leave(p)
          /\ UNCHANGED <<record, remote, shared>>

\* The approval in the file becomes another campaign's.
Retarget == /\ record.status = "running" /\ record.approval = "own"
            /\ record' = [record EXCEPT !.approval = "other"]
            /\ Fault
            /\ UNCHANGED <<local, remote, shared>>
-----------------------------------------------------------------------------
Begins(p) == Abort(p) \/ (p \in Consoles /\ (Decide(p) \/ Tick(p)))
Continue(p) ==
    \/ Conclude(p) \/ Settle(p) \/ ConfirmCancelled(p) \/ Cancel(p) \/ FinishAbort(p)
    \/ \E k \in DOMAIN Order, s \in Stages :
          \/ MakeDir(p, k, s) \/ GiveUp(p, k, s) \/ Generate(p, k, s)
          \/ Submit(p, k, s) \/ Resend(p, k, s) \/ Answer(p, k, s) \/ Poll(p, k, s)
Next == \/ Create \/ Retarget
        \/ \E p \in Processes : Begins(p) \/ Continue(p) \/ Die(p)
        \/ \E j \in JobIds : Converges(j) \/ JobEnds(j)
Spec == Init /\ [][Next]_vars

\* A console ticks every minute, between the requests its lock lets in; a
\* call to the cluster returns or times out; and the scheduler ends every job
\* at its wall time.
FairSpec == /\ Spec
            /\ \A p \in Consoles : SF_vars(Tick(p))
            /\ \A p \in Processes : WF_vars(Continue(p))
            /\ \A j \in JobIds : WF_vars(JobEnds(j))
-----------------------------------------------------------------------------
(* Properties *)

\* With one console a stage is submitted once, whatever dies, whatever answer is
\* lost, and whoever aborts from another process: a second job of it is one that the
\* client made of the same submission, when the connection broke (client.py:90).
OneJobPerStage ==
    \A i, j \in JobIds \ twice : stageOf[i] = stageOf[j] /\ stageOf[i] # NoStage => i = j

\* A campaign says of its stages what their jobs have done: converged as their files
\* show, ended without, or aborted; and it says so of a job that is over, unless
\* Slurm was asked while it configured or completed the job, which is taken for an
\* end (rsci_gateway.py:725, against campaign.py:430 and spec/workflows.md:47).
\* (A job may have converged, and its results not been read.)
VerdictsTrue ==
    \A s \in Stages :
        LET row == record.rows[s]
            wrong == Slurm /\ row.early
        IN  /\ row.job # NoJob => stageOf[row.job] = s
            /\ row.status = "converged" => row.job # NoJob /\ s \in good
            /\ row.status \in {"converged", "needs_review", "aborted"} /\ row.job # NoJob
                  => jobState[row.job] \in Ends \/ wrong

\* A campaign ends only when nothing of it is under way: neither a stage being
\* prepared nor a job it follows or cancels, which nobody would look at again.
\* (One whose approval is another's ends at once.)
NothingLeftRunning ==
    record.status \in Final /\ record.approval # "other" =>
        \A s \in Stages : record.rows[s].status \in Stopped \cup {"converged", "waiting"}

\* The campaign implements StagedPlan.
Plan == INSTANCE StagedPlan WITH
            phase <- IF record.status \in {"absent", "awaiting_approval"} THEN "proposed"
                     ELSE IF record.status = "running" THEN "approved" ELSE "closed",
            begun <- {stageOf[j] : j \in JobIds} \ {NoStage}
PromiseKept == Plan!Spec

\* An approved campaign comes to an end, and so does one being cancelled; unless a
\* job ended in a word that is no end to the code (engine.py:43), which nothing times.
Settles == record.status \in {"running", "cancelling"} ~>
               \/ record.status \in Final
               \/ \E j \in JobIds : jobState[j] = "unlisted"
=============================================================================
