---------------------------- MODULE WorkflowTasks ----------------------------
(***************************************************************************)
(* Durable execution of approved plans: rsci/workflow/tasks.py, worker.py  *)
(* and the approval ledger and run record of engine.py.                    *)
(*                                                                         *)
(* Every writer of a run record holds the plan's run lock (a file lock the *)
(* kernel drops when its process dies) and saves its whole copy after each *)
(* change, so the holder's memory is the record on disk: `run' is both.  A *)
(* step of the model ends at one durable write, and a crash may fall       *)
(* between any two.                                                        *)
(*                                                                         *)
(* The local input files and the server entry of the settings may change   *)
(* and change back at any time, so each reading of them is a free choice.  *)
(***************************************************************************)
EXTENDS Naturals, FiniteSets

CONSTANTS
    Plans,        \* approved plans (plan ids)
    Tokens,       \* approval tokens
    NoToken,
    TokenPlan,    \* the plan an approval token is bound to
    Expiry,       \* the time a token expires
    Instances,    \* run_instance values, one per run record ever created
    NoInst,
    NoPlan,
    JobIds,       \* job ids the scheduler hands out
    NoJob,
    Dir,          \* Dir[p]: the remote directory of plan p
    Budget,       \* the monitor step's timeout
    MaxTime,      \* bound: the modelled time
    MaxRetries,   \* transport retries of a step (8 in the code)
    MaxReady      \* bound: processes waiting to execute a plan

ASSUME InstAssumption == NoInst \notin Instances
ASSUME PlanAssumption == NoPlan \notin Plans
ASSUME JobAssumption == NoJob \notin JobIds
ASSUME TokenAssumption == /\ NoToken \notin Tokens
                          /\ TokenPlan \in [Tokens -> Plans]
                          /\ Expiry \in [Tokens -> Nat]
ASSUME BoundAssumption == /\ Budget \in Nat \ {0} /\ MaxTime \in Nat
                          /\ MaxRetries \in Nat /\ MaxReady \in Nat

VARIABLES
    run,       \* run[p]: the run record of plan p on disk
    ledger,    \* approvals.json "consumed": token -> run instance
    pc,        \* pc[p]: where the process holding p's run lock is
    op,        \* op[p]: what that process is doing
    tries,     \* tries[p]: transport retries of its current step
    ready,     \* ready[p]: processes about to try the run lock and execute
    home,      \* home[i]: the plan a run record with instance i was created for
    calls,     \* calls[i]: submissions asked of the gateway's client for instance i
    spent,     \* spent[t]: submissions asked of it while the record named token t
    inflight,  \* instances whose submission the scheduler has not answered
    jobInst,   \* jobInst[j]: the instance whose submission became job j
    jobState,  \* jobState[j]: how job j really is
    scheduler, \* the scheduler of the server, for good
    now

disk == <<run, ledger>>
local == <<pc, op, tries, ready>>
sched == <<inflight, jobInst, jobState, scheduler>>
ghost == <<home, calls, spent>>
vars == <<disk, local, ghost, sched, now>>
-----------------------------------------------------------------------------
(* Types *)

Absent == "absent"       \* the phase of a plan without a run record
Phases == {"admitting", "queued", "preparing", "retrying", "submitting",
           "monitoring", "collecting", "blocked", "finished"}
StickyBlocks == {"submit_uncertain", "approval_required", "inputs_changed",
                 "server_changed", "invalid_plan", "invalid_receipt",
                 "monitor_timeout", "step_failed"}
Reasons == StickyBlocks \cup {"transport_error", "auth_required", "launch_failed"}
Terminal == {"COMPLETED", "FAILED"}
\* What job_state answers; "OTHER" is every other word, such as RUNNING.
SchedStates == Terminal \cup {"OTHER", "UNKNOWN"}
\* How a job is; "between" is CONFIGURING or COMPLETING, which Slurm has.
Over == {"completed", "failed"}
Live == {"alive", "between"}
JobStates == Over \cup Live \cup {"none"}
Statuses == {"running", "paused", "needs_review", "failed", "completed"}

Records == [phase : Phases \cup {Absent}, status : Statuses,
            reason : Reasons \cup {"none"},
            token : Tokens \cup {NoToken}, inst : Instances \cup {NoInst},
            prepared : BOOLEAN,          \* mkdir, uploads and validate journalled ok
            intent : BOOLEAN,            \* a submit row is in the journal
            submitAt : Nat,              \* its started_at: there is never a second row
            job : JobIds \cup {NoJob},
            deadline : Nat,              \* monitor_deadline_at, 0 when not set
            observed : SchedStates,      \* scheduler_state
            early : BOOLEAN,             \* history: it said so of a job that was not over
            collected : {"nothing", "downloaded", "parsed"}]

PCs == {"idle", "probe", "activate", "queue", "admit", "start",
        "prepare", "preparing", "submit", "verify", "intent", "call", "await",
        "monitor", "poll", "check", "collect", "collecting", "finish"}
\* "again": enqueue of a run already admitted with the same token; "extend":
\* a resume that extends the monitor; "enqueue": every other admission.
Ops == {"none", "again", "enqueue", "extend", "execute"}

TypeOK ==
    /\ run \in [Plans -> Records]
    /\ ledger \in [Tokens -> Instances \cup {NoInst}]
    /\ pc \in [Plans -> PCs]
    /\ op \in [Plans -> Ops]
    /\ tries \in [Plans -> Nat]
    /\ ready \in [Plans -> Nat]
    /\ home \in [Instances -> Plans \cup {NoPlan}]
    /\ calls \in [Instances -> Nat]
    /\ spent \in [Tokens -> Nat]
    /\ inflight \in SUBSET Instances
    /\ jobInst \in [JobIds -> Instances \cup {NoInst}]
    /\ jobState \in [JobIds -> JobStates]
    /\ scheduler \in {"slurm", "pbs"}
    /\ now \in Nat
-----------------------------------------------------------------------------
(* Reading the record *)

Recorded(p) == run[p].phase # Absent
KnownJob(p) == run[p].job # NoJob
\* Mutant: only a recorded lost answer is uncertain, not a killed worker.
UncertainAnswerOnly(p) == run[p].reason = "submit_uncertain" /\ ~KnownJob(p)
Uncertain(p) == run[p].intent /\ ~KnownJob(p)
Finished(p) == run[p].phase = "finished" \/ run[p].status = "completed"
Expired(t) == Expiry[t] <= now
OwnsToken(p) == ledger[run[p].token] = run[p].inst

\* receipt(): the reasons it may refuse a step of p, and when it may accept.
\* `writes' is for the steps that write to the server or submit.
Refusals(p, writes) ==
    {"server_changed"} \cup
    IF ~OwnsToken(p) THEN {"invalid_receipt"}
    ELSE IF ~writes THEN {}
    ELSE IF Expired(run[p].token) THEN {"approval_required"} ELSE {"inputs_changed"}
Accepts(p, writes) == OwnsToken(p) /\ (writes => ~Expired(run[p].token))

BlockStatus(why) ==
    CASE why = "submit_uncertain" -> "needs_review"
      [] why \in {"step_failed", "inputs_changed", "invalid_plan"} -> "failed"
      [] OTHER -> "paused"
-----------------------------------------------------------------------------
(* Writing the record, moving and leaving the lock *)

Save(p, r) == run' = [run EXCEPT ![p] = r]
Goto(p, point) == /\ pc' = [pc EXCEPT ![p] = point]
                  /\ UNCHANGED <<op, tries, ready>>
\* A new step starts with a fresh retry count.
Enter(p, point) == /\ pc' = [pc EXCEPT ![p] = point]
                   /\ tries' = [tries EXCEPT ![p] = 0]
                   /\ UNCHANGED <<op, ready>>
Release(p) == /\ pc' = [pc EXCEPT ![p] = "idle"]
              /\ op' = [op EXCEPT ![p] = "none"]
              /\ tries' = [tries EXCEPT ![p] = 0]
\* The lock is left and a process will try to execute the run: the caller
\* itself, or the worker it launches.
HandOver(p) == /\ Release(p)
               /\ ready' = [ready EXCEPT ![p] = IF @ < MaxReady THEN @ + 1 ELSE @]

Blocked(r, why) == [r EXCEPT !.phase = "blocked", !.reason = why,
                             !.status = BlockStatus(why)]
BlockWith(p, r, why) == /\ Save(p, Blocked(r, why))
                        /\ Release(p)
                        /\ UNCHANGED <<ledger, ready>>
Block(p, why) == BlockWith(p, run[p], why)
Refuse(p, writes) == \E why \in Refusals(p, writes) : Block(p, why)

\* wait_retry: up to MaxRetries transport failures, then the step blocks.
RetryWith(p, r) == /\ tries[p] < MaxRetries
                   /\ Save(p, [r EXCEPT !.phase = "retrying"])
                   /\ tries' = [tries EXCEPT ![p] = @ + 1]
                   /\ UNCHANGED <<ledger, pc, op, ready>>
TransportFails(p) == \/ RetryWith(p, run[p])
                     \/ tries[p] >= MaxRetries /\ Block(p, "transport_error")
StepFails(p) == \/ TransportFails(p)
                \/ \E why \in {"step_failed", "auth_required"} : Block(p, why)

\* What a step of the lock holder leaves alone.
Elsewhere == <<home, calls, spent, inflight, jobInst, jobState, scheduler, now>>
-----------------------------------------------------------------------------
(* Initially no plan has been run *)

NewRecord(t, i, phase) ==
    [phase |-> phase, status |-> "running", reason |-> "none", token |-> t, inst |-> i,
     prepared |-> FALSE, intent |-> FALSE, submitAt |-> 0, job |-> NoJob, deadline |-> 0,
     observed |-> "UNKNOWN", early |-> FALSE, collected |-> "nothing"]
NoRecord == NewRecord(NoToken, NoInst, Absent)

Init ==
    /\ run = [p \in Plans |-> NoRecord]
    /\ ledger = [t \in Tokens |-> NoInst]
    /\ pc = [p \in Plans |-> "idle"]
    /\ op = [p \in Plans |-> "none"]
    /\ tries = [p \in Plans |-> 0]
    /\ ready = [p \in Plans |-> 0]
    /\ home = [i \in Instances |-> NoPlan]
    /\ calls = [i \in Instances |-> 0]
    /\ spent = [t \in Tokens |-> 0]
    /\ inflight = {}
    /\ jobInst = [j \in JobIds |-> NoInst]
    /\ jobState = [j \in JobIds |-> "none"]
    /\ scheduler \in {"slurm", "pbs"}
    /\ now = 0
-----------------------------------------------------------------------------
(* Admission: enqueue().  The first step takes the lock and saves the      *)
(* record that names the token; _activate then writes the ledger, and only *)
(* then is the run queued.                                                 *)

\* `what' takes p's run lock and continues at `point'.
Take(p, what, point) == /\ pc[p] = "idle"
                        /\ pc' = [pc EXCEPT ![p] = point]
                        /\ op' = [op EXCEPT ![p] = what]
                        /\ UNCHANGED tries

\* verify_token and the replay check against the ledger.
Fresh(p, t) == TokenPlan[t] = p /\ ~Expired(t) /\ ledger[t] = NoInst

\* run: the first execution of p.
EnqueueNew(p, t) ==
    /\ ~Recorded(p) /\ Fresh(p, t)
    /\ \E i \in Instances :
          /\ home[i] = NoPlan
          /\ Save(p, NewRecord(t, i, "admitting"))
          /\ home' = [home EXCEPT ![i] = p]
    /\ Take(p, "enqueue", "activate")
    /\ UNCHANGED <<ledger, ready, calls, spent, inflight, jobInst, jobState, scheduler, now>>

\* run, repeated with the token the run was admitted with (a lost answer).
EnqueueAgain(p) ==
    /\ run[p].phase \in {"admitting", "queued"}
    /\ Take(p, "again", "activate")
    /\ UNCHANGED <<run, ledger, ready, Elsewhere>>

\* resume, or run --force, which also reopens a finished run.
EnqueueExisting(p, what) ==
    /\ Recorded(p)
    /\ Take(p, what, "activate")
    /\ UNCHANGED <<run, ledger, ready, Elsewhere>>
Resume(p) == ~Finished(p) /\ \E what \in {"enqueue", "extend"} : EnqueueExisting(p, what)
ForceRun(p) == EnqueueExisting(p, "enqueue")

\* resume or run --force with another token: the new receipt is saved
\* before its token is consumed.
EnqueueReplacement(p, t) ==
    /\ Recorded(p) /\ Fresh(p, t) /\ t # run[p].token
    /\ \E what \in {"enqueue", "extend"} :
          /\ what = "extend" => ~Finished(p)
          /\ Take(p, what, "activate")
    /\ Save(p, [run[p] EXCEPT !.token = t, !.phase = "admitting"])
    /\ UNCHANGED <<ledger, ready, Elsewhere>>

\* _activate under approvals.lock: an admitting run claims its token, an
\* admitted one must be the token's owner.
Claims(p) == /\ run[p].phase = "admitting"
             /\ ledger[run[p].token] = NoInst
             /\ ~Expired(run[p].token)
             /\ ledger' = [ledger EXCEPT ![run[p].token] = run[p].inst]
             /\ Goto(p, "queue")
             /\ UNCHANGED run
Owns(p) == OwnsToken(p) /\ Goto(p, "queue") /\ UNCHANGED <<run, ledger>>
\* Blocked is saved, except by the enqueue of a run already admitted.
ActivationBlocked(p) ==
    \E why \in {"server_changed", "approval_required"} :
       /\ why = "approval_required" => /\ run[p].phase = "admitting"
                                       /\ ledger[run[p].token] = NoInst
                                       /\ Expired(run[p].token)
       /\ IF op[p] = "again" THEN Release(p) /\ UNCHANGED <<run, ledger, ready>>
          ELSE Block(p, why)
\* "approval token was already used by another execution": an ApprovalError,
\* which enqueue passes on unsaved and execute records as invalid_plan.
UsedByAnother(p) ==
    /\ ~OwnsToken(p)
    /\ ledger[run[p].token] = NoInst => run[p].phase # "admitting"
    /\ IF op[p] = "execute" THEN Block(p, "invalid_plan")
       ELSE Release(p) /\ UNCHANGED <<run, ledger, ready>>
Activate(p) ==
    /\ pc[p] = "activate"
    /\ Claims(p) \/ Owns(p) \/ ActivationBlocked(p) \/ UsedByAnother(p)
    /\ UNCHANGED Elsewhere

\* The end of _activate saves the queued phase.
Queue(p) ==
    /\ pc[p] = "queue"
    /\ Save(p, IF run[p].phase = "admitting" THEN [run[p] EXCEPT !.phase = "queued"]
               ELSE run[p])
    /\ IF op[p] = "again" THEN HandOver(p)
       ELSE Goto(p, IF op[p] = "execute" THEN "start" ELSE "admit")
    /\ UNCHANGED <<ledger, Elsewhere>>

\* The end of enqueue: a run with a known job needs no live approval.
Extended(p) == IF now + Budget < MaxTime THEN now + Budget ELSE MaxTime
Admit(p) ==
    /\ pc[p] = "admit"
    /\ LET writes == ~KnownJob(p) /\ ~Uncertain(p) IN
       \/ Refuse(p, writes)
       \/ Accepts(p, writes) /\ Uncertain(p) /\ Block(p, "submit_uncertain")
       \/ /\ Accepts(p, writes) /\ ~Uncertain(p)
          /\ Save(p, [run[p] EXCEPT !.phase = "queued", !.reason = "none", !.status = "running",
                                    !.deadline = IF op[p] = "extend" /\ KnownJob(p)
                                                 THEN Extended(p) ELSE @])
          /\ HandOver(p)
          /\ UNCHANGED ledger
    /\ UNCHANGED Elsewhere
-----------------------------------------------------------------------------
(* Processes that come to execute a run: launch(), recover(), main()       *)

\* execute() gets the lock and loads the record.
Acquire(p) ==
    /\ ready[p] > 0 /\ pc[p] = "idle"
    /\ ready' = [ready EXCEPT ![p] = @ - 1]
    /\ IF Recorded(p) /\ ~Finished(p) THEN Take(p, "execute", "activate")
       ELSE UNCHANGED <<pc, op, tries>>
    /\ UNCHANGED <<run, ledger, Elsewhere>>

\* The lock is taken: launch() answers already_running, or the worker ends.
LoseRace(p) ==
    /\ ready[p] > 0 /\ pc[p] # "idle"
    /\ ready' = [ready EXCEPT ![p] = @ - 1]
    /\ UNCHANGED <<run, ledger, pc, op, tries, Elsewhere>>

\* The worker process cannot be started.
LaunchFails(p) ==
    /\ ready[p] > 0 /\ pc[p] = "idle" /\ Recorded(p) /\ ~Finished(p)
    /\ ready' = [ready EXCEPT ![p] = @ - 1]
    /\ Save(p, Blocked(run[p], "launch_failed"))
    /\ UNCHANGED <<ledger, pc, op, tries, Elsewhere>>

\* Mutant: recovery passes over runs whose worker was never started.
Started(p) == run[p].phase \notin {Absent, "admitting", "queued", "blocked", "finished"}
Recoverable(p) == /\ Recorded(p) /\ ~Finished(p)
                  /\ ~(run[p].phase = "blocked" /\ run[p].reason \in StickyBlocks)
\* recover() at the start of the UI.
Recover(p) ==
    /\ pc[p] = "idle" /\ Recoverable(p) /\ ready[p] < MaxReady
    /\ ready' = [ready EXCEPT ![p] = @ + 1]
    /\ UNCHANGED <<run, ledger, pc, op, tries, Elsewhere>>

\* alive(): a status request, a launch or a recovery tries the lock, and so
\* holds it for a moment.
ProbeBegin(p) == Take(p, "none", "probe") /\ UNCHANGED <<run, ledger, ready, Elsewhere>>
ProbeEnd(p) == pc[p] = "probe" /\ Release(p) /\ UNCHANGED <<run, ledger, ready, Elsewhere>>

\* The process that holds the lock dies, or one that was about to try it.
Crash(p) == /\ pc[p] # "idle"
            /\ Release(p) /\ UNCHANGED <<run, ledger, ready, Elsewhere>>
CrashReady(p) == /\ ready[p] > 0
                 /\ ready' = [ready EXCEPT ![p] = @ - 1]
                 /\ UNCHANGED <<run, ledger, pc, op, tries, Elsewhere>>

\* The user deletes the run record of a plan nothing is working on.
DeleteRecord(p) == /\ Recorded(p) /\ pc[p] = "idle"
                   /\ Save(p, NoRecord)
                   /\ UNCHANGED <<ledger, local, Elsewhere>>
-----------------------------------------------------------------------------
(* Execution: execute() and execute_steps().  A step checks the receipt,   *)
(* journals its start, checks the receipt again and runs.                  *)

\* A known job is only monitored, and what is journalled ok is not repeated.
FirstStep(p) == IF KnownJob(p) THEN "monitor"
                ELSE IF run[p].prepared THEN "submit" ELSE "prepare"
\* A new attempt.
Start(p) ==
    /\ pc[p] = "start"
    /\ \/ Refuse(p, FALSE)
       \/ Accepts(p, FALSE) /\ Uncertain(p) /\ Block(p, "submit_uncertain")
       \/ /\ Accepts(p, FALSE) /\ ~Uncertain(p)
          /\ Save(p, [run[p] EXCEPT !.reason = "none", !.status = "running"])
          /\ Enter(p, FirstStep(p))
          /\ UNCHANGED ledger
    /\ UNCHANGED Elsewhere

\* The start of any step but submit is journalled with its phase.
Begin(p, point, phase, writes, next) ==
    /\ pc[p] = point
    /\ \/ Refuse(p, writes)
       \/ /\ Accepts(p, writes)
          /\ Save(p, [run[p] EXCEPT !.phase = phase])
          /\ Enter(p, next)
          /\ UNCHANGED ledger
    /\ UNCHANGED Elsewhere
BeginPrepare(p) == Begin(p, "prepare", "preparing", TRUE, "preparing")
BeginMonitor(p) == Begin(p, "monitor", "monitoring", FALSE, "poll")
BeginCollect(p) == Begin(p, "collect", "collecting", FALSE, "collecting")

\* mkdir, upload and validate: idempotent, so they may be retried.
Prepare(p) ==
    /\ pc[p] = "preparing"
    /\ \/ Refuse(p, TRUE)
       \/ Accepts(p, TRUE) /\ StepFails(p)
       \/ /\ Accepts(p, TRUE)
          /\ Save(p, [run[p] EXCEPT !.prepared = TRUE])
          /\ Enter(p, "submit")
          /\ UNCHANGED ledger
    /\ UNCHANGED Elsewhere

\* submit: nothing is submitted twice ...
BeginSubmit(p) ==
    /\ pc[p] = "submit"
    /\ \/ Refuse(p, TRUE)
       \/ Accepts(p, TRUE) /\ (KnownJob(p) \/ Uncertain(p)) /\ Block(p, "submit_uncertain")
       \/ /\ Accepts(p, TRUE) /\ ~KnownJob(p) /\ ~Uncertain(p)
          /\ Save(p, [run[p] EXCEPT !.phase = "preparing"])
          /\ Enter(p, "verify")
          /\ UNCHANGED ledger
    /\ UNCHANGED Elsewhere

\* ... the remote inputs are compared with the approved ones ...
VerifyRemote(p) ==
    /\ pc[p] = "verify"
    /\ \/ Refuse(p, TRUE)
       \/ /\ Accepts(p, TRUE)
          /\ \/ TransportFails(p)
             \/ \E why \in {"inputs_changed", "auth_required"} : Block(p, why)
             \/ Enter(p, "intent") /\ UNCHANGED <<run, ledger>>
    /\ UNCHANGED Elsewhere

\* Mutant: the submission is journalled only by its answer.
PhaseOnly(p) == [run[p] EXCEPT !.phase = "submitting", !.submitAt = now]
SubmitRow(p) == [run[p] EXCEPT !.phase = "submitting", !.intent = TRUE, !.submitAt = now]
\* ... and the intent is on disk before the scheduler hears of it.
JournalSubmit(p) == /\ pc[p] = "intent"
                    /\ Save(p, SubmitRow(p))
                    /\ Enter(p, "call")
                    /\ UNCHANGED <<ledger, Elsewhere>>

CallScheduler(p) ==
    /\ pc[p] = "call"
    /\ \/ Refuse(p, TRUE) /\ UNCHANGED Elsewhere
       \/ /\ Accepts(p, TRUE)
          /\ calls' = [calls EXCEPT ![run[p].inst] = @ + 1]
          /\ spent' = [spent EXCEPT ![run[p].token] = @ + 1]
          /\ inflight' = inflight \cup {run[p].inst}
          /\ Goto(p, "await")
          /\ UNCHANGED <<run, ledger, home, jobInst, jobState, scheduler, now>>

AnswerUnusable(p) == Block(p, "submit_uncertain")
\* The answer carries the job's id, or it is lost, an error, or without a
\* usable id: then only a person can tell what happened.
SubmitAnswered(p) ==
    /\ pc[p] = "await"
    /\ \/ \E j \in JobIds : /\ jobInst[j] = run[p].inst
                            /\ Save(p, [run[p] EXCEPT !.job = j])
                            /\ Enter(p, "monitor")
                            /\ UNCHANGED ledger
       \/ AnswerUnusable(p)
    /\ UNCHANGED Elsewhere

\* One query of monitor().  The deadline is fixed by the first one, from the
\* time of the submission.
\* Mutant: the deadline counts from the restart.
DeadlineFromNow(p) == IF run[p].deadline # 0 THEN run[p].deadline ELSE now + Budget
DeadlineOf(p) == IF run[p].deadline # 0 THEN run[p].deadline ELSE run[p].submitAt + Budget
\* It was said to be over too early.
Early(p, s) == s \in Terminal /\ jobState[run[p].job] \notin Over
Observed(p, s) == [run[p] EXCEPT !.deadline = DeadlineOf(p), !.phase = "monitoring",
                                 !.observed = s, !.early = Early(p, s)]
QueryFails(p) ==
    LET r == [run[p] EXCEPT !.deadline = DeadlineOf(p)] IN
    \/ \E why \in {"auth_required", "transport_error"} : BlockWith(p, r, why)
    \/ /\ tries[p] < MaxRetries /\ now >= r.deadline
       /\ BlockWith(p, r, "monitor_timeout")
    \/ now < r.deadline /\ RetryWith(p, r)
\* op_job_state and normalize_state: Slurm's CONFIGURING and COMPLETING are answered
\* as COMPLETED; of its ends BOOT_FAIL and DEADLINE are none to the monitor.  A job
\* that PBS calls finished is COMPLETED, however it ended.  No answer is UNKNOWN.
Words(state) ==
    {"UNKNOWN"} \cup
    CASE state = "between" -> {"COMPLETED"}
      [] state = "completed" -> {"COMPLETED"}
      [] state = "failed" -> IF scheduler = "slurm" THEN {"FAILED", "OTHER"} ELSE {"COMPLETED"}
      [] OTHER -> {"OTHER"}

Poll(p) ==
    /\ pc[p] = "poll"
    /\ \/ Refuse(p, FALSE)
       \/ Accepts(p, FALSE) /\ QueryFails(p)
       \/ \E s \in Words(jobState[run[p].job]) :
             /\ Accepts(p, FALSE)
             /\ IF s \notin Terminal /\ now >= DeadlineOf(p)
                THEN BlockWith(p, Observed(p, s), "monitor_timeout")
                ELSE /\ Save(p, Observed(p, s))
                     /\ Enter(p, IF s \in Terminal THEN "check" ELSE "poll")
                     /\ UNCHANGED ledger
    /\ UNCHANGED Elsewhere

\* verify_results: what was downloaded earlier must still be there.
VerifyResults(p) ==
    /\ pc[p] = "check"
    /\ \/ run[p].collected # "nothing" /\ Block(p, "step_failed")
       \/ /\ Enter(p, IF run[p].collected = "parsed" THEN "finish" ELSE "collect")
          /\ UNCHANGED <<run, ledger>>
    /\ UNCHANGED Elsewhere

\* progress and download, then parse.
Collect(p) ==
    /\ pc[p] = "collecting"
    /\ \/ Refuse(p, FALSE)
       \/ Accepts(p, FALSE) /\ StepFails(p)
       \/ /\ Accepts(p, FALSE)
          /\ LET got == IF run[p].collected = "nothing" THEN "downloaded" ELSE "parsed" IN
             /\ Save(p, [run[p] EXCEPT !.collected = got])
             /\ Enter(p, IF got = "parsed" THEN "finish" ELSE "collect")
          /\ UNCHANGED ledger
    /\ UNCHANGED Elsewhere

\* The conclusion: completed needs the scheduler's word and convergence.
\* Mutant: convergence alone decides.
ConvergedIsEnough(observed) == {"completed", "needs_review"}
Conclusions(observed) ==
    CASE observed = "COMPLETED" -> {"completed", "needs_review"}
      [] observed = "FAILED" -> {"failed"}
      [] OTHER -> {"needs_review"}
Finish(p) ==
    /\ pc[p] = "finish"
    /\ \E verdict \in Conclusions(run[p].observed) :
          Save(p, [run[p] EXCEPT !.phase = "finished", !.reason = "none", !.status = verdict])
    /\ Release(p)
    /\ UNCHANGED <<ledger, ready, Elsewhere>>
-----------------------------------------------------------------------------
(* A person finds the job of an uncertain submission: bind_job()           *)

Bindable(p) == Recorded(p) /\ Uncertain(p)
Evidence(p, j) == jobInst[j] # NoInst /\ Dir[home[jobInst[j]]] = Dir[p]
Bind(p, j) ==
    /\ pc[p] = "idle" /\ Bindable(p) /\ Accepts(p, FALSE) /\ Evidence(p, j)
    /\ \A q \in Plans \ {p} : run[q].job # j
    /\ \E s \in Words(jobState[j]) \ {"UNKNOWN"} :
          Save(p, [run[p] EXCEPT !.job = j, !.observed = s, !.phase = "queued",
                                 !.reason = "none", !.status = "running"])
    /\ HandOver(p)
    /\ UNCHANGED <<ledger, Elsewhere>>
-----------------------------------------------------------------------------
(* The scheduler and the clock *)

\* A submission is accepted, perhaps after its caller gave up or died.
Accept(i) ==
    /\ i \in inflight
    /\ \E j \in JobIds : /\ jobInst[j] = NoInst
                         /\ jobInst' = [jobInst EXCEPT ![j] = i]
                         /\ jobState' = [jobState EXCEPT ![j] = "alive"]
    /\ inflight' = inflight \ {i}
    /\ UNCHANGED <<disk, local, ghost, scheduler, now>>
Reject(i) ==
    /\ i \in inflight
    /\ inflight' = inflight \ {i}
    /\ UNCHANGED <<disk, local, ghost, jobInst, jobState, scheduler, now>>
\* A job is configured, runs, completes, may be put back into the queue, and ends.
JobMoves(j) ==
    /\ jobState[j] \in Live
    /\ \E s \in Over \cup IF scheduler = "slurm" THEN Live \ {jobState[j]} ELSE {} :
          jobState' = [jobState EXCEPT ![j] = s]
    /\ UNCHANGED <<disk, local, ghost, inflight, jobInst, scheduler, now>>
Tick == /\ now < MaxTime
        /\ now' = now + 1
        /\ UNCHANGED <<disk, local, ghost, sched>>
-----------------------------------------------------------------------------
Admission(p) == \/ \E t \in Tokens : EnqueueNew(p, t) \/ EnqueueReplacement(p, t)
                \/ EnqueueAgain(p) \/ Resume(p) \/ ForceRun(p)
                \/ \E j \in JobIds : Bind(p, j)
\* The steps of whichever process holds p's run lock.
HolderStep(p) == \/ Activate(p) \/ Queue(p) \/ Admit(p) \/ ProbeEnd(p)
                 \/ Start(p) \/ BeginPrepare(p) \/ Prepare(p)
                 \/ BeginSubmit(p) \/ VerifyRemote(p) \/ JournalSubmit(p)
                 \/ CallScheduler(p) \/ SubmitAnswered(p)
                 \/ BeginMonitor(p) \/ Poll(p) \/ VerifyResults(p)
                 \/ BeginCollect(p) \/ Collect(p) \/ Finish(p)
Process(p) == \/ Acquire(p) \/ LoseRace(p) \/ LaunchFails(p) \/ Recover(p)
              \/ ProbeBegin(p) \/ Crash(p) \/ CrashReady(p) \/ DeleteRecord(p)
Scheduler == \/ \E i \in Instances : Accept(i) \/ Reject(i)
             \/ \E j \in JobIds : JobMoves(j)

Next == \/ \E p \in Plans : Admission(p) \/ HolderStep(p) \/ Process(p)
        \/ Scheduler \/ Tick
Spec == Init /\ [][Next]_vars

(* Fairness: the process that holds a lock keeps running (a poll of the    *)
(* scheduler need not be answered with news before the deadline), time     *)
(* passes, a process waiting to execute a plan is scheduled, and the UI,   *)
(* which recovers what it finds at its start, is started again and again.  *)
Due(p) == HolderStep(p) /\ (pc[p] = "poll" => now >= DeadlineOf(p))
Fairness == /\ WF_vars(Tick)
            /\ \A p \in Plans : WF_vars(Due(p)) /\ SF_vars(Acquire(p)) /\ SF_vars(Recover(p))
FairSpec == Spec /\ Fairness
-----------------------------------------------------------------------------
(* Safety *)

\* The gateway's client is told to submit at most once per run instance, whatever
\* crashes, lost answers, resumes, forced runs and restarts come in between.  (What
\* the client makes of one such call, even twice the same, is in RemoteCalls.)
AtMostOneSubmission == \A i \in Instances : calls[i] <= 1

\* An approval token buys at most one such call, even when the run record it
\* was used for is deleted and the plan run again.
TokenBuysOneSubmission == \A t \in Tokens : spent[t] <= 1

\* Whatever the scheduler may have of a run, the record on disk says that a
\* submission was under way: a crash cannot make the job unknown.
SubmissionRemembered ==
    \A p \in Plans : (run[p].inst \in inflight \/ \E j \in JobIds : /\ jobInst[j] # NoInst
                                                                    /\ jobInst[j] = run[p].inst)
                     => run[p].intent

\* Every submission was made for an instance that consumed an approval token
\* of its own plan.
SubmissionsApproved ==
    \A i \in Instances : calls[i] > 0 =>
        \E t \in Tokens : ledger[t] = i /\ TokenPlan[t] = home[i]

\* The job a run follows is a job of its own directory.
JobIsOurs == \A p \in Plans : KnownJob(p) =>
    jobInst[run[p].job] # NoInst /\ Dir[home[jobInst[run[p].job]]] = Dir[p]

\* "A known job is never prepared/submitted a second time": nobody is at a
\* writing step of a run whose submission has been journalled.
NoRepeatedWrites ==
    \A p \in Plans :
       /\ pc[p] \in {"prepare", "preparing", "submit", "verify", "intent"} => ~run[p].intent
       /\ pc[p] \in {"call", "await"} => ~KnownJob(p)

\* Restarts do not stretch the monitor: its deadline is set once, counted
\* from the submission, and moves only when a person extends it.
MonitorBudgetKept ==
    [][\A p \in Plans : run'[p].phase # Absent /\ run'[p].deadline # run[p].deadline =>
          \/ op[p] = "extend"
          \/ run[p].deadline = 0 /\ run'[p].deadline = run[p].submitAt + Budget]_vars

\* A finished run followed its job to the end, unless Slurm was asked while it
\* configured or completed the job, which is taken for an end (rsci_gateway.py:725,
\* against spec/workflows.md:47).  It says failed only of a job that failed, and,
\* where the scheduler tells how a job ended, completed of no job that failed.
FinishedTruthfully ==
    \A p \in Plans : run[p].phase = "finished" =>
        LET job == run[p].job
            wrong == scheduler = "slurm" /\ run[p].early
        IN  /\ KnownJob(p) /\ (jobState[job] \in Over \/ wrong)
            /\ run[p].status = "failed" => jobState[job] = "failed"
            /\ run[p].status = "completed" /\ jobState[job] = "failed" =>
                  scheduler = "pbs" \/ wrong

\* The engine is a one-shot effect gated by grants: see OneShot.
Approved == INSTANCE OneShot WITH Grants <- Tokens, Actors <- Instances,
                                  NoActor <- NoInst, owner <- ledger, fired <- calls
ApprovedOnce == Approved!Spec
-----------------------------------------------------------------------------
(* Liveness *)

\* When processes stop dying, an admitted run is finished or blocked at last.
Crashes == \E p \in Plans : Crash(p) \/ CrashReady(p)
Settles ==
    <>[][~Crashes]_vars =>
    \A p \in Plans : run[p].phase \in {"admitting", "queued"} ~>
                     run[p].phase \in {"finished", "blocked", Absent}
=============================================================================
