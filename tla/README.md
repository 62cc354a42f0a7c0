# VASPilot in TLA+

A verification project for rsci / VASPilot, the assistant that prepares,
approves, submits, monitors and collects VASP calculations on remote clusters.
The modules here model the parts of `src/src/rsci`, and the workspace gateway
beside it, in which something can be lost, done twice or wrongly reported:
under crashes, lost answers, concurrent processes and expiring approvals.  TLC
checks them on small instances, and TLAPS proves the most important results of
most of them for every instance (section 12).

## 1. Inventory: the system's parts

| part | state it keeps | operations | what is hard | module |
|---|---|---|---|---|
| **workflow task execution** `workflow/tasks.py`, `worker.py` | the run record `runs/<plan>.json`, the run lock | enqueue, resume, run --force, execute, launch, recover, bind_job | a crash between any two saves; a lost answer; several processes after one lock; an approval that expires half-way | `WorkflowTasks` |
| **approval ledger, plans** `workflow/engine.py`, `approval.py`, `plan.py` | `approvals.json`, the plans | preview, prepare, approve, verify, consume, list | two files written one after the other; replay with a deleted record | `WorkflowTasks`, `PlanCenter` |
| **pending submit cards** `workflow/pending.py`, `ui/server.py` | `pending_submits.json` | create, claim, finish, settle, regenerate, expire, prune | a card confirmed twice, or while it expires; a corrupt file; pruning | `PendingSubmits` |
| **campaigns** `workflow/campaign.py` | `campaigns/<id>.json` | start, tick, abort, poll of cancellations | an error after the scheduler accepted; abort against a running job; a lock of one process | `Campaigns` |
| **local python** `workflow/local_python.py` | result file, supervisor lock, intent in the run record | execute, supervise, read_result | a supervisor that outlives its worker, and the other way round | `LocalPython` |
| **result collections** `hpc/collections.py` | collection record, cancel marker, receipts, published files | create, execute, cancel, resume | verify, receipt and publication are separate steps; cancel against resume | `Collections` |
| **research projects** `workflow/projects.py`, `research.py` | the index of projects, their files | create, rename, delete, edit | directory and index are two writes; an editor whose project is renamed | `ProjectFiles` |
| **job center, job history** `hpc/center.py`, `core/jobhistory.py` | rows and entries of jobs | refresh, record, associate, observe, prune | late listings; reused ids; missing is not ended | `JobRecords` |
| **VASP input and output** `hpc/vasp.py`, `domains/*` | none | check inputs, read progress | two readers of the same files; files read while they are written | `VaspInputs`, `VaspProgress` |
| **evidence of jobs** `hpc/submission.py`, `evidence.py`, `joblogs.py` ... | none | which logs, which verdict, which repair | several jobs in one directory; probes that fail | `JobEvidence` |
| **gateway client, transport, remote gateway** `gateway/*` | sessions, back-off, trash, uploads, helpers | run an operation, restore the session, install the helper | an operation sent twice; an installation whose answer is lost | `RemoteCalls`, `GatewayHelper` |
| **servers and logins** `gateway/client.py`, `core/config.py`, `ui/server.py` | the gateway's catalogue, its mirror, the saved logins | add, edit, rename, remove, refresh | one edit is several calls; a refresh under way | `ServerCatalog` |
| **workspace gateway** `src/gateway/huwei-workspace-gateway` | `state.json`, mounts, write-back caches | open, status, close, recover, cleanup | a command killed half-way; writes not uploaded yet | `Workspaces` |
| **metrics** `core/metricsstore.py`, `remotemon.py` | history of each server, the daemon's heartbeat | poll, fetch, install, remove | the daemon measures only while nobody looks; order of polls and fetches | `MetricsHistory` |
| **agent runtime, chat** `agents/*`, `ui/server.py` | sessions, slots, registry, stop flags | ask, stop, delete, compact | a stop against the next question; a request sent again | `ChatTurns` |
| **tools, MCP, skills** `tools/*`, `mcp/server.py`, `agents/skills.py` | skills, terminals | offer, dispatch, refuse | which tool may do what in which mode | `AgentTools` |
| locks and atomic JSON `core/locking.py`, `jsonio.py` | lock files | exclusive and try-once locks | released by the kernel when the holder dies | where they are used |
| providers, VASPKIT, CLI, desktop, editor bridge | none of their own | streaming, wrapping, text | - | section 13 |

Interactions.  The UI, the CLI and the MCP server call the engine, which calls
`WorkflowTasks`; workers are separate processes started by `launch` and talk to
the UI only through the run record and the run lock.  The agent's tools ask for
approval by a card, a plan or a campaign.  Every operation on a cluster goes
through the gateway client, and its answer may be lost after it has acted.
What the center and the ledger show of a job comes from the same listings the
runner and the campaigns poll.

### What makes the parts correct

* task execution: one call of the client's submit per run instance and per approval token,
  whatever crashes or retries; no submission forgotten; the monitor's budget
  kept over restarts; every admitted run finished or blocked, and truthfully (as
  far as the scheduler's words are, see below).
* cards: one call of the client's submit per confirmed card; accepted jobs not lost.
* campaigns: a stage begun once, and only on converged results; the
  verdicts true; nothing started after an abort; a campaign ends when its jobs do.
* local python: the script runs once; "completed" and "uncertain" are true.
* collections: what is published is what was chosen; a stop stops.
* projects: an identity stays with its directory; an edit that states what it has
  read overwrites nobody's.
* jobs: nothing is shown as ended that runs; an end that is shown stays.
* remote calls: an operation that is sent again takes effect once, if the client's
  own connection held.
* servers: no edit loses a server or its login; the mirror converges.
* workspaces: a write that is not uploaded is never forgotten.
* chat: a question is begun once, and a stop reaches the answer it is meant for.

## 2. Plan

| order | modules | status |
|---|---|---|
| 1 | `OneShot` (abstract), `WorkflowTasks`, `WorkflowTasksProofs` | done |
| 2 | `PendingSubmits`, `PendingSubmitsProofs`, implementing `OneShot` | done |
| 3 | `StagedPlan` (abstract), `Campaigns`, `CampaignsProofs` | done |
| 4 | `RemoteCalls`, `GatewayHelper`: the retry of a command, and the helper it needs | done |
| 5 | `Delivery` (abstract), `Collections`, `ProjectFiles` | done |
| 6 | `LocalPython` | done |
| 7 | `JobRecords`, `VaspInputs`, `VaspProgress`, `JobEvidence` | done |
| 8 | `ServerCatalog`, `Workspaces`, `MetricsHistory` | done |
| 9 | `ChatTurns`, `AgentTools`, `PlanCenter` | done |
| 10 | `LocalPythonProofs`, `ChatTurnsProofs`, `CollectionsProofs` (with the refinement and the projects), `RemoteCallsProofs` (with the helper), `WorkspacesProofs` (with the metrics); `MonitorBudgetKept` and `FinishedTruthfully` of the core | done |
| 11 | the last two, in `PendingSubmitsProofs`: `EndedTruly`, `AssociationFits` and `EndsStay` of `JobRecords`, `LoginKept` of `ServerCatalog` | done |
| 12 | `TailsTellTheRun` of `VaspProgress`, in `CollectionsProofs` | done |
| 13 | the rest: file operations of the gateway (copy, move, archives), the scheduler's parsers and the job script's header, the recipes of campaigns, the signing key and the other settings, the audit log | planned |

### How modules share runs

A run belongs to one question, but some components are small.  Such a component
is checked beside a larger one: the MC module of the larger one instantiates it
with variables of its own, the variable `part` says at the start which of them a
behaviour is about, and the others stay as they began.  Nothing is abstracted by
this: the reachable states are those of the one and of the other.  The MC module
gives the properties of the guest their names again, and the theorems about a guest
are about its own specification.

Modules without state (`AgentTools`, `PlanCenter`, `VaspInputs`, `JobEvidence`)
are operators; what is claimed of them are the assumptions in the MC modules,
which TLC evaluates over all small inputs before the run begins.  Where the
code differs from what a reader would expect, an assumption of the form "there
is an input such that" shows it.

Each module with state has a `TypeOK`.  Where a component is proved, it is proved
too; the runs leave it out, since what they check says more, and any
configuration can name it.

A comment "Mutant:" above a definition marks a variant of the definition after it,
with the mistake the properties are there to catch; no action uses it.

## 3. Workflow task execution

### State and actions

`WorkflowTasks` has one record per plan (`run`), the ledger (`ledger`), and for
each plan the position of the one process that holds its run lock (`pc`, `op`,
`tries`) with the number of processes about to try it (`ready`).  Since the
holder saves its whole copy after each change, `run` is both its memory and the
file.  A step ends at one durable write, and `Crash` may fall between any two.
`home`, `calls` and `spent` are history variables of the properties; the
scheduler (`inflight`, `jobInst`, `jobState`, and which of the two it is,
`scheduler`) and the clock are external.  A job of Slurm may be "between": CONFIGURING
or COMPLETING.  `early` of a record is history, too: the last word about its job was
said before the job's end.

| actions | code |
|---|---|
| `EnqueueNew`, `EnqueueAgain`, `Resume`, `ForceRun`, `EnqueueReplacement` | the branches of `WorkflowTasks.enqueue` up to `_activate` |
| `Activate` (`Claims`, `Owns`, `ActivationBlocked`, `UsedByAnother`), `Queue` | `_activate`: the ledger write and the save of the phase |
| `Admit` | the rest of `enqueue`; the caller then executes, or launches a worker (`HandOver`) |
| `Acquire`, `LoseRace`, `LaunchFails`, `Recover`, `ProbeBegin`, `ProbeEnd` | `execute`'s lock, `worker.main`, `launch`, `recover`, `alive` |
| `Start`, `Begin*`, `Prepare`, `VerifyRemote`, `JournalSubmit`, `CallScheduler`, `SubmitAnswered`, `Poll`, `VerifyResults`, `Collect`, `Finish` | `execute`, `execute_steps`, `step`, `monitor`, `verify_results` |
| `Bind` | `bind_job` |
| `Words` in `Poll` and `Bind` | `op_job_state` with `normalize_state`: COMPLETED of a job that is between, no known end of one that ended as BOOT_FAIL or DEADLINE, and under PBS COMPLETED of every finished job |
| `Accept`, `Reject`, `JobMoves`, `Tick`, `Crash`, `CrashReady`, `DeleteRecord` | the environment |

Abstractions.  mkdir, the uploads and validate are idempotent and make one
`Prepare` step; progress with download, and parse, are the two checkpoints of
`Collect`.  The readings of local files, of the server entry and of remote
hashes are free choices at every check (they may change and change back).
`DeleteRecord` happens only while nobody holds the run lock.  A crash between
the two saves of a failed submission is the crash before the first of them.
`CallScheduler` is one call of `client.submit`, which has one answer.  The client
sends it again by itself when its connection breaks with a message that it takes for
a missing session, and then the first job is known to nobody (section 9, finding
`remote_broken`): what is said here of submissions is said of these calls.

### Runs

The clock, the run instances and the job ids
are bounded, so the model really stops in the end and deadlock is not checked.

| run | instance | checks |
|---|---|---|
| `tasks_replay` | 1 plan, 2 tokens that expire at 1 and 2, 2 run records, 2 jobs, time to 2, 1 retry, either scheduler | `AtMostOneSubmission`, `SubmissionRemembered`, `FinishedTruthfully`, `MonitorBudgetKept` |
| `server_and_run_settle`, one half | 1 plan, 1 token, 1 job, time to 3, either scheduler | `Settles` |

Why the bounds suffice.  Two tokens are needed for a replacement approval, two
instances for a deleted and recreated record, two jobs for a job that is not
the run's; time 2 lets the first approval expire, the second expire after it,
and the monitor's budget (1) run out; one retry reaches both the retry and its
exhaustion (8 in the code).  One waiting process at a time reaches the races
for the lock between it, the holder and a probe.

Fairness (`FairSpec`).  The process that holds a lock runs on (weak fairness of
its steps; a poll need not learn anything before the deadline), time passes, a
process that waits for a free lock gets it if it is free again and again (strong
fairness: `try_file_lock` does not wait, but the UI launches and recovers
again), and the UI is started again and again (`Recover`).  No fairness is
assumed of the scheduler, of people or of crashes; `Settles` assumes that
crashes come to an end.  The run's other half is `ServerCatalog` (section 10); its
fairness conditions are joined in pairs, one of either half, which changes nothing
because the two halves are different behaviours.

`FinishedTruthfully` says what a finished run may be relied on for: its job is over,
"failed" is said only of a job that failed, and, with Slurm, "completed" of no such
job (PBS does not tell).  It excepts a run whose last word from Slurm was said while the job was CONFIGURING or
COMPLETING (`early`): the gateway calls both COMPLETED (`rsci_gateway.py:725`), and
the run is concluded while its job lives, against `spec/workflows.md:47`.  That this
happens is the finding `job_records_slurm` (section 8).

### Known limits

1. Every probe of `alive()` takes the run lock itself.  A worker that meets it
   exits with 0, and the queued run waits for the next start of the UI.  The
   comment at `worker.py:105` says "Losing a launch race is expected. The owner
   keeps running."
2. A replacement token is saved before it is consumed (`tasks.py:170`, 247-251);
   if the process dies in between and the token expires, a run whose job is known
   cannot be observed without another approval, although `engine.py:13` says
   "known jobs can be observed and collected after the original approval expires".
3. `bind_job` looks at the saved records of other runs (`tasks.py:621`), but a
   submission in flight has no job id yet and does not take `bindings.lock`: two
   plans in one directory may follow one job, which the refusal at 628 is there
   to prevent.

### Proofs

`WorkflowTasksProofs` proves, from the assumptions named in `WorkflowTasks`
(distinct "none" values, tokens bound to plans, natural bounds), the invariant
`IInv` and from it `TypeOK`, `AtMostOneSubmission`, `TokenBuysOneSubmission`,
`SubmissionsApproved`, `SubmissionRemembered`, `NoRepeatedWrites`, `JobIsOurs`,
and that the engine implements `OneShot`.

None of these is inductive alone.  "At most one submission" needs that an
instance belongs to one plan's record at a time, that `calls` is 0 until the
record says `intent`, and that a process past `intent` owns its token; that in
turn needs that the ledger is never overwritten.  `IInv` is the conjunction of
those facts, each named for its role; every action preserves it by one step of
the proof, which names the conjuncts the action can disturb.

`FinishedTruthfully` needs a second invariant, `FInv`: past the monitor the record
has the scheduler's last word on the run's job, true or marked as early, and a job
that has ended does not change.  `MonitorBudgetKept` follows from the same account of what one step
may make of a record (`Follows`).

Only model-checked: `Settles`, which is out of the prover's reach.

### Plans, tokens and what is shown of them

`PlanCenter` has the engine around the runner as operators: `Preview` and
`PythonPlan` (which plan is made of a request), `Prepare` (a plan is saved under
the head of its hash, once), `Approve` and `ApproveSubmit` with `VerifyToken` and
`VerifySubmit`, and `Status` and `ListPlans`.  Hashes are values that differ when
their inputs do; an HMAC is its key.  The assumptions in `MCWorkflowTasks` say:
a plan is of the kind of its project, and a Python plan reads nothing it
writes; preparing again changes nothing, and another plan under the same head is
refused; a token opens exactly what it was minted for, under its key, until it
expires; the status of a good plan and its row in the list agree, and every
file has a row.

Observations.  The row of a damaged plan hides the job that `status` shows of
the same run ("A damaged/missing plan must not hide the last persisted job
result" is said of `status` only); `status` raises on a run file the list shows as
invalid.

## 4. Submissions a person confirms

### State and actions

`PendingSubmits` has the entries of `pending_submits.json` (`cards`: status,
digest of the frozen script, the expired card it replaces), the handlers of the
UI (`at`, `held` and the digest they `read`), the remote `script`, submissions
the scheduler has not answered (`inflight`), has `accepted`, and the `center`
has recorded.  `claimed`, `calls` and `ran` are history variables.

| actions | code |
|---|---|
| `Create`, `List` | `_submit` of the tools and `create`; the listings, which expire cards |
| `Confirm`, `Reject`, `Check`, `Claim`, `Submit`, `Answer`, `FinishAccepted`, `FinishUncertain` | `_confirm_submit` with `get`, `settle`, `claim`, `finish_submission`, and `client.submit` with `record_submission` |
| `AskReissue`, `Recheck`, `Reissue` | `_regenerate_submit` with `get` and `regenerate` |
| `Refresh` | the center's `_load`, which takes over receipts, and its save |
| `Accept`, `Refuse`, `Edit`, `Lapse`, `Crash` | the scheduler, the cluster's users, the clock, the death of a thread |

An operation of the store holds a file lock from its load to its save and is
one step.  The variable `faults` is what may go wrong in a behaviour: it is any
subset at the start and never changes.  `Saved` and `Swept` are `_save` with its
pruning and `_expire`; `Loads` is the tolerant `_load`, which takes a file it
cannot read for an empty one (fault "read").  Fault "record" is a center that
cannot record, whether for an error of its file or because the server's
identity has changed.

Abstractions.  Cards are numbered in the order of their creation, which is the
order pruning uses.  `due` stands for the clock.  A submission is named by its
card, since a card pays for one at most.  Left out: the notes to the chat, the
seeding of the job ledger (it is in `JobRecords`), the center's limit of 500
rows, the legacy `approval_ref` and the "auto" mode of `_submit` (they are in
`AgentTools`).  A crash is the death of a thread; the loss of completed writes
with the power is not modelled.

### Run

`console_records`: 2 cards, a store that keeps 1, 2 handlers, 2 scripts, any faults;
`OneCallPerCard`, `NoHiddenAttempt`, `SubmissionTraceable`.  Its guests are what else
the console keeps of servers: `JobRecords` (section 8) and `ServerCatalog` (section
10).  Two cards and a store
of one make pruning happen on every kind of card; two handlers make every race
for one card; the proofs cover the rest.  The number of cards is bounded and
handlers may rest for ever, so deadlock is not checked; there is no liveness to
check either, since every step waits for a person or an answer.

`SubmissionTraceable` names the faults it excludes, because it fails under them:
after a failed read `create` replaces the whole store by its new card, and an
approved card the center could not record may be pruned before a refresh takes
its receipt over.

### Known limits

1. The digest is compared before the claim and the submission
   (`server.py:1720`); the scheduler may take another script.  `pending.py:5`
   says "Approving executes exactly the frozen parameters".
2. An expired card can be regenerated twice (`pending.py:196`), and both fresh
   cards are submitted; nothing relates them.  The message at `server.py:1703`
   says that a repeated submission has been prevented.

### Proofs

`PendingSubmitsProofs` proves, for any numbers of cards and handlers, any
pruning limit and any faults, `TypeOK`, `OneCallPerCard`, `NoHiddenAttempt` and
that the store implements `OneShot`.  The strengthening is `StatusFits`: before
its one claim a card is absent, pending, rejected or expired, and afterwards an
attempt or absent; `Ready` and `Alone` say that only the thread that claimed a
card is about to send it.  Pruning, expiry and unreadable files are dealt with
once, by `Milder`: they drop a card or expire a pending one, and never lead
back to pending.  `OpenAttemptsKept` follows from what one step may do to a card
(`Turns`), and `SubmissionTraceable` from the further invariant `Traced`: without
faults a claimed card is an attempt or in the center, and an approved one is in
the center.

### The tools that ask for submissions

`AgentTools` is the table of the tools: for each the kind under which it is
offered, the arguments its handler needs, and its effects (files of a server, a
job, a cancellation, a question to a person, ...); with the surfaces that
dispatch to it (`RunReply` of the agent's loop, `McpDispatch`), the handlers' own
refusals, the remote terminal, the skills, and the checks before a fetch.  The
assumptions in `MCPendingSubmits` range over every tool in every world (active
directory, session, submission mode, configuration).  They say: in the degraded mode
nothing of a server's files and jobs changes, whatever is called (what "read"
tools do change is named); a job reaches the scheduler only by a reference that
verifies, or in the automatic mode; a tool that is offered works and one that
is not is unknown on every surface; after a plan was handed over or a stop was
seen, no call of the reply is made; every MCP request is answered; a command
starts where the last one ended; the terminals kept are those used last; the
skills never exceed their cap.

Observations.  `client.run_command` keeps 20000 characters, so the marker with
the directory of a command that prints much is lost and the next one starts
where this one did, although `terminals.py:3-5` promises otherwise (an assumption
shows it).  A missing argument of a tool is a `KeyError` answered as a failure.
A card (`job_submit`) lets the reply go on, a plan does not.  The MCP server's own
tools do not look at the mode.

## 5. Campaigns

### State and actions

`Campaigns` has the file of one campaign (`record`: its status, the approval in
it, and a row with status and job id for each stage), and for each process
where it is in an operation (`at`), its copy of the record and the place its
loop has reached (`copy`, `pos`).  `stageOf` and `jobState` are the scheduler's jobs,
`good` the stages whose files have come to show convergence.  History: `shared`, two
processes have been in an operation at once; `twice`, the jobs of submissions that
the client sent again; `early` of a row, its verdict came before the end of its job.

`CampaignStore.lock` is a lock of threads: a process is in one operation at a
time, and nothing excludes another process.  So an operation is a sequence of
steps between which others save, and every save writes the whole copy.

| actions | code |
|---|---|
| `Create`, `Decide`, `Conclude` | `_campaign_start` with `create`; `approve` and `reject`, from load to save |
| `Tick`, `Turn`, `EndTurn`, `Disconnect`, `Settle` | `tick` with its loop, its two exception branches, and `_settle` |
| `MakeDir`, `GiveUp`, `Generate`, `Submit`, `Answer` | `_start`, cut where it saves and where the scheduler is involved |
| `Resend` | `_call` of the gateway's client, which takes a broken connection for a missing session |
| `Poll`, `ConfirmCancelled`, with `Words` | `_poll`, `_poll_cancellation`, with the gateway's `op_job_state` and `normalize_state` |
| `Abort`, `Cancel`, `FinishAbort` | `abort` |
| `Converges`, `JobEnds`, `Die`, `Retarget` | the scheduler, the death of a process, an edit of the approval |

What is heard of a job is what `normalize_state` makes of it.  With Slurm a live job
may be CONFIGURING or COMPLETING at any look, which is answered as COMPLETED; it may
end in a state that `TERMINAL_SCHEDULER_STATES` does not have (`engine.py:43`:
BOOT_FAIL, DEADLINE), which is answered as no end; with PBS every finished job is
COMPLETED.

Abstractions.  All calls of `_start` between the save of "preparing" and
`client.submit` are one step, `Generate`: none of them can be seen by another
operation.  An answer of `vasp_live` that cannot be read counts as "not
converged", as in the code.  A submission is known to the scheduler when
`Submit` takes its first branch; a job that is accepted after the operation
gave up is not modelled.  An automatic approval is one step with the creation,
although the code has two (`registry.py:1008`).  `Die` also stands for
exceptions that leave an operation without a save.

### Run

`campaigns_shared`: relax, then static; the console and a process with the
tools; either scheduler; 2 jobs, 1 fault (a death, a lost connection, a submission sent
again, an end the code does not know, an edit of the file).  It checks `OneJobPerStage`, `VerdictsTrue`, `Settles`, and
`PromiseKept`: the campaign implements `StagedPlan`.  The chain is the shape in
which a stage depends on another; two jobs are one for each stage, or a second one for
the first.  `VerdictsTrue` says: a row's job is of its stage; "converged" is said only
when the files show it, whatever the scheduler says; and a verdict is given only of a
job that is over, unless Slurm was asked while it configured or completed the job.  The campaign ends and job ids run
out, so deadlock is not checked.

Fairness (`FairSpec`).  The console ticks every minute, between requests that
take the same lock (strong fairness of `Tick`); a call to the cluster returns
or times out (weak fairness of `Continue`); the scheduler ends jobs at their wall
time (weak fairness of `JobEnds`).  Nobody needs to approve or abort, and faults
are bounded.  `Settles` excepts a campaign with a job that ended in a state the code
does not know, which it polls for ever.

### Known limits

1. An abort from the process of an agent's tools saves "aborted" while the
   console's tick is between its save of "preparing" and its submission.  The
   tick submits, and its next save makes the campaign "running" again
   (`campaign.py:220`; the tool's text at `registry.py:621` says "start nothing
   more").  `StagedPlan` has `shared` for this reason: what it promises about a
   closed campaign holds until two processes have overlapped.
2. With two consoles a stage may be submitted twice; and with one when the client
   sends a submission again (section 9, finding `remote_broken`), which
   `OneJobPerStage` excepts (`twice`): the first of the two jobs is in no row.
3. With Slurm a stage is judged, or an abort confirmed, before its job has ended, when
   it is asked while the job is CONFIGURING or COMPLETING (finding
   `job_records_slurm`): an abort is reported although `campaign.py:430` says "Do not
   report an abort until every submitted job is terminal".  No stage is started on
   missing results by that, since convergence is read from the files.
4. A job that ends as BOOT_FAIL or DEADLINE is polled for ever, and the campaign
   neither ends nor goes on.
5. `VerdictsTrue` says nothing of a failed stage: an error of the query fails a
   stage whose job runs on.  And it speaks of the jobs the record knows: a job
   whose answer was lost is not cancelled by an abort.

### Proofs

`CampaignsProofs` proves, for any plan, any processes and any faults, `TypeOK`,
`VerdictsTrue` and `NothingLeftRunning`.  Since a process may save an old copy over
another's work, the invariant cannot be about the record alone: the record and
all copies satisfy the same predicates (`Fits`: what a row says of its job is
true or marked as early, and stays so while jobs end; `Sane`: status and rows agree; `Clean`: no
row waits with a job), and `CopyFits` adds what the operation knows at its point.
`MovesKeeps` reduces every step to "the process goes to a point with a copy that
fits, and the record fits".

With exactly one console it also proves `OneJobPerStage` and that the campaign
implements `StagedPlan`.  `Once` adds that only the console's ticks submit, that
neither the record nor the console's copy shows a submitted stage as waiting,
and that a stage about to be submitted was not; an abort by another process
keeps it because `abort` leaves no row waiting.  `Solo` adds that until two
processes overlap, the record is as the operation under way has found it.  The
hypothesis is needed: two consoles may both submit a stage.  `Settles` is only
model-checked.

## 6. Local analyses

`LocalPython` has the worker of an approved plan, which holds the plan's run lock
(`rec`, `at`, `done`, `current`), the supervisors it starts (`sup`), their lock
`plock` and result file, the `script`, the workspace (`files`, `changed`) and the
project's results (`target`).  Lock and result file belong to the plan, not to a
run, and a deleted record may be followed by another run.

| actions | code |
|---|---|
| `Enqueue`, `Recover`, `Resume`, `Begin` | admission and take-over of a run, as far as this branch needs them |
| `Snapshot`, `Intend`, `Launch`, `Refuse` | `execute` up to the start of the supervisor |
| `Poll`, `Look`, `EndLook`, `Reread` | its loop: the result, the look at the lock, 15 seconds of patience |
| `Collect`, `Copy`, `Finish` | the outputs, their copies and the conclusion |
| `Load`, `TakeLock`, `CheckInputs`, `StartScript`, `Watch`, `Report`, `Leave` | `main` of the supervisor |
| `Crash`, `Die`, `ScriptEnds`, `Tick`, `Meddle`, `DeleteRecord` | deaths, the script, the clock, people |

Run `local_python`: 2 runs, 2 outputs, one change by people, deaths anywhere;
`RunsOnce`, `ConclusionTrue`, `HonestDoubt`, and `Settles` under `FairSpec`: the
worker and the supervisors go on, time passes, and consoles are started again.
Two runs are needed for a supervisor that outlives the record it was started
for; the script ends, but nothing says it ends well.  `Settles` assumes that
processes stop dying from some time on.

Observations.  The worker's own look at the lock can make a starting supervisor
leave; a supervisor later than 15 seconds runs the script after the run was
declared uncertain (`HonestDoubt` names it); the check and the copy of an output
(188-191) are two steps, so a file that appears in between is replaced, although
`research.py:100` says that changed files are never overwritten.

Proofs (`LocalPythonProofs`).  For any runs and outputs, whoever dies and whatever is
changed: `TypeOK`, `RunsOnce`, `ConclusionTrue` and `HonestDoubt`.  A supervisor
works only while it holds its lock (`Held`), so what it read of the result file
stays true until it writes (`Stages`); a report in the file is that of a supervisor
at work or gone (`Written`).  The first keeps a second supervisor from starting
the script again, the second makes what the worker reads a conclusion of its own
run.

## 7. Collections and projects

### Collections

`Collections` has the record of one collection, its cancel `marker`, the file
`lock`, where each process is (`at`, `pos`, and the directory it resolved, `root`),
the project (`place`, `moving`), and for each file the `remote` version, the local
`target` and what is `staged`.  `late`, `seen` and `meddled` are history variables.

| actions | code |
|---|---|
| `Enqueue`, `Launch`, `LaunchFails`, `Probe`, `EndProbe`, `Acquire`, `LoseRace` | `enqueue`, `launch`, `active`, `execute`'s lock |
| `Cancel`, `FinishCancel`, `Resume`, `RefuseResume`, `Unmark`, `Requeue` | `cancel` and `resume`, cut where the marker and the record are written |
| `Start`, `Resolve`, `Stop`, `Skip`, `Check`, `Adopt`, `Stage`, `Fetch`, `Verify`, `Publish`, `Finish`, `Refuse`, `Complete`, `Retry`, `CallFails` | `_collect`, one durable write or remote call at a time |
| `CheckMove`, `Move` | rename and delete of a project with `_check_remote_collections` |
| `Crash`, `Edit`, `Meddle` | deaths, the cluster's users, the owner of the project |

A version stands for size and modification time and never returns.  What the
local comparison with the receipt tells apart is who put which version there.

`Delivers` says that the collection implements `Delivery`: files are put only where
there is none, only the chosen version, "done" is only said of what has been in
place, and "complete" of all of them, for good.  `WorksInProject` and `StopsSoon`
are about the interleavings with rename, deletion, cancel and resume.

Observations.  A cancel while the connection is lost is noticed only after the
job's directory was asked for, so the collection ends "blocked"; a probe that
holds the lock makes a worker or a cancel lose; a cancel is forgotten only when
it comes together with a resume (`collections.py:167`).

### Projects

`ProjectFiles` has the directories (`dir`, with `born` and `hurt` as history), the
`index`, the operation that holds its lock (`op`), one file of each directory
(`file`), and editors.  The two writes of create, rename and delete are two steps
with `Crash` between them.  An editor (`Open`, `Check`, `Replace`) reads, and
`write_file` compares the hash it sends, or "missing", before it replaces; a save that
is refused changes nothing.  A save without a hash (`expected_sha256` is None:
`index.html:5182`, the page for VASP inputs; an agent or a command that leaves it out)
and the files sent with an update (`projects.py:259`), which may have renamed the
project, are `Overwrite` and `Overwritten`: nothing is compared.
`KeepsIdentity`: no two projects have one identity, and a project none of whose
operations was cut short keeps its own.  `ReplacesWhatWasRead`: a save with a hash replaces
only what its editor has read or written, or what a worker publishes in between; what is
replaced unseen otherwise is replaced by an operation without a hash, and in the
directory that was meant, while no editor is between its check and its replacement.

Observations.  A crash between directory and index gives a project a new
identity and the kind "vasp" (`projects.py:254`), so its associations no longer find
it; publication by a worker takes no project lock; a rename retargets chat
sessions by name after it released the lock; a POTCAR is copied over whatever is
there.  So is a file of the project by a save without a hash, as `tests/test_projects.py:115`
and `:156` expect; the property promises nothing to an editor whose file is overwritten
that way but that its own save is then refused.

### Run

`collections_files`: 2 processes, 2 files, 1 change on the cluster, 1 retry (5 in
the code), 1 change by the owner; beside it 2 names (`ProjectNames`), 2 directories,
2 editors, 3 saves (`FewVersions`) and 1 crash; and a VASP run with the bounds of
section 8.  Two files are needed for a stop between them.  Everything is
bounded and people need not act, so deadlock is not checked.  Liveness is not
claimed: a collection may rest for ever when a probe made its worker lose the
lock.

### Proofs

`CollectionsProofs` proves, for any files, processes and names, `TypeOK`,
`WorksInProject`, `StopsSoon`, that a collection implements `Delivery`, and for the
projects `KeepsIdentity` and `ReplacesWhatWasRead`.

Only the holder of the lock touches the record, but for the last word on a
cancellation, and `HolderFits` says what it knows at each of its points.  What makes
a receipt true is that a version never returns: if a file is the chosen version
before and after its transfer, the chosen version was transferred ("verify" in
`HolderFits`), so what the collector put in place is the chosen version, too
(`FileFits`).  `StopsSoon` is part of the invariant: a holder
that has not published yet has seen no publication after the marker was set.  The projects' invariant, `ProjectsInv`, lets the
index have entries of directories that are gone (`IndexFits`): a crash leaves such
entries behind, and an identity is still never given twice.

## 8. What is known of jobs

### Center and ledger

`JobRecords` has one job id of one server: the scheduler's `job` (which run has the
id, and its phase), the center's `row` with `stale` and `receipts`, the ledger's
`entry`, and the threads that refresh, associate, list and submit.  Neither of the
two stores is read to write the other, so a behaviour follows one (`book`).  The
runs 1, 2, ... are the jobs that had the id; rows carry the run they are about,
which the code does not know.

| actions | code |
|---|---|
| `Refresh`, `AskQueue`, `AskHistory`, `SaveRefresh` | `JobCenter.refresh`, with `op_jobs` and `op_recent` of the gateway (`Word`, `Normalized`) |
| `Known`, `Locate`, `Associate` | `associate` with its search for the directory |
| `List`, `Recent`, `Observe`, `Prune` | the console's listings folded into the ledger (`Folded`, `Inferred`) |
| `Accept`, `RecordSubmission`, `Seed`, `KeepReceipt`, `SubmitterDies` | `client.submit` and the card's receipt |
| `Advance`, `Die` | the scheduler, deaths |

Guest of `console_records` (PBS): 2 threads, 2 listers, an id used twice in two
directories; `EndedTruly`, `EndsStay`, `AssociationFits`.  Two threads let a listing
be saved after a newer one; the second use of the id is what a stale row could be
confused with.

Not modelled: an identity of the server that changes during a refresh,
`remember_workdirs`, `bind_directory`, and the timing of estimates; the limit of
500 rows is a row that may be dropped.

Finding (`job_records_slurm`, expected to fail): with Slurm `EndedTruly` does not
hold.  `normalize_state` (`rsci_gateway.py:725`) looks for the prefix `CG`, but
`op_jobs` asks squeue for the long words, and COMPLETING and CONFIGURING both
begin with C, which means COMPLETED.  `spec/workflows.md:47` and
`hpc/scheduler.py:19-20` say otherwise.  `op_job_state` is what the runner and the
campaigns poll; `WorkflowTasks` and `Campaigns` have its words (`Words`), and what they
check and prove about conclusions names this exception (`early`).

Observations.  A late answer can take the ledger's COMPLETED back (the center's
rows keep theirs: `EndsStay`); dropped ended rows come back as UNKNOWN from
receipts; `associate` can write an old directory to the row of a reused id; Slurm
rows have no start time, so a reused id in the same directory inherits its
association; a negative exit status of PBS is shown as COMPLETED; `refresh`
holds the file lock through calls to the network.

`PendingSubmitsProofs` proves, for any threads, listings, projects, directories and
uses of the id, `TypeOK` and `AssociationFits` with either scheduler, and with PBS
`EndedTruly` and `EndsStay`: with Slurm `EndedTruly` is false, as the finding shows, so
that hypothesis is needed.  What may be said of a run when the scheduler is where it is
(`Told`) stays true when the scheduler goes on (`ToldLater`), so a row, a line or an
entry may be old; it holds of every copy there is (`RowFits`, `LineFits`, `EntryFits`).
For `EndsStay` a thread with the lock has read the row that is there, and a line it
has read since does not take back the end the row shows (`ThreadFits`, `KeepsEnd`).

### VASP's files

`VaspInputs` has the console's checks of POSCAR, KPOINTS and INCAR
(`LocalErrors`), the gateway's (`StrictErrors`), what is uploaded and downloaded, and
the steps of a plan.  The assumptions in `MCVaspFiles`, evaluated with the runs of
`MCWorkflowTasks`, compare the two over small
texts: what passes the console's checks passes on the server, but for the
differences that are named, and what else the server lets pass is named too.
What pymatgen finds is a parameter.

`VaspProgress` has a VASP run that writes OSZICAR and OUTCAR and may crash, be
killed or finish, and the two readers of their ends: the console's
(`LiveProgress`, `ScientificStatus`, `Conclusion`) and the gateway's
(`GatewayPayload`).  `TailsTellTheRun` relates what they conclude from any tail to
what the run did.  It is checked beside the collections (run `collections_files`): at most
3 electronic rows a step (Nelm), 4 ionic steps, 4 marks in OUTCAR; a tail must be able to
begin within a step, and hold more than two.  Both readers may miss the beginning of
either file.  `ParseOszicar` says what is counted, from the last rows that closed a step
before each row; that the code's scan, row after row, counts the same is the assumption
`ScanAgrees`, over all files of up to 7 rows.

`CollectionsProofs` proves `TailsTellTheRun` for any ceiling, number of steps and marks
(`TailsTell`).  The invariant (`VaspInv`): a row that closes a step has the number of
steps closed so far, among any Nelm + 1 rows one closes a step (`RowsFit`), "timing" is
the last mark, and "accuracy" comes after a step (`MarksFit`).  The last such row of a
tail is then that of the file (`BeforeInTail`), and in a tail of more than two steps so
is the one before it or the tail holds Nelm rows without (`ReachedInTail`).

Known differences, shown by assumptions or in the property.  The gateway reads
the last 65536 bytes, so it refuses a longer POSCAR; it refuses a KPOINTS without
title, and INCARs of comments only; it accepts a zero scale, dependent vectors and
other counts than species; it knows neither "!" nor ";" in an INCAR, so
`NSW = 60 ! steps` counts as 0 and a relaxation is judged as static.  An early
"electronic self-consistency was not achieved" in the tail of OUTCAR marks the
run unconverged, although `vasp.py:377` says that only the last step decides; the
gateway counts any step at the ceiling, and knows fewer fatal messages; a step
that converges exactly at NELM counts as one that did not.  The page calls a project
ready whose POTCAR is empty, which `LocalErrors` with the POTCAR counts as missing.

### Evidence

`JobEvidence` says which logs of a directory are read and in which order, which
belong to the job (`Relation`), what the accounting shows (`Summary`), the verdicts of
the center and of the page, and which repairs are proposed from probes each of
which may fail.  Assumptions: only convergence is success; a log of another job
alone does not change the center's verdict; whatever probes fail, a script is to be
changed only if the queue it asks for does not take jobs.

Observations.  The tail of an appended log may begin inside another job's run,
whose exit code is then taken for this job's (against the comment at
`joblogs.py:147`); the page's analysis reads logs without looking whose they are,
so another job's log changes its verdict.  Assumptions show both.

## 9. Calls to a cluster

### The call

`RemoteCalls` has two calls of the gateway client (`call`), the `session` with its
`mode` and the reconnection state `recon`, and one path with its `trash`.  An
operation of the gateway is a sequence of remote commands, each of which first
asks for the session; without it the operation ends as "disconnected", and the
client restores the session and sends the whole operation once more.  It does the
same when its own connection to the gateway's host breaks (`Break`) with a message
that `_classify` takes for a missing session, such as "broken pipe" or "connection
closed by remote host"; the gateway's program may have answered, die with the
connection, or go on for nobody.

| actions | code |
|---|---|
| `Start`, `Retry`, `Tell` | `_call` of the client |
| `Abandon`, `Break` | `_run` and `_classify` of the transport: a connection that breaks with any other message, or runs into the timeout, is an error; one that breaks with a hint of `_AUTH_HINTS` is an `AuthRequiredError` |
| `EnsureSession`, `Connect`, `KeyInstall`, `KeyDisable`, `BackoffEnds`, `Drop` | the gateway's `ensure_session` and `op_connect`, key mode, the back-off |
| `Submit`, `Remove`, `Restore`, `Purge`, `UploadCheck` ... `UploadEnd`, `WriteLook` ... `WriteStat` | `op_submit`, `op_remove`, `op_restore`, `op_purge`, `op_upload`, `op_write` |

`ExactlyOnce`: a submit, remove, restore or purge did take effect when the caller is
told so; and unless the connection broke like that (`broke`), it takes effect at most
once although it may be sent twice, and did not when the caller is told to log in or
that it was refused.  `NothingDestroyed`: what is at the
path disappears only under an upload or a write.

Finding (`remote_broken`, expected to fail): `SubmitsOnce`, the same of a submission
without the exception, does not hold.  The connection breaks while the gateway runs
`sbatch`, or before its answer has come; ssh ends with 255 and "broken pipe"; `_classify`
(`transport.py:163`) makes an `AuthRequiredError` of it, and `_call` (`client.py:90-119`)
connects again with the saved password and submits once more.  The first job is in no
record.  The comment in `_call` has in mind a lost session "while the outer Vlab
connection remains healthy", and `artifacts/design_document/build_design.py:209` demands
that a connection that breaks during a submission leads to no second one.  So
`WorkflowTasks` and `PendingSubmits` speak of calls of `client.submit`, of which each has
one answer, and `Campaigns` has the second job (`Resend`).

Bounds and abstractions.  A broken call that goes on for nobody takes the place of
another call of its kind, and one such break is under way at a time.  Which message ssh
ends with is free.  The calls of the workspaces and of the direct route are not sent
again and are not in this module.

Known limit.  `client.write_file` says that the gateway checks the expected hash
and installs atomically, but `op_write` compares and moves in two remote commands,
so another's write in between is lost.

Observations.  A write whose session broke after its `mv` is answered
"remote_changed" when sent again; an upload's check and its `cat >` are apart; a
remove may leave a payload without its description; `op_connect` unpacks the
boolean of `ensure_session` for servers in key mode; `client.copy` and `client.move`
pass the destination by position, but the gateway's parser wants `--destination`.

### The helper

`GatewayHelper` has one helper file of one host, the flags and locks of the processes
(`ready`, `lock`), and the threads with their stages; an installation whose answer did
not come (`ghost`) may end late.  `PreparedRuns`: on Vlab a prepared call finds a whole
and recent helper, unless somebody removed it.  `Repairs`: once commands no longer
fail, every call succeeds.  Both hold with 3 threads in 2 processes, of which one
brings a newer version, and 2 faults.

Known limit.  The direct route (`transport.py:751`) copies over the helper without
lock or check: `Repairs` is stated there only while no installation fails, because one that
fails after another thread has set the flag leaves half a helper for good.

Run `remote_retries` has both: 2 calls, one of any operation and one of
upload, 1 entry of the trash; and the helper beside it.  Fairness is used by `Repairs` only: a
command that was begun returns or times out.

### Proofs

`RemoteCallsProofs` proves, for any calls, contents and trash and whatever happens to
the session and the connection, `TypeOK`, `ExactlyOnce` and `NothingDestroyed`.
`CallFits` says that a call on its way whose connection has not been broken has had no
effect yet, that of those an answer "disconnected", which is what is sent again, comes
from none that had, and "ok" from one that had one.  For the helper it proves
`PreparedRuns`, for any threads, processes and versions (a part of a helper is not a
number, `HelperAssumption`): what a process has flagged as ready stays so while
only whole helpers are moved over each other (`HelperReady`).  `Repairs` is only
model-checked.

## 10. Servers, workspaces, metrics

### Servers and logins

`ServerCatalog` has the gateway's `catalog`, the console's `mirror`, the saved
`logins`, the steps of the edit under way (`edit`) and of the refresh (`pull`).
`Add`, `Edit`, `ChangeLogin`, `Rename`, `Remove` and `Confirm` are the requests of the
page; each is a list of calls, done one at a time (`Register`, `Amend`, `Unregister`,
`Upsert`, `StoreLogin`, `Drop`, `Forget`), any of which can be the last (`GiveUp`);
`Ask`, `Answer`, `NoAnswer` and `SavePull` are a refresh.

`LoginKept` is checked in `console_records`: 3 names, 2 hosts (one behind Vlab), 3
requests.  Run `server_and_run_settle`, its other half being a run of section 3, with
two names for one host that can be reached by both routes and two directories for an
entry:
`Converges` under `FairSpec`: requests end, a refresh precedes every
use of a session, and now and then the gateway answers (strong fairness).
Assumed: one edit at a time, and a name is never used for two hosts.  A rename keeps
route and directory, although the page may change both with it (`server.py:1077-1080`).

Known limit.  A rename saves a login under the new name also when it waits for
confirmation, which counts as confirming it (`server.py` 1067-1085);
`src/spec/local-credential-requirements.md:19` wants an explicit click.

Observations.  A refresh that read an old mirror loses a direct server added
meanwhile, or brings back a renamed one; a server turned from Vlab to direct stays in
the catalogue, and the next refresh overwrites its edits; a rename drops the
authentication mode; adding an existing name replaces it silently; two processes
may each create the signing key (`config.py:667`).

`PendingSubmitsProofs` proves, for any names, hosts, directories and number of edits,
`TypeOK` and `LoginKept`.  The argument is about the plan of an edit, the steps still to
do (`ServersInv`): only one name is given up, after all that is registered or saved,
and a login is never saved under the name that is given up (`Orderly`).  Hence, for
every host whose login is kept, either another name has the login already
(`SafeWithout`) or the plan saves it first (`Promised`), which is what each step
preserves and what makes any of them a safe end.  That a rename saves the login rests
on the route: a host behind Vlab is "vlab" in every mirror, those that a refresh
holds included (`Mirrors`, `MergeFits`).

### Workspaces

`Workspaces` has the file of the gateway (`entry`: status, mode, directory), the
directories on Vlab (`base`), the mounts (`rclone`), what their caches hold that was not
uploaded (`cache`), what editors were told (`window`), and the command under way (`op`).
`open` ends with a status of its own, for which it takes the lock anew (`due`).
`overtaken` is a history variable: the workspaces given up while a mount of theirs,
begun by a command that was killed, was still coming up.  One server is modelled, and
every mount answers on a control port of its own.

| actions | code |
|---|---|
| `Open`, `Opened`, `OpenFails`, `OpenReports` | `open` with its leases (`LeaseConflict`) |
| `Status`, `Listed`, `Close`, `CloseRefused`, `QueueEmpty`, `QueueUnknown`, `StillQueued`, `Unmount`, `UnmountFails`, `Closed` | `status`, `close` |
| `Discard`, `Wipe`, `WipeFails`, `Discarded`, `Retry`, `Retried`, `RetryFails` | `recover` |
| `Cleanup`, `RemoveOne`, `SkipOne`, `RemoveFails`, `CleanupSaves` | `cleanup` |
| `MountUp`, `MountGone`, `Write`, `Upload`, `Killed` | rclone, editors, a command that is killed or runs into a timeout |

`UnsyncedKnown`: a write that is not on the server belongs to a workspace that is
still listed as open or to be recovered.  `NothingLost`: cached writes disappear only
by upload or by discarding that workspace.  Refusals for readiness, space, path or key
are no steps, and a late write after close has read the queue empty may remain
in the cache of a closed workspace.  Both properties except a workspace that was given
up before its mount came up (`Revived`): a listing says that it is mounted, and what is
written in it then is in the cache of an abandoned workspace, which a cleanup removes.

Finding (`workspace_leases`, expected to fail): `recover` retries without looking at the
leases taken since (757-786), so two workspaces may write overlapping directories
(`LeasesApart`); the gateway's README (45-46) says that the second request is refused.

Observations.  A killed cleanup leaves entries without directory, on which later
commands raise; a killed open leaves a mount nobody knows; a status can turn an
abandoned workspace whose mount came up late "open" again.

### Metrics

`MetricsHistory` has the history file as buckets of a minute (`hist`), the daemon's
rows on the server (`remote`), its heartbeat (`beat`) and its loops, one or, without
`flock`, several (`checks`), and two requests that poll
or fetch, cut where they read and write the file.  `Timeline`: a minute has one
bucket that covers every poll, as long as uses do not overlap, and a bucket always
holds what was measured.  `NoLongGap`: while a daemon that is whole runs, no more than two
and a half minutes pass since somebody measured or the daemon was installed.  The clock
runs in half minutes to 6 (7 in `workspace_leases`); rows are kept for 2 minutes, and a
tail has 2.  Assumptions of `MCWorkspaces` relate the minutes of use and the
heatmap to their definitions.

Known limits.  Nothing is locked, and the temporary file has one name: overlapping uses may
lose or repeat a minute.  "Gapless" (`remotemon.py:9-11`) is not so: 150 seconds can
pass after a page was closed, and an installation over a daemon that runs only touches
the heartbeat (203-206; the second loop ends at the lock, 137), so that each starts the
150 seconds anew.  Whoever touches the heartbeat without recording (the
agent's `server_metrics`, other consoles) is part of the model (`PollElsewhere`).

Run `workspaces_caches` has both: 2 workspaces, nested and separate directories,
2 kills; and 2 requests on a history, 3 uses, 2 events.  Run `workspace_leases` has the
same bounds.  Identifiers and uses run out, so deadlock is not checked.

### Proofs

`WorkspacesProofs` proves, for any workspaces, directories (sequences of names) and
kills, `TypeOK`, `UnsyncedKnown` and `NothingLost`, and for any threads, times and limits
`Timeline` and `NoLongGap`.  `LeasesApart` is false, as the finding shows.

For the workspaces, `WorkspaceFits` relates entry, directory, mount and cache of one
workspace: only a writable workspace whose directory is whole has anything in its
cache, and what waits for an upload has a live entry, or belongs to a revived mount
(`Known`).  `CommandFits` says what the
command that holds the lock may rely on: leases and candidates it has looked up stay
as they were, since only it changes entries, but the cache may get a write between
the look at the queue and the unmount, which is why that write is kept apart
("late") until it is known whether the workspace stays.

For the history, the store is an invariant about single uses (`UseFits`): a use that no
other has overlapped works on rows that covered all there was to cover when it
began, and adding a sample, merging a text or pruning keeps that (`AddedCovers`,
`FreshCovers`, `CoversLater`).  That a text has a last row for each of its minutes is
proved from the well-foundedness of the numbers (`LastPosition`).  The first part of
`Timeline` needs none of it: rows are never made up, whatever overlaps (`Sound`).
`NoLongGap` holds because the heartbeat is never younger than the last measurement and
the last installation, and a loop looks again before Grace + 2 have passed since the
later of them (`InTime`).

## 11. Conversations

`ChatTurns` has the session files (`file`: the last turn, the rows of requests, the
archive), the execution lock of each session (`owner`), the threads that handle
questions (`th`) and those that handle other requests (`reader`).  A console's slots
and its registry follow from where its threads are.

| actions | code |
|---|---|
| `Post`, `TryLock`, `Load`, `Register` | `_chat_stream`: slot, lock, the look at the session, the registry |
| `Prepare`, `Begin`, `Resolve`, `Think`, `NextCall`, `Tool`, `Finish` | the turn: `begin_turn`, the runtime's loop, `finish` |
| `Unregister`, `Unlock`, `Unslot` | its exit stack |
| `Heartbeat` | the thread that reads the cancel flag |
| `StopHere`, `Open`, `Snapshot`, `AskStop`, `Delete`, `Compact`, `Note` | `_stop_chat`, `_chat_action`, notes |
| `Crash` | the death of a console |

`chat_stops`: 2 consoles, 1 session, 2 requests that may be sent again, replies of at most 2
tool calls; `RecordTrue` (a record is never closed while it is worked on), `StopsTheRight`,
`AtMostOneMore` (tool call after a stop), `NoReplay`, and `StopEnds` under `FairSpec`: threads
go on, model and tools return (each has a timeout), and the heartbeat beats.
Deadlock is checked.

The cancel flag is kept as the request it was meant for, which the code does not
know.  The refusal to delete a session with pending cards is a choice; fork and
setproject leave turns alone; closing the page has no effect.

Observations.  A stop before the registration is answered "stopped: false" and is lost; the
fork of an orphaned session copies a "running" row nobody settles.

### Proofs

`ChatTurnsProofs` proves, for any consoles, threads, sessions and requests, `TypeOK`,
`RecordTrue`, `StopsTheRight`, `AtMostOneMore` and `NoReplay`.  The execution lock
carries the argument: from the look at a session until its turn is over a thread owns
the session (`ThreadFits`), and so does a reader that deletes or compacts it.

## 12. What is proved, and what is only checked

| module | proved for every value of the constants |
|---|---|
| `WorkflowTasksProofs` | `AtMostOneSubmission`, `SubmissionRemembered`, `FinishedTruthfully`, `MonitorBudgetKept`, and four more; implements `OneShot` |
| `PendingSubmitsProofs` | `OneCallPerCard`, `NoHiddenAttempt`, `SubmissionTraceable`; implements `OneShot`; `AssociationFits`, and with PBS `EndedTruly` and `EndsStay`; `LoginKept` |
| `CampaignsProofs` | `VerdictsTrue`; with one console `OneJobPerStage`, and implements `StagedPlan` |
| `LocalPythonProofs` | `RunsOnce`, `ConclusionTrue`, `HonestDoubt` |
| `CollectionsProofs` | `WorksInProject`, `StopsSoon`, `KeepsIdentity`, `ReplacesWhatWasRead`; implements `Delivery`; `TailsTellTheRun` |
| `RemoteCallsProofs` | `ExactlyOnce`, `NothingDestroyed`, `PreparedRuns` |
| `WorkspacesProofs` | `UnsyncedKnown`, `NothingLost`, `Timeline`, `NoLongGap` |
| `ChatTurnsProofs` | `RecordTrue`, `StopsTheRight`, `AtMostOneMore`, `NoReplay` |

Each rests on the assumptions named in its component's module, which TLC
evaluates on the runs, and on an inductive invariant that TLC has checked before.

Only checked, on the instances above:

* the liveness properties `Settles` (three of them), `StopEnds`, `Repairs` and
  `Converges`: the prover has no rules for fairness;
* that the code's scan of OSZICAR computes what `ParseOszicar` says: an induction over
  the rows, which cannot be stated for this prover;
* the assumptions about operators, which hold for the small inputs they range over.

## 13. Not modelled

* Migration of records of older versions, `worker_error`, reconcile, the audit log.
* Model providers: each turns one stream of events into another; the
  runtime sees an answer, tool calls or an error, as in `ChatTurns`.
* VASPKIT's scripts, recipes and the arithmetic on structures; POTCAR headers,
  forces and trajectories; the texts of job scripts, prompts and pages: text and
  numbers without a protocol.
* The gateway's listings, copies, moves and archives; the console's own parsers of
  scheduler listings.
* The routes of the UI server, browser sessions, file previews, the Vlab login; the CLI,
  the desktop shell and the editor bridge, which call what is modelled.
* The signing key, the default server and the other settings; encryption of logins.
* Outside the program: `artifacts/` (evidence of past runs and builders of documents)
  and `scripts/`.
