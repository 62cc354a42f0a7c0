----------------------------- MODULE JobRecords -----------------------------
(***************************************************************************)
(* What the console remembers of one job id of one server: the row of the  *)
(* task center (rsci/hpc/center.py), a file that any process writes under  *)
(* a file lock, and the entry of the ledger (rsci/core/jobhistory.py),     *)
(* which the threads of the console fold the listings into.  Both come     *)
(* from what the gateway (rsci/gateway/rsci_gateway.py) makes of the words *)
(* of PBS or Slurm, long after it asked.                                   *)
(*                                                                         *)
(* Neither of the two is ever read to write the other, so a behaviour      *)
(* follows one of them only.                                               *)
(*                                                                         *)
(* A scheduler that was reset gives an id again: the jobs that had the id  *)
(* are its runs 1, 2, ...  Rows and entries carry the run they are about,  *)
(* which the code does not know.                                           *)
(***************************************************************************)
EXTENDS Naturals

CONSTANTS
    Scheduler,  \* "pbs" or "slurm"
    Threads,    \* threads of any process that refresh the row or associate it
    Listers,    \* threads of the console that list jobs into the ledger
    Projects,   \* projects a job may be associated with
    NoProject,
    MaxRuns,    \* bound: jobs that get this id
    DirOf,      \* DirOf[r]: the directory run r was submitted in
    NoDir       \* a directory that is not known

Dirs == {DirOf[r] : r \in 1 .. MaxRuns}
RecordsAssumption ==
    /\ Scheduler \in {"pbs", "slurm"}
    /\ MaxRuns \in Nat /\ DOMAIN DirOf = 1 .. MaxRuns
    /\ NoProject \notin Projects /\ NoDir \notin Dirs

VARIABLES
    job,        \* the scheduler: the last job with the id, and its phase
    book,       \* the one that is followed: "center" or "ledger"
    row,        \* the center's row
    stale,      \* the center's file: the last refresh got no answer
    receipts,   \* runs whose accepted submission a card keeps
    entry,      \* the ledger's entry
    thread,     \* thread[t]: where t is, what it does, and what it has read
    lister,     \* lister[l]: the same
    submitter   \* a submission through the client

vars == <<job, book, row, stale, receipts, entry, thread, lister, submitter>>
-----------------------------------------------------------------------------
(* Types *)

Runs == 1 .. MaxRuns
Phases == {"none", "queued", "configuring", "running", "ending", "completed", "failed", "gone"}
Over == {"completed", "failed", "gone"}
Terminal == {"COMPLETED", "FAILED"}                    \* TERMINAL_STATES that occur
States == Terminal \cup {"UNKNOWN", "PENDING", "RUNNING", "EXITING"}

\* A line of a listing, dated when the listing has start times; run 0 is no
\* line, and started 0 a job that has not started.
Lines == [run : 0 .. MaxRuns, state : States, dir : Dirs \cup {NoDir}, dated : BOOLEAN,
          started : 0 .. MaxRuns]
NoLine == [run |-> 0, state |-> "UNKNOWN", dir |-> NoDir, dated |-> FALSE, started |-> 0]
RowSet == [run : 0 .. MaxRuns, state : States, dir : Dirs \cup {NoDir}, started : 0 .. MaxRuns,
           project : Projects \cup {NoProject}, bound : Dirs \cup {NoDir}]
NoRow == [run |-> 0, state |-> "UNKNOWN", dir |-> NoDir, started |-> 0,
          project |-> NoProject, bound |-> NoDir]
EntrySet == [run : 0 .. MaxRuns, state : States]
NoEntry == [run |-> 0, state |-> "UNKNOWN"]

\* The points at which a thread holds the file's lock.
Holding == {"queue", "history", "save"}
IdleThread == [at |-> "idle", for |-> NoProject, row |-> NoRow, line |-> NoLine, dir |-> NoDir]
IdleLister == [at |-> "idle", line |-> NoEntry]
IdleSubmitter == [at |-> "idle", run |-> 0]

TypeOK ==
    /\ job \in [run : 0 .. MaxRuns, phase : Phases]
    /\ book \in {"center", "ledger"}
    /\ row \in RowSet
    /\ stale \in BOOLEAN
    /\ receipts \subseteq Runs
    /\ entry \in EntrySet
    /\ thread \in [Threads -> [at : Holding \cup {"idle", "known", "locate", "write"},
                               for : Projects \cup {NoProject}, row : RowSet,
                               line : Lines, dir : Dirs \cup {NoDir}]]
    /\ lister \in [Listers -> [at : {"idle", "listed", "recent", "both"}, line : EntrySet]]
    /\ submitter \in [at : {"idle", "record", "seed", "receipt"}, run : 0 .. MaxRuns]

Init == /\ job = [run |-> 0, phase |-> "none"]
        /\ book \in {"center", "ledger"}
        /\ row = NoRow
        /\ stale = FALSE
        /\ receipts = {}
        /\ entry = NoEntry
        /\ thread = [t \in Threads |-> IdleThread]
        /\ lister = [l \in Listers |-> IdleLister]
        /\ submitter = IdleSubmitter
-----------------------------------------------------------------------------
(* What the gateway answers *)

\* The word of the scheduler, and what normalize_state makes of it: any other
\* word of Slurm that begins with C counts as COMPLETED.
Word(phase) == CASE phase = "queued" -> "PENDING"
                 [] phase = "configuring" -> "CONFIGURING"
                 [] phase = "running" -> "RUNNING"
                 [] phase = "ending" -> IF Scheduler = "pbs" THEN "E" ELSE "COMPLETING"
                 [] phase = "completed" -> "COMPLETED"
                 [] phase = "failed" -> "FAILED"
Normalized(word) == CASE word \in {"CONFIGURING", "COMPLETING"} -> "COMPLETED"
                      [] word = "E" -> "EXITING"
                      [] OTHER -> word

LineOf(phase) == [run |-> job.run, state |-> Normalized(Word(phase)), dir |-> DirOf[job.run],
                  dated |-> FALSE, started |-> 0]
\* op_jobs: the queue, which has no start times.
Queue == IF job.phase \in Over \cup {"none"} THEN {NoLine}
         ELSE {LineOf(job.phase)}
\* op_recent: PBS lists the same jobs and those just over, with their start
\* times; Slurm's accounting has none, lags behind, or is down.
Lagging == {job.phase} \cup {phase \in {"running"} : job.phase \in Over}
Started == IF job.phase \in {"queued", "configuring"} THEN 0 ELSE job.run
History == IF job.phase \in {"none", "gone"} THEN {NoLine}
           ELSE IF Scheduler = "pbs"
                THEN {[LineOf(job.phase) EXCEPT !.dated = TRUE, !.started = Started]}
           ELSE {NoLine} \cup {LineOf(phase) : phase \in Lagging}
-----------------------------------------------------------------------------
(* The task center *)

\* _submitted_row, and _load: a submission a card keeps is listed anyway.
SubmittedRow(r) == [run |-> r, state |-> "UNKNOWN", dir |-> DirOf[r], started |-> 0,
                    project |-> NoProject, bound |-> NoDir]
Loaded == IF row = NoRow /\ receipts # {} THEN {SubmittedRow(r) : r \in receipts} ELSE {row}

LockFree == \A t \in Threads : thread[t].at \notin Holding
Goto(t, point) == thread' = [thread EXCEPT ![t].at = point]
Leave(t) == thread' = [thread EXCEPT ![t] = IdleThread]

Refresh(t, p) ==
    /\ thread[t].at = "idle"
    /\ LockFree
    /\ \E r \in Loaded :
          thread' = [thread EXCEPT ![t] = [IdleThread EXCEPT !.at = "queue", !.for = p, !.row = r]]
    /\ UNCHANGED <<job, book, row, stale, receipts, entry, lister, submitter>>

\* After a refresh an association goes on.
AfterRefresh(t) ==
    IF thread[t].for = NoProject THEN Leave(t)
    ELSE thread' = [thread EXCEPT ![t] = [IdleThread EXCEPT !.at = "known", !.for = thread[t].for]]

AskQueue(t) ==
    /\ thread[t].at = "queue"
    /\ \/ /\ \E line \in Queue :
                thread' = [thread EXCEPT ![t] = [@ EXCEPT !.at = "history", !.line = line]]
          /\ UNCHANGED <<book, row, stale>>
       \/ /\ row' = thread[t].row                     \* no answer
          /\ stale' = TRUE
          /\ AfterRefresh(t)
    /\ UNCHANGED <<job, book, receipts, entry, lister, submitter>>

\* The live queue takes precedence over lagging accounting records.
Observed(live, past) == IF live.run # 0 THEN live ELSE past
AskHistory(t) ==
    /\ thread[t].at = "history"
    /\ \E line \in History \cup {NoLine} :            \* the last: no answer
          thread' = [thread EXCEPT ![t] =
              [@ EXCEPT !.at = "save", !.line = Observed(thread[t].line, line)]]
    /\ UNCHANGED <<job, book, row, stale, receipts, entry, lister, submitter>>

\* Mutant: an association is never dropped.
AnyJob(old, line) == TRUE
SameJob(old, line) == /\ line.dir = old.dir
                      /\ line.started = 0 \/ old.started \in {0, line.started}
Seen(old, line) ==
    [run |-> line.run, state |-> line.state,
     dir |-> line.dir,
     started |-> IF line.dated THEN line.started ELSE old.started,
     project |-> IF SameJob(old, line) THEN old.project ELSE NoProject,
     bound |-> IF SameJob(old, line) THEN old.bound ELSE NoDir]
\* Mutant: what is in no listing has ended.
MissingMeansOver(r) == IF r.run = 0 \/ r.state \in Terminal THEN r.state ELSE "COMPLETED"
Missing(r) == IF r.state \in Terminal THEN r.state ELSE "UNKNOWN"

\* The rows of 500 jobs are kept, and those of associated ones.
Kept(r) == {r, IF r.project = NoProject THEN NoRow ELSE r}
SaveRefresh(t) ==
    /\ thread[t].at = "save"
    /\ LET old == thread[t].row
           line == thread[t].line IN
       row' \in Kept(IF line = NoLine THEN [old EXCEPT !.state = Missing(old)]
                     ELSE Seen(old, line))
    /\ stale' = FALSE
    /\ AfterRefresh(t)
    /\ UNCHANGED <<job, book, receipts, entry, lister, submitter>>

\* associate: the job is known and its server answered; then it is located,
\* and only then the association is written, under the lock.
Known(t) ==
    /\ thread[t].at = "known"
    /\ \E r \in Loaded :
          IF r = NoRow \/ stale THEN Leave(t)
          ELSE thread' = [thread EXCEPT ![t] = [@ EXCEPT !.at = "locate", !.dir = r.dir]]
    /\ UNCHANGED <<job, book, row, stale, receipts, entry, lister, submitter>>

\* job_workdir must not contradict the row; a job that is gone has the row's.
Locations(t) == IF job.phase = "gone" THEN {thread[t].dir} ELSE {DirOf[job.run]} \cap {thread[t].dir}
Locate(t) ==
    /\ thread[t].at = "locate"
    /\ \/ \E d \in Locations(t) :
             thread' = [thread EXCEPT ![t] = [@ EXCEPT !.at = "write", !.dir = d]]
       \/ Leave(t)                                    \* nowhere, or not there
    /\ UNCHANGED <<job, book, row, stale, receipts, entry, lister, submitter>>

Associate(t) ==
    /\ thread[t].at = "write"
    /\ LockFree
    /\ \E r \in Loaded :
          IF r = NoRow \/ r.project \notin {NoProject, thread[t].for} THEN UNCHANGED row
          ELSE row' = [r EXCEPT !.dir = thread[t].dir, !.bound = thread[t].dir,
                                !.project = thread[t].for]
    /\ Leave(t)
    /\ UNCHANGED <<job, book, stale, receipts, entry, lister, submitter>>

Die(t) == /\ thread[t].at # "idle"
          /\ Leave(t)
          /\ UNCHANGED <<job, book, row, stale, receipts, entry, lister, submitter>>
-----------------------------------------------------------------------------
(* The ledger *)

\* observe: a line is what the job is now; a job in no listing is UNKNOWN,
\* when the listing had the history too.
Folded(line) == [run |-> line.run, state |-> line.state]
Inferred(e) == [e EXCEPT !.state = Missing(e)]

\* job.list and job.recent: ask, and fold in the answer when it comes.
List(l) ==
    /\ lister[l].at = "idle"
    /\ \E line \in Queue, next \in {"listed", "recent"} :
          lister' = [lister EXCEPT ![l] = [at |-> next, line |-> Folded(line)]]
    /\ UNCHANGED <<job, book, row, stale, receipts, entry, thread, submitter>>

Recent(l) ==
    /\ lister[l].at = "recent"
    /\ \/ \E line \in History :
             lister' = [lister EXCEPT ![l] =
                 [at |-> "both", line |-> Observed(lister[l].line, Folded(line))]]
       \/ lister' = [lister EXCEPT ![l] = IdleLister]          \* no answer
    /\ UNCHANGED <<job, book, row, stale, receipts, entry, thread, submitter>>

Observe(l) ==
    /\ \/ /\ lister[l].line.run # 0
          /\ lister[l].at \in {"listed", "both"}
          /\ entry' = lister[l].line
       \/ /\ lister[l].line.run = 0
          /\ \/ lister[l].at = "listed" /\ UNCHANGED entry
             \/ lister[l].at = "both" /\ entry' = Inferred(entry)
    /\ lister' = [lister EXCEPT ![l] = IdleLister]
    /\ UNCHANGED <<job, book, row, stale, receipts, thread, submitter>>

\* Terminal entries of thirty days ago, or beyond 200, are pruned.
Prune == /\ entry.state \in Terminal
         /\ entry' = NoEntry
         /\ UNCHANGED <<job, book, row, stale, receipts, thread, lister, submitter>>
-----------------------------------------------------------------------------
(* A submission through the client *)

\* The scheduler takes it; or another's, from a terminal.
Accept == /\ job.run < MaxRuns
          /\ job.phase \in Over \cup {"none"}
          /\ job' = [run |-> job.run + 1, phase |-> "queued"]
          /\ \/ UNCHANGED submitter
             \/ /\ submitter.at = "idle"
                /\ submitter' = [at |-> "record", run |-> job.run + 1]
          /\ UNCHANGED <<book, row, stale, receipts, entry, thread, lister>>

\* Mutant: the receipt replaces the row.
Restarted(r) == SubmittedRow(submitter.run)
\* Repeated receipts must not regress a terminal state.
Recorded(r) == IF r = NoRow THEN SubmittedRow(submitter.run) ELSE r
RecordSubmission ==
    /\ submitter.at = "record"
    /\ submitter' = [submitter EXCEPT !.at = "seed"]
    /\ \/ book = "center" /\ LockFree /\ \E r \in Loaded : row' = Recorded(r)
       \/ UNCHANGED row                                \* the row could not be written
    /\ UNCHANGED <<job, book, stale, receipts, entry, thread, lister>>

Seeded == [run |-> submitter.run, state |-> "PENDING"]
Seed == /\ submitter.at = "seed"
        /\ submitter' = [submitter EXCEPT !.at = "receipt"]
        /\ \/ book = "ledger" /\ entry' = Seeded
           \/ UNCHANGED entry                          \* ... nor the entry
        /\ UNCHANGED <<job, book, row, stale, receipts, thread, lister>>

KeepReceipt == /\ submitter.at = "receipt"
               /\ submitter' = IdleSubmitter
               /\ receipts' = receipts \cup {submitter.run}
               /\ UNCHANGED <<job, book, row, stale, entry, thread, lister>>

SubmitterDies == /\ submitter.at # "idle"
                 /\ submitter' = IdleSubmitter
                 /\ UNCHANGED <<job, book, row, stale, receipts, entry, thread, lister>>
-----------------------------------------------------------------------------
(* The scheduler *)

Turns == {<<"queued", "running">>, <<"running", "ending">>, <<"ending", "completed">>,
          <<"ending", "failed">>, <<"queued", "failed">>, <<"completed", "gone">>,
          <<"failed", "gone">>}
         \cup (IF Scheduler = "slurm" THEN {<<"queued", "configuring">>,
                                             <<"configuring", "running">>} ELSE {})
Advance == /\ \E turn \in Turns : job.phase = turn[1] /\ job' = [job EXCEPT !.phase = turn[2]]
           /\ UNCHANGED <<book, row, stale, receipts, entry, thread, lister, submitter>>
-----------------------------------------------------------------------------
CenterStep(t) == \/ \E p \in Projects \cup {NoProject} : Refresh(t, p)
                 \/ AskQueue(t) \/ AskHistory(t) \/ SaveRefresh(t)
                 \/ Known(t) \/ Locate(t) \/ Associate(t) \/ Die(t)
LedgerStep(l) == List(l) \/ Recent(l) \/ Observe(l)
Submission == Accept \/ RecordSubmission \/ Seed \/ KeepReceipt \/ SubmitterDies
Next == \/ Advance
        \/ Submission
        \/ book = "center" /\ \E t \in Threads : CenterStep(t)
        \/ book = "ledger" /\ (Prune \/ \E l \in Listers : LedgerStep(l))
Spec == Init /\ [][Next]_vars
-----------------------------------------------------------------------------
(* Properties *)

IsOver(r) == r < job.run \/ job.phase \in Over

\* What is shown as ended has ended, in the center and in the ledger, however
\* late the answers are and whatever the scheduler has forgotten: "Missing
\* queue/history records mean UNKNOWN, never completion", and COMPLETING is
\* not an end (spec/workflows.md).  So it is with PBS; with Slurm the gateway
\* reads COMPLETING and CONFIGURING as COMPLETED.
EndedTruly == \A shown \in {row, entry} :
                  shown.state \in Terminal => shown.run # 0 /\ IsOver(shown.run)

\* A row of the center that shows how a job ended keeps showing it, whatever
\* refreshes, late receipts and associations come, until another job has its
\* id or the rows of newer jobs crowd it out.
EndsStay == [][row.state \in Terminal /\ row'.run = row.run => row'.state = row.state]_row

\* An association is with the directory the row shows: a job that gets the id
\* of another, and runs elsewhere, does not inherit the other's project.
AssociationFits == row.project # NoProject => row.bound = row.dir
=============================================================================
