------------------------- MODULE WorkflowTasksProofs -------------------------
(***************************************************************************)
(* Theorems about WorkflowTasks for every set of plans, tokens, run        *)
(* instances and jobs.  The argument is one inductive invariant, IInv: it  *)
(* ties the record on disk and the point the lock holder has reached to    *)
(* what the scheduler has been told.  A second one, FInv, rests on it: it  *)
(* ties the end of a run to the end of its job.                            *)
(***************************************************************************)
EXTENDS WorkflowTasks, TLAPS

\* The points of a lock holder before and after the submission.
Writing == {"prepare", "preparing", "submit", "verify", "intent"}
Following == {"monitor", "poll", "check", "collect", "collecting", "finish"}

\* An instance belongs to one record, whose token was approved for its plan.
RecordsNamed ==
    \A p \in Plans :
       IF Recorded(p) THEN /\ run[p].inst \in Instances /\ home[run[p].inst] = p
                           /\ run[p].token \in Tokens /\ TokenPlan[run[p].token] = p
                      ELSE run[p].inst = NoInst /\ pc[p] \in {"idle", "probe"}
\* Write-ahead: without a submit row nothing was sent.
WriteAhead ==
    \A p \in Plans : Recorded(p) /\ ~run[p].intent => calls[run[p].inst] = 0
\* What the holder of a lock has established by the time it is at a point.
PointsReached ==
    \A p \in Plans : /\ pc[p] \in Writing => ~run[p].intent /\ ~KnownJob(p)
                     /\ pc[p] = "call" => /\ run[p].intent /\ ~KnownJob(p)
                                          /\ calls[run[p].inst] = 0
                     /\ pc[p] = "await" => run[p].intent /\ ~KnownJob(p)
                     /\ pc[p] \in Following => KnownJob(p)
\* The scheduler knows only of instances that called it.
SchedulerTraced ==
    /\ \A i \in Instances : home[i] = NoPlan => calls[i] = 0
    /\ \A i \in inflight : calls[i] > 0
    /\ \A j \in JobIds : jobInst[j] # NoInst => calls[jobInst[j]] > 0
\* A token pays only for its owner, and every call was paid.
LedgerBalanced ==
    /\ \A t \in Tokens : /\ ledger[t] = NoInst => spent[t] = 0
                         /\ ledger[t] # NoInst => /\ spent[t] <= calls[ledger[t]]
                                                  /\ TokenPlan[t] = home[ledger[t]]
    /\ SubmissionsApproved

IInv == /\ TypeOK /\ RecordsNamed /\ WriteAhead /\ PointsReached
        /\ SchedulerTraced /\ LedgerBalanced /\ JobIsOurs
        /\ AtMostOneSubmission
-----------------------------------------------------------------------------
(* Steps that touch one record and one lock, and nothing the scheduler or  *)
(* the ledger depends on.                                                  *)

Moves(p, r, point) == /\ run' = [run EXCEPT ![p] = r]
                      /\ pc' = [pc EXCEPT ![p] = point]
                      /\ op' \in [Plans -> Ops]
                      /\ tries' \in [Plans -> Nat]
                      /\ ready' \in [Plans -> Nat]
                      /\ UNCHANGED <<ledger, Elsewhere>>
SameCore(r, s) == /\ r.phase # Absent
                  /\ r.token = s.token /\ r.inst = s.inst
                  /\ r.intent = s.intent /\ r.job = s.job

\* A step that keeps the token, instance, submit row and job of its record
\* and stops where those allow preserves the invariant.
LEMMA LocalStep ==
    ASSUME IInv, NEW p \in Plans, NEW r \in Records, NEW point \in PCs \ {"call", "await"},
           Recorded(p), SameCore(r, run[p]), Moves(p, r, point),
           point \in Writing => ~run[p].intent /\ ~KnownJob(p),
           point \in Following => KnownJob(p)
    PROVE  IInv'
<1> USE DEF IInv, Moves
<1>1. TypeOK'
  BY DEF TypeOK, Elsewhere
<1>2. /\ run'[p] = r /\ \A q \in Plans \ {p} : run'[q] = run[q]
      /\ pc'[p] = point /\ \A q \in Plans \ {p} : pc'[q] = pc[q]
  BY DEF TypeOK
<1>3. RecordsNamed'
  BY <1>2 DEF RecordsNamed, Recorded, SameCore, Elsewhere
<1>4. WriteAhead'
  BY <1>2 DEF WriteAhead, Recorded, SameCore, Elsewhere
<1>5. PointsReached'
  BY <1>2 DEF PointsReached, KnownJob, SameCore, Elsewhere, Writing, Following
<1>6. SchedulerTraced' /\ LedgerBalanced' /\ AtMostOneSubmission'
  BY DEF SchedulerTraced, LedgerBalanced, SubmissionsApproved, AtMostOneSubmission, Elsewhere
<1>7. JobIsOurs'
  <2>1. \A q \in Plans : run'[q].job = run[q].job
    BY <1>2 DEF SameCore
  <2>2. jobInst' = jobInst /\ home' = home
    BY DEF Elsewhere
  <2>. QED
    BY <2>1, <2>2 DEF JobIsOurs, KnownJob
<1>. QED
  BY <1>1, <1>3, <1>4, <1>5, <1>6, <1>7

LEMMA BlockedTyped ==
    ASSUME NEW r \in Records, NEW why \in Reasons
    PROVE  /\ Blocked(r, why) \in Records /\ Blocked(r, why).phase # Absent
           /\ Blocked(r, why).token = r.token /\ Blocked(r, why).inst = r.inst
           /\ Blocked(r, why).intent = r.intent /\ Blocked(r, why).job = r.job
BY DEF Blocked, BlockStatus, Records, Phases, Statuses, Absent

\* Blocking a run keeps everything the invariant speaks of.
LEMMA BlockStep ==
    ASSUME IInv, NEW p \in Plans, NEW r \in Records, NEW why \in Reasons,
           Recorded(p), SameCore(r, run[p]), BlockWith(p, r, why), UNCHANGED Elsewhere
    PROVE  IInv'
<1> DEFINE b == Blocked(r, why)
<1>1. b \in Records /\ SameCore(b, run[p])
  BY BlockedTyped DEF SameCore
<1>2. Moves(p, b, "idle")
  BY DEF IInv, TypeOK, BlockWith, Save, Release, Moves, Ops
<1> HIDE DEF b
<1>. QED
  BY <1>1, <1>2, LocalStep DEF PCs, Writing, Following

LEMMA BlockKeeps ==
    ASSUME IInv, NEW p \in Plans, NEW why \in Reasons,
           Recorded(p), Block(p, why), UNCHANGED Elsewhere
    PROVE  IInv'
<1>1. run[p] \in Records /\ SameCore(run[p], run[p])
  BY DEF IInv, TypeOK, SameCore, Recorded
<1>. QED
  BY <1>1, BlockStep DEF Block

LEMMA RefuseKeeps ==
    ASSUME IInv, NEW p \in Plans, NEW writes \in BOOLEAN,
           Recorded(p), Refuse(p, writes), UNCHANGED Elsewhere
    PROVE  IInv'
<1>1. PICK why \in Refusals(p, writes) : Block(p, why)
  BY DEF Refuse
<1>2. why \in Reasons
  BY DEF Refusals, Reasons, StickyBlocks
<1>. QED
  BY <1>1, <1>2, BlockKeeps

\* The next step of the same record, with a fresh retry count or without.
LEMMA EnterKeeps ==
    ASSUME IInv, NEW p \in Plans, NEW r \in Records, NEW point \in PCs \ {"call", "await"},
           Recorded(p), SameCore(r, run[p]), Save(p, r),
           Enter(p, point) \/ Goto(p, point), UNCHANGED <<ledger, Elsewhere>>,
           point \in Writing => ~run[p].intent /\ ~KnownJob(p),
           point \in Following => KnownJob(p)
    PROVE  IInv'
<1>1. Moves(p, r, point)
  BY DEF IInv, TypeOK, Moves, Save, Enter, Goto
<1>. QED
  BY <1>1, LocalStep

LEMMA RetryKeeps ==
    ASSUME IInv, NEW p \in Plans, NEW r \in Records, Recorded(p), SameCore(r, run[p]),
           pc[p] \in {"preparing", "verify", "poll", "collecting"},
           RetryWith(p, r), UNCHANGED Elsewhere
    PROVE  IInv'
<1> DEFINE r2 == [r EXCEPT !.phase = "retrying"]
<1>1. r2 \in Records /\ SameCore(r2, run[p])
  BY DEF Records, SameCore, Phases, Absent
<1>2. Moves(p, r2, pc[p])
  BY DEF IInv, TypeOK, RetryWith, Save, Moves
<1>3. /\ pc[p] \in PCs \ {"call", "await"}
      /\ pc[p] \in Writing => ~run[p].intent /\ ~KnownJob(p)
      /\ pc[p] \in Following => KnownJob(p)
  BY DEF IInv, PointsReached, PCs, TypeOK
<1> HIDE DEF r2
<1>. QED
  BY <1>1, <1>2, <1>3, LocalStep

LEMMA TransportKeeps ==
    ASSUME IInv, NEW p \in Plans, Recorded(p), pc[p] \in {"preparing", "verify", "collecting"},
           TransportFails(p), UNCHANGED Elsewhere
    PROVE  IInv'
<1>1. run[p] \in Records /\ SameCore(run[p], run[p])
  BY DEF IInv, TypeOK, SameCore, Recorded
<1>2. CASE RetryWith(p, run[p])
  BY <1>1, <1>2, RetryKeeps
<1>3. CASE Block(p, "transport_error")
  BY <1>3, BlockKeeps DEF Reasons
<1>. QED
  BY <1>2, <1>3 DEF TransportFails

LEMMA StepFailsKeeps ==
    ASSUME IInv, NEW p \in Plans, Recorded(p), pc[p] \in {"preparing", "collecting"},
           StepFails(p), UNCHANGED Elsewhere
    PROVE  IInv'
<1>1. CASE TransportFails(p)
  BY <1>1, TransportKeeps
<1>2. CASE \E why \in {"step_failed", "auth_required"} : Block(p, why)
  BY <1>2, BlockKeeps DEF Reasons, StickyBlocks
<1>. QED
  BY <1>1, <1>2 DEF StepFails

\* Whoever works on a run holds the lock of a recorded run.
LEMMA HeldRecorded ==
    ASSUME IInv, NEW p \in Plans, pc[p] \notin {"idle", "probe"}
    PROVE  Recorded(p) /\ run[p] \in Records
BY DEF IInv, TypeOK, RecordsNamed
-----------------------------------------------------------------------------
(* The steps of admission *)

LEMMA StartRecord ==
    ASSUME NEW t \in Tokens, NEW i \in Instances
    PROVE  NewRecord(t, i, "admitting") \in Records
BY DEF NewRecord, Records, Phases, Statuses, SchedStates

LEMMA EnqueueNewKeeps ==
    ASSUME IInv, NEW p \in Plans, NEW t \in Tokens, EnqueueNew(p, t)
    PROVE  IInv'
<1>1. PICK i \in Instances : /\ home[i] = NoPlan
                             /\ Save(p, NewRecord(t, i, "admitting"))
                             /\ home' = [home EXCEPT ![i] = p]
  BY DEF EnqueueNew
<1> DEFINE r == NewRecord(t, i, "admitting")
<1>2. /\ r \in Records /\ r.phase # Absent /\ r.inst = i /\ r.token = t
      /\ r.job = NoJob
  BY StartRecord DEF NewRecord, Absent
<1> HIDE DEF r
<1>3. /\ run' = [run EXCEPT ![p] = r] /\ TokenPlan[t] = p
      /\ pc' = [pc EXCEPT ![p] = "activate"] /\ op' = [op EXCEPT ![p] = "enqueue"]
      /\ UNCHANGED <<tries, ready, ledger, calls, spent, inflight, jobInst, jobState, scheduler, now>>
  BY <1>1 DEF EnqueueNew, Save, Take, Fresh, r
<1>4. TypeOK'
  BY <1>1, <1>2, <1>3 DEF IInv, TypeOK, PCs, Ops
<1>5. /\ run'[p] = r /\ \A q \in Plans \ {p} : run'[q] = run[q]
      /\ pc'[p] = "activate" /\ \A q \in Plans \ {p} : pc'[q] = pc[q]
      /\ home'[i] = p /\ \A k \in Instances \ {i} : home'[k] = home[k]
      /\ calls[i] = 0
  BY <1>1, <1>3 DEF IInv, TypeOK, SchedulerTraced
<1>6. \A q \in Plans \ {p} : Recorded(q) => run[q].inst # i
  BY <1>1, PlanAssumption DEF IInv, RecordsNamed
<1>7. RecordsNamed'
  BY <1>2, <1>3, <1>5, <1>6 DEF IInv, RecordsNamed, Recorded
<1>8. WriteAhead' /\ PointsReached'
  BY <1>2, <1>3, <1>5, <1>6
  DEF IInv, WriteAhead, PointsReached, Recorded, KnownJob, Writing, Following
<1>9. SchedulerTraced' /\ AtMostOneSubmission'
  BY <1>3, <1>5, PlanAssumption DEF IInv, SchedulerTraced, AtMostOneSubmission
<1>10. LedgerBalanced'
  <2>1. SubmissionsApproved'
    BY <1>3, <1>5 DEF IInv, TypeOK, LedgerBalanced, SubmissionsApproved
  <2>2. \A u \in Tokens : ledger[u] # NoInst => ledger[u] # i
    BY <1>1, PlanAssumption, TokenAssumption DEF IInv, LedgerBalanced
  <2>. QED
    BY <1>3, <1>5, <2>1, <2>2 DEF IInv, TypeOK, LedgerBalanced
<1>11. JobIsOurs'
  <2>1. \A j \in JobIds : jobInst[j] # NoInst => jobInst[j] # i
    BY <1>5 DEF IInv, TypeOK, SchedulerTraced
  <2>2. \A q \in Plans \ {p} : KnownJob(q) => run[q].job \in JobIds
    BY DEF IInv, TypeOK, Records, KnownJob
  <2>3. \A j \in JobIds : jobInst[j] # NoInst => home'[jobInst[j]] = home[jobInst[j]]
    BY <2>1, <1>5 DEF IInv, TypeOK
  <2>4. \A q \in Plans : KnownJob(q)' => q # p /\ KnownJob(q) /\ run'[q].job = run[q].job
    BY <1>2, <1>5 DEF KnownJob
  <2>. SUFFICES ASSUME NEW q \in Plans, KnownJob(q)'
                PROVE  /\ jobInst'[run'[q].job] # NoInst
                       /\ Dir[home'[jobInst'[run'[q].job]]] = Dir[q]
    BY DEF JobIsOurs
  <2>5. /\ q # p /\ KnownJob(q) /\ run'[q].job = run[q].job
        /\ run[q].job \in JobIds /\ jobInst' = jobInst
    BY <1>3, <2>2, <2>4
  <2>6. /\ jobInst[run[q].job] # NoInst
        /\ Dir[home[jobInst[run[q].job]]] = Dir[q]
    BY <2>5 DEF IInv, JobIsOurs
  <2>7. home'[jobInst[run[q].job]] = home[jobInst[run[q].job]]
    BY <2>3, <2>5, <2>6
  <2>. QED
    BY <2>5, <2>6, <2>7
<1>. QED
  BY <1>4, <1>7, <1>8, <1>9, <1>10, <1>11 DEF IInv

\* A step that only takes the lock, or gives it back.
LEMMA LockKeeps ==
    ASSUME IInv, NEW p \in Plans, NEW point \in {"idle", "probe", "activate"},
           point = "activate" => Recorded(p),
           pc' = [pc EXCEPT ![p] = point],
           op' \in [Plans -> Ops], tries' \in [Plans -> Nat], ready' \in [Plans -> Nat],
           UNCHANGED <<run, ledger, Elsewhere>>
    PROVE  IInv'
<1>1. TypeOK'
  BY DEF IInv, TypeOK, PCs, Elsewhere
<1>2. pc'[p] = point /\ \A q \in Plans \ {p} : pc'[q] = pc[q]
  BY DEF IInv, TypeOK
<1>3. RecordsNamed' /\ WriteAhead'
  BY <1>2 DEF IInv, RecordsNamed, WriteAhead, Recorded, Elsewhere
<1>4. PointsReached'
  BY <1>2 DEF IInv, PointsReached, KnownJob, Writing, Following, Elsewhere
<1>5. SchedulerTraced' /\ LedgerBalanced' /\ AtMostOneSubmission' /\ JobIsOurs'
  BY DEF IInv, SchedulerTraced, LedgerBalanced, SubmissionsApproved, AtMostOneSubmission,
         JobIsOurs, KnownJob, Elsewhere
<1>. QED
  BY <1>1, <1>3, <1>4, <1>5 DEF IInv

LEMMA EnqueueExistingKeeps ==
    ASSUME IInv, NEW p \in Plans, NEW what \in {"enqueue", "extend", "again"}, Recorded(p),
           Take(p, what, "activate"), UNCHANGED <<run, ledger, ready, Elsewhere>>
    PROVE  IInv'
<1>1. op' \in [Plans -> Ops] /\ tries' \in [Plans -> Nat] /\ ready' \in [Plans -> Nat]
  BY DEF IInv, TypeOK, Take, Ops
<1>. QED
  BY <1>1, LockKeeps DEF Take

LEMMA EnqueueReplacementKeeps ==
    ASSUME IInv, NEW p \in Plans, NEW t \in Tokens, EnqueueReplacement(p, t)
    PROVE  IInv'
<1> DEFINE r == [run[p] EXCEPT !.token = t, !.phase = "admitting"]
<1>1. run[p] \in Records /\ Recorded(p) /\ pc[p] = "idle" /\ TokenPlan[t] = p
  BY DEF IInv, TypeOK, EnqueueReplacement, Fresh, Take
<1>2. /\ r \in Records /\ r.phase # Absent /\ r.inst = run[p].inst /\ r.token = t
      /\ r.intent = run[p].intent /\ r.job = run[p].job
  BY <1>1 DEF Records, Phases, Absent
<1>3. /\ run' = [run EXCEPT ![p] = r] /\ pc' = [pc EXCEPT ![p] = "activate"]
      /\ UNCHANGED <<tries, ready, ledger, Elsewhere>>
  BY DEF EnqueueReplacement, Take, Save
<1>4. op' \in [Plans -> Ops]
  BY DEF IInv, TypeOK, EnqueueReplacement, Take, Ops
<1> HIDE DEF r
<1>5. TypeOK'
  BY <1>2, <1>3, <1>4 DEF IInv, TypeOK, PCs, Elsewhere
<1>6. /\ run'[p] = r /\ \A q \in Plans \ {p} : run'[q] = run[q]
      /\ pc'[p] = "activate" /\ \A q \in Plans \ {p} : pc'[q] = pc[q]
  BY <1>3 DEF IInv, TypeOK
<1>7. RecordsNamed' /\ WriteAhead'
  BY <1>1, <1>2, <1>3, <1>6 DEF IInv, RecordsNamed, WriteAhead, Recorded, Elsewhere
<1>8. PointsReached'
  BY <1>3, <1>6 DEF IInv, PointsReached, KnownJob, Writing, Following, Elsewhere
<1>9. SchedulerTraced' /\ LedgerBalanced' /\ AtMostOneSubmission'
  BY <1>3 DEF IInv, SchedulerTraced, LedgerBalanced, SubmissionsApproved,
              AtMostOneSubmission, Elsewhere
<1>10. JobIsOurs'
  <2>1. \A q \in Plans : run'[q].job = run[q].job
    BY <1>2, <1>6
  <2>2. jobInst' = jobInst /\ home' = home
    BY <1>3 DEF Elsewhere
  <2>. QED
    BY <2>1, <2>2 DEF IInv, JobIsOurs, KnownJob
<1>. QED
  BY <1>5, <1>7, <1>8, <1>9, <1>10 DEF IInv

\* The ledger gives a free token to the instance that names it.
LEMMA ClaimKeeps ==
    ASSUME IInv, NEW p \in Plans, pc[p] = "activate", Claims(p), UNCHANGED Elsewhere
    PROVE  IInv'
<1> DEFINE t == run[p].token
           i == run[p].inst
<1>1. /\ Recorded(p) /\ run[p] \in Records /\ t \in Tokens /\ i \in Instances
      /\ home[i] = p /\ TokenPlan[t] = p
  BY HeldRecorded DEF IInv, RecordsNamed
<1>2. /\ ledger[t] = NoInst /\ ledger' = [ledger EXCEPT ![t] = i]
      /\ pc' = [pc EXCEPT ![p] = "queue"] /\ UNCHANGED <<op, tries, ready, run, Elsewhere>>
  BY DEF Claims, Goto
<1> HIDE DEF t, i
<1>3. TypeOK'
  BY <1>1, <1>2 DEF IInv, TypeOK, PCs, Elsewhere
<1>4. /\ pc'[p] = "queue" /\ \A q \in Plans \ {p} : pc'[q] = pc[q]
      /\ ledger'[t] = i /\ \A u \in Tokens \ {t} : ledger'[u] = ledger[u]
  BY <1>1, <1>2 DEF IInv, TypeOK
<1>5. RecordsNamed' /\ WriteAhead' /\ SchedulerTraced' /\ AtMostOneSubmission' /\ JobIsOurs'
  BY <1>1, <1>2, <1>4 DEF IInv, RecordsNamed, WriteAhead, Recorded, SchedulerTraced,
                          AtMostOneSubmission, JobIsOurs, KnownJob, Elsewhere
<1>6. PointsReached'
  BY <1>2, <1>4 DEF IInv, PointsReached, KnownJob, Writing, Following, Elsewhere
<1>7. LedgerBalanced'
  <2>1. SubmissionsApproved'
    <3>. SUFFICES ASSUME NEW k \in Instances, calls[k] > 0
                  PROVE  \E u \in Tokens : ledger'[u] = k /\ TokenPlan[u] = home[k]
      BY <1>2 DEF SubmissionsApproved, Elsewhere
    <3>1. PICK u \in Tokens : ledger[u] = k /\ TokenPlan[u] = home[k]
      BY DEF IInv, LedgerBalanced, SubmissionsApproved
    <3>2. u # t
      BY <3>1, <1>2, InstAssumption
    <3>. QED
      BY <3>1, <3>2, <1>4
  <2>2. i # NoInst /\ calls[i] \in Nat /\ spent[t] = 0
    BY <1>1, <1>2, InstAssumption DEF IInv, TypeOK, LedgerBalanced
  <2>. QED
    BY <1>1, <1>2, <1>4, <2>1, <2>2 DEF IInv, LedgerBalanced, Elsewhere
<1>. QED
  BY <1>3, <1>5, <1>6, <1>7 DEF IInv

LEMMA ActivateKeeps ==
    ASSUME IInv, NEW p \in Plans, Activate(p)
    PROVE  IInv'
<1>1. pc[p] = "activate" /\ UNCHANGED Elsewhere /\ Recorded(p) /\ run[p] \in Records
  BY HeldRecorded DEF Activate
<1>2. CASE Claims(p)
  BY <1>1, <1>2, ClaimKeeps
<1>3. CASE Owns(p)
  BY <1>1, <1>3, EnterKeeps DEF Owns, OwnsToken, SameCore, Save, IInv, TypeOK, PCs,
                                Writing, Following, Recorded
<1>4. CASE Release(p) /\ UNCHANGED <<run, ledger, ready>>
  <2>1. op' \in [Plans -> Ops] /\ tries' \in [Plans -> Nat] /\ ready' \in [Plans -> Nat]
    BY <1>4 DEF IInv, TypeOK, Release, Ops
  <2>. QED
    BY <1>1, <1>4, <2>1, LockKeeps DEF Release
<1>5. CASE \E why \in {"server_changed", "approval_required", "invalid_plan"} : Block(p, why)
  BY <1>1, <1>5, BlockKeeps DEF Reasons, StickyBlocks
<1>. QED
  BY <1>2, <1>3, <1>4, <1>5 DEF Activate, ActivationBlocked, UsedByAnother

LEMMA QueueKeeps ==
    ASSUME IInv, NEW p \in Plans, Queue(p)
    PROVE  IInv'
<1> DEFINE r == IF run[p].phase = "admitting" THEN [run[p] EXCEPT !.phase = "queued"]
                ELSE run[p]
<1>1. UNCHANGED Elsewhere /\ Recorded(p) /\ run[p] \in Records
  BY HeldRecorded DEF Queue
<1>2. r \in Records /\ SameCore(r, run[p])
  BY <1>1 DEF Records, SameCore, Phases, Absent, Recorded
<1>3. \E point \in {"idle", "start", "admit"} : Moves(p, r, point)
  BY BoundAssumption
  DEF IInv, TypeOK, Queue, Moves, Save, HandOver, Release, Goto, Ops
<1> HIDE DEF r
<1>. QED
  BY <1>1, <1>2, <1>3, LocalStep DEF PCs, Writing, Following

LEMMA AdmitKeeps ==
    ASSUME IInv, NEW p \in Plans, Admit(p)
    PROVE  IInv'
<1> DEFINE writes == ~KnownJob(p) /\ ~Uncertain(p)
           d == IF op[p] = "extend" /\ KnownJob(p) THEN Extended(p) ELSE run[p].deadline
           r == [run[p] EXCEPT !.phase = "queued", !.reason = "none", !.status = "running",
                               !.deadline = d]
<1>1. UNCHANGED Elsewhere /\ Recorded(p) /\ run[p] \in Records /\ writes \in BOOLEAN
  BY HeldRecorded DEF Admit
<1>2. CASE Refuse(p, writes)
  BY <1>1, <1>2, RefuseKeeps
<1>3. CASE Block(p, "submit_uncertain")
  BY <1>1, <1>3, BlockKeeps DEF Reasons, StickyBlocks
<1>4. CASE Save(p, r) /\ HandOver(p) /\ UNCHANGED ledger
  <2>1. Extended(p) \in Nat
    BY BoundAssumption DEF Extended, IInv, TypeOK
  <2>2. d \in Nat
    BY <1>1, <2>1 DEF Records
  <2> HIDE DEF d
  <2>3. r \in Records /\ SameCore(r, run[p])
    BY <1>1, <2>2 DEF Records, SameCore, Phases, Statuses, Absent
  <2>4. Moves(p, r, "idle")
    BY <1>1, <1>4, BoundAssumption
    DEF IInv, TypeOK, Moves, Save, HandOver, Release, Ops
  <2> HIDE DEF r
  <2>. QED
    BY <1>1, <2>3, <2>4, LocalStep DEF PCs, Writing, Following
<1>. QED
  BY <1>2, <1>3, <1>4 DEF Admit
-----------------------------------------------------------------------------
(* The steps of processes around the lock *)

LEMMA AcquireKeeps ==
    ASSUME IInv, NEW p \in Plans, Acquire(p)
    PROVE  IInv'
<1>1. /\ op' \in [Plans -> Ops] /\ tries' \in [Plans -> Nat] /\ ready' \in [Plans -> Nat]
      /\ UNCHANGED <<run, ledger, Elsewhere>>
  BY DEF IInv, TypeOK, Acquire, Take, Ops
<1>2. CASE Recorded(p) /\ Take(p, "execute", "activate")
  BY <1>1, <1>2, LockKeeps DEF Take
<1>3. CASE UNCHANGED <<pc, op, tries>>
  <2>1. pc' = [pc EXCEPT ![p] = "idle"]
    BY <1>3 DEF Acquire, IInv, TypeOK
  <2>. QED
    BY <1>1, <2>1, LockKeeps
<1>. QED
  BY <1>2, <1>3 DEF Acquire

\* Steps that change only how many processes wait to execute.
LEMMA ReadyKeeps ==
    ASSUME IInv, ready' \in [Plans -> Nat], UNCHANGED <<run, ledger, pc, op, tries, Elsewhere>>
    PROVE  IInv'
<1>1. TypeOK'
  BY DEF IInv, TypeOK, Elsewhere
<1>2. RecordsNamed' /\ WriteAhead' /\ PointsReached'
  BY DEF IInv, RecordsNamed, WriteAhead, PointsReached, Recorded, KnownJob, Elsewhere
<1>3. SchedulerTraced' /\ LedgerBalanced' /\ AtMostOneSubmission' /\ JobIsOurs'
  BY DEF IInv, SchedulerTraced, LedgerBalanced, SubmissionsApproved, AtMostOneSubmission,
         JobIsOurs, KnownJob, Elsewhere
<1>. QED
  BY <1>1, <1>2, <1>3 DEF IInv

LEMMA LaunchFailsKeeps ==
    ASSUME IInv, NEW p \in Plans, LaunchFails(p)
    PROVE  IInv'
<1> DEFINE r == Blocked(run[p], "launch_failed")
<1>1. UNCHANGED Elsewhere /\ Recorded(p) /\ run[p] \in Records
  BY DEF LaunchFails, IInv, TypeOK
<1>2. r \in Records /\ SameCore(r, run[p])
  BY <1>1, BlockedTyped DEF Reasons, SameCore, Recorded
<1>3. Moves(p, r, "idle")
  BY DEF LaunchFails, IInv, TypeOK, Moves, Save
<1> HIDE DEF r
<1>. QED
  BY <1>1, <1>2, <1>3, LocalStep DEF PCs, Writing, Following

LEMMA DeleteRecordKeeps ==
    ASSUME IInv, NEW p \in Plans, DeleteRecord(p)
    PROVE  IInv'
<1>1. /\ run' = [run EXCEPT ![p] = NoRecord] /\ pc[p] = "idle"
      /\ UNCHANGED <<ledger, pc, op, tries, ready, Elsewhere>>
  BY DEF DeleteRecord, Save, local
<1>2. NoRecord \in Records
  BY DEF NoRecord, NewRecord, Records, Statuses, SchedStates
<1>3. NoRecord.phase = Absent /\ NoRecord.inst = NoInst /\ NoRecord.job = NoJob
  BY DEF NoRecord, NewRecord
<1> HIDE DEF NoRecord
<1>4. TypeOK'
  BY <1>1, <1>2 DEF IInv, TypeOK, Elsewhere
<1>5. run'[p] = NoRecord /\ \A q \in Plans \ {p} : run'[q] = run[q]
  BY <1>1 DEF IInv, TypeOK
<1>6. RecordsNamed' /\ WriteAhead' /\ PointsReached'
  BY <1>1, <1>3, <1>5 DEF IInv, RecordsNamed, WriteAhead, PointsReached, Recorded, KnownJob,
                          Writing, Following, Elsewhere
<1>7. SchedulerTraced' /\ LedgerBalanced' /\ AtMostOneSubmission'
  BY <1>1 DEF IInv, SchedulerTraced, LedgerBalanced, SubmissionsApproved,
              AtMostOneSubmission, Elsewhere
<1>8. JobIsOurs'
  <2>1. \A q \in Plans : KnownJob(q)' => KnownJob(q) /\ run'[q].job = run[q].job
    BY <1>3, <1>5 DEF KnownJob
  <2>2. jobInst' = jobInst /\ home' = home
    BY <1>1 DEF Elsewhere
  <2>. QED
    BY <2>1, <2>2 DEF IInv, JobIsOurs
<1>. QED
  BY <1>4, <1>6, <1>7, <1>8 DEF IInv
-----------------------------------------------------------------------------
(* The steps of execution *)

LEMMA StartKeeps ==
    ASSUME IInv, NEW p \in Plans, Start(p)
    PROVE  IInv'
<1> DEFINE r == [run[p] EXCEPT !.reason = "none", !.status = "running"]
<1>1. UNCHANGED Elsewhere /\ Recorded(p) /\ run[p] \in Records
  BY HeldRecorded DEF Start
<1>2. CASE Refuse(p, FALSE)
  BY <1>1, <1>2, RefuseKeeps
<1>3. CASE Block(p, "submit_uncertain")
  BY <1>1, <1>3, BlockKeeps DEF Reasons, StickyBlocks
<1>4. CASE ~Uncertain(p) /\ Save(p, r) /\ Enter(p, FirstStep(p)) /\ UNCHANGED ledger
  <2>1. r \in Records /\ SameCore(r, run[p])
    BY <1>1 DEF Records, SameCore, Statuses, Recorded
  <2>2. /\ FirstStep(p) \in PCs \ {"call", "await"}
        /\ FirstStep(p) \in Writing => ~run[p].intent /\ ~KnownJob(p)
        /\ FirstStep(p) \in Following => KnownJob(p)
    BY <1>1, <1>4 DEF FirstStep, Uncertain, PCs, Writing, Following, Records
  <2> HIDE DEF r
  <2>. QED
    BY <1>1, <1>4, <2>1, <2>2, EnterKeeps
<1>. QED
  BY <1>2, <1>3, <1>4 DEF Start

\* The steps that journal a phase and go on.
LEMMA BeginKeeps ==
    ASSUME IInv, NEW p \in Plans, NEW writes \in BOOLEAN, NEW phase \in Phases,
           NEW point \in PCs \ {"idle", "probe"}, NEW next \in PCs \ {"call", "await"},
           Begin(p, point, phase, writes, next),
           next \in Writing => point \in Writing, next \in Following => point \in Following
    PROVE  IInv'
<1> DEFINE r == [run[p] EXCEPT !.phase = phase]
<1>1. UNCHANGED Elsewhere /\ Recorded(p) /\ run[p] \in Records /\ pc[p] = point
  BY HeldRecorded DEF Begin
<1>2. CASE Refuse(p, writes)
  BY <1>1, <1>2, RefuseKeeps
<1>3. CASE Save(p, r) /\ Enter(p, next) /\ UNCHANGED ledger
  <2>1. r \in Records /\ SameCore(r, run[p])
    BY <1>1 DEF Records, SameCore, Phases, Absent
  <2>2. /\ next \in Writing => ~run[p].intent /\ ~KnownJob(p)
        /\ next \in Following => KnownJob(p)
    BY <1>1 DEF IInv, PointsReached
  <2> HIDE DEF r
  <2>. QED
    BY <1>1, <1>3, <2>1, <2>2, EnterKeeps
<1>. QED
  BY <1>2, <1>3 DEF Begin

LEMMA PrepareKeeps ==
    ASSUME IInv, NEW p \in Plans, Prepare(p)
    PROVE  IInv'
<1> DEFINE r == [run[p] EXCEPT !.prepared = TRUE]
<1>1. UNCHANGED Elsewhere /\ Recorded(p) /\ run[p] \in Records /\ pc[p] = "preparing"
  BY HeldRecorded DEF Prepare
<1>2. CASE Refuse(p, TRUE)
  BY <1>1, <1>2, RefuseKeeps
<1>3. CASE StepFails(p)
  BY <1>1, <1>3, StepFailsKeeps
<1>4. CASE Save(p, r) /\ Enter(p, "submit") /\ UNCHANGED ledger
  <2>1. r \in Records /\ SameCore(r, run[p])
    BY <1>1 DEF Records, SameCore, Recorded
  <2>2. ~run[p].intent /\ ~KnownJob(p)
    BY <1>1 DEF IInv, PointsReached, Writing
  <2> HIDE DEF r
  <2>. QED
    BY <1>1, <1>4, <2>1, <2>2, EnterKeeps DEF PCs, Following
<1>. QED
  BY <1>2, <1>3, <1>4 DEF Prepare

LEMMA BeginSubmitKeeps ==
    ASSUME IInv, NEW p \in Plans, BeginSubmit(p)
    PROVE  IInv'
<1> DEFINE r == [run[p] EXCEPT !.phase = "preparing"]
<1>1. UNCHANGED Elsewhere /\ Recorded(p) /\ run[p] \in Records /\ pc[p] = "submit"
  BY HeldRecorded DEF BeginSubmit
<1>2. CASE Refuse(p, TRUE)
  BY <1>1, <1>2, RefuseKeeps
<1>3. CASE Block(p, "submit_uncertain")
  BY <1>1, <1>3, BlockKeeps DEF Reasons, StickyBlocks
<1>4. CASE Save(p, r) /\ Enter(p, "verify") /\ UNCHANGED ledger
  <2>1. r \in Records /\ SameCore(r, run[p])
    BY <1>1 DEF Records, SameCore, Phases, Absent
  <2>2. ~run[p].intent /\ ~KnownJob(p)
    BY <1>1 DEF IInv, PointsReached, Writing
  <2> HIDE DEF r
  <2>. QED
    BY <1>1, <1>4, <2>1, <2>2, EnterKeeps DEF PCs, Following
<1>. QED
  BY <1>2, <1>3, <1>4 DEF BeginSubmit

LEMMA VerifyRemoteKeeps ==
    ASSUME IInv, NEW p \in Plans, VerifyRemote(p)
    PROVE  IInv'
<1>1. UNCHANGED Elsewhere /\ Recorded(p) /\ run[p] \in Records /\ pc[p] = "verify"
  BY HeldRecorded DEF VerifyRemote
<1>2. CASE Refuse(p, TRUE)
  BY <1>1, <1>2, RefuseKeeps
<1>3. CASE TransportFails(p)
  BY <1>1, <1>3, TransportKeeps
<1>4. CASE \E why \in {"inputs_changed", "auth_required"} : Block(p, why)
  BY <1>1, <1>4, BlockKeeps DEF Reasons, StickyBlocks
<1>5. CASE Enter(p, "intent") /\ UNCHANGED <<run, ledger>>
  <2>1. ~run[p].intent /\ ~KnownJob(p)
    BY <1>1 DEF IInv, PointsReached, Writing
  <2>2. Save(p, run[p]) /\ SameCore(run[p], run[p])
    BY <1>1, <1>5 DEF IInv, TypeOK, Save, SameCore, Recorded
  <2>. QED
    BY <1>1, <1>5, <2>1, <2>2, EnterKeeps DEF PCs, Following
<1>. QED
  BY <1>2, <1>3, <1>4, <1>5 DEF VerifyRemote

\* The submit row is written, and nothing has been sent before it.
LEMMA JournalSubmitKeeps ==
    ASSUME IInv, NEW p \in Plans, JournalSubmit(p)
    PROVE  IInv'
<1> DEFINE r == SubmitRow(p)
<1>1. /\ UNCHANGED <<ledger, Elsewhere>> /\ Recorded(p) /\ run[p] \in Records
      /\ pc[p] = "intent" /\ ~run[p].intent /\ ~KnownJob(p) /\ calls[run[p].inst] = 0
  BY HeldRecorded DEF JournalSubmit, IInv, PointsReached, Writing, WriteAhead
<1>2. /\ r \in Records /\ r.phase # Absent /\ r.token = run[p].token /\ r.inst = run[p].inst
      /\ r.intent = TRUE /\ r.job = NoJob
  BY <1>1 DEF SubmitRow, Records, Phases, Absent, KnownJob, IInv, TypeOK
<1>3. /\ run' = [run EXCEPT ![p] = r] /\ pc' = [pc EXCEPT ![p] = "call"]
      /\ tries' \in [Plans -> Nat] /\ UNCHANGED <<op, ready>>
  BY DEF JournalSubmit, Save, Enter, IInv, TypeOK
<1> HIDE DEF r
<1>4. TypeOK'
  BY <1>1, <1>2, <1>3 DEF IInv, TypeOK, PCs, Elsewhere
<1>5. /\ run'[p] = r /\ \A q \in Plans \ {p} : run'[q] = run[q]
      /\ pc'[p] = "call" /\ \A q \in Plans \ {p} : pc'[q] = pc[q]
  BY <1>3 DEF IInv, TypeOK
<1>6. RecordsNamed' /\ WriteAhead'
  BY <1>1, <1>2, <1>5 DEF IInv, RecordsNamed, WriteAhead, Recorded, Elsewhere
<1>7. PointsReached'
  BY <1>1, <1>2, <1>5 DEF IInv, PointsReached, KnownJob, Writing, Following, Elsewhere
<1>8. SchedulerTraced' /\ LedgerBalanced' /\ AtMostOneSubmission'
  BY <1>1 DEF IInv, SchedulerTraced, LedgerBalanced, SubmissionsApproved,
              AtMostOneSubmission, Elsewhere
<1>9. JobIsOurs'
  <2>1. \A q \in Plans : KnownJob(q)' => KnownJob(q) /\ run'[q].job = run[q].job
    BY <1>2, <1>5 DEF KnownJob
  <2>2. jobInst' = jobInst /\ home' = home
    BY <1>1 DEF Elsewhere
  <2>. QED
    BY <2>1, <2>2 DEF IInv, JobIsOurs
<1>. QED
  BY <1>4, <1>6, <1>7, <1>8, <1>9 DEF IInv

\* The one step that submits.
Submits(p) == /\ pc[p] = "call" /\ Accepts(p, TRUE)
              /\ calls' = [calls EXCEPT ![run[p].inst] = @ + 1]
              /\ spent' = [spent EXCEPT ![run[p].token] = @ + 1]
              /\ inflight' = inflight \cup {run[p].inst}
              /\ Goto(p, "await")
              /\ UNCHANGED <<run, ledger, home, jobInst, jobState, scheduler, now>>

LEMMA SubmitsKeeps ==
    ASSUME IInv, NEW p \in Plans, Submits(p)
    PROVE  IInv'
<1> DEFINE i == run[p].inst
           t == run[p].token
<1>1. /\ Recorded(p) /\ i \in Instances /\ home[i] = p /\ t \in Tokens /\ TokenPlan[t] = p
      /\ run[p].intent /\ ~KnownJob(p) /\ calls[i] = 0 /\ ledger[t] = i
  BY HeldRecorded DEF Submits, IInv, RecordsNamed, PointsReached, Accepts, OwnsToken
<1>2. /\ calls' = [calls EXCEPT ![i] = 1] /\ spent' = [spent EXCEPT ![t] = @ + 1]
      /\ inflight' = inflight \cup {i} /\ pc' = [pc EXCEPT ![p] = "await"]
      /\ UNCHANGED <<run, ledger, op, tries, ready, home, jobInst, jobState, scheduler, now>>
  BY <1>1 DEF Submits, Goto
<1>3. \A q \in Plans \ {p} : Recorded(q) => run[q].inst # i
  BY <1>1 DEF IInv, RecordsNamed
<1> HIDE DEF i, t
<1>4. TypeOK'
  BY <1>1, <1>2 DEF IInv, TypeOK, PCs
<1>5. /\ pc'[p] = "await" /\ \A q \in Plans \ {p} : pc'[q] = pc[q]
      /\ calls'[i] = 1 /\ \A k \in Instances \ {i} : calls'[k] = calls[k]
      /\ spent'[t] = spent[t] + 1 /\ \A u \in Tokens \ {t} : spent'[u] = spent[u]
  BY <1>1, <1>2 DEF IInv, TypeOK
<1>6. RecordsNamed' /\ AtMostOneSubmission'
  BY <1>1, <1>2, <1>5 DEF IInv, RecordsNamed, Recorded, AtMostOneSubmission
<1>7. WriteAhead' /\ PointsReached'
  <2>1. \A q \in Plans \ {p} : Recorded(q) => calls'[run[q].inst] = calls[run[q].inst]
    BY <1>3, <1>5 DEF IInv, RecordsNamed
  <2>2. \A q \in Plans \ {p} : pc[q] = "call" => Recorded(q)
    BY DEF IInv, RecordsNamed
  <2>. QED
    BY <1>1, <1>2, <1>5, <2>1, <2>2
    DEF IInv, WriteAhead, PointsReached, Recorded, KnownJob, Writing, Following, i
<1>8. SchedulerTraced' /\ JobIsOurs'
  <2>1. \A k \in Instances : calls'[k] = calls[k] \/ (k = i /\ calls'[k] = 1)
    BY <1>5
  <2>2. i # NoInst /\ home[i] # NoPlan
    BY <1>1, InstAssumption, PlanAssumption
  <2>3. JobIsOurs'
    BY <1>2 DEF IInv, JobIsOurs, KnownJob
  <2>4. \A j \in JobIds : jobInst[j] # NoInst => jobInst[j] \in Instances /\ calls[jobInst[j]] > 0
    BY DEF IInv, TypeOK, SchedulerTraced
  <2>. QED
    BY <1>1, <1>2, <2>1, <2>2, <2>3, <2>4 DEF IInv, TypeOK, SchedulerTraced
<1>9. LedgerBalanced'
  <2>1. SubmissionsApproved'
    BY <1>1, <1>2, <1>5 DEF IInv, LedgerBalanced, SubmissionsApproved
  <2>2. spent[t] = 0 /\ ledger[t] # NoInst
    BY <1>1, InstAssumption DEF IInv, TypeOK, LedgerBalanced
  <2>3. \A u \in Tokens : ledger[u] # NoInst => ledger[u] \in Instances
    BY DEF IInv, TypeOK
  <2>4. \A u \in Tokens : ledger[u] # NoInst => calls'[ledger[u]] >= calls[ledger[u]]
    BY <1>1, <1>5, <2>3 DEF IInv, TypeOK
  <2>5. ASSUME NEW u \in Tokens, ledger[u] # NoInst
        PROVE  spent'[u] <= calls'[ledger[u]] /\ TokenPlan[u] = home[ledger[u]]
    <3>1. CASE u = t
      BY <1>1, <1>5, <2>2, <3>1
    <3>2. CASE u # t
      BY <1>5, <2>3, <2>4, <2>5, <3>2, <1>4 DEF IInv, TypeOK, LedgerBalanced
    <3>. QED
      BY <3>1, <3>2
  <2>6. \A u \in Tokens : ledger[u] = NoInst => spent'[u] = 0
    BY <1>5, <2>2 DEF IInv, LedgerBalanced
  <2>. QED
    BY <1>2, <2>1, <2>5, <2>6 DEF LedgerBalanced
<1>. QED
  BY <1>4, <1>6, <1>7, <1>8, <1>9 DEF IInv

LEMMA CallSchedulerKeeps ==
    ASSUME IInv, NEW p \in Plans, CallScheduler(p)
    PROVE  IInv'
<1>1. CASE Refuse(p, TRUE) /\ UNCHANGED Elsewhere
  BY <1>1, HeldRecorded, RefuseKeeps DEF CallScheduler
<1>2. CASE Submits(p)
  BY <1>2, SubmitsKeeps
<1>. QED
  BY <1>1, <1>2 DEF CallScheduler, Submits

\* A run gets its job: from the scheduler's answer, or from a person.
LEMMA JobKeeps ==
    ASSUME IInv, NEW p \in Plans, NEW r \in Records, NEW point \in {"idle", "monitor"},
           Recorded(p), run[p].intent, Moves(p, r, point), Evidence(p, r.job),
           r.job \in JobIds, r.phase # Absent, r.token = run[p].token,
           r.inst = run[p].inst, r.intent = run[p].intent
    PROVE  IInv'
<1>1. /\ run' = [run EXCEPT ![p] = r] /\ pc' = [pc EXCEPT ![p] = point]
      /\ op' \in [Plans -> Ops] /\ tries' \in [Plans -> Nat] /\ ready' \in [Plans -> Nat]
      /\ UNCHANGED <<ledger, home, calls, spent, inflight, jobInst, jobState, scheduler, now>>
  BY DEF Moves, Elsewhere
<1>2. r.job # NoJob
  BY JobAssumption
<1>3. TypeOK'
  BY <1>1 DEF IInv, TypeOK, PCs
<1>4. /\ run'[p] = r /\ \A q \in Plans \ {p} : run'[q] = run[q]
      /\ pc'[p] = point /\ \A q \in Plans \ {p} : pc'[q] = pc[q]
  BY <1>1 DEF IInv, TypeOK
<1>5. RecordsNamed' /\ WriteAhead'
  <2>1. \A q \in Plans : /\ Recorded(q)' <=> Recorded(q)
                         /\ run'[q].inst = run[q].inst /\ run'[q].token = run[q].token
                         /\ run'[q].intent = run[q].intent
    BY <1>4 DEF Recorded
  <2>2. \A q \in Plans : ~Recorded(q) => pc'[q] = pc[q]
    BY <1>4
  <2>. QED
    BY <1>1, <2>1, <2>2 DEF IInv, RecordsNamed, WriteAhead
<1>6. PointsReached'
  BY <1>1, <1>2, <1>4 DEF IInv, PointsReached, KnownJob, Writing, Following
<1>7. SchedulerTraced' /\ LedgerBalanced' /\ AtMostOneSubmission'
  BY <1>1 DEF IInv, SchedulerTraced, LedgerBalanced, SubmissionsApproved, AtMostOneSubmission
<1>8. JobIsOurs'
  <2>1. \A q \in Plans \ {p} : KnownJob(q)' => KnownJob(q) /\ run'[q].job = run[q].job
    BY <1>4 DEF KnownJob
  <2>2. jobInst[r.job] # NoInst /\ Dir[home[jobInst[r.job]]] = Dir[p]
    BY DEF Evidence
  <2>. SUFFICES ASSUME NEW q \in Plans, KnownJob(q)'
                PROVE  /\ jobInst[run'[q].job] # NoInst
                       /\ Dir[home[jobInst[run'[q].job]]] = Dir[q]
    BY <1>1 DEF JobIsOurs
  <2>3. CASE q = p
    BY <2>2, <2>3, <1>4
  <2>4. CASE q # p
    BY <2>1, <2>4 DEF IInv, JobIsOurs
  <2>. QED
    BY <2>3, <2>4
<1>. QED
  BY <1>3, <1>5, <1>6, <1>7, <1>8 DEF IInv

LEMMA SubmitAnsweredKeeps ==
    ASSUME IInv, NEW p \in Plans, SubmitAnswered(p)
    PROVE  IInv'
<1>1. /\ UNCHANGED Elsewhere /\ Recorded(p) /\ run[p] \in Records /\ run[p].intent
      /\ run[p].inst \in Instances /\ home[run[p].inst] = p
  BY HeldRecorded DEF SubmitAnswered, IInv, PointsReached, RecordsNamed
<1>2. CASE AnswerUnusable(p)
  BY <1>1, <1>2, BlockKeeps DEF AnswerUnusable, Reasons, StickyBlocks
<1>3. ASSUME NEW j \in JobIds, jobInst[j] = run[p].inst,
             Save(p, [run[p] EXCEPT !.job = j]), Enter(p, "monitor"), UNCHANGED ledger
      PROVE  IInv'
  <2> DEFINE r == [run[p] EXCEPT !.job = j]
  <2>1. /\ r \in Records /\ r.job = j /\ r.phase # Absent /\ r.token = run[p].token
        /\ r.inst = run[p].inst /\ r.intent = run[p].intent
    BY <1>1 DEF Records, Recorded
  <2>2. Moves(p, r, "monitor")
    BY <1>1, <1>3 DEF IInv, TypeOK, Moves, Save, Enter
  <2>3. Evidence(p, j)
    BY <1>1, <1>3, InstAssumption DEF Evidence
  <2> HIDE DEF r
  <2>. QED
    BY <1>1, <2>1, <2>2, <2>3, JobKeeps
<1>. QED
  BY <1>2, <1>3 DEF SubmitAnswered

LEMMA BoundRecord ==
    ASSUME NEW s \in Records, NEW j \in JobIds, NEW observed \in SchedStates,
           NEW r, r = [s EXCEPT !.job = j, !.observed = observed, !.phase = "queued",
                                !.reason = "none", !.status = "running"]
    PROVE  /\ r \in Records /\ r.job = j /\ r.phase # Absent /\ r.token = s.token
           /\ r.inst = s.inst /\ r.intent = s.intent
BY DEF Records, Phases, Statuses, Absent

\* What the scheduler's words are made of.
LEMMA WordsKnown == \A state : Words(state) \subseteq SchedStates
BY DEF Words, SchedStates, Terminal

LEMMA BindKeeps ==
    ASSUME IInv, NEW p \in Plans, NEW j \in JobIds, Bind(p, j)
    PROVE  IInv'
<1>0. PICK s \in SchedStates :
         Save(p, [run[p] EXCEPT !.job = j, !.observed = s, !.phase = "queued",
                                !.reason = "none", !.status = "running"])
  BY WordsKnown DEF Bind
<1> DEFINE r == [run[p] EXCEPT !.job = j, !.observed = s, !.phase = "queued",
                               !.reason = "none", !.status = "running"]
<1>1. /\ UNCHANGED <<ledger, Elsewhere>> /\ Recorded(p) /\ run[p] \in Records
      /\ run[p].intent /\ Evidence(p, j)
  BY DEF Bind, Bindable, Uncertain, IInv, TypeOK
<1>2. /\ r \in Records /\ r.job = j /\ r.phase # Absent /\ r.token = run[p].token
      /\ r.inst = run[p].inst /\ r.intent = run[p].intent
  BY <1>1, BoundRecord
<1>3. Save(p, r) /\ HandOver(p)
  BY <1>0 DEF Bind
<1> HIDE DEF r
<1>4. Moves(p, r, "idle")
  BY <1>1, <1>3, BoundAssumption DEF IInv, TypeOK, Moves, Save, HandOver, Release, Ops
<1>. QED
  BY <1>1, <1>2, <1>4, JobKeeps

LEMMA PollKeeps ==
    ASSUME IInv, NEW p \in Plans, Poll(p)
    PROVE  IInv'
<1>1. /\ UNCHANGED Elsewhere /\ Recorded(p) /\ run[p] \in Records /\ pc[p] = "poll"
      /\ KnownJob(p)
  BY HeldRecorded DEF Poll, IInv, PointsReached, Following
<1>2. DeadlineOf(p) \in Nat
  BY <1>1, BoundAssumption DEF DeadlineOf, Records
<1> DEFINE d == DeadlineOf(p)
           r == [run[p] EXCEPT !.deadline = d]
<1>3. r \in Records /\ SameCore(r, run[p])
  <2> HIDE DEF d
  <2>. QED
    BY <1>1, <1>2 DEF d, Records, SameCore, Recorded
<1>4. \A s \in SchedStates : Observed(p, s) \in Records /\ SameCore(Observed(p, s), run[p])
  <2> HIDE DEF d
  <2>1. ASSUME NEW s \in SchedStates, NEW e \in BOOLEAN
        PROVE  LET o == [run[p] EXCEPT !.deadline = d, !.phase = "monitoring",
                                       !.observed = s, !.early = e]
               IN o \in Records /\ SameCore(o, run[p])
    BY <1>1, <1>2 DEF d, Records, SameCore, Recorded, Phases, Absent
  <2>2. \A s \in SchedStates : Early(p, s) \in BOOLEAN
    BY DEF Early
  <2>. QED
    BY <2>1, <2>2 DEF Observed, d
<1> HIDE DEF r
<1>5. CASE Refuse(p, FALSE)
  BY <1>1, <1>5, RefuseKeeps
<1>6. CASE QueryFails(p)
  <2>1. CASE \E why \in {"auth_required", "transport_error", "monitor_timeout"} :
                BlockWith(p, r, why)
    BY <1>1, <1>3, <2>1, BlockStep DEF Reasons, StickyBlocks
  <2>2. CASE RetryWith(p, r)
    BY <1>1, <1>3, <2>2, RetryKeeps
  <2>. QED
    BY <1>6, <2>1, <2>2 DEF QueryFails, r
<1>7. ASSUME NEW s \in Words(jobState[run[p].job]),
             IF s \notin Terminal /\ now >= DeadlineOf(p)
             THEN BlockWith(p, Observed(p, s), "monitor_timeout")
             ELSE /\ Save(p, Observed(p, s))
                  /\ Enter(p, IF s \in Terminal THEN "check" ELSE "poll")
                  /\ UNCHANGED ledger
      PROVE  IInv'
  <2>1. s \in SchedStates
    BY WordsKnown
  <2> DEFINE o == Observed(p, s)
  <2>2. o \in Records /\ SameCore(o, run[p])
    BY <1>4, <2>1
  <2> HIDE DEF o
  <2>3. CASE BlockWith(p, o, "monitor_timeout")
    BY <1>1, <2>2, <2>3, BlockStep DEF Reasons, StickyBlocks
  <2>4. ASSUME NEW point \in {"check", "poll"}, Save(p, o), Enter(p, point), UNCHANGED ledger
        PROVE  IInv'
    BY <1>1, <2>2, <2>4, EnterKeeps DEF PCs, Writing
  <2>. QED
    BY <1>7, <2>3, <2>4 DEF o
<1>. QED
  BY <1>5, <1>6, <1>7 DEF Poll

LEMMA VerifyResultsKeeps ==
    ASSUME IInv, NEW p \in Plans, VerifyResults(p)
    PROVE  IInv'
<1>1. /\ UNCHANGED Elsewhere /\ Recorded(p) /\ run[p] \in Records /\ KnownJob(p)
  BY HeldRecorded DEF VerifyResults, IInv, PointsReached, Following
<1>2. CASE Block(p, "step_failed")
  BY <1>1, <1>2, BlockKeeps DEF Reasons, StickyBlocks
<1>3. ASSUME NEW point \in {"finish", "collect"}, Enter(p, point), UNCHANGED <<run, ledger>>
      PROVE  IInv'
  <2>1. Save(p, run[p]) /\ SameCore(run[p], run[p])
    BY <1>1, <1>3 DEF IInv, TypeOK, Save, SameCore, Recorded
  <2>. QED
    BY <1>1, <1>3, <2>1, EnterKeeps DEF PCs, Writing
<1>. QED
  BY <1>2, <1>3 DEF VerifyResults

LEMMA CollectKeeps ==
    ASSUME IInv, NEW p \in Plans, Collect(p)
    PROVE  IInv'
<1>1. /\ UNCHANGED Elsewhere /\ Recorded(p) /\ run[p] \in Records /\ KnownJob(p)
      /\ pc[p] = "collecting"
  BY HeldRecorded DEF Collect, IInv, PointsReached, Following
<1>2. CASE Refuse(p, FALSE)
  BY <1>1, <1>2, RefuseKeeps
<1>3. CASE StepFails(p)
  BY <1>1, <1>3, StepFailsKeeps
<1>4. ASSUME NEW got \in {"downloaded", "parsed"}, NEW point \in {"finish", "collect"},
             Save(p, [run[p] EXCEPT !.collected = got]), Enter(p, point), UNCHANGED ledger
      PROVE  IInv'
  <2> DEFINE r == [run[p] EXCEPT !.collected = got]
  <2>1. r \in Records /\ SameCore(r, run[p])
    BY <1>1 DEF Records, SameCore, Recorded
  <2> HIDE DEF r
  <2>. QED
    BY <1>1, <1>4, <2>1, EnterKeeps DEF r, PCs, Writing
<1>. QED
  BY <1>2, <1>3, <1>4 DEF Collect

LEMMA FinishKeeps ==
    ASSUME IInv, NEW p \in Plans, Finish(p)
    PROVE  IInv'
<1>1. /\ UNCHANGED <<ledger, Elsewhere>> /\ Recorded(p) /\ run[p] \in Records
  BY HeldRecorded DEF Finish
<1>2. PICK verdict \in {"completed", "needs_review", "failed"} :
         Save(p, [run[p] EXCEPT !.phase = "finished", !.reason = "none", !.status = verdict])
  BY DEF Finish, Conclusions
<1> DEFINE r == [run[p] EXCEPT !.phase = "finished", !.reason = "none", !.status = verdict]
<1>3. r \in Records /\ SameCore(r, run[p])
  BY <1>1 DEF Records, SameCore, Phases, Statuses, Absent
<1>4. Moves(p, r, "idle")
  BY <1>1, <1>2 DEF Finish, IInv, TypeOK, Moves, Save, Release, Ops
<1> HIDE DEF r
<1>. QED
  BY <1>1, <1>3, <1>4, LocalStep DEF PCs, Writing, Following

\* A process takes the lock for a moment, or gives it up or dies with it.
LEMMA ProbeKeeps ==
    ASSUME IInv, NEW p \in Plans, ProbeBegin(p) \/ ProbeEnd(p) \/ Crash(p)
    PROVE  IInv'
<1>1. /\ op' \in [Plans -> Ops] /\ tries' \in [Plans -> Nat] /\ ready' \in [Plans -> Nat]
      /\ UNCHANGED <<run, ledger, Elsewhere>>
      /\ \E point \in {"idle", "probe"} : pc' = [pc EXCEPT ![p] = point]
  BY DEF IInv, TypeOK, ProbeBegin, ProbeEnd, Crash, Take, Release, Ops
<1>. QED
  BY <1>1, LockKeeps
-----------------------------------------------------------------------------
(* The scheduler and the clock *)

LEMMA SchedulerKeeps ==
    ASSUME IInv, Scheduler \/ Tick
    PROVE  IInv'
<1>1. UNCHANGED <<run, ledger, pc, op, tries, ready, home, calls, spent, scheduler>>
  BY DEF Scheduler, Accept, Reject, JobMoves, Tick, disk, local, ghost, sched
<1>2. RecordsNamed' /\ WriteAhead' /\ PointsReached' /\ LedgerBalanced' /\ AtMostOneSubmission'
  BY <1>1 DEF IInv, RecordsNamed, WriteAhead, PointsReached, LedgerBalanced, Recorded, KnownJob,
              SubmissionsApproved, AtMostOneSubmission
<1>3. ASSUME NEW i \in Instances, Accept(i)
      PROVE  TypeOK' /\ SchedulerTraced' /\ JobIsOurs'
  <2>1. PICK j \in JobIds : /\ jobInst[j] = NoInst
                            /\ jobInst' = [jobInst EXCEPT ![j] = i]
                            /\ jobState' = [jobState EXCEPT ![j] = "alive"]
    BY <1>3 DEF Accept
  <2>2. i \in inflight /\ inflight' = inflight \ {i} /\ UNCHANGED <<now, scheduler>>
    BY <1>3 DEF Accept
  <2>3. TypeOK'
    BY <1>1, <2>1, <2>2 DEF IInv, TypeOK, JobStates, Live
  <2>4. jobInst'[j] = i /\ \A k \in JobIds \ {j} : jobInst'[k] = jobInst[k]
    BY <2>1 DEF IInv, TypeOK
  <2>5. SchedulerTraced'
    BY <1>1, <2>2, <2>4 DEF IInv, SchedulerTraced
  <2>6. \A p \in Plans : KnownJob(p) => run[p].job \in JobIds \ {j}
    BY <2>1 DEF IInv, TypeOK, Records, KnownJob, JobIsOurs
  <2>7. \A p \in Plans : KnownJob(p) => jobInst'[run[p].job] = jobInst[run[p].job]
    BY <2>4, <2>6
  <2>8. JobIsOurs'
    BY <1>1, <2>7 DEF IInv, JobIsOurs, KnownJob
  <2>. QED
    BY <2>3, <2>5, <2>8
<1>4. ASSUME UNCHANGED jobInst, inflight' \in SUBSET inflight,
             jobState' \in [JobIds -> JobStates], now' \in Nat
      PROVE  TypeOK' /\ SchedulerTraced' /\ JobIsOurs'
  BY <1>1, <1>4 DEF IInv, TypeOK, SchedulerTraced, JobIsOurs, KnownJob
<1>5. CASE \E i \in Instances : Reject(i)
  BY <1>2, <1>4, <1>5 DEF Reject, IInv, TypeOK
<1>6. CASE \E j \in JobIds : JobMoves(j)
  BY <1>2, <1>4, <1>6 DEF JobMoves, IInv, TypeOK, JobStates, Live
<1>7. CASE Tick
  BY <1>2, <1>4, <1>7 DEF Tick, IInv, TypeOK, sched
<1>. QED
  BY <1>2, <1>3, <1>5, <1>6, <1>7 DEF Scheduler, IInv
-----------------------------------------------------------------------------
(* The theorems *)

LEMMA InitIInv == Init => IInv
<1>. SUFFICES ASSUME Init PROVE IInv
  OBVIOUS
<1>1. NoRecord \in Records /\ NoRecord.phase = Absent /\ NoRecord.inst = NoInst
      /\ NoRecord.job = NoJob
  BY DEF NoRecord, NewRecord, Records, Statuses, SchedStates
<1>2. \A p \in Plans : run[p] = NoRecord /\ pc[p] = "idle"
  BY DEF Init
<1>3. TypeOK
  BY <1>1 DEF Init, TypeOK, PCs, Ops, JobStates
<1>4. RecordsNamed /\ WriteAhead /\ PointsReached
  BY <1>1, <1>2 DEF RecordsNamed, WriteAhead, PointsReached, Recorded, KnownJob, Writing,
                    Following
<1>5. SchedulerTraced /\ LedgerBalanced /\ AtMostOneSubmission
  BY DEF Init, SchedulerTraced, LedgerBalanced, SubmissionsApproved, AtMostOneSubmission
<1>6. JobIsOurs
  BY <1>1, <1>2 DEF JobIsOurs, KnownJob
<1>. QED
  BY <1>3, <1>4, <1>5, <1>6 DEF IInv

LEMMA HolderKeeps ==
    ASSUME IInv, NEW p \in Plans, HolderStep(p)
    PROVE  IInv'
<1>1. CASE Activate(p) \/ Queue(p) \/ Admit(p) \/ ProbeEnd(p)
  BY <1>1, ActivateKeeps, QueueKeeps, AdmitKeeps, ProbeKeeps
<1>2. CASE Start(p) \/ Prepare(p) \/ BeginSubmit(p) \/ VerifyRemote(p)
  BY <1>2, StartKeeps, PrepareKeeps, BeginSubmitKeeps, VerifyRemoteKeeps
<1>3. CASE JournalSubmit(p) \/ CallScheduler(p) \/ SubmitAnswered(p)
  BY <1>3, JournalSubmitKeeps, CallSchedulerKeeps, SubmitAnsweredKeeps
<1>4. CASE Poll(p) \/ VerifyResults(p) \/ Collect(p) \/ Finish(p)
  BY <1>4, PollKeeps, VerifyResultsKeeps, CollectKeeps, FinishKeeps
<1>5. CASE BeginPrepare(p)
  BY <1>5, BeginKeeps DEF BeginPrepare, PCs, Phases, Writing, Following
<1>6. CASE BeginMonitor(p)
  BY <1>6, BeginKeeps DEF BeginMonitor, PCs, Phases, Writing, Following
<1>7. CASE BeginCollect(p)
  BY <1>7, BeginKeeps DEF BeginCollect, PCs, Phases, Writing, Following
<1>. QED
  BY <1>1, <1>2, <1>3, <1>4, <1>5, <1>6, <1>7 DEF HolderStep

LEMMA AdmissionKeeps ==
    ASSUME IInv, NEW p \in Plans, Admission(p)
    PROVE  IInv'
<1>1. CASE \E t \in Tokens : EnqueueNew(p, t) \/ EnqueueReplacement(p, t)
  BY <1>1, EnqueueNewKeeps, EnqueueReplacementKeeps
<1>2. CASE EnqueueAgain(p)
  BY <1>2, EnqueueExistingKeeps DEF EnqueueAgain, Recorded, Absent
<1>3. CASE Resume(p) \/ ForceRun(p)
  BY <1>3, EnqueueExistingKeeps DEF Resume, ForceRun, EnqueueExisting
<1>4. CASE \E j \in JobIds : Bind(p, j)
  BY <1>4, BindKeeps
<1>. QED
  BY <1>1, <1>2, <1>3, <1>4 DEF Admission

LEMMA ProcessKeeps ==
    ASSUME IInv, NEW p \in Plans, Process(p)
    PROVE  IInv'
<1>1. CASE Acquire(p) \/ LaunchFails(p) \/ DeleteRecord(p)
  BY <1>1, AcquireKeeps, LaunchFailsKeeps, DeleteRecordKeeps
<1>2. CASE ProbeBegin(p) \/ Crash(p)
  BY <1>2, ProbeKeeps
<1>3. CASE LoseRace(p) \/ Recover(p) \/ CrashReady(p)
  BY <1>3, ReadyKeeps DEF LoseRace, Recover, CrashReady, IInv, TypeOK
<1>. QED
  BY <1>1, <1>2, <1>3 DEF Process

LEMMA NextKeeps == IInv /\ [Next]_vars => IInv'
<1>. SUFFICES ASSUME IInv, [Next]_vars PROVE IInv'
  OBVIOUS
<1>1. CASE UNCHANGED vars
  BY <1>1, ReadyKeeps DEF vars, disk, local, ghost, sched, Elsewhere, IInv, TypeOK
<1>2. CASE \E p \in Plans : Admission(p) \/ HolderStep(p) \/ Process(p)
  BY <1>2, AdmissionKeeps, HolderKeeps, ProcessKeeps
<1>3. CASE Scheduler \/ Tick
  BY <1>3, SchedulerKeeps
<1>. QED
  BY <1>1, <1>2, <1>3 DEF Next

\* The invariant holds in every reachable state.
THEOREM Invariant == Spec => []IInv
BY InitIInv, NextKeeps, PTL DEF Spec

\* Every record, lock, ledger entry and job has the type the code gives it.
THEOREM TypeCorrect == Spec => []TypeOK
BY Invariant, PTL DEF IInv

\* A run instance calls the scheduler at most once: whatever dies, is lost,
\* resumed, forced, recovered or deleted, and in whatever order.
THEOREM SubmitsAtMostOnce == Spec => []AtMostOneSubmission
BY Invariant, PTL DEF IInv

\* No token pays for two submissions.
THEOREM TokenPaysOnce == Spec => []TokenBuysOneSubmission
<1>1. IInv => TokenBuysOneSubmission
  BY DEF IInv, TypeOK, LedgerBalanced, AtMostOneSubmission, TokenBuysOneSubmission
<1>. QED
  BY <1>1, Invariant, PTL

\* Every submission was paid by a token approved for the plan it was made for.
THEOREM SubmitsApproved == Spec => []SubmissionsApproved
BY Invariant, PTL DEF IInv, LedgerBalanced

\* Whatever the scheduler may hold of a run, its record says so.
THEOREM RemembersSubmission == Spec => []SubmissionRemembered
<1>1. IInv => SubmissionRemembered
  <2>. SUFFICES ASSUME IInv, NEW p \in Plans,
                       run[p].inst \in inflight \/ \E j \in JobIds : /\ jobInst[j] # NoInst
                                                                     /\ jobInst[j] = run[p].inst
                PROVE  run[p].intent
    BY DEF SubmissionRemembered
  <2>1. run[p].inst \in Instances /\ calls[run[p].inst] > 0
    BY DEF IInv, TypeOK, SchedulerTraced
  <2>2. Recorded(p)
    BY <2>1, InstAssumption DEF IInv, RecordsNamed
  <2>3. run[p].intent \in BOOLEAN
    BY DEF IInv, TypeOK, Records
  <2>. QED
    BY <2>1, <2>2, <2>3 DEF IInv, WriteAhead
<1>. QED
  BY <1>1, Invariant, PTL

\* A submitted run is never prepared or submitted again.
THEOREM NeverRepeatsWrites == Spec => []NoRepeatedWrites
<1>1. IInv => NoRepeatedWrites
  BY DEF IInv, PointsReached, NoRepeatedWrites, Writing
<1>. QED
  BY <1>1, Invariant, PTL

\* The job a run follows was submitted from the run's own directory.
THEOREM FollowsOwnJob == Spec => []JobIsOurs
BY Invariant, PTL DEF IInv
-----------------------------------------------------------------------------
(* What a finished run says, and when its monitor ends.  Beyond IInv: a    *)
(* worker past the monitor has a last word of the scheduler in the record, *)
(* which is so, or came early (Told), and only Slurm speaks early; a job   *)
(* that has ended changes no more.                                         *)

Checked == {"check", "collect", "collecting", "finish"}
\* What record r has been told of its job.
Wrong(r) == scheduler = "slurm" /\ r.early
Told(r) == /\ r.job # NoJob /\ r.observed \in Terminal
           /\ jobState[r.job] \in Over \/ Wrong(r)
           /\ r.observed = "FAILED" => jobState[r.job] = "failed"
           /\ r.observed = "COMPLETED" /\ jobState[r.job] = "failed" =>
                 scheduler = "pbs" \/ Wrong(r)
\* What it says when it is finished.
Says(r) == /\ r.job # NoJob /\ (jobState[r.job] \in Over \/ Wrong(r))
           /\ r.status = "failed" => jobState[r.job] = "failed"
           /\ r.status = "completed" /\ jobState[r.job] = "failed" =>
                 scheduler = "pbs" \/ Wrong(r)
Concluded ==
    /\ \A p \in Plans : /\ pc[p] \in Checked => Told(run[p])
                        /\ run[p].phase = "finished" => Says(run[p])
                        /\ ~Recorded(p) => run[p].deadline = 0
    /\ \A j \in JobIds : jobState[j] = "between" => scheduler = "slurm"
FInv == Concluded

\* What a step of the model may make of the record of a plan.
DeadlineKept(p, r) == \/ r.deadline = run[p].deadline
                      \/ op[p] = "extend"
                      \/ run[p].deadline = 0 /\ r.deadline = run[p].submitAt + Budget
Follows(p, r) ==
    /\ r.phase = Absent => r.deadline = 0
    /\ r.phase # Absent => DeadlineKept(p, r)
    /\ r.phase = "finished" =>
          \/ /\ run[p].phase = "finished" /\ r.job = run[p].job /\ r.early = run[p].early
             /\ r.status \in {run[p].status, "running"}
          \/ /\ pc[p] = "finish" /\ r.job = run[p].job /\ r.early = run[p].early
             /\ r.status \in Conclusions(run[p].observed)
\* How the worker of a plan gets past the monitor.
Passes(p, r, point) ==
    point \in Checked => \/ /\ pc[p] \in Checked /\ r.job = run[p].job
                            /\ r.observed = run[p].observed /\ r.early = run[p].early
                         \/ Told(r)
Turn(p) == /\ \A q \in Plans \ {p} : run'[q] = run[q] /\ pc'[q] = pc[q]
           /\ Follows(p, run'[p]) /\ Passes(p, run'[p], pc'[p])
           /\ UNCHANGED <<jobState, scheduler>>

LEMMA TurnKeeps ==
    ASSUME IInv, FInv, NEW p \in Plans, Turn(p)
    PROVE  FInv'
<1> USE DEF FInv, Concluded, Turn, Recorded
<1>1. ASSUME NEW q \in Plans, q # p
      PROVE  /\ pc'[q] \in Checked => Told(run[q])'
             /\ run'[q].phase = "finished" => Says(run[q])'
             /\ ~Recorded(q)' => run'[q].deadline = 0
  BY <1>1 DEF Told, Says, Wrong
<1>2. pc'[p] \in Checked => Told(run[p])'
  BY DEF Passes, Told, Wrong
<1>3. run'[p].phase = "finished" => Says(run[p])'
  <2>1. CASE /\ run[p].phase = "finished" /\ run'[p].job = run[p].job
             /\ run'[p].early = run[p].early /\ run'[p].status \in {run[p].status, "running"}
    BY <2>1 DEF Says, Wrong
  <2>2. CASE /\ pc[p] = "finish" /\ run'[p].job = run[p].job /\ run'[p].early = run[p].early
             /\ run'[p].status \in Conclusions(run[p].observed)
    BY <2>2 DEF Says, Told, Wrong, Checked, Conclusions, Terminal
  <2>. QED
    BY <2>1, <2>2 DEF Follows
<1>4. ~Recorded(p)' => run'[p].deadline = 0
  BY DEF Follows
<1>. QED
  BY <1>1, <1>2, <1>3, <1>4

LEMMA SaveTurns ==
    ASSUME IInv, NEW p \in Plans, NEW r, NEW point, Save(p, r), Follows(p, r), Passes(p, r, point),
           pc' = [pc EXCEPT ![p] = point], UNCHANGED Elsewhere
    PROVE  Turn(p)
<1>1. run'[p] = r /\ pc'[p] = point
      /\ \A q \in Plans \ {p} : run'[q] = run[q] /\ pc'[q] = pc[q]
  BY DEF IInv, TypeOK, Save
<1>. QED
  BY <1>1 DEF Turn, Elsewhere

\* A step that leaves the record alone.
LEMMA MoveTurns ==
    ASSUME IInv, FInv, NEW p \in Plans, NEW point, pc' = [pc EXCEPT ![p] = point],
           point \in Checked => pc[p] \in Checked, UNCHANGED <<run, Elsewhere>>
    PROVE  Turn(p)
<1>1. Save(p, run[p]) /\ Follows(p, run[p]) /\ Passes(p, run[p], point)
  BY DEF Save, IInv, TypeOK, Follows, Passes, DeadlineKept, FInv, Concluded, Recorded
<1>. QED
  BY <1>1, SaveTurns

LEMMA BlockTurns ==
    ASSUME IInv, NEW p \in Plans, NEW r \in Records, DeadlineKept(p, r), NEW why \in Reasons,
           BlockWith(p, r, why), UNCHANGED Elsewhere
    PROVE  Turn(p)
<1> DEFINE b == Blocked(r, why)
<1>1. b.phase = "blocked" /\ b.deadline = r.deadline
  BY DEF Blocked, Records
<1>2. Follows(p, b) /\ Passes(p, b, "idle")
  BY <1>1 DEF Follows, Passes, DeadlineKept, Checked, Absent
<1>3. Save(p, b) /\ pc' = [pc EXCEPT ![p] = "idle"]
  BY DEF BlockWith, Release
<1> HIDE DEF b
<1>. QED
  BY <1>2, <1>3, SaveTurns

LEMMA RefuseTurns ==
    ASSUME IInv, NEW p \in Plans, UNCHANGED Elsewhere,
           \/ \E writes \in BOOLEAN : Refuse(p, writes)
           \/ \E why \in Reasons : Block(p, why)
    PROVE  Turn(p)
<1>1. PICK why \in Reasons : Block(p, why)
  BY DEF Refuse, Refusals, Reasons, StickyBlocks
<1>. QED
  BY <1>1, BlockTurns DEF Block, IInv, TypeOK, DeadlineKept

LEMMA RetryTurns ==
    ASSUME IInv, FInv, NEW p \in Plans, NEW r \in Records, DeadlineKept(p, r),
           r.job = run[p].job, r.observed = run[p].observed, r.early = run[p].early,
           RetryWith(p, r), UNCHANGED Elsewhere
    PROVE  Turn(p)
<1> DEFINE s == [r EXCEPT !.phase = "retrying"]
<1>1. /\ s.phase = "retrying" /\ s.deadline = r.deadline /\ s.job = r.job
      /\ s.observed = r.observed /\ s.early = r.early
  BY DEF Records
<1>2. Save(p, s) /\ pc' = [pc EXCEPT ![p] = pc[p]]
  BY DEF RetryWith, IInv, TypeOK
<1> HIDE DEF s
<1>3. Follows(p, s) /\ Passes(p, s, pc[p])
  BY <1>1 DEF Follows, Passes, DeadlineKept, Absent
<1>. QED
  BY <1>2, <1>3, SaveTurns

LEMMA FailTurns ==
    ASSUME IInv, FInv, NEW p \in Plans, UNCHANGED Elsewhere, TransportFails(p) \/ StepFails(p)
    PROVE  Turn(p)
<1>1. CASE RetryWith(p, run[p])
  BY <1>1, RetryTurns DEF IInv, TypeOK, DeadlineKept
<1>2. CASE \E why \in Reasons : Block(p, why)
  BY <1>2, RefuseTurns
<1>. QED
  BY <1>1, <1>2 DEF StepFails, TransportFails, Reasons, StickyBlocks

\* Another value in the record of a worker, and another point.
LEMMA EnterTurns ==
    ASSUME IInv, NEW p \in Plans, NEW r, NEW point, Save(p, r), Enter(p, point) \/ Goto(p, point),
           UNCHANGED Elsewhere, Follows(p, r), Passes(p, r, point)
    PROVE  Turn(p)
BY SaveTurns DEF Enter, Goto

\* What most steps make of the record follows from it.
LEMMA PlainFollows ==
    ASSUME NEW p \in Plans, NEW r, r.phase # Absent, DeadlineKept(p, r),
           r.phase = "finished" => /\ run[p].phase = "finished" /\ r.job = run[p].job
                                   /\ r.early = run[p].early
                                   /\ r.status \in {run[p].status, "running"}
    PROVE  Follows(p, r)
BY DEF Follows

LEMMA AdmissionTurns ==
    ASSUME IInv, FInv, NEW p \in Plans, Admission(p)
    PROVE  Turn(p)
<1>1. ASSUME NEW t \in Tokens, EnqueueNew(p, t) PROVE Turn(p)
  <2>1. PICK i \in Instances : Save(p, NewRecord(t, i, "admitting"))
    BY <1>1 DEF EnqueueNew
  <2> DEFINE r == NewRecord(t, i, "admitting")
  <2>2. /\ ~Recorded(p) /\ pc' = [pc EXCEPT ![p] = "activate"]
        /\ UNCHANGED <<jobState, scheduler>>
        /\ r.phase = "admitting" /\ r.deadline = 0
    BY <1>1 DEF EnqueueNew, Take, NewRecord
  <2>3. run[p].deadline = 0
    BY <2>2 DEF FInv, Concluded
  <2>4. Follows(p, r) /\ Passes(p, r, "activate")
    BY <2>2, <2>3 DEF Follows, Passes, DeadlineKept, Checked, Absent
  <2> HIDE DEF r
  <2>5. run'[p] = r /\ pc'[p] = "activate"
        /\ \A q \in Plans \ {p} : run'[q] = run[q] /\ pc'[q] = pc[q]
    BY <2>1, <2>2 DEF IInv, TypeOK, Save, r
  <2>. QED
    BY <2>2, <2>4, <2>5 DEF Turn
<1>2. ASSUME NEW t \in Tokens, EnqueueReplacement(p, t) PROVE Turn(p)
  <2> DEFINE r == [run[p] EXCEPT !.token = t, !.phase = "admitting"]
  <2>1. r.phase = "admitting" /\ r.deadline = run[p].deadline
    BY DEF IInv, TypeOK, Records
  <2>2. /\ Save(p, r) /\ pc' = [pc EXCEPT ![p] = "activate"] /\ UNCHANGED Elsewhere
    BY <1>2 DEF EnqueueReplacement, Take
  <2> HIDE DEF r
  <2>3. Follows(p, r) /\ Passes(p, r, "activate")
    BY <2>1 DEF Follows, Passes, DeadlineKept, Checked, Absent
  <2>. QED
    BY <2>2, <2>3, SaveTurns
<1>3. CASE EnqueueAgain(p) \/ Resume(p) \/ ForceRun(p)
  <2>1. pc' = [pc EXCEPT ![p] = "activate"] /\ UNCHANGED <<run, Elsewhere>>
    BY <1>3 DEF EnqueueAgain, Resume, ForceRun, EnqueueExisting, Take
  <2>. QED
    BY <2>1, MoveTurns DEF Checked
<1>4. ASSUME NEW j \in JobIds, Bind(p, j) PROVE Turn(p)
  <2>0. PICK s : Save(p, [run[p] EXCEPT !.job = j, !.observed = s, !.phase = "queued",
                                        !.reason = "none", !.status = "running"])
    BY <1>4 DEF Bind
  <2> DEFINE r == [run[p] EXCEPT !.job = j, !.observed = s, !.phase = "queued",
                                 !.reason = "none", !.status = "running"]
  <2>1. r.phase = "queued" /\ r.deadline = run[p].deadline
    BY DEF IInv, TypeOK, Records
  <2>2. /\ Save(p, r) /\ pc' = [pc EXCEPT ![p] = "idle"] /\ UNCHANGED Elsewhere
    BY <1>4, <2>0 DEF Bind, HandOver, Release
  <2> HIDE DEF r
  <2>3. Follows(p, r) /\ Passes(p, r, "idle")
    BY <2>1 DEF Follows, Passes, DeadlineKept, Checked, Absent
  <2>. QED
    BY <2>2, <2>3, SaveTurns
<1>. QED
  BY <1>1, <1>2, <1>3, <1>4 DEF Admission

LEMMA ProcessTurns ==
    ASSUME IInv, FInv, NEW p \in Plans, Process(p)
    PROVE  Turn(p)
<1>1. CASE LaunchFails(p)
  <2> DEFINE r == Blocked(run[p], "launch_failed")
  <2>1. r.phase = "blocked" /\ r.deadline = run[p].deadline
    BY DEF Blocked, IInv, TypeOK, Records
  <2>2. Save(p, r) /\ pc' = [pc EXCEPT ![p] = pc[p]] /\ pc[p] = "idle" /\ UNCHANGED Elsewhere
    BY <1>1 DEF LaunchFails, IInv, TypeOK
  <2> HIDE DEF r
  <2>3. Follows(p, r) /\ Passes(p, r, pc[p])
    BY <2>1, <2>2 DEF Follows, Passes, DeadlineKept, Checked, Absent
  <2>. QED
    BY <2>2, <2>3, SaveTurns
<1>2. CASE DeleteRecord(p)
  <2>1. NoRecord.phase = Absent /\ NoRecord.deadline = 0
    BY DEF NoRecord, NewRecord
  <2>2. /\ Save(p, NoRecord) /\ pc' = [pc EXCEPT ![p] = pc[p]] /\ pc[p] = "idle"
        /\ UNCHANGED Elsewhere
    BY <1>2 DEF DeleteRecord, local, IInv, TypeOK
  <2>3. Follows(p, NoRecord) /\ Passes(p, NoRecord, pc[p])
    BY <2>1, <2>2 DEF Follows, Passes, Checked, Absent
  <2>. QED
    BY <2>2, <2>3, SaveTurns
<1>3. CASE Acquire(p) \/ ProbeBegin(p) \/ Crash(p)
  <2>1. UNCHANGED <<run, Elsewhere>> /\ \E point \in {"activate", "probe", "idle", pc[p]} :
           pc' = [pc EXCEPT ![p] = point]
    BY <1>3 DEF Acquire, ProbeBegin, Crash, Take, Release, IInv, TypeOK
  <2>. QED
    BY <2>1, MoveTurns DEF Checked
<1>4. CASE LoseRace(p) \/ Recover(p) \/ CrashReady(p)
  <2>1. UNCHANGED <<run, Elsewhere>> /\ pc' = [pc EXCEPT ![p] = pc[p]]
    BY <1>4 DEF LoseRace, Recover, CrashReady, IInv, TypeOK
  <2>. QED
    BY <2>1, MoveTurns
<1>. QED
  BY <1>1, <1>2, <1>3, <1>4 DEF Process

\* Before the run is queued, and before its worker starts.
LEMMA AdmittingTurns ==
    ASSUME IInv, FInv, NEW p \in Plans, Activate(p) \/ Queue(p) \/ Admit(p) \/ ProbeEnd(p)
    PROVE  Turn(p)
<1>1. UNCHANGED Elsewhere /\ run[p] \in Records
  BY DEF Activate, Queue, Admit, ProbeEnd, IInv, TypeOK
<1>2. ASSUME NEW point \in {"queue", "idle"}, pc' = [pc EXCEPT ![p] = point], UNCHANGED run
      PROVE  Turn(p)
  BY <1>1, <1>2, MoveTurns DEF Checked
<1>3. CASE Activate(p)
  <2>1. CASE \E why \in Reasons : Block(p, why)
    BY <1>1, <2>1, RefuseTurns
  <2>. QED
    BY <1>2, <1>3, <2>1 DEF Activate, Claims, Owns, ActivationBlocked, UsedByAnother, Goto,
       Release, Reasons, StickyBlocks
<1>4. CASE Queue(p)
  <2> DEFINE r == IF run[p].phase = "admitting" THEN [run[p] EXCEPT !.phase = "queued"] ELSE run[p]
  <2>1. /\ r.phase # Absent /\ r.deadline = run[p].deadline /\ r.job = run[p].job
        /\ r.status = run[p].status /\ r.early = run[p].early
        /\ r.phase = "finished" => run[p].phase = "finished"
    BY <1>1, <1>4, HeldRecorded DEF Queue, Records, Recorded, Absent
  <2>2. Save(p, r) /\ \E point \in {"idle", "start", "admit"} : pc' = [pc EXCEPT ![p] = point]
    BY <1>4 DEF Queue, HandOver, Release, Goto
  <2> HIDE DEF r
  <2>3. Follows(p, r)
    BY <2>1, PlainFollows DEF DeadlineKept
  <2>. QED
    BY <1>1, <2>2, <2>3, SaveTurns DEF Passes, Checked
<1>5. CASE Admit(p)
  <2>1. CASE \/ \E writes \in BOOLEAN : Refuse(p, writes)
             \/ \E why \in Reasons : Block(p, why)
    BY <1>1, <2>1, RefuseTurns
  <2> DEFINE d == IF op[p] = "extend" /\ KnownJob(p) THEN Extended(p) ELSE run[p].deadline
             r == [run[p] EXCEPT !.phase = "queued", !.reason = "none", !.status = "running",
                                 !.deadline = d]
  <2>2. CASE Save(p, r) /\ HandOver(p)
    <3>1. r.phase = "queued" /\ r.deadline = d
      BY <1>1 DEF Records
    <3>2. DeadlineKept(p, r)
      BY <3>1 DEF DeadlineKept
    <3> HIDE DEF r
    <3>3. Follows(p, r) /\ Passes(p, r, "idle")
      BY <3>1, <3>2 DEF Follows, Passes, Checked, Absent
    <3>. QED
      BY <1>1, <2>2, <3>3, SaveTurns DEF HandOver, Release
  <2>. QED
    BY <1>1, <1>5, <2>1, <2>2 DEF Admit, Reasons, StickyBlocks
<1>6. CASE ProbeEnd(p)
  BY <1>2, <1>6 DEF ProbeEnd, Release
<1>. QED
  BY <1>3, <1>4, <1>5, <1>6

LEMMA StartTurns ==
    ASSUME IInv, FInv, NEW p \in Plans, Start(p)
    PROVE  Turn(p)
<1>1. UNCHANGED Elsewhere /\ run[p] \in Records /\ run[p].phase # Absent
  BY HeldRecorded DEF Start, Recorded
<1>2. CASE \/ \E writes \in BOOLEAN : Refuse(p, writes)
           \/ \E why \in Reasons : Block(p, why)
  BY <1>1, <1>2, RefuseTurns
<1> DEFINE r == [run[p] EXCEPT !.reason = "none", !.status = "running"]
<1>3. CASE Save(p, r) /\ Enter(p, FirstStep(p))
  <2>1. /\ r.phase = run[p].phase /\ r.deadline = run[p].deadline /\ r.job = run[p].job
        /\ r.status = "running" /\ r.early = run[p].early
    BY <1>1 DEF Records
  <2> HIDE DEF r
  <2>2. Follows(p, r)
    BY <1>1, <2>1, PlainFollows DEF DeadlineKept
  <2>3. FirstStep(p) \notin Checked
    BY DEF FirstStep, Checked
  <2>. QED
    BY <1>1, <1>3, <2>2, <2>3, EnterTurns DEF Passes
<1>. QED
  BY <1>1, <1>2, <1>3 DEF Start, Reasons, StickyBlocks

\* The journalled start of a step; a worker that comes to collect was past the monitor.
LEMMA BeginTurns ==
    ASSUME IInv, FInv, NEW p \in Plans, NEW point, NEW phase \in Phases \ {"finished"},
           NEW writes \in BOOLEAN, NEW next, Begin(p, point, phase, writes, next),
           next \in Checked => point \in Checked
    PROVE  Turn(p)
<1>1. UNCHANGED Elsewhere /\ run[p] \in Records /\ pc[p] = point
  BY DEF Begin, IInv, TypeOK
<1>2. CASE Refuse(p, writes)
  BY <1>1, <1>2, RefuseTurns
<1> DEFINE r == [run[p] EXCEPT !.phase = phase]
<1>3. CASE Save(p, r) /\ Enter(p, next)
  <2>1. /\ r.phase = phase /\ r.deadline = run[p].deadline /\ r.job = run[p].job
        /\ r.observed = run[p].observed /\ r.early = run[p].early
    BY <1>1 DEF Records
  <2>2. phase # Absent
    BY DEF Phases, Absent
  <2> HIDE DEF r
  <2>3. Follows(p, r) /\ Passes(p, r, next)
    BY <1>1, <2>1, <2>2 DEF Follows, Passes, DeadlineKept
  <2>. QED
    BY <1>1, <1>3, <2>3, EnterTurns
<1>. QED
  BY <1>2, <1>3 DEF Begin

LEMMA PrepareTurns ==
    ASSUME IInv, FInv, NEW p \in Plans, Prepare(p)
    PROVE  Turn(p)
<1>1. UNCHANGED Elsewhere /\ run[p] \in Records /\ run[p].phase # Absent
  BY HeldRecorded DEF Prepare, Recorded
<1> DEFINE r == [run[p] EXCEPT !.prepared = TRUE]
<1>2. CASE Save(p, r) /\ Enter(p, "submit")
  <2>1. /\ r.phase = run[p].phase /\ r.deadline = run[p].deadline /\ r.job = run[p].job
        /\ r.status = run[p].status /\ r.early = run[p].early
    BY <1>1 DEF Records
  <2> HIDE DEF r
  <2>2. Follows(p, r) /\ Passes(p, r, "submit")
    BY <1>1, <2>1, PlainFollows DEF DeadlineKept, Passes, Checked
  <2>. QED
    BY <1>1, <1>2, <2>2, EnterTurns
<1>. QED
  BY <1>1, <1>2, RefuseTurns, FailTurns DEF Prepare

LEMMA SubmitTurns ==
    ASSUME IInv, FInv, NEW p \in Plans,
           BeginSubmit(p) \/ VerifyRemote(p) \/ JournalSubmit(p) \/ CallScheduler(p)
    PROVE  Turn(p)
<1>1. run[p] \in Records
  BY DEF IInv, TypeOK
<1>2. ASSUME NEW r, NEW point \in {"verify", "call"}, r.phase \in {"preparing", "submitting"},
             r.deadline = run[p].deadline, Save(p, r), Enter(p, point), UNCHANGED Elsewhere
      PROVE  Turn(p)
  <2>1. Follows(p, r) /\ Passes(p, r, point)
    BY <1>2 DEF Follows, Passes, DeadlineKept, Checked, Absent
  <2>. QED
    BY <1>2, <2>1, EnterTurns
<1>3. CASE BeginSubmit(p)
  <2> DEFINE r == [run[p] EXCEPT !.phase = "preparing"]
  <2>1. r.phase = "preparing" /\ r.deadline = run[p].deadline
    BY <1>1 DEF Records
  <2>2. CASE Save(p, r) /\ Enter(p, "verify")
    BY <1>2, <1>3, <2>1, <2>2 DEF BeginSubmit
  <2>. QED
    BY <1>3, <2>2, RefuseTurns DEF BeginSubmit, Reasons, StickyBlocks
<1>4. CASE VerifyRemote(p)
  <2>1. CASE Enter(p, "intent") /\ UNCHANGED run
    BY <1>4, <2>1, MoveTurns DEF VerifyRemote, Enter, Checked
  <2>. QED
    BY <1>4, <2>1, RefuseTurns, FailTurns DEF VerifyRemote, Reasons, StickyBlocks
<1>5. CASE JournalSubmit(p)
  <2>1. SubmitRow(p).phase = "submitting" /\ SubmitRow(p).deadline = run[p].deadline
    BY <1>1 DEF SubmitRow, Records
  <2>. QED
    BY <1>2, <1>5, <2>1 DEF JournalSubmit
<1>6. CASE CallScheduler(p)
  <2>1. CASE Refuse(p, TRUE) /\ UNCHANGED Elsewhere
    BY <2>1, RefuseTurns
  <2>2. CASE Goto(p, "await") /\ UNCHANGED <<run, jobState, scheduler>>
    <3>1. /\ run' = run /\ UNCHANGED <<jobState, scheduler>> /\ pc'[p] = "await"
          /\ \A q \in Plans \ {p} : pc'[q] = pc[q]
      BY <2>2 DEF Goto, IInv, TypeOK
    <3>2. Follows(p, run[p]) /\ Passes(p, run[p], "await")
      BY DEF Follows, Passes, DeadlineKept, FInv, Concluded, Recorded, Checked
    <3>. QED
      BY <3>1, <3>2 DEF Turn
  <2>. QED
    BY <1>6, <2>1, <2>2 DEF CallScheduler
<1>. QED
  BY <1>3, <1>4, <1>5, <1>6

LEMMA SubmitAnsweredTurns ==
    ASSUME IInv, FInv, NEW p \in Plans, SubmitAnswered(p)
    PROVE  Turn(p)
<1>1. /\ UNCHANGED Elsewhere /\ run[p] \in Records /\ run[p].phase # Absent
      /\ pc[p] = "await"
  BY HeldRecorded DEF SubmitAnswered, Recorded
<1>2. run[p].phase # "finished"
  BY <1>1 DEF IInv, PointsReached, FInv, Concluded, Says, KnownJob
<1>3. ASSUME NEW j \in JobIds, Save(p, [run[p] EXCEPT !.job = j]), Enter(p, "monitor")
      PROVE  Turn(p)
  <2> DEFINE r == [run[p] EXCEPT !.job = j]
  <2>1. r.phase = run[p].phase /\ r.deadline = run[p].deadline
    BY <1>1 DEF Records
  <2> HIDE DEF r
  <2>2. Follows(p, r) /\ Passes(p, r, "monitor")
    BY <1>1, <1>2, <2>1 DEF Follows, Passes, DeadlineKept, Checked
  <2>. QED
    BY <1>1, <1>3, <2>2, EnterTurns DEF r
<1>. QED
  BY <1>1, <1>3, RefuseTurns DEF SubmitAnswered, AnswerUnusable, Reasons, StickyBlocks

LEMMA PollTurns ==
    ASSUME IInv, FInv, NEW p \in Plans, Poll(p)
    PROVE  Turn(p)
<1>1. UNCHANGED Elsewhere /\ Recorded(p) /\ run[p] \in Records /\ KnownJob(p) /\ pc[p] = "poll"
  BY HeldRecorded DEF Poll, IInv, PointsReached, Following
<1>2. DeadlineOf(p) \in Nat
  BY <1>1, BoundAssumption DEF DeadlineOf, Records
<1>3. CASE Refuse(p, FALSE)
  BY <1>1, <1>3, RefuseTurns
<1>4. CASE QueryFails(p)
  <2> DEFINE r == [run[p] EXCEPT !.deadline = DeadlineOf(p)]
  <2>1. /\ r \in Records /\ r.deadline = DeadlineOf(p) /\ r.job = run[p].job
        /\ r.observed = run[p].observed /\ r.early = run[p].early
    BY <1>1, <1>2 DEF Records
  <2>2. DeadlineKept(p, r)
    BY <2>1 DEF DeadlineKept, DeadlineOf
  <2>3. \/ \E why \in {"auth_required", "transport_error", "monitor_timeout"} : BlockWith(p, r, why)
        \/ RetryWith(p, r)
    BY <1>4 DEF QueryFails
  <2> HIDE DEF r
  <2>. QED
    BY <1>1, <2>1, <2>2, <2>3, BlockTurns, RetryTurns DEF Reasons, StickyBlocks
<1>5. ASSUME NEW s \in Words(jobState[run[p].job]),
             IF s \notin Terminal /\ now >= DeadlineOf(p)
             THEN BlockWith(p, Observed(p, s), "monitor_timeout")
             ELSE /\ Save(p, Observed(p, s))
                  /\ Enter(p, IF s \in Terminal THEN "check" ELSE "poll")
                  /\ UNCHANGED ledger
      PROVE  Turn(p)
  <2>1. s \in SchedStates
    BY WordsKnown
  <2> DEFINE o == Observed(p, s)
  <2>2. /\ o \in Records /\ o.phase = "monitoring" /\ o.deadline = DeadlineOf(p)
        /\ o.job = run[p].job /\ o.observed = s /\ o.early = Early(p, s)
    <3> DEFINE e == Early(p, s)
    <3>1. e \in BOOLEAN /\ o = [run[p] EXCEPT !.deadline = DeadlineOf(p), !.phase = "monitoring",
                                               !.observed = s, !.early = e]
      BY DEF Early, Observed
    <3> HIDE DEF e, o
    <3>. QED
      BY <1>1, <1>2, <2>1, <3>1 DEF Records, Phases, e
  <2>3. DeadlineKept(p, o)
    BY <2>2 DEF DeadlineKept, DeadlineOf
  <2> HIDE DEF o
  <2>4. CASE BlockWith(p, o, "monitor_timeout")
    BY <1>1, <2>2, <2>3, <2>4, BlockTurns DEF Reasons, StickyBlocks
  <2>5. CASE Save(p, o) /\ Enter(p, IF s \in Terminal THEN "check" ELSE "poll")
    <3>1. Follows(p, o)
      BY <2>2, <2>3 DEF Follows, Absent
    <3>2. s \in Terminal => Told(o)
      <4>1. run[p].job \in JobIds /\ run[p].job # NoJob
        BY <1>1 DEF KnownJob, Records
      <4>2. jobState[run[p].job] \in JobStates
        BY <4>1 DEF IInv, TypeOK
      <4>3. jobState[run[p].job] = "between" => scheduler = "slurm"
        BY <4>1 DEF FInv, Concluded
      <4>4. s \in Terminal => jobState[run[p].job] \in Over \cup {"between"}
        BY <1>5, <4>2 DEF Words, Terminal, Over, Live, JobStates
      <4>5. s = "FAILED" => jobState[run[p].job] = "failed"
        BY <1>5, <4>2 DEF Words, Over, Live, JobStates
      <4>6. s = "COMPLETED" /\ jobState[run[p].job] = "failed" => scheduler = "pbs"
        BY <1>5, <4>2 DEF Words, IInv, TypeOK
      <4>7. s \in Terminal => o.early = (jobState[run[p].job] \notin Over)
        BY <2>2 DEF Early
      <4>. QED
        BY <2>2, <4>1, <4>3, <4>4, <4>5, <4>6, <4>7 DEF Told, Wrong
    <3>3. Passes(p, o, IF s \in Terminal THEN "check" ELSE "poll")
      BY <1>1, <2>2, <3>2 DEF Passes, Checked, KnownJob
    <3>. QED
      BY <1>1, <2>5, <3>1, <3>3, EnterTurns
  <2>. QED
    BY <1>5, <2>4, <2>5 DEF o
<1>. QED
  BY <1>3, <1>4, <1>5 DEF Poll

\* Past the monitor: the results, and the conclusion.
LEMMA ResultTurns ==
    ASSUME IInv, FInv, NEW p \in Plans, VerifyResults(p) \/ Collect(p) \/ Finish(p)
    PROVE  Turn(p)
<1>1. /\ UNCHANGED Elsewhere /\ run[p] \in Records /\ run[p].phase # Absent
      /\ pc[p] \in Checked
  BY HeldRecorded DEF VerifyResults, Collect, Finish, Recorded, Checked
<1>2. CASE VerifyResults(p)
  <2>1. CASE UNCHANGED run /\ \E point : Enter(p, point)
    BY <1>1, <2>1, MoveTurns DEF Enter
  <2>. QED
    BY <1>1, <1>2, <2>1, RefuseTurns DEF VerifyResults, Reasons, StickyBlocks
<1>3. CASE Collect(p)
  <2>1. ASSUME NEW got, NEW point, Save(p, [run[p] EXCEPT !.collected = got]), Enter(p, point)
        PROVE  Turn(p)
    <3> DEFINE r == [run[p] EXCEPT !.collected = got]
    <3>1. /\ r.phase = run[p].phase /\ r.deadline = run[p].deadline /\ r.job = run[p].job
          /\ r.status = run[p].status /\ r.observed = run[p].observed /\ r.early = run[p].early
      BY <1>1 DEF Records
    <3> HIDE DEF r
    <3>2. Follows(p, r) /\ Passes(p, r, point)
      BY <1>1, <3>1, PlainFollows DEF DeadlineKept, Passes
    <3>. QED
      BY <1>1, <2>1, <3>2, EnterTurns DEF r
  <2>. QED
    BY <1>1, <1>3, <2>1, RefuseTurns, FailTurns DEF Collect
<1>4. CASE Finish(p)
  <2>1. PICK verdict \in Conclusions(run[p].observed) :
           Save(p, [run[p] EXCEPT !.phase = "finished", !.reason = "none", !.status = verdict])
    BY <1>4 DEF Finish
  <2> DEFINE r == [run[p] EXCEPT !.phase = "finished", !.reason = "none", !.status = verdict]
  <2>2. /\ r.phase = "finished" /\ r.deadline = run[p].deadline /\ r.job = run[p].job
        /\ r.status = verdict /\ r.early = run[p].early
    BY <1>1 DEF Records
  <2>3. pc[p] = "finish" /\ pc' = [pc EXCEPT ![p] = "idle"]
    BY <1>4 DEF Finish, Release
  <2> HIDE DEF r
  <2>4. Follows(p, r) /\ Passes(p, r, "idle")
    BY <2>1, <2>2, <2>3 DEF Follows, Passes, DeadlineKept, Checked, Absent
  <2>. QED
    BY <1>1, <2>1, <2>3, <2>4, SaveTurns DEF r
<1>. QED
  BY <1>2, <1>3, <1>4

LEMMA PlanTurns ==
    ASSUME IInv, FInv, NEW p \in Plans, Admission(p) \/ HolderStep(p) \/ Process(p)
    PROVE  Turn(p)
<1>1. CASE BeginPrepare(p)
  BY <1>1, BeginTurns DEF BeginPrepare, Phases, Checked
<1>2. CASE BeginMonitor(p)
  BY <1>2, BeginTurns DEF BeginMonitor, Phases, Checked
<1>3. CASE BeginCollect(p)
  BY <1>3, BeginTurns DEF BeginCollect, Phases, Checked
<1>. QED
  BY <1>1, <1>2, <1>3, AdmissionTurns, ProcessTurns, AdmittingTurns, StartTurns, PrepareTurns,
     SubmitTurns, SubmitAnsweredTurns, PollTurns, ResultTurns DEF HolderStep

\* A job that has ended stays as it is, and a known job is not a new one.
LEMMA SchedulerConcludes ==
    ASSUME IInv, FInv, Scheduler \/ Tick
    PROVE  FInv' /\ UNCHANGED run
<1>1. UNCHANGED <<run, pc, scheduler>>
  BY DEF Scheduler, Accept, Reject, JobMoves, Tick, disk, local, ghost, sched
<1>2. \A j \in JobIds : jobState'[j] = "between" => scheduler = "slurm"
  BY DEF Scheduler, Accept, Reject, JobMoves, Tick, IInv, TypeOK, FInv, Concluded, Over, Live, sched
<1>3. ASSUME NEW p \in Plans, run[p].job # NoJob
      PROVE  /\ jobState[run[p].job] \in Over => jobState'[run[p].job] = jobState[run[p].job]
             /\ jobState'[run[p].job] = "failed" => jobState[run[p].job] \in {"failed"} \cup Live
  <2>1. run[p].job \in JobIds /\ jobInst[run[p].job] # NoInst
    BY <1>3 DEF IInv, TypeOK, Records, JobIsOurs, KnownJob
  <2>. QED
    BY <2>1 DEF Scheduler, Accept, Reject, JobMoves, Tick, IInv, TypeOK, Over, Live, sched
<1>. QED
  BY <1>1, <1>2, <1>3 DEF FInv, Concluded, Told, Says, Wrong, Recorded, Over, Live

LEMMA NextConcludes == IInv /\ FInv /\ [Next]_vars => FInv'
<1>. SUFFICES ASSUME IInv, FInv, [Next]_vars PROVE FInv'
  OBVIOUS
<1>1. CASE UNCHANGED vars
  BY <1>1 DEF vars, disk, local, sched, FInv, Concluded, Told, Says, Wrong, Recorded
<1>2. CASE \E p \in Plans : Admission(p) \/ HolderStep(p) \/ Process(p)
  BY <1>2, PlanTurns, TurnKeeps
<1>3. CASE Scheduler \/ Tick
  BY <1>3, SchedulerConcludes
<1>. QED
  BY <1>1, <1>2, <1>3 DEF Next

LEMMA Conclusion == Spec => []FInv
<1>1. Init => FInv
  BY DEF Init, NoRecord, NewRecord, FInv, Concluded, Recorded, Checked, Absent
<1>. QED
  BY <1>1, NextConcludes, Invariant, PTL DEF Spec

\* A finished run has followed its job to the end, unless Slurm said so too early; it
\* says failed only of a job that failed, and completed of one that did only where the
\* scheduler does not tell (rsci_gateway.py: normalize_state, tasks.py: monitor).
THEOREM FinishesTruthfully == Spec => []FinishedTruthfully
<1>1. FInv => FinishedTruthfully
  BY DEF FInv, Concluded, Says, Wrong, FinishedTruthfully, KnownJob
<1>. QED
  BY <1>1, Conclusion, PTL

\* The deadline of a run's monitor is set once, from the time of the submission,
\* however often workers die and are launched again; only a person extends it.
THEOREM KeepsMonitorBudget == Spec => MonitorBudgetKept
<1> DEFINE Kept == \A p \in Plans : run'[p].phase # Absent /\ run'[p].deadline # run[p].deadline =>
                      \/ op[p] = "extend"
                      \/ run[p].deadline = 0 /\ run'[p].deadline = run[p].submitAt + Budget
<1>1. IInv /\ FInv /\ [Next]_vars => [Kept]_vars
  <2>. SUFFICES ASSUME IInv, FInv, Next PROVE Kept
    OBVIOUS
  <2>1. CASE \E p \in Plans : Admission(p) \/ HolderStep(p) \/ Process(p)
    BY <2>1, PlanTurns DEF Turn, Follows, DeadlineKept
  <2>2. CASE Scheduler \/ Tick
    BY <2>2, SchedulerConcludes
  <2>. QED
    BY <2>1, <2>2 DEF Next
<1>. QED
  BY <1>1, Invariant, Conclusion, PTL DEF Spec, MonitorBudgetKept
-----------------------------------------------------------------------------
(* The engine implements the one-shot grant: only a claim changes the      *)
(* ledger and only CallScheduler submits.                                  *)

LEMMA StepRefines == IInv /\ [Next]_vars => [Approved!Next]_(Approved!vars)
<1>. SUFFICES ASSUME IInv, [Next]_vars
              PROVE  Approved!Next \/ UNCHANGED <<ledger, calls>>
  BY DEF Approved!vars
<1>1. CASE UNCHANGED vars
  BY <1>1 DEF vars, disk, ghost
<1>2. CASE \E p \in Plans : Admission(p) \/ Process(p)
  BY <1>2 DEF Admission, EnqueueNew, EnqueueReplacement, EnqueueAgain, Resume, ForceRun,
              EnqueueExisting, Bind, Process, Acquire, LoseRace, LaunchFails, Recover,
              ProbeBegin, Crash, CrashReady, DeleteRecord, Elsewhere
<1>3. CASE Scheduler \/ Tick
  BY <1>3 DEF Scheduler, Accept, Reject, JobMoves, Tick, disk, ghost
<1>4. ASSUME NEW p \in Plans, Activate(p)
      PROVE  Approved!Next \/ UNCHANGED <<ledger, calls>>
  <2>1. UNCHANGED calls
    BY <1>4 DEF Activate, Elsewhere
  <2>2. CASE Claims(p)
    <3>1. run[p].inst \in Instances /\ run[p].token \in Tokens
      BY <1>4, HeldRecorded DEF Activate, IInv, RecordsNamed
    <3>2. Approved!Claim(run[p].token, run[p].inst)
      BY <2>1, <2>2 DEF Approved!Claim, Claims
    <3>. QED
      BY <3>1, <3>2 DEF Approved!Next
  <2>3. CASE Owns(p) \/ ActivationBlocked(p) \/ UsedByAnother(p)
    BY <2>1, <2>3 DEF Owns, ActivationBlocked, UsedByAnother, Block, BlockWith
  <2>. QED
    BY <1>4, <2>2, <2>3 DEF Activate
<1>5. ASSUME NEW p \in Plans, CallScheduler(p)
      PROVE  Approved!Next \/ UNCHANGED <<ledger, calls>>
  <2>1. CASE Refuse(p, TRUE) /\ UNCHANGED Elsewhere
    BY <2>1 DEF Refuse, Block, BlockWith, Elsewhere
  <2>2. CASE Submits(p)
    <3>1. run[p].inst \in Instances /\ run[p].token \in Tokens /\ calls[run[p].inst] = 0
      BY <2>2, HeldRecorded DEF Submits, IInv, RecordsNamed, PointsReached
    <3>2. Approved!Fire(run[p].inst)
      BY <2>2, <3>1 DEF Approved!Fire, Submits, Accepts, OwnsToken
    <3>. QED
      BY <3>1, <3>2 DEF Approved!Next
  <2>. QED
    BY <1>5, <2>1, <2>2 DEF CallScheduler, Submits
<1>6. ASSUME NEW p \in Plans, HolderStep(p), ~Activate(p), ~CallScheduler(p)
      PROVE  UNCHANGED <<ledger, calls>>
  <2>1. CASE Queue(p) \/ Admit(p) \/ ProbeEnd(p) \/ Start(p) \/ Finish(p) \/ VerifyResults(p)
    BY <2>1 DEF Queue, Admit, ProbeEnd, Start, Finish, VerifyResults, Refuse, Block, BlockWith,
                Elsewhere
  <2>2. CASE Prepare(p) \/ BeginSubmit(p) \/ VerifyRemote(p) \/ Collect(p)
    BY <2>2 DEF Prepare, BeginSubmit, VerifyRemote, Collect, StepFails, TransportFails,
                RetryWith, Refuse, Block, BlockWith, Elsewhere
  <2>3. CASE BeginPrepare(p) \/ BeginMonitor(p) \/ BeginCollect(p)
    BY <2>3 DEF BeginPrepare, BeginMonitor, BeginCollect, Begin, Refuse, Block, BlockWith,
                Elsewhere
  <2>4. CASE JournalSubmit(p) \/ SubmitAnswered(p) \/ Poll(p)
    BY <2>4 DEF JournalSubmit, SubmitAnswered, AnswerUnusable, Poll, QueryFails, RetryWith,
                Refuse, Block, BlockWith, Elsewhere
  <2>. QED
    BY <1>6, <2>1, <2>2, <2>3, <2>4 DEF HolderStep
<1>. QED
  BY <1>1, <1>2, <1>3, <1>4, <1>5, <1>6 DEF Next

\* The engine is an implementation of OneShot: a token is claimed by one run
\* instance for good, and the instance submits once, while it holds a token.
THEOREM ImplementsOneShot == Spec => ApprovedOnce
<1>1. Init => Approved!Init
  BY DEF Init, Approved!Init
<1>. QED
  BY <1>1, Invariant, StepRefines, PTL DEF Spec, ApprovedOnce, Approved!Spec

=============================================================================
