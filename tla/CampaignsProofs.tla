--------------------------- MODULE CampaignsProofs ---------------------------
(***************************************************************************)
(* For any plan, any number of processes and any faults: what a campaign   *)
(* says of its stages is what their jobs have done, and it ends with       *)
(* nothing under way.  With one console, a stage is paid for once, and the *)
(* campaign implements StagedPlan.                                         *)
(*                                                                         *)
(* The record and every copy satisfy the same predicates of records (Fits, *)
(* Sane, Clean), except for what the operation that holds a copy is about  *)
(* to save; so the copy a process saves over another's work is as good as  *)
(* the record it replaces.                                                 *)
(***************************************************************************)
EXTENDS Campaigns, TLAPS

RowFits(row, s) ==
    /\ row.job # NoJob => stageOf[row.job] = s
    /\ row.status \in Active \cup {"converged"} => row.job # NoJob
    /\ row.status = "converged" => s \in good
    /\ row.status \in {"converged", "needs_review", "aborted"} /\ row.job # NoJob
          => jobState[row.job] \in Ends \/ (Slurm /\ row.early)
Fits(r) == r \in Records /\ \A s \in Stages : RowFits(r.rows[s], s)

Ended == Stopped \cup {"converged"}
Sane(r) ==
    /\ r.status = "running" => r.approval # "none"
    /\ \A s \in Stages :
          /\ r.status \in Final /\ r.approval # "other"
                => r.rows[s].status \in Ended \cup {"waiting"}
          /\ r.status = "cancelling" => r.rows[s].status \in Ended \cup Cancelling
          /\ r.status = "running" => r.rows[s].status \notin Cancelling
          /\ r.status \in {"absent", "awaiting_approval"} => r.rows[s].status = "waiting"

Clean(row) == row.status \in {"waiting", "preparing"} => row.job = NoJob

InStart == {"generate", "submit", "answer"}
InTick == InStart \cup {"advance", "settle"}

\* The copy of process p, at point a and place k of its operation.
CopyFits(r, a, k) ==
    /\ Fits(r)
    /\ a # "cancel" => Sane(r)
    /\ \A s \in Stages : Clean(r.rows[s]) \/ (a = "answer" /\ s = Order[k])
    /\ a \in InTick => r.status = "running"
    /\ a = "confirm" => r.status = "cancelling"
    /\ a \in InStart => /\ k \in DOMAIN Order
                        /\ r.rows[Order[k]].status = "preparing"
                        /\ RequiredGood(r, Order[k])
    /\ a = "answer" => r.rows[Order[k]].job # NoJob
    /\ a = "cancel" => \A i \in 1 .. (k - 1) :
                          Cancellable(r, Order[i]) => r.rows[Order[i]].status \in Cancelling

RecordFits(r) == Fits(r) /\ Sane(r) /\ \A s \in Stages : Clean(r.rows[s])

OtherTypes == /\ at \in [Processes -> Points]
              /\ copy \in [Processes -> Records]
              /\ pos \in [Processes -> 1 .. Len(Order) + 1]
              /\ faults \in 0 .. MaxFaults
              /\ shared \in BOOLEAN
JobTypes == /\ stageOf \in [JobIds -> Stages \cup {NoStage}]
            /\ jobState \in [JobIds -> JobStates]
            /\ good \in SUBSET Stages
            /\ scheduler \in {"slurm", "pbs"}
            /\ twice \in SUBSET JobIds
IInv == /\ OtherTypes /\ JobTypes
        /\ RecordFits(record)
        /\ \A p \in Processes : CopyFits(copy[p], at[p], pos[p])
-----------------------------------------------------------------------------
(* The plan *)

LEMMA Places == /\ Len(Order) \in Nat
                /\ DOMAIN Order = 1 .. Len(Order)
                /\ \A k \in DOMAIN Order : Order[k] \in Stages
BY OrderAssumption DEF Stages

LEMMA EmptyFits == RecordFits(NoRecord)
BY DEF RecordFits, Fits, RowFits, Sane, Clean, NoRecord, Waiting, Row, Records, Rows, Statuses,
       RowStatuses, Active, Cancelling, Final, Stopped

\* What holds of a copy holds of it at a point that claims nothing more.
LEMMA PlainCopy ==
    ASSUME NEW r, RecordFits(r), NEW a \in {"idle", "save"}, NEW k
    PROVE  CopyFits(r, a, k)
BY DEF RecordFits, CopyFits, InTick, InStart
-----------------------------------------------------------------------------
(* Changes of one row *)

\* A copy in a tick, with one row changed, which says what is so.
LEMMA ChangedFits ==
    ASSUME NEW r, RecordFits(r), r.status = "running", NEW s \in Stages, NEW row \in Rows,
           row.status \notin Cancelling, RowFits(row, s), Clean(row)
    PROVE  /\ RecordFits([r EXCEPT !.rows[s] = row])
           /\ [r EXCEPT !.rows[s] = row].status = "running"
<1> DEFINE t == [r EXCEPT !.rows[s] = row]
<1>1. r \in Records
  BY DEF RecordFits, Fits
<1>2. /\ t \in Records
      /\ t.status = "running" /\ t.approval = r.approval
      /\ \A u \in Stages : t.rows[u] = IF u = s THEN row ELSE r.rows[u]
  BY <1>1 DEF Records
<1> HIDE DEF t
<1>3. Fits(t) /\ \A u \in Stages : Clean(t.rows[u])
  BY <1>2 DEF RecordFits, Fits
<1>4. Sane(t)
  BY <1>2 DEF RecordFits, Sane, Final, Stopped
<1> QED BY <1>2, <1>3, <1>4 DEF RecordFits, t

LEMMA MarkedFits ==
    ASSUME NEW r, RecordFits(r), r.status = "running", NEW s \in Stages,
           NEW status \in RowStatuses \ (Cancelling \cup {"waiting"}),
           RowFits([r.rows[s] EXCEPT !.status = status], s),
           Clean([r.rows[s] EXCEPT !.status = status])
    PROVE  RecordFits(Marked(r, s, status)) /\ Marked(r, s, status).status = "running"
<1> DEFINE row == [status |-> status, job |-> r.rows[s].job, early |-> r.rows[s].early]
<1>1. r \in Records /\ r.rows[s] \in Rows
  BY DEF RecordFits, Fits, Records
<1>2. row \in Rows /\ row.status = status /\ row = [r.rows[s] EXCEPT !.status = status]
  BY <1>1 DEF Rows
<1>3. Marked(r, s, status) = [r EXCEPT !.rows[s] = row]
  BY <1>1, <1>2 DEF Marked, Records
<1>4. row.status \notin Cancelling /\ RowFits(row, s) /\ Clean(row)
  BY <1>2
<1> HIDE DEF row
<1>5. /\ RecordFits([r EXCEPT !.rows[s] = row])
      /\ [r EXCEPT !.rows[s] = row].status = "running"
  BY <1>2, <1>4, ChangedFits
<1> QED BY <1>3, <1>5
-----------------------------------------------------------------------------
(* Steps of one process *)

\* Process p goes to a point with a copy that fits, and the record, saved or
\* not, fits too.
Moves(p) ==
    \E r \in Records, m \in Records, a \in Points, k \in 1 .. Len(Order) + 1 :
        /\ Goto(p, a, r, k) /\ CopyFits(r, a, k)
        /\ record' = m /\ RecordFits(m)
Counts == faults' \in 0 .. MaxFaults /\ shared' \in BOOLEAN

LEMMA MovesKeeps ==
    ASSUME IInv, NEW p \in Processes, Moves(p), Counts, UNCHANGED remote
    PROVE  IInv'
<1>1. PICK r \in Records, m \in Records, a \in Points, k \in 1 .. Len(Order) + 1 :
              /\ Goto(p, a, r, k) /\ CopyFits(r, a, k)
              /\ record' = m /\ RecordFits(m)
  BY DEF Moves
<1>2. /\ at' = [at EXCEPT ![p] = a]
      /\ copy' = [copy EXCEPT ![p] = r]
      /\ pos' = [pos EXCEPT ![p] = k]
  BY <1>1 DEF Goto
<1>3. OtherTypes' /\ JobTypes'
  BY <1>2 DEF IInv, OtherTypes, JobTypes, Counts, remote, jobs
<1>4. RecordFits(record)'
  BY <1>1 DEF RecordFits, Fits, RowFits, Sane, Clean, remote, jobs, Slurm
<1>5. ASSUME NEW q \in Processes PROVE CopyFits(copy[q], at[q], pos[q])'
  <2>1. CASE q = p
    <3>1. copy'[q] = r /\ at'[q] = a /\ pos'[q] = k
      BY <1>2, <2>1 DEF IInv, OtherTypes
    <3> QED BY <1>1, <3>1 DEF CopyFits, Fits, RowFits, Sane, Clean, remote, jobs, Slurm, RequiredGood,
                              Cancellable
  <2>2. CASE q # p
    <3>1. copy'[q] = copy[q] /\ at'[q] = at[q] /\ pos'[q] = pos[q]
      BY <1>2, <2>2 DEF IInv, OtherTypes
    <3> QED BY <3>1 DEF IInv, CopyFits, Fits, RowFits, Sane, Clean, remote, jobs, Slurm, RequiredGood,
                        Cancellable
  <2> QED BY <2>1, <2>2
<1> QED BY <1>3, <1>4, <1>5 DEF IInv

\* An operation ends by saving a record that fits, or by dying.
LEMMA LeaveMoves ==
    ASSUME NEW p \in Processes, NEW r, RecordFits(r), record' = r, Leave(p)
    PROVE  Moves(p)
<1>1. CopyFits(NoRecord, "idle", 1) /\ NoRecord \in Records
  BY EmptyFits, PlainCopy DEF RecordFits, Fits
<1>2. r \in Records /\ "idle" \in Points /\ 1 \in 1 .. Len(Order) + 1
  BY Places DEF RecordFits, Fits, Points
<1> QED BY <1>1, <1>2 DEF Moves, Leave

\* A turn of the tick ends, or a connection is lost.
LEMMA TickMoves ==
    ASSUME NEW p \in Processes, NEW r, RecordFits(r), r.status = "running",
           NEW a \in {"advance", "settle"}, NEW k \in 1 .. Len(Order) + 1, Save(p, a, r, k)
    PROVE  Moves(p)
<1>1. CopyFits(r, a, k)
  BY DEF RecordFits, CopyFits, InStart
<1> QED BY <1>1 DEF Moves, Save, RecordFits, Fits, Points

\* What a copy in a tick satisfies.
LEMMA TickCopy ==
    ASSUME IInv, NEW p \in Processes, at[p] \in InTick \ {"answer"}
    PROVE  RecordFits(copy[p]) /\ copy[p].status = "running"
BY DEF IInv, CopyFits, InTick, InStart, RecordFits

LEMMA TurnMoves ==
    ASSUME IInv, NEW p \in Processes, NEW r, RecordFits(r), r.status = "running",
           NEW k \in DOMAIN Order,
           (EndTurn(p, k, r) /\ UNCHANGED faults) \/ Disconnect(p, k, r), UNCHANGED shared
    PROVE  Moves(p) /\ Counts
<1>1. Counts
  BY FaultAssumption DEF IInv, OtherTypes, Counts, Disconnect, Fault
<1>2. k \in 1 .. Len(Order) + 1 /\ k + 1 \in 1 .. Len(Order) + 1
  BY Places
<1> QED BY <1>1, <1>2, TickMoves DEF EndTurn, Disconnect

\* A row that fails, or is blocked, without a job.
LEMMA FailedFits ==
    ASSUME JobTypes, NEW r, RecordFits(r), r.status = "running", NEW s \in Stages,
           NEW status \in {"failed", "blocked"}
    PROVE  RecordFits(Marked(r, s, status)) /\ Marked(r, s, status).status = "running"
<1>1. r.rows[s] \in Rows /\ RowFits(r.rows[s], s)
  BY DEF RecordFits, Fits, Records
<1>2. /\ [r.rows[s] EXCEPT !.status = status].status = status
      /\ [r.rows[s] EXCEPT !.status = status].job = r.rows[s].job
  BY <1>1 DEF Rows
<1>3. RowFits([r.rows[s] EXCEPT !.status = status], s)
      /\ Clean([r.rows[s] EXCEPT !.status = status])
  BY <1>1, <1>2 DEF RowFits, Clean, Active, Cancelling
<1>4. status \in RowStatuses \ (Cancelling \cup {"waiting"})
  BY DEF RowStatuses, Cancelling, Stopped
<1> QED BY <1>3, <1>4, MarkedFits

LEMMA GiveUpStep ==
    ASSUME IInv, NEW p \in Processes, NEW k \in DOMAIN Order, NEW s \in Stages, GiveUp(p, k, s)
    PROVE  IInv'
<1>1. RecordFits(copy[p]) /\ copy[p].status = "running"
  BY TickCopy DEF GiveUp, Turn, InTick, InStart
<1>2. RecordFits(Interrupted(copy[p], s)) /\ Interrupted(copy[p], s).status = "running"
  BY <1>1, FailedFits DEF IInv, Interrupted
<1> QED BY <1>2, TurnMoves, MovesKeeps DEF GiveUp

LEMMA MakeDirStep ==
    ASSUME IInv, NEW p \in Processes, NEW k \in DOMAIN Order, NEW s \in Stages, MakeDir(p, k, s)
    PROVE  IInv'
<1>1. RecordFits(copy[p]) /\ copy[p].status = "running"
  BY TickCopy DEF MakeDir, Turn, InTick, InStart
<1>2. CASE Save(p, "generate", Marked(copy[p], s, "preparing"), k) /\ UNCHANGED faults
  <2> DEFINE r == Marked(copy[p], s, "preparing")
  <2>1. copy[p].rows[s] \in Rows /\ copy[p].rows[s].job = NoJob
    BY <1>1 DEF RecordFits, Fits, Records, Clean, MakeDir
  <2>2. /\ [copy[p].rows[s] EXCEPT !.status = "preparing"].status = "preparing"
        /\ [copy[p].rows[s] EXCEPT !.status = "preparing"].job = NoJob
    BY <2>1 DEF Rows
  <2>3. RecordFits(r) /\ r.status = "running"
    <3>1. /\ RowFits([copy[p].rows[s] EXCEPT !.status = "preparing"], s)
          /\ Clean([copy[p].rows[s] EXCEPT !.status = "preparing"])
      BY <2>2 DEF RowFits, Clean, Active, Cancelling
    <3>2. "preparing" \in RowStatuses \ (Cancelling \cup {"waiting"})
      BY DEF RowStatuses, Cancelling
    <3> QED BY <1>1, <3>1, <3>2, MarkedFits DEF IInv
  <2>4. /\ r.rows[s].status = "preparing"
        /\ \A u \in Stages \ {s} : r.rows[u] = copy[p].rows[u]
    BY <1>1 DEF Marked, RecordFits, Fits, Records, Rows
  <2>5. s = Order[k] /\ RequiredGood(copy[p], s) /\ copy[p].rows[s].status = "waiting"
    BY DEF MakeDir, Turn, First, Turns, Actionable
  <2>6. RequiredGood(r, s)
    BY <2>4, <2>5, RequiresAssumption DEF RequiredGood
  <2> HIDE DEF r
  <2>7. CopyFits(r, "generate", k)
    BY <2>3, <2>4, <2>5, <2>6 DEF CopyFits, RecordFits, InTick, InStart
  <2>8. "generate" \in Points /\ k \in 1 .. Len(Order) + 1 /\ r \in Records
    BY <2>3, Places DEF Points, RecordFits, Fits
  <2>9. Moves(p)
    BY <1>2, <2>3, <2>7, <2>8 DEF Moves, Save, r
  <2>10. Counts
    BY <1>2 DEF MakeDir, Counts, IInv, OtherTypes
  <2> QED BY <2>9, <2>10, MovesKeeps DEF MakeDir
<1>3. CASE EndTurn(p, k, Marked(copy[p], s, "failed")) /\ UNCHANGED faults
  <2>1. RecordFits(Marked(copy[p], s, "failed")) /\ Marked(copy[p], s, "failed").status = "running"
    BY <1>1, FailedFits DEF IInv
  <2> QED BY <1>3, <2>1, TurnMoves, MovesKeeps DEF MakeDir
<1>4. CASE Disconnect(p, k, copy[p])
  BY <1>1, <1>4, TurnMoves, MovesKeeps DEF MakeDir
<1> QED BY <1>2, <1>3, <1>4 DEF MakeDir

\* What holds within _start.
LEMMA StartCopy ==
    ASSUME IInv, NEW p \in Processes, NEW k \in DOMAIN Order, NEW s \in Stages,
           NEW point \in InStart, In(p, point, k, s)
    PROVE  /\ copy[p] \in Records /\ copy[p].status = "running"
           /\ copy[p].rows[s].status = "preparing"
           /\ s = Order[k] /\ k = pos[p] /\ RequiredGood(copy[p], s)
           /\ k \in 1 .. Len(Order) + 1
BY Places DEF IInv, CopyFits, Fits, In, InTick

LEMMA GenerateStep ==
    ASSUME IInv, NEW p \in Processes, NEW k \in DOMAIN Order, NEW s \in Stages, Generate(p, k, s)
    PROVE  IInv'
<1>1. RecordFits(copy[p]) /\ copy[p].status = "running"
  BY TickCopy DEF Generate, In, InTick, InStart
<1>2. CASE Goto(p, "submit", copy[p], k) /\ UNCHANGED <<record, faults>>
  <2>1. CopyFits(copy[p], "submit", k)
    <3>1. CopyFits(copy[p], "generate", k)
      BY DEF IInv, Generate, In
    <3> QED BY <3>1 DEF CopyFits, InTick, InStart
  <2>2. RecordFits(record) /\ Counts
    BY <1>2 DEF IInv, OtherTypes, Counts, Generate
  <2>3. /\ "submit" \in Points /\ k \in 1 .. Len(Order) + 1
        /\ copy[p] \in Records /\ record \in Records
    BY <1>1, <2>2, Places DEF Points, RecordFits, Fits
  <2>4. Moves(p)
    BY <1>2, <2>1, <2>2, <2>3 DEF Moves
  <2> QED BY <2>2, <2>4, MovesKeeps DEF Generate
<1>3. ASSUME NEW why \in {"failed", "blocked"},
             \/ EndTurn(p, k, Marked(copy[p], s, why)) /\ UNCHANGED faults
             \/ Disconnect(p, k, Marked(copy[p], s, why))
      PROVE  IInv'
  <2>1. RecordFits(Marked(copy[p], s, why)) /\ Marked(copy[p], s, why).status = "running"
    BY <1>1, FailedFits DEF IInv
  <2> QED BY <1>3, <2>1, TurnMoves, MovesKeeps DEF Generate
<1> QED BY <1>2, <1>3 DEF Generate
-----------------------------------------------------------------------------
(* Jobs are submitted and end; what rows say of them stays true *)

Grows == /\ JobTypes'
         /\ \A j \in JobIds : /\ stageOf[j] # NoStage => stageOf'[j] = stageOf[j]
                              /\ jobState[j] \in Ends => jobState'[j] = jobState[j]
         /\ good \subseteq good' /\ scheduler' = scheduler

LEMMA RowStays ==
    ASSUME JobTypes, Grows, NEW s \in Stages, NEW row \in Rows, RowFits(row, s)
    PROVE  RowFits(row, s)'
<1>1. CASE row.job = NoJob
  BY <1>1 DEF RowFits, Active
<1>2. CASE row.job # NoJob
  <2>1. row.job \in JobIds /\ stageOf[row.job] = s /\ s # NoStage
    BY <1>2, RequiresAssumption DEF RowFits, Rows
  <2> QED BY <2>1 DEF RowFits, Grows, Slurm
<1> QED BY <1>1, <1>2

LEMMA FitsStays ==
    ASSUME JobTypes, Grows, NEW r, Fits(r)
    PROVE  Fits(r)'
<1>1. \A s \in Stages : r.rows[s] \in Rows
  BY DEF Fits, Records
<1>2. ASSUME NEW s \in Stages PROVE RowFits(r.rows[s], s)'
  <2>1. PICK row \in Rows : row = r.rows[s]
    BY <1>1
  <2>2. RowFits(row, s)'
    BY <2>1, RowStays DEF Fits
  <2> QED BY <2>1, <2>2
<1> QED BY <1>2 DEF Fits

LEMMA RecordStays ==
    ASSUME IInv, Grows, UNCHANGED record
    PROVE  RecordFits(record)'
<1>1. PICK r : r = record
  OBVIOUS
<1>2. Fits(r)'
  BY <1>1, FitsStays DEF IInv, RecordFits
<1>3. Fits(record)'
  BY <1>1, <1>2
<1> QED BY <1>3 DEF IInv, RecordFits, Sane, Clean

LEMMA CopyStays ==
    ASSUME IInv, Grows, NEW p \in Processes, copy'[p] = copy[p], at'[p] = at[p], pos'[p] = pos[p]
    PROVE  CopyFits(copy[p], at[p], pos[p])'
<1>1. PICK r : r = copy[p]
  OBVIOUS
<1>2. Fits(r)'
  BY <1>1, FitsStays DEF IInv, CopyFits
<1>3. Fits(copy[p])'
  BY <1>1, <1>2
<1> QED BY <1>3 DEF IInv, CopyFits, Sane, Clean, RequiredGood, Cancellable

LEMMA JobStep ==
    ASSUME IInv, NEW j \in JobIds, JobEnds(j) \/ Converges(j)
    PROVE  IInv'
<1>1. Grows
  <2>1. CASE JobEnds(j)
    BY <2>1 DEF IInv, JobEnds, JobTypes, JobStates, Ends, Grows
  <2>2. CASE Converges(j)
    BY <2>2 DEF IInv, Converges, Started, JobTypes, Grows
  <2> QED BY <2>1, <2>2
<1>2. UNCHANGED local /\ UNCHANGED record
  BY DEF JobEnds, Converges
<1>3. OtherTypes'
  BY <1>2, FaultAssumption DEF IInv, OtherTypes, JobEnds, Converges, Fault, local
<1> QED BY <1>1, <1>2, <1>3, RecordStays, CopyStays DEF IInv, local, Grows

\* A submission is accepted as job j, the first of its stage or one more.
Sends(p, k, s, j) == /\ stageOf[j] = NoStage
                     /\ stageOf' = [stageOf EXCEPT ![j] = s]
                     /\ twice' \in SUBSET JobIds
                     /\ Goto(p, "answer", [copy[p] EXCEPT !.rows[s].job = j], k)
                     /\ faults' \in 0 .. MaxFaults
                     /\ UNCHANGED <<record, jobs, shared>>

LEMMA SendsStep ==
    ASSUME IInv, NEW p \in Processes, NEW k \in DOMAIN Order, NEW s \in Stages,
           NEW point \in {"submit", "answer"}, In(p, point, k, s),
           NEW j \in JobIds, Sends(p, k, s, j)
    PROVE  IInv'
<1>1. CopyFits(copy[p], point, k) /\ copy[p].status = "running"
  BY StartCopy DEF IInv, In, InStart
<1>2. Grows
  BY DEF IInv, JobTypes, Grows, Sends, jobs
<1>3. PICK r : r = [copy[p] EXCEPT !.rows[s].job = j]
  OBVIOUS
<1>4. /\ at' = [at EXCEPT ![p] = "answer"] /\ pos' = [pos EXCEPT ![p] = k]
      /\ copy' = [copy EXCEPT ![p] = r]
  BY <1>3 DEF Goto, Sends
<1>5. /\ copy[p] \in Records /\ copy[p].rows[s].status = "preparing"
      /\ s = Order[k] /\ k \in 1 .. Len(Order) + 1 /\ RequiredGood(copy[p], s)
  BY StartCopy DEF InStart
<1>6. /\ r \in Records
      /\ r.status = copy[p].status /\ r.approval = copy[p].approval
      /\ \A u \in Stages : /\ r.rows[u].status = copy[p].rows[u].status
                           /\ u # s => r.rows[u] = copy[p].rows[u]
      /\ r.rows[s].job = j
  BY <1>3, <1>5 DEF Records, Rows
<1>7. Fits(r)'
  <2>1. Fits(copy[p])
    BY <1>1 DEF CopyFits
  <2>2. ASSUME NEW u \in Stages \ {s} PROVE RowFits(r.rows[u], u)'
    <3>1. r.rows[u] \in Rows /\ RowFits(r.rows[u], u)
      BY <1>6, <2>1 DEF Fits, Records
    <3> QED BY <1>2, <3>1, RowStays DEF IInv
  <2>3. RowFits(r.rows[s], s)'
    <3>1. stageOf'[j] = s
      BY DEF IInv, JobTypes, Sends
    <3> QED BY <1>5, <1>6, <3>1, JobAssumption DEF RowFits, Active, Cancelling
  <2> QED BY <1>6, <2>2, <2>3 DEF Fits
<1>8. CopyFits(r, "answer", k)'
  <2>1. Sane(r)
    BY <1>1, <1>6 DEF CopyFits, Sane
  <2>2. \A u \in Stages : Clean(r.rows[u]) \/ u = s
    BY <1>1, <1>5, <1>6 DEF CopyFits
  <2>3. RequiredGood(r, s)
    BY <1>5, <1>6, RequiresAssumption DEF RequiredGood
  <2>4. j # NoJob
    BY JobAssumption
  <2> QED BY <1>1, <1>5, <1>6, <1>7, <2>1, <2>2, <2>3, <2>4
          DEF CopyFits, InTick, InStart, Sane, Clean, RequiredGood
<1>9. OtherTypes'
  BY <1>4, <1>5, <1>6 DEF IInv, OtherTypes, Points, Sends
<1>10. ASSUME NEW q \in Processes PROVE CopyFits(copy[q], at[q], pos[q])'
  <2>1. CASE q = p
    <3>1. copy'[q] = r /\ at'[q] = "answer" /\ pos'[q] = k
      BY <1>4, <2>1 DEF IInv, OtherTypes
    <3> QED BY <1>8, <3>1
  <2>2. CASE q # p
    BY <1>2, <1>4, <2>2, CopyStays DEF IInv, OtherTypes
  <2> QED BY <2>1, <2>2
<1> QED BY <1>2, <1>9, <1>10, RecordStays DEF IInv, Grows, Sends

LEMMA SubmitStep ==
    ASSUME IInv, NEW p \in Processes, NEW k \in DOMAIN Order, NEW s \in Stages,
           Submit(p, k, s) \/ Resend(p, k, s)
    PROVE  IInv'
<1>1. CASE Resend(p, k, s)
  <2>1. PICK j \in JobIds : /\ stageOf[j] = NoStage
                            /\ stageOf' = [stageOf EXCEPT ![j] = s]
                            /\ twice' = twice \cup {j}
                            /\ Goto(p, "answer", [copy[p] EXCEPT !.rows[s].job = j], k)
    BY <1>1 DEF Resend
  <2>2. faults' \in 0 .. MaxFaults
    BY <1>1, FaultAssumption DEF Resend, Fault, IInv, OtherTypes
  <2>3. Sends(p, k, s, j)
    BY <1>1, <2>1, <2>2 DEF Resend, Sends, IInv, JobTypes
  <2> QED BY <1>1, <2>3, SendsStep DEF Resend
<1>2. CASE Submit(p, k, s)
  <2>1. RecordFits(copy[p]) /\ copy[p].status = "running"
    BY <1>2, TickCopy DEF Submit, In, InTick, InStart
  <2>2. ASSUME NEW j \in JobIds, Sends(p, k, s, j) PROVE IInv'
    BY <1>2, <2>2, SendsStep DEF Submit
  <2>3. ASSUME \/ EndTurn(p, k, Marked(copy[p], s, "failed")) /\ UNCHANGED <<stageOf, faults>>
               \/ Disconnect(p, k, Marked(copy[p], s, "failed")) /\ UNCHANGED stageOf
        PROVE  IInv'
    <3>1. RecordFits(Marked(copy[p], s, "failed"))
          /\ Marked(copy[p], s, "failed").status = "running"
      BY <2>1, FailedFits DEF IInv
    <3>2. UNCHANGED <<stageOf, twice, jobs, shared>>
      BY <1>2, <2>3 DEF Submit
    <3> QED BY <2>3, <3>1, <3>2, TurnMoves, MovesKeeps DEF remote
  <2>4. \/ \E j \in JobIds : Sends(p, k, s, j)
        \/ EndTurn(p, k, Marked(copy[p], s, "failed")) /\ UNCHANGED <<stageOf, faults>>
        \/ Disconnect(p, k, Marked(copy[p], s, "failed")) /\ UNCHANGED stageOf
    BY <1>2 DEF Submit, Sends, IInv, OtherTypes, JobTypes
  <2> QED BY <2>2, <2>3, <2>4
<1> QED BY <1>1, <1>2

LEMMA AnswerStep ==
    ASSUME IInv, NEW p \in Processes, NEW k \in DOMAIN Order, NEW s \in Stages, Answer(p, k, s)
    PROVE  IInv'
<1> DEFINE c == copy[p]
<1>1. /\ c \in Records /\ c.status = "running" /\ c.rows[s].status = "preparing"
      /\ s = Order[k] /\ k = pos[p] /\ at[p] = "answer"
  BY StartCopy DEF Answer, InStart, In
<1>2. /\ Fits(c) /\ Sane(c) /\ c.rows[s].job # NoJob
      /\ \A u \in Stages \ {s} : Clean(c.rows[u])
  BY <1>1 DEF IInv, CopyFits
<1>3. c.rows[s] \in Rows
  BY <1>1 DEF Records
<1> HIDE DEF c
<1>4. ASSUME NEW r, NEW row \in Rows, r \in Records, r.status = c.status,
             r.approval = c.approval, r.rows[s] = row, row.status \in {"running", "failed"},
             RowFits(row, s), \A u \in Stages \ {s} : r.rows[u] = c.rows[u]
      PROVE  RecordFits(r) /\ r.status = "running"
  <2>1. Fits(r)
    BY <1>2, <1>4 DEF Fits
  <2>2. Sane(r)
    BY <1>1, <1>2, <1>4 DEF Sane, Cancelling, Final, Stopped
  <2>3. \A u \in Stages : Clean(r.rows[u])
    BY <1>2, <1>4 DEF Clean
  <2> QED BY <1>1, <1>4, <2>1, <2>2, <2>3 DEF RecordFits
<1>5. RecordFits(Marked(c, s, "running")) /\ Marked(c, s, "running").status = "running"
  <2> DEFINE r == Marked(c, s, "running")
             row == [status |-> "running", job |-> c.rows[s].job, early |-> c.rows[s].early]
  <2>1. row \in Rows /\ RowFits(row, s)
    BY <1>2, <1>3 DEF Rows, RowStatuses, Active, RowFits, Fits
  <2>2. /\ r \in Records /\ r.status = c.status /\ r.approval = c.approval
        /\ r.rows[s] = row
        /\ \A u \in Stages \ {s} : r.rows[u] = c.rows[u]
    BY <1>1, <1>3, <2>1 DEF Marked, Records, Rows
  <2> HIDE DEF r
  <2> QED BY <1>4, <2>1, <2>2 DEF r
<1>6. RecordFits(Unanswered(c, s)) /\ Unanswered(c, s).status = "running"
  <2> DEFINE r == Unanswered(c, s)
             row == Row("failed", NoJob, FALSE)
  <2>1. row \in Rows /\ RowFits(row, s) /\ row.status = "failed"
    BY DEF Row, Rows, RowStatuses, Stopped, Active, Cancelling, RowFits
  <2> HIDE DEF row
  <2>2. /\ r \in Records /\ r.status = c.status /\ r.approval = c.approval
        /\ r.rows[s] = row
        /\ \A u \in Stages \ {s} : r.rows[u] = c.rows[u]
    BY <1>1, <2>1 DEF Unanswered, Records, row
  <2> HIDE DEF r
  <2> QED BY <1>4, <2>1, <2>2 DEF r
<1> QED BY <1>5, <1>6, TurnMoves, MovesKeeps DEF Answer, c

\* A job that is said to have ended has, or it is Slurm that says so.
LEMMA WordsTrue ==
    ASSUME JobTypes, NEW j \in JobIds, Words(j) \cap Terminal # {}
    PROVE  jobState[j] \in Ends \/ (Slurm /\ Early(j))
BY DEF JobTypes, JobStates, Ends, Words, Terminal, Early

LEMMA PollStep ==
    ASSUME IInv, NEW p \in Processes, NEW k \in DOMAIN Order, NEW s \in Stages, Poll(p, k, s)
    PROVE  IInv'
<1> DEFINE j == copy[p].rows[s].job
<1>1. RecordFits(copy[p]) /\ copy[p].status = "running"
  BY TickCopy DEF Poll, Turn, InTick, InStart
<1>2. copy[p].rows[s] \in Rows /\ copy[p].rows[s].status = "running"
      /\ RowFits(copy[p].rows[s], s)
  BY <1>1 DEF Poll, RecordFits, Fits, Records
<1>3. j \in JobIds /\ stageOf[j] = s /\ j # NoJob
  BY <1>2 DEF RowFits, Rows, Active
<1>4. ASSUME NEW word \in Words(j), word \in Terminal, NEW v \in Verdicts(s, word)
      PROVE  RecordFits(Judged(copy[p], s, v)) /\ Judged(copy[p], s, v).status = "running"
  <2> DEFINE row == Row(v, j, Early(j))
  <2>1. /\ v \in {"converged", "needs_review", "failed"}
        /\ v = "converged" => s \in good
    BY <1>4 DEF Verdicts, Terminal
  <2>2. row \in Rows /\ row.status \notin Cancelling
    BY <1>3, <2>1 DEF Row, Rows, RowStatuses, Stopped, Cancelling, Early
  <2>3. RowFits(row, s) /\ Clean(row)
    BY <1>3, <1>4, <2>1, WordsTrue DEF Row, RowFits, Clean, Active, Cancelling, IInv
  <2>4. Judged(copy[p], s, v) = [copy[p] EXCEPT !.rows[s] = row]
    BY DEF Judged
  <2> HIDE DEF row
  <2> QED BY <1>1, <2>2, <2>3, <2>4, ChangedFits
<1>5. RecordFits(Marked(copy[p], s, "failed")) /\ Marked(copy[p], s, "failed").status = "running"
  BY <1>1, FailedFits DEF IInv
<1>6. Fault /\ EndTurn(p, k, copy[p]) => Moves(p) /\ Counts
  <2> SUFFICES ASSUME Fault, EndTurn(p, k, copy[p]) PROVE Moves(p) /\ Counts
    OBVIOUS
  <2>1. Counts
    BY FaultAssumption DEF IInv, OtherTypes, Counts, Fault, Poll
  <2>2. k + 1 \in 1 .. Len(Order) + 1
    BY Places
  <2> QED BY <1>1, <2>1, <2>2, TickMoves DEF EndTurn
<1> QED BY <1>1, <1>4, <1>5, <1>6, TurnMoves, MovesKeeps DEF Poll

LEMMA SettleStep == ASSUME IInv, NEW p \in Processes, Settle(p) PROVE IInv'
<1>1. RecordFits(copy[p]) /\ copy[p].status = "running"
  BY TickCopy DEF Settle, InTick, InStart
<1>2. ASSUME NEW r \in Settled(copy[p]) PROVE RecordFits(r)
  <2>0. copy[p] \in Records
    BY <1>1 DEF RecordFits, Fits
  <2>1. CASE r = copy[p]
    BY <1>1, <2>1
  <2>2. ASSUME NEW status \in Final, r = [copy[p] EXCEPT !.status = status],
               \A s \in Stages : copy[p].rows[s].status \in Ended \cup {"waiting"}
        PROVE  RecordFits(r)
    <3>1. r \in Records /\ r.status = status /\ r.rows = copy[p].rows
      BY <2>0, <2>2 DEF Records, Statuses
    <3>2. Fits(r) /\ \A s \in Stages : Clean(r.rows[s])
      BY <1>1, <3>1 DEF RecordFits, Fits
    <3>3. Sane(r)
      BY <2>2, <3>1 DEF Sane, Final, Stopped
    <3> QED BY <3>2, <3>3 DEF RecordFits
  <2>3. CASE AllConverged(copy[p]) /\ r = [copy[p] EXCEPT !.status = "completed"]
    BY <2>2, <2>3 DEF AllConverged, Ended, Final
  <2>4. CASE ~UnderWay(copy[p]) /\ \E i \in Stops(copy[p]) : r = StoppedBy(copy[p], i)
    <3>1. PICK i \in DOMAIN Order : /\ copy[p].rows[Order[i]].status \in Stopped
                                    /\ r = [copy[p] EXCEPT !.status = copy[p].rows[Order[i]].status]
      BY <2>4 DEF Stops, First, StoppedBy
    <3>2. ASSUME NEW s \in Stages PROVE copy[p].rows[s].status \in Ended \cup {"waiting"}
      <4>1. copy[p].rows[s].status \in RowStatuses
        BY <2>0 DEF Records, Rows
      <4>2. copy[p].rows[s].status \notin Cancelling
        BY <1>1 DEF RecordFits, Sane
      <4> QED BY <2>4, <4>1, <4>2 DEF UnderWay, RowStatuses, Active, Ended
    <3>3. copy[p].rows[Order[i]].status \in Final
      BY <3>1 DEF Final
    <3> QED BY <2>2, <3>1, <3>2, <3>3
  <2> QED BY <2>1, <2>3, <2>4 DEF Settled
<1>3. Counts
  BY DEF Settle, Counts, IInv, OtherTypes
<1> QED BY <1>2, <1>3, LeaveMoves, MovesKeeps DEF Settle, Close
-----------------------------------------------------------------------------
(* Cancellations *)

LEMMA AbortedRow ==
    ASSUME NEW s \in Stages, NEW j, NEW early,
           j # NoJob => stageOf[j] = s /\ (jobState[j] \in Ends \/ (Slurm /\ early))
    PROVE  LET row == [status |-> "aborted", job |-> j, early |-> early] IN
           RowFits(row, s) /\ Clean(row) /\ row.status = "aborted"
BY DEF RowFits, Clean, Active, Cancelling

LEMMA ConfirmStep == ASSUME IInv, NEW p \in Processes, ConfirmCancelled(p) PROVE IInv'
<1>1. RecordFits(copy[p]) /\ copy[p].status = "cancelling"
  BY DEF ConfirmCancelled, IInv, CopyFits, InTick, InStart, RecordFits
<1>2. ASSUME NEW over \in SUBSET Over(copy[p]) PROVE RecordFits(Seen(copy[p], over))
  <2> DEFINE c == copy[p]
             r == Seen(c, over)
             ended(s) == Row("aborted", c.rows[s].job, Early(c.rows[s].job))
  <2>1. c \in Records /\ \A s \in Stages : c.rows[s] \in Rows
    BY <1>1 DEF RecordFits, Fits, Records
  <2>2. /\ r \in Records /\ r.approval = c.approval
        /\ r.status = IF Outstanding(c) \subseteq over THEN "aborted" ELSE "cancelling"
        /\ \A s \in Stages : r.rows[s] = IF s \in over THEN ended(s) ELSE c.rows[s]
    <3>1. "aborted" \in RowStatuses /\ "aborted" \in Statuses
      BY DEF RowStatuses, Stopped, Statuses, Final
    <3>2. \A s \in Stages : ended(s) \in Rows
      BY <2>1, <3>1 DEF Row, Rows, Early
    <3> DEFINE rows == [s \in Stages |-> IF s \in over THEN ended(s) ELSE c.rows[s]]
               status == IF Outstanding(c) \subseteq over THEN "aborted" ELSE "cancelling"
    <3>3. rows \in [Stages -> Rows] /\ status \in Statuses
      BY <2>1, <3>1, <3>2 DEF Statuses
    <3>4. r = [c EXCEPT !.rows = rows, !.status = status]
      BY <1>1 DEF Seen
    <3>5. r \in Records /\ r.approval = c.approval /\ r.rows = rows /\ r.status = status
      <4> HIDE DEF rows, status, r
      <4> QED BY <2>1, <3>3, <3>4 DEF Records
    <3> QED BY <3>5
  <2>3. \A s \in over : /\ c.rows[s].status \in Cancelling
                        /\ Words(c.rows[s].job) \cap Terminal # {}
                        /\ s \in Stages
    BY DEF Over, Outstanding
  <2>4. /\ Fits(c) /\ \A s \in Stages : Clean(c.rows[s])
        /\ \A s \in Stages : c.rows[s].status \in Ended \cup Cancelling
    BY <1>1 DEF RecordFits, Sane
  <2>5. \A s \in Stages : c.rows[s].status \in Cancelling => s \in Outstanding(c)
    BY DEF Outstanding
  <2> HIDE DEF r, c
  <2>6. ASSUME NEW s \in Stages
        PROVE  /\ RowFits(r.rows[s], s) /\ Clean(r.rows[s])
               /\ r.rows[s].status \in Ended \cup Cancelling
               /\ r.status = "aborted" => r.rows[s].status \in Ended
    <3>1. CASE s \in over
      <4>1. r.rows[s] = ended(s)
        BY <2>2, <3>1
      <4>2. c.rows[s].job # NoJob =>
               /\ stageOf[c.rows[s].job] = s
               /\ jobState[c.rows[s].job] \in Ends \/ (Slurm /\ Early(c.rows[s].job))
        <5>1. c.rows[s].job # NoJob => c.rows[s].job \in JobIds
          BY <2>1 DEF Rows
        <5> QED BY <2>3, <2>4, <3>1, <5>1, WordsTrue DEF Fits, RowFits, IInv
      <4> QED BY <4>1, <4>2, AbortedRow DEF Ended, Stopped, Row
    <3>2. CASE s \notin over
      BY <2>2, <2>4, <2>5, <3>2 DEF Fits
    <3> QED BY <3>1, <3>2
  <2>7. Sane(r)
    BY <2>2, <2>6 DEF Sane, Final, Stopped
  <2> QED BY <2>2, <2>6, <2>7 DEF RecordFits, Fits, r, c
<1>3. PICK over \in SUBSET Over(copy[p]) : Close(p, Seen(copy[p], over))
  BY DEF ConfirmCancelled
<1>4. Counts
  BY FaultAssumption DEF ConfirmCancelled, Counts, IInv, OtherTypes, Fault
<1>5. Moves(p)
  BY <1>2, <1>3, LeaveMoves DEF Close
<1> QED BY <1>4, <1>5, MovesKeeps DEF ConfirmCancelled

LEMMA CancelStep == ASSUME IInv, NEW p \in Processes, Cancel(p) PROVE IInv'
<1> DEFINE c == copy[p]
<1>1. PICK k \in First(Requests(p)), status \in Cancelling :
              Goto(p, "cancel", Marked(c, Order[k], status), k + 1)
  BY DEF Cancel
<1> DEFINE s == Order[k]
           r == Marked(c, s, status)
<1>2. /\ k \in pos[p] .. Len(Order) /\ Cancellable(c, s)
      /\ \A i \in Requests(p) : k <= i
  BY DEF First, Requests
<1>3. pos[p] \in 1 .. Len(Order) + 1 /\ at[p] = "cancel"
  BY DEF IInv, OtherTypes, Cancel
<1>4. k \in DOMAIN Order /\ k + 1 \in 1 .. Len(Order) + 1 /\ s \in Stages
  BY <1>2, <1>3, Places
<1>5. /\ Fits(c) /\ \A u \in Stages : Clean(c.rows[u])
      /\ \A i \in 1 .. (pos[p] - 1) : Cancellable(c, Order[i])
                                         => c.rows[Order[i]].status \in Cancelling
  BY <1>3 DEF IInv, CopyFits
<1>6. c \in Records /\ c.rows[s] \in Rows
  BY <1>4, <1>5 DEF Fits, Records
<1>7. [c.rows[s] EXCEPT !.status = status]
         = [status |-> status, job |-> c.rows[s].job, early |-> c.rows[s].early]
  BY <1>6 DEF Rows
<1>8. status \in RowStatuses
  BY DEF RowStatuses, Active
<1>9. /\ r \in Records
      /\ \A u \in Stages :
            r.rows[u] = IF u = s THEN [status |-> status, job |-> c.rows[s].job,
                                       early |-> c.rows[s].early]
                        ELSE c.rows[u]
  BY <1>4, <1>6, <1>7, <1>8 DEF Marked, Records, Rows
<1> HIDE DEF r, s, c
<1>10. Fits(r) /\ \A u \in Stages : Clean(r.rows[u])
  BY <1>2, <1>4, <1>5, <1>9 DEF Fits, RowFits, Clean, Cancellable, Cancelling
<1>11. ASSUME NEW i \in 1 .. k, Cancellable(r, Order[i])
       PROVE  r.rows[Order[i]].status \in Cancelling
  <2>1. i \in DOMAIN Order /\ Order[i] \in Stages
    BY <1>4, Places
  <2>2. CASE Order[i] = s
    BY <1>9, <2>1, <2>2
  <2>3. CASE Order[i] # s
    <3>1. Cancellable(c, Order[i]) /\ r.rows[Order[i]] = c.rows[Order[i]]
      BY <1>9, <1>11, <2>1, <2>3 DEF Cancellable
    <3>2. CASE i < pos[p]
      BY <1>3, <1>5, <3>1, <3>2, Places
    <3>3. CASE i >= pos[p]
      <4>1. i \in Requests(p)
        BY <1>3, <2>1, <3>1, <3>3, Places DEF Requests, c
      <4> QED BY <1>2, <1>4, <2>3, <4>1, Places DEF s
    <3> QED BY <1>3, <3>2, <3>3, Places
  <2> QED BY <2>2, <2>3
<1>12. CopyFits(r, "cancel", k + 1)
  <2>1. (k + 1) - 1 = k
    BY <1>4, Places
  <2> QED BY <1>10, <1>11, <2>1 DEF CopyFits, InTick, InStart
<1>13. Moves(p)
  <2>1. RecordFits(record) /\ record' = record /\ record \in Records
    BY DEF IInv, Cancel, RecordFits, Fits
  <2>2. Goto(p, "cancel", r, k + 1) /\ "cancel" \in Points
    BY <1>1 DEF r, s, c, Points
  <2> QED BY <1>4, <1>9, <1>12, <2>1, <2>2 DEF Moves
<1>14. Counts
  BY DEF Cancel, Counts, IInv, OtherTypes
<1> QED BY <1>13, <1>14, MovesKeeps DEF Cancel

LEMMA FinishAbortStep == ASSUME IInv, NEW p \in Processes, FinishAbort(p) PROVE IInv'
<1> DEFINE c == copy[p]
           r == Aborted(c)
           Kept(s) == c.rows[s].status \in Ended \/ Cancellable(c, s)
           aborted(s) == [status |-> "aborted", job |-> c.rows[s].job, early |-> c.rows[s].early]
<1>1. at[p] = "cancel" /\ pos[p] \in 1 .. Len(Order) + 1
  BY DEF IInv, OtherTypes, FinishAbort
<1>2. /\ Fits(c) /\ c \in Records
      /\ \A u \in Stages : Clean(c.rows[u]) /\ c.rows[u] \in Rows
      /\ \A i \in 1 .. (pos[p] - 1) : Cancellable(c, Order[i])
                                         => c.rows[Order[i]].status \in Cancelling
  BY <1>1 DEF IInv, CopyFits, Fits, Records
<1>3. ASSUME NEW s \in Stages, Cancellable(c, s) PROVE c.rows[s].status \in Cancelling
  <2>1. PICK i \in DOMAIN Order : s = Order[i]
    BY DEF Stages
  <2>2. ~(i \in pos[p] .. Len(Order))
    BY <1>3, <2>1 DEF FinishAbort, Requests
  <2>3. i \in 1 .. (pos[p] - 1)
    BY <1>1, <2>2, Places
  <2> QED BY <1>2, <1>3, <2>1, <2>3
<1>4. \A s \in Stages : [c.rows[s] EXCEPT !.status = "aborted"] = aborted(s)
  BY <1>2 DEF Rows
<1>5. ASSUME NEW s \in Stages, ~Kept(s) PROVE c.rows[s].job = NoJob
  <2>1. c.rows[s].status \in RowStatuses
    BY <1>2 DEF Rows
  <2> QED BY <1>2, <1>5, <2>1 DEF Ended, RowStatuses, Cancellable, Clean, Fits, RowFits
<1>6. /\ r \in Records
      /\ r.status = IF \E s \in Stages : Cancellable(c, s) THEN "cancelling" ELSE "aborted"
      /\ \A s \in Stages : r.rows[s] = IF Kept(s) THEN c.rows[s]
                                       ELSE aborted(s)
  <2>1. /\ "aborted" \in RowStatuses
        /\ {"aborted", "cancelling"} \subseteq Statuses
    BY DEF RowStatuses, Stopped, Statuses, Final
  <2>2. \A s \in Stages : aborted(s) \in Rows
    BY <1>2, <2>1 DEF Rows
  <2> DEFINE rows == [s \in Stages |->
                         IF Kept(s) THEN c.rows[s]
                         ELSE aborted(s)]
             status == IF \E s \in Stages : Cancellable(c, s) THEN "cancelling" ELSE "aborted"
  <2>3. rows \in [Stages -> Rows] /\ status \in Statuses
    BY <1>2, <2>1, <2>2
  <2>4. \A s \in Stages : c.rows[s].status \in Stopped \cup {"converged"} \/ Cancellable(c, s)
                             <=> Kept(s)
    BY DEF Ended
  <2>5. r = [c EXCEPT !.rows = rows, !.status = status]
    BY <1>4, <2>4 DEF Aborted
  <2>6. /\ r \in Records /\ r.rows = rows /\ r.status = status
    <3> HIDE DEF rows, status, r
    <3> QED BY <1>2, <2>3, <2>5 DEF Records
  <2> QED BY <2>6
<1>7. \A s \in Stages : /\ Kept(s) /\ ~Cancellable(c, s) => c.rows[s].status \in Ended
  OBVIOUS
<1> HIDE DEF r, c, Kept
<1>8. ASSUME NEW s \in Stages
      PROVE  /\ RowFits(r.rows[s], s) /\ Clean(r.rows[s])
             /\ r.rows[s].status \in Ended \cup Cancelling
             /\ r.status = "aborted" => r.rows[s].status \in Ended
  <2>1. CASE Kept(s)
    BY <1>2, <1>3, <1>6, <1>7, <2>1 DEF Fits
  <2>2. CASE ~Kept(s)
    <3>1. c.rows[s].job = NoJob
      BY <1>5, <2>2
    <3>2. r.rows[s] = [status |-> "aborted", job |-> NoJob, early |-> c.rows[s].early]
      BY <1>6, <2>2, <3>1
    <3> QED BY <3>2, AbortedRow DEF Ended, Stopped
  <2> QED BY <2>1, <2>2
<1>9. Sane(r)
  BY <1>6, <1>8 DEF Sane, Final, Stopped
<1>10. RecordFits(r)
  BY <1>6, <1>8, <1>9 DEF RecordFits, Fits
<1>11. Moves(p)
  BY <1>10, LeaveMoves DEF FinishAbort, Close, r, c
<1>12. Counts
  BY DEF FinishAbort, Counts, IInv, OtherTypes
<1> QED BY <1>11, <1>12, MovesKeeps DEF FinishAbort
-----------------------------------------------------------------------------
(* Operations begin, end or die; campaigns are made; the file is edited *)

LEMMA OpenMoves ==
    ASSUME IInv, NEW p \in Processes, NEW r, NEW a \in Points, CopyFits(r, a, 1), Open(p, a, r)
    PROVE  Moves(p) /\ Counts
<1>1. Counts
  BY DEF IInv, OtherTypes, Open, Counts
<1>2. 1 \in 1 .. Len(Order) + 1 /\ r \in Records
  BY Places DEF CopyFits, Fits
<1>3. record \in Records /\ RecordFits(record) /\ record' = record
  BY DEF IInv, RecordFits, Fits, Open
<1>4. Goto(p, a, r, 1)
  BY DEF Open, Goto
<1> QED BY <1>1, <1>2, <1>3, <1>4 DEF Moves

\* The record, as an operation opens it.
LEMMA OpenFits ==
    ASSUME NEW r, RecordFits(r)
    PROVE  /\ r.status = "running" => CopyFits(r, "advance", 1)
           /\ r.status = "cancelling" => CopyFits(r, "confirm", 1)
           /\ CopyFits(r, "cancel", 1)
BY DEF RecordFits, CopyFits, InTick, InStart

\* A decision on a record, or a refusal to go on with it.
LEMMA DecidedFits ==
    ASSUME NEW r, RecordFits(r)
    PROVE  /\ r.status = "awaiting_approval" =>
                 /\ RecordFits([r EXCEPT !.status = "running", !.approval = "own"])
                 /\ RecordFits([r EXCEPT !.status = "rejected"])
           /\ r.status = "running" /\ r.approval # "own" =>
                 RecordFits([r EXCEPT !.status = "blocked"])
           /\ r.status = "running" => RecordFits([r EXCEPT !.approval = "other"])
<1>1. r \in Records
  BY DEF RecordFits, Fits
<1>2. ASSUME NEW t, t \in Records, t.rows = r.rows, Sane(t)
      PROVE  RecordFits(t)
  BY <1>2 DEF RecordFits, Fits
<1>3. {"running", "rejected", "blocked"} \subseteq Statuses
  BY DEF Statuses, Final, Stopped
<1>4. CASE r.status = "awaiting_approval"
  <2>0. \A s \in Stages : r.rows[s].status = "waiting"
    BY <1>4 DEF RecordFits, Sane
  <2>1. RecordFits([r EXCEPT !.status = "running", !.approval = "own"])
    <3> DEFINE t == [r EXCEPT !.status = "running", !.approval = "own"]
    <3>1. /\ t \in Records /\ t.rows = r.rows /\ t.status = "running"
          /\ t.approval = "own"
      BY <1>1, <1>3 DEF Records
    <3> HIDE DEF t
    <3>2. Sane(t)
      BY <2>0, <3>1 DEF Sane, Cancelling, Final, Stopped
    <3> QED BY <1>2, <3>1, <3>2 DEF t
  <2>2. RecordFits([r EXCEPT !.status = "rejected"])
    <3> DEFINE t == [r EXCEPT !.status = "rejected"]
    <3>1. t \in Records /\ t.rows = r.rows /\ t.status = "rejected"
      BY <1>1, <1>3 DEF Records
    <3> HIDE DEF t
    <3>2. Sane(t)
      BY <2>0, <3>1 DEF Sane, Final, Stopped
    <3> QED BY <1>2, <3>1, <3>2 DEF t
  <2> QED BY <1>4, <2>1, <2>2
<1>5. CASE r.status = "running"
  <2>1. ASSUME r.approval # "own" PROVE RecordFits([r EXCEPT !.status = "blocked"])
    <3> DEFINE t == [r EXCEPT !.status = "blocked"]
    <3>1. /\ t \in Records /\ t.rows = r.rows /\ t.status = "blocked"
          /\ t.approval = r.approval
      BY <1>1, <1>3 DEF Records
    <3> HIDE DEF t
    <3>2. r.approval = "other"
      BY <1>1, <1>5, <2>1 DEF RecordFits, Sane, Records
    <3>3. Sane(t)
      BY <3>1, <3>2 DEF Sane, Final, Stopped
    <3> QED BY <1>2, <3>1, <3>3 DEF t
  <2>2. RecordFits([r EXCEPT !.approval = "other"])
    <3> DEFINE t == [r EXCEPT !.approval = "other"]
    <3>1. /\ t \in Records /\ t.rows = r.rows /\ t.status = "running"
          /\ t.approval = "other"
      BY <1>1, <1>5 DEF Records
    <3> HIDE DEF t
    <3>2. Sane(t)
      BY <1>5, <3>1 DEF RecordFits, Sane, Final, Stopped
    <3> QED BY <1>2, <3>1, <3>2 DEF t
  <2> QED BY <1>5, <2>1, <2>2
<1> QED BY <1>4, <1>5

LEMMA ConcludeStep == ASSUME IInv, NEW p \in Processes, Conclude(p) PROVE IInv'
<1>1. RecordFits(copy[p])
  BY DEF Conclude, IInv, CopyFits, RecordFits
<1>2. Counts
  BY DEF Conclude, Counts, IInv, OtherTypes
<1> QED BY <1>1, <1>2, LeaveMoves, MovesKeeps DEF Conclude, Close

LEMMA BeginsStep == ASSUME IInv, NEW p \in Processes, Begins(p) PROVE IInv'
<1>1. RecordFits(record) /\ "save" \in Points /\ "advance" \in Points
      /\ "confirm" \in Points /\ "cancel" \in Points
  BY DEF IInv, Points
<1>2. ASSUME NEW r, NEW a \in Points, CopyFits(r, a, 1), Open(p, a, r) PROVE IInv'
  BY <1>2, OpenMoves, MovesKeeps DEF Open
<1>3. ASSUME NEW r, RecordFits(r), Open(p, "save", r) PROVE IInv'
  BY <1>1, <1>2, <1>3, PlainCopy
<1>4. CASE Abort(p)
  BY <1>1, <1>2, <1>4, OpenFits DEF Abort
<1>5. CASE Decide(p)
  BY <1>1, <1>3, <1>5, DecidedFits DEF Decide
<1>6. CASE Tick(p)
  BY <1>1, <1>2, <1>3, <1>6, OpenFits, DecidedFits DEF Tick
<1> QED BY <1>4, <1>5, <1>6 DEF Begins

\* The file changes, and no process moves.
LEMMA FileStep ==
    ASSUME IInv, NEW r, RecordFits(r), record' = r, Counts, UNCHANGED <<local, remote>>
    PROVE  IInv'
<1>1. OtherTypes' /\ JobTypes'
  BY DEF IInv, OtherTypes, JobTypes, Counts, local, remote, jobs
<1>2. RecordFits(record)'
  BY DEF RecordFits, Fits, RowFits, Sane, Clean, remote, jobs, Slurm
<1>3. \A p \in Processes : CopyFits(copy[p], at[p], pos[p])'
  BY DEF IInv, CopyFits, Fits, RowFits, Sane, Clean, local, remote, jobs, Slurm,
         RequiredGood, Cancellable
<1> QED BY <1>1, <1>2, <1>3 DEF IInv

LEMMA CreateStep == ASSUME IInv, Create PROVE IInv'
<1>1. RecordFits([NoRecord EXCEPT !.status = "awaiting_approval"])
  BY DEF RecordFits, Fits, RowFits, Sane, Clean, NoRecord, Waiting, Row, Records, Rows, Statuses,
         RowStatuses, Active, Cancelling, Final, Stopped
<1>2. RecordFits([NoRecord EXCEPT !.status = "running", !.approval = "own"])
  BY DEF RecordFits, Fits, RowFits, Sane, Clean, NoRecord, Waiting, Row, Records, Rows, Statuses,
         RowStatuses, Active, Cancelling, Final, Stopped
<1>3. Counts
  BY DEF Create, Counts, IInv, OtherTypes
<1> QED BY <1>1, <1>2, <1>3, FileStep DEF Create

LEMMA RetargetStep == ASSUME IInv, Retarget PROVE IInv'
<1>1. RecordFits([record EXCEPT !.approval = "other"])
  BY DecidedFits DEF IInv, Retarget
<1>2. Counts
  BY FaultAssumption DEF Retarget, Fault, Counts, IInv, OtherTypes
<1> QED BY <1>1, <1>2, FileStep DEF Retarget

LEMMA DieStep == ASSUME IInv, NEW p \in Processes, Die(p) PROVE IInv'
<1>1. Counts
  BY FaultAssumption DEF Die, Counts, IInv, OtherTypes, Fault
<1>2. RecordFits(record) /\ record' = record
  BY DEF IInv, Die
<1> QED BY <1>1, <1>2, LeaveMoves, MovesKeeps DEF Die
-----------------------------------------------------------------------------
(* The invariant *)

LEMMA InitIInv == Init => IInv
<1> SUFFICES ASSUME Init PROVE IInv
  OBVIOUS
<1>1. RecordFits(NoRecord) /\ NoRecord \in Records
  BY EmptyFits DEF RecordFits, Fits
<1>2. OtherTypes
  <2>1. 1 \in 1 .. Len(Order) + 1 /\ 0 \in 0 .. MaxFaults
    BY Places, FaultAssumption
  <2> QED BY <1>1, <2>1 DEF Init, OtherTypes, Points
<1>3. JobTypes
  BY DEF Init, JobTypes, JobStates
<1>4. CopyFits(NoRecord, "idle", 1)
  BY <1>1, PlainCopy
<1> QED BY <1>1, <1>2, <1>3, <1>4 DEF IInv, Init

LEMMA NextKeeps == IInv /\ [Next]_vars => IInv'
<1> SUFFICES ASSUME IInv, [Next]_vars PROVE IInv'
  OBVIOUS
<1>1. CASE UNCHANGED vars
  <2>1. record' = record /\ Counts /\ UNCHANGED <<local, remote>>
    BY <1>1 DEF vars, Counts, IInv, OtherTypes
  <2> QED BY <2>1, FileStep DEF IInv
<1>2. ASSUME NEW p \in Processes, Continue(p) PROVE IInv'
  BY <1>2, ConcludeStep, SettleStep, ConfirmStep, CancelStep, FinishAbortStep, MakeDirStep,
     GiveUpStep, GenerateStep, SubmitStep, AnswerStep, PollStep DEF Continue
<1> QED BY <1>1, <1>2, CreateStep, RetargetStep, BeginsStep, DieStep, JobStep DEF Next

\* The record, every copy and every job keep to what the code means by them:
\* whatever an operation saves over another's work is a record as good as the
\* one it read (save, _settle, _poll_cancellation, abort).
THEOREM Invariant == Spec => []IInv
BY InitIInv, NextKeeps, PTL DEF Spec

\* The variables keep their types in every reachable state.
THEOREM TypeCorrect == Spec => []TypeOK
<1>1. IInv => TypeOK
  BY DEF IInv, RecordFits, Fits, OtherTypes, JobTypes, TypeOK
<1> QED BY <1>1, Invariant, PTL

\* What the campaign says of its stages is what their jobs have done (_poll,
\* _poll_cancellation), whoever saved the record last; before the end of a job only
\* when Slurm was asked while it configured or completed it.
THEOREM VerdictsHold == Spec => []VerdictsTrue
<1>1. IInv => VerdictsTrue
  BY DEF IInv, RecordFits, Fits, RowFits, VerdictsTrue
<1> QED BY <1>1, Invariant, PTL

\* A campaign that ended has nothing under way (_settle, abort): no stage is
\* being prepared, and none has a job that the campaign still follows.
THEOREM EndsWithNothingLeft == Spec => []NothingLeftRunning
<1>1. IInv => NothingLeftRunning
  BY DEF IInv, RecordFits, Sane, NothingLeftRunning, Ended
<1> QED BY <1>1, Invariant, PTL
-----------------------------------------------------------------------------
(* One console: a stage is submitted once *)

Submitted(s) == \E j \in JobIds : stageOf[j] = s
\* Record or copy r does not show a stage that was submitted as waiting.
Holds(r) == r.status # "absent" /\ \A s \in Stages : Submitted(s) => r.rows[s].status # "waiting"

\* c is the console.  Only its ticks submit, and what it is about to submit
\* was not submitted before, and shows in the record as begun.
Once(c) ==
    /\ OneJobPerStage
    /\ \A p \in Processes \ {c} : at[p] \in {"idle", "cancel"}
    /\ \A p \in Processes : at[p] # "idle" => copy[p].status # "absent"
    /\ \/ Holds(record)
       \/ /\ record.status = "absent"
          /\ \A s \in Stages : ~Submitted(s)
          /\ \A p \in Processes : at[p] = "idle"
    /\ at[c] # "idle" => Holds(copy[c])
    /\ at[c] \in {"generate", "submit"} =>
          /\ ~Submitted(Order[pos[c]])
          /\ record.rows[Order[pos[c]]].status # "waiting"

\* A step of process p, which goes to a point with copy r and leaves record m.
LEMMA MovesOnce ==
    ASSUME IInv, NEW c \in Processes, Once(c), NEW p \in Processes,
           NEW a, NEW r, NEW m, NEW k, Goto(p, a, r, k), record' = m, UNCHANGED <<stageOf, twice>>,
           Holds(m),
           a # "idle" => r.status # "absent",
           p # c => /\ a \in {"idle", "cancel"}
                    /\ m = record \/ \A s \in Stages : m.rows[s].status # "waiting",
           p = c /\ a # "idle" => Holds(r),
           p = c /\ a \in {"generate", "submit"} =>
              ~Submitted(Order[k]) /\ m.rows[Order[k]].status # "waiting"
    PROVE  Once(c)'
<1>1. /\ at' = [at EXCEPT ![p] = a] /\ copy' = [copy EXCEPT ![p] = r]
      /\ pos' = [pos EXCEPT ![p] = k]
      /\ DOMAIN at = Processes /\ DOMAIN copy = Processes /\ DOMAIN pos = Processes
  BY DEF Goto, IInv, OtherTypes
<1>2. \A s : Submitted(s)' <=> Submitted(s)
  BY DEF Submitted
<1>3. OneJobPerStage'
  BY DEF Once, OneJobPerStage
<1>4. \A q \in Processes \ {c} : at'[q] \in {"idle", "cancel"}
  BY <1>1 DEF Once
<1>5. \A q \in Processes : at'[q] # "idle" => copy'[q].status # "absent"
  BY <1>1 DEF Once
<1>6. Holds(record)'
  BY <1>2 DEF Holds
<1>7. at'[c] # "idle" => Holds(copy[c])'
  <2>1. CASE p = c
    <3>1. at'[c] = a /\ copy'[c] = r
      BY <1>1, <2>1
    <3> QED BY <1>2, <2>1, <3>1 DEF Holds
  <2>2. CASE p # c
    <3>1. at'[c] = at[c] /\ copy'[c] = copy[c]
      BY <1>1, <2>2
    <3> QED BY <1>2, <3>1 DEF Once, Holds
  <2> QED BY <2>1, <2>2
<1>8. at'[c] \in {"generate", "submit"} =>
         ~Submitted(Order[pos[c]])' /\ record'.rows[Order[pos'[c]]].status # "waiting"
  <2>1. CASE p = c
    <3>1. at'[c] = a /\ pos'[c] = k
      BY <1>1, <2>1
    <3> QED BY <1>2, <2>1, <3>1 DEF Submitted
  <2>2. CASE p # c
    <3>1. at'[c] = at[c] /\ pos'[c] = pos[c]
      BY <1>1, <2>2
    <3>2. at[c] \in {"generate", "submit"} => Order[pos[c]] \in Stages
      BY Places DEF IInv, CopyFits, InStart
    <3> QED BY <2>2, <3>1, <3>2 DEF Once, Submitted
  <2> QED BY <2>1, <2>2
<1> QED BY <1>3, <1>4, <1>5, <1>6, <1>7, <1>8 DEF Once

\* A process in a tick, or that saves a decision, is the console.
LEMMA TickOnce ==
    ASSUME IInv, NEW c \in Processes, Once(c), NEW p \in Processes,
           at[p] \notin {"idle", "cancel"}
    PROVE  /\ p = c /\ Holds(copy[p]) /\ copy[p] \in Records /\ Holds(record)
           /\ copy[c] = copy[p] /\ at[c] = at[p] /\ pos[c] = pos[p]
<1>1. p = c
  BY DEF Once
<1> QED BY <1>1 DEF Once, IInv, OtherTypes

LEMMA MarkedHolds ==
    ASSUME NEW r \in Records, Holds(r), NEW s \in Stages, NEW status, status # "waiting"
    PROVE  Holds(Marked(r, s, status)) /\ Marked(r, s, status).rows[s].status = status
BY DEF Marked, Holds, Records, Rows

\* The ends of a turn.
LEMMA TurnOnce ==
    ASSUME IInv, NEW c \in Processes, Once(c), NEW k, NEW r, Holds(r),
           EndTurn(c, k, r) \/ Disconnect(c, k, r), UNCHANGED <<stageOf, twice>>
    PROVE  Once(c)'
<1>1. PICK a, i : a \in {"advance", "settle"} /\ Goto(c, a, r, i) /\ record' = r
  BY DEF EndTurn, Disconnect, Save
<1> QED BY <1>1, MovesOnce DEF Holds

LEMMA LeaveOnce ==
    ASSUME IInv, NEW c \in Processes, Once(c), NEW p \in Processes, NEW r, Holds(r),
           Close(p, r), UNCHANGED <<stageOf, twice>>,
           p = c \/ \A s \in Stages : r.rows[s].status # "waiting"
    PROVE  Once(c)'
BY MovesOnce DEF Close, Leave

LEMMA StagesOnce ==
    ASSUME IInv, NEW c \in Processes, Once(c), NEW p \in Processes,
           NEW k \in DOMAIN Order, NEW s \in Stages,
           \/ MakeDir(p, k, s) \/ GiveUp(p, k, s) \/ Generate(p, k, s)
           \/ Answer(p, k, s) \/ Poll(p, k, s)
    PROVE  Once(c)'
<1>0. at[p] \notin {"idle", "cancel"}
  BY DEF MakeDir, GiveUp, Generate, Answer, Poll, Turn, In
<1>1. p = c /\ Holds(copy[p]) /\ copy[p] \in Records /\ Holds(record)
  BY <1>0, TickOnce
<1>2. UNCHANGED <<stageOf, twice>>
  BY DEF MakeDir, GiveUp, Generate, Answer, Poll, remote
<1>3. \A status : status # "waiting" => Holds(Marked(copy[p], s, status))
  BY <1>1, MarkedHolds
<1>4. Holds(Unanswered(copy[p], s))
  BY <1>1 DEF Unanswered, Holds, Records, Rows, Row
<1>5. CASE MakeDir(p, k, s)
  <2>1. CASE Save(p, "generate", Marked(copy[p], s, "preparing"), k)
    <3> DEFINE r == Marked(copy[p], s, "preparing")
    <3>1. copy[p].rows[s].status = "waiting" /\ s = Order[k]
      BY <1>5 DEF MakeDir, Turn
    <3>2. ~Submitted(s)
      BY <1>1, <3>1 DEF Holds
    <3>3. Holds(r) /\ r.rows[s].status = "preparing"
      BY <1>1, MarkedHolds
    <3>4. Goto(p, "generate", r, k) /\ record' = r
      BY <2>1 DEF Save
    <3> HIDE DEF r
    <3> QED BY <1>1, <1>2, <3>1, <3>2, <3>3, <3>4, MovesOnce DEF Holds
  <2> QED BY <1>1, <1>2, <1>3, <1>5, <2>1, TurnOnce DEF MakeDir
<1>6. CASE GiveUp(p, k, s)
  BY <1>1, <1>2, <1>3, <1>6, TurnOnce DEF GiveUp, Interrupted
<1>7. CASE Generate(p, k, s)
  <2>1. CASE Goto(p, "submit", copy[p], k) /\ UNCHANGED record
    <3>1. at[c] = "generate" /\ k = pos[c]
      BY <1>1, <1>7 DEF Generate, In
    <3>2. ~Submitted(Order[k]) /\ record.rows[Order[k]].status # "waiting"
      BY <3>1 DEF Once
    <3> QED BY <1>1, <1>2, <2>1, <3>2, MovesOnce DEF Holds
  <2> QED BY <1>1, <1>2, <1>3, <1>7, <2>1, TurnOnce DEF Generate
<1>8. CASE Answer(p, k, s)
  BY <1>1, <1>2, <1>3, <1>4, <1>8, TurnOnce DEF Answer
<1>9. CASE Poll(p, k, s)
  <2>1. ASSUME NEW word \in Terminal, NEW v \in Verdicts(s, word)
        PROVE  Holds(Judged(copy[p], s, v))
    <3>1. v # "waiting"
      BY DEF Verdicts, Terminal
    <3>2. /\ Judged(copy[p], s, v).status = copy[p].status
          /\ \A u \in Stages : Judged(copy[p], s, v).rows[u].status
                                  = IF u = s THEN v ELSE copy[p].rows[u].status
      BY <1>1 DEF Judged, Records, Rows, Row
    <3> HIDE DEF Judged
    <3> QED BY <1>1, <3>1, <3>2 DEF Holds
  <2> QED BY <1>1, <1>2, <1>3, <1>9, <2>1, TurnOnce DEF Poll
<1> QED BY <1>5, <1>6, <1>7, <1>8, <1>9

LEMMA SubmitOnce ==
    ASSUME IInv, NEW c \in Processes, Once(c), NEW p \in Processes,
           NEW k \in DOMAIN Order, NEW s \in Stages, Submit(p, k, s)
    PROVE  Once(c)'
<1>1. /\ p = c /\ Holds(copy[p]) /\ copy[p] \in Records /\ Holds(record)
      /\ at[c] = "submit" /\ k = pos[c] /\ s = Order[k]
  BY TickOnce DEF Submit, In
<1>2. ASSUME NEW j \in JobIds, stageOf[j] = NoStage, stageOf' = [stageOf EXCEPT ![j] = s],
             Goto(p, "answer", [copy[p] EXCEPT !.rows[s].job = j], k),
             UNCHANGED <<record, twice>>
      PROVE  Once(c)'
  <2> DEFINE r == [copy[p] EXCEPT !.rows[s].job = j]
  <2>1. ~Submitted(s) /\ record.rows[s].status # "waiting"
    BY <1>1 DEF Once
  <2>2. \A i \in JobIds : stageOf'[i] = IF i = j THEN s ELSE stageOf[i]
    BY <1>2 DEF IInv, JobTypes
  <2>3. \A u \in Stages : Submitted(u)' => Submitted(u) \/ u = s
    BY <2>2 DEF Submitted
  <2>4. OneJobPerStage'
    BY <1>2, <2>1, <2>2 DEF Once, OneJobPerStage, Submitted
  <2>5. copy[p].rows[s].status = "preparing"
    BY <1>1, StartCopy DEF Submit, InStart
  <2>6. /\ r.status = copy[p].status
        /\ \A u \in Stages : r.rows[u].status = copy[p].rows[u].status
    BY <1>1 DEF Records, Rows
  <2> HIDE DEF r
  <2>7. /\ at' = [at EXCEPT ![c] = "answer"] /\ copy' = [copy EXCEPT ![c] = r]
        /\ DOMAIN at = Processes /\ DOMAIN copy = Processes
    BY <1>1, <1>2 DEF Goto, IInv, OtherTypes, r
  <2>8. Holds(record)'
    BY <1>1, <1>2, <2>1, <2>3 DEF Holds
  <2>9. copy'[c] = r /\ at'[c] = "answer"
    BY <2>7
  <2>10. Holds(copy[c])'
    BY <1>1, <2>3, <2>5, <2>6, <2>9 DEF Holds
  <2>11. \A q \in Processes \ {c} : at'[q] \in {"idle", "cancel"}
    BY <2>7 DEF Once
  <2>12. \A q \in Processes : at'[q] # "idle" => copy'[q].status # "absent"
    BY <1>1, <2>6, <2>7 DEF Once, Holds
  <2> QED BY <2>4, <2>8, <2>9, <2>10, <2>11, <2>12 DEF Once
<1>3. Holds(Marked(copy[p], s, "failed"))
  BY <1>1, MarkedHolds
<1>4. UNCHANGED twice
  BY DEF Submit
<1> QED BY <1>1, <1>2, <1>3, <1>4, TurnOnce DEF Submit

\* The stage of a submission that is sent again has been submitted.
LEMMA ResendOnce ==
    ASSUME IInv, NEW c \in Processes, Once(c), NEW p \in Processes,
           NEW k \in DOMAIN Order, NEW s \in Stages, Resend(p, k, s)
    PROVE  Once(c)'
<1>1. /\ p = c /\ Holds(copy[p]) /\ copy[p] \in Records /\ Holds(record)
      /\ at[c] = "answer" /\ k = pos[c] /\ s = Order[k]
  BY TickOnce DEF Resend, In
<1>2. PICK j \in JobIds : /\ stageOf[j] = NoStage
                          /\ stageOf' = [stageOf EXCEPT ![j] = s]
                          /\ twice' = twice \cup {j}
                          /\ Goto(p, "answer", [copy[p] EXCEPT !.rows[s].job = j], k)
  BY DEF Resend
<1> DEFINE r == [copy[p] EXCEPT !.rows[s].job = j]
<1>3. Submitted(s)
  <2>1. /\ RowFits(copy[p].rows[s], s) /\ copy[p].rows[s] \in Rows
        /\ copy[p].rows[s].job # NoJob
    BY <1>1 DEF IInv, CopyFits, Fits, Records
  <2> QED BY <2>1 DEF RowFits, Rows, Submitted
<1>4. \A i \in JobIds : stageOf'[i] = IF i = j THEN s ELSE stageOf[i]
  BY <1>2 DEF IInv, JobTypes
<1>5. \A u \in Stages : Submitted(u)' <=> Submitted(u)
  BY <1>2, <1>3, <1>4, RequiresAssumption DEF Submitted
<1>6. OneJobPerStage'
  BY <1>2, <1>4 DEF Once, OneJobPerStage
<1>7. /\ r.status = copy[p].status
      /\ \A u \in Stages : r.rows[u].status = copy[p].rows[u].status
  BY <1>1 DEF Records, Rows
<1> HIDE DEF r
<1>8. /\ at' = [at EXCEPT ![c] = "answer"] /\ copy' = [copy EXCEPT ![c] = r]
      /\ DOMAIN at = Processes /\ DOMAIN copy = Processes
  BY <1>1, <1>2 DEF Goto, IInv, OtherTypes, r
<1>9. copy'[c] = r /\ at'[c] = "answer" /\ record' = record
  BY <1>8 DEF Resend
<1>10. Holds(record)' /\ Holds(copy[c])'
  BY <1>1, <1>5, <1>7, <1>9 DEF Holds
<1>11. \A q \in Processes \ {c} : at'[q] \in {"idle", "cancel"}
  BY <1>8 DEF Once
<1>12. \A q \in Processes : at'[q] # "idle" => copy'[q].status # "absent"
  BY <1>1, <1>7, <1>8 DEF Once, Holds
<1> QED BY <1>6, <1>9, <1>10, <1>11, <1>12 DEF Once

\* The console ends a tick, or saves a decision.
LEMMA EndsOnce ==
    ASSUME IInv, NEW c \in Processes, Once(c), NEW p \in Processes,
           Conclude(p) \/ Settle(p) \/ ConfirmCancelled(p)
    PROVE  Once(c)'
<1>0. at[p] \notin {"idle", "cancel"}
  BY DEF Conclude, Settle, ConfirmCancelled
<1>1. p = c /\ Holds(copy[p]) /\ copy[p] \in Records
  BY <1>0, TickOnce
<1>2. UNCHANGED <<stageOf, twice>>
  BY DEF Conclude, Settle, ConfirmCancelled, remote
<1>3. CASE Conclude(p)
  BY <1>1, <1>2, <1>3, LeaveOnce DEF Conclude
<1>4. CASE Settle(p)
  <2>1. ASSUME NEW r \in Settled(copy[p]) PROVE Holds(r)
    <3>1. \/ r = copy[p]
          \/ \E status \in Final : r = [copy[p] EXCEPT !.status = status]
      BY DEF Settled, Stops, First, StoppedBy, Final
    <3> QED BY <1>1, <3>1 DEF Holds, Records, Final, Stopped
  <2> QED BY <1>1, <1>2, <1>4, <2>1, LeaveOnce DEF Settle
<1>5. CASE ConfirmCancelled(p)
  <2>1. PICK over : Close(p, Seen(copy[p], over))
    BY <1>5 DEF ConfirmCancelled
  <2>2. Holds(Seen(copy[p], over))
    <3> DEFINE c1 == copy[p]
               rows == [s \in Stages |-> IF s \in over
                                        THEN Row("aborted", c1.rows[s].job, Early(c1.rows[s].job))
                                        ELSE c1.rows[s]]
               status == IF Outstanding(c1) \subseteq over THEN "aborted" ELSE c1.status
    <3>1. \A s \in Stages : /\ rows[s].status = "waiting" => c1.rows[s].status = "waiting"
                            /\ c1.rows[s] \in Rows
      BY <1>1 DEF Records, Rows, Row
    <3>2. status # "absent"
      BY <1>1 DEF Holds
    <3>3. Seen(c1, over) = [c1 EXCEPT !.rows = rows, !.status = status]
      BY <1>1 DEF Seen, Records
    <3>4. Seen(c1, over).rows = rows /\ Seen(c1, over).status = status
      <4> HIDE DEF rows, status
      <4> QED BY <1>1, <3>3 DEF Records
    <3> HIDE DEF rows, status
    <3> QED BY <1>1, <3>1, <3>2, <3>4 DEF Holds
  <2> QED BY <1>1, <1>2, <2>1, <2>2, LeaveOnce
<1> QED BY <1>3, <1>4, <1>5

\* An abort, of the console or of another process.
LEMMA AbortingOnce ==
    ASSUME IInv, NEW c \in Processes, Once(c), NEW p \in Processes, Cancel(p) \/ FinishAbort(p)
    PROVE  Once(c)'
<1>1. /\ at[p] = "cancel" /\ copy[p] \in Records /\ copy[p].status # "absent"
      /\ Holds(record)
      /\ p = c => Holds(copy[p])
  BY DEF Cancel, FinishAbort, Once, IInv, OtherTypes
<1>2. UNCHANGED <<stageOf, twice>>
  BY DEF Cancel, FinishAbort, remote
<1>3. CASE Cancel(p)
  <2>1. PICK k \in First(Requests(p)), status \in Cancelling :
                Goto(p, "cancel", Marked(copy[p], Order[k], status), k + 1)
    BY <1>3 DEF Cancel
  <2>2. Order[k] \in Stages /\ status # "waiting"
    BY Places DEF First, Requests, IInv, OtherTypes, Cancelling
  <2>3. Marked(copy[p], Order[k], status).status = copy[p].status
    BY <1>1 DEF Marked, Records
  <2>4. p = c => Holds(Marked(copy[p], Order[k], status))
    BY <1>1, <2>2, MarkedHolds
  <2> QED BY <1>1, <1>2, <1>3, <2>1, <2>3, <2>4, MovesOnce DEF Cancel
<1>4. CASE FinishAbort(p)
  <2> DEFINE c1 == copy[p]
             rows == [s \in Stages |->
                         IF \/ c1.rows[s].status \in Stopped \cup {"converged"}
                            \/ Cancellable(c1, s)
                         THEN c1.rows[s] ELSE [c1.rows[s] EXCEPT !.status = "aborted"]]
             status == IF \E s \in Stages : Cancellable(c1, s) THEN "cancelling" ELSE "aborted"
  <2>1. \A s \in Stages : rows[s].status # "waiting"
    BY <1>1 DEF Records, Rows, Stopped, Cancellable, Active, Cancelling
  <2>2. status # "absent"
    OBVIOUS
  <2>3. Aborted(c1) = [c1 EXCEPT !.rows = rows, !.status = status]
    BY DEF Aborted
  <2>4. Aborted(c1).rows = rows /\ Aborted(c1).status = status
    <3> HIDE DEF rows, status
    <3> QED BY <1>1, <2>3 DEF Records
  <2> HIDE DEF rows, status
  <2>5. Holds(Aborted(c1)) /\ \A s \in Stages : Aborted(c1).rows[s].status # "waiting"
    BY <2>1, <2>2, <2>4 DEF Holds
  <2> QED BY <1>2, <1>4, <2>5, LeaveOnce DEF FinishAbort
<1> QED BY <1>3, <1>4

LEMMA OpenOnce ==
    ASSUME IInv, NEW c \in Processes, Once(c), NEW p \in Processes, NEW r,
           NEW a \in Points \ {"generate", "submit"},
           p = c \/ a = "cancel", Holds(r), Holds(record), Open(p, a, r)
    PROVE  Once(c)'
<1>1. Goto(p, a, r, 1) /\ record' = record /\ UNCHANGED <<stageOf, twice>>
  BY DEF Open, Goto, remote
<1> QED BY <1>1, MovesOnce DEF Holds

LEMMA BeginsOnce ==
    ASSUME IInv, NEW c \in Processes, Consoles = {c}, Once(c), NEW p \in Processes, Begins(p)
    PROVE  Once(c)'
<1>1. record \in Records
  BY DEF IInv, RecordFits, Fits
<1>2. record.status # "absent" => Holds(record)
  BY DEF Once
<1>3. {"cancel", "save", "confirm", "advance"} \subseteq Points \ {"generate", "submit"}
  BY DEF Points
<1>4. CASE Abort(p)
  BY <1>2, <1>3, <1>4, OpenOnce DEF Abort
<1>5. CASE p \in Consoles /\ Decide(p)
  <2>1. Holds(record) /\ p = c
    BY <1>2, <1>5 DEF Decide
  <2>2. /\ Holds([record EXCEPT !.status = "running", !.approval = "own"])
        /\ Holds([record EXCEPT !.status = "rejected"])
    BY <1>1, <2>1 DEF Holds, Records
  <2> QED BY <1>3, <1>5, <2>1, <2>2, OpenOnce DEF Decide
<1>6. CASE p \in Consoles /\ Tick(p)
  <2>1. Holds(record) /\ p = c
    BY <1>2, <1>6 DEF Tick
  <2>2. Holds([record EXCEPT !.status = "blocked"])
    BY <1>1, <2>1 DEF Holds, Records
  <2> QED BY <1>3, <1>6, <2>1, <2>2, OpenOnce DEF Tick
<1> QED BY <1>4, <1>5, <1>6 DEF Begins

LEMMA DieOnce ==
    ASSUME IInv, NEW c \in Processes, Once(c), NEW p \in Processes, Die(p) PROVE Once(c)'
<1>1. Holds(record)
  BY DEF Once, Die
<1> QED BY <1>1, MovesOnce DEF Die, Leave, remote

\* No process moves, and nothing is submitted.
LEMMA StillOnce ==
    ASSUME NEW c \in Processes, Once(c), UNCHANGED local, UNCHANGED <<stageOf, twice>>,
           \/ Create
           \/ /\ record' = record
           \/ Retarget /\ record \in Records
    PROVE  Once(c)'
<1>1. /\ at' = at /\ copy' = copy /\ pos' = pos
      /\ \A s : Submitted(s)' <=> Submitted(s)
  BY DEF local, Submitted
<1>2. CASE Create
  <2>1. /\ \A s \in Stages : ~Submitted(s)
        /\ \A p \in Processes : at[p] = "idle"
    BY <1>2 DEF Create, Once, Holds
  <2>2. record'.status # "absent"
    BY <1>2 DEF Create, NoRecord
  <2> QED BY <1>1, <2>1, <2>2 DEF Once, Holds, OneJobPerStage
<1>3. CASE record' = record
  BY <1>1, <1>3 DEF Once, Holds, OneJobPerStage
<1>4. CASE Retarget /\ record \in Records
  <2>1. record'.status = record.status /\ record'.rows = record.rows
    BY <1>4 DEF Retarget, Records
  <2> QED BY <1>1, <2>1 DEF Once, Holds, OneJobPerStage
<1> QED BY <1>2, <1>3, <1>4

LEMMA InitOnce == ASSUME Init, NEW c \in Processes PROVE Once(c)
BY RequiresAssumption DEF Init, Once, OneJobPerStage, Submitted, NoRecord, Holds

LEMMA NextOnce ==
    ASSUME IInv, NEW c \in Processes, Consoles = {c}, Once(c), [Next]_vars
    PROVE  Once(c)'
<1>1. CASE UNCHANGED vars
  BY <1>1, StillOnce DEF vars, remote
<1>2. CASE Create \/ Retarget
  <2>1. record \in Records
    BY DEF IInv, RecordFits, Fits
  <2>2. UNCHANGED local /\ UNCHANGED <<stageOf, twice>>
    BY <1>2 DEF Create, Retarget, remote
  <2> QED BY <1>2, <2>1, <2>2, StillOnce
<1>3. ASSUME NEW p \in Processes, Continue(p) PROVE Once(c)'
  BY <1>3, EndsOnce, AbortingOnce, StagesOnce, SubmitOnce, ResendOnce DEF Continue
<1>4. ASSUME NEW j \in JobIds, Converges(j) \/ JobEnds(j) PROVE Once(c)'
  BY <1>4, StillOnce DEF JobEnds, Converges
<1> QED BY <1>1, <1>2, <1>3, <1>4, BeginsOnce, DieOnce DEF Next

\* With one console a stage is paid for once, whatever dies, whatever answer
\* is lost (_start), and whoever aborts from another process; except that the
\* client may send the one submission twice (client.py:90).
THEOREM PaidOnce ==
    ASSUME NEW c \in Processes, Consoles = {c}
    PROVE  Spec => []OneJobPerStage
<1> DEFINE Inv == Once(c)
<1>1. Init => Inv
  BY InitOnce
<1>2. IInv /\ Inv /\ [Next]_vars => Inv'
  BY NextOnce
<1>3. Inv => OneJobPerStage
  BY DEF Once
<1> HIDE DEF Inv
<1> QED BY <1>1, <1>2, <1>3, Invariant, PTL DEF Spec
-----------------------------------------------------------------------------
(* One console: the campaign implements StagedPlan *)

\* As long as no two processes have worked on the campaign at once, the record
\* is as the operation under way has found or saved it.
Solo ==
    ~shared =>
        /\ \A p, q \in Processes : at[p] # "idle" /\ at[q] # "idle" => p = q
        /\ \A p \in Processes :
              /\ at[p] \in InTick => record.status = "running"
              /\ at[p] = "save" =>
                    \/ record.status = "awaiting_approval"
                       /\ copy[p].status \in {"running", "rejected"}
                    \/ copy[p].status = "blocked"

Phase(r) == IF r.status \in {"absent", "awaiting_approval"} THEN "proposed"
            ELSE IF r.status = "running" THEN "approved" ELSE "closed"
Kept == [Plan!Next]_(Plan!vars)

\* The record changes, and no job.
LEMMA PhaseKept ==
    ASSUME UNCHANGED remote, UNCHANGED shared,
           \/ shared
           \/ Phase(record') = "closed"
           \/ Phase(record') = Phase(record)
           \/ Phase(record) = "proposed" /\ Phase(record') = "approved"
    PROVE  Kept
<1>1. Phase(record') \in {"proposed", "approved", "closed"}
  BY DEF Phase
<1> QED BY <1>1 DEF Kept, Plan!Next, Plan!vars, Plan!Approve, Plan!Close, Plan!Overwrite,
                   Phase, remote, jobs

\* A process in an operation goes on with it, or ends it.
LEMMA MovesSolo ==
    ASSUME IInv, Solo, NEW p \in Processes, at[p] # "idle",
           NEW a \in InTick \cup {"idle", "cancel"}, NEW r, NEW k, Goto(p, a, r, k),
           a \in InTick => shared \/ record'.status = "running", UNCHANGED shared
    PROVE  Solo'
<1>1. at' = [at EXCEPT ![p] = a] /\ DOMAIN at = Processes
  BY DEF Goto, IInv, OtherTypes
<1>3. ASSUME ~shared, NEW q \in Processes, q # p PROVE at'[q] = "idle"
  BY <1>1, <1>3 DEF Solo
<1>4. at'[p] = a
  BY <1>1
<1> QED BY <1>3, <1>4 DEF Solo, InTick, InStart

\* A step of a tick.
LEMMA TickKept ==
    ASSUME IInv, Solo, NEW p \in Processes, at[p] \in InTick,
           NEW a \in InTick \cup {"idle"}, NEW r, NEW k, Goto(p, a, r, k),
           a \in InTick => shared \/ record'.status = "running",
           shared \/ record'.status \in Final \cup {"running"},
           UNCHANGED remote, UNCHANGED shared
    PROVE  Solo' /\ Kept
<1>1. at[p] # "idle"
  BY DEF InTick, InStart
<1>2. Solo'
  BY <1>1, MovesSolo
<1>3. shared \/ Phase(record) = "approved"
  BY DEF Solo, Phase
<1>4. shared \/ Phase(record') \in {"approved", "closed"}
  BY DEF Phase, Final, Stopped
<1> QED BY <1>2, <1>3, <1>4, PhaseKept

LEMMA EndTurnKept ==
    ASSUME IInv, Solo, NEW p \in Processes, at[p] \in InTick, NEW k, NEW r,
           r.status = "running", EndTurn(p, k, r) \/ Disconnect(p, k, r),
           UNCHANGED remote, UNCHANGED shared
    PROVE  Solo' /\ Kept
<1>1. PICK a, i : a \in {"advance", "settle"} /\ Goto(p, a, r, i) /\ record' = r
  BY DEF EndTurn, Disconnect, Save
<1> QED BY <1>1, TickKept DEF InTick

LEMMA StagesKept ==
    ASSUME IInv, Solo, NEW p \in Processes, NEW k \in DOMAIN Order, NEW s \in Stages,
           \/ MakeDir(p, k, s) \/ GiveUp(p, k, s) \/ Generate(p, k, s)
           \/ Answer(p, k, s) \/ Poll(p, k, s)
    PROVE  Solo' /\ Kept
<1>1. at[p] \in InTick /\ UNCHANGED remote /\ UNCHANGED shared
  BY DEF MakeDir, GiveUp, Generate, Answer, Poll, Turn, In, InTick, InStart
<1>2. copy[p] \in Records /\ copy[p].status = "running"
  BY <1>1 DEF IInv, CopyFits, Fits
<1>3. \A status : Marked(copy[p], s, status).status = "running"
  BY <1>2 DEF Marked, Records
<1>4. Unanswered(copy[p], s).status = "running"
  BY <1>2 DEF Unanswered, Records
<1>5. CASE MakeDir(p, k, s)
  <2>1. CASE Save(p, "generate", Marked(copy[p], s, "preparing"), k)
    <3>1. Goto(p, "generate", Marked(copy[p], s, "preparing"), k)
          /\ record'.status = "running"
      BY <1>3, <2>1 DEF Save
    <3> QED BY <1>1, <3>1, TickKept DEF InTick, InStart
  <2> QED BY <1>1, <1>2, <1>3, <1>5, <2>1, EndTurnKept DEF MakeDir
<1>6. CASE GiveUp(p, k, s)
  BY <1>1, <1>3, <1>6, EndTurnKept DEF GiveUp, Interrupted
<1>7. CASE Generate(p, k, s)
  <2>1. CASE Goto(p, "submit", copy[p], k) /\ UNCHANGED record
    <3>1. shared \/ record'.status = "running"
      BY <1>1, <2>1 DEF Solo
    <3> QED BY <1>1, <2>1, <3>1, TickKept DEF InTick, InStart
  <2> QED BY <1>1, <1>3, <1>7, <2>1, EndTurnKept DEF Generate
<1>8. CASE Answer(p, k, s)
  BY <1>1, <1>3, <1>4, <1>8, EndTurnKept DEF Answer
<1>9. CASE Poll(p, k, s)
  <2>1. \A v : Judged(copy[p], s, v).status = "running"
    BY <1>2 DEF Judged, Records
  <2> QED BY <1>1, <1>2, <1>3, <1>9, <2>1, EndTurnKept DEF Poll
<1> QED BY <1>5, <1>6, <1>7, <1>8, <1>9

\* A job more, for a stage or for one that was submitted already.
LEMMA SubmitKept ==
    ASSUME IInv, NEW c \in Processes, Once(c), Solo, NEW p \in Processes,
           NEW k \in DOMAIN Order, NEW s \in Stages, Submit(p, k, s) \/ Resend(p, k, s)
    PROVE  Solo' /\ Kept
<1>1. at[p] \in InTick /\ k = pos[p] /\ s = Order[k] /\ p = c
  BY TickOnce DEF Submit, Resend, In, InTick, InStart
<1>2. /\ copy[p] \in Records /\ copy[p].status = "running" /\ Fits(copy[p])
      /\ RequiredGood(copy[p], s)
  <2>1. at[p] \in InStart
    BY DEF Submit, Resend, In, InStart
  <2> QED BY <1>1, <2>1 DEF IInv, CopyFits, Fits
<1>3. shared \/ record.status = "running"
  BY <1>1 DEF Solo
<1>4. s # NoStage /\ UNCHANGED shared
  BY RequiresAssumption DEF Submit, Resend
<1>5. ASSUME NEW r, Goto(p, "answer", r, k), UNCHANGED record PROVE Solo'
  <2>1. "answer" \in InTick \cup {"idle", "cancel"} /\ at[p] # "idle"
    BY <1>1 DEF InTick, InStart
  <2> QED BY <1>3, <1>4, <1>5, <2>1, MovesSolo
<1> DEFINE begun == {stageOf[i] : i \in JobIds} \ {NoStage}
<1>6. ASSUME NEW j \in JobIds, stageOf[j] = NoStage, stageOf' = [stageOf EXCEPT ![j] = s]
      PROVE  begun' = begun \cup {s}
  <2>1. \A i \in JobIds : stageOf'[i] = IF i = j THEN s ELSE stageOf[i]
    BY <1>6 DEF IInv, JobTypes
  <2> QED BY <1>4, <1>6, <2>1
<1>7. ASSUME NEW j \in JobIds, stageOf[j] = NoStage, stageOf' = [stageOf EXCEPT ![j] = s],
             at[p] = "submit", UNCHANGED record, UNCHANGED jobs
      PROVE  Kept
  <2>1. begun' = begun \cup {s}
    BY <1>6, <1>7
  <2>2. s \notin begun
    BY <1>1, <1>7 DEF Once, Submitted
  <2>3. Requires[s] = NoStage \/ Requires[s] \in good
    BY <1>2, RequiresAssumption DEF Fits, RowFits, RequiredGood
  <2> DEFINE phase == Phase(record)
  <2>4. phase' = phase /\ (phase = "approved" \/ shared)
    BY <1>3, <1>7 DEF Phase
  <2>5. Plan!Begin(s)
    BY <1>4, <1>7, <2>1, <2>2, <2>3, <2>4 DEF Plan!Begin, Phase, jobs
  <2> QED BY <2>5 DEF Kept, Plan!Next
<1>8. CASE Resend(p, k, s)
  <2>1. PICK j \in JobIds : /\ stageOf[j] = NoStage
                            /\ stageOf' = [stageOf EXCEPT ![j] = s]
                            /\ Goto(p, "answer", [copy[p] EXCEPT !.rows[s].job = j], k)
    BY <1>8 DEF Resend
  <2>2. begun' = begun
    <3>1. /\ RowFits(copy[p].rows[s], s) /\ copy[p].rows[s] \in Rows
          /\ copy[p].rows[s].job # NoJob
      BY <1>1, <1>2, <1>8 DEF IInv, CopyFits, Fits, Records, Resend, In
    <3>2. s \in begun
      BY <1>4, <3>1 DEF RowFits, Rows
    <3> QED BY <1>6, <2>1, <3>2
  <2>3. Kept
    BY <1>4, <1>8, <2>2 DEF Kept, Plan!vars, Resend, jobs, Phase
  <2> QED BY <1>5, <1>8, <2>1, <2>3 DEF Resend
<1>9. CASE Submit(p, k, s)
  <2>1. ASSUME \/ EndTurn(p, k, Marked(copy[p], s, "failed")) /\ UNCHANGED stageOf
               \/ Disconnect(p, k, Marked(copy[p], s, "failed")) /\ UNCHANGED stageOf
        PROVE  Solo' /\ Kept
    <3>1. UNCHANGED remote /\ UNCHANGED shared
      BY <1>9, <2>1 DEF Submit, remote
    <3>2. Marked(copy[p], s, "failed").status = "running"
      BY <1>2 DEF Marked, Records
    <3> QED BY <1>1, <2>1, <3>1, <3>2, EndTurnKept
  <2> QED BY <1>5, <1>7, <1>9, <2>1 DEF Submit, In
<1> QED BY <1>8, <1>9

\* Operations end.
LEMMA CloseKept ==
    ASSUME IInv, Solo, NEW p \in Processes, at[p] # "idle", Leave(p),
           \/ shared \/ Phase(record') = "closed" \/ Phase(record') = Phase(record)
           \/ Phase(record) = "proposed" /\ Phase(record') = "approved",
           UNCHANGED remote, UNCHANGED shared
    PROVE  Solo' /\ Kept
<1>1. "idle" \notin InTick
  BY DEF InTick, InStart
<1> QED BY <1>1, MovesSolo, PhaseKept DEF Leave

LEMMA EndsKept ==
    ASSUME IInv, Solo, NEW p \in Processes,
           \/ Conclude(p) \/ Settle(p) \/ ConfirmCancelled(p) \/ FinishAbort(p) \/ Die(p)
    PROVE  Solo' /\ Kept
<1>1. UNCHANGED remote /\ UNCHANGED shared /\ Leave(p) /\ at[p] # "idle"
  BY DEF Conclude, Settle, ConfirmCancelled, FinishAbort, Die, Close
<1>2. copy[p] \in Records
  BY DEF IInv, OtherTypes
<1>3. CASE Conclude(p)
  <2>1. \/ shared
        \/ record.status = "awaiting_approval" /\ copy[p].status \in {"running", "rejected"}
        \/ copy[p].status = "blocked"
    BY <1>3 DEF Conclude, Solo
  <2>2. record' = copy[p]
    BY <1>3 DEF Conclude, Close
  <2> QED BY <1>1, <2>1, <2>2, CloseKept DEF Phase
<1>4. CASE Settle(p)
  <2>1. PICK r \in Settled(copy[p]) : record' = r
    BY <1>4 DEF Settle, Close
  <2>2. \/ r = copy[p]
        \/ \E status \in Final : r = [copy[p] EXCEPT !.status = status]
    BY DEF Settled, Stops, First, StoppedBy, Final
  <2>3. copy[p].status = "running" /\ (shared \/ record.status = "running")
    BY <1>4 DEF Settle, IInv, CopyFits, Solo, InTick
  <2>4. r.status \in Final \cup {"running"}
    BY <1>2, <2>2, <2>3 DEF Records
  <2> QED BY <1>1, <2>1, <2>3, <2>4, CloseKept DEF Phase, Final, Stopped
<1>5. CASE ConfirmCancelled(p)
  <2>1. PICK over : record' = Seen(copy[p], over)
    BY <1>5 DEF ConfirmCancelled, Close
  <2>2. copy[p].status = "cancelling"
    BY <1>5 DEF ConfirmCancelled, IInv, CopyFits
  <2>3. record'.status \in {"aborted", "cancelling"}
    <3> DEFINE rows == [s \in Stages |->
                           IF s \in over
                           THEN Row("aborted", copy[p].rows[s].job, Early(copy[p].rows[s].job))
                           ELSE copy[p].rows[s]]
               status == IF Outstanding(copy[p]) \subseteq over THEN "aborted" ELSE "cancelling"
    <3>1. Seen(copy[p], over) = [copy[p] EXCEPT !.rows = rows, !.status = status]
      BY <1>2, <2>2 DEF Seen, Records
    <3>2. Seen(copy[p], over).status = status
      <4> HIDE DEF rows, status
      <4> QED BY <1>2, <3>1 DEF Records
    <3> QED BY <2>1, <3>2
  <2> QED BY <1>1, <2>3, CloseKept DEF Phase
<1>6. CASE FinishAbort(p)
  <2>1. record' = Aborted(copy[p])
    BY <1>6 DEF FinishAbort, Close
  <2>2. record'.status \in {"aborted", "cancelling"}
    <3> DEFINE c == copy[p]
               rows == [s \in Stages |->
                           IF \/ c.rows[s].status \in Stopped \cup {"converged"}
                              \/ Cancellable(c, s)
                           THEN c.rows[s] ELSE [c.rows[s] EXCEPT !.status = "aborted"]]
               status == IF \E s \in Stages : Cancellable(c, s) THEN "cancelling"
                         ELSE "aborted"
    <3>1. Aborted(c) = [c EXCEPT !.rows = rows, !.status = status]
      BY DEF Aborted
    <3>2. Aborted(c).status = status
      <4> HIDE DEF rows, status
      <4> QED BY <1>2, <3>1 DEF Records
    <3> QED BY <2>1, <3>2
  <2> QED BY <1>1, <2>2, CloseKept DEF Phase
<1>7. CASE Die(p)
  BY <1>1, <1>7, CloseKept DEF Die
<1> QED BY <1>3, <1>4, <1>5, <1>6, <1>7

LEMMA CancelKept == ASSUME IInv, Solo, NEW p \in Processes, Cancel(p) PROVE Solo' /\ Kept
<1>1. PICK r, k : Goto(p, "cancel", r, k)
  BY DEF Cancel
<1>2. "cancel" \notin InTick /\ at[p] # "idle"
  BY DEF InTick, InStart, Cancel
<1>3. UNCHANGED remote /\ UNCHANGED shared /\ record' = record
  BY DEF Cancel
<1> QED BY <1>1, <1>2, <1>3, MovesSolo, PhaseKept

\* Operations begin: from now on, perhaps, two at a time.
LEMMA OpenKept ==
    ASSUME IInv, Solo, NEW p \in Processes, NEW a, NEW r, Open(p, a, r),
           a \in InTick => record.status = "running",
           a = "save" => \/ record.status = "awaiting_approval"
                            /\ r.status \in {"running", "rejected"}
                         \/ r.status = "blocked"
    PROVE  Solo' /\ Kept
<1>1. /\ at' = [at EXCEPT ![p] = a] /\ copy' = [copy EXCEPT ![p] = r]
      /\ DOMAIN at = Processes /\ DOMAIN copy = Processes
      /\ record' = record /\ UNCHANGED remote
      /\ shared' = (shared \/ \E q \in Processes : at[q] # "idle")
  BY DEF Open, IInv, OtherTypes
<1>2. at'[p] = a /\ copy'[p] = r
  BY <1>1
<1>3. \A q \in Processes \ {p} : at'[q] = at[q]
  BY <1>1
<1>4. "idle" \notin InTick
  BY DEF InTick, InStart
<1>5. Solo'
  <2>1. ~shared' => \A q \in Processes \ {p} : at'[q] = "idle"
    BY <1>1, <1>3
  <2> QED BY <1>1, <1>2, <1>4, <2>1 DEF Solo
<1>6. Kept
  <2>1. shared' = shared \/ shared' = TRUE
    BY <1>1 DEF IInv, OtherTypes
  <2> QED BY <1>1, <2>1 DEF Kept, Plan!Next, Plan!vars, Plan!Share, remote, jobs
<1> QED BY <1>5, <1>6

LEMMA BeginsKept == ASSUME IInv, Solo, NEW p \in Processes, Begins(p) PROVE Solo' /\ Kept
<1>1. record \in Records
  BY DEF IInv, RecordFits, Fits
<1>2. CASE Abort(p)
  BY <1>2, OpenKept DEF Abort, InTick, InStart
<1>3. CASE Decide(p)
  <2>1. /\ [record EXCEPT !.status = "running", !.approval = "own"].status = "running"
        /\ [record EXCEPT !.status = "rejected"].status = "rejected"
    BY <1>1 DEF Records
  <2> QED BY <1>3, <2>1, OpenKept DEF Decide, InTick, InStart
<1>4. CASE Tick(p)
  <2>1. [record EXCEPT !.status = "blocked"].status = "blocked"
    BY <1>1 DEF Records
  <2> QED BY <1>4, <2>1, OpenKept DEF Tick, InTick, InStart
<1> QED BY <1>2, <1>3, <1>4 DEF Begins

LEMMA FileKept == ASSUME IInv, Solo, Create \/ Retarget PROVE Solo' /\ Kept
<1>1. UNCHANGED local /\ UNCHANGED remote /\ UNCHANGED shared /\ record \in Records
  BY DEF Create, Retarget, IInv, RecordFits, Fits
<1>2. CASE Create
  <2>1. record.status = "absent" /\ record'.status \in {"awaiting_approval", "running"}
    BY <1>2 DEF Create, NoRecord
  <2>2. Solo'
    BY <1>1, <2>1 DEF Solo, local, remote
  <2> QED BY <1>1, <2>1, <2>2, PhaseKept DEF Phase
<1>3. CASE Retarget
  <2>1. record.status = "running" /\ record'.status = "running"
    BY <1>1, <1>3 DEF Retarget, Records
  <2>2. Solo'
    BY <1>1, <2>1 DEF Solo, local, remote
  <2> QED BY <1>1, <2>1, <2>2, PhaseKept DEF Phase
<1> QED BY <1>2, <1>3

LEMMA JobsKept ==
    ASSUME IInv, Solo, NEW j \in JobIds, Converges(j) \/ JobEnds(j)
    PROVE  Solo' /\ Kept
<1>1. /\ stageOf' = stageOf /\ UNCHANGED local /\ UNCHANGED shared /\ record' = record
  BY DEF JobEnds, Converges
<1>2. Solo'
  BY <1>1 DEF Solo, local
<1>3. CASE JobEnds(j)
  BY <1>1, <1>2, <1>3 DEF JobEnds, Kept, Plan!vars
<1>4. CASE Converges(j)
  <2>1. stageOf[j] \in {stageOf[i] : i \in JobIds} \ {NoStage} /\ stageOf[j] \in Stages
    BY <1>4 DEF Converges, Started, IInv, JobTypes
  <2>2. Plan!Converge(stageOf[j])
    BY <1>1, <1>4, <2>1 DEF Converges, Plan!Converge
  <2> QED BY <2>1, <2>2, <1>2 DEF Kept, Plan!Next
<1> QED BY <1>2, <1>3, <1>4

LEMMA InitKept == Init => Solo /\ Plan!Init
BY DEF Init, Solo, Plan!Init, NoRecord, InTick, InStart

LEMMA NextSolo ==
    ASSUME IInv, NEW c \in Processes, Once(c), Solo, [Next]_vars
    PROVE  Solo' /\ Kept
<1>1. CASE UNCHANGED vars
  <2>1. Solo'
    BY <1>1 DEF vars, local, remote, Solo
  <2>2. Kept
    BY <1>1 DEF vars, remote, jobs, Kept, Plan!vars
  <2> QED BY <2>1, <2>2
<1>2. ASSUME NEW p \in Processes, Continue(p) PROVE Solo' /\ Kept
  BY <1>2, EndsKept, CancelKept, StagesKept, SubmitKept DEF Continue
<1>3. ASSUME NEW p \in Processes, Begins(p) \/ Die(p) PROVE Solo' /\ Kept
  BY <1>3, BeginsKept, EndsKept
<1> QED BY <1>1, <1>2, <1>3, FileKept, JobsKept DEF Next

\* With one console the campaign implements StagedPlan (tick, abort): nothing
\* begins before the approval, nothing twice, and nothing on results that did
\* not converge; and it stays closed unless two processes overlap.
THEOREM ImplementsStagedPlan ==
    ASSUME NEW c \in Processes, Consoles = {c}
    PROVE  Spec => PromiseKept
<1> DEFINE Inv == Once(c) /\ Solo
<1>1. Init => Inv /\ Plan!Init
  BY InitOnce, InitKept
<1>2. IInv /\ Inv /\ [Next]_vars => Inv' /\ [Plan!Next]_(Plan!vars)
  BY NextOnce, NextSolo DEF Kept
<1> HIDE DEF Inv
<1> QED BY <1>1, <1>2, Invariant, PTL DEF Spec, PromiseKept, Plan!Spec
=============================================================================
