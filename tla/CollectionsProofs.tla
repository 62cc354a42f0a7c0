-------------------------- MODULE CollectionsProofs --------------------------
(***************************************************************************)
(* For any number of files, processes and names, and whatever dies, is     *)
(* cancelled, renamed or changed meanwhile: files are published in the     *)
(* directory the project has now, at most one after a stop, and the        *)
(* collection implements Delivery.                                         *)
(*                                                                         *)
(* The argument: one process at a time holds the lock, and only it touches *)
(* the record but for the last word on a cancellation (HolderFits); a      *)
(* version never returns, so what is the chosen one before and after a     *)
(* transfer is what was transferred (HolderFits, "verify"); a receipt is   *)
(* therefore for the chosen version, and what the collector has put in     *)
(* place is too (FileFits).                                                *)
(*                                                                         *)
(* And for any names, editors and bounds: projects keep their identities   *)
(* and saves replace what was read.  No identity is given twice, even if   *)
(* the index has entries of projects that are gone (IndexFits).            *)
(*                                                                         *)
(* And of a VASP run, with any numbers of steps, however little is read of *)
(* its files: a row has the number of the step it closes and a step few    *)
(* rows (RowsFit), so the last step in what is read is the last of the     *)
(* run, and a reading of two steps has the one before it.                  *)
(***************************************************************************)
EXTENDS MCCollections, FiniteSetTheorems, SequenceTheorems, WellFoundedInduction, TLAPS

Unpublished == {"place", "fetch", "verify", "publish"}

\* The choice is made at admission, for every file.
RecordFits ==
    /\ record.status = "absent" => \A f \in Files : record.expected[f] = NoVersion
    /\ record.status # "absent" => \A f \in Files : record.expected[f] \in Versions

\* What has been seen of file f, and who put it there.
FileFits(f) ==
    /\ record.receipt[f] \in {NoVersion, record.expected[f]}
    /\ \A v \in Versions :
         /\ target[f] = {<<"collector", v>>} => v = record.expected[f] /\ f \in seen
         /\ target[f] = {<<"owner", v>>} /\ v = record.expected[f] => f \in seen
FilesFit == \A f \in Files : FileFits(f)

\* What the holder of the lock may rely on, and that it is one.
HolderFits(p) ==
    /\ at[p] \in Holding <=> lock = p
    /\ at[p] = "start" => record.status \in Launchable
    /\ at[p] \in {"resuming", "unmarked"} => record.status \notin {"absent", "completed"}
    /\ at[p] \in Collecting \cup {"resolve"} => record.status = "collecting"
    /\ at[p] \in Collecting => /\ root = place /\ ~moving
                               /\ \A f \in Files : f < pos => record.mark[f] = "completed"
    /\ at[p] \in Copying => pos \in Files /\ record.mark[pos] # "completed"
    /\ at[p] \in {"place", "fetch", "verify"} => record.expected[pos] <= remote[pos]
    /\ at[p] = "verify" => /\ staged[pos] \in Versions
                           /\ record.expected[pos] <= staged[pos] /\ staged[pos] <= remote[pos]
    /\ at[p] = "publish" => staged[pos] = record.expected[pos]
    /\ at[p] = "finish" => pos \in seen
    /\ at[p] \in Unpublished /\ marker => late = 0
    /\ at[p] = "cancelling" => record.status # "absent"
HoldersFit == \A p \in Procs : HolderFits(p)

IInv == TypeOK /\ RecordFits /\ FilesFit /\ HoldersFit /\ StopsSoon
-----------------------------------------------------------------------------
(* The parts of a step *)

Statics == <<place, moving, remote, target, staged, late, seen, meddled>>

LEMMA Points1 == /\ Copying \subseteq Collecting /\ Collecting \subseteq Working
                 /\ Working \subseteq Holding /\ Holding \subseteq Points
                 /\ Unpublished \subseteq Copying /\ "resolve" \notin Collecting
BY DEF Copying, Collecting, Working, Holding, Points, Unpublished

LEMMA Knowns ==
    ASSUME IInv, NEW p \in Procs
    PROVE  HolderFits(p) /\ at[p] \in Points /\ TypeOK /\ RecordFits /\ FilesFit /\ StopsSoon
BY DEF IInv, TypeOK, HoldersFit

\* While p has the lock, before or after a step of p, nobody else has it.
LEMMA Others ==
    ASSUME IInv, NEW p \in Procs, lock \in {p, Nobody}, lock' \in {p, Nobody},
           NEW point \in Points, Goto(p, point),
           record'.status = "absent" => record.status = "absent"
    PROVE  \A q \in Procs \ {p} : HolderFits(q)'
<1> SUFFICES ASSUME NEW q \in Procs \ {p} PROVE HolderFits(q)'
  OBVIOUS
<1>1. at'[q] = at[q] /\ lock # q /\ lock' # q
  BY NoneAssumption DEF Goto, IInv, TypeOK
<1>2. at'[q] \notin Holding
  BY <1>1 DEF IInv, HoldersFit, HolderFits
<1>3. at[q] = "cancelling" => record.status # "absent"
  BY DEF IInv, HoldersFit, HolderFits
<1>4. at'[q] \notin Working /\ at'[q] \notin {"resuming", "unmarked"}
  BY <1>2 DEF Holding
<1> QED BY <1>1, <1>2, <1>3, <1>4 DEF HolderFits, Working, Collecting, Copying, Unpublished

\* A step of p, which has the lock before or after it.
LEMMA HolderStep ==
    ASSUME IInv, NEW p \in Procs, lock \in {p, Nobody}, lock' \in {p, Nobody},
           NEW point \in Points, Goto(p, point), TypeOK', RecordFits', FilesFit',
           HolderFits(p)', StopsSoon', record'.status = "absent" => record.status = "absent"
    PROVE  IInv'
<1>1. \A q \in Procs \ {p} : HolderFits(q)'
  BY Others
<1> QED BY <1>1 DEF IInv, HoldersFit

\* Neither a file nor what is recorded of it has changed.
LEMMA FilesStay ==
    ASSUME IInv, UNCHANGED target, seen \subseteq seen',
           record'.expected = record.expected, record'.receipt = record.receipt
    PROVE  FilesFit'
BY DEF IInv, FilesFit, FileFits

LEMMA RecordStays ==
    ASSUME IInv, record'.expected = record.expected,
           record'.status = "absent" <=> record.status = "absent"
    PROVE  RecordFits'
BY DEF IInv, RecordFits

LEMMA RecordKnown ==
    ASSUME IInv
    PROVE  /\ record.status \in Statuses /\ record.retries \in 0 .. MaxRetries
           /\ record.expected \in [Files -> Versions \cup {NoVersion}]
           /\ record.receipt \in [Files -> Versions \cup {NoVersion}]
           /\ record.mark \in [Files -> {"none", "verified", "completed"}]
BY DEF IInv, TypeOK, Records

\* A step that moves the lock and a process, and nothing else.
LEMMA LockStep ==
    ASSUME IInv, NEW p \in Procs, lock \in {p, Nobody}, lock' \in {p, Nobody},
           NEW point \in Points, Goto(p, point), UNCHANGED <<record, marker, Statics>>,
           pos' \in 1 .. N + 1, root' \in Names \cup {Gone}, HolderFits(p)'
    PROVE  IInv'
<1>1. TypeOK'
  BY DEF IInv, TypeOK, Goto, Statics
<1>2. RecordFits' /\ FilesFit' /\ StopsSoon'
  BY DEF IInv, RecordFits, FilesFit, FileFits, StopsSoon, Statics
<1> QED BY <1>1, <1>2, HolderStep DEF IInv

LEMMA Rest == 1 \in 1 .. N + 1 /\ Gone \in Names \cup {Gone}
BY FileAssumption
-----------------------------------------------------------------------------
(* Admission, launch and probes *)

LEMMA EnqueueStep == IInv /\ Enqueue => IInv'
<1> SUFFICES ASSUME IInv, Enqueue PROVE IInv'
  OBVIOUS
<1>1. PICK chosen \in [Files -> Versions] : record' = [record EXCEPT !.status = "queued", !.expected = chosen]
  BY Zenon DEF Enqueue
<1>2. /\ record'.status = "queued" /\ record'.expected = chosen /\ record'.receipt = record.receipt
      /\ record'.mark = record.mark /\ record' \in Records
  BY <1>1 DEF IInv, TypeOK, Records, Statuses, Launchable
<1>3. /\ record.status = "absent" /\ UNCHANGED <<marker, work, project, remote, local, late, meddled>>
      /\ seen' = {f \in Files : target[f] = {<<"owner", chosen[f]>>}}
  BY <1>2 DEF Enqueue
<1>4. TypeOK'
  BY <1>2, <1>3 DEF IInv, TypeOK, work, project, local
<1>5. RecordFits'
  BY <1>2 DEF RecordFits
<1>6. FilesFit'
  <2> SUFFICES ASSUME NEW f \in Files PROVE FileFits(f)'
    BY DEF FilesFit
  <2>1. record.expected[f] = NoVersion /\ FileFits(f) /\ NoVersion \notin Versions
    BY <1>3, NoneAssumption DEF IInv, RecordFits, FilesFit, Versions
  <2>2. record.receipt[f] = NoVersion
    BY <2>1 DEF FileFits
  <2>3. \A v \in Versions : target[f] # {<<"collector", v>>}
    BY <2>1 DEF FileFits
  <2>4. UNCHANGED target
    BY <1>3 DEF local
  <2> QED BY <1>2, <1>3, <2>2, <2>3, <2>4 DEF FileFits
<1>7. HoldersFit'
  <2> SUFFICES ASSUME NEW p \in Procs PROVE HolderFits(p)'
    BY DEF HoldersFit
  <2>1. HolderFits(p) /\ UNCHANGED <<at, lock>> /\ record'.status # "absent"
    BY <1>2, <1>3 DEF IInv, HoldersFit, work
  <2>2. at[p] \notin Working \cup {"resuming", "unmarked"}
    BY <2>1, <1>3 DEF HolderFits, Working, Launchable
  <2> QED BY <2>1, <2>2 DEF HolderFits, Working, Collecting, Copying, Unpublished
<1>8. StopsSoon'
  BY <1>3 DEF IInv, StopsSoon
<1> QED BY <1>4, <1>5, <1>6, <1>7, <1>8 DEF IInv

\* Outside of its work a process relies on nothing.
LEMMA AtRest ==
    ASSUME NEW p \in Procs, at'[p] \notin Holding, lock' # p,
           at'[p] = "cancelling" => record'.status # "absent"
    PROVE  HolderFits(p)'
BY DEF HolderFits, Holding, Working, Collecting, Copying, Unpublished

LEMMA AtKnown == ASSUME IInv, NEW p \in Procs, NEW point, Goto(p, point) PROVE at'[p] = point
BY DEF IInv, TypeOK, Goto

LEMMA LaunchStep == \A p \in Procs : IInv /\ Launch(p) => IInv'
<1> SUFFICES ASSUME NEW p \in Procs, IInv, Launch(p) PROVE IInv'
  OBVIOUS
<1>1. /\ lock = Nobody /\ lock' = Nobody /\ "launched" \in Points /\ Goto(p, "launched")
      /\ UNCHANGED <<record, marker, Statics>> /\ pos' \in 1 .. N + 1 /\ root' \in Names \cup {Gone}
  BY DEF Launch, Points, Statics, project, local, owner, IInv, TypeOK
<1>2. HolderFits(p)'
  BY <1>1, AtKnown, AtRest, NoneAssumption DEF Holding, Working, Collecting, Copying
<1> QED BY <1>1, <1>2, LockStep

LEMMA LaunchFailsStep == IInv /\ LaunchFails => IInv'
<1> SUFFICES ASSUME IInv, LaunchFails PROVE IInv'
  OBVIOUS
<1>1. /\ lock = Nobody /\ record.status \in Launchable
      /\ record' = [record EXCEPT !.status = "blocked"]
      /\ UNCHANGED <<marker, work, Statics>>
  BY DEF LaunchFails, Statics, project, local, owner
<1>2. TypeOK'
  BY <1>1 DEF IInv, TypeOK, Records, Statuses, Statics, work
<1>3. RecordFits' /\ FilesFit'
  BY <1>1, RecordStays, FilesStay DEF Statics, Launchable, IInv, TypeOK, Records
<1>4. HoldersFit'
  BY <1>1, AtRest, NoneAssumption DEF IInv, HoldersFit, HolderFits, work
<1>5. StopsSoon'
  BY <1>1 DEF IInv, StopsSoon, Statics
<1> QED BY <1>2, <1>3, <1>4, <1>5 DEF IInv

LEMMA ProbeStep == \A p \in Procs : IInv /\ Probe(p) => IInv'
<1> SUFFICES ASSUME NEW p \in Procs, IInv, Probe(p) PROVE IInv'
  OBVIOUS
<1>1. /\ lock = Nobody /\ lock' = p /\ "probe" \in Points /\ Goto(p, "probe")
      /\ UNCHANGED <<record, marker, Statics>> /\ pos' \in 1 .. N + 1 /\ root' \in Names \cup {Gone}
  BY DEF Probe, Take, Points, Holding, Statics, project, local, owner, IInv, TypeOK
<1>2. HolderFits(p)'
  BY <1>1, AtKnown DEF HolderFits, Holding, Working, Collecting, Copying, Unpublished
<1> QED BY <1>1, <1>2, LockStep

\* A process gives the lock back.
LEMMA Releases ==
    ASSUME IInv, NEW p \in Procs, lock = p, Release(p), UNCHANGED <<marker, Statics>>,
           TypeOK', RecordFits', FilesFit', record'.status = "absent" => record.status = "absent"
    PROVE  IInv'
<1>1. lock' = Nobody /\ Goto(p, "idle") /\ "idle" \in Points
  BY DEF Release, Points
<1>2. HolderFits(p)'
  BY <1>1, AtKnown, AtRest, NoneAssumption DEF Holding, Working, Collecting, Copying
<1>3. StopsSoon'
  BY DEF IInv, StopsSoon, Statics
<1> QED BY <1>1, <1>2, <1>3, HolderStep

LEMMA ReleaseTypes ==
    ASSUME IInv, NEW p \in Procs, Release(p), UNCHANGED <<marker, Statics>>, record' \in Records
    PROVE  TypeOK'
BY Rest DEF IInv, TypeOK, Release, Goto, Forget, Statics, Points

LEMMA Released ==
    ASSUME IInv, NEW p \in Procs, lock = p, Release(p), UNCHANGED <<record, marker, Statics>>
    PROVE  IInv'
<1>1. TypeOK'
  BY ReleaseTypes DEF IInv, TypeOK
<1>2. RecordFits' /\ FilesFit'
  BY RecordStays, FilesStay DEF Statics
<1> QED BY <1>1, <1>2, Releases

LEMMA EndProbeStep == \A p \in Procs : IInv /\ EndProbe(p) => IInv'
<1> SUFFICES ASSUME NEW p \in Procs, IInv, EndProbe(p) PROVE IInv'
  OBVIOUS
<1>1. lock = p
  BY DEF EndProbe, IInv, HoldersFit, HolderFits, Holding
<1> QED BY <1>1, Released DEF EndProbe, Statics, project, local, owner

LEMMA AcquireStep == \A p \in Procs : IInv /\ Acquire(p) => IInv'
<1> SUFFICES ASSUME NEW p \in Procs, IInv, Acquire(p) PROVE IInv'
  OBVIOUS
<1>1. /\ lock = Nobody /\ UNCHANGED <<record, marker, Statics>>
      /\ pos' \in 1 .. N + 1 /\ root' \in Names \cup {Gone}
  BY DEF Acquire, Take, Statics, project, local, owner, IInv, TypeOK
<1>2. CASE record.status \in Launchable
  <2>1. lock' = p /\ Goto(p, "start") /\ "start" \in Points
    BY <1>2 DEF Acquire, Take, Points, Holding, Working
  <2>2. HolderFits(p)'
    BY <1>1, <1>2, <2>1, AtKnown DEF HolderFits, Holding, Working, Collecting, Copying, Unpublished
  <2> QED BY <1>1, <2>1, <2>2, LockStep
<1>3. CASE record.status \notin Launchable
  <2>1. lock' = Nobody /\ Goto(p, "idle") /\ "idle" \in Points
    BY <1>1, <1>3 DEF Acquire, Points
  <2>2. HolderFits(p)'
    BY <2>1, AtKnown, AtRest, NoneAssumption DEF Holding, Working, Collecting, Copying
  <2> QED BY <1>1, <2>1, <2>2, LockStep
<1> QED BY <1>2, <1>3

\* A process without the lock goes on.
LEMMA FreeStep ==
    ASSUME IInv, NEW p \in Procs, at[p] \notin Holding, NEW point \in Points \ Holding,
           Goto(p, point), UNCHANGED <<record, lock, pos, root, Statics>>, UNCHANGED marker,
           point = "cancelling" => record.status # "absent"
    PROVE  IInv'
<1>1. lock # p
  BY DEF IInv, HoldersFit, HolderFits
<1>2. TypeOK'
  BY DEF IInv, TypeOK, Goto, Statics
<1>3. RecordFits' /\ FilesFit' /\ StopsSoon'
  BY RecordStays, FilesStay DEF IInv, Statics, StopsSoon
<1>4. \A q \in Procs \ {p} : HolderFits(q)'
  BY DEF IInv, HoldersFit, HolderFits, TypeOK, Goto, Statics
<1>5. HolderFits(p)'
  BY <1>1, AtKnown, AtRest
<1> QED BY <1>2, <1>3, <1>4, <1>5 DEF IInv, HoldersFit

LEMMA LoseRaceStep == \A p \in Procs : IInv /\ LoseRace(p) => IInv'
<1> SUFFICES ASSUME NEW p \in Procs, IInv, LoseRace(p) PROVE IInv'
  OBVIOUS
<1>1. at[p] \notin Holding /\ "idle" \in Points \ Holding
  BY DEF LoseRace, Points, Holding, Working, Collecting, Copying
<1> QED BY <1>1, FreeStep DEF LoseRace, Statics, project, local, owner
-----------------------------------------------------------------------------
(* Cancel and resume *)

LEMMA CancelStep == \A p \in Procs : IInv /\ Cancel(p) => IInv'
<1> SUFFICES ASSUME NEW p \in Procs, IInv, Cancel(p) PROVE IInv'
  OBVIOUS
<1>1. /\ at[p] = "idle" /\ Goto(p, "cancelling") /\ marker' = TRUE
      /\ late' = IF marker THEN late ELSE 0
      /\ UNCHANGED <<record, lock, pos, root, project, remote, local, owner>>
  BY DEF Cancel
<1>2. TypeOK'
  BY <1>1, FileAssumption DEF IInv, TypeOK, Goto, Points, project, local, owner
<1>3. RecordFits' /\ FilesFit'
  BY <1>1, RecordStays, FilesStay DEF local, owner
<1>4. \A q \in Procs \ {p} : HolderFits(q)'
  BY <1>1 DEF IInv, HoldersFit, HolderFits, TypeOK, Goto, project, local, owner
<1>5. at[p] \notin Holding /\ "cancelling" \notin Holding
  BY <1>1 DEF Holding, Working, Collecting, Copying
<1>6. lock # p /\ record.status # "absent"
  BY <1>5, <1>1 DEF IInv, HoldersFit, HolderFits, Cancel
<1>7. HolderFits(p)'
  BY <1>1, <1>5, <1>6, AtKnown, AtRest
<1>8. StopsSoon'
  BY <1>1 DEF IInv, StopsSoon
<1> QED BY <1>2, <1>3, <1>4, <1>7, <1>8 DEF IInv, HoldersFit

LEMMA FinishCancelStep == \A p \in Procs : IInv /\ FinishCancel(p) => IInv'
<1> SUFFICES ASSUME NEW p \in Procs, IInv, FinishCancel(p) PROVE IInv'
  OBVIOUS
<1>1. /\ at[p] = "cancelling" /\ Goto(p, "idle")
      /\ UNCHANGED <<marker, lock, pos, root, Statics>>
      /\ record' = IF lock = Nobody /\ record.status \notin Done
                   THEN [record EXCEPT !.status = "cancelled"] ELSE record
  BY DEF FinishCancel, Statics, project, local, owner
<1>2. at[p] \notin Holding /\ "idle" \in Points \ Holding
  BY <1>1 DEF Points, Holding, Working, Collecting, Copying
<1>3. CASE record' = record
  BY <1>1, <1>2, <1>3, FreeStep
<1>4. CASE lock = Nobody /\ record' = [record EXCEPT !.status = "cancelled"]
  <2>1. /\ record'.status = "cancelled" /\ record'.expected = record.expected
        /\ record'.receipt = record.receipt /\ record' \in Records
    BY <1>4 DEF IInv, TypeOK, Records, Statuses, Done
  <2>2. TypeOK'
    BY <1>1, <2>1 DEF IInv, TypeOK, Goto, Points, Statics
  <2>3. FilesFit' /\ StopsSoon'
    BY <1>1, <2>1, FilesStay DEF IInv, Statics, StopsSoon
  <2>4. record.status # "absent"
    BY <1>1 DEF IInv, HoldersFit, HolderFits
  <2>5. RecordFits'
    BY <2>1, <2>4, RecordStays
  <2>6. HoldersFit'
    BY <1>1, <1>2, <1>4, AtRest, NoneAssumption DEF IInv, TypeOK, HoldersFit, HolderFits, Goto
  <2> QED BY <2>2, <2>3, <2>5, <2>6 DEF IInv
<1> QED BY <1>1, <1>3, <1>4

LEMMA ResumeStep == \A p \in Procs : IInv /\ Resume(p) => IInv'
<1> SUFFICES ASSUME NEW p \in Procs, IInv, Resume(p) PROVE IInv'
  OBVIOUS
<1>1. /\ lock = Nobody /\ lock' = p /\ "resuming" \in Points /\ Goto(p, "resuming")
      /\ UNCHANGED <<record, marker, Statics>> /\ pos' \in 1 .. N + 1 /\ root' \in Names \cup {Gone}
      /\ record.status \notin {"absent", "completed"}
  BY DEF Resume, Take, Points, Holding, Statics, project, local, owner, IInv, TypeOK
<1>2. HolderFits(p)'
  BY <1>1, AtKnown DEF HolderFits, Holding, Working, Collecting, Copying, Unpublished
<1> QED BY <1>1, <1>2, LockStep

LEMMA RefuseResumeStep == \A p \in Procs : IInv /\ RefuseResume(p) => IInv'
<1> SUFFICES ASSUME NEW p \in Procs, IInv, RefuseResume(p) PROVE IInv'
  OBVIOUS
<1>1. lock = p
  BY DEF RefuseResume, IInv, HoldersFit, HolderFits, Holding
<1> QED BY <1>1, Released DEF RefuseResume, Statics, project, local, owner

LEMMA UnmarkStep == \A p \in Procs : IInv /\ Unmark(p) => IInv'
<1> SUFFICES ASSUME NEW p \in Procs, IInv, Unmark(p) PROVE IInv'
  OBVIOUS
<1>1. /\ at[p] = "resuming" /\ Goto(p, "unmarked") /\ marker' = FALSE /\ late' = 0
      /\ UNCHANGED <<record, lock, pos, root, project, remote, local, owner>>
      /\ "unmarked" \in Points
  BY DEF Unmark, Points, Holding
<1>2. lock = p /\ record.status \notin {"absent", "completed"}
  BY <1>1 DEF IInv, HoldersFit, HolderFits, Holding
<1>3. TypeOK'
  <2>1. late' \in 0 .. N /\ at' \in [Procs -> Points]
    BY <1>1, FileAssumption DEF IInv, TypeOK, Goto
  <2> QED BY <1>1, <2>1 DEF IInv, TypeOK, project, local, owner
<1>4. RecordFits' /\ FilesFit' /\ StopsSoon'
  BY <1>1, RecordStays, FilesStay DEF local, owner, StopsSoon
<1>5. HolderFits(p)'
  BY <1>1, <1>2, AtKnown DEF HolderFits, Holding, Working, Collecting, Copying, Unpublished
<1>6. /\ Goto(p, "unmarked") /\ "unmarked" \in Points
      /\ lock \in {p, Nobody} /\ lock' \in {p, Nobody}
      /\ record'.status = "absent" => record.status = "absent"
  BY <1>1, <1>2
<1> QED BY <1>3, <1>4, <1>5, <1>6, HolderStep

\* The holder saves another status, and perhaps another count of attempts.
LEMMA StatusSaved ==
    ASSUME IInv, NEW status \in Statuses \ {"absent"}, NEW retries \in 0 .. MaxRetries,
           record' = [record EXCEPT !.status = status, !.retries = retries],
           record.status # "absent", UNCHANGED <<target, seen>>
    PROVE  /\ record' \in Records /\ record'.status = status
           /\ record'.expected = record.expected /\ record'.mark = record.mark
           /\ record'.receipt = record.receipt
           /\ RecordFits' /\ FilesFit'
<1>1. /\ record' \in Records /\ record'.status = status
      /\ record'.expected = record.expected /\ record'.mark = record.mark
      /\ record'.receipt = record.receipt
  BY DEF IInv, TypeOK, Records
<1> QED BY <1>1, RecordStays, FilesStay

LEMMA RequeueStep == \A p \in Procs : IInv /\ Requeue(p) => IInv'
<1> SUFFICES ASSUME NEW p \in Procs, IInv, Requeue(p) PROVE IInv'
  OBVIOUS
<1>1. /\ at[p] = "unmarked" /\ Goto(p, "launched") /\ lock' = Nobody
      /\ record' = [record EXCEPT !.status = "queued", !.retries = 0]
      /\ UNCHANGED <<marker, pos, root, Statics>>
      /\ "launched" \in Points
  BY DEF Requeue, Points, Statics, project, local, owner
<1>2. lock = p /\ record.status # "absent"
  BY <1>1 DEF IInv, HoldersFit, HolderFits, Holding
<1>3. record' \in Records /\ record'.status = "queued" /\ RecordFits' /\ FilesFit'
  <2>1. 0 \in 0 .. MaxRetries /\ "queued" \in Statuses \ {"absent"} /\ UNCHANGED <<target, seen>>
    BY <1>1, BoundAssumption DEF Statuses, Launchable, Statics
  <2> QED BY <1>1, <1>2, <2>1, StatusSaved
<1>4. TypeOK'
  BY <1>1, <1>3 DEF IInv, TypeOK, Goto, Statics
<1>5. StopsSoon'
  BY <1>1 DEF IInv, Statics, StopsSoon
<1>6. HolderFits(p)'
  BY <1>1, AtKnown, AtRest, NoneAssumption DEF Holding, Working, Collecting, Copying
<1> QED BY <1>1, <1>2, <1>3, <1>4, <1>5, <1>6, HolderStep
-----------------------------------------------------------------------------
(* The worker *)

\* Working: the lock is p's and a record is there.
LEMMA Worker ==
    ASSUME IInv, NEW p \in Procs, at[p] \in Working
    PROVE  /\ lock = p /\ record.status \in Launchable /\ record.status # "absent"
           /\ at[p] # "start" => record.status = "collecting"
           /\ HolderFits(p)
BY Knowns, Points1 DEF HolderFits, Working, Launchable

LEMMA StartStep == \A p \in Procs : IInv /\ Start(p) => IInv'
<1> SUFFICES ASSUME NEW p \in Procs, IInv, Start(p) PROVE IInv'
  OBVIOUS
<1>1. /\ at[p] = "start" /\ Goto(p, "resolve") /\ "resolve" \in Points
      /\ record' = [record EXCEPT !.status = "collecting"]
      /\ UNCHANGED <<marker, lock, pos, root, Statics>>
  BY DEF Start, Points, Holding, Working, Statics, project, local, owner
<1>2. lock = p /\ record.status # "absent"
  BY <1>1, Worker DEF Working
<1>3. record' = [record EXCEPT !.status = "collecting", !.retries = record.retries]
  BY <1>1 DEF IInv, TypeOK, Records
<1>4. /\ record' \in Records /\ record'.status = "collecting" /\ RecordFits' /\ FilesFit'
  BY <1>1, <1>2, <1>3, RecordKnown, StatusSaved DEF Statuses, Launchable, Statics
<1>5. TypeOK' /\ StopsSoon'
  BY <1>1, <1>4 DEF IInv, TypeOK, Goto, Statics, StopsSoon
<1>6. HolderFits(p)'
  BY <1>1, <1>2, <1>4, AtKnown DEF HolderFits, Holding, Working, Collecting, Copying, Unpublished
<1> QED BY <1>1, <1>2, <1>4, <1>5, <1>6, HolderStep

LEMMA ResolveStep == \A p \in Procs : IInv /\ Resolve(p) => IInv'
<1> SUFFICES ASSUME NEW p \in Procs, IInv, Resolve(p) PROVE IInv'
  OBVIOUS
<1>1. /\ at[p] = "resolve" /\ Goto(p, "file") /\ "file" \in Points
      /\ ProjectHere /\ root' = place /\ pos' = 1
      /\ UNCHANGED <<record, marker, lock, Statics>>
  BY DEF Resolve, Points, Holding, Working, Collecting, Statics, project, local, owner
<1>2. lock = p /\ record.status = "collecting"
  BY <1>1, Worker DEF Working
<1>3. pos' \in 1 .. N + 1 /\ root' \in Names \cup {Gone}
  BY <1>1, Rest DEF IInv, TypeOK
<1>4. HolderFits(p)'
  BY <1>1, <1>2, AtKnown DEF HolderFits, Holding, Working, Collecting, Copying, Unpublished,
     ProjectHere, Statics, Files
<1> QED BY <1>1, <1>2, <1>3, <1>4, LockStep

LEMMA BlockStep == \A p \in Procs : IInv /\ at[p] \in Working /\ Block(p) => IInv'
<1> SUFFICES ASSUME NEW p \in Procs, IInv, at[p] \in Working, Block(p) PROVE IInv'
  OBVIOUS
<1>1. lock = p /\ record.status # "absent" /\ Release(p) /\ UNCHANGED <<marker, Statics>>
  BY Worker DEF Block, Statics, project, local, owner
<1>2. record' = [record EXCEPT !.status = "blocked", !.retries = record.retries]
  BY DEF Block, IInv, TypeOK, Records
<1>3. record' \in Records /\ record'.status = "blocked" /\ RecordFits' /\ FilesFit'
  BY <1>1, <1>2, RecordKnown, StatusSaved DEF Statuses, Statics
<1>4. TypeOK'
  BY <1>1, <1>3, ReleaseTypes
<1> QED BY <1>1, <1>3, <1>4, Releases

LEMMA RetryStep == \A p \in Procs : IInv /\ at[p] \in Working /\ Retry(p) => IInv'
<1> SUFFICES ASSUME NEW p \in Procs, IInv, at[p] \in Working, Retry(p) PROVE IInv'
  OBVIOUS
<1>1. /\ lock = p /\ record.status # "absent" /\ Goto(p, "start") /\ "start" \in Points
      /\ pos' = 1 /\ root' = Gone /\ UNCHANGED <<marker, lock, Statics>>
      /\ record.retries + 1 \in 0 .. MaxRetries
  BY Worker, RecordKnown, BoundAssumption DEF Retry, Forget, AttemptsLeft, Points, Holding,
     Working, Statics, project, local, owner
<1>2. record' = [record EXCEPT !.status = "retrying", !.retries = record.retries + 1]
  BY DEF Retry
<1>3. record' \in Records /\ record'.status = "retrying" /\ RecordFits' /\ FilesFit'
  BY <1>1, <1>2, StatusSaved DEF Statuses, Launchable, Statics
<1>4. TypeOK' /\ StopsSoon'
  BY <1>1, <1>3, Rest DEF IInv, TypeOK, Goto, Statics, StopsSoon
<1>5. HolderFits(p)'
  BY <1>1, <1>3, AtKnown DEF HolderFits, Holding, Working, Collecting, Copying, Unpublished,
     Launchable
<1> QED BY <1>1, <1>3, <1>4, <1>5, HolderStep

LEMMA CallFailsStep == \A p \in Procs : IInv /\ CallFails(p) => IInv'
<1> SUFFICES ASSUME NEW p \in Procs, IInv, CallFails(p) PROVE IInv'
  OBVIOUS
<1>1. at[p] \in Working
  BY DEF CallFails, Working, Collecting, Copying
<1> QED BY <1>1, RetryStep, BlockStep DEF CallFails

LEMMA RefuseStep == \A p \in Procs : IInv /\ Refuse(p) => IInv'
<1> SUFFICES ASSUME NEW p \in Procs, IInv, Refuse(p) PROVE IInv'
  OBVIOUS
<1>1. at[p] \in Working
  BY DEF Refuse, Conflict, Working, Collecting, Copying
<1> QED BY <1>1, BlockStep DEF Refuse

\* A worker ends with a last word.
LEMMA LastWord ==
    ASSUME IInv, NEW p \in Procs, at[p] = "file", NEW status \in Done,
           record' = [record EXCEPT !.status = status], Release(p),
           UNCHANGED <<marker, project, remote, local, late, owner>>
    PROVE  IInv'
<1>1. lock = p /\ record.status # "absent" /\ UNCHANGED <<marker, Statics>>
  BY Worker DEF Working, Collecting, Statics, project, local, owner
<1>2. record' = [record EXCEPT !.status = status, !.retries = record.retries]
  BY DEF IInv, TypeOK, Records
<1>3. record' \in Records /\ record'.status = status /\ RecordFits' /\ FilesFit'
  BY <1>1, <1>2, RecordKnown, StatusSaved DEF Statuses, Done, Statics
<1>4. TypeOK'
  BY <1>1, <1>3, ReleaseTypes
<1>5. record'.status # "absent"
  BY <1>3 DEF Done
<1> QED BY <1>1, <1>3, <1>4, <1>5, Releases

LEMMA StopStep == \A p \in Procs : IInv /\ Stop(p) => IInv'
BY LastWord DEF Stop, Done

LEMMA CompleteStep == \A p \in Procs : IInv /\ Complete(p) => IInv'
BY LastWord DEF Complete, Done

\* The worker at a file knows where it is.
LEMMA AtFile ==
    ASSUME IInv, NEW p \in Procs, at[p] \in Collecting
    PROVE  /\ lock = p /\ record.status = "collecting" /\ root = place /\ ~moving
           /\ \A f \in Files : f < pos => record.mark[f] = "completed"
           /\ at[p] \in Copying => pos \in Files /\ record.mark[pos] # "completed"
           /\ pos <= N => pos \in Files
           /\ pos \in Files => pos \in Nat /\ pos + 1 \in 1 .. N + 1
           /\ HolderFits(p) /\ at \in [Procs -> Points]
<1>1. HolderFits(p) /\ pos \in 1 .. N + 1 /\ at \in [Procs -> Points]
  BY DEF IInv, TypeOK, HoldersFit
<1> QED BY <1>1, Points1, FileAssumption DEF HolderFits, Files

LEMMA SkipStep == \A p \in Procs : IInv /\ Skip(p) => IInv'
<1> SUFFICES ASSUME NEW p \in Procs, IInv, Skip(p) PROVE IInv'
  OBVIOUS
<1>1. /\ at[p] = "file" /\ pos <= N /\ record.mark[pos] = "completed" /\ pos' = pos + 1
      /\ UNCHANGED <<record, marker, lock, at, root, Statics>>
      /\ "file" \in Points /\ at[p] \in Collecting
  BY DEF Skip, Points, Holding, Working, Collecting, Statics, project, local, owner
<1>2. /\ lock = p /\ record.status = "collecting" /\ root = place /\ ~moving /\ pos \in Files
      /\ \A f \in Files : f < pos => record.mark[f] = "completed"
      /\ pos + 1 \in 1 .. N + 1 /\ at \in [Procs -> Points]
  BY <1>1, AtFile
<1>3. Goto(p, "file") /\ root' \in Names \cup {Gone}
  BY <1>1, <1>2 DEF Goto, IInv, TypeOK
<1>4. \A f \in Files : f < pos' => record.mark[f] = "completed"
  BY <1>1, <1>2 DEF Files
<1>5. HolderFits(p)'
  BY <1>1, <1>2, <1>4 DEF HolderFits, Holding, Working, Collecting, Copying, Unpublished, Statics
<1> QED BY <1>1, <1>2, <1>3, <1>5, LockStep

LEMMA CheckStep == \A p \in Procs : IInv /\ Check(p) => IInv'
<1> SUFFICES ASSUME NEW p \in Procs, IInv, Check(p) PROVE IInv'
  OBVIOUS
<1>1. /\ at[p] = "file" /\ pos <= N /\ record.mark[pos] # "completed" /\ Goto(p, "place")
      /\ UNCHANGED <<record, marker, lock, pos, root, Statics>>
      /\ "place" \in Points /\ at[p] \in Collecting
      /\ ~marker /\ remote[pos] = record.expected[pos]
  BY DEF Check, StopNow, Points, Holding, Working, Collecting, Copying, Statics, project, local,
     owner
<1>2. /\ lock = p /\ record.status = "collecting" /\ root = place /\ ~moving /\ pos \in Files
      /\ \A f \in Files : f < pos => record.mark[f] = "completed"
  BY <1>1, AtFile
<1>3. record.expected[pos] <= remote[pos] /\ pos' \in 1 .. N + 1 /\ root' \in Names \cup {Gone}
  BY <1>1, <1>2 DEF IInv, TypeOK, Versions
<1>4. HolderFits(p)'
  BY <1>1, <1>2, <1>3, AtKnown DEF HolderFits, Holding, Working, Collecting, Copying,
     Unpublished, Statics
<1> QED BY <1>1, <1>2, <1>3, <1>4, LockStep

\* A file is recorded as collected.
LEMMA FileRecorded ==
    ASSUME IInv, NEW f \in Files, Recorded(f)
    PROVE  /\ record' \in Records /\ record'.status = record.status
           /\ record'.expected = record.expected /\ record'.receipt = record.receipt
           /\ record'.mark[f] = "completed"
           /\ \A g \in Files \ {f} : record'.mark[g] = record.mark[g]
BY RecordKnown DEF Recorded, IInv, TypeOK, Records

\* The worker has recorded the file it is at and goes on to the next.
LEMMA NextFile ==
    ASSUME IInv, NEW p \in Procs, at[p] \in Copying, Recorded(pos), pos' = pos + 1,
           Goto(p, "file"), UNCHANGED <<marker, lock, root, project, remote, target, late, owner>>,
           staged' \in [Files -> Versions \cup {NoVersion}]
    PROVE  IInv'
<1>1. /\ at[p] \in Collecting /\ "file" \in Points
      /\ UNCHANGED <<marker, lock, root, place, moving, remote, target, late, seen, meddled>>
  BY Points1 DEF Points, Holding, Working, Collecting, project, owner
<1>2. /\ lock = p /\ record.status = "collecting" /\ root = place /\ ~moving /\ pos \in Files
      /\ \A f \in Files : f < pos => record.mark[f] = "completed"
      /\ pos + 1 \in 1 .. N + 1
  BY <1>1, AtFile
<1>3. /\ record' \in Records /\ record'.status = record.status
      /\ record'.expected = record.expected /\ record'.receipt = record.receipt
      /\ record'.mark[pos] = "completed"
      /\ \A g \in Files \ {pos} : record'.mark[g] = record.mark[g]
  BY <1>2, FileRecorded
<1>4. TypeOK'
  BY <1>1, <1>2, <1>3 DEF IInv, TypeOK, Goto
<1>5. RecordFits' /\ FilesFit' /\ StopsSoon'
  BY <1>1, <1>3, RecordStays, FilesStay DEF IInv, StopsSoon
<1>6. \A f \in Files : f < pos' => record'.mark[f] = "completed"
  BY <1>2, <1>3 DEF Files
<1>7. HolderFits(p)'
  BY <1>1, <1>2, <1>3, <1>6, AtKnown DEF HolderFits, Holding, Working, Collecting, Copying,
     Unpublished
<1> QED BY <1>1, <1>2, <1>3, <1>4, <1>5, <1>7, HolderStep

LEMMA AdoptStep == \A p \in Procs : IInv /\ Adopt(p) => IInv'
<1> SUFFICES ASSUME NEW p \in Procs, IInv, Adopt(p) PROVE IInv'
  OBVIOUS
<1>1. at[p] \in Copying /\ staged' = staged /\ UNCHANGED target
  BY DEF Adopt, Copying, local
<1> QED BY <1>1, NextFile DEF Adopt, IInv, TypeOK

LEMMA FinishStep == \A p \in Procs : IInv /\ Finish(p) => IInv'
<1> SUFFICES ASSUME NEW p \in Procs, IInv, Finish(p) PROVE IInv'
  OBVIOUS
<1>1. at[p] \in Copying
  BY DEF Finish, Copying
<1>2. staged' \in [Files -> Versions \cup {NoVersion}]
  BY DEF Finish, IInv, TypeOK
<1> QED BY <1>1, <1>2, NextFile DEF Finish

\* A step of the worker at a file that leaves record, lock and place alone.
LEMMA FileStep ==
    ASSUME IInv, NEW p \in Procs, at[p] \in Copying, NEW point \in Copying, Goto(p, point),
           UNCHANGED <<record, marker, lock, pos, root, project, remote, target, late, owner>>,
           staged' \in [Files -> Versions \cup {NoVersion}],
           point \in {"fetch", "verify"}, at[p] \in {"place", "fetch"},
           point = "verify" => /\ staged'[pos] \in Versions
                               /\ record.expected[pos] <= staged'[pos]
                               /\ staged'[pos] <= remote[pos]
    PROVE  IInv'
<1>1. /\ at[p] \in Collecting /\ point \in Points
      /\ UNCHANGED <<record, marker, lock, pos, root, place, moving, remote, target, late, seen,
                     meddled>>
  BY Points1 DEF project, owner
<1>2. /\ lock = p /\ record.status = "collecting" /\ root = place /\ ~moving /\ pos \in Files
      /\ \A f \in Files : f < pos => record.mark[f] = "completed"
      /\ record.mark[pos] # "completed" /\ HolderFits(p)
  BY <1>1, AtFile
<1>3. /\ record.expected[pos] <= remote[pos]
      /\ marker => late = 0
  BY <1>2 DEF HolderFits, Unpublished
<1>4. TypeOK'
  BY <1>1 DEF IInv, TypeOK, Goto
<1>5. RecordFits' /\ FilesFit' /\ StopsSoon'
  BY <1>1, RecordStays, FilesStay DEF IInv, StopsSoon
<1>6. HolderFits(p)'
  BY <1>1, <1>2, <1>3, AtKnown DEF HolderFits, Holding, Working, Collecting, Copying, Unpublished
<1> QED BY <1>1, <1>2, <1>4, <1>5, <1>6, HolderStep

\* Versions only grow, and a receipt is for the chosen one.
LEMMA VersionsKnown ==
    ASSUME IInv, NEW f \in Files, record.status # "absent"
    PROVE  /\ record.expected[f] \in Versions /\ remote[f] \in Versions
           /\ staged[f] \in Versions \cup {NoVersion} /\ NoVersion \notin Versions
           /\ record.receipt[f] \in {NoVersion, record.expected[f]}
           /\ Versions \subseteq Nat
BY NoneAssumption DEF IInv, TypeOK, RecordFits, FilesFit, FileFits, Versions

LEMMA StageStep == \A p \in Procs : IInv /\ Stage(p) => IInv'
<1> SUFFICES ASSUME NEW p \in Procs, IInv, Stage(p) PROVE IInv'
  OBVIOUS
<1> DEFINE whole == staged[pos] # NoVersion /\ staged[pos] = record.receipt[pos]
<1>1. /\ at[p] = "place" /\ at[p] \in Copying /\ at[p] \in Collecting
      /\ "fetch" \in Copying /\ "verify" \in Copying
      /\ UNCHANGED <<record, marker, lock, pos, root, project, remote, target, late, owner>>
      /\ staged' = IF whole THEN staged ELSE [staged EXCEPT ![pos] = NoVersion]
      /\ Goto(p, IF whole THEN "verify" ELSE "fetch")
  BY DEF Stage, Copying, Collecting
<1>2. pos \in Files /\ record.status # "absent" /\ record.expected[pos] <= remote[pos]
  BY <1>1, AtFile DEF HolderFits
<1>3. staged' \in [Files -> Versions \cup {NoVersion}]
  BY <1>1 DEF IInv, TypeOK
<1>4. CASE whole
  <2>1. staged'[pos] = record.expected[pos] /\ staged'[pos] \in Versions
    BY <1>1, <1>2, <1>4, VersionsKnown
  <2>2. record.expected[pos] <= staged'[pos] /\ staged'[pos] <= remote[pos]
    BY <1>2, <2>1 DEF Versions
  <2> QED BY <1>1, <1>3, <1>4, <2>1, <2>2, FileStep
<1>5. CASE ~whole
  <2>1. Goto(p, "fetch")
    BY <1>1, <1>5
  <2> QED BY <1>1, <1>3, <2>1, FileStep
<1> QED BY <1>4, <1>5

LEMMA FetchStep == \A p \in Procs : IInv /\ Fetch(p) => IInv'
<1> SUFFICES ASSUME NEW p \in Procs, IInv, Fetch(p) PROVE IInv'
  OBVIOUS
<1>1. /\ at[p] = "fetch" /\ at[p] \in Copying /\ at[p] \in Collecting /\ "verify" \in Copying
      /\ UNCHANGED <<record, marker, lock, pos, root, project, remote, target, late, owner>>
      /\ staged' = [staged EXCEPT ![pos] = remote[pos]] /\ Goto(p, "verify")
  BY DEF Fetch, Copying, Collecting
<1>2. pos \in Files /\ record.status # "absent" /\ record.expected[pos] <= remote[pos]
  BY <1>1, AtFile DEF HolderFits
<1>3. remote[pos] \in Versions
  BY <1>2, VersionsKnown
<1>4. /\ staged' \in [Files -> Versions \cup {NoVersion}] /\ staged'[pos] = remote[pos]
      /\ remote[pos] <= remote[pos]
  BY <1>1, <1>2, <1>3 DEF IInv, TypeOK, Versions
<1> QED BY <1>1, <1>2, <1>3, <1>4, FileStep

LEMMA VerifyStep == \A p \in Procs : IInv /\ Verify(p) => IInv'
<1> SUFFICES ASSUME NEW p \in Procs, IInv, Verify(p) PROVE IInv'
  OBVIOUS
<1>1. /\ at[p] = "verify" /\ at[p] \in Collecting /\ at[p] \in Copying
      /\ Goto(p, "publish") /\ "publish" \in Points
      /\ remote[pos] = record.expected[pos]
      /\ record' = [record EXCEPT !.mark[pos] = "verified", !.receipt[pos] = staged[pos]]
      /\ UNCHANGED <<marker, lock, pos, root, Statics>>
  BY DEF Verify, Unchanged, Points, Holding, Working, Collecting, Copying, Statics, project,
     local, owner
<1>2. /\ lock = p /\ record.status = "collecting" /\ root = place /\ ~moving /\ pos \in Files
      /\ \A f \in Files : f < pos => record.mark[f] = "completed"
      /\ HolderFits(p) /\ pos \in Nat
  BY <1>1, AtFile
<1>3. /\ staged[pos] \in Versions /\ record.expected[pos] <= staged[pos]
      /\ staged[pos] <= remote[pos]
      /\ marker => late = 0
  BY <1>1, <1>2 DEF HolderFits, Unpublished
<1>4. staged[pos] = record.expected[pos]
  <2>1. record.expected[pos] \in Nat /\ staged[pos] \in Nat
    BY <1>2, <1>3, VersionsKnown
  <2> QED BY <1>1, <1>3, <2>1
<1>5. /\ record' \in Records /\ record'.status = record.status
      /\ record'.expected = record.expected
      /\ record'.mark = [record.mark EXCEPT ![pos] = "verified"]
      /\ record'.receipt = [record.receipt EXCEPT ![pos] = staged[pos]]
  BY <1>1, <1>2, <1>3 DEF IInv, TypeOK, Records
<1>6. TypeOK'
  BY <1>1, <1>5 DEF IInv, TypeOK, Goto, Statics
<1>7. RecordFits' /\ StopsSoon'
  BY <1>1, <1>5, RecordStays DEF IInv, StopsSoon, Statics
<1>8. FilesFit'
  BY <1>1, <1>2, <1>4, <1>5, RecordKnown DEF IInv, FilesFit, FileFits, Statics
<1>9. /\ record'.mark[pos] # "completed"
      /\ \A f \in Files : f < pos => record'.mark[f] = "completed"
  <2>1. record'.mark[pos] = "verified" /\ \A f \in Files : f # pos => record'.mark[f] = record.mark[f]
    BY <1>2, <1>5, RecordKnown
  <2>2. \A f \in Files : f < pos => f # pos
    BY <1>2 DEF Files
  <2> QED BY <1>2, <2>1, <2>2
<1>10. HolderFits(p)'
  BY <1>1, <1>2, <1>3, <1>4, <1>5, <1>9, AtKnown DEF HolderFits, Holding, Working, Collecting,
     Copying, Unpublished, Statics
<1> QED BY <1>1, <1>2, <1>5, <1>6, <1>7, <1>8, <1>10, HolderStep

\* Who put a file there, and which version, can be told.
LEMMA ContentsDiffer ==
    \A who, v, other, w : {<<who, v>>} = {<<other, w>>} => who = other /\ v = w
<1> SUFFICES ASSUME NEW who, NEW v, NEW other, NEW w, {<<who, v>>} = {<<other, w>>}
             PROVE  who = other /\ v = w
  OBVIOUS
<1>1. <<who, v>> \in {<<other, w>>}
  OBVIOUS
<1> QED BY <1>1

LEMMA PublishStep == \A p \in Procs : IInv /\ Publish(p) => IInv'
<1> SUFFICES ASSUME NEW p \in Procs, IInv, Publish(p) PROVE IInv'
  OBVIOUS
<1>1. /\ at[p] = "publish" /\ at[p] \in Collecting /\ at[p] \in Copying
      /\ Goto(p, "finish") /\ "finish" \in Points /\ target[pos] = {}
      /\ target' = [target EXCEPT ![pos] = {<<"collector", staged[pos]>>}]
      /\ late' = IF marker THEN late + 1 ELSE late
      /\ UNCHANGED <<record, marker, lock, pos, root, place, moving, remote, staged, meddled>>
      /\ seen' = IF staged[pos] = record.expected[pos] THEN seen \cup {pos} ELSE seen
  BY DEF Publish, Points, Holding, Working, Collecting, Copying, project
<1>2. /\ lock = p /\ record.status = "collecting" /\ root = place /\ ~moving /\ pos \in Files
      /\ \A f \in Files : f < pos => record.mark[f] = "completed"
      /\ record.mark[pos] # "completed" /\ HolderFits(p) /\ pos \in Nat
  BY <1>1, AtFile
<1>3. staged[pos] = record.expected[pos] /\ staged[pos] \in Versions
  BY <1>1, <1>2, VersionsKnown DEF HolderFits
<1>4. seen' = seen \cup {pos}
  BY <1>1, <1>3
<1>5. target' \in [Files -> Contents]
  BY <1>1, <1>2, <1>3 DEF IInv, TypeOK, Contents
<1>6. late' \in 0 .. N /\ (marker => late' <= 1)
  BY <1>1, <1>2, FileAssumption DEF HolderFits, Unpublished, IInv, TypeOK
<1>7. TypeOK'
  BY <1>1, <1>2, <1>4, <1>5, <1>6 DEF IInv, TypeOK, Goto
<1>8. RecordFits' /\ StopsSoon'
  BY <1>1, <1>6, RecordStays DEF StopsSoon
<1>9. FilesFit'
  <2> SUFFICES ASSUME NEW f \in Files PROVE FileFits(f)'
    BY DEF FilesFit
  <2>1. FileFits(f) /\ UNCHANGED record
    BY <1>1 DEF IInv, FilesFit
  <2>2. CASE f = pos
    <3>1. target'[f] = {<<"collector", record.expected[f]>>} /\ f \in seen'
      BY <1>1, <1>2, <1>3, <1>4, <2>2 DEF IInv, TypeOK
    <3>2. \A v : {<<"collector", record.expected[f]>>} = {<<"collector", v>>} => v = record.expected[f]
      BY ZenonT(30), ContentsDiffer
    <3>3. \A v : {<<"collector", record.expected[f]>>} # {<<"owner", v>>}
      <4>1. "owner" # "collector"
        OBVIOUS
      <4> QED BY ZenonT(30), <4>1, ContentsDiffer
    <3> QED BY <2>1, <3>1, <3>2, <3>3 DEF FileFits
  <2>3. CASE f # pos
    <3>1. target'[f] = target[f] /\ (f \in seen' <=> f \in seen)
      BY <1>1, <1>4, <2>3 DEF IInv, TypeOK
    <3> QED BY <2>1, <3>1 DEF FileFits
  <2> QED BY <2>2, <2>3
<1>10. HolderFits(p)'
  BY <1>1, <1>2, <1>4, AtKnown DEF HolderFits, Holding, Working, Collecting, Copying, Unpublished
<1> QED BY <1>1, <1>2, <1>7, <1>8, <1>9, <1>10, HolderStep

LEMMA CrashStep == \A p \in Procs : IInv /\ Crash(p) => IInv'
<1> SUFFICES ASSUME NEW p \in Procs, IInv, Crash(p) PROVE IInv'
  OBVIOUS
<1>1. Goto(p, "idle") /\ UNCHANGED <<record, marker, Statics>>
  BY DEF Crash, Statics, project, local, owner
<1>2. CASE lock = p
  <2>1. Release(p)
    BY <1>2 DEF Crash, Release
  <2> QED BY <1>1, <1>2, <2>1, Released
<1>3. CASE lock # p
  <2>1. UNCHANGED <<lock, pos, root>>
    BY <1>3 DEF Crash
  <2>2. at[p] \notin Holding /\ "idle" \in Points \ Holding
    BY <1>3 DEF IInv, HoldersFit, HolderFits, Points, Holding, Working, Collecting, Copying
  <2> QED BY <1>1, <2>1, <2>2, FreeStep
<1> QED BY <1>2, <1>3
-----------------------------------------------------------------------------
(* The project and its owner *)

LEMMA CheckMoveStep == IInv /\ CheckMove => IInv'
<1> SUFFICES ASSUME IInv, CheckMove PROVE IInv'
  OBVIOUS
<1>1. /\ record.status \in Done \cup {"absent"} /\ moving' = TRUE
      /\ UNCHANGED <<record, marker, lock, at, pos, root, place, remote, target, staged, late,
                     seen, meddled>>
  BY DEF CheckMove, Movable, work, local, owner
<1>2. TypeOK' /\ RecordFits' /\ FilesFit' /\ StopsSoon'
  BY <1>1, RecordStays, FilesStay DEF IInv, TypeOK, StopsSoon
<1>3. ASSUME NEW p \in Procs PROVE HolderFits(p)'
  <2>1. HolderFits(p) /\ at[p] \notin Collecting
    BY <1>1 DEF IInv, HoldersFit, HolderFits, Done
  <2> QED BY <1>1, <2>1 DEF HolderFits
<1> QED BY <1>2, <1>3 DEF IInv, HoldersFit

LEMMA MoveStep == IInv /\ Move => IInv'
<1> SUFFICES ASSUME IInv, Move PROVE IInv'
  OBVIOUS
<1>1. /\ moving /\ moving' = FALSE /\ place' \in Names \cup {Gone}
      /\ UNCHANGED <<record, marker, lock, at, pos, root, remote, target, staged, late,
                     seen, meddled>>
  BY DEF Move, work, local, owner
<1>2. TypeOK' /\ RecordFits' /\ FilesFit' /\ StopsSoon'
  BY <1>1, RecordStays, FilesStay DEF IInv, TypeOK, StopsSoon
<1>3. ASSUME NEW p \in Procs PROVE HolderFits(p)'
  <2>1. HolderFits(p) /\ at[p] \notin Collecting
    BY <1>1 DEF IInv, HoldersFit, HolderFits
  <2> QED BY <1>1, <2>1 DEF HolderFits
<1> QED BY <1>2, <1>3 DEF IInv, HoldersFit

LEMMA MeddleStep == \A f \in Files : IInv /\ Meddle(f) => IInv'
<1> SUFFICES ASSUME NEW f \in Files, IInv, Meddle(f) PROVE IInv'
  OBVIOUS
<1>1. PICK now \in {{}} \cup {{<<"owner", v>>} : v \in Versions} :
         /\ target' = [target EXCEPT ![f] = now]
         /\ seen' = IF now = {<<"owner", record.expected[f]>>} THEN seen \cup {f} ELSE seen
  BY Zenon DEF Meddle
<1>2. /\ meddled < MaxMeddling /\ meddled' = meddled + 1
      /\ UNCHANGED <<record, marker, lock, at, pos, root, place, moving, remote, staged, late>>
  BY DEF Meddle, work, project
<1>3. now \in Contents
  BY <1>1 DEF Contents
<1>4. TypeOK'
  BY <1>1, <1>2, <1>3, BoundAssumption DEF IInv, TypeOK
<1>5. RecordFits' /\ StopsSoon'
  BY <1>2, RecordStays DEF IInv, StopsSoon
<1>6. FilesFit'
  <2> SUFFICES ASSUME NEW g \in Files PROVE FileFits(g)'
    BY DEF FilesFit
  <2>1. FileFits(g) /\ UNCHANGED record
    BY <1>2 DEF IInv, FilesFit
  <2>2. CASE g = f
    <3>1. target'[g] = now
      BY <1>1, <2>2 DEF IInv, TypeOK
    <3>2. \A v : now # {<<"collector", v>>}
      <4>1. \A v : {} # {<<"collector", v>>}
        OBVIOUS
      <4>2. "owner" # "collector"
        OBVIOUS
      <4> QED BY <1>1, <4>1, <4>2, ContentsDiffer
    <3>3. \A v : now = {<<"owner", v>>} /\ v = record.expected[g] => g \in seen'
      BY <1>1, <2>2
    <3> QED BY <2>1, <3>1, <3>2, <3>3 DEF FileFits
  <2>3. CASE g # f
    <3>1. target'[g] = target[g] /\ (g \in seen' <=> g \in seen)
      BY <1>1, <2>3 DEF IInv, TypeOK
    <3> QED BY <2>1, <3>1 DEF FileFits
  <2> QED BY <2>2, <2>3
<1>7. ASSUME NEW p \in Procs PROVE HolderFits(p)'
  <2>1. HolderFits(p) /\ seen \subseteq seen'
    BY <1>1 DEF IInv, HoldersFit
  <2> QED BY <1>2, <2>1 DEF HolderFits
<1> QED BY <1>4, <1>5, <1>6, <1>7 DEF IInv, HoldersFit

LEMMA EditStep == \A f \in Files : IInv /\ Edit(f) => IInv'
<1> SUFFICES ASSUME NEW f \in Files, IInv, Edit(f) PROVE IInv'
  OBVIOUS
<1>1. /\ remote[f] < MaxVersion /\ remote' = [remote EXCEPT ![f] = @ + 1]
      /\ UNCHANGED <<record, marker, lock, at, pos, root, place, moving, target, staged, late,
                     seen, meddled>>
  BY DEF Edit, work, project, local, owner
<1>2. /\ remote' \in [Files -> Versions]
      /\ \A g \in Files : remote[g] \in Nat /\ remote[g] <= remote'[g]
  BY <1>1, BoundAssumption DEF IInv, TypeOK, Versions
<1>3. TypeOK'
  BY <1>1, <1>2 DEF IInv, TypeOK
<1>4. RecordFits' /\ FilesFit' /\ StopsSoon'
  BY <1>1, RecordStays, FilesStay DEF IInv, StopsSoon
<1>5. ASSUME NEW p \in Procs PROVE HolderFits(p)'
  <2>1. HolderFits(p)
    BY DEF IInv, HoldersFit
  <2>2. at[p] \in {"place", "fetch", "verify"} =>
           /\ record.expected[pos] <= remote'[pos]
           /\ at[p] = "verify" => staged[pos] <= remote'[pos]
    <3> SUFFICES ASSUME at[p] \in {"place", "fetch", "verify"}
        PROVE  /\ record.expected[pos] <= remote'[pos]
               /\ at[p] = "verify" => staged[pos] <= remote'[pos]
      OBVIOUS
    <3>1. pos \in Files /\ record.status # "absent"
      BY AtFile DEF Collecting, Copying
    <3>2. /\ record.expected[pos] \in Nat /\ remote[pos] \in Nat /\ remote'[pos] \in Nat
          /\ remote[pos] <= remote'[pos] /\ record.expected[pos] <= remote[pos]
      BY <1>2, <2>1, <3>1, VersionsKnown DEF HolderFits, Versions
    <3>3. at[p] = "verify" => staged[pos] \in Nat /\ staged[pos] <= remote[pos]
      BY <2>1 DEF HolderFits, Versions
    <3> QED BY <3>2, <3>3
  <2> QED BY <1>1, <2>1, <2>2 DEF HolderFits
<1> QED BY <1>3, <1>4, <1>5 DEF IInv, HoldersFit
-----------------------------------------------------------------------------
(* The invariant *)

LEMMA InitHolds == Init => IInv
<1> SUFFICES ASSUME Init PROVE IInv
  OBVIOUS
<1>1. NoRecord \in Records
  BY BoundAssumption DEF NoRecord, Records, Statuses
<1>2. TypeOK
  <2>1. 0 \in Versions /\ 0 \in 0 .. N /\ 0 \in 0 .. MaxMeddling
    BY FileAssumption, BoundAssumption DEF Versions
  <2>2. {} \in Contents /\ "idle" \in Points
    BY DEF Contents, Points
  <2> QED BY <1>1, <2>1, <2>2, Rest DEF Init, TypeOK
<1>3. RecordFits /\ FilesFit /\ StopsSoon
  BY DEF Init, NoRecord, RecordFits, FilesFit, FileFits, StopsSoon
<1>4. ASSUME NEW p \in Procs PROVE HolderFits(p)
  BY NoneAssumption DEF Init, HolderFits, Holding, Working, Collecting, Copying, Unpublished
<1> QED BY <1>2, <1>3, <1>4 DEF IInv, HoldersFit

LEMMA StepHolds == IInv /\ [Next]_vars => IInv'
<1> SUFFICES ASSUME IInv, [Next]_vars PROVE IInv'
  OBVIOUS
<1>1. ASSUME NEW p \in Procs, Collect(p) PROVE IInv'
  BY <1>1, ResolveStep, CallFailsStep, StopStep, SkipStep, CheckStep, AdoptStep, StageStep,
     FetchStep, VerifyStep, PublishStep, FinishStep, RefuseStep, CompleteStep DEF Collect
<1>2. ASSUME NEW p \in Procs, Continue(p) PROVE IInv'
  BY <1>1, <1>2, EndProbeStep, FinishCancelStep, RefuseResumeStep, UnmarkStep, RequeueStep,
     StartStep, LoseRaceStep DEF Continue
<1>3. CASE UNCHANGED vars
  BY <1>3 DEF vars, work, project, local, owner, IInv, TypeOK, RecordFits, FilesFit, FileFits,
     HoldersFit, HolderFits, StopsSoon
<1> QED BY <1>2, <1>3, LaunchStep, ProbeStep, AcquireStep, CancelStep, ResumeStep, CrashStep,
        MeddleStep, EditStep, EnqueueStep, LaunchFailsStep, CheckMoveStep, MoveStep DEF Next

LEMMA Invariant == Spec => []IInv
BY InitHolds, StepHolds, PTL DEF Spec

\* Every record, lock, position and file is of its type.
THEOREM TypeCorrect == Spec => []TypeOK
BY Invariant, PTL DEF IInv

\* A worker copies files into the directory the project has at that time, and
\* nobody is about to move it.
THEOREM PublishedInPlace == Spec => []WorksInProject
<1>1. IInv => WorksInProject
  BY DEF IInv, HoldersFit, HolderFits, WorksInProject
<1> QED BY <1>1, Invariant, PTL

\* After a stop at most one more file is published, whoever dies and takes over.
THEOREM OneMoreAtMost == Spec => []StopsSoon
BY Invariant, PTL DEF IInv
-----------------------------------------------------------------------------
(* The collection implements Delivery *)

\* A step that says nothing new of what Delivery sees.
LEMMA Quiet ==
    ASSUME record'.expected = record.expected,
           \A f \in Files : record'.mark[f] = "completed" <=> record.mark[f] = "completed",
           record'.status = "completed" <=> record.status = "completed",
           UNCHANGED <<target, seen>>
    PROVE  UNCHANGED D!vars
BY DEF D!vars

\* A step that saves at most another status, and not that all is complete.
LEMMA QuietStatus ==
    ASSUME IInv, NEW status \in Statuses, status # "completed", record.status # "completed",
           NEW retries, UNCHANGED <<target, seen>>,
           record' = record \/ record' = [record EXCEPT !.status = status]
           \/ record' = [record EXCEPT !.status = status, !.retries = retries]
    PROVE  UNCHANGED D!vars
<1>1. /\ record'.expected = record.expected /\ record'.mark = record.mark
      /\ record'.status = "completed" <=> record.status = "completed"
  BY DEF IInv, TypeOK, Records
<1> QED BY <1>1, Quiet

\* The record says that file f is collected, as it has been.
LEMMA CheckRefines ==
    ASSUME IInv, NEW f \in Files, f \in seen, Recorded(f), UNCHANGED <<target, seen>>
    PROVE  D!Next
<1>1. /\ record'.status = record.status /\ record'.expected = record.expected
      /\ record'.mark[f] = "completed"
      /\ \A g \in Files \ {f} : record'.mark[g] = record.mark[g]
  BY FileRecorded
<1>2. {g \in Files : record'.mark[g] = "completed"}
        = {g \in Files : record.mark[g] = "completed"} \cup {f}
  BY <1>1
<1>3. D!Check(f)
  BY <1>1, <1>2 DEF D!Check
<1> QED BY <1>3 DEF D!Next

LEMMA AdoptRefines == \A p \in Procs : IInv /\ Adopt(p) => D!Next
<1> SUFFICES ASSUME NEW p \in Procs, IInv, Adopt(p) PROVE D!Next
  OBVIOUS
<1>1. /\ at[p] = "place" /\ target[pos] # {} /\ Ours(pos) /\ Recorded(pos)
      /\ UNCHANGED <<target, seen>>
  BY DEF Adopt, local, owner
<1>2. pos \in Files /\ record.status # "absent" /\ FileFits(pos)
  BY <1>1, AtFile DEF Collecting, Copying, IInv, FilesFit
<1>3. PICK who \in {"collector", "owner"} : target[pos] = {<<who, record.receipt[pos]>>}
  BY <1>1 DEF Ours
<1>4. target[pos] \in Contents
  BY <1>2 DEF IInv, TypeOK
<1>5. PICK other \in {"collector", "owner"}, v \in Versions : target[pos] = {<<other, v>>}
  BY <1>1, <1>4 DEF Contents
<1>6. who = other /\ record.receipt[pos] = v
  <2>1. {<<who, record.receipt[pos]>>} = {<<other, v>>}
    BY <1>3, <1>5
  <2>2. <<who, record.receipt[pos]>> \in {<<other, v>>}
    BY Zenon, <2>1
  <2> QED BY <2>2
<1>7. v = record.expected[pos]
  BY <1>2, <1>6, VersionsKnown
<1>8. pos \in seen
  BY <1>2, <1>5, <1>7 DEF FileFits
<1> QED BY <1>1, <1>2, <1>8, CheckRefines

LEMMA FinishRefines == \A p \in Procs : IInv /\ Finish(p) => D!Next
<1> SUFFICES ASSUME NEW p \in Procs, IInv, Finish(p) PROVE D!Next
  OBVIOUS
<1>1. at[p] = "finish" /\ Recorded(pos) /\ UNCHANGED <<target, seen>>
  BY DEF Finish, owner
<1>2. pos \in Files /\ pos \in seen
  BY <1>1, AtFile DEF Collecting, Copying, HolderFits
<1> QED BY <1>1, <1>2, CheckRefines

LEMMA PublishRefines == \A p \in Procs : IInv /\ Publish(p) => D!Next
<1> SUFFICES ASSUME NEW p \in Procs, IInv, Publish(p) PROVE D!Next
  OBVIOUS
<1>1. /\ at[p] = "publish" /\ target[pos] = {} /\ UNCHANGED record
      /\ target' = [target EXCEPT ![pos] = {<<"collector", staged[pos]>>}]
      /\ seen' = IF staged[pos] = record.expected[pos] THEN seen \cup {pos} ELSE seen
  BY DEF Publish
<1>2. pos \in Files /\ record.status # "absent" /\ staged[pos] = record.expected[pos]
  BY <1>1, AtFile DEF Collecting, Copying, HolderFits
<1>3. record.expected[pos] # NoVersion
  BY <1>2, VersionsKnown
<1>4. D!Deliver(pos)
  BY <1>1, <1>2, <1>3 DEF D!Deliver
<1> QED BY <1>2, <1>4 DEF D!Next

LEMMA EnqueueRefines == IInv /\ Enqueue => D!Next
<1> SUFFICES ASSUME IInv, Enqueue PROVE D!Next
  OBVIOUS
<1>1. PICK chosen \in [Files -> Versions] :
         record' = [record EXCEPT !.status = "queued", !.expected = chosen]
  BY Zenon DEF Enqueue
<1>2. /\ record.status = "absent" /\ record'.status = "queued" /\ record'.expected = chosen
      /\ record'.mark = record.mark
      /\ UNCHANGED target /\ seen' = {f \in Files : target[f] = {<<"owner", chosen[f]>>}}
  BY <1>1 DEF Enqueue, IInv, TypeOK, Records, local
<1>3. \A f \in Files : record.expected[f] = NoVersion
  BY <1>2 DEF IInv, RecordFits
<1>4. D!Choose(chosen)
  BY <1>2, <1>3 DEF D!Choose
<1> QED BY <1>4 DEF D!Next

LEMMA CompleteRefines == \A p \in Procs : IInv /\ Complete(p) => D!Next
<1> SUFFICES ASSUME NEW p \in Procs, IInv, Complete(p) PROVE D!Next
  OBVIOUS
<1>1. /\ at[p] = "file" /\ pos = N + 1 /\ UNCHANGED <<target, seen>>
      /\ record' = [record EXCEPT !.status = "completed"]
  BY DEF Complete, local, owner
<1>2. \A f \in Files : f < pos => record.mark[f] = "completed"
  BY <1>1, AtFile DEF Collecting
<1>3. {f \in Files : record.mark[f] = "completed"} = Files
  BY <1>1, <1>2, FileAssumption DEF Files
<1>4. record'.status = "completed" /\ record'.expected = record.expected /\ record'.mark = record.mark
  BY <1>1 DEF IInv, TypeOK, Records
<1>5. D!Complete
  BY <1>1, <1>3, <1>4 DEF D!Complete
<1> QED BY <1>5 DEF D!Next

LEMMA MeddleRefines == \A f \in Files : Meddle(f) => D!Next
<1> SUFFICES ASSUME NEW f \in Files, Meddle(f) PROVE D!Next
  OBVIOUS
<1>1. D!Owner(f)
  BY Zenon DEF Meddle, D!Owner
<1> QED BY <1>1 DEF D!Next

LEMMA VerifyRefines == \A p \in Procs : IInv /\ Verify(p) => UNCHANGED D!vars
<1> SUFFICES ASSUME NEW p \in Procs, IInv, Verify(p) PROVE UNCHANGED D!vars
  OBVIOUS
<1>1. /\ at[p] = "verify" /\ UNCHANGED <<target, seen>>
      /\ record' = [record EXCEPT !.mark[pos] = "verified", !.receipt[pos] = staged[pos]]
  BY DEF Verify, local, owner
<1>2. pos \in Files /\ record.mark[pos] # "completed"
  BY <1>1, AtFile DEF Collecting, Copying
<1>3. /\ record'.status = record.status /\ record'.expected = record.expected
      /\ record'.mark = [record.mark EXCEPT ![pos] = "verified"]
  BY <1>1 DEF IInv, TypeOK, Records
<1>4. \A f \in Files : record'.mark[f] = "completed" <=> record.mark[f] = "completed"
  BY <1>2, <1>3, RecordKnown
<1> QED BY <1>1, <1>3, <1>4, Quiet

\* A worker that starts, stops, waits or gives up saves a status.
LEMMA StatusRefines ==
    \A p \in Procs : IInv /\ (Start(p) \/ CallFails(p) \/ Stop(p) \/ Refuse(p) \/ Requeue(p))
                     => UNCHANGED D!vars
<1> SUFFICES ASSUME NEW p \in Procs, IInv,
                    Start(p) \/ CallFails(p) \/ Stop(p) \/ Refuse(p) \/ Requeue(p)
             PROVE  UNCHANGED D!vars
  OBVIOUS
<1>1. record.status # "completed"
  <2>1. at[p] \in Working \/ at[p] = "unmarked"
    BY DEF Start, CallFails, Stop, Refuse, Conflict, Requeue, Working, Collecting, Copying
  <2> QED BY <2>1, Worker DEF Launchable, IInv, HoldersFit, HolderFits
<1>2. UNCHANGED <<target, seen>>
  BY DEF Start, CallFails, Retry, Block, Stop, Refuse, Requeue, local, owner
<1>3. \E status \in {"collecting", "blocked", "retrying", "cancelled", "queued"} :
         \/ record' = [record EXCEPT !.status = status]
         \/ record' = [record EXCEPT !.status = status, !.retries = record.retries + 1]
         \/ record' = [record EXCEPT !.status = status, !.retries = 0]
  BY DEF Start, CallFails, Retry, Block, Stop, Refuse, Requeue
<1> QED BY <1>1, <1>2, <1>3, QuietStatus DEF Statuses, Done, Launchable

\* The last word on a cancellation, or on a launch that failed.
LEMMA OthersRefine ==
    ASSUME IInv, LaunchFails \/ \E p \in Procs : FinishCancel(p)
    PROVE  UNCHANGED D!vars
<1>1. UNCHANGED <<target, seen>>
  BY DEF LaunchFails, FinishCancel, local, owner
<1>2. CASE record' = record
  BY <1>1, <1>2, Quiet
<1>3. CASE record' # record
  <2>1. /\ record.status # "completed"
        /\ \E status \in {"blocked", "cancelled"} : record' = [record EXCEPT !.status = status]
    BY <1>3 DEF LaunchFails, FinishCancel, Done, Launchable
  <2> QED BY <1>1, <2>1, QuietStatus DEF Statuses, Done
<1> QED BY <1>2, <1>3

\* Steps of the lock, of the project, of the cluster and of a worker before it publishes.
LEMMA QuietSteps ==
    ASSUME \/ UNCHANGED vars \/ CheckMove \/ Move \/ \E f \in Files : Edit(f)
           \/ \E p \in Procs : \/ Launch(p) \/ Probe(p) \/ Acquire(p) \/ Cancel(p) \/ Resume(p)
                               \/ Crash(p) \/ EndProbe(p) \/ RefuseResume(p) \/ Unmark(p)
                               \/ LoseRace(p) \/ Resolve(p) \/ Skip(p) \/ Check(p) \/ Stage(p)
                               \/ Fetch(p)
    PROVE  UNCHANGED D!vars
<1>1. UNCHANGED <<record, target, seen>>
  BY DEF vars, CheckMove, Move, Edit, Launch, Probe, Acquire, Cancel, Resume, Crash, EndProbe,
     RefuseResume, Unmark, LoseRace, Resolve, Skip, Check, Stage, Fetch, local, owner
<1> QED BY <1>1 DEF D!vars

LEMMA StepRefines == IInv /\ [Next]_vars => [D!Next]_(D!vars)
<1> SUFFICES ASSUME IInv, [Next]_vars PROVE D!Next \/ UNCHANGED D!vars
  OBVIOUS
<1>1. ASSUME NEW p \in Procs, Collect(p) PROVE D!Next \/ UNCHANGED D!vars
  BY <1>1, QuietSteps, StatusRefines, AdoptRefines, VerifyRefines, PublishRefines, FinishRefines,
     CompleteRefines DEF Collect
<1>2. ASSUME NEW p \in Procs, Continue(p) PROVE D!Next \/ UNCHANGED D!vars
  BY <1>1, <1>2, QuietSteps, StatusRefines, OthersRefine DEF Continue
<1> QED BY <1>2, QuietSteps, OthersRefine, EnqueueRefines, MeddleRefines DEF Next

\* The collection implements Delivery: the owner's files are never replaced, only the
\* chosen versions are put in place, and what is called done and complete has been.
THEOREM ImplementsDelivery == Spec => Delivers
<1>1. Init => D!Init
  BY DEF Init, NoRecord, D!Init
<1> QED BY <1>1, StepRefines, Invariant, PTL DEF Spec, Delivers, D!Spec
-----------------------------------------------------------------------------
(* The projects.  No identity is given twice, and what an operation has    *)
(* begun it says of the project until the index does (Entry); nobody       *)
(* starts an operation while an editor replaces a file.                    *)

EntryTypes == [kind : Projects!Kinds \cup {"none"}, id : Nat, pinned : BOOLEAN]
OpTypes == {Projects!Free} \cup [kind : {"create", "delete", "write"}, name : ProjectNames]
              \cup [kind : {"rename"}, name : ProjectNames, to : ProjectNames]
EditorTypes == {Projects!Closed} \cup [at : {"open", "saving"}, name : ProjectNames, seen : Nat]
ProjectTypes == /\ dir \in [ProjectNames -> 0 .. MaxMade]
                /\ index \in [ProjectNames -> EntryTypes]
                /\ born \in [Projects!Dirs -> EntryTypes]
                /\ ids \in Nat /\ op \in OpTypes
FileTypes == /\ file \in [Projects!Dirs -> Nat] /\ saved \in Nat
             /\ editor \in [Editors -> EditorTypes]

\* Directories are made in turn, each with an identity.
BornFits == /\ \A d \in Projects!Dirs : born[d] # Projects!NoEntry => born[d].id \in 1 .. ids
            /\ \E k \in 0 .. MaxMade : \A d \in Projects!Dirs : born[d] # Projects!NoEntry <=> d <= k

\* No directory has two names.
DirFits == \A n \in ProjectNames : dir[n] # 0 =>
               /\ born[dir[n]] # Projects!NoEntry
               /\ \A m \in ProjectNames : dir[m] = dir[n] => m = n

\* No entry has the identity of another, though it may be left from a project
\* that is gone.
IndexFits == \A n \in ProjectNames :
                 /\ index[n].id <= ids
                 /\ index[n].id # 0 => \A m \in ProjectNames : index[m].id = index[n].id => m = n

OpFits == /\ op.kind = "create" => /\ dir[op.name] # 0
                                   /\ born[dir[op.name]].id = ids
                                   /\ \A n \in ProjectNames : index[n].id < ids
          /\ op.kind = "rename" => op.to # op.name /\ dir[op.name] = 0 /\ dir[op.to] # 0
          /\ op.kind = "delete" => dir[op.name] = 0

\* What is said of a project, by the operation underway or the index.
Entry(n) == IF op.kind = "create" /\ n = op.name THEN born[dir[n]]
            ELSE IF op.kind = "rename" /\ n = op.to THEN index[op.name]
            ELSE index[n]
Kept == \A n \in ProjectNames : dir[n] # 0 /\ dir[n] \notin hurt => Entry(n) = born[dir[n]]

ProjectInv == ProjectTypes /\ BornFits /\ DirFits /\ IndexFits /\ OpFits /\ Kept

\* One editor replaces a file at a time, one that it has read or that was brought
\* meanwhile.
Saving(e) == editor[e].at = "saving"
SavingFits == \A e \in Editors : Saving(e) =>
                  /\ op = Projects!Free
                  /\ \A other \in Editors : Saving(other) => other = e
                  /\ dir[editor[e].name] # 0 =>
                       file[dir[editor[e].name]] \in {0, editor[e].seen} \cup published
FileInv == FileTypes /\ SavingFits
ProjectsInv == ProjectInv /\ FileInv

LEMMA ProjectNumbers == MaxMade \in Nat /\ MaxSaved \in Nat
BY ProjectsConstants DEF Projects!ProjectsAssumption

\* What is in one place of a function that changes in another.
LEMMA ElsewhereSame ==
    ASSUME NEW S, NEW f, f = [s \in S |-> f[s]], NEW i, NEW j, NEW v, i # j, j \in S
    PROVE  [f EXCEPT ![i] = v][j] = f[j]
OBVIOUS

\* How many directories have been made.
LEMMA MadeNumber ==
    ASSUME ProjectInv
    PROVE  /\ Projects!Made \in 0 .. MaxMade
           /\ \A d \in Projects!Dirs : born[d] # Projects!NoEntry <=> d <= Projects!Made
<1>1. PICK k \in 0 .. MaxMade : \A d \in Projects!Dirs : born[d] # Projects!NoEntry <=> d <= k
  BY DEF ProjectInv, BornFits
<1>2. {d \in Projects!Dirs : born[d] # Projects!NoEntry} = 1 .. k
  BY <1>1, ProjectNumbers DEF Projects!Dirs
<1>3. Projects!Cardinality(1 .. k) = k
  <2>1. Cardinality(1 .. k) = k
    BY FS_Interval
  <2>2. Projects!Cardinality(1 .. k) = Cardinality(1 .. k)
    BY DEF Projects!Cardinality, Cardinality
  <2> QED BY <2>1, <2>2
<1>4. Projects!Made = k
  BY <1>2, <1>3 DEF Projects!Made
<1> QED BY <1>1, <1>4

\* A directory that is there has been made, with an identity.
LEMMA DirMade ==
    ASSUME ProjectInv, NEW n \in ProjectNames, dir[n] # 0
    PROVE  /\ dir[n] \in Projects!Dirs /\ born[dir[n]] \in EntryTypes
           /\ born[dir[n]] # Projects!NoEntry /\ born[dir[n]].id \in 1 .. ids
           /\ dir[n] <= Projects!Made
<1>1. dir[n] \in Projects!Dirs
  BY ProjectNumbers DEF ProjectInv, ProjectTypes, Projects!Dirs
<1>2. born[dir[n]] # Projects!NoEntry /\ born[dir[n]] \in EntryTypes
  BY <1>1 DEF ProjectInv, ProjectTypes, DirFits
<1>3. born[dir[n]].id \in 1 .. ids
  BY <1>1, <1>2 DEF ProjectInv, BornFits
<1>4. dir[n] <= Projects!Made
  BY <1>1, <1>2, MadeNumber
<1> QED BY <1>1, <1>2, <1>3, <1>4

\* An operation that ends, or is cut short, or goes on to write, with what it leaves in
\* the index.
LEMMA OpOver ==
    ASSUME ProjectInv, UNCHANGED <<ids, born>>,
           op' = Projects!Free \/ \E n \in ProjectNames : op' = [kind |-> "write", name |-> n],
           dir' \in [ProjectNames -> 0 .. MaxMade], index' \in [ProjectNames -> EntryTypes],
           DirFits', IndexFits',
           \A n \in ProjectNames : dir'[n] # 0 /\ dir'[n] \notin hurt' => index'[n] = born[dir'[n]]
    PROVE  ProjectInv'
<1>1. op'.kind \in {"none", "write"} /\ op' \in OpTypes
  BY DEF Projects!Free, OpTypes
<1>2. ProjectTypes'
  BY <1>1 DEF ProjectInv, ProjectTypes, Projects!Dirs
<1>3. BornFits'
  BY DEF ProjectInv, BornFits, Projects!Dirs
<1>4. OpFits'
  BY <1>1 DEF OpFits
<1>5. Kept'
  BY <1>1 DEF Kept, Entry
<1> QED BY <1>2, <1>3, <1>4, <1>5 DEF ProjectInv

\* What holds while no operation is underway.
LEMMA NoneUnderway ==
    ASSUME ProjectInv, Projects!Unlocked
    PROVE  /\ op = Projects!Free /\ \A e \in Editors : ~Saving(e)
           /\ \A n \in ProjectNames : dir[n] # 0 /\ dir[n] \notin hurt => index[n] = born[dir[n]]
<1>1. op = Projects!Free /\ op.kind = "none"
  BY DEF Projects!Unlocked, Projects!Free
<1>2. \A e \in Editors : ~Saving(e)
  BY DEF Projects!Unlocked, Saving
<1> QED BY <1>1, <1>2 DEF ProjectInv, Kept, Entry

\* An entry changes that nobody vouches for.
LEMMA MigrateKeeps ==
    ASSUME ProjectInv, NEW n \in ProjectNames, Projects!Migrate(n)
    PROVE  ProjectInv'
<1>1. /\ op' = op /\ op = Projects!Free /\ UNCHANGED <<dir, born, hurt>>
      /\ Projects!Unlocked /\ dir[n] # 0 /\ index[n].id = 0
      /\ \/ index' = [index EXCEPT ![n].kind = "vasp"] /\ UNCHANGED ids
         \/ index' = [index EXCEPT ![n].id = ids + 1] /\ ids' = ids + 1
  BY DEF Projects!Migrate, Projects!Known, Projects!Unlocked
<1>2. dir[n] \in hurt
  <2>1. born[dir[n]].id # 0
    BY <1>1, DirMade DEF ProjectInv, ProjectTypes
  <2> QED BY <1>1, <2>1, NoneUnderway
<1>3. index \in [ProjectNames -> EntryTypes] /\ ids \in Nat
  BY DEF ProjectInv, ProjectTypes
<1>4. ids' \in Nat /\ ids' >= ids /\ index' \in [ProjectNames -> EntryTypes]
  BY <1>1, <1>3 DEF EntryTypes, Projects!Kinds
<1>5. \A m \in ProjectNames : m # n => index'[m] = index[m]
  BY <1>1, <1>3
<1>6. index'[n].id = 0 \/ (index'[n].id = ids + 1 /\ ids' = ids + 1)
  BY <1>1, <1>3 DEF EntryTypes
<1>7. ProjectTypes'
  BY <1>1, <1>4 DEF ProjectInv, ProjectTypes, OpTypes, Projects!Dirs
<1>8. BornFits'
  BY <1>1, <1>3, <1>4 DEF ProjectInv, BornFits, Projects!Dirs, ProjectTypes, EntryTypes
<1>9. DirFits'
  BY <1>1 DEF ProjectInv, DirFits
<1>10. IndexFits'
  <2>1. \A m \in ProjectNames : index[m].id \in Nat /\ index[m].id <= ids
    BY <1>3 DEF ProjectInv, IndexFits, EntryTypes
  <2>2. \A m \in ProjectNames : index[m].id # 0 =>
           \A k \in ProjectNames : index[k].id = index[m].id => k = m
    BY DEF ProjectInv, IndexFits
  <2> QED BY <2>1, <2>2, <1>3, <1>4, <1>5, <1>6 DEF IndexFits
<1>11. OpFits'
  BY <1>1 DEF OpFits, Projects!Free
<1>12. Kept'
  BY <1>1, <1>2, <1>5, NoneUnderway DEF Kept, Entry, Projects!Free
<1> QED BY <1>7, <1>8, <1>9, <1>10, <1>11, <1>12 DEF ProjectInv

\* What is set for a project is set in its entry.
LEMMA AmendKeeps ==
    ASSUME ProjectInv, NEW n \in ProjectNames, Projects!Amend(n)
    PROVE  ProjectInv'
<1> DEFINE pin == ~index[n].pinned
<1>1. /\ op' = op /\ op = Projects!Free /\ UNCHANGED <<dir, ids, hurt>>
      /\ Projects!Unlocked /\ dir[n] # 0
      /\ index' = [index EXCEPT ![n].pinned = pin]
      /\ born' = [born EXCEPT ![dir[n]].pinned = index'[n].pinned]
  BY DEF Projects!Amend, Projects!Known, Projects!Unlocked
<1>2. index \in [ProjectNames -> EntryTypes] /\ born \in [Projects!Dirs -> EntryTypes]
  BY DEF ProjectInv, ProjectTypes
<1>3. dir[n] \in Projects!Dirs /\ born[dir[n]].id \in 1 .. ids
  BY <1>1, DirMade
<1>4. /\ \A m \in ProjectNames \ {n} : index'[m] = index[m]
      /\ \A d \in Projects!Dirs \ {dir[n]} : born'[d] = born[d]
  BY <1>1, <1>2
<1>5. /\ index'[n] = [index[n] EXCEPT !.pinned = pin]
      /\ born'[dir[n]] = [born[dir[n]] EXCEPT !.pinned = pin]
  <2>1. index'[n] = [index[n] EXCEPT !.pinned = pin]
    BY <1>1, <1>2
  <2>2. index'[n].pinned = pin
    BY <2>1, <1>2 DEF EntryTypes
  <2> HIDE DEF pin
  <2> QED BY <1>1, <1>2, <1>3, <2>1, <2>2
<1> HIDE DEF pin
<1>6. pin \in BOOLEAN
  BY DEF pin
<1>7. /\ index' \in [ProjectNames -> EntryTypes] /\ born' \in [Projects!Dirs -> EntryTypes]
      /\ \A m \in ProjectNames : index'[m].id = index[m].id
      /\ \A d \in Projects!Dirs : born'[d].id = born[d].id
  BY <1>1, <1>2, <1>3, <1>4, <1>5, <1>6 DEF EntryTypes
<1>8. \A d \in Projects!Dirs : born'[d] # Projects!NoEntry <=> born[d] # Projects!NoEntry
  BY <1>2, <1>3, <1>4, <1>7 DEF Projects!NoEntry, DirFits, ProjectInv, EntryTypes
<1>9. ProjectTypes'
  BY <1>1, <1>7 DEF ProjectInv, ProjectTypes, OpTypes, Projects!Dirs
<1>10. BornFits'
  BY <1>1, <1>7, <1>8 DEF ProjectInv, BornFits, Projects!Dirs
<1>11. DirFits'
  <2>1. \A m \in ProjectNames : dir[m] # 0 => dir[m] \in Projects!Dirs
    BY DirMade
  <2> QED BY <1>1, <1>8, <2>1 DEF ProjectInv, DirFits
<1>12. IndexFits'
  BY <1>1, <1>7 DEF ProjectInv, IndexFits
<1>13. OpFits'
  BY <1>1 DEF OpFits, Projects!Free
<1>14. Kept'
  <2>1. ASSUME NEW m \in ProjectNames, dir[m] # 0, dir[m] \notin hurt
        PROVE  index'[m] = born'[dir[m]]
    <3>1. index[m] = born[dir[m]] /\ dir[m] \in Projects!Dirs
      BY <1>1, <2>1, NoneUnderway, DirMade
    <3>2. m # n => dir[m] # dir[n]
      BY <1>1, <2>1 DEF ProjectInv, DirFits
    <3> QED BY <3>1, <3>2, <1>4, <1>5
  <2> QED BY <1>1, <2>1 DEF Kept, Entry, Projects!Free
<1> QED BY <1>9, <1>10, <1>11, <1>12, <1>13, <1>14 DEF ProjectInv

\* A directory is made, with an identity of its own.
LEMMA CreateKeeps ==
    ASSUME ProjectInv, NEW n \in ProjectNames, NEW kind \in Projects!Kinds, Projects!Create(n, kind)
    PROVE  ProjectInv'
<1> DEFINE new == Projects!Made + 1
           entry == [kind |-> kind, id |-> ids + 1, pinned |-> FALSE]
<1>1. /\ Projects!Unlocked /\ dir[n] = 0 /\ Projects!Made < MaxMade
      /\ dir' = [dir EXCEPT ![n] = new] /\ born' = [born EXCEPT ![new] = entry]
      /\ ids' = ids + 1 /\ op' = [kind |-> "create", name |-> n]
      /\ UNCHANGED <<index, hurt>>
  BY DEF Projects!Create
<1>2. /\ index \in [ProjectNames -> EntryTypes] /\ born \in [Projects!Dirs -> EntryTypes]
      /\ dir \in [ProjectNames -> 0 .. MaxMade] /\ ids \in Nat
  BY DEF ProjectInv, ProjectTypes
<1>3. Projects!Made \in 0 .. MaxMade
      /\ \A d \in Projects!Dirs : born[d] # Projects!NoEntry <=> d <= Projects!Made
  BY MadeNumber
<1>4. new \in Projects!Dirs /\ new \in 1 .. MaxMade
  BY <1>1, <1>3, ProjectNumbers DEF Projects!Dirs
<1>5. entry \in EntryTypes /\ entry.id = ids + 1 /\ entry # Projects!NoEntry
  BY <1>2 DEF EntryTypes, Projects!NoEntry, Projects!Kinds
<1> HIDE DEF entry
<1>6. /\ born'[new] = entry /\ born' \in [Projects!Dirs -> EntryTypes]
      /\ \A d \in Projects!Dirs : d # new => born'[d] = born[d]
  BY <1>1, <1>2, <1>4, <1>5
<1>7. /\ dir'[n] = new /\ dir' \in [ProjectNames -> 0 .. MaxMade]
      /\ \A m \in ProjectNames : m # n => dir'[m] = dir[m] /\ dir[m] < new
  <2>1. \A m \in ProjectNames : dir[m] < new
    BY <1>2, <1>3, DirMade
  <2> QED BY <1>1, <1>2, <1>4, <2>1
<1>8. ProjectTypes'
  <2>1. op' \in OpTypes
    BY <1>1 DEF OpTypes
  <2> QED BY <1>1, <1>2, <1>6, <1>7, <2>1 DEF ProjectTypes, Projects!Dirs
<1>9. BornFits'
  <2>1. \A d \in Projects!Dirs : born'[d] # Projects!NoEntry => born'[d].id \in 1 .. ids'
    BY <1>1, <1>2, <1>5, <1>6 DEF ProjectInv, BornFits
  <2>2. \A d \in Projects!Dirs : born'[d] # Projects!NoEntry <=> d <= new
    BY <1>3, <1>4, <1>5, <1>6 DEF Projects!Dirs
  <2> QED BY <1>4, <2>1, <2>2 DEF BornFits, Projects!Dirs
<1>10. DirFits'
  <2>1. \A m \in ProjectNames : m # n /\ dir[m] # 0 => born'[dir[m]] # Projects!NoEntry
    BY <1>6, <1>7, DirMade
  <2> QED BY <1>4, <1>5, <1>6, <1>7, <2>1 DEF ProjectInv, DirFits
<1>11. IndexFits'
  BY <1>1, <1>2 DEF ProjectInv, IndexFits, EntryTypes
<1>12. OpFits'
  <2>1. \A m \in ProjectNames : index[m].id < ids + 1
    BY <1>2 DEF ProjectInv, IndexFits, EntryTypes
  <2>2. dir'[n] # 0 /\ born'[dir'[n]].id = ids'
    BY <1>1, <1>4, <1>5, <1>6, <1>7
  <2>3. op'.kind = "create" /\ op'.name = n
    BY <1>1
  <2> QED BY <1>1, <2>1, <2>2, <2>3 DEF OpFits
<1>13. Kept'
  <2>1. op'.kind = "create" /\ op'.name = n
    BY <1>1
  <2>2. ASSUME NEW m \in ProjectNames, m # n, dir[m] # 0, dir[m] \notin hurt
        PROVE  index[m] = born'[dir[m]]
    BY <1>1, <1>6, <1>7, <2>2, NoneUnderway, DirMade
  <2> QED BY <1>1, <1>7, <2>1, <2>2 DEF Kept, Entry
<1> QED BY <1>8, <1>9, <1>10, <1>11, <1>12, <1>13 DEF ProjectInv

\* The new project enters the index, or its directory goes again.
LEMMA CreatedKeeps ==
    ASSUME ProjectInv, Projects!Created \/ Projects!NotCreated
    PROVE  ProjectInv'
<1>1. op.kind = "create" /\ op.name \in ProjectNames
  BY DEF ProjectInv, ProjectTypes, OpTypes, Projects!Created, Projects!NotCreated, Projects!Free
<1>2. PICK n \in ProjectNames : n = op.name
  BY <1>1
<1>3. /\ index \in [ProjectNames -> EntryTypes] /\ dir \in [ProjectNames -> 0 .. MaxMade]
      /\ ids \in Nat
  BY DEF ProjectInv, ProjectTypes
<1>4. /\ dir[n] # 0 /\ born[dir[n]].id = ids /\ \A m \in ProjectNames : index[m].id < ids
      /\ born[dir[n]] \in EntryTypes
  BY <1>1, <1>2, DirMade DEF ProjectInv, OpFits
<1>5. \A m \in ProjectNames : m # n /\ dir[m] # 0 /\ dir[m] \notin hurt => index[m] = born[dir[m]]
  BY <1>1, <1>2 DEF ProjectInv, Kept, Entry
<1>6. CASE Projects!Created
  <2>1. /\ index' = [index EXCEPT ![n] = born[dir[n]]] /\ op' = Projects!Free
        /\ UNCHANGED <<dir, ids, born, hurt>>
    BY <1>2, <1>6 DEF Projects!Created
  <2>2. /\ index' \in [ProjectNames -> EntryTypes] /\ index'[n] = born[dir[n]]
        /\ \A m \in ProjectNames : m # n => index'[m] = index[m]
    BY <1>3, <1>4, <2>1
  <2>3. DirFits'
    BY <2>1 DEF ProjectInv, DirFits
  <2>4. IndexFits'
    BY <1>3, <1>4, <2>1, <2>2 DEF ProjectInv, IndexFits, EntryTypes
  <2> QED BY <1>3, <1>5, <2>1, <2>2, <2>3, <2>4, OpOver
<1>7. CASE Projects!NotCreated
  <2>1. /\ dir' = [dir EXCEPT ![n] = 0] /\ op' = Projects!Free
        /\ UNCHANGED <<index, ids, born, hurt>>
    BY <1>2, <1>7 DEF Projects!NotCreated
  <2>2. /\ dir' \in [ProjectNames -> 0 .. MaxMade] /\ dir'[n] = 0
        /\ \A m \in ProjectNames : m # n => dir'[m] = dir[m]
    BY <1>3, <2>1, ProjectNumbers
  <2>3. DirFits'
    BY <2>1, <2>2 DEF ProjectInv, DirFits
  <2>4. IndexFits'
    BY <2>1 DEF ProjectInv, IndexFits
  <2> QED BY <1>3, <1>5, <2>1, <2>2, <2>3, <2>4, OpOver
<1> QED BY <1>6, <1>7

\* The directory gets its new name, or goes.
LEMMA RenameKeeps ==
    ASSUME ProjectInv, NEW n \in ProjectNames, NEW m \in ProjectNames, n # m, Projects!Rename(n, m)
    PROVE  ProjectInv'
<1>1. /\ Projects!Unlocked /\ dir[n] # 0 /\ dir[m] = 0
      /\ dir' = [dir EXCEPT ![n] = 0, ![m] = dir[n]]
      /\ op' = [kind |-> "rename", name |-> n, to |-> m]
      /\ UNCHANGED <<index, ids, born, hurt>>
  BY DEF Projects!Rename, Projects!Known
<1>2. dir \in [ProjectNames -> 0 .. MaxMade] /\ op'.kind = "rename" /\ op'.name = n /\ op'.to = m
  BY <1>1 DEF ProjectInv, ProjectTypes
<1>3. /\ dir'[n] = 0 /\ dir'[m] = dir[n] /\ dir' \in [ProjectNames -> 0 .. MaxMade]
      /\ \A k \in ProjectNames \ {n, m} : dir'[k] = dir[k]
  BY <1>1, <1>2, ProjectNumbers
<1>4. ProjectTypes'
  BY <1>1, <1>3 DEF ProjectInv, ProjectTypes, OpTypes, Projects!Dirs
<1>5. BornFits'
  BY <1>1 DEF ProjectInv, BornFits, Projects!Dirs
<1>6. DirFits'
  BY <1>1, <1>3 DEF ProjectInv, DirFits
<1>7. IndexFits'
  BY <1>1 DEF ProjectInv, IndexFits
<1>8. OpFits'
  BY <1>1, <1>2, <1>3 DEF OpFits
<1>9. Kept'
  <2>1. \A k \in ProjectNames : dir[k] # 0 /\ dir[k] \notin hurt => index[k] = born[dir[k]]
    BY <1>1, NoneUnderway
  <2> QED BY <1>1, <1>2, <1>3, <2>1 DEF Kept, Entry
<1> QED BY <1>4, <1>5, <1>6, <1>7, <1>8, <1>9 DEF ProjectInv

LEMMA DeleteKeeps ==
    ASSUME ProjectInv, NEW n \in ProjectNames, Projects!Delete(n)
    PROVE  ProjectInv'
<1>1. /\ Projects!Unlocked /\ dir' = [dir EXCEPT ![n] = 0]
      /\ op' = [kind |-> "delete", name |-> n]
      /\ UNCHANGED <<index, ids, born, hurt>>
  BY DEF Projects!Delete
<1>2. dir \in [ProjectNames -> 0 .. MaxMade] /\ op'.kind = "delete" /\ op'.name = n
  BY <1>1 DEF ProjectInv, ProjectTypes
<1>3. /\ dir'[n] = 0 /\ dir' \in [ProjectNames -> 0 .. MaxMade]
      /\ \A k \in ProjectNames : k # n => dir'[k] = dir[k]
  BY <1>1, <1>2, ProjectNumbers
<1>4. ProjectTypes'
  BY <1>1, <1>3 DEF ProjectInv, ProjectTypes, OpTypes, Projects!Dirs
<1>5. BornFits'
  BY <1>1 DEF ProjectInv, BornFits, Projects!Dirs
<1>6. DirFits'
  BY <1>1, <1>3 DEF ProjectInv, DirFits
<1>7. IndexFits'
  BY <1>1 DEF ProjectInv, IndexFits
<1>8. OpFits'
  BY <1>1, <1>2, <1>3 DEF OpFits
<1>9. Kept'
  <2>1. \A k \in ProjectNames : dir[k] # 0 /\ dir[k] \notin hurt => index[k] = born[dir[k]]
    BY <1>1, NoneUnderway
  <2> QED BY <1>1, <1>2, <1>3, <2>1 DEF Kept, Entry
<1> QED BY <1>4, <1>5, <1>6, <1>7, <1>8, <1>9 DEF ProjectInv

\* The index follows.
LEMMA RenamedKeeps == ASSUME ProjectInv, Projects!Renamed PROVE ProjectInv'
<1>1. op.kind = "rename" /\ op.name \in ProjectNames /\ op.to \in ProjectNames
  BY DEF ProjectInv, ProjectTypes, OpTypes, Projects!Renamed, Projects!Free
<1>2. PICK n \in ProjectNames, m \in ProjectNames : n = op.name /\ m = op.to
  BY <1>1
<1>3. n # m /\ dir[n] = 0 /\ dir[m] # 0
  BY <1>1, <1>2 DEF ProjectInv, OpFits
<1>4. /\ \A k \in ProjectNames : k # m /\ dir[k] # 0 /\ dir[k] \notin hurt => index[k] = born[dir[k]]
      /\ dir[m] \notin hurt => index[n] = born[dir[m]]
  BY <1>1, <1>2, <1>3 DEF ProjectInv, Kept, Entry
<1>5. index \in [ProjectNames -> EntryTypes] /\ dir \in [ProjectNames -> 0 .. MaxMade] /\ ids \in Nat
  BY DEF ProjectInv, ProjectTypes
<1>6. /\ index' = [index EXCEPT ![n] = Projects!NoEntry, ![m] = index[n]]
      /\ op' \in {Projects!Free, [kind |-> "write", name |-> m]}
      /\ UNCHANGED <<dir, ids, born, hurt>>
  BY <1>2 DEF Projects!Renamed, Projects!Moved
<1>7. Projects!NoEntry \in EntryTypes /\ Projects!NoEntry.id = 0
  BY DEF Projects!NoEntry, EntryTypes
<1>8. /\ index' \in [ProjectNames -> EntryTypes]
      /\ index'[n] = Projects!NoEntry /\ index'[m] = index[n]
      /\ \A k \in ProjectNames \ {n, m} : index'[k] = index[k]
  BY <1>3, <1>5, <1>6, <1>7
<1>9. DirFits'
  BY <1>6 DEF ProjectInv, DirFits
<1>10. IndexFits'
  <2>1. \A k \in ProjectNames : index'[k].id <= ids'
    BY <1>5, <1>6, <1>7, <1>8 DEF ProjectInv, IndexFits
  <2>2. ASSUME NEW k \in ProjectNames, NEW l \in ProjectNames, index'[k].id # 0,
               index'[l].id = index'[k].id
        PROVE  l = k
    <3>1. k # n /\ l # n
      BY <1>7, <1>8, <2>2
    <3>2. \A i, j \in ProjectNames : index[i].id # 0 /\ index[j].id = index[i].id => j = i
      BY DEF ProjectInv, IndexFits
    <3> QED BY <1>8, <2>2, <3>1, <3>2
  <2> QED BY <2>1, <2>2 DEF IndexFits
<1>11. \A k \in ProjectNames : dir'[k] # 0 /\ dir'[k] \notin hurt' => index'[k] = born[dir'[k]]
  BY <1>3, <1>4, <1>6, <1>8
<1> QED BY <1>5, <1>6, <1>8, <1>9, <1>10, <1>11, OpOver

LEMMA DeletedKeeps == ASSUME ProjectInv, Projects!Deleted PROVE ProjectInv'
<1>1. op.kind = "delete" /\ op.name \in ProjectNames
  BY DEF ProjectInv, ProjectTypes, OpTypes, Projects!Deleted, Projects!Free
<1>2. PICK n \in ProjectNames : n = op.name
  BY <1>1
<1>3. /\ dir[n] = 0
      /\ \A k \in ProjectNames : dir[k] # 0 /\ dir[k] \notin hurt => index[k] = born[dir[k]]
  BY <1>1, <1>2 DEF ProjectInv, OpFits, Kept, Entry
<1>4. index \in [ProjectNames -> EntryTypes] /\ dir \in [ProjectNames -> 0 .. MaxMade] /\ ids \in Nat
  BY DEF ProjectInv, ProjectTypes
<1>5. /\ index' = [index EXCEPT ![n] = Projects!NoEntry] /\ op' = Projects!Free
      /\ UNCHANGED <<dir, ids, born, hurt>>
  BY <1>2 DEF Projects!Deleted
<1>6. Projects!NoEntry \in EntryTypes /\ Projects!NoEntry.id = 0
  BY DEF Projects!NoEntry, EntryTypes
<1>7. /\ index' \in [ProjectNames -> EntryTypes] /\ index'[n] = Projects!NoEntry
      /\ \A k \in ProjectNames : k # n => index'[k] = index[k]
  BY <1>4, <1>5, <1>6
<1>8. DirFits'
  BY <1>5 DEF ProjectInv, DirFits
<1>9. IndexFits'
  BY <1>4, <1>5, <1>6, <1>7 DEF ProjectInv, IndexFits
<1> QED BY <1>3, <1>4, <1>5, <1>7, <1>8, <1>9, OpOver

\* An operation is cut short: of its directory nothing more is promised.
LEMMA CrashKeeps == ASSUME ProjectInv, Projects!Crash PROVE ProjectInv'
<1>1. /\ op # Projects!Free /\ op' = Projects!Free /\ UNCHANGED <<dir, index, ids, born>>
      /\ op.kind = "create" => hurt' = hurt \cup {dir[op.name]}
      /\ op.kind = "rename" => hurt' = hurt \cup {dir[op.to]}
      /\ op.kind \in {"delete", "write"} => hurt' = hurt
  BY DEF Projects!Crash
<1>2. op.kind \in {"create", "rename", "delete", "write"}
  BY <1>1 DEF ProjectInv, ProjectTypes, OpTypes
<1>3. \A k \in ProjectNames : dir[k] # 0 /\ dir[k] \notin hurt' => index[k] = born[dir[k]]
  BY <1>1, <1>2 DEF ProjectInv, Kept, Entry
<1>4. DirFits' /\ IndexFits'
  BY <1>1 DEF ProjectInv, DirFits, IndexFits
<1> QED BY <1>1, <1>3, <1>4, OpOver DEF ProjectInv, ProjectTypes

\* An operation on projects leaves the files alone, and none begins or goes on
\* while an editor replaces one.
LEMMA UnheldFilesStay ==
    ASSUME FileInv, UNCHANGED <<file, saved, published, editor>>,
           Projects!Unlocked \/ op # Projects!Free
    PROVE  FileInv'
<1>1. \A e \in Editors : ~Saving(e)
  BY DEF FileInv, SavingFits, Projects!Unlocked, Saving
<1>2. \A e \in Editors : ~Saving(e)'
  BY <1>1 DEF Saving
<1> QED BY <1>2 DEF FileInv, FileTypes, SavingFits, Projects!Dirs

LEMMA OpenKeeps ==
    ASSUME ProjectInv, FileInv, NEW e \in Editors, NEW n \in ProjectNames, Projects!Open(e, n)
    PROVE  FileInv'
<1>1. /\ Projects!Unlocked /\ dir[n] # 0
      /\ editor' = [editor EXCEPT ![e] = [at |-> "open", name |-> n, seen |-> file[dir[n]]]]
      /\ UNCHANGED <<dir, op, file, saved, published>>
  BY DEF Projects!Open, Projects!Known, Projects!projects, Projects!contents
<1>2. file[dir[n]] \in Nat
  BY <1>1, DirMade DEF FileInv, FileTypes
<1>3. [at |-> "open", name |-> n, seen |-> file[dir[n]]] \in EditorTypes
  BY <1>2 DEF EditorTypes
<1>4. \A other \in Editors : ~Saving(other)
  BY <1>1 DEF Projects!Unlocked, Saving
<1>5. \A other \in Editors : ~Saving(other)'
  BY <1>1, <1>4 DEF FileInv, FileTypes, Saving
<1> QED BY <1>1, <1>3, <1>5 DEF FileInv, FileTypes, SavingFits, Projects!Dirs

\* An editor is about to replace what it has read, or what is not there.
LEMMA CheckKeeps ==
    ASSUME ProjectInv, FileInv, NEW e \in Editors, Projects!Check(e)
    PROVE  FileInv'
<1> DEFINE now == file[dir[editor[e].name]]
           read == editor[e].seen
<1>1. /\ Projects!Unlocked /\ op = Projects!Free /\ editor[e].at = "open"
      /\ UNCHANGED <<dir, op, file, saved, published>>
      /\ now = 0 \/ now = read
      /\ editor' = [editor EXCEPT ![e].at = "saving"]
  BY DEF Projects!Check, Projects!Unlocked, Projects!Unchanged, Projects!Importable,
         Projects!projects, Projects!contents
<1>2. \A other \in Editors : ~Saving(other)
  BY <1>1 DEF Projects!Unlocked, Saving
<1>3. editor \in [Editors -> EditorTypes]
  BY DEF FileInv, FileTypes
<1>4. editor[e] \in [at : {"open", "saving"}, name : ProjectNames, seen : Nat]
  BY <1>1, <1>3 DEF EditorTypes, Projects!Closed
<1>5. /\ editor'[e] \in [at : {"open", "saving"}, name : ProjectNames, seen : Nat]
      /\ editor'[e].name = editor[e].name /\ editor'[e].seen = read
  BY <1>1, <1>3, <1>4
<1>6. editor' \in [Editors -> EditorTypes]
  BY <1>1, <1>3, <1>5 DEF EditorTypes
<1>7. \A other \in Editors : Saving(other)' => other = e
  BY <1>1, <1>2, <1>3 DEF Saving
<1>8. SavingFits'
  BY <1>1, <1>5, <1>7 DEF SavingFits
<1> QED BY <1>1, <1>6, <1>8 DEF FileInv, FileTypes, Projects!Dirs

LEMMA ReplaceKeeps ==
    ASSUME ProjectInv, FileInv, NEW e \in Editors, Projects!Replace(e)
    PROVE  FileInv'
<1>1. /\ Saving(e) /\ saved' = saved + 1
      /\ file' = [file EXCEPT ![dir[editor[e].name]] = saved + 1]
      /\ editor' = [editor EXCEPT ![e] = [@ EXCEPT !.at = "open", !.seen = saved + 1]]
      /\ UNCHANGED <<dir, op, published>>
  BY DEF Projects!Replace, Saving, Projects!projects
<1>2. editor' \in [Editors -> EditorTypes] /\ saved' \in Nat
  <2>1. editor \in [Editors -> EditorTypes] /\ saved \in Nat
    BY DEF FileInv, FileTypes
  <2>2. editor[e] \in [at : {"open", "saving"}, name : ProjectNames, seen : Nat]
    BY <1>1, <2>1 DEF EditorTypes, Projects!Closed, Saving
  <2>3. editor'[e] = [editor[e] EXCEPT !.at = "open", !.seen = saved + 1]
    BY <1>1, <2>1
  <2>4. editor'[e] \in [at : {"open", "saving"}, name : ProjectNames, seen : Nat]
    <3> DEFINE before == editor[e]
    <3>1. before \in [at : {"open", "saving"}, name : ProjectNames, seen : Nat] /\ saved + 1 \in Nat
      BY <2>1, <2>2
    <3>2. editor'[e] = [before EXCEPT !.at = "open", !.seen = saved + 1]
      BY <2>3
    <3> HIDE DEF before
    <3> QED BY <3>1, <3>2
  <2> QED BY <1>1, <2>1, <2>4 DEF EditorTypes
<1>3. file' \in [Projects!Dirs -> Nat]
  BY <1>1, <1>2 DEF FileInv, FileTypes
<1>4. \A other \in Editors : ~Saving(other)'
  BY <1>1 DEF FileInv, FileTypes, SavingFits, Saving
<1> QED BY <1>2, <1>3, <1>4 DEF FileInv, FileTypes, SavingFits, Projects!Dirs

\* What a worker brings meanwhile may be replaced.
LEMMA PublishKeeps ==
    ASSUME ProjectInv, FileInv, NEW n \in ProjectNames, Projects!Publish(n)
    PROVE  FileInv'
<1>1. /\ dir[n] # 0 /\ file[dir[n]] = 0 /\ saved' = saved + 1
      /\ file' = [file EXCEPT ![dir[n]] = saved + 1]
      /\ published' = published \cup {saved + 1}
      /\ UNCHANGED <<dir, op, editor>>
  BY DEF Projects!Publish, Projects!projects
<1>2. dir[n] \in Projects!Dirs /\ file \in [Projects!Dirs -> Nat] /\ saved' \in Nat
  BY <1>1, DirMade DEF FileInv, FileTypes
<1>3. /\ file' \in [Projects!Dirs -> Nat] /\ file'[dir[n]] \in published'
      /\ \A d \in Projects!Dirs : d # dir[n] => file'[d] = file[d]
  BY <1>1, <1>2
<1>4. ASSUME NEW e \in Editors, Saving(e)', dir'[editor'[e].name] # 0
      PROVE  file'[dir'[editor'[e].name]] \in {0, editor'[e].seen} \cup published'
  <2>1. /\ editor[e].name \in ProjectNames /\ Saving(e)
        /\ file[dir[editor[e].name]] \in {0, editor[e].seen} \cup published
    BY <1>1, <1>4 DEF FileInv, FileTypes, SavingFits, EditorTypes, Saving, Projects!Closed
  <2>2. dir[editor[e].name] \in Projects!Dirs
    BY <1>1, <1>4, <2>1, DirMade
  <2> QED BY <1>1, <1>3, <2>1, <2>2
<1>5. SavingFits'
  BY <1>1, <1>4 DEF FileInv, SavingFits, Saving
<1> QED BY <1>1, <1>2, <1>3, <1>5 DEF FileInv, FileTypes, Projects!Dirs

\* An operation that only writes a file begins.
LEMMA OverwriteKeeps ==
    ASSUME ProjectInv, NEW n \in ProjectNames, Projects!Overwrite(n)
    PROVE  ProjectInv'
<1>1. /\ Projects!Unlocked /\ op' = [kind |-> "write", name |-> n]
      /\ UNCHANGED <<dir, index, ids, born, hurt>>
  BY DEF Projects!Overwrite, Projects!projects
<1>2. \A k \in ProjectNames : dir'[k] # 0 /\ dir'[k] \notin hurt' => index'[k] = born[dir'[k]]
  BY <1>1, NoneUnderway
<1> QED BY <1>1, <1>2, OpOver DEF ProjectInv, ProjectTypes, DirFits, IndexFits

\* And ends; no editor was at a file.
LEMMA OverwrittenKeeps ==
    ASSUME ProjectInv, FileInv, Projects!Overwritten
    PROVE  ProjectInv' /\ FileInv'
<1>1. /\ op.kind = "write" /\ op # Projects!Free /\ op' = Projects!Free /\ saved' = saved + 1
      /\ file' = [file EXCEPT ![dir[op.name]] = saved + 1]
      /\ UNCHANGED <<dir, index, ids, born, hurt, published, editor>>
  BY DEF Projects!Overwritten, Projects!projects, Projects!Free
<1>2. \A k \in ProjectNames : dir'[k] # 0 /\ dir'[k] \notin hurt' => index'[k] = born[dir'[k]]
  BY <1>1 DEF ProjectInv, Kept, Entry
<1>3. ProjectInv'
  BY <1>1, <1>2, OpOver DEF ProjectInv, ProjectTypes, DirFits, IndexFits
<1>4. \A e \in Editors : ~Saving(e)'
  BY <1>1 DEF FileInv, SavingFits, Saving
<1>5. saved' \in Nat /\ file' \in [Projects!Dirs -> Nat]
  <2>1. saved + 1 \in Nat /\ file \in [Projects!Dirs -> Nat]
    BY DEF FileInv, FileTypes
  <2> QED BY <1>1, <2>1
<1> QED BY <1>1, <1>3, <1>4, <1>5 DEF FileInv, FileTypes, SavingFits, Projects!Dirs

LEMMA ProjectsInitial == ASSUME Projects!Init PROVE ProjectsInv
<1> USE ProjectNumbers
<1>1. op.kind = "none"
  BY DEF Projects!Init, Projects!Free
<1>2. ProjectTypes
  BY DEF Projects!Init, ProjectTypes, OpTypes, EntryTypes, Projects!NoEntry
<1>3. BornFits
  BY DEF Projects!Init, BornFits, Projects!Dirs
<1>4. DirFits /\ IndexFits
  BY DEF Projects!Init, DirFits, IndexFits, Projects!NoEntry
<1>5. OpFits /\ Kept
  BY <1>1 DEF Projects!Init, OpFits, Kept
<1>6. FileInv
  BY DEF Projects!Init, FileInv, FileTypes, SavingFits, EditorTypes, Saving, Projects!Closed
<1> QED BY <1>2, <1>3, <1>4, <1>5, <1>6 DEF ProjectsInv, ProjectInv

LEMMA ProjectsStay ==
    ASSUME ProjectsInv, UNCHANGED projectVars
    PROVE  ProjectsInv'
<1> USE DEF projectVars, ProjectsInv
<1>1. ProjectTypes' /\ BornFits' /\ DirFits'
  BY DEF ProjectInv, ProjectTypes, BornFits, DirFits, Projects!Dirs
<1>2. IndexFits' /\ OpFits' /\ Kept'
  BY DEF ProjectInv, IndexFits, OpFits, Kept, Entry
<1>3. FileInv'
  BY DEF FileInv, FileTypes, SavingFits, Saving, Projects!Dirs
<1> QED BY <1>1, <1>2, <1>3 DEF ProjectInv

LEMMA FileStepsKeep ==
    ASSUME ProjectsInv, UNCHANGED <<dir, index, ids, born, hurt, op>>, FileInv'
    PROVE  ProjectsInv'
<1>1. ProjectTypes' /\ BornFits' /\ DirFits'
  BY DEF ProjectsInv, ProjectInv, ProjectTypes, BornFits, DirFits, Projects!Dirs
<1>2. IndexFits' /\ OpFits' /\ Kept'
  BY DEF ProjectsInv, ProjectInv, IndexFits, OpFits, Kept, Entry
<1> QED BY <1>1, <1>2 DEF ProjectsInv, ProjectInv

LEMMA ProjectsNext == ASSUME ProjectsInv, Projects!Next PROVE ProjectsInv'
<1> USE DEF ProjectsInv
<1>1. ASSUME NEW n \in ProjectNames, Projects!Migrate(n) PROVE ProjectsInv'
  BY <1>1, MigrateKeeps, UnheldFilesStay DEF Projects!Migrate, Projects!contents
<1>2. ASSUME NEW n \in ProjectNames, Projects!Amend(n) PROVE ProjectsInv'
  BY <1>2, AmendKeeps, UnheldFilesStay DEF Projects!Amend, Projects!contents
<1>3. ASSUME NEW n \in ProjectNames, Projects!Delete(n) PROVE ProjectsInv'
  BY <1>3, DeleteKeeps, UnheldFilesStay DEF Projects!Delete, Projects!contents
<1>4. ASSUME NEW n \in ProjectNames, NEW kind \in Projects!Kinds, Projects!Create(n, kind)
      PROVE  ProjectsInv'
  BY <1>4, CreateKeeps, UnheldFilesStay DEF Projects!Create, Projects!contents
<1>5. ASSUME NEW n \in ProjectNames, NEW m \in ProjectNames \ {n}, Projects!Rename(n, m)
      PROVE  ProjectsInv'
  BY <1>5, RenameKeeps, UnheldFilesStay DEF Projects!Rename, Projects!contents
<1>6. CASE Projects!Created \/ Projects!NotCreated
  BY <1>6, CreatedKeeps, UnheldFilesStay DEF Projects!Created, Projects!NotCreated, Projects!contents, Projects!Free
<1>7. CASE Projects!Renamed
  BY <1>7, RenamedKeeps, UnheldFilesStay DEF Projects!Renamed, Projects!contents, Projects!Free
<1>8. CASE Projects!Deleted
  BY <1>8, DeletedKeeps, UnheldFilesStay DEF Projects!Deleted, Projects!contents, Projects!Free
<1>9. CASE Projects!Crash
  BY <1>9, CrashKeeps, UnheldFilesStay DEF Projects!Crash, Projects!contents
<1>10. ASSUME NEW n \in ProjectNames, NEW e \in Editors, Projects!Open(e, n) PROVE ProjectsInv'
  BY <1>10, OpenKeeps, FileStepsKeep DEF Projects!Open, Projects!projects
<1>11. ASSUME NEW e \in Editors, Projects!Check(e) PROVE ProjectsInv'
  BY <1>11, CheckKeeps, FileStepsKeep DEF Projects!Check, Projects!projects
<1>12. ASSUME NEW e \in Editors, Projects!Replace(e) PROVE ProjectsInv'
  BY <1>12, ReplaceKeeps, FileStepsKeep DEF Projects!Replace, Projects!projects
<1>13. ASSUME NEW n \in ProjectNames, Projects!Publish(n) PROVE ProjectsInv'
  BY <1>13, PublishKeeps, FileStepsKeep DEF Projects!Publish, Projects!projects
<1>14. ASSUME NEW n \in ProjectNames, Projects!Overwrite(n) PROVE ProjectsInv'
  BY <1>14, OverwriteKeeps, UnheldFilesStay DEF Projects!Overwrite, Projects!contents
<1>15. CASE Projects!Overwritten
  BY <1>15, OverwrittenKeeps
<1> QED BY <1>1, <1>2, <1>3, <1>4, <1>5, <1>6, <1>7, <1>8, <1>9, <1>10, <1>11, <1>12, <1>13,
           <1>14, <1>15 DEF Projects!Next

LEMMA ProjectsInductive ==
    ASSUME ProjectsInv, [MCNext]_<<part, vars, projectVars, vaspVars>>
    PROVE  ProjectsInv'
BY ProjectsStay, ProjectsNext DEF MCNext

LEMMA ProjectsInvariant == MCSpec => []ProjectsInv
<1>1. MCInit => ProjectsInv
  BY ProjectsInitial DEF MCInit
<1>2. ProjectsInv /\ [MCNext]_<<part, vars, projectVars, vaspVars>> => ProjectsInv'
  BY ProjectsInductive
<1> QED BY <1>1, <1>2, PTL DEF MCSpec

\* For any names, editors and bounds: no two projects have one identity, and what
\* was not cut short keeps its own (projects.py: create, update, delete, _metadata).
THEOREM ProjectsKeepIdentity == MCSpec => []KeepsIdentity
<1>1. ProjectsInv => KeepsIdentity
  <2> SUFFICES ASSUME ProjectsInv, op = Projects!Free PROVE
        /\ \A n, m \in ProjectNames :
             Projects!Known(n) /\ Projects!Known(m) /\ index[n].id = index[m].id => n = m
        /\ \A n \in ProjectNames : dir[n] # 0 /\ dir[n] \notin hurt => index[n] = born[dir[n]]
    BY DEF KeepsIdentity, Projects!KeepsIdentity
  <2>1. op.kind = "none"
    BY DEF Projects!Free
  <2> QED BY <2>1 DEF ProjectsInv, ProjectInv, IndexFits, Kept, Entry, Projects!Known
<1> QED BY <1>1, ProjectsInvariant, PTL

\* Nor does a save that sends a hash replace what its editor has not read or written;
\* a save without one is an operation of its own (write_file, import_file, update).
THEOREM SavesWhatWasRead == MCSpec => ReplacesWhatWasRead
<1>1. ProjectsInv /\ [MCNext]_<<part, vars, projectVars, vaspVars>> =>
        [\A d \in Projects!Dirs : file[d] # 0 /\ file'[d] # file[d] =>
             \/ file[d] \in published
             \/ \E e \in Editors : /\ editor[e].at = "saving"
                                   /\ editor[e].seen = file[d]
             \/ op.kind = "write" /\ dir[op.name] = d /\ UNCHANGED editor]_(Projects!vars)
  <2>1. SUFFICES ASSUME ProjectsInv, [MCNext]_<<part, vars, projectVars, vaspVars>>, file' # file,
                        NEW d \in Projects!Dirs, file[d] # 0, file'[d] # file[d]
                 PROVE  \/ file[d] \in published
                        \/ \E e \in Editors : editor[e].at = "saving" /\ editor[e].seen = file[d]
                        \/ op.kind = "write" /\ dir[op.name] = d /\ UNCHANGED editor
    OBVIOUS
  <2>2. Projects!Next
    BY <2>1 DEF MCNext, projectVars
  <2>3. file \in [Projects!Dirs -> Nat]
    BY <2>1 DEF ProjectsInv, FileInv, FileTypes
  <2>4. CASE \E n \in ProjectNames : Projects!Publish(n)
    <3>1. PICK n \in ProjectNames : Projects!Publish(n)
      BY <2>4
    <3> QED BY <2>1, <2>3, <3>1 DEF Projects!Publish
  <2>5. CASE \E e \in Editors : Projects!Replace(e)
    <3>1. PICK e \in Editors : Projects!Replace(e)
      BY <2>5
    <3>2. Saving(e) /\ d = dir[editor[e].name]
      BY <2>1, <2>3, <3>1 DEF Projects!Replace, Saving
    <3>3. file[d] \in {0, editor[e].seen} \cup published
      BY <2>1, <3>2, ProjectNumbers DEF ProjectsInv, FileInv, SavingFits, Projects!Dirs
    <3> QED BY <2>1, <3>2, <3>3 DEF Saving
  <2>6. CASE Projects!Overwritten
    BY <2>1, <2>3, <2>6 DEF Projects!Overwritten
  <2> QED BY <2>1, <2>2, <2>4, <2>5, <2>6 DEF Projects!Next, Projects!contents, Projects!Migrate,
        Projects!Amend, Projects!Delete, Projects!Create, Projects!Rename, Projects!Open,
        Projects!Created, Projects!NotCreated, Projects!Renamed, Projects!Deleted,
        Projects!Crash, Projects!Check, Projects!Overwrite
<1> QED BY <1>1, ProjectsInvariant, PTL DEF MCSpec, ReplacesWhatWasRead, Projects!ReplacesWhatWasRead

-------------------------------------------------------------------------------
(* A VASP run and those who read how it goes. *)

VaspTypes == /\ relax \in BOOLEAN /\ running \in BOOLEAN
             /\ oszicar \in Seq(Nat) /\ outcar \in Seq(Vasp!Marks)

\* A row that closes a step has its number, and a step has few rows.
RowsFit ==
    /\ \A i \in Vasp!Ionic(oszicar) :
           oszicar[i] = Vasp!Cardinality({j \in Vasp!Ionic(oszicar) : j <= i})
    /\ \A i \in 0 .. Len(oszicar) - (Nelm + 1) :
           \E j \in i + 1 .. i + Nelm + 1 : j \in Vasp!Ionic(oszicar)

\* OUTCAR is closed at the end, and tells of forces after a step.
MarksFit ==
    /\ "timing" \in Vasp!Range(outcar) => ~running
    /\ "accuracy" \in Vasp!Range(outcar) => Vasp!Ionic(oszicar) # {}

VaspInv == VaspTypes /\ RowsFit /\ MarksFit

\* A nonempty set of positions has a last one.
LEMMA LastPosition ==
    ASSUME NEW n \in Nat, NEW S \in SUBSET (1 .. n), S # {}
    PROVE  \E i \in S : \A j \in S : j <= i
<1> DEFINE T == {k \in 0 .. n : n - k \in S}
<1>1. T \subseteq Nat /\ T # {}
  <2>1. PICK i \in S : TRUE
    OBVIOUS
  <2>2. n - i \in 0 .. n /\ n - (n - i) = i
    OBVIOUS
  <2>3. n - i \in T
    BY <2>2
  <2>4. T \subseteq Nat
    OBVIOUS
  <2> HIDE DEF T
  <2> QED BY <2>3, <2>4
<1>2. PICK k \in T : \A l \in T : <<l, k>> \notin OpToRel(<, Nat)
  <2> HIDE DEF T
  <2> QED BY <1>1, WFMin, NatLessThanWellFounded
<1>3. \A l \in T : k <= l
  <2>1. \A l \in T : ~(l < k)
    BY <1>1, <1>2 DEF OpToRel
  <2> HIDE DEF T
  <2> QED BY <1>1, <2>1
<1>4. n - k \in S
  OBVIOUS
<1>5. ASSUME NEW j \in S PROVE j <= n - k
  <2>1. n - j \in 0 .. n /\ n - (n - j) = j
    OBVIOUS
  <2>2. n - j \in T
    BY <2>1
  <2>3. k <= n - j
    BY <1>3, <2>2
  <2> QED BY <2>3
<1> QED BY <1>4, <1>5

LEMMA VaspNumbers == Nelm \in Nat /\ MaxIonic \in Nat /\ MaxMarks \in Nat /\ Nelm > 0 /\ MaxIonic > 0
BY VaspConstants DEF Vasp!ProgressAssumption

\* The positions of the rows that close a step.
LEMMA IonicRows ==
    ASSUME NEW rows \in Seq(Nat)
    PROVE  /\ Len(rows) \in Nat /\ Vasp!Ionic(rows) \in SUBSET (1 .. Len(rows))
           /\ \A i \in 1 .. Len(rows) : rows[i] \in Nat /\ (i \in Vasp!Ionic(rows) <=> rows[i] # 0)
BY DEF Vasp!Ionic, Vasp!IsIonic

\* Before is the last ionic row before i, or 0; and nothing else is.
LEMMA BeforeIs ==
    ASSUME NEW rows \in Seq(Nat), NEW i \in 1 .. Len(rows) + 1,
           NEW p \in 0 .. i - 1, p = 0 \/ p \in Vasp!Ionic(rows),
           \A j \in Vasp!Ionic(rows) : j < i => j <= p
    PROVE  Vasp!Before(rows, i) = p
<1> DEFINE S == {0} \cup {j \in Vasp!Ionic(rows) : j < i}
<1>1. p \in S /\ \A j \in S : p >= j
  BY IonicRows
<1>2. \A q \in S : (\A j \in S : q >= j) => q = p
  <2>1. S \subseteq Nat
    BY IonicRows
  <2> HIDE DEF S
  <2> QED BY <1>1, <2>1
<1>3. Vasp!Max(S) = p
  <2> HIDE DEF S
  <2> QED BY <1>1, <1>2 DEF Vasp!Max
<1> QED BY <1>3 DEF Vasp!Before

LEMMA BeforeFits ==
    ASSUME NEW rows \in Seq(Nat), NEW i \in 1 .. Len(rows) + 1
    PROVE  /\ Vasp!Before(rows, i) \in 0 .. i - 1
           /\ Vasp!Before(rows, i) = 0 \/ Vasp!Before(rows, i) \in Vasp!Ionic(rows)
           /\ \A j \in Vasp!Ionic(rows) : j < i => j <= Vasp!Before(rows, i)
<1>1. CASE \A j \in Vasp!Ionic(rows) : ~(j < i)
  <2>1. Vasp!Before(rows, i) = 0
    BY <1>1, BeforeIs
  <2> QED BY <1>1, <2>1
<1>2. CASE \E j \in Vasp!Ionic(rows) : j < i
  <2> DEFINE S == {j \in Vasp!Ionic(rows) : j < i}
  <2>1. S \in SUBSET (1 .. Len(rows)) /\ S # {} /\ Len(rows) \in Nat
    BY <1>2, IonicRows
  <2>2. PICK p \in S : \A j \in S : j <= p
    <3> HIDE DEF S
    <3> QED BY <2>1, LastPosition
  <2>3. p \in 0 .. i - 1 /\ p \in Vasp!Ionic(rows)
    BY <2>1
  <2>4. Vasp!Before(rows, i) = p
    BY <2>2, <2>3, BeforeIs
  <2> QED BY <2>2, <2>3, <2>4
<1> QED BY <1>1, <1>2

\* What the end of a file has of its rows.
LEMMA TailFits ==
    ASSUME NEW rows \in Seq(Nat), NEW n \in 1 .. Len(rows)
    PROVE  /\ Vasp!TailOf(rows, n) \in Seq(Nat) /\ Len(Vasp!TailOf(rows, n)) = n
           /\ \A i \in 1 .. n :
                 /\ Vasp!TailOf(rows, n)[i] = rows[Len(rows) - n + i]
                 /\ i \in Vasp!Ionic(Vasp!TailOf(rows, n)) <=> Len(rows) - n + i \in Vasp!Ionic(rows)
<1>1. Len(rows) \in Nat /\ n \in Nat /\ n <= Len(rows)
  OBVIOUS
<1> DEFINE d == Len(rows) - n
<1>2. d \in Nat /\ (IF Len(rows) > n THEN Len(rows) - n + 1 ELSE 1) = d + 1 /\ d + n = Len(rows)
  BY <1>1
<1>3. Vasp!TailOf(rows, n) = SubSeq(rows, d + 1, Len(rows))
  BY <1>2 DEF Vasp!TailOf
<1>4. Len(SubSeq(rows, d + 1, Len(rows))) = n
  BY <1>1, <1>2
<1>5. SubSeq(rows, d + 1, Len(rows)) \in Seq(Nat)
  BY <1>1, <1>2
<1>6. ASSUME NEW i \in 1 .. n PROVE SubSeq(rows, d + 1, Len(rows))[i] = rows[d + i]
  BY <1>1, <1>2
<1> DEFINE T == Vasp!TailOf(rows, n)
<1>7. T \in Seq(Nat) /\ Len(T) = n /\ \A i \in 1 .. n : T[i] = rows[d + i]
  BY <1>3, <1>4, <1>5, <1>6
<1>8. ASSUME NEW i \in 1 .. n PROVE i \in Vasp!Ionic(T) <=> d + i \in Vasp!Ionic(rows)
  <2> HIDE DEF T
  <2>1. d + i \in 1 .. Len(rows)
    BY <1>1, <1>2
  <2>2. T[i] = rows[d + i]
    BY <1>7
  <2> QED BY <1>7, <2>1, <2>2, IonicRows
<1> QED BY <1>7, <1>8

\* The end of a file has the last ionic row of the file, if it begins before it.
LEMMA BeforeInTail ==
    ASSUME NEW rows \in Seq(Nat), NEW n \in 1 .. Len(rows), NEW i \in 1 .. n + 1
    PROVE  LET d == Len(rows) - n
               p == Vasp!Before(rows, d + i)
           IN  Vasp!Before(Vasp!TailOf(rows, n), i) = IF p > d THEN p - d ELSE 0
<1> DEFINE d == Len(rows) - n
           p == Vasp!Before(rows, d + i)
           T == Vasp!TailOf(rows, n)
           q == IF p > d THEN p - d ELSE 0
<1>1. /\ Len(rows) \in Nat /\ n \in Nat /\ d \in Nat /\ d + n = Len(rows)
      /\ i \in Nat /\ d + i \in 1 .. Len(rows) + 1
  OBVIOUS
<1>2. /\ p \in 0 .. d + i - 1 /\ (p = 0 \/ p \in Vasp!Ionic(rows))
      /\ \A j \in Vasp!Ionic(rows) : j < d + i => j <= p
  BY <1>1, BeforeFits
<1>3. /\ T \in Seq(Nat) /\ Len(T) = n
      /\ \A j \in 1 .. n : j \in Vasp!Ionic(T) <=> d + j \in Vasp!Ionic(rows)
  BY TailFits
<1>4. Vasp!Ionic(T) \in SUBSET (1 .. n)
  <2> HIDE DEF T
  <2> QED BY <1>3, IonicRows
<1>5. q \in 0 .. i - 1
  <2> HIDE DEF p, d
  <2> QED BY <1>1, <1>2
<1>6. q = 0 \/ q \in Vasp!Ionic(T)
  <2>1. CASE p > d
    <3>1. p # 0 /\ p \in Vasp!Ionic(rows) /\ p \in 1 .. Len(rows)
      BY <1>1, <1>2, <2>1, IonicRows
    <3>2. p - d \in 1 .. n /\ d + (p - d) = p
      <4> HIDE DEF p, d
      <4> QED BY <1>1, <2>1, <3>1
    <3> HIDE DEF p, d, T
    <3> QED BY <1>3, <2>1, <3>1, <3>2
  <2>2. CASE ~(p > d)
    BY <2>2
  <2> QED BY <2>1, <2>2
<1>7. ASSUME NEW j \in Vasp!Ionic(T), j < i PROVE j <= q
  <2>1. j \in 1 .. n /\ d + j \in Vasp!Ionic(rows)
    BY <1>3, <1>4
  <2>2. d + j < d + i
    BY <1>1, <1>7, <2>1
  <2>3. d + j <= p
    BY <1>2, <2>1, <2>2
  <2> HIDE DEF p, d, T
  <2> QED BY <1>1, <1>2, <2>1, <2>3
<1>8. Vasp!Before(T, i) = q
  <2>1. i \in 1 .. Len(T) + 1
    BY <1>3
  <2> HIDE DEF T, q
  <2> QED BY <1>3, <1>5, <1>6, <1>7, <2>1, BeforeIs
<1> QED BY <1>8

\* What is read of the rows, by the last of them that closes a step.
LEMMA ReadIs ==
    ASSUME NEW rows \in Seq(Nat), NEW last, last = Vasp!Before(rows, Len(rows) + 1)
    PROVE  /\ Vasp!ParseOszicar(rows).steps = Vasp!Ionic(rows)
           /\ Vasp!ParseOszicar(rows).rows = Len(rows) - last
           /\ Vasp!ParseOszicar(rows).last.step = IF last # 0 THEN rows[last] ELSE 0
           /\ Vasp!ParseOszicar(rows).last.electronic =
                  IF last # 0 THEN Vasp!Electronic(rows, last) ELSE 0
           /\ Vasp!ParseOszicar(rows).hits =
                  {i \in Vasp!Ionic(rows) : Vasp!Electronic(rows, i) >= Nelm}
BY DEF Vasp!ParseOszicar

LEMMA LastRow ==
    ASSUME NEW rows \in Seq(Nat), NEW last, last = Vasp!Before(rows, Len(rows) + 1)
    PROVE  /\ last \in 0 .. Len(rows) /\ Len(rows) \in Nat
           /\ last # 0 <=> Vasp!Ionic(rows) # {}
           /\ last # 0 => last \in Vasp!Ionic(rows)
           /\ \A j \in Vasp!Ionic(rows) : j <= last
<1>1. Len(rows) \in Nat /\ Vasp!Ionic(rows) \in SUBSET (1 .. Len(rows))
  BY IonicRows
<1>2. Len(rows) + 1 \in 1 .. Len(rows) + 1
  BY <1>1
<1>3. /\ last \in 0 .. Len(rows) + 1 - 1 /\ (last = 0 \/ last \in Vasp!Ionic(rows))
      /\ \A j \in Vasp!Ionic(rows) : j < Len(rows) + 1 => j <= last
  BY <1>2, BeforeFits
<1>4. \A j \in Vasp!Ionic(rows) : j <= last /\ j > 0
  BY <1>1, <1>3
<1> QED BY <1>1, <1>3, <1>4

\* Whether the last step ran out of iterations.
LEMMA ReachedIs ==
    ASSUME NEW rows \in Seq(Nat), NEW last, last = Vasp!Before(rows, Len(rows) + 1)
    PROVE  /\ Vasp!ReachedNelm(rows) <=> last # 0 /\ Vasp!Electronic(rows, last) >= Nelm
           /\ Vasp!ReachedNelm(rows) => Vasp!EverReachedNelm(rows)
<1>1. Vasp!ReachedNelm(rows) <=> last # 0 /\ Vasp!Electronic(rows, last) >= Nelm
  BY ReadIs, LastRow DEF Vasp!ReachedNelm
<1>2. ASSUME Vasp!ReachedNelm(rows) PROVE Vasp!EverReachedNelm(rows)
  <2>1. last \in Vasp!ParseOszicar(rows).hits
    BY <1>1, <1>2, ReadIs, LastRow
  <2> QED BY <2>1 DEF Vasp!EverReachedNelm
<1> QED BY <1>1, <1>2

\* A step has been closed after the start of the tail: it is the last of the run.
LEMMA StepInTail ==
    ASSUME VaspInv, NEW n \in 1 .. Len(oszicar),
           Vasp!Range(Vasp!TailOf(oszicar, n)) # {0}
    PROVE  /\ Vasp!ParseOszicar(Vasp!TailOf(oszicar, n)).last.step = Vasp!Closed
           /\ Vasp!ParseOszicar(Vasp!TailOf(oszicar, n)).rows = Vasp!OpenRows
<1> DEFINE T == Vasp!TailOf(oszicar, n)
           d == Len(oszicar) - n
           last == Vasp!Before(oszicar, Len(oszicar) + 1)
           tlast == Vasp!Before(T, Len(T) + 1)
<1>1. oszicar \in Seq(Nat) /\ Len(oszicar) \in Nat /\ d \in Nat /\ n \in Nat /\ n > 0 /\ d + n = Len(oszicar)
  BY DEF VaspInv, VaspTypes
<1>2. /\ T \in Seq(Nat) /\ Len(T) = n /\ DOMAIN T = 1 .. n
      /\ \A i \in 1 .. n : /\ T[i] = oszicar[d + i]
                           /\ i \in Vasp!Ionic(T) <=> d + i \in Vasp!Ionic(oszicar)
  BY <1>1, TailFits
<1>3. PICK i \in 1 .. n : T[i] # 0
  <2>1. T[1] \in Vasp!Range(T)
    <3> HIDE DEF T
    <3>1. 1 \in DOMAIN T
      BY <1>1, <1>2
    <3> QED BY <3>1 DEF Vasp!Range
  <2>2. PICK x \in Vasp!Range(T) : x # 0
    BY <2>1
  <2>3. PICK i \in 1 .. n : x = T[i]
    <3> HIDE DEF T
    <3> QED BY <1>2, <2>2 DEF Vasp!Range
  <2> QED BY <2>2, <2>3
<1>4. d + i \in Vasp!Ionic(oszicar)
  <2>1. i \in Vasp!Ionic(T)
    <3> HIDE DEF T
    <3> QED BY <1>2, <1>3, IonicRows
  <2> QED BY <1>2, <2>1
<1>5. /\ last \in 0 .. Len(oszicar) /\ last \in Vasp!Ionic(oszicar) /\ last > d
      /\ \A j \in Vasp!Ionic(oszicar) : j <= last
  <2>1. /\ last \in 0 .. Len(oszicar) /\ (last # 0 => last \in Vasp!Ionic(oszicar))
        /\ \A j \in Vasp!Ionic(oszicar) : j <= last
    BY <1>1, LastRow
  <2>2. d + i <= last
    BY <1>4, <2>1
  <2> HIDE DEF d, last
  <2> QED BY <1>1, <2>1, <2>2
<1>6. tlast = last - d
  <2>1. n + 1 \in 1 .. n + 1 /\ d + (n + 1) = Len(oszicar) + 1
    BY <1>1
  <2>2. Vasp!Before(T, n + 1) = IF Vasp!Before(oszicar, d + (n + 1)) > d
                                THEN Vasp!Before(oszicar, d + (n + 1)) - d ELSE 0
    BY <1>1, <2>1, BeforeInTail
  <2> QED BY <1>2, <1>5, <2>1, <2>2
<1>7. Vasp!ParseOszicar(T).rows = Vasp!OpenRows
  <2>1. Vasp!ParseOszicar(T).rows = n - tlast
    BY <1>2, ReadIs
  <2>2. Vasp!OpenRows = Len(oszicar) - last
    BY <1>1, ReadIs DEF Vasp!OpenRows
  <2> HIDE DEF T, tlast, last
  <2> QED BY <1>1, <1>5, <1>6, <2>1, <2>2
<1>8. oszicar[last] = Vasp!Closed
  <2>1. oszicar[last] = Vasp!Cardinality({j \in Vasp!Ionic(oszicar) : j <= last})
    BY <1>5 DEF VaspInv, RowsFit
  <2>2. {j \in Vasp!Ionic(oszicar) : j <= last} = Vasp!Ionic(oszicar)
    BY <1>5
  <2> QED BY <2>1, <2>2 DEF Vasp!Closed
<1>9. Vasp!ParseOszicar(T).last.step = oszicar[last]
  <2>1. tlast # 0 /\ tlast \in 1 .. n /\ d + tlast = last
    <3> HIDE DEF T, tlast, last, d
    <3> QED BY <1>1, <1>5, <1>6
  <2>2. Vasp!ParseOszicar(T).last.step = T[tlast]
    BY <1>2, <2>1, ReadIs
  <2> QED BY <1>2, <2>1, <2>2
<1> QED BY <1>7, <1>8, <1>9

\* A tail of more than two full steps tells whether the last step ran out.
LEMMA ReachedInTail ==
    ASSUME VaspInv, NEW n \in 1 .. Len(oszicar), n > 2 * Nelm
    PROVE  /\ Vasp!Ionic(oszicar) # {} /\ Vasp!Ionic(Vasp!TailOf(oszicar, n)) # {}
           /\ Vasp!ReachedNelm(Vasp!TailOf(oszicar, n)) <=> Vasp!ReachedNelm(oszicar)
<1> DEFINE T == Vasp!TailOf(oszicar, n)
           d == Len(oszicar) - n
           last == Vasp!Before(oszicar, Len(oszicar) + 1)
           tlast == Vasp!Before(T, Len(T) + 1)
<1>1. /\ oszicar \in Seq(Nat) /\ Len(oszicar) \in Nat /\ d \in Nat /\ n \in Nat /\ d + n = Len(oszicar)
      /\ Nelm \in Nat /\ Nelm > 0
  BY VaspNumbers DEF VaspInv, VaspTypes
<1>2. T \in Seq(Nat) /\ Len(T) = n
  BY <1>1, TailFits
<1>3. PICK j \in Vasp!Ionic(oszicar) : j >= Len(oszicar) - Nelm
  <2>1. Len(oszicar) - (Nelm + 1) \in 0 .. Len(oszicar) - (Nelm + 1)
    BY <1>1
  <2>2. PICK j \in Len(oszicar) - (Nelm + 1) + 1 .. Len(oszicar) - (Nelm + 1) + Nelm + 1 :
            j \in Vasp!Ionic(oszicar)
    BY <2>1 DEF VaspInv, RowsFit
  <2> QED BY <1>1, <2>2
<1>4. /\ last \in 1 .. Len(oszicar) /\ last \in Vasp!Ionic(oszicar) /\ last - d > Nelm
      /\ \A k \in Vasp!Ionic(oszicar) : k <= last
  <2>1. /\ last \in 0 .. Len(oszicar) /\ (last # 0 => last \in Vasp!Ionic(oszicar))
        /\ \A k \in Vasp!Ionic(oszicar) : k <= last
    BY <1>1, LastRow
  <2>2. last >= j /\ j \in Nat
    BY <1>1, <1>3, <2>1, IonicRows
  <2> HIDE DEF last, d
  <2>3. j - d >= n - Nelm
    BY <1>1, <1>3, <2>2
  <2>4. n - Nelm > Nelm
    BY <1>1
  <2>5. last - d > Nelm
    BY <1>1, <2>1, <2>2, <2>3, <2>4
  <2>6. last > 0
    BY <1>1, <2>1, <2>5
  <2> QED BY <1>1, <2>1, <2>5, <2>6
<1>5. tlast = last - d /\ tlast \in 1 .. n /\ tlast # 0
  <2>1. n + 1 \in 1 .. n + 1 /\ d + (n + 1) = Len(oszicar) + 1
    BY <1>1
  <2>2. Vasp!Before(T, n + 1) = IF Vasp!Before(oszicar, d + (n + 1)) > d
                                THEN Vasp!Before(oszicar, d + (n + 1)) - d ELSE 0
    BY <1>1, <2>1, BeforeInTail
  <2>3. last > d
    <3> HIDE DEF last, d
    <3> QED BY <1>1, <1>4
  <2>4. tlast = last - d
    BY <1>2, <2>1, <2>2, <2>3
  <2> HIDE DEF T, tlast, last, d
  <2> QED BY <1>1, <1>4, <2>3, <2>4
<1>6. Vasp!Ionic(oszicar) # {} /\ Vasp!Ionic(T) # {}
  <2>1. Vasp!Ionic(T) # {}
    BY <1>2, <1>5, LastRow
  <2> QED BY <1>4, <2>1
<1> DEFINE p == Vasp!Before(oszicar, last)
           q == Vasp!Before(T, tlast)
<1>7. p \in 0 .. last - 1 /\ q = IF p > d THEN p - d ELSE 0
  <2>1. last \in 1 .. Len(oszicar) + 1 /\ tlast \in 1 .. n + 1 /\ d + tlast = last
    <3> HIDE DEF last, tlast, d, T
    <3> QED BY <1>1, <1>4, <1>5
  <2>2. p \in 0 .. last - 1
    BY <1>1, <2>1, BeforeFits
  <2>3. Vasp!Before(T, tlast) = IF Vasp!Before(oszicar, d + tlast) > d
                                THEN Vasp!Before(oszicar, d + tlast) - d ELSE 0
    BY <1>1, <2>1, BeforeInTail
  <2> QED BY <2>1, <2>2, <2>3
<1>8. tlast - q - 1 >= Nelm <=> last - p - 1 >= Nelm
  <2> HIDE DEF T, d, last, tlast, p, q
  <2>1. CASE p > d
    BY <1>1, <1>4, <1>5, <1>7, <2>1
  <2>2. CASE ~(p > d)
    BY <1>1, <1>4, <1>5, <1>7, <2>2
  <2> QED BY <2>1, <2>2
<1>9. Vasp!ReachedNelm(T) <=> Vasp!ReachedNelm(oszicar)
  <2>1. Vasp!ReachedNelm(T) <=> tlast # 0 /\ tlast - q - 1 >= Nelm
    <3>1. Vasp!ReachedNelm(T) <=> tlast # 0 /\ Vasp!Electronic(T, tlast) >= Nelm
      BY <1>2, ReachedIs
    <3> QED BY <3>1 DEF Vasp!Electronic
  <2>2. Vasp!ReachedNelm(oszicar) <=> last # 0 /\ last - p - 1 >= Nelm
    <3>1. Vasp!ReachedNelm(oszicar) <=> last # 0 /\ Vasp!Electronic(oszicar, last) >= Nelm
      BY <1>1, ReachedIs
    <3> QED BY <3>1 DEF Vasp!Electronic
  <2>3. last # 0
    BY <1>1, <1>4
  <2> QED BY <1>5, <1>8, <2>1, <2>2, <2>3
<1> QED BY <1>6, <1>9

\* Two readings in which a step has closed lead to the same verdict, if they agree on the
\* iterations.
LEMMA VerdictSame ==
    ASSUME NEW rows \in Seq(Nat), NEW others \in Seq(Nat), NEW marks, NEW known, NEW reached,
           Vasp!Ionic(rows) # {}, Vasp!Ionic(others) # {}
    PROVE  Vasp!Verdict(rows, marks, reached, known) = Vasp!Verdict(others, marks, reached, known)
<1>1. Vasp!ParseOszicar(rows).steps # {} /\ Vasp!ParseOszicar(others).steps # {}
  BY ReadIs
<1> QED BY <1>1 DEF Vasp!Verdict

\* What converged means.
LEMMA ConvergedIs ==
    ASSUME NEW rows \in Seq(Nat), NEW marks, NEW reached \in BOOLEAN, NEW known
    PROVE  Vasp!Verdict(rows, marks, reached, known).converged <=>
               /\ ~reached /\ Vasp!Range(marks) \cap (known \cup {"unconverged"}) = {}
               /\ IF relax THEN "accuracy" \in Vasp!Range(marks) ELSE Vasp!Ionic(rows) # {}
<1>1. Vasp!ParseOszicar(rows).steps = Vasp!Ionic(rows)
  BY ReadIs
<1>2. Vasp!Signatures(marks, known) = {} => "unconverged" \notin Vasp!Range(marks)
  BY DEF Vasp!Signatures
<1> DEFINE electronic == ~reached /\ "unconverged" \notin Vasp!Range(marks)
           ionic == IF relax THEN "accuracy" \in Vasp!Range(marks)
                    ELSE Vasp!ParseOszicar(rows).steps # {} /\ electronic
<1>3. Vasp!Verdict(rows, marks, reached, known).converged =
          (ionic /\ electronic /\ Vasp!Signatures(marks, known) = {})
  BY DEF Vasp!Verdict
<1>4. Vasp!Verdict(rows, marks, reached, known).converged <=>
          ionic /\ electronic /\ Vasp!Signatures(marks, known) = {}
  BY <1>3
<1>5. Vasp!Signatures(marks, known) = Vasp!Range(marks) \cap (known \cup {"unconverged"})
  BY DEF Vasp!Signatures
<1> QED BY <1>1, <1>2, <1>4, <1>5

\* The end of OUTCAR has no mark that OUTCAR has not.
LEMMA MarksOfTail ==
    ASSUME VaspTypes, NEW m \in 0 .. Len(outcar)
    PROVE  Vasp!Range(Vasp!TailOf(outcar, m)) \subseteq Vasp!Range(outcar)
<1>1. outcar \in Seq(Vasp!Marks) /\ Len(outcar) \in Nat /\ m \in Nat /\ m <= Len(outcar)
  BY DEF VaspTypes
<1> DEFINE first == IF Len(outcar) > m THEN Len(outcar) - m + 1 ELSE 1
           T == SubSeq(outcar, first, Len(outcar))
<1>2. first \in Nat /\ first > 0
  BY <1>1
<1>3. Vasp!TailOf(outcar, m) = T
  BY DEF Vasp!TailOf
<1>4. ASSUME NEW i \in DOMAIN T PROVE T[i] \in Vasp!Range(outcar)
  <2> HIDE DEF first
  <2>1. /\ i \in 1 .. Len(outcar) - first + 1
        /\ T[i] = outcar[first + i - 1]
    BY <1>1, <1>2
  <2>2. first + i - 1 \in 1 .. Len(outcar)
    BY <1>1, <1>2, <2>1
  <2>3. first + i - 1 \in DOMAIN outcar
    BY <1>1, <2>2
  <2> QED BY <2>1, <2>3 DEF Vasp!Range
<1> HIDE DEF T
<1> QED BY <1>3, <1>4 DEF Vasp!Range

\* The step told is that of the run.
LEMMA InvTellsStep ==
    ASSUME VaspInv, NEW n \in 1 .. Len(oszicar), NEW m \in 0 .. Len(outcar)
    PROVE  Vasp!StepTold(n, m)
<1> DEFINE rows == Vasp!TailOf(oszicar, n)
           marks == Vasp!TailOf(outcar, m)
           read == Vasp!ConsoleReads(oszicar, outcar, n, m)
<1>1. /\ read.step = Vasp!ParseOszicar(rows).last.step
      /\ read.current = Vasp!ParseOszicar(rows).rows
      /\ read.finished = ("timing" \in Vasp!Range(marks))
  BY DEF Vasp!ConsoleReads, Vasp!LiveProgress, Vasp!StepOf
<1>2. Vasp!Range(rows) # {0} => read.step = Vasp!Closed /\ read.current = Vasp!OpenRows
  BY <1>1, StepInTail
<1>3. read.finished => ~running
  <2>1. Vasp!Range(marks) \subseteq Vasp!Range(outcar)
    BY MarksOfTail DEF VaspInv
  <2> HIDE DEF read, marks
  <2> QED BY <1>1, <2>1 DEF VaspInv, MarksFit
<1> HIDE DEF read
<1> QED BY <1>2, <1>3 DEF Vasp!StepTold, read

\* The verdict told is that of the run.
LEMMA InvTellsVerdict ==
    ASSUME VaspInv, NEW n \in 1 .. Len(oszicar), NEW m \in 0 .. Len(outcar)
    PROVE  Vasp!VerdictTold(n, m)
<1> DEFINE rows == Vasp!TailOf(oszicar, n)
           marks == Vasp!TailOf(outcar, m)
           verdict == Vasp!ConsoleReads(oszicar, outcar, n, m).verdict
           gateway == Vasp!GatewayReads(oszicar, outcar, n, m)
<1>1. verdict = Vasp!Verdict(rows, marks, Vasp!ReachedNelm(rows), Vasp!Fatal)
  BY DEF Vasp!ConsoleReads, Vasp!LiveProgress, Vasp!ScientificStatus
<1>2. oszicar \in Seq(Nat) /\ rows \in Seq(Nat)
  BY TailFits DEF VaspInv, VaspTypes
<1>3. ASSUME n > 2 * Nelm PROVE verdict = Vasp!ScientificStatus(oszicar, marks)
  <2> HIDE DEF rows, marks, verdict
  <2>1. /\ Vasp!Ionic(oszicar) # {} /\ Vasp!Ionic(rows) # {}
        /\ Vasp!ReachedNelm(rows) <=> Vasp!ReachedNelm(oszicar)
    BY <1>3, ReachedInTail DEF rows
  <2>2. Vasp!ReachedNelm(rows) = Vasp!ReachedNelm(oszicar)
    BY <2>1 DEF Vasp!ReachedNelm
  <2> DEFINE reached == Vasp!ReachedNelm(oszicar)
  <2>3. Vasp!Verdict(rows, marks, reached, Vasp!Fatal) =
            Vasp!Verdict(oszicar, marks, reached, Vasp!Fatal)
    <3> HIDE DEF reached
    <3> QED BY <1>2, <2>1, VerdictSame
  <2> QED BY <1>1, <2>2, <2>3 DEF Vasp!ScientificStatus
<1>4. ASSUME gateway.converged, ~(Vasp!Range(marks) \cap (Vasp!Fatal \ Vasp!FatalToGateway) # {})
      PROVE  verdict.converged
  <2>1. gateway = Vasp!Verdict(rows, marks, Vasp!EverReachedNelm(rows), Vasp!FatalToGateway)
    BY DEF Vasp!GatewayReads, Vasp!GatewayPayload
  <2>2. Vasp!ReachedNelm(rows) \in BOOLEAN /\ Vasp!EverReachedNelm(rows) \in BOOLEAN
    BY DEF Vasp!ReachedNelm, Vasp!EverReachedNelm
  <2> HIDE DEF rows, marks, verdict, gateway
  <2>3. /\ ~Vasp!EverReachedNelm(rows)
        /\ Vasp!Range(marks) \cap (Vasp!FatalToGateway \cup {"unconverged"}) = {}
        /\ IF relax THEN "accuracy" \in Vasp!Range(marks) ELSE Vasp!Ionic(rows) # {}
    BY <1>2, <1>4, <2>1, <2>2, ConvergedIs
  <2>4. ~Vasp!ReachedNelm(rows)
    BY <1>2, <2>3, ReachedIs
  <2>5. Vasp!Range(marks) \cap (Vasp!Fatal \cup {"unconverged"}) = {}
    BY <1>4, <2>3
  <2> QED BY <1>1, <1>2, <2>2, <2>3, <2>4, <2>5, ConvergedIs
<1>5. (n > 2 * Nelm) => verdict = Vasp!ScientificStatus(oszicar, marks)
  BY <1>3
<1>6. gateway.converged =>
          \/ verdict.converged
          \/ Vasp!Range(marks) \cap (Vasp!Fatal \ Vasp!FatalToGateway) # {}
  BY <1>4
<1> QED BY <1>5, <1>6, Zenon DEF Vasp!VerdictTold

\* What is recorded as completed is.
LEMMA InvCompletedTrue ==
    ASSUME VaspInv PROVE Vasp!CompletedTrue
<1> DEFINE ended == Vasp!Ionic(oszicar)
           last == Vasp!Before(oszicar, Len(oszicar) + 1)
           p == Vasp!Before(oszicar, last)
<1>1. oszicar \in Seq(Nat) /\ Nelm \in Nat /\ Nelm > 0
  BY VaspNumbers DEF VaspInv, VaspTypes
<1> SUFFICES ASSUME Vasp!Conclusion("COMPLETED", Vasp!ScientificStatus(oszicar, outcar)) = "completed"
             PROVE  /\ \E l \in ended : /\ \A i \in ended : i <= l
                                        /\ ({0} \cup ended) \cap (l - Nelm) .. (l - 1) # {}
                    /\ relax => "accuracy" \in Vasp!Range(outcar)
  BY DEF Vasp!CompletedTrue
<1>2. Vasp!Verdict(oszicar, outcar, Vasp!ReachedNelm(oszicar), Vasp!Fatal).converged
  <2>1. Vasp!ScientificStatus(oszicar, outcar).converged
    BY DEF Vasp!Conclusion, Vasp!FailedStates
  <2> QED BY <2>1 DEF Vasp!ScientificStatus
<1>3. Vasp!ReachedNelm(oszicar) \in BOOLEAN
  BY DEF Vasp!ReachedNelm
<1>4. /\ ~Vasp!ReachedNelm(oszicar)
      /\ IF relax THEN "accuracy" \in Vasp!Range(outcar) ELSE ended # {}
  BY <1>1, <1>2, <1>3, ConvergedIs
<1>5. ended # {}
  BY <1>4 DEF VaspInv, MarksFit
<1>6. /\ last \in 1 .. Len(oszicar) /\ Len(oszicar) \in Nat /\ last \in ended
      /\ \A i \in ended : i <= last
  <2>1. /\ last \in 0 .. Len(oszicar) /\ Len(oszicar) \in Nat /\ last # 0 /\ last \in ended
        /\ \A i \in ended : i <= last
    BY <1>1, <1>5, LastRow
  <2> HIDE DEF last, ended
  <2> QED BY <2>1
<1>7. last - p - 1 < Nelm
  <2>1. ~(Vasp!Electronic(oszicar, last) >= Nelm)
    BY <1>1, <1>4, <1>6, ReachedIs
  <2>2. p \in 0 .. last - 1
    BY <1>1, <1>6, BeforeFits
  <2>3. ~(last - p - 1 >= Nelm)
    BY <2>1 DEF Vasp!Electronic
  <2> HIDE DEF last, p
  <2> QED BY <1>1, <1>6, <2>2, <2>3
<1>8. p \in {0} \cup ended /\ p \in (last - Nelm) .. (last - 1)
  <2>1. p \in 0 .. last - 1 /\ (p = 0 \/ p \in ended)
    BY <1>1, <1>6, BeforeFits
  <2>2. p \in (last - Nelm) .. (last - 1)
    <3> HIDE DEF last, p
    <3> QED BY <1>1, <1>6, <1>7, <2>1
  <2> QED BY <2>1, <2>2
<1> HIDE DEF last, p, ended
<1> QED BY <1>4, <1>6, <1>8

LEMMA InvTells == VaspInv => TailsTellTheRun
BY InvTellsStep, InvTellsVerdict, InvCompletedTrue DEF TailsTellTheRun, Vasp!TailsTellTheRun

-----------------------------------------------------------------------------
\* One row more.
LEMMA RowMore ==
    ASSUME NEW rows \in Seq(Nat), NEW row \in Nat
    PROVE  LET more == Append(rows, row) IN
           /\ more \in Seq(Nat) /\ Len(more) = Len(rows) + 1
           /\ more[Len(rows) + 1] = row
           /\ \A i \in 1 .. Len(rows) : more[i] = rows[i]
           /\ Vasp!Ionic(more) = Vasp!Ionic(rows) \cup (IF row # 0 THEN {Len(rows) + 1} ELSE {})
<1> DEFINE more == Append(rows, row)
<1>1. /\ more \in Seq(Nat) /\ Len(more) = Len(rows) + 1 /\ Len(rows) \in Nat
      /\ more[Len(rows) + 1] = row
      /\ \A i \in 1 .. Len(rows) : more[i] = rows[i]
  OBVIOUS
<1> HIDE DEF more
<1>2. /\ Vasp!Ionic(more) \in SUBSET (1 .. Len(rows) + 1)
      /\ \A i \in 1 .. Len(rows) + 1 : i \in Vasp!Ionic(more) <=> more[i] # 0
  BY <1>1, IonicRows
<1>3. /\ Vasp!Ionic(rows) \in SUBSET (1 .. Len(rows))
      /\ \A i \in 1 .. Len(rows) : i \in Vasp!Ionic(rows) <=> rows[i] # 0
  BY IonicRows
<1>4. ASSUME NEW i \in 1 .. Len(rows)
      PROVE  i \in Vasp!Ionic(more) <=> i \in Vasp!Ionic(rows)
  <2>1. i \in 1 .. Len(rows) + 1
    BY <1>1
  <2> QED BY <1>1, <1>2, <1>3, <2>1
<1>5. Len(rows) + 1 \in Vasp!Ionic(more) <=> row # 0
  BY <1>1, <1>2
<1>6. \A i \in 1 .. Len(rows) + 1 : i \in 1 .. Len(rows) \/ i = Len(rows) + 1
  BY <1>1
<1>7. Vasp!Ionic(more) = Vasp!Ionic(rows) \cup (IF row # 0 THEN {Len(rows) + 1} ELSE {})
  BY <1>1, <1>2, <1>3, <1>4, <1>5, <1>6
<1> QED BY <1>1, <1>7 DEF more

LEMMA MarkMore ==
    ASSUME NEW marks \in Seq(Vasp!Marks), NEW mark \in Vasp!Marks
    PROVE  /\ Append(marks, mark) \in Seq(Vasp!Marks)
           /\ Vasp!Range(Append(marks, mark)) = Vasp!Range(marks) \cup {mark}
<1> DEFINE more == Append(marks, mark)
<1>1. /\ more \in Seq(Vasp!Marks) /\ Len(more) = Len(marks) + 1 /\ Len(marks) \in Nat
      /\ more[Len(marks) + 1] = mark /\ DOMAIN more = 1 .. Len(marks) + 1
      /\ DOMAIN marks = 1 .. Len(marks)
      /\ \A i \in 1 .. Len(marks) : more[i] = marks[i]
  OBVIOUS
<1> HIDE DEF more
<1>2. \A i \in 1 .. Len(marks) + 1 : i \in 1 .. Len(marks) \/ i = Len(marks) + 1
  BY <1>1
<1>3. \A i \in 1 .. Len(marks) : i \in 1 .. Len(marks) + 1
  BY <1>1
<1>4. Len(marks) + 1 \in 1 .. Len(marks) + 1
  BY <1>1
<1>5. Vasp!Range(more) = Vasp!Range(marks) \cup {mark}
  BY <1>1, <1>2, <1>3, <1>4 DEF Vasp!Range
<1> QED BY <1>1, <1>5 DEF more

\* The steps closed until a row, counted.
LEMMA StepsCounted ==
    ASSUME NEW rows \in Seq(Nat)
    PROVE  /\ IsFiniteSet(Vasp!Ionic(rows))
           /\ Vasp!Cardinality(Vasp!Ionic(rows)) \in Nat
           /\ Vasp!Cardinality(Vasp!Ionic(rows) \cup {Len(rows) + 1}) =
                  Vasp!Cardinality(Vasp!Ionic(rows)) + 1
<1>1. Len(rows) \in Nat /\ Vasp!Ionic(rows) \in SUBSET (1 .. Len(rows))
  BY IonicRows
<1>2. IsFiniteSet(1 .. Len(rows))
  BY <1>1, FS_Interval
<1>3. IsFiniteSet(Vasp!Ionic(rows))
  BY <1>1, <1>2, FS_Subset
<1>4. Len(rows) + 1 \notin Vasp!Ionic(rows)
  BY <1>1
<1>5. /\ Cardinality(Vasp!Ionic(rows)) \in Nat
      /\ Cardinality(Vasp!Ionic(rows) \cup {Len(rows) + 1}) = Cardinality(Vasp!Ionic(rows)) + 1
  BY <1>3, <1>4, FS_CardinalityType, FS_AddElement
<1>6. ASSUME NEW S PROVE Vasp!Cardinality(S) = Cardinality(S)
  BY DEF Vasp!Cardinality, Cardinality
<1> QED BY <1>3, <1>5, <1>6

\* The row that closes a step gets its number, and the others keep theirs; a row more
\* leaves no step too long.
LEMMA RowsStayFit ==
    ASSUME VaspInv, NEW row \in Nat, oszicar' = Append(oszicar, row),
           row = Vasp!Closed + 1 \/ (row = 0 /\ Vasp!OpenRows < Nelm)
    PROVE  RowsFit'
<1> DEFINE old == Vasp!Ionic(oszicar)
           new == Vasp!Ionic(oszicar')
           len == Len(oszicar)
<1>1. /\ oszicar \in Seq(Nat) /\ len \in Nat /\ old \in SUBSET (1 .. len)
      /\ Nelm \in Nat /\ Nelm > 0
  BY VaspNumbers, IonicRows DEF VaspInv, VaspTypes
<1>2. /\ Len(oszicar') = len + 1 /\ oszicar'[len + 1] = row
      /\ \A i \in 1 .. len : oszicar'[i] = oszicar[i]
      /\ new = old \cup (IF row # 0 THEN {len + 1} ELSE {})
  BY <1>1, RowMore
<1>3. ASSUME NEW i \in old
      PROVE  oszicar'[i] = Vasp!Cardinality({j \in new : j <= i})
  <2>1. oszicar[i] = Vasp!Cardinality({j \in old : j <= i})
    BY DEF VaspInv, RowsFit
  <2>2. ~(len + 1 <= i)
    BY <1>1
  <2>3. {j \in new : j <= i} = {j \in old : j <= i}
    BY <1>2, <2>2
  <2> QED BY <1>1, <1>2, <2>1, <2>3
<1>4. ASSUME row # 0
      PROVE  oszicar'[len + 1] = Vasp!Cardinality({j \in new : j <= len + 1})
  <2>1. row = Vasp!Cardinality(old) + 1
    BY <1>4 DEF Vasp!Closed
  <2>2. new = old \cup {len + 1}
    BY <1>2, <1>4
  <2>3. {j \in new : j <= len + 1} = new
    BY <1>1, <2>2
  <2>4. Vasp!Cardinality(old \cup {len + 1}) = Vasp!Cardinality(old) + 1
    BY <1>1, StepsCounted
  <2> QED BY <1>2, <2>1, <2>2, <2>3, <2>4
<1>5. \A i \in new : oszicar'[i] = Vasp!Cardinality({j \in new : j <= i})
  <2>1. \A i \in new : i \in old \/ (row # 0 /\ i = len + 1)
    BY <1>2
  <2> HIDE DEF new, old, len
  <2> QED BY <1>3, <1>4, <2>1
<1>6. ASSUME NEW i \in 0 .. (len + 1) - (Nelm + 1)
      PROVE  \E j \in i + 1 .. i + Nelm + 1 : j \in new
  <2>1. CASE i <= len - (Nelm + 1)
    <3>1. i \in 0 .. len - (Nelm + 1)
      BY <1>1, <2>1
    <3>2. \E j \in i + 1 .. i + Nelm + 1 : j \in old
      BY <3>1 DEF VaspInv, RowsFit
    <3> QED BY <1>2, <3>2
  <2>2. CASE ~(i <= len - (Nelm + 1))
    <3>1. i \in Nat /\ i = len - Nelm
      BY <1>1, <2>2
    <3>2. CASE row # 0
      <4>1. len + 1 \in i + 1 .. i + Nelm + 1
        BY <1>1, <3>1
      <4>2. len + 1 \in new
        BY <1>2, <3>2
      <4> QED BY <4>1, <4>2
    <3>3. CASE row = 0
      <4> DEFINE last == Vasp!Before(oszicar, Len(oszicar) + 1)
      <4>1. Vasp!OpenRows = len - last /\ last \in 0 .. len /\ (last # 0 => last \in old)
        BY <1>1, ReadIs, LastRow DEF Vasp!OpenRows
      <4>2. Vasp!Closed \in Nat
        BY <1>1, StepsCounted DEF Vasp!Closed
      <4>3. Vasp!OpenRows < Nelm
        BY <3>3, <4>2
      <4>4. last \in i + 1 .. i + Nelm + 1 /\ last # 0
        <5> HIDE DEF last, len
        <5> QED BY <1>1, <3>1, <4>1, <4>3
      <4> QED BY <1>2, <4>1, <4>4
    <3> QED BY <3>2, <3>3
  <2> QED BY <2>1, <2>2
<1> HIDE DEF new, len
<1>7. \A i \in 0 .. Len(oszicar') - (Nelm + 1) : \E j \in i + 1 .. i + Nelm + 1 : j \in new
  BY <1>2, <1>6
<1> QED BY <1>5, <1>7 DEF RowsFit, new

LEMMA VaspInit == Vasp!Init => VaspInv
<1> SUFFICES ASSUME Vasp!Init PROVE VaspInv
  OBVIOUS
<1>1. oszicar = <<>> /\ outcar = <<>> /\ relax \in BOOLEAN /\ running = TRUE
  BY DEF Vasp!Init
<1>2. VaspTypes
  BY <1>1 DEF VaspTypes
<1>3. Vasp!Ionic(oszicar) = {} /\ Len(oszicar) = 0
  BY <1>1 DEF Vasp!Ionic
<1>4. RowsFit
  <2>1. 0 - (Nelm + 1) < 0
    BY VaspNumbers
  <2>2. 0 .. 0 - (Nelm + 1) = {}
    BY VaspNumbers
  <2> QED BY <1>3, <2>2 DEF RowsFit
<1>5. MarksFit
  BY <1>1 DEF MarksFit, Vasp!Range
<1> QED BY <1>2, <1>4, <1>5 DEF VaspInv

\* The rows stay: what is said of them does.
LEMMA RowsStay ==
    ASSUME RowsFit, oszicar' = oszicar PROVE RowsFit'
BY DEF RowsFit

LEMMA VaspSteps == VaspInv /\ [Vasp!Next]_vaspVars => VaspInv'
<1> SUFFICES ASSUME VaspInv, [Vasp!Next]_vaspVars PROVE VaspInv'
  OBVIOUS
<1> USE DEF VaspInv
<1>1. /\ oszicar \in Seq(Nat) /\ outcar \in Seq(Vasp!Marks)
      /\ relax \in BOOLEAN /\ running \in BOOLEAN
      /\ Vasp!Closed \in Nat
  BY StepsCounted DEF VaspTypes, Vasp!Closed
<1>2. CASE Vasp!ElectronicStep
  <2>1. /\ oszicar' = Append(oszicar, 0) /\ UNCHANGED <<relax, outcar, running>>
        /\ Vasp!OpenRows < Nelm
    BY <1>2 DEF Vasp!ElectronicStep
  <2>2. oszicar' \in Seq(Nat) /\ Vasp!Ionic(oszicar') = Vasp!Ionic(oszicar)
    BY <1>1, <2>1, RowMore
  <2>3. VaspTypes'
    BY <1>1, <2>1, <2>2 DEF VaspTypes
  <2>4. RowsFit'
    BY <2>1, RowsStayFit
  <2>5. MarksFit'
    BY <2>1, <2>2 DEF MarksFit
  <2> QED BY <2>3, <2>4, <2>5
<1>3. CASE Vasp!IonicStep
  <2>1. /\ oszicar' = Append(oszicar, Vasp!Closed + 1) /\ UNCHANGED <<relax, running>>
        /\ outcar' = outcar \/ outcar' = Append(outcar, "unconverged")
    BY <1>3 DEF Vasp!IonicStep
  <2>2. Vasp!Closed + 1 \in Nat /\ Vasp!Closed + 1 # 0
    BY <1>1
  <2>3. oszicar' \in Seq(Nat) /\ Vasp!Ionic(oszicar') # {}
    BY <1>1, <2>1, <2>2, RowMore
  <2>4. outcar' \in Seq(Vasp!Marks) /\ Vasp!Range(outcar') \subseteq Vasp!Range(outcar) \cup {"unconverged"}
    <3>1. "unconverged" \in Vasp!Marks
      BY DEF Vasp!Marks
    <3>2. CASE outcar' = outcar
      BY <1>1, <3>2
    <3>3. CASE outcar' = Append(outcar, "unconverged")
      BY <1>1, <3>1, <3>3, MarkMore
    <3> QED BY <2>1, <3>2, <3>3
  <2>5. VaspTypes'
    BY <1>1, <2>1, <2>3, <2>4 DEF VaspTypes
  <2>6. RowsFit'
    BY <2>1, <2>2, RowsStayFit
  <2>7. MarksFit'
    BY <2>1, <2>3, <2>4 DEF MarksFit
  <2> QED BY <2>5, <2>6, <2>7
<1>4. CASE Vasp!Accuracy
  <2>1. /\ UNCHANGED <<relax, oszicar, running>> /\ outcar' = Append(outcar, "accuracy")
        /\ Vasp!Closed > 0
    BY <1>4 DEF Vasp!Accuracy
  <2>2. outcar' \in Seq(Vasp!Marks) /\ Vasp!Range(outcar') = Vasp!Range(outcar) \cup {"accuracy"}
    BY <1>1, <2>1, MarkMore DEF Vasp!Marks
  <2>3. Vasp!Ionic(oszicar') # {}
    <3>1. ASSUME NEW S PROVE Vasp!Cardinality(S) = Cardinality(S)
      BY DEF Vasp!Cardinality, Cardinality
    <3>2. Vasp!Cardinality({}) = 0
      BY <3>1, FS_EmptySet
    <3>3. Vasp!Cardinality(Vasp!Ionic(oszicar)) > 0
      BY <2>1 DEF Vasp!Closed
    <3>4. ASSUME Vasp!Ionic(oszicar) = {} PROVE FALSE
      <4> DEFINE S == Vasp!Ionic(oszicar)
      <4>1. Vasp!Cardinality(S) > 0 /\ S = {}
        BY <3>3, <3>4
      <4> HIDE DEF S
      <4>2. Vasp!Cardinality(S) = 0
        BY <3>2, <4>1
      <4> QED BY <4>1, <4>2
    <3> QED BY <2>1, <3>4
  <2>4. VaspTypes'
    BY <1>1, <2>1, <2>2 DEF VaspTypes
  <2>5. MarksFit'
    BY <2>1, <2>2, <2>3 DEF MarksFit
  <2> QED BY <2>1, <2>4, <2>5, RowsStay
<1>5. ASSUME NEW mark \in Vasp!Fatal, Vasp!Crash(mark) PROVE VaspInv'
  <2>1. /\ UNCHANGED <<relax, oszicar>> /\ outcar' = Append(outcar, mark) /\ running' = FALSE
        /\ mark \in Vasp!Marks /\ mark \notin {"timing", "accuracy"}
    BY <1>5 DEF Vasp!Crash, Vasp!Marks, Vasp!Fatal
  <2>2. outcar' \in Seq(Vasp!Marks) /\ Vasp!Range(outcar') = Vasp!Range(outcar) \cup {mark}
    BY <1>1, <2>1, MarkMore
  <2>3. VaspTypes'
    BY <1>1, <2>1, <2>2 DEF VaspTypes
  <2>4. MarksFit'
    BY <2>1, <2>2 DEF MarksFit
  <2> QED BY <2>1, <2>3, <2>4, RowsStay
<1>6. CASE Vasp!Finish
  <2>1. UNCHANGED <<relax, oszicar>> /\ outcar' = Append(outcar, "timing") /\ running' = FALSE
    BY <1>6 DEF Vasp!Finish
  <2>2. outcar' \in Seq(Vasp!Marks) /\ Vasp!Range(outcar') = Vasp!Range(outcar) \cup {"timing"}
    BY <1>1, <2>1, MarkMore DEF Vasp!Marks
  <2>3. VaspTypes'
    BY <1>1, <2>1, <2>2 DEF VaspTypes
  <2>4. MarksFit'
    BY <2>1, <2>2 DEF MarksFit
  <2> QED BY <2>1, <2>3, <2>4, RowsStay
<1>7. CASE Vasp!Kill
  <2>1. UNCHANGED <<relax, oszicar, outcar>> /\ running' = FALSE
    BY <1>7 DEF Vasp!Kill
  <2>2. VaspTypes' /\ MarksFit'
    BY <1>1, <2>1 DEF VaspTypes, MarksFit
  <2> QED BY <2>1, <2>2, RowsStay
<1>8. CASE UNCHANGED vaspVars
  <2>1. UNCHANGED <<relax, oszicar, outcar, running>>
    BY <1>8 DEF vaspVars
  <2>2. VaspTypes' /\ MarksFit'
    BY <2>1 DEF VaspTypes, MarksFit
  <2> QED BY <2>1, <2>2, RowsStay
<1> QED BY <1>2, <1>3, <1>4, <1>5, <1>6, <1>7, <1>8 DEF Vasp!Next

\* However little is read of a run under way, what the console and the gateway tell of it is
\* so; and what is recorded as completed is (hpc/vasp.py, VaspDomain.conclusion).
THEOREM TailsTell == Vasp!Spec => []TailsTellTheRun
<1>1. VaspInv /\ [Vasp!Next]_(Vasp!vars) => VaspInv'
  BY VaspSteps DEF vaspVars, Vasp!vars
<1>2. Vasp!Spec => []VaspInv
  BY <1>1, VaspInit, PTL DEF Vasp!Spec
<1> QED BY <1>2, InvTells, PTL
=============================================================================
