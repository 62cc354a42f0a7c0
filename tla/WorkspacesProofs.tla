-------------------------- MODULE WorkspacesProofs --------------------------
(***************************************************************************)
(* For any workspaces, directories and crashes: a write that is not on the *)
(* server is known of, and lost only to a discard of its workspace.  And   *)
(* for any server, requests and times: the load is measured often enough,  *)
(* and the buckets hold what was measured.                                 *)
(*                                                                         *)
(* The argument for the workspaces: what is cached is what one workspace   *)
(* wrote, in a directory that is whole (WorkspaceFits), and the command    *)
(* that holds the lock may rely on what it has looked at, except for what  *)
(* a writer can still do (CommandFits): between the look at the upload     *)
(* queue and the unmount a write may come, but then the entry still says   *)
(* that the workspace is open.  A crash leaves nothing the next command    *)
(* does not see.                                                           *)
(*                                                                         *)
(* The argument for the history: a loop looks again before Grace + 2 have  *)
(* passed since a measurement or an installation (InTime), and a use of    *)
(* the store that no other has overlapped writes rows that cover all there *)
(* was to cover (UseFits).  Whatever has overlapped, rows are never made   *)
(* up (Sound).                                                             *)
(***************************************************************************)
EXTENDS MCWorkspaces, FiniteSetTheorems, SequenceTheorems, WellFoundedInduction, TLAPS
-----------------------------------------------------------------------------
(* The workspaces *)

Live == Leased \cup Recoverable
EntryTypes == [status : Statuses, mode : Modes, dir : Dirs \cup {Root}]
OpTypes == {Idle}
    \cup [kind : {"open"}, at : {"waiting"}, w : Ids, dir : {d \in Dirs : Inside(d, Root)}, mode : Modes]
    \cup [kind : {"close"}, at : {"waiting", "unmounting", "unmounted"}, w : Ids]
    \cup [kind : {"discard"}, at : {"wiping", "wiped"}, w : Ids]
    \cup [kind : {"retry"}, at : {"waiting"}, w : Ids]
    \cup [kind : {"cleanup"}, at : {"removing"}, todo : SUBSET Ids, removed : SUBSET Ids]
Types == /\ entry \in [Ids -> EntryTypes]
         /\ base \in [Ids -> {"none", "whole", "cacheless", "gone"}]
         /\ rclone \in [Ids -> {"none", "starting", "mounted"}]
         /\ cache \in [Ids -> {"clean", "late", "unsynced"}]
         /\ op \in OpTypes
         /\ window \subseteq Ids /\ due \subseteq Ids /\ overtaken \subseteq Ids
         /\ crashes \in 0 .. MaxCrashes

Closing(w) == op.kind = "close" /\ op.w = w /\ op.at \in {"unmounting", "unmounted"}

\* The gateway lists the workspace, or it was given up before its mount came up.
Known(w) == entry[w].status \in Live \/ Revived(w)

\* What holds of one workspace, and of what it still has to upload.
WorkspaceFits(w) ==
    /\ Inside(entry[w].dir, Root)
    /\ w \in window => Mounted(w) /\ Known(w)
    /\ cache[w] # "clean" => base[w] = "whole" /\ entry[w].mode = "read-write"
    /\ cache[w] = "unsynced" => Known(w)
    /\ cache[w] = "late" => \/ Closing(w) /\ Known(w)
                            \/ rclone[w] = "none" /\ entry[w].status \in Retired
    /\ entry[w].status = "closed" => rclone[w] = "none"
    /\ entry[w].status = "abandoned" /\ rclone[w] # "none" => w \in overtaken

\* What the command that holds the lock may rely on.
CommandFits ==
    /\ op.kind = "open" => cache[op.w] = "clean" /\ entry[op.w] = Absent
    /\ op.kind = "close" =>
         /\ entry[op.w] # Absent
         /\ cache[op.w] = "late" => Known(op.w)
         /\ op.at # "waiting" => cache[op.w] # "unsynced"
         /\ op.at = "unmounted" => rclone[op.w] = "none"
    /\ op.kind = "discard" => /\ op.w \notin window /\ entry[op.w].status \in Live
                              /\ op.at = "wiped" => cache[op.w] = "clean"
    /\ op.kind = "retry" => entry[op.w].status \in Live
    /\ op.kind = "cleanup" => /\ \A w \in op.todo \cup op.removed : entry[w].status \in Retired
                              /\ \A w \in op.removed : cache[w] = "clean" /\ w \notin window

IInv == Types /\ (\A w \in Ids : WorkspaceFits(w)) /\ CommandFits

LEMMA WorkspaceNumbers == MaxCrashes \in Nat /\ Inside(Root, Root)
<1>1. MaxCrashes \in Nat /\ Root \in Seq(STRING)
  BY WorkspacesAssumption
<1>2. Len(Root) \in Nat
  BY <1>1
<1>3. Inside(Root, Root)
  BY <1>1, <1>2 DEF Inside, IsPrefix
<1> QED BY <1>1, <1>3

\* What the command is about.
LEMMA OpKnown ==
    ASSUME Types
    PROVE  /\ op.kind \in {"none", "open", "close", "discard", "retry", "cleanup"}
           /\ op.kind = "none" <=> op = Idle
           /\ op.kind = "open" => op \in [kind : {"open"}, at : {"waiting"}, w : Ids,
                                          dir : {d \in Dirs : Inside(d, Root)}, mode : Modes]
           /\ op.kind = "close" => op \in [kind : {"close"}, w : Ids,
                                           at : {"waiting", "unmounting", "unmounted"}]
           /\ op.kind = "discard" => op \in [kind : {"discard"}, at : {"wiping", "wiped"}, w : Ids]
           /\ op.kind = "retry" => op \in [kind : {"retry"}, at : {"waiting"}, w : Ids]
           /\ op.kind = "cleanup" => op \in [kind : {"cleanup"}, at : {"removing"},
                                             todo : SUBSET Ids, removed : SUBSET Ids]
BY DEF Types, OpTypes, Idle

\* What is known of a workspace before a step.
LEMMA WorkspaceKnown ==
    ASSUME IInv, NEW w \in Ids
    PROVE  /\ entry[w] \in EntryTypes
           /\ base[w] \in {"none", "whole", "cacheless", "gone"}
           /\ rclone[w] \in {"none", "starting", "mounted"}
           /\ cache[w] \in {"clean", "late", "unsynced"}
           /\ WorkspaceFits(w) /\ CommandFits /\ Types
BY DEF IInv, Types

\* A step that concerns one workspace, or none.
LEMMA OneChanges ==
    ASSUME IInv, NEW w \in Ids, Types', CommandFits', WorkspaceFits(w)',
           \A v \in Ids \ {w} :
               /\ entry'[v] = entry[v] /\ base'[v] = base[v] /\ rclone'[v] = rclone[v]
               /\ cache'[v] = cache[v] /\ (v \in window' <=> v \in window)
               /\ v \in overtaken' <=> v \in overtaken
               /\ Closing(v) => Closing(v)'
    PROVE  IInv'
<1>1. ASSUME NEW v \in Ids, v # w PROVE WorkspaceFits(v)'
  <2>1. WorkspaceFits(v)
    BY DEF IInv
  <2> QED BY <1>1, <2>1 DEF WorkspaceFits, Mounted, Known, Revived
<1> QED BY <1>1 DEF IInv

\* A step of a command that leaves the workspaces as they are.
LEMMA NoneChanges ==
    ASSUME IInv, UNCHANGED <<entry, base, rclone, cache, window, overtaken>>, Types', CommandFits',
           \A v \in Ids : Closing(v) => Closing(v)'
    PROVE  IInv'
<1>1. ASSUME NEW v \in Ids PROVE WorkspaceFits(v)'
  <2>1. WorkspaceFits(v)
    BY DEF IInv
  <2> QED BY <1>1, <2>1 DEF WorkspaceFits, Mounted, Known, Revived
<1> QED BY <1>1 DEF IInv

\* A command is over.
LEMMA Over == ASSUME op' = Idle PROVE CommandFits' /\ op' \in OpTypes
BY DEF CommandFits, Idle, OpTypes

\* An entry gets another status.
LEMMA StatusChanges ==
    ASSUME IInv, NEW w \in Ids, NEW s \in Statuses, SetStatus(w, s)
    PROVE  /\ entry' \in [Ids -> EntryTypes]
           /\ entry'[w].status = s /\ entry'[w].mode = entry[w].mode /\ entry'[w].dir = entry[w].dir
           /\ \A v \in Ids \ {w} : entry'[v] = entry[v]
BY DEF IInv, Types, SetStatus, EntryTypes
---------------------------------------------------------------------------
(* rclone and the editor *)

LEMMA MountUpKeeps == ASSUME IInv, NEW w \in Ids, MountUp(w) PROVE IInv'
<1>1. /\ rclone[w] = "starting" /\ rclone' = [rclone EXCEPT ![w] = "mounted"]
      /\ UNCHANGED <<entry, base, cache, window, op, due, crashes, overtaken>>
  BY DEF MountUp
<1>2. rclone \in [Ids -> {"none", "starting", "mounted"}] /\ WorkspaceFits(w) /\ CommandFits
  BY DEF IInv, Types
<1>3. Types'
  BY <1>1 DEF IInv, Types
<1>4. WorkspaceFits(w)'
  BY <1>1, <1>2 DEF WorkspaceFits, Mounted, Closing, Known, Revived
<1>5. CommandFits'
  <2>1. op.kind = "close" /\ op.at = "unmounted" => op.w # w
    BY <1>1, <1>2 DEF CommandFits
  <2>2. op.kind = "close" => op.w \in Ids
    BY OpKnown DEF IInv
  <2> QED BY <1>1, <1>2, <2>1, <2>2 DEF CommandFits, Known, Revived
<1> QED BY <1>1, <1>2, <1>3, <1>4, <1>5, OneChanges DEF Closing

LEMMA MountGoneKeeps == ASSUME IInv, NEW w \in Ids, MountGone(w) PROVE IInv'
<1>1. /\ rclone' = [rclone EXCEPT ![w] = "none"] /\ window' = window \ {w}
      /\ UNCHANGED <<entry, base, cache, op, due, crashes, overtaken>>
  BY DEF MountGone
<1>2. rclone \in [Ids -> {"none", "starting", "mounted"}] /\ WorkspaceFits(w) /\ CommandFits
  BY DEF IInv, Types
<1>3. Types'
  BY <1>1 DEF IInv, Types
<1>4. WorkspaceFits(w)'
  BY <1>1, <1>2 DEF WorkspaceFits, Mounted, Closing, Known, Revived
<1>5. CommandFits'
  <2>1. op.kind = "close" => op.w \in Ids
    BY OpKnown DEF IInv
  <2> QED BY <1>1, <1>2, <2>1 DEF CommandFits, Known, Revived
<1> QED BY <1>1, <1>2, <1>3, <1>4, <1>5, OneChanges DEF Closing

LEMMA WriteKeeps == ASSUME IInv, NEW w \in Ids, Write(w) PROVE IInv'
<1> DEFINE written == IF Unmounting(w) /\ cache[w] # "unsynced" THEN "late" ELSE "unsynced"
<1>1. /\ w \in window /\ Mounted(w) /\ entry[w].mode = "read-write"
      /\ cache' = [cache EXCEPT ![w] = written] /\ base' = [base EXCEPT ![w] = "whole"]
      /\ UNCHANGED <<entry, rclone, window, op, due, crashes, overtaken>>
  BY DEF Write
<1>2. /\ Types /\ WorkspaceFits(w) /\ CommandFits
      /\ cache \in [Ids -> {"clean", "late", "unsynced"}]
      /\ base \in [Ids -> {"none", "whole", "cacheless", "gone"}]
  BY DEF IInv, Types
<1>3. Known(w) /\ Known(w)' /\ entry[w] # Absent
  BY <1>1, <1>2 DEF WorkspaceFits, Known, Revived, Absent, Live, Leased, Recoverable
<1>4. Types'
  BY <1>1 DEF IInv, Types
<1>5. written = "late" => Closing(w)
  BY DEF Closing, Unmounting
<1>6. cache'[w] = written /\ base'[w] = "whole" /\ \A v \in Ids \ {w} : cache'[v] = cache[v] /\ base'[v] = base[v]
  BY <1>1, <1>2
<1>7. written \in {"late", "unsynced"}
  OBVIOUS
<1>8. CommandFits'
  <2>1. op.kind = "open" => op.w \in Ids /\ op.w # w
    BY <1>1, <1>2, <1>3, OpKnown DEF CommandFits
  <2>2. op.kind = "close" => op.w \in Ids /\ op.at \in {"waiting", "unmounting", "unmounted"}
    BY <1>2, OpKnown
  <2>3. op.kind = "close" /\ op.at # "waiting" => cache'[op.w] # "unsynced"
    <3> SUFFICES ASSUME op.kind = "close", op.at # "waiting", op.w = w PROVE cache'[w] # "unsynced"
      BY <1>2, <1>6, <2>2 DEF CommandFits, Known, Revived
    <3>1. op.at = "unmounting"
      BY <1>1, <1>2, <2>2 DEF CommandFits, Mounted
    <3>2. cache[w] # "unsynced"
      BY <1>2 DEF CommandFits
    <3> QED BY <1>6, <3>1, <3>2 DEF Unmounting
  <2>4. op.kind = "discard" => op.w \in Ids /\ op.w # w
    BY <1>1, <1>2, OpKnown DEF CommandFits
  <2>5. op.kind = "cleanup" => w \notin op.removed /\ op.removed \subseteq Ids
    BY <1>1, <1>2, OpKnown DEF CommandFits
  <2>6. op.kind = "close" /\ cache'[op.w] = "late" => Known(op.w)'
    BY <1>1, <1>2, <1>3, <1>6, <2>2 DEF CommandFits, Known, Revived
  <2>7. /\ op'.kind = "open" => cache'[op'.w] = "clean" /\ entry'[op'.w] = Absent
        /\ op'.kind = "retry" => entry'[op'.w].status \in Live
    BY <1>1, <1>2, <1>6, <2>1 DEF CommandFits
  <2>8. op'.kind = "close" =>
         /\ entry'[op'.w] # Absent
         /\ cache'[op'.w] = "late" => Known(op.w)'
         /\ op'.at # "waiting" => cache'[op'.w] # "unsynced"
         /\ op'.at = "unmounted" => rclone'[op'.w] = "none"
    BY <1>1, <1>2, <2>3, <2>6 DEF CommandFits
  <2>9. op'.kind = "discard" => /\ op'.w \notin window' /\ entry'[op'.w].status \in Live
                                /\ op'.at = "wiped" => cache'[op'.w] = "clean"
    BY <1>1, <1>2, <1>6, <2>4 DEF CommandFits
  <2>10. op'.kind = "cleanup" =>
           /\ \A v \in op'.todo \cup op'.removed : entry'[v].status \in Retired
           /\ \A v \in op'.removed : cache'[v] = "clean" /\ v \notin window'
    BY <1>1, <1>2, <1>6, <2>5 DEF CommandFits
  <2> QED BY <2>7, <2>8, <2>9, <2>10 DEF CommandFits
<1> HIDE DEF written
<1>9. WorkspaceFits(w)'
  BY <1>1, <1>2, <1>3, <1>5, <1>6, <1>7 DEF WorkspaceFits, Mounted, Closing, Known, Revived
<1> QED BY <1>1, <1>4, <1>6, <1>8, <1>9, OneChanges DEF Closing

LEMMA UploadKeeps == ASSUME IInv, NEW w \in Ids, Upload(w) PROVE IInv'
<1>1. /\ cache' = [cache EXCEPT ![w] = "clean"]
      /\ UNCHANGED <<entry, base, rclone, window, op, due, crashes, overtaken>>
  BY DEF Upload
<1>2. /\ Types /\ WorkspaceFits(w) /\ CommandFits
      /\ cache \in [Ids -> {"clean", "late", "unsynced"}]
  BY DEF IInv, Types
<1>3. Types'
  BY <1>1 DEF IInv, Types
<1>4. WorkspaceFits(w)'
  BY <1>1, <1>2 DEF WorkspaceFits, Mounted, Closing, Known, Revived
<1>5. CommandFits'
  <2>1. /\ op.kind \in {"open", "close", "discard"} => op.w \in Ids
        /\ op.kind = "cleanup" => op.removed \subseteq Ids
    BY <1>2, OpKnown
  <2> QED BY <1>1, <1>2, <2>1 DEF CommandFits, Known, Revived
<1> QED BY <1>1, <1>2, <1>3, <1>4, <1>5, OneChanges DEF Closing
---------------------------------------------------------------------------
(* open *)

LEMMA OpenKeeps ==
    ASSUME IInv, NEW w \in Ids, NEW d \in Dirs, NEW mode \in Modes, Open(w, d, mode)
    PROVE  IInv'
<1>1. /\ op = Idle /\ entry[w] = Absent /\ base[w] = "none" /\ Inside(d, Root)
      /\ base' = [base EXCEPT ![w] = "whole"] /\ rclone' = [rclone EXCEPT ![w] = "starting"]
      /\ op' = [kind |-> "open", at |-> "waiting", w |-> w, dir |-> d, mode |-> mode]
      /\ UNCHANGED <<entry, cache, window, due, crashes, overtaken>>
  BY DEF Open, Take, Allowed
<1>2. /\ WorkspaceFits(w) /\ cache[w] \in {"clean", "late", "unsynced"}
      /\ base \in [Ids -> {"none", "whole", "cacheless", "gone"}]
      /\ rclone \in [Ids -> {"none", "starting", "mounted"}]
  BY DEF IInv, Types
<1>3. cache[w] = "clean" /\ w \notin window
  BY <1>1, <1>2 DEF WorkspaceFits, Known, Revived, Absent, Live, Leased, Recoverable
<1>4. Types'
  BY <1>1, <1>2 DEF IInv, Types, OpTypes
<1>5. CommandFits'
  BY <1>1, <1>3 DEF CommandFits
<1>6. WorkspaceFits(w)'
  BY <1>1, <1>2, <1>3 DEF WorkspaceFits, Absent
<1>7. \A v : ~Closing(v)
  BY <1>1 DEF Closing, Idle
<1> QED BY <1>1, <1>2, <1>4, <1>5, <1>6, <1>7, OneChanges

LEMMA OpenedKeeps == ASSUME IInv, Opened \/ OpenFails PROVE IInv'
<1>1. op.kind = "open"
  BY DEF Opened, OpenFails, At
<1>2. PICK w \in Ids : w = op.w
  BY <1>1, OpKnown DEF IInv
<1>3. PICK new : /\ new \in {[status |-> s, mode |-> op.mode, dir |-> op.dir] : s \in {"open", "needs_recovery"}}
                 /\ entry' = [entry EXCEPT ![w] = new]
  BY <1>2 DEF Opened, OpenFails
<1>4. /\ op' = Idle /\ UNCHANGED <<base, cache, window, crashes, overtaken>>
      /\ (rclone' = rclone) \/ (rclone' = [rclone EXCEPT ![w] = "none"])
      /\ (due' = due) \/ (due' = due \cup {w})
  BY <1>2 DEF Opened, OpenFails, Release
<1>5. op.dir \in Dirs /\ Inside(op.dir, Root) /\ op.mode \in Modes
  BY <1>1, OpKnown DEF IInv
<1>6. /\ WorkspaceFits(w) /\ cache[w] = "clean" /\ entry[w] = Absent
      /\ entry \in [Ids -> EntryTypes] /\ rclone \in [Ids -> {"none", "starting", "mounted"}]
  BY <1>1, <1>2 DEF IInv, Types, CommandFits
<1>7. new \in EntryTypes /\ new.status \in Live /\ Inside(new.dir, Root)
  BY <1>3, <1>5 DEF EntryTypes, Statuses, Live, Leased, Recoverable
<1>8. w \notin window
  BY <1>6 DEF WorkspaceFits, Known, Revived, Absent, Live, Leased, Recoverable
<1>9. Types'
  BY <1>3, <1>4, <1>6, <1>7 DEF IInv, Types, OpTypes
<1>10. op'.kind = "none"
  BY <1>4 DEF Idle
<1>11. CommandFits'
  BY <1>10 DEF CommandFits
<1>12. entry'[w] = new /\ \A v \in Ids \ {w} : entry'[v] = entry[v] /\ rclone'[v] = rclone[v]
  BY <1>3, <1>4, <1>6
<1>13. WorkspaceFits(w)'
  BY <1>4, <1>6, <1>7, <1>8, <1>12 DEF WorkspaceFits, Live, Leased, Recoverable
<1>14. \A v : ~Closing(v)
  BY <1>1 DEF Closing
<1> QED BY <1>4, <1>9, <1>11, <1>12, <1>13, <1>14, OneChanges
---------------------------------------------------------------------------
(* status *)

\* What is seen of a mount is no end of the workspace, and of what is not
\* mounted only a lease is taken away.
LEMMA SeenFits ==
    ASSUME IInv, NEW w \in Ids, NEW reply \in Replies(w)
    PROVE  /\ Mounted(w) => Seen(w, reply) \in Live
           /\ ~Mounted(w) => \/ (Seen(w, reply) = entry[w].status)
                             \/ (Seen(w, reply) = "needs_recovery" /\ entry[w].status \in Live)
<1>1. CASE Mounted(w)
  <2>1. Seen(w, reply) \in {"sync_unknown", "sync_pending", "open"}
    <3>1. CASE entry[w].mode = "read-write" /\ reply = "silent"
      BY <1>1, <3>1 DEF Seen
    <3>2. CASE reply = "queued"
      BY <1>1, <3>2 DEF Seen
    <3>3. CASE reply # "queued" /\ ~(entry[w].mode = "read-write" /\ reply = "silent")
      BY <1>1, <3>3 DEF Seen
    <3> QED BY <3>1, <3>2, <3>3
  <2> QED BY <1>1, <2>1 DEF Live, Leased
<1>2. CASE ~Mounted(w)
  <2>1. CASE entry[w].status \in Leased \ {"sync_unknown"}
    BY <1>2, <2>1 DEF Seen, Live
  <2>2. CASE entry[w].status \notin Leased \ {"sync_unknown"}
    BY <1>2, <2>2 DEF Seen
  <2> QED BY <2>1, <2>2
<1> QED BY <1>1, <1>2

LEMMA LookKeeps ==
    ASSUME IInv, NEW w \in Ids, op = Idle, entry[w] # Absent, Look(w),
           UNCHANGED <<base, rclone, cache, op, crashes, overtaken>>, due' \subseteq due
    PROVE  IInv'
<1>1. PICK reply \in Replies(w) : entry' = [entry EXCEPT ![w].status = Seen(w, reply)]
  BY DEF Look, SetStatus
<1> DEFINE status == Seen(w, reply)
<1>2. /\ WorkspaceFits(w) /\ entry \in [Ids -> EntryTypes] /\ entry[w] \in EntryTypes
      /\ window \subseteq Ids
  BY DEF IInv, Types
<1>3. /\ Mounted(w) => status \in Live
      /\ ~Mounted(w) => (status = entry[w].status) \/ (status = "needs_recovery" /\ entry[w].status \in Live)
  BY SeenFits
<1>4. window' = IF Mounted(w) THEN window \cup {w} ELSE window
  BY DEF Look
<1> HIDE DEF status
<1>5. status \in Statuses
  BY <1>2, <1>3 DEF EntryTypes, Statuses, Live, Recoverable
<1>6. /\ entry' \in [Ids -> EntryTypes]
      /\ entry'[w].status = status /\ entry'[w].mode = entry[w].mode /\ entry'[w].dir = entry[w].dir
      /\ \A v \in Ids \ {w} : entry'[v] = entry[v]
  BY <1>1, <1>2, <1>5 DEF EntryTypes, status
<1>7. Types'
  BY <1>2, <1>4, <1>6 DEF IInv, Types
<1>8. CommandFits'
  BY DEF CommandFits, Idle
<1>9. WorkspaceFits(w)'
  <2>1. Known(w) => Known(w)'
    BY <1>3, <1>6 DEF Known, Revived, Live, Leased, Recoverable
  <2>2. ~Closing(w)
    BY DEF Closing, Idle
  <2>3. cache[w] = "late" => ~Mounted(w) /\ entry[w].status \in Retired /\ status \in Retired
    BY <1>2, <1>3, <2>2 DEF WorkspaceFits, Mounted, Live, Leased, Recoverable, Retired
  <2>4. Mounted(w) => Known(w)' /\ entry'[w].status \notin Retired
    BY <1>3, <1>6 DEF Known, Live, Leased, Recoverable, Retired
  <2>5. ~Mounted(w) => status = entry[w].status \/ status \notin Retired
    BY <1>3 DEF Retired
  <2> QED BY <1>2, <1>4, <1>6, <2>1, <2>2, <2>3, <2>4, <2>5 DEF WorkspaceFits, Mounted, Retired
<1>10. \A v : ~Closing(v)
  BY DEF Closing, Idle
<1> QED BY <1>4, <1>6, <1>7, <1>8, <1>9, <1>10, OneChanges

LEMMA StatusKeeps == ASSUME IInv, NEW w \in Ids, Status(w) \/ OpenReports(w) PROVE IInv'
<1>1. CASE Look(w) /\ entry[w] # Absent
  BY <1>1, LookKeeps DEF Status, OpenReports, Take
<1>2. CASE UNCHANGED <<entry, window>>
  <2>1. UNCHANGED <<entry, base, rclone, cache, window, op, crashes, overtaken>> /\ due' \subseteq due
    BY <1>2 DEF Status, OpenReports
  <2>2. Types' /\ CommandFits' /\ WorkspaceFits(w)'
    BY <2>1 DEF IInv, Types, CommandFits, WorkspaceFits, Mounted, Closing, Known, Revived
  <2> QED BY <2>1, <2>2, OneChanges DEF Closing
<1> QED BY <1>1, <1>2 DEF Status, OpenReports

\* A mount that list finds is one of a workspace that is known.
LEMMA ListedKeeps == ASSUME IInv, NEW w \in Ids, Listed(w) PROVE IInv'
<1>1. /\ op = Idle /\ entry[w].status # "absent" /\ Mounted(w) /\ window' = window \cup {w}
      /\ UNCHANGED <<entry, base, rclone, cache, op, due, crashes, overtaken>>
  BY DEF Listed, Take
<1>2. /\ WorkspaceFits(w) /\ Types /\ entry[w] \in EntryTypes /\ window \subseteq Ids
  BY DEF IInv, Types
<1>3. Known(w)
  BY <1>1, <1>2 DEF WorkspaceFits, Known, Revived, Mounted, EntryTypes, Statuses, Live, Retired
<1>4. WorkspaceFits(w)'
  BY <1>1, <1>2, <1>3 DEF WorkspaceFits, Known, Revived, Mounted, Closing
<1>5. Types' /\ CommandFits'
  BY <1>1, <1>2 DEF Types, CommandFits, Idle
<1> QED BY <1>1, <1>4, <1>5, OneChanges DEF Closing
---------------------------------------------------------------------------
(* close *)

LEMMA CloseBegins == ASSUME IInv, NEW w \in Ids, CloseRefused(w) \/ Close(w) PROVE IInv'
<1>1. /\ op = Idle /\ WorkspaceFits(w) /\ Types
      /\ cache[w] \in {"clean", "late", "unsynced"} /\ entry[w] \in EntryTypes
  BY DEF IInv, Types, CloseRefused, Close, Take
<1>2. \A v : ~Closing(v)
  BY <1>1 DEF Closing, Idle
<1>3. CASE CloseRefused(w)
  <2>1. /\ entry[w].status \in Live /\ ~Mounted(w) /\ SetStatus(w, "needs_recovery")
        /\ UNCHANGED <<base, rclone, cache, window, op, due, crashes, overtaken>>
    BY <1>1, <1>3 DEF CloseRefused, EntryTypes, Statuses, Live
  <2>2. /\ entry' \in [Ids -> EntryTypes] /\ entry'[w].status = "needs_recovery"
        /\ entry'[w].mode = entry[w].mode /\ entry'[w].dir = entry[w].dir
        /\ \A v \in Ids \ {w} : entry'[v] = entry[v]
    BY <2>1, StatusChanges DEF Statuses, Recoverable
  <2>3. CommandFits'
    BY <1>1, <2>1 DEF CommandFits, Idle
  <2>4. Types'
    BY <1>1, <2>1, <2>2 DEF Types
  <2>5. WorkspaceFits(w)'
    BY <1>1, <1>2, <2>1, <2>2 DEF WorkspaceFits, Mounted, Known, Revived, Live, Leased, Recoverable, Retired
  <2> QED BY <1>2, <2>1, <2>2, <2>3, <2>4, <2>5, OneChanges
<1>4. CASE Close(w)
  <2>1. /\ entry[w] # Absent /\ Mounted(w)
        /\ op' = [kind |-> "close", w |-> w,
                  at |-> IF entry[w].mode = "read-write" THEN "waiting" ELSE "unmounting"]
        /\ UNCHANGED <<entry, base, rclone, cache, window, due, crashes, overtaken>>
    BY <1>4 DEF Close
  <2>2. /\ op'.kind = "close" /\ op'.w = w /\ op'.at \in {"waiting", "unmounting"}
        /\ op' \in OpTypes
    BY <2>1 DEF OpTypes
  <2>3. op'.at # "waiting" => cache[w] = "clean"
    BY <1>1, <2>1 DEF WorkspaceFits
  <2>4. cache[w] # "late"
    BY <1>1, <1>2, <2>1 DEF WorkspaceFits, Mounted
  <2>5. CommandFits'
    BY <2>1, <2>2, <2>3, <2>4 DEF CommandFits
  <2>6. Types'
    BY <1>1, <2>1, <2>2 DEF Types
  <2> QED BY <1>2, <2>1, <2>5, <2>6, NoneChanges
<1> QED BY <1>3, <1>4

\* What close knows while it goes on.
LEMMA ClosingKnown ==
    ASSUME IInv, op.kind = "close", NEW w, w = op.w
    PROVE  /\ w \in Ids /\ op \in [kind : {"close"}, w : Ids, at : {"waiting", "unmounting", "unmounted"}]
           /\ WorkspaceFits(w) /\ CommandFits /\ Types
           /\ cache[w] \in {"clean", "late", "unsynced"} /\ entry[w] \in EntryTypes
           /\ \A v \in Ids \ {w} : ~Closing(v)
BY OpKnown DEF IInv, Types, Closing

LEMMA QueueKeeps == ASSUME IInv, QueueEmpty \/ QueueUnknown \/ StillQueued PROVE IInv'
<1>1. op.kind = "close" /\ op.at = "waiting"
  BY DEF QueueEmpty, QueueUnknown, StillQueued, At
<1>2. PICK w \in Ids : w = op.w
  BY <1>1, OpKnown DEF IInv
<1>3. /\ op \in [kind : {"close"}, w : Ids, at : {"waiting", "unmounting", "unmounted"}]
      /\ WorkspaceFits(w) /\ CommandFits /\ Types
      /\ cache[w] \in {"clean", "late", "unsynced"} /\ entry[w] \in EntryTypes
      /\ \A v \in Ids : ~Closing(v)
  BY <1>1, <1>2, ClosingKnown DEF Closing
<1>4. CASE QueueEmpty
  <2>1. /\ op' = [op EXCEPT !.at = "unmounting"] /\ Mounted(w) /\ cache[w] = "clean"
        /\ UNCHANGED <<entry, base, rclone, cache, window, due, crashes, overtaken>>
    BY <1>2, <1>4 DEF QueueEmpty, Goto, Drained, Replies
  <2>2. /\ op'.kind = "close" /\ op'.w = w /\ op'.at = "unmounting" /\ op' \in OpTypes
    BY <1>2, <1>3, <2>1 DEF OpTypes
  <2>3. CommandFits'
    BY <1>1, <1>2, <1>3, <2>1, <2>2 DEF CommandFits
  <2>4. Types'
    BY <1>3, <2>1, <2>2 DEF Types
  <2> QED BY <1>3, <2>1, <2>3, <2>4, NoneChanges
<1>5. CASE QueueUnknown
  <2>1. op' = Idle /\ UNCHANGED <<entry, base, rclone, cache, window, due, crashes, overtaken>>
    BY <1>5 DEF QueueUnknown, Release
  <2>2. Types' /\ CommandFits'
    BY <1>3, <2>1, Over DEF Types
  <2> QED BY <1>3, <2>1, <2>2, NoneChanges
<1>6. CASE StillQueued
  <2>1. /\ SetStatus(w, "sync_pending") /\ op' = Idle /\ Mounted(w)
        /\ UNCHANGED <<base, rclone, cache, window, due, crashes, overtaken>>
    BY <1>2, <1>6 DEF StillQueued, Release, Replies
  <2>2. /\ entry' \in [Ids -> EntryTypes] /\ entry'[w].status = "sync_pending"
        /\ entry'[w].mode = entry[w].mode /\ entry'[w].dir = entry[w].dir
        /\ \A v \in Ids \ {w} : entry'[v] = entry[v]
    BY <2>1, StatusChanges DEF Statuses, Leased
  <2>3. Types' /\ CommandFits'
    BY <1>3, <2>1, <2>2, Over DEF Types
  <2>4. WorkspaceFits(w)'
    BY <1>3, <2>1, <2>2 DEF WorkspaceFits, Mounted, Known, Revived, Live, Leased
  <2> QED BY <1>3, <2>1, <2>2, <2>3, <2>4, OneChanges
<1> QED BY <1>4, <1>5, <1>6

LEMMA UnmountKeeps == ASSUME IInv, Unmount \/ UnmountFails \/ Closed PROVE IInv'
<1>1. op.kind = "close" /\ op.at # "waiting"
  BY DEF Unmount, UnmountFails, Closed, At
<1>2. PICK w \in Ids : w = op.w
  BY <1>1, OpKnown DEF IInv
<1>3. /\ op \in [kind : {"close"}, w : Ids, at : {"waiting", "unmounting", "unmounted"}]
      /\ WorkspaceFits(w) /\ CommandFits /\ Types
      /\ cache[w] \in {"clean", "late", "unsynced"} /\ entry[w] \in EntryTypes
      /\ \A v \in Ids \ {w} : ~Closing(v)
  BY <1>1, <1>2, ClosingKnown
<1>4. /\ entry[w] # Absent /\ cache[w] # "unsynced"
      /\ cache[w] = "late" => Known(w)
      /\ op.at = "unmounted" => rclone[w] = "none"
      /\ cache \in [Ids -> {"clean", "late", "unsynced"}]
      /\ rclone \in [Ids -> {"none", "starting", "mounted"}]
  BY <1>1, <1>2, <1>3 DEF CommandFits, Types
<1>5. CASE Unmount
  <2>1. /\ op' = [op EXCEPT !.at = "unmounted"] /\ rclone' = [rclone EXCEPT ![w] = "none"]
        /\ window' = window \ {w} /\ UNCHANGED <<entry, base, cache, due, crashes, overtaken>>
    BY <1>2, <1>5 DEF Unmount, Goto
  <2>2. /\ op'.kind = "close" /\ op'.w = w /\ op'.at = "unmounted" /\ op' \in OpTypes
    BY <1>2, <1>3, <2>1 DEF OpTypes
  <2>3. CommandFits'
    BY <1>4, <2>1, <2>2 DEF CommandFits, Known, Revived
  <2>4. Types'
    BY <1>3, <1>4, <2>1, <2>2 DEF Types
  <2>5. WorkspaceFits(w)'
    BY <1>3, <1>4, <2>1, <2>2 DEF WorkspaceFits, Closing, Known, Revived
  <2> QED BY <1>3, <1>4, <2>1, <2>3, <2>4, <2>5, OneChanges
<1>6. CASE UnmountFails
  <2>1. /\ SetStatus(w, "sync_pending") /\ op' = Idle
        /\ cache' = [cache EXCEPT ![w] = IF @ = "late" THEN "unsynced" ELSE @]
        /\ UNCHANGED <<base, rclone, window, due, crashes, overtaken>>
    BY <1>2, <1>6 DEF UnmountFails, Release, StaysOpen
  <2>2. /\ entry' \in [Ids -> EntryTypes] /\ entry'[w].status = "sync_pending"
        /\ entry'[w].mode = entry[w].mode /\ entry'[w].dir = entry[w].dir
        /\ \A v \in Ids \ {w} : entry'[v] = entry[v]
    BY <2>1, StatusChanges DEF Statuses, Leased
  <2>3. /\ cache' \in [Ids -> {"clean", "late", "unsynced"}]
        /\ cache'[w] \in {"clean", "unsynced"}
        /\ cache'[w] # "clean" => cache[w] # "clean"
        /\ \A v \in Ids \ {w} : cache'[v] = cache[v]
    BY <1>4, <2>1
  <2>4. Types' /\ CommandFits'
    BY <1>3, <2>1, <2>2, <2>3, Over DEF Types
  <2>5. WorkspaceFits(w)'
    BY <1>3, <2>1, <2>2, <2>3 DEF WorkspaceFits, Mounted, Known, Revived, Live, Leased
  <2> QED BY <1>3, <2>1, <2>2, <2>3, <2>4, <2>5, OneChanges
<1>7. CASE Closed
  <2>1. /\ SetStatus(w, "closed") /\ op' = Idle /\ rclone[w] = "none"
        /\ UNCHANGED <<base, rclone, cache, window, due, crashes, overtaken>>
    BY <1>2, <1>4, <1>7 DEF Closed, Release, At
  <2>2. /\ entry' \in [Ids -> EntryTypes] /\ entry'[w].status = "closed"
        /\ entry'[w].mode = entry[w].mode /\ entry'[w].dir = entry[w].dir
        /\ \A v \in Ids \ {w} : entry'[v] = entry[v]
    BY <2>1, StatusChanges DEF Statuses, Retired
  <2>3. Types' /\ CommandFits'
    BY <1>3, <2>1, <2>2, Over DEF Types
  <2>4. WorkspaceFits(w)'
    BY <1>3, <1>4, <2>1, <2>2 DEF WorkspaceFits, Mounted, Retired
  <2> QED BY <1>3, <2>1, <2>2, <2>3, <2>4, OneChanges
<1> QED BY <1>5, <1>6, <1>7
---------------------------------------------------------------------------
(* recover *)

LEMMA RecoverBegins == ASSUME IInv, NEW w \in Ids, Discard(w) \/ Retry(w) PROVE IInv'
<1>1. /\ op = Idle /\ entry[w].status \in Recoverable /\ ~Mounted(w)
      /\ WorkspaceFits(w) /\ Types
      /\ rclone \in [Ids -> {"none", "starting", "mounted"}]
      /\ base \in [Ids -> {"none", "whole", "cacheless", "gone"}]
  BY DEF IInv, Types, Discard, Retry, Take, CanRecover
<1>2. entry[w].status \in Live /\ w \notin window /\ \A v : ~Closing(v)
  BY <1>1 DEF Live, WorkspaceFits, Closing, Idle
<1>3. CASE Discard(w)
  <2>1. /\ op' = [kind |-> "discard", w |-> w, at |-> "wiping"]
        /\ UNCHANGED <<entry, base, rclone, cache, window, due, crashes, overtaken>>
    BY <1>3 DEF Discard
  <2>2. CommandFits' /\ op' \in OpTypes
    BY <1>2, <2>1 DEF CommandFits, OpTypes
  <2>3. Types'
    BY <1>1, <2>1, <2>2 DEF Types
  <2> QED BY <1>2, <2>1, <2>2, <2>3, NoneChanges
<1>4. CASE Retry(w)
  <2>1. /\ rclone' = [rclone EXCEPT ![w] = "starting"] /\ base' = [base EXCEPT ![w] = "whole"]
        /\ op' = [kind |-> "retry", w |-> w, at |-> "waiting"]
        /\ UNCHANGED <<entry, cache, window, due, crashes, overtaken>>
    BY <1>4 DEF Retry
  <2>2. CommandFits' /\ op' \in OpTypes
    BY <1>2, <2>1 DEF CommandFits, OpTypes
  <2>3. Types'
    BY <1>1, <2>1, <2>2 DEF Types
  <2>4. WorkspaceFits(w)'
    BY <1>1, <1>2, <2>1 DEF WorkspaceFits, Known, Revived, Mounted, Recoverable, Retired
  <2> QED BY <1>1, <1>2, <2>1, <2>2, <2>3, <2>4, OneChanges
<1> QED BY <1>3, <1>4

LEMMA DiscardKeeps == ASSUME IInv, Wipe \/ WipeFails \/ Discarded PROVE IInv'
<1>1. op.kind = "discard"
  BY DEF Wipe, WipeFails, Discarded, At
<1>2. PICK w \in Ids : w = op.w
  BY <1>1, OpKnown DEF IInv
<1>3. /\ op \in [kind : {"discard"}, at : {"wiping", "wiped"}, w : Ids]
      /\ WorkspaceFits(w) /\ CommandFits /\ Types
      /\ base \in [Ids -> {"none", "whole", "cacheless", "gone"}]
      /\ cache \in [Ids -> {"clean", "late", "unsynced"}]
      /\ \A v : ~Closing(v)
  BY <1>1, <1>2, OpKnown DEF IInv, Types, Closing
<1>4. /\ w \notin window /\ entry[w].status \in Live
      /\ op.at = "wiped" => cache[w] = "clean"
  BY <1>1, <1>2, <1>3 DEF CommandFits
<1>5. CASE Wipe
  <2>1. /\ base' = [base EXCEPT ![w] = "cacheless"] /\ cache' = [cache EXCEPT ![w] = "clean"]
        /\ op' = [op EXCEPT !.at = "wiped"] /\ UNCHANGED <<entry, rclone, window, due, crashes, overtaken>>
    BY <1>2, <1>5 DEF Wipe, Goto
  <2>2. op'.kind = "discard" /\ op'.w = w /\ op'.at = "wiped" /\ op' \in OpTypes
    BY <1>2, <1>3, <2>1 DEF OpTypes
  <2>3. CommandFits'
    BY <1>3, <1>4, <2>1, <2>2 DEF CommandFits
  <2>4. Types'
    BY <1>3, <2>1, <2>2 DEF Types
  <2>5. WorkspaceFits(w)'
    BY <1>3, <1>4, <2>1 DEF WorkspaceFits
  <2> QED BY <1>3, <2>1, <2>3, <2>4, <2>5, OneChanges
<1>6. CASE WipeFails
  <2>1. op' = Idle /\ UNCHANGED <<entry, base, rclone, cache, window, due, crashes, overtaken>>
    BY <1>6 DEF WipeFails, Release
  <2>2. Types' /\ CommandFits'
    BY <1>3, <2>1, Over DEF Types
  <2> QED BY <1>3, <2>1, <2>2, NoneChanges
<1>7. CASE Discarded
  <2>1. /\ base' = [base EXCEPT ![w] = "whole"] /\ SetStatus(w, "abandoned") /\ op' = Idle
        /\ cache[w] = "clean" /\ UNCHANGED <<rclone, cache, window, due, crashes>>
        /\ overtaken' = IF rclone[w] = "none" THEN overtaken ELSE overtaken \cup {w}
    BY <1>2, <1>4, <1>7 DEF Discarded, Release, At
  <2>2. /\ entry' \in [Ids -> EntryTypes] /\ entry'[w].status = "abandoned"
        /\ entry'[w].mode = entry[w].mode /\ entry'[w].dir = entry[w].dir
        /\ \A v \in Ids \ {w} : entry'[v] = entry[v]
    BY <2>1, StatusChanges DEF Statuses, Retired
  <2>3. Types' /\ CommandFits'
    BY <1>3, <2>1, <2>2, Over DEF Types
  <2>4. WorkspaceFits(w)'
    BY <1>3, <1>4, <2>1, <2>2 DEF WorkspaceFits
  <2> QED BY <1>3, <2>1, <2>2, <2>3, <2>4, OneChanges
<1> QED BY <1>5, <1>6, <1>7

LEMMA RetryKeeps == ASSUME IInv, Retried \/ RetryFails PROVE IInv'
<1>1. op.kind = "retry"
  BY DEF Retried, RetryFails, At
<1>2. PICK w \in Ids : w = op.w
  BY <1>1, OpKnown DEF IInv
<1>3. /\ WorkspaceFits(w) /\ CommandFits /\ Types /\ entry[w].status \in Live
      /\ rclone \in [Ids -> {"none", "starting", "mounted"}]
      /\ \A v : ~Closing(v)
  BY <1>1, <1>2 DEF IInv, Types, Closing, CommandFits
<1>4. cache[w] # "late"
  BY <1>3 DEF WorkspaceFits, Known, Revived, Live, Leased, Recoverable, Retired
<1>5. CASE Retried
  <2>1. /\ SetStatus(w, "recovering") /\ window' = window \cup {w} /\ op' = Idle /\ Mounted(w)
        /\ UNCHANGED <<base, rclone, cache, due, crashes, overtaken>>
    BY <1>2, <1>5 DEF Retried, Release
  <2>2. /\ entry' \in [Ids -> EntryTypes] /\ entry'[w].status = "recovering"
        /\ entry'[w].mode = entry[w].mode /\ entry'[w].dir = entry[w].dir
        /\ \A v \in Ids \ {w} : entry'[v] = entry[v]
    BY <2>1, StatusChanges DEF Statuses, Leased
  <2>3. Types' /\ CommandFits'
    BY <1>3, <2>1, <2>2, Over DEF Types
  <2>4. WorkspaceFits(w)'
    BY <1>3, <1>4, <2>1, <2>2 DEF WorkspaceFits, Mounted, Known, Revived, Live, Leased
  <2> QED BY <1>3, <2>1, <2>2, <2>3, <2>4, OneChanges
<1>6. CASE RetryFails
  <2>1. /\ SetStatus(w, "needs_recovery") /\ rclone' = [rclone EXCEPT ![w] = "none"] /\ op' = Idle
        /\ ~Mounted(w) /\ UNCHANGED <<base, cache, window, due, crashes, overtaken>>
    BY <1>2, <1>6 DEF RetryFails, Release
  <2>2. /\ entry' \in [Ids -> EntryTypes] /\ entry'[w].status = "needs_recovery"
        /\ entry'[w].mode = entry[w].mode /\ entry'[w].dir = entry[w].dir
        /\ \A v \in Ids \ {w} : entry'[v] = entry[v]
    BY <2>1, StatusChanges DEF Statuses, Recoverable
  <2>3. Types' /\ CommandFits'
    BY <1>3, <2>1, <2>2, Over DEF Types
  <2>4. WorkspaceFits(w)'
    BY <1>3, <1>4, <2>1, <2>2 DEF WorkspaceFits, Mounted, Known, Revived, Live, Recoverable
  <2> QED BY <1>3, <2>1, <2>2, <2>3, <2>4, OneChanges
<1> QED BY <1>5, <1>6
---------------------------------------------------------------------------
(* cleanup, and the end of a gateway process *)

LEMMA CleanupBegins == ASSUME IInv, Cleanup PROVE IInv'
<1>1. /\ op = Idle /\ UNCHANGED <<entry, base, rclone, cache, window, due, crashes, overtaken>>
      /\ op' = [kind |-> "cleanup", at |-> "removing", todo |-> Candidates, removed |-> {}]
  BY DEF Cleanup, Take
<1>2. op' \in OpTypes /\ CommandFits'
  BY <1>1 DEF OpTypes, CommandFits, Candidates
<1>3. Types'
  BY <1>1, <1>2 DEF IInv, Types
<1> QED BY <1>1, <1>2, <1>3, NoneChanges DEF Closing, Idle

LEMMA RemoveKeeps ==
    ASSUME IInv, NEW w \in Ids, RemoveOne(w) \/ SkipOne(w) \/ RemoveFails(w)
    PROVE  IInv'
<1>1. /\ op.kind = "cleanup" /\ w \in op.todo
      /\ UNCHANGED <<entry, rclone, window, due, crashes, overtaken>>
  BY DEF RemoveOne, SkipOne, RemoveFails, At
<1>2. /\ op \in [kind : {"cleanup"}, at : {"removing"}, todo : SUBSET Ids, removed : SUBSET Ids]
      /\ WorkspaceFits(w) /\ CommandFits /\ Types
      /\ base \in [Ids -> {"none", "whole", "cacheless", "gone"}]
      /\ cache \in [Ids -> {"clean", "late", "unsynced"}]
      /\ \A v : ~Closing(v)
  BY <1>1, OpKnown DEF IInv, Types, Closing
<1>3. /\ \A v \in op.todo \cup op.removed : entry[v].status \in Retired
      /\ \A v \in op.removed : cache[v] = "clean" /\ v \notin window
  BY <1>1, <1>2 DEF CommandFits
<1>4. CASE RemoveOne(w)
  <2>1. /\ base' = [base EXCEPT ![w] = "gone"] /\ cache' = [cache EXCEPT ![w] = "clean"]
        /\ op' = [op EXCEPT !.todo = @ \ {w}, !.removed = @ \cup {w}]
    BY <1>4 DEF RemoveOne
  <2>2. /\ op'.kind = "cleanup" /\ op'.todo = op.todo \ {w} /\ op'.removed = op.removed \cup {w}
        /\ op' \in OpTypes
    BY <1>2, <2>1 DEF OpTypes
  <2>3. CommandFits'
    <3>1. w \notin window /\ cache'[w] = "clean" /\ \A v \in Ids \ {w} : cache'[v] = cache[v]
      BY <1>2, <1>4, <2>1 DEF RemoveOne, WorkspaceFits
    <3> QED BY <1>1, <1>2, <1>3, <2>2, <3>1 DEF CommandFits
  <2>4. Types'
    BY <1>1, <1>2, <2>1, <2>2 DEF Types
  <2>5. WorkspaceFits(w)'
    BY <1>1, <1>2, <2>1 DEF WorkspaceFits, Mounted, Known, Revived
  <2> QED BY <1>1, <1>2, <2>1, <2>3, <2>4, <2>5, OneChanges
<1>5. CASE SkipOne(w)
  <2>1. UNCHANGED <<base, cache>> /\ op' = [op EXCEPT !.todo = @ \ {w}]
    BY <1>5 DEF SkipOne
  <2>2. /\ op'.kind = "cleanup" /\ op'.todo = op.todo \ {w} /\ op'.removed = op.removed
        /\ op' \in OpTypes
    BY <1>2, <2>1 DEF OpTypes
  <2>3. CommandFits'
    BY <1>1, <1>3, <2>1, <2>2 DEF CommandFits
  <2>4. Types'
    BY <1>1, <1>2, <2>1, <2>2 DEF Types
  <2> QED BY <1>1, <1>2, <2>1, <2>3, <2>4, NoneChanges
<1>6. CASE RemoveFails(w)
  <2>1. UNCHANGED <<base, cache>> /\ op' = Idle
    BY <1>6 DEF RemoveFails, Release
  <2>2. Types' /\ CommandFits'
    BY <1>1, <1>2, <2>1, Over DEF Types
  <2> QED BY <1>1, <1>2, <2>1, <2>2, NoneChanges
<1> QED BY <1>4, <1>5, <1>6

LEMMA CleanupEnds == ASSUME IInv, CleanupSaves PROVE IInv'
<1>1. /\ op.kind = "cleanup" /\ op' = Idle /\ UNCHANGED <<base, rclone, cache, window, due, crashes, overtaken>>
      /\ entry' = [w \in Ids |-> IF w \in op.removed THEN Absent ELSE entry[w]]
  BY DEF CleanupSaves, At, Release
<1>2. /\ Types /\ \A v \in op.todo \cup op.removed : entry[v].status \in Retired
      /\ \A v \in op.removed : cache[v] = "clean" /\ v \notin window
  BY <1>1 DEF IInv, CommandFits
<1>3. Absent \in EntryTypes /\ Absent.dir = Root
  BY DEF Absent, EntryTypes, Statuses, Modes
<1>4. entry' \in [Ids -> EntryTypes]
  BY <1>1, <1>2, <1>3 DEF Types
<1>5. Types' /\ CommandFits'
  BY <1>1, <1>2, <1>4, Over DEF Types
<1>6. ASSUME NEW w \in Ids PROVE WorkspaceFits(w)'
  <2>1. WorkspaceFits(w) /\ ~Closing(w)
    BY <1>1 DEF IInv, Closing
  <2>2. CASE w \in op.removed
    <3>1. cache[w] = "clean" /\ entry[w].status \in Retired /\ entry'[w] = Absent
      BY <1>1, <1>2, <2>2
    <3>2. w \notin window
      BY <1>2, <2>2
    <3>3. Absent.status = "absent"
      BY DEF Absent
    <3> QED BY <1>1, <1>3, <3>1, <3>2, <3>3, WorkspaceNumbers DEF WorkspaceFits
  <2>3. CASE w \notin op.removed
    <3>1. entry'[w] = entry[w]
      BY <1>1, <2>3
    <3> QED BY <1>1, <2>1, <3>1 DEF WorkspaceFits, Mounted, Known, Revived
  <2> QED BY <2>2, <2>3
<1> QED BY <1>5, <1>6 DEF IInv

LEMMA KilledKeeps == ASSUME IInv, Killed PROVE IInv'
<1>1. /\ op' = Idle /\ crashes < MaxCrashes /\ crashes' = crashes + 1
      /\ UNCHANGED <<entry, base, rclone, window, due, overtaken>>
      /\ IF op.kind = "close" THEN StaysOpen(op.w) ELSE cache' = cache
  BY DEF Killed, Release
<1>2. Types /\ MaxCrashes \in Nat /\ crashes \in 0 .. MaxCrashes
  BY WorkspaceNumbers DEF IInv, Types
<1>3. crashes' \in 0 .. MaxCrashes
  BY <1>1, <1>2
<1>4. CASE op.kind # "close"
  <2>1. UNCHANGED cache /\ \A v : ~Closing(v)
    BY <1>1, <1>4 DEF Closing
  <2>2. Types' /\ CommandFits'
    BY <1>1, <1>2, <1>3, <2>1, Over DEF Types
  <2> QED BY <1>1, <2>1, <2>2, NoneChanges
<1>5. CASE op.kind = "close"
  <2>1. PICK w \in Ids : w = op.w
    BY <1>2, <1>5, OpKnown
  <2>2. /\ cache' = [cache EXCEPT ![w] = IF @ = "late" THEN "unsynced" ELSE @]
        /\ cache \in [Ids -> {"clean", "late", "unsynced"}] /\ WorkspaceFits(w)
        /\ \A v \in Ids \ {w} : ~Closing(v)
    BY <1>1, <1>5, <2>1 DEF StaysOpen, IInv, Types, Closing
  <2>3. /\ cache' \in [Ids -> {"clean", "late", "unsynced"}]
        /\ cache'[w] = IF cache[w] = "late" THEN "unsynced" ELSE cache[w]
        /\ \A v \in Ids \ {w} : cache'[v] = cache[v]
    BY <2>2
  <2>4. Types' /\ CommandFits'
    BY <1>1, <1>2, <1>3, <2>3, Over DEF Types
  <2>5. WorkspaceFits(w)'
    <3>1. cache[w] = "late" => Known(w)
      BY <1>5, <2>1 DEF IInv, CommandFits
    <3> QED BY <1>1, <2>2, <2>3, <3>1 DEF WorkspaceFits, Mounted, Known, Revived
  <2> QED BY <1>1, <2>2, <2>3, <2>4, <2>5, OneChanges
<1> QED BY <1>4, <1>5
---------------------------------------------------------------------------
(* The theorems *)

LEMMA Initially == ASSUME Init PROVE IInv
<1>1. Absent \in EntryTypes /\ Absent.dir = Root
  BY DEF Absent, EntryTypes, Statuses, Modes
<1>2. Types
  BY <1>1, WorkspaceNumbers DEF Init, Types, OpTypes
<1>3. CommandFits
  BY DEF Init, CommandFits, Idle
<1>4. ASSUME NEW w \in Ids PROVE WorkspaceFits(w)
  <2>1. /\ entry[w] = Absent /\ rclone[w] = "none" /\ cache[w] = "clean" /\ w \notin window
    BY DEF Init
  <2>2. Absent.status = "absent"
    BY DEF Absent
  <2> QED BY <1>1, <2>1, <2>2, WorkspaceNumbers DEF WorkspaceFits
<1> QED BY <1>2, <1>3, <1>4 DEF IInv

LEMMA Inductive == ASSUME IInv, [Next]_vars PROVE IInv'
<1>1. CASE UNCHANGED vars
  <2>1. Types' /\ CommandFits'
    BY <1>1 DEF vars, IInv, Types, CommandFits, Known, Revived
  <2> QED BY <1>1, <2>1, NoneChanges DEF vars, Closing
<1>2. ASSUME NEW w \in Ids,
             \/ \E d \in Dirs, mode \in Modes : Open(w, d, mode)
             \/ Status(w) \/ Listed(w) \/ OpenReports(w) \/ CloseRefused(w) \/ Close(w)
             \/ Discard(w) \/ Retry(w)
             \/ RemoveOne(w) \/ SkipOne(w) \/ RemoveFails(w)
             \/ MountUp(w) \/ MountGone(w) \/ Write(w) \/ Upload(w)
      PROVE  IInv'
  BY <1>2, OpenKeeps, StatusKeeps, ListedKeeps, CloseBegins, RecoverBegins, RemoveKeeps, MountUpKeeps,
     MountGoneKeeps, WriteKeeps, UploadKeeps
<1>3. CASE \/ Opened \/ OpenFails
           \/ QueueEmpty \/ QueueUnknown \/ StillQueued \/ Unmount \/ UnmountFails \/ Closed
           \/ Wipe \/ WipeFails \/ Discarded \/ Retried \/ RetryFails
           \/ Cleanup \/ CleanupSaves \/ Killed
  BY <1>3, OpenedKeeps, QueueKeeps, UnmountKeeps, DiscardKeeps, RetryKeeps, CleanupBegins,
     CleanupEnds, KilledKeeps
<1> QED BY <1>1, <1>2, <1>3 DEF Next

\* The invariant of the workspaces (huwei_workspace_gateway.py).
THEOREM Invariant == Spec => []IInv
<1>1. Init => IInv
  BY Initially
<1>2. IInv /\ [Next]_vars => IInv'
  BY Inductive
<1> QED BY <1>1, <1>2, PTL DEF Spec

\* Every variable keeps its type.
THEOREM TypeCorrect == Spec => []TypeOK
<1>1. ASSUME IInv PROVE TypeOK
  <2>1. \A w \in Ids : WorkspaceFits(w)
    BY <1>1 DEF IInv
  <2>2. /\ op = Idle \/ op.kind \in {"open", "close", "discard", "retry", "cleanup"}
        /\ op.kind = "none" => op = Idle
    BY <1>1, OpKnown DEF IInv
  <2> QED BY <1>1, <2>1, <2>2 DEF TypeOK, IInv, Types, EntryTypes, WorkspaceFits
<1> QED BY <1>1, Invariant, PTL

\* For any workspaces, directories and crashes: a write that is not on the server
\* belongs to a workspace that is listed as open or to be recovered (close, recover
\* and cleanup).
THEOREM KnowsUnsynced == Spec => []UnsyncedKnown
<1>1. IInv => UnsyncedKnown
  BY DEF IInv, UnsyncedKnown, WorkspaceFits, Known, Live
<1> QED BY <1>1, Invariant, PTL

\* And it is lost only if the user gives up the cache of that workspace.
THEOREM LosesNothing == Spec => NothingLost
<1>1. IInv /\ [Next]_vars =>
        [\A w \in Ids : cache[w] = "unsynced" /\ cache'[w] = "clean" => UploadedOrGivenUp(w)]_vars
  <2> SUFFICES ASSUME IInv, [Next]_vars, NEW w \in Ids, cache[w] = "unsynced", cache'[w] = "clean"
               PROVE  UploadedOrGivenUp(w)
    OBVIOUS
  <2>1. Known(w) /\ cache \in [Ids -> {"clean", "late", "unsynced"}]
    BY DEF IInv, WorkspaceFits, Types
  <2>2. cache' # cache
    OBVIOUS
  <2>3. CASE \E v \in Ids : Upload(v)
    <3>1. PICK v \in Ids : Upload(v)
      BY <2>3
    <3>2. v = w
      BY <2>1, <3>1 DEF Upload
    <3> QED BY <3>1, <3>2 DEF Upload, UploadedOrGivenUp
  <2>4. CASE \E v \in Ids : Write(v)
    <3>1. PICK v \in Ids : Write(v)
      BY <2>4
    <3> QED BY <2>1, <3>1 DEF Write
  <2>5. CASE \E v \in Ids : RemoveOne(v)
    <3>1. PICK v \in Ids : RemoveOne(v)
      BY <2>5
    <3>2. v = w
      BY <2>1, <3>1 DEF RemoveOne
    <3>3. op.kind = "cleanup" /\ entry[w].status \in Retired
      BY <3>1, <3>2 DEF RemoveOne, At, IInv, CommandFits
    <3>4. Revived(w)
      BY <2>1, <3>3 DEF Known, Live, Leased, Recoverable, Retired
    <3> QED BY <3>3, <3>4 DEF UploadedOrGivenUp
  <2>6. CASE Wipe
    <3>1. op.kind = "discard" /\ op.w = w
      BY <2>1, <2>6 DEF Wipe, At
    <3> QED BY <3>1 DEF UploadedOrGivenUp
  <2>7. CASE UnmountFails \/ Killed
    BY <2>1, <2>2, <2>7 DEF UnmountFails, Killed, StaysOpen
  <2> QED BY <2>2, <2>3, <2>4, <2>5, <2>6, <2>7 DEF Next, vars, Open, Status, Listed, OpenReports,
        CloseRefused, Close, Discard, Retry, SkipOne, RemoveFails, MountUp, MountGone, Opened,
        OpenFails, QueueEmpty, QueueUnknown, StillQueued, Unmount, Closed, WipeFails, Discarded,
        Retried, RetryFails, Cleanup, CleanupSaves
<1> QED BY <1>1, Invariant, PTL DEF Spec, NothingLost
-----------------------------------------------------------------------------
(* The history of a server *)

ThreadTypes == [at : {"idle", "add", "merge", "read", "write"}, value : Values \cup {0},
                text : Seq(History!Samples), known : SUBSET History!Minutes,
                rows : SUBSET History!Buckets]
HistoryTypes == /\ now \in 0 .. MaxTime /\ checks \subseteq 0 .. MaxTime + 2 /\ beat \in 0 .. MaxTime
                /\ dir \in {"absent", "whole", "bare"}
                /\ remote \in Seq(History!Samples) /\ hist \subseteq History!Buckets
                /\ th \in [Threads -> ThreadTypes]
                /\ \A t \in Threads : th[t].at = "add" => th[t].value \in Values
                /\ sampled \in 0 .. MaxTime /\ seeded \in 0 .. MaxTime /\ raced \in BOOLEAN
                /\ polled \subseteq History!Samples /\ merged \subseteq History!Samples

\* A heartbeat is a measurement or an installation, and every loop of a daemon that
\* is whole looks at it in time.
InTime == /\ sampled <= now /\ seeded <= now
          /\ beat <= sampled \/ beat <= seeded
          /\ \A c \in checks : now <= c /\ c <= now + 2
          /\ dir = "whole" => \A c \in checks : \/ c <= sampled + Grace + 2
                                               \/ c <= seeded + Grace + 2

\* Rows that say only what was measured.
Sound(rows, given) == \A b \in rows : {<<b.t, b.lo>>, <<b.t, b.hi>>} \subseteq given /\ b.lo <= b.hi

\* Rows that say all of it, at a time.
Lapsed(m, time) == 2 * (m + Keep) < time
Covers(rows, polls, merges, time) ==
    /\ \A b, c \in rows : b.t = c.t => b = c
    /\ \A s \in polls : ~Lapsed(s[1], time) =>
           \E b \in rows : b.t = s[1] /\ b.lo <= s[2] /\ s[2] <= b.hi
    /\ \A s \in merges : ~Lapsed(s[1], time) => \E b \in rows : b.t = s[1]

\* A use of the store that no other overlaps.
UseFits(t) ==
    /\ th[t].at = "write" => Sound(th[t].rows, polled \cup merged)
    /\ ~raced /\ th[t].at # "idle" =>
         /\ \A u \in Threads : th[u].at # "idle" => u = t
         /\ th[t].at = "write" => Covers(th[t].rows, polled, merged, now)
         /\ th[t].at = "read" => th[t].known = {b.t : b \in hist}
StoreFits ==
    /\ Sound(hist, polled \cup merged)
    /\ ~raced /\ (\A t \in Threads : th[t].at # "write") =>
         Covers(hist, polled, merged, now)
    /\ \A t \in Threads : UseFits(t)

HistoryInv == HistoryTypes /\ InTime /\ StoreFits

LEMMA HistoryNumbers ==
    /\ Values \subseteq Nat /\ MaxTime \in Nat /\ Keep \in Nat /\ TailRows \in Nat /\ Grace \in Nat
<1> QED BY HistoryConstants DEF History!HistoryAssumption

LEMMA MinuteGrows ==
    ASSUME NEW a \in 0 .. MaxTime, NEW b \in 0 .. MaxTime, a <= b
    PROVE  /\ History!Minute(a) \in History!Minutes /\ History!Minute(a) \in Nat
           /\ History!Minute(a) <= History!Minute(b)
<1>1. /\ a \in Nat /\ b \in Nat /\ MaxTime \in Nat /\ a <= MaxTime
  BY HistoryNumbers
<1>2. /\ a \div 2 \in Nat /\ MaxTime \div 2 \in Nat
      /\ a \div 2 <= b \div 2 /\ a \div 2 <= MaxTime \div 2
  BY <1>1
<1> QED BY <1>2 DEF History!Minute, History!Minutes

LEMMA RowTypes ==
    /\ \A s \in History!Samples : s[1] \in Nat /\ s[2] \in Nat /\ s = <<s[1], s[2]>>
    /\ \A b \in History!Buckets : /\ b.t \in Nat /\ b.lo \in Nat /\ b.hi \in Nat
                                  /\ b.t \in History!Minutes /\ b.lo \in Values /\ b.hi \in Values
                                  /\ b = [t |-> b.t, lo |-> b.lo, hi |-> b.hi]
    /\ History!Minutes \subseteq Nat
<1>1. MaxTime \div 2 \in Nat /\ History!Minutes \subseteq Nat
  BY HistoryNumbers DEF History!Minutes, History!Minute
<1>2. ASSUME NEW s \in History!Samples PROVE s[1] \in Nat /\ s[2] \in Nat /\ s = <<s[1], s[2]>>
  <2>1. PICK m \in History!Minutes, v \in Values : s = <<m, v>>
    BY DEF History!Samples
  <2> QED BY <1>1, <2>1, HistoryNumbers
<1>3. ASSUME NEW b \in History!Buckets
      PROVE  /\ b.t \in Nat /\ b.lo \in Nat /\ b.hi \in Nat
             /\ b.t \in History!Minutes /\ b.lo \in Values /\ b.hi \in Values
             /\ b = [t |-> b.t, lo |-> b.lo, hi |-> b.hi]
  BY <1>1, HistoryNumbers DEF History!Buckets
<1> QED BY <1>1, <1>2, <1>3

\* A nonempty set of positions has a last one.
LEMMA LastPosition ==
    ASSUME NEW n \in Nat, NEW S \in SUBSET (1 .. n), S # {}
    PROVE  \E i \in S : \A j \in S : j <= i
<1> DEFINE T == {k \in 0 .. n : n - k \in S}
<1>1. T \subseteq Nat /\ T # {}
  <2>1. PICK i \in S : TRUE
    OBVIOUS
  <2>2. n - i \in 0 .. n /\ n - (n - i) = i
    OBVIOUS
  <2>3. n - i \in T
    BY <2>2
  <2>4. T \subseteq Nat
    OBVIOUS
  <2> HIDE DEF T
  <2> QED BY <2>3, <2>4
<1>2. PICK k \in T : \A l \in T : <<l, k>> \notin OpToRel(<, Nat)
  <2> HIDE DEF T
  <2> QED BY <1>1, WFMin, NatLessThanWellFounded
<1>3. \A l \in T : k <= l
  <2>1. \A l \in T : ~(l < k)
    BY <1>1, <1>2 DEF OpToRel
  <2> HIDE DEF T
  <2> QED BY <1>1, <2>1
<1>4. n - k \in S
  OBVIOUS
<1>5. ASSUME NEW j \in S PROVE j <= n - k
  <2>1. n - j \in 0 .. n /\ n - (n - j) = j
    OBVIOUS
  <2>2. n - j \in T
    BY <2>1
  <2>3. k <= n - j
    BY <1>3, <2>2
  <2> QED BY <2>3
<1> QED BY <1>4, <1>5

\* What a text says of a minute is one of its rows.
LEMMA LastOfText ==
    ASSUME NEW text \in Seq(History!Samples), NEW m, NEW i \in DOMAIN text, text[i][1] = m
    PROVE  \E j \in DOMAIN text : text[j][1] = m /\ text[j][2] = History!LastOf(text, m)
<1> DEFINE rows == {j \in DOMAIN text : text[j][1] = m}
<1>1. DOMAIN text = 1 .. Len(text) /\ Len(text) \in Nat
  OBVIOUS
<1>2. rows \in SUBSET (1 .. Len(text)) /\ i \in rows
  BY <1>1
<1>3. \E j \in rows : \A k \in rows : k <= j
  <2> HIDE DEF rows
  <2> QED BY <1>1, <1>2, LastPosition
<1>4. (CHOOSE j \in rows : \A k \in rows : k <= j) \in rows
  <2> HIDE DEF rows
  <2> QED BY <1>3
<1> QED BY <1>4 DEF History!LastOf

\* Fresh rows: one for each new minute, with a value of the text.
LEMMA FreshRows ==
    ASSUME NEW text \in Seq(History!Samples), NEW known,
           NEW b \in History!Fresh(text, known)
    PROVE  /\ b \in History!Buckets /\ b.t \in History!NewMinutes(text, known)
           /\ \E j \in DOMAIN text : text[j] = <<b.t, b.lo>> /\ text[j] = <<b.t, b.hi>>
           /\ b = History!NewBucket(b.t, History!LastOf(text, b.t))
<1>1. PICK m \in History!NewMinutes(text, known) : b = History!NewBucket(m, History!LastOf(text, m))
  BY DEF History!Fresh
<1>2. PICK i \in DOMAIN text : text[i][1] = m
  BY DEF History!NewMinutes
<1>3. PICK j \in DOMAIN text : text[j][1] = m /\ text[j][2] = History!LastOf(text, m)
  BY <1>2, LastOfText
<1>4. text[j] \in History!Samples
  BY <1>3
<1>5. /\ m \in History!Minutes /\ History!LastOf(text, m) \in Values
      /\ text[j] = <<m, History!LastOf(text, m)>>
  BY <1>3, <1>4 DEF History!Samples
<1>6. b.t = m /\ b.lo = History!LastOf(text, m) /\ b.hi = History!LastOf(text, m)
  BY <1>1 DEF History!NewBucket
<1> QED BY <1>1, <1>5, <1>6 DEF History!NewBucket, History!Buckets

\* All of the new minutes.
LEMMA FreshMinutes ==
    ASSUME NEW text, NEW known, NEW m \in History!NewMinutes(text, known)
    PROVE  \E b \in History!Fresh(text, known) : b.t = m
<1>1. History!NewBucket(m, History!LastOf(text, m)) \in History!Fresh(text, known)
  BY DEF History!Fresh
<1> QED BY <1>1 DEF History!NewBucket

\* What is kept of rows.
Kept(rows, time) == {b \in rows : 2 * (b.t + Keep) >= time}

LEMMA SoundMonotone ==
    ASSUME NEW rows, NEW less \in SUBSET rows, NEW given, NEW more, given \subseteq more,
           Sound(rows, given)
    PROVE  Sound(less, more)
<1> QED BY DEF Sound

LEMMA SoundUnion ==
    ASSUME NEW rows, NEW others, NEW given, Sound(rows, given), Sound(others, given)
    PROVE  Sound(rows \cup others, given)
<1> QED BY DEF Sound

\* A later time asks for less, and pruning takes away what it does not ask for.
LEMMA CoversLater ==
    ASSUME NEW rows \in SUBSET History!Buckets, NEW polls \in SUBSET History!Samples,
           NEW merges \in SUBSET History!Samples, NEW m \in Nat, NEW n \in Nat, m <= n,
           Covers(rows, polls, merges, m)
    PROVE  Covers(rows, polls, merges, n) /\ Covers(Kept(rows, n), polls, merges, n)
<1>1. ASSUME NEW s \in History!Samples, ~Lapsed(s[1], n)
      PROVE  ~Lapsed(s[1], m) /\ 2 * (s[1] + Keep) >= n
  BY <1>1, RowTypes, HistoryNumbers DEF Lapsed
<1>2. \A b \in rows : 2 * (b.t + Keep) >= n => b \in Kept(rows, n)
  BY DEF Kept
<1>3. Kept(rows, n) \subseteq rows
  BY DEF Kept
<1>4. ASSUME NEW s \in polls, ~Lapsed(s[1], n)
      PROVE  \E b \in Kept(rows, n) : b.t = s[1] /\ b.lo <= s[2] /\ s[2] <= b.hi
  BY <1>1, <1>2, <1>4 DEF Covers
<1>5. ASSUME NEW s \in merges, ~Lapsed(s[1], n) PROVE \E b \in Kept(rows, n) : b.t = s[1]
  BY <1>1, <1>2, <1>5 DEF Covers
<1>6. \A b, c \in rows : b.t = c.t => b = c
  BY DEF Covers
<1> QED BY <1>3, <1>4, <1>5, <1>6 DEF Covers

\* A sample added to the rows of its minute, as append_sample does.
AddedTo(rows, m, v) ==
    LET same == {b \in rows : b.t = m}
    IN  IF same = {} THEN {rows \cup {History!NewBucket(m, v)}}
        ELSE {(rows \ {b}) \cup {History!Widened(b, v)} : b \in same}

LEMMA WidenedHolds ==
    ASSUME NEW b \in History!Buckets, NEW v \in Values
    PROVE  LET w == History!Widened(b, v)
           IN  /\ w \in History!Buckets /\ w.t = b.t
               /\ w.lo <= b.lo /\ b.hi <= w.hi /\ w.lo <= v /\ v <= w.hi
               /\ w.lo \in {b.lo, v} /\ w.hi \in {b.hi, v}
<1>1. b.lo \in Values /\ b.hi \in Values /\ b.lo \in Nat /\ b.hi \in Nat /\ v \in Nat /\ b.t \in History!Minutes
  BY RowTypes, HistoryNumbers
<1>2. LET l == History!Lower(b.lo, v) IN l \in {b.lo, v} /\ l <= b.lo /\ l <= v
  BY <1>1 DEF History!Lower
<1>3. LET h == History!Higher(b.hi, v) IN h \in {b.hi, v} /\ b.hi <= h /\ v <= h
  BY <1>1 DEF History!Higher
<1>4. \A x, y \in Values :
        LET w == [b EXCEPT !.lo = x, !.hi = y]
        IN  w \in History!Buckets /\ w.t = b.t /\ w.lo = x /\ w.hi = y
  BY DEF History!Buckets
<1>5. History!Lower(b.lo, v) \in Values /\ History!Higher(b.hi, v) \in Values
  BY <1>1, <1>2, <1>3
<1>6. LET w == History!Widened(b, v)
      IN  /\ w \in History!Buckets /\ w.t = b.t
          /\ w.lo = History!Lower(b.lo, v) /\ w.hi = History!Higher(b.hi, v)
  BY <1>4, <1>5 DEF History!Widened
<1> DEFINE w == History!Widened(b, v)
<1>7. /\ w.lo <= b.lo /\ w.lo <= v /\ w.lo \in {b.lo, v}
      /\ b.hi <= w.hi /\ v <= w.hi /\ w.hi \in {b.hi, v} /\ w.t = b.t
  BY <1>2, <1>3, <1>6
<1> QED BY <1>6, <1>7

\* The sample is among the result, and so is whatever was there.
Extends(rows, m, v, result) ==
    /\ \E c \in result : c.t = m /\ c.lo <= v /\ v <= c.hi
    /\ \A b \in rows : \E c \in result : c.t = b.t /\ c.lo <= b.lo /\ b.hi <= c.hi
    /\ (\A b, c \in rows : b.t = c.t => b = c) => \A b, c \in result : b.t = c.t => b = c

LEMMA AddedHolds ==
    ASSUME NEW rows \in SUBSET History!Buckets, NEW m \in History!Minutes, NEW v \in Values,
           NEW result \in AddedTo(rows, m, v), NEW given \in SUBSET History!Samples,
           Sound(rows, given)
    PROVE  /\ result \subseteq History!Buckets
           /\ Sound(result, given \cup {<<m, v>>})
           /\ Extends(rows, m, v, result)
<1> DEFINE more == given \cup {<<m, v>>}
<1>1. Sound(rows, more)
  BY SoundMonotone
<1>2. \A b \in rows : /\ b \in History!Buckets /\ b.lo \in Nat /\ b.hi \in Nat
                       /\ b.lo <= b.lo /\ b.hi <= b.hi
  BY RowTypes
<1>3. CASE /\ {b \in rows : b.t = m} = {}
           /\ result = rows \cup {History!NewBucket(m, v)}
  <2> DEFINE new == History!NewBucket(m, v)
  <2>1. new = [t |-> m, lo |-> v, hi |-> v] /\ new.t = m /\ new.lo = v /\ new.hi = v
    BY DEF History!NewBucket
  <2>2. new \in History!Buckets /\ v <= v
    BY <2>1, HistoryNumbers DEF History!Buckets
  <2>3. Sound({new}, more)
    BY <2>1, <2>2 DEF Sound
  <2>4. Sound(result, more)
    BY <1>1, <1>3, <2>3, SoundUnion
  <2> HIDE DEF new
  <2>5. result = rows \cup {new}
    BY <1>3 DEF new
  <2>6. \A b \in rows : b.t # m
    BY <1>3
  <2> QED BY <1>2, <2>1, <2>2, <2>4, <2>5, <2>6 DEF Extends
<1>4. CASE \E b \in rows : b.t = m /\ result = (rows \ {b}) \cup {History!Widened(b, v)}
  <2>1. PICK b \in rows : b.t = m /\ result = (rows \ {b}) \cup {History!Widened(b, v)}
    BY <1>4
  <2> DEFINE w == History!Widened(b, v)
  <2>2. /\ w \in History!Buckets /\ w.t = m
        /\ w.lo <= b.lo /\ b.hi <= w.hi /\ w.lo <= v /\ v <= w.hi
        /\ w.lo \in {b.lo, v} /\ w.hi \in {b.hi, v}
    BY <1>2, <2>1, WidenedHolds
  <2> HIDE DEF w
  <2>3. result = (rows \ {b}) \cup {w}
    BY <2>1 DEF w
  <2>4. w.lo <= w.hi
    <3>1. w.lo \in Nat /\ w.hi \in Nat /\ v \in Nat
      BY <2>2, RowTypes, HistoryNumbers
    <3> QED BY <2>2, <3>1
  <2>5. {<<w.t, w.lo>>, <<w.t, w.hi>>} \subseteq more
    <3>1. <<b.t, b.lo>> \in given /\ <<b.t, b.hi>> \in given
      BY DEF Sound
    <3> QED BY <2>1, <2>2, <3>1
  <2>6. Sound({w}, more)
    BY <2>4, <2>5 DEF Sound
  <2>7. Sound(rows \ {b}, more)
    BY <1>1, SoundMonotone
  <2>8. Sound(result, more)
    BY <2>3, <2>6, <2>7, SoundUnion
  <2>9. \A c \in rows : \E d \in result : d.t = c.t /\ d.lo <= c.lo /\ c.hi <= d.hi
    BY <1>2, <2>1, <2>2, <2>3
  <2> QED BY <2>1, <2>2, <2>3, <2>8, <2>9 DEF Extends
<1> QED BY <1>3, <1>4 DEF AddedTo

LEMMA AddedCovers ==
    ASSUME NEW rows \in SUBSET History!Buckets, NEW m \in History!Minutes, NEW v \in Values,
           NEW result \in AddedTo(rows, m, v), NEW given \in SUBSET History!Samples,
           Sound(rows, given),
           NEW polls \in SUBSET History!Samples, NEW merges \in SUBSET History!Samples,
           NEW n \in Nat, Covers(rows, polls, merges, n)
    PROVE  Covers(result, polls \cup {<<m, v>>}, merges, n)
<1>1. /\ result \subseteq History!Buckets
      /\ \E c \in result : c.t = m /\ c.lo <= v /\ v <= c.hi
      /\ \A b \in rows : \E c \in result : c.t = b.t /\ c.lo <= b.lo /\ b.hi <= c.hi
      /\ \A b, c \in result : b.t = c.t => b = c
  <2>1. result \subseteq History!Buckets /\ Extends(rows, m, v, result)
    BY AddedHolds
  <2>2. \A b, c \in rows : b.t = c.t => b = c
    BY DEF Covers
  <2> QED BY <2>1, <2>2 DEF Extends
<1>2. ASSUME NEW s \in polls, ~Lapsed(s[1], n)
      PROVE  \E c \in result : c.t = s[1] /\ c.lo <= s[2] /\ s[2] <= c.hi
  <2>1. PICK b \in rows : b.t = s[1] /\ b.lo <= s[2] /\ s[2] <= b.hi
    BY <1>2 DEF Covers
  <2>2. PICK c \in result : c.t = b.t /\ c.lo <= b.lo /\ b.hi <= c.hi
    BY <1>1
  <2>3. {b.lo, b.hi, c.lo, c.hi, s[2]} \subseteq Nat
    BY <1>1, RowTypes
  <2> QED BY <2>1, <2>2, <2>3
<1>3. ASSUME NEW s \in merges, ~Lapsed(s[1], n) PROVE \E c \in result : c.t = s[1]
  BY <1>1, <1>3 DEF Covers
<1>4. \A s \in {<<m, v>>} : \E c \in result : c.t = s[1] /\ c.lo <= s[2] /\ s[2] <= c.hi
  BY <1>1
<1> QED BY <1>1, <1>2, <1>3, <1>4 DEF Covers

\* The rows of a text merged with what is known.
LEMMA FreshHolds ==
    ASSUME NEW rows \in SUBSET History!Buckets, NEW text \in Seq(History!Samples), NEW known,
           NEW given, Sound(rows, given)
    PROVE  LET result == rows \cup History!Fresh(text, known)
               new == {text[i] : i \in DOMAIN text}
           IN  /\ result \subseteq History!Buckets /\ new \subseteq History!Samples
               /\ Sound(result, given \cup new)
<1> DEFINE new == {text[i] : i \in DOMAIN text}
           fresh == History!Fresh(text, known)
<1>1. ASSUME NEW b \in fresh
      PROVE  b \in History!Buckets /\ <<b.t, b.lo>> \in new /\ <<b.t, b.hi>> \in new /\ b.lo = b.hi
  <2>1. b \in History!Buckets /\ b = History!NewBucket(b.t, History!LastOf(text, b.t))
    BY FreshRows
  <2>2. b.lo = b.hi
    BY <2>1 DEF History!NewBucket
  <2>3. PICK j \in DOMAIN text : text[j] = <<b.t, b.lo>> /\ text[j] = <<b.t, b.hi>>
    BY FreshRows
  <2> QED BY <2>1, <2>2, <2>3
<1>2. \A b \in fresh : b.lo <= b.hi
  BY <1>1, RowTypes
<1>3. Sound(fresh, given \cup new)
  <2> HIDE DEF fresh, new
  <2> QED BY <1>1, <1>2 DEF Sound
<1>4. Sound(rows, given \cup new)
  BY SoundMonotone
<1>5. Sound(rows \cup fresh, given \cup new)
  BY <1>3, <1>4, SoundUnion
<1>6. new \subseteq History!Samples
  OBVIOUS
<1> QED BY <1>1, <1>5, <1>6

LEMMA FreshCovers ==
    ASSUME NEW rows \in SUBSET History!Buckets, NEW text \in Seq(History!Samples),
           NEW polls, NEW merges, NEW n, Covers(rows, polls, merges, n)
    PROVE  LET known == {b.t : b \in rows}
           IN  Covers(rows \cup History!Fresh(text, known), polls,
                      merges \cup {text[i] : i \in DOMAIN text}, n)
<1> DEFINE new == {text[i] : i \in DOMAIN text}
           known == {b.t : b \in rows}
           fresh == History!Fresh(text, known)
           result == rows \cup fresh
<1>1. \A b \in fresh : /\ b.t \notin known
                        /\ b = History!NewBucket(b.t, History!LastOf(text, b.t))
  BY FreshRows DEF History!NewMinutes
<1>2. ASSUME NEW b \in result, NEW c \in result, b.t = c.t PROVE b = c
  <2>1. CASE b \in rows /\ c \in rows
    BY <1>2, <2>1 DEF Covers
  <2>2. CASE b \in fresh /\ c \in fresh
    BY <1>1, <1>2, <2>2
  <2>3. CASE b \in rows /\ c \in fresh
    BY <1>1, <1>2, <2>3
  <2>4. CASE b \in fresh /\ c \in rows
    BY <1>1, <1>2, <2>4
  <2> QED BY <2>1, <2>2, <2>3, <2>4
<1>3. ASSUME NEW i \in DOMAIN text PROVE \E b \in result : b.t = text[i][1]
  <2>1. CASE text[i][1] \in known
    BY <2>1
  <2>2. CASE text[i][1] \notin known
    <3>1. text[i][1] \in History!NewMinutes(text, known)
      BY <2>2 DEF History!NewMinutes
    <3> HIDE DEF known
    <3> QED BY <3>1, FreshMinutes
  <2> QED BY <2>1, <2>2
<1>4. \A s \in new : \E b \in result : b.t = s[1]
  BY <1>3
<1>5. rows \subseteq result
  OBVIOUS
<1> HIDE DEF result, new
<1>6. Covers(result, polls, merges \cup new, n)
  BY <1>2, <1>4, <1>5 DEF Covers
<1> QED BY <1>6 DEF result, new

\* The rows a use reads, if no other is writing.
LEMMA OneReader ==
    ASSUME NEW rows \in History!Readable
    PROVE  rows \subseteq hist /\ ((\A t \in Threads : th[t].at # "write") => rows = hist)
<1>1. rows \subseteq hist
  BY DEF History!Readable
<1>2. ASSUME \A t \in Threads : th[t].at # "write" PROVE rows = hist
  <2>1. {t \in Threads : th[t].at = "write"} = {}
    BY <1>2
  <2>2. History!Cardinality({}) = 0
    BY FS_EmptySet DEF History!Cardinality, Cardinality
  <2>3. ~(History!Cardinality({t \in Threads : th[t].at = "write"}) > 1)
    <3>1. ~(0 > 1)
      OBVIOUS
    <3> QED BY <2>1, <2>2, <3>1, Zenon
  <2>4. History!Readable = {hist}
    BY <2>3, Zenon DEF History!Readable
  <2> QED BY <2>4
<1> QED BY <1>1, <1>2

\* A thread that goes on.
LEMMA GoesOn ==
    ASSUME HistoryInv, NEW t \in Threads, NEW use \in ThreadTypes,
           th' = [th EXCEPT ![t] = use], th[t].at # "idle",
           UNCHANGED <<now, checks, beat, dir, remote, hist, sampled, seeded, raced>>,
           polled \subseteq polled', merged \subseteq merged',
           polled' \subseteq History!Samples, merged' \subseteq History!Samples,
           use.at # "add",
           use.at = "write" => Sound(use.rows, polled' \cup merged'),
           ~raced => /\ use.at = "write" => Covers(use.rows, polled', merged', now)
                     /\ use.at # "write" => Covers(hist, polled', merged', now)
                     /\ use.at = "read" => use.known = {b.t : b \in hist}
    PROVE  HistoryInv'
<1>1. th \in [Threads -> ThreadTypes] /\ th' \in [Threads -> ThreadTypes] /\ th'[t] = use
  BY DEF HistoryInv, HistoryTypes
<1>2. \A u \in Threads \ {t} : th'[u] = th[u]
  BY <1>1
<1>3. HistoryTypes'
  BY <1>1, <1>2 DEF HistoryInv, HistoryTypes
<1>4. InTime'
  BY DEF HistoryInv, InTime
<1>5. polled \cup merged \subseteq polled' \cup merged'
  OBVIOUS
<1>6. Sound(hist', polled' \cup merged')
  BY <1>5, SoundMonotone DEF HistoryInv, StoreFits
<1>8. ~raced => \A u \in Threads \ {t} : th[u].at = "idle"
  BY DEF HistoryInv, StoreFits, UseFits
<1>9. ~raced' /\ (\A u \in Threads : th'[u].at # "write") =>
        Covers(hist', polled', merged', now')
  BY <1>1
<1>10. ASSUME NEW u \in Threads PROVE UseFits(u)'
  <2>1. CASE u = t
    <3>1. th'[u].at = "write" => Sound(th'[u].rows, polled' \cup merged')
      BY <1>1, <2>1
    <3>2. ASSUME ~raced', th'[u].at # "idle"
          PROVE  /\ \A x \in Threads : th'[x].at # "idle" => x = u
                 /\ th'[u].at = "write" => Covers(th'[u].rows, polled', merged', now')
                 /\ th'[u].at = "read" => th'[u].known = {b.t : b \in hist'}
      BY <1>1, <1>2, <1>8, <2>1, <3>2
    <3> QED BY <3>1, <3>2 DEF UseFits
  <2>2. CASE u # t
    <3>1. th'[u] = th[u] /\ (~raced => th[u].at = "idle")
      BY <1>2, <1>8, <2>2
    <3>2. th[u].at = "write" => Sound(th[u].rows, polled \cup merged)
      BY DEF HistoryInv, StoreFits, UseFits
    <3>3. th[u].at = "write" => Sound(th[u].rows, polled' \cup merged')
      BY <1>5, <3>2, SoundMonotone
    <3> QED BY <3>1, <3>3 DEF UseFits
  <2> QED BY <2>1, <2>2
<1> QED BY <1>3, <1>4, <1>6, <1>9, <1>10 DEF HistoryInv, StoreFits

LEMMA UseKnown ==
    ASSUME HistoryInv, NEW t \in Threads
    PROVE  /\ th \in [Threads -> ThreadTypes] /\ th[t] \in ThreadTypes /\ hist \subseteq History!Buckets
           /\ th[t].rows \subseteq History!Buckets /\ th[t].text \in Seq(History!Samples)
           /\ th[t].known \subseteq History!Minutes
           /\ History!Minute(now) \in History!Minutes /\ History!Minute(now) \in Nat /\ now \in Nat
           /\ Sound(hist, polled \cup merged)
           /\ ~raced /\ th[t].at \notin {"idle", "write"} =>
                /\ \A u \in Threads : th[u].at # "write"
                /\ Covers(hist, polled, merged, now)
<1>1. /\ th \in [Threads -> ThreadTypes] /\ th[t] \in ThreadTypes /\ hist \subseteq History!Buckets
      /\ now \in 0 .. MaxTime
  BY DEF HistoryInv, HistoryTypes
<1>2. /\ th[t].rows \subseteq History!Buckets /\ th[t].text \in Seq(History!Samples)
      /\ th[t].known \subseteq History!Minutes
  BY <1>1 DEF ThreadTypes
<1>3. History!Minute(now) \in History!Minutes /\ History!Minute(now) \in Nat /\ now \in Nat
  <2>1. now <= now /\ now \in Nat
    BY <1>1, HistoryNumbers
  <2> QED BY <1>1, <2>1, MinuteGrows
<1>4. ~raced /\ th[t].at \notin {"idle", "write"} => \A u \in Threads : th[u].at # "write"
  BY DEF HistoryInv, StoreFits, UseFits
<1> QED BY <1>1, <1>2, <1>3, <1>4 DEF HistoryInv, StoreFits

LEMMA AddKeeps == ASSUME HistoryInv, NEW t \in Threads, History!AddSample(t) PROVE HistoryInv'
<1> DEFINE m == History!Minute(now)
           v == th[t].value
           more == polled \cup {<<m, v>>}
<1>1. th[t].at = "add" /\ v \in Values /\ m \in History!Minutes /\ m \in Nat /\ now \in Nat
  BY UseKnown DEF History!AddSample, HistoryInv, HistoryTypes
<1> PICK rows \in History!Readable : \E result \in AddedTo(rows, m, v) :
        th' = [th EXCEPT ![t].at = "write", ![t].rows = History!Pruned(result)]
  <2>1. PICK rows \in History!Readable :
          \/ /\ {b \in rows : b.t = m} = {}
             /\ th' = [th EXCEPT ![t].at = "write",
                           ![t].rows = History!Pruned(rows \cup {History!NewBucket(m, v)})]
          \/ \E b \in {b \in rows : b.t = m} :
                 th' = [th EXCEPT ![t].at = "write",
                            ![t].rows = History!Pruned((rows \ {b}) \cup {History!Widened(b, v)})]
    BY DEF History!AddSample
  <2> HIDE DEF m, v
  <2> QED BY <2>1 DEF AddedTo
<1>2. PICK result \in AddedTo(rows, m, v) :
        th' = [th EXCEPT ![t].at = "write", ![t].rows = History!Pruned(result)]
  OBVIOUS
<1>3. rows \subseteq hist /\ hist \subseteq History!Buckets
  BY OneReader, UseKnown
<1>4. /\ polled' = more /\ merged' = merged /\ more \subseteq History!Samples
      /\ UNCHANGED <<now, checks, beat, dir, remote, hist, sampled, seeded, raced>>
      /\ polled \cup merged \subseteq History!Samples /\ polled \subseteq History!Samples
      /\ merged \subseteq History!Samples
  <2>1. polled \subseteq History!Samples /\ merged \subseteq History!Samples
    BY DEF HistoryInv, HistoryTypes
  <2>2. <<m, v>> \in History!Samples
    BY <1>1 DEF History!Samples
  <2> QED BY <2>1, <2>2 DEF History!AddSample
<1>5. History!Pruned(result) = Kept(result, now)
  BY DEF History!Pruned, Kept
<1>6. Sound(rows, polled \cup merged)
  BY <1>3, UseKnown, SoundMonotone
<1> HIDE DEF m, v
<1>7. result \subseteq History!Buckets /\ Sound(result, (polled \cup merged) \cup {<<m, v>>})
  BY <1>1, <1>3, <1>4, <1>6, AddedHolds
<1>8. Kept(result, now) \subseteq result
  BY DEF Kept
<1>9. Sound(Kept(result, now), polled' \cup merged')
  BY <1>4, <1>7, <1>8, SoundMonotone
<1>10. ASSUME ~raced PROVE Covers(Kept(result, now), polled', merged', now)
  <2>1. rows = hist /\ Covers(hist, polled, merged, now)
    BY <1>1, <1>10, OneReader, UseKnown
  <2>2. Covers(result, more, merged, now)
    BY <1>1, <1>3, <1>4, <1>6, <2>1, AddedCovers
  <2>3. now <= now
    BY <1>1
  <2> QED BY <1>1, <1>4, <1>7, <2>2, <2>3, CoversLater
<1> DEFINE use == [th[t] EXCEPT !.at = "write", !.rows = Kept(result, now)]
<1>11. use \in ThreadTypes /\ use.at = "write" /\ use.rows = Kept(result, now)
  BY <1>7, <1>8, UseKnown DEF ThreadTypes
<1>12. th' = [th EXCEPT ![t] = use]
  BY <1>2, <1>5, UseKnown DEF ThreadTypes
<1> HIDE DEF use
<1> QED BY <1>1, <1>4, <1>9, <1>10, <1>11, <1>12, GoesOn

LEMMA KnownKeeps == ASSUME HistoryInv, NEW t \in Threads, History!Known(t) PROVE HistoryInv'
<1>1. PICK rows \in History!Readable :
        th' = [th EXCEPT ![t].at = "read", ![t].known = {b.t : b \in rows}]
  BY DEF History!Known
<1> DEFINE use == [th[t] EXCEPT !.at = "read", !.known = {b.t : b \in rows}]
<1>2. rows \subseteq hist /\ hist \subseteq History!Buckets
  BY OneReader, UseKnown
<1>3. {b.t : b \in rows} \subseteq History!Minutes
  BY <1>2, RowTypes
<1>4. use \in ThreadTypes /\ use.at = "read" /\ use.known = {b.t : b \in rows}
  BY <1>3, UseKnown DEF ThreadTypes
<1>5. th' = [th EXCEPT ![t] = use]
  BY <1>1, UseKnown DEF ThreadTypes
<1>6. /\ th[t].at = "merge" /\ polled' = polled /\ merged' = merged
      /\ UNCHANGED <<now, checks, beat, dir, remote, hist, sampled, seeded, raced>>
      /\ polled' \subseteq History!Samples /\ merged' \subseteq History!Samples
  BY DEF History!Known, History!ghosts, HistoryInv, HistoryTypes
<1>7. ~raced => rows = hist /\ Covers(hist, polled', merged', now)
  BY <1>6, OneReader, UseKnown
<1> HIDE DEF use
<1> QED BY <1>4, <1>5, <1>6, <1>7, GoesOn

LEMMA ExtendKeeps == ASSUME HistoryInv, NEW t \in Threads, History!Extend(t) PROVE HistoryInv'
<1> DEFINE text == th[t].text
           new == {text[i] : i \in DOMAIN text}
<1>1. /\ th[t].at = "read" /\ polled' = polled /\ merged' = merged \cup new
      /\ UNCHANGED <<now, checks, beat, dir, remote, hist, sampled, seeded, raced>>
  BY DEF History!Extend
<1>2. /\ text \in Seq(History!Samples) /\ new \subseteq History!Samples
      /\ hist \subseteq History!Buckets /\ now \in Nat
      /\ polled \subseteq History!Samples /\ merged \subseteq History!Samples
      /\ polled' \subseteq History!Samples /\ merged' \subseteq History!Samples
  <2>1. text \in Seq(History!Samples) /\ hist \subseteq History!Buckets /\ now \in Nat
    BY UseKnown
  <2>2. new \subseteq History!Samples
    BY <2>1
  <2> QED BY <1>1, <2>1, <2>2 DEF HistoryInv, HistoryTypes
<1>3. ASSUME ~raced
      PROVE  /\ \A u \in Threads : th[u].at # "write"
             /\ Covers(hist, polled, merged, now) /\ th[t].known = {b.t : b \in hist}
             /\ Covers(hist \cup History!Fresh(text, th[t].known), polled', merged', now)
  <2>1. Covers(hist, polled, merged, now) /\ \A u \in Threads : th[u].at # "write"
    BY <1>1, <1>3, UseKnown
  <2>2. th[t].known = {b.t : b \in hist}
    BY <1>1, <1>3 DEF HistoryInv, StoreFits, UseFits
  <2> HIDE DEF text
  <2>3. Covers(hist \cup History!Fresh(text, {b.t : b \in hist}), polled,
               merged \cup {text[i] : i \in DOMAIN text}, now)
    BY <1>2, <2>1, FreshCovers
  <2> QED BY <1>1, <2>1, <2>2, <2>3
<1>4. CASE History!NewMinutes(text, th[t].known) = {}
  <2>1. th' = [th EXCEPT ![t] = History!NoUse]
    BY <1>4 DEF History!Extend
  <2>2. History!NoUse \in ThreadTypes /\ History!NoUse.at = "idle"
    BY DEF History!NoUse, ThreadTypes
  <2>3. History!Fresh(text, th[t].known) = {}
    BY <1>4 DEF History!Fresh
  <2>4. ~raced => Covers(hist, polled', merged', now)
    BY <1>3, <2>3
  <2> HIDE DEF new
  <2> QED BY <1>1, <1>2, <2>1, <2>2, <2>4, GoesOn
<1>5. CASE History!NewMinutes(text, th[t].known) # {}
  <2>1. PICK rows \in History!Readable :
          th' = [th EXCEPT ![t].at = "write",
                     ![t].rows = History!Pruned(rows \cup History!Fresh(text, th[t].known))]
    BY <1>5 DEF History!Extend
  <2> DEFINE result == rows \cup History!Fresh(text, th[t].known)
             use == [th[t] EXCEPT !.at = "write", !.rows = Kept(result, now)]
  <2>2. rows \subseteq hist /\ (~raced => rows = hist)
    BY <1>3, OneReader
  <2>3. Sound(rows, polled \cup merged)
    BY <2>2, UseKnown, SoundMonotone
  <2>4. result \subseteq History!Buckets /\ Sound(result, (polled \cup merged) \cup new)
    <3> HIDE DEF text
    <3> QED BY <1>2, <2>2, <2>3, FreshHolds
  <2>5. Kept(result, now) \subseteq result
    BY DEF Kept
  <2>6. History!Pruned(result) = Kept(result, now)
    BY DEF History!Pruned, Kept
  <2>7. use \in ThreadTypes /\ use.at = "write" /\ use.rows = Kept(result, now)
    <3> HIDE DEF text
    <3> QED BY <2>4, <2>5, UseKnown DEF ThreadTypes
  <2>8. th' = [th EXCEPT ![t] = use]
    BY <2>1, <2>6, UseKnown DEF ThreadTypes
  <2> HIDE DEF use, result
  <2>9. Sound(Kept(result, now), polled' \cup merged')
    BY <1>1, <2>4, <2>5, SoundMonotone
  <2>10. ASSUME ~raced PROVE Covers(Kept(result, now), polled', merged', now)
    <3>1. Covers(result, polled', merged', now)
      BY <1>3, <2>2, <2>10 DEF result
    <3>2. now <= now
      BY <1>2
    <3> QED BY <1>2, <2>4, <3>1, <3>2, CoversLater
  <2> HIDE DEF new
  <2> QED BY <1>1, <1>2, <2>7, <2>8, <2>9, <2>10, GoesOn
<1> QED BY <1>4, <1>5

LEMMA WriteRowsKeeps == ASSUME HistoryInv, NEW t \in Threads, History!Write(t) PROVE HistoryInv'
<1>1. /\ th[t].at = "write" /\ hist' = th[t].rows /\ th' = [th EXCEPT ![t] = History!NoUse]
      /\ UNCHANGED <<now, checks, beat, dir, remote, sampled, seeded, polled, merged, raced>>
  BY DEF History!Write, History!ghosts
<1>2. History!NoUse \in ThreadTypes /\ History!NoUse.at = "idle"
  BY DEF History!NoUse, ThreadTypes
<1>3. /\ th' \in [Threads -> ThreadTypes] /\ th'[t].at = "idle"
      /\ \A u \in Threads \ {t} : th'[u] = th[u]
  BY <1>1, <1>2, UseKnown
<1>4. hist' \subseteq History!Buckets
  BY <1>1, UseKnown
<1>5. HistoryTypes'
  BY <1>1, <1>3, <1>4 DEF HistoryInv, HistoryTypes
<1>6. InTime'
  BY <1>1 DEF HistoryInv, InTime
<1>8. /\ Sound(th[t].rows, polled \cup merged)
      /\ ~raced => /\ Covers(th[t].rows, polled, merged, now)
                   /\ \A u \in Threads \ {t} : th[u].at = "idle"
  BY <1>1 DEF HistoryInv, StoreFits, UseFits
<1>9. Sound(hist', polled' \cup merged')
  BY <1>1, <1>8
<1>10. ~raced' => Covers(hist', polled', merged', now')
  BY <1>1, <1>8
<1>11. ASSUME NEW u \in Threads PROVE UseFits(u)'
  <2>1. ~raced' => th'[u].at = "idle"
    BY <1>1, <1>3, <1>8
  <2>2. th'[u].at = "write" => Sound(th'[u].rows, polled' \cup merged')
    BY <1>1, <1>3 DEF HistoryInv, StoreFits, UseFits
  <2> QED BY <2>1, <2>2 DEF UseFits
<1> QED BY <1>5, <1>6, <1>9, <1>10, <1>11 DEF HistoryInv, StoreFits

\* A use that starts.
LEMMA StartFits ==
    ASSUME HistoryInv, NEW t \in Threads, NEW use \in ThreadTypes, History!Start(t, use),
           use.at \in {"add", "merge"}, use.at = "add" => use.value \in Values,
           now' = now, hist' = hist, polled' = polled, merged' = merged
    PROVE  /\ th' \in [Threads -> ThreadTypes] /\ raced' \in BOOLEAN /\ StoreFits'
           /\ \A u \in Threads : th'[u].at = "add" => th'[u].value \in Values
<1>1. /\ th' = [th EXCEPT ![t] = use] /\ raced' = (raced \/ History!Uses # {})
      /\ th \in [Threads -> ThreadTypes] /\ raced \in BOOLEAN /\ th[t].at = "idle"
  BY DEF History!Start, HistoryInv, HistoryTypes
<1>2. /\ th' \in [Threads -> ThreadTypes] /\ raced' \in BOOLEAN /\ th'[t] = use
      /\ \A u \in Threads \ {t} : th'[u] = th[u]
  BY <1>1
<1>3. ~raced' => /\ ~raced
                 /\ \A u \in Threads : th[u].at = "idle"
  BY <1>1 DEF History!Uses
<1>5. Sound(hist', polled' \cup merged')
  BY DEF HistoryInv, StoreFits
<1>6. ~raced' => Covers(hist', polled', merged', now')
  <2>1. ~raced' => \A u \in Threads : th[u].at # "write"
    BY <1>3
  <2> QED BY <1>3, <2>1 DEF HistoryInv, StoreFits
<1>7. ASSUME NEW u \in Threads PROVE UseFits(u)'
  <2>1. ~raced' => u = t \/ th'[u].at = "idle"
    BY <1>2, <1>3
  <2>2. ~raced' => \A x \in Threads : th'[x].at # "idle" => x = t
    BY <1>2, <1>3
  <2>3. th'[u].at = "write" => Sound(th'[u].rows, polled' \cup merged')
    BY <1>2 DEF HistoryInv, StoreFits, UseFits
  <2> QED BY <1>2, <2>1, <2>2, <2>3 DEF UseFits
<1>8. StoreFits'
  BY <1>5, <1>6, <1>7 DEF StoreFits
<1>9. \A u \in Threads : th'[u].at = "add" => th'[u].value \in Values
  BY <1>2 DEF HistoryInv, HistoryTypes
<1> QED BY <1>2, <1>8, <1>9

LEMMA TimeKnown ==
    ASSUME HistoryInv
    PROVE  /\ now \in Nat /\ now \in 0 .. MaxTime /\ beat \in Nat /\ sampled \in Nat /\ seeded \in Nat
           /\ sampled <= now /\ seeded <= now /\ Grace \in Nat /\ MaxTime \in Nat
           /\ beat <= sampled \/ beat <= seeded
           /\ \A c \in checks : c \in Nat /\ now <= c /\ c <= now + 2
           /\ dir = "whole" => \A c \in checks : \/ c <= sampled + Grace + 2
                                                \/ c <= seeded + Grace + 2
<1> QED BY HistoryNumbers DEF HistoryInv, HistoryTypes, InTime

LEMMA PollKeeps == ASSUME HistoryInv, NEW t \in Threads, History!Poll(t) PROVE HistoryInv'
<1>1. PICK v \in Values : History!Start(t, [History!NoUse EXCEPT !.at = "add", !.value = v])
  BY DEF History!Poll
<1> DEFINE use == [History!NoUse EXCEPT !.at = "add", !.value = v]
<1>2. use \in ThreadTypes /\ use.at = "add" /\ use.value = v
  <2>1. History!NoUse \in ThreadTypes
    BY DEF History!NoUse, ThreadTypes
  <2> QED BY <2>1 DEF ThreadTypes
<1>3. /\ UNCHANGED <<now, dir, checks, remote, hist, seeded, polled, merged>>
      /\ beat' \in {now, beat} /\ sampled' = now
  BY DEF History!Poll, History!Touched
<1> HIDE DEF use
<1>4. /\ th' \in [Threads -> ThreadTypes] /\ raced' \in BOOLEAN /\ StoreFits'
      /\ \A u \in Threads : th'[u].at = "add" => th'[u].value \in Values
  BY <1>1, <1>2, <1>3, StartFits DEF use
<1>5. InTime'
  BY <1>3, TimeKnown DEF InTime
<1>6. HistoryTypes'
  BY <1>3, <1>4, TimeKnown DEF HistoryInv, HistoryTypes
<1> QED BY <1>4, <1>5, <1>6 DEF HistoryInv

LEMMA FetchKeeps == ASSUME HistoryInv, NEW t \in Threads, History!Fetch(t) PROVE HistoryInv'
<1> DEFINE text == History!TailOf(remote)
           use == [History!NoUse EXCEPT !.at = "merge", !.text = text]
<1>1. text \in Seq(History!Samples)
  <2>1. remote \in Seq(History!Samples) /\ Len(remote) \in Nat /\ TailRows \in Nat
    BY HistoryNumbers DEF HistoryInv, HistoryTypes
  <2> DEFINE first == IF Len(remote) > TailRows THEN Len(remote) - TailRows + 1 ELSE 1
  <2>2. first \in Int /\ 1 <= first
    BY <2>1
  <2>3. \A i \in first .. Len(remote) : remote[i] \in History!Samples
    BY <2>1, <2>2
  <2>4. text = SubSeq(remote, first, Len(remote))
    BY DEF History!TailOf
  <2> HIDE DEF first, text
  <2> QED BY <2>1, <2>2, <2>3, <2>4, SubSeqProperties
<1>2. use \in ThreadTypes /\ use.at = "merge"
  <2> HIDE DEF text
  <2> QED BY <1>1 DEF History!NoUse, ThreadTypes
<1>3. /\ History!Start(t, use)
      /\ UNCHANGED <<now, dir, checks, beat, remote, hist, sampled, seeded, polled, merged>>
  BY DEF History!Fetch
<1> HIDE DEF use
<1>4. /\ th' \in [Threads -> ThreadTypes] /\ raced' \in BOOLEAN /\ StoreFits'
      /\ \A u \in Threads : th'[u].at = "add" => th'[u].value \in Values
  BY <1>2, <1>3, StartFits
<1>5. InTime'
  BY <1>3 DEF HistoryInv, InTime
<1>6. HistoryTypes'
  BY <1>3, <1>4 DEF HistoryInv, HistoryTypes
<1> QED BY <1>4, <1>5, <1>6 DEF HistoryInv

\* What happens elsewhere leaves the store alone; time only asks for less.
LEMMA ElsewhereFits ==
    ASSUME HistoryInv, UNCHANGED <<hist, th, polled, merged, raced>>,
           now' \in 0 .. MaxTime, now <= now'
    PROVE  StoreFits'
<1>1. now \in Nat /\ now' \in Nat
  BY TimeKnown
<1>2. polled \subseteq History!Samples /\ merged \subseteq History!Samples
  BY DEF HistoryInv, HistoryTypes
<1>3. ASSUME NEW rows \in SUBSET History!Buckets, Covers(rows, polled, merged, now)
      PROVE  Covers(rows, polled, merged, now')
  BY <1>1, <1>2, <1>3, CoversLater
<1>4. Sound(hist', polled' \cup merged')
  BY DEF HistoryInv, StoreFits
<1>5. ~raced' /\ (\A t \in Threads : th'[t].at # "write") =>
        Covers(hist', polled', merged', now')
  <2>1. hist \in SUBSET History!Buckets
    BY DEF HistoryInv, HistoryTypes
  <2> QED BY <1>3, <2>1 DEF HistoryInv, StoreFits
<1>6. ASSUME NEW t \in Threads PROVE UseFits(t)'
  <2>1. UseFits(t) /\ th[t].rows \in SUBSET History!Buckets
    BY UseKnown DEF HistoryInv, StoreFits
  <2>2. th'[t].at = "write" => Sound(th'[t].rows, polled' \cup merged')
    BY <2>1 DEF UseFits
  <2>3. ~raced' /\ th'[t].at = "write" => Covers(th'[t].rows, polled', merged', now')
    BY <1>3, <2>1 DEF UseFits
  <2>4. ASSUME ~raced', th'[t].at # "idle"
        PROVE  /\ \A u \in Threads : th'[u].at # "idle" => u = t
               /\ th'[t].at = "read" => th'[t].known = {b.t : b \in hist'}
    BY <2>1, <2>4 DEF UseFits
  <2> QED BY <2>2, <2>3, <2>4 DEF UseFits
<1> QED BY <1>4, <1>5, <1>6 DEF StoreFits

LEMMA DaemonKeeps ==
    ASSUME HistoryInv, \/ History!PollElsewhere \/ History!Install
                       \/ History!Uninstall \/ History!Reboot
    PROVE  HistoryInv'
<1>1. UNCHANGED <<now, hist, th, polled, merged, raced>>
  BY DEF History!PollElsewhere, History!Install, History!Uninstall, History!Reboot, History!ghosts
<1>2. StoreFits'
  <2>1. now' \in 0 .. MaxTime /\ now <= now'
    BY <1>1, TimeKnown
  <2> QED BY <1>1, <2>1, ElsewhereFits
<1>3. CASE History!PollElsewhere
  <2>1. UNCHANGED <<dir, checks, remote, seeded>> /\ beat' = now /\ sampled' = now
    BY <1>3 DEF History!PollElsewhere
  <2>2. InTime'
    BY <1>1, <2>1, TimeKnown DEF InTime
  <2>3. HistoryTypes'
    BY <1>1, <2>1 DEF HistoryInv, HistoryTypes
  <2> QED BY <1>2, <2>2, <2>3 DEF HistoryInv
<1>4. CASE History!Install
  <2>1. UNCHANGED <<remote, sampled>>
    BY <1>4 DEF History!Install
  <2>2. CASE /\ dir' = "whole" /\ beat' = now /\ seeded' = now
             /\ checks' \subseteq checks \cup {now}
    <3>1. InTime'
      BY <1>1, <2>1, <2>2, TimeKnown DEF InTime
    <3>2. HistoryTypes'
      BY <1>1, <2>1, <2>2, TimeKnown DEF HistoryInv, HistoryTypes
    <3> QED BY <1>2, <3>1, <3>2 DEF HistoryInv
  <2>3. CASE dir' = "bare" /\ UNCHANGED <<beat, seeded, checks>>
    <3>1. InTime'
      BY <1>1, <2>1, <2>3 DEF HistoryInv, InTime
    <3>2. HistoryTypes'
      BY <1>1, <2>1, <2>3 DEF HistoryInv, HistoryTypes
    <3> QED BY <1>2, <3>1, <3>2 DEF HistoryInv
  <2> QED BY <1>4, <2>2, <2>3 DEF History!Install
<1>5. CASE History!Uninstall \/ History!Reboot
  <2>1. /\ checks' = {} /\ dir' \in {"absent", "whole", "bare"}
        /\ remote' = <<>> \/ remote' = remote
        /\ UNCHANGED <<beat, sampled, seeded>>
    BY <1>5 DEF History!Uninstall, History!Reboot, History!ghosts, HistoryInv, HistoryTypes
  <2>2. remote' \in Seq(History!Samples)
    <3>1. <<>> \in Seq(History!Samples) /\ remote \in Seq(History!Samples)
      BY DEF HistoryInv, HistoryTypes
    <3> QED BY <2>1, <3>1
  <2>3. InTime'
    BY <1>1, <2>1 DEF HistoryInv, InTime
  <2>4. HistoryTypes'
    BY <1>1, <2>1, <2>2 DEF HistoryInv, HistoryTypes
  <2> QED BY <1>2, <2>3, <2>4 DEF HistoryInv
<1> QED BY <1>3, <1>4, <1>5

LEMMA CheckKeeps == ASSUME HistoryInv, History!Check PROVE HistoryInv'
<1>1. /\ now \in checks /\ checks' = (checks \ {now}) \cup {now + 2}
      /\ UNCHANGED <<now, dir, beat, hist, th, seeded, polled, merged, raced>>
  BY DEF History!Check
<1>2. StoreFits'
  <2>1. now' \in 0 .. MaxTime /\ now <= now'
    BY <1>1, TimeKnown
  <2> QED BY <1>1, <2>1, ElsewhereFits
<1>3. checks' \subseteq 0 .. MaxTime + 2
  BY <1>1, TimeKnown DEF HistoryInv, HistoryTypes
<1>4. CASE now - beat > Grace /\ dir = "whole"
  <2>1. PICK v \in Values : remote' = Append(remote, History!Row(v)) /\ sampled' = now
    BY <1>4 DEF History!Check, History!Silent
  <2>2. History!Row(v) \in History!Samples
    BY UseKnown, TimeKnown, MinuteGrows DEF History!Row, History!Samples
  <2>3. remote' \in Seq(History!Samples)
    BY <2>1, <2>2 DEF HistoryInv, HistoryTypes
  <2>4. InTime'
    BY <1>1, <2>1, TimeKnown DEF InTime
  <2>5. HistoryTypes'
    BY <1>1, <1>3, <2>1, <2>3, TimeKnown DEF HistoryInv, HistoryTypes
  <2> QED BY <1>2, <2>4, <2>5 DEF HistoryInv
<1>5. CASE ~(now - beat > Grace /\ dir = "whole")
  <2>1. remote' = remote /\ sampled' = sampled
    BY <1>5 DEF History!Check, History!Silent
  <2>2. InTime'
    BY <1>1, <1>5, <2>1, TimeKnown DEF InTime
  <2>3. HistoryTypes'
    BY <1>1, <1>3, <2>1 DEF HistoryInv, HistoryTypes
  <2> QED BY <1>2, <2>2, <2>3 DEF HistoryInv
<1> QED BY <1>4, <1>5

LEMMA TickKeeps == ASSUME HistoryInv, History!Tick PROVE HistoryInv'
<1>1. /\ now < MaxTime /\ now' = now + 1 /\ now \notin checks
      /\ UNCHANGED <<dir, checks, beat, remote, hist, th, sampled, seeded, polled, merged, raced>>
  BY DEF History!Tick, History!ghosts
<1>2. now' \in 0 .. MaxTime /\ now <= now'
  BY <1>1, TimeKnown
<1>3. StoreFits'
  BY <1>1, <1>2, ElsewhereFits
<1>4. InTime'
  BY <1>1, TimeKnown DEF InTime
<1>5. HistoryTypes'
  BY <1>1, <1>2 DEF HistoryInv, HistoryTypes
<1> QED BY <1>3, <1>4, <1>5 DEF HistoryInv

LEMMA HistoryStarts == ASSUME History!Init PROVE HistoryInv
<1>1. /\ hist = {} /\ polled = {} /\ merged = {} /\ th = [t \in Threads |-> History!NoUse]
      /\ now = 0 /\ checks = {} /\ beat = 0 /\ sampled = 0 /\ seeded = 0
      /\ dir = "absent" /\ remote = <<>>
      /\ raced = FALSE
  BY DEF History!Init
<1>2. History!NoUse \in ThreadTypes /\ History!NoUse.at = "idle"
  BY DEF History!NoUse, ThreadTypes
<1>3. th \in [Threads -> ThreadTypes] /\ \A t \in Threads : th[t].at = "idle"
  BY <1>1, <1>2
<1>4. HistoryTypes
  <2>1. <<>> \in Seq(History!Samples) /\ 0 \in 0 .. MaxTime
    BY HistoryNumbers
  <2> QED BY <1>1, <1>3, <2>1 DEF HistoryTypes
<1>5. InTime
  BY <1>1 DEF InTime
<1>6. StoreFits
  BY <1>1, <1>3 DEF StoreFits, UseFits, Sound, Covers
<1> QED BY <1>4, <1>5, <1>6 DEF HistoryInv

LEMMA HistoryKeeps == ASSUME HistoryInv, [MCNext]_<<part, vars, historyVars>> PROVE HistoryInv'
<1>1. CASE UNCHANGED historyVars
  <2>1. UNCHANGED <<now, dir, checks, beat, remote, hist, th, sampled, seeded, polled, merged, raced>>
    BY <1>1 DEF historyVars
  <2>2. StoreFits'
    <3>1. now' \in 0 .. MaxTime /\ now <= now'
      BY <2>1, TimeKnown
    <3> QED BY <2>1, <3>1, ElsewhereFits
  <2> QED BY <2>1, <2>2 DEF HistoryInv, HistoryTypes, InTime
<1>2. CASE History!Next
  <2>1. ASSUME NEW t \in Threads, History!Use(t) PROVE HistoryInv'
    BY <2>1, AddKeeps, KnownKeeps, ExtendKeeps, WriteRowsKeeps, PollKeeps, FetchKeeps DEF History!Use
  <2> QED BY <1>2, <2>1, DaemonKeeps, CheckKeeps, TickKeeps DEF History!Next
<1> QED BY <1>1, <1>2 DEF MCNext

THEOREM HistoryInvariant == MCSpec => []HistoryInv
<1>1. MCInit => HistoryInv
  BY HistoryStarts DEF MCInit
<1>2. HistoryInv /\ [MCNext]_<<part, vars, historyVars>> => HistoryInv'
  BY HistoryKeeps
<1> QED BY <1>1, <1>2, PTL DEF MCSpec

\* For any server, requests and times: whoever looks and whenever pages are opened,
\* no more than Grace + 2 half minutes pass while the daemon runs since the load was
\* last measured, or the daemon last installed (sample_if_stale, _server_metrics).
THEOREM MeasuresOften == MCSpec => []NoLongGap
<1>1. ASSUME HistoryInv, dir = "whole", checks # {}
      PROVE  now - History!Higher(sampled, seeded) <= Grace + 2
  <2>1. PICK c \in checks : now <= c
    BY <1>1, TimeKnown
  <2> QED BY <1>1, <2>1, TimeKnown DEF History!Higher
<1>2. HistoryInv => NoLongGap
  BY <1>1 DEF NoLongGap, History!NoLongGap, History!Up
<1> QED BY <1>2, HistoryInvariant, PTL

\* And the buckets say what was measured, all of it unless two requests raced for the
\* file (append_sample, merge_hist_tsv).
THEOREM KeepsTimeline == MCSpec => []Timeline
<1>1. ASSUME HistoryInv PROVE Timeline
  <2>1. \A b \in hist : {<<b.t, b.lo>>, <<b.t, b.hi>>} \subseteq History!Given /\ b.lo <= b.hi
    BY <1>1 DEF HistoryInv, StoreFits, Sound, History!Given
  <2>2. ASSUME ~raced, History!Uses = {}
        PROVE  /\ \A m \in History!Minutes : History!Cardinality(History!Of(m)) <= 1
               /\ \A s \in polled : ~History!Expired(s[1]) =>
                      \E b \in History!Of(s[1]) : b.lo <= s[2] /\ s[2] <= b.hi
               /\ \A s \in merged : ~History!Expired(s[1]) => History!Of(s[1]) # {}
    <3>1. \A t \in Threads : th[t].at # "write"
      BY <2>2 DEF History!Uses
    <3>2. Covers(hist, polled, merged, now)
      BY <1>1, <2>2, <3>1 DEF HistoryInv, StoreFits
    <3>3. ASSUME NEW m \in History!Minutes PROVE History!Cardinality(History!Of(m)) <= 1
      <4>1. CASE History!Of(m) = {}
        <5>1. History!Cardinality({}) = 0
          BY FS_EmptySet DEF History!Cardinality, Cardinality
        <5> QED BY <4>1, <5>1
      <4>2. CASE History!Of(m) # {}
        <5>1. PICK b \in hist : b \in History!Of(m)
          BY <4>2 DEF History!Of
        <5>2. History!Of(m) = {b}
          BY <3>2, <5>1 DEF Covers, History!Of
        <5>3. History!Cardinality({b}) = 1
          BY FS_Singleton DEF History!Cardinality, Cardinality
        <5> QED BY <5>2, <5>3
      <4> QED BY <4>1, <4>2
    <3>4. \A s \in polled : ~History!Expired(s[1]) =>
            \E b \in History!Of(s[1]) : b.lo <= s[2] /\ s[2] <= b.hi
      BY <3>2 DEF Covers, Lapsed, History!Expired, History!Of
    <3>5. \A s \in merged : ~History!Expired(s[1]) => History!Of(s[1]) # {}
      BY <3>2 DEF Covers, Lapsed, History!Expired, History!Of
    <3> QED BY <3>3, <3>4, <3>5
  <2> QED BY <2>1, <2>2 DEF Timeline, History!Timeline
<1> QED BY <1>1, HistoryInvariant, PTL
=============================================================================
