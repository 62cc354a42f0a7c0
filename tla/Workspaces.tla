---------------------------- MODULE Workspaces ----------------------------
(***************************************************************************)
(* The workspace gateway on Vlab: it mounts a directory of a registered    *)
(* server with rclone, keeps the writes in a local cache until they are    *)
(* uploaded, and records every workspace, with its write lease, in         *)
(* state.json.  One gateway process runs at a time (an exclusive flock is  *)
(* held for a whole command), but rclone is a process of its own: it       *)
(* mounts, dies and uploads while a command waits, and outlives a gateway  *)
(* that is killed.  An editor writes in every mount it was told of.        *)
(***************************************************************************)
EXTENDS Naturals, FiniteSets, SequencesExt

CONSTANTS Ids,         \* workspace ids, each used at most once
          Dirs,        \* remote directories, as the sequence of their names
          Root,        \* the allowed root of the server
          ReadOnly,    \* the directories the account may not write
          MaxCrashes   \* bound: gateway processes killed in a command

ASSUME WorkspacesAssumption ==
    /\ Dirs \cup {Root} \subseteq Seq(STRING)
    /\ \A d \in Dirs : Len(d) > 0
    /\ ReadOnly \subseteq Dirs
    /\ MaxCrashes \in Nat

VARIABLES entry,    \* state.json: status, mode and directory of each id
          base,     \* the directory of the workspace on Vlab
          rclone,   \* the mount process of each id
          cache,    \* what the write-back cache holds that was not uploaded
          window,   \* the ids an editor was told are mounted
          op,       \* the command that holds the lock, and where it is
          due,      \* the ids whose open has yet to look at the status
          crashes,
          overtaken \* history: the ids given up while a mount of theirs was coming up
vars == <<entry, base, rclone, cache, window, op, due, crashes, overtaken>>

Modes == {"read-only", "read-write"}
Leased == {"open", "recovering", "sync_pending", "sync_unknown"}
Recoverable == {"needs_recovery", "sync_pending"}
Retired == {"closed", "abandoned"}
Statuses == Leased \cup Recoverable \cup Retired \cup {"absent"}

Absent == [status |-> "absent", mode |-> "read-only", dir |-> Root]
Idle == [kind |-> "none"]

Init ==
    /\ entry = [w \in Ids |-> Absent]
    /\ base = [w \in Ids |-> "none"]
    /\ rclone = [w \in Ids |-> "none"]
    /\ cache = [w \in Ids |-> "clean"]
    /\ window = {}
    /\ op = Idle
    /\ due = {}
    /\ crashes = 0
    /\ overtaken = {}

---------------------------------------------------------------------------
(* What a command reads *)

Inside(path, root) == IsPrefix(root, path)
Overlap(a, b) == Inside(a, b) \/ Inside(b, a)
Mounted(w) == rclone[w] = "mounted"

(* The directory is under the root, neither / nor /home, and the account has *)
(* the access asked.                                                         *)
Allowed(d, mode) ==
    /\ Inside(d, Root)
    /\ d \notin {<<>>, <<"home">>}
    /\ mode = "read-write" => d \notin ReadOnly

LeaseConflict(w, d) ==
    \E v \in Ids \ {w} :
        /\ entry[v].mode = "read-write"
        /\ entry[v].status \in Leased
        /\ Overlap(d, entry[v].dir)

(* The answers of rclone's control port: it can be silent at any time, and *)
(* a queue is empty once everything written is uploaded.                   *)
Replies(w) ==
    {"silent"} \cup (IF ~Mounted(w) THEN {}
                     ELSE IF cache[w] = "clean" THEN {"empty"} ELSE {"queued"})

Take == op = Idle
At(kind, at) == op.kind = kind /\ op.at = at
Goto(at) == op' = [op EXCEPT !.at = at]
Release == op' = Idle
SetStatus(w, s) == entry' = [entry EXCEPT ![w].status = s]

---------------------------------------------------------------------------
(* open: check, make the directories, start rclone, wait for the mount and *)
(* only then write the entry.                                              *)

Open(w, d, mode) ==
    /\ Take
    /\ entry[w] = Absent /\ base[w] = "none"
    /\ Allowed(d, mode)
    /\ mode = "read-write" => ~LeaseConflict(w, d)
    /\ base' = [base EXCEPT ![w] = "whole"]
    /\ rclone' = [rclone EXCEPT ![w] = "starting"]
    /\ op' = [kind |-> "open", at |-> "waiting", w |-> w, dir |-> d, mode |-> mode]
    /\ UNCHANGED <<entry, cache, window, due, crashes, overtaken>>

Opened ==
    /\ At("open", "waiting") /\ Mounted(op.w)
    /\ entry' = [entry EXCEPT ![op.w] =
                    [status |-> "open", mode |-> op.mode, dir |-> op.dir]]
    /\ due' = due \cup {op.w}
    /\ Release
    /\ UNCHANGED <<base, rclone, cache, window, crashes, overtaken>>

(* Not mounted in time, or rclone has exited: it is terminated. *)
OpenFails ==
    /\ At("open", "waiting") /\ ~Mounted(op.w)
    /\ entry' = [entry EXCEPT ![op.w] =
                    [status |-> "needs_recovery", mode |-> op.mode, dir |-> op.dir]]
    /\ rclone' = [rclone EXCEPT ![op.w] = "none"]
    /\ Release
    /\ UNCHANGED <<base, cache, window, due, crashes, overtaken>>

---------------------------------------------------------------------------
(* status: what is seen of the mount and of its queue replaces the status. *)

Seen(w, reply) ==
    CASE ~Mounted(w) /\ entry[w].status \in Leased \ {"sync_unknown"} -> "needs_recovery"
      [] Mounted(w) /\ entry[w].mode = "read-write" /\ reply = "silent" -> "sync_unknown"
      [] Mounted(w) /\ reply = "queued" -> "sync_pending"
      [] Mounted(w) /\ reply # "queued"
            /\ ~(entry[w].mode = "read-write" /\ reply = "silent") -> "open"
      [] OTHER -> entry[w].status

Look(w) ==
    /\ \E reply \in Replies(w) : SetStatus(w, Seen(w, reply))
    /\ window' = IF Mounted(w) THEN window \cup {w} ELSE window

Status(w) ==
    /\ Take
    /\ entry[w] # Absent
    /\ Look(w)
    /\ UNCHANGED <<base, rclone, cache, op, due, crashes, overtaken>>

(* list, status without an id and recover's list say which of the recorded *)
(* workspaces are mounted, and record nothing.                             *)
Listed(w) ==
    /\ Take
    /\ entry[w].status # "absent" /\ Mounted(w)
    /\ window' = window \cup {w}
    /\ UNCHANGED <<entry, base, rclone, cache, op, due, crashes, overtaken>>

(* open ends with a status of its own, for which it takes the lock anew: *)
(* other commands may come first, and even remove the entry.             *)
OpenReports(w) ==
    /\ Take
    /\ w \in due
    /\ due' = due \ {w}
    /\ IF entry[w] # Absent THEN Look(w) ELSE UNCHANGED <<entry, window>>
    /\ UNCHANGED <<base, rclone, cache, op, crashes, overtaken>>

---------------------------------------------------------------------------
(* close: refuse without a mount, wait for an empty queue, unmount, record *)

CloseRefused(w) ==
    /\ Take
    /\ entry[w].status \notin Retired \cup {"absent"} /\ ~Mounted(w)
    /\ SetStatus(w, "needs_recovery")
    /\ UNCHANGED <<base, rclone, cache, window, op, due, crashes, overtaken>>

Close(w) ==
    /\ Take
    /\ entry[w] # Absent /\ Mounted(w)
    /\ op' = [kind |-> "close", w |-> w,
              at |-> IF entry[w].mode = "read-write" THEN "waiting" ELSE "unmounting"]
    /\ UNCHANGED <<entry, base, rclone, cache, window, due, crashes, overtaken>>

\* Mutant: no answer counts as an empty queue.
AnyReply(w) == Replies(w) \cap {"empty", "silent"} # {}

(* Only an answer that shows the queue empty lets the close go on. *)
Drained(w) == "empty" \in Replies(w)

QueueEmpty ==
    /\ At("close", "waiting") /\ Drained(op.w)
    /\ Goto("unmounting")
    /\ UNCHANGED <<entry, base, rclone, cache, window, due, crashes, overtaken>>

(* The control port does not answer: nothing is changed. *)
QueueUnknown ==
    /\ At("close", "waiting")
    /\ Release
    /\ UNCHANGED <<entry, base, rclone, cache, window, due, crashes, overtaken>>

StillQueued ==
    /\ At("close", "waiting") /\ "queued" \in Replies(op.w)
    /\ SetStatus(op.w, "sync_pending")
    /\ Release
    /\ UNCHANGED <<base, rclone, cache, window, due, crashes, overtaken>>

(* What was written after the empty queue was read waits for an upload again *)
(* when the workspace stays.                                                 *)
StaysOpen(w) == cache' = [cache EXCEPT ![w] = IF @ = "late" THEN "unsynced" ELSE @]

Unmount ==
    /\ At("close", "unmounting") /\ Mounted(op.w)
    /\ rclone' = [rclone EXCEPT ![op.w] = "none"]
    /\ window' = window \ {op.w}
    /\ Goto("unmounted")
    /\ UNCHANGED <<entry, base, cache, due, crashes, overtaken>>

(* A file is in use, or the mount went by itself. *)
UnmountFails ==
    /\ At("close", "unmounting")
    /\ SetStatus(op.w, "sync_pending")
    /\ StaysOpen(op.w)
    /\ Release
    /\ UNCHANGED <<base, rclone, window, due, crashes, overtaken>>

Closed ==
    /\ At("close", "unmounted")
    /\ SetStatus(op.w, "closed")
    /\ Release
    /\ UNCHANGED <<base, rclone, cache, window, due, crashes, overtaken>>

---------------------------------------------------------------------------
(* recover: give the cache up, or mount it again *)

CanRecover(w) == entry[w].status \in Recoverable /\ ~Mounted(w)

Discard(w) ==
    /\ Take
    /\ CanRecover(w)
    /\ op' = [kind |-> "discard", w |-> w, at |-> "wiping"]
    /\ UNCHANGED <<entry, base, rclone, cache, window, due, crashes, overtaken>>

Wipe ==
    /\ At("discard", "wiping") /\ base[op.w] = "whole"
    /\ base' = [base EXCEPT ![op.w] = "cacheless"]
    /\ cache' = [cache EXCEPT ![op.w] = "clean"]
    /\ Goto("wiped")
    /\ UNCHANGED <<entry, rclone, window, due, crashes, overtaken>>

(* The cache directory is missing (a discard was killed): rmtree raises. *)
WipeFails ==
    /\ At("discard", "wiping") /\ base[op.w] # "whole"
    /\ Release
    /\ UNCHANGED <<entry, base, rclone, cache, window, due, crashes, overtaken>>

Discarded ==
    /\ At("discard", "wiped")
    /\ base' = [base EXCEPT ![op.w] = "whole"]
    /\ SetStatus(op.w, "abandoned")
    /\ Release
    /\ overtaken' = IF rclone[op.w] = "none" THEN overtaken ELSE overtaken \cup {op.w}
    /\ UNCHANGED <<rclone, cache, window, due, crashes>>

(* The recorded mount is started again; no lease is looked at. *)
Retry(w) ==
    /\ Take
    /\ CanRecover(w)
    /\ rclone' = [rclone EXCEPT ![w] = "starting"]
    /\ base' = [base EXCEPT ![w] = "whole"]
    /\ op' = [kind |-> "retry", w |-> w, at |-> "waiting"]
    /\ UNCHANGED <<entry, cache, window, due, crashes, overtaken>>

Retried ==
    /\ At("retry", "waiting") /\ Mounted(op.w)
    /\ SetStatus(op.w, "recovering")
    /\ window' = window \cup {op.w}
    /\ Release
    /\ UNCHANGED <<base, rclone, cache, due, crashes, overtaken>>

RetryFails ==
    /\ At("retry", "waiting") /\ ~Mounted(op.w)
    /\ SetStatus(op.w, "needs_recovery")
    /\ rclone' = [rclone EXCEPT ![op.w] = "none"]
    /\ Release
    /\ UNCHANGED <<base, cache, window, due, crashes, overtaken>>

---------------------------------------------------------------------------
(* cleanup --apply: the directories go one by one, the entries in one save *)

\* Mutant: what waits for a recovery is removed too.
NotLeased == {w \in Ids : entry[w].status \in Retired \cup {"needs_recovery"}}

Candidates == {w \in Ids : entry[w].status \in Retired}

Cleanup ==
    /\ Take
    /\ Candidates # {}
    /\ op' = [kind |-> "cleanup", at |-> "removing", todo |-> Candidates, removed |-> {}]
    /\ UNCHANGED <<entry, base, rclone, cache, window, due, crashes, overtaken>>

RemoveOne(w) ==
    /\ At("cleanup", "removing") /\ w \in op.todo
    /\ ~Mounted(w) /\ base[w] # "gone"
    /\ base' = [base EXCEPT ![w] = "gone"]
    /\ cache' = [cache EXCEPT ![w] = "clean"]
    /\ op' = [op EXCEPT !.todo = @ \ {w}, !.removed = @ \cup {w}]
    /\ UNCHANGED <<entry, rclone, window, due, crashes, overtaken>>

SkipOne(w) ==
    /\ At("cleanup", "removing") /\ w \in op.todo
    /\ Mounted(w)
    /\ op' = [op EXCEPT !.todo = @ \ {w}]
    /\ UNCHANGED <<entry, base, rclone, cache, window, due, crashes, overtaken>>

(* A directory that a killed cleanup removed already: rmtree raises, and   *)
(* what this cleanup removed is not saved either.                          *)
RemoveFails(w) ==
    /\ At("cleanup", "removing") /\ w \in op.todo
    /\ ~Mounted(w) /\ base[w] = "gone"
    /\ Release
    /\ UNCHANGED <<entry, base, rclone, cache, window, due, crashes, overtaken>>

CleanupSaves ==
    /\ At("cleanup", "removing") /\ op.todo = {}
    /\ entry' = [w \in Ids |-> IF w \in op.removed THEN Absent ELSE entry[w]]
    /\ Release
    /\ UNCHANGED <<base, rclone, cache, window, due, crashes, overtaken>>

---------------------------------------------------------------------------
(* rclone, the editor, and the end of a gateway process.  rclone makes its *)
(* cache directory again when it has something to keep.                    *)

MountUp(w) ==
    /\ rclone[w] = "starting" /\ base[w] # "gone"
    /\ rclone' = [rclone EXCEPT ![w] = "mounted"]
    /\ UNCHANGED <<entry, base, cache, window, op, due, crashes, overtaken>>

MountGone(w) ==
    /\ rclone[w] # "none"
    /\ rclone' = [rclone EXCEPT ![w] = "none"]
    /\ window' = window \ {w}
    /\ UNCHANGED <<entry, base, cache, op, due, crashes, overtaken>>

Unmounting(w) == op.kind = "close" /\ op.w = w /\ op.at = "unmounting"

Write(w) ==
    /\ w \in window /\ Mounted(w) /\ entry[w].mode = "read-write"
    /\ cache' = [cache EXCEPT ![w] =
                    IF Unmounting(w) /\ @ # "unsynced" THEN "late" ELSE "unsynced"]
    /\ base' = [base EXCEPT ![w] = "whole"]
    /\ UNCHANGED <<entry, rclone, window, op, due, crashes, overtaken>>

Upload(w) ==
    /\ Mounted(w) /\ cache[w] # "clean"
    /\ cache' = [cache EXCEPT ![w] = "clean"]
    /\ UNCHANGED <<entry, base, rclone, window, op, due, crashes, overtaken>>

(* A gateway process is killed, or a program it calls does not return in   *)
(* time: the command ends there, and keeps what it has saved.              *)
Killed ==
    /\ op # Idle /\ crashes < MaxCrashes
    /\ crashes' = crashes + 1
    /\ IF op.kind = "close" THEN StaysOpen(op.w) ELSE cache' = cache
    /\ Release
    /\ UNCHANGED <<entry, base, rclone, window, due, overtaken>>

Next ==
    \/ \E w \in Ids :
        \/ \E d \in Dirs, mode \in Modes : Open(w, d, mode)
        \/ Status(w) \/ Listed(w) \/ OpenReports(w) \/ CloseRefused(w) \/ Close(w)
        \/ Discard(w) \/ Retry(w)
        \/ RemoveOne(w) \/ SkipOne(w) \/ RemoveFails(w)
        \/ MountUp(w) \/ MountGone(w) \/ Write(w) \/ Upload(w)
    \/ Opened \/ OpenFails
    \/ QueueEmpty \/ QueueUnknown \/ StillQueued \/ Unmount \/ UnmountFails \/ Closed
    \/ Wipe \/ WipeFails \/ Discarded \/ Retried \/ RetryFails
    \/ Cleanup \/ CleanupSaves \/ Killed

Spec == Init /\ [][Next]_vars

---------------------------------------------------------------------------
(* Properties *)

(* Every variable keeps its shape, a cache that holds writes has its      *)
(* directory on disk, editors know no mount that is gone, and nothing but *)
(* directories under the root is ever recorded.                           *)
TypeOK ==
    /\ entry \in [Ids -> [status : Statuses, mode : Modes, dir : Dirs \cup {Root}]]
    /\ base \in [Ids -> {"none", "whole", "cacheless", "gone"}]
    /\ rclone \in [Ids -> {"none", "starting", "mounted"}]
    /\ cache \in [Ids -> {"clean", "late", "unsynced"}]
    /\ \A w \in Ids : cache[w] # "clean" => base[w] = "whole"
    /\ window \subseteq {w \in Ids : Mounted(w)}
    /\ op = Idle \/ op.kind \in {"open", "close", "discard", "retry", "cleanup"}
    /\ \A w \in Ids : Inside(entry[w].dir, Root)
    /\ due \subseteq Ids /\ overtaken \subseteq Ids
    /\ crashes \in 0..MaxCrashes

(* Given up, but a mount that a killed retry had begun came up after that:  *)
(* whoever finds it in a list may write in it.                              *)
Revived(w) == w \in overtaken /\ entry[w].status = "abandoned"

(* A write that is not on the server yet belongs to a workspace the gateway *)
(* still lists as open or to be recovered, whatever died meanwhile.  Only a *)
(* write made after close read the queue empty may stay in a closed one,    *)
(* and one in a revived mount in an abandoned one.                          *)
UnsyncedKnown ==
    \A w \in Ids :
        cache[w] = "unsynced" => entry[w].status \in Leased \cup Recoverable \/ Revived(w)

(* Cached writes disappear in two ways only: rclone has uploaded them, or *)
(* the user gave up the cache of that very workspace.                     *)
UploadedOrGivenUp(w) ==
    \/ Mounted(w) /\ base'[w] = base[w]
    \/ op.kind = "discard" /\ op.w = w
    \/ op.kind = "cleanup" /\ Revived(w)
NothingLost ==
    [][\A w \in Ids : cache[w] = "unsynced" /\ cache'[w] = "clean" => UploadedOrGivenUp(w)]_vars

(* Two overlapping directories never have a write lease at the same time *)
(* (the gateway's README, 45-46): open refuses the second one.            *)
LeasesApart ==
    \A v, w \in Ids :
        /\ v # w
        /\ {entry[v].mode, entry[w].mode} = {"read-write"}
        /\ {entry[v].status, entry[w].status} \subseteq Leased
        => ~Overlap(entry[v].dir, entry[w].dir)
===========================================================================
