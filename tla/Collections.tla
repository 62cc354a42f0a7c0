----------------------------- MODULE Collections -----------------------------
(***************************************************************************)
(* One collection of rsci/hpc/collections.py: the results of a finished    *)
(* job, chosen once, are copied file by file into a project directory by   *)
(* a worker process of its own.  Workers die and are launched again;       *)
(* people cancel and resume the collection, rename and delete the project  *)
(* (rsci/workflow/projects.py), and change files on both sides.            *)
(*                                                                         *)
(* Only the holder of the collection's file lock saves its record, so the  *)
(* record is both the file and the holder's copy.  Every step ends at one  *)
(* durable write or one call to the cluster, and Crash may fall between.   *)
(***************************************************************************)
EXTENDS Naturals, FiniteSets

CONSTANTS
    N,           \* the number of files
    MaxVersion,  \* bound: how often a remote file changes
    MaxRetries,  \* attempts before a lost connection blocks (5 in the code)
    MaxMeddling, \* bound: changes of the owner to the local files
    Procs,       \* processes that work on the collection
    Nobody,      \* the lock is free
    NoVersion,   \* no file, or no receipt
    Names,       \* names the project may have
    Gone         \* the project is in the trash, or has lost its identity

ASSUME FileAssumption == N \in Nat \ {0}
ASSUME BoundAssumption == MaxVersion \in Nat /\ MaxRetries \in Nat /\ MaxMeddling \in Nat
ASSUME NoneAssumption == /\ Nobody \notin Procs
                         /\ NoVersion \notin Nat
                         /\ Gone \notin Names

VARIABLES
    record,    \* remote-collections/<id>.json
    marker,    \* whether <id>.cancel exists
    lock,      \* the process that holds <id>.lock
    at,        \* at[p]: where process p is
    pos,       \* the file the worker that holds the lock is at
    root,      \* the project directory it has resolved
    place,     \* where the project directory is
    moving,    \* a rename or deletion has passed its check and holds the index lock
    remote,    \* remote[f]: the version of file f on the cluster
    target,    \* target[f]: the local file, {} or a set of one <<who, version>>
    staged,    \* staged[f]: the version in .staging
    late,      \* history: files published since the marker was set
    seen,      \* history: files whose chosen version has been in place
    meddled    \* history: changes of the owner so far

work == <<lock, at, pos, root>>
project == <<place, moving>>
local == <<target, staged>>
owner == <<seen, meddled>>
vars == <<record, marker, work, project, remote, local, late, owner>>
-----------------------------------------------------------------------------
(* Types *)

Files == 1 .. N
Versions == 0 .. MaxVersion
Done == {"completed", "cancelled"}                               \* DONE
Launchable == {"queued", "collecting", "retrying"}
Statuses == Done \cup Launchable \cup {"absent", "blocked"}
Records == [status : Statuses, expected : [Files -> Versions \cup {NoVersion}],
            mark : [Files -> {"none", "verified", "completed"}],
            receipt : [Files -> Versions \cup {NoVersion}], retries : 0 .. MaxRetries]
Copying == {"place", "fetch", "verify", "publish", "finish"}
Collecting == Copying \cup {"file"}
Working == Collecting \cup {"start", "resolve"}
Holding == Working \cup {"probe", "resuming", "unmarked"}
Points == Holding \cup {"idle", "launched", "cancelling"}
Contents == {{}} \cup {{<<who, v>>} : who \in {"collector", "owner"}, v \in Versions}

TypeOK == /\ record \in Records
          /\ marker \in BOOLEAN
          /\ lock \in Procs \cup {Nobody}
          /\ at \in [Procs -> Points]
          /\ pos \in 1 .. N + 1
          /\ root \in Names \cup {Gone} /\ place \in Names \cup {Gone}
          /\ moving \in BOOLEAN
          /\ remote \in [Files -> Versions]
          /\ target \in [Files -> Contents]
          /\ staged \in [Files -> Versions \cup {NoVersion}]
          /\ late \in 0 .. N
          /\ seen \subseteq Files
          /\ meddled \in 0 .. MaxMeddling
-----------------------------------------------------------------------------
(* Helpers *)

NoRecord == [status |-> "absent", expected |-> [f \in Files |-> NoVersion],
             mark |-> [f \in Files |-> "none"], receipt |-> [f \in Files |-> NoVersion],
             retries |-> 0]

Init == /\ record = NoRecord /\ marker = FALSE
        /\ lock = Nobody /\ at = [p \in Procs |-> "idle"] /\ pos = 1 /\ root = Gone
        /\ place \in Names /\ moving = FALSE
        /\ remote = [f \in Files |-> 0]
        /\ target = [f \in Files |-> {}] /\ staged = [f \in Files |-> NoVersion]
        /\ late = 0 /\ seen = {} /\ meddled = 0

Goto(p, point) == at' = [at EXCEPT ![p] = point]
Take(p, point) == lock = Nobody /\ lock' = p /\ Goto(p, point)
\* What a worker has resolved is forgotten.
Forget == pos' = 1 /\ root' = Gone
Release(p) == lock' = Nobody /\ Goto(p, "idle") /\ Forget

\* A target that has the content of our receipt.
Ours(f) == \E who \in {"collector", "owner"} : target[f] = {<<who, record.receipt[f]>>}

\* A process that holds the index lock sees the project where it is.
ProjectHere == ~moving /\ place # Gone
-----------------------------------------------------------------------------
(* Admission, launch and probes *)

\* Each file is looked at between the details and the admission.
Enqueue == /\ record.status = "absent"
           /\ ProjectHere
           /\ \E chosen \in [Files -> Versions] :
                /\ \A f \in Files : chosen[f] <= remote[f]
                /\ record' = [record EXCEPT !.status = "queued", !.expected = chosen]
           /\ seen' = {f \in Files : target[f] = {<<"owner", record'.expected[f]>>}}
           /\ UNCHANGED <<marker, work, project, remote, local, late, meddled>>

\* launch, from a console, the command line or recover.
Launch(p) == /\ at[p] = "idle"
             /\ lock = Nobody
             /\ record.status \in Launchable
             /\ Goto(p, "launched")
             /\ UNCHANGED <<record, marker, lock, pos, root, project, remote, local, late, owner>>

LaunchFails == /\ lock = Nobody
               /\ record.status \in Launchable
               /\ record' = [record EXCEPT !.status = "blocked"]
               /\ UNCHANGED <<marker, work, project, remote, local, late, owner>>

Probe(p) == /\ at[p] = "idle" /\ Take(p, "probe")
            /\ UNCHANGED <<record, marker, pos, root, project, remote, local, late, owner>>

EndProbe(p) == /\ at[p] = "probe" /\ Release(p)
               /\ UNCHANGED <<record, marker, project, remote, local, late, owner>>

Acquire(p) == /\ at[p] = "launched"
              /\ IF record.status \in Launchable THEN Take(p, "start")
                 ELSE lock = Nobody /\ Goto(p, "idle") /\ UNCHANGED lock
              /\ UNCHANGED <<record, marker, pos, root, project, remote, local, late, owner>>

LoseRace(p) == /\ at[p] = "launched" /\ lock # Nobody
               /\ Goto(p, "idle")
               /\ UNCHANGED <<record, marker, lock, pos, root, project, remote, local, late, owner>>
-----------------------------------------------------------------------------
(* Cancel and resume *)

Cancel(p) == /\ at[p] = "idle"
             /\ record.status \notin Done \cup {"absent"}
             /\ marker' = TRUE
             /\ late' = IF marker THEN late ELSE 0
             /\ Goto(p, "cancelling")
             /\ UNCHANGED <<record, lock, pos, root, project, remote, local, owner>>

FinishCancel(p) == /\ at[p] = "cancelling"
                   /\ record' = IF lock = Nobody /\ record.status \notin Done
                                THEN [record EXCEPT !.status = "cancelled"] ELSE record
                   /\ Goto(p, "idle")
                   /\ UNCHANGED <<marker, lock, pos, root, project, remote, local, late, owner>>

Resume(p) == /\ at[p] = "idle"
             /\ record.status \notin {"absent", "completed"}
             /\ Take(p, "resuming")
             /\ UNCHANGED <<record, marker, pos, root, project, remote, local, late, owner>>

\* The server or the project is not what it was.
RefuseResume(p) == /\ at[p] = "resuming" /\ Release(p)
                   /\ UNCHANGED <<record, marker, project, remote, local, late, owner>>

Unmark(p) == /\ at[p] = "resuming"
             /\ ProjectHere
             /\ marker' = FALSE /\ late' = 0
             /\ Goto(p, "unmarked")
             /\ UNCHANGED <<record, lock, pos, root, project, remote, local, owner>>

Requeue(p) == /\ at[p] = "unmarked"
              /\ record' = [record EXCEPT !.status = "queued", !.retries = 0]
              /\ lock' = Nobody /\ Goto(p, "launched")
              /\ UNCHANGED <<marker, pos, root, project, remote, local, late, owner>>
-----------------------------------------------------------------------------
(* The worker: execute and _collect *)

Start(p) == /\ at[p] = "start"
            /\ record' = [record EXCEPT !.status = "collecting"]
            /\ Goto(p, "resolve")
            /\ UNCHANGED <<marker, lock, pos, root, project, remote, local, late, owner>>

Resolve(p) == /\ at[p] = "resolve"
              /\ ProjectHere
              /\ root' = place /\ pos' = 1
              /\ Goto(p, "file")
              /\ UNCHANGED <<record, marker, lock, project, remote, local, late, owner>>

\* The worker gives up for good (the count of attempts it saves is not read
\* again before a resume resets it), or tries again while attempts are left.
Block(p) == /\ record' = [record EXCEPT !.status = "blocked"]
            /\ Release(p)
            /\ UNCHANGED <<marker, project, remote, local, late, owner>>

AttemptsLeft == record.retries < MaxRetries

Retry(p) == /\ AttemptsLeft
            /\ record' = [record EXCEPT !.status = "retrying", !.retries = @ + 1]
            /\ Goto(p, "start") /\ Forget
            /\ UNCHANGED <<marker, lock, project, remote, local, late, owner>>

\* A call fails: no connection, or an answer that forbids to go on (another
\* server, job directory or kind of file, no login, no space).
CallFails(p) == at[p] \in {"resolve", "file", "fetch", "verify"} /\ (Retry(p) \/ Block(p))

\* Mutant: a stop is noticed before the first file only.
MarkerFirst(f) == marker /\ f = 1
StopNow(f) == marker

Stop(p) == /\ at[p] = "file" /\ pos <= N
           /\ StopNow(pos)
           /\ record' = [record EXCEPT !.status = "cancelled"]
           /\ Release(p)
           /\ UNCHANGED <<marker, project, remote, local, late, owner>>

Skip(p) == /\ at[p] = "file" /\ pos <= N
           /\ ~StopNow(pos)
           /\ record.mark[pos] = "completed" /\ Ours(pos)
           /\ pos' = pos + 1
           /\ UNCHANGED <<record, marker, lock, at, root, project, remote, local, late, owner>>

Check(p) == /\ at[p] = "file" /\ pos <= N
            /\ ~StopNow(pos)
            /\ record.mark[pos] # "completed"
            /\ remote[pos] = record.expected[pos]
            /\ Goto(p, "place")
            /\ UNCHANGED <<record, marker, lock, pos, root, project, remote, local, late, owner>>

Recorded(f) == record' = [record EXCEPT !.mark[f] = "completed"]

\* Published by a worker that died before it could say so.
Adopt(p) == /\ at[p] = "place"
            /\ target[pos] # {} /\ Ours(pos)
            /\ Recorded(pos)
            /\ pos' = pos + 1 /\ Goto(p, "file")
            /\ UNCHANGED <<marker, lock, root, project, remote, local, late, owner>>

\* A staged file without our receipt is scratch.
Stage(p) == /\ at[p] = "place"
            /\ target[pos] = {}
            /\ LET whole == staged[pos] # NoVersion /\ staged[pos] = record.receipt[pos]
               IN  /\ staged' = IF whole THEN staged ELSE [staged EXCEPT ![pos] = NoVersion]
                   /\ Goto(p, IF whole THEN "verify" ELSE "fetch")
            /\ UNCHANGED <<record, marker, lock, pos, root, project, remote, target, late, owner>>

Fetch(p) == /\ at[p] = "fetch"
            /\ staged' = [staged EXCEPT ![pos] = remote[pos]]
            /\ Goto(p, "verify")
            /\ UNCHANGED <<record, marker, lock, pos, root, project, remote, target, late, owner>>

\* Mutant: the file is not looked at again after the transfer.
Unlooked(f) == TRUE
Unchanged(f) == remote[f] = record.expected[f]

Verify(p) == /\ at[p] = "verify"
             /\ Unchanged(pos)
             /\ record' = [record EXCEPT !.mark[pos] = "verified", !.receipt[pos] = staged[pos]]
             /\ Goto(p, "publish")
             /\ UNCHANGED <<marker, lock, pos, root, project, remote, local, late, owner>>

\* The link is refused when there is a file.
Publish(p) == /\ at[p] = "publish"
              /\ target[pos] = {}
              /\ target' = [target EXCEPT ![pos] = {<<"collector", staged[pos]>>}]
              /\ late' = IF marker THEN late + 1 ELSE late
              /\ seen' = IF staged[pos] = record.expected[pos] THEN seen \cup {pos} ELSE seen
              /\ Goto(p, "finish")
              /\ UNCHANGED <<record, marker, lock, pos, root, project, remote, staged, meddled>>

Finish(p) == /\ at[p] = "finish"
             /\ staged' = [staged EXCEPT ![pos] = NoVersion]
             /\ Recorded(pos)
             /\ pos' = pos + 1 /\ Goto(p, "file")
             /\ UNCHANGED <<marker, lock, root, project, remote, target, late, owner>>

\* A collected file that is not as it was, a remote file that is another one,
\* or a local file that is not ours.
Conflict(p) == \/ /\ at[p] = "file" /\ pos <= N /\ ~StopNow(pos)
                  /\ IF record.mark[pos] = "completed" THEN ~Ours(pos) ELSE ~Unchanged(pos)
               \/ at[p] = "place" /\ target[pos] # {} /\ ~Ours(pos)
               \/ at[p] = "verify" /\ ~Unchanged(pos)
               \/ at[p] = "publish" /\ target[pos] # {}
               \/ at[p] = "resolve" /\ ~moving /\ place = Gone

Refuse(p) == Conflict(p) /\ Block(p)

Complete(p) == /\ at[p] = "file" /\ pos = N + 1
               /\ record' = [record EXCEPT !.status = "completed"]
               /\ Release(p)
               /\ UNCHANGED <<marker, project, remote, local, late, owner>>

Crash(p) == /\ at[p] # "idle"
            /\ Goto(p, "idle")
            /\ IF lock = p THEN lock' = Nobody /\ Forget ELSE UNCHANGED <<lock, pos, root>>
            /\ UNCHANGED <<record, marker, project, remote, local, late, owner>>
-----------------------------------------------------------------------------
(* The project and its owner *)

\* Mutant: only a collection that has not started keeps the project in place.
NotQueued(status) == status # "queued"
Movable(status) == status \in Done \cup {"absent"}

CheckMove == /\ ProjectHere
             /\ Movable(record.status)
             /\ moving' = TRUE
             /\ UNCHANGED <<record, marker, work, place, remote, local, late, owner>>

\* A rename whose process dies before it has saved the index loses the identity.
Move == /\ moving
        /\ \E now \in Names \cup {Gone} : place' = now
        /\ moving' = FALSE
        /\ UNCHANGED <<record, marker, work, remote, local, late, owner>>

\* The owner puts a file there, changes it or removes it.
Meddle(f) == /\ meddled < MaxMeddling
             /\ \E now \in {{}} \cup {{<<"owner", v>>} : v \in Versions} :
                  /\ target' = [target EXCEPT ![f] = now]
                  /\ seen' = IF now = {<<"owner", record.expected[f]>>}
                             THEN seen \cup {f} ELSE seen
             /\ meddled' = meddled + 1
             /\ UNCHANGED <<record, marker, work, project, remote, staged, late>>

\* A version is what size and modification time tell apart, and never returns.
Edit(f) == /\ remote[f] < MaxVersion
           /\ remote' = [remote EXCEPT ![f] = @ + 1]
           /\ UNCHANGED <<record, marker, work, project, local, late, owner>>
-----------------------------------------------------------------------------
Collect(p) == \/ Resolve(p) \/ CallFails(p) \/ Stop(p) \/ Skip(p) \/ Check(p) \/ Adopt(p)
              \/ Stage(p) \/ Fetch(p) \/ Verify(p) \/ Publish(p) \/ Finish(p) \/ Refuse(p)
              \/ Complete(p)

\* What a process that has begun something does next.
Continue(p) == \/ EndProbe(p) \/ FinishCancel(p) \/ RefuseResume(p) \/ Unmark(p) \/ Requeue(p)
               \/ Start(p) \/ Collect(p) \/ LoseRace(p)

Next == \/ \E p \in Procs : \/ Launch(p) \/ Probe(p) \/ Acquire(p) \/ Cancel(p) \/ Resume(p)
                            \/ Continue(p) \/ Crash(p)
        \/ \E f \in Files : Meddle(f) \/ Edit(f)
        \/ Enqueue \/ LaunchFails \/ CheckMove \/ Move

Spec == Init /\ [][Next]_vars
-----------------------------------------------------------------------------
(* Properties *)

\* A worker that copies files does so in the directory the project has now: a
\* rename or deletion is refused while "collecting" is on disk, and that is
\* saved before the directory is resolved (_check_remote_collections).
WorksInProject == \A p \in Procs : at[p] \in Collecting => root = place /\ ~moving

\* After a stop was asked for, at most the file under way is published, also
\* when workers die and others take over, until somebody resumes.
StopsSoon == marker => late <= 1

\* What the owner of the project relies on.
D == INSTANCE Delivery WITH chosen <- record.expected, place <- target,
                            done <- {f \in Files : record.mark[f] = "completed"},
                            complete <- record.status = "completed"
Delivers == D!Spec
=============================================================================
