---------------------------- MODULE GatewayHelper ----------------------------
(***************************************************************************)
(* How a call makes sure that there is a helper to run it                  *)
(* (rsci/gateway/transport.py).  On Vlab the two helpers, rsci-gateway and *)
(* the workspace gateway, are looked for, asked for their version and, if  *)
(* they will not do, brought to a stage, compiled there and moved into     *)
(* place, by one thread of a process at a time; the process then remembers *)
(* that the helper is ready.  A server with a direct route gets its helper *)
(* unasked, copied over what is there, once per transport object.          *)
(*                                                                         *)
(* One helper of one host, reached over one route.  A remote command is a  *)
(* step; one whose answer does not come in time may still be going on.     *)
(***************************************************************************)
EXTENDS Naturals

CONSTANTS
    Threads,     \* threads that call
    Process(_),  \* Process(t): the process of a thread
    Bundled(_),  \* Bundled(p): the version of the helper that process p brings
    Minimum,     \* _MIN_GATEWAY_VERSION, _MIN_WORKSPACE_GATEWAY_VERSION
    Old,         \* an older version, found on the host
    MaxFaults,   \* bound: commands that fail or whose answers are lost
    Part,        \* half a helper
    Nobody

Processes == {Process(t) : t \in Threads}

\* What the constants are, assumed by the module that gives them values.
HelperAssumption == /\ Minimum \in Nat /\ Old \in 1 .. (Minimum - 1)
                    /\ \A p \in Processes : Bundled(p) \in Nat /\ Bundled(p) >= Minimum
                    /\ MaxFaults \in Nat
                    /\ Nobody \notin Threads
                    /\ Part \notin Nat

VARIABLES
    route,   \* "gateway" and "workspace" (both on Vlab) or "direct"
    helper,  \* the file: 0 for none, Part, or a version
    ready,   \* ready[p]: _gateway_ready, _workspace_gateway_ready, _helper_ready
    lock,    \* lock[p]: the thread that holds the lock of the transport
    at,      \* at[t]: what thread t does next
    stage,   \* stage[t]: whether its stage is there
    ghost,   \* ghost[t]: an installation nobody waits for may still go on
    told,    \* told[t]: how its last call ended
    faults,
    gone     \* whether somebody has removed the helper

vars == <<route, helper, ready, lock, at, stage, ghost, told, faults, gone>>

Whole(h) == h \notin {0, Part}

TypeOK == /\ route \in {"gateway", "workspace", "direct"}
          /\ helper \in {0, Part, Old} \cup {Bundled(p) : p \in Processes}
          /\ ready \in [Processes -> BOOLEAN]
          /\ lock \in [Processes -> Threads \cup {Nobody}]
          /\ at \in [Threads -> {"idle", "wait", "test", "version", "copy", "install", "half",
                                 "clean", "run"}]
          /\ stage \in [Threads -> BOOLEAN] /\ ghost \in [Threads -> BOOLEAN]
          /\ told \in [Threads -> {"none", "ok", "old", "part", "missing", "error"}]
          /\ faults \in 0 .. MaxFaults /\ gone \in BOOLEAN

\* Half a helper is what a direct installation may leave behind; the workspace
\* helper repairs one as well.
Init == /\ route \in {"gateway", "workspace", "direct"}
        /\ helper \in {0, Old} \cup {Bundled(p) : p \in Processes}
                          \cup (IF route = "gateway" THEN {} ELSE {Part})
        /\ ready = [p \in Processes |-> FALSE]
        /\ lock = [p \in Processes |-> Nobody]
        /\ at = [t \in Threads |-> "idle"]
        /\ stage = [t \in Threads |-> FALSE] /\ ghost = [t \in Threads |-> FALSE]
        /\ told = [t \in Threads |-> "none"]
        /\ faults = 0 /\ gone = FALSE
-----------------------------------------------------------------------------
(* Helpers *)

Goto(t, point) == at' = [at EXCEPT ![t] = point]
Release(t) == lock' = [lock EXCEPT ![Process(t)] = IF @ = t THEN Nobody ELSE @]
Fault == faults < MaxFaults /\ faults' = faults + 1

\* The process knows now that the helper is ready, and the call can be made.
Ready(t) == /\ ready' = [ready EXCEPT ![Process(t)] = TRUE]
            /\ Release(t) /\ Goto(t, "run")

\* The call ends with an error; what is known of the helper stays as it is.
Raise(t) == /\ Release(t) /\ Goto(t, "idle")
            /\ told' = [told EXCEPT ![t] = "error"]
-----------------------------------------------------------------------------
(* run_gateway, run_workspace_gateway: all but the inspection of a submission
   (prepare=False) make sure of the helper first. *)

Begin(t) == /\ at[t] = "idle"
            /\ ~ghost[t]                    \* bound: one lost installation of a thread
            /\ Goto(t, "wait")
            /\ UNCHANGED <<route, helper, ready, lock, stage, ghost, told, faults, gone>>

\* _ensure_gateway takes the lock, _ensure_helper has none.
Enter(t) == /\ at[t] = "wait"
            /\ route # "direct" => lock[Process(t)] = Nobody
            /\ IF ready[Process(t)]
               THEN Goto(t, "run") /\ UNCHANGED lock
               ELSE IF route = "direct"
               THEN Goto(t, "copy") /\ UNCHANGED lock
               ELSE Goto(t, "test") /\ lock' = [lock EXCEPT ![Process(t)] = t]
            /\ UNCHANGED <<route, helper, ready, stage, ghost, told, faults, gone>>

\* A request with a budget does not wait for the lock any longer.
GiveUp(t) == /\ at[t] = "wait" /\ route = "gateway"
             /\ lock[Process(t)] # Nobody
             /\ Fault /\ Raise(t)
             /\ UNCHANGED <<route, helper, ready, stage, ghost, gone>>

\* _probe_gateway, _probe_workspace_gateway: test -x, then version.
Test(t) == /\ at[t] = "test"
           /\ Goto(t, IF helper = 0 THEN "copy" ELSE "version")
           /\ UNCHANGED <<route, helper, ready, lock, stage, ghost, told, faults, gone>>

\* Mutant: any helper that answers will do.
Answers(h) == Whole(h)
WillDo(h) == Whole(h) /\ h >= Minimum

\* Mutant: what does not start is never replaced.
Trusting(t) == /\ at[t] = "version"
               /\ IF WillDo(helper) THEN Ready(t) /\ UNCHANGED told ELSE Raise(t) /\ UNCHANGED ready
               /\ UNCHANGED <<route, helper, stage, ghost, faults, gone>>

\* A gateway that does not even start is an error, a workspace gateway is replaced.
Version(t) == /\ at[t] = "version"
              /\ \/ /\ WillDo(helper)
                    /\ Ready(t) /\ UNCHANGED told
                 \/ /\ ~WillDo(helper)
                    /\ Whole(helper) \/ route = "workspace"
                    /\ Goto(t, "copy") /\ UNCHANGED <<ready, lock, told>>
                 \/ /\ ~Whole(helper) /\ route = "gateway"
                    /\ Raise(t) /\ UNCHANGED ready
              /\ UNCHANGED <<route, helper, stage, ghost, faults, gone>>
-----------------------------------------------------------------------------
(* _deploy_gateway, _deploy_workspace_gateway, _ensure_helper *)

Copy(t) == /\ at[t] = "copy"
           /\ stage' = [stage EXCEPT ![t] = TRUE]
           /\ Goto(t, "install")
           /\ UNCHANGED <<route, helper, ready, lock, ghost, told, faults, gone>>

\* The stage has been compiled and is moved over the helper in one step.
Moved(t) == /\ stage[t]
            /\ helper' = Bundled(Process(t))
            /\ stage' = [stage EXCEPT ![t] = FALSE]

Install(t) == /\ at[t] = "install" /\ route # "direct"
              /\ Moved(t) /\ Ready(t)
              /\ UNCHANGED <<route, ghost, told, faults, gone>>

\* On the direct route it is copied over the helper, which others may read
\* meanwhile, and only then compiled.
Overwrite(t) == /\ at[t] = "install" /\ route = "direct"
                /\ helper' = Part
                /\ Goto(t, "half")
                /\ UNCHANGED <<route, ready, lock, stage, ghost, told, faults, gone>>

Overwritten(t) == /\ at[t] = "half"
                  /\ helper' = Bundled(Process(t))
                  /\ stage' = [stage EXCEPT ![t] = FALSE]
                  /\ Ready(t)
                  /\ UNCHANGED <<route, ghost, told, faults, gone>>
-----------------------------------------------------------------------------
(* A command fails, or its answer is late *)

FailBefore(t) == /\ at[t] \in {"test", "version", "run"}
                 /\ Fault /\ Raise(t)
                 /\ UNCHANGED <<route, helper, ready, stage, ghost, gone>>

\* A copy that failed leaves its stage, for it is not yet inside the try.
FailCopy(t) == /\ at[t] = "copy"
               /\ stage' \in {stage, [stage EXCEPT ![t] = TRUE]}
               /\ Fault /\ Raise(t)
               /\ UNCHANGED <<route, helper, ready, ghost, gone>>

\* An installation was given up before or after it moved the stage, or while it
\* still goes on.
FailInstall(t) == /\ at[t] = "install" /\ route # "direct"
                  /\ \/ UNCHANGED <<helper, stage, ghost>>
                     \/ Moved(t) /\ UNCHANGED ghost
                     \/ ghost' = [ghost EXCEPT ![t] = TRUE] /\ UNCHANGED <<helper, stage>>
                  /\ Fault /\ Goto(t, "clean")
                  /\ UNCHANGED <<route, ready, lock, told, gone>>

FailOverwrite(t) == /\ at[t] \in {"install", "half"} /\ route = "direct"
                    /\ Fault /\ Raise(t)
                    /\ UNCHANGED <<route, helper, ready, stage, ghost, gone>>

\* The stage is removed, at best, and the error raised.
Clean(t) == /\ at[t] = "clean"
            /\ \/ stage' = [stage EXCEPT ![t] = FALSE] /\ UNCHANGED faults
               \/ Fault /\ UNCHANGED stage
            /\ Raise(t)
            /\ UNCHANGED <<route, helper, ready, ghost, gone>>

\* What nobody waits for comes to its end.
Late(t) == /\ ghost[t] /\ at[t] # "clean"
           /\ ghost' = [ghost EXCEPT ![t] = FALSE]
           /\ Moved(t) \/ UNCHANGED <<helper, stage>>
           /\ UNCHANGED <<route, ready, lock, at, told, faults, gone>>

\* Somebody empties the directory of the helpers.
Remove == /\ ~gone /\ Whole(helper) /\ route # "direct"
          /\ gone' = TRUE /\ helper' = 0
          /\ UNCHANGED <<route, ready, lock, at, stage, ghost, told, faults>>
-----------------------------------------------------------------------------
(* The call itself *)

Found(h) == CASE h = 0         -> "missing"
              [] h = Part      -> "part"
              [] h < Minimum   -> "old"
              [] OTHER         -> "ok"

Run(t) == /\ at[t] = "run"
          /\ told' = [told EXCEPT ![t] = Found(helper)]
          /\ Goto(t, "idle")
          /\ UNCHANGED <<route, helper, ready, lock, stage, ghost, faults, gone>>

Step(t) == \/ Begin(t) \/ Enter(t) \/ Test(t) \/ Version(t) \/ Copy(t)
           \/ Install(t) \/ Overwrite(t) \/ Overwritten(t) \/ Clean(t) \/ Run(t)

Break(t) == \/ GiveUp(t) \/ FailBefore(t) \/ FailCopy(t) \/ FailInstall(t)
            \/ FailOverwrite(t)

Next == (\E t \in Threads : Step(t) \/ Break(t) \/ Late(t)) \/ Remove

Spec == Init /\ [][Next]_vars
-----------------------------------------------------------------------------
(* Properties *)

\* On Vlab a call that was prepared finds a whole helper, recent enough, unless
\* somebody has removed it: whatever other threads and processes install at the
\* same time, whatever fails, and however late an installation comes to its end.
PreparedRuns == route # "direct" /\ ~gone =>
                   \A t \in Threads : told[t] \notin {"missing", "part", "old"}

\* Once commands no longer fail every call succeeds: no failed, repeated or
\* simultaneous installation leaves Vlab a helper that is not repaired.  On the
\* direct route this needs that no installation fails: one that fails after
\* another thread has set the flag leaves half a helper for good.
Repairs == <>[](\/ gone
                \/ route = "direct" /\ faults > 0
                \/ \A t \in Threads : told[t] = "ok")
=============================================================================
