---------------------------- MODULE MCRemoteCalls ----------------------------
(* Two calls at a time on one server; or, in other behaviours, three threads of
   two processes, one of them newer, that make sure of one helper. *)
EXTENDS RemoteCalls, TLC

CONSTANTS k1, k2, x, entry1, t1, t2, t3, Threads, Process(_), Bundled(_), Minimum, Old,
          HelperFaults, Nobody
VARIABLES part, route, helper, ready, lock, at, stage, ghost, told, faults, gone

helperVars == <<route, helper, ready, lock, at, stage, ghost, told, faults, gone>>

Helper == INSTANCE GatewayHelper WITH MaxFaults <- HelperFaults

Mixed(k) == IF k = k1 THEN AllOps ELSE {"upload"}
TwoProcesses(t) == IF t = t3 THEN 2 ELSE 1
NewerSecond(p) == p + 1

ASSUME HelperConstants == Helper!HelperAssumption

MCInit == /\ part \in {"calls", "helper"}
          /\ Init /\ Helper!Init
          /\ part = "calls" => route = "gateway" /\ helper = 0
          /\ part = "helper" => mode = "key" /\ path = Absent
MCNext == \/ part = "calls" /\ Next /\ UNCHANGED <<part, helperVars>>
          \/ part = "helper" /\ Helper!Next /\ UNCHANGED <<part, vars>>
MCFairness == \A t \in Threads :
    WF_<<part, vars, helperVars>>(part = "helper" /\ (Helper!Step(t) \/ Helper!Late(t)) /\ UNCHANGED <<part, vars>>)
MCSpec == MCInit /\ [][MCNext]_<<part, vars, helperVars>> /\ MCFairness

\* As in GatewayHelper; the calls of RemoteCalls need a helper that is ready.
PreparedRuns == Helper!PreparedRuns
Repairs == part = "helper" => Helper!Repairs
=============================================================================
