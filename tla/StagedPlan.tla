------------------------------ MODULE StagedPlan ------------------------------
(***************************************************************************)
(* What a campaign promises to the person who approves it.  Nothing begins *)
(* before the approval; every stage begins at most once, and only on the   *)
(* results of the stage it requires; and once the campaign has closed, by  *)
(* its end or by an abort, it stays closed and nothing more begins.  When  *)
(* two processes have worked on it at the same time, the last part is not  *)
(* promised any more.  (A submission that the client of the gateway sends  *)
(* twice is one beginning.)                                                *)
(***************************************************************************)
CONSTANTS Stages,    \* the calculations of the plan
          Requires,  \* Requires[s]: the stage whose results s is built on
          NoStage    \* ... or none

VARIABLES phase,   \* "proposed", "approved" or "closed"
          begun,   \* stages a job was submitted for
          good,    \* stages whose results have converged
          shared   \* whether two processes have worked on it at once

vars == <<phase, begun, good, shared>>

Init == phase = "proposed" /\ begun = {} /\ good = {} /\ shared = FALSE

Approve == phase = "proposed" /\ phase' = "approved" /\ UNCHANGED <<begun, good, shared>>
Close == phase' = "closed" /\ UNCHANGED <<begun, good, shared>>

Begin(s) == /\ phase = "approved" \/ shared
            /\ s \notin begun
            /\ Requires[s] = NoStage \/ Requires[s] \in good
            /\ begun' = begun \cup {s}
            /\ UNCHANGED <<phase, good, shared>>
Converge(s) == s \in begun /\ good' = good \cup {s} /\ UNCHANGED <<phase, begun, shared>>

Share == shared' = TRUE /\ UNCHANGED <<phase, begun, good>>
Overwrite == shared /\ phase' \in {"proposed", "approved"} /\ UNCHANGED <<begun, good, shared>>

Next == \/ Approve \/ Close \/ Share \/ Overwrite
        \/ \E s \in Stages : Begin(s) \/ Converge(s)

Spec == Init /\ [][Next]_vars
=============================================================================
