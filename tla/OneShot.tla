------------------------------- MODULE OneShot -------------------------------
(***************************************************************************)
(* What every approval-gated side effect of the program promises.  A grant *)
(* (an approval token) is claimed by one actor for good, and an actor may  *)
(* fire the irreversible effect (a scheduler submission) at most once, and *)
(* only while it holds a grant.  Nothing is said about how an actor learns *)
(* the outcome, how long it takes or how often the processes restart.      *)
(***************************************************************************)
EXTENDS Naturals

CONSTANTS Grants,   \* one-shot permissions
          Actors,   \* executions that may claim a grant
          NoActor   \* the owner of a grant nobody has claimed

VARIABLES owner,    \* owner[g]: the actor that claimed grant g
          fired     \* fired[a]: how often actor a fired the effect

vars == <<owner, fired>>

Init == /\ owner = [g \in Grants |-> NoActor]
        /\ fired = [a \in Actors |-> 0]

\* A free grant goes to one actor, and is never handed on.
Claim(g, a) == /\ owner[g] = NoActor
               /\ owner' = [owner EXCEPT ![g] = a]
               /\ UNCHANGED fired

\* The holder of a grant fires, once.
Fire(a) == /\ \E g \in Grants : owner[g] = a
           /\ fired[a] = 0
           /\ fired' = [fired EXCEPT ![a] = 1]
           /\ UNCHANGED owner

Next == \E a \in Actors : Fire(a) \/ \E g \in Grants : Claim(g, a)

Spec == Init /\ [][Next]_vars
=============================================================================
