------------------------------- MODULE Delivery -------------------------------
(***************************************************************************)
(* What the collection of results promises to the owner of a project.  The *)
(* versions to collect are chosen once.  The collector puts a file only    *)
(* where there is none, and only the version that was chosen; it calls a   *)
(* file done only when the chosen version has been in its place; and it    *)
(* calls the whole complete only when every file is done, for good.  The   *)
(* owner may change, remove or put files there at any time.                *)
(***************************************************************************)
CONSTANTS Files, Versions,
          NoVersion   \* no version is chosen yet
VARIABLES chosen,     \* chosen[f]: the version to collect
          place,      \* place[f]: the file there, by whom and of which version; or {}
          seen,       \* files whose chosen version has been in place
          done,       \* files the collector calls done
          complete    \* whether it calls the whole complete

vars == <<chosen, place, seen, done, complete>>

Init == /\ chosen = [f \in Files |-> NoVersion]
        /\ place = [f \in Files |-> {}]
        /\ seen = {} /\ done = {} /\ complete = FALSE

Choose(versions) == /\ \A f \in Files : chosen[f] = NoVersion
                    /\ chosen' = versions
                    /\ seen' = {f \in Files : place[f] = {<<"owner", versions[f]>>}}
                    /\ UNCHANGED <<place, done, complete>>

Deliver(f) == /\ chosen[f] # NoVersion
              /\ place[f] = {}
              /\ place' = [place EXCEPT ![f] = {<<"collector", chosen[f]>>}]
              /\ seen' = seen \cup {f}
              /\ UNCHANGED <<chosen, done, complete>>

Check(f) == f \in seen /\ done' = done \cup {f} /\ UNCHANGED <<chosen, place, seen, complete>>

Complete == done = Files /\ complete' = TRUE /\ UNCHANGED <<chosen, place, seen, done>>

Owner(f) == /\ \E now \in {{}} \cup {{<<"owner", v>>} : v \in Versions} :
                 /\ place' = [place EXCEPT ![f] = now]
                 /\ seen' = IF now = {<<"owner", chosen[f]>>} THEN seen \cup {f} ELSE seen
            /\ UNCHANGED <<chosen, done, complete>>

Next == \/ \E versions \in [Files -> Versions] : Choose(versions)
        \/ \E f \in Files : Deliver(f) \/ Check(f) \/ Owner(f)
        \/ Complete

Spec == Init /\ [][Next]_vars
=============================================================================
