--------------------------- MODULE MCWorkspaces ---------------------------
(* Two workspaces; the root, which is refused, a directory, one inside it, one that is
   only read, and one outside the root.  Or, in other behaviours, two requests on the
   history of one server. *)
EXTENDS Workspaces, TLC

CONSTANTS w1, w2, t1, t2, Threads, Values, MaxTime, Keep, TailRows, MaxUses, MaxEvents, Grace
VARIABLES part, now, dir, checks, beat, remote, hist, th, sampled, seeded, polled, merged, uses,
          events, raced

MCRoot == <<"home">>
MCDirs == {<<"home">>, <<"home", "vasp">>, <<"home", "vasp", "slab">>, <<"home", "shared">>, <<"etc">>}
MCReadOnly == {<<"home", "shared">>}

historyVars == <<now, dir, checks, beat, remote, hist, th, sampled, seeded, polled, merged, uses,
                 events, raced>>

History == INSTANCE MetricsHistory

ASSUME HistoryConstants == History!HistoryAssumption

\* Occupied counts the minutes between two snapshots that are close enough.
ASSUME \A seen \in SUBSET (0 .. 7) :
           History!Occupied(seen) =
               {m \in 0 .. 7 : \E k, n \in seen : k <= m /\ m < n /\ n - k <= 2}
\* Every bucket counts for one slot of its day, and no mean leaves the range of the cell.
ASSUME \A t \in 0 .. 47 :
           Cardinality({c \in (0 .. 1) \X (0 .. 7) :
               History!Cell({[t |-> t, lo |-> 1, hi |-> 1]}, 24, c[1], c[2]) # {}}) = 1
ASSUME \A cell \in SUBSET [t : {0, 1}, lo : 0 .. 1, hi : 2 .. 3] \ {{}} :
           History!Mean(cell) \in 0 .. 3

MCInit == /\ part \in {"workspaces", "history"}
          /\ Init /\ History!Init
MCNext == \/ part = "workspaces" /\ Next /\ UNCHANGED <<part, historyVars>>
          \/ part = "history" /\ History!Next /\ UNCHANGED <<part, vars>>
MCSpec == MCInit /\ [][MCNext]_<<part, vars, historyVars>>

Alike == Permutations({w1, w2}) \cup Permutations({t1, t2})

\* As in MetricsHistory.
Timeline == History!Timeline
NoLongGap == History!NoLongGap
===========================================================================
