-------------------------- MODULE MCServerCatalog --------------------------
(* Two names for one host, which can be reached through Vlab and directly; or, in other
   behaviours, one approved plan that is run: both come to rest. *)
EXTENDS ServerCatalog, TLC
CONSTANTS a, b, h1
CONSTANTS p1, t1, Plans, Tokens, NoToken, TokenPlan, Expiry, Instances, NoInst, NoPlan,
          JobIds, NoId, Dir, Budget, MaxTime, MaxRetries, MaxReady
VARIABLES part, run, ledger, pc, op, tries, ready, home, calls, spent, inflight, jobInst,
          jobState, scheduler, now

Tasks == INSTANCE WorkflowTasks WITH NoJob <- NoId

ASSUME CatalogConstants == CatalogAssumption

MCOne == (a :> h1) @@ (b :> h1)

OneTokenPlan == t1 :> p1
OneTokenExpiry == t1 :> 1
OneDir == p1 :> "dir1"

taskVars == <<run, ledger, pc, op, tries, ready, home, calls, spent, inflight, jobInst,
              jobState, scheduler, now>>
all == <<part, vars, taskVars>>
Edits(A) == part = "catalog" /\ A /\ UNCHANGED <<part, taskVars>>
Runs(A) == part = "tasks" /\ A /\ UNCHANGED <<part, vars>>

MCInit == /\ part \in {"catalog", "tasks"}
          /\ Init /\ Tasks!Init
          /\ part = "catalog" => scheduler = "slurm"
MCNext == Edits(Next) \/ Runs(Tasks!Next)
\* The fairness of ServerCatalog and that of WorkflowTasks, a condition of the one with a
\* condition of the other: only the actions of one part are ever enabled.
MCFairness ==
    /\ WF_all(Edits(GiveUp \/ \E n \in Names : Step(n)) \/ Runs(Tasks!Tick))
    /\ WF_all(Edits(Ask) \/ Runs(Tasks!Due(p1)))
    /\ WF_all(Edits(SavePull))
    /\ SF_all(Edits(Answer) \/ Runs(Tasks!Acquire(p1)))
    /\ SF_all(Runs(Tasks!Recover(p1)))
MCSpec == MCInit /\ [][MCNext]_all /\ MCFairness

\* As in WorkflowTasks: when processes stop dying, an admitted run is finished or
\* blocked at last.
Settles == Tasks!Settles
===========================================================================
