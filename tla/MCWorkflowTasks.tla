--------------------------- MODULE MCWorkflowTasks ---------------------------
(* Small instances of WorkflowTasks for TLC, the plans and approvals they start from, and
   the files of their jobs. *)
EXTENDS WorkflowTasks, MCVaspFiles, TLC, Sequences, FiniteSets

CONSTANTS p1, t1, t2, i1, i2, j1, j2

\* One plan with two approvals: the first expires while the run is going on.
OnePlanTokens == (t1 :> p1) @@ (t2 :> p1)
OnePlanExpiry == (t1 :> 1) @@ (t2 :> 2)
OneDir == p1 :> "dir1"

\* Run instances are interchangeable, and so are job ids.
InstancesAndJobs == Permutations({i1, i2}) \cup Permutations({j1, j2})

Center == INSTANCE PlanCenter

\* A plan is of the kind of its project, and a Python plan reads nothing it writes.
Names4 == {"a", "b", "r"}
Specs == [domain : {"", "general", "vasp", "other"}, project : {"", "general", "vasp"},
          from : {"", "elsewhere", "general", "vasp"}, server : {TRUE}, script : {"scripts"},
          inputs : {{}, {"a"}, {"r"}}, outputs : SUBSET Names4, results : {{"r"}},
          files : {{"a", "r"}}, parses : BOOLEAN, interpreter : {TRUE}]
ASSUME \A spec \in Specs :
    /\ Center!Preview(spec) = "vasp" => Center!ProjectOf(spec) # "general"
    /\ Center!Preview(spec) = "python" =>
          Center!ProjectOf(spec) = "general" /\ spec.outputs = {"r"} /\ spec.inputs = {"a"}

\* Preparing again changes nothing, and another plan under the same head is refused.
Hashes == [head : {"x", "y"}, rest : {1, 2}]
ASSUME \A a, b, c \in Hashes :
    LET one == Center!Prepare(<<>>, a)
        two == Center!Prepare(one.saved, b)
        three == Center!Prepare(two.saved, c)
    IN  /\ two.ok <=> (a.head = b.head => a = b)
        /\ \A head \in DOMAIN two.saved : three.saved[head] = two.saved[head]
        /\ c \in {a, b} /\ two.ok => three.saved = two.saved

\* A token opens what it was minted for, under the key that signed it, until it expires;
\* the approval of a run opens no submission, and that of a submission no other one.
Dirs == {"d1", "d2"}
ASSUME \A dir, other \in Dirs, hours \in 0 .. 2, time \in 0 .. 3, key \in {"k1", "k2"},
          consumed \in SUBSET {"id"} :
    LET thePlan == [id |-> "p", server |-> "s", dir |-> dir, steps |-> "submit", files |-> [of |-> "p"]]
        asked == [plan |-> thePlan, confirmed |-> FALSE, lines |-> TRUE, tty |-> FALSE, typed |-> "p"]
        forRun == Center!Approve(asked, 0, hours)
        forJob == Center!ApproveSubmit("s", dir, "run.sh", 0, hours)
        Text(token) == Center!Encode(token, "k1")
        lives == time < Center!Minted("s", "", "", "", "", 0, hours).expires
    IN  /\ Center!Confirmed(asked)
        /\ Center!VerifyToken(Text(forRun), key, forRun, time) <=> lives /\ key = "k1"
        /\ ~Center!VerifySubmit(Text(forRun), "id", consumed, key, "s", other, "run.sh", time)
        /\ Center!VerifySubmit(Text(forJob), "id", consumed, key, "s", other, "run.sh", time)
              <=> lives /\ key = "k1" /\ other = dir /\ consumed = {}
        /\ ~Center!VerifyToken([Text(forJob) EXCEPT !.payload.expires = 9], key, forJob, time)

\* A run of a good plan is shown alike by the list and by itself, every file has its row,
\* and only what is recorded as finished is shown so.
RunFiles ==
    [schema : {"unreadable", "none", "rsci.run/2", "rsci.run/9"}, status : {"completed", "failed", "running"},
     phase : {"", "monitoring", "finished"}, task : BOOLEAN, parsed : BOOLEAN, job : {"7"}]
ASSUME \A plan \in {"good", "damaged"}, saved \in RunFiles, alive \in SUBSET {"p"} :
    LET row == Center!ListPlans([p |-> plan], [p |-> saved, q |-> saved], alive)
        one == Center!Status(plan, saved, "p" \in alive)
    IN  /\ DOMAIN row = {"p", "q"}
        /\ plan = "good" /\ Center!Readable(saved) =>
              one.task = row["p"].task /\ one.job = row["p"].job
        /\ row["p"].task.phase = "finished" =>
              saved.phase = "finished" \/ (saved.phase = "" /\ saved.status \in {"completed", "failed"})
\* The row of a damaged plan hides the job that its run, asked for by itself, shows.
ASSUME \E saved \in RunFiles :
    /\ Center!Readable(saved) /\ Center!Status("damaged", saved, FALSE).job = "7"
    /\ Center!ListPlans([p |-> "damaged"], [p |-> saved], {})["p"].job = ""

\* The ledger of issued tokens has each once.
ASSUME \A a, b, c \in {"i", "j"} :
    LET token == Center!ApproveSubmit("s", "d1", "run.sh", 0, 1)
        issued == Center!RecordApproval(Center!RecordApproval(
                      Center!RecordApproval(<<>>, a, token), b, token), c, token)
    IN  /\ Len(issued) = Cardinality({a, b, c})
        /\ {issued[i].id : i \in DOMAIN issued} = {a, b, c}
=============================================================================
