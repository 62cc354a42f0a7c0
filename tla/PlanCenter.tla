-------------------------------- MODULE PlanCenter --------------------------------
(***********************************************************************************)
(* Plans before and around their execution: how a spec becomes a plan of a domain   *)
(* (engine.py preview and prepare, research.py build_python_plan), how approvals are *)
(* minted, written as text and checked (approval.py), and how plans and runs are     *)
(* shown from what is saved, damaged files included (engine.py status, list_plans).  *)
(* All of it is a function of the saved files and of what is asked; the execution is *)
(* in WorkflowTasks and LocalPython.  A hash stands for what is hashed.              *)
(***********************************************************************************)
EXTENDS Integers, Sequences, FiniteSets, SequencesExt

-----------------------------------------------------------------------------------
(* Preview and prepare.  A spec has a domain ("" if none is given), a project and a  *)
(* directory, each "" or the kind of the project it is; "elsewhere" is a directory   *)
(* that is no project.                                                               *)

Kinds == {"general", "vasp"}

\* The project of the spec: the one named, or the one whose directory is given.
ProjectOf(spec) ==
    IF spec.project # "" THEN spec.project
    ELSE IF spec.from \in Kinds THEN spec.from ELSE ""

DomainOf(spec) ==
    IF spec.domain # "" THEN spec.domain
    ELSE IF ProjectOf(spec) # "" THEN ProjectOf(spec) ELSE "vasp"

\* The names of a Python plan: inputs and script are read, outputs are results that are
\* not among them.
SoundNames(spec) ==
    /\ spec.script = "scripts" /\ spec.inputs # {} /\ spec.outputs # {}
    /\ spec.outputs \cap (spec.inputs \cup {"script"}) = {}
    /\ spec.outputs \subseteq spec.results

PythonPlan(spec) ==
    /\ ProjectOf(spec) = "general"
    /\ SoundNames(spec)
    /\ spec.inputs \subseteq spec.files /\ spec.parses /\ spec.interpreter

Preview(spec) ==
    CASE DomainOf(spec) = "general" -> IF PythonPlan(spec) THEN "python" ELSE "refused"
      [] DomainOf(spec) = "vasp" ->
            IF ProjectOf(spec) \in {"", "vasp"} /\ spec.from # "" /\ spec.server
            THEN "vasp" ELSE "refused"
      [] OTHER -> "refused"

\* A plan is saved once under the head of its hash: `saved` maps the heads to the hashes.
Head16(hash) == hash.head

Prepare(saved, hash) ==
    IF Head16(hash) \in DOMAIN saved
    THEN [ok |-> saved[Head16(hash)] = hash, saved |-> saved]
    ELSE [ok |-> TRUE,
          saved |-> [h \in DOMAIN saved \cup {Head16(hash)} |->
                        IF h \in DOMAIN saved THEN saved[h] ELSE hash]]

-----------------------------------------------------------------------------------
(* Approvals. *)

\* Who may mint: a caller that has the confirmation, or a phrase typed in a terminal or
\* given as a line; the phrase names the plan.
Confirmed(asked) ==
    \/ asked.confirmed
    \/ (asked.lines \/ asked.tty) /\ asked.typed = asked.plan.id

Minted(server, plan, files, action, parameters, now, hours) ==
    [server |-> server, plan |-> plan, files |-> files, action |-> action,
     parameters |-> parameters, expires |-> now + IF hours < 1 THEN 1 ELSE hours]

RunParameters(plan) == [server |-> plan.server, dir |-> plan.dir, steps |-> plan.steps]

Approve(asked, now, hours) ==
    Minted(asked.plan.server, asked.plan, asked.plan.files, "workflow_run",
           RunParameters(asked.plan), now, hours)

\* The one-shot approval of a script in a directory.
AdHoc(server, dir, script) == [server |-> server, dir |-> dir, script |-> script]
ApproveSubmit(server, dir, script, now, hours) ==
    Minted(server, AdHoc(server, dir, script), AdHoc(server, dir, script), "job_submit",
           [dir |-> dir, script |-> script], now, hours)

\* The text of a token: its fields in order, and the signature over them.
Encode(token, key) == [payload |-> token, signature |-> [of |-> token, by |-> key]]
Decodes(text) == DOMAIN text.payload = {"server", "plan", "files", "action", "parameters", "expires"}
VerifyToken(text, key, wanted, now) ==
    /\ Decodes(text)
    /\ text.signature = [of |-> text.payload, by |-> key]
    /\ \A field \in {"server", "plan", "files", "action", "parameters"} :
           text.payload[field] = wanted[field]
    /\ now < text.payload.expires

\* The gate of job_submit: the reference fits the submission and was not used before.
VerifySubmit(text, id, consumed, key, server, dir, script, now) ==
    /\ VerifyToken(text, key, ApproveSubmit(server, dir, script, now, 1), now)
    /\ id \notin consumed

\* The ledger of what was issued holds a token once, and never its text.
RecordApproval(issued, id, token) ==
    Append(SelectSeq(issued, LAMBDA row : row.id # id),
           [id |-> id, server |-> token.server, action |-> token.action,
            expires |-> token.expires])

-----------------------------------------------------------------------------------
(* What is shown.  A plan file is "good" or "damaged"; a run file is a record of its  *)
(* schema ("unreadable" if it is damaged), status, phase ("" before tasks had one),   *)
(* whether it has a task at all, whether a step parsed results, and its job.          *)

Readable(run) == run.schema # "unreadable"

Finished(run) ==
    \/ run.phase = "finished"
    \/ run.status = "completed"
    \/ ~run.task /\ run.status \in {"failed", "needs_review"} /\ run.parsed

Blocked(reason) == [phase |-> "blocked", reason |-> reason]

TaskView(run, alive) ==
    IF run.schema \notin {"none", "rsci.run/2"} \/ run.status = "invalid"
    THEN Blocked("invalid_plan")
    ELSE IF run.phase # "" THEN [phase |-> run.phase, reason |-> ""]
    ELSE IF Finished(run) THEN [phase |-> "finished", reason |-> ""]
    ELSE IF alive THEN [phase |-> "preparing", reason |-> ""]
    ELSE Blocked("legacy_confirmation_required")

\* One run: the last result that was saved, marked as blocked if its plan is not good.
Status(plan, run, alive) ==
    IF ~Readable(run) THEN [says |-> "failed"]
    ELSE [says |-> "ok", status |-> run.status, job |-> run.job,
          task |-> IF plan = "good" THEN TaskView(run, alive) ELSE Blocked("invalid_plan")]

\* The plan center: a row for each plan file, and one for each run without a plan.
Row(status, job, task) == [status |-> status, job |-> job, task |-> task]
NoTask == [phase |-> "none", reason |-> ""]
InvalidRow == Row("invalid", "", Blocked("invalid_plan"))

ListPlans(plans, runs, alive) ==
    [id \in DOMAIN plans \cup DOMAIN runs |->
        CASE id \notin DOMAIN plans -> InvalidRow
          [] id \in DOMAIN plans /\ plans[id] # "good" -> Row("invalid", "", NoTask)
          [] OTHER ->
                IF id \notin DOMAIN runs THEN Row("prepared", "", NoTask)
                ELSE IF Readable(runs[id])
                     THEN Row(runs[id].status, runs[id].job, TaskView(runs[id], id \in alive))
                     ELSE InvalidRow]
=============================================================================
