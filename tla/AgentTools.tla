-------------------------------- MODULE AgentTools --------------------------------
(***********************************************************************************)
(* The tools a model may call: the table of src/src/rsci/tools/registry.py with the *)
(* arguments each handler takes by subscript and what it changes, the surfaces that *)
(* dispatch to it (agents/runtime.py, mcp/server.py), the handlers' own refusals,   *)
(* the remote terminal (core/terminals.py), the skills (agents/skills.py) and the   *)
(* web (tools/web.py).  Everything here is a function of its arguments; there is no *)
(* state.  What the named operations do on a server is in the modules of their own; *)
(* here a tool has a set of effects:                                                *)
(*                                                                                  *)
(*   remote     files of a server      local      files or processes of this machine *)
(*   scheduler  a job is submitted     cancel     a job is cancelled                 *)
(*   ask        a card, plan or campaign waits for a person                          *)
(*   approved   a campaign is approved without a person                              *)
(*   mirror     the saved list of servers     profile   what VASPKIT's probe found   *)
(*   heartbeat  the monitor of a server is told that somebody looks                  *)
(*   terminal   a window opens on this machine      session  an SSH session          *)
(*                                                                                  *)
(* A world is what a handler sees besides its arguments: the active directory (a     *)
(* project of a kind, a directory outside the projects, or none), whether a chat     *)
(* session is bound, how submissions are made, and what is configured.  The engine   *)
(* is always there: cli/main.py builds every registry with one.                      *)
(***********************************************************************************)
EXTENDS Naturals, Sequences, FiniteSets, TLC, SequencesExt, FiniteSetsExt

CONSTANTS MaxSessions,  \* remote terminals remembered
          MaxSkills     \* skills a user can have

Offer(kind, needs, does) == [kind |-> kind, needs |-> needs, does |-> does]
Look(needs) == Offer("read", needs, {})
Alter(needs, does) == Offer("write", needs, does)

ServerTools ==
    [server_list |-> Offer("read", {}, {"mirror"}), server_status |-> Look({}),
     server_diagnostic |-> Look({})]

RemoteTools ==
    [remote_pwd |-> Look({}), remote_list |-> Look({"path"}), remote_read |-> Look({"path"}),
     remote_tail |-> Look({"path"}), remote_find |-> Look({"path"}),
     remote_stat |-> Look({"path"}), remote_du |-> Look({"path"}), trash_list |-> Look({})]

JobTools ==
    [job_list |-> Look({}), job_recent |-> Look({}), job_submission_status |-> Look({}),
     job_submission_diagnose |-> Look({}), job_state |-> Look({"job_id"})]

ScienceTools ==
    [job_logs_collect |-> Look({"job_id"}), vasp_progress |-> Look({"directory"}),
     vasp_validate |-> Look({"directory"}), potcar_metadata |-> Look({})]

ChangingTools ==
    [remote_mkdir |-> Alter({"path"}, {"remote"}), remote_copy |-> Alter({}, {"remote"}),
     remote_move |-> Alter({"path", "destination"}, {"remote"}),
     remote_trash |-> Alter({"path"}, {"remote"}),
     remote_restore |-> Alter({"trash_id"}, {"remote"})]

TransferTools ==
    [upload_file |-> Alter({"local_path", "remote_path"}, {"remote"}),
     download_file |-> Alter({"path", "local_path"}, {"local"})]

SubmitTool == [job_submit |-> Alter({"directory", "script"}, {"scheduler", "ask"})]

MetricsTool == [server_metrics |-> Offer("read", {}, {"heartbeat"})]

ShellTools == [shell_run |-> Alter({}, {"local"}), remote_run |-> Alter({}, {"remote"})]

ProjectTools ==
    [project_create |-> Alter({"name"}, {"local"}), project_list |-> Look({}),
     project_read |-> Look({"file"}), project_write |-> Alter({"file", "content"}, {"local"}),
     project_validate |-> Look({}), project_files |-> Look({})]

SkillTools ==
    [skill_list |-> Look({}), skill_read |-> Look({"name"}),
     skill_write |-> Alter({"name", "description", "body"}, {"local"})]

WebTools == [web_search |-> Look({"query"}), web_fetch |-> Look({"url"})]

WorkflowTools ==
    [research_prepare |-> Alter({}, {"ask"}), workflow_prepare |-> Alter({}, {"ask"}),
     workflow_preview |-> Look({}), workflow_status |-> Look({"plan_id"})]

CampaignTools ==
    [vaspkit_doctor |-> Offer("read", {}, {"remote", "profile"}), campaign_plan |-> Look({}),
     campaign_start |-> Alter({}, {"ask", "approved"}), campaign_status |-> Look({}),
     campaign_abort |-> Alter({"campaign_id"}, {"cancel"})]

Tools ==
    ServerTools @@ RemoteTools @@ JobTools @@ ScienceTools @@ ChangingTools @@ TransferTools
    @@ SubmitTool @@ MetricsTool @@ ShellTools @@ ProjectTools @@ SkillTools @@ WebTools
    @@ WorkflowTools @@ CampaignTools

-----------------------------------------------------------------------------------
(* Which tools there are. *)

ProjectKind(world) == IF world.active = "vasp" THEN "vasp" ELSE "general"

\* Names that begin with vasp_, vaspkit_, campaign_ or potcar_, and workflow_prepare.
Specialist ==
    {"vasp_progress", "vasp_validate", "potcar_metadata", "workflow_prepare"}
    \cup DOMAIN CampaignTools

Enabled(name, world) == name \in Specialist => ProjectKind(world) = "vasp"

ListTools(world, kinds) ==
    {name \in DOMAIN Tools : Tools[name].kind \in kinds /\ Enabled(name, world)}

-----------------------------------------------------------------------------------
(* The handlers.  `given` names the arguments that are there and not empty, `sound`  *)
(* says that what they name is: a file that may be read, a text of the right size, a *)
(* reference that verifies, an answer that arrives.                                  *)

ProjectNamed(world, given) == "project" \in given \/ world.active \in {"general", "vasp"}

SubmissionScoped(world, given) ==
    world.session \/ given \cap {"id", "server", "directory"} # {}

SubmissionKnown(world, given) == world.submitted \/ {"directory", "script"} \subseteq given

PlanPlaced(world, given) == world.active # "none" \/ given \cap {"from_dir", "project"} # {}

CopyNamed(given) == {"path", "destination"} \subseteq given

VaspGiven(given) == "vasp_path" \in given

\* What a handler asks for besides the arguments it takes by subscript.
HandlerTakes(name, world, given) ==
    /\ name = "remote_copy" => CopyNamed(given)
    /\ name \in DOMAIN TransferTools => world.active # "none"
    /\ name \in {"job_submission_status", "job_submission_diagnose"}
          => SubmissionScoped(world, given)
    /\ name = "job_submission_diagnose" => SubmissionKnown(world, given)
    /\ name = "potcar_metadata" => world.library
    /\ name \in {"project_read", "project_write", "project_validate", "project_files",
                 "research_prepare"} => ProjectNamed(world, given)
    /\ name = "workflow_prepare" => PlanPlaced(world, given)
    /\ name = "shell_run" => "command" \in given
    /\ name = "web_search" => world.search
    /\ name \in {"campaign_plan", "campaign_start"} => VaspGiven(given)
    /\ name = "campaign_start" => "recipe" \in given

\* A reference submits, so does the automatic mode; else the request waits on a card.
SubmitDoes(world, given) ==
    IF "approval_ref" \in given \/ world.submits = "auto" THEN {"scheduler"} ELSE {"ask"}

CampaignDoes(world) == {"ask"} \cup IF world.submits = "auto" THEN {"approved"} ELSE {}

HandlerDoes(name, world, given) ==
    CASE name = "job_submit" -> SubmitDoes(world, given)
      [] name = "campaign_start" -> CampaignDoes(world)
      [] OTHER -> Tools[name].does

\* A submission waits on a card even if its script could not be read, and a diagnosis says
\* what it could not see.
Tolerates(name, world, given) ==
    \/ name = "job_submit" /\ SubmitDoes(world, given) = {"ask"}
    \/ name = "job_submission_diagnose"

Handler(name, world, given, sound) ==
    IF /\ Tools[name].needs \subseteq given /\ HandlerTakes(name, world, given)
       /\ sound \/ Tolerates(name, world, given)
    THEN [says |-> "ok", does |-> HandlerDoes(name, world, given)]
    ELSE [says |-> "failed", does |-> {}]

Dispatch(name, world, given, sound, mode) ==
    IF name \notin DOMAIN Tools \/ ~Enabled(name, world)
    THEN [says |-> "failed", does |-> {}]
    ELSE IF Tools[name].kind = "write" /\ mode # "full"
         THEN [says |-> "blocked", does |-> {}]
         ELSE Handler(name, world, given, sound)

\* What a model is told of the submissions of its chat before each of its turns: nothing
\* if there are none, and that it cannot know if the records cannot be read.
SubmissionContext(world, readable) ==
    IF ~world.session \/ (readable /\ ~world.submitted) THEN "nothing"
    ELSE IF readable THEN "records" ELSE "unavailable"

\* The spec a plan is prepared from: the active directory unless one is named.  The plan
\* is bound to the chat that asked.
PreparedPlan(world, given) ==
    [from |-> IF "from_dir" \in given THEN "given"
              ELSE IF world.active # "none" THEN "active" ELSE "of the project",
     bound |-> world.session, waits |-> TRUE]

-----------------------------------------------------------------------------------
(* The loop of the agent over the calls of one reply, and the surface of MCP. *)

\* A plan is handed to a person: the turn ends there and the calls that follow in the
\* reply are not made.  A waiting card does not end the turn.
HandsOver(call, outcome) ==
    outcome.says = "ok" /\ call.name \in {"research_prepare", "workflow_prepare"}

RunReply(calls, world, mode, stopAt) ==
    LET Outcome(i) == Dispatch(calls[i].name, world, calls[i].given, calls[i].sound, mode)
        plans == {i \in DOMAIN calls : HandsOver(calls[i], Outcome(i))}
        last == Min({Len(calls)} \cup plans \cup (IF stopAt = 0 THEN {} ELSE {stopAt - 1}))
    IN  [trace |-> [i \in 1 .. last |-> Outcome(i)],
         ends |-> IF last \in plans THEN "handed over"
                  ELSE IF stopAt # 0 /\ stopAt <= Len(calls) THEN "stopped" ELSE "goes on"]

\* The one-shot chat: calls are proposed, none is made.
ChatOnce(calls) == [proposed |-> [i \in DOMAIN calls |-> calls[i].name], does |-> {}]

McpOnly ==
    [open_remote_login |-> {"terminal"}, open_approval_terminal |-> {"terminal"},
     server_connect |-> {"session"}, server_key_status |-> {},
     open_key_setup_terminal |-> {"terminal"}, rsci_self_check |-> {},
     fleet_snapshot |-> {}, render_fleet_dashboard |-> {}]

McpNeeds(name) ==
    CASE name \in {"open_remote_login", "server_connect", "server_key_status",
                   "open_key_setup_terminal"} -> {"server"}
      [] name = "open_approval_terminal" -> {"plan_id"}
      [] OTHER -> {}

McpTools(world) == ListTools(world, {"read", "write"}) \cup DOMAIN McpOnly

\* The servers of a snapshot: all of them, or a list of one to 32 names without a repeat.
FleetServers(names, Known) ==
    Len(names) \in 1 .. 32 /\ Range(names) \subseteq Known /\ IsInjective(names)

\* The tools of MCP's own do not look at the mode.
McpDispatch(name, world, given, sound, mode) ==
    IF name \in DOMAIN McpOnly
    THEN IF McpNeeds(name) \subseteq given /\ sound
         THEN [says |-> "ok", does |-> McpOnly[name]]
         ELSE [says |-> "failed", does |-> {}]
    ELSE Dispatch(name, world, given, sound, mode)

Silent == {"notifications/initialized", "notifications/cancelled"}
Answered == {"initialize", "ping", "tools/list", "resources/list"}

\* A line of the client and the answer to it; "tool" stands for what the tool says, its
\* failure included.
McpReply(line) ==
    IF ~line.json THEN "error"
    ELSE CASE line.method \in Silent -> "nothing"
           [] line.method \in Answered -> "result"
           [] line.method = "resources/read" -> IF line.sound THEN "result" ELSE "error"
           [] line.method = "tools/call" -> IF line.sound THEN "tool" ELSE "error"
           [] OTHER -> IF line.id THEN "error" ELSE "nothing"

\* What the self-test of the server asks of its tools.
SelfTest(world) ==
    /\ {"server_list", "remote_list", "remote_read", "research_prepare", "job_state",
        "open_remote_login", "open_approval_terminal", "rsci_self_check", "server_connect",
        "server_key_status", "open_key_setup_terminal"} \subseteq McpTools(world)
    /\ {"shell_run", "remote_run"} \subseteq McpTools(world)

-----------------------------------------------------------------------------------
(* The remote terminal of a chat: the directory a command ends in is printed after   *)
(* its output, behind a marker, and is where the next one starts.                    *)

\* The least recently used terminal is forgotten.
HubFor(hubs, session) ==
    LET others == SelectSeq(hubs, LAMBDA h : h # session)
        all == Append(others, session)
    IN  SubSeq(all, Max({1, Len(all) - MaxSessions + 1}), Len(all))

\* A directory that is gone is not entered: the command starts in the home.
StartsIn(saved, there) == IF saved # "" /\ saved \in there THEN saved ELSE "/home"

\* The client keeps the head of the output, the marker is at its end, and a command that
\* is killed, or leaves the shell, prints none.
MarkerArrives(command) == command.returns /\ ~command.long

RemoteRun(saved, command, there, session) ==
    LET kept == IF command.reset \/ ~session THEN "" ELSE saved
        start == StartsIn(kept, there)
        ends == IF command.cd = "" THEN start ELSE command.cd
        seen == IF MarkerArrives(command) THEN ends ELSE ""
    IN  [start |-> start, ends |-> ends, told |-> IF seen # "" THEN seen ELSE kept,
         saved |-> IF ~session THEN "" ELSE IF seen # "" THEN seen ELSE kept]

\* A local command: no memory, an exit code, or the time limit.
ShellRun(ends) ==
    CASE ends = "timeout" -> [ok |-> FALSE, audited |-> "timeout"]
      [] ends = "zero"    -> [ok |-> TRUE, audited |-> "ok"]
      [] OTHER            -> [ok |-> FALSE, audited |-> "fail"]

-----------------------------------------------------------------------------------
(* Skills: built-in ones, which a user's skill of the same name hides. *)

SkillList(own, builtin) ==
    [name \in own \cup builtin |-> [builtin |-> name \notin own,
                                    overrides |-> name \in own \cap builtin]]

SkillRead(name, own, builtin) ==
    IF name \in own THEN "own" ELSE IF name \in builtin THEN "builtin" ELSE "not found"

SkillWrite(name, own, builtin, valid) ==
    LET rows == SkillList(own, builtin)
        full == Cardinality({n \in DOMAIN rows : ~rows[n].builtin}) >= MaxSkills
    IN  IF (name \in own \/ ~full) /\ valid THEN own \cup {name} ELSE own

SkillDelete(name, own) == own \ {name}

-----------------------------------------------------------------------------------
(* The web. *)

\* A target of a fetch: http or https, an allowed port, and no address that is not public.
PublicTarget(url) ==
    /\ url.scheme \in {"http", "https"} /\ url.host /\ url.port \in {"none", "allowed"}
    /\ url.addresses # {} /\ "private" \notin url.addresses

\* The text is cut twice, as it comes and as it is shown, and either is said.
WebFetch(url, body, text) ==
    IF PublicTarget(url)
    THEN [says |-> "ok", truncated |-> body = "over" \/ text = "over"]
    ELSE [says |-> "failed", truncated |-> FALSE]

WebSearch(query, provider, key) ==
    /\ query \notin {"", "long"}
    /\ provider \in {"zhipu", "bocha", "tavily", "bing"}
    /\ provider # "bing" => key

\* The data sets of the local library: all that are asked for, or a refusal.
PotcarMetadata(variants, library, readable) ==
    IF variants \subseteq library /\ variants \subseteq readable THEN variants ELSE {}

\* The file of a campaign, and the profile that must fit the library that is set now.
CampaignInput(file) == file.exists /\ ~file.large /\ file.utf8

ProfileReady(profile, library) == profile.ready /\ profile.library = library

CampaignPlan(file, recipe, profile, library) ==
    IF ~CampaignInput(file) THEN [stage |-> "refused", ready |-> FALSE]
    ELSE IF ~recipe THEN [stage |-> "needs_recipe", ready |-> ProfileReady(profile, library)]
         ELSE IF ProfileReady(profile, library) THEN [stage |-> "planned", ready |-> TRUE]
              ELSE [stage |-> "refused", ready |-> FALSE]
=============================================================================
