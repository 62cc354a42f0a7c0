--------------------------- MODULE MCPendingSubmits ---------------------------
(* Small instances of PendingSubmits for TLC.  In other behaviours, the other things   *)
(* the console keeps of the servers: what it shows of a job, or who can be logged in   *)
(* to.  And the tools of the model, whose job_submit makes the cards.                  *)
EXTENDS PendingSubmits, TLC, Sequences

CONSTANTS h1, h2, v1, v2, MaxSessions, MaxSkills
CONSTANTS t1, t2, l1, l2, p1, d1, d2,
          Scheduler, Threads, Listers, Projects, NoProject, MaxRuns, DirOf, NoDir
CONSTANTS n1, n2, n3, near, far, Names, Hosts, Roots, Host, VlabHosts, MaxRequests
VARIABLES part,
          job, book, row, stale, receipts, entry, thread, lister, submitter,
          catalog, mirror, logins, edit, pull, kept, requests

jobVars == <<job, book, row, stale, receipts, entry, thread, lister, submitter>>
serverVars == <<catalog, mirror, logins, edit, pull, kept, requests>>

Jobs == INSTANCE JobRecords
Servers == INSTANCE ServerCatalog

ASSUME JobConstants == Jobs!RecordsAssumption
ASSUME ServerConstants == Servers!CatalogAssumption

MCInit == /\ part \in {"cards", "jobs", "servers"}
          /\ Init /\ Jobs!Init /\ Servers!Init
          /\ part # "jobs" => book = "center"            \* one of each beside the others
          /\ part # "cards" => faults = {} /\ script = CHOOSE v \in Versions : TRUE
MCNext == \/ part = "cards" /\ Next /\ UNCHANGED <<part, jobVars, serverVars>>
          \/ part = "jobs" /\ Jobs!Next /\ UNCHANGED <<part, vars, serverVars>>
          \/ part = "servers" /\ Servers!Next /\ UNCHANGED <<part, vars, jobVars>>
MCSpec == MCInit /\ [][MCNext]_<<part, vars, jobVars, serverVars>>

\* The twins of all parts change places together.
Twins == (h1 :> h2) @@ (h2 :> h1) @@ (t1 :> t2) @@ (t2 :> t1)
         @@ (l1 :> l2) @@ (l2 :> l1) @@ (n1 :> n2) @@ (n2 :> n1)
Interchangeable == Permutations({v1, v2}) \cup {Twins}
\* The second job with the id runs elsewhere.
Apart == <<d1, d2>>
\* Two names for one host, behind Vlab; and a name for a second host.
TwoAndOne == (n1 :> near) @@ (n2 :> near) @@ (n3 :> far)

\* As in JobRecords.
EndedTruly == Jobs!EndedTruly
EndsStay == Jobs!EndsStay
AssociationFits == Jobs!AssociationFits
\* As in ServerCatalog.
LoginKept == Servers!LoginKept
-----------------------------------------------------------------------------
(* The tools of the model *)

Agent == INSTANCE AgentTools

Worlds == [active : {"none", "outside", "general", "vasp"}, session : BOOLEAN,
           submits : {"confirm", "auto"}, submitted : BOOLEAN, library : BOOLEAN,
           search : BOOLEAN]
AllNamed == UNION {Agent!Tools[name].needs : name \in DOMAIN Agent!Tools}
            \cup {"server", "project", "vasp_path", "recipe", "command", "from_dir"}
Givens(name) == {{}, AllNamed, AllNamed \cup {"approval_ref"}, Agent!Tools[name].needs}

\* A degraded provider changes nothing of a server's files and jobs and asks for no
\* approval, whatever it calls: what its read tools change is named here.
ASSUME \A world \in Worlds, name \in DOMAIN Agent!Tools, sound \in BOOLEAN :
    \A given \in Givens(name) :
        LET outcome == Agent!Dispatch(name, world, given, sound, "analysis_only")
        IN  outcome.does # {} => name \in {"server_list", "server_metrics", "vaspkit_doctor"}

\* A job reaches the scheduler by a reference that verifies or in the automatic mode only,
\* and in no other mode is a campaign approved.
ASSUME \A world \in Worlds, name \in DOMAIN Agent!Tools, sound \in BOOLEAN :
    \A given \in Givens(name) :
        LET does == Agent!Dispatch(name, world, given, sound, "full").does
        IN  /\ "scheduler" \in does =>
                  world.submits = "auto" \/ ("approval_ref" \in given /\ sound)
            /\ "approved" \in does => world.submits = "auto"

\* A tool that is offered works with all its arguments, but for what is not configured,
\* and one that is not offered is not there on any surface.
ASSUME \A world \in Worlds :
    LET offered == Agent!ListTools(world, {"read", "write"})
        Says(name) == Agent!Dispatch(name, world, AllNamed, TRUE, "full").says
    IN  /\ \A name \in DOMAIN Agent!Tools \ offered : Says(name) = "failed"
        /\ \A name \in offered : Says(name) = "failed" =>
              \/ name \in DOMAIN Agent!TransferTools /\ world.active = "none"
              \/ name = "potcar_metadata" /\ ~world.library
              \/ name = "web_search" /\ ~world.search
        /\ "blocked" \notin {Says(name) : name \in offered}
ASSUME /\ DOMAIN Agent!McpOnly \cap DOMAIN Agent!Tools = {}
       /\ \A world \in Worlds : Agent!SelfTest(world)

\* After a plan was handed over, or the stop was seen, no call of the reply is made; a
\* call that is made has the calls before it made.
Calls == [name : {"remote_move", "workflow_prepare", "job_submit", "shell_run"},
          given : {AllNamed}, sound : BOOLEAN]
Chat == [active |-> "vasp", session |-> TRUE, submits |-> "confirm", submitted |-> FALSE,
         library |-> TRUE, search |-> TRUE]
ASSUME \A a, b, c \in Calls, stopAt \in 0 .. 4, mode \in {"full", "analysis_only"} :
    LET reply == <<a, b, c>>
        turn == Agent!RunReply(reply, Chat, mode, stopAt)
        Plan(i) == mode = "full" /\ reply[i].sound /\ reply[i].name = "workflow_prepare"
    IN  /\ \A i \in DOMAIN turn.trace : Plan(i) => i = Len(turn.trace)
        /\ turn.ends = "handed over" <=> \E i \in DOMAIN turn.trace : Plan(i)
        /\ stopAt # 0 => Len(turn.trace) < stopAt
        /\ turn.ends = "goes on" => Len(turn.trace) = 3

\* Every request is answered, and nothing else is.
Lines == [json : {TRUE}, id : BOOLEAN, sound : BOOLEAN,
          method : {"initialize", "ping", "tools/list", "tools/call", "resources/read", "other"}]
         \cup [json : {TRUE}, id : {FALSE}, sound : BOOLEAN, method : Agent!Silent]
ASSUME \A line \in Lines : line.id => Agent!McpReply(line) # "nothing"
ASSUME \A line \in Lines : line.method \in Agent!Silent => Agent!McpReply(line) = "nothing"

\* A command starts where the last one ended, if that is there and the marker came: the
\* marker of one that printed much does not, and the next starts where this one did.
Commands == [reset : BOOLEAN, cd : {"", "/a", "/b"}, returns : BOOLEAN, long : BOOLEAN]
There == {{"/a"}, {"/a", "/b"}}
ASSUME \A saved \in {"", "/a"}, c \in Commands, d \in Commands, first, then \in There :
    LET one == Agent!RemoteRun(saved, c, first, TRUE)
        two == Agent!RemoteRun(one.saved, d, then, TRUE)
    IN  ~d.reset /\ Agent!MarkerArrives(c) =>
            two.start = IF one.ends \in then THEN one.ends ELSE "/home"
ASSUME \E c, d \in Commands :
    LET one == Agent!RemoteRun("/a", c, {"/a", "/b"}, TRUE)
    IN  /\ c.returns /\ ~c.reset /\ one.ends = "/b"
        /\ Agent!RemoteRun(one.saved, d, {"/a", "/b"}, TRUE).start = "/a"

\* The terminals kept are those used last, each once.
Uses == UNION {[1 .. n -> {"s1", "s2", "s3"}] : n \in 0 .. 4}
Hubs[n \in 0 .. 4, uses \in Uses] ==
    IF n = 0 THEN <<>> ELSE Agent!HubFor(Hubs[n - 1, uses], uses[n])
ASSUME \A uses \in Uses :
    LET hubs == Hubs[Len(uses), uses]
        LastUse(s) == Agent!Max({i \in DOMAIN uses : uses[i] = s} \cup {0})
    IN  /\ Len(hubs) = Agent!Min({MaxSessions, Cardinality({uses[i] : i \in DOMAIN uses})})
        /\ \A i, j \in DOMAIN hubs : i < j => LastUse(hubs[i]) < LastUse(hubs[j])
        /\ \A s \in {uses[i] : i \in DOMAIN uses} :
               (\A i \in DOMAIN hubs : hubs[i] # s) =>
                   \A i \in DOMAIN hubs : LastUse(s) < LastUse(hubs[i])

\* The list shows what a read returns, and writing never passes the cap, whatever built-in
\* skills are hidden.
SkillNames == {"a", "b", "c"}
ASSUME \A own, builtin \in SUBSET SkillNames, name \in SkillNames, valid \in BOOLEAN :
    LET rows == Agent!SkillList(own, builtin)
        after == Agent!SkillWrite(name, own, builtin, valid)
    IN  /\ name \in DOMAIN rows <=> Agent!SkillRead(name, own, builtin) # "not found"
        /\ name \in DOMAIN rows =>
              rows[name].builtin = (Agent!SkillRead(name, own, builtin) = "builtin")
        /\ Cardinality(own) <= MaxSkills => Cardinality(after) <= MaxSkills
        /\ own \subseteq after
        /\ Agent!SkillRead(name, Agent!SkillDelete(name, after), builtin) # "own"

\* A chain is planned only with a profile of the library that is set now.
Files == [exists : BOOLEAN, large : BOOLEAN, utf8 : BOOLEAN]
ASSUME \A file \in Files, recipe, ready \in BOOLEAN, probed, set \in {"", "x", "y"} :
    LET plan == Agent!CampaignPlan(file, recipe, [ready |-> ready, library |-> probed], set)
    IN  plan.stage = "planned" => ready /\ probed = set /\ recipe /\ file.utf8

ASSUME \A names \in UNION {[1 .. n -> {"s1", "s2"}] : n \in 0 .. 3} :
    Agent!FleetServers(names, {"s1"}) <=> names = <<"s1">>
=============================================================================
