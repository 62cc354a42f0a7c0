----------------------------- MODULE MCVaspFiles -----------------------------
(* What the console and the server make of the files of a run and of its job: the
   assumptions compare their readings over small inputs. *)
EXTENDS Integers, Sequences, FiniteSets
LOCAL INSTANCE SequencesExt

(* The two readings of the inputs, compared over small texts. *)

Inputs == INSTANCE VaspInputs

Origin == <<"0", "0", "0">>
Poscars ==
    {<<<<title>>, <<scale>>, <<"1", "0", "0">>, <<"0", "0.5", "0">>, third>>
         \o species \o <<counts>> \o selective \o <<<<kind>>>> \o rows :
     title \in {"placeholder", "slab"}, scale \in {"0", "1", "word"},
     third \in {<<"0", "0", "1">>, <<"1", "0", "0">>, <<"0", "1">>},
     species \in {<<>>, <<<<"si">>>>, <<<<"si", "o">>>>},
     counts \in {<<"1">>, <<"1", "1">>, <<"0">>, <<"word">>},
     selective \in {<<>>, <<<<"selective">>>>}, kind \in {"direct", "word"},
     rows \in {<<>>, <<Origin>>, <<Origin, <<"0", "0", "0.5">>>>, <<Origin, <<"word">>>>}}
Rows == {<<>>, <<Origin>>, <<<<"word">>>>}
Kpoints ==
    {title \o <<<<mode>>, <<style>>, mesh>> \o more \o last :
     title \in {<<>>, <<<<"mesh">>>>}, mode \in {"-1", "0", "1", "2", "word"},
     style \in {"gamma", "line", "reciprocal", "word"},
     mesh \in {<<"1", "1", "1">>, <<"0", "1", "1">>, <<"reciprocal">>},
     more \in Rows, last \in Rows}
Settings == [tag : {"NSW", "NELM"}, value : {"-1", "0", "2"}, beside : Inputs!Beside]
            \cup [tag : {"NSW"}, value : {""}, beside : {"nothing", "remark"}]
Incars == {<<a>> : a \in Settings} \cup {<<a, b>> : a, b \in Settings}

\* A POSCAR that passes here passes on the server; one that only passes there has a
\* scale of zero, dependent vectors, or as many counts as there are no species.
ASSUME PoscarsCompared ==
    \A p \in Poscars :
        /\ Inputs!PoscarErrors(p) = {} => Inputs!StrictPoscarErrors(p) = {}
        /\ Inputs!StrictPoscarErrors(p) = {} =>
               Inputs!PoscarErrors(p) \subseteq {"scale", "dependent", "columns"}
\* The server refuses every KPOINTS without a title, and else agrees.
ASSUME KpointsCompared ==
    \A k \in Kpoints :
        Inputs!StrictKpointsErrors(k) = {} <=>
            Inputs!KpointsErrors(k) = {} /\ ~Inputs!Titleless(k)
\* An INCAR that passes here is refused there only if all of it is commented out.
ASSUME IncarsCompared ==
    \A i \in Incars :
        /\ Inputs!StrictIncarErrors(i) = {} => Inputs!IncarErrors(i) \subseteq {"NSW", "NELM"}
        /\ Inputs!IncarErrors(i) = {} /\ Inputs!StrictIncarErrors(i) # {} =>
               \A l \in DOMAIN i : i[l].beside = "hash" \/ Inputs!Blank(i[l])
\* Both read the same number from an INCAR whose settings stand alone.
ASSUME NumbersCompared ==
    \A i \in Incars :
        (\A l \in DOMAIN i : i[l].beside \notin {"remark", "second"}) =>
            \A tag \in {"NSW", "NELM"} :
                Inputs!Number(Inputs!LocalValue(i, tag), 7) = Inputs!Number(Inputs!GatewayValue(i, tag), 7)

Slab == CHOOSE p \in Poscars : Inputs!PoscarErrors(p) = {}
Mesh == CHOOSE k \in Kpoints : Inputs!KpointsErrors(k) = {} /\ ~Inputs!Titleless(k)
Projects2 ==
    {dir \in [present : {p \cup {"INCAR", "KPOINTS"} : p \in SUBSET {"POSCAR", "POTCAR"}},
              INCAR : {<<>>, <<[tag |-> "NSW", value |-> "2", beside |-> "nothing"]>>},
              KPOINTS : {<<>>, Mesh}, POSCAR : {<<>>, Slab}, POTCAR : {0, 1},
              script : {"none", "own", "empty"}] :
     /\ "POSCAR" \notin dir.present => dir.POSCAR = <<>>
     /\ "POTCAR" \notin dir.present => dir.POTCAR = 0}
\* What a plan is made of passes on the server, if the files are read to their start; and
\* a ready project is one a plan with its POTCAR is made of, but for an empty POTCAR.
ASSUME PlansPass ==
    \A dir \in Projects2, skip \in BOOLEAN :
        ~Inputs!Refused(dir, skip) => Inputs!StrictErrors(dir, ~skip, 20) = {}
ASSUME ReadyPlans ==
    \A dir \in Projects2 :
        Inputs!Ready(dir, {}) /\ dir.script # "empty" /\ dir.POTCAR > 0 <=> ~Inputs!Refused(dir, FALSE)
\* Every plan uploads before it validates, submits after, and fetches what the verdict
\* is read from, each file once.
ASSUME StepsInOrder ==
    \A skip \in BOOLEAN, asked \in {<<>>, <<"CONTCAR", "OUTCAR", "CONTCAR">>} :
        LET steps == Inputs!Steps(skip, asked)
            at(type) == {n \in DOMAIN steps : steps[n].type = type}
            fetched == steps[CHOOSE n \in at("download") : TRUE].files
        IN  /\ \A u \in at("upload"), v \in at("validate"), s \in at("submit") : u < v /\ v < s
            /\ \A p \in at("parse") : ToSet(steps[p].files) \subseteq ToSet(fetched)
            /\ Cardinality(ToSet(fetched)) = Len(fetched)
-----------------------------------------------------------------------------
(* What is concluded about a job, over small directories and servers. *)

Jobs == INSTANCE JobEvidence

\* Logs to which first another job and then this one has written, or one of them.
Ends == {<<>>, <<"end">>, <<"exit", "end">>, <<"text", "exit", "end">>}
Written == {<<"other">> \o e : e \in Ends} \cup {<<"this">> \o e : e \in Ends}
           \cup {<<"other">> \o d \o <<"this">> \o e : d, e \in Ends}
FileOf(rows) == [name |-> "record", asked |-> FALSE, rows |-> rows, readable |-> TRUE,
                 fatal |-> TRUE]
HasReceipt(rows, window) == Jobs!Receipts(<<FileOf(rows)>>, 8, window) # {}
OwnEnd(rows) == \E i, j \in DOMAIN rows : rows[i] = "this" /\ j > i /\ rows[j] = "exit"

\* A receipt is from a log that ends with this job's own end, if the log is read whole;
\* a tail may take the end of another run for it.
ASSUME ReceiptsOwn ==
    \A rows \in Written : HasReceipt(rows, Len(rows)) => OwnEnd(rows) /\ rows[1] = "this"
ASSUME TailMayMislead ==
    \E rows \in Written : \E w \in DOMAIN rows : HasReceipt(rows, w) /\ ~OwnEnd(rows)

\* What the script names or has this job's number is read before any other file, and what
\* has another's never.
FileKinds == [name : Jobs!Names, asked : BOOLEAN, rows : {<<>>}, readable : {TRUE},
              fatal : {FALSE}]
ASSUME OwnFilesFirst ==
    \A a, b, c \in FileKinds :
        LET files == <<a, b, c>>
            first == {i \in 1 .. 3 : (files[i].asked \/ files[i].name = "own")
                                    /\ files[i].name \notin {"others", "potcar"}}
            chosen == Jobs!Chosen(files, 2)
        IN  /\ Cardinality(first) <= 2 => first \subseteq chosen
            /\ \A i \in chosen : files[i].name \notin {"others", "potcar"}

\* Only convergence is success, and a state that failed never is.
ASSUME SuccessConverged ==
    \A state \in {"COMPLETED", "RUNNING", "FAILED", "UNKNOWN"}, found, converged \in BOOLEAN :
        Jobs!Level(state, found, converged) = "success" <=>
            converged /\ ~found /\ state # "FAILED"

\* A log of another job alone does not change the diagnosis of the center, but does that
\* of the page.
Nothing == [squeue |-> {}, sacct |-> {}, sstat |-> {}]
Converged == [fatal |-> FALSE, converged |-> TRUE]
ASSUME OthersLog ==
    LET others == <<FileOf(<<"other", "text", "exit", "end">>)>> IN
        /\ Jobs!CenterDiagnosis([state |-> "COMPLETED"], others, Converged, 8, 4) = "success"
        /\ Jobs!ConsoleReport("COMPLETED", Nothing, others, Converged, 8).level = "error"
\* The state the accounting shows goes before the one the page sent, and a wait is only
\* known if the job has started.
Accounted == [job : {"this", "other"}, step : BOOLEAN, state : {"FAILED", "COMPLETED"},
              submit : {0, 3}, start : {0, 2, 5}]
ASSUME AccountingFirst ==
    \A line \in Accounted, slurm \in BOOLEAN, failed \in SUBSET {"sacct", "squeue"} :
        LET taken == [Nothing EXCEPT !.sacct = {line}]
            report == Jobs!ConsoleReport("RUNNING", Jobs!Snapshot(slurm, taken, failed),
                                             <<>>, Converged, 8)
            counts == slurm /\ "sacct" \notin failed /\ line.job = "this" /\ ~line.step
        IN  /\ report.state = IF counts THEN line.state ELSE "RUNNING"
            /\ report.wait # {} <=> counts /\ line.submit = 3 /\ line.start = 5

Servers == [scheduler : {"pbs"}, prefix : {"#PBS", "#X"}, operand : {"--", "./"},
            queues : [{"a", "b"} -> BOOLEAN], default : {"a", "c", ""}]
           \cup [scheduler : {"slurm"}, prefix : {"#SBATCH"}, operand : {"--"},
                 queues : [{"a", "b"} -> BOOLEAN], default : {""}]
Directives == [prefix : {"#PBS", "#SBATCH", "#X"}, queue : {"", "a", "b", "c"}]
Headers == {<<>>} \cup {<<d>> : d \in Directives} \cup {<<d, e>> : d, e \in Directives}
Scripts == [header : Headers, ends : {TRUE}]
\* The queue the scheduler takes from the script, and whether it can take it.
Asked(server, script) ==
    LET read == SelectSeq(script.header, LAMBDA d : d.prefix = server.prefix /\ d.queue # "")
    IN  IF read = <<>> THEN server.default ELSE Last(read).queue
Takes(server, q) == q \in DOMAIN server.queues /\ server.queues[q]

\* Whatever probes fail, the script is to be changed only if the queue it asks for, or the
\* default it leaves it to, does not take jobs.
ASSUME ScriptsToChange ==
    \A server \in Servers, script \in Scripts, failed \in SUBSET Jobs!Probes :
        "job_script" \in Jobs!Repairs(Jobs!Inspect(server, script, failed)) =>
            ~Takes(server, Asked(server, script))
\* A server in order and a script that asks for a queue that takes jobs need no repair, and
\* then the default of the server does not matter.
ASSUME QueueExplicit ==
    \A server \in Servers, script \in Scripts :
        LET told == Jobs!Repairs(Jobs!Inspect(server, script, {}))
            explicit == \E i \in DOMAIN script.header : /\ script.header[i].prefix = server.prefix
                                                       /\ script.header[i].queue # ""
        IN  explicit /\ Takes(server, Asked(server, script)) =>
                /\ "job_script" \notin told
                /\ server.prefix # "#X" /\ (server.scheduler = "pbs" => server.operand = "./")
                      => told = {"verification"}
                /\ \A d \in {"a", "c", ""} : told = Jobs!Repairs(
                        Jobs!Inspect([server EXCEPT !.default = d], script, {}))
=============================================================================
