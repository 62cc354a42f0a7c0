----------------------------- MODULE JobEvidence -----------------------------
(* What is concluded from what is found about a job: which logs of a directory that
   several jobs may have used are its own (hpc/joblogs.py), how it went
   (hpc/diagnostics.py, hpc/evidence.py), and what to repair before another submission
   (hpc/submission.py), from probes each of which may fail (rsci_gateway.py).
   Read-only, so operators only. The job asked about is "this". *)
EXTENDS Integers, Sequences, FiniteSets, SequencesExt

If(condition, x) == IF condition THEN {x} ELSE {}

-------------------------------------------------------------------------------
(* Logs. A file has a kind of name, rows, and whether the script names it (and whether
   it can be read and tells of something fatal); a row is the number of a job, an exit
   code, an end, or text. *)

Names == {"own",       \* the scheduler's output file with the number of this job,
          "others",    \* or with that of another
          "record",    \* job_info.log, summary.log
          "input",     \* INCAR
         "vasp",      \* OUTCAR, OSZICAR
          "common",    \* .log, .out, ...
          "data", "potcar"}
Rows == {"this", "other", "exit", "end", "text"}

\* script_outputs: directives count up to the first command; a path that the shell would
\* have to expand is not guessed, one outside of the directory is not read.
Header(script) ==
    LET commands == {i \in DOMAIN script : script[i].kind = "command"}
    IN  {i \in DOMAIN script : \A c \in commands : i < c}
ScriptOutputs(script) ==
    {script[i].output : i \in {j \in Header(script) : /\ script[j].kind = "directive"
                                                      /\ script[j].where = "inside"}}

\* The script that was submitted is read; if it is gone, the first two that are there.
Scripts(submitted, there) ==
    IF submitted \in ToSet(there) THEN {submitted}
    ELSE {there[i] : i \in {j \in 1 .. 2 : j <= Len(there)}}

Denied(file) == file.name = "potcar"
Excluded(file) == file.name = "others"
Priority(file, vasp) ==
    CASE Denied(file) \/ Excluded(file) -> 9
      [] file.asked /\ ~Denied(file) /\ ~Excluded(file) -> 0
      [] file.name = "own" /\ ~file.asked -> 1
      [] file.name = "record" /\ ~file.asked -> 2
      [] file.name = "vasp" /\ ~file.asked /\ vasp -> 3
      [] file.name = "common" /\ ~file.asked -> 4
      [] OTHER -> 9
IsVasp(files) == \E i \in DOMAIN files : files[i].name \in {"input", "vasp"}
\* The files in the order of their paths; the first MaxLogs by priority are read.
Candidates(files) == {i \in DOMAIN files : Priority(files[i], IsVasp(files)) < 9}
Before(files, i, j) ==
    LET p(k) == Priority(files[k], IsVasp(files)) IN p(i) < p(j) \/ (p(i) = p(j) /\ i < j)
Chosen(files, MaxLogs) ==
    {j \in Candidates(files) :
        Cardinality({i \in Candidates(files) : Before(files, i, j)}) < MaxLogs}

Tail160(rows, window) ==
    SubSeq(rows, IF Len(rows) > window THEN Len(rows) - window + 1 ELSE 1, Len(rows))
Markers(rows) == ToSet(rows) \cap {"this", "other"}
Attributable(file, window) == Markers(Tail160(file.rows, window)) \in {{}, {"this"}}
Relation(file, window) ==
    CASE Markers(Tail160(file.rows, window)) = {"this"} -> "job_id_verified"
      [] Markers(Tail160(file.rows, window)) = {} /\ file.name = "own" -> "filename_job_id"
      [] OTHER -> "directory_only"

Logs(files, MaxLogs, window) ==
    {i \in Chosen(files, MaxLogs) : /\ files[i].readable
                                    /\ Attributable(files[i], window)}
\* An exit code and an end within a log that carries the number of this job.
Receipts(files, MaxLogs, window) ==
    {i \in Logs(files, MaxLogs, window) :
        /\ Relation(files[i], window) = "job_id_verified"
        /\ {"exit", "end"} \subseteq ToSet(Tail160(files[i].rows, window))}

\* The directory the logs are looked for in: that of the details, or the one given if
\* neither the scheduler nor the center's row knows another.
MayLookIn(given, scheduler, row) == scheduler \in {"", given} /\ row \in {"", given}

-------------------------------------------------------------------------------
(* How it went. Accounting rows belong to the job if they have its number. *)

\* A wait counts only from the start in the accounting, and never less than nothing.
QueueWait(sacct) ==
    IF sacct # {} /\ \A r \in sacct : r.start >= r.submit /\ r.start # 0 /\ r.submit # 0
    THEN {r.start - r.submit : r \in sacct} ELSE {}
OfThis(rows) == {r \in rows : r.job = "this"}
\* A source that fails leaves its rows empty, and a warning.
Snapshot(slurm, rows, failed) ==
    [source \in {"squeue", "sacct", "sstat"} |->
        IF ~slurm \/ source \in failed THEN {} ELSE rows[source]]
Summary(snapshot) ==
    [wait |-> QueueWait({r \in OfThis(snapshot.sacct) : ~r.step}),
     state |-> LET live == {r.state : r \in OfThis(snapshot.squeue)}
                   past == {r.state : r \in {s \in OfThis(snapshot.sacct) : ~s.step}}
               IN  IF live # {} THEN live ELSE past,
     proven |-> OfThis(snapshot.sacct) \cup OfThis(snapshot.squeue) # {}]

TerminalFailures == {"FAILED", "TIMEOUT", "CANCELLED", "CANCELED", "NODE_FAIL",
                     "OUT_OF_MEMORY", "PREEMPTED", "BOOT_FAIL", "DEADLINE"}
\* analyze_job, with what the logs match and what the VASP reading says.
Level(state, found, converged) ==
    CASE found \/ state \in TerminalFailures -> "error"
      [] ~found /\ state \notin TerminalFailures /\ converged -> "success"
      [] ~found /\ ~converged /\ state = "RUNNING" -> "running"
      [] ~found /\ ~converged /\ state \in {"PENDING", "QUEUED", "Q"} -> "pending"
      [] ~found /\ ~converged /\ state = "COMPLETED" -> "warning"
      [] OTHER -> "unknown"

\* The diagnosis of the job center is from the logs that may be the job's.
CenterDiagnosis(row, files, progress, MaxLogs, window) ==
    Level(row.state, \/ progress.fatal
                     \/ \E i \in Logs(files, MaxLogs, window) : files[i].fatal,
          progress.converged)

\* The analysis of the page reads what has the name of a log, whatever job the rows are of;
\* each part that fails is only a warning, and the state in the evidence collected goes
\* before the one the page sent.
ConsoleReads(file) == file.name \in {"own", "record", "vasp", "common"} /\ file.readable
ConsoleLogs(files, MaxLogs) ==
    {i \in DOMAIN files : /\ ConsoleReads(files[i])
                          /\ Cardinality({j \in 1 .. i - 1 : ConsoleReads(files[j])}) < MaxLogs}
ConsoleReport(sent, snapshot, files, progress, MaxLogs) ==
    LET states == Summary(snapshot).state
        state == IF states = {} THEN sent ELSE CHOOSE s \in states : TRUE
        logs == ConsoleLogs(files, MaxLogs)
    IN  [state |-> state, logs |-> logs,
         level |-> Level(state, progress.fatal \/ \E i \in logs : files[i].fatal,
                         progress.converged),
         wait |-> Summary(snapshot).wait]

\* The model's text about the logs counts if it came in time, and is nothing but text.
ModelText(logs, reply) ==
    IF logs = {} \/ reply.late \/ reply.calls \/ reply.finish = "error" \/ reply.text = ""
    THEN "error" ELSE reply.text

-------------------------------------------------------------------------------
(* What to repair. The server: its scheduler, the queues it has and which of them run,
   its default queue, the prefix of directives its qsub reads, and whether its gateway
   still puts -- before the script. The script: its header. *)

Probes == {"directive_prefix", "script_header", "queue_list", "server_properties"}

\* op_submit_inspect: a probe that fails leaves its fact out.
Seen(probe, failed, fact) == IF probe \in failed THEN {} ELSE {fact}
PrefixesRead(server, failed) ==
    {"#PBS", "#SBATCH"} \cup Seen("directive_prefix", failed, server.prefix)
Inspect(server, script, failed) ==
    [scheduler |-> server.scheduler, operand |-> server.operand, option |-> "",
     prefix |-> IF server.scheduler = "pbs"
                THEN Seen("directive_prefix", failed, server.prefix) ELSE {"#SBATCH"},
     directives |-> IF "script_header" \in failed THEN <<>>
                    ELSE SelectSeq(script.header,
                                   LAMBDA d : d.prefix \in PrefixesRead(server, failed)),
     complete |-> "script_header" \notin failed /\ script.ends,
     queues |-> Seen("queue_list", failed, server.queues),
     default |-> IF server.scheduler = "pbs"
                 THEN Seen("server_properties", failed, server.default) ELSE {},
     errors |-> failed]

\* The last queue of the directives that are read, unless the command names one.
Selected(current) ==
    LET read == SelectSeq(current.directives,
                          LAMBDA d : d.prefix \in current.prefix /\ d.queue # "")
    IN  IF current.option # "" THEN current.option
        ELSE IF read = <<>> THEN "" ELSE Last(read).queue

PrefixUnmatched(current) ==
    /\ current.scheduler = "pbs"
    /\ \/ current.prefix = {}
       \/ /\ current.prefix # {"#PBS"}
          /\ \E i \in DOMAIN current.directives : current.directives[i].prefix = "#PBS"

\* Nothing is known of a queue if the list was not read whole.
Known(current) == current.queues # {}
Enabled(current, q) == \E queues \in current.queues : q \in DOMAIN queues /\ queues[q]
DefaultMissing(current) ==
    /\ Known(current) /\ current.default # {}
    /\ \A queues \in current.queues : current.default \cap DOMAIN queues = {}

QueueRepair(current) ==
    LET q == Selected(current)
    IN  CASE q # "" /\ Known(current) /\ Enabled(current, q) -> {}
          [] q # "" /\ Known(current) /\ ~Enabled(current, q) -> {"job_script"}
          [] q # "" /\ ~Known(current) -> {"queue_diagnostics"}
          [] q = "" /\ ~PrefixUnmatched(current) /\ current.complete
                 /\ DefaultMissing(current) -> {"job_script"}
          [] q = "" /\ ~current.complete -> {"script_inspection"}
          [] OTHER -> {}
\* The repairs that are told, each for what it is about.
Repairs(current) ==
    LET told == If(PrefixUnmatched(current), "submission_environment")
                \cup If(current.scheduler = "pbs" /\ current.operand = "--",
                        "application_gateway")
                \cup If(current.errors # {}, "read_only_diagnostics")
                \cup QueueRepair(current)
    IN  IF told = {} THEN {"verification"} ELSE told

\* The gateway that answers may know no inspection, or not answer.
Diagnose(answer) ==
    CASE answer.reason = "unsupported" -> {"application_gateway"}
      [] answer.reason = "failed" -> {"connection_diagnostics"}
      [] OTHER -> Repairs(answer.current)

\* What is told of an old attempt is what its record has.
Gaps(attempt) == {"command", "gateway_version", "returncode"} \ attempt
===============================================================================
