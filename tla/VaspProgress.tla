----------------------------- MODULE VaspProgress -----------------------------
(* A running VASP calculation and those who read how it goes: the console, from the
   last lines of OSZICAR and OUTCAR (hpc/vasp.py), and the gateway, from their last
   bytes (rsci_gateway.py). VASP writes a row for each electronic step and one when
   an ionic step closes; OUTCAR is the sequence of the marks the readers look for. *)
EXTENDS Integers, Sequences, FiniteSets, FiniteSetsExt, Functions

CONSTANTS Nelm,      \* the ceiling of electronic steps in an ionic step
          MaxIonic,  \* bound: ionic steps of a run (NSW of a relaxation)
          MaxMarks   \* bound: marks in OUTCAR

ProgressAssumption == {Nelm, MaxIonic, MaxMarks} \subseteq Nat \ {0}

VARIABLES
    relax,     \* NSW is not zero
    oszicar,   \* its rows: the number of the ionic step closed, or 0 for an electronic row
    outcar,    \* its marks
    running    \* VASP still runs

vars == <<relax, oszicar, outcar, running>>

\* What the local reading takes for fatal, and which of it the gateway knows.
Fatal == {"zbrent", "malloc"}
FatalToGateway == {"zbrent"}
Marks == {"accuracy", "unconverged", "timing"} \cup Fatal

TypeOK == /\ relax \in BOOLEAN /\ running \in BOOLEAN
          /\ oszicar \in Seq(0 .. MaxIonic)
          /\ outcar \in Seq(Marks)

\* The console and the gateway read the end of each file.
TailOf(seq, n) == SubSeq(seq, IF Len(seq) > n THEN Len(seq) - n + 1 ELSE 1, Len(seq))
Nsw == IF relax THEN MaxIonic ELSE 0
Steps == IF relax THEN MaxIonic ELSE 1

-------------------------------------------------------------------------------
(* parse_oszicar: an ionic row closes a step and takes the electronic rows since the one
   before. *)

IsIonic(row) == row # 0
Ionic(rows) == {i \in DOMAIN rows : IsIonic(rows[i])}

\* The last ionic row before the i-th row, or 0: where the count began anew.
Before(rows, i) == Max({0} \cup {j \in Ionic(rows) : j < i})
Electronic(rows, i) == i - Before(rows, i) - 1
ParseOszicar(rows) ==
    LET last == Before(rows, Len(rows) + 1)
        closed == last # 0
    IN  [steps |-> Ionic(rows),
         last |-> [step |-> IF closed THEN rows[last] ELSE 0,
                   electronic |-> IF closed THEN Electronic(rows, last) ELSE 0],
         hits |-> {i \in Ionic(rows) : Electronic(rows, i) >= Nelm},
         rows |-> Len(rows) - last]

\* The last step decides here; any step does for the gateway.
ReachedNelm(rows) ==
    LET read == ParseOszicar(rows) IN read.steps # {} /\ read.last.electronic >= Nelm
EverReachedNelm(rows) == ParseOszicar(rows).hits # {}

Signatures(marks, known) == Range(marks) \cap (known \cup {"unconverged"})

\* scientific_status, and the gateway's vasp_progress_payload.
Verdict(rows, marks, reached, known) ==
    LET electronic == ~reached /\ "unconverged" \notin Range(marks)
        ionic == IF relax THEN "accuracy" \in Range(marks)
                 ELSE ParseOszicar(rows).steps # {} /\ electronic
    IN  [electronic |-> electronic, ionic |-> ionic,
         converged |-> ionic /\ electronic /\ Signatures(marks, known) = {}]
ScientificStatus(rows, marks) == Verdict(rows, marks, ReachedNelm(rows), Fatal)
GatewayPayload(rows, marks) == Verdict(rows, marks, EverReachedNelm(rows), FatalToGateway)

\* live_progress: the step under way, read from the rows themselves.
\* Mutant: the steps seen are counted.
CountedSteps(read) == Cardinality(read.steps)
StepOf(read) == read.last.step
LiveProgress(rows, marks) ==
    LET read == ParseOszicar(rows)
        step == StepOf(read)
        verdict == ScientificStatus(rows, marks)
    IN  [step |-> step, current |-> read.rows, last |-> read.last.electronic,
         finished |-> "timing" \in Range(marks),
         exhausted |-> relax /\ step >= Nsw /\ ~verdict.ionic,
         total |-> Len(rows) - Cardinality(read.steps),
         verdict |-> verdict]

\* vasp_live and op_vasp_progress read the last n rows and the last m marks.
ConsoleReads(rows, marks, n, m) == LiveProgress(TailOf(rows, n), TailOf(marks, m))
GatewayReads(rows, marks, n, m) == GatewayPayload(TailOf(rows, n), TailOf(marks, m))

\* VaspDomain.conclusion: what the run is recorded as.
FailedStates == {"FAILED", "TIMEOUT", "CANCELLED", "OUT_OF_MEMORY", "NODE_FAIL", "PREEMPTED"}
Conclusion(scheduler, verdict) ==
    IF scheduler = "COMPLETED" /\ verdict.converged THEN "completed"
    ELSE IF scheduler \in FailedStates THEN "failed" ELSE "needs_review"

-------------------------------------------------------------------------------
(* VASP, as the readers may rely on it. *)

Init ==
    /\ relax \in BOOLEAN
    /\ oszicar = <<>>
    /\ outcar = <<>>
    /\ running = TRUE

Closed == Cardinality(Ionic(oszicar))
OpenRows == ParseOszicar(oszicar).rows

ElectronicStep ==
    /\ running
    /\ OpenRows < Nelm
    /\ Closed < Steps /\ "accuracy" \notin Range(outcar)
    /\ oszicar' = Append(oszicar, 0)
    /\ UNCHANGED <<relax, outcar, running>>

\* The electrons converge, or the ceiling is reached and OUTCAR may say they did not.
IonicStep ==
    /\ running
    /\ OpenRows > 0
    /\ oszicar' = Append(oszicar, Closed + 1)
    /\ \/ outcar' = outcar
       \/ OpenRows = Nelm /\ outcar' = Append(outcar, "unconverged")
    /\ Len(outcar') <= MaxMarks
    /\ UNCHANGED <<relax, running>>

\* The forces are small enough.
Accuracy ==
    /\ running /\ relax
    /\ OpenRows = 0 /\ Closed > 0
    /\ "accuracy" \notin Range(outcar)
    /\ Len(outcar) < MaxMarks
    /\ outcar' = Append(outcar, "accuracy")
    /\ UNCHANGED <<relax, oszicar, running>>

\* Something fatal is printed; VASP stops.
Crash(mark) ==
    /\ running
    /\ Len(outcar) < MaxMarks
    /\ outcar' = Append(outcar, mark)
    /\ running' = FALSE
    /\ UNCHANGED <<relax, oszicar>>

\* The run is over: a static one after its step, a relaxation when it is accurate or its
\* steps are used up. VASP closes OUTCAR with its timing.
Finish ==
    /\ running
    /\ OpenRows = 0 /\ Closed > 0
    /\ Closed = Steps \/ "accuracy" \in Range(outcar)
    /\ outcar' = Append(outcar, "timing")
    /\ running' = FALSE
    /\ UNCHANGED <<relax, oszicar>>

\* The job is killed, and nothing more is written.
Kill ==
    /\ running
    /\ running' = FALSE
    /\ UNCHANGED <<relax, oszicar, outcar>>

Next ==
    \/ ElectronicStep
    \/ IonicStep
    \/ Accuracy
    \/ \E mark \in Fatal : Crash(mark)
    \/ Finish
    \/ Kill

Spec == Init /\ [][Next]_vars
-------------------------------------------------------------------------------
(* Properties *)

\* However little of the two files is read, as soon as a step closes in what is read of
\* OSZICAR the console tells the true ionic step ("a tail that starts mid-file still
\* reports the true ionic step") and the true iterations of the step under way; and a run
\* that finished normally runs no more.
StepTold(n, m) ==
    LET read == ConsoleReads(oszicar, outcar, n, m)
    IN  /\ Range(TailOf(oszicar, n)) # {0} => read.step = Closed /\ read.current = OpenRows
        /\ read.finished => ~running

\* If more than two steps can take is read of OSZICAR, the verdict is that of the whole
\* file; and what the gateway calls converged the console does too, but for the marks the
\* gateway does not know.
VerdictTold(n, m) ==
    LET verdict == ConsoleReads(oszicar, outcar, n, m).verdict
        marks == TailOf(outcar, m)
    IN  /\ n > 2 * Nelm => verdict = ScientificStatus(oszicar, marks)
        /\ GatewayReads(oszicar, outcar, n, m).converged =>
               \/ verdict.converged
               \/ Range(marks) \cap (Fatal \ FatalToGateway) # {}

\* "completed" is said of the whole files only if the last step of the run ended below the
\* ceiling and, in a relaxation, the forces were met.
CompletedTrue ==
    LET ended == Ionic(oszicar)
    IN  Conclusion("COMPLETED", ScientificStatus(oszicar, outcar)) = "completed" =>
            /\ \E last \in ended : /\ \A i \in ended : i <= last
                                  /\ ({0} \cup ended) \cap (last - Nelm) .. (last - 1) # {}
            /\ relax => "accuracy" \in Range(outcar)

TailsTellTheRun ==
    /\ \A n \in 1 .. Len(oszicar), m \in 0 .. Len(outcar) : StepTold(n, m) /\ VerdictTold(n, m)
    /\ CompletedTrue
===============================================================================
