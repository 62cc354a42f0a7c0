---------------------------- MODULE MCCollections ----------------------------
(* One collection with two workers; or, in other behaviours, projects with two
   names and two editors, or a VASP run whose files are read meanwhile. *)
EXTENDS Collections, Sequences, TLC

CONSTANTS p1, p2, a, b, n1, n2, e1, e2, ProjectNames, Editors, MaxMade, MaxSaved, MaxCrashes
VARIABLES part, dir, index, ids, op, file, saved, editor, crashes, born, hurt, published

projectVars == <<dir, index, ids, op, file, saved, editor, crashes, born, hurt, published>>

Projects == INSTANCE ProjectFiles WITH Names <- ProjectNames

ASSUME ProjectsConstants == Projects!ProjectsAssumption

CONSTANTS Nelm, MaxIonic, MaxMarks
VARIABLES relax, oszicar, outcar, running

vaspVars == <<relax, oszicar, outcar, running>>

Vasp == INSTANCE VaspProgress

ASSUME VaspConstants == Vasp!ProgressAssumption

MCInit == /\ part \in {"collection", "projects", "vasp"}
          /\ Init /\ Projects!Init /\ Vasp!Init
          /\ part # "vasp" => relax                     \* one of the two beside the others
MCNext == \/ part = "collection" /\ Next /\ UNCHANGED <<part, projectVars, vaspVars>>
          \/ part = "projects" /\ Projects!Next /\ UNCHANGED <<part, vars, vaspVars>>
          \/ part = "vasp" /\ Vasp!Next /\ UNCHANGED <<part, vars, projectVars>>
MCSpec == MCInit /\ [][MCNext]_<<part, vars, projectVars, vaspVars>>

Interchangeable == Permutations({p1, p2}) \cup Permutations({a, b})
                   \cup Permutations({n1, n2}) \cup Permutations({e1, e2})

\* Bound: a process that works on projects is killed only while few versions exist.
FewVersions == crashes + saved <= MaxSaved

\* As in ProjectFiles.
KeepsIdentity == Projects!KeepsIdentity
ReplacesWhatWasRead == Projects!ReplacesWhatWasRead

\* As in VaspProgress.
TailsTellTheRun == Vasp!TailsTellTheRun
-------------------------------------------------------------------------------
(* parse_oszicar, row after row, is what VaspProgress says of it. *)

Scanned(rows) ==
    LET after[n \in 0 .. Len(rows)] ==
            IF n = 0 THEN [steps |-> <<>>, hits |-> 0, rows |-> 0, total |-> 0]
            ELSE LET st == after[n - 1] IN
                 IF Vasp!IsIonic(rows[n])
                 THEN [st EXCEPT !.steps = Append(@, [step |-> rows[n], electronic |-> st.rows]),
                                 !.hits = IF st.rows >= Nelm THEN @ + 1 ELSE @, !.rows = 0]
                 ELSE [st EXCEPT !.rows = @ + 1, !.total = @ + 1]
    IN  after[Len(rows)]
ASSUME ScanAgrees ==
    \A rows \in UNION {[1 .. n -> 0 .. 2] : n \in 0 .. 7} :
        LET read == Vasp!ParseOszicar(rows)
            scan == Scanned(rows)
        IN  /\ scan.rows = read.rows
            /\ Len(scan.steps) = Cardinality(read.steps)
            /\ scan.hits = Cardinality(read.hits)
            /\ scan.steps # <<>> => scan.steps[Len(scan.steps)] = read.last
            /\ scan.total = Len(rows) - Cardinality(read.steps)
=============================================================================
