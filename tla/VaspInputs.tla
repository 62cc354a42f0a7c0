------------------------------ MODULE VaspInputs ------------------------------
(* The two readings of the inputs of a VASP calculation: the local one, before a
   plan is made (hpc/vasp.py), and the strict one of the gateway, before a job is
   submitted (rsci_gateway.py); and the plan made from inputs the local one passes
   (domains/vasp.py). A text is the sequence of its lines that are not blank, a
   line the sequence of its words in lower case. *)
EXTENDS Integers, Sequences, FiniteSets, SequencesExt

-------------------------------------------------------------------------------
(* Words and lines. *)

Whole == [w \in {"-1", "0", "1", "2"} |->
             IF w = "-1" THEN -1 ELSE IF w = "0" THEN 0 ELSE IF w = "1" THEN 1 ELSE 2]
Finite(w) == w \in DOMAIN Whole \cup {"0.5"}
Halves(w) == IF w = "0.5" THEN 1 ELSE 2 * Whole[w]

AllWhole(line) == line # <<>> /\ \A i \in DOMAIN line : line[i] \in DOMAIN Whole
Three(line) == Len(line) >= 3 /\ \A i \in 1 .. 3 : Finite(line[i])
ThreePositive(line) ==
    Len(line) >= 3 /\ \A i \in 1 .. 3 : line[i] \in DOMAIN Whole /\ Whole[line[i]] > 0
Line(lines, i) == IF i <= Len(lines) THEN lines[i] ELSE <<>>
From(lines, first, count) == SubSeq(lines, first, IF first + count - 1 < Len(lines)
                                                  THEN first + count - 1 ELSE Len(lines))
If(condition, error) == IF condition THEN {error} ELSE {}

-------------------------------------------------------------------------------
(* POSCAR: title, scale, three vectors, species if named, their counts, the mark of
   selective dynamics if any, the kind of coordinates, and a row per atom. *)

\* The words of these texts that begin with an s, and with a d, a c or a k.
Selective == {"selective", "si"}
Kinds == {"direct", "cartesian", "k"}

CountsAt(p) == IF AllWhole(Line(p, 6)) THEN 6 ELSE 7
Counts(p) ==
    LET line == Line(p, CountsAt(p))
    IN  IF AllWhole(line) THEN [i \in DOMAIN line |-> Whole[line[i]]] ELSE <<>>
Atoms(p) == FoldSeq(+, 0, Counts(p))
KindAt(p) == IF Line(p, CountsAt(p) + 1) # <<>> /\ p[CountsAt(p) + 1][1] \in Selective
             THEN CountsAt(p) + 2 ELSE CountsAt(p) + 1
NamesKind(p) == Line(p, KindAt(p)) # <<>> /\ p[KindAt(p)][1] \in Kinds
Rows(p) == From(p, KindAt(p) + 1, Atoms(p))

Determinant(rows) ==
    LET v(i, j) == Halves(rows[i][j])
    IN    v(1, 1) * (v(2, 2) * v(3, 3) - v(2, 3) * v(3, 2))
        - v(1, 2) * (v(2, 1) * v(3, 3) - v(2, 3) * v(3, 1))
        + v(1, 3) * (v(2, 1) * v(3, 2) - v(2, 2) * v(3, 1))

PoscarErrors(p) ==
    IF Len(p) < 8 THEN {"short"}
    ELSE LET lattice == SubSeq(p, 3, 5)
             sound == \A i \in 1 .. 3 : Three(lattice[i])
         IN  If(p[1][1] = "placeholder", "placeholder")
             \cup If(~Finite(p[2][1]) \/ p[2][1] = "0", "scale")
             \cup If(~sound, "lattice")
             \cup If(sound /\ Determinant(lattice) = 0, "dependent")
             \cup IF Counts(p) = <<>> THEN {"counts"}
                  ELSE If(CountsAt(p) = 7 /\ Len(p[6]) # Len(Counts(p)), "columns")
                       \cup If(\E i \in DOMAIN Counts(p) : Counts(p)[i] <= 0, "positive")
                       \cup IF ~NamesKind(p) THEN {"kind"}
                            ELSE If(Len(p) < KindAt(p) + Atoms(p), "missing")
                                 \cup If(\E i \in DOMAIN Rows(p) : ~Three(Rows(p)[i]), "rows")

\* One error for each stage of the reading.
StrictPoscarErrors(p) ==
    IF Len(p) < 8 THEN {"short"}
    ELSE IF p[1][1] = "placeholder" THEN {"placeholder"}
    ELSE IF ~Finite(p[2][1]) THEN {"scale"}
    ELSE If(\E i \in 3 .. 5 : ~Three(p[i]), "lattice")
         \cup IF Counts(p) = <<>> THEN {"counts"}
              ELSE IF \E i \in DOMAIN Counts(p) : Counts(p)[i] <= 0 THEN {"positive"}
              ELSE IF ~NamesKind(p) THEN {"kind"}
              ELSE IF Len(p) < KindAt(p) + Atoms(p) THEN {"missing"}
              ELSE If(\E i \in DOMAIN Rows(p) : ~Three(Rows(p)[i]), "rows")

-------------------------------------------------------------------------------
(* KPOINTS: title, mode, style, and a mesh and its shift or a list of points. *)

Styles == {"gamma", "monkhorst-pack", "monkhorst", "automatic"}
LineModes == {"line-mode", "line"}
Spaces == {"reciprocal", "cartesian"}
Is(line, words) == Len(line) = 1 /\ line[1] \in words

\* Some projects leave the title out: the local reading lets them, with a warning.
Titleless(k) == /\ k[1][1] \in DOMAIN Whole
                /\ Is(k[2], {"gamma", "monkhorst-pack", "line-mode"} \cup Spaces)

\* What is wrong with the lines that follow the mode.
MeshErrors(k, first) ==
    CASE Is(Line(k, first), LineModes) ->
             LET points == From(k, first + 2, Len(k))
             IN  If(~Is(Line(k, first + 1), Spaces), "line space")
                 \cup If(Len(points) < 2 \/ \E i \in DOMAIN points : ~Three(points[i]), "pairs")
      [] ~Is(Line(k, first), LineModes \cup Styles) -> {"style"}
      [] OTHER -> If(~ThreePositive(Line(k, first + 1)), "mesh")
                  \cup If(Len(k) > first + 1 /\ ~Three(Line(k, first + 2)), "shift")
PointErrors(k, first, mode) ==
    If(~Is(Line(k, first), Spaces \cup LineModes), "space")
    \cup If(Len(k) < first + mode, "missing")
    \cup If(\E i \in DOMAIN From(k, first + 1, mode) : ~Three(From(k, first + 1, mode)[i]),
            "points")

KpointsErrors(k) ==
    IF Len(k) < 4 THEN {"short"}
    ELSE LET at == IF Titleless(k) THEN 1 ELSE 2
         IN  CASE k[at][1] \notin DOMAIN Whole -> {"mode"}
               [] k[at][1] \in DOMAIN Whole /\ Whole[k[at][1]] < 0 -> {"negative"}
               [] k[at][1] = "0" -> MeshErrors(k, at + 1)
               [] OTHER -> PointErrors(k, at + 1, Whole[k[at][1]])

StrictKpointsErrors(k) ==
    CASE Len(k) < 4 -> {"short"}
      [] Len(k) >= 4 /\ k[2][1] \notin DOMAIN Whole -> {"mode", "negative"}
      [] Len(k) >= 4 /\ k[2][1] = "-1" -> {"negative"}
      [] Len(k) >= 4 /\ k[2][1] = "0" ->
             IF Is(k[3], LineModes)
             THEN IF Len(k) < 6 \/ ~Is(k[4], Spaces) THEN {"line space"}
                  ELSE If(\E i \in 5 .. Len(k) : ~Three(k[i]), "pairs")
             ELSE MeshErrors(k, 3)
      [] OTHER -> PointErrors(k, 3, Whole[k[2][1]])

-------------------------------------------------------------------------------
(* INCAR: lines that set a tag. "with" is what stands beside the setting: nothing,
   a # that makes all of the line a comment, a ! that does, a remark after a !, or
   a second setting after a semicolon. *)

Beside == {"nothing", "hash", "bang", "remark", "second"}

\* Nothing at all after the equals sign.
Blank(l) == l.value = "" /\ l.beside \notin {"remark", "second"}

\* What the local reading takes each tag to be, and what the gateway does: it knows no
\* ! and no semicolon, so the value it keeps is not a number.
Sets(l, tag) == l.tag = tag /\ l.beside \in {"nothing", "remark", "second"}
LocalValue(incar, tag) ==
    LET set == SelectSeq(incar, LAMBDA l : Sets(l, tag) /\ l.value # "")
    IN  IF set = <<>> THEN "none" ELSE Last(set).value
GatewayValue(incar, tag) ==
    LET set == SelectSeq(incar, LAMBDA l : Sets(l, tag) /\ ~Blank(l))
    IN  IF set = <<>> THEN "none"
        ELSE IF Last(set).beside = "nothing" THEN Last(set).value ELSE "unreadable"
Number(value, default) == IF value = "0.5" THEN 0
                          ELSE IF value \in DOMAIN Whole THEN Whole[value] ELSE default

\* A line that is a comment counts as a setting for the local reading; one that
\* starts with a # does not for the gateway.
IncarErrors(incar) ==
    If(\A i \in DOMAIN incar : Blank(incar[i]), "nothing set")
    \cup If(LocalValue(incar, "NSW") # "none" /\ Number(LocalValue(incar, "NSW"), -1) < 0, "NSW")
    \cup If(LocalValue(incar, "NELM") # "none" /\ Number(LocalValue(incar, "NELM"), -1) <= 0,
            "NELM")
StrictIncarErrors(incar) ==
    If(\A i \in DOMAIN incar : Blank(incar[i]) \/ incar[i].beside = "hash", "nothing set")

-------------------------------------------------------------------------------
(* A directory: the names of the files it has, "present", the texts of the three that are
   read (a file that is missing, and one of blank lines, has no lines), and what POTCAR is
   known by, its size. *)

Read == {"INCAR", "KPOINTS", "POSCAR"}
Required(potcar) == Read \cup If(potcar, "POTCAR")
Has(dir, f) == IF f = "POTCAR" THEN "POTCAR" \in dir.present /\ dir.POTCAR > 0
               ELSE dir[f] # <<>>

\* Here a file without text is missing like one that is not there.
LocalErrors(dir, potcar) ==
    LET of(f, errors) == IF dir[f] = <<>> THEN {} ELSE {<<f, e>> : e \in errors}
    IN  {<<"missing", f>> : f \in {g \in Required(potcar) : ~Has(dir, g)}}
        \cup of("INCAR", IncarErrors(dir.INCAR))
        \cup of("KPOINTS", KpointsErrors(dir.KPOINTS))
        \cup of("POSCAR", PoscarErrors(dir.POSCAR))

\* The gateway reads the end of each file, as much as its window holds.
Window(text, window) ==
    From(text, IF Len(text) > window THEN Len(text) - window + 1 ELSE 1, window)
StrictErrors(dir, potcar, window) ==
    LET tail(f) == Window(dir[f], window)
    IN  {<<"INCAR", e>> : e \in IF dir.INCAR = <<>> THEN {"empty"}
                                ELSE StrictIncarErrors(tail("INCAR"))}
        \cup {<<"KPOINTS", e>> : e \in StrictKpointsErrors(tail("KPOINTS"))}
        \cup {<<"POSCAR", e>> : e \in StrictPoscarErrors(tail("POSCAR"))}
        \cup {<<"missing", f>> : f \in (Required(potcar) \ dir.present)
                                       \cup If(potcar /\ ~Has(dir, "POTCAR"), "POTCAR")}

\* A project is ready for one stage when the local reading passes without its POTCAR, the
\* library (when there is one) finds nothing, and there is a POTCAR, be it an empty one.
Ready(dir, library) ==
    LocalErrors(dir, FALSE) = {} /\ library = {} /\ "POTCAR" \in dir.present

-------------------------------------------------------------------------------
(* The plan. *)

Uploads(skip) == <<"INCAR", "KPOINTS", "POSCAR">>
                 \o (IF skip THEN <<>> ELSE <<"POTCAR">>) \o <<"run.job.sh">>
Downloads(asked) ==
    LET once == FoldLeft(LAMBDA kept, f : IF f \in ToSet(kept) THEN kept ELSE Append(kept, f),
                         <<>>, asked)
    IN  once \o SelectSeq(<<"INCAR", "OSZICAR", "OUTCAR">>, LAMBDA f : f \notin ToSet(once))

\* No plan for files that are not there, inputs the local reading refuses, or a script of
\* one's own that is empty.
Refused(dir, skip) ==
    \/ ~(Required(~skip) \subseteq dir.present)
    \/ LocalErrors(dir, ~skip) # {}
    \/ dir.script = "empty"
Steps(skip, asked) ==
    LET step(type, files) == [type |-> type, files |-> files]
        uploads == Uploads(skip)
    IN  <<step("mkdir", <<>>)>> \o [i \in DOMAIN uploads |-> step("upload", <<uploads[i]>>)]
        \o <<step("validate", <<>>), step("submit", <<"run.job.sh">>), step("monitor", <<>>),
             step("progress", <<>>), step("download", Downloads(asked)),
             step("parse", <<"INCAR", "OSZICAR", "OUTCAR">>)>>
===============================================================================
