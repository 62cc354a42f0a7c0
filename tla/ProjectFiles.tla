---------------------------- MODULE ProjectFiles ----------------------------
(***************************************************************************)
(* The research projects (rsci/workflow/projects.py): a directory for each *)
(* and an index that gives every name its identity and kind.  Consoles,    *)
(* agents and the command line create, rename, delete and amend projects   *)
(* and save files in them, one at a time, for a file lock is held for a    *)
(* whole operation; but a process may be killed between the change of a    *)
(* directory and that of the index.  Workers that bring results publish    *)
(* files without the lock.  An editor sends the hash of what it has read   *)
(* with what it saves; others send none and overwrite what there is: the   *)
(* page that edits VASP inputs, update, an agent that leaves the hash out. *)
(*                                                                         *)
(* A directory is followed by the number it got when it was made.  Each    *)
(* holds one file; no content is written twice.                            *)
(***************************************************************************)
EXTENDS Naturals, FiniteSets

CONSTANTS
    Names,       \* names of projects
    Editors,     \* who opens and saves files
    MaxMade,     \* bound: directories made
    MaxSaved,    \* bound: versions of files
    MaxCrashes   \* bound: processes killed

\* What the constants are, assumed by the module that gives them values.
ProjectsAssumption == {MaxMade, MaxSaved, MaxCrashes} \subseteq Nat

VARIABLES
    dir,        \* dir[n]: the number of the directory n, 0 if there is none
    index,      \* index[n]: what projects.json says of n
    ids,        \* identities given so far
    op,         \* the operation that holds the lock
    file,       \* file[d]: the version of the file in directory d, 0 for none
    saved,      \* versions so far
    editor,     \* editor[e]: what e has open
    crashes,
    born,       \* history: what the project of directory d was made, or amended, to be
    hurt,       \* history: directories whose creation or renaming was cut short
    published   \* history: the versions that workers brought

projects == <<dir, index, ids, born, hurt>>
contents == <<file, saved, published>>
vars == <<projects, op, contents, editor, crashes>>

Kinds == {"general", "vasp"}
NoEntry == [kind |-> "none", id |-> 0, pinned |-> FALSE]
Free == [kind |-> "none"]
Closed == [at |-> "closed"]
Dirs == 1 .. MaxMade

TypeOK == /\ dir \in [Names -> 0 .. MaxMade]
          /\ index \in [Names -> [kind : Kinds \cup {"none"}, id : 0 .. ids, pinned : BOOLEAN]]
          /\ ids \in Nat
          /\ op.kind \in {"none", "create", "rename", "delete", "write"}
          /\ file \in [Dirs -> 0 .. MaxSaved] /\ saved \in 0 .. MaxSaved
          /\ \A e \in Editors : editor[e].at \in {"closed", "open", "saving"}
          /\ crashes \in 0 .. MaxCrashes
          /\ hurt \subseteq Dirs /\ published \subseteq 1 .. saved

Init == /\ dir = [n \in Names |-> 0] /\ index = [n \in Names |-> NoEntry]
        /\ ids = 0 /\ op = Free
        /\ file = [d \in Dirs |-> 0] /\ saved = 0
        /\ editor = [e \in Editors |-> Closed]
        /\ crashes = 0
        /\ born = [d \in Dirs |-> NoEntry] /\ hurt = {} /\ published = {}
-----------------------------------------------------------------------------
(* The index *)

Made == Cardinality({d \in Dirs : born[d] # NoEntry})
Known(n) == dir[n] # 0 /\ index[n].id # 0

\* Nobody else is at work, not even an editor about to replace a file.
Unlocked == op = Free /\ \A e \in Editors : editor[e].at # "saving"

\* _metadata: a directory the index does not know is an old one, of kind vasp;
\* the kind is saved before the identity is given.
Migrate(n) == /\ Unlocked /\ dir[n] # 0 /\ ~Known(n)
              /\ IF index[n].kind = "none"
                 THEN index' = [index EXCEPT ![n].kind = "vasp"] /\ UNCHANGED ids
                 ELSE index' = [index EXCEPT ![n].id = ids + 1] /\ ids' = ids + 1
              /\ UNCHANGED <<dir, born, hurt, op, contents, editor, crashes>>

\* pin, set_potcar_remote
Amend(n) == /\ Unlocked /\ Known(n)
            /\ index' = [index EXCEPT ![n].pinned = ~@]
            /\ born' = [born EXCEPT ![dir[n]].pinned = index'[n].pinned]
            /\ UNCHANGED <<dir, ids, hurt, op, contents, editor, crashes>>
-----------------------------------------------------------------------------
(* create *)

Create(n, kind) == /\ Unlocked /\ dir[n] = 0 /\ Made < MaxMade
                   /\ dir' = [dir EXCEPT ![n] = Made + 1]
                   /\ born' = [born EXCEPT ![Made + 1] = [kind |-> kind, id |-> ids + 1, pinned |-> FALSE]]
                   /\ ids' = ids + 1
                   /\ op' = [kind |-> "create", name |-> n]
                   /\ UNCHANGED <<index, hurt, contents, editor, crashes>>

Created == /\ op.kind = "create"
           /\ index' = [index EXCEPT ![op.name] = born[dir[op.name]]]
           /\ op' = Free
           /\ UNCHANGED <<dir, ids, born, hurt, contents, editor, crashes>>

\* An error takes the directory away again.
NotCreated == /\ op.kind = "create"
              /\ dir' = [dir EXCEPT ![op.name] = 0]
              /\ op' = Free
              /\ UNCHANGED <<index, ids, born, hurt, contents, editor, crashes>>
-----------------------------------------------------------------------------
(* update and delete; both are refused while results are collected for the
   project (Collections has that). *)

\* Mutant: the entry is not taken along.
Forgotten(n, m) == [index EXCEPT ![n] = NoEntry]
Moved(n, m) == [index EXCEPT ![n] = NoEntry, ![m] = index[n]]

Rename(n, m) == /\ Unlocked /\ Known(n) /\ dir[m] = 0
                /\ dir' = [dir EXCEPT ![n] = 0, ![m] = dir[n]]
                /\ op' = [kind |-> "rename", name |-> n, to |-> m]
                /\ UNCHANGED <<index, ids, born, hurt, contents, editor, crashes>>

Renamed == /\ op.kind = "rename"
           /\ index' = Moved(op.name, op.to)
           /\ op' \in {Free, [kind |-> "write", name |-> op.to]}      \* with files, or without
           /\ UNCHANGED <<dir, ids, born, hurt, contents, editor, crashes>>

\* The directory goes to the trash.
Delete(n) == /\ Unlocked /\ Known(n)
             /\ dir' = [dir EXCEPT ![n] = 0]
             /\ op' = [kind |-> "delete", name |-> n]
             /\ UNCHANGED <<index, ids, born, hurt, contents, editor, crashes>>

Deleted == /\ op.kind = "delete"
           /\ index' = [index EXCEPT ![op.name] = NoEntry]
           /\ op' = Free
           /\ UNCHANGED <<dir, ids, born, hurt, contents, editor, crashes>>

\* The process that holds the lock is killed.
Crash == /\ op # Free /\ crashes < MaxCrashes
         /\ crashes' = crashes + 1
         /\ hurt' = CASE op.kind = "create" -> hurt \cup {dir[op.name]}
                      [] op.kind = "rename" -> hurt \cup {dir[op.to]}
                      [] OTHER              -> hurt
         /\ op' = Free
         /\ UNCHANGED <<dir, index, ids, born, contents, editor>>
-----------------------------------------------------------------------------
(* Files *)

\* read_file, or the finding that there is no such file
Open(e, n) == /\ Unlocked /\ Known(n)
              /\ editor' = [editor EXCEPT ![e] = [at |-> "open", name |-> n, seen |-> file[dir[n]]]]
              /\ UNCHANGED <<projects, op, contents, crashes>>

\* write_file with a hash, or with "missing": the file is as it was read.
\* Mutant: only that it is there is looked at.
StillThere(now, seen) == (now = 0) <=> (seen = 0)
Unchanged(now, seen) == now = seen

\* import_file also takes a file that has been removed meanwhile.
Importable(now, seen) == now = 0 \/ Unchanged(now, seen)

\* The save goes on; one that is refused changes nothing.
Check(e) == /\ Unlocked /\ editor[e].at = "open" /\ Known(editor[e].name)
            /\ saved < MaxSaved
            /\ LET now == file[dir[editor[e].name]]
                   seen == editor[e].seen
               IN  Unchanged(now, seen) \/ Importable(now, seen)
            /\ editor' = [editor EXCEPT ![e].at = "saving"]
            /\ UNCHANGED <<projects, op, contents, crashes>>

\* atomic_bytes
Replace(e) == /\ editor[e].at = "saving"
              /\ saved < MaxSaved /\ saved' = saved + 1
              /\ file' = [file EXCEPT ![dir[editor[e].name]] = saved + 1]
              /\ editor' = [editor EXCEPT ![e] = [@ EXCEPT !.at = "open", !.seen = saved + 1]]
              /\ UNCHANGED <<projects, op, published, crashes>>

\* write_file without a hash, and update that keeps the name: there is no look at
\* the file.
Overwrite(n) == /\ Unlocked /\ Known(n) /\ saved < MaxSaved
                /\ op' = [kind |-> "write", name |-> n]
                /\ UNCHANGED <<projects, contents, editor, crashes>>

Overwritten == /\ op.kind = "write"
               /\ saved < MaxSaved /\ saved' = saved + 1
               /\ file' = [file EXCEPT ![dir[op.name]] = saved + 1]
               /\ op' = Free
               /\ UNCHANGED <<projects, published, editor, crashes>>

\* A worker publishes a result where there is no file.
Publish(n) == /\ dir[n] # 0 /\ file[dir[n]] = 0
              /\ saved < MaxSaved /\ saved' = saved + 1
              /\ file' = [file EXCEPT ![dir[n]] = saved + 1]
              /\ published' = published \cup {saved + 1}
              /\ UNCHANGED <<projects, op, editor, crashes>>

Next == \/ \E n \in Names : \/ Migrate(n) \/ Amend(n) \/ Delete(n) \/ Publish(n) \/ Overwrite(n)
                            \/ \E kind \in Kinds : Create(n, kind)
                            \/ \E m \in Names \ {n} : Rename(n, m)
                            \/ \E e \in Editors : Open(e, n)
        \/ Created \/ NotCreated \/ Renamed \/ Deleted \/ Overwritten \/ Crash
        \/ \E e \in Editors : Check(e) \/ Replace(e)

Spec == Init /\ [][Next]_vars
-----------------------------------------------------------------------------
(* Properties *)

\* Whatever is created, renamed, deleted and cut short, and whatever entries that
\* leaves in the index: no two projects have one identity, and a project none of
\* whose operations was cut short keeps its identity, its kind and what was set.
KeepsIdentity == op = Free =>
    /\ \A n, m \in Names : Known(n) /\ Known(m) /\ index[n].id = index[m].id => n = m
    /\ \A n \in Names : dir[n] # 0 /\ dir[n] \notin hurt => index[n] = born[dir[n]]

\* A save that sends a hash never replaces what its editor has not read or written,
\* however projects are renamed, deleted and made anew under the name and files are
\* overwritten meanwhile: nobody comes between its look at the file and the
\* replacement but a worker that publishes a result.  What goes unseen otherwise is
\* overwritten without a hash, in the project that was meant, under whatever name.
ReplacesWhatWasRead == [][\A d \in Dirs : file[d] # 0 /\ file'[d] # file[d] =>
                              \/ file[d] \in published
                              \/ \E e \in Editors : /\ editor[e].at = "saving"
                                                    /\ editor[e].seen = file[d]
                              \/ op.kind = "write" /\ dir[op.name] = d /\ UNCHANGED editor]_vars
=============================================================================
