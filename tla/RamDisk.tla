------------------------------ MODULE RamDisk ------------------------------
(***************************************************************************)
(* The RAM disk A: (vfs.c): one table of nodes for the whole machine, each *)
(* with the index of its parent, and for each console the index of its     *)
(* current directory.  An index is free again as soon as its file or       *)
(* directory is removed.                                                   *)
(*                                                                         *)
(* Abstracted: the contents of files, other drives, the length of paths;   *)
(* names are compared without regard to case.                              *)
(***************************************************************************)
EXTENDS Integers, Sequences, FiniteSets, SequencesExt

CONSTANTS
    Users,          \* the consoles
    Names,          \* names of files and directories
    Slots,          \* VFS_MAX: indices 0 .. Slots - 1, the root is 0
    MaxPath,        \* names in a path that is typed
    Wild            \* what users may do: see habits

VARIABLES
    nodes,          \* the table
    cwd,            \* console -> G.cwd_node[0]
    habits          \* what the users of this behaviour do: "under" names a
                    \* path that goes on below a file, "vacate" removes a
                    \* directory that is current on some console

diskVars == <<nodes, cwd, habits>>

Index == 0 .. Slots - 1
Nowhere == Slots

Root == [used |-> TRUE, name |-> "/", dir |-> TRUE, parent |-> -1]
Free == [used |-> FALSE, name |-> "/", dir |-> FALSE, parent |-> 0]

\* mmb_vfs_init
Init ==
    /\ nodes = [i \in Index |-> IF i = 0 THEN Root ELSE Free]
    /\ cwd = [c \in Users |-> 0]
    /\ habits \in Wild

TypeOK ==
    /\ nodes \in [Index -> [used : BOOLEAN, name : Names \cup {"/"},
                            dir : BOOLEAN, parent : -1 .. Slots - 1]]
    /\ cwd \in [Users -> Index]
    /\ habits \subseteq {"under", "vacate"}

-----------------------------------------------------------------------------
(* Paths.                                                                  *)

\* ram_find_child: the first node with this parent and name.
Child(t, dir, name) ==
    LET found == {i \in Index : t[i].used /\ t[i].parent = dir
                                /\ t[i].name = name}
    IN  IF found = {} THEN Nowhere ELSE CHOOSE i \in found : \A j \in found : i <= j

FreeSlot(t) ==
    LET free == {i \in Index : ~t[i].used}
    IN  IF free = {} THEN Nowhere ELSE CHOOSE i \in free : \A j \in free : i <= j

\* One name of ram_walk without create_file or create_dir.
WalkStep(at, name) == IF at = Nowhere THEN Nowhere ELSE Child(nodes, at, name)

Walk(path) ==
    LET at[k \in 0 .. Len(path)] ==
          IF k = 0 THEN 0 ELSE WalkStep(at[k - 1], path[k])
    IN  at[Len(path)]

\* One name of ram_walk that makes what is missing: the table and the node
\* reached.
MakeStep(r, name, dir) ==
    LET found == Child(r.table, r.at, name)
        slot == FreeSlot(r.table)
    IN  IF r.at = Nowhere THEN r
        ELSE IF found # Nowhere THEN [r EXCEPT !.at = found]
        ELSE IF slot = Nowhere THEN [r EXCEPT !.at = Nowhere]
        ELSE [table |-> [r.table EXCEPT ![slot] =
                [used |-> TRUE, name |-> name, parent |-> r.at, dir |-> dir]],
              at |-> slot]

\* ram_walk with create_dir (kind "dir") or create_file (kind "file"), which
\* keeps the directories made on the way when no slot is left for the rest.
Made(path, kind) ==
    LET made[k \in 0 .. Len(path)] ==
          IF k = 0 THEN [table |-> nodes, at |-> 0]
          ELSE MakeStep(made[k - 1], path[k], kind = "dir" \/ k < Len(path))
    IN  made[Len(path)]

\* One step of ram_path_from_node towards the root.
UpStep(r) ==
    IF r.at <= 0 THEN r
    ELSE [at |-> nodes[r.at].parent, path |-> <<nodes[r.at].name>> \o r.path]

\* ram_path_from_node: the names from the root down, those above the 8 lowest
\* dropped.  The root stands in for a current directory whose node is free.
Climbed(i) ==
    LET up[k \in 0 .. 8] ==
          IF k = 0 THEN [at |-> i, path |-> <<>>] ELSE UpStep(up[k - 1])
    IN  up[8]
PathOf(i) == Climbed(i).path
CwdPath(c) == IF nodes[cwd[c]].used THEN PathOf(cwd[c]) ELSE <<>>

\* collapse_path: ".." is taken back in the text, not in the tree.
CollapseStep(s, name) ==
    IF name # ".." THEN Append(s, name) ELSE IF s = <<>> THEN s ELSE Front(s)

Collapsed(path) ==
    LET kept[k \in 0 .. Len(path)] ==
          IF k = 0 THEN <<>> ELSE CollapseStep(kept[k - 1], path[k])
    IN  kept[Len(path)]

Absolute == UNION {[1 .. n -> Names] : n \in 0 .. MaxPath}

\* split_path: what the paths typed on console c stand for, absolute ones and
\* those of one name, or "..", below its current directory.
Typed(c) ==
    Absolute \cup {Collapsed(Append(CwdPath(c), n)) : n \in Names \cup {".."}}

\* The path goes on below a file.
BelowFile(path) ==
    \E k \in 1 .. Len(path) - 1 :
        LET i == Walk(SubSeq(path, 1, k)) IN i # Nowhere /\ ~nodes[i].dir

-----------------------------------------------------------------------------
(* Operations of console c on a resolved path.                             *)

\* OPEN FOR OUTPUT, SAVE, COPY of a file: ram_write, mmb_vfs_wopen.
Write(path) ==
    /\ nodes' = Made(path, "file").table
    /\ UNCHANGED <<cwd, habits>>

Mkdir(path) ==
    /\ nodes' = Made(path, "dir").table
    /\ UNCHANGED <<cwd, habits>>

Chdir(c, path) ==
    /\ Walk(path) # Nowhere
    /\ nodes[Walk(path)].dir
    /\ cwd' = [cwd EXCEPT ![c] = Walk(path)]
    /\ UNCHANGED <<nodes, habits>>

\* Only used is cleared: what is left is read as long as a node below it is.
Removed(i) ==
    nodes' = IF \E j \in Index : nodes[j].used /\ nodes[j].parent = i
             THEN [nodes EXCEPT ![i].used = FALSE]
             ELSE [nodes EXCEPT ![i] = Free]

\* Bug: a directory is removed with what is in it.
RmdirFull(path) ==
    LET i == Walk(path)
    IN  /\ i \notin {0, Nowhere} /\ nodes[i].dir
        /\ "vacate" \in habits \/ \A c \in Users : cwd[c] # i
        /\ Removed(i)
        /\ UNCHANGED <<cwd, habits>>

Rmdir(path) ==
    LET i == Walk(path)
    IN  /\ i \notin {0, Nowhere} /\ nodes[i].dir
        /\ \A j \in Index : nodes[j].used => nodes[j].parent # i
        /\ "vacate" \in habits \/ \A c \in Users : cwd[c] # i
        /\ Removed(i)
        /\ UNCHANGED <<cwd, habits>>

Kill(path) ==
    LET i == Walk(path)
    IN  /\ i \notin {0, Nowhere} /\ ~nodes[i].dir
        /\ Removed(i)
        /\ UNCHANGED <<cwd, habits>>

\* What mmb_vfs_rename refuses besides a name that is taken.  The parents of d
\* are looked at only when a directory moves.
MayMove(s, d, src, dst) ==
    /\ s \notin {0, Nowhere} /\ d # Nowhere /\ nodes[d].dir
    /\ nodes[s].dir => /\ ~IsPrefix(src, dst)
                       /\ s \notin {Walk(SubSeq(dst, 1, k)) : k \in 1 .. Len(dst) - 1}

\* Bug: a name that is taken is not refused.
RenameOver(src, dst) ==
    LET s == Walk(src)
        d == Walk(Front(dst))
    IN  /\ MayMove(s, d, src, dst)
        /\ nodes' = [nodes EXCEPT ![s].name = Last(dst), ![s].parent = d]
        /\ UNCHANGED <<cwd, habits>>

\* Bug: the renamed entry is a new one, and the old one is removed.
RenameAnew(src, dst) ==
    LET s == Walk(src)
        d == Walk(Front(dst))
        slot == FreeSlot(nodes)
    IN  /\ MayMove(s, d, src, dst)
        /\ Child(nodes, d, Last(dst)) = Nowhere /\ slot # Nowhere
        /\ nodes' = [nodes EXCEPT ![s] = Free, ![slot] =
                       [nodes[s] EXCEPT !.name = Last(dst), !.parent = d]]
        /\ UNCHANGED <<cwd, habits>>

\* mmb_vfs_rename edits the node where it is.
Rename(src, dst) ==
    LET s == Walk(src)
        d == Walk(Front(dst))
    IN  /\ MayMove(s, d, src, dst)
        /\ Child(nodes, d, Last(dst)) \in {Nowhere, s}
        /\ nodes' = [nodes EXCEPT ![s].name = Last(dst), ![s].parent = d]
        /\ UNCHANGED <<cwd, habits>>

\* NAME src AS dst: into dst when that is a directory (copy_dest_path).
Name(src, dst) ==
    LET i == Walk(dst)
        into == i # Nowhere /\ nodes[i].dir /\ src # <<>>
        target == IF into THEN Append(dst, Last(src)) ELSE dst
    IN  target # <<>> /\ Rename(src, target)

\* REBOOT of one console (mmb_vfs_cwd_reset).
Home(c) ==
    /\ cwd' = [cwd EXCEPT ![c] = 0]
    /\ UNCHANGED <<nodes, habits>>

Allowed(path) == "under" \in habits \/ ~BelowFile(path)

Command(c) ==
    LET paths == {p \in Typed(c) : Allowed(p)}
    IN  \/ Home(c)
        \/ \E path \in paths :
              \/ path # <<>> /\ (Write(path) \/ Mkdir(path))
              \/ Chdir(c, path) \/ Rmdir(path) \/ Kill(path)
        \/ \E src, dst \in paths : Name(src, dst)

Next == \E c \in Users : Command(c)

Spec == Init /\ [][Next]_diskVars

-----------------------------------------------------------------------------
(* Properties.                                                             *)

\* A name means one file: whatever indices are reused and wherever a path
\* leads, no directory has two entries of one name, so that no file is hidden
\* by another.
NamesUnique ==
    \A i, j \in Index :
        nodes[i].used /\ nodes[j].used /\ nodes[i].parent = nodes[j].parent
            /\ nodes[i].name = nodes[j].name => i = j

\* The root is among what a path is made of: it is no more than 8 deep.
Shallow(i) == Climbed(i).at = 0

\* No nodes hang on one another alone: from every node the parents lead to the
\* root.
NothingAdrift ==
    \A S \in SUBSET (Index \ {0}) :
        (\A i \in S : nodes[i].used /\ nodes[i].parent \in S) => S = {}

\* Where no path is named below a file, every node is in a directory that
\* exists, below the root, and is found under its path: nothing is lost with
\* its directory, or comes back under a new one that got its index.
TreeSound ==
    "under" \notin habits =>
        /\ \A i \in Index \ {0} : nodes[i].used =>
             /\ nodes[nodes[i].parent].used /\ nodes[nodes[i].parent].dir
             /\ Shallow(i) => Walk(PathOf(i)) = i
        /\ NothingAdrift

\* Where moreover no current directory is removed, CWD$ is a directory and
\* leads back to where the console is, through renames of what is above it.
CwdLeadsBack ==
    habits = {} =>
        \A c \in Users : /\ nodes[cwd[c]].used /\ nodes[cwd[c]].dir
                         /\ Shallow(cwd[c]) => Walk(CwdPath(c)) = cwd[c]
=============================================================================
