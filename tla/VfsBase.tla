------------------------------ MODULE VfsBase ------------------------------
(***************************************************************************)
(* What the in-memory filesystem of vfs.c is made of: paths, nodes,        *)
(* callers and their permissions.                                          *)
(*                                                                         *)
(* A path is the sequence of its components, so "/" is <<>>; calls are     *)
(* given paths that normalisation has accepted.  A file's contents are a   *)
(* member of Data with a size; times are left out.                         *)
(***************************************************************************)
EXTENDS Integers, Sequences, FiniteSets

CONSTANTS
    Names,      \* legal path components
    PathMax,    \* the longest path vfs_normalize accepts, in components
    Data,       \* file contents
    Empty,      \* the contents of length 0, which a directory has too
    Size,       \* Size[d]: length of d
    Quota,      \* bytes allowed, 0 for no limit
    Creds,      \* callers, as records [uid, admin, group]
    FileMode,   \* VFS_MODE_FILE_DEFAULT & ~umask
    DirMode,    \* VFS_MODE_DIR_DEFAULT & ~umask
    Modes       \* modes vfs_chmod is called with

Perms == {"u", "g", "o"} \X {"R", "W"}

ASSUME DataAssumption ==
    /\ Empty \in Data
    /\ Size \in [Data -> Nat] /\ Size[Empty] = 0
    /\ Quota \in Nat /\ PathMax \in Nat \ {0}
ASSUME ModeAssumption ==
    {FileMode, DirMode} \cup Modes \subseteq SUBSET Perms
ASSUME CredAssumption ==
    Creds \subseteq [uid : Nat, admin : BOOLEAN, group : BOOLEAN]

Root  == <<>>
Paths == UNION {[1..n -> Names] : n \in 0..PathMax}

Parent(p) == SubSeq(p, 1, Len(p) - 1)

\* q lies somewhere below p.
Under(p, q) == Len(q) > Len(p) /\ SubSeq(q, 1, Len(p)) = p

\* Where q, below o, is after o has become n.
Moved(o, n, q) == n \o SubSeq(q, Len(o) + 1, Len(q))

\* check_perm: any class of bits that applies to the caller will do.
CheckPerm(node, c, perm) ==
    \/ c.admin
    \/ c.uid = node.owner /\ <<"u", perm>> \in node.mode
    \/ c.group /\ <<"g", perm>> \in node.mode
    \/ <<"o", perm>> \in node.mode

-----------------------------------------------------------------------------
(* Calls, as their callers make them.                                      *)

NoCall == <<"none">>
WriteCall(c, p, d, parents) == <<"write", c, p, d, parents>>
CopyCall(c, s, p, parents)  == <<"copy", c, s, p, parents>>
MkdirCall(c, p, parents)    == <<"mkdir", c, p, parents>>
DeleteCall(c, p)            == <<"delete", c, p>>
RecursiveCall(c, p)         == <<"delete_recursive", c, p>>
RenameCall(c, o, n)         == <<"rename", c, o, n>>
ChmodCall(c, p, m)          == <<"chmod", c, p, m>>

=============================================================================
