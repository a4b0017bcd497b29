------------------------------- MODULE VfsMap -------------------------------
(***************************************************************************)
(* What vfs.h and the README promise: a tree of named nodes, a partial     *)
(* function from paths to nodes, on which every call either takes effect   *)
(* as a whole or fails and changes nothing.  How nodes are stored, found   *)
(* and moved about is left to module Vfs.                                  *)
(***************************************************************************)
EXTENDS VfsBase, FiniteSetsExt

VARIABLES fs,    \* path -> node, for the paths in use
          call,  \* the last call
          ok     \* it succeeded

\* Operators on a map m.
IsDir(m, p) == p = Root \/ (p \in DOMAIN m /\ m[p].type = "dir")
Below(m, p) == {q \in DOMAIN m : Under(p, q)}
Used(m) == MapThenSumSet(LAMBDA p : Size[m[p].data], DOMAIN m)

\* Directories above p that do not exist; they can be made when the lowest
\* existing one is a directory.
Ancestors(p)  == {SubSeq(p, 1, k) : k \in 1..(Len(p) - 1)}
Missing(m, p) == Ancestors(p) \ DOMAIN m
Room(m, p, parents) ==
    IF parents THEN \A q \in Ancestors(p) : q \in DOMAIN m => IsDir(m, q)
    ELSE IsDir(m, Parent(p))

NewDir(c) == [type |-> "dir", mode |-> DirMode, owner |-> c.uid, data |-> Empty]
NewFile(c, d) == [type |-> "file", mode |-> FileMode, owner |-> c.uid, data |-> d]

\* m with v at every path of S; m without the paths of S.
With(m, S, v) == [p \in DOMAIN m \cup S |-> IF p \in S THEN v ELSE m[p]]
Without(m, S) == [p \in DOMAIN m \ S |-> m[p]]

MadeDirs(m, c, p, parents) ==
    With(m, IF parents THEN Missing(m, p) ELSE {}, NewDir(c))

\* Call k succeeds exactly when it can, and makes m of the tree.
Does(k, can, m) ==
    /\ call' = k
    /\ \/ can /\ fs' = m /\ ok' = TRUE
       \/ ~ can /\ UNCHANGED fs /\ ok' = FALSE

-----------------------------------------------------------------------------
(* The calls, on the map m there is before the call.                       *)

Written(m, c, p, d, parents) ==
    With(MadeDirs(m, c, p, parents), {p},
         IF p \in DOMAIN m THEN [m[p] EXCEPT !.data = d] ELSE NewFile(c, d))

CanWrite(m, c, p, d, parents) ==
    /\ ~ IsDir(m, p)
    /\ p \in DOMAIN m => CheckPerm(m[p], c, "W")
    /\ Quota > 0 => Used(With(m, {p}, NewFile(c, d))) <= Quota
    /\ Room(m, p, parents)

Write(m, c, p, d, parents) ==
    Does(WriteCall(c, p, d, parents), CanWrite(m, c, p, d, parents),
         Written(m, c, p, d, parents))

There(m, p, parents) == IsDir(m, p) /\ (parents \/ p = Root)

CanMkdir(m, p, parents) ==
    \/ There(m, p, parents)
    \/ p \notin DOMAIN m \cup {Root} /\ Room(m, p, parents)

Made(m, c, p, parents) ==
    IF There(m, p, parents) THEN m
    ELSE With(MadeDirs(m, c, p, parents), {p}, NewDir(c))

Mkdir(m, c, p, parents) ==
    Does(MkdirCall(c, p, parents), CanMkdir(m, p, parents), Made(m, c, p, parents))

CanRemove(m, c, p) == p \in DOMAIN m /\ CheckPerm(m[p], c, "W")

Delete(m, c, p) ==
    Does(DeleteCall(c, p), CanRemove(m, c, p) /\ Below(m, p) = {}, Without(m, {p}))

DeleteRecursive(m, c, p) ==
    Does(RecursiveCall(c, p), CanRemove(m, c, p), Without(m, Below(m, p) \cup {p}))

\* The node and everything below it is found under the new name; what was
\* there is replaced.
Renamed(m, o, n) ==
    LET all  == Below(m, o) \cup {o}
        stay == DOMAIN m \ (all \cup {n})
    IN [q \in stay \cup {Moved(o, n, x) : x \in all} |->
            IF q \in stay THEN m[q] ELSE m[Moved(n, o, q)]]

Rename(m, c, o, n) ==
    Does(RenameCall(c, o, n),
         /\ o # Root /\ n # Root
         /\ o # n => /\ ~ Under(o, n) /\ CanRemove(m, c, o)
                     /\ ~ (IsDir(m, n) /\ Below(m, n) # {})
                     /\ IsDir(m, Parent(n)),
         IF o = n THEN m ELSE Renamed(m, o, n))

Copy(m, c, s, p, parents) ==
    Does(CopyCall(c, s, p, parents),
         /\ s \in DOMAIN m /\ ~ IsDir(m, s) /\ CheckPerm(m[s], c, "R")
         /\ CanWrite(m, c, p, m[s].data, parents),
         Written(m, c, p, m[s].data, parents))

Chmod(m, c, p, mode) ==
    Does(ChmodCall(c, p, mode), c.admin /\ p \in DOMAIN m, [m EXCEPT ![p].mode = mode])

Init == fs = [p \in {} |-> {}] /\ call = NoCall /\ ok = TRUE

Next ==
    \E m \in {fs}, c \in Creds, p \in Paths :
        \/ \E d \in Data, b \in BOOLEAN : Write(m, c, p, d, b)
        \/ \E b \in BOOLEAN : Mkdir(m, c, p, b)
        \/ Delete(m, c, p) \/ DeleteRecursive(m, c, p)
        \/ \E q \in Paths : Rename(m, c, p, q)
        \/ \E q \in Paths, b \in BOOLEAN : Copy(m, c, p, q, b)
        \/ \E mode \in Modes : Chmod(m, c, p, mode)

Spec == Init /\ [][Next]_<<fs, call, ok>>

=============================================================================
