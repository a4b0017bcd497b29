------------------------------- MODULE Paths -------------------------------
(***************************************************************************)
(* The functions on paths and patterns of vfs.c, which module Vfs takes to *)
(* have done their work: vfs_normalize and vfs_resolve, which give every   *)
(* node one spelling, path_parent and validate_path_components on what     *)
(* they return, and vfs_fnmatch.  A string is a sequence of characters.    *)
(* They keep no state: a behaviour may set out with any one input to try.  *)
(***************************************************************************)
EXTENDS Naturals, Sequences, SequencesExt, FiniteSetsExt

CONSTANTS
    PathBuf,    \* VFS_PATH_MAX: a path and its terminator
    PathLen,    \* bound on the paths that are tried
    PatternLen, \* bound on the patterns
    NameLen     \* bound on the names that are matched

ASSUME PathAssumption ==
    PathBuf \in Nat \ {0, 1} /\ PathLen \in Nat /\ PatternLen \in Nat /\ NameLen \in Nat

VARIABLE tried    \* the path or pattern a behaviour tries, or none

Strings(chars, n) == UNION {[1..k -> chars] : k \in 0..n}

Slash   == <<"/">>
BadPath == <<"VFS_EBADPATH">>

-----------------------------------------------------------------------------
(* Paths.                                                                  *)

\* What lies between the slashes, empty pieces included.
Split(s) ==
    LET upto[i \in 0..Len(s)] ==
            IF i = 0 THEN <<(<<>>)>>
            ELSE IF s[i] = "/" THEN Append(upto[i - 1], <<>>)
            ELSE Append(Front(upto[i - 1]), Append(Last(upto[i - 1]), s[i]))
    IN upto[Len(s)]

Join(parts) ==
    LET upto[i \in 0..Len(parts)] ==
            IF i = 0 THEN <<>> ELSE upto[i - 1] \o Slash \o parts[i]
    IN upto[Len(parts)]

\* Mutant of Component: ".." at the root is kept.
ComponentUnclamped(parts, tok) ==
    IF tok \in {<<>>, <<".">>} THEN parts
    ELSE IF tok = <<".", ".">> /\ parts # <<>> THEN Front(parts)
    ELSE Append(parts, tok)

\* One component read: the stack of those that count so far.
Component(parts, tok) ==
    IF tok \in {<<>>, <<".">>} THEN parts
    ELSE IF tok = <<".", ".">> THEN (IF parts = <<>> THEN parts ELSE Front(parts))
    ELSE Append(parts, tok)

\* What is left of all components.
Stack(toks) ==
    LET upto[i \in 0..Len(toks)] ==
            IF i = 0 THEN <<>> ELSE Component(upto[i - 1], toks[i])
    IN upto[Len(toks)]

\* vfs_normalize into a buffer of size bytes.
Normalize(path, size) ==
    IF path = <<>> THEN BadPath
    ELSE IF path[1] # "/" \/ Len(path) >= PathBuf THEN BadPath
    ELSE LET parts == Stack(Split(Tail(path)))
             out   == IF parts = <<>> THEN Slash ELSE Join(parts)
         IN IF Len(out) + 1 > size THEN BadPath ELSE out

IsAbsolute(p) == p # <<>> /\ Head(p \o Slash) = "/"

\* vfs_resolve; the length of a cwd that is not absolute counts, although
\* it is not used.
Resolve(path, cwd, size) ==
    IF path = <<>> THEN BadPath
    ELSE IF IsAbsolute(path) THEN Normalize(path, size)
    ELSE IF Len(cwd) + 1 + Len(path) + 1 > PathBuf THEN BadPath
    ELSE Normalize((IF IsAbsolute(cwd) THEN cwd ELSE Slash) \o Slash \o path, size)

\* path_parent of a normalized path other than the root.
PathParent(path) ==
    LET last == Max({i \in DOMAIN path : path[i] = "/"})
    IN IF last = 1 THEN Slash ELSE SubSeq(path, 1, last - 1)

\* validate_path_components; "*" stands for the illegal characters.
Validate(path) ==
    \/ path = Slash
    \/ /\ Len(path) < PathBuf
       /\ LET parts == Split(Tail(path)) IN
          \A i \in DOMAIN parts :
             /\ "*" \notin ToSet(parts[i])
             /\ parts[i] = <<>> => i = Len(parts)
             /\ parts[i] \notin {<<".">>, <<".", ".">>}

-----------------------------------------------------------------------------
(* Patterns.                                                               *)

\* Characters in the order of their codes; "NUL" ends a string.
Ascii == <<"NUL", "!", "*", "-", "/", "?", "A", "[", "]", "^", "a", "b">>
Code(c)    == CHOOSE i \in DOMAIN Ascii : Ascii[i] = c
ToLower(c) == IF c = "A" THEN "a" ELSE c
Between(lo, hi) == {c \in ToSet(Ascii) : Code(lo) <= Code(c) /\ Code(c) <= Code(hi)}

\* The character at position i of s; what lies behind the terminator is
\* anybody's guess.
CharAt(s, i) == IF i <= Len(s) THEN s[i] ELSE "NUL"

\* A character class whose list starts at position i: the characters
\* listed, in lower case, and where the pattern goes on.
Class(pat, i) ==
    LET read[k \in i..(Len(pat) + 1)] ==
            IF k > Len(pat) THEN [chars |-> {}, next |-> k]
            ELSE IF pat[k] = "]" THEN [chars |-> {}, next |-> k + 1]
            ELSE LET ranged == CharAt(pat, k + 1) = "-" /\ CharAt(pat, k + 2) \notin {"NUL", "]"}
                     rest == read[IF ranged THEN k + 3 ELSE k + 1]
                     hi   == IF ranged THEN pat[k + 2] ELSE pat[k]
                 IN [rest EXCEPT !.chars = @ \cup Between(ToLower(pat[k]), ToLower(hi))]
    IN read[i]

\* The characters a class matches, "NUL" among them if it is negated.
ClassAt(pat, i) ==
    LET neg == CharAt(pat, i + 1) \in {"!", "^"}
        c   == Class(pat, IF neg THEN i + 2 ELSE i + 1)
    IN [c EXCEPT !.chars = {x \in ToSet(Ascii) : (ToLower(x) \in @) # neg}]

\* Mutant of StarTargets: "*" has to match something.
StarTargetsNonEmpty(j, n) == (j + 1)..n

\* Where what follows a "*" is tried: at each character from j on, and not
\* at the terminator.
StarTargets(j, n) == j..n

\* vfs_fnmatch on what is left of the pattern from position i on and of the
\* name from j on; match has the answers for what is left further right.
Answer(pat, name, match, i, j) ==
    LET n     == Len(name)
        after == {k \in i..Len(pat) : pat[k] # "*"}
        hits  == {t \in StarTargets(j, n) : match[Min(after)][t] # "no"}
        step(fits, next) == IF fits THEN match[next][j + 1] ELSE "no"
    IN IF j = n + 2 THEN "past"
       ELSE IF i > Len(pat) THEN (IF j = n + 1 THEN "yes" ELSE "no")
       ELSE IF after = {} THEN "yes"
       ELSE CASE pat[i] = "*" ->
                IF hits = {} THEN "no" ELSE match[Min(after)][Min(hits)]
              [] pat[i] = "?" -> step(CharAt(name, j) \notin {"NUL", "/"}, i + 1)
              [] pat[i] = "[" -> step(CharAt(name, j) \in ClassAt(pat, i).chars,
                                      ClassAt(pat, i).next)
              [] OTHER -> step(ToLower(pat[i]) = ToLower(CharAt(name, j)), i + 1)

\* vfs_fnmatch: "yes" or "no", or "past" once it has stepped over the end of
\* the name, whatever it answers then.
Fnmatch(pat, name) ==
    LET match[i \in 1..(Len(pat) + 1)] ==
            [j \in 1..(Len(name) + 2) |-> Answer(pat, name, match, i, j)]
    IN match[1][1]

-----------------------------------------------------------------------------
(* Properties.                                                             *)

PathChars    == {"/", ".", "a", "*"}
PatternChars == {"*", "?", "[", "]", "!", "-", "a", "b"}
NameChars    == {"A", "b", "/"}

NotTried == <<"none">>
Tries ==
    \/ tried = NotTried
    \/ \E p \in Strings(PathChars, PathLen) : tried = <<"path", p>>
    \/ \E p \in Strings(PatternChars, PatternLen) : tried = <<"pattern", p>>

\* What a path means, read from its end: a ".." takes away one name to its
\* left that nothing else has taken.
Meaning(path) ==
    LET toks == Split(path)
        from[i \in 1..(Len(toks) + 1)] ==
            IF i > Len(toks) THEN [names |-> <<>>, up |-> 0]
            ELSE IF toks[i] \in {<<>>, <<".">>} THEN from[i + 1]
            ELSE IF toks[i] = <<".", ".">> THEN [from[i + 1] EXCEPT !.up = @ + 1]
            ELSE IF from[i + 1].up > 0 THEN [from[i + 1] EXCEPT !.up = @ - 1]
            ELSE [from[i + 1] EXCEPT !.names = <<toks[i]>> \o @]
    IN from[1].names

\* Every absolute path that fits has one normal spelling: it keeps the
\* path's meaning, is its own normal form, is left with nothing to refuse
\* but illegal characters, and its parent is what "/.." after it leads to.
\* A relative path means the same from any spelling of the directory.
PathsExact ==
    tried[1] = "path" =>
        LET p == tried[2]
            q == Normalize(p, PathBuf) IN
        /\ q = BadPath <=> (~ IsAbsolute(p) \/ Len(p) >= PathBuf)
        /\ q # BadPath =>
            /\ Meaning(q) = Meaning(p) /\ Normalize(q, PathBuf) = q
            /\ Validate(q) <=> "*" \notin ToSet(q)
            /\ q # Slash /\ Len(q) + 3 < PathBuf =>
                PathParent(q) = Normalize(q \o <<"/", ".", ".">>, PathBuf)
        /\ \A cwd \in Strings(PathChars \ {"*"}, PathBuf - Len(p)) :
            LET from == Resolve(p, cwd, PathBuf) IN
            from # BadPath =>
                Meaning(from) = IF IsAbsolute(p) \/ ~ IsAbsolute(cwd) THEN Meaning(p)
                                ELSE Meaning(Normalize(cwd, PathBuf) \o Slash \o p)

\* The items of a pattern: the sets of characters it steps over; a set with
\* "any" in it stands for a run of any length.
Items(pat) ==
    LET read[i \in 1..(Len(pat) + 1)] ==
            IF i > Len(pat) THEN <<>>
            ELSE IF pat[i] = "*" THEN <<{"any"}>> \o read[i + 1]
            ELSE IF pat[i] = "[" THEN <<ClassAt(pat, i).chars>> \o read[ClassAt(pat, i).next]
            ELSE IF pat[i] = "?" THEN <<ToSet(Ascii) \ {"NUL", "/"}>> \o read[i + 1]
            ELSE <<{c \in ToSet(Ascii) : ToLower(c) = ToLower(pat[i])}>> \o read[i + 1]
    IN read[1]

\* The name can be cut into pieces, one for each item.
Matches(pat, name) ==
    LET items == Items(pat) IN
    \E cut \in [0..Len(items) -> 0..Len(name)] :
        /\ cut[0] = 0 /\ cut[Len(items)] = Len(name)
        /\ \A i \in 1..Len(items) :
            IF items[i] = {"any"} THEN cut[i - 1] <= cut[i]
            ELSE cut[i] = cut[i - 1] + 1 /\ name[cut[i]] \in items[i]

\* vfs_fnmatch matches exactly the names that its pattern describes, unless
\* it steps over the end of the name.
GlobExact ==
    tried[1] = "pattern" =>
        \A name \in Strings(NameChars, NameLen) :
            Fnmatch(tried[2], name) \in {IF Matches(tried[2], name) THEN "yes" ELSE "no", "past"}

\* vfs_fnmatch never steps over the end of the name.  It does with a
\* negated class, which matches the terminator: see the README.
GlobInBounds ==
    tried[1] = "pattern" =>
        \A name \in Strings(NameChars, NameLen) : Fnmatch(tried[2], name) # "past"

=============================================================================
