------------------------------ MODULE Listing -------------------------------
(***************************************************************************)
(* ls-R.c and ls1-R.c: a recursive listing. isfile prints a name, after    *)
(* what is below it; fetchdir goes through a directory in the order of     *)
(* readdir, whatever that is, and follows links. A path is the sequence    *)
(* of nodes from the first directory, ".".                                 *)
(***************************************************************************)
EXTENDS Integers, Sequences, FiniteSets, SequencesExt

CONSTANTS
  Tree,        \* files, directories and links to directories below Root
  TreeKind, TreeParent, TreeTarget, NameLen,  \* of each
  PATH_LEN,    \* 256
  MaxLinks,    \* links the kernel follows in one path
  DirLimit     \* directories a process can have open

Root == "."
ListingAssumption ==
  /\ Root \notin Tree /\ {PATH_LEN, MaxLinks, DirLimit} \subseteq Nat \ {0}
  /\ TreeKind \in [Tree -> {"file", "dir", "link"}] /\ NameLen \in [Tree -> Nat]
  /\ TreeParent \in [Tree -> {Root} \union {d \in Tree : TreeKind[d] = "dir"}]
  /\ \A A \in SUBSET Tree : A # {} => \E n \in A : TreeParent[n] \notin A

VARIABLES
  calls,       \* the calls of fetchdir: path, entries not yet read
  leaked,      \* directories left open
  printed,     \* paths, in the order they are printed
  cut          \* history: directories that were not read to the end

vars == <<calls, leaked, printed, cut>>

Real(path) == IF path = <<>> THEN Root
              ELSE IF TreeKind[Last(path)] = "link" THEN TreeTarget[Last(path)]
              ELSE Last(path)
Entries(d) == {n \in Tree : TreeParent[n] = d}
Strlen(path) == FoldLeft(LAMBDA len, n : len + 1 + NameLen[n], 1, path)
Links(path) == {k \in DOMAIN path : TreeKind[path[k]] = "link"}
Stat(path) == Cardinality(Links(path)) <= MaxLinks
IsDir(path) == Real(path) = Root \/ TreeKind[Real(path)] = "dir"
Fetch(path) == [path |-> path, left |-> Entries(Real(path))]

Init == /\ calls = <<Fetch(<<>>)>> /\ leaked = 0 /\ printed = <<>> /\ cut = {}

Call == Last(calls)
\* Callers without the last call; the one without an entry it has read.
Callers == Front(calls)
Past(n) == Append(Callers, [Call EXCEPT !.left = @ \ {n}])

-----------------------------------------------------------------------------
TooLong(n) == Strlen(Call.path) + NameLen[n] + 2 > PATH_LEN
Opens == Len(calls) + leaked < DirLimit

\* "path too long": return without closedir, and what is left is not read.
GivesUp(n) ==
  /\ calls # <<>> /\ n \in Call.left /\ TooLong(n)
  /\ calls' = Callers /\ leaked' = leaked + 1
  /\ printed' = Append(printed, Call.path) /\ cut' = cut \union {Call.path}

\* A file, or a link that stat does not follow, or a directory.
IsFile(n) ==
  /\ calls # <<>> /\ n \in Call.left /\ ~TooLong(n)
  /\ LET path == Append(Call.path, n) IN
     /\ calls' = IF Stat(path) /\ IsDir(path) /\ Opens
                 THEN Append(Past(n), Fetch(path)) ELSE Past(n)
     /\ printed' = IF Stat(path) /\ (IsDir(path) => ~Opens)
                   THEN Append(printed, path) ELSE printed
     /\ cut' = IF Stat(path) /\ IsDir(path) /\ ~Opens
               THEN cut \union {path} ELSE cut
  /\ UNCHANGED leaked

Closedir ==
  /\ calls # <<>> /\ Call.left = {}
  /\ calls' = Callers /\ printed' = Append(printed, Call.path)
  /\ UNCHANGED <<leaked, cut>>

-----------------------------------------------------------------------------
Next == Closedir \/ \E n \in Tree : GivesUp(n) \/ IsFile(n)
Spec == Init /\ [][Next]_vars /\ WF_vars(Next)

-----------------------------------------------------------------------------
(* Properties *)

TypeOK == /\ calls \in Seq([path : Seq(Tree), left : SUBSET Tree])
          /\ leaked \in 0..DirLimit /\ Len(calls) <= DirLimit
          /\ printed \in Seq(Seq(Tree)) /\ cut \subseteq Seq(Tree)

Ended == calls = <<>>
PathOf[n \in Tree] ==
  IF TreeParent[n] = Root THEN <<n>> ELSE Append(PathOf[TreeParent[n]], n)

\* No path is printed twice, links back included; and in the end nothing is left
\* out, unless a directory above it was given up, or could not be opened because
\* those given up before were never closed (ls-R.c 18-34).
AllListed ==
  /\ IsInjective(printed)
  /\ Ended => \A n \in Tree :
       \/ PathOf[n] \in Range(printed)
       \/ \E path \in cut : IsStrictPrefix(path, PathOf[n])

\* A link back to a directory above does not keep the listing from its end.
Ends == <>Ended

=============================================================================
