------------------------------ MODULE PathNames ------------------------------
(***************************************************************************)
(* Names of files and folders (llc/gpk_path.cpp): a path is normalized,    *)
(* joined to another, cut where it begins, and its folders are created.    *)
(* A path is a sequence of characters, kept in one variable that grows by  *)
(* what a caller may write next.  No name has a colon, which only follows  *)
(* the letter of a drive.                                                  *)
(***************************************************************************)
EXTENDS Integers, Sequences, SequencesExt

CONSTANTS
    PathLetters, \* letters, each also the name of a drive
    PathLength   \* bound: the characters of a path

ASSUME PathAssumption == PathLength \in Nat

VARIABLE pathText

PathInit == pathText = <<>>
PathNext ==
    /\ Len(pathText) < PathLength
    /\ \/ \E c \in PathLetters \cup {"/", "\\", "."} : pathText' = Append(pathText, c)
       \/ pathText = <<>> /\ \E c \in PathLetters : pathText' = <<c, ":">>

----------------------------------------------------------------------------
\* The beginning of a path

PathSeparator(c) == c \in {"/", "\\"}
PathSeparatorAt(p, i) == i \in DOMAIN p /\ PathSeparator(p[i])
PathUNC(p) == PathSeparatorAt(p, 1) /\ PathSeparatorAt(p, 2)
PathDrive(p) == Len(p) > 1 /\ p[1] \in PathLetters /\ p[2] = ":"
PathAbsolute(p) == IF PathDrive(p) THEN PathSeparatorAt(p, 3) ELSE PathSeparatorAt(p, 1)

\* validatePathSeparators
PathValid(p, allowUNC) ==
    \A i \in 2..Len(p) : PathSeparatorAt(p, i - 1) /\ PathSeparatorAt(p, i) => allowUNC /\ i = 2

\* The first index from i on, past the end if there is none, with a separator; then the next index.
PathStop(p, i) == CHOOSE j \in i..Len(p) + 1 :
    /\ j > Len(p) \/ PathSeparator(p[j])
    /\ \A k \in i..j - 1 : ~PathSeparator(p[k])
PathSkip(p, i) == IF i > Len(p) + 1 THEN i ELSE PathStop(p, i) + 1

\* pathBegin: how many characters are the drive, the share or the separator a path begins with.
PathBegin(p) ==
    LET begin == CASE PathUNC(p) -> PathSkip(p, PathSkip(p, 3)) - 1
                   [] PathDrive(p) -> IF PathSeparatorAt(p, 3) THEN 3 ELSE 2
                   [] OTHER -> IF PathSeparatorAt(p, 1) THEN 1 ELSE 0
    IN  IF begin > Len(p) THEN Len(p) ELSE begin

\* pathList lists the folder without its last separator, unless its path begins with it.
PathListed(p) == IF Len(p) > PathBegin(p) /\ PathSeparatorAt(p, Len(p)) THEN Front(p) ELSE p

----------------------------------------------------------------------------
\* pathNormalize

PathFailed == <<"failed">>

\* The segments between separators from index i on, in order.
PathSegments(p, i) ==
    LET starts == {s \in i..Len(p) : ~PathSeparator(p[s]) /\ (s = i \/ PathSeparator(p[s - 1]))}
        firsts == SetToSortSeq(starts, <)
    IN  [k \in DOMAIN firsts |-> SubSeq(p, firsts[k], PathStop(p, firsts[k]) - 1)]

PathRootSize(p) ==
    CASE PathUNC(p) -> 2
      [] PathDrive(p) -> IF PathAbsolute(p) THEN 3 ELSE 2
      [] OTHER -> IF PathAbsolute(p) THEN 1 ELSE 0

PathCurrent == <<".">>
PathParent == <<".", ".">>

BugPathKeep(p, kept, segment) ==
    LET given == IF PathUNC(p) THEN 2 ELSE 0
    IN  CASE segment = PathCurrent -> kept
          [] segment = PathParent ->
                 IF Len(kept) > given THEN Front(kept)
                 ELSE IF PathAbsolute(p) THEN kept ELSE Append(kept, segment)
          [] OTHER -> Append(kept, segment)
PathKeep(p, kept, segment) ==
    LET given == IF PathUNC(p) THEN 2 ELSE 0
    IN  CASE segment = PathCurrent -> kept
          [] segment = PathParent ->
                 IF Len(kept) > given /\ Last(kept) # PathParent THEN Front(kept)
                 ELSE IF PathAbsolute(p) THEN kept ELSE Append(kept, segment)
          [] OTHER -> Append(kept, segment)

PathKept(p) ==
    FoldLeft(LAMBDA kept, segment : PathKeep(p, kept, segment), <<>>,
             PathSegments(p, PathRootSize(p) + 1))

PathRoot(p, separator) ==
    (IF PathDrive(p) THEN SubSeq(p, 1, 2) ELSE <<>>) \o
    (CASE PathUNC(p) -> <<separator, separator>>
       [] PathAbsolute(p) /\ ~PathUNC(p) -> <<separator>>
       [] OTHER -> <<>>)

PathNormalize(p, separator) ==
    LET kept   == PathKept(p)
        joined == FoldLeft(LAMBDA text, segment : text \o (IF text = <<>> THEN segment ELSE <<separator>> \o segment),
                           <<>>, kept)
        full   == PathRoot(p, separator) \o joined
    IN  IF ~PathValid(p, TRUE) \/ (PathUNC(p) /\ Len(kept) < 2) THEN PathFailed
        ELSE CASE PathUNC(p) /\ Len(kept) = 2 -> Append(full, separator)
               [] full = <<>> /\ p # <<>> -> PathCurrent
               [] OTHER -> full

----------------------------------------------------------------------------
\* pathNameCompose and pathCreate

PathForward(p) == [i \in DOMAIN p |-> IF PathSeparator(p[i]) THEN "/" ELSE p[i]]
PathFirstName(p) == CHOOSE i \in 1..Len(p) + 1 :
    (i > Len(p) \/ ~PathSeparator(p[i])) /\ \A k \in 1..i - 1 : PathSeparator(p[k])

PathCompose(p, file) ==
    LET path == PathForward(p)
        name == PathForward(SubSeq(file, PathFirstName(file), Len(file)))
    IN  IF ~PathValid(p, TRUE) \/ ~PathValid(file, p = <<>>) THEN PathFailed
        ELSE IF p = <<>> THEN PathForward(file)
        ELSE IF Last(path) = "/" \/ name = <<>> THEN path \o name
        ELSE path \o <<"/">> \o name

\* The folders created, shorter ones first: up to each separator but a leading one, then all of it.
PathFolders(p) ==
    {SubSeq(p, 1, i) : i \in {j \in DOMAIN p : IF j = Len(p) THEN p[j] # "/" ELSE p[j + 1] = "/"}}
        \ {PathCurrent}

----------------------------------------------------------------------------
\* Properties

PathTypeOK ==
    /\ Len(pathText) <= PathLength
    /\ \A i \in DOMAIN pathText : pathText[i] \in PathLetters \cup {"/", "\\", ".", ":"}

\* Where a path leads from a folder: its drive or share, and the names from its top.
PathWalk(floor, from, segments) ==
    FoldLeft(LAMBDA at, s : CASE s = PathCurrent -> at
                              [] s = PathParent -> IF Len(at) > floor THEN Front(at) ELSE at
                              [] OTHER -> Append(at, s),
             from, segments)
PathPlace(p, here) ==
    [on |-> CASE PathUNC(p) -> "share" [] PathDrive(p) -> p[1] [] OTHER -> "here",
     at |-> PathWalk(IF PathUNC(p) THEN 2 ELSE 0, IF PathAbsolute(p) THEN <<>> ELSE here,
                     PathSegments(p, PathRootSize(p) + 1))]
PathHeres == {<<>>, << <<"x">> >>, << <<"x">>, <<"y">>, <<"z">> >>}

\* A path leads to the same place normalized, whichever separator it is written with, which once
\* normalized stays as it is; listed; and joined again from two parts, each read from the folder
\* the one before leads to.  pathCreate makes every folder on the way before one inside it.
PathsLeadToOnePlace ==
    \A here \in PathHeres :
        LET place == PathPlace(pathText, here)
            inside(p, file) ==
                [PathPlace(p, here) EXCEPT
                    !.at = PathWalk(IF PathUNC(p) THEN 2 ELSE 0, @, PathSegments(file, 1))]
        IN  /\ \A separator \in {"/", "\\"} :
                   LET text == PathNormalize(pathText, separator)
                   IN  text # PathFailed =>
                           /\ PathPlace(text, here) = place
                           /\ PathNormalize(text, separator) = text
                           /\ PathNormalize(PathForward(text), separator) = text
            /\ PathPlace(PathListed(pathText), here) = place
            /\ \A k \in 0..Len(pathText) :
                   LET p    == SubSeq(pathText, 1, k)
                       file == SubSeq(pathText, k + 1, Len(pathText))
                       text == PathCompose(p, file)
                   IN  (text # PathFailed /\ k > 0 /\ ~(PathDrive(pathText) /\ k <= 2)) =>
                           PathPlace(text, here) = inside(p, file)
            /\ (\A i \in DOMAIN pathText : pathText[i] # "\\") =>
                   \A f \in PathFolders(pathText) :
                       LET at == PathPlace(f, here).at
                       IN  \/ at = <<>> \/ IsPrefix(at, here)
                           \/ IsPrefix(Front(at), here)
                           \/ \E g \in PathFolders(pathText) :
                                  Len(g) < Len(f) /\ PathPlace(g, here).at \in {at, Front(at)}
=============================================================================
