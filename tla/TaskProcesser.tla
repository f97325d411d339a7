---------------------------- MODULE TaskProcesser ----------------------------
(***************************************************************************)
(* TaskService.getAndProcessTaskComponents and TaskProcesser.process: the  *)
(* variables in the texts of a task are replaced before it is sent. A text *)
(* is a sequence of pieces: the marks that VARIABLE_REGEX and the last     *)
(* replace look for, the names of the variables, and words between them.   *)
(***************************************************************************)
EXTENDS Integers, FiniteSetsExt, SequencesExt

CONSTANTS
    Words,        \* stretches of other characters, cut so that no pieces make a
                  \* mark or a name together: none begins with '{' or a digit
    Rows,         \* tasks: the sequences of extraDesc, the data values, the hints
    StaticFlags,  \* the flags a task may have, None for a task without
    NonString,    \* a data value that is not a String
    None          \* null

\* The marks of VARIABLE_REGEX.
Backslash == "\\"
Opening   == "${"
Closing   == "}"

\* Some of the ways to write the two names, which are compared in lower case.
FlagNames     == {"flag", "FLAG"}
UsernameNames == {"username", "USERNAME"}
Names         == FlagNames \cup UsernameNames

\* The pieces of a flag that appendReplacement reads: the backslash, references
\* to groups, and a '$' that refers to none.
Magic == {Backslash, "$0", "$1", "$", Opening}

Pieces == {Closing} \cup Names \cup Magic \cup Words

ASSUME ProcesserAssumption ==
    /\ {"BunOS{BUNNI", "BRUKERNAVN :)"} \subseteq Words
    /\ Words \cap (Magic \cup Names \cup {Closing}) = {}
    /\ \A r \in Rows : r \in Seq(Seq(Pieces) \cup {NonString})
    /\ StaticFlags \subseteq Seq(Pieces) \cup {None}

VARIABLES
    at,      \* "part" and "find" (the two loops), "done", "failed"
    row,     \* the row as fetched
    flag,    \* TaskComponents.flag
    texts,   \* the texts of TaskComponents, replaced one by one
    part,    \* the text whose turn it is
    pos,     \* where the matcher looks on
    last,    \* the matcher's append position
    result   \* the StringBuffer

vars == <<at, row, flag, texts, part, pos, last, result>>

text == texts[part]

\* The matcher and the buffer of the next processPart.
NewMatcher == pos' = 1 /\ last' = 1 /\ result' = <<>>

DefaultFlag == <<"BunOS{BUNNI", Closing>>

\* getAndProcessTaskComponents has fetched a task that exists.
Init ==
    /\ row \in Rows
    /\ \E static \in StaticFlags : flag = IF static = None THEN DefaultFlag ELSE static
    /\ texts = row
    /\ at = "part" /\ part = 1 /\ pos = 1 /\ last = 1 /\ result = <<>>

\* A value that is not a String cannot be a variable.
SkipPart ==
    /\ at = "part" /\ part <= Len(texts) /\ text = NonString
    /\ part' = part + 1
    /\ UNCHANGED <<at, row, flag, texts, pos, last, result>>

StartPart ==
    /\ at = "part" /\ part <= Len(texts) /\ text # NonString
    /\ at' = "find"
    /\ UNCHANGED <<row, flag, texts, part, pos, last, result>>

\* An opening that no backslash precedes, and the ends there are for it.
Opens(t, j) == t[j] = Opening /\ (j > 1 => t[j - 1] # Backslash)

Closings(t, j) == {k \in j + 1 .. Len(t) : t[k] = Closing}

\* VARIABLE_REGEX: an opening, anything but "}" and not nothing, and a "}". An
\* opening without its own "}" has the next one that comes, whatever is between.
Matches ==
    {j \in pos .. Len(text) :
        Opens(text, j) /\ Closings(text, j) # {} /\ j + 1 \notin Closings(text, j)}

\* The first of them, from start to end, and its group 1.
found == Min(Matches)

ending == Min(Closings(text, found))

name == SubSeq(text, found + 1, ending - 1)

\* matcher.find() has found a variable of these names.
Finds(names) ==
    /\ at = "find"
    /\ Matches # {}
    /\ name \in {<<n>> : n \in names}
    /\ UNCHANGED <<row, flag, texts, part>>

\* Matcher.appendReplacement, piece by piece: a backslash takes the meaning
\* from what follows, a '$' that is no group of the pattern is an exception.
AppendPiece(acc, piece) ==
    IF acc.escaped
    THEN [acc EXCEPT !.out = Append(@, piece), !.escaped = FALSE]
    ELSE CASE piece = Backslash -> [acc EXCEPT !.escaped = TRUE]
           [] piece = "$0" -> [acc EXCEPT !.out = @ \o SubSeq(text, found, ending)]
           [] piece = "$1" -> [acc EXCEPT !.out = @ \o name]
           [] piece \in {"$", Opening} -> [acc EXCEPT !.thrown = TRUE]
           [] OTHER -> [acc EXCEPT !.out = Append(@, piece)]

Expansion ==
    FoldLeft(AppendPiece, [out |-> <<>>, escaped |-> FALSE, thrown |-> FALSE], flag)

Thrown == Expansion.thrown \/ Expansion.escaped

\* A mutated form of AppendReplacement: the append position stays.
AppendReplacementAgain(out) ==
    /\ result' = result \o SubSeq(text, last, found - 1) \o out
    /\ pos' = ending + 1
    /\ UNCHANGED <<at, last>>

\* What is between the matches is kept, the match is replaced.
AppendReplacement(out) ==
    /\ result' = result \o SubSeq(text, last, found - 1) \o out
    /\ pos' = ending + 1
    /\ last' = ending + 1
    /\ UNCHANGED at

AppendFlag ==
    /\ Finds(FlagNames)
    /\ ~Thrown
    /\ AppendReplacement(Expansion.out)

\* The exception leaves process, and with it the handler of "task".
AppendFlagThrows ==
    /\ Finds(FlagNames)
    /\ Thrown
    /\ at' = "failed"
    /\ NewMatcher

AppendUsername ==
    /\ Finds(UsernameNames)
    /\ AppendReplacement(<<"BRUKERNAVN :)">>)

\* Any other name, of several pieces too.
FindsUnknown ==
    /\ at = "find"
    /\ Matches # {}
    /\ name \notin {<<n>> : n \in Names}
    /\ UNCHANGED <<row, flag, texts, part>>

\* Mutated forms of UnknownVariable: an exception, and the same match again.
UnknownVariableThrows ==
    /\ FindsUnknown
    /\ at' = "failed"
    /\ NewMatcher

UnknownVariableAgain ==
    /\ FindsUnknown
    /\ UNCHANGED <<at, pos, last, result>>

\* A warning, and the text of it stays.
UnknownVariable ==
    /\ FindsUnknown
    /\ pos' = ending + 1
    /\ UNCHANGED <<at, last, result>>

\* replace("\\\\${", "${"): two backslashes before an opening go.
Unescaped(t) ==
    LET escapes == {j \in 1 .. Len(t) - 2 : /\ SubSeq(t, j, j + 1) = <<Backslash, Backslash>>
                                            /\ t[j + 2] = Opening}
    IN  FlattenSeq([j \in DOMAIN t |-> IF {j, j - 1} \cap escapes # {} THEN <<>>
                                                                       ELSE <<t[j]>>])

\* appendTail, the replace, and the part is put in the place of the old one.
FinishPart ==
    /\ at = "find" /\ Matches = {}
    /\ texts' = [texts EXCEPT ![part] = Unescaped(result \o SubSeq(@, last, Len(@)))]
    /\ at' = "part"
    /\ part' = part + 1
    /\ NewMatcher
    /\ UNCHANGED <<row, flag>>

FinishProcess ==
    /\ at = "part" /\ part > Len(texts)
    /\ at' = "done"
    /\ UNCHANGED <<row, flag, texts, part, pos, last, result>>

Next ==
    \/ SkipPart
    \/ StartPart
    \/ AppendFlag
    \/ AppendFlagThrows
    \/ AppendUsername
    \/ UnknownVariable
    \/ FinishPart
    \/ FinishProcess

\* The thread of the handler runs process to its end.
Spec == Init /\ [][Next]_vars /\ WF_vars(Next)

-----------------------------------------------------------------------------
(* A text as the player shall see it, said without a loop                     *)

\* The flag has no character that appendReplacement reads as something else.
Literal == \A i \in DOMAIN flag : flag[i] \notin Magic

\* Where a variable can begin: at an opening that none before it reaches across.
Begins(t, i) ==
    /\ Opens(t, i)
    /\ \A j \in 1 .. i - 1 : Opens(t, j) => \E k \in j .. i : t[k] = Closing

\* A variable of one of these names is at i.
IsVariable(t, i, names) ==
    /\ {i, i + 2} \subseteq DOMAIN t
    /\ Begins(t, i) /\ t[i + 1] \in names /\ t[i + 2] = Closing

\* The two backslashes at i escape an opening.
IsEscape(t, i) ==
    {i, i + 2} \subseteq DOMAIN t /\ SubSeq(t, i, i + 2) = <<Backslash, Backslash, Opening>>

\* What the player sees of the piece at i: a variable's value in its first place.
ShownPiece(t, i) ==
    CASE IsVariable(t, i, FlagNames) -> flag
      [] IsVariable(t, i, UsernameNames) -> <<"BRUKERNAVN :)">>
      [] \/ IsVariable(t, i - 1, Names) \/ IsVariable(t, i - 2, Names)
         \/ IsEscape(t, i) \/ IsEscape(t, i - 1) -> <<>>
      [] OTHER -> <<t[i]>>

Shown(t) ==
    IF t = NonString THEN t ELSE FlattenSeq([i \in DOMAIN t |-> ShownPiece(t, i)])

AllShown == \A i \in DOMAIN row : texts[i] = Shown(row[i])

\* The texts a player gets are those of the row with every variable replaced
\* that is not escaped and not in the name of another, and nothing else lost or
\* changed but the backslashes that escape.
PartsAreShown == at = "done" /\ Literal => AllShown

\* What a task's texts are can not make it fail: an unknown, escaped, nameless
\* or unfinished variable is no error.
FailsOnFlagOnly == at = "failed" => ~Literal

\* processPart's and process's loops end, whatever the texts.
ProcessEnds == at \in {"part", "find"} ~> at \in {"done", "failed"}

\* What processPart's comment says: ${flag} is replaced by the flag, any flag.
FlagIsShown == at \in {"done", "failed"} => AllShown
=============================================================================
