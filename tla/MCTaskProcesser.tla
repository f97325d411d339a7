--------------------------- MODULE MCTaskProcesser ---------------------------
(* All texts of up to four pieces, and of five of the most telling ones, some *)
(* longer texts, and tasks of three texts, for TLC.                           *)
EXTENDS TaskProcesser

MCWords == {"x", "BunOS{BUNNI", "BRUKERNAVN :)"}

AllPieces == {"x", Backslash, "${", "}", "flag", "FLAG", "username"}

FewPieces == {"x", Backslash, "${", "}", "flag"}

Flag == <<"${", "flag", "}">>

\* Variables side by side, one in the name of another, one that an escape or an
\* empty name precedes, and escapes inside names that never end or end late.
LongTexts ==
    {Flag \o Flag, Flag \o <<"x">> \o Flag,
     <<"${", "x">> \o Flag \o Flag,
     <<"${", "}">> \o Flag,
     <<Backslash, Backslash, Backslash>> \o Flag \o <<"x">> \o Flag,
     <<Backslash, "${", "x">> \o Flag,
     <<"${", "x", Backslash, Backslash>> \o Flag,
     Flag \o <<"${", "x", Backslash, Backslash, "${">>}

\* Texts that end a part in each way, for tasks of several parts.
SampleTexts == {<<>>, Flag, <<"x", "${", "x", "}">>,
                <<Backslash, Backslash>> \o Flag \o <<"${", "USERNAME", "}", "x">>}

SomeRows ==
    {<<t>> : t \in BoundedSeq(AllPieces, 4) \cup BoundedSeq(FewPieces, 5) \cup LongTexts}
      \cup {<<s, NonString, t>> : s, t \in SampleTexts}
      \cup {<<s, t, t>> : s, t \in SampleTexts}

\* No static flag, a plain one, and one of each kind appendReplacement reads.
SomeFlags == {None, <<"x", "}">>, <<"x", "$1", "$0">>, <<"x", "$">>,
              <<Backslash, "${">>, <<"${", "x">>, <<"x", Backslash>>}

\* Flags with a '$'.
DollarFlags == {<<"x", "$">>, <<"x", "$1">>}
=============================================================================
