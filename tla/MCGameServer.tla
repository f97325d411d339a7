---------------------------- MODULE MCGameServer ----------------------------
(***************************************************************************)
(* Small instances of the game backend: two users, of which one has a      *)
(* special role, three connections, two tasks and an id without a task.    *)
(***************************************************************************)
EXTENDS GameProperties, TLC

CONSTANTS c1, c2, c3,  \* connections
          ada, bunni,  \* a student, and the user every connection gets
          t1, t2, t3,  \* t1 unlocks t2, t3 does not exist
          right, wrong

\* GameHandler as it is: everybody is "debug-bunni".
SharedUserOf == [c \in Conns |-> bunni]

StudentUserOf == [c \in Conns |-> ada]

ChainUnlocks == t1 :> t2 @@ t2 :> None

\* t1 has a hint, t2 has none.
OneHint == t1 :> 1 @@ t2 :> 0

TwoHints == t1 :> 2 @@ t2 :> 0

SameFlag == t1 :> right @@ t2 :> right
=============================================================================
