---------------------------- MODULE GameProtocol ----------------------------
(***************************************************************************)
(* What the backend promises a player, without threads, registries or      *)
(* lookups: a user plays through one connection at a time, one task at a   *)
(* time, a hint is handed out once, and a solved task unlocks the next one *)
(* or, if the connection is lost at that moment, does not.                 *)
(***************************************************************************)
EXTENDS Integers

CONSTANTS Conns, Users, UserOf, SpecialUsers, TaskIds, Tasks, FirstTask,
          Unlocks, HintCount, None

VARIABLES
    phase,    \* phase[c]: "away", "IDLE", "PARSE_STANDBY", "ACTIVE_TASK" or "gone"
    playing,  \* playing[u]: [task, taken], the hints handed out, or None
    owed,     \* owed[c]: the task that is unlocked but not yet written down, or None
    unlocked  \* pairs <<user, task>>

protocolVars == <<phase, playing, owed, unlocked>>

Present(c) == phase[c] \notin {"away", "gone"}

Init ==
    /\ phase = [c \in Conns |-> "away"]
    /\ playing = [u \in Users |-> None]
    /\ owed = [c \in Conns |-> None]
    /\ unlocked \in SUBSET (Users \X {FirstTask})

Enter(c, p) == phase' = [phase EXCEPT ![c] = p]

Play(c, p) == playing' = [playing EXCEPT ![UserOf[c]] = p]

Playing(c) == playing[UserOf[c]]

MayPlay(c, t) == UserOf[c] \in SpecialUsers \/ <<UserOf[c], t>> \in unlocked

\* A user enters when no other connection of the user is there and nothing is
\* left of the previous one.
Join(c) ==
    /\ phase[c] = "away"
    /\ \A d \in Conns : UserOf[d] = UserOf[c] => ~Present(d)
    /\ Playing(c) = None
    /\ Enter(c, "IDLE")
    /\ UNCHANGED <<playing, owed, unlocked>>

Start(c) ==
    /\ phase[c] = "IDLE"
    /\ owed[c] = None
    /\ Playing(c) = None
    /\ \E t \in Tasks : MayPlay(c, t) /\ Play(c, [task |-> t, taken |-> {}])
    /\ Enter(c, "PARSE_STANDBY")
    /\ UNCHANGED <<owed, unlocked>>

Accept(c) ==
    /\ phase[c] = "PARSE_STANDBY"
    /\ Enter(c, "ACTIVE_TASK")
    /\ UNCHANGED <<playing, owed, unlocked>>

\* The client could not parse the task, or reports a status that is neither
\* "success" nor "error": the latter keeps the task for no use.
Reject(c) ==
    /\ phase[c] = "PARSE_STANDBY"
    /\ Enter(c, "IDLE")
    /\ Play(c, None) \/ UNCHANGED playing
    /\ UNCHANGED <<owed, unlocked>>

Cancel(c) ==
    /\ phase[c] = "ACTIVE_TASK"
    /\ Enter(c, "IDLE")
    /\ Play(c, None)
    /\ UNCHANGED <<owed, unlocked>>

HandOut(c) ==
    /\ phase[c] = "ACTIVE_TASK"
    /\ \E i \in (0 .. HintCount[Playing(c).task] - 1) \ Playing(c).taken :
         Play(c, [Playing(c) EXCEPT !.taken = @ \cup {i}])

\* The hint is marked, and lost with the connection or not.
Hint(c) == HandOut(c) /\ UNCHANGED <<phase, owed, unlocked>>

Solve(c) ==
    /\ phase[c] = "ACTIVE_TASK"
    /\ Enter(c, "IDLE")
    /\ owed' = [owed EXCEPT ![c] = Unlocks[Playing(c).task]]
    /\ Play(c, None)
    /\ UNCHANGED unlocked

Pay(c) ==
    /\ owed[c] # None
    /\ unlocked' = unlocked \cup {<<UserOf[c], owed[c]>>}
    /\ owed' = [owed EXCEPT ![c] = None]
    /\ UNCHANGED <<phase, playing>>

\* The connection goes; what was owed is not paid any more.
Leave(c) ==
    /\ Present(c)
    /\ Enter(c, "gone")
    /\ owed' = [owed EXCEPT ![c] = None]
    /\ HandOut(c) \/ UNCHANGED playing
    /\ UNCHANGED unlocked

\* The session of a connection that is gone is cancelled.
Forget(c) ==
    /\ phase[c] = "gone"
    /\ \A d \in Conns : UserOf[d] = UserOf[c] => ~Present(d)
    /\ Play(c, None)
    /\ UNCHANGED <<phase, owed, unlocked>>

Restart ==
    /\ phase' = [c \in Conns |-> IF phase[c] = "away" THEN "away" ELSE "gone"]
    /\ playing' = [u \in Users |-> None]
    /\ owed' = [c \in Conns |-> None]
    /\ UNCHANGED unlocked

Next ==
    \/ Restart
    \/ \E c \in Conns :
         \/ Join(c) \/ Start(c) \/ Accept(c) \/ Reject(c) \/ Cancel(c) \/ Hint(c)
         \/ Solve(c) \/ Pay(c) \/ Leave(c) \/ Forget(c)

Spec == Init /\ [][Next]_protocolVars

=============================================================================
