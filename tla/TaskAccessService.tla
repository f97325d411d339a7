-------------------------- MODULE TaskAccessService --------------------------
(***************************************************************************)
(* TaskAccessService over the table user_task_access: which tasks a user   *)
(* has unlocked. The table is the only state that outlives the process.    *)
(***************************************************************************)
EXTENDS GameBase

VARIABLE access  \* rows <<userID, taskID>> of user_task_access

AccessTypeOK == access \subseteq Users \X TaskIds

\* grantNewUserAccess, for the users it was called for.
AccessInit == access \in SUBSET (Users \X {FirstTask})

\* userHasSpecialAccess, existsByIdUserIDAndIdTaskID.
UserHasAccess(u, t) == u \in SpecialUsers \/ <<u, t>> \in access

\* The flag was right and the unlocked task, if any, is dealt with.
SolveDone(c) == ChangeState(c, "IDLE") /\ Respond(c, "ok")

\* grantUserAccess, its test on the table alone.
GrantCheck(c) ==
    /\ At(c, "grant")
    /\ \/ /\ IF <<UserOf[c], Unlocks[frame[c].held.task]>> \in access
             THEN SolveDone(c)
             ELSE Goto(c, "save") /\ UNCHANGED <<state, frame>>
          /\ UNCHANGED <<socket, closer>>
       \/ Throw(c)  \* the database fails
    /\ UNCHANGED access

\* A mutated form of GrantSave: a failure of the database is swallowed.
GrantSaveOrNot(c) ==
    /\ At(c, "save")
    /\ \/ access' = access \cup {<<UserOf[c], Unlocks[frame[c].held.task]>>}
       \/ UNCHANGED access
    /\ SolveDone(c)
    /\ UNCHANGED <<socket, closer>>

\* grantUserAccess, save: a SELECT and an INSERT in one transaction. If
\* another thread inserts the row first, the SELECT sees it or the INSERT
\* violates the primary key.
GrantSave(c) ==
    /\ At(c, "save")
    /\ \/ /\ access' = access \cup {<<UserOf[c], Unlocks[frame[c].held.task]>>}
          /\ SolveDone(c)
          /\ UNCHANGED <<socket, closer>>
       \/ Throw(c) /\ UNCHANGED access  \* the database fails, or that key is there

GrantStep(c) == GrantCheck(c) \/ GrantSave(c)
=============================================================================
