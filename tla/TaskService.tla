----------------------------- MODULE TaskService -----------------------------
(***************************************************************************)
(* TaskService: one action per handler, taken when the message arrives, up *)
(* to and including the handler's first access to shared state. The rest   *)
(* of a handler is the steps of TaskSessionService, TaskAccessService and  *)
(* WebSocketSender it goes on to.                                          *)
(***************************************************************************)
EXTENDS TaskSessionService, TaskAccessService

serviceVars == <<activeTasks, access>>

\* respondToTaskInfo: getAvailableTasks reads the table; always answered.
RespondToTaskInfo(c) ==
    /\ Respond(c, "ok")
    /\ UNCHANGED <<socket, closer, state, serviceVars>>

\* A mutated form of RespondToTask: without the access test.
RespondToTaskUnchecked(c) ==
    /\ \E t \in TaskIds :
          IF t \in Tasks
          THEN Goto(c, "start") /\ frame' = [frame EXCEPT ![c].arg = t]
          ELSE Respond(c, "error")
    /\ UNCHANGED <<socket, closer, state, serviceVars>>

\* respondToTask, up to the call of startTaskSession: "invalid content", or
\* "no access" to a task that is locked or does not exist.
RespondToTask(c) ==
    /\ \/ Respond(c, "error")
       \/ \E t \in TaskIds :
            IF UserHasAccess(UserOf[c], t) /\ t \in Tasks
            THEN Goto(c, "start") /\ frame' = [frame EXCEPT ![c].arg = t]
            ELSE Respond(c, "error")
    /\ UNCHANGED <<socket, closer, state, serviceVars>>

\* respondToParseStatus. A status that is neither "success" nor "error" leads
\* back to IDLE and leaves the task session alone.
RespondToParseStatus(c) ==
    /\ \/ Respond(c, "error") /\ UNCHANGED state
       \/ /\ ~UserInActiveSession(UserOf[c])
          /\ ChangeState(c, "IDLE")
          /\ Respond(c, "error")
       \/ /\ UserInActiveSession(UserOf[c])
          /\ \/ ChangeState(c, "ACTIVE_TASK") /\ Respond(c, "ok")
             \/ Goto(c, "abort") /\ UNCHANGED <<state, frame>>
             \/ ChangeState(c, "IDLE") /\ Respond(c, "error")
    /\ UNCHANGED <<socket, closer, serviceVars>>

\* A mutated form of AbortTask: the state is not changed.
AbortTaskOnly(c) ==
    /\ At(c, "abort")
    /\ CancelSession(UserOf[c])
    /\ Respond(c, "ok")
    /\ UNCHANGED <<socket, closer, state, access>>

\* respondToParseStatus, status "error": cancelSession.
AbortTask(c) ==
    /\ At(c, "abort")
    /\ CancelSession(UserOf[c])
    /\ ChangeState(c, "IDLE")
    /\ Respond(c, "ok")
    /\ UNCHANGED <<socket, closer, access>>

\* respondToCancelTask: not answered.
RespondToCancelTask(c) ==
    /\ CancelSession(UserOf[c])
    /\ ChangeState(c, "IDLE")
    /\ UNCHANGED <<socket, closer, pc, frame, access>>

\* respondToValidateFlag, up to the call of validateFlag: "no session", or a
\* message without a usable flag.
RespondToValidateFlag(c) ==
    /\ \/ Respond(c, "error")
       \/ UserInActiveSession(UserOf[c]) /\ Goto(c, "check") /\ UNCHANGED frame
    /\ UNCHANGED <<socket, closer, state, serviceVars>>

\* respondToGetHint: a message without data or index, or retrieveHint.
RespondToGetHint(c) ==
    /\ \/ Respond(c, "error") /\ UNCHANGED <<socket, closer, state, activeTasks>>
       \/ RetrieveHint(c)
    /\ UNCHANGED access

TaskStep(c) ==
    \/ SessionStep(c) /\ UNCHANGED access
    \/ GrantStep(c) /\ UNCHANGED activeTasks
    \/ AbortTask(c)
=============================================================================
