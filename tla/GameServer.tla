----------------------------- MODULE GameServer -----------------------------
(***************************************************************************)
(* The WebSocket backend of the game: GameHandler (the life of a           *)
(* connection), MessageRouter (which handler a message reaches in which    *)
(* state) and the services they share, with one container thread per      *)
(* connection and a process that may be restarted.                         *)
(***************************************************************************)
EXTENDS WebSocketSender, TaskService

vars == <<baseVars, registry, activeTasks, access>>

TypeOK == BaseTypeOK /\ SenderTypeOK /\ SessionTypeOK /\ AccessTypeOK

Init == BaseInit /\ SenderInit /\ SessionInit /\ AccessInit

-----------------------------------------------------------------------------
(* GameHandler *)

\* afterConnectionEstablished, up to the test in appendSession.
Establish(c) ==
    /\ socket[c] = "new"
    /\ AppendCheck(c)
    /\ UNCHANGED serviceVars

\* The container serves one message of a connection at a time.
Ready(c) == socket[c] = "open" /\ At(c, "idle")

\* The client closes, or the container finds the link gone.
ClientClose(c) ==
    /\ Ready(c)
    /\ CloseSocket(c)
    /\ UNCHANGED <<state, pc, frame, registry, serviceVars>>

\* afterConnectionClosed: removeSession, then cancelTaskSession, by user.
CloserRemove(c) ==
    /\ closer[c] = "remove"
    /\ RemoveSession(UserOf[c])
    /\ closer' = [closer EXCEPT ![c] = "cancel"]
    /\ UNCHANGED <<socket, state, pc, frame, serviceVars>>

\* A mutated form of CloserCancel: the session is left behind.
CloserCancelNot(c) ==
    /\ closer[c] = "cancel"
    /\ closer' = [closer EXCEPT ![c] = "done"]
    /\ UNCHANGED <<socket, state, pc, frame, registry, serviceVars>>

CloserCancel(c) ==
    /\ closer[c] = "cancel"
    /\ CancelSession(UserOf[c])
    /\ closer' = [closer EXCEPT ![c] = "done"]
    /\ UNCHANGED <<socket, state, pc, frame, registry, access>>

CloserStep(c) == CloserRemove(c) \/ CloserCancel(c)

-----------------------------------------------------------------------------
(* MessageRouter, called by handleMessage *)

\* A mutated form of RouteIdleStateMessage: "parse-status" is routed here too.
RouteIdleStateMessageParse(c) ==
    RespondToTaskInfo(c) \/ RespondToTask(c) \/ RespondToParseStatus(c)

RouteIdleStateMessage(c) == RespondToTaskInfo(c) \/ RespondToTask(c)

RouteParseStandbyStateMessage(c) == RespondToParseStatus(c)

RouteActiveTaskStateMessage(c) ==
    RespondToValidateFlag(c) \/ RespondToCancelTask(c) \/ RespondToGetHint(c)

\* A message of a type its state has no handler for.
HandleInvalidMessageType(c) ==
    /\ Respond(c, "error")
    /\ UNCHANGED <<socket, closer, state, serviceVars>>

RouteGameMessage(c) ==
    \/ state[c] = "IDLE" /\ RouteIdleStateMessage(c)
    \/ state[c] = "PARSE_STANDBY" /\ RouteParseStandbyStateMessage(c)
    \/ state[c] = "ACTIVE_TASK" /\ RouteActiveTaskStateMessage(c)
    \/ HandleInvalidMessageType(c)

HandleMessage(c) == Ready(c) /\ RouteGameMessage(c) /\ UNCHANGED registry

\* readValue fails on the payload, the type is missing, or the handler fails
\* on a field or on the database before it has changed anything.
HandleMalformedMessage(c) ==
    /\ Ready(c)
    /\ Throw(c)
    /\ UNCHANGED <<registry, serviceVars>>

-----------------------------------------------------------------------------
\* The steps of a handler that is under way.
ThreadStep(c) ==
    \/ AppendPut(c) /\ UNCHANGED serviceVars
    \/ SendStep(c) /\ UNCHANGED serviceVars
    \/ TaskStep(c) /\ UNCHANGED registry

\* The process is restarted: the maps, the threads and the connections are
\* gone, the database stays.
Restart ==
    /\ socket' = [c \in Conns |-> IF socket[c] = "new" THEN "new" ELSE "closed"]
    /\ closer' = [c \in Conns |-> IF socket[c] = "new" THEN "none" ELSE "done"]
    /\ pc' = [c \in Conns |-> "idle"]
    /\ frame' = [c \in Conns |-> EmptyFrame]
    /\ registry' = [u \in Users |-> None]
    /\ activeTasks' = [u \in Users |-> None]
    /\ UNCHANGED <<state, access>>

ConnStep(c) ==
    \/ Establish(c)
    \/ ClientClose(c)
    \/ HandleMessage(c)
    \/ HandleMalformedMessage(c)
    \/ ThreadStep(c)
    \/ CloserStep(c)

Next == Restart \/ \E c \in Conns : ConnStep(c)

\* A thread that runs a handler or a close callback goes on; clients need not.
Fairness == \A c \in Conns : WF_vars(ThreadStep(c)) /\ WF_vars(CloserStep(c))

Spec == Init /\ [][Next]_vars

FairSpec == Spec /\ Fairness

\* Clients that never overlap: a user connects again only when the previous
\* connection is gone and its handlers have returned.
Orderly == \A c, d \in Conns :
               c # d /\ UserOf[c] = UserOf[d] => ~(Live(c) /\ Live(d))

OrderlySpec == Init /\ [][Next /\ Orderly']_vars

=============================================================================
