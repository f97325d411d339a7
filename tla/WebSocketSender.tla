--------------------------- MODULE WebSocketSender ---------------------------
(***************************************************************************)
(* WebSocketSender: the registry of connections, one per user, and the     *)
(* sending of a message to whatever connection is registered for a user.   *)
(* Every call takes the user's id, never the connection.                   *)
(***************************************************************************)
EXTENDS GameBase

VARIABLE registry  \* WebSocketSender.activeSessions

SenderTypeOK == registry \in [Users -> Conns \cup {None}]

SenderInit == registry = [u \in Users |-> None]

\* appendSession, its test: a second connection of a registered user is
\* refused with DupeUserSessionException.
AppendCheck(c) ==
    IF registry[UserOf[c]] = None
    THEN /\ socket' = [socket EXCEPT ![c] = "open"]
         /\ Goto(c, "append")
         /\ UNCHANGED <<closer, state, frame, registry>>
    ELSE /\ socket' = [socket EXCEPT ![c] = "closed"]
         /\ closer' = [closer EXCEPT ![c] = "remove"]
         /\ UNCHANGED <<state, pc, frame, registry>>

\* appendSession, its put.
AppendPut(c) ==
    /\ At(c, "append")
    /\ registry' = [registry EXCEPT ![UserOf[c]] = c]
    /\ Finish(c)
    /\ UNCHANGED <<socket, closer, state>>

\* A mutated form of RemoveSession: the entry is left behind.
RemoveSessionNot(u) == UNCHANGED registry

\* removeSession: by user, whoever is registered.
RemoveSession(u) == registry' = [registry EXCEPT ![u] = None]

\* The statement after the send: only respondToTask has one.
AfterSend(c) ==
    /\ IF frame[c].reply = "task" THEN ChangeState(c, "PARSE_STANDBY")
                                  ELSE UNCHANGED state
    /\ Finish(c)

\* send -> getSession -> containsKey: with nobody registered the message is
\* logged and dropped.
SendContains(c) ==
    /\ At(c, "send")
    /\ IF registry[UserOf[c]] = None
       THEN AfterSend(c)
       ELSE Goto(c, "get") /\ UNCHANGED <<state, frame>>
    /\ UNCHANGED <<socket, closer, registry>>

\* getSession -> get, isOpen: null if the entry went since the test.
SendGet(c) ==
    /\ At(c, "get")
    /\ LET d == registry[UserOf[c]] IN
         \/ d = None /\ Throw(c)
         \/ /\ d # None
            /\ Goto(c, IF socket[d] = "open" THEN "write" ELSE "disconnect")
            /\ frame' = [frame EXCEPT ![c].target = d]
            /\ UNCHANGED <<socket, closer, state>>
    /\ UNCHANGED registry

Writing(c, d) == At(c, "write") /\ frame[c].target = d

\* session.sendMessage: it succeeds on an open socket, or the link fails with
\* an IOException, or the container refuses a socket that is closed or that
\* another thread is writing to with an unchecked exception.
SendWrite(c) ==
    /\ At(c, "write")
    /\ LET d == frame[c].target IN
         \/ socket[d] = "open" /\ AfterSend(c) /\ UNCHANGED <<socket, closer>>
         \/ Goto(c, "disconnect") /\ UNCHANGED <<socket, closer, state, frame>>
         \/ /\ socket[d] = "closed" \/ \E e \in Conns \ {c} : Writing(e, d)
            /\ Throw(c)
    /\ UNCHANGED registry

\* A mutated form of HandleDisconnect: the entry goes, the socket stays open.
HandleDisconnectUnregister(c) ==
    /\ At(c, "disconnect")
    /\ RemoveSession(UserOf[c])
    /\ AfterSend(c)
    /\ UNCHANGED <<socket, closer>>

\* handleDisconnect: the registry is read again, so the connection closed is
\* the one registered now; null if it went in the meantime.
HandleDisconnect(c) ==
    /\ At(c, "disconnect")
    /\ LET d == registry[UserOf[c]] IN
         \/ d = None /\ Throw(c)
         \/ /\ d # None
            /\ CloseSocket(d)
            /\ IF socket[d] = "open"
               THEN /\ Goto(c, "await")
                    /\ frame' = [frame EXCEPT ![c].target = d]
                    /\ UNCHANGED state
               ELSE AfterSend(c)
    /\ UNCHANGED registry

\* A mutated form of CloseReturns: close() also waits for the closed
\* connection's own handler to return.
CloseReturnsAfterHandler(c) ==
    /\ At(c, "await")
    /\ closer[frame[c].target] = "done"
    /\ At(frame[c].target, "idle")
    /\ AfterSend(c)
    /\ UNCHANGED <<socket, closer, registry>>

\* close() returns once afterConnectionClosed, which it called, has returned.
CloseReturns(c) ==
    /\ At(c, "await")
    /\ closer[frame[c].target] = "done"
    /\ AfterSend(c)
    /\ UNCHANGED <<socket, closer, registry>>

SendStep(c) == SendContains(c) \/ SendGet(c) \/ SendWrite(c)
                 \/ HandleDisconnect(c) \/ CloseReturns(c)
=============================================================================
