-------------------------- MODULE GameOrderly_proof --------------------------
(***************************************************************************)
(* What holds for users who have one connection at a time (OrderlySpec),   *)
(* for any constants: OInv is inductive, and the invariants and what a     *)
(* handler's steps may never do follow from it.                            *)
(***************************************************************************)
EXTENDS GameServer_proof

-----------------------------------------------------------------------------
(* The strengthening *)

SameSession(s, t) == s # None /\ t # None /\ s.id = t.id

\* What the handler of an open connection knows at a label of the session its
\* user has in the map: it is there outside IDLE, until the flag is right, and
\* while the reply to "task" is sent; it is the one the handler holds, and the
\* hint the handler has chosen is one that has not been handed out.
ThreadHolds(label, locals, s, session) ==
    /\ s # "IDLE" /\ label \notin {"grant", "save"} => session # None
    /\ locals.reply = "task" => label \in SendSteps /\ session # None
    /\ label = "put" => session = None
    /\ label \in {"complete", "fetch", "remove", "take"} =>
         SameSession(session, locals.held) /\ session.task = locals.held.task
    /\ label = "take" => locals.arg \in TaskHints(session.task) \ session.taken

SessionsHeld ==
    \A c \in Conns : socket[c] = "open" =>
        ThreadHolds(pc[c], frame[c], state[c], activeTasks[UserOf[c]])

\* A handler works on an open connection, until it has closed it itself.
OpenWhileServing ==
    \A c \in Conns : ~At(c, "idle") => (socket[c] = "open" <=> ~At(c, "await"))

\* UserSession is made anew for each connection.
BeginsIdle ==
    \A c \in Conns : socket[c] = "new" \/ At(c, "append") =>
        state[c] = "IDLE" /\ frame[c].reply # "task"

Attended(c) == socket[c] = "open" \/ closer[c] \in {"remove", "cancel"}

\* Whoever plays is connected, or cancelSession is still to come.
SessionHasPlayer ==
    \A u \in Users :
        activeTasks[u] # None => \E c \in Conns : UserOf[c] = u /\ Attended(c)

OInv ==
    /\ IInv
    /\ StateKnown
    /\ Orderly
    /\ RegisteredWhileServed
    /\ SessionsHeld
    /\ OpenWhileServing
    /\ BeginsIdle
    /\ SessionHasPlayer

\* What a step keeps for every user, whether or not users overlap.
Kept == IInv' /\ StateKnown' /\ Orderly'

-----------------------------------------------------------------------------
(* The initial states *)

LEMMA InitOInv == Init => OInv
<1> SUFFICES ASSUME Init PROVE OInv
  OBVIOUS
<1>1. IInv
  BY InitIInv
<1> USE DEF Init, BaseInit, SenderInit, SessionInit, At
<1>2. StateKnown
  BY DEF StateKnown, Known, SendSteps, TaskSteps
<1>3. Orderly /\ RegisteredWhileServed /\ OpenWhileServing /\ BeginsIdle
  BY NoneAssumption
  DEF Orderly, Live, RegisteredWhileServed, OpenWhileServing, BeginsIdle, EmptyFrame
<1>4. SessionsHeld /\ SessionHasPlayer
  BY UserOfType DEF SessionsHeld, SessionHasPlayer
<1> QED
  BY <1>1, <1>2, <1>3, <1>4 DEF OInv

-----------------------------------------------------------------------------
(* The ways a thread moves *)

\* No other connection of the user is served while one is open.
LEMMA OnlyOne ==
  ASSUME Orderly, NEW c \in Conns, NEW d \in Conns, c # d, UserOf[c] = UserOf[d], Live(c)
  PROVE  socket[d] # "open" /\ closer[d] \notin {"remove", "cancel"} /\ pc[d] = "idle"
  BY DEF Orderly, Live, At

\* The handler of an open connection goes to another label; of the sessions it
\* changes that of its user at most.
LEMMA MoveOrderly ==
  ASSUME OInv, Kept, NEW c \in Conns, socket[c] = "open", pc[c] # "append",
         NEW label \in Labels \ {"append", "await"}, NEW locals, NEW s, NEW session,
         pc' = [pc EXCEPT ![c] = label], frame' = [frame EXCEPT ![c] = locals],
         state' = [state EXCEPT ![c] = s],
         activeTasks' = [activeTasks EXCEPT ![UserOf[c]] = session],
         UNCHANGED <<socket, closer, registry>>,
         ThreadHolds(label, locals, s, session)
  PROVE  OInv'
<1> USE DEF OInv
<1>1. /\ pc'[c] = label /\ frame'[c] = locals /\ state'[c] = s
      /\ activeTasks'[UserOf[c]] = session
      /\ \A d \in Conns \ {c} :
           pc'[d] = pc[d] /\ frame'[d] = frame[d] /\ state'[d] = state[d]
      /\ \A u \in Users \ {UserOf[c]} : activeTasks'[u] = activeTasks[u]
  BY UserOfType DEF IInv, TypeOK, BaseTypeOK, SessionTypeOK
<1>2. \A d \in Conns \ {c} : socket[d] = "open" => UserOf[d] # UserOf[c]
  BY OnlyOne DEF Live
<1>3. RegisteredWhileServed' /\ OpenWhileServing' /\ BeginsIdle'
  BY <1>1 DEF RegisteredWhileServed, OpenWhileServing, BeginsIdle, At
<1>4. SessionsHeld'
  BY <1>1, <1>2, UserOfType DEF SessionsHeld
<1>5. SessionHasPlayer'
  BY <1>1 DEF SessionHasPlayer, Attended
<1> QED
  BY <1>3, <1>4, <1>5 DEF Kept

\* What a step may do to the session of a handler's user.
SessionIs(c, session) == activeTasks' = [activeTasks EXCEPT ![UserOf[c]] = session]

LEMMA SessionStays ==
  ASSUME OInv, NEW c \in Conns, UNCHANGED activeTasks
  PROVE  SessionIs(c, activeTasks[UserOf[c]])
  BY DEF SessionIs, OInv, IInv, TypeOK, SessionTypeOK

LEMMA StateIs ==
  ASSUME OInv, NEW c \in Conns, NEW s,
         ChangeState(c, s) \/ (s = state[c] /\ UNCHANGED state)
  PROVE  state' = [state EXCEPT ![c] = s]
  BY DEF ChangeState, OInv, IInv, TypeOK, BaseTypeOK

\* A handler that sends a reply.
LEMMA RespondOrderly ==
  ASSUME OInv, Kept, NEW c \in Conns, socket[c] = "open", pc[c] # "append",
         NEW r, NEW s, NEW session, Respond(c, r),
         ChangeState(c, s) \/ (s = state[c] /\ UNCHANGED state),
         SessionIs(c, session), UNCHANGED <<socket, closer, registry>>,
         s # "IDLE" \/ r = "task" => session # None
  PROVE  OInv'
<1>1. ThreadHolds("send", [EmptyFrame EXCEPT !.reply = r], s, session)
  BY DEF ThreadHolds, EmptyFrame, SendSteps
<1>2. "send" \in Labels \ {"append", "await"}
  BY DEF Labels, SendSteps
<1>3. /\ pc' = [pc EXCEPT ![c] = "send"]
      /\ frame' = [frame EXCEPT ![c] = [EmptyFrame EXCEPT !.reply = r]]
      /\ activeTasks' = [activeTasks EXCEPT ![UserOf[c]] = session]
  BY DEF Respond, Goto, SessionIs
<1>4. state' = [state EXCEPT ![c] = s]
  BY StateIs
<1> QED
  BY <1>1, <1>2, <1>3, <1>4, MoveOrderly

\* A handler that returns.
LEMMA FinishOrderly ==
  ASSUME OInv, Kept, NEW c \in Conns, socket[c] = "open", pc[c] # "append",
         NEW s, Finish(c),
         ChangeState(c, s) \/ (s = state[c] /\ UNCHANGED state),
         UNCHANGED <<socket, closer, registry, activeTasks>>,
         s # "IDLE" => activeTasks[UserOf[c]] # None
  PROVE  OInv'
<1>1. ThreadHolds("idle", EmptyFrame, s, activeTasks[UserOf[c]])
  BY NoneAssumption DEF ThreadHolds, EmptyFrame
<1>2. "idle" \in Labels \ {"append", "await"}
  BY DEF Labels
<1>3. /\ pc' = [pc EXCEPT ![c] = "idle"]
      /\ frame' = [frame EXCEPT ![c] = EmptyFrame]
      /\ activeTasks' = [activeTasks EXCEPT ![UserOf[c]] = activeTasks[UserOf[c]]]
  BY SessionStays DEF Finish, Goto, SessionIs
<1>4. state' = [state EXCEPT ![c] = s]
  BY StateIs
<1> QED
  BY <1>1, <1>2, <1>3, <1>4, MoveOrderly

\* A handler that goes on with the local variables it has, or others.
LEMMA GoOnOrderly ==
  ASSUME OInv, Kept, NEW c \in Conns, socket[c] = "open", pc[c] # "append",
         NEW label \in Labels \ {"append", "await"}, NEW locals, Goto(c, label),
         frame' = [frame EXCEPT ![c] = locals], UNCHANGED state,
         UNCHANGED <<socket, closer, registry, activeTasks>>,
         ThreadHolds(label, locals, state[c], activeTasks[UserOf[c]])
  PROVE  OInv'
<1>1. /\ pc' = [pc EXCEPT ![c] = label]
      /\ activeTasks' = [activeTasks EXCEPT ![UserOf[c]] = activeTasks[UserOf[c]]]
      /\ state' = [state EXCEPT ![c] = state[c]]
  BY StateIs, SessionStays DEF Goto, SessionIs
<1> QED
  BY <1>1, MoveOrderly

LEMMA JumpOrderly ==
  ASSUME OInv, Kept, NEW c \in Conns, socket[c] = "open", pc[c] # "append",
         NEW label \in Labels \ {"append", "await"}, Goto(c, label),
         UNCHANGED <<frame, state>>,
         UNCHANGED <<socket, closer, registry, activeTasks>>,
         ThreadHolds(label, frame[c], state[c], activeTasks[UserOf[c]])
  PROVE  OInv'
<1>1. frame' = [frame EXCEPT ![c] = frame[c]]
  BY DEF OInv, IInv, TypeOK, BaseTypeOK
<1> QED
  BY <1>1, GoOnOrderly

\* The connection of c is closed, by its client, by its handler or with it; its
\* user's session may go or change.
LEMMA CloseOrderly ==
  ASSUME OInv, Kept, NEW c \in Conns, socket[c] = "open", pc[c] # "append",
         NEW label \in {"idle", "await"}, NEW locals, NEW session, SessionIs(c, session),
         CloseSocket(c), pc' = [pc EXCEPT ![c] = label],
         frame' = [frame EXCEPT ![c] = locals], UNCHANGED <<state, registry>>
  PROVE  OInv'
<1> USE DEF OInv
<1>1. /\ pc'[c] = label /\ socket'[c] = "closed" /\ closer'[c] = "remove"
      /\ \A d \in Conns \ {c} : /\ pc'[d] = pc[d] /\ frame'[d] = frame[d]
                                /\ socket'[d] = socket[d] /\ closer'[d] = closer[d]
      /\ \A u \in Users \ {UserOf[c]} : activeTasks'[u] = activeTasks[u]
  BY UserOfType DEF IInv, TypeOK, BaseTypeOK, SessionTypeOK, CloseSocket, SessionIs
<1>2. \A d \in Conns \ {c} : socket[d] = "open" => UserOf[d] # UserOf[c]
  BY OnlyOne DEF Live
<1>3. RegisteredWhileServed' /\ OpenWhileServing' /\ BeginsIdle'
  BY <1>1 DEF RegisteredWhileServed, OpenWhileServing, BeginsIdle, At
<1>4. SessionsHeld'
  BY <1>1, <1>2, UserOfType DEF SessionsHeld
<1>5. SessionHasPlayer'
  BY <1>1 DEF SessionHasPlayer, Attended
<1> QED
  BY <1>3, <1>4, <1>5 DEF Kept

LEMMA ThrowOrderly ==
  ASSUME OInv, Kept, NEW c \in Conns, socket[c] = "open", pc[c] # "append",
         NEW session, SessionIs(c, session), Throw(c), UNCHANGED registry
  PROVE  OInv'
<1>1. /\ pc' = [pc EXCEPT ![c] = "idle"] /\ frame' = [frame EXCEPT ![c] = EmptyFrame]
      /\ CloseSocket(c) /\ UNCHANGED state
  BY DEF Throw, Finish, Goto
<1> QED
  BY <1>1, CloseOrderly

-----------------------------------------------------------------------------
(* GameHandler *)

\* A connection begins in IDLE and is registered by the next step of its thread.
LEMMA EstablishOrderly ==
  ASSUME OInv, Kept, NEW c \in Conns, Establish(c)
  PROVE  OInv'
<1> USE DEF OInv, Establish, AppendCheck, Goto, serviceVars, At
<1>1. RegisteredWhileServed' /\ OpenWhileServing' /\ BeginsIdle'
  BY DEF RegisteredWhileServed, OpenWhileServing, BeginsIdle, IInv, SocketOK, TypeOK,
         BaseTypeOK
<1>2. SessionsHeld'
  BY DEF SessionsHeld, ThreadHolds, BeginsIdle, IInv, TypeOK, BaseTypeOK, SendSteps
<1>3. SessionHasPlayer'
  BY DEF SessionHasPlayer, Attended, IInv, SocketOK, TypeOK, BaseTypeOK
<1> QED
  BY <1>1, <1>2, <1>3 DEF Kept

LEMMA AppendPutOrderly ==
  ASSUME OInv, Kept, NEW c \in Conns, AppendPut(c), UNCHANGED serviceVars
  PROVE  OInv'
<1> USE DEF OInv, AppendPut, Finish, Goto, serviceVars, At
<1>1. socket[c] = "open" /\ Live(c) /\ state[c] = "IDLE"
  BY DEF OpenWhileServing, BeginsIdle, Live
<1>2. \A d \in Conns \ {c} : socket[d] = "open" => UserOf[d] # UserOf[c]
  BY <1>1, OnlyOne
<1>3. RegisteredWhileServed' /\ OpenWhileServing' /\ BeginsIdle'
  BY <1>1, <1>2, UserOfType
  DEF RegisteredWhileServed, OpenWhileServing, BeginsIdle, IInv, TypeOK, BaseTypeOK,
      SenderTypeOK
<1>4. SessionsHeld'
  BY <1>1, NoneAssumption
  DEF SessionsHeld, ThreadHolds, EmptyFrame, IInv, TypeOK, BaseTypeOK, SendSteps
<1>5. SessionHasPlayer'
  BY DEF SessionHasPlayer, Attended
<1> QED
  BY <1>3, <1>4, <1>5 DEF Kept

LEMMA ClientCloseOrderly ==
  ASSUME OInv, Kept, NEW c \in Conns, ClientClose(c)
  PROVE  OInv'
<1>1. /\ pc' = [pc EXCEPT ![c] = "idle"] /\ frame' = [frame EXCEPT ![c] = frame[c]]
      /\ CloseSocket(c) /\ UNCHANGED <<state, registry, activeTasks>>
      /\ socket[c] = "open" /\ pc[c] # "append"
  BY DEF ClientClose, Ready, At, serviceVars, OInv, IInv, TypeOK, BaseTypeOK
<1> QED
  BY <1>1, SessionStays, CloseOrderly

\* removeSession and cancelTaskSession come before the user's next connection.
LEMMA CloserOrderly ==
  ASSUME OInv, Kept, NEW c \in Conns, CloserStep(c)
  PROVE  OInv'
<1> USE UserOfType
        DEF OInv, CloserStep, CloserRemove, CloserCancel, RemoveSession, CancelSession,
            serviceVars, At
<1>1. socket[c] # "open" /\ Live(c)
  BY DEF IInv, SocketOK, Live
<1>2. \A d \in Conns : socket[d] = "open" => UserOf[d] # UserOf[c]
  BY <1>1, OnlyOne
<1>3. RegisteredWhileServed' /\ OpenWhileServing' /\ BeginsIdle'
  BY <1>2
  DEF RegisteredWhileServed, OpenWhileServing, BeginsIdle, IInv, TypeOK, SenderTypeOK
<1>4. SessionsHeld'
  BY <1>2 DEF SessionsHeld, IInv, TypeOK, SessionTypeOK
<1>5. SessionHasPlayer'
  <2>1. CASE CloserRemove(c)
    BY <2>1 DEF SessionHasPlayer, Attended, IInv, TypeOK, BaseTypeOK
  <2>2. CASE CloserCancel(c)
    BY <2>2 DEF SessionHasPlayer, Attended, IInv, TypeOK, BaseTypeOK, SessionTypeOK
  <2> QED
    BY <2>1, <2>2
<1> QED
  BY <1>3, <1>4, <1>5 DEF Kept

LEMMA RestartOrderly ==
  ASSUME OInv, Kept, Restart
  PROVE  OInv'
<1> USE DEF OInv, Restart, At
<1>1. RegisteredWhileServed' /\ OpenWhileServing' /\ BeginsIdle'
  BY NoneAssumption DEF RegisteredWhileServed, OpenWhileServing, BeginsIdle, EmptyFrame
<1>2. SessionsHeld' /\ SessionHasPlayer'
  BY DEF SessionsHeld, SessionHasPlayer
<1> QED
  BY <1>1, <1>2 DEF Kept

LEMMA StutterOrderly ==
  ASSUME OInv, Kept, UNCHANGED vars
  PROVE  OInv'
<1> USE DEF OInv, vars, baseVars, At
<1>1. RegisteredWhileServed' /\ OpenWhileServing' /\ BeginsIdle'
  BY DEF RegisteredWhileServed, OpenWhileServing, BeginsIdle
<1>2. SessionsHeld' /\ SessionHasPlayer'
  BY DEF SessionsHeld, SessionHasPlayer, Attended
<1> QED
  BY <1>1, <1>2 DEF Kept

-----------------------------------------------------------------------------
(* WebSocketSender *)

LEMMA ServingIsOpen ==
  ASSUME OInv, NEW c \in Conns, pc[c] \in (SendSteps \cup TaskSteps) \ {"await"}
  PROVE  /\ socket[c] = "open" /\ pc[c] # "append" /\ Live(c)
         /\ registry[UserOf[c]] = c
<1>1. pc[c] \notin {"idle", "await", "append"}
  BY DEF SendSteps, TaskSteps
<1> QED
  BY <1>1 DEF OInv, OpenWhileServing, RegisteredWhileServed, At, Live

LEMMA HoldsAt ==
  ASSUME OInv, NEW c \in Conns, socket[c] = "open"
  PROVE  ThreadHolds(pc[c], frame[c], state[c], activeTasks[UserOf[c]])
  BY DEF OInv, SessionsHeld

LEMMA AfterSendOrderly ==
  ASSUME OInv, Kept, NEW c \in Conns, pc[c] \in SendSteps \ {"await"}, AfterSend(c),
         UNCHANGED <<socket, closer, registry, serviceVars>>
  PROVE  OInv'
<1>1. socket[c] = "open" /\ pc[c] # "append"
  BY ServingIsOpen
<1>2. /\ state[c] # "IDLE" => activeTasks[UserOf[c]] # None
      /\ frame[c].reply = "task" => activeTasks[UserOf[c]] # None
  BY <1>1, HoldsAt DEF ThreadHolds, SendSteps
<1>3. CASE frame[c].reply = "task"
  BY <1>1, <1>2, <1>3, FinishOrderly DEF AfterSend, serviceVars
<1>4. CASE frame[c].reply # "task"
  BY <1>1, <1>2, <1>4, FinishOrderly DEF AfterSend, serviceVars
<1> QED
  BY <1>3, <1>4

\* A handler that closed its own connection returns.
LEMMA CloseReturnsOrderly ==
  ASSUME OInv, Kept, NEW c \in Conns, CloseReturns(c), UNCHANGED serviceVars
  PROVE  OInv'
<1> USE DEF OInv, CloseReturns, AfterSend, ChangeState, Finish, Goto, At, serviceVars
<1>1. socket[c] # "open" /\ socket[c] # "new"
  BY DEF OpenWhileServing, IInv, SocketOK
<1>2. /\ \A d \in Conns \ {c} :
           pc'[d] = pc[d] /\ frame'[d] = frame[d] /\ state'[d] = state[d]
      /\ pc'[c] = "idle"
  BY DEF IInv, TypeOK, BaseTypeOK
<1>3. RegisteredWhileServed' /\ OpenWhileServing' /\ BeginsIdle'
  BY <1>1, <1>2 DEF RegisteredWhileServed, OpenWhileServing, BeginsIdle
<1>4. SessionsHeld'
  BY <1>1, <1>2 DEF SessionsHeld
<1>5. SessionHasPlayer'
  BY DEF SessionHasPlayer, Attended
<1> QED
  BY <1>3, <1>4, <1>5 DEF Kept

\* The connection a reply goes to, and the one a failed reply closes, is the
\* handler's own.
LEMMA SendStepOrderly ==
  ASSUME OInv, Kept, NEW c \in Conns, SendStep(c), UNCHANGED serviceVars
  PROVE  OInv'
<1>1. CASE CloseReturns(c)
  BY <1>1, CloseReturnsOrderly
<1>2. ASSUME pc[c] \in SendSteps \ {"await"}
      PROVE  socket[c] = "open" /\ pc[c] # "append" /\ registry[UserOf[c]] = c
  BY <1>2, ServingIsOpen
<1>3. ASSUME pc[c] \in SendSteps \ {"await"}, NEW label \in SendSteps \ {"await"},
             NEW locals, locals.reply = frame[c].reply
      PROVE  ThreadHolds(label, locals, state[c], activeTasks[UserOf[c]])
  BY <1>2, <1>3, HoldsAt DEF ThreadHolds, SendSteps
<1>4. \A label \in SendSteps \ {"await"} : label \in Labels \ {"append", "await"}
  BY DEF Labels, SendSteps
<1>5. CASE SendContains(c)
  <2>1. pc[c] \in SendSteps \ {"await"} /\ "get" \in SendSteps \ {"await"}
    BY <1>5 DEF SendContains, At, SendSteps
  <2>2. CASE AfterSend(c)
    BY <1>5, <2>1, <2>2, AfterSendOrderly DEF SendContains
  <2>3. CASE Goto(c, "get") /\ UNCHANGED <<state, frame>>
    BY <1>2, <1>3, <1>4, <1>5, <2>1, <2>3, JumpOrderly DEF SendContains, serviceVars
  <2> QED
    BY <1>5, <2>2, <2>3 DEF SendContains
<1>6. CASE SendGet(c)
  <2>1. pc[c] \in SendSteps \ {"await"}
    BY <1>6 DEF SendGet, At, SendSteps
  <2> DEFINE locals == [frame[c] EXCEPT !.target = c]
  <2>2. /\ Goto(c, "write") /\ UNCHANGED <<socket, closer, state, registry, activeTasks>>
        /\ frame' = [frame EXCEPT ![c] = locals]
    BY <1>2, <1>6, <2>1, NoneAssumption
    DEF SendGet, serviceVars, OInv, IInv, TypeOK, BaseTypeOK
  <2>3. locals.reply = frame[c].reply /\ "write" \in SendSteps \ {"await"}
    BY DEF OInv, IInv, TypeOK, BaseTypeOK, Frames, SendSteps
  <2> HIDE DEF locals
  <2> QED
    BY <1>2, <1>3, <1>4, <2>1, <2>2, <2>3, GoOnOrderly
<1>7. CASE SendWrite(c)
  <2>1. pc[c] \in SendSteps \ {"await"} /\ "disconnect" \in SendSteps \ {"await"}
    BY <1>7 DEF SendWrite, At, SendSteps
  <2>2. CASE AfterSend(c) /\ UNCHANGED <<socket, closer>>
    BY <1>7, <2>1, <2>2, AfterSendOrderly DEF SendWrite
  <2>3. CASE Goto(c, "disconnect") /\ UNCHANGED <<socket, closer, state, frame>>
    BY <1>2, <1>3, <1>4, <1>7, <2>1, <2>3, JumpOrderly DEF SendWrite, serviceVars
  <2>4. CASE Throw(c)
    BY <1>2, <1>7, <2>1, <2>4, SessionStays, ThrowOrderly DEF SendWrite, serviceVars
  <2> QED
    BY <1>7, <2>2, <2>3, <2>4 DEF SendWrite
<1>8. CASE HandleDisconnect(c)
  <2>1. pc[c] \in SendSteps \ {"await"}
    BY <1>8 DEF HandleDisconnect, At, SendSteps
  <2> DEFINE locals == [frame[c] EXCEPT !.target = c]
  <2>2. /\ pc' = [pc EXCEPT ![c] = "await"] /\ CloseSocket(c)
        /\ frame' = [frame EXCEPT ![c] = locals]
        /\ UNCHANGED <<state, registry, activeTasks>>
    BY <1>2, <1>8, <2>1, NoneAssumption
    DEF HandleDisconnect, Goto, serviceVars, OInv, IInv, TypeOK, BaseTypeOK
  <2> HIDE DEF locals
  <2> QED
    BY <1>2, <2>1, <2>2, SessionStays, CloseOrderly
<1> QED
  BY <1>1, <1>5, <1>6, <1>7, <1>8 DEF SendStep

-----------------------------------------------------------------------------
(* TaskSessionService and TaskAccessService *)

\* What a handler of a task finds in the map.
LEMMA TaskThreadHolds ==
  ASSUME OInv, NEW c \in Conns, pc[c] \in TaskSteps
  PROVE  /\ socket[c] = "open" /\ pc[c] # "append" /\ Live(c)
         /\ frame[c].reply # "task"
         /\ pc[c] \in {"start", "put"} => state[c] = "IDLE"
         /\ pc[c] = "put" => activeTasks[UserOf[c]] = None
         /\ pc[c] \in TaskSteps \ {"start", "put"} => state[c] # "IDLE"
         /\ pc[c] \in {"abort", "check", "complete", "fetch", "remove", "take"}
              => activeTasks[UserOf[c]] # None
         /\ pc[c] \in {"complete", "fetch", "remove", "take"}
              => /\ SameSession(activeTasks[UserOf[c]], frame[c].held)
                 /\ activeTasks[UserOf[c]].task = frame[c].held.task
         /\ pc[c] = "take"
              => frame[c].arg \in TaskHints(activeTasks[UserOf[c]].task)
                                  \ activeTasks[UserOf[c]].taken
<1>1. socket[c] = "open" /\ pc[c] # "append" /\ Live(c)
  BY ServingIsOpen DEF TaskSteps
<1>2. ThreadHolds(pc[c], frame[c], state[c], activeTasks[UserOf[c]])
  BY <1>1, HoldsAt
<1>3. Known(pc[c], frame[c].reply, state[c])
  BY DEF OInv, StateKnown
<1> QED
  BY <1>1, <1>2, <1>3 DEF ThreadHolds, Known, TaskSteps, SendSteps

LEMMA StartOrderly ==
  ASSUME OInv, Kept, NEW c \in Conns, StartCheck(c) \/ StartPut(c), UNCHANGED registry
  PROVE  OInv'
<1>1. pc[c] \in {"start", "put"}
  BY DEF StartCheck, StartPut, At
<1>2. /\ socket[c] = "open" /\ pc[c] # "append" /\ state[c] = "IDLE"
      /\ frame[c].reply # "task"
  BY <1>1, TaskThreadHolds DEF TaskSteps
<1>3. CASE StartCheck(c)
  <2>1. CASE UserInActiveSession(UserOf[c])
    BY <1>2, <1>3, <2>1, SessionStays, RespondOrderly DEF StartCheck
  <2>2. CASE ~UserInActiveSession(UserOf[c])
    <3>1. ThreadHolds("put", frame[c], state[c], activeTasks[UserOf[c]])
      BY <1>2, <2>2 DEF UserInActiveSession, ThreadHolds
    <3>2. "put" \in Labels \ {"append", "await"}
      BY DEF Labels, TaskSteps
    <3> QED
      BY <1>2, <1>3, <2>2, <3>1, <3>2, JumpOrderly DEF StartCheck
  <2> QED
    BY <1>3, <2>1, <2>2 DEF StartCheck
<1>4. CASE StartPut(c)
  <2>1. PICK i \in FreeIds : SessionIs(c, NewSession(i, frame[c].arg))
    BY <1>4 DEF StartPut, SessionIs
  <2>2. frame[c].arg \in Tasks
    BY <1>4 DEF StartPut, At, OInv, IInv, ThreadsOK, ThreadOK
  <2>3. NewSession(i, frame[c].arg) # None
    BY <2>2, NoneAssumption DEF NewSession, FreeIds
  <2> QED
    BY <1>2, <1>4, <2>1, <2>3, RespondOrderly DEF StartPut
<1> QED
  BY <1>3, <1>4

LEMMA ValidateFlagOrderly ==
  ASSUME OInv, Kept, NEW c \in Conns, ValidateFlag(c), UNCHANGED registry
  PROVE  OInv'
<1> DEFINE session == activeTasks[UserOf[c]]
<1>1. pc[c] = "check" /\ UNCHANGED activeTasks
  BY DEF ValidateFlag, At
<1>2. /\ socket[c] = "open" /\ pc[c] # "append" /\ session # None
      /\ frame[c].reply # "task"
  BY <1>1, TaskThreadHolds DEF TaskSteps
<1>3. CASE Throw(c)
  BY <1>1, <1>2, <1>3, SessionStays, ThrowOrderly
<1>4. CASE Respond(c, "ok") /\ UNCHANGED <<socket, closer, state>>
  BY <1>1, <1>2, <1>4, SessionStays, RespondOrderly
<1>5. ASSUME Goto(c, "complete"), frame' = [frame EXCEPT ![c].held = session],
             UNCHANGED <<socket, closer, state>>
      PROVE  OInv'
  <2> DEFINE locals == [frame[c] EXCEPT !.held = session]
  <2>1. /\ frame' = [frame EXCEPT ![c] = locals] /\ locals.held = session
        /\ locals.reply = frame[c].reply
    BY <1>5 DEF OInv, IInv, TypeOK, BaseTypeOK, Frames
  <2>2. ThreadHolds("complete", locals, state[c], session)
    BY <1>2, <2>1 DEF ThreadHolds, SameSession
  <2>3. "complete" \in Labels \ {"append", "await"}
    BY DEF Labels, TaskSteps
  <2> HIDE DEF locals
  <2> QED
    BY <1>1, <1>2, <1>5, <2>1, <2>2, <2>3, GoOnOrderly
<1> QED
  BY <1>2, <1>3, <1>4, <1>5 DEF ValidateFlag

\* completeSession: the session that was validated is still there, and is the
\* one that goes.
LEMMA CompleteOrderly ==
  ASSUME OInv, Kept, NEW c \in Conns,
         CompleteCheck(c) \/ CompleteFetch(c) \/ CompleteRemove(c), UNCHANGED registry
  PROVE  OInv'
<1> DEFINE session == activeTasks[UserOf[c]]
<1>1. pc[c] \in {"complete", "fetch", "remove"}
  BY DEF CompleteCheck, CompleteFetch, CompleteRemove, At
<1>2. /\ socket[c] = "open" /\ pc[c] # "append" /\ session # None
      /\ frame[c].reply # "task"
  BY <1>1, TaskThreadHolds DEF TaskSteps
<1>3. {"fetch", "remove", "grant"} \subseteq Labels \ {"append", "await"}
  BY DEF Labels, TaskSteps
<1>4. CASE CompleteCheck(c)
  <2>1. Goto(c, "fetch") /\ UNCHANGED <<state, frame, socket, closer, activeTasks>>
    BY <1>2, <1>4 DEF CompleteCheck, UserInActiveSession
  <2>2. ThreadHolds("fetch", frame[c], state[c], session)
    BY <1>2, <1>4, TaskThreadHolds DEF CompleteCheck, At, TaskSteps, ThreadHolds
  <2> QED
    BY <1>2, <1>3, <2>1, <2>2, JumpOrderly
<1>5. CASE CompleteFetch(c)
  <2> DEFINE locals == [frame[c] EXCEPT !.held = session]
  <2>1. /\ frame' = [frame EXCEPT ![c] = locals] /\ locals.held = session
        /\ locals.reply = frame[c].reply
    BY <1>5 DEF CompleteFetch, OInv, IInv, TypeOK, BaseTypeOK, Frames
  <2>2. ThreadHolds("remove", locals, state[c], session)
    BY <1>2, <2>1 DEF ThreadHolds, SameSession, SendSteps
  <2> HIDE DEF locals
  <2> QED
    BY <1>2, <1>3, <1>5, <2>1, <2>2, GoOnOrderly DEF CompleteFetch
<1>6. CASE CompleteRemove(c)
  <2>1. SessionIs(c, None)
    BY <1>6 DEF CompleteRemove, CancelSession, SessionIs
  <2>2. CASE Throw(c)
    BY <1>2, <2>1, <2>2, ThrowOrderly
  <2>3. CASE ChangeState(c, "IDLE") /\ Respond(c, "ok") /\ UNCHANGED <<socket, closer>>
    BY <1>2, <2>1, <2>3, RespondOrderly
  <2>4. CASE Goto(c, "grant") /\ UNCHANGED <<state, frame, socket, closer>>
    <3>1. /\ pc' = [pc EXCEPT ![c] = "grant"]
          /\ frame' = [frame EXCEPT ![c] = frame[c]]
          /\ state' = [state EXCEPT ![c] = state[c]]
          /\ activeTasks' = [activeTasks EXCEPT ![UserOf[c]] = None]
      BY <2>1, <2>4 DEF Goto, SessionIs, OInv, IInv, TypeOK, BaseTypeOK
    <3>2. ThreadHolds("grant", frame[c], state[c], None)
      BY <1>2 DEF ThreadHolds
    <3> QED
      BY <1>2, <1>3, <2>4, <3>1, <3>2, MoveOrderly
  <2> QED
    BY <1>6, <2>2, <2>3, <2>4 DEF CompleteRemove
<1> QED
  BY <1>4, <1>5, <1>6

\* The hint that is marked is one of the session in the map.
LEMMA HintMarked ==
  ASSUME OInv, NEW c \in Conns, TakeHint(c)
  PROVE  LET session == [activeTasks[UserOf[c]] EXCEPT !.taken = @ \cup {frame[c].arg}] IN
         session # None /\ SessionIs(c, session)
<1> DEFINE session == [activeTasks[UserOf[c]] EXCEPT !.taken = @ \cup {frame[c].arg}]
<1>1. pc[c] = "take"
  BY DEF TakeHint, At
<1>2. activeTasks[UserOf[c]] # None
      /\ SameSession(activeTasks[UserOf[c]], frame[c].held)
  BY <1>1, TaskThreadHolds DEF TaskSteps
<1>3. activeTasks[UserOf[c]] \in Sessions /\ frame[c].arg \in Nat
  BY <1>1, <1>2, UserOfType
  DEF OInv, IInv, TypeOK, SessionTypeOK, ThreadsOK, ThreadOK
<1>4. session \in Sessions
  BY <1>3 DEF Sessions
<1>5. session # None
  BY <1>4, NoneAssumption DEF Sessions
<1>6. SessionIs(c, session)
  BY <1>2, UserOfType
  DEF TakeHint, UserInActiveSession, SameSession, SessionIs, OInv, IInv, TypeOK,
      SessionTypeOK
<1> QED
  BY <1>5, <1>6

LEMMA TakeHintOrderly ==
  ASSUME OInv, Kept, NEW c \in Conns, TakeHint(c), UNCHANGED registry
  PROVE  OInv'
<1>1. PICK session : session # None /\ SessionIs(c, session)
  BY HintMarked
<1>2. pc[c] = "take"
  BY DEF TakeHint, At
<1>3. socket[c] = "open" /\ pc[c] # "append"
  BY <1>2, TaskThreadHolds DEF TaskSteps
<1>4. CASE Throw(c)
  BY <1>1, <1>3, <1>4, ThrowOrderly
<1>5. CASE Respond(c, "ok") /\ UNCHANGED <<socket, closer, state>>
  BY <1>1, <1>3, <1>5, RespondOrderly
<1> QED
  BY <1>4, <1>5 DEF TakeHint

LEMMA GrantOrderly ==
  ASSUME OInv, Kept, NEW c \in Conns, GrantStep(c), UNCHANGED <<registry, activeTasks>>
  PROVE  OInv'
<1>1. pc[c] \in {"grant", "save"}
  BY DEF GrantStep, GrantCheck, GrantSave, At
<1>2. socket[c] = "open" /\ pc[c] # "append" /\ frame[c].reply # "task"
  BY <1>1, TaskThreadHolds DEF TaskSteps
<1>3. CASE Throw(c)
  BY <1>2, <1>3, SessionStays, ThrowOrderly
<1>4. CASE SolveDone(c) /\ UNCHANGED <<socket, closer>>
  BY <1>2, <1>4, SessionStays, RespondOrderly DEF SolveDone
<1>5. CASE Goto(c, "save") /\ UNCHANGED <<state, frame, socket, closer>>
  <2>1. ThreadHolds("save", frame[c], state[c], activeTasks[UserOf[c]])
    BY <1>2 DEF ThreadHolds
  <2>2. "save" \in Labels \ {"append", "await"}
    BY DEF Labels, TaskSteps
  <2> QED
    BY <1>2, <1>5, <2>1, <2>2, JumpOrderly
<1> QED
  BY <1>3, <1>4, <1>5 DEF GrantStep, GrantCheck, GrantSave

LEMMA AbortOrderly ==
  ASSUME OInv, Kept, NEW c \in Conns, AbortTask(c), UNCHANGED registry
  PROVE  OInv'
<1>1. pc[c] = "abort" /\ SessionIs(c, None)
  BY DEF AbortTask, At, CancelSession, SessionIs
<1>2. socket[c] = "open" /\ pc[c] # "append"
  BY <1>1, TaskThreadHolds DEF TaskSteps
<1> QED
  BY <1>1, <1>2, RespondOrderly DEF AbortTask

LEMMA TaskStepOrderly ==
  ASSUME OInv, Kept, NEW c \in Conns, TaskStep(c), UNCHANGED registry
  PROVE  OInv'
  BY StartOrderly, ValidateFlagOrderly, CompleteOrderly, TakeHintOrderly, GrantOrderly,
     AbortOrderly
  DEF TaskStep, SessionStep

-----------------------------------------------------------------------------
(* TaskService and MessageRouter *)

LEMMA ReadyHolds ==
  ASSUME OInv, NEW c \in Conns, Ready(c)
  PROVE  /\ socket[c] = "open" /\ pc[c] # "append" /\ Live(c)
         /\ frame[c].reply # "task"
         /\ state[c] # "IDLE" => activeTasks[UserOf[c]] # None
  BY HoldsAt DEF Ready, At, Live, ThreadHolds, SendSteps

\* A message that is answered at once.
LEMMA AnswerOrderly ==
  ASSUME OInv, Kept, NEW c \in Conns, Ready(c), NEW r \in {"ok", "error"},
         NEW s, Respond(c, r),
         ChangeState(c, s) \/ (s = state[c] /\ UNCHANGED state),
         s # "IDLE" => state[c] # "IDLE",
         UNCHANGED <<socket, closer, registry, activeTasks>>
  PROVE  OInv'
  BY ReadyHolds, SessionStays, RespondOrderly

LEMMA RespondToTaskOrderly ==
  ASSUME OInv, Kept, NEW c \in Conns, Ready(c), state[c] = "IDLE", RespondToTask(c),
         UNCHANGED registry
  PROVE  OInv'
<1>1. UNCHANGED <<socket, closer, state, registry, activeTasks>>
  BY DEF RespondToTask, serviceVars
<1>2. CASE Respond(c, "error")
  BY <1>1, <1>2, AnswerOrderly
<1>3. ASSUME NEW t \in TaskIds, Goto(c, "start"), frame' = [frame EXCEPT ![c].arg = t]
      PROVE  OInv'
  <2> DEFINE locals == [frame[c] EXCEPT !.arg = t]
  <2>1. frame' = [frame EXCEPT ![c] = locals] /\ locals.reply = frame[c].reply
    BY <1>3 DEF OInv, IInv, TypeOK, BaseTypeOK, Frames
  <2>2. ThreadHolds("start", locals, state[c], activeTasks[UserOf[c]])
    BY <2>1, ReadyHolds DEF ThreadHolds
  <2>3. "start" \in Labels \ {"append", "await"}
    BY DEF Labels, TaskSteps
  <2> HIDE DEF locals
  <2> QED
    BY <1>1, <1>3, <2>1, <2>2, <2>3, ReadyHolds, GoOnOrderly
<1> QED
  BY <1>2, <1>3 DEF RespondToTask

LEMMA RespondToParseStatusOrderly ==
  ASSUME OInv, Kept, NEW c \in Conns, Ready(c), state[c] = "PARSE_STANDBY",
         RespondToParseStatus(c), UNCHANGED registry
  PROVE  OInv'
<1>1. UNCHANGED <<socket, closer, registry, activeTasks>>
  BY DEF RespondToParseStatus, serviceVars
<1>2. ASSUME NEW r \in {"ok", "error"}, NEW s, Respond(c, r),
             ChangeState(c, s) \/ (s = state[c] /\ UNCHANGED state)
      PROVE  OInv'
  BY <1>1, <1>2, AnswerOrderly
<1>3. CASE Goto(c, "abort") /\ UNCHANGED <<state, frame>>
  <2>1. ThreadHolds("abort", frame[c], state[c], activeTasks[UserOf[c]])
    BY ReadyHolds DEF ThreadHolds
  <2>2. "abort" \in Labels \ {"append", "await"}
    BY DEF Labels, TaskSteps
  <2> QED
    BY <1>1, <1>3, <2>1, <2>2, ReadyHolds, JumpOrderly
<1> QED
  BY <1>2, <1>3 DEF RespondToParseStatus

LEMMA RespondToValidateFlagOrderly ==
  ASSUME OInv, Kept, NEW c \in Conns, Ready(c), RespondToValidateFlag(c),
         UNCHANGED registry
  PROVE  OInv'
<1>1. UNCHANGED <<socket, closer, state, registry, activeTasks>>
  BY DEF RespondToValidateFlag, serviceVars
<1>2. CASE Respond(c, "error")
  BY <1>1, <1>2, AnswerOrderly
<1>3. CASE UserInActiveSession(UserOf[c]) /\ Goto(c, "check") /\ UNCHANGED frame
  <2>1. ThreadHolds("check", frame[c], state[c], activeTasks[UserOf[c]])
    BY <1>3, ReadyHolds DEF ThreadHolds, UserInActiveSession
  <2>2. "check" \in Labels \ {"append", "await"}
    BY DEF Labels, TaskSteps
  <2> QED
    BY <1>1, <1>3, <2>1, <2>2, ReadyHolds, JumpOrderly
<1> QED
  BY <1>2, <1>3 DEF RespondToValidateFlag

LEMMA RespondToCancelTaskOrderly ==
  ASSUME OInv, Kept, NEW c \in Conns, Ready(c), RespondToCancelTask(c),
         UNCHANGED registry
  PROVE  OInv'
<1>1. /\ pc' = [pc EXCEPT ![c] = "idle"]
      /\ frame' = [frame EXCEPT ![c] = frame[c]]
      /\ state' = [state EXCEPT ![c] = "IDLE"]
      /\ activeTasks' = [activeTasks EXCEPT ![UserOf[c]] = None]
      /\ UNCHANGED <<socket, closer, registry>>
  BY DEF RespondToCancelTask, CancelSession, ChangeState, Ready, At, OInv, IInv, TypeOK,
         BaseTypeOK
<1>2. ThreadHolds("idle", frame[c], "IDLE", None)
  BY ReadyHolds DEF ThreadHolds
<1>3. "idle" \in Labels \ {"append", "await"}
  BY DEF Labels
<1> QED
  BY <1>1, <1>2, <1>3, ReadyHolds, MoveOrderly

LEMMA RespondToGetHintOrderly ==
  ASSUME OInv, Kept, NEW c \in Conns, Ready(c), RespondToGetHint(c), UNCHANGED registry
  PROVE  OInv'
<1> DEFINE session == activeTasks[UserOf[c]]
<1>1. UNCHANGED <<registry, activeTasks>>
  BY DEF RespondToGetHint, RetrieveHint
<1>2. CASE Respond(c, "error") /\ UNCHANGED <<socket, closer, state>>
  BY <1>1, <1>2, AnswerOrderly
<1>3. CASE Throw(c)
  BY <1>1, <1>3, ReadyHolds, SessionStays, ThrowOrderly
<1>4. ASSUME session # None, NEW index \in HintAsks,
             index - 1 \in TaskHints(session.task) \ session.taken, Goto(c, "take"),
             frame' = [frame EXCEPT ![c].held = session, ![c].arg = index - 1],
             UNCHANGED <<socket, closer, state>>
      PROVE  OInv'
  <2> DEFINE locals == [frame[c] EXCEPT !.held = session, !.arg = index - 1]
  <2>1. /\ frame' = [frame EXCEPT ![c] = locals] /\ locals.held = session
        /\ locals.reply = frame[c].reply /\ locals.arg = index - 1
    BY <1>4 DEF OInv, IInv, TypeOK, BaseTypeOK, Frames
  <2>2. ThreadHolds("take", locals, state[c], session)
    BY <1>4, <2>1, ReadyHolds DEF ThreadHolds, SameSession
  <2>3. "take" \in Labels \ {"append", "await"}
    BY DEF Labels, TaskSteps
  <2> HIDE DEF locals
  <2> QED
    BY <1>1, <1>4, <2>1, <2>2, <2>3, ReadyHolds, GoOnOrderly
<1> QED
  BY <1>2, <1>3, <1>4 DEF RespondToGetHint, RetrieveHint

LEMMA HandleMessageOrderly ==
  ASSUME OInv, Kept, NEW c \in Conns, HandleMessage(c)
  PROVE  OInv'
<1> USE DEF HandleMessage
<1>1. CASE HandleInvalidMessageType(c)
  BY <1>1, AnswerOrderly DEF HandleInvalidMessageType, serviceVars
<1>2. CASE RespondToTaskInfo(c)
  BY <1>2, AnswerOrderly DEF RespondToTaskInfo, serviceVars
<1> QED
  BY <1>1, <1>2, RespondToTaskOrderly, RespondToParseStatusOrderly,
     RespondToValidateFlagOrderly, RespondToCancelTaskOrderly, RespondToGetHintOrderly
  DEF RouteGameMessage, RouteIdleStateMessage, RouteParseStandbyStateMessage,
      RouteActiveTaskStateMessage

LEMMA NextOrderly == OInv /\ [Next /\ Orderly']_vars => OInv'
<1> SUFFICES ASSUME OInv, [Next /\ Orderly']_vars PROVE OInv'
  OBVIOUS
<1>1. Kept
  <2>1. IInv' /\ StateKnown'
    BY NextKeeps, NextDocumented DEF OInv, Documented
  <2>2. CASE UNCHANGED vars
    BY <2>1, <2>2 DEF Kept, OInv, Orderly, Live, At, vars, baseVars
  <2> QED
    BY <2>1, <2>2 DEF Kept
<1>2. ASSUME NEW c \in Conns, ThreadStep(c) PROVE OInv'
  BY <1>1, <1>2, AppendPutOrderly, SendStepOrderly, TaskStepOrderly DEF ThreadStep
<1>3. ASSUME NEW c \in Conns, HandleMalformedMessage(c) PROVE OInv'
  BY <1>1, <1>3, ReadyHolds, SessionStays, ThrowOrderly
  DEF HandleMalformedMessage, serviceVars
<1> QED
  BY <1>1, <1>2, <1>3, EstablishOrderly, ClientCloseOrderly, HandleMessageOrderly,
     CloserOrderly, RestartOrderly, StutterOrderly
  DEF Next, ConnStep

-----------------------------------------------------------------------------
(* The invariants *)

\* OInv holds as long as users do not overlap, for any constants.
THEOREM OrderlyInductive == OrderlySpec => []OInv
  BY InitOInv, NextOrderly, PTL DEF OrderlySpec

\* TaskService and TaskSessionService: between messages, a player who is
\* parsing or playing a task has a session.
THEOREM ActivePlayersHaveSession == OrderlySpec => []ActiveHasSession
<1>1. OInv => ActiveHasSession
  BY ReadyHolds DEF ActiveHasSession, UserInActiveSession
<1> QED
  BY <1>1, OrderlyInductive, PTL

\* WebSocketSender: a served connection is the one that is registered.
THEOREM ServedAreRegistered == OrderlySpec => []RegisteredWhileServed
<1>1. OInv => RegisteredWhileServed
  BY DEF OInv
<1> QED
  BY <1>1, OrderlyInductive, PTL

-----------------------------------------------------------------------------
(* What a step of a handler may never do *)

\* No other connection moves a handler.
LEMMA OthersLeave ==
  ASSUME IInv, NEW c \in Conns, NEW d \in Conns, c # d, ConnStep(d)
  PROVE  pc'[c] = pc[c]
<1>1. UNCHANGED pc \/ \E label : pc' = [pc EXCEPT ![d] = label]
  <2> USE DEF Goto, Finish, Respond, Throw, AfterSend, SolveDone
  <2>1. CASE Establish(d) \/ ClientClose(d) \/ CloserStep(d) \/ HandleMalformedMessage(d)
    BY <2>1
    DEF Establish, AppendCheck, ClientClose, CloserStep, CloserRemove, CloserCancel,
        HandleMalformedMessage
  <2>2. CASE HandleMessage(d)
    BY <2>2
    DEF HandleMessage, RouteGameMessage, RouteIdleStateMessage,
        RouteParseStandbyStateMessage, RouteActiveTaskStateMessage,
        HandleInvalidMessageType, RespondToTaskInfo, RespondToTask,
        RespondToParseStatus, RespondToValidateFlag, RespondToCancelTask,
        RespondToGetHint, RetrieveHint
  <2>3. CASE AppendPut(d) \/ SendStep(d)
    BY <2>3
    DEF AppendPut, SendStep, SendContains, SendGet, SendWrite, HandleDisconnect,
        CloseReturns
  <2>4. CASE TaskStep(d)
    BY <2>4
    DEF TaskStep, SessionStep, GrantStep, StartCheck, StartPut, ValidateFlag,
        CompleteCheck, CompleteFetch, CompleteRemove, TakeHint, GrantCheck, GrantSave,
        AbortTask
  <2> QED
    BY <2>1, <2>2, <2>3, <2>4 DEF ConnStep, ThreadStep
<1> QED
  BY <1>1 DEF IInv, TypeOK, BaseTypeOK

\* A handler of a task goes on by its own steps, until it ends.
LEMMA GoesOnAlone ==
  ASSUME OInv, [Next]_vars, NEW c \in Conns, pc[c] \in TaskSteps
  PROVE  pc'[c] \in {pc[c], "idle"} \/ TaskStep(c)
<1>1. pc[c] \notin {"idle", "append"} \cup SendSteps
  BY DEF TaskSteps, SendSteps
<1>2. socket[c] = "open"
  BY TaskThreadHolds
<1>3. CASE Restart \/ UNCHANGED vars
  BY <1>3 DEF Restart, vars, baseVars
<1>4. ASSUME NEW d \in Conns, c # d, ConnStep(d) PROVE pc'[c] = pc[c]
  BY <1>4, OthersLeave DEF OInv
<1>5. CASE CloserStep(c)
  BY <1>5 DEF CloserStep, CloserRemove, CloserCancel
<1>6. ~AppendPut(c) /\ ~SendStep(c)
  BY <1>1
  DEF AppendPut, SendStep, SendContains, SendGet, SendWrite, HandleDisconnect,
      CloseReturns, At, SendSteps
<1>7. ~Establish(c) /\ ~Ready(c)
  BY <1>1, <1>2 DEF Establish, Ready, At
<1> QED
  BY <1>3, <1>4, <1>5, <1>6, <1>7
  DEF Next, ConnStep, ClientClose, HandleMessage, HandleMalformedMessage, ThreadStep

\* The action a handler takes by the label it is at.
LEMMA TaskStepByLabel ==
  ASSUME NEW c \in Conns, TaskStep(c)
  PROVE  /\ pc[c] = "complete" => CompleteCheck(c)
         /\ pc[c] = "fetch" => CompleteFetch(c)
         /\ pc[c] = "remove" => CompleteRemove(c) /\ UNCHANGED access
         /\ pc[c] = "take" => TakeHint(c)
         /\ pc[c] = "grant" => GrantCheck(c)
         /\ pc[c] = "save" => GrantSave(c)
  BY DEF TaskStep, SessionStep, GrantStep, StartCheck, StartPut, ValidateFlag,
         CompleteCheck, CompleteFetch, CompleteRemove, TakeHint, GrantCheck, GrantSave,
         AbortTask, At

\* Where a handler of a task is after a step that ends in Goto or Respond.
LEMMA PcAfter ==
  ASSUME OInv, NEW c \in Conns
  PROVE  /\ \A label : Goto(c, label) => pc'[c] = label
         /\ \A r : Respond(c, r) => pc'[c] = "send"
         /\ Throw(c) => pc'[c] = "idle"
         /\ SolveDone(c) => pc'[c] = "send"
  BY DEF Goto, Respond, Throw, Finish, SolveDone, OInv, IInv, TypeOK, BaseTypeOK

\* TaskService.respondToValidateFlag: whoever is told that the flag is correct
\* has the task that it unlocks.
THEOREM SolversGetTheirTask == OrderlySpec => SolvedIsUnlocked
<1>1. ASSUME OInv, [Next]_vars, NEW c \in Conns,
             pc[c] \in {"complete", "remove", "grant", "save"}, pc'[c] = "send"
      PROVE  LET t == Unlocks[frame[c].held.task] IN
             t # None => <<UserOf[c], t>> \in access'
  <2>1. TaskStep(c)
    BY <1>1, GoesOnAlone DEF TaskSteps
  <2>2. CASE pc[c] = "complete"
    <3>1. CompleteCheck(c) /\ activeTasks[UserOf[c]] # None
      BY <1>1, <2>1, <2>2, TaskStepByLabel, TaskThreadHolds DEF TaskSteps
    <3> QED
      BY <1>1, <3>1, PcAfter DEF CompleteCheck, UserInActiveSession
  <2>3. CASE pc[c] = "remove"
    <3>1. CompleteRemove(c)
      BY <2>1, <2>3, TaskStepByLabel
    <3> QED
      BY <1>1, <3>1, PcAfter DEF CompleteRemove
  <2>4. CASE pc[c] = "grant"
    <3>1. GrantCheck(c)
      BY <2>1, <2>4, TaskStepByLabel
    <3> QED
      BY <1>1, <3>1, PcAfter DEF GrantCheck
  <2>5. CASE pc[c] = "save"
    <3>1. GrantSave(c)
      BY <2>1, <2>5, TaskStepByLabel
    <3> QED
      BY <1>1, <3>1, PcAfter DEF GrantSave
  <2> QED
    BY <1>1, <2>2, <2>3, <2>4, <2>5
<1>2. OInv /\ [Next]_vars
        => [\A c \in Conns :
               pc[c] \in {"complete", "remove", "grant", "save"} /\ At(c, "send")'
                  => LET t == Unlocks[frame[c].held.task] IN
                     t # None => <<UserOf[c], t>> \in access']_vars
  BY <1>1 DEF At
<1>3. [Next /\ Orderly']_vars => [Next]_vars
  OBVIOUS
<1> QED
  BY <1>2, <1>3, OrderlyInductive, PTL DEF OrderlySpec, SolvedIsUnlocked

=============================================================================
