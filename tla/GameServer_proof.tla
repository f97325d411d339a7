-------------------------- MODULE GameServer_proof --------------------------
(***************************************************************************)
(* The invariants that hold whatever the threads do, for any users,        *)
(* connections, tasks and hints: IInv is inductive, and they follow.       *)
(***************************************************************************)
EXTENDS GameProperties, TLAPS

\* What IInv says of TaskSessionService's map and of user_task_access.
TablesOK == SessionTypeOK /\ AccessTypeOK /\ SessionAuthorised /\ AccessChain

-----------------------------------------------------------------------------
(* The initial states *)

\* No connection is open and nobody plays; the first task may be granted.
LEMMA InitIInv == Init => IInv
<1> SUFFICES ASSUME Init PROVE IInv
  OBVIOUS
<1> USE BaseAssumption, NoneAssumption
        DEF Init, BaseInit, SenderInit, SessionInit, AccessInit
<1>1. TypeOK
  BY DEF TypeOK, BaseTypeOK, SenderTypeOK, SessionTypeOK, AccessTypeOK,
         UserStates, Labels, Frames, EmptyFrame
<1>2. ThreadsOK
  BY DEF ThreadsOK, ThreadOK, EmptyFrame
<1>3. SocketOK /\ RegistryLive /\ RegisteredWasOpened
  BY DEF SocketOK, RegistryLive, RegisteredWasOpened, At
<1>4. SessionAuthorised /\ AccessChain
  BY DEF SessionAuthorised, AccessChain
<1> QED
  BY <1>1, <1>2, <1>3, <1>4 DEF IInv

-----------------------------------------------------------------------------
(* The ways a thread moves *)

\* A thread that goes to another label with other local variables keeps IInv,
\* if what the label asks of the variables holds and the connections are left
\* alone; the tables may change as long as no access is taken away.
LEMMA MoveKeeps ==
  ASSUME IInv, NEW c \in Conns, socket[c] # "new",
         NEW label \in Labels \ {"append"}, NEW locals \in Frames,
         ThreadOK(c, label, locals),
         pc' = [pc EXCEPT ![c] = label], frame' = [frame EXCEPT ![c] = locals],
         state' \in [Conns -> UserStates], UNCHANGED <<socket, closer, registry>>,
         access \subseteq access', TablesOK'
  PROVE  IInv'
<1> USE DEF IInv, TablesOK
<1>1. TypeOK'
  BY DEF TypeOK, BaseTypeOK, SenderTypeOK
<1>2. ThreadsOK'
  BY DEF TypeOK, BaseTypeOK, ThreadsOK, ThreadOK, UserHasAccess
<1>3. SocketOK' /\ RegistryLive' /\ RegisteredWasOpened'
  BY DEF TypeOK, BaseTypeOK, SenderTypeOK, SocketOK, RegistryLive,
         RegisteredWasOpened, At
<1> QED
  BY <1>1, <1>2, <1>3

\* A handler that sends a reply.
LEMMA RespondKeeps ==
  ASSUME IInv, NEW c \in Conns, socket[c] # "new", NEW r \in Replies, Respond(c, r),
         state' \in [Conns -> UserStates], UNCHANGED <<socket, closer, registry>>,
         access \subseteq access', TablesOK'
  PROVE  IInv'
<1> DEFINE locals == [EmptyFrame EXCEPT !.reply = r]
<1>1. locals \in Frames /\ ThreadOK(c, "send", locals)
  BY NoneAssumption DEF Frames, EmptyFrame, ThreadOK
<1>2. pc' = [pc EXCEPT ![c] = "send"] /\ frame' = [frame EXCEPT ![c] = locals]
  BY DEF Respond, Goto
<1>3. "send" \in Labels \ {"append"}
  BY DEF Labels, SendSteps
<1> HIDE DEF locals
<1> QED
  BY <1>1, <1>2, <1>3, MoveKeeps

\* A handler that returns.
LEMMA FinishKeeps ==
  ASSUME IInv, NEW c \in Conns, socket[c] # "new", Finish(c),
         state' \in [Conns -> UserStates], UNCHANGED <<socket, closer, registry>>,
         access \subseteq access', TablesOK'
  PROVE  IInv'
<1>1. EmptyFrame \in Frames /\ ThreadOK(c, "idle", EmptyFrame)
  BY DEF Frames, EmptyFrame, ThreadOK
<1>2. pc' = [pc EXCEPT ![c] = "idle"] /\ frame' = [frame EXCEPT ![c] = EmptyFrame]
  BY DEF Finish, Goto
<1>3. "idle" \in Labels \ {"append"}
  BY DEF Labels
<1> QED
  BY <1>1, <1>2, <1>3, MoveKeeps

\* A handler that an exception leaves, with its connection closed.
LEMMA ThrowKeeps ==
  ASSUME IInv, NEW c \in Conns, socket[c] # "new", Throw(c),
         UNCHANGED registry, access \subseteq access', TablesOK'
  PROVE  IInv'
<1> USE DEF IInv, TablesOK, Throw, CloseSocket, Finish, Goto, At
<1>1. TypeOK'
  BY DEF TypeOK, BaseTypeOK, SenderTypeOK, Labels, Frames, EmptyFrame
<1>2. ThreadsOK'
  BY DEF TypeOK, BaseTypeOK, ThreadsOK, ThreadOK, UserHasAccess, EmptyFrame
<1>3. SocketOK' /\ RegistryLive' /\ RegisteredWasOpened'
  BY DEF TypeOK, BaseTypeOK, SenderTypeOK, SocketOK, RegistryLive, RegisteredWasOpened
<1> QED
  BY <1>1, <1>2, <1>3

\* The tables stay as they are, or a user's session goes.
LEMMA TablesStay == IInv /\ UNCHANGED <<activeTasks, access>> => TablesOK'
  BY DEF IInv, TypeOK, TablesOK, SessionTypeOK, AccessTypeOK, SessionAuthorised,
         AccessChain, UserHasAccess

LEMMA CancelKeepsTables ==
  ASSUME IInv, NEW u \in Users, CancelSession(u), UNCHANGED access
  PROVE  TablesOK'
  BY DEF IInv, TypeOK, TablesOK, SessionTypeOK, AccessTypeOK, SessionAuthorised,
         AccessChain, UserHasAccess, CancelSession

\* A handler under way belongs to a connection that has been opened.
LEMMA UnderWay ==
  ASSUME IInv, NEW c \in Conns, pc[c] # "idle"
  PROVE  socket[c] # "new"
  BY DEF IInv, SocketOK, At

LEMMA UserOfType == \A c \in Conns : UserOf[c] \in Users
  BY BaseAssumption

-----------------------------------------------------------------------------
(* GameHandler *)

LEMMA EstablishKeeps ==
  ASSUME IInv, NEW c \in Conns, Establish(c)
  PROVE  IInv'
<1> USE DEF IInv, Establish, AppendCheck, serviceVars, Goto, At
<1>1. TypeOK'
  BY DEF TypeOK, BaseTypeOK, SenderTypeOK, SessionTypeOK, AccessTypeOK, Labels
<1>2. ThreadsOK'
  BY DEF TypeOK, BaseTypeOK, ThreadsOK, ThreadOK, UserHasAccess
<1>3. SocketOK' /\ RegistryLive' /\ RegisteredWasOpened'
  BY DEF TypeOK, BaseTypeOK, SenderTypeOK, SocketOK, RegistryLive, RegisteredWasOpened
<1> QED
  BY <1>1, <1>2, <1>3, TablesStay DEF TablesOK

LEMMA ClientCloseKeeps ==
  ASSUME IInv, NEW c \in Conns, ClientClose(c)
  PROVE  IInv'
<1> USE DEF IInv, ClientClose, Ready, CloseSocket, serviceVars, At
<1>1. TypeOK'
  BY DEF TypeOK, BaseTypeOK, SenderTypeOK, SessionTypeOK, AccessTypeOK
<1>2. ThreadsOK'
  BY DEF ThreadsOK, ThreadOK, UserHasAccess
<1>3. SocketOK' /\ RegistryLive' /\ RegisteredWasOpened'
  BY DEF TypeOK, BaseTypeOK, SenderTypeOK, SocketOK, RegistryLive, RegisteredWasOpened
<1> QED
  BY <1>1, <1>2, <1>3, TablesStay DEF TablesOK

\* removeSession: the entry that goes need not be that of c, but no entry
\* of c is left.
LEMMA CloserRemoveKeeps ==
  ASSUME IInv, NEW c \in Conns, CloserRemove(c)
  PROVE  IInv'
<1> USE UserOfType DEF IInv, CloserRemove, RemoveSession, serviceVars, At
<1>1. TypeOK'
  BY DEF TypeOK, BaseTypeOK, SenderTypeOK, SessionTypeOK, AccessTypeOK
<1>2. ThreadsOK'
  BY DEF ThreadsOK, ThreadOK, UserHasAccess
<1>3. SocketOK' /\ RegistryLive' /\ RegisteredWasOpened'
  BY DEF TypeOK, BaseTypeOK, SenderTypeOK, SocketOK, RegistryLive, RegisteredWasOpened
<1> QED
  BY <1>1, <1>2, <1>3, TablesStay DEF TablesOK

LEMMA CloserCancelKeeps ==
  ASSUME IInv, NEW c \in Conns, CloserCancel(c)
  PROVE  IInv'
<1> USE DEF IInv, CloserCancel, At
<1>1. TablesOK'
  BY CancelKeepsTables, UserOfType
<1>2. TypeOK'
  BY <1>1 DEF TypeOK, BaseTypeOK, SenderTypeOK, TablesOK
<1>3. ThreadsOK'
  BY DEF ThreadsOK, ThreadOK, UserHasAccess
<1>4. SocketOK' /\ RegistryLive' /\ RegisteredWasOpened'
  BY DEF TypeOK, BaseTypeOK, SenderTypeOK, SocketOK, RegistryLive, RegisteredWasOpened
<1> QED
  BY <1>1, <1>2, <1>3, <1>4 DEF TablesOK

-----------------------------------------------------------------------------
(* WebSocketSender *)

LEMMA AppendPutKeeps ==
  ASSUME IInv, NEW c \in Conns, AppendPut(c), UNCHANGED serviceVars
  PROVE  IInv'
<1> USE UserOfType DEF IInv, AppendPut, Finish, Goto, At, serviceVars
<1>1. TypeOK'
  BY DEF TypeOK, BaseTypeOK, SenderTypeOK, SessionTypeOK, AccessTypeOK, Labels,
         Frames, EmptyFrame
<1>2. ThreadsOK'
  BY DEF TypeOK, BaseTypeOK, ThreadsOK, ThreadOK, UserHasAccess, EmptyFrame
<1>3. SocketOK' /\ RegistryLive' /\ RegisteredWasOpened'
  BY DEF TypeOK, BaseTypeOK, SenderTypeOK, SocketOK, RegistryLive, RegisteredWasOpened
<1> QED
  BY <1>1, <1>2, <1>3, TablesStay DEF TablesOK

\* What follows a send changes the state of c at most, and returns.
LEMMA AfterSendKeeps ==
  ASSUME IInv, NEW c \in Conns, pc[c] # "idle", AfterSend(c),
         UNCHANGED <<socket, closer, registry, serviceVars>>
  PROVE  IInv'
<1>1. state' \in [Conns -> UserStates]
  BY DEF AfterSend, ChangeState, IInv, TypeOK, BaseTypeOK, UserStates
<1>2. Finish(c)
  BY DEF AfterSend
<1> QED
  BY <1>1, <1>2, FinishKeeps, UnderWay, TablesStay DEF serviceVars

LEMMA SendContainsKeeps ==
  ASSUME IInv, NEW c \in Conns, SendContains(c), UNCHANGED serviceVars
  PROVE  IInv'
<1>1. CASE registry[UserOf[c]] = None
  BY <1>1, AfterSendKeeps DEF SendContains, At
<1>2. CASE registry[UserOf[c]] # None
  <2>1. /\ pc' = [pc EXCEPT ![c] = "get"]
        /\ frame[c] \in Frames
        /\ frame' = [frame EXCEPT ![c] = frame[c]]
        /\ state' \in [Conns -> UserStates]
    BY <1>2 DEF SendContains, Goto, IInv, TypeOK, BaseTypeOK
  <2>2. ThreadOK(c, "get", frame[c]) /\ "get" \in Labels \ {"append"}
    BY DEF IInv, ThreadsOK, ThreadOK, Labels, SendSteps
  <2> QED
    BY <2>1, <2>2, MoveKeeps, UnderWay, TablesStay DEF SendContains, At, serviceVars
<1> QED
  BY <1>1, <1>2

LEMMA SendGetKeeps ==
  ASSUME IInv, NEW c \in Conns, SendGet(c), UNCHANGED serviceVars
  PROVE  IInv'
<1> DEFINE d == registry[UserOf[c]]
<1>1. CASE d = None
  BY <1>1, ThrowKeeps, UnderWay, TablesStay DEF SendGet, At, serviceVars
<1>2. CASE d # None
  <2> DEFINE label == IF socket[d] = "open" THEN "write" ELSE "disconnect"
             locals == [frame[c] EXCEPT !.target = d]
  <2>1. pc' = [pc EXCEPT ![c] = label] /\ label \in Labels \ {"append"}
    BY <1>2 DEF SendGet, Goto, Labels, SendSteps
  <2>2. /\ d \in Conns /\ UserOf[d] = UserOf[c]
        /\ frame[c] \in Frames
    BY <1>2, UserOfType DEF IInv, TypeOK, BaseTypeOK, SenderTypeOK, RegistryLive
  <2>3. frame' = [frame EXCEPT ![c] = locals] /\ locals \in Frames
    BY <1>2, <2>2 DEF SendGet, IInv, TypeOK, BaseTypeOK, Frames
  <2>4. ThreadOK(c, label, locals)
    BY <1>2, <2>2 DEF IInv, ThreadsOK, ThreadOK, Frames
  <2>5. state' \in [Conns -> UserStates] /\ UNCHANGED <<socket, closer, registry>>
    BY <1>2 DEF SendGet, IInv, TypeOK, BaseTypeOK
  <2> HIDE DEF label, locals
  <2> QED
    BY <2>1, <2>3, <2>4, <2>5, MoveKeeps, UnderWay, TablesStay DEF SendGet, At, serviceVars
<1> QED
  BY <1>1, <1>2

LEMMA SendWriteKeeps ==
  ASSUME IInv, NEW c \in Conns, SendWrite(c), UNCHANGED serviceVars
  PROVE  IInv'
<1> DEFINE d == frame[c].target
<1>1. CASE socket[d] = "open" /\ AfterSend(c) /\ UNCHANGED <<socket, closer>>
  BY <1>1, AfterSendKeeps DEF SendWrite, At
<1>2. CASE Goto(c, "disconnect") /\ UNCHANGED <<socket, closer, state, frame>>
  <2>1. /\ pc' = [pc EXCEPT ![c] = "disconnect"]
        /\ frame[c] \in Frames
        /\ frame' = [frame EXCEPT ![c] = frame[c]]
        /\ state' \in [Conns -> UserStates]
    BY <1>2 DEF Goto, IInv, TypeOK, BaseTypeOK
  <2>2. ThreadOK(c, "disconnect", frame[c]) /\ "disconnect" \in Labels \ {"append"}
    BY DEF IInv, ThreadsOK, ThreadOK, Labels, SendSteps
  <2> QED
    BY <1>2, <2>1, <2>2, MoveKeeps, UnderWay, TablesStay DEF SendWrite, At, serviceVars
<1>3. CASE Throw(c)
  BY <1>3, ThrowKeeps, UnderWay, TablesStay DEF SendWrite, At, serviceVars
<1> QED
  BY <1>1, <1>2, <1>3 DEF SendWrite

\* The connection closed is the one registered at this moment: it has been
\* opened, and its close callback has not come to the registry yet.
LEMMA HandleDisconnectKeeps ==
  ASSUME IInv, NEW c \in Conns, HandleDisconnect(c), UNCHANGED serviceVars
  PROVE  IInv'
<1> DEFINE d == registry[UserOf[c]]
<1>1. CASE d = None
  BY <1>1, ThrowKeeps, UnderWay, TablesStay DEF HandleDisconnect, At, serviceVars
<1>2. CASE d # None /\ socket[d] # "open"
  <2>1. AfterSend(c)
    BY <1>2 DEF HandleDisconnect
  <2>2. d \in Conns /\ socket[d] = "closed"
    BY <1>2, UserOfType
    DEF IInv, TypeOK, BaseTypeOK, SenderTypeOK, RegistryLive, RegisteredWasOpened
  <2>3. UNCHANGED <<socket, closer, registry>>
    BY <1>2, <2>2 DEF HandleDisconnect, CloseSocket, IInv, TypeOK, BaseTypeOK
  <2> QED
    BY <2>1, <2>3, AfterSendKeeps DEF HandleDisconnect, At
<1>3. CASE d # None /\ socket[d] = "open"
  <2>1. d \in Conns /\ UserOf[d] = UserOf[c] /\ closer[d] = "none" /\ pc[d] # "append"
    BY <1>3, UserOfType
    DEF IInv, TypeOK, SenderTypeOK, RegistryLive, RegisteredWasOpened, SocketOK, At
  <2>2. /\ socket' = [socket EXCEPT ![d] = "closed"]
        /\ closer' = [closer EXCEPT ![d] = "remove"]
        /\ pc' = [pc EXCEPT ![c] = "await"]
        /\ frame' = [frame EXCEPT ![c].target = d]
        /\ UNCHANGED <<state, registry, activeTasks, access>>
        /\ pc[c] = "disconnect"
    BY <1>3 DEF HandleDisconnect, CloseSocket, Goto, At, serviceVars
  <2> HIDE DEF d
  <2>3. TypeOK'
    BY <2>1, <2>2 DEF IInv, TypeOK, BaseTypeOK, SenderTypeOK, SessionTypeOK,
                      AccessTypeOK, Labels, SendSteps, Frames
  <2>4. ThreadsOK'
    BY <2>1, <2>2, NoneAssumption
    DEF IInv, TypeOK, BaseTypeOK, ThreadsOK, ThreadOK, UserHasAccess, Frames
  <2>5. SocketOK' /\ RegistryLive' /\ RegisteredWasOpened'
    BY <2>1, <2>2 DEF IInv, TypeOK, BaseTypeOK, SenderTypeOK, SocketOK, RegistryLive,
                      RegisteredWasOpened, At
  <2> QED
    BY <2>2, <2>3, <2>4, <2>5, TablesStay DEF TablesOK, IInv
<1> QED
  BY <1>1, <1>2, <1>3

LEMMA SendStepKeeps ==
  ASSUME IInv, NEW c \in Conns, SendStep(c), UNCHANGED serviceVars
  PROVE  IInv'
<1>1. CASE CloseReturns(c)
  BY <1>1, AfterSendKeeps DEF CloseReturns, At
<1> QED
  BY <1>1, SendContainsKeeps, SendGetKeeps, SendWriteKeeps, HandleDisconnectKeeps
  DEF SendStep

-----------------------------------------------------------------------------
(* TaskSessionService *)

\* A thread that goes on with the local variables it has.
LEMMA GoOnKeeps ==
  ASSUME IInv, NEW c \in Conns, socket[c] # "new", NEW label \in Labels \ {"append"},
         ThreadOK(c, label, frame[c]), Goto(c, label), UNCHANGED frame,
         UNCHANGED <<socket, closer, state, registry>>,
         access \subseteq access', TablesOK'
  PROVE  IInv'
<1>1. /\ pc' = [pc EXCEPT ![c] = label]
      /\ frame[c] \in Frames
      /\ frame' = [frame EXCEPT ![c] = frame[c]]
      /\ state' \in [Conns -> UserStates]
  BY DEF Goto, IInv, TypeOK, BaseTypeOK
<1> QED
  BY <1>1, MoveKeeps

\* A handler that changes the state and sends a reply.
LEMMA ChangeStateType ==
  ASSUME IInv, NEW c \in Conns, NEW s \in UserStates, ChangeState(c, s)
  PROVE  state' \in [Conns -> UserStates]
  BY DEF ChangeState, IInv, TypeOK, BaseTypeOK

LEMMA StateStays == IInv /\ UNCHANGED state => state' \in [Conns -> UserStates]
  BY DEF IInv, TypeOK, BaseTypeOK

LEMMA StartCheckKeeps ==
  ASSUME IInv, NEW c \in Conns, StartCheck(c), UNCHANGED <<registry, access>>
  PROVE  IInv'
<1>1. TablesOK' /\ socket[c] # "new" /\ state' \in [Conns -> UserStates]
  BY TablesStay, UnderWay, StateStays DEF StartCheck, At
<1>2. CASE Respond(c, "error")
  BY <1>1, <1>2, RespondKeeps DEF StartCheck, Replies
<1>3. CASE Goto(c, "put") /\ UNCHANGED frame
  <2>1. ThreadOK(c, "put", frame[c]) /\ "put" \in Labels \ {"append"}
    BY DEF StartCheck, At, IInv, ThreadsOK, ThreadOK, Labels, TaskSteps
  <2> QED
    BY <1>1, <1>3, <2>1, GoOnKeeps DEF StartCheck
<1> QED
  BY <1>2, <1>3 DEF StartCheck

\* The task of the new session is the one the thread was let through with.
LEMMA StartPutKeeps ==
  ASSUME IInv, NEW c \in Conns, StartPut(c), UNCHANGED <<registry, access>>
  PROVE  IInv'
<1>1. /\ frame[c].arg \in Tasks
      /\ UserHasAccess(UserOf[c], frame[c].arg)
  BY DEF StartPut, At, IInv, ThreadsOK, ThreadOK
<1>2. PICK i \in SessionIds :
        activeTasks' = [activeTasks EXCEPT ![UserOf[c]] =
                          [id |-> i, task |-> frame[c].arg, taken |-> {}]]
  BY DEF StartPut, NewSession, FreeIds
<1>3. [id |-> i, task |-> frame[c].arg, taken |-> {}] \in Sessions
  BY <1>1 DEF Sessions
<1>4. TablesOK'
  BY <1>1, <1>2, <1>3, UserOfType
  DEF StartPut, NewSession, IInv, TypeOK, TablesOK, SessionTypeOK, AccessTypeOK,
      SessionAuthorised, AccessChain, UserHasAccess
<1>5. socket[c] # "new" /\ state' \in [Conns -> UserStates] /\ Respond(c, "task")
  BY UnderWay, StateStays DEF StartPut, At
<1> QED
  BY <1>4, <1>5, RespondKeeps DEF StartPut, Replies

LEMMA ValidateFlagKeeps ==
  ASSUME IInv, NEW c \in Conns, ValidateFlag(c), UNCHANGED <<registry, access>>
  PROVE  IInv'
<1> DEFINE s == activeTasks[UserOf[c]]
<1>1. TablesOK' /\ socket[c] # "new"
  BY TablesStay, UnderWay DEF ValidateFlag, At
<1>2. CASE s = None
  BY <1>1, <1>2, ThrowKeeps DEF ValidateFlag
<1>3. CASE s # None
  <2>1. state' \in [Conns -> UserStates] /\ UNCHANGED <<socket, closer>>
    BY <1>3, StateStays DEF ValidateFlag
  <2>2. CASE Respond(c, "ok")
    BY <1>1, <2>1, <2>2, RespondKeeps DEF Replies
  <2>3. CASE Goto(c, "complete") /\ frame' = [frame EXCEPT ![c].held = s]
    <3> DEFINE locals == [frame[c] EXCEPT !.held = s]
    <3>1. s \in Sessions /\ UserHasAccess(UserOf[c], s.task) /\ frame[c] \in Frames
      BY <1>3, UserOfType
      DEF IInv, TypeOK, BaseTypeOK, SessionTypeOK, SessionAuthorised
    <3>2. locals \in Frames /\ frame' = [frame EXCEPT ![c] = locals]
      BY <2>3, <3>1 DEF Frames, IInv, TypeOK, BaseTypeOK
    <3>3. ThreadOK(c, "complete", locals) /\ "complete" \in Labels \ {"append"}
      BY <3>1 DEF ThreadOK, Frames, Labels, TaskSteps
    <3> HIDE DEF locals
    <3> QED
      BY <1>1, <2>1, <2>3, <3>2, <3>3, MoveKeeps DEF Goto
  <2> QED
    BY <1>3, <2>2, <2>3 DEF ValidateFlag
<1> QED
  BY <1>2, <1>3

LEMMA CompleteCheckKeeps ==
  ASSUME IInv, NEW c \in Conns, CompleteCheck(c), UNCHANGED <<registry, access>>
  PROVE  IInv'
<1>1. TablesOK' /\ socket[c] # "new"
  BY TablesStay, UnderWay DEF CompleteCheck, At
<1>2. CASE UserInActiveSession(UserOf[c])
  <2>1. ThreadOK(c, "fetch", frame[c]) /\ "fetch" \in Labels \ {"append"}
    BY DEF IInv, ThreadsOK, ThreadOK, Labels, TaskSteps
  <2> QED
    BY <1>1, <1>2, <2>1, GoOnKeeps DEF CompleteCheck
<1>3. CASE ~UserInActiveSession(UserOf[c])
  BY <1>1, <1>3, RespondKeeps, ChangeStateType DEF CompleteCheck, UserStates, Replies
<1> QED
  BY <1>2, <1>3

LEMMA CompleteFetchKeeps ==
  ASSUME IInv, NEW c \in Conns, CompleteFetch(c), UNCHANGED <<registry, access>>
  PROVE  IInv'
<1> DEFINE s == activeTasks[UserOf[c]]
           locals == [frame[c] EXCEPT !.held = s]
<1>1. TablesOK' /\ socket[c] # "new" /\ state' \in [Conns -> UserStates]
  BY TablesStay, UnderWay, StateStays DEF CompleteFetch, At
<1>2. s \in Sessions \cup {None} /\ frame[c] \in Frames
  BY UserOfType DEF IInv, TypeOK, BaseTypeOK, SessionTypeOK
<1>3. locals \in Frames /\ frame' = [frame EXCEPT ![c] = locals]
  BY <1>2 DEF CompleteFetch, Frames, IInv, TypeOK, BaseTypeOK
<1>4. ThreadOK(c, "remove", locals) /\ "remove" \in Labels \ {"append"}
  BY <1>2, UserOfType DEF IInv, SessionAuthorised, ThreadOK, Frames, Labels, TaskSteps
<1> HIDE DEF locals
<1> QED
  BY <1>1, <1>3, <1>4, MoveKeeps DEF CompleteFetch, Goto

LEMMA CompleteRemoveKeeps ==
  ASSUME IInv, NEW c \in Conns, CompleteRemove(c), UNCHANGED <<registry, access>>
  PROVE  IInv'
<1> DEFINE s == frame[c].held
<1>1. TablesOK' /\ socket[c] # "new"
  BY CancelKeepsTables, UserOfType, UnderWay DEF CompleteRemove, At
<1>2. CASE s = None
  BY <1>1, <1>2, ThrowKeeps DEF CompleteRemove
<1>3. CASE s # None /\ Unlocks[s.task] = None
  BY <1>1, <1>3, RespondKeeps, ChangeStateType DEF CompleteRemove, UserStates, Replies
<1>4. CASE s # None /\ Unlocks[s.task] # None
  <2>1. ThreadOK(c, "grant", frame[c]) /\ "grant" \in Labels \ {"append"}
    BY <1>4 DEF IInv, ThreadsOK, ThreadOK, Labels, TaskSteps
  <2> QED
    BY <1>1, <1>4, <2>1, GoOnKeeps DEF CompleteRemove
<1> QED
  BY <1>2, <1>3, <1>4

LEMMA TakeHintKeeps ==
  ASSUME IInv, NEW c \in Conns, TakeHint(c), UNCHANGED <<registry, access>>
  PROVE  IInv'
<1> DEFINE u == UserOf[c]
           s == [activeTasks[u] EXCEPT !.taken = @ \cup {frame[c].arg}]
<1>1. TablesOK'
  <2>1. CASE UserInActiveSession(u) /\ activeTasks[u].id = frame[c].held.id
    <3>1. activeTasks' = [activeTasks EXCEPT ![u] = s]
      BY <2>1, UserOfType DEF TakeHint, IInv, TypeOK, SessionTypeOK
    <3>2. frame[c].arg \in Nat /\ activeTasks[u] \in Sessions
      BY <2>1, UserOfType DEF TakeHint, At, UserInActiveSession, IInv, ThreadsOK, ThreadOK,
                              TypeOK, SessionTypeOK
    <3>3. s \in Sessions /\ s.task = activeTasks[u].task
      BY <3>2 DEF Sessions
    <3>4. UserHasAccess(u, s.task)
      BY <2>1, <3>3, UserOfType DEF UserInActiveSession, IInv, SessionAuthorised
    <3> HIDE DEF s
    <3> QED
      BY <3>1, <3>3, <3>4, UserOfType
      DEF IInv, TypeOK, TablesOK, SessionTypeOK, AccessTypeOK, SessionAuthorised,
          AccessChain, UserHasAccess
  <2>2. CASE ~(UserInActiveSession(u) /\ activeTasks[u].id = frame[c].held.id)
    BY <2>2, TablesStay DEF TakeHint
  <2> QED
    BY <2>1, <2>2
<1>2. socket[c] # "new"
  BY UnderWay DEF TakeHint, At
<1>3. CASE Throw(c)
  BY <1>1, <1>2, <1>3, ThrowKeeps
<1>4. CASE Respond(c, "ok") /\ UNCHANGED <<socket, closer, state>>
  BY <1>1, <1>2, <1>4, RespondKeeps, StateStays DEF Replies
<1> QED
  BY <1>3, <1>4 DEF TakeHint

LEMMA SessionStepKeeps ==
  ASSUME IInv, NEW c \in Conns, SessionStep(c), UNCHANGED <<registry, access>>
  PROVE  IInv'
  BY StartCheckKeeps, StartPutKeeps, ValidateFlagKeeps, CompleteCheckKeeps,
     CompleteFetchKeeps, CompleteRemoveKeeps, TakeHintKeeps
  DEF SessionStep

-----------------------------------------------------------------------------
(* TaskAccessService *)

LEMMA SolveDoneKeeps ==
  ASSUME IInv, NEW c \in Conns, socket[c] # "new", SolveDone(c),
         UNCHANGED <<socket, closer, registry>>, access \subseteq access', TablesOK'
  PROVE  IInv'
  BY RespondKeeps, ChangeStateType DEF SolveDone, UserStates, Replies

LEMMA GrantCheckKeeps ==
  ASSUME IInv, NEW c \in Conns, GrantCheck(c), UNCHANGED <<registry, activeTasks>>
  PROVE  IInv'
<1>1. TablesOK' /\ socket[c] # "new"
  BY TablesStay, UnderWay DEF GrantCheck, At
<1>2. CASE Throw(c)
  BY <1>1, <1>2, ThrowKeeps DEF GrantCheck
<1>3. CASE SolveDone(c) /\ UNCHANGED <<socket, closer>>
  BY <1>1, <1>3, SolveDoneKeeps DEF GrantCheck
<1>4. CASE Goto(c, "save") /\ UNCHANGED <<socket, closer, state, frame>>
  <2>1. ThreadOK(c, "save", frame[c]) /\ "save" \in Labels \ {"append"}
    BY DEF GrantCheck, At, IInv, ThreadsOK, ThreadOK, Labels, TaskSteps
  <2> QED
    BY <1>1, <1>4, <2>1, GoOnKeeps DEF GrantCheck
<1> QED
  BY <1>2, <1>3, <1>4 DEF GrantCheck

\* The row that is inserted is unlocked by the task of the session the thread
\* holds, to which the user had access when the session was put.
LEMMA GrantSaveKeeps ==
  ASSUME IInv, NEW c \in Conns, GrantSave(c), UNCHANGED <<registry, activeTasks>>
  PROVE  IInv'
<1>1. socket[c] # "new"
  BY UnderWay DEF GrantSave, At
<1>2. CASE Throw(c) /\ UNCHANGED access
  BY <1>1, <1>2, ThrowKeeps, TablesStay DEF GrantSave
<1>3. ASSUME access' = access \cup {<<UserOf[c], Unlocks[frame[c].held.task]>>},
             SolveDone(c), UNCHANGED <<socket, closer>>
      PROVE  IInv'
  <2> DEFINE s == frame[c].held
             t == Unlocks[s.task]
  <2>1. s \in Sessions /\ t # None /\ UserHasAccess(UserOf[c], s.task)
    BY DEF GrantSave, At, IInv, ThreadsOK, ThreadOK, TypeOK, BaseTypeOK, Frames
  <2>2. s.task \in Tasks /\ t \in TaskIds
    BY <2>1, BaseAssumption DEF Sessions
  <2>3. AccessChain'
    <3> SUFFICES ASSUME NEW u \in Users, NEW x \in TaskIds, <<u, x>> \in access'
                 PROVE  \/ x = FirstTask
                        \/ \E y \in Tasks : UserHasAccess(u, y)' /\ Unlocks[y] = x
      BY DEF AccessChain
    <3>1. CASE <<u, x>> \in access
      BY <1>3, <3>1 DEF IInv, AccessChain, UserHasAccess
    <3>2. CASE u = UserOf[c] /\ x = t
      BY <1>3, <2>1, <2>2, <3>2 DEF UserHasAccess
    <3> QED
      BY <1>3, <3>1, <3>2
  <2>4. SessionTypeOK' /\ AccessTypeOK' /\ SessionAuthorised'
    BY <1>3, <2>2, UserOfType
    DEF IInv, TypeOK, SessionTypeOK, AccessTypeOK, SessionAuthorised, UserHasAccess
  <2> QED
    BY <1>1, <1>3, <2>3, <2>4, SolveDoneKeeps DEF TablesOK
<1> QED
  BY <1>2, <1>3 DEF GrantSave

-----------------------------------------------------------------------------
(* TaskService *)

LEMMA AbortTaskKeeps ==
  ASSUME IInv, NEW c \in Conns, AbortTask(c), UNCHANGED registry
  PROVE  IInv'
<1>1. TablesOK' /\ socket[c] # "new"
  BY CancelKeepsTables, UserOfType, UnderWay DEF AbortTask, At
<1> QED
  BY <1>1, RespondKeeps, ChangeStateType DEF AbortTask, UserStates, Replies

LEMMA TaskStepKeeps ==
  ASSUME IInv, NEW c \in Conns, TaskStep(c), UNCHANGED registry
  PROVE  IInv'
  BY SessionStepKeeps, GrantCheckKeeps, GrantSaveKeeps, AbortTaskKeeps
  DEF TaskStep, GrantStep

\* A message that is answered at once, without a change to the tables.
LEMMA AnswerKeeps ==
  ASSUME IInv, NEW c \in Conns, Ready(c), NEW r \in Replies, Respond(c, r),
         state' \in [Conns -> UserStates],
         UNCHANGED <<socket, closer, registry, serviceVars>>
  PROVE  IInv'
  BY RespondKeeps, TablesStay DEF Ready, serviceVars

LEMMA RespondToTaskKeeps ==
  ASSUME IInv, NEW c \in Conns, Ready(c), RespondToTask(c), UNCHANGED registry
  PROVE  IInv'
<1>1. state' \in [Conns -> UserStates] /\ UNCHANGED <<socket, closer, registry, serviceVars>>
  BY StateStays DEF RespondToTask
<1>2. CASE Respond(c, "error")
  BY <1>1, <1>2, AnswerKeeps DEF Replies
<1>3. ASSUME NEW t \in TaskIds, UserHasAccess(UserOf[c], t), t \in Tasks,
             Goto(c, "start"), frame' = [frame EXCEPT ![c].arg = t]
      PROVE  IInv'
  <2> DEFINE locals == [frame[c] EXCEPT !.arg = t]
  <2>1. locals \in Frames /\ frame' = [frame EXCEPT ![c] = locals]
    BY <1>3 DEF Frames, IInv, TypeOK, BaseTypeOK
  <2>2. ThreadOK(c, "start", locals) /\ "start" \in Labels \ {"append"}
    BY <1>3 DEF IInv, ThreadsOK, TypeOK, BaseTypeOK, ThreadOK, Frames, Labels, TaskSteps
  <2> HIDE DEF locals
  <2> QED
    BY <1>1, <1>3, <2>1, <2>2, MoveKeeps, TablesStay DEF Goto, Ready, serviceVars
<1> QED
  BY <1>2, <1>3 DEF RespondToTask

LEMMA RespondToParseStatusKeeps ==
  ASSUME IInv, NEW c \in Conns, Ready(c), RespondToParseStatus(c), UNCHANGED registry
  PROVE  IInv'
<1>1. CASE Goto(c, "abort") /\ UNCHANGED <<state, frame>>
  <2>1. ThreadOK(c, "abort", frame[c]) /\ "abort" \in Labels \ {"append"}
    BY DEF IInv, ThreadsOK, ThreadOK, Labels, TaskSteps
  <2> QED
    BY <1>1, <2>1, GoOnKeeps, TablesStay DEF RespondToParseStatus, Ready, serviceVars
<1>2. ASSUME NEW r \in Replies, Respond(c, r), state' \in [Conns -> UserStates]
      PROVE  IInv'
  BY <1>2, AnswerKeeps DEF RespondToParseStatus
<1> QED
  BY <1>1, <1>2, StateStays, ChangeStateType
  DEF RespondToParseStatus, UserStates, Replies

LEMMA RespondToCancelTaskKeeps ==
  ASSUME IInv, NEW c \in Conns, RespondToCancelTask(c), UNCHANGED registry
  PROVE  IInv'
<1>1. TablesOK'
  BY CancelKeepsTables, UserOfType DEF RespondToCancelTask
<1>2. TypeOK'
  BY <1>1, ChangeStateType
  DEF RespondToCancelTask, IInv, TypeOK, BaseTypeOK, SenderTypeOK, TablesOK, UserStates
<1>3. ThreadsOK' /\ SocketOK' /\ RegistryLive' /\ RegisteredWasOpened'
  BY DEF RespondToCancelTask, IInv, ThreadsOK, ThreadOK, UserHasAccess, SocketOK,
         RegistryLive, RegisteredWasOpened, At
<1> QED
  BY <1>1, <1>2, <1>3 DEF IInv, TablesOK

LEMMA RespondToValidateFlagKeeps ==
  ASSUME IInv, NEW c \in Conns, Ready(c), RespondToValidateFlag(c), UNCHANGED registry
  PROVE  IInv'
<1>1. CASE Respond(c, "error")
  BY <1>1, AnswerKeeps, StateStays DEF RespondToValidateFlag, Replies
<1>2. CASE Goto(c, "check") /\ UNCHANGED frame
  <2>1. ThreadOK(c, "check", frame[c]) /\ "check" \in Labels \ {"append"}
    BY DEF IInv, ThreadsOK, ThreadOK, Labels, TaskSteps
  <2> QED
    BY <1>2, <2>1, GoOnKeeps, TablesStay DEF RespondToValidateFlag, Ready, serviceVars
<1> QED
  BY <1>1, <1>2 DEF RespondToValidateFlag

LEMMA RespondToGetHintKeeps ==
  ASSUME IInv, NEW c \in Conns, Ready(c), RespondToGetHint(c), UNCHANGED registry
  PROVE  IInv'
<1> DEFINE s == activeTasks[UserOf[c]]
<1>1. UNCHANGED <<access, activeTasks>> /\ TablesOK' /\ socket[c] # "new"
  BY TablesStay DEF RespondToGetHint, RetrieveHint, Ready
<1>2. CASE Throw(c)
  BY <1>1, <1>2, ThrowKeeps
<1>3. ASSUME NEW r \in Replies, Respond(c, r), UNCHANGED <<socket, closer, state>>
      PROVE  IInv'
  BY <1>1, <1>3, RespondKeeps, StateStays
<1>4. ASSUME s # None, NEW index \in HintAsks,
             index - 1 \in (0 .. HintCount[s.task] - 1) \ s.taken,
             Goto(c, "take"), UNCHANGED <<socket, closer, state>>,
             frame' = [frame EXCEPT ![c].held = s, ![c].arg = index - 1]
      PROVE  IInv'
  <2> DEFINE locals == [frame[c] EXCEPT !.held = s, !.arg = index - 1]
  <2>1. s \in Sessions /\ UserHasAccess(UserOf[c], s.task) /\ frame[c] \in Frames
    BY <1>4, UserOfType DEF IInv, TypeOK, BaseTypeOK, SessionTypeOK, SessionAuthorised
  <2>2. s.task \in Tasks /\ HintCount[s.task] \in Nat
    BY <2>1, BaseAssumption DEF Sessions
  <2>3. index - 1 \in Nat
    BY <1>4, <2>2
  <2>4. locals \in Frames
    <3>1. [frame[c] EXCEPT !.held = s] \in Frames
      BY <2>1 DEF Frames
    <3>2. index - 1 \in Int
      BY <2>3
    <3> QED
      BY <3>1, <3>2 DEF Frames
  <2>5. frame' = [frame EXCEPT ![c] = locals]
    BY <1>4, <2>1 DEF IInv, TypeOK, BaseTypeOK, Frames
  <2>6. ThreadOK(c, "take", locals) /\ "take" \in Labels \ {"append"}
    BY <1>4, <2>1, <2>3 DEF ThreadOK, Frames, Labels, TaskSteps
  <2> HIDE DEF locals
  <2> QED
    BY <1>1, <1>4, <2>4, <2>5, <2>6, MoveKeeps, StateStays DEF Goto
<1> QED
  BY <1>2, <1>3, <1>4 DEF RespondToGetHint, RetrieveHint, TaskHints, Replies

-----------------------------------------------------------------------------
(* MessageRouter, and the server as a whole *)

LEMMA HandleMessageKeeps ==
  ASSUME IInv, NEW c \in Conns, HandleMessage(c)
  PROVE  IInv'
<1> USE DEF HandleMessage
<1>1. CASE RespondToTaskInfo(c)
  BY <1>1, AnswerKeeps, StateStays DEF RespondToTaskInfo, Replies
<1>2. CASE HandleInvalidMessageType(c)
  BY <1>2, AnswerKeeps, StateStays DEF HandleInvalidMessageType, Replies
<1>3. CASE RespondToTask(c)
  BY <1>3, RespondToTaskKeeps
<1>4. CASE RespondToParseStatus(c)
  BY <1>4, RespondToParseStatusKeeps
<1>5. CASE RespondToValidateFlag(c)
  BY <1>5, RespondToValidateFlagKeeps
<1>6. CASE RespondToCancelTask(c)
  BY <1>6, RespondToCancelTaskKeeps
<1>7. CASE RespondToGetHint(c)
  BY <1>7, RespondToGetHintKeeps
<1> QED
  BY <1>1, <1>2, <1>3, <1>4, <1>5, <1>6, <1>7
  DEF RouteGameMessage, RouteIdleStateMessage, RouteParseStandbyStateMessage,
      RouteActiveTaskStateMessage

LEMMA HandleMalformedMessageKeeps ==
  ASSUME IInv, NEW c \in Conns, HandleMalformedMessage(c)
  PROVE  IInv'
  BY ThrowKeeps, TablesStay DEF HandleMalformedMessage, Ready, serviceVars

\* Only the table is left after a restart.
LEMMA RestartKeeps ==
  ASSUME IInv, Restart
  PROVE  IInv'
<1> USE BaseAssumption, NoneAssumption DEF IInv, Restart
<1>1. TypeOK'
  BY DEF TypeOK, BaseTypeOK, SenderTypeOK, SessionTypeOK, AccessTypeOK, Labels, Frames,
         EmptyFrame
<1>2. ThreadsOK'
  BY DEF ThreadsOK, ThreadOK, EmptyFrame
<1>3. SocketOK' /\ RegistryLive' /\ RegisteredWasOpened'
  BY DEF SocketOK, RegistryLive, RegisteredWasOpened, At
<1>4. SessionAuthorised' /\ AccessChain'
  BY DEF SessionAuthorised, AccessChain, UserHasAccess
<1> QED
  BY <1>1, <1>2, <1>3, <1>4

LEMMA StutterKeeps == IInv /\ UNCHANGED vars => IInv'
<1> SUFFICES ASSUME IInv, UNCHANGED vars PROVE IInv'
  OBVIOUS
<1> USE DEF IInv, vars, baseVars
<1>1. TypeOK'
  BY DEF TypeOK, BaseTypeOK, SenderTypeOK, SessionTypeOK, AccessTypeOK
<1>2. ThreadsOK' /\ SocketOK' /\ RegistryLive' /\ RegisteredWasOpened'
  BY DEF ThreadsOK, ThreadOK, UserHasAccess, SocketOK, RegistryLive,
         RegisteredWasOpened, At
<1>3. SessionAuthorised' /\ AccessChain'
  BY DEF SessionAuthorised, AccessChain, UserHasAccess
<1> QED
  BY <1>1, <1>2, <1>3

LEMMA NextKeeps == IInv /\ [Next]_vars => IInv'
<1>1. ASSUME IInv, NEW c \in Conns, ThreadStep(c) PROVE IInv'
  BY <1>1, AppendPutKeeps, SendStepKeeps, TaskStepKeeps DEF ThreadStep
<1>2. ASSUME IInv, NEW c \in Conns, ConnStep(c) PROVE IInv'
  BY <1>1, <1>2, EstablishKeeps, ClientCloseKeeps, HandleMessageKeeps,
     HandleMalformedMessageKeeps, CloserRemoveKeeps, CloserCancelKeeps
  DEF ConnStep, CloserStep
<1> QED
  BY <1>2, RestartKeeps, StutterKeeps DEF Next

-----------------------------------------------------------------------------
(* The theorems *)

\* IInv holds in every state the server can reach, for any constants.
THEOREM Inductive == Spec => []IInv
  BY InitIInv, NextKeeps, PTL DEF Spec

\* The threads, the registry, the map and the table hold what they are for.
THEOREM TypeCorrect == Spec => []TypeOK
<1>1. IInv => TypeOK
  BY DEF IInv
<1> QED
  BY <1>1, Inductive, PTL

\* WebSocketSender: no user is registered with a connection whose end has been
\* handled, so nobody is locked out by a dead entry.
THEOREM RegistryIsLive == Spec => []RegistryLive
<1>1. IInv => RegistryLive
  BY DEF IInv
<1> QED
  BY <1>1, Inductive, PTL

\* WebSocketSender: whatever the lookups of send and handleDisconnect find, it
\* is a connection of the user they were called for.
THEOREM RepliesStay == Spec => []RepliesStayWithUser
<1>1. IInv => RepliesStayWithUser
  BY DEF IInv, ThreadsOK, ThreadOK, RepliesStayWithUser
<1> QED
  BY <1>1, Inductive, PTL

\* TaskSessionService: a user's session is of a task the user may play.
THEOREM SessionsAreAuthorised == Spec => []SessionAuthorised
<1>1. IInv => SessionAuthorised
  BY DEF IInv
<1> QED
  BY <1>1, Inductive, PTL

\* TaskAccessService: user_task_access has no row that the chain of tasks does
\* not lead to.
THEOREM AccessFollowsChain == Spec => []AccessChain
<1>1. IInv => AccessChain
  BY DEF IInv
<1> QED
  BY <1>1, Inductive, PTL

-----------------------------------------------------------------------------
(* The states of a player.  A handler changes the state several steps after   *)
(* the router has read it: what the thread still knows of it is invariant.    *)

\* What a thread at a label, sending a reply, knows of the state it was routed in.
Known(label, reply, s) ==
    /\ label \in {"start", "put"} => s = "IDLE"
    /\ label \in SendSteps /\ reply = "task" => s = "IDLE"
    /\ label = "abort" => s = "PARSE_STANDBY"
    /\ label \in TaskSteps \ {"start", "put", "abort"} => s = "ACTIVE_TASK"

StateKnown == \A c \in Conns : Known(pc[c], frame[c].reply, state[c])

Arrow(s, t) == t # s => <<s, t>> \in Diagram

\* What every step keeps.
Documented ==
    /\ StateKnown'
    /\ \A c \in Conns : Arrow(state[c], state'[c])

\* The thread of c goes somewhere, with a reply and a state it knows.
LEMMA MoveDocumented ==
  ASSUME IInv, StateKnown, NEW c \in Conns, NEW label, NEW locals, NEW s,
         pc' = [pc EXCEPT ![c] = label], frame' = [frame EXCEPT ![c] = locals],
         state' = [state EXCEPT ![c] = s],
         Known(label, locals.reply, s), Arrow(state[c], s)
  PROVE  Documented
<1>1. /\ pc'[c] = label /\ frame'[c] = locals /\ state'[c] = s
      /\ \A d \in Conns \ {c} :
           pc'[d] = pc[d] /\ frame'[d] = frame[d] /\ state'[d] = state[d]
  BY DEF IInv, TypeOK, BaseTypeOK
<1>2. \A d \in Conns : Known(pc'[d], frame'[d].reply, state'[d])
  BY <1>1 DEF StateKnown
<1>3. \A d \in Conns : Arrow(state[d], state'[d])
  BY <1>1 DEF Arrow
<1> QED
  BY <1>2, <1>3 DEF Documented, StateKnown

\* The same for the ways a handler moves: it replies, returns, fails or goes on.
LEMMA RespondDocumented ==
  ASSUME IInv, StateKnown, NEW c \in Conns, NEW r, NEW s, Respond(c, r),
         \/ ChangeState(c, s)
         \/ s = state[c] /\ UNCHANGED state,
         r = "task" => s = "IDLE", Arrow(state[c], s)
  PROVE  Documented
<1>1. Known("send", [EmptyFrame EXCEPT !.reply = r].reply, s)
  BY DEF Known, EmptyFrame, SendSteps, TaskSteps
<1>2. state' = [state EXCEPT ![c] = s]
  BY DEF ChangeState, IInv, TypeOK, BaseTypeOK
<1> QED
  BY <1>1, <1>2, MoveDocumented DEF Respond, Goto

LEMMA AnswerDocumented ==
  ASSUME IInv, StateKnown, NEW c \in Conns, NEW r \in {"ok", "error"}, Respond(c, r),
         UNCHANGED state
  PROVE  Documented
  BY RespondDocumented DEF Arrow

LEMMA FinishDocumented ==
  ASSUME IInv, StateKnown, NEW c \in Conns, NEW s, Finish(c),
         \/ ChangeState(c, s)
         \/ s = state[c] /\ UNCHANGED state,
         Arrow(state[c], s)
  PROVE  Documented
<1>1. Known("idle", EmptyFrame.reply, s)
  BY DEF Known, SendSteps, TaskSteps
<1>2. state' = [state EXCEPT ![c] = s]
  BY DEF ChangeState, IInv, TypeOK, BaseTypeOK
<1> QED
  BY <1>1, <1>2, MoveDocumented DEF Finish, Goto

LEMMA ThrowDocumented ==
  ASSUME IInv, StateKnown, NEW c \in Conns, Throw(c)
  PROVE  Documented
  BY FinishDocumented DEF Throw, Arrow

\* Local variables other than the reply do not matter.
LEMMA GoOnDocumented ==
  ASSUME IInv, StateKnown, NEW c \in Conns, NEW label, NEW locals, Goto(c, label),
         frame' = [frame EXCEPT ![c] = locals], UNCHANGED state,
         Known(label, locals.reply, state[c])
  PROVE  Documented
<1>1. state' = [state EXCEPT ![c] = state[c]]
  BY DEF IInv, TypeOK, BaseTypeOK
<1> QED
  BY <1>1, MoveDocumented DEF Goto, Arrow

LEMMA JumpDocumented ==
  ASSUME IInv, StateKnown, NEW c \in Conns, NEW label, Goto(c, label),
         UNCHANGED <<frame, state>>, Known(label, frame[c].reply, state[c])
  PROVE  Documented
<1>1. frame' = [frame EXCEPT ![c] = frame[c]]
  BY DEF IInv, TypeOK, BaseTypeOK
<1> QED
  BY <1>1, GoOnDocumented

LEMMA StayDocumented ==
  ASSUME StateKnown, UNCHANGED <<pc, frame, state>>
  PROVE  Documented
  BY DEF StateKnown, Documented, Arrow

\* What follows a send: only the reply to "task" changes the state, and the
\* state is still the one it was routed in.
LEMMA AfterSendDocumented ==
  ASSUME IInv, StateKnown, NEW c \in Conns, pc[c] \in SendSteps, AfterSend(c)
  PROVE  Documented
<1>1. CASE frame[c].reply = "task"
  <2>1. state[c] = "IDLE"
    BY <1>1 DEF StateKnown, Known
  <2>2. Arrow(state[c], "PARSE_STANDBY")
    BY <2>1 DEF Arrow, Diagram
  <2> QED
    BY <1>1, <2>2, FinishDocumented DEF AfterSend
<1>2. CASE frame[c].reply # "task"
  BY <1>2, FinishDocumented DEF AfterSend, Arrow
<1> QED
  BY <1>1, <1>2

LEMMA SendStepDocumented ==
  ASSUME IInv, StateKnown, NEW c \in Conns, SendStep(c)
  PROVE  Documented
<1>1. pc[c] \in SendSteps
  BY DEF SendStep, SendContains, SendGet, SendWrite, HandleDisconnect, CloseReturns,
         At, SendSteps
<1>2. CASE AfterSend(c)
  BY <1>1, <1>2, AfterSendDocumented
<1>3. CASE Throw(c)
  BY <1>3, ThrowDocumented
<1>4. ASSUME NEW label \in SendSteps, Goto(c, label), UNCHANGED <<state, frame>>
      PROVE  Documented
  <2>1. Known(label, frame[c].reply, state[c])
    BY <1>1 DEF StateKnown, Known, SendSteps, TaskSteps
  <2> QED
    BY <1>4, <2>1, JumpDocumented
<1>5. ASSUME NEW label \in SendSteps, NEW d, Goto(c, label), UNCHANGED state,
             frame' = [frame EXCEPT ![c].target = d]
      PROVE  Documented
  <2> DEFINE locals == [frame[c] EXCEPT !.target = d]
  <2>1. frame' = [frame EXCEPT ![c] = locals] /\ locals.reply = frame[c].reply
    BY <1>5 DEF IInv, TypeOK, BaseTypeOK, Frames
  <2>2. Known(label, locals.reply, state[c])
    BY <1>1, <2>1 DEF StateKnown, Known, SendSteps, TaskSteps
  <2> HIDE DEF locals
  <2> QED
    BY <1>5, <2>1, <2>2, GoOnDocumented
<1>6. "get" \in SendSteps /\ "write" \in SendSteps /\ "disconnect" \in SendSteps
      /\ "await" \in SendSteps
  BY DEF SendSteps
<1>7. CASE SendContains(c)
  BY <1>2, <1>4, <1>6, <1>7 DEF SendContains
<1>8. CASE SendGet(c)
  BY <1>3, <1>5, <1>6, <1>8 DEF SendGet
<1>9. CASE SendWrite(c)
  BY <1>2, <1>3, <1>4, <1>6, <1>9 DEF SendWrite
<1>10. CASE HandleDisconnect(c)
  BY <1>2, <1>3, <1>5, <1>6, <1>10 DEF HandleDisconnect
<1> QED
  BY <1>2, <1>7, <1>8, <1>9, <1>10 DEF SendStep, CloseReturns

\* The steps of a task's handlers.
LEMMA SolveDocumented ==
  ASSUME IInv, StateKnown, NEW c \in Conns,
         pc[c] \in {"complete", "remove", "grant", "save"},
         ChangeState(c, "IDLE"), Respond(c, "ok")
  PROVE  Documented
<1>1. Arrow(state[c], "IDLE")
  BY DEF StateKnown, Known, TaskSteps, Arrow, Diagram
<1> QED
  BY <1>1, RespondDocumented

LEMMA PlayingDocumented ==
  ASSUME IInv, StateKnown, NEW c \in Conns,
         NEW label \in TaskSteps \ {"start", "put", "abort"}, Goto(c, label),
         NEW locals, frame' = [frame EXCEPT ![c] = locals], UNCHANGED state,
         state[c] = "ACTIVE_TASK"
  PROVE  Documented
<1>1. Known(label, locals.reply, state[c])
  BY DEF Known, SendSteps, TaskSteps
<1> QED
  BY <1>1, GoOnDocumented

LEMMA PlayingOnDocumented ==
  ASSUME IInv, StateKnown, NEW c \in Conns,
         NEW label \in TaskSteps \ {"start", "put", "abort"}, Goto(c, label),
         UNCHANGED <<frame, state>>, state[c] = "ACTIVE_TASK"
  PROVE  Documented
<1>1. Known(label, frame[c].reply, state[c])
  BY DEF Known, SendSteps, TaskSteps
<1> QED
  BY <1>1, JumpDocumented

LEMMA SessionStepDocumented ==
  ASSUME IInv, StateKnown, NEW c \in Conns, SessionStep(c)
  PROVE  Documented
<1>1. CASE StartCheck(c)
  <2>1. state[c] = "IDLE"
    BY <1>1 DEF StartCheck, At, StateKnown, Known
  <2>2. Known("put", frame[c].reply, state[c])
    BY <2>1 DEF Known, SendSteps, TaskSteps
  <2> QED
    BY <1>1, <2>2, AnswerDocumented, JumpDocumented DEF StartCheck
<1>2. CASE StartPut(c)
  <2>1. state[c] = "IDLE"
    BY <1>2 DEF StartPut, At, StateKnown, Known
  <2> QED
    BY <1>2, <2>1, RespondDocumented DEF StartPut, Arrow
<1>3. ASSUME pc[c] \in {"check", "complete", "fetch", "remove", "take"}
      PROVE  state[c] = "ACTIVE_TASK"
  BY <1>3 DEF StateKnown, Known, TaskSteps
<1>4. /\ "complete" \in TaskSteps \ {"start", "put", "abort"}
      /\ "fetch" \in TaskSteps \ {"start", "put", "abort"}
      /\ "remove" \in TaskSteps \ {"start", "put", "abort"}
      /\ "grant" \in TaskSteps \ {"start", "put", "abort"}
  BY DEF TaskSteps
<1>5. ASSUME NEW s, frame' = [frame EXCEPT ![c].held = s]
      PROVE  frame' = [frame EXCEPT ![c] = [frame[c] EXCEPT !.held = s]]
  BY <1>5 DEF IInv, TypeOK, BaseTypeOK
<1>6. CASE ValidateFlag(c)
  <2>1. CASE Throw(c)
    BY <2>1, ThrowDocumented
  <2>2. CASE Respond(c, "ok") /\ UNCHANGED state
    BY <2>2, AnswerDocumented
  <2>3. ASSUME Goto(c, "complete"), UNCHANGED state,
               frame' = [frame EXCEPT ![c].held = activeTasks[UserOf[c]]]
        PROVE  Documented
    BY <1>3, <1>4, <1>5, <1>6, <2>3, PlayingDocumented DEF ValidateFlag, At
  <2> QED
    BY <1>6, <2>1, <2>2, <2>3 DEF ValidateFlag
<1>7. CASE CompleteCheck(c)
  BY <1>3, <1>4, <1>7, PlayingOnDocumented, SolveDocumented DEF CompleteCheck, At
<1>8. CASE CompleteFetch(c)
  BY <1>3, <1>4, <1>5, <1>8, PlayingDocumented DEF CompleteFetch, At
<1>9. CASE CompleteRemove(c)
  <2>1. CASE Throw(c)
    BY <2>1, ThrowDocumented
  <2>2. CASE ChangeState(c, "IDLE") /\ Respond(c, "ok")
    BY <1>9, <2>2, SolveDocumented DEF CompleteRemove, At
  <2>3. CASE Goto(c, "grant") /\ UNCHANGED <<state, frame>>
    BY <1>3, <1>4, <1>9, <2>3, PlayingOnDocumented DEF CompleteRemove, At
  <2> QED
    BY <1>9, <2>1, <2>2, <2>3 DEF CompleteRemove
<1>10. CASE TakeHint(c)
  BY <1>10, ThrowDocumented, AnswerDocumented DEF TakeHint
<1> QED
  BY <1>1, <1>2, <1>6, <1>7, <1>8, <1>9, <1>10 DEF SessionStep

LEMMA TaskStepDocumented ==
  ASSUME IInv, StateKnown, NEW c \in Conns, TaskStep(c)
  PROVE  Documented
<1>1. CASE GrantCheck(c)
  <2>1. state[c] = "ACTIVE_TASK" /\ "save" \in TaskSteps \ {"start", "put", "abort"}
    BY <1>1 DEF GrantCheck, At, StateKnown, Known, TaskSteps
  <2> QED
    BY <1>1, <2>1, ThrowDocumented, SolveDocumented, PlayingOnDocumented
    DEF GrantCheck, At, SolveDone
<1>2. CASE GrantSave(c)
  BY <1>2, ThrowDocumented, SolveDocumented DEF GrantSave, At, SolveDone
<1>3. CASE AbortTask(c)
  <2>1. Arrow(state[c], "IDLE")
    BY <1>3 DEF AbortTask, At, StateKnown, Known, Arrow, Diagram
  <2> QED
    BY <1>3, <2>1, RespondDocumented DEF AbortTask
<1> QED
  BY <1>1, <1>2, <1>3, SessionStepDocumented DEF TaskStep, GrantStep

\* The router: every handler begins in the state it belongs to.
LEMMA RespondToTaskDocumented ==
  ASSUME IInv, StateKnown, NEW c \in Conns, state[c] = "IDLE", RespondToTask(c)
  PROVE  Documented
<1>1. CASE Respond(c, "error")
  BY <1>1, AnswerDocumented DEF RespondToTask
<1>2. ASSUME NEW t \in TaskIds, Goto(c, "start"), frame' = [frame EXCEPT ![c].arg = t]
      PROVE  Documented
  <2> DEFINE locals == [frame[c] EXCEPT !.arg = t]
  <2>1. frame' = [frame EXCEPT ![c] = locals]
    BY <1>2 DEF IInv, TypeOK, BaseTypeOK
  <2>2. Known("start", locals.reply, state[c])
    BY DEF Known, SendSteps, TaskSteps
  <2> HIDE DEF locals
  <2> QED
    BY <1>2, <2>1, <2>2, GoOnDocumented DEF RespondToTask
<1> QED
  BY <1>1, <1>2 DEF RespondToTask

LEMMA RespondToParseStatusDocumented ==
  ASSUME IInv, StateKnown, NEW c \in Conns, state[c] = "PARSE_STANDBY",
         RespondToParseStatus(c)
  PROVE  Documented
<1>1. Arrow(state[c], "IDLE") /\ Arrow(state[c], "ACTIVE_TASK")
  BY DEF Arrow, Diagram
<1>2. Known("abort", frame[c].reply, state[c])
  BY DEF Known, SendSteps, TaskSteps
<1> QED
  BY <1>1, <1>2, AnswerDocumented, RespondDocumented, JumpDocumented
  DEF RespondToParseStatus

LEMMA PlayingMessageDocumented ==
  ASSUME IInv, StateKnown, NEW c \in Conns, state[c] = "ACTIVE_TASK", Ready(c),
         RouteActiveTaskStateMessage(c)
  PROVE  Documented
<1>1. "check" \in TaskSteps \ {"start", "put", "abort"}
      /\ "take" \in TaskSteps \ {"start", "put", "abort"}
  BY DEF TaskSteps
<1>2. CASE RespondToValidateFlag(c)
  BY <1>1, <1>2, AnswerDocumented, PlayingOnDocumented DEF RespondToValidateFlag
<1>3. CASE RespondToCancelTask(c)
  <2>1. state' = [state EXCEPT ![c] = "IDLE"] /\ Arrow(state[c], "IDLE")
    BY <1>3 DEF RespondToCancelTask, ChangeState, Arrow, Diagram
  <2>2. /\ pc' = [pc EXCEPT ![c] = pc[c]]
        /\ frame' = [frame EXCEPT ![c] = frame[c]]
    BY <1>3 DEF RespondToCancelTask, IInv, TypeOK, BaseTypeOK
  <2>3. Known(pc[c], frame[c].reply, "IDLE")
    BY DEF Ready, At, Known, SendSteps, TaskSteps
  <2> QED
    BY <2>1, <2>2, <2>3, MoveDocumented
<1>4. CASE RespondToGetHint(c)
  <2>1. CASE Respond(c, "error") /\ UNCHANGED state
    BY <2>1, AnswerDocumented
  <2>2. CASE Throw(c)
    BY <2>2, ThrowDocumented
  <2>3. ASSUME NEW s, NEW index, Goto(c, "take"), UNCHANGED state,
               frame' = [frame EXCEPT ![c].held = s, ![c].arg = index - 1]
        PROVE  Documented
    <3> DEFINE locals == [frame[c] EXCEPT !.held = s, !.arg = index - 1]
    <3>1. frame' = [frame EXCEPT ![c] = locals]
      BY <2>3 DEF IInv, TypeOK, BaseTypeOK
    <3> HIDE DEF locals
    <3> QED
      BY <1>1, <2>3, <3>1, PlayingDocumented
  <2> QED
    BY <1>4, <2>1, <2>2, <2>3 DEF RespondToGetHint, RetrieveHint
<1> QED
  BY <1>2, <1>3, <1>4 DEF RouteActiveTaskStateMessage

LEMMA HandleMessageDocumented ==
  ASSUME IInv, StateKnown, NEW c \in Conns, HandleMessage(c)
  PROVE  Documented
<1>1. CASE HandleInvalidMessageType(c)
  BY <1>1, AnswerDocumented DEF HandleInvalidMessageType
<1>2. CASE RespondToTaskInfo(c)
  BY <1>2, AnswerDocumented DEF RespondToTaskInfo
<1> QED
  BY <1>1, <1>2, RespondToTaskDocumented, RespondToParseStatusDocumented,
     PlayingMessageDocumented
  DEF HandleMessage, RouteGameMessage, RouteIdleStateMessage, RouteParseStandbyStateMessage

LEMMA EstablishDocumented ==
  ASSUME IInv, StateKnown, NEW c \in Conns, Establish(c)
  PROVE  Documented
<1>1. Known("append", frame[c].reply, state[c])
  BY DEF Known, SendSteps, TaskSteps
<1> QED
  BY <1>1, JumpDocumented, StayDocumented DEF Establish, AppendCheck

LEMMA RestartDocumented ==
  ASSUME IInv, StateKnown, Restart
  PROVE  Documented
<1>1. StateKnown'
  BY DEF Restart, StateKnown, Known, SendSteps, TaskSteps
<1> QED
  BY <1>1 DEF Documented, Arrow, Restart

LEMMA NextDocumented == IInv /\ StateKnown /\ [Next]_vars => Documented
<1> SUFFICES ASSUME IInv, StateKnown, [Next]_vars PROVE Documented
  OBVIOUS
<1>1. ASSUME NEW c \in Conns, ThreadStep(c) PROVE Documented
  <2>1. CASE AppendPut(c)
    BY <2>1, FinishDocumented DEF AppendPut, Arrow
  <2> QED
    BY <1>1, <2>1, SendStepDocumented, TaskStepDocumented DEF ThreadStep
<1>2. ASSUME NEW c \in Conns, ClientClose(c) \/ CloserStep(c) PROVE Documented
  BY <1>2, StayDocumented DEF ClientClose, CloserStep, CloserRemove, CloserCancel
<1>3. ASSUME NEW c \in Conns, HandleMalformedMessage(c) PROVE Documented
  BY <1>3, ThrowDocumented DEF HandleMalformedMessage
<1>4. CASE UNCHANGED vars
  BY <1>4, StayDocumented DEF vars, baseVars
<1> QED
  BY <1>1, <1>2, <1>3, <1>4, EstablishDocumented, HandleMessageDocumented,
     RestartDocumented
  DEF Next, ConnStep

\* MessageRouter and UserSession: the state only follows the arrows of the
\* documentation, although it is changed long after the router has read it.
THEOREM StatesFollowDiagram == Spec => DocumentedTransitions
<1>1. Init => StateKnown
  BY DEF Init, BaseInit, StateKnown, Known, SendSteps, TaskSteps
<1>2. IInv /\ StateKnown /\ [Next]_vars => StateKnown'
  BY NextDocumented DEF Documented
<1>3. IInv /\ StateKnown /\ [Next]_vars
        => [\A c \in Conns : state'[c] # state[c] => <<state[c], state'[c]>> \in Diagram]_vars
  BY NextDocumented DEF Documented, Arrow
<1> QED
  BY <1>1, <1>2, <1>3, Inductive, PTL DEF Spec, DocumentedTransitions

-----------------------------------------------------------------------------
(* The hints of a session.  A thread may hold a session that has left the     *)
(* map, but identities are not reused while it does.                          *)

\* What a thread with these local variables knows of the hints, when its user
\* has this session in the map.
HintsKnown(label, locals, session) ==
    /\ label = "take" => locals.arg \in TaskHints(locals.held.task)
    /\ session # None /\ locals.held # None /\ session.id = locals.held.id
         => session.task = locals.held.task

HintInv ==
    /\ HintsOfOwnTask
    /\ \A c \in Conns : HintsKnown(pc[c], frame[c], activeTasks[UserOf[c]])

\* No session is new, and none is written to.
SessionsAtMostEnd == \A u \in Users : activeTasks'[u] \in {activeTasks[u], None}

\* Only the thread of c moves, and what it holds is known from before.
HoldsKnown(c) ==
    /\ \A d \in Conns : pc'[d] # pc[d] \/ frame'[d] # frame[d] => d = c
    /\ pc'[c] = "take" => UNCHANGED <<pc, frame>>
    /\ frame'[c].held \in {None, frame[c].held, activeTasks[UserOf[c]]}

LEMMA HintsStay ==
  ASSUME HintInv, NEW c \in Conns, HoldsKnown(c), SessionsAtMostEnd
  PROVE  HintInv'
<1>1. HintsOfOwnTask'
  BY DEF HintInv, HintsOfOwnTask, SessionsAtMostEnd
<1>2. ASSUME NEW d \in Conns
      PROVE  HintsKnown(pc[d], frame[d], activeTasks[UserOf[d]])'
  <2>1. activeTasks'[UserOf[d]] \in {activeTasks[UserOf[d]], None}
    BY UserOfType DEF SessionsAtMostEnd
  <2>2. HintsKnown(pc[d], frame[d], activeTasks[UserOf[d]])
    BY DEF HintInv
  <2>3. CASE pc'[d] = pc[d] /\ frame'[d] = frame[d]
    BY <2>1, <2>2, <2>3 DEF HintsKnown
  <2>4. CASE ~(pc'[d] = pc[d] /\ frame'[d] = frame[d])
    BY <2>1, <2>2, <2>4 DEF HintsKnown, HoldsKnown
  <2> QED
    BY <2>3, <2>4
<1> QED
  BY <1>1, <1>2 DEF HintInv

\* The ways of MoveKeeps and the lemmas after it: what the thread holds is not
\* another session than before.
LEMMA WaysHold ==
  ASSUME IInv, NEW c \in Conns
  PROVE  /\ \A r : Respond(c, r) => HoldsKnown(c)
         /\ Finish(c) => HoldsKnown(c)
         /\ \A label : label # "take" /\ Goto(c, label) /\ UNCHANGED frame => HoldsKnown(c)
         /\ UNCHANGED <<pc, frame>> => HoldsKnown(c)
<1>1. ASSUME NEW r, Respond(c, r) PROVE HoldsKnown(c)
  <2> DEFINE locals == [EmptyFrame EXCEPT !.reply = r]
  <2>1. locals.held \in {None, frame[c].held, activeTasks[UserOf[c]]}
    BY DEF EmptyFrame
  <2>2. pc' = [pc EXCEPT ![c] = "send"] /\ frame' = [frame EXCEPT ![c] = locals]
    BY <1>1 DEF Respond, Goto
  <2> HIDE DEF locals
  <2> QED
    BY <2>1, <2>2 DEF HoldsKnown, IInv, TypeOK, BaseTypeOK
<1>2. ASSUME Finish(c) PROVE HoldsKnown(c)
  <2>1. pc' = [pc EXCEPT ![c] = "idle"] /\ frame' = [frame EXCEPT ![c] = EmptyFrame]
    BY <1>2 DEF Finish, Goto
  <2>2. EmptyFrame.held \in {None, frame[c].held, activeTasks[UserOf[c]]}
    BY DEF EmptyFrame
  <2> QED
    BY <2>1, <2>2 DEF HoldsKnown, IInv, TypeOK, BaseTypeOK
<1>3. ASSUME NEW label, label # "take", Goto(c, label), UNCHANGED frame
      PROVE  HoldsKnown(c)
  BY <1>3 DEF Goto, HoldsKnown, IInv, TypeOK, BaseTypeOK
<1>4. UNCHANGED <<pc, frame>> => HoldsKnown(c)
  BY DEF HoldsKnown
<1> QED
  BY <1>1, <1>2, <1>3, <1>4

\* The steps outside the tasks leave the hints alone.
LEMMA SendStepHolds ==
  ASSUME IInv, NEW c \in Conns, SendStep(c)
  PROVE  HoldsKnown(c)
<1>1. AfterSend(c) \/ Throw(c) => HoldsKnown(c)
  BY WaysHold DEF AfterSend, Throw
<1>2. SendContains(c) => HoldsKnown(c)
  BY <1>1, WaysHold DEF SendContains
<1>3. SendWrite(c) \/ CloseReturns(c) => HoldsKnown(c)
  BY <1>1, WaysHold DEF SendWrite, CloseReturns
<1>4. ASSUME NEW d, NEW label, label # "take", Goto(c, label),
             frame' = [frame EXCEPT ![c].target = d]
      PROVE  HoldsKnown(c)
  <2> DEFINE locals == [frame[c] EXCEPT !.target = d]
  <2>1. frame[c] \in Frames
    BY DEF IInv, TypeOK, BaseTypeOK
  <2>2. locals.held \in {None, frame[c].held, activeTasks[UserOf[c]]}
    BY <2>1 DEF Frames
  <2>3. pc' = [pc EXCEPT ![c] = label] /\ frame' = [frame EXCEPT ![c] = locals]
    BY <1>4 DEF Goto
  <2> HIDE DEF locals
  <2> QED
    BY <1>4, <2>2, <2>3 DEF HoldsKnown, IInv, TypeOK, BaseTypeOK
<1>5. SendGet(c) \/ HandleDisconnect(c) => HoldsKnown(c)
  BY <1>1, <1>4 DEF SendGet, HandleDisconnect
<1> QED
  BY <1>2, <1>3, <1>5 DEF SendStep

LEMMA OutsideTasksHint ==
  ASSUME IInv, HintInv, NEW c \in Conns,
         \/ Establish(c) \/ ClientClose(c) \/ HandleMalformedMessage(c)
         \/ AppendPut(c) /\ UNCHANGED serviceVars
         \/ SendStep(c) /\ UNCHANGED serviceVars
         \/ CloserStep(c)
  PROVE  HintInv'
<1>1. HoldsKnown(c)
  BY WaysHold, SendStepHolds
  DEF Establish, AppendCheck, ClientClose, HandleMalformedMessage, Throw, AppendPut,
      CloserStep, CloserRemove, CloserCancel
<1>2. SessionsAtMostEnd
  BY DEF SessionsAtMostEnd, Establish, ClientClose, HandleMalformedMessage, CloserStep,
         CloserRemove, CloserCancel, CancelSession, serviceVars, IInv, TypeOK,
         SessionTypeOK
<1> QED
  BY <1>1, <1>2, HintsStay

\* A new session is told apart from those that threads still hold.
LEMMA StartPutHint ==
  ASSUME IInv, HintInv, NEW c \in Conns, StartPut(c)
  PROVE  HintInv'
<1>1. PICK i \in FreeIds :
        activeTasks' = [activeTasks EXCEPT ![UserOf[c]] = NewSession(i, frame[c].arg)]
  BY DEF StartPut
<1> DEFINE new == NewSession(i, frame[c].arg)
<1>2. /\ new.id = i /\ new.taken = {}
      /\ \A d \in Conns : frame[d].held # None => frame[d].held.id # i
  BY <1>1 DEF NewSession, FreeIds
<1> HIDE DEF new
<1>3. \A u \in Users : activeTasks'[u] = IF u = UserOf[c] THEN new ELSE activeTasks[u]
  BY <1>1 DEF IInv, TypeOK, SessionTypeOK, new
<1>4. HintsOfOwnTask'
  BY <1>2, <1>3 DEF HintInv, HintsOfOwnTask
<1>5. HoldsKnown(c) /\ pc'[c] = "send" /\ frame'[c].held = None
  BY WaysHold DEF StartPut, Respond, Goto, EmptyFrame, IInv, TypeOK, BaseTypeOK
<1>6. ASSUME NEW d \in Conns
      PROVE  HintsKnown(pc[d], frame[d], activeTasks[UserOf[d]])'
  <2>1. HintsKnown(pc[d], frame[d], activeTasks[UserOf[d]])
    BY DEF HintInv
  <2>2. CASE d = c
    BY <1>5, <2>2 DEF HintsKnown
  <2>3. CASE d # c
    <3>1. pc'[d] = pc[d] /\ frame'[d] = frame[d]
      BY <1>5, <2>3 DEF HoldsKnown
    <3> QED
      BY <1>2, <1>3, <2>1, <3>1, UserOfType DEF HintsKnown
  <2> QED
    BY <2>2, <2>3
<1> QED
  BY <1>4, <1>6 DEF HintInv

\* A hint is marked where it was found, or nowhere.
LEMMA TakeHintHint ==
  ASSUME IInv, HintInv, NEW c \in Conns, TakeHint(c)
  PROVE  HintInv'
<1> DEFINE u == UserOf[c]
           s == [activeTasks[u] EXCEPT !.taken = @ \cup {frame[c].arg}]
<1>1. HoldsKnown(c)
  BY WaysHold DEF TakeHint, Throw
<1>2. CASE ~(UserInActiveSession(u) /\ activeTasks[u].id = frame[c].held.id)
  BY <1>1, <1>2, HintsStay DEF TakeHint, SessionsAtMostEnd
<1>3. CASE UserInActiveSession(u) /\ activeTasks[u].id = frame[c].held.id
  <2>1. activeTasks' = [activeTasks EXCEPT ![u] = s]
    BY <1>3, UserOfType DEF TakeHint, IInv, TypeOK, SessionTypeOK
  <2>2. activeTasks[u] \in Sessions
    BY <1>3, UserOfType DEF UserInActiveSession, IInv, TypeOK, SessionTypeOK
  <2>3. /\ s.taken = activeTasks[u].taken \cup {frame[c].arg}
        /\ s.task = activeTasks[u].task /\ s.id = activeTasks[u].id
    BY <2>2 DEF Sessions
  <2>4. frame[c].held # None
    BY DEF TakeHint, At, IInv, ThreadsOK, ThreadOK
  <2>5. frame[c].arg \in TaskHints(s.task)
    BY <1>3, <2>3, <2>4 DEF TakeHint, At, UserInActiveSession, HintInv, HintsKnown
  <2> HIDE DEF s
  <2>6. \A v \in Users : activeTasks'[v] = IF v = u THEN s ELSE activeTasks[v]
    BY <2>1 DEF IInv, TypeOK, SessionTypeOK
  <2>7. HintsOfOwnTask'
    BY <1>3, <2>3, <2>5, <2>6, UserOfType
    DEF UserInActiveSession, HintInv, HintsOfOwnTask
  <2>8. pc'[c] # "take" /\ frame'[c].held = None
    BY DEF TakeHint, Respond, Throw, Finish, Goto, EmptyFrame, IInv, TypeOK, BaseTypeOK
  <2>9. ASSUME NEW d \in Conns
        PROVE  HintsKnown(pc[d], frame[d], activeTasks[UserOf[d]])'
    <3>1. HintsKnown(pc[d], frame[d], activeTasks[UserOf[d]])
      BY DEF HintInv
    <3>2. CASE d = c
      BY <2>8, <3>2 DEF HintsKnown
    <3>3. CASE d # c
      <4>1. pc'[d] = pc[d] /\ frame'[d] = frame[d]
        BY <1>1, <3>3 DEF HoldsKnown
      <4> QED
        BY <1>3, <2>3, <2>6, <3>1, <4>1, UserOfType DEF HintsKnown, UserInActiveSession
    <3> QED
      BY <3>2, <3>3
  <2> QED
    BY <2>7, <2>9 DEF HintInv
<1> QED
  BY <1>2, <1>3

\* What a thread finds in the map is the session there.
LEMMA FindingHolds ==
  ASSUME IInv, NEW c \in Conns, NEW label, label # "take", Goto(c, label),
         frame' = [frame EXCEPT ![c].held = activeTasks[UserOf[c]]]
  PROVE  HoldsKnown(c)
<1> DEFINE locals == [frame[c] EXCEPT !.held = activeTasks[UserOf[c]]]
<1>1. frame[c] \in Frames
  BY DEF IInv, TypeOK, BaseTypeOK
<1>2. locals.held \in {None, frame[c].held, activeTasks[UserOf[c]]}
  BY <1>1 DEF Frames
<1>3. pc' = [pc EXCEPT ![c] = label] /\ frame' = [frame EXCEPT ![c] = locals]
  BY DEF Goto
<1> HIDE DEF locals
<1> QED
  BY <1>2, <1>3 DEF HoldsKnown, IInv, TypeOK, BaseTypeOK

LEMMA TaskStepHint ==
  ASSUME IInv, HintInv, NEW c \in Conns, TaskStep(c)
  PROVE  HintInv'
<1>1. CASE \/ StartCheck(c) \/ ValidateFlag(c) \/ CompleteCheck(c) \/ CompleteFetch(c)
           \/ CompleteRemove(c) \/ AbortTask(c)
           \/ GrantStep(c) /\ UNCHANGED activeTasks
  <2>1. HoldsKnown(c)
    BY <1>1, WaysHold, FindingHolds
    DEF StartCheck, ValidateFlag, CompleteCheck, CompleteFetch, CompleteRemove,
        AbortTask, GrantStep, GrantCheck, GrantSave, SolveDone, Throw
  <2>2. SessionsAtMostEnd
    BY <1>1
    DEF SessionsAtMostEnd, StartCheck, ValidateFlag, CompleteCheck, CompleteFetch,
        CompleteRemove, AbortTask, CancelSession, IInv, TypeOK, SessionTypeOK
  <2> QED
    BY <2>1, <2>2, HintsStay
<1>2. StartPut(c) => HintInv'
  BY StartPutHint
<1>3. TakeHint(c) => HintInv'
  BY TakeHintHint
<1> QED
  BY <1>1, <1>2, <1>3 DEF TaskStep, SessionStep

\* retrieveHint looks among the hints of the session it found.
LEMMA RetrieveHintHint ==
  ASSUME IInv, HintInv, NEW c \in Conns, RespondToGetHint(c)
  PROVE  HintInv'
<1> DEFINE s == activeTasks[UserOf[c]]
<1>1. UNCHANGED activeTasks
  BY DEF RespondToGetHint, RetrieveHint
<1>2. CASE Throw(c) \/ \E r : Respond(c, r)
  BY <1>1, <1>2, WaysHold, HintsStay DEF SessionsAtMostEnd, Throw
<1>3. ASSUME NEW index \in HintAsks, index - 1 \in TaskHints(s.task) \ s.taken,
             Goto(c, "take"), frame' = [frame EXCEPT ![c].held = s, ![c].arg = index - 1]
      PROVE  HintInv'
  <2> DEFINE locals == [frame[c] EXCEPT !.held = s, !.arg = index - 1]
  <2>1. frame[c] \in Frames
    BY DEF IInv, TypeOK, BaseTypeOK
  <2>2. locals.held = s /\ locals.arg = index - 1
    BY <2>1 DEF Frames
  <2>3. frame' = [frame EXCEPT ![c] = locals]
    BY <1>3, <2>1 DEF IInv, TypeOK, BaseTypeOK, Frames
  <2> HIDE DEF locals
  <2>4. ASSUME NEW d \in Conns
        PROVE  HintsKnown(pc[d], frame[d], activeTasks[UserOf[d]])'
    <3>1. HintsKnown(pc[d], frame[d], activeTasks[UserOf[d]])
      BY DEF HintInv
    <3>2. CASE d = c
      <4>1. frame'[c] = locals
        BY <2>3 DEF IInv, TypeOK, BaseTypeOK
      <4> QED
        BY <1>1, <1>3, <2>2, <3>2, <4>1 DEF HintsKnown
    <3>3. CASE d # c
      BY <1>1, <1>3, <2>3, <3>1, <3>3 DEF HintsKnown, Goto, IInv, TypeOK, BaseTypeOK
    <3> QED
      BY <3>2, <3>3
  <2> QED
    BY <1>1, <2>4 DEF HintInv, HintsOfOwnTask
<1> QED
  BY <1>2, <1>3 DEF RespondToGetHint, RetrieveHint

LEMMA HandleMessageHint ==
  ASSUME IInv, HintInv, NEW c \in Conns, HandleMessage(c)
  PROVE  HintInv'
<1>1. ASSUME NEW t, Goto(c, "start"), frame' = [frame EXCEPT ![c].arg = t]
      PROVE  HoldsKnown(c)
  <2> DEFINE locals == [frame[c] EXCEPT !.arg = t]
  <2>1. frame[c] \in Frames
    BY DEF IInv, TypeOK, BaseTypeOK
  <2>2. locals.held \in {None, frame[c].held, activeTasks[UserOf[c]]}
    BY <2>1 DEF Frames
  <2>3. pc' = [pc EXCEPT ![c] = "start"] /\ frame' = [frame EXCEPT ![c] = locals]
    BY <1>1 DEF Goto
  <2> HIDE DEF locals
  <2> QED
    BY <2>2, <2>3 DEF HoldsKnown, IInv, TypeOK, BaseTypeOK
<1>2. CASE RespondToTaskInfo(c) \/ RespondToTask(c) \/ RespondToParseStatus(c)
             \/ RespondToValidateFlag(c) \/ RespondToCancelTask(c)
             \/ HandleInvalidMessageType(c)
  <2>1. HoldsKnown(c)
    BY <1>1, <1>2, WaysHold
    DEF RespondToTaskInfo, RespondToTask, RespondToParseStatus, RespondToValidateFlag,
        RespondToCancelTask, HandleInvalidMessageType
  <2>2. SessionsAtMostEnd
    BY <1>2
    DEF SessionsAtMostEnd, RespondToTaskInfo, RespondToTask, RespondToParseStatus,
        RespondToValidateFlag, RespondToCancelTask, HandleInvalidMessageType,
        CancelSession, serviceVars, IInv, TypeOK, SessionTypeOK
  <2> QED
    BY <2>1, <2>2, HintsStay
<1> QED
  BY <1>2, RetrieveHintHint
  DEF HandleMessage, RouteGameMessage, RouteIdleStateMessage,
      RouteParseStandbyStateMessage, RouteActiveTaskStateMessage

LEMMA NextHint == IInv /\ HintInv /\ [Next]_vars => HintInv'
<1> SUFFICES ASSUME IInv, HintInv, [Next]_vars PROVE HintInv'
  OBVIOUS
<1>1. CASE UNCHANGED vars
  BY <1>1 DEF vars, baseVars, HintInv, HintsOfOwnTask, HintsKnown
<1>2. CASE Restart
  BY <1>2, UserOfType DEF Restart, EmptyFrame, HintInv, HintsOfOwnTask, HintsKnown
<1>3. ASSUME NEW c \in Conns, ConnStep(c) PROVE HintInv'
  BY <1>3, OutsideTasksHint, TaskStepHint, HandleMessageHint DEF ConnStep, ThreadStep
<1> QED
  BY <1>1, <1>2, <1>3 DEF Next

\* TaskSessionService.retrieveHint: the hints marked in a session are those of
\* its task, also when the session was replaced after the lookup.
THEOREM HintsStayWithTask == Spec => []HintsOfOwnTask
<1>1. Init => HintInv
  BY UserOfType
  DEF Init, BaseInit, SessionInit, EmptyFrame, HintInv, HintsOfOwnTask, HintsKnown
<1>2. HintInv => HintsOfOwnTask
  BY DEF HintInv
<1> QED
  BY <1>1, <1>2, NextHint, Inductive, PTL DEF Spec
=============================================================================
