-------------------------- MODULE GameProtocol_proof --------------------------
(***************************************************************************)
(* The server implements GameProtocol for users who have one connection at *)
(* a time, for any constants: every step of a thread is a step of the      *)
(* protocol or changes nothing a player can see.                           *)
(***************************************************************************)
EXTENDS GameOrderly_proof

-----------------------------------------------------------------------------
(* What a step of a thread shows *)

\* The three functions after a step in which only c, and the session of its
\* user, are shown differently.
Shows(c, phase, session, owed) ==
    /\ Phase' = [Phase EXCEPT ![c] = phase]
    /\ SeenPlaying' = [SeenPlaying EXCEPT ![UserOf[c]] = Seen(session)]
    /\ Owed' = [Owed EXCEPT ![c] = owed]

LEMMA OpenShows ==
  ASSUME OInv, NEW c \in Conns, socket[c] = "open"
  PROVE  /\ Phase[c] = OpenPhase(pc[c], frame[c].reply, state[c])
         /\ Owed[c] = OwedAt(pc[c], frame[c])
         /\ SeenPlaying[UserOf[c]] = Seen(activeTasks[UserOf[c]])
         /\ Phase[c] \notin {"away", "gone"}
<1>1. state[c] \in UserStates
  BY DEF OInv, IInv, TypeOK, BaseTypeOK
<1>2. Phase[c] = OpenPhase(pc[c], frame[c].reply, state[c])
  BY DEF Phase, PhaseOf
<1>3. Phase[c] \notin {"away", "gone"}
  BY <1>1, <1>2 DEF OpenPhase, UserStates
<1>4. Owed[c] = OwedAt(pc[c], frame[c])
  BY DEF Owed, OwedTo
<1>5. SeenPlaying[UserOf[c]] = Seen(activeTasks[UserOf[c]])
  BY UserOfType DEF SeenPlaying
<1> QED
  BY <1>2, <1>3, <1>4, <1>5

\* Whoever is left alone is shown as before.
LEMMA OthersShowTheSame ==
  ASSUME NEW d \in Conns,
         pc'[d] = pc[d], frame'[d] = frame[d], socket'[d] = socket[d],
         state'[d] = state[d] \/ socket[d] = "closed"
  PROVE  PhaseOf(d)' = PhaseOf(d) /\ OwedTo(d)' = OwedTo(d)
  BY DEF PhaseOf, OwedTo

LEMMA MoveShows ==
  ASSUME OInv, NEW c \in Conns, socket[c] = "open",
         NEW label, NEW locals, NEW s, NEW session,
         pc' = [pc EXCEPT ![c] = label], frame' = [frame EXCEPT ![c] = locals],
         state' = [state EXCEPT ![c] = s], SessionIs(c, session), UNCHANGED socket
  PROVE  Shows(c, OpenPhase(label, locals.reply, s), session, OwedAt(label, locals))
<1>1. /\ pc'[c] = label /\ frame'[c] = locals /\ state'[c] = s
      /\ activeTasks'[UserOf[c]] = session
      /\ \A d \in Conns \ {c} :
           pc'[d] = pc[d] /\ frame'[d] = frame[d] /\ state'[d] = state[d]
      /\ \A u \in Users \ {UserOf[c]} : activeTasks'[u] = activeTasks[u]
  BY UserOfType DEF OInv, IInv, TypeOK, BaseTypeOK, SessionTypeOK, SessionIs
<1>2. \A d \in Conns \ {c} : PhaseOf(d)' = PhaseOf(d) /\ OwedTo(d)' = OwedTo(d)
  BY <1>1, OthersShowTheSame
<1>3. PhaseOf(c)' = OpenPhase(label, locals.reply, s) /\ OwedTo(c)' = OwedAt(label, locals)
  BY <1>1 DEF PhaseOf, OwedTo
<1>4. Phase' = [Phase EXCEPT ![c] = OpenPhase(label, locals.reply, s)]
  BY <1>2, <1>3 DEF Phase
<1>5. SeenPlaying' = [SeenPlaying EXCEPT ![UserOf[c]] = Seen(session)]
  BY <1>1, UserOfType DEF SeenPlaying
<1>6. Owed' = [Owed EXCEPT ![c] = OwedAt(label, locals)]
  BY <1>2, <1>3 DEF Owed
<1> QED
  BY <1>4, <1>5, <1>6 DEF Shows

LEMMA CloseShows ==
  ASSUME OInv, NEW c \in Conns, socket[c] = "open",
         NEW label \in {"idle", "await"}, NEW locals, NEW session, SessionIs(c, session),
         CloseSocket(c), pc' = [pc EXCEPT ![c] = label],
         frame' = [frame EXCEPT ![c] = locals], UNCHANGED state
  PROVE  Shows(c, "gone", session, None)
<1>1. /\ pc'[c] = label /\ socket'[c] = "closed"
      /\ activeTasks'[UserOf[c]] = session
      /\ \A d \in Conns \ {c} :
           pc'[d] = pc[d] /\ frame'[d] = frame[d] /\ socket'[d] = socket[d]
      /\ \A u \in Users \ {UserOf[c]} : activeTasks'[u] = activeTasks[u]
  BY UserOfType DEF OInv, IInv, TypeOK, BaseTypeOK, SessionTypeOK, SessionIs, CloseSocket
<1>2. \A d \in Conns \ {c} : PhaseOf(d)' = PhaseOf(d) /\ OwedTo(d)' = OwedTo(d)
  BY <1>1, OthersShowTheSame
<1>3. PhaseOf(c)' = "gone" /\ OwedTo(c)' = None
  BY <1>1 DEF PhaseOf, OwedTo, OwedAt, Paying
<1>4. Phase' = [Phase EXCEPT ![c] = "gone"]
  BY <1>2, <1>3 DEF Phase
<1>5. SeenPlaying' = [SeenPlaying EXCEPT ![UserOf[c]] = Seen(session)]
  BY <1>1, UserOfType DEF SeenPlaying
<1>6. Owed' = [Owed EXCEPT ![c] = None]
  BY <1>2, <1>3 DEF Owed
<1> QED
  BY <1>4, <1>5, <1>6 DEF Shows

\* A step that shows what was shown before is a stutter of the protocol.
Unseen == UNCHANGED <<Phase, SeenPlaying, Owed, access>>

LEMMA ShowsTheSame ==
  ASSUME OInv, NEW c \in Conns, UNCHANGED access,
         Shows(c, Phase[c], activeTasks[UserOf[c]], Owed[c])
  PROVE  Unseen
<1>1. SeenPlaying[UserOf[c]] = Seen(activeTasks[UserOf[c]])
  BY UserOfType DEF SeenPlaying
<1> QED
  BY <1>1 DEF Shows, Unseen, Phase, SeenPlaying, Owed

Refines == [Protocol!Next]_(Protocol!protocolVars)

LEMMA UnseenRefines == Unseen => Refines
  BY DEF Unseen, Refines, Protocol!protocolVars

\* The ways a handler moves, as they are shown.
LEMMA RespondShows ==
  ASSUME OInv, NEW c \in Conns, socket[c] = "open", NEW r, NEW s, NEW session,
         Respond(c, r), ChangeState(c, s) \/ (s = state[c] /\ UNCHANGED state),
         SessionIs(c, session), UNCHANGED socket
  PROVE  Shows(c, IF r = "task" THEN "PARSE_STANDBY" ELSE s, session, None)
<1> DEFINE locals == [EmptyFrame EXCEPT !.reply = r]
<1>1. pc' = [pc EXCEPT ![c] = "send"] /\ frame' = [frame EXCEPT ![c] = locals]
  BY DEF Respond, Goto
<1>2. state' = [state EXCEPT ![c] = s]
  BY StateIs
<1>3. /\ OpenPhase("send", locals.reply, s) = IF r = "task" THEN "PARSE_STANDBY" ELSE s
      /\ OwedAt("send", locals) = None
  BY DEF OpenPhase, OwedAt, Paying, EmptyFrame
<1>4. Shows(c, OpenPhase("send", locals.reply, s), session, OwedAt("send", locals))
  BY <1>1, <1>2, MoveShows
<1> QED
  BY <1>3, <1>4

LEMMA FinishShows ==
  ASSUME OInv, NEW c \in Conns, socket[c] = "open", NEW s,
         Finish(c), ChangeState(c, s) \/ (s = state[c] /\ UNCHANGED state),
         UNCHANGED <<socket, activeTasks>>
  PROVE  Shows(c, s, activeTasks[UserOf[c]], None)
<1>1. pc' = [pc EXCEPT ![c] = "idle"] /\ frame' = [frame EXCEPT ![c] = EmptyFrame]
  BY DEF Finish, Goto
<1>2. state' = [state EXCEPT ![c] = s] /\ SessionIs(c, activeTasks[UserOf[c]])
  BY StateIs, SessionStays
<1>3. /\ OpenPhase("idle", EmptyFrame.reply, s) = s
      /\ OwedAt("idle", EmptyFrame) = None
  BY NoneAssumption DEF OpenPhase, OwedAt, Paying, EmptyFrame
<1>4. Shows(c, OpenPhase("idle", EmptyFrame.reply, s), activeTasks[UserOf[c]],
            OwedAt("idle", EmptyFrame))
  BY <1>1, <1>2, MoveShows
<1> QED
  BY <1>3, <1>4

LEMMA GoOnShows ==
  ASSUME OInv, NEW c \in Conns, socket[c] = "open", NEW label, NEW locals,
         Goto(c, label), frame' = [frame EXCEPT ![c] = locals],
         UNCHANGED <<socket, state, activeTasks>>
  PROVE  Shows(c, OpenPhase(label, locals.reply, state[c]), activeTasks[UserOf[c]],
               OwedAt(label, locals))
<1>1. state' = [state EXCEPT ![c] = state[c]] /\ SessionIs(c, activeTasks[UserOf[c]])
  BY StateIs, SessionStays
<1> QED
  BY <1>1, MoveShows DEF Goto

\* A thread that goes on from a label to another is not seen, unless it begins
\* to pay, or has paid.
LEMMA GoOnUnseen ==
  ASSUME OInv, NEW c \in Conns, socket[c] = "open", NEW label, NEW locals,
         Goto(c, label), frame' = [frame EXCEPT ![c] = locals],
         UNCHANGED <<socket, state, activeTasks, access>>,
         locals.reply = frame[c].reply,
         \/ ~Paying(label) /\ ~Paying(pc[c])
         \/ Paying(label) /\ Paying(pc[c]) /\ locals.held = frame[c].held
  PROVE  Unseen
<1>1. Shows(c, OpenPhase(label, locals.reply, state[c]), activeTasks[UserOf[c]],
            OwedAt(label, locals))
  BY GoOnShows
<1>2. /\ OpenPhase(label, locals.reply, state[c])
           = OpenPhase(pc[c], frame[c].reply, state[c])
      /\ OwedAt(label, locals) = OwedAt(pc[c], frame[c])
  BY DEF OpenPhase, OwedAt
<1> QED
  BY <1>1, <1>2, OpenShows, ShowsTheSame

LEMMA JumpUnseen ==
  ASSUME OInv, NEW c \in Conns, socket[c] = "open", NEW label, Goto(c, label),
         UNCHANGED <<socket, state, frame, activeTasks, access>>,
         Paying(label) <=> Paying(pc[c])
  PROVE  Unseen
<1>1. frame' = [frame EXCEPT ![c] = frame[c]]
  BY DEF OInv, IInv, TypeOK, BaseTypeOK
<1> QED
  BY <1>1, GoOnUnseen

\* An answer that changes nothing is not seen.
LEMMA AnswerUnseen ==
  ASSUME OInv, NEW c \in Conns, socket[c] = "open", NEW r \in {"ok", "error"},
         Respond(c, r), UNCHANGED <<socket, state, activeTasks, access>>,
         frame[c].reply # "task", ~Paying(pc[c])
  PROVE  Unseen
<1>1. Shows(c, state[c], activeTasks[UserOf[c]], None)
  <2>1. SessionIs(c, activeTasks[UserOf[c]])
    BY SessionStays
  <2>2. Shows(c, IF r = "task" THEN "PARSE_STANDBY" ELSE state[c],
              activeTasks[UserOf[c]], None)
    BY <2>1, RespondShows
  <2> QED
    BY <2>2
<1>2. OpenPhase(pc[c], frame[c].reply, state[c]) = state[c] /\ OwedAt(pc[c], frame[c]) = None
  BY DEF OpenPhase, OwedAt
<1> QED
  BY <1>1, <1>2, OpenShows, ShowsTheSame

-----------------------------------------------------------------------------
(* The connection goes *)

LEMMA LeaveRefines ==
  ASSUME OInv, NEW c \in Conns, socket[c] = "open", UNCHANGED access,
         Shows(c, "gone", activeTasks[UserOf[c]], None)
  PROVE  Refines
<1>1. UNCHANGED SeenPlaying
  BY OpenShows DEF Shows, SeenPlaying
<1>2. Protocol!Leave(c)
  BY <1>1, OpenShows DEF Shows, Protocol!Leave, Protocol!Present, Protocol!Enter
<1> QED
  BY <1>2 DEF Refines, Protocol!Next

LEMMA ThrowShows ==
  ASSUME OInv, NEW c \in Conns, socket[c] = "open", Throw(c),
         NEW session, SessionIs(c, session)
  PROVE  Shows(c, "gone", session, None)
<1>1. /\ pc' = [pc EXCEPT ![c] = "idle"] /\ frame' = [frame EXCEPT ![c] = EmptyFrame]
      /\ CloseSocket(c) /\ UNCHANGED state
  BY DEF Throw, Finish, Goto
<1> QED
  BY <1>1, CloseShows

LEMMA ThrowRefines ==
  ASSUME OInv, NEW c \in Conns, socket[c] = "open", Throw(c),
         UNCHANGED <<activeTasks, access>>
  PROVE  Refines
  BY SessionStays, ThrowShows, LeaveRefines

LEMMA ClientCloseRefines ==
  ASSUME OInv, NEW c \in Conns, ClientClose(c)
  PROVE  Refines
<1>1. /\ pc' = [pc EXCEPT ![c] = "idle"] /\ frame' = [frame EXCEPT ![c] = frame[c]]
      /\ CloseSocket(c) /\ UNCHANGED <<state, activeTasks, access>>
      /\ socket[c] = "open"
  BY DEF ClientClose, Ready, At, serviceVars, OInv, IInv, TypeOK, BaseTypeOK
<1> QED
  BY <1>1, SessionStays, CloseShows, LeaveRefines

-----------------------------------------------------------------------------
(* GameHandler *)

LEMMA PresentMeansOpen ==
  ASSUME OInv, NEW d \in Conns, socket[d] # "open"
  PROVE  ~Protocol!Present(d)
<1>1. socket[d] \in {"new", "closed"}
  BY DEF OInv, IInv, TypeOK, BaseTypeOK
<1> QED
  BY <1>1 DEF Protocol!Present, Phase, PhaseOf

\* A user who connects alone is not registered and has no session.
LEMMA EstablishAlone ==
  ASSUME OInv, Orderly', NEW c \in Conns, Establish(c)
  PROVE  /\ \A d \in Conns : UserOf[d] = UserOf[c] => socket[d] # "open"
         /\ registry[UserOf[c]] = None /\ activeTasks[UserOf[c]] = None
<1>1. Live(c)' /\ socket[c] = "new" /\ closer[c] = "none"
  BY DEF Establish, AppendCheck, Goto, Live, At, OInv, IInv, SocketOK, TypeOK, BaseTypeOK
<1>2. \A d \in Conns \ {c} : UserOf[d] = UserOf[c] => ~Attended(d)
  <2> SUFFICES ASSUME NEW d \in Conns \ {c}, UserOf[d] = UserOf[c] PROVE ~Attended(d)
    OBVIOUS
  <2>1. ~Live(d)'
    BY <1>1 DEF Orderly
  <2>2. socket'[d] = socket[d] /\ closer'[d] = closer[d]
    BY DEF Establish, AppendCheck, OInv, IInv, TypeOK, BaseTypeOK
  <2> QED
    BY <2>1, <2>2 DEF Live, Attended
<1>3. ~Attended(c)
  BY <1>1 DEF Attended
<1>4. activeTasks[UserOf[c]] = None
  BY <1>2, <1>3, UserOfType DEF OInv, SessionHasPlayer
<1>5. registry[UserOf[c]] = None
  <2> DEFINE d == registry[UserOf[c]]
  <2>1. ASSUME d # None PROVE FALSE
    <3>1. /\ d \in Conns /\ UserOf[d] = UserOf[c] /\ closer[d] \in {"none", "remove"}
          /\ socket[d] # "new"
      BY <2>1, UserOfType
      DEF OInv, IInv, TypeOK, SenderTypeOK, RegistryLive, RegisteredWasOpened
    <3>2. Attended(d)
      BY <3>1 DEF Attended, OInv, IInv, SocketOK, TypeOK, BaseTypeOK
    <3> QED
      BY <1>2, <1>3, <3>1, <3>2
  <2> QED
    BY <2>1
<1> QED
  BY <1>2, <1>3, <1>4, <1>5 DEF Attended

LEMMA EstablishRefines ==
  ASSUME OInv, Orderly', NEW c \in Conns, Establish(c)
  PROVE  Refines
<1>1. /\ \A d \in Conns : UserOf[d] = UserOf[c] => socket[d] # "open"
      /\ registry[UserOf[c]] = None /\ activeTasks[UserOf[c]] = None
  BY EstablishAlone
<1>2. /\ socket[c] = "new" /\ socket' = [socket EXCEPT ![c] = "open"]
      /\ pc' = [pc EXCEPT ![c] = "append"]
      /\ UNCHANGED <<state, frame, activeTasks, access>>
  BY <1>1 DEF Establish, AppendCheck, Goto, serviceVars
<1>3. state[c] = "IDLE" /\ frame[c].reply # "task" /\ pc[c] = "idle"
  BY <1>2 DEF OInv, BeginsIdle, IInv, SocketOK, At
<1>4. /\ socket'[c] = "open" /\ pc'[c] = "append"
      /\ \A d \in Conns \ {c} : pc'[d] = pc[d] /\ socket'[d] = socket[d]
  BY <1>2 DEF OInv, IInv, TypeOK, BaseTypeOK
<1>5. \A d \in Conns \ {c} : PhaseOf(d)' = PhaseOf(d) /\ OwedTo(d)' = OwedTo(d)
  BY <1>2, <1>4, OthersShowTheSame
<1>6. PhaseOf(c)' = "IDLE" /\ PhaseOf(c) = "away" /\ OwedTo(c)' = OwedTo(c)
  BY <1>2, <1>3, <1>4 DEF PhaseOf, OpenPhase, OwedTo, OwedAt, Paying
<1>7. /\ Phase[c] = "away" /\ Phase' = [Phase EXCEPT ![c] = "IDLE"]
      /\ UNCHANGED <<SeenPlaying, Owed, access>>
  BY <1>2, <1>5, <1>6 DEF Phase, Owed, SeenPlaying
<1>8. SeenPlaying[UserOf[c]] = None
  BY <1>1, UserOfType DEF SeenPlaying, Seen
<1>9. \A d \in Conns : UserOf[d] = UserOf[c] => ~Protocol!Present(d)
  BY <1>1, PresentMeansOpen
<1>10. Protocol!Join(c)
  BY <1>7, <1>8, <1>9 DEF Protocol!Join, Protocol!Playing, Protocol!Enter
<1> QED
  BY <1>10 DEF Refines, Protocol!Next

LEMMA AppendPutRefines ==
  ASSUME OInv, NEW c \in Conns, AppendPut(c), UNCHANGED serviceVars
  PROVE  Refines
<1>1. /\ socket[c] = "open" /\ frame[c].reply # "task" /\ ~Paying(pc[c])
      /\ UNCHANGED <<socket, state, activeTasks, access>> /\ Finish(c)
  BY DEF AppendPut, OInv, OpenWhileServing, BeginsIdle, Paying, At, serviceVars
<1>2. Shows(c, state[c], activeTasks[UserOf[c]], None)
  BY <1>1, FinishShows
<1>3. OpenPhase(pc[c], frame[c].reply, state[c]) = state[c] /\ OwedAt(pc[c], frame[c]) = None
  BY <1>1 DEF OpenPhase, OwedAt
<1> QED
  BY <1>1, <1>2, <1>3, OpenShows, ShowsTheSame, UnseenRefines

\* cancelTaskSession of a connection that is gone; the entry of the registry is
\* not seen.
LEMMA CloserRefines ==
  ASSUME OInv, NEW c \in Conns, CloserStep(c)
  PROVE  Refines
<1> USE UserOfType
<1>1. UNCHANGED <<socket, pc, frame, state, access>>
  BY DEF CloserStep, CloserRemove, CloserCancel, serviceVars
<1>2. UNCHANGED <<Phase, Owed>>
  BY <1>1 DEF Phase, PhaseOf, Owed, OwedTo
<1>3. CASE CloserRemove(c)
  <2>1. UNCHANGED SeenPlaying
    BY <1>3 DEF CloserRemove, serviceVars, SeenPlaying
  <2> QED
    BY <1>1, <1>2, <2>1, UnseenRefines DEF Unseen
<1>4. CASE CloserCancel(c)
  <2>1. socket[c] = "closed" /\ Live(c)
    BY <1>4 DEF CloserCancel, Live, OInv, IInv, SocketOK, TypeOK, BaseTypeOK
  <2>2. \A d \in Conns : UserOf[d] = UserOf[c] => socket[d] # "open"
    BY <2>1, OnlyOne DEF OInv
  <2>3. SeenPlaying' = [SeenPlaying EXCEPT ![UserOf[c]] = None]
    BY <1>4 DEF CloserCancel, CancelSession, SeenPlaying, Seen, OInv, IInv, TypeOK,
                SessionTypeOK
  <2>4. Phase[c] = "gone" /\ \A d \in Conns : UserOf[d] = UserOf[c] => ~Protocol!Present(d)
    BY <2>1, <2>2, PresentMeansOpen DEF Phase, PhaseOf
  <2>5. Protocol!Forget(c)
    BY <1>1, <1>2, <2>3, <2>4 DEF Protocol!Forget, Protocol!Play
  <2> QED
    BY <2>5 DEF Refines, Protocol!Next
<1> QED
  BY <1>3, <1>4 DEF CloserStep

LEMMA RestartRefines ==
  ASSUME OInv, Restart
  PROVE  Refines
<1>1. \A c \in Conns : /\ PhaseOf(c)' = IF PhaseOf(c) = "away" THEN "away" ELSE "gone"
                       /\ OwedTo(c)' = None
  <2> SUFFICES ASSUME NEW c \in Conns
               PROVE  /\ PhaseOf(c)' = IF PhaseOf(c) = "away" THEN "away" ELSE "gone"
                      /\ OwedTo(c)' = None
    OBVIOUS
  <2>1. PhaseOf(c) = "away" <=> socket[c] = "new"
    BY DEF PhaseOf, OpenPhase, OInv, IInv, TypeOK, BaseTypeOK, UserStates
  <2>2. socket'[c] = (IF socket[c] = "new" THEN "new" ELSE "closed") /\ pc'[c] = "idle"
    BY DEF Restart
  <2> QED
    BY <2>1, <2>2 DEF PhaseOf, OwedTo, OwedAt, Paying
<1>2. Phase' = [c \in Conns |-> IF Phase[c] = "away" THEN "away" ELSE "gone"]
  BY <1>1 DEF Phase
<1>3. Owed' = [c \in Conns |-> None]
  BY <1>1 DEF Owed
<1>4. SeenPlaying' = [u \in Users |-> None]
  BY DEF Restart, SeenPlaying, Seen
<1>5. Protocol!Restart
  BY <1>2, <1>3, <1>4 DEF Restart, Protocol!Restart
<1> QED
  BY <1>5 DEF Refines, Protocol!Next

-----------------------------------------------------------------------------
(* WebSocketSender: nothing is seen of a reply but the state it leads to,     *)
(* which was shown from the put of the session on.                            *)

LEMMA AfterSendUnseen ==
  ASSUME OInv, NEW c \in Conns, pc[c] \in SendSteps \ {"await"}, AfterSend(c),
         UNCHANGED <<socket, activeTasks, access>>
  PROVE  Unseen
<1>1. socket[c] = "open" /\ ~Paying(pc[c])
  BY ServingIsOpen DEF Paying, SendSteps
<1> DEFINE s == IF frame[c].reply = "task" THEN "PARSE_STANDBY" ELSE state[c]
<1>2. Shows(c, s, activeTasks[UserOf[c]], None)
  <2>1. CASE frame[c].reply = "task"
    BY <1>1, <2>1, FinishShows DEF AfterSend
  <2>2. CASE frame[c].reply # "task"
    BY <1>1, <2>2, FinishShows DEF AfterSend
  <2> QED
    BY <2>1, <2>2
<1>3. OpenPhase(pc[c], frame[c].reply, state[c]) = s /\ OwedAt(pc[c], frame[c]) = None
  BY <1>1 DEF OpenPhase, OwedAt
<1> QED
  BY <1>1, <1>2, <1>3, OpenShows, ShowsTheSame

LEMMA CloseReturnsUnseen ==
  ASSUME OInv, NEW c \in Conns, CloseReturns(c), UNCHANGED serviceVars
  PROVE  Unseen
<1>1. socket[c] = "closed"
  BY DEF CloseReturns, At, OInv, OpenWhileServing, IInv, SocketOK, TypeOK, BaseTypeOK
<1>2. /\ UNCHANGED <<socket, activeTasks, access>>
      /\ pc[c] = "await" /\ pc'[c] = "idle"
      /\ \A d \in Conns \ {c} :
           pc'[d] = pc[d] /\ frame'[d] = frame[d] /\ state'[d] = state[d]
  BY DEF CloseReturns, AfterSend, ChangeState, Finish, Goto, At, serviceVars, OInv, IInv,
         TypeOK, BaseTypeOK
<1>3. \A d \in Conns \ {c} : PhaseOf(d)' = PhaseOf(d) /\ OwedTo(d)' = OwedTo(d)
  BY <1>2, OthersShowTheSame
<1>4. PhaseOf(c)' = PhaseOf(c) /\ OwedTo(c)' = OwedTo(c)
  BY <1>1, <1>2 DEF PhaseOf, OwedTo, OwedAt, Paying
<1> QED
  BY <1>2, <1>3, <1>4 DEF Unseen, Phase, Owed, SeenPlaying

LEMMA SendStepRefines ==
  ASSUME OInv, NEW c \in Conns, SendStep(c), UNCHANGED serviceVars
  PROVE  Refines
<1>1. UNCHANGED <<activeTasks, access>>
  BY DEF serviceVars
<1>2. CASE CloseReturns(c)
  BY <1>2, CloseReturnsUnseen, UnseenRefines
<1>3. ASSUME pc[c] \in SendSteps \ {"await"}
      PROVE  socket[c] = "open" /\ registry[UserOf[c]] = c /\ ~Paying(pc[c])
  BY <1>3, ServingIsOpen DEF Paying, SendSteps
<1>4. \A label \in SendSteps : ~Paying(label)
  BY DEF Paying, SendSteps
<1>5. CASE SendContains(c)
  <2>1. pc[c] \in SendSteps \ {"await"} /\ "get" \in SendSteps
    BY <1>5 DEF SendContains, At, SendSteps
  <2>2. Goto(c, "get") /\ UNCHANGED <<state, frame, socket>>
    BY <1>3, <1>5, <2>1, NoneAssumption DEF SendContains
  <2> QED
    BY <1>1, <1>3, <1>4, <2>1, <2>2, JumpUnseen, UnseenRefines
<1>6. CASE SendGet(c)
  <2>1. pc[c] \in SendSteps \ {"await"} /\ "write" \in SendSteps
    BY <1>6 DEF SendGet, At, SendSteps
  <2> DEFINE locals == [frame[c] EXCEPT !.target = c]
  <2>2. /\ Goto(c, "write") /\ UNCHANGED <<socket, state>>
        /\ frame' = [frame EXCEPT ![c] = locals] /\ locals.reply = frame[c].reply
    BY <1>3, <1>6, <2>1, NoneAssumption
    DEF SendGet, OInv, IInv, TypeOK, BaseTypeOK, Frames
  <2> HIDE DEF locals
  <2> QED
    BY <1>1, <1>3, <1>4, <2>1, <2>2, GoOnUnseen, UnseenRefines
<1>7. CASE SendWrite(c)
  <2>1. pc[c] \in SendSteps \ {"await"} /\ "disconnect" \in SendSteps
    BY <1>7 DEF SendWrite, At, SendSteps
  <2>2. CASE AfterSend(c) /\ UNCHANGED <<socket, closer>>
    BY <1>1, <2>1, <2>2, AfterSendUnseen, UnseenRefines
  <2>3. CASE Goto(c, "disconnect") /\ UNCHANGED <<socket, closer, state, frame>>
    BY <1>1, <1>3, <1>4, <2>1, <2>3, JumpUnseen, UnseenRefines
  <2>4. CASE Throw(c)
    BY <1>1, <1>3, <2>1, <2>4, ThrowRefines
  <2> QED
    BY <1>7, <2>2, <2>3, <2>4 DEF SendWrite
<1>8. CASE HandleDisconnect(c)
  <2>1. pc[c] \in SendSteps \ {"await"}
    BY <1>8 DEF HandleDisconnect, At, SendSteps
  <2> DEFINE locals == [frame[c] EXCEPT !.target = c]
  <2>2. /\ pc' = [pc EXCEPT ![c] = "await"] /\ CloseSocket(c)
        /\ frame' = [frame EXCEPT ![c] = locals] /\ UNCHANGED state
    BY <1>3, <1>8, <2>1, NoneAssumption
    DEF HandleDisconnect, Goto, OInv, IInv, TypeOK, BaseTypeOK
  <2> HIDE DEF locals
  <2> QED
    BY <1>1, <1>3, <2>1, <2>2, SessionStays, CloseShows, LeaveRefines
<1> QED
  BY <1>2, <1>5, <1>6, <1>7, <1>8 DEF SendStep

-----------------------------------------------------------------------------
(* TaskSessionService and TaskAccessService *)

\* What is shown while a task's handler is under way.
LEMMA TaskShows ==
  ASSUME OInv, NEW c \in Conns, pc[c] \in TaskSteps
  PROVE  /\ socket[c] = "open" /\ frame[c].reply # "task"
         /\ ~Paying(pc[c]) => Phase[c] = state[c] /\ Owed[c] = None
         /\ Paying(pc[c]) => Phase[c] = "IDLE" /\ Owed[c] = Unlocks[frame[c].held.task]
         /\ SeenPlaying[UserOf[c]] = Seen(activeTasks[UserOf[c]])
         /\ pc[c] \in {"start", "put"} => state[c] = "IDLE"
         /\ pc[c] = "abort" => state[c] = "PARSE_STANDBY"
         /\ pc[c] \in {"check", "complete", "fetch", "remove", "take"}
              => state[c] = "ACTIVE_TASK"
<1>1. socket[c] = "open" /\ frame[c].reply # "task"
  BY TaskThreadHolds
<1>2. Known(pc[c], frame[c].reply, state[c])
  BY DEF OInv, StateKnown
<1> QED
  BY <1>1, <1>2, OpenShows DEF OpenPhase, OwedAt, Known, TaskSteps

LEMMA StartPutRefines ==
  ASSUME OInv, NEW c \in Conns, StartPut(c), UNCHANGED access
  PROVE  Refines
<1>1. pc[c] = "put" /\ ~Paying("put")
  BY DEF StartPut, At, Paying
<1>2. /\ socket[c] = "open" /\ Phase[c] = "IDLE" /\ Owed[c] = None
      /\ SeenPlaying[UserOf[c]] = None
  BY <1>1, TaskShows, TaskThreadHolds DEF TaskSteps, Seen
<1> DEFINE t == frame[c].arg
<1>3. t \in Tasks /\ UserHasAccess(UserOf[c], t)
  BY <1>1 DEF OInv, IInv, ThreadsOK, ThreadOK
<1>4. PICK i \in FreeIds : SessionIs(c, NewSession(i, t))
  BY DEF StartPut, SessionIs
<1>5. Seen(NewSession(i, t)) = [task |-> t, taken |-> {}]
  BY <1>3, NoneAssumption DEF Seen, NewSession, FreeIds
<1>6. Shows(c, "PARSE_STANDBY", NewSession(i, t), None)
  BY <1>2, <1>4, RespondShows DEF StartPut
<1>7. /\ Phase' = [Phase EXCEPT ![c] = "PARSE_STANDBY"]
      /\ SeenPlaying' = [SeenPlaying EXCEPT ![UserOf[c]] = [task |-> t, taken |-> {}]]
      /\ UNCHANGED Owed
  BY <1>2, <1>5, <1>6 DEF Shows, Owed
<1>8. Protocol!Start(c)
  BY <1>2, <1>3, <1>7
  DEF Protocol!Start, Protocol!Playing, Protocol!MayPlay, Protocol!Play, Protocol!Enter,
      UserHasAccess
<1> QED
  BY <1>8 DEF Refines, Protocol!Next

\* startTaskSession's test, validateFlag, and the steps of completeSession
\* before the removal are not seen, unless the connection goes.
LEMMA ReadingRefines ==
  ASSUME OInv, NEW c \in Conns, UNCHANGED access,
         StartCheck(c) \/ ValidateFlag(c) \/ CompleteCheck(c) \/ CompleteFetch(c)
  PROVE  Refines
<1> DEFINE session == activeTasks[UserOf[c]]
<1>1. /\ pc[c] \in {"start", "check", "complete", "fetch"}
      /\ UNCHANGED activeTasks
  BY DEF StartCheck, ValidateFlag, CompleteCheck, CompleteFetch, At
<1>2. socket[c] = "open" /\ frame[c].reply # "task" /\ ~Paying(pc[c])
  BY <1>1, TaskShows DEF TaskSteps, Paying
<1>3. ASSUME NEW r \in {"ok", "error"}, Respond(c, r), UNCHANGED <<socket, state>>
      PROVE  Refines
  BY <1>1, <1>2, <1>3, AnswerUnseen, UnseenRefines
<1>4. ASSUME NEW label \in {"put", "fetch"}, Goto(c, label), UNCHANGED <<socket, state, frame>>
      PROVE  Refines
  <2>1. ~Paying(label)
    BY DEF Paying
  <2> QED
    BY <1>1, <1>2, <1>4, <2>1, JumpUnseen, UnseenRefines
<1>5. ASSUME NEW label \in {"complete", "remove"}, Goto(c, label),
             frame' = [frame EXCEPT ![c].held = session], UNCHANGED <<socket, state>>
      PROVE  Refines
  <2> DEFINE locals == [frame[c] EXCEPT !.held = session]
  <2>1. frame' = [frame EXCEPT ![c] = locals] /\ locals.reply = frame[c].reply
    BY <1>5 DEF OInv, IInv, TypeOK, BaseTypeOK, Frames
  <2>2. ~Paying(label)
    BY DEF Paying
  <2> HIDE DEF locals
  <2> QED
    BY <1>1, <1>2, <1>5, <2>1, <2>2, GoOnUnseen, UnseenRefines
<1>6. CASE StartCheck(c)
  BY <1>3, <1>4, <1>6 DEF StartCheck
<1>7. CASE ValidateFlag(c)
  <2>1. CASE Throw(c)
    BY <1>1, <1>2, <2>1, ThrowRefines
  <2> QED
    BY <1>3, <1>5, <1>7, <2>1 DEF ValidateFlag
<1>8. CASE CompleteCheck(c)
  <2>1. UserInActiveSession(UserOf[c])
    BY <1>8, TaskThreadHolds DEF CompleteCheck, At, TaskSteps, UserInActiveSession
  <2> QED
    BY <1>4, <1>8, <2>1 DEF CompleteCheck
<1>9. CASE CompleteFetch(c)
  BY <1>5, <1>9 DEF CompleteFetch
<1> QED
  BY <1>6, <1>7, <1>8, <1>9

LEMMA CompleteRemoveRefines ==
  ASSUME OInv, NEW c \in Conns, CompleteRemove(c), UNCHANGED access
  PROVE  Refines
<1> DEFINE session == activeTasks[UserOf[c]]
           unlocks == Unlocks[session.task]
<1>1. pc[c] = "remove" /\ ~Paying("remove") /\ SessionIs(c, None)
  BY DEF CompleteRemove, At, Paying, SessionIs, CancelSession
<1>2. /\ socket[c] = "open" /\ frame[c].reply # "task"
      /\ Phase[c] = "ACTIVE_TASK" /\ Owed[c] = None
      /\ SeenPlaying[UserOf[c]] = Seen(session)
  BY <1>1, TaskShows DEF TaskSteps
<1>3. session # None /\ frame[c].held # None /\ frame[c].held.task = session.task
  BY <1>1, TaskThreadHolds DEF TaskSteps, SameSession
<1>4. Seen(session).task = session.task
  BY <1>3 DEF Seen
<1>5. Shows(c, "IDLE", None, unlocks)
  <2>1. CASE unlocks = None
    BY <1>1, <1>2, <1>3, <2>1, RespondShows DEF CompleteRemove
  <2>2. CASE unlocks # None
    <3>1. /\ pc' = [pc EXCEPT ![c] = "grant"]
          /\ frame' = [frame EXCEPT ![c] = frame[c]]
          /\ state' = [state EXCEPT ![c] = state[c]] /\ UNCHANGED socket
      BY <1>3, <2>2 DEF CompleteRemove, Goto, OInv, IInv, TypeOK, BaseTypeOK
    <3>2. OpenPhase("grant", frame[c].reply, state[c]) = "IDLE"
          /\ OwedAt("grant", frame[c]) = unlocks
      BY <1>2, <1>3 DEF OpenPhase, OwedAt, Paying
    <3>3. Shows(c, OpenPhase("grant", frame[c].reply, state[c]), None,
                OwedAt("grant", frame[c]))
      BY <1>1, <1>2, <3>1, MoveShows
    <3> QED
      BY <3>2, <3>3
  <2> QED
    BY <2>1, <2>2
<1>6. Seen(None) = None
  BY DEF Seen
<1>7. Protocol!Solve(c)
  BY <1>2, <1>4, <1>5, <1>6
  DEF Shows, Protocol!Solve, Protocol!Playing, Protocol!Play, Protocol!Enter
<1> QED
  BY <1>7 DEF Refines, Protocol!Next

LEMMA TakeHintRefines ==
  ASSUME OInv, NEW c \in Conns, TakeHint(c), UNCHANGED access
  PROVE  Refines
<1> DEFINE session == activeTasks[UserOf[c]]
           marked == [session EXCEPT !.taken = @ \cup {frame[c].arg}]
           shown == [task |-> session.task, taken |-> session.taken]
<1>1. pc[c] = "take" /\ ~Paying("take")
  BY DEF TakeHint, At, Paying
<1>2. /\ socket[c] = "open" /\ Phase[c] = "ACTIVE_TASK" /\ Owed[c] = None
      /\ SeenPlaying[UserOf[c]] = Seen(session)
  BY <1>1, TaskShows DEF TaskSteps
<1>3. session # None /\ frame[c].arg \in TaskHints(session.task) \ session.taken
  BY <1>1, TaskThreadHolds DEF TaskSteps
<1>4. session \in Sessions
  BY <1>3, UserOfType DEF OInv, IInv, TypeOK, SessionTypeOK
<1>5. marked # None /\ SessionIs(c, marked)
  BY HintMarked
<1>6. Seen(session) = shown
      /\ Seen(marked) = [shown EXCEPT !.taken = @ \cup {frame[c].arg}]
  BY <1>3, <1>4, <1>5 DEF Seen, Sessions
<1> HIDE DEF marked, shown
<1>7. ASSUME SeenPlaying' = [SeenPlaying EXCEPT ![UserOf[c]] = Seen(marked)]
      PROVE  Protocol!HandOut(c)
  <2>1. frame[c].arg \in (0 .. HintCount[shown.task] - 1) \ shown.taken
    BY <1>3 DEF TaskHints, shown
  <2> QED
    BY <1>2, <1>6, <1>7, <2>1 DEF Protocol!HandOut, Protocol!Playing, Protocol!Play
<1>8. CASE Respond(c, "ok") /\ UNCHANGED <<socket, closer, state>>
  <2>1. Shows(c, state[c], marked, None)
    <3>1. Shows(c, IF "ok" = "task" THEN "PARSE_STANDBY" ELSE state[c], marked, None)
      BY <1>2, <1>5, <1>8, RespondShows
    <3> QED
      BY <3>1
  <2>2. state[c] = "ACTIVE_TASK"
    BY <1>1, TaskShows DEF TaskSteps
  <2>3. UNCHANGED <<Phase, Owed>>
    <3>1. /\ Phase' = [Phase EXCEPT ![c] = Phase[c]]
          /\ Owed' = [Owed EXCEPT ![c] = Owed[c]]
      BY <1>2, <2>1, <2>2 DEF Shows
    <3>2. [Phase EXCEPT ![c] = Phase[c]] = Phase /\ [Owed EXCEPT ![c] = Owed[c]] = Owed
      BY DEF Phase, Owed
    <3> QED
      BY <3>1, <3>2
  <2>4. Protocol!Hint(c)
    BY <1>7, <2>1, <2>3 DEF Shows, Protocol!Hint
  <2> QED
    BY <2>4 DEF Refines, Protocol!Next
<1>9. CASE Throw(c)
  <2>1. Shows(c, "gone", marked, None)
    BY <1>2, <1>5, <1>9, ThrowShows
  <2>2. Protocol!Leave(c)
    BY <1>2, <1>7, <2>1 DEF Shows, Protocol!Leave, Protocol!Present, Protocol!Enter
  <2> QED
    BY <2>2 DEF Refines, Protocol!Next
<1> QED
  BY <1>8, <1>9 DEF TakeHint

\* What was owed is written down, was there already, or is lost with the
\* connection.
LEMMA GrantRefines ==
  ASSUME OInv, NEW c \in Conns, GrantStep(c), UNCHANGED activeTasks
  PROVE  Refines
<1> DEFINE unlocks == Unlocks[frame[c].held.task]
           session == activeTasks[UserOf[c]]
<1>1. pc[c] \in {"grant", "save"} /\ Paying(pc[c])
  BY DEF GrantStep, GrantCheck, GrantSave, At, Paying
<1>2. /\ socket[c] = "open" /\ Phase[c] = "IDLE" /\ Owed[c] = unlocks
      /\ SeenPlaying[UserOf[c]] = Seen(session)
  BY <1>1, TaskShows DEF TaskSteps
<1>3. unlocks # None
  BY <1>1 DEF OInv, IInv, ThreadsOK, ThreadOK
<1>4. ASSUME access' = access \cup {<<UserOf[c], unlocks>>}, SolveDone(c), UNCHANGED socket
      PROVE  Refines
  <2>1. Shows(c, "IDLE", session, None)
    BY <1>2, <1>4, SessionStays, RespondShows DEF SolveDone
  <2>2. UNCHANGED <<Phase, SeenPlaying>> /\ Owed' = [Owed EXCEPT ![c] = None]
    BY <1>2, <2>1 DEF Shows, Phase, SeenPlaying
  <2>3. Protocol!Pay(c)
    BY <1>2, <1>3, <1>4, <2>2 DEF Protocol!Pay
  <2> QED
    BY <2>3 DEF Refines, Protocol!Next
<1>5. CASE Throw(c) /\ UNCHANGED access
  BY <1>2, <1>5, ThrowRefines
<1>6. CASE GrantCheck(c)
  <2>1. CASE <<UserOf[c], unlocks>> \in access /\ SolveDone(c) /\ UNCHANGED socket
    <3>1. access' = access \cup {<<UserOf[c], unlocks>>}
      BY <1>6, <2>1 DEF GrantCheck
    <3> QED
      BY <1>4, <2>1, <3>1
  <2>2. CASE Goto(c, "save") /\ UNCHANGED <<state, frame, socket>>
    <3>1. Paying("save")
      BY DEF Paying
    <3> QED
      BY <1>1, <1>2, <1>6, <2>2, <3>1, JumpUnseen, UnseenRefines DEF GrantCheck
  <2> QED
    BY <1>5, <1>6, <2>1, <2>2 DEF GrantCheck
<1>7. CASE GrantSave(c)
  BY <1>4, <1>5, <1>7 DEF GrantSave
<1> QED
  BY <1>6, <1>7 DEF GrantStep

\* A player goes back to IDLE, and the session goes or stays.
LEMMA RejectRefines ==
  ASSUME OInv, NEW c \in Conns, Phase[c] = "PARSE_STANDBY", Owed[c] = None,
         socket[c] = "open", UNCHANGED access,
         Shows(c, "IDLE", None, None) \/ Shows(c, "IDLE", activeTasks[UserOf[c]], None)
  PROVE  Refines
<1>1. UNCHANGED Owed /\ Phase' = [Phase EXCEPT ![c] = "IDLE"]
  BY DEF Shows, Owed
<1>2. Protocol!Play(c, None) \/ UNCHANGED SeenPlaying
  BY OpenShows DEF Shows, Protocol!Play, SeenPlaying, Seen
<1>3. Protocol!Reject(c)
  BY <1>1, <1>2 DEF Protocol!Reject, Protocol!Enter
<1> QED
  BY <1>3 DEF Refines, Protocol!Next

LEMMA AbortRefines ==
  ASSUME OInv, NEW c \in Conns, AbortTask(c)
  PROVE  Refines
<1>1. pc[c] = "abort" /\ ~Paying("abort") /\ SessionIs(c, None) /\ UNCHANGED access
  BY DEF AbortTask, At, Paying, SessionIs, CancelSession
<1>2. socket[c] = "open" /\ Phase[c] = "PARSE_STANDBY" /\ Owed[c] = None
  BY <1>1, TaskShows DEF TaskSteps
<1>3. Shows(c, "IDLE", None, None)
  BY <1>1, <1>2, RespondShows DEF AbortTask
<1> QED
  BY <1>1, <1>2, <1>3, RejectRefines

LEMMA TaskStepRefines ==
  ASSUME OInv, NEW c \in Conns, TaskStep(c)
  PROVE  Refines
  BY StartPutRefines, ReadingRefines, CompleteRemoveRefines, TakeHintRefines,
     GrantRefines, AbortRefines
  DEF TaskStep, SessionStep

-----------------------------------------------------------------------------
(* TaskService and MessageRouter *)

LEMMA ReadyShows ==
  ASSUME OInv, NEW c \in Conns, Ready(c)
  PROVE  /\ socket[c] = "open" /\ frame[c].reply # "task" /\ ~Paying(pc[c])
         /\ Phase[c] = state[c] /\ Owed[c] = None
         /\ SeenPlaying[UserOf[c]] = Seen(activeTasks[UserOf[c]])
<1>1. socket[c] = "open" /\ frame[c].reply # "task" /\ ~Paying(pc[c])
  BY ReadyHolds DEF Ready, At, Paying
<1> QED
  BY <1>1, OpenShows DEF OpenPhase, OwedAt

LEMMA ReadyAnswerRefines ==
  ASSUME OInv, NEW c \in Conns, Ready(c), NEW r \in {"ok", "error"}, Respond(c, r),
         UNCHANGED <<socket, state, activeTasks, access>>
  PROVE  Refines
  BY ReadyShows, AnswerUnseen, UnseenRefines

\* A message whose handler goes on: nothing is seen yet.
LEMMA ReadyGoOnRefines ==
  ASSUME OInv, NEW c \in Conns, Ready(c), NEW label \in {"start", "abort", "check", "take"},
         NEW locals, Goto(c, label), frame' = [frame EXCEPT ![c] = locals],
         locals.reply = frame[c].reply, UNCHANGED <<socket, state, activeTasks, access>>
  PROVE  Refines
<1>1. ~Paying(label)
  BY DEF Paying
<1> QED
  BY <1>1, ReadyShows, GoOnUnseen, UnseenRefines

LEMMA ReadyJumpRefines ==
  ASSUME OInv, NEW c \in Conns, Ready(c), NEW label \in {"start", "abort", "check", "take"},
         Goto(c, label), UNCHANGED <<frame, socket, state, activeTasks, access>>
  PROVE  Refines
<1>1. frame' = [frame EXCEPT ![c] = frame[c]]
  BY DEF OInv, IInv, TypeOK, BaseTypeOK
<1> QED
  BY <1>1, ReadyGoOnRefines

LEMMA RespondToTaskRefines ==
  ASSUME OInv, NEW c \in Conns, Ready(c), RespondToTask(c)
  PROVE  Refines
<1>1. UNCHANGED <<socket, state, activeTasks, access>>
  BY DEF RespondToTask, serviceVars
<1>2. CASE Respond(c, "error")
  BY <1>1, <1>2, ReadyAnswerRefines
<1>3. ASSUME NEW t \in TaskIds, Goto(c, "start"), frame' = [frame EXCEPT ![c].arg = t]
      PROVE  Refines
  <2> DEFINE locals == [frame[c] EXCEPT !.arg = t]
  <2>1. frame' = [frame EXCEPT ![c] = locals] /\ locals.reply = frame[c].reply
    BY <1>3 DEF OInv, IInv, TypeOK, BaseTypeOK, Frames
  <2> HIDE DEF locals
  <2> QED
    BY <1>1, <1>3, <2>1, ReadyGoOnRefines
<1> QED
  BY <1>2, <1>3 DEF RespondToTask

LEMMA RespondToParseStatusRefines ==
  ASSUME OInv, NEW c \in Conns, Ready(c), state[c] = "PARSE_STANDBY",
         RespondToParseStatus(c)
  PROVE  Refines
<1> DEFINE session == activeTasks[UserOf[c]]
<1>1. UNCHANGED <<socket, activeTasks, access>>
  BY DEF RespondToParseStatus, serviceVars
<1>2. /\ socket[c] = "open" /\ Phase[c] = "PARSE_STANDBY" /\ Owed[c] = None
      /\ SeenPlaying[UserOf[c]] = Seen(session)
  BY ReadyShows
<1>3. ASSUME NEW r \in {"ok", "error"}, Respond(c, r), UNCHANGED state
      PROVE  Refines
  BY <1>1, <1>3, ReadyAnswerRefines
<1>4. CASE Goto(c, "abort") /\ UNCHANGED <<state, frame>>
  BY <1>1, <1>4, ReadyJumpRefines
<1>5. ASSUME NEW r \in {"ok", "error"}, Respond(c, r), ChangeState(c, "IDLE")
      PROVE  Refines
  <2>1. Shows(c, IF r = "task" THEN "PARSE_STANDBY" ELSE "IDLE", session, None)
    BY <1>1, <1>2, <1>5, SessionStays, RespondShows
  <2>2. r # "task"
    OBVIOUS
  <2> QED
    BY <1>1, <1>2, <2>1, <2>2, RejectRefines
<1>6. CASE ChangeState(c, "ACTIVE_TASK") /\ Respond(c, "ok")
  <2>1. Shows(c, "ACTIVE_TASK", session, None)
    BY <1>1, <1>2, <1>6, SessionStays, RespondShows
  <2>2. UNCHANGED <<SeenPlaying, Owed>> /\ Phase' = [Phase EXCEPT ![c] = "ACTIVE_TASK"]
    <3>1. /\ SeenPlaying' = [SeenPlaying EXCEPT ![UserOf[c]] = SeenPlaying[UserOf[c]]]
          /\ Owed' = [Owed EXCEPT ![c] = Owed[c]]
          /\ Phase' = [Phase EXCEPT ![c] = "ACTIVE_TASK"]
      BY <1>2, <2>1 DEF Shows
    <3>2. /\ [SeenPlaying EXCEPT ![UserOf[c]] = SeenPlaying[UserOf[c]]] = SeenPlaying
          /\ [Owed EXCEPT ![c] = Owed[c]] = Owed
      BY DEF SeenPlaying, Owed
    <3> QED
      BY <3>1, <3>2
  <2>3. Protocol!Accept(c)
    BY <1>1, <1>2, <2>2 DEF Protocol!Accept, Protocol!Enter
  <2> QED
    BY <2>3 DEF Refines, Protocol!Next
<1> QED
  BY <1>3, <1>4, <1>5, <1>6 DEF RespondToParseStatus

LEMMA PlayingMessageRefines ==
  ASSUME OInv, NEW c \in Conns, Ready(c), state[c] = "ACTIVE_TASK",
         RouteActiveTaskStateMessage(c)
  PROVE  Refines
<1> DEFINE session == activeTasks[UserOf[c]]
<1>1. /\ socket[c] = "open" /\ Phase[c] = "ACTIVE_TASK" /\ Owed[c] = None
      /\ SeenPlaying[UserOf[c]] = Seen(session) /\ pc[c] = "idle"
      /\ frame[c].reply # "task"
  BY ReadyShows DEF Ready, At
<1>2. CASE RespondToValidateFlag(c)
  BY <1>2, ReadyAnswerRefines, ReadyJumpRefines DEF RespondToValidateFlag, serviceVars
<1>3. CASE RespondToCancelTask(c)
  <2>1. /\ pc' = [pc EXCEPT ![c] = "idle"]
        /\ frame' = [frame EXCEPT ![c] = frame[c]]
        /\ state' = [state EXCEPT ![c] = "IDLE"] /\ SessionIs(c, None)
        /\ UNCHANGED <<socket, access>>
    BY <1>1, <1>3
    DEF RespondToCancelTask, CancelSession, SessionIs, ChangeState, OInv, IInv, TypeOK,
        BaseTypeOK
  <2>2. Shows(c, OpenPhase("idle", frame[c].reply, "IDLE"), None, OwedAt("idle", frame[c]))
    BY <1>1, <2>1, MoveShows
  <2>3. /\ OpenPhase("idle", frame[c].reply, "IDLE") = "IDLE"
        /\ OwedAt("idle", frame[c]) = None /\ Seen(None) = None
    BY <1>1 DEF OpenPhase, OwedAt, Paying, Seen
  <2>4. UNCHANGED Owed
    <3>1. Owed' = [Owed EXCEPT ![c] = Owed[c]]
      BY <1>1, <2>2, <2>3 DEF Shows
    <3>2. [Owed EXCEPT ![c] = Owed[c]] = Owed
      BY DEF Owed
    <3> QED
      BY <3>1, <3>2
  <2>5. Protocol!Cancel(c)
    BY <1>1, <2>1, <2>2, <2>3, <2>4
    DEF Shows, Protocol!Cancel, Protocol!Enter, Protocol!Play
  <2> QED
    BY <2>5 DEF Refines, Protocol!Next
<1>4. CASE RespondToGetHint(c)
  <2>1. UNCHANGED <<activeTasks, access>>
    BY <1>4 DEF RespondToGetHint, RetrieveHint
  <2>2. CASE Respond(c, "error") /\ UNCHANGED <<socket, state>>
    BY <2>1, <2>2, ReadyAnswerRefines
  <2>3. CASE Throw(c)
    BY <1>1, <2>1, <2>3, ThrowRefines
  <2>4. ASSUME NEW index, Goto(c, "take"), UNCHANGED <<socket, state>>,
               frame' = [frame EXCEPT ![c].held = session, ![c].arg = index - 1]
        PROVE  Refines
    <3> DEFINE locals == [frame[c] EXCEPT !.held = session, !.arg = index - 1]
    <3>1. frame' = [frame EXCEPT ![c] = locals] /\ locals.reply = frame[c].reply
      BY <2>4 DEF OInv, IInv, TypeOK, BaseTypeOK, Frames
    <3> HIDE DEF locals
    <3> QED
      BY <2>1, <2>4, <3>1, ReadyGoOnRefines
  <2> QED
    BY <1>4, <2>2, <2>3, <2>4 DEF RespondToGetHint, RetrieveHint
<1> QED
  BY <1>2, <1>3, <1>4 DEF RouteActiveTaskStateMessage

LEMMA HandleMessageRefines ==
  ASSUME OInv, NEW c \in Conns, HandleMessage(c)
  PROVE  Refines
<1>1. Ready(c)
  BY DEF HandleMessage
<1>2. CASE HandleInvalidMessageType(c)
  BY <1>1, <1>2, ReadyAnswerRefines DEF HandleInvalidMessageType, serviceVars
<1>3. CASE RespondToTaskInfo(c)
  BY <1>1, <1>3, ReadyAnswerRefines DEF RespondToTaskInfo, serviceVars
<1> QED
  BY <1>1, <1>2, <1>3, RespondToTaskRefines, RespondToParseStatusRefines,
     PlayingMessageRefines
  DEF HandleMessage, RouteGameMessage, RouteIdleStateMessage, RouteParseStandbyStateMessage

LEMMA StutterUnseen == UNCHANGED vars => Unseen
  BY DEF vars, baseVars, Unseen, Phase, PhaseOf, Owed, OwedTo, SeenPlaying

LEMMA NextRefines == OInv /\ [Next /\ Orderly']_vars => Refines
<1> SUFFICES ASSUME OInv, [Next /\ Orderly']_vars PROVE Refines
  OBVIOUS
<1>1. CASE UNCHANGED vars
  BY <1>1, StutterUnseen, UnseenRefines
<1>2. ASSUME NEW c \in Conns, ThreadStep(c) PROVE Refines
  BY <1>2, AppendPutRefines, SendStepRefines, TaskStepRefines DEF ThreadStep
<1>3. ASSUME NEW c \in Conns, HandleMalformedMessage(c) PROVE Refines
  BY <1>3, ReadyShows, ThrowRefines DEF HandleMalformedMessage, serviceVars
<1>4. CASE Next /\ Orderly'
  BY <1>2, <1>3, <1>4, EstablishRefines, ClientCloseRefines, HandleMessageRefines,
     CloserRefines, RestartRefines
  DEF Next, ConnStep
<1> QED
  BY <1>1, <1>4

-----------------------------------------------------------------------------
(* The theorem *)

LEMMA InitShows == Init => Protocol!Init
<1> SUFFICES ASSUME Init PROVE Protocol!Init
  OBVIOUS
<1>1. \A c \in Conns : PhaseOf(c) = "away" /\ OwedTo(c) = None
  BY DEF Init, BaseInit, PhaseOf, OwedTo, OwedAt, Paying
<1>2. Phase = [c \in Conns |-> "away"] /\ Owed = [c \in Conns |-> None]
  BY <1>1 DEF Phase, Owed
<1>3. SeenPlaying = [u \in Users |-> None]
  BY DEF Init, SessionInit, SeenPlaying, Seen
<1> QED
  BY <1>2, <1>3 DEF Init, AccessInit, Protocol!Init

\* The registry, the map, the table and the threads amount to GameProtocol,
\* whatever the users, the tasks and the hints are, as long as no user has two
\* connections at a time.
THEOREM ServerImplementsProtocol == OrderlySpec => ImplementsProtocol
<1>1. Init => Protocol!Init
  BY InitShows
<1>2. OInv /\ [Next /\ Orderly']_vars => [Protocol!Next]_(Protocol!protocolVars)
  BY NextRefines DEF Refines
<1> QED
  BY <1>1, <1>2, OrderlyInductive, PTL DEF OrderlySpec, ImplementsProtocol, Protocol!Spec

===============================================================================
