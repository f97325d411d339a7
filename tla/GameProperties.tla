--------------------------- MODULE GameProperties ---------------------------
(***************************************************************************)
(* What the game backend is expected to keep, whatever the threads do, and *)
(* what it keeps only for users who have one connection at a time.         *)
(***************************************************************************)
EXTENDS GameServer

-----------------------------------------------------------------------------
(* For every behaviour *)

\* A user's entry in the registry is a connection of that user whose end has
\* not been handled yet: appendSession's put never comes after the
\* removeSession of the same connection, so no dead entry locks the user out.
RegistryLive ==
    \A u \in Users : registry[u] # None =>
        /\ UserOf[registry[u]] = u
        /\ closer[registry[u]] \in {"none", "remove"}

\* send writes to a connection of the user it was called for, although it
\* looks the connection up, and handleDisconnect looks it up once more.
RepliesStayWithUser ==
    \A c \in Conns :
        pc[c] \in {"write", "await"} => UserOf[frame[c].target] = UserOf[c]

\* The task a user has a session for is one the user may play: respondToTask
\* asks userHasAccess long before startTaskSession puts the session, and what
\* it asked of the table still holds then.
SessionAuthorised ==
    \A u \in Users :
        activeTasks[u] # None => UserHasAccess(u, activeTasks[u].task)

\* Every task in user_task_access was reached along the chain: it is the first
\* one, or the user has access to a task that unlocks it. grantUserAccess gets
\* the id from a session that is no longer in the map, or is another one's.
AccessChain ==
    \A u \in Users, t \in TaskIds : <<u, t>> \in access =>
        \/ t = FirstTask
        \/ \E s \in Tasks : UserHasAccess(u, s) /\ Unlocks[s] = t

\* The hints marked as retrieved in a session are hints of its own task, also
\* when another connection of the user has put the session of another task
\* between retrieveHint's lookup and its setRetrieved.
HintsOfOwnTask ==
    \A u \in Users : LET s == activeTasks[u] IN
        s # None => s.taken \subseteq TaskHints(s.task)

\* The arrows of the state machine in tekst/websocket-API.txt, and
\* "cancel-task", which leads from ACTIVE_TASK to IDLE.
Diagram == {<<"IDLE", "PARSE_STANDBY">>, <<"PARSE_STANDBY", "IDLE">>,
            <<"PARSE_STANDBY", "ACTIVE_TASK">>, <<"ACTIVE_TASK", "IDLE">>}

\* UserSession.state only follows the documented arrows: a handler changes it
\* several steps after the router read it, and nothing moves it in between.
DocumentedTransitions ==
    [][\A c \in Conns :
          state'[c] # state[c] => <<state[c], state'[c]>> \in Diagram]_vars

\* A handler that has begun returns: no send, no close and no lookup leaves
\* the thread waiting for good, whatever the other threads do.
HandlerReturns == \A c \in Conns : ~At(c, "idle") ~> At(c, "idle")

\* When a connection is gone, afterConnectionClosed completes and the registry
\* ends up without it, also when its handler was still under way.
ClosedIsForgotten ==
    \A c \in Conns :
        socket[c] = "closed" ~> (closer[c] = "done" /\ registry[UserOf[c]] # c)

\* No task session outlives the next close of a connection of its user: one
\* that startTaskSession put while, or after, the close before was handled stays
\* behind without a player, but cancelSession goes by user and takes it then.
CloseEndsSession ==
    \A c \in Conns :
        closer[c] \in {"remove", "cancel"} ~> ~UserInActiveSession(UserOf[c])

-----------------------------------------------------------------------------
(* The strengthening that makes the invariants above inductive                *)

\* What a thread at a label knows by its local variables: the task it asked
\* for exists and its user may play it, and so with the session it holds, which
\* need not be in the map any more; the connection it sends to is its user's.
ThreadOK(c, label, locals) ==
    /\ label \in {"start", "put"} =>
         locals.arg \in Tasks /\ UserHasAccess(UserOf[c], locals.arg)
    /\ label = "take" => locals.arg \in Nat
    /\ label \in {"take", "grant", "save"} => locals.held # None
    /\ label \in {"grant", "save"} => Unlocks[locals.held.task] # None
    /\ locals.held # None => UserHasAccess(UserOf[c], locals.held.task)
    /\ label \in {"write", "await"} =>
         locals.target # None /\ UserOf[locals.target] = UserOf[c]

ThreadsOK == \A c \in Conns : ThreadOK(c, pc[c], frame[c])

\* afterConnectionClosed runs for the connections that are closed, and only a
\* connection that has been opened has a handler under way.
SocketOK ==
    \A c \in Conns :
        /\ socket[c] \in {"new", "open"} <=> closer[c] = "none"
        /\ socket[c] = "new" => At(c, "idle")
        /\ At(c, "append") => socket[c] = "open"

\* appendSession's put is the only way into the registry.
RegisteredWasOpened ==
    \A u \in Users : registry[u] # None =>
        socket[registry[u]] # "new" /\ ~At(registry[u], "append")

\* The inductive invariant: in every reachable state, whatever the threads of
\* a user's connections do to the registry, the map and the table.
IInv ==
    /\ TypeOK
    /\ ThreadsOK
    /\ SocketOK
    /\ RegistryLive
    /\ RegisteredWasOpened
    /\ SessionAuthorised
    /\ AccessChain

-----------------------------------------------------------------------------
(* For users with one connection at a time (OrderlySpec); with two            *)
(* connections of a user these fail.                                          *)

\* Between messages, a player who is parsing or playing a task has a session:
\* the state is kept in UserSession, the session in TaskSessionService, and no
\* step of close, cancel or solve changes one of them alone.
ActiveHasSession ==
    \A c \in Conns :
        Ready(c) /\ state[c] # "IDLE" => UserInActiveSession(UserOf[c])

\* A served connection is the one registered for its user, so every reply the
\* handlers send has somewhere to go.
RegisteredWhileServed ==
    \A c \in Conns :
        socket[c] = "open" /\ ~At(c, "append") => registry[UserOf[c]] = c

\* A player who is told that the flag is correct has the unlocked task, if
\* there is one, in user_task_access by then.
SolvedIsUnlocked ==
    [][\A c \in Conns :
          pc[c] \in {"complete", "remove", "grant", "save"} /\ At(c, "send")'
             => LET t == Unlocks[frame[c].held.task] IN
                t # None => <<UserOf[c], t>> \in access']_vars

\* Outside a task a player has no session.
IdleOutsideTask ==
    \A c \in Conns :
        Ready(c) /\ state[c] = "IDLE" => ~UserInActiveSession(UserOf[c])

-----------------------------------------------------------------------------
(* The abstract protocol, and how the server's state shows it. A thread that  *)
(* sends the reply to "task" has yet to change the state, and so has one that *)
(* is writing down what a solved task unlocks.                                *)

Paying(label) == label \in {"grant", "save"}

OpenPhase(label, reply, s) ==
    IF reply = "task" THEN "PARSE_STANDBY" ELSE IF Paying(label) THEN "IDLE" ELSE s

PhaseOf(c) ==
    IF socket[c] = "new" THEN "away"
    ELSE IF socket[c] = "closed" THEN "gone"
    ELSE OpenPhase(pc[c], frame[c].reply, state[c])

OwedAt(label, locals) == IF Paying(label) THEN Unlocks[locals.held.task] ELSE None

OwedTo(c) == OwedAt(pc[c], frame[c])

Seen(session) ==
    IF session = None THEN None ELSE [task |-> session.task, taken |-> session.taken]

Phase == [c \in Conns |-> PhaseOf(c)]

Owed == [c \in Conns |-> OwedTo(c)]

SeenPlaying == [u \in Users |-> Seen(activeTasks[u])]

Protocol == INSTANCE GameProtocol WITH
    phase <- Phase, playing <- SeenPlaying, owed <- Owed, unlocked <- access

\* With one connection at a time per user, the registry, the two maps and the
\* threads amount to GameProtocol: every step of the server is one of its
\* steps, or leaves what the player can see alone.
ImplementsProtocol == Protocol!Spec
=============================================================================
