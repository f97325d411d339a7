------------------------------ MODULE GameBase ------------------------------
(***************************************************************************)
(* What every component of the game backend shares: the static data (who   *)
(* plays, which tasks the database holds), the WebSocket connections as    *)
(* the container keeps them, and the container thread that runs the        *)
(* handler of each connection.                                             *)
(*                                                                         *)
(* A handler is cut at every access to state that another thread can see   *)
(* (a ConcurrentHashMap call, a database call, a call on the socket): one  *)
(* action per access, with the thread-local code before it folded in.      *)
(***************************************************************************)
EXTENDS Integers, FiniteSets

CONSTANTS
    Conns,         \* WebSocketSession objects; each one is used for one connection
    Users,         \* rows of the table "users"
    UserOf,        \* the user a connection is bound to when it is established
    SpecialUsers,  \* the users whose role is ADMIN or DEV
    TaskIds,       \* the ids a client can ask for, existing or not
    Tasks,         \* rows of the table "tasks"
    FirstTask,     \* TaskAccessService.FIRST_TASK_ID
    Unlocks,       \* Task.unlocksTaskID, None when the task unlocks nothing
    HintCount,     \* how many rows of "hints" a task has (index 0 .. n-1)
    HintAsks,      \* the hint indices clients send
    Flags,         \* the flags clients send, and those the tasks have
    FlagOf,        \* the flag getAndProcessTaskComponents gives a task
    SessionIds,    \* identities of TaskSession objects (addresses)
    None           \* null

ASSUME BaseAssumption ==
    /\ UserOf \in [Conns -> Users]
    /\ SpecialUsers \subseteq Users
    /\ Tasks \subseteq TaskIds
    /\ FirstTask \in TaskIds
    /\ Unlocks \in [Tasks -> TaskIds \cup {None}]
    /\ HintCount \in [Tasks -> Nat]
    /\ HintAsks \subseteq Int
    /\ FlagOf \in [Tasks -> Flags]
    /\ SessionIds \subseteq Nat

ASSUME NoneAssumption ==
    /\ None \notin Users
    /\ None \notin Conns
    /\ None \notin TaskIds
    /\ None \notin Int
    /\ None \notin [id : SessionIds, task : Tasks, taken : SUBSET Nat]
    /\ None \notin {"task", "ok", "error"}

\* There is always an address for one more TaskSession: every user has one at
\* most, and every thread refers to one at most.
ASSUME SessionIdsAssumption ==
    Cardinality(SessionIds) > Cardinality(Users) + Cardinality(Conns)

VARIABLES
    socket,  \* socket[c]: the native session: "new", "open" or "closed"
    closer,  \* closer[c]: how far afterConnectionClosed(c) has come
    state,   \* state[c]: UserSession.state of the connection
    pc,      \* pc[c]: where the thread that serves c is
    frame    \* frame[c]: the local variables of that thread that outlive a step

baseVars == <<socket, closer, state, pc, frame>>

UserStates == {"IDLE", "PARSE_STANDBY", "ACTIVE_TASK"}

\* A TaskSession object. "taken" holds the indices of the HintDTOs whose
\* retrieved field is true.
Sessions == [id : SessionIds, task : Tasks, taken : SUBSET Nat]

\* The reply a handler is sending: the answer to "task" is told apart because
\* the handler still has something to do when it is sent.
Replies == {"task", "ok", "error"}

EmptyFrame == [arg |-> None, held |-> None, reply |-> None, target |-> None]

Frames == [arg    : TaskIds \cup Int \cup {None},  \* taskID, or the hint's index
           held   : Sessions \cup {None},          \* TaskSession reference
           reply  : Replies \cup {None},
           target : Conns \cup {None}]             \* WebSocketSession reference

SendSteps == {"send", "get", "write", "disconnect", "await"}
TaskSteps == {"start", "put", "abort", "check", "complete", "fetch",
              "remove", "grant", "save", "take"}
Labels    == {"idle", "append"} \cup SendSteps \cup TaskSteps

BaseTypeOK ==
    /\ socket \in [Conns -> {"new", "open", "closed"}]
    /\ closer \in [Conns -> {"none", "remove", "cancel", "done"}]
    /\ state \in [Conns -> UserStates]
    /\ pc \in [Conns -> Labels]
    /\ frame \in [Conns -> Frames]

BaseInit ==
    /\ socket = [c \in Conns |-> "new"]
    /\ closer = [c \in Conns |-> "none"]
    /\ state = [c \in Conns |-> "IDLE"]
    /\ pc = [c \in Conns |-> "idle"]
    /\ frame = [c \in Conns |-> EmptyFrame]

At(c, label) == pc[c] = label

Goto(c, label) == pc' = [pc EXCEPT ![c] = label]

\* UserSession.changeState
ChangeState(c, s) == state' = [state EXCEPT ![c] = s]

\* sender.send(userID, reply) and sender.sendError(userID, reply, ...) are
\* called; what the handler knew until now is no longer used.
Respond(c, r) ==
    /\ Goto(c, "send")
    /\ frame' = [frame EXCEPT ![c] = [EmptyFrame EXCEPT !.reply = r]]

\* The handler returns to the container.
Finish(c) ==
    /\ Goto(c, "idle")
    /\ frame' = [frame EXCEPT ![c] = EmptyFrame]

\* session.close(): the container lets one caller win; the winner's thread
\* runs afterConnectionClosed before the call returns.
CloseSocket(d) ==
    /\ socket' = [socket EXCEPT ![d] = "closed"]
    /\ closer' = IF socket[d] = "open" THEN [closer EXCEPT ![d] = "remove"]
                                       ELSE closer

\* An unchecked exception leaves the handler of c: the container's exception
\* decorator closes the connection of that handler.
Throw(c) ==
    /\ CloseSocket(c)
    /\ Finish(c)
    /\ UNCHANGED state

\* A connection somebody still serves, or whose end is still being handled.
Live(c) == socket[c] = "open" \/ closer[c] \in {"remove", "cancel"} \/ ~At(c, "idle")
=============================================================================
