------------------------- MODULE TaskSessionService -------------------------
(***************************************************************************)
(* TaskSessionService: the task sessions in memory, one per user at most.  *)
(* Its methods are not synchronized; each reads and writes the map in      *)
(* separate calls, which are the actions below.                            *)
(***************************************************************************)
EXTENDS GameBase

VARIABLE activeTasks  \* TaskSessionService.activeSessions

SessionTypeOK == activeTasks \in [Users -> Sessions \cup {None}]

SessionInit == activeTasks = [u \in Users |-> None]

UserInActiveSession(u) == activeTasks[u] # None

\* new TaskSession(userID, taskID, components): no hint is retrieved yet.
NewSession(i, t) == [id |-> i, task |-> t, taken |-> {}]

\* The indices of the hints that getTaskHints finds for a task.
TaskHints(t) == 0 .. HintCount[t] - 1

\* Identities a new object can have: no map entry and no thread refers to them.
FreeIds ==
    {i \in SessionIds :
        /\ \A u \in Users : activeTasks[u] # None => activeTasks[u].id # i
        /\ \A c \in Conns : frame[c].held # None => frame[c].held.id # i}

\* A mutated form of StartCheck: nobody asks for a session the user has.
StartCheckNot(c) ==
    /\ At(c, "start")
    /\ Goto(c, "put")
    /\ UNCHANGED <<socket, closer, state, frame, activeTasks>>

\* startTaskSession, its test.
StartCheck(c) ==
    /\ At(c, "start")
    /\ IF UserInActiveSession(UserOf[c])
       THEN Respond(c, "error")
       ELSE Goto(c, "put") /\ UNCHANGED frame
    /\ UNCHANGED <<socket, closer, state, activeTasks>>

\* startTaskSession, its put. The least free identity stands for whatever
\* address the object gets.
StartPut(c) ==
    /\ At(c, "put")
    /\ \E i \in FreeIds :
         /\ \A j \in FreeIds : i <= j
         /\ activeTasks' = [activeTasks EXCEPT ![UserOf[c]] = NewSession(i, frame[c].arg)]
    /\ Respond(c, "task")
    /\ UNCHANGED <<socket, closer, state>>

\* cancelSession: by user, whatever session is in the map.
CancelSession(u) == activeTasks' = [activeTasks EXCEPT ![u] = None]

\* validateFlag: getTaskSession(userID).getFlag(), null if the session went
\* since userInActiveSession, compared with the flag of the message.
ValidateFlag(c) ==
    /\ At(c, "check")
    /\ LET s == activeTasks[UserOf[c]] IN
         \/ s = None /\ Throw(c)
         \/ /\ s # None
            /\ \E flag \in Flags :
                 IF flag = FlagOf[s.task]
                 THEN Goto(c, "complete") /\ frame' = [frame EXCEPT ![c].held = s]
                 ELSE Respond(c, "ok")
            /\ UNCHANGED <<socket, closer, state>>
    /\ UNCHANGED activeTasks

\* completeSession, its test; null means that nothing is unlocked.
CompleteCheck(c) ==
    /\ At(c, "complete")
    /\ IF UserInActiveSession(UserOf[c])
       THEN Goto(c, "fetch") /\ UNCHANGED <<state, frame>>
       ELSE ChangeState(c, "IDLE") /\ Respond(c, "ok")
    /\ UNCHANGED <<socket, closer, activeTasks>>

\* completeSession, getTaskSession.
CompleteFetch(c) ==
    /\ At(c, "fetch")
    /\ frame' = [frame EXCEPT ![c].held = activeTasks[UserOf[c]]]
    /\ Goto(c, "remove")
    /\ UNCHANGED <<socket, closer, state, activeTasks>>

\* completeSession, remove and session.getUnlocksTaskID(); the caller grants
\* the unlocked task, if there is one.
CompleteRemove(c) ==
    /\ At(c, "remove")
    /\ CancelSession(UserOf[c])
    /\ LET s == frame[c].held IN
         \/ s = None /\ Throw(c)
         \/ /\ s # None
            /\ IF Unlocks[s.task] = None
               THEN ChangeState(c, "IDLE") /\ Respond(c, "ok")
               ELSE Goto(c, "grant") /\ UNCHANGED <<state, frame>>
            /\ UNCHANGED <<socket, closer>>

\* retrieveHint, up to isRetrieved: the list is that of the session in the
\* map; without one getTaskSession(userID).getHints() fails. Clients count
\* the hints from one, the table counts them from zero.
RetrieveHint(c) ==
    /\ LET s == activeTasks[UserOf[c]] IN
         \/ s = None /\ Throw(c)
         \/ /\ s # None
            /\ \E index \in HintAsks :
                 IF index - 1 \in TaskHints(s.task) \ s.taken
                 THEN /\ Goto(c, "take")
                      /\ frame' = [frame EXCEPT ![c].held = s, ![c].arg = index - 1]
                 ELSE Respond(c, "error")
            /\ UNCHANGED <<socket, closer, state>>
    /\ UNCHANGED activeTasks

\* A mutated form of TakeHint: the session is looked up again to mark the hint.
TakeHintAgain(c) ==
    /\ At(c, "take")
    /\ LET u == UserOf[c] IN
         activeTasks' =
            IF UserInActiveSession(u)
            THEN [activeTasks EXCEPT ![u].taken = @ \cup {frame[c].arg}]
            ELSE activeTasks
    /\ Respond(c, "ok")
    /\ UNCHANGED <<socket, closer, state>>

\* hint.setRetrieved(true), on the object found; nobody can see it any more
\* when its session has left the map. Then the JSON of the reply is built
\* around the text, which fails on a text with a quote in it.
TakeHint(c) ==
    /\ At(c, "take")
    /\ LET u == UserOf[c]
           s == frame[c].held
       IN activeTasks' =
            IF UserInActiveSession(u) /\ activeTasks[u].id = s.id
            THEN [activeTasks EXCEPT ![u].taken = @ \cup {frame[c].arg}]
            ELSE activeTasks
    /\ \/ Respond(c, "ok") /\ UNCHANGED <<socket, closer, state>>
       \/ Throw(c)

SessionStep(c) == StartCheck(c) \/ StartPut(c) \/ ValidateFlag(c) \/ CompleteCheck(c)
                    \/ CompleteFetch(c) \/ CompleteRemove(c) \/ TakeHint(c)
=============================================================================
