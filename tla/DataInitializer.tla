--------------------------- MODULE DataInitializer ---------------------------
(***************************************************************************)
(* DataInitializer.run: tasks first, then the static users, in the main    *)
(* thread of a process that may stop at any point and be started again,    *)
(* with the same task files or others. The database is what stays.         *)
(***************************************************************************)
EXTENDS TaskSeeding

CONSTANT StaticUsers  \* the usernames initializeStaticUsers goes through, in order

ASSUME StaticUsersAssumption == StaticUsers \in Seq(STRING)

VARIABLES
    users,       \* usernames in the table "users"
    firstAccess  \* users with a row for FIRST_TASK_ID in user_task_access

vars == <<seedVars, users, firstAccess>>

StaticNames == {StaticUsers[k] : k \in 1 .. Len(StaticUsers)}

TypeOK ==
    /\ SeedingTypeOK
    /\ users \subseteq StaticNames
    /\ firstAccess \subseteq StaticNames

Init ==
    /\ SeedingInit
    /\ users = {}
    /\ firstAccess = {}

\* The process starts, with the task files and the setting of that time.
Start ==
    /\ boot.at = "down"
    /\ version' \in Versions
    /\ editing' \in BOOLEAN
    /\ boot' = Beginning
    /\ UNCHANGED <<tasks, hints, users, firstAccess>>

\* The process is stopped, or an exception leaves run, which ends it as well.
Stop ==
    /\ boot.at # "down"
    /\ boot' = [Beginning EXCEPT !.at = "down"]
    /\ UNCHANGED <<version, editing, tasks, hints, users, firstAccess>>

\* run: initializeTasks has gone through the files, initializeStaticUsers is called.
TasksDone ==
    /\ boot.at = "task"
    /\ boot.file > Len(Seeds)
    /\ boot' = [boot EXCEPT !.at = "user"]
    /\ UNCHANGED <<version, editing, tasks, hints, users, firstAccess>>

Username == StaticUsers[boot.user]

NextUser == boot' = [boot EXCEPT !.at = "user", !.user = @ + 1]

\* UserService.initializeStaticUsers: nothing to do for a name that exists.
CheckStaticUser ==
    /\ boot.at = "user"
    /\ boot.user <= Len(StaticUsers)
    /\ IF Username \in users THEN NextUser ELSE boot' = [boot EXCEPT !.at = "save"]
    /\ UNCHANGED <<version, editing, tasks, hints, users, firstAccess>>

SaveStaticUser ==
    /\ boot.at = "save"
    /\ users' = users \cup {Username}
    /\ boot' = [boot EXCEPT !.at = "grant"]
    /\ UNCHANGED <<version, editing, tasks, hints, firstAccess>>

\* TaskAccessService.grantNewUserAccess.
GrantNewUserAccess ==
    /\ boot.at = "grant"
    /\ firstAccess' = firstAccess \cup {Username}
    /\ NextUser
    /\ UNCHANGED <<version, editing, tasks, hints, users>>

\* run returns; the process goes on serving.
UsersDone ==
    /\ boot.at = "user"
    /\ boot.user > Len(StaticUsers)
    /\ boot' = [boot EXCEPT !.at = "up"]
    /\ UNCHANGED <<version, editing, tasks, hints, users, firstAccess>>

BootStep ==
    \/ (ListTaskFiles \/ InitializeTask \/ InitializeHint) /\ UNCHANGED <<users, firstAccess>>
    \/ TasksDone
    \/ CheckStaticUser
    \/ SaveStaticUser
    \/ GrantNewUserAccess
    \/ UsersDone

Next == Start \/ Stop \/ BootStep

Spec == Init /\ [][Next]_vars

\* The main thread goes on until run returns; nothing says that a process that
\* has stopped is started again, or that it is never stopped.
FairSpec == Spec /\ WF_vars(BootStep)

-----------------------------------------------------------------------------
(* The seeding as a whole, across starts and stops                            *)

\* The rows of a file are there, of whatever version.
Present(seed) ==
    seed.valid => /\ tasks[seed.task] # None
                  /\ \A i \in 0 .. seed.hints - 1 : hints[seed.task][i] # None

PastTasks == boot.at \in {"user", "save", "grant", "up"}

Listed == boot.listing = "done"

\* When this start has found its task files and is past them, the task and all
\* the hints of every good file are in the database, also when an earlier start
\* was cut off between a task and its hints, or between two hints. A start whose
\* listing fails promises nothing: it goes on with the tables as they are.
SeedingComplete ==
    PastTasks /\ Listed => \A i \in DOMAIN Seeds : Present(Seeds[i])

\* "Hint er avhengig av oppgaver": no hint without its task, at no time.
HintsFollowTask ==
    \A t \in TaskIds, i \in 0 .. MaxHints - 1 : hints[t][i] # None => tasks[t] # None

\* Without the setting to edit, a row that is in the database stays as it is,
\* however often and with whatever files the process is started.
RowsAreKept ==
    [][~editing => \A t \in TaskIds :
          /\ tasks[t] # None => tasks'[t] = tasks[t]
          /\ \A i \in 0 .. MaxHints - 1 :
               hints[t][i] # None => hints'[t][i] = hints[t][i]]_vars

\* With it, the rows of every good file are those of the files this start found:
\* "Redigerer en rad i oppgavetabellen dersom den finnes, eller skaper den dersom
\* ikke" (editOrCreateTask), for hints too, after any history of the tables. That
\* nothing happens to a task that exists (initializeTasks) is RowsAreKept.
RowsAreCurrent ==
    PastTasks /\ Listed /\ editing => \A i \in DOMAIN Seeds :
        LET seed == Seeds[i] IN
        seed.valid => /\ tasks[seed.task] = version
                      /\ \A h \in 0 .. seed.hints - 1 : hints[seed.task][h] = version

\* run ends, unless the process does: every round of its loops comes closer to
\* the end, also over rows that are there.
StartupEnds == boot.at \notin {"down", "up"} ~> boot.at \in {"down", "up"}

-----------------------------------------------------------------------------
(* What a comment says, and the code does not keep                           *)

\* With the setting to edit, a task has the hints of its file and no others.
HintsMatchFile ==
    PastTasks /\ Listed /\ editing => \A i \in DOMAIN Seeds :
        LET seed == Seeds[i] IN
        seed.valid =>
            {h \in 0 .. MaxHints - 1 : hints[seed.task][h] # None} = 0 .. seed.hints - 1
=============================================================================
