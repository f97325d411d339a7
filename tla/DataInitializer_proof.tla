----------------------- MODULE DataInitializer_proof -----------------------
(***************************************************************************)
(* The seeding survives stops: for any task files, deployed in any order,  *)
(* and any number of starts and stops.                                     *)
(***************************************************************************)
EXTENDS DataInitializer, TLAPS

\* The files before the one the main thread is at are seeded, and so are the
\* hints before the one it is at.
Progress ==
    /\ boot.at = "list" => boot.file = 1 /\ ~Listed
    /\ boot.at = "task" =>
         \A i \in DOMAIN Seeds : i < boot.file => Present(Seeds[i])
    /\ boot.at = "hint" =>
         /\ boot.file \in DOMAIN Seeds
         /\ tasks[Seed.task] # None
         /\ \A i \in DOMAIN Seeds : i < boot.file => Present(Seeds[i])
         /\ \A h \in 0 .. MaxHints - 1 : h < boot.hint => hints[Seed.task][h] # None
    /\ PastTasks /\ Listed => \A i \in DOMAIN Seeds : Present(Seeds[i])

SeedInv ==
    /\ SeedingTypeOK
    /\ HintsFollowTask
    /\ Progress

\* No row disappears.
Grows ==
    /\ \A t \in TaskIds : tasks[t] # None => tasks'[t] # None
    /\ \A t \in TaskIds, h \in 0 .. MaxHints - 1 :
         hints[t][h] # None => hints'[t][h] # None

-----------------------------------------------------------------------------
LEMMA SeqElement ==
  ASSUME NEW S, NEW seq \in Seq(S), NEW i \in DOMAIN seq
  PROVE  DOMAIN seq = 1 .. Len(seq) /\ seq[i] \in S
  OBVIOUS

LEMMA FilesType ==
  ASSUME NEW v \in Versions, NEW i \in DOMAIN Files[v]
  PROVE  /\ DOMAIN Files[v] = 1 .. Len(Files[v])
         /\ Files[v][i].task \in TaskIds
         /\ Files[v][i].hints \in 0 .. MaxHints
<1> DEFINE S == [task : TaskIds, hints : 0 .. MaxHints, valid : BOOLEAN]
<1>1. Files[v] \in Seq(S)
  BY SeedingAssumption
<1>2. DOMAIN Files[v] = 1 .. Len(Files[v]) /\ Files[v][i] \in S
  <2> HIDE DEF S
  <2> QED
    BY <1>1, SeqElement
<1> QED
  BY <1>2

LEMMA SeedsType ==
  ASSUME SeedingTypeOK
  PROVE  /\ version \in Versions
         /\ Len(Seeds) \in Nat
         /\ DOMAIN Seeds = 1 .. Len(Seeds)
  BY SeedingAssumption DEF SeedingTypeOK, Seeds

\* What is present stays present, for the files of any version.
LEMMA PresentStays ==
  ASSUME Grows, NEW v \in Versions, NEW i \in DOMAIN Files[v], Present(Files[v][i])
  PROVE  Present(Files[v][i])'
<1>1. 0 .. Files[v][i].hints - 1 \subseteq 0 .. MaxHints - 1
  BY FilesType, SeedingAssumption
<1> QED
  BY <1>1, FilesType DEF Present, Grows

-----------------------------------------------------------------------------
LEMMA InitSeedInv == Init => SeedInv
<1> SUFFICES ASSUME Init PROVE SeedInv
  OBVIOUS
<1> USE SeedingAssumption DEF Init, SeedingInit, Beginning
<1>1. SeedingTypeOK
  <2>1. boot \in Boots
    <3>1. boot = [at |-> "down", listing |-> "none", file |-> 1, hint |-> 0, user |-> 1]
      OBVIOUS
    <3>2. 0 \in 0 .. MaxHints /\ 1 \in Nat \ {0}
      OBVIOUS
    <3> QED
      BY <3>1, <3>2 DEF Boots
  <2>2. [i \in 0 .. MaxHints - 1 |-> None] \in [0 .. MaxHints - 1 -> Versions \cup {None}]
    OBVIOUS
  <2> QED
    BY <2>1, <2>2 DEF SeedingTypeOK
<1>2. HintsFollowTask /\ Progress
  BY DEF HintsFollowTask, Progress, PastTasks, Listed
<1> QED
  BY <1>1, <1>2 DEF SeedInv

LEMMA InitializeTaskKeeps ==
  ASSUME SeedInv, InitializeTask
  PROVE  SeedInv'
<1> USE DEF SeedInv
<1>1. /\ version \in Versions
      /\ boot.file \in DOMAIN Seeds
      /\ Seed.task \in TaskIds
      /\ UNCHANGED <<version, editing>>
  BY SeedsType, FilesType, SeedingAssumption
  DEF InitializeTask, EditOrCreateTask, SeedingTypeOK, Boots, Seed, Seeds
<1>2. Written(tasks[Seed.task]) \in Versions
  BY <1>1, SeedingAssumption DEF Written, SeedingTypeOK
<1>3. SeedingTypeOK'
  <2>1. boot \in Boots
    BY DEF SeedingTypeOK
  <2>2. [boot EXCEPT !.at = "hint", !.hint = 0] \in Boots
    <3>1. [boot EXCEPT !.at = "hint"] \in Boots
      BY <2>1 DEF Boots
    <3>2. 0 \in 0 .. MaxHints
      BY SeedingAssumption
    <3> QED
      BY <3>1, <3>2 DEF Boots
  <2>3. [boot EXCEPT !.file = @ + 1] \in Boots
    BY <2>1 DEF Boots
  <2>4. boot' \in Boots
    BY <2>2, <2>3 DEF InitializeTask, EditOrCreateTask
  <2>5. tasks' \in [TaskIds -> Versions \cup {None}]
    BY <1>1, <1>2 DEF InitializeTask, EditOrCreateTask, SeedingTypeOK
  <2> QED
    BY <1>1, <2>4, <2>5 DEF InitializeTask, EditOrCreateTask, SeedingTypeOK
<1>4. Grows
  BY <1>1, <1>2, SeedingAssumption DEF InitializeTask, EditOrCreateTask, Grows, SeedingTypeOK
<1>5. HintsFollowTask'
  BY <1>1, <1>4 DEF InitializeTask, EditOrCreateTask, HintsFollowTask, Grows
<1>6. Progress'
  <2>1. \A i \in DOMAIN Seeds : i < boot.file => Present(Seeds[i])'
    BY <1>1, <1>4, PresentStays DEF InitializeTask, EditOrCreateTask, Progress, Seeds
  <2>2. Seeds' = Seeds
    BY <1>1 DEF Seeds
  <2>3. CASE Seed.valid
    <3>1. boot' = [boot EXCEPT !.at = "hint", !.hint = 0]
      BY <2>3 DEF InitializeTask, EditOrCreateTask
    <3>2. boot'.at = "hint" /\ boot'.file = boot.file /\ boot'.hint = 0
      BY <3>1 DEF SeedingTypeOK, Boots
    <3>3. tasks'[Seed.task] # None /\ Seed' = Seed
      BY <1>1, <1>2, <2>2, <2>3, <3>2, SeedingAssumption
      DEF InitializeTask, EditOrCreateTask, SeedingTypeOK, Seed
    <3> QED
      BY <1>1, <2>1, <2>2, <3>2, <3>3 DEF Progress, PastTasks, Listed
  <2>4. CASE ~Seed.valid
    <3>1. boot'.at = "task" /\ boot'.file = boot.file + 1
      BY <2>4 DEF InitializeTask, EditOrCreateTask, SeedingTypeOK, Boots
    <3>2. \A i \in DOMAIN Seeds : i = boot.file => Present(Seeds[i])'
      BY <2>2, <2>4 DEF Present, Seed
    <3>3. \A i \in DOMAIN Seeds : i < boot.file + 1 => i < boot.file \/ i = boot.file
      BY SeedsType DEF SeedingTypeOK, Boots
    <3>4. \A i \in DOMAIN Seeds' : i < boot'.file => Present(Seeds[i])'
      BY <2>1, <2>2, <3>1, <3>2, <3>3
    <3> QED
      BY <3>1, <3>4 DEF Progress, PastTasks, Listed
  <2> QED
    BY <2>3, <2>4
<1> QED
  BY <1>3, <1>5, <1>6

\* The moves of the cursor that change two of its fields, one after the other.
LEMMA BootMoves ==
  ASSUME NEW b \in Boots
  PROVE  /\ [b EXCEPT !.at = "task", !.file = @ + 1] \in Boots
         /\ [b EXCEPT !.at = "user", !.user = @ + 1] \in Boots
         /\ [b EXCEPT !.at = "task", !.listing = "done"] \in Boots
         /\ [b EXCEPT !.at = "user", !.listing = "failed"] \in Boots
<1> DEFINE f == [b EXCEPT !.at = "task"]
           u == [b EXCEPT !.at = "user"]
<1>1. f \in Boots /\ u \in Boots /\ f.file = b.file /\ u.user = b.user
  BY DEF Boots
<1>2. b.file + 1 \in Nat \ {0} /\ b.user + 1 \in Nat \ {0}
  BY DEF Boots
<1>3. /\ [b EXCEPT !.at = "task", !.file = @ + 1] = [f EXCEPT !.file = b.file + 1]
      /\ [b EXCEPT !.at = "user", !.user = @ + 1] = [u EXCEPT !.user = b.user + 1]
      /\ [b EXCEPT !.at = "task", !.listing = "done"] = [f EXCEPT !.listing = "done"]
      /\ [b EXCEPT !.at = "user", !.listing = "failed"] = [u EXCEPT !.listing = "failed"]
  OBVIOUS
<1> HIDE DEF f, u
<1>4. [f EXCEPT !.file = b.file + 1] \in Boots /\ [u EXCEPT !.user = b.user + 1] \in Boots
  BY <1>1, <1>2 DEF Boots
<1>5. /\ [f EXCEPT !.listing = "done"] \in Boots
      /\ [u EXCEPT !.listing = "failed"] \in Boots
  BY <1>1 DEF Boots
<1> QED
  BY <1>3, <1>4, <1>5

\* A hint is only written while the main thread is at its task, whose row is
\* there by then.
LEMMA InitializeHintKeeps ==
  ASSUME SeedInv, InitializeHint
  PROVE  SeedInv'
<1> USE DEF SeedInv
<1>1. /\ boot.file \in DOMAIN Seeds
      /\ Seed.task \in TaskIds
      /\ Seed.hints \in 0 .. MaxHints
      /\ tasks[Seed.task] # None
      /\ UNCHANGED <<version, editing, tasks>>
  BY SeedsType, FilesType DEF InitializeHint, Progress, Seed, Seeds
<1>2. boot \in Boots /\ MaxHints \in Nat
  BY SeedingAssumption DEF SeedingTypeOK
<1>3. Seeds' = Seeds
  BY <1>1 DEF Seeds
<1>4. CASE boot.hint < Seed.hints
  <2> DEFINE t == Seed.task
             h == boot.hint
  <2>1. /\ hints' = [hints EXCEPT ![t][h] = Written(@)]
        /\ boot' = [boot EXCEPT !.hint = @ + 1]
    BY <1>4 DEF InitializeHint, EditOrCreateHint
  <2>2. h \in 0 .. MaxHints - 1 /\ h + 1 \in 0 .. MaxHints
    BY <1>1, <1>2, <1>4 DEF Boots
  <2>3. /\ boot' \in Boots
        /\ boot'.at = "hint" /\ boot'.file = boot.file /\ boot'.hint = h + 1
    BY <1>2, <2>1, <2>2, <1>1, <1>4 DEF Boots, InitializeHint, EditOrCreateHint
  <2>4. Written(hints[t][h]) \in Versions
    BY <1>1, <2>2, SeedingAssumption DEF Written, SeedingTypeOK
  <2>5. /\ hints' \in [TaskIds -> [0 .. MaxHints - 1 -> Versions \cup {None}]]
        /\ hints'[t][h] # None
    BY <1>1, <2>1, <2>2, <2>4, SeedingAssumption DEF SeedingTypeOK
  <2>6. SeedingTypeOK'
    BY <1>1, <2>3, <2>5 DEF SeedingTypeOK
  <2>7. Grows
    BY <1>1, <2>1, <2>2, <2>4, SeedingAssumption DEF Grows, SeedingTypeOK
  <2>8. HintsFollowTask'
    BY <1>1, <2>1, <2>2 DEF HintsFollowTask, SeedingTypeOK
  <2>9. Progress'
    <3>1. \A i \in DOMAIN Seeds : i < boot.file => Present(Seeds[i])'
      BY <1>1, <2>7, PresentStays DEF InitializeHint, Progress, Seeds, SeedingTypeOK
    <3>2. Seed' = Seed
      BY <1>3, <2>3 DEF Seed
    <3>3. \A k \in 0 .. MaxHints - 1 : k < h + 1 => hints'[t][k] # None
      <4>1. \A k \in 0 .. MaxHints - 1 : k < h + 1 => k < h \/ k = h
        BY <1>2 DEF Boots
      <4>2. \A k \in 0 .. MaxHints - 1 : k < h => hints[t][k] # None
        BY DEF InitializeHint, Progress
      <4> QED
        BY <1>1, <2>5, <2>7, <4>1, <4>2 DEF Grows
    <3>4. tasks'[t] # None
      BY <1>1
    <3> QED
      BY <1>1, <1>3, <2>3, <3>1, <3>2, <3>3, <3>4 DEF Progress, PastTasks, Listed
  <2> QED
    BY <2>6, <2>8, <2>9
<1>5. CASE ~(boot.hint < Seed.hints)
  <2>1. /\ boot' = [boot EXCEPT !.at = "task", !.file = @ + 1]
        /\ UNCHANGED hints
    BY <1>5 DEF InitializeHint, EditOrCreateHint
  <2>2. boot'.at = "task" /\ boot'.file = boot.file + 1
    BY <1>2, <2>1 DEF Boots
  <2>3. boot' \in Boots
    BY <1>2, <2>1, BootMoves
  <2>4. Present(Seed)
    BY <1>1, <1>2, <1>5 DEF Present, Progress, InitializeHint, Boots
  <2>5. \A i \in DOMAIN Seeds : i < boot.file + 1 => Present(Seeds[i])
    <3>1. \A i \in DOMAIN Seeds : i < boot.file + 1 => i < boot.file \/ i = boot.file
      BY <1>2, SeedsType DEF Boots
    <3> QED
      BY <2>4, <3>1 DEF Progress, InitializeHint, Seed
  <2>6. Progress'
    <3>1. \A i \in DOMAIN Seeds : i < boot.file + 1 => Present(Seeds[i])'
      BY <1>1, <1>3, <2>1, <2>5 DEF Present
    <3> QED
      BY <1>3, <2>2, <3>1 DEF Progress, PastTasks, Listed
  <2>7. SeedingTypeOK' /\ HintsFollowTask'
    BY <1>1, <2>1, <2>3 DEF SeedingTypeOK, HintsFollowTask
  <2> QED
    BY <2>6, <2>7
<1> QED
  BY <1>4, <1>5

\* The steps that leave the rows of tasks and hints alone, and the files.
LEMMA RowsUnchanged ==
  ASSUME SeedInv, UNCHANGED <<version, editing, tasks, hints>>
  PROVE  /\ Seeds' = Seeds
         /\ HintsFollowTask'
         /\ \A i \in DOMAIN Seeds : Present(Seeds[i]) => Present(Seeds[i])'
  BY DEF SeedInv, Seeds, HintsFollowTask, Present

\* Found or not, the files are still to come, or will not be come to.
LEMMA ListTaskFilesKeeps == SeedInv /\ ListTaskFiles => SeedInv'
<1> SUFFICES ASSUME SeedInv, ListTaskFiles PROVE SeedInv'
  OBVIOUS
<1>1. /\ boot \in Boots /\ boot.at = "list"
      /\ UNCHANGED <<version, editing, tasks, hints>>
  BY DEF SeedInv, SeedingTypeOK, ListTaskFiles
<1>2. /\ boot' \in Boots
      /\ \/ boot'.at = "task" /\ boot'.file = 1
         \/ boot'.at = "user" /\ boot'.listing = "failed"
  <2>1. boot.file = 1
    BY <1>1 DEF SeedInv, Progress
  <2>2. boot' \in Boots
    BY <1>1, BootMoves DEF ListTaskFiles
  <2> QED
    BY <1>1, <2>1, <2>2 DEF ListTaskFiles, Boots
<1>3. \A i \in DOMAIN Seeds : ~(i < 1)
  BY SeedsType DEF SeedInv
<1>4. Progress'
  BY <1>1, <1>2, <1>3, RowsUnchanged DEF Progress, PastTasks, Listed
<1> QED
  BY <1>1, <1>2, <1>4, RowsUnchanged DEF SeedInv, SeedingTypeOK

LEMMA TasksDoneKeeps == SeedInv /\ TasksDone => SeedInv'
<1> SUFFICES ASSUME SeedInv, TasksDone PROVE SeedInv'
  OBVIOUS
<1>1. boot' \in Boots /\ boot'.at = "user"
  BY DEF SeedInv, SeedingTypeOK, TasksDone, Boots
<1>2. \A i \in DOMAIN Seeds : Present(Seeds[i])
  <2>1. \A i \in DOMAIN Seeds : i < boot.file
    BY SeedsType DEF SeedInv, SeedingTypeOK, Boots, TasksDone
  <2> QED
    BY <2>1 DEF SeedInv, Progress, TasksDone
<1>3. Progress'
  BY <1>1, <1>2, RowsUnchanged DEF TasksDone, Progress, PastTasks, Listed
<1> QED
  BY <1>1, <1>3, RowsUnchanged DEF TasksDone, SeedInv, SeedingTypeOK

\* The static users come after the tasks and leave them alone.
LEMMA UserStepKeeps ==
  ASSUME SeedInv, CheckStaticUser \/ SaveStaticUser \/ GrantNewUserAccess \/ UsersDone
  PROVE  SeedInv'
<1>1. UNCHANGED <<version, editing, tasks, hints>>
  BY DEF CheckStaticUser, SaveStaticUser, GrantNewUserAccess, UsersDone
<1>2. PastTasks /\ boot' \in Boots /\ PastTasks' /\ boot'.listing = boot.listing
  <2>1. boot \in Boots
    BY DEF SeedInv, SeedingTypeOK
  <2>2. NextUser => boot' \in Boots
    BY <2>1, BootMoves DEF NextUser
  <2>3. NextUser => boot'.at = "user" /\ boot'.listing = boot.listing
    BY <2>1 DEF NextUser, Boots
  <2> QED
    BY <2>1, <2>2, <2>3
    DEF CheckStaticUser, SaveStaticUser, GrantNewUserAccess, UsersDone, PastTasks, Boots
<1>3. Listed => \A i \in DOMAIN Seeds : Present(Seeds[i])
  BY <1>2 DEF SeedInv, Progress
<1>4. Progress'
  BY <1>1, <1>2, <1>3, RowsUnchanged DEF Progress, PastTasks, Listed
<1> QED
  BY <1>1, <1>2, <1>4, RowsUnchanged DEF SeedInv, SeedingTypeOK

LEMMA StartStopKeeps == SeedInv /\ (Start \/ Stop) => SeedInv'
<1> SUFFICES ASSUME SeedInv, Start \/ Stop PROVE SeedInv'
  OBVIOUS
<1>1. /\ boot' \in Boots /\ boot'.at \in {"down", "list"}
      /\ boot'.file = 1 /\ boot'.listing = "none"
      /\ version' \in Versions /\ editing' \in BOOLEAN
      /\ UNCHANGED <<tasks, hints, users>>
  BY SeedingAssumption DEF SeedInv, SeedingTypeOK, Start, Stop, Beginning, Boots
<1>2. SeedingTypeOK' /\ HintsFollowTask'
  BY <1>1 DEF SeedInv, SeedingTypeOK, HintsFollowTask
<1>3. Progress'
  BY <1>1 DEF Progress, PastTasks, Listed
<1> QED
  BY <1>2, <1>3 DEF SeedInv

LEMMA SeedNextKeeps == SeedInv /\ [Next]_vars => SeedInv'
<1> SUFFICES ASSUME SeedInv, [Next]_vars PROVE SeedInv'
  OBVIOUS
<1>1. CASE UNCHANGED vars
  BY <1>1 DEF vars, seedVars, SeedInv, SeedingTypeOK, HintsFollowTask, Progress,
              Present, PastTasks, Listed, Seeds, Seed
<1>2. CASE BootStep
  BY <1>2, ListTaskFilesKeeps, InitializeTaskKeeps, InitializeHintKeeps, TasksDoneKeeps,
     UserStepKeeps
  DEF BootStep
<1> QED
  BY <1>1, <1>2, StartStopKeeps DEF Next

-----------------------------------------------------------------------------
THEOREM SeedInductive == Spec => []SeedInv
  BY InitSeedInv, SeedNextKeeps, PTL DEF Spec

\* Whatever cut off earlier starts: a start that has found its task files and is
\* past them leaves every good file's task and hints in the database.
THEOREM SeedingIsComplete == Spec => []SeedingComplete
<1>1. SeedInv => SeedingComplete
  BY DEF SeedInv, Progress, SeedingComplete
<1> QED
  BY <1>1, SeedInductive, PTL

\* No hint without its task.
THEOREM HintsComeAfterTask == Spec => []HintsFollowTask
<1>1. SeedInv => HintsFollowTask
  BY DEF SeedInv
<1> QED
  BY <1>1, SeedInductive, PTL

\* Without the setting to edit, no step of any startup changes a row.
THEOREM RowsStay == Spec => RowsAreKept
<1>1. ASSUME SeedInv, [Next]_vars
      PROVE  [~editing => \A t \in TaskIds :
                /\ tasks[t] # None => tasks'[t] = tasks[t]
                /\ \A i \in 0 .. MaxHints - 1 :
                     hints[t][i] # None => hints'[t][i] = hints[t][i]]_vars
  <2>1. CASE InitializeTask
    BY <1>1, <2>1 DEF InitializeTask, EditOrCreateTask, Written, SeedInv, SeedingTypeOK
  <2>2. CASE InitializeHint
    <3>1. tasks' = tasks
      BY <2>2 DEF InitializeHint
    <3>2. ASSUME NEW t \in TaskIds, NEW i \in 0 .. MaxHints - 1,
                 ~editing, hints[t][i] # None
          PROVE  hints'[t][i] = hints[t][i]
      <4>1. CASE hints' = [hints EXCEPT ![Seed.task][boot.hint] = Written(@)]
        <5>1. hints \in [TaskIds -> [0 .. MaxHints - 1 -> Versions \cup {None}]]
          BY <1>1 DEF SeedInv, SeedingTypeOK
        <5>2. Written(hints[t][i]) = hints[t][i]
          BY <3>2 DEF Written
        <5> QED
          BY <4>1, <5>1, <5>2
      <4> QED
        BY <2>2, <4>1 DEF InitializeHint, EditOrCreateHint
    <3> QED
      BY <3>1, <3>2
  <2>3. CASE UNCHANGED <<tasks, hints>>
    BY <2>3
  <2> QED
    BY <1>1, <2>1, <2>2, <2>3
    DEF Next, Start, Stop, BootStep, ListTaskFiles, TasksDone, CheckStaticUser, SaveStaticUser,
        GrantNewUserAccess, UsersDone, vars, seedVars
<1> QED
  BY <1>1, SeedInductive, PTL DEF Spec, RowsAreKept

-----------------------------------------------------------------------------
(* The tables keep their types *)

\* The main thread only saves, or grants to, a user of the list.
UserInList == boot.at \in {"save", "grant"} => boot.user <= Len(StaticUsers)

LEMMA TypesKept ==
  ASSUME SeedInv, SeedInv', TypeOK, UserInList, [Next]_vars
  PROVE  TypeOK' /\ UserInList'
<1>1. SeedingTypeOK' /\ boot \in Boots
  BY DEF SeedInv, SeedingTypeOK
<1>2. CASE UNCHANGED vars
  BY <1>1, <1>2 DEF vars, seedVars, TypeOK, UserInList
<1>3. CASE Start \/ Stop
  <2>1. boot'.at \in {"list", "down"} /\ UNCHANGED <<users, firstAccess>>
    BY <1>3 DEF Start, Stop, Beginning
  <2> QED
    BY <1>1, <2>1 DEF TypeOK, UserInList
<1>4. ASSUME ListTaskFiles \/ InitializeTask \/ InitializeHint,
             UNCHANGED <<users, firstAccess>>
      PROVE  TypeOK' /\ UserInList'
  <2>1. boot'.at \in {"task", "hint", "user"}
    BY <1>1, <1>4 DEF ListTaskFiles, InitializeTask, InitializeHint, Boots
  <2> QED
    BY <1>1, <1>4, <2>1 DEF TypeOK, UserInList
<1>5. CASE TasksDone \/ UsersDone
  <2>1. boot'.at \notin {"save", "grant"} /\ UNCHANGED <<users, firstAccess>>
    BY <1>1, <1>5 DEF TasksDone, UsersDone, Boots
  <2> QED
    BY <1>1, <2>1 DEF TypeOK, UserInList
<1>6. CASE CheckStaticUser
  <2>1. UserInList' /\ UNCHANGED <<users, firstAccess>>
    BY <1>1, <1>6 DEF CheckStaticUser, NextUser, UserInList, Boots
  <2> QED
    BY <1>1, <2>1 DEF TypeOK
<1>7. CASE SaveStaticUser \/ GrantNewUserAccess
  <2>1. Username \in StaticNames
    BY <1>1, <1>7 DEF SaveStaticUser, GrantNewUserAccess, UserInList, Username,
                      StaticNames, Boots
  <2>2. users' \subseteq StaticNames /\ firstAccess' \subseteq StaticNames
    BY <1>7, <2>1 DEF SaveStaticUser, GrantNewUserAccess, TypeOK
  <2>3. UserInList'
    BY <1>1, <1>7 DEF SaveStaticUser, GrantNewUserAccess, NextUser, UserInList, Boots
  <2> QED
    BY <1>1, <2>2, <2>3 DEF TypeOK
<1> QED
  BY <1>2, <1>3, <1>4, <1>5, <1>6, <1>7 DEF Next, BootStep

\* Every variable of the startup keeps its type.
THEOREM TypeCorrect == Spec => []TypeOK
<1>1. Init => TypeOK /\ UserInList
  BY InitSeedInv DEF SeedInv, TypeOK, UserInList, Init, SeedingInit, Beginning
<1>2. SeedInv /\ SeedInv' /\ TypeOK /\ UserInList /\ [Next]_vars => TypeOK' /\ UserInList'
  BY TypesKept
<1> QED
  BY <1>1, <1>2, SeedInductive, PTL DEF Spec

-----------------------------------------------------------------------------
(* Editing brings rows up to date *)

\* The rows of a file are those of the version deployed now.
Current(seed) ==
    seed.valid => /\ tasks[seed.task] = version
                  /\ \A h \in 0 .. seed.hints - 1 : hints[seed.task][h] = version

\* With the setting to edit: what is behind the main thread is up to date.
CurrentSoFar ==
    editing =>
        /\ boot.at \in {"task", "hint"} =>
             \A i \in DOMAIN Seeds : i < boot.file => Current(Seeds[i])
        /\ boot.at = "hint" =>
             /\ tasks[Seed.task] = version
             /\ \A h \in 0 .. MaxHints - 1 : h < boot.hint => hints[Seed.task][h] = version
        /\ PastTasks /\ Listed => \A i \in DOMAIN Seeds : Current(Seeds[i])

\* A step that does not write over rows of the version leaves files up to date.
LEMMA CurrentStays ==
  ASSUME SeedInv, UNCHANGED version,
         \A t \in TaskIds : tasks[t] = version => tasks'[t] = version,
         \A t \in TaskIds, h \in 0 .. MaxHints - 1 :
            hints[t][h] = version => hints'[t][h] = version,
         NEW i \in DOMAIN Seeds, Current(Seeds[i])
  PROVE  Seeds' = Seeds /\ Current(Seeds[i])'
<1>1. /\ Seeds' = Seeds
      /\ Seeds[i].task \in TaskIds
      /\ 0 .. Seeds[i].hints - 1 \subseteq 0 .. MaxHints - 1
  BY SeedsType, FilesType, SeedingAssumption DEF SeedInv, Seeds
<1> QED
  BY <1>1 DEF Current

LEMMA CurrentTask ==
  ASSUME SeedInv, CurrentSoFar, editing, InitializeTask
  PROVE  CurrentSoFar'
<1>1. /\ boot \in Boots /\ version \in Versions
      /\ boot.at = "task" /\ boot.file \in DOMAIN Seeds
      /\ Seed.task \in TaskIds
      /\ UNCHANGED <<version, editing, hints>>
      /\ tasks \in [TaskIds -> Versions \cup {None}]
  BY SeedsType, FilesType DEF SeedInv, SeedingTypeOK, InitializeTask, Boots, Seed, Seeds
<1>2. Seeds' = Seeds
  BY <1>1 DEF Seeds
<1>3. CASE Seed.valid
  <2>1. /\ tasks' = [tasks EXCEPT ![Seed.task] = version]
        /\ boot' = [boot EXCEPT !.at = "hint", !.hint = 0]
    BY <1>3 DEF InitializeTask, EditOrCreateTask, Written
  <2>2. boot'.at = "hint" /\ boot'.file = boot.file /\ boot'.hint = 0
    BY <1>1, <2>1 DEF Boots
  <2>3. \A t \in TaskIds : tasks[t] = version => tasks'[t] = version
    BY <1>1, <2>1
  <2>4. \A i \in DOMAIN Seeds : i < boot.file => Current(Seeds[i])'
    BY <1>1, <2>3, CurrentStays DEF CurrentSoFar
  <2>5. Seed' = Seed /\ tasks'[Seed.task] = version
    BY <1>1, <1>2, <2>1, <2>2 DEF Seed
  <2>6. \A h \in 0 .. MaxHints - 1 : ~(h < 0)
    BY SeedingAssumption
  <2> QED
    BY <1>1, <1>2, <2>2, <2>4, <2>5, <2>6 DEF CurrentSoFar, PastTasks, Listed
<1>4. CASE ~Seed.valid
  <2>1. boot' = [boot EXCEPT !.file = @ + 1] /\ tasks' = tasks
    BY <1>4 DEF InitializeTask
  <2>2. boot'.at = "task" /\ boot'.file = boot.file + 1
    BY <1>1, <2>1 DEF Boots
  <2>3. \A i \in DOMAIN Seeds : i < boot.file + 1 => i < boot.file \/ i = boot.file
    BY <1>1, SeedsType DEF SeedInv, Boots
  <2>4. \A i \in DOMAIN Seeds : i < boot.file + 1 => Current(Seeds[i])
    BY <1>1, <1>4, <2>3 DEF CurrentSoFar, Current, Seed
  <2>5. \A i \in DOMAIN Seeds : i < boot.file + 1 => Current(Seeds[i])'
    BY <1>1, <1>2, <2>1, <2>4 DEF Current
  <2> QED
    BY <1>1, <1>2, <2>2, <2>5 DEF CurrentSoFar, PastTasks, Listed
<1> QED
  BY <1>3, <1>4

LEMMA CurrentHint ==
  ASSUME SeedInv, CurrentSoFar, editing, InitializeHint
  PROVE  CurrentSoFar'
<1>1. /\ boot \in Boots /\ version \in Versions /\ MaxHints \in Nat
      /\ boot.at = "hint" /\ boot.file \in DOMAIN Seeds
      /\ Seed.task \in TaskIds /\ Seed.hints \in 0 .. MaxHints
      /\ UNCHANGED <<version, editing, tasks>>
      /\ hints \in [TaskIds -> [0 .. MaxHints - 1 -> Versions \cup {None}]]
  BY SeedsType, FilesType, SeedingAssumption
  DEF SeedInv, SeedingTypeOK, Progress, InitializeHint, Seed, Seeds
<1>2. Seeds' = Seeds
  BY <1>1 DEF Seeds
<1>3. CASE boot.hint < Seed.hints
  <2> DEFINE h == boot.hint
             t == Seed.task
  <2>1. /\ hints' = [hints EXCEPT ![t][h] = version]
        /\ boot' = [boot EXCEPT !.hint = @ + 1]
    BY <1>3 DEF InitializeHint, EditOrCreateHint, Written
  <2>2. boot'.at = "hint" /\ boot'.file = boot.file /\ boot'.hint = h + 1
    BY <1>1, <2>1 DEF Boots
  <2>3. h \in 0 .. MaxHints - 1
    BY <1>1, <1>3 DEF Boots
  <2>4. \A u \in TaskIds, k \in 0 .. MaxHints - 1 :
          hints[u][k] = version => hints'[u][k] = version
    BY <1>1, <2>1, <2>3
  <2>5. hints'[t][h] = version
    BY <1>1, <2>1, <2>3
  <2>6. \A i \in DOMAIN Seeds : i < boot.file => Current(Seeds[i])'
    BY <1>1, <2>4, CurrentStays DEF CurrentSoFar
  <2>7. Seed' = Seed
    BY <1>2, <2>2 DEF Seed
  <2>8. \A k \in 0 .. MaxHints - 1 : k < h + 1 => hints'[t][k] = version
    <3>1. \A k \in 0 .. MaxHints - 1 : k < h + 1 => k < h \/ k = h
      BY <1>1, <2>3
    <3>2. \A k \in 0 .. MaxHints - 1 : k < h => hints[t][k] = version
      BY <1>1 DEF CurrentSoFar
    <3> QED
      BY <1>1, <2>4, <2>5, <3>1, <3>2
  <2>9. tasks'[t] = version
    BY <1>1 DEF CurrentSoFar
  <2> QED
    BY <1>1, <1>2, <2>2, <2>6, <2>7, <2>8, <2>9 DEF CurrentSoFar, PastTasks, Listed
<1>4. CASE ~(boot.hint < Seed.hints)
  <2>1. boot' = [boot EXCEPT !.at = "task", !.file = @ + 1] /\ hints' = hints
    BY <1>4 DEF InitializeHint
  <2>2. boot'.at = "task" /\ boot'.file = boot.file + 1
    BY <1>1, <2>1 DEF Boots
  <2>3. \A h \in 0 .. Seed.hints - 1 : h \in 0 .. MaxHints - 1 /\ h < boot.hint
    BY <1>1, <1>4 DEF Boots
  <2>4. Current(Seed)
    BY <1>1, <2>3 DEF Current, CurrentSoFar
  <2>5. \A i \in DOMAIN Seeds : i < boot.file + 1 => i < boot.file \/ i = boot.file
    BY <1>1, SeedsType DEF SeedInv, Boots
  <2>6. \A i \in DOMAIN Seeds : i < boot.file + 1 => Current(Seeds[i])
    BY <1>1, <2>4, <2>5 DEF CurrentSoFar, Seed
  <2>7. \A i \in DOMAIN Seeds : i < boot.file + 1 => Current(Seeds[i])'
    BY <1>1, <1>2, <2>1, <2>6 DEF Current
  <2> QED
    BY <1>1, <1>2, <2>2, <2>7 DEF CurrentSoFar, PastTasks, Listed
<1> QED
  BY <1>3, <1>4

LEMMA CurrentKept ==
  ASSUME SeedInv, CurrentSoFar, [Next]_vars
  PROVE  CurrentSoFar'
<1>1. boot \in Boots
  BY DEF SeedInv, SeedingTypeOK
<1>2. CASE UNCHANGED vars
  BY <1>2 DEF vars, seedVars, CurrentSoFar, Current, PastTasks, Listed, Seeds, Seed
<1>3. CASE Start \/ Stop
  <2>1. boot'.at \in {"down", "list"}
    BY <1>3 DEF Start, Stop, Beginning
  <2> QED
    BY <2>1 DEF CurrentSoFar, PastTasks, Listed
<1>4. CASE InitializeTask \/ InitializeHint
  <2>1. editing' = editing
    BY <1>4 DEF InitializeTask, InitializeHint
  <2> QED
    BY <1>4, <2>1, CurrentTask, CurrentHint DEF CurrentSoFar
<1>5. CASE ListTaskFiles
  <2>1. /\ \/ boot'.at = "task" /\ boot'.file = 1
           \/ boot'.at = "user" /\ boot'.listing = "failed"
        /\ UNCHANGED version
    BY <1>1, <1>5 DEF ListTaskFiles, SeedInv, Progress, Boots
  <2>2. \A i \in DOMAIN Seeds' : ~(i < 1)
    BY <2>1, SeedsType DEF SeedInv, Seeds
  <2> QED
    BY <2>1, <2>2 DEF CurrentSoFar, PastTasks, Listed
<1>6. CASE TasksDone
  <2>1. \A i \in DOMAIN Seeds : i < boot.file
    BY <1>1, <1>6, SeedsType DEF SeedInv, Boots, TasksDone
  <2>2. editing => \A i \in DOMAIN Seeds : Current(Seeds[i])
    BY <1>6, <2>1 DEF CurrentSoFar, TasksDone
  <2>3. boot'.at = "user" /\ UNCHANGED <<version, editing, tasks, hints>>
    BY <1>1, <1>6 DEF TasksDone, Boots
  <2> QED
    BY <2>2, <2>3 DEF CurrentSoFar, Current, PastTasks, Listed, Seeds
<1>7. CASE CheckStaticUser \/ SaveStaticUser \/ GrantNewUserAccess \/ UsersDone
  <2>1. /\ PastTasks /\ boot'.at \notin {"task", "hint"}
        /\ boot'.listing = boot.listing
    BY <1>1, <1>7 DEF CheckStaticUser, SaveStaticUser, GrantNewUserAccess, UsersDone,
                      NextUser, PastTasks, Boots
  <2>2. UNCHANGED <<version, editing, tasks, hints>>
    BY <1>7 DEF CheckStaticUser, SaveStaticUser, GrantNewUserAccess, UsersDone
  <2> QED
    BY <2>1, <2>2 DEF CurrentSoFar, Current, Listed, Seeds
<1> QED
  BY <1>2, <1>3, <1>4, <1>5, <1>6, <1>7 DEF Next, BootStep

\* With the setting to edit, a start that has found its files and gone through
\* them has brought all their rows up to date, whatever was there.
THEOREM RowsGetCurrent == Spec => []RowsAreCurrent
<1>1. Init => CurrentSoFar
  BY DEF Init, SeedingInit, Beginning, CurrentSoFar, PastTasks, Listed
<1>2. SeedInv /\ CurrentSoFar /\ [Next]_vars => CurrentSoFar'
  BY CurrentKept
<1>3. CurrentSoFar => RowsAreCurrent
  BY DEF CurrentSoFar, Current, RowsAreCurrent
<1> QED
  BY <1>1, <1>2, <1>3, SeedInductive, PTL DEF Spec
=============================================================================
