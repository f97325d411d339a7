----------------------------- MODULE TaskSeeding -----------------------------
(***************************************************************************)
(* DataInitializer.initializeTasks with TaskService.editOrCreateTask and   *)
(* HintService.editOrCreateHints: the task files become rows of "tasks"    *)
(* and "hints", one transaction per row, in the order of the files. A row  *)
(* is told apart by the version of the files it was written from.          *)
(***************************************************************************)
EXTENDS Integers, Sequences

CONSTANTS
    TaskIds,   \* ids in the task files
    Versions,  \* the sets of task files that get deployed
    Files,     \* Files[v]: the task files of version v, as the resolver lists them
    MaxHints,  \* bound: no file has more hints
    None       \* no row

\* A file is an id, a number of hints, and whether it parses and validates.
ASSUME SeedingAssumption ==
    /\ MaxHints \in Nat
    /\ Files \in [Versions -> Seq([task : TaskIds, hints : 0 .. MaxHints, valid : BOOLEAN])]
    /\ None \notin Versions

VARIABLES
    boot,     \* where the main thread is: its step, the file, the hint, the static
              \* user, and how the listing of the task files went
    version,  \* the files of the process that runs, or ran last
    editing,  \* its setting data-initialization.edit-existing-tasks
    tasks,    \* tasks[t]: the version the row of task t is from, or None
    hints     \* hints[t][i]: the same for hint i of task t

seedVars == <<boot, version, editing, tasks, hints>>

Boots == [at : {"down", "list", "task", "hint", "user", "save", "grant", "up"},
          listing : {"none", "done", "failed"},
          file : Nat \ {0}, hint : 0 .. MaxHints, user : Nat \ {0}]

Beginning == [at |-> "list", listing |-> "none",
              file |-> 1, hint |-> 0, user |-> 1]

SeedingTypeOK ==
    /\ boot \in Boots
    /\ version \in Versions
    /\ editing \in BOOLEAN
    /\ tasks \in [TaskIds -> Versions \cup {None}]
    /\ hints \in [TaskIds -> [0 .. MaxHints - 1 -> Versions \cup {None}]]

SeedingInit ==
    /\ boot = [Beginning EXCEPT !.at = "down"]
    /\ version \in Versions
    /\ editing \in BOOLEAN
    /\ tasks = [t \in TaskIds |-> None]
    /\ hints = [t \in TaskIds |-> [i \in 0 .. MaxHints - 1 |-> None]]

Seeds == Files[version]

Seed == Seeds[boot.file]

\* A mutated form of Written: the setting is used the wrong way round.
WrittenInverted(row) == IF row # None /\ editing THEN row ELSE version

\* The row after "edit or create": a row that is there is skipped unless the
\* setting asks to edit it, one that is not there is created.
Written(row) == IF row # None /\ ~editing THEN row ELSE version

\* TaskService.editOrCreateTask and one round of HintService.editOrCreateHints.
EditOrCreateTask == tasks' = [tasks EXCEPT ![Seed.task] = Written(@)]

EditOrCreateHint == hints' = [hints EXCEPT ![Seed.task][boot.hint] = Written(@)]

\* The resolver lists the files, or throws an IOException: initializeTasks then
\* returns at once, and run goes on with the static users.
ListTaskFiles ==
    /\ boot.at = "list"
    /\ \/ boot' = [boot EXCEPT !.at = "task", !.listing = "done"]
       \/ boot' = [boot EXCEPT !.at = "user", !.listing = "failed"]
    /\ UNCHANGED <<version, editing, tasks, hints>>

\* A mutated form of InitializeTask: the hints of a task that is there are
\* passed over with it.
InitializeTaskOnly ==
    /\ boot.at = "task"
    /\ boot.file <= Len(Seeds)
    /\ IF Seed.valid /\ tasks[Seed.task] = None
       THEN /\ tasks' = [tasks EXCEPT ![Seed.task] = version]
            /\ boot' = [boot EXCEPT !.at = "hint", !.hint = 0]
       ELSE /\ boot' = [boot EXCEPT !.file = @ + 1]
            /\ UNCHANGED tasks
    /\ UNCHANGED <<version, editing, hints>>

\* Another one: the task is written when its hints have been.
InitializeTaskLater ==
    /\ boot.at = "task"
    /\ boot.file <= Len(Seeds)
    /\ boot' = IF Seed.valid THEN [boot EXCEPT !.at = "hint", !.hint = 0]
                             ELSE [boot EXCEPT !.file = @ + 1]
    /\ UNCHANGED <<version, editing, tasks, hints>>

\* A file that cannot be read or is badly structured is passed over; else its
\* task is written, and its hints are next.
InitializeTask ==
    /\ boot.at = "task"
    /\ boot.file <= Len(Seeds)
    /\ IF Seed.valid
       THEN /\ EditOrCreateTask
            /\ boot' = [boot EXCEPT !.at = "hint", !.hint = 0]
       ELSE /\ boot' = [boot EXCEPT !.file = @ + 1]
            /\ UNCHANGED tasks
    /\ UNCHANGED <<version, editing, hints>>

\* A mutated form of InitializeHint: a hint that is there is skipped without
\* counting it.
InitializeHintStuck ==
    /\ boot.at = "hint"
    /\ IF boot.hint < Seed.hints
       THEN /\ EditOrCreateHint
            /\ boot' = IF hints[Seed.task][boot.hint] = None
                       THEN [boot EXCEPT !.hint = @ + 1] ELSE boot
       ELSE /\ boot' = [boot EXCEPT !.at = "task", !.file = @ + 1]
            /\ UNCHANGED hints
    /\ UNCHANGED <<version, editing, tasks>>

\* One round of the loop over the hints of a file; hints that the file does not
\* have are left alone.
InitializeHint ==
    /\ boot.at = "hint"
    /\ IF boot.hint < Seed.hints
       THEN /\ EditOrCreateHint
            /\ boot' = [boot EXCEPT !.hint = @ + 1]
       ELSE /\ boot' = [boot EXCEPT !.at = "task", !.file = @ + 1]
            /\ UNCHANGED hints
    /\ UNCHANGED <<version, editing, tasks>>
=============================================================================
