-------------------------- MODULE MCDataInitializer --------------------------
(***************************************************************************)
(* Two deployments of the task files: the second one has a hint more for   *)
(* one task and one less for another, and a file that was broken before.   *)
(***************************************************************************)
EXTENDS DataInitializer, TLC

CONSTANTS v1, v2,  \* versions of the files
          t1, t2, t3

File(t, n, good) == [task |-> t, hints |-> n, valid |-> good]

TwoDeployments ==
    v1 :> <<File(t1, 1, TRUE), File(t2, 2, TRUE), File(t3, 1, FALSE)>> @@
    v2 :> <<File(t1, 2, TRUE), File(t3, 1, TRUE), File(t2, 1, TRUE)>>

AdminAndDebugUser == <<"prins", "debug-bunni">>
=============================================================================
