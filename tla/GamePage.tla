------------------------------ MODULE GamePage ------------------------------
(***************************************************************************)
(* The game's page: index.html tests what the browser offers (Features),   *)
(* starts the game and shows how it goes.  Other scripts of the page may   *)
(* use the Engine as well, MaxOtherCalls times.                            *)
(***************************************************************************)
EXTENDS Engine

CONSTANTS ThePage,      \* the Engine instance of index.html
          MaxOtherCalls \* bound on the calls of other scripts

Configuration == NewConfig(InitConfig)

\* index.html has a name for the executable and no arguments.
ASSUME PageAssumption ==
    /\ ThePage \in Engines
    /\ Configuration.executable # None /\ Configuration.args = <<>>
    /\ None # "statusProgress"
    /\ {Wasm(Configuration.executable), PackOf(Configuration)} \subseteq Files
    /\ Wasm(Configuration.executable) # PackOf(Configuration)

VARIABLES browser,       \* the features the browser has
          statusMode,    \* "", "progress", "notice" or "hidden"
          initializing,
          pageCall,      \* the page's call of startGame, or None
          otherCalls     \* calls other scripts have made

vars == <<engineVars, browser, statusMode, initializing, pageCall, otherCalls>>

pageVars == <<browser, statusMode, initializing, pageCall, otherCalls>>

Features == {"WebGL2", "fetch", "secureContext", "crossOriginIsolated",
             "SharedArrayBuffer", "audioWorklet"}

\* Features.is...Available of a browser that has the given features.
IsAvailable(feature) == feature \in browser

\* getMissingFeatures; audio has a fallback and is not required.
GetMissingFeatures(supportsThreads) ==
    {f \in {"WebGL2", "fetch", "secureContext"} \cup
           (IF supportsThreads THEN {"crossOriginIsolated", "SharedArrayBuffer"} ELSE {}) :
       ~IsAvailable(f)}

GODOT_THREADS_ENABLED == FALSE

PageInit ==
    /\ EngineInit
    /\ browser \in {Features \ {"crossOriginIsolated", "SharedArrayBuffer"},
                    Features \ {"WebGL2"}}
    /\ statusMode = "" /\ initializing = TRUE
    /\ pageCall = None /\ otherCalls = 0

\* setStatusMode
SetStatusMode(mode) ==
    IF statusMode = mode \/ ~initializing THEN UNCHANGED <<statusMode, initializing>>
    ELSE statusMode' = mode /\ initializing' = (mode # "hidden")

\* displayFailureNotice: setStatusMode("notice"), and no mode after it.
DisplayFailureNotice ==
    /\ statusMode' = IF initializing THEN "notice" ELSE statusMode
    /\ initializing' = FALSE

\* The script of the page.  The configuration names no service worker.
OpenPage ==
    /\ statusMode = "" /\ initializing
    /\ IF GetMissingFeatures(GODOT_THREADS_ENABLED) # {}
       THEN /\ DisplayFailureNotice
            /\ UNCHANGED <<engineVars, pageCall>>
       ELSE /\ SetStatusMode("progress")
            /\ StartGame(ThePage, [onProgress |-> "statusProgress"])
            /\ pageCall' = NextCall
    /\ UNCHANGED <<browser, otherCalls>>

\* The two continuations of the page's startGame.
GameStarted ==
    /\ pageCall # None /\ calls[pageCall].at = "resolved" /\ statusMode = "progress"
    /\ SetStatusMode("hidden")
    /\ UNCHANGED <<engineVars, browser, pageCall, otherCalls>>

GameFailed ==
    /\ pageCall # None /\ calls[pageCall].at = "rejected" /\ statusMode = "progress"
    /\ DisplayFailureNotice
    /\ UNCHANGED <<engineVars, browser, pageCall, otherCalls>>

OtherCall ==
    /\ pageCall # None /\ otherCalls < MaxOtherCalls
    /\ \E e \in Engines : AnyCall(e)
    /\ otherCalls' = otherCalls + 1
    /\ UNCHANGED <<browser, statusMode, initializing, pageCall>>

Next ==
    \/ OpenPage \/ GameStarted \/ GameFailed
    \/ EngineStep /\ UNCHANGED pageVars
    \/ OtherCall

Spec == PageInit /\ [][Next]_vars

\* The event loop of the page does not stop while it has something to do: the
\* network answers in the end, timers and frames come, and continuations run.
\* Games need not end and other scripts need not call.
FairSpec ==
    /\ Spec
    /\ WF_vars(\/ OpenPage \/ GameStarted \/ GameFailed
               \/ (Downloads \/ Frames \/ Continuations) /\ UNCHANGED pageVars)
=============================================================================
