--------------------------- MODULE PageProperties ---------------------------
(* What makes the start of the game correct.                                  *)
EXTENDS GamePage

\* As long as no other script of the page uses the Engine.
Alone == otherCalls = 0

Pack == PackOf(config[ThePage])

PreloadedFiles == [path : Files, file : Files, length : Nat]

\* Every variable keeps its type.
TypeOK ==
    /\ \A l \in Loads :
         LET load == preloader.loads[l] IN
         /\ load.at \in {"free", "fetch", "body", "lost", "timer", "closed", "kept", "rejected"}
         /\ load.attempts \in 0..DOWNLOAD_ATTEMPTS_MAX
         /\ load.at # "free" => load.file \in Files /\ load.got \in 0..BodyLength[load.file]
         /\ load.stat \in Stats \cup {None} /\ (load.stat # None <=> load.at = "body")
    /\ preloader.loadingFiles \in [Files -> Stats \cup {None}]
    /\ preloader.stats \in [Stats -> [total : Nat, loaded : Nat, done : BOOLEAN]]
    /\ preloader.preloadedFiles \in Seq(PreloadedFiles)
    /\ frames \in Nat
    /\ engine.loadPromise \in Loads \cup {None}
    /\ engine.initPromise \in Inits \cup {None}
    /\ \A i \in Inits :
         /\ Module(i).at \in {"free", "load", "compile", "initFS", "done", "hung", "rejected"}
         /\ Module(i).fs \subseteq PreloadedFiles
    /\ rtenv \in [Engines -> Inits \cup {None}]
    /\ \A c \in Calls : calls[c].at \in {"free", "loading", "starting", "resolved", "rejected"}
    /\ statusMode \in {"", "progress", "notice", "hidden"}

\* The engine's runtime asks for its own files by generic names; each is found
\* under the name the export has given it.
FindsItsFiles ==
    \A i \in Inits : Module(i).program # None =>
        \A parts \in {<<"js">>, <<"wasm">>, <<"side", "wasm">>, <<"audio", "worklet", "js">>,
                      <<"audio", "position", "worklet", "js">>} :
            LocateFile(Module(i).program.loadPath, <<"godot">> \o parts)
              = <<Module(i).program.thisProgram>> \o parts

\* An instance never holds on to a module whose game has ended, and never has one
\* whose file system is not there yet.
RtenvIsLive ==
    \A e \in Engines : rtenv[e] # None =>
        Module(rtenv[e]).at = "done" /\ ~Module(rtenv[e]).over

\* Started by its page, the game runs once, with the whole pack in its file
\* system, with the arguments that name it, and on a canvas.
RunsWithItsPack ==
    Alone => \A i \in Inits : Module(i).mains # <<>> =>
        /\ Module(i).mains = << <<config[ThePage].executable, "--main-pack", Pack>> >>
        /\ [path |-> Pack, file |-> Pack, length |-> BodyLength[Pack]] \in Module(i).fs
        /\ Module(i).options.canvas # None

\* The overlay goes away only when the game has been started, and a browser is
\* refused only for a feature this export needs: threads are not among them.
StatusTellsTheTruth ==
    Alone =>
        /\ statusMode = "hidden" => \E i \in Inits : Module(i).mains # <<>>
        /\ statusMode = "notice" /\ pageCall = None => "WebGL2" \notin browser

\* The bar never goes back, whatever is tried again.
BarNeverBack ==
    [][Alone' => preloader'.reported.loaded >= preloader.reported.loaded]_vars

\* The bar of the page never goes over its end.  When no more frames are asked
\* for, the downloads of the page are complete and the last frame has said so.
BarReachesItsEnd ==
    Alone =>
        /\ preloader.reported.loaded <= preloader.reported.total
        /\ pageCall # None /\ frames = 0 =>
             /\ ProgressIsFinal
             /\ preloader.reported = [loaded |-> Total, total |-> Total]

\* The ways a start can be left without an answer: the engine's file is given up,
\* a download breaks off, or the file cannot be instantiated.
Hung ==
    \/ \E l \in Loads : preloader.loads[l].at = "lost"
    \/ \E i \in Inits : Module(i).at = "hung"
    \/ engine.loadPromise # None /\ Rejected(engine.loadPromise)

\* Otherwise the page goes from the bar to the game or to the notice.
PageAnswersUnlessHung ==
    statusMode = "progress" ~> (statusMode # "progress" \/ Hung \/ ~Alone)

\* index.html passes displayFailureNotice to handle a start that fails: the page
\* does not show the bar for ever.
PageAnswers == statusMode = "progress" ~> statusMode # "progress"

\* preloadFile's promise "resolves once the file is loaded": what is kept of a
\* file is the whole file.
PreloadedWhole ==
    \A l \in Loads : preloader.loads[l].at = "kept" =>
        preloader.loads[l].got = BodyLength[preloader.loads[l].file]
=============================================================================
