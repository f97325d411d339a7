------------------------------- MODULE Engine -------------------------------
(***************************************************************************)
(* The Engine of the game client's index.js: loading, initialising and     *)
(* starting the game.  What the instances share (loadPromise, initPromise, *)
(* the Preloader) is in engine and preloader; config and rtenv belong to   *)
(* an instance.  A method runs to its end at once; it is an operator from  *)
(* the shared variables to the shared variables.  Its continuations are    *)
(* actions of their own.                                                   *)
(***************************************************************************)
EXTENDS Preloader

CONSTANTS Engines,      \* instances of Engine
          Inits,        \* promises init has made, in the order it made them
          Calls,        \* calls of start and startGame, in the order they are made
          InitConfig,   \* GODOT_CONFIG
          Overrides,    \* options a script passes to start
          ScriptFiles,  \* files a script preloads or copies
          CanvasChoice  \* what the first canvas in the page may be when it is looked for

ASSUME EngineAssumption ==
    /\ Inits \subseteq Nat /\ Calls \subseteq Nat
    /\ None \notin Inits /\ None \notin Calls

VARIABLES engine,  \* loadPromise, initPromise and the promises of init
          config,  \* the Config of every instance
          rtenv,   \* the initialised module of every instance, or None
          calls    \* the calls of start and startGame

engineVars == <<preloader, frames, engine, config, rtenv, calls>>

Wasm(exe) == <<exe, "wasm">>

\* A promise of init and the module it makes.  "load": waits for the wasm file;
\* "compile": Godot() was called; "initFS"; "done"; "hung": it never settles.
NoInit == [at |-> "free", load |-> None, owner |-> None, program |-> None,
           options |-> None, fs |-> {}, mains |-> <<>>, over |-> FALSE]

\* A call of start or startGame.  "loading": startGame waits for both promises;
\* "starting": start waits for init; or settled.
NoCall == [at |-> "free", owner |-> None, init |-> None, load |-> None]

EngineInit ==
    /\ PreloaderInit
    /\ engine = [loadPromise |-> None, loadPath |-> "", initPromise |-> None,
                 inits |-> [i \in Inits |-> NoInit]]
    /\ config = [e \in Engines |-> NewConfig(InitConfig)]
    /\ rtenv = [e \in Engines |-> None]
    /\ calls = [c \in Calls |-> NoCall]

-----------------------------------------------------------------------------
(* The shared variables, as one value *)

Shared == [pre |-> preloader, eng |-> engine, frames |-> frames]

Become(s) ==
    /\ preloader' = s.pre
    /\ engine' = s.eng
    /\ frames' = s.frames

NextInit(s) == Min({i \in Inits : s.eng.inits[i].at = "free"})

NextCall == Min({c \in Calls : calls[c].at = "free"})

\* Bounds of an instance: promises and calls that can still be told apart.
RoomFor(s, loads, inits) ==
    /\ Cardinality(FreeLoads(s.pre)) >= loads
    /\ Cardinality({i \in Inits : s.eng.inits[i].at = "free"}) >= inits

RoomForCall == \E c \in Calls : calls[c].at = "free"

\* Engine.load
Load(s, basePath, size) ==
    IF s.eng.loadPromise # None THEN s
    ELSE [s EXCEPT !.pre = LoadPromise(@, Wasm(basePath), size, TRUE, None),
                   !.eng.loadPath = basePath,
                   !.eng.loadPromise = NextLoad(s.pre),
                   !.frames = @ + 1]

\* Engine.unload
Unload(s) == [s EXCEPT !.eng.loadPromise = None]

WithInit(s, init) ==
    LET i == NextInit(s) IN
    [s EXCEPT !.eng.inits[i] = init, !.eng.initPromise = i]

\* init(basePath) of the instance e, configured with conf; the promise is
\* initPromise of the result.
Init(s, e, conf, basePath) ==
    IF s.eng.initPromise # None THEN s
    ELSE IF s.eng.loadPromise = None /\ basePath = None
    THEN WithInit(s, [NoInit EXCEPT !.at = "rejected"])
    ELSE LET loaded == Load(s, basePath, SizeOf(conf, Wasm(basePath))) IN
         WithInit([loaded EXCEPT !.pre.progressFunc = conf.onProgress],
                  [NoInit EXCEPT !.at = "load", !.owner = e,
                                 !.load = loaded.eng.loadPromise])

\* preloadFile(file, path) for a file that is downloaded.
PreloadFile(s, conf, file, path) ==
    [s EXCEPT !.pre = LoadPromise(@, file, SizeOf(conf, file), FALSE,
                                  IF path = None THEN file ELSE path)]

Module(i) == engine.inits[i]

-----------------------------------------------------------------------------
(* doInit *)

\* The response is there: Godot(getModuleConfig(...)) is called with a clone.
Instantiate(i) ==
    /\ Module(i).at = "load" /\ Resolved(Module(i).load)
    /\ engine' = [engine EXCEPT
         !.inits[i].at = "compile",
         !.inits[i].program = ModuleConfig(config[Module(i).owner], engine.loadPath)]
    /\ UNCHANGED <<preloader, frames, config, rtenv, calls>>

\* The whole wasm file came and is instantiated, or is not: instantiateWasm has
\* no handler for that, and Godot()'s promise stays open.
Instantiated(i) ==
    /\ Module(i).at = "compile"
    /\ preloader.loads[Module(i).load].at = "closed"
    /\ LET whole == preloader.loads[Module(i).load].got
                      = BodyLength[preloader.loads[Module(i).load].file]
       IN engine' \in {[engine EXCEPT !.inits[i].at = at] :
                         at \in IF whole THEN {"initFS", "hung"} ELSE {"hung"}}
    /\ UNCHANGED <<preloader, frames, config, rtenv, calls>>

\* initFS resolves, with an error or without.
InitFSDone(i) ==
    /\ Module(i).at = "initFS"
    /\ rtenv' = [rtenv EXCEPT ![Module(i).owner] = i]
    /\ LET done == [engine EXCEPT !.inits[i].at = "done"] IN
       engine' = IF config[Module(i).owner].unloadAfterInit
                 THEN [done EXCEPT !.loadPromise = None] ELSE done
    /\ UNCHANGED <<preloader, frames, config, calls>>

-----------------------------------------------------------------------------
(* start and startGame *)

\* A mutated form of StartGameLoaded: the pack is not waited for.
StartGameLoadedEarly(c) ==
    LET e == calls[c].owner
        s == Init(Shared, e, config[e], None)
    IN
    /\ calls[c].at = "loading"
    /\ Module(calls[c].init).at = "done"
    /\ RoomFor(Shared, 0, 1)
    /\ Become(s)
    /\ calls' = [calls EXCEPT ![c].at = "starting", ![c].init = s.eng.initPromise]
    /\ UNCHANGED <<config, rtenv>>

\* The part of start before its promise: init without a path, no override.
StartGameLoaded(c) ==
    LET e == calls[c].owner
        s == Init(Shared, e, config[e], None)
    IN
    /\ calls[c].at = "loading"
    /\ Module(calls[c].init).at = "done"
    /\ preloader.loads[calls[c].load].at = "kept"
    /\ RoomFor(Shared, 0, 1)
    /\ Become(s)
    /\ calls' = [calls EXCEPT ![c].at = "starting", ![c].init = s.eng.initPromise]
    /\ UNCHANGED <<config, rtenv>>

\* Promise.all rejects as soon as one of its promises is rejected.
StartGameFails(c) ==
    /\ calls[c].at = "loading"
    /\ Module(calls[c].init).at = "rejected" \/ Rejected(calls[c].load)
    /\ calls' = [calls EXCEPT ![c].at = "rejected"]
    /\ UNCHANGED <<preloader, frames, engine, config, rtenv>>

\* initConfig(getGodotConfig(cleanup)): the module's options, and the canvas
\* that was found stays in the configuration.
Configured(e, canvas) ==
    LET found == WithCanvas(config[e], canvas) IN
    [config |-> [config EXCEPT ![e] = found],
     engine |-> [engine EXCEPT !.inits[rtenv[e]].options = GodotConfig(found, "en")]]

\* copyToFS for every preloaded file, then callMain, which puts the name of the
\* program in front of the very array the configuration holds, and may throw.
RunMain(e, canvas, returns) ==
    LET i == rtenv[e]
        arguments == <<Module(i).program.thisProgram>> \o config[e].args
        run == [Configured(e, canvas).engine EXCEPT
                  !.inits[i].fs = @ \cup ToSet(preloader.preloadedFiles),
                  !.inits[i].mains = Append(@, arguments)]
    IN
    /\ preloader' = [preloader EXCEPT !.preloadedFiles = <<>>]
    /\ config' = [Configured(e, canvas).config EXCEPT ![e].args = arguments]
    /\ engine' = IF returns THEN [run EXCEPT !.initPromise = None] ELSE run

\* The continuation of start, when it rejects: no module, no canvas, or
\* extension libraries, which this engine was built without.
StartRefused(e, canvas) ==
    \/ /\ rtenv[e] = None \/ FindCanvas(config[e], canvas) = None
       /\ UNCHANGED <<preloader, engine, config>>
    \/ /\ rtenv[e] # None /\ FindCanvas(config[e], canvas) # None
       /\ config[e].gdextensionLibs # <<>>
       /\ engine' = Configured(e, canvas).engine
       /\ config' = Configured(e, canvas).config
       /\ UNCHANGED preloader

StartRuns(e, canvas, returns) ==
    /\ rtenv[e] # None /\ FindCanvas(config[e], canvas) # None
    /\ config[e].gdextensionLibs = <<>>
    /\ RunMain(e, canvas, returns)

\* A mutated form of StartInitialised: a start that is refused resolves.
StartInitialisedAnyway(c) ==
    /\ calls[c].at = "starting"
    /\ Module(calls[c].init).at = "done"
    /\ \E canvas \in CanvasChoice, returns \in BOOLEAN :
         \/ StartRefused(calls[c].owner, canvas)
         \/ StartRuns(calls[c].owner, canvas, returns)
    /\ calls' = [calls EXCEPT ![c].at = "resolved"]
    /\ UNCHANGED <<frames, rtenv>>

\* The continuation of start.
StartInitialised(c) ==
    LET e == calls[c].owner IN
    /\ calls[c].at = "starting"
    /\ Module(calls[c].init).at = "done"
    /\ \E canvas \in CanvasChoice :
         \/ /\ StartRefused(e, canvas) \/ StartRuns(e, canvas, FALSE)
            /\ calls' = [calls EXCEPT ![c].at = "rejected"]
         \/ /\ StartRuns(e, canvas, TRUE)
            /\ calls' = [calls EXCEPT ![c].at = "resolved"]
    /\ UNCHANGED <<frames, rtenv>>

StartFails(c) ==
    /\ calls[c].at = "starting"
    /\ Module(calls[c].init).at = "rejected"
    /\ calls' = [calls EXCEPT ![c].at = "rejected"]
    /\ UNCHANGED <<preloader, frames, engine, config, rtenv>>

\* A mutated form of Exit: the instance keeps the module.
ExitKeeping(i) ==
    /\ Module(i).mains # <<>> /\ ~Module(i).over
    /\ engine' = [engine EXCEPT !.inits[i].over = TRUE]
    /\ UNCHANGED <<preloader, frames, config, rtenv, calls>>

\* The game ends: onExit calls cleanup before the configured onExit.
Exit(i) ==
    /\ Module(i).mains # <<>> /\ ~Module(i).over
    /\ engine' = [engine EXCEPT !.inits[i].over = TRUE]
    /\ rtenv' = [rtenv EXCEPT ![Module(i).owner] = None]
    /\ UNCHANGED <<preloader, frames, config, calls>>

Downloads == \E l \in Loads : Download(l) /\ UNCHANGED <<engine, config, rtenv, calls>>

Frames == AnimateProgress /\ UNCHANGED <<engine, config, rtenv, calls>>

Continuations ==
    \/ \E i \in Inits : Instantiate(i) \/ Instantiated(i) \/ InitFSDone(i)
    \/ \E c \in Calls : \/ StartGameLoaded(c) \/ StartGameFails(c)
                        \/ StartInitialised(c) \/ StartFails(c)

EngineStep == Downloads \/ Frames \/ Continuations \/ \E i \in Inits : Exit(i)

-----------------------------------------------------------------------------
(* What a page may call *)

\* startGame(override)
StartGame(e, override) ==
    LET updated == Update(config[e], override)
        pack == PackOf(updated)
        s == Init(Shared, e, updated, updated.executable)
    IN
    /\ RoomForCall
    /\ RoomFor(Shared, IF engine.initPromise = None THEN 2 ELSE 1, 1)
    /\ config' = [config EXCEPT ![e] =
                    [updated EXCEPT !.args = <<"--main-pack", pack>> \o @]]
    /\ Become(PreloadFile(s, updated, pack, pack))
    /\ calls' = [calls EXCEPT ![NextCall] =
                   [at |-> "loading", owner |-> e, init |-> s.eng.initPromise,
                    load |-> NextLoad(s.pre)]]
    /\ UNCHANGED rtenv

\* start(override)
Start(e, override) ==
    LET updated == Update(config[e], override)
        s == Init(Shared, e, updated, None)
    IN
    /\ RoomForCall /\ RoomFor(Shared, 0, 1)
    /\ config' = [config EXCEPT ![e] = updated]
    /\ Become(s)
    /\ calls' = [calls EXCEPT ![NextCall] =
                   [at |-> "starting", owner |-> e, init |-> s.eng.initPromise,
                    load |-> None]]
    /\ UNCHANGED rtenv

CallInit(e, basePath) ==
    /\ RoomFor(Shared, 1, 1)
    /\ Become(Init(Shared, e, config[e], basePath))
    /\ UNCHANGED <<config, rtenv, calls>>

CallPreloadFile(e, file) ==
    /\ RoomFor(Shared, 1, 0)
    /\ Become(PreloadFile(Shared, config[e], file, None))
    /\ UNCHANGED <<config, rtenv, calls>>

\* preloadFile of a buffer the script has already: nothing is downloaded.
CallPreloadBuffer(path) ==
    /\ preloader' = [preloader EXCEPT !.preloadedFiles =
                       Append(@, [path |-> path, file |-> path, length |-> BodyLength[path]])]
    /\ UNCHANGED <<frames, engine, config, rtenv, calls>>

CallLoad(e) ==
    /\ RoomFor(Shared, 1, 0)
    /\ Become(Load(Shared, config[e].executable, 0))
    /\ UNCHANGED <<config, rtenv, calls>>

CallUnload ==
    /\ Become(Unload(Shared))
    /\ UNCHANGED <<config, rtenv, calls>>

\* copyToFS throws without a module.
CallCopyToFS(e, file) ==
    /\ rtenv[e] # None
    /\ engine' = [engine EXCEPT !.inits[rtenv[e]].fs =
                    @ \cup {[path |-> file, file |-> file, length |-> BodyLength[file]]}]
    /\ UNCHANGED <<preloader, frames, config, rtenv, calls>>

\* Anything the instance's methods offer, in any order.
AnyCall(e) ==
    \/ StartGame(e, <<>>)
    \/ \E override \in Overrides : Start(e, override)
    \/ \E basePath \in {None, config[e].executable} : CallInit(e, basePath)
    \/ \E file \in ScriptFiles :
         CallPreloadFile(e, file) \/ CallPreloadBuffer(file) \/ CallCopyToFS(e, file)
    \/ CallLoad(e)
    \/ CallUnload
=============================================================================
