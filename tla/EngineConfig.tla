---------------------------- MODULE EngineConfig ----------------------------
(***************************************************************************)
(* InternalConfig of the game client's index.js: the options of an Engine  *)
(* instance and what is derived from them.  Functions and the values that  *)
(* nothing branches on are model values or strings.                        *)
(***************************************************************************)
EXTENDS Integers, Sequences, SequencesExt

CONSTANT None  \* null, and a callback that is not set

\* cfg, the prototype of every Config.
DefaultConfig ==
    [unloadAfterInit |-> TRUE, canvas |-> None, executable |-> "",
     mainPack |-> None, locale |-> None, canvasResizePolicy |-> 2, args |-> <<>>,
     focusCanvas |-> TRUE, experimentalVK |-> FALSE, serviceWorker |-> "",
     persistentPaths |-> <<"/userfs">>, persistentDrops |-> FALSE,
     gdextensionLibs |-> <<>>, fileSizes |-> <<>>, emscriptenPoolSize |-> 8,
     godotPoolSize |-> 4, onExecute |-> None, onExit |-> None,
     onProgress |-> None, onPrint |-> "console.log",
     onPrintError |-> "console.error"]

\* Config.update: options it does not know are ignored, others override.
Update(config, opts) ==
    [k \in DOMAIN config |-> IF k \in DOMAIN opts THEN opts[k] ELSE config[k]]

NewConfig(initConfig) == Update(DefaultConfig, initConfig)

\* The pack startGame loads when none is configured.
PackOf(config) ==
    IF config.mainPack = None THEN <<config.executable, "pck">> ELSE config.mainPack

\* fileSizes[file], or undefined: a function of the configured files.
SizeOf(config, file) ==
    IF file \in DOMAIN config.fileSizes THEN config.fileSizes[file] ELSE 0

-----------------------------------------------------------------------------
(* locateFile: a path is the sequence of its parts between dots *)

EndsWith(path, parts) == IsSuffix(parts, path) /\ Len(parts) < Len(path)

\* A mutated form of LocateFile: the shortest ending is tried first.
LocateFileShortest(loadPath, path) ==
    IF Head(path) # "godot" \/ Len(path) = 1 THEN path
    ELSE IF EndsWith(path, <<"js">>) THEN <<loadPath, "js">>
    ELSE IF EndsWith(path, <<"wasm">>) THEN <<loadPath, "wasm">>
    ELSE path

\* The test for extension libraries looks at indices of an array and never
\* holds for a name.
LocateFile(loadPath, path) ==
    IF Head(path) # "godot" \/ Len(path) = 1 THEN path
    ELSE IF EndsWith(path, <<"audio", "worklet", "js">>)
         THEN <<loadPath, "audio", "worklet", "js">>
    ELSE IF EndsWith(path, <<"audio", "position", "worklet", "js">>)
         THEN <<loadPath, "audio", "position", "worklet", "js">>
    ELSE IF EndsWith(path, <<"js">>) THEN <<loadPath, "js">>
    ELSE IF EndsWith(path, <<"side", "wasm">>) THEN <<loadPath, "side", "wasm">>
    ELSE IF EndsWith(path, <<"wasm">>) THEN <<loadPath, "wasm">>
    ELSE path

\* getModuleConfig: what the engine's runtime is made with; loadPath is
\* what its locateFile has closed over.
ModuleConfig(config, loadPath) ==
    [thisProgram |-> config.executable, loadPath |-> loadPath,
     dynamicLibraries |-> <<<<loadPath, "side", "wasm">>>> \o config.gdextensionLibs]

-----------------------------------------------------------------------------
(* getGodotConfig *)

\* The canvas to use when the page's first canvas is firstCanvas, or None.
FindCanvas(config, firstCanvas) ==
    IF config.canvas # None THEN config.canvas ELSE firstCanvas

\* The configuration keeps the canvas that was found.
WithCanvas(config, firstCanvas) ==
    [config EXCEPT !.canvas = FindCanvas(config, firstCanvas)]

GodotConfig(config, browserLocale) ==
    [canvas |-> config.canvas,
     canvasResizePolicy |-> config.canvasResizePolicy,
     locale |-> IF config.locale = None THEN browserLocale ELSE config.locale,
     persistentDrops |-> config.persistentDrops,
     virtualKeyboard |-> config.experimentalVK,
     godotPoolSize |-> config.godotPoolSize,
     focusCanvas |-> config.focusCanvas,
     onExecute |-> config.onExecute,
     onExit |-> config.onExit]
=============================================================================
