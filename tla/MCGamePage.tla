----------------------------- MODULE MCGamePage -----------------------------
(* The page of this repository; a body is one chunk and the end of the body.  *)
EXTENDS PageProperties

CONSTANTS page, canvas1

wasmFile == <<"index", "wasm">>
packFile == <<"index", "pck">>

PageFiles == {wasmFile, packFile}
Lengths == [f \in PageFiles |-> 1]
AllLoads == 1..3
AllInits == 1..2
AllCalls == 1..2

PageConfig == [executable |-> "index", args |-> <<>>, fileSizes |-> Lengths,
               gdextensionLibs |-> <<>>, canvasResizePolicy |-> 2,
               focusCanvas |-> TRUE, experimentalVK |-> FALSE,
               emscriptenPoolSize |-> 8, godotPoolSize |-> 4,
               ensureCrossOriginIsolationHeaders |-> TRUE]

ScriptsPack == {packFile}

ScriptOverrides == {<<>>, [gdextensionLibs |-> <<"lib">>]}
=============================================================================
