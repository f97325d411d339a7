------------------------ MODULE PageProperties_proof ------------------------
(***************************************************************************)
(* What holds of the game's page whatever other scripts call, how often,   *)
(* on how many instances, and whatever downloads fail.                     *)
(***************************************************************************)
EXTENDS PageProperties, WellFoundedInduction, FiniteSetTheorems, SequenceTheorems, TLAPS

-----------------------------------------------------------------------------
(* The inductive invariant *)

EngineFields == {"loadPromise", "loadPath", "initPromise", "inits"}

IsSequence(s) == s \in Seq({s[k] : k \in DOMAIN s})

\* A module belongs to an instance once it is made, and runs, and ends, only when
\* it is complete.
ModuleOK(m) ==
    /\ DOMAIN m = DOMAIN NoInit
    /\ m.at \in {"load", "compile", "initFS", "done"} => m.owner \in Engines
    /\ m.at # "done" => m.mains = <<>> /\ ~m.over
    /\ IsSequence(m.mains)

ModulesOK ==
    /\ DOMAIN engine = EngineFields /\ DOMAIN engine.inits = Inits
    /\ \A i \in Inits : ModuleOK(Module(i))

\* An instance holds a module of its own, complete and not over.
LiveIn(m, e) == m.at = "done" /\ m.owner = e /\ ~m.over

RtenvOwned ==
    /\ rtenv \in [Engines -> Inits \cup {None}]
    /\ \A e \in Engines : rtenv[e] # None => LiveIn(Module(rtenv[e]), e)

GameRan == \E i \in Inits : Module(i).mains # <<>>

CallOK(call) ==
    /\ DOMAIN call = DOMAIN NoCall
    /\ call.at \in {"loading", "starting"} => call.owner \in Engines
    /\ call.at = "resolved" => GameRan

CallsOK == DOMAIN calls = Calls /\ \A c \in Calls : CallOK(calls[c])

PageOK ==
    /\ pageCall \in Calls \cup {None}
    /\ statusMode = "hidden" => GameRan
    /\ statusMode = "notice" /\ pageCall = None => "WebGL2" \notin browser
    /\ browser \in {Features \ {"crossOriginIsolated", "SharedArrayBuffer"},
                    Features \ {"WebGL2"}}

PageInv == ModulesOK /\ RtenvOwned /\ CallsOK /\ PageOK

-----------------------------------------------------------------------------
(* Numbers and sequences *)

\* FiniteSetsExt's Min of numbers is one of them: of the intervals 0..n, ordered by
\* inclusion, one is minimal.
LEMMA MinOfNats ==
  ASSUME NEW S \in SUBSET Nat, S # {}
  PROVE  Min(S) \in S
<1> DEFINE intervals == {0..n : n \in S}
<1>1. intervals \subseteq FiniteSubsetsOf(Nat) /\ intervals # {}
  <2>1. \A n \in S : 0..n \in SUBSET Nat /\ IsFiniteSet(0..n)
    BY FS_Interval
  <2>2. \A n \in S : 0..n \in FiniteSubsetsOf(Nat)
    BY <2>1 DEF FiniteSubsetsOf
  <2> QED
    BY <2>2
<1>2. PICK X \in intervals : \A Y \in intervals : <<Y, X>> \notin StrictSubsetOrdering(Nat)
  BY <1>1, FS_StrictSubsetOrderingWellFounded, WFMin
<1>3. PICK m \in S : X = 0..m
  OBVIOUS
<1>4. ASSUME NEW n \in S, n < m PROVE FALSE
  <2>1. 0..n \in SUBSET Nat /\ 0..m \in SUBSET Nat /\ 0..n \subseteq 0..m /\ m \notin 0..n
    BY <1>4
  <2>2. <<0..n, 0..m>> \in StrictSubsetOrdering(Nat)
    BY <2>1 DEF StrictSubsetOrdering
  <2> QED
    BY <1>2, <1>3, <2>2
<1>5. \A n \in S : m <= n
  BY <1>4
<1> QED
  BY <1>5 DEF Min

LEMMA AppendSequence ==
  ASSUME NEW s, IsSequence(s), NEW x
  PROVE  IsSequence(Append(s, x)) /\ Append(s, x) # <<>>
<1> DEFINE S == {s[k] : k \in DOMAIN s} \cup {x}
<1>1. s \in Seq(S)
  BY DEF IsSequence
<1> HIDE DEF S
<1>2. Append(s, x) \in Seq(S) /\ Append(s, x) # <<>> /\ x \in S
  BY <1>1 DEF S
<1>3. Append(s, x) \in Seq({Append(s, x)[k] : k \in DOMAIN Append(s, x)})
  BY <1>2
<1> QED
  BY <1>2, <1>3 DEF IsSequence

LEMMA EmptySequence == IsSequence(<<>>)
  BY DEF IsSequence

LEMMA FreeModuleOK == ModuleOK(NoInit)
<1>1. DOMAIN NoInit = DOMAIN NoInit /\ NoInit.at = "free" /\ NoInit.mains = <<>>
      /\ ~NoInit.over
  BY DEF NoInit
<1> QED
  BY <1>1, EmptySequence DEF ModuleOK

-----------------------------------------------------------------------------
(* The modules *)

Kept == ModulesOK' /\ RtenvOwned' /\ (GameRan => GameRan')

\* One module changes, and whichever instance holds it then may.
LEMMA ModuleMoves ==
  ASSUME PageInv, NEW i \in Inits, NEW m, ModuleOK(m),
         DOMAIN engine' = EngineFields, engine'.inits = [engine.inits EXCEPT ![i] = m],
         Module(i).mains # <<>> => m.mains # <<>>,
         rtenv' \in [Engines -> Inits \cup {None}],
         \A e \in Engines : \/ rtenv'[e] = None
                            \/ rtenv'[e] = i /\ LiveIn(m, e)
                            \/ rtenv'[e] = rtenv[e] /\ rtenv[e] # i
  PROVE  Kept
<1>1. /\ DOMAIN engine'.inits = Inits /\ engine'.inits[i] = m
      /\ \A j \in Inits \ {i} : engine'.inits[j] = engine.inits[j]
  BY DEF PageInv, ModulesOK
<1>2. ModulesOK'
  BY <1>1 DEF PageInv, ModulesOK, Module
<1>3. RtenvOwned'
  BY <1>1 DEF PageInv, RtenvOwned, Module
<1>4. GameRan => GameRan'
  BY <1>1 DEF GameRan, Module
<1> QED
  BY <1>2, <1>3, <1>4 DEF Kept

\* As long as rtenv stays, a live module must stay live.
LEMMA ModuleGoesOn ==
  ASSUME PageInv, NEW i \in Inits, NEW m, ModuleOK(m),
         DOMAIN engine' = EngineFields, engine'.inits = [engine.inits EXCEPT ![i] = m],
         Module(i).mains # <<>> => m.mains # <<>>, UNCHANGED rtenv,
         \A e \in Engines : LiveIn(Module(i), e) => LiveIn(m, e)
  PROVE  Kept
<1>1. \A e \in Engines : rtenv[e] = i => LiveIn(m, e)
  BY EngineAssumption DEF PageInv, RtenvOwned
<1> QED
  BY <1>1, ModuleMoves DEF PageInv, RtenvOwned

LEMMA ModulesStay ==
  ASSUME PageInv, DOMAIN engine' = EngineFields, engine'.inits = engine.inits,
         UNCHANGED rtenv
  PROVE  Kept
  BY DEF PageInv, Kept, ModulesOK, RtenvOwned, GameRan, Module

-----------------------------------------------------------------------------
(* init *)

\* What a method leaves of the shared variables: at most one more module, that
\* was free before.
Begun(s) ==
    /\ DOMAIN s = {"pre", "eng", "frames"} /\ DOMAIN s.eng = EngineFields
    /\ \/ s.eng.inits = engine.inits
       \/ \E i \in Inits : \E m :
            /\ Module(i).at = "free" /\ ModuleOK(m)
            /\ s.eng.inits = [engine.inits EXCEPT ![i] = m]

LEMMA NextIsFree ==
  ASSUME NEW loads, NEW n \in Nat, RoomFor(Shared, loads, n), n > 0
  PROVE  LET i == Min({j \in Inits : engine.inits[j].at = "free"}) IN
         i \in Inits /\ Module(i).at = "free"
<1> DEFINE free == {j \in Inits : engine.inits[j].at = "free"}
<1>1. Cardinality(free) >= n
  BY DEF RoomFor, Shared
<1>2. free # {}
  BY <1>1, FS_EmptySet
<1>3. free \subseteq Nat
  BY EngineAssumption
<1>4. Min(free) \in free
  BY <1>2, <1>3, MinOfNats
<1> QED
  BY <1>4 DEF Module

LEMMA LoadBegins ==
  ASSUME PageInv, NEW basePath, NEW size
  PROVE  LET s == Load(Shared, basePath, size) IN
         /\ DOMAIN s = {"pre", "eng", "frames"} /\ DOMAIN s.eng = EngineFields
         /\ s.eng.inits = engine.inits
  BY DEF Load, Shared, PageInv, ModulesOK, EngineFields

LEMMA InitBegins ==
  ASSUME PageInv, NEW loads, NEW n \in Nat, RoomFor(Shared, loads, n), n > 0,
         NEW e \in Engines, NEW conf, NEW basePath
  PROVE  Begun(Init(Shared, e, conf, basePath))
<1> DEFINE free == Min({j \in Inits : engine.inits[j].at = "free"})
<1>1. free \in Inits /\ Module(free).at = "free"
  BY NextIsFree
<1> HIDE DEF free
<1>2. CASE engine.initPromise # None
  BY <1>2 DEF Begun, Init, Shared, PageInv, ModulesOK
<1>3. ASSUME NEW s, DOMAIN s = {"pre", "eng", "frames"}, DOMAIN s.eng = EngineFields,
             s.eng.inits = engine.inits, NEW m, ModuleOK(m)
      PROVE  Begun(WithInit(s, m))
  <2>1. NextInit(s) = free
    BY <1>3 DEF NextInit, free
  <2>2. /\ DOMAIN WithInit(s, m) = {"pre", "eng", "frames"}
        /\ DOMAIN WithInit(s, m).eng = EngineFields
        /\ WithInit(s, m).eng.inits = [engine.inits EXCEPT ![free] = m]
    BY <1>3, <2>1 DEF WithInit, EngineFields
  <2> QED
    BY <1>1, <1>3, <2>2 DEF Begun
<1>4. CASE engine.initPromise = None /\ engine.loadPromise = None /\ basePath = None
  <2>1. ModuleOK([NoInit EXCEPT !.at = "rejected"])
    BY DEF ModuleOK, NoInit, IsSequence
  <2>2. DOMAIN Shared = {"pre", "eng", "frames"} /\ Shared.eng = engine
    BY DEF Shared
  <2>3. Begun(WithInit(Shared, [NoInit EXCEPT !.at = "rejected"]))
    BY <1>3, <2>1, <2>2 DEF PageInv, ModulesOK
  <2> QED
    BY <1>4, <2>2, <2>3 DEF Init
<1>5. CASE engine.initPromise = None /\ ~(engine.loadPromise = None /\ basePath = None)
  <2> DEFINE loaded == Load(Shared, basePath, SizeOf(conf, Wasm(basePath)))
             s == [loaded EXCEPT !.pre.progressFunc = conf.onProgress]
             m == [NoInit EXCEPT !.at = "load", !.owner = e,
                                 !.load = loaded.eng.loadPromise]
  <2>1. /\ DOMAIN loaded = {"pre", "eng", "frames"} /\ DOMAIN loaded.eng = EngineFields
        /\ loaded.eng.inits = engine.inits
    BY LoadBegins
  <2>2. Shared.eng = engine
    BY DEF Shared
  <2>3. Init(Shared, e, conf, basePath) = WithInit(s, m)
    BY <1>5, <2>2 DEF Init
  <2> HIDE DEF loaded
  <2>4. /\ DOMAIN s = {"pre", "eng", "frames"} /\ DOMAIN s.eng = EngineFields
        /\ s.eng.inits = engine.inits
    BY <2>1
  <2>5. ModuleOK(m)
    BY DEF ModuleOK, NoInit, IsSequence
  <2> HIDE DEF s, m
  <2> QED
    BY <1>3, <2>3, <2>4, <2>5
<1> QED
  BY <1>2, <1>4, <1>5

\* A method that ends in Become keeps what instances hold.
LEMMA BegunKeeps ==
  ASSUME PageInv, NEW s, Begun(s), engine' = s.eng, UNCHANGED rtenv
  PROVE  Kept
<1>1. CASE s.eng.inits = engine.inits
  BY <1>1, ModulesStay DEF Begun
<1>2. ASSUME NEW i \in Inits, NEW m, Module(i).at = "free", ModuleOK(m),
             s.eng.inits = [engine.inits EXCEPT ![i] = m]
      PROVE  Kept
  <2>1. Module(i).mains = <<>> /\ \A e \in Engines : ~LiveIn(Module(i), e)
    BY <1>2 DEF PageInv, ModulesOK, ModuleOK, LiveIn
  <2> QED
    BY <1>2, <2>1, ModuleGoesOn DEF Begun
<1> QED
  BY <1>1, <1>2 DEF Begun

-----------------------------------------------------------------------------
(* doInit, the continuation of start, and the end of a game *)

\* The modules when the fields of one of them change.
LEMMA InstantiateKeeps ==
  ASSUME PageInv, NEW i \in Inits, Instantiate(i)
  PROVE  Kept
<1> DEFINE m == [Module(i) EXCEPT !.at = "compile",
                    !.program = ModuleConfig(config[Module(i).owner], engine.loadPath)]
<1>1. /\ DOMAIN engine' = EngineFields
      /\ engine'.inits = [engine.inits EXCEPT ![i] = m]
  BY DEF Instantiate, Module, PageInv, ModulesOK, EngineFields
<1>2. ModuleOK(Module(i)) /\ Module(i).at = "load"
  BY DEF Instantiate, PageInv, ModulesOK
<1>3. ModuleOK(m) /\ m.mains = Module(i).mains
  BY <1>2 DEF ModuleOK, NoInit
<1> HIDE DEF m
<1> QED
  BY <1>1, <1>2, <1>3, ModuleGoesOn DEF Instantiate, LiveIn

LEMMA InstantiatedKeeps ==
  ASSUME PageInv, NEW i \in Inits, Instantiated(i)
  PROVE  Kept
<1>1. PICK at \in {"initFS", "hung"} : engine' = [engine EXCEPT !.inits[i].at = at]
  BY DEF Instantiated
<1> DEFINE m == [Module(i) EXCEPT !.at = at]
<1>2. /\ DOMAIN engine' = EngineFields
      /\ engine'.inits = [engine.inits EXCEPT ![i] = m]
  BY <1>1 DEF Module, PageInv, ModulesOK, EngineFields
<1>3. ModuleOK(Module(i)) /\ Module(i).at = "compile"
  BY DEF Instantiated, PageInv, ModulesOK
<1>4. ModuleOK(m) /\ m.mains = Module(i).mains
  BY <1>3 DEF ModuleOK, NoInit
<1> HIDE DEF m
<1> QED
  BY <1>2, <1>3, <1>4, ModuleGoesOn DEF Instantiated, LiveIn

\* initFS resolves: the module becomes the one of its instance.
LEMMA InitFSDoneKeeps ==
  ASSUME PageInv, NEW i \in Inits, InitFSDone(i)
  PROVE  Kept
<1> DEFINE m == [Module(i) EXCEPT !.at = "done"]
<1>1. /\ DOMAIN engine' = EngineFields
      /\ engine'.inits = [engine.inits EXCEPT ![i] = m]
  BY DEF InitFSDone, Module, PageInv, ModulesOK, EngineFields
<1>2. ModuleOK(Module(i)) /\ Module(i).at = "initFS"
  BY DEF InitFSDone, PageInv, ModulesOK
<1>3. ModuleOK(m) /\ m.mains = Module(i).mains /\ LiveIn(m, Module(i).owner)
  BY <1>2 DEF ModuleOK, NoInit, LiveIn
<1> HIDE DEF m
<1>4. /\ rtenv' \in [Engines -> Inits \cup {None}]
      /\ \A e \in Engines : rtenv'[e] = IF e = Module(i).owner THEN i ELSE rtenv[e]
  BY <1>2 DEF InitFSDone, PageInv, RtenvOwned, ModuleOK
<1>5. \A e \in Engines : rtenv[e] # i
  BY <1>2, EngineAssumption DEF PageInv, RtenvOwned, LiveIn
<1> QED
  BY <1>1, <1>3, <1>4, <1>5, ModuleMoves

\* The options, files and runs of the module an instance holds change.
LEMMA HeldModuleKeeps ==
  ASSUME PageInv, NEW e \in Engines, rtenv[e] # None, NEW m,
         DOMAIN m = DOMAIN NoInit, IsSequence(m.mains),
         m.at = Module(rtenv[e]).at, m.owner = Module(rtenv[e]).owner,
         m.over = Module(rtenv[e]).over,
         Module(rtenv[e]).mains # <<>> => m.mains # <<>>,
         DOMAIN engine' = EngineFields,
         engine'.inits = [engine.inits EXCEPT ![rtenv[e]] = m], UNCHANGED rtenv
  PROVE  Kept
<1>1. rtenv[e] \in Inits /\ LiveIn(Module(rtenv[e]), e)
  BY DEF PageInv, RtenvOwned
<1>2. ModuleOK(m)
  BY <1>1 DEF ModuleOK, LiveIn
<1> QED
  BY <1>1, <1>2, ModuleGoesOn DEF LiveIn

\* The game that ends is over, and its instance has none.
LEMMA ExitKeeps ==
  ASSUME PageInv, NEW i \in Inits, Exit(i)
  PROVE  Kept
<1> DEFINE m == [Module(i) EXCEPT !.over = TRUE]
<1>1. /\ DOMAIN engine' = EngineFields
      /\ engine'.inits = [engine.inits EXCEPT ![i] = m]
  BY DEF Exit, Module, PageInv, ModulesOK, EngineFields
<1>2. ModuleOK(Module(i)) /\ Module(i).at = "done"
  BY DEF Exit, PageInv, ModulesOK, ModuleOK
<1>3. ModuleOK(m) /\ m.mains = Module(i).mains
  BY <1>2 DEF ModuleOK, NoInit
<1> HIDE DEF m
<1>4. /\ rtenv' \in [Engines -> Inits \cup {None}]
      /\ \A e \in Engines : rtenv'[e] = IF e = Module(i).owner THEN None ELSE rtenv[e]
  BY DEF Exit, PageInv, RtenvOwned
<1>5. \A e \in Engines : rtenv[e] = i => e = Module(i).owner
  BY EngineAssumption DEF PageInv, RtenvOwned, LiveIn
<1> QED
  BY <1>1, <1>3, <1>4, <1>5, ModuleMoves

\* The module of an instance with the options it is configured with.
Optioned(e, canvas) ==
    [Module(rtenv[e]) EXCEPT
       !.options = GodotConfig(WithCanvas(config[e], canvas), "en")]

LEMMA ConfiguredModule ==
  ASSUME PageInv, NEW e \in Engines, rtenv[e] # None, NEW canvas
  PROVE  /\ DOMAIN Configured(e, canvas).engine = EngineFields
         /\ Configured(e, canvas).engine.inits
              = [engine.inits EXCEPT ![rtenv[e]] = Optioned(e, canvas)]
         /\ DOMAIN Optioned(e, canvas) = DOMAIN NoInit
         /\ Optioned(e, canvas).at = Module(rtenv[e]).at
         /\ Optioned(e, canvas).owner = Module(rtenv[e]).owner
         /\ Optioned(e, canvas).over = Module(rtenv[e]).over
         /\ Optioned(e, canvas).mains = Module(rtenv[e]).mains
<1> DEFINE i == rtenv[e]
           options == GodotConfig(WithCanvas(config[e], canvas), "en")
<1>1. i \in Inits /\ DOMAIN Module(i) = DOMAIN NoInit
  BY DEF PageInv, RtenvOwned, ModulesOK, ModuleOK
<1>2. /\ Configured(e, canvas).engine = [engine EXCEPT !.inits[i].options = options]
      /\ Optioned(e, canvas) = [Module(i) EXCEPT !.options = options]
  BY DEF Configured, Optioned
<1> HIDE DEF options, i
<1>3. /\ DOMAIN Configured(e, canvas).engine = EngineFields
      /\ Configured(e, canvas).engine.inits
           = [engine.inits EXCEPT ![i] = Optioned(e, canvas)]
  BY <1>2 DEF Module, PageInv, ModulesOK, EngineFields
<1>4. /\ DOMAIN Optioned(e, canvas) = DOMAIN NoInit
      /\ Optioned(e, canvas).at = Module(i).at
      /\ Optioned(e, canvas).owner = Module(i).owner
      /\ Optioned(e, canvas).over = Module(i).over
      /\ Optioned(e, canvas).mains = Module(i).mains
  BY <1>1, <1>2 DEF NoInit
<1> QED
  BY <1>3, <1>4 DEF i

LEMMA RefusedKeeps ==
  ASSUME PageInv, NEW e \in Engines, NEW canvas, StartRefused(e, canvas), UNCHANGED rtenv
  PROVE  Kept
<1>1. CASE UNCHANGED engine
  BY <1>1, ModulesStay DEF PageInv, ModulesOK
<1>2. CASE rtenv[e] # None /\ engine' = Configured(e, canvas).engine
  <2> DEFINE m == Optioned(e, canvas)
  <2>1. IsSequence(Module(rtenv[e]).mains)
    BY <1>2 DEF PageInv, RtenvOwned, ModulesOK, ModuleOK
  <2>2. /\ DOMAIN engine' = EngineFields
        /\ engine'.inits = [engine.inits EXCEPT ![rtenv[e]] = m]
    BY <1>2, ConfiguredModule
  <2>3. /\ DOMAIN m = DOMAIN NoInit /\ m.mains = Module(rtenv[e]).mains
        /\ m.at = Module(rtenv[e]).at /\ m.owner = Module(rtenv[e]).owner
        /\ m.over = Module(rtenv[e]).over
    BY <1>2, ConfiguredModule
  <2> HIDE DEF m
  <2> QED
    BY <1>2, <2>1, <2>2, <2>3, HeldModuleKeeps
<1> QED
  BY <1>1, <1>2 DEF StartRefused

\* The game runs in the module of the instance.
LEMMA RunsKeeps ==
  ASSUME PageInv, NEW e \in Engines, NEW canvas, NEW returns,
         StartRuns(e, canvas, returns), UNCHANGED rtenv
  PROVE  Kept /\ GameRan'
<1> DEFINE i == rtenv[e]
           arguments == <<Module(i).program.thisProgram>> \o config[e].args
           conf == Configured(e, canvas).engine
           run == [conf EXCEPT !.inits[i].fs = @ \cup ToSet(preloader.preloadedFiles),
                               !.inits[i].mains = Append(@, arguments)]
<1>1. i # None
  BY DEF StartRuns
<1>2. /\ i \in Inits /\ ModuleOK(Module(i)) /\ LiveIn(Module(i), e)
      /\ DOMAIN engine.inits = Inits
  BY <1>1 DEF PageInv, RtenvOwned, ModulesOK
<1>3. engine' = run \/ engine' = [run EXCEPT !.initPromise = None]
  BY DEF StartRuns, RunMain
<1> DEFINE m == Optioned(e, canvas)
<1>4. /\ DOMAIN conf = EngineFields
      /\ conf.inits = [engine.inits EXCEPT ![i] = m]
  BY <1>1, ConfiguredModule
<1>5. /\ DOMAIN m = DOMAIN NoInit
      /\ m.at = Module(i).at /\ m.owner = Module(i).owner
      /\ m.over = Module(i).over /\ m.mains = Module(i).mains
  BY <1>1, ConfiguredModule
<1> HIDE DEF m
<1> DEFINE files == m.fs \cup ToSet(preloader.preloadedFiles)
           mains == Append(m.mains, arguments)
           ran == [m EXCEPT !.fs = files, !.mains = mains]
<1> HIDE DEF arguments
<1> HIDE DEF conf
<1>6. IsSequence(mains) /\ mains # <<>>
  BY <1>2, <1>5, AppendSequence DEF ModuleOK
<1>7. /\ DOMAIN run = EngineFields
      /\ run.inits = [engine.inits EXCEPT ![i] = ran]
  BY <1>2, <1>4, <1>5 DEF EngineFields, NoInit
<1> HIDE DEF run
<1>8. /\ DOMAIN engine' = EngineFields
      /\ engine'.inits = [engine.inits EXCEPT ![i] = ran]
  BY <1>3, <1>7 DEF EngineFields
<1>9. /\ DOMAIN ran = DOMAIN NoInit /\ ran.mains = mains
      /\ ran.at = m.at /\ ran.owner = m.owner /\ ran.over = m.over
  BY <1>5 DEF NoInit
<1> HIDE DEF mains, files, ran
<1>10. Kept
  BY <1>1, <1>5, <1>6, <1>8, <1>9, HeldModuleKeeps
<1>11. Module(i)'.mains = mains
  BY <1>2, <1>8, <1>9 DEF Module
<1> QED
  BY <1>2, <1>6, <1>10, <1>11 DEF GameRan

-----------------------------------------------------------------------------
(* The calls of start and startGame *)

\* A call that has not resolved changes.
LEMMA CallMoves ==
  ASSUME PageInv, GameRan => GameRan', NEW c \in Calls, NEW call,
         DOMAIN call = DOMAIN NoCall,
         call.at \in {"loading", "starting"} => call.owner \in Engines,
         call.at = "resolved" => GameRan',
         calls' = [calls EXCEPT ![c] = call]
  PROVE  CallsOK'
  BY DEF PageInv, CallsOK, CallOK

LEMMA CallsStay ==
  ASSUME PageInv, GameRan => GameRan', UNCHANGED calls
  PROVE  CallsOK'
  BY DEF PageInv, CallsOK, CallOK

LEMMA NextCallIsFree ==
  ASSUME RoomForCall
  PROVE  NextCall \in Calls
<1> DEFINE free == {c \in Calls : calls[c].at = "free"}
<1>1. free # {} /\ free \subseteq Nat
  BY EngineAssumption DEF RoomForCall
<1>2. Min(free) \in free
  BY <1>1, MinOfNats
<1> QED
  BY <1>2 DEF NextCall

LEMMA StartGameLoadedKeeps ==
  ASSUME PageInv, NEW c \in Calls, StartGameLoaded(c)
  PROVE  Kept /\ CallsOK'
<1> DEFINE e == calls[c].owner
           s == Init(Shared, e, config[e], None)
           call == [calls[c] EXCEPT !.at = "starting", !.init = s.eng.initPromise]
<1>1. e \in Engines /\ DOMAIN calls = Calls /\ DOMAIN calls[c] = DOMAIN NoCall
  BY DEF StartGameLoaded, PageInv, CallsOK, CallOK
<1>2. RoomFor(Shared, 0, 1) /\ engine' = s.eng /\ UNCHANGED rtenv
  BY DEF StartGameLoaded, Become
<1>3. Begun(s)
  BY <1>1, <1>2, InitBegins
<1>4. calls' = [calls EXCEPT ![c] = call]
  BY DEF StartGameLoaded
<1> HIDE DEF s
<1>5. Kept
  BY <1>2, <1>3, BegunKeeps
<1>6. DOMAIN call = DOMAIN NoCall /\ call.at = "starting" /\ call.owner = e
  BY <1>1 DEF NoCall
<1> HIDE DEF call, e
<1> QED
  BY <1>1, <1>4, <1>5, <1>6, CallMoves DEF Kept

\* A call is settled.
LEMMA CallSettles ==
  ASSUME PageInv, GameRan => GameRan', NEW c \in Calls, NEW at \in {"resolved", "rejected"},
         calls' = [calls EXCEPT ![c].at = at], at = "resolved" => GameRan'
  PROVE  CallsOK'
<1> DEFINE call == [calls[c] EXCEPT !.at = at]
<1>1. DOMAIN calls[c] = DOMAIN NoCall
  BY DEF PageInv, CallsOK, CallOK
<1>2. DOMAIN call = DOMAIN NoCall /\ call.at = at
  BY <1>1 DEF NoCall
<1>3. calls' = [calls EXCEPT ![c] = call]
  OBVIOUS
<1> HIDE DEF call
<1> QED
  BY <1>2, <1>3, CallMoves

LEMMA StartInitialisedKeeps ==
  ASSUME PageInv, NEW c \in Calls, StartInitialised(c)
  PROVE  Kept /\ CallsOK'
<1>1. calls[c].owner \in Engines /\ UNCHANGED rtenv
  BY DEF StartInitialised, PageInv, CallsOK, CallOK
<1>2. PICK canvas \in CanvasChoice :
        \/ /\ StartRefused(calls[c].owner, canvas)
              \/ StartRuns(calls[c].owner, canvas, FALSE)
           /\ calls' = [calls EXCEPT ![c].at = "rejected"]
        \/ /\ StartRuns(calls[c].owner, canvas, TRUE)
           /\ calls' = [calls EXCEPT ![c].at = "resolved"]
  BY DEF StartInitialised
<1>3. Kept
  BY <1>1, <1>2, RefusedKeeps, RunsKeeps
<1>4. \/ calls' = [calls EXCEPT ![c].at = "rejected"]
      \/ calls' = [calls EXCEPT ![c].at = "resolved"] /\ GameRan'
  BY <1>1, <1>2, RunsKeeps
<1> QED
  BY <1>3, <1>4, CallSettles DEF Kept

LEMMA CallFailsKeeps ==
  ASSUME PageInv, NEW c \in Calls, StartGameFails(c) \/ StartFails(c)
  PROVE  Kept /\ CallsOK'
<1>1. UNCHANGED <<engine, rtenv>> /\ calls' = [calls EXCEPT ![c].at = "rejected"]
  BY DEF StartGameFails, StartFails
<1>2. Kept
  BY <1>1, ModulesStay DEF PageInv, ModulesOK
<1> QED
  BY <1>1, <1>2, CallSettles DEF Kept

\* Nothing but the files and the progress changes.
LEMMA OnlyDownloads ==
  ASSUME PageInv, UNCHANGED <<engine, rtenv, calls>>
  PROVE  Kept /\ CallsOK'
<1>1. Kept
  BY ModulesStay DEF PageInv, ModulesOK
<1> QED
  BY <1>1, CallsStay DEF Kept

LEMMA EngineStepKeeps ==
  ASSUME PageInv, EngineStep
  PROVE  Kept /\ CallsOK'
<1>1. CASE Downloads \/ Frames
  BY <1>1, OnlyDownloads DEF Downloads, Frames
<1>2. ASSUME NEW i \in Inits, Instantiate(i) \/ Instantiated(i) \/ InitFSDone(i) \/ Exit(i)
      PROVE  Kept /\ CallsOK'
  <2>1. Kept
    BY <1>2, InstantiateKeeps, InstantiatedKeeps, InitFSDoneKeeps, ExitKeeps
  <2>2. UNCHANGED calls
    BY <1>2 DEF Instantiate, Instantiated, InitFSDone, Exit
  <2> QED
    BY <2>1, <2>2, CallsStay DEF Kept
<1> QED
  BY <1>1, <1>2, StartGameLoadedKeeps, StartInitialisedKeeps, CallFailsKeeps
  DEF EngineStep, Continuations

-----------------------------------------------------------------------------
(* What a script may call *)

\* A call of start or startGame is noted.
LEMMA NewCallKeeps ==
  ASSUME PageInv, Kept, NEW e \in Engines, NEW at \in {"loading", "starting"}, NEW init,
         NEW load, RoomForCall,
         calls' = [calls EXCEPT ![NextCall] =
                     [at |-> at, owner |-> e, init |-> init, load |-> load]]
  PROVE  CallsOK'
<1> DEFINE call == [at |-> at, owner |-> e, init |-> init, load |-> load]
<1>1. DOMAIN call = DOMAIN NoCall /\ call.at = at /\ call.owner = e
  BY DEF NoCall
<1>2. calls' = [calls EXCEPT ![NextCall] = call]
  OBVIOUS
<1> HIDE DEF call
<1> QED
  BY <1>1, <1>2, NextCallIsFree, CallMoves DEF Kept

LEMMA StartGameKeeps ==
  ASSUME PageInv, NEW e \in Engines, NEW override, StartGame(e, override)
  PROVE  Kept /\ CallsOK'
<1> DEFINE updated == Update(config[e], override)
           pack == PackOf(updated)
           s == Init(Shared, e, updated, updated.executable)
<1>1. Begun(s)
  BY InitBegins DEF StartGame
<1>2. engine' = PreloadFile(s, updated, pack, pack).eng /\ UNCHANGED rtenv
  BY DEF StartGame, Become
<1>3. RoomForCall /\ \E init, load :
        calls' = [calls EXCEPT ![NextCall] =
                    [at |-> "loading", owner |-> e, init |-> init, load |-> load]]
  BY DEF StartGame
<1> HIDE DEF s, pack, updated
<1>4. engine' = s.eng
  BY <1>1, <1>2 DEF PreloadFile, Begun
<1>5. Kept
  BY <1>1, <1>2, <1>4, BegunKeeps
<1> QED
  BY <1>3, <1>5, NewCallKeeps

LEMMA StartKeeps ==
  ASSUME PageInv, NEW e \in Engines, NEW override, Start(e, override)
  PROVE  Kept /\ CallsOK'
<1> DEFINE updated == Update(config[e], override)
           s == Init(Shared, e, updated, None)
<1>1. Begun(s) /\ engine' = s.eng /\ UNCHANGED rtenv
  BY InitBegins DEF Start, Become
<1>2. RoomForCall /\ \E init, load :
        calls' = [calls EXCEPT ![NextCall] =
                    [at |-> "starting", owner |-> e, init |-> init, load |-> load]]
  BY DEF Start
<1> HIDE DEF s, updated
<1>3. Kept
  BY <1>1, BegunKeeps
<1> QED
  BY <1>2, <1>3, NewCallKeeps

LEMMA AnyCallKeeps ==
  ASSUME PageInv, NEW e \in Engines, AnyCall(e)
  PROVE  Kept /\ CallsOK'
<1>1. ASSUME NEW s, Begun(s), Become(s), UNCHANGED <<rtenv, calls>>
      PROVE  Kept /\ CallsOK'
  BY <1>1, BegunKeeps, CallsStay DEF Become, Kept
<1>2. ASSUME NEW basePath, CallInit(e, basePath) PROVE Kept /\ CallsOK'
  BY <1>1, <1>2, InitBegins DEF CallInit
<1>3. ASSUME NEW file, CallPreloadFile(e, file) PROVE Kept /\ CallsOK'
  BY <1>3, OnlyDownloads DEF CallPreloadFile, Become, PreloadFile, Shared
<1>4. ASSUME NEW file, CallPreloadBuffer(file) PROVE Kept /\ CallsOK'
  BY <1>4, OnlyDownloads DEF CallPreloadBuffer
<1>5. ASSUME NEW file, CallCopyToFS(e, file) PROVE Kept /\ CallsOK'
  <2> DEFINE i == rtenv[e]
             files == Module(i).fs
                        \cup {[path |-> file, file |-> file, length |-> BodyLength[file]]}
             m == [Module(i) EXCEPT !.fs = files]
  <2>1. i \in Inits /\ ModuleOK(Module(i))
    BY <1>5 DEF CallCopyToFS, PageInv, RtenvOwned, ModulesOK
  <2>2. /\ DOMAIN engine' = EngineFields
        /\ engine'.inits = [engine.inits EXCEPT ![i] = m]
    BY <1>5, <2>1 DEF CallCopyToFS, Module, PageInv, ModulesOK, EngineFields
  <2>3. /\ DOMAIN m = DOMAIN NoInit /\ m.mains = Module(i).mains
        /\ m.at = Module(i).at /\ m.owner = Module(i).owner
        /\ m.over = Module(i).over /\ IsSequence(m.mains)
    BY <2>1 DEF ModuleOK, NoInit
  <2> HIDE DEF m
  <2>4. Kept
    BY <1>5, <2>2, <2>3, HeldModuleKeeps DEF CallCopyToFS
  <2> QED
    BY <1>5, <2>4, CallsStay DEF CallCopyToFS, Kept
<1>6. CASE CallLoad(e)
  <2>1. Begun(Load(Shared, config[e].executable, 0))
    BY LoadBegins DEF Begun
  <2> QED
    BY <1>1, <1>6, <2>1 DEF CallLoad
<1>7. CASE CallUnload
  <2>1. Begun(Unload(Shared))
    BY DEF Unload, Shared, Begun, PageInv, ModulesOK, EngineFields
  <2> QED
    BY <1>1, <1>7, <2>1 DEF CallUnload
<1> QED
  BY <1>2, <1>3, <1>4, <1>5, <1>6, <1>7, StartGameKeeps, StartKeeps DEF AnyCall

-----------------------------------------------------------------------------
(* The page *)

LEMMA InitPageInv == PageInit => PageInv
<1> SUFFICES ASSUME PageInit PROVE PageInv
  OBVIOUS
<1> USE DEF PageInit, EngineInit
<1>1. ModulesOK /\ RtenvOwned
  <2>1. ModuleOK(NoInit)
    BY FreeModuleOK
  <2>2. DOMAIN engine = EngineFields /\ engine.inits = [i \in Inits |-> NoInit]
    BY DEF EngineFields
  <2> QED
    BY <2>1, <2>2 DEF ModulesOK, RtenvOwned, Module
<1>2. CallsOK
  BY DEF CallsOK, CallOK, NoCall
<1>3. PageOK
  BY DEF PageOK
<1> QED
  BY <1>1, <1>2, <1>3 DEF PageInv

\* The page's own variables stay.
LEMMA PageStays ==
  ASSUME PageInv, Kept, UNCHANGED <<browser, statusMode, pageCall>>
  PROVE  PageOK'
  BY DEF PageInv, PageOK, Kept

LEMMA OpenPageKeeps ==
  ASSUME PageInv, OpenPage
  PROVE  PageInv'
<1>1. CASE GetMissingFeatures(GODOT_THREADS_ENABLED) # {}
  <2>1. DisplayFailureNotice /\ UNCHANGED <<engineVars, pageCall, browser>>
    BY <1>1 DEF OpenPage
  <2>2. "WebGL2" \notin browser
    BY <1>1 DEF GetMissingFeatures, GODOT_THREADS_ENABLED, IsAvailable, PageInv, PageOK,
                Features
  <2>3. Kept /\ CallsOK'
    BY <2>1, OnlyDownloads DEF engineVars
  <2>4. PageOK'
    BY <2>1, <2>2, <2>3 DEF DisplayFailureNotice, PageInv, PageOK, Kept
  <2> QED
    BY <2>3, <2>4 DEF Kept, PageInv
<1>2. CASE GetMissingFeatures(GODOT_THREADS_ENABLED) = {}
  <2>1. /\ SetStatusMode("progress") /\ statusMode = "" /\ initializing
        /\ StartGame(ThePage, [onProgress |-> "statusProgress"])
        /\ pageCall' = NextCall /\ UNCHANGED browser
    BY <1>2 DEF OpenPage
  <2>2. Kept /\ CallsOK'
    BY <2>1, PageAssumption, StartGameKeeps
  <2>3. statusMode' = "progress" /\ pageCall' \in Calls
    BY <2>1, NextCallIsFree DEF SetStatusMode, StartGame
  <2>4. PageOK'
    BY <2>1, <2>3 DEF PageInv, PageOK
  <2> QED
    BY <2>2, <2>4 DEF Kept, PageInv
<1> QED
  BY <1>1, <1>2

LEMMA AnsweredKeeps ==
  ASSUME PageInv, GameStarted \/ GameFailed
  PROVE  PageInv'
<1>1. Kept /\ CallsOK'
  BY OnlyDownloads DEF GameStarted, GameFailed, engineVars
<1>2. CASE GameStarted
  BY <1>1, <1>2
  DEF GameStarted, SetStatusMode, PageInv, PageOK, CallsOK, CallOK, Kept
<1>3. CASE GameFailed
  BY <1>1, <1>3 DEF GameFailed, DisplayFailureNotice, PageInv, PageOK, Kept
<1> QED
  BY <1>1, <1>2, <1>3 DEF PageInv, Kept, PageOK

LEMMA NextPageInv == PageInv /\ [Next]_vars => PageInv'
<1> SUFFICES ASSUME PageInv, [Next]_vars PROVE PageInv'
  OBVIOUS
<1>1. ASSUME Kept, CallsOK', UNCHANGED <<browser, statusMode, pageCall>> PROVE PageInv'
  BY <1>1, PageStays DEF PageInv, Kept
<1>2. CASE EngineStep /\ UNCHANGED pageVars
  BY <1>1, <1>2, EngineStepKeeps DEF pageVars
<1>3. CASE OtherCall
  BY <1>1, <1>3, AnyCallKeeps DEF OtherCall
<1>4. CASE UNCHANGED vars
  BY <1>1, <1>4, OnlyDownloads DEF vars, engineVars
<1> QED
  BY <1>2, <1>3, <1>4, OpenPageKeeps, AnsweredKeeps DEF Next

-----------------------------------------------------------------------------
(* The theorems *)

\* Whatever scripts call, and whatever downloads fail.
THEOREM PageInvariant == Spec => []PageInv
  BY InitPageInv, NextPageInv, PTL DEF Spec

\* Engine: the module an instance holds is complete, and its game is not over.
THEOREM HeldModulesAreLive == Spec => []RtenvIsLive
<1>1. PageInv => RtenvIsLive
  BY DEF PageInv, RtenvOwned, LiveIn, RtenvIsLive
<1> QED
  BY <1>1, PageInvariant, PTL

\* index.html: the overlay goes away only for a game that has been started, and a
\* browser is refused only for a feature that is needed.
THEOREM PageIsTruthful == Spec => []StatusTellsTheTruth
<1>1. PageInv => StatusTellsTheTruth
  BY DEF PageInv, PageOK, GameRan, StatusTellsTheTruth
<1> QED
  BY <1>1, PageInvariant, PTL

-----------------------------------------------------------------------------
(* locateFile *)

\* What IsSuffix looks at.
LEMMA SuffixIs ==
  ASSUME NEW S, NEW s \in Seq(S), NEW t \in Seq(S)
  PROVE  IsSuffix(s, t) <=>
           Len(s) <= Len(t) /\ \A k \in 1..Len(s) : s[k] = t[Len(t) - Len(s) + k]
<1> DEFINE rs == Reverse(s)
           rt == Reverse(t)
           n == Len(s)
<1>1. n \in Nat /\ Len(t) \in Nat
  OBVIOUS
<1>2. /\ rs \in Seq(S) /\ Len(rs) = n /\ \A k \in 1..n : rs[k] = s[n - k + 1]
      /\ rt \in Seq(S) /\ Len(rt) = Len(t) /\ \A k \in 1..Len(t) : rt[k] = t[Len(t) - k + 1]
  BY DEF Reverse
<1> HIDE DEF rs, rt
<1>3. CASE n <= Len(t)
  <2>1. /\ SubSeq(rs, 1, n) \in Seq(S) /\ Len(SubSeq(rs, 1, n)) = n
        /\ \A k \in 1..n : SubSeq(rs, 1, n)[k] = rs[k]
    BY <1>1, <1>2
  <2>2. /\ SubSeq(rt, 1, n) \in Seq(S) /\ Len(SubSeq(rt, 1, n)) = n
        /\ \A k \in 1..n : SubSeq(rt, 1, n)[k] = rt[k]
    BY <1>1, <1>2, <1>3
  <2>3. SubSeq(rs, 1, n) = SubSeq(rt, 1, n) <=> \A k \in 1..n : rs[k] = rt[k]
    BY <2>1, <2>2, SeqEqual
  <2>4. (\A k \in 1..n : rs[k] = rt[k]) <=> \A k \in 1..n : s[k] = t[Len(t) - n + k]
    <3>1. ASSUME \A k \in 1..n : rs[k] = rt[k], NEW k \in 1..n
          PROVE  s[k] = t[Len(t) - n + k]
      <4>1. n - k + 1 \in 1..n /\ n - (n - k + 1) + 1 = k
            /\ Len(t) - (n - k + 1) + 1 = Len(t) - n + k /\ n - k + 1 \in 1..Len(t)
        BY <1>1, <1>3
      <4> QED
        BY <1>2, <3>1, <4>1
    <3>2. ASSUME \A k \in 1..n : s[k] = t[Len(t) - n + k], NEW k \in 1..n
          PROVE  rs[k] = rt[k]
      <4>1. n - k + 1 \in 1..n /\ k \in 1..Len(t)
            /\ Len(t) - n + (n - k + 1) = Len(t) - k + 1
        BY <1>1, <1>3
      <4> QED
        BY <1>2, <3>2, <4>1
    <3> QED
      BY <3>1, <3>2
  <2> QED
    BY <1>2, <1>3, <2>3, <2>4 DEF IsSuffix, IsPrefix, rs, rt
<1>4. CASE ~(n <= Len(t))
  BY <1>2, <1>4 DEF IsSuffix, IsPrefix, rs, rt
<1> QED
  BY <1>3, <1>4

EngineParts == {<<"js">>, <<"wasm">>, <<"side", "wasm">>, <<"audio", "worklet", "js">>,
                <<"audio", "position", "worklet", "js">>}

\* An element in front of a sequence.
LEMMA InFront ==
  ASSUME NEW S, NEW s \in Seq(S), NEW t \in Seq(S), NEW r \in Seq(S),
         Len(s) = 1, Len(r) = Len(t) + 1, r[1] = s[1],
         \A k \in 1..Len(t) : r[k + 1] = t[k]
  PROVE  s \o t = r
<1> DEFINE u == s \o t
<1>a. /\ u \in Seq(S) /\ Len(u) = Len(s) + Len(t)
      /\ \A k \in 1..Len(s) + Len(t) : u[k] = IF k <= Len(s) THEN s[k] ELSE t[k - Len(s)]
  BY ConcatProperties
<1> HIDE DEF u
<1>2. /\ u \in Seq(S) /\ Len(u) = Len(r) /\ Len(t) \in Nat
      /\ \A k \in 1..Len(u) : u[k] = IF k <= 1 THEN s[k] ELSE t[k - 1]
  BY <1>a
<1>3. ASSUME NEW k \in 1..Len(u) PROVE u[k] = r[k]
  <2>1. CASE k <= 1
    BY <1>2, <2>1
  <2>2. CASE ~(k <= 1)
    <3>1. k - 1 \in 1..Len(t) /\ (k - 1) + 1 = k
      BY <1>2, <2>2
    <3> QED
      BY <1>2, <2>2, <3>1
  <2> QED
    BY <2>1, <2>2
<1>4. u = r
  BY <1>2, <1>3, SeqEqual
<1> QED
  BY <1>4 DEF u

Words == {"godot", "js", "wasm", "side", "audio", "worklet", "position"}

LEMMA Fronted ==
  ASSUME NEW x
  PROVE  /\ <<x>> \o <<"js">> = <<x, "js">>
         /\ <<x>> \o <<"wasm">> = <<x, "wasm">>
         /\ <<x>> \o <<"side", "wasm">> = <<x, "side", "wasm">>
         /\ <<x>> \o <<"audio", "worklet", "js">> = <<x, "audio", "worklet", "js">>
         /\ <<x>> \o <<"audio", "position", "worklet", "js">>
              = <<x, "audio", "position", "worklet", "js">>
<1> DEFINE S == Words \cup {x}
<1>0. x \in S /\ {"js", "wasm", "side", "audio", "worklet", "position"} \subseteq S
  BY DEF Words
<1> HIDE DEF S
<1>1. ASSUME NEW a \in S PROVE <<x>> \o <<a>> = <<x, a>>
  <2> DEFINE s == <<x>>
             t == <<a>>
             r == <<x, a>>
  <2>1. s \in Seq(S) /\ Len(s) = 1 /\ s[1] = x /\ t \in Seq(S) /\ r \in Seq(S) /\ Len(t) = 1 /\ Len(r) = 2 /\ t[1] = a
        /\ r[1] = x /\ r[2] = a
    BY <1>0
  <2>2. \A k \in 1..1 : k = 1
    OBVIOUS
  <2> HIDE DEF s, t, r
  <2>3. /\ Len(r) = Len(t) + 1 /\ r[1] = s[1]
        /\ \A k \in 1..Len(t) : r[k + 1] = t[k]
    BY <2>1, <2>2
  <2>4. s \o t = r
    BY <2>1, <2>3, InFront
  <2> QED
    BY <2>4 DEF s, t, r
<1>2. ASSUME NEW a \in S, NEW b \in S PROVE <<x>> \o <<a, b>> = <<x, a, b>>
  <2> DEFINE s == <<x>>
             t == <<a, b>>
             r == <<x, a, b>>
  <2>1. s \in Seq(S) /\ Len(s) = 1 /\ s[1] = x /\ t \in Seq(S) /\ r \in Seq(S) /\ Len(t) = 2 /\ Len(r) = 3 /\ t[1] = a /\ t[2] = b
        /\ r[1] = x /\ r[2] = a /\ r[3] = b
    BY <1>0
  <2>2. \A k \in 1..2 : k = 1 \/ k = 2
    OBVIOUS
  <2> HIDE DEF s, t, r
  <2>3. /\ Len(r) = Len(t) + 1 /\ r[1] = s[1]
        /\ \A k \in 1..Len(t) : r[k + 1] = t[k]
    BY <2>1, <2>2
  <2>4. s \o t = r
    BY <2>1, <2>3, InFront
  <2> QED
    BY <2>4 DEF s, t, r
<1>3. ASSUME NEW a \in S, NEW b \in S, NEW c \in S
      PROVE  <<x>> \o <<a, b, c>> = <<x, a, b, c>>
  <2> DEFINE s == <<x>>
             t == <<a, b, c>>
             r == <<x, a, b, c>>
  <2>1. s \in Seq(S) /\ Len(s) = 1 /\ s[1] = x /\ t \in Seq(S) /\ r \in Seq(S) /\ Len(t) = 3 /\ Len(r) = 4
        /\ t[1] = a /\ t[2] = b /\ t[3] = c
        /\ r[1] = x /\ r[2] = a /\ r[3] = b /\ r[4] = c
    BY <1>0
  <2>2. \A k \in 1..3 : k = 1 \/ k = 2 \/ k = 3
    OBVIOUS
  <2> HIDE DEF s, t, r
  <2>3. /\ Len(r) = Len(t) + 1 /\ r[1] = s[1]
        /\ \A k \in 1..Len(t) : r[k + 1] = t[k]
    BY <2>1, <2>2
  <2>4. s \o t = r
    BY <2>1, <2>3, InFront
  <2> QED
    BY <2>4 DEF s, t, r
<1>4. ASSUME NEW a \in S, NEW b \in S, NEW c \in S, NEW d \in S
      PROVE  <<x>> \o <<a, b, c, d>> = <<x, a, b, c, d>>
  <2> DEFINE s == <<x>>
             t == <<a, b, c, d>>
             r == <<x, a, b, c, d>>
  <2>1. s \in Seq(S) /\ Len(s) = 1 /\ s[1] = x /\ t \in Seq(S) /\ r \in Seq(S) /\ Len(t) = 4 /\ Len(r) = 5
        /\ t[1] = a /\ t[2] = b /\ t[3] = c /\ t[4] = d
        /\ r[1] = x /\ r[2] = a /\ r[3] = b /\ r[4] = c /\ r[5] = d
    BY <1>0
  <2>2. \A k \in 1..4 : k = 1 \/ k = 2 \/ k = 3 \/ k = 4
    OBVIOUS
  <2> HIDE DEF s, t, r
  <2>3. /\ Len(r) = Len(t) + 1 /\ r[1] = s[1]
        /\ \A k \in 1..Len(t) : r[k + 1] = t[k]
    BY <2>1, <2>2
  <2>4. s \o t = r
    BY <2>1, <2>3, InFront
  <2> QED
    BY <2>4 DEF s, t, r
<1> QED
  BY <1>0, <1>1, <1>2, <1>3, <1>4

\* What the tests of locateFile look at.
LEMMA Endings ==
  ASSUME NEW p \in Seq(Words)
  PROVE  /\ EndsWith(p, <<"js">>) <=> Len(p) > 1 /\ p[Len(p)] = "js"
         /\ EndsWith(p, <<"wasm">>) <=> Len(p) > 1 /\ p[Len(p)] = "wasm"
         /\ EndsWith(p, <<"side", "wasm">>)
              <=> Len(p) > 2 /\ p[Len(p) - 1] = "side" /\ p[Len(p)] = "wasm"
         /\ EndsWith(p, <<"audio", "worklet", "js">>)
              <=> /\ Len(p) > 3 /\ p[Len(p) - 2] = "audio"
                  /\ p[Len(p) - 1] = "worklet" /\ p[Len(p)] = "js"
         /\ EndsWith(p, <<"audio", "position", "worklet", "js">>)
              <=> /\ Len(p) > 4 /\ p[Len(p) - 3] = "audio" /\ p[Len(p) - 2] = "position"
                  /\ p[Len(p) - 1] = "worklet" /\ p[Len(p)] = "js"
<1> DEFINE n == Len(p)
<1>0. n \in Nat
  OBVIOUS
<1>1. ASSUME NEW a \in Words PROVE EndsWith(p, <<a>>) <=> n > 1 /\ p[n] = a
  <2> DEFINE s == <<a>>
  <2>1. s \in Seq(Words) /\ Len(s) = 1 /\ s[1] = a
    OBVIOUS
  <2> HIDE DEF s
  <2>2. ASSUME n > 1 PROVE IsSuffix(s, p) <=> p[n] = a
    <3>1. (\A k \in 1..Len(s) : s[k] = p[n - Len(s) + k]) <=> p[n] = a
      <4>1. \A k \in 1..1 : k = 1
        OBVIOUS
      <4>2. n - 1 + 1 = n /\ 1 \in 1..1
        BY <1>0
      <4> QED
        BY <2>1, <4>1, <4>2
    <3>2. IsSuffix(s, p) <=>
            Len(s) <= n /\ \A k \in 1..Len(s) : s[k] = p[n - Len(s) + k]
      BY <2>1, SuffixIs
    <3> QED
      BY <1>0, <2>1, <2>2, <3>1, <3>2
  <2>3. EndsWith(p, s) <=> n > 1 /\ p[n] = a
    BY <1>0, <2>1, <2>2 DEF EndsWith
  <2> QED
    BY <2>3 DEF s
<1>2. ASSUME NEW a \in Words, NEW b \in Words
      PROVE  EndsWith(p, <<a, b>>) <=> n > 2 /\ p[n - 1] = a /\ p[n] = b
  <2> DEFINE s == <<a, b>>
  <2>1. s \in Seq(Words) /\ Len(s) = 2 /\ s[1] = a /\ s[2] = b
    OBVIOUS
  <2> HIDE DEF s
  <2>2. ASSUME n > 2 PROVE IsSuffix(s, p) <=> p[n - 1] = a /\ p[n] = b
    <3>1. (\A k \in 1..Len(s) : s[k] = p[n - Len(s) + k]) <=> p[n - 1] = a /\ p[n] = b
      <4>1. \A k \in 1..2 : k = 1 \/ k = 2
        OBVIOUS
      <4>2. n - 2 + 1 = n - 1 /\ n - 2 + 2 = n /\ 1 \in 1..2 /\ 2 \in 1..2
        BY <1>0
      <4> QED
        BY <2>1, <4>1, <4>2
    <3>2. IsSuffix(s, p) <=>
            Len(s) <= n /\ \A k \in 1..Len(s) : s[k] = p[n - Len(s) + k]
      BY <2>1, SuffixIs
    <3> QED
      BY <1>0, <2>1, <2>2, <3>1, <3>2
  <2>3. EndsWith(p, s) <=> n > 2 /\ p[n - 1] = a /\ p[n] = b
    BY <1>0, <2>1, <2>2 DEF EndsWith
  <2> QED
    BY <2>3 DEF s
<1>3. ASSUME NEW a \in Words, NEW b \in Words, NEW c \in Words
      PROVE  EndsWith(p, <<a, b, c>>)
               <=> n > 3 /\ p[n - 2] = a /\ p[n - 1] = b /\ p[n] = c
  <2> DEFINE s == <<a, b, c>>
  <2>1. s \in Seq(Words) /\ Len(s) = 3 /\ s[1] = a /\ s[2] = b /\ s[3] = c
    OBVIOUS
  <2> HIDE DEF s
  <2>2. ASSUME n > 3 PROVE IsSuffix(s, p) <=> p[n - 2] = a /\ p[n - 1] = b /\ p[n] = c
    <3>1. (\A k \in 1..Len(s) : s[k] = p[n - Len(s) + k])
            <=> p[n - 2] = a /\ p[n - 1] = b /\ p[n] = c
      <4>1. \A k \in 1..3 : k = 1 \/ k = 2 \/ k = 3
        OBVIOUS
      <4>2. /\ n - 3 + 1 = n - 2 /\ n - 3 + 2 = n - 1 /\ n - 3 + 3 = n
            /\ 1 \in 1..3 /\ 2 \in 1..3 /\ 3 \in 1..3
        BY <1>0
      <4> QED
        BY <2>1, <4>1, <4>2
    <3>2. IsSuffix(s, p) <=>
            Len(s) <= n /\ \A k \in 1..Len(s) : s[k] = p[n - Len(s) + k]
      BY <2>1, SuffixIs
    <3> QED
      BY <1>0, <2>1, <2>2, <3>1, <3>2
  <2>3. EndsWith(p, s) <=> n > 3 /\ p[n - 2] = a /\ p[n - 1] = b /\ p[n] = c
    BY <1>0, <2>1, <2>2 DEF EndsWith
  <2> QED
    BY <2>3 DEF s
<1>4. ASSUME NEW a \in Words, NEW b \in Words, NEW c \in Words, NEW d \in Words
      PROVE  EndsWith(p, <<a, b, c, d>>)
               <=> n > 4 /\ p[n - 3] = a /\ p[n - 2] = b /\ p[n - 1] = c /\ p[n] = d
  <2> DEFINE s == <<a, b, c, d>>
  <2>1. s \in Seq(Words) /\ Len(s) = 4 /\ s[1] = a /\ s[2] = b /\ s[3] = c /\ s[4] = d
    OBVIOUS
  <2> HIDE DEF s
  <2>2. ASSUME n > 4 PROVE IsSuffix(s, p) <=> p[n - 3] = a /\ p[n - 2] = b /\ p[n - 1] = c /\ p[n] = d
    <3>1. (\A k \in 1..Len(s) : s[k] = p[n - Len(s) + k])
            <=> p[n - 3] = a /\ p[n - 2] = b /\ p[n - 1] = c /\ p[n] = d
      <4>1. \A k \in 1..4 : k = 1 \/ k = 2 \/ k = 3 \/ k = 4
        OBVIOUS
      <4>2. /\ n - 4 + 1 = n - 3 /\ n - 4 + 2 = n - 2 /\ n - 4 + 3 = n - 1 /\ n - 4 + 4 = n
            /\ 1 \in 1..4 /\ 2 \in 1..4 /\ 3 \in 1..4 /\ 4 \in 1..4
        BY <1>0
      <4> QED
        BY <2>1, <4>1, <4>2
    <3>2. IsSuffix(s, p) <=>
            Len(s) <= n /\ \A k \in 1..Len(s) : s[k] = p[n - Len(s) + k]
      BY <2>1, SuffixIs
    <3> QED
      BY <1>0, <2>1, <2>2, <3>1, <3>2
  <2>3. EndsWith(p, s) <=> n > 4 /\ p[n - 3] = a /\ p[n - 2] = b /\ p[n - 1] = c /\ p[n] = d
    BY <1>0, <2>1, <2>2 DEF EndsWith
  <2> QED
    BY <2>3 DEF s
<1> QED
  <2>1. {"js", "wasm", "side", "audio", "worklet", "position"} \subseteq Words
    BY DEF Words
  <2> QED
    BY <1>1, <1>2, <1>3, <1>4, <2>1

\* The first test that holds.
LEMMA Located ==
  ASSUME NEW name, NEW p \in Seq(Words), Len(p) > 1, p[1] = "godot"
  PROVE  /\ Len(p) = 2 /\ p[2] = "js" => LocateFile(name, p) = <<name, "js">>
         /\ Len(p) = 2 /\ p[2] = "wasm" => LocateFile(name, p) = <<name, "wasm">>
         /\ Len(p) = 3 /\ p[2] = "side" /\ p[3] = "wasm"
              => LocateFile(name, p) = <<name, "side", "wasm">>
         /\ Len(p) = 4 /\ p[2] = "audio" /\ p[3] = "worklet" /\ p[4] = "js"
              => LocateFile(name, p) = <<name, "audio", "worklet", "js">>
         /\ Len(p) = 5 /\ p[2] = "audio" /\ p[3] = "position" /\ p[4] = "worklet"
              /\ p[5] = "js"
              => LocateFile(name, p) = <<name, "audio", "position", "worklet", "js">>
<1> DEFINE js == EndsWith(p, <<"js">>)
           wasm == EndsWith(p, <<"wasm">>)
           side == EndsWith(p, <<"side", "wasm">>)
           audio == EndsWith(p, <<"audio", "worklet", "js">>)
           position == EndsWith(p, <<"audio", "position", "worklet", "js">>)
<1>1. Head(p) = "godot" /\ Len(p) # 1
  <2>1. p # <<>> /\ Len(p) \in Nat
    OBVIOUS
  <2>2. Head(p) = p[1]
    BY <2>1, HeadTailProperties
  <2>3. Len(p) # 1
    <3>1. \A n \in Nat : n > 1 => n # 1
      OBVIOUS
    <3> QED
      BY <2>1, <3>1, Zenon
  <2>4. Head(p) = "godot"
    BY <2>2, Zenon
  <2> QED
    BY <2>3, <2>4
<1>2. LocateFile(name, p) = IF audio THEN <<name, "audio", "worklet", "js">>
                       ELSE IF position THEN <<name, "audio", "position", "worklet", "js">>
                       ELSE IF js THEN <<name, "js">>
                       ELSE IF side THEN <<name, "side", "wasm">>
                       ELSE IF wasm THEN <<name, "wasm">>
                       ELSE p
  BY <1>1 DEF LocateFile
<1>3. /\ js <=> p[Len(p)] = "js"
      /\ wasm <=> p[Len(p)] = "wasm"
      /\ side <=> Len(p) > 2 /\ p[Len(p) - 1] = "side" /\ p[Len(p)] = "wasm"
      /\ audio <=> /\ Len(p) > 3 /\ p[Len(p) - 2] = "audio"
                   /\ p[Len(p) - 1] = "worklet" /\ p[Len(p)] = "js"
      /\ position <=> /\ Len(p) > 4 /\ p[Len(p) - 3] = "audio"
                      /\ p[Len(p) - 2] = "position"
                      /\ p[Len(p) - 1] = "worklet" /\ p[Len(p)] = "js"
  BY Endings
<1> HIDE DEF js, wasm, side, audio, position
<1>4. Len(p) = 2 /\ p[2] = "js" => js /\ ~audio /\ ~position
  BY <1>3
<1>5. Len(p) = 2 /\ p[2] = "wasm" => wasm /\ ~js /\ ~side /\ ~audio /\ ~position
  BY <1>3
<1>6. Len(p) = 3 /\ p[2] = "side" /\ p[3] = "wasm"
        => side /\ ~js /\ ~audio /\ ~position
  BY <1>3
<1>7. Len(p) = 4 /\ p[2] = "audio" /\ p[3] = "worklet" /\ p[4] = "js" => audio
  BY <1>3
<1>8. Len(p) = 5 /\ p[2] = "audio" /\ p[3] = "position" /\ p[4] = "worklet" /\ p[5] = "js"
        => position /\ ~audio
  BY <1>3
<1> QED
  BY <1>2, <1>4, <1>5, <1>6, <1>7, <1>8

\* locateFile gives each of the engine's own files the name it is asked to.
LEMMA LocatesFiles ==
  ASSUME NEW name, NEW parts \in EngineParts
  PROVE  LocateFile(name, <<"godot">> \o parts) = <<name>> \o parts
<1> DEFINE path == <<"godot">> \o parts
<1>1. CASE parts = <<"js">>
  <2> DEFINE p == <<"godot", "js">>
  <2>1. p \in Seq(Words) /\ Len(p) = 2 /\ p[1] = "godot" /\ p[2] = "js"
    BY DEF Words
  <2>2. path = p /\ <<name>> \o parts = <<name, "js">>
    BY <1>1, Fronted
  <2> HIDE DEF p
  <2>3. LocateFile(name, p) = <<name, "js">>
    BY <2>1, Located
  <2> QED
    BY <2>2, <2>3
<1>2. CASE parts = <<"wasm">>
  <2> DEFINE p == <<"godot", "wasm">>
  <2>1. p \in Seq(Words) /\ Len(p) = 2 /\ p[1] = "godot" /\ p[2] = "wasm"
    BY DEF Words
  <2>2. path = p /\ <<name>> \o parts = <<name, "wasm">>
    BY <1>2, Fronted
  <2> HIDE DEF p
  <2>3. LocateFile(name, p) = <<name, "wasm">>
    BY <2>1, Located
  <2> QED
    BY <2>2, <2>3
<1>3. CASE parts = <<"side", "wasm">>
  <2> DEFINE p == <<"godot", "side", "wasm">>
  <2>1. /\ p \in Seq(Words) /\ Len(p) = 3 /\ p[1] = "godot"
        /\ p[2] = "side" /\ p[3] = "wasm"
    BY DEF Words
  <2>2. path = p /\ <<name>> \o parts = <<name, "side", "wasm">>
    BY <1>3, Fronted
  <2> HIDE DEF p
  <2>3. LocateFile(name, p) = <<name, "side", "wasm">>
    BY <2>1, Located
  <2> QED
    BY <2>2, <2>3
<1>4. CASE parts = <<"audio", "worklet", "js">>
  <2> DEFINE p == <<"godot", "audio", "worklet", "js">>
  <2>1. /\ p \in Seq(Words) /\ Len(p) = 4 /\ p[1] = "godot"
        /\ p[2] = "audio" /\ p[3] = "worklet" /\ p[4] = "js"
    BY DEF Words
  <2>2. path = p /\ <<name>> \o parts = <<name, "audio", "worklet", "js">>
    BY <1>4, Fronted
  <2> HIDE DEF p
  <2>3. LocateFile(name, p) = <<name, "audio", "worklet", "js">>
    BY <2>1, Located
  <2> QED
    BY <2>2, <2>3
<1>5. CASE parts = <<"audio", "position", "worklet", "js">>
  <2> DEFINE p == <<"godot", "audio", "position", "worklet", "js">>
  <2>1. /\ p \in Seq(Words) /\ Len(p) = 5 /\ p[1] = "godot"
        /\ p[2] = "audio" /\ p[3] = "position" /\ p[4] = "worklet" /\ p[5] = "js"
    BY DEF Words
  <2>2. path = p /\ <<name>> \o parts = <<name, "audio", "position", "worklet", "js">>
    BY <1>5, Fronted
  <2> HIDE DEF p
  <2>3. LocateFile(name, p) = <<name, "audio", "position", "worklet", "js">>
    BY <2>1, Located
  <2> QED
    BY <2>2, <2>3
<1> QED
  BY <1>1, <1>2, <1>3, <1>4, <1>5 DEF EngineParts

-----------------------------------------------------------------------------
(* The names of the engine's files *)

\* The name the export has given its files.
Name == Configuration.executable

\* No script starts the engine under another name.
ScriptsKeepTheName == \A override \in Overrides : "executable" \notin DOMAIN override

Named(conf) == DOMAIN conf = DOMAIN DefaultConfig /\ conf.executable = Name

ConfigsNamed == DOMAIN config = Engines /\ \A e \in Engines : Named(config[e])

\* loadPath, which the modules close over when they are instantiated, is the name
\* from the first load on; so are the names modules were made with.
ModuleNamed(m, loadPath) ==
    /\ m.at = "load" => loadPath = Name
    /\ m.program # None => m.program.loadPath = Name /\ m.program.thisProgram = Name

EngineNamed(eng) ==
    /\ eng.loadPromise # None => eng.loadPath = Name
    /\ \A i \in Inits : ModuleNamed(eng.inits[i], eng.loadPath)

NamesInv == ConfigsNamed /\ EngineNamed(engine)

\* What a module is made with names it so that its files are found.
LEMMA NamedFindsFiles == NamesInv => FindsItsFiles
<1> SUFFICES ASSUME NamesInv, NEW i \in Inits, Module(i).program # None,
                    NEW parts \in EngineParts
             PROVE  LocateFile(Module(i).program.loadPath, <<"godot">> \o parts)
                      = <<Module(i).program.thisProgram>> \o parts
  BY DEF FindsItsFiles, EngineParts
<1>1. Module(i).program.loadPath = Name /\ Module(i).program.thisProgram = Name
  BY DEF NamesInv, EngineNamed, ModuleNamed, Module
<1> QED
  BY <1>1, LocatesFiles

\* The configurations.
LEMMA UpdateKeepsName ==
  ASSUME NEW conf, Named(conf), NEW override, "executable" \notin DOMAIN override
  PROVE  Named(Update(conf, override))
<1>1. DOMAIN Update(conf, override) = DOMAIN conf
  BY DEF Update
<1>2. "executable" \in DOMAIN DefaultConfig
  BY DEF DefaultConfig
<1>3. Update(conf, override).executable = conf.executable
  BY <1>2 DEF Update, Named
<1> QED
  BY <1>1, <1>3 DEF Named

LEMMA ConfigsStay ==
  ASSUME NamesInv, NEW e \in Engines, NEW conf, Named(conf),
         config' = [config EXCEPT ![e] = conf]
  PROVE  ConfigsNamed'
  BY DEF NamesInv, ConfigsNamed

\* A load under the name, when there is none.
LEMMA LoadNamed ==
  ASSUME PageInv, NamesInv, NEW basePath, NEW size,
         engine.loadPromise = None => basePath = Name
  PROVE  LET eng == Load(Shared, basePath, size).eng IN
         EngineNamed(eng) /\ eng.loadPath = Name /\ eng.inits = engine.inits
<1> DEFINE s == Load(Shared, basePath, size)
<1>1. CASE engine.loadPromise # None
  <2>1. s.eng = engine
    BY <1>1 DEF Load, Shared
  <2> QED
    BY <1>1, <2>1 DEF NamesInv, EngineNamed
<1>2. CASE engine.loadPromise = None
  <2>1. s.eng.loadPath = Name /\ s.eng.inits = engine.inits
    BY <1>2 DEF Load, Shared, PageInv, ModulesOK, EngineFields
  <2> HIDE DEF s
  <2>2. \A i \in Inits : ModuleNamed(s.eng.inits[i], s.eng.loadPath)
    BY <2>1 DEF NamesInv, EngineNamed, ModuleNamed
  <2>3. EngineNamed(s.eng)
    BY <2>1, <2>2 DEF EngineNamed
  <2> QED
    BY <2>1, <2>3 DEF s
<1> QED
  BY <1>1, <1>2

LEMMA InitNamed ==
  ASSUME PageInv, NamesInv, NEW loads, NEW n \in Nat, RoomFor(Shared, loads, n), n > 0,
         NEW e \in Engines, NEW conf, NEW basePath \in {None, Name}
  PROVE  EngineNamed(Init(Shared, e, conf, basePath).eng)
<1> DEFINE free == Min({j \in Inits : engine.inits[j].at = "free"})
<1>1. free \in Inits
  BY NextIsFree
<1> HIDE DEF free
<1>2. CASE engine.initPromise # None
  BY <1>2 DEF Init, Shared, NamesInv
<1>3. ASSUME NEW s, DOMAIN s = {"pre", "eng", "frames"}, DOMAIN s.eng = EngineFields,
             s.eng.inits = engine.inits, EngineNamed(s.eng),
             NEW m, ModuleNamed(m, s.eng.loadPath)
      PROVE  EngineNamed(WithInit(s, m).eng)
  <2>1. NextInit(s) = free
    BY <1>3 DEF NextInit, free
  <2>2. /\ WithInit(s, m).eng.loadPath = s.eng.loadPath
        /\ WithInit(s, m).eng.loadPromise = s.eng.loadPromise
        /\ WithInit(s, m).eng.inits = [engine.inits EXCEPT ![free] = m]
    BY <1>3, <2>1 DEF WithInit, EngineFields
  <2>3. DOMAIN engine.inits = Inits
    BY DEF PageInv, ModulesOK
  <2> QED
    BY <1>1, <1>3, <2>2, <2>3 DEF EngineNamed
<1>4. CASE engine.initPromise = None /\ engine.loadPromise = None /\ basePath = None
  <2> DEFINE m == [NoInit EXCEPT !.at = "rejected"]
  <2>1. m.at = "rejected" /\ m.program = None
    BY DEF NoInit
  <2>2. DOMAIN Shared = {"pre", "eng", "frames"} /\ Shared.eng = engine
    BY DEF Shared
  <2>3. Init(Shared, e, conf, basePath) = WithInit(Shared, m)
    BY <1>4, <2>2 DEF Init
  <2> HIDE DEF m
  <2>4. ModuleNamed(m, engine.loadPath)
    BY <2>1 DEF ModuleNamed
  <2> QED
    BY <1>3, <2>2, <2>3, <2>4 DEF PageInv, ModulesOK, NamesInv
<1>5. CASE engine.initPromise = None /\ ~(engine.loadPromise = None /\ basePath = None)
  <2> DEFINE loaded == Load(Shared, basePath, SizeOf(conf, Wasm(basePath)))
             s == [loaded EXCEPT !.pre.progressFunc = conf.onProgress]
             m == [NoInit EXCEPT !.at = "load", !.owner = e,
                                 !.load = loaded.eng.loadPromise]
  <2>1. /\ DOMAIN loaded = {"pre", "eng", "frames"} /\ DOMAIN loaded.eng = EngineFields
        /\ loaded.eng.inits = engine.inits
    BY LoadBegins
  <2>2. EngineNamed(loaded.eng) /\ loaded.eng.loadPath = Name
    BY <1>5, LoadNamed
  <2>3. Shared.eng = engine
    BY DEF Shared
  <2>4. Init(Shared, e, conf, basePath) = WithInit(s, m)
    BY <1>5, <2>3 DEF Init
  <2>5. m.at = "load" /\ m.program = None
    BY DEF NoInit
  <2> HIDE DEF loaded, m
  <2>6. DOMAIN s = {"pre", "eng", "frames"} /\ s.eng = loaded.eng
    BY <2>1
  <2>7. ModuleNamed(m, Name)
    BY <2>5 DEF ModuleNamed
  <2> HIDE DEF s
  <2> QED
    BY <1>3, <2>1, <2>2, <2>4, <2>6, <2>7
<1> QED
  BY <1>2, <1>4, <1>5

-----------------------------------------------------------------------------
(* The names stay *)

\* The engine's own variables stay but for one module, which keeps its names.
LEMMA ModuleKeepsName ==
  ASSUME PageInv, NamesInv, NEW i \in Inits, NEW m, ModuleNamed(m, engine.loadPath),
         engine'.inits = [engine.inits EXCEPT ![i] = m],
         engine'.loadPath = engine.loadPath,
         engine'.loadPromise \in {None, engine.loadPromise}
  PROVE  EngineNamed(engine')
  BY DEF PageInv, ModulesOK, NamesInv, EngineNamed

LEMMA InstantiateNames ==
  ASSUME PageInv, NamesInv, NEW i \in Inits, Instantiate(i)
  PROVE  NamesInv'
<1> DEFINE program == ModuleConfig(config[Module(i).owner], engine.loadPath)
           m == [Module(i) EXCEPT !.at = "compile", !.program = program]
<1>1. /\ engine'.inits = [engine.inits EXCEPT ![i] = m]
      /\ engine'.loadPath = engine.loadPath /\ engine'.loadPromise = engine.loadPromise
      /\ UNCHANGED config
  BY DEF Instantiate, Module, PageInv, ModulesOK, EngineFields
<1>2. Module(i).at = "load" /\ DOMAIN Module(i) = DOMAIN NoInit
      /\ Module(i).owner \in Engines
  BY DEF Instantiate, PageInv, ModulesOK, ModuleOK
<1>3. engine.loadPath = Name /\ Named(config[Module(i).owner])
  BY <1>2 DEF NamesInv, EngineNamed, ModuleNamed, ConfigsNamed, Module
<1>4. program.loadPath = Name /\ program.thisProgram = Name
  BY <1>3 DEF ModuleConfig, Named
<1> HIDE DEF program
<1>5. m.at = "compile" /\ m.program = program
  BY <1>2 DEF NoInit
<1> HIDE DEF m
<1>6. ModuleNamed(m, engine.loadPath)
  BY <1>4, <1>5 DEF ModuleNamed
<1>7. EngineNamed(engine')
  BY <1>1, <1>6, ModuleKeepsName
<1> QED
  BY <1>1, <1>7 DEF NamesInv, ConfigsNamed

\* The other continuations of doInit, and the end of a game.
LEMMA ModuleStepNames ==
  ASSUME PageInv, NamesInv, NEW i \in Inits, Instantiated(i) \/ InitFSDone(i) \/ Exit(i)
  PROVE  NamesInv'
<1>1. UNCHANGED config
  BY DEF Instantiated, InitFSDone, Exit
<1>2. DOMAIN engine = EngineFields /\ DOMAIN engine.inits = Inits
      /\ DOMAIN Module(i) = DOMAIN NoInit
  BY DEF PageInv, ModulesOK, ModuleOK
<1>3. ASSUME NEW at \in {"initFS", "hung", "done"}
      PROVE  ModuleNamed([Module(i) EXCEPT !.at = at], engine.loadPath)
  <2>1. ModuleNamed(Module(i), engine.loadPath)
    BY DEF NamesInv, EngineNamed, Module
  <2> QED
    BY <1>2, <2>1 DEF ModuleNamed, NoInit
<1>4. CASE Instantiated(i)
  <2>1. PICK at \in {"initFS", "hung"} : engine' = [engine EXCEPT !.inits[i].at = at]
    BY <1>4 DEF Instantiated
  <2> DEFINE m == [Module(i) EXCEPT !.at = at]
  <2>2. /\ engine'.inits = [engine.inits EXCEPT ![i] = m]
        /\ engine'.loadPath = engine.loadPath /\ engine'.loadPromise = engine.loadPromise
    BY <1>2, <2>1 DEF Module, EngineFields
  <2>3. ModuleNamed(m, engine.loadPath)
    BY <1>3
  <2> HIDE DEF m
  <2> QED
    BY <1>1, <2>2, <2>3, ModuleKeepsName DEF NamesInv, ConfigsNamed
<1>5. CASE InitFSDone(i)
  <2> DEFINE m == [Module(i) EXCEPT !.at = "done"]
  <2>1. /\ engine'.inits = [engine.inits EXCEPT ![i] = m]
        /\ engine'.loadPath = engine.loadPath
        /\ engine'.loadPromise \in {None, engine.loadPromise}
    BY <1>2, <1>5 DEF InitFSDone, Module, EngineFields
  <2>2. ModuleNamed(m, engine.loadPath)
    BY <1>3
  <2> HIDE DEF m
  <2> QED
    BY <1>1, <2>1, <2>2, ModuleKeepsName DEF NamesInv, ConfigsNamed
<1>6. CASE Exit(i)
  <2> DEFINE m == [Module(i) EXCEPT !.over = TRUE]
  <2>1. /\ engine'.inits = [engine.inits EXCEPT ![i] = m]
        /\ engine'.loadPath = engine.loadPath /\ engine'.loadPromise = engine.loadPromise
    BY <1>2, <1>6 DEF Exit, Module, EngineFields
  <2>2. m.at = Module(i).at /\ m.program = Module(i).program
    BY <1>2 DEF NoInit
  <2> HIDE DEF m
  <2>3. ModuleNamed(m, engine.loadPath)
    BY <2>2 DEF NamesInv, EngineNamed, ModuleNamed, Module
  <2> QED
    BY <1>1, <2>1, <2>3, ModuleKeepsName DEF NamesInv, ConfigsNamed
<1> QED
  BY <1>4, <1>5, <1>6

LEMMA HeldModuleNames ==
  ASSUME PageInv, NamesInv, NEW e \in Engines, rtenv[e] # None, NEW m,
         m.at = Module(rtenv[e]).at, m.program = Module(rtenv[e]).program,
         engine'.inits = [engine.inits EXCEPT ![rtenv[e]] = m],
         engine'.loadPath = engine.loadPath, engine'.loadPromise = engine.loadPromise
  PROVE  EngineNamed(engine')
<1>1. rtenv[e] \in Inits
  BY DEF PageInv, RtenvOwned
<1>2. ModuleNamed(m, engine.loadPath)
  BY <1>1 DEF NamesInv, EngineNamed, ModuleNamed, Module
<1> QED
  BY <1>1, <1>2, ModuleKeepsName

LEMMA ConfiguredNames ==
  ASSUME PageInv, NamesInv, NEW e \in Engines, rtenv[e] # None, NEW canvas
  PROVE  /\ Configured(e, canvas).engine.loadPath = engine.loadPath
         /\ Configured(e, canvas).engine.loadPromise = engine.loadPromise
         /\ Optioned(e, canvas).program = Module(rtenv[e]).program
         /\ Named(WithCanvas(config[e], canvas))
<1>1. rtenv[e] \in Inits /\ DOMAIN Module(rtenv[e]) = DOMAIN NoInit
      /\ DOMAIN engine = EngineFields
  BY DEF PageInv, RtenvOwned, ModulesOK, ModuleOK
<1>2. /\ Configured(e, canvas).engine.loadPath = engine.loadPath
      /\ Configured(e, canvas).engine.loadPromise = engine.loadPromise
  BY <1>1 DEF Configured, EngineFields
<1>3. Optioned(e, canvas).program = Module(rtenv[e]).program
  BY <1>1 DEF Optioned, NoInit
<1>4. Named(WithCanvas(config[e], canvas))
  BY DEF NamesInv, ConfigsNamed, Named, WithCanvas, DefaultConfig
<1> QED
  BY <1>2, <1>3, <1>4

LEMMA RefusedNames ==
  ASSUME PageInv, NamesInv, NEW e \in Engines, NEW canvas, StartRefused(e, canvas)
  PROVE  NamesInv'
<1>1. CASE UNCHANGED <<engine, config>>
  BY <1>1 DEF NamesInv, ConfigsNamed
<1>2. CASE /\ rtenv[e] # None /\ engine' = Configured(e, canvas).engine
           /\ config' = Configured(e, canvas).config
  <2> DEFINE m == Optioned(e, canvas)
             found == WithCanvas(config[e], canvas)
  <2>1. engine'.inits = [engine.inits EXCEPT ![rtenv[e]] = m] /\ m.at = Module(rtenv[e]).at
    BY <1>2, ConfiguredModule
  <2>2. /\ engine'.loadPath = engine.loadPath /\ engine'.loadPromise = engine.loadPromise
        /\ m.program = Module(rtenv[e]).program /\ Named(found)
    BY <1>2, ConfiguredNames
  <2>3. config' = [config EXCEPT ![e] = found]
    BY <1>2 DEF Configured
  <2> HIDE DEF m, found
  <2>4. EngineNamed(engine')
    BY <1>2, <2>1, <2>2, HeldModuleNames
  <2>5. ConfigsNamed'
    BY <2>2, <2>3, ConfigsStay
  <2> QED
    BY <2>4, <2>5 DEF NamesInv
<1> QED
  BY <1>1, <1>2 DEF StartRefused

LEMMA RunsNames ==
  ASSUME PageInv, NamesInv, NEW e \in Engines, NEW canvas, NEW returns,
         StartRuns(e, canvas, returns)
  PROVE  NamesInv'
<1> DEFINE i == rtenv[e]
           arguments == <<Module(i).program.thisProgram>> \o config[e].args
           conf == Configured(e, canvas).engine
           run == [conf EXCEPT !.inits[i].fs = @ \cup ToSet(preloader.preloadedFiles),
                               !.inits[i].mains = Append(@, arguments)]
           m == Optioned(e, canvas)
           found == WithCanvas(config[e], canvas)
           kept == [found EXCEPT !.args = arguments]
<1>1. i # None
  BY DEF StartRuns
<1>2. i \in Inits /\ DOMAIN engine.inits = Inits
  BY <1>1 DEF PageInv, RtenvOwned, ModulesOK
<1>3. engine' = run \/ engine' = [run EXCEPT !.initPromise = None]
  BY DEF StartRuns, RunMain
<1>4. config' = [config EXCEPT ![e] = kept]
  BY DEF StartRuns, RunMain, Configured, NamesInv, ConfigsNamed
<1>5. /\ DOMAIN conf = EngineFields /\ conf.inits = [engine.inits EXCEPT ![i] = m]
      /\ DOMAIN m = DOMAIN NoInit /\ m.at = Module(i).at
  BY <1>1, ConfiguredModule
<1>6. /\ conf.loadPath = engine.loadPath /\ conf.loadPromise = engine.loadPromise
      /\ m.program = Module(i).program /\ Named(found)
  BY <1>1, ConfiguredNames
<1> HIDE DEF conf, m, found
<1>7. Named(kept)
  BY <1>6 DEF Named, DefaultConfig
<1> HIDE DEF arguments, kept
<1> DEFINE files == m.fs \cup ToSet(preloader.preloadedFiles)
           mains == Append(m.mains, arguments)
           ran == [m EXCEPT !.fs = files, !.mains = mains]
<1>8. /\ run.inits = [engine.inits EXCEPT ![i] = ran]
      /\ run.loadPath = engine.loadPath /\ run.loadPromise = engine.loadPromise
      /\ DOMAIN run = EngineFields
  BY <1>2, <1>5, <1>6 DEF EngineFields, NoInit
<1> HIDE DEF run
<1>9. /\ engine'.inits = [engine.inits EXCEPT ![i] = ran]
      /\ engine'.loadPath = engine.loadPath /\ engine'.loadPromise = engine.loadPromise
  BY <1>3, <1>8 DEF EngineFields
<1>10. ran.at = Module(i).at /\ ran.program = Module(i).program
  BY <1>5, <1>6 DEF NoInit
<1> HIDE DEF ran
<1>11. EngineNamed(engine')
  BY <1>1, <1>9, <1>10, HeldModuleNames
<1>12. ConfigsNamed'
  BY <1>4, <1>7, ConfigsStay
<1> QED
  BY <1>11, <1>12 DEF NamesInv

\* The continuations of start and startGame.
LEMMA ContinuationNames ==
  ASSUME PageInv, NamesInv, NEW c \in Calls,
         StartGameLoaded(c) \/ StartGameFails(c) \/ StartInitialised(c) \/ StartFails(c)
  PROVE  NamesInv'
<1>1. CASE StartGameLoaded(c)
  <2> DEFINE e == calls[c].owner
             s == Init(Shared, e, config[e], None)
  <2>1. e \in Engines
    BY <1>1 DEF StartGameLoaded, PageInv, CallsOK, CallOK
  <2>2. RoomFor(Shared, 0, 1) /\ engine' = s.eng /\ UNCHANGED config
    BY <1>1 DEF StartGameLoaded, Become
  <2>3. EngineNamed(s.eng)
    BY <2>1, <2>2, InitNamed
  <2> QED
    BY <2>2, <2>3 DEF NamesInv, ConfigsNamed
<1>2. CASE StartInitialised(c)
  <2>1. calls[c].owner \in Engines
    BY <1>2 DEF StartInitialised, PageInv, CallsOK, CallOK
  <2>2. \E canvas \in CanvasChoice, returns \in BOOLEAN :
          StartRefused(calls[c].owner, canvas) \/ StartRuns(calls[c].owner, canvas, returns)
    BY <1>2 DEF StartInitialised
  <2> QED
    BY <2>1, <2>2, RefusedNames, RunsNames
<1>3. CASE StartGameFails(c) \/ StartFails(c)
  BY <1>3 DEF StartGameFails, StartFails, NamesInv, ConfigsNamed
<1> QED
  BY <1>1, <1>2, <1>3

LEMMA EngineStepNames ==
  ASSUME PageInv, NamesInv, EngineStep
  PROVE  NamesInv'
<1>1. CASE Downloads \/ Frames
  BY <1>1 DEF Downloads, Frames, NamesInv, ConfigsNamed
<1> QED
  BY <1>1, InstantiateNames, ModuleStepNames, ContinuationNames
  DEF EngineStep, Continuations

-----------------------------------------------------------------------------
(* What a script may call, under the name *)

LEMMA StartGameNames ==
  ASSUME PageInv, NamesInv, NEW e \in Engines, NEW override,
         "executable" \notin DOMAIN override, StartGame(e, override)
  PROVE  NamesInv'
<1> DEFINE updated == Update(config[e], override)
           pack == PackOf(updated)
           s == Init(Shared, e, updated, updated.executable)
           conf == [updated EXCEPT !.args = <<"--main-pack", pack>> \o @]
<1>1. Named(updated)
  BY UpdateKeepsName DEF NamesInv, ConfigsNamed
<1>2. updated.executable = Name
  BY <1>1 DEF Named
<1>3. EngineNamed(s.eng) /\ Begun(s)
  BY <1>2, InitNamed, InitBegins DEF StartGame
<1>4. engine' = PreloadFile(s, updated, pack, pack).eng
      /\ config' = [config EXCEPT ![e] = conf]
  BY DEF StartGame, Become
<1> HIDE DEF s, updated
<1>5. Named(conf)
  BY <1>1 DEF Named, DefaultConfig
<1> HIDE DEF pack, conf
<1>6. engine' = s.eng
  BY <1>3, <1>4 DEF PreloadFile, Begun
<1>7. ConfigsNamed'
  BY <1>4, <1>5, ConfigsStay
<1> QED
  BY <1>3, <1>6, <1>7 DEF NamesInv

LEMMA AnyCallNames ==
  ASSUME ScriptsKeepTheName, PageInv, NamesInv, NEW e \in Engines, AnyCall(e)
  PROVE  NamesInv'
<1>1. CASE StartGame(e, <<>>)
  BY <1>1, StartGameNames
<1>2. ASSUME NEW override \in Overrides, Start(e, override) PROVE NamesInv'
  <2> DEFINE updated == Update(config[e], override)
             s == Init(Shared, e, updated, None)
  <2>1. Named(updated)
    BY UpdateKeepsName DEF NamesInv, ConfigsNamed, ScriptsKeepTheName
  <2>2. EngineNamed(s.eng)
    BY <1>2, InitNamed DEF Start
  <2>3. engine' = s.eng /\ config' = [config EXCEPT ![e] = updated]
    BY <1>2 DEF Start, Become
  <2> HIDE DEF s, updated
  <2> QED
    BY <2>1, <2>2, <2>3, ConfigsStay DEF NamesInv
<1>3. ASSUME NEW basePath \in {None, config[e].executable}, CallInit(e, basePath)
      PROVE  NamesInv'
  <2>1. basePath \in {None, Name}
    BY DEF NamesInv, ConfigsNamed, Named
  <2>2. EngineNamed(Init(Shared, e, config[e], basePath).eng)
    BY <1>3, <2>1, InitNamed DEF CallInit
  <2> QED
    BY <1>3, <2>2 DEF CallInit, Become, NamesInv, ConfigsNamed
<1>4. ASSUME NEW file, CallPreloadFile(e, file) \/ CallPreloadBuffer(file)
      PROVE  NamesInv'
  <2>1. UNCHANGED <<engine, config>>
    BY <1>4 DEF CallPreloadFile, CallPreloadBuffer, Become, PreloadFile, Shared
  <2> QED
    BY <2>1 DEF NamesInv, ConfigsNamed
<1>5. ASSUME NEW file, CallCopyToFS(e, file) PROVE NamesInv'
  <2> DEFINE i == rtenv[e]
             files == Module(i).fs
                        \cup {[path |-> file, file |-> file, length |-> BodyLength[file]]}
             m == [Module(i) EXCEPT !.fs = files]
  <2>1. i # None /\ i \in Inits /\ ModuleOK(Module(i)) /\ UNCHANGED config
    BY <1>5 DEF CallCopyToFS, PageInv, RtenvOwned, ModulesOK
  <2>2. /\ engine'.inits = [engine.inits EXCEPT ![i] = m]
        /\ engine'.loadPath = engine.loadPath /\ engine'.loadPromise = engine.loadPromise
    BY <1>5, <2>1 DEF CallCopyToFS, Module, PageInv, ModulesOK, EngineFields
  <2>3. m.at = Module(i).at /\ m.program = Module(i).program
    BY <2>1 DEF ModuleOK, NoInit
  <2> HIDE DEF m
  <2>4. EngineNamed(engine')
    BY <2>1, <2>2, <2>3, HeldModuleNames
  <2> QED
    BY <2>1, <2>4 DEF NamesInv, ConfigsNamed
<1>6. CASE CallLoad(e)
  <2>1. config[e].executable = Name
    BY DEF NamesInv, ConfigsNamed, Named
  <2>2. EngineNamed(Load(Shared, config[e].executable, 0).eng)
    BY <2>1, LoadNamed
  <2> QED
    BY <1>6, <2>2 DEF CallLoad, Become, NamesInv, ConfigsNamed
<1>7. CASE CallUnload
  <2>1. engine' = [engine EXCEPT !.loadPromise = None] /\ UNCHANGED config
    BY <1>7 DEF CallUnload, Become, Unload, Shared
  <2>2. /\ engine'.inits = engine.inits /\ engine'.loadPath = engine.loadPath
        /\ engine'.loadPromise = None
    BY <2>1 DEF PageInv, ModulesOK, EngineFields
  <2> QED
    BY <2>1, <2>2 DEF NamesInv, ConfigsNamed, EngineNamed
<1> QED
  BY <1>1, <1>2, <1>3, <1>4, <1>5, <1>6, <1>7 DEF AnyCall

LEMMA InitNames == PageInit => NamesInv
<1> SUFFICES ASSUME PageInit PROVE NamesInv
  OBVIOUS
<1>1. Named(NewConfig(InitConfig))
  BY DEF Named, NewConfig, Update, Name, Configuration
<1>2. ConfigsNamed
  BY <1>1 DEF PageInit, EngineInit, ConfigsNamed
<1>3. EngineNamed(engine)
  BY DEF PageInit, EngineInit, EngineNamed, ModuleNamed, NoInit
<1> QED
  BY <1>2, <1>3 DEF NamesInv

LEMMA NextNames == ScriptsKeepTheName /\ PageInv /\ NamesInv /\ [Next]_vars => NamesInv'
<1> SUFFICES ASSUME ScriptsKeepTheName, PageInv, NamesInv, [Next]_vars PROVE NamesInv'
  OBVIOUS
<1>1. CASE UNCHANGED <<engine, config>>
  BY <1>1 DEF NamesInv, ConfigsNamed
<1>2. CASE OpenPage
  <2>1. CASE StartGame(ThePage, [onProgress |-> "statusProgress"])
    BY <2>1, PageAssumption, StartGameNames
  <2> QED
    BY <1>1, <1>2, <2>1 DEF OpenPage, engineVars
<1>3. CASE GameStarted \/ GameFailed \/ UNCHANGED vars
  BY <1>1, <1>3 DEF GameStarted, GameFailed, vars, engineVars
<1>4. CASE OtherCall
  BY <1>4, AnyCallNames DEF OtherCall
<1> QED
  BY <1>2, <1>3, <1>4, EngineStepNames DEF Next

\* Engine: as long as scripts do not start it under another name, its runtime finds
\* its files under the name the export has given them, on every instance.
THEOREM FilesAreFound ==
  ASSUME ScriptsKeepTheName
  PROVE  Spec => []FindsItsFiles
  BY InitNames, NextNames, NamedFindsFiles, PageInvariant, PTL DEF Spec

-----------------------------------------------------------------------------
(* The Preloader's methods *)

PreloaderFields == {"loads", "loadingFiles", "stats", "lastProgress", "progressFunc",
                    "reported", "preloadedFiles"}

PreloaderShape(p) ==
    /\ DOMAIN p = PreloaderFields
    /\ DOMAIN p.loads = Loads /\ DOMAIN p.loadingFiles = Files /\ DOMAIN p.stats = Stats
    /\ \A l \in Loads : DOMAIN p.loads[l] = DOMAIN NoLoad
    /\ \A s \in Stats : DOMAIN p.stats[s] = DOMAIN NoStat

FreshStat(p) == CHOOSE s \in Stats \ UsedStats(p) : TRUE

\* There is always an object nobody refers to.
LEMMA FreshStatExists ==
  ASSUME NEW p
  PROVE  FreshStat(p) \in Stats \ UsedStats(p)
<1> DEFINE byFile == [f \in Files |-> p.loadingFiles[f]]
           files == {p.loadingFiles[f] : f \in Files}
           byLoad == [l \in Loads |-> p.loads[l].stat]
           loads == {p.loads[l].stat : l \in Loads}
<1>1. byFile \in Surjection(Files, files)
  BY DEF Surjection
<1>2. IsFiniteSet(files) /\ Cardinality(files) <= Cardinality(Files)
  BY <1>1, FS_Surjection, PreloaderAssumption
<1>3. byLoad \in Surjection(Loads, loads)
  BY DEF Surjection
<1>4. IsFiniteSet(loads) /\ Cardinality(loads) <= Cardinality(Loads)
  BY <1>3, FS_Surjection, PreloaderAssumption
<1> HIDE DEF byFile, byLoad, files, loads
<1>5. IsFiniteSet(files \cup loads)
      /\ Cardinality(files \cup loads) <= Cardinality(files) + Cardinality(loads)
  <2>1. IsFiniteSet(files \cap loads) /\ Cardinality(files \cap loads) \in Nat
    BY <1>2, FS_Subset, FS_CardinalityType
  <2>2. Cardinality(files) \in Nat /\ Cardinality(loads) \in Nat
    BY <1>2, <1>4, FS_CardinalityType
  <2>3. /\ IsFiniteSet(files \cup loads)
        /\ Cardinality(files \cup loads)
             = Cardinality(files) + Cardinality(loads) - Cardinality(files \cap loads)
    BY <1>2, <1>4, FS_Union
  <2> QED
    BY <2>1, <2>2, <2>3
<1>6. ASSUME Stats \subseteq files \cup loads PROVE FALSE
  <2>1. Cardinality(Stats) <= Cardinality(files \cup loads) /\ IsFiniteSet(Stats)
    BY <1>5, <1>6, FS_Subset
  <2> QED
    BY <1>2, <1>4, <1>5, <2>1, FS_CardinalityType, PreloaderAssumption
<1>7. UsedStats(p) = files \cup loads
  BY DEF UsedStats, files, loads
<1> QED
  BY <1>6, <1>7 DEF FreshStat

\* What animateProgress has reported, and to whom.
SameReports(p, q) ==
    /\ q.progressFunc = p.progressFunc /\ q.lastProgress = p.lastProgress
    /\ q.reported = p.reported

\* loadFetch
LEMMA LoadFetchResult ==
  ASSUME NEW p, PreloaderShape(p), NEW l \in Loads, p.loads[l].file \in Files
  PROVE  LET q == LoadFetch(p, l)
             s == FreshStat(p)
         IN
         /\ PreloaderShape(q)
         /\ q.loads = [p.loads EXCEPT ![l] = [p.loads[l] EXCEPT !.at = "fetch", !.stat = None]]
         /\ q.loadingFiles = [p.loadingFiles EXCEPT ![p.loads[l].file] = s]
         /\ q.stats = [p.stats EXCEPT ![s] = [NoStat EXCEPT !.total = p.loads[l].size]]
         /\ q.preloadedFiles = p.preloadedFiles /\ SameReports(p, q)
<1> DEFINE file == p.loads[l].file
           s == FreshStat(p)
           q == LoadFetch(p, l)
           stat == [NoStat EXCEPT !.total = p.loads[l].size]
<1>1. q = [p EXCEPT !.loads[l].at = "fetch", !.loads[l].stat = None,
                    !.loadingFiles[file] = s, !.stats[s] = stat]
  BY DEF LoadFetch, FreshStat
<1>2. s \in Stats
  BY FreshStatExists
<1>3. DOMAIN stat = DOMAIN NoStat
  BY DEF NoStat
<1> HIDE DEF q, s, stat
<1>4. /\ DOMAIN q = PreloaderFields
      /\ q.loads = [p.loads EXCEPT ![l] = [p.loads[l] EXCEPT !.at = "fetch", !.stat = None]]
      /\ q.loadingFiles = [p.loadingFiles EXCEPT ![file] = s]
      /\ q.stats = [p.stats EXCEPT ![s] = stat]
      /\ q.preloadedFiles = p.preloadedFiles /\ SameReports(p, q)
  BY <1>1 DEF PreloaderShape, PreloaderFields, SameReports
<1>5. PreloaderShape(q)
  BY <1>2, <1>3, <1>4 DEF PreloaderShape
<1> QED
  BY <1>4, <1>5 DEF q, s, stat

LEMMA NextLoadIsFree ==
  ASSUME NEW p, FreeLoads(p) # {}
  PROVE  NextLoad(p) \in FreeLoads(p)
<1>1. FreeLoads(p) \subseteq Nat
  BY PreloaderAssumption DEF FreeLoads
<1> QED
  BY <1>1, MinOfNats DEF NextLoad

\* loadPromise: one more download, counted into a status of its own.
Loading(p, q, l, file, size, raw, dest) ==
    /\ PreloaderShape(q) /\ q.preloadedFiles = p.preloadedFiles
    /\ q.loads[l].size = size /\ q.loads[l].got = 0
    /\ q.stats[q.loadingFiles[file]] = [NoStat EXCEPT !.total = size]
    /\ \A s \in Stats \ {q.loadingFiles[file]} : q.stats[s] = p.stats[s]
    /\ q.loads[l].at = "fetch" /\ q.loads[l].file = file /\ q.loads[l].raw = raw
    /\ q.loads[l].dest = dest
    /\ q.loads[l].attempts = DOWNLOAD_ATTEMPTS_MAX /\ q.loads[l].stat = None
    /\ DOMAIN q.loads[l] = DOMAIN NoLoad
    /\ \A k \in Loads \ {l} : q.loads[k] = p.loads[k]
    /\ q.loadingFiles[file] \in Stats /\ ~q.stats[q.loadingFiles[file]].done
    /\ \A f \in Files \ {file} :
         q.loadingFiles[f] = p.loadingFiles[f] /\ q.loadingFiles[f] # q.loadingFiles[file]
    /\ q.loadingFiles = [p.loadingFiles EXCEPT ![file] = q.loadingFiles[file]]
    /\ q.stats = [p.stats EXCEPT ![q.loadingFiles[file]] = q.stats[q.loadingFiles[file]]]

LEMMA LoadPromiseResult ==
  ASSUME NEW p, PreloaderShape(p), FreeLoads(p) # {}, NEW file \in Files, NEW size,
         NEW raw, NEW dest
  PROVE  /\ NextLoad(p) \in FreeLoads(p)
         /\ Loading(p, LoadPromise(p, file, size, raw, dest), NextLoad(p), file, size, raw,
                    dest)
         /\ SameReports(p, LoadPromise(p, file, size, raw, dest))
<1> DEFINE l == NextLoad(p)
           load == [NoLoad EXCEPT !.file = file, !.size = size, !.raw = raw,
                                  !.dest = dest, !.attempts = DOWNLOAD_ATTEMPTS_MAX]
           begun == [p EXCEPT !.loads[l] = load]
           s == FreshStat(begun)
           q == LoadFetch(begun, l)
           fetched == [load EXCEPT !.at = "fetch", !.stat = None]
           stat == [NoStat EXCEPT !.total = load.size]
<1>1. l \in FreeLoads(p) /\ l \in Loads
  BY NextLoadIsFree DEF FreeLoads
<1>2. LoadPromise(p, file, size, raw, dest) = q
  BY DEF LoadPromise
<1>3. /\ DOMAIN load = DOMAIN NoLoad /\ load.file = file /\ load.raw = raw
      /\ load.dest = dest /\ load.size = size /\ load.got = 0
      /\ load.attempts = DOWNLOAD_ATTEMPTS_MAX
  BY DEF NoLoad
<1> HIDE DEF l, load
<1>4. /\ DOMAIN begun = PreloaderFields /\ begun.loads = [p.loads EXCEPT ![l] = load]
      /\ begun.loadingFiles = p.loadingFiles /\ begun.stats = p.stats
      /\ begun.preloadedFiles = p.preloadedFiles /\ SameReports(p, begun)
  BY DEF PreloaderShape, PreloaderFields, SameReports
<1> HIDE DEF begun
<1>5. PreloaderShape(begun) /\ begun.loads[l] = load
      /\ \A k \in Loads \ {l} : begun.loads[k] = p.loads[k]
  BY <1>1, <1>3, <1>4 DEF PreloaderShape
<1>6. s \in Stats /\ \A f \in Files : s # begun.loadingFiles[f]
  BY FreshStatExists DEF UsedStats
<1>7. /\ PreloaderShape(q)
      /\ q.loads = [begun.loads EXCEPT ![l] = [begun.loads[l] EXCEPT !.at = "fetch",
                                                                     !.stat = None]]
      /\ q.loadingFiles = [begun.loadingFiles EXCEPT ![begun.loads[l].file] = s]
      /\ q.stats = [begun.stats EXCEPT ![s] =
                      [NoStat EXCEPT !.total = begun.loads[l].size]]
      /\ q.preloadedFiles = begun.preloadedFiles /\ SameReports(begun, q)
  BY <1>1, <1>3, <1>5, LoadFetchResult
<1>8. /\ fetched.at = "fetch" /\ fetched.file = file /\ fetched.raw = raw
      /\ fetched.dest = dest /\ fetched.size = size /\ fetched.got = 0
      /\ fetched.attempts = DOWNLOAD_ATTEMPTS_MAX /\ fetched.stat = None
      /\ DOMAIN fetched = DOMAIN NoLoad
      /\ ~stat.done /\ stat = [NoStat EXCEPT !.total = size]
  BY <1>3 DEF NoLoad, NoStat
<1> HIDE DEF q, s
<1>9. /\ q.loads = [begun.loads EXCEPT ![l] = fetched]
      /\ q.loadingFiles = [begun.loadingFiles EXCEPT ![file] = s]
      /\ q.stats = [begun.stats EXCEPT ![s] = stat]
  BY <1>3, <1>5, <1>7
<1> HIDE DEF fetched, stat
<1>10. DOMAIN begun.loads = Loads /\ DOMAIN begun.loadingFiles = Files
       /\ DOMAIN begun.stats = Stats
  BY <1>5 DEF PreloaderShape
<1>11. q.loads[l] = fetched /\ \A k \in Loads \ {l} : q.loads[k] = p.loads[k]
  BY <1>1, <1>5, <1>9, <1>10
<1>12. /\ q.loadingFiles[file] = s /\ ~q.stats[s].done /\ q.stats[s] = stat
       /\ \A x \in Stats \ {s} : q.stats[x] = p.stats[x]
       /\ \A f \in Files \ {file} : q.loadingFiles[f] = p.loadingFiles[f]
  BY <1>4, <1>6, <1>8, <1>9, <1>10
<1>13. Loading(p, q, l, file, size, raw, dest)
  <2>1. /\ q.loadingFiles = [p.loadingFiles EXCEPT ![file] = q.loadingFiles[file]]
        /\ q.stats = [p.stats EXCEPT ![q.loadingFiles[file]] = q.stats[q.loadingFiles[file]]]
    BY <1>4, <1>9, <1>12
  <2> QED
    BY <1>4, <1>6, <1>7, <1>8, <1>11, <1>12, <2>1 DEF Loading
<1>14. SameReports(p, q)
  BY <1>4, <1>7 DEF SameReports
<1> QED
  BY <1>1, <1>2, <1>13, <1>14 DEF l

-----------------------------------------------------------------------------
(* The types of the downloads *)

LoadPlaces == {"free", "fetch", "body", "lost", "timer", "closed", "kept", "rejected"}

StatType == [total : Nat, loaded : Nat, done : BOOLEAN]

LoadOK(load) ==
    /\ DOMAIN load = DOMAIN NoLoad /\ load.at \in LoadPlaces
    /\ load.attempts \in 0..DOWNLOAD_ATTEMPTS_MAX
    /\ load.at # "free" =>
         /\ load.file \in Files /\ load.got \in 0..BodyLength[load.file]
         /\ load.size \in Nat /\ (~load.raw => load.dest \in Files)
    /\ load.stat \in Stats \cup {None} /\ (load.stat # None <=> load.at = "body")

\* A file that is, or was, downloaded has a status object from then on.
PreOK(p) ==
    /\ DOMAIN p = PreloaderFields
    /\ DOMAIN p.loads = Loads /\ \A l \in Loads : LoadOK(p.loads[l])
    /\ p.loadingFiles \in [Files -> Stats \cup {None}]
    /\ \A l \in Loads : p.loads[l].at # "free" => p.loadingFiles[p.loads[l].file] # None
    /\ p.stats \in [Stats -> StatType]
    /\ p.preloadedFiles \in Seq(PreloadedFiles)

LEMMA PreShape ==
  ASSUME NEW p, PreOK(p)
  PROVE  PreloaderShape(p)
  BY DEF PreOK, PreloaderShape, LoadOK, StatType, NoStat

\* One download changes, and some status.
LEMMA LoadTypeMoves ==
  ASSUME NEW p, PreOK(p), NEW l \in Loads, NEW load, LoadOK(load), NEW q,
         DOMAIN q = PreloaderFields, q.loads = [p.loads EXCEPT ![l] = load],
         q.loadingFiles = p.loadingFiles, load.file = p.loads[l].file,
         p.loads[l].at # "free", q.stats \in [Stats -> StatType],
         q.preloadedFiles \in Seq(PreloadedFiles)
  PROVE  PreOK(q)
<1>1. /\ DOMAIN q.loads = Loads /\ q.loads[l] = load
      /\ \A k \in Loads \ {l} : q.loads[k] = p.loads[k]
  BY DEF PreOK
<1>2. \A k \in Loads : LoadOK(q.loads[k])
  BY <1>1 DEF PreOK
<1>3. \A k \in Loads : q.loads[k].at # "free" => q.loadingFiles[q.loads[k].file] # None
  BY <1>1 DEF PreOK
<1> QED
  BY <1>1, <1>2, <1>3 DEF PreOK

LEMMA LoadFetchOK ==
  ASSUME NEW p, PreOK(p), NEW l \in Loads, p.loads[l].at # "free"
  PROVE  PreOK(LoadFetch(p, l))
<1> DEFINE q == LoadFetch(p, l)
           s == FreshStat(p)
           file == p.loads[l].file
           load == [p.loads[l] EXCEPT !.at = "fetch", !.stat = None]
           stat == [NoStat EXCEPT !.total = p.loads[l].size]
<1>1. /\ LoadOK(p.loads[l]) /\ file \in Files /\ p.loads[l].size \in Nat
      /\ DOMAIN p.loads = Loads
  BY DEF PreOK, LoadOK
<1>2. PreloaderShape(p) /\ s \in Stats
  BY PreShape, FreshStatExists
<1>3. /\ q.loads = [p.loads EXCEPT ![l] = load]
      /\ q.loadingFiles = [p.loadingFiles EXCEPT ![file] = s]
      /\ q.stats = [p.stats EXCEPT ![s] = stat]
      /\ q.preloadedFiles = p.preloadedFiles /\ DOMAIN q = PreloaderFields
  <2>1. p.loads[l].file \in Files
    BY <1>1
  <2>2. /\ PreloaderShape(q)
        /\ q.loads = [p.loads EXCEPT ![l] = load]
        /\ q.loadingFiles = [p.loadingFiles EXCEPT ![file] = s]
        /\ q.stats = [p.stats EXCEPT ![s] = stat]
        /\ q.preloadedFiles = p.preloadedFiles
    BY <1>2, <2>1, LoadFetchResult, Zenon
  <2> HIDE DEF q, load, stat, file, s
  <2> QED
    BY <2>2 DEF PreloaderShape
<1>4. LoadOK(load) /\ load.file = file /\ load.at = "fetch"
  BY <1>1 DEF LoadOK, NoLoad, LoadPlaces
<1>5. stat \in StatType
  BY <1>1 DEF NoStat, StatType
<1> HIDE DEF q, s, load, stat, file
<1>6. /\ DOMAIN q.loads = Loads /\ q.loads[l] = load
      /\ \A k \in Loads \ {l} : q.loads[k] = p.loads[k]
  BY <1>1, <1>3
<1>7. \A k \in Loads : LoadOK(q.loads[k])
  BY <1>4, <1>6 DEF PreOK
<1>8. /\ q.loadingFiles \in [Files -> Stats \cup {None}] /\ q.loadingFiles[file] = s
      /\ \A f \in Files : p.loadingFiles[f] # None => q.loadingFiles[f] # None
      /\ q.loadingFiles[file] # None
  BY <1>1, <1>2, <1>3, PreloaderAssumption DEF PreOK
<1>9. \A k \in Loads : q.loads[k].at # "free" => q.loadingFiles[q.loads[k].file] # None
  <2>1. \A k \in Loads \ {l} : q.loads[k].at # "free" => q.loads[k].file \in Files
    BY <1>6 DEF PreOK, LoadOK
  <2> QED
    BY <1>4, <1>6, <1>8, <2>1 DEF PreOK
<1>10. q.stats \in [Stats -> StatType]
  BY <1>2, <1>3, <1>5 DEF PreOK
<1>11. q.preloadedFiles \in Seq(PreloadedFiles)
  BY <1>3 DEF PreOK
<1> QED
  BY <1>3, <1>6, <1>7, <1>8, <1>9, <1>10, <1>11 DEF PreOK, q

LEMMA LoadPromiseOK ==
  ASSUME NEW p, PreOK(p), FreeLoads(p) # {}, NEW file \in Files, NEW size \in Nat,
         NEW raw, NEW dest, ~raw => dest \in Files
  PROVE  /\ PreOK(LoadPromise(p, file, size, raw, dest))
         /\ NextLoad(p) \in Loads
         /\ FreeLoads(p) \ {NextLoad(p)} \subseteq FreeLoads(LoadPromise(p, file, size, raw, dest))
<1> DEFINE q == LoadPromise(p, file, size, raw, dest)
           l == NextLoad(p)
<1>1. PreloaderShape(p)
  BY PreShape
<1>2. l \in FreeLoads(p) /\ Loading(p, q, l, file, size, raw, dest)
  BY <1>1, LoadPromiseResult
<1> HIDE DEF q, l
<1>3. l \in Loads
  BY <1>2 DEF FreeLoads
<1>4. /\ PreloaderShape(q) /\ q.preloadedFiles = p.preloadedFiles
      /\ q.loads[l].size = size /\ q.loads[l].got = 0
      /\ q.stats[q.loadingFiles[file]] = [NoStat EXCEPT !.total = size]
      /\ \A s \in Stats \ {q.loadingFiles[file]} : q.stats[s] = p.stats[s]
      /\ q.loads[l].at = "fetch" /\ q.loads[l].file = file /\ q.loads[l].raw = raw
      /\ q.loads[l].dest = dest
      /\ q.loads[l].attempts = DOWNLOAD_ATTEMPTS_MAX /\ q.loads[l].stat = None
      /\ DOMAIN q.loads[l] = DOMAIN NoLoad
      /\ \A k \in Loads \ {l} : q.loads[k] = p.loads[k]
      /\ q.loadingFiles[file] \in Stats
      /\ \A f \in Files \ {file} : q.loadingFiles[f] = p.loadingFiles[f]
      /\ q.loadingFiles = [p.loadingFiles EXCEPT ![file] = q.loadingFiles[file]]
      /\ q.stats = [p.stats EXCEPT ![q.loadingFiles[file]] = q.stats[q.loadingFiles[file]]]
  BY <1>2 DEF Loading
<1>5. LoadOK(q.loads[l])
  BY <1>4, PreloaderAssumption DEF LoadOK, LoadPlaces
<1>6. \A k \in Loads : LoadOK(q.loads[k])
  BY <1>4, <1>5 DEF PreOK
<1>7. \A k \in Loads : q.loads[k].at # "free" => q.loadingFiles[q.loads[k].file] # None
  <2>1. \A k \in Loads \ {l} : q.loads[k].at # "free" =>
           q.loads[k].file \in Files /\ p.loadingFiles[q.loads[k].file] # None
    BY <1>4 DEF PreOK, LoadOK
  <2> QED
    BY <1>4, <2>1, PreloaderAssumption
<1>8. q.loadingFiles \in [Files -> Stats \cup {None}]
  BY <1>4 DEF PreOK
<1>9. q.stats \in [Stats -> StatType]
  <2>1. [NoStat EXCEPT !.total = size] \in StatType
    BY DEF NoStat, StatType
  <2> QED
    BY <1>4, <2>1 DEF PreOK
<1>10. PreOK(q)
  <2>1. DOMAIN q = PreloaderFields /\ DOMAIN q.loads = Loads
    BY <1>4 DEF PreloaderShape
  <2> QED
    BY <1>4, <1>6, <1>7, <1>8, <1>9, <2>1 DEF PreOK
<1> QED
  BY <1>3, <1>4, <1>10 DEF FreeLoads, q, l

\* Reading, and what the network and the timers do.
LEMMA DownloadOK ==
  ASSUME PreOK(preloader), NEW l \in Loads, Download(l)
  PROVE  PreOK(preloader') /\ UNCHANGED frames
<1> DEFINE p == preloader
           load == p.loads[l]
           file == load.file
           stat == p.stats[load.stat]
<1>0. /\ LoadOK(load) /\ DOMAIN p = PreloaderFields /\ DOMAIN p.loads = Loads
      /\ p.stats \in [Stats -> StatType] /\ p.preloadedFiles \in Seq(PreloadedFiles)
      /\ load.at # "free" => /\ file \in Files /\ p.loadingFiles[file] \in Stats
                             /\ BodyLength[file] \in Nat /\ load.got \in 0..BodyLength[file]
  BY PreloaderAssumption DEF PreOK, LoadOK
<1>1. CASE Respond(l)
  <2> DEFINE new == [load EXCEPT !.at = "body", !.attempts = 0,
                                 !.stat = p.loadingFiles[file]]
  <2>1. /\ DOMAIN preloader' = PreloaderFields
        /\ preloader'.loads = [p.loads EXCEPT ![l] = new]
        /\ preloader'.loadingFiles = p.loadingFiles /\ preloader'.stats = p.stats
        /\ preloader'.preloadedFiles = p.preloadedFiles
        /\ load.at # "free" /\ UNCHANGED frames
    BY <1>0, <1>1 DEF Respond, PreloaderFields
  <2>2. LoadOK(new) /\ new.file = file
    BY <1>0, <2>1, PreloaderAssumption DEF LoadOK, NoLoad, LoadPlaces
  <2> HIDE DEF new
  <2> QED
    BY <1>0, <2>1, <2>2, LoadTypeMoves
<1>2. CASE FetchFails(l)
  <2> DEFINE gone == [load EXCEPT !.at = "rejected"]
             later == [load EXCEPT !.at = "timer", !.attempts = @ - 1]
  <2>1. /\ DOMAIN preloader' = PreloaderFields
        /\ \/ load.attempts <= 1 /\ preloader'.loads = [p.loads EXCEPT ![l] = gone]
           \/ ~(load.attempts <= 1) /\ preloader'.loads = [p.loads EXCEPT ![l] = later]
        /\ preloader'.loadingFiles = p.loadingFiles /\ preloader'.stats = p.stats
        /\ preloader'.preloadedFiles = p.preloadedFiles
        /\ load.at = "fetch" /\ UNCHANGED frames
    BY <1>0, <1>2 DEF FetchFails, PreloaderFields
  <2>2. LoadOK(gone) /\ gone.file = file
    BY <1>0, <2>1, PreloaderAssumption DEF LoadOK, NoLoad, LoadPlaces
  <2>3. ~(load.attempts <= 1) => LoadOK(later) /\ later.file = file
    <3>1. ~(load.attempts <= 1) => load.attempts - 1 \in 0..DOWNLOAD_ATTEMPTS_MAX
      BY <1>0, PreloaderAssumption DEF LoadOK
    <3> QED
      BY <1>0, <2>1, <3>1, PreloaderAssumption DEF LoadOK, NoLoad, LoadPlaces
  <2> HIDE DEF gone, later
  <2> QED
    BY <1>0, <2>1, <2>2, <2>3, LoadTypeMoves
<1>3. CASE Retry(l)
  BY <1>3, LoadFetchOK DEF Retry
<1> DEFINE closed == [load EXCEPT !.at = "closed", !.stat = None]
<1>4. load.at = "body" => LoadOK(closed) /\ closed.file = file /\ load.stat \in Stats
                          /\ stat \in StatType
  BY <1>0, PreloaderAssumption DEF LoadOK, NoLoad, LoadPlaces
<1>5. CASE ReadChunk(l)
  <2> DEFINE more == [load EXCEPT !.got = @ + 1]
             counted == [stat EXCEPT !.loaded = @ + 1]
  <2>1. /\ DOMAIN preloader' = PreloaderFields
        /\ \/ /\ preloader'.loads = [p.loads EXCEPT ![l] = closed]
              /\ preloader'.stats = p.stats
           \/ /\ preloader'.loads = [p.loads EXCEPT ![l] = more]
              /\ preloader'.stats = [p.stats EXCEPT ![load.stat] = counted]
        /\ preloader'.loadingFiles = p.loadingFiles
        /\ preloader'.preloadedFiles = p.preloadedFiles
        /\ load.at = "body" /\ load.got < BodyLength[file] /\ UNCHANGED frames
    BY <1>0, <1>5 DEF ReadChunk, PreloaderFields
  <2>2. LoadOK(more) /\ more.file = file
    <3>1. load.got + 1 \in 0..BodyLength[file]
      BY <1>0, <2>1
    <3> QED
      BY <1>0, <2>1, <3>1 DEF LoadOK, NoLoad
  <2>3. counted \in StatType
    <3>1. stat \in StatType
      BY <1>4, <2>1
    <3> HIDE DEF stat, closed, more, load, p
    <3> QED
      BY <3>1 DEF StatType
  <2> HIDE DEF more, counted, closed, stat
  <2>4. preloader'.stats \in [Stats -> StatType]
    BY <1>0, <2>1, <2>3
  <2> QED
    BY <1>0, <1>4, <2>1, <2>2, <2>4, LoadTypeMoves
<1>6. CASE ReadEnd(l)
  <2> DEFINE done == [stat EXCEPT !.done = TRUE]
  <2>1. /\ DOMAIN preloader' = PreloaderFields
        /\ preloader'.loads = [p.loads EXCEPT ![l] = closed]
        /\ preloader'.stats = [p.stats EXCEPT ![load.stat] = done]
        /\ preloader'.loadingFiles = p.loadingFiles
        /\ preloader'.preloadedFiles = p.preloadedFiles
        /\ load.at = "body" /\ UNCHANGED frames
    BY <1>0, <1>6 DEF ReadEnd, PreloaderFields
  <2>2. done \in StatType
    BY <1>4, <2>1 DEF StatType
  <2> HIDE DEF done, closed, stat
  <2>3. preloader'.stats \in [Stats -> StatType]
    BY <1>0, <2>1, <2>2
  <2> QED
    BY <1>0, <1>4, <2>1, <2>3, LoadTypeMoves
<1>7. CASE ReadFails(l)
  <2> DEFINE lost == [load EXCEPT !.at = "lost", !.stat = None]
  <2>1. /\ DOMAIN preloader' = PreloaderFields
        /\ preloader'.loads = [p.loads EXCEPT ![l] = lost]
        /\ preloader'.loadingFiles = p.loadingFiles /\ preloader'.stats = p.stats
        /\ preloader'.preloadedFiles = p.preloadedFiles
        /\ load.at = "body" /\ UNCHANGED frames
    BY <1>0, <1>7 DEF ReadFails, PreloaderFields
  <2>2. LoadOK(lost) /\ lost.file = file
    BY <1>0, <2>1, PreloaderAssumption DEF LoadOK, NoLoad, LoadPlaces
  <2> HIDE DEF lost
  <2> QED
    BY <1>0, <2>1, <2>2, LoadTypeMoves
<1>8. CASE KeepPreloaded(l)
  <2> DEFINE kept == [load EXCEPT !.at = "kept"]
             entry == [path |-> load.dest, file |-> file, length |-> load.got]
  <2>1. /\ DOMAIN preloader' = PreloaderFields
        /\ preloader'.loads = [p.loads EXCEPT ![l] = kept]
        /\ preloader'.loadingFiles = p.loadingFiles /\ preloader'.stats = p.stats
        /\ preloader'.preloadedFiles = Append(p.preloadedFiles, entry)
        /\ load.at = "closed" /\ ~load.raw /\ UNCHANGED frames
    BY <1>0, <1>8 DEF KeepPreloaded, PreloaderFields
  <2>2. LoadOK(kept) /\ kept.file = file
    BY <1>0, <2>1, PreloaderAssumption DEF LoadOK, NoLoad, LoadPlaces
  <2>3. entry \in PreloadedFiles
    BY <1>0, <2>1 DEF LoadOK, PreloadedFiles
  <2> HIDE DEF kept, entry
  <2>4. preloader'.preloadedFiles \in Seq(PreloadedFiles)
    BY <1>0, <2>1, <2>3
  <2> QED
    BY <1>0, <2>1, <2>2, <2>4, LoadTypeMoves
<1> QED
  BY <1>1, <1>2, <1>3, <1>5, <1>6, <1>7, <1>8 DEF Download

\* What leaves the downloads, the statuses and the kept files as they are.
LEMMA SamePreOK ==
  ASSUME NEW p, PreOK(p), NEW q, DOMAIN q = PreloaderFields, q.loads = p.loads,
         q.loadingFiles = p.loadingFiles, q.stats = p.stats,
         q.preloadedFiles \in Seq(PreloadedFiles)
  PROVE  PreOK(q)
  BY DEF PreOK

LEMMA FrameOK ==
  ASSUME PreOK(preloader), frames \in Nat, AnimateProgress
  PROVE  PreOK(preloader') /\ frames' \in Nat
<1>1. frames' \in Nat
  BY DEF AnimateProgress
<1>2. /\ DOMAIN preloader' = PreloaderFields
      /\ preloader'.loads = preloader.loads
      /\ preloader'.loadingFiles = preloader.loadingFiles
      /\ preloader'.stats = preloader.stats
      /\ preloader'.preloadedFiles = preloader.preloadedFiles
  BY DEF AnimateProgress, Report, PreOK, PreloaderFields
<1>3. PreOK(preloader')
  BY <1>2, SamePreOK DEF PreOK
<1> QED
  BY <1>1, <1>3

-----------------------------------------------------------------------------
(* The types of what the instances share *)

ModulePlaces == {"free", "load", "compile", "initFS", "done", "hung", "rejected"}

ModuleTyped(m) ==
    /\ DOMAIN m = DOMAIN NoInit /\ m.at \in ModulePlaces /\ m.fs \subseteq PreloadedFiles

EngineOK(eng) ==
    /\ DOMAIN eng = EngineFields /\ DOMAIN eng.inits = Inits
    /\ eng.loadPromise \in Loads \cup {None} /\ eng.initPromise \in Inits \cup {None}
    /\ \A i \in Inits : ModuleTyped(eng.inits[i])

SharedOK(s) ==
    /\ DOMAIN s = {"pre", "eng", "frames"}
    /\ PreOK(s.pre) /\ EngineOK(s.eng) /\ s.frames \in Nat

\* The configuration names the files of the export, and their sizes.
FilesOf(conf) ==
    /\ Named(conf)
    /\ conf.mainPack = Configuration.mainPack /\ conf.fileSizes = Configuration.fileSizes

FileOptions == {"executable", "mainPack", "fileSizes"}

\* Scripts start the engine on the files of the export, and on no others, and the
\* export has measured them in whole numbers.
ScriptsUseTheFiles ==
    /\ \A override \in Overrides : DOMAIN override \cap FileOptions = {}
    /\ ScriptFiles \subseteq Files
    /\ \A f \in DOMAIN Configuration.fileSizes : Configuration.fileSizes[f] \in Nat

LEMMA FilesFacts ==
  ASSUME ScriptsUseTheFiles, NEW conf, FilesOf(conf)
  PROVE  /\ \A f : SizeOf(conf, f) \in Nat
         /\ PackOf(conf) \in Files /\ Wasm(Name) \in Files /\ Name # None
<1>1. \A f : SizeOf(conf, f) \in Nat
  BY DEF SizeOf, FilesOf, ScriptsUseTheFiles
<1>2. PackOf(conf) = PackOf(Configuration)
  BY DEF PackOf, FilesOf, Named, Name
<1> QED
  BY <1>1, <1>2, PageAssumption DEF Name

LEMMA UpdateKeepsFiles ==
  ASSUME NEW conf, FilesOf(conf), NEW override, DOMAIN override \cap FileOptions = {}
  PROVE  FilesOf(Update(conf, override))
<1>1. "executable" \notin DOMAIN override /\ "mainPack" \notin DOMAIN override
      /\ "fileSizes" \notin DOMAIN override
  BY DEF FileOptions
<1>2. Named(Update(conf, override))
  BY <1>1, UpdateKeepsName DEF FilesOf
<1>3. {"mainPack", "fileSizes"} \subseteq DOMAIN conf
  BY DEF FilesOf, Named, DefaultConfig
<1>4. /\ Update(conf, override).mainPack = conf.mainPack
      /\ Update(conf, override).fileSizes = conf.fileSizes
  BY <1>1, <1>3 DEF Update
<1> QED
  BY <1>2, <1>4 DEF FilesOf

\* At most one download is no longer free.
OneLess(p, q) == \E l : FreeLoads(p) \ {l} \subseteq FreeLoads(q)

LEMMA LoadTyped ==
  ASSUME ScriptsUseTheFiles, SharedOK(Shared), NEW basePath, NEW size \in Nat,
         engine.loadPromise = None => basePath = Name /\ FreeLoads(preloader) # {},
         NEW conf, FilesOf(conf)
  PROVE  LET s == Load(Shared, basePath, size) IN
         /\ SharedOK(s) /\ s.eng.inits = engine.inits
         /\ s.pre = preloader \/ OneLess(preloader, s.pre)
<1> DEFINE s == Load(Shared, basePath, size)
           q == LoadPromise(preloader, Wasm(basePath), size, TRUE, None)
<1>1. /\ Shared.pre = preloader /\ Shared.eng = engine /\ Shared.frames = frames
      /\ DOMAIN Shared = {"pre", "eng", "frames"}
  BY DEF Shared
<1>2. CASE engine.loadPromise # None
  <2>1. s = Shared
    BY <1>1, <1>2 DEF Load
  <2> QED
    BY <1>1, <2>1
<1>3. CASE engine.loadPromise = None
  <2>1. PreOK(q) /\ NextLoad(preloader) \in Loads
        /\ FreeLoads(preloader) \ {NextLoad(preloader)} \subseteq FreeLoads(q)
    <3>1. Wasm(basePath) \in Files
      BY <1>3, FilesFacts
    <3> QED
      BY <1>1, <1>3, <3>1, LoadPromiseOK DEF SharedOK
  <2>2. OneLess(preloader, q)
    BY <2>1 DEF OneLess
  <2> HIDE DEF q
  <2>3. s = [Shared EXCEPT !.pre = q, !.eng.loadPath = basePath,
                           !.eng.loadPromise = NextLoad(preloader), !.frames = @ + 1]
    BY <1>1, <1>3 DEF Load, q
  <2>4. DOMAIN engine = EngineFields /\ EngineOK(engine) /\ frames \in Nat
    BY <1>1 DEF SharedOK, EngineOK
  <2> DEFINE eng == [engine EXCEPT !.loadPath = basePath,
                                   !.loadPromise = NextLoad(preloader)]
  <2>8. /\ DOMAIN eng = EngineFields /\ eng.inits = engine.inits
        /\ eng.loadPromise = NextLoad(preloader)
        /\ eng.initPromise = engine.initPromise
    BY <2>4 DEF EngineFields
  <2>9. s = [[[Shared EXCEPT !.pre = q] EXCEPT !.eng = eng] EXCEPT !.frames = @ + 1]
    BY <1>1, <2>3, <2>4 DEF EngineFields
  <2> HIDE DEF eng, s
  <2>5. /\ DOMAIN s = {"pre", "eng", "frames"} /\ s.pre = q /\ s.frames = frames + 1
        /\ DOMAIN s.eng = EngineFields /\ s.eng.inits = engine.inits
        /\ s.eng.loadPromise = NextLoad(preloader)
        /\ s.eng.initPromise = engine.initPromise
    BY <1>1, <2>8, <2>9
  <2>6. EngineOK(s.eng)
    BY <2>1, <2>4, <2>5 DEF EngineOK
  <2>7. SharedOK(s)
    BY <2>1, <2>4, <2>5, <2>6 DEF SharedOK
  <2> QED
    BY <2>2, <2>5, <2>7 DEF s
<1> QED
  BY <1>2, <1>3

LEMMA InitTyped ==
  ASSUME ScriptsUseTheFiles, SharedOK(Shared), NEW loads, RoomFor(Shared, loads, 1),
         NEW e \in Engines, NEW conf, FilesOf(conf), NEW basePath \in {None, Name},
         basePath = None \/ engine.initPromise # None \/ FreeLoads(preloader) # {}
  PROVE  LET s == Init(Shared, e, conf, basePath) IN
         /\ SharedOK(s)
         /\ s.pre = preloader \/ (engine.initPromise = None /\ OneLess(preloader, s.pre))
<1> DEFINE free == Min({j \in Inits : engine.inits[j].at = "free"})
           result == Init(Shared, e, conf, basePath)
<1>1. free \in Inits
  BY NextIsFree
<1> HIDE DEF free
<1>2. /\ Shared.pre = preloader /\ Shared.eng = engine /\ Shared.frames = frames
      /\ DOMAIN Shared = {"pre", "eng", "frames"}
  BY DEF Shared
<1>3. CASE engine.initPromise # None
  <2>1. result = Shared
    BY <1>2, <1>3 DEF Init
  <2> QED
    BY <1>2, <2>1
<1>4. ASSUME NEW s, SharedOK(s), s.eng.inits = engine.inits, NEW m, ModuleTyped(m)
      PROVE  SharedOK(WithInit(s, m)) /\ WithInit(s, m).pre = s.pre
  <2>1. NextInit(s) = free
    BY <1>4 DEF NextInit, free
  <2>2. /\ DOMAIN WithInit(s, m) = {"pre", "eng", "frames"}
        /\ DOMAIN WithInit(s, m).eng = EngineFields
        /\ WithInit(s, m).pre = s.pre /\ WithInit(s, m).frames = s.frames
        /\ WithInit(s, m).eng.loadPromise = s.eng.loadPromise
        /\ WithInit(s, m).eng.initPromise = free
        /\ WithInit(s, m).eng.inits = [engine.inits EXCEPT ![free] = m]
    BY <1>4, <2>1 DEF WithInit, EngineFields, SharedOK, EngineOK
  <2>3. DOMAIN engine.inits = Inits /\ \A i \in Inits : ModuleTyped(engine.inits[i])
    BY <1>2 DEF SharedOK, EngineOK
  <2>4. EngineOK(WithInit(s, m).eng)
    BY <1>1, <1>4, <2>2, <2>3 DEF EngineOK, SharedOK
  <2> QED
    BY <1>4, <2>2, <2>4 DEF SharedOK
<1>5. CASE engine.initPromise = None /\ engine.loadPromise = None /\ basePath = None
  <2> DEFINE m == [NoInit EXCEPT !.at = "rejected"]
  <2>1. ModuleTyped(m)
    BY DEF ModuleTyped, NoInit, ModulePlaces
  <2>2. result = WithInit(Shared, m)
    BY <1>2, <1>5 DEF Init
  <2> HIDE DEF m, result
  <2>3. SharedOK(result) /\ result.pre = preloader
    BY <1>2, <1>4, <2>1, <2>2
  <2> QED
    BY <2>3 DEF result
<1>6. CASE engine.initPromise = None /\ ~(engine.loadPromise = None /\ basePath = None)
  <2> DEFINE loaded == Load(Shared, basePath, SizeOf(conf, Wasm(basePath)))
             s == [loaded EXCEPT !.pre.progressFunc = conf.onProgress]
             m == [NoInit EXCEPT !.at = "load", !.owner = e,
                                 !.load = loaded.eng.loadPromise]
  <2>1. /\ SharedOK(loaded) /\ loaded.eng.inits = engine.inits
        /\ loaded.pre = preloader \/ OneLess(preloader, loaded.pre)
    <3>1. SizeOf(conf, Wasm(basePath)) \in Nat /\ Name # None
      BY FilesFacts
    <3>2. engine.loadPromise = None => basePath = Name /\ FreeLoads(preloader) # {}
      BY <1>6, <3>1
    <3> QED
      BY <3>1, <3>2, LoadTyped
  <2>2. result = WithInit(s, m)
    BY <1>2, <1>6 DEF Init
  <2>3. ModuleTyped(m)
    BY DEF ModuleTyped, NoInit, ModulePlaces
  <2> HIDE DEF loaded, m, result
  <2>4. DOMAIN loaded = {"pre", "eng", "frames"} /\ DOMAIN loaded.pre = PreloaderFields
    BY <2>1 DEF SharedOK, PreOK
  <2>5. /\ DOMAIN s = {"pre", "eng", "frames"} /\ s.eng = loaded.eng
        /\ s.frames = loaded.frames /\ DOMAIN s.pre = PreloaderFields
        /\ s.pre.loads = loaded.pre.loads /\ s.pre.loadingFiles = loaded.pre.loadingFiles
        /\ s.pre.stats = loaded.pre.stats
        /\ s.pre.preloadedFiles = loaded.pre.preloadedFiles
    BY <2>4 DEF PreloaderFields
  <2> HIDE DEF s
  <2>6. PreOK(s.pre) /\ FreeLoads(s.pre) = FreeLoads(loaded.pre)
    <3>1. PreOK(loaded.pre) /\ loaded.pre.preloadedFiles \in Seq(PreloadedFiles)
      BY <2>1 DEF SharedOK, PreOK
    <3>2. PreOK(s.pre)
      BY <2>5, <3>1, SamePreOK
    <3> QED
      BY <2>5, <3>2 DEF FreeLoads
  <2>7. SharedOK(s) /\ s.eng.inits = engine.inits
    BY <2>1, <2>5, <2>6 DEF SharedOK
  <2>8. SharedOK(result) /\ result.pre = s.pre
    BY <1>4, <2>2, <2>3, <2>7
  <2>9. OneLess(preloader, s.pre)
    <3>1. CASE loaded.pre = preloader
      <4>1. FreeLoads(preloader) \ {None} \subseteq FreeLoads(s.pre)
        BY <2>6, <3>1
      <4> QED
        BY <4>1 DEF OneLess
    <3>2. CASE OneLess(preloader, loaded.pre)
      BY <2>6, <3>2 DEF OneLess
    <3> QED
      BY <2>1, <3>1, <3>2
  <2> QED
    BY <1>6, <2>8, <2>9 DEF result
<1> QED
  BY <1>3, <1>5, <1>6

\* preloadFile of a file of the export, while there is a download to take.
LEMMA PreloadFileTyped ==
  ASSUME ScriptsUseTheFiles, NEW s, SharedOK(s), NEW conf, FilesOf(conf),
         NEW file \in Files, NEW path \in Files \cup {None}, FreeLoads(s.pre) # {}
  PROVE  SharedOK(PreloadFile(s, conf, file, path))
<1> DEFINE dest == IF path = None THEN file ELSE path
           q == LoadPromise(s.pre, file, SizeOf(conf, file), FALSE, dest)
           r == PreloadFile(s, conf, file, path)
<1>1. SizeOf(conf, file) \in Nat /\ dest \in Files
  BY FilesFacts
<1>2. r = [s EXCEPT !.pre = q]
  BY DEF PreloadFile, SharedOK
<1>3. PreOK(s.pre)
  BY DEF SharedOK
<1> HIDE DEF dest
<1>4. PreOK(q)
  BY <1>1, <1>3, LoadPromiseOK
<1> HIDE DEF q, r
<1>5. /\ DOMAIN r = {"pre", "eng", "frames"} /\ r.pre = q /\ r.eng = s.eng
      /\ r.frames = s.frames
  BY <1>2 DEF SharedOK
<1>6. SharedOK(r)
  BY <1>4, <1>5 DEF SharedOK
<1> QED
  BY <1>6 DEF r

-----------------------------------------------------------------------------
(* The types, step by step *)

SharedTyped == PreOK(preloader) /\ EngineOK(engine) /\ frames \in Nat

ConfigsOK == DOMAIN config = Engines /\ \A e \in Engines : FilesOf(config[e])

CallPlaces == {"free", "loading", "starting", "resolved", "rejected"}

CallsPlaced == \A c \in Calls : calls[c].at \in CallPlaces

\* With PageInv: every variable keeps its type, and every instance stays configured
\* with the files of the export.
TypesInv ==
    /\ SharedTyped /\ ConfigsOK /\ CallsPlaced
    /\ statusMode \in {"", "progress", "notice", "hidden"}

LEMMA SharedIsTyped ==
  ASSUME SharedTyped
  PROVE  SharedOK(Shared) /\ Shared.pre = preloader /\ Shared.eng = engine
  BY DEF SharedTyped, SharedOK, Shared

LEMMA BecomesTyped ==
  ASSUME NEW s, SharedOK(s), Become(s)
  PROVE  SharedTyped'
  BY DEF SharedOK, Become, SharedTyped

\* One module moves on.
LEMMA ModuleTypeMoves ==
  ASSUME SharedTyped, NEW i \in Inits, NEW m, ModuleTyped(m), DOMAIN engine' = EngineFields,
         engine'.inits = [engine.inits EXCEPT ![i] = m],
         engine'.loadPromise \in {None, engine.loadPromise},
         engine'.initPromise \in {None, engine.initPromise}
  PROVE  EngineOK(engine')
  BY DEF SharedTyped, EngineOK

LEMMA ModuleStepTyped ==
  ASSUME TypesInv, NEW i \in Inits,
         Instantiate(i) \/ Instantiated(i) \/ InitFSDone(i) \/ Exit(i)
  PROVE  SharedTyped' /\ ConfigsOK'
<1>1. UNCHANGED <<preloader, frames, config>>
  BY DEF Instantiate, Instantiated, InitFSDone, Exit
<1>2. /\ DOMAIN engine = EngineFields /\ DOMAIN engine.inits = Inits
      /\ ModuleTyped(Module(i)) /\ SharedTyped
  BY DEF TypesInv, SharedTyped, EngineOK, Module
<1>3. \E m : /\ ModuleTyped(m) /\ DOMAIN engine' = EngineFields
             /\ engine'.inits = [engine.inits EXCEPT ![i] = m]
             /\ engine'.loadPromise \in {None, engine.loadPromise}
             /\ engine'.initPromise \in {None, engine.initPromise}
  <2>1. CASE Instantiate(i)
    <3> DEFINE program == ModuleConfig(config[Module(i).owner], engine.loadPath)
    <3> HIDE DEF program
    <3> DEFINE m == [Module(i) EXCEPT !.at = "compile", !.program = program]
    <3>1. ModuleTyped(m)
      BY <1>2 DEF ModuleTyped, ModulePlaces, NoInit
    <3>2. /\ DOMAIN engine' = EngineFields
          /\ engine'.inits = [engine.inits EXCEPT ![i] = m]
          /\ engine'.loadPromise = engine.loadPromise
          /\ engine'.initPromise = engine.initPromise
      BY <1>2, <2>1 DEF Instantiate, Module, EngineFields, program
    <3> QED
      BY <3>1, <3>2
  <2>2. CASE Instantiated(i)
    <3>1. PICK at \in {"initFS", "hung"} : engine' = [engine EXCEPT !.inits[i].at = at]
      BY <2>2 DEF Instantiated
    <3> DEFINE m == [Module(i) EXCEPT !.at = at]
    <3>2. ModuleTyped(m)
      BY <1>2 DEF ModuleTyped, ModulePlaces, NoInit
    <3>3. /\ DOMAIN engine' = EngineFields
          /\ engine'.inits = [engine.inits EXCEPT ![i] = m]
          /\ engine'.loadPromise = engine.loadPromise
          /\ engine'.initPromise = engine.initPromise
      BY <1>2, <3>1 DEF Module, EngineFields
    <3> QED
      BY <3>2, <3>3
  <2>3. CASE InitFSDone(i)
    <3> DEFINE m == [Module(i) EXCEPT !.at = "done"]
    <3>1. ModuleTyped(m)
      BY <1>2 DEF ModuleTyped, ModulePlaces, NoInit
    <3>2. /\ DOMAIN engine' = EngineFields
          /\ engine'.inits = [engine.inits EXCEPT ![i] = m]
          /\ engine'.loadPromise \in {None, engine.loadPromise}
          /\ engine'.initPromise = engine.initPromise
      BY <1>2, <2>3 DEF InitFSDone, Module, EngineFields
    <3> QED
      BY <3>1, <3>2
  <2>4. CASE Exit(i)
    <3> DEFINE m == [Module(i) EXCEPT !.over = TRUE]
    <3>1. ModuleTyped(m)
      BY <1>2 DEF ModuleTyped, NoInit
    <3>2. /\ DOMAIN engine' = EngineFields
          /\ engine'.inits = [engine.inits EXCEPT ![i] = m]
          /\ engine'.loadPromise = engine.loadPromise
          /\ engine'.initPromise = engine.initPromise
      BY <1>2, <2>4 DEF Exit, Module, EngineFields
    <3> QED
      BY <3>1, <3>2
  <2> QED
    BY <2>1, <2>2, <2>3, <2>4
<1>4. EngineOK(engine')
  BY <1>2, <1>3, ModuleTypeMoves
<1> QED
  BY <1>1, <1>4 DEF TypesInv, SharedTyped, ConfigsOK

\* The configuration of an instance changes, and still names the files.
LEMMA ConfigsStayOK ==
  ASSUME ConfigsOK, NEW e \in Engines, NEW conf, FilesOf(conf),
         config' = [config EXCEPT ![e] = conf]
  PROVE  ConfigsOK'
  BY DEF ConfigsOK

LEMMA OptionsKeepFiles ==
  ASSUME NEW conf, FilesOf(conf), NEW value
  PROVE  FilesOf([conf EXCEPT !.args = value]) /\ FilesOf([conf EXCEPT !.canvas = value])
  BY DEF FilesOf, Named, DefaultConfig

LEMMA ConfiguredTypes ==
  ASSUME PageInv, TypesInv, NEW e \in Engines, rtenv[e] # None, NEW canvas
  PROVE  /\ Configured(e, canvas).engine.loadPromise = engine.loadPromise
         /\ Configured(e, canvas).engine.initPromise = engine.initPromise
         /\ Configured(e, canvas).config = [config EXCEPT ![e] = WithCanvas(config[e], canvas)]
         /\ rtenv[e] \in Inits /\ ModuleTyped(Optioned(e, canvas))
         /\ FilesOf(WithCanvas(config[e], canvas))
<1>1. rtenv[e] \in Inits /\ DOMAIN engine = EngineFields
  BY DEF PageInv, RtenvOwned, ModulesOK
<1>2. /\ Configured(e, canvas).engine.loadPromise = engine.loadPromise
      /\ Configured(e, canvas).engine.initPromise = engine.initPromise
      /\ Configured(e, canvas).config = [config EXCEPT ![e] = WithCanvas(config[e], canvas)]
  BY <1>1 DEF Configured, EngineFields
<1>3. ModuleTyped(Module(rtenv[e]))
  BY <1>1 DEF TypesInv, SharedTyped, EngineOK, Module
<1>4. ModuleTyped(Optioned(e, canvas))
  BY <1>3 DEF Optioned, ModuleTyped, NoInit
<1>5. FilesOf(WithCanvas(config[e], canvas))
  BY OptionsKeepFiles DEF TypesInv, ConfigsOK, WithCanvas
<1> QED
  BY <1>1, <1>2, <1>4, <1>5

LEMMA RefusedTyped ==
  ASSUME PageInv, TypesInv, NEW e \in Engines, NEW canvas, StartRefused(e, canvas),
         UNCHANGED frames
  PROVE  SharedTyped' /\ ConfigsOK'
<1>1. UNCHANGED preloader
  BY DEF StartRefused
<1>2. CASE UNCHANGED <<engine, config>>
  BY <1>1, <1>2 DEF TypesInv, SharedTyped, ConfigsOK
<1>3. CASE /\ rtenv[e] # None /\ engine' = Configured(e, canvas).engine
           /\ config' = Configured(e, canvas).config
  <2> DEFINE m == Optioned(e, canvas)
             found == WithCanvas(config[e], canvas)
  <2>1. /\ DOMAIN engine' = EngineFields
        /\ engine'.inits = [engine.inits EXCEPT ![rtenv[e]] = m]
    BY <1>3, ConfiguredModule
  <2>2. /\ engine'.loadPromise = engine.loadPromise
        /\ engine'.initPromise = engine.initPromise
        /\ config' = [config EXCEPT ![e] = found]
        /\ rtenv[e] \in Inits /\ ModuleTyped(m) /\ FilesOf(found)
    BY <1>3, ConfiguredTypes
  <2> HIDE DEF m, found
  <2>3. EngineOK(engine')
    BY <2>1, <2>2, ModuleTypeMoves DEF TypesInv
  <2>4. ConfigsOK'
    BY <2>2, ConfigsStayOK DEF TypesInv
  <2> QED
    BY <1>1, <2>3, <2>4 DEF TypesInv, SharedTyped
<1> QED
  BY <1>2, <1>3 DEF StartRefused

LEMMA KeptFilesTyped ==
  ASSUME PreOK(preloader)
  PROVE  ToSet(preloader.preloadedFiles) \subseteq PreloadedFiles
<1>1. preloader.preloadedFiles \in Seq(PreloadedFiles)
  BY DEF PreOK
<1> QED
  BY <1>1 DEF ToSet

LEMMA RunsTyped ==
  ASSUME PageInv, TypesInv, NEW e \in Engines, NEW canvas, NEW returns,
         StartRuns(e, canvas, returns), UNCHANGED frames
  PROVE  SharedTyped' /\ ConfigsOK'
<1> DEFINE i == rtenv[e]
           arguments == <<Module(i).program.thisProgram>> \o config[e].args
           conf == Configured(e, canvas).engine
           run == [conf EXCEPT !.inits[i].fs = @ \cup ToSet(preloader.preloadedFiles),
                               !.inits[i].mains = Append(@, arguments)]
           m == Optioned(e, canvas)
           found == WithCanvas(config[e], canvas)
           kept == [found EXCEPT !.args = arguments]
<1>1. i # None
  BY DEF StartRuns
<1>2. i \in Inits /\ DOMAIN engine.inits = Inits
  BY <1>1 DEF PageInv, RtenvOwned, ModulesOK
<1>3. /\ engine' = run \/ engine' = [run EXCEPT !.initPromise = None]
      /\ preloader' = [preloader EXCEPT !.preloadedFiles = <<>>]
  BY DEF StartRuns, RunMain
<1>4. config' = [config EXCEPT ![e] = kept]
  BY DEF StartRuns, RunMain, Configured, TypesInv, ConfigsOK
<1>5. /\ DOMAIN conf = EngineFields /\ conf.inits = [engine.inits EXCEPT ![i] = m]
      /\ DOMAIN m = DOMAIN NoInit
  BY <1>1, ConfiguredModule
<1>6. /\ conf.loadPromise = engine.loadPromise /\ conf.initPromise = engine.initPromise
      /\ ModuleTyped(m) /\ FilesOf(found)
  BY <1>1, ConfiguredTypes
<1> HIDE DEF conf, m, found
<1>7. FilesOf(kept)
  BY <1>6, OptionsKeepFiles
<1> HIDE DEF arguments, kept
<1> DEFINE files == m.fs \cup ToSet(preloader.preloadedFiles)
           mains == Append(m.mains, arguments)
           ran == [m EXCEPT !.fs = files, !.mains = mains]
<1>8. /\ run.inits = [engine.inits EXCEPT ![i] = ran]
      /\ run.loadPromise = engine.loadPromise /\ run.initPromise = engine.initPromise
      /\ DOMAIN run = EngineFields
  BY <1>2, <1>5, <1>6 DEF EngineFields, NoInit
<1> HIDE DEF run
<1>9. /\ engine'.inits = [engine.inits EXCEPT ![i] = ran]
      /\ engine'.loadPromise = engine.loadPromise
      /\ engine'.initPromise \in {None, engine.initPromise}
      /\ DOMAIN engine' = EngineFields
  BY <1>3, <1>8 DEF EngineFields
<1>10. files \subseteq PreloadedFiles
  BY <1>6, KeptFilesTyped DEF ModuleTyped, TypesInv, SharedTyped
<1> HIDE DEF files, mains
<1>11. ModuleTyped(ran)
  BY <1>6, <1>10 DEF ModuleTyped, NoInit
<1> HIDE DEF ran
<1>12. EngineOK(engine')
  BY <1>2, <1>9, <1>11, ModuleTypeMoves DEF TypesInv
<1>13. ConfigsOK'
  BY <1>4, <1>7, ConfigsStayOK DEF TypesInv
<1>14. PreOK(preloader')
  <2>1. PreOK(preloader) /\ DOMAIN preloader = PreloaderFields
    BY DEF TypesInv, SharedTyped, PreOK
  <2>2. /\ DOMAIN preloader' = PreloaderFields /\ preloader'.loads = preloader.loads
        /\ preloader'.loadingFiles = preloader.loadingFiles
        /\ preloader'.stats = preloader.stats /\ preloader'.preloadedFiles = <<>>
    BY <1>3, <2>1 DEF PreloaderFields
  <2>3. <<>> \in Seq(PreloadedFiles)
    OBVIOUS
  <2> QED
    BY <2>1, <2>2, <2>3, SamePreOK
<1> QED
  BY <1>12, <1>13, <1>14 DEF TypesInv, SharedTyped

\* A call moves on, or is made.
LEMMA CallPlaced ==
  ASSUME PageInv, TypesInv, NEW c \in Calls, NEW call, call.at \in CallPlaces,
         calls' = [calls EXCEPT ![c] = call]
  PROVE  CallsPlaced'
  BY DEF PageInv, CallsOK, TypesInv, CallsPlaced

LEMMA CallSettlesPlaced ==
  ASSUME PageInv, TypesInv, NEW c \in Calls, NEW at \in CallPlaces,
         calls' = [calls EXCEPT ![c].at = at]
  PROVE  CallsPlaced'
<1> DEFINE call == [calls[c] EXCEPT !.at = at]
<1>1. calls' = [calls EXCEPT ![c] = call]
  OBVIOUS
<1>2. call.at \in CallPlaces
  BY DEF PageInv, CallsOK, CallOK, NoCall
<1> HIDE DEF call
<1> QED
  BY <1>1, <1>2, CallPlaced

LEMMA StartGameLoadedTyped ==
  ASSUME ScriptsUseTheFiles, PageInv, TypesInv, NEW c \in Calls, StartGameLoaded(c)
  PROVE  SharedTyped' /\ ConfigsOK' /\ CallsPlaced'
<1> DEFINE e == calls[c].owner
           s == Init(Shared, e, config[e], None)
           call == [calls[c] EXCEPT !.at = "starting", !.init = s.eng.initPromise]
<1>1. e \in Engines /\ RoomFor(Shared, 0, 1) /\ Become(s) /\ UNCHANGED config
  BY DEF StartGameLoaded, PageInv, CallsOK, CallOK
<1>2. SharedOK(Shared) /\ FilesOf(config[e])
  BY <1>1, SharedIsTyped DEF TypesInv, ConfigsOK
<1>3. SharedOK(s)
  BY <1>1, <1>2, InitTyped
<1>4. calls' = [calls EXCEPT ![c] = call]
  BY DEF StartGameLoaded
<1> HIDE DEF s
<1>5. call.at \in CallPlaces
  BY DEF PageInv, CallsOK, CallOK, NoCall, CallPlaces
<1> HIDE DEF call
<1>6. SharedTyped' /\ CallsPlaced'
  BY <1>1, <1>3, <1>4, <1>5, BecomesTyped, CallPlaced
<1> QED
  BY <1>1, <1>6 DEF TypesInv, ConfigsOK

LEMMA CallStepTyped ==
  ASSUME ScriptsUseTheFiles, PageInv, TypesInv, NEW c \in Calls,
         StartGameLoaded(c) \/ StartGameFails(c) \/ StartInitialised(c) \/ StartFails(c)
  PROVE  SharedTyped' /\ ConfigsOK' /\ CallsPlaced'
<1>1. CASE StartInitialised(c)
  <2>1. calls[c].owner \in Engines /\ UNCHANGED frames
    BY <1>1 DEF StartInitialised, PageInv, CallsOK, CallOK
  <2>2. \E canvas \in CanvasChoice, returns \in BOOLEAN :
          StartRefused(calls[c].owner, canvas) \/ StartRuns(calls[c].owner, canvas, returns)
    BY <1>1 DEF StartInitialised
  <2>3. SharedTyped' /\ ConfigsOK'
    BY <2>1, <2>2, RefusedTyped, RunsTyped
  <2>4. \E at \in {"resolved", "rejected"} : calls' = [calls EXCEPT ![c].at = at]
    BY <1>1 DEF StartInitialised
  <2>5. CallsPlaced'
    BY <2>4, CallSettlesPlaced DEF CallPlaces
  <2> QED
    BY <2>3, <2>5
<1>2. CASE StartGameFails(c) \/ StartFails(c)
  <2>1. /\ UNCHANGED <<preloader, frames, engine, config>>
        /\ calls' = [calls EXCEPT ![c].at = "rejected"]
    BY <1>2 DEF StartGameFails, StartFails
  <2>2. CallsPlaced'
    BY <2>1, CallSettlesPlaced DEF CallPlaces
  <2> QED
    BY <2>1, <2>2 DEF TypesInv, SharedTyped, ConfigsOK
<1> QED
  BY <1>1, <1>2, StartGameLoadedTyped

LEMMA EngineStepTyped ==
  ASSUME ScriptsUseTheFiles, PageInv, TypesInv, EngineStep
  PROVE  SharedTyped' /\ ConfigsOK' /\ CallsPlaced'
<1>1. CASE Downloads
  <2>1. PreOK(preloader') /\ UNCHANGED frames
    BY <1>1, DownloadOK DEF Downloads, TypesInv, SharedTyped
  <2> QED
    BY <1>1, <2>1 DEF Downloads, TypesInv, SharedTyped, ConfigsOK, CallsPlaced
<1>2. CASE Frames
  <2>1. PreOK(preloader') /\ frames' \in Nat
    BY <1>2, FrameOK DEF Frames, TypesInv, SharedTyped
  <2> QED
    BY <1>2, <2>1 DEF Frames, TypesInv, SharedTyped, ConfigsOK, CallsPlaced
<1>3. ASSUME NEW i \in Inits, Instantiate(i) \/ Instantiated(i) \/ InitFSDone(i) \/ Exit(i)
      PROVE  SharedTyped' /\ ConfigsOK' /\ CallsPlaced'
  <2>1. UNCHANGED calls
    BY <1>3 DEF Instantiate, Instantiated, InitFSDone, Exit
  <2> QED
    BY <1>3, <2>1, ModuleStepTyped DEF TypesInv, CallsPlaced
<1> QED
  BY <1>1, <1>2, <1>3, CallStepTyped DEF EngineStep, Continuations

-----------------------------------------------------------------------------
(* The types, call by call *)

\* With room for two downloads, one that is taken leaves another.
LEMMA StillRoom ==
  ASSUME NEW p, NEW q, OneLess(p, q), Cardinality(FreeLoads(p)) >= 2
  PROVE  FreeLoads(q) # {}
<1> SUFFICES ASSUME FreeLoads(q) = {} PROVE FALSE
  OBVIOUS
<1>1. PICK l : FreeLoads(p) \ {l} \subseteq FreeLoads(q)
  BY DEF OneLess
<1>2. FreeLoads(p) \subseteq {l}
  BY <1>1
<1>3. IsFiniteSet({l}) /\ Cardinality({l}) = 1
  BY FS_Singleton
<1>4. Cardinality(FreeLoads(p)) <= 1
  BY <1>2, <1>3, FS_Subset
<1>5. Cardinality(FreeLoads(p)) \in Nat
  BY <1>2, <1>3, FS_Subset, FS_CardinalityType
<1> QED
  BY <1>4, <1>5

LEMMA SomeRoom ==
  ASSUME NEW p, Cardinality(FreeLoads(p)) >= 1
  PROVE  FreeLoads(p) # {}
  BY FS_EmptySet

LEMMA StartGameTyped ==
  ASSUME ScriptsUseTheFiles, PageInv, TypesInv, NEW e \in Engines, NEW override,
         DOMAIN override \cap FileOptions = {}, StartGame(e, override)
  PROVE  SharedTyped' /\ ConfigsOK' /\ CallsPlaced'
<1> DEFINE updated == Update(config[e], override)
           pack == PackOf(updated)
           s == Init(Shared, e, updated, updated.executable)
           conf == [updated EXCEPT !.args = <<"--main-pack", pack>> \o @]
           room == IF engine.initPromise = None THEN 2 ELSE 1
           call == [at |-> "loading", owner |-> e, init |-> s.eng.initPromise,
                    load |-> NextLoad(s.pre)]
<1>1. FilesOf(updated)
  BY UpdateKeepsFiles DEF TypesInv, ConfigsOK
<1>2. updated.executable = Name /\ pack \in Files
  BY <1>1, FilesFacts DEF FilesOf, Named
<1>3. RoomFor(Shared, room, 1) /\ SharedOK(Shared) /\ Shared.pre = preloader
  BY SharedIsTyped DEF StartGame, TypesInv
<1>4. FreeLoads(preloader) # {}
  <2>1. Cardinality(FreeLoads(preloader)) >= room
    BY <1>3 DEF RoomFor
  <2>2. CASE room = 1
    BY <2>1, <2>2, SomeRoom
  <2>3. CASE room = 2
    <3>1. OneLess(preloader, preloader)
      BY DEF OneLess
    <3> QED
      BY <2>1, <2>3, <3>1, StillRoom
  <2> QED
    BY <2>2, <2>3
<1>5. /\ SharedOK(s)
      /\ s.pre = preloader \/ (engine.initPromise = None /\ OneLess(preloader, s.pre))
  BY <1>1, <1>2, <1>3, <1>4, InitTyped
<1>6. FreeLoads(s.pre) # {}
  <2>1. CASE s.pre = preloader
    BY <1>4, <2>1
  <2>2. CASE engine.initPromise = None /\ OneLess(preloader, s.pre)
    <3>1. Cardinality(FreeLoads(preloader)) >= 2
      BY <1>3, <2>2 DEF RoomFor
    <3> QED
      BY <2>2, <3>1, StillRoom
  <2> QED
    BY <1>5, <2>1, <2>2
<1>7. /\ config' = [config EXCEPT ![e] = conf]
      /\ Become(PreloadFile(s, updated, pack, pack))
      /\ NextCall \in Calls /\ calls' = [calls EXCEPT ![NextCall] = call]
  BY NextCallIsFree DEF StartGame
<1> HIDE DEF s, updated
<1>8. FilesOf(conf)
  BY <1>1, OptionsKeepFiles
<1>9. call.at \in CallPlaces
  BY DEF CallPlaces
<1> HIDE DEF pack, conf, call
<1>10. SharedTyped'
  BY <1>1, <1>2, <1>5, <1>6, <1>7, PreloadFileTyped, BecomesTyped
<1>11. ConfigsOK'
  BY <1>7, <1>8, ConfigsStayOK DEF TypesInv
<1> QED
  BY <1>7, <1>9, <1>10, <1>11, CallPlaced

LEMMA StartTyped ==
  ASSUME ScriptsUseTheFiles, PageInv, TypesInv, NEW e \in Engines,
         NEW override \in Overrides, Start(e, override)
  PROVE  SharedTyped' /\ ConfigsOK' /\ CallsPlaced'
<1> DEFINE updated == Update(config[e], override)
           s == Init(Shared, e, updated, None)
           call == [at |-> "starting", owner |-> e, init |-> s.eng.initPromise,
                    load |-> None]
<1>1. FilesOf(updated)
  BY UpdateKeepsFiles DEF TypesInv, ConfigsOK, ScriptsUseTheFiles
<1>2. RoomFor(Shared, 0, 1) /\ SharedOK(Shared)
  BY SharedIsTyped DEF Start, TypesInv
<1>3. SharedOK(s)
  BY <1>1, <1>2, InitTyped
<1>4. /\ config' = [config EXCEPT ![e] = updated] /\ Become(s)
      /\ NextCall \in Calls /\ calls' = [calls EXCEPT ![NextCall] = call]
  BY NextCallIsFree DEF Start
<1>5. call.at \in CallPlaces
  BY DEF CallPlaces
<1> HIDE DEF s, updated, call
<1>6. SharedTyped' /\ ConfigsOK'
  BY <1>1, <1>3, <1>4, BecomesTyped, ConfigsStayOK DEF TypesInv
<1> QED
  BY <1>4, <1>5, <1>6, CallPlaced

\* The calls that make no call of start: what they share is typed.
LEMMA OtherCallTyped ==
  ASSUME ScriptsUseTheFiles, PageInv, TypesInv, NEW e \in Engines,
         \/ \E basePath \in {None, config[e].executable} : CallInit(e, basePath)
         \/ \E file \in ScriptFiles :
              CallPreloadFile(e, file) \/ CallPreloadBuffer(file) \/ CallCopyToFS(e, file)
         \/ CallLoad(e)
         \/ CallUnload
  PROVE  SharedTyped'
<1>1. FilesOf(config[e]) /\ config[e].executable = Name
  BY DEF TypesInv, ConfigsOK, FilesOf, Named
<1>2. /\ SharedOK(Shared) /\ Shared.pre = preloader /\ Shared.eng = engine
      /\ SharedTyped /\ DOMAIN engine = EngineFields
  BY SharedIsTyped DEF TypesInv, SharedTyped, EngineOK
<1>3. \A inits : RoomFor(Shared, 1, inits) => FreeLoads(preloader) # {}
  BY <1>2, SomeRoom DEF RoomFor
<1>4. ASSUME NEW basePath \in {None, config[e].executable}, CallInit(e, basePath)
      PROVE  SharedTyped'
  <2>1. basePath \in {None, Name} /\ FreeLoads(preloader) # {} /\ RoomFor(Shared, 1, 1)
    BY <1>1, <1>3, <1>4 DEF CallInit
  <2>2. SharedOK(Init(Shared, e, config[e], basePath))
    BY <1>1, <1>2, <2>1, InitTyped
  <2> QED
    BY <1>4, <2>2, BecomesTyped DEF CallInit
<1>5. ASSUME NEW file \in ScriptFiles, CallPreloadFile(e, file) PROVE SharedTyped'
  <2>1. file \in Files /\ FreeLoads(Shared.pre) # {}
    BY <1>2, <1>3, <1>5 DEF CallPreloadFile, ScriptsUseTheFiles
  <2>2. SharedOK(PreloadFile(Shared, config[e], file, None))
    BY <1>1, <1>2, <2>1, PreloadFileTyped
  <2> QED
    BY <1>5, <2>2, BecomesTyped DEF CallPreloadFile
<1>6. ASSUME NEW file \in ScriptFiles, CallPreloadBuffer(file) PROVE SharedTyped'
  <2> DEFINE entry == [path |-> file, file |-> file, length |-> BodyLength[file]]
  <2>1. entry \in PreloadedFiles
    BY PreloaderAssumption DEF PreloadedFiles, ScriptsUseTheFiles
  <2>2. PreOK(preloader) /\ DOMAIN preloader = PreloaderFields
        /\ preloader.preloadedFiles \in Seq(PreloadedFiles)
    BY <1>2 DEF SharedTyped, PreOK
  <2>3. preloader' = [preloader EXCEPT !.preloadedFiles = Append(@, entry)]
        /\ UNCHANGED <<frames, engine>>
    BY <1>6 DEF CallPreloadBuffer
  <2> HIDE DEF entry
  <2>4. /\ DOMAIN preloader' = PreloaderFields /\ preloader'.loads = preloader.loads
        /\ preloader'.loadingFiles = preloader.loadingFiles
        /\ preloader'.stats = preloader.stats
        /\ preloader'.preloadedFiles = Append(preloader.preloadedFiles, entry)
    BY <2>2, <2>3 DEF PreloaderFields
  <2>5. PreOK(preloader')
    BY <2>1, <2>2, <2>4, SamePreOK
  <2> QED
    BY <1>2, <2>3, <2>5 DEF SharedTyped
<1>7. ASSUME NEW file \in ScriptFiles, CallCopyToFS(e, file) PROVE SharedTyped'
  <2> DEFINE i == rtenv[e]
             entry == [path |-> file, file |-> file, length |-> BodyLength[file]]
             files == Module(i).fs \cup {entry}
             m == [Module(i) EXCEPT !.fs = files]
  <2>1. i # None /\ i \in Inits /\ UNCHANGED <<preloader, frames>>
    BY <1>7 DEF CallCopyToFS, PageInv, RtenvOwned
  <2>2. ModuleTyped(Module(i)) /\ DOMAIN engine.inits = Inits
    BY <1>2, <2>1 DEF SharedTyped, EngineOK, Module
  <2>3. entry \in PreloadedFiles
    BY PreloaderAssumption DEF PreloadedFiles, ScriptsUseTheFiles
  <2>4. /\ engine'.inits = [engine.inits EXCEPT ![i] = m]
        /\ engine'.loadPromise = engine.loadPromise
        /\ engine'.initPromise = engine.initPromise /\ DOMAIN engine' = EngineFields
    BY <1>2, <1>7, <2>1, <2>2 DEF CallCopyToFS, Module, EngineFields
  <2> HIDE DEF entry
  <2>5. ModuleTyped(m)
    BY <2>2, <2>3 DEF ModuleTyped, NoInit
  <2> HIDE DEF i, m
  <2>6. EngineOK(engine')
    BY <1>2, <2>1, <2>4, <2>5, ModuleTypeMoves
  <2> QED
    BY <1>2, <2>1, <2>6 DEF SharedTyped
<1>8. CASE CallLoad(e)
  <2>1. FreeLoads(preloader) # {}
    BY <1>3, <1>8 DEF CallLoad
  <2>2. SharedOK(Load(Shared, config[e].executable, 0))
    BY <1>1, <1>2, <2>1, LoadTyped
  <2> QED
    BY <1>8, <2>2, BecomesTyped DEF CallLoad
<1>9. CASE CallUnload
  <2>1. engine' = [engine EXCEPT !.loadPromise = None] /\ UNCHANGED <<preloader, frames>>
    BY <1>9 DEF CallUnload, Become, Unload, Shared
  <2>2. /\ DOMAIN engine' = EngineFields /\ engine'.inits = engine.inits
        /\ engine'.loadPromise = None /\ engine'.initPromise = engine.initPromise
    BY <1>2, <2>1 DEF EngineFields
  <2>3. EngineOK(engine')
    BY <1>2, <2>2 DEF SharedTyped, EngineOK
  <2> QED
    BY <1>2, <2>1, <2>3 DEF SharedTyped
<1> QED
  BY <1>4, <1>5, <1>6, <1>7, <1>8, <1>9

LEMMA AnyCallTyped ==
  ASSUME ScriptsUseTheFiles, PageInv, TypesInv, NEW e \in Engines, AnyCall(e)
  PROVE  SharedTyped' /\ ConfigsOK' /\ CallsPlaced'
<1>1. CASE StartGame(e, <<>>)
  BY <1>1, StartGameTyped
<1>2. CASE \E override \in Overrides : Start(e, override)
  BY <1>2, StartTyped
<1>3. CASE \/ \E basePath \in {None, config[e].executable} : CallInit(e, basePath)
           \/ \E file \in ScriptFiles :
                CallPreloadFile(e, file) \/ CallPreloadBuffer(file) \/ CallCopyToFS(e, file)
           \/ CallLoad(e)
           \/ CallUnload
  <2>1. SharedTyped'
    BY <1>3, OtherCallTyped
  <2>2. UNCHANGED <<config, calls>>
    BY <1>3 DEF CallInit, CallPreloadFile, CallPreloadBuffer, CallCopyToFS, CallLoad,
                CallUnload
  <2> QED
    BY <2>1, <2>2 DEF TypesInv, ConfigsOK, CallsPlaced
<1> QED
  BY <1>1, <1>2, <1>3 DEF AnyCall

LEMMA InitTypes == PageInit => TypesInv
<1> SUFFICES ASSUME PageInit PROVE TypesInv
  OBVIOUS
<1>1. LoadOK(NoLoad)
  BY PreloaderAssumption DEF LoadOK, NoLoad, LoadPlaces
<1>2. NoStat \in StatType
  BY DEF NoStat, StatType
<1>3. PreOK(preloader) /\ frames \in Nat
  <2>1. /\ DOMAIN preloader = PreloaderFields
        /\ preloader.loads = [l \in Loads |-> NoLoad]
        /\ preloader.loadingFiles = [f \in Files |-> None]
        /\ preloader.stats = [s \in Stats |-> NoStat]
        /\ preloader.preloadedFiles = <<>> /\ frames = 0
    BY DEF PageInit, EngineInit, PreloaderInit, PreloaderFields
  <2>2. NoLoad.at = "free"
    BY DEF NoLoad
  <2>3. <<>> \in Seq(PreloadedFiles)
    OBVIOUS
  <2> QED
    BY <1>1, <1>2, <2>1, <2>2, <2>3 DEF PreOK
<1>4. EngineOK(engine)
  <2>1. ModuleTyped(NoInit)
    BY DEF ModuleTyped, NoInit, ModulePlaces
  <2>2. /\ DOMAIN engine = EngineFields /\ engine.loadPromise = None
        /\ engine.initPromise = None /\ engine.inits = [i \in Inits |-> NoInit]
    BY DEF PageInit, EngineInit, EngineFields
  <2> QED
    BY <2>1, <2>2 DEF EngineOK
<1>5. FilesOf(Configuration)
  BY DEF FilesOf, Named, Configuration, NewConfig, Update, Name
<1>6. ConfigsOK
  BY <1>5 DEF PageInit, EngineInit, ConfigsOK, Configuration
<1>7. CallsPlaced
  BY DEF PageInit, EngineInit, CallsPlaced, NoCall, CallPlaces
<1> QED
  BY <1>3, <1>4, <1>6, <1>7 DEF PageInit, TypesInv, SharedTyped

LEMMA NextTypes == ScriptsUseTheFiles /\ PageInv /\ TypesInv /\ [Next]_vars => TypesInv'
<1> SUFFICES ASSUME ScriptsUseTheFiles, PageInv, TypesInv, [Next]_vars PROVE TypesInv'
  OBVIOUS
<1>1. statusMode' \in {"", "progress", "notice", "hidden"}
  BY DEF TypesInv, Next, OpenPage, GameStarted, GameFailed, OtherCall, SetStatusMode,
         DisplayFailureNotice, vars, pageVars
<1>2. CASE UNCHANGED <<preloader, frames, engine, config, calls>>
  BY <1>1, <1>2 DEF TypesInv, SharedTyped, ConfigsOK, CallsPlaced
<1>3. CASE OpenPage
  <2>1. CASE StartGame(ThePage, [onProgress |-> "statusProgress"])
    <3>1. DOMAIN [onProgress |-> "statusProgress"] \cap FileOptions = {}
      BY DEF FileOptions
    <3> QED
      BY <1>1, <2>1, <3>1, PageAssumption, StartGameTyped DEF TypesInv
  <2> QED
    BY <1>2, <1>3, <2>1 DEF OpenPage, engineVars
<1>4. CASE GameStarted \/ GameFailed \/ UNCHANGED vars
  BY <1>2, <1>4 DEF GameStarted, GameFailed, vars, engineVars
<1>5. CASE OtherCall
  BY <1>1, <1>5, AnyCallTyped DEF OtherCall, TypesInv
<1>6. CASE EngineStep
  BY <1>1, <1>6, EngineStepTyped DEF TypesInv
<1> QED
  BY <1>3, <1>4, <1>5, <1>6 DEF Next

LEMMA TypesAreTypes == PageInv /\ TypesInv => TypeOK
<1> SUFFICES ASSUME PageInv, TypesInv PROVE TypeOK
  OBVIOUS
<1>1. \A l \in Loads :
        LET load == preloader.loads[l] IN
        /\ load.at \in {"free", "fetch", "body", "lost", "timer", "closed", "kept",
                        "rejected"}
        /\ load.attempts \in 0..DOWNLOAD_ATTEMPTS_MAX
        /\ load.at # "free" => load.file \in Files /\ load.got \in 0..BodyLength[load.file]
        /\ load.stat \in Stats \cup {None} /\ (load.stat # None <=> load.at = "body")
  BY DEF TypesInv, SharedTyped, PreOK, LoadOK, LoadPlaces
<1>2. /\ preloader.loadingFiles \in [Files -> Stats \cup {None}]
      /\ preloader.stats \in [Stats -> [total : Nat, loaded : Nat, done : BOOLEAN]]
      /\ preloader.preloadedFiles \in Seq(PreloadedFiles) /\ frames \in Nat
  BY DEF TypesInv, SharedTyped, PreOK, StatType
<1>3. /\ engine.loadPromise \in Loads \cup {None} /\ engine.initPromise \in Inits \cup {None}
      /\ \A i \in Inits :
           /\ Module(i).at \in {"free", "load", "compile", "initFS", "done", "hung",
                                "rejected"}
           /\ Module(i).fs \subseteq PreloadedFiles
  BY DEF TypesInv, SharedTyped, EngineOK, ModuleTyped, ModulePlaces, Module
<1>4. rtenv \in [Engines -> Inits \cup {None}]
  BY DEF PageInv, RtenvOwned
<1> QED
  BY <1>1, <1>2, <1>3, <1>4 DEF TypeOK, TypesInv, CallsPlaced, CallPlaces

\* Preloader and Engine: every variable keeps its type, as long as scripts start
\* the engine on the files of the export.  A download in its body has a status to
\* count into, whatever other download has taken the file over; no more is received
\* of a file than it has, and nothing but received files gets into a file system.
THEOREM PageTypeOK ==
  ASSUME ScriptsUseTheFiles
  PROVE  Spec => []TypeOK
  BY InitTypes, NextTypes, TypesAreTypes, PageInvariant, PTL DEF Spec
=============================================================================
