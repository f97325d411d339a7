-------------------------- MODULE PageAlone_proof --------------------------
(***************************************************************************)
(* The game that the page starts by itself: as long as no other script     *)
(* uses the Engine, it runs once, with its whole pack, and the bar tells   *)
(* how far its downloads are, for any sizes of the files and whatever      *)
(* downloads fail and are tried again.                                     *)
(***************************************************************************)
EXTENDS PageProperties_proof, SequenceTheorems

Engine_wasm == Wasm(Configuration.executable)

ThePack == PackOf(Configuration)

WholePack == [path |-> ThePack, file |-> ThePack, length |-> BodyLength[ThePack]]

-----------------------------------------------------------------------------
(* The two downloads of the page *)

\* The pack is counted into a status of its own, which says done only when the
\* whole pack has come.
PackOK(p, pack) ==
    LET load == p.loads[pack] IN
    /\ load.file = ThePack /\ ~load.raw /\ load.dest = ThePack
    /\ load.at \in {"fetch", "body"} =>
         p.loadingFiles[ThePack] \in Stats /\ ~p.stats[p.loadingFiles[ThePack]].done
    /\ load.at = "body" => load.stat = p.loadingFiles[ThePack]
    /\ load.at \in {"closed", "kept"} => load.got = BodyLength[ThePack]
    /\ load.at # "kept" => p.preloadedFiles = <<>>

WasmOK(p, wasm) ==
    LET load == p.loads[wasm] IN
    /\ load.file = Engine_wasm /\ load.raw
    /\ load.at \in {"fetch", "body"} => p.loadingFiles[Engine_wasm] \in Stats
    /\ load.at = "body" => load.stat = p.loadingFiles[Engine_wasm]

Downloading(p, wasm, pack) ==
    /\ PreloaderShape(p)
    /\ wasm \in Loads /\ pack \in Loads /\ wasm # pack
    /\ \A l \in Loads \ {wasm, pack} : p.loads[l].at = "free"
    /\ WasmOK(p, wasm) /\ PackOK(p, pack)
    /\ p.loadingFiles[Engine_wasm] # p.loadingFiles[ThePack]

-----------------------------------------------------------------------------
(* What the network does to them *)

\* One download changes, to a place where no status is looked at.
LEMMA LoadMoves ==
  ASSUME NEW p, NEW wasm, NEW pack, Downloading(p, wasm, pack), NEW l \in {wasm, pack},
         NEW q, NEW load,
         DOMAIN q = PreloaderFields, q.loads = [p.loads EXCEPT ![l] = load],
         q.loadingFiles = p.loadingFiles, q.stats = p.stats,
         q.preloadedFiles = p.preloadedFiles,
         DOMAIN load = DOMAIN NoLoad, load.file = p.loads[l].file,
         load.raw = p.loads[l].raw, load.dest = p.loads[l].dest,
         \/ load.at \in {"timer", "lost", "rejected"}
         \/ load.at = "closed" /\ l = wasm
         \/ load.at = "body" /\ p.loads[l].at = "fetch"
              /\ load.stat = p.loadingFiles[load.file],
         p.loads[l].at # "kept"
  PROVE  Downloading(q, wasm, pack)
<1> USE DEF Downloading
<1>1. /\ DOMAIN q.loads = Loads /\ q.loads[l] = load
      /\ \A k \in Loads \ {l} : q.loads[k] = p.loads[k]
  BY DEF PreloaderShape
<1>2. PreloaderShape(q)
  BY <1>1 DEF PreloaderShape
<1>3. WasmOK(q, wasm)
  BY <1>1 DEF WasmOK
<1>4. PackOK(q, pack)
  BY <1>1 DEF PackOK
<1> QED
  BY <1>1, <1>2, <1>3, <1>4

LEMMA RespondDownloading ==
  ASSUME NEW wasm, NEW pack, Downloading(preloader, wasm, pack), NEW l \in {wasm, pack},
         Respond(l)
  PROVE  Downloading(preloader', wasm, pack)
<1> DEFINE load == [preloader.loads[l] EXCEPT !.at = "body", !.attempts = 0,
                      !.stat = preloader.loadingFiles[preloader.loads[l].file]]
<1>1. DOMAIN preloader = PreloaderFields /\ DOMAIN preloader.loads = Loads /\ l \in Loads
      /\ DOMAIN preloader.loads[l] = DOMAIN NoLoad /\ preloader.loads[l].at = "fetch"
  BY DEF Downloading, PreloaderShape, Respond
<1>2. /\ DOMAIN preloader' = PreloaderFields
      /\ preloader'.loads = [preloader.loads EXCEPT ![l] = load]
      /\ preloader'.loadingFiles = preloader.loadingFiles
      /\ preloader'.stats = preloader.stats
      /\ preloader'.preloadedFiles = preloader.preloadedFiles
  BY <1>1 DEF Respond, PreloaderFields
<1>3. /\ DOMAIN load = DOMAIN NoLoad /\ load.at = "body"
      /\ load.file = preloader.loads[l].file /\ load.raw = preloader.loads[l].raw
      /\ load.dest = preloader.loads[l].dest
      /\ load.stat = preloader.loadingFiles[load.file]
  BY <1>1 DEF NoLoad
<1> HIDE DEF load
<1> QED
  BY <1>1, <1>2, <1>3, LoadMoves

LEMMA FetchFailsDownloading ==
  ASSUME NEW wasm, NEW pack, Downloading(preloader, wasm, pack), NEW l \in {wasm, pack},
         FetchFails(l)
  PROVE  Downloading(preloader', wasm, pack)
<1> DEFINE load == IF preloader.loads[l].attempts <= 1
                   THEN [preloader.loads[l] EXCEPT !.at = "rejected"]
                   ELSE [preloader.loads[l] EXCEPT !.at = "timer", !.attempts = @ - 1]
<1>1. DOMAIN preloader = PreloaderFields /\ DOMAIN preloader.loads = Loads /\ l \in Loads
      /\ DOMAIN preloader.loads[l] = DOMAIN NoLoad /\ preloader.loads[l].at = "fetch"
  BY DEF Downloading, PreloaderShape, FetchFails
<1>2. /\ DOMAIN preloader' = PreloaderFields
      /\ preloader'.loads = [preloader.loads EXCEPT ![l] = load]
      /\ preloader'.loadingFiles = preloader.loadingFiles
      /\ preloader'.stats = preloader.stats
      /\ preloader'.preloadedFiles = preloader.preloadedFiles
  BY <1>1 DEF FetchFails, PreloaderFields
<1>3. /\ DOMAIN load = DOMAIN NoLoad /\ load.at \in {"timer", "rejected"}
      /\ load.file = preloader.loads[l].file /\ load.raw = preloader.loads[l].raw
      /\ load.dest = preloader.loads[l].dest
  BY <1>1 DEF NoLoad
<1> HIDE DEF load
<1> QED
  BY <1>1, <1>2, <1>3, LoadMoves

LEMMA ReadFailsDownloading ==
  ASSUME NEW wasm, NEW pack, Downloading(preloader, wasm, pack), NEW l \in {wasm, pack},
         ReadFails(l)
  PROVE  Downloading(preloader', wasm, pack)
<1> DEFINE load == [preloader.loads[l] EXCEPT !.at = "lost", !.stat = None]
<1>1. DOMAIN preloader = PreloaderFields /\ DOMAIN preloader.loads = Loads /\ l \in Loads
      /\ DOMAIN preloader.loads[l] = DOMAIN NoLoad /\ preloader.loads[l].at = "body"
  BY DEF Downloading, PreloaderShape, ReadFails
<1>2. /\ DOMAIN preloader' = PreloaderFields
      /\ preloader'.loads = [preloader.loads EXCEPT ![l] = load]
      /\ preloader'.loadingFiles = preloader.loadingFiles
      /\ preloader'.stats = preloader.stats
      /\ preloader'.preloadedFiles = preloader.preloadedFiles
  BY <1>1 DEF ReadFails, PreloaderFields
<1>3. /\ DOMAIN load = DOMAIN NoLoad /\ load.at = "lost"
      /\ load.file = preloader.loads[l].file /\ load.raw = preloader.loads[l].raw
      /\ load.dest = preloader.loads[l].dest
  BY <1>1 DEF NoLoad
<1> HIDE DEF load
<1> QED
  BY <1>1, <1>2, <1>3, LoadMoves

\* A new attempt counts into a new status.
LEMMA RetryDownloading ==
  ASSUME NEW wasm, NEW pack, Downloading(preloader, wasm, pack), NEW l \in {wasm, pack},
         Retry(l)
  PROVE  Downloading(preloader', wasm, pack)
<1> DEFINE load == [preloader.loads[l] EXCEPT !.at = "fetch", !.stat = None]
           file == preloader.loads[l].file
           s == FreshStat(preloader)
           stat == [NoStat EXCEPT !.total = preloader.loads[l].size]
<1>1. /\ PreloaderShape(preloader) /\ l \in Loads /\ file \in {Engine_wasm, ThePack}
      /\ preloader.loads[l].at = "timer" /\ DOMAIN preloader.loads[l] = DOMAIN NoLoad
      /\ file \in Files
  BY PageAssumption
  DEF Downloading, PreloaderShape, WasmOK, PackOK, Retry, Engine_wasm, ThePack
<1>2. s \in Stats /\ \A f \in Files : s # preloader.loadingFiles[f]
  BY FreshStatExists DEF UsedStats
<1>3. /\ PreloaderShape(preloader')
      /\ preloader'.loads = [preloader.loads EXCEPT ![l] = load]
      /\ preloader'.loadingFiles = [preloader.loadingFiles EXCEPT ![file] = s]
      /\ preloader'.stats = [preloader.stats EXCEPT ![s] = stat]
      /\ preloader'.preloadedFiles = preloader.preloadedFiles
  BY <1>1, LoadFetchResult DEF Retry
<1>4. /\ DOMAIN load = DOMAIN NoLoad /\ load.at = "fetch"
      /\ load.file = preloader.loads[l].file /\ load.raw = preloader.loads[l].raw
      /\ load.dest = preloader.loads[l].dest
  BY <1>1 DEF NoLoad
<1>5. ~stat.done
  BY DEF NoStat
<1>6. Engine_wasm # ThePack /\ Engine_wasm \in Files /\ ThePack \in Files
  BY PageAssumption DEF Engine_wasm, ThePack
<1>7. /\ preloader'.loads[l] = load
      /\ \A k \in Loads \ {l} : preloader'.loads[k] = preloader.loads[k]
      /\ preloader'.loadingFiles[file] = s
      /\ \A f \in Files \ {file} : preloader'.loadingFiles[f] = preloader.loadingFiles[f]
      /\ preloader'.stats[s] = stat
      /\ \A x \in Stats \ {s} : preloader'.stats[x] = preloader.stats[x]
  BY <1>1, <1>2, <1>3 DEF PreloaderShape
<1> HIDE DEF load, file, s, stat
<1> USE DEF Downloading
<1>8. CASE l = wasm
  <2>1. file = Engine_wasm
    BY <1>8 DEF WasmOK, file
  <2>2. WasmOK(preloader', wasm)
    BY <1>2, <1>4, <1>7, <1>8, <2>1 DEF WasmOK
  <2>3. PackOK(preloader', pack)
    BY <1>2, <1>3, <1>6, <1>7, <1>8, <2>1 DEF PackOK
  <2> QED
    BY <1>2, <1>3, <1>6, <1>7, <1>8, <2>1, <2>2, <2>3
<1>9. CASE l = pack
  <2>1. file = ThePack
    BY <1>9 DEF PackOK, file
  <2>2. WasmOK(preloader', wasm)
    BY <1>2, <1>6, <1>7, <1>9, <2>1 DEF WasmOK
  <2>3. PackOK(preloader', pack)
    BY <1>1, <1>2, <1>3, <1>4, <1>5, <1>6, <1>7, <1>9, <2>1 DEF PackOK
  <2> QED
    BY <1>2, <1>3, <1>6, <1>7, <1>9, <2>1, <2>2, <2>3
<1> QED
  BY <1>8, <1>9

\* One download is counted, or has come to its end.
LEMMA StatusMoves ==
  ASSUME NEW p, NEW wasm, NEW pack, Downloading(p, wasm, pack), NEW l \in {wasm, pack},
         p.loads[l].at = "body", NEW s, p.loads[l].stat = s, NEW q, NEW load, NEW stat,
         DOMAIN q = PreloaderFields, q.loads = [p.loads EXCEPT ![l] = load],
         q.loadingFiles = p.loadingFiles,
         q.stats = [p.stats EXCEPT ![s] = stat],
         q.preloadedFiles = p.preloadedFiles,
         DOMAIN load = DOMAIN NoLoad, load.file = p.loads[l].file,
         load.raw = p.loads[l].raw, load.dest = p.loads[l].dest,
         DOMAIN stat = DOMAIN NoStat,
         \/ load.at = "body" /\ load.stat = s /\ stat.done = p.stats[s].done
         \/ load.at = "closed" /\ (l = pack => load.got = BodyLength[ThePack])
  PROVE  Downloading(q, wasm, pack)
<1> USE DEF Downloading
<1>1. s \in Stats /\ (l = wasm => s # p.loadingFiles[ThePack])
      /\ (l = pack => s = p.loadingFiles[ThePack])
  BY DEF WasmOK, PackOK
<1>2. /\ q.loads[l] = load /\ \A k \in Loads \ {l} : q.loads[k] = p.loads[k]
      /\ q.stats[s] = stat /\ \A x \in Stats \ {s} : q.stats[x] = p.stats[x]
  BY <1>1 DEF PreloaderShape
<1>3. PreloaderShape(q)
  BY <1>2 DEF PreloaderShape
<1>4. WasmOK(q, wasm)
  BY <1>2 DEF WasmOK
<1>5. PackOK(q, pack)
  <2>1. CASE l = wasm
    BY <1>1, <1>2, <2>1 DEF PackOK
  <2>2. CASE l = pack
    BY <1>1, <1>2, <2>2 DEF PackOK
  <2> QED
    BY <2>1, <2>2
<1> QED
  BY <1>2, <1>3, <1>4, <1>5

LEMMA ReadChunkDownloading ==
  ASSUME NEW wasm, NEW pack, Downloading(preloader, wasm, pack), NEW l \in {wasm, pack},
         ReadChunk(l)
  PROVE  Downloading(preloader', wasm, pack)
<1> DEFINE s == preloader.loads[l].stat
           closed == [preloader.loads[l] EXCEPT !.at = "closed", !.stat = None]
           load == [preloader.loads[l] EXCEPT !.got = @ + 1]
           stat == [preloader.stats[s] EXCEPT !.loaded = @ + 1]
<1>1. /\ DOMAIN preloader = PreloaderFields /\ DOMAIN preloader.loads = Loads /\ l \in Loads
      /\ DOMAIN preloader.stats = Stats /\ s \in Stats /\ preloader.loads[l].stat = s
      /\ DOMAIN preloader.loads[l] = DOMAIN NoLoad /\ preloader.loads[l].at = "body"
      /\ DOMAIN preloader.stats[s] = DOMAIN NoStat
  BY DEF Downloading, PreloaderShape, WasmOK, PackOK, ReadChunk
<1>2. CASE Status(l).done
  <2>1. l = wasm
    BY <1>1, <1>2 DEF Downloading, PackOK, Status
  <2>2. /\ DOMAIN preloader' = PreloaderFields
        /\ preloader'.loads = [preloader.loads EXCEPT ![l] = closed]
        /\ preloader'.loadingFiles = preloader.loadingFiles
        /\ preloader'.stats = preloader.stats
        /\ preloader'.preloadedFiles = preloader.preloadedFiles
    BY <1>1, <1>2 DEF ReadChunk, PreloaderFields
  <2>3. /\ DOMAIN closed = DOMAIN NoLoad /\ closed.at = "closed"
        /\ closed.file = preloader.loads[l].file /\ closed.raw = preloader.loads[l].raw
        /\ closed.dest = preloader.loads[l].dest
    BY <1>1 DEF NoLoad
  <2> HIDE DEF closed
  <2> QED
    BY <1>1, <2>1, <2>2, <2>3, LoadMoves
<1>3. CASE ~Status(l).done
  <2>1. /\ DOMAIN preloader' = PreloaderFields
        /\ preloader'.loads = [preloader.loads EXCEPT ![l] = load]
        /\ preloader'.loadingFiles = preloader.loadingFiles
        /\ preloader'.stats = [preloader.stats EXCEPT ![s] = stat]
        /\ preloader'.preloadedFiles = preloader.preloadedFiles
    BY <1>1, <1>3 DEF ReadChunk, PreloaderFields
  <2>2. /\ DOMAIN load = DOMAIN NoLoad /\ load.at = "body" /\ load.stat = s
        /\ load.file = preloader.loads[l].file /\ load.raw = preloader.loads[l].raw
        /\ load.dest = preloader.loads[l].dest
        /\ DOMAIN stat = DOMAIN NoStat /\ stat.done = preloader.stats[s].done
    BY <1>1 DEF NoLoad, NoStat
  <2>3. \/ load.at = "body" /\ load.stat = s /\ stat.done = preloader.stats[s].done
        \/ load.at = "closed" /\ (l = pack => load.got = BodyLength[ThePack])
    BY <2>2
  <2> HIDE DEF load, stat, s, closed
  <2> QED
    BY <1>1, <2>1, <2>2, <2>3, StatusMoves, SMTT(30)
<1> QED
  BY <1>2, <1>3

LEMMA ReadEndDownloading ==
  ASSUME NEW wasm, NEW pack, Downloading(preloader, wasm, pack), NEW l \in {wasm, pack},
         ReadEnd(l)
  PROVE  Downloading(preloader', wasm, pack)
<1> DEFINE s == preloader.loads[l].stat
           load == [preloader.loads[l] EXCEPT !.at = "closed", !.stat = None]
           stat == [preloader.stats[s] EXCEPT !.done = TRUE]
<1>1. /\ DOMAIN preloader = PreloaderFields /\ DOMAIN preloader.loads = Loads /\ l \in Loads
      /\ DOMAIN preloader.stats = Stats /\ s \in Stats /\ preloader.loads[l].stat = s
      /\ DOMAIN preloader.loads[l] = DOMAIN NoLoad /\ preloader.loads[l].at = "body"
      /\ DOMAIN preloader.stats[s] = DOMAIN NoStat
      /\ (l = pack => preloader.loads[l].got = BodyLength[ThePack])
  BY DEF Downloading, PreloaderShape, WasmOK, PackOK, ReadEnd
<1>2. /\ DOMAIN preloader' = PreloaderFields
      /\ preloader'.loads = [preloader.loads EXCEPT ![l] = load]
      /\ preloader'.loadingFiles = preloader.loadingFiles
      /\ preloader'.stats = [preloader.stats EXCEPT ![s] = stat]
      /\ preloader'.preloadedFiles = preloader.preloadedFiles
  BY <1>1 DEF ReadEnd, PreloaderFields
<1>3. /\ DOMAIN load = DOMAIN NoLoad /\ load.at = "closed"
      /\ load.file = preloader.loads[l].file /\ load.raw = preloader.loads[l].raw
      /\ load.dest = preloader.loads[l].dest /\ load.got = preloader.loads[l].got
      /\ DOMAIN stat = DOMAIN NoStat
  BY <1>1 DEF NoLoad, NoStat
<1> HIDE DEF load, stat, s
<1> QED
  BY <1>1, <1>2, <1>3, StatusMoves

\* Once the pack is kept, it is the one file that is preloaded, until it is copied.
KeptPack(p, pack) == p.loads[pack].at = "kept" => p.preloadedFiles = <<WholePack>>

LEMMA KeepPreloadedDownloading ==
  ASSUME NEW wasm, NEW pack, Downloading(preloader, wasm, pack), NEW l \in {wasm, pack},
         KeepPreloaded(l)
  PROVE  /\ Downloading(preloader', wasm, pack) /\ KeptPack(preloader', pack)
         /\ preloader.loads[pack].at # "kept" /\ preloader'.loads[pack].at = "kept"
<1> USE DEF Downloading
<1> DEFINE load == [preloader.loads[l] EXCEPT !.at = "kept"]
<1>1. /\ l = pack /\ DOMAIN preloader = PreloaderFields /\ DOMAIN preloader.loads = Loads
      /\ DOMAIN preloader.loads[l] = DOMAIN NoLoad /\ preloader.loads[l].at = "closed"
      /\ preloader.preloadedFiles = <<>>
  BY DEF PreloaderShape, WasmOK, PackOK, KeepPreloaded
<1>2. /\ DOMAIN preloader' = PreloaderFields
      /\ preloader'.loads = [preloader.loads EXCEPT ![l] = load]
      /\ preloader'.loadingFiles = preloader.loadingFiles
      /\ preloader'.stats = preloader.stats
      /\ preloader'.preloadedFiles = <<WholePack>>
  BY <1>1 DEF KeepPreloaded, PreloaderFields, WholePack, PackOK
<1>3. /\ DOMAIN load = DOMAIN NoLoad /\ load.at = "kept"
      /\ load.file = preloader.loads[l].file /\ load.raw = preloader.loads[l].raw
      /\ load.dest = preloader.loads[l].dest /\ load.got = preloader.loads[l].got
  BY <1>1 DEF NoLoad
<1> HIDE DEF load
<1>4. preloader'.loads[l] = load /\ \A k \in Loads \ {l} : preloader'.loads[k] = preloader.loads[k]
  BY <1>1, <1>2
<1>5. PreloaderShape(preloader')
  BY <1>1, <1>2, <1>3, <1>4 DEF PreloaderShape
<1>6. WasmOK(preloader', wasm)
  BY <1>1, <1>2, <1>4 DEF WasmOK
<1>7. PackOK(preloader', pack)
  BY <1>1, <1>2, <1>3, <1>4 DEF PackOK
<1> QED
  BY <1>1, <1>2, <1>3, <1>4, <1>5, <1>6, <1>7 DEF KeptPack

\* A download that is not kept leaves the other one, and what is kept.
LEMMA OthersStay ==
  ASSUME NEW wasm, NEW pack, Downloading(preloader, wasm, pack), NEW l \in {wasm, pack},
         Download(l), ~KeepPreloaded(l)
  PROVE  /\ preloader.loads[l].at # "kept" /\ preloader'.loads[l].at # "kept"
         /\ preloader'.preloadedFiles = preloader.preloadedFiles
         /\ \A k \in Loads \ {l} : preloader'.loads[k] = preloader.loads[k]
<1>1. /\ PreloaderShape(preloader) /\ l \in Loads /\ preloader.loads[l].file \in Files
      /\ DOMAIN preloader.loads = Loads /\ DOMAIN preloader = PreloaderFields
      /\ DOMAIN preloader.loads[l] = DOMAIN NoLoad
  BY PageAssumption
  DEF Downloading, PreloaderShape, WasmOK, PackOK, Engine_wasm, ThePack
<1>2. CASE Respond(l)
  BY <1>1, <1>2 DEF Respond, PreloaderFields, NoLoad
<1>3. CASE FetchFails(l)
  BY <1>1, <1>3 DEF FetchFails, PreloaderFields, NoLoad
<1>4. CASE Retry(l)
  <2> DEFINE load == [preloader.loads[l] EXCEPT !.at = "fetch", !.stat = None]
  <2>1. /\ preloader'.loads = [preloader.loads EXCEPT ![l] = load]
        /\ preloader'.preloadedFiles = preloader.preloadedFiles
        /\ preloader.loads[l].at = "timer"
    BY <1>1, <1>4, LoadFetchResult DEF Retry
  <2>2. load.at = "fetch"
    BY <1>1 DEF NoLoad
  <2> HIDE DEF load
  <2> QED
    BY <1>1, <2>1, <2>2
<1>5. CASE ReadChunk(l)
  BY <1>1, <1>5 DEF ReadChunk, PreloaderFields, NoLoad
<1>6. CASE ReadEnd(l)
  BY <1>1, <1>6 DEF ReadEnd, PreloaderFields, NoLoad
<1>7. CASE ReadFails(l)
  BY <1>1, <1>7 DEF ReadFails, PreloaderFields, NoLoad
<1> QED
  BY <1>2, <1>3, <1>4, <1>5, <1>6, <1>7 DEF Download

\* Whatever the network does, the pack is kept whole, and once.
LEMMA DownloadKeeps ==
  ASSUME NEW wasm, NEW pack, Downloading(preloader, wasm, pack), NEW l \in Loads,
         Download(l)
  PROVE  /\ Downloading(preloader', wasm, pack)
         /\ KeptPack(preloader, pack) => KeptPack(preloader', pack)
         /\ preloader.loads[pack].at = "kept" =>
              preloader'.loads[pack].at = "kept"
<1>1. l \in {wasm, pack}
  BY DEF Downloading, Download, Respond, FetchFails, Retry, ReadChunk, ReadEnd, ReadFails,
         KeepPreloaded
<1>2. CASE KeepPreloaded(l)
  BY <1>1, <1>2, KeepPreloadedDownloading
<1>3. CASE ~KeepPreloaded(l)
  <2>1. Downloading(preloader', wasm, pack)
    BY <1>1, <1>3, RespondDownloading, FetchFailsDownloading, RetryDownloading,
       ReadChunkDownloading, ReadEndDownloading, ReadFailsDownloading DEF Download
  <2>2. /\ preloader.loads[l].at # "kept" /\ preloader'.loads[l].at # "kept"
        /\ preloader'.preloadedFiles = preloader.preloadedFiles
        /\ \A k \in Loads \ {l} : preloader'.loads[k] = preloader.loads[k]
    BY <1>1, <1>3, OthersStay
  <2> QED
    BY <1>1, <2>1, <2>2 DEF KeptPack, Downloading
<1> QED
  BY <1>2, <1>3

LEMMA ReportKeeps ==
  ASSUME NEW wasm, NEW pack, Downloading(preloader, wasm, pack), Report
  PROVE  /\ Downloading(preloader', wasm, pack)
         /\ preloader'.loads = preloader.loads
         /\ preloader'.preloadedFiles = preloader.preloadedFiles
<1>1. /\ DOMAIN preloader' = PreloaderFields
      /\ preloader'.loads = preloader.loads
      /\ preloader'.loadingFiles = preloader.loadingFiles
      /\ preloader'.stats = preloader.stats
      /\ preloader'.preloadedFiles = preloader.preloadedFiles
  BY DEF Report, Downloading, PreloaderShape, PreloaderFields
<1> QED
  BY <1>1 DEF Downloading, PreloaderShape, WasmOK, PackOK

-----------------------------------------------------------------------------
(* The inductive invariant *)

TheCall == calls[pageCall]

TheModule == Module(TheCall.init)

\* There is one call, and it belongs to the page.
OneCall ==
    /\ pageCall \in Calls /\ TheCall.owner = ThePage /\ TheCall.init \in Inits
    /\ TheCall.at \in {"loading", "starting", "resolved", "rejected"}
    /\ \A c \in Calls \ {pageCall} : calls[c].at = "free"

\* There is one module, made for the page with the name of its program.
OneModule ==
    /\ TheModule.at \in {"load", "compile", "initFS", "done", "hung"}
    /\ TheModule.owner = ThePage
    /\ TheModule.at \in {"compile", "initFS", "done"} =>
         TheModule.program.thisProgram = Configuration.executable
    /\ \A i \in Inits \ {TheCall.init} : Module(i).at = "free"

\* The page's configuration names the same files all the time.
NamesItsFiles(conf) ==
    /\ DOMAIN conf = DOMAIN DefaultConfig
    /\ conf.executable = Configuration.executable /\ PackOf(conf) = ThePack

PageConfigured == DOMAIN config = Engines /\ NamesItsFiles(config[ThePage])

\* Until the call settles nothing has run, and the arguments are startGame's.
BeforeMain ==
    TheCall.at \in {"loading", "starting"} =>
        /\ engine.initPromise = TheCall.init /\ TheModule.mains = <<>>
        /\ config[ThePage].args = <<"--main-pack", ThePack>>
        /\ KeptPack(preloader, TheCall.load)
        /\ TheCall.at = "starting" => preloader.loads[TheCall.load].at = "kept"

GameRuns(m) ==
    /\ m.mains = << <<Configuration.executable, "--main-pack", ThePack>> >>
    /\ WholePack \in m.fs
    /\ m.options.canvas # None

AfterMain == TheModule.mains # <<>> => GameRuns(TheModule)

GameStarts ==
    /\ OneCall /\ OneModule /\ PageConfigured
    /\ Downloading(preloader, TheModule.load, TheCall.load)
    /\ BeforeMain /\ AfterMain

AloneInv ==
    /\ otherCalls \in Nat
    /\ statusMode = "" => pageCall = None
    /\ pageCall = None => EngineInit
    /\ Alone /\ pageCall # None => GameStarts

-----------------------------------------------------------------------------
(* The steps of the engine *)

LEMMA DownloadsGoOn ==
  ASSUME GameStarts, UNCHANGED pageCall, Downloads
  PROVE  GameStarts'
<1>1. PICK l \in Loads : Download(l)
  BY DEF Downloads
<1>2. UNCHANGED <<engine, config, calls>>
  BY DEF Downloads
<1>3. /\ Downloading(preloader', TheModule.load, TheCall.load)
      /\ KeptPack(preloader, TheCall.load) => KeptPack(preloader', TheCall.load)
      /\ preloader.loads[TheCall.load].at = "kept" =>
           preloader'.loads[TheCall.load].at = "kept"
  BY <1>1, DownloadKeeps DEF GameStarts
<1>4. UNCHANGED <<TheCall, TheModule>>
  BY <1>2 DEF TheCall, TheModule, Module
<1>5. OneCall' /\ OneModule' /\ PageConfigured' /\ AfterMain'
  BY <1>2, <1>4 DEF GameStarts, OneCall, OneModule, PageConfigured, AfterMain, Module
<1>6. BeforeMain'
  BY <1>2, <1>3, <1>4 DEF GameStarts, BeforeMain
<1> QED
  BY <1>3, <1>4, <1>5, <1>6 DEF GameStarts

\* The files that are kept stay; the engine's variables may be the old ones.
LEMMA FramesGoOn ==
  ASSUME GameStarts, UNCHANGED pageCall, Frames
  PROVE  GameStarts'
<1>1. Report /\ UNCHANGED <<engine, config, calls>>
  BY DEF Frames, AnimateProgress
<1>2. /\ Downloading(preloader', TheModule.load, TheCall.load)
      /\ preloader'.loads = preloader.loads
      /\ preloader'.preloadedFiles = preloader.preloadedFiles
  BY <1>1, ReportKeeps DEF GameStarts
<1>3. UNCHANGED <<TheCall, TheModule>>
  BY <1>1 DEF TheCall, TheModule, Module
<1>4. OneCall' /\ OneModule' /\ PageConfigured' /\ AfterMain'
  BY <1>1, <1>3 DEF GameStarts, OneCall, OneModule, PageConfigured, AfterMain, Module
<1>5. BeforeMain'
  BY <1>1, <1>2, <1>3 DEF GameStarts, BeforeMain, KeptPack
<1> QED
  BY <1>2, <1>3, <1>4, <1>5 DEF GameStarts

\* The module of the page goes on to its next state.
LEMMA ModuleMovesOn ==
  ASSUME PageInv, GameStarts, UNCHANGED <<pageCall, preloader, config, calls>>,
         NEW m, engine'.inits = [engine.inits EXCEPT ![TheCall.init] = m],
         engine'.initPromise = engine.initPromise,
         m.at \in {"compile", "initFS", "done", "hung"}, m.owner = ThePage,
         m.at # "hung" => m.program.thisProgram = Configuration.executable,
         m.load = TheModule.load, m.mains = TheModule.mains, m.fs = TheModule.fs,
         m.options = TheModule.options
  PROVE  GameStarts'
<1>1. /\ UNCHANGED TheCall /\ TheModule' = m
      /\ \A i \in Inits \ {TheCall.init} : Module(i)' = Module(i)
  BY DEF TheCall, TheModule, Module, PageInv, ModulesOK, GameStarts, OneCall
<1>2. OneCall' /\ OneModule' /\ PageConfigured'
  BY <1>1 DEF GameStarts, OneCall, OneModule, PageConfigured
<1>3. BeforeMain' /\ AfterMain'
  BY <1>1 DEF GameStarts, BeforeMain, AfterMain, GameRuns
<1> QED
  BY <1>1, <1>2, <1>3 DEF GameStarts

\* Only the module of the page is anything but free.
LEMMA ItsModule ==
  ASSUME PageInv, GameStarts, NEW i \in Inits, Module(i).at # "free"
  PROVE  /\ i = TheCall.init /\ Module(i) = TheModule
         /\ DOMAIN TheModule = DOMAIN NoInit /\ DOMAIN engine = EngineFields
         /\ DOMAIN engine.inits = Inits
  BY DEF PageInv, ModulesOK, ModuleOK, GameStarts, OneModule, TheModule

LEMMA InstantiateGoesOn ==
  ASSUME PageInv, GameStarts, UNCHANGED pageCall, NEW i \in Inits, Instantiate(i)
  PROVE  GameStarts'
<1> DEFINE program == ModuleConfig(config[Module(i).owner], engine.loadPath)
           m == [Module(i) EXCEPT !.at = "compile", !.program = program]
<1>1. /\ i = TheCall.init /\ Module(i) = TheModule /\ DOMAIN TheModule = DOMAIN NoInit
      /\ DOMAIN engine = EngineFields
  BY ItsModule DEF Instantiate
<1>2. program.thisProgram = Configuration.executable
  BY <1>1 DEF ModuleConfig, GameStarts, OneModule, PageConfigured, NamesItsFiles
<1> HIDE DEF program
<1>3. /\ engine'.inits = [engine.inits EXCEPT ![i] = m]
      /\ engine'.initPromise = engine.initPromise
      /\ UNCHANGED <<preloader, config, calls>>
  BY <1>1 DEF Instantiate, Module, EngineFields, program
<1>4. /\ m.at = "compile" /\ m.owner = TheModule.owner /\ m.program = program
      /\ m.load = TheModule.load /\ m.mains = TheModule.mains /\ m.fs = TheModule.fs
      /\ m.options = TheModule.options
  BY <1>1 DEF NoInit
<1> HIDE DEF m
<1> QED
  BY <1>1, <1>2, <1>3, <1>4, ModuleMovesOn DEF GameStarts, OneModule

LEMMA InstantiatedGoesOn ==
  ASSUME PageInv, GameStarts, UNCHANGED pageCall, NEW i \in Inits, Instantiated(i)
  PROVE  GameStarts'
<1>1. /\ i = TheCall.init /\ Module(i) = TheModule /\ DOMAIN TheModule = DOMAIN NoInit
      /\ DOMAIN engine = EngineFields /\ TheModule.at = "compile"
  BY ItsModule DEF Instantiated
<1>2. PICK at \in {"initFS", "hung"} : engine' = [engine EXCEPT !.inits[i].at = at]
  BY DEF Instantiated
<1> DEFINE m == [Module(i) EXCEPT !.at = at]
<1>3. /\ engine'.inits = [engine.inits EXCEPT ![i] = m]
      /\ engine'.initPromise = engine.initPromise
      /\ UNCHANGED <<preloader, config, calls>>
  BY <1>1, <1>2 DEF Instantiated, Module, EngineFields
<1>4. /\ m.at = at /\ m.owner = TheModule.owner /\ m.program = TheModule.program
      /\ m.load = TheModule.load /\ m.mains = TheModule.mains /\ m.fs = TheModule.fs
      /\ m.options = TheModule.options
  BY <1>1 DEF NoInit
<1> HIDE DEF m
<1> QED
  BY <1>1, <1>3, <1>4, ModuleMovesOn DEF GameStarts, OneModule

LEMMA InitFSDoneGoesOn ==
  ASSUME PageInv, GameStarts, UNCHANGED pageCall, NEW i \in Inits, InitFSDone(i)
  PROVE  GameStarts'
<1>1. /\ i = TheCall.init /\ Module(i) = TheModule /\ DOMAIN TheModule = DOMAIN NoInit
      /\ DOMAIN engine = EngineFields /\ TheModule.at = "initFS"
  BY ItsModule DEF InitFSDone
<1> DEFINE m == [Module(i) EXCEPT !.at = "done"]
<1>2. /\ engine'.inits = [engine.inits EXCEPT ![i] = m]
      /\ engine'.initPromise = engine.initPromise
      /\ UNCHANGED <<preloader, config, calls>>
  BY <1>1 DEF InitFSDone, Module, EngineFields
<1>3. /\ m.at = "done" /\ m.owner = TheModule.owner /\ m.program = TheModule.program
      /\ m.load = TheModule.load /\ m.mains = TheModule.mains /\ m.fs = TheModule.fs
      /\ m.options = TheModule.options
  BY <1>1 DEF NoInit
<1> HIDE DEF m
<1> QED
  BY <1>1, <1>2, <1>3, ModuleMovesOn DEF GameStarts, OneModule

LEMMA ExitGoesOn ==
  ASSUME PageInv, GameStarts, UNCHANGED pageCall, NEW i \in Inits, Exit(i)
  PROVE  GameStarts'
<1>1. Module(i).at = "done"
  BY DEF Exit, PageInv, ModulesOK, ModuleOK
<1>2. /\ i = TheCall.init /\ Module(i) = TheModule /\ DOMAIN TheModule = DOMAIN NoInit
      /\ DOMAIN engine = EngineFields
  BY <1>1, ItsModule
<1> DEFINE m == [Module(i) EXCEPT !.over = TRUE]
<1>3. /\ engine'.inits = [engine.inits EXCEPT ![i] = m]
      /\ engine'.initPromise = engine.initPromise
      /\ UNCHANGED <<preloader, config, calls>>
  BY <1>2 DEF Exit, Module, EngineFields
<1>4. /\ m.at = "done" /\ m.owner = TheModule.owner /\ m.program = TheModule.program
      /\ m.load = TheModule.load /\ m.mains = TheModule.mains /\ m.fs = TheModule.fs
      /\ m.options = TheModule.options
  BY <1>1, <1>2 DEF NoInit
<1> HIDE DEF m
<1> QED
  BY <1>1, <1>2, <1>3, <1>4, ModuleMovesOn DEF GameStarts, OneModule

\* The call of the page changes while the module does not.
LEMMA CallMovesOn ==
  ASSUME PageInv, GameStarts, NEW c \in Calls, c = pageCall, NEW call,
         UNCHANGED <<pageCall, preloader, engine, config>>,
         calls' = [calls EXCEPT ![c] = call],
         call.owner = TheCall.owner, call.init = TheCall.init, call.load = TheCall.load,
         \/ call.at \in {"resolved", "rejected"}
         \/ /\ call.at = "starting" /\ TheCall.at \in {"loading", "starting"}
            /\ preloader.loads[TheCall.load].at = "kept"
  PROVE  GameStarts'
<1>1. /\ TheCall' = call /\ \A k \in Calls \ {c} : calls'[k] = calls[k]
  BY DEF PageInv, CallsOK, TheCall
<1>2. UNCHANGED TheModule
  BY <1>1 DEF TheModule, Module
<1>3. OneCall' /\ OneModule' /\ PageConfigured'
  BY <1>1, <1>2 DEF GameStarts, OneCall, OneModule, PageConfigured, Module
<1>4. BeforeMain' /\ AfterMain'
  BY <1>1, <1>2 DEF GameStarts, BeforeMain, AfterMain
<1> QED
  BY <1>1, <1>2, <1>3, <1>4 DEF GameStarts

\* Only the call of the page is anything but free.
LEMMA ItsCall ==
  ASSUME PageInv, GameStarts, NEW c \in Calls, calls[c].at # "free"
  PROVE  c = pageCall /\ calls[c] = TheCall /\ DOMAIN TheCall = DOMAIN NoCall
  BY DEF PageInv, CallsOK, CallOK, GameStarts, OneCall, TheCall

\* init returns the promise there is.
LEMMA StartGameLoadedGoesOn ==
  ASSUME PageInv, GameStarts, UNCHANGED pageCall, NEW c \in Calls, StartGameLoaded(c)
  PROVE  GameStarts'
<1> DEFINE e == calls[c].owner
           s == Init(Shared, e, config[e], None)
           call == [calls[c] EXCEPT !.at = "starting", !.init = s.eng.initPromise]
<1>1. /\ c = pageCall /\ calls[c] = TheCall /\ DOMAIN TheCall = DOMAIN NoCall
      /\ TheCall.at = "loading" /\ preloader.loads[TheCall.load].at = "kept"
  BY ItsCall DEF StartGameLoaded
<1>2. engine.initPromise = TheCall.init /\ engine.initPromise # None
  BY <1>1, EngineAssumption DEF GameStarts, BeforeMain, OneCall
<1>3. Become(s) /\ UNCHANGED config /\ calls' = [calls EXCEPT ![c] = call]
  BY DEF StartGameLoaded
<1>4. s = Shared
  BY <1>2 DEF Init, Shared
<1> HIDE DEF s, e
<1>5. UNCHANGED <<preloader, engine>> /\ s.eng.initPromise = TheCall.init
  BY <1>2, <1>3, <1>4 DEF Become, Shared
<1>6. /\ call.at = "starting" /\ call.owner = TheCall.owner
      /\ call.init = TheCall.init /\ call.load = TheCall.load
  BY <1>1, <1>5 DEF NoCall
<1> HIDE DEF call
<1> QED
  BY <1>1, <1>3, <1>5, <1>6, CallMovesOn

LEMMA CallFailsGoesOn ==
  ASSUME PageInv, GameStarts, UNCHANGED pageCall, NEW c \in Calls,
         StartGameFails(c) \/ StartFails(c)
  PROVE  GameStarts'
<1> DEFINE call == [calls[c] EXCEPT !.at = "rejected"]
<1>1. c = pageCall /\ calls[c] = TheCall /\ DOMAIN TheCall = DOMAIN NoCall
  BY ItsCall DEF StartGameFails, StartFails
<1>2. UNCHANGED <<preloader, engine, config>> /\ calls' = [calls EXCEPT ![c] = call]
  BY DEF StartGameFails, StartFails
<1>3. /\ call.at = "rejected" /\ call.owner = TheCall.owner
      /\ call.init = TheCall.init /\ call.load = TheCall.load
  BY <1>1 DEF NoCall
<1> HIDE DEF call
<1> QED
  BY <1>1, <1>2, <1>3, CallMovesOn

\* The call of the page settles.
LEMMA CallSettlesOn ==
  ASSUME PageInv, GameStarts, UNCHANGED pageCall, NEW c \in Calls, c = pageCall,
         NEW at \in {"resolved", "rejected"}, calls' = [calls EXCEPT ![c].at = at],
         NEW m, engine'.inits = [engine.inits EXCEPT ![TheCall.init] = m],
         m.at = TheModule.at, m.owner = TheModule.owner, m.program = TheModule.program,
         m.load = TheModule.load, m.mains # <<>> => GameRuns(m),
         PageConfigured', Downloading(preloader', TheModule.load, TheCall.load)
  PROVE  GameStarts'
<1> DEFINE call == [calls[c] EXCEPT !.at = at]
<1>1. calls' = [calls EXCEPT ![c] = call] /\ calls[c] = TheCall
      /\ DOMAIN calls = Calls /\ DOMAIN TheCall = DOMAIN NoCall
  BY DEF PageInv, CallsOK, CallOK, TheCall
<1>2. call.at = at /\ call.owner = TheCall.owner /\ call.init = TheCall.init
      /\ call.load = TheCall.load
  BY <1>1 DEF NoCall
<1> HIDE DEF call
<1>3. /\ TheCall' = call /\ \A k \in Calls \ {c} : calls'[k] = calls[k]
  BY <1>1 DEF TheCall
<1>4. /\ TheModule' = m
      /\ \A i \in Inits \ {TheCall.init} : Module(i)' = Module(i)
  BY <1>2, <1>3 DEF TheModule, Module, PageInv, ModulesOK, GameStarts, OneCall
<1>5. OneCall' /\ OneModule'
  BY <1>2, <1>3, <1>4 DEF GameStarts, OneCall, OneModule
<1>6. BeforeMain' /\ AfterMain'
  BY <1>2, <1>3, <1>4 DEF BeforeMain, AfterMain, GameRuns
<1> QED
  BY <1>2, <1>3, <1>4, <1>5, <1>6 DEF GameStarts

LEMMA CanvasNamesItsFiles ==
  ASSUME NEW conf, NamesItsFiles(conf), NEW canvas
  PROVE  /\ NamesItsFiles(WithCanvas(conf, canvas))
         /\ WithCanvas(conf, canvas).args = conf.args
         /\ WithCanvas(conf, canvas).canvas = FindCanvas(conf, canvas)
<1> DEFINE found == FindCanvas(conf, canvas)
<1> HIDE DEF found
<1> QED
  BY DEF NamesItsFiles, WithCanvas, PackOf, DefaultConfig, found

LEMMA ArgumentsNameItsFiles ==
  ASSUME NEW conf, NamesItsFiles(conf), NEW arguments
  PROVE  NamesItsFiles([conf EXCEPT !.args = arguments])
  BY DEF NamesItsFiles, PackOf, DefaultConfig

\* The module that the page holds is its own.
LEMMA HeldIsItsModule ==
  ASSUME PageInv, GameStarts, rtenv[ThePage] # None
  PROVE  rtenv[ThePage] = TheCall.init /\ Module(rtenv[ThePage]) = TheModule
<1>1. rtenv[ThePage] \in Inits /\ Module(rtenv[ThePage]).at = "done"
  BY PageAssumption DEF PageInv, RtenvOwned, LiveIn
<1> QED
  BY <1>1, ItsModule

LEMMA RefusedGoesOn ==
  ASSUME PageInv, GameStarts, UNCHANGED pageCall, NEW c \in Calls, c = pageCall,
         TheCall.at = "starting", NEW canvas, StartRefused(ThePage, canvas),
         calls' = [calls EXCEPT ![c].at = "rejected"]
  PROVE  GameStarts'
<1> DEFINE call == [calls[c] EXCEPT !.at = "rejected"]
           m == Optioned(ThePage, canvas)
<1>1. CASE UNCHANGED <<preloader, engine, config>>
  <2>1. DOMAIN calls[c] = DOMAIN NoCall /\ calls[c] = TheCall
        /\ calls' = [calls EXCEPT ![c] = call]
    BY DEF PageInv, CallsOK, CallOK, TheCall
  <2>2. /\ call.at = "rejected" /\ call.owner = TheCall.owner
        /\ call.init = TheCall.init /\ call.load = TheCall.load
    BY <2>1 DEF NoCall
  <2> HIDE DEF call
  <2> QED
    BY <1>1, <2>1, <2>2, CallMovesOn
<1>2. CASE /\ rtenv[ThePage] # None /\ UNCHANGED preloader
           /\ engine' = Configured(ThePage, canvas).engine
           /\ config' = Configured(ThePage, canvas).config
  <2>1. rtenv[ThePage] = TheCall.init /\ Module(rtenv[ThePage]) = TheModule
        /\ DOMAIN TheModule = DOMAIN NoInit
    BY <1>2, HeldIsItsModule DEF GameStarts, OneCall, PageInv, ModulesOK, ModuleOK
  <2>2. engine'.inits = [engine.inits EXCEPT ![TheCall.init] = m]
    BY <1>2, <2>1, ConfiguredModule, PageAssumption
  <2>3. /\ m.at = TheModule.at /\ m.owner = TheModule.owner /\ m.program = TheModule.program
        /\ m.load = TheModule.load /\ m.mains = TheModule.mains
    BY <2>1 DEF Optioned, NoInit
  <2>4. m.mains = <<>>
    BY <2>3 DEF GameStarts, BeforeMain
  <2>5. config' = [config EXCEPT ![ThePage] = WithCanvas(config[ThePage], canvas)]
    BY <1>2 DEF Configured
  <2>6. PageConfigured'
    BY <2>5, CanvasNamesItsFiles, PageAssumption DEF GameStarts, PageConfigured
  <2>7. Downloading(preloader', TheModule.load, TheCall.load)
    BY <1>2 DEF GameStarts
  <2> HIDE DEF m
  <2> QED
    BY <2>2, <2>3, <2>4, <2>6, <2>7, CallSettlesOn
<1> QED
  BY <1>1, <1>2 DEF StartRefused

LEMMA ThreeArguments ==
  ASSUME NEW x, NEW y, NEW z
  PROVE  <<x>> \o <<y, z>> = <<x, y, z>>
<1> DEFINE S == {x, y, z}
           s == <<x>>
           t == <<y, z>>
           r == <<x, y, z>>
<1>1. s \in Seq(S) /\ t \in Seq(S) /\ Len(s) = 1 /\ Len(t) = 2
      /\ s[1] = x /\ t[1] = y /\ t[2] = z
  OBVIOUS
<1>2. r \in Seq(S) /\ Len(r) = 3 /\ r[1] = x /\ r[2] = y /\ r[3] = z
  OBVIOUS
<1> HIDE DEF S, s, t, r
<1>3. /\ s \o t \in Seq(S) /\ Len(s \o t) = 3
      /\ (s \o t)[1] = x /\ (s \o t)[2] = y /\ (s \o t)[3] = z
  BY <1>1, ConcatProperties
<1>4. \A k \in 1 .. Len(s \o t) : (s \o t)[k] = r[k]
  <2>1. \A k \in 1 .. 3 : k = 1 \/ k = 2 \/ k = 3
    OBVIOUS
  <2> QED
    BY <1>2, <1>3, <2>1
<1>5. s \o t = r
  BY <1>2, <1>3, <1>4, SeqEqual
<1> QED
  BY <1>5 DEF s, t, r

\* callMain: what is preloaded is copied, and the arguments are complete.
LEMMA RunsGoesOn ==
  ASSUME PageInv, GameStarts, UNCHANGED pageCall, NEW c \in Calls, c = pageCall,
         TheCall.at = "starting", NEW canvas, NEW returns,
         StartRuns(ThePage, canvas, returns),
         NEW at \in {"resolved", "rejected"}, calls' = [calls EXCEPT ![c].at = at]
  PROVE  GameStarts'
<1> DEFINE i == rtenv[ThePage]
           arguments == <<Module(i).program.thisProgram>> \o config[ThePage].args
           conf == Configured(ThePage, canvas).engine
           run == [conf EXCEPT !.inits[i].fs = @ \cup ToSet(preloader.preloadedFiles),
                               !.inits[i].mains = Append(@, arguments)]
           m == Optioned(ThePage, canvas)
           found == WithCanvas(config[ThePage], canvas)
<1>1. /\ i # None /\ FindCanvas(config[ThePage], canvas) # None
      /\ RunMain(ThePage, canvas, returns)
  BY DEF StartRuns
<1>2. i = TheCall.init /\ Module(i) = TheModule /\ i \in Inits
      /\ DOMAIN TheModule = DOMAIN NoInit /\ TheModule.at = "done"
  BY <1>1, HeldIsItsModule, PageAssumption
  DEF GameStarts, OneCall, PageInv, ModulesOK, ModuleOK, RtenvOwned, LiveIn
<1>3. arguments = <<Configuration.executable, "--main-pack", ThePack>>
  <2>1. /\ Module(i).program.thisProgram = Configuration.executable
        /\ config[ThePage].args = <<"--main-pack", ThePack>>
    BY <1>2 DEF GameStarts, OneModule, BeforeMain
  <2> QED
    BY <2>1, ThreeArguments
<1>4. ToSet(preloader.preloadedFiles) = {WholePack}
  BY DEF GameStarts, BeforeMain, KeptPack, ToSet
<1>5. engine' = run \/ engine' = [run EXCEPT !.initPromise = None]
  BY <1>1 DEF RunMain
<1>6. /\ DOMAIN conf = EngineFields
      /\ conf.inits = [engine.inits EXCEPT ![i] = m]
      /\ DOMAIN m = DOMAIN NoInit
      /\ DOMAIN engine.inits = Inits
  BY <1>1, ConfiguredModule, PageAssumption DEF PageInv, ModulesOK
<1>7. /\ m.at = TheModule.at /\ m.owner = TheModule.owner /\ m.program = TheModule.program
      /\ m.load = TheModule.load /\ m.mains = <<>>
      /\ m.options = GodotConfig(found, "en")
  BY <1>2 DEF Optioned, NoInit, GameStarts, BeforeMain
<1>8. m.options.canvas # None /\ NamesItsFiles(found)
  BY <1>1, <1>7, CanvasNamesItsFiles DEF GodotConfig, GameStarts, PageConfigured
<1>9. config' = [config EXCEPT ![ThePage] = [found EXCEPT !.args = arguments]]
  BY <1>1, PageAssumption DEF RunMain, Configured, GameStarts, PageConfigured
<1>10. PageConfigured'
  BY <1>8, <1>9, ArgumentsNameItsFiles, PageAssumption DEF GameStarts, PageConfigured
<1> HIDE DEF m, conf, arguments
<1> DEFINE files == m.fs \cup ToSet(preloader.preloadedFiles)
           mains == Append(m.mains, arguments)
           ran == [m EXCEPT !.fs = files, !.mains = mains]
<1>11. /\ DOMAIN run = EngineFields
       /\ run.inits = [engine.inits EXCEPT ![i] = ran]
  BY <1>2, <1>6 DEF EngineFields, NoInit
<1> HIDE DEF run
<1>12. engine'.inits = [engine.inits EXCEPT ![TheCall.init] = ran]
  BY <1>2, <1>5, <1>11 DEF EngineFields
<1>13. mains = << <<Configuration.executable, "--main-pack", ThePack>> >>
       /\ WholePack \in files
  BY <1>3, <1>4, <1>7
<1>14. /\ ran.at = m.at /\ ran.owner = m.owner /\ ran.program = m.program
       /\ ran.load = m.load /\ ran.options = m.options /\ ran.mains = mains
       /\ ran.fs = files
  BY <1>6 DEF NoInit
<1> HIDE DEF mains, files, ran, found
<1>15. GameRuns(ran)
  BY <1>8, <1>13, <1>14 DEF GameRuns
<1>16. Downloading(preloader', TheModule.load, TheCall.load)
  <2>1. preloader' = [preloader EXCEPT !.preloadedFiles = <<>>]
    BY <1>1 DEF RunMain
  <2>2. /\ DOMAIN preloader' = PreloaderFields
        /\ preloader'.loads = preloader.loads
        /\ preloader'.loadingFiles = preloader.loadingFiles
        /\ preloader'.stats = preloader.stats
        /\ preloader'.preloadedFiles = <<>>
    BY <2>1 DEF GameStarts, Downloading, PreloaderShape, PreloaderFields
  <2> QED
    BY <2>2 DEF GameStarts, Downloading, PreloaderShape, WasmOK, PackOK
<1> QED
  BY <1>7, <1>10, <1>12, <1>14, <1>15, <1>16, CallSettlesOn

LEMMA StartInitialisedGoesOn ==
  ASSUME PageInv, GameStarts, UNCHANGED pageCall, NEW c \in Calls, StartInitialised(c)
  PROVE  GameStarts'
<1>1. c = pageCall /\ calls[c] = TheCall /\ TheCall.at = "starting"
      /\ calls[c].owner = ThePage
  BY ItsCall DEF StartInitialised, GameStarts, OneCall
<1>2. PICK canvas \in CanvasChoice :
        \/ /\ StartRefused(ThePage, canvas) \/ StartRuns(ThePage, canvas, FALSE)
           /\ calls' = [calls EXCEPT ![c].at = "rejected"]
        \/ /\ StartRuns(ThePage, canvas, TRUE)
           /\ calls' = [calls EXCEPT ![c].at = "resolved"]
  BY <1>1 DEF StartInitialised
<1> QED
  BY <1>1, <1>2, RefusedGoesOn, RunsGoesOn

-----------------------------------------------------------------------------
(* The start of the page *)

\* The options of the page on top of the configuration.
LEMMA UpdatedNamesItsFiles ==
  LET updated == Update(Configuration, [onProgress |-> "statusProgress"]) IN
  /\ NamesItsFiles(updated) /\ updated.args = <<>>
  /\ updated.fileSizes = Configuration.fileSizes /\ updated.onProgress = "statusProgress"
<1>1. Configuration = [k \in DOMAIN DefaultConfig |->
                         IF k \in DOMAIN InitConfig THEN InitConfig[k] ELSE DefaultConfig[k]]
  BY DEF Configuration, NewConfig, Update
<1>2. DOMAIN Configuration = DOMAIN DefaultConfig
  BY <1>1
<1>3. DOMAIN [onProgress |-> "statusProgress"] = {"onProgress"}
  OBVIOUS
<1> DEFINE updated == Update(Configuration, [onProgress |-> "statusProgress"])
<1>4. updated = [k \in DOMAIN DefaultConfig |->
                   IF k \in {"onProgress"} THEN [onProgress |-> "statusProgress"][k]
                   ELSE Configuration[k]]
  BY <1>2, <1>3 DEF Update
<1> HIDE DEF updated
<1>5. {"executable", "mainPack", "args", "fileSizes", "onProgress"} \subseteq DOMAIN DefaultConfig
  BY DEF DefaultConfig
<1>6. /\ DOMAIN updated = DOMAIN DefaultConfig
      /\ updated.executable = Configuration.executable
      /\ updated.mainPack = Configuration.mainPack /\ updated.args = Configuration.args
      /\ updated.fileSizes = Configuration.fileSizes
      /\ updated.onProgress = "statusProgress"
  BY <1>4, <1>5
<1>7. NamesItsFiles(updated)
  BY <1>6 DEF NamesItsFiles, PackOf, ThePack
<1> QED
  BY <1>6, <1>7, PageAssumption DEF updated

\* The wasm file and then the pack, with room for both.
LEMMA TwoDownloads ==
  ASSUME NEW p, \A l \in Loads : p.loads[l].at = "free", p.preloadedFiles = <<>>,
         Cardinality(FreeLoads(p)) >= 2, NEW wasm \in Loads, NEW p1,
         NEW size1, Loading(p, p1, wasm, Engine_wasm, size1, TRUE, None), NEW size
  PROVE  LET q == LoadPromise(p1, ThePack, size, FALSE, ThePack) IN
         /\ Downloading(q, wasm, NextLoad(p1)) /\ q.loads[NextLoad(p1)].at = "fetch"
         /\ Loading(p1, q, NextLoad(p1), ThePack, size, FALSE, ThePack)
         /\ SameReports(p1, q)
<1> DEFINE pack == NextLoad(p1)
           q == LoadPromise(p1, ThePack, size, FALSE, ThePack)
<1>1. FreeLoads(p1) # {}
  <2> SUFFICES ASSUME FreeLoads(p1) = {} PROVE FALSE
    OBVIOUS
  <2>1. FreeLoads(p) \subseteq {wasm}
    BY DEF Loading, FreeLoads
  <2>2. IsFiniteSet({wasm}) /\ Cardinality({wasm}) = 1
    BY FS_Singleton
  <2>3. IsFiniteSet(FreeLoads(p)) /\ Cardinality(FreeLoads(p)) <= 1
    BY <2>1, <2>2, FS_Subset
  <2> QED
    BY <2>3, FS_CardinalityType
<1>2. ThePack \in Files /\ Engine_wasm \in Files /\ Engine_wasm # ThePack
  BY PageAssumption DEF ThePack, Engine_wasm
<1>3. pack \in FreeLoads(p1) /\ Loading(p1, q, pack, ThePack, size, FALSE, ThePack)
      /\ SameReports(p1, q)
  <2>1. PreloaderShape(p1)
    BY DEF Loading
  <2> QED
    BY <1>1, <1>2, <2>1, LoadPromiseResult
<1> HIDE DEF pack, q
<1>4. pack \in Loads /\ pack # wasm
  BY <1>3 DEF FreeLoads, Loading
<1>5. \A l \in Loads \ {wasm, pack} : q.loads[l].at = "free"
  BY <1>3, <1>4 DEF Loading
<1>6. WasmOK(q, wasm)
  BY <1>2, <1>3, <1>4 DEF Loading, WasmOK
<1>7. PackOK(q, pack)
  BY <1>2, <1>3, <1>4 DEF Loading, PackOK
<1>8. q.loadingFiles[Engine_wasm] # q.loadingFiles[ThePack]
  BY <1>2, <1>3 DEF Loading
<1>9. Downloading(q, wasm, pack)
  BY <1>3, <1>4, <1>5, <1>6, <1>7, <1>8 DEF Loading, Downloading
<1> QED
  BY <1>3, <1>9 DEF Loading, pack, q

\* What startGame of the page does to the Preloader.
PageLoads ==
    /\ \E wasm \in Loads : \E p1 :
         /\ Loading(preloader, p1, wasm, Engine_wasm, SizeOf(Configuration, Engine_wasm),
                    TRUE, None)
         /\ p1.progressFunc = "statusProgress"
         /\ p1.lastProgress = preloader.lastProgress /\ p1.reported = preloader.reported
         /\ Cardinality(FreeLoads(preloader)) >= 2
         /\ preloader' = LoadPromise(p1, ThePack, SizeOf(Configuration, ThePack), FALSE,
                                     ThePack)
    /\ frames' = 1

LEMMA StartGameStarts ==
  ASSUME EngineInit, StartGame(ThePage, [onProgress |-> "statusProgress"]),
         pageCall' = NextCall
  PROVE  GameStarts' /\ PageLoads
<1> DEFINE updated == Update(config[ThePage], [onProgress |-> "statusProgress"])
           exe == Configuration.executable
           size == SizeOf(updated, Engine_wasm)
           pre == LoadPromise(preloader, Engine_wasm, size, TRUE, None)
           p1 == [pre EXCEPT !.progressFunc = updated.onProgress]
           wasm == NextLoad(preloader)
           loaded == Load(Shared, exe, size)
           s == Init(Shared, ThePage, updated, updated.executable)
           i == Min({j \in Inits : engine.inits[j].at = "free"})
           m == [NoInit EXCEPT !.at = "load", !.owner = ThePage, !.load = wasm]
           arguments == <<"--main-pack", ThePack>> \o updated.args
           pack == NextLoad(p1)
           call == [at |-> "loading", owner |-> ThePage, init |-> i, load |-> pack]
<1>1. config[ThePage] = Configuration /\ DOMAIN config = Engines
  BY PageAssumption DEF EngineInit, Configuration
<1>2. NamesItsFiles(updated) /\ updated.args = <<>>
  BY <1>1, UpdatedNamesItsFiles
<1>3. /\ updated.executable = exe /\ PackOf(updated) = ThePack /\ exe # None
      /\ Wasm(exe) = Engine_wasm
  BY <1>2, PageAssumption DEF NamesItsFiles, Engine_wasm
<1> HIDE DEF updated, exe, size
<1>4. /\ DOMAIN engine = EngineFields /\ engine.inits = [j \in Inits |-> NoInit]
      /\ engine.initPromise = None /\ engine.loadPromise = None
      /\ calls = [c \in Calls |-> NoCall]
  BY DEF EngineInit, EngineFields
<1>5. /\ PreloaderShape(preloader) /\ preloader.preloadedFiles = <<>>
      /\ \A l \in Loads : preloader.loads[l].at = "free"
  BY DEF EngineInit, PreloaderInit, PreloaderShape, PreloaderFields, NoLoad
<1>5a. frames = 0 /\ Shared.frames = 0
  BY DEF EngineInit, PreloaderInit, Shared
<1>6. RoomForCall /\ RoomFor(Shared, 2, 1)
  BY <1>4 DEF StartGame
<1>7. Cardinality(FreeLoads(preloader)) >= 2 /\ FreeLoads(preloader) # {}
  BY <1>6, FS_EmptySet DEF RoomFor, Shared
<1>8. /\ wasm \in Loads /\ Loading(preloader, pre, wasm, Engine_wasm, size, TRUE, None)
      /\ SameReports(preloader, pre)
  BY <1>5, <1>7, LoadPromiseResult, PageAssumption DEF FreeLoads, Engine_wasm
<1> HIDE DEF pre, wasm
<1>9. Loading(preloader, p1, wasm, Engine_wasm, size, TRUE, None)
  BY <1>8 DEF Loading, PreloaderShape, PreloaderFields
<1>10. loaded = [Shared EXCEPT !.pre = LoadPromise(@, Engine_wasm, size, TRUE, None),
                               !.eng.loadPath = exe,
                               !.eng.loadPromise = NextLoad(Shared.pre),
                               !.frames = @ + 1]
  BY <1>3, <1>4 DEF Load, Shared
<1>11. /\ DOMAIN Shared = {"pre", "eng", "frames"} /\ Shared.pre = preloader
       /\ Shared.eng = engine
  BY DEF Shared
<1> HIDE DEF loaded
<1>12. /\ DOMAIN loaded = {"pre", "eng", "frames"} /\ DOMAIN loaded.eng = EngineFields
       /\ loaded.pre = pre /\ loaded.eng.inits = engine.inits
       /\ loaded.eng.loadPromise = wasm
  BY <1>4, <1>10, <1>11 DEF EngineFields, pre, wasm
<1>13. s = WithInit([loaded EXCEPT !.pre.progressFunc = updated.onProgress],
                    [NoInit EXCEPT !.at = "load", !.owner = ThePage,
                                   !.load = loaded.eng.loadPromise])
  <2>1. Init(Shared, ThePage, updated, exe)
          = WithInit([loaded EXCEPT !.pre.progressFunc = updated.onProgress],
                     [NoInit EXCEPT !.at = "load", !.owner = ThePage,
                                    !.load = loaded.eng.loadPromise])
    BY <1>3, <1>4, <1>11 DEF Init, size, loaded
  <2> QED
    BY <1>3, <2>1
<1> HIDE DEF s, p1
<1>14. /\ DOMAIN s = {"pre", "eng", "frames"} /\ DOMAIN s.eng = EngineFields
       /\ s.pre = p1 /\ s.eng.initPromise = i /\ s.eng.inits = [engine.inits EXCEPT ![i] = m]
  BY <1>12, <1>13 DEF WithInit, NextInit, EngineFields, p1
<1>15. Become(PreloadFile(s, updated, ThePack, ThePack))
  BY <1>3 DEF StartGame, s, updated
<1>16. \E size2 : preloader' = LoadPromise(p1, ThePack, size2, FALSE, ThePack)
  BY <1>14, <1>15 DEF Become, PreloadFile
<1>17. engine' = s.eng
  BY <1>14, <1>15 DEF Become, PreloadFile
<1>18. calls' = [calls EXCEPT ![NextCall] = call]
  BY <1>14 DEF StartGame, s, updated
<1>19. config' = [config EXCEPT ![ThePage] = [updated EXCEPT !.args = arguments]]
  BY <1>3 DEF StartGame, updated
<1>20. NextCall \in Calls /\ i \in Inits
  BY <1>6, NextCallIsFree, NextIsFree
<1>21. /\ m.at = "load" /\ m.owner = ThePage /\ m.load = wasm /\ m.mains = <<>>
  BY DEF NoInit
<1> HIDE DEF m, i, pack
<1>22. /\ TheCall' = call /\ \A c \in Calls \ {NextCall} : calls'[c].at = "free"
  BY <1>4, <1>18, <1>20 DEF TheCall, NoCall
<1>23. /\ TheModule' = m /\ \A j \in Inits \ {i} : Module(j)'.at = "free"
  BY <1>4, <1>14, <1>17, <1>20, <1>22 DEF TheModule, Module, NoInit
<1>24. OneCall' /\ OneModule'
  BY <1>20, <1>21, <1>22, <1>23 DEF OneCall, OneModule
<1>25. PageConfigured' /\ config'[ThePage].args = arguments
  <2>1. NamesItsFiles([updated EXCEPT !.args = arguments])
        /\ [updated EXCEPT !.args = arguments].args = arguments
    BY <1>2, ArgumentsNameItsFiles DEF NamesItsFiles, DefaultConfig
  <2> HIDE DEF arguments
  <2> QED
    BY <1>1, <1>19, <2>1, PageAssumption DEF PageConfigured
<1>26. arguments = <<"--main-pack", ThePack>>
  BY <1>2
<1>27. Downloading(preloader', wasm, pack) /\ preloader'.loads[pack].at = "fetch"
  BY <1>5, <1>7, <1>8, <1>9, <1>16, TwoDownloads DEF pack
<1>28. BeforeMain' /\ AfterMain'
  BY <1>14, <1>17, <1>21, <1>22, <1>23, <1>25, <1>26, <1>27
  DEF BeforeMain, AfterMain, KeptPack
<1>29. GameStarts'
  BY <1>21, <1>22, <1>23, <1>24, <1>25, <1>27, <1>28 DEF GameStarts
<1>30. PageLoads
  <2>1. /\ size = SizeOf(Configuration, Engine_wasm)
        /\ SizeOf(updated, ThePack) = SizeOf(Configuration, ThePack)
        /\ updated.onProgress = "statusProgress"
    BY <1>1, UpdatedNamesItsFiles DEF size, updated, SizeOf
  <2>2. preloader' = LoadPromise(p1, ThePack, SizeOf(updated, ThePack), FALSE, ThePack)
    BY <1>14, <1>15, PageAssumption DEF Become, PreloadFile, ThePack
  <2>3. frames' = 1
    <3>1. s.frames = loaded.frames /\ loaded.frames = 1
      BY <1>5a, <1>10, <1>11, <1>12, <1>13 DEF WithInit
    <3> QED
      BY <1>14, <1>15, <3>1 DEF Become, PreloadFile
  <2>4. /\ p1.progressFunc = "statusProgress"
        /\ p1.lastProgress = preloader.lastProgress /\ p1.reported = preloader.reported
    BY <1>8, <2>1 DEF SameReports, p1, Loading, PreloaderShape, PreloaderFields
  <2> HIDE DEF updated
  <2> QED
    BY <1>7, <1>8, <1>9, <2>1, <2>2, <2>3, <2>4 DEF PageLoads
<1> QED
  BY <1>29, <1>30

-----------------------------------------------------------------------------
(* The page *)

\* Before the page has called startGame there is nothing to go on with.
LEMMA NothingToDo ==
  ASSUME EngineInit
  PROVE  ~EngineStep
<1>1. /\ \A l \in Loads : preloader.loads[l].at = "free"
      /\ \A i \in Inits : Module(i).at = "free" /\ Module(i).mains = <<>>
      /\ \A c \in Calls : calls[c].at = "free"
      /\ frames = 0
  BY DEF EngineInit, PreloaderInit, Module, NoLoad, NoInit, NoCall
<1>2. ~Downloads
  BY <1>1 DEF Downloads, Download, Respond, FetchFails, Retry, ReadChunk, ReadEnd,
              ReadFails, KeepPreloaded
<1>3. ~Frames
  BY <1>1 DEF Frames, AnimateProgress
<1>4. ~Continuations
  BY <1>1 DEF Continuations, Instantiate, Instantiated, InitFSDone, StartGameLoaded,
              StartGameFails, StartInitialised, StartFails
<1>5. ~\E i \in Inits : Exit(i)
  BY <1>1 DEF Exit
<1> QED
  BY <1>2, <1>3, <1>4, <1>5 DEF EngineStep

LEMMA EngineStepGoesOn ==
  ASSUME PageInv, GameStarts, UNCHANGED pageCall, EngineStep
  PROVE  GameStarts'
  BY DownloadsGoOn, FramesGoOn, InstantiateGoesOn, InstantiatedGoesOn, InitFSDoneGoesOn,
     ExitGoesOn, StartGameLoadedGoesOn, CallFailsGoesOn, StartInitialisedGoesOn
  DEF EngineStep, Continuations

LEMMA EngineStays ==
  ASSUME AloneInv, UNCHANGED <<engineVars, pageCall, otherCalls>>,
         statusMode' = "" => statusMode = ""
  PROVE  AloneInv'
<1>1. EngineInit => EngineInit'
  BY DEF engineVars, EngineInit, PreloaderInit
<1>2. GameStarts => GameStarts'
  BY DEF engineVars, GameStarts, OneCall, OneModule, PageConfigured, BeforeMain, AfterMain,
         TheCall, TheModule, Module
<1> QED
  BY <1>1, <1>2 DEF AloneInv, Alone

LEMMA OpenPageStarts ==
  ASSUME PageInv, AloneInv, OpenPage
  PROVE  AloneInv'
<1>1. CASE GetMissingFeatures(GODOT_THREADS_ENABLED) # {}
  <2>1. DisplayFailureNotice /\ UNCHANGED <<engineVars, pageCall, otherCalls>>
    BY <1>1 DEF OpenPage
  <2>2. statusMode' = "" => statusMode = ""
    BY <2>1 DEF DisplayFailureNotice
  <2> QED
    BY <2>1, <2>2, EngineStays
<1>2. CASE GetMissingFeatures(GODOT_THREADS_ENABLED) = {}
  <2>1. /\ SetStatusMode("progress") /\ statusMode = "" /\ initializing
        /\ StartGame(ThePage, [onProgress |-> "statusProgress"])
        /\ pageCall' = NextCall /\ UNCHANGED otherCalls
    BY <1>2 DEF OpenPage
  <2>2. EngineInit
    BY <2>1 DEF AloneInv
  <2>3. GameStarts'
    BY <2>1, <2>2, StartGameStarts
  <2>4. statusMode' = "progress" /\ pageCall' # None
    BY <2>1, NextCallIsFree, EngineAssumption DEF SetStatusMode, StartGame
  <2> QED
    BY <2>1, <2>3, <2>4 DEF AloneInv
<1> QED
  BY <1>1, <1>2

LEMMA NextAloneInv == PageInv /\ AloneInv /\ [Next]_vars => AloneInv'
<1> SUFFICES ASSUME PageInv, AloneInv, [Next]_vars PROVE AloneInv'
  OBVIOUS
<1>1. CASE GameStarted \/ GameFailed
  <2>1. UNCHANGED <<engineVars, pageCall, otherCalls>> /\ statusMode' # ""
    BY <1>1 DEF GameStarted, GameFailed, SetStatusMode, DisplayFailureNotice
  <2> QED
    BY <2>1, EngineStays
<1>2. CASE EngineStep /\ UNCHANGED pageVars
  <2>1. pageCall # None
    BY <1>2, NothingToDo DEF AloneInv
  <2>2. UNCHANGED <<pageCall, otherCalls, statusMode>>
    BY <1>2 DEF pageVars
  <2>3. Alone => GameStarts'
    BY <1>2, <2>1, <2>2, EngineStepGoesOn DEF AloneInv
  <2> QED
    BY <2>1, <2>2, <2>3 DEF AloneInv, Alone
<1>3. CASE OtherCall
  <2>1. otherCalls \in Nat /\ (statusMode = "" => pageCall = None)
    BY DEF AloneInv
  <2>2. /\ otherCalls' = otherCalls + 1 /\ pageCall # None
        /\ UNCHANGED <<statusMode, pageCall>>
    BY <1>3 DEF OtherCall
  <2>3. otherCalls' \in Nat /\ otherCalls' # 0
    <3>1. otherCalls \in Nat /\ otherCalls' = otherCalls + 1
      BY <2>1, <2>2
    <3> QED
      BY ONLY <3>1
  <2>4. ~Alone'
    BY <2>3 DEF Alone
  <2>5. (statusMode' = "" => pageCall' = None) /\ pageCall' # None
    BY <2>1, <2>2
  <2> QED
    BY <2>3, <2>4, <2>5 DEF AloneInv
<1>4. CASE UNCHANGED vars
  BY <1>4, EngineStays DEF vars
<1> QED
  BY <1>1, <1>2, <1>3, <1>4, OpenPageStarts DEF Next

LEMMA AloneInvImplies == PageInv /\ AloneInv => RunsWithItsPack
<1> SUFFICES ASSUME PageInv, AloneInv, Alone, NEW i \in Inits, Module(i).mains # <<>>
             PROVE  /\ Module(i).mains
                         = << <<config[ThePage].executable, "--main-pack", Pack>> >>
                    /\ [path |-> Pack, file |-> Pack, length |-> BodyLength[Pack]]
                         \in Module(i).fs
                    /\ Module(i).options.canvas # None
  BY DEF RunsWithItsPack
<1>1. pageCall # None
  <2> SUFFICES ASSUME pageCall = None PROVE FALSE
    OBVIOUS
  <2>1. EngineInit
    BY DEF AloneInv
  <2>2. Module(i) = NoInit
    BY <2>1 DEF EngineInit, Module
  <2> QED
    BY <2>2 DEF NoInit
<1>2. GameStarts
  BY <1>1 DEF AloneInv
<1>3. Module(i).at = "done"
  BY DEF PageInv, ModulesOK, ModuleOK
<1>4. GameRuns(Module(i))
  BY <1>2, <1>3, ItsModule DEF GameStarts, AfterMain
<1>5. config[ThePage].executable = Configuration.executable /\ Pack = ThePack
  BY <1>2 DEF GameStarts, PageConfigured, NamesItsFiles, Pack
<1> QED
  BY <1>4, <1>5 DEF GameRuns, WholePack

\* index.html and Engine.startGame: the game that the page starts runs once, with
\* the whole pack, its arguments and a canvas, whatever is tried again.
THEOREM GameRunsWithItsPack == Spec => []RunsWithItsPack
<1>1. ASSUME PageInit PROVE AloneInv
  <2>1. otherCalls \in Nat /\ pageCall = None
    BY <1>1 DEF PageInit
  <2>2. EngineInit
    BY <1>1 DEF PageInit
  <2> QED
    BY <2>1, <2>2 DEF AloneInv
<1> QED
  BY <1>1, PageInvariant, NextAloneInv, AloneInvImplies, PTL DEF Spec

-----------------------------------------------------------------------------
(* The bar *)

\* The configuration tells the size of both files, as the export has measured it.
SizesKnown ==
    \A f \in {Engine_wasm, ThePack} :
        SizeOf(Configuration, f) = BodyLength[f] /\ BodyLength[f] > 0

\* A download and the status it is counted into.
CountedIn(load, s, stat, file) ==
    /\ load.file = file /\ load.size = BodyLength[file]
    /\ DOMAIN stat = DOMAIN NoStat
    /\ stat.total = BodyLength[file] /\ stat.loaded = load.got
    /\ load.got \in 0..BodyLength[file]
    /\ load.at \in {"fetch", "timer", "rejected"} => load.got = 0
    /\ load.at = "body" => load.stat = s /\ ~stat.done
    /\ stat.done => load.at \in {"closed", "kept"} /\ load.got = BodyLength[file]

StatOf(p, file) == p.stats[p.loadingFiles[file]]

Counted(p, l, file) ==
    /\ p.loadingFiles[file] \in Stats
    /\ CountedIn(p.loads[l], p.loadingFiles[file], StatOf(p, file), file)

\* What has come of both files, what there is to come, and whether it all has.
Got(p) == StatOf(p, Engine_wasm).loaded + StatOf(p, ThePack).loaded

Whole == BodyLength[Engine_wasm] + BodyLength[ThePack]

Done(p) == StatOf(p, Engine_wasm).done /\ StatOf(p, ThePack).done

\* Each of the two downloads is counted, and nothing else is.
Counting(p, wasm, pack) ==
    /\ Downloading(p, wasm, pack)
    /\ Counted(p, wasm, Engine_wasm) /\ Counted(p, pack, ThePack)
    /\ \A f \in Files \ {Engine_wasm, ThePack} : p.loadingFiles[f] = None

\* What is reported is what the last frame saw: some of what has come.
Reports(p) ==
    /\ p.progressFunc # None /\ p.lastProgress = p.reported
    /\ DOMAIN p.reported = {"loaded", "total"}
    /\ p.reported.loaded \in 0..Got(p)
    /\ p.reported.loaded = 0 \/ p.reported.total = Whole
    /\ p.reported.total \in {0, Whole}

\* The last frame has seen everything.
FramesOK ==
    /\ frames \in {0, 1}
    /\ frames = 0 => Done(preloader) /\ preloader.reported = [loaded |-> Whole, total |-> Whole]

BarOK ==
    /\ \E wasm \in Loads, pack \in Loads : Counting(preloader, wasm, pack)
    /\ Reports(preloader) /\ FramesOK

BarInv == Alone /\ pageCall # None => BarOK

-----------------------------------------------------------------------------
(* The downloads are counted *)

\* Nothing that was counted is lost.
Onward(p, q) == Got(q) >= Got(p) /\ (Done(p) => Done(q))

LEMMA TwoFiles ==
    /\ Engine_wasm \in Files /\ ThePack \in Files /\ Engine_wasm # ThePack
    /\ BodyLength[Engine_wasm] \in Nat /\ BodyLength[ThePack] \in Nat
<1>1. Engine_wasm \in Files /\ ThePack \in Files /\ Engine_wasm # ThePack
  BY PageAssumption DEF Engine_wasm, ThePack
<1> QED
  BY <1>1, PreloaderAssumption

\* The file of a download, and its status, which is no other file's.
LEMMA CountedFacts ==
  ASSUME NEW p, NEW wasm, NEW pack, Counting(p, wasm, pack), NEW l \in {wasm, pack}
  PROVE  LET file == p.loads[l].file IN
         /\ l \in Loads /\ file \in {Engine_wasm, ThePack} /\ file \in Files
         /\ (file = Engine_wasm <=> l = wasm) /\ (file = ThePack <=> l = pack)
         /\ Counted(p, l, file) /\ wasm # pack /\ wasm \in Loads /\ pack \in Loads
         /\ \A f \in Files \ {file} : p.loadingFiles[f] # p.loadingFiles[file]
         /\ PreloaderShape(p) /\ DOMAIN p = PreloaderFields
         /\ DOMAIN p.loads[l] = DOMAIN NoLoad
<1>1. /\ wasm # pack /\ wasm \in Loads /\ pack \in Loads /\ PreloaderShape(p)
      /\ p.loads[wasm].file = Engine_wasm /\ p.loads[pack].file = ThePack
      /\ p.loadingFiles[Engine_wasm] # p.loadingFiles[ThePack]
  BY DEF Counting, Downloading, WasmOK, PackOK
<1>2. /\ Counted(p, wasm, Engine_wasm) /\ Counted(p, pack, ThePack)
      /\ \A f \in Files \ {Engine_wasm, ThePack} : p.loadingFiles[f] = None
  BY DEF Counting
<1>3. p.loadingFiles[Engine_wasm] # None /\ p.loadingFiles[ThePack] # None
  BY <1>2, PreloaderAssumption DEF Counted
<1>4. DOMAIN p = PreloaderFields /\ DOMAIN p.loads[l] = DOMAIN NoLoad
  BY <1>1 DEF PreloaderShape
<1>5. CASE l = wasm
  BY <1>1, <1>2, <1>3, <1>4, <1>5, TwoFiles
<1>6. CASE l = pack
  BY <1>1, <1>2, <1>3, <1>4, <1>6, TwoFiles
<1> QED
  BY <1>5, <1>6

\* The download l of the file is load and is counted into the status stat at s.
Changes(p, q, l, load, file, s, stat) ==
    /\ q.loads[l] = load /\ \A k \in Loads \ {l} : q.loads[k] = p.loads[k]
    /\ s \in Stats /\ q.loadingFiles[file] = s
    /\ \A f \in Files \ {file} : q.loadingFiles[f] = p.loadingFiles[f]
                                  /\ s # p.loadingFiles[f]
    /\ q.stats[s] = stat /\ \A x \in Stats \ {s} : q.stats[x] = p.stats[x]
    /\ CountedIn(load, s, stat, file)

NotLess(old, new) == new.loaded >= old.loaded /\ (old.done => new.done)

\* One download and its status change; the other one stays as it was counted.
LEMMA CountedMoves ==
  ASSUME NEW p, NEW wasm, NEW pack, Counting(p, wasm, pack), NEW l \in {wasm, pack},
         NEW file, file = p.loads[l].file, NEW q, Downloading(q, wasm, pack),
         NEW load, NEW s, NEW stat, Changes(p, q, l, load, file, s, stat),
         NotLess(StatOf(p, file), stat)
  PROVE  Counting(q, wasm, pack) /\ Onward(p, q)
<1>1. /\ l \in Loads /\ file \in {Engine_wasm, ThePack} /\ file \in Files
      /\ (file = Engine_wasm <=> l = wasm) /\ (file = ThePack <=> l = pack)
      /\ wasm # pack /\ wasm \in Loads /\ pack \in Loads
  BY CountedFacts
<1>2. Counted(q, l, file) /\ StatOf(q, file) = stat
  BY DEF Changes, Counted, StatOf
<1>3. ASSUME NEW k \in {wasm, pack} \ {l}, NEW other \in {Engine_wasm, ThePack} \ {file},
             Counted(p, k, other)
      PROVE  Counted(q, k, other) /\ StatOf(q, other) = StatOf(p, other)
  BY <1>1, <1>3, TwoFiles DEF Changes, Counted, StatOf
<1>4. Counted(p, wasm, Engine_wasm) /\ Counted(p, pack, ThePack)
      /\ \A f \in Files \ {Engine_wasm, ThePack} : p.loadingFiles[f] = None
  BY DEF Counting
<1>5. \A f \in Files \ {Engine_wasm, ThePack} : q.loadingFiles[f] = None
  BY <1>1, <1>4 DEF Changes
<1>6. /\ StatOf(p, Engine_wasm).loaded \in Nat /\ StatOf(p, ThePack).loaded \in Nat
      /\ stat.loaded \in Nat
  <2>1. BodyLength[file] \in Nat
    BY <1>1, TwoFiles
  <2> QED
    BY <1>4, <2>1, TwoFiles DEF Changes, Counted, CountedIn
<1>7. CASE l = wasm
  <2>1. Counted(q, wasm, Engine_wasm) /\ StatOf(q, Engine_wasm) = stat
    BY <1>1, <1>2, <1>7
  <2>2. Counted(q, pack, ThePack) /\ StatOf(q, ThePack) = StatOf(p, ThePack)
    BY <1>1, <1>3, <1>4, <1>7, TwoFiles
  <2>3. Counting(q, wasm, pack)
    BY <1>5, <2>1, <2>2 DEF Counting
  <2>4. stat.loaded >= StatOf(p, Engine_wasm).loaded /\ (StatOf(p, Engine_wasm).done => stat.done)
    BY <1>1, <1>7 DEF NotLess
  <2>5. Got(q) >= Got(p)
    BY <1>6, <2>1, <2>2, <2>4 DEF Got
  <2>6. Done(p) => Done(q)
    BY <2>1, <2>2, <2>4 DEF Done
  <2> QED
    BY <2>3, <2>5, <2>6 DEF Onward
<1>8. CASE l = pack
  <2>1. Counted(q, pack, ThePack) /\ StatOf(q, ThePack) = stat
    BY <1>1, <1>2, <1>8
  <2>2. Counted(q, wasm, Engine_wasm) /\ StatOf(q, Engine_wasm) = StatOf(p, Engine_wasm)
    BY <1>1, <1>3, <1>4, <1>8, TwoFiles
  <2>3. Counting(q, wasm, pack)
    BY <1>5, <2>1, <2>2 DEF Counting
  <2>4. stat.loaded >= StatOf(p, ThePack).loaded /\ (StatOf(p, ThePack).done => stat.done)
    BY <1>1, <1>8 DEF NotLess
  <2>5. Got(q) >= Got(p)
    BY <1>6, <2>1, <2>2, <2>4 DEF Got
  <2>6. Done(p) => Done(q)
    BY <2>1, <2>2, <2>4 DEF Done
  <2> QED
    BY <2>3, <2>5, <2>6 DEF Onward
<1> QED
  BY <1>7, <1>8

\* A download changes while its status stays as it is.
Moves(p, q, l, load) ==
    /\ q.loads = [p.loads EXCEPT ![l] = load]
    /\ q.loadingFiles = p.loadingFiles /\ q.stats = p.stats /\ SameReports(p, q)
    /\ load.file = p.loads[l].file /\ load.size = p.loads[l].size
    /\ load.got = p.loads[l].got
    /\ \/ p.loads[l].at = "fetch" /\ load.at \in {"timer", "rejected"}
       \/ p.loads[l].at = "fetch" /\ load.at = "body" /\ load.stat = p.loadingFiles[load.file]
       \/ p.loads[l].at = "body" /\ load.at = "lost"
       \/ p.loads[l].at = "closed" /\ load.at = "kept"

LEMMA MovesCounted ==
  ASSUME NEW p, NEW wasm, NEW pack, Counting(p, wasm, pack), NEW l \in {wasm, pack},
         NEW q, Downloading(q, wasm, pack), NEW load, Moves(p, q, l, load)
  PROVE  Counting(q, wasm, pack) /\ Onward(p, q)
<1> DEFINE file == p.loads[l].file
           s == p.loadingFiles[file]
           stat == p.stats[s]
<1>1. /\ l \in Loads /\ file \in Files /\ Counted(p, l, file) /\ PreloaderShape(p)
      /\ \A f \in Files \ {file} : p.loadingFiles[f] # p.loadingFiles[file]
  BY CountedFacts
<1>2. s \in Stats /\ CountedIn(p.loads[l], s, stat, file) /\ StatOf(p, file) = stat
  BY <1>1 DEF Counted, StatOf
<1>3. q.loads[l] = load /\ \A k \in Loads \ {l} : q.loads[k] = p.loads[k]
  BY <1>1 DEF PreloaderShape, Moves
<1> HIDE DEF file, s, stat
<1>4. CountedIn(load, s, stat, file)
  BY <1>2 DEF CountedIn, Moves, file, s
<1>5. stat.loaded >= stat.loaded
  <2>1. stat.loaded \in Int
    BY <1>1, <1>2, PreloaderAssumption DEF CountedIn
  <2> QED
    BY <2>1
<1>6. /\ q.loadingFiles[file] = s /\ q.stats[s] = stat
      /\ \A f \in Files \ {file} : q.loadingFiles[f] = p.loadingFiles[f]
                                     /\ s # p.loadingFiles[f]
      /\ \A x \in Stats \ {s} : q.stats[x] = p.stats[x]
  BY <1>1 DEF Moves, s, stat, file
<1>7. file = p.loads[l].file
  BY DEF file
<1>8. Changes(p, q, l, load, file, s, stat)
  BY <1>2, <1>3, <1>4, <1>6 DEF Changes
<1>9. NotLess(StatOf(p, file), stat)
  BY <1>2, <1>5 DEF NotLess
<1> QED
  BY <1>7, <1>8, <1>9, CountedMoves

\* The steps that only move a download on.
LEMMA NetworkMoves ==
  ASSUME NEW wasm, NEW pack, Counting(preloader, wasm, pack), NEW l \in {wasm, pack},
         Respond(l) \/ FetchFails(l) \/ ReadFails(l) \/ KeepPreloaded(l)
  PROVE  \E load : Moves(preloader, preloader', l, load)
<1>1. /\ DOMAIN preloader = PreloaderFields /\ DOMAIN preloader.loads = Loads /\ l \in Loads
      /\ DOMAIN preloader.loads[l] = DOMAIN NoLoad
  BY CountedFacts DEF PreloaderShape
<1>2. CASE Respond(l)
  <2> DEFINE load == [preloader.loads[l] EXCEPT !.at = "body", !.attempts = 0,
                        !.stat = preloader.loadingFiles[preloader.loads[l].file]]
  <2>1. /\ preloader'.loads = [preloader.loads EXCEPT ![l] = load]
        /\ preloader'.loadingFiles = preloader.loadingFiles
        /\ preloader'.stats = preloader.stats /\ SameReports(preloader, preloader')
    BY <1>1, <1>2 DEF Respond, PreloaderFields, SameReports
  <2>2. /\ load.file = preloader.loads[l].file /\ load.size = preloader.loads[l].size
        /\ load.got = preloader.loads[l].got /\ load.at = "body"
        /\ load.stat = preloader.loadingFiles[preloader.loads[l].file]
    BY <1>1 DEF NoLoad
  <2>3. preloader.loads[l].at = "fetch"
    BY <1>2 DEF Respond
  <2> HIDE DEF load
  <2>4. Moves(preloader, preloader', l, load)
    BY <2>1, <2>2, <2>3 DEF Moves
  <2> QED
    BY <2>4
<1>3. CASE FetchFails(l)
  <2> DEFINE load == IF preloader.loads[l].attempts <= 1
                     THEN [preloader.loads[l] EXCEPT !.at = "rejected"]
                     ELSE [preloader.loads[l] EXCEPT !.at = "timer", !.attempts = @ - 1]
  <2>1. /\ preloader'.loads = [preloader.loads EXCEPT ![l] = load]
        /\ preloader'.loadingFiles = preloader.loadingFiles
        /\ preloader'.stats = preloader.stats /\ SameReports(preloader, preloader')
    BY <1>1, <1>3 DEF FetchFails, PreloaderFields, SameReports
  <2>2. /\ load.file = preloader.loads[l].file /\ load.size = preloader.loads[l].size
        /\ load.got = preloader.loads[l].got /\ load.at \in {"timer", "rejected"}
    BY <1>1 DEF NoLoad
  <2>3. preloader.loads[l].at = "fetch"
    BY <1>3 DEF FetchFails
  <2> HIDE DEF load
  <2>4. Moves(preloader, preloader', l, load)
    BY <2>1, <2>2, <2>3 DEF Moves
  <2> QED
    BY <2>4
<1>4. CASE ReadFails(l)
  <2> DEFINE load == [preloader.loads[l] EXCEPT !.at = "lost", !.stat = None]
  <2>1. /\ preloader'.loads = [preloader.loads EXCEPT ![l] = load]
        /\ preloader'.loadingFiles = preloader.loadingFiles
        /\ preloader'.stats = preloader.stats /\ SameReports(preloader, preloader')
    BY <1>1, <1>4 DEF ReadFails, PreloaderFields, SameReports
  <2>2. /\ load.file = preloader.loads[l].file /\ load.size = preloader.loads[l].size
        /\ load.got = preloader.loads[l].got /\ load.at = "lost"
    BY <1>1 DEF NoLoad
  <2>3. preloader.loads[l].at = "body"
    BY <1>4 DEF ReadFails
  <2> HIDE DEF load
  <2>4. Moves(preloader, preloader', l, load)
    BY <2>1, <2>2, <2>3 DEF Moves
  <2> QED
    BY <2>4
<1>5. CASE KeepPreloaded(l)
  <2> DEFINE load == [preloader.loads[l] EXCEPT !.at = "kept"]
  <2>1. /\ preloader'.loads = [preloader.loads EXCEPT ![l] = load]
        /\ preloader'.loadingFiles = preloader.loadingFiles
        /\ preloader'.stats = preloader.stats /\ SameReports(preloader, preloader')
    BY <1>1, <1>5 DEF KeepPreloaded, PreloaderFields, SameReports
  <2>2. /\ load.file = preloader.loads[l].file /\ load.size = preloader.loads[l].size
        /\ load.got = preloader.loads[l].got /\ load.at = "kept"
    BY <1>1 DEF NoLoad
  <2>3. preloader.loads[l].at = "closed"
    BY <1>5 DEF KeepPreloaded
  <2> HIDE DEF load
  <2>4. Moves(preloader, preloader', l, load)
    BY <2>1, <2>2, <2>3 DEF Moves
  <2> QED
    BY <2>4
<1> QED
  BY <1>2, <1>3, <1>4, <1>5

\* What the step l of a download leaves.
CountsOn(wasm, pack) ==
    /\ Counting(preloader', wasm, pack) /\ Onward(preloader, preloader')
    /\ SameReports(preloader, preloader')

LEMMA RetryCounts ==
  ASSUME NEW wasm, NEW pack, Counting(preloader, wasm, pack), NEW l \in {wasm, pack},
         Retry(l), Downloading(preloader', wasm, pack)
  PROVE  CountsOn(wasm, pack)
<1> DEFINE file == preloader.loads[l].file
           load == [preloader.loads[l] EXCEPT !.at = "fetch", !.stat = None]
           s == FreshStat(preloader)
           stat == [NoStat EXCEPT !.total = preloader.loads[l].size]
           old == StatOf(preloader, file)
<1>1. /\ l \in Loads /\ file \in Files /\ Counted(preloader, l, file)
      /\ PreloaderShape(preloader) /\ DOMAIN preloader.loads = Loads
      /\ DOMAIN preloader.loadingFiles = Files /\ DOMAIN preloader.stats = Stats
      /\ DOMAIN preloader.loads[l] = DOMAIN NoLoad /\ preloader.loads[l].at = "timer"
  BY CountedFacts DEF PreloaderShape, Retry
<1>2. /\ preloader'.loads = [preloader.loads EXCEPT ![l] = load]
      /\ preloader'.loadingFiles = [preloader.loadingFiles EXCEPT ![file] = s]
      /\ preloader'.stats = [preloader.stats EXCEPT ![s] = stat]
      /\ SameReports(preloader, preloader')
  BY <1>1, LoadFetchResult DEF Retry
<1>3. s \in Stats /\ \A f \in Files : s # preloader.loadingFiles[f]
  BY FreshStatExists DEF UsedStats
<1>4. /\ load.file = file /\ load.size = preloader.loads[l].size
      /\ load.got = preloader.loads[l].got /\ load.at = "fetch"
      /\ stat.total = preloader.loads[l].size /\ stat.loaded = 0 /\ ~stat.done
      /\ DOMAIN stat = DOMAIN NoStat
  BY <1>1 DEF NoLoad, NoStat
<1>5. CountedIn(preloader.loads[l], preloader.loadingFiles[file], old, file)
  BY <1>1 DEF Counted
<1> HIDE DEF file, load, s, stat, old
<1>6. /\ preloader.loads[l].got = 0 /\ preloader.loads[l].size = BodyLength[file]
      /\ old.loaded = 0 /\ ~old.done
  BY <1>1, <1>5 DEF CountedIn
<1>7. CountedIn(load, s, stat, file)
  <2>1. 0 \in 0..BodyLength[file]
    BY <1>1, PreloaderAssumption
  <2> QED
    BY <1>4, <1>6, <2>1 DEF CountedIn
<1>8. Changes(preloader, preloader', l, load, file, s, stat)
  BY <1>1, <1>2, <1>3, <1>7 DEF Changes
<1>9. NotLess(old, stat)
  BY <1>4, <1>6 DEF NotLess
<1>10. Counting(preloader', wasm, pack) /\ Onward(preloader, preloader')
  BY <1>8, <1>9, CountedMoves DEF file, old
<1> QED
  BY <1>2, <1>10 DEF CountsOn

LEMMA ReadCounts ==
  ASSUME NEW wasm, NEW pack, Counting(preloader, wasm, pack), NEW l \in {wasm, pack},
         ReadChunk(l) \/ ReadEnd(l), Downloading(preloader', wasm, pack)
  PROVE  CountsOn(wasm, pack)
<1> DEFINE file == preloader.loads[l].file
           s == preloader.loads[l].stat
           old == preloader.stats[s]
           ended == [preloader.loads[l] EXCEPT !.at = "closed", !.stat = None]
           read == [preloader.loads[l] EXCEPT !.got = @ + 1]
           done == [old EXCEPT !.done = TRUE]
           more == [old EXCEPT !.loaded = @ + 1]
<1>1. /\ l \in Loads /\ file \in Files /\ Counted(preloader, l, file)
      /\ PreloaderShape(preloader) /\ DOMAIN preloader = PreloaderFields
      /\ DOMAIN preloader.loads = Loads /\ DOMAIN preloader.stats = Stats
      /\ DOMAIN preloader.loads[l] = DOMAIN NoLoad /\ preloader.loads[l].at = "body"
      /\ \A f \in Files \ {file} : preloader.loadingFiles[f] # preloader.loadingFiles[file]
  BY CountedFacts DEF PreloaderShape, ReadChunk, ReadEnd
<1>2. /\ preloader.loadingFiles[file] = s /\ s \in Stats /\ StatOf(preloader, file) = old
      /\ CountedIn(preloader.loads[l], s, old, file)
  BY <1>1 DEF Counted, CountedIn, StatOf
<1>3. /\ ~old.done /\ DOMAIN old = DOMAIN NoStat /\ old.total = BodyLength[file]
      /\ old.loaded = preloader.loads[l].got
      /\ preloader.loads[l].size = BodyLength[file]
  BY <1>1, <1>2 DEF CountedIn
<1>4. preloader.loads[l].got \in Nat /\ BodyLength[file] \in Nat
      /\ preloader.loads[l].got <= BodyLength[file]
  BY <1>1, <1>2, PreloaderAssumption DEF CountedIn
<1>5. CASE ReadEnd(l)
  <2>1. /\ preloader'.loads = [preloader.loads EXCEPT ![l] = ended]
        /\ preloader'.loadingFiles = preloader.loadingFiles
        /\ preloader'.stats = [preloader.stats EXCEPT ![s] = done]
        /\ SameReports(preloader, preloader')
    BY <1>1, <1>5 DEF ReadEnd, PreloaderFields, SameReports
  <2>2. /\ ended.file = file /\ ended.size = preloader.loads[l].size
        /\ ended.got = preloader.loads[l].got /\ ended.at = "closed"
        /\ done.total = old.total /\ done.loaded = old.loaded /\ done.done
        /\ DOMAIN done = DOMAIN NoStat
    BY <1>1, <1>3 DEF NoLoad, NoStat
  <2>3. preloader.loads[l].got = BodyLength[file]
    BY <1>5 DEF ReadEnd
  <2> HIDE DEF file, s, old, ended, done
  <2>4. CountedIn(ended, s, done, file)
    BY <1>2, <1>3, <1>4, <2>2, <2>3 DEF CountedIn
  <2>5. Changes(preloader, preloader', l, ended, file, s, done)
    BY <1>1, <1>2, <2>1, <2>4 DEF Changes
  <2>6. NotLess(old, done)
    BY <1>3, <1>4, <2>2 DEF NotLess
  <2>7. Counting(preloader', wasm, pack) /\ Onward(preloader, preloader')
    BY <1>2, <2>5, <2>6, CountedMoves DEF file
  <2> QED
    BY <2>1, <2>7 DEF CountsOn
<1>6. CASE ReadChunk(l)
  <2>1. /\ preloader'.loads = [preloader.loads EXCEPT ![l] = read]
        /\ preloader'.loadingFiles = preloader.loadingFiles
        /\ preloader'.stats = [preloader.stats EXCEPT ![s] = more]
        /\ SameReports(preloader, preloader')
    BY <1>1, <1>3, <1>6 DEF ReadChunk, Status, PreloaderFields, SameReports
  <2>2. /\ read.file = file /\ read.size = preloader.loads[l].size
        /\ read.got = preloader.loads[l].got + 1 /\ read.at = "body" /\ read.stat = s
        /\ more.total = old.total /\ more.loaded = old.loaded + 1 /\ more.done = old.done
        /\ DOMAIN more = DOMAIN NoStat
    BY <1>1, <1>3 DEF NoLoad, NoStat
  <2>3. preloader.loads[l].got < BodyLength[file]
    BY <1>6 DEF ReadChunk
  <2> HIDE DEF file, s, old, read, more
  <2>4. CountedIn(read, s, more, file)
    <3>1. read.got \in 0..BodyLength[file]
      BY <1>4, <2>2, <2>3
    <3>2. ~more.done
      BY <1>3, <2>2
    <3> QED
      BY <1>2, <1>3, <2>2, <3>1, <3>2 DEF CountedIn
  <2>5. Changes(preloader, preloader', l, read, file, s, more)
    BY <1>1, <1>2, <2>1, <2>4 DEF Changes
  <2>6. NotLess(old, more)
    BY <1>3, <1>4, <2>2 DEF NotLess
  <2>7. Counting(preloader', wasm, pack) /\ Onward(preloader, preloader')
    BY <1>2, <2>5, <2>6, CountedMoves DEF file
  <2> QED
    BY <2>1, <2>7 DEF CountsOn
<1> QED
  BY <1>5, <1>6

\* Whatever the network does, what has come stays counted.
LEMMA DownloadCounts ==
  ASSUME NEW wasm, NEW pack, Counting(preloader, wasm, pack), NEW l \in Loads, Download(l)
  PROVE  CountsOn(wasm, pack)
<1>1. Downloading(preloader', wasm, pack)
  BY DownloadKeeps DEF Counting
<1>2. l \in {wasm, pack}
  BY DEF Counting, Downloading, Download, Respond, FetchFails, Retry, ReadChunk, ReadEnd,
         ReadFails, KeepPreloaded
<1>3. CASE Respond(l) \/ FetchFails(l) \/ ReadFails(l) \/ KeepPreloaded(l)
  <2>1. PICK load : Moves(preloader, preloader', l, load)
    BY <1>2, <1>3, NetworkMoves
  <2>2. Counting(preloader', wasm, pack) /\ Onward(preloader, preloader')
    BY <1>1, <1>2, <2>1, MovesCounted
  <2> QED
    BY <2>1, <2>2 DEF CountsOn, Moves
<1> QED
  BY <1>1, <1>2, <1>3, RetryCounts, ReadCounts DEF Download

-----------------------------------------------------------------------------
(* What a frame reports *)

\* The sum over two files, in whatever order MapThenSumSet takes them: the recursive
\* function it is defined by exists, so it is the one that is chosen.
LEMMA SumOfTwo ==
  ASSUME NEW a, NEW b, a # b, NEW count, DOMAIN count = {a, b},
         count[a] \in Nat, count[b] \in Nat
  PROVE  SumOf(count) = count[a] + count[b]
<1> DEFINE S == DOMAIN count
           Pick(s) == CHOOSE x \in s : TRUE
           Sums(g) == [s \in SUBSET S |-> IF s = {} THEN 0
                                          ELSE count[Pick(s)] + g[s \ {Pick(s)}]]
           g0 == [s \in SUBSET S |-> IF s = {} THEN 0 ELSE IF s = {a} THEN count[a]
                                     ELSE IF s = {b} THEN count[b] ELSE count[a] + count[b]]
           sum == CHOOSE g : g = Sums(g)
<1>1. SumOf(count) = sum[S]
  BY DEF SumOf, MapThenSumSet, MapThenFoldSet
<1>2. SUBSET S = {{}, {a}, {b}, S}
  OBVIOUS
<1>3. Pick({a}) = a /\ Pick({b}) = b /\ (Pick(S) = a \/ Pick(S) = b)
  OBVIOUS
<1> HIDE DEF Pick
<1>4. ASSUME NEW g
      PROVE  /\ Sums(g)[{}] = 0
             /\ g[{}] = 0 => Sums(g)[{a}] = count[a] /\ Sums(g)[{b}] = count[b]
             /\ g[{a}] = count[a] /\ g[{b}] = count[b] => Sums(g)[S] = count[a] + count[b]
  <2>1. \A s \in SUBSET S : Sums(g)[s] = IF s = {} THEN 0 ELSE count[Pick(s)] + g[s \ {Pick(s)}]
    OBVIOUS
  <2>2. {a} \ {a} = {} /\ {b} \ {b} = {} /\ S \ {a} = {b} /\ S \ {b} = {a}
    OBVIOUS
  <2> HIDE DEF Sums
  <2>3. Sums(g)[{}] = 0
    BY <2>1
  <2>4. Sums(g)[{a}] = count[a] + g[{a} \ {a}] /\ Sums(g)[{b}] = count[b] + g[{b} \ {b}]
    BY <1>3, <2>1
  <2>5. Sums(g)[S] = count[Pick(S)] + g[S \ {Pick(S)}]
    BY <2>1
  <2>6. Sums(g)[S] = count[a] + g[S \ {a}] \/ Sums(g)[S] = count[b] + g[S \ {b}]
    BY <1>3, <2>5
  <2>7. g[{}] = 0 => Sums(g)[{a}] = count[a] /\ Sums(g)[{b}] = count[b]
    BY <2>2, <2>4
  <2> HIDE DEF S
  <2>8. ASSUME g[{a}] = count[a], g[{b}] = count[b] PROVE Sums(g)[S] = count[a] + count[b]
    <3>1. g[S \ {a}] = count[b] /\ g[S \ {b}] = count[a]
      BY <2>2, <2>8
    <3>2. Sums(g)[S] = count[a] + count[b] \/ Sums(g)[S] = count[b] + count[a]
      BY <2>6, <3>1
    <3>3. count[a] + count[b] = count[b] + count[a]
      OBVIOUS
    <3> QED
      BY <3>2, <3>3
  <2> QED
    BY <2>3, <2>7, <2>8
<1>5. g0 = Sums(g0)
  <2>1. {a} # {} /\ {b} # {} /\ S # {} /\ {a} # {b} /\ S # {a} /\ S # {b}
    OBVIOUS
  <2>2. g0[{}] = 0 /\ g0[{a}] = count[a] /\ g0[{b}] = count[b] /\ g0[S] = count[a] + count[b]
    BY <1>2, <2>1
  <2>3. /\ DOMAIN g0 = SUBSET S /\ DOMAIN Sums(g0) = SUBSET S
        /\ g0 = [s \in SUBSET S |-> g0[s]] /\ Sums(g0) = [s \in SUBSET S |-> Sums(g0)[s]]
    OBVIOUS
  <2> HIDE DEF g0, Sums, S
  <2>4. /\ Sums(g0)[{}] = 0 /\ Sums(g0)[{a}] = count[a] /\ Sums(g0)[{b}] = count[b]
        /\ Sums(g0)[S] = count[a] + count[b]
    BY <1>4, <2>2
  <2>5. \A s \in SUBSET S : g0[s] = Sums(g0)[s]
    BY <1>2, <2>2, <2>4
  <2> QED
    BY <2>3, <2>5
<1>6. sum = Sums(sum)
  BY <1>5
<1> HIDE DEF Sums, sum, S
<1>7. sum[{}] = 0
  BY <1>4, <1>6
<1>8. sum[{a}] = count[a] /\ sum[{b}] = count[b]
  BY <1>4, <1>6, <1>7
<1>9. sum[S] = count[a] + count[b]
  BY <1>4, <1>6, <1>8
<1> QED
  BY <1>1, <1>9 DEF S

LEMMA GotType ==
  ASSUME NEW p, NEW wasm, NEW pack, Counting(p, wasm, pack)
  PROVE  /\ StatOf(p, Engine_wasm).loaded \in Nat /\ StatOf(p, ThePack).loaded \in Nat
         /\ Got(p) \in 0..Whole /\ Whole \in Nat /\ (Done(p) => Got(p) = Whole)
<1>1. /\ StatOf(p, Engine_wasm).loaded \in 0..BodyLength[Engine_wasm]
      /\ StatOf(p, ThePack).loaded \in 0..BodyLength[ThePack]
      /\ StatOf(p, Engine_wasm).done =>
           StatOf(p, Engine_wasm).loaded = BodyLength[Engine_wasm]
      /\ StatOf(p, ThePack).done => StatOf(p, ThePack).loaded = BodyLength[ThePack]
  BY DEF Counting, Counted, CountedIn
<1>2. Done(p) => Got(p) = Whole
  BY <1>1 DEF Done, Got, Whole
<1> QED
  BY <1>1, <1>2, TwoFiles DEF Got, Whole

\* What animateProgress computes.
LEMMA ProgressIs ==
  ASSUME SizesKnown, NEW wasm, NEW pack, Counting(preloader, wasm, pack)
  PROVE  /\ Progress = [loaded |-> Got(preloader), total |-> Whole]
         /\ ProgressIsFinal <=> Done(preloader)
<1>1. LoadingFiles = {Engine_wasm, ThePack}
  <2>1. /\ preloader.loadingFiles[Engine_wasm] # None
        /\ preloader.loadingFiles[ThePack] # None
    BY PreloaderAssumption DEF Counting, Counted
  <2> QED
    BY <2>1, TwoFiles DEF LoadingFiles, Counting
<1>2. \A f : StatusOf(f) = StatOf(preloader, f)
  BY DEF StatusOf, StatOf
<1>3. /\ StatusOf(Engine_wasm).total = BodyLength[Engine_wasm]
      /\ StatusOf(ThePack).total = BodyLength[ThePack]
  BY <1>2 DEF Counting, Counted, CountedIn
<1>4. /\ StatusOf(Engine_wasm).loaded \in Nat /\ StatusOf(ThePack).loaded \in Nat
      /\ StatusOf(Engine_wasm).total \in Nat /\ StatusOf(ThePack).total \in Nat
      /\ StatusOf(Engine_wasm).total # 0 /\ StatusOf(ThePack).total # 0
  BY <1>2, <1>3, GotType, TwoFiles DEF SizesKnown
<1>5. Loaded = StatusOf(Engine_wasm).loaded + StatusOf(ThePack).loaded
  <2> DEFINE count == [f \in LoadingFiles |-> StatusOf(f).loaded]
  <2>1. /\ DOMAIN count = {Engine_wasm, ThePack}
        /\ count[Engine_wasm] = StatusOf(Engine_wasm).loaded
        /\ count[ThePack] = StatusOf(ThePack).loaded
    BY <1>1
  <2>2. Loaded = SumOf(count)
    BY DEF Loaded
  <2> HIDE DEF count
  <2> QED
    BY <1>4, <2>1, <2>2, TwoFiles, SumOfTwo
<1>6. Total = StatusOf(Engine_wasm).total + StatusOf(ThePack).total
  <2> DEFINE count == [f \in LoadingFiles |-> StatusOf(f).total]
  <2>1. /\ DOMAIN count = {Engine_wasm, ThePack}
        /\ count[Engine_wasm] = StatusOf(Engine_wasm).total
        /\ count[ThePack] = StatusOf(ThePack).total
    BY <1>1
  <2>2. Total = SumOf(count)
    BY <1>1, <1>4 DEF Total
  <2> HIDE DEF count
  <2> QED
    BY <1>4, <2>1, <2>2, TwoFiles, SumOfTwo
<1>7. Loaded = Got(preloader) /\ Total = Whole
  BY <1>2, <1>3, <1>5, <1>6 DEF Got, Whole
<1>8. ProgressIsFinal <=> Done(preloader)
  BY <1>1, <1>2 DEF ProgressIsFinal, Done
<1> QED
  BY <1>7, <1>8 DEF Progress

\* What was reported stays true while more comes.
LEMMA ReportsStay ==
  ASSUME NEW p, NEW q, Reports(p), Onward(p, q), SameReports(p, q),
         Got(p) \in Nat, Got(q) \in Nat
  PROVE  Reports(q)
<1>1. q.reported.loaded \in 0..Got(q)
  BY DEF Reports, Onward, SameReports
<1> QED
  BY <1>1 DEF Reports, SameReports

\* A step of the Preloader keeps BarOK, and does not move the bar back.
BarGoesOn == BarOK' /\ preloader'.reported.loaded >= preloader.reported.loaded

LEMMA ReportedType ==
  ASSUME BarOK
  PROVE  /\ preloader.reported.loaded \in Nat /\ preloader.reported.loaded <= Got(preloader)
         /\ Got(preloader) \in Nat /\ preloader.reported.loaded >= preloader.reported.loaded
<1>1. Got(preloader) \in Nat
  BY GotType DEF BarOK
<1> QED
  BY <1>1 DEF BarOK, Reports

LEMMA BarDownloads ==
  ASSUME BarOK, NEW l \in Loads, Download(l)
  PROVE  BarGoesOn
<1>1. PICK wasm \in Loads, pack \in Loads : Counting(preloader, wasm, pack)
  BY DEF BarOK
<1>2. CountsOn(wasm, pack)
  BY <1>1, DownloadCounts
<1>3. Reports(preloader')
  <2>1. Got(preloader) \in Nat /\ Got(preloader') \in Nat
    BY <1>1, <1>2, GotType DEF CountsOn
  <2> QED
    BY <1>2, <2>1, ReportsStay DEF BarOK, CountsOn
<1>4. UNCHANGED frames
  BY DEF Download, Respond, FetchFails, Retry, ReadChunk, ReadEnd, ReadFails, KeepPreloaded
<1>5. FramesOK'
  BY <1>2, <1>4 DEF BarOK, FramesOK, CountsOn, Onward, SameReports
<1>6. preloader'.reported.loaded >= preloader.reported.loaded
  BY <1>2, ReportedType DEF CountsOn, SameReports
<1> QED
  BY <1>2, <1>3, <1>5, <1>6 DEF BarGoesOn, BarOK, CountsOn

\* The statuses are what they were, and so is what is counted.
LEMMA SameCounting ==
  ASSUME NEW p, NEW q, NEW wasm, NEW pack, Counting(p, wasm, pack),
         q.loads = p.loads, q.loadingFiles = p.loadingFiles, q.stats = p.stats,
         Downloading(q, wasm, pack)
  PROVE  Counting(q, wasm, pack) /\ Got(q) = Got(p) /\ (Done(q) <=> Done(p))
<1>1. \A f : StatOf(q, f) = StatOf(p, f)
  BY DEF StatOf
<1> QED
  BY <1>1 DEF Counting, Counted, Got, Done

LEMMA BarFrames ==
  ASSUME SizesKnown, BarOK, AnimateProgress
  PROVE  BarGoesOn
<1>1. PICK wasm \in Loads, pack \in Loads : Counting(preloader, wasm, pack)
  BY DEF BarOK
<1>2. /\ Progress = [loaded |-> Got(preloader), total |-> Whole]
      /\ ProgressIsFinal <=> Done(preloader)
  BY <1>1, ProgressIs
<1>3. /\ Got(preloader) \in 0..Whole /\ Whole \in Nat
      /\ Done(preloader) => Got(preloader) = Whole
  BY <1>1, GotType
<1>4. Report /\ frames > 0 /\ frames' = IF ProgressIsFinal THEN frames - 1 ELSE frames
  BY DEF AnimateProgress
<1>5. /\ preloader'.loads = preloader.loads
      /\ preloader'.loadingFiles = preloader.loadingFiles
      /\ preloader'.stats = preloader.stats
      /\ preloader'.progressFunc = preloader.progressFunc
      /\ preloader'.lastProgress = Progress
      /\ preloader'.reported = Progress
  BY <1>1, <1>4 DEF Report, BarOK, Reports, Counting, Downloading, PreloaderShape,
                    PreloaderFields
<1>6. Downloading(preloader', wasm, pack)
  BY <1>1, <1>4, ReportKeeps DEF Counting
<1>7. /\ Counting(preloader', wasm, pack) /\ Got(preloader') = Got(preloader)
      /\ Done(preloader') <=> Done(preloader)
  BY <1>1, <1>5, <1>6, SameCounting
<1>8. Reports(preloader')
  <2>1. /\ DOMAIN Progress = {"loaded", "total"} /\ Progress.loaded = Got(preloader)
        /\ Progress.total = Whole
    BY <1>2
  <2> QED
    BY <1>3, <1>5, <1>7, <2>1 DEF BarOK, Reports
<1>9. FramesOK'
  <2>1. frames = 1 /\ (frames' = 0 => Done(preloader)) /\ frames' \in {0, 1}
    BY <1>2, <1>4 DEF BarOK, FramesOK
  <2>2. Done(preloader) => preloader'.reported = [loaded |-> Whole, total |-> Whole]
    BY <1>2, <1>3, <1>5
  <2> QED
    BY <1>7, <2>1, <2>2 DEF FramesOK
<1>10. preloader'.reported.loaded >= preloader.reported.loaded
  BY <1>2, <1>5, ReportedType
<1> QED
  BY <1>7, <1>8, <1>9, <1>10 DEF BarGoesOn, BarOK

\* callMain's files are taken from the Preloader, which shows nothing of it.
LEMMA BarStays ==
  ASSUME BarOK, UNCHANGED frames,
         preloader' \in {preloader, [preloader EXCEPT !.preloadedFiles = <<>>]}
  PROVE  BarGoesOn
<1>1. PICK wasm \in Loads, pack \in Loads : Counting(preloader, wasm, pack)
  BY DEF BarOK
<1>2. /\ DOMAIN preloader' = PreloaderFields
      /\ preloader'.loads = preloader.loads
      /\ preloader'.loadingFiles = preloader.loadingFiles
      /\ preloader'.stats = preloader.stats
      /\ preloader'.preloadedFiles \in {preloader.preloadedFiles, <<>>}
      /\ SameReports(preloader, preloader')
  BY <1>1 DEF Counting, Downloading, PreloaderShape, PreloaderFields, SameReports
<1>3. Downloading(preloader', wasm, pack)
  BY <1>1, <1>2 DEF Counting, Downloading, PreloaderShape, WasmOK, PackOK
<1>4. /\ Counting(preloader', wasm, pack) /\ Got(preloader') = Got(preloader)
      /\ Done(preloader') <=> Done(preloader)
  BY <1>1, <1>2, <1>3, SameCounting
<1>5. Reports(preloader') /\ FramesOK'
  BY <1>2, <1>4 DEF BarOK, Reports, FramesOK, SameReports
<1>6. preloader'.reported.loaded >= preloader.reported.loaded
  BY <1>2, ReportedType DEF SameReports
<1> QED
  BY <1>4, <1>5, <1>6 DEF BarGoesOn, BarOK

\* startGame has begun two downloads, of which nothing has come.
LEMMA BarStarts ==
  ASSUME SizesKnown, EngineInit, PageLoads
  PROVE  BarGoesOn
<1> DEFINE wasmSize == SizeOf(Configuration, Engine_wasm)
           packSize == SizeOf(Configuration, ThePack)
<1> DEFINE Begins(wasm, p1) ==
        /\ Loading(preloader, p1, wasm, Engine_wasm, wasmSize, TRUE, None)
        /\ p1.progressFunc = "statusProgress"
        /\ p1.lastProgress = preloader.lastProgress /\ p1.reported = preloader.reported
        /\ Cardinality(FreeLoads(preloader)) >= 2
        /\ preloader' = LoadPromise(p1, ThePack, packSize, FALSE, ThePack)
<1>0. PICK wasm \in Loads : \E p1 : Begins(wasm, p1)
  BY DEF PageLoads
<1>1. PICK p1 : Begins(wasm, p1)
  BY <1>0
<1>2. /\ \A l \in Loads : preloader.loads[l].at = "free"
      /\ \A f \in Files : preloader.loadingFiles[f] = None
      /\ preloader.preloadedFiles = <<>>
      /\ preloader.lastProgress = [loaded |-> 0, total |-> 0]
      /\ preloader.reported = [loaded |-> 0, total |-> 0]
  BY DEF EngineInit, PreloaderInit, NoLoad
<1>3. wasmSize = BodyLength[Engine_wasm] /\ packSize = BodyLength[ThePack]
      /\ BodyLength[Engine_wasm] > 0 /\ BodyLength[ThePack] > 0
  BY DEF SizesKnown
<1> HIDE DEF wasmSize, packSize
<1> DEFINE pack == NextLoad(p1)
<1>4. /\ Downloading(preloader', wasm, pack)
      /\ Loading(p1, preloader', pack, ThePack, packSize, FALSE, ThePack)
      /\ SameReports(p1, preloader')
  BY <1>1, <1>2, TwoDownloads
<1> HIDE DEF pack
<1>5. /\ pack \in Loads /\ wasm # pack /\ DOMAIN preloader'.stats = Stats
      /\ PreloaderShape(preloader')
  BY <1>4 DEF Downloading, PreloaderShape
<1>6. \A size : LET stat == [NoStat EXCEPT !.total = size] IN
        stat.total = size /\ stat.loaded = 0 /\ ~stat.done /\ DOMAIN stat = DOMAIN NoStat
  BY DEF NoStat
<1>7. Counted(preloader', pack, ThePack)
  <2>1. /\ preloader'.loads[pack].at = "fetch" /\ preloader'.loads[pack].file = ThePack
        /\ preloader'.loads[pack].size = packSize /\ preloader'.loads[pack].got = 0
        /\ preloader'.loadingFiles[ThePack] \in Stats
        /\ StatOf(preloader', ThePack) = [NoStat EXCEPT !.total = packSize]
    BY <1>4 DEF Loading, StatOf
  <2> QED
    BY <1>3, <1>6, <2>1, TwoFiles DEF Counted, CountedIn
<1>8. Counted(preloader', wasm, Engine_wasm)
  <2>1. /\ p1.loads[wasm].at = "fetch" /\ p1.loads[wasm].file = Engine_wasm
        /\ p1.loads[wasm].size = wasmSize /\ p1.loads[wasm].got = 0
        /\ p1.loadingFiles[Engine_wasm] \in Stats
        /\ p1.stats[p1.loadingFiles[Engine_wasm]] = [NoStat EXCEPT !.total = wasmSize]
    BY <1>1 DEF Loading
  <2>2. /\ preloader'.loads[wasm] = p1.loads[wasm]
        /\ preloader'.loadingFiles[Engine_wasm] = p1.loadingFiles[Engine_wasm]
        /\ preloader'.loadingFiles[Engine_wasm] # preloader'.loadingFiles[ThePack]
    BY <1>4, <1>5, TwoFiles DEF Loading
  <2>3. StatOf(preloader', Engine_wasm) = [NoStat EXCEPT !.total = wasmSize]
    BY <1>4, <2>1, <2>2 DEF Loading, StatOf
  <2> QED
    BY <1>3, <1>6, <2>1, <2>2, <2>3, TwoFiles DEF Counted, CountedIn
<1>9. \A f \in Files \ {Engine_wasm, ThePack} : preloader'.loadingFiles[f] = None
  <2>1. \A f \in Files \ {Engine_wasm} : p1.loadingFiles[f] = None
    BY <1>1, <1>2 DEF Loading
  <2>2. \A f \in Files \ {ThePack} : preloader'.loadingFiles[f] = p1.loadingFiles[f]
    BY <1>4 DEF Loading
  <2> QED
    BY <2>1, <2>2
<1>10. Counting(preloader', wasm, pack)
  BY <1>4, <1>7, <1>8, <1>9 DEF Counting
<1>11. preloader'.reported = [loaded |-> 0, total |-> 0]
       /\ preloader'.lastProgress = [loaded |-> 0, total |-> 0]
       /\ preloader'.progressFunc = "statusProgress"
  BY <1>1, <1>2, <1>4 DEF SameReports
<1>12. Reports(preloader')
  <2>1. Got(preloader') \in Nat
    BY <1>10, GotType
  <2> QED
    BY <1>11, <2>1, PageAssumption DEF Reports
<1>13. FramesOK'
  BY DEF PageLoads, FramesOK
<1> QED
  BY <1>2, <1>5, <1>10, <1>11, <1>12, <1>13 DEF BarGoesOn, BarOK

LEMMA BarEngineStep ==
  ASSUME SizesKnown, PageInv, GameStarts, BarOK, EngineStep
  PROVE  BarGoesOn
<1>1. CASE Downloads
  BY <1>1, BarDownloads DEF Downloads
<1>2. CASE Frames
  BY <1>2, BarFrames DEF Frames
<1>3. ASSUME NEW c \in Calls, StartGameLoaded(c) PROVE BarGoesOn
  <2> DEFINE e == calls[c].owner
             s == Init(Shared, e, config[e], None)
  <2>1. TheCall.at = "loading"
    BY <1>3, ItsCall DEF StartGameLoaded
  <2>2. engine.initPromise # None
    BY <2>1, EngineAssumption DEF GameStarts, BeforeMain, OneCall
  <2>3. s = Shared
    BY <2>2 DEF Init, Shared
  <2>4. Become(s)
    BY <1>3 DEF StartGameLoaded
  <2> HIDE DEF s, e
  <2>5. UNCHANGED <<preloader, frames>>
    BY <2>3, <2>4 DEF Become, Shared
  <2> QED
    BY <2>5, BarStays
<1>4. ASSUME NEW c \in Calls, StartInitialised(c) PROVE BarGoesOn
  <2>1. UNCHANGED frames
    BY <1>4 DEF StartInitialised
  <2>2. preloader' \in {preloader, [preloader EXCEPT !.preloadedFiles = <<>>]}
    BY <1>4 DEF StartInitialised, StartRefused, StartRuns, RunMain
  <2> QED
    BY <2>1, <2>2, BarStays
<1>5. ASSUME NEW c \in Calls, StartGameFails(c) \/ StartFails(c) PROVE BarGoesOn
  <2>1. UNCHANGED <<preloader, frames>>
    BY <1>5 DEF StartGameFails, StartFails
  <2> QED
    BY <2>1, BarStays
<1>6. ASSUME NEW i \in Inits, Instantiate(i) \/ Instantiated(i) \/ InitFSDone(i) \/ Exit(i)
      PROVE  BarGoesOn
  <2>1. UNCHANGED <<preloader, frames>>
    BY <1>6 DEF Instantiate, Instantiated, InitFSDone, Exit
  <2> QED
    BY <2>1, BarStays
<1> QED
  BY <1>1, <1>2, <1>3, <1>4, <1>5, <1>6 DEF EngineStep, Continuations

\* The bar stays right and does not go back, as long as the page is alone.
BarStep == BarInv' /\ (Alone' => preloader'.reported.loaded >= preloader.reported.loaded)

LEMMA NothingReported ==
  ASSUME EngineInit
  PROVE  preloader.reported.loaded = 0 /\ preloader.reported.total = 0
<1>1. preloader.reported = [loaded |-> 0, total |-> 0]
  BY DEF EngineInit, PreloaderInit
<1> QED
  BY <1>1

LEMMA BarUnchanged ==
  ASSUME AloneInv, BarInv, UNCHANGED <<preloader, frames, pageCall, otherCalls>>
  PROVE  BarStep
<1>1. CASE ~Alone
  BY <1>1 DEF BarStep, BarInv, Alone
<1>2. CASE Alone /\ pageCall = None
  <2>1. preloader'.reported.loaded >= preloader.reported.loaded
    BY <1>2, NothingReported DEF AloneInv
  <2> QED
    BY <1>2, <2>1 DEF BarStep, BarInv
<1>3. CASE Alone /\ pageCall # None
  <2>1. BarGoesOn
    BY <1>3, BarStays DEF BarInv
  <2> QED
    BY <2>1 DEF BarGoesOn, BarStep, BarInv
<1> QED
  BY <1>1, <1>2, <1>3

LEMMA NextBar ==
  ASSUME SizesKnown, PageInv, AloneInv, BarInv, [Next]_vars
  PROVE  BarStep
<1>1. CASE OpenPage
  <2>1. CASE GetMissingFeatures(GODOT_THREADS_ENABLED) # {}
    <3>1. UNCHANGED <<preloader, frames, pageCall, otherCalls>>
      BY <1>1, <2>1 DEF OpenPage, engineVars
    <3> QED
      BY <3>1, BarUnchanged
  <2>2. CASE GetMissingFeatures(GODOT_THREADS_ENABLED) = {}
    <3>1. EngineInit
      BY <1>1 DEF OpenPage, AloneInv
    <3>2. PageLoads
      BY <1>1, <2>2, <3>1, StartGameStarts DEF OpenPage
    <3>3. BarGoesOn
      BY <3>1, <3>2, BarStarts
    <3> QED
      BY <3>3 DEF BarGoesOn, BarStep, BarInv
  <2> QED
    BY <2>1, <2>2
<1>2. CASE GameStarted \/ GameFailed \/ UNCHANGED vars
  <2>1. UNCHANGED <<preloader, frames, pageCall, otherCalls>>
    BY <1>2 DEF GameStarted, GameFailed, vars, engineVars
  <2> QED
    BY <2>1, BarUnchanged
<1>3. CASE EngineStep /\ UNCHANGED pageVars
  <2>1. UNCHANGED <<pageCall, otherCalls>>
    BY <1>3 DEF pageVars
  <2>2. pageCall # None
    BY <1>3, NothingToDo DEF AloneInv
  <2>3. CASE Alone
    <3>1. GameStarts /\ BarOK
      BY <2>2, <2>3 DEF AloneInv, BarInv
    <3>2. BarGoesOn
      BY <1>3, <3>1, BarEngineStep
    <3> QED
      BY <3>2 DEF BarGoesOn, BarStep, BarInv
  <2>4. CASE ~Alone
    BY <2>1, <2>4 DEF Alone, BarStep, BarInv
  <2> QED
    BY <2>3, <2>4
<1>4. CASE OtherCall
  <2>1. otherCalls \in Nat /\ otherCalls' = otherCalls + 1
    BY <1>4 DEF OtherCall, AloneInv
  <2>2. ~Alone'
    BY <2>1 DEF Alone
  <2> QED
    BY <2>2 DEF BarStep, BarInv
<1> QED
  BY <1>1, <1>2, <1>3, <1>4 DEF Next

LEMMA InitAlone == PageInit => AloneInv /\ BarInv
<1> SUFFICES ASSUME PageInit PROVE AloneInv /\ BarInv
  OBVIOUS
<1>1. otherCalls \in Nat /\ pageCall = None
  BY DEF PageInit
<1>2. EngineInit
  BY DEF PageInit
<1> QED
  BY <1>1, <1>2 DEF AloneInv, BarInv

\* Until another script uses the Engine the page's downloads are counted, each once,
\* whatever fails and is tried again.
THEOREM BarInvariant ==
  ASSUME SizesKnown
  PROVE  Spec => [](PageInv /\ AloneInv /\ BarInv)
<1>1. PageInv /\ AloneInv /\ BarInv /\ [Next]_vars => BarInv'
  BY NextBar DEF BarStep
<1> QED
  BY <1>1, InitAlone, PageInvariant, NextAloneInv, PTL DEF Spec

\* animateProgress never goes over the end of the bar, and asks for no more frames
\* only when everything has come and has been reported.
THEOREM BarTellsTheTruth ==
  ASSUME SizesKnown
  PROVE  Spec => []BarReachesItsEnd
<1>1. PageInv /\ AloneInv /\ BarInv => BarReachesItsEnd
  <2> SUFFICES ASSUME AloneInv, BarInv, Alone
               PROVE  /\ preloader.reported.loaded <= preloader.reported.total
                      /\ pageCall # None /\ frames = 0 =>
                           /\ ProgressIsFinal
                           /\ preloader.reported = [loaded |-> Total, total |-> Total]
    BY DEF BarReachesItsEnd
  <2>1. CASE pageCall = None
    BY <2>1, NothingReported DEF AloneInv
  <2>2. CASE pageCall # None
    <3>1. BarOK
      BY <2>2 DEF BarInv
    <3>2. PICK wasm \in Loads, pack \in Loads : Counting(preloader, wasm, pack)
      BY <3>1 DEF BarOK
    <3>3. /\ Total = Whole /\ (ProgressIsFinal <=> Done(preloader))
          /\ Got(preloader) \in 0..Whole /\ Whole \in Nat
      BY <3>2, ProgressIs, GotType DEF Progress
    <3>4. preloader.reported.loaded <= preloader.reported.total
      BY <3>1, <3>3 DEF BarOK, Reports
    <3> QED
      BY <3>1, <3>3, <3>4 DEF BarOK, FramesOK
  <2> QED
    BY <2>1, <2>2
<1> QED
  BY <1>1, BarInvariant, PTL

\* Nothing that has been shown on the bar is taken back when an attempt fails.
THEOREM BarGoesForward ==
  ASSUME SizesKnown
  PROVE  Spec => BarNeverBack
<1>1. PageInv /\ AloneInv /\ BarInv /\ [Next]_vars
        => [Alone' => preloader'.reported.loaded >= preloader.reported.loaded]_vars
  BY NextBar DEF BarStep
<1> QED
  BY <1>1, BarInvariant, PTL DEF Spec, BarNeverBack
=============================================================================
