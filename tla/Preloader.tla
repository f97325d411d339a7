------------------------------ MODULE Preloader ------------------------------
(***************************************************************************)
(* The Preloader of the game client's index.js: downloads with retries,    *)
(* the progress they report, and the files kept for the engine.  A promise *)
(* is where its download is; a continuation is an action that is enabled   *)
(* when its promise has settled.  Bodies are read in chunks.               *)
(***************************************************************************)
EXTENDS EngineConfig, FiniteSets, FiniteSetsExt

CONSTANTS Loads,       \* calls of loadPromise, in the order they are made
          Stats,       \* identities of the load_status objects
          Files,       \* what is downloaded
          BodyLength,  \* the number of chunks of each file
          DOWNLOAD_ATTEMPTS_MAX  \* 4 in the code

ASSUME PreloaderAssumption ==
    /\ BodyLength \in [Files -> Nat] /\ DOWNLOAD_ATTEMPTS_MAX \in Nat \ {0}
    /\ Loads \subseteq Nat /\ None \notin Files /\ None \notin Stats
    /\ IsFiniteSet(Files) /\ IsFiniteSet(Loads)
    /\ Cardinality(Stats) > Cardinality(Files) + Cardinality(Loads)

VARIABLES preloader, \* the variables of the Preloader
          frames     \* requestAnimationFrame(animateProgress) that are pending

\* Where a download is.  "fetch": no response yet; "body": its stream is read;
\* "lost": reading failed and the stream is never closed; "timer": waits for the
\* next attempt; "closed": the stream was closed; "rejected": given up.
NoLoad == [at |-> "free", file |-> None, raw |-> FALSE, size |-> 0, dest |-> None,
           attempts |-> 0, stat |-> None, got |-> 0]

NoStat == [total |-> 0, loaded |-> 0, done |-> FALSE]

PreloaderInit ==
    /\ preloader = [loads |-> [l \in Loads |-> NoLoad],
                    loadingFiles |-> [f \in Files |-> None],
                    stats |-> [s \in Stats |-> NoStat],
                    lastProgress |-> [loaded |-> 0, total |-> 0],
                    progressFunc |-> None,
                    reported |-> [loaded |-> 0, total |-> 0],
                    preloadedFiles |-> <<>>]
    /\ frames = 0

FreeLoads(p) == {l \in Loads : p.loads[l].at = "free"}

\* The objects somebody refers to.
UsedStats(p) ==
    {p.loadingFiles[f] : f \in Files} \cup {p.loads[l].stat : l \in Loads}

\* loadFetch: a new status object takes the place of the file's last one.
LoadFetch(p, l) ==
    LET file == p.loads[l].file
        s == CHOOSE x \in Stats \ UsedStats(p) : TRUE
    IN [p EXCEPT !.loads[l].at = "fetch",
                 !.loads[l].stat = None,
                 !.loadingFiles[file] = s,
                 !.stats[s] = [NoStat EXCEPT !.total = p.loads[l].size]]

\* The download the next call of loadPromise is.
NextLoad(p) == Min(FreeLoads(p))

\* loadPromise: retry loadFetch up to DOWNLOAD_ATTEMPTS_MAX times.
LoadPromise(p, file, size, raw, dest) ==
    LET l == NextLoad(p) IN
    LoadFetch([p EXCEPT !.loads[l] =
                 [NoLoad EXCEPT !.file = file, !.size = size, !.raw = raw,
                                !.dest = dest, !.attempts = DOWNLOAD_ATTEMPTS_MAX]], l)

\* The promise of a raw download is resolved by the response.
Resolved(l) ==
    \/ preloader.loads[l].raw /\ preloader.loads[l].at \in {"body", "lost", "closed"}
    \/ preloader.loads[l].at = "kept"

Rejected(l) == preloader.loads[l].at = "rejected"

-----------------------------------------------------------------------------
\* The response is there; the stream counts into whatever object the file has now.
Respond(l) ==
    /\ preloader.loads[l].at = "fetch"
    /\ preloader' = [preloader EXCEPT
         !.loads[l].at = "body", !.loads[l].attempts = 0,
         !.loads[l].stat = preloader.loadingFiles[preloader.loads[l].file]]
    /\ UNCHANGED frames

\* A mutated form of FetchFails: the attempts are not counted.
FetchFailsForever(l) ==
    /\ preloader.loads[l].at = "fetch"
    /\ preloader' = [preloader EXCEPT !.loads[l].at = "timer"]
    /\ UNCHANGED frames

\* fetch fails, or the response is not ok: retry's onerror.
FetchFails(l) ==
    /\ preloader.loads[l].at = "fetch"
    /\ preloader' =
         IF preloader.loads[l].attempts <= 1
         THEN [preloader EXCEPT !.loads[l].at = "rejected"]
         ELSE [preloader EXCEPT !.loads[l].at = "timer", !.loads[l].attempts = @ - 1]
    /\ UNCHANGED frames

\* The timer of one second has run out.
Retry(l) ==
    /\ preloader.loads[l].at = "timer"
    /\ preloader' = LoadFetch(preloader, l)
    /\ UNCHANGED frames

Status(l) == preloader.stats[preloader.loads[l].stat]

\* A mutated form of ReadChunk: the end of the body is read like a chunk.
ReadChunkPastEnd(l) ==
    /\ preloader.loads[l].at = "body"
    /\ preloader.loads[l].got <= BodyLength[preloader.loads[l].file]
    /\ preloader' =
         IF Status(l).done
         THEN [preloader EXCEPT !.loads[l].at = "closed", !.loads[l].stat = None]
         ELSE [preloader EXCEPT !.loads[l].got = @ + 1,
                                !.stats[preloader.loads[l].stat].loaded = @ + 1]
    /\ UNCHANGED frames

\* A read returns a chunk.  When the status says done the rest is given up.
ReadChunk(l) ==
    /\ preloader.loads[l].at = "body"
    /\ preloader.loads[l].got < BodyLength[preloader.loads[l].file]
    /\ preloader' =
         IF Status(l).done
         THEN [preloader EXCEPT !.loads[l].at = "closed", !.loads[l].stat = None]
         ELSE [preloader EXCEPT !.loads[l].got = @ + 1,
                                !.stats[preloader.loads[l].stat].loaded = @ + 1]
    /\ UNCHANGED frames

\* A read finds the end of the body.
ReadEnd(l) ==
    /\ preloader.loads[l].at = "body"
    /\ preloader.loads[l].got = BodyLength[preloader.loads[l].file]
    /\ preloader' = [preloader EXCEPT
         !.stats[preloader.loads[l].stat].done = TRUE,
         !.loads[l].at = "closed", !.loads[l].stat = None]
    /\ UNCHANGED frames

\* A mutated form of ReadFails: the download is tried again.
ReadFailsRetried(l) ==
    /\ preloader.loads[l].at = "body"
    /\ preloader' = LoadFetch([preloader EXCEPT !.loads[l].got = 0], l)
    /\ UNCHANGED frames

\* A read fails: controller.close is never called, nor is an error passed on.
ReadFails(l) ==
    /\ preloader.loads[l].at = "body"
    /\ preloader' = [preloader EXCEPT !.loads[l].at = "lost", !.loads[l].stat = None]
    /\ UNCHANGED frames

\* The continuation of preload keeps the buffer.
KeepPreloaded(l) ==
    /\ preloader.loads[l].at = "closed" /\ ~preloader.loads[l].raw
    /\ preloader' = [preloader EXCEPT
         !.loads[l].at = "kept",
         !.preloadedFiles = Append(@, [path |-> preloader.loads[l].dest,
                                       file |-> preloader.loads[l].file,
                                       length |-> preloader.loads[l].got])]
    /\ UNCHANGED frames

Download(l) ==
    \/ Respond(l) \/ FetchFails(l) \/ Retry(l)
    \/ ReadChunk(l) \/ ReadEnd(l) \/ ReadFails(l) \/ KeepPreloaded(l)

-----------------------------------------------------------------------------
(* animateProgress *)

LoadingFiles == {f \in Files : preloader.loadingFiles[f] # None}

StatusOf(f) == preloader.stats[preloader.loadingFiles[f]]

\* What the files have, added up.
SumOf(count) == MapThenSumSet(LAMBDA f : count[f], DOMAIN count)

Loaded == SumOf([f \in LoadingFiles |-> StatusOf(f).loaded])

\* Zero when the size of one of the files is not known.
Total ==
    IF \E f \in LoadingFiles : StatusOf(f).total = 0 THEN 0
    ELSE SumOf([f \in LoadingFiles |-> StatusOf(f).total])

ProgressIsFinal == \A f \in LoadingFiles : StatusOf(f).done

Progress == [loaded |-> Loaded, total |-> Total]

Report ==
    preloader' = [preloader EXCEPT
        !.lastProgress = Progress,
        !.reported = IF preloader.progressFunc # None /\ Progress # preloader.lastProgress
                     THEN Progress ELSE @]

\* A mutated form of AnimateProgress: the last frame does not report.
AnimateProgressNotLast ==
    /\ frames > 0
    /\ IF ProgressIsFinal THEN UNCHANGED preloader ELSE Report
    /\ frames' = IF ProgressIsFinal THEN frames - 1 ELSE frames

\* progressFunc is called when something has changed since the last frame; the
\* next frame is asked for until all downloads are done.
AnimateProgress ==
    /\ frames > 0
    /\ Report
    /\ frames' = IF ProgressIsFinal THEN frames - 1 ELSE frames
=============================================================================
