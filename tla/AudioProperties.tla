--------------------------- MODULE AudioProperties ---------------------------
(* What makes the audio driver correct, and the invariant its proof rests on. *)
EXTENDS AudioWorklet

\* The chunk messages that are under way, and how many samples they hold.
ChunkMessages == {i \in DOMAIN toWorklet : toWorklet[i].cmd = "chunk"}

\* Samples of the ring that are mixed, counted and not taken yet: between the
\* two halves of read they are taken and still counted.
Unheard == output.avail - (IF stage = "outputAdd" THEN OutChunk ELSE 0)

\* The same with those that are mixed and not counted, or under way.
Ahead ==
    IF ~running THEN 0
    ELSE Unheard + (IF thread = "publish" THEN filled ELSE 0)
                 + OutChunk * Cardinality(ChunkMessages)

Stream == INSTANCE AudioStream WITH heard <- outputBuffer, ahead <- Ahead

\* The whole driver, in both builds, is a buffer between the engine and the
\* speaker: mixed samples are heard in order, none twice, none lost before the
\* driver is closed, and the engine is never more than the buffer ahead.
ImplementsStream == Stream!Spec

InBlocks == UNION {Blocks(c * Quantum) : c \in 1..MaxInChannels}

OutMessages ==
    [cmd : {"start"}, data : Blocks(OutSize)] \cup
    [cmd : {"chunk"}, data : Blocks(OutChunk)] \cup
    [cmd : {"stop"}, data : {None}]

Rings(size) ==
    [buffer : Blocks(size), rpos : 0..size, wpos : 0..(size - 1), avail : 0..size]

\* Every variable keeps its type: no position or count of the two rings leaves
\* its buffer.
TypeOK ==
    /\ threads \in BOOLEAN
    /\ promise \in {"none", "pending", "ready", "failed"}
    /\ asked \in BOOLEAN /\ connected \in BOOLEAN
    /\ closing \in {"no", "asked", "done"}
    /\ heap \in Blocks(OutSize) /\ wpos \in 0..(OutSize - 1) /\ mixed \in Labels
    /\ inHeap \in Blocks(InSize) /\ inPos \in 0..(InSize - 1)
    /\ toWorklet \in Seq(OutMessages) /\ reads \in Nat /\ inputs \in Seq(InBlocks)
    /\ running \in BOOLEAN /\ ready \in BOOLEAN
    /\ output \in Rings(OutSize) /\ input \in Rings(InSize)
    /\ outputBuffer \in Blocks(OutChunk) \cup {None}
    /\ stage \in {"idle", "inputAdd", "output", "outputAdd"}
    /\ added \in 0..InSize /\ spoken \in Labels
    /\ thread \in {"wait", "mix", "publish", "capture", "release"}
    /\ filled \in Nat /\ notified \in BOOLEAN

\* Without threads nothing is lost on the way between the page and the
\* processor: as long as the driver is not closed, the samples in the ring, the
\* reads that are to be answered and the chunks under way make up one buffer.
SamplesConserved ==
    (ready /\ ~threads /\ closing # "done") =>
        output.avail + OutChunk * (reads + Cardinality(ChunkMessages)) = OutSize

\* A chunk only comes to a processor that has its ring, and there is space for
\* all that are under way: write never goes over samples that were not heard.
ChunksFit ==
    ChunkMessages # {} =>
        ready /\ output.avail + OutChunk * Cardinality(ChunkMessages) <= OutSize

\* Samples of all channels of a block belong to the same frames.
ChannelsInStep ==
    outputBuffer # None =>
        LET speaker == WriteOutput(outputBuffer) IN
        \A c \in 0..(OutChannels - 1), s \in 0..(Quantum - 1) :
            speaker[c][s] = Later(speaker[0][0], s * OutChannels + c)

\* What the engine takes in is what the microphone gave, in order and frame by
\* frame. Without threads this fails for a block that goes over the end of the
\* input buffer: the page copies recv_buf.subarray(high, to_write) only.
CapturedAsSpoken ==
    (threads \/ captured.from + Length(captured.data) <= InSize) =>
        \A j \in DOMAIN captured.data : captured.data[j] = Later(captured.due, j)

\* As long as nobody closes the driver the speaker takes one block after
\* another: from every state on there is a next one.
KeepsPlaying == ready /\ closing = "no" ~> stage = "outputAdd" \/ closing # "no"

\* close() resolves and the processor stops, unless the script of the processor
\* could not be loaded: then close's promise stays open for ever.
CloseResolves == closing = "asked" ~> (closing = "done" /\ ~running) \/ promise = "failed"

-----------------------------------------------------------------------------
(* The inductive invariant: how the messages to the processor follow each     *)
(* other, and which samples are where.                                        *)

\* The start message, or the stop message, is under way.
Starting == connected /\ ~ready /\ running

Stopping == closing = "done" /\ running

\* The chunks under way, when the messages are in order.
Chunks ==
    IF ready THEN Len(toWorklet) - (IF closing = "done" THEN 1 ELSE 0) ELSE 0

\* The types of what the way of the samples depends on.
OutputTypeOK ==
    /\ threads \in BOOLEAN /\ connected \in BOOLEAN
    /\ running \in BOOLEAN /\ ready \in BOOLEAN
    /\ closing \in {"no", "asked", "done"}
    /\ wpos \in 0..(OutSize - 1) /\ mixed \in Labels
    /\ toWorklet \in Seq(OutMessages) /\ reads \in Nat
    /\ output \in Rings(OutSize)
    /\ outputBuffer \in Blocks(OutChunk) \cup {None}
    /\ stage \in {"idle", "inputAdd", "output", "outputAdd"}
    /\ thread \in {"wait", "mix", "publish", "capture", "release"}
    /\ thread = "publish" => filled \in Nat

\* First start, then chunks, then stop, and nothing after it.
MessagesInOrder ==
    /\ closing = "done" => promise = "none"
    /\ \A i \in DOMAIN toWorklet :
         /\ toWorklet[i].cmd = "start" <=> Starting /\ i = 1
         /\ toWorklet[i].cmd = "stop" <=> Stopping /\ i = Len(toWorklet)
    /\ Len(toWorklet) >= (IF Starting THEN 1 ELSE 0) + (IF Stopping THEN 1 ELSE 0)
    /\ ~ready => Len(toWorklet) = (IF Starting THEN 1 ELSE 0) + (IF Stopping THEN 1 ELSE 0)
    /\ ready => connected /\ running
    /\ ~running => closing = "done"
    /\ stage # "idle" => ready

\* Without threads the processor asks for every chunk it has played, and the
\* page answers, until the driver is closed.
ChunksCounted ==
    /\ threads => reads = 0 /\ Chunks = 0
    /\ ~ready /\ running => reads = 0
    /\ ready /\ ~threads =>
         IF closing = "done" THEN output.avail + OutChunk * Chunks <= OutSize
         ELSE output.avail + OutChunk * (reads + Chunks) = OutSize

\* The samples in the ring that are mixed, whether counted or not.
InRing == Unheard + (IF thread = "publish" THEN filled ELSE 0)

\* Only a build with threads has an engine thread, which leaves what is counted.
ThreadLeavesSpace ==
    /\ ~threads => thread = "wait"
    /\ thread = "publish" => output.avail + filled <= OutSize
    /\ stage = "outputAdd" => output.avail >= OutChunk

Next1 == NextAfter(outputBuffer)

\* The ring holds the samples to be heard next, from rpos on.
RingInOrder ==
    ready \/ threads =>
        /\ \A j \in 0..(InRing - 1) :
             output.buffer[Slot(OutSize, Slot(OutSize, output.rpos) + j)] = Later(Next1, j)
        /\ LET end == Slot(OutSize, Slot(OutSize, output.rpos) + InRing) IN
           IF threads THEN wpos = end /\ mixed = Later(Next1, InRing)
           ELSE output.wpos = end

\* The chunks under way go on where the ring ends, and the engine goes on where
\* they end.
ChunksInOrder ==
    ready /\ ~threads =>
        /\ \A i \in 1..Chunks :
             /\ toWorklet[i].data = Block(toWorklet[i].data[0], OutChunk)
             /\ toWorklet[i].data[0] =
                  IF i = 1 THEN Later(Next1, Unheard)
                  ELSE Later(toWorklet[i - 1].data[0], OutChunk)
        /\ closing # "done" =>
             mixed = IF Chunks = 0 THEN Later(Next1, Unheard)
                     ELSE Later(toWorklet[Chunks].data[0], OutChunk)

\* Before the processor has started the engine has filled its buffer once.
FirstBuffer ==
    ~ready /\ running =>
        /\ outputBuffer = None
        /\ ~threads /\ closing # "done" => mixed = Later(0, OutSize)
        /\ ~threads => output.avail = 0
        /\ ~connected => heap = Block(0, OutSize)
        /\ Starting => toWorklet[1].data = Block(0, OutSize)

AudioInv ==
    /\ OutputTypeOK
    /\ MessagesInOrder
    /\ ChunksCounted
    /\ ThreadLeavesSpace
    /\ RingInOrder
    /\ ChunksInOrder
    /\ FirstBuffer
-----------------------------------------------------------------------------
(* The same for the microphone: which samples wait for the engine, and where. *)

\* No block of the microphone is larger than the engine's buffer: the page drops
\* one that is, and reports an error.
BlocksFit == MaxInChannels * Quantum <= InSize

\* The number of the sample the engine takes in next.
Wanted == Later(captured.due, Length(captured.data))

\* The samples of the input ring that are written, counted or not, and that the
\* engine has not taken.
Waiting == input.avail + added - (IF thread = "release" THEN filled ELSE 0)

InputTypeOK ==
    /\ input \in Rings(InSize) /\ inputs \in Seq(InBlocks)
    /\ inHeap \in Blocks(InSize) /\ inPos \in 0..(InSize - 1)
    /\ added \in 0..InSize /\ spoken \in Labels
    /\ captured.from \in 0..(InSize - 1) /\ captured.due \in Labels
    /\ \E n \in 0..InSize : captured.data \in Blocks(n)

\* Only a processor of a build with threads writes the ring, only a page of one
\* without gets messages, and the engine never takes more than is counted.
InputCounted ==
    /\ IF threads THEN inputs = <<>> ELSE stage # "inputAdd"
    /\ inputs # <<>> => connected
    /\ stage # "inputAdd" => added = 0
    /\ input.avail + added <= InSize
    /\ thread = "release" => filled \in 1..input.avail

\* The input ring holds the samples the engine takes next, from inPos on.
InputRingInOrder ==
    threads =>
        /\ \A j \in 0..(Waiting - 1) : input.buffer[Slot(InSize, inPos + j)] = Later(Wanted, j)
        /\ input.wpos = Slot(InSize, inPos + Waiting)
        /\ spoken = Later(Wanted, Waiting)

\* Each block under way goes on where the one before it ends, and the microphone
\* goes on where the last one ends.
InputsInOrder ==
    ~threads /\ closing # "done" =>
        /\ \A i \in DOMAIN inputs :
             /\ inputs[i] = Block(inputs[i][0], Length(inputs[i]))
             /\ inputs[i][0] = IF i = 1 THEN Wanted
                               ELSE Later(inputs[i - 1][0], Length(inputs[i - 1]))
        /\ spoken = IF inputs = <<>> THEN Wanted
                    ELSE LET b == inputs[Len(inputs)] IN Later(b[0], Length(b))

InputInv ==
    /\ InputTypeOK
    /\ InputCounted
    /\ InputRingInOrder
    /\ BlocksFit => InputsInOrder
    /\ BlocksFit \/ threads => CapturedAsSpoken
=============================================================================
