---------------------------- MODULE AudioWorklet ----------------------------
(***************************************************************************)
(* The audio driver of the game client: GodotAudioWorklet on the page's    *)
(* main thread, GodotProcessor on the audio thread, the two message        *)
(* queues between them and, in a build with threads, the engine's audio    *)
(* thread, which shares the rings with the processor.                      *)
(***************************************************************************)
EXTENDS AudioRing, AudioSamples, Sequences, FiniteSets

CONSTANTS OutChannels,    \* channels of the speaker
          Quantum,        \* frames of one call of process
          InSize,         \* samples of the input buffer (p_in_size)
          MaxInChannels,  \* channels of the microphone, at most
          MaxPosted       \* bound on the input messages that wait

ASSUME DriverAssumption ==
    /\ OutChannels \in Nat \ {0} /\ Quantum \in Nat \ {0}
    /\ OutChunk = OutChannels * Quantum
    /\ InSize \in Nat \ {0}
    /\ MaxInChannels \in Nat /\ MaxPosted \in Nat

\* A buffer's samples, and those of a block of the microphone, can be told apart.
ASSUME NumbersAssumption ==
    /\ InSize < Samples
    /\ MaxInChannels * Quantum < Samples

VARIABLES
    threads,    \* which build it is; the page of this repository ships one without
    \* GodotAudioWorklet, main thread
    promise,    \* "none", "pending", "ready" or "failed"
    asked,      \* start or start_no_threads was called
    connected,  \* its continuation has run
    closing,    \* "no", "asked", or "done": close's promise is resolved
    heap,       \* the engine's output buffer (p_out_buf)
    wpos,       \* where the engine mixes next
    mixed,      \* number of the next sample to mix
    inHeap, inPos,  \* the engine's input buffer (p_in_buf) and rpos
    captured,   \* what the engine took in last, and from where
    \* the messages that are under way
    toWorklet, reads, inputs,
    \* GodotProcessor, audio thread
    running,
    ready,      \* this.output is not null
    output, input,
    outputBuffer,
    stage,      \* where process is: "idle", "inputAdd", "output", "outputAdd"
    added,      \* samples written to input and not counted yet
    spoken,     \* number of the next sample of the microphone
    \* the engine's audio thread
    thread,     \* "wait", "mix", "publish", "capture" or "release"
    filled,     \* samples it has mixed or taken and not counted yet
    notified    \* notifier has changed since the thread looked

mainVars == <<threads, promise, asked, connected, closing>>
mixVars == <<heap, wpos, mixed>>
captureVars == <<inHeap, inPos, captured>>
threadVars == <<thread, filled, notified>>
processVars == <<running, ready, output, input, outputBuffer, stage, added, spoken>>
portVars == <<toWorklet, reads, inputs>>
vars == <<mainVars, mixVars, captureVars, portVars, processVars, threadVars>>

Silence(size) == [i \in 0..(size - 1) |-> 0]

Length(block) == Cardinality(DOMAIN block)

Init ==
    /\ threads \in BOOLEAN
    /\ promise = "none" /\ asked = FALSE /\ connected = FALSE /\ closing = "no"
    /\ heap = Block(0, OutSize) /\ wpos = 0
    /\ mixed = IF threads THEN 0 ELSE Later(0, OutSize)
    /\ inHeap = Silence(InSize) /\ inPos = 0
    /\ captured = [from |-> 0, due |-> 0, data |-> Silence(0)]
    /\ toWorklet = <<>> /\ reads = 0 /\ inputs = <<>>
    /\ running = TRUE /\ ready = FALSE
    /\ output = NewRing(Silence(OutSize), 0)
    /\ input = NewRing(Silence(InSize), 0)
    /\ outputBuffer = None
    /\ stage = "idle" /\ added = 0 /\ spoken = 0
    /\ thread = "wait" /\ filled = 0 /\ notified = FALSE

-----------------------------------------------------------------------------
(* GodotAudioWorklet: create, start, close *)

Create ==
    /\ promise = "none" /\ closing = "no"
    /\ promise' = "pending"
    /\ UNCHANGED <<threads, asked, connected, closing, mixVars, captureVars, portVars,
                   processVars, threadVars>>

\* audioWorklet.addModule has loaded the script, or has not.
ModuleAdded ==
    /\ promise = "pending"
    /\ promise' \in {"ready", "failed"}
    /\ UNCHANGED <<threads, asked, connected, closing, mixVars, captureVars, portVars,
                   processVars, threadVars>>

AskStart ==
    /\ promise # "none" /\ closing = "no" /\ ~asked
    /\ asked' = TRUE
    /\ UNCHANGED <<threads, promise, connected, closing, mixVars, captureVars, portVars,
                   processVars, threadVars>>

\* The continuation of start and start_no_threads.
ConnectAndStart ==
    /\ promise = "ready" /\ asked /\ ~connected
    /\ connected' = TRUE
    /\ toWorklet' = Append(toWorklet, [cmd |-> "start", data |-> heap])
    /\ UNCHANGED <<threads, promise, asked, closing, mixVars, captureVars, reads, inputs,
                   processVars, threadVars>>

AskClose ==
    /\ promise # "none" /\ closing = "no"
    /\ closing' = "asked"
    /\ UNCHANGED <<threads, promise, asked, connected, mixVars, captureVars, portVars,
                   processVars, threadVars>>

\* A mutated form of CloseNode: the processor is not told.
CloseNodeSilently ==
    /\ promise = "ready" /\ closing = "asked" /\ (asked => connected)
    /\ closing' = "done"
    /\ promise' = "none"
    /\ UNCHANGED <<threads, asked, connected, mixVars, captureVars, portVars,
                   processVars, threadVars>>

\* The continuations of a promise run in the order of their then().
CloseNode ==
    /\ promise = "ready" /\ closing = "asked" /\ (asked => connected)
    /\ closing' = "done"
    /\ promise' = "none"
    /\ toWorklet' = Append(toWorklet, [cmd |-> "stop", data |-> None])
    /\ UNCHANGED <<threads, asked, connected, mixVars, captureVars, reads, inputs,
                   processVars, threadVars>>

-----------------------------------------------------------------------------
(* The RingBuffer of start_no_threads: what the page's thread does *)

Listening == connected /\ closing # "done"

\* The engine's out_callback: mix n samples into buffer, from index at on.
Mixed(buffer, at, n) ==
    [i \in 0..(OutSize - 1) |->
       LET j == IF i >= at THEN i - at ELSE i - at + OutSize IN
       IF j < n THEN Later(mixed, j) ELSE buffer[i]]

\* What send copies out of the engine's buffer, in one or two pieces.
SentBlock(buffer, n) ==
    LET high == OutSize - wpos IN
    [j \in 0..(n - 1) |->
       IF wpos + n >= OutSize /\ j >= high THEN buffer[j - high]
       ELSE buffer[wpos + j]]

\* consumed and send; pending_samples is zero whenever no message is handled.
Consumed(n) ==
    LET buffer == Mixed(heap, wpos, n) IN
    /\ heap' = buffer
    /\ toWorklet' = Append(toWorklet, [cmd |-> "chunk", data |-> SentBlock(buffer, n)])
    /\ wpos' = IF wpos + n >= OutSize THEN n - (OutSize - wpos) ELSE wpos + n
    /\ mixed' = Later(mixed, n)

\* A mutated form of OnRead: the page goes on listening after close.
OnReadAlways ==
    /\ reads > 0
    /\ reads' = reads - 1
    /\ IF connected THEN Consumed(OutChunk) ELSE UNCHANGED <<mixVars, toWorklet>>
    /\ UNCHANGED <<mainVars, captureVars, inputs, processVars, threadVars>>

\* onmessage: "read".  After close nobody listens.
OnRead ==
    /\ reads > 0
    /\ reads' = reads - 1
    /\ IF Listening THEN Consumed(OutChunk) ELSE UNCHANGED <<mixVars, toWorklet>>
    /\ UNCHANGED <<mainVars, captureVars, inputs, processVars, threadVars>>

\* The engine's in_callback: it takes n samples out of buffer.
Taken(buffer, from, n) == [j \in 0..(n - 1) |-> buffer[Slot(InSize, from + j)]]

Capture(buffer, n) ==
    captured' = [from |-> inPos, due |-> Later(captured.due, Length(captured.data)),
                 data |-> Taken(buffer, inPos, n)]

\* receive.  Of the rest only recv_buf.subarray(high, rest) is copied.
Receive(block) ==
    LET n == Length(block)
        split == inPos + n >= InSize
        high == IF split THEN InSize - inPos ELSE 0
        rest == n - high
        copied == IF rest > high THEN rest - high ELSE 0
        buffer == Set(Set(inHeap, block, inPos, high),
                      Subarray(block, high, copied),
                      IF split THEN 0 ELSE inPos, copied)
    IN /\ inHeap' = buffer
       /\ Capture(buffer, n)
       /\ inPos' = IF split THEN rest ELSE inPos + n

\* onmessage: "input".  A block larger than the buffer is dropped.
OnInput ==
    /\ inputs # <<>>
    /\ inputs' = Tail(inputs)
    /\ IF Listening /\ Length(Head(inputs)) <= InSize
       THEN Receive(Head(inputs))
       ELSE UNCHANGED captureVars
    /\ UNCHANGED <<mainVars, mixVars, toWorklet, reads, processVars, threadVars>>

-----------------------------------------------------------------------------
(* GodotProcessor *)

Write(data) ==
    output' = AddAvail(AfterWrite(OutSize, output, data, OutChunk), OutChunk)

\* parse_message.  With threads the rings are memory the engine shares.
ParseMessage(message) ==
    \/ /\ message.cmd = "start"
       /\ ready' = TRUE
       /\ output' = IF threads THEN output ELSE NewRing(message.data, OutSize)
       /\ UNCHANGED running
    \/ /\ message.cmd = "stop"
       /\ running' = FALSE /\ ready' = FALSE
       /\ UNCHANGED output
    \/ /\ message.cmd = "chunk"
       /\ IF ready THEN Write(message.data) ELSE UNCHANGED output
       /\ UNCHANGED <<running, ready>>

OnMessage ==
    /\ stage = "idle" /\ toWorklet # <<>>
    /\ toWorklet' = Tail(toWorklet)
    /\ ParseMessage(Head(toWorklet))
    /\ UNCHANGED <<mainVars, mixVars, captureVars, reads, inputs, input,
                   outputBuffer, stage, added, spoken, threadVars>>

\* What the microphone gives for one call of process, channel by channel.
Heard(channels) ==
    [c \in 0..(channels - 1) |->
       [s \in 0..(Quantum - 1) |-> Later(spoken, s * channels + c)]]

\* A mutated form of WriteInput: the channels come one after the other.
WriteInputPlanar(source, channels) ==
    [i \in 0..(channels * Quantum - 1) |-> source[i \div Quantum][i % Quantum]]

WriteInput(source, channels) ==
    [i \in 0..(channels * Quantum - 1) |-> source[i % channels][i \div channels]]

\* A mutated form of WriteOutput: the channels come one after the other.
WriteOutputPlanar(source) ==
    [c \in 0..(OutChannels - 1) |->
       [s \in 0..(Quantum - 1) |-> source[c * Quantum + s]]]

WriteOutput(source) ==
    [c \in 0..(OutChannels - 1) |->
       [s \in 0..(Quantum - 1) |-> source[s * OutChannels + c]]]

\* process begins; its inputs have no channel when there is no microphone.
ProcessInput(channels) ==
    LET len == channels * Quantum
        inputBuffer == WriteInput(Heard(channels), channels)
    IN
    /\ stage = "idle" /\ running /\ ready
    /\ IF channels > 0 /\ ~threads
       THEN /\ Len(inputs) < MaxPosted
            /\ inputs' = Append(inputs, inputBuffer)
            /\ stage' = "output"
            /\ spoken' = Later(spoken, len)
            /\ UNCHANGED <<input, added>>
       ELSE IF channels > 0 /\ SpaceLeft(InSize, input) >= len
       THEN /\ input' = AfterWrite(InSize, input, inputBuffer, len)
            /\ added' = len
            /\ stage' = "inputAdd"
            /\ spoken' = Later(spoken, len)
            /\ UNCHANGED inputs
       ELSE /\ stage' = "output"
            /\ UNCHANGED <<input, added, inputs, spoken>>
    /\ UNCHANGED <<mainVars, mixVars, captureVars, toWorklet, reads, running,
                   ready, output, outputBuffer, threadVars>>

ProcessInputAdd ==
    /\ stage = "inputAdd"
    /\ input' = AddAvail(input, added)
    /\ added' = 0
    /\ stage' = "output"
    /\ UNCHANGED <<mainVars, mixVars, captureVars, portVars, running, ready,
                   output, outputBuffer, spoken, threadVars>>

\* process_notify: the notifier is null without threads.
ProcessNotify ==
    /\ notified' = (notified \/ threads)
    /\ UNCHANGED <<thread, filled>>

ProcessOutput ==
    /\ stage = "output"
    /\ IF DataLeft(output) >= OutChunk
       THEN /\ outputBuffer' = ReadBlock(OutSize, output, OutChunk)
            /\ output' = AfterRead(OutSize, output, OutChunk)
            /\ stage' = "outputAdd"
            /\ UNCHANGED threadVars
       ELSE /\ stage' = "idle"
            /\ ProcessNotify
            /\ UNCHANGED <<output, outputBuffer>>
    /\ UNCHANGED <<mainVars, mixVars, captureVars, portVars, running, ready,
                   input, added, spoken>>

\* A mutated form of ProcessOutputAdd: the page is not told.
ProcessOutputAddSilent ==
    /\ stage = "outputAdd"
    /\ output' = AddAvail(output, -OutChunk)
    /\ stage' = "idle"
    /\ ProcessNotify
    /\ UNCHANGED <<mainVars, mixVars, captureVars, portVars, running, ready,
                   input, outputBuffer, added, spoken>>

ProcessOutputAdd ==
    /\ stage = "outputAdd"
    /\ output' = AddAvail(output, -OutChunk)
    /\ reads' = IF threads THEN reads ELSE reads + 1
    /\ stage' = "idle"
    /\ ProcessNotify
    /\ UNCHANGED <<mainVars, mixVars, captureVars, toWorklet, inputs, running,
                   ready, input, outputBuffer, added, spoken>>

Process ==
    \/ \E channels \in 0..MaxInChannels : ProcessInput(channels)
    \/ ProcessInputAdd
    \/ ProcessOutput
    \/ ProcessOutputAdd

-----------------------------------------------------------------------------
(* The engine's audio thread, in a build with threads *)

ThreadWake ==
    /\ threads /\ connected
    /\ thread = "wait" /\ notified
    /\ thread' = "mix"
    /\ notified' = FALSE
    /\ UNCHANGED <<filled, mainVars, mixVars, captureVars, portVars, processVars>>

\* It mixes whole frames, no more than there is space.
ThreadMix ==
    /\ thread = "mix"
    /\ IF SpaceLeft(OutSize, output) < OutChannels
       THEN /\ thread' = "capture"
            /\ UNCHANGED <<output, wpos, mixed, filled>>
       ELSE \E n \in {m \in 1..SpaceLeft(OutSize, output) : m % OutChannels = 0} :
              /\ output' = [output EXCEPT !.buffer = Mixed(@, wpos, n)]
              /\ wpos' = Slot(OutSize, wpos + n)
              /\ mixed' = Later(mixed, n)
              /\ filled' = n
              /\ thread' = "publish"
    /\ UNCHANGED <<notified, heap, mainVars, captureVars, portVars, running, ready,
                   input, outputBuffer, stage, added, spoken>>

ThreadPublish ==
    /\ thread = "publish"
    /\ output' = AddAvail(output, filled)
    /\ filled' = 0
    /\ thread' = "capture"
    /\ UNCHANGED <<notified, mainVars, mixVars, captureVars, portVars, running,
                   ready, input, outputBuffer, stage, added, spoken>>

ThreadCapture ==
    /\ thread = "capture"
    /\ IF DataLeft(input) = 0
       THEN /\ thread' = "wait"
            /\ UNCHANGED <<captured, inPos, filled>>
       ELSE /\ Capture(input.buffer, DataLeft(input))
            /\ inPos' = Slot(InSize, inPos + DataLeft(input))
            /\ filled' = DataLeft(input)
            /\ thread' = "release"
    /\ UNCHANGED <<notified, inHeap, mainVars, mixVars, portVars, processVars>>

ThreadRelease ==
    /\ thread = "release"
    /\ input' = AddAvail(input, -filled)
    /\ filled' = 0
    /\ thread' = "wait"
    /\ UNCHANGED <<notified, mainVars, mixVars, captureVars, portVars, running,
                   ready, output, outputBuffer, stage, added, spoken>>

EngineThread ==
    ThreadWake \/ ThreadMix \/ ThreadPublish \/ ThreadCapture \/ ThreadRelease

-----------------------------------------------------------------------------
Next ==
    \/ Create \/ ModuleAdded \/ AskStart \/ ConnectAndStart
    \/ AskClose \/ CloseNode
    \/ OnRead \/ OnInput \/ OnMessage
    \/ Process
    \/ EngineThread

Spec == Init /\ [][Next]_vars

\* The browser goes on loading, delivering messages and asking for samples,
\* and a thread goes on running; the audio thread serves its messages between
\* two calls of process, so that a message only waits for some calls.  Nobody
\* has to create or close a driver.
FairSpec ==
    /\ Spec
    /\ WF_vars(ModuleAdded) /\ WF_vars(ConnectAndStart) /\ WF_vars(CloseNode)
    /\ WF_vars(OnRead) /\ WF_vars(OnInput) /\ SF_vars(OnMessage)
    /\ WF_vars(Process)
    /\ WF_vars(EngineThread)
=============================================================================
