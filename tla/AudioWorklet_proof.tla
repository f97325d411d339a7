------------------------- MODULE AudioWorklet_proof -------------------------
(***************************************************************************)
(* The audio driver, in both builds and for every size of its buffers,     *)
(* implements AudioStream: what the engine mixes is heard in order, every  *)
(* sample once; and what is spoken into the microphone, when its blocks    *)
(* fit, is captured in order.                                              *)
(***************************************************************************)
EXTENDS AudioProperties, FiniteSetTheorems, SequenceTheorems, TLAPS

-----------------------------------------------------------------------------
(* Numbers of samples *)

\* The sizes, as the leaves below need them.
LEMMA Sizes ==
    /\ OutSize \in Nat /\ OutChunk \in Nat /\ Samples \in Nat
    /\ 1 <= OutChunk /\ OutChunk <= OutSize /\ OutSize < Samples
    /\ None \notin Blocks(OutChunk)
BY SamplesAssumption

\* Later counts within the numbers there are.
LEMMA LaterType ==
    ASSUME NEW k \in Labels, NEW n \in 0..OutSize
    PROVE  Later(k, n) \in Labels
BY Sizes DEF Labels, Later

LEMMA LaterZero ==
    ASSUME NEW k \in Labels
    PROVE  Later(k, 0) = k
BY Sizes DEF Labels, Later

\* Counting on from a later number.
LEMMA LaterAdd ==
    ASSUME NEW k \in Labels, NEW a \in Nat, NEW b \in Nat, a + b <= OutSize
    PROVE  Later(Later(k, a), b) = Later(k, a + b)
BY Sizes DEF Labels, Later

\* A block is a function on its indices.
LEMMA BlockType ==
    ASSUME NEW k \in Labels, NEW n \in 1..OutSize
    PROVE  /\ Block(k, n) \in Blocks(n)
           /\ Block(k, n)[0] = k
           /\ \A j \in 0..(n - 1) : Block(k, n)[j] = Later(k, j)
<1>1. \A j \in 0..(n - 1) : Later(k, j) \in Labels
  BY LaterType, Sizes
<1>2. 0 \in 0..(n - 1)
  BY Sizes
<1> QED
  BY <1>1, <1>2, LaterZero DEF Block, Blocks

\* What is heard after a block that begins with k begins OutChunk later.
LEMMA NextAfterBlock ==
    ASSUME NEW k \in Labels
    PROVE  NextAfter(Block(k, OutChunk)) = Later(k, OutChunk)
<1>1. Block(k, OutChunk) # None
  BY BlockType, Sizes
<1>2. Block(k, OutChunk)[OutChunk - 1] = Later(k, OutChunk - 1)
  BY BlockType, Sizes
<1>3. Later(Later(k, OutChunk - 1), 1) = Later(k, OutChunk)
  BY LaterAdd, Sizes
<1> QED
  BY <1>1, <1>2, <1>3 DEF NextAfter

LEMMA NextAfterType ==
    ASSUME NEW b \in Blocks(OutChunk) \cup {None}
    PROVE  NextAfter(b) \in Labels
<1>1. CASE b = None
  BY <1>1, Sizes DEF NextAfter, Labels
<1>2. CASE b # None
  <2>1. b[OutChunk - 1] \in Labels
    BY <1>2, Sizes DEF Blocks
  <2> QED
    BY <1>2, <2>1, LaterType, Sizes DEF NextAfter
<1> QED
  BY <1>1, <1>2

\* A block is known by its samples.
LEMMA BlockIs ==
    ASSUME NEW k \in Labels, NEW n \in 1..OutSize,
           NEW f, f = [j \in 0..(n - 1) |-> f[j]],
           \A j \in 0..(n - 1) : f[j] = Later(k, j)
    PROVE  f = Block(k, n)
BY DEF Block

-----------------------------------------------------------------------------
(* The ring *)

\* How far index i of a buffer is from index w, going upwards and around.
Distance(size, w, i) == IF i >= w THEN i - w ELSE i - w + size

\* The first m samples of the buffer from index r on count on from number k.
InOrder(buffer, r, m, k) ==
    \A j \in 0..(m - 1) : buffer[Slot(OutSize, r + j)] = Later(k, j)

\* Buffer new is buffer old with the n samples from number k on at index at.
Extended(new, old, at, n, k) ==
    \A i \in 0..(OutSize - 1) :
        new[i] = IF Distance(OutSize, at, i) < n
                 THEN Later(k, Distance(OutSize, at, i)) ELSE old[i]

LEMMA SlotType ==
    ASSUME NEW size \in Nat \ {0}, NEW x \in 0..(2 * size - 1)
    PROVE  Slot(size, x) \in 0..(size - 1)
BY DEF Slot

\* Going around twice is going around once.
LEMMA SlotAdd ==
    ASSUME NEW size \in Nat \ {0}, NEW r \in 0..(size - 1),
           NEW a \in Nat, NEW b \in Nat, a + b <= size
    PROVE  Slot(size, Slot(size, r + a) + b) = Slot(size, r + a + b)
BY DEF Slot

\* Where a slot of the ring is, seen from the slot after the first m.
LEMMA SlotDistance ==
    ASSUME NEW size \in Nat \ {0}, NEW r \in 0..(size - 1), NEW m \in Nat, NEW n \in Nat,
           m + n <= size, NEW j \in 0..(m + n - 1)
    PROVE  /\ Slot(size, r + j) \in 0..(size - 1)
           /\ j < m => Distance(size, Slot(size, r + m), Slot(size, r + j)) >= n
           /\ j >= m => Distance(size, Slot(size, r + m), Slot(size, r + j)) = j - m
BY DEF Slot, Distance

\* read returns the samples from rpos on.
LEMMA ReadBlockAt ==
    ASSUME NEW size \in Nat \ {0}, NEW ring, ring.rpos \in 0..size,
           NEW len \in 1..size, NEW j \in 0..(len - 1)
    PROVE  ReadBlock(size, ring, len)[j]
             = ring.buffer[Slot(size, Slot(size, ring.rpos) + j)]
BY DEF ReadBlock, Wraps, Slot

\* read goes on behind them.
LEMMA AfterReadAt ==
    ASSUME NEW size \in Nat \ {0}, NEW ring \in Rings(size), NEW len \in 1..size
    PROVE  /\ AfterRead(size, ring, len) \in Rings(size)
           /\ Slot(size, AfterRead(size, ring, len).rpos)
                = Slot(size, Slot(size, ring.rpos) + len)
           /\ AfterRead(size, ring, len).buffer = ring.buffer
           /\ AfterRead(size, ring, len).wpos = ring.wpos
           /\ AfterRead(size, ring, len).avail = ring.avail
<1> DEFINE new == IF Wraps(size, ring, len) THEN len - (size - ring.rpos) ELSE ring.rpos + len
<1>1. ring = [buffer |-> ring.buffer, rpos |-> ring.rpos, wpos |-> ring.wpos,
              avail |-> ring.avail]
  BY DEF Rings
<1>2. ring.rpos \in 0..size
  BY DEF Rings
<1>3. new \in 0..size /\ Slot(size, new) = Slot(size, Slot(size, ring.rpos) + len)
  BY <1>2 DEF Wraps, Slot
<1>4. AfterRead(size, ring, len) = [ring EXCEPT !.rpos = new]
  BY DEF AfterRead
<1> HIDE DEF new
<1> QED
  BY <1>1, <1>2, <1>3, <1>4 DEF Rings

\* write puts the block behind what was written before, around the end of the
\* buffer if it has to.
LEMMA AfterWriteAt ==
    ASSUME NEW size \in Nat \ {0}, NEW ring \in Rings(size), NEW len \in 1..size,
           NEW data \in [0..(len - 1) -> Labels]
    PROVE  /\ AfterWrite(size, ring, data, len) \in Rings(size)
           /\ AfterWrite(size, ring, data, len).rpos = ring.rpos
           /\ AfterWrite(size, ring, data, len).avail = ring.avail
           /\ AfterWrite(size, ring, data, len).wpos = Slot(size, ring.wpos + len)
           /\ \A i \in 0..(size - 1) :
                AfterWrite(size, ring, data, len).buffer[i]
                  = IF Distance(size, ring.wpos, i) < len
                    THEN data[Distance(size, ring.wpos, i)] ELSE ring.buffer[i]
<1> DEFINE mw == size - ring.wpos
           rest == Subarray(data, mw, len - mw)
           one == Set(ring.buffer, data, ring.wpos, len)
           high == Set(ring.buffer, data, ring.wpos, mw)
           both == Set(high, rest, 0, len - mw)
           buffer == IF mw >= len THEN one ELSE both
           wpos1 == IF mw > len THEN ring.wpos + len ELSE len - mw
<1>1. /\ ring = [buffer |-> ring.buffer, rpos |-> ring.rpos, wpos |-> ring.wpos,
                 avail |-> ring.avail]
      /\ ring.buffer \in [0..(size - 1) -> Labels] /\ ring.wpos \in 0..(size - 1)
      /\ ring.rpos \in 0..size /\ ring.avail \in 0..size
  BY DEF Rings, Blocks
<1>2. AfterWrite(size, ring, data, len) = [ring EXCEPT !.buffer = buffer, !.wpos = wpos1]
  BY DEF AfterWrite
<1>3. wpos1 \in 0..(size - 1) /\ wpos1 = Slot(size, ring.wpos + len)
  BY <1>1 DEF Slot
<1>4. /\ buffer \in [0..(size - 1) -> Labels]
      /\ \A i \in 0..(size - 1) :
           buffer[i] = IF Distance(size, ring.wpos, i) < len
                       THEN data[Distance(size, ring.wpos, i)] ELSE ring.buffer[i]
  <2>1. CASE mw >= len
    <3>1. /\ one \in [0..(size - 1) -> Labels]
          /\ \A i \in 0..(size - 1) :
               one[i] = IF ring.wpos <= i /\ i < ring.wpos + len
                        THEN data[i - ring.wpos] ELSE ring.buffer[i]
      <4>1. \A i \in 0..(size - 1) :
              /\ i \in ring.wpos..(ring.wpos + len - 1)
                   <=> ring.wpos <= i /\ i < ring.wpos + len
              /\ ring.wpos <= i /\ i < ring.wpos + len => i - ring.wpos \in 0..(len - 1)
        BY <1>1, <2>1
      <4>2. \A i \in 0..(size - 1) :
              ring.wpos <= i /\ i < ring.wpos + len => data[i - ring.wpos] \in Labels
        BY <4>1
      <4> QED
        BY <1>1, <4>1, <4>2 DEF Set
    <3>2. \A i \in 0..(size - 1) :
            /\ Distance(size, ring.wpos, i) < len <=> ring.wpos <= i /\ i < ring.wpos + len
            /\ ring.wpos <= i => Distance(size, ring.wpos, i) = i - ring.wpos
      BY <1>1, <2>1 DEF Distance
    <3> HIDE DEF one
    <3> QED
      BY <2>1, <3>1, <3>2
  <2>2. CASE mw < len
    <3>1. mw \in Nat /\ len - mw \in Nat /\ len - mw <= size /\ ring.wpos + mw = size
      BY <1>1, <2>2
    <3>2. rest \in [0..(len - mw - 1) -> Labels]
          /\ \A j \in 0..(len - mw - 1) : rest[j] = data[mw + j]
      <4>1. \A j \in 0..(len - mw - 1) : mw + j \in 0..(len - 1)
        BY <3>1
      <4> HIDE DEF mw
      <4> QED
        BY <4>1 DEF Subarray
    <3>3. data = [j \in 0..(len - 1) |-> data[j]]
      OBVIOUS
    <3>4. /\ high \in [0..(size - 1) -> Labels]
          /\ \A i \in 0..(size - 1) :
               high[i] = IF ring.wpos <= i THEN data[i - ring.wpos] ELSE ring.buffer[i]
      <4>1. \A i \in 0..(size - 1) : i \in ring.wpos..(ring.wpos + mw - 1) <=> ring.wpos <= i
        BY <1>1
      <4>2. \A i \in 0..(size - 1) : ring.wpos <= i => data[i - ring.wpos] \in Labels
        <5>1. \A i \in 0..(size - 1) : ring.wpos <= i => i - ring.wpos \in 0..(len - 1)
          BY <1>1, <2>2
        <5> QED
          BY <5>1
      <4> HIDE DEF mw
      <4> QED
        BY <1>1, <4>1, <4>2 DEF Set
    <3>5. /\ both \in [0..(size - 1) -> Labels]
          /\ \A i \in 0..(size - 1) :
               both[i] = IF i < len - mw THEN rest[i] ELSE high[i]
      <4>1. \A i \in 0..(size - 1) :
              /\ i \in 0..(0 + (len - mw) - 1) <=> i < len - mw
              /\ i < len - mw => i \in 0..(len - mw - 1) /\ i - 0 = i
        BY <3>1
      <4> HIDE DEF mw, rest, high
      <4>2. \A i \in 0..(size - 1) : i < len - mw => rest[i] \in Labels
        BY <3>2, <4>1
      <4> QED
        BY <3>1, <3>4, <4>1, <4>2 DEF Set
    <3>6. \A i \in 0..(size - 1) :
            /\ Distance(size, ring.wpos, i) \in Int
            /\ i < len - mw => /\ Distance(size, ring.wpos, i) < len
                               /\ Distance(size, ring.wpos, i) = mw + i
            /\ i >= len - mw /\ ring.wpos <= i =>
                 /\ Distance(size, ring.wpos, i) < len
                 /\ Distance(size, ring.wpos, i) = i - ring.wpos
            /\ i >= len - mw /\ ring.wpos > i => Distance(size, ring.wpos, i) >= len
      BY <1>1, <2>2 DEF Distance
    <3>7. \A i \in 0..(size - 1) : i < len - mw => i \in 0..(len - mw - 1)
      BY <3>1
    <3>8. buffer = both
      BY <2>2, <3>1
    <3>9. \A i \in 0..(size - 1) :
            both[i] = IF Distance(size, ring.wpos, i) < len
                      THEN data[Distance(size, ring.wpos, i)] ELSE ring.buffer[i]
      <4> HIDE DEF mw, rest, high, both
      <4> TAKE i \in 0..(size - 1)
      <4>1. CASE i < len - mw
        BY <4>1, <3>2, <3>5, <3>6, <3>7
      <4>2. CASE i >= len - mw
        <5>1. both[i] = high[i] /\ ~(i < len - mw)
          BY <4>2, <3>1, <3>5
        <5>2. CASE ring.wpos <= i
          <6>1. /\ Distance(size, ring.wpos, i) < len
                /\ Distance(size, ring.wpos, i) = i - ring.wpos
            BY <4>2, <5>2, <3>6
          <6> QED
            BY <5>1, <5>2, <6>1, <3>4
        <5>3. CASE ring.wpos > i
          <6>1. ~(Distance(size, ring.wpos, i) < len)
            BY <4>2, <5>3, <3>6
          <6>2. ~(ring.wpos <= i)
            BY <1>1, <5>3
          <6> QED
            BY <5>1, <6>1, <6>2, <3>4
        <5> QED
          BY <1>1, <5>2, <5>3
      <4> QED
        BY <4>1, <4>2, <3>1
    <3> HIDE DEF buffer, both
    <3> QED
      BY <3>5, <3>8, <3>9
  <2> QED
    BY <1>1, <2>1, <2>2
<1> HIDE DEF buffer, wpos1
<1> QED
  BY <1>1, <1>2, <1>3, <1>4 DEF Rings, Blocks

\* Atomics.add changes the number only.
LEMMA AddAvailAt ==
    ASSUME NEW size \in Nat \ {0}, NEW ring \in Rings(size), NEW n \in Int,
           ring.avail + n \in 0..size
    PROVE  /\ AddAvail(ring, n) \in Rings(size)
           /\ AddAvail(ring, n).buffer = ring.buffer
           /\ AddAvail(ring, n).rpos = ring.rpos
           /\ AddAvail(ring, n).wpos = ring.wpos
           /\ AddAvail(ring, n).avail = ring.avail + n
<1> DEFINE new == ring.avail + n
<1>1. ring = [buffer |-> ring.buffer, rpos |-> ring.rpos, wpos |-> ring.wpos,
              avail |-> ring.avail]
  BY DEF Rings
<1>2. AddAvail(ring, n) = [ring EXCEPT !.avail = new]
  BY DEF AddAvail
<1>3. new \in 0..size
  OBVIOUS
<1> HIDE DEF new
<1>4. /\ AddAvail(ring, n) \in Rings(size)
      /\ AddAvail(ring, n).buffer = ring.buffer
      /\ AddAvail(ring, n).rpos = ring.rpos
      /\ AddAvail(ring, n).wpos = ring.wpos
      /\ AddAvail(ring, n).avail = new
  BY <1>1, <1>2, <1>3 DEF Rings
<1> QED
  BY <1>4 DEF new

\* What the engine mixes: the next samples, from index at on.
LEMMA MixedAt ==
    ASSUME mixed \in Labels, NEW buffer, NEW at \in 0..(OutSize - 1),
           NEW n \in 0..OutSize
    PROVE  Extended(Mixed(buffer, at, n), buffer, at, n, mixed)
BY Sizes DEF Mixed, Distance, Extended

LEMMA MixedType ==
    ASSUME mixed \in Labels, NEW buffer \in Blocks(OutSize), NEW at \in 0..(OutSize - 1),
           NEW n \in 0..OutSize
    PROVE  Mixed(buffer, at, n) \in Blocks(OutSize)
<1>1. \A i \in 0..(OutSize - 1) : Mixed(buffer, at, n)[i] \in Labels
  <2> TAKE i \in 0..(OutSize - 1)
  <2>1. Distance(OutSize, at, i) \in 0..OutSize
    BY Sizes DEF Distance
  <2>2. Later(mixed, Distance(OutSize, at, i)) \in Labels
    BY <2>1, LaterType
  <2>3. buffer[i] \in Labels
    BY DEF Blocks
  <2>4. Mixed(buffer, at, n)[i] = IF Distance(OutSize, at, i) < n
                                  THEN Later(mixed, Distance(OutSize, at, i)) ELSE buffer[i]
    BY MixedAt DEF Extended
  <2> QED
    BY <2>2, <2>3, <2>4
<1> QED
  BY <1>1 DEF Mixed, Blocks

\* The chunk that is sent is what was just mixed, from one or two pieces.
LEMMA SentIsMixed ==
    ASSUME mixed \in Labels, wpos \in 0..(OutSize - 1), NEW buffer, NEW n \in 1..OutSize
    PROVE  SentBlock(Mixed(buffer, wpos, n), n) = Block(mixed, n)
<1> DEFINE sent == SentBlock(Mixed(buffer, wpos, n), n)
           from(j) == IF wpos + n >= OutSize /\ j >= OutSize - wpos
                      THEN j - (OutSize - wpos) ELSE wpos + j
<1>1. \A j \in 0..(n - 1) : /\ from(j) \in 0..(OutSize - 1)
                            /\ Distance(OutSize, wpos, from(j)) = j
  BY Sizes DEF Distance
<1>2. \A j \in 0..(n - 1) : sent[j] = Mixed(buffer, wpos, n)[from(j)]
  BY DEF SentBlock
<1>3. \A j \in 0..(n - 1) : sent[j] = Later(mixed, j)
  <2> TAKE j \in 0..(n - 1)
  <2>1. j < n /\ n \in 0..OutSize
    BY Sizes
  <2>2. Mixed(buffer, wpos, n)[from(j)]
          = IF Distance(OutSize, wpos, from(j)) < n
            THEN Later(mixed, Distance(OutSize, wpos, from(j))) ELSE buffer[from(j)]
    <3>1. Extended(Mixed(buffer, wpos, n), buffer, wpos, n, mixed)
      BY <2>1, MixedAt
    <3> QED
      BY <1>1, <3>1 DEF Extended
  <2> HIDE DEF from, sent
  <2> QED
    BY <1>1, <1>2, <2>1, <2>2
<1>4. sent = [j \in 0..(n - 1) |-> sent[j]]
  BY DEF SentBlock
<1> HIDE DEF sent
<1>5. sent = Block(mixed, n)
  BY <1>3, <1>4 DEF Block
<1> QED
  BY <1>5 DEF sent

\* A ring whose first m samples go on from number k, and gets the n samples after
\* them behind its end, has m + n samples that do.
LEMMA RingExtended ==
    ASSUME NEW k \in Labels, NEW r \in 0..(OutSize - 1), NEW m \in Nat, NEW n \in Nat,
           m + n <= OutSize, NEW old, NEW new,
           InOrder(old, r, m, k), Extended(new, old, Slot(OutSize, r + m), n, Later(k, m))
    PROVE  InOrder(new, r, m + n, k)
<1> SUFFICES ASSUME NEW j \in 0..(m + n - 1) PROVE new[Slot(OutSize, r + j)] = Later(k, j)
  BY DEF InOrder
<1> DEFINE i == Slot(OutSize, r + j)
           d == Distance(OutSize, Slot(OutSize, r + m), i)
<1>1. /\ i \in 0..(OutSize - 1)
      /\ j < m => d >= n
      /\ j >= m => d = j - m
  <2>1. OutSize \in Nat \ {0}
    BY Sizes
  <2> QED
    BY <2>1, SlotDistance
<1>2. new[i] = IF d < n THEN Later(Later(k, m), d) ELSE old[i]
  BY <1>1 DEF Extended
<1>3. CASE j < m
  <2>1. ~(d < n)
    BY <1>1, <1>3, Sizes DEF Distance, Slot
  <2>2. old[i] = Later(k, j)
    BY <1>3 DEF InOrder
  <2> QED
    BY <1>2, <2>1, <2>2
<1>4. CASE j >= m
  <2>1. d = j - m /\ d < n /\ j - m \in Nat /\ m + (j - m) = j
    BY <1>1, <1>4
  <2>2. Later(Later(k, m), j - m) = Later(k, m + (j - m))
    BY <2>1, LaterAdd, Sizes
  <2> QED
    BY <1>2, <2>1, <2>2
<1> QED
  BY <1>3, <1>4

-----------------------------------------------------------------------------
(* Messages *)

\* The samples of so many chunks.
LEMMA ChunkSamples ==
    ASSUME NEW n \in Nat
    PROVE  /\ OutChunk * n \in Nat
           /\ OutChunk * (n + 1) = OutChunk * n + OutChunk
           /\ n = 0 => OutChunk * n = 0
           /\ n > 0 => OutChunk * n >= OutChunk
BY Sizes

LEMMA MessageTypes ==
    ASSUME NEW message \in OutMessages
    PROVE  /\ message.cmd \in {"start", "chunk", "stop"}
           /\ message.cmd = "start" => message.data \in Blocks(OutSize)
           /\ message.cmd = "chunk" => message.data \in Blocks(OutChunk)
           /\ message = [cmd |-> message.cmd, data |-> message.data]
BY DEF OutMessages

\* As long as the messages are in order, Chunks counts the chunks.
LEMMA ChunkCount ==
    ASSUME OutputTypeOK, MessagesInOrder
    PROVE  /\ Chunks \in Nat
           /\ Cardinality(ChunkMessages) = Chunks
           /\ ChunkMessages # {} => Chunks > 0 /\ ready
<1>1. toWorklet \in Seq(OutMessages) /\ DOMAIN toWorklet = 1..Len(toWorklet)
      /\ Len(toWorklet) \in Nat
  BY DEF OutputTypeOK
<1>2. \A i \in DOMAIN toWorklet : toWorklet[i].cmd \in {"start", "chunk", "stop"}
  BY <1>1, MessageTypes
<1>3. Chunks \in Nat
  <2>1. ready /\ closing = "done" => Len(toWorklet) >= 1
    BY <1>1 DEF MessagesInOrder, Starting, Stopping
  <2> QED
    BY <1>1, <2>1 DEF Chunks
<1>4. ChunkMessages = 1..Chunks
  <2>1. CASE ready
    BY <1>1, <1>2, <2>1 DEF ChunkMessages, Chunks, MessagesInOrder, Starting, Stopping, OutputTypeOK
  <2>2. CASE ~ready
    BY <1>1, <1>2, <2>2 DEF ChunkMessages, Chunks, MessagesInOrder, Starting, Stopping, OutputTypeOK
  <2> QED
    BY <2>1, <2>2
<1>5. Cardinality(1..Chunks) = Chunks
  BY <1>3, FS_Interval
<1>6. Chunks > 0 => ready
  BY DEF Chunks
<1> QED
  BY <1>3, <1>4, <1>5, <1>6

-----------------------------------------------------------------------------
(* AudioInv is inductive *)

\* At first the engine has filled its own buffer and nothing is under way.
LEMMA InitAudio == Init => AudioInv
<1> SUFFICES ASSUME Init PROVE AudioInv
  OBVIOUS
<1>1. /\ 0 \in Labels /\ Later(0, OutSize) = OutSize /\ OutSize \in Labels
      /\ Later(0, 0) = 0
  BY Sizes DEF Labels, Later
<1>2. Silence(OutSize) \in Blocks(OutSize)
  BY <1>1 DEF Silence, Blocks
<1>3. output = NewRing(Silence(OutSize), 0) /\ NewRing(Silence(OutSize), 0) \in Rings(OutSize)
      /\ output.avail = 0 /\ output.rpos = 0
  BY <1>2, Sizes DEF Init, NewRing, Rings
<1>4. /\ threads \in BOOLEAN /\ ~connected /\ closing = "no" /\ running /\ ~ready
      /\ promise = "none" /\ heap = Block(0, OutSize) /\ wpos = 0
      /\ mixed = (IF threads THEN 0 ELSE Later(0, OutSize))
      /\ toWorklet = <<>> /\ reads = 0 /\ outputBuffer = None /\ stage = "idle"
      /\ thread = "wait"
  BY DEF Init
<1>5. Len(toWorklet) = 0 /\ DOMAIN toWorklet = {} /\ toWorklet \in Seq(OutMessages)
  BY <1>4
<1>6. OutputTypeOK
  <2>1. mixed \in Labels
    BY <1>1, <1>4
  <2>2. wpos \in 0..(OutSize - 1)
    BY <1>4, Sizes
  <2>3. output \in Rings(OutSize) /\ outputBuffer \in Blocks(OutChunk) \cup {None}
        /\ reads \in Nat
    BY <1>3, <1>4
  <2>4. /\ stage \in {"idle", "inputAdd", "output", "outputAdd"}
        /\ thread \in {"wait", "mix", "publish", "capture", "release"}
        /\ thread # "publish" /\ closing \in {"no", "asked", "done"}
        /\ connected \in BOOLEAN /\ running \in BOOLEAN /\ ready \in BOOLEAN
    BY <1>4 DEF Init
  <2> QED
    BY <1>4, <1>5, <2>1, <2>2, <2>3, <2>4 DEF OutputTypeOK
<1>7. ~Starting /\ ~Stopping
  BY <1>4 DEF Starting, Stopping
<1>8. MessagesInOrder
  BY <1>4, <1>5, <1>7 DEF MessagesInOrder
<1>9. ChunksCounted
  BY <1>4 DEF ChunksCounted, Chunks
<1>10. ThreadLeavesSpace
  BY <1>4 DEF ThreadLeavesSpace
<1>11. InRing = 0 /\ Next1 = 0
  BY <1>3, <1>4 DEF InRing, Unheard, Next1, NextAfter
<1>12. RingInOrder
  BY <1>1, <1>3, <1>4, <1>11, Sizes DEF RingInOrder, Slot
<1>13. ChunksInOrder
  BY <1>4 DEF ChunksInOrder
<1>14. FirstBuffer
  BY <1>3, <1>4, <1>7 DEF FirstBuffer
<1> QED
  BY <1>6, <1>8, <1>9, <1>10, <1>12, <1>13, <1>14 DEF AudioInv

\* What a step may change of the stages of process and of the engine's thread
\* while the samples of the output stay where they are.
StagesMove ==
    /\ UNCHANGED <<threads, connected, heap, wpos, mixed, toWorklet, reads, running,
                   ready, output, outputBuffer>>
    /\ closing' \in {"no", "asked", "done"} /\ (closing' = "done" <=> closing = "done")
    /\ closing = "done" => promise' = promise
    /\ stage' \in {"idle", "inputAdd", "output", "outputAdd"}
    /\ stage' # "idle" => ready
    /\ stage' = "outputAdd" <=> stage = "outputAdd"
    /\ thread' \in {"wait", "mix", "publish", "capture", "release"}
    /\ ~threads => thread' = thread
    /\ thread' = "publish" <=> thread = "publish"
    /\ thread = "publish" => filled' = filled

LEMMA StagesMoveKeeps == AudioInv /\ StagesMove => AudioInv'
<1> SUFFICES ASSUME AudioInv, StagesMove PROVE AudioInv'
  OBVIOUS
<1> USE DEF AudioInv
<1>1. OutputTypeOK'
  BY DEF OutputTypeOK, StagesMove
<1>2. (Starting <=> Starting') /\ (Stopping <=> Stopping')
  BY DEF StagesMove, Starting, Stopping
<1>3. MessagesInOrder'
  BY <1>2 DEF MessagesInOrder, StagesMove
<1>4. /\ Chunks' = Chunks /\ Unheard' = Unheard /\ InRing' = InRing /\ Next1' = Next1
  BY DEF StagesMove, Chunks, Unheard, InRing, Next1
<1>5. ChunksCounted'
  BY <1>4 DEF ChunksCounted, StagesMove
<1>6. ThreadLeavesSpace'
  BY DEF ThreadLeavesSpace, StagesMove
<1>7. RingInOrder'
  BY <1>4 DEF RingInOrder, StagesMove
<1>8. ChunksInOrder'
  BY <1>4 DEF ChunksInOrder, StagesMove
<1>9. FirstBuffer'
  BY <1>2 DEF FirstBuffer, StagesMove
<1> QED
  BY <1>1, <1>3, <1>5, <1>6, <1>7, <1>8, <1>9

\* The steps that do not touch the output.
LEMMA OtherSteps ==
    ASSUME AudioInv,
           \/ Create \/ ModuleAdded \/ AskStart \/ AskClose \/ OnInput
           \/ \E channels \in 0..MaxInChannels : ProcessInput(channels)
           \/ ProcessInputAdd
           \/ ThreadWake \/ ThreadCapture \/ ThreadRelease
    PROVE  StagesMove
<1> USE DEF AudioInv, OutputTypeOK, MessagesInOrder, ThreadLeavesSpace, mainVars, mixVars,
            captureVars, portVars, processVars, threadVars
<1>1. CASE Create \/ ModuleAdded \/ AskStart \/ AskClose
  BY <1>1 DEF Create, ModuleAdded, AskStart, AskClose, StagesMove
<1>2. CASE OnInput
  BY <1>2 DEF OnInput, StagesMove
<1>3. ASSUME NEW channels \in 0..MaxInChannels, ProcessInput(channels) PROVE StagesMove
  BY <1>3 DEF ProcessInput, StagesMove
<1>4. CASE ProcessInputAdd
  BY <1>4 DEF ProcessInputAdd, StagesMove
<1>5. CASE ThreadWake
  BY <1>5 DEF ThreadWake, StagesMove
<1>6. CASE ThreadCapture
  BY <1>6 DEF ThreadCapture, StagesMove
<1>7. CASE ThreadRelease
  BY <1>7 DEF ThreadRelease, StagesMove
<1> QED
  BY <1>1, <1>2, <1>3, <1>4, <1>5, <1>6, <1>7

\* A message that is added behind the others.
LEMMA Appended ==
    ASSUME toWorklet \in Seq(OutMessages), NEW message \in OutMessages,
           toWorklet' = Append(toWorklet, message)
    PROVE  /\ toWorklet' \in Seq(OutMessages)
           /\ Len(toWorklet') = Len(toWorklet) + 1 /\ Len(toWorklet) \in Nat
           /\ DOMAIN toWorklet' = 1..(Len(toWorklet) + 1)
           /\ DOMAIN toWorklet = 1..Len(toWorklet)
           /\ \A i \in DOMAIN toWorklet : toWorklet'[i] = toWorklet[i]
           /\ toWorklet'[Len(toWorklet) + 1] = message
BY DEF OutMessages

\* A message that is taken from the front.
LEMMA Taken1 ==
    ASSUME toWorklet \in Seq(OutMessages), toWorklet # <<>>, toWorklet' = Tail(toWorklet)
    PROVE  /\ toWorklet' \in Seq(OutMessages)
           /\ Len(toWorklet) \in Nat /\ Len(toWorklet) >= 1
           /\ Len(toWorklet') = Len(toWorklet) - 1
           /\ DOMAIN toWorklet' = 1..(Len(toWorklet) - 1)
           /\ DOMAIN toWorklet = 1..Len(toWorklet)
           /\ Head(toWorklet) = toWorklet[1] /\ Head(toWorklet) \in OutMessages
           /\ \A i \in 1..(Len(toWorklet) - 1) : toWorklet'[i] = toWorklet[i + 1]
<1>1. /\ Tail(toWorklet) \in Seq(OutMessages)
      /\ Len(Tail(toWorklet)) = Len(toWorklet) - 1
      /\ \A i \in 1..Len(Tail(toWorklet)) : Tail(toWorklet)[i] = toWorklet[i + 1]
      /\ Head(toWorklet) \in OutMessages
  BY HeadTailProperties
<1>2. Len(toWorklet) \in Nat /\ Len(toWorklet) >= 1 /\ DOMAIN toWorklet = 1..Len(toWorklet)
  BY EmptySeq, LenProperties
<1>3. Head(toWorklet) = toWorklet[1]
  BY <1>2
<1>4. DOMAIN Tail(toWorklet) = 1..Len(Tail(toWorklet))
  BY <1>1, LenProperties
<1> QED
  BY <1>1, <1>2, <1>3, <1>4

\* start is sent with the buffer the engine has filled.
LEMMA ConnectKeeps == AudioInv /\ ConnectAndStart => AudioInv'
<1> SUFFICES ASSUME AudioInv, ConnectAndStart PROVE AudioInv'
  OBVIOUS
<1> USE DEF AudioInv
<1> DEFINE message == [cmd |-> "start", data |-> heap]
<1>1. /\ promise = "ready" /\ ~connected /\ connected'
      /\ toWorklet' = Append(toWorklet, message)
      /\ UNCHANGED <<threads, promise, closing, heap, wpos, mixed, reads, running, ready,
                     output, outputBuffer, stage, thread, filled>>
  BY DEF ConnectAndStart, mainVars, mixVars, processVars, threadVars
<1>2. ~ready /\ running /\ closing # "done" /\ ~Starting /\ ~Stopping
  BY <1>1 DEF MessagesInOrder, Starting, Stopping, OutputTypeOK
<1>3. Len(toWorklet) = 0
  BY <1>2 DEF MessagesInOrder
<1>4. message \in OutMessages /\ heap = Block(0, OutSize)
  <2>1. heap = Block(0, OutSize)
    BY <1>1, <1>2 DEF FirstBuffer, OutputTypeOK
  <2>2. 0 \in Labels /\ OutSize \in 1..OutSize
    BY Sizes DEF Labels
  <2>3. heap \in Blocks(OutSize)
    BY <2>1, <2>2, BlockType
  <2> QED
    BY <2>1, <2>3 DEF OutMessages
<1>5. /\ toWorklet' \in Seq(OutMessages) /\ Len(toWorklet') = 1
      /\ DOMAIN toWorklet' = {1} /\ toWorklet'[1] = message
  <2>1. toWorklet \in Seq(OutMessages)
    BY DEF OutputTypeOK
  <2> HIDE DEF message
  <2>2. /\ toWorklet' \in Seq(OutMessages)
        /\ Len(toWorklet') = Len(toWorklet) + 1
        /\ DOMAIN toWorklet' = 1..(Len(toWorklet) + 1)
        /\ toWorklet'[Len(toWorklet) + 1] = message
    BY <1>1, <1>4, <2>1, Appended
  <2> QED
    BY <1>3, <2>2
<1>6. Starting' /\ ~Stopping'
  BY <1>1, <1>2 DEF Starting, Stopping, OutputTypeOK
<1>7. OutputTypeOK'
  BY <1>1, <1>5 DEF OutputTypeOK
<1>8. MessagesInOrder'
  BY <1>1, <1>2, <1>5, <1>6 DEF MessagesInOrder
<1>9. Chunks = 0 /\ Chunks' = 0 /\ Unheard' = Unheard /\ InRing' = InRing /\ Next1' = Next1
  BY <1>1, <1>2 DEF Chunks, Unheard, InRing, Next1
<1>10. ChunksCounted'
  BY <1>1, <1>2, <1>9 DEF ChunksCounted
<1>11. ThreadLeavesSpace'
  BY <1>1 DEF ThreadLeavesSpace
<1>12. RingInOrder'
  BY <1>1, <1>9 DEF RingInOrder
<1>13. ChunksInOrder'
  BY <1>1, <1>2 DEF ChunksInOrder
<1>14. FirstBuffer'
  BY <1>1, <1>2, <1>4, <1>5, <1>6 DEF FirstBuffer
<1> QED
  BY <1>7, <1>8, <1>10, <1>11, <1>12, <1>13, <1>14

\* stop is sent behind everything else.
LEMMA CloseKeeps == AudioInv /\ CloseNode => AudioInv'
<1> SUFFICES ASSUME AudioInv, CloseNode PROVE AudioInv'
  OBVIOUS
<1> USE DEF AudioInv
<1> DEFINE message == [cmd |-> "stop", data |-> None]
           n == Len(toWorklet)
<1>1. /\ closing = "asked" /\ closing' = "done" /\ promise' = "none"
      /\ toWorklet' = Append(toWorklet, message)
      /\ UNCHANGED <<threads, connected, heap, wpos, mixed, reads, running, ready,
                     output, outputBuffer, stage, thread, filled>>
  BY DEF CloseNode, mixVars, processVars, threadVars
<1>2. running /\ ~Stopping /\ Stopping' /\ (Starting' <=> Starting)
  BY <1>1 DEF MessagesInOrder, Starting, Stopping, OutputTypeOK
<1>3. message \in OutMessages
  BY DEF OutMessages
<1>4. /\ toWorklet' \in Seq(OutMessages) /\ Len(toWorklet') = n + 1 /\ n \in Nat
      /\ DOMAIN toWorklet' = 1..(n + 1) /\ DOMAIN toWorklet = 1..n
      /\ \A i \in 1..n : toWorklet'[i] = toWorklet[i]
      /\ toWorklet'[n + 1] = message
  <2>1. toWorklet \in Seq(OutMessages)
    BY DEF OutputTypeOK
  <2> HIDE DEF message
  <2> QED
    BY <1>1, <1>3, <2>1, Appended
<1>5. OutputTypeOK'
  BY <1>1, <1>4 DEF OutputTypeOK
<1>6. MessagesInOrder'
  <2>1. \A i \in 1..n : /\ toWorklet[i].cmd = "start" <=> Starting /\ i = 1
                        /\ toWorklet[i].cmd # "stop"
    BY <1>2, <1>4 DEF MessagesInOrder
  <2>2. Starting => n >= 1
    BY <1>4, <1>2 DEF MessagesInOrder
  <2>3. \A i \in 1..(n + 1) : /\ toWorklet'[i].cmd = "start" <=> Starting /\ i = 1
                              /\ toWorklet'[i].cmd = "stop" <=> i = n + 1
    BY <1>4, <2>1, <2>2
  <2>4. \A i \in DOMAIN toWorklet' :
          /\ toWorklet'[i].cmd = "start" <=> Starting' /\ i = 1
          /\ toWorklet'[i].cmd = "stop" <=> Stopping' /\ i = Len(toWorklet')
    BY <1>2, <1>4, <2>3
  <2>5. n >= IF Starting THEN 1 ELSE 0
    BY <1>2, <1>4 DEF MessagesInOrder
  <2>6. ~ready => n = IF Starting THEN 1 ELSE 0
    BY <1>2, <1>4 DEF MessagesInOrder
  <2>7. /\ Len(toWorklet') >= (IF Starting' THEN 1 ELSE 0) + (IF Stopping' THEN 1 ELSE 0)
        /\ ~ready' => Len(toWorklet') = (IF Starting' THEN 1 ELSE 0) + (IF Stopping' THEN 1 ELSE 0)
    BY <1>1, <1>2, <1>4, <2>5, <2>6
  <2> QED
    BY <1>1, <2>4, <2>7 DEF MessagesInOrder
<1>7. Chunks' = Chunks /\ Unheard' = Unheard /\ InRing' = InRing /\ Next1' = Next1
  BY <1>1, <1>4 DEF Chunks, Unheard, InRing, Next1
<1>8. ChunksCounted'
  <2>1. Chunks \in Nat /\ output.avail \in Nat /\ reads \in Nat
    BY ChunkCount DEF OutputTypeOK, Rings
  <2>2. /\ OutChunk * (reads + Chunks) = OutChunk * reads + OutChunk * Chunks
        /\ OutChunk * reads >= 0 /\ OutChunk * Chunks \in Nat /\ OutChunk * reads \in Nat
    BY <2>1, Sizes
  <2> QED
    BY <1>1, <1>7, <2>1, <2>2, Sizes DEF ChunksCounted
<1>9. ThreadLeavesSpace'
  BY <1>1 DEF ThreadLeavesSpace
<1>10. RingInOrder'
  BY <1>1, <1>7 DEF RingInOrder
<1>11. ChunksInOrder'
  <2>1. ASSUME ready, ~threads, NEW i \in 1..Chunks
        PROVE  /\ i \in 1..n /\ (i # 1 => i - 1 \in 1..n)
               /\ toWorklet'[i] = toWorklet[i]
               /\ i # 1 => toWorklet'[i - 1] = toWorklet[i - 1]
    BY <2>1, <1>1, <1>4 DEF Chunks
  <2> QED
    BY <1>1, <1>7, <2>1 DEF ChunksInOrder
<1>12. FirstBuffer'
  <2>1. Starting => toWorklet'[1] = toWorklet[1]
    BY <1>2, <1>4 DEF MessagesInOrder
  <2> QED
    BY <1>1, <1>2, <2>1 DEF FirstBuffer
<1> QED
  BY <1>5, <1>6, <1>8, <1>9, <1>10, <1>11, <1>12

\* An answered read is a chunk that is under way.
LEMMA ReadKeeps ==
    ASSUME AudioInv, OnRead
    PROVE  /\ AudioInv'
           /\ running' = running /\ outputBuffer' = outputBuffer /\ InRing' = InRing
           /\ \/ Chunks' = Chunks
              \/ /\ Chunks' = Chunks + 1 /\ ready /\ ~threads
                 /\ closing # "done" /\ reads > 0
<1> USE DEF AudioInv
<1>1. /\ reads \in Nat /\ reads > 0 /\ reads' = reads - 1
      /\ UNCHANGED <<threads, promise, connected, closing, running, ready, output,
                     outputBuffer, stage, thread, filled>>
  BY DEF OnRead, mainVars, processVars, threadVars, OutputTypeOK
<1>2. /\ InRing' = InRing /\ Next1' = Next1 /\ Unheard' = Unheard
      /\ Unheard = output.avail - (IF stage = "outputAdd" THEN OutChunk ELSE 0)
      /\ (Starting' <=> Starting) /\ (Stopping' <=> Stopping)
  BY <1>1 DEF InRing, Next1, Unheard, Starting, Stopping
<1>3. ~threads
  BY <1>1 DEF ChunksCounted
<1>4. CASE ~Listening
  <2>1. UNCHANGED <<heap, wpos, mixed, toWorklet>>
    BY <1>4 DEF OnRead, mixVars
  <2>2. ready => closing = "done"
    BY <1>4 DEF MessagesInOrder, Listening
  <2>3. Chunks' = Chunks
    BY <1>1, <2>1 DEF Chunks
  <2>4. OutputTypeOK'
    BY <1>1, <2>1 DEF OutputTypeOK
  <2>5. MessagesInOrder'
    BY <1>1, <1>2, <2>1 DEF MessagesInOrder
  <2>6. ChunksCounted'
    BY <1>1, <1>3, <2>2, <2>3 DEF ChunksCounted
  <2>7. ThreadLeavesSpace'
    BY <1>1 DEF ThreadLeavesSpace
  <2>8. RingInOrder'
    BY <1>1, <1>2, <2>1 DEF RingInOrder
  <2>9. ChunksInOrder'
    BY <1>1, <1>2, <2>1, <2>3 DEF ChunksInOrder
  <2>10. FirstBuffer'
    BY <1>1, <1>2, <2>1 DEF FirstBuffer
  <2> QED
    BY <1>1, <1>2, <2>3, <2>4, <2>5, <2>6, <2>7, <2>8, <2>9, <2>10
<1>5. CASE Listening
  <2> DEFINE n == Len(toWorklet)
             message == [cmd |-> "chunk", data |-> Block(mixed, OutChunk)]
  <2>1. connected /\ closing # "done" /\ running /\ ready /\ ~Starting /\ ~Stopping
    BY <1>1, <1>5 DEF Listening, MessagesInOrder, ChunksCounted, Starting, Stopping
  <2>2. /\ mixed \in Labels /\ wpos \in 0..(OutSize - 1) /\ toWorklet \in Seq(OutMessages)
        /\ OutChunk \in 1..OutSize
    BY Sizes DEF OutputTypeOK
  <2>3. /\ wpos' = (IF wpos + OutChunk >= OutSize THEN OutChunk - (OutSize - wpos)
                    ELSE wpos + OutChunk)
        /\ mixed' = Later(mixed, OutChunk)
        /\ toWorklet' = Append(toWorklet, message)
    <3>1. Consumed(OutChunk)
      BY <1>5 DEF OnRead
    <3>2. SentBlock(Mixed(heap, wpos, OutChunk), OutChunk) = Block(mixed, OutChunk)
      BY <2>2, SentIsMixed
    <3> QED
      BY <3>1, <3>2 DEF Consumed
  <2>4. /\ Block(mixed, OutChunk) \in Blocks(OutChunk)
        /\ Block(mixed, OutChunk)[0] = mixed
    BY <2>2, BlockType
  <2>5. message \in OutMessages /\ message.data = Block(mixed, OutChunk)
        /\ message.cmd = "chunk"
    BY <2>4 DEF OutMessages
  <2>6. /\ toWorklet' \in Seq(OutMessages) /\ Len(toWorklet') = n + 1 /\ n \in Nat
        /\ DOMAIN toWorklet' = 1..(n + 1) /\ DOMAIN toWorklet = 1..n
        /\ \A i \in 1..n : toWorklet'[i] = toWorklet[i]
        /\ toWorklet'[n + 1].cmd = "chunk"
        /\ toWorklet'[n + 1].data = Block(mixed, OutChunk)
    <3> HIDE DEF message
    <3> QED
      BY <2>2, <2>3, <2>5, Appended
  <2>7. Chunks = n /\ Chunks' = n + 1
    BY <1>1, <2>1, <2>6 DEF Chunks
  <2>8. OutputTypeOK'
    <3>1. wpos' \in 0..(OutSize - 1)
      BY <2>2, <2>3, Sizes
    <3>2. mixed' \in Labels
      BY <2>2, <2>3, LaterType, Sizes
    <3>3. reads' \in Nat
      BY <1>1
    <3> QED
      BY <1>1, <2>6, <3>1, <3>2, <3>3 DEF OutputTypeOK
  <2>9. MessagesInOrder'
    <3>1. \A i \in 1..n : toWorklet[i].cmd # "start" /\ toWorklet[i].cmd # "stop"
      BY <2>1, <2>6 DEF MessagesInOrder
    <3>2. \A i \in 1..(n + 1) : toWorklet'[i].cmd # "start" /\ toWorklet'[i].cmd # "stop"
      BY <2>6, <3>1
    <3> QED
      BY <1>1, <1>2, <2>1, <2>6, <3>2 DEF MessagesInOrder
  <2>10. ChunksCounted'
    <3>1. (reads - 1) + (n + 1) = reads + n
      BY <1>1, <2>6
    <3> QED
      BY <1>1, <1>3, <2>1, <2>7, <3>1 DEF ChunksCounted
  <2>11. ThreadLeavesSpace'
    BY <1>1 DEF ThreadLeavesSpace
  <2>12. RingInOrder'
    BY <1>1, <1>2, <1>3 DEF RingInOrder
  <2>13. ChunksInOrder'
    <3>1. ASSUME NEW i \in 1..(n + 1)
          PROVE  /\ toWorklet'[i].data = Block(toWorklet'[i].data[0], OutChunk)
                 /\ toWorklet'[i].data[0] =
                      IF i = 1 THEN Later(Next1, Unheard)
                      ELSE Later(toWorklet'[i - 1].data[0], OutChunk)
      <4>1. CASE i = n + 1
        <5>1. toWorklet'[i].data = Block(mixed, OutChunk) /\ toWorklet'[i].data[0] = mixed
          BY <4>1, <2>4, <2>6
        <5>2. mixed = IF n = 0 THEN Later(Next1, Unheard)
                      ELSE Later(toWorklet[n].data[0], OutChunk)
          BY <1>3, <2>1, <2>7 DEF ChunksInOrder
        <5>3. n # 0 => toWorklet'[n] = toWorklet[n]
          BY <2>6
        <5>4. i - 1 = n /\ (i = 1 <=> n = 0)
          BY <4>1, <2>6
        <5> QED
          BY <5>1, <5>2, <5>3, <5>4
      <4>2. CASE i \in 1..n
        <5>1. toWorklet'[i] = toWorklet[i] /\ (i # 1 => toWorklet'[i - 1] = toWorklet[i - 1])
          BY <4>2, <2>6
        <5> QED
          BY <4>2, <5>1, <1>3, <2>1, <2>7 DEF ChunksInOrder
      <4> QED
        BY <4>1, <4>2, <2>6
    <3>2. mixed' = Later(toWorklet'[n + 1].data[0], OutChunk)
      BY <2>3, <2>4, <2>6
    <3>3. n + 1 # 0
      BY <2>6
    <3> QED
      BY <1>2, <2>7, <3>1, <3>2, <3>3 DEF ChunksInOrder
  <2>14. FirstBuffer'
    BY <1>1, <2>1 DEF FirstBuffer
  <2> QED
    BY <1>1, <1>2, <1>3, <2>1, <2>7, <2>8, <2>9, <2>10, <2>11, <2>12, <2>13, <2>14
<1> QED
  BY <1>4, <1>5

\* What taking any message leaves alone.
LEMMA MessageFrame ==
    ASSUME AudioInv, OnMessage
    PROVE  /\ stage = "idle" /\ toWorklet # <<>> /\ toWorklet' = Tail(toWorklet)
           /\ toWorklet \in Seq(OutMessages)
           /\ ParseMessage(toWorklet[1])
           /\ UNCHANGED <<threads, promise, connected, closing, heap, wpos, mixed, reads,
                          outputBuffer, stage, thread, filled>>
           /\ outputBuffer' = outputBuffer /\ Next1' = Next1
           /\ Unheard = output.avail
<1>1. /\ stage = "idle" /\ toWorklet # <<>> /\ toWorklet' = Tail(toWorklet)
      /\ ParseMessage(Head(toWorklet))
      /\ UNCHANGED <<threads, promise, connected, closing, heap, wpos, mixed, reads,
                     outputBuffer, stage, thread, filled>>
  BY DEF OnMessage, mainVars, mixVars, threadVars
<1>2. toWorklet \in Seq(OutMessages)
  BY DEF AudioInv, OutputTypeOK
<1>3. Head(toWorklet) = toWorklet[1]
  BY <1>1, <1>2
<1>4. output.avail \in Int
  BY DEF AudioInv, OutputTypeOK, Rings
<1>5. Unheard = output.avail
  BY <1>1, <1>4 DEF Unheard
<1>6. Next1' = Next1
  BY <1>1 DEF Next1
<1> QED
  BY <1>1, <1>2, <1>3, <1>5, <1>6

\* start: without threads the processor gets the buffer the engine has filled.
LEMMA StartKeeps ==
    ASSUME AudioInv, OnMessage, toWorklet[1].cmd = "start"
    PROVE  /\ AudioInv'
           /\ ~ready /\ running /\ running' /\ outputBuffer' = outputBuffer
           /\ Chunks = 0 /\ Chunks' = 0
           /\ IF threads THEN InRing' = InRing ELSE InRing = 0 /\ InRing' = OutSize
<1> USE DEF AudioInv
<1> DEFINE n == Len(toWorklet)
<1>1. /\ stage = "idle" /\ toWorklet \in Seq(OutMessages)
      /\ UNCHANGED <<threads, promise, connected, closing, heap, wpos, mixed, reads,
                     outputBuffer, stage, thread, filled>>
      /\ Next1' = Next1 /\ Unheard = output.avail
  BY MessageFrame
<1>2. /\ toWorklet' \in Seq(OutMessages) /\ n \in Nat /\ n >= 1
      /\ Len(toWorklet') = n - 1 /\ DOMAIN toWorklet' = 1..(n - 1)
      /\ DOMAIN toWorklet = 1..n /\ toWorklet[1] \in OutMessages
      /\ \A i \in 1..(n - 1) : toWorklet'[i] = toWorklet[i + 1]
  BY MessageFrame, Taken1
<1>3. Starting /\ connected /\ ~ready /\ running
  BY <1>2 DEF MessagesInOrder, Starting
<1>4. /\ ready' = TRUE /\ running' = running
      /\ output' = IF threads THEN output ELSE NewRing(toWorklet[1].data, OutSize)
  BY MessageFrame DEF ParseMessage
<1>5. /\ ~Starting' /\ (Stopping' <=> Stopping) /\ (Stopping <=> closing = "done")
      /\ n = 1 + (IF Stopping THEN 1 ELSE 0)
  BY <1>1, <1>3, <1>4 DEF Starting, Stopping, MessagesInOrder
<1>6. Chunks = 0 /\ Chunks' = 0
  BY <1>1, <1>2, <1>3, <1>4, <1>5 DEF Chunks
<1>7. /\ ~threads => toWorklet[1].data = Block(0, OutSize)
      /\ ~threads => output.avail = 0 /\ thread = "wait" /\ Next1 = 0
      /\ ~threads => Unheard = 0 /\ InRing = 0
  BY <1>1, <1>3 DEF FirstBuffer, ThreadLeavesSpace, Next1, NextAfter, InRing
<1>8. ASSUME ~threads
      PROVE  /\ output' \in Rings(OutSize) /\ output'.avail = OutSize
             /\ output'.rpos = 0 /\ output'.wpos = 0 /\ output'.buffer = Block(0, OutSize)
             /\ Unheard' = OutSize /\ InRing' = OutSize
  <2>1. output' = NewRing(Block(0, OutSize), OutSize)
    BY <1>4, <1>7, <1>8
  <2>2. Block(0, OutSize) \in Blocks(OutSize) /\ 0 \in 0..(OutSize - 1) /\ 0 \in 0..OutSize
        /\ OutSize \in 0..OutSize
    BY BlockType, Sizes DEF Labels
  <2>3. /\ output' \in Rings(OutSize) /\ output'.avail = OutSize
        /\ output'.rpos = 0 /\ output'.wpos = 0 /\ output'.buffer = Block(0, OutSize)
    BY <2>1, <2>2 DEF NewRing, Rings
  <2>4. Unheard' = OutSize
    BY <1>1, <2>3, Sizes DEF Unheard
  <2>5. InRing' = OutSize
    BY <1>1, <1>7, <1>8, <2>4, Sizes DEF InRing
  <2> QED
    BY <2>3, <2>4, <2>5
<1>9. threads => output' = output /\ Unheard' = Unheard /\ InRing' = InRing
  BY <1>1, <1>4 DEF Unheard, InRing
<1>10. OutputTypeOK'
  <2>1. output' \in Rings(OutSize)
    BY <1>8, <1>9 DEF OutputTypeOK
  <2> QED
    BY <1>1, <1>2, <1>4, <2>1 DEF OutputTypeOK
<1>11. MessagesInOrder'
  <2>1. \A i \in 1..(n - 1) : /\ toWorklet'[i].cmd # "start"
                              /\ toWorklet'[i].cmd = "stop" <=> Stopping /\ i = n - 1
    <3> TAKE i \in 1..(n - 1)
    <3>1. i + 1 \in 1..n /\ i + 1 # 1 /\ (i + 1 = n <=> i = n - 1)
      BY <1>2
    <3>2. /\ toWorklet[i + 1].cmd = "start" <=> Starting /\ i + 1 = 1
          /\ toWorklet[i + 1].cmd = "stop" <=> Stopping /\ i + 1 = n
      BY <1>2, <3>1 DEF MessagesInOrder
    <3> QED
      BY <1>2, <3>1, <3>2
  <2>2. closing' = "done" => promise' = "none"
    BY <1>1 DEF MessagesInOrder
  <2>3. Len(toWorklet') = (IF Starting' THEN 1 ELSE 0) + (IF Stopping' THEN 1 ELSE 0)
    BY <1>2, <1>5
  <2>4. \A i \in DOMAIN toWorklet' :
          /\ toWorklet'[i].cmd = "start" <=> Starting' /\ i = 1
          /\ toWorklet'[i].cmd = "stop" <=> Stopping' /\ i = Len(toWorklet')
    BY <1>2, <1>5, <2>1
  <2>5. Len(toWorklet') >= (IF Starting' THEN 1 ELSE 0) + (IF Stopping' THEN 1 ELSE 0)
    BY <1>5, <2>3
  <2> QED
    BY <1>1, <1>3, <1>4, <2>2, <2>3, <2>4, <2>5 DEF MessagesInOrder
<1>12. ChunksCounted'
  <2>1. reads = 0
    BY <1>3 DEF ChunksCounted
  <2>2. reads' = 0 /\ ready' /\ threads' = threads /\ closing' = closing
    BY <1>1, <1>4, <2>1
  <2>3. reads' + Chunks' = 0 /\ Chunks' = 0
    BY <1>6, <2>2
  <2>4. OutChunk * (reads' + Chunks') = 0 /\ OutChunk * Chunks' = 0
    BY <2>3, Sizes
  <2>5. ~threads => output'.avail = OutSize
    BY <1>8
  <2>6. ~threads => /\ output'.avail + OutChunk * Chunks' <= OutSize
                    /\ output'.avail + OutChunk * (reads' + Chunks') = OutSize
    BY <2>4, <2>5, Sizes
  <2> QED
    BY <2>2, <2>3, <2>6 DEF ChunksCounted
<1>13. ThreadLeavesSpace'
  BY <1>1, <1>9 DEF ThreadLeavesSpace
<1>14. RingInOrder'
  <2>1. CASE threads
    BY <1>1, <1>9, <2>1 DEF RingInOrder
  <2>2. CASE ~threads
    <3>1. /\ Slot(OutSize, 0) = 0 /\ Slot(OutSize, 0 + OutSize) = 0
          /\ \A j \in 0..(OutSize - 1) : Slot(OutSize, 0 + j) = j
      BY Sizes DEF Slot
    <3>2. \A j \in 0..(OutSize - 1) : Block(0, OutSize)[j] = Later(0, j)
      BY BlockType, Sizes DEF Labels
    <3> QED
      BY <1>1, <1>7, <1>8, <2>2, <3>1, <3>2 DEF RingInOrder
  <2> QED
    BY <2>1, <2>2
<1>15. ChunksInOrder'
  BY <1>1, <1>3, <1>6, <1>7, <1>8, Sizes DEF ChunksInOrder, FirstBuffer
<1>16. FirstBuffer'
  BY <1>4 DEF FirstBuffer
<1> QED
  BY <1>1, <1>3, <1>4, <1>6, <1>7, <1>8, <1>9, <1>10, <1>11, <1>12, <1>13, <1>14, <1>15, <1>16

\* stop: nothing is under way behind it, and nothing is played any more.
LEMMA StopKeeps ==
    ASSUME AudioInv, OnMessage, toWorklet[1].cmd = "stop"
    PROVE  AudioInv' /\ ~running' /\ outputBuffer' = outputBuffer
<1> USE DEF AudioInv
<1> DEFINE n == Len(toWorklet)
<1>1. /\ stage = "idle" /\ toWorklet \in Seq(OutMessages)
      /\ UNCHANGED <<threads, promise, connected, closing, heap, wpos, mixed, reads,
                     outputBuffer, stage, thread, filled>>
      /\ Next1' = Next1
  BY MessageFrame
<1>2. /\ toWorklet' \in Seq(OutMessages) /\ n \in Nat /\ n >= 1
      /\ Len(toWorklet') = n - 1 /\ DOMAIN toWorklet' = 1..(n - 1)
      /\ DOMAIN toWorklet = 1..n
  BY MessageFrame, Taken1
<1>3. Stopping /\ n = 1
  BY <1>2 DEF MessagesInOrder
<1>4. ready' = FALSE /\ running' = FALSE /\ output' = output
  BY MessageFrame DEF ParseMessage
<1>5. ~Starting' /\ ~Stopping'
  BY <1>4 DEF Starting, Stopping
<1>6. Chunks' = 0 /\ Unheard' = Unheard /\ InRing' = InRing
  BY <1>1, <1>4 DEF Chunks, Unheard, InRing
<1>7. OutputTypeOK'
  BY <1>1, <1>2, <1>4 DEF OutputTypeOK
<1>8. MessagesInOrder'
  BY <1>1, <1>2, <1>3, <1>4, <1>5 DEF MessagesInOrder, Stopping
<1>9. ChunksCounted'
  BY <1>1, <1>4, <1>6 DEF ChunksCounted
<1>10. ThreadLeavesSpace'
  BY <1>1, <1>4 DEF ThreadLeavesSpace
<1>11. RingInOrder'
  BY <1>1, <1>4, <1>6 DEF RingInOrder
<1>12. ChunksInOrder'
  BY <1>4 DEF ChunksInOrder
<1>13. FirstBuffer'
  BY <1>4 DEF FirstBuffer
<1> QED
  BY <1>1, <1>4, <1>7, <1>8, <1>9, <1>10, <1>11, <1>12, <1>13

\* A chunk that is written behind a ring in order leaves the ring in order.
LEMMA WrittenInOrder ==
    ASSUME NEW k \in Labels, NEW ring \in Rings(OutSize), NEW m \in Nat,
           m + OutChunk <= OutSize,
           InOrder(ring.buffer, Slot(OutSize, ring.rpos), m, k),
           ring.wpos = Slot(OutSize, Slot(OutSize, ring.rpos) + m),
           NEW new, new = AfterWrite(OutSize, ring, Block(Later(k, m), OutChunk), OutChunk)
    PROVE  /\ new \in Rings(OutSize) /\ new.rpos = ring.rpos /\ new.avail = ring.avail
           /\ InOrder(new.buffer, Slot(OutSize, ring.rpos), m + OutChunk, k)
           /\ new.wpos = Slot(OutSize, Slot(OutSize, ring.rpos) + (m + OutChunk))
<1> DEFINE r == Slot(OutSize, ring.rpos)
           data == Block(Later(k, m), OutChunk)
<1>1. /\ OutSize \in Nat \ {0} /\ OutChunk \in 1..OutSize /\ OutChunk \in Nat
      /\ ring.rpos \in 0..OutSize /\ ring.wpos \in 0..(OutSize - 1)
      /\ r \in 0..(OutSize - 1)
  <2>1. OutSize \in Nat \ {0} /\ OutChunk \in 1..OutSize /\ OutChunk \in Nat
    BY Sizes
  <2>2. ring.rpos \in 0..OutSize /\ ring.wpos \in 0..(OutSize - 1)
    BY DEF Rings
  <2> QED
    BY <2>1, <2>2 DEF Slot
<1>2. Later(k, m) \in Labels
  BY <1>1, LaterType
<1>3. /\ data \in [0..(OutChunk - 1) -> Labels]
      /\ \A j \in 0..(OutChunk - 1) : data[j] = Later(Later(k, m), j)
  BY <1>1, <1>2, BlockType DEF Blocks
<1>4. /\ new \in Rings(OutSize) /\ new.rpos = ring.rpos /\ new.avail = ring.avail
      /\ new.wpos = Slot(OutSize, ring.wpos + OutChunk)
      /\ Extended(new.buffer, ring.buffer, ring.wpos, OutChunk, Later(k, m))
  <2> DEFINE ring1 == AfterWrite(OutSize, ring, data, OutChunk)
  <2>1. new = ring1
    OBVIOUS
  <2> HIDE DEF data
  <2>2. /\ ring1 \in Rings(OutSize) /\ ring1.rpos = ring.rpos /\ ring1.avail = ring.avail
        /\ ring1.wpos = Slot(OutSize, ring.wpos + OutChunk)
        /\ \A i \in 0..(OutSize - 1) :
             ring1.buffer[i] = IF Distance(OutSize, ring.wpos, i) < OutChunk
                               THEN data[Distance(OutSize, ring.wpos, i)]
                               ELSE ring.buffer[i]
    BY <1>1, <1>3, AfterWriteAt
  <2>3. \A i \in 0..(OutSize - 1) :
          LET d == Distance(OutSize, ring.wpos, i) IN
          d < OutChunk => data[d] = Later(Later(k, m), d)
    <3> TAKE i \in 0..(OutSize - 1)
    <3> DEFINE d == Distance(OutSize, ring.wpos, i)
    <3>1. d \in Nat
      BY <1>1 DEF Distance
    <3> HIDE DEF d
    <3>2. d < OutChunk => data[d] = Later(Later(k, m), d)
      BY <1>1, <1>3, <3>1
    <3> QED
      BY <3>2 DEF d
  <2> HIDE DEF ring1
  <2>4. Extended(ring1.buffer, ring.buffer, ring.wpos, OutChunk, Later(k, m))
    BY <2>2, <2>3 DEF Extended
  <2> QED
    BY <2>1, <2>2, <2>4
<1>5. ring.wpos = Slot(OutSize, r + m) /\ InOrder(ring.buffer, r, m, k)
  OBVIOUS
<1> HIDE DEF r, data
<1>7. InOrder(new.buffer, r, m + OutChunk, k)
  BY <1>1, <1>4, <1>5, RingExtended
<1>8. Slot(OutSize, Slot(OutSize, r + m) + OutChunk) = Slot(OutSize, r + (m + OutChunk))
  <2>1. Slot(OutSize, Slot(OutSize, r + m) + OutChunk) = Slot(OutSize, r + m + OutChunk)
    BY <1>1, SlotAdd
  <2>2. r + m + OutChunk = r + (m + OutChunk)
    BY <1>1
  <2> QED
    BY <2>1, <2>2
<1> QED
  BY <1>4, <1>5, <1>7, <1>8 DEF r

\* More chunks hold no fewer samples.
LEMMA MoreChunks ==
    ASSUME NEW a \in Nat, NEW b \in Nat
    PROVE  /\ OutChunk * (a + b) >= OutChunk * a
           /\ OutChunk * (a + b) \in Nat /\ OutChunk * a \in Nat
<1>1. OutChunk * (a + b) = OutChunk * a + OutChunk * b
  BY Sizes
<1>2. OutChunk * a \in Nat /\ OutChunk * b \in Nat
  BY ChunkSamples
<1> QED
  BY <1>1, <1>2

\* The samples of one chunk less.
LEMMA OneChunkLess ==
    ASSUME NEW a \in Nat, NEW b \in Nat, b >= 1
    PROVE  /\ b - 1 \in Nat
           /\ OutChunk * b = OutChunk + OutChunk * (b - 1)
           /\ OutChunk * (a + b) = OutChunk + OutChunk * (a + (b - 1))
           /\ OutChunk * (b - 1) \in Nat /\ OutChunk * (a + (b - 1)) \in Nat
<1>1. b - 1 \in Nat /\ b = (b - 1) + 1
  OBVIOUS
<1>2. a + (b - 1) \in Nat /\ a + b = (a + (b - 1)) + 1
  OBVIOUS
<1>3. OutChunk * ((b - 1) + 1) = OutChunk * (b - 1) + OutChunk /\ OutChunk * (b - 1) \in Nat
  BY <1>1, ChunkSamples
<1>4. /\ OutChunk * ((a + (b - 1)) + 1) = OutChunk * (a + (b - 1)) + OutChunk
      /\ OutChunk * (a + (b - 1)) \in Nat
  BY <1>2, ChunkSamples
<1> QED
  BY <1>1, <1>2, <1>3, <1>4, Sizes

\* chunk: it fits, and the ring goes on with what the engine mixed next.
LEMMA ChunkKeeps ==
    ASSUME AudioInv, OnMessage, toWorklet[1].cmd = "chunk"
    PROVE  /\ AudioInv'
           /\ ready /\ running' = running /\ outputBuffer' = outputBuffer
           /\ Chunks' = Chunks - 1 /\ InRing' = InRing + OutChunk
<1> USE DEF AudioInv
<1> DEFINE n == Len(toWorklet)
           m == output.avail
           r == Slot(OutSize, output.rpos)
           data == toWorklet[1].data
           written == AfterWrite(OutSize, output, data, OutChunk)
<1>1. /\ stage = "idle" /\ toWorklet \in Seq(OutMessages)
      /\ UNCHANGED <<threads, promise, connected, closing, heap, wpos, mixed, reads,
                     outputBuffer, stage, thread, filled>>
      /\ Next1' = Next1 /\ Unheard = m
  BY MessageFrame
<1>2. /\ toWorklet' \in Seq(OutMessages) /\ n \in Nat /\ n >= 1
      /\ Len(toWorklet') = n - 1 /\ DOMAIN toWorklet' = 1..(n - 1)
      /\ DOMAIN toWorklet = 1..n /\ toWorklet[1] \in OutMessages
      /\ \A i \in 1..(n - 1) : toWorklet'[i] = toWorklet[i + 1]
  BY MessageFrame, Taken1
<1>3. ~Starting /\ (Stopping => n # 1)
  BY <1>2 DEF MessagesInOrder
<1>4. ready /\ running /\ connected
  BY <1>2, <1>3 DEF MessagesInOrder
<1>5. /\ Chunks = n - (IF closing = "done" THEN 1 ELSE 0)
      /\ Chunks \in Nat /\ Chunks >= 1 /\ ~threads /\ thread = "wait"
  BY <1>2, <1>3, <1>4 DEF Chunks, Stopping, ChunksCounted, ThreadLeavesSpace
<1>6. ready' /\ running' = running /\ output' = AddAvail(written, OutChunk)
  BY <1>4, MessageFrame DEF ParseMessage, Write
<1>7. /\ ~Starting' /\ (Stopping' <=> Stopping)
      /\ Chunks' = Chunks - 1
  BY <1>1, <1>2, <1>3, <1>4, <1>5, <1>6 DEF Starting, Stopping, Chunks
<1>8. /\ OutSize \in Nat \ {0} /\ OutChunk \in 1..OutSize /\ OutChunk \in Int
      /\ output \in Rings(OutSize) /\ m \in Nat /\ r \in 0..(OutSize - 1)
      /\ data \in [0..(OutChunk - 1) -> Labels] /\ Next1 \in Labels
  <2>1. data \in [0..(OutChunk - 1) -> Labels]
    BY <1>2, MessageTypes DEF Blocks
  <2>2. output \in Rings(OutSize) /\ m \in Nat /\ output.rpos \in 0..OutSize
    BY DEF OutputTypeOK, Rings
  <2>3. r \in 0..(OutSize - 1)
    BY <2>2, Sizes DEF Slot
  <2>4. Next1 \in Labels
    BY NextAfterType DEF Next1, OutputTypeOK
  <2> QED
    BY <2>1, <2>2, <2>3, <2>4, Sizes
<1>9. /\ m + OutChunk <= OutSize
      /\ IF closing = "done" THEN m + OutChunk + OutChunk * (Chunks - 1) <= OutSize
         ELSE m + OutChunk + OutChunk * (reads + (Chunks - 1)) = OutSize
  <2>1. reads \in Nat
    BY DEF OutputTypeOK
  <2>2. /\ OutChunk * Chunks = OutChunk + OutChunk * (Chunks - 1)
        /\ OutChunk * (reads + Chunks) = OutChunk + OutChunk * (reads + (Chunks - 1))
        /\ OutChunk * (Chunks - 1) \in Nat
        /\ OutChunk * (reads + (Chunks - 1)) \in Nat
    BY <1>5, <2>1, OneChunkLess
  <2>3. IF closing = "done" THEN m + OutChunk * Chunks <= OutSize
        ELSE m + OutChunk * (reads + Chunks) = OutSize
    BY <1>4, <1>5 DEF ChunksCounted
  <2> HIDE DEF m
  <2> QED
    BY <1>8, <2>2, <2>3
<1>10. data = Block(Later(Next1, m), OutChunk)
  BY <1>1, <1>4, <1>5 DEF ChunksInOrder
<1>11. /\ written \in Rings(OutSize) /\ written.rpos = output.rpos /\ written.avail = m
       /\ InOrder(written.buffer, r, m + OutChunk, Next1)
       /\ written.wpos = Slot(OutSize, r + (m + OutChunk))
  <2>1. InRing = m
    BY <1>1, <1>5, <1>8 DEF InRing
  <2>2. /\ InOrder(output.buffer, r, m, Next1)
        /\ output.wpos = Slot(OutSize, r + m)
    BY <1>4, <1>5, <2>1 DEF RingInOrder, InOrder
  <2>3. written = AfterWrite(OutSize, output, Block(Later(Next1, m), OutChunk), OutChunk)
    BY <1>10
  <2> HIDE DEF written
  <2> QED
    BY <1>8, <1>9, <2>2, <2>3, WrittenInOrder
<1>12. /\ output' \in Rings(OutSize) /\ output'.buffer = written.buffer
       /\ output'.rpos = output.rpos /\ output'.wpos = written.wpos
       /\ output'.avail = m + OutChunk
  <2>1. written.avail + OutChunk \in 0..OutSize
    BY <1>8, <1>9, <1>11
  <2> HIDE DEF written
  <2> QED
    BY <1>6, <1>8, <1>11, <2>1, AddAvailAt
<1>13. /\ Unheard' = m + OutChunk /\ InRing' = m + OutChunk /\ InRing = m
  BY <1>1, <1>5, <1>8, <1>12 DEF Unheard, InRing
<1>14. OutputTypeOK'
  BY <1>1, <1>2, <1>4, <1>6, <1>12 DEF OutputTypeOK
<1>15. MessagesInOrder'
  <2>1. \A i \in 1..(n - 1) : /\ toWorklet'[i].cmd # "start"
                              /\ toWorklet'[i].cmd = "stop" <=> Stopping /\ i = n - 1
    <3> TAKE i \in 1..(n - 1)
    <3>1. i + 1 \in 1..n /\ i + 1 # 1 /\ (i + 1 = n <=> i = n - 1)
      BY <1>2
    <3>2. /\ toWorklet[i + 1].cmd = "start" <=> Starting /\ i + 1 = 1
          /\ toWorklet[i + 1].cmd = "stop" <=> Stopping /\ i + 1 = n
      BY <1>2, <3>1 DEF MessagesInOrder
    <3> QED
      BY <1>2, <3>1, <3>2
  <2>2. Len(toWorklet') >= (IF Starting' THEN 1 ELSE 0) + (IF Stopping' THEN 1 ELSE 0)
    BY <1>2, <1>3, <1>7
  <2>3. \A i \in DOMAIN toWorklet' :
          /\ toWorklet'[i].cmd = "start" <=> Starting' /\ i = 1
          /\ toWorklet'[i].cmd = "stop" <=> Stopping' /\ i = Len(toWorklet')
    BY <1>2, <1>7, <2>1
  <2> QED
    BY <1>1, <1>4, <1>6, <2>2, <2>3 DEF MessagesInOrder
<1>16. ChunksCounted'
  BY <1>1, <1>4, <1>5, <1>6, <1>7, <1>9, <1>12 DEF ChunksCounted
<1>17. ThreadLeavesSpace'
  BY <1>1, <1>5 DEF ThreadLeavesSpace
<1>18. RingInOrder'
  <2> HIDE DEF written
  <2>1. InOrder(output'.buffer, Slot(OutSize, output'.rpos), InRing', Next1')
    BY <1>1, <1>11, <1>12, <1>13
  <2>2. output'.wpos = Slot(OutSize, Slot(OutSize, output'.rpos) + InRing')
    BY <1>11, <1>12, <1>13
  <2> QED
    BY <1>1, <1>5, <2>1, <2>2 DEF RingInOrder, InOrder
<1>19. ChunksInOrder'
  <2>1. Later(Later(Next1, m), OutChunk) = Later(Next1, m + OutChunk)
    BY <1>8, <1>9, LaterAdd
  <2>2. /\ \A i \in 1..Chunks :
             /\ toWorklet[i].data = Block(toWorklet[i].data[0], OutChunk)
             /\ toWorklet[i].data[0] = IF i = 1 THEN Later(Next1, m)
                                       ELSE Later(toWorklet[i - 1].data[0], OutChunk)
        /\ closing # "done" => mixed = Later(toWorklet[Chunks].data[0], OutChunk)
    BY <1>1, <1>4, <1>5 DEF ChunksInOrder
  <2>3. Chunks <= n
    BY <1>2, <1>5
  <2>4. ASSUME NEW i \in 1..(Chunks - 1)
        PROVE  /\ toWorklet'[i].data = Block(toWorklet'[i].data[0], OutChunk)
               /\ toWorklet'[i].data[0] = IF i = 1 THEN Later(Next1, m + OutChunk)
                                          ELSE Later(toWorklet'[i - 1].data[0], OutChunk)
    <3>1. i + 1 \in 1..Chunks /\ i + 1 # 1 /\ (i + 1) - 1 = i /\ i \in 1..(n - 1)
      BY <1>5, <1>2, <2>3
    <3>2. toWorklet'[i] = toWorklet[i + 1]
      BY <1>2, <3>1
    <3>3. /\ toWorklet[i + 1].data = Block(toWorklet[i + 1].data[0], OutChunk)
          /\ toWorklet[i + 1].data[0] = Later(toWorklet[i].data[0], OutChunk)
      BY <2>2, <3>1
    <3>4. CASE i = 1
      <4>1. 1 \in 1..Chunks
        BY <1>5
      <4>2. toWorklet[1].data[0] = Later(Next1, m)
        BY <2>2, <4>1
      <4> QED
        BY <2>1, <3>2, <3>3, <3>4, <4>2
    <3>5. CASE i # 1
      <4>1. i - 1 \in 1..(n - 1) /\ (i - 1) + 1 = i
        BY <3>1, <3>5
      <4>2. toWorklet'[i - 1] = toWorklet[i]
        BY <1>2, <4>1
      <4> QED
        BY <3>2, <3>3, <3>5, <4>2
    <3> QED
      BY <3>4, <3>5
  <2>5. closing # "done" =>
          mixed = IF Chunks - 1 = 0 THEN Later(Next1, m + OutChunk)
                  ELSE Later(toWorklet'[Chunks - 1].data[0], OutChunk)
    <3>1. CASE Chunks = 1
      <4>1. toWorklet[1].data[0] = Later(Next1, m)
        BY <2>2, <3>1
      <4> QED
        BY <2>1, <2>2, <3>1, <4>1
    <3>2. CASE Chunks # 1
      <4>1. Chunks - 1 \in 1..(n - 1) /\ (Chunks - 1) + 1 = Chunks
        BY <1>5, <1>2, <2>3, <3>2
      <4>2. toWorklet'[Chunks - 1] = toWorklet[Chunks]
        BY <1>2, <4>1
      <4> QED
        BY <1>5, <2>2, <3>2, <4>2
    <3> QED
      BY <3>1, <3>2
  <2> HIDE DEF m
  <2> QED
    BY <1>1, <1>7, <1>13, <2>4, <2>5 DEF ChunksInOrder
<1>20. FirstBuffer'
  BY <1>6 DEF FirstBuffer
<1> QED
  BY <1>1, <1>4, <1>6, <1>7, <1>13, <1>14, <1>15, <1>16, <1>17, <1>18, <1>19, <1>20

\* read takes the next block out of the ring, which goes on behind it.
LEMMA PlayKeeps ==
    ASSUME AudioInv, ProcessOutput, DataLeft(output) >= OutChunk
    PROVE  /\ AudioInv'
           /\ ready /\ running' = running /\ Chunks' = Chunks
           /\ InRing >= OutChunk /\ InRing' = InRing - OutChunk
           /\ outputBuffer' = Block(Next1, OutChunk)
<1> USE DEF AudioInv
<1> DEFINE m == output.avail
           r == Slot(OutSize, output.rpos)
           more == IF thread = "publish" THEN filled ELSE 0
<1>1. /\ stage = "output" /\ stage' = "outputAdd" /\ m >= OutChunk
      /\ outputBuffer' = ReadBlock(OutSize, output, OutChunk)
      /\ output' = AfterRead(OutSize, output, OutChunk)
      /\ UNCHANGED <<threads, promise, connected, closing, heap, wpos, mixed, toWorklet,
                     reads, running, ready, thread, filled>>
  BY DEF ProcessOutput, DataLeft, mainVars, mixVars, portVars, threadVars
<1>2. /\ OutSize \in Nat \ {0} /\ OutChunk \in 1..OutSize /\ OutChunk \in Nat
      /\ output \in Rings(OutSize) /\ m \in Nat /\ m <= OutSize
      /\ output.rpos \in 0..OutSize /\ r \in 0..(OutSize - 1) /\ Next1 \in Labels
  <2>1. OutSize \in Nat \ {0} /\ OutChunk \in 1..OutSize /\ OutChunk \in Nat
    BY Sizes
  <2>2. /\ output \in Rings(OutSize) /\ m \in Nat /\ m <= OutSize
        /\ output.rpos \in 0..OutSize
    BY DEF OutputTypeOK, Rings
  <2>3. Next1 \in Labels
    BY NextAfterType DEF Next1, OutputTypeOK
  <2> QED
    BY <2>1, <2>2, <2>3 DEF Slot
<1>3. ready /\ running /\ connected
  BY <1>1 DEF MessagesInOrder
<1>4. /\ more \in Nat /\ m + more <= OutSize /\ Unheard = m /\ InRing = m + more
      /\ InRing \in Nat /\ InRing >= OutChunk /\ InRing <= OutSize
  BY <1>1, <1>2 DEF OutputTypeOK, ThreadLeavesSpace, Unheard, InRing
<1>5. /\ output' \in Rings(OutSize) /\ output'.buffer = output.buffer
      /\ output'.wpos = output.wpos /\ output'.avail = m
      /\ Slot(OutSize, output'.rpos) = Slot(OutSize, r + OutChunk)
  BY <1>1, <1>2, AfterReadAt
<1>6. Unheard' = m - OutChunk /\ InRing' = InRing - OutChunk
  BY <1>1, <1>2, <1>4, <1>5 DEF Unheard, InRing
<1>7. \A j \in 0..(InRing - 1) : output.buffer[Slot(OutSize, r + j)] = Later(Next1, j)
  BY <1>3 DEF RingInOrder
<1>8. outputBuffer' = Block(Next1, OutChunk)
  <2>1. \A j \in 0..(OutChunk - 1) : outputBuffer'[j] = Later(Next1, j)
    <3> TAKE j \in 0..(OutChunk - 1)
    <3>1. outputBuffer'[j] = output.buffer[Slot(OutSize, r + j)]
      BY <1>1, <1>2, ReadBlockAt
    <3>2. j \in 0..(InRing - 1)
      BY <1>2, <1>4
    <3> QED
      BY <1>7, <3>1, <3>2
  <2>2. outputBuffer' = [j \in 0..(OutChunk - 1) |-> outputBuffer'[j]]
    BY <1>1 DEF ReadBlock
  <2> QED
    BY <2>1, <2>2 DEF Block
<1>9. Next1' = Later(Next1, OutChunk)
  BY <1>2, <1>8, NextAfterBlock DEF Next1
<1>10. Chunks' = Chunks /\ (Starting' <=> Starting) /\ (Stopping' <=> Stopping)
  BY <1>1 DEF Chunks, Starting, Stopping
<1>11. OutputTypeOK'
  <2>1. outputBuffer' \in Blocks(OutChunk)
    BY <1>2, <1>8, BlockType
  <2> QED
    BY <1>1, <1>5, <2>1 DEF OutputTypeOK
<1>12. MessagesInOrder'
  BY <1>1, <1>3, <1>10 DEF MessagesInOrder
<1>13. ChunksCounted'
  BY <1>1, <1>5, <1>10 DEF ChunksCounted
<1>14. ThreadLeavesSpace'
  BY <1>1, <1>5 DEF ThreadLeavesSpace
<1>15. \A j \in Nat : j <= InRing - OutChunk =>
         /\ Slot(OutSize, Slot(OutSize, r + OutChunk) + j) = Slot(OutSize, r + (OutChunk + j))
         /\ Later(Later(Next1, OutChunk), j) = Later(Next1, OutChunk + j)
  <2> TAKE j \in Nat
  <2> HAVE j <= InRing - OutChunk
  <2>1. OutChunk + j <= OutSize
    BY <1>2, <1>4
  <2>2. Slot(OutSize, Slot(OutSize, r + OutChunk) + j) = Slot(OutSize, r + OutChunk + j)
    BY <1>2, <2>1, SlotAdd
  <2>3. r + OutChunk + j = r + (OutChunk + j)
    BY <1>2
  <2>4. Later(Later(Next1, OutChunk), j) = Later(Next1, OutChunk + j)
    BY <1>2, <2>1, LaterAdd
  <2> QED
    BY <2>2, <2>3, <2>4
<1>16. RingInOrder'
  <2> DEFINE r1 == Slot(OutSize, r + OutChunk)
  <2>1. InOrder(output.buffer, r1, InRing - OutChunk, Later(Next1, OutChunk))
    <3> SUFFICES ASSUME NEW j \in 0..(InRing - OutChunk - 1)
                 PROVE  output.buffer[Slot(OutSize, r1 + j)] = Later(Later(Next1, OutChunk), j)
      BY DEF InOrder
    <3>1. OutChunk + j \in 0..(InRing - 1) /\ j \in Nat /\ j <= InRing - OutChunk
      BY <1>2, <1>4
    <3> HIDE DEF r
    <3> QED
      BY <1>7, <1>15, <3>1
  <2>2. OutChunk + (InRing - OutChunk) = InRing /\ InRing - OutChunk \in Nat
    BY <1>2, <1>4
  <2>3. /\ Slot(OutSize, r1 + (InRing - OutChunk)) = Slot(OutSize, r + InRing)
        /\ Later(Later(Next1, OutChunk), InRing - OutChunk) = Later(Next1, InRing)
    BY <1>4, <1>15, <2>2
  <2>4. IF threads THEN wpos = Slot(OutSize, r + InRing) /\ mixed = Later(Next1, InRing)
        ELSE output.wpos = Slot(OutSize, r + InRing)
    BY <1>3 DEF RingInOrder
  <2> HIDE DEF r, r1
  <2>5. Slot(OutSize, output'.rpos) = r1
    BY <1>5 DEF r1
  <2>6. InOrder(output'.buffer, Slot(OutSize, output'.rpos), InRing', Next1')
    BY <1>5, <1>6, <1>9, <2>1, <2>5
  <2>7. LET end == Slot(OutSize, Slot(OutSize, output'.rpos) + InRing') IN
        IF threads' THEN wpos' = end /\ mixed' = Later(Next1', InRing')
        ELSE output'.wpos = end
    BY <1>1, <1>5, <1>6, <1>9, <2>3, <2>4, <2>5
  <2> QED
    BY <2>6, <2>7 DEF RingInOrder, InOrder
<1>17. ChunksInOrder'
  <2>1. ~threads => InRing = m
    BY <1>2, <1>4 DEF ThreadLeavesSpace
  <2>2. /\ OutChunk + (m - OutChunk) = m /\ m - OutChunk \in Nat
    BY <1>1, <1>2
  <2>3. ~threads => Later(Next1', Unheard') = Later(Next1, Unheard)
    BY <1>4, <1>6, <1>9, <1>15, <2>1, <2>2
  <2> QED
    BY <1>1, <1>10, <2>3 DEF ChunksInOrder
<1>18. FirstBuffer'
  BY <1>1, <1>3 DEF FirstBuffer
<1> QED
  BY <1>1, <1>3, <1>4, <1>6, <1>8, <1>10, <1>11, <1>12, <1>13, <1>14, <1>16, <1>17, <1>18

\* The second half of read: what was taken is not counted any more, and without
\* threads it is asked for again.
LEMMA PlayedKeeps ==
    ASSUME AudioInv, ProcessOutputAdd
    PROVE  /\ AudioInv'
           /\ running' = running /\ Chunks' = Chunks
           /\ InRing' = InRing /\ outputBuffer' = outputBuffer
<1> USE DEF AudioInv
<1> DEFINE m == output.avail
<1>1. /\ stage = "outputAdd" /\ stage' = "idle"
      /\ output' = AddAvail(output, -OutChunk)
      /\ reads' = IF threads THEN reads ELSE reads + 1
      /\ UNCHANGED <<threads, promise, connected, closing, heap, wpos, mixed, toWorklet,
                     running, ready, outputBuffer, thread, filled>>
  BY DEF ProcessOutputAdd, ProcessNotify, mainVars, mixVars
<1>2. /\ OutSize \in Nat \ {0} /\ OutChunk \in Nat /\ -OutChunk \in Int
      /\ output \in Rings(OutSize) /\ m \in Nat /\ m <= OutSize /\ reads \in Nat
      /\ m >= OutChunk /\ m + (-OutChunk) \in 0..OutSize /\ m + (-OutChunk) = m - OutChunk
  <2>1. OutSize \in Nat \ {0} /\ OutChunk \in Nat /\ -OutChunk \in Int
    BY Sizes
  <2>2. /\ output \in Rings(OutSize) /\ m \in Nat /\ m <= OutSize /\ reads \in Nat
    BY DEF OutputTypeOK, Rings
  <2>3. m >= OutChunk
    BY <1>1 DEF ThreadLeavesSpace
  <2> QED
    BY <2>1, <2>2, <2>3
<1>3. /\ output' \in Rings(OutSize) /\ output'.buffer = output.buffer
      /\ output'.rpos = output.rpos /\ output'.wpos = output.wpos
      /\ output'.avail = m - OutChunk
  BY <1>1, <1>2, AddAvailAt
<1>4. ready /\ running /\ connected
  BY <1>1 DEF MessagesInOrder
<1>5. Unheard = m - OutChunk /\ Unheard' = m - OutChunk
  BY <1>1, <1>2, <1>3 DEF Unheard
<1>6. /\ InRing' = InRing /\ Next1' = Next1 /\ Chunks' = Chunks
      /\ (Starting' <=> Starting) /\ (Stopping' <=> Stopping)
  BY <1>1, <1>5 DEF InRing, Next1, Chunks, Starting, Stopping
<1>7. OutputTypeOK'
  BY <1>1, <1>2, <1>3 DEF OutputTypeOK
<1>8. MessagesInOrder'
  BY <1>1, <1>6 DEF MessagesInOrder
<1>9. ChunksCounted'
  <2>1. Chunks \in Nat /\ OutChunk * Chunks \in Nat
    BY ChunkCount, ChunkSamples
  <2>2. /\ OutChunk * ((reads + Chunks) + 1) = OutChunk * (reads + Chunks) + OutChunk
        /\ OutChunk * (reads + Chunks) \in Nat
        /\ (reads + 1) + Chunks = (reads + Chunks) + 1
    BY <1>2, <2>1, ChunkSamples
  <2>3. ASSUME ~threads
        PROVE  IF closing = "done" THEN m - OutChunk + OutChunk * Chunks <= OutSize
               ELSE m - OutChunk + OutChunk * ((reads + 1) + Chunks) = OutSize
    <3>1. IF closing = "done" THEN m + OutChunk * Chunks <= OutSize
          ELSE m + OutChunk * (reads + Chunks) = OutSize
      BY <1>4, <2>3 DEF ChunksCounted
    <3> HIDE DEF m
    <3> QED
      BY <1>2, <2>1, <2>2, <3>1
  <2>4. threads => reads' = 0 /\ Chunks' = 0
    BY <1>1, <1>6 DEF ChunksCounted
  <2> QED
    BY <1>1, <1>3, <1>4, <1>6, <2>3, <2>4 DEF ChunksCounted
<1>10. ThreadLeavesSpace'
  BY <1>1, <1>2, <1>3 DEF ThreadLeavesSpace, OutputTypeOK
<1>11. RingInOrder'
  BY <1>1, <1>3, <1>6 DEF RingInOrder
<1>12. ChunksInOrder'
  BY <1>1, <1>5, <1>6 DEF ChunksInOrder
<1>13. FirstBuffer'
  BY <1>1, <1>4 DEF FirstBuffer
<1> QED
  BY <1>1, <1>6, <1>7, <1>8, <1>9, <1>10, <1>11, <1>12, <1>13

\* The engine's thread mixes behind what is in the ring, into free space.
LEMMA MixKeeps ==
    ASSUME AudioInv, ThreadMix, SpaceLeft(OutSize, output) >= OutChannels
    PROVE  /\ AudioInv'
           /\ threads /\ running' = running /\ Chunks' = Chunks
           /\ InRing' \in (InRing + 1)..OutSize /\ outputBuffer' = outputBuffer
<1> USE DEF AudioInv
<1> DEFINE a == output.avail
           r == Slot(OutSize, output.rpos)
           m == Unheard
<1>1. PICK n \in 1..(OutSize - a) :
        /\ output' = [output EXCEPT !.buffer = Mixed(output.buffer, wpos, n)]
        /\ wpos' = Slot(OutSize, wpos + n)
        /\ mixed' = Later(mixed, n)
        /\ filled' = n /\ thread' = "publish"
  <2>1. OutChannels \in Nat /\ OutSize \in Nat /\ a \in Nat
    BY DriverAssumption, Sizes DEF OutputTypeOK, Rings
  <2>2. ~(SpaceLeft(OutSize, output) < OutChannels) /\ SpaceLeft(OutSize, output) = OutSize - a
    BY <2>1 DEF SpaceLeft, DataLeft
  <2> QED
    BY <2>2 DEF ThreadMix
<1>2. /\ thread = "mix"
      /\ UNCHANGED <<threads, promise, connected, closing, heap, toWorklet, reads,
                     running, ready, outputBuffer, stage>>
  BY DEF ThreadMix, mainVars, portVars
<1>3. threads
  BY <1>2 DEF ThreadLeavesSpace
<1>4. /\ OutSize \in Nat \ {0} /\ n \in Nat /\ n \in 0..OutSize /\ n >= 1
      /\ a \in Nat /\ a + n <= OutSize /\ m \in Nat /\ m + n <= OutSize
      /\ output.buffer \in Blocks(OutSize) /\ r \in 0..(OutSize - 1)
      /\ wpos \in 0..(OutSize - 1) /\ mixed \in Labels /\ Next1 \in Labels
  <2>1. OutSize \in Nat \ {0} /\ OutChunk \in Nat
    BY Sizes
  <2>2. /\ a \in Nat /\ output.buffer \in Blocks(OutSize) /\ output.rpos \in 0..OutSize
        /\ wpos \in 0..(OutSize - 1) /\ mixed \in Labels
    BY DEF OutputTypeOK, Rings
  <2>3. r \in 0..(OutSize - 1)
    BY <2>1, <2>2 DEF Slot
  <2>4. Next1 \in Labels
    BY NextAfterType DEF Next1, OutputTypeOK
  <2>5. n \in Nat /\ n \in 0..OutSize /\ n >= 1 /\ a + n <= OutSize
    BY <1>1, <2>1, <2>2
  <2>6. m \in Nat /\ m + n <= OutSize
    BY <2>1, <2>2, <2>5 DEF Unheard, ThreadLeavesSpace
  <2> QED
    BY <2>1, <2>2, <2>3, <2>4, <2>5, <2>6
<1>5. /\ InRing = m /\ InOrder(output.buffer, r, m, Next1)
      /\ wpos = Slot(OutSize, r + m) /\ mixed = Later(Next1, m)
  <2>1. InRing = m
    BY <1>2, <1>4 DEF InRing
  <2> QED
    BY <1>3, <2>1 DEF RingInOrder, InOrder
<1>6. /\ output' \in Rings(OutSize) /\ output'.buffer = Mixed(output.buffer, wpos, n)
      /\ output'.rpos = output.rpos /\ output'.avail = a
  <2>1. output = [buffer |-> output.buffer, rpos |-> output.rpos, wpos |-> output.wpos,
                  avail |-> a]
    BY DEF OutputTypeOK, Rings
  <2> DEFINE new == Mixed(output.buffer, wpos, n)
  <2>2. new \in Blocks(OutSize)
    BY <1>4, MixedType
  <2>3. output' = [output EXCEPT !.buffer = new]
    BY <1>1
  <2> HIDE DEF new
  <2>4. /\ output' \in Rings(OutSize) /\ output'.buffer = new
        /\ output'.rpos = output.rpos /\ output'.avail = a
    BY <2>1, <2>2, <2>3 DEF OutputTypeOK, Rings
  <2> QED
    BY <2>4 DEF new
<1>7. /\ Unheard' = m /\ InRing' = m + n /\ Next1' = Next1 /\ Chunks' = Chunks
      /\ (Starting' <=> Starting) /\ (Stopping' <=> Stopping)
  <2>1. Unheard' = m
    BY <1>2, <1>6 DEF Unheard
  <2>2. InRing' = m + n
    BY <1>1, <2>1 DEF InRing
  <2> QED
    BY <1>2, <2>1, <2>2 DEF Next1, Chunks, Starting, Stopping
<1>8. /\ wpos' = Slot(OutSize, r + (m + n)) /\ wpos' \in 0..(OutSize - 1)
      /\ mixed' = Later(Next1, m + n) /\ mixed' \in Labels
  <2> HIDE DEF m, r
  <2>1. Slot(OutSize, Slot(OutSize, r + m) + n) = Slot(OutSize, r + m + n)
    BY <1>4, SlotAdd
  <2>2. r + m + n = r + (m + n)
    BY <1>4
  <2>3. Later(Later(Next1, m), n) = Later(Next1, m + n)
    BY <1>4, LaterAdd
  <2>4. Later(mixed, n) \in Labels
    BY <1>4, LaterType
  <2>5. Slot(OutSize, wpos + n) \in 0..(OutSize - 1)
    BY <1>4 DEF Slot
  <2> QED
    BY <1>1, <1>5, <2>1, <2>2, <2>3, <2>4, <2>5
<1>9. InOrder(output'.buffer, r, m + n, Next1)
  <2> HIDE DEF m, r
  <2>1. Extended(Mixed(output.buffer, wpos, n), output.buffer, wpos, n, mixed)
    BY <1>4, MixedAt
  <2>2. Extended(output'.buffer, output.buffer, Slot(OutSize, r + m), n, Later(Next1, m))
    BY <1>5, <1>6, <2>1
  <2> QED
    BY <1>4, <1>5, <2>2, RingExtended
<1>10. OutputTypeOK'
  BY <1>1, <1>2, <1>4, <1>6, <1>8 DEF OutputTypeOK
<1>11. MessagesInOrder'
  BY <1>2, <1>7 DEF MessagesInOrder
<1>12. ChunksCounted'
  BY <1>2, <1>3, <1>7 DEF ChunksCounted
<1>13. ThreadLeavesSpace'
  BY <1>1, <1>2, <1>3, <1>4, <1>6 DEF ThreadLeavesSpace
<1>14. RingInOrder'
  <2> HIDE DEF m, r
  <2>1. r = Slot(OutSize, output'.rpos)
    BY <1>6 DEF r
  <2>2. InOrder(output'.buffer, Slot(OutSize, output'.rpos), InRing', Next1')
    BY <1>7, <1>9, <2>1
  <2>3. LET end == Slot(OutSize, Slot(OutSize, output'.rpos) + InRing') IN
        wpos' = end /\ mixed' = Later(Next1', InRing')
    BY <1>7, <1>8, <2>1
  <2> QED
    BY <1>2, <1>3, <2>2, <2>3 DEF RingInOrder, InOrder
<1>15. ChunksInOrder'
  BY <1>2, <1>3 DEF ChunksInOrder
<1>16. FirstBuffer'
  BY <1>2, <1>3, <1>7 DEF FirstBuffer
<1>17. InRing' \in (InRing + 1)..OutSize
  <2> HIDE DEF m
  <2> QED
    BY <1>4, <1>5, <1>7
<1> QED
  BY <1>2, <1>3, <1>7, <1>10, <1>11, <1>12, <1>13, <1>14, <1>15, <1>16, <1>17

\* Counting what was mixed does not move it.
LEMMA PublishKeeps ==
    ASSUME AudioInv, ThreadPublish
    PROVE  /\ AudioInv'
           /\ running' = running /\ Chunks' = Chunks
           /\ InRing' = InRing /\ outputBuffer' = outputBuffer
<1> USE DEF AudioInv
<1> DEFINE a == output.avail
<1>1. /\ thread = "publish" /\ thread' = "capture"
      /\ output' = AddAvail(output, filled)
      /\ UNCHANGED <<threads, promise, connected, closing, heap, wpos, mixed, toWorklet,
                     reads, running, ready, outputBuffer, stage>>
  BY DEF ThreadPublish, mainVars, mixVars, portVars
<1>2. threads
  BY <1>1 DEF ThreadLeavesSpace
<1>3. /\ OutSize \in Nat \ {0} /\ OutChunk \in Nat /\ output \in Rings(OutSize)
      /\ a \in Nat /\ filled \in Nat /\ filled \in Int /\ a + filled \in 0..OutSize
  <2>1. OutSize \in Nat \ {0} /\ OutChunk \in Nat
    BY Sizes
  <2>2. output \in Rings(OutSize) /\ a \in Nat /\ filled \in Nat
    BY <1>1 DEF OutputTypeOK, Rings
  <2>3. a + filled <= OutSize
    BY <1>1 DEF ThreadLeavesSpace
  <2> QED
    BY <2>1, <2>2, <2>3
<1>4. /\ output' \in Rings(OutSize) /\ output'.buffer = output.buffer
      /\ output'.rpos = output.rpos /\ output'.wpos = output.wpos
      /\ output'.avail = a + filled
  BY <1>1, <1>3, AddAvailAt
<1>5. InRing' = InRing
  <2> DEFINE taken == IF stage = "outputAdd" THEN OutChunk ELSE 0
  <2>1. taken \in Nat /\ taken' = taken
    BY <1>1, <1>3
  <2>2. Unheard = a - taken /\ Unheard' = (a + filled) - taken
    <3>1. Unheard = a - taken /\ Unheard' = output'.avail - taken'
      BY DEF Unheard
    <3> HIDE DEF taken
    <3> QED
      BY <1>3, <1>4, <2>1, <3>1
  <2>3. InRing = Unheard + filled /\ InRing' = Unheard' + 0
    BY <1>1 DEF InRing
  <2> HIDE DEF taken
  <2> QED
    BY <1>3, <2>1, <2>2, <2>3
<1>6. /\ Next1' = Next1 /\ Chunks' = Chunks
      /\ (Starting' <=> Starting) /\ (Stopping' <=> Stopping)
  BY <1>1 DEF Next1, Chunks, Starting, Stopping
<1>7. OutputTypeOK'
  BY <1>1, <1>4 DEF OutputTypeOK
<1>8. MessagesInOrder'
  BY <1>1, <1>6 DEF MessagesInOrder
<1>9. ChunksCounted'
  BY <1>1, <1>2, <1>6 DEF ChunksCounted
<1>10. ThreadLeavesSpace'
  BY <1>1, <1>2, <1>3, <1>4 DEF ThreadLeavesSpace
<1>11. RingInOrder'
  BY <1>1, <1>4, <1>5, <1>6 DEF RingInOrder
<1>12. ChunksInOrder'
  BY <1>1, <1>2 DEF ChunksInOrder
<1>13. FirstBuffer'
  BY <1>1, <1>2, <1>6 DEF FirstBuffer
<1> QED
  BY <1>1, <1>5, <1>6, <1>7, <1>8, <1>9, <1>10, <1>11, <1>12, <1>13

-----------------------------------------------------------------------------
(* What the driver implements *)

\* How far the engine is ahead, by the parts of the invariant.
LEMMA AheadIs ==
    AudioInv =>
      /\ Chunks \in Nat /\ OutChunk * Chunks \in Nat
      /\ InRing \in 0..OutSize
      /\ Ahead = IF running THEN InRing + OutChunk * Chunks ELSE 0
      /\ ready => running
<1> SUFFICES ASSUME AudioInv
             PROVE  /\ Chunks \in Nat /\ OutChunk * Chunks \in Nat
                    /\ InRing \in 0..OutSize
                    /\ Ahead = IF running THEN InRing + OutChunk * Chunks ELSE 0
                    /\ ready => running
  OBVIOUS
<1> USE DEF AudioInv
<1>1. Chunks \in Nat /\ Cardinality(ChunkMessages) = Chunks /\ OutChunk * Chunks \in Nat
  BY ChunkCount, ChunkSamples
<1>2. InRing \in 0..OutSize
  <2>1. output.avail \in 0..OutSize
    BY DEF OutputTypeOK, Rings
  <2> QED
    BY <2>1, Sizes DEF OutputTypeOK, ThreadLeavesSpace, InRing, Unheard
<1>3. Ahead = IF running THEN InRing + OutChunk * Chunks ELSE 0
  BY <1>1 DEF Ahead, InRing
<1>4. ready => running
  BY DEF MessagesInOrder
<1> QED
  BY <1>1, <1>2, <1>3, <1>4

LEMMA AheadIsNext ==
    (AudioInv =>
      /\ Chunks \in Nat /\ OutChunk * Chunks \in Nat
      /\ InRing \in 0..OutSize
      /\ Ahead = IF running THEN InRing + OutChunk * Chunks ELSE 0
      /\ ready => running)'
BY AheadIs, PTL

\* A step after which the engine is as far ahead and the same block was heard.
LEMMA Unmoved ==
    ASSUME AudioInv, AudioInv', running' = running, outputBuffer' = outputBuffer,
           InRing' = InRing, Chunks' = Chunks
    PROVE  UNCHANGED <<outputBuffer, Ahead>>
BY AheadIs, AheadIsNext

\* Every step keeps the invariant and is a step of the stream, or leaves it alone.
LEMMA Step ==
    ASSUME AudioInv, [Next]_vars
    PROVE  AudioInv' /\ [Stream!Next]_<<outputBuffer, Ahead>>
<1>1. ASSUME StagesMove
      PROVE  AudioInv' /\ UNCHANGED <<outputBuffer, Ahead>>
  <2>1. AudioInv'
    BY <1>1, StagesMoveKeeps
  <2>2. /\ running' = running /\ outputBuffer' = outputBuffer
        /\ InRing' = InRing /\ Chunks' = Chunks
    BY <1>1 DEF StagesMove, InRing, Unheard, Chunks
  <2> QED
    BY <2>1, <2>2, Unmoved
<1>2. CASE \/ Create \/ ModuleAdded \/ AskStart \/ AskClose \/ OnInput
           \/ \E channels \in 0..MaxInChannels : ProcessInput(channels)
           \/ ProcessInputAdd
           \/ ThreadWake \/ ThreadCapture \/ ThreadRelease
  BY <1>1, <1>2, OtherSteps
<1>3. CASE UNCHANGED vars
  <2>1. StagesMove
    BY <1>3 DEF StagesMove, AudioInv, OutputTypeOK, MessagesInOrder, vars, mainVars, mixVars,
                portVars, processVars, threadVars
  <2> QED
    BY <1>1, <2>1
<1>4. CASE ConnectAndStart
  <2>1. AudioInv'
    BY <1>4, ConnectKeeps
  <2>2. /\ running' = running /\ outputBuffer' = outputBuffer
        /\ InRing' = InRing /\ Chunks' = Chunks
    <3>1. ~connected /\ UNCHANGED <<running, ready, outputBuffer, output, stage, thread, filled>>
      BY <1>4 DEF ConnectAndStart, processVars, threadVars
    <3>2. ~ready
      BY <3>1 DEF AudioInv, MessagesInOrder
    <3> QED
      BY <3>1, <3>2 DEF InRing, Unheard, Chunks
  <2> QED
    BY <2>1, <2>2, Unmoved
<1>5. CASE CloseNode
  <2>1. AudioInv'
    BY <1>5, CloseKeeps
  <2>2. /\ running' = running /\ outputBuffer' = outputBuffer
        /\ InRing' = InRing /\ Chunks' = Chunks
    <3>1. /\ closing = "asked" /\ closing' = "done"
          /\ toWorklet' = Append(toWorklet, [cmd |-> "stop", data |-> None])
          /\ UNCHANGED <<running, ready, outputBuffer, output, stage, thread, filled>>
      BY <1>5 DEF CloseNode, processVars, threadVars
    <3>2. toWorklet \in Seq(OutMessages) /\ [cmd |-> "stop", data |-> None] \in OutMessages
      BY DEF AudioInv, OutputTypeOK, OutMessages
    <3>3. Len(toWorklet') = Len(toWorklet) + 1 /\ Len(toWorklet) \in Nat
      BY <3>1, <3>2, Appended
    <3>4. Chunks' = Chunks
      BY <3>1, <3>3 DEF Chunks
    <3> QED
      BY <3>1, <3>4 DEF InRing, Unheard
  <2> QED
    BY <2>1, <2>2, Unmoved
<1>6. CASE OnRead
  <2>1. AudioInv' /\ running' = running /\ outputBuffer' = outputBuffer /\ InRing' = InRing
    BY <1>6, ReadKeeps
  <2>2. CASE Chunks' = Chunks
    BY <2>1, <2>2, Unmoved
  <2>3. CASE /\ Chunks' = Chunks + 1 /\ ready /\ ~threads
             /\ closing # "done" /\ reads > 0
    <3>1. /\ Chunks \in Nat /\ OutChunk * Chunks \in Nat /\ InRing \in 0..OutSize /\ running
          /\ Ahead = InRing + OutChunk * Chunks
          /\ Ahead' = InRing + OutChunk * (Chunks + 1)
      BY <2>1, <2>3, AheadIs, AheadIsNext
    <3>2. OutChunk * (Chunks + 1) = OutChunk * Chunks + OutChunk
      BY <3>1, ChunkSamples
    <3>3. InRing + OutChunk * Chunks + OutChunk <= OutSize
      <4>1. reads \in Nat /\ reads >= 1 /\ output.avail \in Nat
        BY <2>3 DEF AudioInv, OutputTypeOK, Rings
      <4>2. OutChunk * (Chunks + reads) = OutChunk + OutChunk * (Chunks + (reads - 1))
            /\ reads - 1 \in Nat
        BY <2>3, <3>1, <4>1, OneChunkLess
      <4>3. OutChunk * (Chunks + (reads - 1)) >= OutChunk * Chunks
            /\ OutChunk * (Chunks + (reads - 1)) \in Nat
        BY <3>1, <4>2, MoreChunks
      <4>4. output.avail + OutChunk * (reads + Chunks) = OutSize
        BY <2>3 DEF AudioInv, ChunksCounted
      <4>5. InRing <= output.avail
        BY <2>3, <4>1, Sizes DEF AudioInv, ThreadLeavesSpace, InRing, Unheard
      <4>6. reads + Chunks = Chunks + reads
        BY <3>1, <4>1
      <4> QED
        BY <3>1, <4>1, <4>2, <4>3, <4>4, <4>5, <4>6, Sizes
    <3>4. Ahead' \in (Ahead + 1)..OutSize
      BY <3>1, <3>2, <3>3, Sizes
    <3> QED
      BY <2>1, <3>4 DEF Stream!Next, Stream!Mix
  <2> QED
    BY <1>6, <2>1, <2>2, <2>3, ReadKeeps
<1>7. CASE OnMessage
  <2>1. toWorklet[1].cmd \in {"start", "chunk", "stop"}
    <3>1. toWorklet \in Seq(OutMessages) /\ toWorklet # <<>> /\ toWorklet' = Tail(toWorklet)
      BY <1>7, MessageFrame
    <3>2. toWorklet[1] \in OutMessages
      BY <3>1, Taken1
    <3> QED
      BY <3>2, MessageTypes
  <2>2. CASE toWorklet[1].cmd = "start"
    <3>1. /\ AudioInv'
          /\ running /\ running' /\ outputBuffer' = outputBuffer
          /\ Chunks = 0 /\ Chunks' = 0
          /\ IF threads THEN InRing' = InRing ELSE InRing = 0 /\ InRing' = OutSize
      BY <1>7, <2>2, StartKeeps
    <3>2. Ahead = InRing /\ Ahead' = InRing'
      <4>1. InRing \in Int /\ InRing' \in Int /\ OutChunk * 0 = 0
        BY <3>1, AheadIs, AheadIsNext, Sizes
      <4>2. Ahead = InRing + OutChunk * 0 /\ Ahead' = InRing' + OutChunk * 0
        BY <3>1, AheadIs, AheadIsNext
      <4> QED
        BY <4>1, <4>2
    <3>3. CASE threads
      BY <3>1, <3>2, <3>3
    <3>4. CASE ~threads
      <4>1. Ahead' \in (Ahead + 1)..OutSize
        BY <3>1, <3>2, <3>4, Sizes
      <4> QED
        BY <3>1, <4>1 DEF Stream!Next, Stream!Mix
    <3> QED
      BY <3>3, <3>4
  <2>3. CASE toWorklet[1].cmd = "stop"
    <3>1. AudioInv' /\ ~running' /\ outputBuffer' = outputBuffer
      BY <1>7, <2>3, StopKeeps
    <3>2. Ahead' = 0
      BY <3>1, AheadIsNext
    <3> QED
      BY <3>1, <3>2 DEF Stream!Next, Stream!Close
  <2>4. CASE toWorklet[1].cmd = "chunk"
    <3>1. /\ AudioInv' /\ ready /\ running' = running /\ outputBuffer' = outputBuffer
          /\ Chunks' = Chunks - 1 /\ InRing' = InRing + OutChunk
      BY <1>7, <2>4, ChunkKeeps
    <3>2. /\ Chunks \in Nat /\ Chunks - 1 \in Nat /\ InRing \in 0..OutSize /\ running
          /\ Ahead = InRing + OutChunk * Chunks
          /\ Ahead' = InRing + OutChunk + OutChunk * (Chunks - 1)
      BY <3>1, AheadIs, AheadIsNext
    <3>3. OutChunk * Chunks = OutChunk + OutChunk * (Chunks - 1) /\ OutChunk * (Chunks - 1) \in Nat
      BY <3>2, OneChunkLess
    <3>4. Ahead' = Ahead
      BY <3>2, <3>3, Sizes
    <3> QED
      BY <3>1, <3>4
  <2> QED
    BY <2>1, <2>2, <2>3, <2>4
<1>8. CASE ProcessOutput
  <2>1. CASE DataLeft(output) >= OutChunk
    <3>1. /\ AudioInv' /\ ready /\ running' = running /\ Chunks' = Chunks
          /\ InRing >= OutChunk /\ InRing' = InRing - OutChunk
          /\ outputBuffer' = Block(Next1, OutChunk)
      BY <1>8, <2>1, PlayKeeps
    <3>2. /\ OutChunk * Chunks \in Nat /\ InRing \in 0..OutSize /\ running
          /\ Ahead = InRing + OutChunk * Chunks
          /\ Ahead' = InRing - OutChunk + OutChunk * Chunks
      BY <3>1, AheadIs, AheadIsNext
    <3>3. Ahead >= OutChunk /\ Ahead' = Ahead - OutChunk
      BY <3>1, <3>2, Sizes
    <3>4. outputBuffer' = Stream!Block(Stream!NextAfter(outputBuffer), OutChunk)
      BY <3>1 DEF Next1, Block, NextAfter, Later, Stream!Block, Stream!NextAfter, Stream!Later
    <3> QED
      BY <3>1, <3>3, <3>4 DEF Stream!Next, Stream!Play
  <2>2. CASE ~(DataLeft(output) >= OutChunk)
    <3>1. StagesMove
      BY <1>8, <2>2 DEF ProcessOutput, ProcessNotify, StagesMove, AudioInv, OutputTypeOK,
                        mainVars, mixVars, portVars, threadVars
    <3> QED
      BY <1>1, <3>1
  <2> QED
    BY <2>1, <2>2
<1>9. CASE ProcessOutputAdd
  BY <1>9, PlayedKeeps, Unmoved
<1>10. CASE ThreadMix
  <2>1. CASE SpaceLeft(OutSize, output) >= OutChannels
    <3>1. /\ AudioInv' /\ threads /\ running' = running /\ Chunks' = Chunks
          /\ InRing' \in (InRing + 1)..OutSize /\ outputBuffer' = outputBuffer
      BY <1>10, <2>1, MixKeeps
    <3>2. Chunks = 0 /\ OutChunk * 0 = 0
      BY <3>1, Sizes DEF AudioInv, ChunksCounted
    <3>3. CASE running
      <4>1. /\ InRing \in 0..OutSize /\ Ahead = InRing + OutChunk * 0
            /\ Ahead' = InRing' + OutChunk * 0
        BY <3>1, <3>2, <3>3, AheadIs, AheadIsNext
      <4>2. Ahead = InRing /\ Ahead' = InRing'
        <5>1. InRing \in Int /\ InRing' \in Int
          BY <3>1, <4>1, AheadIsNext
        <5>2. \A x \in Int : x + 0 = x
          OBVIOUS
        <5> QED
          BY <3>2, <4>1, <5>1, <5>2
      <4>3. Ahead' \in (Ahead + 1)..OutSize
        BY <3>1, <4>2
      <4> QED
        BY <3>1, <4>3 DEF Stream!Next, Stream!Mix
    <3>4. CASE ~running
      <4>1. Ahead = 0 /\ Ahead' = 0
        BY <3>1, <3>4, AheadIs, AheadIsNext
      <4> QED
        BY <3>1, <4>1
    <3> QED
      BY <3>3, <3>4
  <2>2. CASE ~(SpaceLeft(OutSize, output) >= OutChannels)
    <3>1. SpaceLeft(OutSize, output) < OutChannels
      <4>1. output.avail \in Nat /\ OutSize \in Nat /\ OutChannels \in Nat
        BY Sizes, DriverAssumption DEF AudioInv, OutputTypeOK, Rings
      <4> QED
        BY <2>2, <4>1 DEF SpaceLeft, DataLeft
    <3>2. StagesMove
      BY <1>10, <3>1 DEF ThreadMix, StagesMove, AudioInv, OutputTypeOK, MessagesInOrder,
                         ThreadLeavesSpace, mainVars, mixVars, portVars
    <3> QED
      BY <1>1, <3>2
  <2> QED
    BY <2>1, <2>2
<1>11. CASE ThreadPublish
  BY <1>11, PublishKeeps, Unmoved
<1> QED
  BY <1>2, <1>3, <1>4, <1>5, <1>6, <1>7, <1>8, <1>9, <1>10, <1>11
     DEF Next, Process, EngineThread

\* The invariant of the driver holds in every state of it.
THEOREM DriverInvariant == Spec => []AudioInv
<1>1. AudioInv /\ [Next]_vars => AudioInv'
  BY Step
<1> QED
  BY <1>1, InitAudio, PTL DEF Spec

\* The audio driver, with threads and without, implements the stream: what the
\* engine mixes is heard once and in order, with at most a buffer in between.
THEOREM DriverImplementsStream == Spec => ImplementsStream
<1>1. Init => Stream!Init
  <2> SUFFICES ASSUME Init PROVE Stream!Init
    OBVIOUS
  <2>1. AudioInv
    BY InitAudio
  <2>2. /\ outputBuffer = None /\ running /\ ~ready /\ stage = "idle" /\ thread = "wait"
        /\ output.avail = 0
    BY DEF Init, NewRing
  <2>3. InRing = 0 /\ Chunks = 0 /\ OutChunk * 0 = 0
    BY <2>2, Sizes DEF InRing, Unheard, Chunks
  <2>4. Ahead = 0
    BY <2>1, <2>2, <2>3, AheadIs
  <2> QED
    BY <2>2, <2>4 DEF Stream!Init
<1>2. AudioInv /\ [Next]_vars => [Stream!Next]_<<outputBuffer, Ahead>>
  BY Step
<1> QED
  BY <1>1, <1>2, DriverInvariant, PTL DEF Spec, ImplementsStream, Stream!Spec

\* Without threads no sample is lost between the page and the processor, and
\* none is sent twice: ring, reads and chunks make up one buffer.
THEOREM DriverConservesSamples == Spec => []SamplesConserved
<1>1. AudioInv => SamplesConserved
  <2> SUFFICES ASSUME AudioInv, ready, ~threads, closing # "done"
               PROVE  output.avail + OutChunk * (reads + Cardinality(ChunkMessages)) = OutSize
    BY DEF SamplesConserved
  <2>1. Cardinality(ChunkMessages) = Chunks
    BY ChunkCount DEF AudioInv
  <2> QED
    BY <2>1 DEF AudioInv, ChunksCounted
<1> QED
  BY <1>1, DriverInvariant, PTL

\* The processor has space for every chunk that is under way to it.
THEOREM DriverChunksFit == Spec => []ChunksFit
<1>1. AudioInv => ChunksFit
  <2> SUFFICES ASSUME AudioInv, ChunkMessages # {}
               PROVE  ready /\ output.avail + OutChunk * Cardinality(ChunkMessages) <= OutSize
    BY DEF ChunksFit
  <2>1. Chunks \in Nat /\ Cardinality(ChunkMessages) = Chunks /\ Chunks > 0 /\ ready
    BY ChunkCount DEF AudioInv
  <2>2. ~threads
    BY <2>1 DEF AudioInv, ChunksCounted
  <2>3. CASE closing = "done"
    BY <2>1, <2>2, <2>3 DEF AudioInv, ChunksCounted
  <2>4. CASE closing # "done"
    <3>1. reads \in Nat /\ output.avail \in Nat
      BY DEF AudioInv, OutputTypeOK, Rings
    <3>2. OutChunk * (Chunks + reads) >= OutChunk * Chunks
          /\ OutChunk * (Chunks + reads) \in Nat /\ OutChunk * Chunks \in Nat
      BY <2>1, <3>1, MoreChunks
    <3>3. output.avail + OutChunk * (reads + Chunks) = OutSize /\ reads + Chunks = Chunks + reads
      BY <2>1, <2>2, <2>4, <3>1 DEF AudioInv, ChunksCounted
    <3> QED
      BY <2>1, <3>1, <3>2, <3>3, Sizes
  <2> QED
    BY <2>3, <2>4
<1> QED
  BY <1>1, DriverInvariant, PTL

-----------------------------------------------------------------------------
(* The channels of the speaker *)

\* What the speaker was given last begins somewhere and goes on from there.
HeardInOrder == outputBuffer # None => \E k \in Labels : outputBuffer = Block(k, OutChunk)

\* A sample of a block is where write_output looks for it.
LEMMA SampleIndex ==
    ASSUME NEW c \in 0..(OutChannels - 1), NEW s \in 0..(Quantum - 1)
    PROVE  /\ s * OutChannels + c \in 0..(OutChunk - 1)
           /\ 0 * OutChannels + 0 = 0
<1> DEFINE a == s * OutChannels
<1>1. OutChannels \in Nat /\ Quantum \in Nat /\ OutChunk = OutChannels * Quantum
  BY DriverAssumption
<1>2. OutChannels * Quantum = OutChannels * s + OutChannels * (Quantum - s)
  BY <1>1
<1>3. Quantum - s >= 1 /\ Quantum - s \in Nat
  BY <1>1
<1>4. OutChannels * (Quantum - s) >= OutChannels
  BY <1>1, <1>3
<1>5. a \in Nat /\ OutChannels * s = a
  BY <1>1
<1> HIDE DEF a
<1>6. a + c \in 0..(OutChunk - 1)
  BY <1>1, <1>2, <1>4, <1>5
<1> QED
  BY <1>1, <1>6 DEF a

\* The frames of a block that is in order are in order, channel by channel.
LEMMA FramesInOrder ==
    ASSUME NEW k \in Labels, NEW c \in 0..(OutChannels - 1), NEW s \in 0..(Quantum - 1)
    PROVE  WriteOutput(Block(k, OutChunk))[c][s] = Later(k, s * OutChannels + c)
<1>1. WriteOutput(Block(k, OutChunk))[c][s] = Block(k, OutChunk)[s * OutChannels + c]
  BY DEF WriteOutput
<1>2. OutChunk \in 1..OutSize
  BY Sizes
<1>3. Block(k, OutChunk)[s * OutChannels + c] = Later(k, s * OutChannels + c)
  BY <1>2, SampleIndex, BlockType
<1> QED
  BY <1>1, <1>3

\* Whatever was mixed and however it was cut into blocks, the samples the
\* channels play at one time belong to the same frame.
THEOREM DriverChannelsInStep == Spec => []ChannelsInStep
<1>1. Init => HeardInOrder
  BY DEF Init, HeardInOrder
<1>2. ASSUME AudioInv, HeardInOrder, [Next]_vars PROVE HeardInOrder'
  <2>1. [Stream!Next]_<<outputBuffer, Ahead>>
    BY <1>2, Step
  <2>2. CASE outputBuffer' = outputBuffer
    BY <1>2, <2>2 DEF HeardInOrder
  <2>3. CASE Stream!Play
    <3>1. outputBuffer' = Block(NextAfter(outputBuffer), OutChunk)
      BY <2>3 DEF Stream!Play, Block, NextAfter, Later, Stream!Block, Stream!NextAfter, Stream!Later
    <3>2. NextAfter(outputBuffer) \in Labels
      BY <1>2, NextAfterType DEF AudioInv, OutputTypeOK
    <3> QED
      BY <3>1, <3>2 DEF HeardInOrder
  <2> QED
    BY <2>1, <2>2, <2>3 DEF Stream!Next, Stream!Mix, Stream!Close
<1>3. HeardInOrder => ChannelsInStep
  <2> SUFFICES ASSUME outputBuffer # None, HeardInOrder,
                      NEW c \in 0..(OutChannels - 1), NEW s \in 0..(Quantum - 1)
               PROVE  WriteOutput(outputBuffer)[c][s]
                        = Later(WriteOutput(outputBuffer)[0][0], s * OutChannels + c)
    BY DEF ChannelsInStep
  <2>1. PICK k \in Labels : outputBuffer = Block(k, OutChunk)
    BY DEF HeardInOrder
  <2>2. 0 \in 0..(OutChannels - 1) /\ 0 \in 0..(Quantum - 1)
    BY DriverAssumption
  <2>3. WriteOutput(outputBuffer)[0][0] = Later(k, 0 * OutChannels + 0)
    BY <2>1, <2>2, FramesInOrder
  <2>4. Later(k, 0 * OutChannels + 0) = k
    BY <2>2, SampleIndex, LaterZero
  <2> QED
    BY <2>1, <2>3, <2>4, FramesInOrder
<1> QED
  BY <1>1, <1>2, <1>3, DriverInvariant, PTL DEF Spec

-----------------------------------------------------------------------------
(* The microphone *)

LEMMA InputSizes ==
    /\ InSize \in Nat \ {0} /\ Samples \in Nat /\ InSize < Samples
    /\ MaxInChannels \in Nat /\ Quantum \in Nat \ {0}
    /\ MaxInChannels * Quantum \in Nat /\ MaxInChannels * Quantum < Samples
BY SamplesAssumption, DriverAssumption, NumbersAssumption

\* Later, for as many samples as there are numbers.
LEMMA LaterNumber ==
    ASSUME NEW k \in Labels, NEW a \in Nat, NEW b \in Nat, a + b < Samples
    PROVE  /\ Later(k, a) \in Labels
           /\ Later(Later(k, a), b) = Later(k, a + b)
BY Sizes DEF Labels, Later

\* The samples of a block are counted.
LEMMA LengthIs ==
    ASSUME NEW n \in Nat, NEW b, DOMAIN b = 0..(n - 1)
    PROVE  Length(b) = n
<1>1. Cardinality(0..(n - 1)) = IF 0 > n - 1 THEN 0 ELSE (n - 1) - 0 + 1
  BY FS_Interval
<1> QED
  BY <1>1 DEF Length

\* A block of the microphone has at least one sample and at most what the largest has.
LEMMA BlockSize ==
    ASSUME NEW c \in 1..MaxInChannels
    PROVE  c * Quantum \in 1..(MaxInChannels * Quantum)
<1>1. MaxInChannels * Quantum = c * Quantum + (MaxInChannels - c) * Quantum
  BY InputSizes
<1>2. c * Quantum \in Nat /\ (MaxInChannels - c) * Quantum \in Nat
  BY InputSizes
<1>3. c * Quantum = (c - 1) * Quantum + Quantum /\ (c - 1) * Quantum \in Nat
  BY InputSizes
<1> QED
  BY <1>1, <1>2, <1>3, InputSizes

\* write_input puts the frames one after the other: what the engine gets are the
\* samples as they were spoken.
LEMMA HeardBlock ==
    ASSUME spoken \in Labels, NEW c \in 1..MaxInChannels
    PROVE  /\ WriteInput(Heard(c), c) = Block(spoken, c * Quantum)
           /\ WriteInput(Heard(c), c) \in Blocks(c * Quantum)
           /\ WriteInput(Heard(c), c) \in InBlocks
           /\ Length(WriteInput(Heard(c), c)) = c * Quantum
           /\ WriteInput(Heard(c), c)[0] = spoken
<1> DEFINE n == c * Quantum
           b == WriteInput(Heard(c), c)
<1>1. n \in 1..(MaxInChannels * Quantum) /\ n \in Nat /\ n < Samples /\ c \in Nat \ {0}
  BY BlockSize, InputSizes
<1>2. \A i \in 0..(n - 1) : /\ i % c \in 0..(c - 1) /\ i \div c \in 0..(Quantum - 1)
                            /\ (i \div c) * c + (i % c) = i
  <2> TAKE i \in 0..(n - 1)
  <2>1. i % c \in 0..(c - 1) /\ i \div c \in Nat /\ i = c * (i \div c) + (i % c)
    BY <1>1
  <2>2. ASSUME i \div c >= Quantum PROVE FALSE
    <3>1. c * (i \div c) = c * Quantum + c * (i \div c - Quantum)
      BY <2>1, <1>1, InputSizes
    <3>2. c * (i \div c - Quantum) \in Nat
      BY <2>1, <2>2, <1>1, InputSizes
    <3> QED
      BY <2>1, <3>1, <3>2, <1>1
  <2> QED
    BY <2>1, <2>2, <1>1, InputSizes
<1>3. b = [j \in 0..(n - 1) |-> Heard(c)[j % c][j \div c]]
  BY DEF WriteInput
<1>4. \A i \in 0..(n - 1) : b[i] = Later(spoken, i)
  <2> TAKE i \in 0..(n - 1)
  <2>1. b[i] = Heard(c)[i % c][i \div c]
    BY <1>3
  <2>2. Heard(c)[i % c][i \div c] = Later(spoken, (i \div c) * c + (i % c))
    BY <1>2 DEF Heard
  <2> QED
    BY <1>2, <2>1, <2>2
<1>5. b = [j \in 0..(n - 1) |-> b[j]]
  BY <1>3
<1> HIDE DEF b
<1>6. b = Block(spoken, n)
  BY <1>4, <1>5 DEF Block
<1>7. \A i \in 0..(n - 1) : Later(spoken, i) \in Labels
  <2> TAKE i \in 0..(n - 1)
  <2>1. i \in Nat /\ i + 0 < Samples
    BY <1>1, InputSizes
  <2> QED
    BY <2>1, LaterNumber
<1>8. b \in Blocks(n) /\ DOMAIN b = 0..(n - 1) /\ b[0] = spoken
  <2>1. 0 \in 0..(n - 1)
    BY <1>1
  <2> HIDE DEF n
  <2> QED
    BY <1>4, <1>5, <1>7, <2>1, LaterZero DEF Blocks
<1>9. b \in InBlocks
  BY <1>8 DEF InBlocks
<1>10. Length(b) = n
  BY <1>1, <1>8, LengthIs
<1> QED
  BY <1>6, <1>8, <1>9, <1>10 DEF b

\* The first m samples of a ring from index r on count on from number k.
Row(size, buffer, r, m, k) == \A j \in 0..(m - 1) : buffer[Slot(size, r + j)] = Later(k, j)

LEMMA RowAt ==
    ASSUME NEW size, NEW buffer, NEW r, NEW m, NEW k, Row(size, buffer, r, m, k),
           NEW j \in 0..(m - 1)
    PROVE  buffer[Slot(size, r + j)] = Later(k, j)
BY DEF Row

\* Buffer new is buffer old with the n samples of data from index at on, around
\* the end of the buffer.
Written(size, new, old, at, n, data) ==
    \A i \in 0..(size - 1) :
        new[i] = IF Distance(size, at, i) < n THEN data[Distance(size, at, i)] ELSE old[i]

\* The n samples behind the first m make m + n in a row, in a ring of any size.
LEMMA RingGrows ==
    ASSUME NEW size \in Nat \ {0}, size < Samples, NEW k \in Labels,
           NEW r \in 0..(size - 1), NEW m \in Nat, NEW n \in Nat, m + n <= size,
           NEW old, NEW new, NEW data,
           Row(size, old, r, m, k), data = Block(Later(k, m), n),
           Written(size, new, old, Slot(size, r + m), n, data)
    PROVE  Row(size, new, r, m + n, k)
<1> SUFFICES ASSUME NEW j \in 0..(m + n - 1) PROVE new[Slot(size, r + j)] = Later(k, j)
  BY DEF Row
<1> DEFINE i == Slot(size, r + j)
           d == Distance(size, Slot(size, r + m), i)
<1>1. /\ i \in 0..(size - 1)
      /\ j < m => d >= n
      /\ j >= m => d = j - m
  BY SlotDistance
<1>2. new[i] = IF d < n THEN data[d] ELSE old[i]
  BY <1>1 DEF Written
<1>3. CASE j < m
  <2>1. ~(d < n)
    BY <1>1, <1>3 DEF Distance, Slot
  <2>2. old[i] = Later(k, j)
    BY <1>3 DEF Row
  <2> QED
    BY <1>2, <2>1, <2>2
<1>4. CASE j >= m
  <2>1. d = j - m /\ d < n /\ j - m \in 0..(n - 1) /\ m + (j - m) = j /\ j < Samples
    BY <1>1, <1>4, Sizes
  <2>3. data[j - m] = Later(Later(k, m), j - m)
    BY <2>1 DEF Block
  <2>2. Later(Later(k, m), j - m) = Later(k, m + (j - m))
    BY <2>1, LaterNumber, Sizes
  <2> QED
    BY <1>2, <2>1, <2>2, <2>3
<1> QED
  BY <1>3, <1>4

\* At first nothing was spoken.
LEMMA InitInput == Init => InputInv
<1> SUFFICES ASSUME Init PROVE InputInv
  OBVIOUS
<1>1. /\ 0 \in Labels /\ Later(0, 0) = 0
  BY Sizes DEF Labels, Later
<1>2. Silence(InSize) \in Blocks(InSize) /\ Silence(0) \in Blocks(0)
  BY <1>1 DEF Silence, Blocks
<1>3. /\ input = NewRing(Silence(InSize), 0) /\ inputs = <<>> /\ inHeap = Silence(InSize)
      /\ inPos = 0 /\ added = 0 /\ spoken = 0 /\ stage = "idle" /\ thread = "wait"
      /\ captured = [from |-> 0, due |-> 0, data |-> Silence(0)]
  BY DEF Init
<1>4. input \in Rings(InSize) /\ input.avail = 0 /\ input.wpos = 0
  BY <1>2, <1>3, InputSizes DEF NewRing, Rings
<1>5. captured.from = 0 /\ captured.due = 0 /\ captured.data = Silence(0)
  BY <1>3
<1>6. DOMAIN captured.data = 0..(0 - 1) /\ Length(captured.data) = 0
  <2>1. DOMAIN captured.data = 0..(0 - 1)
    BY <1>5 DEF Silence
  <2> QED
    BY <2>1, LengthIs
<1>7. Wanted = 0
  BY <1>1, <1>5, <1>6 DEF Wanted
<1>8. Waiting = 0
  BY <1>3, <1>4 DEF Waiting
<1>9. InputTypeOK
  <2>1. 0 \in 0..(InSize - 1) /\ 0 \in 0..InSize
    BY InputSizes
  <2>2. inputs \in Seq(InBlocks)
    BY <1>3
  <2> QED
    BY <1>1, <1>2, <1>3, <1>4, <1>5, <2>1, <2>2 DEF InputTypeOK
<1>10. InputCounted
  <2>1. input.avail + added <= InSize
    BY <1>3, <1>4, InputSizes
  <2> QED
    BY <1>3, <2>1 DEF InputCounted
<1>11. InputRingInOrder
  <2>1. Slot(InSize, inPos + 0) = 0
    BY <1>3, InputSizes DEF Slot
  <2> QED
    BY <1>1, <1>3, <1>4, <1>7, <1>8, <2>1 DEF InputRingInOrder
<1>12. InputsInOrder
  BY <1>3, <1>7 DEF InputsInOrder
<1>13. CapturedAsSpoken
  BY <1>6 DEF CapturedAsSpoken
<1> QED
  BY <1>9, <1>10, <1>11, <1>12, <1>13 DEF InputInv

\* What a step may change while the samples of the microphone stay where they are.
InputStays ==
    /\ UNCHANGED <<threads, inHeap, inPos, captured, inputs, input, added, spoken>>
    /\ closing = "done" => closing' = "done"
    /\ connected => connected'
    /\ stage' = "inputAdd" <=> stage = "inputAdd"
    /\ thread' = "release" <=> thread = "release"
    /\ thread = "release" => filled' = filled

LEMMA InputStaysKeeps == InputInv /\ InputStays => InputInv'
<1> SUFFICES ASSUME InputInv, InputStays PROVE InputInv'
  OBVIOUS
<1> USE DEF InputInv, InputStays
<1>1. InputTypeOK'
  BY DEF InputTypeOK
<1>2. InputCounted'
  BY DEF InputCounted
<1>3. Wanted' = Wanted /\ Waiting' = Waiting
  BY DEF Wanted, Waiting
<1>4. InputRingInOrder'
  BY <1>3 DEF InputRingInOrder
<1>5. BlocksFit => InputsInOrder'
  BY <1>3 DEF InputsInOrder
<1>6. BlocksFit \/ threads' => CapturedAsSpoken'
  BY DEF CapturedAsSpoken
<1> QED
  BY <1>1, <1>2, <1>4, <1>5, <1>6

\* The steps that do not touch the samples of the microphone.
LEMMA SilentSteps ==
    ASSUME \/ Create \/ ModuleAdded \/ AskStart \/ ConnectAndStart \/ AskClose \/ CloseNode
           \/ OnRead \/ OnMessage \/ ProcessOutput \/ ProcessOutputAdd
           \/ ThreadWake \/ ThreadMix \/ ThreadPublish \/ UNCHANGED vars
    PROVE  InputStays
<1> USE DEF mainVars, captureVars, portVars, processVars, threadVars, InputStays
<1>1. CASE Create \/ ModuleAdded \/ AskStart \/ ConnectAndStart \/ AskClose \/ CloseNode
  BY <1>1 DEF Create, ModuleAdded, AskStart, ConnectAndStart, AskClose, CloseNode
<1>2. CASE OnRead \/ OnMessage
  BY <1>2 DEF OnRead, OnMessage
<1>3. CASE ProcessOutput \/ ProcessOutputAdd
  BY <1>3 DEF ProcessOutput, ProcessOutputAdd, ProcessNotify
<1>4. CASE ThreadWake \/ ThreadMix \/ ThreadPublish
  BY <1>4 DEF ThreadWake, ThreadMix, ThreadPublish
<1>5. CASE UNCHANGED vars
  BY <1>5 DEF vars
<1> QED
  BY <1>1, <1>2, <1>3, <1>4, <1>5

\* What the input ring is, as the steps below need it.
LEMMA InputFacts ==
    ASSUME InputInv
    PROVE  /\ input \in Rings(InSize) /\ input.avail \in 0..InSize
           /\ input.wpos \in 0..(InSize - 1) /\ input.buffer \in Blocks(InSize)
           /\ inPos \in 0..(InSize - 1) /\ added \in 0..InSize /\ spoken \in Labels
           /\ Length(captured.data) \in 0..InSize /\ captured.due \in Labels
           /\ DOMAIN captured.data = 0..(Length(captured.data) - 1)
           /\ Wanted \in Labels
           /\ Waiting \in 0..InSize
<1>1. PICK n \in 0..InSize : captured.data \in Blocks(n)
  BY DEF InputInv, InputTypeOK
<1>2. DOMAIN captured.data = 0..(n - 1) /\ n \in Nat
  BY <1>1, InputSizes DEF Blocks
<1>3. Length(captured.data) = n
  BY <1>2, LengthIs
<1>4. Wanted \in Labels
  <2>1. n + 0 < Samples /\ captured.due \in Labels
    BY InputSizes DEF InputInv, InputTypeOK
  <2> QED
    BY <1>2, <1>3, <2>1, LaterNumber DEF Wanted
<1>5. input.avail \in 0..InSize /\ input.wpos \in 0..(InSize - 1) /\ input.buffer \in Blocks(InSize)
  BY DEF InputInv, InputTypeOK, Rings
<1>6. added \in 0..InSize /\ input.avail + added <= InSize
  BY DEF InputInv, InputTypeOK, InputCounted
<1>7. thread = "release" => filled \in 1..input.avail
  BY DEF InputInv, InputCounted
<1>8. Waiting \in 0..InSize
  <2>1. CASE thread = "release"
    BY <1>5, <1>6, <1>7, <2>1, InputSizes DEF Waiting
  <2>2. CASE thread # "release"
    <3>1. Waiting = input.avail + added - 0
      BY <2>2 DEF Waiting
    <3> QED
      BY <1>5, <1>6, <3>1, InputSizes
  <2> QED
    BY <2>1, <2>2
<1> QED
  BY <1>2, <1>3, <1>4, <1>5, <1>8 DEF InputInv, InputTypeOK

\* A processor with threads writes its block behind what waits in the ring.
LEMMA WriteInputKeeps ==
    ASSUME AudioInv, InputInv, NEW c \in 1..MaxInChannels, ProcessInput(c), threads,
           SpaceLeft(InSize, input) >= c * Quantum
    PROVE  InputInv'
<1> DEFINE n == c * Quantum
           b == WriteInput(Heard(c), c)
<1>1. /\ stage = "idle" /\ stage' = "inputAdd" /\ added' = n /\ spoken' = Later(spoken, n)
      /\ input' = AfterWrite(InSize, input, b, n)
      /\ UNCHANGED <<threads, connected, closing, captured, inHeap, inPos, thread, filled, inputs>>
  BY InputSizes DEF ProcessInput, mainVars, captureVars, threadVars
<1>2. b = Block(spoken, n) /\ b \in [0..(n - 1) -> Labels]
  BY InputFacts, HeardBlock DEF Blocks
<1>3. n \in Nat /\ n >= 1 /\ n < Samples
  BY BlockSize, InputSizes
<1> HIDE DEF b, n
<1>4. added = 0 /\ input.avail + n <= InSize
  BY <1>1, <1>3, InputFacts, InputSizes DEF SpaceLeft, DataLeft, InputInv, InputCounted, n
<1>5. n \in 1..InSize
  BY <1>3, <1>4, InputFacts, InputSizes
<1>6. /\ input' \in Rings(InSize) /\ input'.avail = input.avail
      /\ input'.wpos = Slot(InSize, input.wpos + n)
      /\ Written(InSize, input'.buffer, input.buffer, input.wpos, n, b)
  <2> DEFINE new == AfterWrite(InSize, input, b, n)
  <2>1. InSize \in Nat \ {0} /\ input \in Rings(InSize)
    BY InputFacts, InputSizes
  <2>2. /\ new \in Rings(InSize) /\ new.avail = input.avail
        /\ new.wpos = Slot(InSize, input.wpos + n)
        /\ \A i \in 0..(InSize - 1) :
             new.buffer[i] = IF Distance(InSize, input.wpos, i) < n
                             THEN b[Distance(InSize, input.wpos, i)] ELSE input.buffer[i]
    BY <1>2, <1>5, <2>1, AfterWriteAt
  <2> HIDE DEF new
  <2>3. Written(InSize, new.buffer, input.buffer, input.wpos, n, b)
    BY <2>2 DEF Written
  <2> QED
    BY <1>1, <2>2, <2>3 DEF new
<1>7. Wanted' = Wanted
  BY <1>1 DEF Wanted
<1>8. Waiting' = Waiting + n /\ Waiting + n <= InSize /\ Waiting \in Nat
  <2>3. input.avail \in Nat /\ InSize \in Nat /\ Waiting \in Nat
    BY InputFacts, InputSizes
  <2>1. CASE thread = "release"
    <3>1. filled \in 1..input.avail
      BY <2>1 DEF InputInv, InputCounted
    <3>2. Waiting = input.avail + 0 - filled /\ Waiting' = input.avail + n - filled
      BY <1>1, <1>4, <1>6, <2>1 DEF Waiting
    <3> QED
      BY <1>3, <1>4, <2>3, <3>1, <3>2
  <2>2. CASE thread # "release"
    <3>1. Waiting = input.avail + 0 - 0 /\ Waiting' = input.avail + n - 0
      BY <1>1, <1>4, <1>6, <2>2 DEF Waiting
    <3> QED
      BY <1>3, <1>4, <2>3, <3>1
  <2> QED
    BY <2>1, <2>2
<1>9. /\ Row(InSize, input.buffer, inPos, Waiting, Wanted)
      /\ input.wpos = Slot(InSize, inPos + Waiting)
      /\ spoken = Later(Wanted, Waiting)
  BY <1>1 DEF InputInv, InputRingInOrder, Row
<1>10. InputTypeOK'
  <2>1. Later(spoken, n) \in Labels
    <3>1. n + 0 < Samples
      BY <1>3
    <3> QED
      BY <1>3, <3>1, InputFacts, LaterNumber
  <2> QED
    BY <1>1, <1>5, <1>6, <2>1 DEF InputInv, InputTypeOK
<1>11. InputCounted'
  BY <1>1, <1>4, <1>6 DEF InputInv, InputCounted
<1>12. InputRingInOrder'
  <2>1. Row(InSize, input'.buffer, inPos, Waiting + n, Wanted)
    <3>1. /\ InSize \in Nat \ {0} /\ InSize < Samples /\ Wanted \in Labels
          /\ inPos \in 0..(InSize - 1)
      BY InputFacts, InputSizes
    <3>2. /\ b = Block(Later(Wanted, Waiting), n)
          /\ Written(InSize, input'.buffer, input.buffer, Slot(InSize, inPos + Waiting), n, b)
      BY <1>2, <1>6, <1>9
    <3> QED
      BY <1>3, <1>8, <1>9, <3>1, <3>2, RingGrows
  <2>2. Slot(InSize, input.wpos + n) = Slot(InSize, inPos + Waiting + n)
    <3>1. InSize \in Nat \ {0} /\ inPos \in 0..(InSize - 1)
      BY InputFacts, InputSizes
    <3>2. Slot(InSize, Slot(InSize, inPos + Waiting) + n) = Slot(InSize, inPos + Waiting + n)
      BY <1>3, <1>8, <3>1, SlotAdd
    <3> QED
      BY <1>9, <3>2
  <2>3. inPos + Waiting + n = inPos + (Waiting + n)
    BY <1>3, <1>8, InputFacts
  <2>4. Later(spoken, n) = Later(Wanted, Waiting + n)
    <3>1. Waiting + n < Samples
      BY <1>3, <1>8, InputSizes
    <3> QED
      BY <1>3, <1>8, <1>9, <3>1, InputFacts, LaterNumber
  <2> QED
    <3>1. InputRingInOrder' =
            (threads' =>
               /\ Row(InSize, input'.buffer, inPos', Waiting', Wanted')
               /\ input'.wpos = Slot(InSize, inPos' + Waiting')
               /\ spoken' = Later(Wanted', Waiting'))
      BY DEF InputRingInOrder, Row
    <3>2. inPos' = inPos /\ spoken' = Later(spoken, n)
      BY <1>1
    <3> QED
      BY <1>6, <1>7, <1>8, <2>1, <2>2, <2>3, <2>4, <3>1, <3>2
<1>13. (BlocksFit => InputsInOrder') /\ (BlocksFit \/ threads' => CapturedAsSpoken')
  BY <1>1 DEF InputInv, InputsInOrder, CapturedAsSpoken
<1> QED
  BY <1>10, <1>11, <1>12, <1>13 DEF InputInv

\* The block that was written is counted.
LEMMA InputAddKeeps ==
    ASSUME AudioInv, InputInv, ProcessInputAdd
    PROVE  InputInv'
<1>1. /\ stage = "inputAdd" /\ stage' = "output" /\ added' = 0
      /\ input' = AddAvail(input, added)
      /\ UNCHANGED <<threads, connected, closing, captured, inHeap, inPos, thread, filled,
                     inputs, spoken>>
  BY DEF ProcessInputAdd, mainVars, captureVars, portVars, threadVars
<1>2. input.avail + added \in 0..InSize
  BY InputFacts DEF InputInv, InputCounted
<1>3. /\ input' \in Rings(InSize) /\ input'.buffer = input.buffer /\ input'.wpos = input.wpos
      /\ input'.avail = input.avail + added
  BY <1>1, <1>2, InputFacts, InputSizes, AddAvailAt
<1>4. Wanted' = Wanted
  BY <1>1 DEF Wanted
<1>5. Waiting' = Waiting
  <2>1. CASE thread = "release"
    <3>1. filled \in 1..input.avail
      BY <2>1 DEF InputInv, InputCounted
    <3>2. Waiting = input.avail + added - filled /\ Waiting' = input.avail + added + 0 - filled
      BY <1>1, <1>3, <2>1 DEF Waiting
    <3> QED
      BY <3>1, <3>2, InputFacts
  <2>2. CASE thread # "release"
    <3>1. Waiting = input.avail + added - 0 /\ Waiting' = input.avail + added + 0 - 0
      BY <1>1, <1>3, <2>2 DEF Waiting
    <3> QED
      BY <3>1, InputFacts
  <2> QED
    BY <2>1, <2>2
<1>6. InputTypeOK'
  BY <1>1, <1>3, InputSizes DEF InputInv, InputTypeOK
<1>7. InputCounted'
  <2>1. input'.avail + added' <= InSize
    BY <1>1, <1>2, <1>3
  <2>2. thread' = "release" => filled' \in 1..input'.avail
    BY <1>1, <1>3, InputFacts DEF InputInv, InputCounted
  <2> QED
    BY <1>1, <2>1, <2>2 DEF InputInv, InputCounted
<1>8. InputRingInOrder'
  BY <1>1, <1>3, <1>4, <1>5 DEF InputInv, InputRingInOrder
<1>9. (BlocksFit => InputsInOrder') /\ (BlocksFit \/ threads' => CapturedAsSpoken')
  BY <1>1, <1>4 DEF InputInv, InputsInOrder, CapturedAsSpoken
<1> QED
  BY <1>6, <1>7, <1>8, <1>9 DEF InputInv

\* A block that is posted goes on where the last one ends.
LEMMA PostInputKeeps ==
    ASSUME AudioInv, InputInv, NEW c \in 1..MaxInChannels, ProcessInput(c), ~threads
    PROVE  InputInv'
<1> DEFINE n == c * Quantum
           b == WriteInput(Heard(c), c)
           last == Len(inputs)
<1>1. /\ stage = "idle" /\ stage' = "output" /\ spoken' = Later(spoken, n)
      /\ inputs' = Append(inputs, b) /\ running /\ ready
      /\ UNCHANGED <<threads, connected, closing, captured, inHeap, inPos, thread, filled, input,
                     added>>
  BY DEF ProcessInput, mainVars, captureVars, threadVars
<1>2. b = Block(spoken, n) /\ b \in InBlocks /\ Length(b) = n /\ b[0] = spoken
  BY InputFacts, HeardBlock
<1>3. n \in Nat /\ n < Samples
  BY BlockSize, InputSizes
<1> HIDE DEF b, n
<1>4. /\ inputs \in Seq(InBlocks) /\ inputs' \in Seq(InBlocks) /\ last \in Nat
      /\ Len(inputs') = last + 1 /\ inputs' # <<>>
      /\ DOMAIN inputs' = 1..(last + 1) /\ DOMAIN inputs = 1..last
      /\ \A i \in 1..last : inputs'[i] = inputs[i]
      /\ inputs'[last + 1] = b
  <2>1. inputs \in Seq(InBlocks)
    BY DEF InputInv, InputTypeOK
  <2>2. /\ Append(inputs, b) \in Seq(InBlocks) /\ Append(inputs, b) # <<>>
        /\ Len(Append(inputs, b)) = last + 1
        /\ \A i \in 1..last : Append(inputs, b)[i] = inputs[i]
        /\ Append(inputs, b)[last + 1] = b
    BY <1>2, <2>1, AppendProperties
  <2>3. \A s \in Seq(InBlocks) : Len(s) \in Nat /\ DOMAIN s = 1..Len(s)
    BY LenProperties
  <2> QED
    BY <1>1, <2>1, <2>2, <2>3
<1>5. Wanted' = Wanted /\ Waiting' = Waiting
  BY <1>1 DEF Wanted, Waiting
<1>6. Later(spoken, n) \in Labels
  <2>1. n + 0 < Samples
    BY <1>3
  <2> QED
    BY <1>3, <2>1, InputFacts, LaterNumber
<1>7. InputTypeOK'
  BY <1>1, <1>4, <1>6 DEF InputInv, InputTypeOK
<1>8. InputCounted'
  BY <1>1 DEF InputInv, InputCounted, AudioInv, MessagesInOrder
<1>9. BlocksFit => InputsInOrder'
  <2> SUFFICES ASSUME BlocksFit, closing # "done"
               PROVE  /\ \A i \in DOMAIN inputs' :
                           /\ inputs'[i] = Block(inputs'[i][0], Length(inputs'[i]))
                           /\ inputs'[i][0] = IF i = 1 THEN Wanted
                                ELSE Later(inputs'[i - 1][0], Length(inputs'[i - 1]))
                      /\ spoken' = Later(inputs'[last + 1][0], Length(inputs'[last + 1]))
    BY <1>1, <1>4, <1>5 DEF InputsInOrder
  <2>1. /\ \A i \in DOMAIN inputs :
             /\ inputs[i] = Block(inputs[i][0], Length(inputs[i]))
             /\ inputs[i][0] = IF i = 1 THEN Wanted
                               ELSE Later(inputs[i - 1][0], Length(inputs[i - 1]))
        /\ spoken = IF inputs = <<>> THEN Wanted
                    ELSE Later(inputs[last][0], Length(inputs[last]))
    BY <1>1 DEF InputInv, InputsInOrder
  <2>2. spoken' = Later(inputs'[last + 1][0], Length(inputs'[last + 1]))
    BY <1>1, <1>2, <1>4
  <2>3. ASSUME NEW i \in 1..last
        PROVE  /\ inputs'[i] = Block(inputs'[i][0], Length(inputs'[i]))
               /\ inputs'[i][0] = IF i = 1 THEN Wanted
                                  ELSE Later(inputs'[i - 1][0], Length(inputs'[i - 1]))
    <3>1. inputs'[i] = inputs[i] /\ i \in DOMAIN inputs
      BY <1>4
    <3>2. i # 1 => inputs'[i - 1] = inputs[i - 1]
      <4>1. i # 1 => i - 1 \in 1..last
        BY <1>4
      <4> QED
        BY <1>4, <4>1
    <3> QED
      BY <2>1, <3>1, <3>2
  <2>4. /\ inputs'[last + 1] = Block(inputs'[last + 1][0], Length(inputs'[last + 1]))
        /\ inputs'[last + 1][0] = IF last + 1 = 1 THEN Wanted
                 ELSE Later(inputs'[last + 1 - 1][0], Length(inputs'[last + 1 - 1]))
    <3>1. inputs'[last + 1] = Block(inputs'[last + 1][0], Length(inputs'[last + 1]))
      BY <1>2, <1>4
    <3>2. last = 0 <=> inputs = <<>>
      BY <1>4, EmptySeq
    <3>3. last + 1 = 1 <=> last = 0
      BY <1>4
    <3>4. last # 0 => last + 1 - 1 = last /\ last \in 1..last
      BY <1>4
    <3>5. last # 0 => inputs'[last + 1 - 1] = inputs[last]
      BY <1>4, <3>4
    <3> QED
      BY <1>2, <1>4, <2>1, <3>1, <3>2, <3>3, <3>5
  <2>5. \A i \in 1..(last + 1) : i \in 1..last \/ i = last + 1
    BY <1>4
  <2> QED
    BY <1>4, <2>2, <2>3, <2>4, <2>5
<1>10. InputRingInOrder' /\ (BlocksFit \/ threads' => CapturedAsSpoken')
  BY <1>1 DEF InputInv, InputRingInOrder, CapturedAsSpoken
<1> QED
  BY <1>7, <1>8, <1>9, <1>10 DEF InputInv

\* process goes past the microphone: there is none, or no space.
LEMMA InputSkipped ==
    ASSUME InputInv, NEW c \in 0..MaxInChannels, ProcessInput(c),
           c = 0 \/ (threads /\ ~(SpaceLeft(InSize, input) >= c * Quantum))
    PROVE  InputInv'
<1>1. InputStays
  BY DEF ProcessInput, InputStays, mainVars, captureVars, threadVars
<1> QED
  BY <1>1, InputStaysKeeps

LEMMA ProcessInputKeeps ==
    ASSUME AudioInv, InputInv, NEW c \in 0..MaxInChannels, ProcessInput(c)
    PROVE  InputInv'
<1>1. c = 0 \/ c \in 1..MaxInChannels
  BY InputSizes
<1>2. threads \in BOOLEAN
  BY DEF AudioInv, OutputTypeOK
<1> QED
  BY <1>1, <1>2, InputSkipped, PostInputKeeps, WriteInputKeeps

\* The engine's thread takes what is counted, from inPos on: that is what was
\* spoken next, and the rest of the ring goes on from there.
LEMMA CaptureKeeps ==
    ASSUME AudioInv, InputInv, ThreadCapture, DataLeft(input) # 0
    PROVE  InputInv'
<1> DEFINE n == input.avail
           data == Taken(input.buffer, inPos, n)
<1>1. /\ thread = "capture" /\ thread' = "release" /\ filled' = n /\ n # 0
      /\ captured' = [from |-> inPos, due |-> Wanted, data |-> data]
      /\ inPos' = Slot(InSize, inPos + n)
      /\ UNCHANGED <<threads, connected, closing, inHeap, inputs, input, stage, added, spoken>>
  BY DEF ThreadCapture, Capture, Wanted, DataLeft, mainVars, portVars, processVars
<1>2. threads
  BY <1>1 DEF AudioInv, ThreadLeavesSpace, OutputTypeOK
<1>3. n \in 1..InSize /\ n \in Nat /\ added \in Nat /\ n + added <= InSize
  BY <1>1, InputFacts, InputSizes DEF InputInv, InputCounted
<1>11. InSize \in Nat \ {0} /\ inPos \in 0..(InSize - 1) /\ Wanted \in Labels
  BY InputFacts, InputSizes
<1>4. Waiting = n + added
  BY <1>1, <1>3 DEF Waiting
<1>5. /\ Row(InSize, input.buffer, inPos, n + added, Wanted)
      /\ input.wpos = Slot(InSize, inPos + (n + added))
      /\ spoken = Later(Wanted, n + added)
  BY <1>2, <1>4 DEF InputInv, InputRingInOrder, Row
<1>6. /\ \A j \in 0..(n - 1) : data[j] = Later(Wanted, j) /\ data[j] \in Labels
      /\ DOMAIN data = 0..(n - 1) /\ data = [j \in 0..(n - 1) |-> data[j]]
  <2>1. ASSUME NEW j \in 0..(n - 1) PROVE data[j] = Later(Wanted, j) /\ data[j] \in Labels
    <3>1. j \in 0..(n + added - 1) /\ j \in Nat /\ j + 0 < Samples
      BY <1>3, InputSizes
    <3>2. data[j] = input.buffer[Slot(InSize, inPos + j)]
      BY DEF Taken
    <3>3. Later(Wanted, j) \in Labels
      BY <3>1, InputFacts, LaterNumber
    <3> QED
      <4>1. input.buffer[Slot(InSize, inPos + j)] = Later(Wanted, j)
        BY <1>3, <1>5, <1>11, <3>1, RowAt
      <4> QED
        BY <3>2, <3>3, <4>1
  <2>2. DOMAIN data = 0..(n - 1) /\ data = [j \in 0..(n - 1) |-> data[j]]
    BY DEF Taken
  <2> QED
    BY <2>1, <2>2
<1> HIDE DEF data
<1>7. Length(data) = n /\ data \in Blocks(n)
  BY <1>3, <1>6, LengthIs DEF Blocks
<1>8. captured'.from = inPos /\ captured'.due = Wanted /\ captured'.data = data
  BY <1>1
<1>9. Wanted' = Later(Wanted, n)
  BY <1>7, <1>8 DEF Wanted
<1>10. Waiting' = added
  <2>1. Waiting' = n + added - n
    BY <1>1 DEF Waiting
  <2> QED
    BY <1>3, <2>1
<1>12. InputTypeOK'
  <2>1. Slot(InSize, inPos + n) \in 0..(InSize - 1)
    BY <1>3, <1>11 DEF Slot
  <2>2. n \in 0..InSize
    BY <1>3
  <2> QED
    BY <1>1, <1>7, <1>8, <1>11, <2>1, <2>2 DEF InputInv, InputTypeOK
<1>13. InputCounted'
  <2>1. filled' \in 1..input'.avail
    BY <1>1, <1>3
  <2> QED
    BY <1>1, <2>1 DEF InputInv, InputCounted
<1>14. InputRingInOrder'
  <2>1. ASSUME NEW j \in 0..(added - 1)
        PROVE  input.buffer[Slot(InSize, Slot(InSize, inPos + n) + j)] = Later(Later(Wanted, n), j)
    <3>1. n + j \in 0..(n + added - 1) /\ j \in Nat /\ n + j <= InSize /\ n + j < Samples
      BY <1>3, InputSizes
    <3>2. Slot(InSize, Slot(InSize, inPos + n) + j) = Slot(InSize, inPos + n + j)
      BY <1>3, <1>11, <3>1, SlotAdd
    <3>3. inPos + n + j = inPos + (n + j)
      BY <1>3, <1>11
    <3>4. Later(Later(Wanted, n), j) = Later(Wanted, n + j)
      BY <1>3, <1>11, <3>1, LaterNumber
    <3> QED
      <4>1. input.buffer[Slot(InSize, inPos + (n + j))] = Later(Wanted, n + j)
        BY <1>3, <1>5, <1>11, <3>1, RowAt
      <4> QED
        BY <3>2, <3>3, <3>4, <4>1
  <2>2. Slot(InSize, Slot(InSize, inPos + n) + added) = Slot(InSize, inPos + n + added)
    BY <1>3, <1>11, SlotAdd
  <2>3. inPos + n + added = inPos + (n + added)
    BY <1>3, <1>11
  <2>4. Later(Later(Wanted, n), added) = Later(Wanted, n + added)
    <3>1. n + added < Samples
      BY <1>3, InputSizes
    <3> QED
      BY <1>3, <1>11, <3>1, LaterNumber
  <2> QED
    BY <1>1, <1>5, <1>9, <1>10, <2>1, <2>2, <2>3, <2>4 DEF InputRingInOrder
<1>15. InputsInOrder'
  BY <1>1, <1>2 DEF InputsInOrder
<1>16. CapturedAsSpoken'
  BY <1>6, <1>8 DEF CapturedAsSpoken
<1> QED
  BY <1>12, <1>13, <1>14, <1>15, <1>16 DEF InputInv

\* What the thread has taken is given back to the processor.
LEMMA ReleaseKeeps ==
    ASSUME AudioInv, InputInv, ThreadRelease
    PROVE  InputInv'
<1>1. /\ thread = "release" /\ thread' = "wait" /\ filled' = 0
      /\ input' = AddAvail(input, -filled)
      /\ UNCHANGED <<threads, connected, closing, captured, inHeap, inPos, inputs, stage, added,
                     spoken>>
  BY DEF ThreadRelease, mainVars, captureVars, portVars
<1>2. filled \in 1..input.avail
  BY <1>1 DEF InputInv, InputCounted
<1>3. input.avail + (-filled) \in 0..InSize /\ -filled \in Int
      /\ input.avail + (-filled) = input.avail - filled
  <2>1. input.avail \in 0..InSize /\ InSize \in Nat
    BY InputFacts, InputSizes
  <2> DEFINE a == input.avail
  <2>2. a \in 0..InSize /\ filled \in 1..a
    BY <1>2, <2>1
  <2> HIDE DEF a
  <2>3. a + (-filled) \in 0..InSize /\ -filled \in Int /\ a + (-filled) = a - filled
    BY <2>1, <2>2
  <2> QED
    BY <2>3 DEF a
<1>4. /\ input' \in Rings(InSize) /\ input'.buffer = input.buffer /\ input'.wpos = input.wpos
      /\ input'.avail = input.avail - filled
  BY <1>1, <1>3, InputFacts, InputSizes, AddAvailAt
<1>5. Wanted' = Wanted
  BY <1>1 DEF Wanted
<1>6. Waiting' = Waiting
  <2>1. Waiting = input.avail + added - filled /\ Waiting' = input.avail - filled + added - 0
    BY <1>1, <1>4 DEF Waiting
  <2>2. input.avail \in Int /\ added \in Int /\ filled \in Int
    BY <1>2, InputFacts
  <2> QED
    BY <2>1, <2>2
<1>7. InputTypeOK'
  BY <1>1, <1>4 DEF InputInv, InputTypeOK
<1>8. InputCounted'
  <2>1. input'.avail + added' <= InSize
    BY <1>1, <1>2, <1>4, InputFacts, InputSizes DEF InputInv, InputCounted
  <2> QED
    BY <1>1, <2>1 DEF InputInv, InputCounted
<1>9. InputRingInOrder'
  BY <1>1, <1>4, <1>5, <1>6 DEF InputInv, InputRingInOrder
<1>10. (BlocksFit => InputsInOrder') /\ (BlocksFit \/ threads' => CapturedAsSpoken')
  BY <1>1, <1>5 DEF InputInv, InputsInOrder, CapturedAsSpoken
<1> QED
  BY <1>7, <1>8, <1>9, <1>10 DEF InputInv

\* The first len elements of data are samples.
AreSamples(data, len) == \A j \in 0..(len - 1) : data[j] \in Labels

\* Buffer new is buffer old with len elements of data from index at on.
Overwritten(size, new, old, data, at, len) ==
    \A i \in 0..(size - 1) :
        new[i] = IF at <= i /\ i < at + len THEN data[i - at] ELSE old[i]

\* set puts len samples into a buffer that has space for them.
LEMMA SetAt ==
    ASSUME NEW size \in Nat \ {0}, NEW buffer \in Blocks(size), NEW data,
           NEW at \in Nat, NEW len \in Nat, at + len <= size,
           AreSamples(data, len)
    PROVE  /\ Set(buffer, data, at, len) \in Blocks(size)
           /\ Overwritten(size, Set(buffer, data, at, len), buffer, data, at, len)
<1>1. buffer \in [0..(size - 1) -> Labels]
  BY DEF Blocks
<1>2. \A i \in 0..(size - 1) : /\ i \in at..(at + len - 1) <=> at <= i /\ i < at + len
                               /\ at <= i /\ i < at + len => i - at \in 0..(len - 1)
  OBVIOUS
<1>3. \A i \in 0..(size - 1) : at <= i /\ i < at + len => data[i - at] \in Labels
  BY <1>2 DEF AreSamples
<1> QED
  BY <1>1, <1>2, <1>3 DEF Set, Blocks, Overwritten

\* receive: the block is what the engine takes in, unless it goes over the end of
\* the buffer.
LEMMA ReceivedBlock ==
    ASSUME InputInv, NEW n \in 1..InSize, NEW b \in Blocks(n), Length(b) = n, Receive(b)
    PROVE  /\ inHeap' \in Blocks(InSize) /\ inPos' \in 0..(InSize - 1)
           /\ captured'.from = inPos /\ captured'.due = Wanted
           /\ captured'.data \in Blocks(n) /\ Length(captured'.data) = n
           /\ inPos + n <= InSize =>
                \A j \in 0..(n - 1) : captured'.data[j] = b[j]
<1> DEFINE split == inPos + n >= InSize
           high == IF split THEN InSize - inPos ELSE 0
           rest == n - high
           copied == IF rest > high THEN rest - high ELSE 0
           second == IF split THEN 0 ELSE inPos
           first == Set(inHeap, b, inPos, high)
           tail == Subarray(b, high, copied)
           buffer == Set(first, tail, second, copied)
           data == Taken(buffer, inPos, n)
<1>1. /\ inHeap' = buffer
      /\ captured' = [from |-> inPos, due |-> Wanted, data |-> data]
      /\ inPos' = IF split THEN rest ELSE inPos + n
  BY DEF Receive, Capture, Wanted
<1>2. /\ InSize \in Nat \ {0} /\ inPos \in 0..(InSize - 1) /\ Wanted \in Labels
      /\ inHeap \in Blocks(InSize)
  BY InputFacts, InputSizes DEF InputInv, InputTypeOK
<1>3. /\ high \in Nat /\ high <= n /\ inPos + high <= InSize /\ rest \in Nat
      /\ copied \in Nat /\ high + copied <= n /\ second \in Nat /\ second + copied <= InSize
      /\ inPos' \in 0..(InSize - 1)
  BY <1>1, <1>2
<1>4. \A j \in 0..(n - 1) : b[j] \in Labels
  BY DEF Blocks
<1>5. /\ first \in Blocks(InSize)
      /\ Overwritten(InSize, first, inHeap, b, inPos, high)
  <2>1. AreSamples(b, high)
    BY <1>3, <1>4 DEF AreSamples
  <2>2. inPos \in Nat /\ high \in Nat /\ inPos + high <= InSize
    BY <1>2, <1>3
  <2> HIDE DEF high
  <2> QED
    BY <1>2, <2>1, <2>2, SetAt
<1>6. \A j \in 0..(copied - 1) : tail[j] = b[high + j] /\ tail[j] \in Labels
  <2> TAKE j \in 0..(copied - 1)
  <2>1. high + j \in 0..(n - 1)
    BY <1>3
  <2>2. tail[j] = b[high + j]
    BY DEF Subarray
  <2> QED
    BY <1>4, <2>1, <2>2
<1>7. /\ buffer \in Blocks(InSize)
      /\ Overwritten(InSize, buffer, first, tail, second, copied)
  <2>1. AreSamples(tail, copied)
    BY <1>6 DEF AreSamples
  <2>2. second \in Nat /\ copied \in Nat /\ second + copied <= InSize
    BY <1>3
  <2> HIDE DEF first, tail, second, copied
  <2> QED
    BY <1>2, <1>5, <2>1, <2>2, SetAt
<1>8. \A j \in 0..(n - 1) : /\ Slot(InSize, inPos + j) \in 0..(InSize - 1)
                            /\ data[j] = buffer[Slot(InSize, inPos + j)]
  <2> TAKE j \in 0..(n - 1)
  <2>1. Slot(InSize, inPos + j) \in 0..(InSize - 1)
    BY <1>2 DEF Slot
  <2>2. data[j] = buffer[Slot(InSize, inPos + j)]
    BY DEF Taken
  <2> QED
    BY <2>1, <2>2
<1>9. data \in Blocks(n) /\ DOMAIN data = 0..(n - 1)
  <2>1. data = [j \in 0..(n - 1) |-> data[j]]
    BY DEF Taken
  <2>2. \A j \in 0..(n - 1) : data[j] \in Labels
    BY <1>7, <1>8 DEF Blocks
  <2> HIDE DEF data
  <2> QED
    BY <2>1, <2>2 DEF Blocks
<1>10. ASSUME inPos + n <= InSize, NEW j \in 0..(n - 1) PROVE data[j] = b[j]
  <2>1. /\ Slot(InSize, inPos + j) = inPos + j /\ inPos + j \in 0..(InSize - 1)
        /\ (inPos + j) - inPos = j
    BY <1>2, <1>10 DEF Slot
  <2>2. data[j] = buffer[inPos + j]
    BY <1>8, <2>1
  <2>3. CASE split
    <3>1. high = n /\ copied = 0
      BY <1>2, <1>10, <2>3
    <3>2. /\ ~(second <= inPos + j /\ inPos + j < second + copied)
          /\ inPos <= inPos + j /\ inPos + j < inPos + high
      BY <1>2, <2>3, <3>1
    <3> HIDE DEF buffer, first, tail, second, copied, high, data
    <3>3. buffer[inPos + j] = first[inPos + j]
      BY <1>7, <2>1, <3>2 DEF Overwritten
    <3>4. first[inPos + j] = b[j]
      BY <1>5, <2>1, <3>2 DEF Overwritten
    <3> QED
      BY <2>2, <3>3, <3>4
  <2>4. CASE ~split
    <3>1. high = 0 /\ copied = n /\ second = inPos
      BY <1>2, <2>4
    <3>2. second <= inPos + j /\ inPos + j < second + copied /\ (inPos + j) - second = j
          /\ j \in 0..(copied - 1) /\ high + j = j
      BY <1>2, <3>1
    <3> HIDE DEF buffer, first, tail, second, copied, high, data
    <3>3. buffer[inPos + j] = tail[j]
      BY <1>7, <2>1, <3>2 DEF Overwritten
    <3>4. tail[j] = b[j]
      BY <1>6, <3>2
    <3> QED
      BY <2>2, <3>3, <3>4
  <2> QED
    BY <2>3, <2>4
<1> HIDE DEF data, buffer
<1>11. Length(data) = n
  <2>1. n \in Nat
    BY <1>2
  <2> QED
    BY <1>9, <2>1, LengthIs
<1>12. captured'.from = inPos /\ captured'.due = Wanted /\ captured'.data = data
  BY <1>1
<1> QED
  BY <1>1, <1>3, <1>7, <1>9, <1>10, <1>11, <1>12

\* A block that arrives is taken in, or thrown away when the driver is closed or
\* when it does not fit.
LEMMA InputKeeps ==
    ASSUME AudioInv, InputInv, OnInput
    PROVE  InputInv'
<1> DEFINE b == inputs[1]
           n == Length(b)
           last == Len(inputs)
<1>1. /\ inputs # <<>> /\ inputs' = Tail(inputs)
      /\ UNCHANGED <<threads, connected, closing, input, stage, added, spoken, thread, filled>>
  BY DEF OnInput, mainVars, processVars, threadVars
<1>2. /\ inputs \in Seq(InBlocks) /\ last \in Nat /\ last >= 1
      /\ DOMAIN inputs = 1..last /\ inputs' \in Seq(InBlocks)
      /\ Len(inputs') = last - 1 /\ DOMAIN inputs' = 1..(last - 1)
      /\ \A i \in 1..(last - 1) : inputs'[i] = inputs[i + 1]
      /\ Head(inputs) = b /\ b \in InBlocks
      /\ inputs' = <<>> <=> last = 1
  <2>1. inputs \in Seq(InBlocks)
    BY DEF InputInv, InputTypeOK
  <2>2. /\ Tail(inputs) \in Seq(InBlocks) /\ Len(Tail(inputs)) = Len(inputs) - 1
        /\ \A i \in 1..Len(Tail(inputs)) : Tail(inputs)[i] = inputs[i + 1]
        /\ Head(inputs) \in InBlocks
    BY <1>1, <2>1, HeadTailProperties
  <2>3. \A s \in Seq(InBlocks) : /\ Len(s) \in Nat /\ DOMAIN s = 1..Len(s)
                                 /\ s = <<>> <=> Len(s) = 0
    BY LenProperties, EmptySeq
  <2>4. last \in Nat /\ last >= 1
    BY <1>1, <2>1, <2>3
  <2>5. Head(inputs) = b
    BY <2>1, <2>4
  <2>6. last - 1 = 0 <=> last = 1
    BY <2>4
  <2> QED
    BY <1>1, <2>1, <2>2, <2>3, <2>4, <2>5, <2>6
<1>3. ~threads /\ connected /\ stage # "inputAdd" /\ thread = "wait"
  BY <1>1 DEF InputInv, InputCounted, AudioInv, ThreadLeavesSpace
<1>4. PICK c \in 1..MaxInChannels : b \in Blocks(c * Quantum)
  BY <1>2 DEF InBlocks
<1>5. /\ c * Quantum \in Nat /\ c * Quantum >= 1 /\ n = c * Quantum
      /\ BlocksFit => n <= InSize
  <2>1. c * Quantum \in 1..(MaxInChannels * Quantum) /\ MaxInChannels * Quantum \in Nat
    BY BlockSize, InputSizes
  <2>2. c * Quantum \in Nat /\ InSize \in Nat
    BY <2>1, InputSizes
  <2>3. n = c * Quantum
    BY <1>4, <2>2, LengthIs DEF Blocks
  <2> HIDE DEF n
  <2> QED
    BY <2>1, <2>2, <2>3 DEF BlocksFit
<1>6. InputRingInOrder'
  BY <1>1, <1>3 DEF InputRingInOrder
<1>7. InputCounted'
  BY <1>1, <1>3 DEF InputInv, InputCounted
<1>8. CASE Listening /\ n <= InSize
  <2>1. Receive(b) /\ b \in Blocks(n) /\ n \in 1..InSize
    <3>1. Receive(b)
      BY <1>2, <1>8 DEF OnInput
    <3>2. n \in 1..InSize
      BY <1>5, <1>8, InputSizes
    <3> QED
      BY <1>4, <1>5, <3>1, <3>2
  <2> HIDE DEF b, n
  <2>2. /\ inHeap' \in Blocks(InSize) /\ inPos' \in 0..(InSize - 1)
        /\ captured'.from = inPos /\ captured'.due = Wanted
        /\ captured'.data \in Blocks(n) /\ Length(captured'.data) = n
        /\ inPos + n <= InSize => \A j \in 0..(n - 1) : captured'.data[j] = b[j]
    BY <2>1, ReceivedBlock DEF n
  <2>3. InputTypeOK'
    <3>1. \E m \in 0..InSize : captured'.data \in Blocks(m)
      <4>1. n \in 0..InSize
        BY <2>1, InputSizes
      <4> QED
        BY <2>2, <4>1
    <3>2. inPos \in 0..(InSize - 1) /\ Wanted \in Labels
      BY InputFacts
    <3> QED
      BY <1>1, <1>2, <2>2, <3>1, <3>2 DEF InputInv, InputTypeOK
  <2>4. Wanted' = Later(Wanted, n)
    BY <2>2 DEF Wanted
  <2>5. closing # "done"
    BY <1>8 DEF Listening
  <2>6. ASSUME BlocksFit
        PROVE  /\ \A i \in DOMAIN inputs :
                    /\ inputs[i] = Block(inputs[i][0], Length(inputs[i]))
                    /\ inputs[i][0] = IF i = 1 THEN Wanted
                                      ELSE Later(inputs[i - 1][0], Length(inputs[i - 1]))
               /\ spoken = Later(inputs[last][0], Length(inputs[last]))
    BY <1>1, <1>3, <2>5, <2>6 DEF InputInv, InputsInOrder
  <2>7. BlocksFit => b = Block(Wanted, n) /\ b[0] = Wanted
    <3>1. 1 \in DOMAIN inputs
      BY <1>2
    <3> QED
      BY <2>6, <3>1 DEF b, n
  <2>8. BlocksFit => InputsInOrder'
    <3> SUFFICES ASSUME BlocksFit
                 PROVE  /\ \A i \in 1..(last - 1) :
                             /\ inputs'[i] = Block(inputs'[i][0], Length(inputs'[i]))
                             /\ inputs'[i][0] = IF i = 1 THEN Wanted'
                                  ELSE Later(inputs'[i - 1][0], Length(inputs'[i - 1]))
                        /\ spoken' = IF inputs' = <<>> THEN Wanted'
                             ELSE Later(inputs'[last - 1][0], Length(inputs'[last - 1]))
      BY <1>2 DEF InputsInOrder
    <3>1. ASSUME NEW i \in 1..(last - 1)
          PROVE  /\ inputs'[i] = Block(inputs'[i][0], Length(inputs'[i]))
                 /\ inputs'[i][0] = IF i = 1 THEN Wanted'
                                    ELSE Later(inputs'[i - 1][0], Length(inputs'[i - 1]))
      <4>1. inputs'[i] = inputs[i + 1] /\ i + 1 \in DOMAIN inputs /\ i + 1 # 1 /\ (i + 1) - 1 = i
        BY <1>2
      <4>2. /\ inputs[i + 1] = Block(inputs[i + 1][0], Length(inputs[i + 1]))
            /\ inputs[i + 1][0] = Later(inputs[i][0], Length(inputs[i]))
        BY <2>6, <4>1
      <4>3. CASE i = 1
        BY <2>4, <2>7, <4>1, <4>2, <4>3 DEF b, n
      <4>4. CASE i # 1
        <5>1. i - 1 \in 1..(last - 1) /\ (i - 1) + 1 = i
          BY <1>2, <4>4
        <5>2. inputs'[i - 1] = inputs[i]
          BY <1>2, <5>1
        <5> QED
          BY <4>1, <4>2, <4>4, <5>2
      <4> QED
        BY <4>3, <4>4
    <3>2. CASE last = 1
      <4>1. spoken = Later(b[0], n)
        BY <2>6, <3>2 DEF b, n
      <4> QED
        BY <1>1, <1>2, <2>4, <2>7, <3>1, <3>2, <4>1
    <3>3. CASE last # 1
      <4>1. last - 1 \in 1..(last - 1) /\ (last - 1) + 1 = last
        BY <1>2, <3>3
      <4>2. inputs'[last - 1] = inputs[last]
        BY <1>2, <4>1
      <4> QED
        BY <1>1, <1>2, <2>6, <3>1, <3>3, <4>2
    <3> QED
      BY <3>2, <3>3
  <2>9. BlocksFit => CapturedAsSpoken'
    <3> SUFFICES ASSUME BlocksFit, inPos + n <= InSize,
                        NEW j \in DOMAIN captured'.data
                 PROVE  captured'.data[j] = Later(Wanted, j)
      BY <1>1, <1>3, <2>2 DEF CapturedAsSpoken
    <3>1. j \in 0..(n - 1)
      BY <2>2 DEF Blocks
    <3>2. captured'.data[j] = b[j]
      BY <2>2, <3>1
    <3>3. b[j] = Later(Wanted, j)
      BY <2>7, <3>1 DEF Block
    <3> QED
      BY <3>2, <3>3
  <2> QED
    BY <1>1, <1>3, <1>6, <1>7, <2>3, <2>8, <2>9 DEF InputInv
<1>9. CASE ~(Listening /\ n <= InSize)
  <2>1. UNCHANGED <<inHeap, inPos, captured>>
    BY <1>2, <1>9 DEF OnInput, captureVars
  <2>2. InputTypeOK'
    BY <1>1, <1>2, <2>1 DEF InputInv, InputTypeOK
  <2>3. BlocksFit => InputsInOrder'
    BY <1>1, <1>3, <1>5, <1>9 DEF Listening, InputsInOrder
  <2>4. BlocksFit => CapturedAsSpoken'
    BY <1>1, <2>1 DEF InputInv, CapturedAsSpoken
  <2> QED
    BY <1>1, <1>3, <1>6, <1>7, <2>2, <2>3, <2>4 DEF InputInv
<1> QED
  BY <1>8, <1>9

\* Where the samples of the microphone are is known in every state.
THEOREM DriverInput == Spec => []InputInv
<1>1. ASSUME AudioInv, InputInv, [Next]_vars PROVE InputInv'
  <2>1. CASE \/ Create \/ ModuleAdded \/ AskStart \/ ConnectAndStart \/ AskClose \/ CloseNode
             \/ OnRead \/ OnMessage \/ ProcessOutput \/ ProcessOutputAdd
             \/ ThreadWake \/ ThreadMix \/ ThreadPublish \/ UNCHANGED vars
    BY <1>1, <2>1, SilentSteps, InputStaysKeeps
  <2>2. CASE OnInput
    BY <1>1, <2>2, InputKeeps
  <2>3. ASSUME NEW c \in 0..MaxInChannels, ProcessInput(c) PROVE InputInv'
    BY <1>1, <2>3, ProcessInputKeeps
  <2>4. CASE ProcessInputAdd
    BY <1>1, <2>4, InputAddKeeps
  <2>5. CASE ThreadCapture
    <3>1. CASE DataLeft(input) # 0
      BY <1>1, <2>5, <3>1, CaptureKeeps
    <3>2. CASE DataLeft(input) = 0
      <4>1. InputStays
        BY <2>5, <3>2 DEF ThreadCapture, InputStays, mainVars, portVars, processVars
      <4> QED
        BY <1>1, <4>1, InputStaysKeeps
    <3> QED
      BY <3>1, <3>2
  <2>6. CASE ThreadRelease
    BY <1>1, <2>6, ReleaseKeeps
  <2> QED
    BY <1>1, <2>1, <2>2, <2>3, <2>4, <2>5, <2>6 DEF Next, Process, EngineThread
<1> QED
  BY <1>1, InitInput, DriverInvariant, PTL DEF Spec

\* The engine takes in what the microphone gave, in order and frame by frame, in
\* both builds and however the blocks, the processor's writes and the engine's
\* reads follow each other; without threads for the blocks that do not go over the
\* end of the input buffer, and as long as no block is larger than that buffer.
THEOREM DriverCapturesAsSpoken ==
    ASSUME BlocksFit
    PROVE  Spec => []CapturedAsSpoken
<1>1. InputInv => CapturedAsSpoken
  BY DEF InputInv
<1> QED
  BY <1>1, DriverInput, PTL

\* The types of the variables no other part of the invariant speaks of.
OthersTypeOK ==
    /\ promise \in {"none", "pending", "ready", "failed"}
    /\ asked \in BOOLEAN /\ notified \in BOOLEAN
    /\ heap \in Blocks(OutSize) /\ filled \in Nat

LEMMA OthersKeep ==
    ASSUME AudioInv, InputInv, OthersTypeOK, [Next]_vars
    PROVE  OthersTypeOK'
<1> USE DEF OthersTypeOK, mainVars, mixVars, captureVars, portVars, processVars, threadVars
<1>1. CASE Create \/ ModuleAdded \/ AskStart \/ ConnectAndStart \/ AskClose \/ CloseNode
  BY <1>1 DEF Create, ModuleAdded, AskStart, ConnectAndStart, AskClose, CloseNode
<1>2. CASE OnRead
  <2>1. heap' = heap \/ heap' = Mixed(heap, wpos, OutChunk)
    BY <1>2 DEF OnRead, Consumed
  <2>2. Mixed(heap, wpos, OutChunk) \in Blocks(OutSize)
    <3>1. mixed \in Labels /\ wpos \in 0..(OutSize - 1) /\ OutChunk \in 0..OutSize
      BY Sizes DEF AudioInv, OutputTypeOK
    <3> QED
      BY <3>1, MixedType
  <2> QED
    BY <1>2, <2>1, <2>2 DEF OnRead
<1>3. CASE OnInput \/ OnMessage
  BY <1>3 DEF OnInput, OnMessage
<1>4. ASSUME NEW c \in 0..MaxInChannels, ProcessInput(c) PROVE OthersTypeOK'
  BY <1>4 DEF ProcessInput
<1>5. CASE ProcessInputAdd \/ ProcessOutput \/ ProcessOutputAdd
  BY <1>5 DEF ProcessInputAdd, ProcessOutput, ProcessOutputAdd, ProcessNotify, AudioInv,
              OutputTypeOK
<1>6. CASE ThreadWake \/ ThreadPublish \/ ThreadRelease
  <2>1. filled' \in Nat
    BY <1>6 DEF ThreadWake, ThreadPublish, ThreadRelease
  <2>2. notified' \in BOOLEAN
    BY <1>6, Zenon DEF ThreadWake, ThreadPublish, ThreadRelease
  <2>3. UNCHANGED <<promise, asked, heap>>
    BY <1>6 DEF ThreadWake, ThreadPublish, ThreadRelease
  <2> QED
    BY <2>1, <2>2, <2>3
<1>7. CASE ThreadMix
  <2>1. filled' = filled \/ \E n \in 1..SpaceLeft(OutSize, output) : filled' = n
    BY <1>7 DEF ThreadMix
  <2>2. filled' \in Nat
    <3>1. SpaceLeft(OutSize, output) \in Int
      BY Sizes DEF SpaceLeft, DataLeft, AudioInv, OutputTypeOK, Rings
    <3> QED
      BY <2>1, <3>1
  <2> QED
    BY <1>7, <2>2 DEF ThreadMix
<1>8. CASE ThreadCapture
  <2>1. input.avail \in Nat
    BY InputFacts, InputSizes
  <2> QED
    BY <1>8, <2>1 DEF ThreadCapture, DataLeft
<1>9. CASE UNCHANGED vars
  BY <1>9 DEF vars
<1> QED
  BY <1>1, <1>2, <1>3, <1>4, <1>5, <1>6, <1>7, <1>8, <1>9 DEF Next, Process, EngineThread

\* No position, count or sample of the driver ever leaves its range, for any sizes
\* of the buffers and of the blocks, also when blocks do not fit.
THEOREM DriverTypeOK == Spec => []TypeOK
<1>1. Init => OthersTypeOK
  <2> SUFFICES ASSUME Init PROVE OthersTypeOK
    OBVIOUS
  <2>1. heap = Block(0, OutSize) /\ Block(0, OutSize) \in Blocks(OutSize)
    <3>1. 0 \in Labels /\ OutSize \in 1..OutSize
      BY Sizes DEF Labels
    <3> QED
      BY <3>1, BlockType DEF Init
  <2> QED
    BY <2>1 DEF Init, OthersTypeOK
<1>2. AudioInv /\ InputInv /\ OthersTypeOK /\ [Next]_vars => OthersTypeOK'
  BY OthersKeep
<1>3. AudioInv /\ InputInv /\ OthersTypeOK => TypeOK
  BY DEF AudioInv, OutputTypeOK, InputInv, InputTypeOK, OthersTypeOK, TypeOK
<1> QED
  BY <1>1, <1>2, <1>3, DriverInvariant, DriverInput, PTL DEF Spec
=============================================================================
