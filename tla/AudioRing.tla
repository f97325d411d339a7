----------------------------- MODULE AudioRing -----------------------------
(***************************************************************************)
(* class RingBuffer of index.audio.worklet.js.  A ring is a record of its  *)
(* samples, the two positions and the number of samples available.  Blocks *)
(* of samples are functions on 0..len-1, as typed arrays are.  read and    *)
(* write copy first and change the number afterwards, in two operators:    *)
(* with threads another thread may see the ring in between.                *)
(***************************************************************************)
EXTENDS Integers

\* Index x of a buffer of the given size, x at most one turn too far.
Slot(size, x) == IF x >= size THEN x - size ELSE x

\* The elements of buffer from index from on: subarray(from, from + len).
Subarray(buffer, from, len) == [j \in 0..(len - 1) |-> buffer[from + j]]

\* buffer.set(data, at) for a block of len samples.
Set(buffer, data, at, len) ==
    [i \in DOMAIN buffer |->
       IF i \in at..(at + len - 1) THEN data[i - at] ELSE buffer[i]]

NewRing(buffer, avail) == [buffer |-> buffer, rpos |-> 0, wpos |-> 0, avail |-> avail]

DataLeft(ring) == ring.avail

SpaceLeft(size, ring) == size - DataLeft(ring)

-----------------------------------------------------------------------------
(* read *)

Wraps(size, ring, len) == ring.rpos + len > size

\* What output holds after read(output), output of length len.
ReadBlock(size, ring, len) ==
    LET high == size - ring.rpos IN
    [j \in 0..(len - 1) |->
       IF ~Wraps(size, ring, len) THEN ring.buffer[ring.rpos + j]
       ELSE IF j < high THEN ring.buffer[ring.rpos + j]
       ELSE ring.buffer[j - high]]

\* A mutated form of AfterRead: at the end of the buffer the rest is forgotten.
AfterReadNoWrap(size, ring, len) ==
    [ring EXCEPT !.rpos = IF Wraps(size, ring, len) THEN 0 ELSE @ + len]

\* rpos may be left at size, one past the last index.
AfterRead(size, ring, len) ==
    [ring EXCEPT !.rpos =
       IF Wraps(size, ring, len) THEN len - (size - @) ELSE @ + len]

-----------------------------------------------------------------------------
(* write *)

\* A mutated form of AfterWrite: wpos is not brought back to the start.
AfterWriteNoWrap(size, ring, data, len) ==
    LET mw == size - ring.wpos IN
    [ring EXCEPT
       !.buffer = IF mw >= len THEN Set(@, data, ring.wpos, len)
                  ELSE Set(Set(@, data, ring.wpos, mw),
                           Subarray(data, mw, len - mw), 0, len - mw),
       !.wpos = IF mw >= len THEN @ + len ELSE @]

AfterWrite(size, ring, data, len) ==
    LET mw == size - ring.wpos IN
    [ring EXCEPT
       !.buffer = IF mw >= len THEN Set(@, data, ring.wpos, len)
                  ELSE Set(Set(@, data, ring.wpos, mw),
                           Subarray(data, mw, len - mw), 0, len - mw),
       !.wpos = IF mw > len THEN @ + len ELSE len - mw]

\* Atomics.add(avail, 0, n), or avail += n; n is negative for read.
AddAvail(ring, n) == [ring EXCEPT !.avail = @ + n]
=============================================================================
