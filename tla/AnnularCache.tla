---------------------------- MODULE AnnularCache ----------------------------
(***************************************************************************)
(* The ring of bytes of efficient/annularcache.cpp.  _w and _r count bytes *)
(* for ever, in unsigned arithmetic; an index is the counter modulo the    *)
(* size, which is a power of two, so that the wrap of the counters does no *)
(* harm.                                                                   *)
(* One thread uses the ring: there is no lock and no atomic in it.         *)
(***************************************************************************)
EXTENDS Math, Sequences

CONSTANTS Requests,   \* arguments of the constructor, each below 2^(Bits - 2): a larger one
                      \* makes GetRoundupPowerOfTwo shift by the width or more
          Bytes,      \* the values of a byte
          MaxLength   \* bound: bytes per call

VARIABLES size, cache,
          w, r,       \* bytes written and read
          moved       \* the last call, the bytes it asked for and those it took in or gave out

ring == <<size, cache, w, r, moved>>

Least(a, b) == IF a < b THEN a ELSE b
Blocks == UNION {[1..n -> Bytes] : n \in 0..MaxLength}

\* new uint8_t[_size] leaves the bytes as they are.
RingInit ==
  /\ size \in {GetRoundupPowerOfTwo(n) : n \in Requests}
  /\ cache \in [0..size - 1 -> Bytes]
  /\ w = 0 /\ r = 0
  /\ moved = [call |-> "none", asked |-> 0, bytes |-> <<>>]

Used == (w - r) % Word

\* At most room bytes, in two copies: up to the end of the ring, and the rest at its
\* beginning.
Copied(data, room) ==
  LET len == Least(Len(data), room)
      at == w % size
      l == Least(len, size - at)
  IN  /\ cache' = [k \in 0..size - 1 |->
                     IF k < len - l THEN data[l + k + 1]
                     ELSE IF k \in at..at + l - 1 THEN data[k - at + 1]
                     ELSE cache[k]]
      /\ w' = (w + len) % Word
      /\ moved' = [call |-> "push", asked |-> Len(data), bytes |-> SubSeq(data, 1, len)]
      /\ UNCHANGED <<size, r>>

\* Mutant: the room that is left is not asked for.
PushOver(data) == Copied(data, size)

Push(data) == Copied(data, size - Used)

Pop(n) ==
  LET len == Least(n, Used)
      at == r % size
      l == Least(len, size - at)
      data == [k \in 1..len |-> IF k <= l THEN cache[at + k - 1] ELSE cache[k - l - 1]]
  IN  /\ moved' = [call |-> "pop", asked |-> n, bytes |-> data]
      /\ r' = (r + len) % Word
      /\ UNCHANGED <<size, cache, w>>

RingNext ==
  \/ \E data \in Blocks : Push(data)
  \/ \E n \in 0..MaxLength : Pop(n)

RingSpec == RingInit /\ [][RingNext]_ring

-----------------------------------------------------------------------------
\* Properties.

\* The bytes between the two counters, the oldest first.
Content == [k \in 1..Used |-> cache[(r + k - 1) % size]]

Buffer == INSTANCE ByteBuffer WITH capacity <- size, content <- Content

\* RefinesBuffer: the ring is a bounded first-in first-out buffer, across the
\* end of the array and across the wrap of the counters.
RefinesBuffer == Buffer!Spec
=============================================================================
