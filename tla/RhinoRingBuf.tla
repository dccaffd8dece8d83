---------------------------- MODULE RhinoRingBuf -----------------------------
(***************************************************************************)
(* The ring buffer under the message queues (k_ringbuf.c), byte by byte.   *)
(* A buffer of type RINGBUF_TYPE_FIX holds messages of blk_size bytes; one *)
(* of type RINGBUF_TYPE_DYN puts one to three bytes with the length before *)
(* each message, and may break both at the end of the memory.              *)
(*                                                                         *)
(* A byte has Base values, 256 in the code; the length is coded as there,  *)
(* with the tag in the two highest bits of its first byte.  head and tail  *)
(* are offsets from buf, and end is the size.                              *)
(***************************************************************************)
EXTENDS Integers, Sequences

CONSTANTS
    Base,         \* the values of a byte
    Buffers,      \* the sizes and types of buffers: records of type, end, blk_size
    Messages      \* the messages that are pushed: sequences of bytes

Byte == 0 .. Base - 1

ASSUME RingBufAssumption ==
    /\ Base \in Nat /\ Base >= 4 /\ Base % 4 = 0
    /\ Messages \subseteq Seq(Byte) \ {<<>>}
    /\ \A b \in Buffers : b.end > 0 /\ (b.type = "FIX" => b.end % b.blk_size = 0)

VARIABLES
    ring,     \* type, blk_size, end, buf, head, tail and freesize of k_ringbuf_t
    last,     \* what the last call returned, and the message it gave
    content   \* history: the messages pushed, and neither popped nor reset away

ringVars == <<ring, last, content>>

-----------------------------------------------------------------------------
(* The length of a message *)

LEN_1BYTE_MAX  == Base \div 2 - 1
LEN_2BYTES_MAX == (Base \div 4) * Base - 1
LEN_3BYTES_MAX == (Base \div 4) * Base * Base - 1
VLE_2BYTES     == Base \div 2
VLE_3BYTES     == Base \div 2 + Base \div 4

CompressLen(n) == IF n <= LEN_1BYTE_MAX THEN 1 ELSE IF n <= LEN_2BYTES_MAX THEN 2 ELSE 3

\* ringbuf_headlen_compress: the length, highest byte first.
headlen_compress(n) ==
    CASE CompressLen(n) = 1 -> <<n>>
      [] CompressLen(n) = 2 -> <<VLE_2BYTES + n \div Base, n % Base>>
      [] CompressLen(n) = 3 ->
            <<VLE_3BYTES + n \div (Base * Base), (n \div Base) % Base, n % Base>>

\* The bytes a length takes, from the first of them.
headlen_bytes(first) ==
    IF first < VLE_2BYTES THEN 1 ELSE IF first < VLE_3BYTES THEN 2 ELSE 3

\* ringbuf_headlen_decompress, which clears the two bits of the tag.
headlen_decompress(bytes) ==
    LET first == IF Len(bytes) > 1 THEN bytes[1] % (Base \div 4) ELSE bytes[1]
        value[i \in DOMAIN bytes] == IF i = 1 THEN first ELSE value[i - 1] * Base + bytes[i]
    IN value[Len(bytes)]

-----------------------------------------------------------------------------
(* Copies *)

\* memcpy to offset i, and from it.
Written(buf, i, bytes) ==
    [j \in DOMAIN buf |-> IF j \in i .. i + Len(bytes) - 1 THEN bytes[j - i + 1] ELSE buf[j]]
Read(buf, i, n) == [j \in 1 .. n |-> buf[i + j - 1]]

Wrapped(r, offset) == IF offset = r.end THEN 0 ELSE offset

\* Mutant: the second piece begins with the bytes of the first.
ring_put_again(r, bytes) ==
    LET tail  == Wrapped(r, r.tail)
        first == IF tail >= r.head /\ r.end - tail < Len(bytes) THEN r.end - tail ELSE 0
        piece == Written(r.buf, tail, SubSeq(bytes, 1, first))
        next  == IF first = 0 THEN tail ELSE 0
    IN
    [r EXCEPT !.buf = Written(piece, next, SubSeq(bytes, 1, Len(bytes) - first)),
              !.tail = next + Len(bytes) - first,
              !.freesize = @ - Len(bytes)]

\* Bytes are added at the tail, in two pieces when the free space is.
ring_put(r, bytes) ==
    LET tail  == Wrapped(r, r.tail)
        first == IF tail >= r.head /\ r.end - tail < Len(bytes) THEN r.end - tail ELSE 0
        piece == Written(r.buf, tail, SubSeq(bytes, 1, first))
        next  == IF first = 0 THEN tail ELSE 0
    IN
    [r EXCEPT !.buf = Written(piece, next, SubSeq(bytes, first + 1, Len(bytes))),
              !.tail = next + Len(bytes) - first,
              !.freesize = @ - Len(bytes)]

\* n bytes are taken at the head; broken says whether they are in two pieces.
ring_take(r, n, broken) ==
    LET head  == Wrapped(r, r.head)
        first == IF broken THEN r.end - head ELSE 0
        next  == IF broken THEN 0 ELSE head
    IN
    [bytes |-> Read(r.buf, head, first) \o Read(r.buf, next, n - first),
     ring  |-> [r EXCEPT !.head = next + n - first, !.freesize = @ + n]]

-----------------------------------------------------------------------------
(* The calls *)

ringbuf_is_full(r) ==
    \/ r.type = "DYN" /\ r.freesize < 2
    \/ r.type = "FIX" /\ r.freesize < r.blk_size

ringbuf_is_empty(r) == r.freesize = r.end

Reset(r) == [r EXCEPT !.head = 0, !.tail = 0, !.freesize = r.end]

\* The code and the message are put one after the other.
Pushed(r, m) ==
    IF r.type = "FIX" THEN ring_put(r, m) ELSE ring_put(ring_put(r, headlen_compress(Len(m))), m)

\* krhino_ringbuf_push refuses a message whose length is not that of a block.
Accepts(r, m) == IF r.type = "FIX" THEN Len(m) = r.blk_size ELSE Len(m) <= LEN_3BYTES_MAX

Refused(r, m) ==
    \/ ringbuf_is_full(r)
    \/ r.type = "DYN" /\ r.freesize < CompressLen(Len(m)) + Len(m)

ringbuf_push(m) ==
    /\ Accepts(ring, m)
    /\ IF Refused(ring, m)
       THEN UNCHANGED <<ring, content>> /\ last' = <<"full", <<>>>>
       ELSE ring' = Pushed(ring, m) /\ last' = <<"ok", <<>>>> /\ content' = Append(content, m)

\* The length, then the message: it is broken only when its end is before its beginning.
Popped(r) ==
    LET n    == headlen_bytes(r.buf[Wrapped(r, r.head)])
        code == ring_take(r, n, r.end - Wrapped(r, r.head) < n)
        len  == headlen_decompress(code.bytes)
        head == Wrapped(r, code.ring.head)
    IN
    IF r.type = "FIX" THEN ring_take(r, r.blk_size, FALSE)
    ELSE ring_take(code.ring, len, head > r.tail /\ r.end - head < len)

ringbuf_pop ==
    IF ringbuf_is_empty(ring)
    THEN UNCHANGED <<ring, content>> /\ last' = <<"empty", <<>>>>
    ELSE LET pop == Popped(ring) IN
         /\ ring' = pop.ring /\ last' = <<"ok", pop.bytes>>
         /\ content' = IF content = <<>> THEN <<>> ELSE Tail(content)

ringbuf_reset == ring' = Reset(ring) /\ last' = <<"ok", <<>>>> /\ content' = <<>>

\* ringbuf_init; the memory holds anything.
RingInit ==
    /\ \E b \in Buffers :
          ring = Reset([type |-> b.type, blk_size |-> b.blk_size, end |-> b.end,
                        buf |-> [i \in 0 .. b.end - 1 |-> 0],
                        head |-> 0, tail |-> 0, freesize |-> 0])
    /\ last = <<"ok", <<>>>> /\ content = <<>>

RingNext == (\E m \in Messages : ringbuf_push(m)) \/ ringbuf_pop \/ ringbuf_reset

RingSpec == RingInit /\ [][RingNext]_ringVars

-----------------------------------------------------------------------------
(* The promise *)

Size(b) == b.end
Cost(b, m) == IF b.type = "FIX" THEN b.blk_size ELSE CompressLen(Len(m)) + Len(m)

Fifo == INSTANCE ByteFifo WITH
            Room <- Size,
            buffer <- [type |-> ring.type, blk_size |-> ring.blk_size, end |-> ring.end]

\* Messages come out whole and in order, wherever the end of the memory breaks them or
\* their length, and every free byte can be used.
ImplementsByteFifo == Fifo!Spec
=============================================================================
