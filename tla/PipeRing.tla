------------------------------ MODULE PipeRing ------------------------------
(***************************************************************************)
(* The byte ring of a pipe (pipe_t in kernel/include/lebirun/pipe.h) and   *)
(* what sys_read and sys_write do to it.  A ring is a record of the fields *)
(* of the pipe; its buffer is a function on 0 .. buf_size - 1.  A cell     *)
(* that holds no byte of the pipe is NoByte.                               *)
(***************************************************************************)
EXTENDS Integers, Sequences

CONSTANTS Byte, NoByte

ASSUME NoByteAssumption == NoByte \notin Byte

IsRing(r) ==
    /\ r = [buffer |-> r.buffer, buf_size |-> r.buf_size, read_pos |-> r.read_pos,
            write_pos |-> r.write_pos, count |-> r.count]
    /\ r.buf_size \in Nat
    /\ r.buffer \in [0 .. r.buf_size - 1 -> Byte \cup {NoByte}]
    /\ r.read_pos \in Nat
    /\ r.write_pos \in Nat
    /\ r.count \in Nat

(* kmalloc of n bytes. *)
Fresh(n) == [i \in 0 .. n - 1 |-> NoByte]

EmptyRing ==
    [buffer |-> Fresh(0), buf_size |-> 0, read_pos |-> 0, write_pos |-> 0, count |-> 0]

(* memcpy of the bytes s to the cells from d on, and of n cells from d on. *)
Store(buffer, d, s) ==
    [i \in DOMAIN buffer |-> IF i - d \in 0 .. Len(s) - 1 THEN s[i - d + 1] ELSE buffer[i]]
Load(buffer, d, n) == [i \in 1 .. n |-> buffer[d + i - 1]]

Lesser(a, b) == IF a < b THEN a ELSE b

(* The second piece is not taken from the start of the buffer. *)
FirstBytes_NoWrap(r, n) ==
    LET first == Lesser(r.buf_size - r.read_pos, n)
    IN  Load(r.buffer, r.read_pos, first) \o Load(r.buffer, r.read_pos, n - first)

(* The first n bytes of the ring, in the two pieces that the code copies. *)
FirstBytes(r, n) ==
    LET first == Lesser(r.buf_size - r.read_pos, n)
    IN  Load(r.buffer, r.read_pos, first) \o Load(r.buffer, 0, n - first)

(* pipe_resize_buffer.  Capacity is what it asks kmalloc for.              *)
Capacity(r, required) ==
    IF required > r.buf_size /\ required < 2 * r.buf_size THEN 2 * r.buf_size ELSE required

Resized(r, capacity) ==
    [buffer    |-> Store(Fresh(capacity), 0, FirstBytes(r, r.count)),
     buf_size  |-> capacity,
     read_pos  |-> 0,
     write_pos |-> IF r.count = capacity THEN 0 ELSE r.count,
     count     |-> r.count]

(* sys_write puts the bytes s, for which there is space, behind the others. *)
Written(r, s) ==
    LET first == Lesser(r.buf_size - r.write_pos, Len(s))
    IN  [buffer    |-> Store(Store(r.buffer, r.write_pos, SubSeq(s, 1, first)),
                             0, SubSeq(s, first + 1, Len(s))),
         buf_size  |-> r.buf_size,
         read_pos  |-> r.read_pos,
         write_pos |-> IF first = r.buf_size - r.write_pos THEN Len(s) - first ELSE r.write_pos + Len(s),
         count     |-> r.count + Len(s)]

(* sys_read takes the first n bytes; their cells hold nothing any more. *)
Consumed(r, n) ==
    LET first == Lesser(r.buf_size - r.read_pos, n)
    IN  [buffer    |-> [i \in DOMAIN r.buffer |->
                           IF \/ i \in r.read_pos .. r.read_pos + first - 1
                              \/ i \in 0 .. n - first - 1
                           THEN NoByte ELSE r.buffer[i]],
         buf_size  |-> r.buf_size,
         read_pos  |-> IF first = r.buf_size - r.read_pos THEN n - first ELSE r.read_pos + n,
         write_pos |-> r.write_pos,
         count     |-> r.count - n]

(* pipe_shrink_after_read: what becomes of the ring when an allocation of  *)
(* n bytes gives a buffer for n in Allocs, and may fail.                   *)
Shrunk(r, Allocs) ==
    CASE r.count = 0 -> {EmptyRing}
      [] r.count > 0 /\ r.count <= r.buf_size \div 4 /\ 2 * r.count < r.buf_size ->
            {r} \cup {Resized(r, c) : c \in {2 * r.count} \cap Allocs}
      [] OTHER -> {r}

(* All bytes of the ring, in order. *)
Contents(r) == [i \in 1 .. r.count |->
                   IF r.read_pos + i - 1 < r.buf_size THEN r.buffer[r.read_pos + i - 1]
                                                      ELSE r.buffer[r.read_pos + i - 1 - r.buf_size]]

(* The positions agree with the count, across wrap, growth and shrinking:  *)
(* the write position is count cells behind the read position, and both    *)
(* are cells of the buffer.                                                *)
PositionsExact(r) ==
    /\ r.buf_size = 0 => r.read_pos = 0 /\ r.write_pos = 0 /\ r.count = 0
    /\ r.buf_size > 0 =>
          /\ r.read_pos < r.buf_size
          /\ r.count <= r.buf_size
          /\ r.write_pos = IF r.read_pos + r.count < r.buf_size
                             THEN r.read_pos + r.count
                             ELSE r.read_pos + r.count - r.buf_size
=============================================================================
