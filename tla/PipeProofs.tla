----------------------------- MODULE PipeProofs -----------------------------
(***************************************************************************)
(* Pipe for every number of tasks and for writes and buffers of every      *)
(* size.                                                                   *)
(***************************************************************************)
EXTENDS Pipe, SequenceTheorems, FiniteSetTheorems, TLAPS

(* Most steps are first-order reasoning, which Zenon does; the steps that  *)
(* do arithmetic or compare functions name SMT.                            *)
USE Zenon

-----------------------------------------------------------------------------
(* What the operations of PipeRing do to the bytes of a ring, for buffers  *)
(* of every size.                                                          *)
(* The cell of the byte that is k places behind the first one. *)
Cell(r, k) == IF r.read_pos + k < r.buf_size THEN r.read_pos + k
                                             ELSE r.read_pos + k - r.buf_size

(* A ring whose positions are exact and whose bytes have all been written. *)
Valid(r) ==
    /\ IsRing(r)
    /\ PositionsExact(r)
    /\ \A k \in 0 .. r.count - 1 : r.buffer[Cell(r, k)] \in Byte

(* A function on 1 .. n is a sequence of length n. *)
LEMMA FunctionIsSeq ==
    ASSUME NEW S, NEW n \in Nat, NEW f \in [1 .. n -> S]
    PROVE  f \in Seq(S) /\ Len(f) = n
  <1>1. f \in Seq(S)
    BY SeqDef
  <1>2. Len(f) \in Nat /\ DOMAIN f = 1 .. Len(f)
    BY <1>1, LenProperties
  <1>3. DOMAIN f = 1 .. n
    OBVIOUS
  <1> QED
    BY <1>1, <1>2, <1>3, SMT

LEMMA CellInBuffer ==
    ASSUME NEW r, Valid(r), NEW k \in 0 .. r.count - 1
    PROVE  Cell(r, k) \in 0 .. r.buf_size - 1
  BY SMT DEF Valid, IsRing, PositionsExact, Cell

(* The contents of a ring are the bytes of its cells, in order. *)
LEMMA ContentsProperties ==
    ASSUME NEW r, Valid(r)
    PROVE  /\ Contents(r) \in Seq(Byte)
           /\ Len(Contents(r)) = r.count
           /\ \A i \in 1 .. r.count : Contents(r)[i] = r.buffer[Cell(r, i - 1)]
  <1>1. r.count \in Nat /\ r.read_pos \in Nat /\ r.buf_size \in Nat
    BY DEF Valid, IsRing
  <1>2. \A i \in 1 .. r.count : i - 1 \in 0 .. r.count - 1 /\ r.read_pos + i - 1 = r.read_pos + (i - 1)
    BY <1>1, SMT
  <1>3. Contents(r) = [i \in 1 .. r.count |-> r.buffer[Cell(r, i - 1)]]
    BY <1>1, <1>2 DEF Contents, Cell
  <1>4. \A i \in 1 .. r.count : r.buffer[Cell(r, i - 1)] \in Byte
    BY <1>2 DEF Valid
  <1>5. Contents(r) \in [1 .. r.count -> Byte]
    BY <1>3, <1>4
  <1>6. Contents(r) \in Seq(Byte) /\ Len(Contents(r)) = r.count
    BY <1>1, <1>5, FunctionIsSeq
  <1> QED
    BY <1>3, <1>6

(* What a read copies, in one piece or two, is the beginning of the contents. *)
LEMMA FirstBytesProperties ==
    ASSUME NEW r, Valid(r), NEW n \in 0 .. r.count
    PROVE  /\ FirstBytes(r, n) \in Seq(Byte)
           /\ Len(FirstBytes(r, n)) = n
           /\ \A i \in 1 .. n : FirstBytes(r, n)[i] = r.buffer[Cell(r, i - 1)]
  <1> DEFINE first == Lesser(r.buf_size - r.read_pos, n)
             A == Load(r.buffer, r.read_pos, first)
             B == Load(r.buffer, 0, n - first)
  <1>1. /\ r.count \in Nat /\ r.read_pos \in Nat /\ r.buf_size \in Nat
        /\ r.read_pos <= r.buf_size /\ r.count <= r.buf_size
    BY SMT DEF Valid, IsRing, PositionsExact
  <1>2. first \in 0 .. n /\ (first = n \/ first = r.buf_size - r.read_pos)
    BY <1>1, SMT DEF Lesser
  <1>2a. first <= r.buf_size - r.read_pos
    BY <1>1, SMT DEF Lesser
  <1> HIDE DEF first
  <1>3. A = [i \in 1 .. first |-> r.buffer[r.read_pos + i - 1]]
    BY DEF Load
  <1>4. B = [i \in 1 .. n - first |-> r.buffer[0 + i - 1]]
    BY DEF Load
  <1>5. \A i \in 1 .. first : Cell(r, i - 1) = r.read_pos + i - 1 /\ i - 1 \in 0 .. r.count - 1
    BY <1>1, <1>2, <1>2a, SMT DEF Cell
  <1>6. \A i \in 1 .. n - first : Cell(r, first + i - 1) = 0 + i - 1 /\ first + i - 1 \in 0 .. r.count - 1
    BY <1>1, <1>2, SMT DEF Cell
  <1>7. A \in [1 .. first -> Byte] /\ \A i \in 1 .. first : A[i] = r.buffer[Cell(r, i - 1)]
    BY <1>3, <1>5 DEF Valid
  <1>8. B \in [1 .. n - first -> Byte]
        /\ \A i \in 1 .. n - first : B[i] = r.buffer[Cell(r, first + i - 1)]
    BY <1>4, <1>6 DEF Valid
  <1>9. A \in Seq(Byte) /\ Len(A) = first
    BY <1>2, <1>7, FunctionIsSeq, SMT
  <1>10. B \in Seq(Byte) /\ Len(B) = n - first
    BY <1>2, <1>8, FunctionIsSeq, SMT
  <1> HIDE DEF A, B
  <1>11. A \o B \in Seq(Byte) /\ Len(A \o B) = n
         /\ \A i \in 1 .. n : (A \o B)[i] = IF i <= first THEN A[i] ELSE B[i - first]
    BY <1>1, <1>2, <1>9, <1>10, ConcatProperties, SMT
  <1>12. FirstBytes(r, n) = A \o B
    BY DEF FirstBytes, A, B, first
  <1>13. ASSUME NEW i \in 1 .. n PROVE (A \o B)[i] = r.buffer[Cell(r, i - 1)]
    <2>1. CASE i <= first
      BY <2>1, <1>2, <1>7, <1>11, SMT
    <2>2. CASE ~(i <= first)
      <3>1. i - first \in 1 .. n - first /\ first + (i - first) - 1 = i - 1
        BY <2>2, <1>2, SMT
      <3> QED
        BY <2>2, <3>1, <1>8, <1>11
    <2> QED
      BY <2>1, <2>2
  <1> QED
    BY <1>11, <1>12, <1>13

(* What a cell of a buffer can hold. *)
Cells == Byte \cup {NoByte}

(* memcpy into a buffer: the cells from d on get the bytes of s. *)
LEMMA StoreProperties ==
    ASSUME NEW m \in Nat, NEW f \in [0 .. m - 1 -> Cells], NEW s \in Seq(Cells), NEW d \in Nat
    PROVE  /\ Store(f, d, s) \in [0 .. m - 1 -> Cells]
           /\ \A i \in 0 .. m - 1 : d <= i /\ i < d + Len(s) => Store(f, d, s)[i] = s[i - d + 1]
           /\ \A i \in 0 .. m - 1 : i < d \/ d + Len(s) <= i => Store(f, d, s)[i] = f[i]
  <1>1. Len(s) \in Nat /\ \A j \in 1 .. Len(s) : s[j] \in Cells
    BY LenProperties, ElementOfSeq
  <1>2. \A i \in 0 .. m - 1 : i - d \in 0 .. Len(s) - 1 <=> d <= i /\ i < d + Len(s)
    BY <1>1, SMT
  <1>3. \A i \in 0 .. m - 1 : d <= i /\ i < d + Len(s) => i - d + 1 \in 1 .. Len(s)
    BY <1>1, SMT
  <1>4. Store(f, d, s) = [i \in 0 .. m - 1 |-> IF d <= i /\ i < d + Len(s) THEN s[i - d + 1] ELSE f[i]]
    BY <1>2 DEF Store
  <1> QED
    BY <1>1, <1>3, <1>4, SMT

LEMMA FreshType ==
    ASSUME NEW n \in Nat
    PROVE  Fresh(n) \in [0 .. n - 1 -> Cells]
  BY DEF Fresh, Cells

(* Two rings with the same bytes in the same order have the same contents. *)
LEMMA ContentsEqual ==
    ASSUME NEW r, NEW q, Valid(r), Valid(q), r.count = q.count,
           \A k \in 0 .. r.count - 1 : r.buffer[Cell(r, k)] = q.buffer[Cell(q, k)]
    PROVE  Contents(r) = Contents(q)
  <1>1. r.count \in Nat
    BY DEF Valid, IsRing
  <1>2. \A i \in 1 .. r.count : i - 1 \in 0 .. r.count - 1
    BY <1>1, SMT
  <1>3. \A i \in 1 .. r.count : Contents(r)[i] = Contents(q)[i]
    BY <1>2, ContentsProperties
  <1> QED
    BY <1>3, ContentsProperties, SeqEqual, SMT

(* Growing and shrinking keep the contents. *)
LEMMA ResizedProperties ==
    ASSUME NEW r, Valid(r), NEW c \in Nat \ {0}, r.count <= c
    PROVE  /\ Valid(Resized(r, c))
           /\ Resized(r, c).count = r.count
           /\ Resized(r, c).buf_size = c
           /\ Contents(Resized(r, c)) = Contents(r)
  <1> DEFINE s == FirstBytes(r, r.count)
             f == Store(Fresh(c), 0, s)
             q == Resized(r, c)
  <1>1. r.count \in Nat
    BY DEF Valid, IsRing
  <1>2. s \in Seq(Byte) /\ Len(s) = r.count /\ \A i \in 1 .. r.count : s[i] = r.buffer[Cell(r, i - 1)]
    BY <1>1, FirstBytesProperties, SMT
  <1> HIDE DEF s
  <1>3. s \in Seq(Cells)
    BY <1>2, SeqMonotonic DEF Cells
  <1>4. f \in [0 .. c - 1 -> Cells] /\ \A k \in 0 .. r.count - 1 : f[k] = s[k + 1]
    <2>1. c \in Nat /\ 0 \in Nat /\ Fresh(c) \in [0 .. c - 1 -> Cells]
      BY FreshType
    <2>2. f \in [0 .. c - 1 -> Cells]
      BY <1>3, <2>1, StoreProperties
    <2>3. \A d \in Nat : \A i \in 0 .. c - 1 :
             d <= i /\ i < d + Len(s) => Store(Fresh(c), d, s)[i] = s[i - d + 1]
      BY <1>3, <2>1, StoreProperties, SMT
    <2>4. \A k \in 0 .. r.count - 1 : k \in 0 .. c - 1 /\ 0 <= k /\ k < 0 + Len(s) /\ k - 0 + 1 = k + 1
      BY <1>1, <1>2, SMT
    <2>5. \A k \in 0 .. r.count - 1 : Store(Fresh(c), 0, s)[k] = s[k + 1]
      BY <2>1, <2>3, <2>4, SMT
    <2> QED
      BY <2>2, <2>5
  <1>5. q = [buffer |-> f, buf_size |-> c, read_pos |-> 0,
             write_pos |-> IF r.count = c THEN 0 ELSE r.count, count |-> r.count]
    BY DEF Resized, s
  <1> HIDE DEF f, q
  <1>6. /\ q.buffer = f /\ q.buf_size = c /\ q.read_pos = 0 /\ q.count = r.count
        /\ q.write_pos = IF r.count = c THEN 0 ELSE r.count
    BY <1>5
  <1>7. \A k \in 0 .. r.count - 1 : Cell(q, k) = k /\ k \in 0 .. c - 1 /\ k + 1 \in 1 .. r.count /\ (k + 1) - 1 = k
    BY <1>1, <1>6, SMT DEF Cell
  <1>9. \A k \in 0 .. r.count - 1 : q.buffer[Cell(q, k)] = r.buffer[Cell(r, k)]
    BY <1>2, <1>4, <1>6, <1>7, SMT
  <1>10. IsRing(q)
    BY <1>1, <1>4, <1>5, <1>6 DEF IsRing, Cells
  <1>11. PositionsExact(q)
    BY <1>1, <1>6, SMT DEF PositionsExact
  <1>12. Valid(q)
    BY <1>6, <1>9, <1>10, <1>11 DEF Valid
  <1>13. Contents(q) = Contents(r)
    BY <1>6, <1>9, <1>12, ContentsEqual
  <1> QED
    BY <1>6, <1>12, <1>13 DEF q

(* The cells that a write of n bytes fills, in one piece or two, are those *)
(* behind the bytes of the ring.                                           *)
LEMMA WrittenCells ==
    ASSUME NEW r, Valid(r), NEW n \in Nat, r.buf_size > 0, r.count + n <= r.buf_size,
           NEW first, first = Lesser(r.buf_size - r.write_pos, n)
    PROVE  /\ first \in 0 .. n
           /\ r.write_pos \in Nat
           /\ \A k \in 0 .. r.count - 1 :
                /\ Cell(r, k) < r.write_pos \/ r.write_pos + first <= Cell(r, k)
                /\ n - first <= Cell(r, k)
           /\ \A j \in 0 .. first - 1 :
                /\ Cell(r, r.count + j) = r.write_pos + j
                /\ n - first <= r.write_pos + j
                /\ r.write_pos + j \in 0 .. r.buf_size - 1
           /\ \A j \in first .. n - 1 :
                /\ Cell(r, r.count + j) = j - first
                /\ j - first \in 0 .. r.buf_size - 1
  <1>1. /\ r.count \in Nat /\ r.read_pos \in Nat /\ r.buf_size \in Nat /\ r.write_pos \in Nat
        /\ r.read_pos < r.buf_size
        /\ r.write_pos = IF r.read_pos + r.count < r.buf_size
                           THEN r.read_pos + r.count
                           ELSE r.read_pos + r.count - r.buf_size
    BY DEF Valid, IsRing, PositionsExact
  <1>2. /\ first \in 0 .. n /\ first <= r.buf_size - r.write_pos
        /\ first = n \/ first = r.buf_size - r.write_pos
    BY <1>1, SMT DEF Lesser
  <1>3. ASSUME NEW k \in 0 .. r.count - 1
        PROVE  /\ Cell(r, k) < r.write_pos \/ r.write_pos + first <= Cell(r, k)
               /\ n - first <= Cell(r, k)
    BY <1>1, <1>2, SMT DEF Cell
  <1>4. ASSUME NEW j \in 0 .. first - 1
        PROVE  /\ Cell(r, r.count + j) = r.write_pos + j
               /\ n - first <= r.write_pos + j
               /\ r.write_pos + j \in 0 .. r.buf_size - 1
    BY <1>1, <1>2, SMT DEF Cell
  <1>5. ASSUME NEW j \in first .. n - 1
        PROVE  /\ Cell(r, r.count + j) = j - first
               /\ j - first \in 0 .. r.buf_size - 1
    BY <1>1, <1>2, SMT DEF Cell
  <1> QED
    BY <1>1, <1>2, <1>3, <1>4, <1>5

(* A write puts its bytes behind the others. *)
LEMMA WrittenProperties ==
    ASSUME NEW r, Valid(r), NEW s, s \in Seq(Byte), r.buf_size > 0,
           r.count + Len(s) <= r.buf_size
    PROVE  /\ Valid(Written(r, s))
           /\ Written(r, s).count = r.count + Len(s)
           /\ Written(r, s).buf_size = r.buf_size
           /\ Contents(Written(r, s)) = Contents(r) \o s
  <1> DEFINE n == Len(s)
             N == r.buf_size
             rp == r.read_pos
             wp == r.write_pos
             c == r.count
             b == r.buffer
             At(k) == Cell(r, k)
             first == Lesser(N - wp, n)
             s1 == SubSeq(s, 1, first)
             s2 == SubSeq(s, first + 1, n)
             f1 == Store(b, wp, s1)
             f2 == Store(f1, 0, s2)
             q == Written(r, s)
  <1>1. /\ c \in Nat /\ rp \in Nat /\ N \in Nat /\ wp \in Nat /\ N > 0 /\ rp < N
        /\ wp = IF rp + c < N THEN rp + c ELSE rp + c - N
    BY DEF Valid, IsRing, PositionsExact
  <1>1a. b \in [0 .. N - 1 -> Cells]
    BY DEF Valid, IsRing, Cells
  <1>1b. \A k \in 0 .. c - 1 : b[At(k)] \in Byte
    BY DEF Valid
  <1>2. n \in Nat
    BY LenProperties
  <1>2a. \A i \in 1 .. n : s[i] \in Byte
    BY ElementOfSeq
  <1>3. c + n <= N
    OBVIOUS
  <1>4. first \in 0 .. n /\ (first = n \/ first = N - wp) /\ first <= N - wp
    BY <1>1, <1>2, SMT DEF Lesser
  <1>4a. \A k \in 0 .. c - 1 : (At(k) < wp \/ wp + first <= At(k)) /\ n - first <= At(k)
    BY <1>2, <1>3, <1>1, WrittenCells
  <1>4z. \A k : At(k) = IF rp + k < N THEN rp + k ELSE rp + k - N
    BY DEF Cell
  <1>4c. \A j \in first .. n - 1 : At(c + j) = j - first /\ j - first \in 0 .. N - 1
    BY <1>2, <1>3, <1>1, WrittenCells
  <1>6. q = [buffer |-> f2, buf_size |-> N, read_pos |-> rp,
             write_pos |-> IF first = N - wp THEN n - first ELSE wp + n,
             count |-> c + n]
    BY DEF Written
  <1>13. \A k \in 0 .. c - 1 : At(k) \in 0 .. N - 1
    BY CellInBuffer
  <1>6a. /\ q.buffer = f2 /\ q.buf_size = N /\ q.read_pos = rp /\ q.count = c + n
         /\ q.write_pos = IF first = N - wp THEN n - first ELSE wp + n
    BY <1>6, SMT
  <1>12. \A k : Cell(q, k) = At(k)
    BY <1>6a DEF Cell
  <1>11c. /\ Contents(r) \in Seq(Byte) /\ Len(Contents(r)) = c
          /\ \A i \in 1 .. c : Contents(r)[i] = b[At(i - 1)]
    BY ContentsProperties
  <1> HIDE DEF N, rp, wp, c, b, At, n, first, s1, s2, f1, f2, q
  <1>4b. ASSUME NEW j \in 0 .. first - 1
         PROVE  At(c + j) = wp + j /\ n - first <= wp + j /\ wp + j \in 0 .. N - 1
    <2>1. At(c + j) = IF rp + (c + j) < N THEN rp + (c + j) ELSE rp + (c + j) - N
      BY <1>4z
    <2> QED
      BY <1>1, <1>2, <1>3, <1>4, <2>1, SMT
  <1>7. /\ s1 \in Seq(Cells) /\ Len(s1) = first /\ \A i \in 1 .. first : s1[i] = s[i]
    <2>1. /\ 1 \in Int /\ first \in Int /\ \A i \in 1 .. first : s[i] \in Cells
      BY <1>2, <1>2a, <1>4, SMT DEF Cells
    <2>2. /\ s1 \in Seq(Cells) /\ Len(s1) = (IF 1 <= first THEN first - 1 + 1 ELSE 0)
          /\ \A i \in 1 .. first - 1 + 1 : s1[i] = s[1 + i - 1]
      BY <2>1, SubSeqProperties, SMT DEF s1
    <2> QED
      BY <1>2, <1>4, <2>2, SMT
  <1>8. /\ s2 \in Seq(Cells) /\ Len(s2) = n - first
        /\ \A i \in 1 .. n - first : s2[i] = s[first + i]
    <2>1. /\ first + 1 \in Int /\ n \in Int /\ \A i \in first + 1 .. n : s[i] \in Cells
      BY <1>2, <1>2a, <1>4, SMT DEF Cells
    <2>2. /\ s2 \in Seq(Cells) /\ Len(s2) = (IF first + 1 <= n THEN n - (first + 1) + 1 ELSE 0)
          /\ \A i \in 1 .. n - (first + 1) + 1 : s2[i] = s[(first + 1) + i - 1]
      BY <2>1, SubSeqProperties, SMT DEF s2
    <2> QED
      BY <1>2, <1>4, <2>2, SMT
  <1>9. N \in Nat /\ wp \in Nat /\ s1 \in Seq(Cells) /\ s2 \in Seq(Cells)
    BY <1>1, <1>7, <1>8
  <1>9a. f1 \in [0 .. N - 1 -> Cells]
    BY <1>1a, <1>9, StoreProperties DEF f1
  <1>9b. \A i \in 0 .. N - 1 : wp <= i /\ i < wp + Len(s1) => f1[i] = s1[i - wp + 1]
    BY <1>1a, <1>9, StoreProperties DEF f1
  <1>9c. \A i \in 0 .. N - 1 : i < wp \/ wp + Len(s1) <= i => f1[i] = b[i]
    BY <1>1a, <1>9, StoreProperties, SMT DEF f1
  <1>10. f2 \in [0 .. N - 1 -> Cells]
    BY <1>9, <1>9a, StoreProperties DEF f2
  <1>10d. \A d \in Nat : \A i \in 0 .. N - 1 :
             d <= i /\ i < d + Len(s2) => Store(f1, d, s2)[i] = s2[i - d + 1]
    BY <1>9, <1>9a, StoreProperties
  <1>10e. \A d \in Nat : \A i \in 0 .. N - 1 :
             i < d \/ d + Len(s2) <= i => Store(f1, d, s2)[i] = f1[i]
    BY <1>9, <1>9a, StoreProperties, SMT
  <1>10z. /\ \A i \in 0 .. N - 1 : 0 <= i /\ i < 0 + Len(s2) => f2[i] = s2[i - 0 + 1]
          /\ \A i \in 0 .. N - 1 : i < 0 \/ 0 + Len(s2) <= i => f2[i] = f1[i]
    BY <1>10d, <1>10e DEF f2
  <1>8l. Len(s2) = n - first
    BY <1>8
  <1>10a. \A i \in 0 .. N - 1 : i < n - first => f2[i] = s2[i + 1]
    BY <1>1, <1>2, <1>4, <1>8l, <1>10z, SMT
  <1>10b. \A i \in 0 .. N - 1 : n - first <= i => f2[i] = f1[i]
    BY <1>1, <1>2, <1>4, <1>8l, <1>10z, SMT
  <1>7l. Len(s1) = first
    BY <1>7
  <1>14. \A k \in 0 .. c - 1 : f2[At(k)] = b[At(k)]
    BY <1>4a, <1>7l, <1>9c, <1>10b, <1>13
  <1>15. ASSUME NEW j \in 0 .. n - 1 PROVE f2[At(c + j)] = s[j + 1]
    <2>1. CASE j < first
      <3>1. j \in 0 .. first - 1 /\ j + 1 \in 1 .. first
        BY <1>2, <1>4, <2>1, SMT
      <3>2. f2[wp + j] = f1[wp + j]
        BY <1>4b, <1>10b, <3>1
      <3>3. wp <= wp + j /\ wp + j < wp + first /\ (wp + j) - wp + 1 = j + 1
        BY <1>1, <1>2, <1>4, <3>1, SMT
      <3>4. f1[wp + j] = s1[j + 1]
        BY <1>4b, <1>7l, <1>9b, <3>1, <3>3
      <3> QED
        BY <1>4b, <1>7, <3>1, <3>2, <3>4
    <2>2. CASE ~(j < first)
      <3>1. j \in first .. n - 1 /\ j - first < n - first /\ (j - first) + 1 \in 1 .. n - first
            /\ first + ((j - first) + 1) = j + 1
        BY <1>2, <1>4, <2>2, SMT
      <3>2. f2[j - first] = s2[(j - first) + 1]
        BY <1>4c, <1>10a, <3>1
      <3> QED
        BY <1>4c, <1>8, <3>1, <3>2
    <2> QED
      BY <2>1, <2>2
  <1>16. IsRing(q)
    <2>1. q.write_pos \in Nat
      BY <1>1, <1>2, <1>4, <1>6a, SMT
    <2>2. q.buffer \in [0 .. q.buf_size - 1 -> Byte \cup {NoByte}]
      BY <1>10, <1>6a DEF Cells
    <2>3. q.buf_size \in Nat /\ q.read_pos \in Nat /\ q.count \in Nat
      BY <1>1, <1>2, <1>6a, SMT
    <2>4. q = [buffer |-> q.buffer, buf_size |-> q.buf_size, read_pos |-> q.read_pos,
               write_pos |-> q.write_pos, count |-> q.count]
      BY <1>6
    <2> QED
      BY <2>1, <2>2, <2>3, <2>4 DEF IsRing
  <1>17. PositionsExact(q)
    BY <1>1, <1>2, <1>3, <1>4, <1>6a, SMT DEF PositionsExact
  <1>18a. \A k \in 0 .. c - 1 : q.buffer[Cell(q, k)] = b[At(k)]
    BY <1>6a, <1>12, <1>14
  <1>18b. ASSUME NEW k \in c .. c + n - 1 PROVE q.buffer[Cell(q, k)] = s[k - c + 1]
    <2>1. k - c \in 0 .. n - 1 /\ c + (k - c) = k
      BY <1>1, <1>2, SMT
    <2>2. f2[At(c + (k - c))] = s[(k - c) + 1]
      BY <1>15, <2>1
    <2> QED
      BY <1>6a, <1>12, <2>1, <2>2
  <1>19. ASSUME NEW k \in 0 .. q.count - 1 PROVE q.buffer[Cell(q, k)] \in Byte
    <2>1. k \in 0 .. c - 1 \/ (k \in c .. c + n - 1 /\ k - c + 1 \in 1 .. n)
      BY <1>1, <1>2, <1>6a, SMT
    <2> QED
      BY <1>1b, <1>2a, <1>18a, <1>18b, <2>1
  <1>20. Valid(q)
    BY <1>16, <1>17, <1>19 DEF Valid
  <1>21. Contents(q) = Contents(r) \o s
    <2>1. /\ Contents(q) \in Seq(Byte) /\ Len(Contents(q)) = c + n
          /\ \A i \in 1 .. c + n : Contents(q)[i] = q.buffer[Cell(q, i - 1)]
      BY <1>6a, <1>20, ContentsProperties
    <2>3. /\ Contents(r) \o s \in Seq(Byte) /\ Len(Contents(r) \o s) = c + n
          /\ \A i \in 1 .. c + n : i <= c => (Contents(r) \o s)[i] = Contents(r)[i]
          /\ \A i \in 1 .. c + n : ~(i <= c) => (Contents(r) \o s)[i] = s[i - c]
      BY <1>11c, ConcatProperties DEF n
    <2>4. ASSUME NEW i \in 1 .. c + n PROVE Contents(q)[i] = (Contents(r) \o s)[i]
      <3>1. CASE i <= c
        <4>1. i \in 1 .. c /\ i - 1 \in 0 .. c - 1
          BY <1>1, <1>2, <3>1, SMT
        <4> QED
          BY <1>11c, <1>18a, <2>1, <2>3, <3>1, <4>1
      <3>2. CASE ~(i <= c)
        <4>1. i - 1 \in c .. c + n - 1 /\ (i - 1) - c + 1 = i - c
          BY <1>1, <1>2, <3>2, SMT
        <4> QED
          BY <1>18b, <2>1, <2>3, <3>2, <4>1
      <3> QED
        BY <3>1, <3>2
    <2> QED
      BY <2>1, <2>3, <2>4, SeqEqual
  <1> QED
    BY <1>6a, <1>20, <1>21 DEF q, n, N, c

(* A read takes its bytes from the front and leaves the rest as it is. *)
LEMMA ConsumedProperties ==
    ASSUME NEW r, Valid(r), NEW n \in 0 .. r.count, r.buf_size > 0
    PROVE  /\ Valid(Consumed(r, n))
           /\ Consumed(r, n).count = r.count - n
           /\ Consumed(r, n).buf_size = r.buf_size
           /\ Contents(r) = FirstBytes(r, n) \o Contents(Consumed(r, n))
  <1> DEFINE N == r.buf_size
             rp == r.read_pos
             wp == r.write_pos
             c == r.count
             b == r.buffer
             At(k) == Cell(r, k)
             first == Lesser(N - rp, n)
             f == [i \in 0 .. N - 1 |-> IF \/ i \in rp .. rp + first - 1
                                           \/ i \in 0 .. n - first - 1
                                        THEN NoByte ELSE b[i]]
             rp2 == IF first = N - rp THEN n - first ELSE rp + n
             q == Consumed(r, n)
             QAt(k) == Cell(q, k)
  <1>1. /\ c \in Nat /\ rp \in Nat /\ N \in Nat /\ wp \in Nat /\ N > 0 /\ rp < N /\ c <= N
        /\ wp = IF rp + c < N THEN rp + c ELSE rp + c - N
    BY DEF Valid, IsRing, PositionsExact
  <1>1a. b \in [0 .. N - 1 -> Cells]
    BY DEF Valid, IsRing, Cells
  <1>1b. \A k \in 0 .. c - 1 : b[At(k)] \in Byte
    BY DEF Valid
  <1>2. n \in 0 .. c
    OBVIOUS
  <1>3. first \in 0 .. n /\ (first = n \/ first = N - rp) /\ first <= N - rp
    BY <1>1, SMT DEF Lesser
  <1>4. \A k : At(k) = IF rp + k < N THEN rp + k ELSE rp + k - N
    BY DEF Cell
  <1>5. q = [buffer |-> f, buf_size |-> N, read_pos |-> rp2, write_pos |-> wp, count |-> c - n]
    BY <1>1a DEF Consumed
  <1>6. /\ q.buffer = f /\ q.buf_size = N /\ q.read_pos = rp2 /\ q.count = c - n /\ q.write_pos = wp
    BY <1>5, SMT
  <1>7. \A k : QAt(k) = IF rp2 + k < N THEN rp2 + k ELSE rp2 + k - N
    BY <1>6 DEF Cell
  <1>8. /\ Contents(r) \in Seq(Byte) /\ Len(Contents(r)) = c
        /\ \A i \in 1 .. c : Contents(r)[i] = b[At(i - 1)]
    BY ContentsProperties
  <1>9. /\ FirstBytes(r, n) \in Seq(Byte) /\ Len(FirstBytes(r, n)) = n
        /\ \A i \in 1 .. n : FirstBytes(r, n)[i] = b[At(i - 1)]
    BY FirstBytesProperties
  <1>10. rp2 = IF first = N - rp THEN n - first ELSE rp + n
    OBVIOUS
  <1>11. f \in [0 .. N - 1 -> Cells]
    BY <1>1a DEF Cells
  <1>12. \A i \in 0 .. N - 1 : /\ i < rp \/ rp + first <= i
                               /\ n - first <= i
                               => f[i] = b[i]
    BY <1>1, <1>3, SMT
  <1> HIDE DEF N, rp, wp, c, b, At, first, f, rp2, q, QAt
  <1>13. rp2 \in Nat /\ rp2 < N
    BY <1>1, <1>2, <1>3, <1>10, SMT
  <1>14. ASSUME NEW k \in 0 .. c - n - 1
         PROVE  /\ QAt(k) = At(n + k)
                /\ At(n + k) \in 0 .. N - 1
                /\ At(n + k) < rp \/ rp + first <= At(n + k)
                /\ n - first <= At(n + k)
    <2>1. /\ At(n + k) = IF rp + (n + k) < N THEN rp + (n + k) ELSE rp + (n + k) - N
          /\ QAt(k) = IF rp2 + k < N THEN rp2 + k ELSE rp2 + k - N
      BY <1>4, <1>7
    <2> QED
      BY <1>1, <1>2, <1>3, <1>10, <2>1, SMT
  <1>15. \A k \in 0 .. c - n - 1 : q.buffer[Cell(q, k)] = b[At(n + k)]
    BY <1>6, <1>12, <1>14 DEF QAt
  <1>16. IsRing(q)
    <2>1. q.buffer \in [0 .. q.buf_size - 1 -> Byte \cup {NoByte}]
      BY <1>6, <1>11 DEF Cells
    <2>2. q.buf_size \in Nat /\ q.read_pos \in Nat /\ q.count \in Nat /\ q.write_pos \in Nat
      BY <1>1, <1>2, <1>6, <1>13, SMT
    <2>3. q = [buffer |-> q.buffer, buf_size |-> q.buf_size, read_pos |-> q.read_pos,
               write_pos |-> q.write_pos, count |-> q.count]
      BY <1>5
    <2> QED
      BY <2>1, <2>2, <2>3 DEF IsRing
  <1>17. PositionsExact(q)
    BY <1>1, <1>2, <1>3, <1>6, <1>10, SMT DEF PositionsExact
  <1>18. \A k \in 0 .. q.count - 1 : q.buffer[Cell(q, k)] \in Byte
    <2>1. \A k \in 0 .. c - n - 1 : n + k \in 0 .. c - 1
      BY <1>1, <1>2, SMT
    <2> QED
      BY <1>1b, <1>6, <1>15, <2>1
  <1>19. Valid(q)
    BY <1>16, <1>17, <1>18 DEF Valid
  <1>20. Contents(r) = FirstBytes(r, n) \o Contents(q)
    <2>1. /\ Contents(q) \in Seq(Byte) /\ Len(Contents(q)) = c - n
          /\ \A i \in 1 .. c - n : Contents(q)[i] = q.buffer[Cell(q, i - 1)]
      BY <1>6, <1>19, ContentsProperties
    <2> DEFINE A == FirstBytes(r, n)
               B == Contents(q)
    <2>2. A \in Seq(Byte) /\ Len(A) = n /\ B \in Seq(Byte) /\ Len(B) = c - n
      BY <1>9, <2>1
    <2> HIDE DEF A, B
    <2>3. /\ A \o B \in Seq(Byte) /\ Len(A \o B) = Len(A) + Len(B)
          /\ \A i \in 1 .. Len(A) + Len(B) : i <= Len(A) => (A \o B)[i] = A[i]
          /\ \A i \in 1 .. Len(A) + Len(B) : ~(i <= Len(A)) => (A \o B)[i] = B[i - Len(A)]
      BY <2>2, ConcatProperties
    <2>4. Len(A) + Len(B) = c
      BY <1>1, <1>2, <2>2, SMT
    <2>5. ASSUME NEW i \in 1 .. c PROVE Contents(r)[i] = (A \o B)[i]
      <3>1. CASE i <= n
        <4>1. i \in 1 .. n
          BY <1>1, <1>2, <3>1, SMT
        <4> QED
          BY <1>8, <1>9, <2>2, <2>3, <2>4, <3>1, <4>1 DEF A
      <3>2. CASE ~(i <= n)
        <4>1. i - n \in 1 .. c - n /\ (i - n) - 1 \in 0 .. c - n - 1 /\ n + ((i - n) - 1) = i - 1
          BY <1>1, <1>2, <3>2, SMT
        <4>2. B[i - n] = b[At(i - 1)]
          BY <1>15, <2>1, <4>1 DEF B
        <4> QED
          BY <1>8, <2>2, <2>3, <2>4, <3>2, <4>2
      <3> QED
        BY <3>1, <3>2
    <2> QED
      BY <1>8, <2>3, <2>4, <2>5, SeqEqual DEF A, B
  <1> QED
    BY <1>6, <1>19, <1>20 DEF q, N, c

(* The ring without a buffer, of a new pipe and of one that was read empty. *)
LEMMA EmptyRingProperties ==
    Valid(EmptyRing) /\ EmptyRing.count = 0 /\ EmptyRing.buf_size = 0 /\ Contents(EmptyRing) = <<>>
  <1>1. /\ EmptyRing.buffer = Fresh(0) /\ EmptyRing.buf_size = 0 /\ EmptyRing.read_pos = 0
        /\ EmptyRing.write_pos = 0 /\ EmptyRing.count = 0
    BY DEF EmptyRing
  <1>2. IsRing(EmptyRing)
    <2>1. Fresh(0) \in [0 .. 0 - 1 -> Byte \cup {NoByte}]
      BY DEF Fresh
    <2>2. EmptyRing = [buffer |-> EmptyRing.buffer, buf_size |-> EmptyRing.buf_size,
                       read_pos |-> EmptyRing.read_pos, write_pos |-> EmptyRing.write_pos,
                       count |-> EmptyRing.count]
      BY DEF EmptyRing
    <2> QED
      BY <1>1, <2>1, <2>2, SMT DEF IsRing
  <1>3. PositionsExact(EmptyRing)
    BY <1>1, SMT DEF PositionsExact
  <1>4. Valid(EmptyRing)
    BY <1>1, <1>2, <1>3, SMT DEF Valid
  <1>5. Contents(EmptyRing) \in Seq(Byte) /\ Len(Contents(EmptyRing)) = 0
    BY <1>1, <1>4, ContentsProperties
  <1>6. Contents(EmptyRing) = <<>>
    BY <1>5, EmptySeq
  <1> QED
    BY <1>1, <1>4, <1>6

(* Shrinking after a read keeps the contents, whether or not there is      *)
(* memory for the smaller buffer.                                          *)
LEMMA ShrunkProperties ==
    ASSUME NEW r, Valid(r), NEW sizes \in SUBSET (Nat \ {0}), NEW q \in Shrunk(r, sizes)
    PROVE  Valid(q) /\ q.count = r.count /\ Contents(q) = Contents(r)
  <1>1. r.count \in Nat /\ r.buf_size \in Nat
    BY DEF Valid, IsRing
  <1>2. CASE r.count = 0
    <2>1. q = EmptyRing
      BY <1>2, SMT DEF Shrunk
    <2>2. Contents(r) \in Seq(Byte) /\ Len(Contents(r)) = 0
      BY <1>2, ContentsProperties
    <2>3. Contents(r) = <<>>
      BY <2>2, EmptySeq
    <2> QED
      BY <1>2, <2>1, <2>3, EmptyRingProperties
  <1>3. CASE q = r
    BY <1>3
  <1>4. CASE r.count # 0 /\ q # r
    <2>1. q = Resized(r, 2 * r.count) /\ 2 * r.count \in Nat \ {0}
      BY <1>1, <1>4 DEF Shrunk
    <2>2. r.count <= 2 * r.count
      BY <1>1, SMT
    <2> QED
      BY <2>1, <2>2, ResizedProperties
  <1> QED
    BY <1>2, <1>3, <1>4

-----------------------------------------------------------------------------
Writing == {"w_lock", "w_sleep", "w_test", "w_again"}
Reading == {"r_lock", "r_sleep", "r_test", "r_done"}

(* What the locals of the calls hold.  A writer in the kernel has bytes in *)
(* kbuf that it has still to put; nobody else has any, and only a reader   *)
(* about to return has got some.                                           *)
CallsExact ==
    \A t \in Tasks :
        /\ left[t] <= Len(data[t])
        /\ pc[t] \in Writing => left[t] > 0
        /\ pc[t] \notin Writing => data[t] = <<>>
        /\ pc[t] # "r_done" => got[t] = <<>>

(* TypeOK without the references, in parts. *)
QueueTypes ==
    /\ read_waitq \in SUBSET Tasks
    /\ write_waitq \in SUBSET Tasks
    /\ tstate \in [Tasks -> {"READY", "RUNNING", "BLOCKED"}]
    /\ misled \in SUBSET Tasks

SignalTypes ==
    /\ pending \in [Tasks -> BOOLEAN]
    /\ sender \in [Tasks -> {"none", "test", "wake"}]

LocalTypes ==
    /\ pc \in [Tasks -> {"out"} \cup Writing \cup Reading]
    /\ data \in [Tasks -> Seq(Byte)]
    /\ left \in [Tasks -> Nat]
    /\ nonblock \in [Tasks -> BOOLEAN]
    /\ got \in [Tasks -> Seq(Byte)]

TypesExact == Valid(p) /\ QueueTypes /\ SignalTypes /\ LocalTypes

-----------------------------------------------------------------------------
LEMMA AllocsType == Allocs \in SUBSET (Nat \ {0})
  BY BoundsAssumption, SMT DEF Allocs

(* Making space for a write keeps the contents. *)
LEMMA GrownProperties ==
    ASSUME NEW r, Valid(r), NEW n \in Nat, NEW q \in Grown(r, n)
    PROVE  Valid(q) /\ q.count = r.count /\ Contents(q) = Contents(r)
  <1>1. r.count \in Nat /\ r.buf_size \in Nat
    BY DEF Valid, IsRing
  <1>2. CASE q = r
    BY <1>2
  <1>3. CASE q # r
    <2> DEFINE c == Capacity(r, r.count + n)
    <2>1. q = Resized(r, c) /\ c \in Allocs
      BY <1>3 DEF Grown
    <2>2. c \in Nat \ {0}
      BY <2>1, AllocsType
    <2>3. r.count <= c
      BY <1>1, SMT DEF Capacity
    <2> QED
      BY <2>1, <2>2, <2>3, ResizedProperties
  <1> QED
    BY <1>2, <1>3

(* The bytes of a sequence from the n-th on, and those before. *)
LEMMA Split ==
    ASSUME NEW s \in Seq(Byte), NEW n \in 0 .. Len(s)
    PROVE  /\ SubSeq(s, 1, n) \in Seq(Byte) /\ Len(SubSeq(s, 1, n)) = n
           /\ SubSeq(s, n + 1, Len(s)) \in Seq(Byte)
           /\ Len(SubSeq(s, n + 1, Len(s))) = Len(s) - n
  <1>1. Len(s) \in Nat /\ \A i \in 1 .. Len(s) : s[i] \in Byte
    BY LenProperties, ElementOfSeq
  <1>2. \A i \in 1 .. n : s[i] \in Byte
    BY <1>1, SMT
  <1>3. \A i \in n + 1 .. Len(s) : s[i] \in Byte
    BY <1>1, SMT
  <1>4. SubSeq(s, 1, n) \in Seq(Byte) /\ Len(SubSeq(s, 1, n)) = (IF 1 <= n THEN n - 1 + 1 ELSE 0)
    BY <1>1, <1>2, SubSeqProperties, SMT
  <1>5. /\ SubSeq(s, n + 1, Len(s)) \in Seq(Byte)
        /\ Len(SubSeq(s, n + 1, Len(s))) = (IF n + 1 <= Len(s) THEN Len(s) - (n + 1) + 1 ELSE 0)
    BY <1>1, <1>3, SubSeqProperties, SMT
  <1> QED
    BY <1>1, <1>4, <1>5, SMT

(* A write puts the next bytes of its data behind those of the pipe. *)
LEMMA WriteBytesEffect ==
    ASSUME TypesExact, CallsExact, NEW t \in Tasks, pc[t] \in Writing,
           NEW r, Valid(r), r.count < r.buf_size, WriteBytes(t, r)
    PROVE  \E n \in 1 .. left[t] :
              /\ Valid(p') /\ p'.count = r.count + n
              /\ Contents(p') = Contents(r) \o SubSeq(data[t], 1, n)
              /\ data' = [data EXCEPT ![t] = SubSeq(data[t], n + 1, Len(data[t]))]
              /\ \/ data'[t] = <<>> /\ Return(t)
                 \/ /\ pc' = [pc EXCEPT ![t] = "w_lock"]
                    /\ \E k \in 1 .. Len(data'[t]) : left' = [left EXCEPT ![t] = k]
                    /\ UNCHANGED nonblock
  <1> DEFINE n == Lesser(left[t], r.buf_size - r.count)
             rest == SubSeq(data[t], n + 1, Len(data[t]))
             s == SubSeq(data[t], 1, n)
             k == IF n < left[t] THEN left[t] - n ELSE Lesser(Len(rest), WorkSize)
  <1>1. /\ data[t] \in Seq(Byte) /\ left[t] \in Nat /\ left[t] > 0 /\ left[t] <= Len(data[t])
        /\ Len(data[t]) \in Nat
    <2>1. data[t] \in Seq(Byte) /\ left[t] \in Nat
      BY DEF TypesExact, LocalTypes
    <2>2. left[t] > 0 /\ left[t] <= Len(data[t])
      BY DEF CallsExact
    <2> QED
      BY <2>1, <2>2, LenProperties
  <1>2. r.count \in Nat /\ r.buf_size \in Nat /\ r.buf_size > 0
    BY SMT DEF Valid, IsRing
  <1>3. n \in 1 .. left[t] /\ n <= r.buf_size - r.count
    BY <1>1, <1>2, SMT DEF Lesser
  <1>4. p' = Written(r, s) /\ (IF rest = <<>> THEN Return(t)
             ELSE /\ pc' = [pc EXCEPT ![t] = "w_lock"] /\ data' = [data EXCEPT ![t] = rest]
                  /\ left' = [left EXCEPT ![t] = k] /\ UNCHANGED nonblock)
    BY DEF WriteBytes
  <1> HIDE DEF n
  <1>5. n \in 0 .. Len(data[t])
    BY <1>1, <1>3, SMT
  <1>6. /\ s \in Seq(Byte) /\ Len(s) = n
        /\ rest \in Seq(Byte) /\ Len(rest) = Len(data[t]) - n
    BY <1>1, <1>5, Split
  <1>7. r.count + Len(s) <= r.buf_size
    BY <1>2, <1>3, <1>6, SMT
  <1> HIDE DEF s
  <1>8. Valid(p') /\ p'.count = r.count + n /\ Contents(p') = Contents(r) \o s
    BY <1>2, <1>4, <1>6, <1>7, WrittenProperties
  <1>9. rest # <<>> => k \in 1 .. Len(rest)
    <2> HIDE DEF rest
    <2>1. rest # <<>> => Len(rest) \in Nat \ {0}
      BY <1>6, EmptySeq
    <2> QED
      BY <1>1, <1>3, <1>6, <2>1, BoundsAssumption, SMT DEF Lesser
  <1> HIDE DEF rest, k
  <1>10. data' = [data EXCEPT ![t] = rest] /\ data'[t] = rest
    <2>1. CASE rest = <<>>
      BY <1>4, <2>1 DEF Return, TypesExact, LocalTypes
    <2>2. CASE rest # <<>>
      BY <1>4, <2>2 DEF TypesExact, LocalTypes
    <2> QED
      BY <2>1, <2>2
  <1>11. \/ data'[t] = <<>> /\ Return(t)
         \/ /\ pc' = [pc EXCEPT ![t] = "w_lock"]
            /\ \E j \in 1 .. Len(data'[t]) : left' = [left EXCEPT ![t] = j]
            /\ UNCHANGED nonblock
    BY <1>4, <1>9, <1>10
  <1> QED
    BY <1>3, <1>8, <1>10, <1>11 DEF s, rest

(* The front of a sequence and what follows it. *)
LEMMA SplitConcat ==
    ASSUME NEW a \in Seq(Byte), NEW b \in Seq(Byte), NEW s, s = a \o b
    PROVE  /\ s \in Seq(Byte) /\ Len(a) \in 0 .. Len(s)
           /\ SubSeq(s, 1, Len(a)) = a
           /\ SubSeq(s, Len(a) + 1, Len(s)) = b
  <1>1. Len(a) \in Nat /\ Len(b) \in Nat
    BY LenProperties
  <1>2. s \in Seq(Byte) /\ Len(s) = Len(a) + Len(b)
    BY ConcatProperties
  <1>3. /\ \A i \in 1 .. Len(s) : i <= Len(a) => s[i] = a[i]
        /\ \A i \in 1 .. Len(s) : ~(i <= Len(a)) => s[i] = b[i - Len(a)]
    BY <1>2, ConcatProperties
  <1> DEFINE n == Len(a)
             x == SubSeq(s, 1, n)
             y == SubSeq(s, n + 1, Len(s))
  <1>4. n \in 0 .. Len(s)
    BY <1>1, <1>2, SMT
  <1>5. x \in Seq(Byte) /\ Len(x) = n /\ y \in Seq(Byte) /\ Len(y) = Len(b)
    BY <1>1, <1>2, <1>4, Split, SMT
  <1>6. \A i \in 1 .. n : x[i] = s[i]
    BY <1>1, <1>2, <1>4, SMT
  <1>7. \A i \in 1 .. Len(b) : y[i] = s[n + i]
    BY <1>1, <1>2, <1>4, SMT
  <1> HIDE DEF x, y
  <1>8. \A i \in 1 .. n : x[i] = a[i]
    BY <1>1, <1>2, <1>3, <1>6, SMT
  <1>9. \A i \in 1 .. Len(b) : y[i] = b[i]
    <2>1. \A i \in 1 .. Len(b) : n + i \in 1 .. Len(s) /\ ~(n + i <= Len(a)) /\ (n + i) - Len(a) = i
      BY <1>1, <1>2, SMT
    <2> QED
      BY <1>3, <1>7, <2>1
  <1>10. x = a
    BY <1>5, <1>8, SeqEqual
  <1>11. y = b
    BY <1>5, <1>9, SeqEqual
  <1> QED
    BY <1>2, <1>4, <1>10, <1>11 DEF x, y

(* A read delivers the front of the pipe and leaves the rest. *)
LEMMA ReadBytesEffect ==
    ASSUME TypesExact, NEW t \in Tasks, ReadBytes(t)
    PROVE  \E n \in 1 .. Len(Contents(p)) :
              /\ Valid(p')
              /\ Contents(p') = SubSeq(Contents(p), n + 1, Len(Contents(p)))
              /\ got' = [got EXCEPT ![t] = SubSeq(Contents(p), 1, n)]
              /\ SubSeq(Contents(p), 1, n) \in Seq(Byte)
  <1>1. PICK n \in 1 .. Lesser(p.count, WorkSize) :
           /\ p' \in Shrunk(Consumed(p, n), Allocs)
           /\ got' = [got EXCEPT ![t] = FirstBytes(p, n)]
    BY DEF ReadBytes
  <1>2. Valid(p)
    BY DEF TypesExact
  <1>3. p.count \in Nat /\ p.buf_size \in Nat /\ (p.buf_size = 0 => p.count = 0)
    BY <1>2 DEF Valid, IsRing, PositionsExact
  <1>4. n \in 1 .. p.count
    BY <1>1, <1>3, BoundsAssumption, SMT DEF Lesser
  <1>5. n \in 0 .. p.count /\ p.buf_size > 0
    BY <1>3, <1>4, SMT
  <1> DEFINE q == Consumed(p, n)
  <1>6. Valid(q) /\ Contents(p) = FirstBytes(p, n) \o Contents(q)
    BY <1>2, <1>5, ConsumedProperties
  <1>7. FirstBytes(p, n) \in Seq(Byte) /\ Len(FirstBytes(p, n)) = n
    BY <1>2, <1>5, FirstBytesProperties
  <1>8. Len(Contents(p)) = p.count
    BY <1>2, ContentsProperties
  <1> HIDE DEF q
  <1>9. Valid(p') /\ Contents(p') = Contents(q)
    BY <1>1, <1>6, AllocsType, ShrunkProperties DEF q
  <1>10. Contents(q) \in Seq(Byte)
    BY <1>6, ContentsProperties
  <1>11. /\ SubSeq(Contents(p), 1, n) = FirstBytes(p, n)
         /\ SubSeq(Contents(p), n + 1, Len(Contents(p))) = Contents(q)
    BY <1>6, <1>7, <1>10, SplitConcat, SMT
  <1> QED
    BY <1>1, <1>4, <1>7, <1>8, <1>9, <1>11

-----------------------------------------------------------------------------
(* Waking and going to sleep keep the types of the queues. *)
LEMMA WakeAllTypes ==
    ASSUME QueueTypes, NEW R, NEW W, WakeAll(R, W), UNCHANGED misled
    PROVE  QueueTypes'
  BY DEF QueueTypes, WakeAll

LEMMA SleepOnTypes ==
    ASSUME QueueTypes, NEW t \in Tasks, NEW R \in SUBSET {t}, NEW W \in SUBSET {t}, SleepOn(t, R, W),
           misled' \in SUBSET Tasks
    PROVE  QueueTypes'
  BY DEF QueueTypes, SleepOn

(* Returning, from a write or a read, leaves nothing in the locals. *)
LEMMA ReturnLocals ==
    ASSUME LocalTypes, CallsExact, NEW t \in Tasks, Return(t),
           \/ UNCHANGED got /\ pc[t] # "r_done"
           \/ got' = [got EXCEPT ![t] = <<>>]
    PROVE  LocalTypes' /\ CallsExact'
  <1>1. <<>> \in Seq(Byte) /\ Len(<<>>) = 0
    BY EmptySeq
  <1>2. /\ pc' = [pc EXCEPT ![t] = "out"] /\ data' = [data EXCEPT ![t] = <<>>]
        /\ left' = [left EXCEPT ![t] = 0] /\ nonblock' = [nonblock EXCEPT ![t] = FALSE]
    BY DEF Return
  <1>3. got' \in [Tasks -> Seq(Byte)] /\ got'[t] = <<>> /\ \A u \in Tasks \ {t} : got'[u] = got[u]
    BY <1>1 DEF LocalTypes, CallsExact
  <1>4. LocalTypes'
    <2>1. pc' \in [Tasks -> {"out"} \cup Writing \cup Reading]
      BY <1>2 DEF LocalTypes
    <2>2. data' \in [Tasks -> Seq(Byte)]
      BY <1>1, <1>2 DEF LocalTypes
    <2>3. left' \in [Tasks -> Nat]
      BY <1>2 DEF LocalTypes
    <2>4. nonblock' \in [Tasks -> BOOLEAN]
      BY <1>2 DEF LocalTypes
    <2> QED
      BY <1>3, <2>1, <2>2, <2>3, <2>4 DEF LocalTypes
  <1>5. ASSUME NEW u \in Tasks
        PROVE  /\ left'[u] <= Len(data'[u])
               /\ pc'[u] \in Writing => left'[u] > 0
               /\ pc'[u] \notin Writing => data'[u] = <<>>
               /\ pc'[u] # "r_done" => got'[u] = <<>>
    <2>1. CASE u = t
      <3>1. pc'[u] = "out" /\ data'[u] = <<>> /\ left'[u] = 0
        BY <1>2, <2>1 DEF LocalTypes
      <3> QED
        BY <1>1, <1>3, <2>1, <3>1, SMT DEF Writing
    <2>2. CASE u # t
      <3>1. pc'[u] = pc[u] /\ data'[u] = data[u] /\ left'[u] = left[u] /\ got'[u] = got[u]
        BY <1>2, <1>3, <2>2 DEF LocalTypes
      <3> QED
        BY <3>1 DEF CallsExact
    <2> QED
      BY <2>1, <2>2
  <1> QED
    BY <1>4, <1>5 DEF CallsExact

(* So does going from one place of a write, or of a read, to another. *)
LEMMA GotoLocals ==
    ASSUME LocalTypes, CallsExact, NEW t \in Tasks, NEW to \in {"out"} \cup Writing \cup Reading,
           pc' = [pc EXCEPT ![t] = to], pc[t] \in Writing <=> to \in Writing, pc[t] # "r_done",
           UNCHANGED <<data, left, got>>, nonblock' \in [Tasks -> BOOLEAN]
    PROVE  LocalTypes' /\ CallsExact'
  <1>1. LocalTypes'
    BY DEF LocalTypes
  <1>2. ASSUME NEW u \in Tasks
        PROVE  /\ left'[u] <= Len(data'[u])
               /\ pc'[u] \in Writing => left'[u] > 0
               /\ pc'[u] \notin Writing => data'[u] = <<>>
               /\ pc'[u] # "r_done" => got'[u] = <<>>
    <2>1. pc'[u] = IF u = t THEN to ELSE pc[u]
      BY DEF LocalTypes
    <2>2. data'[u] = data[u] /\ left'[u] = left[u] /\ got'[u] = got[u]
      OBVIOUS
    <2> QED
      BY <2>1, <2>2 DEF CallsExact
  <1> QED
    BY <1>1, <1>2 DEF CallsExact

(* A step that leaves the locals alone. *)
LEMMA SameLocals ==
    ASSUME LocalTypes, CallsExact, UNCHANGED <<pc, data, left, nonblock, got>>
    PROVE  LocalTypes' /\ CallsExact'
  BY DEF LocalTypes, CallsExact

-----------------------------------------------------------------------------
(* A step of the stream, or none. *)
StreamStep == [Stream!Next]_(Stream!vars)

LEMMA SameStream ==
    ASSUME Contents(p') = Contents(p), UNCHANGED <<data, got>>
    PROVE  StreamStep
  BY DEF StreamStep, Stream!vars

LEMMA StopStream ==
    ASSUME NEW t \in Tasks, Contents(p') = Contents(p), UNCHANGED got, data' = [data EXCEPT ![t] = <<>>]
    PROVE  StreamStep
  BY DEF StreamStep, Stream!Next, Stream!Stop

LEMMA PutStream ==
    ASSUME NEW t \in Tasks, NEW n \in 1 .. Len(data[t]), UNCHANGED got,
           Contents(p') = Contents(p) \o SubSeq(data[t], 1, n),
           data' = [data EXCEPT ![t] = SubSeq(data[t], n + 1, Len(data[t]))]
    PROVE  StreamStep
  <1>1. Stream!Put(t)
    BY DEF Stream!Put
  <1> QED
    BY <1>1 DEF StreamStep, Stream!Next

LEMMA OfferStream ==
    ASSUME LocalTypes, NEW t \in Tasks, NEW s, Contents(p') = Contents(p), UNCHANGED got,
           data[t] = <<>>, data' = [data EXCEPT ![t] = s]
    PROVE  StreamStep
  <1>1. data'[t] = s
    BY DEF LocalTypes
  <1>2. Stream!Offer(t)
    BY <1>1 DEF Stream!Offer
  <1> QED
    BY <1>2 DEF StreamStep, Stream!Next

LEMMA GetStream ==
    ASSUME NEW t \in Tasks, NEW n \in 1 .. Len(Contents(p)), UNCHANGED data, got[t] = <<>>,
           Contents(p') = SubSeq(Contents(p), n + 1, Len(Contents(p))),
           got' = [got EXCEPT ![t] = SubSeq(Contents(p), 1, n)]
    PROVE  StreamStep
  <1>1. Stream!Get(t)
    BY DEF Stream!Get
  <1> QED
    BY <1>1 DEF StreamStep, Stream!Next

LEMMA TakeStream ==
    ASSUME NEW t \in Tasks, Contents(p') = Contents(p), UNCHANGED data, got' = [got EXCEPT ![t] = <<>>]
    PROVE  StreamStep
  BY DEF StreamStep, Stream!Next, Stream!Take

LEMMA DropStream ==
    ASSUME Contents(p') = <<>>, UNCHANGED <<data, got>>
    PROVE  StreamStep
  BY DEF StreamStep, Stream!Next, Stream!Drop

-----------------------------------------------------------------------------
(* What every step keeps. *)
Kept == TypesExact' /\ CallsExact' /\ StreamStep

(* The calls that put bytes, return or go to sleep in a write. *)
LEMMA WriteBytesKept ==
    ASSUME TypesExact, CallsExact, NEW t \in Tasks, pc[t] \in Writing,
           NEW r, Valid(r), Contents(r) = Contents(p), r.count < r.buf_size, WriteBytes(t, r),
           UNCHANGED <<sigVars, got>>
    PROVE  Kept
  <1>1. PICK n \in 1 .. left[t] :
              /\ Valid(p')
              /\ Contents(p') = Contents(r) \o SubSeq(data[t], 1, n)
              /\ data' = [data EXCEPT ![t] = SubSeq(data[t], n + 1, Len(data[t]))]
              /\ \/ data'[t] = <<>> /\ Return(t)
                 \/ /\ pc' = [pc EXCEPT ![t] = "w_lock"]
                    /\ \E k \in 1 .. Len(data'[t]) : left' = [left EXCEPT ![t] = k]
                    /\ UNCHANGED nonblock
    BY WriteBytesEffect
  <1>2. data[t] \in Seq(Byte) /\ left[t] \in Nat /\ left[t] <= Len(data[t]) /\ Len(data[t]) \in Nat
    BY LenProperties DEF TypesExact, LocalTypes, CallsExact
  <1>3. n \in 1 .. Len(data[t]) /\ n \in 0 .. Len(data[t])
    BY <1>2, SMT
  <1>4. StreamStep
    BY <1>1, <1>3, PutStream
  <1>5. QueueTypes'
    BY WakeAllTypes DEF WriteBytes, TypesExact
  <1>6. LocalTypes' /\ CallsExact'
    <2>1. CASE Return(t)
      BY <2>1, ReturnLocals DEF TypesExact, Writing
    <2>2. CASE ~Return(t)
      <3>1. PICK k \in 1 .. Len(data'[t]) :
               /\ left' = [left EXCEPT ![t] = k] /\ pc' = [pc EXCEPT ![t] = "w_lock"] /\ UNCHANGED nonblock
        BY <1>1, <2>2
      <3>2. data'[t] = SubSeq(data[t], n + 1, Len(data[t]))
        BY <1>1 DEF TypesExact, LocalTypes
      <3>3. data'[t] \in Seq(Byte) /\ Len(data'[t]) \in Nat
        BY <1>2, <1>3, <3>2, Split, LenProperties
      <3>4. data' \in [Tasks -> Seq(Byte)]
        BY <1>1, <3>2, <3>3 DEF TypesExact, LocalTypes
      <3>5. left' \in [Tasks -> Nat] /\ left'[t] = k /\ k > 0 /\ k <= Len(data'[t])
        BY <3>1, <3>3, SMT DEF TypesExact, LocalTypes
      <3>6. pc' \in [Tasks -> {"out"} \cup Writing \cup Reading] /\ pc'[t] = "w_lock"
        BY <3>1 DEF TypesExact, LocalTypes, Writing
      <3>7. LocalTypes'
        BY <3>1, <3>4, <3>5, <3>6 DEF TypesExact, LocalTypes
      <3>8. ASSUME NEW u \in Tasks
            PROVE  /\ left'[u] <= Len(data'[u])
                   /\ pc'[u] \in Writing => left'[u] > 0
                   /\ pc'[u] \notin Writing => data'[u] = <<>>
                   /\ pc'[u] # "r_done" => got'[u] = <<>>
        <4>1. CASE u = t
          BY <3>5, <3>6, <4>1 DEF CallsExact, Writing
        <4>2. CASE u # t
          <5>1. pc'[u] = pc[u] /\ data'[u] = data[u] /\ left'[u] = left[u] /\ got'[u] = got[u]
            BY <1>1, <3>1, <4>2 DEF TypesExact, LocalTypes
          <5> QED
            BY <5>1 DEF CallsExact
        <4> QED
          BY <4>1, <4>2
      <3> QED
        BY <3>7, <3>8 DEF CallsExact
    <2> QED
      BY <2>1, <2>2
  <1>7. SignalTypes'
    BY DEF TypesExact, SignalTypes, sigVars
  <1> QED
    BY <1>1, <1>4, <1>5, <1>6, <1>7 DEF Kept, TypesExact

(* A call that returns and changes nothing. *)
LEMMA ReturnKept ==
    ASSUME TypesExact, CallsExact, NEW t \in Tasks, pc[t] # "r_done", Return(t),
           UNCHANGED <<p, queueVars, sigVars, got, misled>>
    PROVE  Kept
  <1>1. LocalTypes' /\ CallsExact'
    BY ReturnLocals DEF TypesExact
  <1>2. QueueTypes' /\ SignalTypes' /\ Valid(p)'
    BY DEF TypesExact, QueueTypes, SignalTypes, queueVars, sigVars
  <1>3. StreamStep
    BY StopStream DEF Return
  <1> QED
    BY <1>1, <1>2, <1>3 DEF Kept, TypesExact

LEMMA WriteSleepKept ==
    ASSUME TypesExact, CallsExact, NEW t \in Tasks, pc[t] \in Writing,
           NEW r, Valid(r), Contents(r) = Contents(p), WriteSleep(t, r), UNCHANGED <<sigVars, got>>
    PROVE  Kept
  <1>1. LocalTypes' /\ CallsExact'
    <2>1. /\ pc' = [pc EXCEPT ![t] = "w_sleep"] /\ UNCHANGED <<data, left, nonblock, got>>
      BY DEF WriteSleep, callVars
    <2>2. nonblock' \in [Tasks -> BOOLEAN] /\ pc[t] # "r_done"
      BY <2>1 DEF TypesExact, LocalTypes, Writing
    <2> QED
      BY <2>1, <2>2, GotoLocals DEF TypesExact, Writing
  <1>2. QueueTypes'
    <2>1. misled' \in SUBSET Tasks
      BY DEF WriteSleep, TypesExact, QueueTypes
    <2> QED
      BY <2>1, SleepOnTypes DEF WriteSleep, TypesExact
  <1>3. StreamStep /\ Valid(p')
    BY SameStream DEF WriteSleep, callVars
  <1>4. SignalTypes'
    BY DEF TypesExact, SignalTypes, sigVars
  <1> QED
    BY <1>1, <1>2, <1>3, <1>4 DEF Kept, TypesExact

LEMMA WriteKept ==
    ASSUME TypesExact, CallsExact, NEW t \in Tasks, WriteLock(t) \/ WriteAgain(t)
    PROVE  Kept
  <1>1. pc[t] \in Writing /\ pc[t] # "r_done" /\ UNCHANGED <<sigVars, got>> /\ left[t] \in Nat /\ Valid(p)
    BY DEF WriteLock, WriteAgain, Writing, TypesExact, LocalTypes
  <1>2. CASE Return(t) /\ UNCHANGED <<p, queueVars, misled>>
    BY <1>1, <1>2, ReturnKept
  <1>3. ASSUME NEW r \in Grown(p, left[t]) \cup {p},
               \/ r.count < r.buf_size /\ WriteBytes(t, r)
               \/ WriteSleep(t, r)
        PROVE  Kept
    <2>1. Valid(r) /\ Contents(r) = Contents(p)
      BY <1>1, GrownProperties
    <2> QED
      BY <1>1, <1>3, <2>1, WriteBytesKept, WriteSleepKept
  <1> QED
    BY <1>2, <1>3 DEF WriteLock, WriteAgain

LEMMA ReadKept ==
    ASSUME TypesExact, CallsExact, NEW t \in Tasks, ReadLock(t)
    PROVE  Kept
  <1>1. pc[t] = "r_lock" /\ UNCHANGED <<sigVars, misled>> /\ got[t] = <<>> /\ pc[t] \notin Writing
    BY DEF ReadLock, CallsExact, Writing
  <1>2. CASE ReadNone(t)
    BY <1>1, <1>2, ReturnKept DEF ReadNone
  <1>3. SignalTypes'
    BY <1>1 DEF TypesExact, SignalTypes, sigVars
  <1>4. CASE ReadSleep(t)
    <2>1. LocalTypes' /\ CallsExact'
      <3>1. pc' = [pc EXCEPT ![t] = "r_sleep"] /\ UNCHANGED <<data, left, nonblock, got>>
        BY <1>4 DEF ReadSleep, callVars
      <3>2. nonblock' \in [Tasks -> BOOLEAN]
        BY <3>1 DEF TypesExact, LocalTypes
      <3> QED
        BY <1>1, <3>1, <3>2, GotoLocals DEF TypesExact, Writing, Reading
    <2>2. QueueTypes'
      <3>1. misled' \in SUBSET Tasks
        BY <1>1 DEF TypesExact, QueueTypes
      <3> QED
        BY <1>4, <3>1, SleepOnTypes DEF ReadSleep, TypesExact
    <2>3. StreamStep /\ Valid(p')
      BY <1>4, SameStream DEF ReadSleep, callVars, TypesExact
    <2> QED
      BY <1>3, <2>1, <2>2, <2>3 DEF Kept, TypesExact
  <1>5. CASE ReadBytes(t)
    <2>1. PICK n \in 1 .. Len(Contents(p)) :
              /\ Valid(p')
              /\ Contents(p') = SubSeq(Contents(p), n + 1, Len(Contents(p)))
              /\ got' = [got EXCEPT ![t] = SubSeq(Contents(p), 1, n)]
              /\ SubSeq(Contents(p), 1, n) \in Seq(Byte)
      BY <1>5, ReadBytesEffect
    <2>2. pc' = [pc EXCEPT ![t] = "r_done"] /\ UNCHANGED <<data, left, nonblock>>
      BY <1>5 DEF ReadBytes, callVars
    <2>3. StreamStep
      BY <1>1, <2>1, <2>2, GetStream
    <2>4. QueueTypes'
      BY <1>1, <1>5, WakeAllTypes DEF ReadBytes, TypesExact
    <2>5. LocalTypes'
      <3>1. pc' \in [Tasks -> {"out"} \cup Writing \cup Reading]
        BY <2>2 DEF TypesExact, LocalTypes, Reading
      <3>2. got' \in [Tasks -> Seq(Byte)]
        BY <2>1 DEF TypesExact, LocalTypes
      <3> QED
        BY <2>2, <3>1, <3>2 DEF TypesExact, LocalTypes
    <2>6. ASSUME NEW u \in Tasks
          PROVE  /\ left'[u] <= Len(data'[u])
                 /\ pc'[u] \in Writing => left'[u] > 0
                 /\ pc'[u] \notin Writing => data'[u] = <<>>
                 /\ pc'[u] # "r_done" => got'[u] = <<>>
      <3>1. data'[u] = data[u] /\ left'[u] = left[u]
        BY <2>2
      <3>2. CASE u = t
        <4>1. pc'[u] = "r_done"
          BY <2>2, <3>2 DEF TypesExact, LocalTypes
        <4> QED
          BY <1>1, <3>1, <3>2, <4>1 DEF CallsExact, Writing
      <3>3. CASE u # t
        <4>1. pc'[u] = pc[u] /\ got'[u] = got[u]
          BY <2>1, <2>2, <3>3 DEF TypesExact, LocalTypes
        <4> QED
          BY <3>1, <4>1 DEF CallsExact
      <3> QED
        BY <3>2, <3>3
    <2>7. CallsExact'
      BY <2>6 DEF CallsExact
    <2> QED
      BY <1>3, <2>1, <2>3, <2>4, <2>5, <2>7 DEF Kept, TypesExact
  <1> QED
    BY <1>2, <1>4, <1>5 DEF ReadLock

(* The calls. *)
LEMMA CallKept ==
    ASSUME TypesExact, CallsExact, NEW t \in Tasks, WriteCall(t) \/ ReadCall(t)
    PROVE  Kept
  <1>1. /\ pc[t] = "out" /\ UNCHANGED <<p, queueVars, sigVars, got, misled>>
        /\ \E b \in BOOLEAN : nonblock' = [nonblock EXCEPT ![t] = b]
    BY DEF WriteCall, ReadCall, Goto
  <1>2. QueueTypes' /\ SignalTypes' /\ Valid(p)'
    BY <1>1 DEF TypesExact, QueueTypes, SignalTypes, queueVars, sigVars
  <1>3. nonblock' \in [Tasks -> BOOLEAN]
    BY <1>1 DEF TypesExact, LocalTypes
  <1>4. data[t] = <<>> /\ pc[t] \notin Writing
    BY <1>1 DEF CallsExact, Writing
  <1>5. CASE ReadCall(t)
    <2>1. pc' = [pc EXCEPT ![t] = "r_lock"] /\ UNCHANGED <<data, left, got>>
      BY <1>5 DEF ReadCall, Goto
    <2>2. LocalTypes' /\ CallsExact'
      BY <1>1, <1>3, <2>1, GotoLocals DEF TypesExact, Writing, Reading
    <2>3. StreamStep
      BY <1>1, <2>1, SameStream
    <2> QED
      BY <1>2, <2>2, <2>3 DEF Kept, TypesExact
  <1>6. CASE WriteCall(t)
    <2>1. PICK s \in Writes : /\ data' = [data EXCEPT ![t] = s]
                              /\ left' = [left EXCEPT ![t] = Lesser(Len(s), WorkSize)]
      BY <1>6 DEF WriteCall
    <2>2. s \in Seq(Byte) /\ Len(s) \in Nat \ {0}
      BY <2>1, WritesAssumption, EmptySeq
    <2> DEFINE k == Lesser(Len(s), WorkSize)
    <2>3. k \in Nat /\ k > 0 /\ k <= Len(s)
      BY <2>2, BoundsAssumption, SMT DEF Lesser
    <2> HIDE DEF k
    <2>4. pc' = [pc EXCEPT ![t] = "w_lock"] /\ left' = [left EXCEPT ![t] = k] /\ UNCHANGED got
      BY <1>6, <2>1 DEF WriteCall, Goto, k
    <2>5. LocalTypes'
      <3>1. data' \in [Tasks -> Seq(Byte)]
        BY <2>1, <2>2 DEF TypesExact, LocalTypes
      <3>2. left' \in [Tasks -> Nat]
        BY <2>3, <2>4 DEF TypesExact, LocalTypes
      <3>3. pc' \in [Tasks -> {"out"} \cup Writing \cup Reading]
        BY <2>4 DEF TypesExact, LocalTypes, Writing
      <3> QED
        BY <1>3, <2>4, <3>1, <3>2, <3>3 DEF TypesExact, LocalTypes
    <2>6. ASSUME NEW u \in Tasks
          PROVE  /\ left'[u] <= Len(data'[u])
                 /\ pc'[u] \in Writing => left'[u] > 0
                 /\ pc'[u] \notin Writing => data'[u] = <<>>
                 /\ pc'[u] # "r_done" => got'[u] = <<>>
      <3>1. CASE u = t
        <4>1. pc'[u] = "w_lock" /\ data'[u] = s /\ left'[u] = k /\ got'[u] = got[t]
          BY <2>1, <2>4, <3>1 DEF TypesExact, LocalTypes
        <4>2. got[t] = <<>>
          BY <1>1 DEF CallsExact
        <4> QED
          BY <2>3, <4>1, <4>2 DEF Writing
      <3>2. CASE u # t
        <4>1. pc'[u] = pc[u] /\ data'[u] = data[u] /\ left'[u] = left[u] /\ got'[u] = got[u]
          BY <2>1, <2>4, <3>2 DEF TypesExact, LocalTypes
        <4> QED
          BY <4>1 DEF CallsExact
      <3> QED
        BY <3>1, <3>2
    <2>7. CallsExact'
      BY <2>6 DEF CallsExact
    <2>8. StreamStep
      BY <1>1, <1>4, <2>1, OfferStream DEF TypesExact
    <2> QED
      BY <1>2, <2>5, <2>7, <2>8 DEF Kept, TypesExact
  <1> QED
    BY <1>5, <1>6

(* The steps between the sections of a call. *)
LEMMA BetweenKept ==
    ASSUME TypesExact, CallsExact, NEW t \in Tasks, NEW from, NEW to,
           \/ from \in Writing /\ to \in Writing
           \/ from \in Reading \ {"r_done"} /\ to \in Reading,
           Awake(t, from, to) \/ Test(t, from, to)
    PROVE  Kept
  <1>1. /\ UNCHANGED <<p, sigVars, got>> /\ pc[t] = from /\ pc[t] # "r_done"
        /\ pc[t] \in Writing <=> to \in Writing
        /\ to \in {"out"} \cup Writing \cup Reading
    BY DEF Awake, Test, Goto, Writing, Reading
  <1>2. CASE Test(t, from, to) /\ pending[t]
    BY <1>1, <1>2, ReturnKept DEF Test
  <1>3. SignalTypes' /\ Valid(p)'
    BY <1>1 DEF TypesExact, SignalTypes, sigVars
  <1>4. CASE Awake(t, from, to) \/ (Test(t, from, to) /\ ~pending[t])
    <2>1. pc' = [pc EXCEPT ![t] = to] /\ UNCHANGED <<data, left, nonblock, got>>
      BY <1>1, <1>4 DEF Awake, Test, Goto, callVars
    <2>2. nonblock' \in [Tasks -> BOOLEAN]
      BY <2>1 DEF TypesExact, LocalTypes
    <2>3. LocalTypes' /\ CallsExact'
      BY <1>1, <2>1, <2>2, GotoLocals DEF TypesExact
    <2>4. QueueTypes'
      BY <1>4 DEF Awake, Test, TypesExact, QueueTypes, queueVars
    <2>5. StreamStep
      BY <1>1, <2>1, SameStream
    <2> QED
      BY <1>3, <2>3, <2>4, <2>5 DEF Kept, TypesExact
  <1> QED
    BY <1>2, <1>4

LEMMA ReadReturnKept ==
    ASSUME TypesExact, CallsExact, NEW t \in Tasks, ReadReturn(t)
    PROVE  Kept
  <1>1. pc[t] = "r_done" /\ Return(t) /\ got' = [got EXCEPT ![t] = <<>>]
        /\ UNCHANGED <<p, queueVars, sigVars, misled>>
    BY DEF ReadReturn
  <1>2. LocalTypes' /\ CallsExact'
    BY <1>1, ReturnLocals DEF TypesExact
  <1>3. QueueTypes' /\ SignalTypes' /\ Valid(p)'
    BY <1>1 DEF TypesExact, QueueTypes, SignalTypes, queueVars, sigVars
  <1>4. data' = data
    <2>1. data[t] = <<>> /\ data' = [data EXCEPT ![t] = <<>>]
      BY <1>1 DEF CallsExact, Writing, Return
    <2> QED
      BY <2>1 DEF TypesExact, LocalTypes
  <1>5. StreamStep
    BY <1>1, <1>4, TakeStream
  <1> QED
    BY <1>2, <1>3, <1>5 DEF Kept, TypesExact

(* References and signals leave the calls alone. *)
LEMMA OtherKept ==
    ASSUME TypesExact, CallsExact, NEW t \in Tasks,
           \/ Retain(t) \/ Release(t)
           \/ SignalSet(t) \/ SignalTest(t) \/ SignalWake(t) \/ SignalTaken(t)
    PROVE  Kept
  <1>1. UNCHANGED <<pc, data, left, nonblock, got, misled>>
    BY DEF Retain, Release, SignalSet, SignalTest, SignalWake, SignalTaken, callVars
  <1>2. LocalTypes' /\ CallsExact'
    BY <1>1, SameLocals DEF TypesExact
  <1>3. QueueTypes'
    <2>1. CASE UNCHANGED queueVars
      BY <1>1, <2>1 DEF TypesExact, QueueTypes, queueVars
    <2>2. CASE \E R, W : WakeAll(R, W)
      BY <1>1, <2>2, WakeAllTypes DEF TypesExact
    <2> QED
      BY <2>1, <2>2 DEF Retain, Release, SignalSet, SignalTest, SignalWake, SignalTaken
  <1>4. SignalTypes'
    <2>1. CASE Retain(t) \/ Release(t)
      BY <2>1 DEF Retain, Release, TypesExact, SignalTypes, sigVars
    <2>2. CASE SignalSet(t)
      <3>1. pending' \in [Tasks -> BOOLEAN]
        BY <2>2 DEF SignalSet, TypesExact, SignalTypes
      <3> QED
        BY <2>2, <3>1 DEF SignalSet, TypesExact, SignalTypes
    <2>3. CASE SignalTest(t)
      BY <2>3 DEF SignalTest, TypesExact, SignalTypes
    <2>4. CASE SignalWake(t)
      BY <2>4 DEF SignalWake, TypesExact, SignalTypes
    <2>5. CASE SignalTaken(t)
      BY <2>5 DEF SignalTaken, TypesExact, SignalTypes
    <2> QED
      BY <2>1, <2>2, <2>3, <2>4, <2>5
  <1>5. p' = p \/ p' = EmptyRing
    BY DEF Retain, Release, SignalSet, SignalTest, SignalWake, SignalTaken
  <1>6. StreamStep /\ Valid(p')
    BY <1>1, <1>5, SameStream, DropStream, EmptyRingProperties DEF TypesExact
  <1> QED
    BY <1>2, <1>3, <1>4, <1>6 DEF Kept, TypesExact

LEMMA StepKept ==
    ASSUME TypesExact, CallsExact, [Next]_vars
    PROVE  Kept
  <1>1. ASSUME NEW t \in Tasks, WriteCall(t) \/ ReadCall(t)
        PROVE  Kept
    BY <1>1, CallKept
  <1>2. ASSUME NEW t \in Tasks, WriteStep(t) PROVE Kept
    <2>1. CASE WriteLock(t) \/ WriteAgain(t)
      BY <2>1, WriteKept
    <2>2. CASE Awake(t, "w_sleep", "w_test")
      BY <2>2, BetweenKept DEF Writing
    <2>3. CASE Test(t, "w_test", "w_again")
      BY <2>3, BetweenKept DEF Writing
    <2> QED
      BY <1>2, <2>1, <2>2, <2>3 DEF WriteStep
  <1>3. ASSUME NEW t \in Tasks, ReadStep(t) PROVE Kept
    <2>1. CASE ReadLock(t)
      BY <2>1, ReadKept
    <2>2. CASE Awake(t, "r_sleep", "r_test")
      BY <2>2, BetweenKept DEF Reading
    <2>3. CASE Test(t, "r_test", "r_lock")
      BY <2>3, BetweenKept DEF Reading
    <2>4. CASE ReadReturn(t)
      BY <2>4, ReadReturnKept
    <2> QED
      BY <1>3, <2>1, <2>2, <2>3, <2>4 DEF ReadStep
  <1>4. ASSUME NEW t \in Tasks, Retain(t) \/ Release(t) PROVE Kept
    BY <1>4, OtherKept
  <1>5. ASSUME NEW t \in Signalled, SignalSet(t) \/ SignalTest(t) \/ SignalWake(t) \/ SignalTaken(t)
        PROVE  Kept
    BY <1>5, SignalledAssumption, OtherKept
  <1>6. CASE UNCHANGED vars
    <2>1. UNCHANGED <<p, read_waitq, write_waitq, tstate, misled>> /\ UNCHANGED <<pending, sender>>
          /\ UNCHANGED <<pc, data, left, nonblock, got>>
      BY <1>6 DEF vars, queueVars, sigVars, callVars
    <2>2. QueueTypes' /\ SignalTypes' /\ Valid(p)'
      BY <2>1 DEF TypesExact, QueueTypes, SignalTypes
    <2>3. LocalTypes' /\ CallsExact'
      BY <2>1, SameLocals DEF TypesExact
    <2>4. StreamStep
      BY <2>1, SameStream
    <2> QED
      BY <2>2, <2>3, <2>4 DEF Kept, TypesExact
  <1> QED
    BY <1>1, <1>2, <1>3, <1>4, <1>5, <1>6 DEF Next

LEMMA InitKept ==
    ASSUME Init
    PROVE  TypesExact /\ CallsExact /\ Stream!Init
  <1>1. <<>> \in Seq(Byte) /\ Len(<<>>) = 0
    BY EmptySeq
  <1>2. Valid(p) /\ Contents(p) = <<>>
    BY EmptyRingProperties DEF Init
  <1>3. QueueTypes /\ SignalTypes
    BY DEF Init, QueueTypes, SignalTypes
  <1>4. LocalTypes
    BY <1>1 DEF Init, LocalTypes
  <1>5. CallsExact
    BY <1>1, SMT DEF Init, CallsExact, Writing
  <1>6. Stream!Init
    BY <1>2 DEF Init, Stream!Init
  <1> QED
    BY <1>2, <1>3, <1>4, <1>5, <1>6 DEF TypesExact

(* A pipe is a stream of bytes, for every number of tasks, every size of a *)
(* write and every outcome of the allocations: sys_write, sys_read and the *)
(* resizing between them neither lose, nor repeat, nor reorder a byte.     *)
THEOREM PipeIsStream == Spec => IsStream
  <1>1. Init => TypesExact /\ CallsExact /\ Stream!Init
    BY InitKept
  <1>2. TypesExact /\ CallsExact /\ [Next]_vars =>
           TypesExact' /\ CallsExact' /\ [Stream!Next]_(Stream!vars)
    BY StepKept DEF Kept, StreamStep
  <1> QED
    BY <1>1, <1>2, PTL DEF Spec, IsStream, Stream!Spec

-----------------------------------------------------------------------------
(* The references: a call in progress has the descriptor it came through. *)
RefsExact ==
    /\ readers \in Nat
    /\ writers \in Nat
    /\ open \in [Tasks -> SUBSET {"r", "w"}]
    /\ ReferencesExact
    /\ \A t \in Tasks : /\ pc[t] \in Writing => "w" \in open[t]
                        /\ pc[t] \in Reading => "r" \in open[t]

(* The tasks that have a descriptor for the end e. *)
Holders(e) == {t \in Tasks : e \in open[t]}

LEMMA HoldersFinite ==
    ASSUME NEW e
    PROVE  IsFiniteSet(Holders(e)) /\ Cardinality(Holders(e)) \in Nat
  <1>1. IsFiniteSet(Holders(e))
    BY TasksAssumption, FS_Subset DEF Holders
  <1> QED
    BY <1>1, FS_CardinalityType

LEMMA HolderCounts ==
    ASSUME NEW e, NEW t \in Tasks, e \in open[t]
    PROVE  Cardinality(Holders(e)) > 0
  <1>1. Holders(e) # {}
    BY DEF Holders
  <1> QED
    BY <1>1, HoldersFinite, FS_EmptySet, SMT

LEMMA RetainRefs ==
    ASSUME LocalTypes, RefsExact, NEW t \in Tasks, Retain(t)
    PROVE  RefsExact' /\ readers' >= readers /\ writers' >= writers /\ readers' + writers' > 0
  <1>1. PICK e \in open[t], u \in Tasks :
           /\ pc[u] = "out"
           /\ e \notin open[u]
           /\ open' = [open EXCEPT ![u] = @ \cup {e}]
           /\ readers' = readers + Count(e = "r")
           /\ writers' = writers + Count(e = "w")
    BY DEF Retain
  <1>2. e \in {"r", "w"} /\ open' \in [Tasks -> SUBSET {"r", "w"}] /\ UNCHANGED pc
    BY <1>1, SMT DEF RefsExact, Retain
  <1>3. open'[u] = open[u] \cup {e} /\ \A v \in Tasks \ {u} : open'[v] = open[v]
    BY <1>1 DEF RefsExact
  <1> DEFINE H(d) == {v \in Tasks : d \in open'[v]}
  <1>4. H(e) = Holders(e) \cup {u} /\ u \notin Holders(e)
    BY <1>1, <1>3 DEF Holders
  <1>5. Cardinality(H(e)) = Cardinality(Holders(e)) + 1
    BY <1>4, HoldersFinite, FS_AddElement
  <1>6. \A d \in {"r", "w"} \ {e} : H(d) = Holders(d)
    BY <1>3 DEF Holders
  <1> HIDE DEF H
  <1>7. readers = Cardinality(Holders("r")) /\ writers = Cardinality(Holders("w"))
    BY DEF RefsExact, ReferencesExact, Holders
  <1>8. /\ readers' = Cardinality(H("r"))
        /\ writers' = Cardinality(H("w"))
        /\ readers' \in Nat /\ writers' \in Nat /\ readers' >= readers /\ writers' >= writers
        /\ readers' + writers' > 0
    <2>0. readers \in Nat /\ writers \in Nat
      BY DEF RefsExact
    <2>1. CASE e = "r"
      <3>1. readers' = readers + 1 /\ writers' = writers + 0
        BY <1>1, <2>1 DEF Count
      <3>2. Cardinality(H("r")) = Cardinality(Holders("r")) + 1
        BY <1>5, <2>1
      <3>3. H("w") = Holders("w")
        BY <1>6, <2>1
      <3> QED
        BY <1>7, <2>0, <3>1, <3>2, <3>3, SMT
    <2>2. CASE e = "w"
      <3>1. readers' = readers + 0 /\ writers' = writers + 1
        BY <1>1, <2>2 DEF Count
      <3>2. Cardinality(H("w")) = Cardinality(Holders("w")) + 1
        BY <1>5, <2>2
      <3>3. H("r") = Holders("r")
        BY <1>6, <2>2
      <3> QED
        BY <1>7, <2>0, <3>1, <3>2, <3>3, SMT
    <2> QED
      BY <1>2, <2>1, <2>2
  <1>9. \A v \in Tasks : /\ pc'[v] \in Writing => "w" \in open'[v]
                         /\ pc'[v] \in Reading => "r" \in open'[v]
    BY <1>2, <1>3 DEF RefsExact
  <1> QED
    BY <1>2, <1>8, <1>9 DEF RefsExact, ReferencesExact, H

LEMMA ReleaseRefs ==
    ASSUME LocalTypes, RefsExact, NEW t \in Tasks, Release(t)
    PROVE  RefsExact'
  <1>1. PICK e \in open[t] :
           /\ open' = [open EXCEPT ![t] = @ \ {e}]
           /\ readers' = readers - Count(e = "r")
           /\ writers' = writers - Count(e = "w")
    BY DEF Release
  <1>2. e \in {"r", "w"} /\ open' \in [Tasks -> SUBSET {"r", "w"}] /\ UNCHANGED pc /\ pc[t] = "out"
    BY <1>1 DEF RefsExact, Release
  <1>3. open'[t] = open[t] \ {e} /\ \A v \in Tasks \ {t} : open'[v] = open[v]
    BY <1>1 DEF RefsExact
  <1> DEFINE H(d) == {v \in Tasks : d \in open'[v]}
  <1>4. H(e) = Holders(e) \ {t} /\ t \in Holders(e)
    BY <1>1, <1>3 DEF Holders
  <1>5. /\ Cardinality(H(e)) = Cardinality(Holders(e)) - 1
        /\ Cardinality(Holders(e)) > 0
    BY <1>1, <1>4, HoldersFinite, HolderCounts, FS_RemoveElement
  <1>6. \A d \in {"r", "w"} \ {e} : H(d) = Holders(d)
    BY <1>3 DEF Holders
  <1> HIDE DEF H
  <1>7. readers = Cardinality(Holders("r")) /\ writers = Cardinality(Holders("w"))
    BY DEF RefsExact, ReferencesExact, Holders
  <1>8. /\ readers' = Cardinality(H("r"))
        /\ writers' = Cardinality(H("w"))
        /\ readers' \in Nat /\ writers' \in Nat
    <2>0. readers \in Nat /\ writers \in Nat
      BY DEF RefsExact
    <2>1. CASE e = "r"
      <3>1. readers' = readers - 1 /\ writers' = writers - 0
        BY <1>1, <2>1 DEF Count
      <3>2. Cardinality(H("r")) = Cardinality(Holders("r")) - 1 /\ Cardinality(Holders("r")) > 0
        BY <1>5, <2>1
      <3>3. H("w") = Holders("w")
        BY <1>6, <2>1
      <3> QED
        BY <1>7, <2>0, <3>1, <3>2, <3>3, SMT
    <2>2. CASE e = "w"
      <3>1. readers' = readers - 0 /\ writers' = writers - 1
        BY <1>1, <2>2 DEF Count
      <3>2. Cardinality(H("w")) = Cardinality(Holders("w")) - 1 /\ Cardinality(Holders("w")) > 0
        BY <1>5, <2>2
      <3>3. H("r") = Holders("r")
        BY <1>6, <2>2
      <3> QED
        BY <1>7, <2>0, <3>1, <3>2, <3>3, SMT
    <2> QED
      BY <1>2, <2>1, <2>2
  <1>9. \A v \in Tasks : /\ pc'[v] \in Writing => "w" \in open'[v]
                         /\ pc'[v] \in Reading => "r" \in open'[v]
    BY <1>2, <1>3 DEF RefsExact, Writing, Reading
  <1> QED
    BY <1>2, <1>8, <1>9 DEF RefsExact, ReferencesExact, H

(* The other steps leave the references alone. *)
LEMMA SameRefs ==
    ASSUME LocalTypes, RefsExact, UNCHANGED refVars, NEW t \in Tasks, NEW to,
           pc' = [pc EXCEPT ![t] = to],
           to \in Writing => "w" \in open[t], to \in Reading => "r" \in open[t]
    PROVE  RefsExact'
  <1>1. UNCHANGED <<readers, writers, open>>
    BY DEF refVars
  <1>2. \A v \in Tasks : /\ pc'[v] \in Writing => "w" \in open'[v]
                         /\ pc'[v] \in Reading => "r" \in open'[v]
    BY <1>1 DEF RefsExact, LocalTypes
  <1> QED
    BY <1>1, <1>2 DEF RefsExact, ReferencesExact

LEMMA StepRefs ==
    ASSUME LocalTypes, RefsExact, [Next]_vars
    PROVE  RefsExact'
  <1>1. ASSUME UNCHANGED <<refVars, pc>> PROVE RefsExact'
    BY <1>1 DEF RefsExact, ReferencesExact, refVars
  <1>2. ASSUME NEW t \in Tasks, WriteCall(t) \/ WriteStep(t) PROVE RefsExact'
    <2>1. UNCHANGED refVars
      BY <1>2 DEF WriteCall, WriteStep, WriteLock, WriteAgain, Awake, Test
    <2>2. "w" \in open[t]
      <3>1. "w" \in open[t] \/ pc[t] \in Writing
        BY <1>2 DEF WriteCall, WriteStep, WriteLock, WriteAgain, Awake, Test, Goto, Writing
      <3> QED
        BY <3>1 DEF RefsExact
    <2>3. \E to \in {"out"} \cup Writing : pc' = [pc EXCEPT ![t] = to]
      BY <1>2 DEF WriteCall, WriteStep, WriteLock, WriteAgain, WriteBytes, WriteSleep, Return,
                  Awake, Test, Goto, Writing
    <2> QED
      BY <2>1, <2>2, <2>3, SameRefs DEF Writing, Reading
  <1>3. ASSUME NEW t \in Tasks, ReadCall(t) \/ ReadStep(t) PROVE RefsExact'
    <2>1. UNCHANGED refVars
      BY <1>3 DEF ReadCall, ReadStep, ReadLock, ReadReturn, Awake, Test
    <2>2. "r" \in open[t]
      <3>1. "r" \in open[t] \/ pc[t] \in Reading
        BY <1>3 DEF ReadCall, ReadStep, ReadLock, ReadReturn, Awake, Test, Goto, Reading
      <3> QED
        BY <3>1 DEF RefsExact
    <2>3. \E to \in {"out"} \cup Reading : pc' = [pc EXCEPT ![t] = to]
      BY <1>3 DEF ReadCall, ReadStep, ReadLock, ReadNone, ReadSleep, ReadBytes, ReadReturn, Return,
                  Awake, Test, Goto, Reading
    <2> QED
      BY <2>1, <2>2, <2>3, SameRefs DEF Writing, Reading
  <1>4. ASSUME NEW t \in Tasks, Retain(t) PROVE RefsExact'
    BY <1>4, RetainRefs
  <1>5. ASSUME NEW t \in Tasks, Release(t) PROVE RefsExact'
    BY <1>5, ReleaseRefs
  <1>6. ASSUME NEW t \in Signalled, SignalSet(t) \/ SignalTest(t) \/ SignalWake(t) \/ SignalTaken(t)
        PROVE  RefsExact'
    BY <1>1, <1>6 DEF SignalSet, SignalTest, SignalWake, SignalTaken
  <1>7. CASE UNCHANGED vars
    BY <1>1, <1>7 DEF vars
  <1> QED
    BY <1>2, <1>3, <1>4, <1>5, <1>6, <1>7 DEF Next

LEMMA InitRefs ==
    ASSUME Init
    PROVE  RefsExact
  <1>1. \A e \in {"r", "w"} : Holders(e) = {Creator}
    BY CreatorAssumption DEF Init, Holders
  <1>2. Cardinality({Creator}) = 1
    BY FS_Singleton
  <1>3. ReferencesExact
    BY <1>1, <1>2 DEF Init, ReferencesExact, Holders
  <1> QED
    BY <1>3 DEF Init, RefsExact, Writing, Reading

(* The part of RingExact about a pipe without descriptors: a call that     *)
(* changes the ring has one.                                               *)
Unused == readers = 0 /\ writers = 0 => p = EmptyRing

LEMMA StepUnused ==
    ASSUME LocalTypes, RefsExact, Unused, [Next]_vars
    PROVE  Unused'
  <1>1. ASSUME UNCHANGED <<refVars, p>> PROVE Unused'
    BY <1>1 DEF Unused, refVars
  <1>2. ASSUME readers > 0, UNCHANGED refVars PROVE Unused'
    BY <1>2, SMT DEF Unused, refVars
  <1>3. ASSUME NEW t \in Tasks, WriteStep(t) PROVE Unused'
    BY <1>1, <1>2, <1>3 DEF WriteStep, WriteLock, WriteAgain, Awake, Test
  <1>4. ASSUME NEW t \in Tasks, ReadStep(t) PROVE Unused'
    <2>1. UNCHANGED refVars /\ pc[t] \in Reading
      BY <1>4 DEF ReadStep, ReadLock, ReadReturn, Awake, Test, Goto, Reading
    <2>2. readers = Cardinality(Holders("r")) /\ "r" \in open[t]
      BY <2>1 DEF RefsExact, ReferencesExact, Holders
    <2>3. Cardinality(Holders("r")) > 0
      BY <2>2, HolderCounts
    <2>4. readers > 0
      BY <2>2, <2>3
    <2> QED
      BY <1>2, <2>1, <2>4
  <1>5. ASSUME NEW t \in Tasks, Retain(t) PROVE Unused'
    <2>1. readers' + writers' > 0
      BY <1>5, RetainRefs
    <2> QED
      BY <2>1, SMT DEF Unused
  <1>6. ASSUME NEW t \in Tasks, Release(t) PROVE Unused'
    BY <1>6 DEF Release, Unused
  <1>7. ASSUME NEW t \in Tasks, WriteCall(t) \/ ReadCall(t) PROVE Unused'
    BY <1>1, <1>7 DEF WriteCall, ReadCall
  <1>8. ASSUME NEW t \in Signalled, SignalSet(t) \/ SignalTest(t) \/ SignalWake(t) \/ SignalTaken(t)
        PROVE  Unused'
    BY <1>1, <1>8 DEF SignalSet, SignalTest, SignalWake, SignalTaken
  <1>9. CASE UNCHANGED vars
    BY <1>1, <1>9 DEF vars
  <1> QED
    BY <1>3, <1>4, <1>5, <1>6, <1>7, <1>8, <1>9 DEF Next

-----------------------------------------------------------------------------
(* A sleeping task is on the queue of the pipe, there is somebody who will *)
(* wake it, and a signal it has is being reported to it.                   *)
SleepsWell(t) ==
    tstate[t] = "BLOCKED" =>
        /\ \/ pc[t] = "r_sleep" /\ t \in read_waitq /\ p.count = 0 /\ writers > 0
           \/ /\ pc[t] = "w_sleep" /\ t \in write_waitq /\ readers > 0
              /\ p.count > 0 \/ t \in misled
        /\ pending[t] => sender[t] # "none"

SleepExact == \A t \in Tasks : SleepsWell(t)

(* A task that is not asleep in the pipe is not BLOCKED. *)
LEMMA NotBlocked ==
    ASSUME SleepExact, NEW t \in Tasks, pc[t] \notin {"r_sleep", "w_sleep"}
    PROVE  tstate[t] # "BLOCKED"
  BY DEF SleepExact, SleepsWell

LEMMA WriteBytesSleep ==
    ASSUME TypesExact, CallsExact, SleepExact, NEW t \in Tasks, pc[t] \in {"w_lock", "w_again"},
           NEW r, Valid(r), r.count < r.buf_size, WriteBytes(t, r),
           UNCHANGED <<refVars, sigVars>>
    PROVE  SleepExact'
  <1>1. p'.count > 0
    <2>1. PICK n \in 1 .. left[t] : p'.count = r.count + n
      BY WriteBytesEffect, SMT DEF Writing
    <2>2. r.count \in Nat /\ left[t] \in Nat
      BY DEF Valid, IsRing, TypesExact, LocalTypes
    <2> QED
      BY <2>1, <2>2, SMT
  <1>2. /\ write_waitq' = write_waitq \ {} /\ UNCHANGED misled
        /\ tstate' = [u \in Tasks |-> IF u \in read_waitq \cup {} /\ tstate[u] = "BLOCKED"
                                        THEN "READY" ELSE tstate[u]]
    BY DEF WriteBytes, WakeAll
  <1>3. \A u \in Tasks \ {t} : pc'[u] = pc[u]
    BY DEF WriteBytes, Return, TypesExact, LocalTypes
  <1>4. tstate[t] # "BLOCKED"
    BY NotBlocked
  <1>5. ASSUME NEW u \in Tasks, tstate'[u] = "BLOCKED" PROVE SleepsWell(u)'
    <2>1. tstate[u] = "BLOCKED" /\ u \notin read_waitq /\ u # t
      BY <1>2, <1>4, <1>5
    <2>2. /\ pc[u] = "w_sleep" /\ u \in write_waitq /\ readers > 0
          /\ pending[u] => sender[u] # "none"
      BY <2>1 DEF SleepExact, SleepsWell
    <2> QED
      BY <1>1, <1>2, <1>3, <2>1, <2>2 DEF SleepsWell, refVars, sigVars
  <1> QED
    BY <1>5 DEF SleepExact, SleepsWell

(* A step of t that neither wakes anybody nor changes the pipe. *)
LEMMA QuietSleep ==
    ASSUME TypesExact, SleepExact, NEW t \in Tasks, NEW to, pc' = [pc EXCEPT ![t] = to],
           tstate'[t] # "BLOCKED", \A u \in Tasks \ {t} : tstate'[u] = tstate[u],
           misled \ {t} \subseteq misled',
           UNCHANGED <<p, refVars, read_waitq, write_waitq, sigVars>>
    PROVE  SleepExact'
  <1>1. \A u \in Tasks \ {t} : pc'[u] = pc[u]
    BY DEF TypesExact, LocalTypes
  <1>2. UNCHANGED <<p, readers, writers, read_waitq, write_waitq, pending, sender>>
    BY DEF refVars, sigVars
  <1>3. ASSUME NEW u \in Tasks, tstate'[u] = "BLOCKED" PROVE SleepsWell(u)'
    <2>1. u # t /\ tstate[u] = "BLOCKED" /\ pc'[u] = pc[u] /\ (u \in misled => u \in misled')
      BY <1>1, <1>3
    <2> QED
      BY <1>2, <2>1 DEF SleepExact, SleepsWell
  <1> QED
    BY <1>3 DEF SleepExact, SleepsWell

LEMMA WriteSleepSleep ==
    ASSUME TypesExact, SleepExact, NEW t \in Tasks, NEW r, Valid(r), r.count = p.count,
           readers > 0, WriteSleep(t, r), UNCHANGED <<refVars, sigVars>>
    PROVE  SleepExact'
  <1>1. /\ p' = r /\ pc' = [pc EXCEPT ![t] = "w_sleep"] /\ SleepOn(t, {}, {t})
        /\ misled' = IF r.count = 0 THEN misled \cup {t} ELSE misled
        /\ UNCHANGED <<readers, writers, pending, sender>>
    BY DEF WriteSleep, refVars, sigVars
  <1>2. pc'[t] = "w_sleep" /\ \A u \in Tasks \ {t} : pc'[u] = pc[u]
    BY <1>1 DEF TypesExact, LocalTypes
  <1>3. /\ read_waitq \subseteq read_waitq' /\ write_waitq \subseteq write_waitq'
        /\ \A u \in Tasks \ {t} : tstate'[u] = tstate[u]
        /\ tstate'[t] = "BLOCKED" => ~pending[t] /\ t \in write_waitq'
    BY <1>1 DEF SleepOn, TypesExact, QueueTypes
  <1>4. r.count \in Nat
    BY DEF Valid, IsRing
  <1>5. ASSUME NEW u \in Tasks, tstate'[u] = "BLOCKED" PROVE SleepsWell(u)'
    <2>1. CASE u = t
      BY <1>1, <1>2, <1>3, <1>4, <1>5, <2>1, SMT DEF SleepsWell
    <2>2. CASE u # t
      <3>1. tstate[u] = "BLOCKED" /\ pc'[u] = pc[u] /\ (u \in misled => u \in misled')
            /\ (u \in read_waitq => u \in read_waitq') /\ (u \in write_waitq => u \in write_waitq')
        BY <1>1, <1>2, <1>3, <1>5, <2>2
      <3> QED
        BY <1>1, <3>1 DEF SleepExact, SleepsWell
    <2> QED
      BY <2>1, <2>2
  <1> QED
    BY <1>5 DEF SleepExact, SleepsWell

LEMMA ReadLockSleep ==
    ASSUME TypesExact, CallsExact, SleepExact, NEW t \in Tasks, ReadLock(t)
    PROVE  SleepExact'
  <1>1. pc[t] = "r_lock" /\ tstate[t] # "BLOCKED" /\ UNCHANGED <<readers, writers, pending, sender, misled>>
    BY NotBlocked DEF ReadLock, refVars, sigVars
  <1>2. UNCHANGED refVars /\ UNCHANGED sigVars
    BY DEF ReadLock
  <1>3. CASE ReadNone(t)
    BY <1>1, <1>2, <1>3, QuietSleep DEF ReadNone, Return, queueVars
  <1>4. CASE ReadSleep(t)
    <2>1. /\ pc' = [pc EXCEPT ![t] = "r_sleep"] /\ SleepOn(t, {t}, {})
          /\ p.count = 0 /\ writers > 0 /\ UNCHANGED p
      BY <1>4 DEF ReadSleep
    <2>2. pc'[t] = "r_sleep" /\ \A u \in Tasks \ {t} : pc'[u] = pc[u]
      BY <2>1 DEF TypesExact, LocalTypes
    <2>3. /\ read_waitq \subseteq read_waitq' /\ write_waitq \subseteq write_waitq'
          /\ \A u \in Tasks \ {t} : tstate'[u] = tstate[u]
          /\ tstate'[t] = "BLOCKED" => ~pending[t] /\ t \in read_waitq'
      BY <2>1 DEF SleepOn, TypesExact, QueueTypes
    <2>4. ASSUME NEW u \in Tasks, tstate'[u] = "BLOCKED" PROVE SleepsWell(u)'
      <3>1. CASE u = t
        BY <1>1, <2>1, <2>2, <2>3, <2>4, <3>1 DEF SleepsWell
      <3>2. CASE u # t
        <4>1. tstate[u] = "BLOCKED" /\ pc'[u] = pc[u]
              /\ (u \in read_waitq => u \in read_waitq') /\ (u \in write_waitq => u \in write_waitq')
          BY <2>2, <2>3, <2>4, <3>2
        <4> QED
          BY <1>1, <2>1, <4>1 DEF SleepExact, SleepsWell
      <3> QED
        BY <3>1, <3>2
    <2> QED
      BY <2>4 DEF SleepExact, SleepsWell
  <1>5. CASE ReadBytes(t)
    <2>1. p.count # 0
      BY <1>5, BoundsAssumption, SMT DEF ReadBytes, Lesser
    <2>2. tstate' = [u \in Tasks |-> IF u \in {} \cup write_waitq /\ tstate[u] = "BLOCKED"
                                       THEN "READY" ELSE tstate[u]]
      BY <1>5 DEF ReadBytes, WakeAll
    <2>3. ASSUME NEW u \in Tasks PROVE tstate'[u] # "BLOCKED"
      BY <2>1, <2>2 DEF SleepExact, SleepsWell
    <2> QED
      BY <2>3 DEF SleepExact, SleepsWell
  <1> QED
    BY <1>3, <1>4, <1>5 DEF ReadLock

LEMMA ReleaseSleep ==
    ASSUME TypesExact, RefsExact, SleepExact, NEW t \in Tasks, Release(t)
    PROVE  SleepExact'
  <1> DEFINE R == IF writers' = 0 THEN read_waitq ELSE {}
             W == IF readers' = 0 THEN write_waitq ELSE {}
  <1>1. /\ read_waitq' = read_waitq \ R /\ write_waitq' = write_waitq \ W
        /\ tstate' = [u \in Tasks |-> IF u \in R \cup W /\ tstate[u] = "BLOCKED"
                                        THEN "READY" ELSE tstate[u]]
        /\ p' = IF readers' = 0 /\ writers' = 0 THEN EmptyRing ELSE p
        /\ UNCHANGED <<pc, pending, sender, misled>>
    BY DEF Release, WakeAll, sigVars
  <1>2. readers' \in Nat /\ writers' \in Nat
    BY ReleaseRefs DEF TypesExact, RefsExact
  <1>3. ASSUME NEW u \in Tasks, tstate'[u] = "BLOCKED" PROVE SleepsWell(u)'
    <2>1. tstate[u] = "BLOCKED" /\ u \notin R /\ u \notin W
      BY <1>1, <1>3
    <2>2. CASE pc[u] = "r_sleep"
      <3>1. u \in read_waitq /\ p.count = 0 /\ (pending[u] => sender[u] # "none")
        BY <2>1, <2>2 DEF SleepExact, SleepsWell
      <3>2. writers' > 0
        BY <1>2, <2>1, <3>1, SMT
      <3> QED
        BY <1>1, <2>1, <2>2, <3>1, <3>2 DEF SleepsWell
    <2>3. CASE pc[u] # "r_sleep"
      <3>1. /\ pc[u] = "w_sleep" /\ u \in write_waitq /\ (p.count > 0 \/ u \in misled)
            /\ pending[u] => sender[u] # "none"
        BY <2>1, <2>3 DEF SleepExact, SleepsWell
      <3>2. readers' > 0
        BY <1>2, <2>1, <3>1, SMT
      <3> QED
        BY <1>1, <2>1, <3>1, <3>2 DEF SleepsWell
    <2> QED
      BY <2>2, <2>3
  <1> QED
    BY <1>3 DEF SleepExact, SleepsWell

LEMMA SignalSleep ==
    ASSUME TypesExact, SleepExact, NEW t \in Tasks,
           SignalSet(t) \/ SignalTest(t) \/ SignalWake(t) \/ SignalTaken(t)
    PROVE  SleepExact'
  <1>1. UNCHANGED <<p, readers, writers, pc, misled>>
    BY DEF SignalSet, SignalTest, SignalWake, SignalTaken, refVars
  <1>2. ASSUME UNCHANGED queueVars, \A u \in Tasks \ {t} : pending'[u] = pending[u] /\ sender'[u] = sender[u],
               tstate[t] = "BLOCKED" /\ pending'[t] => sender'[t] # "none"
        PROVE  SleepExact'
    BY <1>1, <1>2 DEF SleepExact, SleepsWell, queueVars
  <1>3. CASE SignalSet(t)
    BY <1>2, <1>3 DEF SignalSet, TypesExact, SignalTypes
  <1>4. CASE SignalTest(t)
    BY <1>2, <1>4 DEF SignalTest, TypesExact, SignalTypes
  <1>5. CASE SignalTaken(t)
    <2>1. tstate[t] # "BLOCKED"
      BY <1>5, NotBlocked DEF SignalTaken
    <2> QED
      BY <1>2, <1>5, <2>1 DEF SignalTaken, TypesExact, SignalTypes
  <1>6. CASE SignalWake(t) /\ tstate[t] # "BLOCKED"
    BY <1>2, <1>6 DEF SignalWake, TypesExact, SignalTypes
  <1>7. CASE SignalWake(t) /\ tstate[t] = "BLOCKED"
    <2>1. /\ read_waitq' = read_waitq \ (read_waitq \cap {t})
          /\ write_waitq' = write_waitq \ (write_waitq \cap {t})
          /\ tstate' = [u \in Tasks |->
                          IF u \in (read_waitq \cap {t}) \cup (write_waitq \cap {t}) /\ tstate[u] = "BLOCKED"
                            THEN "READY" ELSE tstate[u]]
          /\ sender' = [sender EXCEPT ![t] = "none"] /\ UNCHANGED pending
      BY <1>7 DEF SignalWake, WakeAll
    <2>2. t \in read_waitq \cup write_waitq
      BY <1>7 DEF SleepExact, SleepsWell
    <2>3. tstate'[t] # "BLOCKED"
      BY <2>1, <2>2
    <2>4. ASSUME NEW u \in Tasks \ {t} PROVE SleepsWell(u)'
      <3>1. /\ tstate'[u] = tstate[u] /\ sender'[u] = sender[u]
            /\ (u \in read_waitq => u \in read_waitq') /\ (u \in write_waitq => u \in write_waitq')
        BY <2>1 DEF TypesExact, SignalTypes
      <3> QED
        BY <1>1, <2>1, <3>1 DEF SleepExact, SleepsWell
    <2> QED
      BY <2>3, <2>4 DEF SleepExact, SleepsWell
  <1> QED
    BY <1>3, <1>4, <1>5, <1>6, <1>7

LEMMA StepSleep ==
    ASSUME TypesExact, CallsExact, RefsExact, SleepExact, [Next]_vars
    PROVE  SleepExact'
  <1>1. ASSUME NEW t \in Tasks, WriteCall(t) \/ ReadCall(t) PROVE SleepExact'
    <2>1. tstate[t] # "BLOCKED"
      BY <1>1, NotBlocked DEF WriteCall, ReadCall, Goto
    <2> QED
      BY <1>1, <2>1, QuietSleep DEF WriteCall, ReadCall, Goto, queueVars
  <1>2. ASSUME NEW t \in Tasks, WriteLock(t) \/ WriteAgain(t) PROVE SleepExact'
    <2>1. /\ pc[t] \in {"w_lock", "w_again"} /\ UNCHANGED <<refVars, sigVars>> /\ Valid(p) /\ left[t] \in Nat
          /\ tstate[t] # "BLOCKED"
      BY <1>2, NotBlocked DEF WriteLock, WriteAgain, TypesExact, LocalTypes
    <2>2. CASE Return(t) /\ UNCHANGED <<p, queueVars, misled>>
      BY <2>1, <2>2, QuietSleep DEF Return, queueVars
    <2>3. ASSUME NEW r \in Grown(p, left[t]) \cup {p}, readers > 0,
                 \/ r.count < r.buf_size /\ WriteBytes(t, r)
                 \/ WriteSleep(t, r)
          PROVE  SleepExact'
      <3>1. Valid(r) /\ r.count = p.count
        BY <2>1, GrownProperties
      <3> QED
        BY <2>1, <2>3, <3>1, WriteBytesSleep, WriteSleepSleep
    <2> QED
      BY <1>2, <2>2, <2>3 DEF WriteLock, WriteAgain
  <1>3. ASSUME NEW t \in Tasks, NEW from \in {"w_sleep", "r_sleep"}, NEW to, Awake(t, from, to)
        PROVE  SleepExact'
    <2>1. tstate'[t] # "BLOCKED" /\ \A u \in Tasks \ {t} : tstate'[u] = tstate[u]
      BY <1>3 DEF Awake, TypesExact, QueueTypes
    <2> QED
      BY <1>3, <2>1, QuietSleep DEF Awake, Goto
  <1>4. ASSUME NEW t \in Tasks, NEW from \in {"w_test", "r_test"}, NEW to, Test(t, from, to)
        PROVE  SleepExact'
    <2>1. tstate[t] # "BLOCKED"
      BY <1>4, NotBlocked DEF Test
    <2>2. pc' = [pc EXCEPT ![t] = "out"] \/ pc' = [pc EXCEPT ![t] = to]
      BY <1>4 DEF Test, Return
    <2> QED
      BY <1>4, <2>1, <2>2, QuietSleep DEF Test, queueVars
  <1>5. ASSUME NEW t \in Tasks, ReadReturn(t) PROVE SleepExact'
    <2>1. tstate[t] # "BLOCKED"
      BY <1>5, NotBlocked DEF ReadReturn
    <2> QED
      BY <1>5, <2>1, QuietSleep DEF ReadReturn, Return, queueVars
  <1>6. ASSUME NEW t \in Tasks, ReadLock(t) PROVE SleepExact'
    BY <1>6, ReadLockSleep
  <1>7. ASSUME NEW t \in Tasks, Retain(t) PROVE SleepExact'
    <2>1. readers' >= readers /\ writers' >= writers /\ readers' \in Nat /\ writers' \in Nat
          /\ readers \in Nat /\ writers \in Nat
      BY <1>7, RetainRefs DEF TypesExact, RefsExact
    <2>2. UNCHANGED <<p, read_waitq, write_waitq, tstate, pending, sender, pc, misled>>
      BY <1>7 DEF Retain, queueVars, sigVars
    <2> QED
      BY <2>1, <2>2, SMT DEF SleepExact, SleepsWell
  <1>8. ASSUME NEW t \in Tasks, Release(t) PROVE SleepExact'
    BY <1>8, ReleaseSleep
  <1>9. ASSUME NEW t \in Signalled, SignalSet(t) \/ SignalTest(t) \/ SignalWake(t) \/ SignalTaken(t)
        PROVE  SleepExact'
    BY <1>9, SignalledAssumption, SignalSleep
  <1>10. CASE UNCHANGED vars
    BY <1>10 DEF vars, refVars, queueVars, sigVars, SleepExact, SleepsWell
  <1> QED
    BY <1>1, <1>2, <1>3, <1>4, <1>5, <1>6, <1>7, <1>8, <1>9, <1>10 DEF Next, WriteStep, ReadStep

-----------------------------------------------------------------------------
(* The inductive invariant. *)
PipeInv == TypesExact /\ CallsExact /\ RefsExact /\ Unused /\ SleepExact

(* It holds of sys_read, sys_write, the references and the signals.  The   *)
(* sleeping tasks need all of it: who is woken depends on the references,  *)
(* and that a write leaves bytes on what is in kbuf.                       *)
THEOREM PipeInvariant == Spec => []PipeInv
  <1>1. Init => PipeInv
    <2>1. Init => Unused /\ SleepExact
      BY DEF Init, Unused, SleepExact, SleepsWell
    <2> QED
      BY <2>1, InitKept, InitRefs DEF PipeInv
  <1>2. PipeInv /\ [Next]_vars => PipeInv'
    <2> SUFFICES ASSUME PipeInv, [Next]_vars PROVE PipeInv'
      OBVIOUS
    <2>1. TypesExact /\ CallsExact /\ RefsExact /\ Unused /\ SleepExact /\ LocalTypes
      BY DEF PipeInv, TypesExact
    <2>2. TypesExact' /\ CallsExact'
      BY <2>1, StepKept DEF Kept
    <2>3. RefsExact' /\ Unused' /\ SleepExact'
      BY <2>1, StepRefs, StepUnused, StepSleep
    <2> QED
      BY <2>2, <2>3 DEF PipeInv
  <1> QED
    BY <1>1, <1>2, PTL DEF Spec

LEMMA InvariantImplies ==
    ASSUME PipeInv
    PROVE  /\ TypeOK /\ RingExact /\ ReferencesExact
           /\ ReaderSleepsOnEmpty /\ WriterSleepsOnBytes /\ NoSleepWithSignal
  <1>1. TypeOK
    BY DEF PipeInv, TypesExact, RefsExact, QueueTypes, SignalTypes, LocalTypes, Valid, TypeOK,
          Writing, Reading
  <1>2. RingExact /\ ReferencesExact
    BY DEF PipeInv, TypesExact, Valid, Unused, RingExact, RefsExact
  <1>3. ReaderSleepsOnEmpty /\ WriterSleepsOnBytes /\ NoSleepWithSignal
    BY DEF PipeInv, SleepExact, SleepsWell, ReaderSleepsOnEmpty, WriterSleepsOnBytes,
          NoSleepWithSignal
  <1> QED
    BY <1>1, <1>2, <1>3

(* Type correctness of sys_read, sys_write and the references of a pipe. *)
THEOREM PipeTypes == Spec => []TypeOK
  BY PipeInvariant, InvariantImplies, PTL

(* read_pos, write_pos and count agree however often the ring wraps, grows *)
(* and shrinks, and a pipe without a descriptor has no buffer.             *)
THEOREM PipeRingIsExact == Spec => []RingExact
  BY PipeInvariant, InvariantImplies, PTL

(* readers and writers count the descriptors of every number of tasks. *)
THEOREM PipeReferences == Spec => []ReferencesExact
  BY PipeInvariant, InvariantImplies, PTL

(* No wake-up of a reader of the pipe is lost: sys_read sleeps on an empty *)
(* pipe with a writer only.                                                *)
THEOREM PipeReadersWoken == Spec => []ReaderSleepsOnEmpty
  BY PipeInvariant, InvariantImplies, PTL

(* No wake-up of a writer of the pipe is lost, but for the one that found  *)
(* the buffer freed and took the pipe for full.                            *)
THEOREM PipeWritersWoken == Spec => []WriterSleepsOnBytes
  BY PipeInvariant, InvariantImplies, PTL

(* No signal to a task asleep in the pipe is lost between the test under   *)
(* sched_lock and the test of the state by deliver_signal_to_task.         *)
THEOREM PipeSignalsSeen == Spec => []NoSleepWithSignal
  BY PipeInvariant, InvariantImplies, PTL
==============================================================================
