---------------------------- MODULE ByteBufferProofs ---------------------------
(***************************************************************************)
(* Proofs about ByteBuffer for any buffers, bytes, sizes and word width:   *)
(* the indices of a buffer stay within its memory, only resize() takes the *)
(* write index out of the vector, until then append() finds its space,     *)
(* integers come out as they went in, and a buffer implements a queue of   *)
(* bytes that a resize() may cut.                                          *)
(*                                                                         *)
(* Each member function gets one lemma: applied to a well-formed buffer it *)
(* yields a well-formed buffer, and this is what becomes of its readable   *)
(* bytes, also when the write index is behind the end of the vector.  The  *)
(* theorems follow by going through the calls.                             *)
(***************************************************************************)
EXTENDS ByteBuffer, SequenceTheorems, WellFoundedInduction, TLAPS

\* One buffer with its indices and its vector within its memory.
WF(b) ==
  /\ b \in Buffer
  /\ m_resver_index <= b.rd /\ b.rd <= b.wt /\ b.wt <= Len(b.c) /\ b.size <= Len(b.c)

\* Its memory is within the bound if its vector is.
Fits(b) == Len(b.c) <= MaxStorage \/ b.size = Len(b.c)
-------------------------------------------------------------------------------
(* Vectors.                                                                *)

\* A function on 1 .. n is a sequence of length n.
LEMMA FunctionIsSeq ==
  ASSUME NEW S, NEW n \in Nat, NEW f \in [1 .. n -> S]
  PROVE  f \in Seq(S) /\ Len(f) = n /\ DOMAIN f = 1 .. n
<1>1. f \in Seq(S)
  BY SeqDef
<1>2. Len(f) \in Nat /\ DOMAIN f = 1 .. Len(f)
  BY <1>1, LenProperties
<1>3. DOMAIN f = 1 .. n
  OBVIOUS
<1>4. Len(f) = n
  BY <1>2, <1>3
<1> QED
  BY <1>1, <1>3, <1>4

\* What a well-formed buffer's parts are.
LEMMA Parts ==
  ASSUME NEW b, WF(b)
  PROVE  /\ b.c \in Seq(Byte) /\ Len(b.c) \in Nat /\ b.order \in Orders
         /\ b.rd \in Nat /\ b.wt \in Nat /\ b.size \in Nat
         /\ 8 <= b.rd /\ b.rd <= b.wt /\ b.wt <= Len(b.c) /\ b.size <= Len(b.c)
         /\ \A i \in 1 .. Len(b.c) : b.c[i] \in Byte
<1>1. b.c \in Seq(Byte)
  BY DEF WF, Buffer
<1> QED
  BY <1>1, LenProperties, ElementOfSeq DEF WF, Buffer, m_resver_index

\* Readable(b) by its length and its elements.
LEMMA ReadableElements ==
  ASSUME NEW b, WF(b)
  PROVE  /\ Readable(b) \in Seq(Byte)
         /\ Len(Readable(b)) = b.wt - b.rd
         /\ \A i \in 1 .. b.wt - b.rd : Readable(b)[i] = b.c[b.rd + i]
<1>1. /\ b.rd \in Nat /\ b.wt \in Nat /\ b.rd <= b.wt
      /\ \A i \in b.rd + 1 .. b.wt : b.c[i] \in Byte
  BY Parts
<1>2. /\ SubSeq(b.c, b.rd + 1, b.wt) \in Seq(Byte)
      /\ Len(SubSeq(b.c, b.rd + 1, b.wt)) =
           IF b.rd + 1 <= b.wt THEN b.wt - (b.rd + 1) + 1 ELSE 0
      /\ \A i \in 1 .. b.wt - (b.rd + 1) + 1 :
           SubSeq(b.c, b.rd + 1, b.wt)[i] = b.c[(b.rd + 1) + i - 1]
  <2> DEFINE m == b.rd + 1
             n == b.wt
             f == b.c
  <2>1. m \in Int /\ n \in Int /\ \A i \in m .. n : f[i] \in Byte
    BY <1>1
  <2> HIDE DEF m, n, f
  <2>2. /\ SubSeq(f, m, n) \in Seq(Byte)
        /\ Len(SubSeq(f, m, n)) = IF m <= n THEN n - m + 1 ELSE 0
        /\ \A i \in 1 .. n - m + 1 : SubSeq(f, m, n)[i] = f[m + i - 1]
    BY <2>1, SubSeqProperties
  <2> QED
    BY <2>2 DEF m, n, f
<1> QED
  BY <1>1, <1>2 DEF Readable

\* Two buffers with the same bytes between their indices.
LEMMA SameReadable ==
  ASSUME NEW b, WF(b), NEW s, WF(s),
         s.wt - s.rd = b.wt - b.rd,
         \A i \in 1 .. b.wt - b.rd : s.c[s.rd + i] = b.c[b.rd + i]
  PROVE  Readable(s) = Readable(b)
<1> DEFINE p == Readable(s)
           q == Readable(b)
<1>1. /\ p \in Seq(Byte) /\ q \in Seq(Byte) /\ Len(p) = Len(q)
      /\ \A i \in 1 .. Len(p) : p[i] = q[i]
  BY ReadableElements
<1> HIDE DEF p, q
<1>2. p = q
  BY <1>1, SeqEqual
<1> QED
  BY <1>2 DEF p, q

\* q is what may be left of the readable bytes of b: the bytes themselves, of which
\* some may be zero if the write index is behind the end of the vector.
KeepsOf(b, q) ==
  /\ q \in Seq(Byte) /\ Len(q) = b.wt - b.rd
  /\ Whole(b) => q = Readable(b)
  /\ \A i \in 1 .. b.wt - b.rd : q[i] = Readable(b)[i] \/ q[i] = Nul

\* The same bytes are kept bytes.
LEMMA SameIsKept ==
  ASSUME NEW b, WF(b), NEW s, Readable(s) = Readable(b)
  PROVE  KeepsOf(b, Readable(s))
BY ReadableElements DEF KeepsOf

\* A buffer whose bytes between the indices are those of b, or zero where b is not
\* whole.
LEMMA KeptReadable ==
  ASSUME NEW b, WF(b), NEW s, WF(s),
         s.wt - s.rd = b.wt - b.rd,
         \A i \in 1 .. b.wt - b.rd : \/ s.c[s.rd + i] = b.c[b.rd + i]
                                     \/ ~Whole(b) /\ s.c[s.rd + i] = Nul
  PROVE  KeepsOf(b, Readable(s))
<1>1. /\ Readable(s) \in Seq(Byte) /\ Len(Readable(s)) = b.wt - b.rd
      /\ \A i \in 1 .. b.wt - b.rd : Readable(s)[i] = s.c[s.rd + i]
  BY ReadableElements
<1>2. \A i \in 1 .. b.wt - b.rd : Readable(b)[i] = b.c[b.rd + i]
  BY ReadableElements
<1>3. Whole(b) => Readable(s) = Readable(b)
  BY SameReadable
<1> QED
  BY <1>1, <1>2, <1>3 DEF KeepsOf
-------------------------------------------------------------------------------
(* Member functions.                                                       *)

\* The sizes that make_space() compares do not wrap while the write index is inside
\* the vector.
LEMMA NoWrap ==
  ASSUME NEW b, WF(b), Whole(b), Len(b.c) <= MaxStorage, NEW n \in Nat
  PROVE  TooSmall(b, n) <=> b.rd - 8 + (b.size - b.wt) < n
<1>1. \A m \in Nat, a \in Nat : a < m => a % m = a
  OBVIOUS
<1> DEFINE u == b.size - b.wt
           v == b.rd - 8 + u
<1>2. /\ b.rd \in Nat /\ b.wt \in Nat /\ b.size \in Nat /\ Len(b.c) \in Nat
      /\ 8 <= b.rd /\ b.rd <= b.wt /\ b.wt <= b.size /\ b.size <= Len(b.c)
      /\ Len(b.c) <= MaxStorage
  BY Parts DEF Whole, storage
<1>3. MaxStorage \in Nat /\ SizeMod \in Nat /\ 2 * MaxStorage < SizeMod
  BY BufferAssumption
<1>4. u \in Nat /\ u < SizeMod
  BY <1>2, <1>3
<1>5. v \in Nat /\ v < SizeMod
  <2>1. v \in Nat /\ v <= b.size
    BY <1>2
  <2>2. b.size < SizeMod
    BY <1>2, <1>3
  <2> HIDE DEF v
  <2> QED
    BY <1>2, <1>3, <2>1, <2>2
<1> HIDE DEF u, v
<1>6. u % SizeMod = u /\ v % SizeMod = v
  BY <1>1, <1>3, <1>4, <1>5
<1>7. writeable_bytes(b) = u
  BY <1>6 DEF writeable_bytes, storage, u
<1>8. TooSmall(b, n) <=> v < n
  BY <1>6, <1>7 DEF TooSmall, discardable_bytes, m_resver_index, v
<1> QED
  BY <1>8 DEF u, v

\* A buffer with other memory, and one with other indices.
LEMMA WithLemma ==
  ASSUME NEW b, WF(b), NEW c \in Seq(Byte), NEW z \in Nat
  PROVE  /\ With(b, c, z) \in Buffer
         /\ With(b, c, z).c = c /\ With(b, c, z).size = z
         /\ With(b, c, z).rd = b.rd /\ With(b, c, z).wt = b.wt
BY Parts DEF Buffer, With

\* A buffer is well-formed when its indices are within its memory.
LEMMA AtLemma ==
  ASSUME NEW b \in Buffer, NEW r \in Nat, NEW w \in Nat,
         8 <= r, r <= w, w <= Len(b.c), b.size <= Len(b.c)
  PROVE  /\ WF(At(b, r, w))
         /\ At(b, r, w).c = b.c /\ At(b, r, w).size = b.size
         /\ At(b, r, w).rd = r /\ At(b, r, w).wt = w
<1>1. /\ At(b, r, w).c = b.c /\ At(b, r, w).size = b.size
      /\ At(b, r, w).rd = r /\ At(b, r, w).wt = w
  BY DEF At
<1>2. At(b, r, w) \in Buffer
  BY DEF At, Buffer
<1> QED
  BY <1>1, <1>2 DEF WF, m_resver_index

\* Dropping everything leaves an empty buffer in the same vector.
LEMMA DiscardAllLemma ==
  ASSUME NEW b, WF(b)
  PROVE  /\ WF(discard_all(b))
         /\ discard_all(b).c = b.c /\ discard_all(b).size = b.size /\ discard_all(b).wt = 8
         /\ Readable(discard_all(b)) = <<>>
<1> DEFINE s == At(b, 8, 8)
<1>1. discard_all(b) = s
  BY DEF discard_all, m_resver_index
<1>2. 8 \in Nat /\ 8 <= Len(b.c) /\ b \in Buffer /\ b.size <= Len(b.c)
  BY Parts DEF WF
<1>3. WF(s) /\ s.c = b.c /\ s.size = b.size /\ s.rd = 8 /\ s.wt = 8
  BY <1>2, AtLemma
<1> HIDE DEF s
<1>4. Readable(s) \in Seq(Byte) /\ Len(Readable(s)) = 0
  BY <1>3, ReadableElements
<1>5. Readable(s) = <<>>
  BY <1>4, EmptySeq
<1> QED
  BY <1>1, <1>3, <1>5

\* Moving the readable bytes down to m_resver_index keeps them.
LEMMA MovedDownLemma ==
  ASSUME NEW b, WF(b), NEW n \in Nat, NEW c, \A i \in 1 .. n : c[i] \in Byte,
         8 + (b.wt - b.rd) <= n, NEW z \in Nat, z <= n,
         NEW s, s = At(With(b, moved_down(b, c, n), z), m_resver_index,
                       m_resver_index + readable_bytes(b))
  PROVE  /\ WF(s) /\ Len(s.c) = n /\ s.size = z /\ s.wt = 8 + (b.wt - b.rd)
         /\ Readable(s) = Readable(b)
<1> DEFINE k == b.wt - b.rd
           d == moved_down(b, c, n)
<1>1. k \in Nat /\ 8 + k <= n /\ 8 + k <= Len(b.c)
  BY Parts
<1>2. d \in [1 .. n -> Byte]
  BY Parts DEF moved_down, m_resver_index, readable_bytes
<1>3. d \in Seq(Byte) /\ Len(d) = n
  BY <1>2, FunctionIsSeq
<1>4. s = At(With(b, d, z), 8, 8 + k)
  BY DEF m_resver_index, readable_bytes
<1>5. \A i \in 1 .. k : d[8 + i] = b.c[b.rd + i]
  BY <1>1, Parts DEF moved_down, m_resver_index, readable_bytes
<1>6. 8 \in Nat /\ 8 + k \in Nat /\ 8 <= 8 + k
  BY <1>1
<1> HIDE DEF d
<1> DEFINE t == With(b, d, z)
<1>7. t \in Buffer /\ t.c = d /\ t.size = z
  BY <1>3, WithLemma
<1> HIDE DEF t, k
<1>8. WF(s) /\ s.c = d /\ s.size = z /\ s.rd = 8 /\ s.wt = 8 + k
  <2>1. s = At(t, 8, 8 + k)
    BY <1>4 DEF t
  <2> QED
    BY <1>1, <1>3, <1>6, <1>7, <2>1, AtLemma
<1>9. \A i \in 1 .. b.wt - b.rd : s.c[s.rd + i] = b.c[b.rd + i]
  BY <1>5, <1>8 DEF k
<1>10. s.wt - s.rd = b.wt - b.rd
  BY <1>1, <1>8, Parts DEF k
<1> QED
  BY <1>3, <1>8, <1>9, <1>10, SameReadable DEF k

\* vector::resize keeps the bytes within the old size; those behind it become zero
\* as far as the new size reaches.
LEMMA VectorResizeLemma ==
  ASSUME NEW b, WF(b), NEW n \in Nat, NEW s, s = vector_resize(b, n)
  PROVE  /\ WF(s) /\ s.size = n /\ s.wt = b.wt
         /\ Len(s.c) = IF n > Len(b.c) THEN n ELSE Len(b.c)
         /\ KeepsOf(b, Readable(s))
<1> DEFINE m == IF n > Len(b.c) THEN n ELSE Len(b.c)
           d == [i \in 1 .. m |-> IF i > b.size /\ i <= n THEN Nul ELSE b.c[i]]
<1>1. m \in Nat /\ n <= m /\ Len(b.c) <= m
  BY Parts
<1>2. d \in [1 .. m -> Byte]
  <2>1. ASSUME NEW i \in 1 .. m, ~(i > b.size /\ i <= n) PROVE i \in 1 .. Len(b.c)
    BY <1>1, <2>1, Parts
  <2> QED
    BY <2>1, Parts, BufferAssumption
<1>3. d \in Seq(Byte) /\ Len(d) = m
  BY <1>1, <1>2, FunctionIsSeq
<1>4. s = With(b, d, n)
  BY DEF vector_resize, storage
<1>5. ASSUME NEW i \in 1 .. b.wt - b.rd
      PROVE  d[b.rd + i] = b.c[b.rd + i] \/ (~Whole(b) /\ d[b.rd + i] = Nul)
  <2>1. b.rd + i \in 1 .. m /\ b.rd + i <= b.wt
    BY <1>1, Parts
  <2>2. b.rd + i > b.size => ~Whole(b)
    BY <2>1, Parts DEF Whole, storage
  <2> QED
    BY <2>1, <2>2
<1> HIDE DEF d
<1>6. s \in Buffer /\ s.c = d /\ s.size = n /\ s.rd = b.rd /\ s.wt = b.wt
  BY <1>3, <1>4, WithLemma
<1> HIDE DEF m
<1>7. WF(s)
  BY <1>1, <1>3, <1>6, Parts DEF WF, m_resver_index
<1>8. KeepsOf(b, Readable(s))
  BY <1>5, <1>6, <1>7, KeptReadable
<1> QED
  BY <1>3, <1>6, <1>7, <1>8 DEF m

\* make_space() keeps the readable bytes and, if the buffer is whole, leaves room
\* behind them.
LEMMA MakeSpaceLemma ==
  ASSUME NEW b, WF(b), Len(b.c) <= MaxStorage, NEW n \in Nat,
         NEW s, s = make_space(b, n)
  PROVE  /\ WF(s) /\ KeepsOf(b, Readable(s))
         /\ Whole(b) => HasRoom(s, n) /\ Whole(s)
         /\ Fits(s)
         /\ ~TooSmall(b, n) => Len(s.c) = Len(b.c)
<1>0. /\ Len(b.c) \in Nat /\ \A i \in 1 .. Len(b.c) : b.c[i] \in Byte
      /\ 8 + (b.wt - b.rd) <= Len(b.c) /\ b.size <= Len(b.c)
      /\ b.wt \in Nat /\ b.rd \in Nat /\ b.size \in Nat /\ b.rd <= b.wt
      /\ n + b.wt \in Nat
  BY Parts
<1>2. CASE TooSmall(b, n)
  <2>1. s = vector_resize(b, n + b.wt)
    BY <1>2 DEF make_space
  <2>2. /\ WF(s) /\ s.size = n + b.wt /\ s.wt = b.wt /\ KeepsOf(b, Readable(s))
        /\ Len(s.c) = IF n + b.wt > Len(b.c) THEN n + b.wt ELSE Len(b.c)
    BY <1>0, <2>1, VectorResizeLemma
  <2>3. HasRoom(s, n) /\ Whole(s)
    BY <1>0, <2>2 DEF HasRoom, Whole, storage
  <2> QED
    BY <1>2, <2>2, <2>3 DEF Fits
<1>3. CASE ~TooSmall(b, n)
  <2>1. s = At(With(b, moved_down(b, b.c, Len(b.c)), b.size), m_resver_index,
               m_resver_index + readable_bytes(b))
    BY <1>3 DEF make_space, compact, storage
  <2>2. /\ WF(s) /\ Len(s.c) = Len(b.c) /\ s.size = b.size /\ s.wt = 8 + (b.wt - b.rd)
        /\ Readable(s) = Readable(b)
    <3> DEFINE m == Len(b.c)
               c == b.c
               z == b.size
    <3>1. /\ m \in Nat /\ (\A i \in 1 .. m : c[i] \in Byte) /\ 8 + (b.wt - b.rd) <= m
          /\ z \in Nat /\ z <= m
      BY <1>0
    <3>2. s = At(With(b, moved_down(b, c, m), z), m_resver_index,
                 m_resver_index + readable_bytes(b))
      BY <2>1
    <3> HIDE DEF m, c, z
    <3>3. /\ WF(s) /\ Len(s.c) = m /\ s.size = z /\ s.wt = 8 + (b.wt - b.rd)
          /\ Readable(s) = Readable(b)
      BY <3>1, <3>2, MovedDownLemma
    <3> QED
      BY <3>3 DEF m, z
  <2>3. Whole(b) => HasRoom(s, n) /\ Whole(s)
    <3> SUFFICES ASSUME Whole(b) PROVE HasRoom(s, n) /\ Whole(s)
      OBVIOUS
    <3>1. ~(b.rd - 8 + (b.size - b.wt) < n)
      BY <1>3, NoWrap
    <3> QED
      BY <1>0, <2>2, <3>1 DEF HasRoom, Whole, storage
  <2> QED
    BY <2>2, <2>3, SameIsKept DEF Fits
<1> QED
  BY <1>2, <1>3

\* Copying bytes to wt_ptr() and moving the index over them puts them behind the
\* readable ones.
LEMMA PutLemma ==
  ASSUME NEW b, WF(b), NEW e \in Seq(Byte), HasRoom(b, Len(e)),
         NEW s, s = has_written(copy_to_wt(b, e), Len(e))
  PROVE  /\ WF(s) /\ Len(s.c) = Len(b.c) /\ s.size = b.size /\ Whole(s)
         /\ Readable(s) = Readable(b) \o e
<1> DEFINE n == Len(b.c)
           k == Len(e)
           d == [i \in 1 .. n |-> IF i > b.wt /\ i <= b.wt + k THEN e[i - b.wt] ELSE b.c[i]]
           q == Readable(b)
<1>1. /\ n \in Nat /\ k \in Nat /\ \A i \in 1 .. k : e[i] \in Byte
      /\ b.rd \in Nat /\ b.wt \in Nat /\ 8 <= b.rd /\ b.rd <= b.wt /\ b.wt + k <= n
      /\ b.size \in Nat /\ b.size <= n /\ b.wt + k <= b.size
  BY Parts, LenProperties, ElementOfSeq DEF HasRoom, storage
<1>2. d \in [1 .. n -> Byte]
  BY <1>1, Parts
<1>3. d \in Seq(Byte) /\ Len(d) = n
  BY <1>1, <1>2, FunctionIsSeq
<1> DEFINE t == With(b, d, b.size)
<1>4. /\ s = At(t, b.rd, b.wt + k)
      /\ t \in Buffer /\ t.c = d /\ t.size = b.size /\ t.rd = b.rd /\ t.wt = b.wt
  <2>1. t \in Buffer /\ t.c = d /\ t.size = b.size /\ t.rd = b.rd /\ t.wt = b.wt
    <3> HIDE DEF d
    <3> QED BY <1>1, <1>3, WithLemma
  <2>2. copy_to_wt(b, e) = t
    BY DEF copy_to_wt, storage
  <2>3. s = At(t, t.rd, t.wt + k)
    BY <2>2 DEF has_written
  <2> QED BY <2>1, <2>3
<1>5. /\ \A i \in 1 .. b.wt - b.rd : d[b.rd + i] = b.c[b.rd + i]
      /\ \A i \in 1 .. k : d[b.wt + i] = e[i]
  BY <1>1, Parts, SMTT(30)
<1> HIDE DEF d, t
<1>6. b.wt + k \in Nat /\ b.rd <= b.wt + k
  BY <1>1
<1>7. WF(s) /\ s.c = d /\ s.size = b.size /\ s.rd = b.rd /\ s.wt = b.wt + k
  BY <1>1, <1>3, <1>4, <1>6, AtLemma
<1>14. Whole(s)
  BY <1>1, <1>7 DEF Whole, storage
<1>8. /\ q \in Seq(Byte) /\ Len(q) = b.wt - b.rd
      /\ \A i \in 1 .. b.wt - b.rd : q[i] = b.c[b.rd + i]
  BY ReadableElements
<1> DEFINE p == Readable(s)
<1>9. /\ p \in Seq(Byte) /\ Len(p) = b.wt + k - b.rd
      /\ \A i \in 1 .. b.wt + k - b.rd : p[i] = d[b.rd + i]
  <2>1. /\ p \in Seq(Byte) /\ Len(p) = s.wt - s.rd
        /\ \A i \in 1 .. s.wt - s.rd : p[i] = s.c[s.rd + i]
    BY <1>7, ReadableElements
  <2>2. s.wt - s.rd = b.wt + k - b.rd
    BY <1>1, <1>7
  <2>3. \A i \in 1 .. s.wt - s.rd : s.c[s.rd + i] = d[b.rd + i]
    BY <1>7
  <2> HIDE DEF p, k
  <2> QED
    BY <2>1, <2>2, <2>3
<1> HIDE DEF p, q
<1>10. /\ q \o e \in Seq(Byte) /\ Len(q \o e) = Len(q) + k
       /\ \A i \in 1 .. Len(q) + k : (q \o e)[i] = IF i <= Len(q) THEN q[i] ELSE e[i - Len(q)]
  BY <1>8, ConcatProperties
<1> HIDE DEF n, k
<1>11. Len(p) = Len(q \o e)
  BY <1>1, <1>8, <1>9, <1>10
<1>12. ASSUME NEW i \in 1 .. Len(p)
       PROVE  p[i] = (q \o e)[i]
  <2>1. i \in 1 .. b.wt + k - b.rd /\ p[i] = d[b.rd + i]
    BY <1>9
  <2>2. CASE i <= b.wt - b.rd
    <3>1. i \in 1 .. b.wt - b.rd /\ i \in 1 .. Len(q) + k /\ i <= Len(q)
      BY <1>1, <1>8, <2>1, <2>2
    <3>2. (q \o e)[i] = q[i]
      BY <1>10, <3>1
    <3>3. q[i] = b.c[b.rd + i] /\ d[b.rd + i] = b.c[b.rd + i]
      BY <1>5, <1>8, <3>1
    <3> QED
      BY <2>1, <3>2, <3>3
  <2>3. CASE ~(i <= b.wt - b.rd)
    <3> DEFINE j == i - (b.wt - b.rd)
    <3>1. j \in 1 .. k /\ b.wt + j = b.rd + i
      BY <1>1, <2>1, <2>3, SMTT(30)
    <3>2. (q \o e)[i] = e[j]
      <4>1. i \in 1 .. Len(q) + k /\ ~(i <= Len(q)) /\ i - Len(q) = j
        BY <1>1, <1>8, <2>1, <2>3, SMTT(30)
      <4> HIDE DEF j
      <4> QED
        BY <1>10, <4>1
    <3> HIDE DEF j
    <3>3. d[b.wt + j] = e[j]
      BY <1>5, <3>1
    <3> QED
      BY <2>1, <3>1, <3>2, <3>3
  <2> QED
    BY <2>2, <2>3
<1>13. p = q \o e
  BY <1>9, <1>10, <1>11, <1>12, SeqEqual
<1> QED
  BY <1>3, <1>7, <1>13, <1>14 DEF p, q, n

\* append() puts its bytes behind what make_space() keeps of the readable ones.
LEMMA AppendLemma ==
  ASSUME NEW b, WF(b), Len(b.c) <= MaxStorage, NEW e \in Seq(Byte),
         HasRoom(make_space(b, Len(e)), Len(e))
  PROVE  /\ WF(append(b, e)) /\ Whole(append(b, e)) /\ Fits(append(b, e))
         /\ Readable(append(b, e)) = Readable(make_space(b, Len(e))) \o e
         /\ KeepsOf(b, Readable(make_space(b, Len(e))))
<1> DEFINE s == make_space(b, Len(e))
<1>1. Len(e) \in Nat
  BY LenProperties
<1>2. WF(s) /\ HasRoom(s, Len(e)) /\ KeepsOf(b, Readable(s)) /\ Fits(s)
  BY <1>1, MakeSpaceLemma
<1>3. append(b, e) = has_written(copy_to_wt(s, e), Len(e))
  BY DEF append, ensure_write_space
<1> HIDE DEF s
<1>4. /\ WF(append(b, e)) /\ Whole(append(b, e)) /\ Fits(append(b, e))
      /\ Readable(append(b, e)) = Readable(s) \o e
  BY <1>2, <1>3, PutLemma DEF Fits
<1> QED
  BY <1>2, <1>4 DEF s

\* discard() removes bytes at the front.
LEMMA DiscardLemma ==
  ASSUME NEW b, WF(b), NEW n \in Nat, n <= b.wt - b.rd,
         NEW s, s = discard(b, n)
  PROVE  /\ WF(s) /\ s.c = b.c /\ (Whole(b) => Whole(s))
         /\ Readable(s) = SubSeq(Readable(b), n + 1, Len(Readable(b)))
<1> DEFINE q == Readable(b)
           p == Readable(s)
<1>1. /\ b.rd \in Nat /\ b.wt \in Nat /\ b.rd <= b.wt /\ b.wt <= Len(b.c) /\ 8 <= b.rd
      /\ b.c \in Seq(Byte) /\ b.size \in Nat /\ b.size <= Len(b.c) /\ b \in Buffer
  BY Parts DEF WF
<1>2. /\ q \in Seq(Byte) /\ Len(q) = b.wt - b.rd
      /\ \A i \in 1 .. b.wt - b.rd : q[i] = b.c[b.rd + i]
  BY ReadableElements
<1>3. CASE b.wt - b.rd <= n
  <2>1. s = discard_all(b)
    BY <1>3 DEF discard, readable_bytes
  <2>2. n + 1 \in Int /\ Len(q) \in Int /\ Len(q) < n + 1
    BY <1>1, <1>2, <1>3
  <2> HIDE DEF q
  <2>3. SubSeq(q, n + 1, Len(q)) = <<>>
    BY <2>2, SubSeqEmpty
  <2>4. Whole(b) => Whole(s)
    BY <1>1, <2>1, DiscardAllLemma DEF Whole, storage
  <2> QED
    BY <2>1, <2>3, <2>4, DiscardAllLemma DEF q
<1>4. CASE ~(b.wt - b.rd <= n)
  <2>1. s = At(b, b.rd + n, b.wt)
    BY <1>4 DEF discard, readable_bytes
  <2>2. b.rd + n \in Nat /\ 8 <= b.rd + n /\ b.rd + n <= b.wt
    BY <1>1
  <2>3. WF(s) /\ s.c = b.c /\ s.size = b.size /\ s.rd = b.rd + n /\ s.wt = b.wt
    BY <1>1, <2>1, <2>2, AtLemma
  <2>10. Whole(b) => Whole(s)
    BY <2>3 DEF Whole, storage
  <2>4. /\ p \in Seq(Byte) /\ Len(p) = b.wt - (b.rd + n)
        /\ \A i \in 1 .. b.wt - (b.rd + n) : p[i] = b.c[b.rd + n + i]
    BY <2>3, ReadableElements
  <2> HIDE DEF p, q
  <2> DEFINE m == n + 1
             l == Len(q)
             u == SubSeq(q, m, l)
  <2>5. m \in Int /\ l \in Int /\ m <= l /\ \A i \in m .. l : q[i] \in Byte
    BY <1>1, <1>2, <1>4, ElementOfSeq
  <2>6. /\ u \in Seq(Byte) /\ Len(u) = l - m + 1
        /\ \A i \in 1 .. l - m + 1 : u[i] = q[m + i - 1]
    <3> HIDE DEF m, l
    <3> QED
      BY <2>5, SubSeqProperties
  <2> HIDE DEF u
  <2>7. Len(p) = Len(u)
    BY <1>1, <1>2, <2>4, <2>6, SMTT(30)
  <2>8. ASSUME NEW i \in 1 .. Len(p)
        PROVE  p[i] = u[i]
    <3> DEFINE j == n + i
    <3>1. /\ i \in 1 .. b.wt - (b.rd + n) /\ i \in 1 .. l - m + 1
          /\ j \in 1 .. b.wt - b.rd /\ m + i - 1 = j /\ b.rd + n + i = b.rd + j
      BY <1>1, <1>2, <2>4, SMTT(30)
    <3> HIDE DEF j, l, m
    <3>2. p[i] = b.c[b.rd + j]
      BY <2>4, <3>1
    <3>3. u[i] = q[j]
      BY <2>6, <3>1
    <3> QED
      BY <1>2, <3>1, <3>2, <3>3
  <2>9. p = u
    BY <2>4, <2>6, <2>7, <2>8, SeqEqual
  <2> QED
    BY <2>3, <2>9, <2>10 DEF p, q, u
<1> QED
  BY <1>3, <1>4

\* rollback_write() removes bytes at the end.
LEMMA RollbackLemma ==
  ASSUME NEW b, WF(b), NEW n \in Nat, n <= b.wt - b.rd,
         NEW s, s = rollback_write(b, n)
  PROVE  /\ WF(s) /\ s.c = b.c /\ (Whole(b) => Whole(s))
         /\ Readable(s) = SubSeq(Readable(b), 1, Len(Readable(b)) - n)
<1> DEFINE q == Readable(b)
           p == Readable(s)
<1>1. /\ b.rd \in Nat /\ b.wt \in Nat /\ b.rd <= b.wt /\ b.wt <= Len(b.c) /\ 8 <= b.rd
      /\ b.c \in Seq(Byte) /\ b.size \in Nat /\ b.size <= Len(b.c) /\ b \in Buffer
  BY Parts DEF WF
<1>2. /\ q \in Seq(Byte) /\ Len(q) = b.wt - b.rd
      /\ \A i \in 1 .. b.wt - b.rd : q[i] = b.c[b.rd + i]
  BY ReadableElements
<1>3. CASE b.wt - b.rd <= n
  <2>1. s = discard_all(b)
    BY <1>3 DEF rollback_write, readable_bytes
  <2>2. 1 \in Int /\ Len(q) - n \in Int /\ Len(q) - n < 1
    BY <1>1, <1>2, <1>3
  <2> HIDE DEF q
  <2>3. SubSeq(q, 1, Len(q) - n) = <<>>
    BY <2>2, SubSeqEmpty
  <2>4. Whole(b) => Whole(s)
    BY <1>1, <2>1, DiscardAllLemma DEF Whole, storage
  <2> QED
    BY <2>1, <2>3, <2>4, DiscardAllLemma DEF q
<1>4. CASE ~(b.wt - b.rd <= n)
  <2>1. s = At(b, b.rd, b.wt - n)
    BY <1>4 DEF rollback_write, readable_bytes
  <2>2. b.wt - n \in Nat /\ b.rd <= b.wt - n /\ b.wt - n <= Len(b.c)
    BY <1>1, Parts
  <2>3. WF(s) /\ s.c = b.c /\ s.size = b.size /\ s.rd = b.rd /\ s.wt = b.wt - n
    BY <1>1, <2>1, <2>2, AtLemma
  <2>10. Whole(b) => Whole(s)
    BY <1>1, <2>3 DEF Whole, storage
  <2>4. /\ p \in Seq(Byte) /\ Len(p) = b.wt - n - b.rd
        /\ \A i \in 1 .. b.wt - n - b.rd : p[i] = b.c[b.rd + i]
    BY <2>3, ReadableElements
  <2> HIDE DEF p, q
  <2> DEFINE l == Len(q) - n
             u == SubSeq(q, 1, l)
  <2>5. 1 \in Int /\ l \in Int /\ 1 <= l /\ \A i \in 1 .. l : q[i] \in Byte
    BY <1>1, <1>2, <1>4, ElementOfSeq
  <2>6. /\ u \in Seq(Byte) /\ Len(u) = l - 1 + 1
        /\ \A i \in 1 .. l - 1 + 1 : u[i] = q[1 + i - 1]
    <3> HIDE DEF l
    <3> QED
      BY <2>5, SubSeqProperties
  <2> HIDE DEF u
  <2>7. Len(p) = Len(u)
    BY <1>1, <1>2, <2>4, <2>6
  <2>8. ASSUME NEW i \in 1 .. Len(p)
        PROVE  p[i] = u[i]
    <3>1. /\ i \in 1 .. b.wt - n - b.rd /\ i \in 1 .. l - 1 + 1
          /\ i \in 1 .. b.wt - b.rd /\ 1 + i - 1 = i
      BY <1>1, <1>2, <2>4
    <3> HIDE DEF l
    <3>2. p[i] = b.c[b.rd + i]
      BY <2>4, <3>1
    <3>3. u[i] = q[i]
      BY <2>6, <3>1
    <3> QED
      BY <1>2, <3>1, <3>2, <3>3
  <2>9. p = u
    BY <2>4, <2>6, <2>7, <2>8, SeqEqual
  <2> QED
    BY <2>3, <2>9, <2>10 DEF p, q, u
<1> QED
  BY <1>3, <1>4

\* shrink() keeps the readable bytes in a new vector.
LEMMA ShrinkLemma ==
  ASSUME NEW b, WF(b), NEW n \in Nat
  PROVE  /\ WF(shrink(b, n)) /\ Readable(shrink(b, n)) = Readable(b) /\ Whole(shrink(b, n))
         /\ Len(shrink(b, n).c) = shrink(b, n).size
<1> DEFINE l == m_resver_index + readable_bytes(b) + n
           buf == [i \in 1 .. l |-> Nul]
<1>1. l \in Nat /\ 8 + (b.wt - b.rd) <= l /\ l <= l
  BY Parts DEF m_resver_index, readable_bytes
<1>2. buf \in [1 .. l -> Byte] /\ \A i \in 1 .. l : buf[i] \in Byte
  BY BufferAssumption
<1>4. shrink(b, n) = At(With(b, moved_down(b, buf, l), l), m_resver_index,
                        m_resver_index + readable_bytes(b))
  BY DEF shrink
<1> HIDE DEF l, buf
<1>5. /\ WF(shrink(b, n)) /\ Len(shrink(b, n).c) = l /\ shrink(b, n).size = l
      /\ shrink(b, n).wt = 8 + (b.wt - b.rd) /\ Readable(shrink(b, n)) = Readable(b)
  BY <1>1, <1>2, <1>4, MovedDownLemma
<1> QED
  BY <1>1, <1>5 DEF Whole, storage

\* A set of numbers that is not empty has a least element.
LEMMA Least ==
  ASSUME NEW T, T \subseteq Nat, T # {}
  PROVE  \E i \in T : \A j \in T : i <= j
<1>1. PICK i \in T : \A j \in T : ~(<<j, i>> \in OpToRel(<, Nat))
  <2> DEFINE R == OpToRel(<, Nat)
  <2>1. IsWellFoundedOn(R, Nat)
    BY NatLessThanWellFounded
  <2> HIDE DEF R
  <2>2. \E x \in T : \A y \in T : ~(<<y, x>> \in R)
    BY <2>1, WFMin
  <2> QED
    BY <2>2 DEF R
<1>2. \A j \in T : ~(j < i)
  BY <1>1 DEF OpToRel
<1> QED
  BY <1>2

\* find_char() stays within the readable bytes.
LEMMA FindCharLemma ==
  ASSUME NEW b, WF(b), NEW ch
  PROVE  find_char(b, ch) \in 0 .. b.wt - b.rd
<1> DEFINE found == {i \in 1 .. readable_bytes(b) : b.c[b.rd + i] = ch}
<1>1. b.wt - b.rd \in Nat /\ readable_bytes(b) = b.wt - b.rd
  BY Parts DEF readable_bytes
<1>2. CASE found = {}
  BY <1>1, <1>2 DEF find_char
<1>3. CASE found # {}
  <2>1. found \subseteq Nat /\ found \subseteq 1 .. b.wt - b.rd
    BY <1>1
  <2>2. find_char(b, ch) = CHOOSE i \in found : \A j \in found : i <= j
    BY <1>3 DEF find_char
  <2> HIDE DEF found
  <2>3. \E i \in found : \A j \in found : i <= j
    BY <1>3, <2>1, Least
  <2>4. find_char(b, ch) \in found
    BY <2>2, <2>3
  <2>5. find_char(b, ch) \in 1 .. b.wt - b.rd
    BY <2>1, <2>4
  <2> QED
    BY <1>1, <2>5
<1> QED
  BY <1>2, <1>3

\* What append_uintNN() hands to append() is a string of the integer's size.
LEMMA UintBytesLemma ==
  ASSUME NEW b, NEW v \in Uint, NEW cov
  PROVE  uint_bytes(b, v, cov) \in Uint /\ uint_bytes(b, v, cov) \in Seq(Byte)
<1>1. PICK w \in UintSizes : v \in [1 .. w -> Byte]
  BY DEF Uint
<1>2. w \in Nat
  BY BufferAssumption
<1>3. ASSUME NEW x \in [1 .. w -> Byte]
      PROVE  swap_bytes(x) \in [1 .. w -> Byte]
  <2>1. Len(x) = w
    BY <1>2, FunctionIsSeq
  <2>2. \A i \in 1 .. w : w + 1 - i \in 1 .. w
    BY <1>2
  <2> QED
    BY <2>1, <2>2 DEF swap_bytes
<1>4. uint_bytes(b, v, cov) \in [1 .. w -> Byte]
  BY <1>1, <1>3 DEF uint_bytes, Memory, byteorder_value
<1> QED
  BY <1>2, <1>4, FunctionIsSeq DEF Uint
-------------------------------------------------------------------------------
(* Integers: what is appended is what is read.                             *)

\* Exchanging the bytes of an integer twice changes nothing.
LEMMA SwapTwice ==
  ASSUME NEW w \in Nat, NEW v \in [1 .. w -> Byte]
  PROVE  /\ swap_bytes(v) \in [1 .. w -> Byte]
         /\ swap_bytes(swap_bytes(v)) = v
<1>1. \A i \in 1 .. w : w + 1 - i \in 1 .. w /\ w + 1 - (w + 1 - i) = i
  OBVIOUS
<1>2. ASSUME NEW u \in [1 .. w -> Byte]
      PROVE  /\ swap_bytes(u) \in [1 .. w -> Byte]
             /\ \A i \in 1 .. w : swap_bytes(u)[i] = u[w + 1 - i]
  <2>1. Len(u) = w
    BY FunctionIsSeq
  <2> QED
    BY <1>1, <2>1 DEF swap_bytes
<1> DEFINE u == swap_bytes(v)
<1>3. u \in [1 .. w -> Byte] /\ \A i \in 1 .. w : u[i] = v[w + 1 - i]
  BY <1>2
<1> HIDE DEF u
<1>4. swap_bytes(u) \in [1 .. w -> Byte] /\ \A i \in 1 .. w : swap_bytes(u)[i] = u[w + 1 - i]
  BY <1>2, <1>3
<1>5. \A i \in 1 .. w : swap_bytes(u)[i] = v[i]
  BY <1>1, <1>3, <1>4
<1>6. swap_bytes(u) = v
  BY <1>4, <1>5
<1> QED
  BY <1>3, <1>6 DEF u

\* What append_uintNN() stores, read_integer() and the conversion give back; with
\* the order of the network the bytes stored are the integer's own.
LEMMA ConversionTwice ==
  ASSUME NEW w \in Nat, NEW v \in [1 .. w -> Byte], NEW b, NEW cov \in BOOLEAN
  PROVE  LET d == uint_bytes(b, v, cov)
         IN  /\ (IF cov THEN byteorder_value(b.order, Memory(d)) ELSE Memory(d)) = v
             /\ d \in [1 .. w -> Byte]
             /\ cov /\ b.order = "big_endian" => d = v
<1>1. /\ swap_bytes(v) \in [1 .. w -> Byte]
      /\ swap_bytes(swap_bytes(v)) = v
      /\ swap_bytes(swap_bytes(swap_bytes(v))) = swap_bytes(v)
  BY SwapTwice
<1>2. k_system_byteorder \in Orders
  BY BufferAssumption
<1> QED
  BY <1>1, <1>2 DEF uint_bytes, byteorder_value, Memory, Orders

\* append() and discard() leave the byte order alone.
LEMMA OrderKept ==
  ASSUME NEW b, NEW e, NEW n
  PROVE  append(b, e).order = b.order /\ discard(b, n).order = b.order
<1>1. make_space(b, Len(e)).order = b.order
  BY DEF make_space, vector_resize, compact, With, At
<1>2. append(b, e).order = make_space(b, Len(e)).order
  BY DEF append, ensure_write_space, has_written, copy_to_wt, With, At
<1> QED
  BY <1>1, <1>2 DEF discard, discard_all, At

\* The two parts of a string of bytes.
LEMMA ConcatSplit ==
  ASSUME NEW q \in Seq(Byte), NEW e \in Seq(Byte)
  PROVE  /\ q \o e \in Seq(Byte) /\ Len(q \o e) = Len(q) + Len(e)
         /\ Len(q) \in Nat /\ Len(e) \in Nat
         /\ SubSeq(q \o e, 1, Len(q)) = q
         /\ SubSeq(q \o e, Len(q) + 1, Len(q) + Len(e)) = e
<1> DEFINE p == q \o e
           n == Len(q)
           m == n + Len(e)
           f == SubSeq(p, 1, n)
           r == SubSeq(p, n + 1, m)
<1>1. n \in Nat /\ Len(e) \in Nat /\ m \in Nat
  BY LenProperties
<1>2. /\ p \in Seq(Byte) /\ Len(p) = m
      /\ \A i \in 1 .. m : p[i] = IF i <= n THEN q[i] ELSE e[i - n]
  BY ConcatProperties
<1>3. \A i \in 1 .. m : p[i] \in Byte
  BY <1>1, <1>2, ElementOfSeq
<1>4. (\A i \in 1 .. n : p[i] = q[i]) /\ (\A i \in 1 .. Len(e) : p[n + i] = e[i])
  BY <1>1, <1>2
<1> HIDE DEF p, n
<1>5. f = q
  <2>1. 1 \in Int /\ n \in Int /\ \A i \in 1 .. n : p[i] \in Byte
    BY <1>1, <1>3
  <2>2. /\ f \in Seq(Byte) /\ Len(f) = IF 1 <= n THEN n - 1 + 1 ELSE 0
        /\ \A i \in 1 .. n - 1 + 1 : f[i] = p[1 + i - 1]
    BY <2>1, SubSeqProperties
  <2> HIDE DEF f
  <2>3. Len(f) = n
    BY <1>1, <2>2
  <2>4. \A i \in 1 .. n : 1 + i - 1 = i /\ i \in 1 .. n - 1 + 1
    BY <1>1
  <2>5. \A i \in 1 .. Len(f) : f[i] = q[i]
    BY <1>4, <2>2, <2>3, <2>4
  <2> QED
    BY <2>2, <2>3, <2>5, SeqEqual DEF n
<1>6. r = e
  <2>1. n + 1 \in Int /\ m \in Int /\ \A i \in n + 1 .. m : p[i] \in Byte
    BY <1>1, <1>3
  <2>3. /\ r \in Seq(Byte) /\ Len(r) = IF n + 1 <= m THEN m - (n + 1) + 1 ELSE 0
        /\ \A i \in 1 .. m - (n + 1) + 1 : r[i] = p[(n + 1) + i - 1]
    BY <2>1, SubSeqProperties
  <2> HIDE DEF r
  <2>4. Len(r) = Len(e)
    BY <1>1, <2>3
  <2>5. \A i \in 1 .. Len(r) : r[i] = e[i]
    <3>1. \A i \in 1 .. Len(e) : (n + 1) + i - 1 = n + i /\ i \in 1 .. m - (n + 1) + 1
      BY <1>1
    <3> QED
      BY <1>4, <2>3, <2>4, <3>1
  <2> QED
    BY <2>3, <2>4, <2>5, SeqEqual
<1> QED
  BY <1>1, <1>2, <1>5, <1>6 DEF p, n

\* Once what was readable before is discarded, what was appended is readable.
LEMMA AppendedIsLeft ==
  ASSUME NEW b, WF(b), Whole(b), Len(b.c) <= MaxStorage, NEW e \in Seq(Byte),
         NEW t, t = discard(append(b, e), readable_bytes(b))
  PROVE  /\ WF(t) /\ Readable(t) = e /\ t.order = b.order
         /\ SubSeq(t.c, t.rd + 1, t.rd + Len(e)) = e
<1> DEFINE s == append(b, e)
           q == Readable(b)
           n == readable_bytes(b)
<1>1. WF(s) /\ Readable(s) = q \o e /\ s.order = b.order
  <2>1. Len(e) \in Nat
    BY LenProperties
  <2>2. /\ HasRoom(make_space(b, Len(e)), Len(e))
        /\ KeepsOf(b, Readable(make_space(b, Len(e))))
    BY <2>1, MakeSpaceLemma
  <2>3. Readable(make_space(b, Len(e))) = q
    BY <2>2 DEF KeepsOf
  <2> QED
    BY <2>2, <2>3, AppendLemma, OrderKept
<1>2. q \in Seq(Byte) /\ Len(q) = n /\ n \in Nat
  BY ReadableElements, Parts DEF readable_bytes
<1> HIDE DEF s, q, n
<1>4. /\ Len(q \o e) = n + Len(e) /\ Len(e) \in Nat
      /\ SubSeq(q \o e, n + 1, n + Len(e)) = e
  BY <1>2, ConcatSplit
<1>5. Len(Readable(s)) = s.wt - s.rd
  BY <1>1, ReadableElements
<1>6. WF(t) /\ Readable(t) = SubSeq(q \o e, n + 1, Len(q \o e))
  <2>1. n <= s.wt - s.rd /\ t = discard(s, n)
    BY <1>1, <1>4, <1>5, <1>2 DEF s, n
  <2> QED
    BY <1>1, <1>2, <2>1, DiscardLemma
<1>7. t.order = b.order
  BY <1>1, OrderKept DEF s
<1>8. Readable(t) = e
  BY <1>4, <1>6
<1>9. t.rd + Len(e) = t.wt
  <2>1. Len(Readable(t)) = t.wt - t.rd /\ t.wt \in Nat /\ t.rd \in Nat
    BY <1>6, ReadableElements, Parts
  <2> QED
    BY <1>8, <2>1
<1> QED
  BY <1>6, <1>7, <1>8, <1>9 DEF Readable
-------------------------------------------------------------------------------
(* The invariant.                                                          *)

\* Every buffer has its indices and its vector within its memory, which is never
\* larger than the largest vector.
Inv == /\ TypeOK
       /\ \A b \in Buffers : WF(bufs[b]) /\ Len(bufs[b].c) <= MaxStorage

Content == [x \in Buffers |-> Readable(bufs[x])]
Cut == {x \in Buffers : ~Whole(bufs[x])}

\* What the invariant says of one buffer.
LEMMA InvWF ==
  ASSUME Inv, NEW b \in Buffers
  PROVE  /\ WF(bufs[b]) /\ Len(bufs[b].c) <= MaxStorage
         /\ readable_bytes(bufs[b]) = bufs[b].wt - bufs[b].rd
         /\ readable_bytes(bufs[b]) \in Counts
<1>1. WF(bufs[b]) /\ Len(bufs[b].c) <= MaxStorage
  BY DEF Inv
<1>2. bufs[b].wt - bufs[b].rd \in Counts
  BY <1>1, Parts, BufferAssumption DEF Counts
<1> QED
  BY <1>1, <1>2 DEF readable_bytes

\* Replacing a buffer by a well-formed one keeps the invariant, and changes the
\* readable bytes of that buffer only.
LEMMA SetLemma ==
  ASSUME Inv, NEW b \in Buffers, NEW s, WF(s), Fits(s), Set(b, s)
  PROVE  /\ Inv'
         /\ Content' = [Content EXCEPT ![b] = Readable(s)]
         /\ Content'[b] = Readable(s)
         /\ Cut' = IF Whole(s) THEN Cut \ {b} ELSE Cut \cup {b}
<1>1. /\ bufs \in [Buffers -> Buffer]
      /\ bufs' = [bufs EXCEPT ![b] = s] /\ storage(s) <= MaxStorage
  BY DEF Inv, TypeOK, Set
<1>2. s \in Buffer /\ Len(s.c) <= MaxStorage
  BY <1>1 DEF WF, Fits, storage
<1>3. /\ bufs' \in [Buffers -> Buffer] /\ bufs'[b] = s
      /\ \A x \in Buffers : x # b => bufs'[x] = bufs[x]
  BY <1>1, <1>2
<1>4. \A x \in Buffers : WF(bufs'[x]) /\ Len(bufs'[x].c) <= MaxStorage
  BY <1>2, <1>3, InvWF
<1>5. \A x \in Buffers : storage(bufs'[x]) <= MaxStorage
  BY <1>1, <1>3 DEF Inv, TypeOK
<1>6. Inv'
  BY <1>3, <1>4, <1>5 DEF Inv, TypeOK
<1>7. \A x \in Buffers : Readable(bufs'[x]) = IF x = b THEN Readable(s) ELSE Readable(bufs[x])
  BY <1>3
<1>8. Content' = [Content EXCEPT ![b] = Readable(s)] /\ Content'[b] = Readable(s)
  BY <1>7 DEF Content
<1>9. \A x \in Buffers : Whole(bufs'[x]) <=> IF x = b THEN Whole(s) ELSE Whole(bufs[x])
  BY <1>3
<1>10. Cut' = IF Whole(s) THEN Cut \ {b} ELSE Cut \cup {b}
  BY <1>9 DEF Cut
<1> QED
  BY <1>6, <1>8, <1>10
-------------------------------------------------------------------------------
(* The calls, one by one: each keeps the invariant and is a step of the    *)
(* abstract queue.                                                         *)

\* A call that leaves a whole buffer whole is a request of the queue.
LEMMA RequestLemma ==
  ASSUME Inv, NEW b \in Buffers, NEW s, WF(s), Fits(s), Set(b, s),
         Whole(bufs[b]) => Whole(s), NEW what, call' = what
  PROVE  Inv' /\ Queue!Request(b, what) /\ Content'[b] = Readable(s)
<1>1. /\ Inv' /\ Content' = [Content EXCEPT ![b] = Readable(s)]
      /\ Content'[b] = Readable(s)
      /\ Cut' = IF Whole(s) THEN Cut \ {b} ELSE Cut \cup {b}
  BY SetLemma
<1>2. Cut' \in {Cut, Cut \ {b}}
  <2>1. CASE Whole(s)
    BY <1>1, <2>1
  <2>2. CASE ~Whole(s)
    <3>1. b \in Cut
      BY <2>2 DEF Cut
    <3> QED
      BY <1>1, <2>2, <3>1
  <2> QED
    BY <2>1, <2>2
<1>3. Content' = [Content EXCEPT ![b] = Content'[b]]
  BY <1>1
<1>4. Queue!Request(b, what)
  BY <1>2, <1>3 DEF Queue!Request, Content, Cut
<1> QED
  BY <1>1, <1>4

\* What KeepsOf() says is what the queue means by kept.
LEMMA KeptLemma ==
  ASSUME Inv, NEW b \in Buffers, NEW q, KeepsOf(bufs[b], q)
  PROVE  /\ Queue!Kept(b, q) /\ q \in Seq(Byte)
         /\ Len(q) = Len(Content[b]) /\ Len(q) \in Nat
<1>1. /\ Content[b] = Readable(bufs[b])
      /\ Len(Content[b]) = bufs[b].wt - bufs[b].rd
  BY InvWF, ReadableElements DEF Content
<1>2. /\ q \in Seq(Byte) /\ Len(q) = Len(Content[b])
      /\ Whole(bufs[b]) => q = Content[b]
      /\ \A i \in 1 .. Len(q) : q[i] = Content[b][i] \/ q[i] = Nul
  BY <1>1 DEF KeepsOf
<1>3. Len(q) \in Nat
  BY <1>2, LenProperties
<1>4. b \in Cut <=> ~Whole(bufs[b])
  BY DEF Cut
<1>5. IF b \in Cut THEN /\ Len(q) = Len(Content[b])
                        /\ \A i \in 1 .. Len(q) : q[i] \in {Content[b][i], Nul}
                   ELSE q = Content[b]
  BY <1>2, <1>4
<1>6. Queue!Kept(b, q)
  BY <1>5 DEF Queue!Kept, Content, Cut
<1> QED
  BY <1>2, <1>3, <1>6

\* e behind kept bytes is what the queue means by added.
LEMMA AddedLemma ==
  ASSUME Inv, NEW b \in Buffers, NEW q, KeepsOf(bufs[b], q), NEW e \in Seq(Byte),
         Content'[b] = q \o e
  PROVE  Queue!Added(b, e)
<1> DEFINE n == Len(Content[b])
<1>1. Queue!Kept(b, q) /\ q \in Seq(Byte) /\ Len(q) = n
  BY KeptLemma
<1>2. /\ Len(Content'[b]) = n + Len(e)
      /\ SubSeq(Content'[b], 1, n) = q
      /\ SubSeq(Content'[b], n + 1, n + Len(e)) = e
  <2> HIDE DEF n
  <2>1. /\ Len(q \o e) = Len(q) + Len(e)
        /\ SubSeq(q \o e, 1, Len(q)) = q
        /\ SubSeq(q \o e, Len(q) + 1, Len(q) + Len(e)) = e
    BY <1>1, ConcatSplit
  <2> QED
    BY <1>1, <2>1
<1> QED
  BY <1>1, <1>2 DEF Queue!Added, Content

\* A call that keeps the readable bytes.
LEMMA KeepCall ==
  ASSUME Inv, NEW b \in Buffers, NEW s, WF(s), Fits(s), Set(b, s),
         KeepsOf(bufs[b], Readable(s)), Whole(bufs[b]) => Whole(s), call' = <<"keep", b>>
  PROVE  Inv' /\ Queue!Next
<1>1. Inv' /\ Queue!Request(b, <<"keep", b>>) /\ Content'[b] = Readable(s)
  BY RequestLemma
<1>2. Queue!Kept(b, Content'[b])
  BY <1>1, KeptLemma
<1>3. Queue!Keep(b)
  BY <1>1, <1>2 DEF Queue!Keep, Content
<1> QED
  BY <1>1, <1>3 DEF Queue!Next

\* append(): d goes behind what is kept of b.
LEMMA PutStep ==
  ASSUME Inv, NEW b \in Buffers, NEW d \in Seq(Byte), Put(b, d), NEW what, call' = what
  PROVE  Inv' /\ Queue!Request(b, what) /\ Queue!Added(b, d)
<1> DEFINE s == append(bufs[b], d)
           q == Readable(make_space(bufs[b], Len(d)))
<1>1. HasRoom(make_space(bufs[b], Len(d)), Len(d)) /\ Set(b, s)
  BY DEF Put, ensure_write_space
<1>2. WF(bufs[b]) /\ Len(bufs[b].c) <= MaxStorage
  BY InvWF
<1>3. WF(s) /\ Whole(s) /\ Fits(s) /\ Readable(s) = q \o d /\ KeepsOf(bufs[b], q)
  BY <1>1, <1>2, AppendLemma
<1> HIDE DEF s, q
<1>4. Inv' /\ Queue!Request(b, what) /\ Content'[b] = Readable(s)
  BY <1>1, <1>3, RequestLemma
<1> QED
  BY <1>3, <1>4, AddedLemma

\* A call of append() with the string d.
LEMMA PutCall ==
  ASSUME Inv, NEW b \in Buffers, NEW d \in Data \cup Uint, d \in Seq(Byte), Put(b, d),
         call' = <<"put", b, d>>
  PROVE  Inv' /\ Queue!Next
<1>1. Inv' /\ Queue!Request(b, <<"put", b, d>>) /\ Queue!Added(b, d)
  BY PutStep
<1>2. Queue!Put(b, d)
  BY <1>1 DEF Queue!Put
<1> QED
  BY <1>1, <1>2 DEF Queue!Next

\* append(another) puts all of another's bytes.
LEMMA PutAllCall ==
  ASSUME Inv, NEW b \in Buffers, NEW another \in Buffers, AppendBuffer(b, another)
  PROVE  Inv' /\ Queue!Next
<1> DEFINE e == Readable(bufs[another])
<1>1. e \in Seq(Byte) /\ Content[another] = e
  BY InvWF, ReadableElements DEF Content
<1>2. Put(b, e) /\ call' = <<"putall", b, another>> /\ b # another
  BY DEF AppendBuffer
<1> HIDE DEF e
<1>3. Inv' /\ Queue!Request(b, <<"putall", b, another>>) /\ Queue!Added(b, e)
  BY <1>1, <1>2, PutStep
<1>4. Queue!PutAll(b, another)
  BY <1>1, <1>3 DEF Queue!PutAll, Content
<1> QED
  BY <1>2, <1>3, <1>4 DEF Queue!Next

\* append(*this) keeps the bytes and adds as many.
LEMMA PutSelfCall ==
  ASSUME Inv, NEW b \in Buffers, AppendSelf(b)
  PROVE  Inv' /\ Queue!Next
<1> DEFINE old == bufs[b]
           n   == readable_bytes(old)
           s   == make_space(old, n)
<1>1. WF(old) /\ Len(old.c) <= MaxStorage /\ n \in Nat /\ n = old.wt - old.rd
  BY InvWF, BufferAssumption DEF Counts
<1>2. /\ WF(s) /\ Fits(s) /\ KeepsOf(old, Readable(s))
      /\ ~TooSmall(old, n) => Len(s.c) = Len(old.c)
  BY <1>1, MakeSpaceLemma
<1>3. PICK d \in IF TooSmall(old, n) THEN [1 .. n -> Byte]
                                     ELSE {SubSeq(s.c, old.rd + 1, old.rd + n)} :
        Set(b, has_written(copy_to_wt(s, d), n))
  BY DEF AppendSelf, ensure_write_space
<1>4. HasRoom(s, n) /\ call' = <<"putself", b>>
  BY DEF AppendSelf, ensure_write_space
<1> HIDE DEF s
<1>5. d \in Seq(Byte) /\ Len(d) = n
  <2>1. CASE TooSmall(old, n)
    BY <1>1, <1>3, <2>1, FunctionIsSeq
  <2>2. CASE ~TooSmall(old, n)
    <3> DEFINE k == old.rd + 1
               l == old.rd + n
               f == s.c
    <3>1. d = SubSeq(f, k, l)
      BY <1>3, <2>2
    <3>2. /\ old.rd \in Nat /\ old.wt \in Nat /\ old.rd <= old.wt /\ old.wt <= Len(old.c)
          /\ Len(f) = Len(old.c) /\ \A i \in 1 .. Len(f) : f[i] \in Byte
      BY <1>1, <1>2, <2>2, Parts
    <3>3. k \in Int /\ l \in Int /\ l - k + 1 = n /\ \A i \in k .. l : i \in 1 .. Len(f)
      <4> DEFINE r == old.rd
                 w == old.wt
                 z == Len(f)
      <4>1. r \in Nat /\ w \in Nat /\ r <= w /\ w <= z /\ z \in Nat /\ n = w - r
        BY <1>1, <3>2, Parts
      <4> HIDE DEF n, r, w, z
      <4>2. r + 1 \in Int /\ r + n \in Int /\ (r + n) - (r + 1) + 1 = n
        BY <4>1
      <4>3. \A i \in r + 1 .. r + n : i \in 1 .. z
        BY <4>1
      <4> QED BY <4>2, <4>3 DEF r, z
    <3>4. \A i \in k .. l : f[i] \in Byte
      BY <3>2, <3>3
    <3>5. n = 0 <=> ~(k <= l)
      <4> HIDE DEF n
      <4> QED BY <1>1, <3>2
    <3> HIDE DEF k, l, f
    <3>6. /\ SubSeq(f, k, l) \in Seq(Byte)
          /\ Len(SubSeq(f, k, l)) = IF k <= l THEN l - k + 1 ELSE 0
      BY <3>3, <3>4, SubSeqProperties
    <3> QED
      BY <3>1, <3>3, <3>5, <3>6
  <2> QED
    BY <2>1, <2>2
<1> DEFINE t == has_written(copy_to_wt(s, d), n)
<1>6. t = has_written(copy_to_wt(s, d), Len(d)) /\ HasRoom(s, Len(d)) /\ Set(b, t)
  BY <1>3, <1>4, <1>5
<1> HIDE DEF t
<1>7. /\ WF(t) /\ Len(t.c) = Len(s.c) /\ t.size = s.size /\ Whole(t)
      /\ Readable(t) = Readable(s) \o d
  BY <1>2, <1>5, <1>6, PutLemma
<1>8. Fits(t)
  BY <1>2, <1>7 DEF Fits
<1>9. /\ Inv' /\ Queue!Request(b, <<"putself", b>>)
      /\ Content'[b] = Readable(s) \o d
  BY <1>4, <1>6, <1>7, <1>8, RequestLemma
<1>10. Queue!Added(b, d) /\ Len(Content[b]) = n
  BY <1>1, <1>2, <1>5, <1>9, AddedLemma, ReadableElements DEF Content
<1>11. Queue!PutSelf(b)
  BY <1>5, <1>9, <1>10 DEF Queue!PutSelf, Queue!Added, Content
<1> QED
  BY <1>9, <1>11 DEF Queue!Next

\* A call that takes the n oldest bytes of buffer b with discard().
LEMMA TakeCall ==
  ASSUME Inv, NEW b \in Buffers, NEW n \in Counts, n <= readable_bytes(bufs[b]),
         Set(b, discard(bufs[b], n)), call' = <<"take", b, n>>
  PROVE  Inv' /\ Queue!Next
<1> DEFINE s == discard(bufs[b], n)
           q == Readable(bufs[b])
<1>1. /\ WF(bufs[b]) /\ Len(bufs[b].c) <= MaxStorage
      /\ n \in Nat /\ n <= bufs[b].wt - bufs[b].rd
      /\ Len(q) = bufs[b].wt - bufs[b].rd /\ Content[b] = q
  BY InvWF, ReadableElements, BufferAssumption DEF Counts, Content
<1>2. /\ WF(s) /\ s.c = bufs[b].c /\ (Whole(bufs[b]) => Whole(s))
      /\ Readable(s) = SubSeq(q, n + 1, Len(q))
  BY <1>1, DiscardLemma
<1> HIDE DEF s, q
<1>3. Inv' /\ Queue!Request(b, <<"take", b, n>>) /\ Content'[b] = Readable(s)
  BY <1>1, <1>2, RequestLemma DEF s, Fits
<1>4. Queue!Take(b, n)
  BY <1>1, <1>2, <1>3 DEF Queue!Take, Content
<1> QED
  BY <1>3, <1>4 DEF Queue!Next

\* RollbackWrite takes back the newest bytes.
LEMMA TakeBackCall ==
  ASSUME Inv, NEW b \in Buffers, NEW n \in Counts, RollbackWrite(b, n)
  PROVE  Inv' /\ Queue!Next
<1> DEFINE s == rollback_write(bufs[b], n)
           q == Readable(bufs[b])
<1>1. /\ WF(bufs[b]) /\ Len(bufs[b].c) <= MaxStorage
      /\ n \in Nat /\ n <= bufs[b].wt - bufs[b].rd
      /\ Len(q) = bufs[b].wt - bufs[b].rd /\ Content[b] = q
  BY InvWF, ReadableElements, BufferAssumption DEF Counts, RollbackWrite, Content
<1>2. /\ WF(s) /\ s.c = bufs[b].c /\ (Whole(bufs[b]) => Whole(s))
      /\ Readable(s) = SubSeq(q, 1, Len(q) - n)
  BY <1>1, RollbackLemma
<1>3. Set(b, s) /\ call' = <<"takeback", b, n>>
  BY DEF RollbackWrite
<1> HIDE DEF s, q
<1>4. Inv' /\ Queue!Request(b, <<"takeback", b, n>>) /\ Content'[b] = Readable(s)
  BY <1>1, <1>2, <1>3, RequestLemma DEF Fits
<1>5. Queue!TakeBack(b, n)
  BY <1>1, <1>2, <1>4 DEF Queue!TakeBack, Content
<1> QED
  BY <1>4, <1>5 DEF Queue!Next

\* resize() may cut a buffer and may make it whole again.
LEMMA ResizeCall ==
  ASSUME Inv, NEW b \in Buffers, NEW n \in Counts, Resize(b, n)
  PROVE  Inv' /\ Queue!Next
<1> DEFINE s == resize(bufs[b], n)
           m == n + m_resver_index
<1>1. WF(bufs[b]) /\ Len(bufs[b].c) <= MaxStorage /\ m \in Nat
  BY InvWF, BufferAssumption DEF Counts, m_resver_index
<1>2. s = vector_resize(bufs[b], m) /\ Set(b, s) /\ call' = <<"resize", b>>
  BY DEF Resize, resize
<1> HIDE DEF s, m
<1>3. /\ WF(s) /\ s.size = m /\ KeepsOf(bufs[b], Readable(s))
      /\ Len(s.c) = IF m > Len(bufs[b].c) THEN m ELSE Len(bufs[b].c)
  BY <1>1, <1>2, VectorResizeLemma
<1>4. Fits(s)
  BY <1>1, <1>3 DEF Fits
<1>5. /\ Inv' /\ Content' = [Content EXCEPT ![b] = Readable(s)]
      /\ Content'[b] = Readable(s)
      /\ Cut' = IF Whole(s) THEN Cut \ {b} ELSE Cut \cup {b}
  BY <1>2, <1>3, <1>4, SetLemma
<1>6. Cut' \in {Cut \cup {b}, Cut \ {b}} /\ Content' = [Content EXCEPT ![b] = Content'[b]]
  BY <1>5
<1>7. Queue!Kept(b, Content'[b])
  BY <1>3, <1>5, KeptLemma
<1>8. Queue!Resize(b)
  BY <1>2, <1>6, <1>7 DEF Queue!Resize, Content, Cut
<1> QED
  BY <1>5, <1>8 DEF Queue!Next

\* swap() exchanges the contents.
LEMMA ExchangeCall ==
  ASSUME Inv, NEW b \in Buffers, NEW another \in Buffers, Swap(b, another)
  PROVE  Inv' /\ Queue!Next
<1>1. /\ bufs \in [Buffers -> Buffer]
      /\ bufs' = [bufs EXCEPT ![b] = bufs[another], ![another] = bufs[b]]
      /\ call' = <<"exchange", b, another>>
  BY DEF Inv, TypeOK, Swap
<1> DEFINE o(x) == IF x = another THEN b ELSE IF x = b THEN another ELSE x
<1>2. /\ bufs' \in [Buffers -> Buffer]
      /\ \A x \in Buffers : o(x) \in Buffers /\ bufs'[x] = bufs[o(x)]
  BY <1>1
<1> HIDE DEF o
<1>3. \A x \in Buffers : /\ WF(bufs'[x]) /\ Len(bufs'[x].c) <= MaxStorage
                         /\ storage(bufs'[x]) <= MaxStorage
  BY <1>2 DEF Inv, TypeOK
<1>4. Inv'
  BY <1>2, <1>3 DEF Inv, TypeOK
<1>5. Content' = [Content EXCEPT ![b] = Content[another], ![another] = Content[b]]
  <2>1. \A x \in Buffers : Readable(bufs'[x]) = Readable(bufs[o(x)])
    BY <1>2
  <2> QED
    BY <1>2, <2>1 DEF Content, o
<1>6. Cut' = {x \in Buffers : o(x) \in Cut}
  <2>1. \A x \in Buffers : Whole(bufs'[x]) <=> Whole(bufs[o(x)])
    BY <1>2
  <2> QED
    BY <1>2, <2>1 DEF Cut
<1>7. Queue!Exchange(b, another)
  BY <1>1, <1>5, <1>6 DEF Queue!Exchange, Content, Cut, o
<1> QED
  BY <1>4, <1>7 DEF Queue!Next

\* A change of the byte order touches neither bytes nor indices.
LEMMA OrderCall ==
  ASSUME Inv, NEW b \in Buffers, NEW order \in Orders, SetByteOrder(b, order)
  PROVE  Inv' /\ Queue!Next
<1> DEFINE s == [bufs[b] EXCEPT !.order = order]
<1>1. /\ bufs \in [Buffers -> Buffer] /\ storage(bufs[b]) <= MaxStorage
      /\ bufs' = [bufs EXCEPT ![b] = s] /\ call' = <<"keep", b>>
  BY DEF Inv, TypeOK, SetByteOrder
<1>2. /\ s \in Buffer /\ s.c = bufs[b].c /\ s.rd = bufs[b].rd
      /\ s.wt = bufs[b].wt /\ s.size = bufs[b].size
  BY <1>1 DEF Buffer
<1> HIDE DEF s
<1>3. WF(bufs[b]) /\ Len(bufs[b].c) <= MaxStorage
  BY InvWF
<1>4. /\ WF(s) /\ Fits(s) /\ Readable(s) = Readable(bufs[b]) /\ Set(b, s)
      /\ Whole(bufs[b]) => Whole(s)
  BY <1>1, <1>2, <1>3 DEF WF, Fits, Readable, Set, Whole, storage
<1>5. KeepsOf(bufs[b], Readable(s))
  BY <1>3, <1>4, SameIsKept
<1> QED
  BY <1>1, <1>4, <1>5, KeepCall

\* Every call keeps the invariant and is a step of the abstract queue.
LEMMA StepLemma ==
  ASSUME Inv, Next
  PROVE  Inv' /\ Queue!Next
<1>0. ASSUME NEW b \in Buffers
      PROVE  WF(bufs[b]) /\ Len(bufs[b].c) <= MaxStorage
  BY InvWF
<1>1. ASSUME NEW b \in Buffers, NEW d \in Data, Append_(b, d)
      PROVE  Inv' /\ Queue!Next
  <2>1. d \in Seq(Byte) /\ d \in Data \cup Uint
    BY BufferAssumption
  <2> QED
    BY <1>1, <2>1, PutCall DEF Append_
<1>2. ASSUME NEW b \in Buffers, NEW d \in Data, HasWritten(b, d)
      PROVE  Inv' /\ Queue!Next
  <2> DEFINE s == has_written(copy_to_wt(bufs[b], d), Len(d))
  <2>1. d \in Seq(Byte) /\ d \in Data \cup Uint
    BY BufferAssumption
  <2>2. HasRoom(bufs[b], Len(d)) /\ Set(b, s) /\ call' = <<"put", b, d>>
    BY <1>2 DEF HasWritten
  <2>3. /\ WF(s) /\ Len(s.c) = Len(bufs[b].c) /\ Whole(s)
        /\ Readable(s) = Readable(bufs[b]) \o d
    BY <1>0, <2>1, <2>2, PutLemma
  <2> HIDE DEF s
  <2>4. Fits(s)
    BY <1>0, <2>3 DEF Fits
  <2>5. /\ Inv' /\ Queue!Request(b, <<"put", b, d>>)
        /\ Content'[b] = Readable(bufs[b]) \o d
    BY <2>2, <2>3, <2>4, RequestLemma
  <2>6. KeepsOf(bufs[b], Readable(bufs[b]))
    BY <1>0, SameIsKept
  <2>7. Queue!Added(b, d)
    BY <2>1, <2>5, <2>6, AddedLemma
  <2>8. Queue!Put(b, d)
    BY <2>5, <2>7 DEF Queue!Put
  <2> QED
    BY <2>1, <2>5, <2>8 DEF Queue!Next
<1>3. ASSUME NEW b \in Buffers, NEW v \in Uint, NEW cov \in BOOLEAN, AppendUint(b, v, cov)
      PROVE  Inv' /\ Queue!Next
  <2> DEFINE d == uint_bytes(bufs[b], v, cov)
  <2>1. d \in Seq(Byte) /\ d \in Data \cup Uint
    BY UintBytesLemma
  <2>2. Put(b, d) /\ call' = <<"put", b, d>>
    BY <1>3 DEF AppendUint
  <2> HIDE DEF d
  <2> QED
    BY <2>1, <2>2, PutCall
<1>4. ASSUME NEW b \in Buffers, NEW n \in Counts, EnsureWriteSpace(b, n)
      PROVE  Inv' /\ Queue!Next
  <2> DEFINE s == make_space(bufs[b], n)
  <2>1. n \in Nat
    BY BufferAssumption DEF Counts
  <2>2. /\ WF(s) /\ Fits(s) /\ KeepsOf(bufs[b], Readable(s))
        /\ Whole(bufs[b]) => Whole(s)
    BY <1>0, <2>1, MakeSpaceLemma
  <2>3. Set(b, s) /\ call' = <<"keep", b>>
    BY <1>4 DEF EnsureWriteSpace, ensure_write_space
  <2> HIDE DEF s
  <2> QED
    BY <2>2, <2>3, KeepCall
<1>5. ASSUME NEW b \in Buffers, NEW n \in Counts, Discard(b, n)
      PROVE  Inv' /\ Queue!Next
  <2>1. n <= readable_bytes(bufs[b])
    BY <1>5, InvWF, BufferAssumption DEF Discard, Counts
  <2> QED
    BY <1>5, <2>1, TakeCall DEF Discard
<1>6. ASSUME NEW b \in Buffers, NEW n \in Counts, Shrink(b, n)
      PROVE  Inv' /\ Queue!Next
  <2> DEFINE s == shrink(bufs[b], n)
  <2>1. n \in Nat
    BY BufferAssumption DEF Counts
  <2>2. WF(s) /\ Readable(s) = Readable(bufs[b]) /\ Whole(s) /\ Fits(s)
    BY <1>0, <2>1, ShrinkLemma DEF Fits
  <2>3. Set(b, s) /\ call' = <<"keep", b>>
    BY <1>6 DEF Shrink
  <2> HIDE DEF s
  <2>4. KeepsOf(bufs[b], Readable(s))
    BY <1>0, <2>2, SameIsKept
  <2> QED
    BY <2>2, <2>3, <2>4, KeepCall
<1>7. ASSUME NEW b \in Buffers, DiscardAll(b)
      PROVE  Inv' /\ Queue!Next
  <2> DEFINE n == readable_bytes(bufs[b])
  <2>1. n \in Counts /\ n <= n
    BY InvWF, BufferAssumption DEF Counts
  <2>2. discard(bufs[b], n) = discard_all(bufs[b])
    BY <2>1 DEF discard
  <2> HIDE DEF n
  <2>3. Set(b, discard(bufs[b], n)) /\ call' = <<"take", b, n>>
    BY <1>7, <2>2 DEF DiscardAll, n
  <2> QED
    BY <2>1, <2>3, TakeCall DEF n
<1>8. ASSUME NEW b \in Buffers, RetrieveString(b)
      PROVE  Inv' /\ Queue!Next
  <2> DEFINE n == find_char(bufs[b], Nul)
  <2>1. n \in 0 .. bufs[b].wt - bufs[b].rd
    BY <1>0, FindCharLemma
  <2>2. Set(b, discard(bufs[b], n)) /\ call' = <<"take", b, n>>
    BY <1>8 DEF RetrieveString
  <2> HIDE DEF n
  <2>3. n \in Counts /\ n <= readable_bytes(bufs[b])
    BY <2>1, InvWF, BufferAssumption DEF Counts
  <2> QED
    BY <2>2, <2>3, TakeCall
<1>9. ASSUME NEW b \in Buffers, NEW w \in UintSizes, RetrieveUint(b, w)
      PROVE  Inv' /\ Queue!Next
  <2>1. w \in Nat
    BY BufferAssumption
  <2>2. w \in Counts /\ w <= readable_bytes(bufs[b])
    BY <1>9, <2>1, InvWF, BufferAssumption DEF RetrieveUint, Counts
  <2> QED
    BY <1>9, <2>2, TakeCall DEF RetrieveUint
<1> QED
  BY <1>1, <1>2, <1>3, <1>4, <1>5, <1>6, <1>7, <1>8, <1>9, PutAllCall, PutSelfCall,
     ExchangeCall, OrderCall, TakeBackCall, ResizeCall DEF Next

\* A new buffer is well-formed, whole and empty.
LEMMA InitLemma ==
  ASSUME Init
  PROVE  Inv /\ Queue!Init
<1> DEFINE n == InitSize + m_resver_index
           c == [i \in 1 .. n |-> Nul]
           s == new(InitSize)
<1>1. n \in Nat /\ n >= 8 /\ n <= MaxStorage
  BY BufferAssumption DEF m_resver_index
<1>2. c \in [1 .. n -> Byte]
  BY BufferAssumption
<1>3. c \in Seq(Byte) /\ Len(c) = n
  BY <1>1, <1>2, FunctionIsSeq
<1>4. s = [c |-> c, size |-> n, rd |-> 8, wt |-> 8, order |-> "lite_endian"]
  BY DEF new, m_resver_index
<1> HIDE DEF c, n, s
<1>5. /\ WF(s) /\ Len(s.c) <= MaxStorage /\ s \in Buffer /\ s.rd = 8 /\ s.wt = 8
      /\ Whole(s) /\ storage(s) <= MaxStorage
  BY <1>1, <1>3, <1>4 DEF WF, Buffer, Orders, m_resver_index, Whole, storage
<1>6. bufs = [b \in Buffers |-> s] /\ call = <<"new">>
  BY DEF Init, s
<1>7. Inv
  BY <1>5, <1>6 DEF Inv, TypeOK
<1>8. Readable(s) \in Seq(Byte) /\ Len(Readable(s)) = 0
  BY <1>5, ReadableElements
<1>9. Readable(s) = <<>>
  BY <1>8, EmptySeq
<1>10. Content = [b \in Buffers |-> <<>>] /\ Cut = {}
  BY <1>5, <1>6, <1>9 DEF Content, Cut
<1> QED
  BY <1>6, <1>7, <1>10 DEF Queue!Init, Content, Cut
-------------------------------------------------------------------------------
(* The theorems.                                                           *)

\* The indices of a buffer and the vector stay within memory that belonged to the
\* vector, after any calls, a resize() to any size and an append() to itself
\* included.
THEOREM InvHolds == Spec => []Inv
<1>1. Init => Inv
  BY InitLemma
<1>2. Inv /\ [Next]_vars => Inv'
  <2>1. Inv /\ UNCHANGED vars => Inv'
    BY DEF vars, Inv, TypeOK
  <2> QED
    BY <2>1, StepLemma
<1> QED
  BY <1>1, <1>2, PTL DEF Spec

\* The variables keep their types and the bound.
THEOREM BufferTypes == Spec => []TypeOK
<1>1. Inv => TypeOK
  BY DEF Inv
<1> QED
  BY InvHolds, <1>1, PTL

\* While no buffer is cut, a request of the queue that is no resize cuts none.
LEMMA OnlyResizeCutsQueue ==
  ASSUME Queue!Next, Cut = {}
  PROVE  Cut' = {} \/ \E b \in Buffers : call' = <<"resize", b>>
<1>1. ASSUME NEW b \in Buffers, NEW what, Queue!Request(b, what)
      PROVE  Cut' = {}
  BY <1>1 DEF Queue!Request, Cut
<1>2. ASSUME NEW a \in Buffers, NEW b \in Buffers, Queue!Exchange(a, b)
      PROVE  Cut' = {}
  BY <1>2 DEF Queue!Exchange, Cut
<1>3. ASSUME NEW b \in Buffers, Queue!Resize(b)
      PROVE  call' = <<"resize", b>>
  BY <1>3 DEF Queue!Resize
<1> QED
  BY <1>1, <1>2, <1>3 DEF Queue!Next, Queue!Put, Queue!PutAll, Queue!PutSelf,
       Queue!Take, Queue!TakeBack, Queue!Keep

\* Only resize() breaks reserve index <= read index <= write index <= size of the
\* vector, for any number of buffers, of any size, for any size_t that can count
\* twice the storage.
THEOREM RegionsStayInOrder == Spec => OnlyResizeCuts
<1>1. Inv => (IndexOrder <=> Cut = {})
  <2> SUFFICES ASSUME Inv PROVE IndexOrder <=> Cut = {}
    OBVIOUS
  <2>1. \A b \in Buffers : InOrder(bufs[b]) <=> Whole(bufs[b])
    BY InvWF DEF WF, InOrder
  <2> QED
    BY <2>1 DEF IndexOrder, Cut
<1>2. Inv' => (IndexOrder' <=> (Cut = {})')
  BY <1>1, PTL
<1>3. Inv /\ Inv' /\ [Next]_vars =>
        [IndexOrder /\ ~IndexOrder' => \E b \in Buffers : call' = <<"resize", b>>]_vars
  <2> SUFFICES ASSUME Inv, Inv', [Next]_vars, IndexOrder, ~IndexOrder'
               PROVE  (\E b \in Buffers : call' = <<"resize", b>>) \/ UNCHANGED vars
    OBVIOUS
  <2>2. CASE Next
    BY <1>1, <1>2, <2>2, StepLemma, OnlyResizeCutsQueue
  <2> QED
    BY <2>2
<1> QED
  BY <1>3, InvHolds, PTL DEF Spec, OnlyResizeCuts

\* ensure_write_space() keeps its promise in every reachable state in which the
\* write index is within the vector.
THEOREM AppendFindsSpace == Spec => []SpaceEnsured
<1>1. Inv => SpaceEnsured
  <2> SUFFICES ASSUME Inv, NEW b \in Buffers, NEW n \in Counts, Whole(bufs[b])
               PROVE  HasRoom(ensure_write_space(bufs[b], n), n)
    BY DEF SpaceEnsured
  <2>1. n \in Nat /\ ensure_write_space(bufs[b], n) = make_space(bufs[b], n)
    BY BufferAssumption DEF Counts, ensure_write_space
  <2> QED
    BY <2>1, InvWF, MakeSpaceLemma
<1> QED
  BY InvHolds, <1>1, PTL

\* An integer of any size, of either byte order, on a machine of either byte
\* order, is read back as it was appended.
THEOREM IntegersSurvive == Spec => []IntegerRoundTrip
<1>1. Inv => IntegerRoundTrip
  <2> SUFFICES ASSUME Inv, NEW b \in Buffers, NEW v \in Uint, NEW cov \in BOOLEAN,
                      NEW t, t = discard(append_uint(bufs[b], v, cov), readable_bytes(bufs[b])),
                      Whole(bufs[b])
               PROVE  /\ read_uint(t, Len(v), cov) = v
                      /\ cov /\ bufs[b].order = "big_endian" => Readable(t) = v
    BY DEF IntegerRoundTrip
  <2>1. PICK w \in UintSizes : v \in [1 .. w -> Byte]
    BY DEF Uint
  <2>2. w \in Nat /\ Len(v) = w
    BY <2>1, BufferAssumption, FunctionIsSeq
  <2> DEFINE d == uint_bytes(bufs[b], v, cov)
  <2>3. /\ (IF cov THEN byteorder_value(bufs[b].order, Memory(d)) ELSE Memory(d)) = v
        /\ d \in [1 .. w -> Byte]
        /\ cov /\ bufs[b].order = "big_endian" => d = v
    BY <2>1, <2>2, ConversionTwice
  <2>4. t = discard(append(bufs[b], d), readable_bytes(bufs[b]))
    BY DEF append_uint
  <2> HIDE DEF d
  <2>5. d \in Seq(Byte) /\ Len(d) = w
    BY <2>2, <2>3, FunctionIsSeq
  <2>6. /\ Readable(t) = d /\ t.order = bufs[b].order
        /\ SubSeq(t.c, t.rd + 1, t.rd + w) = d
    BY <2>4, <2>5, InvWF, AppendedIsLeft
  <2> QED
    BY <2>2, <2>3, <2>6 DEF read_uint, read_integer
<1> QED
  BY InvHolds, <1>1, PTL

\* A bytebuffer implements the queue of bytes that a resize may cut.
THEOREM RefinesByteQueue == Spec => ImplementsByteQueue
<1>1. Init => Queue!Init
  BY InitLemma
<1>2. Inv /\ [Next]_vars => [Queue!Next]_(Queue!vars)
  <2>1. UNCHANGED vars => UNCHANGED Queue!vars
    BY DEF vars, Queue!vars
  <2> QED
    BY <2>1, StepLemma
<1> QED
  BY InvHolds, <1>1, <1>2, PTL DEF Spec, ImplementsByteQueue, Queue!Spec
================================================================================
