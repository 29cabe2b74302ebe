------------------------------- MODULE ByteBuffer ------------------------------
(***************************************************************************)
(* muradin::net::bytebuffer.  A buffer is a vector of bytes and two        *)
(* indices into it, meant to be in this order:                             *)
(*                                                                         *)
(*    0 .. m_resver_index .. m_rd_index .. m_wt_index .. storage()         *)
(*                                                                         *)
(* c is the memory of the vector, as far as it was ever in use, and size   *)
(* is its size(): resize() can make that smaller and leaves the memory and *)
(* the indices as they are.  Byte k of the memory is c[k + 1].             *)
(*                                                                         *)
(* The member functions are operators from a buffer to a buffer; an action *)
(* is one call.  A call in which an assert() fails ends the program and is *)
(* no step.  size_t arithmetic wraps at SizeMod.  An unsigned integer is   *)
(* the sequence of its bytes, most significant first.                      *)
(***************************************************************************)
EXTENDS Integers, Sequences

CONSTANTS Buffers,
          Byte,
          Nul,                 \* the byte zero
          Data,                \* byte strings given to append()
          UintSizes,           \* sizes of the integers
          k_system_byteorder,  \* byte order of the machine
          InitSize,            \* the constructor's size
          MaxStorage,          \* bound on storage()
          SizeMod              \* 2 to the width of size_t

Orders == {"lite_endian", "big_endian"}
m_resver_index == 8
Counts == 0 .. MaxStorage

ASSUME BufferAssumption ==
  /\ Nul \in Byte
  /\ Data \subseteq Seq(Byte)
  /\ UintSizes \subseteq Nat \ {0}
  /\ k_system_byteorder \in Orders
  /\ InitSize \in Nat /\ MaxStorage \in Nat /\ SizeMod \in Nat
  /\ InitSize + m_resver_index <= MaxStorage
  /\ 2 * MaxStorage < SizeMod

VARIABLES bufs,      \* the buffers
          call       \* history: the last call

vars == <<bufs, call>>

Buffer == [c : Seq(Byte), size : Nat, rd : Nat, wt : Nat, order : Orders]
Uint == UNION {[1 .. w -> Byte] : w \in UintSizes}

new(size) ==
  [c     |-> [i \in 1 .. size + m_resver_index |-> Nul],
   size  |-> size + m_resver_index,
   rd    |-> m_resver_index,
   wt    |-> m_resver_index,
   order |-> "lite_endian"]

Init == /\ bufs = [b \in Buffers |-> new(InitSize)]
        /\ call = <<"new">>
-------------------------------------------------------------------------------
(* Sizes.                                                                  *)

storage(b) == b.size
readable_bytes(b) == b.wt - b.rd
writeable_bytes(b) == (storage(b) - b.wt) % SizeMod
discardable_bytes(b) == b.rd - m_resver_index

\* The write index is within the vector.
Whole(b) == b.wt <= storage(b)

\* The buffer b with the given memory and size, and with the given indices.
With(b, c, size) == [c |-> c, size |-> size, rd |-> b.rd, wt |-> b.wt, order |-> b.order]
At(b, rd, wt) == [c |-> b.c, size |-> b.size, rd |-> rd, wt |-> wt, order |-> b.order]

\* The bytes between rd_ptr() and wt_ptr().
Readable(b) == SubSeq(b.c, b.rd + 1, b.wt)
-------------------------------------------------------------------------------
(* Member functions.                                                       *)

\* std::vector::resize: what is behind the old size is zero.
vector_resize(b, n) ==
  With(b, [i \in 1 .. IF n > Len(b.c) THEN n ELSE Len(b.c) |->
             IF i > storage(b) /\ i <= n THEN Nul ELSE b.c[i]], n)

\* Mutant: only the write index is reset.
discard_all_KeepsReader(b) == At(b, b.rd, m_resver_index)

discard_all(b) == At(b, m_resver_index, m_resver_index)

discard(b, bytes) ==
  IF readable_bytes(b) <= bytes THEN discard_all(b) ELSE At(b, b.rd + bytes, b.wt)

rollback_write(b, bytes) ==
  IF readable_bytes(b) <= bytes THEN discard_all(b) ELSE At(b, b.rd, b.wt - bytes)

resize(b, new_capacity) == vector_resize(b, new_capacity + m_resver_index)

\* n bytes of memory with the readable bytes at m_resver_index and the bytes of c
\* elsewhere.
moved_down(b, c, n) ==
  [i \in 1 .. n |-> IF i > m_resver_index /\ i <= m_resver_index + readable_bytes(b)
                      THEN b.c[i - m_resver_index + b.rd]
                      ELSE c[i]]

compact(b) == At(With(b, moved_down(b, b.c, Len(b.c)), storage(b)),
                 m_resver_index, m_resver_index + readable_bytes(b))

\* The test of make_space(): moving the readable bytes does not give the space.
TooSmall(b, bytes) == (discardable_bytes(b) + writeable_bytes(b)) % SizeMod < bytes

\* Mutant: the new size forgets what is already in the vector.
make_space_FromZero(b, bytes) ==
  IF TooSmall(b, bytes) THEN vector_resize(b, bytes + m_resver_index) ELSE compact(b)

make_space(b, bytes) ==
  IF TooSmall(b, bytes) THEN vector_resize(b, bytes + b.wt) ELSE compact(b)

ensure_write_space(b, bytes) == make_space(b, bytes)

\* The assert() of has_written().
HasRoom(b, bytes) == storage(b) >= b.wt + bytes

has_written(b, bytes) == At(b, b.rd, b.wt + bytes)

\* Bytes copied to wt_ptr().
copy_to_wt(b, d) ==
  With(b, [i \in 1 .. Len(b.c) |->
             IF i > b.wt /\ i <= b.wt + Len(d) THEN d[i - b.wt] ELSE b.c[i]], storage(b))

\* Mutant: the write position is taken before the space is made.
append_StalePosition(b, d) ==
  LET s == ensure_write_space(b, Len(d))
  IN  has_written(copy_to_wt(At(s, s.rd, b.wt), d), Len(d))

append(b, d) ==
  has_written(copy_to_wt(ensure_write_space(b, Len(d)), d), Len(d))

shrink(b, resver_bytes) ==
  LET n   == m_resver_index + readable_bytes(b) + resver_bytes
      buf == [i \in 1 .. n |-> Nul]
  IN  At(With(b, moved_down(b, buf, n), n), m_resver_index, m_resver_index + readable_bytes(b))

\* Distance, from one, of the first ch in the readable bytes; zero if none.
find_char(b, ch) ==
  LET found == {i \in 1 .. readable_bytes(b) : b.c[b.rd + i] = ch}
  IN  IF found = {} THEN 0 ELSE CHOOSE i \in found : \A j \in found : i <= j
-------------------------------------------------------------------------------
(* Integers.                                                               *)

swap_bytes(v) == [i \in 1 .. Len(v) |-> v[Len(v) + 1 - i]]

\* htobeNN / htoleNN: the value whose bytes in memory have the given order.
byteorder_value(order, v) == IF order = k_system_byteorder THEN v ELSE swap_bytes(v)

\* The bytes of a value in memory, and the value of bytes in memory.
Memory(v) == IF k_system_byteorder = "big_endian" THEN v ELSE swap_bytes(v)

read_integer(b, w) == Memory(SubSeq(b.c, b.rd + 1, b.rd + w))

\* Mutant: the value is stored as it is.
uint_bytes_NoConversion(b, v, byteorder_cov) == Memory(v)

\* What append_uintNN(v, byteorder_cov) hands to append().
uint_bytes(b, v, byteorder_cov) ==
  Memory(IF byteorder_cov THEN byteorder_value(b.order, v) ELSE v)

append_uint(b, v, byteorder_cov) == append(b, uint_bytes(b, v, byteorder_cov))

read_uint(b, w, byteorder_cov) ==
  IF byteorder_cov THEN byteorder_value(b.order, read_integer(b, w)) ELSE read_integer(b, w)
-------------------------------------------------------------------------------
(* Calls.                                                                  *)

\* The buffer b becomes s, within the bound.
Set(b, s) == storage(s) <= MaxStorage /\ bufs' = [bufs EXCEPT ![b] = s]

\* append() where has_written() finds the room it asserts.
Put(b, d) ==
  /\ HasRoom(ensure_write_space(bufs[b], Len(d)), Len(d))
  /\ Set(b, append(bufs[b], d))

Append_(b, d) ==
  /\ Put(b, d)
  /\ call' = <<"put", b, d>>

AppendBuffer(b, another) ==
  /\ b # another
  /\ Put(b, Readable(bufs[another]))
  /\ call' = <<"putall", b, another>>

\* append(*this): the pointer that is copied from was taken before the space is
\* made.  When bytes are moved it stays where it was; when the vector grows, the
\* memory it points to may be given back, and anything may be there.
AppendSelf(b) ==
  LET old == bufs[b]
      n   == readable_bytes(old)
      s   == ensure_write_space(old, n)
  IN  /\ HasRoom(s, n)
      /\ \E d \in IF TooSmall(old, n) THEN [1 .. n -> Byte]
                                      ELSE {SubSeq(s.c, old.rd + 1, old.rd + n)} :
           Set(b, has_written(copy_to_wt(s, d), n))
      /\ call' = <<"putself", b>>

AppendUint(b, v, byteorder_cov) ==
  /\ Put(b, uint_bytes(bufs[b], v, byteorder_cov))
  /\ call' = <<"put", b, uint_bytes(bufs[b], v, byteorder_cov)>>

\* The caller copies d to wt_ptr() and reports it.
HasWritten(b, d) ==
  /\ HasRoom(bufs[b], Len(d))
  /\ Set(b, has_written(copy_to_wt(bufs[b], d), Len(d)))
  /\ call' = <<"put", b, d>>

EnsureWriteSpace(b, n) ==
  /\ Set(b, ensure_write_space(bufs[b], n))
  /\ call' = <<"keep", b>>

Discard(b, n) ==
  /\ readable_bytes(bufs[b]) >= n
  /\ Set(b, discard(bufs[b], n))
  /\ call' = <<"take", b, n>>

DiscardAll(b) ==
  /\ Set(b, discard_all(bufs[b]))
  /\ call' = <<"take", b, readable_bytes(bufs[b])>>

RollbackWrite(b, n) ==
  /\ readable_bytes(bufs[b]) >= n
  /\ Set(b, rollback_write(bufs[b], n))
  /\ call' = <<"takeback", b, n>>

\* retrieve_uintNN(): read_uintNN() and discard.
RetrieveUint(b, w) ==
  /\ readable_bytes(bufs[b]) >= w
  /\ Set(b, discard(bufs[b], w))
  /\ call' = <<"take", b, w>>

RetrieveString(b) ==
  LET pos == find_char(bufs[b], Nul)
  IN  /\ pos # 0
      /\ Set(b, discard(bufs[b], pos))
      /\ call' = <<"take", b, pos>>

Resize(b, n) ==
  /\ Set(b, resize(bufs[b], n))
  /\ call' = <<"resize", b>>

Shrink(b, n) ==
  /\ Set(b, shrink(bufs[b], n))
  /\ call' = <<"keep", b>>

SetByteOrder(b, order) ==
  /\ bufs' = [bufs EXCEPT ![b].order = order]
  /\ call' = <<"keep", b>>

Swap(b, another) ==
  /\ bufs' = [bufs EXCEPT ![b] = bufs[another], ![another] = bufs[b]]
  /\ call' = <<"exchange", b, another>>

Next ==
  \/ \E b \in Buffers, d \in Data : Append_(b, d) \/ HasWritten(b, d)
  \/ \E b, another \in Buffers : AppendBuffer(b, another) \/ Swap(b, another)
  \/ \E b \in Buffers, v \in Uint, cov \in BOOLEAN : AppendUint(b, v, cov)
  \/ \E b \in Buffers, n \in Counts :
       \/ EnsureWriteSpace(b, n) \/ Discard(b, n) \/ RollbackWrite(b, n)
       \/ Resize(b, n) \/ Shrink(b, n)
  \/ \E b \in Buffers : AppendSelf(b) \/ DiscardAll(b) \/ RetrieveString(b)
  \/ \E b \in Buffers, w \in UintSizes : RetrieveUint(b, w)
  \/ \E b \in Buffers, order \in Orders : SetByteOrder(b, order)

Spec == Init /\ [][Next]_vars
-------------------------------------------------------------------------------
(* Properties.                                                             *)

\* The ranges of the variables.
TypeOK ==
  /\ bufs \in [Buffers -> Buffer]
  /\ \A b \in Buffers : storage(bufs[b]) <= MaxStorage

\* The picture at the head of bytebuffer.h: the regions of a buffer follow one
\* another and end with its capacity.  resize() below the write index breaks it.
InOrder(b) == /\ m_resver_index <= b.rd /\ b.rd <= b.wt /\ Whole(b)
IndexOrder == \A b \in Buffers : InOrder(bufs[b])

\* No call but resize() breaks the picture: neither growing, moving or shrinking,
\* nor an append() to itself or a swap().
OnlyResizeCuts ==
  [][IndexOrder /\ ~IndexOrder' => \E b \in Buffers : call' = <<"resize", b>>]_vars

\* ensure_write_space(n) gives n bytes behind the write index, by moving or by
\* growing, if that index is within the vector: the assert() of has_written()
\* holds in every append().
SpaceEnsured ==
  \A b \in Buffers, n \in Counts :
    Whole(bufs[b]) => HasRoom(ensure_write_space(bufs[b], n), n)

\* An integer appended behind other bytes is read back with its value when those
\* are discarded, whether the append moved the bytes or grew the vector; in
\* network order its most significant byte comes first on the wire.
IntegerRoundTrip ==
  \A b \in Buffers, v \in Uint, cov \in BOOLEAN :
    LET s == append_uint(bufs[b], v, cov)
        t == discard(s, readable_bytes(bufs[b]))
    IN  Whole(bufs[b]) =>
          /\ read_uint(t, Len(v), cov) = v
          /\ cov /\ bufs[b].order = "big_endian" => Readable(t) = v

\* A bytebuffer is a queue of bytes: no call loses, repeats or reorders bytes that
\* are readable, or brings back bytes that are not, until a resize() cuts into
\* them; and even then their number is right.
Queue == INSTANCE ByteQueue
           WITH Strings <- Data \cup Uint,
                content <- [b \in Buffers |-> Readable(bufs[b])],
                cut <- {b \in Buffers : ~Whole(bufs[b])}

ImplementsByteQueue == Queue!Spec
================================================================================
