---------------------------- MODULE PingPongRingProofs -------------------------
(***************************************************************************)
(* The bytes that go round between the ping-pong sessions, for every size  *)
(* of a block, every number of endpoints and every capacity of the pipes:  *)
(* the totals the client prints are at most a block apart (TotalsClose),   *)
(* and while the connection stands the bytes are the block, rotated        *)
(* (RingIntact).                                                           *)
(*                                                                         *)
(* Both rest on the invariant of PingPongProofs, which says which          *)
(* operations are outstanding for each count of unsent answers.            *)
(***************************************************************************)
EXTENDS PingPongProofs

\* The read operation has the read buffer; a write that is not there has written
\* nothing.
Shape(x) ==
  /\ x.r.st # "no" => x.r.buf = x.read
  /\ x.w.st = "no" => x.off = 0
-------------------------------------------------------------------------------
(* The totals.  What the client's operations have written and read is      *)
(* ahead, with what is in the operations and not counted yet (Out).  That  *)
(* and what the client still holds is at most a block; and it covers what  *)
(* is outside the client, until one of its writes fails (Failed): then the *)
(* bytes the write had written are not counted, but nothing more is read.  *)

\* How many bytes a session is writing, has to answer, and both.
LeavingLen(x) == IF x.w.st = "wait" THEN x.w.len ELSE 0
HeldLen(x) == IF x.r.st = "ok" THEN x.r.len ELSE IF x.count = 2 THEN x.length ELSE 0
Going(x) == LeavingLen(x) + HeldLen(x)

\* What an ended read has brought; whether a write has failed.
JustRead(x) == IF x.r.st = "ok" THEN x.r.len ELSE 0
Failed(x) == x.w.st = "err" \/ (x.w.st = "no" /\ x.count # 0)

\* What a counts, corrected by what is in the operations.
Balance(x, a, outside) ==
  /\ a + x.off - JustRead(x) + Going(x) <= block_size
  /\ IF Failed(x) THEN x.r.st # "wait" /\ -block_size <= a - JustRead(x)
                  ELSE outside <= a + x.off - JustRead(x)

\* The bytes that are not with the client.
Outside == Going(ses["server"]) + Len(pipe["client"]) + Len(pipe["server"])

\* The invariant of the totals.
TInv ==
  /\ \A s \in Sides : Shape(ses[s])
  /\ conn # "done" => ahead = 0
  /\ Balance(ses["client"], ahead, Outside)
  /\ IF returned THEN stats \in -block_size .. block_size ELSE stats = 0
-------------------------------------------------------------------------------
(* The ring.                                                               *)

\* A session none of whose operations has failed.
Live(x) == /\ x.r.st # "err" /\ x.w.st # "err"
           /\ x.w.st = "no" => x.count = 0

\* The bytes a session has, the first to leave first.
Carried(x) == Leaving(x) \o Held(x)

\* A session that has nothing to answer.
Quiet(x) == x.count = 0 /\ x.w.st = "no" /\ x.r.st # "ok"

\* The bytes of the block, from the k-th on and round to it again.
Turned(q) ==
  /\ Len(q) = block_size
  /\ \E k \in 1 .. block_size : \A i \in 1 .. block_size :
       q[i] = IF k + i - 1 <= block_size THEN k + i - 1 ELSE k + i - 1 - block_size

\* The bytes a server's session, the pipe to it, a client's session and the other
\* pipe have.
RingOf(cs, pc, cc, ps) == ((cs \o pc) \o cc) \o ps

\* The ring, each session as one sequence.
Circle == RingOf(Carried(ses["server"]), pipe["client"], Carried(ses["client"]), pipe["server"])

\* Before the client sends its block.
Untouched ==
  /\ ses["client"].read = 1 /\ ses["client"].data[2] = Block
  /\ pipe["client"] = <<>> /\ pipe["server"] = <<>>
  /\ Quiet(ses["server"])

\* The invariant of the ring.
RInv ==
  /\ conn # "done" => Untouched
  /\ Whole => Live(ses["server"])
  /\ Whole /\ conn = "done" => Live(ses["client"]) /\ Turned(Circle)
-------------------------------------------------------------------------------
(* What the operators make of a session, field by field.                   *)

\* y is x with both operations started, n bytes to write.
Started(x, y, n, st) ==
  /\ y.data = x.data /\ y.read = x.read /\ y.length = x.length /\ y.count = x.count
  /\ y.off = 0
  /\ y.w = [st |-> st, buf |-> 3 - x.read, len |-> n]
  /\ y.r = [st |-> st, buf |-> x.read, len |-> 0]

\* Both operations are started where none is outstanding.
LEMMA BothStarted ==
  ASSUME NEW x \in Sessions, NEW n \in 0 .. block_size, NEW st \in {"wait", "err"},
         "r" \notin x.in_use, "w" \notin x.in_use,
         NEW y, y = async_read_some(async_write(x, n, st), st)
  PROVE  Started(x, y, n, st)
<1> DEFINE w == [st |-> st, buf |-> 3 - x.read, len |-> n]
           r == [st |-> st, buf |-> x.read, len |-> 0]
           t == allocate(x, "w")
           v == [t EXCEPT !.w = w, !.off = 0]
           u == allocate(v, "r")
<1>1. async_write(x, n, st) = v
  BY DEF async_write
<1>2. w \in Ops /\ Allocated(x, t, "w") /\ "r" \notin t.in_use
  <2>1. w \in Ops
    BY DEF Sessions, Ops
  <2>2. Allocated(x, t, "w")
    BY AllocateKeeps
  <2> HIDE DEF t
  <2> QED BY <2>1, <2>2, NotTaken
<1> HIDE DEF w, r, t
<1>3. /\ v.data = x.data /\ v.read = x.read /\ v.length = x.length /\ v.count = x.count
      /\ v.off = 0 /\ v.w = w /\ "r" \notin v.in_use /\ v \in Sessions
  BY <1>2, Sizes DEF Allocated, Sessions
<1> HIDE DEF v
<1>4. y = [u EXCEPT !.r = r] /\ Allocated(v, u, "r")
  BY <1>1, <1>3, AllocateKeeps DEF async_read_some, r
<1> HIDE DEF u
<1>5. /\ y.data = v.data /\ y.read = v.read /\ y.length = v.length /\ y.count = v.count
      /\ y.off = v.off /\ y.w = v.w /\ y.r = r
  BY <1>4 DEF Allocated, Sessions
<1> QED BY <1>3, <1>5 DEF w, r, Started

\* What a handler leaves of x: an operation that failed is gone.
ReadGone(x, y) ==
  /\ y.data = x.data /\ y.read = x.read /\ y.length = x.length /\ y.count = x.count
  /\ y.r.st = "no" /\ y.w = x.w /\ y.off = x.off

\* A failed write.
WriteGone(x, y) ==
  /\ y.data = x.data /\ y.read = x.read /\ y.length = x.length /\ y.count = x.count
  /\ y.w.st = "no" /\ y.r = x.r /\ y.off = 0

\* n bytes are answered and more is read.
Answers(x, y, n, st) ==
  /\ y.data = x.data /\ y.read = 3 - x.read /\ y.count = 1 /\ y.off = 0
  /\ y.w.st = st /\ y.w.buf = x.read /\ y.w.len = n
  /\ y.r.st = st /\ y.r.buf = 3 - x.read

\* The answer waits for the write under way.
AnswerWaits(x, y) ==
  /\ y.data = x.data /\ y.read = x.read /\ y.length = x.r.len /\ y.count = 2
  /\ y.r.st = "no" /\ y.w = x.w /\ y.off = x.off

\* The write is done and nothing waits.
NoneWaits(x, y) ==
  /\ y.data = x.data /\ y.read = x.read /\ y.count = 0
  /\ y.w.st = "no" /\ y.r = x.r /\ y.off = 0

\* The handler of a read: it failed, it is answered at once, or it waits for the
\* write.
LEMMA ReceivedIs ==
  ASSUME NEW x \in Sessions, Phase(x), Ended(x.r), NEW st \in {"wait", "err"},
         NEW y, y = Received(x, st)
  PROVE  \/ x.r.st = "err" /\ x.count # 2 /\ ReadGone(x, y)
         \/ x.r.st = "ok" /\ x.count = 0 /\ x.w.st = "no" /\ Answers(x, y, x.r.len, st)
         \/ x.r.st = "ok" /\ x.count = 1 /\ AnswerWaits(x, y)
<1> DEFINE d == [x EXCEPT !.in_use = @ \ {"r"}, !.r = Idle]
           z == [d EXCEPT !.length = x.r.len, !.count = @ + 1]
           u == [z EXCEPT !.read = 3 - @]
<1>1. y = IF x.r.st = "err" THEN d ELSE IF z.count = 1 THEN Exchange(z, st) ELSE z
  BY DEF Received, deallocate, Sessions
<1>2. /\ d.data = x.data /\ d.read = x.read /\ d.length = x.length /\ d.count = x.count
      /\ d.r = Idle /\ d.w = x.w /\ d.off = x.off /\ d.in_use = x.in_use \ {"r"}
      /\ d \in Sessions
  BY Sizes DEF Sessions, Ops, Idle
<1>3. /\ x.count \in {0, 1, 2} /\ x.r.st \in {"ok", "err"} /\ x.r.len \in 0 .. block_size
      /\ x.read \in {1, 2} /\ 3 - x.read \in {1, 2} /\ x.count + 1 \in 0 .. 2
      /\ x.count # 2 /\ (x.count = 0 => x.w.st = "no" /\ "w" \notin x.in_use)
  BY DEF Sessions, Ops, Ended, Phase
<1> HIDE DEF d
<1>4. /\ z.data = x.data /\ z.read = x.read /\ z.length = x.r.len /\ z.count = x.count + 1
      /\ z.r = Idle /\ z.w = x.w /\ z.off = x.off /\ z.in_use = d.in_use
      /\ z \in Sessions
  BY <1>2, <1>3 DEF Sessions
<1> HIDE DEF z
<1>5. CASE x.r.st = "err"
  BY <1>1, <1>2, <1>3, <1>5 DEF ReadGone, Idle
<1>6. CASE x.r.st = "ok" /\ x.count = 0
  <2>1. /\ u.data = x.data /\ u.read = 3 - x.read /\ u.length = x.r.len /\ u.count = 1
        /\ u \in Sessions /\ "r" \notin u.in_use /\ "w" \notin u.in_use
    BY <1>2, <1>3, <1>4, <1>6 DEF Sessions
  <2>2. y = async_read_some(async_write(u, x.r.len, st), st)
    BY <1>1, <1>4, <1>6 DEF Exchange
  <2> HIDE DEF u
  <2>3. Started(u, y, x.r.len, st)
    BY <1>3, <2>1, <2>2, BothStarted
  <2>4. 3 - u.read = x.read
    BY <1>3, <2>1
  <2> QED BY <1>3, <1>6, <2>1, <2>3, <2>4 DEF Started, Answers
<1>7. CASE x.r.st = "ok" /\ x.count # 0
  <2>1. x.count = 1 /\ z.count = 2
    BY <1>3, <1>4, <1>7
  <2> QED BY <1>1, <1>4, <1>7, <2>1 DEF AnswerWaits, Idle
<1> QED BY <1>3, <1>5, <1>6, <1>7

\* The handler of a write: it failed, the answer that waits is next, or there is
\* none.
LEMMA SentIs ==
  ASSUME NEW x \in Sessions, Phase(x), Ended(x.w), NEW st \in {"wait", "err"},
         NEW y, y = Sent(x, st)
  PROVE  \/ x.w.st = "err" /\ x.count # 0 /\ WriteGone(x, y)
         \/ x.w.st = "ok" /\ x.count = 2 /\ x.r.st = "no" /\ Answers(x, y, x.length, st)
         \/ x.w.st = "ok" /\ x.count = 1 /\ NoneWaits(x, y)
<1> DEFINE d == [x EXCEPT !.in_use = @ \ {"w"}, !.w = Idle, !.off = 0]
           z == [d EXCEPT !.count = @ - 1]
           u == [z EXCEPT !.read = 3 - @]
<1>1. y = IF x.w.st = "err" THEN d ELSE IF z.count = 1 THEN Exchange(z, st) ELSE z
  BY DEF Sent, deallocate, Sessions
<1>2. /\ d.data = x.data /\ d.read = x.read /\ d.length = x.length /\ d.count = x.count
      /\ d.w = Idle /\ d.r = x.r /\ d.off = 0 /\ d.in_use = x.in_use \ {"w"}
      /\ d \in Sessions
  BY Sizes DEF Sessions, Ops, Idle
<1>3. /\ x.count \in {0, 1, 2} /\ x.w.st \in {"ok", "err"} /\ x.length \in 0 .. block_size
      /\ x.read \in {1, 2} /\ 3 - x.read \in {1, 2} /\ x.count - 1 \in 0 .. 2
      /\ x.count # 0 /\ (x.count = 2 => x.r.st = "no" /\ "r" \notin x.in_use)
  BY DEF Sessions, Ops, Ended, Phase
<1> HIDE DEF d
<1>4. /\ z.data = x.data /\ z.read = x.read /\ z.length = x.length /\ z.count = x.count - 1
      /\ z.w = Idle /\ z.r = x.r /\ z.off = 0 /\ z.in_use = d.in_use
      /\ z \in Sessions
  BY <1>2, <1>3 DEF Sessions
<1> HIDE DEF z
<1>5. CASE x.w.st = "err"
  BY <1>1, <1>2, <1>3, <1>5 DEF WriteGone, Idle
<1>6. CASE x.w.st = "ok" /\ x.count = 2
  <2>1. /\ u.data = x.data /\ u.read = 3 - x.read /\ u.length = x.length /\ u.count = 1
        /\ u \in Sessions /\ "r" \notin u.in_use /\ "w" \notin u.in_use
    BY <1>2, <1>3, <1>4, <1>6 DEF Sessions
  <2>2. y = async_read_some(async_write(u, x.length, st), st)
    BY <1>1, <1>4, <1>6 DEF Exchange
  <2> HIDE DEF u
  <2>3. Started(u, y, x.length, st)
    BY <1>3, <2>1, <2>2, BothStarted
  <2>4. 3 - u.read = x.read
    BY <1>3, <2>1
  <2> QED BY <1>3, <1>6, <2>1, <2>3, <2>4 DEF Started, Answers
<1>7. CASE x.w.st = "ok" /\ x.count # 2
  <2>1. x.count = 1 /\ z.count = 0
    BY <1>3, <1>4, <1>7
  <2> QED BY <1>1, <1>4, <1>7, <2>1 DEF NoneWaits, Idle
<1> QED BY <1>3, <1>5, <1>6, <1>7

\* n bytes written, n bytes of p read.
WroteOf(x, y, n) ==
  /\ y.data = x.data /\ y.read = x.read /\ y.length = x.length /\ y.count = x.count
  /\ y.r = x.r /\ y.off = x.off + n
  /\ y.w.buf = x.w.buf /\ y.w.len = x.w.len - n
  /\ y.w.st = IF n = x.w.len THEN "ok" ELSE "wait"

\* The same of n bytes of p that are read.
FilledOf(x, y, p, n) ==
  /\ y.data = [x.data EXCEPT ![x.r.buf] =
                 [i \in 1 .. block_size |-> IF i <= n THEN p[i] ELSE 0]]
  /\ y.read = x.read /\ y.length = x.length /\ y.count = x.count
  /\ y.w = x.w /\ y.off = x.off
  /\ y.r.st = "ok" /\ y.r.buf = x.r.buf /\ y.r.len = n

\* Wrote() by its fields.
LEMMA WroteIs ==
  ASSUME NEW x \in Sessions, NEW n, NEW y, y = Wrote(x, n)
  PROVE  WroteOf(x, y, n)
<1> DEFINE w == [st |-> IF n = x.w.len THEN "ok" ELSE "wait", buf |-> x.w.buf,
                 len |-> x.w.len - n]
<1>1. y = [x EXCEPT !.off = @ + n, !.w = w]
  BY DEF Wrote
<1> HIDE DEF w
<1>2. /\ y.data = x.data /\ y.read = x.read /\ y.length = x.length /\ y.count = x.count
      /\ y.r = x.r /\ y.off = x.off + n /\ y.w = w
  BY <1>1 DEF Sessions
<1> QED BY <1>2 DEF w, WroteOf

\* Filled() by its fields.
LEMMA FilledIs ==
  ASSUME NEW x \in Sessions, NEW p, NEW n, NEW y, y = Filled(x, p, n)
  PROVE  FilledOf(x, y, p, n)
<1> DEFINE b == [i \in 1 .. block_size |-> IF i <= n THEN p[i] ELSE 0]
           r == [st |-> "ok", buf |-> x.r.buf, len |-> n]
           d == [x.data EXCEPT ![x.r.buf] = b]
<1>1. y = [x EXCEPT !.data = d, !.r = r]
  BY DEF Filled
<1> HIDE DEF b, r, d
<1>2. /\ y.data = d /\ y.read = x.read /\ y.length = x.length /\ y.count = x.count
      /\ y.w = x.w /\ y.off = x.off /\ y.r = r
  BY <1>1 DEF Sessions
<1> QED BY <1>2 DEF b, r, d, FilledOf

\* Aborted() by its fields: what waited has ended.
AbortedOf(x, y) ==
  /\ y.data = x.data /\ y.read = x.read /\ y.length = x.length /\ y.count = x.count
  /\ y.off = x.off
  /\ y.r.st = (IF x.r.st = "wait" THEN "err" ELSE x.r.st)
  /\ y.w.st = (IF x.w.st = "wait" THEN "err" ELSE x.w.st)
  /\ y.r.buf = x.r.buf /\ y.r.len = x.r.len
  /\ y.w.buf = x.w.buf /\ y.w.len = x.w.len

\* Operations that wait, ended.
LEMMA AbortedIs ==
  ASSUME NEW x \in Sessions, NEW y, y = Aborted(x)
  PROVE  AbortedOf(x, y)
BY DEF Aborted, Sessions, Ops, AbortedOf
-------------------------------------------------------------------------------
(* The lengths, operator by operator.                                      *)

\* The numbers of a session.
LEMMA Numbers ==
  ASSUME NEW x \in Sessions
  PROVE  /\ block_size \in Nat
         /\ x.off \in 0 .. block_size /\ x.length \in 0 .. block_size
         /\ x.r.len \in 0 .. block_size /\ x.w.len \in 0 .. block_size
         /\ x.count \in {0, 1, 2} /\ x.read \in {1, 2}
         /\ x.r.st \in {"no", "wait", "ok", "err"} /\ x.w.st \in {"no", "wait", "ok", "err"}
         /\ Going(x) \in Nat
<1>1. /\ block_size \in Nat
      /\ x.off \in 0 .. block_size /\ x.length \in 0 .. block_size
      /\ x.r.len \in 0 .. block_size /\ x.w.len \in 0 .. block_size
      /\ x.count \in {0, 1, 2} /\ x.read \in {1, 2}
      /\ x.r.st \in {"no", "wait", "ok", "err"} /\ x.w.st \in {"no", "wait", "ok", "err"}
  BY Sizes DEF Sessions, Ops
<1> QED BY <1>1 DEF Going, LeavingLen, HeldLen

\* The handler of a read: the buffers stay in place, what was read is still held
\* or leaving, and what is counted is no longer in the operation.
LEMMA ReceivedBalance ==
  ASSUME NEW x \in Sessions, Phase(x), Shape(x), Ended(x.r), NEW st \in {"wait", "err"},
         NEW y, y = Received(x, st)
  PROVE  /\ Shape(y) /\ Going(y) <= Going(x)
         /\ \A a \in Int, o \in Nat : Balance(x, a, o) =>
              Balance(y, IF x.r.st = "ok" THEN a - x.r.len ELSE a, o)
<1> USE DEF Going, LeavingLen, HeldLen, JustRead, Failed, Balance
<1>0. \/ x.r.st = "err" /\ x.count # 2 /\ ReadGone(x, y)
      \/ x.r.st = "ok" /\ x.count = 0 /\ x.w.st = "no" /\ Answers(x, y, x.r.len, st)
      \/ x.r.st = "ok" /\ x.count = 1 /\ AnswerWaits(x, y)
  BY ReceivedIs
<1>1. CASE x.r.st = "err" /\ x.count # 2 /\ ReadGone(x, y)
  BY <1>1, Numbers DEF Shape, ReadGone
<1>2. CASE x.r.st = "ok" /\ x.count = 0 /\ x.w.st = "no" /\ Answers(x, y, x.r.len, st)
  BY <1>2, Numbers DEF Shape, Answers
<1>3. CASE x.r.st = "ok" /\ x.count = 1 /\ AnswerWaits(x, y)
  BY <1>3, Numbers DEF Shape, AnswerWaits
<1> QED BY <1>0, <1>1, <1>2, <1>3

\* The handler of a write.
LEMMA SentBalance ==
  ASSUME NEW x \in Sessions, Phase(x), Shape(x), Ended(x.w), NEW st \in {"wait", "err"},
         NEW y, y = Sent(x, st)
  PROVE  /\ Shape(y) /\ Going(y) <= Going(x)
         /\ \A a \in Int, o \in Nat : Balance(x, a, o) =>
              Balance(y, IF x.w.st = "ok" THEN a + x.off ELSE a, o)
<1> USE DEF Going, LeavingLen, HeldLen, JustRead, Failed, Balance
<1>0. \/ x.w.st = "err" /\ x.count # 0 /\ WriteGone(x, y)
      \/ x.w.st = "ok" /\ x.count = 2 /\ x.r.st = "no" /\ Answers(x, y, x.length, st)
      \/ x.w.st = "ok" /\ x.count = 1 /\ NoneWaits(x, y)
  BY SentIs
<1>1. CASE x.w.st = "err" /\ x.count # 0 /\ WriteGone(x, y)
  BY <1>1, Numbers DEF Shape, WriteGone
<1>2. CASE x.w.st = "ok" /\ x.count = 2 /\ x.r.st = "no" /\ Answers(x, y, x.length, st)
  BY <1>2, Numbers DEF Shape, Answers
<1>3. CASE x.w.st = "ok" /\ x.count = 1 /\ NoneWaits(x, y)
  BY <1>3, Numbers DEF Shape, NoneWaits
<1> QED BY <1>0, <1>1, <1>2, <1>3

\* n bytes written are no longer in the session but outside.
LEMMA WroteBalance ==
  ASSUME NEW x \in Sessions, Phase(x), Shape(x), x.w.st = "wait", NEW n \in 1 .. x.w.len,
         NEW y, y = Wrote(x, n)
  PROVE  /\ Shape(y) /\ Going(y) = Going(x) - n
         /\ \A a \in Int, o \in Nat : Balance(x, a, o) => Balance(y, a, o + n)
<1> USE DEF Going, LeavingLen, HeldLen, JustRead, Failed, Balance
<1>1. WroteOf(x, y, n)
  BY WroteIs
<1>2. n \in Nat /\ n >= 1 /\ n <= x.w.len
  BY Numbers
<1> QED BY <1>1, <1>2, Numbers DEF Shape, WroteOf

\* n bytes read are no longer outside but in the session.
LEMMA FilledBalance ==
  ASSUME NEW x \in Sessions, Phase(x), Shape(x), x.r.st = "wait", NEW p, NEW n \in Nat,
         NEW y, y = Filled(x, p, n)
  PROVE  /\ Shape(y) /\ Going(y) = Going(x) + n
         /\ \A a \in Int, o \in Nat : Balance(x, a, o) => Balance(y, a, o - n)
<1> USE DEF Going, LeavingLen, HeldLen, JustRead, Failed, Balance
<1>1. FilledOf(x, y, p, n)
  BY FilledIs
<1>2. x.count # 2
  BY DEF Phase
<1>3. /\ y.read = x.read /\ y.count = x.count /\ y.w = x.w /\ y.off = x.off
      /\ y.r.st = "ok" /\ y.r.buf = x.r.buf /\ y.r.len = n
  BY <1>1 DEF FilledOf
<1> QED BY <1>2, <1>3, Numbers DEF Shape

\* What close() aborts is lost to the session.
LEMMA AbortedBalance ==
  ASSUME NEW x \in Sessions, Phase(x), Shape(x), NEW y, y = Aborted(x)
  PROVE  /\ Shape(y) /\ Going(y) <= Going(x)
         /\ \A a \in Int, o \in Nat : Balance(x, a, o) => Balance(y, a, o)
<1> USE DEF Going, LeavingLen, HeldLen, JustRead, Failed, Balance
<1>1. AbortedOf(x, y)
  BY AbortedIs
<1> QED BY <1>1, Numbers DEF Shape, AbortedOf

\* Fewer bytes outside.
LEMMA BalanceLess ==
  ASSUME NEW x \in Sessions, NEW a \in Int, NEW o \in Int, NEW m \in Int, m <= o,
         Balance(x, a, o)
  PROVE  Balance(x, a, m)
BY Numbers DEF Balance, JustRead
-------------------------------------------------------------------------------
(* The totals, step by step.                                               *)

\* What the invariants say of the two sessions and the pipes.
LEMMA Facts ==
  ASSUME IInv, TInv
  PROVE  /\ ses \in [Sides -> Sessions] /\ ahead \in Int /\ stats \in Int /\ TypeOK
         /\ \A s \in Sides : /\ ses[s] \in Sessions /\ Phase(ses[s]) /\ Shape(ses[s])
                             /\ Start(s) \in {"wait", "err"} /\ Going(ses[s]) \in Nat
                             /\ pipe[s] \in Seq(0 .. block_size) /\ Len(pipe[s]) \in Nat
         /\ Outside \in Nat /\ Balance(ses["client"], ahead, Outside)
         /\ "client" \in Sides /\ "server" \in Sides
<1>1. /\ ses \in [Sides -> Sessions] /\ ahead \in Int /\ stats \in Int /\ TypeOK
      /\ \A s \in Sides : /\ ses[s] \in Sessions /\ Phase(ses[s]) /\ Shape(ses[s])
                          /\ Start(s) \in {"wait", "err"} /\ pipe[s] \in Seq(0 .. block_size)
      /\ "client" \in Sides /\ "server" \in Sides
  BY DEF IInv, TInv, TypeOK, Sides, Start
<1>2. \A s \in Sides : Going(ses[s]) \in Nat /\ Len(pipe[s]) \in Nat
  BY <1>1, Numbers, LenProperties
<1>3. Outside \in Nat
  BY <1>1, <1>2 DEF Outside
<1> QED BY <1>1, <1>2, <1>3 DEF TInv

\* A step of the client's session.
LEMMA ClientTotal ==
  ASSUME IInv, TInv, NEW y \in Sessions, ses' = [ses EXCEPT !["client"] = y], Shape(y),
         UNCHANGED <<pipe, stats, returned>>, conn' # "done" => ahead' = 0,
         Balance(y, ahead', Outside)
  PROVE  TInv'
<1>1. ses'["client"] = y /\ ses'["server"] = ses["server"]
  BY Facts DEF Sides
<1>2. Outside' = Outside
  BY <1>1 DEF Outside
<1>3. \A s \in Sides : Shape(ses'[s])
  BY <1>1 DEF TInv, Sides
<1> QED BY <1>1, <1>2, <1>3 DEF TInv

\* A step of the server's session that leaves no more bytes than there were.
LEMMA ServerTotal ==
  ASSUME IInv, TInv, NEW y \in Sessions, ses' = [ses EXCEPT !["server"] = y], Shape(y),
         Going(y) <= Going(ses["server"]), UNCHANGED <<pipe, stats, returned, conn, ahead>>
  PROVE  TInv'
<1>1. ses'["server"] = y /\ ses'["client"] = ses["client"]
  BY Facts DEF Sides
<1>2. Outside' \in Int /\ Outside' <= Outside
  <2>1. Outside' = Going(y) + Len(pipe["client"]) + Len(pipe["server"])
    BY <1>1 DEF Outside
  <2>2. Going(y) \in Nat
    BY Numbers
  <2>3. Going(ses["server"]) \in Nat /\ Len(pipe["client"]) \in Nat /\ Len(pipe["server"]) \in Nat
    BY Facts
  <2> QED BY <2>1, <2>2, <2>3 DEF Outside
<1>3. \A s \in Sides : Shape(ses'[s])
  BY <1>1 DEF TInv, Sides
<1>4. Balance(ses["client"], ahead, Outside')
  BY <1>2, Facts, BalanceLess
<1> QED BY <1>1, <1>3, <1>4 DEF TInv

\* A step that leaves the sessions and empties or keeps the pipes.
LEMMA NoSessionTotal ==
  ASSUME IInv, TInv, UNCHANGED <<ses, ahead>>, conn' # "done" => conn # "done",
         pipe' = pipe \/ pipe' = [s \in Sides |-> <<>>],
         IF returned' THEN stats' \in -block_size .. block_size ELSE stats' = 0
  PROVE  TInv'
<1>1. Outside' \in Int /\ Outside' <= Outside
  <2>1. Outside' = Going(ses["server"]) + Len(pipe'["client"]) + Len(pipe'["server"])
    BY DEF Outside
  <2>2. CASE pipe' = pipe
    BY <2>1, <2>2, Facts DEF Outside
  <2>3. CASE pipe' = [s \in Sides |-> <<>>]
    <3>1. Len(pipe'["client"]) = 0 /\ Len(pipe'["server"]) = 0
      BY <2>3 DEF Sides
    <3> QED BY <2>1, <3>1, Facts DEF Outside
  <2> QED BY <2>2, <2>3
<1>2. Balance(ses["client"], ahead, Outside')
  BY <1>1, Facts, BalanceLess
<1> QED BY <1>2 DEF TInv

\* The client has written at most a block more than it has read, and the other
\* way round.
LEMMA AheadClose ==
  ASSUME IInv, TInv
  PROVE  ahead \in -block_size .. block_size
<1> DEFINE x == ses["client"]
<1>1. /\ x \in Sessions /\ ahead \in Int /\ Outside \in Nat /\ Balance(x, ahead, Outside)
      /\ Going(x) \in Nat
  BY Facts
<1> HIDE DEF x
<1>2. JustRead(x) \in 0 .. block_size /\ JustRead(x) <= Going(x) /\ x.off \in 0 .. block_size
      /\ block_size \in Nat
  BY <1>1, Numbers DEF JustRead, Going, HeldLen, LeavingLen
<1>3. /\ ahead + x.off - JustRead(x) + Going(x) <= block_size
      /\ -block_size <= ahead - JustRead(x) \/ Outside <= ahead + x.off - JustRead(x)
  BY <1>1 DEF Balance
<1> QED BY <1>1, <1>2, <1>3

\* The client's handlers.
LEMMA ClientTotals == IInv /\ TInv /\ (ClientNext \/ HandleTimeout) => TInv'
<1> SUFFICES ASSUME IInv, TInv, ClientNext \/ HandleTimeout PROVE TInv'
  OBVIOUS
<1> DEFINE x == ses["client"]
<1>1. /\ x \in Sessions /\ Phase(x) /\ Shape(x) /\ ahead \in Int /\ Outside \in Nat
      /\ Start("client") \in {"wait", "err"} /\ Balance(x, ahead, Outside)
      /\ (conn # "done" => Fresh(x) /\ ahead = 0)
  BY Facts DEF IInv, TInv
<1> HIDE DEF x
<1>2. CASE HandleConnect
  <2>1. CASE sock["client"] = "open"
    <3> DEFINE v == [x EXCEPT !.count = @ + 1]
               y == async_read_some(async_write(v, block_size, "wait"), "wait")
    <3>1. /\ ses' = [ses EXCEPT !["client"] = y] /\ conn' = "done"
          /\ UNCHANGED <<ahead, pipe, stats, returned>>
      BY <1>2, <2>1 DEF HandleConnect, ClientKeeps, x
    <3>2. Fresh(x) /\ ahead = 0
      BY <1>1, <1>2 DEF HandleConnect
    <3>3. /\ v \in Sessions /\ v.count = 1 /\ InPlace(v)
          /\ "r" \notin v.in_use /\ "w" \notin v.in_use
      <4>1. x.count + 1 = 1 /\ 1 \in 0 .. 2 /\ InPlace(x) /\ "r" \notin x.in_use /\ "w" \notin x.in_use
        BY <1>1, <3>2 DEF Fresh, Phase
      <4>2. v = [x EXCEPT !.count = 1]
        BY <4>1
      <4> QED BY <1>1, <4>1, <4>2 DEF Sessions, InPlace
    <3> HIDE DEF v
    <3>4. y \in Sessions
      BY <3>3, BothStart, Sizes
    <3>5. Started(v, y, block_size, "wait")
      BY <3>3, BothStarted, Sizes
    <3> HIDE DEF y
    <3>6. Shape(y)
      BY <3>5 DEF Shape, Started
    <3>7. Outside <= 0
      BY <1>1, <3>2, Numbers DEF Balance, Fresh, Failed, JustRead, Shape
    <3>8. Balance(y, 0, Outside)
      BY <1>1, <3>3, <3>5, <3>7, Sizes
         DEF Started, Balance, Failed, JustRead, Going, LeavingLen, HeldLen
    <3> QED BY <3>1, <3>2, <3>4, <3>6, <3>8, ClientTotal
  <2>2. CASE sock["client"] # "open"
    <3>1. /\ UNCHANGED <<ses, ahead, pipe, stats, returned>> /\ conn' = "done"
      BY <1>2, <2>2 DEF HandleConnect, ClientKeeps
    <3> QED BY <3>1, NoSessionTotal DEF TInv
  <2> QED BY <2>1, <2>2
<1>3. CASE HandleConnectError
  <2>1. UNCHANGED <<ses, ahead, pipe, stats, returned>> /\ conn # "done"
    BY <1>3 DEF HandleConnectError, ClientKeeps
  <2> QED BY <2>1, NoSessionTotal DEF TInv
<1>4. CASE ClientReads
  <2> DEFINE y == Received(x, Start("client"))
             a == IF x.r.st = "ok" THEN ahead - x.r.len ELSE ahead
  <2>1. /\ Ended(x.r) /\ ses' = [ses EXCEPT !["client"] = y] /\ conn' = conn /\ ahead' = a
        /\ UNCHANGED <<pipe, stats, returned>>
    BY <1>4 DEF ClientReads, ClientKeeps, x
  <2>2. y \in Sessions
    BY <1>1, <2>1, ReceivedKeeps
  <2>3. Shape(y) /\ Balance(y, a, Outside)
    BY <1>1, <2>1, ReceivedBalance
  <2>4. conn = "done"
    BY <1>1, <2>1 DEF Ended, Fresh
  <2> HIDE DEF y, a
  <2> QED BY <2>1, <2>2, <2>3, <2>4, ClientTotal
<1>5. CASE ClientWrites
  <2> DEFINE y == Sent(x, Start("client"))
             a == IF x.w.st = "ok" THEN ahead + x.off ELSE ahead
  <2>1. /\ Ended(x.w) /\ ses' = [ses EXCEPT !["client"] = y] /\ conn' = conn /\ ahead' = a
        /\ UNCHANGED <<pipe, stats, returned>>
    BY <1>5 DEF ClientWrites, ClientKeeps, x
  <2>2. y \in Sessions
    BY <1>1, <2>1, SentKeeps
  <2>3. Shape(y) /\ Balance(y, a, Outside)
    BY <1>1, <2>1, SentBalance
  <2>4. conn = "done"
    BY <1>1, <2>1 DEF Ended, Fresh
  <2> HIDE DEF y, a
  <2> QED BY <2>1, <2>2, <2>3, <2>4, ClientTotal
<1>6. CASE HandleTimeout
  <2>1. UNCHANGED <<ses, ahead, pipe, stats, returned, conn>>
    BY <1>6 DEF HandleTimeout, ClientKeeps
  <2> QED BY <2>1, NoSessionTotal DEF TInv
<1>7. CASE CloseSocket
  <2> DEFINE y == Aborted(x)
  <2>1. /\ ses' = [ses EXCEPT !["client"] = y] /\ (conn' # "done" => conn # "done")
        /\ UNCHANGED <<pipe, stats, returned, ahead>>
    BY <1>7 DEF CloseSocket, ClientKeeps, x
  <2>2. y \in Sessions
    BY <1>1, AbortedKeeps
  <2>3. Shape(y) /\ Balance(y, ahead, Outside)
    BY <1>1, AbortedBalance
  <2> HIDE DEF y
  <2> QED BY <1>1, <2>1, <2>2, <2>3, ClientTotal
<1>8. CASE ClientReturns
  <2>1. /\ UNCHANGED <<ses, ahead, pipe, conn>> /\ ~returned /\ returned' = TRUE
        /\ stats' = stats + ahead
    BY <1>8 DEF ClientReturns, Tally
  <2>2. stats' \in -block_size .. block_size
    BY <1>1, <2>1, AheadClose DEF TInv
  <2> QED BY <2>1, <2>2, NoSessionTotal
<1> QED BY <1>2, <1>3, <1>4, <1>5, <1>6, <1>7, <1>8 DEF ClientNext

\* The server's handlers.
LEMMA ServerTotals == IInv /\ TInv /\ (ServerNext \/ HandleAcceptError) => TInv'
<1> SUFFICES ASSUME IInv, TInv, ServerNext \/ HandleAcceptError PROVE TInv'
  OBVIOUS
<1> DEFINE x == ses["server"]
<1>1. /\ x \in Sessions /\ Phase(x) /\ Shape(x) /\ Start("server") \in {"wait", "err"}
      /\ (life = "new" => Fresh(x))
  BY Facts DEF IInv
<1> HIDE DEF x
<1>2. ASSUME NEW option \in BOOLEAN, HandleAccept(option) PROVE TInv'
  <2>0. UNCHANGED <<pipe, stats, returned, conn, ahead>>
    BY <1>2 DEF HandleAccept, ServerKeeps
  <2>1. CASE option
    <3> DEFINE r == [st |-> "wait", buf |-> x.read, len |-> 0]
               y == async_read_some(x, "wait")
    <3>1. ses' = [ses EXCEPT !["server"] = y] /\ Fresh(x)
      BY <1>1, <1>2, <2>1 DEF HandleAccept, StartSession, x
    <3> DEFINE u == allocate(x, "r")
    <3>2. y = [u EXCEPT !.r = r] /\ Allocated(x, u, "r")
      BY <1>1, <3>1, AllocateKeeps DEF async_read_some, Fresh, Phase
    <3>3. r \in Ops /\ r.st = "wait" /\ r.buf = x.read
      BY <1>1, Sizes DEF Ops, Sessions
    <3> HIDE DEF y, r, u
    <3>4. /\ y \in Sessions /\ y.r = r /\ y.w = x.w /\ y.count = x.count /\ y.off = x.off
          /\ y.read = x.read
      BY <3>2, <3>3 DEF Allocated, Sessions
    <3>5. Shape(y) /\ Going(y) <= Going(x)
      BY <1>1, <3>1, <3>3, <3>4, Numbers DEF Fresh, Shape, Going, LeavingLen, HeldLen
    <3> QED BY <2>0, <3>1, <3>4, <3>5, ServerTotal DEF x
  <2>2. CASE ~option
    <3>1. UNCHANGED ses
      BY <1>2, <2>2 DEF HandleAccept, StartSession
    <3> QED BY <2>0, <3>1, NoSessionTotal DEF TInv
  <2> QED BY <2>1, <2>2
<1>3. CASE HandleAcceptError
  <2>1. UNCHANGED <<ses, pipe, stats, returned, conn, ahead>>
    BY <1>3 DEF HandleAcceptError, ServerKeeps
  <2> QED BY <2>1, NoSessionTotal DEF TInv
<1>4. CASE ServerReads
  <2> DEFINE y == Received(x, Start("server"))
  <2>1. /\ Ended(x.r) /\ ses' = [ses EXCEPT !["server"] = y]
        /\ UNCHANGED <<pipe, stats, returned, conn, ahead>>
    BY <1>4 DEF ServerReads, ServerKeeps, x
  <2>2. y \in Sessions /\ Shape(y) /\ Going(y) <= Going(x)
    BY <1>1, <2>1, ReceivedKeeps, ReceivedBalance
  <2> HIDE DEF y
  <2> QED BY <2>1, <2>2, ServerTotal DEF x
<1>5. CASE ServerWrites
  <2> DEFINE y == Sent(x, Start("server"))
  <2>1. /\ Ended(x.w) /\ ses' = [ses EXCEPT !["server"] = y]
        /\ UNCHANGED <<pipe, stats, returned, conn, ahead>>
    BY <1>5 DEF ServerWrites, ServerKeeps, x
  <2>2. y \in Sessions /\ Shape(y) /\ Going(y) <= Going(x)
    BY <1>1, <2>1, SentKeeps, SentBalance
  <2> HIDE DEF y
  <2> QED BY <2>1, <2>2, ServerTotal DEF x
<1>6. CASE Destroy
  <2>1. UNCHANGED <<ses, pipe, stats, returned, conn, ahead>>
    BY <1>6 DEF Destroy, ServerKeeps
  <2> QED BY <2>1, NoSessionTotal DEF TInv
<1> QED BY <1>2, <1>3, <1>4, <1>5, <1>6 DEF ServerNext

\* The n elements behind the k-th.
LEMMA Piece ==
  ASSUME NEW N \in Nat, NEW S, NEW d \in [1 .. N -> S], NEW k \in Nat, NEW n \in Nat,
         k + n <= N
  PROVE  /\ SubSeq(d, k + 1, k + n) \in Seq(S)
         /\ Len(SubSeq(d, k + 1, k + n)) = n
         /\ \A i \in 1 .. n : SubSeq(d, k + 1, k + n)[i] = d[k + i]
<1>1. \A i \in k + 1 .. k + n : d[i] \in S
  OBVIOUS
<1>2. k + 1 \in Int /\ k + n \in Int
  OBVIOUS
<1>3. /\ SubSeq(d, k + 1, k + n) \in Seq(S)
      /\ Len(SubSeq(d, k + 1, k + n)) = IF k + 1 <= k + n THEN k + n - (k + 1) + 1 ELSE 0
      /\ \A i \in 1 .. k + n - (k + 1) + 1 : SubSeq(d, k + 1, k + n)[i] = d[k + 1 + i - 1]
  BY <1>1, <1>2, SubSeqProperties
<1>4. (IF k + 1 <= k + n THEN k + n - (k + 1) + 1 ELSE 0) = n /\ k + n - (k + 1) + 1 = n
  OBVIOUS
<1>5. \A i \in 1 .. n : k + 1 + i - 1 = k + i
  OBVIOUS
<1> QED BY <1>3, <1>4, <1>5

\* WriteSome(s) with n bytes: what it does to the session and to the pipes.
Writes(s, n) ==
  /\ n \in 1 .. ses[s].w.len /\ ses[s].w.st = "wait"
  /\ pipe' = [pipe EXCEPT ![s] = @ \o SubSeq(ses[s].data[ses[s].w.buf],
                                             ses[s].off + 1, ses[s].off + n)]
  /\ ses' = [ses EXCEPT ![s] = Wrote(ses[s], n)]
  /\ UNCHANGED <<sock, lost, conn, ahead, stats, returned>>

\* ReadSome(s) with n bytes.
Reads(s, n) ==
  /\ n \in 1 .. Len(pipe[Other(s)]) /\ n <= block_size /\ ses[s].r.st = "wait"
  /\ pipe' = [pipe EXCEPT ![Other(s)] = SubSeq(@, n + 1, Len(@))]
  /\ ses' = [ses EXCEPT ![s] = Filled(ses[s], pipe[Other(s)], n)]
  /\ UNCHANGED <<sock, lost, conn, ahead, stats, returned>>

\* The bytes that are written: those at the front of what is leaving.
LEMMA WrittenBytes ==
  ASSUME IInv, NEW s \in Sides, NEW n, Writes(s, n),
         NEW e, e = SubSeq(ses[s].data[ses[s].w.buf], ses[s].off + 1, ses[s].off + n)
  PROVE  /\ n \in Nat /\ n >= 1 /\ ses[s].off + n <= block_size
         /\ ses[s].data[ses[s].w.buf] \in [1 .. block_size -> 0 .. block_size]
         /\ e \in Seq(0 .. block_size) /\ Len(e) = n
         /\ pipe'[s] = pipe[s] \o e /\ pipe'[Other(s)] = pipe[Other(s)]
         /\ Len(pipe'[s]) = Len(pipe[s]) + n
<1> DEFINE x == ses[s]
           d == x.data[x.w.buf]
<1>1. /\ x \in Sessions /\ Phase(x) /\ pipe \in [Sides -> Seq(0 .. block_size)]
      /\ pipe[s] \in Seq(0 .. block_size) /\ Other(s) \in Sides /\ Other(s) # s
  BY DEF IInv, TypeOK, Sides, Other
<1>2. /\ n \in 1 .. x.w.len /\ x.w.st = "wait"
      /\ pipe' = [pipe EXCEPT ![s] = pipe[s] \o e]
  BY DEF Writes
<1> HIDE DEF x
<1>3. /\ n \in Nat /\ n >= 1 /\ x.off + n <= block_size /\ x.off \in Nat /\ block_size \in Nat
      /\ x.w.buf \in 1 .. 2
  <2>1. x.w \in Ops /\ x.off \in 0 .. block_size
    BY <1>1 DEF Sessions
  <2>2. x.w.len \in 0 .. block_size /\ x.w.buf \in 1 .. 2
    BY <2>1 DEF Ops
  <2>3. x.off + x.w.len <= block_size
    BY <1>1, <1>2 DEF Phase
  <2> QED BY <1>2, <2>1, <2>2, <2>3, Sizes
<1>4. d \in [1 .. block_size -> 0 .. block_size]
  BY <1>1, <1>3 DEF Sessions
<1>5. e = SubSeq(d, x.off + 1, x.off + n)
  BY DEF x
<1> HIDE DEF d
<1>6. e \in Seq(0 .. block_size) /\ Len(e) = n
  <2> DEFINE k == x.off
  <2>1. k \in Nat /\ k + n <= block_size
    BY <1>3
  <2>2. e = SubSeq(d, k + 1, k + n)
    BY <1>5
  <2> HIDE DEF k
  <2>3. SubSeq(d, k + 1, k + n) \in Seq(0 .. block_size) /\ Len(SubSeq(d, k + 1, k + n)) = n
    BY <1>3, <1>4, <2>1, Piece
  <2> QED BY <2>2, <2>3
<1>7. pipe[s] \o e \in Seq(0 .. block_size) /\ Len(pipe[s] \o e) = Len(pipe[s]) + n
  BY <1>1, <1>6, ConcatProperties
<1> QED BY <1>1, <1>2, <1>3, <1>4, <1>6, <1>7 DEF d, x

\* The bytes that are read: those at the front of the pipe.
LEMMA ReadBytes ==
  ASSUME IInv, NEW s \in Sides, NEW n, Reads(s, n), NEW p, p = pipe[Other(s)]
  PROVE  /\ n \in Nat /\ n >= 1 /\ n <= block_size /\ n <= Len(p)
         /\ p \in Seq(0 .. block_size) /\ Len(p) \in Nat
         /\ pipe'[Other(s)] = SubSeq(p, n + 1, Len(p)) /\ pipe'[s] = pipe[s]
         /\ pipe'[Other(s)] \in Seq(0 .. block_size)
         /\ Len(pipe'[Other(s)]) = Len(p) - n
<1>1. /\ pipe \in [Sides -> Seq(0 .. block_size)] /\ p \in Seq(0 .. block_size)
      /\ Other(s) \in Sides /\ Other(s) # s
  BY DEF IInv, TypeOK, Sides, Other
<1>2. /\ n \in 1 .. Len(p) /\ n <= block_size
      /\ pipe' = [pipe EXCEPT ![Other(s)] = SubSeq(p, n + 1, Len(p))]
  BY DEF Reads
<1>3. Len(p) \in Nat /\ \A i \in 1 .. Len(p) : p[i] \in 0 .. block_size
  BY <1>1, LenProperties, ElementOfSeq
<1>4. n \in Nat /\ n >= 1 /\ n <= Len(p)
  BY <1>2, <1>3
<1>5. \A i \in n + 1 .. Len(p) : p[i] \in 0 .. block_size
  BY <1>3, <1>4
<1>6. /\ SubSeq(p, n + 1, Len(p)) \in Seq(0 .. block_size)
      /\ Len(SubSeq(p, n + 1, Len(p))) = IF n + 1 <= Len(p) THEN Len(p) - (n + 1) + 1 ELSE 0
  BY <1>3, <1>4, <1>5, SubSeqProperties
<1>7. Len(SubSeq(p, n + 1, Len(p))) = Len(p) - n
  BY <1>3, <1>4, <1>6
<1> QED BY <1>1, <1>2, <1>3, <1>4, <1>6, <1>7

\* What the kernel does.
LEMMA KernelTotals == IInv /\ TInv /\ KernelNext => TInv'
<1> SUFFICES ASSUME IInv, TInv, KernelNext PROVE TInv'
  OBVIOUS
<1>0. /\ ses \in [Sides -> Sessions] /\ ahead \in Int
      /\ \A s \in Sides : ses[s] \in Sessions /\ Phase(ses[s]) /\ Shape(ses[s])
      /\ Outside \in Nat /\ Balance(ses["client"], ahead, Outside)
  BY Facts
<1>1. Going(ses["server"]) \in Nat /\ Len(pipe["client"]) \in Nat /\ Len(pipe["server"]) \in Nat
  BY Facts
<1>2. ASSUME NEW ok \in BOOLEAN, Connected(ok) PROVE TInv'
  <2>1. UNCHANGED <<ses, ahead, pipe, stats, returned>> /\ conn # "done"
    BY <1>2 DEF Connected, KernelKeeps
  <2> QED BY <2>1, NoSessionTotal DEF TInv
<1>3. CASE Loses
  <2>1. UNCHANGED <<ses, ahead, stats, returned, conn>> /\ pipe' = [s \in Sides |-> <<>>]
    BY <1>3 DEF Loses, KernelKeeps
  <2> QED BY <2>1, NoSessionTotal DEF TInv
<1>4. ASSUME NEW s \in Sides, NEW n, Writes(s, n) PROVE TInv'
  <2> DEFINE x == ses[s]
             y == Wrote(x, n)
  <2>1. /\ x \in Sessions /\ Phase(x) /\ Shape(x) /\ x.w.st = "wait" /\ n \in 1 .. x.w.len
        /\ ses' = [ses EXCEPT ![s] = y] /\ UNCHANGED <<conn, ahead, stats, returned>>
    BY <1>0, <1>4 DEF Writes
  <2>2. n \in Nat /\ Len(pipe'[s]) = Len(pipe[s]) + n /\ pipe'[Other(s)] = pipe[Other(s)]
    BY <1>4, WrittenBytes
  <2>3. /\ Shape(y) /\ Going(y) = Going(x) - n
        /\ \A a \in Int, o \in Nat : Balance(x, a, o) => Balance(y, a, o + n)
    BY <2>1, WroteBalance
  <2>4. ses'[s] = y /\ ses'[Other(s)] = ses[Other(s)] /\ \A t \in Sides : Shape(ses'[t])
    <3> HIDE DEF y
    <3> QED BY <1>0, <2>1, <2>3 DEF Sides, Other
  <2> HIDE DEF y
  <2>5. CASE s = "client"
    <3>1. Outside' = Outside + n
      <4>0. Other(s) = "server"
        BY <2>5 DEF Other
      <4>1. /\ Outside' = Going(ses'["server"]) + Len(pipe'["client"]) + Len(pipe'["server"])
            /\ ses'["server"] = ses["server"]
        BY <2>4, <2>5 DEF Outside, Other
      <4>2. Outside = Going(ses["server"]) + Len(pipe["client"]) + Len(pipe["server"])
        BY DEF Outside
      <4> QED BY <1>1, <2>2, <2>5, <4>0, <4>1, <4>2
    <3>2. Balance(y, ahead, Outside + n)
      BY <1>0, <2>3, <2>5
    <3> QED BY <2>1, <2>4, <2>5, <3>1, <3>2 DEF TInv
  <2>6. CASE s = "server"
    <3>1. Outside' = Outside
      BY <1>1, <2>2, <2>3, <2>4, <2>6 DEF Outside, Other
    <3> QED BY <2>1, <2>4, <2>6, <3>1 DEF TInv, Other
  <2> QED BY <2>5, <2>6 DEF Sides
<1>5. ASSUME NEW s \in Sides, NEW n, Reads(s, n) PROVE TInv'
  <2> DEFINE x == ses[s]
             p == pipe[Other(s)]
             y == Filled(x, p, n)
  <2>1. /\ x \in Sessions /\ Phase(x) /\ Shape(x) /\ x.r.st = "wait"
        /\ ses' = [ses EXCEPT ![s] = y] /\ UNCHANGED <<conn, ahead, stats, returned>>
    BY <1>0, <1>5 DEF Reads
  <2>2. /\ n \in Nat /\ Len(pipe'[Other(s)]) = Len(pipe[Other(s)]) - n /\ pipe'[s] = pipe[s]
        /\ n <= Len(pipe[Other(s)])
    BY <1>5, ReadBytes
  <2>3. /\ Shape(y) /\ Going(y) = Going(x) + n
        /\ \A a \in Int, o \in Nat : Balance(x, a, o) => Balance(y, a, o - n)
    <3> HIDE DEF p
    <3> QED BY <2>1, <2>2, FilledBalance
  <2>4. ses'[s] = y /\ ses'[Other(s)] = ses[Other(s)] /\ \A t \in Sides : Shape(ses'[t])
    <3> HIDE DEF y
    <3> QED BY <1>0, <2>1, <2>3 DEF Sides, Other
  <2> HIDE DEF y
  <2>5. CASE s = "client"
    <3>1. Outside' = Outside - n
      <4>0. Other(s) = "server"
        BY <2>5 DEF Other
      <4>1. /\ Outside' = Going(ses'["server"]) + Len(pipe'["client"]) + Len(pipe'["server"])
            /\ ses'["server"] = ses["server"]
        BY <2>4, <2>5 DEF Outside, Other
      <4>2. Outside = Going(ses["server"]) + Len(pipe["client"]) + Len(pipe["server"])
        BY DEF Outside
      <4> QED BY <1>1, <2>2, <2>5, <4>0, <4>1, <4>2
    <3>2. Balance(y, ahead, Outside - n)
      BY <1>0, <2>3, <2>5
    <3> QED BY <2>1, <2>4, <2>5, <3>1, <3>2 DEF TInv
  <2>6. CASE s = "server"
    <3>1. Outside' = Outside
      BY <1>1, <2>2, <2>3, <2>4, <2>6 DEF Outside, Other
    <3> QED BY <2>1, <2>4, <2>6, <3>1 DEF TInv, Other
  <2> QED BY <2>5, <2>6 DEF Sides
<1>6. ASSUME NEW s \in Sides, Fails(s) PROVE TInv'
  <2> DEFINE x == ses[s]
             y == Aborted(x)
  <2>1. /\ ses' = [ses EXCEPT ![s] = y] /\ UNCHANGED <<pipe, stats, returned, conn, ahead>>
        /\ x \in Sessions /\ Phase(x) /\ Shape(x)
    BY <1>0, <1>6 DEF Fails, KernelKeeps
  <2>2. y \in Sessions
    BY <2>1, AbortedKeeps
  <2>3. /\ Shape(y) /\ Going(y) <= Going(x)
        /\ \A a \in Int, o \in Nat : Balance(x, a, o) => Balance(y, a, o)
    BY <2>1, AbortedBalance
  <2> HIDE DEF y
  <2>4. CASE s = "client"
    <3>1. Balance(y, ahead, Outside) /\ (conn' # "done" => ahead' = 0)
      BY <1>0, <2>1, <2>3, <2>4 DEF TInv
    <3> QED BY <2>1, <2>2, <2>3, <2>4, <3>1, ClientTotal
  <2>5. CASE s = "server"
    BY <2>1, <2>2, <2>3, <2>5, ServerTotal
  <2> QED BY <2>4, <2>5 DEF Sides
<1>7. ASSUME NEW s \in Sides, WriteSome(s) PROVE TInv'
  BY <1>4, <1>7 DEF WriteSome, Writes, KernelKeeps
<1>8. ASSUME NEW s \in Sides, ReadSome(s) PROVE TInv'
  BY <1>5, <1>8 DEF ReadSome, Reads, KernelKeeps
<1> QED BY <1>2, <1>3, <1>6, <1>7, <1>8 DEF KernelNext

\* Before anything is sent.
LEMMA TotalsInit == Init => TInv
<1> SUFFICES ASSUME Init PROVE TInv
  OBVIOUS
<1>1. \A s \in Sides : /\ ses[s].r.st = "no" /\ ses[s].w.st = "no" /\ ses[s].off = 0
                      /\ ses[s].count = 0
  BY DEF Init, Session, Idle
<1>2. Len(pipe["client"]) = 0 /\ Len(pipe["server"]) = 0
  BY DEF Init, Sides
<1>3. Outside = 0
  BY <1>1, <1>2 DEF Outside, Going, LeavingLen, HeldLen, Sides
<1>4. Balance(ses["client"], 0, 0)
  BY <1>1, Sizes DEF Balance, Going, LeavingLen, HeldLen, JustRead, Failed, Sides
<1> QED BY <1>1, <1>3, <1>4 DEF Init, TInv, Shape

\* What the client has counted, what its operations hold and what is outside stay
\* in balance.
THEOREM BalanceHolds == Spec => [](IInv /\ TInv)
<1>1. IInv /\ TInv /\ [Next]_vars => TInv'
  <2> SUFFICES ASSUME IInv, TInv, [Next]_vars PROVE TInv'
    OBVIOUS
  <2>1. CASE UNCHANGED vars
    BY <2>1 DEF vars, TInv, Outside
  <2> QED BY <2>1, ClientTotals, ServerTotals, KernelTotals DEF Next
<1> QED BY <1>1, TotalsInit, IInvHolds, PTL DEF Spec

\* The totals that the ping-pong client prints differ by at most a block, wherever
\* its session was stopped or failed.
THEOREM TotalsStayClose == Spec => []TotalsClose
<1>1. IInv /\ TInv => TotalsClose
  <2> SUFFICES ASSUME IInv, TInv PROVE TotalsClose
    OBVIOUS
  <2>1. ahead \in -block_size .. block_size /\ stats \in -block_size .. block_size
    BY AheadClose, Sizes DEF TInv
  <2> QED BY <2>1 DEF TotalsClose
<1> QED BY <1>1, BalanceHolds, PTL
-------------------------------------------------------------------------------
(* Sequences that go round.                                                *)

\* What pipes and buffers hold.
Bytes == Seq(0 .. block_size)

\* A prefix moves from one sequence to the one on its left.
LEMMA MoveLeft == \A a, h, t \in Bytes : a \o (h \o t) = (a \o h) \o t
<1> SUFFICES ASSUME NEW S, NEW a \in Seq(S), NEW h \in Seq(S), NEW t \in Seq(S)
             PROVE  a \o (h \o t) = (a \o h) \o t
  BY DEF Bytes
<1> QED BY ConcatAssociative

\* Sequences of bytes put together are sequences of bytes.
LEMMA BytesJoin == \A a, h \in Bytes : a \o h \in Bytes /\ Len(a \o h) = Len(a) + Len(h)
<1> SUFFICES ASSUME NEW S, NEW a \in Seq(S), NEW h \in Seq(S)
             PROVE  a \o h \in Seq(S) /\ Len(a \o h) = Len(a) + Len(h)
  BY DEF Bytes
<1> QED BY ConcatProperties

\* The empty sequence on either side.
LEMMA BytesEmpty == <<>> \in Bytes /\ \A a \in Bytes : a \o <<>> = a /\ <<>> \o a = a
<1>1. \A a \in Bytes : a \o <<>> = a /\ <<>> \o a = a
  BY ConcatEmptySeq DEF Bytes
<1>2. <<>> \in Bytes
  BY EmptySeq DEF Bytes
<1> QED BY <1>1, <1>2

\* The client writes e: the ring stays.
LEMMA ClientWritesRing ==
  ASSUME NEW cs \in Bytes, NEW pc \in Bytes, NEW e \in Bytes, NEW t \in Bytes,
         NEW ps \in Bytes
  PROVE  RingOf(cs, pc, e \o t, ps) = RingOf(cs, pc \o e, t, ps)
<1> DEFINE a == cs \o pc
<1>1. a \in Bytes
  BY BytesJoin
<1>2. cs \o (pc \o e) = a \o e
  BY MoveLeft
<1> HIDE DEF a
<1>3. a \o (e \o t) = (a \o e) \o t
  BY <1>1, MoveLeft
<1> QED BY <1>2, <1>3 DEF RingOf, a

\* The server reads h.
LEMMA ServerReadsRing ==
  ASSUME NEW cs \in Bytes, NEW h \in Bytes, NEW t \in Bytes, NEW cc, NEW ps
  PROVE  RingOf(cs, h \o t, cc, ps) = RingOf(cs \o h, t, cc, ps)
<1>1. cs \o (h \o t) = (cs \o h) \o t
  BY MoveLeft
<1> QED BY <1>1 DEF RingOf

\* The client reads h.
LEMMA ClientReadsRing ==
  ASSUME NEW cs \in Bytes, NEW pc \in Bytes, NEW cc \in Bytes, NEW h \in Bytes,
         NEW t \in Bytes
  PROVE  RingOf(cs, pc, cc, h \o t) = RingOf(cs, pc, cc \o h, t)
<1> DEFINE a == cs \o pc
<1>1. a \in Bytes
  BY BytesJoin
<1> HIDE DEF a
<1> DEFINE b == a \o cc
<1>2. b \in Bytes
  BY <1>1, BytesJoin
<1>3. a \o (cc \o h) = b \o h
  BY <1>1, MoveLeft
<1> HIDE DEF b
<1>4. b \o (h \o t) = (b \o h) \o t
  BY <1>2, MoveLeft
<1> QED BY <1>3, <1>4 DEF RingOf, a, b

\* A turned block stays one when its front goes to the end.
LEMMA TurnFurther ==
  ASSUME NEW S, NEW e \in Seq(S), NEW q \in Seq(S), Turned(e \o q)
  PROVE  Turned(q \o e)
<1> DEFINE B == block_size
           m == Len(e)
           f == e \o q
           g == q \o e
<1>1. m \in Nat /\ Len(q) \in Nat /\ B \in Nat
  BY LenProperties, Sizes
<1>2. /\ Len(f) = m + Len(q)
      /\ \A i \in 1 .. m + Len(q) : f[i] = IF i <= m THEN e[i] ELSE q[i - m]
  BY ConcatProperties
<1>3. /\ Len(g) = Len(q) + m
      /\ \A i \in 1 .. Len(q) + m : g[i] = IF i <= Len(q) THEN q[i] ELSE e[i - Len(q)]
  BY ConcatProperties
<1>4. Len(f) = B
  BY DEF Turned
<1>5. PICK k \in 1 .. B : \A i \in 1 .. B : f[i] = IF k + i - 1 <= B THEN k + i - 1 ELSE k + i - 1 - B
  BY DEF Turned
<1> HIDE DEF f, g, m, B
<1>6. Len(q) = B - m /\ Len(g) = B /\ m <= B
  <2>1. m + Len(q) = B
    BY <1>2, <1>4
  <2>2. Len(g) = Len(q) + m
    BY <1>3
  <2> QED BY <1>1, <2>1, <2>2
<1>7. \A i \in 1 .. B : g[i] = IF i <= B - m THEN f[i + m] ELSE f[i - (B - m)]
  <2> TAKE i \in 1 .. B
  <2>1. CASE i <= B - m
    <3>1. i + m \in 1 .. B /\ ~(i + m <= m) /\ i + m - m = i
      BY <1>1, <1>6, <2>1
    <3> QED BY <1>1, <1>2, <1>3, <1>6, <2>1, <3>1
  <2>2. CASE ~(i <= B - m)
    <3>1. i - (B - m) \in 1 .. m /\ i - (B - m) <= m /\ i - (B - m) \in 1 .. B
      BY <1>1, <1>6, <2>2
    <3> QED BY <1>1, <1>2, <1>3, <1>6, <2>2, <3>1
  <2> QED BY <2>1, <2>2
<1> DEFINE l == IF k + m <= B THEN k + m ELSE k + m - B
<1>8. l \in 1 .. B
  BY <1>1, <1>6
<1>9. \A i \in 1 .. B : g[i] = IF l + i - 1 <= B THEN l + i - 1 ELSE l + i - 1 - B
  <2> TAKE i \in 1 .. B
  <2>1. CASE i <= B - m
    <3>1. i + m \in 1 .. B /\ g[i] = f[i + m]
      BY <1>1, <1>6, <1>7, <2>1
    <3>2. g[i] = IF k + (i + m) - 1 <= B THEN k + (i + m) - 1 ELSE k + (i + m) - 1 - B
      BY <1>5, <3>1
    <3> QED BY <1>1, <1>6, <3>2, <2>1
  <2>2. CASE ~(i <= B - m)
    <3> DEFINE j == i - (B - m)
    <3>1. j \in 1 .. B /\ g[i] = f[j]
      BY <1>1, <1>6, <1>7, <2>2
    <3>2. g[i] = IF k + j - 1 <= B THEN k + j - 1 ELSE k + j - 1 - B
      BY <1>5, <3>1
    <3> QED BY <1>1, <1>6, <3>2, <2>2
  <2> QED BY <2>1, <2>2
<1> HIDE DEF l
<1> QED BY <1>6, <1>8, <1>9 DEF Turned, B, g

\* The server writes e: it goes from the front of the ring to its end.
LEMMA ServerWritesRing ==
  ASSUME NEW e \in Bytes, NEW t \in Bytes, NEW pc \in Bytes, NEW cc \in Bytes,
         NEW ps \in Bytes, Turned(RingOf(e \o t, pc, cc, ps))
  PROVE  Turned(RingOf(t, pc, cc, ps \o e))
<1> DEFINE b == t \o pc
           c == b \o cc
           d == c \o ps
<1>1. b \in Bytes
  BY BytesJoin
<1>2. (e \o t) \o pc = e \o b
  BY MoveLeft
<1> HIDE DEF b
<1>3. c \in Bytes
  BY <1>1, BytesJoin
<1>4. (e \o b) \o cc = e \o c
  BY <1>1, MoveLeft
<1> HIDE DEF c
<1>5. d \in Bytes
  BY <1>3, BytesJoin
<1>6. (e \o c) \o ps = e \o d
  BY <1>3, MoveLeft
<1>7. c \o (ps \o e) = d \o e
  BY <1>3, MoveLeft
<1>8. RingOf(e \o t, pc, cc, ps) = e \o d /\ RingOf(t, pc, cc, ps \o e) = d \o e
  BY <1>2, <1>4, <1>6, <1>7 DEF RingOf, b, c
<1> HIDE DEF d
<1>9. Turned(e \o d) => Turned(d \o e)
  BY <1>5, TurnFurther DEF Bytes
<1> QED BY <1>8, <1>9

\* An array is a sequence of its length.
LEMMA ArrayIsSeq ==
  ASSUME NEW N \in Nat, NEW S, NEW f \in [1 .. N -> S]
  PROVE  f \in Seq(S) /\ Len(f) = N
<1>1. f \in Seq(S)
  BY SeqDef
<1>2. Len(f) \in Nat /\ DOMAIN f = 1 .. Len(f) /\ DOMAIN f = 1 .. N
  BY <1>1, LenProperties
<1>3. Len(f) = N
  BY <1>2
<1> QED BY <1>1, <1>3

\* The block itself is turned.
LEMMA BlockTurned == Turned(Block) /\ Block \in [1 .. block_size -> 0 .. block_size] /\ Len(Block) = block_size
<1> DEFINE B == block_size
<1>1. B \in Nat /\ 1 \in 1 .. B
  BY PingPongAssumption
<1>2. Block \in [1 .. B -> 0 .. B] /\ \A i \in 1 .. B : Block[i] = i
  BY <1>1 DEF Block
<1>3. Len(Block) = B
  BY <1>1, <1>2, ArrayIsSeq
<1>4. \A i \in 1 .. B : Block[i] = IF 1 + i - 1 <= B THEN 1 + i - 1 ELSE 1 + i - 1 - B
  BY <1>1, <1>2
<1> QED BY <1>1, <1>2, <1>3, <1>4 DEF Turned

\* A turned block is an end of the block and then its beginning.
LEMMA TurnedIsRotation ==
  ASSUME NEW q \in Seq(0 .. block_size), Turned(q)
  PROVE  \E k \in 1 .. block_size :
           q = SubSeq(Block, k, block_size) \o SubSeq(Block, 1, k - 1)
<1> DEFINE B == block_size
<1>1. PICK k \in 1 .. B : \A i \in 1 .. B : q[i] = IF k + i - 1 <= B THEN k + i - 1 ELSE k + i - 1 - B
  BY DEF Turned
<1>2. Len(q) = B /\ B \in Nat
  BY Sizes DEF Turned
<1> DEFINE a == SubSeq(Block, (k - 1) + 1, (k - 1) + (B - k + 1))
           b == SubSeq(Block, 0 + 1, 0 + (k - 1))
<1>3. /\ Block \in [1 .. B -> 0 .. B] /\ \A i \in 1 .. B : Block[i] = i
  BY BlockTurned DEF Block
<1>4. k - 1 \in Nat /\ B - k + 1 \in Nat /\ (k - 1) + (B - k + 1) <= B /\ 0 + (k - 1) <= B /\ 0 \in Nat
  BY <1>2
<1>5. /\ a \in Seq(0 .. B) /\ Len(a) = B - k + 1
      /\ \A i \in 1 .. B - k + 1 : a[i] = Block[(k - 1) + i]
  BY <1>2, <1>3, <1>4, Piece
<1>6. /\ b \in Seq(0 .. B) /\ Len(b) = k - 1
      /\ \A i \in 1 .. k - 1 : b[i] = Block[0 + i]
  BY <1>2, <1>3, <1>4, Piece
<1>7. a = SubSeq(Block, k, B) /\ b = SubSeq(Block, 1, k - 1)
  <2>1. (k - 1) + 1 = k /\ (k - 1) + (B - k + 1) = B /\ 0 + 1 = 1 /\ 0 + (k - 1) = k - 1
    BY <1>2
  <2> QED BY <2>1
<1> HIDE DEF a, b
<1>8. /\ a \o b \in Seq(0 .. B) /\ Len(a \o b) = B
      /\ \A i \in 1 .. B : (a \o b)[i] = IF i <= B - k + 1 THEN a[i] ELSE b[i - (B - k + 1)]
  <2>1. Len(a) + Len(b) = B
    BY <1>2, <1>5, <1>6
  <2>2. a \in Seq(0 .. B) /\ b \in Seq(0 .. B)
    BY <1>5, <1>6
  <2>3. /\ a \o b \in Seq(0 .. B) /\ Len(a \o b) = Len(a) + Len(b)
        /\ \A i \in 1 .. Len(a) + Len(b) :
             (a \o b)[i] = IF i <= Len(a) THEN a[i] ELSE b[i - Len(a)]
    BY <2>2, ConcatProperties
  <2>4. Len(a) = B - k + 1
    BY <1>5
  <2> QED BY <2>1, <2>3, <2>4
<1>9. \A i \in 1 .. B : (a \o b)[i] = q[i]
  <2> TAKE i \in 1 .. B
  <2>1. CASE i <= B - k + 1
    <3>1. i \in 1 .. B - k + 1 /\ (k - 1) + i \in 1 .. B
      BY <1>2, <2>1
    <3>2. a[i] = (k - 1) + i
      BY <1>3, <1>5, <3>1
    <3>3. (a \o b)[i] = a[i]
      BY <1>8, <2>1
    <3>4. k + i - 1 <= B /\ (k - 1) + i = k + i - 1
      BY <1>2, <2>1
    <3>5. q[i] = k + i - 1
      BY <1>1, <3>4
    <3> QED BY <3>2, <3>3, <3>4, <3>5
  <2>2. CASE ~(i <= B - k + 1)
    <3> DEFINE j == i - (B - k + 1)
    <3>1. j \in 1 .. k - 1 /\ 0 + j \in 1 .. B
      BY <1>2, <2>2
    <3>2. b[j] = j
      BY <1>3, <1>6, <3>1
    <3>3. (a \o b)[i] = b[j]
      BY <1>8, <2>2
    <3>4. ~(k + i - 1 <= B) /\ j = k + i - 1 - B
      BY <1>2, <2>2
    <3>5. q[i] = k + i - 1 - B
      BY <1>1, <3>4
    <3> QED BY <3>2, <3>3, <3>4, <3>5
  <2> QED BY <2>1, <2>2
<1>10. a \o b = q
  BY <1>2, <1>8, <1>9, SeqEqual
<1> QED BY <1>7, <1>10
-------------------------------------------------------------------------------
(* The bytes a session has, operator by operator.                          *)

\* What leaves a session and what it holds are pieces of its buffers.
LEMMA CarriedBytes ==
  ASSUME NEW x \in Sessions, Phase(x)
  PROVE  Leaving(x) \in Bytes /\ Held(x) \in Bytes /\ Carried(x) \in Bytes
<1>1. /\ block_size \in Nat /\ \A b \in {1, 2} : x.data[b] \in [1 .. block_size -> 0 .. block_size]
      /\ x.w.buf \in {1, 2} /\ x.r.buf \in {1, 2} /\ x.read \in {1, 2}
      /\ x.off \in Nat /\ x.w.len \in Nat /\ x.r.len \in Nat /\ x.length \in Nat
      /\ x.r.len <= block_size /\ x.length <= block_size
      /\ (x.w.st = "wait" => x.off + x.w.len <= block_size)
  BY Sizes DEF Sessions, Ops, Phase
<1>2. ASSUME NEW b \in {1, 2}, NEW n \in Nat, n <= block_size
      PROVE  SubSeq(x.data[b], 1, n) \in Seq(0 .. block_size)
  <2> DEFINE d == x.data[b]
  <2>1. d \in [1 .. block_size -> 0 .. block_size]
    BY <1>1
  <2> HIDE DEF d
  <2>2. SubSeq(d, 0 + 1, 0 + n) \in Seq(0 .. block_size)
    BY <1>1, <1>2, <2>1, Piece
  <2> QED BY <2>2 DEF d
<1>3. CASE x.w.st = "wait"
  <2> DEFINE d == x.data[x.w.buf]
             k == x.off
             n == x.w.len
  <2>1. d \in [1 .. block_size -> 0 .. block_size] /\ k \in Nat /\ n \in Nat /\ k + n <= block_size
    BY <1>1, <1>3
  <2>2. Leaving(x) = SubSeq(d, k + 1, k + n)
    BY <1>3 DEF Leaving
  <2> HIDE DEF d, k, n
  <2>3. SubSeq(d, k + 1, k + n) \in Seq(0 .. block_size)
    BY <1>1, <2>1, Piece
  <2>4. Leaving(x) \in Bytes
    BY <2>2, <2>3 DEF Bytes
  <2>5. Held(x) \in Bytes
    BY <1>1, <1>2, BytesEmpty DEF Held, Bytes
  <2> QED BY <2>4, <2>5, BytesJoin DEF Carried
<1>4. CASE x.w.st # "wait"
  <2>1. Leaving(x) \in Bytes
    BY <1>4, BytesEmpty DEF Leaving
  <2>2. Held(x) \in Bytes
    BY <1>1, <1>2, BytesEmpty DEF Held, Bytes
  <2> QED BY <2>1, <2>2, BytesJoin DEF Carried
<1> QED BY <1>3, <1>4

\* The handler of a read leaves the bytes where they are.
LEMMA ReceivedCarried ==
  ASSUME NEW x \in Sessions, Phase(x), Shape(x), Live(x), Ended(x.r), NEW y,
         y = Received(x, "wait")
  PROVE  Live(y) /\ Carried(y) = Carried(x)
<1>0. \/ x.r.st = "err" /\ x.count # 2 /\ ReadGone(x, y)
      \/ x.r.st = "ok" /\ x.count = 0 /\ x.w.st = "no" /\ Answers(x, y, x.r.len, "wait")
      \/ x.r.st = "ok" /\ x.count = 1 /\ AnswerWaits(x, y)
  BY ReceivedIs
<1>1. x.r.st = "ok" /\ x.r.buf = x.read /\ (x.w.st = "no" => x.off = 0)
  BY DEF Live, Ended, Shape
<1>2. Leaving(x) \in Bytes /\ Held(x) \in Bytes /\ Held(x) = SubSeq(x.data[x.read], 1, x.r.len)
  BY <1>1, CarriedBytes DEF Held
<1>3. CASE x.count = 0 /\ x.w.st = "no" /\ Answers(x, y, x.r.len, "wait")
  <2>1. Leaving(x) = <<>>
    BY <1>3 DEF Leaving
  <2>2. Leaving(y) = Held(x)
    <3>1. y.w.st = "wait" /\ y.off = 0 /\ y.data = x.data /\ y.w.buf = x.read /\ y.w.len = x.r.len
      BY <1>3 DEF Answers
    <3>2. 0 + 1 = 1 /\ 0 + x.r.len = x.r.len
      BY Numbers
    <3> QED BY <1>2, <3>1, <3>2 DEF Leaving
  <2>3. Held(y) = <<>> /\ Live(y)
    BY <1>3 DEF Held, Answers, Live
  <2>4. Held(x) \o <<>> = <<>> \o Held(x)
    BY <1>2, BytesEmpty
  <2> QED BY <2>1, <2>2, <2>3, <2>4 DEF Carried
<1>4. CASE x.count = 1 /\ AnswerWaits(x, y)
  <2>1. Leaving(y) = Leaving(x)
    BY <1>4 DEF Leaving, AnswerWaits
  <2>2. Held(y) = Held(x)
    BY <1>2, <1>4 DEF Held, AnswerWaits
  <2>3. Live(y)
    BY <1>4 DEF Live, AnswerWaits
  <2> QED BY <2>1, <2>2, <2>3 DEF Carried
<1> QED BY <1>0, <1>1, <1>3, <1>4

\* The handler of a write too.
LEMMA SentCarried ==
  ASSUME NEW x \in Sessions, Phase(x), Shape(x), Live(x), Ended(x.w), NEW y,
         y = Sent(x, "wait")
  PROVE  Live(y) /\ Carried(y) = Carried(x)
<1>0. \/ x.w.st = "err" /\ x.count # 0 /\ WriteGone(x, y)
      \/ x.w.st = "ok" /\ x.count = 2 /\ x.r.st = "no" /\ Answers(x, y, x.length, "wait")
      \/ x.w.st = "ok" /\ x.count = 1 /\ NoneWaits(x, y)
  BY SentIs
<1>1. x.w.st = "ok" /\ Leaving(x) = <<>> /\ Held(x) \in Bytes
  BY CarriedBytes DEF Live, Ended, Leaving
<1>3. CASE x.count = 2 /\ x.r.st = "no" /\ Answers(x, y, x.length, "wait")
  <2>1. Held(x) = SubSeq(x.data[x.read], 1, x.length)
    BY <1>3 DEF Held
  <2>2. Leaving(y) = Held(x)
    <3>1. y.w.st = "wait" /\ y.off = 0 /\ y.data = x.data /\ y.w.buf = x.read /\ y.w.len = x.length
      BY <1>3 DEF Answers
    <3>2. 0 + 1 = 1 /\ 0 + x.length = x.length
      BY Numbers
    <3> QED BY <2>1, <3>1, <3>2 DEF Leaving
  <2>3. Held(y) = <<>> /\ Live(y)
    BY <1>3 DEF Held, Answers, Live
  <2>4. Held(x) \o <<>> = <<>> \o Held(x)
    BY <1>1, BytesEmpty
  <2> QED BY <1>1, <2>2, <2>3, <2>4 DEF Carried
<1>4. CASE x.count = 1 /\ NoneWaits(x, y)
  <2>1. Leaving(y) = <<>>
    BY <1>4 DEF Leaving, NoneWaits
  <2>2. Held(y) = Held(x)
    BY <1>4 DEF Held, NoneWaits
  <2>3. Live(y)
    BY <1>4 DEF Live, NoneWaits
  <2> QED BY <1>1, <2>1, <2>2, <2>3 DEF Carried
<1> QED BY <1>0, <1>1, <1>3, <1>4

\* The bytes written are the front of those the session had.
LEMMA WroteCarried ==
  ASSUME NEW x \in Sessions, Phase(x), x.w.st = "wait", NEW n \in 1 .. x.w.len,
         NEW y, y = Wrote(x, n),
         NEW e, e = SubSeq(x.data[x.w.buf], x.off + 1, x.off + n)
  PROVE  e \in Bytes /\ Carried(x) = e \o Carried(y) /\ (Live(x) => Live(y))
<1> DEFINE d == x.data[x.w.buf]
           k == x.off
           m == x.w.len
<1>0. y \in Sessions /\ Phase(y)
  BY WroteKeeps
<1>1. WroteOf(x, y, n)
  BY WroteIs
<1>2. /\ block_size \in Nat /\ d \in [1 .. block_size -> 0 .. block_size]
      /\ k \in Nat /\ m \in Nat /\ n \in Nat /\ n >= 1 /\ n <= m /\ k + m <= block_size
  <2>1. /\ block_size \in Nat /\ k \in Nat /\ m \in Nat
    BY Numbers
  <2>2. n \in Nat /\ n >= 1 /\ n <= m
    BY <2>1
  <2>3. k + m <= block_size
    BY DEF Phase
  <2>4. d \in [1 .. block_size -> 0 .. block_size]
    <3>1. x.data \in [1 .. 2 -> [1 .. block_size -> 0 .. block_size]] /\ x.w.buf \in 1 .. 2
      BY DEF Sessions, Ops
    <3> QED BY <3>1
  <2> QED BY <2>1, <2>2, <2>3, <2>4
<1>3. e = SubSeq(d, k + 1, k + n) /\ Leaving(x) = SubSeq(d, k + 1, k + m)
  BY DEF Leaving
<1>4. Held(y) = Held(x) /\ (Live(x) => Live(y))
  BY <1>1 DEF WroteOf, Held, Live
<1>5. n # m => Leaving(y) = SubSeq(d, k + n + 1, k + n + (m - n))
  BY <1>1 DEF Leaving, WroteOf
<1>6. n = m => Leaving(y) = <<>>
  BY <1>1 DEF Leaving, WroteOf
<1> HIDE DEF d, k, m
<1>7. /\ e \in Seq(0 .. block_size) /\ Len(e) = n
      /\ \A i \in 1 .. n : e[i] = d[k + i]
  <2>1. k + n <= block_size
    BY <1>2
  <2>2. /\ SubSeq(d, k + 1, k + n) \in Seq(0 .. block_size)
        /\ Len(SubSeq(d, k + 1, k + n)) = n
        /\ \A i \in 1 .. n : SubSeq(d, k + 1, k + n)[i] = d[k + i]
    BY <1>2, <2>1, Piece
  <2> QED BY <1>3, <2>2
<1>8. e \in Bytes
  BY <1>7 DEF Bytes
<1>9. Leaving(x) = e \o Leaving(y)
  <2>1. CASE n = m
    <3>1. Leaving(x) = e /\ Leaving(y) = <<>>
      BY <1>3, <1>6, <2>1
    <3> QED BY <1>8, <3>1, BytesEmpty
  <2>2. CASE n # m
    <3> DEFINE a == SubSeq(d, k + 1, k + m)
               j == k + n
               l == m - n
               b == SubSeq(d, j + 1, j + l)
    <3>1. j \in Nat /\ l \in Nat /\ j + l <= block_size /\ n + l = m
      BY <1>2, <2>2
    <3>2. Leaving(y) = b /\ Leaving(x) = a
      BY <1>3, <1>5, <2>2
    <3>3. /\ a \in Seq(0 .. block_size) /\ Len(a) = m /\ \A i \in 1 .. m : a[i] = d[k + i]
      BY <1>2, Piece
    <3> HIDE DEF a, j, l
    <3>4. /\ b \in Seq(0 .. block_size) /\ Len(b) = l /\ \A i \in 1 .. l : b[i] = d[j + i]
      BY <1>2, <3>1, Piece
    <3> HIDE DEF b
    <3>5. /\ e \o b \in Seq(0 .. block_size) /\ Len(e \o b) = n + l
          /\ \A i \in 1 .. n + l : (e \o b)[i] = IF i <= n THEN e[i] ELSE b[i - n]
      <4>1. /\ e \o b \in Seq(0 .. block_size) /\ Len(e \o b) = Len(e) + Len(b)
            /\ \A i \in 1 .. Len(e) + Len(b) : (e \o b)[i] = IF i <= Len(e) THEN e[i] ELSE b[i - Len(e)]
        BY <1>7, <3>4, ConcatProperties
      <4>2. Len(e) = n /\ Len(b) = l
        BY <1>7, <3>4
      <4> QED BY <4>1, <4>2
    <3>6. \A i \in 1 .. m : a[i] = (e \o b)[i]
      <4> TAKE i \in 1 .. m
      <4>1. CASE i <= n
        <5>1. i \in 1 .. n
          BY <1>2, <4>1
        <5> QED BY <1>7, <3>1, <3>3, <3>5, <4>1, <5>1
      <4>2. CASE ~(i <= n)
        <5>1. i - n \in 1 .. l /\ j + (i - n) = k + i
          BY <1>2, <3>1, <4>2 DEF j
        <5>2. b[i - n] = d[k + i]
          BY <3>4, <5>1
        <5> QED BY <3>1, <3>3, <3>5, <4>2, <5>2
      <4> QED BY <4>1, <4>2
    <3>7. Len(a) = Len(e \o b)
      BY <3>1, <3>3, <3>5
    <3>8. a = e \o b
      BY <3>3, <3>5, <3>6, <3>7, SeqEqual
    <3> QED BY <3>2, <3>8
  <2> QED BY <2>1, <2>2
<1>10. Leaving(y) \in Bytes /\ Held(y) \in Bytes
  BY <1>0, CarriedBytes
<1>11. e \o (Leaving(y) \o Held(y)) = (e \o Leaving(y)) \o Held(y)
  BY <1>8, <1>10, MoveLeft
<1> QED BY <1>4, <1>8, <1>9, <1>11 DEF Carried

\* The bytes read come behind those the session had.
LEMMA FilledCarried ==
  ASSUME NEW x \in Sessions, Phase(x), Shape(x), x.r.st = "wait",
         NEW p \in Seq(0 .. block_size), NEW n \in 1 .. Len(p), n <= block_size,
         NEW y, y = Filled(x, p, n),
         NEW h, h = SubSeq(p, 1, n)
  PROVE  h \in Bytes /\ Carried(y) = Carried(x) \o h /\ (Live(x) => Live(y))
<1> DEFINE B == block_size
           f == [i \in 1 .. B |-> IF i <= n THEN p[i] ELSE 0]
<1>1. FilledOf(x, y, p, n)
  BY FilledIs
<1>2. /\ B \in Nat /\ n \in Nat /\ Len(p) \in Nat /\ n <= Len(p) /\ n >= 1
      /\ p \in [1 .. Len(p) -> 0 .. B]
  BY LenProperties, Sizes
<1>3. /\ x.r.buf \in {1, 2} /\ x.w.buf \in {1, 2} /\ x.data \in [1 .. 2 -> [1 .. B -> 0 .. B]]
      /\ x.count # 2
  BY DEF Sessions, Ops, Phase
<1>4. f \in [1 .. B -> 0 .. B] /\ \A i \in 1 .. n : f[i] = p[i]
  <2> HIDE DEF B
  <2>1. \A i \in 1 .. B : (IF i <= n THEN p[i] ELSE 0) \in 0 .. B
    <3> TAKE i \in 1 .. B
    <3>1. 0 \in 0 .. B
      BY <1>2
    <3>2. CASE i <= n
      <4>1. i \in 1 .. Len(p)
        BY <1>2, <3>2
      <4> QED BY <1>2, <3>2, <4>1
    <3> QED BY <3>1, <3>2
  <2>2. f \in [1 .. B -> 0 .. B]
    BY <2>1
  <2>3. \A i \in 1 .. n : i \in 1 .. B /\ i <= n
    <3>1. n <= B
      BY DEF B
    <3> QED BY <1>2, <3>1
  <2> QED BY <2>2, <2>3
<1>5. /\ y.data = [x.data EXCEPT ![x.r.buf] = f] /\ y.w = x.w /\ y.off = x.off
      /\ y.count = x.count /\ y.r.st = "ok" /\ y.r.buf = x.r.buf /\ y.r.len = n
  BY <1>1 DEF FilledOf
<1> HIDE DEF f
<1>6. y.data[y.r.buf] = f /\ \A b \in {1, 2} : b # x.r.buf => y.data[b] = x.data[b]
  BY <1>3, <1>4, <1>5
<1>7. Leaving(y) = Leaving(x)
  <2>1. CASE x.w.st = "wait"
    <3>1. x.w.buf # x.r.buf
      <4>1. x.r.buf = x.read /\ x.w.buf = 3 - x.read /\ x.read \in {1, 2}
        BY <2>1 DEF Phase, Sessions
      <4> QED BY <4>1
    <3> QED BY <1>3, <1>5, <1>6, <3>1 DEF Leaving
  <2>2. CASE x.w.st # "wait"
    BY <1>5, <2>2 DEF Leaving
  <2> QED BY <2>1, <2>2
<1>8. Held(x) = <<>> /\ Held(y) = SubSeq(f, 1, n)
  BY <1>3, <1>5, <1>6 DEF Held
<1>9. /\ h \in Seq(0 .. B) /\ SubSeq(f, 1, n) \in Seq(0 .. B) /\ SubSeq(f, 1, n) = h
  <2>1. /\ SubSeq(p, 0 + 1, 0 + n) \in Seq(0 .. B) /\ Len(SubSeq(p, 0 + 1, 0 + n)) = n
        /\ \A i \in 1 .. n : SubSeq(p, 0 + 1, 0 + n)[i] = p[0 + i]
    BY <1>2, Piece
  <2>2. /\ SubSeq(f, 0 + 1, 0 + n) \in Seq(0 .. B) /\ Len(SubSeq(f, 0 + 1, 0 + n)) = n
        /\ \A i \in 1 .. n : SubSeq(f, 0 + 1, 0 + n)[i] = f[0 + i]
    <3> DEFINE S == 0 .. B
               k == 0
    <3>1. B \in Nat /\ f \in [1 .. B -> S] /\ k \in Nat /\ n \in Nat /\ k + n <= B
      BY <1>2, <1>4
    <3> HIDE DEF B, S, k
    <3>2. /\ SubSeq(f, k + 1, k + n) \in Seq(S) /\ Len(SubSeq(f, k + 1, k + n)) = n
          /\ \A i \in 1 .. n : SubSeq(f, k + 1, k + n)[i] = f[k + i]
      BY <3>1, Piece
    <3> QED BY <3>2 DEF S, k
  <2>3. 0 + 1 = 1 /\ 0 + n = n /\ \A i \in 1 .. n : 0 + i = i
    BY <1>2
  <2> DEFINE g == SubSeq(f, 1, n)
  <2>4. /\ h \in Seq(0 .. B) /\ Len(h) = n /\ \A i \in 1 .. n : h[i] = p[i]
    BY <2>1, <2>3
  <2>5. /\ g \in Seq(0 .. B) /\ Len(g) = n /\ \A i \in 1 .. n : g[i] = f[i]
    BY <2>2, <2>3
  <2> HIDE DEF g
  <2>6. g = h
    BY <1>4, <2>4, <2>5, SeqEqual
  <2> QED BY <2>4, <2>5, <2>6 DEF g
<1>10. Leaving(x) \in Bytes /\ h \in Bytes
  BY <1>9, CarriedBytes DEF Bytes
<1>11. Carried(x) = Leaving(x) /\ Carried(y) = Leaving(x) \o h
  BY <1>7, <1>8, <1>9, <1>10, BytesEmpty DEF Carried
<1>12. Live(x) => Live(y)
  BY <1>5 DEF Live
<1> QED BY <1>10, <1>11, <1>12
-------------------------------------------------------------------------------
(* The ring, step by step.                                                 *)

\* What the steps need of the invariants.
LEMMA RingFacts ==
  ASSUME IInv, TInv, RInv
  PROVE  /\ ses \in [Sides -> Sessions] /\ sock \in [Sides -> {"no", "open", "closed"}]
         /\ \A s \in Sides : /\ ses[s] \in Sessions /\ Phase(ses[s]) /\ Shape(ses[s])
                             /\ Carried(ses[s]) \in Bytes /\ pipe[s] \in Bytes
                             /\ (Whole => Start(s) = "wait")
         /\ Circle \in Bytes
<1>1. /\ ses \in [Sides -> Sessions] /\ sock \in [Sides -> {"no", "open", "closed"}]
      /\ \A s \in Sides : ses[s] \in Sessions /\ Phase(ses[s]) /\ Shape(ses[s])
  BY Facts DEF TypeOK
<1>2. \A s \in Sides : pipe[s] \in Bytes
  BY Facts DEF Bytes
<1>3. \A s \in Sides : Carried(ses[s]) \in Bytes
  BY <1>1, CarriedBytes
<1>4. \A s \in Sides : Whole => Start(s) = "wait"
  BY DEF Whole, Start
<1>5. Circle \in Bytes
  BY <1>2, <1>3, BytesJoin DEF Circle, RingOf, Sides
<1> QED BY <1>1, <1>2, <1>3, <1>4, <1>5

\* A step that leaves the sessions and the pipes alone.
LEMMA NothingMoves ==
  ASSUME RInv, UNCHANGED <<ses, pipe>>,
         conn' = "done" <=> conn = "done", Whole' => Whole \/ Live(ses["server"]),
         Whole' /\ conn = "done" => Whole
  PROVE  RInv'
<1>1. Untouched' = Untouched /\ Circle' = Circle
  BY DEF Untouched, Circle
<1> QED BY <1>1 DEF RInv

\* A session of the client or the server is another one, with the same bytes.
LEMMA SameBytes ==
  ASSUME IInv, TInv, RInv, NEW s \in Sides, NEW y, ses' = [ses EXCEPT ![s] = y],
         UNCHANGED <<pipe, conn, sock, lost>>,
         Whole => Live(y) /\ Carried(y) = Carried(ses[s]),
         conn # "done" => s = "server" /\ Quiet(y)
  PROVE  RInv'
<1>1. ses'[s] = y /\ \A t \in Sides : t # s => ses'[t] = ses[t]
  BY RingFacts
<1>2. Whole' = Whole
  BY DEF Whole
<1>3. Whole => Circle' = Circle
  BY <1>1 DEF Circle, Sides
<1>4. conn # "done" => Untouched'
  <2> SUFFICES ASSUME conn # "done" PROVE Untouched'
    OBVIOUS
  <2>1. ses'["server"] = y /\ ses'["client"] = ses["client"] /\ Quiet(y) /\ Untouched
    BY <1>1 DEF Sides, RInv
  <2> QED BY <2>1 DEF Untouched
<1>5. Whole => \A t \in Sides : Live(ses[t]) => Live(ses'[t])
  BY <1>1
<1> QED BY <1>2, <1>3, <1>4, <1>5 DEF RInv, Sides

\* The client's handlers.
LEMMA ClientRing == IInv /\ TInv /\ RInv /\ (ClientNext \/ HandleTimeout) => RInv'
<1> SUFFICES ASSUME IInv, TInv, RInv, ClientNext \/ HandleTimeout PROVE RInv'
  OBVIOUS
<1> DEFINE x == ses["client"]
<1>1. /\ x \in Sessions /\ Phase(x) /\ Shape(x) /\ (Whole => Start("client") = "wait")
      /\ (conn # "done" => Fresh(x) /\ Untouched)
      /\ (Whole => Live(ses["server"])) /\ (Whole /\ conn = "done" => Live(x))
      /\ "client" \in Sides /\ "server" \in Sides
  BY RingFacts DEF IInv, RInv, Sides
<1>2. CASE HandleConnect
  <2>0. /\ conn = "ok" /\ conn' = "done" /\ UNCHANGED <<sock, pipe, lost>>
        /\ Fresh(x) /\ Untouched
    BY <1>1, <1>2 DEF HandleConnect, ClientKeeps
  <2>1. CASE sock["client"] = "open"
    <3> DEFINE v == [x EXCEPT !.count = @ + 1]
               y == async_read_some(async_write(v, block_size, "wait"), "wait")
    <3>1. ses' = [ses EXCEPT !["client"] = y]
      BY <1>2, <2>1 DEF HandleConnect
    <3>2. /\ v \in Sessions /\ v.count = 1 /\ v.data = x.data /\ v.read = 1
          /\ "r" \notin v.in_use /\ "w" \notin v.in_use
      <4>1. x.count = 0 /\ "r" \notin x.in_use /\ "w" \notin x.in_use /\ x.read = 1
        BY <1>1, <2>0 DEF Fresh, Phase, Untouched
      <4>2. v = [x EXCEPT !.count = 1]
        BY <4>1
      <4> QED BY <1>1, <4>1, <4>2 DEF Sessions
    <3> HIDE DEF v
    <3>3. Started(v, y, block_size, "wait")
      BY <3>2, BothStarted, Sizes
    <3> HIDE DEF y
    <3>4. Live(y) /\ Carried(y) = Block
      <4>1. /\ y.w.st = "wait" /\ y.w.buf = 2 /\ y.w.len = block_size /\ y.off = 0
            /\ y.r.st = "wait" /\ y.count = 1 /\ y.data[2] = Block
        BY <2>0, <3>2, <3>3 DEF Started, Untouched
      <4>2. Held(y) = <<>> /\ Live(y)
        BY <4>1 DEF Held, Live
      <4>3. Block \in Bytes /\ Len(Block) = block_size
        BY BlockTurned, ArrayIsSeq, Sizes DEF Bytes
      <4>4. Leaving(y) = SubSeq(Block, 1, block_size)
        <5>1. 0 + 1 = 1 /\ 0 + block_size = block_size
          BY Sizes
        <5> QED BY <4>1, <5>1 DEF Leaving
      <4>5. SubSeq(Block, 1, Len(Block)) = Block
        BY <4>3, SubSeqFull DEF Bytes
      <4> QED BY <4>2, <4>3, <4>4, <4>5, BytesEmpty DEF Carried
    <3>5. Carried(ses["server"]) = <<>>
      <4>1. Leaving(ses["server"]) = <<>> /\ Held(ses["server"]) = <<>>
        BY <2>0 DEF Untouched, Quiet, Leaving, Held
      <4> QED BY <4>1, BytesEmpty DEF Carried
    <3>6. ses'["client"] = y /\ ses'["server"] = ses["server"]
      BY <3>1, RingFacts DEF Sides
    <3>7. Circle' = Block
      <4>1. Circle' = RingOf(<<>>, <<>>, Block, <<>>)
        BY <2>0, <3>4, <3>5, <3>6 DEF Circle, Untouched
      <4>2. Block \in Bytes
        BY BlockTurned, ArrayIsSeq, Sizes DEF Bytes
      <4> QED BY <4>1, <4>2, BytesEmpty DEF RingOf
    <3>8. Turned(Circle')
      BY <3>7, BlockTurned
    <3>9. Whole' = Whole
      BY <2>0 DEF Whole
    <3> QED BY <1>1, <2>0, <3>4, <3>6, <3>8, <3>9 DEF RInv
  <2>2. CASE sock["client"] # "open"
    <3>1. ~Whole'
      BY <1>1, <2>0, <2>2 DEF Whole
    <3> QED BY <2>0, <3>1 DEF RInv
  <2> QED BY <2>1, <2>2
<1>3. CASE HandleConnectError
  <2>1. /\ UNCHANGED <<ses, pipe, lost>> /\ conn # "done" /\ conn' # "done"
        /\ (sock' = sock \/ sock' = [sock EXCEPT !["client"] = "no"])
    BY <1>3 DEF HandleConnectError, ClientKeeps
  <2>2. Whole' => Whole
    BY <1>1, <2>1, RingFacts DEF Whole, Sides
  <2> QED BY <2>1, <2>2, NothingMoves
<1>4. CASE ClientReads
  <2> DEFINE y == Received(x, Start("client"))
  <2>1. /\ Ended(x.r) /\ ses' = [ses EXCEPT !["client"] = y]
        /\ UNCHANGED <<pipe, conn, sock, lost>>
    BY <1>4 DEF ClientReads, ClientKeeps
  <2>2. conn = "done"
    BY <1>1, <2>1 DEF Ended, Fresh
  <2>3. Whole => Live(y) /\ Carried(y) = Carried(x)
    <3> HIDE DEF x
    <3> QED BY <1>1, <2>1, <2>2, ReceivedCarried
  <2> HIDE DEF y
  <2> QED BY <1>1, <2>1, <2>2, <2>3, SameBytes
<1>5. CASE ClientWrites
  <2> DEFINE y == Sent(x, Start("client"))
  <2>1. /\ Ended(x.w) /\ ses' = [ses EXCEPT !["client"] = y]
        /\ UNCHANGED <<pipe, conn, sock, lost>>
    BY <1>5 DEF ClientWrites, ClientKeeps
  <2>2. conn = "done"
    BY <1>1, <2>1 DEF Ended, Fresh
  <2>3. Whole => Live(y) /\ Carried(y) = Carried(x)
    <3> HIDE DEF x
    <3> QED BY <1>1, <2>1, <2>2, SentCarried
  <2> HIDE DEF y
  <2> QED BY <1>1, <2>1, <2>2, <2>3, SameBytes
<1>6. CASE HandleTimeout
  <2>1. UNCHANGED <<ses, pipe, conn, sock, lost>>
    BY <1>6 DEF HandleTimeout, ClientKeeps
  <2>2. Whole' = Whole
    BY <2>1 DEF Whole
  <2> QED BY <2>1, <2>2, NothingMoves
<1>7. CASE CloseSocket
  <2> DEFINE y == Aborted(x)
  <2>1. /\ ses' = [ses EXCEPT !["client"] = y] /\ (conn' # "done" => conn # "done")
        /\ sock' = [sock EXCEPT !["client"] = "closed"] /\ UNCHANGED pipe
    BY <1>7 DEF CloseSocket, ClientKeeps
  <2>2. AbortedOf(x, y)
    BY <1>1, AbortedIs
  <2> HIDE DEF y
  <2>3. ses'["client"] = y /\ ses'["server"] = ses["server"] /\ sock'["client"] = "closed"
    BY <2>1, RingFacts DEF Sides
  <2>4. ~Whole'
    BY <1>1, <2>3 DEF Whole
  <2>5. conn' # "done" => Untouched'
    BY <1>1, <2>1, <2>2, <2>3 DEF Untouched, AbortedOf
  <2> QED BY <2>4, <2>5 DEF RInv
<1>8. CASE ClientReturns
  <2>1. UNCHANGED <<ses, pipe, conn, sock, lost>>
    BY <1>8 DEF ClientReturns
  <2>2. Whole' = Whole
    BY <2>1 DEF Whole
  <2> QED BY <2>1, <2>2, NothingMoves
<1> QED BY <1>2, <1>3, <1>4, <1>5, <1>6, <1>7, <1>8 DEF ClientNext

\* The server's handlers.
LEMMA ServerRing == IInv /\ TInv /\ RInv /\ (ServerNext \/ HandleAcceptError) => RInv'
<1> SUFFICES ASSUME IInv, TInv, RInv, ServerNext \/ HandleAcceptError PROVE RInv'
  OBVIOUS
<1> DEFINE x == ses["server"]
<1>1. /\ x \in Sessions /\ Phase(x) /\ Shape(x) /\ (Whole => Start("server") = "wait")
      /\ Start("server") \in {"wait", "err"}
      /\ (life = "new" => Fresh(x)) /\ (conn # "done" => Quiet(x))
      /\ (Whole => Live(x)) /\ "server" \in Sides
  BY RingFacts, Facts DEF IInv, RInv, Untouched, Sides
<1>2. ASSUME NEW option \in BOOLEAN, HandleAccept(option) PROVE RInv'
  <2>0. UNCHANGED <<pipe, conn, sock, lost>>
    BY <1>2 DEF HandleAccept, ServerKeeps
  <2>1. CASE option
    <3> DEFINE r == [st |-> "wait", buf |-> x.read, len |-> 0]
               y == async_read_some(x, "wait")
    <3>1. ses' = [ses EXCEPT !["server"] = y] /\ Fresh(x)
      BY <1>1, <1>2, <2>1 DEF HandleAccept, StartSession
    <3> HIDE DEF x
    <3> DEFINE u == allocate(x, "r")
    <3>2. y = [u EXCEPT !.r = r] /\ Allocated(x, u, "r")
      BY <1>1, <3>1, AllocateKeeps DEF async_read_some, Fresh, Phase
    <3>3. r.st = "wait"
      OBVIOUS
    <3> HIDE DEF y, r, u
    <3>4. y.r = r /\ y.w = x.w /\ y.count = x.count
      BY <3>2 DEF Allocated, Sessions
    <3>5. Live(y) /\ Quiet(y) /\ Carried(y) = Carried(x)
      BY <3>1, <3>3, <3>4 DEF Fresh, Live, Quiet, Carried, Leaving, Held
    <3> QED BY <1>1, <2>0, <3>1, <3>5, SameBytes DEF x
  <2>2. CASE ~option
    <3>1. UNCHANGED ses
      BY <1>2, <2>2 DEF HandleAccept, StartSession
    <3>2. Whole' = Whole
      BY <2>0 DEF Whole
    <3> QED BY <2>0, <3>1, <3>2, NothingMoves
  <2> QED BY <2>1, <2>2
<1>3. CASE HandleAcceptError
  <2>1. UNCHANGED <<ses, pipe, conn, sock, lost>>
    BY <1>3 DEF HandleAcceptError, ServerKeeps
  <2>2. Whole' = Whole
    BY <2>1 DEF Whole
  <2> QED BY <2>1, <2>2, NothingMoves
<1>4. CASE ServerReads
  <2> DEFINE y == Received(x, Start("server"))
  <2>1. /\ Ended(x.r) /\ ses' = [ses EXCEPT !["server"] = y]
        /\ UNCHANGED <<pipe, conn, sock, lost>>
    BY <1>4 DEF ServerReads, ServerKeeps
  <2>2. Whole => Live(y) /\ Carried(y) = Carried(x)
    <3> HIDE DEF x
    <3> QED BY <1>1, <2>1, ReceivedCarried
  <2>3. Quiet(x) => Quiet(y)
    <3> HIDE DEF x
    <3> SUFFICES ASSUME Quiet(x) PROVE Quiet(y)
      OBVIOUS
    <3>1. x.r.st = "err"
      BY <2>1 DEF Ended, Quiet
    <3>2. ReadGone(x, y)
      BY <1>1, <2>1, <3>1, ReceivedIs
    <3> HIDE DEF y
    <3> QED BY <3>2 DEF ReadGone, Quiet
  <2> HIDE DEF y
  <2> QED BY <1>1, <2>1, <2>2, <2>3, SameBytes
<1>5. CASE ServerWrites
  <2> DEFINE y == Sent(x, Start("server"))
  <2>1. /\ Ended(x.w) /\ ses' = [ses EXCEPT !["server"] = y]
        /\ UNCHANGED <<pipe, conn, sock, lost>>
    BY <1>5 DEF ServerWrites, ServerKeeps
  <2>2. Whole => Live(y) /\ Carried(y) = Carried(x)
    <3> HIDE DEF x
    <3> QED BY <1>1, <2>1, SentCarried
  <2>3. conn = "done"
    BY <1>1, <2>1 DEF Ended, Quiet
  <2> HIDE DEF y
  <2> QED BY <1>1, <2>1, <2>2, <2>3, SameBytes
<1>6. CASE Destroy
  <2>1. UNCHANGED <<ses, pipe, conn>> /\ sock' = [sock EXCEPT !["server"] = "closed"]
    BY <1>6 DEF Destroy, ServerKeeps
  <2>2. ~Whole'
    BY <1>1, <2>1, RingFacts DEF Whole
  <2> QED BY <2>1, <2>2, NothingMoves
<1> QED BY <1>2, <1>3, <1>4, <1>5, <1>6 DEF ServerNext

\* Bytes go from a session into its pipe.
LEMMA WritesRing ==
  ASSUME IInv, TInv, RInv, NEW s \in Sides, NEW n, Writes(s, n)
  PROVE  RInv'
<1> DEFINE x == ses[s]
           y == Wrote(x, n)
           e == SubSeq(x.data[x.w.buf], x.off + 1, x.off + n)
<1>1. /\ x \in Sessions /\ Phase(x) /\ x.w.st = "wait" /\ n \in 1 .. x.w.len
      /\ ses' = [ses EXCEPT ![s] = y] /\ UNCHANGED <<conn, sock, lost>>
  BY RingFacts DEF Writes
<1>2. pipe'[s] = pipe[s] \o e /\ pipe'[Other(s)] = pipe[Other(s)]
  BY WrittenBytes
<1>3. e \in Bytes /\ Carried(x) = e \o Carried(y) /\ (Live(x) => Live(y))
  <2> HIDE DEF x
  <2> QED BY <1>1, WroteCarried
<1>4. Carried(y) \in Bytes
  <2> HIDE DEF x
  <2>1. y \in Sessions /\ Phase(y)
    BY <1>1, WroteKeeps
  <2> QED BY <2>1, CarriedBytes
<1>5. conn = "done"
  BY <1>1 DEF IInv, RInv, Untouched, Quiet, Fresh, Sides
<1>6. ses'[s] = y /\ ses'[Other(s)] = ses[Other(s)]
  <2> HIDE DEF y
  <2> QED BY <1>1, RingFacts DEF Sides, Other
<1>7. Whole' = Whole
  BY <1>1 DEF Whole
<1> HIDE DEF y, e
<1>8. /\ pipe["client"] \in Bytes /\ pipe["server"] \in Bytes
      /\ Carried(ses["client"]) \in Bytes /\ Carried(ses["server"]) \in Bytes
  BY RingFacts DEF Sides
<1>9. CASE s = "client"
  <2>1. /\ pipe'["client"] = pipe["client"] \o e /\ pipe'["server"] = pipe["server"]
        /\ ses'["client"] = y /\ ses'["server"] = ses["server"]
    BY <1>2, <1>6, <1>9 DEF Other
  <2>2. Circle' = Circle
    <3>1. Circle = RingOf(Carried(ses["server"]), pipe["client"], e \o Carried(y), pipe["server"])
      BY <1>3, <1>9 DEF Circle
    <3>2. Circle' = RingOf(Carried(ses["server"]), pipe["client"] \o e, Carried(y), pipe["server"])
      BY <2>1 DEF Circle
    <3> QED BY <1>3, <1>4, <1>8, <3>1, <3>2, ClientWritesRing
  <2> QED BY <1>1, <1>3, <1>5, <1>7, <1>9, <2>1, <2>2 DEF RInv
<1>10. CASE s = "server"
  <2>1. /\ pipe'["server"] = pipe["server"] \o e /\ pipe'["client"] = pipe["client"]
        /\ ses'["server"] = y /\ ses'["client"] = ses["client"]
    BY <1>2, <1>6, <1>10 DEF Other
  <2>2. Circle = RingOf(e \o Carried(y), pipe["client"], Carried(ses["client"]), pipe["server"])
    BY <1>3, <1>10 DEF Circle
  <2>3. Circle' = RingOf(Carried(y), pipe["client"], Carried(ses["client"]), pipe["server"] \o e)
    BY <2>1 DEF Circle
  <2>4. Turned(Circle) => Turned(Circle')
    BY <1>3, <1>4, <1>8, <2>2, <2>3, ServerWritesRing
  <2> QED BY <1>1, <1>3, <1>5, <1>7, <1>10, <2>1, <2>4 DEF RInv
<1> QED BY <1>9, <1>10 DEF Sides

\* Bytes go from a pipe into the session at its end.
LEMMA ReadsRing ==
  ASSUME IInv, TInv, RInv, NEW s \in Sides, NEW n, Reads(s, n)
  PROVE  RInv'
<1> DEFINE x == ses[s]
           p == pipe[Other(s)]
           y == Filled(x, p, n)
           h == SubSeq(p, 1, n)
           t == SubSeq(p, n + 1, Len(p))
<1>1. /\ x \in Sessions /\ Phase(x) /\ Shape(x) /\ x.r.st = "wait"
      /\ ses' = [ses EXCEPT ![s] = y] /\ UNCHANGED <<conn, sock, lost>>
      /\ n \in 1 .. Len(p) /\ n <= block_size
  BY RingFacts DEF Reads
<1>2. /\ n \in Nat /\ n >= 1 /\ n <= Len(p) /\ p \in Seq(0 .. block_size) /\ Len(p) \in Nat
      /\ pipe'[Other(s)] = t /\ pipe'[s] = pipe[s] /\ t \in Bytes
  <2>1. p = pipe[Other(s)]
    OBVIOUS
  <2> HIDE DEF p
  <2>2. /\ n \in Nat /\ n >= 1 /\ n <= Len(p) /\ p \in Seq(0 .. block_size) /\ Len(p) \in Nat
        /\ pipe'[Other(s)] = t /\ pipe'[s] = pipe[s] /\ pipe'[Other(s)] \in Seq(0 .. block_size)
    BY <2>1, ReadBytes
  <2> QED BY <2>2 DEF Bytes
<1>3. h \in Bytes /\ Carried(y) = Carried(x) \o h /\ (Live(x) => Live(y))
  <2> HIDE DEF x, p
  <2> QED BY <1>1, <1>2, FilledCarried
<1>4. p = h \o t
  <2> HIDE DEF p
  <2>1. SubSeq(p, 1, n) \o SubSeq(p, n + 1, Len(p)) = SubSeq(p, 1, Len(p))
    BY <1>2, ConcatAdjacentSubSeq
  <2>2. SubSeq(p, 1, Len(p)) = p
    BY <1>2, SubSeqFull
  <2> QED BY <2>1, <2>2
<1>5. conn = "done"
  <2> SUFFICES ASSUME conn # "done" PROVE FALSE
    OBVIOUS
  <2>1. p = <<>>
    BY DEF RInv, Untouched, Sides, Other
  <2>2. Len(p) = 0
    BY <2>1, EmptySeq
  <2> HIDE DEF p
  <2> QED BY <1>2, <2>2
<1>6. ses'[s] = y /\ ses'[Other(s)] = ses[Other(s)]
  <2> HIDE DEF y
  <2> QED BY <1>1, RingFacts DEF Sides, Other
<1>7. Whole' = Whole
  BY <1>1 DEF Whole
<1> HIDE DEF y, h, t
<1>8. /\ pipe["client"] \in Bytes /\ pipe["server"] \in Bytes
      /\ Carried(ses["client"]) \in Bytes /\ Carried(ses["server"]) \in Bytes
  BY RingFacts DEF Sides
<1>9. CASE s = "client"
  <2>1. /\ pipe'["server"] = t /\ pipe'["client"] = pipe["client"] /\ pipe["server"] = h \o t
        /\ ses'["client"] = y /\ ses'["server"] = ses["server"]
    BY <1>2, <1>4, <1>6, <1>9 DEF Other
  <2>2. Circle' = Circle
    <3>1. Circle = RingOf(Carried(ses["server"]), pipe["client"], Carried(ses["client"]), h \o t)
      BY <2>1 DEF Circle
    <3>2. Circle' = RingOf(Carried(ses["server"]), pipe["client"], Carried(ses["client"]) \o h, t)
      BY <1>3, <1>9, <2>1 DEF Circle
    <3> QED BY <1>2, <1>3, <1>8, <3>1, <3>2, ClientReadsRing
  <2> QED BY <1>1, <1>3, <1>5, <1>7, <1>9, <2>1, <2>2 DEF RInv
<1>10. CASE s = "server"
  <2>1. /\ pipe'["client"] = t /\ pipe'["server"] = pipe["server"] /\ pipe["client"] = h \o t
        /\ ses'["server"] = y /\ ses'["client"] = ses["client"]
    BY <1>2, <1>4, <1>6, <1>10 DEF Other
  <2>2. Circle' = Circle
    <3>1. Circle = RingOf(Carried(ses["server"]), h \o t, Carried(ses["client"]), pipe["server"])
      BY <2>1 DEF Circle
    <3>2. Circle' = RingOf(Carried(ses["server"]) \o h, t, Carried(ses["client"]), pipe["server"])
      BY <1>3, <1>10, <2>1 DEF Circle
    <3> QED BY <1>2, <1>3, <1>8, <3>1, <3>2, ServerReadsRing
  <2> QED BY <1>1, <1>3, <1>5, <1>7, <1>10, <2>1, <2>2 DEF RInv
<1> QED BY <1>9, <1>10 DEF Sides

\* The kernel's steps.
LEMMA KernelRing == IInv /\ TInv /\ RInv /\ KernelNext => RInv'
<1> SUFFICES ASSUME IInv, TInv, RInv, KernelNext PROVE RInv'
  OBVIOUS
<1>1. ASSUME NEW ok \in BOOLEAN, Connected(ok) PROVE RInv'
  <2>1. /\ UNCHANGED <<ses, pipe, lost>> /\ conn # "done" /\ conn' # "done"
        /\ (ok => life = "new") /\ (~ok => sock' = sock)
    BY <1>1 DEF Connected
  <2>2. ok => Live(ses["server"])
    BY <2>1 DEF IInv, Fresh, Live
  <2>3. ~ok => Whole' = Whole
    BY <2>1 DEF Whole
  <2> QED BY <2>1, <2>2, <2>3, NothingMoves
<1>2. CASE Loses
  <2>1. /\ UNCHANGED <<ses, conn>> /\ lost' = TRUE
        /\ pipe'["client"] = <<>> /\ pipe'["server"] = <<>>
    BY <1>2 DEF Loses, Sides
  <2>2. ~Whole'
    BY <2>1 DEF Whole
  <2>3. Untouched => Untouched'
    BY <2>1 DEF Untouched
  <2> QED BY <2>1, <2>2, <2>3 DEF RInv
<1>3. ASSUME NEW s \in Sides, WriteSome(s) PROVE RInv'
  <2>1. PICK n : Writes(s, n)
    BY <1>3 DEF WriteSome, Writes, KernelKeeps
  <2> QED BY <2>1, WritesRing
<1>4. ASSUME NEW s \in Sides, ReadSome(s) PROVE RInv'
  <2>1. PICK n : Reads(s, n)
    BY <1>4 DEF ReadSome, Reads, KernelKeeps
  <2> QED BY <2>1, ReadsRing
<1>5. ASSUME NEW s \in Sides, Fails(s) PROVE RInv'
  <2> DEFINE x == ses[s]
             y == Aborted(x)
  <2>1. /\ ses' = [ses EXCEPT ![s] = y] /\ UNCHANGED <<pipe, conn, sock, lost>> /\ ~Whole
        /\ x \in Sessions
    BY <1>5, RingFacts DEF Fails
  <2>2. AbortedOf(x, y)
    BY <2>1, AbortedIs
  <2> HIDE DEF y
  <2>3. ses'[s] = y /\ \A t \in Sides : t # s => ses'[t] = ses[t]
    BY <2>1, RingFacts
  <2>4. ~Whole'
    BY <2>1 DEF Whole
  <2>5. Untouched => Untouched'
    <3>1. CASE s = "client"
      BY <2>1, <2>2, <2>3, <3>1 DEF Untouched, AbortedOf, Sides
    <3>2. CASE s = "server"
      BY <2>1, <2>2, <2>3, <3>2 DEF Untouched, AbortedOf, Quiet, Sides
    <3> QED BY <3>1, <3>2 DEF Sides
  <2> QED BY <2>1, <2>4, <2>5 DEF RInv
<1> QED BY <1>1, <1>2, <1>3, <1>4, <1>5 DEF KernelNext

\* Before anything is sent.
LEMMA RingInit == Init => RInv
<1> SUFFICES ASSUME Init PROVE RInv
  OBVIOUS
<1>1. conn # "done" /\ ~Whole /\ pipe["client"] = <<>> /\ pipe["server"] = <<>>
  BY DEF Init, Whole, Sides
<1>2. /\ ses["client"] = Session(<<Blank, Block>>)
      /\ ses["server"] = Session(<<Blank, Blank>>)
  BY DEF Init, Sides
<1>3. ses["client"].read = 1 /\ ses["client"].data = <<Blank, Block>>
  BY <1>2 DEF Session
<1>4. Quiet(ses["server"])
  BY <1>2 DEF Session, Quiet, Idle
<1>5. <<Blank, Block>>[2] = Block
  OBVIOUS
<1>6. Untouched
  BY <1>1, <1>3, <1>4, <1>5 DEF Untouched
<1> QED BY <1>1, <1>6 DEF RInv

\* No handler and no operation of the kernel loses, doubles or reorders a byte:
\* before the first block is sent nothing is on its way; from then on, while the
\* connection stands, the bytes of both sessions and both pipes are the block,
\* turned.
THEOREM RingHolds == Spec => [](IInv /\ TInv /\ RInv)
<1>1. IInv /\ TInv /\ RInv /\ [Next]_vars => RInv'
  <2> SUFFICES ASSUME IInv, TInv, RInv, [Next]_vars PROVE RInv'
    OBVIOUS
  <2>1. CASE UNCHANGED vars
    <3>1. UNCHANGED <<ses, pipe, conn>> /\ Whole' = Whole
      BY <2>1 DEF vars, Whole
    <3> QED BY <3>1, NothingMoves
  <2> QED BY <2>1, ClientRing, ServerRing, KernelRing DEF Next
<1> QED BY <1>1, BalanceHolds, RingInit, PTL DEF Spec

\* The ring, written out as RingIntact does, is the block turned.
LEMMA CircleIsRing ==
  ASSUME IInv, TInv, RInv
  PROVE  Ring = Circle
<1> DEFINE x == ses["client"]
           a == Carried(ses["server"]) \o pipe["client"]
<1>1. Leaving(x) \in Bytes /\ Held(x) \in Bytes /\ a \in Bytes
  BY RingFacts, CarriedBytes, BytesJoin DEF Sides
<1>2. Ring = ((a \o Leaving(x)) \o Held(x)) \o pipe["server"]
  BY DEF Ring, Carried
<1>3. Circle = (a \o (Leaving(x) \o Held(x))) \o pipe["server"]
  BY DEF Circle, RingOf, Carried
<1> HIDE DEF a, x
<1>4. a \o (Leaving(x) \o Held(x)) = (a \o Leaving(x)) \o Held(x)
  BY <1>1, MoveLeft
<1> QED BY <1>2, <1>3, <1>4

\* The bytes that go round are the block, rotated, as long as the connection holds:
\* std::swap() and the two buffers neither lose, double nor overtake one, whatever
\* pieces the kernel moves and in whatever order the handlers run.
THEOREM RingStaysIntact == Spec => []RingIntact
<1>1. IInv /\ TInv /\ RInv => RingIntact
  <2> SUFFICES ASSUME IInv, TInv, RInv, Whole, conn = "done"
               PROVE  \E k \in 1 .. block_size :
                        Ring = SubSeq(Block, k, block_size) \o SubSeq(Block, 1, k - 1)
    BY DEF RingIntact
  <2>1. Circle \in Seq(0 .. block_size) /\ Turned(Circle)
    BY RingFacts DEF RInv, Bytes
  <2>2. Ring = Circle
    BY CircleIsRing
  <2> QED BY <2>1, <2>2, TurnedIsRotation
<1> QED BY <1>1, RingHolds, PTL
================================================================================
