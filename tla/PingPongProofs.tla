----------------------------- MODULE PingPongProofs ----------------------------
(***************************************************************************)
(* Safety of the ping-pong sessions, for every size of a block, every      *)
(* number of endpoints and every capacity of the pipes.                    *)
(*                                                                         *)
(* What makes the two buffers, the two allocators and op_count_ right is   *)
(* how the count of unsent answers goes with the operations that are       *)
(* outstanding (Phase): with both outstanding it is one, a read alone      *)
(* leaves it at most at one, a write alone at least at one, so the handler *)
(* that brings it to one always finds both idle.                           *)
(***************************************************************************)
EXTENDS PingPong, SequenceTheorems, TLAPS

\* Only operations that are too large are on the heap.
InPlace(x) == \A a \in x.heap : ~Fits(a)

Phase(x) ==
  /\ x.r.st # "no" /\ x.w.st # "no" =>
       x.count = 1 /\ x.r.buf = x.read /\ x.w.buf = 3 - x.read
  /\ x.r.st # "no" /\ x.w.st = "no" => x.count \in {0, 1}
  /\ x.r.st = "no" /\ x.w.st # "no" => x.count \in {1, 2}
  /\ "r" \in x.in_use => x.r.st # "no"
  /\ "w" \in x.in_use => x.w.st # "no"
  /\ InPlace(x)
  /\ x.w.st = "wait" => x.off + x.w.len <= block_size

\* A session whose operations have not been started.
Fresh(x) == x.count = 0 /\ x.r.st = "no" /\ x.w.st = "no"

IInv ==
  /\ TypeOK
  /\ \A s \in Sides : Phase(ses[s])
  /\ conn # "done" => Fresh(ses["client"])
  /\ life = "new" => Fresh(ses["server"])
  /\ SessionOutlivesOps

-------------------------------------------------------------------------------
(* What the operators make of a session.                                   *)

\* Lengths from none to a whole block.
LEMMA Sizes == block_size \in Nat /\ 0 \in 0 .. block_size /\ block_size \in 0 .. block_size
BY PingPongAssumption

\* y is x with memory for an operation of the kind a.
Allocated(x, y, a) ==
  /\ y \in Sessions
  /\ y.data = x.data /\ y.read = x.read /\ y.length = x.length /\ y.count = x.count
  /\ y.r = x.r /\ y.w = x.w /\ y.off = x.off
  /\ y.in_use \subseteq x.in_use \cup {a}
  /\ InPlace(x) => InPlace(y)

\* allocate() where no operation of the kind has the storage.
LEMMA AllocateKeeps ==
  ASSUME NEW x \in Sessions, NEW a \in {"r", "w"}, a \notin x.in_use
  PROVE  Allocated(x, allocate(x, a), a)
<1>1. CASE Fits(a)
  <2> DEFINE y == [x EXCEPT !.in_use = @ \cup {a}]
  <2>1. allocate(x, a) = y
    BY <1>1 DEF allocate
  <2>2. /\ y \in Sessions /\ y.heap = x.heap /\ y.in_use = x.in_use \cup {a}
        /\ y.data = x.data /\ y.read = x.read /\ y.length = x.length /\ y.count = x.count
        /\ y.r = x.r /\ y.w = x.w /\ y.off = x.off
    BY DEF Sessions
  <2> HIDE DEF y
  <2> QED BY <2>1, <2>2 DEF Allocated, InPlace
<1>2. CASE ~Fits(a)
  <2> DEFINE y == [x EXCEPT !.heap = @ \cup {a}]
  <2>1. allocate(x, a) = y
    BY <1>2 DEF allocate
  <2>2. /\ y \in Sessions /\ y.heap = x.heap \cup {a} /\ y.in_use = x.in_use
        /\ y.data = x.data /\ y.read = x.read /\ y.length = x.length /\ y.count = x.count
        /\ y.r = x.r /\ y.w = x.w /\ y.off = x.off
    BY DEF Sessions
  <2> HIDE DEF y
  <2>3. InPlace(x) => InPlace(y)
    BY <1>2, <2>2 DEF InPlace
  <2> QED BY <2>1, <2>2, <2>3 DEF Allocated
<1> QED BY <1>1, <1>2

\* Memory for one kind of operation leaves the other kind's alone.
LEMMA NotTaken ==
  ASSUME NEW x, NEW y, NEW a, NEW c, Allocated(x, y, a), c # a, c \notin x.in_use
  PROVE  c \notin y.in_use
BY DEF Allocated

\* A session with both operations idle starts both: the count of the caller is
\* kept, the read gets the read buffer and the write the other one.
LEMMA BothStart ==
  ASSUME NEW x \in Sessions, NEW n \in 0 .. block_size, NEW st \in {"wait", "err"},
         x.count = 1, "r" \notin x.in_use, "w" \notin x.in_use, InPlace(x)
  PROVE  LET y == async_read_some(async_write(x, n, st), st)
         IN  /\ y \in Sessions /\ Phase(y) /\ y.read = x.read
             /\ y.r.st # "no" /\ y.w.st # "no"
<1> USE Sizes
<1> DEFINE w == [st |-> st, buf |-> 3 - x.read, len |-> n]
           r == [st |-> st, buf |-> x.read, len |-> 0]
           t == allocate(x, "w")
           v == [t EXCEPT !.w = w, !.off = 0]
           u == allocate(v, "r")
           y == [u EXCEPT !.r = r]
<1>1. w \in Ops /\ r \in Ops /\ w.st # "no" /\ r.st # "no"
  BY DEF Sessions, Ops
<1>2. Allocated(x, t, "w") /\ "r" \notin t.in_use
  BY AllocateKeeps, NotTaken
<1>3. async_write(x, n, st) = v
  BY DEF async_write
<1> HIDE DEF t
<1>4. /\ v \in Sessions /\ v.w = w /\ v.off = 0 /\ v.count = 1 /\ v.read = x.read
      /\ "r" \notin v.in_use /\ InPlace(v)
  <2> HIDE DEF w
  <2> QED BY <1>1, <1>2 DEF Allocated, Sessions, InPlace
<1>5. async_read_some(v, st) = y
  BY <1>4 DEF async_read_some
<1> HIDE DEF v
<1>6. Allocated(v, u, "r")
  BY <1>4, AllocateKeeps
<1> HIDE DEF u
<1>7. /\ y \in Sessions /\ y.w = w /\ y.off = 0 /\ y.count = 1 /\ y.read = x.read
      /\ y.r = r /\ InPlace(y)
  <2> HIDE DEF r, w
  <2> QED BY <1>1, <1>4, <1>6 DEF Allocated, Sessions, InPlace
<1> HIDE DEF y
<1>8. Phase(y) /\ y.r.st # "no" /\ y.w.st # "no"
  BY <1>1, <1>7 DEF Phase
<1> QED BY <1>3, <1>5, <1>7, <1>8

\* The handler of a read keeps the phases, and what it starts is what it counts.
LEMMA ReceivedKeeps ==
  ASSUME NEW x \in Sessions, Phase(x), Ended(x.r), NEW st \in {"wait", "err"}
  PROVE  /\ Received(x, st) \in Sessions /\ Phase(Received(x, st))
         /\ Outstanding(Received(x, st)) =
              Outstanding(x) - 1 + (IF x.read # Received(x, st).read THEN 2 ELSE 0)
<1> USE Sizes
<1> DEFINE y == [x EXCEPT !.in_use = @ \ {"r"}, !.r = Idle]
           z == [y EXCEPT !.length = x.r.len, !.count = @ + 1]
           u == [z EXCEPT !.read = 3 - @]
<1>1. y \in Sessions /\ Phase(y)
  BY DEF Phase, InPlace, Sessions, Ops, Idle, Ended
<1>2. Outstanding(y) = Outstanding(x) - 1 /\ y.read = x.read
  BY DEF Outstanding, Sessions, Ops, Idle, Ended
<1>7. y.count = x.count /\ x.count + 1 \in 0 .. 2 /\ x.r.len \in 0 .. block_size /\ 3 - x.read \in {1, 2}
  BY DEF Phase, Sessions, Ops, Ended
<1>8. /\ z \in Sessions /\ z.count = x.count + 1 /\ z.r = y.r /\ z.w = y.w /\ z.in_use = y.in_use
      /\ z.heap = y.heap /\ z.off = y.off /\ z.read = y.read
  <2> HIDE DEF y
  <2> QED BY <1>1, <1>7 DEF Sessions
<1>3. Received(x, st) = IF x.r.st = "err" THEN y ELSE IF z.count = 1 THEN Exchange(z, st) ELSE z
  BY DEF Received, deallocate, Sessions
<1>4. CASE x.r.st = "err"
  <2>1. Received(x, st) = y
    BY <1>3, <1>4
  <2> HIDE DEF y
  <2>2. Outstanding(x) - 1 = Outstanding(x) - 1 + 0
    BY DEF Outstanding
  <2> QED BY <1>1, <1>2, <2>1, <2>2
<1>5. CASE x.r.st # "err" /\ z.count = 1
  <2>1. x.count = 0 /\ x.w.st = "no"
    BY <1>5 DEF Phase, Sessions, Ops, Ended
  <2>0. "r" \notin y.in_use /\ "w" \notin y.in_use /\ InPlace(y)
    BY <2>1, <1>1 DEF Phase, Idle, Sessions
  <2>2. /\ u \in Sessions /\ u.count = 1 /\ InPlace(u)
        /\ "r" \notin u.in_use /\ "w" \notin u.in_use
    <3>1. 3 - z.read \in {1, 2}
      BY <1>2, <1>7, <1>8
    <3> HIDE DEF y, z
    <3> QED BY <1>5, <1>8, <2>0, <3>1 DEF Sessions, InPlace
  <2>3. z.length \in 0 .. block_size
    BY DEF Sessions, Ops
  <2>4. Exchange(z, st) = async_read_some(async_write(u, z.length, st), st)
    BY DEF Exchange
  <2>5. u.read # x.read
    BY DEF Sessions
  <2> HIDE DEF u, z, y
  <2>6. /\ Exchange(z, st) \in Sessions /\ Phase(Exchange(z, st)) /\ Exchange(z, st).read = u.read
        /\ Exchange(z, st).r.st # "no" /\ Exchange(z, st).w.st # "no"
    BY BothStart, <2>2, <2>3, <2>4
  <2>7. Outstanding(x) = 1 /\ Outstanding(Exchange(z, st)) = 2
    BY <2>1, <2>6 DEF Outstanding, Ended
  <2> QED BY <1>3, <1>5, <2>5, <2>6, <2>7
<1>6. CASE x.r.st # "err" /\ z.count # 1
  <2>1. z \in Sessions /\ Phase(z)
    <3>1. y.r.st = "no" /\ y.w = x.w
      BY DEF Idle, Sessions
    <3>2. x.r.st # "no"
      BY DEF Ended
    <3> HIDE DEF y, z
    <3> QED BY <1>1, <1>6, <1>7, <1>8, <3>1, <3>2 DEF Phase, InPlace, Sessions, Ops
  <2>2. Outstanding(z) = Outstanding(x) - 1 /\ z.read = x.read
    BY DEF Outstanding, Sessions, Ops, Idle, Ended
  <2>3. Received(x, st) = z
    BY <1>3, <1>6
  <2> HIDE DEF z, y
  <2>4. Outstanding(x) - 1 = Outstanding(x) - 1 + 0
    BY DEF Outstanding
  <2> QED BY <2>1, <2>2, <2>3, <2>4
<1> QED BY <1>4, <1>5, <1>6

\* The same of the handler of a write.
LEMMA SentKeeps ==
  ASSUME NEW x \in Sessions, Phase(x), Ended(x.w), NEW st \in {"wait", "err"}
  PROVE  /\ Sent(x, st) \in Sessions /\ Phase(Sent(x, st))
         /\ Outstanding(Sent(x, st)) =
              Outstanding(x) - 1 + (IF x.read # Sent(x, st).read THEN 2 ELSE 0)
<1> USE Sizes
<1> DEFINE y == [x EXCEPT !.in_use = @ \ {"w"}, !.w = Idle, !.off = 0]
           z == [y EXCEPT !.count = @ - 1]
           u == [z EXCEPT !.read = 3 - @]
<1>1. y \in Sessions /\ Phase(y)
  BY DEF Phase, InPlace, Sessions, Ops, Idle, Ended
<1>2. Outstanding(y) = Outstanding(x) - 1 /\ y.read = x.read
  BY DEF Outstanding, Sessions, Ops, Idle, Ended
<1>7. y.count = x.count /\ x.count - 1 \in 0 .. 2 /\ x.r.len \in 0 .. block_size /\ 3 - x.read \in {1, 2}
  BY DEF Phase, Sessions, Ops, Ended
<1>8. /\ z \in Sessions /\ z.count = x.count - 1 /\ z.r = y.r /\ z.w = y.w /\ z.in_use = y.in_use
      /\ z.heap = y.heap /\ z.off = y.off /\ z.read = y.read
  <2> HIDE DEF y
  <2> QED BY <1>1, <1>7 DEF Sessions
<1>3. Sent(x, st) = IF x.w.st = "err" THEN y ELSE IF z.count = 1 THEN Exchange(z, st) ELSE z
  BY DEF Sent, deallocate, Sessions
<1>4. CASE x.w.st = "err"
  <2>1. Sent(x, st) = y
    BY <1>3, <1>4
  <2> HIDE DEF y
  <2>2. Outstanding(x) - 1 = Outstanding(x) - 1 + 0
    BY DEF Outstanding
  <2> QED BY <1>1, <1>2, <2>1, <2>2
<1>5. CASE x.w.st # "err" /\ z.count = 1
  <2>1. x.count = 2 /\ x.r.st = "no"
    BY <1>5 DEF Phase, Sessions, Ops, Ended
  <2>0. "r" \notin y.in_use /\ "w" \notin y.in_use /\ InPlace(y)
    BY <2>1, <1>1 DEF Phase, Idle, Sessions
  <2>2. /\ u \in Sessions /\ u.count = 1 /\ InPlace(u)
        /\ "r" \notin u.in_use /\ "w" \notin u.in_use
    <3>1. 3 - z.read \in {1, 2}
      BY <1>2, <1>7, <1>8
    <3> HIDE DEF y, z
    <3> QED BY <1>5, <1>8, <2>0, <3>1 DEF Sessions, InPlace
  <2>3. z.length \in 0 .. block_size
    BY DEF Sessions, Ops
  <2>4. Exchange(z, st) = async_read_some(async_write(u, z.length, st), st)
    BY DEF Exchange
  <2>5. u.read # x.read
    BY DEF Sessions
  <2> HIDE DEF u, z, y
  <2>6. /\ Exchange(z, st) \in Sessions /\ Phase(Exchange(z, st)) /\ Exchange(z, st).read = u.read
        /\ Exchange(z, st).r.st # "no" /\ Exchange(z, st).w.st # "no"
    BY BothStart, <2>2, <2>3, <2>4
  <2>7. Outstanding(x) = 1 /\ Outstanding(Exchange(z, st)) = 2
    BY <2>1, <2>6 DEF Outstanding, Ended
  <2> QED BY <1>3, <1>5, <2>5, <2>6, <2>7
<1>6. CASE x.w.st # "err" /\ z.count # 1
  <2>1. z \in Sessions /\ Phase(z)
    <3>1. y.w.st = "no" /\ y.r = x.r
      BY DEF Idle, Sessions
    <3>2. x.w.st # "no"
      BY DEF Ended
    <3> HIDE DEF y, z
    <3> QED BY <1>1, <1>6, <1>7, <1>8, <3>1, <3>2 DEF Phase, InPlace, Sessions, Ops
  <2>2. Outstanding(z) = Outstanding(x) - 1 /\ z.read = x.read
    BY DEF Outstanding, Sessions, Ops, Idle, Ended
  <2>3. Sent(x, st) = z
    BY <1>3, <1>6
  <2> HIDE DEF z, y
  <2>4. Outstanding(x) - 1 = Outstanding(x) - 1 + 0
    BY DEF Outstanding
  <2> QED BY <2>1, <2>2, <2>3, <2>4
<1> QED BY <1>4, <1>5, <1>6

\* Bytes written: the operation stays outstanding, and inside its block.
LEMMA WroteKeeps ==
  ASSUME NEW x \in Sessions, Phase(x), x.w.st = "wait", NEW n \in 1 .. x.w.len
  PROVE  /\ Wrote(x, n) \in Sessions /\ Phase(Wrote(x, n)) /\ Wrote(x, n).count = x.count
         /\ Wrote(x, n).r.st = "no" <=> x.r.st = "no"
         /\ Wrote(x, n).w.st = "no" <=> x.w.st = "no"
<1> DEFINE st == IF n = x.w.len THEN "ok" ELSE "wait"
           w == [st |-> st, buf |-> x.w.buf, len |-> x.w.len - n]
           y == [x EXCEPT !.off = x.off + n, !.w = w]
<1>1. /\ x.off + n \in 0 .. block_size /\ x.w.len - n \in 0 .. block_size
      /\ st \in {"ok", "wait"} /\ x.w.buf \in {1, 2} /\ x.off + n + (x.w.len - n) <= block_size
  BY Sizes DEF Sessions, Ops, Phase
<1> HIDE DEF st
<1>2. w \in Ops /\ w.st = st /\ w.buf = x.w.buf /\ w.len = x.w.len - n
  BY <1>1 DEF Ops
<1> HIDE DEF w
<1>3. /\ y \in Sessions /\ y.off = x.off + n /\ y.w = w /\ y.r = x.r /\ y.read = x.read
      /\ y.count = x.count /\ y.in_use = x.in_use /\ y.heap = x.heap
  BY <1>1, <1>2 DEF Sessions
<1>4. Wrote(x, n) = y
  BY DEF Wrote, w, st
<1> HIDE DEF y
<1> QED BY <1>1, <1>2, <1>3, <1>4 DEF Phase, InPlace

\* Bytes read: the same of a read.
LEMMA FilledKeeps ==
  ASSUME NEW x \in Sessions, Phase(x), x.r.st = "wait", NEW p \in Seq(0 .. block_size),
         NEW n \in 1 .. Len(p), n <= block_size
  PROVE  /\ Filled(x, p, n) \in Sessions /\ Phase(Filled(x, p, n))
         /\ Filled(x, p, n).count = x.count
         /\ Filled(x, p, n).r.st = "no" <=> x.r.st = "no"
         /\ Filled(x, p, n).w.st = "no" <=> x.w.st = "no"
<1> DEFINE b == [i \in 1 .. block_size |-> IF i <= n THEN p[i] ELSE 0]
           d == [x.data EXCEPT ![x.r.buf] = b]
           r == [st |-> "ok", buf |-> x.r.buf, len |-> n]
           y == [x EXCEPT !.data = d, !.r = r]
<1>1. b \in [1 .. block_size -> 0 .. block_size]
  <2>1. Len(p) \in Nat /\ p \in [1 .. Len(p) -> 0 .. block_size]
    BY LenProperties
  <2> QED BY <2>1, Sizes
<1> HIDE DEF b
<1>2. d \in [1 .. 2 -> [1 .. block_size -> 0 .. block_size]]
  BY <1>1 DEF Sessions
<1>3. r \in Ops /\ r.st = "ok" /\ r.buf = x.r.buf
  <2>1. n \in 0 .. block_size
    BY Sizes
  <2>2. x.r.buf \in {1, 2}
    BY DEF Sessions, Ops
  <2> QED BY <2>1, <2>2 DEF Ops
<1> HIDE DEF d, r
<1>4. /\ y \in Sessions /\ y.r = r /\ y.w = x.w /\ y.off = x.off /\ y.read = x.read
      /\ y.count = x.count /\ y.in_use = x.in_use /\ y.heap = x.heap
  BY <1>2, <1>3 DEF Sessions
<1>5. Filled(x, p, n) = y
  BY DEF Filled, b, d, r
<1> HIDE DEF y
<1> QED BY <1>3, <1>4, <1>5 DEF Phase, InPlace

\* close() ends what waits and leaves what is outstanding.
LEMMA AbortedKeeps ==
  ASSUME NEW x \in Sessions, Phase(x)
  PROVE  /\ Aborted(x) \in Sessions /\ Phase(Aborted(x)) /\ Aborted(x).count = x.count
         /\ Aborted(x).r.st = "no" <=> x.r.st = "no"
         /\ Aborted(x).w.st = "no" <=> x.w.st = "no"
         /\ Fresh(x) => Fresh(Aborted(x))
BY DEF Aborted, Phase, InPlace, Fresh, Sessions, Ops

-------------------------------------------------------------------------------
(* The inductive invariant.                                                *)

\* Sides, and what a change of one session leaves of the other.
LEMMA TwoSides ==
  ASSUME NEW s \in Sides, NEW y \in Sessions, ses \in [Sides -> Sessions],
         ses' = [ses EXCEPT ![s] = y]
  PROVE  /\ ses' \in [Sides -> Sessions] /\ ses'[s] = y
         /\ \A t \in Sides : t # s => ses'[t] = ses[t]
BY DEF Sides

\* A step that changes the client's session keeps the invariant when it keeps the
\* session's phase and touches it only once the connection is made.
LEMMA ClientChange ==
  ASSUME IInv, TypeOK', NEW y \in Sessions, ses' = [ses EXCEPT !["client"] = y],
         Phase(y), conn' = "done", UNCHANGED <<life, op_count_>>
  PROVE  IInv'
<1>1. ses \in [Sides -> Sessions] /\ "client" \in Sides /\ "server" \in Sides
  BY DEF IInv, TypeOK, Sides
<1>2. ses'["client"] = y /\ ses'["server"] = ses["server"]
  BY <1>1, TwoSides DEF Sides
<1>3. \A s \in Sides : Phase(ses'[s])
  BY <1>1, <1>2 DEF IInv, Sides
<1> QED BY <1>2, <1>3 DEF IInv, SessionOutlivesOps

\* The same of the server's session, where the operations are counted.
LEMMA ServerChange ==
  ASSUME IInv, TypeOK', NEW y \in Sessions, ses' = [ses EXCEPT !["server"] = y],
         Phase(y), op_count_' = Outstanding(y), life' = "live" <=> op_count_' > 0,
         life' # "new", UNCHANGED conn
  PROVE  IInv'
<1>1. ses \in [Sides -> Sessions] /\ "client" \in Sides /\ "server" \in Sides
  BY DEF IInv, TypeOK, Sides
<1>2. ses'["server"] = y /\ ses'["client"] = ses["client"]
  BY <1>1, TwoSides DEF Sides
<1>3. \A s \in Sides : Phase(ses'[s])
  BY <1>1, <1>2 DEF IInv, Sides
<1> QED BY <1>2, <1>3 DEF IInv, SessionOutlivesOps

\* What the kernel does to a session keeps which operations are outstanding.
LEMMA KernelChange ==
  ASSUME IInv, TypeOK', NEW s \in Sides, NEW y \in Sessions, ses' = [ses EXCEPT ![s] = y],
         Phase(y), y.count = ses[s].count,
         y.r.st = "no" <=> ses[s].r.st = "no", y.w.st = "no" <=> ses[s].w.st = "no",
         UNCHANGED <<conn, life, op_count_>>
  PROVE  IInv'
<1>1. ses \in [Sides -> Sessions] /\ "client" \in Sides /\ "server" \in Sides
  BY DEF IInv, TypeOK, Sides
<1>2. ses'[s] = y /\ \A t \in Sides : t # s => ses'[t] = ses[t]
  BY <1>1, TwoSides
<1>3. \A t \in Sides : Phase(ses'[t])
  BY <1>2 DEF IInv
<1>4. \A t \in Sides : /\ Fresh(ses[t]) => Fresh(ses'[t])
                      /\ Outstanding(ses'[t]) = Outstanding(ses[t])
  BY <1>2 DEF Fresh, Outstanding
<1> QED BY <1>1, <1>3, <1>4 DEF IInv, SessionOutlivesOps

\* A step that changes no session and leaves what the invariant relates.
LEMMA NoSession ==
  ASSUME IInv, TypeOK', UNCHANGED <<ses, op_count_>>,
         conn = "done" => conn' = "done", life' = life \/ (life # "live" /\ life' \notin {"new", "live"})
  PROVE  IInv'
BY DEF IInv, SessionOutlivesOps, Fresh

\* The sessions before start() satisfy the inductive invariant.
LEMMA IInvInit == Init => IInv
<1> SUFFICES ASSUME Init PROVE IInv
  OBVIOUS
<1> USE Sizes
<1>1. \A s \in Sides : \E d \in [1 .. 2 -> [1 .. block_size -> 0 .. block_size]] : ses[s] = Session(d)
  <2>1. Blank \in [1 .. block_size -> 0 .. block_size] /\ Block \in [1 .. block_size -> 0 .. block_size]
    BY DEF Blank, Block
  <2> QED BY <2>1 DEF Init, Sides
<1>2. \A d \in [1 .. 2 -> [1 .. block_size -> 0 .. block_size]] :
        /\ Session(d) \in Sessions /\ Fresh(Session(d)) /\ Phase(Session(d))
        /\ Outstanding(Session(d)) = 0
  BY DEF Session, Sessions, Ops, Idle, Fresh, Phase, InPlace, Outstanding
<1>3. \A s \in Sides : /\ ses[s] \in Sessions /\ Fresh(ses[s]) /\ Phase(ses[s])
                      /\ Outstanding(ses[s]) = 0
  BY <1>1, <1>2
<1>4. TypeOK
  <2>1. ses \in [Sides -> Sessions]
    BY <1>3 DEF Init
  <2>2. left \in 0 .. Endpoints - 1 /\ \A s \in Sides : Len(pipe[s]) <= Room
    BY PingPongAssumption DEF Init
  <2>3. pipe \in [Sides -> Seq(0 .. block_size)] /\ ahead \in Int /\ stats \in Int /\ op_count_ \in 0 .. 2
    BY DEF Init
  <2>4. /\ sock \in [Sides -> {"no", "open", "closed"}] /\ lost \in BOOLEAN
        /\ conn \in {"wait", "ok", "err", "done", "failed"}
        /\ stop \in {"no", "posted", "done"} /\ listens \in BOOLEAN /\ returned \in BOOLEAN
        /\ life \in {"new", "live", "posted", "dead"}
    BY DEF Init
  <2> QED BY <2>1, <2>2, <2>3, <2>4 DEF TypeOK
<1> QED BY <1>3, <1>4 DEF Init, IInv, SessionOutlivesOps, Sides

\* The client's handlers.
LEMMA ClientSteps == IInv /\ (ClientNext \/ HandleTimeout) => IInv'
<1> SUFFICES ASSUME IInv, ClientNext \/ HandleTimeout PROVE IInv'
  OBVIOUS
<1> DEFINE x == ses["client"]
<1>1. /\ x \in Sessions /\ Phase(x) /\ ses \in [Sides -> Sessions] /\ TypeOK
      /\ Start("client") \in {"wait", "err"} /\ (conn # "done" => Fresh(x))
  BY DEF IInv, TypeOK, Sides, Start
<1> HIDE DEF x
<1>2. CASE HandleConnect
  <2>1. CASE sock["client"] = "open"
    <3> DEFINE v == [x EXCEPT !.count = @ + 1]
               y == async_read_some(async_write(v, block_size, "wait"), "wait")
    <3>1. ses' = [ses EXCEPT !["client"] = y]
      BY <1>2, <2>1 DEF HandleConnect, x
    <3>2. Fresh(x)
      BY <1>1, <1>2 DEF HandleConnect
    <3>3. /\ v \in Sessions /\ v.count = 1 /\ InPlace(v)
          /\ "r" \notin v.in_use /\ "w" \notin v.in_use
      <4>1. x.count + 1 = 1 /\ 1 \in 0 .. 2 /\ InPlace(x) /\ "r" \notin x.in_use /\ "w" \notin x.in_use
        BY <1>1, <3>2 DEF Fresh, Phase
      <4>2. v = [x EXCEPT !.count = 1]
        BY <4>1
      <4> QED BY <1>1, <4>1, <4>2 DEF Sessions, InPlace
    <3> HIDE DEF v
    <3>4. y \in Sessions /\ Phase(y)
      BY <3>3, BothStart, Sizes
    <3> HIDE DEF y
    <3>5. TypeOK'
      <4>1. left' \in 0 .. Endpoints - 1
        BY <1>2, PingPongAssumption DEF HandleConnect
      <4> QED BY <1>1, <1>2, <3>1, <3>4, <4>1 DEF HandleConnect, ClientKeeps, TypeOK
    <3> QED BY <1>2, <3>1, <3>4, <3>5, ClientChange DEF HandleConnect, ClientKeeps
  <2>2. CASE sock["client"] # "open"
    <3>1. TypeOK' /\ UNCHANGED <<ses, op_count_, life>> /\ conn' = "done"
      BY <1>1, <1>2, <2>2, PingPongAssumption DEF HandleConnect, ClientKeeps, TypeOK
    <3> QED BY <3>1, NoSession
  <2> QED BY <2>1, <2>2
<1>3. CASE HandleConnectError
  <2>1. TypeOK'
    <3>1. left' \in 0 .. Endpoints - 1
      BY <1>1, <1>3, PingPongAssumption DEF HandleConnectError, TypeOK
    <3>2. sock' \in [Sides -> {"no", "open", "closed"}]
      BY <1>1, <1>3 DEF HandleConnectError, TypeOK
    <3> QED BY <1>1, <1>3, <3>1, <3>2 DEF HandleConnectError, ClientKeeps, TypeOK
  <2> QED BY <1>3, <2>1, NoSession DEF HandleConnectError, ClientKeeps
<1>4. CASE ClientReads
  <2> DEFINE y == Received(x, Start("client"))
  <2>1. Ended(x.r) /\ ses' = [ses EXCEPT !["client"] = y] /\ conn' = conn
    BY <1>4 DEF ClientReads, x
  <2>2. y \in Sessions /\ Phase(y)
    BY <1>1, <2>1, ReceivedKeeps
  <2>3. conn = "done"
    BY <1>1, <2>1 DEF Ended, Fresh
  <2>4. ahead' \in Int
    BY <1>1, <1>4 DEF ClientReads, TypeOK, Sessions, Ops, x
  <2> HIDE DEF y
  <2>5. TypeOK'
    BY <1>1, <1>4, <2>1, <2>2, <2>4 DEF ClientReads, ClientKeeps, TypeOK
  <2> QED BY <1>4, <2>1, <2>2, <2>3, <2>5, ClientChange DEF ClientReads, ClientKeeps
<1>5. CASE ClientWrites
  <2> DEFINE y == Sent(x, Start("client"))
  <2>1. Ended(x.w) /\ ses' = [ses EXCEPT !["client"] = y] /\ conn' = conn
    BY <1>5 DEF ClientWrites, x
  <2>2. y \in Sessions /\ Phase(y)
    BY <1>1, <2>1, SentKeeps
  <2>3. conn = "done"
    BY <1>1, <2>1 DEF Ended, Fresh
  <2>4. ahead' \in Int
    BY <1>1, <1>5 DEF ClientWrites, TypeOK, Sessions, Ops, x
  <2> HIDE DEF y
  <2>5. TypeOK'
    BY <1>1, <1>5, <2>1, <2>2, <2>4 DEF ClientWrites, ClientKeeps, TypeOK
  <2> QED BY <1>5, <2>1, <2>2, <2>3, <2>5, ClientChange DEF ClientWrites, ClientKeeps
<1>6. CASE HandleTimeout
  <2>1. TypeOK'
    BY <1>1, <1>6 DEF HandleTimeout, ClientKeeps, TypeOK
  <2> QED BY <1>6, <2>1, NoSession DEF HandleTimeout, ClientKeeps
<1>7. CASE CloseSocket
  <2> DEFINE y == Aborted(x)
  <2>1. ses' = [ses EXCEPT !["client"] = y]
    BY <1>7 DEF CloseSocket, x
  <2>2. y \in Sessions /\ Phase(y) /\ (Fresh(x) => Fresh(y))
    BY <1>1, AbortedKeeps
  <2> HIDE DEF y
  <2>3. TypeOK'
    BY <1>1, <1>7, <2>1, <2>2 DEF CloseSocket, ClientKeeps, TypeOK
  <2>4. ses'["client"] = y /\ ses'["server"] = ses["server"]
    BY <1>1, <2>1, <2>2, TwoSides DEF Sides
  <2>5. \A s \in Sides : Phase(ses'[s])
    BY <2>2, <2>4 DEF IInv, Sides
  <2>6. conn' # "done" => conn # "done"
    BY <1>7 DEF CloseSocket
  <2> QED BY <1>1, <1>7, <2>2, <2>3, <2>4, <2>5, <2>6
        DEF IInv, SessionOutlivesOps, CloseSocket, ClientKeeps
<1>8. CASE ClientReturns
  <2>1. TypeOK'
    BY <1>1, <1>8 DEF ClientReturns, Tally, TypeOK
  <2> QED BY <1>8, <2>1, NoSession DEF ClientReturns
<1> QED BY <1>2, <1>3, <1>4, <1>5, <1>6, <1>7, <1>8 DEF ClientNext

\* The server's handlers.
LEMMA ServerSteps == IInv /\ (ServerNext \/ HandleAcceptError) => IInv'
<1> SUFFICES ASSUME IInv, ServerNext \/ HandleAcceptError PROVE IInv'
  OBVIOUS
<1> DEFINE x == ses["server"]
<1>1. /\ x \in Sessions /\ Phase(x) /\ ses \in [Sides -> Sessions] /\ TypeOK
      /\ Start("server") \in {"wait", "err"} /\ (life = "new" => Fresh(x))
      /\ op_count_ = Outstanding(x) /\ (life = "live" <=> op_count_ > 0)
      /\ Outstanding(x) \in 0 .. 2
  BY DEF IInv, TypeOK, Sides, Start, SessionOutlivesOps, Outstanding
<1> HIDE DEF x
<1>2. ASSUME NEW option \in BOOLEAN, HandleAccept(option) PROVE IInv'
  <2>1. CASE option
    <3> DEFINE y == async_read_some(x, "wait")
    <3>1. ses' = [ses EXCEPT !["server"] = y] /\ op_count_' = op_count_ + 1 /\ life' = "live"
      BY <1>2, <2>1 DEF HandleAccept, StartSession, x
    <3>2. Fresh(x)
      BY <1>1, <1>2 DEF HandleAccept
    <3>3. "r" \notin x.in_use
      BY <1>1, <3>2 DEF Fresh, Phase
    <3>4. [st |-> "wait", buf |-> x.read, len |-> 0] \in Ops
      BY <1>1, Sizes DEF Ops, Sessions
    <3> HIDE DEF y
    <3>5. y \in Sessions /\ y.r.st = "wait" /\ y.w = x.w /\ y.count = x.count /\ InPlace(y)
          /\ y.in_use \subseteq x.in_use \cup {"r"}
      <4> DEFINE u == allocate(x, "r")
                 r == [st |-> "wait", buf |-> x.read, len |-> 0]
      <4>1. Allocated(x, u, "r") /\ InPlace(x)
        BY <1>1, <3>3, AllocateKeeps DEF Phase
      <4>2. y = [u EXCEPT !.r = r] /\ r.st = "wait" /\ r \in Ops
        BY <3>4 DEF async_read_some, y
      <4> HIDE DEF u, r
      <4> QED BY <4>1, <4>2 DEF Allocated, Sessions, InPlace
    <3>6. Phase(y) /\ Outstanding(y) = 1 /\ Outstanding(x) = 0
      BY <1>1, <3>2, <3>5 DEF Phase, Fresh, Outstanding
    <3>7. op_count_' = Outstanding(y) /\ op_count_' = 1
      BY <1>1, <3>1, <3>6
    <3>8. TypeOK' /\ conn' = conn
      <4>1. UNCHANGED <<sock, listens, pipe, lost, conn, left, stop, ahead, stats, returned>>
        BY <1>2 DEF HandleAccept, ServerKeeps
      <4>2. ses' \in [Sides -> Sessions]
        BY <1>1, <3>1, <3>5
      <4> QED BY <1>1, <3>1, <3>7, <4>1, <4>2 DEF TypeOK
    <3>9. (life' = "live" <=> op_count_' > 0) /\ life' # "new"
      BY <3>1, <3>7
    <3> QED BY <3>1, <3>5, <3>6, <3>7, <3>8, <3>9, ServerChange
  <2>2. CASE ~option
    <3>1. TypeOK' /\ UNCHANGED <<ses, op_count_, conn>> /\ life = "new" /\ life' = "posted"
      BY <1>1, <1>2, <2>2 DEF HandleAccept, StartSession, ServerKeeps, TypeOK
    <3> QED BY <3>1, NoSession
  <2> QED BY <2>1, <2>2
<1>3. CASE HandleAcceptError
  <2>1. TypeOK'
    BY <1>1, <1>3 DEF HandleAcceptError, ServerKeeps, TypeOK
  <2> QED BY <1>3, <2>1, NoSession DEF HandleAcceptError, ServerKeeps
<1>4. CASE ServerReads
  <2> DEFINE y == Received(x, Start("server"))
  <2>1. /\ Ended(x.r) /\ ses' = [ses EXCEPT !["server"] = y]
        /\ Count(Restarted(x, y))
    BY <1>4 DEF ServerReads, x
  <2>2. y \in Sessions /\ Phase(y) /\ Restarted(x, y) = Outstanding(y)
    BY <1>1, <2>1, ReceivedKeeps DEF Restarted
  <2> HIDE DEF y
  <2>3. Outstanding(x) > 0 /\ Outstanding(y) \in 0 .. 2
    BY <2>1 DEF Outstanding, Ended
  <2>4. life = "live" /\ op_count_' = Outstanding(y)
        /\ life' = IF Outstanding(y) = 0 THEN "posted" ELSE life
    BY <1>1, <2>1, <2>2, <2>3 DEF Count
  <2>5. TypeOK'
    BY <1>1, <1>4, <2>1, <2>2, <2>3, <2>4 DEF ServerReads, ServerKeeps, TypeOK
  <2>6. (life' = "live" <=> op_count_' > 0) /\ life' # "new" /\ conn' = conn
    BY <1>4, <2>3, <2>4 DEF ServerReads, ServerKeeps
  <2> QED BY <2>1, <2>2, <2>4, <2>5, <2>6, ServerChange
<1>5. CASE ServerWrites
  <2> DEFINE y == Sent(x, Start("server"))
  <2>1. /\ Ended(x.w) /\ ses' = [ses EXCEPT !["server"] = y]
        /\ Count(Restarted(x, y))
    BY <1>5 DEF ServerWrites, x
  <2>2. y \in Sessions /\ Phase(y) /\ Restarted(x, y) = Outstanding(y)
    BY <1>1, <2>1, SentKeeps DEF Restarted
  <2> HIDE DEF y
  <2>3. Outstanding(x) > 0 /\ Outstanding(y) \in 0 .. 2
    BY <2>1 DEF Outstanding, Ended
  <2>4. life = "live" /\ op_count_' = Outstanding(y)
        /\ life' = IF Outstanding(y) = 0 THEN "posted" ELSE life
    BY <1>1, <2>1, <2>2, <2>3 DEF Count
  <2>5. TypeOK'
    BY <1>1, <1>5, <2>1, <2>2, <2>3, <2>4 DEF ServerWrites, ServerKeeps, TypeOK
  <2>6. (life' = "live" <=> op_count_' > 0) /\ life' # "new" /\ conn' = conn
    BY <1>5, <2>3, <2>4 DEF ServerWrites, ServerKeeps
  <2> QED BY <2>1, <2>2, <2>4, <2>5, <2>6, ServerChange
<1>6. CASE Destroy
  <2>1. TypeOK'
    BY <1>1, <1>6 DEF Destroy, ServerKeeps, TypeOK
  <2> QED BY <1>6, <2>1, NoSession DEF Destroy, ServerKeeps
<1> QED BY <1>2, <1>3, <1>4, <1>5, <1>6 DEF ServerNext

\* The kernel.
LEMMA KernelSteps == IInv /\ KernelNext => IInv'
<1> SUFFICES ASSUME IInv, KernelNext PROVE IInv'
  OBVIOUS
<1>1. /\ ses \in [Sides -> Sessions] /\ TypeOK
      /\ \A s \in Sides : ses[s] \in Sessions /\ Phase(ses[s]) /\ Other(s) \in Sides
  BY DEF IInv, TypeOK, Sides, Other
<1>2. ASSUME NEW ok \in BOOLEAN, Connected(ok) PROVE IInv'
  <2>1. TypeOK' /\ UNCHANGED <<ses, op_count_, life>> /\ conn = "wait"
    <3>1. conn = "wait" /\ conn' \in {"ok", "err"} /\ UNCHANGED <<ses, pipe, lost>> /\ KernelKeeps
      BY <1>2 DEF Connected
    <3>2. sock' \in [Sides -> {"no", "open", "closed"}]
      BY <1>1, <1>2 DEF Connected, TypeOK
    <3> QED BY <1>1, <3>1, <3>2 DEF KernelKeeps, TypeOK
  <2> QED BY <2>1, NoSession
<1>3. CASE Loses
  <2>1. TypeOK' /\ UNCHANGED <<ses, op_count_, life, conn>>
    <3>1. pipe' \in [Sides -> Seq(0 .. block_size)] /\ \A s \in Sides : Len(pipe'[s]) <= Room
      BY <1>3, PingPongAssumption DEF Loses
    <3> QED BY <1>1, <1>3, <3>1 DEF Loses, KernelKeeps, TypeOK
  <2> QED BY <2>1, NoSession
<1>4. ASSUME NEW s \in Sides, WriteSome(s) PROVE IInv'
  <2> DEFINE x == ses[s]
  <2>1. PICK n \in 1 .. x.w.len :
          /\ Len(pipe[s]) + n <= Room
          /\ pipe' = [pipe EXCEPT ![s] = @ \o SubSeq(x.data[x.w.buf], x.off + 1, x.off + n)]
          /\ ses' = [ses EXCEPT ![s] = Wrote(x, n)]
    BY <1>4 DEF WriteSome
  <2>2. x \in Sessions /\ Phase(x) /\ x.w.st = "wait"
    BY <1>1, <1>4 DEF WriteSome
  <2> DEFINE y == Wrote(x, n)
  <2>3. /\ y \in Sessions /\ Phase(y) /\ y.count = x.count
        /\ y.r.st = "no" <=> x.r.st = "no"
        /\ y.w.st = "no" <=> x.w.st = "no"
    BY <2>2, WroteKeeps
  <2>4. pipe' \in [Sides -> Seq(0 .. block_size)] /\ \A t \in Sides : Len(pipe'[t]) <= Room
    <3> DEFINE d == x.data[x.w.buf]
               q == SubSeq(d, x.off + 1, x.off + n)
    <3>1. x.w.buf \in 1 .. 2 /\ x.off \in Nat /\ n \in Nat /\ x.off + n <= block_size /\ n >= 1
      BY <2>2, Sizes DEF Sessions, Ops, Phase
    <3>2. \A i \in x.off + 1 .. x.off + n : d[i] \in 0 .. block_size
      <4>1. d \in [1 .. block_size -> 0 .. block_size]
        BY <2>2, <3>1 DEF Sessions
      <4> HIDE DEF d
      <4> QED BY <3>1, <4>1, Sizes
    <3> HIDE DEF d
    <3>3. q \in Seq(0 .. block_size) /\ Len(q) = n
      BY <3>1, <3>2, SubSeqProperties
    <3>4. /\ pipe[s] \in Seq(0 .. block_size) /\ pipe \in [Sides -> Seq(0 .. block_size)]
          /\ \A t \in Sides : Len(pipe[t]) <= Room
      BY <1>1 DEF TypeOK
    <3>5. pipe' = [pipe EXCEPT ![s] = pipe[s] \o q]
      BY <2>1 DEF d
    <3> HIDE DEF q
    <3>6. pipe[s] \o q \in Seq(0 .. block_size) /\ Len(pipe[s] \o q) = Len(pipe[s]) + n
      BY <3>3, <3>4, ConcatProperties
    <3> QED BY <2>1, <3>4, <3>5, <3>6
  <2> HIDE DEF y
  <2>5. TypeOK' /\ UNCHANGED <<conn, life, op_count_>>
    BY <1>1, <1>4, <2>1, <2>3, <2>4 DEF WriteSome, KernelKeeps, TypeOK, y
  <2> QED BY <2>1, <2>3, <2>5, KernelChange DEF y
<1>5. ASSUME NEW s \in Sides, ReadSome(s) PROVE IInv'
  <2> DEFINE x == ses[s]
             p == pipe[Other(s)]
  <2>1. PICK n \in 1 .. Len(p) :
          /\ n <= block_size
          /\ pipe' = [pipe EXCEPT ![Other(s)] = SubSeq(p, n + 1, Len(p))]
          /\ ses' = [ses EXCEPT ![s] = Filled(x, p, n)]
    BY <1>5 DEF ReadSome
  <2>2. /\ x \in Sessions /\ Phase(x) /\ x.r.st = "wait" /\ Other(s) \in Sides
        /\ p \in Seq(0 .. block_size) /\ Len(p) <= Room
        /\ pipe \in [Sides -> Seq(0 .. block_size)]
    BY <1>1, <1>5 DEF ReadSome, TypeOK
  <2> DEFINE y == Filled(x, p, n)
  <2>3. /\ y \in Sessions /\ Phase(y) /\ y.count = x.count
        /\ y.r.st = "no" <=> x.r.st = "no"
        /\ y.w.st = "no" <=> x.w.st = "no"
    BY <2>1, <2>2, FilledKeeps
  <2>4. pipe' \in [Sides -> Seq(0 .. block_size)] /\ \A t \in Sides : Len(pipe'[t]) <= Room
    <3> DEFINE q == SubSeq(p, n + 1, Len(p))
    <3>0. Len(p) \in Nat /\ p \in [1 .. Len(p) -> 0 .. block_size]
      <4> HIDE DEF p
      <4> QED BY <2>2, LenProperties
    <3>1. Len(p) \in Nat /\ n \in Nat /\ \A i \in n + 1 .. Len(p) : p[i] \in 0 .. block_size
      BY <3>0
    <3>2. q \in Seq(0 .. block_size) /\ Len(q) <= Len(p)
      BY <3>1, SubSeqProperties
    <3> HIDE DEF q
    <3>3. Len(q) \in Nat /\ Len(q) <= Room
      BY <2>2, <3>1, <3>2, PingPongAssumption
    <3>4. \A t \in Sides : Len(pipe[t]) <= Room
      BY <1>1 DEF TypeOK
    <3> QED BY <2>1, <2>2, <3>2, <3>3, <3>4 DEF q
  <2> HIDE DEF y
  <2>5. TypeOK' /\ UNCHANGED <<conn, life, op_count_>>
    BY <1>1, <1>5, <2>1, <2>3, <2>4 DEF ReadSome, KernelKeeps, TypeOK, y
  <2> QED BY <2>1, <2>3, <2>5, KernelChange DEF y
<1>6. ASSUME NEW s \in Sides, Fails(s) PROVE IInv'
  <2> DEFINE y == Aborted(ses[s])
  <2>1. ses' = [ses EXCEPT ![s] = y]
    BY <1>6 DEF Fails
  <2>2. /\ y \in Sessions /\ Phase(y) /\ y.count = ses[s].count
        /\ y.r.st = "no" <=> ses[s].r.st = "no"
        /\ y.w.st = "no" <=> ses[s].w.st = "no"
    BY <1>1, AbortedKeeps
  <2> HIDE DEF y
  <2>3. TypeOK' /\ UNCHANGED <<conn, life, op_count_>>
    BY <1>1, <1>6, <2>1, <2>2 DEF Fails, KernelKeeps, TypeOK
  <2> QED BY <2>1, <2>2, <2>3, KernelChange
<1> QED BY <1>2, <1>3, <1>4, <1>5, <1>6 DEF KernelNext

\* The operations outstanding, the count of unsent answers, the allocators and
\* the server's op_count_ go together in every reachable state.
THEOREM IInvHolds == Spec => []IInv
<1>1. IInv /\ [Next]_vars => IInv'
  <2> SUFFICES ASSUME IInv, [Next]_vars PROVE IInv'
    OBVIOUS
  <2>1. CASE UNCHANGED vars
    BY <2>1 DEF vars, IInv, TypeOK, SessionOutlivesOps
  <2> QED BY <2>1, ClientSteps, ServerSteps, KernelSteps DEF Next
<1> QED BY <1>1, IInvInit, PTL DEF Spec

\* The variables of the ping-pong sessions keep their ranges; in particular at
\* most two answers wait, and a write never runs past its block.
THEOREM TypeCorrect == Spec => []TypeOK
<1>1. IInv => TypeOK
  BY DEF IInv
<1> QED BY <1>1, IInvHolds, PTL

\* std::swap() in the handlers keeps the buffer being read into apart from the
\* one being written from.
THEOREM BuffersStayApart == Spec => []BuffersApart
<1>1. IInv => BuffersApart
  <2> SUFFICES ASSUME IInv, NEW s \in Sides, ses[s].r.st = "wait", ses[s].w.st = "wait"
               PROVE  ses[s].r.buf # ses[s].w.buf
    BY DEF BuffersApart
  <2>1. Phase(ses[s]) /\ ses[s].read \in {1, 2}
    BY DEF IInv, TypeOK, Sessions
  <2>2. ses[s].r.buf = ses[s].read /\ ses[s].w.buf = 3 - ses[s].read
    BY <2>1 DEF Phase
  <2> QED BY <2>1, <2>2
<1> QED BY <1>1, IInvHolds, PTL

\* handler_allocator goes to the heap only for an operation larger than its
\* storage.
THEOREM OneBlockIsEnough == Spec => []StorageSuffices
<1>1. IInv => StorageSuffices
  BY DEF IInv, StorageSuffices, Phase, InPlace
<1> QED BY <1>1, IInvHolds, PTL

\* op_count_ is the number of operations that may still call back, and the
\* server's session is posted for deletion exactly when it comes to zero.
THEOREM NoOpOutlivesSession == Spec => []SessionOutlivesOps
<1>1. IInv => SessionOutlivesOps
  BY DEF IInv
<1> QED BY <1>1, IInvHolds, PTL

================================================================================
