-------------------------------- MODULE PingPong -------------------------------
(***************************************************************************)
(* The ping-pong example: one session of client.cpp and the session of     *)
(* server.cpp it talks to.  The client sends a block; whatever a session   *)
(* reads it writes back, reading the next bytes into a second buffer while *)
(* it writes from the first.                                               *)
(*                                                                         *)
(* boost::asio is external.  An asynchronous operation is started by a     *)
(* handler ("wait"), ended by the kernel ("ok" or "err"), and then its     *)
(* handler runs.  A strand runs the handlers of a session one at a time,   *)
(* in the order in which the threads of run() happened to bring them, so a *)
(* handler is one step and any finished operation may be next.             *)
(***************************************************************************)
EXTENDS Integers, Sequences

CONSTANTS
  block_size,  \* bytes of a block
  Endpoints,   \* addresses the resolver found for the server
  Room,        \* bytes the kernel holds for each direction
  read_size,   \* bytes boost::asio asks for a read operation with its handler
  write_size   \* the same of a write

ASSUME PingPongAssumption ==
  /\ block_size \in Nat \ {0} /\ Endpoints \in Nat \ {0} /\ Room \in Nat \ {0}
  /\ read_size \in Nat /\ write_size \in Nat

VARIABLES
  ses,     \* the two sessions (see Session)
  pipe,    \* pipe[s]: the bytes on their way from s to the other session
  sock,    \* the sockets: "no", "open", "closed"
  lost,    \* the network has dropped the connection
  conn,    \* the client's connect operation, or what became of it
  left,    \* endpoints not tried yet
  stop,    \* the client's stop: "no", "posted" by the timer, "done"
  ahead,   \* bytes_written_ - bytes_read_ of the client's session
  stats,   \* the client's stats, total_bytes_written_ - total_bytes_read_
  returned,\* the client's run() has returned and its sessions are deleted
  listens, \* the server has an accept operation
  life,    \* the server's session: "new", "live", "posted" for deletion, "dead"
  op_count_

vars == <<ses, pipe, sock, lost, conn, left, stop, ahead, stats, returned, listens, life,
          op_count_>>

Sides == {"client", "server"}
Other(s) == IF s = "client" THEN "server" ELSE "client"
Idle == [st |-> "no", buf |-> 1, len |-> 0]
Block == [i \in 1 .. block_size |-> i]
Blank == [i \in 1 .. block_size |-> 0]     \* a buffer nobody has written to

\* A session; the write buffer is the one that is not the read buffer.
Session(data) ==
  [data   |-> data,    \* the two buffers
   read   |-> 1,       \* which one is read_data_
   length |-> 0,       \* read_data_length_
   count  |-> 0,       \* unwritten_count_, unsent_count_
   r |-> Idle,         \* the read operation, and the bytes it has read
   w |-> Idle,         \* the write operation, and the bytes it has left
   off    |-> 0,       \* bytes the write operation has written
   in_use |-> {},      \* which allocator's storage is taken: "r", "w"
   heap   |-> {}]      \* history: the allocators that went to the heap

Init ==
  /\ ses = [s \in Sides |-> Session(<<Blank, IF s = "client" THEN Block ELSE Blank>>)]
  /\ pipe = [s \in Sides |-> <<>>]
  /\ sock = [s \in Sides |-> "no"] /\ lost = FALSE
  /\ conn = "wait" /\ left = Endpoints - 1
  /\ stop = "no"
  /\ ahead = 0 /\ stats = 0 /\ returned = FALSE
  /\ listens = TRUE /\ life = "new" /\ op_count_ = 0
-------------------------------------------------------------------------------
(* handler_allocator.                                                      *)

storage_size == 1024

\* An operation of the kind a is small enough for the storage.
Fits(a) == (IF a = "r" THEN read_size ELSE write_size) < storage_size

allocate(x, a) ==
  IF a \notin x.in_use /\ Fits(a) THEN [x EXCEPT !.in_use = @ \cup {a}]
                                  ELSE [x EXCEPT !.heap = @ \cup {a}]

deallocate(x, a) == [x EXCEPT !.in_use = @ \ {a}]
-------------------------------------------------------------------------------
(* What both sessions do.  st is "wait", or "err" where the socket is      *)
(* closed and the operation fails at once.                                 *)

async_write(x, n, st) ==
  [allocate(x, "w") EXCEPT !.w = [st |-> st, buf |-> 3 - x.read, len |-> n], !.off = 0]

async_read_some(x, st) ==
  [allocate(x, "r") EXCEPT !.r = [st |-> st, buf |-> x.read, len |-> 0]]

\* Mutant: the buffers are not exchanged.
Exchange_NoSwap(x, st) == async_read_some(async_write(x, x.length, st), st)

\* Mutant: the exchange comes between the two operations.
Exchange_SwapsLate(x, st) ==
  LET y == async_write(x, x.length, st)
  IN  async_read_some([y EXCEPT !.read = 3 - @], st)

\* The buffers are exchanged; what was read is written, more is read.
Exchange(x, st) ==
  async_read_some(async_write([x EXCEPT !.read = 3 - @], x.length, st), st)

\* Mutant: the count of what is unsent is not looked at.
Received_Always(x, st) ==
  LET y == [deallocate(x, "r") EXCEPT !.r = Idle]
  IN  IF x.r.st = "err" THEN y
      ELSE Exchange([y EXCEPT !.length = x.r.len, !.count = @ + 1], st)

\* handle_read() and handle_write(), without the counters of one side.
Received(x, st) ==
  LET y == [deallocate(x, "r") EXCEPT !.r = Idle]
      z == [y EXCEPT !.length = x.r.len, !.count = @ + 1]
  IN  IF x.r.st = "err" THEN y ELSE IF z.count = 1 THEN Exchange(z, st) ELSE z

\* Mutant: the answer that waits is forgotten.
Sent_Forgets(x, st) ==
  LET y == [deallocate(x, "w") EXCEPT !.w = Idle, !.off = 0]
      z == [y EXCEPT !.count = @ - 1]
  IN  IF x.w.st = "err" THEN y ELSE z

Sent(x, st) ==
  LET y == [deallocate(x, "w") EXCEPT !.w = Idle, !.off = 0]
      z == [y EXCEPT !.count = @ - 1]
  IN  IF x.w.st = "err" THEN y ELSE IF z.count = 1 THEN Exchange(z, st) ELSE z

Start(s) == IF sock[s] = "open" THEN "wait" ELSE "err"
Ended(o) == o.st \in {"ok", "err"}
-------------------------------------------------------------------------------
(* The client.                                                             *)

ClientKeeps == UNCHANGED <<pipe, lost, stats, returned, listens, life, op_count_>>

\* A connection: the first block is written, the endpoints are let go.
\* set_option() fails on a socket that stop() has closed.
HandleConnect ==
  /\ conn = "ok" /\ conn' = "done"
  /\ IF sock["client"] = "open"
       THEN LET x == [ses["client"] EXCEPT !.count = @ + 1]
            IN  ses' = [ses EXCEPT !["client"] =
                          async_read_some(async_write(x, block_size, "wait"), "wait")]
       ELSE UNCHANGED ses
  /\ left' = 0
  /\ UNCHANGED <<sock, stop, ahead>> /\ ClientKeeps

\* No connection: the next endpoint, if there is one.  async_connect() opens the
\* socket again, also where stop() had closed it.
HandleConnectError ==
  /\ conn = "err"
  /\ IF left > 0
       THEN conn' = "wait" /\ left' = left - 1 /\ sock' = [sock EXCEPT !["client"] = "no"]
       ELSE conn' = "failed" /\ UNCHANGED <<left, sock>>
  /\ UNCHANGED <<ses, stop, ahead>> /\ ClientKeeps

\* Mutant: the size of the buffer is counted, not what was read.
ClientReads_Block ==
  LET x == ses["client"]
  IN  /\ Ended(x.r)
      /\ ses' = [ses EXCEPT !["client"] = Received(x, Start("client"))]
      /\ ahead' = IF x.r.st = "ok" THEN ahead - block_size ELSE ahead
      /\ UNCHANGED <<sock, conn, left, stop>> /\ ClientKeeps

ClientReads ==
  LET x == ses["client"]
  IN  /\ Ended(x.r)
      /\ ses' = [ses EXCEPT !["client"] = Received(x, Start("client"))]
      /\ ahead' = IF x.r.st = "ok" THEN ahead - x.r.len ELSE ahead
      /\ UNCHANGED <<sock, conn, left, stop>> /\ ClientKeeps

ClientWrites ==
  LET x == ses["client"]
  IN  /\ Ended(x.w)
      /\ ses' = [ses EXCEPT !["client"] = Sent(x, Start("client"))]
      /\ ahead' = IF x.w.st = "ok" THEN ahead + x.off ELSE ahead
      /\ UNCHANGED <<sock, conn, left, stop>> /\ ClientKeeps

\* The timer: stop() posts close_socket() to the strand.
HandleTimeout ==
  /\ stop = "no" /\ stop' = "posted"
  /\ UNCHANGED <<ses, sock, conn, left, ahead>> /\ ClientKeeps

\* close() ends the operations that wait.
Aborted(x) ==
  [x EXCEPT !.r.st = IF @ = "wait" THEN "err" ELSE @, !.w.st = IF @ = "wait" THEN "err" ELSE @]

\* Mutant: close() forgets the operations.
CloseSocket_Leaves ==
  /\ stop = "posted" /\ stop' = "done"
  /\ sock' = [sock EXCEPT !["client"] = "closed"]
  /\ UNCHANGED <<ses, conn, left, ahead>> /\ ClientKeeps

CloseSocket ==
  /\ stop = "posted" /\ stop' = "done"
  /\ sock' = [sock EXCEPT !["client"] = "closed"]
  /\ ses' = [ses EXCEPT !["client"] = Aborted(@)]
  /\ conn' = IF conn = "wait" THEN "err" ELSE conn
  /\ UNCHANGED <<left, ahead>> /\ ClientKeeps

\* run() returns when nothing is left to do, and ~client() deletes the session.
NothingLeft == /\ stop = "done" /\ conn \in {"done", "failed"}
               /\ ses["client"].r.st = "no" /\ ses["client"].w.st = "no"

\* ~session() adds its counters to the totals.
Tally == stats + ahead

ClientReturns ==
  /\ NothingLeft /\ ~returned
  /\ returned' = TRUE
  /\ stats' = Tally
  /\ UNCHANGED <<ses, pipe, sock, lost, conn, left, stop, ahead, listens, life, op_count_>>

ClientNext == HandleConnect \/ HandleConnectError \/ ClientReads \/ ClientWrites
              \/ CloseSocket \/ ClientReturns
-------------------------------------------------------------------------------
(* The server.                                                             *)

ServerKeeps == UNCHANGED <<pipe, lost, conn, left, stop, ahead, stats, returned>>

\* Mutant: nobody deletes the session.
Count_Forgets(n) == op_count_' = n /\ UNCHANGED life

\* Posted for deletion when no operation is left.
Count(n) ==
  /\ op_count_' = n
  /\ life' = IF n = 0 THEN "posted" ELSE life

\* start(): the first read, or where set_option() fails the end.
StartSession(option) ==
  IF option THEN /\ ses' = [ses EXCEPT !["server"] = async_read_some(@, "wait")]
                 /\ op_count_' = op_count_ + 1 /\ life' = "live"
            ELSE life' = "posted" /\ UNCHANGED <<ses, op_count_>>

\* An accepted connection: start(), and the next accept.
HandleAccept(option) ==
  /\ listens /\ life = "new" /\ sock["server"] = "open"
  /\ StartSession(option)
  /\ UNCHANGED <<sock, listens>> /\ ServerKeeps

\* A failed accept deletes the new session and is not repeated.
HandleAcceptError ==
  /\ listens /\ life = "new"
  /\ listens' = FALSE /\ life' = "dead"
  /\ UNCHANGED <<ses, sock, op_count_>> /\ ServerKeeps

\* Mutant: one of the two new operations is not counted.
Restarted_One(x, y) == op_count_ - 1 + (IF y.r.st # "no" /\ y.w.st # "no" THEN 1 ELSE 0)

\* op_count_ after a handler: less its own operation, and two where it exchanged.
Restarted(x, y) == op_count_ - 1 + (IF x.read # y.read THEN 2 ELSE 0)

ServerReads ==
  LET x == ses["server"]
      y == Received(x, Start("server"))
  IN  /\ Ended(x.r)
      /\ ses' = [ses EXCEPT !["server"] = y]
      /\ Count(Restarted(x, y))
      /\ UNCHANGED <<sock, listens>> /\ ServerKeeps

ServerWrites ==
  LET x == ses["server"]
      y == Sent(x, Start("server"))
  IN  /\ Ended(x.w)
      /\ ses' = [ses EXCEPT !["server"] = y]
      /\ Count(Restarted(x, y))
      /\ UNCHANGED <<sock, listens>> /\ ServerKeeps

Destroy ==
  /\ life = "posted" /\ life' = "dead"
  /\ sock' = [sock EXCEPT !["server"] = "closed"]
  /\ UNCHANGED <<ses, listens, op_count_>> /\ ServerKeeps

ServerNext == (\E option \in BOOLEAN : HandleAccept(option)) \/ ServerReads
              \/ ServerWrites \/ Destroy
-------------------------------------------------------------------------------
(* The kernel, for both sides.                                             *)

KernelKeeps == UNCHANGED <<left, stop, ahead, stats, returned, listens, life, op_count_>>

Connected(ok) ==
  /\ conn = "wait" /\ sock["client"] = "no" /\ (ok => listens /\ life = "new")
  /\ conn' = IF ok THEN "ok" ELSE "err"
  /\ sock' = IF ok THEN [s \in Sides |-> "open"] ELSE sock
  /\ UNCHANGED <<ses, pipe, lost>> /\ KernelKeeps

Whole == ~lost /\ \A s \in Sides : sock[s] = "open"

\* A session of which n bytes more are written, of which n bytes of p are read.
\* What is behind these in the buffer is not told apart.
Wrote(x, n) ==
  [x EXCEPT !.off = @ + n,
            !.w = [st |-> IF n = x.w.len THEN "ok" ELSE "wait", buf |-> x.w.buf,
                   len |-> x.w.len - n]]

Filled(x, p, n) ==
  [x EXCEPT !.data[x.r.buf] = [i \in 1 .. block_size |-> IF i <= n THEN p[i] ELSE 0],
            !.r = [st |-> "ok", buf |-> x.r.buf, len |-> n]]

\* async_write() writes some bytes at a time until all are written.
WriteSome(s) ==
  LET x == ses[s]
  IN  /\ ~lost /\ x.w.st = "wait" /\ Len(pipe[s]) < Room
      /\ \E n \in 1 .. x.w.len :
           /\ Len(pipe[s]) + n <= Room
           /\ pipe' = [pipe EXCEPT ![s] = @ \o SubSeq(x.data[x.w.buf], x.off + 1, x.off + n)]
           /\ ses' = [ses EXCEPT ![s] = Wrote(x, n)]
      /\ UNCHANGED <<sock, lost, conn>> /\ KernelKeeps

\* async_read_some() ends with the first bytes.
ReadSome(s) ==
  LET x == ses[s]
      p == pipe[Other(s)]
  IN  /\ ~lost /\ x.r.st = "wait"
      /\ \E n \in 1 .. Len(p) :
           /\ n <= block_size
           /\ pipe' = [pipe EXCEPT ![Other(s)] = SubSeq(p, n + 1, Len(p))]
           /\ ses' = [ses EXCEPT ![s] = Filled(x, p, n)]
      /\ UNCHANGED <<sock, lost, conn>> /\ KernelKeeps

\* The connection is no longer whole: an operation that waits ends with an error.
Fails(s) ==
  /\ ~Whole
  /\ ses[s].r.st = "wait" \/ ses[s].w.st = "wait"
  /\ ses' = [ses EXCEPT ![s] = Aborted(@)]
  /\ UNCHANGED <<pipe, sock, lost, conn>> /\ KernelKeeps

Loses ==
  /\ Whole /\ lost' = TRUE
  /\ pipe' = [s \in Sides |-> <<>>]
  /\ UNCHANGED <<ses, sock, conn>> /\ KernelKeeps

KernelNext == (\E ok \in BOOLEAN : Connected(ok)) \/ Loses
              \/ \E s \in Sides : WriteSome(s) \/ ReadSome(s) \/ Fails(s)
-------------------------------------------------------------------------------
Next == ClientNext \/ HandleTimeout \/ ServerNext \/ HandleAcceptError \/ KernelNext

Spec == Init /\ [][Next]_vars

(* The threads of run() go on, a strand's queue is first in, first out, and *)
(* the network delivers or gives up.  The timer may or may not fire within *)
(* what is looked at.                                                      *)
FairSpec ==
  /\ Spec
  /\ WF_vars(ClientNext) /\ WF_vars(ServerNext)
  /\ WF_vars(CloseSocket) /\ WF_vars(ClientReads) /\ WF_vars(ClientWrites)
  /\ WF_vars(ServerReads) /\ WF_vars(ServerWrites)
  /\ WF_vars(\E ok \in BOOLEAN : Connected(ok))
  /\ \A s \in Sides : /\ WF_vars(WriteSome(s)) /\ WF_vars(ReadSome(s))
                      /\ WF_vars(Fails(s))
-------------------------------------------------------------------------------
(* Properties.                                                             *)

Ops == [st : {"no", "wait", "ok", "err"}, buf : {1, 2}, len : 0 .. block_size]
Sessions == [data : [1 .. 2 -> [1 .. block_size -> 0 .. block_size]], read : {1, 2},
             length : 0 .. block_size, count : 0 .. 2, r : Ops, w : Ops,
             off : 0 .. block_size, in_use : SUBSET {"r", "w"}, heap : SUBSET {"r", "w"}]

\* The ranges of the variables; at most two answers wait for the write.
TypeOK ==
  /\ ses \in [Sides -> Sessions]
  /\ pipe \in [Sides -> Seq(0 .. block_size)] /\ \A s \in Sides : Len(pipe[s]) <= Room
  /\ sock \in [Sides -> {"no", "open", "closed"}] /\ lost \in BOOLEAN
  /\ conn \in {"wait", "ok", "err", "done", "failed"} /\ left \in 0 .. Endpoints - 1
  /\ stop \in {"no", "posted", "done"} /\ listens \in BOOLEAN
  /\ ahead \in Int /\ stats \in Int /\ returned \in BOOLEAN
  /\ life \in {"new", "live", "posted", "dead"} /\ op_count_ \in 0 .. 2

\* The kernel never reads into the buffer it is writing from.
BuffersApart ==
  \A s \in Sides : ses[s].r.st = "wait" /\ ses[s].w.st = "wait" => ses[s].r.buf # ses[s].w.buf

\* The one block of storage of each handler_allocator is enough for an operation
\* that fits into it: none is started while another of its kind is outstanding.
StorageSuffices == \A s \in Sides : \A a \in ses[s].heap : ~Fits(a)

\* The server's session lives as long as an operation may call back into it, is
\* posted for deletion when none is left, and not before it is started.
Outstanding(x) == (IF x.r.st # "no" THEN 1 ELSE 0) + (IF x.w.st # "no" THEN 1 ELSE 0)

SessionOutlivesOps ==
  /\ op_count_ = Outstanding(ses["server"])
  /\ life = "live" <=> op_count_ > 0

\* The bytes of the block go round: those being written, those on their way, those
\* read and not yet written back are the block, rotated; none is lost, doubled or
\* overtaken while the connection holds.
Leaving(x) ==
  IF x.w.st = "wait" THEN SubSeq(x.data[x.w.buf], x.off + 1, x.off + x.w.len) ELSE <<>>
Held(x) ==
  IF x.r.st = "ok" THEN SubSeq(x.data[x.r.buf], 1, x.r.len)
  ELSE IF x.count = 2 THEN SubSeq(x.data[x.read], 1, x.length)
  ELSE <<>>
Ring == Leaving(ses["server"]) \o Held(ses["server"]) \o pipe["client"]
        \o Leaving(ses["client"]) \o Held(ses["client"]) \o pipe["server"]

RingIntact ==
  Whole /\ conn = "done" =>
    \E k \in 1 .. block_size :
      Ring = SubSeq(Block, k, block_size) \o SubSeq(Block, 1, k - 1)

\* What the client has read is never more than a block ahead of or behind what it
\* has written, so the totals it prints are at most a block apart.
TotalsClose == {ahead, stats} \subseteq -block_size .. block_size

\* A timeout once the connection is made, or with no endpoint left to try, ends
\* the client's run().  (A stop that aborts a connect with endpoints left makes
\* handle_connect() open the socket again, and nothing stops it after that.)
TimeoutEndsRun ==
  stop = "posted" /\ (conn \in {"ok", "done", "failed"} \/ left = 0) ~> returned

\* A session of the server whose client is gone is deleted.
SessionFreed ==
  life = "live" /\ (sock["client"] = "closed" \/ lost) ~> life = "dead"

\* The bytes keep circulating: the client does not stop reading while both
\* sessions and the connection stand.
Circulates ==
  []<>(ses["client"].r.st = "ok" \/ ~Whole \/ stop # "no" \/ life \in {"posted", "dead"})
================================================================================
