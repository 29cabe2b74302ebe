------------------------------- MODULE ByteQueue -------------------------------
(***************************************************************************)
(* What a bytebuffer promises to its users: its readable bytes form a      *)
(* queue, bytes enter at the end, leave at the front or are taken back     *)
(* from the end, and two buffers can exchange their bytes.  A resize may   *)
(* cut into a queue; while it is cut its bytes may be lost, which leaves   *)
(* zeros.  Nothing but a resize cuts a queue.  call is the last request.   *)
(***************************************************************************)
EXTENDS Naturals, Sequences

CONSTANTS Buffers,
          Nul,        \* the byte zero
          Strings,    \* the byte strings that users put
          Counts      \* the numbers of bytes that users take

VARIABLES content,    \* content[b]: the readable bytes of b, oldest first
          cut,        \* the queues that a resize has cut
          call

vars == <<content, cut, call>>

Init == /\ content = [b \in Buffers |-> <<>>]
        /\ cut = {}
        /\ call = <<"new">>

\* What may have become of the bytes of b.
Kept(b, s) ==
  IF b \in cut THEN /\ Len(s) = Len(content[b])
                    /\ \A i \in 1 .. Len(s) : s[i] \in {content[b][i], Nul}
               ELSE s = content[b]

\* A request that changes b only and may end its being cut.
Request(b, what) ==
  /\ call' = what
  /\ content' = [content EXCEPT ![b] = content'[b]]
  /\ cut' \in {cut, cut \ {b}}

\* d is behind what was in b.
Added(b, d) ==
  LET n == Len(content[b])
  IN  /\ Len(content'[b]) = n + Len(d)
      /\ Kept(b, SubSeq(content'[b], 1, n))
      /\ SubSeq(content'[b], n + 1, n + Len(d)) = d

Put(b, d) == Request(b, <<"put", b, d>>) /\ Added(b, d)

PutAll(b, from) == Request(b, <<"putall", b, from>>) /\ Added(b, content[from])

\* Put into itself, a queue is twice as long; what is added is not promised.
PutSelf(b) ==
  LET n == Len(content[b])
  IN  /\ Request(b, <<"putself", b>>)
      /\ Len(content'[b]) = n + n
      /\ Kept(b, SubSeq(content'[b], 1, n))

\* The n oldest bytes leave.
Take(b, n) ==
  /\ n <= Len(content[b])
  /\ Request(b, <<"take", b, n>>)
  /\ content'[b] = SubSeq(content[b], n + 1, Len(content[b]))

\* The n newest bytes are taken back.
TakeBack(b, n) ==
  /\ n <= Len(content[b])
  /\ Request(b, <<"takeback", b, n>>)
  /\ content'[b] = SubSeq(content[b], 1, Len(content[b]) - n)

\* Requests about the space.
Keep(b) == Request(b, <<"keep", b>>) /\ Kept(b, content'[b])

Resize(b) ==
  /\ call' = <<"resize", b>>
  /\ content' = [content EXCEPT ![b] = content'[b]]
  /\ Kept(b, content'[b])
  /\ cut' \in {cut \cup {b}, cut \ {b}}

Exchange(a, b) ==
  /\ call' = <<"exchange", a, b>>
  /\ content' = [content EXCEPT ![a] = content[b], ![b] = content[a]]
  /\ cut' = {c \in Buffers : (IF c = b THEN a ELSE IF c = a THEN b ELSE c) \in cut}

Next ==
  \/ \E b \in Buffers, d \in Strings : Put(b, d)
  \/ \E b \in Buffers, n \in Counts : Take(b, n) \/ TakeBack(b, n)
  \/ \E b \in Buffers : PutSelf(b) \/ Keep(b) \/ Resize(b)
  \/ \E a, b \in Buffers : (a # b /\ PutAll(a, b)) \/ Exchange(a, b)

Spec == Init /\ [][Next]_vars
================================================================================
