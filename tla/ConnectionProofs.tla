----------------------------- MODULE ConnectionProofs --------------------------
(***************************************************************************)
(* Safety of a connection for messages of any length, any outcome of       *)
(* send() and any callbacks.                                               *)
(*                                                                         *)
(* The argument follows m_write_cache and the channel through start().     *)
(* Before enable_read() writes the flags nothing can be written that waits *)
(* (Early): the only events are a reset or a hang-up, after which a send() *)
(* fails.  While the update of start() is due, the flags that it will copy *)
(* ask for EPOLLOUT where something waits, until a wait overwrites them    *)
(* (UpdateSafe).  Once it has run, only enable_write() and handle_close()  *)
(* change what epoll watches (Armed).                                      *)
(*                                                                         *)
(* The order of the bytes has an invariant of its own (SInv), at the end.  *)
(***************************************************************************)
EXTENDS Connection, SequenceTheorems, TLAPS

\* The bytes of the user, a message, the tasks, the connection's record.
Byte == Callers \X (1 .. MaxAsked)
Msg == {d \in Seq(Byte) : Len(d) = MsgLen}
Status == {"kDisconnect", "kConnected", "kInDisconnect"}
TaskSet == [op : {"add", "update", "conn", "shut"}, data : {<<>>}] \cup [op : {"write"}, data : Msg]
Conn == [status : Status, evt : SUBSET Flags, progress : BOOLEAN, wcache : Seq(Byte),
         reg : BOOLEAN, interest : SUBSET Flags, shut : BOOLEAN, err : BOOLEAN,
         asked : [Callers -> 0 .. MaxAsked], wire : Seq(Byte), refused : BOOLEAN]

\* Where the loop is inside process_work(), and inside handle_close().
Serving == {"hup", "err", "in", "out", "close", "close_conn", "close_cb"}
Closing == {"close_conn", "close_cb"}

\* The ranges of the variables, in full.
Types ==
  /\ k \in Conn
  /\ net \in [inq : 0 .. MaxIn, sent : 0 .. MaxIn, fin : BOOLEAN, rst : BOOLEAN]
  /\ net.inq <= net.sent
  /\ tasks \in Seq(TaskSet) /\ ntask \in 0 .. Len(tasks)
  /\ lpc \in Serving \cup {"poll", "tasks"} /\ ret \in {"poll", "err", "out"}
  /\ apc \in {"join", "read_flags", "enable", "update", "status", "conn", "done"}
  /\ snap \subseteq Flags
  /\ inmap \in BOOLEAN /\ ref \in BOOLEAN /\ closed \in Nat /\ late \in BOOLEAN
  /\ overwrote \in BOOLEAN /\ early \in BOOLEAN

\* Until the add task has run the connection is untouched.
BeforeAdd ==
  /\ apc = "join" => tasks = <<>>
  /\ \A i \in DOMAIN tasks : tasks[i].op = "add" => i = 1
  /\ apc = "join" \/ (\E i \in DOMAIN tasks : tasks[i].op = "add") =>
       /\ ~k.reg /\ ~Pending(k) /\ inmap /\ ~ref /\ closed = 0 /\ lpc \in {"poll", "tasks"}

\* Until enable_read() has set the flags nothing is asked for and nothing waits;
\* the loop serves the channel only for a connection that can send no more.
Early ==
  apc \in {"join", "read_flags", "enable"} =>
    /\ k.evt \cap {"IN", "OUT"} = {} /\ k.interest \cap {"IN", "OUT"} = {}
    /\ ~Pending(k) /\ ~ref
    /\ \A i \in DOMAIN tasks : tasks[i].op = "add"
    /\ lpc \in Serving => net.rst \/ k.shut

\* The error of a socket is that of a reset.
ErrorIsReset == k.err => net.rst

\* A registered connection is in the map and was never closed.
Registered == k.reg => inmap /\ closed = 0

\* What waits is asked for, until handle_close().
Armed == k.reg /\ lpc \notin Closing /\ Pending(k) /\ ~overwrote => "OUT" \in k.interest

\* The update of start() cannot take EPOLLOUT away: the flags it will copy ask for
\* what waits.
UpdateSafe ==
  UpdateDue /\ k.reg /\ lpc \notin Closing /\ Pending(k) /\ ~overwrote => "OUT" \in k.evt

\* A connection is closed only after its peer has ended it.
EndsCause ==
  /\ lpc = "hup" /\ "HUP" \in k.evt /\ "IN" \notin k.evt => net.fin \/ net.rst
  /\ lpc \in {"close"} \cup Closing \/ closed > 0 => net.fin \/ net.rst

\* Where the peer has not ended the connection inside start(), it is closed once,
\* and its flags are empty from then to the end of the round.
Clean ==
  ~early =>
    /\ net.fin \/ net.rst => apc = "done"
    /\ lpc \in {"hup", "close"} \cup Closing => closed = 0
    /\ lpc \in Closing => k.evt = {} /\ ~connected(k)
    /\ closed > 0 /\ lpc \in Serving => k.evt = {}
    /\ ~late

\* The inductive invariant.
IInv == /\ Types /\ BeforeAdd /\ Early /\ ErrorIsReset /\ Registered /\ Armed
        /\ UpdateSafe /\ EndsCause /\ Clean
-------------------------------------------------------------------------------
(* The members as operators on the record.                                 *)

\* What a write, and so a callback, may do to a connection: nothing is taken from
\* the flags, what comes to wait is asked for, and where no byte can be sent any
\* more nothing comes to wait.
Wrote(c, d) ==
  /\ d \in Conn /\ d.reg = c.reg
  /\ c.shut => d.shut
  /\ d.err => c.err
  /\ Pending(d) => \/ Pending(c) /\ d.evt = c.evt /\ d.interest = c.interest
                   \/ "OUT" \in d.evt /\ (d.reg => "OUT" \in d.interest)
  /\ (c.shut \/ net.rst) /\ c.wcache = <<>> =>
       d.wcache = <<>> /\ d.progress = c.progress /\ d.evt = c.evt /\ d.interest = c.interest

\* Doing nothing is allowed.
LEMMA WroteRefl == ASSUME NEW c \in Conn PROVE Wrote(c, c)
BY DEF Wrote, Pending, Conn

\* One thing after another is allowed.
LEMMA WroteTrans ==
  ASSUME NEW c, NEW d, NEW e, Wrote(c, d), Wrote(d, e) PROVE Wrote(c, e)
BY DEF Wrote, Pending

\* enable_write(true): the flags gain EPOLLOUT unless that is in progress.
LEMMA EnableWriteOn ==
  ASSUME NEW c \in Conn
  PROVE  LET d == enable_write(c, TRUE)
         IN  /\ d \in Conn
             /\ d.wcache = c.wcache /\ d.reg = c.reg /\ d.shut = c.shut /\ d.err = c.err
             /\ c.progress => d = c
             /\ ~c.progress => /\ d.progress /\ d.evt = c.evt \cup {"OUT"}
                               /\ d.interest = IF c.reg THEN d.evt ELSE c.interest
<1>1. CASE c.progress
  BY <1>1 DEF enable_write
<1>2. CASE ~c.progress
  <2> DEFINE a == [c EXCEPT !.evt = @ \cup {"OUT"}]
             b == update_evt_code(a)
             d == [b EXCEPT !.progress = TRUE]
  <2>1. a \in Conn
    BY DEF Conn, Flags
  <2>2. b \in Conn
    BY <2>1 DEF Conn, update_evt_code
  <2>3. d \in Conn
    BY <2>2 DEF Conn
  <2>4. enable_write(c, TRUE) = d
    BY <1>2 DEF enable_write
  <2>5. /\ a.wcache = c.wcache /\ a.reg = c.reg /\ a.shut = c.shut /\ a.err = c.err
        /\ a.evt = c.evt \cup {"OUT"} /\ a.interest = c.interest
    BY DEF Conn
  <2>6. /\ b.wcache = a.wcache /\ b.reg = a.reg /\ b.shut = a.shut /\ b.err = a.err
        /\ b.evt = a.evt /\ b.interest = IF a.reg THEN a.evt ELSE a.interest
    BY <2>1 DEF Conn, update_evt_code
  <2>7. /\ d.wcache = b.wcache /\ d.reg = b.reg /\ d.shut = b.shut /\ d.err = b.err
        /\ d.evt = b.evt /\ d.interest = b.interest /\ d.progress
    BY <2>2 DEF Conn
  <2> HIDE DEF a, b, d
  <2> QED BY <1>2, <2>3, <2>4, <2>5, <2>6, <2>7
<1> QED BY <1>1, <1>2

\* Bytes are appended to m_write_cache, and EPOLLOUT is asked for.
LEMMA KeepsAndAsks ==
  ASSUME NEW c \in Conn, NEW w \in Seq(Byte),
         NEW a \in Conn, a.wcache = c.wcache \o w,
         a.reg = c.reg, a.shut = c.shut, a.err = c.err, a.evt = c.evt, a.interest = c.interest,
         a.progress = c.progress,
         c.wcache # <<>> \/ ~(c.shut \/ net.rst)
  PROVE  Wrote(c, enable_write(a, TRUE))
<1> DEFINE d == enable_write(a, TRUE)
<1>1. /\ d \in Conn /\ d.reg = c.reg /\ d.shut = c.shut /\ d.err = c.err
      /\ a.progress => d = a
      /\ ~a.progress => /\ d.evt = a.evt \cup {"OUT"}
                        /\ d.interest = IF a.reg THEN d.evt ELSE a.interest
  BY EnableWriteOn
<1> HIDE DEF d
<1>2. \/ "OUT" \in d.evt /\ (d.reg => "OUT" \in d.interest)
      \/ c.progress /\ d.evt = c.evt /\ d.interest = c.interest
  BY <1>1
<1>3. Wrote(c, d)
  BY <1>1, <1>2 DEF Wrote, Pending
<1> QED BY <1>3 DEF d

\* write_in_loop(), for every result of send().
LEMMA WriteInLoop ==
  ASSUME NEW c \in Conn, NEW data \in Msg, NEW r \in SendResults(c, MsgLen)
  PROVE  Wrote(c, write_in_loop(c, data, r))
<1>0. data \in Seq(Byte) /\ Len(data) = MsgLen /\ MsgLen \in Nat
  BY ConnectionAssumption DEF Msg
<1>1. /\ r \in Int
      /\ r = ERROR <=> c.shut \/ net.rst
      /\ r # ERROR /\ r # EAGAIN => r \in 0 .. MsgLen
  BY <1>0 DEF SendResults, ERROR, EAGAIN
<1>2. CASE c.wcache # <<>> \/ r = EAGAIN
  <2> DEFINE a == [c EXCEPT !.wcache = @ \o data, !.refused = TRUE]
  <2>1. c.wcache \o data \in Seq(Byte)
    BY <1>0, ConcatProperties DEF Conn
  <2>2. a \in Conn /\ a.wcache = c.wcache \o data
    BY <2>1 DEF Conn
  <2>3. /\ a.reg = c.reg /\ a.shut = c.shut /\ a.err = c.err /\ a.evt = c.evt
        /\ a.interest = c.interest /\ a.progress = c.progress
    BY DEF Conn
  <2>4. write_in_loop(c, data, r) = enable_write(a, TRUE)
    BY <1>2 DEF write_in_loop
  <2>5. c.wcache # <<>> \/ ~(c.shut \/ net.rst)
    BY <1>1, <1>2 DEF EAGAIN, ERROR
  <2> HIDE DEF a
  <2> QED BY <1>0, <2>2, <2>3, <2>4, <2>5, KeepsAndAsks
<1>3. CASE c.wcache = <<>> /\ r = ERROR
  <2>1. write_in_loop(c, data, r) = [c EXCEPT !.err = FALSE]
    BY <1>3 DEF write_in_loop, ERROR, EAGAIN
  <2> QED BY <2>1 DEF Conn, Wrote, Pending
<1>4. CASE c.wcache = <<>> /\ r # ERROR /\ r # EAGAIN
  <2> DEFINE s == [c EXCEPT !.wire = @ \o Take(data, r)]
             w == Take(data, Len(data) - r)
             a == [s EXCEPT !.wcache = @ \o w]
  <2>0. \A i \in 1 .. Len(data) : data[i] \in Byte
    BY <1>0, ElementOfSeq
  <2>1. Take(data, r) \in Seq(Byte) /\ w \in Seq(Byte)
    <3>1. \A n \in 0 .. MsgLen : SubSeq(data, 1, n) \in Seq(Byte)
      BY <1>0, <2>0, SubSeqProperties
    <3> QED BY <1>0, <1>1, <1>4, <3>1 DEF Take
  <2>2. c.wire \o Take(data, r) \in Seq(Byte) /\ c.wcache \o w \in Seq(Byte)
    BY <2>1, ConcatProperties DEF Conn
  <2>3. s \in Conn
    BY <2>2 DEF Conn
  <2>4. /\ s.reg = c.reg /\ s.shut = c.shut /\ s.err = c.err /\ s.evt = c.evt
        /\ s.interest = c.interest /\ s.progress = c.progress /\ s.wcache = c.wcache
    BY DEF Conn
  <2>5. a \in Conn /\ a.wcache = c.wcache \o w
    BY <2>2, <2>3, <2>4 DEF Conn
  <2>6. /\ a.reg = c.reg /\ a.shut = c.shut /\ a.err = c.err /\ a.evt = c.evt
        /\ a.interest = c.interest /\ a.progress = c.progress
    BY <2>3, <2>4 DEF Conn
  <2>7. write_in_loop(c, data, r) = IF r < Len(data) THEN enable_write(a, TRUE) ELSE s
    BY <1>4 DEF write_in_loop
  <2>8. ~(c.shut \/ net.rst)
    BY <1>1, <1>4
  <2>9. Wrote(c, s)
    BY <2>3, <2>4 DEF Wrote, Pending
  <2> HIDE DEF a, s, w
  <2> QED BY <2>1, <2>5, <2>6, <2>7, <2>8, <2>9, KeepsAndAsks
<1> QED BY <1>2, <1>3, <1>4

\* What a thread writes next is a message.
LEMMA NextDataMsg ==
  ASSUME NEW c \in Conn, NEW t \in Callers, CanAsk(c, t)
  PROVE  /\ NextData(c, t) \in Msg
         /\ Asked(c, t) \in Conn
         /\ Wrote(c, Asked(c, t))
         /\ Asked(c, t).shut = c.shut /\ Asked(c, t).evt = c.evt
         /\ Asked(c, t).status = c.status
<1>0. MsgLen \in Nat /\ MaxAsked \in Nat /\ c.asked[t] \in 0 .. MaxAsked
      /\ c.asked[t] + MsgLen <= MaxAsked
  BY ConnectionAssumption DEF Conn, CanAsk
<1>1. \A i \in 1 .. MsgLen : <<t, c.asked[t] + i>> \in Byte
  BY <1>0 DEF Byte
<1>2. NextData(c, t) \in Msg
  BY <1>0, <1>1 DEF NextData, Msg
<1>3. Asked(c, t) = [c EXCEPT !.asked = [c.asked EXCEPT ![t] = @ + MsgLen]]
  BY DEF Asked
<1>4. [c.asked EXCEPT ![t] = @ + MsgLen] \in [Callers -> 0 .. MaxAsked]
  BY <1>0 DEF Conn
<1>5. Asked(c, t) \in Conn
  BY <1>3, <1>4 DEF Conn
<1>6. LET d == Asked(c, t)
      IN  /\ d.reg = c.reg /\ d.shut = c.shut /\ d.err = c.err /\ d.evt = c.evt
          /\ d.interest = c.interest /\ d.progress = c.progress /\ d.wcache = c.wcache
          /\ d.status = c.status
  BY <1>3 DEF Conn
<1> QED BY <1>2, <1>5, <1>6 DEF Wrote, Pending

\* write() by the loop thread.
LEMMA WrittenWrote ==
  ASSUME NEW c \in Conn, NEW d \in Written(c) PROVE Wrote(c, d)
<1>1. CanAsk(c, "loop")
  BY DEF Written
<1>2. PICK r \in SendResults(c, MsgLen) :
        d = write_in_loop(Asked(c, "loop"), NextData(c, "loop"), r)
  BY <1>1 DEF Written
<1>3. /\ NextData(c, "loop") \in Msg /\ Asked(c, "loop") \in Conn
      /\ Wrote(c, Asked(c, "loop")) /\ Asked(c, "loop").shut = c.shut
  BY <1>1, NextDataMsg DEF Callers
<1>4. r \in SendResults(Asked(c, "loop"), MsgLen)
  BY <1>3 DEF SendResults
<1>5. Wrote(Asked(c, "loop"), d)
  BY <1>2, <1>3, <1>4, WriteInLoop
<1> QED BY <1>3, <1>5, WroteTrans

\* shutdown() by the loop thread.
LEMMA ShutWrote == ASSUME NEW c \in Conn PROVE Wrote(c, ShutDown(c))
BY DEF Wrote, Pending, ShutDown, Conn, Status

\* A callback, whatever it does.
LEMMA CallbackWrote ==
  ASSUME NEW c \in Conn, NEW d \in AfterCallback(c) PROVE Wrote(c, d)
<1> DEFINE once == IF "write" \in UserActs THEN Written(c) ELSE {}
           all == {c} \cup once \cup UNION {Written(e) : e \in once}
<1>1. \A e \in once : e \in Conn /\ Wrote(c, e)
  BY WrittenWrote DEF Wrote
<1>2. \A e \in all : e \in Conn /\ Wrote(c, e)
  <2> SUFFICES ASSUME NEW e \in all PROVE Wrote(c, e)
    BY DEF Wrote
  <2>1. CASE e = c
    BY <2>1, WroteRefl
  <2>2. CASE e \in once
    BY <2>2, <1>1
  <2>3. CASE e \in UNION {Written(f) : f \in once}
    <3>1. PICK f \in once : e \in Written(f)
      BY <2>3
    <3>2. f \in Conn /\ Wrote(c, f)
      BY <1>1, <3>1
    <3>3. Wrote(f, e)
      BY <3>1, <3>2, WrittenWrote
    <3> QED BY <3>2, <3>3, WroteTrans
  <2> QED BY <2>1, <2>2, <2>3
<1>3. AfterCallback(c) = all \cup (IF "shutdown" \in UserActs THEN {ShutDown(e) : e \in all} ELSE {})
  BY DEF AfterCallback
<1>4. CASE d \in all
  BY <1>2, <1>4
<1>5. CASE d \notin all
  <2> HIDE DEF all
  <2>1. PICK e \in all : d = ShutDown(e)
    BY <1>3, <1>5
  <2> QED BY <1>2, <2>1, ShutWrote, WroteTrans
<1> QED BY <1>4, <1>5

\* conn_cb leaves a closed connection alone.
LEMMA ConnCallbackWrote ==
  ASSUME NEW c \in Conn, NEW d \in AfterConnCallback(c)
  PROVE  Wrote(c, d) /\ (~connected(c) => d = c)
BY CallbackWrote, WroteRefl DEF AfterConnCallback

\* handle_write(), for a channel whose flags hold EPOLLOUT.
LEMMA HandleWriteMember ==
  ASSUME NEW c \in Conn, "OUT" \in c.evt, ~c.progress, NEW r \in SendResults(c, Len(c.wcache))
  PROVE  LET d == handle_write(c, r)
         IN  /\ d \in Conn /\ d.reg = c.reg /\ d.shut = c.shut
             /\ d.err => c.err
             /\ "OUT" \in d.evt
             /\ Pending(d) /\ d.reg => \/ "OUT" \in d.interest
                                       \/ c.wcache # <<>> /\ d.interest = c.interest
<1>0. c.wcache \in Seq(Byte) /\ Len(c.wcache) \in Nat
  BY LenProperties DEF Conn
<1>1. /\ r \in Int
      /\ r # ERROR /\ r # EAGAIN => r \in 0 .. Len(c.wcache)
  BY <1>0 DEF SendResults, ERROR, EAGAIN
<1>2. CASE r = EAGAIN
  <2> DEFINE a == [c EXCEPT !.refused = TRUE]
  <2>1. /\ a \in Conn /\ a.reg = c.reg /\ a.shut = c.shut /\ a.err = c.err /\ a.evt = c.evt
        /\ a.progress = c.progress
    BY DEF Conn
  <2>2. handle_write(c, r) = enable_write(a, TRUE)
    BY <1>2 DEF handle_write
  <2> HIDE DEF a
  <2> DEFINE d == enable_write(a, TRUE)
  <2>3. /\ d \in Conn /\ d.reg = a.reg /\ d.shut = a.shut /\ d.err = a.err
        /\ d.evt = a.evt \cup {"OUT"} /\ d.interest = IF a.reg THEN d.evt ELSE a.interest
    BY <2>1, EnableWriteOn
  <2> HIDE DEF d
  <2>4. "OUT" \in d.evt /\ (d.reg => "OUT" \in d.interest)
    BY <2>1, <2>3
  <2>5. handle_write(c, r) = d
    BY <2>2 DEF d
  <2> QED BY <2>1, <2>3, <2>4, <2>5
<1>3. CASE r = ERROR
  <2>1. handle_write(c, r) = [c EXCEPT !.err = FALSE]
    BY <1>3 DEF handle_write, ERROR, EAGAIN
  <2> QED BY <2>1 DEF Conn, Pending
<1>4. CASE r # ERROR /\ r # EAGAIN
  <2> DEFINE s == [c EXCEPT !.wire = @ \o Take(c.wcache, r), !.wcache = Drop(@, r)]
             a == IF s.wcache # <<>> THEN enable_write(s, TRUE) ELSE s
             d == [a EXCEPT !.wcache = Drop(@, r)]
  <2>0. \A w \in Seq(Byte) : Drop(w, r) \in Seq(Byte)
    <3> SUFFICES ASSUME NEW w \in Seq(Byte) PROVE SubSeq(w, r + 1, Len(w)) \in Seq(Byte)
      BY DEF Drop
    <3>1. Len(w) \in Nat /\ \A i \in r + 1 .. Len(w) : w[i] \in Byte
      BY <1>1, <1>4, ElementOfSeq, LenProperties
    <3> QED BY <1>1, <3>1, SubSeqProperties
  <2>1. Take(c.wcache, r) \in Seq(Byte)
    <3>1. \A i \in 1 .. r : c.wcache[i] \in Byte
      BY <1>0, <1>1, <1>4, ElementOfSeq
    <3> QED BY <1>1, <3>1, SubSeqProperties DEF Take
  <2>2. c.wire \o Take(c.wcache, r) \in Seq(Byte) /\ Drop(c.wcache, r) \in Seq(Byte)
    BY <1>0, <2>0, <2>1, ConcatProperties DEF Conn
  <2>3. s \in Conn /\ s.wcache = Drop(c.wcache, r)
    BY <2>2 DEF Conn
  <2>4. /\ s.reg = c.reg /\ s.shut = c.shut /\ s.err = c.err /\ s.evt = c.evt
        /\ s.interest = c.interest /\ s.progress = c.progress
    BY DEF Conn
  <2> HIDE DEF s
  <2>5. /\ a \in Conn /\ a.reg = c.reg /\ a.shut = c.shut /\ a.err = c.err /\ "OUT" \in a.evt
        /\ a.wcache # <<>> \/ a.progress => (a.reg => "OUT" \in a.interest)
    <3> DEFINE e == enable_write(s, TRUE)
    <3>1. /\ e \in Conn /\ e.reg = s.reg /\ e.shut = s.shut /\ e.err = s.err
          /\ e.evt = s.evt \cup {"OUT"} /\ e.interest = IF s.reg THEN e.evt ELSE s.interest
      BY <2>3, <2>4, EnableWriteOn
    <3>2. a = IF s.wcache # <<>> THEN e ELSE s
      OBVIOUS
    <3> HIDE DEF e, a
    <3> QED BY <2>3, <2>4, <3>1, <3>2
  <2> HIDE DEF a
  <2>6. Drop(a.wcache, r) \in Seq(Byte)
    BY <2>0, <2>5 DEF Conn
  <2>7. d \in Conn /\ d.wcache = Drop(a.wcache, r)
    BY <2>5, <2>6 DEF Conn
  <2>8. /\ d.reg = a.reg /\ d.shut = a.shut /\ d.err = a.err /\ d.evt = a.evt
        /\ d.interest = a.interest /\ d.progress = a.progress
    BY <2>5 DEF Conn
  <2>9. handle_write(c, r) = d
    BY <1>4 DEF handle_write, a, s
  <2>10. d.wcache # <<>> => a.wcache # <<>>
    <3> SUFFICES ASSUME a.wcache = <<>> PROVE SubSeq(a.wcache, r + 1, Len(a.wcache)) = <<>>
      BY <2>7 DEF Drop
    <3> QED BY <1>1, <1>4, SubSeqEmpty
  <2> HIDE DEF d
  <2> QED BY <2>5, <2>7, <2>8, <2>9, <2>10 DEF Pending
<1> QED BY <1>2, <1>3, <1>4

\* handle_close() leaves no flag.
LEMMA HandleCloseMember ==
  ASSUME NEW c \in Conn
  PROVE  LET d == handle_close(c)
         IN  /\ d \in Conn /\ d.reg = c.reg /\ d.shut = c.shut /\ d.err = c.err
             /\ d.status = "kDisconnect" /\ d.evt = {} /\ ~d.progress /\ d.wcache = c.wcache
             /\ d.interest = IF c.reg THEN {} ELSE c.interest
<1> DEFINE s == [c EXCEPT !.status = "kDisconnect"]
           e == [s EXCEPT !.evt = @ \cap ReadFlags]
           a == update_evt_code(e)
           f == [a EXCEPT !.evt = @ \cap {"OUT"}]
           b == update_evt_code(f)
           d == [b EXCEPT !.progress = FALSE]
<1>1. /\ s \in Conn /\ s.reg = c.reg /\ s.shut = c.shut /\ s.err = c.err /\ s.evt = c.evt
      /\ s.interest = c.interest /\ s.wcache = c.wcache /\ s.status = "kDisconnect"
  BY DEF Conn, Status
<1> HIDE DEF s
<1>2. /\ e \in Conn /\ e.reg = c.reg /\ e.shut = c.shut /\ e.err = c.err
      /\ e.evt = c.evt \cap ReadFlags
      /\ e.interest = c.interest /\ e.wcache = c.wcache /\ e.status = "kDisconnect"
  BY <1>1 DEF Conn
<1> HIDE DEF e
<1>3. /\ a \in Conn /\ a.reg = c.reg /\ a.shut = c.shut /\ a.err = c.err /\ a.evt = e.evt
      /\ a.interest = (IF c.reg THEN e.evt ELSE c.interest)
      /\ a.wcache = c.wcache /\ a.status = "kDisconnect"
  BY <1>2 DEF Conn, update_evt_code
<1> HIDE DEF a
<1>4. /\ f \in Conn /\ f.reg = c.reg /\ f.shut = c.shut /\ f.err = c.err
      /\ f.evt = a.evt \cap {"OUT"} /\ f.interest = a.interest
      /\ f.wcache = c.wcache /\ f.status = "kDisconnect"
  BY <1>3 DEF Conn
<1> HIDE DEF f
<1>5. f.evt = {}
  BY <1>2, <1>3, <1>4 DEF ReadFlags
<1>6. /\ b \in Conn /\ b.reg = c.reg /\ b.shut = c.shut /\ b.err = c.err /\ b.evt = {}
      /\ b.interest = (IF c.reg THEN {} ELSE c.interest)
      /\ b.wcache = c.wcache /\ b.status = "kDisconnect"
  BY <1>3, <1>4, <1>5 DEF Conn, update_evt_code
<1> HIDE DEF b
<1>7. /\ d \in Conn /\ d.reg = c.reg /\ d.shut = c.shut /\ d.err = c.err /\ d.evt = {}
      /\ d.interest = (IF c.reg THEN {} ELSE c.interest) /\ ~d.progress
      /\ d.wcache = c.wcache /\ d.status = "kDisconnect"
  BY <1>6 DEF Conn
<1>8. handle_close(c) = d
  BY DEF handle_close, enable_read, enable_write, s, e, a, f, b
<1> QED BY <1>7, <1>8
-------------------------------------------------------------------------------
(* Steps of the loop inside process_work().                                *)

\* The part of the invariant about start(), the backlog and the poller.
Safe == BeforeAdd /\ Early /\ ErrorIsReset /\ Registered /\ Armed /\ UpdateSafe

\* A handler that changes the connection only as callbacks may.
LEMMA ServeKeeps ==
  ASSUME Types, Safe, Wrote(k, k'), lpc \in Serving, lpc' \in Serving \cup {"tasks"},
         lpc' = "tasks" => ntask' = Len(tasks), lpc \in Closing => lpc' \in Closing,
         UNCHANGED <<tasks, apc, inmap, ref, closed, overwrote, early>>, net'.rst = net.rst
  PROVE  Safe'
<1>1. BeforeAdd'
  BY DEF Safe, BeforeAdd, Serving
<1>2. Early'
  <2> SUFFICES ASSUME apc \in {"join", "read_flags", "enable"} PROVE Early'
    BY DEF Early
  <2>1. ~Pending(k) /\ (net.rst \/ k.shut)
    BY DEF Safe, Early
  <2>2. /\ k'.wcache = <<>> /\ k'.progress = k.progress /\ k'.evt = k.evt
        /\ k'.interest = k.interest /\ (k.shut => k'.shut)
    BY <2>1 DEF Wrote, Pending
  <2> QED BY <2>1, <2>2 DEF Safe, Early, Pending
<1>3. ErrorIsReset' /\ Registered'
  BY DEF Safe, ErrorIsReset, Registered, Wrote
<1>4. Armed'
  BY DEF Safe, Armed, Wrote
<1>5. UpdateSafe'
  BY DEF Safe, UpdateSafe, UpdateDue, Wrote
<1> QED BY <1>1, <1>2, <1>3, <1>4, <1>5 DEF Safe

\* An error that is read off the socket.
LEMMA ErrCleared ==
  ASSUME NEW c \in Conn
  PROVE  [c EXCEPT !.err = FALSE] \in Conn /\ Wrote(c, [c EXCEPT !.err = FALSE])
BY DEF Conn, Wrote, Pending

\* The hang-up test, and the steps between the handlers.
LEMMA TestsSafe ==
  ASSUME IInv, CheckHup \/ NotReadable \/ NotWritable PROVE IInv'
<1>0. Types /\ Safe /\ EndsCause /\ Clean
  BY DEF IInv, Safe
<1>1. /\ k' = k /\ lpc \in {"hup", "in", "out"} /\ lpc' \in {"close", "err", "out", "tasks"}
      /\ UNCHANGED <<net, tasks, apc, snap, inmap, ref, closed, overwrote, early>>
      /\ lpc' = "tasks" => ntask' = Len(tasks)
      /\ ntask' = ntask \/ ntask' = Len(tasks)
      /\ ret' \in {ret, "err"} /\ late' \in {late, late \/ closed > 0}
  BY DEF CheckHup, NotReadable, NotWritable, LoopKeeps
<1>2. Types'
  <2>1. Len(tasks) \in Nat
    BY <1>0, LenProperties DEF Types
  <2>2. late' \in BOOLEAN
    BY <1>0, <1>1 DEF Types
  <2>3. lpc' \in Serving \cup {"poll", "tasks"} /\ ret' \in {"poll", "err", "out"}
    BY <1>0, <1>1 DEF Types, Serving
  <2>4. ntask' \in 0 .. Len(tasks')
    BY <1>0, <1>1, <2>1 DEF Types
  <2> QED BY <1>0, <1>1, <2>2, <2>3, <2>4 DEF Types
<1>3. Safe'
  BY <1>0, <1>1, ServeKeeps, WroteRefl DEF Types, Serving, Closing
<1>4. EndsCause'
  BY <1>0, <1>1 DEF EndsCause, CheckHup, NotReadable, NotWritable, Closing
<1>5. Clean'
  <2>1. ~early => late' = late
    BY <1>0 DEF Clean, Types, Closing, CheckHup, NotReadable, NotWritable
  <2>2. ~early /\ lpc' = "close" => closed = 0
    BY <1>0, <1>1 DEF Clean, Closing, CheckHup, NotReadable, NotWritable
  <2> QED BY <1>0, <1>1, <2>1, <2>2 DEF Clean, Closing, Serving, connected
<1> QED BY <1>2, <1>3, <1>4, <1>5 DEF IInv, Safe

\* A handler that ran in this round finds flags, so that the connection was not
\* closed before it.
LEMMA CalledOpen ==
  ASSUME Types, Clean, ~early, lpc \in Serving, k.evt # {} PROVE closed = 0
BY DEF Clean, Types

\* handle_error() and handle_read(), with the callback each ends in.
LEMMA HandlersSafe ==
  ASSUME IInv, CheckErr \/ HandleRead \/ HandleReadError \/ HandleReadEof PROVE IInv'
<1>0. Types /\ Safe /\ EndsCause /\ Clean
  BY DEF IInv, Safe
<1>a. k \in Conn
  BY <1>0 DEF Types
<1>1. Wrote(k, k')
  <2>1. CASE CheckErr \/ HandleReadError
    <3>1. k' = k \/ k' \in AfterCallback([k EXCEPT !.err = FALSE])
      BY <2>1 DEF CheckErr, HandleReadError
    <3>2. CASE k' = k
      BY <1>a, <3>2, WroteRefl
    <3>3. CASE k' \in AfterCallback([k EXCEPT !.err = FALSE])
      <4> DEFINE c == [k EXCEPT !.err = FALSE]
      <4>1. c \in Conn /\ Wrote(k, c)
        BY <1>a, ErrCleared
      <4>2. k' \in AfterCallback(c)
        BY <3>3
      <4> HIDE DEF c
      <4>3. Wrote(c, k')
        BY <4>1, <4>2, CallbackWrote
      <4> QED BY <4>1, <4>3, WroteTrans
    <3> QED BY <3>1, <3>2, <3>3
  <2>2. CASE HandleRead \/ HandleReadEof
    BY <1>a, <2>2, CallbackWrote, ConnCallbackWrote DEF HandleRead, HandleReadEof
  <2> QED BY <2>1, <2>2
<1>2. /\ lpc \in {"err", "in"} /\ lpc' \in {"in", "out", "close"}
      /\ UNCHANGED <<tasks, ntask, apc, snap, inmap, ref, closed, overwrote, early>>
      /\ ret' \in {ret, "out"} /\ late' \in {late, late \/ closed > 0}
      /\ lpc' = "close" => ret' = "out" /\ (net.fin \/ net.rst)
      /\ \/ k' = k /\ late' = late /\ lpc' = "in"
         \/ k.evt # {}
  BY DEF CheckErr, HandleRead, HandleReadError, HandleReadEof, LoopKeeps, EndOfStream
<1>3. /\ net' \in [inq : 0 .. MaxIn, sent : 0 .. MaxIn, fin : BOOLEAN, rst : BOOLEAN]
      /\ net'.inq <= net'.sent /\ net'.fin = net.fin /\ net'.rst = net.rst
  <2>1. net' = net \/ \E n \in 1 .. net.inq : net' = [net EXCEPT !.inq = @ - n]
    BY DEF CheckErr, HandleRead, HandleReadError, HandleReadEof
  <2>2. MaxIn \in Nat
    BY ConnectionAssumption
  <2> QED BY <1>0, <2>1, <2>2 DEF Types
<1>4. Types'
  <2>1. k' \in Conn
    BY <1>1 DEF Wrote
  <2>2. late' \in BOOLEAN
    BY <1>0, <1>2 DEF Types
  <2>3. UNCHANGED <<tasks, ntask, apc, snap, inmap, ref, closed, overwrote, early>>
    BY <1>2
  <2>4. lpc' \in {"in", "out", "close"} /\ ret' \in {ret, "out"}
    BY <1>2
  <2> QED BY <1>0, <1>3, <2>1, <2>2, <2>3, <2>4 DEF Types, Serving
<1>5. Safe'
  BY <1>0, <1>1, <1>2, <1>3, ServeKeeps DEF Serving, Closing
<1>6. EndsCause'
  BY <1>0, <1>2, <1>3 DEF EndsCause, Closing
<1>7. Clean'
  <2>1. ~early /\ k.evt # {} => closed = 0
    BY <1>0, <1>2, CalledOpen DEF Serving
  <2>2. ~early => late' = late
    BY <1>0, <1>2, <2>1 DEF Types
  <2>3. ~early /\ closed > 0 => k'.evt = {}
    BY <1>0, <1>2, <2>1 DEF Types, Clean, Serving
  <2>4. ~early /\ lpc' = "close" => closed = 0
    BY <1>2, <2>1
  <2> QED BY <1>0, <1>2, <1>3, <2>2, <2>3, <2>4 DEF Clean, Closing
<1> QED BY <1>4, <1>5, <1>6, <1>7 DEF IInv, Safe

\* handle_close() up to its callbacks.
LEMMA CloseSafe == ASSUME IInv, Close PROVE IInv'
<1>0. Types /\ Safe /\ EndsCause /\ Clean
  BY DEF IInv, Safe
<1>1. /\ k' = handle_close(k) /\ lpc = "close" /\ lpc' = "close_conn"
      /\ UNCHANGED <<net, tasks, ntask, ret, apc, snap, inmap, ref, closed, late, overwrote, early>>
  BY DEF Close, LoopKeeps
<1>2. /\ k' \in Conn /\ k'.reg = k.reg /\ k'.shut = k.shut /\ k'.err = k.err
      /\ k'.status = "kDisconnect" /\ k'.evt = {} /\ ~k'.progress /\ k'.wcache = k.wcache
      /\ k'.interest = IF k.reg THEN {} ELSE k.interest
  BY <1>0, <1>1, HandleCloseMember DEF Types
<1>3. Types'
  BY <1>0, <1>1, <1>2 DEF Types, Serving
<1>4. BeforeAdd' /\ ErrorIsReset' /\ Registered' /\ Armed'
  BY <1>0, <1>1, <1>2 DEF Safe, BeforeAdd, ErrorIsReset, Registered, Armed, Closing
<1>5. Early'
  BY <1>0, <1>1, <1>2 DEF Safe, Early, Pending, Serving
<1>6. UpdateSafe'
  BY <1>1 DEF UpdateSafe, Closing
<1>7. EndsCause'
  BY <1>0, <1>1 DEF EndsCause
<1>8. Clean'
  BY <1>0, <1>1, <1>2 DEF Clean, Closing, connected
<1> QED BY <1>3, <1>4, <1>5, <1>6, <1>7, <1>8 DEF IInv

\* The conn callback of handle_close().
LEMMA CloseConnSafe == ASSUME IInv, CloseConnCallback PROVE IInv'
<1>0. Types /\ Safe /\ EndsCause /\ Clean
  BY DEF IInv, Safe
<1>1. /\ k' \in AfterConnCallback(k) /\ lpc = "close_conn" /\ lpc' = "close_cb"
      /\ UNCHANGED <<net, tasks, ntask, ret, apc, snap, inmap, ref, closed, late, overwrote, early>>
  BY DEF CloseConnCallback, LoopKeeps
<1>2. Wrote(k, k') /\ (~connected(k) => k' = k)
  BY <1>0, <1>1, ConnCallbackWrote DEF Types
<1>3. Types'
  <2>1. k' \in Conn
    BY <1>2 DEF Wrote
  <2> QED BY <1>0, <1>1, <2>1 DEF Types, Serving
<1>4. Safe'
  BY <1>0, <1>1, <1>2, ServeKeeps DEF Serving, Closing
<1>5. EndsCause'
  BY <1>0, <1>1 DEF EndsCause, Closing
<1>6. Clean'
  <2>1. ~early => k' = k
    BY <1>0, <1>1, <1>2 DEF Clean, Closing
  <2> QED BY <1>0, <1>1, <2>1 DEF Clean, Closing, Serving, connected
<1> QED BY <1>3, <1>4, <1>5, <1>6 DEF IInv, Safe

\* on_remove_conn() and final_destory().
LEMMA RemoveSafe == ASSUME IInv, RemoveConn PROVE IInv'
<1>0. Types /\ Safe /\ EndsCause /\ Clean
  BY DEF IInv, Safe
<1>1. /\ k' = [k EXCEPT !.reg = FALSE, !.interest = {}] /\ lpc = "close_cb" /\ lpc' = ret
      /\ inmap' = FALSE /\ closed' = closed + 1
      /\ UNCHANGED <<net, tasks, ntask, ret, apc, snap, ref, late, overwrote, early>>
  BY DEF RemoveConn, LoopKeeps
<1>2. /\ k' \in Conn /\ ~k'.reg /\ k'.interest = {} /\ k'.shut = k.shut /\ k'.err = k.err
      /\ k'.status = k.status /\ k'.evt = k.evt /\ k'.progress = k.progress
      /\ k'.wcache = k.wcache
  BY <1>0, <1>1 DEF Types, Conn
<1>3. Types'
  <2>1. lpc' \in Serving \cup {"poll", "tasks"} /\ closed' \in Nat
    BY <1>0, <1>1 DEF Types, Serving
  <2>2. inmap' \in BOOLEAN
    BY <1>1, Zenon
  <2> QED BY <1>0, <1>1, <1>2, <2>1, <2>2 DEF Types
<1>4. BeforeAdd'
  BY <1>0, <1>1 DEF Safe, BeforeAdd
<1>5. ErrorIsReset' /\ Registered' /\ Armed'
  BY <1>0, <1>1, <1>2 DEF Safe, ErrorIsReset, Registered, Armed
<1>6. Early'
  BY <1>0, <1>1, <1>2 DEF Safe, Early, Pending, Serving
<1>7. UpdateSafe'
  BY <1>2 DEF UpdateSafe
<1>8. EndsCause'
  BY <1>0, <1>1 DEF EndsCause, Closing, Types
<1>9. Clean'
  BY <1>0, <1>1, <1>2 DEF Clean, Closing, Serving, Types
<1> QED BY <1>3, <1>4, <1>5, <1>6, <1>7, <1>8, <1>9 DEF IInv

\* handle_write() and its callback.
LEMMA HandleWriteSafe == ASSUME IInv, NEW r \in Int, HandleWrite(r) PROVE IInv'
<1>0. Types /\ Safe /\ EndsCause /\ Clean
  BY DEF IInv, Safe
<1> DEFINE c == [k EXCEPT !.progress = FALSE]
           d == handle_write(c, r)
<1>1. /\ lpc = "out" /\ lpc' = "tasks" /\ ntask' = Len(tasks) /\ "OUT" \in k.evt
      /\ UNCHANGED <<net, tasks, ret, apc, snap, inmap, ref, closed, overwrote, early>>
      /\ r \in SendResults(k, Len(k.wcache)) /\ late' = (late \/ closed > 0)
      /\ k' \in AfterCallback(d) \/ k' = d
  BY DEF HandleWrite, LoopKeeps
<1>2. /\ c \in Conn /\ ~c.progress /\ c.evt = k.evt /\ c.wcache = k.wcache /\ c.reg = k.reg
      /\ c.shut = k.shut /\ c.err = k.err /\ c.interest = k.interest
  BY <1>0 DEF Types, Conn
<1> HIDE DEF c
<1>3. r \in SendResults(c, Len(c.wcache))
  BY <1>1, <1>2 DEF SendResults
<1>4. /\ d \in Conn /\ d.reg = k.reg /\ d.shut = k.shut /\ (d.err => k.err)
      /\ "OUT" \in d.evt
      /\ Pending(d) /\ d.reg => \/ "OUT" \in d.interest
                                \/ k.wcache # <<>> /\ d.interest = k.interest
  BY <1>1, <1>2, <1>3, HandleWriteMember
<1> HIDE DEF d
<1>5. Wrote(d, k')
  BY <1>1, <1>4, CallbackWrote, WroteRefl
<1>6. /\ k' \in Conn /\ k'.reg = k.reg /\ (k'.err => k.err)
      /\ Pending(k') => "OUT" \in k'.evt
      /\ Pending(k') /\ k'.reg => \/ "OUT" \in k'.interest
                                  \/ k.wcache # <<>> /\ k'.interest = k.interest
  BY <1>4, <1>5 DEF Wrote
<1>7. apc \notin {"join", "read_flags", "enable"}
  BY <1>0, <1>1 DEF Safe, Early
<1>8. Types'
  <2>1. Len(tasks) \in Nat
    BY <1>0, LenProperties DEF Types
  <2> QED BY <1>0, <1>1, <1>6, <2>1 DEF Types
<1>9. BeforeAdd' /\ Early' /\ ErrorIsReset' /\ Registered'
  BY <1>0, <1>1, <1>6, <1>7 DEF Safe, BeforeAdd, Early, ErrorIsReset, Registered
<1>10. Armed'
  BY <1>0, <1>1, <1>6 DEF Safe, Armed, Pending, Closing
<1>11. UpdateSafe'
  BY <1>6 DEF UpdateSafe
<1>12. EndsCause'
  BY <1>0, <1>1 DEF EndsCause, Closing
<1>13. Clean'
  <2>1. ~early => closed = 0
    BY <1>0, <1>1, CalledOpen DEF Serving
  <2> QED BY <1>0, <1>1, <2>1 DEF Clean, Closing, Serving
<1> QED BY <1>8, <1>9, <1>10, <1>11, <1>12, <1>13 DEF IInv
-------------------------------------------------------------------------------
(* Steps of the loop outside process_work().                               *)

\* epoll_wait returns the channel.
LEMMA PollSafe == ASSUME IInv, NEW w \in BOOLEAN, Poll(w) PROVE IInv'
<1>0. Types /\ Safe /\ EndsCause /\ Clean
  BY DEF IInv, Safe
<1> DEFINE events == IF w THEN Ready \cup {"OUT"} ELSE Ready
<1>1. /\ k' = [k EXCEPT !.evt = events] /\ lpc = "poll" /\ lpc' = "hup" /\ k.reg
      /\ events # {} /\ (w => "OUT" \in k.interest)
      /\ UNCHANGED <<net, tasks, ntask, ret, apc, snap, inmap, ref, closed, late, early>>
      /\ overwrote' = (overwrote \/ (UpdateDue /\ Pending(k) /\ "OUT" \notin events))
  BY DEF Poll
<1>2. /\ events \subseteq Flags
      /\ "IN" \in events => "IN" \in k.interest
      /\ "OUT" \in events => "OUT" \in k.interest
      /\ "HUP" \in events => net.rst \/ (net.fin /\ k.shut)
      /\ "ERR" \in events => k.err
  BY <1>1 DEF Ready, Flags
<1> HIDE DEF events
<1>3. /\ k' \in Conn /\ k'.reg = k.reg /\ k'.shut = k.shut /\ k'.err = k.err /\ k'.evt = events
      /\ k'.interest = k.interest /\ k'.progress = k.progress /\ k'.wcache = k.wcache
  BY <1>0, <1>1, <1>2 DEF Types, Conn
<1>4. Types'
  <2>1. overwrote' \in BOOLEAN
    BY <1>0, <1>1 DEF Types
  <2> QED BY <1>0, <1>1, <1>3, <2>1 DEF Types, Serving
<1>5. BeforeAdd' /\ ErrorIsReset' /\ Registered' /\ Armed'
  BY <1>0, <1>1, <1>3 DEF Safe, BeforeAdd, ErrorIsReset, Registered, Armed, Pending, Closing
<1>6. Early'
  <2> SUFFICES ASSUME apc \in {"join", "read_flags", "enable"} PROVE Early'
    BY <1>1 DEF Early
  <2>1. k.interest \cap {"IN", "OUT"} = {} /\ ~Pending(k)
    BY <1>0 DEF Safe, Early
  <2>2. "IN" \notin events /\ "OUT" \notin events
    BY <1>2, <2>1
  <2>3. "HUP" \in events \/ "ERR" \in events
    BY <1>1, <1>2, <2>2 DEF Flags
  <2>4. net.rst \/ k.shut
    BY <1>0, <1>2, <2>3 DEF Safe, ErrorIsReset
  <2> QED BY <1>0, <1>1, <1>3, <2>1, <2>2, <2>4 DEF Safe, Early, Pending
<1>7. UpdateSafe'
  BY <1>0, <1>1, <1>3 DEF UpdateSafe, UpdateDue, Pending
<1>8. EndsCause'
  BY <1>0, <1>1, <1>2, <1>3 DEF EndsCause, Closing
<1>9. Clean'
  BY <1>0, <1>1 DEF Safe, Registered, Clean, Closing, Types
<1> QED BY <1>4, <1>5, <1>6, <1>7, <1>8, <1>9 DEF IInv

\* The swap without events, and the end of a round of tasks.
LEMMA RoundSafe == ASSUME IInv, PollNothing \/ TasksDone PROVE IInv'
<1>0. Types /\ Safe /\ EndsCause /\ Clean
  BY DEF IInv, Safe
<1>1. /\ UNCHANGED <<k, net, tasks, ret, apc, snap, inmap, ref, closed, late, overwrote, early>>
      /\ \/ lpc = "poll" /\ lpc' = "tasks" /\ ntask' = Len(tasks)
         \/ lpc = "tasks" /\ lpc' = "poll" /\ ntask = 0 /\ ntask' = ntask
  BY DEF PollNothing, TasksDone, LoopKeeps
<1>2. Len(tasks) \in Nat /\ \A i \in DOMAIN tasks : i \in 1 .. Len(tasks)
  BY <1>0, LenProperties DEF Types
<1>3. Types'
  BY <1>0, <1>1, <1>2 DEF Types
<1>4. BeforeAdd' /\ Early' /\ ErrorIsReset' /\ Registered' /\ Armed'
  BY <1>0, <1>1 DEF Safe, BeforeAdd, Early, ErrorIsReset, Registered, Armed, Closing, Serving
<1>5. UpdateSafe'
  BY <1>0, <1>1 DEF Safe, UpdateSafe, UpdateDue, Closing
<1>6. EndsCause' /\ Clean'
  BY <1>0, <1>1 DEF EndsCause, Clean, Closing, Serving
<1> QED BY <1>3, <1>4, <1>5, <1>6 DEF IInv

\* The task that is run is the first; the others move up.
LEMMA TailFacts ==
  ASSUME Types, NextTask
  PROVE  /\ lpc = "tasks" /\ ntask' = ntask - 1 /\ ntask \in 1 .. Len(tasks)
         /\ Head(tasks) = tasks[1] /\ 1 \in DOMAIN tasks /\ tasks # <<>> /\ tasks[1] \in TaskSet
         /\ tasks' \in Seq(TaskSet) /\ ntask' \in 0 .. Len(tasks')
         /\ \A i \in DOMAIN tasks' : /\ i \in Nat \ {0} /\ i + 1 \in DOMAIN tasks
                                     /\ tasks'[i] = tasks[i + 1]
<1>1. /\ lpc = "tasks" /\ ntask > 0 /\ ntask' = ntask - 1 /\ tasks' = Tail(tasks)
      /\ tasks \in Seq(TaskSet) /\ ntask \in 0 .. Len(tasks)
  BY DEF NextTask, Types
<1>2. Len(tasks) \in Nat /\ DOMAIN tasks = 1 .. Len(tasks)
  BY <1>1, LenProperties
<1>3. tasks # <<>>
  BY <1>1, <1>2
<1>4. /\ tasks' \in Seq(TaskSet) /\ Len(tasks') = Len(tasks) - 1
      /\ \A i \in 1 .. Len(tasks') : tasks'[i] = tasks[i + 1]
  BY <1>1, <1>3, HeadTailProperties
<1>5. DOMAIN tasks' = 1 .. Len(tasks')
  BY <1>4, LenProperties
<1>6. 1 \in DOMAIN tasks /\ tasks[1] \in TaskSet
  BY <1>1, <1>2, ElementOfSeq
<1>7. Head(tasks) = tasks[1]
  BY <1>1, <1>3
<1> QED BY <1>1, <1>2, <1>3, <1>4, <1>5, <1>6, <1>7

\* The add task.
LEMMA AddSafe == ASSUME IInv, AddTask PROVE IInv'
<1>0. Types /\ Safe /\ EndsCause /\ Clean
  BY DEF IInv, Safe
<1>1. /\ NextTask /\ Head(tasks).op = "add" /\ k' = [k EXCEPT !.reg = TRUE, !.interest = k.evt]
      /\ UNCHANGED <<net, lpc, ret, apc, snap, inmap, ref, closed, late, overwrote, early>>
  BY DEF AddTask, TaskKeeps, LoopKeeps
<1>2. /\ lpc = "tasks" /\ Head(tasks) = tasks[1] /\ 1 \in DOMAIN tasks /\ tasks # <<>>
      /\ tasks' \in Seq(TaskSet) /\ ntask' \in 0 .. Len(tasks')
      /\ \A i \in DOMAIN tasks' : /\ i \in Nat \ {0} /\ i + 1 \in DOMAIN tasks
                                  /\ tasks'[i] = tasks[i + 1]
  BY <1>0, <1>1, TailFacts
<1>3. /\ k' \in Conn /\ k'.reg /\ k'.shut = k.shut /\ k'.err = k.err /\ k'.evt = k.evt
      /\ k'.interest = k.evt /\ k'.progress = k.progress /\ k'.wcache = k.wcache
      /\ k'.status = k.status
  BY <1>0, <1>1 DEF Types, Conn
<1>4. ~Pending(k) /\ inmap /\ closed = 0 /\ ~ref
  BY <1>0, <1>1, <1>2 DEF Safe, BeforeAdd
<1>5. \A i \in DOMAIN tasks' : tasks'[i].op # "add"
  <2>1. \A i \in DOMAIN tasks : tasks[i].op = "add" => i = 1
    BY <1>0 DEF Safe, BeforeAdd
  <2> QED BY <1>2, <2>1
<1>6. Types'
  BY <1>0, <1>1, <1>2, <1>3 DEF Types
<1>7. apc # "join"
  BY <1>0, <1>2 DEF Safe, BeforeAdd
<1>8. BeforeAdd' /\ ErrorIsReset' /\ Registered' /\ Armed'
  BY <1>0, <1>1, <1>3, <1>4, <1>5, <1>7 DEF Safe, BeforeAdd, ErrorIsReset, Registered, Armed,
     Pending
<1>9. Early'
  <2> SUFFICES ASSUME apc \in {"join", "read_flags", "enable"} PROVE Early'
    BY <1>1 DEF Early
  <2>1. k.evt \cap {"IN", "OUT"} = {} /\ \A i \in DOMAIN tasks : tasks[i].op = "add"
    BY <1>0 DEF Safe, Early
  <2>2. \A i \in DOMAIN tasks' : tasks'[i].op = "add"
    BY <1>2, <2>1
  <2> QED BY <1>1, <1>2, <1>3, <1>4, <2>1, <2>2 DEF Early, Pending, Serving
<1>10. UpdateSafe'
  BY <1>3, <1>4 DEF UpdateSafe, Pending
<1>11. EndsCause' /\ Clean'
  BY <1>0, <1>1, <1>2, <1>3 DEF EndsCause, Clean, Closing, Serving
<1> QED BY <1>6, <1>8, <1>9, <1>10, <1>11 DEF IInv

\* Behind the first task that is not the add task there is no add task, start() has
\* set the flags, and an update is due only if it was.
LEMMA PastAdd ==
  ASSUME Types, Safe, NextTask, tasks[1].op # "add", apc' = apc
  PROVE  /\ apc \notin {"join", "read_flags", "enable"}
         /\ \A i \in DOMAIN tasks' : tasks'[i].op # "add"
         /\ UpdateDue' => UpdateDue
<1>1. /\ 1 \in DOMAIN tasks
      /\ \A i \in DOMAIN tasks' : /\ i \in Nat \ {0} /\ i + 1 \in DOMAIN tasks
                                  /\ tasks'[i] = tasks[i + 1]
  BY TailFacts
<1>2. apc \notin {"join", "read_flags", "enable"}
  BY <1>1 DEF Safe, Early
<1>3. ASSUME NEW i \in DOMAIN tasks' PROVE tasks'[i].op # "add"
  <2>1. i + 1 \in DOMAIN tasks /\ tasks'[i] = tasks[i + 1] /\ i + 1 # 1
    BY <1>1
  <2> QED BY <2>1 DEF Safe, BeforeAdd
<1>4. UpdateDue' => UpdateDue
  BY <1>1 DEF UpdateDue
<1> QED BY <1>2, <1>3, <1>4

\* A task that is not the add task and leaves the connection armed.
LEMMA TaskSafe ==
  ASSUME IInv, NextTask, Head(tasks).op # "add", k' \in Conn, k'.reg = k.reg,
         k'.err => k.err, k'.reg /\ Pending(k') /\ ~overwrote => "OUT" \in k'.interest,
         UpdateDue /\ k'.reg /\ Pending(k') /\ ~overwrote => "OUT" \in k'.evt,
         ref' \in BOOLEAN, UNCHANGED <<net, lpc, ret, apc, snap, inmap, closed, late, overwrote, early>>
  PROVE  IInv'
<1>0. Types /\ Safe /\ EndsCause /\ Clean
  BY DEF IInv, Safe
<1>1. /\ lpc = "tasks" /\ Head(tasks) = tasks[1]
      /\ tasks' \in Seq(TaskSet) /\ ntask' \in 0 .. Len(tasks')
  BY <1>0, TailFacts
<1>2. /\ apc \notin {"join", "read_flags", "enable"}
      /\ \A i \in DOMAIN tasks' : tasks'[i].op # "add"
      /\ UpdateDue' => UpdateDue
  BY <1>0, <1>1, PastAdd
<1>3. Types'
  BY <1>0, <1>1 DEF Types
<1>4. BeforeAdd' /\ Early'
  BY <1>2 DEF BeforeAdd, Early
<1>5. ErrorIsReset' /\ Registered' /\ Armed' /\ UpdateSafe'
  BY <1>0, <1>2 DEF Safe, ErrorIsReset, Registered, Armed, UpdateSafe
<1>6. EndsCause' /\ Clean'
  BY <1>0, <1>1 DEF EndsCause, Clean, Closing, Serving
<1> QED BY <1>3, <1>4, <1>5, <1>6 DEF IInv

\* The other tasks.
LEMMA TasksSafe ==
  ASSUME IInv, UpdateTask \/ ConnTask \/ WriteTask \/ ShutTask \/ DanglingTask PROVE IInv'
<1>0. Types /\ Safe /\ k \in Conn /\ ref \in BOOLEAN
  BY DEF IInv, Safe, Types
<1>1. /\ NextTask /\ UNCHANGED <<net, lpc, ret, apc, snap, inmap, closed, late, overwrote, early>>
      /\ Head(tasks).op \in {"update", "conn", "write", "shut"}
  BY DEF UpdateTask, ConnTask, WriteTask, ShutTask, DanglingTask, TaskKeeps, LoopKeeps
<1>2. lpc = "tasks" /\ Head(tasks) = tasks[1] /\ 1 \in DOMAIN tasks /\ tasks[1] \in TaskSet
      /\ ntask \in 1 .. Len(tasks) /\ lpc \notin Closing
  BY <1>0, <1>1, TailFacts DEF Closing
<1>3. /\ k.reg /\ Pending(k) /\ ~overwrote => "OUT" \in k.interest
      /\ UpdateDue /\ k.reg /\ Pending(k) /\ ~overwrote => "OUT" \in k.evt
  BY <1>0, <1>2 DEF Safe, Armed, UpdateSafe
<1>4. Wrote(k, k') => /\ k' \in Conn /\ k'.reg = k.reg /\ (k'.err => k.err)
                      /\ k'.reg /\ Pending(k') /\ ~overwrote => "OUT" \in k'.interest
                      /\ UpdateDue /\ k'.reg /\ Pending(k') /\ ~overwrote => "OUT" \in k'.evt
  BY <1>3 DEF Wrote
<1>5. CASE UpdateTask
  <2>1. k' = update_evt_code(k) /\ ref' = ref /\ tasks[1].op = "update"
    BY <1>2, <1>5 DEF UpdateTask
  <2>2. /\ k' \in Conn /\ k'.reg = k.reg /\ k'.err = k.err /\ k'.progress = k.progress
        /\ k'.wcache = k.wcache /\ (k.reg => k'.interest = k.evt) /\ k'.evt = k.evt
    BY <1>0, <2>1 DEF Conn, update_evt_code
  <2>3. k.reg /\ Pending(k) /\ ~overwrote => "OUT" \in k.evt
    BY <1>2, <1>3, <2>1 DEF UpdateDue
  <2>4. k'.reg /\ Pending(k') /\ ~overwrote => "OUT" \in k'.interest /\ "OUT" \in k'.evt
    BY <2>2, <2>3 DEF Pending
  <2> QED BY <1>0, <1>1, <2>1, <2>2, <2>4, TaskSafe
<1>6. CASE ConnTask
  <2>1. Wrote(k, k')
    BY <1>0, <1>6, ConnCallbackWrote DEF ConnTask
  <2>2. ref' \in BOOLEAN
    BY <1>6 DEF ConnTask
  <2> QED BY <1>1, <1>4, <2>1, <2>2, TaskSafe
<1>7. CASE WriteTask
  <2>1. tasks[1].data \in Msg /\ ref' = ref
    BY <1>2, <1>7 DEF WriteTask, TaskSet
  <2>2. PICK r \in SendResults(k, MsgLen) :
          LET c == write_in_loop(k, tasks[1].data, r)
          IN  k' \in AfterCallback(c) \/ k' = c
    BY <1>2, <1>7 DEF WriteTask
  <2> DEFINE c == write_in_loop(k, tasks[1].data, r)
  <2>3. Wrote(k, c)
    BY <1>0, <2>1, WriteInLoop
  <2>4. k' \in AfterCallback(c) \/ k' = c
    BY <2>2
  <2> HIDE DEF c
  <2>5. c \in Conn
    BY <2>3 DEF Wrote
  <2>6. Wrote(c, k')
    BY <2>4, <2>5, CallbackWrote, WroteRefl
  <2>7. Wrote(k, k')
    BY <2>3, <2>6, WroteTrans
  <2> QED BY <1>0, <1>1, <1>4, <2>1, <2>7, TaskSafe
<1>8. CASE ShutTask
  <2>1. k' = [k EXCEPT !.shut = TRUE] /\ ref' = ref
    BY <1>8 DEF ShutTask
  <2>2. /\ k' \in Conn /\ k'.reg = k.reg /\ k'.err = k.err /\ k'.progress = k.progress
        /\ k'.wcache = k.wcache /\ k'.interest = k.interest /\ k'.evt = k.evt
    BY <1>0, <2>1 DEF Conn
  <2>3. /\ k'.reg /\ Pending(k') /\ ~overwrote => "OUT" \in k'.interest
        /\ UpdateDue /\ k'.reg /\ Pending(k') /\ ~overwrote => "OUT" \in k'.evt
    BY <1>3, <2>2 DEF Pending
  <2> QED BY <1>0, <1>1, <2>1, <2>2, <2>3, TaskSafe
<1>9. CASE DanglingTask
  <2>1. k' = k /\ ref' = ref
    BY <1>9 DEF DanglingTask
  <2>2. Wrote(k, k')
    BY <1>0, <2>1, WroteRefl
  <2> QED BY <1>0, <1>1, <1>4, <2>1, <2>2, TaskSafe
<1> QED BY <1>5, <1>6, <1>7, <1>8, <1>9
-------------------------------------------------------------------------------
(* The other threads and the peer.                                         *)

\* A task is queued behind the others.
LEMMA AppendFacts ==
  ASSUME Types, NEW e \in TaskSet, tasks' = Append(tasks, e)
  PROVE  /\ tasks' \in Seq(TaskSet) /\ ntask \in 0 .. Len(tasks')
         /\ DOMAIN tasks = 1 .. Len(tasks) /\ Len(tasks) \in Nat
         /\ DOMAIN tasks' = 1 .. Len(tasks) + 1
         /\ tasks'[Len(tasks) + 1] = e
         /\ \A i \in DOMAIN tasks : tasks'[i] = tasks[i]
<1>1. tasks \in Seq(TaskSet) /\ ntask \in 0 .. Len(tasks)
  BY DEF Types
<1>2. Len(tasks) \in Nat /\ DOMAIN tasks = 1 .. Len(tasks)
  BY <1>1, LenProperties
<1>3. /\ tasks' \in Seq(TaskSet) /\ Len(tasks') = Len(tasks) + 1
      /\ \A i \in 1 .. Len(tasks) : tasks'[i] = tasks[i]
      /\ tasks'[Len(tasks) + 1] = e
  BY <1>1, AppendProperties
<1>4. DOMAIN tasks' = 1 .. Len(tasks')
  BY <1>3, LenProperties
<1> QED BY <1>1, <1>2, <1>3, <1>4

\* The tasks of start() are tasks.
LEMMA StartTasks == \A op \in {"add", "update", "conn", "shut"} : Task(op) \in TaskSet /\ Task(op).op = op
BY DEF Task, TaskSet

\* The steps of start() before the flags are written.
LEMMA JoinSafe == ASSUME IInv, JoinToService \/ EnableReadFlags PROVE IInv'
<1>0. Types /\ Safe /\ EndsCause /\ Clean
  BY DEF IInv, Safe
<1>1. UNCHANGED <<k, net, ntask, lpc, ret, inmap, ref, closed, late, overwrote, early>>
  BY DEF JoinToService, EnableReadFlags, StartKeeps
<1>2. k.evt \subseteq Flags
  BY <1>0 DEF Types, Conn
<1>3. CASE JoinToService
  <2>1. /\ apc = "join" /\ apc' = "read_flags" /\ snap' = snap
        /\ tasks' = Append(tasks, Task("add")) /\ tasks = <<>>
    BY <1>0, <1>3 DEF JoinToService, Safe, BeforeAdd
  <2>2. /\ tasks' \in Seq(TaskSet) /\ ntask \in 0 .. Len(tasks')
        /\ DOMAIN tasks' = {1} /\ tasks'[1].op = "add"
    <3>1. /\ tasks' \in Seq(TaskSet) /\ ntask \in 0 .. Len(tasks')
          /\ DOMAIN tasks' = 1 .. Len(tasks) + 1 /\ tasks'[Len(tasks) + 1].op = "add"
      BY <1>0, <2>1, AppendFacts, StartTasks
    <3>2. Len(tasks) = 0
      BY <2>1
    <3> QED BY <3>1, <3>2
  <2>3. Types'
    BY <1>0, <1>1, <2>1, <2>2 DEF Types
  <2>4. BeforeAdd' /\ UpdateSafe'
    BY <1>0, <1>1, <2>1, <2>2 DEF Safe, BeforeAdd, UpdateSafe
  <2>5. Early' /\ ErrorIsReset' /\ Registered' /\ Armed'
    BY <1>0, <1>1, <2>1, <2>2 DEF Safe, Early, ErrorIsReset, Registered, Armed
  <2>6. EndsCause' /\ Clean'
    BY <1>0, <1>1, <2>1 DEF EndsCause, Clean, connected
  <2> QED BY <2>3, <2>4, <2>5, <2>6 DEF IInv
<1>4. CASE EnableReadFlags
  <2>1. apc = "read_flags" /\ apc' = "enable" /\ snap' = k.evt /\ tasks' = tasks
    BY <1>4 DEF EnableReadFlags
  <2>2. Types'
    BY <1>0, <1>1, <1>2, <2>1 DEF Types
  <2>3. Safe'
    BY <1>0, <1>1, <2>1 DEF Safe, BeforeAdd, Early, ErrorIsReset, Registered, Armed, UpdateSafe,
       UpdateDue
  <2>4. EndsCause' /\ Clean'
    BY <1>0, <1>1, <2>1 DEF EndsCause, Clean, connected
  <2> QED BY <2>2, <2>3, <2>4 DEF IInv, Safe
<1> QED BY <1>3, <1>4

\* enable_read() in start() writes the flags.
LEMMA EnableReadSafe == ASSUME IInv, EnableRead PROVE IInv'
<1>0. Types /\ Safe /\ EndsCause /\ Clean
  BY DEF IInv, Safe
<1>1. /\ UNCHANGED <<tasks, snap, net, ntask, lpc, ret, inmap, ref, closed, late, overwrote, early>>
      /\ k' = [k EXCEPT !.evt = snap \cup ReadFlags] /\ apc = "enable" /\ apc' = "update"
  BY DEF EnableRead, StartKeeps
<1>2. snap \cup ReadFlags \subseteq Flags /\ "IN" \in snap \cup ReadFlags
  BY <1>0 DEF Types, ReadFlags, Flags
<1>3. /\ k' \in Conn /\ k'.reg = k.reg /\ k'.shut = k.shut /\ k'.err = k.err
      /\ k'.interest = k.interest /\ k'.progress = k.progress /\ k'.wcache = k.wcache
      /\ "IN" \in k'.evt
  BY <1>0, <1>1, <1>2 DEF Types, Conn
<1>4. ~Pending(k')
  BY <1>0, <1>1, <1>3 DEF Safe, Early, Pending
<1>5. Types'
  BY <1>0, <1>1, <1>3 DEF Types
<1>6. BeforeAdd'
  BY <1>0, <1>1, <1>3, <1>4 DEF Safe, BeforeAdd
<1>7. Early' /\ ErrorIsReset' /\ Registered' /\ Armed' /\ UpdateSafe'
  BY <1>0, <1>1, <1>3, <1>4 DEF Safe, Early, ErrorIsReset, Registered, Armed, UpdateSafe
<1>8. EndsCause'
  BY <1>0, <1>1, <1>3 DEF EndsCause
<1>9. Clean'
  <2>1. ~early => ~net.fin /\ ~net.rst
    BY <1>0, <1>1 DEF Clean
  <2>2. ~early => lpc \notin {"close"} \cup Closing /\ closed = 0
    BY <1>0, <2>1 DEF EndsCause, Types
  <2> QED BY <1>0, <1>1, <2>1, <2>2 DEF Clean
<1> QED BY <1>5, <1>6, <1>7, <1>8, <1>9 DEF IInv

\* start() queues the update, which is due since the flags were written, and in the
\* end the conn callback.
LEMMA QueueingSafe == ASSUME IInv, UpdateChannel \/ QueueConnCallback PROVE IInv'
<1>0. Types /\ Safe /\ EndsCause /\ Clean
  BY DEF IInv, Safe
<1>1. /\ UNCHANGED <<k, snap, net, ntask, lpc, ret, inmap, ref, closed, late, overwrote, early>>
      /\ apc \in {"update", "conn"} /\ apc' \in {"status", "done"}
  BY DEF UpdateChannel, QueueConnCallback, StartKeeps
<1>2. PICK op \in {"update", "conn"} : tasks' = Append(tasks, Task(op)) /\ (op = "update" => apc = "update")
  BY DEF UpdateChannel, QueueConnCallback
<1>3. /\ tasks' \in Seq(TaskSet) /\ ntask \in 0 .. Len(tasks')
      /\ DOMAIN tasks = 1 .. Len(tasks) /\ Len(tasks) \in Nat
      /\ DOMAIN tasks' = 1 .. Len(tasks) + 1 /\ tasks'[Len(tasks) + 1].op = op
      /\ \A i \in DOMAIN tasks : tasks'[i] = tasks[i]
  BY <1>0, <1>2, AppendFacts, StartTasks
<1>4. Types'
  BY <1>0, <1>1, <1>3 DEF Types
<1>5. \A i \in DOMAIN tasks' : (i \in DOMAIN tasks /\ tasks'[i] = tasks[i]) \/ tasks'[i].op = op
  BY <1>3
<1>6. BeforeAdd'
  BY <1>0, <1>1, <1>5 DEF Safe, BeforeAdd
<1>7. UpdateDue' => UpdateDue
  BY <1>1, <1>2, <1>5 DEF UpdateDue
<1>8. Early' /\ ErrorIsReset' /\ Registered' /\ Armed' /\ UpdateSafe'
  BY <1>0, <1>1, <1>7 DEF Safe, Early, ErrorIsReset, Registered, Armed, UpdateSafe
<1>9. EndsCause' /\ Clean'
  BY <1>0, <1>1 DEF EndsCause, Clean, connected
<1> QED BY <1>4, <1>6, <1>8, <1>9 DEF IInv

\* start() writes kConnected.
LEMMA SetConnectedSafe == ASSUME IInv, SetConnected PROVE IInv'
<1>0. Types /\ Safe /\ EndsCause /\ Clean
  BY DEF IInv, Safe
<1>1. /\ UNCHANGED <<tasks, snap, net, ntask, lpc, ret, inmap, ref, closed, late, overwrote, early>>
      /\ k' = [k EXCEPT !.status = "kConnected"] /\ apc = "status" /\ apc' = "conn"
  BY DEF SetConnected, StartKeeps
<1>2. /\ k' \in Conn /\ k'.reg = k.reg /\ k'.shut = k.shut /\ k'.err = k.err /\ k'.evt = k.evt
      /\ k'.interest = k.interest /\ k'.progress = k.progress /\ k'.wcache = k.wcache
  BY <1>0, <1>1 DEF Types, Conn, Status
<1>3. Types'
  BY <1>0, <1>1, <1>2 DEF Types
<1>4. Safe'
  BY <1>0, <1>1, <1>2 DEF Safe, BeforeAdd, Early, ErrorIsReset, Registered, Armed, UpdateSafe,
     UpdateDue, Pending
<1>5. EndsCause'
  BY <1>0, <1>1, <1>2 DEF EndsCause
<1>6. Clean'
  <2>1. ~early => ~net.fin /\ ~net.rst
    BY <1>0, <1>1 DEF Clean
  <2>2. ~early => lpc \notin {"close"} \cup Closing /\ closed = 0
    BY <1>0, <2>1 DEF EndsCause, Types
  <2> QED BY <1>0, <1>1, <2>1, <2>2 DEF Clean
<1> QED BY <1>3, <1>4, <1>5, <1>6 DEF IInv, Safe

\* A step of the user's thread.  It has a connection_ptr only after the conn
\* callback, when start() has set the flags.
LEMMA RemoteKeepsSafe ==
  ASSUME IInv, ref, UNCHANGED <<net, ntask, lpc, ret, apc, snap, inmap, closed, late, overwrote, early>>,
         k' \in Conn, k'.reg = k.reg, k'.err => k.err, k'.evt = k.evt,
         k'.interest = k.interest, Pending(k') => Pending(k),
         k'.status = k.status \/ k'.status = "kInDisconnect",
         ref' \in BOOLEAN, tasks' \in Seq(TaskSet), ntask \in 0 .. Len(tasks'),
         \A i \in DOMAIN tasks' : \/ tasks'[i].op \in {"write", "shut"}
                                  \/ i \in DOMAIN tasks /\ tasks'[i] = tasks[i]
  PROVE  IInv'
<1>0. Types /\ Safe /\ EndsCause /\ Clean
  BY DEF IInv, Safe
<1>1. apc \notin {"join", "read_flags", "enable"}
  BY <1>0 DEF Safe, Early
<1>2. Types'
  BY <1>0 DEF Types
<1>3. BeforeAdd' /\ Early'
  BY <1>0, <1>1 DEF Safe, BeforeAdd, Early
<1>4. ErrorIsReset' /\ Registered' /\ Armed' /\ UpdateSafe'
  <2>1. UpdateDue' => UpdateDue
    BY DEF UpdateDue
  <2> QED BY <1>0, <2>1 DEF Safe, ErrorIsReset, Registered, Armed, UpdateSafe
<1>5. EndsCause' /\ Clean'
  BY <1>0 DEF EndsCause, Clean, connected
<1> QED BY <1>2, <1>3, <1>4, <1>5 DEF IInv

\* write(), shutdown() and the release of the connection_ptr by the user's thread.
LEMMA RemoteSafe == ASSUME IInv, RemoteNext PROVE IInv'
<1>0. Types /\ Safe /\ k \in Conn /\ tasks \in Seq(TaskSet) /\ ntask \in 0 .. Len(tasks)
  BY DEF IInv, Safe, Types
<1>1. ref /\ UNCHANGED <<net, ntask, lpc, ret, apc, snap, inmap, closed, late, overwrote, early>>
  BY DEF RemoteNext, RemoteWrite, RemoteShutdown, Release, RemoteKeeps
<1>4. Len(tasks) \in Nat /\ DOMAIN tasks = 1 .. Len(tasks)
  BY <1>0, LenProperties
<1>5. CASE RemoteWrite
  <2> DEFINE data == NextData(k, "user")
             queued == IF "reuse" \in RemoteActs
                         THEN [i \in DOMAIN tasks |-> IF tasks[i].op = "write"
                                                        THEN [tasks[i] EXCEPT !.data = data]
                                                        ELSE tasks[i]]
                         ELSE tasks
             e == [op |-> "write", data |-> data]
  <2>1. CanAsk(k, "user") /\ tasks' = Append(queued, e) /\ k' = Asked(k, "user") /\ ref' = ref
    BY <1>5 DEF RemoteWrite
  <2>2. /\ data \in Msg /\ k' \in Conn /\ k'.reg = k.reg /\ k'.err = k.err /\ k'.evt = k.evt
        /\ k'.status = k.status /\ k'.interest = k.interest /\ (Pending(k') => Pending(k))
    BY <1>0, <2>1, NextDataMsg DEF Callers, Asked, Conn, Pending
  <2> HIDE DEF data
  <2>3. e \in TaskSet
    BY <2>2 DEF TaskSet
  <2>4. /\ queued \in Seq(TaskSet) /\ Len(queued) = Len(tasks)
        /\ \A i \in 1 .. Len(tasks) : queued[i].op = "write" \/ queued[i] = tasks[i]
    <3>1. ASSUME NEW i \in 1 .. Len(tasks)
          PROVE  /\ tasks[i] \in TaskSet
                 /\ tasks[i].op = "write" =>
                      /\ [tasks[i] EXCEPT !.data = data] \in TaskSet
                      /\ [tasks[i] EXCEPT !.data = data].op = "write"
      <4>1. tasks[i] \in TaskSet
        BY <1>0, ElementOfSeq
      <4> QED BY <2>2, <4>1 DEF TaskSet
    <3> QED BY <1>0, <1>4, <3>1
  <2> HIDE DEF queued, e
  <2>5. /\ tasks' \in Seq(TaskSet) /\ Len(tasks') = Len(tasks) + 1
        /\ \A i \in 1 .. Len(tasks) : tasks'[i] = queued[i]
        /\ tasks'[Len(tasks) + 1] = e
    BY <2>1, <2>3, <2>4, AppendProperties
  <2>6. DOMAIN tasks' = 1 .. Len(tasks) + 1
    BY <2>5, LenProperties
  <2>7. e.op = "write"
    BY DEF e
  <2>8. \A i \in DOMAIN tasks' : \/ tasks'[i].op \in {"write", "shut"}
                                 \/ i \in DOMAIN tasks /\ tasks'[i] = tasks[i]
    <3>1. \A i \in 1 .. Len(tasks) + 1 : i \in 1 .. Len(tasks) \/ i = Len(tasks) + 1
      BY <1>4
    <3>2. \A i \in 1 .. Len(tasks) : tasks'[i].op = "write" \/ tasks'[i] = tasks[i]
      BY <2>4, <2>5
    <3>3. tasks'[Len(tasks) + 1].op = "write"
      BY <2>5, <2>7
    <3> QED BY <1>4, <2>6, <3>1, <3>2, <3>3
  <2>9. ntask \in 0 .. Len(tasks') /\ ref' \in BOOLEAN
    BY <1>0, <1>4, <2>1, <2>5 DEF Types
  <2> QED BY <1>1, <2>2, <2>5, <2>8, <2>9, RemoteKeepsSafe
<1>6. CASE RemoteShutdown
  <2>1. /\ k' = [k EXCEPT !.status = "kInDisconnect"] /\ ref' = ref
        /\ tasks' = Append(tasks, Task("shut"))
    BY <1>6 DEF RemoteShutdown
  <2>2. /\ k' \in Conn /\ k'.reg = k.reg /\ k'.err = k.err /\ k'.evt = k.evt
        /\ k'.interest = k.interest /\ k'.progress = k.progress /\ k'.wcache = k.wcache
        /\ k'.status = "kInDisconnect"
    BY <1>0, <2>1 DEF Conn, Status
  <2>3. /\ tasks' \in Seq(TaskSet) /\ ntask \in 0 .. Len(tasks')
        /\ DOMAIN tasks' = 1 .. Len(tasks) + 1 /\ tasks'[Len(tasks) + 1].op = "shut"
        /\ \A i \in DOMAIN tasks : tasks'[i] = tasks[i]
    BY <1>0, <2>1, AppendFacts, StartTasks
  <2>4. \A i \in DOMAIN tasks' : \/ tasks'[i].op \in {"write", "shut"}
                                 \/ i \in DOMAIN tasks /\ tasks'[i] = tasks[i]
    <3>1. \A i \in 1 .. Len(tasks) + 1 : i \in 1 .. Len(tasks) \/ i = Len(tasks) + 1
      BY <1>4
    <3> QED BY <1>4, <2>3, <3>1
  <2>5. Pending(k') => Pending(k)
    BY <2>2 DEF Pending
  <2>6. ref' \in BOOLEAN
    BY <1>0, <2>1 DEF Types
  <2> QED BY <1>1, <2>1, <2>2, <2>3, <2>4, <2>5, <2>6, RemoteKeepsSafe
<1>7. CASE Release
  <2>1. k' = k /\ tasks' = tasks /\ ref' = FALSE
    BY <1>7 DEF Release
  <2>2. ref' \in BOOLEAN
    BY <2>1, Zenon
  <2> QED BY <1>0, <1>1, <2>1, <2>2, RemoteKeepsSafe DEF Pending
<1> QED BY <1>5, <1>6, <1>7 DEF RemoteNext

\* The peer.
LEMMA PeerSafe == ASSUME IInv, PeerNext PROVE IInv'
<1>0. Types /\ Safe /\ EndsCause /\ Clean
  BY DEF IInv, Safe
<1>1. UNCHANGED <<tasks, ntask, lpc, ret, apc, snap, inmap, ref, closed, late, overwrote>>
  BY DEF PeerNext, PeerSends, PeerCloses, PeerResets, PeerKeeps
<1>2. /\ net' \in [inq : 0 .. MaxIn, sent : 0 .. MaxIn, fin : BOOLEAN, rst : BOOLEAN]
      /\ net'.inq <= net'.sent /\ (net.fin => net'.fin) /\ (net.rst => net'.rst)
      /\ (net'.fin = net.fin /\ net'.rst = net.rst) \/ apc = "done" \/ early'
      /\ early' \in BOOLEAN /\ (early => early')
  <2>0. MaxIn \in Nat
    BY ConnectionAssumption
  <2>1. CASE PeerSends
    <3>1. net' = [net EXCEPT !.inq = @ + 1, !.sent = @ + 1] /\ net.sent < MaxIn /\ early' = early
      BY <2>1 DEF PeerSends
    <3>2. /\ net \in [inq : 0 .. MaxIn, sent : 0 .. MaxIn, fin : BOOLEAN, rst : BOOLEAN]
          /\ net.inq <= net.sent
      BY <1>0 DEF Types
    <3>3. net.inq + 1 \in 0 .. MaxIn /\ net.sent + 1 \in 0 .. MaxIn
      BY <2>0, <3>1, <3>2
    <3>4. /\ net'.inq = net.inq + 1 /\ net'.sent = net.sent + 1
          /\ net'.fin = net.fin /\ net'.rst = net.rst
          /\ net' \in [inq : 0 .. MaxIn, sent : 0 .. MaxIn, fin : BOOLEAN, rst : BOOLEAN]
      BY <3>1, <3>2, <3>3
    <3> QED BY <1>0, <2>0, <3>1, <3>2, <3>4 DEF Types
  <2>2. CASE PeerCloses
    <3>1. net' = [net EXCEPT !.fin = TRUE] /\ early' = (early \/ apc # "done")
      BY <2>2 DEF PeerCloses
    <3> QED BY <1>0, <3>1 DEF Types
  <2>3. CASE PeerResets
    <3>1. net' = [net EXCEPT !.rst = TRUE] /\ early' = (early \/ apc # "done")
      BY <2>3 DEF PeerResets
    <3> QED BY <1>0, <3>1 DEF Types
  <2> QED BY <2>1, <2>2, <2>3 DEF PeerNext
<1>3. /\ k' \in Conn /\ k'.reg = k.reg /\ k'.shut = k.shut /\ k'.evt = k.evt
      /\ k'.interest = k.interest /\ k'.progress = k.progress /\ k'.wcache = k.wcache
      /\ k'.status = k.status /\ (k'.err => k.err \/ net'.rst)
  <2>1. CASE k' = k
    BY <1>0, <2>1 DEF Types
  <2>2. CASE PeerResets
    <3>1. k' = [k EXCEPT !.err = TRUE] /\ net' = [net EXCEPT !.rst = TRUE]
      BY <2>2 DEF PeerResets
    <3> QED BY <1>0, <3>1 DEF Types, Conn
  <2> QED BY <2>1, <2>2 DEF PeerNext, PeerSends, PeerCloses
<1>4. Types'
  BY <1>0, <1>1, <1>2, <1>3 DEF Types
<1>5. BeforeAdd' /\ UpdateSafe' /\ Registered' /\ Armed'
  BY <1>0, <1>1, <1>3 DEF Safe, BeforeAdd, UpdateSafe, UpdateDue, Registered, Armed, Pending
<1>6. Early' /\ ErrorIsReset'
  BY <1>0, <1>1, <1>2, <1>3 DEF Safe, Early, ErrorIsReset, Pending
<1>7. EndsCause'
  BY <1>0, <1>1, <1>2, <1>3 DEF EndsCause
<1>8. Clean'
  BY <1>0, <1>1, <1>2, <1>3 DEF Clean, connected
<1> QED BY <1>4, <1>5, <1>6, <1>7, <1>8 DEF IInv
-------------------------------------------------------------------------------
(* The theorems.                                                           *)

\* A connection that start() has not touched.
LEMMA InitSafe == Init => IInv
<1> SUFFICES ASSUME Init PROVE IInv
  OBVIOUS
<1>1. MaxIn \in Nat /\ MaxAsked \in Nat
  BY ConnectionAssumption
<1>2. /\ <<>> \in Seq(Byte) /\ <<>> \in Seq(TaskSet)
      /\ [t \in Callers |-> 0] \in [Callers -> 0 .. MaxAsked]
  BY <1>1
<1>3. /\ k \in Conn /\ k.evt = {} /\ ~k.progress /\ k.wcache = <<>> /\ ~k.reg /\ k.interest = {}
      /\ ~k.err
  BY <1>2 DEF Init, Conn, Status
<1>4. /\ net \in [inq : 0 .. MaxIn, sent : 0 .. MaxIn, fin : BOOLEAN, rst : BOOLEAN]
      /\ net.inq <= net.sent /\ ~net.fin /\ ~net.rst
  BY <1>1 DEF Init
<1>5. /\ tasks = <<>> /\ ntask = 0 /\ lpc = "poll" /\ ret = "poll" /\ apc = "join" /\ snap = {}
      /\ inmap /\ ~ref /\ closed = 0 /\ ~late /\ ~overwrote /\ ~early
  BY DEF Init
<1>6. /\ inmap \in BOOLEAN /\ ref \in BOOLEAN /\ late \in BOOLEAN /\ overwrote \in BOOLEAN
      /\ early \in BOOLEAN
  BY DEF Init
<1>7. Types
  BY <1>2, <1>3, <1>4, <1>5, <1>6 DEF Types
<1>8. Safe
  BY <1>3, <1>5 DEF Safe, BeforeAdd, Early, ErrorIsReset, Registered, Armed, UpdateSafe, Pending,
     Serving
<1>9. EndsCause /\ Clean
  BY <1>4, <1>5 DEF EndsCause, Clean, Closing, Serving
<1> QED BY <1>7, <1>8, <1>9 DEF IInv, Safe

\* The inductive invariant holds in every reachable state.
THEOREM IInvHolds == Spec => []IInv
<1>1. Init => IInv
  BY InitSafe
<1>2. IInv /\ [Next]_vars => IInv'
  <2> SUFFICES ASSUME IInv, [Next]_vars PROVE IInv'
    OBVIOUS
  <2>1. CASE StartNext
    BY <2>1, JoinSafe, QueueingSafe, EnableReadSafe, SetConnectedSafe DEF StartNext
  <2>2. CASE RemoteNext \/ PeerNext
    BY <2>2, RemoteSafe, PeerSafe
  <2>3. CASE LoopNext
    <3>1. \A r \in {EAGAIN, ERROR} \cup 0 .. Len(k.wcache) : r \in Int
      BY DEF EAGAIN, ERROR
    <3> QED BY <2>3, <3>1, PollSafe, RoundSafe, TestsSafe, HandlersSafe, CloseSafe,
            CloseConnSafe, RemoveSafe, HandleWriteSafe, AddSafe, TasksSafe DEF LoopNext
  <2>4. CASE UNCHANGED vars
    <3>1. UNCHANGED <<k, net, tasks, ntask, lpc, ret, apc, snap, inmap, ref, closed, late, overwrote, early>>
      BY <2>4 DEF vars
    <3>2. Types' /\ EndsCause' /\ Clean'
      BY <3>1 DEF IInv, Types, EndsCause, Clean, connected
    <3>3. BeforeAdd' /\ Early' /\ ErrorIsReset' /\ Registered' /\ Armed' /\ UpdateSafe'
      BY <3>1 DEF IInv, BeforeAdd, Early, ErrorIsReset, Registered, Armed, UpdateSafe, UpdateDue,
         Pending
    <3> QED BY <3>2, <3>3 DEF IInv
  <2> QED BY <2>1, <2>2, <2>3, <2>4 DEF Next
<1> QED BY <1>1, <1>2, PTL DEF Spec

\* The variables of a connection keep their ranges, for messages of any length.
THEOREM TypeCorrect == Spec => []TypeOK
<1>1. IInv => TypeOK
  <2> SUFFICES ASSUME IInv PROVE TypeOK
    OBVIOUS
  <2>1. Types /\ k \in Conn
    BY DEF IInv, Types
  <2>2. k.wcache \o k.wire \in Seq(Byte)
    BY <2>1, ConcatProperties DEF Conn
  <2> QED BY <2>1, <2>2 DEF TypeOK, Types, Conn, Byte, Status, Serving
<1> QED BY <1>1, IInvHolds, PTL

\* A channel that epoll reports has an owner: the map holds it.
THEOREM WatchedIsOwned == Spec => []WatchedAlive
<1>1. IInv => WatchedAlive
  BY DEF IInv, Registered, WatchedAlive, Alive
<1> QED BY <1>1, IInvHolds, PTL

\* Whatever sends do and whoever writes, bytes that wait are asked for, unless a wait
\* overwrote the flags while the update of start() was due.
THEOREM BacklogIsArmed == Spec => []BacklogArmed
<1>1. IInv => BacklogArmed
  BY DEF IInv, Armed, BacklogArmed, Pending, Closing
<1> QED BY <1>1, IInvHolds, PTL

\* No handler is called after the close callback, unless the peer ended the
\* connection inside start().
THEOREM NoLateHandler == Spec => []NoHandlerAfterClose
<1>1. IInv => NoHandlerAfterClose
  BY DEF IInv, Clean, NoHandlerAfterClose
<1> QED BY <1>1, IInvHolds, PTL
-------------------------------------------------------------------------------
(* The stream.  Without partial sends, and with a buffer of its own for    *)
(* every write() from outside, the bytes of each thread reach the kernel   *)
(* in order.  What is sent, what waits and what is in tasks are ranges of  *)
(* the numbers of each thread that follow each other: a range is given by  *)
(* how far each thread has got before it and after it.                     *)

\* The thread that wrote the byte at i, and its number.
Who(s, i) == s[i][1]
Num(s, i) == s[i][2]

\* How far each thread has got.
Counts == [Callers -> 0 .. MaxAsked]
Zero == [t \in Callers |-> 0]

\* s has of t the bytes after f up to g, in order.
CarriesOf(s, t, f, g) ==
  /\ f <= g
  /\ \A i \in DOMAIN s : Who(s, i) = t => f < Num(s, i) /\ Num(s, i) <= g
  /\ \A i, j \in DOMAIN s : i < j /\ Who(s, i) = t /\ Who(s, j) = t => Num(s, i) < Num(s, j)
  /\ \A n \in 1 .. MaxAsked : f < n /\ n <= g => \E i \in DOMAIN s : Who(s, i) = t /\ Num(s, i) = n

\* The same for every thread.
Carries(s, f, g) == \A t \in Callers : CarriesOf(s, t, f[t], g[t])

\* The i-th task writes; its bytes follow the number First, one by one.
IsWrite(q, i) == q[i].op = "write"
First(q, i) == Num(q[i].data, 1) - 1
IsChunk(q, i) == \A n \in 1 .. MsgLen : /\ Who(q[i].data, n) = "user"
                                       /\ Num(q[i].data, n) = First(q, i) + n

\* The write tasks in q have the user's bytes after w up to u, in order.
Waits(q, w, u) ==
  /\ w <= u
  /\ \A i \in DOMAIN q : IsWrite(q, i) => IsChunk(q, i) /\ w <= First(q, i) /\ First(q, i) + MsgLen <= u
  /\ \A i, j \in DOMAIN q : i < j /\ IsWrite(q, i) /\ IsWrite(q, j) => First(q, i) + MsgLen <= First(q, j)
  /\ \A n \in 1 .. MaxAsked : w < n /\ n <= u =>
       \E i \in DOMAIN q : IsWrite(q, i) /\ First(q, i) < n /\ n <= First(q, i) + MsgLen

\* Nothing more can be sent.
Cut(c, rst) == c.shut \/ rst

\* What is sent is a beginning; unless nothing more can be sent, what waits comes
\* next, up to kept.
Flow(c, cut, kept) ==
  \E sent \in Counts :
    /\ Carries(c.wire, Zero, sent)
    /\ \A t \in Callers : sent[t] <= c.asked[t]
    /\ ~cut => Carries(c.wcache, sent, kept)

\* All that the loop has written is sent or waits, and of the user's bytes w.
Flows(c, rst, w) ==
  \E kept \in Counts :
    /\ Flow(c, Cut(c, rst), kept)
    /\ ~Cut(c, rst) => kept["loop"] = c.asked["loop"] /\ kept["user"] = w /\ w <= c.asked["user"]

\* The invariant of the stream.
SInv ==
  \E w \in 0 .. MaxAsked :
    /\ Flows(k, net.rst, w)
    /\ ~Cut(k, net.rst) => Waits(tasks, w, k.asked["user"])

\* The connection is deleted; what was sent is a beginning.
Dead == ~Alive /\ \E w \in 0 .. MaxAsked : Flows(k, TRUE, w)

\* Ranges that follow each other make one range.
LEMMA RangesJoin ==
  ASSUME NEW S, NEW a \in Seq(S), NEW b \in Seq(S), NEW t,
         NEW f \in Nat, NEW g \in Nat, NEW h \in Nat,
         \A i \in DOMAIN a : Num(a, i) \in Nat, \A i \in DOMAIN b : Num(b, i) \in Nat,
         CarriesOf(a, t, f, g), CarriesOf(b, t, g, h)
  PROVE  CarriesOf(a \o b, t, f, h)
<1> DEFINE m == Len(a)
           l == Len(b)
           c == a \o b
<1>1. m \in Nat /\ l \in Nat /\ DOMAIN a = 1 .. m /\ DOMAIN b = 1 .. l
  BY LenProperties
<1>2. /\ c \in Seq(S) /\ Len(c) = m + l
      /\ \A i \in 1 .. m + l : c[i] = IF i <= m THEN a[i] ELSE b[i - m]
  BY ConcatProperties
<1>3. DOMAIN c = 1 .. m + l
  BY <1>2, LenProperties
<1> HIDE DEF c
<1>4. \A i \in 1 .. m : i \in 1 .. m + l /\ Who(c, i) = Who(a, i) /\ Num(c, i) = Num(a, i)
  BY <1>1, <1>2 DEF Who, Num
<1>5. \A i \in 1 .. m + l : ~(i <= m) => /\ i - m \in 1 .. l
                                       /\ Who(c, i) = Who(b, i - m) /\ Num(c, i) = Num(b, i - m)
  BY <1>1, <1>2 DEF Who, Num
<1>6. \A i \in 1 .. l : /\ i + m \in 1 .. m + l /\ ~(i + m <= m)
                        /\ Who(c, i + m) = Who(b, i) /\ Num(c, i + m) = Num(b, i)
  <2> TAKE i \in 1 .. l
  <2>1. i + m \in 1 .. m + l /\ ~(i + m <= m) /\ (i + m) - m = i
    BY <1>1
  <2> QED BY <1>5, <2>1
<1> HIDE DEF m, l
<1>7. f <= h /\ f <= g /\ g <= h
  BY DEF CarriesOf
<1>8. \A i \in 1 .. m + l : Who(c, i) = t => f < Num(c, i) /\ Num(c, i) <= h
  <2> SUFFICES ASSUME NEW i \in 1 .. m + l, Who(c, i) = t PROVE f < Num(c, i) /\ Num(c, i) <= h
    OBVIOUS
  <2>1. CASE i <= m
    <3>1. i \in 1 .. m
      BY <1>1, <2>1
    <3>2. f < Num(a, i) /\ Num(a, i) <= g /\ Num(a, i) \in Nat
      BY <1>1, <1>4, <3>1 DEF CarriesOf
    <3> QED BY <1>4, <1>7, <3>1, <3>2
  <2>2. CASE ~(i <= m)
    <3>1. g < Num(b, i - m) /\ Num(b, i - m) <= h /\ Num(b, i - m) \in Nat
      BY <1>1, <1>5, <2>2 DEF CarriesOf
    <3> QED BY <1>5, <1>7, <2>2, <3>1
  <2> QED BY <2>1, <2>2
<1>9. \A i, j \in 1 .. m + l : i < j /\ Who(c, i) = t /\ Who(c, j) = t => Num(c, i) < Num(c, j)
  <2> SUFFICES ASSUME NEW i \in 1 .. m + l, NEW j \in 1 .. m + l, i < j, Who(c, i) = t, Who(c, j) = t
               PROVE  Num(c, i) < Num(c, j)
    OBVIOUS
  <2>1. CASE j <= m
    <3>1. i \in 1 .. m /\ j \in 1 .. m
      BY <1>1, <2>1
    <3> QED BY <1>1, <1>4, <3>1 DEF CarriesOf
  <2>2. CASE ~(j <= m) /\ i <= m
    <3>1. i \in 1 .. m
      BY <1>1, <2>2
    <3>2. Num(a, i) <= g /\ Num(a, i) \in Nat
      BY <1>1, <1>4, <3>1 DEF CarriesOf
    <3>3. g < Num(b, j - m) /\ Num(b, j - m) \in Nat
      BY <1>1, <1>5, <2>2 DEF CarriesOf
    <3> QED BY <1>4, <1>5, <2>2, <3>1, <3>2, <3>3
  <2>3. CASE ~(j <= m) /\ ~(i <= m)
    <3>1. i - m \in 1 .. l /\ j - m \in 1 .. l /\ i - m < j - m
      BY <1>1, <1>5, <2>3
    <3>2. Who(b, i - m) = t /\ Who(b, j - m) = t
      BY <1>5, <2>3
    <3>3. Num(b, i - m) < Num(b, j - m)
      BY <1>1, <3>1, <3>2 DEF CarriesOf
    <3> QED BY <1>5, <2>3, <3>3
  <2> QED BY <2>1, <2>2, <2>3
<1>10. ASSUME NEW n \in 1 .. MaxAsked, f < n, n <= h
       PROVE  \E i \in 1 .. m + l : Who(c, i) = t /\ Num(c, i) = n
  <2>0. n \in Nat
    BY ConnectionAssumption
  <2>1. CASE n <= g
    <3>1. PICK i \in 1 .. m : Who(a, i) = t /\ Num(a, i) = n
      BY <1>1, <1>10, <2>1 DEF CarriesOf
    <3> QED BY <1>4, <3>1
  <2>2. CASE ~(n <= g)
    <3>1. g < n
      BY <2>0, <2>2
    <3>2. PICK i \in 1 .. l : Who(b, i) = t /\ Num(b, i) = n
      BY <1>1, <1>10, <3>1 DEF CarriesOf
    <3> QED BY <1>6, <3>2
  <2> QED BY <2>1, <2>2
<1>11. CarriesOf(c, t, f, h)
  BY <1>3, <1>7, <1>8, <1>9, <1>10 DEF CarriesOf
<1> QED BY <1>11 DEF c

\* The same for every thread, of bytes.
LEMMA CarriesJoin ==
  ASSUME NEW a \in Seq(Byte), NEW b \in Seq(Byte), NEW f \in Counts, NEW g \in Counts,
         NEW h \in Counts, Carries(a, f, g), Carries(b, g, h)
  PROVE  Carries(a \o b, f, h)
<1>1. \A s \in Seq(Byte) : \A i \in DOMAIN s : Num(s, i) \in Nat
  <2> SUFFICES ASSUME NEW s \in Seq(Byte), NEW i \in DOMAIN s PROVE s[i][2] \in Nat
    BY DEF Num
  <2>1. s[i] \in Byte
    BY ElementOfSeq, LenProperties
  <2> QED BY <2>1, ConnectionAssumption DEF Byte
<1>2. \A t \in Callers : f[t] \in Nat /\ g[t] \in Nat /\ h[t] \in Nat
  BY ConnectionAssumption DEF Counts
<1>3. \A t \in Callers : CarriesOf(a \o b, t, f[t], h[t])
  <2> TAKE t \in Callers
  <2>1. CarriesOf(a, t, f[t], g[t]) /\ CarriesOf(b, t, g[t], h[t])
    BY DEF Carries
  <2> QED BY <1>1, <1>2, <2>1, RangesJoin
<1> QED BY <1>3 DEF Carries

\* No bytes are an empty range.
LEMMA CarriesNone == ASSUME NEW f \in Counts PROVE Carries(<<>>, f, f)
<1>1. \A t \in Callers : f[t] \in Nat /\ \A n \in 1 .. MaxAsked : n \in Nat
  BY ConnectionAssumption DEF Counts
<1>2. DOMAIN <<>> = {}
  OBVIOUS
<1> QED BY <1>1, <1>2 DEF Carries, CarriesOf

\* A message of t whose numbers follow w is the range up to w + MsgLen.
LEMMA MessageCarries ==
  ASSUME NEW d \in Msg, NEW u \in Callers, NEW f \in Counts, NEW g, f[u] + MsgLen <= MaxAsked,
         g = [f EXCEPT ![u] = @ + MsgLen],
         \A n \in 1 .. MsgLen : Who(d, n) = u /\ Num(d, n) = f[u] + n
  PROVE  g \in Counts /\ Carries(d, f, g)
<1>1. MsgLen \in Nat /\ MaxAsked \in Nat /\ \A t \in Callers : f[t] \in 0 .. MaxAsked
  BY ConnectionAssumption DEF Counts
<1>2. f[u] + MsgLen \in 0 .. MaxAsked
  BY <1>1
<1>3. g \in Counts /\ g[u] = f[u] + MsgLen /\ \A t \in Callers : t # u => g[t] = f[t]
  BY <1>2 DEF Counts
<1>4. DOMAIN d = 1 .. MsgLen
  BY LenProperties DEF Msg
<1>5. CarriesOf(d, u, f[u], g[u])
  <2> DEFINE a == f[u]
  <2>1. a \in Nat /\ g[u] = a + MsgLen /\ \A n \in 1 .. MsgLen : Who(d, n) = u /\ Num(d, n) = a + n
    BY <1>1, <1>3
  <2> HIDE DEF a
  <2>2. \A n \in 1 .. MaxAsked : a < n /\ n <= a + MsgLen => n - a \in 1 .. MsgLen /\ a + (n - a) = n
    BY <1>1, <2>1
  <2>3. \A n \in 1 .. MaxAsked : a < n /\ n <= a + MsgLen =>
          \E i \in 1 .. MsgLen : Who(d, i) = u /\ Num(d, i) = n
    BY <2>1, <2>2
  <2>4. /\ a <= a + MsgLen
        /\ \A i \in 1 .. MsgLen : a < Num(d, i) /\ Num(d, i) <= a + MsgLen
        /\ \A i, j \in 1 .. MsgLen : i < j => Num(d, i) < Num(d, j)
    BY <1>1, <2>1
  <2>5. CarriesOf(d, u, a, a + MsgLen)
    BY <1>4, <2>3, <2>4 DEF CarriesOf
  <2> QED BY <2>1, <2>5 DEF a
<1>6. ASSUME NEW t \in Callers, t # u PROVE CarriesOf(d, t, f[t], g[t])
  <2> DEFINE a == f[t]
  <2>1. a \in Nat /\ g[t] = a /\ \A n \in 1 .. MsgLen : Who(d, n) # t
    BY <1>1, <1>3, <1>6
  <2> HIDE DEF a
  <2>2. CarriesOf(d, t, a, a)
    <3>1. a <= a /\ \A n \in 1 .. MaxAsked : ~(a < n /\ n <= a)
      BY <1>1, <2>1
    <3> QED BY <1>4, <2>1, <3>1 DEF CarriesOf
  <2> QED BY <2>1, <2>2 DEF a
<1>7. Carries(d, f, g)
  BY <1>5, <1>6 DEF Carries
<1> QED BY <1>3, <1>7

\* The first number of a write task is a number.
LEMMA FirstNumber ==
  ASSUME NEW q \in Seq(TaskSet), NEW i \in DOMAIN q, IsWrite(q, i)
  PROVE  First(q, i) \in Nat /\ q[i].data \in Msg
<1>1. q[i] \in TaskSet
  BY ElementOfSeq, LenProperties
<1>2. q[i].data \in Msg
  BY <1>1 DEF IsWrite, TaskSet
<1>3. q[i].data \in Seq(Byte) /\ Len(q[i].data) = MsgLen /\ MsgLen \in Nat /\ MsgLen >= 1
  BY <1>2, ConnectionAssumption DEF Msg
<1>4. q[i].data[1] \in Byte
  BY <1>3, ElementOfSeq
<1> QED BY <1>2, <1>4, ConnectionAssumption DEF First, Num, Byte

\* A task that writes nothing is run.
LEMMA OtherRuns ==
  ASSUME Types, NextTask, ~IsWrite(tasks, 1), NEW w, NEW u, Waits(tasks, w, u)
  PROVE  Waits(tasks', w, u)
<1>0. Len(tasks) \in Nat /\ DOMAIN tasks = 1 .. Len(tasks)
  BY LenProperties DEF Types
<1>1. /\ \A i \in DOMAIN tasks' : /\ i \in Nat \ {0} /\ i + 1 \in DOMAIN tasks
                                  /\ tasks'[i] = tasks[i + 1]
  BY TailFacts
<1>2. \A i \in DOMAIN tasks : i # 1 => i - 1 \in DOMAIN tasks' /\ (i - 1) + 1 = i
  <2>1. tasks \in Seq(TaskSet) /\ tasks # <<>> /\ tasks' = Tail(tasks)
    BY TailFacts DEF Types, NextTask
  <2>2. DOMAIN tasks' = 1 .. Len(tasks) - 1
    BY <2>1, HeadTailProperties, LenProperties
  <2> QED BY <1>0, <2>2
<1>3. \A i \in DOMAIN tasks' : /\ IsWrite(tasks', i) <=> IsWrite(tasks, i + 1)
                               /\ First(tasks', i) = First(tasks, i + 1)
                               /\ IsChunk(tasks', i) <=> IsChunk(tasks, i + 1)
  BY <1>1 DEF IsWrite, First, IsChunk
<1>4. \A i, j \in DOMAIN tasks' : i < j => i + 1 < j + 1
  BY <1>1
<1> QED BY <1>1, <1>2, <1>3, <1>4 DEF Waits

\* A write task is run: it has the next bytes.
LEMMA WriteRuns ==
  ASSUME Types, NextTask, IsWrite(tasks, 1), NEW w \in Nat, NEW u \in 0 .. MaxAsked,
         Waits(tasks, w, u)
  PROVE  Waits(tasks', w + MsgLen, u) /\ First(tasks, 1) = w /\ IsChunk(tasks, 1)
<1>0. /\ Len(tasks) \in Nat /\ DOMAIN tasks = 1 .. Len(tasks) /\ tasks \in Seq(TaskSet)
      /\ MsgLen \in Nat /\ MsgLen >= 1 /\ u \in Nat /\ u <= MaxAsked
  BY LenProperties, ConnectionAssumption DEF Types
<1>1. /\ 1 \in DOMAIN tasks
      /\ \A i \in DOMAIN tasks' : /\ i \in Nat \ {0} /\ i + 1 \in DOMAIN tasks
                                  /\ tasks'[i] = tasks[i + 1]
  BY TailFacts
<1>2. \A i \in DOMAIN tasks : i # 1 => i - 1 \in DOMAIN tasks' /\ (i - 1) + 1 = i /\ 1 < i
  <2>1. tasks \in Seq(TaskSet) /\ tasks # <<>> /\ tasks' = Tail(tasks)
    BY TailFacts DEF Types, NextTask
  <2>2. DOMAIN tasks' = 1 .. Len(tasks) - 1
    BY <2>1, HeadTailProperties, LenProperties
  <2> QED BY <1>0, <2>2
<1>3. \A i \in DOMAIN tasks' : /\ IsWrite(tasks', i) <=> IsWrite(tasks, i + 1)
                               /\ First(tasks', i) = First(tasks, i + 1)
                               /\ IsChunk(tasks', i) <=> IsChunk(tasks, i + 1)
  BY <1>1 DEF IsWrite, First, IsChunk
<1>4. \A i, j \in DOMAIN tasks' : (i < j => i + 1 < j + 1) /\ 1 < i + 1
  BY <1>1
<1>5. \A i \in DOMAIN tasks : IsWrite(tasks, i) => First(tasks, i) \in Nat
  BY <1>0, FirstNumber
<1>6. /\ IsChunk(tasks, 1) /\ w <= First(tasks, 1) /\ First(tasks, 1) + MsgLen <= u
  BY <1>1 DEF Waits
<1>7. First(tasks, 1) = w
  <2>0. First(tasks, 1) \in Nat /\ MaxAsked \in Nat
    BY <1>1, <1>5, ConnectionAssumption
  <2>1. w + 1 \in 1 .. MaxAsked /\ w < w + 1 /\ w + 1 <= u
    BY <1>0, <1>6, <2>0
  <2>2. PICK i \in DOMAIN tasks : IsWrite(tasks, i) /\ First(tasks, i) < w + 1
    BY <2>1 DEF Waits
  <2>3. CASE i = 1
    BY <1>1, <1>5, <1>6, <2>2, <2>3
  <2>4. CASE i # 1
    <3>1. First(tasks, 1) + MsgLen <= First(tasks, i)
      BY <1>1, <1>2, <2>2, <2>4 DEF Waits
    <3> QED BY <1>0, <1>1, <1>5, <1>6, <2>2, <3>1
  <2> QED BY <2>3, <2>4
<1>8. \A i \in DOMAIN tasks' : IsWrite(tasks', i) =>
        IsChunk(tasks', i) /\ w + MsgLen <= First(tasks', i) /\ First(tasks', i) + MsgLen <= u
  <2> SUFFICES ASSUME NEW i \in DOMAIN tasks', IsWrite(tasks', i)
               PROVE  /\ IsChunk(tasks', i) /\ w + MsgLen <= First(tasks', i)
                      /\ First(tasks', i) + MsgLen <= u
    OBVIOUS
  <2>1. i + 1 \in DOMAIN tasks /\ IsWrite(tasks, i + 1) /\ 1 < i + 1
    BY <1>1, <1>3, <1>4
  <2>2. First(tasks, 1) + MsgLen <= First(tasks, i + 1)
    BY <1>1, <2>1 DEF Waits
  <2>3. IsChunk(tasks, i + 1) /\ First(tasks, i + 1) + MsgLen <= u
    BY <2>1 DEF Waits
  <2> QED BY <1>3, <1>7, <2>2, <2>3
<1>9. \A i, j \in DOMAIN tasks' : i < j /\ IsWrite(tasks', i) /\ IsWrite(tasks', j) =>
        First(tasks', i) + MsgLen <= First(tasks', j)
  BY <1>1, <1>3, <1>4 DEF Waits
<1>10. ASSUME NEW n \in 1 .. MaxAsked, w + MsgLen < n, n <= u
       PROVE  \E i \in DOMAIN tasks' : /\ IsWrite(tasks', i) /\ First(tasks', i) < n
                                       /\ n <= First(tasks', i) + MsgLen
  <2>1. w < n /\ n \in Nat
    BY <1>0, <1>10
  <2>2. PICK i \in DOMAIN tasks : IsWrite(tasks, i) /\ First(tasks, i) < n /\ n <= First(tasks, i) + MsgLen
    BY <1>10, <2>1 DEF Waits
  <2>3. i # 1
    BY <1>0, <1>7, <1>10, <2>1, <2>2
  <2>4. i - 1 \in DOMAIN tasks' /\ (i - 1) + 1 = i
    BY <1>2, <2>3
  <2> QED BY <1>3, <2>2, <2>4
<1>11. w + MsgLen <= u
  BY <1>6, <1>7
<1> QED BY <1>6, <1>7, <1>8, <1>9, <1>10, <1>11 DEF Waits

\* A task that writes nothing is queued.
LEMMA OtherQueued ==
  ASSUME Types, NEW e \in TaskSet, e.op # "write", tasks' = Append(tasks, e), NEW w, NEW u,
         Waits(tasks, w, u)
  PROVE  Waits(tasks', w, u)
<1>1. /\ DOMAIN tasks = 1 .. Len(tasks) /\ Len(tasks) \in Nat
      /\ DOMAIN tasks' = 1 .. Len(tasks) + 1 /\ tasks'[Len(tasks) + 1] = e
      /\ \A i \in DOMAIN tasks : tasks'[i] = tasks[i]
  BY AppendFacts
<1>2. \A i \in DOMAIN tasks' : IsWrite(tasks', i) => i \in DOMAIN tasks
  BY <1>1 DEF IsWrite
<1>3. \A i \in DOMAIN tasks : /\ i \in DOMAIN tasks'
                              /\ IsWrite(tasks', i) <=> IsWrite(tasks, i)
                              /\ First(tasks', i) = First(tasks, i)
                              /\ IsChunk(tasks', i) <=> IsChunk(tasks, i)
  BY <1>1 DEF IsWrite, First, IsChunk
<1> QED BY <1>2, <1>3 DEF Waits

\* A write of the user's thread is queued.
LEMMA WriteQueued ==
  ASSUME Types, NEW d \in Msg, tasks' = Append(tasks, [op |-> "write", data |-> d]),
         NEW w \in Nat, NEW u \in Nat, Waits(tasks, w, u),
         \A n \in 1 .. MsgLen : Who(d, n) = "user" /\ Num(d, n) = u + n
  PROVE  Waits(tasks', w, u + MsgLen)
<1> DEFINE m == Len(tasks) + 1
<1>0. MsgLen \in Nat /\ MsgLen >= 1 /\ tasks \in Seq(TaskSet)
  BY ConnectionAssumption DEF Types
<1>1. /\ DOMAIN tasks = 1 .. Len(tasks) /\ Len(tasks) \in Nat
      /\ DOMAIN tasks' = 1 .. m /\ tasks'[m] = [op |-> "write", data |-> d]
      /\ \A i \in DOMAIN tasks : tasks'[i] = tasks[i]
  <2>1. [op |-> "write", data |-> d] \in TaskSet
    BY DEF TaskSet
  <2> QED BY <2>1, AppendFacts
<1>2. \A i \in DOMAIN tasks : /\ i \in DOMAIN tasks' /\ i < m
                              /\ IsWrite(tasks', i) <=> IsWrite(tasks, i)
                              /\ First(tasks', i) = First(tasks, i)
                              /\ IsChunk(tasks', i) <=> IsChunk(tasks, i)
  BY <1>1 DEF IsWrite, First, IsChunk
<1>3. IsWrite(tasks', m) /\ First(tasks', m) = u /\ IsChunk(tasks', m) /\ m \in DOMAIN tasks'
  <2>1. tasks'[m].op = "write" /\ tasks'[m].data = d
    BY <1>1
  <2>2. Num(d, 1) - 1 = u
    BY <1>0
  <2> QED BY <1>1, <2>1, <2>2 DEF IsWrite, First, IsChunk
<1>4. \A i \in DOMAIN tasks' : (i \in DOMAIN tasks \/ i = m) /\ (\A j \in DOMAIN tasks' : i < j => i \in DOMAIN tasks)
  BY <1>1
<1>5. \A i \in DOMAIN tasks : IsWrite(tasks, i) => First(tasks, i) \in Nat
  BY <1>0, FirstNumber
<1> HIDE DEF m
<1>6. w <= u + MsgLen /\ w <= u
  BY <1>0 DEF Waits
<1>7. \A i \in DOMAIN tasks : IsWrite(tasks, i) =>
        /\ IsChunk(tasks, i) /\ w <= First(tasks, i) /\ First(tasks, i) + MsgLen <= u
        /\ First(tasks, i) + MsgLen <= u + MsgLen
  BY <1>0, <1>5 DEF Waits
<1>8. \A i \in DOMAIN tasks' : IsWrite(tasks', i) =>
        IsChunk(tasks', i) /\ w <= First(tasks', i) /\ First(tasks', i) + MsgLen <= u + MsgLen
  <2> SUFFICES ASSUME NEW i \in DOMAIN tasks', IsWrite(tasks', i)
               PROVE  /\ IsChunk(tasks', i) /\ w <= First(tasks', i)
                      /\ First(tasks', i) + MsgLen <= u + MsgLen
    OBVIOUS
  <2>1. CASE i = m
    BY <1>0, <1>3, <1>6, <2>1
  <2>2. CASE i \in DOMAIN tasks
    BY <1>2, <1>7, <2>2
  <2> QED BY <1>4, <2>1, <2>2
<1>9. \A i, j \in DOMAIN tasks' : i < j /\ IsWrite(tasks', i) /\ IsWrite(tasks', j) =>
        First(tasks', i) + MsgLen <= First(tasks', j)
  <2> SUFFICES ASSUME NEW i \in DOMAIN tasks', NEW j \in DOMAIN tasks', i < j,
                      IsWrite(tasks', i), IsWrite(tasks', j)
               PROVE  First(tasks', i) + MsgLen <= First(tasks', j)
    OBVIOUS
  <2>1. i \in DOMAIN tasks /\ IsWrite(tasks, i)
    BY <1>2, <1>4
  <2>2. CASE j = m
    BY <1>2, <1>3, <1>7, <2>1, <2>2
  <2>3. CASE j \in DOMAIN tasks
    <3>1. First(tasks, i) + MsgLen <= First(tasks, j)
      BY <1>2, <2>1, <2>3 DEF Waits
    <3> QED BY <1>2, <2>1, <2>3, <3>1
  <2> QED BY <1>4, <2>2, <2>3
<1>10. ASSUME NEW n \in 1 .. MaxAsked, w < n, n <= u + MsgLen
       PROVE  \E i \in DOMAIN tasks' : /\ IsWrite(tasks', i) /\ First(tasks', i) < n
                                       /\ n <= First(tasks', i) + MsgLen
  <2>0. n \in Nat
    BY ConnectionAssumption
  <2>1. CASE n <= u
    <3>1. PICK i \in DOMAIN tasks : IsWrite(tasks, i) /\ First(tasks, i) < n /\ n <= First(tasks, i) + MsgLen
      BY <1>10, <2>1 DEF Waits
    <3> QED BY <1>2, <3>1
  <2>2. CASE ~(n <= u)
    BY <1>3, <1>10, <2>0, <2>2
  <2> QED BY <2>1, <2>2
<1> QED BY <1>6, <1>8, <1>9, <1>10 DEF Waits


\* d has sent and keeps what c has, for the same writes.
SameStream(c, d) ==
  d.wire = c.wire /\ d.wcache = c.wcache /\ d.asked = c.asked /\ d.shut = c.shut

\* enable_write(true) is about the flags alone.
LEMMA EnableWriteSame == ASSUME NEW c \in Conn PROVE SameStream(c, enable_write(c, TRUE))
<1>1. CASE c.progress
  BY <1>1 DEF enable_write, SameStream
<1>2. CASE ~c.progress
  <2> DEFINE a == [c EXCEPT !.evt = @ \cup {"OUT"}]
             b == update_evt_code(a)
             d == [b EXCEPT !.progress = TRUE]
  <2>1. a \in Conn /\ SameStream(c, a)
    BY DEF Conn, Flags, SameStream
  <2>2. b \in Conn /\ SameStream(a, b)
    BY <2>1 DEF Conn, update_evt_code, SameStream
  <2>3. SameStream(b, d)
    BY <2>2 DEF Conn, SameStream
  <2>4. enable_write(c, TRUE) = d
    BY <1>2 DEF enable_write
  <2> HIDE DEF a, b, d
  <2> QED BY <2>1, <2>2, <2>3, <2>4 DEF SameStream
<1> QED BY <1>1, <1>2

\* handle_close() too.
LEMMA CloseSame == ASSUME NEW c \in Conn PROVE SameStream(c, handle_close(c))
<1> DEFINE s == [c EXCEPT !.status = "kDisconnect"]
           e == [s EXCEPT !.evt = @ \cap ReadFlags]
           a == update_evt_code(e)
           f == [a EXCEPT !.evt = @ \cap {"OUT"}]
           b == update_evt_code(f)
           d == [b EXCEPT !.progress = FALSE]
<1>1. s \in Conn /\ SameStream(c, s)
  BY DEF Conn, Status, SameStream
<1> HIDE DEF s
<1>2. e \in Conn /\ SameStream(s, e)
  BY <1>1 DEF Conn, SameStream
<1> HIDE DEF e
<1>3. a \in Conn /\ SameStream(e, a)
  BY <1>2 DEF Conn, update_evt_code, SameStream
<1> HIDE DEF a
<1>4. f \in Conn /\ SameStream(a, f)
  BY <1>3 DEF Conn, SameStream
<1> HIDE DEF f
<1>5. b \in Conn /\ SameStream(f, b)
  BY <1>4 DEF Conn, update_evt_code, SameStream
<1> HIDE DEF b
<1>6. SameStream(b, d)
  BY <1>5 DEF Conn, SameStream
<1>7. handle_close(c) = d
  BY DEF handle_close, enable_read, enable_write, s, e, a, f, b
<1> HIDE DEF d
<1> QED BY <1>1, <1>2, <1>3, <1>4, <1>5, <1>6, <1>7 DEF SameStream

\* What a write of data does: all of it waits behind the backlog, or all of it is
\* sent where there is no backlog, or nothing can be sent.
Streamed(c, d, data) ==
  /\ d.asked = c.asked /\ d.shut = c.shut
  /\ \/ Cut(c, net.rst) /\ d.wire = c.wire
     \/ d.wire = c.wire /\ d.wcache = c.wcache \o data
     \/ ~Cut(c, net.rst) /\ c.wcache = <<>> /\ d.wcache = <<>> /\ d.wire = c.wire \o data

\* write_in_loop() where send() takes all or nothing.
LEMMA WriteStreamed ==
  ASSUME "part" \notin SendOutcomes, NEW c \in Conn, NEW data \in Msg, NEW r \in SendResults(c, MsgLen)
  PROVE  Streamed(c, write_in_loop(c, data, r), data)
<1>0. data \in Seq(Byte) /\ Len(data) = MsgLen /\ MsgLen \in Nat /\ MsgLen >= 1
  BY ConnectionAssumption DEF Msg
<1>1. /\ r = ERROR <=> c.shut \/ net.rst
      /\ r # ERROR /\ r # EAGAIN => r = MsgLen
  BY <1>0 DEF SendResults, ERROR, EAGAIN
<1>2. CASE c.wcache # <<>> \/ r = EAGAIN
  <2> DEFINE a == [c EXCEPT !.wcache = @ \o data, !.refused = TRUE]
  <2>1. c.wcache \o data \in Seq(Byte)
    BY <1>0, ConcatProperties DEF Conn
  <2>2. /\ a \in Conn /\ a.wcache = c.wcache \o data /\ a.wire = c.wire /\ a.asked = c.asked
        /\ a.shut = c.shut
    BY <2>1 DEF Conn
  <2>3. write_in_loop(c, data, r) = enable_write(a, TRUE)
    BY <1>2 DEF write_in_loop
  <2> HIDE DEF a
  <2>4. SameStream(a, enable_write(a, TRUE))
    BY <2>2, EnableWriteSame
  <2> QED BY <2>2, <2>3, <2>4 DEF SameStream, Streamed
<1>3. CASE c.wcache = <<>> /\ r = ERROR
  <2>1. write_in_loop(c, data, r) = [c EXCEPT !.err = FALSE]
    BY <1>3 DEF write_in_loop, ERROR, EAGAIN
  <2> QED BY <1>1, <1>3, <2>1 DEF Conn, Streamed, Cut
<1>4. CASE c.wcache = <<>> /\ r # ERROR /\ r # EAGAIN
  <2> DEFINE s == [c EXCEPT !.wire = @ \o Take(data, r)]
  <2>1. Take(data, r) = data
    BY <1>0, <1>1, <1>4 DEF Take
  <2>2. s.wire = c.wire \o data /\ s.wcache = c.wcache /\ s.asked = c.asked /\ s.shut = c.shut
    BY <2>1 DEF Conn
  <2>3. ~(r < Len(data))
    BY <1>0, <1>1, <1>4
  <2>4. write_in_loop(c, data, r) = s
    BY <1>4, <2>3 DEF write_in_loop
  <2> HIDE DEF s
  <2> QED BY <1>1, <1>4, <2>2, <2>4 DEF Streamed, Cut
<1> QED BY <1>2, <1>3, <1>4

\* Bytes that follow what waits are sent or wait, in order.
LEMMA StreamedFlows ==
  ASSUME NEW c \in Conn, NEW d \in Conn, NEW data \in Seq(Byte), NEW kept \in Counts,
         NEW next \in Counts, Streamed(c, d, data), Flow(c, Cut(c, net.rst), kept),
         ~Cut(c, net.rst) => Carries(data, kept, next) /\ \A t \in Callers : next[t] <= c.asked[t]
  PROVE  Flow(d, Cut(d, net.rst), next)
<1> DEFINE cut == Cut(c, net.rst)
<1>1. PICK sent \in Counts : /\ Carries(c.wire, Zero, sent)
                             /\ \A t \in Callers : sent[t] <= c.asked[t]
                             /\ ~cut => Carries(c.wcache, sent, kept)
  BY DEF Flow
<1>2. Cut(d, net.rst) = cut /\ d.asked = c.asked
  BY DEF Streamed, Cut
<1>3. c.wire \in Seq(Byte) /\ c.wcache \in Seq(Byte) /\ Zero \in Counts
  BY ConnectionAssumption DEF Conn, Zero, Counts
<1>4. CASE cut /\ d.wire = c.wire
  BY <1>1, <1>2, <1>4 DEF Flow
<1>5. CASE ~cut /\ d.wire = c.wire /\ d.wcache = c.wcache \o data
  <2>1. Carries(d.wcache, sent, next)
    BY <1>1, <1>3, <1>5, CarriesJoin
  <2> QED BY <1>1, <1>2, <1>5, <2>1 DEF Flow
<1>6. CASE ~cut /\ c.wcache = <<>> /\ d.wcache = <<>> /\ d.wire = c.wire \o data
  <2>1. Carries(c.wire \o c.wcache, Zero, kept)
    BY <1>1, <1>3, <1>6, CarriesJoin
  <2>2. c.wire \o c.wcache = c.wire
    BY <1>3, <1>6, ConcatEmptySeq
  <2>3. Carries(d.wire, Zero, next)
    BY <1>3, <1>6, <2>1, <2>2, CarriesJoin
  <2>4. Carries(d.wcache, next, next)
    BY <1>6, CarriesNone
  <2> QED BY <1>2, <1>6, <2>3, <2>4 DEF Flow
<1>7. (cut /\ d.wire = c.wire) \/ (~cut /\ d.wire = c.wire /\ d.wcache = c.wcache \o data)
      \/ (~cut /\ c.wcache = <<>> /\ d.wcache = <<>> /\ d.wire = c.wire \o data)
  BY DEF Streamed
<1> QED BY <1>4, <1>5, <1>6, <1>7

\* d comes from c by what the loop thread does: the user's writes are where they
\* were, and the rest still flows.
Onward(c, d) ==
  /\ d \in Conn /\ d.asked["user"] = c.asked["user"] /\ (c.shut => d.shut)
  /\ \A w \in Nat : Flows(c, net.rst, w) => Flows(d, net.rst, w)

\* One thing after another.
LEMMA OnwardTrans == ASSUME NEW c, NEW d, NEW e, Onward(c, d), Onward(d, e) PROVE Onward(c, e)
BY DEF Onward

\* A step that leaves the stream alone.
LEMMA SameOnward == ASSUME NEW c, NEW d \in Conn, SameStream(c, d) PROVE Onward(c, d)
BY DEF Onward, SameStream, Flows, Flow, Cut

\* Where nothing more can be sent, what was sent remains.
LEMMA CutFlows ==
  ASSUME NEW c, NEW d, NEW rst, NEW rst2, NEW w, d.wire = c.wire, d.asked = c.asked,
         Cut(d, rst2), Flows(c, rst, w)
  PROVE  Flows(d, rst2, w)
BY DEF Flows, Flow

\* shutdown() by the loop thread.
LEMMA ShutOnward == ASSUME NEW c \in Conn PROVE Onward(c, ShutDown(c))
<1> DEFINE d == ShutDown(c)
<1>1. d \in Conn /\ d.wire = c.wire /\ d.asked = c.asked /\ d.shut
  BY DEF ShutDown, Conn, Status
<1> HIDE DEF d
<1>2. Cut(d, net.rst)
  BY <1>1 DEF Cut
<1>3. \A w \in Nat : Flows(c, net.rst, w) => Flows(d, net.rst, w)
  BY <1>1, <1>2, CutFlows
<1>4. Onward(c, d)
  BY <1>1, <1>3 DEF Onward
<1> QED BY <1>4 DEF d

\* What a thread writes next follows what it has written.
LEMMA NextFollows ==
  ASSUME NEW c \in Conn, NEW t \in Callers, CanAsk(c, t)
  PROVE  /\ \A n \in 1 .. MsgLen : /\ Who(NextData(c, t), n) = t
                                   /\ Num(NextData(c, t), n) = c.asked[t] + n
         /\ Asked(c, t).asked[t] = c.asked[t] + MsgLen
         /\ \A u \in Callers : u # t => Asked(c, t).asked[u] = c.asked[u]
         /\ Asked(c, t).wire = c.wire /\ Asked(c, t).wcache = c.wcache
         /\ Asked(c, t).shut = c.shut
<1>1. \A n \in 1 .. MsgLen : /\ Who(NextData(c, t), n) = t
                             /\ Num(NextData(c, t), n) = c.asked[t] + n
  BY DEF NextData, Who, Num
<1>2. Asked(c, t) = [c EXCEPT !.asked = [c.asked EXCEPT ![t] = @ + MsgLen]]
  BY DEF Asked
<1> QED BY <1>1, <1>2 DEF Conn

\* write() by the loop thread.
LEMMA WrittenOnward ==
  ASSUME "part" \notin SendOutcomes, NEW c \in Conn, NEW d \in Written(c) PROVE Onward(c, d)
<1> DEFINE a == Asked(c, "loop")
           data == NextData(c, "loop")
<1>0. CanAsk(c, "loop") /\ "loop" \in Callers /\ "user" \in Callers
  BY DEF Written, Callers
<1>1. PICK r \in SendResults(c, MsgLen) : d = write_in_loop(a, data, r)
  BY <1>0 DEF Written
<1>2. data \in Msg /\ a \in Conn /\ a.shut = c.shut
  BY <1>0, NextDataMsg
<1>3. r \in SendResults(a, MsgLen)
  BY <1>2 DEF SendResults
<1>4. Streamed(a, d, data)
  BY <1>1, <1>2, <1>3, WriteStreamed
<1>5. d \in Conn
  BY <1>1, <1>2, <1>3, WriteInLoop DEF Wrote
<1>6. /\ \A n \in 1 .. MsgLen : Who(data, n) = "loop" /\ Num(data, n) = c.asked["loop"] + n
      /\ a.asked["loop"] = c.asked["loop"] + MsgLen /\ a.asked["user"] = c.asked["user"]
      /\ a.wire = c.wire /\ a.wcache = c.wcache
  BY <1>0, NextFollows
<1>7. data \in Seq(Byte)
  BY <1>2 DEF Msg
<1> HIDE DEF a, data
<1>8. d.asked = a.asked /\ d.shut = c.shut
  BY <1>2, <1>4 DEF Streamed
<1>9. ASSUME NEW w \in Nat, Flows(c, net.rst, w) PROVE Flows(d, net.rst, w)
  <2> DEFINE cut == Cut(c, net.rst)
  <2>1. PICK kept \in Counts :
          /\ Flow(c, cut, kept)
          /\ ~cut => kept["loop"] = c.asked["loop"] /\ kept["user"] = w /\ w <= c.asked["user"]
    BY <1>9 DEF Flows
  <2>2. Cut(a, net.rst) = cut /\ Cut(d, net.rst) = cut
    BY <1>2, <1>8 DEF Cut
  <2>3. Flow(a, cut, kept)
    <3>1. PICK sent \in Counts : /\ Carries(c.wire, Zero, sent)
                                 /\ \A t \in Callers : sent[t] <= c.asked[t]
                                 /\ ~cut => Carries(c.wcache, sent, kept)
      BY <2>1 DEF Flow
    <3>2. sent["loop"] \in Nat /\ c.asked["loop"] \in Nat /\ MsgLen \in Nat
      BY ConnectionAssumption DEF Counts, Callers, Conn
    <3>3. sent["loop"] <= a.asked["loop"] /\ sent["user"] <= a.asked["user"]
      BY <1>0, <1>6, <3>1, <3>2
    <3> QED BY <1>6, <3>1, <3>3 DEF Flow, Callers
  <2>4. CASE cut
    <3>1. Flow(d, Cut(d, net.rst), kept)
      BY <1>2, <1>4, <1>5, <1>7, <2>2, <2>3, <2>4, StreamedFlows
    <3> QED BY <2>2, <2>4, <3>1 DEF Flows
  <2>5. CASE ~cut
    <3> DEFINE next == [kept EXCEPT !["loop"] = @ + MsgLen]
    <3>1. kept["loop"] + MsgLen <= MaxAsked
      BY <1>0, <2>1, <2>5 DEF CanAsk
    <3>2. \A n \in 1 .. MsgLen : Who(data, n) = "loop" /\ Num(data, n) = kept["loop"] + n
      BY <1>6, <2>1, <2>5
    <3>3. next \in Counts /\ Carries(data, kept, next)
      BY <1>0, <1>2, <3>1, <3>2, MessageCarries
    <3>4. next["loop"] = a.asked["loop"] /\ next["user"] = w
      BY <1>6, <2>1, <2>5 DEF Counts, Callers
    <3> HIDE DEF next
    <3>5. MsgLen \in Nat /\ a.asked["loop"] \in Nat
      BY <1>0, <1>2, ConnectionAssumption DEF Conn
    <3>6. \A t \in Callers : next[t] <= a.asked[t]
      BY <1>6, <2>1, <2>5, <3>4, <3>5 DEF Callers
    <3>7. Flow(d, Cut(d, net.rst), next)
      BY <1>2, <1>4, <1>5, <1>7, <2>2, <2>3, <3>3, <3>6, StreamedFlows
    <3>8. next["loop"] = d.asked["loop"] /\ next["user"] = w /\ w <= d.asked["user"]
      BY <1>6, <1>8, <2>1, <2>5, <3>4
    <3> QED BY <3>3, <3>7, <3>8 DEF Flows
  <2> QED BY <2>4, <2>5
<1> QED BY <1>5, <1>6, <1>8, <1>9 DEF Onward

\* A callback, whatever it does.
LEMMA CallbackOnward ==
  ASSUME "part" \notin SendOutcomes, NEW c \in Conn, NEW d \in AfterCallback(c) PROVE Onward(c, d)
<1> DEFINE once == IF "write" \in UserActs THEN Written(c) ELSE {}
           all == {c} \cup once \cup UNION {Written(e) : e \in once}
<1>1. \A e \in once : e \in Conn /\ Onward(c, e)
  BY WrittenOnward DEF Onward
<1>2. \A e \in all : e \in Conn /\ Onward(c, e)
  <2> SUFFICES ASSUME NEW e \in all PROVE Onward(c, e)
    BY DEF Onward
  <2>1. CASE e = c
    BY <2>1 DEF Onward
  <2>2. CASE e \in once
    BY <2>2, <1>1
  <2>3. CASE e \in UNION {Written(f) : f \in once}
    <3>1. PICK f \in once : e \in Written(f)
      BY <2>3
    <3>2. f \in Conn /\ Onward(c, f)
      BY <1>1, <3>1
    <3>3. Onward(f, e)
      BY <3>1, <3>2, WrittenOnward
    <3> QED BY <3>2, <3>3, OnwardTrans
  <2> QED BY <2>1, <2>2, <2>3
<1>3. AfterCallback(c) = all \cup (IF "shutdown" \in UserActs THEN {ShutDown(e) : e \in all} ELSE {})
  BY DEF AfterCallback
<1>4. CASE d \in all
  BY <1>2, <1>4
<1>5. CASE d \notin all
  <2> HIDE DEF all
  <2>1. PICK e \in all : d = ShutDown(e)
    BY <1>3, <1>5
  <2>2. e \in Conn /\ Onward(c, e) /\ Onward(e, d)
    BY <1>2, <2>1, ShutOnward
  <2> QED BY <2>2, OnwardTrans
<1> QED BY <1>4, <1>5

\* conn_cb.
LEMMA ConnCallbackOnward ==
  ASSUME "part" \notin SendOutcomes, NEW c \in Conn, NEW d \in AfterConnCallback(c) PROVE Onward(c, d)
<1>1. CASE connected(c)
  BY <1>1, CallbackOnward DEF AfterConnCallback
<1>2. CASE ~connected(c)
  BY <1>2 DEF AfterConnCallback, Onward
<1> QED BY <1>1, <1>2

\* handle_write() where send() takes all or nothing.
LEMMA HandleWriteOnward ==
  ASSUME "part" \notin SendOutcomes, NEW c \in Conn, "OUT" \in c.evt, ~c.progress,
         NEW r \in SendResults(c, Len(c.wcache))
  PROVE  Onward(c, handle_write(c, r))
<1> DEFINE d == handle_write(c, r)
<1>0. c.wcache \in Seq(Byte) /\ Len(c.wcache) \in Nat /\ c.wire \in Seq(Byte)
  BY LenProperties DEF Conn
<1>1. /\ r = ERROR <=> c.shut \/ net.rst
      /\ r # ERROR /\ r # EAGAIN => r = Len(c.wcache)
  BY <1>0 DEF SendResults, ERROR, EAGAIN
<1>2. d \in Conn /\ d.shut = c.shut
  BY HandleWriteMember
<1>3. CASE r = EAGAIN
  <2> DEFINE a == [c EXCEPT !.refused = TRUE]
  <2>1. a \in Conn /\ SameStream(c, a)
    BY DEF Conn, SameStream
  <2>2. d = enable_write(a, TRUE)
    BY <1>3 DEF handle_write
  <2> HIDE DEF a, d
  <2>3. SameStream(c, d)
    BY <2>1, <2>2, EnableWriteSame DEF SameStream
  <2>4. Onward(c, d)
    BY <1>2, <2>3, SameOnward
  <2> QED BY <2>4 DEF d
<1>4. CASE r = ERROR
  <2>1. d = [c EXCEPT !.err = FALSE]
    BY <1>4 DEF handle_write, ERROR, EAGAIN
  <2>2. SameStream(c, d)
    BY <2>1 DEF Conn, SameStream
  <2> HIDE DEF d
  <2>3. Onward(c, d)
    BY <1>2, <2>2, SameOnward
  <2> QED BY <2>3 DEF d
<1>5. CASE r # ERROR /\ r # EAGAIN
  <2> DEFINE s == [c EXCEPT !.wire = @ \o Take(c.wcache, r), !.wcache = Drop(@, r)]
  <2>1. Take(c.wcache, r) = c.wcache /\ Drop(c.wcache, r) = <<>> /\ Drop(<<>>, r) = <<>>
    BY <1>0, <1>1, <1>5, SubSeqEmpty DEF Take, Drop
  <2>2. s.wire = c.wire \o c.wcache /\ s.wcache = <<>> /\ s.asked = c.asked
    BY <2>1 DEF Conn
  <2>3. d = [s EXCEPT !.wcache = Drop(@, r)]
    BY <1>5, <2>2 DEF handle_write
  <2>4. d.wire = c.wire \o c.wcache /\ d.wcache = <<>> /\ d.asked = c.asked
    <3>1. Drop(s.wcache, r) = <<>>
      BY <2>1, <2>2
    <3> QED BY <2>2, <2>3, <3>1 DEF Conn
  <2>5. ~Cut(c, net.rst) /\ ~Cut(d, net.rst)
    BY <1>1, <1>2, <1>5 DEF Cut
  <2> HIDE DEF d, s
  <2>6. ASSUME NEW w \in Nat, Flows(c, net.rst, w) PROVE Flows(d, net.rst, w)
    <3>1. PICK kept \in Counts :
            /\ Flow(c, Cut(c, net.rst), kept)
            /\ kept["loop"] = c.asked["loop"] /\ kept["user"] = w /\ w <= c.asked["user"]
      BY <2>5, <2>6 DEF Flows
    <3>2. PICK sent \in Counts : Carries(c.wire, Zero, sent) /\ Carries(c.wcache, sent, kept)
      BY <2>5, <3>1 DEF Flow
    <3>3. Zero \in Counts
      BY ConnectionAssumption DEF Zero, Counts
    <3>4. Carries(d.wire, Zero, kept) /\ Carries(d.wcache, kept, kept)
      BY <1>0, <2>4, <3>2, <3>3, CarriesJoin, CarriesNone
    <3>5. \A t \in Callers : kept[t] <= d.asked[t]
      <4>1. c.asked["loop"] \in Nat
        BY ConnectionAssumption DEF Conn, Callers
      <4> QED BY <2>4, <3>1, <4>1 DEF Callers
    <3>6. Flow(d, Cut(d, net.rst), kept)
      BY <3>4, <3>5 DEF Flow
    <3> QED BY <2>4, <3>1, <3>6 DEF Flows
  <2>7. Onward(c, d)
    BY <1>2, <2>4, <2>6 DEF Onward
  <2> QED BY <2>7 DEF d
<1> QED BY <1>3, <1>4, <1>5

\* A step of the loop that takes no write from the tasks.
LEMMA OnwardKeeps ==
  ASSUME SInv, Types, Onward(k, k'), net'.rst = net.rst,
         \A w, u : Waits(tasks, w, u) => Waits(tasks', w, u)
  PROVE  SInv'
<1>1. PICK w \in 0 .. MaxAsked : /\ Flows(k, net.rst, w)
                                 /\ ~Cut(k, net.rst) => Waits(tasks, w, k.asked["user"])
  BY DEF SInv
<1>2. w \in Nat
  BY ConnectionAssumption
<1>3. Flows(k', net'.rst, w)
  BY <1>1, <1>2 DEF Onward
<1>4. ~Cut(k', net'.rst) => Waits(tasks', w, k'.asked["user"])
  BY <1>1 DEF Onward, Cut
<1> QED BY <1>3, <1>4 DEF SInv

\* A step after which nothing more can be sent.
LEMMA CutKeeps ==
  ASSUME SInv, k'.wire = k.wire, k'.asked = k.asked, Cut(k', net'.rst) PROVE SInv'
<1>1. PICK w \in 0 .. MaxAsked : Flows(k, net.rst, w)
  BY DEF SInv
<1>2. Flows(k', net'.rst, w)
  BY <1>1, CutFlows
<1> QED BY <1>2 DEF SInv

\* The steps of the loop around the handlers.
LEMMA LoopStream ==
  ASSUME SInv, Types, Types',
         \/ \E w \in BOOLEAN : Poll(w)
         \/ PollNothing \/ CheckHup \/ NotReadable \/ Close \/ RemoveConn \/ NotWritable \/ TasksDone
  PROVE  SInv'
<1>0. k \in Conn /\ k' \in Conn
  BY DEF Types
<1>1. net' = net /\ tasks' = tasks
  BY DEF Poll, PollNothing, CheckHup, NotReadable, Close, RemoveConn, NotWritable, TasksDone
<1>2. ASSUME \E w \in BOOLEAN : Poll(w) PROVE SameStream(k, k')
  <2>1. PICK e : k' = [k EXCEPT !.evt = e]
    BY <1>2 DEF Poll
  <2> QED BY <1>0, <2>1 DEF Conn, SameStream
<1>3. Close => SameStream(k, k')
  BY <1>0, CloseSame DEF Close
<1>4. RemoveConn => SameStream(k, k')
  BY <1>0 DEF RemoveConn, Conn, SameStream
<1>5. SameStream(k, k')
  <2>1. CASE PollNothing \/ CheckHup \/ NotReadable \/ NotWritable \/ TasksDone
    <3>1. k' = k
      BY <2>1 DEF PollNothing, CheckHup, NotReadable, NotWritable, TasksDone
    <3> QED BY <3>1 DEF SameStream
  <2> QED BY <2>1, <1>2, <1>3, <1>4
<1> QED BY <1>0, <1>1, <1>5, SameOnward, OnwardKeeps

\* The handlers and their callbacks.
LEMMA HandlersStream ==
  ASSUME "part" \notin SendOutcomes, SInv, Types, Types',
         \/ CheckErr \/ HandleRead \/ HandleReadError \/ HandleReadEof \/ CloseConnCallback
         \/ \E r \in Int : HandleWrite(r)
  PROVE  SInv'
<1> DEFINE e == [k EXCEPT !.err = FALSE]
<1>0. k \in Conn /\ k' \in Conn
  BY DEF Types
<1>1. net'.rst = net.rst /\ tasks' = tasks
  <2>1. CASE HandleRead
    <3>1. PICK n \in 1 .. net.inq : net' = [net EXCEPT !.inq = @ - n]
      BY <2>1 DEF HandleRead
    <3> QED BY <2>1, <3>1 DEF HandleRead, Types
  <2>2. CASE ~HandleRead
    BY <2>2 DEF CheckErr, HandleReadError, HandleReadEof, CloseConnCallback, HandleWrite
  <2> QED BY <2>1, <2>2
<1>2. e \in Conn /\ Onward(k, e)
  <2>1. e \in Conn /\ SameStream(k, e)
    BY <1>0 DEF Conn, SameStream
  <2> QED BY <2>1, SameOnward
<1> HIDE DEF e
<1>3. ASSUME k' \in AfterCallback(e) PROVE Onward(k, k')
  <2>1. Onward(e, k')
    BY <1>2, <1>3, CallbackOnward
  <2> QED BY <1>2, <2>1, OnwardTrans
<1>4. k' \in AfterCallback(k) \/ k' \in AfterConnCallback(k) => Onward(k, k')
  BY <1>0, CallbackOnward, ConnCallbackOnward
<1>5. ASSUME k' = k PROVE Onward(k, k')
  <2>1. SameStream(k, k')
    BY <1>5 DEF SameStream
  <2> QED BY <1>0, <2>1, SameOnward
<1>6. ASSUME NEW r \in Int, HandleWrite(r) PROVE Onward(k, k')
  <2> DEFINE c == [k EXCEPT !.progress = FALSE]
             d == handle_write(c, r)
  <2>1. "OUT" \in k.evt /\ r \in SendResults(k, Len(k.wcache)) /\ (k' \in AfterCallback(d) \/ k' = d)
    BY <1>6 DEF HandleWrite
  <2>2. /\ c \in Conn /\ ~c.progress /\ c.evt = k.evt /\ c.wcache = k.wcache /\ c.shut = k.shut
        /\ SameStream(k, c)
    BY <1>0 DEF Conn, SameStream
  <2> HIDE DEF c
  <2>3. r \in SendResults(c, Len(c.wcache))
    BY <2>1, <2>2 DEF SendResults
  <2>4. Onward(c, d)
    BY <2>1, <2>2, <2>3, HandleWriteOnward
  <2>5. Onward(k, c)
    BY <2>2, SameOnward
  <2>6. Onward(k, d)
    BY <2>4, <2>5, OnwardTrans
  <2> HIDE DEF d
  <2>7. CASE k' \in AfterCallback(d)
    <3>1. Onward(d, k')
      BY <2>4, <2>7, CallbackOnward DEF Onward
    <3> QED BY <2>6, <3>1, OnwardTrans
  <2> QED BY <2>1, <2>6, <2>7
<1>7. Onward(k, k')
  <2>1. CASE CheckErr
    BY <2>1, <1>3, <1>5 DEF CheckErr, e
  <2>2. CASE HandleReadError
    BY <2>2, <1>3 DEF HandleReadError, e
  <2>3. CASE HandleRead \/ HandleReadEof \/ CloseConnCallback
    BY <2>3, <1>4 DEF HandleRead, HandleReadEof, CloseConnCallback
  <2> QED BY <2>1, <2>2, <2>3, <1>6
<1> QED BY <1>1, <1>7, OnwardKeeps

\* Tasks that write nothing.
LEMMA OtherTasksStream ==
  ASSUME "part" \notin SendOutcomes, SInv, Types, Types', AddTask \/ UpdateTask \/ ConnTask \/ ShutTask
  PROVE  SInv'
<1>0. k \in Conn /\ k' \in Conn
  BY DEF Types
<1>1. NextTask /\ net' = net /\ Head(tasks).op # "write"
  BY DEF AddTask, UpdateTask, ConnTask, ShutTask, TaskKeeps
<1>2. \A w, u : Waits(tasks, w, u) => Waits(tasks', w, u)
  <2>1. ~IsWrite(tasks, 1)
    BY <1>1, TailFacts DEF IsWrite
  <2> QED BY <1>1, <2>1, OtherRuns
<1>3. CASE AddTask \/ UpdateTask
  <2>1. SameStream(k, k')
    BY <1>0, <1>3 DEF AddTask, UpdateTask, update_evt_code, Conn, SameStream
  <2> QED BY <1>0, <1>1, <1>2, <2>1, SameOnward, OnwardKeeps
<1>4. CASE ConnTask
  <2>1. Onward(k, k')
    BY <1>0, <1>4, ConnCallbackOnward DEF ConnTask
  <2> QED BY <1>1, <1>2, <2>1, OnwardKeeps
<1>5. CASE ShutTask
  <2>1. k'.wire = k.wire /\ k'.asked = k.asked /\ k'.shut
    BY <1>0, <1>5 DEF ShutTask, Conn
  <2> QED BY <2>1, CutKeeps DEF Cut
<1> QED BY <1>3, <1>4, <1>5

\* The task of a write from outside the loop.
LEMMA WriteTaskStream ==
  ASSUME "part" \notin SendOutcomes, SInv, Types, Types', WriteTask
  PROVE  SInv'
<1> DEFINE data == Head(tasks).data
<1>0. k \in Conn /\ k' \in Conn /\ "user" \in Callers /\ "loop" \in Callers
  BY DEF Types, Callers
<1>1. NextTask /\ net' = net /\ IsWrite(tasks, 1) /\ data = tasks[1].data /\ data \in Msg
  <2>1. NextTask /\ net' = net /\ Head(tasks).op = "write"
    BY DEF WriteTask, TaskKeeps
  <2>2. Head(tasks) = tasks[1] /\ 1 \in DOMAIN tasks /\ tasks \in Seq(TaskSet)
    BY <2>1, TailFacts DEF Types
  <2>3. IsWrite(tasks, 1)
    BY <2>1, <2>2 DEF IsWrite
  <2>4. tasks[1].data \in Msg
    BY <2>2, <2>3, FirstNumber
  <2> QED BY <2>1, <2>2, <2>3, <2>4
<1>2. PICK r \in SendResults(k, MsgLen) :
        \/ k' \in AfterCallback(write_in_loop(k, data, r)) \/ k' = write_in_loop(k, data, r)
  BY DEF WriteTask
<1> DEFINE c == write_in_loop(k, data, r)
<1>3. c \in Conn /\ Streamed(k, c, data)
  BY <1>0, <1>1, WriteInLoop, WriteStreamed DEF Wrote
<1>4. data \in Seq(Byte)
  BY <1>1 DEF Msg
<1> HIDE DEF c, data
<1>5. Onward(c, k')
  <2>1. CASE k' \in AfterCallback(c)
    BY <1>3, <2>1, CallbackOnward
  <2>2. CASE k' = c
    BY <1>3, <2>2 DEF Onward
  <2> QED BY <1>2, <2>1, <2>2 DEF c
<1>6. PICK w \in 0 .. MaxAsked : /\ Flows(k, net.rst, w)
                                 /\ ~Cut(k, net.rst) => Waits(tasks, w, k.asked["user"])
  BY DEF SInv
<1>7. PICK kept \in Counts :
        /\ Flow(k, Cut(k, net.rst), kept)
        /\ ~Cut(k, net.rst) => /\ kept["loop"] = k.asked["loop"] /\ kept["user"] = w
                               /\ w <= k.asked["user"]
  BY <1>6 DEF Flows
<1>8. c.asked = k.asked /\ c.shut = k.shut
  BY <1>3 DEF Streamed
<1>9. Cut(k, net.rst) = Cut(c, net.rst) /\ (Cut(c, net.rst) => Cut(k', net'.rst))
  BY <1>1, <1>5, <1>8 DEF Cut, Onward
<1>10. CASE Cut(k, net.rst)
  <2>1. Flow(c, Cut(c, net.rst), kept)
    BY <1>0, <1>3, <1>4, <1>7, <1>10, StreamedFlows
  <2>2. Flows(c, net.rst, w)
    BY <1>9, <1>10, <2>1 DEF Flows
  <2>3. Flows(k', net'.rst, w)
    BY <1>1, <1>5, <2>2, ConnectionAssumption DEF Onward
  <2> QED BY <1>9, <1>10, <2>3 DEF SInv
<1>11. CASE ~Cut(k, net.rst)
  <2> DEFINE next == [kept EXCEPT !["user"] = @ + MsgLen]
             u == k.asked["user"]
  <2>0. u \in 0 .. MaxAsked /\ w \in Nat /\ u \in Nat /\ MsgLen \in Nat /\ k.asked["loop"] \in Nat
    BY <1>0, ConnectionAssumption DEF Conn
  <2>1. Waits(tasks', w + MsgLen, u) /\ First(tasks, 1) = w /\ IsChunk(tasks, 1)
    BY <1>1, <1>6, <1>11, <2>0, WriteRuns
  <2>2. w + MsgLen <= u
    BY <2>1 DEF Waits
  <2>3. kept["user"] + MsgLen <= MaxAsked
    BY <1>7, <1>11, <2>0, <2>2, ConnectionAssumption
  <2>4. \A n \in 1 .. MsgLen : Who(data, n) = "user" /\ Num(data, n) = kept["user"] + n
    BY <1>1, <1>7, <1>11, <2>1 DEF IsChunk
  <2>5. next \in Counts /\ Carries(data, kept, next)
    BY <1>0, <1>1, <2>3, <2>4, MessageCarries
  <2>6. next["loop"] = k.asked["loop"] /\ next["user"] = w + MsgLen
    BY <1>7, <1>11 DEF Counts, Callers
  <2> HIDE DEF next
  <2>7. \A t \in Callers : next[t] <= k.asked[t]
    BY <2>0, <2>2, <2>6 DEF Callers
  <2>8. Flow(c, Cut(c, net.rst), next)
    BY <1>0, <1>3, <1>4, <1>7, <2>5, <2>7, StreamedFlows
  <2>9. Flows(c, net.rst, w + MsgLen)
    BY <1>8, <2>2, <2>5, <2>6, <2>8 DEF Flows
  <2>10. w + MsgLen \in Nat /\ w + MsgLen \in 0 .. MaxAsked
    BY <2>0, <2>2, ConnectionAssumption
  <2>11. Flows(k', net'.rst, w + MsgLen)
    BY <1>1, <1>5, <2>9, <2>10 DEF Onward
  <2>12. Waits(tasks', w + MsgLen, k'.asked["user"])
    BY <1>5, <1>8, <2>1 DEF Onward
  <2> QED BY <2>10, <2>11, <2>12 DEF SInv
<1> QED BY <1>10, <1>11

\* start().
LEMMA StartStream == ASSUME SInv, Types, Types', StartNext PROVE SInv'
<1>0. k \in Conn /\ k' \in Conn
  BY DEF Types
<1>1. net' = net
  BY DEF StartNext, JoinToService, EnableReadFlags, EnableRead, UpdateChannel, SetConnected,
     QueueConnCallback, StartKeeps
<1>2. SameStream(k, k')
  BY <1>0 DEF StartNext, JoinToService, EnableReadFlags, EnableRead, UpdateChannel,
     SetConnected, QueueConnCallback, SameStream, Conn
<1>3. \/ tasks' = tasks
      \/ \E op \in {"add", "update", "conn", "shut"} : tasks' = Append(tasks, Task(op))
  BY DEF StartNext, JoinToService, EnableReadFlags, EnableRead, UpdateChannel, SetConnected,
     QueueConnCallback
<1>4. \A w, u : Waits(tasks, w, u) => Waits(tasks', w, u)
  <2>1. CASE tasks' = tasks
    BY <2>1
  <2>2. ASSUME NEW op \in {"add", "update", "conn", "shut"}, tasks' = Append(tasks, Task(op))
        PROVE  \A w, u : Waits(tasks, w, u) => Waits(tasks', w, u)
    <3>1. Task(op) \in TaskSet /\ Task(op).op # "write"
      BY StartTasks
    <3> QED BY <2>2, <3>1, OtherQueued
  <2> QED BY <1>3, <2>1, <2>2
<1> QED BY <1>0, <1>1, <1>2, <1>4, SameOnward, OnwardKeeps

\* The user's thread, where every write() has a buffer of its own.
LEMMA RemoteStream ==
  ASSUME "reuse" \notin RemoteActs, SInv, Types, Types', RemoteNext PROVE SInv'
<1>0. k \in Conn /\ k' \in Conn /\ "user" \in Callers /\ "loop" \in Callers
  BY DEF Types, Callers
<1>1. net' = net
  BY DEF RemoteNext, RemoteWrite, RemoteShutdown, Release, RemoteKeeps
<1>2. CASE RemoteWrite
  <2> DEFINE data == NextData(k, "user")
             u == k.asked["user"]
  <2>1. /\ CanAsk(k, "user") /\ k' = Asked(k, "user")
        /\ tasks' = Append(tasks, [op |-> "write", data |-> data])
    BY <1>2 DEF RemoteWrite
  <2>2. data \in Msg
    BY <1>0, <2>1, NextDataMsg
  <2>3. /\ \A n \in 1 .. MsgLen : Who(data, n) = "user" /\ Num(data, n) = u + n
        /\ k'.asked["user"] = u + MsgLen /\ k'.asked["loop"] = k.asked["loop"]
        /\ k'.wire = k.wire /\ k'.wcache = k.wcache /\ k'.shut = k.shut
    BY <1>0, <2>1, NextFollows
  <2> HIDE DEF data
  <2>4. PICK w \in 0 .. MaxAsked : /\ Flows(k, net.rst, w)
                                   /\ ~Cut(k, net.rst) => Waits(tasks, w, u)
    BY DEF SInv
  <2>5. w \in Nat /\ u \in Nat /\ MsgLen \in Nat
    BY <1>0, ConnectionAssumption DEF Conn
  <2>6. Cut(k', net'.rst) = Cut(k, net.rst)
    BY <1>1, <2>3 DEF Cut
  <2>7. ~Cut(k', net'.rst) => Waits(tasks', w, k'.asked["user"])
    BY <2>1, <2>2, <2>3, <2>4, <2>5, <2>6, WriteQueued
  <2> HIDE DEF u
  <2>8. Flows(k', net'.rst, w)
    <3>1. PICK kept \in Counts :
            /\ Flow(k, Cut(k, net.rst), kept)
            /\ ~Cut(k, net.rst) => kept["loop"] = k.asked["loop"] /\ kept["user"] = w /\ w <= u
      BY <2>4 DEF Flows, u
    <3>2. PICK sent \in Counts : /\ Carries(k.wire, Zero, sent)
                                 /\ sent["loop"] <= k.asked["loop"] /\ sent["user"] <= u
                                 /\ ~Cut(k, net.rst) => Carries(k.wcache, sent, kept)
      BY <1>0, <3>1 DEF Flow, u
    <3>3. sent["user"] \in Nat
      BY <1>0, ConnectionAssumption DEF Counts
    <3>4. sent["user"] <= u + MsgLen /\ (w <= u => w <= u + MsgLen)
      BY <2>5, <3>2, <3>3
    <3>5. \A t \in Callers : sent[t] <= k'.asked[t]
      BY <2>3, <3>2, <3>4 DEF Callers
    <3>6. Flow(k', Cut(k', net'.rst), kept)
      BY <2>3, <2>6, <3>2, <3>5 DEF Flow
    <3> QED BY <2>3, <2>6, <3>1, <3>4, <3>6 DEF Flows
  <2> QED BY <2>7, <2>8 DEF SInv
<1>3. CASE RemoteShutdown
  <2>1. k' = [k EXCEPT !.status = "kInDisconnect"] /\ tasks' = Append(tasks, Task("shut"))
    BY <1>3 DEF RemoteShutdown
  <2>2. SameStream(k, k')
    BY <1>0, <2>1 DEF Conn, SameStream
  <2>3. Task("shut") \in TaskSet /\ Task("shut").op # "write"
    BY StartTasks
  <2>4. \A w, u : Waits(tasks, w, u) => Waits(tasks', w, u)
    BY <2>1, <2>3, OtherQueued
  <2> QED BY <1>0, <1>1, <2>2, <2>4, SameOnward, OnwardKeeps
<1>4. CASE Release
  <2>1. k' = k /\ tasks' = tasks
    BY <1>4 DEF Release
  <2> QED BY <1>1, <2>1 DEF SInv
<1> QED BY <1>2, <1>3, <1>4 DEF RemoteNext

\* A task of a connection that is deleted.
LEMMA DanglingStream == ASSUME SInv, Types, DanglingTask PROVE Dead'
<1>1. k' = k /\ NextTask /\ ~Alive /\ UNCHANGED <<inmap, ref, apc, lpc>>
  BY DEF DanglingTask, TaskKeeps, LoopKeeps
<1>2. ~Alive'
  <2>1. \A i \in DOMAIN tasks' : i + 1 \in DOMAIN tasks /\ tasks'[i] = tasks[i + 1]
    BY <1>1, TailFacts
  <2> QED BY <1>1, <2>1 DEF Alive
<1>3. PICK w \in 0 .. MaxAsked : Flows(k, net.rst, w)
  BY DEF SInv
<1>4. Flows(k', TRUE, w)
  BY <1>1, <1>3, CutFlows DEF Cut
<1> QED BY <1>2, <1>4 DEF Dead

\* Nothing happens to the stream of a connection that is deleted.
LEMMA DeadStays == ASSUME IInv, Dead, Next PROVE Dead'
<1>0. Types /\ k \in Conn /\ ~k.reg
  BY DEF IInv, Types, Registered, Dead, Alive
<1>1. /\ ~inmap /\ ~ref /\ apc = "done" /\ lpc \in {"poll", "tasks"}
      /\ \A i \in DOMAIN tasks : tasks[i].op # "conn" /\ tasks[i].op # "add"
  BY DEF Dead, Alive, IInv, BeforeAdd
<1>2. \/ PeerNext \/ PollNothing \/ TasksDone \/ UpdateTask \/ DanglingTask
  <2>1. ~StartNext /\ ~RemoteNext
    BY <1>1 DEF StartNext, JoinToService, EnableReadFlags, EnableRead, UpdateChannel, SetConnected,
       QueueConnCallback, RemoteNext, RemoteWrite, RemoteShutdown, Release
  <2>2. ASSUME NextTask PROVE Head(tasks).op # "conn" /\ Head(tasks).op # "add"
    BY <1>0, <1>1, <2>2, TailFacts
  <2>3. ~AddTask /\ ~ConnTask
    BY <2>2 DEF AddTask, ConnTask
  <2>4. ~WriteTask /\ ~ShutTask
    BY DEF Dead, WriteTask, ShutTask
  <2>5. /\ \A w \in BOOLEAN : ~Poll(w)
        /\ \A r : ~HandleWrite(r)
    BY <1>0, <1>1 DEF Poll, HandleWrite
  <2>6. /\ ~CheckHup /\ ~CheckErr /\ ~NotReadable /\ ~HandleRead /\ ~HandleReadError
        /\ ~HandleReadEof /\ ~Close /\ ~CloseConnCallback /\ ~RemoveConn /\ ~NotWritable
    BY <1>1 DEF CheckHup, CheckErr, NotReadable, HandleRead, HandleReadError, HandleReadEof, Close,
       CloseConnCallback, RemoveConn, NotWritable
  <2> QED BY <2>1, <2>3, <2>4, <2>5, <2>6 DEF Next, LoopNext
<1>3. k'.wire = k.wire /\ k'.asked = k.asked
  BY <1>0, <1>2 DEF PeerNext, PeerSends, PeerCloses, PeerResets, PollNothing, TasksDone, UpdateTask,
     DanglingTask, update_evt_code, Conn
<1>4. /\ UNCHANGED <<inmap, ref, apc>> /\ lpc' \in {"poll", "tasks"}
      /\ tasks' = tasks \/ NextTask
  BY <1>1, <1>2 DEF PeerNext, PeerSends, PeerCloses, PeerResets, PeerKeeps, PollNothing, TasksDone,
     UpdateTask, DanglingTask, TaskKeeps, LoopKeeps
<1>5. ~Alive'
  <2>1. NextTask => \A i \in DOMAIN tasks' : i + 1 \in DOMAIN tasks /\ tasks'[i] = tasks[i + 1]
    BY <1>0, TailFacts
  <2>2. \A i \in DOMAIN tasks' : tasks'[i].op # "conn"
    BY <1>1, <1>4, <2>1
  <2> QED BY <1>1, <1>4, <2>2 DEF Alive
<1>6. PICK w \in 0 .. MaxAsked : Flows(k, TRUE, w)
  BY DEF Dead
<1>7. Flows(k', TRUE, w)
  BY <1>3, <1>6, CutFlows DEF Cut
<1> QED BY <1>5, <1>7 DEF Dead

\* The peer: a reset ends the sending.
LEMMA PeerStream == ASSUME SInv, Types, Types', PeerNext PROVE SInv'
<1>0. k \in Conn /\ tasks' = tasks
  BY DEF Types, PeerNext, PeerSends, PeerCloses, PeerResets, PeerKeeps
<1>1. CASE PeerSends \/ PeerCloses
  <2>1. k' = k /\ net'.rst = net.rst
    BY <1>1 DEF PeerSends, PeerCloses, Types
  <2> QED BY <1>0, <2>1 DEF SInv
<1>2. CASE PeerResets
  <2>1. k'.wire = k.wire /\ k'.asked = k.asked /\ net'.rst
    BY <1>0, <1>2 DEF PeerResets, Types, Conn
  <2> QED BY <2>1, CutKeeps DEF Cut
<1> QED BY <1>1, <1>2 DEF PeerNext

\* At the start nothing is written.
LEMMA InitStream == Init => SInv
<1> SUFFICES ASSUME Init PROVE SInv
  OBVIOUS
<1>1. k.wire = <<>> /\ k.wcache = <<>> /\ k.asked = Zero /\ tasks = <<>>
  BY DEF Init, Zero
<1>2. Zero \in Counts /\ 0 \in 0 .. MaxAsked /\ Zero["loop"] = 0 /\ Zero["user"] = 0
  BY ConnectionAssumption DEF Zero, Counts, Callers
<1>3. \A t \in Callers : Zero[t] <= Zero[t]
  BY DEF Zero
<1>4. Carries(<<>>, Zero, Zero)
  BY <1>2, CarriesNone
<1>5. Flow(k, Cut(k, net.rst), Zero)
  BY <1>1, <1>2, <1>3, <1>4 DEF Flow
<1>6. Flows(k, net.rst, 0)
  BY <1>1, <1>2, <1>5 DEF Flows
<1>7. Waits(tasks, 0, 0)
  <2>1. DOMAIN tasks = {} /\ 0 <= 0 /\ \A n \in 1 .. MaxAsked : ~(n <= 0)
    BY <1>1, ConnectionAssumption
  <2> QED BY <2>1 DEF Waits
<1> QED BY <1>1, <1>2, <1>6, <1>7 DEF SInv

\* Where send() takes all or nothing and every write() has a buffer of its own,
\* what is sent, what waits and what is in tasks follow each other, until the
\* connection is deleted.
THEOREM StreamHolds ==
  ASSUME "part" \notin SendOutcomes, "reuse" \notin RemoteActs PROVE Spec => [](SInv \/ Dead)
<1>1. Init => SInv
  BY InitStream
<1>2. (SInv \/ Dead) /\ IInv /\ IInv' /\ [Next]_vars => (SInv \/ Dead)'
  <2> SUFFICES ASSUME SInv \/ Dead, IInv, IInv', [Next]_vars PROVE SInv' \/ Dead'
    OBVIOUS
  <2>0. Types /\ Types'
    BY DEF IInv
  <2>6. CASE UNCHANGED vars
    <3>1. k' = k /\ net' = net /\ tasks' = tasks /\ UNCHANGED <<inmap, ref, apc, lpc>>
      BY <2>6 DEF vars
    <3> QED BY <3>1 DEF SInv, Dead, Alive
  <2>7. CASE Dead /\ Next
    BY <2>7, DeadStays
  <2> SUFFICES ASSUME SInv, Next PROVE SInv' \/ Dead'
    BY <2>6, <2>7
  <2>1. CASE StartNext
    BY <2>0, <2>1, StartStream
  <2>2. CASE RemoteNext
    BY <2>0, <2>2, RemoteStream
  <2>3. CASE PeerNext
    BY <2>0, <2>3, PeerStream
  <2>4. CASE LoopNext
    <3>1. \A r \in {EAGAIN, ERROR} \cup 0 .. Len(k.wcache) : r \in Int
      BY DEF EAGAIN, ERROR
    <3>2. CASE \E r \in {EAGAIN, ERROR} \cup 0 .. Len(k.wcache) : HandleWrite(r)
      BY <2>0, <3>1, <3>2, HandlersStream
    <3>3. CASE CheckErr \/ HandleRead \/ HandleReadError \/ HandleReadEof \/ CloseConnCallback
      BY <2>0, <3>3, HandlersStream
    <3>4. CASE AddTask \/ UpdateTask \/ ConnTask \/ ShutTask
      BY <2>0, <3>4, OtherTasksStream
    <3>5. CASE WriteTask
      BY <2>0, <3>5, WriteTaskStream
    <3>6. CASE \/ \E w \in BOOLEAN : Poll(w)
               \/ PollNothing \/ CheckHup \/ NotReadable \/ Close \/ RemoveConn \/ NotWritable
               \/ TasksDone
      BY <2>0, <3>6, LoopStream
    <3>7. CASE DanglingTask
      BY <2>0, <3>7, DanglingStream
    <3> QED BY <2>4, <3>2, <3>3, <3>4, <3>5, <3>6, <3>7 DEF LoopNext
  <2> QED BY <2>1, <2>2, <2>3, <2>4 DEF Next
<1> QED BY <1>1, <1>2, IInvHolds, PTL DEF Spec

\* What has to be shown of parts that hold the first n bytes of t in order.
LEMMA FirstOfParts ==
  ASSUME NEW parts, NEW t, NEW n,
         \A p \in DOMAIN parts : \A i \in DOMAIN parts[p] :
           Who(parts[p], i) = t => Num(parts[p], i) \in 1 .. n,
         \A m \in 1 .. n : \E p \in DOMAIN parts : \E i \in DOMAIN parts[p] :
           Who(parts[p], i) = t /\ Num(parts[p], i) = m,
         \A p, q \in DOMAIN parts : \A i \in DOMAIN parts[p], j \in DOMAIN parts[q] :
           /\ Who(parts[p], i) = t /\ Who(parts[q], j) = t
           /\ p < q \/ (p = q /\ i < j)
           => Num(parts[p], i) < Num(parts[q], j)
  PROVE  FirstOf(parts, t, n)
<1> DEFINE Number(a) == parts[a[1]][a[2]][2]
<1>1. \A a : a \in Places(parts, t) <=>
        \E p \in DOMAIN parts : \E i \in DOMAIN parts[p] : Who(parts[p], i) = t /\ a = <<p, i>>
  BY DEF Places, Who
<1>2. \A a \in Places(parts, t) : /\ a[1] \in DOMAIN parts /\ a[2] \in DOMAIN parts[a[1]]
                                  /\ Who(parts[a[1]], a[2]) = t
                                  /\ Number(a) = Num(parts[a[1]], a[2])
  BY <1>1 DEF Num
<1>3. \A p \in DOMAIN parts : \A i \in DOMAIN parts[p] :
        Who(parts[p], i) = t => <<p, i>> \in Places(parts, t) /\ Number(<<p, i>>) = Num(parts[p], i)
  BY <1>1 DEF Num
<1> HIDE DEF Number
<1>4. {Number(a) : a \in Places(parts, t)} = 1 .. n
  <2>1. \A a \in Places(parts, t) : Number(a) \in 1 .. n
    BY <1>2
  <2>2. \A m \in 1 .. n : \E a \in Places(parts, t) : Number(a) = m
    BY <1>3
  <2> QED BY <2>1, <2>2
<1>5. \A a, b \in Places(parts, t) :
        a[1] < b[1] \/ (a[1] = b[1] /\ a[2] < b[2]) => Number(a) < Number(b)
  BY <1>2
<1> QED BY <1>4, <1>5 DEF FirstOf, Number

\* The bytes of t in tasks are those after f up to g, in order.
TasksCarry(q, t, f, g) ==
  /\ f <= g
  /\ \A i \in DOMAIN q : \A n \in DOMAIN q[i].data :
       Who(q[i].data, n) = t => f < Num(q[i].data, n) /\ Num(q[i].data, n) <= g
  /\ \A i, j \in DOMAIN q : \A n \in DOMAIN q[i].data, m \in DOMAIN q[j].data :
       /\ Who(q[i].data, n) = t /\ Who(q[j].data, m) = t
       /\ i < j \/ (i = j /\ n < m)
       => Num(q[i].data, n) < Num(q[j].data, m)
  /\ \A m \in 1 .. MaxAsked : f < m /\ m <= g =>
       \E i \in DOMAIN q : \E n \in DOMAIN q[i].data :
         Who(q[i].data, n) = t /\ Num(q[i].data, n) = m

\* Tasks that wait carry the user's bytes and none of the loop's.
LEMMA WaitsCarry ==
  ASSUME NEW q \in Seq(TaskSet), NEW w \in Nat, NEW u \in Nat, NEW v \in Nat, Waits(q, w, u)
  PROVE  TasksCarry(q, "user", w, u) /\ TasksCarry(q, "loop", v, v)
<1>0. MsgLen \in Nat /\ MaxAsked \in Nat
  BY ConnectionAssumption
<1>1. \A i \in DOMAIN q : q[i] \in TaskSet /\ i \in Nat
  BY ElementOfSeq, LenProperties
<1>2. \A i \in DOMAIN q : IsWrite(q, i) =>
        First(q, i) \in Nat /\ DOMAIN q[i].data = 1 .. MsgLen /\ IsChunk(q, i)
  <2> SUFFICES ASSUME NEW i \in DOMAIN q, IsWrite(q, i)
               PROVE  First(q, i) \in Nat /\ DOMAIN q[i].data = 1 .. MsgLen /\ IsChunk(q, i)
    OBVIOUS
  <2>1. First(q, i) \in Nat /\ q[i].data \in Msg
    BY FirstNumber
  <2>2. DOMAIN q[i].data = 1 .. MsgLen
    BY <2>1, LenProperties DEF Msg
  <2> QED BY <2>1, <2>2 DEF Waits
<1>3. \A i \in DOMAIN q : ~IsWrite(q, i) => DOMAIN q[i].data = {}
  BY <1>1 DEF TaskSet, IsWrite
<1>4. \A i \in DOMAIN q : \A n \in DOMAIN q[i].data :
        /\ IsWrite(q, i) /\ n \in 1 .. MsgLen /\ Who(q[i].data, n) = "user"
        /\ Num(q[i].data, n) = First(q, i) + n /\ First(q, i) \in Nat
        /\ w <= First(q, i) /\ First(q, i) + MsgLen <= u
  BY <1>2, <1>3 DEF IsChunk, Waits
<1>5. TasksCarry(q, "loop", v, v)
  BY <1>0, <1>4 DEF TasksCarry
<1>6. \A i \in DOMAIN q : \A n \in DOMAIN q[i].data : w < Num(q[i].data, n) /\ Num(q[i].data, n) <= u
  <2> TAKE i \in DOMAIN q
  <2> TAKE n \in DOMAIN q[i].data
  <2>1. /\ n \in 1 .. MsgLen /\ Num(q[i].data, n) = First(q, i) + n /\ First(q, i) \in Nat
        /\ w <= First(q, i) /\ First(q, i) + MsgLen <= u
    BY <1>4
  <2> QED BY <1>0, <2>1
<1>7. ASSUME NEW i \in DOMAIN q, NEW j \in DOMAIN q, NEW n \in DOMAIN q[i].data,
             NEW m \in DOMAIN q[j].data, i < j \/ (i = j /\ n < m)
      PROVE  Num(q[i].data, n) < Num(q[j].data, m)
  <2>1. /\ n \in 1 .. MsgLen /\ Num(q[i].data, n) = First(q, i) + n /\ First(q, i) \in Nat
        /\ m \in 1 .. MsgLen /\ Num(q[j].data, m) = First(q, j) + m /\ First(q, j) \in Nat
        /\ IsWrite(q, i) /\ IsWrite(q, j)
    BY <1>4
  <2>2. CASE i < j
    <3>1. First(q, i) + MsgLen <= First(q, j)
      BY <2>1, <2>2 DEF Waits
    <3> QED BY <1>0, <2>1, <3>1
  <2>3. CASE i = j /\ n < m
    BY <1>0, <2>1, <2>3
  <2> QED BY <1>7, <2>2, <2>3
<1>8. ASSUME NEW m \in 1 .. MaxAsked, w < m, m <= u
      PROVE  \E i \in DOMAIN q : \E n \in DOMAIN q[i].data :
               Who(q[i].data, n) = "user" /\ Num(q[i].data, n) = m
  <2>1. PICK i \in DOMAIN q : IsWrite(q, i) /\ First(q, i) < m /\ m <= First(q, i) + MsgLen
    BY <1>8 DEF Waits
  <2>2. First(q, i) \in Nat /\ DOMAIN q[i].data = 1 .. MsgLen
    BY <1>2, <2>1
  <2>3. m - First(q, i) \in 1 .. MsgLen /\ First(q, i) + (m - First(q, i)) = m
    BY <1>0, <2>1, <2>2
  <2>4. /\ Who(q[i].data, m - First(q, i)) = "user"
        /\ Num(q[i].data, m - First(q, i)) = First(q, i) + (m - First(q, i))
    BY <1>4, <2>2, <2>3
  <2> QED BY <2>2, <2>3, <2>4
<1>9. TasksCarry(q, "user", w, u)
  <2>1. w <= u
    BY DEF Waits
  <2> QED BY <1>6, <1>7, <1>8, <2>1 DEF TasksCarry
<1> QED BY <1>5, <1>9

\* Ranges that follow each other, sent, waiting and in tasks, are the first bytes.
LEMMA StreamFirst ==
  ASSUME Types, NEW t \in Callers, NEW s \in Nat, NEW h \in Nat, NEW g \in 0 .. MaxAsked,
         CarriesOf(k.wire, t, 0, s), CarriesOf(k.wcache, t, s, h), TasksCarry(tasks, t, h, g)
  PROVE  FirstOf(Stream, t, g)
<1> DEFINE Nr(p, i) == Num(Stream[p], i)
           Of(p, i) == Who(Stream[p], i) = t
           l == Len(tasks) + 2
<1>0. MaxAsked \in Nat /\ g \in Nat /\ s <= h /\ h <= g
  BY ConnectionAssumption DEF CarriesOf, TasksCarry
<1>1. Len(tasks) \in Nat /\ DOMAIN tasks = 1 .. Len(tasks) /\ tasks \in Seq(TaskSet)
  BY LenProperties DEF Types
<1>2. /\ DOMAIN Stream = 1 .. l /\ l \in Nat /\ 1 \in 1 .. l /\ 2 \in 1 .. l
      /\ \A p \in 1 .. l : p # 1 /\ p # 2 => p - 2 \in DOMAIN tasks /\ 2 < p
      /\ \A i \in DOMAIN tasks : i + 2 \in 1 .. l /\ (i + 2) - 2 = i /\ i + 2 # 1 /\ i + 2 # 2
  BY <1>1 DEF Stream
<1>3. /\ Stream[1] = k.wire /\ Stream[2] = k.wcache
      /\ \A p \in 1 .. l : p # 1 /\ p # 2 => Stream[p] = tasks[p - 2].data
  BY <1>1 DEF Stream
<1> HIDE DEF l
<1>4. \A p \in 1 .. l : \A i \in DOMAIN Stream[p] : i \in Nat /\ Nr(p, i) \in Nat
  <2> SUFFICES ASSUME NEW p \in 1 .. l, NEW i \in DOMAIN Stream[p] PROVE i \in Nat /\ Nr(p, i) \in Nat
    OBVIOUS
  <2>1. Stream[p] \in Seq(Byte)
    <3>1. k.wire \in Seq(Byte) /\ k.wcache \in Seq(Byte)
      BY DEF Types, Conn
    <3>2. \A j \in DOMAIN tasks : tasks[j].data \in Seq(Byte)
      <4> TAKE j \in DOMAIN tasks
      <4>1. tasks[j] \in TaskSet
        BY <1>1, ElementOfSeq
      <4>2. <<>> \in Seq(Byte)
        OBVIOUS
      <4> QED BY <4>1, <4>2 DEF TaskSet, Msg
    <3> QED BY <1>2, <1>3, <3>1, <3>2
  <2>2. Stream[p][i] \in Byte /\ i \in Nat
    BY <2>1, ElementOfSeq, LenProperties
  <2> QED BY <2>2, <1>0 DEF Byte, Num
<1>5. \A i \in DOMAIN Stream[1] : Of(1, i) => 0 < Nr(1, i) /\ Nr(1, i) <= s
  BY <1>3 DEF CarriesOf
<1>6. \A i \in DOMAIN Stream[2] : Of(2, i) => s < Nr(2, i) /\ Nr(2, i) <= h
  BY <1>3 DEF CarriesOf
<1>7. \A p \in 1 .. l : p # 1 /\ p # 2 =>
        \A i \in DOMAIN Stream[p] : Of(p, i) => h < Nr(p, i) /\ Nr(p, i) <= g
  BY <1>2, <1>3 DEF TasksCarry
<1>8. \A p \in 1 .. l : \A i \in DOMAIN Stream[p] : Of(p, i) => Nr(p, i) \in 1 .. g
  <2> SUFFICES ASSUME NEW p \in 1 .. l, NEW i \in DOMAIN Stream[p], Of(p, i) PROVE Nr(p, i) \in 1 .. g
    OBVIOUS
  <2>1. Nr(p, i) \in Nat
    BY <1>4
  <2>2. 0 < Nr(p, i) /\ Nr(p, i) <= g
    <3>1. CASE p = 1
      BY <1>0, <1>5, <2>1, <3>1
    <3>2. CASE p = 2
      BY <1>0, <1>6, <2>1, <3>2
    <3>3. CASE p # 1 /\ p # 2
      BY <1>0, <1>7, <2>1, <3>3
    <3> QED BY <3>1, <3>2, <3>3
  <2> HIDE DEF Nr
  <2> QED BY <1>0, <2>1, <2>2
<1>9. ASSUME NEW m \in 1 .. g
      PROVE  \E p \in 1 .. l : \E i \in DOMAIN Stream[p] : Of(p, i) /\ Nr(p, i) = m
  <2>0. m \in 1 .. MaxAsked /\ m \in Nat /\ 0 < m /\ m <= g
    BY <1>0
  <2>1. CASE m <= s
    <3>1. \E i \in DOMAIN k.wire : Who(k.wire, i) = t /\ Num(k.wire, i) = m
      BY <2>0, <2>1 DEF CarriesOf
    <3> QED BY <1>2, <1>3, <3>1
  <2>2. CASE s < m /\ m <= h
    <3>1. \E i \in DOMAIN k.wcache : Who(k.wcache, i) = t /\ Num(k.wcache, i) = m
      BY <2>0, <2>2 DEF CarriesOf
    <3> QED BY <1>2, <1>3, <3>1
  <2>3. CASE h < m
    <3>1. PICK i \in DOMAIN tasks : \E n \in DOMAIN tasks[i].data :
            Who(tasks[i].data, n) = t /\ Num(tasks[i].data, n) = m
      BY <2>0, <2>3 DEF TasksCarry
    <3>2. i + 2 \in 1 .. l /\ Stream[i + 2] = tasks[i].data
      BY <1>2, <1>3
    <3> QED BY <3>1, <3>2
  <2> QED BY <1>0, <2>0, <2>1, <2>2, <2>3
<1>10. ASSUME NEW p \in 1 .. l, NEW q \in 1 .. l, NEW i \in DOMAIN Stream[p],
              NEW j \in DOMAIN Stream[q], Of(p, i), Of(q, j), p < q \/ (p = q /\ i < j)
       PROVE  Nr(p, i) < Nr(q, j)
  <2>0. Nr(p, i) \in Nat /\ Nr(q, j) \in Nat /\ p \in Nat /\ q \in Nat
    BY <1>2, <1>4
  <2>1. CASE p = q /\ p = 1
    <3>1. i < j
      BY <1>10, <2>0, <2>1
    <3> QED BY <1>3, <1>10, <2>1, <3>1 DEF CarriesOf
  <2>2. CASE p = q /\ p = 2
    <3>1. i < j
      BY <1>10, <2>0, <2>2
    <3> QED BY <1>3, <1>10, <2>2, <3>1 DEF CarriesOf
  <2>3. CASE p # 1 /\ p # 2
    <3>1. q # 1 /\ q # 2
      BY <1>2, <1>10, <2>0, <2>3
    <3>2. p - 2 \in DOMAIN tasks /\ q - 2 \in DOMAIN tasks
      BY <1>2, <2>3, <3>1
    <3>3. p - 2 < q - 2 \/ (p - 2 = q - 2 /\ i < j)
      BY <1>10, <2>0
    <3>4. Stream[p] = tasks[p - 2].data /\ Stream[q] = tasks[q - 2].data
      BY <1>3, <2>3, <3>1
    <3> QED BY <1>10, <3>2, <3>3, <3>4 DEF TasksCarry
  <2>4. CASE p = 1 /\ q # 1
    <3>1. Nr(p, i) <= s
      BY <1>5, <1>10, <2>4
    <3>2. s < Nr(q, j)
      <4>1. CASE q = 2
        BY <1>6, <1>10, <4>1
      <4>2. CASE q # 2
        <5>1. h < Nr(q, j)
          BY <1>7, <1>10, <2>4, <4>2
        <5> HIDE DEF Nr
        <5> QED BY <1>0, <2>0, <5>1
      <4> QED BY <4>1, <4>2
    <3> HIDE DEF Nr
    <3> QED BY <2>0, <3>1, <3>2
  <2>5. CASE p = 2 /\ q # 2
    <3>1. q # 1
      BY <1>10, <2>0, <2>5
    <3>2. Nr(p, i) <= h
      BY <1>6, <1>10, <2>5
    <3>3. h < Nr(q, j)
      BY <1>7, <1>10, <2>5, <3>1
    <3> HIDE DEF Nr
    <3> QED BY <2>0, <3>2, <3>3
  <2> QED BY <2>1, <2>2, <2>3, <2>4, <2>5
<1>11. \A p, q \in DOMAIN Stream : \A i \in DOMAIN Stream[p], j \in DOMAIN Stream[q] :
         /\ Who(Stream[p], i) = t /\ Who(Stream[q], j) = t
         /\ p < q \/ (p = q /\ i < j)
         => Num(Stream[p], i) < Num(Stream[q], j)
  BY <1>2, <1>10
<1> QED BY <1>2, <1>8, <1>9, <1>11, FirstOfParts

\* What is sent, a range from the first byte on, is a beginning.
LEMMA WireFirst ==
  ASSUME Types, NEW t \in Callers, NEW s \in 0 .. MaxAsked, CarriesOf(k.wire, t, 0, s)
  PROVE  FirstOf(<<k.wire>>, t, s)
<1> DEFINE parts == <<k.wire>>
<1>0. MaxAsked \in Nat /\ s \in Nat /\ k.wire \in Seq(Byte)
  BY ConnectionAssumption DEF Types, Conn
<1>1. DOMAIN parts = {1} /\ parts[1] = k.wire
  OBVIOUS
<1> HIDE DEF parts
<1>2. \A i \in DOMAIN k.wire : Num(k.wire, i) \in Nat
  <2> TAKE i \in DOMAIN k.wire
  <2>1. k.wire[i] \in Byte
    BY <1>0, ElementOfSeq, LenProperties
  <2> QED BY <1>0, <2>1 DEF Byte, Num
<1>3. \A i \in DOMAIN k.wire : Who(k.wire, i) = t => Num(k.wire, i) \in 1 .. s
  BY <1>0, <1>2 DEF CarriesOf
<1>4. \A m \in 1 .. s : \E i \in DOMAIN k.wire : Who(k.wire, i) = t /\ Num(k.wire, i) = m
  <2>1. \A m \in 1 .. s : m \in 1 .. MaxAsked /\ 0 < m /\ m <= s
    BY <1>0
  <2> QED BY <2>1 DEF CarriesOf
<1>5. \A i, j \in DOMAIN k.wire : i < j /\ Who(k.wire, i) = t /\ Who(k.wire, j) = t =>
        Num(k.wire, i) < Num(k.wire, j)
  BY DEF CarriesOf
<1>6. \A p, q \in DOMAIN parts : \A i \in DOMAIN parts[p], j \in DOMAIN parts[q] :
        /\ Who(parts[p], i) = t /\ Who(parts[q], j) = t
        /\ p < q \/ (p = q /\ i < j)
        => Num(parts[p], i) < Num(parts[q], j)
  BY <1>1, <1>5
<1>7. FirstOf(parts, t, s)
  BY <1>1, <1>3, <1>4, <1>6, FirstOfParts
<1> QED BY <1>7 DEF parts

\* Of each thread the bytes reach the kernel in the order of its write() calls,
\* none lost and none twice, for any number of writes and interleaved threads.
\* send() takes all or nothing, and every write() from outside the loop has a buffer
\* of its own: the code sends the wrong rest after a partial send, and a task keeps
\* the address of the bytes, not the bytes.
THEOREM StreamStaysIntact ==
  ASSUME "part" \notin SendOutcomes, "reuse" \notin RemoteActs PROVE Spec => []StreamIntact
<1>1. IInv /\ (SInv \/ Dead) => StreamIntact
  <2> DEFINE rst == net.rst \/ ~Alive
  <2> SUFFICES ASSUME IInv, SInv \/ Dead, NEW t \in Callers
               PROVE  /\ \E n \in 0 .. k.asked[t] : FirstOf(<<k.wire>>, t, n)
                      /\ k.shut \/ rst \/ FirstOf(Stream, t, k.asked[t])
    BY DEF StreamIntact
  <2>0. Types /\ k \in Conn /\ MaxAsked \in Nat /\ tasks \in Seq(TaskSet)
    BY ConnectionAssumption DEF IInv, Types
  <2>1. PICK w \in 0 .. MaxAsked : /\ Flows(k, rst, w)
                                   /\ ~Cut(k, rst) => Waits(tasks, w, k.asked["user"])
    <3>1. CASE Dead
      <4>1. rst = TRUE
        BY <3>1 DEF Dead
      <4> QED BY <3>1, <4>1 DEF Dead, Cut
    <3>2. CASE SInv /\ Alive
      <4>1. rst = net.rst
        BY <2>0, <3>2 DEF Types
      <4> QED BY <3>2, <4>1 DEF SInv
    <3>3. CASE SInv /\ ~Alive
      <4>1. rst = TRUE
        BY <3>3
      <4>2. PICK w \in 0 .. MaxAsked : Flows(k, net.rst, w)
        BY <3>3 DEF SInv
      <4>3. Cut(k, TRUE) /\ Flows(k, TRUE, w)
        BY <4>2, CutFlows DEF Cut
      <4> QED BY <4>1, <4>3
    <3> QED BY <3>1, <3>2, <3>3
  <2> HIDE DEF rst
  <2>2. PICK kept \in Counts :
          /\ Flow(k, Cut(k, rst), kept)
          /\ ~Cut(k, rst) => kept["loop"] = k.asked["loop"] /\ kept["user"] = w
    BY <2>1 DEF Flows
  <2>3. PICK sent \in Counts : /\ Carries(k.wire, Zero, sent)
                               /\ \A u \in Callers : sent[u] <= k.asked[u]
                               /\ ~Cut(k, rst) => Carries(k.wcache, sent, kept)
    BY <2>2 DEF Flow
  <2>4. /\ sent[t] \in 0 .. MaxAsked /\ kept[t] \in 0 .. MaxAsked /\ k.asked[t] \in 0 .. MaxAsked
        /\ sent[t] \in Nat /\ kept[t] \in Nat /\ sent[t] <= k.asked[t]
    BY <2>0, <2>3 DEF Counts, Conn
  <2>5. CarriesOf(k.wire, t, 0, sent[t])
    BY <2>3 DEF Carries, Zero
  <2>6. FirstOf(<<k.wire>>, t, sent[t])
    BY <2>0, <2>4, <2>5, WireFirst
  <2>7. sent[t] \in 0 .. k.asked[t]
    BY <2>4
  <2>8. ASSUME ~Cut(k, rst) PROVE FirstOf(Stream, t, k.asked[t])
    <3>1. CarriesOf(k.wcache, t, sent[t], kept[t])
      BY <2>3, <2>8 DEF Carries
    <3>2. TasksCarry(tasks, t, kept[t], k.asked[t])
      <4>1. w \in Nat /\ k.asked["user"] \in Nat /\ k.asked["loop"] \in Nat
        BY <2>0 DEF Conn, Callers
      <4>2. TasksCarry(tasks, "user", w, k.asked["user"])
            /\ TasksCarry(tasks, "loop", k.asked["loop"], k.asked["loop"])
        BY <2>0, <2>1, <2>8, <4>1, WaitsCarry
      <4> QED BY <2>2, <2>8, <4>2 DEF Callers
    <3> QED BY <2>0, <2>4, <2>5, <3>1, <3>2, StreamFirst
  <2> QED BY <2>6, <2>7, <2>8 DEF Cut
<1> QED BY <1>1, IInvHolds, StreamHolds, PTL
================================================================================
