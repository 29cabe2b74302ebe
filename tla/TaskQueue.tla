------------------------------- MODULE TaskQueue -------------------------------
(***************************************************************************)
(* What an io_service promises to the threads that hand it work: tasks are *)
(* accepted one at a time, each at most once, and executed one at a time   *)
(* in the order of acceptance.                                             *)
(***************************************************************************)
EXTENDS Sequences, Naturals

CONSTANT Task

VARIABLES queue,      \* tasks accepted and not executed yet, oldest first
          executed    \* tasks executed, oldest first

vars == <<queue, executed>>

InSeq(t, s) == \E i \in DOMAIN s : s[i] = t

Init == queue = <<>> /\ executed = <<>>

Accept(t) ==
  /\ ~InSeq(t, queue)
  /\ ~InSeq(t, executed)
  /\ queue' = Append(queue, t)
  /\ UNCHANGED executed

Execute ==
  /\ queue # <<>>
  /\ executed' = Append(executed, Head(queue))
  /\ queue' = Tail(queue)

Next == (\E t \in Task : Accept(t)) \/ Execute

Spec == Init /\ [][Next]_vars
================================================================================
