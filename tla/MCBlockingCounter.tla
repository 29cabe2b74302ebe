--------------------------- MODULE MCBlockingCounter ---------------------------
(* Instances of BlockingCounter for TLC.                                   *)
EXTENDS BlockingCounter

\* Everybody waits for zero, as the main thread of echo_mt does.
MCTarget == [w \in Waiters |-> 0]
================================================================================
