------------------------------ MODULE MCByteBuffer -----------------------------
(* Instances of ByteBuffer for TLC.                                        *)
EXTENDS ByteBuffer

\* Every byte string of at most two bytes.
MCData == UNION {[1 .. n -> Byte] : n \in 0 .. 2}

\* No step depends on call.
MCView == bufs
================================================================================
