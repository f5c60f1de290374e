----------------------------- MODULE MCAudioOut -----------------------------
(* Model values of AudioOut for TLC: see the cfg of each run.              *)
EXTENDS AudioOut

CONSTANT Large  \* units of a write that is longer than the ring

\* Less than a block, and more than the ring, which may have to wait.
MCWrites == {[count |-> 1, nonblock |-> FALSE],
             [count |-> Large, nonblock |-> FALSE],
             [count |-> Large, nonblock |-> TRUE]}
=============================================================================
