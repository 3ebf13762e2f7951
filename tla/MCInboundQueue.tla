--------------------------- MODULE MCInboundQueue ---------------------------
(* Small instances of InboundQueue for TLC.                                *)
EXTENDS InboundQueue, TLC

CONSTANTS m1, m2, w1, w2

WorkerSymmetry == Permutations(Workers)

=============================================================================
