--------------------------- MODULE MCJitterBuffer ---------------------------
(* The jitter buffer with small thresholds for TLC.                         *)
EXTENDS JitterBuffer, TLC
\* 500 ms are two of the short frames and one of the long ones.
SmallGood == [l \in Lengths |-> IF l = MaxLen THEN 1 ELSE 2]
=============================================================================
