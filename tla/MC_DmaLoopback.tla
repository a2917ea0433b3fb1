--------------------------- MODULE MC_DmaLoopback ---------------------------
(***************************************************************************)
(* Instances of DmaLoopback for TLC.  Transfers of one or two bytes and up *)
(* to two cycles are enough for every way a cycle can end (a failed or     *)
(* short write, a failed or short read, a mismatch, a match), and for a    *)
(* second cycle to meet what the first left on the card.                   *)
(***************************************************************************)
EXTENDS DmaLoopback

MCIdx == 0..1

\* The device memory before the run: cleared, left by an unrelated user,
\* or left by an earlier run of the test with the same size and address
\* (the pattern of its cycle 0 or of its cycle 1).
MCInitDevs ==
  {[j \in MCIdx |-> 0], [j \in MCIdx |-> 7], [j \in MCIdx |-> j], [j \in MCIdx |-> j + 1]}

=============================================================================
