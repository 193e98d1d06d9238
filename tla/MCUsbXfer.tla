------------------------------ MODULE MCUsbXfer ------------------------------
(* Small instances of UsbXfer for TLC. *)
EXTENDS UsbXfer, TLC

\* The blocks are interchangeable. Not for the liveness run.
Symmetry == Permutations(Blocks)
=============================================================================
