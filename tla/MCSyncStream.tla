---------------------------- MODULE MCSyncStream ----------------------------
(* Instances of SyncStream for TLC. *)
EXTENDS SyncStream, TLC

\* Writers are interchangeable, and so are devices.
Symmetry == Permutations(Writer) \cup Permutations(Device)
=============================================================================
