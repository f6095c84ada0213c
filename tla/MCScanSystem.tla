---------------------------- MODULE MCScanSystem ----------------------------
(* Small instances of ScanSystem for TLC. *)
EXTENDS ScanSystem, TLC

\* Scans are interchangeable, and so are worker processes.
Symmetry == Permutations(Scans) \cup Permutations(Workers)

=============================================================================
