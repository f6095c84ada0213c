---------------------------- MODULE MCScanReader ----------------------------
(* Small instances of ScanReader for TLC. *)
EXTENDS ScanReader, TLC

\* Scans are interchangeable.
Symmetry == Permutations(Scans)

=============================================================================
