---------------------------- MODULE MCEvidenceGate ----------------------------
(* TLC instance of EvidenceGate: calls and files are interchangeable.       *)
EXTENDS EvidenceGate, TLC

Symmetry == Permutations(Calls) \cup Permutations(Files)
=============================================================================
