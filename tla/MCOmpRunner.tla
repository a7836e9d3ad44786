----------------------------- MODULE MCOmpRunner -----------------------------
(* TLC instance of OmpRunner: one coding profile.                           *)
EXTENDS OmpRunner

OneProfile == {"fast"}
=============================================================================
