-------------------------- MODULE MCExternalRunner --------------------------
(* TLC instance of ExternalRunner: one coding profile.                      *)
EXTENDS ExternalRunner

OneProfile == {"fast"}
=============================================================================
