-------------------------- MODULE MCTaskController --------------------------
(* TLC instances of TaskController.                                        *)
EXTENDS TaskController

BothProfiles == {"fast", "standard"}
OneProfile   == {"fast"}
=============================================================================
