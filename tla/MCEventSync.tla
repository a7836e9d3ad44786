----------------------------- MODULE MCEventSync ------------------------------
EXTENDS EventSync
================================================================================
