---------------------------- MODULE MCVoiceEngines ----------------------------
EXTENDS VoiceEngines
================================================================================
