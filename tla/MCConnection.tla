---------------------------- MODULE MCConnection ----------------------------
(* Instances of Connection for TLC. *)
EXTENDS Connection

CONSTANTS noise, voice, v0, v1

MCFeatures == {noise, voice}
MCSecondTable == {voice}
MCValues == {v0, v1}
=============================================================================
