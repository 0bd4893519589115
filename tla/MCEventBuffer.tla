---------------------------- MODULE MCEventBuffer ----------------------------
(* Instances of EventBuffer, with the RunStream it extends, for TLC. *)
EXTENDS EventBuffer

CONSTANTS worker, api

=============================================================================
