---------------------------- MODULE MCIngestion ----------------------------
(***************************************************************************)
(* Instances of Ingestion for TLC. The payloads are every combination of   *)
(* timestamp and counter that can be stored, and one of each kind that     *)
(* cannot: those differ in nothing the handlers look at.                   *)
(***************************************************************************)
EXTENDS Ingestion

MCPayload ==
  [ts : Timestamp, energy : Energy, form : {"fine"}]
    \cup [ts : {1}, energy : {1}, form : Form \ {"fine"}]

=============================================================================
