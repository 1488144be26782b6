------------------------------ MODULE MCOutbox ------------------------------
(* Values of Outbox's constants for TLC.                                   *)
EXTENDS Outbox

AllOrigins == {"payment", "refused", "internal", "simulated"}
PaymentsOnly == {"payment"}
SimulatedOnly == {"simulated"}
=============================================================================
