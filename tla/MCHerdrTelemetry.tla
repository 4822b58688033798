--------------------------- MODULE MCHerdrTelemetry ---------------------------
(***************************************************************************)
(* An instance of HerdrTelemetry for TLC: one pane, whose status changes   *)
(* oftener than the buffer has room.                                       *)
(***************************************************************************)
EXTENDS HerdrTelemetry
=============================================================================
