------------------------- MODULE MCCollectorStatus --------------------------
(* CollectorStatus.tla for TLC.                                            *)
EXTENDS CollectorStatus

=============================================================================
