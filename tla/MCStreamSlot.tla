----------------------------- MODULE MCStreamSlot -----------------------------
(* Small instances of StreamSlot for TLC.                                  *)
EXTENDS StreamSlot

=============================================================================
