----------------------------- MODULE MCFirmware -----------------------------
(* The firmware with a reset button that is held for three samples. *)
EXTENDS Firmware
=============================================================================
