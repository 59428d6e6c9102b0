--------------------------- MODULE MCFirmwareTrial ---------------------------
(* The instance of FirmwareTrial.                                          *)
EXTENDS FirmwareTrial
=============================================================================
