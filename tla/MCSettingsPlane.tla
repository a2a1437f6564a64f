--------------------------- MODULE MCSettingsPlane ---------------------------
(* All settings of two flags, and engines that apply a few of them.            *)
EXTENDS SettingsPlane
=============================================================================
