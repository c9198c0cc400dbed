------------------------- MODULE MCCapconGenerators -------------------------
(* All scripts, each from start to end; the time a call of systemd-run may *)
(* take is given in the configuration, in tenths of a second.              *)
EXTENDS CapconGenerators
=============================================================================
