---------------------------- MODULE MCDaqSystem ----------------------------
(* Instance of DaqSystem for TLC: menu contents as model values.           *)
EXTENDS DaqSystem
=============================================================================
