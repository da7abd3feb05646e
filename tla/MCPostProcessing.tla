-------------------------- MODULE MCPostProcessing --------------------------
(* Instance of PostProcessing for TLC.  No property of its run compares    *)
(* contents, so the files all hold the same.                               *)
EXTENDS PostProcessing

OneContent == {"content"}
=============================================================================
