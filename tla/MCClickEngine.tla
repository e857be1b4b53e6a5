---------------------------- MODULE MCClickEngine ----------------------------
(* Instances of ClickEngine.  At 100 and 200 Hz the longest click lasts 6 and *)
(* 12 samples.                                                                *)
EXTENDS ClickEngine
=============================================================================
