---------------------------- MODULE MCPlayCtrl ----------------------------
(* The screen control for TLC: two channels, short counters *)
EXTENDS PlayCtrl
=============================================================================
