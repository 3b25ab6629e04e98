----------------------------- MODULE MCAutoScan -----------------------------
(* AutoScan on two frequencies, enough for a scan to be cut between them,    *)
(* and with two handlers inside one another.                                 *)
EXTENDS AutoScan
=============================================================================
