---------------------------- MODULE MCPidFilter -----------------------------
(* PidFilter on a table of three slots: two PIDs suffice for one of them to  *)
(* be loaded twice beside the other, and for a slot freed in the middle to   *)
(* be taken again.                                                           *)
EXTENDS PidFilter

CONSTANTS pat, eit, media, epg

MCPids == {pat, eit}
MCBuffers == {media, epg}
=============================================================================
