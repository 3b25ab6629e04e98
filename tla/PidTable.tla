------------------------------ MODULE PidTable ------------------------------
(* The slot table behind the hardware PID filter of libdtv/ts_live: every    *)
(* search the driver wrapper makes over its slots is a scan from index 0     *)
(* that stops at the first hit, so one operator, Least, stands for each of   *)
(* those loops.  PidFilter keeps such a table slot by slot; DtvCore keeps    *)
(* one whose entries also say which ring buffer the slot feeds.              *)
EXTENDS Integers

\* The index at which a loop over the slots stops: the first one in S.
Least(S) == CHOOSE i \in S : \A j \in S : i <= j

\* The slots of table whose entry satisfies being one of the wanted ones.
SlotsIn(table, wanted) == {i \in DOMAIN table : table[i] \in wanted}
=============================================================================
