----------------------------- MODULE StationSeq -----------------------------
(***************************************************************************)
(* What a list of stations promises its users: a sequence.  Services are   *)
(* put in at the end while the list is filled; afterwards one can be taken *)
(* out or exchanged with its neighbour, and the list emptied.  ServiceList *)
(* shows that the linked nodes of dvb_service_list implement it.           *)
(***************************************************************************)
EXTENDS Naturals, Sequences, SequencesExt

CONSTANT Services   \* the services a list can hold

VARIABLE stations   \* the list

Swapped(s, i) == [s EXCEPT ![i] = s[i + 1], ![i + 1] = s[i]]

Init == stations = <<>>

PutLast(d)  == stations' = Append(stations, d)
TakeOut(i)  == stations' = RemoveAt(stations, i)
Exchange(i) == stations' = Swapped(stations, i)
Empty       == stations' = <<>>

Next ==
    \/ \E d \in Services : PutLast(d)
    \/ \E i \in 1 .. Len(stations) : TakeOut(i)
    \/ \E i \in 1 .. Len(stations) - 1 : Exchange(i)
    \/ Empty

Spec == Init /\ [][Next]_stations
=============================================================================
