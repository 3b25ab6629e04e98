---------------------------- MODULE StationLists ----------------------------
(***************************************************************************)
(* Lists of stations, shared by the file of stations (ServiceFile) and by  *)
(* what it promises (StationStore): the loop that copies the wanted        *)
(* elements of a list, the hidden stations left out of a list, and the     *)
(* identities a list holds.                                                *)
(***************************************************************************)
EXTENDS Naturals, Sequences

\* The elements of s that are in wanted, in their order.
Selected(s, wanted) ==
    LET upTo[n \in 0 .. Len(s)] ==
            IF n = 0 THEN <<>>
            ELSE IF s[n] \in wanted THEN Append(upTo[n - 1], s[n])
            ELSE upTo[n - 1]
    IN  upTo[Len(s)]

\* Without the stations that are hidden.
Visible(s) == Selected(s, {r \in {s[i] : i \in DOMAIN s} : r.visible})

Ids(s) == {s[i].id : i \in DOMAIN s}

\* No station twice.
Once(s) == \A i, j \in DOMAIN s : s[i].id = s[j].id => i = j
=============================================================================
