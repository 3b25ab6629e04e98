---------------------------- MODULE StationStore ----------------------------
(***************************************************************************)
(* What the file of stations promises.  "store" is the list a load of the  *)
(* file would give, hidden stations included; "shown" the list the viewer  *)
(* zaps through; "edited" the list of the station manager window while it  *)
(* is open.  A save of scanned stations adds at the end, what is there     *)
(* stays; an edit is stored as it is made; a rewrite for changed PIDs      *)
(* stores the shown list.  A crash may cost the end of the list, never     *)
(* more; a rewrite that is refused costs all of it, and the shown list too *)
(* where that is read again.  Only where an append has been cut by a crash *)
(* ("cut") may a later save list a station twice.                          *)
(***************************************************************************)
EXTENDS StationLists, SequencesExt

VARIABLES store, shown, edited, cut

vars == <<store, shown, edited, cut>>

Init ==
    /\ store = <<>>
    /\ shown = <<>>
    /\ edited = <<>>
    /\ cut = FALSE

AddFound ==
    /\ IsPrefix(store, store')
    /\ cut \/ (Once(store) => Once(store'))
    /\ shown' \in {shown, Visible(store')}
    /\ UNCHANGED <<edited, cut>>

\* One edit of the manager's list: a station hidden or shown again, exchanged
\* with its neighbour, or deleted.
EditOf(s, t) ==
    \/ \E i \in DOMAIN s, v \in BOOLEAN : t = [s EXCEPT ![i].visible = v]
    \/ \E i \in 1 .. Len(s) - 1 : t = [s EXCEPT ![i] = s[i + 1], ![i + 1] = s[i]]
    \/ \E i \in DOMAIN s : t = RemoveAt(s, i)

Edit == EditOf(edited, edited') /\ store' = edited' /\ UNCHANGED <<shown, cut>>

EditInMemory == EditOf(edited, edited') /\ UNCHANGED <<store, shown, cut>>

StoreShown == store' = shown /\ UNCHANGED <<shown, edited, cut>>

OpenEditor == edited = <<>> /\ edited' = store /\ UNCHANGED <<store, shown, cut>>

CloseEditor ==
    /\ edited' = <<>>
    /\ shown' = Visible(store)
    /\ UNCHANGED <<store, cut>>

Reload == shown' = Visible(store) /\ UNCHANGED <<store, edited, cut>>

Crash ==
    /\ IsPrefix(store', store)
    /\ shown' = Visible(store')
    /\ edited' = <<>>
    /\ cut => cut'

Refused ==
    /\ store' = <<>>
    /\ shown' \in {shown, Visible(store')}
    /\ UNCHANGED <<edited, cut>>

Next ==
    AddFound \/ Edit \/ EditInMemory \/ StoreShown \/ OpenEditor \/ CloseEditor
    \/ Reload \/ Crash \/ Refused

Spec == Init /\ [][Next]_vars
=============================================================================
