---------------------------- MODULE ServiceList -----------------------------
(***************************************************************************)
(* The linked list of services of libdtv (misc/service_list.cpp): nodes,   *)
(* a head and an end pointer, a counter.  Its mutex is commented out in    *)
(* every function, so an operation is atomic only because one thread at a  *)
(* time works on a list.                                                   *)
(*                                                                         *)
(* A list is used in rounds, by service_manager and by the scan alike: it  *)
(* is filled (load_services_from_file, the SDT parser), then only edited   *)
(* (remove_nth_node, move_down, move_up), then destroyed.  "filling" says  *)
(* in which part of the round the list is.                                 *)
(*                                                                         *)
(* A node stands for the service it carries as well (node and data are     *)
(* allocated and freed together).  A step that follows a pointer to a      *)
(* node that is not allocated sets badAccess: the C++ program's behaviour  *)
(* is undefined from there on.                                             *)
(***************************************************************************)
EXTENDS Naturals, FiniteSets, Sequences

CONSTANTS
    Nodes,    \* the addresses new can return
    NULL      \* the null pointer

ASSUME NodeAssumption == NULL \notin Nodes /\ IsFiniteSet(Nodes)

VARIABLES
    list_head,   \* pointer to the first node
    list_end,    \* pointer the next add starts from
    list_cnt,    \* number of services
    next,        \* the next pointer of every allocated node
    filling,     \* TRUE until the first edit of this round
    badAccess    \* a freed node or the null pointer was followed

vars == <<list_head, list_end, list_cnt, next, filling, badAccess>>

Pointer == Nodes \cup {NULL}
Live == DOMAIN next

\* The nodes met from p on, as the loops "while(temp->next != NULL)" and
\* "temp = temp->next" of the code walk them.  A walk ends at the null
\* pointer, or at a pointer that leads to no allocated node.
Path(p) ==
    LET hop[n \in 0 .. Cardinality(Nodes)] ==
            IF n = 0 THEN p
            ELSE IF hop[n - 1] \in Live THEN next[hop[n - 1]] ELSE NULL
        on == {n \in 0 .. Cardinality(Nodes) : hop[n] \in Live}
    IN  [i \in 1 .. Cardinality(on) |-> hop[i - 1]]

\* The null pointer or a loop that comes back to where it was are no nodes of
\* the walk, a pointer to freed memory is an access to it.
Dangles(p) ==
    LET w == Path(p) IN
    \/ w = <<>> /\ p # NULL
    \/ w # <<>> /\ next[w[Len(w)]] \notin Live \cup {NULL}

TypeOK ==
    /\ list_head \in Pointer
    /\ list_end \in Pointer
    /\ list_cnt \in 0 .. Cardinality(Nodes)
    /\ Live \subseteq Nodes
    /\ \A n \in Live : next[n] \in Pointer
    /\ filling \in BOOLEAN
    /\ badAccess \in BOOLEAN

Init ==
    /\ list_head = NULL
    /\ list_end = NULL
    /\ list_cnt = 0
    /\ next = [n \in {} |-> NULL]
    /\ filling = TRUE
    /\ badAccess = FALSE

Linked(f, n, to) == [m \in DOMAIN f \cup {n} |-> IF m = n THEN to ELSE f[m]]
Freed(f, n) == [m \in DOMAIN f \ {n} |-> f[m]]

\* add_to_list: into an empty list, or behind the last node that is found by
\* walking on from list_end.
add_to_list(n) ==
    /\ filling
    /\ n \notin Live
    /\ \/ /\ list_head = NULL
          /\ list_head' = n
          /\ next' = Linked(next, n, NULL)
          /\ badAccess' = badAccess
       \/ /\ list_head # NULL
          /\ LET w == Path(list_end) IN
             IF w = <<>>
             THEN /\ badAccess' = TRUE
                  /\ next' = Linked(next, n, NULL)
             ELSE /\ next' = Linked(Linked(next, n, NULL), w[Len(w)], n)
                  /\ badAccess' = (badAccess \/ Dangles(list_end))
          /\ UNCHANGED list_head
    /\ list_end' = n
    /\ list_cnt' = list_cnt + 1
    /\ UNCHANGED filling

\* remove_nth_node: the first node has a branch of its own; list_end stays
\* where it is, whatever was removed.  A position outside the list, or an
\* empty list, changes nothing.
remove_nth_node(pos) ==
    /\ list_head # NULL
    /\ pos < list_cnt
    /\ LET w == Path(list_head) IN
       IF pos = 0
       THEN /\ list_head' = next[w[1]]
            /\ next' = Freed(next, w[1])
       ELSE /\ next' = Freed(Linked(next, w[pos], next[w[pos + 1]]), w[pos + 1])
            /\ UNCHANGED list_head
    /\ list_cnt' = list_cnt - 1
    /\ filling' = FALSE
    /\ UNCHANGED <<list_end, badAccess>>

\* Faulty: the node behind the pair is not hung onto the node moved back, so
\* the rest of the list is cut off.
ExchangedCutsTail(prev, a, b) ==
    LET f1 == [next EXCEPT ![a] = NULL]
        f2 == [f1 EXCEPT ![b] = a]
    IN  IF prev = NULL THEN f2 ELSE [f2 EXCEPT ![prev] = b]

\* The exchange of the nodes a and b = a->next behind prev, in the order of
\* the assignments of the code.
Exchanged(prev, a, b) ==
    LET f1 == [next EXCEPT ![a] = next[b]]
        f2 == [f1 EXCEPT ![b] = a]
    IN  IF prev = NULL THEN f2 ELSE [f2 EXCEPT ![prev] = b]

\* move_down, index counted from 1: the first node is exchanged without
\* looking whether there is a second one; the last one stays where it is.
move_down(index) ==
    /\ list_head # NULL
    /\ LET w == Path(list_head) IN
       \/ /\ index = 1
          /\ IF Len(w) = 1
             THEN badAccess' = TRUE /\ UNCHANGED <<list_head, next>>
             ELSE /\ next' = Exchanged(NULL, w[1], w[2])
                  /\ list_head' = w[2]
                  /\ UNCHANGED badAccess
       \/ /\ index \in 2 .. Len(w) - 1
          /\ next' = Exchanged(w[index - 1], w[index], w[index + 1])
          /\ UNCHANGED <<list_head, badAccess>>
    /\ filling' = FALSE
    /\ UNCHANGED <<list_end, list_cnt>>

\* move_up: the first node stays, the second becomes the head, the others
\* change places with the node before them.
move_up(index) ==
    /\ list_head # NULL
    /\ LET w == Path(list_head) IN
       \/ /\ index = 2
          /\ IF Len(w) = 1
             THEN badAccess' = TRUE /\ UNCHANGED <<list_head, next>>
             ELSE /\ next' = Exchanged(NULL, w[1], w[2])
                  /\ list_head' = w[2]
                  /\ UNCHANGED badAccess
       \/ /\ index \in 3 .. Len(w)
          /\ next' = Exchanged(w[index - 2], w[index - 1], w[index])
          /\ UNCHANGED <<list_head, badAccess>>
    /\ filling' = FALSE
    /\ UNCHANGED <<list_end, list_cnt>>

\* destroy_list: walks from the head and frees every node; nothing happens
\* when the counter is 0.
destroy_list ==
    /\ IF list_cnt = 0
       THEN UNCHANGED <<list_head, list_end, list_cnt, next, badAccess>>
       ELSE /\ badAccess' = (badAccess \/ Dangles(list_head))
            /\ next' = [n \in Live \ {Path(list_head)[i] : i \in DOMAIN Path(list_head)}
                           |-> next[n]]
            /\ list_head' = NULL
            /\ list_end' = NULL
            /\ list_cnt' = 0
    /\ filling' = TRUE

(***************************************************************************)
(* The callers.  QTvServiceManager::doSigMenuAction moves the station      *)
(* under the cursor (index current_ch_idx + 1) down unless it is the last  *)
(* and up unless it is the first; Service_Delete, ServiceRemoveFromList    *)
(* and DTV_Scan remove a position they have checked against the count.     *)
(***************************************************************************)
\* Faulty: the last station is not looked for.
KeyDownAnywhere(idx) == idx < list_cnt /\ move_down(idx + 1)

KeyDown(idx) == idx < list_cnt - 1 /\ move_down(idx + 1)
KeyUp(idx) == idx \in 1 .. list_cnt - 1 /\ move_up(idx + 1)

Next ==
    \/ \E n \in Nodes : add_to_list(n)
    \/ \E pos \in 0 .. Cardinality(Nodes) - 1 :
          remove_nth_node(pos) \/ KeyDown(pos) \/ KeyUp(pos)
    \/ destroy_list

Spec == Init /\ [][Next]_vars

-----------------------------------------------------------------------------
(***************************************************************************)
(* Properties.                                                             *)
(***************************************************************************)

\* No operation of the callers follows the null pointer or a freed node,
\* although remove_nth_node and the moves leave list_end behind
\* (service_list.cpp:75, 229, 326, 387).
NoBadAccess == ~badAccess

Sequence == INSTANCE StationSeq WITH Services <- Nodes, stations <- Path(list_head)

\* The nodes implement a sequence: what get_from_list counts off from the head
\* changes by one append, one removal, one exchange of neighbours or all at
\* once (service_list.cpp:48-442).
ImplementsSequence == Sequence!Spec
=============================================================================
