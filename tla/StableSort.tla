----------------------------- MODULE StableSort -----------------------------
(***************************************************************************)
(* The sort of the lists of glib (g_list_sort), which the samples of a     *)
(* dive and the elements of a waypoint are put in order with: elements     *)
(* that compare as equal stay as they are.                                 *)
(***************************************************************************)
EXTENDS Integers, Sequences, FiniteSets

(* The positions, in the order in which the sort leaves them: each has the *)
(* place behind those that come before it.                                 *)
StableOrder(keys) ==
    LET before(i, j) == keys[i] < keys[j] \/ (keys[i] = keys[j] /\ i < j)
        place == [j \in DOMAIN keys |-> Cardinality({i \in DOMAIN keys : before(i, j)}) + 1]
    IN  [k \in DOMAIN keys |-> CHOOSE j \in DOMAIN keys : place[j] = k]

SortedBy(list, key(_)) ==
    LET order == StableOrder([i \in DOMAIN list |-> key(list[i])])
    IN  [k \in DOMAIN list |-> list[order[k]]]

=============================================================================
