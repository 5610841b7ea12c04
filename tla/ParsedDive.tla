----------------------------- MODULE ParsedDive -----------------------------
(***************************************************************************)
(* What dive_cb may rely on when it hands a record to doparse and does not *)
(* look at what it returns (src/src/dc2uddf.c:584): whatever the parser    *)
(* answers, the record has become one dive of the collection, with the     *)
(* date of dif_dive_alloc until its own is known, and one without a date   *)
(* of its own has failed.  Session takes this as a single step.            *)
(***************************************************************************)

CONSTANT Dates      \* that a dive may have, that of no date included

VARIABLES date, verdict

vars == <<date, verdict>>

Absent == "absent"
Placeholder == "placeholder"

Init == date = Absent /\ verdict = "pending"

Collect ==
    /\ date = Absent
    /\ date' = Placeholder
    /\ UNCHANGED verdict

GetDate ==
    /\ date = Placeholder
    /\ verdict = "pending"
    /\ date' \in Dates
    /\ UNCHANGED verdict

Return ==
    /\ date # Absent
    /\ verdict = "pending"
    /\ \/ verdict' = "success" /\ date # Placeholder
       \/ verdict' = "error"
    /\ UNCHANGED date

Next == Collect \/ GetDate \/ Return

Spec == Init /\ [][Next]_vars

=============================================================================
