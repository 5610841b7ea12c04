---------------------------- MODULE MCProfileData ----------------------------
(* Small instances of ProfileData. *)
EXTENDS ProfileData

(* Two mornings of one day, as far apart as a dive is long, and the next   *)
(* day: more than a day after the first dive began, less after it ended.   *)
Starts == {87000, 94000, 175000}

Calendar == [s \in Starts |-> <<2024, 1, (s \div 86400) + 28>>]

(* A trimix and its neighbour, of one name: 0.15, 0.57 and 0.28 as doubles *)
(* multiplied by 100, and 0.15, 0.56 and 0.29.  Another one of as much     *)
(* oxygen, and EANx 32, not quite.                                         *)
Cylinders == {[o2 |-> 15000, n2 |-> 56999, he |-> 28000],
              [o2 |-> 15000, n2 |-> 56000, he |-> 28999],
              [o2 |-> 15000, n2 |-> 40000, he |-> 45000],
              [o2 |-> 32050, n2 |-> 67950, he |-> 0]}

=============================================================================
