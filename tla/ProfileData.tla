----------------------------- MODULE ProfileData -----------------------------
(***************************************************************************)
(* How a collection of dives becomes the body of a UDDF document: the gas  *)
(* definitions, which are made first, then the order of the dives, the     *)
(* surface intervals between them and the repetition groups they form      *)
(* (src/src/dif/uddf.c and src/src/dif/dif.c).                             *)
(*                                                                         *)
(* A dive keeps what these steps read of it.  Its start is in seconds;     *)
(* what glib makes of a NULL datetime (the difference is 0) is modelled    *)
(* where it happens.  Percentages are in thousandths, so that a double     *)
(* just short of 29 is 28999: casting it to gint is a division by 1000.    *)
(***************************************************************************)
EXTENDS Integers, Sequences

CONSTANTS
    Stamps,     \* when a dive may start, in seconds
    Day,        \* year, month and day of each of them, in local time
    Durations,  \* lengths of a dive, as the computer reports them
    Spans,      \* times between the first and the last sample of a dive
    Mixes,      \* gas mixes of a dive
    MaxGases,   \* bound: gas mixes of one dive
    MaxDives    \* bound: dives of the collection

Mix == [o2 : Nat, n2 : Nat, he : Nat]

ASSUME StampsAssumption == Stamps \subseteq Nat
ASSUME DayAssumption == Day \in [Stamps -> Nat \X (Nat \ {0}) \X (Nat \ {0})]
(* The local time of one zone: a calendar day is an interval of time.      *)
ASSUME DaysAreIntervals ==
    \A s, t, u \in Stamps : s <= t /\ t <= u /\ Day[s] = Day[u] => Day[t] = Day[s]
ASSUME LengthsAssumption == Durations \subseteq Nat /\ Spans \subseteq Nat
ASSUME MixesAssumption == Mixes \subseteq Mix
ASSUME BoundsAssumption == MaxGases \in Nat /\ MaxDives \in Nat

VARIABLES
    dives,          \* dc->dives
    phase,          \* how far the document has come
    at,             \* the dive the current loop is at
    gas,            \* the gas mix of that dive
    definitions,    \* the hash table gasMixes
    previous,       \* year1, month1 and day1
    open,           \* repetitionDives, as positions in dives
    groups          \* the repetition groups written, likewise

vars == <<dives, phase, at, gas, definitions, previous, open, groups>>

SurfaceIntervalMax == 86400     \* SURFACE_INTERVAL_MAX
GasEpsilon == 100               \* GAS_EPSILON, of a percentage

NoDate == -1        \* a NULL datetime
NoSamples == -1     \* an empty list of samples
Infinity == -1      \* <infinity/>; any negative interval is written so

Dated(d) == d.start # NoDate

-----------------------------------------------------------------------------
(* The names of gas mixes. *)

Abs(n) == IF n < 0 THEN -n ELSE n

Near(m, n) ==
    /\ Abs(m.o2 - n.o2) < GasEpsilon
    /\ Abs(m.n2 - n.n2) < GasEpsilon
    /\ Abs(m.he - n.he) < GasEpsilon

(* Air, EANx 30 to 40 and oxygen; the name of one is its oxygen here.      *)
Standard == {[o2 |-> p * 1000, n2 |-> (100 - p) * 1000, he |-> 0] : p \in {21, 100} \cup 30..40}

IsStandard(m) == \E s \in Standard : Near(m, s)
StandardMix(m) == CHOOSE s \in Standard : Near(m, s)

(* Fault: a name made of the oxygen alone.                                 *)
NameOfNitrox(m) ==
    [standard |-> IsStandard(m),
     mix |-> IF IsStandard(m) THEN StandardMix(m)
             ELSE [o2 |-> m.o2 \div 1000, n2 |-> 100 - m.o2 \div 1000, he |-> 0]]

(* dif_gasmix_name: that of a standard mix, or one made of the whole       *)
(* percentages.                                                            *)
Name(m) ==
    [standard |-> IsStandard(m),
     mix |-> IF IsStandard(m) THEN StandardMix(m)
             ELSE [o2 |-> m.o2 \div 1000, n2 |-> m.n2 \div 1000, he |-> m.he \div 1000]]

-----------------------------------------------------------------------------
(* The order of dives and what lies between them. *)

(* _dif_dive_compare(a, b) < 0: by date, and undated dives come last.      *)
Before(a, b) == Dated(a) /\ (~Dated(b) \/ a.start < b.start)

(* The orders a stable sort of the list may lead to: exactly one.          *)
StableOrder(list, order) ==
    /\ \A i, j \in DOMAIN list : order[i] = order[j] => i = j
    /\ \A i, j \in DOMAIN list :
          i < j => /\ ~Before(list[order[j]], list[order[i]])
                   /\ Before(list[order[i]], list[order[j]]) \/ order[i] < order[j]

(* The duration of a dive the computer gives none for is its samples'.     *)
Length(d) == IF d.duration = 0 /\ d.span # NoSamples THEN d.span ELSE d.duration

(* Faults: the interval since the start of the last dive; no limit.        *)
SinceStart(last, d) ==
    IF ~Dated(last) \/ ~Dated(d) THEN 0
    ELSE IF d.start - last.start > SurfaceIntervalMax THEN -1 ELSE d.start - last.start

(* Since the end of the last dive; glib's difference with NULL is 0.       *)
Since(last, d) ==
    IF ~Dated(last) \/ ~Dated(d) THEN 0
    ELSE LET diff == d.start - (last.start + last.duration)
         IN  IF diff > SurfaceIntervalMax THEN -1 ELSE diff

(* Fault: the date of the last group is kept.                              *)
KeyOfLast(d, last) == IF Dated(d) THEN Day[d.start] ELSE <<last[1], 0, 0>>

(* Fault: the year before instead.                                         *)
KeyOfYearBefore(d, last) == IF Dated(d) THEN Day[d.start] ELSE <<last[1] - 1, 0, 0>>

(* The date that decides whether a dive belongs to the current group.      *)
Key(d, last) == IF Dated(d) THEN Day[d.start] ELSE <<last[1] + 1, 0, 0>>

-----------------------------------------------------------------------------

Init ==
    /\ dives = <<>>
    /\ phase = "collect"
    /\ at = 1
    /\ gas = 1
    /\ definitions = {}
    /\ previous = <<0, 0, 0>>
    /\ open = <<>>
    /\ groups = <<>>

(* dif_dive_collection_add_dive, of a dive as doparse and the algorithms   *)
(* leave it.                                                               *)
Add(start, duration, span, gases) ==
    /\ phase = "collect"
    /\ Len(dives) < MaxDives
    /\ dives' = Append(dives, [start |-> start, duration |-> duration, span |-> span,
                               gases |-> gases, interval |-> -1])
    /\ UNCHANGED <<phase, at, gas, definitions, previous, open, groups>>

Save ==
    /\ phase = "collect"
    /\ phase' = "gases"
    /\ at' = 1
    /\ gas' = 1
    /\ UNCHANGED <<dives, definitions, previous, open, groups>>

(* _createGasDefinitions: the first mix of a name is stored.               *)
DefineGas ==
    /\ phase = "gases"
    /\ at <= Len(dives)
    /\ gas <= Len(dives[at].gases)
    /\ LET mix == dives[at].gases[gas]
       IN  definitions' = IF \E d \in definitions : d.name = Name(mix) THEN definitions
                          ELSE definitions \cup {[name |-> Name(mix), mix |-> mix]}
    /\ gas' = gas + 1
    /\ UNCHANGED <<dives, phase, at, previous, open, groups>>

NextDive ==
    /\ phase = "gases"
    /\ at <= Len(dives)
    /\ gas > Len(dives[at].gases)
    /\ at' = at + 1
    /\ gas' = 1
    /\ UNCHANGED <<dives, phase, definitions, previous, open, groups>>

GasesDefined ==
    /\ phase = "gases"
    /\ at > Len(dives)
    /\ phase' = "sort"
    /\ UNCHANGED <<dives, at, gas, definitions, previous, open, groups>>

(* dif_dive_collection_sort_dives; done twice, which changes nothing.      *)
Sort ==
    /\ phase = "sort"
    /\ phase' = "intervals"
    /\ at' = 1
    /\ \E order \in [DOMAIN dives -> DOMAIN dives] :
          /\ StableOrder(dives, order)
          /\ dives' = [i \in DOMAIN dives |-> dives[order[i]]]
    /\ UNCHANGED <<gas, definitions, previous, open, groups>>

(* One dive of dif_dive_collection_calculate_surface_interval.             *)
SurfaceInterval ==
    /\ phase = "intervals"
    /\ at <= Len(dives)
    /\ LET dive == dives[at]
       IN  dives' = [dives EXCEPT ![at] =
              [dive EXCEPT !.duration = Length(dive),
                           !.interval = IF at = 1 THEN -1 ELSE Since(dives[at - 1], dive)]]
    /\ at' = at + 1
    /\ UNCHANGED <<phase, gas, definitions, previous, open, groups>>

IntervalsCalculated ==
    /\ phase = "intervals"
    /\ at > Len(dives)
    /\ phase' = "groups"
    /\ at' = 1
    /\ UNCHANGED <<dives, gas, definitions, previous, open, groups>>

(* The current group is written, if there is one.                          *)
CloseGroup == groups' = IF open = <<>> THEN groups ELSE Append(groups, open)

(* One dive of the loop of _createProfileData.                             *)
Group ==
    /\ phase = "groups"
    /\ at <= Len(dives)
    /\ previous' = Key(dives[at], previous)
    /\ \/ /\ previous' # previous
          /\ CloseGroup
          /\ open' = <<at>>
       \/ /\ previous' = previous
          /\ open' = Append(open, at)
          /\ UNCHANGED groups
    /\ at' = at + 1
    /\ UNCHANGED <<dives, phase, gas, definitions>>

(* Fault: the last group is forgotten.                                     *)
GroupedButTheLast ==
    /\ phase = "groups"
    /\ at > Len(dives)
    /\ open' = <<>>
    /\ phase' = "saved"
    /\ UNCHANGED <<dives, at, gas, definitions, previous, groups>>

Grouped ==
    /\ phase = "groups"
    /\ at > Len(dives)
    /\ CloseGroup
    /\ open' = <<>>
    /\ phase' = "saved"
    /\ UNCHANGED <<dives, at, gas, definitions, previous>>

Gases == UNION {[1..n -> Mixes] : n \in 0..MaxGases}

Next ==
    \/ \E start \in Stamps \cup {NoDate}, duration \in Durations,
          span \in Spans \cup {NoSamples}, gases \in Gases :
          Add(start, duration, span, gases)
    \/ Save
    \/ DefineGas \/ NextDive \/ GasesDefined
    \/ Sort
    \/ SurfaceInterval \/ IntervalsCalculated
    \/ Group \/ Grouped

Spec == Init /\ [][Next]_vars

-----------------------------------------------------------------------------
(* The document. *)

(* What _createDive writes of a dive before its samples.                   *)
Passed(d) == IF d.interval < 0 THEN Infinity ELSE d.interval

(* A tankdata for each gas mix; its pressure depends on the samples, which *)
(* are the subject of DiveAlgos.                                           *)
Tankdata(d) == [i \in DOMAIN d.gases |-> [link |-> Name(d.gases[i])]]

-----------------------------------------------------------------------------
(* Properties *)

Phases == {"collect", "gases", "sort", "intervals", "groups", "saved"}

Dive == [start : Stamps \cup {NoDate}, duration : Nat, span : Spans \cup {NoSamples},
         gases : Seq(Mixes), interval : Int]

Definition == [name : [standard : BOOLEAN, mix : Mix], mix : Mixes]

TypeOK ==
    /\ dives \in Seq(Dive)
    /\ phase \in Phases
    /\ at \in Nat \ {0}
    /\ gas \in Nat \ {0}
    /\ definitions \subseteq Definition
    /\ previous \in Nat \X Nat \X Nat
    /\ open \in Seq(Nat)
    /\ groups \in Seq(Seq(Nat))

(* The lists of dives follow on each other without a gap, from 1 to `last`.*)
Tile(lists, last) ==
    /\ \A g \in DOMAIN lists :
          /\ lists[g] # <<>>
          /\ \A k \in DOMAIN lists[g] : lists[g][k] = lists[g][1] + k - 1
          /\ IF g = 1 THEN lists[g][1] = 1
             ELSE lists[g][1] = lists[g - 1][1] + Len(lists[g - 1])
    /\ last = IF lists = <<>> THEN 0
              ELSE lists[Len(lists)][1] + Len(lists[Len(lists)]) - 1

(* No dive is left out of the document, written twice or out of order: the *)
(* groups the loop of _createProfileData writes (uddf.c:467-504), the one  *)
(* after the loop included, tile the sorted list.                          *)
GroupsTile == phase = "saved" => Tile(groups, Len(dives))

Together(i, j) == \E g \in DOMAIN groups :
    \E k, l \in DOMAIN groups[g] : groups[g][k] = i /\ groups[g][l] = j

(* "if a date isn't present, always give it a new repetition group"        *)
(* (uddf.c:474), and else dives are together iff they are of one day: that *)
(* takes the sort, which puts undated dives behind all others, and keys of *)
(* undated dives that no date has.                                         *)
GroupsAreDays ==
    phase = "saved" =>
        \A i, j \in DOMAIN dives :
            Together(i, j) <=>
                \/ i = j
                \/ /\ Dated(dives[i]) /\ Dated(dives[j])
                   /\ Day[dives[i].start] = Day[dives[j].start]

(* A time passed since the last dive is true, between dives with a date    *)
(* (dif.c:484-512): the last dive that started before ended that long ago, *)
(* in the order the download delivered them or any other, and for a dive   *)
(* without a duration its samples tell when it ended.                      *)
PassedTimeTrue ==
    phase = "saved" =>
        \A i \in DOMAIN dives :
            Dated(dives[i]) /\ Passed(dives[i]) # Infinity =>
                /\ Passed(dives[i]) \in 0..SurfaceIntervalMax
                /\ i > 1
                /\ dives[i].start = dives[i - 1].start + Length(dives[i - 1])
                                        + Passed(dives[i])
                /\ \A j \in DOMAIN dives :
                      Dated(dives[j]) /\ j > i => dives[j].start >= dives[i].start

(* Every gas a dive links to is defined, once, by a mix that is within one *)
(* percent of the dive's own in each gas, although the definitions are     *)
(* made before the dives are sorted and are found by name only.            *)
LinksResolve ==
    phase = "saved" =>
        \A i \in DOMAIN dives : \A k \in DOMAIN dives[i].gases :
            LET link == Tankdata(dives[i])[k].link
                mix == dives[i].gases[k]
            IN  \E d \in definitions :
                    /\ d.name = link
                    /\ \A e \in definitions : e.name = link => e = d
                    /\ Abs(d.mix.o2 - mix.o2) < 1000
                    /\ Abs(d.mix.n2 - mix.n2) < 1000
                    /\ Abs(d.mix.he - mix.he) < 1000

=============================================================================
