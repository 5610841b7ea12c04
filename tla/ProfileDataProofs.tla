------------------------- MODULE ProfileDataProofs -------------------------
(***************************************************************************)
(* Proofs about ProfileData, for collections of any dives: links to gases  *)
(* resolve, times passed are true, and the repetition groups tile the      *)
(* dives, one group for each day.                                          *)
(***************************************************************************)
EXTENDS ProfileData, TLAPS

-----------------------------------------------------------------------------
(* Names of mixes. *)

LEMMA StandardType ==
    ASSUME NEW s \in Standard PROVE s \in Mix
BY DEF Standard, Mix

LEMMA StandardIs ==
    ASSUME NEW m, IsStandard(m) PROVE StandardMix(m) \in Standard /\ Near(m, StandardMix(m))
BY DEF IsStandard, StandardMix

LEMMA NameType ==
    ASSUME NEW m \in Mix PROVE Name(m) \in [standard : BOOLEAN, mix : Mix]
<1>1. IsStandard(m) \in BOOLEAN /\ (IsStandard(m) => StandardMix(m) \in Mix)
  BY StandardIs, StandardType DEF IsStandard
<1>2. m.o2 \div 1000 \in Nat /\ m.n2 \div 1000 \in Nat /\ m.he \div 1000 \in Nat
  BY DEF Mix
<1>3. [o2 |-> m.o2 \div 1000, n2 |-> m.n2 \div 1000, he |-> m.he \div 1000] \in Mix
  BY <1>2 DEF Mix
<1>. QED  BY <1>1, <1>3 DEF Name

(* Two mixes of one name are within one percent of each other.             *)
LEMMA NameTells ==
    ASSUME NEW m \in Mix, NEW n \in Mix, Name(m) = Name(n)
    PROVE  /\ Abs(m.o2 - n.o2) < 1000
           /\ Abs(m.n2 - n.n2) < 1000
           /\ Abs(m.he - n.he) < 1000
<1>1. /\ m.o2 \in Nat /\ m.n2 \in Nat /\ m.he \in Nat
      /\ n.o2 \in Nat /\ n.n2 \in Nat /\ n.he \in Nat
  BY DEF Mix
<1>2. (IsStandard(m) <=> IsStandard(n)) /\ Name(m).mix = Name(n).mix
  BY DEF Name, IsStandard
<1>3. CASE IsStandard(m)
  <2>1. StandardMix(m) = StandardMix(n)
    BY <1>2, <1>3 DEF Name
  <2>2. Near(m, StandardMix(m)) /\ Near(n, StandardMix(m)) /\ StandardMix(m) \in Mix
    BY <1>2, <1>3, <2>1, StandardIs, StandardType
  <2>. QED  BY <1>1, <2>2 DEF Near, Abs, Mix, GasEpsilon
<1>4. CASE ~IsStandard(m)
  <2>1. /\ m.o2 \div 1000 = n.o2 \div 1000
        /\ m.n2 \div 1000 = n.n2 \div 1000
        /\ m.he \div 1000 = n.he \div 1000
    BY <1>2, <1>4 DEF Name
  <2>2. ASSUME NEW x \in Nat, NEW y \in Nat, x \div 1000 = y \div 1000
        PROVE  Abs(x - y) < 1000
    <3>1. x - y < 1000 /\ y - x < 1000
      BY <2>2
    <3>2. x - y \in Int
      OBVIOUS
    <3>. QED  BY <3>1, <3>2 DEF Abs
  <2>. QED  BY <1>1, <2>1, <2>2
<1>. QED  BY <1>3, <1>4

-----------------------------------------------------------------------------
(* Types. *)

LEMMA StampType ==
    ASSUME NEW d \in Dive
    PROVE  /\ d.start \in Int
           /\ Dated(d) => d.start \in Stamps /\ d.start \in Nat
           /\ Length(d) \in Nat
<1>1. d.start \in Int /\ (Dated(d) => d.start \in Stamps /\ d.start \in Nat)
  <2>1. d.start \in Stamps \cup {NoDate}
    BY DEF Dive
  <2>2. NoDate \in Int /\ \A n \in Stamps : n \in Nat
    BY StampsAssumption DEF NoDate
  <2>. QED  BY <2>1, <2>2 DEF Dated
<1>2. Length(d) \in Nat
  <2>1. d.duration \in Nat /\ (d.span # NoSamples => d.span \in Nat)
    BY LengthsAssumption DEF Dive
  <2>. QED  BY <2>1 DEF Length, Dive
<1>. QED  BY <1>1, <1>2

LEMMA KeyType ==
    ASSUME NEW d \in Dive, NEW last \in Nat \X Nat \X Nat
    PROVE  /\ Key(d, last) \in Nat \X Nat \X Nat
           /\ ~Dated(d) => Key(d, last) # last /\ Key(d, last)[2] = 0
           /\ Dated(d) => Key(d, last) = Day[d.start] /\ Key(d, last)[2] # 0
BY StampType, DayAssumption DEF Key

LEMMA SinceType ==
    ASSUME NEW d \in Dive, NEW e \in Dive
    PROVE  Since(d, e) \in Int
BY StampType DEF Since, Dive

LEMMA ReplaceType ==
    ASSUME NEW S, NEW s \in Seq(S), NEW i, NEW e \in S
    PROVE  /\ [s EXCEPT ![i] = e] \in Seq(S)
           /\ Len([s EXCEPT ![i] = e]) = Len(s)
<1>1. s \in [1..Len(s) -> S] /\ Len(s) \in Nat
  OBVIOUS
<1>2. [s EXCEPT ![i] = e] \in [1..Len(s) -> S]
  BY <1>1
<1>3. \A n \in Nat : \A f \in [1..n -> S] : f \in Seq(S) /\ Len(f) = n
  OBVIOUS
<1>. QED  BY <1>1, <1>2, <1>3

LEMMA CloseGroupType ==
    ASSUME TypeOK, CloseGroup PROVE groups' \in Seq(Seq(Nat))
BY DEF TypeOK, CloseGroup

LEMMA TypeNext == ASSUME TypeOK, [Next]_vars PROVE TypeOK'
<1>1. ASSUME NEW start \in Stamps \cup {NoDate}, NEW duration \in Durations,
             NEW span \in Spans \cup {NoSamples}, NEW gases \in Gases,
             Add(start, duration, span, gases)
      PROVE  TypeOK'
  <2>1. gases \in Seq(Mixes)
    BY BoundsAssumption DEF Gases
  <2>2. duration \in Nat
    BY LengthsAssumption
  <2>3. [start |-> start, duration |-> duration, span |-> span, gases |-> gases,
         interval |-> -1] \in Dive
    BY <2>1, <2>2 DEF Dive
  <2>4. dives' \in Seq(Dive)
    BY <1>1, <2>3 DEF TypeOK, Add
  <2>. QED  BY <1>1, <2>4 DEF TypeOK, Add
<1>2. CASE Save
  BY <1>2 DEF TypeOK, Save, Phases
<1>3. CASE DefineGas
  <2>1. dives[at] \in Dive
    BY <1>3 DEF TypeOK, DefineGas
  <2>. DEFINE mix == dives[at].gases[gas]
  <2>2. mix \in Mixes
    <3>1. dives[at].gases \in Seq(Mixes)
      BY <2>1 DEF Dive
    <3>2. gas \in 1..Len(dives[at].gases)
      BY <1>3, <3>1 DEF TypeOK, DefineGas
    <3>. QED  BY <3>1, <3>2
  <2>3. Name(mix) \in [standard : BOOLEAN, mix : Mix]
    BY <2>2, NameType, MixesAssumption
  <2>4. [name |-> Name(mix), mix |-> mix] \in Definition
    BY <2>2, <2>3 DEF Definition
  <2>5. definitions' \subseteq Definition
    BY <1>3, <2>4 DEF DefineGas, TypeOK
  <2>6. UNCHANGED <<dives, phase, at, previous, open, groups>> /\ gas' = gas + 1
    BY <1>3 DEF DefineGas
  <2>7. gas' \in Nat \ {0}
    BY <2>6 DEF TypeOK
  <2>. QED  BY <2>5, <2>6, <2>7 DEF TypeOK
<1>4. CASE NextDive \/ GasesDefined
  <2>1. /\ phase' \in Phases /\ at' \in {at, at + 1} /\ gas' \in {gas, 1}
        /\ UNCHANGED <<dives, definitions, previous, open, groups>>
    BY <1>4 DEF NextDive, GasesDefined, TypeOK, Phases
  <2>. QED  BY <2>1 DEF TypeOK
<1>5. CASE Sort
  <2>1. PICK order \in [DOMAIN dives -> DOMAIN dives] :
            dives' = [i \in DOMAIN dives |-> dives[order[i]]]
    BY <1>5 DEF Sort
  <2>2. dives' \in Seq(Dive)
    BY <2>1, SMTT(20) DEF TypeOK
  <2>. QED  BY <1>5, <2>2 DEF Sort, TypeOK, Phases
<1>6. CASE SurfaceInterval
  <2>1. dives[at] \in Dive /\ (at # 1 => dives[at - 1] \in Dive)
    <3>1. dives \in Seq(Dive) /\ at \in Nat \ {0} /\ at <= Len(dives)
      BY <1>6 DEF SurfaceInterval, TypeOK
    <3>. QED  BY <3>1
  <2>2. Length(dives[at]) \in Nat
    BY <2>1, StampType
  <2>3. at # 1 => Since(dives[at - 1], dives[at]) \in Int
    BY <2>1, SinceType
  <2>. DEFINE interval == IF at = 1 THEN -1 ELSE Since(dives[at - 1], dives[at])
  <2>4. interval \in Int
    BY <2>3
  <2>5. [dives[at] EXCEPT !.duration = Length(dives[at]), !.interval = interval] \in Dive
    BY <2>1, <2>2, <2>4 DEF Dive
  <2>6. dives' = [dives EXCEPT ![at] =
                    [dives[at] EXCEPT !.duration = Length(dives[at]), !.interval = interval]]
    BY <1>6, Zenon DEF SurfaceInterval
  <2>7. dives' \in Seq(Dive)
    BY <2>5, <2>6, ReplaceType DEF TypeOK
  <2>. QED  BY <1>6, <2>7 DEF SurfaceInterval, TypeOK
<1>7. CASE IntervalsCalculated
  BY <1>7 DEF IntervalsCalculated, TypeOK, Phases
<1>8. CASE Group
  <2>1. dives[at] \in Dive
    BY <1>8 DEF Group, TypeOK
  <2>2. previous' \in Nat \X Nat \X Nat
    BY <1>8, <2>1, KeyType DEF Group, TypeOK
  <2>3. open' \in Seq(Nat) /\ groups' \in Seq(Seq(Nat))
    <3>1. <<at>> \in Seq(Nat) /\ Append(open, at) \in Seq(Nat)
      BY DEF TypeOK
    <3>2. open' \in {<<at>>, Append(open, at)}
      BY <1>8 DEF Group
    <3>3. CloseGroup \/ groups' = groups
      BY <1>8 DEF Group
    <3>. QED  BY <3>1, <3>2, <3>3, CloseGroupType DEF TypeOK
  <2>. QED  BY <1>8, <2>2, <2>3 DEF Group, TypeOK
<1>9. CASE Grouped
  BY <1>9, CloseGroupType DEF Grouped, TypeOK, Phases
<1>10. CASE UNCHANGED vars
  BY <1>10 DEF vars, TypeOK
<1>. QED  BY <1>1, <1>2, <1>3, <1>4, <1>5, <1>6, <1>7, <1>8, <1>9, <1>10 DEF Next

THEOREM TypeCorrect == Spec => []TypeOK
<1>1. Init => TypeOK
  BY DEF Init, TypeOK, Phases
<1>. QED  BY <1>1, TypeNext, PTL DEF Spec

-----------------------------------------------------------------------------
(* Gas definitions. *)

(* The loops of _createGasDefinitions have been at this mix of a dive.     *)
Visited(i, k) ==
    \/ phase \notin {"collect", "gases"}
    \/ phase = "gases" /\ (i < at \/ (i = at /\ k < gas))

GasInvariant ==
    /\ \A d \in definitions : d.name = Name(d.mix)
    /\ \A d, e \in definitions : d.name = e.name => d = e
    /\ \A i \in DOMAIN dives : \A k \in DOMAIN dives[i].gases :
          Visited(i, k) => \E d \in definitions : d.name = Name(dives[i].gases[k])

LEMMA GasType ==
    ASSUME TypeOK, NEW i \in DOMAIN dives, NEW k \in DOMAIN dives[i].gases
    PROVE  /\ i \in 1..Len(dives) /\ Len(dives) \in Nat
           /\ k \in 1..Len(dives[i].gases) /\ Len(dives[i].gases) \in Nat
           /\ dives[i].gases[k] \in Mixes
<1>1. dives[i] \in Dive
  BY DEF TypeOK
<1>2. dives[i].gases \in Seq(Mixes)
  BY <1>1 DEF Dive
<1>3. \A s \in Seq(Mixes) : \A n \in DOMAIN s :
         n \in 1..Len(s) /\ Len(s) \in Nat /\ s[n] \in Mixes
  OBVIOUS
<1>4. i \in 1..Len(dives) /\ Len(dives) \in Nat
  BY DEF TypeOK
<1>. QED  BY <1>2, <1>3, <1>4

LEMMA GasNext == ASSUME TypeOK, GasInvariant, [Next]_vars PROVE GasInvariant'
<1>1. ASSUME NEW start, NEW duration, NEW span, NEW gases,
             Add(start, duration, span, gases)
      PROVE  GasInvariant'
  <2>1. definitions' = definitions /\ phase' = "collect"
    BY <1>1 DEF Add
  <2>. QED  BY <2>1 DEF GasInvariant, Visited
<1>2. CASE Save
  <2>1. \A i \in DOMAIN dives : \A k \in DOMAIN dives[i].gases :
          i \in Nat /\ i >= 1 /\ k \in Nat /\ k >= 1
    BY GasType
  <2>. QED  BY <1>2, <2>1 DEF Save, GasInvariant, Visited
<1>3. CASE DefineGas
  <2>. DEFINE mix == dives[at].gases[gas]
              known == \E d \in definitions : d.name = Name(mix)
              new == [name |-> Name(mix), mix |-> mix]
  <2>1. UNCHANGED <<dives, phase, at>> /\ gas' = gas + 1
    BY <1>3 DEF DefineGas
  <2>2. definitions' = IF known THEN definitions ELSE definitions \cup {new}
    BY <1>3 DEF DefineGas
  <2>3. new.name = Name(mix) /\ new.mix = mix
    OBVIOUS
  <2>4. \E d \in definitions' : d.name = Name(mix)
    BY <2>2, <2>3
  <2>. HIDE DEF mix, new
  <2>5. (\A d \in definitions : d.name = Name(d.mix))'
    BY <2>2, <2>3 DEF GasInvariant
  <2>6. (\A d, e \in definitions : d.name = e.name => d = e)'
    BY <2>2, <2>3 DEF GasInvariant
  <2>7. ASSUME NEW i \in DOMAIN dives, NEW k \in DOMAIN dives[i].gases, Visited(i, k)'
        PROVE  \E d \in definitions' : d.name = Name(dives[i].gases[k])
    <3>1. CASE i = at /\ k = gas
      BY <2>4, <3>1 DEF mix
    <3>2. CASE ~(i = at /\ k = gas)
      <4>2. k \in Nat
        BY GasType
      <4>3. phase = "gases" /\ (i < at \/ (i = at /\ k < gas + 1))
        <5>1. phase = "gases" /\ phase' = "gases" /\ at' = at /\ gas' = gas + 1
          BY <1>3 DEF DefineGas
        <5>. QED  BY <2>7, <5>1 DEF Visited
      <4>4. k < gas + 1 /\ k # gas => k < gas
        BY <4>2 DEF TypeOK
      <4>5. Visited(i, k)
        BY <3>2, <4>3, <4>4 DEF Visited
      <4>. QED  BY <2>2, <4>5 DEF GasInvariant
    <3>. QED  BY <3>1, <3>2
  <2>. QED  BY <2>1, <2>5, <2>6, <2>7 DEF GasInvariant
<1>4. CASE NextDive
  <2>1. ASSUME NEW i \in DOMAIN dives, NEW k \in DOMAIN dives[i].gases, Visited(i, k)'
        PROVE  Visited(i, k)
    <3>1. i \in Nat /\ k \in 1..Len(dives[i].gases)
      BY GasType
    <3>2. /\ phase = "gases" /\ phase' = "gases" /\ at' = at + 1 /\ gas' = 1
          /\ gas > Len(dives[at].gases) /\ at \in Nat /\ gas \in Nat
      BY <1>4 DEF NextDive, TypeOK
    <3>3. i < at + 1
      BY <2>1, <3>1, <3>2 DEF Visited
    <3>. QED  BY <3>1, <3>2, <3>3 DEF Visited
  <2>2. UNCHANGED <<dives, definitions>>
    BY <1>4 DEF NextDive
  <2>3. phase' = phase /\ phase = "gases"
    BY <1>4 DEF NextDive
  <2>. QED  BY <2>1, <2>2, <2>3 DEF GasInvariant, Visited
<1>5. CASE GasesDefined
  <2>1. \A i \in DOMAIN dives : i < at
    BY <1>5 DEF GasesDefined, TypeOK
  <2>2. UNCHANGED <<dives, definitions>> /\ phase = "gases" /\ phase' = "sort"
    BY <1>5 DEF GasesDefined
  <2>. QED  BY <2>1, <2>2 DEF GasInvariant, Visited
<1>6. CASE Sort
  <2>1. PICK order \in [DOMAIN dives -> DOMAIN dives] :
            dives' = [i \in DOMAIN dives |-> dives[order[i]]]
    BY <1>6 DEF Sort
  <2>. QED  BY <1>6, <2>1 DEF Sort, GasInvariant, Visited
<1>7. CASE SurfaceInterval
  <2>1. DOMAIN dives' = DOMAIN dives /\ \A i \in DOMAIN dives : dives'[i].gases = dives[i].gases
    <3>1. dives[at] \in Dive
      BY <1>7 DEF SurfaceInterval, TypeOK
    <3>. QED  BY <1>7, <3>1 DEF SurfaceInterval, Dive
  <2>. QED  BY <1>7, <2>1 DEF SurfaceInterval, GasInvariant, Visited
<1>8. CASE IntervalsCalculated \/ Group \/ Grouped
  BY <1>8 DEF IntervalsCalculated, Group, Grouped, GasInvariant, Visited
<1>9. CASE UNCHANGED vars
  BY <1>9 DEF vars, GasInvariant, Visited
<1>. QED  BY <1>1, <1>2, <1>3, <1>4, <1>5, <1>6, <1>7, <1>8, <1>9 DEF Next

(* Links to gases resolve, to a mix within one percent (uddf.c:347-351,    *)
(* 508-585), whatever the mixes and whichever the order of the dives.      *)
THEOREM GasLinks == Spec => []LinksResolve
<1>1. Init => GasInvariant
  BY DEF Init, GasInvariant
<1>2. ASSUME TypeOK, GasInvariant PROVE LinksResolve
  <2>. SUFFICES ASSUME phase = "saved", NEW i \in DOMAIN dives,
                       NEW k \in DOMAIN dives[i].gases
                PROVE  LET link == Tankdata(dives[i])[k].link
                           mix == dives[i].gases[k]
                       IN  \E d \in definitions :
                               /\ d.name = link
                               /\ \A e \in definitions : e.name = link => e = d
                               /\ Abs(d.mix.o2 - mix.o2) < 1000
                               /\ Abs(d.mix.n2 - mix.n2) < 1000
                               /\ Abs(d.mix.he - mix.he) < 1000
    BY DEF LinksResolve
  <2>1. Tankdata(dives[i])[k].link = Name(dives[i].gases[k])
    BY DEF Tankdata
  <2>2. PICK d \in definitions : d.name = Name(dives[i].gases[k])
    BY <1>2 DEF GasInvariant, Visited
  <2>3. dives[i].gases[k] \in Mix
    BY <1>2, GasType, MixesAssumption
  <2>4. d.mix \in Mix
    BY <1>2, MixesAssumption DEF TypeOK, Definition
  <2>5. Name(d.mix) = Name(dives[i].gases[k])
    BY <1>2, <2>2 DEF GasInvariant
  <2>. QED  BY <1>2, <2>1, <2>2, <2>3, <2>4, <2>5, NameTells DEF GasInvariant
<1>. QED  BY <1>1, <1>2, TypeCorrect, GasNext, PTL DEF Spec

-----------------------------------------------------------------------------
(* Order and intervals. *)

Sorted ==
    phase \in {"intervals", "groups", "saved"} =>
        \A i, j \in DOMAIN dives : i < j => ~Before(dives[j], dives[i])

(* The loop of the surface intervals has been at this dive.                *)
Calculated(i) == phase \in {"groups", "saved"} \/ (phase = "intervals" /\ i < at)

IntervalInvariant ==
    /\ Sorted
    /\ \A i \in DOMAIN dives : Calculated(i) =>
          /\ dives[i].duration = Length(dives[i])
          /\ dives[i].interval = IF i = 1 THEN -1 ELSE Since(dives[i - 1], dives[i])

LEMMA IntervalNext ==
    ASSUME TypeOK, IntervalInvariant, [Next]_vars PROVE IntervalInvariant'
<1>1. ASSUME NEW start, NEW duration, NEW span, NEW gases,
             Add(start, duration, span, gases)
      PROVE  IntervalInvariant'
  BY <1>1 DEF Add, IntervalInvariant, Sorted, Calculated
<1>2. CASE Save \/ DefineGas \/ NextDive \/ GasesDefined
  BY <1>2 DEF Save, DefineGas, NextDive, GasesDefined, IntervalInvariant, Sorted, Calculated
<1>3. CASE Sort
  <2>1. PICK order \in [DOMAIN dives -> DOMAIN dives] :
            /\ StableOrder(dives, order)
            /\ dives' = [i \in DOMAIN dives |-> dives[order[i]]]
    BY <1>3 DEF Sort
  <2>2. phase' = "intervals" /\ at' = 1
    BY <1>3 DEF Sort
  <2>3. Sorted'
    <3>1. \A i, j \in DOMAIN dives : i < j => ~Before(dives[order[j]], dives[order[i]])
      BY <2>1 DEF StableOrder
    <3>. QED  BY <2>1, <3>1 DEF Sorted, Before, Dated
  <2>4. \A i \in DOMAIN dives' : i \in Nat /\ i >= 1
    BY <2>1 DEF TypeOK
  <2>. QED  BY <2>2, <2>3, <2>4 DEF IntervalInvariant, Calculated
<1>4. CASE SurfaceInterval
  <2>. DEFINE dive == dives[at]
              interval == IF at = 1 THEN -1 ELSE Since(dives[at - 1], dive)
              new == [dive EXCEPT !.duration = Length(dive), !.interval = interval]
  <2>1. /\ phase = "intervals" /\ phase' = "intervals"
        /\ at \in DOMAIN dives /\ at' = at + 1
        /\ dives' = [dives EXCEPT ![at] = new]
    BY <1>4 DEF SurfaceInterval, TypeOK
  <2>2. dive \in Dive
    BY <2>1 DEF TypeOK
  <2>3. /\ new.start = dive.start /\ new.span = dive.span
        /\ new.duration = Length(dive) /\ new.interval = interval
    BY <2>2 DEF Dive
  <2>4. Length(new) = Length(dive)
    BY <2>3 DEF Length
  <2>. HIDE DEF new
  <2>5. /\ DOMAIN dives' = DOMAIN dives
        /\ \A i \in DOMAIN dives : dives'[i].start = dives[i].start
        /\ \A i \in DOMAIN dives : i # at => dives'[i] = dives[i]
        /\ dives'[at] = new
    BY <2>1, <2>3
  <2>6. Sorted'
    BY <2>1, <2>5 DEF IntervalInvariant, Sorted, Before, Dated
  <2>7. ASSUME NEW i \in DOMAIN dives, i < at + 1
        PROVE  /\ dives'[i].duration = Length(dives'[i])
               /\ dives'[i].interval = IF i = 1 THEN -1 ELSE Since(dives'[i - 1], dives'[i])
    <3>1. i \in Nat /\ at \in Nat
      BY DEF TypeOK
    <3>2. i # 1 => i - 1 \in DOMAIN dives /\ i - 1 # at
      BY <2>7, <3>1 DEF TypeOK
    <3>3. i # 1 => dives'[i - 1] = dives[i - 1]
      BY <2>5, <3>2
    <3>4. CASE i = at
      <4>1. \A last : Since(last, new) = Since(last, dive)
        BY <2>3 DEF Since, Dated
      <4>. QED  BY <2>3, <2>4, <2>5, <3>3, <3>4, <4>1
    <3>5. CASE i # at
      <4>1. i < at
        BY <2>7, <3>1, <3>5
      <4>2. Calculated(i)
        BY <2>1, <4>1 DEF Calculated
      <4>. QED  BY <2>5, <3>3, <3>5, <4>2 DEF IntervalInvariant
    <3>. QED  BY <3>4, <3>5
  <2>. QED  BY <2>1, <2>5, <2>6, <2>7 DEF IntervalInvariant, Calculated
<1>5. CASE IntervalsCalculated
  <2>1. \A i \in DOMAIN dives : i < at
    BY <1>5 DEF IntervalsCalculated, TypeOK
  <2>. QED  BY <1>5, <2>1 DEF IntervalsCalculated, IntervalInvariant, Sorted, Calculated
<1>6. CASE Group \/ Grouped
  BY <1>6 DEF Group, Grouped, IntervalInvariant, Sorted, Calculated
<1>7. CASE UNCHANGED vars
  BY <1>7 DEF vars, IntervalInvariant, Sorted, Calculated
<1>. QED  BY <1>1, <1>2, <1>3, <1>4, <1>5, <1>6, <1>7 DEF Next

LEMMA IntervalsHold == Spec => [](TypeOK /\ IntervalInvariant)
<1>1. Init => IntervalInvariant
  BY DEF Init, IntervalInvariant, Sorted
<1>. QED  BY <1>1, TypeCorrect, IntervalNext, PTL DEF Spec

(* A time passed since the last dive is true (dif.c:484-512): the last     *)
(* dive before ended that long ago, for collections in any order.          *)
THEOREM TimesPassed == Spec => []PassedTimeTrue
<1>0. SurfaceIntervalMax \in Nat
  BY DEF SurfaceIntervalMax
<1>1. ASSUME TypeOK, IntervalInvariant PROVE PassedTimeTrue
  <2>. SUFFICES ASSUME phase = "saved", NEW i \in DOMAIN dives,
                       Dated(dives[i]), Passed(dives[i]) # Infinity
                PROVE  /\ Passed(dives[i]) \in 0..SurfaceIntervalMax
                       /\ i > 1
                       /\ dives[i].start = dives[i - 1].start + Length(dives[i - 1])
                                               + Passed(dives[i])
                       /\ \A j \in DOMAIN dives :
                             Dated(dives[j]) /\ j > i => dives[j].start >= dives[i].start
    BY DEF PassedTimeTrue
  <2>1. dives[i] \in Dive /\ i \in Nat /\ i >= 1
    BY <1>1 DEF TypeOK
  <2>2. dives[i].interval \in Int /\ dives[i].interval >= 0
        /\ Passed(dives[i]) = dives[i].interval
    BY <2>1 DEF Passed, Infinity, Dive
  <2>3. /\ i # 1
        /\ dives[i].interval = Since(dives[i - 1], dives[i])
    BY <1>1, <2>2 DEF IntervalInvariant, Calculated
  <2>. DEFINE last == dives[i - 1]
  <2>4. i - 1 \in DOMAIN dives /\ i - 1 < i
    BY <1>1, <2>1, <2>3 DEF TypeOK
  <2>5. last \in Dive /\ last.duration = Length(last)
    BY <1>1, <2>4 DEF TypeOK, IntervalInvariant, Calculated
  <2>6. ~Before(dives[i], last)
    BY <1>1, <2>4 DEF IntervalInvariant, Sorted
  <2>7. Dated(last)
    BY <2>6 DEF Before
  <2>8. /\ last.start \in Nat /\ last.duration \in Nat /\ dives[i].start \in Nat
    BY <2>1, <2>5, <2>7, StampType DEF Dive
  <2>. HIDE DEF last
  <2>9. /\ dives[i].interval = dives[i].start - (last.start + last.duration)
        /\ dives[i].interval <= SurfaceIntervalMax
    BY <2>2, <2>3, <2>7, <2>8, <1>0 DEF Since, last
  <2>10. ASSUME NEW j \in DOMAIN dives, Dated(dives[j]), j > i
         PROVE  dives[j].start >= dives[i].start
    <3>1. ~Before(dives[j], dives[i])
      BY <1>1, <2>10 DEF IntervalInvariant, Sorted
    <3>2. dives[j] \in Dive
      BY <1>1 DEF TypeOK
    <3>3. dives[j].start \in Nat
      BY <2>10, <3>2, StampType
    <3>. QED  BY <2>8, <2>10, <3>1, <3>3 DEF Before
  <2>11. Passed(dives[i]) \in 0..SurfaceIntervalMax
    BY <2>2, <2>9, <1>0
  <2>12. dives[i].start = last.start + Length(last) + Passed(dives[i])
    BY <2>2, <2>5, <2>8, <2>9
  <2>. QED  BY <2>1, <2>3, <2>10, <2>11, <2>12 DEF last
<1>. QED  BY <1>1, IntervalsHold, PTL

-----------------------------------------------------------------------------
(* Repetition groups. *)

(* The groups written, and the one being collected.                        *)
Lists == IF open = <<>> THEN groups ELSE Append(groups, open)

OneDay(ds, list) ==
    \A k, l \in DOMAIN list :
        \/ k = l
        \/ /\ Dated(ds[list[k]]) /\ Dated(ds[list[l]])
           /\ Day[ds[list[k]].start] = Day[ds[list[l]].start]

(* No dive behind the list is of the day of one of the list.               *)
DayOver(ds, list) ==
    \A k \in DOMAIN list : \A j \in DOMAIN ds :
        j >= list[1] + Len(list) /\ Dated(ds[list[k]]) /\ Dated(ds[j]) =>
            Day[ds[list[k]].start] # Day[ds[j].start]

Holds(list, i) == \E k \in DOMAIN list : list[k] = i

GroupInvariant ==
    /\ phase \in {"collect", "gases", "sort", "intervals"} =>
          groups = <<>> /\ open = <<>> /\ previous = <<0, 0, 0>>
    /\ phase = "groups" => at <= Len(dives) + 1 /\ Tile(Lists, at - 1)
    /\ phase = "saved" => open = <<>> /\ Tile(groups, Len(dives))
    /\ open = <<>> /\ phase = "groups" => at = 1 /\ groups = <<>> /\ previous = <<0, 0, 0>>
    /\ phase \in {"groups", "saved"} =>
          /\ \A g \in DOMAIN Lists : OneDay(dives, Lists[g])
          /\ \A g \in DOMAIN groups : DayOver(dives, groups[g])
          /\ \A i \in DOMAIN dives : i < at => \E g \in DOMAIN Lists : Holds(Lists[g], i)
    /\ phase = "saved" => at > Len(dives)
    /\ phase = "groups" =>
          \A k \in DOMAIN open :
              IF Dated(dives[open[k]]) THEN previous = Day[dives[open[k]].start]
              ELSE previous[2] = 0

(* The elements of a sequence that another one has been appended to.       *)
LEMMA Appended ==
    ASSUME NEW S, NEW s \in Seq(S), NEW e \in S
    PROVE  /\ Append(s, e) \in Seq(S) /\ Append(s, e) # <<>>
           /\ Len(s) \in Nat /\ Len(Append(s, e)) = Len(s) + 1
           /\ DOMAIN s = 1..Len(s) /\ DOMAIN Append(s, e) = 1..(Len(s) + 1)
           /\ \A k \in 1..Len(s) : Append(s, e)[k] = s[k]
           /\ Append(s, e)[Len(s) + 1] = e
OBVIOUS

LEMMA TileAppend ==
    ASSUME NEW lists \in Seq(Seq(Nat)), NEW n \in Nat, Tile(lists, n)
    PROVE  Tile(Append(lists, <<n + 1>>), n + 1)
<1>. DEFINE new == Append(lists, <<n + 1>>)
<1>1. /\ new \in Seq(Seq(Nat)) /\ Len(new) = Len(lists) + 1 /\ Len(lists) \in Nat
      /\ new # <<>> /\ DOMAIN new = 1..Len(new)
      /\ \A g \in 1..Len(lists) : new[g] = lists[g]
      /\ new[Len(new)] = <<n + 1>>
  OBVIOUS
<1>. HIDE DEF new
<1>2. lists = <<>> => n = 0
  BY DEF Tile
<1>3. lists # <<>> => n = lists[Len(lists)][1] + Len(lists[Len(lists)]) - 1
  BY DEF Tile
<1>4. ASSUME NEW g \in DOMAIN new
      PROVE  /\ new[g] # <<>>
             /\ \A k \in DOMAIN new[g] : new[g][k] = new[g][1] + k - 1
             /\ IF g = 1 THEN new[g][1] = 1 ELSE new[g][1] = new[g - 1][1] + Len(new[g - 1])
  <2>1. CASE g \in 1..Len(lists)
    <3>1. g \in DOMAIN lists /\ new[g] = lists[g]
      BY <1>1, <2>1, Appended
    <3>2. g # 1 => g - 1 \in 1..Len(lists)
      BY <2>1
    <3>3. g # 1 => new[g - 1] = lists[g - 1]
      BY <1>1, <3>2
    <3>. QED  BY <3>1, <3>3 DEF Tile
  <2>2. CASE g = Len(new)
    <3>1. new[g] = <<n + 1>> /\ DOMAIN new[g] = {1} /\ new[g][1] = n + 1
      BY <1>1, <2>2
    <3>2. g = 1 => lists = <<>>
      BY <1>1, <2>2
    <3>3. g # 1 => lists # <<>> /\ g - 1 = Len(lists) /\ Len(lists) \in 1..Len(lists)
      BY <1>1, <2>2
    <3>4. g # 1 => new[g - 1] = lists[Len(lists)]
      BY <1>1, <3>3
    <3>5. g # 1 => lists[Len(lists)] \in Seq(Nat) /\ lists[Len(lists)] # <<>>
      <4>1. DOMAIN lists = 1..Len(lists)
        BY Appended
      <4>2. g # 1 => lists[Len(lists)] \in Seq(Nat)
        BY <3>3
      <4>. QED  BY <3>3, <4>1, <4>2 DEF Tile
    <3>6. g # 1 => lists[Len(lists)][1] \in Nat /\ Len(lists[Len(lists)]) \in Nat
      <4>1. \A s \in Seq(Nat) : s # <<>> => s[1] \in Nat /\ Len(s) \in Nat
        OBVIOUS
      <4>. QED  BY <3>5, <4>1
    <3>7. new[g] # <<>> /\ \A k \in DOMAIN new[g] : new[g][k] = new[g][1] + k - 1
      BY <3>1
    <3>8. g = 1 => new[g][1] = 1
      BY <1>2, <3>1, <3>2
    <3>9. g # 1 => new[g][1] = new[g - 1][1] + Len(new[g - 1])
      BY <1>3, <3>1, <3>3, <3>4, <3>6, SMTT(20)
    <3>. QED  BY <3>7, <3>8, <3>9
  <2>. QED  BY <1>1, <2>1, <2>2
<1>5. n + 1 = new[Len(new)][1] + Len(new[Len(new)]) - 1
  BY <1>1
<1>. QED  BY <1>1, <1>4, <1>5 DEF Tile, new

LEMMA TileGrow ==
    ASSUME NEW lists \in Seq(Seq(Nat)), NEW last \in Seq(Nat), last # <<>>, NEW n \in Nat,
           Tile(Append(lists, last), n)
    PROVE  Tile(Append(lists, Append(last, n + 1)), n + 1)
<1>. DEFINE old == Append(lists, last)
            grown == Append(last, n + 1)
            new == Append(lists, grown)
<1>1. /\ old \in Seq(Seq(Nat)) /\ new \in Seq(Seq(Nat)) /\ Len(lists) \in Nat
      /\ Len(old) = Len(lists) + 1 /\ Len(new) = Len(lists) + 1
      /\ new # <<>> /\ old # <<>>
      /\ DOMAIN new = 1..Len(new) /\ DOMAIN old = 1..Len(new)
      /\ \A g \in 1..Len(lists) : new[g] = lists[g] /\ old[g] = lists[g]
      /\ new[Len(new)] = grown /\ old[Len(new)] = last
  <2>1. grown \in Seq(Nat)
    OBVIOUS
  <2>. HIDE DEF grown
  <2>. QED  BY <2>1, Appended
<1>2. /\ grown # <<>> /\ Len(grown) = Len(last) + 1 /\ grown[1] = last[1]
      /\ DOMAIN grown = 1..Len(grown) /\ DOMAIN last = 1..Len(last)
      /\ \A k \in 1..Len(last) : grown[k] = last[k]
      /\ grown[Len(grown)] = n + 1 /\ last[1] \in Nat /\ Len(last) \in Nat
  OBVIOUS
<1>. HIDE DEF old, grown, new
<1>3. n = last[1] + Len(last) - 1
  BY <1>1 DEF Tile, old
<1>4. ASSUME NEW g \in DOMAIN new
      PROVE  /\ new[g] # <<>>
             /\ \A k \in DOMAIN new[g] : new[g][k] = new[g][1] + k - 1
             /\ IF g = 1 THEN new[g][1] = 1 ELSE new[g][1] = new[g - 1][1] + Len(new[g - 1])
  <2>0. /\ old[g] # <<>>
        /\ \A k \in DOMAIN old[g] : old[g][k] = old[g][1] + k - 1
        /\ IF g = 1 THEN old[g][1] = 1 ELSE old[g][1] = old[g - 1][1] + Len(old[g - 1])
    BY <1>1 DEF Tile, old
  <2>1. g # 1 => new[g - 1] = old[g - 1]
    <3>1. g \in 1..(Len(lists) + 1)
      BY <1>1
    <3>2. g # 1 => g - 1 \in 1..Len(lists)
      BY <3>1
    <3>. QED  BY <1>1, <3>2
  <2>2. CASE g \in 1..Len(lists)
    BY <1>1, <2>0, <2>1, <2>2
  <2>3. CASE g = Len(new)
    <3>1. new[g] = grown /\ old[g] = last
      BY <1>1, <2>3
    <3>2. \A k \in DOMAIN grown : grown[k] = grown[1] + k - 1
      <4>1. \A k \in 1..Len(last) : grown[k] = grown[1] + k - 1
        BY <1>2, <2>0, <3>1
      <4>2. grown[Len(grown)] = grown[1] + Len(grown) - 1
        BY <1>2, <1>3
      <4>. QED  BY <1>2, <4>1, <4>2
    <3>. QED  BY <1>2, <2>0, <2>1, <3>1, <3>2
  <2>. QED  BY <1>1, <2>2, <2>3
<1>5. n + 1 = new[Len(new)][1] + Len(new[Len(new)]) - 1
  BY <1>1, <1>2, <1>3
<1>. QED  BY <1>1, <1>4, <1>5 DEF Tile, new, grown

(* The date of a dive between two of one day is of that day as well.       *)
LEMMA DayBetween ==
    ASSUME TypeOK, Sorted, phase = "groups",
           NEW i \in DOMAIN dives, NEW j \in DOMAIN dives, NEW k \in DOMAIN dives,
           i < j, j < k \/ j = k, Dated(dives[i]), Dated(dives[k]),
           Day[dives[i].start] = Day[dives[k].start]
    PROVE  Dated(dives[j]) /\ Day[dives[j].start] = Day[dives[i].start]
<1>1. dives[i] \in Dive /\ dives[j] \in Dive /\ dives[k] \in Dive
  BY DEF TypeOK
<1>2. ~Before(dives[j], dives[i]) /\ (j = k \/ ~Before(dives[k], dives[j]))
  BY DEF Sorted
<1>3. Dated(dives[j])
  BY <1>2 DEF Before
<1>4. /\ dives[i].start \in Stamps /\ dives[j].start \in Stamps /\ dives[k].start \in Stamps
      /\ dives[i].start \in Nat /\ dives[j].start \in Nat /\ dives[k].start \in Nat
  BY <1>1, <1>3, StampType
<1>5. dives[i].start <= dives[j].start /\ dives[j].start <= dives[k].start
  BY <1>2, <1>3, <1>4 DEF Before
<1>. QED  BY <1>3, <1>4, <1>5, DaysAreIntervals

LEMMA ListsType ==
    ASSUME TypeOK
    PROVE  /\ Lists \in Seq(Seq(Nat))
           /\ open # <<>> => /\ DOMAIN Lists = 1..(Len(groups) + 1)
                            /\ Lists[Len(groups) + 1] = open
           /\ \A g \in DOMAIN groups : g \in DOMAIN Lists /\ Lists[g] = groups[g]
           /\ Len(groups) \in Nat /\ DOMAIN groups = 1..Len(groups)
<1>1. /\ groups \in Seq(Seq(Nat)) /\ open \in Seq(Nat)
      /\ Len(groups) \in Nat /\ DOMAIN groups = 1..Len(groups)
  BY DEF TypeOK
<1>2. CASE open = <<>>
  BY <1>1, <1>2 DEF Lists
<1>3. CASE open # <<>>
  <2>1. Lists = Append(groups, open)
    BY <1>3 DEF Lists
  <2>. QED  BY <1>1, <2>1, Appended
<1>. QED  BY <1>2, <1>3

(* Facts about the group being collected when the loop comes to a dive.    *)
LEMMA OpenGroup ==
    ASSUME TypeOK, GroupInvariant, phase = "groups", open # <<>>
    PROVE  /\ at = open[1] + Len(open) /\ open[1] \in Nat /\ Len(open) \in Nat
           /\ \A k \in DOMAIN open : open[k] \in Nat /\ open[k] < at /\ open[k] >= 1
<1>1. Tile(Lists, at - 1) /\ Lists \in Seq(Seq(Nat)) /\ Lists # <<>>
      /\ Len(Lists) = Len(groups) + 1 /\ Len(groups) \in Nat
      /\ DOMAIN Lists = 1..Len(Lists) /\ Lists[Len(Lists)] = open
  BY ListsType DEF GroupInvariant
<1>2. /\ at \in Nat /\ open \in Seq(Nat) /\ open[1] \in Nat /\ Len(open) \in Nat
      /\ DOMAIN open = 1..Len(open) /\ \A k \in DOMAIN open : open[k] \in Nat
  BY DEF TypeOK
<1>3. at - 1 = open[1] + Len(open) - 1
  BY <1>1 DEF Tile
<1>4. \A k \in DOMAIN open : open[k] = open[1] + k - 1
  <2>1. Len(Lists) \in DOMAIN Lists
    BY <1>1
  <2>. QED  BY <1>1, <2>1 DEF Tile
<1>5. open[1] >= 1
  <2>1. Len(Lists) \in DOMAIN Lists
    BY <1>1
  <2>2. CASE Len(Lists) = 1
    <3>1. 1 \in DOMAIN Lists /\ Lists[1] = open
      BY <1>1, <2>1, <2>2
    <3>2. Lists[1][1] = 1
      BY <1>1, <3>1 DEF Tile
    <3>. QED  BY <3>1, <3>2
  <2>3. CASE Len(Lists) # 1
    <3>1. Len(Lists) - 1 \in DOMAIN Lists /\ Len(Lists) \in DOMAIN Lists
      BY <1>1, <2>3
    <3>. DEFINE before == Lists[Len(Lists) - 1]
    <3>2. open[1] = before[1] + Len(before) /\ before # <<>>
      BY <1>1, <2>3, <3>1 DEF Tile
    <3>3. before \in Seq(Nat)
      BY <1>1, <3>1
    <3>4. before[1] \in Nat /\ Len(before) \in Nat /\ Len(before) >= 1
      BY <3>2, <3>3
    <3>. QED  BY <3>2, <3>4
  <2>. QED  BY <2>2, <2>3
<1>. QED  BY <1>2, <1>3, <1>4, <1>5

(* When the loop comes to a dive of another day, that of the group is over. *)
LEMMA OpenDayOver ==
    ASSUME TypeOK, Sorted, GroupInvariant, phase = "groups", open # <<>>,
           at <= Len(dives), Key(dives[at], previous) # previous
    PROVE  DayOver(dives, open)
<1>. SUFFICES ASSUME NEW k \in DOMAIN open, NEW j \in DOMAIN dives,
                     j >= open[1] + Len(open), Dated(dives[open[k]]), Dated(dives[j]),
                     Day[dives[open[k]].start] = Day[dives[j].start]
              PROVE  FALSE
  BY DEF DayOver
<1>1. /\ j \in Nat /\ at \in Nat /\ at \in DOMAIN dives /\ DOMAIN dives = 1..Len(dives)
      /\ Len(dives) \in Nat
  <2>1. /\ dives \in Seq(Dive) /\ at \in Nat \ {0}
    BY DEF TypeOK
  <2>. QED  BY <2>1
<1>2. /\ open[k] \in Nat /\ open[k] < at /\ open[k] >= 1 /\ j >= at
  BY OpenGroup
<1>3. open[k] \in DOMAIN dives
  BY <1>1, <1>2
<1>4. at < j \/ at = j
  BY <1>1, <1>2
<1>5. Dated(dives[at]) /\ Day[dives[at].start] = Day[dives[open[k]].start]
  BY <1>1, <1>2, <1>3, <1>4, DayBetween
<1>6. previous = Day[dives[open[k]].start]
  BY DEF GroupInvariant
<1>7. Key(dives[at], previous) = Day[dives[at].start]
  BY <1>5 DEF Key
<1>. QED  BY <1>5, <1>6, <1>7

LEMMA GroupNext ==
    ASSUME TypeOK, Sorted, GroupInvariant, Group PROVE GroupInvariant'
<1>. DEFINE key == Key(dives[at], previous)
<1>1. /\ phase = "groups" /\ phase' = "groups" /\ at' = at + 1 /\ dives' = dives
      /\ at \in DOMAIN dives /\ at <= Len(dives) /\ previous' = key
      /\ at \in Nat /\ at >= 1 /\ Len(dives) \in Nat /\ DOMAIN dives = 1..Len(dives)
  BY DEF Group, TypeOK
<1>2. /\ dives[at] \in Dive
      /\ ~Dated(dives[at]) => key # previous /\ key[2] = 0
      /\ Dated(dives[at]) => key = Day[dives[at].start] /\ key[2] # 0
  <2>1. dives[at] \in Dive /\ previous \in Nat \X Nat \X Nat
    BY <1>1 DEF TypeOK
  <2>. QED  BY <2>1, KeyType
<1>3. /\ Lists \in Seq(Seq(Nat)) /\ Tile(Lists, at - 1) /\ at - 1 \in Nat
      /\ \A g \in DOMAIN Lists : OneDay(dives, Lists[g])
      /\ \A g \in DOMAIN groups : DayOver(dives, groups[g])
      /\ \A i \in DOMAIN dives : i < at => \E g \in DOMAIN Lists : Holds(Lists[g], i)
  BY <1>1, ListsType DEF GroupInvariant
<1>4. open \in Seq(Nat) /\ groups \in Seq(Seq(Nat))
  BY DEF TypeOK
<1>5. \A i \in DOMAIN dives : i < at + 1 => i < at \/ i = at
  BY <1>1
<1>6. key # previous => \A g \in DOMAIN Lists : DayOver(dives, Lists[g])
  <2>1. CASE open = <<>>
    BY <1>3, <2>1 DEF Lists
  <2>2. CASE open # <<>>
    <3>1. key # previous => DayOver(dives, open)
      BY <1>1, <2>2, OpenDayOver
    <3>2. \A g \in DOMAIN Lists : (g \in DOMAIN groups /\ Lists[g] = groups[g]) \/ Lists[g] = open
      BY <2>2, ListsType
    <3>. QED  BY <1>3, <3>1, <3>2
  <2>. QED  BY <2>1, <2>2
<1>7. CASE key # previous
  <2>1. groups' = Lists /\ open' = <<at>>
    BY <1>1, <1>7 DEF Group, CloseGroup, Lists
  <2>2. Lists' = Append(Lists, <<at>>)
    BY <2>1 DEF Lists
  <2>3. /\ DOMAIN Lists' = 1..(Len(Lists) + 1) /\ Lists'[Len(Lists) + 1] = <<at>>
        /\ DOMAIN Lists = 1..Len(Lists) /\ Len(Lists) \in Nat
        /\ \A g \in DOMAIN Lists : Lists'[g] = Lists[g]
    <3>1. <<at>> \in Seq(Nat)
      BY <1>1
    <3>. QED  BY <1>3, <2>2, <3>1, Appended
  <2>4. Tile(Lists', at)
    BY <1>1, <1>3, <2>2, TileAppend
  <2>5. \A g \in DOMAIN Lists' : OneDay(dives, Lists'[g])
    <3>1. OneDay(dives, <<at>>)
      BY DEF OneDay
    <3>2. \A g \in DOMAIN Lists' : g \in DOMAIN Lists \/ g = Len(Lists) + 1
      BY <2>3
    <3>. QED  BY <1>3, <2>3, <3>1, <3>2
  <2>6. \A i \in DOMAIN dives : i < at + 1 => \E g \in DOMAIN Lists' : Holds(Lists'[g], i)
    <3>1. Holds(<<at>>, at)
      BY DEF Holds
    <3>2. Len(Lists) + 1 \in DOMAIN Lists' /\ \A g \in DOMAIN Lists : g \in DOMAIN Lists'
      BY <2>3
    <3>. QED  BY <1>3, <1>5, <2>3, <3>1, <3>2
  <2>7. \A k \in DOMAIN open' :
            IF Dated(dives[open'[k]]) THEN previous' = Day[dives[open'[k]].start]
            ELSE previous'[2] = 0
    BY <1>1, <1>2, <2>1
  <2>8. \A g \in DOMAIN groups' : DayOver(dives, groups'[g])
    BY <1>6, <1>7, <2>1
  <2>. QED  BY <1>1, <2>1, <2>4, <2>5, <2>6, <2>7, <2>8
            DEF GroupInvariant
<1>8. CASE key = previous
  <2>1. groups' = groups /\ open' = Append(open, at)
    BY <1>1, <1>8 DEF Group
  <2>2. Dated(dives[at]) /\ previous[2] # 0 /\ previous = Day[dives[at].start]
    BY <1>2, <1>8
  <2>3. open # <<>>
    BY <1>1, <2>2 DEF GroupInvariant
  <2>4. /\ Lists = Append(groups, open) /\ Lists' = Append(groups, open')
        /\ open' \in Seq(Nat) /\ open' # <<>>
    BY <1>1, <1>4, <2>1, <2>3 DEF Lists
  <2>5. /\ DOMAIN Lists' = 1..(Len(groups) + 1) /\ Lists'[Len(groups) + 1] = open'
        /\ DOMAIN Lists = 1..(Len(groups) + 1) /\ Lists[Len(groups) + 1] = open
        /\ DOMAIN groups = 1..Len(groups) /\ Len(groups) \in Nat
        /\ \A g \in DOMAIN groups : Lists'[g] = groups[g] /\ Lists[g] = groups[g]
    BY <1>4, <2>4, Appended
  <2>6. /\ DOMAIN open' = 1..(Len(open) + 1) /\ open'[Len(open) + 1] = at
        /\ DOMAIN open = 1..Len(open) /\ Len(open) \in Nat
        /\ \A k \in DOMAIN open : open'[k] = open[k]
    BY <1>1, <1>4, <2>1, Appended
  <2>7. Tile(Lists', at)
    BY <1>1, <1>3, <1>4, <2>1, <2>3, <2>4, TileGrow
  <2>8. \A k \in DOMAIN open' : /\ Dated(dives[open'[k]])
                                 /\ previous' = Day[dives[open'[k]].start]
    <3>1. \A k \in DOMAIN open : /\ Dated(dives[open[k]])
                                  /\ previous = Day[dives[open[k]].start]
      BY <1>1, <2>2 DEF GroupInvariant
    <3>2. \A k \in DOMAIN open' : k \in DOMAIN open \/ k = Len(open) + 1
      BY <2>6
    <3>. QED  BY <1>1, <1>8, <2>2, <2>6, <3>1, <3>2
  <2>9. OneDay(dives, open')
    BY <2>8 DEF OneDay
  <2>10. \A g \in DOMAIN Lists' : g \in DOMAIN groups \/ g = Len(groups) + 1
    BY <2>5
  <2>11. \A g \in DOMAIN Lists' : OneDay(dives, Lists'[g])
    <3>1. \A g \in DOMAIN groups : g \in DOMAIN Lists /\ Lists'[g] = Lists[g]
      BY <2>5
    <3>. QED  BY <1>3, <2>5, <2>9, <2>10, <3>1
  <2>12. ASSUME NEW i \in DOMAIN dives, i < at + 1
         PROVE  \E g \in DOMAIN Lists' : Holds(Lists'[g], i)
    <3>1. Len(groups) + 1 \in DOMAIN Lists' /\ DOMAIN Lists' = DOMAIN Lists
      BY <2>5
    <3>2. CASE i = at
      <4>1. Len(open) + 1 \in DOMAIN open'
        BY <2>6
      <4>2. Holds(open', i)
        BY <2>6, <3>2, <4>1 DEF Holds
      <4>. QED  BY <2>5, <3>1, <4>2
    <3>3. CASE i < at
      <4>1. PICK g \in DOMAIN Lists : Holds(Lists[g], i)
        BY <1>3, <3>3
      <4>2. CASE g \in DOMAIN groups
        BY <2>5, <3>1, <4>1, <4>2
      <4>3. CASE g = Len(groups) + 1
        <5>1. \A k \in DOMAIN open : k \in DOMAIN open'
          BY <2>6
        <5>2. Holds(open', i)
          BY <2>5, <2>6, <4>1, <4>3, <5>1 DEF Holds
        <5>. QED  BY <2>5, <3>1, <5>2
      <4>. QED  BY <2>10, <3>1, <4>1, <4>2, <4>3
    <3>. QED  BY <1>5, <2>12, <3>2, <3>3
  <2>13. \A k \in DOMAIN open' :
             IF Dated(dives[open'[k]]) THEN previous' = Day[dives[open'[k]].start]
             ELSE previous'[2] = 0
    BY <2>8
  <2>14. \A g \in DOMAIN groups' : DayOver(dives, groups'[g])
    BY <1>3, <2>1
  <2>. QED  BY <1>1, <2>4, <2>7, <2>11, <2>12, <2>13, <2>14
            DEF GroupInvariant
<1>. QED  BY <1>7, <1>8

LEMMA GroupedNext ==
    ASSUME TypeOK, GroupInvariant, Grouped PROVE GroupInvariant'
<1>1. /\ phase = "groups" /\ phase' = "saved" /\ open' = <<>> /\ groups' = Lists
      /\ UNCHANGED <<dives, at, previous>> /\ at > Len(dives)
  BY DEF Grouped, CloseGroup, Lists
<1>2. Lists' = Lists
  BY <1>1 DEF Lists
<1>3. Tile(Lists, Len(dives))
  <2>1. at - 1 = Len(dives)
    <3>1. at <= Len(dives) + 1
      BY <1>1 DEF GroupInvariant
    <3>2. at \in Nat /\ Len(dives) \in Nat
      BY DEF TypeOK
    <3>. QED  BY <1>1, <3>1, <3>2
  <2>. QED  BY <1>1, <2>1 DEF GroupInvariant
<1>4. \A g \in DOMAIN Lists : DayOver(dives, Lists[g])
  <2>1. \A g \in DOMAIN groups : DayOver(dives, groups[g])
    BY <1>1 DEF GroupInvariant
  <2>2. CASE open = <<>>
    BY <2>1, <2>2 DEF Lists
  <2>3. CASE open # <<>>
    <3>1. \A j \in DOMAIN dives : ~(j >= open[1] + Len(open))
      <4>1. at = open[1] + Len(open)
        BY <1>1, <2>3, OpenGroup
      <4>. QED  BY <1>1, <4>1 DEF TypeOK
    <3>2. DayOver(dives, open)
      BY <3>1 DEF DayOver
    <3>3. \A g \in DOMAIN Lists : (g \in DOMAIN groups /\ Lists[g] = groups[g]) \/ Lists[g] = open
      BY <2>3, ListsType
    <3>. QED  BY <2>1, <3>2, <3>3
  <2>. QED  BY <2>2, <2>3
<1>. QED  BY <1>1, <1>2, <1>3, <1>4 DEF GroupInvariant

LEMMA GroupsNext ==
    ASSUME TypeOK, Sorted, GroupInvariant, [Next]_vars PROVE GroupInvariant'
<1>1. ASSUME NEW start, NEW duration, NEW span, NEW gases,
             Add(start, duration, span, gases)
      PROVE  GroupInvariant'
  BY <1>1 DEF Add, GroupInvariant
<1>2. CASE Save \/ DefineGas \/ NextDive \/ GasesDefined \/ Sort \/ SurfaceInterval
  <2>1. /\ phase \in {"collect", "gases", "sort", "intervals"}
        /\ phase' \in {"gases", "sort", "intervals"}
        /\ UNCHANGED <<previous, open, groups>>
    BY <1>2 DEF Save, DefineGas, NextDive, GasesDefined, Sort, SurfaceInterval
  <2>. QED  BY <2>1 DEF GroupInvariant
<1>3. CASE IntervalsCalculated
  <2>1. /\ phase' = "groups" /\ at' = 1 /\ UNCHANGED dives
        /\ open' = <<>> /\ groups' = <<>> /\ previous' = <<0, 0, 0>>
    BY <1>3 DEF IntervalsCalculated, GroupInvariant
  <2>2. Lists' = <<>> /\ Tile(<<>>, 0)
    BY <2>1 DEF Lists, Tile
  <2>3. \A i \in DOMAIN dives : ~(i < 1)
    BY DEF TypeOK
  <2>4. 1 <= Len(dives) + 1
    BY DEF TypeOK
  <2>. QED  BY <2>1, <2>2, <2>3, <2>4 DEF GroupInvariant
<1>4. CASE UNCHANGED vars
  BY <1>4 DEF vars, GroupInvariant, Lists
<1>. QED  BY <1>1, <1>2, <1>3, <1>4, GroupNext, GroupedNext DEF Next

LEMMA GroupsHold == Spec => [](TypeOK /\ GroupInvariant)
<1>1. Init => GroupInvariant
  BY DEF Init, GroupInvariant
<1>2. IntervalInvariant => Sorted
  BY DEF IntervalInvariant
<1>. QED  BY <1>1, <1>2, IntervalsHold, GroupsNext, PTL DEF Spec

(* The repetition groups written tile the sorted dives (uddf.c:467-504).   *)
THEOREM Tiles == Spec => []GroupsTile
<1>1. GroupInvariant => GroupsTile
  BY DEF GroupInvariant, GroupsTile
<1>. QED  BY <1>1, GroupsHold, PTL

(* Two dives are in one repetition group iff they are of one day; a dive   *)
(* without a date has a group of its own (uddf.c:474-484).                 *)
THEOREM Days == Spec => []GroupsAreDays
<1>1. ASSUME TypeOK, GroupInvariant PROVE GroupsAreDays
  <2>. SUFFICES ASSUME phase = "saved", NEW i \in DOMAIN dives, NEW j \in DOMAIN dives
                PROVE  Together(i, j) <=>
                          \/ i = j
                          \/ /\ Dated(dives[i]) /\ Dated(dives[j])
                             /\ Day[dives[i].start] = Day[dives[j].start]
    BY DEF GroupsAreDays
  <2>1. Lists = groups /\ Tile(groups, Len(dives)) /\ groups \in Seq(Seq(Nat))
    BY <1>1 DEF GroupInvariant, Lists, TypeOK
  <2>2. \A g \in DOMAIN groups : OneDay(dives, groups[g]) /\ DayOver(dives, groups[g])
    BY <1>1, <2>1 DEF GroupInvariant
  <2>3. \A n \in DOMAIN dives : n \in Nat /\ \E g \in DOMAIN groups : Holds(groups[g], n)
    <3>1. \A n \in DOMAIN dives : n \in Nat /\ n <= Len(dives)
      BY <1>1 DEF TypeOK
    <3>2. at > Len(dives) /\ at \in Nat /\ Len(dives) \in Nat
      BY <1>1 DEF GroupInvariant, TypeOK
    <3>3. \A n \in DOMAIN dives : n < at
      BY <3>1, <3>2
    <3>4. \A n \in DOMAIN dives : n < at => \E g \in DOMAIN groups : Holds(groups[g], n)
      BY <1>1, <2>1 DEF GroupInvariant
    <3>. QED  BY <3>1, <3>3, <3>4
  <2>4. ASSUME Together(i, j), i # j
        PROVE  /\ Dated(dives[i]) /\ Dated(dives[j])
               /\ Day[dives[i].start] = Day[dives[j].start]
    <3>1. PICK g \in DOMAIN groups : \E k, l \in DOMAIN groups[g] :
              groups[g][k] = i /\ groups[g][l] = j
      BY <2>4 DEF Together
    <3>2. OneDay(dives, groups[g])
      BY <2>2
    <3>. QED  BY <2>4, <3>1, <3>2 DEF OneDay
  <2>5. ASSUME NEW m \in DOMAIN dives, NEW n \in DOMAIN dives, m <= n,
               m = n \/ (/\ Dated(dives[m]) /\ Dated(dives[n])
                        /\ Day[dives[m].start] = Day[dives[n].start])
        PROVE  Together(m, n) /\ Together(n, m)
    <3>1. PICK g \in DOMAIN groups : Holds(groups[g], m)
      BY <2>3
    <3>. DEFINE list == groups[g]
    <3>2. PICK k \in DOMAIN list : list[k] = m
      BY <3>1 DEF Holds
    <3>3. /\ list \in Seq(Nat) /\ list # <<>> /\ list[1] \in Nat /\ Len(list) \in Nat
          /\ DOMAIN list = 1..Len(list)
          /\ \A l \in DOMAIN list : list[l] = list[1] + l - 1
      <4>1. list \in Seq(Nat)
        BY <2>1
      <4>2. list # <<>> /\ \A l \in DOMAIN list : list[l] = list[1] + l - 1
        BY <2>1 DEF Tile
      <4>. HIDE DEF list
      <4>. QED  BY <4>1, <4>2
    <3>. HIDE DEF list
    <3>4. ~(n >= list[1] + Len(list))
      <4>1. CASE m = n
        BY <2>3, <3>2, <3>3, <4>1
      <4>2. CASE m # n
        BY <2>2, <2>5, <3>2, <4>2 DEF DayOver, list
      <4>. QED  BY <4>1, <4>2
    <3>5. list[1] <= m /\ m \in Nat /\ n \in Nat
      BY <2>3, <3>2, <3>3
    <3>6. n - list[1] + 1 \in DOMAIN list
      BY <2>5, <3>3, <3>4, <3>5
    <3>7. list[n - list[1] + 1] = n
      <4>1. list[n - list[1] + 1] = list[1] + (n - list[1] + 1) - 1
        BY <3>3, <3>6
      <4>. QED  BY <3>3, <3>5, <4>1
    <3>. QED  BY <3>2, <3>6, <3>7 DEF Together, list
  <2>6. i <= j \/ j <= i
    BY <2>3
  <2>. QED  BY <2>4, <2>5, <2>6
<1>. QED  BY <1>1, GroupsHold, PTL

=============================================================================
