--------------------------- MODULE DiveParseProofs ---------------------------
(***************************************************************************)
(* Proofs about DiveParse, for any record and any answers of the parser:   *)
(* doparse releases it and is what ParsedDive says; the dive has the       *)
(* computer's readings and mixes; and what is written of it is made of the *)
(* reports and the alarms, each once (the map of TraceIInv), so that the   *)
(* waypoints are of the schema, the signals are all there and the lowest   *)
(* temperature is that of a waypoint.                                      *)
(***************************************************************************)
EXTENDS DiveParse, Induction

Done == {"returned", "written"}

LEMMA RecordTyped ==
    ASSUME NEW r \in Records
    PROVE  r \in Record
BY RecordsAssumption

-----------------------------------------------------------------------------
(* The parser. *)

ParserIInv ==
    /\ pc \in Labels
    /\ parser = IF pc \in Calls THEN "open"
                ELSE IF pc \in Done /\ record.parser = "success" THEN "destroyed" ELSE "none"
    /\ pc \in Calls => record.parser = "success"

LEMMA ParserStep ==
    ASSUME ParserIInv, [Next]_vars
    PROVE  ParserIInv'
<1> USE DEF ParserIInv, Labels, Calls, Done, given, written
<1>1. CASE Alloc
  BY <1>1 DEF Alloc
<1>2. CASE MakeParser
  BY <1>2 DEF MakeParser
<1>3. ASSUME NEW answer, NEW next \in Calls, NEW updated, pc \in Calls,
             Get(answer, next, updated)
      PROVE  ParserIInv'
  BY <1>3 DEF Get, ReturnError
<1>4. ASSUME NEW updated, Advance(updated)
      PROVE  ParserIInv'
  BY <1>4 DEF Advance
<1>5. CASE Fields
  <2>1. CASE GetDatetime
    BY <1>3, <2>1 DEF GetDatetime
  <2>2. CASE GetDivetime
    BY <1>3, <2>2 DEF GetDivetime
  <2>3. CASE GetMaxdepth
    BY <1>3, <2>3 DEF GetMaxdepth
  <2>4. CASE GetMinTemperature
    BY <1>3, <2>4 DEF GetMinTemperature
  <2>5. CASE GetAvgdepth
    BY <1>3, <2>5 DEF GetAvgdepth
  <2>6. CASE CountTanks
    BY <1>3, <2>6 DEF CountTanks
  <2>7. CASE GetTank
    BY <1>3, <1>4, <2>7 DEF GetTank
  <2>8. CASE NoTankLeft
    BY <2>8 DEF NoTankLeft
  <2>9. CASE CountGases
    BY <1>3, <2>9 DEF CountGases
  <2>10. CASE GetGasmix
    BY <1>4, <2>10 DEF GetGasmix, ReturnError
  <2>11. CASE NoGasLeft
    BY <2>11 DEF NoGasLeft
  <2> QED
    BY <1>5, <2>1, <2>2, <2>3, <2>4, <2>5, <2>6, <2>7, <2>8, <2>9, <2>10, <2>11 DEF Fields
<1>6. CASE SampleCb
  BY <1>4, <1>6 DEF SampleCb
<1>7. CASE SamplesParsed
  BY <1>7 DEF SamplesParsed, ReturnError
<1>8. CASE ImportAlarm
  BY <1>4, <1>8 DEF ImportAlarm
<1>9. CASE AlarmsImported
  BY <1>9 DEF AlarmsImported
<1>10. CASE Destroy
  BY <1>10 DEF Destroy
<1>11. CASE Write
  BY <1>11 DEF Write
<1>12. CASE UNCHANGED vars
  BY <1>12 DEF vars
<1> QED
  BY <1>1, <1>2, <1>5, <1>6, <1>7, <1>8, <1>9, <1>10, <1>11, <1>12 DEF Next

(* Whatever the parser answers, and at whichever call it fails, doparse    *)
(* releases it once, before it returns, and not before its last use        *)
(* (dc2uddf.c:325-520).                                                    *)
THEOREM Released == Spec => []ParserReleased
<1>1. Init => ParserIInv
  BY DEF Init, ParserIInv, Labels, Calls, Done
<1>2. ParserIInv /\ [Next]_vars => ParserIInv'
  BY ParserStep
<1>3. ParserIInv => ParserReleased
  BY DEF ParserIInv, ParserReleased, Labels, Calls, Done
<1> QED
  BY <1>1, <1>2, <1>3, PTL DEF Spec

-----------------------------------------------------------------------------
(* The readings. *)

AfterDate == Calls \ {"datetime"}
AfterTemperature ==
    {"avgdepth", "tankcount", "tanks", "gascount", "gases", "samples", "alarms", "destroy"}
AfterAverage == AfterTemperature \ {"avgdepth"}
AfterTanks == {"gascount", "gases", "samples", "alarms", "destroy"}

(* A reading is there from its call on, and on a return with an error it   *)
(* may be.                                                                 *)
Taken(reading, answer, after) ==
    /\ pc \in after => reading = answer
    /\ pc \in Done => reading \in {<<>>, answer}
    /\ status = "success" => reading = answer
    /\ pc \notin after \cup Done => reading = <<>>

Average ==
    IF Value(record.avgdepth, 0) > 0 THEN Optional(record.avgdepth) ELSE <<>>

FirstPressures ==
    IF ReportedTanks = {} THEN <<>>
    ELSE LET tank == record.tanks[Min(ReportedTanks)].value IN <<tank.begin, tank.end>>

DateIInv ==
    /\ pc = "alloc" => dive.date = "absent"
    /\ pc \in {"parser", "datetime"} => dive.date = "placeholder"
    /\ pc \in AfterDate => dive.date \in Dates \cup {NoDate}
    /\ pc \in Done => dive.date \in Dates \cup {NoDate, "placeholder"}
    /\ status = "success" => dive.date # "placeholder"

IInv ==
    /\ record \in Records
    /\ i \in Nat \ {0}
    /\ DOMAIN dive = {"date", "duration", "maxdepth", "minTemperature", "avgdepth",
                      "tankPressures", "gasmixes", "samples"}
    /\ status \in {"pending", "success", "error"}
    /\ (status = "pending") <=> (pc \notin Done)
    /\ pc \in Labels
    /\ DateIInv
    /\ Taken(dive.minTemperature, Optional(record.mintemp), AfterTemperature)
    /\ Taken(dive.avgdepth, Average, AfterAverage)
    /\ Taken(dive.tankPressures, FirstPressures, AfterTanks)
    /\ pc = "tanks" => \A j \in ReportedTanks : j >= i

LEMMA InitIInv == ASSUME Init PROVE IInv
BY DatesAssumption
   DEF Init, NoDive, IInv, DateIInv, Taken, Labels, Calls, Done, AfterDate, AfterTemperature,
       AfterAverage, AfterTanks

(* The return with an error keeps what is there. *)
LEMMA ErrorStep ==
    ASSUME IInv, pc \in Calls, ReturnError, UNCHANGED <<given, written>>
    PROVE  IInv'
<1> USE DEF given
<1>1. UNCHANGED <<record, dive, i>> /\ pc' = "returned" /\ status' = "error"
  BY DEF ReturnError
<1>2. Optional(record.mintemp)' = Optional(record.mintemp) /\ Average' = Average
      /\ FirstPressures' = FirstPressures /\ ReportedTanks' = ReportedTanks
  BY <1>1 DEF Average, FirstPressures, ReportedTanks
<1>3. DateIInv'
  BY <1>1 DEF IInv, DateIInv, Calls, Labels, Done, AfterDate
<1>4. /\ Taken(dive.minTemperature, Optional(record.mintemp), AfterTemperature)'
      /\ Taken(dive.avgdepth, Average, AfterAverage)'
      /\ Taken(dive.tankPressures, FirstPressures, AfterTanks)'
  BY <1>1, <1>2
     DEF IInv, Taken, Calls, Done, AfterTemperature, AfterAverage, AfterTanks
<1> QED
  BY <1>1, <1>2, <1>3, <1>4 DEF IInv, Labels, Calls, Done

(* A step that only moves on, among calls with the same readings before.   *)
LEMMA MoveStep ==
    ASSUME IInv, UNCHANGED <<given, status>>, i' \in Nat \ {0}, pc \in Calls, pc' \in Calls,
           DOMAIN dive' = DOMAIN dive,
           pc # "datetime" => dive'.date = dive.date,
           pc = "datetime" => dive'.date \in Dates \cup {NoDate},
           pc' = "datetime" => pc = "datetime" /\ dive'.date = dive.date,
           Taken(dive.minTemperature, Optional(record.mintemp), AfterTemperature)',
           Taken(dive.avgdepth, Average, AfterAverage)',
           Taken(dive.tankPressures, FirstPressures, AfterTanks)',
           pc' = "tanks" => \A j \in ReportedTanks : j >= i'
    PROVE  IInv'
<1>1. ReportedTanks' = ReportedTanks
  BY DEF ReportedTanks, given
<1>2. status = "pending" /\ status' = "pending"
  BY DEF IInv, Calls, Done
<1>3. DateIInv'
  BY <1>2, DatesAssumption DEF IInv, DateIInv, Calls, Labels, Done, AfterDate
<1> QED
  BY <1>1, <1>2, <1>3 DEF IInv, given, Labels, Calls, Done

(* A step that leaves the readings alone.                                  *)
LEMMA KeepStep ==
    ASSUME IInv, UNCHANGED <<given, status>>, i' \in Nat \ {0}, pc \in Calls, pc' \in Calls,
           DOMAIN dive' = DOMAIN dive,
           dive'.date = dive.date, dive'.minTemperature = dive.minTemperature,
           dive'.avgdepth = dive.avgdepth, dive'.tankPressures = dive.tankPressures,
           pc # "datetime", pc' # "datetime",
           pc \in AfterTemperature <=> pc' \in AfterTemperature,
           pc \in AfterAverage <=> pc' \in AfterAverage,
           pc \in AfterTanks <=> pc' \in AfterTanks,
           pc' = "tanks" => \A j \in ReportedTanks : j >= i'
    PROVE  IInv'
<1>1. /\ Optional(record.mintemp)' = Optional(record.mintemp) /\ Average' = Average
      /\ FirstPressures' = FirstPressures /\ status = "pending"
  BY DEF Average, FirstPressures, ReportedTanks, given, IInv, Calls, Done
<1>2. /\ Taken(dive.minTemperature, Optional(record.mintemp), AfterTemperature)'
      /\ Taken(dive.avgdepth, Average, AfterAverage)'
      /\ Taken(dive.tankPressures, FirstPressures, AfterTanks)'
  BY <1>1 DEF IInv, Taken, Calls, Done, AfterTemperature, AfterAverage, AfterTanks
<1> QED
  BY <1>2, MoveStep DEF IInv

LEMMA TankFacts ==
    ASSUME IInv, status = "pending"
    PROVE  /\ ReportedTanks \subseteq 1..Value(record.tankcount, 0)
           /\ \A j \in 1..Value(record.tankcount, 0) :
                 HasBothPressures(record.tanks[j]) <=> j \in ReportedTanks
           /\ Value(record.tankcount, 0) \in Nat
<1>1. record \in Record /\ Len(record.tanks) = record.tankcount.value
  BY RecordsAssumption DEF IInv
<1>2. Value(record.tankcount, 0) \in Nat /\ Value(record.tankcount, 0) <= Len(record.tanks)
  BY <1>1 DEF Record, Answer, Value
<1>3. ASSUME NEW j \in 1..Value(record.tankcount, 0)
      PROVE  HasBothPressures(record.tanks[j]) <=> j \in ReportedTanks
  <2>1. record.tanks[j] \in Answer(Tank)
    BY <1>1, <1>2 DEF Record
  <2>2. record.tanks[j].value.begin \in Nat /\ record.tanks[j].value.end \in Nat
    BY <2>1 DEF Answer, Tank
  <2> DEFINE b == record.tanks[j].value.begin
             e == record.tanks[j].value.end
  <2>3. ({b, e} \cap 0..1 = {}) <=> (b > 1 /\ e > 1)
    <3> HIDE DEF b, e
    <3>1. b \in Nat /\ e \in Nat
      BY <2>2 DEF b, e
    <3>2. (b \notin 0..1) <=> (b > 1)
      BY <3>1
    <3>3. (e \notin 0..1) <=> (e > 1)
      BY <3>1
    <3>4. ({b, e} \cap 0..1 = {}) <=> (b \notin 0..1 /\ e \notin 0..1)
      OBVIOUS
    <3> QED
      BY <3>2, <3>3, <3>4
  <2>4. HasBothPressures(record.tanks[j]) <=>
            (record.tanks[j].status = "success" /\ b > 1 /\ e > 1)
    BY DEF HasBothPressures
  <2>5. (j \in ReportedTanks) <=>
            (record.tanks[j].status = "success" /\ {b, e} \cap 0..1 = {})
    BY Zenon DEF ReportedTanks
  <2> QED
    BY <2>3, <2>4, <2>5
<1> QED
  BY <1>2, <1>3 DEF ReportedTanks

LEMMA FirstOf ==
    ASSUME NEW S \in SUBSET Nat, NEW n \in S, \A j \in S : j >= n
    PROVE  Min(S) = n
<1>1. \A y \in S : n =< y
  OBVIOUS
<1>2. Min(S) \in S /\ \A y \in S : Min(S) =< y
  <2> DEFINE Q(x) == x \in S /\ \A y \in S : x =< y
  <2>1. Q(n)
    BY <1>1
  <2>2. Q(CHOOSE x : Q(x))
    BY <2>1, Zenon
  <2>3. Min(S) = CHOOSE x : Q(x)
    BY Zenon DEF Min
  <2> QED
    BY <2>2, <2>3, Zenon
<1>3. /\ Min(S) \in Nat /\ n \in Nat
      /\ n =< Min(S) /\ Min(S) =< n
  BY <1>1, <1>2
<1> QED
  BY <1>3

LEMMA FieldStep ==
    ASSUME IInv, Fields
    PROVE  IInv'
<1> DEFINE kept == UNCHANGED <<dive.minTemperature, dive.avgdepth, dive.tankPressures>>
<1>0. /\ DOMAIN dive = {"date", "duration", "maxdepth", "minTemperature", "avgdepth",
                        "tankPressures", "gasmixes", "samples"}
      /\ i \in Nat \ {0}
  BY DEF IInv
<1>1. ASSUME NEW answer, NEW next, NEW updated, pc \in Calls, Get(answer, next, updated),
             answer.status = "error"
      PROVE  IInv'
  BY <1>1, ErrorStep DEF Get
<1>2. ASSUME NEW answer, NEW next, NEW updated, Get(answer, next, updated),
             answer.status # "error"
      PROVE  /\ UNCHANGED <<given, status>>
             /\ i' = 1 /\ pc' = next /\ dive' = updated
  BY <1>2 DEF Get
<1>3. CASE GetDatetime
  <2> DEFINE updated == [dive EXCEPT !.date = Value(record.datetime, NoDate)]
  <2>0. Value(record.datetime, NoDate) \in Dates \cup {NoDate}
    <3>1. record.datetime \in Answer(Dates \cup {NoDate})
      BY RecordTyped DEF IInv, Record
    <3> QED
      BY <3>1 DEF Value, Answer
  <2>1. pc = "datetime" /\ Get(record.datetime, "divetime", updated)
    BY <1>3, Zenon DEF GetDatetime
  <2>2. CASE record.datetime.status # "error"
    <3>1. /\ UNCHANGED <<given, status>>
          /\ i' = 1 /\ pc' = "divetime" /\ dive' = updated
      BY <1>2, <2>1, <2>2
    <3>2. /\ DOMAIN dive' = DOMAIN dive /\ kept
          /\ dive'.date = Value(record.datetime, NoDate)
      BY <1>0, <3>1
    <3>3. /\ Optional(record.mintemp)' = Optional(record.mintemp) /\ Average' = Average
          /\ FirstPressures' = FirstPressures
      BY <3>1 DEF Average, FirstPressures, ReportedTanks, given
    <3>4. /\ Taken(dive.minTemperature, Optional(record.mintemp), AfterTemperature)'
          /\ Taken(dive.avgdepth, Average, AfterAverage)'
          /\ Taken(dive.tankPressures, FirstPressures, AfterTanks)'
      BY <2>1, <3>1, <3>2, <3>3
         DEF IInv, Taken, Calls, Done, AfterTemperature, AfterAverage, AfterTanks
    <3> QED
      BY <2>0, <2>1, <3>1, <3>2, <3>4, MoveStep DEF Calls
  <2> QED
    BY <1>1, <2>1, <2>2 DEF Calls
<1>4. CASE GetDivetime
  <2> DEFINE updated == [dive EXCEPT !.duration = Value(record.divetime, 0)]
  <2>1. pc = "divetime" /\ Get(record.divetime, "maxdepth", updated)
    BY <1>4, Zenon DEF GetDivetime
  <2>2. CASE record.divetime.status # "error"
    <3>1. /\ UNCHANGED <<given, status>>
          /\ i' = 1 /\ pc' = "maxdepth" /\ dive' = updated
      BY <1>2, <2>1, <2>2
    <3>2. DOMAIN dive' = DOMAIN dive /\ kept /\ dive'.date = dive.date
      BY <1>0, <3>1
    <3> QED
      BY <2>1, <3>1, <3>2, KeepStep DEF Calls, AfterTemperature, AfterAverage, AfterTanks
  <2> QED
    BY <1>1, <2>1, <2>2 DEF Calls
<1>5. CASE GetMaxdepth
  <2> DEFINE updated == [dive EXCEPT !.maxdepth = Value(record.maxdepth, 0)]
  <2>1. pc = "maxdepth" /\ Get(record.maxdepth, "mintemp", updated)
    BY <1>5, Zenon DEF GetMaxdepth
  <2>2. CASE record.maxdepth.status # "error"
    <3>1. /\ UNCHANGED <<given, status>>
          /\ i' = 1 /\ pc' = "mintemp" /\ dive' = updated
      BY <1>2, <2>1, <2>2
    <3>2. DOMAIN dive' = DOMAIN dive /\ kept /\ dive'.date = dive.date
      BY <1>0, <3>1
    <3> QED
      BY <2>1, <3>1, <3>2, KeepStep DEF Calls, AfterTemperature, AfterAverage, AfterTanks
  <2> QED
    BY <1>1, <2>1, <2>2 DEF Calls
<1>6. CASE GetMinTemperature
  <2> DEFINE updated == [dive EXCEPT !.minTemperature = Optional(record.mintemp)]
  <2>1. pc = "mintemp" /\ Get(record.mintemp, "avgdepth", updated)
    BY <1>6, Zenon DEF GetMinTemperature
  <2>2. CASE record.mintemp.status # "error"
    <3>1. /\ UNCHANGED <<given, status>>
          /\ i' = 1 /\ pc' = "avgdepth" /\ dive' = updated
      BY <1>2, <2>1, <2>2
    <3>2. /\ DOMAIN dive' = DOMAIN dive /\ dive'.minTemperature = Optional(record.mintemp)
          /\ UNCHANGED <<dive.date, dive.avgdepth, dive.tankPressures>>
      BY <1>0, <3>1
    <3>3. /\ Optional(record.mintemp)' = Optional(record.mintemp) /\ Average' = Average
          /\ FirstPressures' = FirstPressures
      BY <3>1 DEF Average, FirstPressures, ReportedTanks, given
    <3>4. /\ Taken(dive.minTemperature, Optional(record.mintemp), AfterTemperature)'
          /\ Taken(dive.avgdepth, Average, AfterAverage)'
          /\ Taken(dive.tankPressures, FirstPressures, AfterTanks)'
      BY <2>1, <3>1, <3>2, <3>3
         DEF IInv, Taken, Calls, Done, AfterTemperature, AfterAverage, AfterTanks
    <3> QED
      BY <2>1, <3>1, <3>2, <3>4, MoveStep DEF Calls, IInv
  <2> QED
    BY <1>1, <2>1, <2>2 DEF Calls
<1>7. CASE GetAvgdepth
  <2> DEFINE updated == [dive EXCEPT !.avgdepth = Average]
  <2>1. pc = "avgdepth" /\ Get(record.avgdepth, "tankcount", updated)
    BY <1>7, Zenon DEF GetAvgdepth, Average
  <2>2. CASE record.avgdepth.status # "error"
    <3>1. /\ UNCHANGED <<given, status>>
          /\ i' = 1 /\ pc' = "tankcount" /\ dive' = updated
      BY <1>2, <2>1, <2>2
    <3>2. /\ DOMAIN dive' = DOMAIN dive /\ dive'.avgdepth = Average
          /\ UNCHANGED <<dive.date, dive.minTemperature, dive.tankPressures>>
      BY <1>0, <3>1
    <3>3. /\ Optional(record.mintemp)' = Optional(record.mintemp) /\ Average' = Average
          /\ FirstPressures' = FirstPressures
      BY <3>1 DEF Average, FirstPressures, ReportedTanks, given
    <3>4. /\ Taken(dive.minTemperature, Optional(record.mintemp), AfterTemperature)'
          /\ Taken(dive.avgdepth, Average, AfterAverage)'
          /\ Taken(dive.tankPressures, FirstPressures, AfterTanks)'
      BY <2>1, <3>1, <3>2, <3>3
         DEF IInv, Taken, Calls, Done, AfterTemperature, AfterAverage, AfterTanks
    <3> QED
      BY <2>1, <3>1, <3>2, <3>4, MoveStep DEF Calls, IInv
  <2> QED
    BY <1>1, <2>1, <2>2 DEF Calls
<1>8. CASE CountTanks
  <2>1. pc = "tankcount" /\ Get(record.tankcount, "tanks", dive)
    BY <1>8 DEF CountTanks
  <2>2. CASE record.tankcount.status # "error"
    <3>1. /\ UNCHANGED <<given, status>>
          /\ i' = 1 /\ pc' = "tanks" /\ dive' = dive
      BY <1>2, <2>1, <2>2
    <3>2. \A j \in ReportedTanks : j >= i'
      BY <2>1, <3>1, TankFacts DEF IInv, Done
    <3> QED
      BY <2>1, <3>1, <3>2, KeepStep DEF Calls, AfterTemperature, AfterAverage, AfterTanks
  <2> QED
    BY <1>1, <2>1, <2>2 DEF Calls
<1>9. CASE GetTank
  <2> DEFINE answer == record.tanks[i]
             updated == [dive EXCEPT !.tankPressures = <<answer.value.begin, answer.value.end>>]
  <2>0. pc = "tanks" /\ status = "pending" /\ i <= Value(record.tankcount, 0)
    BY <1>9 DEF GetTank, IInv, Done
  <2>1. CASE answer.status = "error"
    BY <1>1, <1>9, <2>0, <2>1 DEF GetTank, Calls
  <2>2. CASE answer.status # "error" /\ HasBothPressures(answer)
    <3>0. Get(answer, "gascount", updated)
      BY <1>9, <2>2, Zenon DEF GetTank
    <3>1. /\ UNCHANGED <<given, status>>
          /\ i' = 1 /\ pc' = "gascount" /\ dive' = updated
      BY <1>2, <2>2, <3>0
    <3>2. /\ DOMAIN dive' = DOMAIN dive
          /\ dive'.tankPressures = <<answer.value.begin, answer.value.end>>
          /\ UNCHANGED <<dive.date, dive.minTemperature, dive.avgdepth>>
      BY <1>0, <3>1
    <3>3. Min(ReportedTanks) = i /\ ReportedTanks # {}
      <4>1. i \in ReportedTanks /\ ReportedTanks \subseteq Nat
        BY <1>0, <2>0, <2>2, TankFacts
      <4>2. \A j \in ReportedTanks : j >= i
        BY <2>0 DEF IInv
      <4> QED
        BY <4>1, <4>2, FirstOf
    <3>4. dive'.tankPressures = FirstPressures
      BY <3>2, <3>3 DEF FirstPressures
    <3>5. /\ Optional(record.mintemp)' = Optional(record.mintemp) /\ Average' = Average
          /\ FirstPressures' = FirstPressures
      BY <3>1 DEF Average, FirstPressures, ReportedTanks, given
    <3>6. /\ Taken(dive.minTemperature, Optional(record.mintemp), AfterTemperature)'
          /\ Taken(dive.avgdepth, Average, AfterAverage)'
          /\ Taken(dive.tankPressures, FirstPressures, AfterTanks)'
      BY <2>0, <3>1, <3>2, <3>4, <3>5
         DEF IInv, Taken, Calls, Done, AfterTemperature, AfterAverage, AfterTanks
    <3> QED
      BY <2>0, <3>1, <3>2, <3>6, MoveStep DEF Calls, IInv
  <2>3. CASE answer.status # "error" /\ ~HasBothPressures(answer)
    <3>1. Advance(dive)
      BY <1>9, <2>3, Zenon DEF GetTank
    <3>2. UNCHANGED <<given, status, pc, dive>> /\ i' = i + 1
      BY <3>1 DEF Advance
    <3>3. i \notin ReportedTanks /\ ReportedTanks \subseteq Nat
      BY <1>0, <2>0, <2>3, TankFacts
    <3>4. \A j \in ReportedTanks : j >= i
      BY <2>0 DEF IInv
    <3>5. \A j \in ReportedTanks : j >= i'
      BY <1>0, <3>2, <3>3, <3>4
    <3> QED
      BY <1>0, <2>0, <3>2, <3>5, KeepStep DEF Calls
  <2> QED
    BY <2>1, <2>2, <2>3
<1>10. CASE NoTankLeft
  <2>1. /\ pc = "tanks" /\ pc' = "gascount" /\ status = "pending"
        /\ UNCHANGED <<given, dive, i, status>>
        /\ i > Value(record.tankcount, 0)
    BY <1>10 DEF NoTankLeft, IInv, Done
  <2>2. ReportedTanks = {}
    BY <1>0, <2>1, TankFacts DEF IInv
  <2>3. /\ Optional(record.mintemp)' = Optional(record.mintemp) /\ Average' = Average
        /\ FirstPressures' = FirstPressures /\ FirstPressures = <<>>
    BY <2>1, <2>2 DEF Average, FirstPressures, ReportedTanks, given
  <2>4. /\ Taken(dive.minTemperature, Optional(record.mintemp), AfterTemperature)'
        /\ Taken(dive.avgdepth, Average, AfterAverage)'
        /\ Taken(dive.tankPressures, FirstPressures, AfterTanks)'
    BY <2>1, <2>3
       DEF IInv, Taken, Calls, Done, AfterTemperature, AfterAverage, AfterTanks
  <2> QED
    BY <1>0, <2>1, <2>4, MoveStep DEF Calls, IInv
<1>11. CASE CountGases
  <2>1. pc = "gascount" /\ Get(record.gascount, "gases", dive)
    BY <1>11 DEF CountGases
  <2>2. CASE record.gascount.status # "error"
    <3>1. /\ UNCHANGED <<given, status>>
          /\ i' = 1 /\ pc' = "gases" /\ dive' = dive
      BY <1>2, <2>1, <2>2
    <3> QED
      BY <2>1, <3>1, KeepStep DEF Calls, AfterTemperature, AfterAverage, AfterTanks
  <2> QED
    BY <1>1, <2>1, <2>2 DEF Calls
<1>12. CASE GetGasmix
  <2> DEFINE answer == record.gases[i]
             mix == Value(answer, NoMix)
             updated == IF IsValid(mix) THEN [dive EXCEPT !.gasmixes = Append(@, mix)] ELSE dive
  <2>1. pc = "gases"
    BY <1>12 DEF GetGasmix
  <2>2. CASE ReturnError /\ UNCHANGED <<given, written>>
    BY <2>1, <2>2, ErrorStep DEF Calls
  <2>3. CASE Advance(updated)
    <3>1. UNCHANGED <<given, status, pc>> /\ i' = i + 1 /\ dive' = updated
      BY <2>3 DEF Advance
    <3>2. DOMAIN dive' = DOMAIN dive /\ kept /\ dive'.date = dive.date
      BY <1>0, <3>1
    <3> QED
      BY <1>0, <2>1, <3>1, <3>2, KeepStep DEF Calls
  <2> QED
    BY <1>12, <2>2, <2>3, Zenon DEF GetGasmix
<1>13. CASE NoGasLeft
  <2>1. /\ pc = "gases" /\ pc' = "samples" /\ i' = 1
        /\ UNCHANGED <<given, dive, status>>
    BY <1>13 DEF NoGasLeft
  <2> QED
    BY <2>1, KeepStep DEF Calls, AfterTemperature, AfterAverage, AfterTanks
<1> QED
  BY <1>3, <1>4, <1>5, <1>6, <1>7, <1>8, <1>9, <1>10, <1>11, <1>12, <1>13 DEF Fields

(* The samples and the alarms. *)
LEMMA SampleStep ==
    ASSUME IInv, SampleCb \/ SamplesParsed \/ ImportAlarm \/ AlarmsImported
    PROVE  IInv'
<1>0. /\ DOMAIN dive = {"date", "duration", "maxdepth", "minTemperature", "avgdepth",
                        "tankPressures", "gasmixes", "samples"}
      /\ i \in Nat \ {0}
  BY DEF IInv
<1>1. ASSUME NEW samples, pc \in {"samples", "alarms"},
             Advance([dive EXCEPT !.samples = samples])
      PROVE  IInv'
  <2>1. /\ UNCHANGED <<given, status, pc>> /\ i' = i + 1
        /\ dive' = [dive EXCEPT !.samples = samples]
    BY <1>1 DEF Advance
  <2>2. /\ DOMAIN dive' = DOMAIN dive
        /\ UNCHANGED <<dive.date, dive.minTemperature, dive.avgdepth, dive.tankPressures>>
    BY <1>0, <2>1
  <2> QED
    BY <1>0, <1>1, <2>1, <2>2, KeepStep DEF Calls
<1>2. CASE SampleCb
  <2>1. pc = "samples" /\ \E samples : Advance([dive EXCEPT !.samples = samples])
    BY <1>2, Zenon DEF SampleCb
  <2> QED
    BY <1>1, <2>1
<1>3. CASE SamplesParsed
  <2>1. pc = "samples"
    BY <1>3 DEF SamplesParsed
  <2>2. CASE ReturnError /\ UNCHANGED <<given, written>>
    BY <2>1, <2>2, ErrorStep DEF Calls
  <2>3. CASE /\ pc' \in {"alarms", "destroy"} /\ i' = 1
             /\ UNCHANGED <<given, dive, status>>
    BY <2>1, <2>3, KeepStep DEF Calls, AfterTemperature, AfterAverage, AfterTanks
  <2> QED
    BY <1>3, <2>2, <2>3 DEF SamplesParsed
<1>4. CASE ImportAlarm
  <2>1. pc = "alarms" /\ \E samples : Advance([dive EXCEPT !.samples = samples])
    BY <1>4, Zenon DEF ImportAlarm
  <2> QED
    BY <1>1, <2>1
<1>5. CASE AlarmsImported
  <2>1. pc = "alarms" /\ pc' = "destroy" /\ UNCHANGED <<given, dive, i, status>>
    BY <1>5 DEF AlarmsImported
  <2> QED
    BY <1>0, <2>1, KeepStep DEF Calls, AfterTemperature, AfterAverage, AfterTanks
<1> QED
  BY <1>2, <1>3, <1>4, <1>5

LEMMA AllocStep ==
    ASSUME IInv, Alloc
    PROVE  IInv'
<1>1. /\ pc = "alloc" /\ pc' = "parser" /\ UNCHANGED <<given, i, status>>
      /\ dive' = [NoDive EXCEPT !.date = "placeholder"]
  BY DEF Alloc
<1>2. status = "pending"
  BY <1>1 DEF IInv, Done
<1> QED
  BY <1>1, <1>2
     DEF IInv, DateIInv, Taken, NoDive, Labels, Calls, Done, given, AfterDate, AfterTemperature,
         AfterAverage, AfterTanks

(* The steps between which doparse has not begun, or has returned.         *)
LEMMA OuterStep ==
    ASSUME IInv, MakeParser \/ Destroy \/ Write
    PROVE  IInv'
<1>1. /\ UNCHANGED given /\ i' = i
      /\ DOMAIN dive' = DOMAIN dive
      /\ UNCHANGED <<dive.date, dive.minTemperature, dive.avgdepth, dive.tankPressures>>
  <2>1. DOMAIN dive = {"date", "duration", "maxdepth", "minTemperature", "avgdepth",
                       "tankPressures", "gasmixes", "samples"}
    BY DEF IInv
  <2>2. CASE MakeParser \/ Destroy
    BY <2>2 DEF MakeParser, Destroy
  <2>3. CASE Write
    <3>1. \E samples : dive' = [dive EXCEPT !.samples = samples]
      BY <2>3, Zenon DEF Write
    <3> QED
      BY <2>1, <2>3, <3>1 DEF Write
  <2> QED
    BY <2>2, <2>3
<1>2. \/ pc = "parser" /\ pc' = "datetime" /\ status = "pending" /\ status' = "pending"
      \/ pc = "parser" /\ pc' = "returned" /\ status' = "error"
      \/ /\ pc = "destroy" /\ pc' = "returned" /\ status = "pending"
         /\ status' \in {"success", "error"}
      \/ pc = "returned" /\ pc' = "written" /\ status' = status
  <2>1. status = "pending" \/ pc \in Done
    BY DEF IInv
  <2>2. record.destroy \in {"success", "error"}
    BY RecordTyped DEF IInv, Record
  <2>3. CASE MakeParser
    BY <2>1, <2>3 DEF MakeParser, Done
  <2>4. CASE Destroy
    BY <2>1, <2>2, <2>4 DEF Destroy, Done
  <2>5. CASE Write
    BY <2>5 DEF Write
  <2> QED
    BY <2>3, <2>4, <2>5
<1>3. /\ Optional(record.mintemp)' = Optional(record.mintemp) /\ Average' = Average
      /\ FirstPressures' = FirstPressures
  BY <1>1 DEF Average, FirstPressures, ReportedTanks, given
<1>4. /\ Taken(dive.minTemperature, Optional(record.mintemp), AfterTemperature)'
      /\ Taken(dive.avgdepth, Average, AfterAverage)'
      /\ Taken(dive.tankPressures, FirstPressures, AfterTanks)'
  BY <1>1, <1>2, <1>3
     DEF IInv, Taken, Calls, Done, AfterTemperature, AfterAverage, AfterTanks
<1>5. DateIInv'
  BY <1>1, <1>2, DatesAssumption DEF IInv, DateIInv, Calls, Done, AfterDate, NoDate
<1> QED
  BY <1>1, <1>2, <1>4, <1>5 DEF IInv, given, Labels, Calls, Done

LEMMA StutterStep ==
    ASSUME IInv, UNCHANGED vars
    PROVE  IInv'
<1>1. UNCHANGED <<record, pc, dive, i, status>>
  BY DEF vars
<1>2. /\ Optional(record.mintemp)' = Optional(record.mintemp) /\ Average' = Average
      /\ FirstPressures' = FirstPressures /\ ReportedTanks' = ReportedTanks
  BY <1>1 DEF Average, FirstPressures, ReportedTanks
<1>3. /\ Taken(dive.minTemperature, Optional(record.mintemp), AfterTemperature)'
      /\ Taken(dive.avgdepth, Average, AfterAverage)'
      /\ Taken(dive.tankPressures, FirstPressures, AfterTanks)'
  BY <1>1, <1>2 DEF IInv, Taken, AfterTemperature, AfterAverage, AfterTanks
<1>4. DateIInv'
  BY <1>1 DEF IInv, DateIInv
<1> QED
  BY <1>1, <1>2, <1>3, <1>4 DEF IInv

LEMMA Inductive ==
    ASSUME IInv, [Next]_vars
    PROVE  IInv'
BY FieldStep, SampleStep, AllocStep, OuterStep, StutterStep DEF Next

(* The dive has a reading iff the computer reported it, and the pressures  *)
(* of the first tank that has them, for any number of tanks and any        *)
(* answers (dc2uddf.c:369-418).                                            *)
THEOREM Readings == Spec => []FaithfulReadings
<1>1. ASSUME IInv, pc \in Done
      PROVE  FaithfulReadings
  <2> DEFINE first == record.tanks[Min(ReportedTanks)].value
  <2>0. record.avgdepth.value \in Nat /\ record \in Record
    BY <1>1, RecordTyped DEF IInv, Record, Answer
  <2>1. /\ dive.minTemperature \in {<<>>, Optional(record.mintemp)}
        /\ dive.avgdepth \in {<<>>, Average}
        /\ dive.tankPressures \in {<<>>, FirstPressures}
        /\ status = "success" => /\ dive.minTemperature = Optional(record.mintemp)
                                /\ dive.avgdepth = Average
                                /\ dive.tankPressures = FirstPressures
    BY <1>1 DEF IInv, Taken
  <2>2. Average \in {<<>>, Optional(record.avgdepth)} /\ Average # <<0>> /\ <<>> # <<0>>
    BY <2>0 DEF Average, Optional, Value
  <2>3. (Average = <<>>) <=> (Value(record.avgdepth, 0) = 0)
    BY <2>0 DEF Average, Optional, Value
  <2>4. FirstPressures # <<>> =>
            ReportedTanks # {} /\ FirstPressures = <<first.begin, first.end>>
    BY DEF FirstPressures
  <2>5. (FirstPressures = <<>>) <=> (ReportedTanks = {})
    BY DEF FirstPressures
  <2> HIDE DEF first
  <2>6. dive.avgdepth \in {<<>>, Optional(record.avgdepth)} \ {<<0>>}
    BY <2>1, <2>2
  <2>7. dive.tankPressures # <<>> =>
            ReportedTanks # {} /\ dive.tankPressures = <<first.begin, first.end>>
    BY <2>1, <2>4
  <2>8. status = "success" => /\ (dive.avgdepth = <<>>) <=> (Value(record.avgdepth, 0) = 0)
                              /\ (dive.tankPressures = <<>>) <=> (ReportedTanks = {})
    BY <2>1, <2>3, <2>5
  <2> QED
    BY <2>1, <2>6, <2>7, <2>8 DEF FaithfulReadings, first
<1>2. IInv => FaithfulReadings
  BY <1>1 DEF FaithfulReadings, Done
<1>3. Init => IInv
  BY InitIInv
<1>4. IInv /\ [Next]_vars => IInv'
  BY Inductive
<1> QED
  BY <1>2, <1>3, <1>4, PTL DEF Spec

(* Only GetDatetime dates a dive that is there.                            *)
LEMMA DateKept ==
    ASSUME IInv, Next, ~Alloc, ~GetDatetime
    PROVE  dive'.date = dive.date
<1>0. DOMAIN dive = {"date", "duration", "maxdepth", "minTemperature", "avgdepth",
                     "tankPressures", "gasmixes", "samples"}
  BY DEF IInv
<1>1. CASE ReturnError
  BY <1>1 DEF ReturnError
<1>2. CASE MakeParser \/ NoTankLeft \/ NoGasLeft \/ SamplesParsed \/ AlarmsImported \/ Destroy
  BY <1>1, <1>2 DEF MakeParser, NoTankLeft, NoGasLeft, SamplesParsed, AlarmsImported, Destroy
<1>3. CASE GetDivetime \/ GetMaxdepth \/ GetMinTemperature \/ GetAvgdepth
  BY <1>0, <1>1, <1>3 DEF GetDivetime, GetMaxdepth, GetMinTemperature, GetAvgdepth, Get
<1>4. CASE CountTanks \/ CountGases
  BY <1>1, <1>4 DEF CountTanks, CountGases, Get
<1>5. CASE GetTank
  BY <1>0, <1>1, <1>5 DEF GetTank, Get, Advance
<1>6. CASE GetGasmix
  BY <1>0, <1>1, <1>6 DEF GetGasmix, Advance
<1>7. CASE SampleCb \/ ImportAlarm
  BY <1>0, <1>7 DEF SampleCb, ImportAlarm, Advance
<1>8. CASE Write
  <2>1. \E samples : dive' = [dive EXCEPT !.samples = samples]
    BY <1>8, Zenon DEF Write
  <2> QED
    BY <1>0, <2>1
<1> QED
  BY <1>2, <1>3, <1>4, <1>5, <1>6, <1>7, <1>8 DEF Next, Fields

(* A dive is pending until doparse returns.                                *)
LEMMA StatusKept ==
    ASSUME IInv, Next, pc \in Done
    PROVE  status' = status
BY DEF Next, Fields, Alloc, MakeParser, GetDatetime, GetDivetime, GetMaxdepth,
       GetMinTemperature, GetAvgdepth, CountTanks, GetTank, NoTankLeft, CountGases, GetGasmix,
       NoGasLeft, SampleCb, SamplesParsed, ImportAlarm, AlarmsImported, Destroy, Done, Write

(* Whatever the parser answers, doparse adds the record to the collection  *)
(* once, with a date of its own or that of dif_dive_alloc, and one that    *)
(* succeeded has a date of its own, or none: all that dive_cb relies on    *)
(* when it does not look at the result (dc2uddf.c:310-345, 584).           *)
THEOREM Refines == Spec => ImplementsParsedDive
<1> USE DEF P!Absent, P!Placeholder
<1>1. Init => P!Init
  BY DEF Init, NoDive, P!Init
<1>2. ASSUME IInv, IInv', [Next]_vars
      PROVE  [P!Next]_(P!vars)
  <2>1. CASE Alloc
    <3>1. pc = "alloc" /\ dive'.date = "placeholder" /\ status' = status
      BY <2>1 DEF Alloc, NoDive
    <3>2. dive.date = "absent"
      BY <1>2, <3>1 DEF IInv, DateIInv
    <3> QED
      BY <3>1, <3>2 DEF P!Next, P!Collect
  <2>2. CASE GetDatetime
    <3>1. pc = "datetime" /\ dive.date = "placeholder" /\ status = "pending"
      BY <1>2, <2>2 DEF GetDatetime, IInv, DateIInv, Done
    <3>2. CASE dive' = dive /\ status' = "error"
      BY <3>1, <3>2 DEF P!Next, P!Return
    <3>3. CASE pc' = "divetime" /\ status' = status
      <4>1. dive'.date \in Dates \cup {NoDate}
        BY <1>2, <3>3 DEF IInv, DateIInv, AfterDate, Calls
      <4> QED
        BY <3>1, <3>3, <4>1 DEF P!Next, P!GetDate
    <3> QED
      BY <2>2, <3>2, <3>3 DEF GetDatetime, Get, ReturnError
  <2>3. CASE Next /\ ~Alloc /\ ~GetDatetime
    <3>1. dive'.date = dive.date
      BY <1>2, <2>3, DateKept
    <3>2. CASE status' = status
      BY <3>1, <3>2 DEF P!vars
    <3>3. CASE status' # status
      <4>1. pc \notin Done /\ status = "pending"
        BY <1>2, <2>3, <3>3, StatusKept DEF IInv
      <4>2. status' \in {"success", "error"}
        BY <1>2, <3>3, <4>1 DEF IInv
      <4>3. status' = "success" => dive'.date # "placeholder"
        BY <1>2 DEF IInv, DateIInv
      <4>4. pc # "alloc"
        BY <2>3
           DEF Next, Fields, MakeParser, GetDivetime, GetMaxdepth, GetMinTemperature,
               GetAvgdepth, CountTanks, GetTank, NoTankLeft, CountGases, GetGasmix,
               NoGasLeft, SampleCb, SamplesParsed, ImportAlarm, AlarmsImported, Destroy, Write
      <4>5. dive.date # "absent"
        BY <1>2, <4>1, <4>4, DatesAssumption
           DEF IInv, DateIInv, Labels, AfterDate, Calls, Done, NoDate
      <4> QED
        BY <3>1, <4>1, <4>2, <4>3, <4>5 DEF P!Next, P!Return
    <3> QED
      BY <3>2, <3>3
  <2>4. CASE UNCHANGED vars
    BY <2>4 DEF vars, P!vars
  <2> QED
    BY <1>2, <2>1, <2>2, <2>3, <2>4
<1>3. Init => IInv
  BY InitIInv
<1>4. IInv /\ [Next]_vars => IInv'
  BY Inductive
<1> QED
  BY <1>1, <1>2, <1>3, <1>4, PTL DEF Spec, ImplementsParsedDive, P!Spec

-----------------------------------------------------------------------------
(* The numbers, the gas mixes and the samples. *)

SampleT == [time : Nat, subsamples : Seq(DiveSubsample)]

(* What the steps do to them. *)
LEMMA SamplesKept ==
    ASSUME IInv, [Next]_vars, ~Alloc, ~SampleCb, ~ImportAlarm, ~Write
    PROVE  dive'.samples = dive.samples
<1>0. DOMAIN dive = {"date", "duration", "maxdepth", "minTemperature", "avgdepth",
                     "tankPressures", "gasmixes", "samples"}
  BY DEF IInv
<1>1. CASE ReturnError
  BY <1>1 DEF ReturnError
<1>2. CASE MakeParser \/ NoTankLeft \/ NoGasLeft \/ SamplesParsed \/ AlarmsImported \/ Destroy
  BY <1>1, <1>2 DEF MakeParser, NoTankLeft, NoGasLeft, SamplesParsed, AlarmsImported, Destroy
<1>3. CASE GetDatetime \/ GetDivetime \/ GetMaxdepth \/ GetMinTemperature \/ GetAvgdepth
  BY <1>0, <1>1, <1>3
     DEF GetDatetime, GetDivetime, GetMaxdepth, GetMinTemperature, GetAvgdepth, Get
<1>4. CASE CountTanks \/ CountGases
  BY <1>1, <1>4 DEF CountTanks, CountGases, Get
<1>5. CASE GetTank
  BY <1>0, <1>1, <1>5 DEF GetTank, Get, Advance
<1>6. CASE GetGasmix
  BY <1>0, <1>1, <1>6 DEF GetGasmix, Advance
<1>7. CASE UNCHANGED vars
  BY <1>7 DEF vars
<1> QED
  BY <1>2, <1>3, <1>4, <1>5, <1>6, <1>7 DEF Next, Fields

LEMMA SamplesSet ==
    ASSUME IInv, NEW samples
    PROVE  LET d == [dive EXCEPT !.samples = samples] IN
           /\ d.samples = samples /\ d.gasmixes = dive.gasmixes
           /\ d.duration = dive.duration /\ d.maxdepth = dive.maxdepth
           /\ d.minTemperature = dive.minTemperature
BY DEF IInv

LEMMA MixesKept ==
    ASSUME IInv, [Next]_vars, ~Alloc, ~GetGasmix
    PROVE  dive'.gasmixes = dive.gasmixes
<1>0. DOMAIN dive = {"date", "duration", "maxdepth", "minTemperature", "avgdepth",
                     "tankPressures", "gasmixes", "samples"}
  BY DEF IInv
<1>1. CASE ReturnError
  BY <1>1 DEF ReturnError
<1>2. CASE MakeParser \/ NoTankLeft \/ NoGasLeft \/ SamplesParsed \/ AlarmsImported \/ Destroy
  BY <1>1, <1>2 DEF MakeParser, NoTankLeft, NoGasLeft, SamplesParsed, AlarmsImported, Destroy
<1>3. CASE GetDatetime \/ GetDivetime \/ GetMaxdepth \/ GetMinTemperature \/ GetAvgdepth
  BY <1>0, <1>1, <1>3
     DEF GetDatetime, GetDivetime, GetMaxdepth, GetMinTemperature, GetAvgdepth, Get
<1>4. CASE CountTanks \/ CountGases
  BY <1>1, <1>4 DEF CountTanks, CountGases, Get
<1>5. CASE GetTank
  BY <1>0, <1>1, <1>5 DEF GetTank, Get, Advance
<1>6. CASE SampleCb \/ ImportAlarm \/ Write
  <2>1. \E samples : dive' = [dive EXCEPT !.samples = samples]
    BY <1>6, Zenon DEF SampleCb, ImportAlarm, Write, Advance
  <2> QED
    BY <2>1, SamplesSet
<1>7. CASE UNCHANGED vars
  BY <1>7 DEF vars
<1> QED
  BY <1>2, <1>3, <1>4, <1>5, <1>6, <1>7 DEF Next, Fields

LEMMA NumbersTyped ==
    ASSUME IInv, [Next]_vars, dive.duration \in Nat, dive.maxdepth \in Nat
    PROVE  dive'.duration \in Nat /\ dive'.maxdepth \in Nat
<1>0. DOMAIN dive = {"date", "duration", "maxdepth", "minTemperature", "avgdepth",
                     "tankPressures", "gasmixes", "samples"}
  BY DEF IInv
<1>1. CASE ReturnError
  BY <1>1 DEF ReturnError
<1>2. CASE MakeParser \/ NoTankLeft \/ NoGasLeft \/ SamplesParsed \/ AlarmsImported \/ Destroy
  BY <1>1, <1>2 DEF MakeParser, NoTankLeft, NoGasLeft, SamplesParsed, AlarmsImported, Destroy
<1>3. CASE GetDatetime \/ GetMinTemperature \/ GetAvgdepth
  BY <1>0, <1>1, <1>3 DEF GetDatetime, GetMinTemperature, GetAvgdepth, Get
<1>4. CASE GetDivetime \/ GetMaxdepth
  <2>1. Value(record.divetime, 0) \in Nat /\ Value(record.maxdepth, 0) \in Nat
    <3>1. record.divetime \in Answer(Nat) /\ record.maxdepth \in Answer(Nat)
      BY RecordTyped DEF IInv, Record
    <3> QED
      BY <3>1 DEF Answer, Value
  <2> QED
    BY <1>0, <1>1, <1>4, <2>1 DEF GetDivetime, GetMaxdepth, Get
<1>5. CASE CountTanks \/ CountGases
  BY <1>1, <1>5 DEF CountTanks, CountGases, Get
<1>6. CASE GetTank
  BY <1>0, <1>1, <1>6 DEF GetTank, Get, Advance
<1>7. CASE GetGasmix
  BY <1>0, <1>1, <1>7 DEF GetGasmix, Advance
<1>8. CASE SampleCb \/ ImportAlarm \/ Write
  <2>1. \E samples : dive' = [dive EXCEPT !.samples = samples]
    BY <1>8, Zenon DEF SampleCb, ImportAlarm, Write, Advance
  <2> QED
    BY <2>1, SamplesSet
<1>9. CASE Alloc
  BY <1>9 DEF Alloc, NoDive
<1>10. CASE UNCHANGED vars
  BY <1>10 DEF vars
<1> QED
  BY <1>2, <1>3, <1>4, <1>5, <1>6, <1>7, <1>8, <1>9, <1>10 DEF Next, Fields

(* The samples have their types, whatever is reported. *)
LEMMA TranslatedType ==
    ASSUME NEW r \in Report, r.type \in SampleTypes
    PROVE  Translated(r) \in DiveSubsample
<1>1. CASE r.type = "event"
  <2>1. DcToDifEvent(r.event) \in DifEvents
    BY DEF DcToDifEvent, DifEvents
  <2>2. Translated(r) = [type |-> "event", event |-> DcToDifEvent(r.event)]
    BY <1>1 DEF Translated, EventSubsample
  <2> QED
    BY <2>1, <2>2 DEF DiveSubsample
<1>2. CASE r.type # "event"
  <2>1. r.value \in Int /\ (r.type = "rbt" => r.value \in Nat)
    BY <1>2 DEF Report, SampleTypes
  <2>2. \E v \in Int : Translated(r) = [type |-> r.type, value |-> v]
    BY <1>2, <2>1 DEF Translated, Subsample
  <2> QED
    BY <1>2, <2>2 DEF DiveSubsample
<1> QED
  BY <1>1, <1>2

LEMMA AddSubsampleIs ==
    ASSUME NEW samples \in Seq(SampleT), NEW at, NEW s \in DiveSubsample
    PROVE  LET added == AddSubsample(samples, at, s) IN
           /\ added \in Seq(SampleT) /\ Len(added) = Len(samples)
           /\ \A w \in 1..Len(samples) :
                 /\ added[w].time = samples[w].time
                 /\ added[w].subsamples = IF w = at THEN Append(samples[w].subsamples, s)
                                          ELSE samples[w].subsamples
<1> DEFINE x == [samples[at] EXCEPT !.subsamples = Append(samples[at].subsamples, s)]
           added == AddSubsample(samples, at, s)
<1>1. added = [samples EXCEPT ![at] = x]
  BY DEF AddSubsample
<1>2. \A w \in 1..Len(samples) :
         /\ samples[w] \in SampleT /\ samples[w].subsamples \in Seq(DiveSubsample)
         /\ samples[w].time \in Nat
  <2>1. \A w \in 1..Len(samples) : samples[w] \in SampleT
    OBVIOUS
  <2> QED
    BY <2>1 DEF SampleT
<1>3. at \in 1..Len(samples) =>
         /\ x \in SampleT /\ x.time = samples[at].time
         /\ x.subsamples = Append(samples[at].subsamples, s)
  <2> SUFFICES ASSUME at \in 1..Len(samples)
               PROVE  /\ x \in SampleT /\ x.time = samples[at].time
                      /\ x.subsamples = Append(samples[at].subsamples, s)
    OBVIOUS
  <2>1. samples[at] \in SampleT /\ samples[at].subsamples \in Seq(DiveSubsample)
    BY <1>2
  <2> HIDE DEF DiveSubsample
  <2>2. Append(samples[at].subsamples, s) \in Seq(DiveSubsample)
    BY <2>1
  <2> QED
    BY <2>1, <2>2 DEF SampleT
<1> HIDE DEF x, added
<1>4. added \in Seq(SampleT)
  BY <1>1, <1>3, Replaced
<1>5. Len(added) = Len(samples)
      /\ \A w \in 1..Len(samples) : added[w] = IF w = at THEN x ELSE samples[w]
  <2>1. CASE at \in 1..Len(samples)
    BY <1>1, <2>1, OneReplaced
  <2>2. CASE at \notin 1..Len(samples)
    <3>1. added = samples
      BY <1>1, <2>2
    <3> QED
      BY <2>2, <3>1
  <2> QED
    BY <2>1, <2>2
<1> QED
  BY <1>3, <1>4, <1>5 DEF added

LEMMA NewSampleType ==
    ASSUME NEW t \in Nat
    PROVE  /\ NewSample(t) \in SampleT
           /\ NewSample(t).time = t /\ NewSample(t).subsamples = <<>>
<1>1. <<>> \in Seq(DiveSubsample)
  OBVIOUS
<1> HIDE DEF DiveSubsample
<1> QED
  BY <1>1 DEF NewSample, SampleT

LEMMA SecondsOf ==
    ASSUME NEW t \in Nat
    PROVE  t \div 1000 \in Nat
<1>1. t \div 1000 \in Int /\ t \div 1000 >= 0
  OBVIOUS
<1> QED
  BY <1>1

(* A report opens a sample, joins the last one or is no report. *)
LEMMA AddReportIs ==
    ASSUME NEW samples \in Seq(SampleT), NEW r \in Report
    PROVE  LET added == AddReport(samples, r)
               n == Len(samples)
           IN  /\ added \in Seq(SampleT)
               /\ r.type = "time" =>
                     /\ Len(added) = n + 1 /\ \A w \in 1..n : added[w] = samples[w]
                     /\ added[n + 1].time = r.value \div 1000
                     /\ added[n + 1].subsamples = <<>>
               /\ r.type \in SampleTypes =>
                     /\ Len(added) = n /\ Translated(r) \in DiveSubsample
                     /\ \A w \in 1..n :
                           /\ added[w].time = samples[w].time
                           /\ added[w].subsamples =
                                 IF w = n THEN Append(samples[w].subsamples, Translated(r))
                                 ELSE samples[w].subsamples
               /\ r.type \notin {"time"} \cup SampleTypes => added = samples
<1> DEFINE added == AddReport(samples, r)
           n == Len(samples)
<1>1. "time" \notin SampleTypes /\ n \in Nat
  BY DEF SampleTypes
<1>2. CASE r.type = "time"
  <2>1. r.value \in Nat
    BY <1>2 DEF Report, SampleTypes
  <2> DEFINE x == NewSample(r.value \div 1000)
  <2>2. added = Append(samples, x)
    BY <1>1, <1>2 DEF AddReport
  <2>3. x \in SampleT /\ x.time = r.value \div 1000 /\ x.subsamples = <<>>
    BY <2>1, SecondsOf, NewSampleType
  <2> HIDE DEF x, added
  <2>4. /\ added \in Seq(SampleT) /\ Len(added) = n + 1
        /\ \A w \in 1..n : added[w] = samples[w]
        /\ added[n + 1] = x
    BY <2>2, <2>3
  <2> QED
    BY <1>1, <1>2, <2>3, <2>4 DEF added
<1>3. CASE r.type \in SampleTypes
  <2>1. added = AddSubsample(samples, n, Translated(r))
    BY <1>1, <1>3 DEF AddReport
  <2>2. Translated(r) \in DiveSubsample
    BY <1>3, TranslatedType
  <2>3. /\ added \in Seq(SampleT) /\ Len(added) = n
        /\ \A w \in 1..n :
              /\ added[w].time = samples[w].time
              /\ added[w].subsamples =
                    IF w = n THEN Append(samples[w].subsamples, Translated(r))
                    ELSE samples[w].subsamples
    BY <2>1, <2>2, AddSubsampleIs
  <2> HIDE DEF added
  <2> QED
    BY <1>1, <1>3, <2>2, <2>3 DEF added
<1>4. CASE r.type \notin {"time"} \cup SampleTypes
  BY <1>4 DEF AddReport
<1> QED
  BY <1>2, <1>3, <1>4

(* A sample is opened with a subsample, a subsample joins a sample. *)
OpensOne(samples, more, t, s) ==
    /\ Len(more) = Len(samples) + 1
    /\ \A w \in 1..Len(samples) : more[w] = samples[w]
    /\ more[Len(samples) + 1].time = t /\ more[Len(samples) + 1].subsamples = <<s>>

JoinsOne(samples, more, t, s, f) ==
    /\ samples[f].time = t /\ Len(more) = Len(samples)
    /\ \A w \in 1..Len(samples) :
          /\ more[w].time = samples[w].time
          /\ more[w].subsamples = IF w = f THEN Append(samples[w].subsamples, s)
                                  ELSE samples[w].subsamples

(* An alarm joins the first sample of its second, or is one of its own. *)
LEMMA AddAlarmIs ==
    ASSUME NEW samples \in Seq(SampleT), NEW t \in Nat, NEW level \in {1, 2}
    PROVE  LET added == AddAlarm(samples, t, level)
               alarm == AlarmSubsample("error", level)
           IN  /\ added \in Seq(SampleT) /\ alarm \in DiveSubsample
               /\ \/ OpensOne(samples, added, t, alarm)
                  \/ \E f \in 1..Len(samples) : JoinsOne(samples, added, t, alarm, f)
<1> DEFINE added == AddAlarm(samples, t, level)
           alarm == AlarmSubsample("error", level)
           n == Len(samples)
           at == {w \in 1..n : samples[w].time = t}
           found == SelectInSeq(samples, LAMBDA s : s.time = t)
           x == [NewSample(t) EXCEPT !.subsamples = <<alarm>>]
<1>1. found = IF at # {} THEN Min(at) ELSE 0
  BY DEF SelectInSeq
<1>2. at \in SUBSET (1..n) /\ n \in Nat
  OBVIOUS
<1>3. alarm \in DiveSubsample
  BY DEF AlarmSubsample, DiveSubsample
<1>4. added = IF found = 0 THEN Append(samples, x) ELSE AddSubsample(samples, found, alarm)
  BY DEF AddAlarm
<1> HIDE DEF found, added, alarm, at
<1>5. CASE at = {}
  <2>1. x \in SampleT /\ x.time = t /\ x.subsamples = <<alarm>>
    <3>1. NewSample(t) = [time |-> t, subsamples |-> <<>>]
      BY DEF NewSample
    <3>2. x = [time |-> t, subsamples |-> <<alarm>>]
      BY <3>1
    <3>3. <<alarm>> \in Seq(DiveSubsample)
      <4> HIDE DEF DiveSubsample
      <4> QED
        BY <1>3
    <3> HIDE DEF x, DiveSubsample
    <3> QED
      BY <3>2, <3>3 DEF SampleT
  <2>2. added = Append(samples, x)
    BY <1>1, <1>4, <1>5
  <2> HIDE DEF x
  <2>3. /\ added \in Seq(SampleT) /\ Len(added) = n + 1
        /\ \A w \in 1..n : added[w] = samples[w]
        /\ added[n + 1] = x
    BY <2>1, <2>2
  <2>4. OpensOne(samples, added, t, alarm)
    BY <2>1, <2>3 DEF OpensOne
  <2> QED
    BY <1>3, <2>3, <2>4 DEF added, alarm
<1>6. CASE at # {}
  <2>1. found \in at
    <3>1. \E y \in at : \A z \in at : y <= z
      BY <1>2, <1>6, RangeEnds
    <3> QED
      BY <1>1, <1>6, <3>1 DEF Min
  <2>2. found \in 1..n /\ found # 0 /\ samples[found].time = t
    BY <1>2, <2>1 DEF at
  <2>3. added = AddSubsample(samples, found, alarm)
    BY <1>4, <2>2
  <2>4. /\ added \in Seq(SampleT) /\ Len(added) = n
        /\ \A w \in 1..n :
              /\ added[w].time = samples[w].time
              /\ added[w].subsamples = IF w = found THEN Append(samples[w].subsamples, alarm)
                                       ELSE samples[w].subsamples
    BY <1>3, <2>3, AddSubsampleIs
  <2>5. JoinsOne(samples, added, t, alarm, found)
    BY <2>2, <2>4 DEF JoinsOne
  <2> QED
    BY <1>3, <2>2, <2>4, <2>5 DEF added, alarm
<1> QED
  BY <1>5, <1>6

LEMMA AddBuzzerIs ==
    ASSUME NEW samples, NEW event
    PROVE  AddBuzzer(samples, event) =
              IF "alarm" \in event.bits THEN AddAlarm(samples, event.time, 2)
              ELSE IF "warning" \in event.bits THEN AddAlarm(samples, event.time, 1)
              ELSE samples
BY DEF AddBuzzer

(* The sort is a permutation. *)
LEMMA SortSamplesIs ==
    ASSUME NEW samples \in Seq(SampleT)
    PROVE  LET n == Len(samples)
               sorted == SortSamples(samples)
           IN  /\ sorted \in Seq(SampleT) /\ Len(sorted) = n
               /\ \E p \in [1..n -> 1..n] :
                     /\ \A k \in 1..n : sorted[k] = samples[p[k]]
                     /\ \A k, l \in 1..n : k < l => p[k] # p[l]
                     /\ \A j \in 1..n : \E k \in 1..n : p[k] = j
<1> DEFINE n == Len(samples)
           sorted == SortSamples(samples)
           keys == [w \in 1..n |-> samples[w].time]
           p == StableOrder(keys)
<1>1. n \in Nat /\ DOMAIN samples = 1..n
  OBVIOUS
<1>2. keys \in [1..n -> Int]
  <2>1. \A w \in 1..n : samples[w] \in SampleT
    OBVIOUS
  <2>2. \A w \in 1..n : samples[w].time \in Int
    BY <2>1 DEF SampleT
  <2> QED
    BY <2>2
<1>3. sorted = [k \in 1..n |-> samples[p[k]]]
  BY <1>1 DEF SortSamples, SortedBy
<1> HIDE DEF n, keys, p, sorted
<1>4. /\ p \in [1..n -> 1..n]
      /\ \A k, l \in 1..n : k < l =>
            (keys[p[k]] < keys[p[l]] \/ (keys[p[k]] = keys[p[l]] /\ p[k] < p[l]))
      /\ \A j \in 1..n : \E k \in 1..n : p[k] = j
  BY <1>1, <1>2, StableOrderIs DEF p
<1>5. \A k, l \in 1..n : k < l => p[k] # p[l]
  <2> SUFFICES ASSUME NEW k \in 1..n, NEW l \in 1..n, k < l, p[k] = p[l] PROVE FALSE
    OBVIOUS
  <2>1. keys[p[k]] < keys[p[l]] \/ p[k] < p[l]
    BY <1>4
  <2>2. p[k] \in 1..n /\ keys[p[k]] \in Int
    BY <1>2, <1>4
  <2> QED
    BY <2>1, <2>2
<1>6. \A k \in 1..n : samples[p[k]] \in SampleT /\ sorted[k] = samples[p[k]]
  <2>1. \A j \in 1..n : samples[j] \in SampleT
    BY DEF n
  <2> QED
    BY <1>3, <1>4, <2>1
<1>7. sorted \in Seq(SampleT) /\ Len(sorted) = n
  BY <1>1, <1>3, <1>6
<1> QED
  BY <1>4, <1>5, <1>6, <1>7 DEF n, sorted

DataIInv ==
    /\ invalid \in UseInvalidElements
    /\ dive.duration \in Nat /\ dive.maxdepth \in Nat
    /\ dive.gasmixes \in Seq(Mix)
    /\ dive.samples \in Seq(SampleT)

(* What a record may have as a report, an alarm or a mix. *)
LEMMA RecordParts ==
    ASSUME IInv
    PROVE  /\ record.reports \in Seq(Report)
           /\ \A j \in 1..Len(record.alarms) : record.alarms[j].time \in Nat
           /\ Value(record.gascount, 0) \in Nat
           /\ \A j \in 1..Value(record.gascount, 0) : MixAt(j) \in Mix
<1>1. record \in Record /\ Len(record.gases) = record.gascount.value
  BY RecordsAssumption DEF IInv
<1>2. /\ record.reports \in Seq(Report)
      /\ record.alarms \in Seq([time : Nat, bits : SUBSET Buzzer])
      /\ record.gascount \in Answer(Nat) /\ record.gases \in Seq(Answer(Mix))
  BY <1>1, Zenon DEF Record
<1>3. \A j \in 1..Len(record.alarms) : record.alarms[j].time \in Nat
  <2> DEFINE alarms == record.alarms
             AlarmT == [time : Nat, bits : SUBSET Buzzer]
  <2>1. \A x \in AlarmT : x.time \in Nat
    OBVIOUS
  <2>2. alarms \in Seq(AlarmT)
    BY <1>2
  <2> HIDE DEF alarms, AlarmT
  <2>3. \A j \in 1..Len(alarms) : alarms[j].time \in Nat
    BY <2>1, <2>2
  <2> QED
    BY <2>3 DEF alarms
<1>4. Value(record.gascount, 0) \in Nat /\ Value(record.gascount, 0) <= Len(record.gases)
  BY <1>1, <1>2 DEF Answer, Value
<1>5. ASSUME NEW j \in 1..Value(record.gascount, 0) PROVE MixAt(j) \in Mix
  <2>1. record.gases[j] \in Answer(Mix)
    <3>1. Len(record.gases) \in Nat /\ j \in 1..Len(record.gases)
      BY <1>2, <1>4
    <3> HIDE DEF Answer, Mix
    <3> QED
      BY <1>2, <3>1
  <2> QED
    BY <2>1 DEF Answer, MixAt, Value, NoMix, Mix
<1> QED
  BY <1>2, <1>3, <1>4, <1>5

LEMMA GivenKept ==
    ASSUME [Next]_vars
    PROVE  record' = record /\ invalid' = invalid
BY DEF Next, Fields, Alloc, MakeParser, GetDatetime, GetDivetime, GetMaxdepth,
       GetMinTemperature, GetAvgdepth, CountTanks, GetTank, NoTankLeft, CountGases, GetGasmix,
       NoGasLeft, SampleCb, SamplesParsed, ImportAlarm, AlarmsImported, Destroy, Write,
       Get, Advance, given, vars

LEMMA DataNext ==
    ASSUME IInv, DataIInv, [Next]_vars
    PROVE  DataIInv'
<1>1. dive'.duration \in Nat /\ dive'.maxdepth \in Nat /\ invalid' \in UseInvalidElements
  BY NumbersTyped, GivenKept DEF DataIInv
<1>2. dive'.gasmixes \in Seq(Mix)
  <2>1. CASE Alloc
    BY <2>1 DEF Alloc, NoDive
  <2>2. CASE GetGasmix
    <3> DEFINE mix == Value(record.gases[i], NoMix)
    <3>1. i \in 1..Value(record.gascount, 0)
      BY <2>2, RecordParts DEF GetGasmix, IInv
    <3>2. \/ dive' = dive
          \/ dive' = [dive EXCEPT !.gasmixes = Append(dive.gasmixes, mix)]
      BY <2>2 DEF GetGasmix, Advance, ReturnError
    <3>3. CASE dive' = [dive EXCEPT !.gasmixes = Append(dive.gasmixes, mix)]
      <4>1. mix \in Mix /\ dive.gasmixes \in Seq(Mix)
        BY <3>1, RecordParts DEF MixAt, DataIInv
      <4> HIDE DEF mix, Mix
      <4>2. dive'.gasmixes = Append(dive.gasmixes, mix)
        BY <3>3 DEF IInv
      <4> QED
        BY <4>1, <4>2
    <3> QED
      BY <3>2, <3>3 DEF DataIInv
  <2> QED
    BY <2>1, <2>2, MixesKept DEF DataIInv
<1>3. dive'.samples \in Seq(SampleT)
  <2>1. CASE Alloc
    BY <2>1 DEF Alloc, NoDive
  <2>2. CASE SampleCb
    <3>1. i \in 1..Len(record.reports)
      BY <2>2, RecordParts DEF SampleCb, IInv
    <3>2. dive' = [dive EXCEPT !.samples = AddReport(dive.samples, record.reports[i])]
      BY <2>2 DEF SampleCb, Advance
    <3>3. record.reports[i] \in Report
      <4> HIDE DEF Report
      <4> QED
        BY <3>1, RecordParts
    <3>4. AddReport(dive.samples, record.reports[i]) \in Seq(SampleT)
      <4> HIDE DEF Report, SampleT
      <4> QED
        BY <3>3, AddReportIs DEF DataIInv
    <3> QED
      BY <3>2, <3>4, SamplesSet
  <2>3. CASE ImportAlarm
    <3>1. i \in 1..Len(record.alarms)
      <4>1. record \in Record
        BY RecordTyped DEF IInv
      <4>2. record.alarms \in Seq([time : Nat, bits : SUBSET Buzzer])
        BY <4>1, Zenon DEF Record
      <4> QED
        BY <2>3, <4>2 DEF ImportAlarm, IInv
    <3>2. dive' = [dive EXCEPT !.samples = AddBuzzer(dive.samples, record.alarms[i])]
      BY <2>3 DEF ImportAlarm, Advance
    <3>3. record.alarms[i].time \in Nat
      BY <3>1, RecordParts
    <3>4. AddBuzzer(dive.samples, record.alarms[i]) \in Seq(SampleT)
      <4>1. /\ AddAlarm(dive.samples, record.alarms[i].time, 2) \in Seq(SampleT)
            /\ AddAlarm(dive.samples, record.alarms[i].time, 1) \in Seq(SampleT)
        BY <3>3, AddAlarmIs DEF DataIInv
      <4> QED
        BY <4>1, AddBuzzerIs DEF DataIInv
    <3> QED
      BY <3>2, <3>4, SamplesSet
  <2>4. CASE Write
    <3>1. dive' = [dive EXCEPT !.samples = SortSamples(dive.samples)]
      BY <2>4 DEF Write
    <3>2. SortSamples(dive.samples) \in Seq(SampleT)
      BY SortSamplesIs DEF DataIInv
    <3> QED
      BY <3>1, <3>2, SamplesSet
  <2> QED
    BY <2>1, <2>2, <2>3, <2>4, SamplesKept DEF DataIInv
<1> QED
  BY <1>1, <1>2, <1>3 DEF DataIInv

(* Every variable of the dive has its type, whatever the record: what the  *)
(* parser reports is only ever added to the dive (dc2uddf.c:222-520), and  *)
(* what the sort of the samples leaves is a sequence of samples still.     *)
THEOREM TypeCorrect == Spec => []TypeOK
<1>1. Init => IInv /\ ParserIInv /\ DataIInv
  BY InitIInv DEF Init, ParserIInv, Labels, Calls, Done, DataIInv, NoDive
<1>2. IInv /\ ParserIInv /\ DataIInv /\ [Next]_vars => IInv' /\ ParserIInv' /\ DataIInv'
  BY Inductive, ParserStep, DataNext
<1>3. ASSUME IInv, ParserIInv, DataIInv PROVE TypeOK
  <2>1. /\ record \in Record /\ invalid \in BOOLEAN /\ pc \in Labels
        /\ i \in Nat \ {0} /\ status \in {"pending", "success", "error"}
    BY <1>3, RecordTyped, InvalidAssumption DEF IInv, DataIInv
  <2>2. parser \in {"none", "open", "destroyed"}
    BY <1>3 DEF ParserIInv
  <2>3. DOMAIN dive = DOMAIN NoDive
    BY <1>3 DEF IInv, NoDive
  <2>4. dive.date \in Dates \cup {"absent", "placeholder", NoDate}
    BY <1>3 DEF IInv, DateIInv, Labels, AfterDate, Calls, Done
  <2>5. Len(dive.minTemperature) \in 0..1 /\ Len(dive.avgdepth) \in 0..1
    <3>1. \A answer : Optional(answer) = <<>> \/ Optional(answer) = <<answer.value>>
      BY DEF Optional
    <3>2. /\ dive.minTemperature \in {<<>>, Optional(record.mintemp)}
          /\ dive.avgdepth \in {<<>>, Optional(record.avgdepth)}
      BY <1>3 DEF IInv, Taken, Average
    <3>3. /\ Optional(record.mintemp) = <<>>
             \/ Optional(record.mintemp) = <<record.mintemp.value>>
          /\ Optional(record.avgdepth) = <<>>
             \/ Optional(record.avgdepth) = <<record.avgdepth.value>>
      BY <3>1
    <3> QED
      BY <3>2, <3>3
  <2>6. dive.tankPressures \in {<<>>} \cup (Nat \X Nat)
    <3>1. dive.tankPressures \in {<<>>, FirstPressures}
      BY <1>3 DEF IInv, Taken
    <3>2. CASE ReportedTanks = {}
      BY <3>1, <3>2 DEF FirstPressures
    <3>3. CASE ReportedTanks # {}
      <4> DEFINE first == Min(ReportedTanks)
                 tank == record.tanks[first].value
      <4>1. record.tankcount \in Answer(Nat) /\ record.tanks \in Seq(Answer(Tank))
            /\ Len(record.tanks) = record.tankcount.value
        <5>1. record \in Record /\ Len(record.tanks) = record.tankcount.value
          BY <1>3, RecordsAssumption DEF IInv
        <5> QED
          BY <5>1, Zenon DEF Record
      <4>2. Value(record.tankcount, 0) \in Nat
            /\ Value(record.tankcount, 0) <= Len(record.tanks)
        BY <4>1 DEF Answer, Value
      <4>3. ReportedTanks \in SUBSET (1..Value(record.tankcount, 0))
        BY DEF ReportedTanks
      <4>4. PICK n \in ReportedTanks : \A j \in ReportedTanks : n <= j
        BY <3>3, <4>2, <4>3, RangeEnds
      <4>5. ReportedTanks \in SUBSET Nat /\ \A j \in ReportedTanks : j >= n
        BY <4>2, <4>3, <4>4
      <4>6. first = n
        BY <4>5, FirstOf
      <4>7. first \in 1..Len(record.tanks)
        BY <4>2, <4>3, <4>4, <4>6
      <4> HIDE DEF first
      <4>8. record.tanks[first] \in Answer(Tank)
        <5> HIDE DEF Answer, Tank
        <5> QED
          BY <4>1, <4>7
      <4>9. tank.begin \in Nat /\ tank.end \in Nat
        BY <4>8 DEF Answer, Tank
      <4>10. FirstPressures = <<tank.begin, tank.end>>
        BY <3>3 DEF FirstPressures, first
      <4> QED
        BY <3>1, <4>9, <4>10
    <3> QED
      BY <3>2, <3>3
  <2> QED
    BY <1>3, <2>1, <2>2, <2>3, <2>4, <2>5, <2>6 DEF TypeOK, DataIInv, SampleT
<1> QED
  BY <1>1, <1>2, <1>3, PTL DEF Spec

-----------------------------------------------------------------------------
(* The gas mixes. *)

AfterGases == {"samples", "alarms", "destroy"}
BeforeGases == Labels \ ({"gases"} \cup AfterGases \cup Done)

MixesUpTo(n) == ReportedMixes \cap 1..n

(* The mixes of the dive are the first of those reported. *)
MixIInv ==
    /\ \A k \in 1..Len(dive.gasmixes) :
          \E j \in ReportedMixes : /\ Cardinality(MixesUpTo(j)) = k
                                   /\ dive.gasmixes[k] = MixAt(j)
    /\ pc \in BeforeGases => dive.gasmixes = <<>>
    /\ pc = "gases" => Len(dive.gasmixes) = Cardinality(MixesUpTo(i - 1))
    /\ pc \in AfterGases \/ status = "success" =>
          Len(dive.gasmixes) = Cardinality(ReportedMixes)

(* From where the parsing comes to the mixes, and leaves them. *)
LEMMA MixMoves ==
    ASSUME IInv, [Next]_vars, ~GetGasmix
    PROVE  /\ pc' \in BeforeGases => pc \in BeforeGases
           /\ pc' = "gases" => \/ pc = "gases" /\ i' = i
                               \/ pc = "gascount" /\ i' = 1
           /\ pc' \in AfterGases => \/ pc \in AfterGases
                                    \/ pc = "gases" /\ i > Value(record.gascount, 0)
           /\ status' = "success" => pc \in AfterGases \/ status = "success"
<1> USE DEF Labels, Calls, Done, BeforeGases, AfterGases
<1>0. status = "pending" <=> pc \notin Done
  BY DEF IInv
<1>1. CASE ReturnError
  BY <1>0, <1>1 DEF ReturnError
<1>2. CASE Alloc \/ MakeParser
  BY <1>0, <1>2 DEF Alloc, MakeParser
<1>3. CASE GetDatetime \/ GetDivetime \/ GetMaxdepth
  BY <1>0, <1>1, <1>3 DEF GetDatetime, GetDivetime, GetMaxdepth, Get
<1>4. CASE GetMinTemperature \/ GetAvgdepth
  BY <1>0, <1>1, <1>4 DEF GetMinTemperature, GetAvgdepth, Get
<1>5. CASE CountTanks \/ CountGases
  BY <1>0, <1>1, <1>5 DEF CountTanks, CountGases, Get
<1>6. CASE GetTank
  BY <1>0, <1>1, <1>6 DEF GetTank, Get, Advance
<1>7. CASE NoTankLeft \/ NoGasLeft
  BY <1>0, <1>7 DEF NoTankLeft, NoGasLeft
<1>8. CASE SampleCb \/ ImportAlarm
  BY <1>0, <1>8 DEF SampleCb, ImportAlarm, Advance
<1>9. CASE SamplesParsed \/ AlarmsImported \/ Destroy
  BY <1>0, <1>1, <1>9 DEF SamplesParsed, AlarmsImported, Destroy
<1>10. CASE Write
  BY <1>0, <1>10 DEF Write
<1>11. CASE UNCHANGED vars
  BY <1>11 DEF vars
<1> QED
  BY <1>2, <1>3, <1>4, <1>5, <1>6, <1>7, <1>8, <1>9, <1>10, <1>11 DEF Next, Fields

(* One more mix is counted iff it is reported. *)
LEMMA MixesCounted ==
    ASSUME Value(record.gascount, 0) \in Nat, NEW n \in 1..Value(record.gascount, 0)
    PROVE  /\ Cardinality(MixesUpTo(n - 1)) \in Nat
           /\ n \in ReportedMixes => Cardinality(MixesUpTo(n)) = Cardinality(MixesUpTo(n - 1)) + 1
           /\ n \notin ReportedMixes => MixesUpTo(n) = MixesUpTo(n - 1)
<1>1. IsFiniteSet(MixesUpTo(n - 1)) /\ n \notin MixesUpTo(n - 1)
  <2>1. IsFiniteSet(1..(n - 1))
    BY FS_Interval
  <2>2. MixesUpTo(n - 1) \subseteq 1..(n - 1)
    BY DEF MixesUpTo
  <2> QED
    BY <2>1, <2>2, FS_Subset
<1>2. n \in ReportedMixes => MixesUpTo(n) = MixesUpTo(n - 1) \cup {n}
  BY DEF MixesUpTo
<1>3. n \notin ReportedMixes => MixesUpTo(n) = MixesUpTo(n - 1)
  BY DEF MixesUpTo
<1> QED
  BY <1>1, <1>2, <1>3, FS_AddElement, FS_CardinalityType

LEMMA MixStep ==
    ASSUME IInv, DataIInv, MixIInv, [Next]_vars
    PROVE  MixIInv'
<1> DEFINE mixes == dive.gasmixes
<1>1. UNCHANGED ReportedMixes /\ (\A j : MixAt(j)' = MixAt(j))
      /\ (\A n : MixesUpTo(n)' = MixesUpTo(n))
  <2>1. record' = record
    BY GivenKept
  <2>2. \A j : MixAt(j)' = MixAt(j)
    BY <2>1 DEF MixAt
  <2>3. UNCHANGED ReportedMixes
    BY <2>1, <2>2 DEF ReportedMixes
  <2> QED
    BY <2>2, <2>3 DEF MixesUpTo
<1>2. Value(record.gascount, 0) \in Nat /\ i \in Nat \ {0} /\ mixes \in Seq(Mix)
  BY RecordParts DEF IInv, DataIInv
<1>3. MixesUpTo(0) = {} /\ Cardinality({}) = 0
  BY FS_EmptySet DEF MixesUpTo
<1>4. CASE Alloc
  <2>1. dive'.gasmixes = <<>> /\ pc' = "parser" /\ status' = status /\ status = "pending"
    BY <1>4 DEF Alloc, NoDive, IInv, Done
  <2> QED
    BY <2>1 DEF MixIInv, AfterGases
<1>5. CASE GetGasmix /\ ReturnError
  <2>1. dive' = dive /\ pc' = "returned" /\ status' = "error"
    BY <1>5 DEF ReturnError
  <2> QED
    BY <1>1, <2>1 DEF MixIInv, AfterGases, BeforeGases, Done
<1>6. CASE GetGasmix /\ ~ReturnError
  <2> DEFINE mix == MixAt(i)
  <2>1. /\ pc = "gases" /\ pc' = pc /\ i <= Value(record.gascount, 0) /\ i' = i + 1
        /\ status' = status
        /\ dive' = IF IsValid(mix) THEN [dive EXCEPT !.gasmixes = Append(mixes, mix)] ELSE dive
    BY <1>6 DEF GetGasmix, Advance, MixAt
  <2>2. i \in 1..Value(record.gascount, 0) /\ i' - 1 = i
    BY <1>2, <2>1
  <2>3. IsValid(mix) <=> i \in ReportedMixes
    <3>1. mix \in Mix
      BY <2>2, RecordParts
    <3> HIDE DEF mix
    <3>2. IsValid(mix) <=> mix.n2 \notin 99901..100099
      BY <3>1 DEF Mix, IsValid
    <3> QED
      BY <2>2, <3>2 DEF mix, ReportedMixes
  <2>4. /\ dive'.gasmixes = IF IsValid(mix) THEN Append(mixes, mix) ELSE mixes
    BY <2>1 DEF IInv
  <2>5. Len(mixes) = Cardinality(MixesUpTo(i - 1)) /\ status' # "success"
        /\ pc' \notin BeforeGases /\ pc' \notin AfterGases
    BY <2>1 DEF MixIInv, BeforeGases, AfterGases, IInv, Done
  <2>6. Len(dive'.gasmixes) = Cardinality(MixesUpTo(i))
    BY <1>2, <2>2, <2>3, <2>4, <2>5, MixesCounted
  <2>7. ASSUME NEW k \in 1..Len(dive'.gasmixes)
        PROVE  \E j \in ReportedMixes : /\ Cardinality(MixesUpTo(j)) = k
                                        /\ dive'.gasmixes[k] = MixAt(j)
    <3>1. CASE k \in 1..Len(mixes)
      <4>1. dive'.gasmixes[k] = mixes[k]
        BY <1>2, <2>4, <3>1
      <4> QED
        BY <3>1, <4>1 DEF MixIInv
    <3>2. CASE k \notin 1..Len(mixes)
      <4>1. IsValid(mix) /\ k = Len(dive'.gasmixes) /\ dive'.gasmixes[k] = mix
        BY <1>2, <2>4, <2>7, <3>2
      <4> QED
        BY <2>3, <2>6, <4>1
    <3> QED
      BY <3>1, <3>2
  <2> HIDE DEF mixes, mix
  <2>8. \A k \in 1..Len(dive'.gasmixes) :
          \E j \in ReportedMixes' : /\ Cardinality(MixesUpTo(j)') = k
                                    /\ dive'.gasmixes[k] = MixAt(j)'
    BY <1>1, <2>7
  <2>9. Len(dive'.gasmixes) = Cardinality(MixesUpTo(i - 1))'
    BY <1>1, <2>2, <2>6 DEF MixesUpTo
  <2> QED
    BY <2>1, <2>5, <2>8, <2>9 DEF MixIInv
<1>7. CASE ~Alloc /\ ~GetGasmix
  <2>1. dive'.gasmixes = mixes
    BY <1>7, MixesKept
  <2>2. pc' = "gases" => Len(mixes) = Cardinality(MixesUpTo(i' - 1))
    <3>1. "gascount" \in BeforeGases /\ Len(<<>>) = 0 /\ 1 - 1 = 0
      BY DEF BeforeGases, Labels, Calls, AfterGases, Done
    <3> QED
      BY <1>3, <1>7, <3>1, MixMoves DEF MixIInv
  <2>3. i > Value(record.gascount, 0) => MixesUpTo(i - 1) = ReportedMixes
    BY <1>2 DEF MixesUpTo, ReportedMixes
  <2>4. pc' \in AfterGases \/ status' = "success" => Len(mixes) = Cardinality(ReportedMixes)
    BY <1>7, <2>3, MixMoves DEF MixIInv
  <2>5. pc' \in BeforeGases => mixes = <<>>
    BY <1>7, MixMoves DEF MixIInv
  <2>6. \A k \in 1..Len(mixes) :
          \E j \in ReportedMixes : Cardinality(MixesUpTo(j)) = k /\ mixes[k] = MixAt(j)
    BY DEF MixIInv
  <2> HIDE DEF mixes
  <2> QED
    BY <1>1, <2>1, <2>2, <2>4, <2>5, <2>6 DEF MixIInv, MixesUpTo
<1> QED
  BY <1>4, <1>5, <1>6, <1>7

(* Whatever mixes the computer reports, with how many unsupported answers  *)
(* and extra tanks of nitrogen among them, the dive has those that are     *)
(* left, in order, and all of them unless the parsing failed on the way    *)
(* (dc2uddf.c:444-487).                                                    *)
THEOREM Mixes == Spec => []FaithfulMixes
<1>1. Init => IInv /\ DataIInv /\ MixIInv
  <2>1. ASSUME Init PROVE MixIInv
    <3>1. dive.gasmixes = <<>> /\ pc = "alloc" /\ status = "pending"
      BY <2>1 DEF Init, NoDive
    <3> QED
      BY <3>1 DEF MixIInv, AfterGases
  <2> QED
    BY <2>1, InitIInv DEF Init, DataIInv, NoDive
<1>2. IInv /\ DataIInv /\ MixIInv /\ [Next]_vars => IInv' /\ DataIInv' /\ MixIInv'
  BY Inductive, DataNext, MixStep
<1>3. ASSUME DataIInv, MixIInv PROVE FaithfulMixes
  <2>1. DOMAIN dive.gasmixes = 1..Len(dive.gasmixes)
    BY <1>3 DEF DataIInv
  <2>2. /\ \A k \in DOMAIN dive.gasmixes :
              \E j \in ReportedMixes : /\ Cardinality(ReportedMixes \cap 1..j) = k
                                       /\ dive.gasmixes[k] = MixAt(j)
        /\ status = "success" => Len(dive.gasmixes) = Cardinality(ReportedMixes)
    BY <1>3, <2>1, Zenon DEF MixIInv, MixesUpTo
  <2> QED
    BY <2>2, Zenon DEF FaithfulMixes
<1> QED
  BY <1>1, <1>2, <1>3, PTL DEF Spec

-----------------------------------------------------------------------------
(* The elements of a subsample: one of the schema at most, and one that is *)
(* not if the user asked for those.                                        *)

AlarmKinds == {"ascent", "deco", "error", "rbt", "surface", "link", "none"}

ElementT ==
    [name : {"divetime", "depth", "tankpressure", "temperature", "remainingbottomtime",
             "heartrate", "heading", "vendor"}, value : Int]
        \cup [name : {"alarm"}, kind : AlarmKinds, level : 0..2]
        \cup [name : {"setmarker"}, text : {"bookmark"}]
        \cup [name : {"event"}, event : DifEvents]

IsExtra(e) == e.name \in {"event", "vendor"}

IsBookmark(s) == s.type = "event" /\ s.event = "bookmark"

NameOf(s) ==
    IF IsBookmark(s) THEN "setmarker"
    ELSE IF s.type \in {"event", "alarm"} THEN "alarm"
    ELSE ElementName[s.type]

(* The element of the schema. *)
ShownAs(s) ==
    CASE s.type = "temperature" -> Element(NameOf(s), CelsiusToKelvin(s.value))
      [] s.type = "pressure" -> Element(NameOf(s), BarToPascal(s.value))
      [] s.type \in {"depth", "rbt", "heartbeat", "bearing"} -> Element(NameOf(s), s.value)
      [] s.type = "alarm" -> AlarmElement(s.kind, s.level)
      [] OTHER -> IF IsBookmark(s) THEN SetMarker ELSE AlarmElement(EventToAlarm(s.event), NoLevel)

Shows(s, marked) ==
    /\ s.type # "vendor"
    /\ s.type = "bearing" => s.value <= 359
    /\ s.type = "event" => IF IsBookmark(s) THEN ~marked ELSE EventToAlarm(s.event) # NoAlarm

Kinds == {"depth", "pressure", "temperature", "rbt", "heartbeat", "bearing", "vendor", "event",
          "alarm"}

LEMMA KindsOf ==
    ASSUME NEW s \in DiveSubsample
    PROVE  /\ s.type \in Kinds
           /\ s.type \notin {"event", "alarm"} => s.value \in Int
           /\ s.type = "event" => s.event \in DifEvents
           /\ s.type = "alarm" => s.kind = "error" /\ s.level \in {1, 2}
BY DEF DiveSubsample, SampleTypes, Kinds

LEMMA AlarmNames ==
    ASSUME NEW event
    PROVE  EventToAlarm(event) \in AlarmKinds
BY DEF EventToAlarm, NoAlarm, AlarmKinds

LEMMA ShownIs ==
    ASSUME NEW s \in DiveSubsample, NEW marked, Shows(s, marked)
    PROVE  /\ ShownAs(s) \in ElementT /\ ~IsExtra(ShownAs(s))
           /\ ShownAs(s).name = NameOf(s) /\ s.type # "vendor"
<1>1. s.type \in Kinds \ {"vendor"}
  BY KindsOf DEF Shows
<1>2. CASE s.type \in {"depth", "pressure", "temperature", "rbt", "heartbeat", "bearing"}
  <2>1. \E v \in Int : ShownAs(s) = Element(NameOf(s), v)
    BY <1>2, KindsOf DEF ShownAs, CelsiusToKelvin, BarToPascal
  <2>2. NameOf(s) \in {"depth", "tankpressure", "temperature", "remainingbottomtime",
                       "heartrate", "heading"}
    BY <1>2 DEF NameOf, IsBookmark, ElementName
  <2> QED
    BY <1>2, <2>1, <2>2 DEF Element, ElementT, IsExtra
<1>3. CASE s.type = "alarm"
  <2>1. ShownAs(s) = [name |-> "alarm", kind |-> s.kind, level |-> s.level]
    BY <1>3 DEF ShownAs, AlarmElement
  <2>2. NameOf(s) = "alarm" /\ s.kind \in AlarmKinds /\ s.level \in 0..2
    BY <1>3, KindsOf DEF NameOf, IsBookmark, AlarmKinds
  <2> QED
    BY <1>3, <2>1, <2>2 DEF ElementT, IsExtra
<1>4. CASE s.type = "event" /\ IsBookmark(s)
  <2>1. ShownAs(s) = [name |-> "setmarker", text |-> "bookmark"] /\ NameOf(s) = "setmarker"
    BY <1>4 DEF ShownAs, SetMarker, NameOf
  <2> QED
    BY <1>4, <2>1 DEF ElementT, IsExtra
<1>5. CASE s.type = "event" /\ ~IsBookmark(s)
  <2>1. /\ ShownAs(s) = [name |-> "alarm", kind |-> EventToAlarm(s.event), level |-> 0]
        /\ NameOf(s) = "alarm"
    BY <1>5 DEF ShownAs, AlarmElement, NoLevel, NameOf
  <2> QED
    BY <1>5, <2>1, AlarmNames DEF ElementT, IsExtra
<1> QED
  BY <1>1, <1>2, <1>3, <1>4, <1>5 DEF Kinds

(* What is added to a waypoint for a subsample. *)
AddedFor(s, marked, inv, e) ==
    /\ e \in Seq(ElementT)
    /\ \A k \in 1..Len(e) : \/ inv /\ IsExtra(e[k])
                            \/ Shows(s, marked) /\ e[k] = ShownAs(s)
    /\ \A k, l \in 1..Len(e) : k # l => IsExtra(e[k]) \/ IsExtra(e[l])
    /\ Shows(s, marked) => \E k \in 1..Len(e) : e[k] = ShownAs(s)

LEMMA ElementsAre ==
    ASSUME NEW s \in DiveSubsample, NEW marked \in BOOLEAN, NEW inv \in BOOLEAN
    PROVE  AddedFor(s, marked, inv, Elements(s, marked, inv))
<1> DEFINE e == Elements(s, marked, inv)
           x == [name |-> "event", event |-> s.event]
<1> SUFFICES AddedFor(s, marked, inv, e)
  OBVIOUS
<1>1. s.type \in Kinds
  BY KindsOf
<1>2. ASSUME e = <<>>, ~Shows(s, marked) PROVE AddedFor(s, marked, inv, e)
  <2> HIDE DEF e
  <2> QED
    BY <1>2 DEF AddedFor
<1>3. ASSUME e = <<ShownAs(s)>>, Shows(s, marked) PROVE AddedFor(s, marked, inv, e)
  <2>1. ShownAs(s) \in ElementT
    BY <1>3, ShownIs
  <2> HIDE DEF e, ElementT
  <2>2. e \in Seq(ElementT) /\ Len(e) = 1 /\ e[1] = ShownAs(s)
    BY <1>3, <2>1
  <2> QED
    BY <1>3, <2>2 DEF AddedFor
<1>4. ASSUME inv, NEW y \in ElementT, IsExtra(y), e = <<y>>, ~Shows(s, marked)
      PROVE  AddedFor(s, marked, inv, e)
  <2> HIDE DEF e, ElementT
  <2>1. e \in Seq(ElementT) /\ Len(e) = 1 /\ e[1] = y
    BY <1>4
  <2> QED
    BY <1>4, <2>1 DEF AddedFor
<1>5. ASSUME inv, NEW y \in ElementT, IsExtra(y), e = <<ShownAs(s), y>>, Shows(s, marked)
      PROVE  AddedFor(s, marked, inv, e)
  <2>1. ShownAs(s) \in ElementT
    BY <1>5, ShownIs
  <2> HIDE DEF e, ElementT
  <2>2. e \in Seq(ElementT) /\ Len(e) = 2 /\ e[1] = ShownAs(s) /\ e[2] = y
    BY <1>5, <2>1
  <2> QED
    BY <1>5, <2>2 DEF AddedFor
<1>6. CASE s.type \in {"depth", "rbt", "heartbeat", "pressure", "temperature", "alarm"}
  <2>1. Shows(s, marked)
    BY <1>6 DEF Shows
  <2>2. e = <<ShownAs(s)>>
    BY <1>6 DEF Elements, ShownAs, NameOf, IsBookmark
  <2> QED
    BY <1>3, <2>1, <2>2
<1>7. CASE s.type = "bearing"
  <2>1. /\ Shows(s, marked) <=> s.value <= 359
        /\ ShownAs(s) = Element("heading", s.value)
        /\ e = IF s.value <= 359 THEN <<Element("heading", s.value)>> ELSE <<>>
    BY <1>7 DEF Shows, Elements, ShownAs, ElementName, NameOf, IsBookmark
  <2> QED
    BY <1>2, <1>3, <2>1
<1>8. CASE s.type = "vendor"
  <2>1. ~Shows(s, marked)
    BY <1>8 DEF Shows
  <2> DEFINE y == Element("vendor", s.value)
  <2>2. e = IF inv THEN <<y>> ELSE <<>>
    BY <1>8 DEF Elements, ElementName
  <2>3. y \in ElementT /\ IsExtra(y)
    BY <1>8, KindsOf DEF Element, ElementT, IsExtra
  <2> HIDE DEF e, y
  <2>4. CASE inv
    BY <1>4, <2>1, <2>2, <2>3, <2>4, Zenon
  <2> QED
    BY <1>2, <2>1, <2>2, <2>4
<1>9. CASE s.type = "event"
  <2> DEFINE a == EventElement(s.event, marked)
             b == IF inv THEN <<x>> ELSE <<>>
  <2>1. e = a \o b
    BY <1>9 DEF Elements
  <2>2. x \in ElementT /\ IsExtra(x)
    BY <1>9, KindsOf DEF ElementT, IsExtra
  <2>3. a = IF Shows(s, marked) THEN <<ShownAs(s)>> ELSE <<>>
    <3>1. IsBookmark(s) <=> s.event = "bookmark"
      BY <1>9 DEF IsBookmark
    <3>2. CASE s.event = "bookmark"
      BY <1>9, <3>1, <3>2 DEF EventElement, Shows, ShownAs
    <3>3. CASE s.event # "bookmark"
      BY <1>9, <3>1, <3>3 DEF EventElement, Shows, ShownAs
    <3> QED
      BY <3>2, <3>3
  <2> HIDE DEF e, x, a
  <2>4. e = IF inv THEN IF Shows(s, marked) THEN <<ShownAs(s), x>> ELSE <<x>>
            ELSE IF Shows(s, marked) THEN <<ShownAs(s)>> ELSE <<>>
    BY <2>1, <2>3
  <2> HIDE DEF b
  <2>5. CASE inv
    BY <1>4, <1>5, <2>2, <2>4, <2>5, Zenon
  <2> QED
    BY <1>2, <1>3, <2>4, <2>5
<1> QED
  BY <1>1, <1>6, <1>7, <1>8, <1>9 DEF Kinds

-----------------------------------------------------------------------------
(* Where the elements of a waypoint come from. *)

IsShown(subsamples, n) == Shows(subsamples[n], \E j \in 1..(n - 1) : IsBookmark(subsamples[j]))

(* o numbers the subsamples, of the first m of the sample, that the        *)
(* elements of the list come from; 0 is the time.                          *)
WrittenFrom(list, sample, inv, m, o) ==
    /\ list \in Seq(ElementT)
    /\ o \in [1..Len(list) -> 0..m]
    /\ \A k \in 1..Len(list) :
          \/ o[k] = 0 /\ list[k] = Element("divetime", sample.time)
          \/ o[k] # 0 /\ inv /\ IsExtra(list[k])
          \/ /\ o[k] # 0 /\ IsShown(sample.subsamples, o[k])
             /\ list[k] = ShownAs(sample.subsamples[o[k]])
    /\ \A k, l \in 1..Len(list) : k # l /\ o[k] = o[l] => IsExtra(list[k]) \/ IsExtra(list[l])
    /\ \A n \in 1..m : IsShown(sample.subsamples, n) =>
          \E k \in 1..Len(list) : o[k] = n /\ list[k] = ShownAs(sample.subsamples[n])

Marked(list) == \E k \in DOMAIN list : list[k].name = "setmarker"

LEMMA SubsampleOf ==
    ASSUME NEW sample \in SampleT
    PROVE  /\ sample.subsamples \in Seq(DiveSubsample) /\ sample.time \in Nat
           /\ Len(sample.subsamples) \in Nat
           /\ \A n \in 1..Len(sample.subsamples) : sample.subsamples[n] \in DiveSubsample
<1>1. sample.subsamples \in Seq(DiveSubsample) /\ sample.time \in Nat
  BY DEF SampleT
<1> HIDE DEF DiveSubsample
<1> QED
  BY <1>1

LEMMA MarkerNamed ==
    ASSUME NEW s \in DiveSubsample, NEW marked, Shows(s, marked)
    PROVE  ShownAs(s).name = "setmarker" <=> IsBookmark(s)
<1>1. ShownAs(s).name = NameOf(s) /\ s.type \in Kinds \ {"vendor"}
  BY ShownIs, KindsOf
<1>2. CASE IsBookmark(s)
  BY <1>1, <1>2 DEF NameOf
<1>3. CASE ~IsBookmark(s)
  BY <1>1, <1>3 DEF NameOf, ElementName, Kinds
<1> QED
  BY <1>2, <1>3

(* There is a marker iff there was a bookmark: the first of them is shown. *)
LEMMA MarkedIff ==
    ASSUME NEW sample \in SampleT, NEW inv, NEW m \in 0..Len(sample.subsamples), NEW list, NEW o,
           WrittenFrom(list, sample, inv, m, o)
    PROVE  /\ Marked(list) <=> \E n \in 1..m : IsBookmark(sample.subsamples[n])
           /\ (\E n \in 1..m : IsBookmark(sample.subsamples[n])) =>
                 \E k \in 1..Len(list) : list[k] = SetMarker
<1> DEFINE subs == sample.subsamples
           marks == {n \in 1..m : IsBookmark(subs[n])}
<1>0. m \in Nat /\ \A n \in 1..m : n \in 1..Len(subs) /\ subs[n] \in DiveSubsample
  BY SubsampleOf
<1>1. DOMAIN list = 1..Len(list)
  BY DEF WrittenFrom
<1>2. ASSUME NEW k \in 1..Len(list), list[k].name = "setmarker"
      PROVE  \E n \in 1..m : IsBookmark(subs[n])
  <2>1. o[k] \in 0..m
    BY DEF WrittenFrom
  <2>2. /\ list[k] # Element("divetime", sample.time) /\ ~IsExtra(list[k])
    BY <1>2 DEF Element, IsExtra
  <2>3. o[k] # 0 /\ IsShown(subs, o[k]) /\ list[k] = ShownAs(subs[o[k]])
    BY <2>2 DEF WrittenFrom
  <2>4. o[k] \in 1..m
    BY <1>0, <2>1, <2>3
  <2>5. IsBookmark(subs[o[k]])
    BY <1>0, <1>2, <2>3, <2>4, MarkerNamed DEF IsShown
  <2> QED
    BY <2>4, <2>5
<1>3. ASSUME marks # {} PROVE \E k \in 1..Len(list) : list[k] = SetMarker
  <2>1. PICK n \in marks : \A j \in marks : n <= j
    <3>1. marks \in SUBSET (1..m)
      OBVIOUS
    <3> HIDE DEF marks
    <3> QED
      BY <1>0, <1>3, <3>1, RangeEnds
  <2>2. n \in 1..m /\ IsBookmark(subs[n])
    OBVIOUS
  <2>3. ~\E j \in 1..(n - 1) : IsBookmark(subs[j])
    BY <1>0, <2>1
  <2>4. IsShown(subs, n) /\ ShownAs(subs[n]) = SetMarker
    BY <2>2, <2>3 DEF IsShown, Shows, ShownAs, IsBookmark
  <2> QED
    BY <2>2, <2>4 DEF WrittenFrom
<1>4. SetMarker.name = "setmarker"
  BY DEF SetMarker
<1> QED
  BY <1>1, <1>2, <1>3, <1>4 DEF Marked

LEMMA OneMoreSubsample ==
    ASSUME NEW sample \in SampleT, NEW inv \in BOOLEAN, NEW m \in 1..Len(sample.subsamples),
           NEW list, NEW o, WrittenFrom(list, sample, inv, m - 1, o),
           NEW added, added = list \o Elements(sample.subsamples[m], Marked(list), inv)
    PROVE  \E o2 : WrittenFrom(added, sample, inv, m, o2)
<1> DEFINE subs == sample.subsamples
           e == Elements(subs[m], Marked(list), inv)
           o2 == [k \in 1..Len(added) |-> IF k <= Len(list) THEN o[k] ELSE m]
<1>1. subs[m] \in DiveSubsample /\ m \in Nat /\ m - 1 \in Nat /\ Marked(list) \in BOOLEAN
      /\ m - 1 \in 0..Len(subs)
  BY SubsampleOf DEF Marked
<1>2. AddedFor(subs[m], Marked(list), inv, e)
  BY <1>1, ElementsAre
<1>3. IsShown(subs, m) <=> Shows(subs[m], Marked(list))
  <2>1. Marked(list) = \E j \in 1..(m - 1) : IsBookmark(subs[j])
    <3> DEFINE p == m - 1
    <3>1. p \in 0..Len(subs) /\ WrittenFrom(list, sample, inv, p, o)
      BY <1>1
    <3> HIDE DEF p
    <3>2. Marked(list) <=> \E j \in 1..p : IsBookmark(subs[j])
      BY <3>1, MarkedIff
    <3>3. Marked(list) = \E j \in 1..p : IsBookmark(subs[j])
      BY <3>2 DEF Marked
    <3> QED
      BY <3>3 DEF p
  <2> QED
    BY <2>1 DEF IsShown
<1>4. added = list \o e
  OBVIOUS
<1> HIDE DEF e, ElementT
<1>5. list \in Seq(ElementT) /\ e \in Seq(ElementT)
  BY <1>2 DEF WrittenFrom, AddedFor
<1>6. /\ added \in Seq(ElementT) /\ Len(added) = Len(list) + Len(e)
      /\ Len(list) \in Nat /\ Len(e) \in Nat
      /\ \A k \in 1..Len(list) : added[k] = list[k] /\ k \in 1..Len(added)
      /\ \A k \in 1..Len(added) : k \notin 1..Len(list) =>
            k - Len(list) \in 1..Len(e) /\ added[k] = e[k - Len(list)]
      /\ \A k \in 1..Len(e) : k + Len(list) \in 1..Len(added) /\ added[k + Len(list)] = e[k]
                              /\ k + Len(list) \notin 1..Len(list)
  BY <1>4, <1>5
<1>7. \A k \in 1..Len(added) : IF k \in 1..Len(list) THEN o2[k] = o[k] /\ o[k] \in 0..(m - 1)
                               ELSE o2[k] = m
  <2>1. \A k \in 1..Len(list) : o[k] \in 0..(m - 1)
    BY DEF WrittenFrom
  <2>2. \A k \in 1..Len(added) : k <= Len(list) <=> k \in 1..Len(list)
    BY <1>6
  <2> QED
    BY <2>1, <2>2
<1>8. o2 \in [1..Len(added) -> 0..m]
  <2>1. \A k \in 1..Len(added) : o2[k] \in 0..m
    BY <1>1, <1>7
  <2> QED
    BY <2>1
<1> HIDE DEF o2
<1>9. ASSUME NEW k \in 1..Len(added)
      PROVE  \/ o2[k] = 0 /\ added[k] = Element("divetime", sample.time)
             \/ o2[k] # 0 /\ inv /\ IsExtra(added[k])
             \/ o2[k] # 0 /\ IsShown(subs, o2[k]) /\ added[k] = ShownAs(subs[o2[k]])
  <2>1. CASE k \in 1..Len(list)
    BY <1>6, <1>7, <2>1 DEF WrittenFrom
  <2>2. CASE k \notin 1..Len(list)
    <3>1. k - Len(list) \in 1..Len(e) /\ added[k] = e[k - Len(list)] /\ o2[k] = m /\ m # 0
      BY <1>1, <1>6, <1>7, <2>2
    <3> QED
      BY <1>2, <1>3, <3>1 DEF AddedFor
  <2> QED
    BY <2>1, <2>2
<1>10. ASSUME NEW k \in 1..Len(added), NEW l \in 1..Len(added), k # l, o2[k] = o2[l]
       PROVE  IsExtra(added[k]) \/ IsExtra(added[l])
  <2>1. CASE k \in 1..Len(list) /\ l \in 1..Len(list)
    BY <1>6, <1>7, <1>10, <2>1 DEF WrittenFrom
  <2>2. CASE k \notin 1..Len(list) /\ l \notin 1..Len(list)
    <3>1. /\ k - Len(list) \in 1..Len(e) /\ added[k] = e[k - Len(list)]
          /\ l - Len(list) \in 1..Len(e) /\ added[l] = e[l - Len(list)]
          /\ k - Len(list) # l - Len(list)
      BY <1>6, <1>10, <2>2
    <3> QED
      BY <1>2, <3>1 DEF AddedFor
  <2>3. (k \in 1..Len(list)) <=> (l \in 1..Len(list))
    BY <1>1, <1>7, <1>10
  <2> QED
    BY <2>1, <2>2, <2>3
<1>11. ASSUME NEW n \in 1..m, IsShown(subs, n)
       PROVE  \E k \in 1..Len(added) : o2[k] = n /\ added[k] = ShownAs(subs[n])
  <2>1. CASE n = m
    <3>1. PICK k \in 1..Len(e) : e[k] = ShownAs(subs[n])
      BY <1>2, <1>3, <1>11, <2>1 DEF AddedFor
    <3> QED
      BY <1>6, <1>7, <2>1, <3>1
  <2>2. CASE n # m
    <3>1. n \in 1..(m - 1)
      BY <1>1, <2>2
    <3>2. PICK k \in 1..Len(list) : o[k] = n /\ list[k] = ShownAs(subs[n])
      BY <1>11, <3>1 DEF WrittenFrom
    <3> QED
      BY <1>6, <1>7, <3>2
  <2> QED
    BY <2>1, <2>2
<1>12. WrittenFrom(added, sample, inv, m, o2)
  BY <1>6, <1>8, <1>9, <1>10, <1>11 DEF WrittenFrom
<1> QED
  BY <1>12

(* Recursive as they are, the children are defined. *)
LEMMA ChildrenStep ==
    ASSUME NEW sample \in SampleT, NEW inv \in BOOLEAN
    PROVE  LET children == ChildrenUpTo(sample, inv) IN
           /\ children[0] = <<Element("divetime", sample.time)>>
           /\ \A n \in 1..Len(sample.subsamples) :
                 children[n] = children[n - 1]
                     \o Elements(sample.subsamples[n], Marked(children[n - 1]), inv)
<1> DEFINE N == Len(sample.subsamples)
           S == Seq(ElementT)
           a == <<Element("divetime", sample.time)>>
           With(list, n) == list \o Elements(sample.subsamples[n], Marked(list), inv)
           g == [n \in 1..N |-> [list \in S |-> With(list, n)]]
           Is(f) == f = [n \in 0..N |-> IF n = 0 THEN a ELSE With(f[n - 1], n)]
           children == CHOOSE f : Is(f)
<1>0. sample.time \in Nat /\ N \in Nat
  BY SubsampleOf
<1>1. a \in S
  <2>1. Element("divetime", sample.time) \in ElementT
    BY <1>0 DEF Element, ElementT
  <2> HIDE DEF ElementT
  <2> QED
    BY <2>1
<1>2. \A n \in 1..N : \A list \in S : With(list, n) \in S
  <2> SUFFICES ASSUME NEW n \in 1..N, NEW list \in S PROVE With(list, n) \in S
    OBVIOUS
  <2>1. Marked(list) \in BOOLEAN
    BY DEF Marked
  <2>2. Elements(sample.subsamples[n], Marked(list), inv) \in S
    BY <2>1, SubsampleOf, ElementsAre DEF AddedFor
  <2> HIDE DEF ElementT
  <2> QED
    BY <2>2
<1>3. ChildrenUpTo(sample, inv) = children
  BY DEF ChildrenUpTo, Marked
<1> HIDE DEF N, S, With
<1>4. g \in [1..N -> [S -> S]]
  BY <1>2
<1> HIDE DEF g, a
<1>5. PICK f \in [0..N -> S] : f[0] = a /\ \A j \in 1..N : f[j] = g[j][f[j - 1]]
  BY <1>0, <1>1, <1>4, FoldExists
<1>6. Is(f)
  <2>1. \A j \in 0..N : j # 0 => j \in 1..N /\ j - 1 \in 0..N
    BY <1>0
  <2>2. \A j \in 0..N : j # 0 => g[j][f[j - 1]] = With(f[j - 1], j)
    BY <1>5, <2>1 DEF g
  <2> QED
    BY <1>5, <2>1, <2>2
<1> HIDE DEF Is
<1>7. Is(children)
  BY <1>6
<1> HIDE DEF children
<1>8. children[0] = a /\ \A n \in 1..N : children[n] = With(children[n - 1], n)
  <2>1. 0 \in 0..N /\ \A n \in 1..N : n # 0 /\ n \in 0..N
    BY <1>0
  <2> QED
    BY <1>7, <2>1 DEF Is
<1> QED
  BY <1>3, <1>8 DEF N, a, With

LEMMA ChildrenAre ==
    ASSUME NEW sample \in SampleT, NEW inv \in BOOLEAN
    PROVE  \E o : WrittenFrom(Children(sample, inv), sample, inv, Len(sample.subsamples), o)
<1> DEFINE N == Len(sample.subsamples)
           c == ChildrenUpTo(sample, inv)
           Good(n) == \E o : WrittenFrom(c[n], sample, inv, n, o)
           T == {n \in 0..N : Good(n)}
<1>0. N \in Nat /\ sample.time \in Nat
  BY SubsampleOf
<1>1. Good(0)
  <2> DEFINE d == Element("divetime", sample.time)
             o == [k \in 1..1 |-> 0]
  <2>1. c[0] = <<d>>
    BY ChildrenStep
  <2>2. d \in ElementT
    BY <1>0 DEF Element, ElementT
  <2> HIDE DEF c, d, ElementT
  <2>3. c[0] \in Seq(ElementT) /\ Len(c[0]) = 1 /\ c[0][1] = d
    BY <2>1, <2>2
  <2>4. o \in [1..1 -> 0..0] /\ o[1] = 0
    OBVIOUS
  <2> HIDE DEF o
  <2>5. WrittenFrom(c[0], sample, inv, 0, o)
    BY <2>3, <2>4 DEF WrittenFrom, d
  <2> QED
    BY <2>5
<1>2. ASSUME NEW n \in 0..(N - 1), Good(n) PROVE Good(n + 1)
  <2>1. n + 1 \in 1..N /\ (n + 1) - 1 = n
    BY <1>0
  <2>2. PICK o : WrittenFrom(c[n], sample, inv, (n + 1) - 1, o)
    BY <1>2, <2>1
  <2>3. c[n + 1] = c[n] \o Elements(sample.subsamples[n + 1], Marked(c[n]), inv)
    BY <2>1, ChildrenStep
  <2> HIDE DEF c
  <2> QED
    BY <2>1, <2>2, <2>3, OneMoreSubsample
<1> HIDE DEF Good
<1>3. 0..N \subseteq T
  <2>1. 0 \in T /\ 0 \in Int /\ N \in Int
    BY <1>0, <1>1
  <2>2. \A n \in 0..(N - 1) : n \in T => n + 1 \in T
    BY <1>0, <1>2
  <2> HIDE DEF T
  <2> QED
    BY <2>1, <2>2, RangeSet
<1>4. Good(N)
  BY <1>0, <1>3
<1> QED
  BY <1>4 DEF Good, Children

-----------------------------------------------------------------------------
(* The order of the elements of a waypoint. *)

Spot(list, name) ==
    LET at == {k \in 1..Len(list) : list[k] = name} IN IF at # {} THEN Min(at) ELSE 0

OnlyAt(list, name, k) ==
    /\ Len(list) \in Nat /\ k \in 1..Len(list)
    /\ \A j \in 1..Len(list) : list[j] = name <=> j = k

LEMMA SpotIs ==
    ASSUME NEW list, NEW name, NEW k, OnlyAt(list, name, k)
    PROVE  Spot(list, name) = k
<1> DEFINE at == {j \in 1..Len(list) : list[j] = name}
<1>1. at = {k}
  BY DEF OnlyAt
<1>2. Min({k}) = k
  BY FirstOf DEF OnlyAt
<1>3. Spot(list, name) = IF at # {} THEN Min(at) ELSE 0
  BY DEF Spot
<1> HIDE DEF at
<1> QED
  BY <1>1, <1>2, <1>3

LEMMA RankSpot ==
    ASSUME NEW e
    PROVE  Rank(e) = LET spot == Spot(WaypointElementOrder, e.name)
                     IN  IF spot = 0 THEN Len(WaypointElementOrder) + 1 ELSE spot
BY DEF Rank, SelectInSeq, Spot

LEMMA RankType ==
    ASSUME NEW e
    PROVE  Rank(e) \in Int
<1> DEFINE at == {k \in 1..Len(WaypointElementOrder) : WaypointElementOrder[k] = e.name}
<1>1. Len(WaypointElementOrder) = 23
  BY DEF WaypointElementOrder
<1>2. Spot(WaypointElementOrder, e.name) = IF at # {} THEN Min(at) ELSE 0
  BY DEF Spot
<1>3. at \in SUBSET (1..23)
  BY <1>1
<1> HIDE DEF at
<1>4. CASE at # {}
  <2>1. PICK k \in at : \A j \in at : k <= j
    BY <1>3, <1>4, RangeEnds
  <2>2. Min(at) = k
    BY <1>3, <2>1, FirstOf
  <2> QED
    BY <1>1, <1>2, <1>3, <2>2, RankSpot
<1>5. CASE at = {}
  BY <1>1, <1>2, <1>5, RankSpot
<1> QED
  BY <1>4, <1>5

(* The places of the names in the order of the program and in the schema's.*)
Spots == [alarm |-> <<1, 1>>, depth |-> <<7, 2>>, divetime |-> <<8, 3>>, heading |-> <<9, 4>>,
          heartrate |-> <<10, 5>>, remainingbottomtime |-> <<13, 6>>, setmarker |-> <<15, 7>>,
          tankpressure |-> <<18, 8>>, temperature |-> <<19, 9>>]

LEMMA RankIs ==
    ASSUME NEW e, NEW name \in DOMAIN Spots, e.name = name
    PROVE  Rank(e) = Spots[name][1]
<1> DEFINE k == Spots[name][1]
<1>1. Len(WaypointElementOrder) = 23
  BY DEF WaypointElementOrder
<1>2. k \in 1..23 /\ \A j \in 1..23 : WaypointElementOrder[j] = name <=> j = k
  BY SMTT(30) DEF WaypointElementOrder, Spots
<1> HIDE DEF k
<1>3. OnlyAt(WaypointElementOrder, name, k)
  BY <1>1, <1>2 DEF OnlyAt
<1>4. Spot(WaypointElementOrder, name) = k
  BY <1>3, SpotIs
<1>5. k # 0 /\ Spot(WaypointElementOrder, e.name) = k
  BY <1>2, <1>4
<1>6. Rank(e) = k
  BY <1>5, RankSpot
<1> QED
  BY <1>6 DEF k

LEMMA PlaceIs ==
    ASSUME NEW name \in DOMAIN Spots
    PROVE  Spot(SchemaOrder, name) = Spots[name][2]
<1> DEFINE k == Spots[name][2]
<1>1. Len(SchemaOrder) = 9
  BY DEF SchemaOrder
<1>2. k \in 1..9 /\ \A j \in 1..9 : SchemaOrder[j] = name <=> j = k
  BY DEF SchemaOrder, Spots
<1> HIDE DEF k
<1>3. OnlyAt(SchemaOrder, name, k)
  BY <1>1, <1>2 DEF OnlyAt
<1>4. Spot(SchemaOrder, name) = k
  BY <1>3, SpotIs
<1> QED
  BY <1>4 DEF k

(* The order of the program is that of the schema. *)
LEMMA SpotsAgree ==
    ASSUME NEW m \in DOMAIN Spots, NEW n \in DOMAIN Spots
    PROVE  /\ Spots[n][2] \in 1..9 /\ Spots[m][2] \in 1..9
           /\ Spots[m][1] <= Spots[n][1] => Spots[m][2] < Spots[n][2] \/ m = n
BY DEF Spots

(* The sort keeps all of that. *)
LEMMA WaypointIs ==
    ASSUME NEW sample \in SampleT, NEW inv \in BOOLEAN
    PROVE  LET w == CreateWaypoint(sample, inv) IN
           /\ \E o : WrittenFrom(w, sample, inv, Len(sample.subsamples), o)
           /\ \A k, l \in 1..Len(w) : k < l => Rank(w[k]) <= Rank(w[l])
<1> DEFINE list == Children(sample, inv)
           n == Len(list)
           m == Len(sample.subsamples)
           w == CreateWaypoint(sample, inv)
           keys == [k \in 1..n |-> Rank(list[k])]
           p == StableOrder(keys)
<1>1. PICK o : WrittenFrom(list, sample, inv, m, o)
  BY ChildrenAre
<1>2. list \in Seq(ElementT) /\ n \in Nat /\ DOMAIN list = 1..n
  BY <1>1 DEF WrittenFrom
<1>3. keys \in [1..n -> Int]
  BY RankType
<1>4. w = [k \in 1..n |-> list[p[k]]]
  BY <1>2 DEF CreateWaypoint, SortedBy
<1> HIDE DEF list, n, keys, p, w
<1>5. /\ p \in [1..n -> 1..n]
      /\ \A k, l \in 1..n : k < l =>
            (keys[p[k]] < keys[p[l]] \/ (keys[p[k]] = keys[p[l]] /\ p[k] < p[l]))
      /\ \A j \in 1..n : \E k \in 1..n : p[k] = j
  BY <1>2, <1>3, StableOrderIs DEF p
<1>6. \A k \in 1..n : /\ p[k] \in 1..n /\ w[k] = list[p[k]] /\ keys[p[k]] \in Int
                      /\ keys[p[k]] = Rank(w[k])
  BY <1>3, <1>4, <1>5 DEF keys
<1>7. \A k, l \in 1..n : k # l => p[k] # p[l]
  <2>1. ASSUME NEW k \in 1..n, NEW l \in 1..n, k < l, p[k] = p[l] PROVE FALSE
    <3>1. keys[p[k]] < keys[p[l]] \/ p[k] < p[l]
      BY <1>5, <2>1
    <3> QED
      BY <1>6, <2>1, <3>1
  <2>2. \A k, l \in 1..n : k # l => k < l \/ l < k
    BY <1>2
  <2> QED
    BY <2>1, <2>2
<1>8. w \in Seq(ElementT) /\ Len(w) = n
  <2>1. \A j \in 1..n : list[j] \in ElementT
    <3> HIDE DEF ElementT
    <3> QED
      BY <1>2 DEF n
  <2> HIDE DEF ElementT
  <2> QED
    BY <1>2, <1>4, <1>5, <2>1
<1>9. ASSUME NEW k \in 1..n, NEW l \in 1..n, k < l PROVE Rank(w[k]) <= Rank(w[l])
  <2>1. keys[p[k]] < keys[p[l]] \/ keys[p[k]] = keys[p[l]]
    BY <1>5, <1>9
  <2>2. /\ keys[p[k]] \in Int /\ keys[p[k]] = Rank(w[k])
        /\ keys[p[l]] \in Int /\ keys[p[l]] = Rank(w[l])
    BY <1>6
  <2> QED
    BY <2>1, <2>2
<1> DEFINE q == [k \in 1..n |-> o[p[k]]]
<1>10. /\ q \in [1..n -> 0..m] /\ \A k \in 1..n : q[k] = o[p[k]]
  BY <1>1, <1>5 DEF WrittenFrom, n
<1> HIDE DEF q
<1>11. WrittenFrom(w, sample, inv, m, q)
  <2>1. ASSUME NEW k \in 1..n
        PROVE  \/ q[k] = 0 /\ w[k] = Element("divetime", sample.time)
               \/ q[k] # 0 /\ inv /\ IsExtra(w[k])
               \/ /\ q[k] # 0 /\ IsShown(sample.subsamples, q[k])
                  /\ w[k] = ShownAs(sample.subsamples[q[k]])
    <3>1. p[k] \in 1..n /\ w[k] = list[p[k]] /\ q[k] = o[p[k]]
      BY <1>6, <1>10
    <3>2. \/ o[p[k]] = 0 /\ list[p[k]] = Element("divetime", sample.time)
          \/ o[p[k]] # 0 /\ inv /\ IsExtra(list[p[k]])
          \/ /\ o[p[k]] # 0 /\ IsShown(sample.subsamples, o[p[k]])
             /\ list[p[k]] = ShownAs(sample.subsamples[o[p[k]]])
      BY <1>1, <3>1, Zenon DEF WrittenFrom, n
    <3> QED
      BY <3>1, <3>2
  <2>2. ASSUME NEW k \in 1..n, NEW l \in 1..n, k # l, q[k] = q[l]
        PROVE  IsExtra(w[k]) \/ IsExtra(w[l])
    <3>1. /\ p[k] \in 1..n /\ w[k] = list[p[k]] /\ q[k] = o[p[k]]
          /\ p[l] \in 1..n /\ w[l] = list[p[l]] /\ q[l] = o[p[l]]
          /\ p[k] # p[l]
      BY <1>6, <1>7, <1>10, <2>2
    <3>2. o[p[k]] = o[p[l]]
      BY <2>2, <3>1
    <3>3. IsExtra(list[p[k]]) \/ IsExtra(list[p[l]])
      BY <1>1, <3>1, <3>2 DEF WrittenFrom, n
    <3> QED
      BY <3>1, <3>3
  <2>3. ASSUME NEW j \in 1..m, IsShown(sample.subsamples, j)
        PROVE  \E k \in 1..n : q[k] = j /\ w[k] = ShownAs(sample.subsamples[j])
    <3>1. PICK l \in 1..n : o[l] = j /\ list[l] = ShownAs(sample.subsamples[j])
      BY <1>1, <2>3 DEF WrittenFrom, n
    <3>2. PICK k \in 1..n : p[k] = l
      BY <1>5
    <3> QED
      BY <1>6, <1>10, <3>1, <3>2
  <2> QED
    BY <1>8, <1>10, <2>1, <2>2, <2>3 DEF WrittenFrom
<1> QED
  BY <1>8, <1>9, <1>11 DEF w

-----------------------------------------------------------------------------
(* Where the subsamples of a dive come from: from a report, by its number, *)
(* or from an alarm, by its number with a minus.                           *)

TimesUpTo(r, n) == {j \in 1..n : r.reports[j].type = "time"}
SampleAt(r, n) == Cardinality(TimesUpTo(r, n))
SecondAt(r, n) == r.reports[Max(TimesUpTo(r, n))].value \div 1000

LevelAt(r, k) ==
    IF "alarm" \in r.alarms[k].bits THEN 2 ELSE IF "warning" \in r.alarms[k].bits THEN 1 ELSE 0

IsOf(r, j, t, s) ==
    IF j > 0 THEN s = Translated(r.reports[j]) /\ t = SecondAt(r, j)
    ELSE s = AlarmSubsample("error", LevelAt(r, -j)) /\ t = r.alarms[-j].time

(* Two reports of one sample have no time between them. *)
Together(r, j, l) == j > 0 /\ l > 0 => SampleAt(r, j) = SampleAt(r, l)

(* The first m reports and n alarms, those that are subsamples. *)
Origins(r, m, n) ==
    {j \in 1..m : r.reports[j].type \in SampleTypes} \cup {j \in (-n)..(-1) : LevelAt(r, -j) # 0}

Places(samples, w) == 1..Len(samples[w].subsamples)

TracedEach(r, samples, S, o) ==
    \A w \in 1..Len(samples) : \A m \in Places(samples, w) :
        o[w][m] \in S /\ IsOf(r, o[w][m], samples[w].time, samples[w].subsamples[m])

TracedTogether(r, samples, o) ==
    \A w \in 1..Len(samples) : \A m, l \in Places(samples, w) : Together(r, o[w][m], o[w][l])

TracedOnce(samples, o) ==
    \A v, w \in 1..Len(samples) : \A m \in Places(samples, v), l \in Places(samples, w) :
        o[v][m] = o[w][l] => v = w /\ m = l

TracedAll(samples, S, o) ==
    \A j \in S : \E w \in 1..Len(samples) : \E m \in Places(samples, w) : o[w][m] = j

Traced(r, samples, S, o) ==
    /\ TracedEach(r, samples, S, o)
    /\ TracedTogether(r, samples, o)
    /\ TracedOnce(samples, o)
    /\ TracedAll(samples, S, o)

(* A sample without a subsample. *)
LEMMA TraceEmpty ==
    ASSUME NEW r, NEW samples \in Seq(SampleT), NEW more \in Seq(SampleT), NEW S, NEW o,
           Traced(r, samples, S, o), Len(more) = Len(samples) + 1,
           \A w \in 1..Len(samples) : more[w] = samples[w],
           more[Len(more)].subsamples = <<>>
    PROVE  Traced(r, more, S, o)
<1> DEFINE n == Len(samples)
<1>1. \A w \in 1..n : w \in 1..Len(more) /\ more[w] = samples[w]
                      /\ Places(more, w) = Places(samples, w)
  BY DEF Places
<1>2. \A w \in 1..Len(more) : w \notin 1..n => Places(more, w) = {}
  <2>1. n \in Nat /\ Len(<<>>) = 0
    OBVIOUS
  <2>2. \A w \in 1..Len(more) : w \in 1..n \/ w = Len(more)
    BY <2>1
  <2>3. Places(more, Len(more)) = {}
    BY <2>1 DEF Places
  <2> QED
    BY <2>2, <2>3
<1>3. \A w \in 1..Len(more) : \A m \in Places(more, w) :
         w \in 1..n /\ more[w] = samples[w] /\ m \in Places(samples, w)
  BY <1>1, <1>2
<1>4. TracedEach(r, more, S, o)
  BY <1>3 DEF Traced, TracedEach
<1>5. TracedTogether(r, more, o)
  BY <1>3 DEF Traced, TracedTogether
<1>6. TracedOnce(more, o)
  BY <1>3 DEF Traced, TracedOnce
<1>7. TracedAll(more, S, o)
  BY <1>1 DEF Traced, TracedAll
<1> QED
  BY <1>4, <1>5, <1>6, <1>7 DEF Traced

(* A subsample that joins a sample. *)
Joined(more, o, f, j) ==
    [w \in 1..Len(more) |-> [m \in Places(more, w) |->
        IF w = f /\ m = Len(more[w].subsamples) THEN j ELSE o[w][m]]]

IsNew(more, o, f, s, j, w, m) ==
    w = f /\ m = Len(more[f].subsamples) /\ more[w].subsamples[m] = s /\ o[w][m] = j

IsOld(samples, more, o, o2, w, m) ==
    /\ m \in Places(samples, w)
    /\ more[w].subsamples[m] = samples[w].subsamples[m] /\ o2[w][m] = o[w][m]

LEMMA JoinedAt ==
    ASSUME NEW samples \in Seq(SampleT), NEW more \in Seq(SampleT), NEW o, NEW j, NEW s,
           NEW f \in 1..Len(samples), Len(more) = Len(samples),
           \A w \in 1..Len(samples) :
              /\ more[w].time = samples[w].time
              /\ more[w].subsamples = IF w = f THEN Append(samples[w].subsamples, s)
                                      ELSE samples[w].subsamples
    PROVE  LET o2 == Joined(more, o, f, j)
               last == Len(more[f].subsamples)
           IN  /\ \A w \in 1..Len(samples) : \A m \in Places(more, w) :
                     \/ IsNew(more, o2, f, s, j, w, m)
                     \/ IsOld(samples, more, o, o2, w, m)
               /\ \A w \in 1..Len(samples) : \A m \in Places(samples, w) :
                     m \in Places(more, w) /\ IsOld(samples, more, o, o2, w, m)
               /\ last \in Places(more, f) /\ IsNew(more, o2, f, s, j, f, last)
<1> DEFINE o2 == Joined(more, o, f, j)
           last == Len(more[f].subsamples)
<1>1. ASSUME NEW w \in 1..Len(samples)
      PROVE  /\ \A m \in Places(more, w) : \/ IsNew(more, o2, f, s, j, w, m)
                                           \/ IsOld(samples, more, o, o2, w, m)
             /\ \A m \in Places(samples, w) :
                   m \in Places(more, w) /\ IsOld(samples, more, o, o2, w, m)
             /\ w = f => last \in Places(more, f) /\ IsNew(more, o2, f, s, j, f, last)
  <2> DEFINE a == samples[w].subsamples
             b == more[w].subsamples
  <2>1. a \in Seq(DiveSubsample) /\ Len(a) \in Nat
    <3>1. samples[w] \in SampleT
      OBVIOUS
    <3> QED
      BY <3>1 DEF SampleT
  <2>2. b = IF w = f THEN Append(a, s) ELSE a
    OBVIOUS
  <2>3. \A m \in Places(more, w) : o2[w][m] = IF w = f /\ m = Len(b) THEN j ELSE o[w][m]
    BY DEF Joined
  <2>4. Places(samples, w) = 1..Len(a) /\ Places(more, w) = 1..Len(b)
    BY DEF Places
  <2>5. CASE w = f
    <3> HIDE DEF a, o2, DiveSubsample
    <3>1. /\ Len(b) = Len(a) + 1 /\ b[Len(a) + 1] = s
          /\ \A m \in 1..Len(a) : b[m] = a[m]
      BY <2>1, <2>2, <2>5
    <3>2. last = Len(b)
      BY <2>5
    <3> HIDE DEF b, last
    <3>3. ASSUME NEW m \in 1..Len(b), m # Len(b)
          PROVE  IsOld(samples, more, o, o2, w, m)
      <4> DEFINE before == Len(a)
                 after == Len(b)
      <4>1. before \in Nat /\ after = before + 1 /\ m \in 1..after /\ m # after
        BY <2>1, <3>1, <3>3
      <4> HIDE DEF before, after
      <4>2. m \in 1..before
        BY <4>1
      <4> USE DEF before, after
      <4> QED
        BY <2>3, <2>4, <3>1, <3>3, <4>2 DEF IsOld, a, b
    <3>4. Len(b) \in 1..Len(b) /\ o2[w][Len(b)] = j
      BY <2>1, <2>3, <2>4, <2>5, <3>1
    <3>5. IsNew(more, o2, f, s, j, w, Len(b))
      BY <2>5, <3>1, <3>2, <3>4 DEF IsNew, b, last
    <3>6. \A m \in 1..Len(a) : m \in 1..Len(b) /\ m # Len(b)
      BY <2>1, <3>1
    <3> QED
      BY <2>4, <2>5, <3>2, <3>3, <3>4, <3>5, <3>6
  <2>6. CASE w # f
    BY <2>2, <2>3, <2>4, <2>6 DEF IsOld
  <2> QED
    BY <2>5, <2>6
<1> QED
  BY <1>1

LEMMA TraceJoin ==
    ASSUME NEW r, NEW samples \in Seq(SampleT), NEW more \in Seq(SampleT), NEW S, NEW o,
           Traced(r, samples, S, o), NEW f \in 1..Len(samples), NEW j \in Int, j \notin S, NEW s,
           Len(more) = Len(samples),
           \A w \in 1..Len(samples) :
              /\ more[w].time = samples[w].time
              /\ more[w].subsamples = IF w = f THEN Append(samples[w].subsamples, s)
                                      ELSE samples[w].subsamples,
           IsOf(r, j, samples[f].time, s),
           \A m \in Places(samples, f) : Together(r, j, o[f][m])
    PROVE  Traced(r, more, S \cup {j}, Joined(more, o, f, j))
<1> DEFINE o2 == Joined(more, o, f, j)
           n == Len(samples)
           last == Len(more[f].subsamples)
           New(w, m) == IsNew(more, o2, f, s, j, w, m)
           Old(w, m) == IsOld(samples, more, o, o2, w, m)
<1>1. /\ \A w \in 1..n : \A m \in Places(more, w) : New(w, m) \/ Old(w, m)
      /\ \A w \in 1..n : \A m \in Places(samples, w) : m \in Places(more, w) /\ Old(w, m)
      /\ last \in Places(more, f) /\ New(f, last)
  BY JoinedAt
<1>2. \A w \in 1..n : more[w].time = samples[w].time
  OBVIOUS
<1>3. \A w \in 1..n : \A m \in Places(samples, w) : o[w][m] # j /\ o[w][m] \in S
  BY DEF Traced, TracedEach
<1> SUFFICES Traced(r, more, S \cup {j}, o2)
  OBVIOUS
<1> HIDE DEF o2
<1>4. TracedEach(r, more, S \cup {j}, o2)
  <2> SUFFICES ASSUME NEW w \in 1..n, NEW m \in Places(more, w)
               PROVE  /\ o2[w][m] \in S \cup {j}
                      /\ IsOf(r, o2[w][m], more[w].time, more[w].subsamples[m])
    BY DEF TracedEach
  <2>1. CASE New(w, m)
    BY <1>2, <2>1 DEF IsNew
  <2>2. CASE Old(w, m)
    BY <1>2, <2>2 DEF IsOld, Traced, TracedEach
  <2> QED
    BY <1>1, <2>1, <2>2
<1>5. TracedTogether(r, more, o2)
  <2> SUFFICES ASSUME NEW w \in 1..n, NEW m \in Places(more, w), NEW l \in Places(more, w)
               PROVE  Together(r, o2[w][m], o2[w][l])
    BY DEF TracedTogether
  <2>1. CASE Old(w, m) /\ Old(w, l)
    BY <2>1 DEF IsOld, Traced, TracedTogether
  <2>2. CASE New(w, m) /\ New(w, l)
    BY <2>2 DEF IsNew, Together
  <2>3. CASE New(w, m) /\ Old(w, l)
    BY <2>3 DEF IsNew, IsOld
  <2>4. CASE Old(w, m) /\ New(w, l)
    <3>1. Together(r, o2[w][l], o2[w][m])
      BY <2>4 DEF IsNew, IsOld
    <3> QED
      BY <3>1 DEF Together
  <2> QED
    BY <1>1, <2>1, <2>2, <2>3, <2>4
<1>6. TracedOnce(more, o2)
  <2> SUFFICES ASSUME NEW v \in 1..n, NEW w \in 1..n, NEW m \in Places(more, v),
                      NEW l \in Places(more, w), o2[v][m] = o2[w][l]
               PROVE  v = w /\ m = l
    BY DEF TracedOnce
  <2>1. CASE Old(v, m) /\ Old(w, l)
    <3>1. m \in Places(samples, v) /\ l \in Places(samples, w) /\ o[v][m] = o[w][l]
      BY <2>1 DEF IsOld
    <3> QED
      BY <3>1 DEF Traced, TracedOnce
  <2>2. CASE New(v, m) /\ New(w, l)
    BY <2>2 DEF IsNew
  <2>3. CASE New(v, m) /\ Old(w, l)
    BY <1>3, <2>3 DEF IsNew, IsOld
  <2>4. CASE Old(v, m) /\ New(w, l)
    BY <1>3, <2>4 DEF IsNew, IsOld
  <2> QED
    BY <1>1, <2>1, <2>2, <2>3, <2>4
<1>7. TracedAll(more, S \cup {j}, o2)
  <2> SUFFICES ASSUME NEW l \in S \cup {j}
               PROVE  \E w \in 1..n : \E m \in Places(more, w) : o2[w][m] = l
    BY DEF TracedAll
  <2>1. CASE l = j
    BY <1>1, <2>1 DEF IsNew
  <2>2. CASE l \in S
    <3>1. PICK w \in 1..n : \E m \in Places(samples, w) : o[w][m] = l
      BY <2>2 DEF Traced, TracedAll
    <3>2. PICK m \in Places(samples, w) : o[w][m] = l
      BY <3>1
    <3>3. m \in Places(more, w) /\ o2[w][m] = o[w][m]
      BY <1>1 DEF IsOld
    <3> QED
      BY <3>2, <3>3
  <2> QED
    BY <2>1, <2>2
<1> QED
  BY <1>4, <1>5, <1>6, <1>7 DEF Traced

(* The samples in another order. *)
LEMMA TraceSorted ==
    ASSUME NEW r, NEW samples \in Seq(SampleT), NEW S, NEW o, Traced(r, samples, S, o)
    PROVE  \E o2 : Traced(r, SortSamples(samples), S, o2)
<1> DEFINE n == Len(samples)
           sorted == SortSamples(samples)
<1>1. sorted \in Seq(SampleT) /\ Len(sorted) = n
  BY SortSamplesIs
<1>2. PICK p \in [1..n -> 1..n] :
         /\ \A k \in 1..n : sorted[k] = samples[p[k]]
         /\ \A k, l \in 1..n : k < l => p[k] # p[l]
         /\ \A j \in 1..n : \E k \in 1..n : p[k] = j
  BY SortSamplesIs
<1> DEFINE o2 == [k \in 1..n |-> o[p[k]]]
<1> HIDE DEF sorted
<1>3. \A k \in 1..n : /\ p[k] \in 1..n /\ sorted[k] = samples[p[k]] /\ o2[k] = o[p[k]]
                      /\ Places(sorted, k) = Places(samples, p[k])
  BY <1>2 DEF Places
<1>4. \A k, l \in 1..n : p[k] = p[l] => k = l
  <2>1. \A k, l \in 1..n : k # l => k < l \/ l < k
    OBVIOUS
  <2> QED
    BY <1>2, <2>1
<1> HIDE DEF o2
<1>5. TracedEach(r, sorted, S, o2)
  BY <1>1, <1>3 DEF Traced, TracedEach
<1>6. TracedTogether(r, sorted, o2)
  BY <1>1, <1>3 DEF Traced, TracedTogether
<1>7. TracedOnce(sorted, o2)
  <2> SUFFICES ASSUME NEW v \in 1..n, NEW w \in 1..n, NEW m \in Places(sorted, v),
                      NEW l \in Places(sorted, w), o2[v][m] = o2[w][l]
               PROVE  v = w /\ m = l
    BY <1>1 DEF TracedOnce
  <2>1. /\ p[v] \in 1..n /\ p[w] \in 1..n /\ m \in Places(samples, p[v])
        /\ l \in Places(samples, p[w]) /\ o[p[v]][m] = o[p[w]][l]
    BY <1>3
  <2>2. p[v] = p[w] /\ m = l
    BY <2>1 DEF Traced, TracedOnce
  <2> QED
    BY <1>4, <2>2
<1>8. TracedAll(sorted, S, o2)
  <2> SUFFICES ASSUME NEW j \in S
               PROVE  \E w \in 1..n : \E m \in Places(sorted, w) : o2[w][m] = j
    BY <1>1 DEF TracedAll
  <2>1. PICK v \in 1..n : \E m \in Places(samples, v) : o[v][m] = j
    BY DEF Traced, TracedAll
  <2>2. PICK w \in 1..n : p[w] = v
    BY <1>2
  <2> QED
    BY <1>3, <2>1, <2>2
<1>9. Traced(r, sorted, S, o2)
  BY <1>5, <1>6, <1>7, <1>8 DEF Traced
<1> QED
  BY <1>9 DEF sorted

(* The records. *)
LEMMA RecordFacts ==
    ASSUME NEW r \in Records
    PROVE  /\ Len(r.reports) \in Nat /\ \A j \in 1..Len(r.reports) : r.reports[j] \in Report
           /\ Len(r.alarms) \in Nat /\ \A k \in 1..Len(r.alarms) : r.alarms[k].time \in Nat
           /\ DOMAIN r.reports = 1..Len(r.reports) /\ DOMAIN r.alarms = 1..Len(r.alarms)
           /\ Len(r.reports) >= 1 => r.reports[1].type = "time"
<1> DEFINE AlarmT == [time : Nat, bits : SUBSET Buzzer]
<1>1. r \in Record /\ (r.reports # <<>> => r.reports[1].type = "time")
  BY RecordsAssumption
<1>2. r.reports \in Seq(Report) /\ r.alarms \in Seq(AlarmT)
  BY <1>1, Zenon DEF Record
<1>3. \A x \in AlarmT : x.time \in Nat
  OBVIOUS
<1> HIDE DEF AlarmT, Report
<1>4. Len(r.reports) >= 1 => r.reports # <<>>
  OBVIOUS
<1> QED
  BY <1>1, <1>2, <1>3, <1>4

LEMMA LastOf ==
    ASSUME NEW S \in SUBSET Nat, NEW n \in S, \A j \in S : n >= j
    PROVE  Max(S) = n
<1>1. Max(S) \in S /\ \A y \in S : Max(S) >= y
  <2> DEFINE Q(x) == x \in S /\ \A y \in S : x >= y
  <2>1. Q(n)
    OBVIOUS
  <2>2. Q(CHOOSE x : Q(x))
    BY <2>1, Zenon
  <2>3. Max(S) = CHOOSE x : Q(x)
    BY Zenon DEF Max
  <2> QED
    BY <2>2, <2>3, Zenon
<1>2. Max(S) \in Nat /\ n \in Nat /\ n >= Max(S) /\ Max(S) >= n
  BY <1>1
<1> QED
  BY <1>2

(* The number of the sample and the second of a report. *)
LEMMA TimesCounted ==
    ASSUME NEW r, NEW n \in Nat \ {0}
    PROVE  /\ SampleAt(r, n) \in Nat /\ SampleAt(r, 0) = 0
           /\ r.reports[n].type = "time" =>
                 /\ SampleAt(r, n) = SampleAt(r, n - 1) + 1
                 /\ SecondAt(r, n) = r.reports[n].value \div 1000
           /\ r.reports[n].type # "time" =>
                 SampleAt(r, n) = SampleAt(r, n - 1) /\ SecondAt(r, n) = SecondAt(r, n - 1)
<1> DEFINE T == TimesUpTo(r, n)
           B == TimesUpTo(r, n - 1)
<1>1. T = IF r.reports[n].type = "time" THEN B \cup {n} ELSE B
  BY DEF TimesUpTo
<1>2. T \in SUBSET (1..n) /\ B \in SUBSET (1..(n - 1)) /\ n \notin B
  BY DEF TimesUpTo
<1>3. IsFiniteSet(T) /\ IsFiniteSet(B)
  <2>1. IsFiniteSet(1..n) /\ IsFiniteSet(1..(n - 1))
    BY FS_Interval
  <2> QED
    BY <1>2, <2>1, FS_Subset
<1>4. TimesUpTo(r, 0) = {} /\ Cardinality({}) = 0
  BY FS_EmptySet DEF TimesUpTo
<1> HIDE DEF T, B
<1>5. Cardinality(T) \in Nat /\ Cardinality(B \cup {n}) = Cardinality(B) + 1
  BY <1>2, <1>3, FS_CardinalityType, FS_AddElement
<1>6. r.reports[n].type = "time" => Max(T) = n
  <2> SUFFICES ASSUME r.reports[n].type = "time" PROVE Max(T) = n
    OBVIOUS
  <2>1. n \in T /\ T \in SUBSET Nat /\ \A j \in T : n >= j
    BY <1>1, <1>2
  <2> QED
    BY <2>1, LastOf
<1> QED
  BY <1>1, <1>4, <1>5, <1>6 DEF SampleAt, SecondAt, T, B

(* Of two reports of one sample with the same type, the values that a      *)
(* sample has once are not among them.                                     *)
LEMMA OnceInSample ==
    ASSUME NEW r \in Records, NEW j \in 1..Len(r.reports), NEW l \in 1..Len(r.reports), j < l,
           SampleAt(r, j) = SampleAt(r, l), r.reports[j].type \in SampleTypes,
           r.reports[j].type = r.reports[l].type
    PROVE  r.reports[j].type \in {"pressure", "event", "vendor"}
<1> SUFFICES ASSUME r.reports[j].type \notin {"pressure", "event", "vendor"} PROVE FALSE
  OBVIOUS
<1>1. PICK x \in j..l : r.reports[x].type = "time"
  BY RecordsAssumption, RecordFacts
<1>2. x # j /\ j \in Nat /\ l \in Nat
  BY <1>1 DEF SampleTypes
<1> DEFINE J == TimesUpTo(r, j)
           L == TimesUpTo(r, l)
<1>3. L \in SUBSET (1..l) /\ J \in SUBSET (1..j)
  BY DEF TimesUpTo
<1>4. J \cup {x} \in SUBSET L /\ x \notin J
  BY <1>1, <1>2 DEF TimesUpTo
<1>5. IsFiniteSet(L) /\ IsFiniteSet(J)
  <2>1. IsFiniteSet(1..l) /\ IsFiniteSet(1..j)
    BY FS_Interval
  <2> QED
    BY <1>3, <2>1, FS_Subset
<1> HIDE DEF J, L
<1>6. /\ Cardinality(J) \in Nat /\ Cardinality(L) \in Nat
      /\ Cardinality(J \cup {x}) = Cardinality(J) + 1
      /\ Cardinality(J \cup {x}) <= Cardinality(L)
  BY <1>4, <1>5, FS_CardinalityType, FS_AddElement, FS_Subset
<1> QED
  BY <1>6 DEF SampleAt, J, L

LEMMA OriginsStep ==
    ASSUME NEW r, NEW m \in Nat, NEW n \in Nat
    PROVE  /\ Origins(r, 0, 0) = {}
           /\ r.reports[m + 1].type \in SampleTypes =>
                 Origins(r, m + 1, n) = Origins(r, m, n) \cup {m + 1}
           /\ r.reports[m + 1].type \notin SampleTypes => Origins(r, m + 1, n) = Origins(r, m, n)
           /\ m + 1 \notin Origins(r, m, n)
<1> DEFINE R(k) == {j \in 1..k : r.reports[j].type \in SampleTypes}
           A(k) == {j \in (-k)..(-1) : LevelAt(r, -j) # 0}
<1>1. \A k, l : Origins(r, k, l) = R(k) \cup A(l)
  BY DEF Origins
<1>2. R(m + 1) = IF r.reports[m + 1].type \in SampleTypes THEN R(m) \cup {m + 1} ELSE R(m)
  OBVIOUS
<1>3. /\ R(0) = {} /\ A(0) = {}
      /\ \A j \in R(m) : j \in 1..m
      /\ \A j \in A(n) : j \in (-n)..(-1)
  OBVIOUS
<1> HIDE DEF R, A
<1>4. m + 1 \notin R(m) \cup A(n)
  BY <1>3
<1> QED
  BY <1>1, <1>2, <1>3, <1>4

LEMMA OriginsAlarm ==
    ASSUME NEW r, NEW m \in Nat, NEW n \in Nat
    PROVE  /\ LevelAt(r, n + 1) # 0 => Origins(r, m, n + 1) = Origins(r, m, n) \cup {-(n + 1)}
           /\ LevelAt(r, n + 1) = 0 => Origins(r, m, n + 1) = Origins(r, m, n)
           /\ -(n + 1) \notin Origins(r, m, n)
<1> DEFINE R == {j \in 1..m : r.reports[j].type \in SampleTypes}
           A(k) == {j \in (-k)..(-1) : LevelAt(r, -j) # 0}
           x == -(n + 1)
<1>1. \A l : Origins(r, m, l) = R \cup A(l)
  BY DEF Origins
<1>2. A(n + 1) = IF LevelAt(r, n + 1) # 0 THEN A(n) \cup {x} ELSE A(n)
  <2>1. \A j : j \in (-(n + 1))..(-1) <=> j \in (-n)..(-1) \/ j = -(n + 1)
    OBVIOUS
  <2>2. -(-(n + 1)) = n + 1
    OBVIOUS
  <2> QED
    BY <2>1, <2>2
<1>3. (\A j \in R : j \in 1..m) /\ (\A j \in A(n) : j \in (-n)..(-1))
  OBVIOUS
<1> HIDE DEF R, A
<1>4. x \notin R \cup A(n)
  BY <1>3
<1> HIDE DEF x
<1>5. Origins(r, m, n + 1) = R \cup A(n + 1) /\ Origins(r, m, n) = R \cup A(n)
  BY <1>1
<1>6. LevelAt(r, n + 1) # 0 => Origins(r, m, n + 1) = Origins(r, m, n) \cup {x}
  BY <1>2, <1>5
<1>7. LevelAt(r, n + 1) = 0 => Origins(r, m, n + 1) = Origins(r, m, n)
  BY <1>2, <1>5
<1> QED
  BY <1>4, <1>5, <1>6, <1>7 DEF x

BeforeSamples == Labels \ ({"samples", "alarms", "destroy"} \cup Done)

(* While the samples are parsed: the last sample is that of the last time. *)
AtSamples(r, samples, o, m) ==
    /\ Len(samples) = SampleAt(r, m)
    /\ m > 0 => Len(samples) > 0 /\ samples[Len(samples)].time = SecondAt(r, m)
    /\ \A w \in 1..Len(samples) : \A l \in Places(samples, w) : SampleAt(r, o[w][l]) = w

(* m reports and n alarms have been added to the dive. *)
Added(o, m, n) ==
    /\ m \in 0..Len(record.reports) /\ n \in 0..Len(record.alarms)
    /\ Traced(record, dive.samples, Origins(record, m, n), o)
    /\ pc \in BeforeSamples => dive.samples = <<>> /\ m = 0 /\ n = 0
    /\ pc = "samples" => m = i - 1 /\ n = 0 /\ AtSamples(record, dive.samples, o, m)
    /\ pc = "alarms" => record.uwatec /\ m = Len(record.reports) /\ n = i - 1
    /\ pc = "destroy" \/ status = "success" =>
          /\ m = Len(record.reports)
          /\ n = IF record.uwatec THEN Len(record.alarms) ELSE 0

TraceIInv == \E o, m, n : Added(o, m, n)

LEMMA NothingTraced ==
    ASSUME NEW r, NEW o
    PROVE  Traced(r, <<>>, {}, o)
BY DEF Traced, TracedEach, TracedTogether, TracedOnce, TracedAll

LEMMA SampleMoves ==
    ASSUME IInv, [Next]_vars, ~Alloc, ~SampleCb, ~ImportAlarm, ~Write
    PROVE  /\ pc' \in BeforeSamples => pc \in BeforeSamples
           /\ pc' = "samples" => \/ pc = "samples" /\ i' = i
                                 \/ pc = "gases" /\ i' = 1
           /\ pc' = "alarms" => \/ pc = "alarms" /\ i' = i
                                \/ /\ pc = "samples" /\ i > Len(record.reports) /\ i' = 1
                                   /\ record.uwatec
           /\ pc' = "destroy" => \/ pc = "destroy"
                                 \/ /\ pc = "samples" /\ i > Len(record.reports)
                                    /\ ~record.uwatec
                                 \/ pc = "alarms" /\ i > Len(record.alarms)
           /\ status' = "success" => pc = "destroy" \/ status = "success"
<1> USE DEF Labels, Calls, Done, BeforeSamples
<1>0. status = "pending" <=> pc \notin Done
  BY DEF IInv
<1>1. CASE ReturnError
  BY <1>0, <1>1 DEF ReturnError
<1>2. CASE MakeParser
  BY <1>0, <1>2 DEF MakeParser
<1>3. CASE GetDatetime \/ GetDivetime \/ GetMaxdepth
  BY <1>0, <1>1, <1>3 DEF GetDatetime, GetDivetime, GetMaxdepth, Get
<1>4. CASE GetMinTemperature \/ GetAvgdepth
  BY <1>0, <1>1, <1>4 DEF GetMinTemperature, GetAvgdepth, Get
<1>5. CASE CountTanks \/ CountGases
  BY <1>0, <1>1, <1>5 DEF CountTanks, CountGases, Get
<1>6. CASE GetTank
  BY <1>0, <1>1, <1>6 DEF GetTank, Get, Advance
<1>7. CASE NoTankLeft \/ NoGasLeft
  BY <1>0, <1>7 DEF NoTankLeft, NoGasLeft
<1>8. CASE GetGasmix
  BY <1>0, <1>1, <1>8 DEF GetGasmix, Advance
<1>9. CASE SamplesParsed
  BY <1>0, <1>1, <1>9 DEF SamplesParsed
<1>10. CASE AlarmsImported \/ Destroy
  BY <1>0, <1>10 DEF AlarmsImported, Destroy
<1>11. CASE UNCHANGED vars
  BY <1>11 DEF vars
<1> QED
  BY <1>2, <1>3, <1>4, <1>5, <1>6, <1>7, <1>8, <1>9, <1>10, <1>11 DEF Next, Fields

Joins(samples, more, f, s) ==
    /\ Len(more) = Len(samples) /\ f \in 1..Len(samples)
    /\ \A w \in 1..Len(samples) :
          /\ more[w].time = samples[w].time
          /\ more[w].subsamples = IF w = f THEN Append(samples[w].subsamples, s)
                                  ELSE samples[w].subsamples

LEMMA TraceJoined ==
    ASSUME NEW r, NEW samples \in Seq(SampleT), NEW more \in Seq(SampleT), NEW S, NEW o,
           NEW f, NEW j \in Int, NEW s, Traced(r, samples, S, o), j \notin S,
           Joins(samples, more, f, s), IsOf(r, j, samples[f].time, s),
           \A m \in Places(samples, f) : Together(r, j, o[f][m])
    PROVE  Traced(r, more, S \cup {j}, Joined(more, o, f, j))
<1> HIDE DEF SampleT
<1>1. f \in 1..Len(samples)
  BY DEF Joins
<1> QED
  BY <1>1, TraceJoin DEF Joins

LEMMA TraceReport ==
    ASSUME IInv, DataIInv, SampleCb, NEW o, NEW m, NEW n, Added(o, m, n)
    PROVE  \E o2 : Added(o2, m + 1, n)'
<1> DEFINE r == record
           samples == dive.samples
           more == dive'.samples
           report == record.reports[i]
           S == Origins(r, m, n)
<1>1. /\ pc = "samples" /\ pc' = "samples" /\ i' = i + 1 /\ status' = status /\ record' = record
      /\ i <= Len(r.reports) /\ dive' = [dive EXCEPT !.samples = AddReport(samples, report)]
  BY DEF SampleCb, Advance, given
<1>2. r \in Records /\ i \in Nat \ {0} /\ status = "pending"
  BY <1>1 DEF IInv, Done
<1>3. /\ m = i - 1 /\ m + 1 = i /\ n = 0 /\ m \in Nat /\ n \in Nat
      /\ AtSamples(r, samples, o, m) /\ Traced(r, samples, S, o)
  BY <1>1, <1>2 DEF Added
<1>4. Len(r.reports) \in Nat /\ i \in 1..Len(r.reports) /\ report \in Report
      /\ Len(r.reports) >= 1 /\ r.reports[1].type = "time" /\ Len(r.alarms) \in Nat
  BY <1>1, <1>2, RecordFacts
<1>5. samples \in Seq(SampleT)
  BY DEF DataIInv
<1>6. more = AddReport(samples, report)
  BY <1>1, SamplesSet
<1>7. /\ pc' \notin BeforeSamples /\ pc' # "alarms" /\ pc' # "destroy" /\ status' # "success"
      /\ m + 1 = i' - 1 /\ m + 1 \in 0..Len(r.reports) /\ n \in 0..Len(r.alarms)
  BY <1>1, <1>2, <1>3, <1>4 DEF BeforeSamples
<1>8. ASSUME NEW o2, Traced(r, more, Origins(r, m + 1, n), o2), AtSamples(r, more, o2, m + 1)
      PROVE  Added(o2, m + 1, n)'
  BY <1>1, <1>3, <1>7, <1>8 DEF Added
<1> HIDE DEF r, more, report
<1>9. CASE report.type = "time"
  <2>1. /\ more \in Seq(SampleT) /\ Len(more) = Len(samples) + 1
        /\ \A w \in 1..Len(samples) : more[w] = samples[w]
        /\ more[Len(samples) + 1].time = report.value \div 1000
        /\ more[Len(samples) + 1].subsamples = <<>>
    BY <1>4, <1>5, <1>6, <1>9, AddReportIs, SMTT(30)
  <2>2. Traced(r, more, S, o)
    BY <1>3, <1>5, <2>1, TraceEmpty
  <2>3. Origins(r, m + 1, n) = S
    <3>1. report = r.reports[m + 1] /\ report.type \notin SampleTypes
      BY <1>3, <1>9 DEF SampleTypes, report, r
    <3> QED
      BY <1>3, <3>1, OriginsStep
  <2>4. /\ SampleAt(r, m + 1) = SampleAt(r, m) + 1 /\ SampleAt(r, m) \in Nat
        /\ SecondAt(r, m + 1) = report.value \div 1000
    <3>1. /\ SampleAt(r, i) = SampleAt(r, i - 1) + 1 /\ SecondAt(r, i) = report.value \div 1000
      BY <1>2, <1>9, TimesCounted DEF report, r
    <3>2. SampleAt(r, m) \in Nat
      BY <1>3, TimesCounted
    <3> QED
      BY <1>3, <3>1, <3>2
  <2>5. AtSamples(r, more, o, m + 1)
    <3>1. Len(samples) = SampleAt(r, m) /\ Len(more) = SampleAt(r, m + 1) /\ Len(more) > 0
      BY <1>3, <2>1, <2>4 DEF AtSamples
    <3>2. more[Len(more)].time = SecondAt(r, m + 1)
      BY <2>1, <2>4
    <3>3. \A w \in 1..Len(more) : \/ w \in 1..Len(samples) /\ more[w] = samples[w]
                                  \/ w = Len(samples) + 1
      BY <1>5, <2>1
    <3>4. Places(more, Len(samples) + 1) = {}
      BY <2>1 DEF Places
    <3>5. \A w \in 1..Len(more) : \A l \in Places(more, w) : SampleAt(r, o[w][l]) = w
      BY <1>3, <3>3, <3>4 DEF AtSamples, Places
    <3> QED
      BY <3>1, <3>2, <3>5 DEF AtSamples
  <2> QED
    BY <1>8, <2>2, <2>3, <2>5
<1>10. CASE report.type \in SampleTypes
  <2> DEFINE f == Len(samples)
             s == Translated(report)
             o2 == Joined(more, o, f, i)
  <2>0. "time" \notin SampleTypes /\ report.type # "time" /\ i # 1 /\ m > 0
    <3>1. "time" \notin SampleTypes
      BY DEF SampleTypes
    <3>2. i # 1
      BY <1>4, <1>10, <3>1 DEF report, r
    <3> QED
      BY <1>2, <1>3, <1>10, <3>1, <3>2
  <2>1. /\ more \in Seq(SampleT) /\ Len(more) = Len(samples)
        /\ \A w \in 1..Len(samples) :
              /\ more[w].time = samples[w].time
              /\ more[w].subsamples = IF w = f THEN Append(samples[w].subsamples, s)
                                      ELSE samples[w].subsamples
    BY <1>4, <1>5, <1>6, <1>10, AddReportIs, SMTT(30)
  <2>2. SampleAt(r, i) = SampleAt(r, m) /\ SecondAt(r, i) = SecondAt(r, m)
    <3>1. SampleAt(r, i) = SampleAt(r, i - 1) /\ SecondAt(r, i) = SecondAt(r, i - 1)
      BY <1>2, <2>0, TimesCounted DEF report, r
    <3> QED
      BY <1>3, <3>1
  <2>3. f = SampleAt(r, i) /\ f \in 1..Len(samples) /\ samples[f].time = SecondAt(r, i)
    BY <1>3, <1>5, <2>0, <2>2 DEF AtSamples
  <2>4. IsOf(r, i, samples[f].time, s)
    BY <1>2, <2>3 DEF IsOf, report, r
  <2>5. \A l \in Places(samples, f) : Together(r, i, o[f][l])
    BY <1>3, <2>3 DEF AtSamples, Together
  <2>6. Origins(r, m + 1, n) = S \cup {i} /\ i \notin S
    BY <1>3, <1>10, OriginsStep DEF report, r
  <2>7. i \in Int
    BY <1>2
  <2> HIDE DEF f, s, o2
  <2>8. Traced(r, more, S \cup {i}, o2)
    <3>1. Joins(samples, more, f, s)
      BY <2>1, <2>3 DEF Joins
    <3> QED
      BY <1>3, <1>5, <2>1, <2>4, <2>5, <2>6, <2>7, <3>1, TraceJoined DEF o2
  <2>9. AtSamples(r, more, o2, m + 1)
    <3>1. \A w \in 1..Len(samples) : \A l \in Places(more, w) :
             \/ IsNew(more, o2, f, s, i, w, l)
             \/ IsOld(samples, more, o, o2, w, l)
      BY <1>5, <2>1, <2>3, JoinedAt DEF o2
    <3>2. \A w \in 1..Len(samples) : \A l \in Places(more, w) : SampleAt(r, o2[w][l]) = w
      <4> SUFFICES ASSUME NEW w \in 1..Len(samples), NEW l \in Places(more, w)
                   PROVE  SampleAt(r, o2[w][l]) = w
        OBVIOUS
      <4>1. CASE IsNew(more, o2, f, s, i, w, l)
        BY <2>3, <4>1 DEF IsNew
      <4>2. CASE IsOld(samples, more, o, o2, w, l)
        BY <1>3, <4>2 DEF IsOld, AtSamples
      <4> QED
        BY <3>1, <4>1, <4>2
    <3>3. Len(more) = SampleAt(r, m + 1) /\ Len(more) > 0
          /\ more[Len(more)].time = SecondAt(r, m + 1)
      BY <1>3, <2>1, <2>3 DEF f
    <3> QED
      BY <2>1, <3>2, <3>3 DEF AtSamples
  <2> QED
    BY <1>8, <2>6, <2>8, <2>9
<1>11. CASE report.type \notin {"time"} \cup SampleTypes
  <2>1. more = samples
    BY <1>4, <1>5, <1>6, <1>11, AddReportIs
  <2>2. Origins(r, m + 1, n) = S
    <3>1. report = r.reports[m + 1] /\ report.type \notin SampleTypes
      BY <1>3, <1>11 DEF report, r
    <3> QED
      BY <1>3, <3>1, OriginsStep
  <2>3. SampleAt(r, i) = SampleAt(r, i - 1) /\ SecondAt(r, i) = SecondAt(r, i - 1) /\ i # 1
    <3>1. r.reports[i].type # "time"
      BY <1>11 DEF report, r
    <3> QED
      BY <1>2, <1>4, <3>1, TimesCounted
  <2>4. SampleAt(r, m + 1) = SampleAt(r, m) /\ SecondAt(r, m + 1) = SecondAt(r, m) /\ m > 0
    BY <1>2, <1>3, <2>3
  <2>5. AtSamples(r, more, o, m + 1)
    BY <1>3, <2>1, <2>4 DEF AtSamples
  <2> QED
    BY <1>3, <1>8, <2>1, <2>2, <2>5
<1> QED
  BY <1>9, <1>10, <1>11

(* A subsample that opens a sample. *)
LEMMA TraceOpen ==
    ASSUME NEW r, NEW samples \in Seq(SampleT), NEW more \in Seq(SampleT), NEW S, NEW o,
           Traced(r, samples, S, o), NEW j \in Int, j \notin S, NEW t \in Nat, NEW s,
           IsOf(r, j, t, s), OpensOne(samples, more, t, s)
    PROVE  \E o2 : Traced(r, more, S \cup {j}, o2)
<1> DEFINE new == NewSample(t)
           mid == Append(samples, new)
           f == Len(samples) + 1
<1>1. new \in SampleT /\ new.time = t /\ new.subsamples = <<>>
  BY NewSampleType
<1> HIDE DEF new
<1>2. /\ mid \in Seq(SampleT) /\ Len(mid) = Len(samples) + 1
      /\ \A w \in 1..Len(samples) : mid[w] = samples[w]
      /\ mid[Len(mid)] = new /\ mid[f] = new /\ f \in 1..Len(mid)
  BY <1>1
<1> HIDE DEF mid
<1>3. Traced(r, mid, S, o)
  BY <1>1, <1>2, TraceEmpty
<1>4. Append(<<>>, s) = <<s>> /\ Len(<<>>) = 0
  OBVIOUS
<1>5. \A w \in 1..Len(mid) : w \in 1..Len(samples) \/ w = f
  BY <1>2
<1>6. f \notin 1..Len(samples)
  OBVIOUS
<1>7. \A w \in 1..Len(mid) :
         /\ more[w].time = mid[w].time
         /\ more[w].subsamples = IF w = f THEN Append(mid[w].subsamples, s)
                                 ELSE mid[w].subsamples
  BY <1>1, <1>2, <1>4, <1>5, <1>6 DEF OpensOne
<1>8. Len(more) = Len(mid) /\ IsOf(r, j, mid[f].time, s) /\ Places(mid, f) = {}
  BY <1>1, <1>2, <1>4 DEF OpensOne, Places
<1> HIDE DEF f
<1>9. Traced(r, more, S \cup {j}, Joined(more, o, f, j))
  BY <1>2, <1>3, <1>7, <1>8, TraceJoin
<1> QED
  BY <1>9

(* What the decoder found becomes a subsample, or is nothing. *)
LEMMA TraceBuzzer ==
    ASSUME NEW r, NEW samples \in Seq(SampleT), NEW m \in Nat, NEW n \in Nat,
           r.alarms[n + 1].time \in Nat, NEW o, Traced(r, samples, Origins(r, m, n), o)
    PROVE  \E o2 : Traced(r, AddBuzzer(samples, r.alarms[n + 1]), Origins(r, m, n + 1), o2)
<1> DEFINE more == AddBuzzer(samples, r.alarms[n + 1])
           S == Origins(r, m, n)
           level == LevelAt(r, n + 1)
           t == r.alarms[n + 1].time
           alarm == AlarmSubsample("error", level)
           j == -(n + 1)
<1> SUFFICES \E o2 : Traced(r, more, Origins(r, m, n + 1), o2)
  OBVIOUS
<1>1. level \in {0, 1, 2} /\ more = IF level = 0 THEN samples ELSE AddAlarm(samples, t, level)
  BY AddBuzzerIs DEF LevelAt
<1>2. /\ level # 0 => Origins(r, m, n + 1) = S \cup {j}
      /\ level = 0 => Origins(r, m, n + 1) = S
      /\ j \notin S
  BY OriginsAlarm, Zenon
<1>3. /\ j \in Int /\ IsOf(r, j, t, alarm) /\ \A x : Together(r, j, x) /\ t \in Nat
  <2>1. -(-(n + 1)) = n + 1 /\ ~(-(n + 1) > 0)
    OBVIOUS
  <2> QED
    BY <2>1 DEF IsOf, Together
<1> HIDE DEF more, level, t, j, S
<1>4. CASE level = 0
  BY <1>1, <1>2, <1>4 DEF S
<1>5. CASE level # 0
  <2>1. /\ more \in Seq(SampleT)
        /\ \/ OpensOne(samples, more, t, alarm)
           \/ \E f \in 1..Len(samples) : JoinsOne(samples, more, t, alarm, f)
    BY <1>1, <1>3, <1>5, AddAlarmIs DEF alarm
  <2> HIDE DEF alarm
  <2>2. Traced(r, samples, S, o)
    BY DEF S
  <2>3. CASE OpensOne(samples, more, t, alarm)
    <3>1. \E o2 : Traced(r, more, S \cup {j}, o2)
      BY <1>2, <1>3, <2>1, <2>2, <2>3, TraceOpen
    <3> QED
      BY <1>2, <1>5, <3>1
  <2>4. ASSUME NEW f \in 1..Len(samples), JoinsOne(samples, more, t, alarm, f)
        PROVE  \E o2 : Traced(r, more, Origins(r, m, n + 1), o2)
    <3>1. Traced(r, more, S \cup {j}, Joined(more, o, f, j))
      <4>1. /\ samples[f].time = t /\ Len(more) = Len(samples)
            /\ \A w \in 1..Len(samples) :
                  /\ more[w].time = samples[w].time
                  /\ more[w].subsamples = IF w = f THEN Append(samples[w].subsamples, alarm)
                                          ELSE samples[w].subsamples
        BY <2>4 DEF JoinsOne
      <4> QED
        BY <1>2, <1>3, <2>1, <2>2, <4>1, TraceJoin
    <3> QED
      BY <1>2, <1>5, <3>1
  <2> QED
    BY <2>1, <2>3, <2>4
<1> QED
  BY <1>4, <1>5

LEMMA TraceAlarm ==
    ASSUME IInv, DataIInv, ImportAlarm, NEW o, NEW m, NEW n, Added(o, m, n)
    PROVE  \E o2 : Added(o2, m, n + 1)'
<1>1. /\ pc = "alarms" /\ pc' = "alarms" /\ i' = i + 1 /\ status' = status /\ record' = record
      /\ i <= Len(record.alarms)
      /\ dive' = [dive EXCEPT !.samples = AddBuzzer(dive.samples, record.alarms[i])]
  BY DEF ImportAlarm, Advance, given
<1>2. record \in Records /\ i \in Nat \ {0} /\ status = "pending"
  BY <1>1 DEF IInv, Done
<1>3. /\ n = i - 1 /\ n + 1 = i /\ m = Len(record.reports) /\ n \in Nat /\ record.uwatec
      /\ Traced(record, dive.samples, Origins(record, m, n), o)
  BY <1>1, <1>2 DEF Added
<1>4. Len(record.alarms) \in Nat /\ m \in Nat /\ i \in 1..Len(record.alarms)
      /\ record.alarms[i].time \in Nat
  BY <1>1, <1>2, <1>3, RecordFacts
<1>5. dive.samples \in Seq(SampleT)
  BY DEF DataIInv
<1>6. dive'.samples = AddBuzzer(dive.samples, record.alarms[i])
  BY <1>1, SamplesSet
<1>7. /\ pc' \notin BeforeSamples /\ pc' # "samples" /\ pc' # "destroy" /\ status' # "success"
      /\ n + 1 = i' - 1 /\ m \in 0..Len(record.reports) /\ n + 1 \in 0..Len(record.alarms)
  BY <1>1, <1>2, <1>3, <1>4 DEF BeforeSamples
<1>8. PICK o2 : Traced(record, AddBuzzer(dive.samples, record.alarms[n + 1]),
                       Origins(record, m, n + 1), o2)
  BY <1>3, <1>4, <1>5, TraceBuzzer
<1>9. Added(o2, m, n + 1)'
  BY <1>1, <1>3, <1>6, <1>7, <1>8 DEF Added
<1> QED
  BY <1>9

LEMMA TraceStep ==
    ASSUME IInv, DataIInv, TraceIInv, [Next]_vars
    PROVE  TraceIInv'
<1>0. /\ record' = record /\ record \in Records /\ i \in Nat \ {0}
      /\ Len(record.reports) \in Nat /\ Len(record.alarms) \in Nat
      /\ status = "pending" <=> pc \notin Done
  BY GivenKept, RecordFacts DEF IInv
<1>1. PICK o, m, n : Added(o, m, n)
  BY DEF TraceIInv
<1>2. CASE SampleCb
  BY <1>1, <1>2, TraceReport DEF TraceIInv
<1>3. CASE ImportAlarm
  BY <1>1, <1>3, TraceAlarm DEF TraceIInv
<1>4. CASE Alloc
  <2>1. dive'.samples = <<>> /\ pc' = "parser" /\ status' = status /\ status = "pending"
    BY <1>0, <1>4 DEF Alloc, NoDive, Done
  <2>2. Origins(record, 0, 0) = {}
    BY OriginsStep
  <2>3. Added(o, 0, 0)'
    BY <1>0, <2>1, <2>2, NothingTraced DEF Added
  <2> QED
    BY <2>3 DEF TraceIInv
<1>5. CASE Write
  <2>1. /\ dive' = [dive EXCEPT !.samples = SortSamples(dive.samples)]
        /\ pc' = "written" /\ pc = "returned" /\ status' = status
    BY <1>5 DEF Write
  <2>2. dive'.samples = SortSamples(dive.samples) /\ dive.samples \in Seq(SampleT)
    BY <2>1, SamplesSet DEF DataIInv
  <2>3. PICK o2 : Traced(record, dive'.samples, Origins(record, m, n), o2)
    BY <1>1, <2>2, TraceSorted DEF Added
  <2>4. pc' \notin BeforeSamples
    BY <2>1 DEF BeforeSamples, Done
  <2>5. Added(o2, m, n)'
    BY <1>0, <1>1, <2>1, <2>3, <2>4 DEF Added
  <2> QED
    BY <2>5 DEF TraceIInv
<1>6. CASE ~SampleCb /\ ~ImportAlarm /\ ~Alloc /\ ~Write
  <2>1. dive'.samples = dive.samples
    BY <1>6, SamplesKept
  <2>2. Added(o, m, n)'
    <3>1. /\ m \in 0..Len(record.reports) /\ n \in 0..Len(record.alarms)
          /\ Traced(record, dive.samples, Origins(record, m, n), o)
      BY <1>1 DEF Added
    <3>2. pc' \in BeforeSamples => dive.samples = <<>> /\ m = 0 /\ n = 0
      BY <1>1, <1>6, SampleMoves DEF Added
    <3>3. pc' = "samples" =>
             m = i' - 1 /\ n = 0 /\ AtSamples(record, dive.samples, o, m)
      <4>1. CASE pc = "samples" /\ i' = i
        BY <1>1, <4>1 DEF Added
      <4>2. CASE pc = "gases" /\ i' = 1
        <5>1. "gases" \in BeforeSamples
          BY DEF BeforeSamples, Labels, Calls, Done
        <5>2. dive.samples = <<>> /\ m = 0 /\ n = 0
          BY <1>1, <4>2, <5>1 DEF Added
        <5>3. SampleAt(record, 0) = 0
          BY <1>0, TimesCounted
        <5> QED
          BY <4>2, <5>2, <5>3 DEF AtSamples
      <4> QED
        BY <1>6, <4>1, <4>2, SampleMoves
    <3>4. pc' = "alarms" => record.uwatec /\ m = Len(record.reports) /\ n = i' - 1
      BY <1>0, <1>1, <1>6, SampleMoves DEF Added
    <3>5. pc' = "destroy" \/ status' = "success" =>
             /\ m = Len(record.reports)
             /\ n = IF record.uwatec THEN Len(record.alarms) ELSE 0
      BY <1>0, <1>1, <1>6, SampleMoves DEF Added
    <3> QED
      BY <1>0, <2>1, <3>1, <3>2, <3>3, <3>4, <3>5 DEF Added
  <2> QED
    BY <2>2 DEF TraceIInv
<1> QED
  BY <1>2, <1>3, <1>4, <1>5, <1>6

-----------------------------------------------------------------------------
(* What is written is of the sorted dive. *)

TemperatureOf ==
    IF dive.minTemperature # <<>> THEN dive.minTemperature[1] ELSE LowestTemperature(dive.samples)

WrittenIInv ==
    pc = "written" =>
        /\ waypoints = [k \in DOMAIN dive.samples |-> CreateWaypoint(dive.samples[k], invalid)]
        /\ lowest = IF TemperatureOf > 10 THEN <<CelsiusToKelvin(TemperatureOf)>> ELSE <<>>

LEMMA WrittenLast ==
    ASSUME IInv, [Next]_vars, ~Write, pc' = "written"
    PROVE  UNCHANGED vars
<1>1. CASE Alloc \/ MakeParser
  BY <1>1 DEF Alloc, MakeParser
<1>2. CASE GetDatetime \/ GetDivetime \/ GetMaxdepth \/ GetMinTemperature \/ GetAvgdepth
  BY <1>2 DEF GetDatetime, GetDivetime, GetMaxdepth, GetMinTemperature, GetAvgdepth, Get,
              ReturnError
<1>3. CASE CountTanks \/ CountGases
  BY <1>3 DEF CountTanks, CountGases, Get, ReturnError
<1>4. CASE GetTank
  BY <1>4 DEF GetTank, Get, Advance, ReturnError
<1>5. CASE NoTankLeft \/ NoGasLeft
  BY <1>5 DEF NoTankLeft, NoGasLeft
<1>6. CASE GetGasmix
  BY <1>6 DEF GetGasmix, Advance, ReturnError
<1>7. CASE SampleCb \/ ImportAlarm
  BY <1>7 DEF SampleCb, ImportAlarm, Advance
<1>8. CASE SamplesParsed
  BY <1>8 DEF SamplesParsed, ReturnError
<1>9. CASE AlarmsImported \/ Destroy
  BY <1>9 DEF AlarmsImported, Destroy
<1> QED
  BY <1>1, <1>2, <1>3, <1>4, <1>5, <1>6, <1>7, <1>8, <1>9 DEF Next, Fields

LEMMA WrittenStep ==
    ASSUME IInv, WrittenIInv, [Next]_vars
    PROVE  WrittenIInv'
<1>1. CASE Write
  <2> DEFINE samples == SortSamples(dive.samples)
             temperature == IF dive.minTemperature # <<>> THEN dive.minTemperature[1]
                            ELSE LowestTemperature(samples)
  <2>1. /\ dive' = [dive EXCEPT !.samples = samples]
        /\ waypoints' = [k \in DOMAIN samples |-> CreateWaypoint(samples[k], invalid)]
        /\ lowest' = IF temperature > 10 THEN <<CelsiusToKelvin(temperature)>> ELSE <<>>
        /\ invalid' = invalid
    BY <1>1 DEF Write, given
  <2>2. dive'.samples = samples /\ dive'.minTemperature = dive.minTemperature
    BY <2>1, SamplesSet
  <2> HIDE DEF samples
  <2>3. TemperatureOf' = temperature
    BY <2>2 DEF TemperatureOf
  <2> HIDE DEF temperature
  <2> QED
    BY <2>1, <2>2, <2>3 DEF WrittenIInv
<1>2. CASE ~Write
  <2>1. pc' = "written" => UNCHANGED vars
    BY <1>2, WrittenLast
  <2> QED
    BY <2>1 DEF WrittenIInv, TemperatureOf, vars
<1> QED
  BY <1>1, <1>2

WriteIInv == IInv /\ DataIInv /\ TraceIInv /\ WrittenIInv

(* The subsamples of a dive are what the reports and the alarms before     *)
(* have made of it, each once and in the sample of its second, whatever    *)
(* the order of calls (sample_cb, dc2uddf.c:222-295; dif_dive_add_alarm,   *)
(* dif.c:246-268, called in dc2uddf.c:475-498; the sort, dif.c:458-480),   *)
(* and what is written is of those samples (uddf.c:367-391).               *)
THEOREM SubsamplesTraced == Spec => []WriteIInv
<1>1. Init => WriteIInv
  <2> SUFFICES ASSUME Init PROVE WriteIInv
    OBVIOUS
  <2>1. IInv /\ DataIInv /\ WrittenIInv
    BY InitIInv DEF Init, DataIInv, NoDive, WrittenIInv
  <2>2. Added(0, 0, 0)
    <3>1. dive.samples = <<>> /\ pc = "alloc" /\ status = "pending"
      BY DEF Init, NoDive
    <3>2. Origins(record, 0, 0) = {} /\ Traced(record, <<>>, {}, 0)
      BY OriginsStep, NothingTraced
    <3>3. Len(record.reports) \in Nat /\ Len(record.alarms) \in Nat
      BY <2>1, RecordFacts DEF IInv
    <3> QED
      BY <3>1, <3>2, <3>3 DEF Added
  <2> QED
    BY <2>1, <2>2 DEF WriteIInv, TraceIInv
<1>2. WriteIInv /\ [Next]_vars => WriteIInv'
  BY Inductive, DataNext, TraceStep, WrittenStep DEF WriteIInv
<1> QED
  BY <1>1, <1>2, PTL DEF Spec

-----------------------------------------------------------------------------
(* One sample. *)

(* What a subsample comes from. *)
LEMMA OriginOf ==
    ASSUME NEW r \in Records, NEW m \in 0..Len(r.reports), NEW n \in 0..Len(r.alarms),
           NEW j \in Origins(r, m, n), NEW t, NEW s, IsOf(r, j, t, s)
    PROVE  \/ /\ j > 0 /\ j \in 1..m /\ j \in 1..Len(r.reports)
              /\ r.reports[j].type \in SampleTypes /\ r.reports[j] \in Report
              /\ s = Translated(r.reports[j]) /\ s.type = r.reports[j].type
              /\ t = SecondAt(r, j)
           \/ /\ ~(j > 0) /\ -j \in 1..n /\ -j \in 1..Len(r.alarms) /\ LevelAt(r, -j) # 0
              /\ s = AlarmSubsample("error", LevelAt(r, -j)) /\ s.type = "alarm"
              /\ t = r.alarms[-j].time
<1>1. Len(r.reports) \in Nat /\ Len(r.alarms) \in Nat
      /\ \A k \in 1..Len(r.reports) : r.reports[k] \in Report
  BY RecordFacts
<1>2. CASE j \in 1..m /\ r.reports[j].type \in SampleTypes
  <2>1. j > 0 /\ j \in 1..Len(r.reports)
    BY <1>1, <1>2
  <2>2. s = Translated(r.reports[j]) /\ t = SecondAt(r, j)
    BY <2>1 DEF IsOf
  <2>3. Translated(r.reports[j]).type = r.reports[j].type
    BY DEF Translated, EventSubsample, Subsample
  <2> QED
    BY <1>1, <1>2, <2>1, <2>2, <2>3
<1>3. CASE j \in (-n)..(-1) /\ LevelAt(r, -j) # 0
  <2>1. ~(j > 0) /\ -j \in 1..n /\ -j \in 1..Len(r.alarms)
    BY <1>1, <1>3
  <2>2. s = AlarmSubsample("error", LevelAt(r, -j)) /\ t = r.alarms[-j].time
    BY <2>1 DEF IsOf
  <2>3. s.type = "alarm"
    BY <2>2 DEF AlarmSubsample
  <2> QED
    BY <1>3, <2>1, <2>2, <2>3
<1> QED
  BY <1>2, <1>3 DEF Origins

(* A sample has one value of a kind, but pressures, events and alarms.     *)
OneEach(sample) ==
    \A a, b \in 1..Len(sample.subsamples) :
        a # b /\ sample.subsamples[a].type = sample.subsamples[b].type
        => sample.subsamples[a].type \in {"pressure", "event", "vendor", "alarm"}

LEMMA OneOfKind ==
    ASSUME NEW r \in Records, NEW m \in 0..Len(r.reports), NEW n \in 0..Len(r.alarms),
           NEW samples, NEW o, Traced(r, samples, Origins(r, m, n), o),
           NEW w \in 1..Len(samples), NEW a \in Places(samples, w), NEW b \in Places(samples, w),
           a # b, samples[w].subsamples[a].type = samples[w].subsamples[b].type
    PROVE  samples[w].subsamples[a].type \in {"pressure", "event", "vendor", "alarm"}
<1> DEFINE s == samples[w].subsamples[a]
           u == samples[w].subsamples[b]
           j == o[w][a]
           l == o[w][b]
           t == samples[w].time
<1>1. /\ j \in Origins(r, m, n) /\ IsOf(r, j, t, s)
      /\ l \in Origins(r, m, n) /\ IsOf(r, l, t, u)
  BY DEF Traced, TracedEach
<1>2. j # l /\ Together(r, j, l)
  BY DEF Traced, TracedTogether, TracedOnce
<1>3. s.type = u.type
  OBVIOUS
<1> HIDE DEF s, u, j, l, t
<1>4. \/ j \in 1..Len(r.reports) /\ j > 0 /\ r.reports[j].type \in SampleTypes
         /\ s.type = r.reports[j].type
      \/ s.type = "alarm"
  BY <1>1, OriginOf
<1>5. \/ l \in 1..Len(r.reports) /\ l > 0 /\ r.reports[l].type \in SampleTypes
         /\ u.type = r.reports[l].type
      \/ u.type = "alarm"
  BY <1>1, OriginOf
<1>6. CASE s.type = "alarm"
  BY <1>6 DEF s
<1>7. CASE s.type # "alarm"
  <2>1. /\ j \in 1..Len(r.reports) /\ l \in 1..Len(r.reports)
        /\ r.reports[j].type = r.reports[l].type /\ s.type = r.reports[j].type
        /\ r.reports[j].type \in SampleTypes /\ SampleAt(r, j) = SampleAt(r, l)
    BY <1>2, <1>3, <1>4, <1>5, <1>7 DEF Together
  <2>2. CASE j < l
    BY <2>1, <2>2, OnceInSample DEF s
  <2>3. CASE l < j
    BY <2>1, <2>3, OnceInSample DEF s
  <2>4. j < l \/ l < j
    BY <1>2, <2>1, RecordFacts
  <2> QED
    BY <2>2, <2>3, <2>4
<1> QED
  BY <1>6, <1>7

LEMMA EachOnce ==
    ASSUME NEW r \in Records, NEW m \in 0..Len(r.reports), NEW n \in 0..Len(r.alarms),
           NEW samples, NEW o, Traced(r, samples, Origins(r, m, n), o),
           NEW w \in 1..Len(samples)
    PROVE  OneEach(samples[w])
<1> SUFFICES ASSUME NEW a \in Places(samples, w), NEW b \in Places(samples, w), a # b,
                    samples[w].subsamples[a].type = samples[w].subsamples[b].type
             PROVE  samples[w].subsamples[a].type \in {"pressure", "event", "vendor", "alarm"}
  BY DEF OneEach, Places
<1> QED
  BY OneOfKind

LEMMA NamesOf ==
    ASSUME NEW s, s.type \in Kinds \ {"vendor"}
    PROVE  /\ NameOf(s) \in DOMAIN Spots \ {"divetime"}
           /\ NameOf(s) = "setmarker" <=> IsBookmark(s)
           /\ NameOf(s) = "temperature" <=> s.type = "temperature"
BY DEF NameOf, IsBookmark, ElementName, Spots, Kinds

LEMMA KindOfName ==
    ASSUME NEW s, NEW u, s.type \in Kinds \ {"vendor"}, u.type \in Kinds \ {"vendor"},
           NameOf(s) = NameOf(u), NameOf(s) \notin {"alarm", "setmarker"}
    PROVE  s.type = u.type /\ s.type \notin {"event", "alarm"}
BY DEF NameOf, IsBookmark, ElementName, Kinds

(* An element of a waypoint, if none are written that are not of the       *)
(* schema.                                                                 *)
ComesFrom(list, k, subsamples, n) ==
    \/ n = 0 /\ list[k].name = "divetime"
    \/ /\ n \in 1..Len(subsamples) /\ n # 0 /\ IsShown(subsamples, n)
       /\ subsamples[n].type \in Kinds \ {"vendor"}
       /\ ~IsExtra(list[k]) /\ list[k].name = NameOf(subsamples[n])

LEMMA ElementOf ==
    ASSUME NEW sample \in SampleT, NEW list, NEW q, NEW inv, inv = FALSE,
           WrittenFrom(list, sample, inv, Len(sample.subsamples), q)
    PROVE  \A k \in 1..Len(list) : ComesFrom(list, k, sample.subsamples, q[k])
<1> SUFFICES ASSUME NEW k \in 1..Len(list)
             PROVE  ComesFrom(list, k, sample.subsamples, q[k])
  OBVIOUS
<1>1. q[k] \in 0..Len(sample.subsamples)
  BY DEF WrittenFrom
<1>2. CASE q[k] = 0 /\ list[k] = Element("divetime", sample.time)
  BY <1>2 DEF Element, ComesFrom
<1>3. CASE /\ q[k] # 0 /\ IsShown(sample.subsamples, q[k])
           /\ list[k] = ShownAs(sample.subsamples[q[k]])
  <2>1. q[k] \in 1..Len(sample.subsamples)
    BY <1>1, <1>3, SubsampleOf
  <2>2. sample.subsamples[q[k]] \in DiveSubsample
    BY <2>1, SubsampleOf
  <2>3. /\ sample.subsamples[q[k]].type \in Kinds \ {"vendor"}
        /\ ~IsExtra(list[k]) /\ list[k].name = NameOf(sample.subsamples[q[k]])
    BY <1>3, <2>2, KindsOf, ShownIs DEF IsShown
  <2> QED
    BY <1>3, <2>1, <2>3 DEF ComesFrom
<1> QED
  BY <1>2, <1>3 DEF WrittenFrom

LEMMA NamedOnce ==
    ASSUME NEW sample \in SampleT, OneEach(sample), NEW list, NEW q, NEW inv, inv = FALSE,
           WrittenFrom(list, sample, inv, Len(sample.subsamples), q)
    PROVE  \A k, l \in 1..Len(list) :
              k # l /\ list[k].name = list[l].name => list[k].name \in Unbounded
<1> SUFFICES ASSUME NEW k \in 1..Len(list), NEW l \in 1..Len(list), k # l,
                    list[k].name = list[l].name
             PROVE  list[k].name \in Unbounded
  OBVIOUS
<1> DEFINE subs == sample.subsamples
           a == q[k]
           b == q[l]
<1>1. ComesFrom(list, k, subs, a) /\ ComesFrom(list, l, subs, b)
  <2>1. \A y \in 1..Len(list) : ComesFrom(list, y, sample.subsamples, q[y])
    BY ElementOf
  <2> QED
    BY <2>1
<1>2. a = b => IsExtra(list[k]) \/ IsExtra(list[l])
  BY DEF WrittenFrom
<1>3. \A y \in {k, l} : list[y].name = "divetime" => ~IsExtra(list[y])
  BY DEF IsExtra
<1>4. a # b
  BY <1>1, <1>2, <1>3 DEF ComesFrom
<1>5. Len(subs) \in Nat
  BY SubsampleOf
<1> HIDE DEF a, b, subs
<1>6. /\ a \in 1..Len(subs) /\ IsShown(subs, a) /\ subs[a].type \in Kinds \ {"vendor"}
      /\ list[k].name = NameOf(subs[a])
      /\ b \in 1..Len(subs) /\ IsShown(subs, b) /\ subs[b].type \in Kinds \ {"vendor"}
      /\ list[l].name = NameOf(subs[b])
  <2>1. ASSUME NEW x \in 1..Len(subs), NEW y \in {k, l}, subs[x].type \in Kinds \ {"vendor"},
               list[y].name = NameOf(subs[x])
        PROVE  list[y].name # "divetime"
    BY <2>1, NamesOf
  <2> QED
    BY <1>1, <1>4, <2>1 DEF ComesFrom
<1>7. NameOf(subs[a]) = NameOf(subs[b])
  BY <1>6
<1>8. CASE NameOf(subs[a]) = "setmarker"
  <2>1. IsBookmark(subs[a]) /\ IsBookmark(subs[b])
    BY <1>6, <1>7, <1>8, NamesOf
  <2>2. \A x \in 1..Len(subs) : IsShown(subs, x) /\ IsBookmark(subs[x]) =>
           ~\E y \in 1..(x - 1) : IsBookmark(subs[y])
    BY DEF IsShown, Shows, IsBookmark
  <2>3. a \in 1..(b - 1) \/ b \in 1..(a - 1)
    BY <1>4, <1>5, <1>6
  <2> QED
    BY <1>6, <2>1, <2>2, <2>3
<1>9. CASE NameOf(subs[a]) \notin {"alarm", "setmarker"}
  <2>1. subs[a].type = subs[b].type /\ subs[a].type \notin {"event", "alarm", "vendor"}
    BY <1>6, <1>7, <1>9, KindOfName
  <2>2. subs[a].type \in {"pressure", "event", "vendor", "alarm"}
    BY <1>4, <1>6, <2>1 DEF OneEach, subs
  <2>4. subs[a].type = "pressure"
    BY <2>1, <2>2
  <2> QED
    BY <1>6, <2>4 DEF NameOf, IsBookmark, ElementName, Unbounded
<1> QED
  BY <1>6, <1>8, <1>9 DEF Unbounded

(* The waypoints that have been written. *)
LEMMA WaypointOf ==
    ASSUME WriteIInv, pc = "written"
    PROVE  /\ DOMAIN waypoints = 1..Len(dive.samples) /\ dive.samples \in Seq(SampleT)
           /\ invalid \in BOOLEAN
           /\ \A w \in 1..Len(dive.samples) :
                 /\ dive.samples[w] \in SampleT
                 /\ \E q : WrittenFrom(waypoints[w], dive.samples[w], invalid,
                                       Len(dive.samples[w].subsamples), q)
                 /\ \A k, l \in 1..Len(waypoints[w]) :
                       k < l => Rank(waypoints[w][k]) <= Rank(waypoints[w][l])
<1>1. /\ dive.samples \in Seq(SampleT) /\ invalid \in BOOLEAN
      /\ waypoints = [k \in DOMAIN dive.samples |-> CreateWaypoint(dive.samples[k], invalid)]
  BY InvalidAssumption DEF WriteIInv, DataIInv, WrittenIInv
<1>2. DOMAIN dive.samples = 1..Len(dive.samples)
      /\ \A w \in 1..Len(dive.samples) : dive.samples[w] \in SampleT
  <2> HIDE DEF SampleT
  <2> QED
    BY <1>1
<1>3. DOMAIN waypoints = 1..Len(dive.samples)
      /\ \A w \in 1..Len(dive.samples) : waypoints[w] = CreateWaypoint(dive.samples[w], invalid)
  BY <1>1, <1>2
<1>4. ASSUME NEW w \in 1..Len(dive.samples)
      PROVE  /\ \E q : WrittenFrom(waypoints[w], dive.samples[w], invalid,
                                   Len(dive.samples[w].subsamples), q)
             /\ \A k, l \in 1..Len(waypoints[w]) :
                   k < l => Rank(waypoints[w][k]) <= Rank(waypoints[w][l])
  BY <1>1, <1>2, <1>3, WaypointIs
<1> QED
  BY <1>1, <1>2, <1>3, <1>4

PlaceOf(element) == Spot(SchemaOrder, element.name)

Conforming(list) ==
    \A k \in 1..Len(list) :
        /\ PlaceOf(list[k]) # 0
        /\ \A l \in 1..(k - 1) :
              \/ PlaceOf(list[l]) < PlaceOf(list[k])
              \/ PlaceOf(list[l]) = PlaceOf(list[k]) /\ list[k].name \in Unbounded

LEMMA InOrder ==
    ASSUME NEW sample \in SampleT, OneEach(sample), NEW list, NEW q, NEW inv, inv = FALSE,
           WrittenFrom(list, sample, inv, Len(sample.subsamples), q),
           \A x, y \in 1..Len(list) : x < y => Rank(list[x]) <= Rank(list[y])
    PROVE  Conforming(list)
<1>1. Len(list) \in Nat
  <2>1. list \in Seq(ElementT)
    BY DEF WrittenFrom
  <2> HIDE DEF ElementT
  <2> QED
    BY <2>1
<1>2. \A k, l \in 1..Len(list) :
         k # l /\ list[k].name = list[l].name => list[k].name \in Unbounded
  BY NamedOnce
<1>3. ASSUME NEW x \in 1..Len(list) PROVE list[x].name \in DOMAIN Spots
  <2>1. "divetime" \in DOMAIN Spots
    BY DEF Spots
  <2>2. \/ list[x].name = "divetime"
        \/ /\ sample.subsamples[q[x]].type \in Kinds \ {"vendor"}
           /\ list[x].name = NameOf(sample.subsamples[q[x]])
    <3>1. \A y \in 1..Len(list) : ComesFrom(list, y, sample.subsamples, q[y])
      BY ElementOf
    <3> QED
      BY <3>1 DEF ComesFrom
  <2> QED
    BY <2>1, <2>2, NamesOf
<1>4. \A x \in 1..Len(list) : PlaceOf(list[x]) = Spots[list[x].name][2]
                              /\ PlaceOf(list[x]) \in 1..9
  BY <1>3, PlaceIs, SpotsAgree DEF PlaceOf
<1>5. ASSUME NEW k \in 1..Len(list), NEW l \in 1..(k - 1)
      PROVE  \/ PlaceOf(list[l]) < PlaceOf(list[k])
             \/ PlaceOf(list[l]) = PlaceOf(list[k]) /\ list[k].name \in Unbounded
  <2>1. l \in 1..Len(list) /\ l < k /\ k # l
    BY <1>1
  <2>2. Rank(list[l]) <= Rank(list[k])
    BY <2>1
  <2>3. Spots[list[l].name][1] <= Spots[list[k].name][1]
    BY <1>3, <2>1, <2>2, RankIs
  <2>4. CASE list[l].name = list[k].name
    <3>1. list[k].name \in Unbounded
      BY <1>2, <2>1, <2>4
    <3> QED
      BY <1>4, <2>1, <2>4, <3>1
  <2>5. CASE list[l].name # list[k].name
    <3>1. Spots[list[l].name][2] < Spots[list[k].name][2]
      BY <1>3, <2>1, <2>3, <2>5, SpotsAgree
    <3> QED
      BY <1>4, <2>1, <3>1
  <2> QED
    BY <2>4, <2>5
<1>6. ASSUME NEW k \in 1..Len(list) PROVE PlaceOf(list[k]) # 0
  <2>1. PlaceOf(list[k]) \in 1..9
    BY <1>4
  <2> QED
    BY <2>1
<1> QED
  BY <1>5, <1>6 DEF Conforming

(* The children of every waypoint are in the order of the schema, and only *)
(* alarms and tank pressures are repeated, whatever the reports, their     *)
(* order and the alarms added afterwards (_createWaypoint, uddf.c:136-311: *)
(* one marker, and of the other values the one that the sample has).       *)
THEOREM Conforms == Spec => []WaypointsConform
<1>1. ASSUME WriteIInv PROVE WaypointsConform
  <2> DEFINE Place(w, k) == SelectInSeq(SchemaOrder, LAMBDA n : n = waypoints[w][k].name)
  <2> SUFFICES ASSUME pc = "written", ~invalid, NEW w \in DOMAIN waypoints,
                      NEW k \in DOMAIN waypoints[w]
               PROVE  /\ Place(w, k) # 0
                      /\ \A l \in 1..(k - 1) :
                            \/ Place(w, l) < Place(w, k)
                            \/ /\ Place(w, l) = Place(w, k)
                               /\ waypoints[w][k].name \in Unbounded
    BY Zenon DEF WaypointsConform
  <2>1. \A l : Place(w, l) = PlaceOf(waypoints[w][l])
    BY DEF SelectInSeq, Spot, PlaceOf
  <2> HIDE DEF Place
  <2>2. /\ w \in 1..Len(dive.samples) /\ dive.samples \in Seq(SampleT)
        /\ \A x, y \in 1..Len(waypoints[w]) :
              x < y => Rank(waypoints[w][x]) <= Rank(waypoints[w][y])
    BY <1>1, WaypointOf
  <2>3. PICK q : WrittenFrom(waypoints[w], dive.samples[w], invalid,
                             Len(dive.samples[w].subsamples), q)
    BY <1>1, <2>2, WaypointOf
  <2>4. PICK o, m, n : /\ m \in 0..Len(record.reports) /\ n \in 0..Len(record.alarms)
                       /\ Traced(record, dive.samples, Origins(record, m, n), o)
    BY <1>1 DEF WriteIInv, TraceIInv, Added
  <2>5. record \in Records
    BY <1>1 DEF WriteIInv, IInv
  <2>6. Conforming(waypoints[w])
    <3>1. OneEach(dive.samples[w])
      BY <2>2, <2>4, <2>5, EachOnce
    <3>2. dive.samples[w] \in SampleT
      BY <1>1, <2>2, WaypointOf
    <3>3. invalid = FALSE
      BY <1>1, WaypointOf
    <3> QED
      BY <2>2, <2>3, <3>1, <3>2, <3>3, InOrder
  <2>7. DOMAIN waypoints[w] = 1..Len(waypoints[w])
    <3>1. waypoints[w] \in Seq(ElementT)
      BY <2>3 DEF WrittenFrom
    <3> HIDE DEF ElementT
    <3> QED
      BY <3>1
  <2> QED
    BY <2>1, <2>6, <2>7 DEF Conforming
<1> QED
  BY <1>1, SubsamplesTraced, PTL

-----------------------------------------------------------------------------
(* The lowest temperature. *)

(* A sample has one temperature at most, the one that is found.            *)
LEMMA TemperatureIs ==
    ASSUME NEW sample \in SampleT, OneEach(sample)
    PROVE  LET warm == {a \in 1..Len(sample.subsamples) :
                           sample.subsamples[a].type = "temperature"}
           IN  \/ warm = {} /\ Temperature(sample) = <<>>
               \/ \E a : /\ warm = {a} /\ sample.subsamples[a].value \in Int
                         /\ Temperature(sample) = <<sample.subsamples[a].value>>
<1> DEFINE subs == sample.subsamples
           warm == {a \in 1..Len(subs) : subs[a].type = "temperature"}
           found == SelectInSeq(subs, LAMBDA s : s.type = "temperature")
<1>1. found = IF warm # {} THEN Min(warm) ELSE 0
  BY DEF SelectInSeq
<1>2. Temperature(sample) = IF found = 0 THEN <<>> ELSE <<subs[found].value>>
  BY DEF Temperature
<1>3. \A a, b \in warm : a = b
  BY DEF OneEach
<1>4. \A a \in warm : /\ a \in 1..Len(subs) /\ subs[a].value \in Int
                      /\ a # 0 /\ a \in Nat
  <2> SUFFICES ASSUME NEW a \in warm
               PROVE  a \in 1..Len(subs) /\ subs[a].value \in Int /\ a # 0 /\ a \in Nat
    OBVIOUS
  <2>1. a \in 1..Len(subs) /\ subs[a].type = "temperature" /\ Len(subs) \in Nat
    BY SubsampleOf
  <2>2. subs[a] \in DiveSubsample
    BY <2>1, SubsampleOf
  <2> QED
    BY <2>1, <2>2, KindsOf
<1> HIDE DEF found, warm, subs
<1>5. CASE warm = {}
  BY <1>1, <1>2, <1>5 DEF warm, subs
<1>6. CASE warm # {}
  <2>1. PICK a : a \in warm
    BY <1>6
  <2>2. warm = {a} /\ a \in Nat /\ a # 0 /\ subs[a].value \in Int
    BY <1>3, <1>4, <2>1
  <2>3. Min({a}) = a
    BY <2>2, FirstOf
  <2>4. found = a
    BY <1>1, <1>6, <2>2, <2>3
  <2>5. Temperature(sample) = <<subs[a].value>>
    BY <1>2, <2>2, <2>4
  <2> QED
    BY <2>2, <2>5 DEF warm, subs
<1> QED
  BY <1>5, <1>6

ReadIn(list) == {e.value : e \in {x \in ToSet(list) : x.name = "temperature"}}

ReadOf(sample) ==
    IF Temperature(sample) = <<>> THEN {} ELSE {CelsiusToKelvin(Temperature(sample)[1])}

LEMMA ReadIs ==
    ASSUME NEW sample \in SampleT, OneEach(sample), NEW list, NEW q, NEW inv,
           WrittenFrom(list, sample, inv, Len(sample.subsamples), q)
    PROVE  ReadIn(list) = ReadOf(sample)
<1> DEFINE subs == sample.subsamples
           warm == {a \in 1..Len(subs) : subs[a].type = "temperature"}
           shown == {CelsiusToKelvin(subs[a].value) : a \in warm}
<1>1. DOMAIN list = 1..Len(list)
  <2>1. list \in Seq(ElementT)
    BY DEF WrittenFrom
  <2> HIDE DEF ElementT
  <2> QED
    BY <2>1
<1>2. \A a \in warm : /\ ShownAs(subs[a]).name = "temperature"
                      /\ ShownAs(subs[a]).value = CelsiusToKelvin(subs[a].value)
                      /\ IsShown(subs, a)
  <2> SUFFICES ASSUME NEW a \in 1..Len(subs), subs[a].type = "temperature"
               PROVE  /\ ShownAs(subs[a]).name = "temperature"
                      /\ ShownAs(subs[a]).value = CelsiusToKelvin(subs[a].value)
                      /\ IsShown(subs, a)
    OBVIOUS
  <2> DEFINE v == CelsiusToKelvin(subs[a].value)
  <2>1. ShownAs(subs[a]) = [name |-> "temperature", value |-> v]
    BY DEF ShownAs, NameOf, IsBookmark, ElementName, Element
  <2>2. IsShown(subs, a)
    BY DEF IsShown, Shows
  <2> HIDE DEF v
  <2>3. ShownAs(subs[a]).name = "temperature" /\ ShownAs(subs[a]).value = v
    BY <2>1
  <2> QED
    BY <2>2, <2>3 DEF v
<1>3. ASSUME NEW k \in 1..Len(list), list[k].name = "temperature"
      PROVE  list[k].value \in shown
  <2>1. q[k] \in 0..Len(subs)
    BY DEF WrittenFrom
  <2>2. list[k] # Element("divetime", sample.time) /\ ~IsExtra(list[k])
    BY <1>3 DEF Element, IsExtra
  <2>3. q[k] # 0 /\ IsShown(subs, q[k]) /\ list[k] = ShownAs(subs[q[k]])
    BY <2>2 DEF WrittenFrom
  <2>4. q[k] \in 1..Len(subs) /\ subs[q[k]] \in DiveSubsample
    BY <2>1, <2>3, SubsampleOf
  <2>5. /\ list[k].name = NameOf(subs[q[k]]) /\ subs[q[k]].type \in Kinds \ {"vendor"}
    BY <2>3, <2>4, KindsOf, ShownIs DEF IsShown
  <2>6. subs[q[k]].type = "temperature"
    BY <1>3, <2>5, NamesOf
  <2>7. q[k] \in warm
    BY <2>4, <2>6
  <2>8. list[k].value = CelsiusToKelvin(subs[q[k]].value)
    BY <1>2, <2>3, <2>7
  <2> QED
    BY <2>7, <2>8
<1>4. ASSUME NEW a \in warm
      PROVE  \E k \in 1..Len(list) : /\ list[k].name = "temperature"
                                     /\ list[k].value = CelsiusToKelvin(subs[a].value)
  <2>1. PICK k \in 1..Len(list) : list[k] = ShownAs(subs[a])
    BY <1>2 DEF WrittenFrom
  <2> QED
    BY <1>2, <2>1
<1>5. ToSet(list) = {list[k] : k \in 1..Len(list)}
  BY <1>1 DEF ToSet
<1>6. ReadIn(list) = shown
  <2> HIDE DEF warm, subs
  <2> QED
    BY <1>3, <1>4, <1>5 DEF ReadIn
<1>7. CASE warm = {} /\ Temperature(sample) = <<>>
  BY <1>6, <1>7 DEF ReadOf
<1>8. ASSUME NEW a, warm = {a}, Temperature(sample) = <<subs[a].value>>
      PROVE  ReadIn(list) = ReadOf(sample)
  <2> HIDE DEF warm
  <2>1. shown = {CelsiusToKelvin(subs[a].value)}
    BY <1>8
  <2>2. <<subs[a].value>> # <<>> /\ <<subs[a].value>>[1] = subs[a].value
    OBVIOUS
  <2> QED
    BY <1>6, <1>8, <2>1, <2>2 DEF ReadOf
<1> QED
  BY <1>7, <1>8, TemperatureIs

(* What is written of the lowest of the readings above 0.1 degrees.        *)
LEMMA LowestIs ==
    ASSUME NEW samples \in Seq(SampleT), NEW list, DOMAIN list = 1..Len(samples),
           \A w \in 1..Len(samples) : OneEach(samples[w]) /\ ReadIn(list[w]) = ReadOf(samples[w])
    PROVE  LET shown == {v \in UNION {ReadIn(list[w]) : w \in DOMAIN list} :
                            v > CelsiusToKelvin(10)}
               t == LowestTemperature(samples)
           IN  IF shown = {} THEN t = 0
               ELSE t > 10 /\ Min(shown) = CelsiusToKelvin(t)
<1> DEFINE n == Len(samples)
           T(w) == Temperature(samples[w])
           R == {w \in 1..n : T(w) # <<>> /\ T(w)[1] > 10}
           V == {T(w)[1] : w \in R}
           t == LowestTemperature(samples)
           read == UNION {ReadIn(list[w]) : w \in DOMAIN list}
           shown == {v \in read : v > CelsiusToKelvin(10)}
<1>1. DOMAIN samples = 1..n /\ \A w \in 1..n : samples[w] \in SampleT
  <2> HIDE DEF SampleT
  <2> QED
    OBVIOUS
<1>2. t = IF R = {} THEN 0 ELSE Min(V)
  BY <1>1, Zenon DEF LowestTemperature
<1>3. \A w \in 1..n : T(w) # <<>> => T(w)[1] \in Int
  <2> SUFFICES ASSUME NEW w \in 1..n, T(w) # <<>> PROVE T(w)[1] \in Int
    OBVIOUS
  <2>1. samples[w] \in SampleT /\ OneEach(samples[w])
    BY <1>1
  <2>2. \E a : samples[w].subsamples[a].value \in Int /\ T(w) = <<samples[w].subsamples[a].value>>
    BY <2>1, TemperatureIs
  <2> QED
    BY <2>2
<1>4. \A v : v \in read <=> \E w \in 1..n : T(w) # <<>> /\ v = T(w)[1] + 27315
  <2>1. \A w \in 1..n : ReadIn(list[w]) = ReadOf(samples[w])
    OBVIOUS
  <2>2. \A v : v \in read <=> \E w \in 1..n : v \in ReadIn(list[w])
    OBVIOUS
  <2> HIDE DEF T, read
  <2>4. ASSUME NEW v, NEW w \in 1..n
        PROVE  v \in ReadIn(list[w]) <=> T(w) # <<>> /\ v = T(w)[1] + 27315
    <3>1. ReadIn(list[w]) = ReadOf(samples[w])
      BY <2>1
    <3>2. CASE T(w) = <<>>
      <4>1. ReadOf(samples[w]) = {}
        BY <3>2 DEF ReadOf, T
      <4> QED
        BY <3>1, <3>2, <4>1
    <3>3. CASE T(w) # <<>>
      <4>1. ReadOf(samples[w]) = {T(w)[1] + 27315}
        BY <3>3 DEF ReadOf, CelsiusToKelvin, T
      <4> QED
        BY <3>1, <3>3, <4>1
    <3> QED
      BY <3>2, <3>3
  <2> QED
    BY <2>2, <2>4
<1> HIDE DEF T, t, read
<1>5. shown = {x + 27315 : x \in V}
  <2>1. CelsiusToKelvin(10) = 27325
    BY DEF CelsiusToKelvin
  <2> QED
    BY <1>3, <1>4, <2>1
<1>6. V \in SUBSET Nat /\ \A x \in V : x > 10
  BY <1>3
<1>7. V = {} <=> R = {}
  OBVIOUS
<1> HIDE DEF V, R, shown
<1>8. CASE V = {}
  <2>1. shown = {} /\ t = 0
    BY <1>2, <1>5, <1>7, <1>8
  <2> QED
    BY <2>1 DEF shown, t, read
<1>9. CASE V # {}
  <2>1. PICK x \in V : \A y \in V : x <= y
    BY <1>6, <1>9, LeastNat
  <2>2. Min(V) = x
    BY <1>6, <2>1, FirstOf
  <2>3. t = x /\ x > 10 /\ x \in Nat
    BY <1>2, <1>6, <1>7, <1>9, <2>1, <2>2
  <2> DEFINE z == x + 27315
  <2>4. shown \in SUBSET Nat /\ z \in shown /\ \A y \in shown : y >= z
    BY <1>5, <1>6, <2>1
  <2> HIDE DEF z
  <2>5. Min(shown) = z
    BY <2>4, FirstOf
  <2>6. shown # {} /\ t > 10 /\ Min(shown) = CelsiusToKelvin(t)
    BY <2>3, <2>4, <2>5 DEF CelsiusToKelvin, z
  <2> QED
    BY <2>6 DEF shown, t, read
<1> QED
  BY <1>8, <1>9

(* The lowest temperature of a dive without one of its own is written, if  *)
(* there is a reading that counts, and is the lowest of those that the     *)
(* waypoints have (dif.c:647-671, uddf.c:367-391).                         *)
THEOREM LowestIsTrue == Spec => []LowestTemperatureTrue
<1>1. ASSUME WriteIInv, pc = "written", dive.minTemperature = <<>>
      PROVE  LET shown == {v \in UNION {ReadIn(waypoints[w]) : w \in DOMAIN waypoints} :
                              v > CelsiusToKelvin(10)}
             IN  IF shown = {} THEN lowest = <<>> ELSE lowest = <<Min(shown)>>
  <2> DEFINE shown == {v \in UNION {ReadIn(waypoints[w]) : w \in DOMAIN waypoints} :
                          v > CelsiusToKelvin(10)}
             t == LowestTemperature(dive.samples)
  <2>1. lowest = IF t > 10 THEN <<CelsiusToKelvin(t)>> ELSE <<>>
    BY <1>1 DEF WriteIInv, WrittenIInv, TemperatureOf
  <2>2. record \in Records /\ dive.samples \in Seq(SampleT)
        /\ DOMAIN waypoints = 1..Len(dive.samples)
    BY <1>1, WaypointOf DEF WriteIInv, IInv
  <2>3. PICK o, m, n : /\ m \in 0..Len(record.reports) /\ n \in 0..Len(record.alarms)
                       /\ Traced(record, dive.samples, Origins(record, m, n), o)
    BY <1>1 DEF WriteIInv, TraceIInv, Added
  <2>4. ASSUME NEW w \in 1..Len(dive.samples)
        PROVE  OneEach(dive.samples[w]) /\ ReadIn(waypoints[w]) = ReadOf(dive.samples[w])
    <3>1. dive.samples[w] \in SampleT
      BY <1>1, WaypointOf
    <3>2. OneEach(dive.samples[w])
      BY <2>2, <2>3, EachOnce
    <3>3. PICK q : WrittenFrom(waypoints[w], dive.samples[w], invalid,
                               Len(dive.samples[w].subsamples), q)
      BY <1>1, WaypointOf
    <3> QED
      BY <3>1, <3>2, <3>3, ReadIs
  <2>5. IF shown = {} THEN t = 0 ELSE t > 10 /\ Min(shown) = CelsiusToKelvin(t)
    BY <2>2, <2>4, LowestIs
  <2> HIDE DEF shown, t
  <2>6. IF shown = {} THEN lowest = <<>> ELSE lowest = <<Min(shown)>>
    BY <2>1, <2>5
  <2> QED
    BY <2>6 DEF shown
<1>2. ASSUME WriteIInv PROVE LowestTemperatureTrue
  BY <1>1, <1>2 DEF LowestTemperatureTrue, ReadIn
<1> QED
  BY <1>2, SubsamplesTraced, PTL

-----------------------------------------------------------------------------
(* The alarms and markers of the waypoints. *)

Alarming(s) ==
    \/ s.type = "alarm"
    \/ s.type = "event" /\ ~IsBookmark(s) /\ EventToAlarm(s.event) # NoAlarm

LEMMA AlarmShown ==
    ASSUME NEW s, NEW marked, s.type \in Kinds \ {"vendor"}
    PROVE  /\ Alarming(s) => Shows(s, marked)
           /\ Shows(s, marked) /\ NameOf(s) = "alarm" => Alarming(s)
<1>1. CASE s.type = "event" /\ IsBookmark(s)
  BY <1>1 DEF Alarming, NameOf
<1>2. CASE s.type = "event" /\ ~IsBookmark(s)
  BY <1>2 DEF Alarming, Shows
<1>3. CASE s.type = "alarm"
  BY <1>3 DEF Alarming, Shows
<1>4. CASE s.type \notin {"event", "alarm"}
  BY <1>4 DEF Alarming, NameOf, IsBookmark, ElementName, Kinds
<1> QED
  BY <1>1, <1>2, <1>3, <1>4

(* An element that is an alarm. *)
IsAlarmOf(element, subsamples, n) ==
    /\ n \in 1..Len(subsamples) /\ Alarming(subsamples[n])
    /\ element = ShownAs(subsamples[n]) /\ ~IsExtra(element)

LEMMA AlarmFrom ==
    ASSUME NEW sample \in SampleT, NEW list, NEW inv, NEW q,
           WrittenFrom(list, sample, inv, Len(sample.subsamples), q),
           NEW k \in 1..Len(list), list[k].name = "alarm"
    PROVE  IsAlarmOf(list[k], sample.subsamples, q[k])
<1> DEFINE subs == sample.subsamples
<1>1. q[k] \in 0..Len(subs)
  BY DEF WrittenFrom
<1>2. list[k] # Element("divetime", sample.time) /\ ~IsExtra(list[k])
  BY DEF Element, IsExtra
<1>3. q[k] # 0 /\ IsShown(subs, q[k]) /\ list[k] = ShownAs(subs[q[k]])
  BY <1>2 DEF WrittenFrom
<1>4. q[k] \in 1..Len(subs) /\ subs[q[k]] \in DiveSubsample
  BY <1>1, <1>3, SubsampleOf
<1>5. NameOf(subs[q[k]]) = "alarm" /\ subs[q[k]].type \in Kinds \ {"vendor"}
  BY <1>3, <1>4, KindsOf, ShownIs DEF IsShown
<1>6. Alarming(subs[q[k]])
  BY <1>3, <1>5, AlarmShown DEF IsShown
<1> QED
  BY <1>2, <1>3, <1>4, <1>6 DEF IsAlarmOf

ElementsIn(samples, lists, t, e) ==
    UNION {{<<w, k>> : k \in {k \in DOMAIN lists[w] : lists[w][k] = e}} :
            w \in {w \in DOMAIN lists : samples[w].time = t}}

IsIn(samples, lists, t, e, w, k) ==
    w \in 1..Len(samples) /\ k \in 1..Len(lists[w]) /\ samples[w].time = t /\ lists[w][k] = e

Written(samples, lists, inv, Q) ==
    /\ DOMAIN lists = 1..Len(samples)
    /\ \A w \in 1..Len(samples) :
          /\ samples[w] \in SampleT
          /\ WrittenFrom(lists[w], samples[w], inv, Len(samples[w].subsamples), Q[w])

LEMMA InElements ==
    ASSUME NEW samples, NEW lists, NEW inv, NEW Q, Written(samples, lists, inv, Q),
           NEW t, NEW e
    PROVE  /\ \A x \in ElementsIn(samples, lists, t, e) :
                 \E w, k : x = <<w, k>> /\ IsIn(samples, lists, t, e, w, k)
           /\ \A w, k : IsIn(samples, lists, t, e, w, k) =>
                 <<w, k>> \in ElementsIn(samples, lists, t, e)
<1>1. DOMAIN lists = 1..Len(samples)
  BY DEF Written
<1>2. ASSUME NEW w \in 1..Len(samples) PROVE DOMAIN lists[w] = 1..Len(lists[w])
  <2>1. lists[w] \in Seq(ElementT)
    BY DEF Written, WrittenFrom
  <2> HIDE DEF ElementT
  <2> QED
    BY <2>1
<1>3. ASSUME NEW x \in ElementsIn(samples, lists, t, e)
      PROVE  \E w, k : x = <<w, k>> /\ IsIn(samples, lists, t, e, w, k)
  <2>1. PICK w \in DOMAIN lists : /\ samples[w].time = t
                                  /\ \E k \in DOMAIN lists[w] : lists[w][k] = e /\ x = <<w, k>>
    BY DEF ElementsIn
  <2>2. PICK k \in DOMAIN lists[w] : lists[w][k] = e /\ x = <<w, k>>
    BY <2>1
  <2> QED
    BY <1>1, <1>2, <2>1, <2>2 DEF IsIn
<1>4. ASSUME NEW w, NEW k, IsIn(samples, lists, t, e, w, k)
      PROVE  <<w, k>> \in ElementsIn(samples, lists, t, e)
  <2>1. w \in DOMAIN lists /\ samples[w].time = t /\ k \in DOMAIN lists[w] /\ lists[w][k] = e
    BY <1>1, <1>2, <1>4 DEF IsIn
  <2> QED
    BY <2>1 DEF ElementsIn
<1> QED
  BY <1>3, <1>4

TargetsOf(r, S, t, e) == {j \in S : \E s : IsOf(r, j, t, s) /\ Alarming(s) /\ ShownAs(s) = e}

(* There are as many elements of an alarm as subsamples that are shown so. *)
LEMMA AlarmsCounted ==
    ASSUME NEW r, NEW samples, NEW S, NEW o, Traced(r, samples, S, o),
           NEW lists, NEW inv, NEW Q, Written(samples, lists, inv, Q),
           NEW t, NEW e, e.name = "alarm", IsFiniteSet(S)
    PROVE  Cardinality(ElementsIn(samples, lists, t, e)) = Cardinality(TargetsOf(r, S, t, e))
<1> DEFINE E == ElementsIn(samples, lists, t, e)
           T == TargetsOf(r, S, t, e)
           f == [x \in E |-> o[x[1]][Q[x[1]][x[2]]]]
<1>1. ASSUME NEW w, NEW k, IsIn(samples, lists, t, e, w, k)
      PROVE  /\ w \in 1..Len(samples) /\ k \in 1..Len(lists[w]) /\ Q[w][k] \in Places(samples, w)
             /\ o[w][Q[w][k]] \in T /\ ~IsExtra(lists[w][k])
  <2> DEFINE a == Q[w][k]
             s == samples[w].subsamples[a]
  <2>1. /\ w \in 1..Len(samples) /\ k \in 1..Len(lists[w]) /\ samples[w].time = t
        /\ lists[w][k] = e
    BY <1>1 DEF IsIn
  <2>2. /\ samples[w] \in SampleT
        /\ WrittenFrom(lists[w], samples[w], inv, Len(samples[w].subsamples), Q[w])
    BY <2>1 DEF Written
  <2>3. /\ a \in 1..Len(samples[w].subsamples) /\ Alarming(s) /\ e = ShownAs(s)
        /\ ~IsExtra(lists[w][k])
    <3>1. IsAlarmOf(lists[w][k], samples[w].subsamples, Q[w][k])
      BY <2>1, <2>2, AlarmFrom
    <3> QED
      BY <2>1, <3>1 DEF IsAlarmOf
  <2>4. a \in Places(samples, w)
    BY <2>3 DEF Places
  <2>5. o[w][a] \in S /\ IsOf(r, o[w][a], t, s)
    BY <2>1, <2>4 DEF Traced, TracedEach
  <2> QED
    BY <2>1, <2>3, <2>4, <2>5 DEF TargetsOf
<1>2. \A x \in E : \E w, k : x = <<w, k>> /\ IsIn(samples, lists, t, e, w, k)
  BY InElements
<1>3. \A w, k : IsIn(samples, lists, t, e, w, k) => <<w, k>> \in E
  BY InElements
<1> HIDE DEF E, T
<1>4. \A w, k : <<w, k>> \in E => f[<<w, k>>] = o[w][Q[w][k]]
  OBVIOUS
<1>5. f \in [E -> T]
  <2>1. ASSUME NEW x \in E PROVE f[x] \in T
    <3>1. PICK w, k : x = <<w, k>> /\ IsIn(samples, lists, t, e, w, k)
      BY <1>2
    <3> HIDE DEF f
    <3> QED
      BY <1>1, <1>4, <3>1
  <2> QED
    BY <2>1
<1> HIDE DEF f
<1>6. ASSUME NEW x \in E, NEW y \in E, f[x] = f[y] PROVE x = y
  <2>1. PICK v, k : x = <<v, k>> /\ IsIn(samples, lists, t, e, v, k)
    BY <1>2
  <2>2. PICK w, l : y = <<w, l>> /\ IsIn(samples, lists, t, e, w, l)
    BY <1>2
  <2>3. o[v][Q[v][k]] = o[w][Q[w][l]]
    BY <1>4, <1>6, <2>1, <2>2
  <2>4. /\ v \in 1..Len(samples) /\ k \in 1..Len(lists[v]) /\ Q[v][k] \in Places(samples, v)
        /\ w \in 1..Len(samples) /\ l \in 1..Len(lists[w]) /\ Q[w][l] \in Places(samples, w)
        /\ ~IsExtra(lists[v][k]) /\ ~IsExtra(lists[w][l])
    BY <1>1, <2>1, <2>2
  <2>5. v = w /\ Q[v][k] = Q[w][l]
    BY <2>3, <2>4 DEF Traced, TracedOnce
  <2>6. k = l
    <3>1. WrittenFrom(lists[w], samples[w], inv, Len(samples[w].subsamples), Q[w])
      BY <2>4 DEF Written
    <3>2. \A a, b \in 1..Len(lists[w]) :
             a # b /\ Q[w][a] = Q[w][b] => IsExtra(lists[w][a]) \/ IsExtra(lists[w][b])
      BY <3>1 DEF WrittenFrom
    <3> QED
      BY <2>4, <2>5, <3>2
  <2> QED
    BY <2>1, <2>2, <2>5, <2>6
<1>7. ASSUME NEW j \in T PROVE \E x \in E : f[x] = j
  <2>1. PICK s : j \in S /\ IsOf(r, j, t, s) /\ Alarming(s) /\ ShownAs(s) = e
    BY DEF T, TargetsOf
  <2>2. PICK w \in 1..Len(samples) : \E a \in Places(samples, w) : o[w][a] = j
    BY <2>1 DEF Traced, TracedAll
  <2>3. PICK a \in Places(samples, w) : o[w][a] = j
    BY <2>2
  <2> DEFINE subs == samples[w].subsamples
  <2>4. IsOf(r, j, samples[w].time, subs[a])
    BY <2>3 DEF Traced, TracedEach
  <2>5. subs[a] = s /\ samples[w].time = t
    BY <2>1, <2>4 DEF IsOf
  <2>6. /\ samples[w] \in SampleT
        /\ WrittenFrom(lists[w], samples[w], inv, Len(subs), Q[w])
    BY DEF Written
  <2>7. a \in 1..Len(subs) /\ subs[a].type \in Kinds \ {"vendor"}
    <3>1. a \in 1..Len(subs)
      BY DEF Places
    <3>2. subs[a].type # "vendor"
      BY <2>1, <2>5 DEF Alarming
    <3> QED
      BY <2>6, <3>1, <3>2, SubsampleOf, KindsOf
  <2>8. IsShown(subs, a)
    BY <2>1, <2>5, <2>7, AlarmShown DEF IsShown
  <2>9. PICK k \in 1..Len(lists[w]) : Q[w][k] = a /\ lists[w][k] = ShownAs(subs[a])
    BY <2>6, <2>7, <2>8 DEF WrittenFrom
  <2>10. IsIn(samples, lists, t, e, w, k)
    BY <2>1, <2>5, <2>9 DEF IsIn
  <2>11. <<w, k>> \in E /\ f[<<w, k>>] = j
    BY <1>3, <1>4, <2>3, <2>9, <2>10
  <2> QED
    BY <2>11
<1>8. IsFiniteSet(T)
  BY FS_Subset DEF T, TargetsOf
<1>9. Cardinality(E) = Cardinality(T)
  BY <1>5, <1>6, <1>7, <1>8, SameNumber
<1> QED
  BY <1>9 DEF E, T

(* The reports of events and the alarms of a second. *)
EventsOf(r, t, events) ==
    {k \in 1..Len(r.reports) :
        /\ r.reports[k].type = "event" /\ r.reports[k].event \in events
        /\ SecondAt(r, k) = t}

BuzzesOf(r, n, t, level) == {k \in 1..n : r.alarms[k].time = t /\ LevelAt(r, k) = level}

LEMMA EventKinds ==
    ASSUME NEW event \in DifEvents \cup {"unlisted"}, NEW kind \in DOMAIN AlarmEvents
    PROVE  /\ EventToAlarm(DcToDifEvent(event)) = kind <=> event \in AlarmEvents[kind]
           /\ event \in AlarmEvents[kind] => DcToDifEvent(event) # "bookmark" /\ kind # NoAlarm
           /\ DcToDifEvent(event) = "bookmark" <=> event = "bookmark"
<1> DEFINE d == DcToDifEvent(event)
<1>1. d = IF event = "unlisted" THEN "unknown" ELSE event
  BY DEF DcToDifEvent, DifEvents
<1>2. kind \in {"ascent", "deco", "rbt", "surface", "error", "link"}
  BY DEF AlarmEvents
<1> HIDE DEF d
<1>3. EventToAlarm(d) = kind <=> event \in AlarmEvents[kind]
  <2>1. CASE kind = "ascent"
    BY <1>1, <2>1 DEF EventToAlarm, AlarmEvents, NoAlarm
  <2>2. CASE kind = "deco"
    BY <1>1, <2>2 DEF EventToAlarm, AlarmEvents, NoAlarm
  <2>3. CASE kind = "rbt"
    BY <1>1, <2>3 DEF EventToAlarm, AlarmEvents, NoAlarm
  <2>4. CASE kind = "surface"
    BY <1>1, <2>4 DEF EventToAlarm, AlarmEvents, NoAlarm
  <2>5. CASE kind = "error"
    BY <1>1, <2>5 DEF EventToAlarm, AlarmEvents, NoAlarm
  <2>6. CASE kind = "link"
    BY <1>1, <2>6 DEF EventToAlarm, AlarmEvents, NoAlarm
  <2> QED
    BY <1>2, <2>1, <2>2, <2>3, <2>4, <2>5, <2>6
<1>4. EventToAlarm("bookmark") = NoAlarm
  BY DEF EventToAlarm
<1>5. kind # NoAlarm
  BY <1>2 DEF NoAlarm
<1>6. event \in AlarmEvents[kind] => d # "bookmark"
  BY <1>3, <1>4, <1>5
<1>7. d = "bookmark" <=> event = "bookmark"
  BY <1>1
<1> QED
  BY <1>3, <1>5, <1>6, <1>7 DEF d

(* What a report of an event is. *)
LEMMA EventReport ==
    ASSUME NEW r \in Records, NEW k \in 1..Len(r.reports), r.reports[k].type = "event"
    PROVE  /\ r.reports[k].event \in DifEvents \cup {"unlisted"}
           /\ Translated(r.reports[k]) = EventSubsample(DcToDifEvent(r.reports[k].event))
           /\ k > 0 /\ "event" \in SampleTypes
<1>1. r.reports[k] \in Report /\ k > 0
  BY RecordFacts
<1>2. r.reports[k].event \in DifEvents \cup {"unlisted"}
  <2> HIDE DEF DifEvents
  <2> QED
    BY <1>1 DEF Report, SampleTypes
<1> QED
  BY <1>1, <1>2 DEF Translated, SampleTypes

LEMMA EventTargets ==
    ASSUME NEW r \in Records, NEW n \in 0..Len(r.alarms), NEW t, NEW kind \in DOMAIN AlarmEvents
    PROVE  TargetsOf(r, Origins(r, Len(r.reports), n), t, AlarmElement(kind, NoLevel))
              = EventsOf(r, t, AlarmEvents[kind])
<1> DEFINE m == Len(r.reports)
           S == Origins(r, m, n)
           e == AlarmElement(kind, NoLevel)
<1>0. m \in 0..Len(r.reports)
  BY RecordFacts
<1>1. ASSUME NEW j \in TargetsOf(r, S, t, e) PROVE j \in EventsOf(r, t, AlarmEvents[kind])
  <2>1. PICK s : j \in S /\ IsOf(r, j, t, s) /\ Alarming(s) /\ ShownAs(s) = e
    BY DEF TargetsOf
  <2>2. CASE s.type = "alarm"
    <3>1. s = AlarmSubsample("error", LevelAt(r, -j)) /\ LevelAt(r, -j) # 0
      <4>1. "alarm" \notin SampleTypes
        BY DEF SampleTypes
      <4> QED
        BY <1>0, <2>1, <2>2, <4>1, OriginOf
    <3>2. ShownAs(s) = AlarmElement("error", LevelAt(r, -j))
      BY <2>2, <3>1 DEF ShownAs, AlarmSubsample
    <3>3. AlarmElement("error", LevelAt(r, -j)).level # e.level
      BY <3>1 DEF AlarmElement, NoLevel
    <3> QED
      BY <2>1, <3>2, <3>3
  <2>3. CASE s.type = "event" /\ ~IsBookmark(s)
    <3>1. /\ j \in 1..Len(r.reports) /\ s = Translated(r.reports[j])
          /\ r.reports[j].type = "event" /\ t = SecondAt(r, j)
      BY <1>0, <2>1, <2>3, OriginOf
    <3>2. s = EventSubsample(DcToDifEvent(r.reports[j].event))
          /\ r.reports[j].event \in DifEvents \cup {"unlisted"}
      BY <3>1, EventReport
    <3>3. ShownAs(s) = AlarmElement(EventToAlarm(DcToDifEvent(r.reports[j].event)), NoLevel)
      BY <2>3, <3>2 DEF ShownAs, EventSubsample
    <3>4. EventToAlarm(DcToDifEvent(r.reports[j].event)) = kind
      <4> DEFINE x == EventToAlarm(DcToDifEvent(r.reports[j].event))
      <4>1. AlarmElement(x, NoLevel) = AlarmElement(kind, NoLevel)
        BY <2>1, <3>3
      <4> HIDE DEF x
      <4>2. AlarmElement(x, NoLevel).kind = x
        BY DEF AlarmElement
      <4>3. AlarmElement(kind, NoLevel).kind = kind
        BY DEF AlarmElement
      <4> QED
        BY <4>1, <4>2, <4>3 DEF x
    <3>5. r.reports[j].event \in AlarmEvents[kind]
      BY <3>2, <3>4, EventKinds
    <3> QED
      BY <3>1, <3>5 DEF EventsOf
  <2> QED
    BY <2>1, <2>2, <2>3 DEF Alarming
<1>2. ASSUME NEW j \in EventsOf(r, t, AlarmEvents[kind]) PROVE j \in TargetsOf(r, S, t, e)
  <2> DEFINE s == Translated(r.reports[j])
             d == DcToDifEvent(r.reports[j].event)
  <2>1. /\ j \in 1..Len(r.reports) /\ r.reports[j].type = "event"
        /\ r.reports[j].event \in AlarmEvents[kind] /\ SecondAt(r, j) = t
    BY DEF EventsOf
  <2>2. /\ r.reports[j].event \in DifEvents \cup {"unlisted"} /\ s = EventSubsample(d)
        /\ j > 0 /\ "event" \in SampleTypes
    BY <2>1, EventReport
  <2>3. EventToAlarm(d) = kind /\ d # "bookmark" /\ kind # NoAlarm
    BY <2>1, <2>2, EventKinds
  <2>4. j \in S
    BY <2>1, <2>2 DEF Origins
  <2>5. IsOf(r, j, t, s)
    BY <2>1, <2>2 DEF IsOf
  <2> HIDE DEF s, d
  <2>6. s.type = "event" /\ s.event = d /\ ~IsBookmark(s)
    BY <2>2, <2>3 DEF EventSubsample, IsBookmark
  <2>7. Alarming(s) /\ ShownAs(s) = e
    BY <2>3, <2>6 DEF Alarming, ShownAs
  <2> QED
    BY <2>4, <2>5, <2>7 DEF TargetsOf
<1> QED
  BY <1>1, <1>2

LEMMA BuzzTargets ==
    ASSUME NEW r \in Records, NEW n \in 0..Len(r.alarms), NEW t, NEW level \in {1, 2}
    PROVE  Cardinality(TargetsOf(r, Origins(r, Len(r.reports), n), t, AlarmElement("error", level)))
              = Cardinality(BuzzesOf(r, n, t, level))
<1> DEFINE m == Len(r.reports)
           S == Origins(r, m, n)
           e == AlarmElement("error", level)
           T == TargetsOf(r, S, t, e)
           B == BuzzesOf(r, n, t, level)
           f == [j \in T |-> -j]
<1>0. m \in 0..Len(r.reports) /\ n \in Nat
  BY RecordFacts
<1>1. ASSUME NEW j \in T
      PROVE  -j \in B /\ j \in Int
  <2>1. PICK s : j \in S /\ IsOf(r, j, t, s) /\ Alarming(s) /\ ShownAs(s) = e
    BY DEF TargetsOf
  <2>2. CASE s.type = "alarm"
    <3>1. /\ s = AlarmSubsample("error", LevelAt(r, -j)) /\ -j \in 1..n
          /\ t = r.alarms[-j].time
      <4>1. "alarm" \notin SampleTypes
        BY DEF SampleTypes
      <4> QED
        BY <1>0, <2>1, <2>2, <4>1, OriginOf
    <3>2. ShownAs(s) = AlarmElement("error", LevelAt(r, -j))
      BY <2>2, <3>1 DEF ShownAs, AlarmSubsample
    <3>3. \A x : AlarmElement("error", x).level = x
      BY DEF AlarmElement
    <3>4. LevelAt(r, -j) = level
      BY <2>1, <3>2, <3>3
    <3>5. j \in Int
      BY <1>0, <2>1 DEF Origins
    <3> QED
      BY <3>1, <3>4, <3>5 DEF BuzzesOf
  <2>3. CASE s.type = "event" /\ ~IsBookmark(s)
    <3>1. ShownAs(s) = AlarmElement(EventToAlarm(s.event), NoLevel)
      BY <2>3 DEF ShownAs
    <3>2. AlarmElement(EventToAlarm(s.event), NoLevel).level # e.level
      BY DEF AlarmElement, NoLevel
    <3> QED
      BY <2>1, <3>1, <3>2
  <2> QED
    BY <2>1, <2>2, <2>3 DEF Alarming
<1>2. ASSUME NEW k \in B
      PROVE  -k \in T /\ -(-k) = k
  <2>1. k \in 1..n /\ r.alarms[k].time = t /\ LevelAt(r, k) = level
    BY DEF BuzzesOf
  <2>2. -k \in (-n)..(-1) /\ -(-k) = k /\ ~(-k > 0)
    BY <1>0, <2>1
  <2> DEFINE j == -k
             s == AlarmSubsample("error", level)
  <2>3. j \in S
    BY <2>1, <2>2 DEF Origins
  <2>4. IsOf(r, j, t, s)
    BY <2>1, <2>2 DEF IsOf
  <2>5. Alarming(s) /\ ShownAs(s) = e
    BY DEF Alarming, ShownAs, AlarmSubsample
  <2> QED
    BY <2>2, <2>3, <2>4, <2>5 DEF TargetsOf
<1>3. IsFiniteSet(B)
  <2>1. IsFiniteSet(1..n) /\ B \in SUBSET (1..n)
    BY <1>0, FS_Interval DEF BuzzesOf
  <2> QED
    BY <2>1, FS_Subset
<1> HIDE DEF T, B
<1>4. f \in [T -> B]
  BY <1>1
<1>5. \A x, y \in T : f[x] = f[y] => x = y
  BY <1>1
<1>6. \A y \in B : \E x \in T : f[x] = y
  BY <1>2
<1> HIDE DEF f
<1>7. Cardinality(T) = Cardinality(B)
  BY <1>3, <1>4, <1>5, <1>6, SameNumber
<1> QED
  BY <1>7 DEF T, B

(* There is a marker in a second iff there was a bookmark in it. *)
LEMMA MarkersAre ==
    ASSUME NEW r \in Records, NEW n \in 0..Len(r.alarms), NEW samples, NEW o,
           Traced(r, samples, Origins(r, Len(r.reports), n), o),
           NEW lists, NEW inv, NEW Q, Written(samples, lists, inv, Q), NEW t
    PROVE  ElementsIn(samples, lists, t, SetMarker) = {} <=> EventsOf(r, t, {"bookmark"}) = {}
<1> DEFINE m == Len(r.reports)
           S == Origins(r, m, n)
           E == ElementsIn(samples, lists, t, SetMarker)
           B == EventsOf(r, t, {"bookmark"})
<1>0. m \in 0..Len(r.reports)
  BY RecordFacts
<1>1. ASSUME NEW w \in 1..Len(samples)
      PROVE  /\ samples[w] \in SampleT
             /\ Marked(lists[w]) <=> \E a \in Places(samples, w) : IsBookmark(samples[w].subsamples[a])
             /\ (\E a \in Places(samples, w) : IsBookmark(samples[w].subsamples[a])) =>
                   \E k \in 1..Len(lists[w]) : lists[w][k] = SetMarker
             /\ DOMAIN lists[w] = 1..Len(lists[w])
  <2>1. /\ samples[w] \in SampleT
        /\ WrittenFrom(lists[w], samples[w], inv, Len(samples[w].subsamples), Q[w])
    BY DEF Written
  <2>2. Len(samples[w].subsamples) \in 0..Len(samples[w].subsamples)
    BY <2>1, SubsampleOf
  <2>3. DOMAIN lists[w] = 1..Len(lists[w])
    <3>1. lists[w] \in Seq(ElementT)
      BY <2>1 DEF WrittenFrom
    <3> HIDE DEF ElementT
    <3> QED
      BY <3>1
  <2>4. /\ Marked(lists[w]) <=> \E a \in 1..Len(samples[w].subsamples) :
                                   IsBookmark(samples[w].subsamples[a])
        /\ (\E a \in 1..Len(samples[w].subsamples) : IsBookmark(samples[w].subsamples[a])) =>
              \E k \in 1..Len(lists[w]) : lists[w][k] = SetMarker
    <3> DEFINE sample == samples[w]
               list == lists[w]
               p == Len(sample.subsamples)
    <3>1. sample \in SampleT /\ p \in 0..Len(sample.subsamples)
          /\ WrittenFrom(list, sample, inv, p, Q[w])
      BY <2>1, <2>2
    <3> HIDE DEF sample, list, p
    <3>2. /\ Marked(list) <=> \E a \in 1..p : IsBookmark(sample.subsamples[a])
          /\ (\E a \in 1..p : IsBookmark(sample.subsamples[a])) =>
                \E k \in 1..Len(list) : list[k] = SetMarker
      BY <3>1, MarkedIff
    <3> QED
      BY <3>2 DEF sample, list, p
  <2> QED
    BY <2>1, <2>3, <2>4 DEF Places
<1>2. ASSUME NEW x \in E PROVE B # {}
  <2>1. PICK w, k : IsIn(samples, lists, t, SetMarker, w, k)
    BY InElements
  <2>2. /\ w \in 1..Len(samples) /\ k \in 1..Len(lists[w]) /\ samples[w].time = t
        /\ lists[w][k].name = "setmarker"
    BY <2>1 DEF IsIn, SetMarker
  <2>3. Marked(lists[w])
    BY <1>1, <2>2 DEF Marked
  <2>4. PICK a \in Places(samples, w) : IsBookmark(samples[w].subsamples[a])
    BY <1>1, <2>2, <2>3
  <2> DEFINE s == samples[w].subsamples[a]
             j == o[w][a]
  <2>5. j \in S /\ IsOf(r, j, t, s)
    BY <2>2 DEF Traced, TracedEach
  <2>6. s.type = "event" /\ s.event = "bookmark"
    BY <2>4 DEF IsBookmark
  <2> HIDE DEF s, j
  <2>7. /\ j \in 1..Len(r.reports) /\ r.reports[j].type = "event" /\ t = SecondAt(r, j)
        /\ s = Translated(r.reports[j])
    BY <1>0, <2>5, <2>6, OriginOf
  <2>8. s = EventSubsample(DcToDifEvent(r.reports[j].event))
        /\ r.reports[j].event \in DifEvents \cup {"unlisted"}
    BY <2>7, EventReport
  <2>9. DcToDifEvent(r.reports[j].event) = "bookmark"
    BY <2>6, <2>8 DEF EventSubsample
  <2>10. "ascent" \in DOMAIN AlarmEvents
    BY DEF AlarmEvents
  <2>11. r.reports[j].event = "bookmark"
    BY <2>8, <2>9, <2>10, EventKinds
  <2> QED
    BY <2>7, <2>11 DEF EventsOf
<1>3. ASSUME NEW j \in B PROVE E # {}
  <2>1. /\ j \in 1..Len(r.reports) /\ r.reports[j].type = "event"
        /\ r.reports[j].event = "bookmark" /\ SecondAt(r, j) = t
    BY DEF EventsOf
  <2>2. /\ Translated(r.reports[j]) = EventSubsample(DcToDifEvent("bookmark"))
        /\ j > 0 /\ "event" \in SampleTypes
    BY <2>1, EventReport
  <2>3. j \in S
    BY <2>1, <2>2 DEF Origins
  <2>4. PICK w \in 1..Len(samples) : \E a \in Places(samples, w) : o[w][a] = j
    BY <2>3 DEF Traced, TracedAll
  <2>5. PICK a \in Places(samples, w) : o[w][a] = j
    BY <2>4
  <2>6. samples[w].time = t /\ samples[w].subsamples[a] = Translated(r.reports[j])
    <3>1. IsOf(r, j, samples[w].time, samples[w].subsamples[a])
      BY <2>5 DEF Traced, TracedEach
    <3> QED
      BY <2>1, <2>2, <3>1 DEF IsOf
  <2>7. IsBookmark(samples[w].subsamples[a])
    <3>1. DcToDifEvent("bookmark") = "bookmark"
      BY DEF DcToDifEvent, DifEvents
    <3> QED
      BY <2>2, <2>6, <3>1 DEF IsBookmark, EventSubsample
  <2>8. PICK k \in 1..Len(lists[w]) : lists[w][k] = SetMarker
    BY <1>1, <2>7
  <2>9. IsIn(samples, lists, t, SetMarker, w, k)
    BY <2>6, <2>8 DEF IsIn
  <2> QED
    BY <2>9, InElements
<1> QED
  BY <1>2, <1>3

(* The alarms and markers of a second, and the reports and alarms they are *)
(* of.                                                                     *)
SignalsOf(r, n, samples, lists, t) ==
    /\ \A kind \in DOMAIN AlarmEvents :
          Cardinality(ElementsIn(samples, lists, t, AlarmElement(kind, NoLevel)))
             = Cardinality(EventsOf(r, t, AlarmEvents[kind]))
    /\ \A level \in {1, 2} :
          Cardinality(ElementsIn(samples, lists, t, AlarmElement("error", level)))
             = Cardinality(BuzzesOf(r, n, t, level))
    /\ ElementsIn(samples, lists, t, SetMarker) = {} <=> EventsOf(r, t, {"bookmark"}) = {}

LEMMA OriginsWithin ==
    ASSUME NEW r, NEW m \in Nat, NEW n \in Nat
    PROVE  Origins(r, m, n) \subseteq (-n)..m
<1>1. ASSUME NEW j \in Origins(r, m, n) PROVE j \in (-n)..m
  <2>1. j \in 1..m \/ j \in (-n)..(-1)
    BY DEF Origins
  <2> QED
    BY <2>1
<1> QED
  BY <1>1

LEMMA SignalsAre ==
    ASSUME NEW r \in Records, NEW n \in 0..Len(r.alarms), NEW samples, NEW o,
           Traced(r, samples, Origins(r, Len(r.reports), n), o),
           NEW lists, NEW inv, NEW Q, Written(samples, lists, inv, Q), NEW t
    PROVE  SignalsOf(r, n, samples, lists, t)
<1> DEFINE S == Origins(r, Len(r.reports), n)
<1>1. IsFiniteSet(S)
  <2>1. Len(r.reports) \in Nat /\ n \in Nat
    BY RecordFacts
  <2>2. S \subseteq (-n)..Len(r.reports)
    BY <2>1, OriginsWithin
  <2>3. IsFiniteSet((-n)..Len(r.reports))
    <3> DEFINE a == -n
               m == Len(r.reports)
    <3>1. a \in Int /\ m \in Int
      BY <2>1
    <3> HIDE DEF a, m
    <3>2. IsFiniteSet(a..m)
      BY <3>1, FS_Interval
    <3> QED
      BY <3>2 DEF a, m
  <2> QED
    BY <2>2, <2>3, FS_Subset
<1>2. ASSUME NEW kind, NEW level
      PROVE  Cardinality(ElementsIn(samples, lists, t, AlarmElement(kind, level)))
                = Cardinality(TargetsOf(r, S, t, AlarmElement(kind, level)))
  <2>1. AlarmElement(kind, level).name = "alarm"
    BY DEF AlarmElement
  <2> QED
    BY <1>1, <2>1, AlarmsCounted
<1>3. ASSUME NEW kind \in DOMAIN AlarmEvents
      PROVE  Cardinality(ElementsIn(samples, lists, t, AlarmElement(kind, NoLevel)))
                = Cardinality(EventsOf(r, t, AlarmEvents[kind]))
  BY <1>2, EventTargets
<1>4. ASSUME NEW level \in {1, 2}
      PROVE  Cardinality(ElementsIn(samples, lists, t, AlarmElement("error", level)))
                = Cardinality(BuzzesOf(r, n, t, level))
  BY <1>2, BuzzTargets
<1>5. ElementsIn(samples, lists, t, SetMarker) = {} <=> EventsOf(r, t, {"bookmark"}) = {}
  BY MarkersAre
<1> QED
  BY <1>3, <1>4, <1>5 DEF SignalsOf

(* Every event that the computer reports is an alarm, or the marker, of a  *)
(* waypoint of its second, every buzzer that sounded is an error of level  *)
(* 1 or 2 there, and nothing else is (dc2uddf.c:161-295 and 475-498,       *)
(* dif.c:174-268, uddf.c:136-311).                                         *)
THEOREM Signals == Spec => []SignalsWritten
<1>1. ASSUME WriteIInv, pc = "written", status = "success", NEW t
      PROVE  /\ \A kind \in DOMAIN AlarmEvents :
                   Cardinality(ElementsAt(t, AlarmElement(kind, NoLevel)))
                     = Cardinality(EventsAt(t, AlarmEvents[kind]))
             /\ \A level \in {1, 2} :
                   Cardinality(ElementsAt(t, AlarmElement("error", level)))
                     = IF record.uwatec THEN Cardinality(BuzzesAt(t, level)) ELSE 0
             /\ ElementsAt(t, SetMarker) = {} <=> EventsAt(t, {"bookmark"}) = {}
  <2>1. record \in Records
    BY <1>1 DEF WriteIInv, IInv
  <2>2. PICK o, m, n : Added(o, m, n)
    BY <1>1 DEF WriteIInv, TraceIInv
  <2>3. /\ Traced(record, dive.samples, Origins(record, Len(record.reports), n), o)
        /\ n \in 0..Len(record.alarms)
        /\ n = IF record.uwatec THEN Len(record.alarms) ELSE 0
    BY <1>1, <2>2 DEF Added
  <2> DEFINE Q == [w \in 1..Len(dive.samples) |->
                      CHOOSE q : WrittenFrom(waypoints[w], dive.samples[w], invalid,
                                             Len(dive.samples[w].subsamples), q)]
  <2>4. Written(dive.samples, waypoints, invalid, Q)
    <3>1. ASSUME NEW w \in 1..Len(dive.samples)
          PROVE  /\ dive.samples[w] \in SampleT
                 /\ WrittenFrom(waypoints[w], dive.samples[w], invalid,
                                Len(dive.samples[w].subsamples), Q[w])
      BY <1>1, WaypointOf
    <3>2. DOMAIN waypoints = 1..Len(dive.samples)
      BY <1>1, WaypointOf
    <3> HIDE DEF Q
    <3> QED
      BY <3>1, <3>2 DEF Written
  <2> HIDE DEF Q
  <2>5. SignalsOf(record, n, dive.samples, waypoints, t)
    BY <2>1, <2>3, <2>4, SignalsAre
  <2>6. \A e : ElementsAt(t, e) = ElementsIn(dive.samples, waypoints, t, e)
    BY DEF ElementsAt, ElementsIn
  <2>7. DOMAIN record.reports = 1..Len(record.reports)
        /\ DOMAIN record.alarms = 1..Len(record.alarms)
    BY <2>1, RecordFacts
  <2>8. \A events : EventsAt(t, events) = EventsOf(record, t, events)
    <3>1. \A k : Second(k) = SecondAt(record, k)
      BY DEF Second, SecondAt, TimesUpTo
    <3> QED
      BY <2>7, <3>1 DEF EventsAt, EventsOf
  <2>9. ASSUME NEW level \in {1, 2}
        PROVE  Cardinality(BuzzesOf(record, n, t, level))
                  = IF record.uwatec THEN Cardinality(BuzzesAt(t, level)) ELSE 0
    <3>1. CASE record.uwatec
      <4>1. n = Len(record.alarms)
        BY <2>3, <3>1
      <4>2. \A k : LevelAt(record, k) = level <=>
                     IF level = 2 THEN "alarm" \in record.alarms[k].bits
                     ELSE "alarm" \notin record.alarms[k].bits
                          /\ "warning" \in record.alarms[k].bits
        BY DEF LevelAt
      <4>3. BuzzesOf(record, n, t, level) = BuzzesAt(t, level)
        BY <2>7, <4>1, <4>2 DEF BuzzesOf, BuzzesAt
      <4> QED
        BY <3>1, <4>3
    <3>2. CASE ~record.uwatec
      <4>1. n = 0
        BY <2>3, <3>2
      <4>2. BuzzesOf(record, n, t, level) = {}
        BY <4>1 DEF BuzzesOf
      <4> QED
        BY <3>2, <4>2, FS_EmptySet
    <3> QED
      BY <3>1, <3>2
  <2> QED
    BY <2>5, <2>6, <2>8, <2>9 DEF SignalsOf
<1>2. ASSUME WriteIInv PROVE SignalsWritten
  BY <1>1, <1>2 DEF SignalsWritten
<1> QED
  BY <1>2, SubsamplesTraced, PTL

=============================================================================
