----------------------------- MODULE DiveParse -----------------------------
(***************************************************************************)
(* One dive record on its way through doparse (src/src/dc2uddf.c): call by *)
(* call, with what the parser of libdivecomputer answers to each, down to  *)
(* the samples it reports to sample_cb and the alarms recovered from the   *)
(* raw record; and the waypoints the dive is written as, which a dive that *)
(* failed to parse gets too.                                               *)
(*                                                                         *)
(* A record is what the parser makes of it.  Times of samples are in       *)
(* milliseconds, pressures in tenths of a bar, depths in millimetres,      *)
(* temperatures in hundredths of a degree, parts of a gas in thousandths   *)
(* of a percent.                                                           *)
(***************************************************************************)
EXTENDS Waypoint, FiniteSetsExt

CONSTANTS
    Dates,              \* dates of dives
    Records,            \* raw dive records
    UseInvalidElements  \* values of the option of that name

NoDate == "none"        \* a NULL datetime

Statuses == {"success", "unsupported", "error"}

(* The events of dif.h; what libdivecomputer has beyond them is unknown.   *)
DifEvents == {"none", "decostop", "rbt", "ascent", "ceiling", "workload", "transmitter",
              "violation", "bookmark", "surface", "safetystop", "gaschange",
              "safetystop_voluntary", "safetystop_mandatory", "deepstop",
              "ceiling_safetystop", "unknown", "divetime", "maxdepth", "olf", "po2",
              "airtime", "rgbm", "heading", "tissuelevel", "gaschange2"}

Answer(Value) == [status : Statuses, value : Value]
Tank == [begin : Nat, end : Nat]
Mix == [o2 : Nat, n2 : Nat, he : Nat]
Buzzer == {"alarm", "warning", "workload"}

SampleTypes == {"depth", "pressure", "temperature", "event", "rbt", "heartbeat", "bearing",
                "vendor"}
Report == [type : ({"time"} \cup SampleTypes) \ {"event", "temperature"}, value : Nat]
            \cup [type : {"temperature"}, value : Int]
            \cup [type : {"event"}, event : DifEvents \cup {"unlisted"}]
            \cup [type : {"unlisted"}]

Record == [parser : Statuses,
           datetime : Answer(Dates \cup {NoDate}),
           divetime : Answer(Nat), maxdepth : Answer(Nat),
           mintemp : Answer(Int), avgdepth : Answer(Nat),
           tankcount : Answer(Nat), tanks : Seq(Answer(Tank)),
           gascount : Answer(Nat), gases : Seq(Answer(Mix)),
           reports : Seq(Report), samples : {"success", "error"},
           uwatec : BOOLEAN, alarms : Seq([time : Nat, bits : SUBSET Buzzer]),
           destroy : {"success", "error"}]

ASSUME DatesAssumption ==
    Dates \subseteq STRING /\ Dates \cap {"absent", "placeholder", NoDate} = {}
ASSUME InvalidAssumption == UseInvalidElements \subseteq BOOLEAN
ASSUME RecordsAssumption ==
    \A r \in Records :
        /\ r \in Record
        /\ Len(r.tanks) = r.tankcount.value /\ Len(r.gases) = r.gascount.value
        (* libdivecomputer reports the time of a sample before the sample. *)
        /\ r.reports # <<>> => r.reports[1].type = "time"
        (* And each value of a sample once, pressures and events excepted. *)
        /\ \A j, k \in DOMAIN r.reports :
              /\ j < k /\ r.reports[j].type = r.reports[k].type
              /\ r.reports[j].type \in SampleTypes \ {"pressure", "event", "vendor"}
              => \E l \in j..k : r.reports[l].type = "time"

VARIABLES
    record,     \* data and size
    invalid,    \* useInvalidElements
    pc,         \* the next call of doparse
    parser,     \* "none", "open" or "destroyed"
    dive,
    i,          \* counts tanks, gases, reports and alarms
    status,     \* what doparse returns
    waypoints,  \* <samples> of the dive, as written
    lowest      \* <lowesttemperature>, likewise

vars == <<record, invalid, pc, parser, dive, i, status, waypoints, lowest>>

-----------------------------------------------------------------------------
(* What doparse makes of an answer. *)

Value(answer, default) == IF answer.status = "success" THEN answer.value ELSE default

(* A value the dive has only if the computer reported it.                  *)
Optional(answer) == IF answer.status = "success" THEN <<answer.value>> ELSE <<>>

(* Fault: one pressure will do.                                            *)
HasAnyPressure(answer) ==
    answer.status = "success" /\ (answer.value.begin > 1 \/ answer.value.end > 1)

HasBothPressures(answer) ==
    answer.status = "success" /\ answer.value.begin > 1 /\ answer.value.end > 1

(* Fault: an additional tank of pure nitrogen is one.                      *)
IsAny(mix) == TRUE

(* dif_gasmix_is_valid: not pure nitrogen.                                 *)
IsValid(mix) == mix.n2 <= 99900 \/ mix.n2 >= 100100

NoMix == [o2 |-> 0, n2 |-> 0, he |-> 0]

(* Fault: events of libdivecomputer are taken as they are.                 *)
SameEvent(event) == event

(* dc_to_dif_event                                                         *)
DcToDifEvent(event) == IF event \in DifEvents THEN event ELSE "unknown"

Translated(report) ==
    CASE report.type = "event" -> EventSubsample(DcToDifEvent(report.event))
      [] report.type = "rbt" -> Subsample("rbt", report.value * 60)
      [] OTHER -> Subsample(report.type, report.value)

NewSample(t) == [time |-> t, subsamples |-> <<>>]

AddSubsample(samples, at, s) == [samples EXCEPT ![at].subsamples = Append(@, s)]

(* sample_cb: a time opens a sample, what follows joins it.                *)
AddReport(samples, report) ==
    CASE report.type = "time" -> Append(samples, NewSample(report.value \div 1000))
      [] report.type \in SampleTypes -> AddSubsample(samples, Len(samples), Translated(report))
      [] OTHER -> samples

(* Fault: an alarm joins the last sample.                                  *)
AddAlarmToLast(samples, t, level) ==
    LET alarm == AlarmSubsample("error", level)
    IN  IF samples = <<>> THEN <<[NewSample(t) EXCEPT !.subsamples = <<alarm>>]>>
        ELSE AddSubsample(samples, Len(samples), alarm)

(* dif_dive_add_alarm                                                      *)
AddAlarm(samples, t, level) ==
    LET alarm == AlarmSubsample("error", level)
        found == SelectInSeq(samples, LAMBDA s : s.time = t)
    IN  IF found = 0 THEN Append(samples, [NewSample(t) EXCEPT !.subsamples = <<alarm>>])
        ELSE AddSubsample(samples, found, alarm)

(* An event of the decoder: the red alarm subsumes the yellow warning, the *)
(* workload alone is nothing.                                              *)
AddBuzzer(samples, event) ==
    CASE "alarm" \in event.bits -> AddAlarm(samples, event.time, 2)
      [] "alarm" \notin event.bits /\ "warning" \in event.bits ->
            AddAlarm(samples, event.time, 1)
      [] OTHER -> samples

(* dif_sample_get_subsample, as a sequence of at most one.                 *)
Temperature(sample) ==
    LET found == SelectInSeq(sample.subsamples, LAMBDA s : s.type = "temperature")
    IN  IF found = 0 THEN <<>> ELSE <<sample.subsamples[found].value>>

(* Fault: no reading is too low to be one.                                 *)
LowestOfAll(samples) ==
    LET read == {k \in DOMAIN samples : Temperature(samples[k]) # <<>>}
    IN  IF read = {} THEN 0 ELSE Min({Temperature(samples[k])[1] : k \in read})

(* Readings of 0.1 degrees and below count as missing.                     *)
LowestTemperature(samples) ==
    LET read == {k \in DOMAIN samples :
                    Temperature(samples[k]) # <<>> /\ Temperature(samples[k])[1] > 10}
    IN  IF read = {} THEN 0 ELSE Min({Temperature(samples[k])[1] : k \in read})

(* dif_dive_sort_samples                                                   *)
SortSamples(samples) == SortedBy(samples, LAMBDA s : s.time)

-----------------------------------------------------------------------------

(* The dive that is not there yet; dif_dive_alloc.                         *)
NoDive == [date |-> "absent", duration |-> 0, maxdepth |-> 0, minTemperature |-> <<>>,
           avgdepth |-> <<>>, tankPressures |-> <<>>, gasmixes |-> <<>>, samples |-> <<>>]

Init ==
    /\ record \in Records
    /\ invalid \in UseInvalidElements
    /\ pc = "alloc"
    /\ parser = "none"
    /\ dive = NoDive
    /\ i = 1
    /\ status = "pending"
    /\ waypoints = <<>>
    /\ lowest = <<>>

given == <<record, invalid>>
written == <<waypoints, lowest>>

(* The dive is in the collection before there is a parser.                 *)
Alloc ==
    /\ pc = "alloc"
    /\ dive' = [NoDive EXCEPT !.date = "placeholder"]
    /\ pc' = "parser"
    /\ UNCHANGED <<given, parser, i, status, written>>

MakeParser ==
    /\ pc = "parser"
    /\ \/ /\ record.parser = "success"
          /\ parser' = "open"
          /\ pc' = "datetime"
          /\ UNCHANGED status
       \/ /\ record.parser # "success"
          /\ pc' = "returned"
          /\ status' = "error"
          /\ UNCHANGED parser
    /\ UNCHANGED <<given, dive, i, written>>

(* Fault: the parser is not released.                                      *)
ReturnErrorOnly ==
    /\ pc' = "returned"
    /\ status' = "error"
    /\ UNCHANGED <<parser, dive, i>>

(* The return from everything between MakeParser and Destroy.              *)
ReturnError ==
    /\ parser' = "destroyed"
    /\ pc' = "returned"
    /\ status' = "error"
    /\ UNCHANGED <<dive, i>>

(* One call of dc_parser_get_field: an error ends the parsing, any other   *)
(* answer makes the dive that it is here.                                  *)
Get(answer, next, updated) ==
    /\ \/ answer.status = "error" /\ ReturnError
       \/ /\ answer.status # "error"
          /\ dive' = updated
          /\ pc' = next
          /\ i' = 1
          /\ UNCHANGED <<parser, status>>
    /\ UNCHANGED <<given, written>>

(* Fault: a date that is not supported leaves the placeholder.             *)
GetDatetimeIfSupported ==
    /\ pc = "datetime"
    /\ Get(record.datetime, "divetime",
           [dive EXCEPT !.date = IF record.datetime.status = "success"
                                 THEN record.datetime.value ELSE dive.date])

(* No date can be made of the zeros of a parser that supports none.        *)
GetDatetime ==
    /\ pc = "datetime"
    /\ Get(record.datetime, "divetime",
           [dive EXCEPT !.date = Value(record.datetime, NoDate)])

GetDivetime ==
    /\ pc = "divetime"
    /\ Get(record.divetime, "maxdepth",
           [dive EXCEPT !.duration = Value(record.divetime, 0)])

GetMaxdepth ==
    /\ pc = "maxdepth"
    /\ Get(record.maxdepth, "mintemp",
           [dive EXCEPT !.maxdepth = Value(record.maxdepth, 0)])

GetMinTemperature ==
    /\ pc = "mintemp"
    /\ Get(record.mintemp, "avgdepth",
           [dive EXCEPT !.minTemperature = Optional(record.mintemp)])

GetAvgdepth ==
    /\ pc = "avgdepth"
    /\ Get(record.avgdepth, "tankcount",
           [dive EXCEPT !.avgdepth = IF Value(record.avgdepth, 0) > 0
                                     THEN Optional(record.avgdepth) ELSE <<>>])

CountTanks ==
    /\ pc = "tankcount"
    /\ Get(record.tankcount, "tanks", dive)

(* The loops go on with the next tank or gas mix.                          *)
Advance(updated) ==
    /\ dive' = updated
    /\ i' = i + 1
    /\ UNCHANGED <<given, pc, parser, status, written>>

(* The first tank that has both pressures ends the search.                 *)
GetTank ==
    /\ pc = "tanks"
    /\ i <= Value(record.tankcount, 0)
    /\ LET answer == record.tanks[i]
           tank == answer.value
       IN  \/ /\ answer.status = "error" \/ HasBothPressures(answer)
              /\ Get(answer, "gascount", [dive EXCEPT !.tankPressures = <<tank.begin, tank.end>>])
           \/ /\ answer.status # "error" /\ ~HasBothPressures(answer)
              /\ Advance(dive)

NoTankLeft ==
    /\ pc = "tanks"
    /\ i > Value(record.tankcount, 0)
    /\ pc' = "gascount"
    /\ UNCHANGED <<given, parser, dive, i, status, written>>

CountGases ==
    /\ pc = "gascount"
    /\ Get(record.gascount, "gases", dive)

(* A gas mix that is not supported is one of zeros.                        *)
GetGasmix ==
    /\ pc = "gases"
    /\ i <= Value(record.gascount, 0)
    /\ LET answer == record.gases[i]
           mix == Value(answer, NoMix)
       IN  \/ answer.status = "error" /\ ReturnError /\ UNCHANGED <<given, written>>
           \/ /\ answer.status # "error"
              /\ Advance(IF IsValid(mix) THEN [dive EXCEPT !.gasmixes = Append(@, mix)] ELSE dive)

NoGasLeft ==
    /\ pc = "gases"
    /\ i > Value(record.gascount, 0)
    /\ pc' = "samples"
    /\ i' = 1
    /\ UNCHANGED <<given, parser, dive, status, written>>

SampleCb ==
    /\ pc = "samples"
    /\ i <= Len(record.reports)
    /\ Advance([dive EXCEPT !.samples = AddReport(@, record.reports[i])])

SamplesParsed ==
    /\ pc = "samples"
    /\ i > Len(record.reports)
    /\ \/ record.samples = "error" /\ ReturnError
       \/ /\ record.samples = "success"
          /\ pc' = IF record.uwatec THEN "alarms" ELSE "destroy"
          /\ i' = 1
          /\ UNCHANGED <<parser, dive, status>>
    /\ UNCHANGED <<given, written>>

ImportAlarm ==
    /\ pc = "alarms"
    /\ i <= Len(record.alarms)
    /\ Advance([dive EXCEPT !.samples = AddBuzzer(@, record.alarms[i])])

AlarmsImported ==
    /\ pc = "alarms"
    /\ i > Len(record.alarms)
    /\ pc' = "destroy"
    /\ UNCHANGED <<given, parser, dive, i, status, written>>

Destroy ==
    /\ pc = "destroy"
    /\ parser' = "destroyed"
    /\ pc' = "returned"
    /\ status' = record.destroy
    /\ UNCHANGED <<given, dive, i, written>>

(* _createDive, whatever doparse returned.  The algorithms that the user   *)
(* may ask for in between are those of DiveAlgos.                          *)
Write ==
    /\ pc = "returned"
    /\ pc' = "written"
    /\ LET samples == SortSamples(dive.samples)
           temperature == IF dive.minTemperature # <<>> THEN dive.minTemperature[1]
                          ELSE LowestTemperature(samples)
       IN  /\ dive' = [dive EXCEPT !.samples = samples]
           /\ waypoints' = [k \in DOMAIN samples |-> CreateWaypoint(samples[k], invalid)]
           /\ lowest' = IF temperature > 10 THEN <<CelsiusToKelvin(temperature)>> ELSE <<>>
    /\ UNCHANGED <<given, parser, i, status>>

Fields ==
    \/ GetDatetime \/ GetDivetime \/ GetMaxdepth \/ GetMinTemperature \/ GetAvgdepth
    \/ CountTanks \/ GetTank \/ NoTankLeft
    \/ CountGases \/ GetGasmix \/ NoGasLeft

Next ==
    \/ Alloc \/ MakeParser
    \/ Fields
    \/ SampleCb \/ SamplesParsed
    \/ ImportAlarm \/ AlarmsImported
    \/ Destroy
    \/ Write

Spec == Init /\ [][Next]_vars

-----------------------------------------------------------------------------
(* Properties *)

Calls == {"datetime", "divetime", "maxdepth", "mintemp", "avgdepth", "tankcount", "tanks",
          "gascount", "gases", "samples", "alarms", "destroy"}

Labels == {"alloc", "parser", "returned", "written"} \cup Calls

AtMostOne(Value_) == {<<>>} \cup {<<v>> : v \in Value_}

DiveSubsample ==
    [type : SampleTypes \ {"event"}, value : Int]
        \cup [type : {"event"}, event : DifEvents]
        \cup [type : {"alarm"}, kind : {"error"}, level : {1, 2}]

TypeOK ==
    /\ record \in Record
    /\ invalid \in BOOLEAN
    /\ pc \in Labels
    /\ parser \in {"none", "open", "destroyed"}
    /\ i \in Nat \ {0}
    /\ status \in {"pending", "success", "error"}
    /\ DOMAIN dive = DOMAIN NoDive
    /\ dive.date \in Dates \cup {"absent", "placeholder", NoDate}
    /\ dive.duration \in Nat
    /\ dive.maxdepth \in Nat
    /\ Len(dive.minTemperature) \in 0..1
    /\ Len(dive.avgdepth) \in 0..1
    /\ dive.tankPressures \in {<<>>} \cup (Nat \X Nat)
    /\ dive.gasmixes \in Seq(Mix)
    /\ dive.samples \in Seq([time : Nat, subsamples : Seq(DiveSubsample)])

(* The parser is held as long as doparse uses it, and on every one of its  *)
(* returns, ten of them early (dc2uddf.c:330-516), it has been released,   *)
(* if there was one.                                                       *)
ParserReleased ==
    /\ parser = "open" <=> pc \in Calls
    /\ pc \in {"returned", "written"} => (parser = "none" <=> record.parser # "success")

(* The mixes of a record that are not pure nitrogen, by their numbers; one *)
(* that is not supported is of zeros.                                      *)
MixAt(j) == Value(record.gases[j], NoMix)

ReportedMixes == {j \in 1..Value(record.gascount, 0) : MixAt(j).n2 \notin 99901..100099}

ReportedTanks ==
    {j \in 1..Value(record.tankcount, 0) :
        /\ record.tanks[j].status = "success"
        /\ {record.tanks[j].value.begin, record.tanks[j].value.end} \cap 0..1 = {}}

(* "valid iff hasAvgdepth", "iff hasTankPressures", "iff hasMinTemperature"*)
(* (dif.h:36-42): a dive has a value iff the computer reported it, and the *)
(* two pressures are those of one tank, the first that has them; of a      *)
(* record that fails on the way the dive has some of that and nothing else.*)
FaithfulReadings ==
    pc \in {"returned", "written"} =>
        /\ dive.minTemperature \in {<<>>, Optional(record.mintemp)}
        /\ dive.avgdepth \in {<<>>, Optional(record.avgdepth)} \ {<<0>>}
        /\ dive.tankPressures # <<>> =>
              /\ ReportedTanks # {}
              /\ LET tank == record.tanks[Min(ReportedTanks)].value
                 IN  dive.tankPressures = <<tank.begin, tank.end>>
        /\ status = "success" =>
              /\ dive.minTemperature = Optional(record.mintemp)
              /\ (dive.avgdepth = <<>>) <=> (Value(record.avgdepth, 0) = 0)
              /\ (dive.tankPressures = <<>>) <=> (ReportedTanks = {})

(* The gas mixes are the computer's, in its order, without "extra tanks    *)
(* [of] 100% nitrogen" (dif.c:399-401); of a record that fails on the way, *)
(* the first of them.                                                      *)
FaithfulMixes ==
    /\ \A k \in DOMAIN dive.gasmixes :
          \E j \in ReportedMixes : /\ Cardinality(ReportedMixes \cap 1..j) = k
                                   /\ dive.gasmixes[k] = MixAt(j)
    /\ status = "success" => Len(dive.gasmixes) = Cardinality(ReportedMixes)

(* waypointType of the schema (xsd/uddf_3.2.3.xsd:1271-1370), as far as    *)
(* the program writes elements of it, and those it may repeat.             *)
SchemaOrder == <<"alarm", "depth", "divetime", "heading", "heartrate", "remainingbottomtime",
                 "setmarker", "tankpressure", "temperature">>
Unbounded == {"alarm", "tankpressure"}

(* Every waypoint is one of the schema, whatever the order in which events *)
(* and values came and alarms were added: its children are in the order of *)
(* the sequence, and only alarms and tank pressures are repeated.          *)
WaypointsConform ==
    pc = "written" /\ ~invalid =>
        \A w \in DOMAIN waypoints :
            LET Place(k) == SelectInSeq(SchemaOrder, LAMBDA n : n = waypoints[w][k].name)
            IN  \A k \in DOMAIN waypoints[w] :
                    /\ Place(k) # 0
                    /\ \A l \in 1..(k - 1) :
                          \/ Place(l) < Place(k)
                          \/ Place(l) = Place(k) /\ waypoints[w][k].name \in Unbounded

(* The second of a report: that of the last time before it.                *)
Second(k) ==
    LET times == {j \in 1..k : record.reports[j].type = "time"}
    IN  record.reports[Max(times)].value \div 1000

EventsAt(t, events) ==
    {k \in DOMAIN record.reports :
        /\ record.reports[k].type = "event"
        /\ record.reports[k].event \in events
        /\ Second(k) = t}

(* README.md:212-216 *)
AlarmEvents == [ascent |-> {"ascent"}, deco |-> {"decostop", "violation"},
                rbt |-> {"rbt", "divetime"}, surface |-> {"surface"},
                error |-> {"ceiling", "ceiling_safetystop", "unknown", "unlisted"},
                link |-> {"transmitter"}]

BuzzesAt(t, level) ==
    {k \in DOMAIN record.alarms :
        /\ record.alarms[k].time = t
        /\ IF level = 2 THEN "alarm" \in record.alarms[k].bits
           ELSE "alarm" \notin record.alarms[k].bits /\ "warning" \in record.alarms[k].bits}

ElementsAt(t, element) ==
    UNION {{<<w, k>> : k \in {k \in DOMAIN waypoints[w] : waypoints[w][k] = element}} :
            w \in {w \in DOMAIN waypoints : dive.samples[w].time = t}}

(* Events "are written as schema-valid UDDF <alarm> elements on the        *)
(* waypoint where they occurred", bookmarks as its marker, and the buzzers *)
(* as errors of level 1 or 2 (README.md:210-224): as many as there were,   *)
(* in the second in which they were, and no others.                        *)
SignalsWritten ==
    pc = "written" /\ status = "success" =>
        \A t \in {dive.samples[w].time : w \in DOMAIN waypoints}
                    \cup (IF record.uwatec THEN {record.alarms[k].time : k \in DOMAIN record.alarms}
                          ELSE {}) :
            /\ \A kind \in DOMAIN AlarmEvents :
                  Cardinality(ElementsAt(t, AlarmElement(kind, NoLevel)))
                    = Cardinality(EventsAt(t, AlarmEvents[kind]))
            /\ \A level \in {1, 2} :
                  Cardinality(ElementsAt(t, AlarmElement("error", level)))
                    = IF record.uwatec THEN Cardinality(BuzzesAt(t, level)) ELSE 0
            /\ ElementsAt(t, SetMarker) = {}
                  <=> EventsAt(t, {"bookmark"}) = {}

(* The lowest temperature of a dive whose computer reports none is one of  *)
(* its waypoints', and none of them is lower, those of 0.1 degrees and     *)
(* less excepted, which count as missing (dif.c:641-671).                  *)
LowestTemperatureTrue ==
    pc = "written" /\ dive.minTemperature = <<>> =>
        LET read == UNION {{e.value : e \in {x \in ToSet(waypoints[w]) : x.name = "temperature"}} :
                            w \in DOMAIN waypoints}
            shown == {v \in read : v > CelsiusToKelvin(10)}
        IN  IF shown = {} THEN lowest = <<>> ELSE lowest = <<Min(shown)>>

(* For dive_cb, doparse is what ParsedDive says.                           *)
P == INSTANCE ParsedDive WITH Dates <- Dates \cup {NoDate}, date <- dive.date,
                              verdict <- status

ImplementsParsedDive == P!Spec

=============================================================================
