------------------------------ MODULE Waypoint ------------------------------
(***************************************************************************)
(* The <waypoint> element of one sample (_createWaypoint in                *)
(* src/src/dif/uddf.c): which elements its subsamples become, and their    *)
(* order.                                                                  *)
(*                                                                         *)
(* Temperatures are in hundredths of a degree, pressures in tenths of a    *)
(* bar.                                                                    *)
(***************************************************************************)
EXTENDS StableSort, SequencesExt

Subsample(type, value) == [type |-> type, value |-> value]
EventSubsample(event) == [type |-> "event", event |-> event]
AlarmSubsample(kind, level) == [type |-> "alarm", kind |-> kind, level |-> level]

Element(name, value) == [name |-> name, value |-> value]
AlarmElement(kind, level) == [name |-> "alarm", kind |-> kind, level |-> level]
SetMarker == [name |-> "setmarker", text |-> "bookmark"]

NoAlarm == "none"
NoLevel == 0

-----------------------------------------------------------------------------
(* The order of the elements. *)

WaypointElementOrder == <<
    "alarm", "batterychargecondition", "cns", "decostop", "bodytemperature",
    "calculatedpo2", "depth", "divetime", "heading", "heartrate", "otu",
    "pulserate", "remainingbottomtime", "remainingo2time", "setmarker",
    "setpo2", "switchmix", "tankpressure", "temperature", "divemode",
    "gradientfactor", "measuredpo2", "nodecotime">>

(* Elements that are not of the schema come last.                          *)
Rank(element) ==
    LET place == SelectInSeq(WaypointElementOrder, LAMBDA n : n = element.name)
    IN  IF place = 0 THEN Len(WaypointElementOrder) + 1 ELSE place

-----------------------------------------------------------------------------
(* The elements of a subsample. *)

CelsiusToKelvin(t) == t + 27315
BarToPascal(p) == p * 10000

(* dif_sample_event_to_alarm                                               *)
EventToAlarm(event) ==
    CASE event = "ascent" -> "ascent"
      [] event \in {"decostop", "violation"} -> "deco"
      [] event \in {"ceiling", "ceiling_safetystop", "unknown"} -> "error"
      [] event \in {"rbt", "divetime"} -> "rbt"
      [] event = "surface" -> "surface"
      [] event = "transmitter" -> "link"
      [] OTHER -> NoAlarm

ElementName == [depth |-> "depth", pressure |-> "tankpressure", temperature |-> "temperature",
                rbt |-> "remainingbottomtime", heartbeat |-> "heartrate",
                bearing |-> "heading", vendor |-> "vendor"]

(* Fault: every bookmark is a marker.                                      *)
EventElementUnlimited(event, haveSetmarker) ==
    CASE event = "bookmark" -> <<SetMarker>>
      [] event # "bookmark" /\ EventToAlarm(event) # NoAlarm ->
            <<AlarmElement(EventToAlarm(event), NoLevel)>>
      [] OTHER -> <<>>

(* A bookmark is the waypoint's marker, of which there is one at most; an  *)
(* event that is like an alarm is one.                                     *)
EventElement(event, haveSetmarker) ==
    CASE event = "bookmark" ->
            IF haveSetmarker THEN <<>> ELSE <<SetMarker>>
      [] event # "bookmark" /\ EventToAlarm(event) # NoAlarm ->
            <<AlarmElement(EventToAlarm(event), NoLevel)>>
      [] OTHER -> <<>>

Elements(s, haveSetmarker, useInvalidElements) ==
    CASE s.type = "event" ->
            EventElement(s.event, haveSetmarker)
                \o (IF useInvalidElements THEN <<[name |-> "event", event |-> s.event]>> ELSE <<>>)
      [] s.type = "temperature" -> <<Element(ElementName[s.type], CelsiusToKelvin(s.value))>>
      [] s.type = "pressure" -> <<Element(ElementName[s.type], BarToPascal(s.value))>>
      [] s.type = "bearing" ->
            IF s.value <= 359 THEN <<Element(ElementName[s.type], s.value)>> ELSE <<>>
      [] s.type = "vendor" ->
            IF useInvalidElements THEN <<Element(ElementName[s.type], s.value)>> ELSE <<>>
      [] s.type = "alarm" -> <<AlarmElement(s.kind, s.level)>>
      [] s.type \in {"depth", "rbt", "heartbeat"} ->
            <<Element(ElementName[s.type], s.value)>>
      [] OTHER -> <<>>

(* The children of the waypoint of a sample, a record [time, subsamples],  *)
(* before they are sorted: those of the time and the first n subsamples.   *)
(* The program adds no DIF_SAMPLE_SETMARKER subsamples.                    *)
ChildrenUpTo(sample, useInvalidElements) ==
    LET children[n \in 0..Len(sample.subsamples)] ==
            IF n = 0 THEN <<Element("divetime", sample.time)>>
            ELSE LET before == children[n - 1]
                     haveSetmarker == \E i \in DOMAIN before : before[i].name = "setmarker"
                 IN  before \o Elements(sample.subsamples[n], haveSetmarker, useInvalidElements)
    IN  children

Children(sample, useInvalidElements) ==
    ChildrenUpTo(sample, useInvalidElements)[Len(sample.subsamples)]

CreateWaypoint(sample, useInvalidElements) ==
    SortedBy(Children(sample, useInvalidElements), Rank)

=============================================================================
