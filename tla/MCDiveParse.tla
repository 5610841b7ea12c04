---------------------------- MODULE MCDiveParse ----------------------------
(* Records for DiveParse. *)
EXTENDS DiveParse

Success(Values) == {[status |-> "success", value |-> v] : v \in Values}
Failures(zero) == {[status |-> s, value |-> zero] : s \in {"unsupported", "error"}}
Answers(Values, zero) == Success(Values) \cup Failures(zero)

NoTank == [begin |-> 0, end |-> 0]
Supported(v) == [status |-> "success", value |-> v]

(* A record that is parsed without an error and has nothing in it.         *)
Plain == [parser |-> "success", datetime |-> Supported("monday"),
          divetime |-> Supported(60), maxdepth |-> Supported(5000),
          mintemp |-> [status |-> "unsupported", value |-> 0],
          avgdepth |-> [status |-> "unsupported", value |-> 0],
          tankcount |-> Supported(0), tanks |-> <<>>, gascount |-> Supported(0), gases |-> <<>>,
          reports |-> <<>>, samples |-> "success", uwatec |-> FALSE, alarms |-> <<>>,
          destroy |-> "success"]

(* Every answer to every single field, dates that are none included.       *)
Fielded ==
    {[Plain EXCEPT !.datetime = a[1], !.divetime = a[2], !.maxdepth = a[3], !.mintemp = a[4],
                   !.avgdepth = a[5], !.destroy = a[6]] :
        a \in Answers(Dates \cup {NoDate}, NoDate) \X Answers({60}, 0) \X Answers({5000}, 0)
                \X Answers({-150, 500}, 0) \X Answers({0, 4000}, 0) \X {"success", "error"}}
        \cup {[Plain EXCEPT !.parser = s] : s \in Statuses}

(* Up to two tanks, with one, both or no pressure (a tenth of a bar is no  *)
(* pressure), and up to two gas mixes, air, helium or pure nitrogen.       *)
TankAnswers == Answers({[begin |-> 2000, end |-> 500], [begin |-> 1800, end |-> 600],
                        [begin |-> 2000, end |-> 1]}, NoTank)
MixAnswers == Answers({[o2 |-> 21000, n2 |-> 79000, he |-> 0],
                       [o2 |-> 20000, n2 |-> 40000, he |-> 40000],
                       [o2 |-> 0, n2 |-> 99950, he |-> 0]}, NoMix)

Equipped ==
    {[Plain EXCEPT !.tankcount = Supported(Len(e[1])), !.tanks = e[1],
                   !.gascount = Supported(Len(e[2])), !.gases = e[2]] :
        e \in BoundedSeq(TankAnswers, 2) \X BoundedSeq(MixAnswers, 2)}
        \cup {[Plain EXCEPT !.tankcount = c] : c \in Failures(0)}
        \cup {[Plain EXCEPT !.gascount = c] : c \in Failures(0)}

Reported(type, value) == [type |-> type, value |-> value]
At(t) == Reported("time", t)

(* One sample with up to two reports of every kind, or with one of each.   *)
Kinds == <<Reported("depth", 5000), Reported("pressure", 2000), Reported("temperature", 500),
           Reported("rbt", 7), Reported("heartbeat", 80), Reported("bearing", 359),
           Reported("bearing", 65535), Reported("vendor", 0), [type |-> "unlisted"]>>
Events == [j \in 1..8 |-> [type |-> "event",
                           event |-> <<"bookmark", "ascent", "rbt", "transmitter", "surface",
                                       "violation", "gaschange", "unlisted">>[j]]]
Everything == Events \o SelectSeq(Kinds, LAMBDA r : r # Reported("bearing", 65535))

IsRepeatable(list) ==
    \A j, k \in DOMAIN list :
        j < k /\ list[j].type = list[k].type => list[j].type \in {"pressure", "event", "vendor"}

OneSample ==
    {[Plain EXCEPT !.reports = <<At(1500)>> \o l[1], !.uwatec = TRUE, !.alarms = l[2]] :
        l \in ({list \in BoundedSeq(ToSet(Kinds \o Events), 2) : IsRepeatable(list)}
                    \cup {Everything, Reverse(Everything)})
              \X {<<>>, <<[time |-> 1, bits |-> {"warning"}]>>}}

(* Samples of the same second, and one before the last, with temperatures  *)
(* and events; alarms in a second with two samples, one or none, or of no  *)
(* computer that has them.                                                 *)
Few == {<<>>} \cup {<<Reported("temperature", t)>> : t \in {5, 300, 500}}
        \cup {<<[type |-> "event", event |-> e]>> : e \in {"bookmark", "ceiling"}}

Buzzes == {[time |-> 0, bits |-> {"alarm"}], [time |-> 1, bits |-> {"warning"}],
           [time |-> 2, bits |-> {"alarm", "warning"}], [time |-> 0, bits |-> {"workload"}],
           [time |-> 1, bits |-> {"warning", "workload"}]}

Samples(t) == {<<At(t)>> \o few : few \in Few}

SomeSamples ==
    {[Plain EXCEPT !.reports = l[1] \o l[2] \o l[3], !.uwatec = TRUE, !.alarms = l[4]] :
        l \in Samples(0) \X Samples(999)
                \X {<<>>, <<At(2500)>>, <<At(2500), Reported("temperature", 300)>>}
                \X BoundedSeq(Buzzes, 2)}
        \cup {[Plain EXCEPT !.reports = l[1] \o l[2], !.samples = l[3], !.alarms = l[4]] :
                l \in Samples(2500) \X Samples(1000) \X {"success", "error"}
                        \X {<<>>, <<[time |-> 1, bits |-> {"alarm"}]>>}}

SmallRecords == Fielded \cup Equipped \cup OneSample \cup SomeSamples

=============================================================================
