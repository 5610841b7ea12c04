----------------------------- MODULE MCSession -----------------------------
(***************************************************************************)
(* Small instance of Session: a computer that remembers up to three dives, *)
(* newest first, the middle one parsing in every way a dive can.  The      *)
(* first record is long enough for a splice: what is left of it when its   *)
(* tail is lost and the record after it add up to its length.              *)
(***************************************************************************)
EXTENDS Session

MCRecord(size, kind, date) == [size |-> size, kind |-> kind, date |-> date]

MCLog(kind) ==
    <<MCRecord(5, "good", 3), MCRecord(3, kind, 2), MCRecord(3, "good", 1)>>

MCOption(live, limit, since, saveDump) ==
    [live |-> live, limit |-> limit, since |-> since, saveDump |-> saveDump]

(* One run: every kind of dive, every option. *)
AllLogs == {<<>>} \cup {MCLog(kind) : kind \in Kinds}

AllOptions ==
    {o \in [live : BOOLEAN, limit : 0..2, since : {0, 2}, saveDump : BOOLEAN] :
        o.saveDump => o.live}

(* Two runs: a dump is saved, then replayed or overwritten. *)
FewLogs == {MCLog("noparser")}

FewOptions ==
    {MCOption(TRUE, 0, 0, TRUE), MCOption(TRUE, 1, 0, TRUE),
     MCOption(FALSE, 0, 0, FALSE), MCOption(FALSE, 1, 2, FALSE)}

=============================================================================
