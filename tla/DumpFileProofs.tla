--------------------------- MODULE DumpFileProofs ---------------------------
(***************************************************************************)
(* Proofs about DumpFile, for every header size and every set of buffers:  *)
(* the records handed out tile the buffer, the count returned is the       *)
(* number handed out, and the verdict on the buffer is exact.              *)
(***************************************************************************)
EXTENDS DumpFile, SequenceTheorems, TLAPS

(* Where the last record accepted ends. *)
End == IF index = 0 THEN 0 ELSE visited[index].at + visited[index].size

(* The length of each record handed out is the one its header claims. *)
SizesAreClaimed ==
    \A i \in 1..Len(visited) : buf[visited[i].at + 1] = visited[i].size

(* The index and the offset lag behind the callbacks only after the last   *)
(* callback asked to stop.                                                 *)
Position ==
    /\ offset <= Len(buf)
    /\ result # "ok" => Len(visited) = index /\ offset = End
    /\ result = "ok" =>
         \/ Len(visited) = index /\ offset = End /\ offset = Len(buf) /\ buf # <<>>
         \/ Len(visited) = index + 1 /\ offset < Len(buf)

(* However the buffer may be cut into records, the offset is at a cut. *)
OnEveryCut ==
    \A cuts \in SUBSET (0..Len(buf)) : Cuts(buf, cuts) => offset \in cuts

(* An error was returned because no record can be read at the offset. *)
ErrorsAreReal ==
    result \in Errors =>
        buf = <<>> \/ (offset < Len(buf) /\ ~RecordAt(buf, offset))

Invariant ==
    /\ TypeOK
    /\ RecordsTile
    /\ SizesAreClaimed
    /\ Position
    /\ OnEveryCut
    /\ ErrorsAreReal

-----------------------------------------------------------------------------

LEMMA BufferType ==
    ASSUME TypeOK
    PROVE  /\ buf \in Seq(HeaderView)
           /\ Len(buf) \in Nat
           /\ \A o \in 0..(Len(buf) - 1) : buf[o + 1] \in HeaderView
BY BuffersAssumption DEF TypeOK

(* A header the loop accepts is a record in the sense of the format. *)
LEMMA AcceptedHeader ==
    ASSUME TypeOK, offset < Len(buf)
    PROVE  /\ (HasMagic /\ HasLength) <=> RecordAt(buf, offset)
           /\ HasMagic => Header \in Nat
BY BufferType, HeaderSizeAssumption, NoMagicAssumption
   DEF TypeOK, HasMagic, HasLength, Header, Remaining, RecordAt, HeaderView

LEMMA InitInvariant == Init => Invariant
<1> SUFFICES ASSUME Init PROVE Invariant
  OBVIOUS
<1>1. TypeOK
  BY DEF Init, Start, TypeOK, Results
<1>2. Len(buf) \in Nat
  BY <1>1, BufferType
<1>3. RecordsTile /\ SizesAreClaimed /\ ErrorsAreReal
  BY DEF Init, Start, RecordsTile, SizesAreClaimed, ErrorsAreReal, Errors
<1>4. Position
  BY <1>2 DEF Init, Start, Position, End
<1>5. OnEveryCut
  BY DEF Init, Start, OnEveryCut, Cuts
<1>. QED  BY <1>1, <1>3, <1>4, <1>5 DEF Invariant

(* The callback: the record handed out extends the tiling. *)
LEMMA VisitInvariant ==
    ASSUME Invariant, NEW more \in BOOLEAN, Visit(more), UNCHANGED buf
    PROVE  Invariant'
<1>. USE DEF Invariant
<1>1. /\ offset \in Nat /\ index \in Nat
      /\ visited \in Seq(Record) /\ buf \in Buffers
  BY DEF TypeOK
<1>2. offset < Len(buf) /\ result = "running"
  BY DEF Visit
<1>3. Header \in Nat /\ RecordAt(buf, offset)
  BY <1>2, AcceptedHeader DEF Visit
<1>4. /\ Len(buf) \in Nat
      /\ HeaderSize < Header
      /\ offset + Header <= Len(buf)
  BY <1>3, BufferType DEF RecordAt, Header
<1>5. Len(visited) = index /\ offset = End
  BY <1>2 DEF Position
<1>. DEFINE r == [at |-> offset, size |-> Header]
<1>6. visited' = Append(visited, r) /\ r \in Record
  BY <1>1, <1>3 DEF Visit, Record
<1>7. /\ visited' \in Seq(Record)
      /\ Len(visited') = index + 1
      /\ visited'[index + 1] = r
      /\ \A i \in 1..index : visited'[i] = visited[i]
  BY <1>1, <1>5, <1>6
<1>8. TypeOK'
  BY <1>1, <1>2, <1>3, <1>7 DEF Visit, TypeOK, Results
<1>9. RecordsTile'
  <2> SUFFICES ASSUME NEW i \in 1..(index + 1)
               PROVE  /\ visited'[i].at = IF i = 1 THEN 0
                                 ELSE visited'[i - 1].at + visited'[i - 1].size
                      /\ visited'[i].size > HeaderSize
                      /\ visited'[i].at + visited'[i].size <= Len(buf)
    BY <1>7 DEF RecordsTile
  <2>1. CASE i \in 1..index
    <3>1. i # 1 => i - 1 \in 1..index
      BY <2>1, <1>1
    <3>. QED  BY <2>1, <3>1, <1>5, <1>7 DEF RecordsTile
  <2>2. CASE i = index + 1
    <3>1. index # 0 => index \in 1..index
      BY <1>1
    <3>2. visited'[i].size > HeaderSize /\ visited'[i].at + visited'[i].size <= Len(buf)
      BY <2>2, <1>1, <1>3, <1>4, <1>7, HeaderSizeAssumption
    <3>3. CASE index = 0
      BY <2>2, <3>2, <3>3, <1>5, <1>7 DEF End
    <3>4. CASE index # 0
      <4>1. visited'[i - 1] = visited[index] /\ i # 1
        BY <2>2, <3>1, <3>4, <1>1, <1>7
      <4>2. offset = visited[index].at + visited[index].size
        BY <3>4, <1>5 DEF End
      <4>. QED  BY <2>2, <3>2, <4>1, <4>2, <1>7
    <3>. QED  BY <3>3, <3>4
  <2>. QED  BY <1>1, <2>1, <2>2
<1>10. SizesAreClaimed'
  <2> SUFFICES ASSUME NEW i \in 1..(index + 1)
               PROVE  buf[visited'[i].at + 1] = visited'[i].size
    BY <1>7 DEF SizesAreClaimed
  <2>1. CASE i \in 1..index
    BY <2>1, <1>5, <1>7 DEF SizesAreClaimed
  <2>2. CASE i = index + 1
    BY <2>2, <1>7 DEF Header
  <2>. QED  BY <1>1, <2>1, <2>2
<1>11. Position'
  <2>1. CASE more
    <3>1. offset' = offset + Header /\ index' = index + 1 /\ result' = "running"
      BY <2>1, <1>2 DEF Visit
    <3>2. End' = offset + Header
      BY <3>1, <1>1, <1>7 DEF End
    <3>. QED  BY <3>1, <3>2, <1>1, <1>4, <1>7 DEF Position
  <2>2. CASE ~more
    <3>1. offset' = offset /\ index' = index /\ result' = "ok"
      BY <2>2 DEF Visit
    <3>. QED  BY <3>1, <1>2, <1>7, <1>4, <1>1 DEF Position
  <2>. QED  BY <2>1, <2>2
<1>12. OnEveryCut'
  <2> SUFFICES ASSUME NEW cuts \in SUBSET (0..Len(buf)), Cuts(buf, cuts)
               PROVE  offset' \in cuts
    BY DEF OnEveryCut
  <2>1. offset \in cuts
    BY DEF OnEveryCut
  <2>2. offset + Header \in cuts
    BY <2>1, <1>2, <1>1, <1>4 DEF Cuts, Header
  <2>. QED  BY <2>1, <2>2 DEF Visit
<1>13. ErrorsAreReal'
  BY <1>2 DEF Visit, ErrorsAreReal, Errors
<1>. QED  BY <1>8, <1>9, <1>10, <1>11, <1>12, <1>13

(* The walk's end: an error is real, and success is at the last cut. *)
LEMMA EndInvariant ==
    ASSUME Invariant, Reject \/ Finish, UNCHANGED buf
    PROVE  Invariant'
<1>. USE DEF Invariant
<1>1. UNCHANGED <<offset, index, visited>>
  BY DEF Reject, RejectEmpty, RejectMagic, RejectLength, Fail, Finish
<1>2. result = "running"
  BY DEF Reject, RejectEmpty, RejectMagic, RejectLength, Finish
<1>3. TypeOK'
  BY <1>1 DEF Reject, RejectEmpty, RejectMagic, RejectLength, Fail, Finish, TypeOK,
              Results, Errors
<1>4. RecordsTile' /\ SizesAreClaimed' /\ OnEveryCut'
  BY <1>1 DEF RecordsTile, SizesAreClaimed, OnEveryCut
<1>5. offset \in Nat /\ Len(buf) \in Nat
  BY BufferType DEF TypeOK
<1>6. Position' /\ ErrorsAreReal'
  <2>1. CASE Finish
    <3>1. result' = "ok" /\ buf # <<>> /\ offset = Len(buf)
      BY <2>1, <1>5 DEF Finish, Position
    <3>. QED  BY <3>1, <1>1, <1>2 DEF Position, ErrorsAreReal, Errors, End
  <2>2. CASE Reject
    <3>1. result' \in Errors /\ result' # "ok"
      BY <2>2 DEF Reject, RejectEmpty, RejectMagic, RejectLength, Fail, Errors
    <3>2. buf = <<>> \/ (offset < Len(buf) /\ ~(HasMagic /\ HasLength))
      BY <2>2 DEF Reject, RejectEmpty, RejectMagic, RejectLength
    <3>3. ErrorsAreReal'
      BY <3>2, <1>1, AcceptedHeader DEF ErrorsAreReal
    <3>. QED  BY <3>1, <3>3, <1>1, <1>2 DEF Position, End
  <2>. QED  BY <2>1, <2>2
<1>. QED  BY <1>3, <1>4, <1>6

(* The splitter keeps its invariant: what it hands out tiles the buffer.   *)
(* (dumpfile.c:13-65)                                                      *)
THEOREM SplitterInvariant == Spec => []Invariant
<1>1. Invariant /\ [Next]_vars => Invariant'
  <2> SUFFICES ASSUME Invariant, [Next]_vars PROVE Invariant'
    OBVIOUS
  <2>1. CASE Next
    BY <2>1, VisitInvariant, EndInvariant DEF Next, Step
  <2>2. CASE UNCHANGED vars
    BY <2>2 DEF vars, Invariant, TypeOK, RecordsTile, SizesAreClaimed, Position,
                OnEveryCut, ErrorsAreReal, End
  <2>. QED  BY <2>1, <2>2
<1>. QED  BY InitInvariant, <1>1, PTL DEF Spec

(* A walk that succeeded without being stopped is itself a cutting of the  *)
(* buffer into records.                                                    *)
LEMMA WalkIsCuts ==
    ASSUME Invariant, result = "ok", offset = Len(buf)
    PROVE  IsDump(buf)
<1>. DEFINE cuts == {visited[i].at : i \in 1..Len(visited)} \cup {Len(buf)}
<1>. USE DEF Invariant
<1>1. /\ Len(buf) \in Nat /\ index \in Nat /\ visited \in Seq(Record)
      /\ Len(visited) = index /\ offset = End /\ buf # <<>>
  BY BufferType DEF TypeOK, Position
<1>2. \A i \in 1..index :
        /\ visited[i].at \in Nat /\ visited[i].size \in Nat
        /\ RecordAt(buf, visited[i].at)
        /\ visited[i].at + visited[i].size = visited[i].at + buf[visited[i].at + 1]
        /\ visited[i].at < Len(buf)
  <2> SUFFICES ASSUME NEW i \in 1..index
               PROVE  /\ visited[i].at \in Nat /\ visited[i].size \in Nat
                      /\ RecordAt(buf, visited[i].at)
                      /\ visited[i].at + visited[i].size
                            = visited[i].at + buf[visited[i].at + 1]
                      /\ visited[i].at < Len(buf)
    OBVIOUS
  <2>1. visited[i] \in Record
    BY <1>1
  <2>2. /\ visited[i].size > HeaderSize
        /\ visited[i].at + visited[i].size <= Len(buf)
        /\ buf[visited[i].at + 1] = visited[i].size
    BY <1>1 DEF RecordsTile, SizesAreClaimed
  <2>. QED  BY <1>1, <2>1, <2>2, HeaderSizeAssumption, NoMagicAssumption
            DEF Record, RecordAt
<1>3. index # 0
  <2>1. Len(buf) # 0
    <3>1. buf \in Seq(HeaderView)
      BY BufferType
    <3>. QED  BY <3>1, <1>1, EmptySeq
  <2>. QED  BY <2>1, <1>1 DEF End
<1>4. 0 \in cuts
  <2>1. 1 \in 1..Len(visited)
    BY <1>1, <1>3
  <2>. QED  BY <2>1 DEF RecordsTile
<1>5. cuts \subseteq 0..Len(buf)
  BY <1>1, <1>2
<1>6. ASSUME NEW o \in cuts \ {Len(buf)}
      PROVE  RecordAt(buf, o) /\ o + buf[o + 1] \in cuts
  <2>1. PICK i \in 1..index : o = visited[i].at
    BY <1>1, <1>6
  <2>2. RecordAt(buf, o) /\ o + buf[o + 1] = visited[i].at + visited[i].size
    BY <1>2, <2>1
  <2>3. CASE i = index
    BY <2>2, <2>3, <1>1, <1>3 DEF End
  <2>4. CASE i # index
    <3>1. i + 1 \in 1..Len(visited) /\ i + 1 # 1 /\ (i + 1) - 1 = i
      BY <2>4, <1>1
    <3>2. visited[i + 1].at = visited[i].at + visited[i].size
      BY <3>1 DEF RecordsTile
    <3>. QED  BY <2>2, <3>1, <3>2
  <2>. QED  BY <2>3, <2>4
<1>7. Cuts(buf, cuts) /\ cuts \in SUBSET (0..Len(buf))
  BY <1>4, <1>5, <1>6 DEF Cuts
<1>. QED  BY <1>1, <1>7 DEF IsDump

(* The splitter's locals keep their types, whatever the bytes.             *)
THEOREM TypeCorrect == Spec => []TypeOK
<1>1. Invariant => TypeOK
  BY DEF Invariant
<1>. QED  BY <1>1, SplitterInvariant, PTL

(* The records handed out tile the buffer, whatever its bytes.             *)
THEOREM TilesTheBuffer == Spec => []RecordsTile
<1>1. Invariant => RecordsTile
  BY DEF Invariant
<1>. QED  BY <1>1, SplitterInvariant, PTL

(* The count returned is the number of callbacks made.                     *)
THEOREM ReturnsCount == Spec => []CountsVisits
<1>1. Invariant => CountsVisits
  <2> SUFFICES ASSUME Invariant, result = "ok" PROVE ReturnValue = Len(visited)
    BY DEF CountsVisits
  <2>1. offset \in Nat /\ Len(buf) \in Nat /\ "ok" \notin Errors
    BY BufferType DEF Invariant, TypeOK, Errors
  <2>. QED  BY <2>1 DEF Invariant, Position, ReturnValue
<1>. QED  BY <1>1, SplitterInvariant, PTL

(* The verdict is exact: the splitter rejects only buffers that are not    *)
(* dumps, and accepts to the end only dumps.                               *)
THEOREM ExactVerdict == Spec => []AcceptsDumps
<1>1. Invariant => AcceptsDumps
  <2> SUFFICES ASSUME Invariant PROVE AcceptsDumps
    OBVIOUS
  <2>1. ASSUME result \in Errors PROVE ~IsDump(buf)
    <3>1. ASSUME buf # <<>>, NEW cuts \in SUBSET (0..Len(buf)), Cuts(buf, cuts)
          PROVE  FALSE
      <4>1. offset \in cuts
        BY <3>1 DEF Invariant, OnEveryCut
      <4>2. offset < Len(buf) /\ ~RecordAt(buf, offset)
        BY <2>1, <3>1 DEF Invariant, ErrorsAreReal
      <4>. QED  BY <3>1, <4>1, <4>2 DEF Cuts
    <3>. QED  BY <3>1 DEF IsDump
  <2>. QED  BY <2>1, WalkIsCuts DEF AcceptsDumps
<1>. QED  BY <1>1, SplitterInvariant, PTL

(* The walk does not stand still: a record accepted moves it by more than  *)
(* a header, and not beyond the end, so it takes at most as many records   *)
(* as the buffer has headers (dumpfile.c:48-61).  That it takes them all   *)
(* is fairness, and Returns.                                               *)
THEOREM Advances ==
    Spec => [][result = "running" /\ result' = "running" =>
                  offset + HeaderSize < offset' /\ offset' <= Len(buf)]_vars
<1>. DEFINE Ahead == result = "running" /\ result' = "running" =>
                        offset + HeaderSize < offset' /\ offset' <= Len(buf)
<1>1. ASSUME Invariant, [Next]_vars PROVE [Ahead]_vars
  <2>1. ASSUME Next, result = "running", result' = "running"
        PROVE  offset + HeaderSize < offset' /\ offset' <= Len(buf)
    <3>1. /\ TypeOK /\ offset < Len(buf) /\ HasMagic /\ HasLength
          /\ offset' = offset + Header
      BY <1>1, <2>1 DEF Invariant, Next, Step, Reject, RejectEmpty, RejectMagic,
                        RejectLength, Visit, Finish, Fail
    <3>2. RecordAt(buf, offset) /\ Header = buf[offset + 1]
      BY <3>1, AcceptedHeader DEF Header
    <3>3. Header \in Nat /\ offset \in Nat /\ HeaderSize \in Nat /\ Len(buf) \in Nat
      BY <3>1, AcceptedHeader, BufferType, HeaderSizeAssumption DEF TypeOK
    <3>. QED  BY <3>1, <3>2, <3>3 DEF RecordAt
  <2>. QED  BY <1>1, <2>1, Zenon
<1>. QED  BY <1>1, SplitterInvariant, PTL DEF Spec

=============================================================================
