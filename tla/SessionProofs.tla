--------------------------- MODULE SessionProofs ---------------------------
(***************************************************************************)
(* Proofs about Session, for every memory of the computer, every set of    *)
(* command lines, every clock correction and every number of runs: the     *)
(* type invariant, the order in which the handles are closed, and the dump *)
(* file as a prefix of what the computer sent.                             *)
(***************************************************************************)
EXTENDS Session, SequenceTheorems, TLAPS

-----------------------------------------------------------------------------
(* Sequences of cells. *)

LEMMA BytesType ==
    ASSUME NEW r \in Record
    PROVE  /\ Bytes(r) \in Seq(Cell)
           /\ Len(Bytes(r)) = r.size
           /\ r.size \in Nat
<1>1. r.size \in Nat
  BY SizesAssumption DEF Record
<1>2. \A i \in 1..r.size : [rec |-> r, at |-> i] \in Cell
  BY DEF Cell
<1>. QED  BY <1>1, <1>2 DEF Bytes

LEMMA BytesHead ==
    ASSUME NEW r \in Record, NEW k \in 0..r.size
    PROVE  /\ SubSeq(Bytes(r), 1, k) \in Seq(Cell)
           /\ Len(SubSeq(Bytes(r), 1, k)) = k
           /\ \A i \in 1..k : SubSeq(Bytes(r), 1, k)[i] = Bytes(r)[i]
<1>. DEFINE b == Bytes(r)
<1>1. b \in Seq(Cell) /\ Len(b) = r.size /\ r.size \in Nat
  BY BytesType
<1>. HIDE DEF b
<1>2. \A i \in 1..k : b[i] \in Cell
  BY <1>1
<1>3. /\ SubSeq(b, 1, k) \in Seq(Cell)
      /\ Len(SubSeq(b, 1, k)) = IF 1 <= k THEN k - 1 + 1 ELSE 0
      /\ \A i \in 1..(k - 1 + 1) : SubSeq(b, 1, k)[i] = b[1 + i - 1]
  BY <1>1, <1>2, SubSeqProperties
<1>. QED  BY <1>1, <1>3 DEF b

(* A file that is given the head of what was sent ... *)
LEMMA AppendHead ==
    ASSUME NEW r \in Record, NEW k \in 0..r.size, NEW s \in Seq(Cell)
    PROVE  /\ s \o SubSeq(Bytes(r), 1, k) \in Seq(Cell)
           /\ IsPrefix(s \o SubSeq(Bytes(r), 1, k), s \o Bytes(r))
           /\ k = r.size => s \o SubSeq(Bytes(r), 1, k) = s \o Bytes(r)
<1>. DEFINE b == Bytes(r)
            h == SubSeq(b, 1, k)
<1>1. b \in Seq(Cell) /\ Len(b) = r.size /\ r.size \in Nat /\ Len(s) \in Nat
  BY BytesType
<1>2. h \in Seq(Cell) /\ Len(h) = k /\ \A i \in 1..k : h[i] = b[i]
  BY BytesHead
<1>. HIDE DEF b, h
<1>3. /\ s \o h \in Seq(Cell) /\ s \o b \in Seq(Cell)
      /\ Len(s \o h) = Len(s) + k /\ Len(s \o b) = Len(s) + r.size
  <2>1. s \o h \in Seq(Cell) /\ Len(s \o h) = Len(s) + Len(h)
    BY <1>2, ConcatProperties
  <2>2. s \o b \in Seq(Cell) /\ Len(s \o b) = Len(s) + Len(b)
    BY <1>1, ConcatProperties
  <2>. QED  BY <1>1, <1>2, <2>1, <2>2
<1>4. \A i \in 1..Len(s \o h) : (s \o h)[i] = (s \o b)[i]
  BY <1>1, <1>2
<1>5. SubSeq(s \o h, 1, Len(s \o h)) = SubSeq(s \o b, 1, Len(s \o h))
  BY <1>1, <1>3, <1>4
<1>6. k = r.size => h = b
  BY <1>1, <1>2
<1>7. IsPrefix(s \o h, s \o b)
  BY <1>1, <1>3, <1>5 DEF IsPrefix
<1>. QED  BY <1>3, <1>6, <1>7 DEF b, h

(* ... stays a prefix when it is given nothing. *)
LEMMA PrefixGrows ==
    ASSUME NEW d \in Seq(Cell), NEW s \in Seq(Cell), NEW u \in Seq(Cell), IsPrefix(d, s)
    PROVE  IsPrefix(d, s \o u)
<1>1. /\ Len(d) \in Nat /\ Len(s) \in Nat /\ Len(u) \in Nat /\ Len(d) <= Len(s)
      /\ s \o u \in Seq(Cell) /\ Len(s \o u) = Len(s) + Len(u)
  BY DEF IsPrefix
<1>2. \A i \in 1..Len(d) : s[i] = (s \o u)[i]
  BY <1>1
<1>3. SubSeq(s, 1, Len(d)) = SubSeq(s \o u, 1, Len(d))
  BY <1>1, <1>2
<1>. QED  BY <1>1, <1>3 DEF IsPrefix

LEMMA PrefixOfItself ==
    ASSUME NEW s \in Seq(Cell)
    PROVE  IsPrefix(s, s)
BY DEF IsPrefix

-----------------------------------------------------------------------------
(* Types. *)

USE DEF TypeOK

LEMMA ParseType ==
    ASSUME TypeOK, NEW r \in Record
    PROVE  Parse(r) \in Dive
<1>1. drift \in Int
  BY DriftsAssumption DEF SplitterType, DivedataType, FlagsType
<1>2. r.date \in Int
  <2>1. r.date \in Dates
    BY DEF Record
  <2>2. r.date \in Nat
    BY <2>1, DatesAssumption
  <2>. QED  BY <2>2
<1>3. Date(r) \in Int
  BY <1>1, <1>2 DEF Date
<1>. QED  BY <1>3 DEF Parse, Dive

LEMMA doparseType ==
    ASSUME TypeOK, NEW r \in Record, doparse(r)
    PROVE  dives' \in Seq(Dive) /\ collected' \in Nat
BY ParseType DEF SplitterType, DivedataType, FlagsType, doparse

LEMMA CurrentType ==
    ASSUME TypeOK, transferred # <<>>
    PROVE  Current \in Record
<1>1. transferred \in Seq(Record) /\ Len(transferred) \in Nat /\ Len(transferred) # 0
  BY EmptySeq DEF SplitterType, DivedataType, FlagsType
<1>. QED  BY <1>1 DEF Current, Last

(* dive_cb runs only when it has been given a record. *)
HasCurrent == pc \in {"write", "filter"} => transferred # <<>>

(* What the splitter reads in the contents of the file. *)
LEMMA BufferType ==
    ASSUME TypeOK
    PROVE  /\ Buffer \in Seq(Nat \cup {NoMagic})
           /\ Len(Buffer) = Len(contents)
           /\ Len(Buffer) \in Nat
<1>1. contents \in Seq(Cell) /\ Len(contents) \in Nat
  BY DEF SplitterType, DivedataType, FlagsType
<1>2. \A i \in 1..Len(contents) : contents[i].rec.size \in Nat
  <2> SUFFICES ASSUME NEW i \in 1..Len(contents) PROVE contents[i].rec.size \in Nat
    OBVIOUS
  <2>1. contents[i] \in Cell
    BY <1>1
  <2>2. contents[i].rec \in Record
    BY <2>1 DEF Cell
  <2>. QED  BY <2>2, SizesAssumption DEF Record
<1>. QED  BY <1>1, <1>2 DEF Buffer, HeaderViews

LEMMA VisitType ==
    ASSUME TypeOK, NEW more \in BOOLEAN, S!Visit(more), UNCHANGED contents
    PROVE  /\ offset' \in Nat /\ index' \in Nat
           /\ visited' \in Seq([at : Nat, size : Nat])
           /\ result' \in S!Results
           /\ offset + 1 \in 1..Len(contents)
<1>1. offset \in Nat /\ offset < Len(Buffer) /\ offset + 1 \in 1..Len(contents)
  BY BufferType DEF SplitterType, DivedataType, FlagsType, S!Visit
<1>2. S!Header \in Nat
  BY <1>1, BufferType DEF S!Visit, S!HasMagic, S!Header
<1>. DEFINE v == [at |-> offset, size |-> S!Header]
<1>3. v \in [at : Nat, size : Nat]
  BY <1>1, <1>2
<1>4. visited' = Append(visited, v)
  BY DEF S!Visit
<1>5. visited' \in Seq([at : Nat, size : Nat])
  BY <1>3, <1>4 DEF SplitterType, DivedataType, FlagsType
<1>6. offset' \in Nat /\ index' \in Nat
  BY <1>1, <1>2 DEF SplitterType, DivedataType, FlagsType, S!Visit
<1>7. result' \in S!Results
  BY DEF SplitterType, DivedataType, FlagsType, S!Visit, S!Results
<1>. QED  BY <1>1, <1>5, <1>6, <1>7

LEMMA ReplayedType ==
    ASSUME TypeOK, offset + 1 \in 1..Len(contents), NEW r \in Replayed
    PROVE  r \in Record
<1>1. contents[offset + 1] \in Cell
  BY DEF SplitterType, DivedataType, FlagsType
<1>2. contents[offset + 1].rec \in Record
  BY <1>1 DEF Cell
<1>. QED  BY <1>2 DEF Replayed, Record

(* The actions keep the types; those of the replay through the splitter.   *)
LEMMA TypeInit == Init => TypeOK
<1> SUFFICES ASSUME Init PROVE TypeOK
  OBVIOUS
<1>1. ProgramType
  BY DEF Init, ProgramType, Labels
<1>2. "ok" \in S!Results
  BY DEF S!Results
<1>3. SplitterType
  BY <1>2 DEF Init, SplitterType
<1>4. DivedataType
  BY DEF Init, DivedataType
<1>5. FilesType
  BY DEF Init, FilesType, File, Absent
<1>6. FlagsType
  <2>1. 0 \in 0..MaxRuns
    BY MaxRunsAssumption
  <2>. QED  BY <2>1 DEF Init, FlagsType
<1>. QED  BY <1>1, <1>3, <1>4, <1>5, <1>6

LEMMA GotoType ==
    ASSUME TypeOK, NEW label \in Labels, Goto(label)
    PROVE  ProgramType' /\ SplitterType'
BY DEF Goto, process, signals, splitter, ProgramType, SplitterType

LEMMA ExitType ==
    ASSUME NEW status \in {"success", "failure", "killed"}, Exit(status)
    PROVE  ProgramType' /\ SplitterType'
<1>1. ProgramType'
  BY DEF Exit, ProgramType, Labels
<1>2. "ok" \in S!Results
  BY DEF S!Results
<1>3. SplitterType'
  BY <1>2 DEF Exit, SplitterType
<1>. QED  BY <1>1, <1>3

LEMMA FreeDivesType ==
    ASSUME TypeOK, FreeDives
    PROVE  DivedataType'
BY DEF FreeDives, DivedataType

LEMMA NoDivesType ==
    ASSUME NoDives
    PROVE  DivedataType'
BY DEF NoDives, DivedataType

LEMMA WriteType ==
    ASSUME TypeOK, transferred # <<>>
    PROVE  /\ \A k \in 0..Current.size : AppendToDump(k) => dump' \in Seq(Cell)
           /\ sent \o Bytes(Current) \in Seq(Cell)
           /\ Current.size \in Nat
<1>1. Current \in Record /\ Current.size \in Nat
  BY CurrentType, BytesType
<1>2. dump \in Seq(Cell) /\ sent \in Seq(Cell)
  BY DEF FilesType
<1>3. Bytes(Current) \in Seq(Cell)
  BY <1>1, BytesType
<1>4. \A k \in 0..Current.size : dump \o SubSeq(Bytes(Current), 1, k) \in Seq(Cell)
  BY <1>1, <1>2, AppendHead
<1>5. sent \o Bytes(Current) \in Seq(Cell)
  BY <1>2, <1>3
<1>. QED  BY <1>1, <1>4, <1>5 DEF AppendToDump

LEMMA FileValues ==
    /\ <<>> \in Seq(Cell)
    /\ <<>> \in Seq([at : Nat, size : Nat])
    /\ Absent \in File /\ Torn \in File
    /\ \A ds \in Seq(Dive) : Written(ds) \in File
BY DEF File, Absent, Torn, Written

LEMMA TypeNext ==
    ASSUME TypeOK, HasCurrent, [Next]_vars
    PROVE  TypeOK'
<1>. USE DEF history, splitter, signals, divedata, handles, disk, process, Fails
<1>1. ASSUME NEW o \in Options, Run(o) PROVE TypeOK'
  <2>1. runs' \in 0..MaxRuns
    BY <1>1, MaxRunsAssumption DEF Run, FlagsType
  <2>2. ProgramType' /\ SplitterType'
    BY <1>1 DEF Run, ProgramType, SplitterType, Labels
  <2>3. DivedataType' /\ FilesType'
    BY <1>1 DEF Run, DivedataType, FilesType
  <2>4. FlagsType'
    BY <1>1, <2>1 DEF Run, FlagsType
  <2>. QED  BY <2>2, <2>3, <2>4
<1>2. CASE Search
  <2>1. ProgramType' /\ SplitterType'
    BY <1>2, GotoType, ExitType DEF Search, Labels
  <2>. QED  BY <1>2, <2>1 DEF Search, DivedataType, FilesType, FlagsType
<1>3. CASE OpenStream
  <2>1. ProgramType' /\ SplitterType'
    BY <1>3, GotoType, ExitType DEF OpenStream, Labels
  <2>. QED  BY <1>3, <2>1 DEF OpenStream, DivedataType, FilesType, FlagsType
<1>4. CASE OpenDevice
  <2>1. ProgramType' /\ SplitterType'
    BY <1>4, GotoType DEF OpenDevice, Labels
  <2>. QED  BY <1>4, <2>1 DEF OpenDevice, DivedataType, FilesType, FlagsType
<1>5. CASE Register
  <2>1. ProgramType' /\ SplitterType'
    BY <1>5, GotoType DEF Register, Labels
  <2>. QED  BY <1>5, <2>1 DEF Register, DivedataType, FilesType, FlagsType
<1>6. CASE Begin
  <2>1. ProgramType' /\ SplitterType'
    BY <1>6, GotoType DEF Begin, Labels
  <2>2. DivedataType'
    BY <1>6, NoDivesType DEF Begin
  <2>3. FilesType'
    <3>1. dump' \in {<<>>, dump} /\ sent' = <<>> /\ output' = output
      BY <1>6 DEF Begin
    <3>. QED  BY <3>1, FileValues DEF FilesType
  <2>4. FlagsType'
    BY <1>6 DEF Begin, FlagsType
  <2>. QED  BY <2>1, <2>2, <2>3, <2>4
<1>7. CASE Transfer
  <2>1. ProgramType' /\ SplitterType'
    BY <1>7, GotoType DEF Transfer, Labels
  <2>2. log[Len(transferred) + 1] \in Record
    BY <1>7, LogsAssumption DEF Transfer, FlagsType, DivedataType
  <2>3. DivedataType'
    BY <1>7, <2>2 DEF Transfer, DivedataType
  <2>. QED  BY <1>7, <2>1, <2>3 DEF Transfer, FilesType, FlagsType
<1>8. CASE EndOfLog
  <2>1. ProgramType' /\ SplitterType'
    BY <1>8, GotoType DEF EndOfLog, Labels
  <2>. QED  BY <1>8, <2>1 DEF EndOfLog, DivedataType, FilesType, FlagsType
<1>9. CASE TransferFails
  <2>1. ProgramType' /\ SplitterType'
    BY <1>9, GotoType DEF TransferFails, Labels
  <2>. QED  BY <1>9, <2>1 DEF TransferFails, DivedataType, FilesType, FlagsType
<1>10. CASE Write
  <2>1. ProgramType' /\ SplitterType'
    BY <1>10, GotoType DEF Write, Labels
  <2>2. transferred # <<>>
    BY <1>10 DEF Write, HasCurrent
  <2>3. FilesType'
    <3>1. /\ Current.size \in 0..Current.size
          /\ \A k \in 0..(Current.size - 1) : k \in 0..Current.size
      BY <2>2, WriteType
    <3>2. dump' \in Seq(Cell)
      BY <1>10, <2>2, <3>1, WriteType DEF Write, FilesType
    <3>. QED  BY <1>10, <2>2, <3>2, WriteType DEF Write, FilesType
  <2>4. FlagsType'
    BY <1>10 DEF Write, FlagsType
  <2>. QED  BY <1>10, <2>1, <2>3, <2>4 DEF Write, DivedataType
<1>11. CASE Filter
  <2>1. ProgramType' /\ SplitterType'
    BY <1>11, GotoType DEF Filter, Labels
  <2>2. Current \in Record
    BY <1>11, CurrentType DEF Filter, HasCurrent
  <2>3. DivedataType'
    BY <1>11, <2>2, doparseType DEF Filter, DivedataType
  <2>. QED  BY <1>11, <2>1, <2>3 DEF Filter, FilesType, FlagsType
<1>12. CASE Downloaded
  <2>1. ProgramType' /\ SplitterType'
    BY <1>12, GotoType DEF Downloaded, Labels
  <2>2. DivedataType'
    BY <1>12, FreeDivesType DEF Downloaded, DivedataType
  <2>. QED  BY <1>12, <2>1, <2>2 DEF Downloaded, FilesType, FlagsType
<1>13. CASE CloseDevice
  <2>1. ProgramType' /\ SplitterType'
    BY <1>13, GotoType DEF CloseDevice, Labels
  <2>. QED  BY <1>13, <2>1 DEF CloseDevice, DivedataType, FilesType, FlagsType
<1>14. CASE CloseStream
  <2>1. ProgramType' /\ SplitterType'
    BY <1>14, ExitType DEF CloseStream
  <2>. QED  BY <1>14, <2>1 DEF CloseStream, DivedataType, FilesType, FlagsType
<1>15. CASE Save
  <2>1. ProgramType' /\ SplitterType'
    BY <1>15, GotoType DEF Save, Labels
  <2>2. DivedataType'
    BY <1>15, FreeDivesType DEF Save
  <2>3. output' \in File
    <3>1. output' \in {Written(dives), output, Torn}
      BY <1>15 DEF Save
    <3>. QED  BY <3>1, FileValues DEF FilesType, DivedataType
  <2>4. FlagsType'
    BY <1>15 DEF Save, FlagsType
  <2>. QED  BY <1>15, <2>1, <2>2, <2>3, <2>4 DEF Save, FilesType
<1>16. CASE Read
  <2>1. SplitterType' /\ ProgramType'
    <3>1. CASE Exit("failure")
      BY <3>1, ExitType
    <3>2. CASE ~Exit("failure")
      <4>1. /\ contents' = dump /\ offset' = 0 /\ index' = 0
            /\ visited' = <<>> /\ result' = "running"
        BY <1>16, <3>2 DEF Read
      <4>2. "running" \in S!Results
        BY DEF S!Results
      <4>3. SplitterType'
        BY <4>1, <4>2, FileValues DEF FilesType, SplitterType
      <4>4. ProgramType'
        BY <1>16, <3>2 DEF Read, ProgramType, Labels
      <4>. QED  BY <4>3, <4>4
    <3>. QED  BY <3>1, <3>2
  <2>2. DivedataType'
    BY <1>16, NoDivesType DEF Read, DivedataType
  <2>3. FilesType'
    <3>1. sent' \in {<<>>, sent} /\ UNCHANGED <<dump, output>>
      BY <1>16 DEF Read
    <3>. QED  BY <3>1, FileValues DEF FilesType
  <2>4. FlagsType'
    BY <1>16 DEF Read, FlagsType
  <2>. QED  BY <2>1, <2>2, <2>3, <2>4
<1>17. CASE ReplayRecord
  <2>1. UNCHANGED contents
    BY <1>17 DEF ReplayRecord
  <2>2. ASSUME NEW more \in BOOLEAN, S!Visit(more)
        PROVE  SplitterType' /\ offset + 1 \in 1..Len(contents)
    BY <2>1, <2>2, VisitType DEF SplitterType
  <2>3. SplitterType'
    BY <1>17, <2>2 DEF ReplayRecord
  <2>4. DivedataType'
    <3>1. CASE UNCHANGED divedata
      BY <3>1 DEF DivedataType
    <3>2. CASE ~UNCHANGED divedata
      <4>1. PICK more \in BOOLEAN, r \in Replayed :
               /\ S!Visit(more)
               /\ transferred' = Append(transferred, r)
               /\ IF more THEN doparse(r) ELSE UNCHANGED <<dives, collected>>
        BY <1>17, <3>2 DEF ReplayRecord
      <4>2. r \in Record
        BY <4>1, <2>2, ReplayedType
      <4>3. dives' \in Seq(Dive) /\ collected' \in Nat
        BY <4>1, <4>2, doparseType DEF DivedataType
      <4>. QED  BY <4>1, <4>2, <4>3 DEF DivedataType
    <3>. QED  BY <3>1, <3>2
  <2>. QED  BY <1>17, <2>3, <2>4 DEF ReplayRecord, ProgramType, FilesType, FlagsType
<1>18. CASE ReplayEnds
  <2>1. result' \in S!Results
    BY <1>18 DEF ReplayEnds, S!Finish, S!Reject, S!RejectEmpty, S!RejectMagic,
                 S!RejectLength, S!Fail, S!Errors, S!Results
  <2>2. UNCHANGED <<contents, offset, index, visited>>
    BY <1>18 DEF ReplayEnds, S!Finish, S!Reject, S!RejectEmpty, S!RejectMagic,
                 S!RejectLength, S!Fail
  <2>3. SplitterType'
    BY <2>1, <2>2 DEF SplitterType
  <2>. QED  BY <1>18, <2>3 DEF ReplayEnds, ProgramType, DivedataType, FilesType, FlagsType
<1>19. CASE Replay
  <2>1. ProgramType' /\ SplitterType'
    BY <1>19, GotoType, ExitType DEF Replay, Labels
  <2>2. DivedataType'
    BY <1>19, FreeDivesType DEF Replay, DivedataType
  <2>. QED  BY <1>19, <2>1, <2>2 DEF Replay, FilesType, FlagsType
<1>20. CASE Return
  <2>1. ProgramType' /\ SplitterType'
    BY <1>20, ExitType DEF Return
  <2>. QED  BY <1>20, <2>1 DEF Return, DivedataType, FilesType, FlagsType
<1>21. CASE Kill
  <2>1. ProgramType' /\ SplitterType'
    BY <1>21, ExitType DEF Kill
  <2>2. DivedataType'
    BY <1>21, FreeDivesType DEF Kill
  <2>3. dump' \in Seq(Cell) /\ sent' \in Seq(Cell)
    <3>1. CASE pc = "write" /\ dumpFile
      BY <1>21, <3>1, WriteType DEF Kill, HasCurrent
    <3>2. CASE ~(pc = "write" /\ dumpFile)
      BY <1>21, <3>2 DEF Kill, FilesType
    <3>. QED  BY <3>1, <3>2
  <2>4. output' \in File
    <3>1. output' \in {output, Torn}
      BY <1>21 DEF Kill
    <3>. QED  BY <3>1, FileValues DEF FilesType
  <2>5. FlagsType'
    BY <1>21 DEF Kill, FlagsType
  <2>. QED  BY <2>1, <2>2, <2>3, <2>4, <2>5 DEF FilesType
<1>22. CASE Interrupt
  <2>1. ProgramType' /\ SplitterType'
    BY <1>22 DEF Interrupt, ProgramType, SplitterType
  <2>2. DivedataType' /\ FilesType' /\ FlagsType'
    BY <1>22 DEF Interrupt, DivedataType, FilesType, FlagsType
  <2>. QED  BY <2>1, <2>2
<1>23. CASE UNCHANGED vars
  BY <1>23 DEF vars, ProgramType, SplitterType, DivedataType, FilesType, FlagsType
<1>24. CASE Download
  BY <1>24, <1>3, <1>4, <1>5, <1>6, <1>7, <1>8, <1>9, <1>10, <1>11, <1>12, <1>13, <1>14, Zenon
     DEF Download
<1>25. CASE Replaying
  BY <1>25, <1>16, <1>17, <1>18, <1>19, <1>20, Zenon DEF Replaying
<1>26. CASE Program
  BY <1>26, <1>2, <1>15, <1>24, <1>25, Zenon DEF Program
<1>. QED  BY <1>1, <1>21, <1>22, <1>23, <1>26, Zenon DEF Next

-----------------------------------------------------------------------------
(* The handles: which are open is a matter of where the program is. *)

Connected == {"register", "begin", "foreach", "write", "filter", "fclose", "closedevice"}

HandlesByLabel ==
    /\ device <=> pc \in Connected \/ (pc = "save" /\ opts.live)
    /\ stream <=> device \/ pc \in {"open", "closestream"}
    /\ dumpFile => pc \in {"foreach", "write", "filter", "fclose"}
    /\ pc \in {"connect", "open", "closestream"} \cup Connected => opts.live
    /\ pc \in {"read", "split", "replayed"} => ~opts.live
    /\ dumpFile => saving

LEMMA HandlesNext ==
    ASSUME TypeOK, HandlesByLabel, [Next]_vars
    PROVE  HandlesByLabel'
<1>. USE DEF HandlesByLabel, Connected, handles, process, Goto, Exit, Fails, history,
             NoOptions, FlagsType
<1>1. ASSUME NEW o \in Options, Run(o) PROVE HandlesByLabel'
  BY <1>1 DEF Run
<1>2. CASE Search
  BY <1>2 DEF Search
<1>3. CASE OpenStream \/ OpenDevice \/ Register
  BY <1>3 DEF OpenStream, OpenDevice, Register
<1>4. CASE Begin
  BY <1>4 DEF Begin
<1>5. CASE Transfer \/ EndOfLog \/ TransferFails
  BY <1>5 DEF Transfer, EndOfLog, TransferFails
<1>6. CASE Write
  BY <1>6 DEF Write
<1>7. CASE Filter \/ Downloaded
  BY <1>7 DEF Filter, Downloaded
<1>8. CASE CloseDevice \/ CloseStream
  BY <1>8 DEF CloseDevice, CloseStream
<1>9. CASE Save
  BY <1>9 DEF Save
<1>10. CASE Read
  BY <1>10 DEF Read
<1>11. CASE ReplayRecord \/ ReplayEnds
  <2>1. UNCHANGED <<pc, opts, handles, saving>>
    <3>1. CASE ReplayRecord
      BY <3>1 DEF ReplayRecord
    <3>2. CASE ReplayEnds
      BY <3>2 DEF ReplayEnds
    <3>. QED  BY <1>11, <3>1, <3>2
  <2>. QED  BY <2>1
<1>12. CASE Replay
  BY <1>12 DEF Replay
<1>13. CASE Kill \/ Return
  BY <1>13 DEF Kill, Return
<1>14. CASE Interrupt
  BY <1>14 DEF Interrupt
<1>15. CASE UNCHANGED vars
  BY <1>15 DEF vars
<1>. QED  BY <1>1, <1>2, <1>3, <1>4, <1>5, <1>6, <1>7, <1>8, <1>9, <1>10, <1>11, <1>12,
             <1>13, <1>14, <1>15
          DEF Next, Program, Download, Replaying

LEMMA HasCurrentNext ==
    ASSUME TypeOK, HasCurrent, [Next]_vars
    PROVE  HasCurrent'
<1>. USE DEF HasCurrent, Goto, Exit, Fails, divedata
<1>1. ASSUME pc' \in {"write", "filter"} PROVE transferred' # <<>>
  <2>1. CASE Transfer
    BY <2>1 DEF Transfer, DivedataType
  <2>2. CASE Write
    BY <2>2 DEF Write
  <2>3. CASE ReplayRecord \/ ReplayEnds
    BY <1>1, <2>3 DEF ReplayRecord, ReplayEnds
  <2>4. CASE Interrupt \/ UNCHANGED vars
    BY <1>1, <2>4 DEF Interrupt, vars
  <2>5. CASE ~(Transfer \/ Write \/ ReplayRecord \/ ReplayEnds \/ Interrupt \/ UNCHANGED vars)
    <3>1. pc' \notin {"write", "filter"}
      BY <2>5 DEF Next, Program, Download, Replaying, Run, Search, OpenStream, OpenDevice,
           Register, Begin, EndOfLog, TransferFails, Filter, Downloaded, CloseDevice,
           CloseStream, Save, Read, Replay, Return, Kill
    <3>. QED  BY <1>1, <3>1
  <2>. QED  BY <2>1, <2>2, <2>3, <2>4, <2>5
<1>. QED  BY <1>1

(* The dump: every way dive_cb leaves the file keeps it a prefix. *)
LEMMA DumpNext ==
    ASSUME TypeOK, HasCurrent, HandlesByLabel, DumpIsPrefix, [Next]_vars
    PROVE  DumpIsPrefix'
<1>. USE DEF disk, history, handles
<1>1. dump \in Seq(Cell) /\ sent \in Seq(Cell)
  BY DEF FilesType
<1>2. CASE Begin
  <2>1. <<>> \in Seq(Cell) /\ IsPrefix(<<>>, <<>>)
    BY FileValues, PrefixOfItself
  <2>. QED  BY <1>2, <2>1 DEF Begin, DumpIsPrefix, HandlesByLabel
<1>3. CASE Write
  <2>1. Current \in Record /\ Bytes(Current) \in Seq(Cell) /\ Current.size \in Nat
    BY <1>3, CurrentType, BytesType DEF Write, HasCurrent
  <2>2. sent' = sent \o Bytes(Current) /\ saving' = saving
    BY <1>3 DEF Write
  <2>3. CASE ~dumpFile
    BY <1>1, <1>3, <2>1, <2>2, <2>3, PrefixGrows DEF Write, DumpIsPrefix
  <2>4. CASE dumpFile
    <3>1. PICK k \in 0..Current.size :
             /\ dump' = dump \o SubSeq(Bytes(Current), 1, k)
             /\ k = Current.size \/ ~dumpFile' \/ lost'
             /\ lost => lost'
      <4>1. CASE AppendToDump(Current.size) /\ UNCHANGED <<dumpFile, lost>>
        <5>1. Current.size \in 0..Current.size
          BY <2>1
        <5>. QED  BY <4>1, <5>1 DEF AppendToDump
      <4>2. ASSUME NEW k \in 0..(Current.size - 1), AppendToDump(k),
                   \/ dumpFile' = FALSE /\ UNCHANGED lost
                   \/ lost' = TRUE /\ UNCHANGED dumpFile
            PROVE  /\ dump' = dump \o SubSeq(Bytes(Current), 1, k)
                   /\ ~dumpFile' \/ lost'
                   /\ lost => lost'
                   /\ k \in 0..Current.size
        <5>1. k \in 0..Current.size
          BY <2>1
        <5>. QED  BY <4>2, <5>1 DEF AppendToDump
      <4>3. \/ AppendToDump(Current.size) /\ UNCHANGED <<dumpFile, lost>>
            \/ \E k \in 0..(Current.size - 1) :
                  /\ AppendToDump(k)
                  /\ \/ dumpFile' = FALSE /\ UNCHANGED lost
                     \/ lost' = TRUE /\ UNCHANGED dumpFile
        BY <1>3, <2>4 DEF Write
      <4>. QED  BY <4>1, <4>2, <4>3
    <3>2. ASSUME saving, ~lost PROVE dump = sent
      BY <2>4, <3>2 DEF DumpIsPrefix
    <3>3. /\ IsPrefix(sent \o SubSeq(Bytes(Current), 1, k), sent \o Bytes(Current))
          /\ k = Current.size =>
                sent \o SubSeq(Bytes(Current), 1, k) = sent \o Bytes(Current)
      BY <1>1, <2>1, AppendHead
    <3>. QED  BY <2>2, <3>1, <3>2, <3>3 DEF DumpIsPrefix
  <2>. QED  BY <2>3, <2>4
<1>4. CASE Kill
  <2>1. dumpFile' = FALSE /\ UNCHANGED <<saving, lost>>
    BY <1>4 DEF Kill
  <2>2. CASE pc = "write" /\ dumpFile
    <3>1. Current \in Record
      BY <2>2, CurrentType DEF HasCurrent
    <3>2. PICK k \in 0..Current.size : dump' = dump \o SubSeq(Bytes(Current), 1, k)
      BY <1>4, <2>2 DEF Kill, AppendToDump
    <3>3. sent' = sent \o Bytes(Current)
      BY <1>4, <2>2 DEF Kill
    <3>4. IsPrefix(sent \o SubSeq(Bytes(Current), 1, k), sent \o Bytes(Current))
      BY <1>1, <3>1, AppendHead
    <3>. QED  BY <2>1, <2>2, <3>2, <3>3, <3>4 DEF DumpIsPrefix
  <2>3. CASE ~(pc = "write" /\ dumpFile)
    BY <1>4, <2>1, <2>3 DEF Kill, DumpIsPrefix
  <2>. QED  BY <2>2, <2>3
<1>5. CASE Read
  BY <1>5 DEF Read, DumpIsPrefix
<1>6. CASE ~(Begin \/ Write \/ Kill \/ Read)
  <2>. DEFINE Kept == UNCHANGED <<dump, sent, saving, lost>> /\ (dumpFile' => dumpFile)
  <2>1. (\E o \in Options : Run(o)) \/ Search => Kept
    BY DEF Run, Search
  <2>2. OpenStream \/ OpenDevice \/ Register => Kept
    BY DEF OpenStream, OpenDevice, Register
  <2>3. Transfer \/ EndOfLog \/ TransferFails \/ Filter => Kept
    BY DEF Transfer, EndOfLog, TransferFails, Filter
  <2>4. Downloaded \/ CloseDevice \/ CloseStream \/ Save => Kept
    BY DEF Downloaded, CloseDevice, CloseStream, Save
  <2>5. ReplayRecord => Kept
    BY DEF ReplayRecord
  <2>6. ReplayEnds \/ Replay \/ Return => Kept
    BY DEF ReplayEnds, Replay, Return
  <2>7. Interrupt \/ UNCHANGED vars => Kept
    BY DEF Interrupt, vars
  <2>8. Kept
    BY <1>6, <2>1, <2>2, <2>3, <2>4, <2>5, <2>6, <2>7
       DEF Next, Program, Download, Replaying
  <2>. QED  BY <2>8 DEF DumpIsPrefix
<1>. QED  BY <1>2, <1>3, <1>4, <1>5, <1>6

-----------------------------------------------------------------------------
(* What a download collects.  Until it stops, the dives are those of the   *)
(* records before the current one, none of which calls for a stop; so the  *)
(* record at which it stops is the first the selection leaves out.         *)

Rejected(rs, i) == (opts.limit > 0 /\ i > opts.limit) \/ Old(rs[i])

ParsedHead(rs, n) == [i \in 1..n |-> Parse(rs[i])]

Gathered(rs, n) ==
    /\ collected = n
    /\ dives = ParsedHead(rs, n)
    /\ \A i \in 1..n : ~Rejected(rs, i)

Transferring ==
    /\ Len(transferred) <= Len(log)
    /\ \A i \in 1..Len(transferred) : transferred[i] = log[i]

Gathering ==
    opts.live =>
        /\ pc \in {"foreach", "write", "filter"} => Transferring
        /\ pc = "foreach" => Gathered(log, Len(transferred))
        /\ pc \in {"write", "filter"} => Gathered(log, Len(transferred) - 1)
        /\ (pc = "fclose" /\ rc = "ok") \/ pc = "save" =>
              /\ dives = Parsed(Selected(log))
              /\ dives = Parsed(Selected(transferred))

(* The memory of the computer and the options stay what they are in a run. *)
LEMMA LogType ==
    ASSUME TypeOK
    PROVE  log \in Seq(Record) /\ Len(log) \in Nat
BY LogsAssumption DEF FlagsType

LEMMA SameGathered ==
    ASSUME UNCHANGED <<log, opts, drift>>
    PROVE  /\ \A n : ParsedHead(log, n)' = ParsedHead(log, n)
           /\ \A i : Rejected(log, i)' = Rejected(log, i)
           /\ Parsed(Selected(log))' = Parsed(Selected(log))
           /\ UNCHANGED transferred =>
                Parsed(Selected(transferred))' = Parsed(Selected(transferred))
<1>1. \A n : ParsedHead(log, n)' = ParsedHead(log, n)
  BY DEF ParsedHead, Parse, Date
<1>2. \A i : Rejected(log, i)' = Rejected(log, i)
  BY DEF Rejected, Old, Date
<1>3. Parsed(Selected(log))' = Parsed(Selected(log))
  BY DEF Parsed, Parse, Selected, Old, Date
<1>4. UNCHANGED transferred => Parsed(Selected(transferred))' = Parsed(Selected(transferred))
  BY DEF Parsed, Parse, Selected, Old, Date
<1>. QED  BY <1>1, <1>2, <1>3, <1>4

(* The selection ends before the first record that calls for a stop ... *)
LEMMA StopSelects ==
    ASSUME NEW rs \in Seq(Record), NEW n \in 0..Len(rs),
           \A i \in 1..n : ~Rejected(rs, i),
           n = Len(rs) \/ Rejected(rs, n + 1)
    PROVE  ParsedHead(rs, n) = Parsed(Selected(rs))
<1>. DEFINE over == {i \in 1..Len(rs) : \/ opts.limit > 0 /\ i > opts.limit
                                        \/ Old(rs[i])}
            head == SubSeq(rs, 1, n)
<1>1. Len(rs) \in Nat /\ n \in Nat /\ n <= Len(rs)
  OBVIOUS
<1>2. over = {i \in 1..Len(rs) : Rejected(rs, i)}
  BY DEF Rejected
<1>. HIDE DEF over
<1>3. n = IF over = {} THEN Len(rs) ELSE Min(over) - 1
  <2>1. CASE over = {}
    <3>1. ASSUME n # Len(rs) PROVE FALSE
      <4>1. n + 1 \in 1..Len(rs) /\ Rejected(rs, n + 1)
        BY <1>1, <3>1
      <4>. QED  BY <1>2, <2>1, <4>1
    <3>. QED  BY <2>1, <3>1
  <2>2. CASE over # {}
    <3>1. PICK i \in 1..Len(rs) : Rejected(rs, i)
      BY <1>2, <2>2
    <3>2. n # Len(rs)
      BY <1>1, <3>1
    <3>3. n + 1 \in over
      BY <1>1, <1>2, <3>2
    <3>4. \A j \in over : j \in Nat /\ n + 1 <= j
      BY <1>1, <1>2
    <3>5. Min(over) \in over /\ \A j \in over : Min(over) <= j
      BY <3>3, <3>4 DEF Min
    <3>6. Min(over) = n + 1
      BY <1>1, <3>3, <3>4, <3>5
    <3>. QED  BY <1>1, <2>2, <3>6
  <2>. QED  BY <2>1, <2>2
<1>4. Selected(rs) = head
  BY <1>3 DEF Selected, over
<1>5. Len(head) = n /\ \A i \in 1..n : head[i] = rs[i]
  BY <1>1
<1>. HIDE DEF head
<1>. QED  BY <1>4, <1>5 DEF Parsed, ParsedHead

LEMMA GatheringNext ==
    ASSUME TypeOK, HasCurrent, HandlesByLabel, Gathering, [Next]_vars
    PROVE  Gathering'
<1>. USE DEF handles, process, disk, divedata, history
<1>1. CASE Begin
  <2>1. dives' = <<>> /\ transferred' = <<>> /\ collected' = 0
    BY <1>1 DEF Begin, NoDives
  <2>2. ParsedHead(log, 0)' = <<>>
    BY DEF ParsedHead
  <2>3. Len(transferred') = 0 /\ Len(log') \in Nat
    BY <1>1, <2>1, LogType DEF Begin
  <2>4. Transferring' /\ Gathered(log, 0)'
    BY <2>1, <2>2, <2>3 DEF Transferring, Gathered
  <2>5. pc' = "foreach" \/ pc' = "closedevice"
    BY <1>1 DEF Begin, Goto, Fails
  <2>6. Gathered(log, Len(transferred))'
    BY <2>1, <2>3, <2>4
  <2>. QED  BY <2>4, <2>5, <2>6 DEF Gathering
<1>2. CASE Transfer
  <2>1. PICK n \in Nat : n = Len(transferred)
    BY DEF DivedataType
  <2>2. /\ opts.live /\ Transferring /\ Gathered(log, n) /\ n < Len(log)
        /\ transferred' = Append(transferred, log[n + 1]) /\ pc' = "write"
        /\ UNCHANGED <<log, drift, opts, dives, collected>>
    BY <1>2, <2>1 DEF Transfer, Goto, Gathering, HandlesByLabel, Connected
  <2>3. transferred \in Seq(Record) /\ log[n + 1] \in Record
    BY <2>2, LogType DEF DivedataType
  <2>4. Len(transferred') = n + 1 /\ Len(transferred') - 1 = n
    BY <2>1, <2>2, <2>3
  <2>5. Transferring'
    BY <2>1, <2>2, <2>3, <2>4, LogType DEF Transferring
  <2>6. Gathered(log, n)'
    BY <2>2, SameGathered DEF Gathered
  <2>. QED  BY <2>2, <2>4, <2>5, <2>6 DEF Gathering
<1>3. CASE EndOfLog
  <2>1. /\ opts.live /\ Gathered(log, Len(transferred)) /\ Len(transferred) = Len(log)
        /\ Transferring
        /\ pc' = "fclose" /\ UNCHANGED <<log, drift, opts, dives, transferred>>
    BY <1>3 DEF EndOfLog, Goto, Gathering, HandlesByLabel, Connected
  <2>2. dives = Parsed(Selected(log))
    BY <2>1, LogType, StopSelects DEF Gathered
  <2>3. transferred = log
    BY <2>1, LogType DEF Transferring, DivedataType
  <2>. QED  BY <2>1, <2>2, <2>3, SameGathered DEF Gathering
<1>4. CASE Filter
  <2>. DEFINE n == Len(transferred)
  <2>1. /\ opts.live /\ Transferring /\ Gathered(log, n - 1)
        /\ UNCHANGED <<log, drift, opts, transferred>>
    BY <1>4 DEF Filter, Goto, Gathering, HandlesByLabel, Connected
  <2>2. transferred # <<>> /\ transferred \in Seq(Record)
    BY <1>4 DEF Filter, HasCurrent, DivedataType
  <2>3. n \in Nat \ {0} /\ n <= Len(log) /\ Current = log[n] /\ n \in 1..Len(log)
    BY <2>1, <2>2, LogType, EmptySeq DEF Transferring, Current, Last
  <2>4. Current \in Record
    BY <2>3, LogType
  <2>5. Stops(Current) <=> Rejected(log, n)
    <3>1. LimitReached <=> opts.limit > 0 /\ n > opts.limit
      <4>1. opts.limit \in Nat
        BY OptionsAssumption DEF ProgramType, NoOptions, Option
      <4>2. collected = n - 1
        BY <2>1 DEF Gathered
      <4>. QED  BY <2>3, <4>1, <4>2 DEF LimitReached
    <3>. QED  BY <2>3, <3>1 DEF Stops, Rejected
  <2>6. CASE Stops(Current)
    <3>1. n - 1 \in 0..Len(log) /\ (n - 1) + 1 = n
      BY <2>3, LogType
    <3>2. ParsedHead(log, n - 1) = Parsed(Selected(log))
      BY <2>1, <2>5, <2>6, <3>1, LogType, StopSelects DEF Gathered
    <3>3. /\ \A i \in 1..n : Rejected(transferred, i) <=> Rejected(log, i)
          /\ ParsedHead(transferred, n - 1) = ParsedHead(log, n - 1)
      BY <2>1, <2>3 DEF Transferring, Rejected, ParsedHead
    <3>4. ParsedHead(transferred, n - 1) = Parsed(Selected(transferred))
      <4>1. n - 1 \in 0..Len(transferred) /\ n \in 1..n /\ \A i \in 1..(n - 1) : i \in 1..n
        BY <2>3
      <4>2. Rejected(transferred, (n - 1) + 1)
        BY <2>5, <2>6, <3>1, <3>3, <4>1
      <4>3. \A i \in 1..(n - 1) : ~Rejected(transferred, i)
        BY <2>1, <3>3, <4>1 DEF Gathered
      <4>. QED  BY <2>2, <4>1, <4>2, <4>3, StopSelects
    <3>5. pc' = "fclose" /\ dives' = ParsedHead(log, n - 1)
      BY <1>4, <2>1, <2>6 DEF Filter, Goto, Gathered
    <3>. QED  BY <2>1, <3>2, <3>3, <3>4, <3>5, SameGathered DEF Gathering
  <2>7. CASE ~Stops(Current)
    <3>1. pc' = "foreach" /\ dives' = Append(dives, Parse(log[n])) /\ collected' = n
      BY <1>4, <2>1, <2>3, <2>7 DEF Filter, Goto, Gathered, doparse
    <3>2. Append(ParsedHead(log, n - 1), Parse(log[n])) = ParsedHead(log, n)
      BY <2>3 DEF ParsedHead
    <3>3. \A i \in 1..n : ~Rejected(log, i)
      BY <2>1, <2>3, <2>5, <2>7 DEF Gathered
    <3>4. Gathered(log, n)'
      BY <2>1, <3>1, <3>2, <3>3, SameGathered DEF Gathered
    <3>5. Transferring'
      BY <2>1 DEF Transferring
    <3>. QED  BY <2>1, <3>1, <3>4, <3>5 DEF Gathering
  <2>. QED  BY <2>6, <2>7
<1>5. CASE Downloaded
  <2>1. \/ /\ rc = "ok" /\ pc = "fclose" /\ pc' = "save"
           /\ UNCHANGED <<dives, transferred>>
        \/ pc' = "closedevice"
    BY <1>5 DEF Downloaded, Goto
  <2>2. UNCHANGED <<log, drift, opts>>
    BY <1>5 DEF Downloaded, Goto
  <2>. QED  BY <2>1, <2>2, SameGathered DEF Gathering
<1>6. CASE Write \/ Interrupt \/ UNCHANGED vars
  <2>1. /\ UNCHANGED <<log, drift, opts, transferred, dives, collected, rc>>
        /\ pc' = pc \/ (pc = "write" /\ pc' = "filter")
    BY <1>6 DEF Write, Interrupt, vars, Goto
  <2>2. Transferring' = Transferring /\ \A n : Gathered(log, n)' = Gathered(log, n)
    BY <2>1, SameGathered DEF Transferring, Gathered
  <2>. QED  BY <2>1, <2>2, SameGathered DEF Gathering
<1>7. CASE TransferFails
  BY <1>7 DEF TransferFails, Goto, Fails, Gathering
<1>8. CASE Read \/ ReplayRecord \/ ReplayEnds \/ Replay
  <2>1. ~opts.live
    BY <1>8 DEF Read, ReplayRecord, ReplayEnds, Replay, HandlesByLabel
  <2>2. UNCHANGED opts \/ opts' = NoOptions
    <3>1. CASE Read
      BY <3>1 DEF Read, Exit
    <3>2. CASE ReplayRecord
      BY <3>2 DEF ReplayRecord
    <3>3. CASE ReplayEnds
      BY <3>3 DEF ReplayEnds
    <3>4. CASE Replay
      BY <3>4 DEF Replay, Goto, Exit
    <3>. QED  BY <1>8, <3>1, <3>2, <3>3, <3>4
  <2>3. ~NoOptions.live
    BY DEF NoOptions
  <2>. QED  BY <2>1, <2>2, <2>3 DEF Gathering
<1>9. ASSUME NEW o \in Options, Run(o) PROVE Gathering'
  BY <1>9 DEF Run, Gathering
<1>10. CASE Search \/ OpenStream \/ OpenDevice \/ Register
  BY <1>10 DEF Search, OpenStream, OpenDevice, Register, Goto, Exit, Fails, Gathering
<1>11. CASE CloseDevice \/ CloseStream \/ Save \/ Return \/ Kill
  BY <1>11 DEF CloseDevice, CloseStream, Save, Return, Kill, Goto, Exit, Gathering
<1>. QED  BY <1>1, <1>2, <1>3, <1>4, <1>5, <1>6, <1>7, <1>8, <1>9, <1>10, <1>11
          DEF Next, Program, Download, Replaying

-----------------------------------------------------------------------------
(* The inductive invariant and what it implies. *)

Invariant == TypeOK /\ HasCurrent /\ HandlesByLabel /\ DumpIsPrefix /\ Gathering

LEMMA InitInvariant == Init => Invariant
<1>1. Init => HasCurrent /\ HandlesByLabel /\ DumpIsPrefix /\ Gathering
  BY DEF Init, HasCurrent, HandlesByLabel, Connected, DumpIsPrefix, Gathering
<1>. QED  BY <1>1, TypeInit DEF Invariant

THEOREM SessionInvariant == Spec => []Invariant
<1>1. Invariant /\ [Next]_vars => Invariant'
  BY TypeNext, HasCurrentNext, HandlesNext, DumpNext, GatheringNext
     DEF Invariant
<1>. QED  BY InitInvariant, <1>1, PTL DEF Spec

(* Every variable of a run keeps its type, whatever fails. *)
THEOREM TypeCorrect == Spec => []TypeOK
<1>1. Invariant => TypeOK
  BY DEF Invariant
<1>. QED  BY <1>1, SessionInvariant, PTL

(* On every path through the error handling of dowork the device is closed *)
(* before its stream, the dump before both, and nothing is left open.      *)
THEOREM HandlesClosed == Spec => []HandlesClosedInOrder
<1>1. Invariant => HandlesClosedInOrder
  BY DEF Invariant, HandlesByLabel, Connected, HandlesClosedInOrder, FlagsType
<1>. QED  BY <1>1, SessionInvariant, PTL

(* Whatever interrupts a download, its dump is a prefix of what was sent.  *)
THEOREM DumpPrefix == Spec => []DumpIsPrefix
<1>1. Invariant => DumpIsPrefix
  BY DEF Invariant
<1>. QED  BY <1>1, SessionInvariant, PTL

(* Whatever the limits, the date and the way each dive parses, what a      *)
(* download is about to save is what was asked for.                        *)
THEOREM DownloadSelection == Spec => []DownloadSelects
<1>1. Invariant => DownloadSelects
  BY DEF Invariant, Gathering, DownloadSelects
<1>. QED  BY <1>1, SessionInvariant, PTL

(* A dump saved earlier survives a run that does not reach the computer.   *)
THEOREM DumpKept == Spec => DumpKeptUntilConnected
<1>1. Invariant /\ [Next]_vars => [dump' # dump => device]_vars
  <2> SUFFICES ASSUME Invariant, [Next]_vars, dump' # dump PROVE device
    OBVIOUS
  <2>1. Begin \/ Write \/ Kill
    BY DEF disk, Next, Program, Download, Replaying, Run, Search, OpenStream, OpenDevice,
         Register, Transfer, EndOfLog, TransferFails, Filter, Downloaded, CloseDevice,
         CloseStream, Save, Read, ReplayRecord, ReplayEnds, Replay, Return, Interrupt,
         vars
  <2>2. pc \in Connected
    BY <2>1 DEF Begin, Write, Kill, Connected
  <2>. QED  BY <2>2 DEF Invariant, HandlesByLabel
<1>. QED  BY <1>1, SessionInvariant, PTL DEF Spec, DumpKeptUntilConnected

=============================================================================
