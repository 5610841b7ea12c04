\* Headers of 2 bytes, buffers of up to 6: two whole records, or one and a tail.
\* The lengths: one that does not advance, too short by one,
\* the two shortest legal ones, past the end.
CONSTANTS
    HeaderSize = 2
    NoMagic = NoMagic
    MaxLength = 6
    Views = {NoMagic, 0, 2, 3, 4, 7}
    Buffers <- MCBuffers
SPECIFICATION Spec
INVARIANTS
    TypeOK
    RecordsTile
    CountsVisits
    AcceptsDumps
PROPERTY
    Returns
\* the splitter returns
CHECK_DEADLOCK FALSE
