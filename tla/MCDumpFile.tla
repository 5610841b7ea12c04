----------------------------- MODULE MCDumpFile -----------------------------
(***************************************************************************)
(* Small instance of DumpFile: every buffer of up to MaxLength offsets,    *)
(* with every view of Views at every offset.                               *)
(***************************************************************************)
EXTENDS DumpFile

CONSTANTS MaxLength, Views

MCBuffers == UNION { [1..n -> Views] : n \in 0..MaxLength }

=============================================================================
