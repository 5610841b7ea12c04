------------------------------ MODULE Logbook ------------------------------
(***************************************************************************)
(* What the program promises about the UDDF file, whatever happens to a    *)
(* run: the file changes at most once in a run, when the run publishes the *)
(* dives it was asked for; a run that reports success has got that far.    *)
(* The file may be spoiled, by a save that fails or by the death of the    *)
(* process, but only where the run would have published.                   *)
(***************************************************************************)
EXTENDS Integers, Sequences

VARIABLES
    book,       \* the UDDF file
    run,        \* "none", "open", or "done" once it has published or failed to
    job,        \* what the run was asked for, while it is under way
    report      \* how the last run ended

vars == <<book, run, job, report>>

Absent == [state |-> "absent", dives |-> <<>>]
Torn == [state |-> "torn", dives |-> <<>>]
Written(ds) == [state |-> "written", dives |-> ds]

(* ds is what the job asked for, or the part of it done when the user      *)
(* interrupted a job that may be cut.  A damaged source promises nothing.  *)
Fulfils(ds) ==
    job.sound => /\ Len(ds) <= Len(job.dives)
                 /\ ds = SubSeq(job.dives, 1, Len(ds))
                 /\ ~job.cut => ds = job.dives

Init == book = Absent /\ run = "none" /\ report = "none"

Begin ==
    /\ run = "none"
    /\ run' = "open"
    /\ report' = "none"
    /\ UNCHANGED book

Publish ==
    /\ run = "open"
    /\ book'.state = "written"
    /\ Fulfils(book'.dives)
    /\ run' = "done"
    /\ UNCHANGED <<job, report>>

Spoil ==
    /\ run = "open"
    /\ book' \in {book, Torn}
    /\ \/ run' = "done" /\ UNCHANGED <<job, report>>
       \/ run' = "none" /\ report' = "killed"

End ==
    /\ run \in {"open", "done"}
    /\ run' = "none"
    /\ report' \in {"failure", "killed"} \cup (IF run = "done" THEN {"success"} ELSE {})
    /\ UNCHANGED book

(* The user cuts the job short. *)
Cut ==
    /\ run # "none"
    /\ job' = [job EXCEPT !.cut = TRUE]
    /\ UNCHANGED <<book, run, report>>

Next == Begin \/ Publish \/ Spoil \/ End \/ Cut

Spec == Init /\ [][Next]_vars

=============================================================================
