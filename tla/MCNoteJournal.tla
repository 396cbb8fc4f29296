--------------------------- MODULE MCNoteJournal ---------------------------
(* Every script; those with few steps are run again after they stopped.    *)
EXTENDS NoteJournal

Long     == {"pool", "relayer", "phase13bRelayer", "concurrency"}
MCBounds == [s \in Scripts |->
    IF s \in Long THEN [runs |-> 1, recoveries |-> 1, faults |-> 1]
    ELSE [runs |-> 2, recoveries |-> 2, faults |-> 2]]
=============================================================================
