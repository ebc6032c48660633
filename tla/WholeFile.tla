------------------------------ MODULE WholeFile ------------------------------
(***************************************************************************)
(* What atomic_write promises of the path it writes: whoever opens it, at  *)
(* any moment and after a power failure, finds no file or a whole one; a   *)
(* file keeps its mode, a new one is private.                              *)
(***************************************************************************)
CONSTANTS Contents, Modes, Private, Absent

VARIABLES path, \* what the path names
          past  \* what it may name after a power failure

Files == [content : Contents, mode : Modes]

Init == path \in Files \cup {Absent} /\ past = {path}

Replace ==
  /\ path' \in Files
  /\ path'.mode = IF path = Absent THEN Private ELSE path.mode
  /\ past' = past \cup {path'}

\* The directory is never synced: an earlier file may come back, but a file.
Lose ==
  /\ path' \in past
  /\ past' = {path'}

Next == Replace \/ Lose

Spec == Init /\ [][Next]_<<path, past>>
=============================================================================
