-------------------------- MODULE FileReplaceProofs --------------------------
(***************************************************************************)
(* atomic_write, for any number of writers of one path: what its system    *)
(* calls leave behind, and that together they replace whole files only.    *)
(***************************************************************************)
EXTENDS FileReplace, TLAPS

-----------------------------------------------------------------------------
(* Types *)

\* The steps of one writer, as the proofs split them.
WriterStep(w) ==
  \/ \E c \in Contents : Begin(w, c)
  \/ Stat(w) \/ Mkstemp(w) \/ Write(w) \/ Fsync(w) \/ Chmod(w) \/ Replace(w)
  \/ Raise(w) \/ KillWriter(w)

LEMMA FileSteps == FileNext <=> (\E w \in Writers : WriterStep(w)) \/ PowerFails
BY DEF FileNext, WriteStep, WriterStep

\* A path that names no file or a file has a mode.
LEMMA PathModeIsMode == \A f \in Files \cup {Absent} : PathMode(f) \in Modes
BY PrivateIsMode DEF PathMode, Files

\* No call leaves the types.
LEMMA FileTypes == FileInv /\ [FileNext]_fileVars => FileTypeOK'
<1> SUFFICES ASSUME FileInv, [FileNext]_fileVars
             PROVE  FileTypeOK'
  OBVIOUS
<1> USE DEF FileInv, FileTypeOK
<1>1. ASSUME NEW w \in Writers, NEW c \in Contents, Begin(w, c)
      PROVE  FileTypeOK'
  BY <1>1 DEF Begin, Calling, Calls
<1>2. ASSUME NEW w \in Writers, Stat(w)
      PROVE  FileTypeOK'
  BY <1>2, PrivateIsMode DEF Stat, Calling, Calls, Files
<1>3. ASSUME NEW w \in Writers, Mkstemp(w)
      PROVE  FileTypeOK'
  BY <1>3, PrivateIsMode DEF Mkstemp, Calling, Calls, Temps
<1>4. ASSUME NEW w \in Writers, Write(w)
      PROVE  FileTypeOK'
  <2>1. temp[w] \in Temps /\ data[w] \in Contents
    BY <1>4 DEF Write, Calling, TempsAreInStep, Calls
  <2>2. [temp[w] EXCEPT !.content = data[w]] \in Temps
    BY <2>1 DEF Temps
  <2> QED BY <1>4, <2>2 DEF Write, Calling, Calls
<1>5. ASSUME NEW w \in Writers, Fsync(w)
      PROVE  FileTypeOK'
  <2>1. temp[w] \in Temps
    BY <1>5 DEF Fsync, Calling, TempsAreInStep, Calls
  <2>2. [temp[w] EXCEPT !.disk = temp[w].content] \in Temps
    BY <2>1 DEF Temps
  <2> QED BY <1>5, <2>2 DEF Fsync, Calling, Calls
<1>6. ASSUME NEW w \in Writers, Chmod(w)
      PROVE  FileTypeOK'
  <2>1. temp[w] \in Temps
    BY <1>6 DEF Chmod, Calling, TempsAreInStep, Calls
  <2>2. [temp[w] EXCEPT !.mode = mode[w]] \in Temps
    BY <2>1 DEF Temps
  <2> QED BY <1>6, <2>2 DEF Chmod, Calling, Calls
<1>7. ASSUME NEW w \in Writers, Replace(w)
      PROVE  FileTypeOK'
  <2>1. temp[w] \in Temps /\ temp[w].content \in Contents /\ temp[w].disk \in Contents
    BY <1>7 DEF Replace, TempsAreInStep, Calls
  <2>2. {[content |-> temp[w].content, mode |-> temp[w].mode],
         [content |-> temp[w].disk, mode |-> temp[w].mode]} \subseteq Files
    BY <2>1 DEF Temps, Files
  <2> QED BY <1>7, <2>2, PrivateIsMode DEF Replace, Ends
<1>8. ASSUME NEW w \in Writers, Raise(w) \/ KillWriter(w)
      PROVE  FileTypeOK'
  BY <1>8, PrivateIsMode DEF Raise, KillWriter, Ends
<1>9. CASE PowerFails
  BY <1>9, PrivateIsMode DEF PowerFails
<1>10. CASE UNCHANGED fileVars
  BY <1>10 DEF fileVars
<1> QED
  BY <1>1, <1>2, <1>3, <1>4, <1>5, <1>6, <1>7, <1>8, <1>9, <1>10, FileSteps DEF WriterStep

-----------------------------------------------------------------------------
(* What the calls leave behind *)

\* A path nobody has written yet.
LEMMA FileInvInit == FileInit => FileInv
BY PrivateIsMode
DEF FileInit, FileInv, FileTypeOK, TempsAreInStep, ModesAgree, Calls, PathMode

\* No call leaves its temporary file out of step.
LEMMA TempsStep == FileInv /\ [FileNext]_fileVars => TempsAreInStep'
<1> SUFFICES ASSUME FileInv, [FileNext]_fileVars
             PROVE  TempsAreInStep'
  OBVIOUS
<1> USE FileSentinels DEF FileInv, FileTypeOK, TempsAreInStep, Calls
<1>1. ASSUME NEW w \in Writers, \E c \in Contents : Begin(w, c)
      PROVE  TempsAreInStep'
  BY <1>1 DEF Begin, Calling
<1>2. ASSUME NEW w \in Writers, Stat(w)
      PROVE  TempsAreInStep'
  BY <1>2 DEF Stat, Calling
<1>3. ASSUME NEW w \in Writers, Mkstemp(w)
      PROVE  TempsAreInStep'
  <2>1. temp'[w] \in Temps
    BY <1>3, PrivateIsMode DEF Mkstemp, Temps
  <2> QED BY <1>3, <2>1 DEF Mkstemp, Calling
<1>4. ASSUME NEW w \in Writers, Write(w)
      PROVE  TempsAreInStep'
  <2>1. temp[w] \in Temps /\ data[w] \in Contents
    BY <1>4 DEF Write, Calling
  <2>2. temp'[w] \in Temps /\ temp'[w].content = data[w]
    BY <1>4, <2>1 DEF Write, Temps
  <2> QED BY <1>4, <2>2 DEF Write, Calling
<1>5. ASSUME NEW w \in Writers, Fsync(w)
      PROVE  TempsAreInStep'
  <2>1. temp[w] \in Temps /\ temp[w].content = data[w]
    BY <1>5 DEF Fsync, Calling
  <2>2. temp'[w] \in Temps /\ temp'[w].content = data[w] /\ temp'[w].disk = data[w]
    BY <1>5, <2>1 DEF Fsync, Temps
  <2> QED BY <1>5, <2>2 DEF Fsync, Calling
<1>6. ASSUME NEW w \in Writers, Chmod(w)
      PROVE  TempsAreInStep'
  <2>1. temp[w] \in Temps
    BY <1>6 DEF Chmod, Calling
  <2>2. temp'[w] \in Temps /\ temp'[w].content = temp[w].content /\ temp'[w].disk = temp[w].disk
    BY <1>6, <2>1 DEF Chmod, Temps
  <2> QED BY <1>6, <2>2 DEF Chmod, Calling
<1>7. ASSUME NEW w \in Writers, Replace(w) \/ Raise(w) \/ KillWriter(w)
      PROVE  TempsAreInStep'
  BY <1>7 DEF Replace, Raise, KillWriter, Ends
<1>8. CASE PowerFails
  BY <1>8 DEF PowerFails
<1>9. CASE UNCHANGED fileVars
  BY <1>9 DEF fileVars
<1> QED
  BY <1>1, <1>2, <1>3, <1>4, <1>5, <1>6, <1>7, <1>8, <1>9, FileSteps DEF WriterStep

\* A path keeps its mode: every file that replaces another has the mode its
\* writer noted, and all writers noted the same.
LEMMA ModesStep == FileInv /\ [FileNext]_fileVars => ModesAgree'
<1> SUFFICES ASSUME FileInv, [FileNext]_fileVars
             PROVE  ModesAgree'
  OBVIOUS
<1> USE DEF FileInv, FileTypeOK, ModesAgree, Calls
<1>1. ASSUME NEW w \in Writers, (\E c \in Contents : Begin(w, c)) \/ Mkstemp(w) \/ Write(w) \/ Fsync(w)
      PROVE  ModesAgree'
  BY <1>1 DEF Begin, Mkstemp, Write, Fsync, Calling
<1>2. ASSUME NEW w \in Writers, Stat(w)
      PROVE  ModesAgree'
  BY <1>2 DEF Stat, Calling, PathMode
<1>3. ASSUME NEW w \in Writers, Chmod(w)
      PROVE  ModesAgree'
  <2>1. temp[w] \in Temps
    BY <1>3 DEF Chmod, Calling, TempsAreInStep
  <2>2. temp'[w].mode = mode[w]
    BY <1>3, <2>1 DEF Chmod, Temps
  <2> QED BY <1>3, <2>2 DEF Chmod, Calling
<1>4. ASSUME NEW w \in Writers, Replace(w)
      PROVE  ModesAgree'
  <2>1. temp[w].mode = PathMode(target)
    BY <1>4 DEF Replace
  <2>2. temp[w].content = data[w] /\ temp[w].disk = data[w] /\ data[w] \in Contents
    BY <1>4 DEF Replace, TempsAreInStep
  <2>3. PathMode(target) \in Modes
    BY PathModeIsMode
  <2>4. target' \in Files /\ target'.mode = PathMode(target) /\ past' = past \cup {target'}
    BY <1>4, <2>1, <2>2, <2>3 DEF Replace, Files
  <2>5. PathMode(target') = PathMode(target)
    BY <2>4, FileSentinels DEF PathMode
  <2> QED BY <1>4, <2>4, <2>5 DEF Replace, Ends
<1>5. ASSUME NEW w \in Writers, Raise(w) \/ KillWriter(w)
      PROVE  ModesAgree'
  BY <1>5 DEF Raise, KillWriter, Ends
<1>6. CASE PowerFails
  BY <1>6 DEF PowerFails
<1>7. CASE UNCHANGED fileVars
  BY <1>7 DEF fileVars
<1> QED
  BY <1>1, <1>2, <1>3, <1>4, <1>5, <1>6, <1>7, FileSteps DEF WriterStep

\* Every step keeps the inductive invariant.
LEMMA FileInvStep == FileInv /\ [FileNext]_fileVars => FileInv'
BY FileTypes, TempsStep, ModesStep DEF FileInv

\* However many write the path, raise and are killed: a temporary file that is
\* renamed is whole and on the disk, and has the mode of what it replaces.
THEOREM FileInvariance == FileSpec => []FileInv
<1> QED BY FileInvInit, FileInvStep, PTL DEF FileSpec

-----------------------------------------------------------------------------
(* Refinement *)

\* A call is nothing, a replacement of a whole file, or a power failure.
LEMMA WholeFileStep ==
  ASSUME FileInv, [FileNext]_fileVars
  PROVE  [Path!Next]_<<target, past>>
<1>1. ASSUME NEW w \in Writers, Replace(w)
      PROVE  Path!Replace
  <2>1. temp[w].mode = PathMode(target) /\ PathMode(target) \in Modes
    BY <1>1, PathModeIsMode DEF Replace, FileInv, FileTypeOK, ModesAgree, Calls
  <2>2. temp[w].content = data[w] /\ temp[w].disk = data[w] /\ data[w] \in Contents
    BY <1>1 DEF Replace, FileInv, TempsAreInStep, Calls
  <2>3. target' \in Files /\ target'.mode = PathMode(target) /\ past' = past \cup {target'}
    BY <1>1, <2>1, <2>2 DEF Replace, Files
  <2> QED BY <2>3 DEF Path!Replace, Path!Files, Files, PathMode
<1>2. ASSUME NEW w \in Writers, WriterStep(w), ~Replace(w)
      PROVE  UNCHANGED <<target, past>>
  BY <1>2
  DEF WriterStep, Begin, Stat, Mkstemp, Write, Fsync, Chmod, Raise, KillWriter
<1>3. CASE PowerFails
  BY <1>3 DEF PowerFails, Path!Next, Path!Lose
<1>4. CASE UNCHANGED fileVars
  BY <1>4 DEF fileVars
<1> QED
  BY <1>1, <1>2, <1>3, <1>4, FileSteps DEF Path!Next

\* atomic_write replaces whole files and nothing else, for any number of
\* writers and whatever is killed: no reader and no restart after a power
\* failure finds a file cut short, and no file changes its mode.
THEOREM AtomicWriteReplacesWholeFiles == FileSpec => ReplacesWholeFiles
<1>1. FileInit => Path!Init
  BY DEF FileInit, Path!Init, Path!Files, Files
<1>2. FileInv /\ [FileNext]_fileVars => [Path!Next]_<<target, past>>
  BY WholeFileStep
<1> QED
  BY <1>1, <1>2, FileInvariance, PTL DEF FileSpec, ReplacesWholeFiles, Path!Spec
=============================================================================
