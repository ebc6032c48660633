----------------------------- MODULE FileReplace -----------------------------
(***************************************************************************)
(* atomic_write, system call by system call, for any number of writers of  *)
(* one path.  A writer can raise or be killed between any two calls, and   *)
(* the machine can lose power.                                             *)
(*                                                                         *)
(*   ready -> stat -> mkstemp -> write -> fsync -> chmod -> replace -> ready *)
(***************************************************************************)
CONSTANTS
  Writers,
  Contents, \* whole contents of the file
  Partial,  \* any other content: empty, or cut short
  Modes,
  Private,  \* 0600
  Absent    \* no file

Files == [content : Contents, mode : Modes]
Temps == [content : Contents \cup {Partial}, disk : Contents \cup {Partial}, mode : Modes]

ASSUME FileSentinels == Partial \notin Contents /\ Absent \notin Files \cup Temps \cup Contents
ASSUME PrivateIsMode == Private \in Modes

VARIABLES
  target, \* what the path names
  past,   \* what the directory on disk may say it names
  temp,   \* each writer's temporary file; disk is the part that was synced
  data,   \* what it writes, or Absent
  mode,   \* the mode it found, or 0600
  call    \* its next system call

fileVars == <<target, past, temp, data, mode, call>>

Calls == {"stat", "mkstemp", "write", "fsync", "chmod", "replace"}

FileInit ==
  /\ target \in Files \cup {Absent}
  /\ past = {target}
  /\ temp = [w \in Writers |-> Absent]
  /\ data = [w \in Writers |-> Absent]
  /\ mode = [w \in Writers |-> Private]
  /\ call = [w \in Writers |-> "ready"]

-----------------------------------------------------------------------------
\* The call made, the writer goes on to the next.
Calling(w, from, to) ==
  /\ call[w] = from
  /\ call' = [call EXCEPT ![w] = to]

\* The call is over: its temporary file has been renamed, unlinked, or left under
\* a name nobody will use again.
Ends(w) ==
  /\ call' = [call EXCEPT ![w] = "ready"]
  /\ temp' = [temp EXCEPT ![w] = Absent]
  /\ data' = [data EXCEPT ![w] = Absent]
  /\ mode' = [mode EXCEPT ![w] = Private]

\* atomic_write(path, c), for a path under an allowed prefix.
Begin(w, c) ==
  /\ Calling(w, "ready", "stat")
  /\ data' = [data EXCEPT ![w] = c]
  /\ UNCHANGED <<target, past, temp, mode>>

\* Mutant: every file is written with the mode of a new one.
StatNew(w) ==
  /\ Calling(w, "stat", "mkstemp")
  /\ mode' = [mode EXCEPT ![w] = Private]
  /\ UNCHANGED <<target, past, temp, data>>

Stat(w) ==
  /\ Calling(w, "stat", "mkstemp")
  /\ mode' = [mode EXCEPT ![w] = IF target = Absent THEN Private ELSE target.mode]
  /\ UNCHANGED <<target, past, temp, data>>

\* A new name in the directory of the target, readable by its owner only.
Mkstemp(w) ==
  /\ Calling(w, "mkstemp", "write")
  /\ temp' = [temp EXCEPT ![w] = [content |-> Partial, disk |-> Partial, mode |-> Private]]
  /\ UNCHANGED <<target, past, data, mode>>

\* Mutant: no fsync.
WriteUnsynced(w) ==
  /\ Calling(w, "write", "chmod")
  /\ temp' = [temp EXCEPT ![w].content = data[w]]
  /\ UNCHANGED <<target, past, data, mode>>

\* handle.write and flush.
Write(w) ==
  /\ Calling(w, "write", "fsync")
  /\ temp' = [temp EXCEPT ![w].content = data[w]]
  /\ UNCHANGED <<target, past, data, mode>>

Fsync(w) ==
  /\ Calling(w, "fsync", "chmod")
  /\ temp' = [temp EXCEPT ![w].disk = temp[w].content]
  /\ UNCHANGED <<target, past, data, mode>>

Chmod(w) ==
  /\ Calling(w, "chmod", "replace")
  /\ temp' = [temp EXCEPT ![w].mode = mode[w]]
  /\ UNCHANGED <<target, past, data, mode>>

\* os.replace, a rename within one directory.  It reaches the disk whenever
\* the system sees fit, so the older files stay possible.
Replace(w) ==
  /\ call[w] = "replace"
  /\ target' = [content |-> temp[w].content, mode |-> temp[w].mode]
  /\ past' = past \cup {[content |-> temp[w].disk, mode |-> temp[w].mode]}
  /\ Ends(w)

\* Mutant: the exception leaves the temporary file behind.
RaiseOnly(w) ==
  /\ call[w] \in Calls
  /\ call' = [call EXCEPT ![w] = "ready"]
  /\ UNCHANGED <<target, past, temp, data, mode>>

\* A call fails: the temporary file is unlinked and ApplyError raised.  The
\* first two are made outside the try and raise OSError; there is none yet.
Raise(w) ==
  /\ call[w] \in Calls
  /\ Ends(w)
  /\ UNCHANGED <<target, past>>

WriteStep(w) ==
  Stat(w) \/ Mkstemp(w) \/ Write(w) \/ Fsync(w) \/ Chmod(w) \/ Replace(w)

\* The process is killed; its temporary file stays.
KillWriter(w) ==
  /\ Ends(w)
  /\ UNCHANGED <<target, past>>

\* The machine comes back with what its disk holds.
PowerFails ==
  /\ target' \in past
  /\ past' = {target'}
  /\ temp' = [w \in Writers |-> Absent]
  /\ data' = [w \in Writers |-> Absent]
  /\ mode' = [w \in Writers |-> Private]
  /\ call' = [w \in Writers |-> "ready"]

FileNext ==
  \/ \E w \in Writers :
       \/ \E c \in Contents : Begin(w, c)
       \/ WriteStep(w) \/ Raise(w) \/ KillWriter(w)
  \/ PowerFails

FileSpec == FileInit /\ [][FileNext]_fileVars
-----------------------------------------------------------------------------
FileTypeOK ==
  /\ target \in Files \cup {Absent}
  /\ past \subseteq Files \cup {Absent}
  /\ temp \in [Writers -> Temps \cup {Absent}]
  /\ data \in [Writers -> Contents \cup {Absent}]
  /\ mode \in [Writers -> Modes]
  /\ call \in [Writers -> Calls \cup {"ready"}]

\* A writer that returned or raised has no temporary file any more, one past
\* fsync has its whole data on the disk (atomic_write's order of calls and its
\* exception handler).
TempsAreInStep ==
  \A w \in Writers :
    /\ temp[w] = Absent <=> call[w] \in {"ready", "stat", "mkstemp"}
    /\ call[w] \in Calls => data[w] \in Contents
    /\ call[w] \in {"fsync", "chmod", "replace"} => temp[w].content = data[w]
    /\ call[w] \in {"chmod", "replace"} => temp[w].disk = data[w]

\* The mode the path has, or a file created there would get.
PathMode(f) == IF f = Absent THEN Private ELSE f.mode

\* Whatever the path named or names, it had the mode every writer noted.
ModesAgree ==
  /\ target \in past
  /\ \A f \in past : PathMode(f) = PathMode(target)
  /\ \A w \in Writers :
       /\ call[w] \in Calls \ {"stat"} => mode[w] = PathMode(target)
       /\ call[w] = "replace" => temp[w].mode = mode[w]

\* The inductive invariant of atomic_write.
FileInv == FileTypeOK /\ TempsAreInStep /\ ModesAgree

\* "Atomically replace path's contents with data" (apply.py:56): every writer's
\* calls together are one replacement of a whole file, which keeps its mode.
Path == INSTANCE WholeFile WITH path <- target
ReplacesWholeFiles == Path!Spec
=============================================================================
