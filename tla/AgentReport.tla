------------------------------ MODULE AgentReport ------------------------------
(***************************************************************************)
(* `holdfastctl report` on one device: it checks the machine, takes the     *)
(* stored token or enrolls with a code an operator gave it, and posts what   *)
(* it found.  The timer and people run it, at times at once.  The control    *)
(* plane's side of enrollment is OneTimeCodes, a token being named by the    *)
(* command that obtained it.                                                 *)
(***************************************************************************)
EXTENDS Naturals, Sequences

CONSTANTS
  Agents,    \* runs of the report command
  Codes, Devices,
  Device,    \* the device they run on
  Machines,  \* what the checks can find: see Usable
  Missing, Garbled, \* opencode.json that cannot be read, or not be understood
  None,
  MaxEdits   \* bound: changes to the machine

ASSUME DeviceIsKnown == Device \in Devices
ASSUME NoneIsNoData == None \notin Codes \cup Devices \cup Agents \cup BOOLEAN
ASSUME EditsAreBounded == MaxEdits \in Nat
ASSUME FindingsAreKnown ==
  \A m \in Machines :
    /\ m.opencode \in {"works", "fails", "hangs", "absent", "cannot run"}
    /\ m.skills \in {"some", "none", "unreadable"}

VARIABLES
  issued, grants, \* the control plane (OneTimeCodes)
  known,    \* the codes people know
  reports,  \* the commands whose report the control plane stored
  file,     \* report.token: a token, or None if it is absent or empty
  machine,  \* the state of the machine
  edits,    \* how often it changed
  pc,       \* where each command is
  before,   \* history: the commands that were over when each began
  code,     \* --enrollment-code
  checks,   \* the results of its checks so far
  during,   \* history: the states of the machine while it made them
  token,    \* what _load_or_create_token returned
  key,      \* pending_gateway_key: is there one?  None before enrollment
  shown     \* the commands that printed their key

serverVars == <<issued, grants, reports>>
localVars  == <<before, code, checks, during, token, key, shown>>
vars == <<serverVars, known, file, machine, edits, pc, localVars>>

Server == INSTANCE OneTimeCodes WITH Tokens <- Agents

Granted(t) == \E g \in grants : g.token = t /\ g.device = Device

Goes(a, to) == pc' = [pc EXCEPT ![a] = to]

\* The process is gone, and what it held with it.
Ends(a, how) ==
  /\ Goes(a, how)
  /\ code' = [code EXCEPT ![a] = None]
  /\ checks' = [checks EXCEPT ![a] = <<>>]
  /\ during' = [during EXCEPT ![a] = {}]

-----------------------------------------------------------------------------
(* run_checks *)

Capabilities == <<"opencode", "providers", "mcp_servers", "skills">>
Statuses == {"ok", "warning", "error"}

OpencodeStatus(m) ==
  CASE m.opencode = "works" -> "ok"
    [] m.opencode \in {"fails", "hangs"} -> "warning"
    [] m.opencode \in {"absent", "cannot run"} -> "error"

\* Mutant: no entries are as good as some.
EntriesAreOk(m, section) == IF m.config \in {Missing, Garbled} THEN "error" ELSE "ok"

\* m.config is the set of keys under which opencode.json has entries.
EntriesStatus(m, section) ==
  IF m.config \in {Missing, Garbled} THEN "error"
  ELSE IF section \in m.config THEN "ok" ELSE "warning"

SkillsStatus(m) ==
  CASE m.skills = "some" -> "ok" [] m.skills = "none" -> "warning"
    [] m.skills = "unreadable" -> "error"

\* Every check catches whatever it raises.
Status(m, capability) ==
  CASE capability = "opencode" -> OpencodeStatus(m)
    [] capability = "skills" -> SkillsStatus(m)
    [] OTHER -> EntriesStatus(m, capability)

-----------------------------------------------------------------------------
\* "cut": while it stored the token, the file being empty.
Over == {"done", "died", "cut"}

Stages == {"idle", "checks", "enroll", "granted", "store", "fill", "post",
           "failed", "reported"} \cup Over

TypeOK ==
  /\ issued \in [Codes -> Devices \cup {None}]
  /\ grants \subseteq Server!Grants
  /\ reports \subseteq Agents
  /\ known \subseteq Codes
  /\ file \in Agents \cup {None}
  /\ machine \in Machines
  /\ edits \in 0..MaxEdits
  /\ pc \in [Agents -> Stages]
  /\ before \in [Agents -> SUBSET Agents]
  /\ code \in [Agents -> Codes \cup {None}]
  /\ checks \in [Agents -> Seq(Statuses)]
  /\ during \in [Agents -> SUBSET Machines]
  /\ token \in [Agents -> Agents \cup {None}]
  /\ key \in [Agents -> BOOLEAN \cup {None}]
  /\ shown \subseteq Agents

Init ==
  /\ Server!Init
  /\ known = {} /\ reports = {} /\ shown = {}
  /\ file = None
  /\ machine \in Machines
  /\ edits = 0
  /\ pc = [a \in Agents |-> "idle"]
  /\ before = [a \in Agents |-> {}]
  /\ code = [a \in Agents |-> None]
  /\ checks = [a \in Agents |-> <<>>]
  /\ during = [a \in Agents |-> {}]
  /\ token = [a \in Agents |-> None]
  /\ key = [a \in Agents |-> None]

-----------------------------------------------------------------------------
(* Operators and the machine *)

\* holdfastctl enroll-code: prints the code, unless the answer is lost.
EnrollCode(c, d) ==
  /\ Server!Issue(c, d)
  /\ known' \in {known, known \cup {c}}
  /\ UNCHANGED <<reports, file, machine, edits, pc, localVars>>

\* opencode is installed or breaks, its configuration or the skills change.
Edit(m) ==
  /\ edits < MaxEdits
  /\ m # machine
  /\ edits' = edits + 1
  /\ machine' = m
  /\ during' = [a \in Agents |-> IF pc[a] = "checks" THEN during[a] \cup {m} ELSE during[a]]
  /\ UNCHANGED <<serverVars, known, file, pc, before, code, checks, token, key, shown>>

-----------------------------------------------------------------------------
(* The command *)

\* From the timer without a code, from a person with any code they know.
Start(a, c) ==
  /\ pc[a] = "idle"
  /\ code' = [code EXCEPT ![a] = c]
  /\ during' = [during EXCEPT ![a] = {machine}]
  /\ before' = [before EXCEPT ![a] = {b \in Agents : pc[b] \in Over}]
  /\ Goes(a, "checks")
  /\ UNCHANGED <<serverVars, known, file, machine, edits, checks, token, key, shown>>

\* One check after the other; each looks at the machine for itself.
Check(a) ==
  /\ pc[a] = "checks"
  /\ Len(checks[a]) < Len(Capabilities)
  /\ checks' = [checks EXCEPT ![a] =
                  Append(@, Status(machine, Capabilities[Len(@) + 1]))]
  /\ UNCHANGED <<serverVars, known, file, machine, edits, pc, before, code, during, token, key, shown>>

\* Mutant: a code that was given is used, whatever is stored.
PreferCode(a) ==
  /\ pc[a] = "checks"
  /\ Len(checks[a]) = Len(Capabilities)
  /\ Goes(a, IF code[a] # None THEN "enroll" ELSE IF file # None THEN "post" ELSE "failed")
  /\ token' = [token EXCEPT ![a] = IF code[a] # None THEN @ ELSE file]
  /\ UNCHANGED <<serverVars, known, file, machine, edits, before, code, checks, during, key, shown>>

\* _load_or_create_token: a stored token before a code, and without either an
\* error.
LoadToken(a) ==
  /\ pc[a] = "checks"
  /\ Len(checks[a]) = Len(Capabilities)
  /\ \/ file # None /\ token' = [token EXCEPT ![a] = file] /\ Goes(a, "post")
     \/ file = None /\ code[a] # None /\ Goes(a, "enroll") /\ UNCHANGED token
     \/ file = None /\ code[a] = None /\ Goes(a, "failed") /\ UNCHANGED token
  /\ UNCHANGED <<serverVars, known, file, machine, edits, before, code, checks, during, key, shown>>

\* The control plane commits the exchange.  A command that loses the connection
\* first is one that loses the answer.
Exchange(a) ==
  /\ pc[a] = "enroll"
  /\ Server!Grant(code[a], Device, a)
  /\ Goes(a, "granted")
  /\ UNCHANGED <<reports, known, file, machine, edits, localVars>>

\* Refused, not reached, or the answer is lost or makes no sense.
EnrollFails(a) ==
  /\ pc[a] \in {"enroll", "granted"}
  /\ Goes(a, "failed")
  /\ UNCHANGED <<serverVars, known, file, machine, edits, localVars>>

\* The answer, with a key if the code carries a gateway scope and keys are minted.
Enrolled(a) ==
  /\ pc[a] = "granted"
  /\ \E minted \in BOOLEAN : key' = [key EXCEPT ![a] = minted]
  /\ Goes(a, "store")
  /\ UNCHANGED <<serverVars, known, file, machine, edits, before, code, checks, during, token, shown>>

\* write_text empties the file and then fills it.
Truncate(a) ==
  /\ pc[a] = "store"
  /\ file' = None
  /\ Goes(a, "fill")
  /\ UNCHANGED <<serverVars, known, machine, edits, localVars>>

\* Mutant: the code is stored.
FillWithCode(a) ==
  /\ pc[a] = "fill"
  /\ file' = code[a]
  /\ token' = [token EXCEPT ![a] = a]
  /\ Goes(a, "post")
  /\ UNCHANGED <<serverVars, known, machine, edits, before, code, checks, during, key, shown>>

Fill(a) ==
  /\ pc[a] = "fill"
  /\ file' = a
  /\ token' = [token EXCEPT ![a] = a]
  /\ Goes(a, "post")
  /\ UNCHANGED <<serverVars, known, machine, edits, before, code, checks, during, key, shown>>

\* The control plane stores the report; its answer may be lost.
Post(a) ==
  /\ pc[a] = "post"
  /\ Granted(token[a])
  /\ reports' = reports \cup {a}
  /\ \E to \in {"reported", "failed"} : Goes(a, to)
  /\ UNCHANGED <<issued, grants, known, file, machine, edits, localVars>>

\* Mutant: a refused report makes the command forget its token.
PostForgets(a) ==
  /\ pc[a] = "post"
  /\ file' = None
  /\ Goes(a, "failed")
  /\ UNCHANGED <<serverVars, known, machine, edits, localVars>>

\* Not reached, busy, or the report looks as if it contained a secret.
PostFails(a) ==
  /\ pc[a] = "post"
  /\ Goes(a, "failed")
  /\ UNCHANGED <<serverVars, known, file, machine, edits, localVars>>

\* Mutant: the key is shown on success only.
ExitAfterSuccess(a) ==
  /\ pc[a] \in {"reported", "failed"}
  /\ shown' = IF pc[a] = "reported" /\ key[a] = TRUE THEN shown \cup {a} ELSE shown
  /\ Ends(a, "done")
  /\ UNCHANGED <<serverVars, known, file, machine, edits, before, token, key>>

\* _echo_pending_gateway_key, whether the report succeeded or not.
Exit(a) ==
  /\ pc[a] \in {"reported", "failed"}
  /\ shown' = IF key[a] = TRUE THEN shown \cup {a} ELSE shown
  /\ Ends(a, "done")
  /\ UNCHANGED <<serverVars, known, file, machine, edits, before, token, key>>

\* Killed; or an OSError, which nothing catches, while the token is stored.
Dies(a) ==
  /\ pc[a] \notin {"idle"} \cup Over
  /\ Ends(a, IF pc[a] = "fill" THEN "cut" ELSE "died")
  /\ UNCHANGED <<serverVars, known, file, machine, edits, before, token, key, shown>>

AgentStep(a) ==
  \/ \E c \in known \cup {None} : Start(a, c)
  \/ Check(a) \/ LoadToken(a)
  \/ Exchange(a) \/ EnrollFails(a) \/ Enrolled(a)
  \/ Truncate(a) \/ Fill(a)
  \/ Post(a) \/ PostFails(a) \/ Exit(a) \/ Dies(a)

Next ==
  \/ \E c \in Codes, d \in Devices : EnrollCode(c, d)
  \/ \E m \in Machines : Edit(m)
  \/ \E a \in Agents : AgentStep(a)

Spec == Init /\ [][Next]_vars

-----------------------------------------------------------------------------
\* A command has enrolled, and its token has reached the disk.
Stored(a) == token[a] = a

\* What is in the token file is a token the control plane granted this device.
\* Once a command has stored one there always is one, whatever the commands do
\* to the file and however they fail, but for a command that was not over when
\* that one began, and that is in the middle of storing another, or was cut
\* short there (_load_or_create_token).
TokenStaysStored ==
  /\ file # None => Granted(file)
  /\ \A b \in Agents :
       Stored(b) => file # None \/ \E c \in Agents : c \notin before[b] /\ pc[c] \in {"fill", "cut"}

\* A third command may have emptied the token file under a, after b stored its
\* token there: it was cut short, or stores its own while a runs.
MayHaveEmptied(c, a, b) ==
  /\ c \notin before[b] /\ a \notin before[c]
  /\ pc[c] = "cut" \/ (c \notin before[a] /\ Granted(c))

\* A command that begins when another is over that stored its token spends no
\* code, even if it is given one, unless a third emptied the file in between
\* (_load_or_create_token: the stored token comes first).  Commands that overlap
\* and find no token spend a code each: the check is not repeated before the
\* exchange.
CodesAreNotWasted ==
  \A a, b \in Agents :
    Granted(a) /\ b \in before[a] /\ Stored(b) =>
      \E c \in Agents \ {a} : MayHaveEmptied(c, a, b)

\* A command that learned of its enrollment and came to its end has stored the
\* token, and has shown the one-time key if there is one, though posting the
\* report failed (_echo_pending_gateway_key: "a report failure after enrollment
\* must not lose it").  Commands that die while they store the token lose it.
EnrollmentIsKept ==
  \A a \in Agents :
    pc[a] = "done" /\ key[a] # None => Stored(a) /\ (key[a] = TRUE <=> a \in shown)

\* How far a command's knowledge of its enrollment follows where it is.
KeysFollow ==
  \A a \in Agents :
    /\ pc[a] \in {"idle", "checks", "enroll", "granted"} => key[a] = None
    /\ pc[a] \in {"post", "reported", "failed", "done"} /\ key[a] # None => Stored(a)
    /\ a \in shown => pc[a] = "done" /\ key[a] = TRUE
    /\ pc[a] = "done" /\ key[a] = TRUE => a \in shown

\* A command that enrolls has a code, and a token to be stored has been granted.
TokensAreGranted ==
  \A a \in Agents :
    /\ pc[a] = "enroll" => code[a] # None
    /\ pc[a] \in {"granted", "store", "fill"} => Granted(a)

\* What enrolls has not enrolled, what was over stays so, and what is about to
\* spend a code has found the file emptied.
SpendingFollows ==
  /\ \A a \in Agents :
       /\ pc[a] \in {"idle", "checks", "enroll"} => ~Granted(a)
       /\ pc[a] = "idle" => before[a] = {} /\ ~Stored(a)
       /\ \A b \in before[a] : pc[b] \in Over
  /\ \A a, b \in Agents :
       pc[a] = "enroll" /\ b \in before[a] /\ Stored(b) =>
         \E c \in Agents \ {a} : MayHaveEmptied(c, a, b)

\* Can the device use the capability?
Usable(m, capability) ==
  CASE capability = "opencode" -> m.opencode = "works"
    [] capability = "skills" -> m.skills = "some"
    [] OTHER -> m.config \notin {Missing, Garbled} /\ capability \in m.config

\* Each result says "ok" if and only if the capability was usable at some moment.
Truthful(results, moments) ==
  \A k \in DOMAIN results :
    \E m \in moments : results[k] = "ok" <=> Usable(m, Capabilities[k])

\* A stored report covers every capability.  "ok" means that it was usable, and
\* anything else that it was not, at some moment while the command checked: the
\* machine may change between two checks (run_checks).
ReportedChecksWereTrue ==
  [][\A a \in reports' \ reports :
       Len(checks[a]) = Len(Capabilities) /\ Truthful(checks[a], during[a])]_vars

\* What a command has checked so far was so while it checked; it has checked
\* everything by the time it needs the token.
ChecksFollow ==
  \A a \in Agents :
    /\ pc[a] = "idle" => checks[a] = <<>>
    /\ pc[a] = "checks" => machine \in during[a]
    /\ pc[a] \in {"enroll", "granted", "store", "fill", "post"} =>
         Len(checks[a]) = Len(Capabilities)
    /\ Len(checks[a]) <= Len(Capabilities)
    /\ Truthful(checks[a], during[a])

\* What each command has of its own is in order.
CommandsInv == TypeOK /\ TokensAreGranted /\ KeysFollow /\ ChecksFollow

\* The inductive invariant.
AgentInv ==
  /\ CommandsInv
  /\ TokenStaysStored
  /\ SpendingFollows
  /\ CodesAreNotWasted
=============================================================================
