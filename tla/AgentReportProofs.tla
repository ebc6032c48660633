-------------------------- MODULE AgentReportProofs --------------------------
(***************************************************************************)
(* AgentReport: what a device keeps of its enrollment and what it reports,   *)
(* for any number of overlapping commands, codes and changes to the machine. *)
(***************************************************************************)
EXTENDS AgentReport, TLAPS

\* There are four checks.
LEMMA FourChecks ==
  /\ Len(Capabilities) = 4 /\ DOMAIN Capabilities = 1..4
  /\ Capabilities[1] = "opencode" /\ Capabilities[2] = "providers"
  /\ Capabilities[3] = "mcp_servers" /\ Capabilities[4] = "skills"
BY DEF Capabilities

\* A check says "ok" of exactly the capabilities that can be used.
LEMMA StatusTellsTheTruth ==
  ASSUME NEW m \in Machines, NEW k \in 1..4
  PROVE  /\ Status(m, Capabilities[k]) \in Statuses
         /\ Status(m, Capabilities[k]) = "ok" <=> Usable(m, Capabilities[k])
<1>1. CASE k = 1
  BY <1>1, FourChecks, FindingsAreKnown DEF Status, Usable, OpencodeStatus, Statuses
<1>2. CASE k \in {2, 3}
  BY <1>2, FourChecks DEF Status, Usable, EntriesStatus, Statuses
<1>3. CASE k = 4
  BY <1>3, FourChecks, FindingsAreKnown DEF Status, Usable, SkillsStatus, Statuses
<1> QED BY <1>1, <1>2, <1>3

\* No result is wrong, and a result stays true when more has happened.
LEMMA NothingIsTruthful == \A S : Truthful(<<>>, S)
BY DEF Truthful

LEMMA TruthfulLater ==
  ASSUME NEW results, NEW S, NEW m, Truthful(results, S)
  PROVE  Truthful(results, S \cup {m})
BY DEF Truthful

\* A further check of a machine that is as it says.
LEMMA TruthfulAppend ==
  ASSUME NEW results \in Seq(Statuses), NEW S \in SUBSET Machines, NEW m \in S,
         Truthful(results, S), Len(results) < 4
  PROVE  LET r == Status(m, Capabilities[Len(results) + 1])
         IN  /\ Append(results, r) \in Seq(Statuses)
             /\ Len(Append(results, r)) = Len(results) + 1
             /\ Truthful(Append(results, r), S)
<1> DEFINE n == Len(results) + 1
           r == Status(m, Capabilities[n])
<1>1. n \in 1..4 /\ m \in Machines
  OBVIOUS
<1>2. r \in Statuses /\ (r = "ok" <=> Usable(m, Capabilities[n]))
  BY <1>1, StatusTellsTheTruth
<1> HIDE DEF r
<1>3. /\ Append(results, r) \in Seq(Statuses)
      /\ Len(Append(results, r)) = n
      /\ DOMAIN Append(results, r) = 1..n
      /\ DOMAIN results = 1..Len(results)
      /\ Append(results, r)[n] = r
      /\ \A k \in 1..Len(results) : Append(results, r)[k] = results[k]
  BY <1>2
<1>4. ASSUME NEW k \in 1..n
      PROVE  \E o \in S : Append(results, r)[k] = "ok" <=> Usable(o, Capabilities[k])
  <2>1. CASE k = n
    BY <2>1, <1>2, <1>3
  <2>2. CASE k # n
    <3>1. k \in 1..Len(results)
      BY <2>2, <1>1
    <3> QED BY <3>1, <1>3 DEF Truthful
  <2> QED BY <2>1, <2>2
<1>5. Truthful(Append(results, r), S)
  BY <1>3, <1>4 DEF Truthful
<1> QED BY <1>3, <1>5 DEF r

\* Nothing has been issued, stored or checked.
LEMMA AgentInvInit == Init => AgentInv
BY FourChecks, NothingIsTruthful, NoneIsNoData, EditsAreBounded
DEF Init, Server!Init, AgentInv, CommandsInv, TypeOK, Server!Grants, Stages, TokensAreGranted,
    TokenStaysStored, Stored, SpendingFollows, CodesAreNotWasted, KeysFollow, ChecksFollow,
    Granted, Over

\* What steps do to what commands remember: a command that has begun keeps what
\* was over then, one that is over stays so, and only an exchange grants.
LEMMA HistoryStep ==
  ASSUME AgentInv, [Next]_vars
  PROVE  \A b \in Agents :
           /\ pc[b] # "idle" => pc'[b] # "idle" /\ before'[b] = before[b]
           /\ pc[b] = "idle" =>
                /\ token'[b] = token[b]
                /\ \/ pc'[b] = "idle" /\ before'[b] = before[b]
                   \/ pc'[b] = "checks" /\ before'[b] = {d \in Agents : pc[d] \in Over}
           /\ pc[b] \in Over => pc'[b] = pc[b] /\ token'[b] = token[b]
           /\ pc'[b] = "checks" => pc[b] \in {"idle", "checks"}
           /\ pc'[b] = "enroll" => pc[b] = "enroll" \/ (pc[b] = "checks" /\ file = None)
           /\ Granted(b) => Granted(b)'
           /\ Granted(b)' => Granted(b) \/ (pc[b] = "enroll" /\ pc'[b] = "granted")
<1> USE DEF AgentInv, CommandsInv, TypeOK, Stages, Over, Goes, serverVars, localVars
<1>1. ASSUME NEW a \in Agents, AgentStep(a), ~Exchange(a), NEW b \in Agents
      PROVE  /\ pc[b] # "idle" => pc'[b] # "idle" /\ before'[b] = before[b]
             /\ pc[b] = "idle" =>
                  /\ token'[b] = token[b]
                  /\ \/ pc'[b] = "idle" /\ before'[b] = before[b]
                     \/ pc'[b] = "checks" /\ before'[b] = {d \in Agents : pc[d] \in Over}
             /\ pc[b] \in Over => pc'[b] = pc[b] /\ token'[b] = token[b]
             /\ pc'[b] = "checks" => pc[b] \in {"idle", "checks"}
             /\ pc'[b] = "enroll" => pc[b] = "enroll" \/ (pc[b] = "checks" /\ file = None)
  BY <1>1
  DEF AgentStep, Start, Check, LoadToken, EnrollFails, Enrolled, Truncate, Fill, Post, PostFails,
      Exit, Dies, Ends
<1>2. ASSUME NEW a \in Agents, AgentStep(a), ~Exchange(a)
      PROVE  grants' = grants
  BY <1>2
  DEF AgentStep, Start, Check, LoadToken, EnrollFails, Enrolled, Truncate, Fill, Post, PostFails,
      Exit, Dies, Ends
<1>3. ASSUME NEW a \in Agents, Exchange(a), NEW b \in Agents
      PROVE  /\ pc[b] # "idle" => pc'[b] # "idle"
             /\ pc[b] = "idle" => pc'[b] = "idle"
             /\ pc[b] \in Over => pc'[b] = pc[b]
             /\ pc'[b] = "checks" => pc[b] = "checks"
             /\ pc'[b] = "enroll" => pc[b] = "enroll"
             /\ UNCHANGED <<before, token>>
             /\ Granted(b) => Granted(b)'
             /\ Granted(b)' => Granted(b) \/ (pc[b] = "enroll" /\ pc'[b] = "granted")
  BY <1>3 DEF Exchange, Server!Grant, Granted
<1>4. ASSUME (\E c \in Codes, d \in Devices : EnrollCode(c, d)) \/ (\E m \in Machines : Edit(m))
             \/ UNCHANGED vars
      PROVE  UNCHANGED <<pc, before, token, grants>>
  BY <1>4 DEF EnrollCode, Server!Issue, Edit, vars
<1>5. grants' = grants => \A b \in Agents : Granted(b)' <=> Granted(b)
  BY DEF Granted
<1> QED BY <1>1, <1>2, <1>3, <1>4, <1>5 DEF Next

\* Who may have emptied the file stays under suspicion.
LEMMA SuspicionStays ==
  ASSUME AgentInv, [Next]_vars, NEW a \in Agents, NEW b \in Agents, NEW c \in Agents,
         pc[a] # "idle", pc[b] # "idle", MayHaveEmptied(c, a, b)
  PROVE  MayHaveEmptied(c, a, b)'
<1>1. pc[c] # "idle"
  BY DEF MayHaveEmptied, AgentInv, SpendingFollows
<1>2. /\ before'[a] = before[a] /\ before'[b] = before[b] /\ before'[c] = before[c]
      /\ pc[c] = "cut" => pc'[c] = "cut"
      /\ Granted(c) => Granted(c)'
  BY <1>1, HistoryStep DEF Over
<1> QED BY <1>2 DEF MayHaveEmptied

\* A command that is about to exchange its code for a token, or has, found the
\* file emptied by a third, if there was one that stored its token before.
LEMMA SpendingStep == AgentInv /\ [Next]_vars => SpendingFollows' /\ CodesAreNotWasted'
<1> SUFFICES ASSUME AgentInv, [Next]_vars PROVE SpendingFollows' /\ CodesAreNotWasted'
  OBVIOUS
<1>1. /\ \A a \in Agents : pc[a] \in {"idle", "checks", "enroll"} => ~Granted(a)
      /\ \A a \in Agents : pc[a] = "idle" => before[a] = {} /\ ~Stored(a)
      /\ \A a \in Agents : \A b \in before[a] : b \in Agents /\ pc[b] \in Over
  BY DEF AgentInv, CommandsInv, SpendingFollows, TypeOK
<1>2. ASSUME NEW a \in Agents
      PROVE  /\ pc'[a] \in {"idle", "checks", "enroll"} => ~Granted(a)'
             /\ pc'[a] = "idle" => before'[a] = {} /\ ~Stored(a)'
             /\ \A b \in before'[a] : pc'[b] \in Over
  <2>1. pc'[a] \in {"idle", "checks", "enroll"} => ~Granted(a)'
    BY <1>1, HistoryStep
  <2>2. pc'[a] = "idle" => before'[a] = {} /\ ~Stored(a)'
    BY <1>1, HistoryStep DEF Stored
  <2>3. before'[a] = before[a] \/ before'[a] = {d \in Agents : pc[d] \in Over}
    BY HistoryStep
  <2>4. \A b \in before'[a] : b \in Agents /\ pc[b] \in Over
    BY <1>1, <2>3
  <2>5. \A b \in before'[a] : pc'[b] \in Over
    BY <2>4, HistoryStep
  <2> QED BY <2>1, <2>2, <2>5
<1>3. ASSUME NEW a \in Agents, NEW b \in Agents,
             pc'[a] = "enroll" \/ Granted(a)', b \in before'[a], Stored(b)'
      PROVE  \E c \in Agents \ {a} : MayHaveEmptied(c, a, b)'
  <2>1. \/ pc[a] = "enroll" \/ Granted(a)
        \/ pc[a] = "checks" /\ file = None
    BY <1>3, HistoryStep
  <2>2. pc[a] # "idle" /\ before'[a] = before[a]
    BY <1>1, <2>1, HistoryStep
  <2>3. b \in before[a] /\ pc[b] \in Over /\ pc[b] # "idle"
    BY <1>1, <1>3, <2>2 DEF Over
  <2>4. Stored(b)
    BY <1>3, <2>3, HistoryStep DEF Stored
  <2>5. \E c \in Agents \ {a} : MayHaveEmptied(c, a, b)
    <3>1. CASE pc[a] = "enroll" \/ Granted(a)
      BY <2>3, <2>4, <3>1 DEF AgentInv, SpendingFollows, CodesAreNotWasted
    <3>2. CASE pc[a] = "checks" /\ file = None
      <4>1. PICK c \in Agents : c \notin before[b] /\ pc[c] \in {"fill", "cut"}
        BY <2>4, <3>2 DEF AgentInv, TokenStaysStored
      <4>2. c # a /\ a \notin before[c]
        BY <1>1, <3>2, <4>1 DEF Over
      <4>3. pc[c] = "fill" => c \notin before[a] /\ Granted(c)
        BY <1>1 DEF Over, AgentInv, CommandsInv, TokensAreGranted
      <4> QED BY <4>1, <4>2, <4>3 DEF MayHaveEmptied
    <3> QED BY <2>1, <3>1, <3>2
  <2> QED BY <2>2, <2>3, <2>5, SuspicionStays
<1> QED BY <1>2, <1>3 DEF SpendingFollows, CodesAreNotWasted

\* What steps do to the token file: one empties it, one fills it, and a command
\* knows a token that is its own from filling it.
LEMMA FileStep ==
  ASSUME AgentInv, [Next]_vars
  PROVE  \/ \E a \in Agents : Truncate(a) \/ Fill(a)
         \/ /\ file' = file
            /\ \A b \in Agents :
                 /\ token'[b] = b => token[b] = b \/ file # None
                 /\ pc[b] = "fill" => pc'[b] \in {"fill", "cut"}
<1> USE DEF AgentInv, CommandsInv, TypeOK, Stages, Over, Goes, serverVars, localVars
<1>1. ASSUME NEW a \in Agents, AgentStep(a), ~Truncate(a), ~Fill(a)
      PROVE  /\ file' = file
             /\ \A b \in Agents :
                  /\ token'[b] = b => token[b] = b \/ file # None
                  /\ pc[b] = "fill" => pc'[b] \in {"fill", "cut"}
  BY <1>1
  DEF AgentStep, Start, Check, LoadToken, Exchange, EnrollFails, Enrolled, Post, PostFails, Exit,
      Dies, Ends
<1>2. ASSUME (\E c \in Codes, d \in Devices : EnrollCode(c, d)) \/ (\E m \in Machines : Edit(m))
             \/ UNCHANGED vars
      PROVE  UNCHANGED <<pc, file, token>>
  BY <1>2 DEF EnrollCode, Edit, vars
<1> QED BY <1>1, <1>2 DEF Next

\* The token file is never without a token for longer than it takes to fill it.
LEMMA TokenStep == AgentInv /\ [Next]_vars => TokenStaysStored'
<1> SUFFICES ASSUME AgentInv, [Next]_vars PROVE TokenStaysStored'
  OBVIOUS
<1>1. /\ TypeOK /\ TokensAreGranted /\ TokenStaysStored
      /\ \A b \in Agents : pc[b] = "idle" => ~Stored(b)
      /\ \A b \in Agents : \A c \in before[b] : pc[c] \in Over
  BY DEF AgentInv, CommandsInv, SpendingFollows
<1>2. \A b \in Agents : Granted(b) => Granted(b)'
  BY HistoryStep
<1>3. CASE \E a \in Agents : Fill(a)
  <2>1. PICK a \in Agents : Fill(a)
    BY <1>3
  <2>2. file' = a /\ Granted(a)' /\ a # None
    BY <1>1, <1>2, <2>1, NoneIsNoData DEF Fill, TokensAreGranted
  <2> QED BY <2>2 DEF TokenStaysStored
<1>4. CASE \E a \in Agents : Truncate(a)
  <2>1. PICK a \in Agents : Truncate(a)
    BY <1>4
  <2>2. file' = None /\ pc[a] = "store" /\ pc'[a] = "fill"
    BY <1>1, <2>1 DEF Truncate, Goes, TypeOK
  <2>3. \A b \in Agents : a \notin before'[b]
    BY <1>1, <2>1, <2>2 DEF Truncate, localVars, Over
  <2> QED BY <2>2, <2>3 DEF TokenStaysStored
<1>5. CASE /\ file' = file
           /\ \A b \in Agents :
                /\ token'[b] = b => token[b] = b \/ file # None
                /\ pc[b] = "fill" => pc'[b] \in {"fill", "cut"}
  <2>1. file' # None => \E g \in grants' : g.token = file' /\ g.device = Device
    <3>1. file # None => file \in Agents /\ Granted(file)
      BY <1>1 DEF TokenStaysStored, TypeOK
    <3> QED BY <1>2, <1>5, <3>1 DEF Granted
  <2>2. ASSUME NEW b \in Agents, Stored(b)', file' = None
        PROVE  \E c \in Agents : c \notin before'[b] /\ pc'[c] \in {"fill", "cut"}
    <3>1. Stored(b) /\ file = None
      BY <1>5, <2>2 DEF Stored
    <3>2. PICK c \in Agents : c \notin before[b] /\ pc[c] \in {"fill", "cut"}
      BY <1>1, <3>1 DEF TokenStaysStored
    <3>3. before'[b] = before[b]
      BY <1>1, <3>1, HistoryStep
    <3>4. pc'[c] \in {"fill", "cut"}
      BY <1>5, <3>2, HistoryStep DEF Over
    <3> QED BY <3>2, <3>3, <3>4
  <2> QED BY <2>1, <2>2 DEF TokenStaysStored, Granted
<1> QED BY <1>3, <1>4, <1>5, FileStep

\* A check adds what is true of the machine now.
LEMMA CheckKeepsOrder ==
  ASSUME AgentInv, NEW a \in Agents, Check(a)
  PROVE  CommandsInv'
<1> USE DEF AgentInv, CommandsInv, TypeOK
<1>1. /\ pc[a] = "checks" /\ checks[a] \in Seq(Statuses) /\ Len(checks[a]) < 4
      /\ during[a] \in SUBSET Machines /\ machine \in during[a]
      /\ Truthful(checks[a], during[a])
  BY FourChecks DEF Check, ChecksFollow
<1>2. /\ checks'[a] \in Seq(Statuses)
      /\ Len(checks'[a]) = Len(checks[a]) + 1
      /\ Truthful(checks'[a], during[a])
  BY <1>1, TruthfulAppend DEF Check
<1>3. /\ UNCHANGED <<issued, grants, reports, known, file, machine, edits, pc, before, code, during,
                      token, key, shown>>
      /\ checks' = [checks EXCEPT ![a] = checks'[a]]
  BY DEF Check, serverVars
<1>4. TypeOK'
  BY <1>2, <1>3
<1>6. ChecksFollow'
  <2>1. \A b \in Agents \ {a} : checks'[b] = checks[b]
    BY <1>3
  <2>2. Len(checks'[a]) <= 4
    BY <1>1, <1>2
  <2> QED BY <1>1, <1>2, <1>3, <2>1, <2>2, FourChecks DEF ChecksFollow
<1>5. TokensAreGranted' /\ KeysFollow'
  BY <1>3 DEF TokensAreGranted, KeysFollow, Granted, Stored
<1> QED BY <1>4, <1>5, <1>6

\* The other steps of a command.
LEMMA AgentStepKeepsOrder ==
  ASSUME AgentInv, NEW a \in Agents, AgentStep(a)
  PROVE  CommandsInv'
<1> USE FourChecks, NoneIsNoData, NothingIsTruthful
    DEF AgentInv, CommandsInv, TypeOK, Stages, TokensAreGranted, KeysFollow, ChecksFollow,
        Stored, Over, serverVars, localVars, Goes
<1>1. ASSUME NEW c \in known \cup {None}, Start(a, c) PROVE CommandsInv'
  BY <1>1 DEF Start, Granted
<1>2. CASE Check(a)
  BY <1>2, CheckKeepsOrder
<1>3. CASE LoadToken(a)
  <2>1. /\ pc[a] = "checks" /\ Len(checks[a]) = 4
        /\ UNCHANGED <<issued, grants, reports, known, file, machine, edits, before, code, checks,
                       during, key, shown>>
    BY <1>3 DEF LoadToken
  <2>2. CASE file # None /\ token' = [token EXCEPT ![a] = file] /\ Goes(a, "post")
    BY <2>1, <2>2 DEF Granted
  <2>3. CASE file = None /\ code[a] # None /\ Goes(a, "enroll") /\ UNCHANGED token
    BY <2>1, <2>3 DEF Granted
  <2>4. CASE file = None /\ code[a] = None /\ Goes(a, "failed") /\ UNCHANGED token
    BY <2>1, <2>4 DEF Granted
  <2> QED BY <1>3, <2>2, <2>3, <2>4 DEF LoadToken
<1>4. CASE Exchange(a)
  <2>1. /\ grants' = grants \cup {[code |-> code[a], device |-> Device, token |-> a]}
        /\ UNCHANGED issued
    BY <1>4 DEF Exchange, Server!Grant
  <2>2. code[a] \in Codes
    BY <1>4 DEF Exchange
  <2>3. grants' \subseteq Server!Grants
    BY <2>1, <2>2, DeviceIsKnown DEF Server!Grants
  <2>4. Granted(a)' /\ \A b \in Agents : Granted(b) => Granted(b)'
    <3> DEFINE g == [code |-> code[a], device |-> Device, token |-> a]
    <3>1. g.token = a /\ g.device = Device /\ g \in grants'
      BY <2>1
    <3>2. Granted(a)'
      BY <3>1 DEF Granted
    <3>3. \A b \in Agents : Granted(b) => Granted(b)'
      BY <2>1 DEF Granted
    <3> QED BY <3>2, <3>3
  <2>5. /\ pc[a] = "enroll" /\ pc' = [pc EXCEPT ![a] = "granted"]
        /\ UNCHANGED <<issued, reports, known, file, machine, edits, before, code, checks, during,
                       token, key, shown>>
    BY <1>4, <2>1 DEF Exchange
  <2>6. TypeOK' /\ KeysFollow' /\ ChecksFollow'
    BY <2>3, <2>5
  <2>7. TokensAreGranted'
    BY <2>4, <2>5
  <2> QED BY <2>6, <2>7
<1>5. CASE EnrollFails(a)
  BY <1>5 DEF EnrollFails, Granted
<1>6. CASE Enrolled(a)
  BY <1>6 DEF Enrolled, Granted
<1>7. CASE Truncate(a)
  BY <1>7 DEF Truncate, Granted
<1>8. CASE Fill(a)
  BY <1>8 DEF Fill, Granted
<1>9. CASE Post(a)
  BY <1>9 DEF Post, Granted
<1>10. CASE PostFails(a)
  BY <1>10 DEF PostFails, Granted
<1>11. CASE Exit(a)
  BY <1>11 DEF Exit, Ends, Granted
<1>12. CASE Dies(a)
  BY <1>12 DEF Dies, Ends, Granted
<1> QED
  BY <1>1, <1>2, <1>3, <1>4, <1>5, <1>6, <1>7, <1>8, <1>9, <1>10, <1>11, <1>12
  DEF AgentStep

\* Nor does anybody else disturb what is a command's own.
LEMMA CommandsStep == AgentInv /\ [Next]_vars => CommandsInv'
<1> SUFFICES ASSUME AgentInv, [Next]_vars PROVE CommandsInv'
  OBVIOUS
<1> USE FourChecks
    DEF AgentInv, CommandsInv, TypeOK, Stages, TokensAreGranted, KeysFollow, ChecksFollow,
        Stored, Over, serverVars, localVars, Granted
<1>1. ASSUME NEW c \in Codes, NEW d \in Devices, EnrollCode(c, d) PROVE CommandsInv'
  BY <1>1 DEF EnrollCode, Server!Issue
<1>2. ASSUME NEW m \in Machines, Edit(m) PROVE CommandsInv'
  <2>1. edits' \in 0..MaxEdits
    BY <1>2, EditsAreBounded DEF Edit
  <2>2. \A a \in Agents : Truthful(checks'[a], during'[a])
    BY <1>2, TruthfulLater DEF Edit
  <2>3. TypeOK'
    BY <1>2, <2>1 DEF Edit
  <2>4. TokensAreGranted' /\ KeysFollow'
    BY <1>2 DEF Edit
  <2>5. ChecksFollow'
    BY <1>2, <2>2 DEF Edit
  <2> QED BY <2>3, <2>4, <2>5
<1>3. ASSUME NEW a \in Agents, AgentStep(a) PROVE CommandsInv'
  BY <1>3, AgentStepKeepsOrder
<1>4. CASE UNCHANGED vars
  BY <1>4 DEF vars
<1> QED BY <1>1, <1>2, <1>3, <1>4 DEF Next

\* No step disturbs the invariant.
LEMMA AgentInvStep == AgentInv /\ [Next]_vars => AgentInv'
BY CommandsStep, TokenStep, SpendingStep DEF AgentInv

\* The inductive invariant of the report command, its types included.
THEOREM AgentInvariance == Spec => []AgentInv
BY AgentInvInit, AgentInvStep, PTL DEF Spec

\* Every variable keeps its type, however many commands run at once.
THEOREM TypesStay == Spec => []TypeOK
<1> AgentInv => TypeOK
  BY DEF AgentInv, CommandsInv
<1> QED BY AgentInvariance, PTL

\* A device that has stored a token keeps one, and it is one it was granted.
THEOREM TokensStay == Spec => []TokenStaysStored
<1> AgentInv => TokenStaysStored
  BY DEF AgentInv
<1> QED BY AgentInvariance, PTL

\* A command that ends after its enrollment stored the token and showed the key.
THEOREM EnrollmentsAreKept == Spec => []EnrollmentIsKept
<1> AgentInv => EnrollmentIsKept
  BY DEF AgentInv, CommandsInv, KeysFollow, EnrollmentIsKept
<1> QED BY AgentInvariance, PTL

\* A command that begins after a token was stored spends no further code, unless
\* a third one emptied the file, for any number of commands and codes.
THEOREM CodesAreKept == Spec => []CodesAreNotWasted
<1> AgentInv => CodesAreNotWasted
  BY DEF AgentInv
<1> QED BY AgentInvariance, PTL

\* What a stored report says of a capability was true while the command checked.
THEOREM ReportsAreTrue == Spec => ReportedChecksWereTrue
<1> DEFINE True ==
      \A a \in reports' \ reports :
        Len(checks[a]) = Len(Capabilities) /\ Truthful(checks[a], during[a])
<1>1. AgentInv /\ [Next]_vars => [True]_vars
  <2> SUFFICES ASSUME AgentInv, Next, NEW a \in reports' \ reports
               PROVE  Len(checks[a]) = Len(Capabilities) /\ Truthful(checks[a], during[a])
    OBVIOUS
  <2>1. a \in Agents /\ Post(a)
    BY DEF Next, EnrollCode, Edit, AgentStep, Start, Check, LoadToken, Exchange, EnrollFails,
           Enrolled, Truncate, Fill, Post, PostFails, Exit, Dies, localVars, serverVars
  <2>2. pc[a] = "post"
    BY <2>1 DEF Post
  <2> QED BY <2>1, <2>2, FourChecks DEF AgentInv, CommandsInv, ChecksFollow
<1> QED BY <1>1, AgentInvariance, PTL DEF Spec, ReportedChecksWereTrue

-----------------------------------------------------------------------------
(* The control plane. *)

\* A command uses the control plane as a store of one-time codes and in no
\* other way.
LEMMA StepsAreStoreSteps ==
  ASSUME AgentInv, [Next]_vars
  PROVE  [Server!Next]_(Server!vars)
<1>1. ASSUME NEW c \in Codes, NEW d \in Devices, EnrollCode(c, d)
      PROVE  Server!Next
  BY <1>1 DEF EnrollCode, Server!Next
<1>2. ASSUME NEW a \in Agents, Exchange(a)
      PROVE  Server!Next
  <2>1. code[a] \in Codes
    BY <1>2 DEF Exchange, AgentInv, CommandsInv, TypeOK, TokensAreGranted
  <2> QED BY <1>2, <2>1, DeviceIsKnown DEF Exchange, Server!Next
<1>3. ASSUME NEW a \in Agents, AgentStep(a), ~Exchange(a)
      PROVE  UNCHANGED Server!vars
  BY <1>3
  DEF AgentStep, Start, Check, LoadToken, EnrollFails, Enrolled, Truncate, Fill, Post, PostFails,
      Exit, Dies, serverVars, Server!vars
<1>4. ASSUME (\E m \in Machines : Edit(m)) \/ UNCHANGED vars
      PROVE  UNCHANGED Server!vars
  BY <1>4 DEF Edit, vars, serverVars, Server!vars
<1> QED BY <1>1, <1>2, <1>3, <1>4 DEF Next

\* With any number of overlapping commands the control plane behaves as
\* OneTimeCodes says, which is what Enrollment implements.
THEOREM CommandsUseOneTimeCodes == Spec => Server!Spec
<1>1. Init => Server!Init
  BY DEF Init
<1>2. AgentInv /\ [Next]_vars => [Server!Next]_(Server!vars)
  BY StepsAreStoreSteps
<1> QED BY <1>1, <1>2, AgentInvariance, PTL DEF Spec, Server!Spec

\* So however commands overlap, no two of them enroll with one code.
THEOREM CodesEnrollOnce == Spec => []Server!OneUse
<1>1. Server!Init => Server!OneUse
  BY DEF Server!Init, Server!OneUse
<1>2. TypeOK /\ Server!OneUse /\ [Server!Next]_(Server!vars) => Server!OneUse'
  <2> SUFFICES ASSUME TypeOK, Server!OneUse, [Server!Next]_(Server!vars)
               PROVE  Server!OneUse'
    OBVIOUS
  <2> USE DEF Server!OneUse
  <2>1. ASSUME NEW c \in Codes, NEW d \in Devices, Server!Issue(c, d)
        PROVE  Server!OneUse'
    <3>1. \A g \in grants : g.code # c
      BY <2>1, NoneIsNoData DEF Server!Issue, TypeOK, Server!Grants
    <3> QED BY <2>1, <3>1 DEF Server!Issue, TypeOK, Server!Grants
  <2>2. ASSUME NEW c \in Codes, NEW d \in Devices, NEW t \in Agents, Server!Grant(c, d, t)
        PROVE  Server!OneUse'
    BY <2>2 DEF Server!Grant, TypeOK, Server!Grants
  <2>3. CASE UNCHANGED Server!vars
    BY <2>3 DEF Server!vars
  <2> QED BY <2>1, <2>2, <2>3 DEF Server!Next
<1> QED BY <1>1, <1>2, CommandsUseOneTimeCodes, TypesStay, PTL DEF Server!Spec
=============================================================================
