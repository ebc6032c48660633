---------------------------- MODULE ConvergeProofs ----------------------------
(***************************************************************************)
(* Reconciling and applying, for any documents, any file to start from and *)
(* any number of commands.  Every step is one of atomic_write's calls or   *)
(* leaves the file alone, so what is proved of FileReplace carries over.   *)
(***************************************************************************)
EXTENDS Converge, FileReplaceProofs

-----------------------------------------------------------------------------
(* The pure part *)

LEMMA EmptyIsConfig == EmptyConfig \in Configs
BY DEF EmptyConfig, Configs

LEMMA SummaryIsConfig == \A c : Summary(c) \in Configs
BY EmptyIsConfig DEF Summary

LEMMA ContentOfFiles == \A f \in Files \cup {Absent} : ContentOf(f) \in Contents
BY EmptyIsConfig, ConfigsAreContents DEF ContentOf, Files

\* An entry set in a configuration leaves a configuration, in which it is set.
LEMMA MergeIsConfig ==
  ASSUME NEW c \in Configs, NEW i \in Ids, NEW k \in Catalogs
  PROVE  /\ Merge(c, i, k) \in Configs
         /\ Named(Merge(c, i, k)) = Named(c) \cup {i}
<1> DEFINE v == IF k.url[i] # NoUrl THEN k.url[i]
                ELSE IF c.entries[i] = Unset THEN NoUrl ELSE c.entries[i]
<1>1. k.url[i] \in Urls \cup {NoUrl}
  BY DEF Catalogs
<1>2. c.entries \in [Ids -> Urls \cup {NoUrl, Unset}] /\ c.env_refs \in SUBSET Envs
  BY DEF Configs
<1>3. v \in Urls \cup {NoUrl, Unset} /\ v # Unset
  BY <1>1, <1>2, ContentSentinels
<1>4. Merge(c, i, k) = [entries |-> [c.entries EXCEPT ![i] = v], env_refs |-> c.env_refs]
  BY <1>2 DEF Merge, Configs
<1> HIDE DEF v
<1>5. Merge(c, i, k) \in Configs
  BY <1>2, <1>3, <1>4 DEF Configs
<1>6. Named(Merge(c, i, k)) = Named(c) \cup {i}
  BY <1>2, <1>3, <1>4 DEF Named
<1> QED BY <1>5, <1>6

\* apply carries out what generate_opencode_plan finds missing, and nothing of
\* what the other adapters and probes report.
LEMMA AppliesTheMissing ==
  ASSUME NEW s \in Situations, NEW c
  PROVE  ToApply(AllPlans(s.manifest, s.catalog, c, s.world))
           \subseteq Missing(s.manifest, s.catalog, Summary(c))
<1> SUFFICES ASSUME NEW i \in ToApply(AllPlans(s.manifest, s.catalog, c, s.world))
             PROVE  i \in Missing(s.manifest, s.catalog, Summary(c))
  OBVIOUS
<1>1. PICK p \in AllPlans(s.manifest, s.catalog, c, s.world) :
        p[1] = "add" /\ p[2] \in {"provider", "mcp_server"} /\ p[3] = i
  BY DEF ToApply
<1>2. PICK name \in Adapters : p \in CapabilityPlans(name, s.manifest, s.catalog, c, s.world)
  BY <1>1 DEF AllPlans
<1>3. p \notin McpUrlPlans(Summary(c), s.world)
  BY <1>1 DEF McpUrlPlans
<1>4. p \notin NetworkPlans(s.manifest, s.world)
  BY <1>1 DEF NetworkPlans
<1>5. p \notin GatewayPlans(s.manifest, s.world)
  BY <1>1 DEF GatewayPlans
<1>6. p \in OpencodePlans(s.manifest, s.catalog, Summary(c))
  BY <1>2, <1>3, <1>4, <1>5 DEF CapabilityPlans, Adapters
<1> QED BY <1>1, <1>6 DEF OpencodePlans

\* What is missing from a file that has the first one's entries is due.
LEMMA MissingIsDue ==
  ASSUME case \in Situations, NEW c \in Configs, Named(Summary(First)) \subseteq Named(c)
  PROVE  Missing(case.manifest, case.catalog, c) \subseteq Addable
<1> SUFFICES ASSUME NEW i \in Missing(case.manifest, case.catalog, c),
                    NEW k \in Named(Summary(First)), SameKind(i, k), Norm[k] = Norm[i]
             PROVE  FALSE
  BY DEF Missing, Addable
<1>1. k \in Ids /\ c.entries[k] # Unset
  BY DEF Named
<1> QED BY <1>1 DEF Missing, Matched

LEMMA DesiredAreIds ==
  ASSUME case \in Situations
  PROVE  /\ Desired(case.manifest, case.catalog) \subseteq Ids
         /\ Addable \subseteq Ids
         /\ Addable \subseteq case.manifest.providers \cup case.manifest.mcp_servers
BY DEF Situations, Manifests, Catalogs, Desired, Addable

-----------------------------------------------------------------------------
(* The steps *)

\* The file only moves by atomic_write's calls and by power failures.
LEMMA StepsOfTheFile == TypeOK /\ [Next]_vars => [FileNext]_fileVars
<1> SUFFICES ASSUME TypeOK, [Next]_vars PROVE [FileNext]_fileVars
  OBVIOUS
<1>1. ASSUME NEW a \in Writers, NEW i \in Ids, Add(a, i)
      PROVE  FileNext
  <2>1. Merge(Content, i, case.catalog) \in Contents
    BY <1>1, MergeIsConfig, ConfigsAreContents DEF Add, TypeOK, Situations
  <2> QED BY <1>1, <2>1 DEF Add, FileNext
<1>2. ASSUME NEW a \in Writers, Writes(a)
      PROVE  FileNext
  BY <1>2 DEF Writes, FileNext
<1>3. ASSUME NEW a \in Writers, WriteFails(a) \/ Killed(a)
      PROVE  FileNext
  BY <1>3 DEF WriteFails, Killed, FileNext
<1>4. CASE PowerLoss
  BY <1>4 DEF PowerLoss, FileNext
<1>5. ASSUME NEW a \in Writers, Reconcile(a) \/ ReconcileFails(a) \/ AddFails(a) \/ Finish(a)
                                \/ StartAgain(a)
      PROVE  UNCHANGED fileVars
  BY <1>5 DEF Reconcile, ReconcileFails, AddFails, Finish, StartAgain
<1>6. CASE UNCHANGED vars
  BY <1>6 DEF vars
<1> QED
  BY <1>1, <1>2, <1>3, <1>4, <1>5, <1>6 DEF Next, Step

\* The device's documents, first file and network stay what they are.
LEMMA CaseStays == [Next]_vars => case' = case
BY DEF Next, Step, vars, Reconcile, ReconcileFails, Add, AddFails, Writes, Finish, StartAgain,
       WriteFails, Killed, PowerLoss

\* At the start all is in order.
LEMMA IInvInit == Init => IInv
<1> SUFFICES ASSUME Init PROVE IInv
  OBVIOUS
<1>1. FileInv /\ case \in Situations /\ Contents = Configs \cup {Broken, Odd}
  BY FileInvInit, CasesAreSituations, ConfigsAreContents DEF Init
<1>2. TypeOK
  BY <1>1 DEF Init, FileInit, TypeOK
<1>3. EntriesAreDue /\ ForeignFileStays /\ RaisedFromTheFirst
  BY DEF Init, FileInit, EntriesAreDue, ForeignFileStays, RaisedFromTheFirst
<1> QED BY <1>2, <1>3 DEF IInv

\* What a command that reconciles is going to apply is due.
LEMMA FoundIsDue == IInv => ToApply(Found) \subseteq Addable
<1> SUFFICES ASSUME IInv PROVE ToApply(Found) \subseteq Addable
  OBVIOUS
<1>1. case \in Situations /\ target \in past
  BY DEF IInv, TypeOK, FileInv, ModesAgree
<1>2. ToApply(Found) \subseteq Missing(case.manifest, case.catalog, Summary(Content))
  BY <1>1, AppliesTheMissing DEF Found
<1>3. Named(Summary(First)) \subseteq Named(Summary(Content))
  <2>1. CASE target = case.file
    BY <2>1 DEF Content, First
  <2>2. CASE target # Absent /\ target.content \in Configs /\ IsDue(target.content)
    BY <2>2 DEF Content, ContentOf, Summary, IsDue
  <2> QED BY <1>1, <2>1, <2>2 DEF IInv, EntriesAreDue
<1> QED BY <1>1, <1>2, <1>3, MissingIsDue, SummaryIsConfig

\* Types.
LEMMA TypeStep == IInv /\ [Next]_vars => TypeOK'
<1> SUFFICES ASSUME IInv, [Next]_vars PROVE TypeOK'
  OBVIOUS
<1>1. FileInv' /\ case' = case /\ case \in Situations
  BY StepsOfTheFile, FileInvStep, CaseStays DEF IInv, TypeOK
<1>2. call \in [Writers -> Calls \cup {"ready"}] /\ "ready" \notin Calls
  BY DEF IInv, TypeOK, FileInv, FileTypeOK, Calls
<1> USE DEF IInv, TypeOK
<1>3. ASSUME NEW a \in Writers, Reconcile(a)
      PROVE  TypeOK'
  <2>1. ToApply(Found) \subseteq Ids
    BY <1>1, FoundIsDue, DesiredAreIds
  <2>2. todo' \in [Writers -> SUBSET Ids] /\ \A b \in Writers : todo'[b] \subseteq ToApply(found'[b])
    BY <1>3, <2>1 DEF Reconcile
  <2>3. pc' = [pc EXCEPT ![a] = "applying"] /\ pc[a] = "idle" /\ UNCHANGED <<call, adding, faults>>
    BY <1>3 DEF Reconcile, Goes, fileVars
  <2>4. DOMAIN found' = Writers
    BY <1>3 DEF Reconcile
  <2>5. \A b \in Writers :
          /\ pc'[b] = "writing" <=> call'[b] # "ready"
          /\ pc'[b] = "writing" => adding'[b] \in todo'[b]
    BY <1>3, <2>3 DEF Reconcile
  <2>6. pc' \in [Writers -> {"idle", "applying", "writing", "raised"}]
    BY <2>3
  <2> QED BY <1>1, <2>2, <2>3, <2>4, <2>5, <2>6
<1>4. ASSUME NEW a \in Writers, ReconcileFails(a) \/ AddFails(a)
      PROVE  TypeOK'
  <2>1. /\ pc' = [pc EXCEPT ![a] = "raised"] /\ pc[a] # "writing"
        /\ UNCHANGED <<call, found, todo, adding, faults>>
    BY <1>4 DEF ReconcileFails, AddFails, Goes, fileVars
  <2> QED BY <1>1, <1>2, <2>1
<1>10. ASSUME NEW a \in Writers, Finish(a)
      PROVE  TypeOK'
  <2>1. /\ pc' = [pc EXCEPT ![a] = "idle"] /\ pc[a] # "writing"
        /\ found' = [found EXCEPT ![a] = {}] /\ todo[a] = {}
        /\ UNCHANGED <<call, todo, adding, faults>>
    BY <1>10 DEF Finish, Goes, fileVars
  <2>2. \A b \in Writers : todo'[b] \subseteq ToApply(found'[b])
    BY <2>1
  <2> QED BY <1>1, <1>2, <2>1, <2>2
<1>5. ASSUME NEW a \in Writers, NEW i \in Ids, Add(a, i)
      PROVE  TypeOK'
  <2>1. pc' = [pc EXCEPT ![a] = "writing"] /\ call' = [call EXCEPT ![a] = "stat"]
    BY <1>5 DEF Add, Begin, Calling, Goes
  <2>2. adding' = [adding EXCEPT ![a] = i] /\ i \in todo[a] /\ UNCHANGED <<found, todo, faults>>
    BY <1>5 DEF Add
  <2> QED BY <1>1, <1>2, <2>1, <2>2
<1>6. ASSUME NEW a \in Writers, Writes(a)
      PROVE  TypeOK'
  <2>1. \A b \in Writers \ {a} : call'[b] = call[b]
    BY <1>2, <1>6
    DEF Writes, WriteStep, Stat, Mkstemp, Write, Fsync, Chmod, Replace, Calling, Ends
  <2>2. CASE call'[a] = "ready"
    <3>1. /\ pc' = [pc EXCEPT ![a] = "applying"]
          /\ todo' = [todo EXCEPT ![a] = @ \ {adding[a]}]
          /\ adding' = [adding EXCEPT ![a] = Unset]
          /\ UNCHANGED <<found, faults>>
      BY <1>6, <2>2 DEF Writes, Goes
    <3> QED BY <1>1, <1>2, <2>1, <2>2, <3>1
  <2>3. CASE call'[a] # "ready"
    <3>1. UNCHANGED <<pc, todo, adding, found, faults>> /\ pc[a] = "writing"
      BY <1>6, <2>3 DEF Writes
    <3> QED BY <1>1, <1>2, <2>1, <2>3, <3>1
  <2> QED BY <2>2, <2>3
<1>7. ASSUME NEW a \in Writers, WriteFails(a) \/ Killed(a)
      PROVE  TypeOK'
  <2>1. call' = [call EXCEPT ![a] = "ready"]
    BY <1>7 DEF WriteFails, Killed, Raise, KillWriter, Ends
  <2>2. /\ pc' = [pc EXCEPT ![a] = "idle"]
        /\ found' = [found EXCEPT ![a] = {}]
        /\ todo' = [todo EXCEPT ![a] = {}]
        /\ adding' = [adding EXCEPT ![a] = Unset]
        /\ faults' = faults + 1
    BY <1>7 DEF WriteFails, Killed, Stops, Goes, Fault
  <2>3. todo' \in [Writers -> SUBSET Ids] /\ \A b \in Writers : todo'[b] \subseteq ToApply(found'[b])
    BY <2>2
  <2> QED BY <1>1, <1>2, <2>1, <2>2, <2>3
<1>11. ASSUME NEW a \in Writers, StartAgain(a)
      PROVE  TypeOK'
  <2>1. /\ pc' = [pc EXCEPT ![a] = "idle"] /\ pc[a] # "writing"
        /\ found' = [found EXCEPT ![a] = {}]
        /\ todo' = [todo EXCEPT ![a] = {}]
        /\ adding' = [adding EXCEPT ![a] = Unset]
        /\ UNCHANGED <<call, faults>>
    BY <1>11 DEF StartAgain, Stops, Goes, fileVars
  <2>2. todo' \in [Writers -> SUBSET Ids] /\ \A b \in Writers : todo'[b] \subseteq ToApply(found'[b])
    BY <2>1
  <2> QED BY <1>1, <1>2, <2>1, <2>2
<1>8. CASE PowerLoss
  BY <1>1, <1>8 DEF PowerLoss, PowerFails, Fault
<1>9. CASE UNCHANGED vars
  BY <1>1, <1>9 DEF vars, runVars, fileVars
<1> QED
  BY <1>3, <1>4, <1>5, <1>6, <1>7, <1>8, <1>9, <1>10, <1>11 DEF Next, Step

\* The first file reads as it is where commands can read it at all.
LEMMA ContentOfFirst == First \in Configs => IsDue(First)
BY DEF Summary, IsDue

\* An entry added to a configuration that has what is due leaves one that has.
LEMMA MergeIsDue ==
  ASSUME IInv, NEW i \in Addable, Content \in Configs
  PROVE  /\ Merge(Content, i, case.catalog) \in Configs
         /\ IsDue(Merge(Content, i, case.catalog))
<1>1. case \in Situations /\ target \in past
  BY DEF IInv, TypeOK, FileInv, ModesAgree
<1>2. IsDue(Content)
  <2>1. CASE target = case.file
    BY <2>1, ContentOfFirst DEF Content, First, IsDue
  <2>2. CASE target # Absent /\ target.content \in Configs /\ IsDue(target.content)
    BY <2>2 DEF Content, ContentOf
  <2> QED BY <1>1, <2>1, <2>2 DEF IInv, EntriesAreDue
<1>3. i \in Ids /\ case.catalog \in Catalogs
  BY <1>1, DesiredAreIds DEF Situations
<1>4. /\ Merge(Content, i, case.catalog) \in Configs
      /\ Named(Merge(Content, i, case.catalog)) = Named(Content) \cup {i}
  BY <1>3, MergeIsConfig
<1> QED BY <1>2, <1>4 DEF IsDue

\* What the calls do to the data on its way and to the files there are: a
\* writer takes up new data, or a file appears that was on its way.
LEMMA WritesMoveData ==
  ASSUME IInv, NEW a \in Writers, Writes(a)
  PROVE  /\ \A b \in Writers : data'[b] \in {data[b], Absent}
         /\ \/ past' = past
            \/ /\ data[a] # Absent
               /\ \A f \in past' \ past : f # Absent /\ f.content = data[a]
<1>1. CASE Replace(a)
  <2>1. temp[a].disk = data[a] /\ data[a] \in Contents
    BY <1>1 DEF Replace, IInv, TypeOK, FileInv, TempsAreInStep, Calls
  <2>2. data[a] # Absent
    BY <2>1, FileSentinels
  <2>3. temp[a] \in Temps
    BY <1>1, FileSentinels DEF Replace, IInv, TypeOK, FileInv, FileTypeOK, TempsAreInStep
  <2>4. [content |-> temp[a].disk, mode |-> temp[a].mode] \in Files
    BY <2>1, <2>3 DEF Files, Temps
  <2>5. \A f \in past' \ past : f # Absent /\ f.content = data[a]
    BY <1>1, <2>1, <2>4, FileSentinels DEF Replace
  <2>6. \A b \in Writers : data'[b] \in {data[b], Absent}
    BY <1>1 DEF Replace, Ends, IInv, TypeOK, FileInv, FileTypeOK
  <2> QED BY <2>2, <2>5, <2>6
<1>2. CASE ~Replace(a)
  BY <1>2 DEF Writes, WriteStep, Stat, Mkstemp, Write, Fsync, Chmod
<1> QED BY <1>1, <1>2

\* Nothing but what is due is written or on its way.
LEMMA DueStep == IInv /\ [Next]_vars => EntriesAreDue'
<1> SUFFICES ASSUME IInv, [Next]_vars PROVE EntriesAreDue'
  OBVIOUS
<1>1. case' = case
  BY CaseStays
<1>2. /\ data \in [Writers -> Contents \cup {Absent}] /\ todo \in [Writers -> SUBSET Ids]
      /\ EntriesAreDue /\ target \in past
  BY DEF IInv, TypeOK, FileInv, FileTypeOK, ModesAgree
<1>3. Addable' = Addable /\ \A c : IsDue(c)' <=> IsDue(c)
  BY <1>1 DEF Addable, IsDue, First, ContentOf
<1>4. CASE UNCHANGED past /\ (\A b \in Writers : data'[b] \in {data[b], Absent})
           /\ (\A b \in Writers : todo'[b] \subseteq todo[b])
  BY <1>1, <1>2, <1>3, <1>4 DEF EntriesAreDue
<1>5. ASSUME NEW a \in Writers, Reconcile(a)
      PROVE  EntriesAreDue'
  <2>1. ToApply(Found) \subseteq Addable
    BY FoundIsDue
  <2>2. todo' = [todo EXCEPT ![a] = ToApply(Found)] /\ UNCHANGED <<past, data>>
    BY <1>5 DEF Reconcile, fileVars
  <2> QED BY <1>1, <1>2, <1>3, <2>1, <2>2 DEF EntriesAreDue
<1>6. ASSUME NEW a \in Writers, NEW i \in Ids, Add(a, i)
      PROVE  EntriesAreDue'
  <2>1. i \in Addable /\ Content \in Configs
    BY <1>2, <1>6 DEF Add, EntriesAreDue
  <2>2. /\ data' = [data EXCEPT ![a] = Merge(Content, i, case.catalog)]
        /\ UNCHANGED <<past, todo>>
    BY <1>6 DEF Add, Begin
  <2>3. Merge(Content, i, case.catalog) \in Configs /\ IsDue(Merge(Content, i, case.catalog))
    BY <2>1, MergeIsDue
  <2> QED BY <1>1, <1>2, <1>3, <2>2, <2>3 DEF EntriesAreDue
<1>7. ASSUME NEW a \in Writers, Writes(a)
      PROVE  EntriesAreDue'
  <2>1. \A b \in Writers : todo'[b] \subseteq todo[b]
    BY <1>2, <1>7 DEF Writes
  <2>2. /\ \A b \in Writers : data'[b] \in {data[b], Absent}
        /\ \/ past' = past
           \/ /\ data[a] # Absent
              /\ \A f \in past' \ past : f # Absent /\ f.content = data[a]
    BY <1>7, WritesMoveData
  <2> QED BY <1>1, <1>2, <1>3, <2>1, <2>2 DEF EntriesAreDue
<1>8. ASSUME NEW a \in Writers, ReconcileFails(a) \/ AddFails(a) \/ Finish(a) \/ StartAgain(a)
      PROVE  EntriesAreDue'
  BY <1>2, <1>4, <1>8 DEF ReconcileFails, AddFails, Finish, StartAgain, Stops, fileVars
<1>9. ASSUME NEW a \in Writers, WriteFails(a) \/ Killed(a)
      PROVE  EntriesAreDue'
  BY <1>2, <1>4, <1>9 DEF WriteFails, Killed, Raise, KillWriter, Ends, Stops
<1>10. CASE PowerLoss
  <2>1. past' \subseteq past /\ data' = [b \in Writers |-> Absent] /\ todo' = [b \in Writers |-> {}]
    BY <1>10 DEF PowerLoss, PowerFails
  <2> QED BY <1>1, <1>2, <1>3, <2>1 DEF EntriesAreDue
<1>11. CASE UNCHANGED vars
  BY <1>4, <1>11 DEF vars, runVars, fileVars
<1> QED
  BY <1>5, <1>6, <1>7, <1>8, <1>9, <1>10, <1>11 DEF Next, Step

\* A file that cannot be merged into is never written.
LEMMA ForeignStep == IInv /\ [Next]_vars => ForeignFileStays'
<1> SUFFICES ASSUME IInv, [Next]_vars, First \notin Configs
             PROVE  past' = {case.file} /\ \A a \in Writers : call'[a] = "ready"
  BY CaseStays DEF ForeignFileStays, First, ContentOf
<1>1. /\ past = {case.file} /\ target \in past /\ (\A a \in Writers : call[a] = "ready")
      /\ call \in [Writers -> Calls \cup {"ready"}]
  BY DEF IInv, ForeignFileStays, TypeOK, FileInv, FileTypeOK, ModesAgree
<1>2. Content \notin Configs
  BY <1>1 DEF Content, First
<1>3. ASSUME NEW a \in Writers
      PROVE  ~Writes(a) /\ ~WriteFails(a) /\ \A i \in Ids : ~Add(a, i)
  BY <1>1, <1>2
  DEF Writes, WriteStep, Stat, Mkstemp, Write, Fsync, Chmod, Replace, Calling, WriteFails, Raise,
      Calls, Add
<1>4. ASSUME NEW a \in Writers, Reconcile(a) \/ ReconcileFails(a) \/ AddFails(a) \/ Finish(a)
                                \/ StartAgain(a)
      PROVE  UNCHANGED <<past, call>>
  BY <1>4 DEF Reconcile, ReconcileFails, AddFails, Finish, StartAgain, fileVars
<1>5. ASSUME NEW a \in Writers, Killed(a)
      PROVE  past' = past /\ call' = [call EXCEPT ![a] = "ready"]
  BY <1>5 DEF Killed, KillWriter, Ends
<1>6. CASE PowerLoss
  BY <1>1, <1>6 DEF PowerLoss, PowerFails
<1>7. CASE UNCHANGED vars
  BY <1>1, <1>7 DEF vars, fileVars
<1> QED
  BY <1>1, <1>3, <1>4, <1>5, <1>6, <1>7 DEF Next, Step

\* Of the file, reconcile_device raises for one of another shape only, and a
\* file that commands can merge into never becomes one.
LEMMA RaisesFromTheFirst ==
  ASSUME IInv, Raises \/ Content \notin Configs
  PROVE  \/ ReconcileRaises(case.manifest, case.catalog, First, case.world)
         \/ First \notin Configs
<1> SUFFICES ASSUME First \in Configs
             PROVE  ReconcileRaises(case.manifest, case.catalog, First, case.world)
  OBVIOUS
<1>1. Content \in Configs
  BY DEF IInv, TypeOK, FileInv, ModesAgree, EntriesAreDue, Content, First, ContentOf
<1>2. Content # Odd /\ First # Odd
  BY <1>1, ContentSentinels
<1> QED
  BY <1>1, <1>2 DEF Raises, ReconcileRaises, OpencodeRaises

\* No command raises for what another wrote.
LEMMA RaisedStep == IInv /\ [Next]_vars => RaisedFromTheFirst'
<1> SUFFICES ASSUME IInv, [Next]_vars, NEW b \in Writers, pc'[b] = "raised"
             PROVE  \/ ReconcileRaises(case.manifest, case.catalog, First, case.world)
                    \/ First \notin Configs
  BY CaseStays DEF RaisedFromTheFirst, First, ContentOf
<1>1. pc \in [Writers -> {"idle", "applying", "writing", "raised"}] /\ RaisedFromTheFirst
  BY DEF IInv, TypeOK
<1>2. CASE pc[b] = "raised"
  BY <1>1, <1>2 DEF RaisedFromTheFirst
<1>3. CASE pc[b] # "raised"
  <2>1. ReconcileFails(b) \/ AddFails(b)
    BY <1>1, <1>3
    DEF Next, Step, vars, runVars, Reconcile, ReconcileFails, Add, AddFails, Writes, Finish,
        StartAgain, WriteFails, Killed, Stops, PowerLoss, Goes
  <2>2. Raises \/ Content \notin Configs
    BY <2>1 DEF ReconcileFails, AddFails
  <2> QED BY <2>2, RaisesFromTheFirst
<1> QED BY <1>2, <1>3

-----------------------------------------------------------------------------
(* What is proved of reconciling and applying *)

\* Commands that overlap, fail and are killed leave the documents, the file,
\* the data on its way and their own plans in order.
THEOREM ConvergeInvariance == Spec => []IInv
<1>1. IInv /\ [Next]_vars => IInv'
  BY TypeStep, DueStep, ForeignStep, RaisedStep DEF IInv
<1> QED BY IInvInit, <1>1, PTL DEF Spec

\* However many commands write opencode.json: it names no file or a whole one,
\* also after a power failure, and keeps its mode.
THEOREM CommandsReplaceWholeFiles == Spec => ReplacesWholeFiles
<1>1. Init => FileInit
  BY DEF Init
<1>2. IInv /\ [Next]_vars => [FileNext]_fileVars
  BY StepsOfTheFile DEF IInv
<1>3. Spec => FileSpec
  BY <1>1, <1>2, ConvergeInvariance, PTL DEF Spec, FileSpec
<1> QED BY <1>3, AtomicWriteReplacesWholeFiles, PTL

\* No command gives opencode.json a second entry for a server under another
\* spelling, for any spellings, files and number of commands.
THEOREM NoSecondSpellingHolds == Spec => []NoSecondSpelling
<1>1. IInv => NoSecondSpelling
  <2> SUFFICES ASSUME IInv, NEW k \in Ids, NEW l \in Ids,
                      k # l, SameKind(k, l), Norm[k] = Norm[l],
                      target # Absent, target.content \in Configs,
                      target.content.entries[k] # Unset, target.content.entries[l] # Unset
               PROVE  \/ {k, l} \subseteq case.manifest.providers \cup case.manifest.mcp_servers
                      \/ /\ case.file # Absent
                         /\ case.file.content.entries[k] # Unset
                         /\ case.file.content.entries[l] # Unset
    BY DEF NoSecondSpelling
  <2>1. case \in Situations /\ target \in past
    BY DEF IInv, TypeOK, FileInv, ModesAgree
  <2>2. CASE target = case.file
    BY <2>2
  <2>3. CASE IsDue(target.content)
    <3>1. {k, l} \subseteq Named(Summary(First)) \cup Addable
      BY <2>3 DEF IsDue, Named
    <3>2. CASE {k, l} \subseteq Addable
      BY <2>1, <3>2, DesiredAreIds
    <3>3. CASE {k, l} \subseteq Named(Summary(First))
      <4>1. case.file # Absent /\ First = case.file.content /\ Summary(First) = First
        BY <3>3 DEF First, ContentOf, Summary, Named, EmptyConfig
      <4> QED BY <3>3, <4>1 DEF Named
    <3> QED BY <3>1, <3>2, <3>3 DEF Addable, SameKind
  <2> QED BY <2>1, <2>2, <2>3 DEF IInv, EntriesAreDue
<1> QED BY <1>1, ConvergeInvariance, PTL

\* Over documents that validate passed and held against their schema, commands
\* raise for an empty block of the catalog, a host name that cannot be encoded,
\* a file that is not opencode's and a gateway that answers with what has no
\* models, and for nothing else, whatever the documents say.
THEOREM ValidatedDocumentsReconcile == Spec => []ValidatedReconciles
<1>1. IInv => ValidatedReconciles
  <2> SUFFICES ASSUME IInv, NEW a \in Writers, pc[a] = "raised",
                      Validated(case.manifest, case.catalog), Examined(case.manifest, case.catalog),
                      ~case.catalog.null_block, ~NetworkRaises(case.manifest), Content \notin {Odd, Broken},
                      ~GatewayRaises(case.world)
               PROVE  FALSE
    BY DEF ValidatedReconciles
  <2>1. case \in Situations
    BY DEF IInv, TypeOK
  <2>2. First \in Configs
    <3>1. First \notin Configs => Content = First
      BY DEF IInv, ForeignFileStays, TypeOK, FileInv, ModesAgree, Content, First
    <3>2. case.file \in Files \cup {Absent}
      BY <2>1 DEF Situations
    <3>3. First \in Configs \cup {Broken, Odd}
      BY <3>2, ContentOfFiles, ConfigsAreContents DEF First
    <3> QED BY <3>1, <3>3
  <2>3. ReconcileRaises(case.manifest, case.catalog, First, case.world)
    BY <2>2 DEF IInv, RaisedFromTheFirst
  <2>4. ManifestAccepted(case.manifest) /\ DeviceAccepted(case.manifest)
    BY DEF Validated, Examined, ManifestAccepted
  <2>5. CatalogAccepted(case.catalog)
    BY DEF Validated, Examined
  <2>6. ~DocumentRaises(case.manifest)
    BY <2>4 DEF DocumentRaises, DeviceAccepted, StructureAccepted, Examined
  <2>7. ~OpencodeRaises(case.manifest, case.catalog, First)
    BY <2>2, <2>4, <2>5, ContentSentinels
    DEF OpencodeRaises, DeviceAccepted, StructureAccepted, CatalogAccepted
  <2> QED BY <2>3, <2>6, <2>7 DEF ReconcileRaises
<1> QED BY <1>1, ConvergeInvariance, PTL

\* A probe that fails makes no drift, for any device, documents and network,
\* but for DNS and the gateway's own reachability.
THEOREM ProbeFailureIsNotDriftHolds == Spec => []ProbeFailureIsNotDrift
<1>1. IInv => ProbeFailureIsNotDrift
  <2> DEFINE up == [case.world EXCEPT !.down = {}]
  <2> SUFFICES ASSUME IInv, NEW p \in Found, p[1] \in {"repair", "grant"},
                      p[2] \notin {"dns", "gateway"}
               PROVE  p \in AllPlans(case.manifest, case.catalog, Content, up)
    BY DEF ProbeFailureIsNotDrift
  <2>1. PICK name \in case.manifest.declares \cap Adapters :
          p \in CapabilityPlans(name, case.manifest, case.catalog, Content, case.world)
    BY DEF Found, AllPlans
  <2>2. /\ up.down = {} /\ up.mcp = case.world.mcp /\ up.gateway = case.world.gateway
        /\ up.live = case.world.live /\ up.key = case.world.key
    BY DEF IInv, TypeOK, Situations, Worlds
  <2> HIDE DEF up
  <2>3. McpUrlPlans(Summary(Content), case.world) \subseteq McpUrlPlans(Summary(Content), up)
    BY <2>2 DEF McpUrlPlans, McpProbe, Probe
  <2>4. p \notin NetworkPlans(case.manifest, case.world)
    BY DEF NetworkPlans
  <2>5. p \in GatewayPlans(case.manifest, case.world) => p \in GatewayPlans(case.manifest, up)
    BY <2>2 DEF GatewayPlans, ScopeKnown, Probe
  <2>6. p \in CapabilityPlans(name, case.manifest, case.catalog, Content, up)
    BY <2>1, <2>3, <2>4, <2>5 DEF CapabilityPlans, Adapters
  <2> QED BY <2>1, <2>6 DEF AllPlans
<1> QED BY <1>1, ConvergeInvariance, PTL
=============================================================================
