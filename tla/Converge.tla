------------------------------- MODULE Converge -------------------------------
(***************************************************************************)
(* From documents to a device: reconcile_device on a manifest and a        *)
(* catalog that validate may have passed, and its add actions written by   *)
(* atomic_write, until there is nothing left to add.  Commands overlap,    *)
(* are killed and run again; the machine can lose power.                   *)
(*                                                                         *)
(* Approval, backups and restoring are module Apply's; atomic_write is one *)
(* step there and module FileReplace here.                                 *)
(*                                                                         *)
(*   idle -> applying -> writing -> applying ... -> idle                   *)
(*   idle or applying -> raised -> idle                                    *)
(***************************************************************************)
EXTENDS Reconciliation, FileReplace

CONSTANTS
  Cases,    \* documents, first file and network: what a device may be in
  MaxFaults \* bound: how often commands fail or are killed, or power fails

ASSUME ConfigsAreContents == Contents = Configs \cup {Broken, Odd}
Situations == [manifest : Manifests, catalog : Catalogs, file : Files \cup {Absent}, world : Worlds]

ASSUME CasesAreSituations == Cases \subseteq Situations
ASSUME FaultBound == MaxFaults \in Nat

VARIABLES
  case,   \* what this device is in
  pc,     \* what each command is about to do
  found,  \* the plans of its reconcile_device
  todo,   \* those still to be applied
  adding, \* the one it is writing
  faults

runVars == <<pc, found, todo, adding>>
vars == <<fileVars, case, runVars, faults>>

Init ==
  /\ case \in Cases
  /\ target = case.file
  /\ FileInit
  /\ pc = [a \in Writers |-> "idle"]
  /\ found = [a \in Writers |-> {}]
  /\ todo = [a \in Writers |-> {}]
  /\ adding = [a \in Writers |-> Unset]
  /\ faults = 0

\* What a reader finds: a file that is not there reads as an empty one.
ContentOf(f) == IF f = Absent THEN EmptyConfig ELSE f.content

Content == ContentOf(target)

Raises == ReconcileRaises(case.manifest, case.catalog, Content, case.world)

Found == AllPlans(case.manifest, case.catalog, Content, case.world)

Goes(a, to) == pc' = [pc EXCEPT ![a] = to]

-----------------------------------------------------------------------------
\* reconcile_device, by a command that goes on to apply.
Reconcile(a) ==
  /\ pc[a] = "idle"
  /\ ~Raises
  /\ found' = [found EXCEPT ![a] = Found]
  /\ todo' = [todo EXCEPT ![a] = ToApply(Found)]
  /\ Goes(a, "applying")
  /\ UNCHANGED <<fileVars, case, adding, faults>>

ReconcileFails(a) ==
  /\ pc[a] = "idle"
  /\ Raises
  /\ Goes(a, "raised")
  /\ UNCHANGED <<fileVars, case, found, todo, adding, faults>>

\* OpencodeAdapter.apply reads the file again, merges and calls atomic_write.
Add(a, i) ==
  /\ pc[a] = "applying"
  /\ i \in todo[a]
  /\ Content \in Configs
  /\ Begin(a, Merge(Content, i, case.catalog))
  /\ adding' = [adding EXCEPT ![a] = i]
  /\ Goes(a, "writing")
  /\ UNCHANGED <<case, found, todo, faults>>

\* json.loads raises, although reconcile took the file for an empty one.
AddFails(a) ==
  /\ pc[a] = "applying"
  /\ todo[a] # {}
  /\ Content \notin Configs
  /\ Goes(a, "raised")
  /\ UNCHANGED <<fileVars, case, found, todo, adding, faults>>

Writes(a) ==
  /\ pc[a] = "writing"
  /\ WriteStep(a)
  /\ IF call'[a] = "ready"
     THEN /\ Goes(a, "applying")
          /\ todo' = [todo EXCEPT ![a] = @ \ {adding[a]}]
          /\ adding' = [adding EXCEPT ![a] = Unset]
     ELSE UNCHANGED <<pc, todo, adding>>
  /\ UNCHANGED <<case, found, faults>>

Finish(a) ==
  /\ pc[a] = "applying"
  /\ todo[a] = {}
  /\ Goes(a, "idle")
  /\ found' = [found EXCEPT ![a] = {}]
  /\ UNCHANGED <<fileVars, case, todo, adding, faults>>

\* A command forgets what it knew.
Stops(a) ==
  /\ Goes(a, "idle")
  /\ found' = [found EXCEPT ![a] = {}]
  /\ todo' = [todo EXCEPT ![a] = {}]
  /\ adding' = [adding EXCEPT ![a] = Unset]

Fault ==
  /\ faults < MaxFaults
  /\ faults' = faults + 1

\* A command that raised has ended, and can be started again.
StartAgain(a) ==
  /\ pc[a] = "raised"
  /\ Stops(a)
  /\ UNCHANGED <<fileVars, case, faults>>

\* The first write of a command fails: there is nothing to restore.  After a
\* later one the command restores; that is in Apply.
WriteFails(a) ==
  /\ pc[a] = "writing"
  /\ todo[a] = ToApply(found[a])
  /\ Raise(a)
  /\ Stops(a)
  /\ Fault
  /\ UNCHANGED case

Killed(a) ==
  /\ pc[a] \in {"applying", "writing"}
  /\ KillWriter(a)
  /\ Stops(a)
  /\ Fault
  /\ UNCHANGED case

PowerLoss ==
  /\ PowerFails
  /\ pc' = [a \in Writers |-> "idle"]
  /\ found' = [a \in Writers |-> {}]
  /\ todo' = [a \in Writers |-> {}]
  /\ adding' = [a \in Writers |-> Unset]
  /\ Fault
  /\ UNCHANGED case

\* One step of a command that has started.
Step(a) == (\E i \in Ids : Add(a, i)) \/ AddFails(a) \/ Writes(a) \/ Finish(a)

Next ==
  \/ \E a \in Writers :
       Reconcile(a) \/ ReconcileFails(a) \/ Step(a) \/ StartAgain(a) \/ WriteFails(a) \/ Killed(a)
  \/ PowerLoss

\* A command that runs goes on; nobody has to start one.
Spec == Init /\ [][Next]_vars /\ \A a \in Writers : WF_vars(Step(a))
-----------------------------------------------------------------------------
TypeOK ==
  /\ FileInv
  /\ case \in Situations
  /\ faults \in Nat
  /\ pc \in [Writers -> {"idle", "applying", "writing", "raised"}]
  /\ DOMAIN found = Writers
  /\ todo \in [Writers -> SUBSET Ids]
  /\ adding \in [Writers -> Ids \cup {Unset}]
  /\ \A a \in Writers :
       /\ pc[a] = "writing" <=> call[a] # "ready"
       /\ pc[a] = "writing" => adding[a] \in todo[a]
       /\ todo[a] \subseteq ToApply(found[a])

\* The loop of docs/operating-guide.md:155, which ends with a reconcile that
\* says "no drift", with apply in the place of editing by hand: as long as
\* applies that can reconcile are started again and again there comes a time
\* after which nothing is left to add, although they overwrite each other's
\* files and are killed half-way.  Not so for a file that is no JSON: reconcile
\* takes it for an empty one (reconcile.py:278), apply cannot parse it
\* (capabilities.py:202), and that goes on for as long as somebody tries.
Converges ==
  ([]<><<\E a \in Writers : Reconcile(a)>>_vars) => <>[](ToApply(Found) = {} \/ Content = Broken)

\* "naming drift does not produce spurious plans" (reconcile.py:294): commands
\* never give opencode.json a second entry for a server under another spelling,
\* unless the manifest asks for both.
NoSecondSpelling ==
  \A k, l \in Ids :
    /\ k # l /\ SameKind(k, l) /\ Norm[k] = Norm[l]
    /\ target # Absent /\ target.content \in Configs
    /\ target.content.entries[k] # Unset /\ target.content.entries[l] # Unset
    => \/ {k, l} \subseteq case.manifest.providers \cup case.manifest.mcp_servers
       \/ /\ case.file # Absent
          /\ case.file.content.entries[k] # Unset /\ case.file.content.entries[l] # Unset

\* What validate passed and held against its schema reconciles: commands raise
\* for an empty catalog block, for a host name that cannot be encoded, for a
\* file that is no JSON or of another shape and for a gateway whose answer is,
\* but for nothing else that validate examines (validate_manifest_file,
\* validate_catalog_file, reconcile_device).
ValidatedReconciles ==
  \A a \in Writers :
    /\ pc[a] = "raised"
    /\ Validated(case.manifest, case.catalog)
    /\ Examined(case.manifest, case.catalog)
    => \/ case.catalog.null_block
       \/ NetworkRaises(case.manifest)
       \/ Content \in {Odd, Broken}
       \/ GatewayRaises(case.world)

\* "Resolve a hostname to an IP, or None if it does not resolve."
\* (capabilities.py:93): over such documents no command raises for the name.
UnresolvableIsNone ==
  \A a \in Writers :
    /\ pc[a] = "raised"
    /\ Validated(case.manifest, case.catalog)
    /\ Examined(case.manifest, case.catalog)
    => \/ case.catalog.null_block
       \/ Content \in {Odd, Broken}
       \/ GatewayRaises(case.world)

\* "A probe that can't reach the host at all produces no plan"
\* (docs/operating-guide.md:186): every drift reported of the device but that
\* of the network itself is one a network that answers would show as well
\* (OpencodeAdapter._probe_mcp_urls, GatewayAccessAdapter.reconcile).
ProbeFailureIsNotDrift ==
  ~Raises =>
    \A p \in Found :
      p[1] \in {"repair", "grant"} /\ p[2] \notin {"dns", "gateway"} =>
        p \in AllPlans(case.manifest, case.catalog, Content, [case.world EXCEPT !.down = {}])

-----------------------------------------------------------------------------
First == ContentOf(case.file)

Named(config) == {k \in Ids : config.entries[k] # Unset}

\* What commands may add: what the manifest asks for, the catalog lists and the
\* first file had under no spelling.
Addable ==
  {i \in Desired(case.manifest, case.catalog) :
     \A k \in Named(Summary(First)) : SameKind(i, k) => Norm[k] # Norm[i]}

\* The first file's entries are there, and none that is not due.
IsDue(config) ==
  /\ Named(Summary(First)) \subseteq Named(config)
  /\ Named(config) \subseteq Named(Summary(First)) \cup Addable

\* Of every file there is, will be, or may come back.
EntriesAreDue ==
  /\ \A f \in past : f = case.file \/ (f # Absent /\ f.content \in Configs /\ IsDue(f.content))
  /\ \A a \in Writers :
       /\ data[a] # Absent => data[a] \in Configs /\ IsDue(data[a])
       /\ todo[a] \subseteq Addable

\* A file that is none of opencode's stays as it is.
ForeignFileStays ==
  First \notin Configs => past = {case.file} /\ \A a \in Writers : call[a] = "ready"

\* Commands raise for what was so from the first.
RaisedFromTheFirst ==
  \A a \in Writers : pc[a] = "raised" =>
    \/ ReconcileRaises(case.manifest, case.catalog, First, case.world)
    \/ First \notin Configs

\* The inductive invariant of reconciling and applying.
IInv ==
  /\ TypeOK
  /\ EntriesAreDue
  /\ ForeignFileStays
  /\ RaisedFromTheFirst
=============================================================================
