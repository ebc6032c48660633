-------------------------- MODULE EnrollmentProofs --------------------------
(***************************************************************************)
(* Enrollment: for any number of codes, devices and requests, a code is    *)
(* spent at most once, exactly when a token was granted, and Enrollment    *)
(* implements OneTimeCodes.  The only step that changes a table under a    *)
(* request is its commit; CommitKeepsInv is where the proof happens.       *)
(***************************************************************************)
EXTENDS Enrollment, TLAPS

USE DEF tables, Leave, PcValues, InHandler, InTransaction, Failed, Committed

\* Before any request, nothing is granted and nothing is spent.
LEMMA InvInit == Init => IInv
BY NoneIsFresh, BoundsAreNaturals
DEF Init, IInv, TypeOK, LockIsTransaction, BodyKnown, PastSelect,
    InsideTransaction, TokenIsPast, CallsFollow, OneTokenPerCode, SpentMeansGranted,
    GrantedInTimeToItsDevice, KeyRowsMatchTokens, GatewayKeys

\* Every step keeps every variable in its type.
LEMMA TypeStep ==
  ASSUME IInv, [Next]_vars
  PROVE  TypeOK'
<1> USE DEF IInv, TypeOK
<1>1. ASSUME NEW c \in Codes, NEW d \in Devices, NEW ttl \in 1..MaxTtl,
             NEW scoped \in BOOLEAN, CreateCode(c, d, ttl, scoped)
      PROVE  TypeOK'
  BY <1>1 DEF CreateCode, CodeRows
<1>2. ASSUME NEW r \in Requests, NEW c \in Codes, NEW d \in Devices, Receive(r, c, d)
      PROVE  TypeOK'
  BY <1>2 DEF Receive, Bodies
<1>3. ASSUME NEW r \in Requests, HandlerStep(r)
      PROVE  TypeOK'
  <2>1. CASE Select(r)           BY <2>1 DEF Select
  <2>2. CASE SelectRefuses(r)    BY <2>2 DEF SelectRefuses
  <2>3. CASE Claim(r)            BY <2>3 DEF Claim
  <2>4. CASE ClaimRefuses(r)     BY <2>4 DEF ClaimRefuses
  <2>5. CASE LockTimeout(r)      BY <2>5 DEF LockTimeout
  <2>6. CASE NoMinter(r)         BY <2>6 DEF NoMinter
  <2>7. CASE SendMint(r)         BY <2>7 DEF SendMint
  <2>8. CASE MintReply(r)        BY <2>8 DEF MintReply
  <2>9. CASE MintFails(r)        BY <2>9 DEF MintFails
  <2>10. CASE Commit(r)
    <3>1. req[r] \in Bodies /\ codes[req[r].code] \in CodeRows
      BY <2>10 DEF Commit, ReadyToCommit, BodyKnown, PastSelect, Bodies, Row
    <3>2. codes' \in [Codes -> CodeRows \cup {None}]
      BY <2>10, <3>1 DEF Commit, CodeRows, Bodies
    <3> QED BY <2>10, <3>2 DEF Commit
  <2>11. CASE CommitFails(r)     BY <2>11 DEF CommitFails
  <2>12. CASE Deliver(r)         BY <2>12 DEF Deliver
  <2> QED BY <1>3, <2>1, <2>2, <2>3, <2>4, <2>5, <2>6, <2>7, <2>8, <2>9, <2>10,
             <2>11, <2>12 DEF HandlerStep
<1>4. ASSUME NEW r \in Requests, GatewayActs(r)
      PROVE  TypeOK'
  BY <1>4 DEF GatewayActs
<1>5. CASE Tick
  BY <1>5 DEF Tick
<1>6. CASE Restart
  BY <1>6 DEF Restart
<1>7. CASE UNCHANGED vars
  BY <1>7 DEF vars
<1> QED
  BY <1>1, <1>2, <1>3, <1>4, <1>5, <1>6, <1>7 DEF Next

\* The step that matters: claim, key row and token become visible together.
LEMMA CommitKeepsInv ==
  ASSUME IInv, NEW r \in Requests, Commit(r)
  PROVE  IInv'
<1> DEFINE c == req[r].code
<1>1. /\ req[r] \in Bodies /\ c \in Codes
      /\ codes[c] \in CodeRows /\ codes[c] # None /\ ~codes[c].used
      /\ req[r].device = codes[c].device
      /\ checked[r] < codes[c].expires
      /\ lock = r /\ pc[r] \in InTransaction
  BY DEF IInv, TypeOK, Commit, ReadyToCommit, LockIsTransaction, BodyKnown, PastSelect,
         InsideTransaction, Bodies, Row
<1>2. /\ codes' = [codes EXCEPT ![c] = [codes[c] EXCEPT !.used = TRUE]]
      /\ tokens' = tokens \cup {r} /\ lock' = None
      /\ pc' = [pc EXCEPT ![r] = "ok"]
      /\ UNCHANGED <<req, checked, calls, minter, now>>
  BY <1>1 DEF Commit
<1>3. /\ codes'[c] \in CodeRows /\ codes'[c] # None /\ codes'[c].used
      /\ codes'[c].device = codes[c].device
      /\ codes'[c].expires = codes[c].expires
      /\ codes'[c].scoped = codes[c].scoped
      /\ \A d \in Codes \ {c} : codes'[d] = codes[d]
  <2>1. codes'[c] = [codes[c] EXCEPT !.used = TRUE]
    BY <1>1, <1>2 DEF IInv, TypeOK
  <2>2. codes'[c] \in CodeRows /\ codes'[c].used
    BY <1>1, <2>1 DEF CodeRows
  <2>3. codes'[c] # None
    BY <2>2, NoneIsFresh
  <2> QED BY <1>1, <1>2, <2>1, <2>2, <2>3 DEF IInv, TypeOK, CodeRows
<1>4. \A s \in tokens : req[s].code # c /\ s # r
  BY <1>1 DEF IInv, SpentMeansGranted, TokenIsPast
<1>5. TypeOK'
  BY TypeStep, Commit(r) DEF Next, HandlerStep
<1>6. LockIsTransaction'
  BY <1>1, <1>2, NoneIsFresh DEF IInv, TypeOK, LockIsTransaction
<1>7. BodyKnown' /\ TokenIsPast'
  BY <1>1, <1>2 DEF IInv, TypeOK, BodyKnown, TokenIsPast
<1>8. PastSelect' /\ GrantedInTimeToItsDevice'
  BY <1>1, <1>2, <1>3 DEF IInv, TypeOK, PastSelect, GrantedInTimeToItsDevice, Row, Bodies
<1>9. InsideTransaction'
  BY <1>1, <1>2 DEF IInv, TypeOK, InsideTransaction, LockIsTransaction
<1>10. OneTokenPerCode'
  BY <1>2, <1>4 DEF IInv, OneTokenPerCode
<1>11. SpentMeansGranted'
  BY <1>1, <1>2, <1>3, <1>4 DEF IInv, SpentMeansGranted
<1>12. KeyRowsMatchTokens'
  <2>1. gateway_keys' = IF codes[c].scoped THEN gateway_keys \cup {r} ELSE gateway_keys
    BY DEF Commit, Row
  <2>2. codes[c].scoped => calls[r] = "issued"
    BY DEF Commit, ReadyToCommit, IInv, InsideTransaction, Row
  <2>3. ASSUME NEW s \in Requests, s # r
        PROVE  s \in gateway_keys' <=> (s \in tokens' /\ Row(s)'.scoped)
    BY <2>1, <2>3, <1>2, <1>3, <1>4 DEF IInv, KeyRowsMatchTokens, TokenIsPast, Row, Bodies
  <2>4. r \in gateway_keys' <=> Row(r)'.scoped
    BY <2>1, <1>2, <1>3, <1>4 DEF IInv, KeyRowsMatchTokens, Row
  <2> QED BY <2>1, <2>2, <2>3, <2>4, <1>2 DEF IInv, KeyRowsMatchTokens, GatewayKeys
<1>13. CallsFollow'
  BY <1>1, <1>2, <1>3 DEF IInv, TypeOK, CallsFollow, Row, Bodies
<1> QED
  BY <1>5, <1>6, <1>7, <1>8, <1>9, <1>10, <1>11, <1>12, <1>13 DEF IInv

\* No step of enrollment disturbs its invariant.
LEMMA InvStep == IInv /\ [Next]_vars => IInv'
<1> SUFFICES ASSUME IInv, [Next]_vars PROVE IInv'
  OBVIOUS
<1> TypeOK'
  BY TypeStep
<1> USE NoneIsFresh
    DEF IInv, TypeOK, LockIsTransaction, BodyKnown, PastSelect, InsideTransaction,
        TokenIsPast, CallsFollow, OneTokenPerCode, SpentMeansGranted, GrantedInTimeToItsDevice,
        KeyRowsMatchTokens, GatewayKeys, Row, Bodies
<1>1. ASSUME NEW c \in Codes, NEW d \in Devices, NEW ttl \in 1..MaxTtl,
             NEW scoped \in BOOLEAN, CreateCode(c, d, ttl, scoped)
      PROVE  IInv'
  BY <1>1 DEF CreateCode, CodeRows
<1>2. ASSUME NEW r \in Requests, NEW c \in Codes, NEW d \in Devices, Receive(r, c, d)
      PROVE  IInv'
  BY <1>2 DEF Receive
<1>3. ASSUME NEW r \in Requests, HandlerStep(r)
      PROVE  IInv'
  <2>1. CASE Select(r)           BY <2>1 DEF Select, Redeemable
  <2>2. CASE SelectRefuses(r)    BY <2>2 DEF SelectRefuses
  <2>3. CASE Claim(r)            BY <2>3 DEF Claim
  <2>4. CASE ClaimRefuses(r)     BY <2>4 DEF ClaimRefuses
  <2>5. CASE LockTimeout(r)      BY <2>5 DEF LockTimeout
  <2>6. CASE NoMinter(r)         BY <2>6 DEF NoMinter
  <2>7. CASE SendMint(r)         BY <2>7 DEF SendMint
  <2>8. CASE MintReply(r)        BY <2>8 DEF MintReply
  <2>9. CASE MintFails(r)        BY <2>9 DEF MintFails
  <2>10. CASE Commit(r)          BY <2>10, CommitKeepsInv
  <2>11. CASE CommitFails(r)     BY <2>11 DEF CommitFails, ReadyToCommit
  <2>12. CASE Deliver(r)         BY <2>12 DEF Deliver
  <2> QED BY <1>3, <2>1, <2>2, <2>3, <2>4, <2>5, <2>6, <2>7, <2>8, <2>9, <2>10,
             <2>11, <2>12 DEF HandlerStep
<1>4. ASSUME NEW r \in Requests, GatewayActs(r)
      PROVE  IInv'
  BY <1>4 DEF GatewayActs
<1>5. CASE Tick
  BY <1>5 DEF Tick
<1>6. CASE Restart
  BY <1>6 DEF Restart
<1>7. CASE UNCHANGED vars
  BY <1>7 DEF vars
<1> HIDE NoneIsFresh
    DEF IInv, TypeOK, LockIsTransaction, BodyKnown, PastSelect, InsideTransaction,
        TokenIsPast, CallsFollow, OneTokenPerCode, SpentMeansGranted, GrantedInTimeToItsDevice,
        KeyRowsMatchTokens, GatewayKeys, Row, Bodies
<1> QED
  BY <1>1, <1>2, <1>3, <1>4, <1>5, <1>6, <1>7 DEF Next

\* The inductive invariant holds in every reachable state.
THEOREM Invariance == Spec => []IInv
BY InvInit, InvStep, PTL DEF Spec

\* Enrollment keeps its tables, handlers and clock within their types.
THEOREM TypeCorrect == Spec => []TypeOK
<1> IInv => TypeOK
  BY DEF IInv
<1> QED BY Invariance, PTL

\* No code ever yields two device tokens.
THEOREM CodesAreOneTime == Spec => []OneTokenPerCode
<1> IInv => OneTokenPerCode
  BY DEF IInv
<1> QED BY Invariance, PTL

\* A code is spent exactly when a token came out of it: a failed exchange
\* costs nothing.
THEOREM FailureKeepsTheCode == Spec => []SpentMeansGranted
<1> IInv => SpentMeansGranted
  BY DEF IInv
<1> QED BY Invariance, PTL

\* Tokens go to the bound device, by an exchange that came in time.
THEOREM TokensAreBound == Spec => []GrantedInTimeToItsDevice
<1> IInv => GrantedInTimeToItsDevice
  BY DEF IInv
<1> QED BY Invariance, PTL

\* A key the table misses was handed to nobody.
THEOREM OrphansStayAtTheGateway == Spec => []OrphanKeysAreUndelivered
<1> IInv => OrphanKeysAreUndelivered
  BY DEF IInv, CallsFollow, KeyRowsMatchTokens, GatewayKeys, OrphanKeysAreUndelivered
<1> QED BY Invariance, PTL

\* The gateway_keys table and the tokens table never disagree.
THEOREM KeyAuditAgrees == Spec => []KeyRowsMatchTokens
<1> IInv => KeyRowsMatchTokens
  BY DEF IInv
<1> QED BY Invariance, PTL

-----------------------------------------------------------------------------
(* Enrollment implements OneTimeCodes: creating a code is Issue, a commit   *)
(* is Grant, and every other step changes neither table.                    *)

\* Steps that leave both tables alone, and the body of every request whose
\* token is in one, are invisible to the abstract specification.
LEMMA QuietStep ==
  ASSUME IInv, codes' = codes, tokens' = tokens, \A r \in tokens : req'[r] = req[r]
  PROVE  UNCHANGED Abstract!vars
BY DEF Abstract!vars

\* Nothing issued, nothing granted.
LEMMA InitRefines == Init => Abstract!Init
BY NoneIsFresh DEF Init, Abstract!Init

\* Creating a code is the abstract Issue.
LEMMA CreateCodeRefines ==
  ASSUME IInv, NEW c \in Codes, NEW d \in Devices, NEW ttl \in 1..MaxTtl,
         NEW scoped \in BOOLEAN, CreateCode(c, d, ttl, scoped)
  PROVE  Abstract!Issue(c, d)
<1> DEFINE New(t) == [device |-> d, expires |-> t + ttl, scoped |-> scoped, used |-> FALSE]
<1>1. PICK t \in 0..now : codes' = [codes EXCEPT ![c] = New(t)]
  BY DEF CreateCode
<1>2. t + ttl \in Nat
  BY <1>1 DEF IInv, TypeOK
<1>3. New(t) \in CodeRows /\ New(t).device = d
  BY <1>2 DEF CodeRows
<1> HIDE DEF New
<1>4. PICK row \in CodeRows : codes' = [codes EXCEPT ![c] = row] /\ row.device = d
  BY <1>1, <1>3
<1>5. codes[c] = None /\ UNCHANGED <<tokens, req>>
  BY DEF CreateCode
<1>6. row # None
  BY <1>4, NoneIsFresh
<1> QED
  BY <1>4, <1>5, <1>6 DEF Abstract!Issue, IInv, TypeOK

\* The commit of an exchange is the abstract Grant.
LEMMA CommitRefines ==
  ASSUME IInv, IInv', NEW r \in Requests, Commit(r)
  PROVE  Abstract!Grant(req[r].code, req[r].device, r)
<1> DEFINE c == req[r].code
<1>1. /\ c \in Codes /\ codes[c] # None /\ ~codes[c].used
      /\ req[r].device = codes[c].device /\ codes[c] \in CodeRows
  BY DEF IInv, TypeOK, Commit, ReadyToCommit, LockIsTransaction, BodyKnown, PastSelect,
         InsideTransaction, Bodies, Row
<1>2. /\ codes' = [codes EXCEPT ![c] = [codes[c] EXCEPT !.used = TRUE]]
      /\ tokens' = tokens \cup {r} /\ req' = req
  BY <1>1 DEF Commit
<1>3. \A s \in tokens : req[s].code # c /\ s # r
  BY <1>1 DEF IInv, SpentMeansGranted, TokenIsPast, Commit, ReadyToCommit
<1>4. codes'[c] # None /\ codes'[c].device = codes[c].device
  BY <1>1, <1>2, NoneIsFresh DEF IInv, TypeOK, CodeRows
<1>5. [x \in Codes |-> IF codes'[x] = None THEN None ELSE codes'[x].device]
      = [x \in Codes |-> IF codes[x] = None THEN None ELSE codes[x].device]
  BY <1>1, <1>2, <1>4 DEF IInv, TypeOK
<1>6. {[code |-> req'[s].code, device |-> req'[s].device, token |-> s] : s \in tokens'}
      = {[code |-> req[s].code, device |-> req[s].device, token |-> s] : s \in tokens}
        \cup {[code |-> c, device |-> req[r].device, token |-> r]}
  BY <1>2
<1> QED
  BY <1>1, <1>3, <1>5, <1>6 DEF Abstract!Grant

\* Every step is an abstract Issue, a Grant or a stutter.
LEMMA StepRefines ==
  IInv /\ IInv' /\ [Next]_vars => [Abstract!Next]_Abstract!vars
<1> SUFFICES ASSUME IInv, IInv', [Next]_vars
             PROVE  Abstract!Next \/ UNCHANGED Abstract!vars
  OBVIOUS
<1>1. ASSUME NEW c \in Codes, NEW d \in Devices, NEW ttl \in 1..MaxTtl,
             NEW scoped \in BOOLEAN, CreateCode(c, d, ttl, scoped)
      PROVE  Abstract!Next
  BY <1>1, CreateCodeRefines DEF Abstract!Next
<1>2. ASSUME NEW r \in Requests, NEW c \in Codes, NEW d \in Devices, Receive(r, c, d)
      PROVE  UNCHANGED Abstract!vars
  BY <1>2, QuietStep DEF Receive, IInv, TypeOK, TokenIsPast
<1>3. ASSUME NEW r \in Requests, Commit(r)
      PROVE  Abstract!Next
  <2>1. req[r].code \in Codes /\ req[r].device \in Devices
    BY <1>3 DEF IInv, Commit, ReadyToCommit, BodyKnown, Bodies
  <2> QED BY <1>3, <2>1, CommitRefines DEF Abstract!Next
<1>4. ASSUME NEW r \in Requests, HandlerStep(r), ~Commit(r)
      PROVE  UNCHANGED Abstract!vars
  BY <1>4, QuietStep
  DEF HandlerStep, Select, SelectRefuses, Claim, ClaimRefuses, LockTimeout, NoMinter,
      SendMint, MintReply, MintFails, CommitFails, Deliver
<1>5. ASSUME NEW r \in Requests, GatewayActs(r)
      PROVE  UNCHANGED Abstract!vars
  BY <1>5, QuietStep DEF GatewayActs
<1>6. CASE Tick
  BY <1>6, QuietStep DEF Tick
<1>7. CASE Restart
  BY <1>7, QuietStep DEF Restart
<1>8. CASE UNCHANGED vars
  BY <1>8, QuietStep DEF vars
<1> QED
  BY <1>1, <1>2, <1>3, <1>4, <1>5, <1>6, <1>7, <1>8 DEF Next

\* The exchange protocol implements the abstract store of one-time codes.
THEOREM Refinement == Spec => ImplementsOneTimeCodes
BY InitRefines, StepRefines, Invariance, PTL
DEF Spec, ImplementsOneTimeCodes, Abstract!Spec
=============================================================================
