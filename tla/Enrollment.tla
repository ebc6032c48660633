----------------------------- MODULE Enrollment -----------------------------
(***************************************************************************)
(* Enrollment of devices at the control plane: operators mint one-time     *)
(* codes, devices exchange a code for a report token and, when the code    *)
(* carries a gateway scope, for a virtual key minted at the LiteLLM        *)
(* gateway inside the same SQLite transaction.                             *)
(*                                                                         *)
(* FastAPI runs the synchronous handlers in a thread pool, so exchanges    *)
(* interleave.  A request is a state machine over pc; every step is what   *)
(* the handler does between two points at which another thread or process  *)
(* can observe it:                                                         *)
(*                                                                         *)
(*   idle -> received -> selected -> claimed [-> minting -> minted] -> ok  *)
(*                                                                         *)
(* sqlite3 opens a transaction at the first data-changing statement, and   *)
(* that statement takes the database's only write lock, kept until the     *)
(* connection context exits.  SELECTs run outside a transaction and see    *)
(* committed rows.  Rows a transaction has written and not committed are   *)
(* seen by nobody, so a table changes in one step, at the commit.          *)
(***************************************************************************)
EXTENDS Integers, FiniteSets

CONSTANTS Codes,     \* the secrets token_urlsafe can produce
          Devices,
          Requests,  \* POST /enroll requests; each also names its token row
          None,
          MaxTtl,    \* bound: largest expires_in_seconds an operator gives
          MaxTime    \* bound: the clock stops here

\* Rows of enrollment_codes.  used: used_at is not NULL; scoped: the operator
\* listed models or MCP servers.
CodeRows == [device : Devices, expires : Nat, scoped : BOOLEAN, used : BOOLEAN]

ASSUME NoneIsFresh == None \notin Codes \cup Devices \cup Requests \cup CodeRows
ASSUME BoundsAreNaturals == MaxTtl \in Nat \ {0} /\ MaxTime \in Nat

VARIABLES
  codes,        \* table enrollment_codes: code -> row, or None
  tokens,       \* table tokens: the requests whose row was committed
  gateway_keys, \* table gateway_keys: the requests whose row was committed
  lock,         \* the request holding the database's write lock, or None
  pc,           \* what each request is about to do, or how it was answered
  req,          \* body of each request: code and device
  checked,      \* time.time() when the request compared expires_at
  calls,        \* each request's /key/generate call as the gateway sees it
  minter,       \* is the control plane given a LiteLLM admin credential
  now

vars == <<codes, tokens, gateway_keys, lock, pc, req, checked, calls, minter, now>>
tables == <<codes, tokens, gateway_keys>>

-----------------------------------------------------------------------------
Bodies   == [code : Codes, device : Devices]

InTransaction == {"claimed", "minting", "minted"}
InHandler     == {"received", "selected"} \cup InTransaction
Failed        == {"403", "500", "502", "503"}
Committed     == {"ok", "delivered"}
\* "lost": the client never gets an answer, whatever the server did.
PcValues      == {"idle", "lost"} \cup InHandler \cup Failed \cup Committed

\* Keys that exist at the gateway, whether or not anybody was told.
GatewayKeys == {r \in Requests : calls[r] = "issued"}

TypeOK ==
  /\ codes \in [Codes -> CodeRows \cup {None}]
  /\ tokens \subseteq Requests
  /\ gateway_keys \subseteq Requests
  /\ lock \in Requests \cup {None}
  /\ pc \in [Requests -> PcValues]
  /\ req \in [Requests -> Bodies \cup {None}]
  /\ checked \in [Requests -> Nat]
  /\ calls \in [Requests -> {"none", "sent", "issued", "refused"}]
  /\ minter \in BOOLEAN
  /\ now \in Nat

Init ==
  /\ codes = [c \in Codes |-> None]
  /\ tokens = {}
  /\ gateway_keys = {}
  /\ lock = None
  /\ pc = [r \in Requests |-> "idle"]
  /\ req = [r \in Requests |-> None]
  /\ checked = [r \in Requests |-> 0]
  /\ calls = [r \in Requests |-> "none"]
  /\ minter \in BOOLEAN
  /\ now = 0

\* The row a request's code names, and what it was looked up for.
Row(r) == codes[req[r].code]

\* Mutant: a code is still good in the second it expires.
RedeemableAtExpiry(row, device, time) ==
  /\ row # None
  /\ ~row.used
  /\ row.expires >= time
  /\ row.device = device

\* Mutant: the device a code was issued for is not compared.
RedeemableByAnyone(row, device, time) ==
  /\ row # None
  /\ ~row.used
  /\ row.expires > time

\* The three refusals made on the row read by the SELECT.
Redeemable(row, device, time) ==
  /\ row # None
  /\ ~row.used
  /\ row.expires > time
  /\ row.device = device

-----------------------------------------------------------------------------
(* The operator. *)

\* POST /enrollment-codes.  The INSERT waits for the write lock, its expiry
\* computed at an earlier time t; when it gives up the operator gets a 500 and
\* nothing has changed.
CreateCode(c, d, ttl, scoped) ==
  /\ codes[c] = None
  /\ lock = None
  /\ \E t \in 0..now :
       codes' = [codes EXCEPT ![c] = [device |-> d, expires |-> t + ttl,
                                      scoped |-> scoped, used |-> FALSE]]
  /\ UNCHANGED <<tokens, gateway_keys, lock, pc, req, checked, calls, minter, now>>

-----------------------------------------------------------------------------
(* The exchange handler. *)

Receive(r, c, d) ==
  /\ pc[r] = "idle"
  /\ pc' = [pc EXCEPT ![r] = "received"]
  /\ req' = [req EXCEPT ![r] = [code |-> c, device |-> d]]
  /\ UNCHANGED <<tables, lock, checked, calls, minter, now>>

Select(r) ==
  /\ pc[r] = "received"
  /\ Redeemable(Row(r), req[r].device, now)
  /\ pc' = [pc EXCEPT ![r] = "selected"]
  /\ checked' = [checked EXCEPT ![r] = now]
  /\ UNCHANGED <<tables, lock, req, calls, minter, now>>

\* Leaving the handler, by an answer or by an exception.  Leaving it by an
\* exception rolls the transaction back: what it wrote was never in a table.
Leave(r, status) ==
  /\ pc' = [pc EXCEPT ![r] = status]
  /\ lock' = IF lock = r THEN None ELSE lock
  /\ UNCHANGED <<req, checked, minter, now>>

SelectRefuses(r) ==
  /\ pc[r] = "received"
  /\ ~Redeemable(Row(r), req[r].device, now)
  /\ Leave(r, "403")
  /\ UNCHANGED <<tables, calls>>

\* Mutant: the UPDATE trusts the SELECT and drops "AND used_at IS NULL".
ClaimUnguarded(r) ==
  /\ pc[r] = "selected"
  /\ lock = None
  /\ lock' = r
  /\ pc' = [pc EXCEPT ![r] = "claimed"]
  /\ UNCHANGED <<tables, req, checked, calls, minter, now>>

\* UPDATE ... SET used_at WHERE code = ? AND used_at IS NULL.
Claim(r) ==
  /\ pc[r] = "selected"
  /\ lock = None
  /\ ~Row(r).used
  /\ lock' = r
  /\ pc' = [pc EXCEPT ![r] = "claimed"]
  /\ UNCHANGED <<tables, req, checked, calls, minter, now>>

\* The UPDATE found no row: another exchange committed since the SELECT.
ClaimRefuses(r) ==
  /\ pc[r] = "selected"
  /\ lock = None
  /\ Row(r).used
  /\ Leave(r, "403")
  /\ UNCHANGED <<tables, calls>>

\* sqlite3's busy timeout runs out while another request holds the lock.
LockTimeout(r) ==
  /\ pc[r] = "selected"
  /\ lock # None
  /\ Leave(r, "500")
  /\ UNCHANGED <<tables, calls>>

NoMinter(r) ==
  /\ pc[r] = "claimed"
  /\ Row(r).scoped
  /\ ~minter
  /\ Leave(r, "503")
  /\ UNCHANGED <<tables, calls>>

SendMint(r) ==
  /\ pc[r] = "claimed"
  /\ Row(r).scoped
  /\ minter
  /\ pc' = [pc EXCEPT ![r] = "minting"]
  /\ calls' = [calls EXCEPT ![r] = "sent"]
  /\ UNCHANGED <<tables, lock, req, checked, minter, now>>

MintReply(r) ==
  /\ pc[r] = "minting"
  /\ calls[r] = "issued"
  /\ pc' = [pc EXCEPT ![r] = "minted"]
  /\ UNCHANGED <<tables, lock, req, checked, calls, minter, now>>

\* Mutant: the mint call is made without a timeout.
MintFailsIfRefused(r) ==
  /\ pc[r] = "minting"
  /\ calls[r] = "refused"
  /\ Leave(r, "502")
  /\ UNCHANGED <<tables, calls>>

\* Mutant: the claim is committed before the mint call, so it survives it.
MintFailsClaimed(r) ==
  /\ pc[r] = "minting"
  /\ codes' = [codes EXCEPT ![req[r].code].used = TRUE]
  /\ Leave(r, "502")
  /\ UNCHANGED <<tokens, gateway_keys, calls>>

\* GatewayError: refused, unreachable, timed out, or an answer that is lost
\* or unusable.  The gateway may have made the key, or may still make it.
MintFails(r) ==
  /\ pc[r] = "minting"
  /\ Leave(r, "502")
  /\ UNCHANGED <<tables, calls>>

ReadyToCommit(r) ==
  \/ pc[r] = "minted"
  \/ pc[r] = "claimed" /\ ~Row(r).scoped

\* Mutant: the key row is written only when the call names models.
CommitWithoutKeyRow(r) ==
  /\ ReadyToCommit(r)
  /\ codes' = [codes EXCEPT ![req[r].code].used = TRUE]
  /\ tokens' = tokens \cup {r}
  /\ Leave(r, "ok")
  /\ UNCHANGED <<gateway_keys, calls>>

\* The INSERTs and the commit: claim, key row and token appear together.
Commit(r) ==
  /\ ReadyToCommit(r)
  /\ codes' = [codes EXCEPT ![req[r].code].used = TRUE]
  /\ gateway_keys' = IF Row(r).scoped THEN gateway_keys \cup {r} ELSE gateway_keys
  /\ tokens' = tokens \cup {r}
  /\ Leave(r, "ok")
  /\ UNCHANGED calls

\* Mutant: the answer is given although the commit failed.
CommitFailsUnnoticed(r) ==
  /\ ReadyToCommit(r)
  /\ Leave(r, "ok")
  /\ UNCHANGED <<tables, calls>>

\* An INSERT or the COMMIT raises (disk full, database locked): roll back.
CommitFails(r) ==
  /\ ReadyToCommit(r)
  /\ Leave(r, "500")
  /\ UNCHANGED <<tables, calls>>

\* The answer reaches the client, or the connection breaks first.
Deliver(r) ==
  /\ pc[r] = "ok"
  /\ \E outcome \in {"delivered", "lost"} : pc' = [pc EXCEPT ![r] = outcome]
  /\ UNCHANGED <<tables, lock, req, checked, calls, minter, now>>

-----------------------------------------------------------------------------
(* The gateway, the clock, and the end of the process. *)

\* The gateway takes the call whenever it gets to it, even after the control
\* plane gave up on the answer, or died.
GatewayActs(r) ==
  /\ calls[r] = "sent"
  /\ \E outcome \in {"issued", "refused"} : calls' = [calls EXCEPT ![r] = outcome]
  /\ UNCHANGED <<tables, lock, pc, req, checked, minter, now>>

Tick ==
  /\ now < MaxTime
  /\ now' = now + 1
  /\ UNCHANGED <<tables, lock, pc, req, checked, calls, minter>>

\* The process dies and is started again, perhaps with or without the
\* credential.  SQLite rolls the open transaction back at the next open.
Restart ==
  /\ pc' = [r \in Requests |-> IF pc[r] \in InHandler \cup {"ok"} THEN "lost" ELSE pc[r]]
  /\ lock' = None
  /\ minter' \in BOOLEAN
  /\ UNCHANGED <<tables, req, checked, calls, now>>

-----------------------------------------------------------------------------
HandlerStep(r) ==
  \/ Select(r) \/ SelectRefuses(r)
  \/ Claim(r) \/ ClaimRefuses(r) \/ LockTimeout(r)
  \/ NoMinter(r) \/ SendMint(r) \/ MintReply(r) \/ MintFails(r)
  \/ Commit(r) \/ CommitFails(r) \/ Deliver(r)

Next ==
  \/ \E c \in Codes, d \in Devices, ttl \in 1..MaxTtl, scoped \in BOOLEAN :
       CreateCode(c, d, ttl, scoped)
  \/ \E r \in Requests :
       \/ \E c \in Codes, d \in Devices : Receive(r, c, d)
       \/ HandlerStep(r)
       \/ GatewayActs(r)
  \/ Tick
  \/ Restart

Spec == Init /\ [][Next]_vars

\* Threads are scheduled, the busy timeout is 5 s and the mint call's is
\* 10 s, so no handler step is put off for ever.  The gateway, the clock,
\* the operator and crashes owe nothing.
FairSpec == Spec /\ \A r \in Requests : WF_vars(HandlerStep(r))
-----------------------------------------------------------------------------
(* What the code promises. *)

\* A code yields at most one device token, however its exchanges interleave
\* (exchange_enrollment_code, "concurrent exchanges cannot both succeed").
OneTokenPerCode ==
  \A r, s \in tokens : req[r].code = req[s].code => r = s

\* A code is spent exactly when some token came out of it: an exchange that
\* fails in the mint, in the database or in a crash leaves the code usable.
SpentMeansGranted ==
  \A c \in Codes : codes[c] # None =>
    (codes[c].used <=> \E r \in tokens : req[r].code = c)

\* Every token was granted to the device its code was issued for, by an
\* exchange that looked at the clock before the code expired.
GrantedInTimeToItsDevice ==
  \A r \in tokens :
    /\ Row(r) # None
    /\ req[r].device = Row(r).device
    /\ checked[r] < Row(r).expires

\* gateway_keys lists the key of every token whose code had a scope and no
\* other, and every key it lists exists at the gateway.
KeyRowsMatchTokens ==
  /\ \A r \in Requests : r \in gateway_keys <=> (r \in tokens /\ Row(r).scoped)
  /\ gateway_keys \subseteq GatewayKeys

\* Every exchange the server accepts is answered: neither the write lock nor
\* a silent gateway holds a handler for ever.
EveryRequestAnswered ==
  \A r \in Requests : pc[r] \in InHandler ~> pc[r] \notin InHandler

\* What the design says of the audit table (litellm-key-minting.md, FR3: "A
\* gateway_keys table records ... for every minted key"): a key at the
\* gateway is in the table, or its exchange is still under way.
EveryMintedKeyRecorded ==
  \A r \in GatewayKeys : r \in gateway_keys \/ pc[r] \in {"minting", "minted"}

\* What is true of it: a key that is at the gateway and not in the table was
\* handed to nobody.  Its exchange failed or died with the process, and got no
\* token for the code either; if not it is still under way.
OrphanKeysAreUndelivered ==
  \A r \in GatewayKeys \ gateway_keys :
    r \notin tokens /\ pc[r] \in {"minting", "minted", "500", "502", "lost"}

-----------------------------------------------------------------------------
(* The abstract specification this one implements. *)

Abstract == INSTANCE OneTimeCodes WITH
  Tokens <- Requests,
  issued <- [c \in Codes |-> IF codes[c] = None THEN None ELSE codes[c].device],
  grants <- {[code |-> req[r].code, device |-> req[r].device, token |-> r] : r \in tokens}

\* Enrollment behaves as a store of one-time codes, each granted at most
\* once and to its own device (create_enrollment_code and
\* exchange_enrollment_code together).
ImplementsOneTimeCodes == Abstract!Spec

-----------------------------------------------------------------------------
(* The inductive invariant behind the safety properties. *)

\* The write lock is held by the one request that is inside a transaction.
LockIsTransaction ==
  \A r \in Requests : pc[r] \in InTransaction <=> lock = r

\* A request past its SELECT names a code that exists, for its own device,
\* and looked at it in time.
PastSelect ==
  \A r \in Requests :
    pc[r] \in {"selected"} \cup InTransaction =>
      /\ req[r] \in Bodies
      /\ Row(r) # None
      /\ req[r].device = Row(r).device
      /\ checked[r] < Row(r).expires

\* Inside a transaction the code is unspent, and what the mint step has
\* reached agrees with the gateway and with the code's scope.
InsideTransaction ==
  \A r \in Requests :
    /\ pc[r] \in InTransaction => ~Row(r).used
    /\ pc[r] \in {"minting", "minted"} => Row(r).scoped
    /\ pc[r] = "minted" => calls[r] = "issued"

\* A token's request was received and has left the handler.
TokenIsPast ==
  \A r \in tokens : req[r] \in Bodies /\ pc[r] \in Committed \cup {"lost"}

\* Calls are made for codes with a scope; who was answered "ok" has a token.
CallsFollow ==
  \A r \in Requests :
    /\ calls[r] # "none" =>
         /\ pc[r] \in {"minting", "minted", "500", "502", "lost"} \cup Committed
         /\ req[r] \in Bodies /\ Row(r) # None /\ Row(r).scoped
    /\ pc[r] \in Committed => r \in tokens

BodyKnown ==
  \A r \in Requests : pc[r] \in InHandler => req[r] \in Bodies

IInv ==
  /\ TypeOK
  /\ LockIsTransaction
  /\ BodyKnown
  /\ PastSelect
  /\ InsideTransaction
  /\ TokenIsPast
  /\ CallsFollow
  /\ OneTokenPerCode
  /\ SpentMeansGranted
  /\ GrantedInTimeToItsDevice
  /\ KeyRowsMatchTokens
=============================================================================
