---------------------------- MODULE OneTimeCodes ----------------------------
(***************************************************************************)
(* What enrollment promises, with no handlers, locks, clocks or gateway:   *)
(* an operator issues a code for one device, and a code is turned into a   *)
(* device token at most once, for that device.  A token is named by        *)
(* whatever obtained it.  Enrollment.tla is shown to implement this.       *)
(***************************************************************************)
CONSTANTS Codes, Devices, Tokens, None

VARIABLES issued,   \* issued[c]: the device code c was issued for, or None
          grants    \* the grants made: records of a code, a device, a token

vars == <<issued, grants>>

Grants == [code : Codes, device : Devices, token : Tokens]

Init ==
  /\ issued = [c \in Codes |-> None]
  /\ grants = {}

Issue(c, d) ==
  /\ issued[c] = None
  /\ issued' = [issued EXCEPT ![c] = d]
  /\ UNCHANGED grants

Grant(c, d, t) ==
  /\ issued[c] = d
  /\ \A g \in grants : g.code # c /\ g.token # t
  /\ grants' = grants \cup {[code |-> c, device |-> d, token |-> t]}
  /\ UNCHANGED issued

Next ==
  \E c \in Codes, d \in Devices :
    \/ Issue(c, d)
    \/ \E t \in Tokens : Grant(c, d, t)

Spec == Init /\ [][Next]_vars

-----------------------------------------------------------------------------
\* What users of the store rely on: no code and no token is in two grants, and
\* a grant is to the device its code was issued for.
OneUse ==
  /\ \A g, h \in grants : g.code = h.code \/ g.token = h.token => g = h
  /\ \A g \in grants : issued[g.code] = g.device
=============================================================================
