------------------------------- MODULE MCHealth -------------------------------
(* Instances of Health for TLC: two devices, one of which is the name of an   *)
(* integration row, and two capabilities.                                     *)
EXTENDS Health

CONSTANTS d1, d2

DeviceOrder == <<d1, d2>>
TwoCapabilities == <<"opencode", "skills">>

AllStatuses == {"ok", "unknown", "warning", "error", "other", "malformed"}
Ranks ==
  [s \in AllStatuses |-> CASE s = "ok" -> 0 [] s = "warning" -> 2 [] s = "error" -> 3
                           [] OTHER -> 1]

Says(opencode, skills) == [c \in Caps |-> IF c = "opencode" THEN opencode ELSE skills]

\* A device with a failing capability, one in a status the server does not
\* know, and a report with a malformed status.
Samples == {Says("error", "none"), Says("other", "warning"), Says("ok", "malformed")}
=============================================================================
