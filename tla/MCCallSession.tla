----------------------------- MODULE MCCallSession -----------------------------
(* Small instances of CallSession: see MCVoiceControlPlane on budgets. *)
EXTENDS CallSession

CONSTANTS c1, c2

Calm == [requests |-> 3, drops |-> 0, failures |-> 0, switches |-> 0]

\* Requests one after another, on rooms that end or attempts that fail.
Dropped   == [Calm EXCEPT !.requests = 4, !.drops = 2]
Failing   == [Calm EXCEPT !.requests = 4, !.failures = 2]
\* The microphone is switched meanwhile.
Switching == [Calm EXCEPT !.drops = 1, !.failures = 1, !.switches = 2]

All == {Dropped, Failing, Switching}
=============================================================================
