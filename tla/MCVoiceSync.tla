------------------------------ MODULE MCVoiceSync ------------------------------
(* Small instances of VoiceSync: see MCVoiceControlPlane on budgets. *)
EXTENDS VoiceSync

CONSTANTS alice, bob, a1, b1, c1, c2

MCSidOwner == [s \in Sids |-> IF s = b1 THEN bob ELSE alice]

Calm == [changes |-> 3, closings |-> 0, losses |-> 0, restarts |-> 0, refusals |-> 0,
         overtakes |-> 0, faults |-> 0, member |-> TRUE, channels |-> {c1}, sids |-> {a1}]

\* The socket is lost; the server restarts.
Flaky     == [Calm EXCEPT !.losses = 1]
Dying     == [Calm EXCEPT !.restarts = 1]
\* Two channels fall behind at once; members of one come and go.
TwoRooms  == [Calm EXCEPT !.changes = 2, !.channels = {c1, c2}, !.sids = {a1, b1}]
ComeAndGo == [Calm EXCEPT !.sids = {a1, b1}]
\* What spoils a socket, with another socket after it.
Reopening == [Flaky EXCEPT !.closings = 1]
Racing    == [Flaky EXCEPT !.changes = 2, !.overtakes = 1]
Refused   == [Flaky EXCEPT !.changes = 2, !.refusals = 1]

\* The user registers while changes are published; the database fails.
Arriving  == [Calm EXCEPT !.changes = 2, !.member = FALSE]
Failing   == [Flaky EXCEPT !.changes = 2, !.faults = 1]

All      == {Flaky, Dying, TwoRooms, ComeAndGo, Reopening, Racing, Refused, Arriving, Failing}
Reopened == {[Calm EXCEPT !.changes = 4, !.closings = 1]}
=============================================================================
