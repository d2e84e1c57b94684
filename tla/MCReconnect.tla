------------------------------ MODULE MCReconnect ------------------------------
(* Small instances of Reconnect: see MCVoiceControlPlane on budgets. *)
EXTENDS Reconnect

Calm == [drops |-> 0, outages |-> 0, refusals |-> 0, sends |-> 0,
         visits |-> 1, logouts |-> 0]

\* The socket drops while the client sends.
Dropping   == [Calm EXCEPT !.drops = 2, !.sends = 2]
\* The server goes away, or rejects sessions; the UI reloads meanwhile.
Away       == [Calm EXCEPT !.drops = 1, !.outages = 1, !.visits = 2]
Rejecting  == [Calm EXCEPT !.drops = 1, !.refusals = 1, !.visits = 2]
\* A reload leaves a loop asleep, and the new socket drops.
Reloading  == [Calm EXCEPT !.drops = 2, !.visits = 2, !.sends = 1]
\* A logout, and a login after it, under way of all that.
LoggingOut == [Calm EXCEPT !.drops = 1, !.visits = 2, !.logouts = 2, !.sends = 1]

All == {Dropping, Away, Rejecting, Reloading, LoggingOut}
=============================================================================
