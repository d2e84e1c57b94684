------------------------------- MODULE MCPresence ------------------------------
(* Small instances of Presence: see MCVoiceControlPlane on budgets. *)
EXTENDS Presence

CONSTANTS k1, k2, k3, near

Calm == [busy |-> 0, reports |-> 0, restarts |-> 0,
         connections |-> {k1, k2}, arrivals |-> {}]

\* Three sockets, which come and go in any order.
Flapping == [Calm EXCEPT !.connections = {k1, k2, k3}]
\* Two devices set the status and report activities.
Devices  == [Calm EXCEPT !.busy = 1, !.reports = 2]
\* The observer arrives while they come and go.
Arriving == [Calm EXCEPT !.busy = 1, !.arrivals = {near}]
\* The server dies in the middle of it.
Dying    == [Calm EXCEPT !.reports = 1, !.restarts = 1]

All == {Flapping, Devices, Arriving, Dying}
=============================================================================
