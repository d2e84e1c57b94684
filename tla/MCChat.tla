--------------------------------- MODULE MCChat --------------------------------
(* Small instances of Chat: see MCVoiceControlPlane on budgets. *)
EXTENDS Chat

CONSTANTS a1, a2, b, r1, r2, f

\* Two devices of one member and one of another; r1 is sent with a file.
Users   == [d \in Devices |-> IF d = b THEN "bia" ELSE "ana"]
Senders == [r \in Requests |-> IF r = r1 THEN a1 ELSE b]
Attach  == [r \in Requests |-> IF r = r1 THEN {f} ELSE {}]
Texts   == {"plain", "left", "right", "card"}
Leads   == [c \in Texts |-> IF c \in {"left", "right"} THEN c ELSE None]

Saying(r, c) == [q \in {r} |-> c]

Calm == [retries |-> 0, edits |-> 0, deletes |-> 0, cards |-> 0, drops |-> 0, restarts |-> 0,
         visits |-> 0, faults |-> 0, scans |-> 0, devices |-> Devices,
         says |-> Saying(r1, "plain")]

\* A send is lost or times out and is retried; meanwhile it may be deleted.
Retrying == [Calm EXCEPT !.retries = 1, !.drops = 1, !.deletes = 1]
\* The same without a file, from the other member.
Resending == [Retrying EXCEPT !.devices = {a1, b}, !.says = Saying(r2, "plain")]
\* Two devices edit, and delete, what they see.
Editing  == [Calm EXCEPT !.edits = 2, !.devices = {a1, a2}, !.says = Saying(r1, "left")]
Deleting == [Calm EXCEPT !.edits = 1, !.deletes = 1]
\* A window leaves the channel and comes back while the message changes.
Visiting == [Calm EXCEPT !.visits = 1, !.edits = 1, !.devices = {a1, b}]
\* It leaves twice, and two pages of history may cross.
Revisiting == [Calm EXCEPT !.visits = 2, !.edits = 1, !.devices = {a1}]
Missing  == [Calm EXCEPT !.visits = 1, !.drops = 1, !.deletes = 1, !.devices = {a1, b}]
\* The database fails, or the server dies, in the middle.
Failing  == [Calm EXCEPT !.faults = 1, !.edits = 1, !.says = Saying(r1, "left")]
Refused  == [Calm EXCEPT !.faults = 1, !.retries = 1, !.visits = 1]
Dying    == [Calm EXCEPT !.restarts = 1, !.retries = 1, !.edits = 1, !.devices = {a1, b}]
\* The cleanup runs while the message is sent.
Cleaning == [Calm EXCEPT !.scans = 1, !.retries = 1, !.drops = 1]
\* Two members and the bot post.
Talking  == [Calm EXCEPT !.cards = 1, !.devices = {a1, b}, !.says = [r \in {r1, r2} |-> "plain"]]

\* A message is sent while the connection is down, and the history loaded.
Dropping == {[Calm EXCEPT !.drops = 1, !.visits = 1, !.devices = {a1}]}

\* A connection drops once, while the other member posts.
Reconnecting == {[Calm EXCEPT !.drops = 1, !.devices = {a1, b}]}

All == {Retrying, Resending, Editing, Deleting, Visiting, Revisiting, Missing, Failing, Refused, Dying, Cleaning, Talking}
=============================================================================
