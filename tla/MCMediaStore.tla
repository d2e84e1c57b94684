------------------------------ MODULE MCMediaStore -----------------------------
(* Small instances of MediaStore: see MCVoiceControlPlane on budgets. *)
EXTENDS MediaStore

CONSTANTS m1, m2, x1, x2, q1, q2

\* One message with two attachments, two embeds and a preview, and a plain one.
Attached == [m \in Sources |-> IF m = m1 THEN {x1, x2} ELSE {}]
Rich     == [m \in Sources |-> IF m = m1 THEN {0, 1} ELSE {}]

\* A source has both messages, or the one with everything.
Parts == {{m1}, {m1, m2}}

Calm == [crashes |-> 1, faults |-> 0, uploads |-> 0, avatars |-> {}, runs |-> <<>>]

Runs(first, second) == [Calm EXCEPT !.runs = <<first, second>>]

\* Two runs of any sources, the first or the second of them interrupted.
Again == {Runs(first, second) : first \in Kinds, second \in Kinds}
\* Three runs, the first of them from the archive, two of them interrupted.
Thrice == {[Calm EXCEPT !.crashes = 2, !.runs = <<"har", kind, "replace">>] : kind \in {"live", "json"}}
\* A run that fails in the middle, and one more, while a user uploads a file.
Beside == {[Calm EXCEPT !.runs = <<kind, "replace">>, !.crashes = 0, !.faults = 1, !.uploads = 1] :
              kind \in {"har", "json"}}
\* Two uploads of one avatar.
Faces == {[Calm EXCEPT !.avatars = {q1, q2}, !.faults = 1, !.uploads = 1]}

All == Again \cup Thrice \cup Beside \cup Faces
Live == {Runs("live", "live"), Runs("live", "replace")}
=============================================================================
