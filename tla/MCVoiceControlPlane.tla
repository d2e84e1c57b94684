------------------------- MODULE MCVoiceControlPlane -------------------------
(***************************************************************************)
(* Small instances of VoiceControlPlane.  A run explores every behaviour   *)
(* of each of its budgets: what one budget leaves out another lets happen. *)
(***************************************************************************)
EXTENDS VoiceControlPlane

CONSTANTS alice, bob, a1, a2, b1, ta, c1, c2

MCSidOwner     == [s \in Sids |-> IF s = b1 THEN bob ELSE alice]
MCTrackSession == [t \in TrackSids |-> a1]

Nothing == [hint |-> 0, request |-> 0, owner |-> 0, late |-> 0, again |-> 0,
            failure |-> 0, restart |-> 0, deliveries |-> 1, channels |-> {c1}, sids |-> {a1},
            tracks |-> {}, events |-> {}]

\* alice reconnects; every webhook is lost or comes, one of them again.
Reconnecting == [Nothing EXCEPT !.again = 1, !.sids = {a1, a2}]

\* Two channels, two hints, and no webhook at all.
Hinting == [Nothing EXCEPT !.deliveries = 0, !.channels = {c1, c2}, !.hint = 2]

\* The owner kicks or moves alice, who is in the room or says so.
Commanding == [Nothing EXCEPT !.deliveries = 0, !.hint = 1, !.owner = 1]

\* bob only watches.
Spectating == [Nothing EXCEPT !.sids = {b1}, !.request = 1]

\* A late webhook and a sweep beside the loop's; a hint and a failed call, or a
\* restart.
Late      == [Nothing EXCEPT !.request = 1, !.late = 1]
Unlucky   == [Nothing EXCEPT !.hint = 1, !.failure = 1]
Restarted == [Nothing EXCEPT !.hint = 1, !.restart = 1]

\* A track published and muted, unmuted; or published and unpublished.
Muting     == [Nothing EXCEPT !.tracks = {ta},
                              !.events = TrackEvents \ {"track_unpublished"}]
Publishing == [Nothing EXCEPT !.tracks = {ta},
                              !.events = {"track_published", "track_unpublished"}]

MCBudgets == {Reconnecting, Hinting, Commanding, Spectating, Late, Unlucky, Restarted,
              Muting, Publishing}
=============================================================================
