--------------------------- MODULE MCVoiceRegistry ---------------------------
(* A small instance of VoiceRegistryMachine. *)
EXTENDS VoiceRegistryMachine

CONSTANTS alice, bob, a1, a2, b1, ta, tb, c1, c2, depth

\* alice may reconnect (two sessions), bob has one; one track each.
MCSidOwner     == [s \in Sids |-> IF s = b1 THEN bob ELSE alice]
MCTrackSession == [t \in TrackSids |-> IF t = tb THEN b1 ELSE a1]

\* One channel runs deep, the other is there to move from and to.
MCMaxVersion == [c \in Channels |-> IF c = c1 THEN depth ELSE 2]

\* The last call and its changes do not tell states apart.
RoomsOnly == rooms
=============================================================================
