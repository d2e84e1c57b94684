------------------------- MODULE VoiceRegistryMachine -------------------------
(***************************************************************************)
(* `VoiceRegistry` under every sequence of calls.  Each action is one call *)
(* under the registry's write lock (server/src/ws/hub.rs, `voice`), with   *)
(* arguments its callers can pass: a session belongs to one user and a     *)
(* track to one session, webhooks arrive in any order and any number of    *)
(* times, reconcile lists may be stale.  `call` and `emitted` record the   *)
(* last call and what it handed to publish_room_change.                    *)
(***************************************************************************)
EXTENDS VoiceStore

CONSTANTS
    SidOwner,       \* the user a LiveKit session belongs to
    TrackSession,   \* the session a track is published in
    MaxVersion      \* bound: the version of each channel no call may pass

ASSUME MachineAssumption ==
    /\ SidOwner \in [Sids -> Users]
    /\ TrackSession \in [TrackSids -> Sids]
    /\ MaxVersion \in [Channels -> Nat]

VARIABLES rooms, call, emitted

vars == <<rooms, call, emitted>>

SidsOf(u)     == {s \in Sids : SidOwner[s] = u}
TrackOwner(t) == SidOwner[TrackSession[t]]
TracksOf(u)   == {t \in TrackSids : TrackOwner(t) = u}

\* Lists LiveKit can return for a room.
ReportedLists ==
    {live \in LiveLists :
        \A u \in DOMAIN live : /\ live[u].sid \in SidsOf(u)
                               /\ \A t \in DOMAIN live[u].tracks :
                                     TrackSession[t] = live[u].sid}

Init == rooms = EmptyMap /\ call = <<"none">> /\ emitted = {}

\* A call that produced `result`.
Do(name, result) ==
    /\ \A ch \in result.changes : ch.after <= MaxVersion[ch.channel]
    /\ rooms' = result.rooms
    /\ emitted' = result.changes
    /\ call' = name

-----------------------------------------------------------------------------

ParticipantJoined(c, u) == \E s \in SidsOf(u) :
    Do(<<"joined", c, u, s>>, WebhookParticipantJoinedExclusive(rooms, c, u, s))

ParticipantLeft(c, u) == \E s \in SidsOf(u) :
    Do(<<"left", c, u, s>>, WebhookParticipantLeft(rooms, c, u, s))

TrackPublished(c, u) == \E t \in TracksOf(u) : \E s \in {TrackSession[t], NoSid} :
    Do(<<"published", c, u, s, t>>, WebhookTrackPublished(rooms, c, u, s, t))

TrackUnpublished(c, t) ==
    Do(<<"unpublished", c, t>>, WebhookTrackUnpublished(rooms, c, t))

TrackMuted(c, t) == \E muted \in BOOLEAN :
    Do(<<"muted", c, t, muted>>, WebhookTrackMuted(rooms, c, t, muted))

Reconcile(c) == \E live \in ReportedLists :
    Do(<<"reconcile", c, live>>, ReconcileRoom(rooms, c, live))

Prune == \E liveChannels \in SUBSET Channels :
    Do(<<"prune", liveChannels>>, ReconcilePrune(rooms, liveChannels))

Joining(c, u) == \E s \in SidsOf(u) \cup {NoSid} :
    Do(<<"joining", c, u, s>>, HintJoining(rooms, c, u, s))

Leaving(c, u) == Do(<<"leaving", c, u>>, HintLeaving(rooms, c, u))

TrackHint(c, u) == \E t \in TracksOf(u), published \in BOOLEAN :
    Do(<<"trackHint", c, u, t, published>>,
       IF published THEN HintTrackPublished(rooms, c, u, t)
       ELSE HintTrackUnpublished(rooms, c, u, t))

AudioState(c, u) == \E audio \in AudioStates :
    Do(<<"audio", c, u, audio>>, SetAudioState(rooms, c, u, audio))

MusicRow(c) == \E playing \in BOOLEAN :
    Do(<<"music", c, playing>>, SetMusicRow(rooms, c, playing))

Expire == Do(<<"expire">>, ExpireProvisionals(rooms))

Close(c) == Do(<<"close", c>>, CloseChannel(rooms, c))

\* PROVISIONAL_TTL elapses for a provisional row.
Age(c, u) ==
    /\ c \in DOMAIN rooms /\ u \in Members(rooms, c)
    /\ rooms[c].participants[u].since = "fresh"
    /\ rooms' = AgeRow(rooms, c, u)
    /\ call' = <<"age", c, u>>
    /\ emitted' = {}

Next ==
    \/ \E c \in Channels, u \in Users :
          \/ ParticipantJoined(c, u) \/ ParticipantLeft(c, u)
          \/ TrackPublished(c, u)    \/ TrackHint(c, u)
          \/ Joining(c, u)           \/ Leaving(c, u)
          \/ AudioState(c, u)        \/ Age(c, u)
    \/ \E c \in Channels :
          \/ \E t \in TrackSids : TrackUnpublished(c, t) \/ TrackMuted(c, t)
          \/ Reconcile(c) \/ MusicRow(c) \/ Close(c)
    \/ Prune
    \/ Expire

Spec == Init /\ [][Next]_vars

-----------------------------------------------------------------------------
(* Invariants. *)

TypeOK == IsRegistry(rooms)

\* A row has no SID exactly while its provisional clock runs, so expiry can
\* never take a row a webhook or a reconcile has confirmed.
ProvisionalHasClock ==
    \A c \in DOMAIN rooms : \A u \in DOMAIN rooms[c].participants :
        LET row == rooms[c].participants[u]
        IN  row.sid = NoSid <=> row.since # "none"

\* No share is orphaned: whoever owns a track row, other than the synthetic
\* music row, is a member of the room, whatever order webhooks, hints,
\* reconciles and expiries came in.
TracksHaveMembers ==
    \A c \in DOMAIN rooms : \A t \in DOMAIN rooms[c].tracks :
        rooms[c].tracks[t].source # "music"
            => rooms[c].tracks[t].owner \in DOMAIN rooms[c].participants

-----------------------------------------------------------------------------
(* Action properties. *)

\* A client that applies every change in order holds the server's roster: a
\* call's RoomChange says all the call did to members and tracks, through
\* exclusive joins, cascading track removals and closed rooms; but for the
\* music row of a room that closes, which goes without a word.
DeltasReplayTheRooms ==
    [][\A c \in Channels :
          LET told  == {ch \in emitted' : ch.channel = c}
              quiet == IF \E ch \in told : ch.closed THEN {MusicSid} ELSE {}
              seen  == IF told = {} THEN Shown(rooms, c)
                       ELSE Replay(Shown(rooms, c), CHOOSE ch \in told : TRUE)
          IN  OnWire(Shown(rooms', c)) =
                OnWire([seen EXCEPT !.tracks = Without(@, quiet)])]_vars

\* INV-A1, the removal half: the WebSocket ops and the expiry tick never remove
\* a confirmed member nor give one another session.
ClientsNeverEvictConfirmed ==
    [][call'[1] \in {"joining", "leaving", "trackHint", "audio", "music", "expire"} =>
          \A c \in DOMAIN rooms : \A u \in Members(rooms, c) :
              LET row == rooms[c].participants[u]
              IN  ~IsProvisional(row) =>
                      /\ u \in Members(rooms', c)
                      /\ rooms'[c].participants[u].sid = row.sid]_vars

\* After a reconcile the members are those LiveKit lists, with LiveKit's
\* sessions, and fresh provisional rows; the LiveKit tracks are those it lists,
\* muted as it says; the audio state of a member that stays is untouched.
ReconcileConverges ==
    [][call'[1] = "reconcile" =>
          LET c == call'[2]
              live == call'[3]
              room == RoomOf(rooms', c)
          IN  /\ DOMAIN live \subseteq Members(rooms', c)
              /\ \A u \in Members(rooms', c) :
                    IF u \in DOMAIN live THEN room.participants[u].sid = live[u].sid
                    ELSE room.participants[u].since = "fresh"
              /\ DOMAIN room.tracks \ {MusicSid} = LiveTracks(live)
              /\ \A t \in LiveTracks(live) :
                    room.tracks[t].muted = live[TrackOwner(t)].tracks[t]
              /\ \A u \in Members(rooms, c) \cap Members(rooms', c) :
                    room.participants[u].audio = rooms[c].participants[u].audio]_vars

\* An authoritative join leaves its user in that channel and no other.
JoinIsExclusive ==
    [][call'[1] = "joined" =>
          \A c \in Channels : call'[3] \in Members(rooms', c) => c = call'[2]]_vars
=============================================================================
