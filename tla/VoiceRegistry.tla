---------------------------- MODULE VoiceRegistry ----------------------------
(***************************************************************************)
(* The server's projection of the LiveKit rooms, `VoiceRegistry` in        *)
(* server/src/ws/voice_registry.rs: every operation of the structure as a  *)
(* function of its contents.  An operation takes the rooms and its         *)
(* arguments and returns [rooms |-> the rooms after, changes |-> the       *)
(* non-empty RoomChange records it hands to the publisher].                *)
(*                                                                         *)
(* A change is a set member, at most one per channel: the code walks hash  *)
(* maps, so the order among channels is unspecified.  Left out: joined_at, *)
(* reconciled_at, and is_bot (always user_id = MUSIC_BOT_ID).  `audio`     *)
(* stands for the pair (muted, deafened), which only Tupi knows.           *)
(***************************************************************************)
EXTENDS Integers, FiniteSets, Functions

CONSTANTS
    Channels,       \* voice channels
    Users,          \* account identities, the music bot among them
    Bot,            \* MUSIC_BOT_ID
    Sids,           \* LiveKit participant-session SIDs
    NoSid,          \* Option::None where a SID may stand
    TrackSids,      \* LiveKit track-publication SIDs
    MusicSid,       \* the synthetic `music:<channel>` row key
    AudioStates,    \* values of (muted, deafened)
    Neutral         \* the value a new row starts with: (false, false)

ASSUME RegistryAssumption ==
    /\ Bot \in Users
    /\ NoSid \notin Sids
    /\ MusicSid \notin TrackSids
    /\ Neutral \in AudioStates

-----------------------------------------------------------------------------
(* Types.  `since` abstracts provisional_since: "none" for a confirmed row, *)
(* "fresh" or "expired" by its age against PROVISIONAL_TTL.                 *)

Sources == {"media", "music"}

Participant == [sid   : Sids \cup {NoSid},
                since : {"none", "fresh", "expired"},
                audio : AudioStates]

Track == [owner    : Users,
          ownerSid : Sids \cup {NoSid},
          source   : Sources,
          muted    : BOOLEAN]

\* f is a HashMap with keys in D and values in R.
IsMap(f, D, R) == DOMAIN f \subseteq D /\ f \in [DOMAIN f -> R]

IsRoom(room) ==
    /\ room.version \in Nat
    /\ IsMap(room.participants, Users, Participant)
    /\ IsMap(room.tracks, TrackSids \cup {MusicSid}, Track)

IsRegistry(rs) ==
    /\ rs = [c \in DOMAIN rs |-> rs[c]]
    /\ DOMAIN rs \subseteq Channels
    /\ \A c \in DOMAIN rs : IsRoom(rs[c])

Maps(D, R) == UNION {[S -> R] : S \in SUBSET D}

\* What ListParticipants reports of one room: per user, the session and the
\* tracks it publishes with their mute flag.
LiveLists == Maps(Users, [sid : Sids, tracks : Maps(TrackSids, BOOLEAN)])

-----------------------------------------------------------------------------
(* Reads and building blocks. *)

EmptyMap == [x \in {} |-> x]

Put(f, x, v) == [y \in DOMAIN f \cup {x} |-> IF y = x THEN v ELSE f[y]]

Without(f, S) == Restrict(f, DOMAIN f \ S)

EmptyRoom == [version |-> 0, participants |-> EmptyMap, tracks |-> EmptyMap]

\* rooms.entry(channel_id).or_default()
RoomOf(rs, c) == IF c \in DOMAIN rs THEN rs[c] ELSE EmptyRoom

Members(rs, c) == DOMAIN RoomOf(rs, c).participants

IsProvisional(row) == row.sid = NoSid

\* Mutant: the cascade finds no track.
OwnedByNone(room, us) == {}

\* Tracks of `room` owned by one of `us`.
OwnedBy(room, us) == {t \in DOMAIN room.tracks : room.tracks[t].owner \in us}

\* A new row: provisional without a SID, confirmed with one.
NewRow(s) == [sid   |-> s,
              since |-> IF s = NoSid THEN "fresh" ELSE "none",
              audio |-> Neutral]

\* Mutant: the provisional clock keeps running.
ConfirmKeepsClock(row, s) == [sid |-> s, since |-> row.since, audio |-> row.audio]

\* A row whose session LiveKit (or a hint) has named; the audio state stays.
Confirm(row, s) == [sid |-> s, since |-> "none", audio |-> row.audio]

\* Mutant: the owner is left unset.
NewTrackUnowned(u, s, muted) ==
    [owner |-> NoSid, ownerSid |-> s, source |-> "media", muted |-> muted]

NewTrack(u, s, muted) ==
    [owner |-> u, ownerSid |-> s, source |-> "media", muted |-> muted]

\* The RoomChange an operation on c starts from, version_after still unset.
Change(rs, c, reason) ==
    [channel |-> c, before |-> RoomOf(rs, c).version, after |-> RoomOf(rs, c).version,
     reason |-> reason, added |-> EmptyMap, updated |-> EmptyMap, removed |-> {},
     tracksAdded |-> EmptyMap, tracksRemoved |-> {}, closed |-> FALSE]

Ignored(rs) == [rooms |-> rs, changes |-> {}]

\* An accepted mutation: new contents for c and its version bumped `n` times.
Accept(rs, c, n, members, tracks, change) ==
    [rooms   |-> Put(rs, c, [version      |-> RoomOf(rs, c).version + n,
                             participants |-> members,
                             tracks       |-> tracks]),
     changes |-> {[change EXCEPT !.after = RoomOf(rs, c).version + n]}]

\* Removal of the users leavers[c] # {} from each channel c \in DOMAIN leavers
\* with the tracks they own; close_if_empty drops a room left without members.
Remove(rs, leavers, reason) ==
    LET stays(c) == IF c \in DOMAIN leavers
                    THEN DOMAIN rs[c].participants \ leavers[c]
                    ELSE DOMAIN rs[c].participants
        shut(c)  == c \in DOMAIN leavers /\ stays(c) = {}
        after(c) ==
            IF c \notin DOMAIN leavers THEN rs[c]
            ELSE [version      |-> rs[c].version + 1,
                  participants |-> Restrict(rs[c].participants, stays(c)),
                  tracks       |-> Without(rs[c].tracks, OwnedBy(rs[c], leavers[c]))]
    IN  [rooms   |-> [c \in {d \in DOMAIN rs : ~shut(d)} |-> after(c)],
         changes |-> {[Change(rs, c, reason) EXCEPT
                          !.after         = rs[c].version + 1,
                          !.removed       = leavers[c],
                          !.tracksRemoved = OwnedBy(rs[c], leavers[c]),
                          !.closed        = shut(c)] : c \in DOMAIN leavers}]

-----------------------------------------------------------------------------
(* Authoritative mutations: webhooks. *)

WebhookParticipantJoined(rs, c, u, s) ==
    LET room   == RoomOf(rs, c)
        change == Change(rs, c, "webhook.participant_joined")
        row    == IF u \in Members(rs, c) THEN Confirm(room.participants[u], s)
                  ELSE NewRow(s)
        named  == Put(EmptyMap, u, row)
    IN  IF u \in Members(rs, c) /\ room.participants[u].sid = s
        THEN Ignored(rs)                                \* exact redelivery
        ELSE Accept(rs, c, 1, Put(room.participants, u, row), room.tracks,
                    IF u \in Members(rs, c) THEN [change EXCEPT !.updated = named]
                    ELSE [change EXCEPT !.added = named])

\* The new join evicts the user's rows, confirmed or provisional, elsewhere.
WebhookParticipantJoinedExclusive(rs, c, u, s) ==
    LET previous == {d \in DOMAIN rs \ {c} : u \in Members(rs, d)}
        evicted  == Remove(rs, [d \in previous |-> {u}], "webhook.participant_left")
        why(ch)  == IF IsProvisional(rs[ch.channel].participants[u])
                    THEN "ws.presence_hint" ELSE ch.reason
        joined   == WebhookParticipantJoined(evicted.rooms, c, u, s)
    IN  [rooms   |-> joined.rooms,
         changes |-> {[ch EXCEPT !.reason = why(ch)] : ch \in evicted.changes}
                         \cup joined.changes]

WebhookParticipantLeft(rs, c, u, s) ==
    IF /\ u \in Members(rs, c)
       /\ ~IsProvisional(rs[c].participants[u])
       /\ rs[c].participants[u].sid = s
    THEN Remove(rs, Put(EmptyMap, c, {u}), "webhook.participant_left")
    ELSE Ignored(rs)

\* `s` may be NoSid.  A publish that precedes its join creates the owner's row
\* first: two bumps, one change.
WebhookTrackPublished(rs, c, u, s, t) ==
    LET room   == RoomOf(rs, c)
        known  == u \in Members(rs, c)
        row    == IF known THEN room.participants[u] ELSE NewRow(s)
        track  == NewTrack(u, IF s # NoSid THEN s ELSE row.sid, FALSE)
        change == [Change(rs, c, "webhook.track_published")
                      EXCEPT !.tracksAdded = Put(EmptyMap, t, track)]
    IN  IF t \in DOMAIN room.tracks THEN Ignored(rs)
        ELSE Accept(rs, c, IF known THEN 1 ELSE 2,
                    Put(room.participants, u, row), Put(room.tracks, t, track),
                    IF known THEN change
                    ELSE [change EXCEPT !.added = Put(EmptyMap, u, row)])

\* The shared tail of the two operations that take one track away.
DropTrack(rs, c, t, reason) ==
    LET room == RoomOf(rs, c)
    IN  Accept(rs, c, 1, room.participants, Without(room.tracks, {t}),
               [Change(rs, c, reason) EXCEPT !.tracksRemoved = {t}])

WebhookTrackUnpublished(rs, c, t) ==
    IF t \in DOMAIN RoomOf(rs, c).tracks
    THEN DropTrack(rs, c, t, "webhook.track_unpublished")
    ELSE Ignored(rs)

WebhookTrackMuted(rs, c, t, muted) ==
    LET room  == RoomOf(rs, c)
        track == [room.tracks[t] EXCEPT !.muted = muted]
    IN  IF t \notin DOMAIN room.tracks \/ room.tracks[t].muted = muted
        THEN Ignored(rs)
        ELSE Accept(rs, c, 1, room.participants, Put(room.tracks, t, track),
                    [Change(rs, c, "webhook.track_muted")
                        EXCEPT !.tracksAdded = Put(EmptyMap, t, track)])

-----------------------------------------------------------------------------
(* Authoritative mutations: reconciliation against LiveKit. *)

LiveTracks(live) == UNION {DOMAIN live[u].tracks : u \in DOMAIN live}

LiveOwner(live, t) == CHOOSE u \in DOMAIN live : t \in DOMAIN live[u].tracks

\* Mutant: a confirmed absentee is left to its left-webhook.
AbsenteesOnlyExpired(rs, c, live) ==
    {u \in Members(rs, c) \ DOMAIN live :
        rs[c].participants[u].since = "expired"}

\* Members LiveKit does not list: the confirmed and the expired ones go.
Absentees(rs, c, live) ==
    {u \in Members(rs, c) \ DOMAIN live :
        rs[c].participants[u].since # "fresh"}

ReconciledMembers(rs, c, live) ==
    LET old == RoomOf(rs, c).participants
    IN  [u \in (DOMAIN old \ Absentees(rs, c, live)) \cup DOMAIN live |->
            IF u \notin DOMAIN live THEN old[u]
            ELSE IF u \in DOMAIN old THEN Confirm(old[u], live[u].sid)
            ELSE NewRow(live[u].sid)]

AddedTrack(live, t) ==
    LET u == LiveOwner(live, t) IN NewTrack(u, live[u].sid, live[u].tracks[t])

\* A track row that stays takes the reported mute flag and nothing else; music
\* rows stay while their owner does.
ReconciledTracks(rs, c, live) ==
    LET old  == RoomOf(rs, c).tracks
        kept == {t \in DOMAIN old :
                    /\ old[t].owner \notin Absentees(rs, c, live)
                    /\ old[t].source = "music" \/ t \in LiveTracks(live)}
        flag(t) == live[LiveOwner(live, t)].tracks[t]
    IN  [t \in kept \cup LiveTracks(live) |->
            IF t \notin LiveTracks(live) THEN old[t]
            ELSE IF t \in kept THEN [old[t] EXCEPT !.muted = flag(t)]
            ELSE AddedTrack(live, t)]

\* Mutant: rows that changed in place are not reported.
ChangedNewOnly(old, new) == Without(new, DOMAIN old)

\* The entries of `new` that `old` lacks or holds with another value.
Changed(old, new) ==
    Restrict(new, {x \in DOMAIN new : x \notin DOMAIN old \/ old[x] # new[x]})

\* One bump for the whole list.  With nothing to change the room entry is still
\* created (entry().or_default()), and close_if_empty returns early.
ReconcileRoom(rs, c, live) ==
    LET room    == RoomOf(rs, c)
        members == ReconciledMembers(rs, c, live)
        tracks  == ReconciledTracks(rs, c, live)
        rows    == Changed(room.participants, members)
        change  == [Change(rs, c, "reconcile.added") EXCEPT
                       !.added         = Without(rows, DOMAIN room.participants),
                       !.updated       = Restrict(rows, DOMAIN rows
                                                  \cap DOMAIN room.participants),
                       !.removed       = Absentees(rs, c, live),
                       !.tracksAdded   = Changed(room.tracks, tracks),
                       !.tracksRemoved = DOMAIN room.tracks \ DOMAIN tracks,
                       !.closed        = DOMAIN members = {}]
        applied == Accept(rs, c, 1, members, tracks, change)
    IN  IF members = room.participants /\ tracks = room.tracks
        THEN [rooms |-> Put(rs, c, room), changes |-> {}]
        ELSE [applied EXCEPT !.rooms =
                 IF DOMAIN members = {} THEN Without(@, {c}) ELSE @]

\* The shared body of close_channel: everything in the room is reported gone.
Closing(rs, c, reason) ==
    [Change(rs, c, reason) EXCEPT
        !.after         = rs[c].version + 1,
        !.removed       = DOMAIN rs[c].participants,
        !.tracksRemoved = DOMAIN rs[c].tracks,
        !.closed        = TRUE]

CloseChannels(rs, cs, reason) ==
    [rooms   |-> Without(rs, cs),
     changes |-> {Closing(rs, c, reason) : c \in cs \cap DOMAIN rs}]

CloseChannel(rs, c) == CloseChannels(rs, {c}, "channel.deleted")

\* Channels the LiveKit room list no longer names.
ReconcilePrune(rs, liveChannels) ==
    CloseChannels(rs, DOMAIN rs \ liveChannels, "reconcile.removed")

-----------------------------------------------------------------------------
(* Client hints. *)

\* `s` is NoSid when the client does not know its session yet.
HintJoining(rs, c, u, s) ==
    LET room   == RoomOf(rs, c)
        change == Change(rs, c, "ws.presence_hint")
        row    == IF u \in Members(rs, c) THEN Confirm(room.participants[u], s)
                  ELSE NewRow(s)
        named  == Put(EmptyMap, u, row)
    IN  IF u \in Members(rs, c)
           /\ (~IsProvisional(room.participants[u]) \/ s = NoSid)
        THEN Ignored(rs)
        ELSE Accept(rs, c, 1, Put(room.participants, u, row), room.tracks,
                    IF u \in Members(rs, c) THEN [change EXCEPT !.updated = named]
                    ELSE [change EXCEPT !.added = named])

\* A confirmed member stays; the caller schedules a reconcile instead.
NeedsReconcile(rs, c, u) ==
    u \in Members(rs, c) /\ ~IsProvisional(rs[c].participants[u])

\* Mutant: the hint evicts whoever it names.
HintLeavingEvicts(rs, c, u) ==
    IF u \in Members(rs, c) THEN Remove(rs, Put(EmptyMap, c, {u}), "ws.presence_hint")
    ELSE Ignored(rs)

HintLeaving(rs, c, u) ==
    IF u \in Members(rs, c) /\ IsProvisional(rs[c].participants[u])
    THEN Remove(rs, Put(EmptyMap, c, {u}), "ws.presence_hint")
    ELSE Ignored(rs)

HintTrackPublished(rs, c, u, t) ==
    LET room  == RoomOf(rs, c)
        track == NewTrack(u, room.participants[u].sid, FALSE)
    IN  IF u \notin Members(rs, c) \/ t \in DOMAIN room.tracks THEN Ignored(rs)
        ELSE Accept(rs, c, 1, room.participants, Put(room.tracks, t, track),
                    [Change(rs, c, "ws.track_hint")
                        EXCEPT !.tracksAdded = Put(EmptyMap, t, track)])

\* Only the owner's hint counts (INV-F1).
HintTrackUnpublished(rs, c, u, t) ==
    IF t \in DOMAIN RoomOf(rs, c).tracks /\ rs[c].tracks[t].owner = u
    THEN DropTrack(rs, c, t, "ws.track_hint")
    ELSE Ignored(rs)

-----------------------------------------------------------------------------
(* State only Tupi knows, and maintenance. *)

SetAudioState(rs, c, u, audio) ==
    LET room == RoomOf(rs, c)
        row  == [room.participants[u] EXCEPT !.audio = audio]
    IN  IF u \notin Members(rs, c) \/ room.participants[u].audio = audio
        THEN Ignored(rs)
        ELSE Accept(rs, c, 1, Put(room.participants, u, row), room.tracks,
                    [Change(rs, c, "ws.state_update")
                        EXCEPT !.updated = Put(EmptyMap, u, row)])

\* The bot's synthetic row; publishing it may create a room without members.
SetMusicRow(rs, c, playing) ==
    LET room  == RoomOf(rs, c)
        music == [owner |-> Bot, ownerSid |-> NoSid, source |-> "music", muted |-> FALSE]
    IN  IF playing = (MusicSid \in DOMAIN room.tracks) THEN Ignored(rs)
        ELSE IF ~playing THEN DropTrack(rs, c, MusicSid, "ws.track_hint")
        ELSE Accept(rs, c, 1, room.participants, Put(room.tracks, MusicSid, music),
                    [Change(rs, c, "ws.track_hint")
                        EXCEPT !.tracksAdded = Put(EmptyMap, MusicSid, music)])

\* PROVISIONAL_TTL has elapsed for u's row.
AgeRow(rs, c, u) ==
    Put(rs, c, [version      |-> rs[c].version,
                participants |-> Put(rs[c].participants, u,
                                     [rs[c].participants[u] EXCEPT !.since = "expired"]),
                tracks       |-> rs[c].tracks])

Expired(rs, c) == {u \in Members(rs, c) : rs[c].participants[u].since = "expired"}

ExpireProvisionals(rs) ==
    Remove(rs, [c \in {d \in DOMAIN rs : Expired(rs, d) # {}} |-> Expired(rs, c)],
           "provisional.expired")

\* Confirmed human members, the ones the capacity limit counts.
Humans(rs, c) ==
    {u \in Members(rs, c) \ {Bot} : ~IsProvisional(rs[c].participants[u])}
=============================================================================
