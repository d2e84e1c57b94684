-------------------------- MODULE VoiceRegistryLemmas --------------------------
(***************************************************************************)
(* What the operations of VoiceRegistry do to well-formed rooms, for every *)
(* set of channels, users, sessions and tracks: no variable, no machine,   *)
(* so that the proofs about every machine built on the registry share it.  *)
(* An operation writes one room (Accept), removes members with their       *)
(* tracks (Remove) or drops rooms.  A lemma per kind of operation says     *)
(* that the rooms stay Good, a second one which members it Keeps, and a    *)
(* third one that its changes, replayed by VoiceStore, tell all it did     *)
(* (Tells).                                                                *)
(***************************************************************************)
EXTENDS VoiceStore, TLAPS

TrackKeys == TrackSids \cup {MusicSid}

\* Rows without a SID exactly while their provisional clock runs.
GoodRows == {row \in Participant : row.sid = NoSid <=> row.since # "none"}

\* Tracks that are music or belong to one of `members`.
GoodTracks(members) ==
    {track \in Track : track.source # "music" => track.owner \in members}

GoodRoom(room) ==
    /\ room = [version |-> room.version, participants |-> room.participants,
               tracks |-> room.tracks]
    /\ room.version \in Nat
    /\ IsMap(room.participants, Users, GoodRows)
    /\ IsMap(room.tracks, TrackKeys, GoodTracks(DOMAIN room.participants))

Good(rs) ==
    /\ rs = [c \in DOMAIN rs |-> rs[c]]
    /\ DOMAIN rs \subseteq Channels
    /\ \A c \in DOMAIN rs : GoodRoom(rs[c])

-----------------------------------------------------------------------------
(* Maps. *)

\* HashMap::insert keeps the map's type.
LEMMA PutMap ==
    ASSUME NEW D, NEW R, NEW f, IsMap(f, D, R), NEW x \in D, NEW v \in R
    PROVE  IsMap(Put(f, x, v), D, R)
  BY DEF IsMap, Put

\* Keeping some keys keeps the map's type, in any type its kept values have.
LEMMA RestrictMap ==
    ASSUME NEW D, NEW R, NEW f, IsMap(f, D, R), NEW S, S \subseteq DOMAIN f,
           NEW R2, \A x \in S : f[x] \in R2
    PROVE  IsMap(Restrict(f, S), D, R2) /\ DOMAIN Restrict(f, S) = S
  BY DEF IsMap, Restrict

\* A map keeps its type when the type of its values grows.
LEMMA WiderMap ==
    ASSUME NEW D, NEW R, NEW R2, NEW f, IsMap(f, D, R), R \subseteq R2
    PROVE  IsMap(f, D, R2)
  BY DEF IsMap

\* HashMap::default has no keys.
LEMMA EmptyIsMap ==
    ASSUME NEW D, NEW R
    PROVE  IsMap(EmptyMap, D, R) /\ DOMAIN EmptyMap = {}
  BY DEF IsMap, EmptyMap

-----------------------------------------------------------------------------
(* Rows, tracks and rooms. *)

\* A new row is provisional exactly when it has no SID.
LEMMA NewRowGood == ASSUME NEW s \in Sids \cup {NoSid} PROVE NewRow(s) \in GoodRows
  BY RegistryAssumption DEF NewRow, GoodRows, Participant

\* Naming the session of a row stops its provisional clock.
LEMMA ConfirmGood ==
    ASSUME NEW s \in Sids, NEW row \in GoodRows PROVE Confirm(row, s) \in GoodRows
  BY RegistryAssumption DEF Confirm, GoodRows, Participant

\* A track made for a member belongs to a member.
LEMMA NewTrackGood ==
    ASSUME NEW members, NEW u \in members, u \in Users, NEW s \in Sids \cup {NoSid},
           NEW muted \in BOOLEAN
    PROVE  NewTrack(u, s, muted) \in GoodTracks(members)
  BY DEF NewTrack, GoodTracks, Track, Sources

\* No track is orphaned by a member more.
LEMMA MoreMembers ==
    ASSUME NEW A, NEW B, A \subseteq B PROVE GoodTracks(A) \subseteq GoodTracks(B)
  BY DEF GoodTracks

\* What an operation finds in a room, there or created empty.
LEMMA RoomFacts ==
    ASSUME NEW rs, Good(rs), NEW c \in Channels
    PROVE  /\ RoomOf(rs, c).version \in Nat
           /\ IsMap(RoomOf(rs, c).participants, Users, GoodRows)
           /\ DOMAIN RoomOf(rs, c).participants = Members(rs, c)
           /\ IsMap(RoomOf(rs, c).tracks, TrackKeys, GoodTracks(Members(rs, c)))
  <1>1. GoodRoom(EmptyRoom)
    BY EmptyIsMap DEF GoodRoom, EmptyRoom
  <1>2. GoodRoom(RoomOf(rs, c))
    BY <1>1 DEF Good, RoomOf
  <1> QED
    BY <1>2 DEF GoodRoom, Members

\* The row an operation reads of a member is a good one.
LEMMA RowOfMember ==
    ASSUME NEW rs, Good(rs), NEW c \in Channels, NEW u \in Members(rs, c)
    PROVE  RoomOf(rs, c).participants[u] \in GoodRows
  BY RoomFacts DEF IsMap

\* An accepted mutation writes good members and tracks.
LEMMA AcceptGood ==
    ASSUME NEW rs, Good(rs), NEW c \in Channels, NEW n \in Nat,
           NEW members, NEW tracks, NEW change,
           IsMap(members, Users, GoodRows),
           IsMap(tracks, TrackKeys, GoodTracks(DOMAIN members))
    PROVE  Good(Accept(rs, c, n, members, tracks, change).rooms)
  <1> DEFINE room == [version |-> RoomOf(rs, c).version + n,
                      participants |-> members, tracks |-> tracks]
  <1>1. RoomOf(rs, c).version + n \in Nat
    BY RoomFacts
  <1>2. GoodRoom(room)
    BY <1>1 DEF GoodRoom
  <1>3. Accept(rs, c, n, members, tracks, change).rooms = Put(rs, c, room)
    BY DEF Accept
  <1> HIDE DEF room
  <1>4. Good(Put(rs, c, room))
    BY <1>2 DEF Good, Put
  <1> QED BY <1>3, <1>4

\* Writing one member's row.
LEMMA PutMemberGood ==
    ASSUME NEW rs, Good(rs), NEW c \in Channels, NEW u \in Users, NEW row \in GoodRows,
           NEW change
    PROVE  Good(Accept(rs, c, 1, Put(RoomOf(rs, c).participants, u, row),
                       RoomOf(rs, c).tracks, change).rooms)
  <1> DEFINE old == RoomOf(rs, c).participants
             T   == RoomOf(rs, c).tracks
             new == Put(old, u, row)
  <1>1. /\ IsMap(old, Users, GoodRows) /\ DOMAIN old = Members(rs, c)
        /\ IsMap(T, TrackKeys, GoodTracks(Members(rs, c)))
    BY RoomFacts
  <1> HIDE DEF old, T
  <1>2. IsMap(new, Users, GoodRows)
    BY <1>1, PutMap
  <1>3. DOMAIN old \subseteq DOMAIN new
    BY DEF Put
  <1>4. GoodTracks(Members(rs, c)) \subseteq GoodTracks(DOMAIN new)
    BY <1>1, <1>3, MoreMembers
  <1>5. IsMap(T, TrackKeys, GoodTracks(DOMAIN new))
    BY <1>1, <1>4, WiderMap
  <1> HIDE DEF new
  <1>6. Good(Accept(rs, c, 1, new, T, change).rooms)
    BY <1>2, <1>5, AcceptGood
  <1> QED BY <1>6 DEF new, old, T

\* Writing one track of a member, or the music row.
LEMMA PutTrackGood ==
    ASSUME NEW rs, Good(rs), NEW c \in Channels, NEW t \in TrackKeys,
           NEW track \in GoodTracks(Members(rs, c)), NEW change
    PROVE  Good(Accept(rs, c, 1, RoomOf(rs, c).participants,
                       Put(RoomOf(rs, c).tracks, t, track), change).rooms)
  <1> DEFINE P   == RoomOf(rs, c).participants
             old == RoomOf(rs, c).tracks
             new == Put(old, t, track)
  <1>1. /\ IsMap(P, Users, GoodRows) /\ DOMAIN P = Members(rs, c)
        /\ IsMap(old, TrackKeys, GoodTracks(Members(rs, c)))
    BY RoomFacts
  <1> HIDE DEF P, old
  <1>2. IsMap(new, TrackKeys, GoodTracks(DOMAIN P))
    BY <1>1, PutMap
  <1> HIDE DEF new
  <1>3. Good(Accept(rs, c, 1, P, new, change).rooms)
    BY <1>1, <1>2, AcceptGood
  <1> QED BY <1>3 DEF new, old, P

\* Members leave with the tracks they own, or the whole room goes.
LEMMA RemoveGood ==
    ASSUME NEW rs, Good(rs), NEW leavers, DOMAIN leavers \subseteq DOMAIN rs, NEW reason
    PROVE  Good(Remove(rs, leavers, reason).rooms)
  <1> DEFINE stays(c) == IF c \in DOMAIN leavers
                         THEN DOMAIN rs[c].participants \ leavers[c]
                         ELSE DOMAIN rs[c].participants
             left(c)  == [version      |-> rs[c].version + 1,
                          participants |-> Restrict(rs[c].participants, stays(c)),
                          tracks       |-> Without(rs[c].tracks,
                                                   OwnedBy(rs[c], leavers[c]))]
             dom      == {d \in DOMAIN rs : ~(d \in DOMAIN leavers /\ stays(d) = {})}
             after    == [c \in dom |-> IF c \notin DOMAIN leavers THEN rs[c] ELSE left(c)]
  <1>1. Remove(rs, leavers, reason).rooms = after
    BY DEF Remove
  <1>2. ASSUME NEW c \in DOMAIN leavers
        PROVE  GoodRoom(left(c))
    <2> DEFINE P == rs[c].participants
               T == rs[c].tracks
               gone == OwnedBy(rs[c], leavers[c])
               P2 == Restrict(P, stays(c))
               T2 == Restrict(T, DOMAIN T \ gone)
    <2>1. GoodRoom(rs[c])
      BY <1>2 DEF Good
    <2>2. /\ IsMap(P, Users, GoodRows)
          /\ IsMap(T, TrackKeys, GoodTracks(DOMAIN P))
          /\ rs[c].version + 1 \in Nat
      BY <2>1 DEF GoodRoom
    <2>3. stays(c) = DOMAIN P \ leavers[c]
      BY <1>2
    <2>4. \A t \in DOMAIN T \ gone : T[t] \in GoodTracks(stays(c))
      BY <2>2, <2>3 DEF OwnedBy, IsMap, GoodTracks
    <2>5. left(c) = [version |-> rs[c].version + 1, participants |-> P2, tracks |-> T2]
      BY DEF Without
    <2>6. stays(c) \subseteq DOMAIN P /\ \A u \in stays(c) : P[u] \in GoodRows
      BY <2>2, <2>3 DEF IsMap
    <2> HIDE DEF stays, P, T, gone
    <2>7. IsMap(P2, Users, GoodRows) /\ DOMAIN P2 = stays(c)
      BY <2>2, <2>6, RestrictMap
    <2>8. IsMap(T2, TrackKeys, GoodTracks(stays(c)))
      BY <2>2, <2>4, RestrictMap
    <2> HIDE DEF P2, T2, left
    <2> QED BY <2>2, <2>5, <2>7, <2>8 DEF GoodRoom
  <1>3. ASSUME NEW c \in dom PROVE GoodRoom(after[c])
    <2>1. CASE c \in DOMAIN leavers
      BY <1>2, <2>1
    <2>2. CASE c \notin DOMAIN leavers
      BY <2>2 DEF Good
    <2> QED BY <2>1, <2>2
  <1> QED
    BY <1>1, <1>3 DEF Good

\* Dropping rooms leaves the others as they were.
LEMMA WithoutGood ==
    ASSUME NEW rs, Good(rs), NEW cs
    PROVE  Good(Without(rs, cs))
  BY DEF Good, Without, Restrict

-----------------------------------------------------------------------------
(* One lemma per operation. *)

\* webhook_participant_joined.
LEMMA JoinedGood ==
    ASSUME NEW rs, Good(rs), NEW c \in Channels, NEW u \in Users, NEW s \in Sids
    PROVE  Good(WebhookParticipantJoined(rs, c, u, s).rooms)
  <1> DEFINE room == RoomOf(rs, c)
             row  == IF u \in Members(rs, c) THEN Confirm(room.participants[u], s)
                     ELSE NewRow(s)
  <1>1. row \in GoodRows
    BY RowOfMember, NewRowGood, ConfirmGood
  <1>2. \A change :
            Good(Accept(rs, c, 1, Put(room.participants, u, row), room.tracks, change).rooms)
    <2> HIDE DEF row
    <2> QED BY <1>1, PutMemberGood
  <1> QED
    BY <1>2 DEF WebhookParticipantJoined, Ignored

\* webhook_participant_joined_exclusive: evictions elsewhere, then the join.
LEMMA JoinedExclusiveGood ==
    ASSUME NEW rs, Good(rs), NEW c \in Channels, NEW u \in Users, NEW s \in Sids
    PROVE  Good(WebhookParticipantJoinedExclusive(rs, c, u, s).rooms)
  <1> DEFINE previous == {d \in DOMAIN rs \ {c} : u \in Members(rs, d)}
             leavers  == [d \in previous |-> {u}]
             evicted  == Remove(rs, leavers, "webhook.participant_left")
  <1>1. DOMAIN leavers \subseteq DOMAIN rs
    OBVIOUS
  <1>2. Good(evicted.rooms)
    <2> HIDE DEF leavers
    <2> QED BY <1>1, RemoveGood
  <1>3. Good(WebhookParticipantJoined(evicted.rooms, c, u, s).rooms)
    BY <1>2, JoinedGood
  <1> QED
    BY <1>3 DEF WebhookParticipantJoinedExclusive

\* Removing one member of one room.
LEMMA RemoveOneGood ==
    ASSUME NEW rs, Good(rs), NEW c, NEW u \in Members(rs, c), NEW reason
    PROVE  Good(Remove(rs, Put(EmptyMap, c, {u}), reason).rooms)
  <1>1. c \in DOMAIN rs
    BY DEF Members, RoomOf, EmptyRoom, EmptyMap
  <1>2. DOMAIN Put(EmptyMap, c, {u}) \subseteq DOMAIN rs
    BY <1>1 DEF Put, EmptyMap
  <1> QED BY <1>2, RemoveGood

\* webhook_participant_left and hint_leaving.
LEMMA LeftGood ==
    ASSUME NEW rs, Good(rs), NEW c \in Channels, NEW u \in Users, NEW s
    PROVE  /\ Good(WebhookParticipantLeft(rs, c, u, s).rooms)
           /\ Good(HintLeaving(rs, c, u).rooms)
  BY RemoveOneGood DEF WebhookParticipantLeft, HintLeaving, Ignored

\* webhook_track_published: the owner's row is there, or made, before the track.
LEMMA PublishedGood ==
    ASSUME NEW rs, Good(rs), NEW c \in Channels, NEW u \in Users,
           NEW s \in Sids \cup {NoSid}, NEW t \in TrackSids
    PROVE  Good(WebhookTrackPublished(rs, c, u, s, t).rooms)
  <1> DEFINE P     == RoomOf(rs, c).participants
             T     == RoomOf(rs, c).tracks
             known == u \in Members(rs, c)
             row   == IF known THEN P[u] ELSE NewRow(s)
             sid   == IF s # NoSid THEN s ELSE row.sid
             track == NewTrack(u, sid, FALSE)
             n     == IF known THEN 1 ELSE 2
             P2    == Put(P, u, row)
             T2    == Put(T, t, track)
  <1>1. row \in GoodRows
    BY RowOfMember, NewRowGood
  <1>2. sid \in Sids \cup {NoSid}
    <2> HIDE DEF row
    <2> QED BY <1>1 DEF GoodRows, Participant
  <1>3. /\ IsMap(P, Users, GoodRows) /\ DOMAIN P = Members(rs, c)
        /\ IsMap(T, TrackKeys, GoodTracks(Members(rs, c)))
    BY RoomFacts
  <1>4. u \in DOMAIN P2 /\ DOMAIN P \subseteq DOMAIN P2
    <2> HIDE DEF P, row
    <2> QED BY DEF Put
  <1> HIDE DEF P, T, row, sid
  <1>5. IsMap(P2, Users, GoodRows)
    BY <1>1, <1>3, PutMap
  <1> HIDE DEF P2
  <1>6. track \in GoodTracks(DOMAIN P2)
    BY <1>2, <1>4, NewTrackGood
  <1>7. GoodTracks(Members(rs, c)) \subseteq GoodTracks(DOMAIN P2)
    BY <1>3, <1>4, MoreMembers
  <1>8. IsMap(T, TrackKeys, GoodTracks(DOMAIN P2))
    BY <1>3, <1>7, WiderMap
  <1>9. t \in TrackKeys
    BY DEF TrackKeys
  <1> HIDE DEF track
  <1>10. IsMap(T2, TrackKeys, GoodTracks(DOMAIN P2))
    BY <1>6, <1>8, <1>9, PutMap
  <1>11. n \in Nat
    OBVIOUS
  <1> HIDE DEF T2, n
  <1>12. \A change : Good(Accept(rs, c, n, P2, T2, change).rooms)
    BY <1>5, <1>10, <1>11, AcceptGood
  <1> QED
    BY <1>12 DEF WebhookTrackPublished, Ignored, P2, T2, P, T, track, sid, row, n

\* Taking one track away orphans none.
LEMMA DropTrackGood ==
    ASSUME NEW rs, Good(rs), NEW c \in Channels, NEW t, NEW reason
    PROVE  Good(DropTrack(rs, c, t, reason).rooms)
  <1> DEFINE P  == RoomOf(rs, c).participants
             T  == RoomOf(rs, c).tracks
             T2 == Without(T, {t})
  <1>1. /\ IsMap(P, Users, GoodRows) /\ DOMAIN P = Members(rs, c)
        /\ IsMap(T, TrackKeys, GoodTracks(Members(rs, c)))
    BY RoomFacts
  <1> HIDE DEF P, T
  <1>2. \A x \in DOMAIN T \ {t} : T[x] \in GoodTracks(Members(rs, c))
    BY <1>1 DEF IsMap
  <1>3. IsMap(T2, TrackKeys, GoodTracks(DOMAIN P))
    BY <1>1, <1>2, RestrictMap DEF Without
  <1> HIDE DEF T2
  <1>4. \A change : Good(Accept(rs, c, 1, P, T2, change).rooms)
    BY <1>1, <1>3, AcceptGood
  <1> QED BY <1>4 DEF DropTrack, P, T, T2

\* webhook_track_unpublished and the unpublishing hint.
LEMMA UnpublishedGood ==
    ASSUME NEW rs, Good(rs), NEW c \in Channels, NEW u, NEW t
    PROVE  /\ Good(WebhookTrackUnpublished(rs, c, t).rooms)
           /\ Good(HintTrackUnpublished(rs, c, u, t).rooms)
  BY DropTrackGood DEF WebhookTrackUnpublished, HintTrackUnpublished, Ignored

\* webhook_track_muted: the flag changes, the owner does not.
LEMMA MutedGood ==
    ASSUME NEW rs, Good(rs), NEW c \in Channels, NEW t, NEW muted \in BOOLEAN
    PROVE  Good(WebhookTrackMuted(rs, c, t, muted).rooms)
  <1> DEFINE T     == RoomOf(rs, c).tracks
             track == [T[t] EXCEPT !.muted = muted]
  <1>1. CASE t \in DOMAIN T
    <2>1. IsMap(T, TrackKeys, GoodTracks(Members(rs, c)))
      BY RoomFacts
    <2> HIDE DEF T
    <2>2. T[t] \in GoodTracks(Members(rs, c)) /\ t \in TrackKeys
      BY <1>1, <2>1 DEF IsMap
    <2>3. track \in GoodTracks(Members(rs, c))
      BY <2>2 DEF GoodTracks, Track
    <2> HIDE DEF track
    <2>4. \A change : Good(Accept(rs, c, 1, RoomOf(rs, c).participants,
                                  Put(RoomOf(rs, c).tracks, t, track), change).rooms)
      BY <2>2, <2>3, PutTrackGood
    <2> QED BY <2>4 DEF WebhookTrackMuted, Ignored, track, T
  <1>2. CASE t \notin DOMAIN T
    BY <1>2 DEF WebhookTrackMuted, Ignored
  <1> QED BY <1>1, <1>2

\* hint_joining.
LEMMA JoiningGood ==
    ASSUME NEW rs, Good(rs), NEW c \in Channels, NEW u \in Users,
           NEW s \in Sids \cup {NoSid}
    PROVE  Good(HintJoining(rs, c, u, s).rooms)
  <1> DEFINE row == IF u \in Members(rs, c) THEN Confirm(RoomOf(rs, c).participants[u], s)
                    ELSE NewRow(s)
  <1>1. CASE u \in Members(rs, c) /\ s = NoSid
    BY <1>1 DEF HintJoining, Ignored
  <1>2. CASE ~(u \in Members(rs, c) /\ s = NoSid)
    <2>1. row \in GoodRows
      BY <1>2, RowOfMember, NewRowGood, ConfirmGood
    <2> HIDE DEF row
    <2>2. \A change : Good(Accept(rs, c, 1, Put(RoomOf(rs, c).participants, u, row),
                                  RoomOf(rs, c).tracks, change).rooms)
      BY <2>1, PutMemberGood
    <2> QED BY <2>2 DEF HintJoining, Ignored, row
  <1> QED BY <1>1, <1>2

\* hint_track, publishing: only a member's track is accepted.
LEMMA TrackHintGood ==
    ASSUME NEW rs, Good(rs), NEW c \in Channels, NEW u \in Users, NEW t \in TrackSids
    PROVE  Good(HintTrackPublished(rs, c, u, t).rooms)
  <1> DEFINE row   == RoomOf(rs, c).participants[u]
             track == NewTrack(u, row.sid, FALSE)
  <1>1. CASE u \in Members(rs, c)
    <2>1. row \in GoodRows
      BY <1>1, RowOfMember
    <2> HIDE DEF row
    <2>2. row.sid \in Sids \cup {NoSid}
      BY <2>1 DEF GoodRows, Participant
    <2>3. track \in GoodTracks(Members(rs, c)) /\ t \in TrackKeys
      BY <1>1, <2>2, NewTrackGood DEF TrackKeys
    <2> HIDE DEF track
    <2>4. \A change : Good(Accept(rs, c, 1, RoomOf(rs, c).participants,
                                  Put(RoomOf(rs, c).tracks, t, track), change).rooms)
      BY <2>3, PutTrackGood
    <2> QED BY <2>4 DEF HintTrackPublished, Ignored, track, row
  <1>2. CASE u \notin Members(rs, c)
    BY <1>2 DEF HintTrackPublished, Ignored
  <1> QED BY <1>1, <1>2

\* set_audio_state.
LEMMA AudioGood ==
    ASSUME NEW rs, Good(rs), NEW c \in Channels, NEW u \in Users, NEW audio \in AudioStates
    PROVE  Good(SetAudioState(rs, c, u, audio).rooms)
  <1> DEFINE old == RoomOf(rs, c).participants[u]
             row == [old EXCEPT !.audio = audio]
  <1>1. CASE u \in Members(rs, c)
    <2>1. old \in GoodRows
      BY <1>1, RowOfMember
    <2> HIDE DEF old
    <2>2. row \in GoodRows
      BY <2>1 DEF GoodRows, Participant
    <2> HIDE DEF row
    <2>3. \A change : Good(Accept(rs, c, 1, Put(RoomOf(rs, c).participants, u, row),
                                  RoomOf(rs, c).tracks, change).rooms)
      BY <2>2, PutMemberGood
    <2> QED BY <2>3 DEF SetAudioState, Ignored, row, old
  <1>2. CASE u \notin Members(rs, c)
    BY <1>2 DEF SetAudioState, Ignored
  <1> QED BY <1>1, <1>2

\* set_music_row: the only track that needs no member.
LEMMA MusicGood ==
    ASSUME NEW rs, Good(rs), NEW c \in Channels, NEW playing
    PROVE  Good(SetMusicRow(rs, c, playing).rooms)
  <1> DEFINE music == [owner |-> Bot, ownerSid |-> NoSid, source |-> "music",
                       muted |-> FALSE]
  <1>1. music \in GoodTracks(Members(rs, c)) /\ MusicSid \in TrackKeys
    BY RegistryAssumption DEF GoodTracks, Track, Sources, TrackKeys
  <1> HIDE DEF music
  <1>2. \A change : Good(Accept(rs, c, 1, RoomOf(rs, c).participants,
                                Put(RoomOf(rs, c).tracks, MusicSid, music), change).rooms)
    BY <1>1, PutTrackGood
  <1> QED BY <1>2, DropTrackGood DEF SetMusicRow, Ignored, music

\* What map_participants returns: sessions, and tracks with their owner listed.
LEMMA LiveFacts ==
    ASSUME NEW live \in LiveLists
    PROVE  /\ DOMAIN live \subseteq Users
           /\ \A u \in DOMAIN live : live[u].sid \in Sids
           /\ \A t \in LiveTracks(live) :
                 /\ t \in TrackSids
                 /\ LiveOwner(live, t) \in DOMAIN live
                 /\ live[LiveOwner(live, t)].tracks[t] \in BOOLEAN
  <1> DEFINE Flags == Maps(TrackSids, BOOLEAN)
             Row   == [sid : Sids, tracks : Flags]
  <1>1. DOMAIN live \subseteq Users /\ \A u \in DOMAIN live : live[u] \in Row
    <2> HIDE DEF Row
    <2>1. live \in Maps(Users, Row)
      BY DEF LiveLists, Row
    <2> QED BY <2>1 DEF Maps
  <1>2. \A u \in DOMAIN live : live[u].sid \in Sids /\ live[u].tracks \in Flags
    <2> HIDE DEF Flags
    <2> QED BY <1>1
  <1>3. ASSUME NEW t \in LiveTracks(live)
        PROVE  /\ t \in TrackSids
               /\ LiveOwner(live, t) \in DOMAIN live
               /\ live[LiveOwner(live, t)].tracks[t] \in BOOLEAN
    <2> DEFINE u == LiveOwner(live, t)
    <2>1. \E v \in DOMAIN live : t \in DOMAIN live[v].tracks
      BY DEF LiveTracks
    <2>2. u \in DOMAIN live /\ t \in DOMAIN live[u].tracks
      BY <2>1 DEF LiveOwner
    <2>3. live[u].tracks \in Flags
      BY <1>2, <2>2
    <2> HIDE DEF u
    <2>4. t \in TrackSids /\ live[u].tracks[t] \in BOOLEAN
      BY <2>2, <2>3 DEF Maps
    <2> QED BY <2>2, <2>4 DEF u
  <1> QED BY <1>1, <1>2, <1>3

\* reconcile_room's members: LiveKit's and the fresh provisional rows.
LEMMA ReconciledMembersGood ==
    ASSUME NEW rs, Good(rs), NEW c \in Channels, NEW live \in LiveLists
    PROVE  IsMap(ReconciledMembers(rs, c, live), Users, GoodRows)
  <1> DEFINE old == RoomOf(rs, c).participants
             dom == (DOMAIN old \ Absentees(rs, c, live)) \cup DOMAIN live
             row(u) == IF u \notin DOMAIN live THEN old[u]
                       ELSE IF u \in DOMAIN old THEN Confirm(old[u], live[u].sid)
                       ELSE NewRow(live[u].sid)
  <1>1. IsMap(old, Users, GoodRows)
    BY RoomFacts
  <1>2. ReconciledMembers(rs, c, live) = [u \in dom |-> row(u)]
    BY DEF ReconciledMembers
  <1> HIDE DEF old
  <1>3. ASSUME NEW u \in dom PROVE u \in Users /\ row(u) \in GoodRows
    <2>1. CASE u \notin DOMAIN live
      BY <1>1, <2>1 DEF IsMap
    <2>2. CASE u \in DOMAIN live
      <3>1. u \in Users /\ live[u].sid \in Sids
        BY <2>2, LiveFacts
      <3>2. NewRow(live[u].sid) \in GoodRows
        BY <3>1, NewRowGood
      <3>3. u \in DOMAIN old => Confirm(old[u], live[u].sid) \in GoodRows
        <4>1. u \in DOMAIN old => old[u] \in GoodRows
          BY <1>1 DEF IsMap
        <4> QED BY <3>1, <4>1, ConfirmGood
      <3> QED BY <2>2, <3>1, <3>2, <3>3
    <2> QED BY <2>1, <2>2
  <1> HIDE DEF row, dom
  <1>4. IsMap([u \in dom |-> row(u)], Users, GoodRows)
    BY <1>3 DEF IsMap
  <1> QED BY <1>2, <1>4

\* reconcile_room's tracks: listed ones, and music rows, of members that stay.
LEMMA ReconciledTracksGood ==
    ASSUME NEW rs, Good(rs), NEW c \in Channels, NEW live \in LiveLists
    PROVE  IsMap(ReconciledTracks(rs, c, live), TrackKeys,
                 GoodTracks(DOMAIN ReconciledMembers(rs, c, live)))
  <1> DEFINE old  == RoomOf(rs, c).tracks
             mem  == DOMAIN ReconciledMembers(rs, c, live)
             kept == {t \in DOMAIN old :
                        /\ old[t].owner \notin Absentees(rs, c, live)
                        /\ old[t].source = "music" \/ t \in LiveTracks(live)}
             flag(t) == live[LiveOwner(live, t)].tracks[t]
             dom  == kept \cup LiveTracks(live)
             row(t) == IF t \notin LiveTracks(live) THEN old[t]
                       ELSE IF t \in kept THEN [old[t] EXCEPT !.muted = flag(t)]
                       ELSE AddedTrack(live, t)
  <1>1. IsMap(old, TrackKeys, GoodTracks(Members(rs, c)))
    BY RoomFacts
  <1>2. mem = (Members(rs, c) \ Absentees(rs, c, live)) \cup DOMAIN live
    BY DEF ReconciledMembers, Members
  <1>3. ReconciledTracks(rs, c, live) = [t \in dom |-> row(t)]
    BY DEF ReconciledTracks
  <1> HIDE DEF old, mem
  <1>4. ASSUME NEW t \in kept PROVE old[t] \in GoodTracks(mem) /\ t \in TrackKeys
    <2>1. old[t] \in GoodTracks(Members(rs, c)) /\ t \in TrackKeys
      BY <1>1 DEF IsMap
    <2>2. old[t].owner \in Members(rs, c) => old[t].owner \in mem
      BY <1>2
    <2> QED BY <2>1, <2>2 DEF GoodTracks
  <1>5. ASSUME NEW t \in LiveTracks(live)
        PROVE  flag(t) \in BOOLEAN /\ t \in TrackKeys /\ AddedTrack(live, t) \in GoodTracks(mem)
    <2> DEFINE u == LiveOwner(live, t)
    <2>1. t \in TrackKeys /\ u \in DOMAIN live /\ flag(t) \in BOOLEAN
      BY LiveFacts DEF TrackKeys
    <2>2. u \in Users /\ u \in mem /\ live[u].sid \in Sids \cup {NoSid}
      <3> HIDE DEF u
      <3> QED BY <1>2, <2>1, LiveFacts
    <2>3. AddedTrack(live, t) = NewTrack(u, live[u].sid, flag(t))
      BY DEF AddedTrack
    <2> HIDE DEF u, flag
    <2>4. NewTrack(u, live[u].sid, flag(t)) \in GoodTracks(mem)
      BY <2>1, <2>2, NewTrackGood
    <2> QED BY <2>1, <2>3, <2>4
  <1>6. ASSUME NEW t \in dom PROVE t \in TrackKeys /\ row(t) \in GoodTracks(mem)
    <2>1. CASE t \notin LiveTracks(live)
      BY <1>4, <2>1
    <2>2. CASE t \in LiveTracks(live) /\ t \in kept
      <3>1. old[t] \in GoodTracks(mem) /\ flag(t) \in BOOLEAN /\ t \in TrackKeys
        BY <1>4, <1>5, <2>2
      <3>2. [old[t] EXCEPT !.muted = flag(t)] \in GoodTracks(mem)
        <4> HIDE DEF flag
        <4> QED BY <3>1 DEF GoodTracks, Track
      <3> QED BY <2>2, <3>1, <3>2
    <2>3. CASE t \in LiveTracks(live) /\ t \notin kept
      BY <1>5, <2>3
    <2> QED BY <2>1, <2>2, <2>3
  <1> HIDE DEF row, dom
  <1>7. IsMap([t \in dom |-> row(t)], TrackKeys, GoodTracks(mem))
    BY <1>6 DEF IsMap
  <1> QED BY <1>3, <1>7 DEF mem

\* reconcile_room: applied, closed empty, or only the entry created.
LEMMA ReconciledGood ==
    ASSUME NEW rs, Good(rs), NEW c \in Channels, NEW live \in LiveLists
    PROVE  Good(ReconcileRoom(rs, c, live).rooms)
  <1> DEFINE room == RoomOf(rs, c)
             members == ReconciledMembers(rs, c, live)
             tracks  == ReconciledTracks(rs, c, live)
             applied(change) == Accept(rs, c, 1, members, tracks, change)
  <1>1. IsMap(members, Users, GoodRows)
    BY ReconciledMembersGood
  <1>2. IsMap(tracks, TrackKeys, GoodTracks(DOMAIN members))
    BY ReconciledTracksGood
  <1>3. \A change : Good(applied(change).rooms)
    <2> HIDE DEF members, tracks
    <2> QED BY <1>1, <1>2, AcceptGood
  <1>4. \A change : Good(Without(applied(change).rooms, {c}))
    <2> HIDE DEF applied
    <2> QED BY <1>3, WithoutGood
  <1>5. Good(Put(rs, c, room))
    <2>1. GoodRoom(EmptyRoom)
      BY EmptyIsMap DEF GoodRoom, EmptyRoom
    <2>2. GoodRoom(room)
      BY <2>1 DEF Good, RoomOf
    <2> HIDE DEF room
    <2> QED BY <2>2 DEF Good, Put
  <1>6. \E change :
          ReconcileRoom(rs, c, live).rooms =
            IF members = room.participants /\ tracks = room.tracks THEN Put(rs, c, room)
            ELSE IF DOMAIN members = {} THEN Without(applied(change).rooms, {c})
            ELSE applied(change).rooms
    <2> HIDE DEF room, members, tracks
    <2> QED BY DEF ReconcileRoom, Accept, room, members, tracks
  <1> HIDE DEF applied, room, members, tracks
  <1> QED BY <1>3, <1>4, <1>5, <1>6

\* expire_provisionals removes members with their tracks.
LEMMA ExpiredGood == ASSUME NEW rs, Good(rs) PROVE Good(ExpireProvisionals(rs).rooms)
  <1> DEFINE leavers == [c \in {d \in DOMAIN rs : Expired(rs, d) # {}} |-> Expired(rs, c)]
  <1>1. DOMAIN leavers \subseteq DOMAIN rs
    OBVIOUS
  <1> HIDE DEF leavers
  <1>2. Good(Remove(rs, leavers, "provisional.expired").rooms)
    BY <1>1, RemoveGood
  <1> QED BY <1>2 DEF ExpireProvisionals, leavers

\* Only a row that is provisional already ages.
LEMMA AgedGood ==
    ASSUME NEW rs, Good(rs), NEW c \in DOMAIN rs, NEW u \in Members(rs, c),
           rs[c].participants[u].since = "fresh"
    PROVE  Good(AgeRow(rs, c, u))
  <1> DEFINE P   == rs[c].participants
             row == [P[u] EXCEPT !.since = "expired"]
             P2  == Put(P, u, row)
             new == [version |-> rs[c].version, participants |-> P2,
                     tracks |-> rs[c].tracks]
  <1>1. GoodRoom(rs[c]) /\ DOMAIN P = Members(rs, c)
    BY DEF Good, Members, RoomOf
  <1>2. /\ IsMap(P, Users, GoodRows) /\ rs[c].version \in Nat
        /\ IsMap(rs[c].tracks, TrackKeys, GoodTracks(DOMAIN P))
    BY <1>1 DEF GoodRoom
  <1> HIDE DEF P
  <1>3. P[u] \in GoodRows /\ P[u].since = "fresh" /\ u \in Users
    BY <1>1, <1>2 DEF IsMap, P
  <1>4. row \in GoodRows
    BY <1>3 DEF GoodRows, Participant
  <1> HIDE DEF row
  <1>5. DOMAIN P2 = DOMAIN P
    BY <1>1 DEF Put
  <1>6. IsMap(P2, Users, GoodRows)
    BY <1>2, <1>3, <1>4, PutMap
  <1> HIDE DEF P2
  <1>7. GoodRoom(new)
    BY <1>2, <1>5, <1>6 DEF GoodRoom
  <1>8. AgeRow(rs, c, u) = Put(rs, c, new)
    BY DEF AgeRow, new, P2, row, P
  <1> HIDE DEF new
  <1> QED BY <1>7, <1>8 DEF Good, Put

\* Good rooms have the types VoiceRegistry gives them.
LEMMA GoodIsRegistry == ASSUME NEW rs, Good(rs) PROVE IsRegistry(rs)
  <1>1. ASSUME NEW c \in DOMAIN rs PROVE IsRoom(rs[c])
    <2> DEFINE room == rs[c]
    <2>1. GoodRoom(room)
      BY DEF Good
    <2> HIDE DEF room
    <2>2. GoodRows \subseteq Participant
      BY DEF GoodRows
    <2>3. GoodTracks(DOMAIN room.participants) \subseteq Track
      BY DEF GoodTracks
    <2>4. IsMap(room.participants, Users, Participant)
      BY <2>1, <2>2, WiderMap DEF GoodRoom
    <2>5. IsMap(room.tracks, TrackKeys, Track)
      BY <2>1, <2>3, WiderMap DEF GoodRoom
    <2>6. IsRoom(room)
      BY <2>1, <2>4, <2>5 DEF GoodRoom, IsRoom, TrackKeys
    <2> QED BY <2>6 DEF room
  <1> QED BY <1>1 DEF IsRegistry, Good

-----------------------------------------------------------------------------
(* Who stays. *)

\* Every confirmed member of `rs` is in `rs2` with the same session.
Keeps(rs, rs2) ==
    \A c \in DOMAIN rs : \A u \in Members(rs, c) :
        ~IsProvisional(rs[c].participants[u]) =>
            /\ u \in Members(rs2, c)
            /\ rs2[c].participants[u].sid = rs[c].participants[u].sid

-----------------------------------------------------------------------------
(* The two ways members change. *)

\* An ignored call keeps everyone.
LEMMA IgnoredKeeps == ASSUME NEW rs PROVE Keeps(rs, Ignored(rs).rooms)
  BY DEF Keeps, Ignored

\* An accepted mutation keeps everyone when what it writes to its room does.
LEMMA AcceptKeeps ==
    ASSUME NEW rs, NEW c, NEW n, NEW members, NEW tracks, NEW change,
           \A u \in Members(rs, c) : ~IsProvisional(RoomOf(rs, c).participants[u]) =>
               /\ u \in DOMAIN members
               /\ members[u].sid = RoomOf(rs, c).participants[u].sid
    PROVE  Keeps(rs, Accept(rs, c, n, members, tracks, change).rooms)
  <1> DEFINE rs2 == Accept(rs, c, n, members, tracks, change).rooms
  <1>1. /\ DOMAIN rs2 = DOMAIN rs \cup {c}
        /\ rs2[c].participants = members
        /\ \A d \in DOMAIN rs \ {c} : rs2[d] = rs[d]
    BY DEF Accept, Put
  <1> HIDE DEF rs2
  <1>2. ASSUME NEW d \in DOMAIN rs, NEW u \in Members(rs, d),
               ~IsProvisional(rs[d].participants[u])
        PROVE  /\ u \in Members(rs2, d)
               /\ rs2[d].participants[u].sid = rs[d].participants[u].sid
    <2>1. CASE d = c
      BY <1>1, <1>2, <2>1 DEF Members, RoomOf
    <2>2. CASE d # c
      BY <1>1, <1>2, <2>2 DEF Members, RoomOf
    <2> QED BY <2>1, <2>2
  <1> QED BY <1>2 DEF Keeps, rs2

\* A removal leaves every other member's row as it was.
LEMMA RemoveLeavesOthers ==
    ASSUME NEW rs, NEW leavers, DOMAIN leavers \subseteq DOMAIN rs, NEW reason,
           NEW d \in DOMAIN rs, NEW u \in Members(rs, d),
           d \in DOMAIN leavers => u \notin leavers[d]
    PROVE  /\ d \in DOMAIN Remove(rs, leavers, reason).rooms
           /\ u \in Members(Remove(rs, leavers, reason).rooms, d)
           /\ Remove(rs, leavers, reason).rooms[d].participants[u]
                = rs[d].participants[u]
  <1> DEFINE rs2 == Remove(rs, leavers, reason).rooms
  <1>1. u \in DOMAIN rs[d].participants
    BY DEF Members, RoomOf
  <1>2. CASE d \in DOMAIN leavers
    <2> DEFINE stays == DOMAIN rs[d].participants \ leavers[d]
    <2>1. u \in stays
      BY <1>1, <1>2
    <2>2. /\ d \in DOMAIN rs2
          /\ rs2[d].participants = Restrict(rs[d].participants, stays)
      BY <1>2, <2>1 DEF Remove
    <2>3. /\ u \in DOMAIN rs2[d].participants
          /\ rs2[d].participants[u] = rs[d].participants[u]
      BY <2>1, <2>2 DEF Restrict
    <2> HIDE DEF rs2
    <2>4. u \in Members(rs2, d)
      BY <2>2, <2>3 DEF Members, RoomOf
    <2> QED BY <2>2, <2>3, <2>4 DEF rs2
  <1>3. CASE d \notin DOMAIN leavers
    <2>1. d \in DOMAIN rs2 /\ rs2[d] = rs[d]
      BY <1>3 DEF Remove
    <2> HIDE DEF rs2
    <2>2. u \in Members(rs2, d)
      BY <1>1, <2>1 DEF Members, RoomOf
    <2> QED BY <2>1, <2>2 DEF rs2
  <1> QED BY <1>2, <1>3

\* A removal that takes only provisional rows keeps everyone.
LEMMA RemoveKeeps ==
    ASSUME NEW rs, NEW leavers, DOMAIN leavers \subseteq DOMAIN rs, NEW reason,
           \A c \in DOMAIN leavers : \A u \in Members(rs, c) \cap leavers[c] :
               IsProvisional(rs[c].participants[u])
    PROVE  Keeps(rs, Remove(rs, leavers, reason).rooms)
  BY RemoveLeavesOthers DEF Keeps

-----------------------------------------------------------------------------
(* The calls of the WebSocket operations and of the expiry tick. *)

\* hint_joining names the session of a provisional row at most.
LEMMA JoiningKeeps ==
    ASSUME NEW rs, NEW c, NEW u, NEW s
    PROVE  Keeps(rs, HintJoining(rs, c, u, s).rooms)
  <1> DEFINE P   == RoomOf(rs, c).participants
             row == IF u \in Members(rs, c) THEN Confirm(P[u], s) ELSE NewRow(s)
  <1>1. CASE u \in Members(rs, c) /\ (~IsProvisional(P[u]) \/ s = NoSid)
    BY <1>1, IgnoredKeeps DEF HintJoining
  <1>2. CASE ~(u \in Members(rs, c) /\ (~IsProvisional(P[u]) \/ s = NoSid))
    <2>1. \A v \in Members(rs, c) : ~IsProvisional(P[v]) =>
              v \in DOMAIN Put(P, u, row) /\ Put(P, u, row)[v].sid = P[v].sid
      BY <1>2 DEF Put, Members
    <2>2. \A change : Keeps(rs, Accept(rs, c, 1, Put(P, u, row),
                                       RoomOf(rs, c).tracks, change).rooms)
      <3> HIDE DEF row
      <3> QED BY <2>1, AcceptKeeps
    <2> QED BY <1>2, <2>2 DEF HintJoining
  <1> QED BY <1>1, <1>2

\* hint_leaving removes a provisional row at most.
LEMMA LeavingKeeps ==
    ASSUME NEW rs, NEW c, NEW u
    PROVE  Keeps(rs, HintLeaving(rs, c, u).rooms)
  <1>1. CASE u \in Members(rs, c) /\ IsProvisional(rs[c].participants[u])
    <2> DEFINE leavers == Put(EmptyMap, c, {u})
    <2>1. c \in DOMAIN rs
      BY <1>1 DEF Members, RoomOf, EmptyRoom, EmptyMap
    <2>2. DOMAIN leavers = {c} /\ leavers[c] = {u}
      BY DEF Put, EmptyMap
    <2> HIDE DEF leavers
    <2>3. Keeps(rs, Remove(rs, leavers, "ws.presence_hint").rooms)
      BY <1>1, <2>1, <2>2, RemoveKeeps
    <2> QED BY <1>1, <2>3 DEF HintLeaving, leavers
  <1>2. CASE ~(u \in Members(rs, c) /\ IsProvisional(rs[c].participants[u]))
    BY <1>2, IgnoredKeeps DEF HintLeaving
  <1> QED BY <1>1, <1>2

\* A call that rewrites tracks only keeps everyone.
LEMMA TracksKeep ==
    ASSUME NEW rs, NEW c, NEW n, NEW tracks, NEW change
    PROVE  Keeps(rs, Accept(rs, c, n, RoomOf(rs, c).participants, tracks, change).rooms)
  BY AcceptKeeps DEF Members

\* hint_track_published, hint_track_unpublished and set_music_row.
LEMMA TrackCallsKeep ==
    ASSUME NEW rs, NEW c, NEW u, NEW t, NEW playing
    PROVE  /\ Keeps(rs, HintTrackPublished(rs, c, u, t).rooms)
           /\ Keeps(rs, HintTrackUnpublished(rs, c, u, t).rooms)
           /\ Keeps(rs, SetMusicRow(rs, c, playing).rooms)
  <1>1. Keeps(rs, HintTrackPublished(rs, c, u, t).rooms)
    BY TracksKeep, IgnoredKeeps DEF HintTrackPublished
  <1>2. \A x, reason : Keeps(rs, DropTrack(rs, c, x, reason).rooms)
    BY TracksKeep DEF DropTrack
  <1>3. Keeps(rs, HintTrackUnpublished(rs, c, u, t).rooms)
    BY <1>2, IgnoredKeeps DEF HintTrackUnpublished
  <1>4. Keeps(rs, SetMusicRow(rs, c, playing).rooms)
    BY <1>2, TracksKeep, IgnoredKeeps DEF SetMusicRow
  <1> QED BY <1>1, <1>3, <1>4

\* set_audio_state writes nothing but the audio state of a row.
LEMMA AudioKeeps ==
    ASSUME NEW rs, Good(rs), NEW c \in Channels, NEW u, NEW audio
    PROVE  Keeps(rs, SetAudioState(rs, c, u, audio).rooms)
  <1> DEFINE P   == RoomOf(rs, c).participants
             row == [P[u] EXCEPT !.audio = audio]
  <1>1. CASE u \in Members(rs, c) /\ P[u].audio # audio
    <2>1. P[u] \in Participant
      BY <1>1, RowOfMember DEF GoodRows
    <2>2. row.sid = P[u].sid
      BY <2>1 DEF Participant
    <2>3. \A v \in Members(rs, c) :
              v \in DOMAIN Put(P, u, row) /\ Put(P, u, row)[v].sid = P[v].sid
      <3> HIDE DEF row
      <3> QED BY <2>2 DEF Put, Members
    <2>4. \A change : Keeps(rs, Accept(rs, c, 1, Put(P, u, row),
                                       RoomOf(rs, c).tracks, change).rooms)
      <3> HIDE DEF row
      <3> QED BY <2>3, AcceptKeeps
    <2> QED BY <1>1, <2>4 DEF SetAudioState
  <1>2. CASE ~(u \in Members(rs, c) /\ P[u].audio # audio)
    BY <1>2, IgnoredKeeps DEF SetAudioState
  <1> QED BY <1>1, <1>2

\* expire_provisionals removes rows whose clock ran out, which are provisional.
LEMMA ExpireKeeps ==
    ASSUME NEW rs, Good(rs) PROVE Keeps(rs, ExpireProvisionals(rs).rooms)
  <1> DEFINE leavers == [c \in {d \in DOMAIN rs : Expired(rs, d) # {}} |-> Expired(rs, c)]
  <1>1. DOMAIN leavers \subseteq DOMAIN rs
    OBVIOUS
  <1>2. ASSUME NEW c \in DOMAIN leavers, NEW u \in Members(rs, c) \cap leavers[c]
        PROVE  IsProvisional(rs[c].participants[u])
    <2>1. c \in Channels /\ RoomOf(rs, c) = rs[c]
      BY <1>1 DEF Good, RoomOf
    <2>2. rs[c].participants[u] \in GoodRows
      BY <2>1, RowOfMember
    <2>3. rs[c].participants[u].since = "expired"
      BY DEF Expired
    <2> QED BY <2>2, <2>3 DEF GoodRows, IsProvisional
  <1> HIDE DEF leavers
  <1>3. Keeps(rs, Remove(rs, leavers, "provisional.expired").rooms)
    BY <1>1, <1>2, RemoveKeeps
  <1> QED BY <1>3 DEF ExpireProvisionals, leavers

-----------------------------------------------------------------------------
(* Webhooks. *)

\* webhook_participant_left takes the row of the session it names, if any.
LEMMA LeftKeepsOtherSessions ==
    ASSUME NEW rs, NEW c, NEW u, NEW s, NEW d \in DOMAIN rs, NEW v \in Members(rs, d),
           ~(d = c /\ rs[d].participants[v].sid = s)
    PROVE  /\ v \in Members(WebhookParticipantLeft(rs, c, u, s).rooms, d)
           /\ WebhookParticipantLeft(rs, c, u, s).rooms[d].participants[v]
                = rs[d].participants[v]
  <1> DEFINE goes == /\ u \in Members(rs, c)
                     /\ ~IsProvisional(rs[c].participants[u])
                     /\ rs[c].participants[u].sid = s
             leavers == Put(EmptyMap, c, {u})
  <1>1. CASE goes
    <2>1. c \in DOMAIN rs
      BY <1>1 DEF Members, RoomOf, EmptyRoom, EmptyMap
    <2>2. DOMAIN leavers = {c} /\ leavers[c] = {u}
      BY DEF Put, EmptyMap
    <2>3. WebhookParticipantLeft(rs, c, u, s) = Remove(rs, leavers, "webhook.participant_left")
      BY <1>1 DEF WebhookParticipantLeft
    <2> HIDE DEF leavers
    <2>4. DOMAIN leavers \subseteq DOMAIN rs
      BY <2>1, <2>2
    <2>5. d \in DOMAIN leavers => v \notin leavers[d]
      BY <1>1, <2>2
    <2> QED BY <2>3, <2>4, <2>5, RemoveLeavesOthers
  <1>2. CASE ~goes
    BY <1>2 DEF WebhookParticipantLeft, Ignored
  <1> QED BY <1>1, <1>2

\* webhook_track_published adds a row at most.
LEMMA PublishedKeeps ==
    ASSUME NEW rs, NEW c, NEW u, NEW s, NEW t
    PROVE  Keeps(rs, WebhookTrackPublished(rs, c, u, s, t).rooms)
  <1> DEFINE P   == RoomOf(rs, c).participants
             row == IF u \in Members(rs, c) THEN P[u] ELSE NewRow(s)
  <1>1. \A v \in Members(rs, c) : ~IsProvisional(P[v]) =>
            v \in DOMAIN Put(P, u, row) /\ Put(P, u, row)[v].sid = P[v].sid
    BY DEF Put, Members
  <1>2. \A n, tracks, change : Keeps(rs, Accept(rs, c, n, Put(P, u, row), tracks, change).rooms)
    <2> HIDE DEF row
    <2> QED BY <1>1, AcceptKeeps
  <1> QED BY <1>2, IgnoredKeeps DEF WebhookTrackPublished

\* webhook_track_unpublished and webhook_track_muted write tracks only.
LEMMA TrackWebhooksKeep ==
    ASSUME NEW rs, NEW c, NEW t, NEW muted
    PROVE  /\ Keeps(rs, WebhookTrackUnpublished(rs, c, t).rooms)
           /\ Keeps(rs, WebhookTrackMuted(rs, c, t, muted).rooms)
  BY TracksKeep, IgnoredKeeps DEF WebhookTrackUnpublished, DropTrack, WebhookTrackMuted

-----------------------------------------------------------------------------
(* An authoritative join. *)

\* Writing one room leaves the members of the others alone.
LEMMA JoinWritesOneRoom ==
    ASSUME NEW rs, NEW c, NEW u, NEW s, NEW d, d # c
    PROVE  Members(WebhookParticipantJoined(rs, c, u, s).rooms, d) = Members(rs, d)
  <1>1. ASSUME NEW n, NEW members, NEW tracks, NEW change
        PROVE  Members(Accept(rs, c, n, members, tracks, change).rooms, d)
                 = Members(rs, d)
    BY DEF Accept, Put, Members, RoomOf
  <1> QED BY <1>1 DEF WebhookParticipantJoined, Ignored

\* The user a removal names is no member of the room afterwards.
LEMMA RemovedIsGone ==
    ASSUME NEW rs, NEW leavers, NEW reason, NEW d \in DOMAIN leavers, NEW u \in leavers[d]
    PROVE  u \notin Members(Remove(rs, leavers, reason).rooms, d)
  <1> DEFINE rs2   == Remove(rs, leavers, reason).rooms
             stays == DOMAIN rs[d].participants \ leavers[d]
  <1>1. d \in DOMAIN rs2 => rs2[d].participants = Restrict(rs[d].participants, stays)
    BY DEF Remove
  <1>2. d \in DOMAIN rs2 => u \notin DOMAIN rs2[d].participants
    BY <1>1 DEF Restrict
  <1> HIDE DEF rs2
  <1>3. u \notin Members(rs2, d)
    BY <1>2 DEF Members, RoomOf, EmptyRoom, EmptyMap
  <1> QED BY <1>3 DEF rs2

\* A removal adds no member.
LEMMA RemoveAddsNone ==
    ASSUME NEW rs, NEW leavers, NEW reason, NEW d
    PROVE  Members(Remove(rs, leavers, reason).rooms, d) \subseteq Members(rs, d)
  <1> DEFINE rs2   == Remove(rs, leavers, reason).rooms
             stays == DOMAIN rs[d].participants \ leavers[d]
  <1>1. CASE d \in DOMAIN rs2
    <2>1. d \in DOMAIN rs
      BY <1>1 DEF Remove
    <2>2. DOMAIN rs2[d].participants \subseteq DOMAIN rs[d].participants
      <3>1. CASE d \in DOMAIN leavers
        <4>1. rs2[d].participants = Restrict(rs[d].participants, stays)
          BY <1>1, <3>1 DEF Remove
        <4> QED BY <4>1 DEF Restrict
      <3>2. CASE d \notin DOMAIN leavers
        BY <1>1, <3>2 DEF Remove
      <3> QED BY <3>1, <3>2
    <2> HIDE DEF rs2
    <2>3. Members(rs2, d) \subseteq Members(rs, d)
      BY <1>1, <2>1, <2>2 DEF Members, RoomOf
    <2> QED BY <2>3 DEF rs2
  <1>2. CASE d \notin DOMAIN rs2
    <2> HIDE DEF rs2
    <2>1. Members(rs2, d) = {}
      BY <1>2 DEF Members, RoomOf, EmptyRoom, EmptyMap
    <2> QED BY <2>1 DEF rs2
  <1> QED BY <1>1, <1>2

\* webhook_participant_joined_exclusive leaves its user in no other channel.
LEMMA ExclusiveJoin ==
    ASSUME NEW rs, NEW c, NEW u, NEW s, NEW d, d # c
    PROVE  u \notin Members(WebhookParticipantJoinedExclusive(rs, c, u, s).rooms, d)
  <1> DEFINE previous == {e \in DOMAIN rs \ {c} : u \in Members(rs, e)}
             leavers  == [e \in previous |-> {u}]
             evicted  == Remove(rs, leavers, "webhook.participant_left").rooms
  <1>1. u \notin Members(evicted, d)
    <2>1. CASE d \in previous
      <3>1. d \in DOMAIN leavers /\ u \in leavers[d]
        BY <2>1
      <3> HIDE DEF leavers
      <3> QED BY <3>1, RemovedIsGone
    <2>2. CASE d \notin previous
      <3>1. u \notin Members(rs, d)
        BY <2>2 DEF Members, RoomOf, EmptyRoom, EmptyMap
      <3> HIDE DEF leavers
      <3> QED BY <3>1, RemoveAddsNone
    <2> QED BY <2>1, <2>2
  <1>2. WebhookParticipantJoinedExclusive(rs, c, u, s).rooms
          = WebhookParticipantJoined(evicted, c, u, s).rooms
    BY DEF WebhookParticipantJoinedExclusive
  <1> HIDE DEF evicted
  <1> QED BY <1>1, <1>2, JoinWritesOneRoom

-----------------------------------------------------------------------------
(* What a call tells.  A client that applies the changes of a call to what  *)
(* it shows must show the rooms after it: Tells, channel by channel.        *)

\* Music rows have the music key.
MusicKeyed(tracks) == \A t \in DOMAIN tracks : tracks[t].source = "music" => t = MusicSid

MusicInPlace(rs) == \A c \in DOMAIN rs : MusicKeyed(rs[c].tracks)

\* `changes` tell of channel c all that leads from rs to rs2.
TellsOf(rs, rs2, changes, c) ==
    LET told  == {ch \in changes : ch.channel = c}
        quiet == IF \E ch \in told : ch.closed THEN {MusicSid} ELSE {}
        seen  == IF told = {} THEN Shown(rs, c)
                 ELSE Replay(Shown(rs, c), CHOOSE ch \in told : TRUE)
    IN  OnWire(Shown(rs2, c)) = OnWire([seen EXCEPT !.tracks = Without(@, quiet)])

Tells(rs, result) ==
    /\ \A c \in Channels : TellsOf(rs, result.rooms, result.changes, c)
    /\ MusicInPlace(result.rooms)

\* The change ch takes away, adds and updates this in channel c.
Says(ch, c, removed, added, updated, tracksRemoved, tracksAdded, closed) ==
    /\ ch.channel = c /\ ch.closed = closed
    /\ ch.removed = removed /\ ch.added = added /\ ch.updated = updated
    /\ ch.tracksRemoved = tracksRemoved /\ ch.tracksAdded = tracksAdded

\* What Replay makes of the members, and of the tracks.
MembersAfter(old, removed, added, updated) ==
    LET left == Without(old, removed)
        came == [u \in DOMAIN left \cup DOMAIN added |->
                    IF u \in DOMAIN added THEN added[u] ELSE left[u]]
    IN  [u \in DOMAIN came |-> IF u \in DOMAIN updated THEN updated[u] ELSE came[u]]

TracksAfter(old, removed, added) ==
    LET kept == Without(old, removed)
    IN  [t \in DOMAIN kept \cup DOMAIN added |->
            IF t \in DOMAIN added THEN added[t] ELSE kept[t]]

\* f is a function.
IsTable(f) == f = [x \in DOMAIN f |-> f[x]]

\* Taking nothing away.
LEMMA WithoutNothing == ASSUME NEW f, IsTable(f) PROVE Without(f, {}) = f
  <1>1. DOMAIN f \ {} = DOMAIN f
    OBVIOUS
  <1>2. Without(f, {}) = [x \in DOMAIN f |-> f[x]]
    BY <1>1 DEF Without, Restrict
  <1> QED BY <1>2 DEF IsTable

\* Replay, by halves.
LEMMA ReplayHalves ==
    ASSUME NEW shown, NEW ch, NEW c, NEW R, NEW A, NEW U, NEW TR, NEW TA, NEW closed,
           Says(ch, c, R, A, U, TR, TA, closed)
    PROVE  Replay(shown, ch) = [members |-> MembersAfter(shown.members, R, A, U),
                                tracks  |-> TracksAfter(shown.tracks, TR, TA)]
  BY DEF Replay, Says, MembersAfter, TracksAfter

\* The halves of Replay when there is nothing, one row, or one departure to tell.
LEMMA OneMember ==
    ASSUME NEW old, IsTable(old), NEW u, NEW row
    PROVE  /\ MembersAfter(old, {}, EmptyMap, EmptyMap) = old
           /\ u \notin DOMAIN old =>
                MembersAfter(old, {}, Put(EmptyMap, u, row), EmptyMap) = Put(old, u, row)
           /\ u \in DOMAIN old =>
                MembersAfter(old, {}, EmptyMap, Put(EmptyMap, u, row)) = Put(old, u, row)
  <1> DEFINE one == Put(EmptyMap, u, row)
  <1>1. Without(old, {}) = old /\ DOMAIN EmptyMap = {}
    BY WithoutNothing DEF EmptyMap
  <1>2. DOMAIN one = {u} /\ one[u] = row
    BY DEF Put, EmptyMap
  <1> HIDE DEF one
  <1>3. MembersAfter(old, {}, EmptyMap, EmptyMap) = old
    <2>1. MembersAfter(old, {}, EmptyMap, EmptyMap) = [x \in DOMAIN old |-> old[x]]
      BY <1>1 DEF MembersAfter
    <2> QED BY <2>1 DEF IsTable
  <1>4. ASSUME u \notin DOMAIN old
        PROVE  MembersAfter(old, {}, one, EmptyMap) = Put(old, u, row)
    BY <1>1, <1>2, <1>4 DEF MembersAfter, Put
  <1>5. ASSUME u \in DOMAIN old
        PROVE  MembersAfter(old, {}, EmptyMap, one) = Put(old, u, row)
    BY <1>1, <1>2, <1>5 DEF MembersAfter, Put
  <1> QED BY <1>3, <1>4, <1>5 DEF one

\* The same of tracks.
LEMMA OneTrack ==
    ASSUME NEW old, IsTable(old), NEW t, NEW track
    PROVE  /\ TracksAfter(old, {}, EmptyMap) = old
           /\ TracksAfter(old, {}, Put(EmptyMap, t, track)) = Put(old, t, track)
           /\ TracksAfter(old, {t}, EmptyMap) = Without(old, {t})
  <1> DEFINE one == Put(EmptyMap, t, track)
  <1>1. Without(old, {}) = old /\ DOMAIN EmptyMap = {}
    BY WithoutNothing DEF EmptyMap
  <1>2. DOMAIN one = {t} /\ one[t] = track
    BY DEF Put, EmptyMap
  <1> HIDE DEF one
  <1>3. TracksAfter(old, {}, EmptyMap) = old
    <2>1. TracksAfter(old, {}, EmptyMap) = [x \in DOMAIN old |-> old[x]]
      BY <1>1 DEF TracksAfter
    <2> QED BY <2>1 DEF IsTable
  <1>4. TracksAfter(old, {}, one) = Put(old, t, track)
    BY <1>1, <1>2 DEF TracksAfter, Put
  <1>5. TracksAfter(old, {t}, EmptyMap) = Without(old, {t})
    BY <1>1 DEF TracksAfter, Without, Restrict
  <1> QED BY <1>3, <1>4, <1>5 DEF one

\* Of a room, what a client shows: two tables.
LEMMA ShownFacts ==
    ASSUME NEW rs, Good(rs), NEW c \in Channels
    PROVE  /\ Shown(rs, c) = [members |-> RoomOf(rs, c).participants,
                              tracks  |-> RoomOf(rs, c).tracks]
           /\ IsTable(RoomOf(rs, c).participants) /\ IsTable(RoomOf(rs, c).tracks)
  <1>1. /\ IsMap(RoomOf(rs, c).participants, Users, GoodRows)
        /\ IsMap(RoomOf(rs, c).tracks, TrackKeys, GoodTracks(Members(rs, c)))
    BY RoomFacts
  <1> QED BY <1>1 DEF Shown, IsTable, IsMap

\* A channel of which nothing is told shows what it showed.
LEMMA ToldNothing ==
    ASSUME NEW rs, Good(rs), NEW c \in Channels, NEW rs2, NEW changes,
           \A ch \in changes : ch.channel # c,
           OnWire(Shown(rs2, c)) = OnWire(Shown(rs, c))
    PROVE  TellsOf(rs, rs2, changes, c)
  <1>1. {ch \in changes : ch.channel = c} = {}
    OBVIOUS
  <1> DEFINE P == RoomOf(rs, c).participants
             T == RoomOf(rs, c).tracks
  <1>2. Shown(rs, c) = [members |-> P, tracks |-> T] /\ Without(T, {}) = T
    BY ShownFacts, WithoutNothing
  <1> HIDE DEF P, T
  <1>3. [Shown(rs, c) EXCEPT !.tracks = Without(@, {})] = Shown(rs, c)
    BY <1>2
  <1> QED BY <1>1, <1>3 DEF TellsOf

\* A channel of which one thing is told shows what replaying it gives, but for
\* the music of a room that closes.
LEMMA ToldOnce ==
    ASSUME NEW rs, NEW c \in Channels, NEW rs2, NEW changes, NEW ch \in changes,
           \A other \in changes : other.channel = c => other = ch,
           NEW R, NEW A, NEW U, NEW TR, NEW TA, NEW closed \in BOOLEAN,
           Says(ch, c, R, A, U, TR, TA, closed),
           NEW tracks, tracks = TracksAfter(RoomOf(rs, c).tracks, TR, TA),
           IF closed THEN RoomOf(rs2, c).tracks = Without(tracks, {MusicSid})
           ELSE RoomOf(rs2, c).tracks = tracks,
           RoomOf(rs2, c).participants = MembersAfter(RoomOf(rs, c).participants, R, A, U)
    PROVE  TellsOf(rs, rs2, changes, c)
  <1> DEFINE told  == {x \in changes : x.channel = c}
             quiet == IF \E x \in told : x.closed THEN {MusicSid} ELSE {}
             members == MembersAfter(RoomOf(rs, c).participants, R, A, U)
  <1>1. told = {ch}
    BY DEF Says
  <1>2. (CHOOSE x \in told : TRUE) = ch /\ told # {}
    BY <1>1
  <1>3. Replay(Shown(rs, c), ch) = [members |-> members, tracks |-> tracks]
    <2>1. Shown(rs, c).members = RoomOf(rs, c).participants
          /\ Shown(rs, c).tracks = RoomOf(rs, c).tracks
      BY DEF Shown
    <2> QED BY <2>1, ReplayHalves
  <1>4. quiet = IF closed THEN {MusicSid} ELSE {}
    BY <1>1 DEF Says
  <1>5. IsTable(tracks)
    BY DEF IsTable, TracksAfter
  <1>6. Without(tracks, quiet) = RoomOf(rs2, c).tracks
    BY <1>4, <1>5, WithoutNothing
  <1>7. Shown(rs2, c) = [members |-> members, tracks |-> Without(tracks, quiet)]
    BY <1>6 DEF Shown
  <1> HIDE DEF told, quiet, members
  <1>8. [Replay(Shown(rs, c), ch) EXCEPT !.tracks = Without(@, quiet)] = Shown(rs2, c)
    BY <1>3, <1>7
  <1> QED BY <1>2, <1>8 DEF TellsOf, told, quiet

-----------------------------------------------------------------------------
(* The three kinds of call again. *)

\* An ignored call tells nothing and does nothing.
LEMMA IgnoredTells ==
    ASSUME NEW rs, Good(rs), MusicInPlace(rs) PROVE Tells(rs, Ignored(rs))
  BY ToldNothing DEF Tells, Ignored

\* An accepted call tells of its room what it wrote there.
LEMMA AcceptTells ==
    ASSUME NEW rs, Good(rs), MusicInPlace(rs), NEW c \in Channels, NEW n, NEW members,
           NEW tracks, NEW change, NEW R, NEW A, NEW U, NEW TR, NEW TA,
           Says([change EXCEPT !.after = RoomOf(rs, c).version + n],
                c, R, A, U, TR, TA, FALSE),
           members = MembersAfter(RoomOf(rs, c).participants, R, A, U),
           tracks = TracksAfter(RoomOf(rs, c).tracks, TR, TA),
           MusicKeyed(tracks)
    PROVE  Tells(rs, Accept(rs, c, n, members, tracks, change))
  <1> DEFINE result == Accept(rs, c, n, members, tracks, change)
             ch     == [change EXCEPT !.after = RoomOf(rs, c).version + n]
  <1>1. /\ result.changes = {ch}
        /\ DOMAIN result.rooms = DOMAIN rs \cup {c}
        /\ result.rooms[c].participants = members /\ result.rooms[c].tracks = tracks
        /\ \A d \in DOMAIN rs \ {c} : result.rooms[d] = rs[d]
    BY DEF Accept, Put
  <1> HIDE DEF result, ch
  <1>2. MusicInPlace(result.rooms)
    BY <1>1 DEF MusicInPlace
  <1>3. ASSUME NEW d \in Channels PROVE TellsOf(rs, result.rooms, result.changes, d)
    <2>1. CASE d = c
      <3>1. RoomOf(result.rooms, c).participants = members
            /\ RoomOf(result.rooms, c).tracks = tracks
        BY <1>1 DEF RoomOf
      <3>2. Says(ch, c, R, A, U, TR, TA, FALSE)
        BY DEF ch
      <3>3. ch \in result.changes /\ \A other \in result.changes : other = ch
        BY <1>1
      <3>4. /\ IF FALSE THEN RoomOf(result.rooms, c).tracks = Without(tracks, {MusicSid})
               ELSE RoomOf(result.rooms, c).tracks = tracks
            /\ RoomOf(result.rooms, c).participants
                 = MembersAfter(RoomOf(rs, c).participants, R, A, U)
        BY <3>1
      <3>5. TellsOf(rs, result.rooms, result.changes, c)
        BY <3>2, <3>3, <3>4, ToldOnce
      <3> QED BY <2>1, <3>5
    <2>2. CASE d # c
      <3>1. ch.channel = c
        BY DEF Says, ch
      <3>2. Shown(result.rooms, d) = Shown(rs, d)
        BY <1>1, <2>2 DEF Shown, RoomOf
      <3> QED BY <1>1, <2>2, <3>1, <3>2, ToldNothing
    <2> QED BY <2>1, <2>2
  <1> QED BY <1>2, <1>3 DEF Tells, result

\* The changes of the calls that write one row or one track.
LEMMA ChangeSays ==
    ASSUME NEW rs, NEW c, NEW reason, NEW n, NEW x, NEW y
    PROVE  /\ Says([[Change(rs, c, reason) EXCEPT !.added = x] EXCEPT !.after = n],
                   c, {}, x, EmptyMap, {}, EmptyMap, FALSE)
           /\ Says([[Change(rs, c, reason) EXCEPT !.updated = x] EXCEPT !.after = n],
                   c, {}, EmptyMap, x, {}, EmptyMap, FALSE)
           /\ Says([[Change(rs, c, reason) EXCEPT !.tracksAdded = x] EXCEPT !.after = n],
                   c, {}, EmptyMap, EmptyMap, {}, x, FALSE)
           /\ Says([[[Change(rs, c, reason) EXCEPT !.tracksAdded = x] EXCEPT !.added = y]
                        EXCEPT !.after = n],
                   c, {}, y, EmptyMap, {}, x, FALSE)
           /\ Says([[Change(rs, c, reason) EXCEPT !.tracksRemoved = x] EXCEPT !.after = n],
                   c, {}, EmptyMap, EmptyMap, x, EmptyMap, FALSE)
  BY DEF Says, Change

\* Members of a room, and its tracks, before any call.
LEMMA RoomTables ==
    ASSUME NEW rs, Good(rs), MusicInPlace(rs), NEW c \in Channels
    PROVE  /\ IsTable(RoomOf(rs, c).participants) /\ IsTable(RoomOf(rs, c).tracks)
           /\ DOMAIN RoomOf(rs, c).participants = Members(rs, c)
           /\ MusicKeyed(RoomOf(rs, c).tracks)
  <1>1. MusicKeyed(RoomOf(rs, c).tracks)
    BY DEF MusicInPlace, RoomOf, MusicKeyed, EmptyRoom, EmptyMap
  <1> QED BY <1>1, ShownFacts, RoomFacts

\* Writing a member's row and telling of it.
LEMMA PutMemberTells ==
    ASSUME NEW rs, Good(rs), MusicInPlace(rs), NEW c \in Channels, NEW u, NEW row,
           NEW reason
    PROVE  LET old    == RoomOf(rs, c).participants
               change == Change(rs, c, reason)
           IN  Tells(rs, Accept(rs, c, 1, Put(old, u, row), RoomOf(rs, c).tracks,
                     IF u \in Members(rs, c)
                     THEN [change EXCEPT !.updated = Put(EmptyMap, u, row)]
                     ELSE [change EXCEPT !.added = Put(EmptyMap, u, row)]))
  <1> DEFINE old    == RoomOf(rs, c).participants
             T      == RoomOf(rs, c).tracks
             named  == Put(EmptyMap, u, row)
             change == Change(rs, c, reason)
             n      == RoomOf(rs, c).version + 1
  <1>1. IsTable(old) /\ IsTable(T) /\ DOMAIN old = Members(rs, c) /\ MusicKeyed(T)
    BY RoomTables
  <1>2. T = TracksAfter(T, {}, EmptyMap)
    BY <1>1, OneTrack
  <1>3. CASE u \in Members(rs, c)
    <2> DEFINE ch == [change EXCEPT !.updated = named]
    <2>1. Says([ch EXCEPT !.after = n], c, {}, EmptyMap, named, {}, EmptyMap, FALSE)
      BY ChangeSays
    <2>2. Put(old, u, row) = MembersAfter(old, {}, EmptyMap, named)
      BY <1>1, <1>3, OneMember
    <2> HIDE DEF ch, named
    <2>3. Tells(rs, Accept(rs, c, 1, Put(old, u, row), T, ch))
      BY <1>1, <1>2, <2>1, <2>2, AcceptTells
    <2> QED BY <1>3, <2>3 DEF ch, named
  <1>4. CASE u \notin Members(rs, c)
    <2> DEFINE ch == [change EXCEPT !.added = named]
    <2>1. Says([ch EXCEPT !.after = n], c, {}, named, EmptyMap, {}, EmptyMap, FALSE)
      BY ChangeSays
    <2>2. Put(old, u, row) = MembersAfter(old, {}, named, EmptyMap)
      BY <1>1, <1>4, OneMember
    <2> HIDE DEF ch, named
    <2>3. Tells(rs, Accept(rs, c, 1, Put(old, u, row), T, ch))
      BY <1>1, <1>2, <2>1, <2>2, AcceptTells
    <2> QED BY <1>4, <2>3 DEF ch, named
  <1> QED BY <1>3, <1>4

\* Writing one track and telling of it.
LEMMA PutTrackTells ==
    ASSUME NEW rs, Good(rs), MusicInPlace(rs), NEW c \in Channels, NEW t, NEW track,
           track.source = "music" => t = MusicSid, NEW reason
    PROVE  Tells(rs, Accept(rs, c, 1, RoomOf(rs, c).participants,
                            Put(RoomOf(rs, c).tracks, t, track),
                            [Change(rs, c, reason) EXCEPT
                                !.tracksAdded = Put(EmptyMap, t, track)]))
  <1> DEFINE P   == RoomOf(rs, c).participants
             old == RoomOf(rs, c).tracks
             new == Put(old, t, track)
             one == Put(EmptyMap, t, track)
             ch  == [Change(rs, c, reason) EXCEPT !.tracksAdded = one]
  <1>1. IsTable(P) /\ IsTable(old) /\ MusicKeyed(old)
    BY RoomTables
  <1>2. new = TracksAfter(old, {}, one) /\ P = MembersAfter(P, {}, EmptyMap, EmptyMap)
    <2> HIDE DEF P, old
    <2>1. new = TracksAfter(old, {}, one)
      BY <1>1, OneTrack
    <2>2. P = MembersAfter(P, {}, EmptyMap, EmptyMap)
      BY <1>1, OneMember
    <2> QED BY <2>1, <2>2
  <1>3. MusicKeyed(new)
    BY <1>1 DEF MusicKeyed, Put
  <1>4. Says([ch EXCEPT !.after = RoomOf(rs, c).version + 1],
             c, {}, EmptyMap, EmptyMap, {}, one, FALSE)
    BY ChangeSays
  <1> HIDE DEF one, ch, new
  <1>5. Tells(rs, Accept(rs, c, 1, P, new, ch))
    BY <1>2, <1>3, <1>4, AcceptTells
  <1> QED BY <1>5 DEF ch, one, new

\* Taking one track away and telling of it.
LEMMA DropTrackTells ==
    ASSUME NEW rs, Good(rs), MusicInPlace(rs), NEW c \in Channels, NEW t, NEW reason
    PROVE  Tells(rs, DropTrack(rs, c, t, reason))
  <1> DEFINE P   == RoomOf(rs, c).participants
             old == RoomOf(rs, c).tracks
             new == Without(old, {t})
             ch  == [Change(rs, c, reason) EXCEPT !.tracksRemoved = {t}]
  <1>1. IsTable(P) /\ IsTable(old) /\ MusicKeyed(old)
    BY RoomTables
  <1>2. new = TracksAfter(old, {t}, EmptyMap) /\ P = MembersAfter(P, {}, EmptyMap, EmptyMap)
    BY <1>1, OneTrack, OneMember
  <1>3. MusicKeyed(new)
    BY <1>1 DEF MusicKeyed, Without, Restrict
  <1>4. Says([ch EXCEPT !.after = RoomOf(rs, c).version + 1],
             c, {}, EmptyMap, EmptyMap, {t}, EmptyMap, FALSE)
    BY ChangeSays
  <1> HIDE DEF ch, new
  <1>5. Tells(rs, Accept(rs, c, 1, P, new, ch))
    BY <1>2, <1>3, <1>4, AcceptTells
  <1> QED BY <1>5 DEF DropTrack, ch, new

-----------------------------------------------------------------------------
(* What each operation tells. *)

\* webhook_participant_joined.
LEMMA JoinedTells ==
    ASSUME NEW rs, Good(rs), MusicInPlace(rs), NEW c \in Channels, NEW u, NEW s
    PROVE  Tells(rs, WebhookParticipantJoined(rs, c, u, s))
  BY IgnoredTells, PutMemberTells DEF WebhookParticipantJoined

\* hint_joining.
LEMMA JoiningTells ==
    ASSUME NEW rs, Good(rs), MusicInPlace(rs), NEW c \in Channels, NEW u, NEW s
    PROVE  Tells(rs, HintJoining(rs, c, u, s))
  BY IgnoredTells, PutMemberTells DEF HintJoining

\* set_audio_state.
LEMMA AudioTells ==
    ASSUME NEW rs, Good(rs), MusicInPlace(rs), NEW c \in Channels, NEW u, NEW audio
    PROVE  Tells(rs, SetAudioState(rs, c, u, audio))
  BY IgnoredTells, PutMemberTells DEF SetAudioState

\* webhook_track_muted: the row that is there with another flag.
LEMMA MutedTells ==
    ASSUME NEW rs, Good(rs), MusicInPlace(rs), NEW c \in Channels, NEW t, NEW muted
    PROVE  Tells(rs, WebhookTrackMuted(rs, c, t, muted))
  <1> DEFINE T     == RoomOf(rs, c).tracks
             track == [T[t] EXCEPT !.muted = muted]
  <1>1. CASE t \in DOMAIN T
    <2>1. IsMap(T, TrackKeys, GoodTracks(Members(rs, c))) /\ MusicKeyed(T)
      BY RoomFacts, RoomTables
    <2> HIDE DEF T
    <2>2. T[t] \in Track
      BY <1>1, <2>1 DEF IsMap, GoodTracks
    <2>3. track.source = T[t].source
      BY <2>2 DEF Track
    <2>4. track.source = "music" => t = MusicSid
      BY <1>1, <2>1, <2>3 DEF MusicKeyed
    <2> HIDE DEF track
    <2> QED
      BY <2>4, IgnoredTells, PutTrackTells DEF WebhookTrackMuted, track, T
  <1>2. CASE t \notin DOMAIN T
    BY <1>2, IgnoredTells DEF WebhookTrackMuted
  <1> QED BY <1>1, <1>2

\* webhook_track_published: the track, and the owner's row if it had to be made.
LEMMA PublishedTells ==
    ASSUME NEW rs, Good(rs), MusicInPlace(rs), NEW c \in Channels, NEW u, NEW s, NEW t
    PROVE  Tells(rs, WebhookTrackPublished(rs, c, u, s, t))
  <1> DEFINE P      == RoomOf(rs, c).participants
             old    == RoomOf(rs, c).tracks
             known  == u \in Members(rs, c)
             row    == IF known THEN P[u] ELSE NewRow(s)
             track  == NewTrack(u, IF s # NoSid THEN s ELSE row.sid, FALSE)
             one    == Put(EmptyMap, t, track)
             change == [Change(rs, c, "webhook.track_published") EXCEPT !.tracksAdded = one]
             P2     == Put(P, u, row)
             T2     == Put(old, t, track)
  <1>1. IsTable(P) /\ IsTable(old) /\ DOMAIN P = Members(rs, c) /\ MusicKeyed(old)
    BY RoomTables
  <1>2. T2 = TracksAfter(old, {}, one)
    <2> HIDE DEF old, track
    <2> QED BY <1>1, OneTrack
  <1>3. MusicKeyed(T2)
    <2>1. track.source = "media"
      BY DEF NewTrack
    <2> HIDE DEF track
    <2> QED BY <1>1, <2>1 DEF MusicKeyed, Put
  <1>4. CASE known
    <2>1. P2 = P
      BY <1>1, <1>4 DEF Put, IsTable
    <2>2. P = MembersAfter(P, {}, EmptyMap, EmptyMap)
      BY <1>1, OneMember
    <2>3. Says([change EXCEPT !.after = RoomOf(rs, c).version + 1],
               c, {}, EmptyMap, EmptyMap, {}, one, FALSE)
      BY ChangeSays
    <2> HIDE DEF one, change, P2, T2
    <2>4. Tells(rs, Accept(rs, c, 1, P2, T2, change))
      BY <1>2, <1>3, <2>1, <2>2, <2>3, AcceptTells
    <2> QED
      BY <1>4, <2>4, IgnoredTells
      DEF WebhookTrackPublished, change, one, P2, T2
  <1>5. CASE ~known
    <2> DEFINE came == Put(EmptyMap, u, row)
               ch   == [change EXCEPT !.added = came]
    <2>1. P2 = MembersAfter(P, {}, came, EmptyMap)
      BY <1>1, <1>5, OneMember
    <2>2. Says([ch EXCEPT !.after = RoomOf(rs, c).version + 2],
               c, {}, came, EmptyMap, {}, one, FALSE)
      BY ChangeSays
    <2> HIDE DEF one, ch, came, P2, T2
    <2>3. Tells(rs, Accept(rs, c, 2, P2, T2, ch))
      BY <1>2, <1>3, <2>1, <2>2, AcceptTells
    <2> QED
      BY <1>5, <2>3, IgnoredTells
      DEF WebhookTrackPublished, ch, came, change, one, P2, T2
  <1> QED BY <1>4, <1>5

\* hint_track_published, set_music_row and what takes a track away.
LEMMA TrackCallsTell ==
    ASSUME NEW rs, Good(rs), MusicInPlace(rs), NEW c \in Channels, NEW u, NEW t,
           NEW playing
    PROVE  /\ Tells(rs, HintTrackPublished(rs, c, u, t))
           /\ Tells(rs, HintTrackUnpublished(rs, c, u, t))
           /\ Tells(rs, WebhookTrackUnpublished(rs, c, t))
           /\ Tells(rs, SetMusicRow(rs, c, playing))
  <1>1. Tells(rs, HintTrackPublished(rs, c, u, t))
    <2>1. \A s : NewTrack(u, s, FALSE).source # "music"
      BY DEF NewTrack
    <2> QED BY <2>1, IgnoredTells, PutTrackTells DEF HintTrackPublished
  <1>2. Tells(rs, HintTrackUnpublished(rs, c, u, t))
        /\ Tells(rs, WebhookTrackUnpublished(rs, c, t))
    BY IgnoredTells, DropTrackTells DEF HintTrackUnpublished, WebhookTrackUnpublished
  <1>3. Tells(rs, SetMusicRow(rs, c, playing))
    BY IgnoredTells, DropTrackTells, PutTrackTells DEF SetMusicRow
  <1> QED BY <1>1, <1>2, <1>3

\* A table without keys is the empty one.
LEMMA NoKeys == ASSUME NEW f, IsTable(f), DOMAIN f = {} PROVE f = EmptyMap
  <1>1. f = [x \in {} |-> f[x]]
    BY DEF IsTable
  <1> QED BY <1>1 DEF EmptyMap

\* Departures, replayed.
LEMMA Departures ==
    ASSUME NEW old, NEW gone
    PROVE  /\ MembersAfter(old, gone, EmptyMap, EmptyMap) = Without(old, gone)
           /\ TracksAfter(old, gone, EmptyMap) = Without(old, gone)
           /\ IsTable(Without(old, gone)) /\ DOMAIN Without(old, gone) = DOMAIN old \ gone
  <1>1. DOMAIN EmptyMap = {}
    BY DEF EmptyMap
  <1>2. Without(old, gone) = [x \in DOMAIN old \ gone |-> old[x]]
    BY DEF Without, Restrict
  <1>3. DOMAIN Without(old, gone) = DOMAIN old \ gone
        /\ \A x \in DOMAIN old \ gone : Without(old, gone)[x] = old[x]
    BY <1>2
  <1>4. MembersAfter(old, gone, EmptyMap, EmptyMap) = Without(old, gone)
    BY <1>1, <1>2, <1>3 DEF MembersAfter
  <1>5. TracksAfter(old, gone, EmptyMap) = Without(old, gone)
    BY <1>1, <1>2, <1>3 DEF TracksAfter
  <1> QED BY <1>2, <1>3, <1>4, <1>5 DEF IsTable

\* The tracks of a room whose members all leave are theirs or its music.
LEMMA OnlyMusicStays ==
    ASSUME NEW rs, Good(rs), MusicInPlace(rs), NEW c \in DOMAIN rs, NEW us,
           Members(rs, c) \subseteq us
    PROVE  Without(Without(rs[c].tracks, OwnedBy(rs[c], us)), {MusicSid}) = EmptyMap
  <1> DEFINE T    == rs[c].tracks
             left == Without(T, OwnedBy(rs[c], us))
  <1>1. c \in Channels /\ RoomOf(rs, c) = rs[c]
    BY DEF Good, RoomOf
  <1>2. IsMap(T, TrackKeys, GoodTracks(Members(rs, c))) /\ MusicKeyed(T)
    BY <1>1, RoomFacts, RoomTables
  <1>3. \A t \in DOMAIN T : t # MusicSid => t \in OwnedBy(rs[c], us)
    BY <1>2 DEF IsMap, GoodTracks, MusicKeyed, OwnedBy
  <1>4. DOMAIN left = DOMAIN T \ OwnedBy(rs[c], us)
    BY Departures
  <1> HIDE DEF left, T
  <1>5. DOMAIN Without(left, {MusicSid}) = DOMAIN left \ {MusicSid}
        /\ IsTable(Without(left, {MusicSid}))
    BY Departures
  <1>6. DOMAIN left \ {MusicSid} = {}
    BY <1>3, <1>4
  <1> QED BY <1>5, <1>6, NoKeys DEF left, T

\* What a removal leaves of a room it empties, of one it does not, of the rest.
LEMMA RemoveRooms ==
    ASSUME NEW rs, NEW leavers, DOMAIN leavers \subseteq DOMAIN rs, NEW reason, NEW c
    PROVE  LET rs2   == Remove(rs, leavers, reason).rooms
               stays == DOMAIN rs[c].participants \ leavers[c]
           IN  /\ c \notin DOMAIN leavers => RoomOf(rs2, c) = RoomOf(rs, c)
               /\ c \in DOMAIN leavers /\ stays = {} => RoomOf(rs2, c) = EmptyRoom
               /\ c \in DOMAIN leavers /\ stays # {} =>
                    /\ RoomOf(rs2, c).participants = Without(rs[c].participants, leavers[c])
                    /\ RoomOf(rs2, c).tracks
                         = Without(rs[c].tracks, OwnedBy(rs[c], leavers[c]))
  <1> DEFINE rs2   == Remove(rs, leavers, reason).rooms
             stays == DOMAIN rs[c].participants \ leavers[c]
  <1>1. CASE c \notin DOMAIN leavers
    <2>1. /\ c \in DOMAIN rs2 <=> c \in DOMAIN rs
          /\ c \in DOMAIN rs2 => rs2[c] = rs[c]
      BY <1>1 DEF Remove
    <2> HIDE DEF rs2
    <2>2. RoomOf(rs2, c) = RoomOf(rs, c)
      BY <2>1 DEF RoomOf
    <2> QED BY <1>1, <2>2 DEF rs2
  <1>2. CASE c \in DOMAIN leavers /\ stays = {}
    <2>1. c \notin DOMAIN rs2
      BY <1>2 DEF Remove
    <2> HIDE DEF rs2
    <2>2. RoomOf(rs2, c) = EmptyRoom
      BY <2>1 DEF RoomOf
    <2> QED BY <1>2, <2>2 DEF rs2
  <1>3. CASE c \in DOMAIN leavers /\ stays # {}
    <2>1. /\ c \in DOMAIN rs2
          /\ rs2[c].participants = Restrict(rs[c].participants, stays)
          /\ rs2[c].tracks = Without(rs[c].tracks, OwnedBy(rs[c], leavers[c]))
      BY <1>3 DEF Remove
    <2>2. Restrict(rs[c].participants, stays) = Without(rs[c].participants, leavers[c])
      BY DEF Without
    <2> HIDE DEF rs2
    <2>3. /\ RoomOf(rs2, c).participants = Without(rs[c].participants, leavers[c])
          /\ RoomOf(rs2, c).tracks = Without(rs[c].tracks, OwnedBy(rs[c], leavers[c]))
      BY <2>1, <2>2 DEF RoomOf
    <2> QED BY <1>3, <2>3 DEF rs2
  <1> QED BY <1>1, <1>2, <1>3

\* A channel of which a removal takes members is told their rows and tracks.
LEMMA RemoveTellsOf ==
    ASSUME NEW rs, Good(rs), MusicInPlace(rs), NEW leavers,
           DOMAIN leavers \subseteq DOMAIN rs, NEW reason,
           NEW c \in DOMAIN leavers, NEW changes, NEW ch \in changes,
           \A other \in changes : other.channel = c => other = ch,
           Says(ch, c, leavers[c], EmptyMap, EmptyMap, OwnedBy(rs[c], leavers[c]), EmptyMap,
                DOMAIN rs[c].participants \ leavers[c] = {})
    PROVE  TellsOf(rs, Remove(rs, leavers, reason).rooms, changes, c)
  <1> DEFINE rs2    == Remove(rs, leavers, reason).rooms
             P      == rs[c].participants
             gone   == OwnedBy(rs[c], leavers[c])
             tracks == Without(rs[c].tracks, gone)
             closed == DOMAIN P \ leavers[c] = {}
  <1>1. c \in Channels /\ c \in DOMAIN rs /\ RoomOf(rs, c) = rs[c]
        /\ Members(rs, c) = DOMAIN P
    BY DEF Good, RoomOf, Members
  <1>2. tracks = TracksAfter(rs[c].tracks, gone, EmptyMap)
    BY Departures
  <1>3. /\ closed => RoomOf(rs2, c) = EmptyRoom
        /\ ~closed => /\ RoomOf(rs2, c).participants = Without(P, leavers[c])
                      /\ RoomOf(rs2, c).tracks = tracks
    BY <1>1, RemoveRooms
  <1>4. /\ MembersAfter(P, leavers[c], EmptyMap, EmptyMap) = Without(P, leavers[c])
        /\ IsTable(Without(P, leavers[c]))
        /\ DOMAIN Without(P, leavers[c]) = DOMAIN P \ leavers[c]
    BY Departures
  <1>5. closed => Without(tracks, {MusicSid}) = EmptyMap
    <2>1. closed => Members(rs, c) \subseteq leavers[c]
      BY <1>1
    <2> QED BY <1>1, <2>1, OnlyMusicStays
  <1>6. closed => Without(P, leavers[c]) = EmptyMap
    BY <1>4, NoKeys
  <1>7. closed \in BOOLEAN
        /\ Says(ch, c, leavers[c], EmptyMap, EmptyMap, gone, EmptyMap, closed)
    OBVIOUS
  <1> HIDE DEF rs2, P, gone, tracks, closed
  <1>8. RoomOf(rs2, c).participants = MembersAfter(P, leavers[c], EmptyMap, EmptyMap)
    BY <1>3, <1>4, <1>6, <1>7 DEF EmptyRoom
  <1>9. IF closed THEN RoomOf(rs2, c).tracks = Without(tracks, {MusicSid})
        ELSE RoomOf(rs2, c).tracks = tracks
    BY <1>3, <1>5, <1>7 DEF EmptyRoom
  <1>10. tracks = TracksAfter(RoomOf(rs, c).tracks, gone, EmptyMap)
    BY <1>1, <1>2
  <1>11. RoomOf(rs2, c).participants
           = MembersAfter(RoomOf(rs, c).participants, leavers[c], EmptyMap, EmptyMap)
    BY <1>1, <1>8 DEF P
  <1>12. TellsOf(rs, rs2, changes, c)
    BY <1>1, <1>7, <1>9, <1>10, <1>11, ToldOnce
  <1> QED BY <1>12 DEF rs2

\* The change Remove makes for a channel.
Removal(rs, leavers, reason, d) ==
    [Change(rs, d, reason) EXCEPT
        !.after         = rs[d].version + 1,
        !.removed       = leavers[d],
        !.tracksRemoved = OwnedBy(rs[d], leavers[d]),
        !.closed        = DOMAIN rs[d].participants \ leavers[d] = {}]

\* It says who leaves the channel, and which tracks go with them.
LEMMA RemovalSays ==
    ASSUME NEW rs, NEW leavers, NEW reason, NEW d, NEW why
    PROVE  /\ Says(Removal(rs, leavers, reason, d), d, leavers[d], EmptyMap, EmptyMap,
                   OwnedBy(rs[d], leavers[d]), EmptyMap,
                   DOMAIN rs[d].participants \ leavers[d] = {})
           /\ Says([Removal(rs, leavers, reason, d) EXCEPT !.reason = why], d, leavers[d],
                   EmptyMap, EmptyMap, OwnedBy(rs[d], leavers[d]), EmptyMap,
                   DOMAIN rs[d].participants \ leavers[d] = {})
  BY DEF Says, Removal, Change

\* There is one for each channel somebody leaves.
LEMMA RemovalsMade ==
    ASSUME NEW rs, NEW leavers, NEW reason
    PROVE  Remove(rs, leavers, reason).changes
             = {Removal(rs, leavers, reason, d) : d \in DOMAIN leavers}
  BY DEF Remove, Removal

\* A removal moves no music row.
LEMMA RemoveKeepsMusic ==
    ASSUME NEW rs, MusicInPlace(rs), NEW leavers, DOMAIN leavers \subseteq DOMAIN rs,
           NEW reason
    PROVE  MusicInPlace(Remove(rs, leavers, reason).rooms)
  <1> DEFINE rs2 == Remove(rs, leavers, reason).rooms
  <1>1. ASSUME NEW c \in DOMAIN rs2 PROVE MusicKeyed(rs2[c].tracks)
    <2>1. c \in DOMAIN rs
      BY DEF Remove
    <2>2. MusicKeyed(rs[c].tracks)
      BY <2>1 DEF MusicInPlace
    <2>3. CASE c \notin DOMAIN leavers
      <3>1. rs2[c] = rs[c]
        BY <2>3 DEF Remove
      <3> QED BY <2>2, <3>1
    <2>4. CASE c \in DOMAIN leavers
      <3>1. rs2[c].tracks = Without(rs[c].tracks, OwnedBy(rs[c], leavers[c]))
        BY <2>4 DEF Remove
      <3> HIDE DEF rs2
      <3> QED BY <2>2, <3>1 DEF MusicKeyed, Without, Restrict
    <2> QED BY <2>3, <2>4
  <1> QED BY <1>1 DEF MusicInPlace

\* A removal tells each channel what it took from it.
LEMMA RemoveTells ==
    ASSUME NEW rs, Good(rs), MusicInPlace(rs), NEW leavers,
           DOMAIN leavers \subseteq DOMAIN rs, NEW reason
    PROVE  Tells(rs, Remove(rs, leavers, reason))
  <1> DEFINE rs2     == Remove(rs, leavers, reason).rooms
             changes == Remove(rs, leavers, reason).changes
  <1>1. changes = {Removal(rs, leavers, reason, d) : d \in DOMAIN leavers}
    BY RemovalsMade
  <1>2. \A d : Removal(rs, leavers, reason, d).channel = d
    BY RemovalSays DEF Says
  <1>3. ASSUME NEW c \in Channels, c \in DOMAIN leavers PROVE TellsOf(rs, rs2, changes, c)
    <2> DEFINE ch == Removal(rs, leavers, reason, c)
    <2>1. Says(ch, c, leavers[c], EmptyMap, EmptyMap, OwnedBy(rs[c], leavers[c]), EmptyMap,
               DOMAIN rs[c].participants \ leavers[c] = {})
      BY RemovalSays
    <2>2. ch \in changes /\ \A other \in changes : other.channel = c => other = ch
      BY <1>1, <1>2, <1>3
    <2> HIDE DEF ch, changes
    <2>3. TellsOf(rs, Remove(rs, leavers, reason).rooms, changes, c)
      BY <1>3, <2>1, <2>2, RemoveTellsOf
    <2> QED BY <2>3
  <1>4. ASSUME NEW c \in Channels, c \notin DOMAIN leavers PROVE TellsOf(rs, rs2, changes, c)
    <2>1. RoomOf(rs2, c) = RoomOf(rs, c)
      BY <1>4, RemoveRooms
    <2>2. \A ch \in changes : ch.channel # c
      BY <1>1, <1>2, <1>4
    <2> HIDE DEF rs2, changes
    <2>3. Shown(rs2, c) = Shown(rs, c)
      BY <2>1 DEF Shown
    <2> QED BY <2>2, <2>3, ToldNothing
  <1>5. MusicInPlace(rs2)
    BY RemoveKeepsMusic
  <1> QED BY <1>3, <1>4, <1>5 DEF Tells

\* webhook_participant_left, hint_leaving and the expiry tick.
LEMMA LeaversTell ==
    ASSUME NEW rs, Good(rs), MusicInPlace(rs), NEW c, NEW u, NEW s
    PROVE  /\ Tells(rs, WebhookParticipantLeft(rs, c, u, s))
           /\ Tells(rs, HintLeaving(rs, c, u))
           /\ Tells(rs, ExpireProvisionals(rs))
  <1>1. u \in Members(rs, c) => DOMAIN Put(EmptyMap, c, {u}) \subseteq DOMAIN rs
    BY DEF Members, RoomOf, EmptyRoom, EmptyMap, Put
  <1>2. DOMAIN [d \in {e \in DOMAIN rs : Expired(rs, e) # {}} |-> Expired(rs, d)]
          \subseteq DOMAIN rs
    OBVIOUS
  <1>3. Tells(rs, ExpireProvisionals(rs))
    BY <1>2, RemoveTells DEF ExpireProvisionals
  <1>4. u \in Members(rs, c) =>
            \A reason : Tells(rs, Remove(rs, Put(EmptyMap, c, {u}), reason))
    BY <1>1, RemoveTells
  <1>5. Tells(rs, Ignored(rs))
    BY IgnoredTells
  <1> QED BY <1>3, <1>4, <1>5 DEF WebhookParticipantLeft, HintLeaving

\* What is told of a channel looks at that channel only.
LEMMA TellsOfSame ==
    ASSUME NEW rs, NEW rs2, NEW changes, NEW c, TellsOf(rs, rs2, changes, c),
           NEW from, Shown(from, c) = Shown(rs, c), NEW to, Shown(to, c) = Shown(rs2, c),
           NEW more, {ch \in more : ch.channel = c} = {ch \in changes : ch.channel = c}
    PROVE  TellsOf(from, to, more, c)
  BY DEF TellsOf

\* A join writes, and tells of, one room.
LEMMA JoinTellsOneRoom ==
    ASSUME NEW rs, NEW c, NEW u, NEW s
    PROVE  /\ \A ch \in WebhookParticipantJoined(rs, c, u, s).changes : ch.channel = c
           /\ \A d : d # c => Shown(WebhookParticipantJoined(rs, c, u, s).rooms, d)
                                = Shown(rs, d)
  <1> DEFINE room   == RoomOf(rs, c)
             n      == room.version + 1
             change == Change(rs, c, "webhook.participant_joined")
             row    == IF u \in Members(rs, c) THEN Confirm(room.participants[u], s)
                       ELSE NewRow(s)
             named  == Put(EmptyMap, u, row)
             mine   == IF u \in Members(rs, c) THEN [change EXCEPT !.updated = named]
                       ELSE [change EXCEPT !.added = named]
             result == WebhookParticipantJoined(rs, c, u, s)
             made   == Accept(rs, c, 1, Put(room.participants, u, row), room.tracks, mine)
  <1>1. result = Ignored(rs) \/ result = made
    BY DEF WebhookParticipantJoined
  <1>2. [mine EXCEPT !.after = n].channel = c
    <2>1. u \in Members(rs, c) => [mine EXCEPT !.after = n].channel = c
      BY DEF Change
    <2>2. u \notin Members(rs, c) => [mine EXCEPT !.after = n].channel = c
      BY DEF Change
    <2> QED BY <2>1, <2>2
  <1>3. /\ made.changes = {[mine EXCEPT !.after = n]}
        /\ \A d : d # c => /\ d \in DOMAIN made.rooms <=> d \in DOMAIN rs
                           /\ d \in DOMAIN rs => made.rooms[d] = rs[d]
    BY DEF Accept, Put
  <1> HIDE DEF mine, made, result, n
  <1>4. CASE result = made
    <2>1. \A ch \in result.changes : ch.channel = c
      BY <1>2, <1>3, <1>4
    <2>2. \A d : d # c => RoomOf(result.rooms, d) = RoomOf(rs, d)
      BY <1>3, <1>4 DEF RoomOf
    <2> QED BY <2>1, <2>2 DEF Shown, result
  <1>5. CASE result = Ignored(rs)
    BY <1>5 DEF Ignored, result
  <1> QED BY <1>1, <1>4, <1>5

\* webhook_participant_joined_exclusive: the rooms left, then the room joined.
LEMMA ExclusiveTells ==
    ASSUME NEW rs, Good(rs), MusicInPlace(rs), NEW c \in Channels, NEW u \in Users,
           NEW s \in Sids
    PROVE  Tells(rs, WebhookParticipantJoinedExclusive(rs, c, u, s))
  <1> DEFINE reason   == "webhook.participant_left"
             previous == {d \in DOMAIN rs \ {c} : u \in Members(rs, d)}
             leavers  == [d \in previous |-> {u}]
             evicted  == Remove(rs, leavers, reason)
             why(ch)  == IF IsProvisional(rs[ch.channel].participants[u])
                         THEN "ws.presence_hint" ELSE ch.reason
             retold(ch) == [ch EXCEPT !.reason = why(ch)]
             left(d)  == retold(Removal(rs, leavers, reason, d))
             joined   == WebhookParticipantJoined(evicted.rooms, c, u, s)
             changes  == {left(d) : d \in previous} \cup joined.changes
             result   == WebhookParticipantJoinedExclusive(rs, c, u, s)
  <1>1. result.rooms = joined.rooms /\ result.changes = changes
    <2>1. evicted.changes = {Removal(rs, leavers, reason, d) : d \in previous}
      BY RemovalsMade
    <2>2. /\ result.rooms = joined.rooms
          /\ result.changes = {retold(ch) : ch \in evicted.changes} \cup joined.changes
      BY DEF WebhookParticipantJoinedExclusive
    <2> HIDE DEF retold, evicted, result, joined
    <2>3. {retold(ch) : ch \in evicted.changes} = {left(d) : d \in previous}
      BY <2>1
    <2> QED BY <2>2, <2>3
  <1>2. DOMAIN leavers = previous /\ previous \subseteq DOMAIN rs /\ c \notin previous
    OBVIOUS
  <1>3. \A d : Says(left(d), d, leavers[d], EmptyMap, EmptyMap,
                    OwnedBy(rs[d], leavers[d]), EmptyMap,
                    DOMAIN rs[d].participants \ leavers[d] = {})
    BY RemovalSays
  <1>4. Good(evicted.rooms) /\ MusicInPlace(evicted.rooms)
    BY <1>2, RemoveGood, RemoveKeepsMusic
  <1>5. \A d : d \notin previous => RoomOf(evicted.rooms, d) = RoomOf(rs, d)
    BY <1>2, RemoveRooms
  <1> HIDE DEF leavers, previous, evicted, left
  <1>6. /\ \A ch \in joined.changes : ch.channel = c
        /\ \A d : d # c => Shown(joined.rooms, d) = Shown(evicted.rooms, d)
    BY JoinTellsOneRoom
  <1>7. Tells(evicted.rooms, joined)
    BY <1>4, JoinedTells
  <1> HIDE DEF joined, result
  <1>8. \A d : left(d).channel = d
    BY <1>3 DEF Says
  <1>9. TellsOf(rs, joined.rooms, changes, c)
    <2>1. TellsOf(evicted.rooms, joined.rooms, joined.changes, c)
      BY <1>7 DEF Tells
    <2>2. Shown(evicted.rooms, c) = Shown(rs, c)
      BY <1>2, <1>5 DEF Shown
    <2>3. {ch \in changes : ch.channel = c} = {ch \in joined.changes : ch.channel = c}
      BY <1>2, <1>8
    <2> HIDE DEF changes
    <2> QED BY <2>1, <2>2, <2>3, TellsOfSame
  <1>10. ASSUME NEW d \in Channels, d # c, d \notin previous
         PROVE  TellsOf(rs, joined.rooms, changes, d)
    <2>1. \A ch \in changes : ch.channel # d
      BY <1>6, <1>8, <1>10
    <2>2. Shown(joined.rooms, d) = Shown(rs, d)
      BY <1>5, <1>6, <1>10 DEF Shown
    <2> HIDE DEF changes
    <2> QED BY <2>1, <2>2, ToldNothing
  <1>11. ASSUME NEW d \in Channels, d \in previous
         PROVE  TellsOf(rs, joined.rooms, changes, d)
    <2>1. left(d) \in changes /\ \A other \in changes : other.channel = d => other = left(d)
      BY <1>2, <1>6, <1>8, <1>11
    <2>2. Shown(joined.rooms, d) = Shown(evicted.rooms, d)
      BY <1>2, <1>6, <1>11
    <2> HIDE DEF changes
    <2>3. Says(left(d), d, leavers[d], EmptyMap, EmptyMap, OwnedBy(rs[d], leavers[d]),
               EmptyMap, DOMAIN rs[d].participants \ leavers[d] = {})
      BY <1>3
    <2>4. TellsOf(rs, Remove(rs, leavers, reason).rooms, changes, d)
      BY <1>2, <1>11, <2>1, <2>3, RemoveTellsOf
    <2>5. TellsOf(rs, evicted.rooms, changes, d)
      BY <2>4 DEF evicted
    <2> QED BY <2>2, <2>5, TellsOfSame
  <1>12. MusicInPlace(joined.rooms)
    BY <1>7 DEF Tells
  <1>13. \A d \in Channels : TellsOf(rs, joined.rooms, changes, d)
    BY <1>9, <1>10, <1>11
  <1> HIDE DEF changes
  <1>14. Tells(rs, result)
    BY <1>1, <1>12, <1>13 DEF Tells
  <1> QED BY <1>14 DEF result

\* The entries that differ, told as added and updated, lead from old to new.
LEMMA ChangedMembers ==
    ASSUME NEW old, NEW new, IsTable(new), NEW gone,
           DOMAIN new \cap DOMAIN old = DOMAIN old \ gone
    PROVE  LET rows == Changed(old, new)
           IN  new = MembersAfter(old, gone, Without(rows, DOMAIN old),
                                  Restrict(rows, DOMAIN rows \cap DOMAIN old))
  <1> DEFINE rows    == Changed(old, new)
             added   == Without(rows, DOMAIN old)
             updated == Restrict(rows, DOMAIN rows \cap DOMAIN old)
             left    == Without(old, gone)
             after   == MembersAfter(old, gone, added, updated)
  <1>1. /\ DOMAIN rows = {x \in DOMAIN new : x \notin DOMAIN old \/ old[x] # new[x]}
        /\ \A x \in DOMAIN rows : rows[x] = new[x]
    BY DEF Changed, Restrict
  <1> HIDE DEF rows
  <1>2. /\ DOMAIN added = DOMAIN rows \ DOMAIN old
        /\ \A x \in DOMAIN added : added[x] = rows[x]
    BY DEF Without, Restrict
  <1>3. /\ DOMAIN updated = DOMAIN rows \cap DOMAIN old
        /\ \A x \in DOMAIN updated : updated[x] = rows[x]
    BY DEF Restrict
  <1>4. /\ DOMAIN left = DOMAIN old \ gone
        /\ \A x \in DOMAIN left : left[x] = old[x]
    BY DEF Without, Restrict
  <1> HIDE DEF added, updated, left
  <1> DEFINE came == [x \in DOMAIN left \cup DOMAIN added |->
                         IF x \in DOMAIN added THEN added[x] ELSE left[x]]
  <1>5. after = [x \in DOMAIN came |-> IF x \in DOMAIN updated THEN updated[x] ELSE came[x]]
    BY DEF MembersAfter, left
  <1>6. DOMAIN came = DOMAIN new
    BY <1>1, <1>2, <1>4
  <1>7. ASSUME NEW x \in DOMAIN new
        PROVE  (IF x \in DOMAIN updated THEN updated[x] ELSE came[x]) = new[x]
    BY <1>1, <1>2, <1>3, <1>4, <1>7
  <1> HIDE DEF came
  <1>8. after = [x \in DOMAIN new |-> new[x]]
    BY <1>5, <1>6, <1>7
  <1> QED BY <1>8 DEF IsTable, added, updated, rows

\* The same of tracks.
LEMMA ChangedTracks ==
    ASSUME NEW old, NEW new, IsTable(new)
    PROVE  new = TracksAfter(old, DOMAIN old \ DOMAIN new, Changed(old, new))
  <1> DEFINE rows  == Changed(old, new)
             kept  == Without(old, DOMAIN old \ DOMAIN new)
             after == TracksAfter(old, DOMAIN old \ DOMAIN new, rows)
  <1>1. /\ DOMAIN rows = {x \in DOMAIN new : x \notin DOMAIN old \/ old[x] # new[x]}
        /\ \A x \in DOMAIN rows : rows[x] = new[x]
    BY DEF Changed, Restrict
  <1>2. /\ DOMAIN kept = DOMAIN old \cap DOMAIN new
        /\ \A x \in DOMAIN kept : kept[x] = old[x]
    BY DEF Without, Restrict
  <1> HIDE DEF rows, kept
  <1>3. after = [x \in DOMAIN kept \cup DOMAIN rows |->
                    IF x \in DOMAIN rows THEN rows[x] ELSE kept[x]]
    BY DEF TracksAfter, kept
  <1>4. DOMAIN kept \cup DOMAIN rows = DOMAIN new
    BY <1>1, <1>2
  <1>5. \A x \in DOMAIN new : (IF x \in DOMAIN rows THEN rows[x] ELSE kept[x]) = new[x]
    BY <1>1, <1>2
  <1>6. after = [x \in DOMAIN new |-> new[x]]
    BY <1>3, <1>4, <1>5
  <1> QED BY <1>6 DEF IsTable, rows

\* What a reconcile makes of the tracks: music stays music, the rest is listed.
LEMMA ReconciledFacts ==
    ASSUME NEW rs, Good(rs), MusicInPlace(rs), NEW c \in Channels, NEW live \in LiveLists
    PROVE  LET old     == RoomOf(rs, c)
               members == ReconciledMembers(rs, c, live)
               tracks  == ReconciledTracks(rs, c, live)
           IN  /\ IsTable(members) /\ IsTable(tracks)
               /\ DOMAIN members = (Members(rs, c) \ Absentees(rs, c, live)) \cup DOMAIN live
               /\ DOMAIN members \cap DOMAIN old.participants
                    = DOMAIN old.participants \ Absentees(rs, c, live)
               /\ MusicKeyed(tracks)
               /\ \A t \in DOMAIN tracks : t = MusicSid \/ t \in LiveTracks(live)
               /\ LiveTracks(live) \subseteq DOMAIN tracks
  <1> DEFINE P       == RoomOf(rs, c).participants
             old     == RoomOf(rs, c).tracks
             members == ReconciledMembers(rs, c, live)
             tracks  == ReconciledTracks(rs, c, live)
             listed  == LiveTracks(live)
             kept    == {t \in DOMAIN old :
                            /\ old[t].owner \notin Absentees(rs, c, live)
                            /\ old[t].source = "music" \/ t \in listed}
             flag(t) == live[LiveOwner(live, t)].tracks[t]
             row(t)  == IF t \notin listed THEN old[t]
                        ELSE IF t \in kept THEN [old[t] EXCEPT !.muted = flag(t)]
                        ELSE AddedTrack(live, t)
  <1>1. /\ IsTable(members)
        /\ DOMAIN members = (DOMAIN P \ Absentees(rs, c, live)) \cup DOMAIN live
    BY DEF ReconciledMembers, IsTable
  <1>2. DOMAIN P = Members(rs, c) /\ Absentees(rs, c, live) \cap DOMAIN live = {}
    BY RoomFacts DEF Absentees
  <1>3. tracks = [t \in kept \cup listed |-> row(t)]
    BY DEF ReconciledTracks
  <1>4. IsMap(old, TrackKeys, GoodTracks(Members(rs, c))) /\ MusicKeyed(old)
    BY RoomFacts, RoomTables
  <1> HIDE DEF P, members, old, listed
  <1>5. ASSUME NEW t \in kept \cup listed PROVE row(t).source = "music" => t = MusicSid
    <2>1. CASE t \notin listed
      BY <1>4, <1>5, <2>1 DEF MusicKeyed
    <2>2. CASE t \in listed /\ t \in kept
      <3>1. old[t] \in Track
        BY <1>4, <2>2 DEF IsMap, GoodTracks
      <3>2. [old[t] EXCEPT !.muted = flag(t)].source = old[t].source
        BY <3>1 DEF Track
      <3> QED BY <1>4, <2>2, <3>2 DEF MusicKeyed
    <2>3. CASE t \in listed /\ t \notin kept
      BY <2>3 DEF AddedTrack, NewTrack
    <2> QED BY <2>1, <2>2, <2>3
  <1>6. \A t \in kept : t = MusicSid \/ t \in listed
    BY <1>4 DEF MusicKeyed
  <1> HIDE DEF kept, row, tracks
  <1>7. IsTable(tracks) /\ DOMAIN tracks = kept \cup listed /\ MusicKeyed(tracks)
    BY <1>3, <1>5 DEF IsTable, MusicKeyed
  <1>8. /\ IsTable(members) /\ IsTable(tracks)
        /\ DOMAIN members = (Members(rs, c) \ Absentees(rs, c, live)) \cup DOMAIN live
        /\ DOMAIN members \cap DOMAIN P = DOMAIN P \ Absentees(rs, c, live)
        /\ MusicKeyed(tracks)
        /\ \A t \in DOMAIN tracks : t = MusicSid \/ t \in listed
        /\ listed \subseteq DOMAIN tracks
    BY <1>1, <1>2, <1>6, <1>7
  <1> QED BY <1>8 DEF P, members, tracks, listed

\* No tracks are listed of a room LiveKit lists nobody in.
LEMMA NobodyListed == ASSUME NEW live, DOMAIN live = {} PROVE LiveTracks(live) = {}
  BY DEF LiveTracks

\* reconcile_room tells one change that leads from the room to the reported one.
LEMMA ReconcileTells ==
    ASSUME NEW rs, Good(rs), MusicInPlace(rs), NEW c \in Channels, NEW live \in LiveLists
    PROVE  Tells(rs, ReconcileRoom(rs, c, live))
  <1> DEFINE room    == RoomOf(rs, c)
             members == ReconciledMembers(rs, c, live)
             tracks  == ReconciledTracks(rs, c, live)
             rows    == Changed(room.participants, members)
             absent  == Absentees(rs, c, live)
             added   == Without(rows, DOMAIN room.participants)
             updated == Restrict(rows, DOMAIN rows \cap DOMAIN room.participants)
             more    == Changed(room.tracks, tracks)
             fewer   == DOMAIN room.tracks \ DOMAIN tracks
             closed  == DOMAIN members = {}
             change  == [Change(rs, c, "reconcile.added") EXCEPT
                            !.added         = added,
                            !.updated       = updated,
                            !.removed       = absent,
                            !.tracksAdded   = more,
                            !.tracksRemoved = fewer,
                            !.closed        = closed]
             ch      == [change EXCEPT !.after = RoomOf(rs, c).version + 1]
             applied == Accept(rs, c, 1, members, tracks, change)
             result  == ReconcileRoom(rs, c, live)
             same    == members = room.participants /\ tracks = room.tracks
  <1>1. result = IF same THEN [rooms |-> Put(rs, c, room), changes |-> {}]
                 ELSE [applied EXCEPT !.rooms =
                          IF closed THEN Without(@, {c}) ELSE @]
    BY DEF ReconcileRoom
  <1>2. /\ IsTable(members) /\ IsTable(tracks) /\ MusicKeyed(tracks)
        /\ DOMAIN members = (Members(rs, c) \ absent) \cup DOMAIN live
        /\ DOMAIN members \cap DOMAIN room.participants = DOMAIN room.participants \ absent
        /\ \A t \in DOMAIN tracks : t = MusicSid \/ t \in LiveTracks(live)
    BY ReconciledFacts
  <1>3. Says(ch, c, absent, added, updated, fewer, more, closed) /\ closed \in BOOLEAN
    BY DEF Says, Change
  <1>4. CASE same
    <2> DEFINE rs2 == Put(rs, c, room)
    <2>1. result.rooms = rs2 /\ result.changes = {}
      BY <1>1, <1>4
    <2>2. \A d : RoomOf(rs2, d) = RoomOf(rs, d)
      BY DEF Put, RoomOf
    <2>3. MusicInPlace(rs2)
      <3>1. MusicKeyed(room.tracks)
        BY RoomTables
      <3> QED BY <3>1 DEF MusicInPlace, Put
    <2> HIDE DEF rs2, result
    <2>4. \A d \in Channels : TellsOf(rs, rs2, {}, d)
      BY <2>2, ToldNothing DEF Shown
    <2>5. Tells(rs, result)
      BY <2>1, <2>3, <2>4 DEF Tells
    <2> QED BY <2>5 DEF result
  <1>5. CASE ~same
    <2> DEFINE rs2 == result.rooms
    <2>1. /\ applied.changes = {ch}
          /\ DOMAIN applied.rooms = DOMAIN rs \cup {c}
          /\ applied.rooms[c].participants = members /\ applied.rooms[c].tracks = tracks
          /\ \A d \in DOMAIN rs \ {c} : applied.rooms[d] = rs[d]
          /\ applied = [rooms |-> applied.rooms, changes |-> applied.changes]
      BY DEF Accept, Put
    <2> HIDE DEF applied, ch, members, tracks
    <2>2. /\ result.changes = {ch}
          /\ rs2 = IF closed THEN Without(applied.rooms, {c}) ELSE applied.rooms
      BY <1>1, <1>5, <2>1
    <2> HIDE DEF result
    <2>3. /\ \A d \in DOMAIN rs \ {c} : d \in DOMAIN rs2 /\ rs2[d] = rs[d]
          /\ DOMAIN rs2 \subseteq DOMAIN rs \cup {c}
          /\ closed => c \notin DOMAIN rs2
          /\ ~closed => /\ c \in DOMAIN rs2
                        /\ rs2[c].participants = members /\ rs2[c].tracks = tracks
      <3>1. CASE closed
        BY <2>1, <2>2, <3>1 DEF Without, Restrict
      <3>2. CASE ~closed
        BY <2>1, <2>2, <3>2
      <3> QED BY <3>1, <3>2
    <2> HIDE DEF rs2
    <2>4. MusicInPlace(rs2)
      BY <1>2, <2>3 DEF MusicInPlace
    <2>5. closed => members = EmptyMap /\ Without(tracks, {MusicSid}) = EmptyMap
      <3> SUFFICES ASSUME closed
                   PROVE  members = EmptyMap /\ Without(tracks, {MusicSid}) = EmptyMap
        OBVIOUS
      <3>1. members = EmptyMap
        BY <1>2, NoKeys
      <3>2. LiveTracks(live) = {}
        BY <1>2, NobodyListed
      <3>3. DOMAIN Without(tracks, {MusicSid}) = DOMAIN tracks \ {MusicSid}
            /\ IsTable(Without(tracks, {MusicSid}))
        BY Departures
      <3>4. DOMAIN tracks \ {MusicSid} = {}
        BY <1>2, <3>2
      <3>5. Without(tracks, {MusicSid}) = EmptyMap
        BY <3>3, <3>4, NoKeys
      <3> QED BY <3>1, <3>5
    <2>6. /\ RoomOf(rs2, c).participants = members
          /\ IF closed THEN RoomOf(rs2, c).tracks = Without(tracks, {MusicSid})
             ELSE RoomOf(rs2, c).tracks = tracks
      <3>1. CASE closed
        BY <2>3, <2>5, <3>1 DEF RoomOf, EmptyRoom
      <3>2. CASE ~closed
        BY <2>3, <3>2 DEF RoomOf
      <3> QED BY <3>1, <3>2
    <2>7. members = MembersAfter(room.participants, absent, added, updated)
      BY <1>2, ChangedMembers
    <2>8. tracks = TracksAfter(room.tracks, fewer, more)
      BY <1>2, ChangedTracks
    <2> HIDE DEF closed, added, updated, more, fewer, absent, rows, change
    <2>9. Says(ch, c, absent, added, updated, fewer, more, closed) /\ closed \in BOOLEAN
      BY <1>3
    <2>10. TellsOf(rs, rs2, {ch}, c)
      <3>1. RoomOf(rs2, c).participants
              = MembersAfter(RoomOf(rs, c).participants, absent, added, updated)
        BY <2>6, <2>7
      <3>2. tracks = TracksAfter(RoomOf(rs, c).tracks, fewer, more)
        BY <2>8
      <3>3. ch \in {ch} /\ \A other \in {ch} : other.channel = c => other = ch
        OBVIOUS
      <3> HIDE DEF room
      <3> QED BY <2>6, <2>9, <3>1, <3>2, <3>3, ToldOnce
    <2>11. ASSUME NEW d \in Channels, d # c PROVE TellsOf(rs, rs2, {ch}, d)
      <3>1. Shown(rs2, d) = Shown(rs, d)
        BY <2>3, <2>11 DEF Shown, RoomOf
      <3>2. ch.channel # d
        BY <2>9, <2>11 DEF Says
      <3> QED BY <3>1, <3>2, ToldNothing
    <2>12. Tells(rs, result)
      BY <2>2, <2>4, <2>10, <2>11 DEF Tells, rs2
    <2> QED BY <2>12 DEF result
  <1> QED BY <1>4, <1>5

\* The change that closes a room tells that everything in it is gone.
LEMMA ClosingSays ==
    ASSUME NEW rs, NEW c, NEW reason
    PROVE  Says(Closing(rs, c, reason), c, DOMAIN rs[c].participants, EmptyMap, EmptyMap,
                DOMAIN rs[c].tracks, EmptyMap, TRUE)
  BY DEF Says, Closing, Change

\* close_channel and reconcile_prune.
LEMMA CloseTells ==
    ASSUME NEW rs, Good(rs), MusicInPlace(rs), NEW cs, NEW reason
    PROVE  Tells(rs, CloseChannels(rs, cs, reason))
  <1> DEFINE rs2     == Without(rs, cs)
             changes == {Closing(rs, c, reason) : c \in cs \cap DOMAIN rs}
  <1>1. /\ DOMAIN rs2 = DOMAIN rs \ cs
        /\ \A d \in DOMAIN rs \ cs : rs2[d] = rs[d]
    BY DEF Without, Restrict
  <1>2. \A d : Closing(rs, d, reason).channel = d
    BY DEF Closing, Change
  <1> HIDE DEF rs2
  <1>3. ASSUME NEW c \in Channels, c \in cs \cap DOMAIN rs
        PROVE  TellsOf(rs, rs2, changes, c)
    <2> DEFINE P    == rs[c].participants
               T    == rs[c].tracks
               left == Without(T, DOMAIN T)
               ch   == Closing(rs, c, reason)
    <2>1. RoomOf(rs, c) = rs[c] /\ RoomOf(rs2, c) = EmptyRoom
      BY <1>1, <1>3 DEF RoomOf
    <2>2. Says(ch, c, DOMAIN P, EmptyMap, EmptyMap, DOMAIN T, EmptyMap, TRUE)
      BY ClosingSays
    <2>3. ch \in changes /\ \A other \in changes : other.channel = c => other = ch
      BY <1>2, <1>3
    <2> HIDE DEF P, T, ch, changes
    <2>4. /\ MembersAfter(P, DOMAIN P, EmptyMap, EmptyMap) = EmptyMap
          /\ TracksAfter(T, DOMAIN T, EmptyMap) = EmptyMap
      <3>1. \A f : IsTable(Without(f, DOMAIN f)) /\ DOMAIN Without(f, DOMAIN f) = {}
        BY DEF IsTable, Without, Restrict
      <3>2. ASSUME NEW f PROVE Without(f, DOMAIN f) = EmptyMap
        <4> DEFINE g == Without(f, DOMAIN f)
        <4>1. IsTable(g) /\ DOMAIN g = {}
          BY <3>1
        <4> HIDE DEF g
        <4>2. g = EmptyMap
          BY <4>1, NoKeys
        <4> QED BY <4>2 DEF g
      <3>3. MembersAfter(P, DOMAIN P, EmptyMap, EmptyMap) = Without(P, DOMAIN P)
        BY Departures
      <3>4. TracksAfter(T, DOMAIN T, EmptyMap) = Without(T, DOMAIN T)
        BY Departures
      <3> QED BY <3>2, <3>3, <3>4
    <2>5. Without(EmptyMap, {MusicSid}) = EmptyMap
      BY DEF Without, Restrict, EmptyMap
    <2>6. /\ EmptyMap = TracksAfter(RoomOf(rs, c).tracks, DOMAIN T, EmptyMap)
          /\ RoomOf(rs2, c).participants
               = MembersAfter(RoomOf(rs, c).participants, DOMAIN P, EmptyMap, EmptyMap)
          /\ RoomOf(rs2, c).tracks = Without(EmptyMap, {MusicSid})
      BY <2>1, <2>4, <2>5 DEF EmptyRoom, P, T
    <2>7. PICK closed \in BOOLEAN : closed
      OBVIOUS
    <2>8. PICK none : none = EmptyMap
      OBVIOUS
    <2>9. Says(ch, c, DOMAIN P, none, none, DOMAIN T, none, closed)
      BY <2>2, <2>7, <2>8
    <2>10. none = TracksAfter(RoomOf(rs, c).tracks, DOMAIN T, none)
      BY <2>6, <2>8
    <2>11. IF closed THEN RoomOf(rs2, c).tracks = Without(none, {MusicSid})
           ELSE RoomOf(rs2, c).tracks = none
      BY <2>6, <2>7, <2>8
    <2>12. RoomOf(rs2, c).participants
             = MembersAfter(RoomOf(rs, c).participants, DOMAIN P, none, none)
      BY <2>6, <2>8
    <2> QED BY <2>3, <2>9, <2>10, <2>11, <2>12, ToldOnce
  <1>4. ASSUME NEW c \in Channels, c \notin cs \cap DOMAIN rs
        PROVE  TellsOf(rs, rs2, changes, c)
    <2>1. Shown(rs2, c) = Shown(rs, c)
      BY <1>1, <1>4 DEF Shown, RoomOf
    <2>2. \A ch \in changes : ch.channel # c
      BY <1>2, <1>4
    <2> HIDE DEF changes
    <2> QED BY <2>1, <2>2, ToldNothing
  <1>5. MusicInPlace(rs2)
    BY <1>1 DEF MusicInPlace
  <1>6. CloseChannels(rs, cs, reason) = [rooms |-> rs2, changes |-> changes]
    BY DEF CloseChannels, rs2
  <1> HIDE DEF changes
  <1> QED BY <1>3, <1>4, <1>5, <1>6 DEF Tells

\* OnWire of a room, field by field.
LEMMA WireOf ==
    ASSUME NEW members, NEW tracks
    PROVE  OnWire([members |-> members, tracks |-> tracks])
             = [members |-> [u \in DOMAIN members |->
                                [sid |-> members[u].sid, audio |-> members[u].audio]],
                tracks  |-> tracks]
  BY DEF OnWire

\* The age of a provisional row is not on the wire.
LEMMA AgeTells ==
    ASSUME NEW rs, Good(rs), MusicInPlace(rs), NEW c \in DOMAIN rs,
           NEW u \in Members(rs, c)
    PROVE  /\ \A d \in Channels : TellsOf(rs, AgeRow(rs, c, u), {}, d)
           /\ MusicInPlace(AgeRow(rs, c, u))
  <1> DEFINE rs2 == AgeRow(rs, c, u)
             P   == rs[c].participants
             row == [P[u] EXCEPT !.since = "expired"]
             P2  == Put(P, u, row)
  <1>1. c \in Channels /\ RoomOf(rs, c) = rs[c] /\ u \in DOMAIN P
    BY DEF Good, RoomOf, Members
  <1>2. /\ DOMAIN rs2 = DOMAIN rs
        /\ rs2[c].participants = P2 /\ rs2[c].tracks = rs[c].tracks
        /\ \A d \in DOMAIN rs \ {c} : rs2[d] = rs[d]
    BY DEF AgeRow, Put
  <1>3. P[u] \in Participant
    BY <1>1, RowOfMember DEF GoodRows
  <1>4. row.sid = P[u].sid /\ row.audio = P[u].audio
    BY <1>3 DEF Participant
  <1> HIDE DEF rs2, row
  <1>5. DOMAIN P2 = DOMAIN P
        /\ \A v \in DOMAIN P : P2[v].sid = P[v].sid /\ P2[v].audio = P[v].audio
    BY <1>1, <1>4 DEF Put
  <1> HIDE DEF P2, P
  <1>6. OnWire(Shown(rs2, c)) = OnWire(Shown(rs, c))
    <2> DEFINE sent(f) == [v \in DOMAIN f |-> [sid |-> f[v].sid, audio |-> f[v].audio]]
    <2>1. Shown(rs2, c) = [members |-> P2, tracks |-> rs[c].tracks]
          /\ Shown(rs, c) = [members |-> P, tracks |-> rs[c].tracks]
      BY <1>1, <1>2 DEF Shown, RoomOf, P
    <2>2. OnWire(Shown(rs2, c)) = [members |-> sent(P2), tracks |-> rs[c].tracks]
          /\ OnWire(Shown(rs, c)) = [members |-> sent(P), tracks |-> rs[c].tracks]
      BY <2>1, WireOf
    <2>3. sent(P2) = sent(P)
      BY <1>5
    <2> QED BY <2>2, <2>3
  <1>7. \A d \in Channels : OnWire(Shown(rs2, d)) = OnWire(Shown(rs, d))
    <2>1. ASSUME NEW d, d # c PROVE Shown(rs2, d) = Shown(rs, d)
      BY <1>2, <2>1 DEF Shown, RoomOf
    <2> QED BY <1>6, <2>1
  <1>8. \A d \in Channels : TellsOf(rs, rs2, {}, d)
    BY <1>7, ToldNothing
  <1>9. MusicInPlace(rs2)
    BY <1>2 DEF MusicInPlace
  <1> QED BY <1>8, <1>9 DEF rs2
=============================================================================
