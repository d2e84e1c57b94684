------------------------- MODULE VoiceRegistryProofs -------------------------
(***************************************************************************)
(* The invariants of VoiceRegistryMachine, and what its calls may never    *)
(* do, for every set of channels, users, sessions and tracks.  The         *)
(* inductive invariant is Good, the conjunction of the invariants stated   *)
(* room by room: the members are a map into GoodRows, the tracks a map     *)
(* into the tracks whose owner is a member.  What the changes tell needs   *)
(* one fact more, that music rows have the music key (ToldInv).  The       *)
(* lemmas about the operations carry every step.                           *)
(***************************************************************************)
EXTENDS VoiceRegistryMachine, VoiceRegistryLemmas

-----------------------------------------------------------------------------
(* What a reconcile writes. *)

\* The room holds the reconciled members and, unless it is closed, the tracks.
LEMMA ReconcileWrites ==
    ASSUME NEW rs, NEW c, NEW live
    PROVE  LET members == ReconciledMembers(rs, c, live)
               tracks  == ReconciledTracks(rs, c, live)
               room    == RoomOf(ReconcileRoom(rs, c, live).rooms, c)
           IN  \/ (room.participants = members /\ room.tracks = tracks)
               \/ (DOMAIN members = {} /\ room = EmptyRoom)
  <1> DEFINE old     == RoomOf(rs, c)
             members == ReconciledMembers(rs, c, live)
             tracks  == ReconciledTracks(rs, c, live)
             result  == ReconcileRoom(rs, c, live)
             room    == RoomOf(result.rooms, c)
             applied(change) == Accept(rs, c, 1, members, tracks, change)
  <1>1. CASE members = old.participants /\ tracks = old.tracks
    <2>1. result.rooms = Put(rs, c, old)
      BY <1>1 DEF ReconcileRoom
    <2>2. RoomOf(Put(rs, c, old), c) = old
      BY DEF Put, RoomOf
    <2> QED BY <1>1, <2>1, <2>2
  <1>2. CASE ~(members = old.participants /\ tracks = old.tracks)
    <2>1. PICK change : result = [applied(change) EXCEPT !.rooms =
                                     IF DOMAIN members = {} THEN Without(@, {c}) ELSE @]
      BY <1>2 DEF ReconcileRoom
    <2>2. result.rooms = IF DOMAIN members = {} THEN Without(applied(change).rooms, {c})
                         ELSE applied(change).rooms
      <3>1. applied(change) = [rooms |-> applied(change).rooms,
                               changes |-> applied(change).changes]
        BY DEF Accept
      <3> HIDE DEF applied, members, result
      <3> QED BY <2>1, <3>1
    <2>3. /\ c \in DOMAIN applied(change).rooms
          /\ applied(change).rooms[c].participants = members
          /\ applied(change).rooms[c].tracks = tracks
      BY DEF Accept, Put
    <2> HIDE DEF applied, members, tracks, result
    <2>4. CASE DOMAIN members = {}
      <3>1. c \notin DOMAIN result.rooms
        BY <2>2, <2>4 DEF Without, Restrict
      <3>2. room = EmptyRoom
        BY <3>1 DEF RoomOf
      <3> QED BY <2>4, <3>2 DEF members, result
    <2>5. CASE DOMAIN members # {}
      <3>1. room.participants = members /\ room.tracks = tracks
        BY <2>2, <2>3, <2>5 DEF RoomOf
      <3> QED BY <3>1 DEF members, tracks, result
    <2> QED BY <2>4, <2>5
  <1> QED BY <1>1, <1>2

\* The user LiveKit lists a track under is the one whose session publishes it.
LEMMA ListedOwner ==
    ASSUME NEW live \in ReportedLists, NEW t \in LiveTracks(live)
    PROVE  LiveOwner(live, t) = TrackOwner(t)
  <1>1. LiveOwner(live, t) \in DOMAIN live
        /\ t \in DOMAIN live[LiveOwner(live, t)].tracks
    <2>1. PICK u \in DOMAIN live : t \in DOMAIN live[u].tracks
      BY DEF LiveTracks
    <2> QED BY <2>1 DEF LiveOwner
  <1>2. PICK u : u = LiveOwner(live, t)
    OBVIOUS
  <1>3. live[u].sid \in SidsOf(u) /\ TrackSession[t] = live[u].sid
    BY <1>1, <1>2 DEF ReportedLists
  <1> QED BY <1>2, <1>3 DEF SidsOf, TrackOwner

\* What reconcile_room makes of the members and the tracks is what LiveKit lists.
LEMMA ReconciledAsListed ==
    ASSUME NEW rs, Good(rs), NEW c \in Channels, NEW live \in ReportedLists
    PROVE  LET members == ReconciledMembers(rs, c, live)
               tracks  == ReconciledTracks(rs, c, live)
           IN  /\ \A u \in DOMAIN members :
                     IF u \in DOMAIN live THEN members[u].sid = live[u].sid
                     ELSE members[u].since = "fresh"
               /\ \A t \in LiveTracks(live) :
                     tracks[t].muted = live[TrackOwner(t)].tracks[t]
               /\ \A u \in Members(rs, c) \cap DOMAIN members :
                     members[u].audio = rs[c].participants[u].audio
  <1> DEFINE P       == RoomOf(rs, c).participants
             old     == RoomOf(rs, c).tracks
             members == ReconciledMembers(rs, c, live)
             tracks  == ReconciledTracks(rs, c, live)
             listed  == LiveTracks(live)
             row(u)  == IF u \notin DOMAIN live THEN P[u]
                        ELSE IF u \in DOMAIN P THEN Confirm(P[u], live[u].sid)
                        ELSE NewRow(live[u].sid)
  <1>1. /\ DOMAIN members = (DOMAIN P \ Absentees(rs, c, live)) \cup DOMAIN live
        /\ \A u \in DOMAIN members : members[u] = row(u)
    BY DEF ReconciledMembers
  <1>2. DOMAIN P = Members(rs, c)
    BY DEF Members
  <1>3. \A u \in Members(rs, c) : rs[c].participants[u] = P[u]
    BY DEF Members, RoomOf, EmptyRoom, EmptyMap
  <1>4. ASSUME NEW u \in DOMAIN members
        PROVE  /\ IF u \in DOMAIN live THEN members[u].sid = live[u].sid
                  ELSE members[u].since = "fresh"
               /\ u \in Members(rs, c) => members[u].audio = rs[c].participants[u].audio
    <2>1. members[u] = row(u)
      BY <1>1
    <2>2. CASE u \notin DOMAIN live
      <3>1. u \in DOMAIN P /\ u \notin Absentees(rs, c, live)
        BY <1>1, <2>2
      <3>2. P[u].since = "fresh"
        BY <1>2, <1>3, <2>2, <3>1 DEF Absentees
      <3> QED BY <1>3, <2>1, <2>2, <3>2
    <2>3. CASE u \in DOMAIN live
      <3>1. u \in DOMAIN P => row(u) = Confirm(P[u], live[u].sid)
        BY <2>3
      <3>2. u \notin DOMAIN P => row(u) = NewRow(live[u].sid)
        BY <2>3
      <3>3. row(u).sid = live[u].sid
        BY <3>1, <3>2 DEF Confirm, NewRow
      <3>4. u \in Members(rs, c) => row(u).audio = P[u].audio
        BY <1>2, <3>1 DEF Confirm
      <3> HIDE DEF row, members
      <3> QED BY <1>3, <2>1, <2>3, <3>3, <3>4
    <2> QED BY <2>2, <2>3
  <1>5. ASSUME NEW t \in listed PROVE tracks[t].muted = live[TrackOwner(t)].tracks[t]
    <2> DEFINE kept == {x \in DOMAIN old :
                            /\ old[x].owner \notin Absentees(rs, c, live)
                            /\ (old[x].source = "music" \/ x \in listed)}
               flag == live[LiveOwner(live, t)].tracks[t]
    <2>1. tracks[t] = IF t \in kept THEN [old[t] EXCEPT !.muted = flag]
                      ELSE AddedTrack(live, t)
      BY DEF ReconciledTracks
    <2>2. IsMap(old, TrackKeys, GoodTracks(Members(rs, c)))
      BY RoomFacts
    <2>3. LiveOwner(live, t) = TrackOwner(t)
      BY ListedOwner
    <2>4. CASE t \in kept
      <3> HIDE DEF old
      <3>1. old[t] \in Track
        BY <2>2, <2>4 DEF IsMap, GoodTracks
      <3>2. [old[t] EXCEPT !.muted = flag].muted = flag
        BY <3>1 DEF Track
      <3> QED BY <2>1, <2>3, <2>4, <3>2
    <2>5. CASE t \notin kept
      <3>1. AddedTrack(live, t).muted = flag
        BY DEF AddedTrack, NewTrack
      <3> HIDE DEF kept, flag, tracks
      <3>2. tracks[t].muted = flag
        BY <2>1, <2>5, <3>1
      <3> QED BY <2>3, <3>2 DEF flag
    <2> QED BY <2>4, <2>5
  <1> QED BY <1>4, <1>5

\* All that ReconcileConverges says of one reconcile.
Converged(rs, rs2, c, live) ==
    LET room == RoomOf(rs2, c)
    IN  /\ DOMAIN live \subseteq Members(rs2, c)
        /\ \A u \in Members(rs2, c) :
              IF u \in DOMAIN live THEN room.participants[u].sid = live[u].sid
              ELSE room.participants[u].since = "fresh"
        /\ DOMAIN room.tracks \ {MusicSid} = LiveTracks(live)
        /\ \A t \in LiveTracks(live) :
              room.tracks[t].muted = live[TrackOwner(t)].tracks[t]
        /\ \A u \in Members(rs, c) \cap Members(rs2, c) :
              room.participants[u].audio = rs[c].participants[u].audio

\* reconcile_room leaves the room as LiveKit listed it.
LEMMA ReconciledConverges ==
    ASSUME NEW rs, Good(rs), MusicInPlace(rs), NEW c \in Channels,
           NEW live \in ReportedLists
    PROVE  Converged(rs, ReconcileRoom(rs, c, live).rooms, c, live)
  <1> DEFINE members == ReconciledMembers(rs, c, live)
             tracks  == ReconciledTracks(rs, c, live)
             rs2     == ReconcileRoom(rs, c, live).rooms
             room    == RoomOf(rs2, c)
             listed  == LiveTracks(live)
  <1>1. live \in LiveLists
    BY DEF ReportedLists
  <1>2. /\ DOMAIN live \subseteq DOMAIN members
        /\ \A t \in DOMAIN tracks : t = MusicSid \/ t \in listed
        /\ listed \subseteq DOMAIN tracks
    <2>1. DOMAIN live \subseteq DOMAIN members
      BY DEF ReconciledMembers
    <2>2. \A t \in DOMAIN tracks : t = MusicSid \/ t \in listed
      BY <1>1, ReconciledFacts
    <2>3. listed \subseteq DOMAIN tracks
      BY <1>1, ReconciledFacts
    <2> HIDE DEF members
    <2> QED BY <2>1, <2>2, <2>3
  <1>3. \A t \in listed : t # MusicSid
    BY <1>1, LiveFacts, RegistryAssumption
  <1>4. /\ \A u \in DOMAIN members :
              IF u \in DOMAIN live THEN members[u].sid = live[u].sid
              ELSE members[u].since = "fresh"
        /\ \A t \in listed : tracks[t].muted = live[TrackOwner(t)].tracks[t]
        /\ \A u \in Members(rs, c) \cap DOMAIN members :
              members[u].audio = rs[c].participants[u].audio
    BY ReconciledAsListed
  <1>5. \/ (room.participants = members /\ room.tracks = tracks)
        \/ (DOMAIN members = {} /\ room = EmptyRoom)
    BY ReconcileWrites
  <1>6. Members(rs2, c) = DOMAIN room.participants
    BY DEF Members
  <1> HIDE DEF members, tracks, rs2, listed
  <1>7. CASE room.participants = members /\ room.tracks = tracks
    <2>1. DOMAIN room.tracks \ {MusicSid} = listed
      BY <1>2, <1>3, <1>7
    <2> HIDE DEF room
    <2> QED BY <1>2, <1>4, <1>6, <1>7, <2>1 DEF Converged, room, rs2, listed
  <1>8. CASE DOMAIN members = {} /\ room = EmptyRoom
    <2>1. DOMAIN live = {} /\ listed = {}
      BY <1>2, <1>8, NobodyListed DEF listed
    <2>2. DOMAIN room.participants = {} /\ DOMAIN room.tracks = {}
      BY <1>8 DEF EmptyRoom, EmptyMap
    <2> HIDE DEF room
    <2> QED BY <1>6, <2>1, <2>2 DEF Converged, room, rs2, listed
  <1> QED BY <1>5, <1>7, <1>8

-----------------------------------------------------------------------------
(* The theorems. *)

IInv == Good(rooms)

\* The inductive invariant says what the three invariants of the runs say.
LEMMA GoodIsSafe ==
    ASSUME Good(rooms)
    PROVE  TypeOK /\ ProvisionalHasClock /\ TracksHaveMembers
  <1>2. TypeOK
    BY GoodIsRegistry DEF TypeOK
  <1>3. ProvisionalHasClock
    BY DEF ProvisionalHasClock, Good, GoodRoom, IsMap, GoodRows
  <1>4. TracksHaveMembers
    BY DEF TracksHaveMembers, Good, GoodRoom, IsMap, GoodTracks
  <1> QED BY <1>2, <1>3, <1>4

\* The registry starts empty.
LEMMA InitGood == Init => Good(rooms)
  BY DEF Init, Good, EmptyMap

\* Every call, and the clock, keep the inductive invariant.
LEMMA StepGood == Good(rooms) /\ [Next]_vars => Good(rooms')
  <1> SUFFICES ASSUME Good(rooms), [Next]_vars PROVE Good(rooms')
    OBVIOUS
  <1>1. ASSUME NEW c \in Channels, NEW u \in Users, ParticipantJoined(c, u)
        PROVE  Good(rooms')
    BY <1>1, JoinedExclusiveGood DEF ParticipantJoined, Do, SidsOf
  <1>2. ASSUME NEW c \in Channels, NEW u \in Users, ParticipantLeft(c, u)
        PROVE  Good(rooms')
    BY <1>2, LeftGood DEF ParticipantLeft, Do
  <1>3. ASSUME NEW c \in Channels, NEW u \in Users, TrackPublished(c, u)
        PROVE  Good(rooms')
    BY <1>3, PublishedGood, MachineAssumption DEF TrackPublished, Do, TracksOf
  <1>4. ASSUME NEW c \in Channels, NEW u \in Users, TrackHint(c, u)
        PROVE  Good(rooms')
    BY <1>4, TrackHintGood, UnpublishedGood DEF TrackHint, Do, TracksOf
  <1>5. ASSUME NEW c \in Channels, NEW u \in Users, Joining(c, u)
        PROVE  Good(rooms')
    BY <1>5, JoiningGood DEF Joining, Do, SidsOf
  <1>6. ASSUME NEW c \in Channels, NEW u \in Users, Leaving(c, u)
        PROVE  Good(rooms')
    BY <1>6, LeftGood DEF Leaving, Do
  <1>7. ASSUME NEW c \in Channels, NEW u \in Users, AudioState(c, u)
        PROVE  Good(rooms')
    BY <1>7, AudioGood DEF AudioState, Do
  <1>8. ASSUME NEW c \in Channels, NEW u \in Users, Age(c, u)
        PROVE  Good(rooms')
    BY <1>8, AgedGood DEF Age
  <1>9. ASSUME NEW c \in Channels, NEW t \in TrackSids,
               TrackUnpublished(c, t) \/ TrackMuted(c, t)
        PROVE  Good(rooms')
    BY <1>9, UnpublishedGood, MutedGood DEF TrackUnpublished, TrackMuted, Do
  <1>10. ASSUME NEW c \in Channels, Reconcile(c)
         PROVE  Good(rooms')
    BY <1>10, ReconciledGood DEF Reconcile, Do, ReportedLists
  <1>11. ASSUME NEW c \in Channels, MusicRow(c)
         PROVE  Good(rooms')
    BY <1>11, MusicGood DEF MusicRow, Do
  <1>12. ASSUME NEW c \in Channels, Close(c)
         PROVE  Good(rooms')
    BY <1>12, WithoutGood DEF Close, Do, CloseChannel, CloseChannels
  <1>13. CASE Prune
    BY <1>13, WithoutGood DEF Prune, Do, ReconcilePrune, CloseChannels
  <1>14. CASE Expire
    BY <1>14, ExpiredGood DEF Expire, Do
  <1>15. CASE UNCHANGED vars
    BY <1>15 DEF vars
  <1> QED
    BY <1>1, <1>2, <1>3, <1>4, <1>5, <1>6, <1>7, <1>8, <1>9, <1>10, <1>11, <1>12,
       <1>13, <1>14, <1>15 DEF Next

\* Hence it holds throughout every behaviour.
LEMMA AlwaysGood == Spec => []IInv
  <1>1. Init => IInv
    BY InitGood DEF IInv
  <1>2. IInv /\ [Next]_vars => IInv'
    BY StepGood DEF IInv
  <1> QED BY <1>1, <1>2, PTL DEF Spec

\* Whatever the calls and their order, rooms hold well-formed rows under
\* known keys.
THEOREM RegistryType == Spec => []TypeOK
  BY AlwaysGood, GoodIsSafe, PTL DEF IInv

\* A row lacks a session exactly while its provisional clock runs, so the
\* expiry tick never takes a confirmed member.
THEOREM ExpiryOnlyTakesProvisional == Spec => []ProvisionalHasClock
  BY AlwaysGood, GoodIsSafe, PTL DEF IInv

\* No track row outlives its owner's membership, music rows aside.
THEOREM NoOrphanTracks == Spec => []TracksHaveMembers
  BY AlwaysGood, GoodIsSafe, PTL DEF IInv

-----------------------------------------------------------------------------
(* What a call may never do. *)

\* A step whose call is a client's, or the expiry tick's, keeps everyone.
LEMMA ClientStepKeeps ==
    ASSUME Good(rooms), Next,
           call'[1] \in {"joining", "leaving", "trackHint", "audio", "music", "expire"}
    PROVE  Keeps(rooms, rooms')
  <1>1. ASSUME NEW c \in Channels, NEW u \in Users, ParticipantJoined(c, u)
        PROVE  FALSE
    BY <1>1 DEF ParticipantJoined, Do
  <1>2. ASSUME NEW c \in Channels, NEW u \in Users, ParticipantLeft(c, u)
        PROVE  FALSE
    BY <1>2 DEF ParticipantLeft, Do
  <1>3. ASSUME NEW c \in Channels, NEW u \in Users, TrackPublished(c, u)
        PROVE  FALSE
    BY <1>3 DEF TrackPublished, Do
  <1>4. ASSUME NEW c \in Channels, NEW u \in Users, TrackHint(c, u)
        PROVE  Keeps(rooms, rooms')
    BY <1>4, TrackCallsKeep DEF TrackHint, Do
  <1>5. ASSUME NEW c \in Channels, NEW u \in Users, Joining(c, u)
        PROVE  Keeps(rooms, rooms')
    BY <1>5, JoiningKeeps DEF Joining, Do
  <1>6. ASSUME NEW c \in Channels, NEW u \in Users, Leaving(c, u)
        PROVE  Keeps(rooms, rooms')
    BY <1>6, LeavingKeeps DEF Leaving, Do
  <1>7. ASSUME NEW c \in Channels, NEW u \in Users, AudioState(c, u)
        PROVE  Keeps(rooms, rooms')
    BY <1>7, AudioKeeps DEF AudioState, Do
  <1>8. ASSUME NEW c \in Channels, NEW u \in Users, Age(c, u)
        PROVE  FALSE
    BY <1>8 DEF Age
  <1>9. ASSUME NEW c \in Channels, NEW t \in TrackSids,
               TrackUnpublished(c, t) \/ TrackMuted(c, t)
        PROVE  FALSE
    BY <1>9 DEF TrackUnpublished, TrackMuted, Do
  <1>10. ASSUME NEW c \in Channels, Reconcile(c) \/ Close(c) PROVE FALSE
    BY <1>10 DEF Reconcile, Close, Do
  <1>11. ASSUME NEW c \in Channels, MusicRow(c) PROVE Keeps(rooms, rooms')
    BY <1>11, TrackCallsKeep DEF MusicRow, Do
  <1>12. ASSUME Prune PROVE FALSE
    BY <1>12 DEF Prune, Do
  <1>13. ASSUME Expire PROVE Keeps(rooms, rooms')
    BY <1>13, ExpireKeeps DEF Expire, Do
  <1> QED
    BY <1>1, <1>2, <1>3, <1>4, <1>5, <1>6, <1>7, <1>8, <1>9, <1>10, <1>11,
       <1>12, <1>13 DEF Next

\* INV-A1: no sequence of calls lets a WebSocket operation or the expiry tick
\* remove a confirmed member, or give one another session.
THEOREM NoClientEviction == Spec => ClientsNeverEvictConfirmed
  <1>1. IInv /\ [Next]_vars =>
            [call'[1] \in {"joining", "leaving", "trackHint", "audio", "music", "expire"} =>
                \A c \in DOMAIN rooms : \A u \in Members(rooms, c) :
                    LET row == rooms[c].participants[u]
                    IN  ~IsProvisional(row) =>
                            /\ u \in Members(rooms', c)
                            /\ rooms'[c].participants[u].sid = row.sid]_vars
    BY ClientStepKeeps DEF IInv, Keeps, vars
  <1> QED BY <1>1, AlwaysGood, PTL DEF Spec, ClientsNeverEvictConfirmed

\* An authoritative join leaves its user in that channel and no other, however
\* many rooms, confirmed or provisional, listed it before.
THEOREM JoinsAreExclusive == Spec => JoinIsExclusive
  <1>1. [Next]_vars =>
            [call'[1] = "joined" =>
                \A c \in Channels : call'[3] \in Members(rooms', c) => c = call'[2]]_vars
    <2> SUFFICES ASSUME Next, call'[1] = "joined", NEW d \in Channels, d # call'[2]
                 PROVE  call'[3] \notin Members(rooms', d)
      BY DEF vars
    <2>1. PICK c \in Channels, u \in Users : ParticipantJoined(c, u)
      BY DEF Next, Do, ParticipantLeft, TrackPublished, TrackHint, Joining, Leaving,
             AudioState, Age, TrackUnpublished, TrackMuted, Reconcile, MusicRow,
             Close, Prune, Expire
    <2>2. PICK s \in SidsOf(u) :
              Do(<<"joined", c, u, s>>, WebhookParticipantJoinedExclusive(rooms, c, u, s))
      BY <2>1 DEF ParticipantJoined
    <2>3. call'[2] = c /\ call'[3] = u
          /\ rooms' = WebhookParticipantJoinedExclusive(rooms, c, u, s).rooms
      BY <2>2 DEF Do
    <2> QED BY <2>3, ExclusiveJoin
  <1> QED BY <1>1, PTL DEF Spec, JoinIsExclusive

-----------------------------------------------------------------------------
(* What the changes of a call tell, and what a reconcile leaves. *)

ToldInv == Good(rooms) /\ MusicInPlace(rooms)

\* Every step tells all it does, and leaves the music rows under their key.
LEMMA StepTells ==
    ASSUME ToldInv, Next
    PROVE  /\ \A c \in Channels : TellsOf(rooms, rooms', emitted', c)
           /\ MusicInPlace(rooms')
  <1> USE DEF ToldInv
  <1> DEFINE Told == /\ \A c \in Channels : TellsOf(rooms, rooms', emitted', c)
                     /\ MusicInPlace(rooms')
  <1>1. ASSUME NEW name, NEW result, Do(name, result), Tells(rooms, result) PROVE Told
    BY <1>1 DEF Do, Tells
  <1> HIDE DEF Told
  <1>2. ASSUME NEW c \in Channels, NEW u \in Users,
               \/ ParticipantJoined(c, u) \/ ParticipantLeft(c, u)
               \/ Joining(c, u) \/ Leaving(c, u)
        PROVE  Told
    BY <1>1, <1>2, ExclusiveTells, LeaversTell, JoiningTells
    DEF ParticipantJoined, ParticipantLeft, Joining, Leaving, SidsOf
  <1>3. ASSUME NEW c \in Channels, NEW u \in Users,
               TrackPublished(c, u) \/ TrackHint(c, u) \/ AudioState(c, u)
        PROVE  Told
    BY <1>1, <1>3, PublishedTells, TrackCallsTell, AudioTells
    DEF TrackPublished, TrackHint, AudioState
  <1>4. ASSUME NEW c \in Channels, NEW u \in Users, Age(c, u) PROVE Told
    BY <1>4, AgeTells DEF Age, Told
  <1>5. ASSUME NEW c \in Channels, NEW t \in TrackSids,
               TrackUnpublished(c, t) \/ TrackMuted(c, t)
        PROVE  Told
    BY <1>1, <1>5, TrackCallsTell, MutedTells DEF TrackUnpublished, TrackMuted
  <1>6. ASSUME NEW c \in Channels, Reconcile(c) PROVE Told
    BY <1>1, <1>6, ReconcileTells DEF Reconcile, ReportedLists
  <1>7. ASSUME NEW c \in Channels, MusicRow(c) \/ Close(c) PROVE Told
    BY <1>1, <1>7, TrackCallsTell, CloseTells DEF MusicRow, Close, CloseChannel
  <1>8. ASSUME Prune \/ Expire PROVE Told
    BY <1>1, <1>8, CloseTells, LeaversTell DEF Prune, Expire, ReconcilePrune
  <1>9. Told
    BY <1>2, <1>3, <1>4, <1>5, <1>6, <1>7, <1>8 DEF Next
  <1> QED BY <1>9 DEF Told

\* Hence both hold throughout every behaviour.
LEMMA AlwaysTold == Spec => []ToldInv
  <1>1. Init => ToldInv
    BY InitGood DEF Init, ToldInv, MusicInPlace, EmptyMap
  <1>2. ToldInv /\ [Next]_vars => ToldInv'
    <2> SUFFICES ASSUME ToldInv, [Next]_vars PROVE ToldInv'
      OBVIOUS
    <2>1. Good(rooms')
      BY StepGood DEF ToldInv
    <2>2. CASE Next
      BY <2>1, <2>2, StepTells DEF ToldInv
    <2>3. CASE UNCHANGED vars
      BY <2>3 DEF ToldInv, vars
    <2> QED BY <2>2, <2>3
  <1> QED BY <1>1, <1>2, PTL DEF Spec

\* A client that applies every change in order shows the server's rooms: what
\* a call hands to publish_room_change says all it did to members and tracks.
THEOREM ChangesTellAll == Spec => DeltasReplayTheRooms
  <1>1. ToldInv /\ [Next]_vars =>
            [\A c \in Channels :
                LET told  == {ch \in emitted' : ch.channel = c}
                    quiet == IF \E ch \in told : ch.closed THEN {MusicSid} ELSE {}
                    seen  == IF told = {} THEN Shown(rooms, c)
                             ELSE Replay(Shown(rooms, c), CHOOSE ch \in told : TRUE)
                IN  OnWire(Shown(rooms', c)) =
                      OnWire([seen EXCEPT !.tracks = Without(@, quiet)])]_vars
    BY StepTells DEF TellsOf, vars
  <1> QED BY <1>1, AlwaysTold, PTL DEF Spec, DeltasReplayTheRooms

\* After a reconcile the room is what LiveKit listed, but for the guesses that
\* are still fresh, the music row and what only Tupi knows.
THEOREM ReconcileIsExact == Spec => ReconcileConverges
  <1>1. ToldInv /\ [Next]_vars =>
            [call'[1] = "reconcile" =>
                LET c == call'[2]
                    live == call'[3]
                    room == RoomOf(rooms', c)
                IN  /\ DOMAIN live \subseteq Members(rooms', c)
                    /\ \A u \in Members(rooms', c) :
                          IF u \in DOMAIN live THEN room.participants[u].sid = live[u].sid
                          ELSE room.participants[u].since = "fresh"
                    /\ DOMAIN room.tracks \ {MusicSid} = LiveTracks(live)
                    /\ \A t \in LiveTracks(live) :
                          room.tracks[t].muted = live[TrackOwner(t)].tracks[t]
                    /\ \A u \in Members(rooms, c) \cap Members(rooms', c) :
                          room.participants[u].audio
                            = rooms[c].participants[u].audio]_vars
    <2> SUFFICES ASSUME ToldInv, Next, call'[1] = "reconcile"
                 PROVE  Converged(rooms, rooms', call'[2], call'[3])
      BY DEF Converged, vars
    <2>1. PICK c \in Channels : Reconcile(c)
      BY DEF Next, Do, ParticipantJoined, ParticipantLeft, TrackPublished, TrackHint,
             Joining, Leaving, AudioState, Age, TrackUnpublished, TrackMuted, MusicRow,
             Close, Prune, Expire
    <2>2. PICK live \in ReportedLists :
              Do(<<"reconcile", c, live>>, ReconcileRoom(rooms, c, live))
      BY <2>1 DEF Reconcile
    <2>3. call'[2] = c /\ call'[3] = live
          /\ rooms' = ReconcileRoom(rooms, c, live).rooms
      BY <2>2 DEF Do
    <2> QED BY <2>3, ReconciledConverges DEF ToldInv
  <1> QED BY <1>1, AlwaysTold, PTL DEF Spec, ReconcileConverges
=============================================================================
