---------------------------- MODULE VoiceSyncProofs ----------------------------
(***************************************************************************)
(* VoiceSync for any number of channels, members, changes, requests and    *)
(* sockets: its type invariant, and INV-C2 as far as the code keeps it.    *)
(*                                                                         *)
(* That a client at the server's version shows the server's room is not    *)
(* inductive: it says nothing of the changes and snapshots on their way,   *)
(* nor of the older versions these lead from.  The inductive invariant     *)
(* says that there is a history, what every channel showed at every        *)
(* version, such that the rooms, each change not yet applied, each         *)
(* snapshot on its way and the client's store all agree with it (Agrees).  *)
(* A room that closes ends the history; a new socket, on which nothing is  *)
(* left from the old one, starts another.                                  *)
(***************************************************************************)
EXTENDS VoiceSync, VoiceRegistryLemmas, SequenceTheorems

-----------------------------------------------------------------------------
(* What a change does to what is shown. *)

Version(rs, c) == RoomOf(rs, c).version

Wire(rs, c) == OnWire(Shown(rs, c))

\* What a client keeps of a channel.
IsShown(sh) == sh = [members |-> sh.members, tracks |-> sh.tracks]

\* What a client shows after a change is two tables.
LEMMA ReplayShown ==
    ASSUME NEW sh, NEW ch
    PROVE  \E P, T : Replay(sh, ch) = [members |-> P, tracks |-> T] /\ IsTable(T)
  <1>1. Says(ch, ch.channel, ch.removed, ch.added, ch.updated, ch.tracksRemoved,
             ch.tracksAdded, ch.closed)
    BY DEF Says
  <1> DEFINE T == TracksAfter(sh.tracks, ch.tracksRemoved, ch.tracksAdded)
  <1>2. Replay(sh, ch) = [members |-> MembersAfter(sh.members, ch.removed, ch.added, ch.updated),
                          tracks  |-> T]
    BY <1>1, ReplayHalves
  <1>3. IsTable(T)
    BY DEF IsTable, TracksAfter
  <1> HIDE DEF T
  <1> QED BY <1>2, <1>3

\* What is on the wire after a change depends on what was on it before, not on
\* the age of the provisional rows.
LEMMA ReplayOnWire ==
    ASSUME NEW sh, IsShown(sh), NEW sh2, IsShown(sh2), OnWire(sh) = OnWire(sh2), NEW ch
    PROVE  OnWire(Replay(sh, ch)) = OnWire(Replay(sh2, ch))
  <1> DEFINE sent(f)  == [u \in DOMAIN f |-> [sid |-> f[u].sid, audio |-> f[u].audio]]
             after(f) == MembersAfter(f, ch.removed, ch.added, ch.updated)
             moved(f) == TracksAfter(f, ch.tracksRemoved, ch.tracksAdded)
  <1>1. PICK f, f2, t, t2 : /\ f = sh.members /\ f2 = sh2.members
                            /\ t = sh.tracks /\ t2 = sh2.tracks
    OBVIOUS
  <1>2. sh = [members |-> f, tracks |-> t] /\ sh2 = [members |-> f2, tracks |-> t2]
    BY <1>1 DEF IsShown
  <1>3. /\ OnWire(sh) = [members |-> sent(f), tracks |-> t]
        /\ OnWire(sh2) = [members |-> sent(f2), tracks |-> t2]
    BY <1>2, WireOf
  <1> HIDE DEF sent
  <1>4. sent(f) = sent(f2) /\ t = t2
    <2>1. PICK x, x2 : x = sent(f) /\ x2 = sent(f2)
      OBVIOUS
    <2>2. [members |-> x, tracks |-> t] = [members |-> x2, tracks |-> t2]
      BY <1>3, <2>1
    <2>3. x = x2 /\ t = t2
      BY <2>2
    <2> QED BY <2>1, <2>3
  <1>5. /\ DOMAIN f = DOMAIN f2
        /\ \A u \in DOMAIN f : f[u].sid = f2[u].sid /\ f[u].audio = f2[u].audio
    <2>1. DOMAIN sent(f) = DOMAIN f /\ DOMAIN sent(f2) = DOMAIN f2
      BY DEF sent
    <2>2. DOMAIN f = DOMAIN f2
      BY <1>4, <2>1
    <2>3. ASSUME NEW u \in DOMAIN f PROVE f[u].sid = f2[u].sid /\ f[u].audio = f2[u].audio
      <3>1. sent(f)[u] = [sid |-> f[u].sid, audio |-> f[u].audio]
            /\ sent(f2)[u] = [sid |-> f2[u].sid, audio |-> f2[u].audio]
        BY <2>2 DEF sent
      <3>2. sent(f)[u].sid = sent(f2)[u].sid /\ sent(f)[u].audio = sent(f2)[u].audio
        BY <1>4
      <3> QED BY <3>1, <3>2
    <2> QED BY <2>2, <2>3
  <1>6. Replay(sh, ch) = [members |-> after(f), tracks |-> moved(t)]
        /\ Replay(sh2, ch) = [members |-> after(f2), tracks |-> moved(t2)]
    BY <1>1 DEF Replay, MembersAfter, TracksAfter
  <1>7. sent(after(f)) = sent(after(f2))
    <2>1. DOMAIN after(f) = (DOMAIN f \ ch.removed) \cup DOMAIN ch.added
          /\ DOMAIN after(f2) = (DOMAIN f2 \ ch.removed) \cup DOMAIN ch.added
      BY DEF MembersAfter, Without, Restrict
    <2>2. ASSUME NEW u \in DOMAIN after(f)
          PROVE  after(f)[u].sid = after(f2)[u].sid /\ after(f)[u].audio = after(f2)[u].audio
      <3>1. CASE u \in DOMAIN ch.updated
        <4>1. after(f)[u] = ch.updated[u] /\ after(f2)[u] = ch.updated[u]
          BY <1>5, <2>1, <3>1 DEF MembersAfter, Without, Restrict
        <4> QED BY <4>1
      <3>2. CASE u \notin DOMAIN ch.updated /\ u \in DOMAIN ch.added
        <4>1. after(f)[u] = ch.added[u] /\ after(f2)[u] = ch.added[u]
          BY <1>5, <2>1, <3>2 DEF MembersAfter, Without, Restrict
        <4> QED BY <4>1
      <3>3. CASE u \notin DOMAIN ch.updated /\ u \notin DOMAIN ch.added
        <4>1. after(f)[u] = f[u] /\ after(f2)[u] = f2[u] /\ u \in DOMAIN f
          BY <1>5, <2>1, <3>3 DEF MembersAfter, Without, Restrict
        <4> QED BY <1>5, <4>1
      <3> QED BY <3>1, <3>2, <3>3
    <2> HIDE DEF after
    <2>3. DOMAIN after(f) = DOMAIN after(f2)
      BY <1>5, <2>1
    <2> QED BY <2>2, <2>3 DEF sent
  <1> HIDE DEF after, moved
  <1>8. OnWire(Replay(sh, ch)) = [members |-> sent(after(f)), tracks |-> moved(t)]
        /\ OnWire(Replay(sh2, ch)) = [members |-> sent(after(f2)), tracks |-> moved(t2)]
    BY <1>6, WireOf DEF sent
  <1> QED BY <1>4, <1>7, <1>8

\* What a change that closes nothing tells, said without its music.
LEMMA ToldOpen ==
    ASSUME NEW rs, Good(rs), NEW rs2, NEW changes, NEW c \in Channels,
           TellsOf(rs, rs2, changes, c), \A ch \in changes : ~ch.closed
    PROVE  /\ (\A ch \in changes : ch.channel # c) => Wire(rs2, c) = Wire(rs, c)
           /\ \A ch \in changes :
                 ch.channel = c /\ (\A other \in changes : other.channel = c => other = ch)
                     => Wire(rs2, c) = OnWire(Replay(Shown(rs, c), ch))
  <1> DEFINE told == {ch \in changes : ch.channel = c}
             seen == IF told = {} THEN Shown(rs, c)
                     ELSE Replay(Shown(rs, c), CHOOSE ch \in told : TRUE)
  <1>1. Wire(rs2, c) = OnWire([seen EXCEPT !.tracks = Without(@, {})])
    BY DEF TellsOf, Wire
  <1>2. ASSUME \A ch \in changes : ch.channel # c PROVE Wire(rs2, c) = Wire(rs, c)
    <2> DEFINE P == RoomOf(rs, c).participants
               T == RoomOf(rs, c).tracks
    <2>1. Shown(rs, c) = [members |-> P, tracks |-> T] /\ Without(T, {}) = T
      BY ShownFacts, WithoutNothing
    <2>2. seen = Shown(rs, c)
      BY <1>2
    <2> HIDE DEF P, T
    <2>3. [Shown(rs, c) EXCEPT !.tracks = Without(@, {})] = Shown(rs, c)
      BY <2>1
    <2> QED BY <1>1, <2>2, <2>3 DEF Wire
  <1>3. ASSUME NEW ch \in changes, ch.channel = c,
               \A other \in changes : other.channel = c => other = ch
        PROVE  Wire(rs2, c) = OnWire(Replay(Shown(rs, c), ch))
    <2>1. told = {ch}
      BY <1>3
    <2>2. seen = Replay(Shown(rs, c), ch)
      BY <2>1
    <2>3. PICK P, T : Replay(Shown(rs, c), ch) = [members |-> P, tracks |-> T] /\ IsTable(T)
      BY ReplayShown DEF IsShown
    <2>4. Without(T, {}) = T
      BY <2>3, WithoutNothing
    <2>5. [Replay(Shown(rs, c), ch) EXCEPT !.tracks = Without(@, {})]
            = Replay(Shown(rs, c), ch)
      BY <2>3, <2>4
    <2> QED BY <1>1, <2>2, <2>5
  <1> QED BY <1>2, <1>3

-----------------------------------------------------------------------------
(* What a change counts. *)

\* Of the channel c the call made no change and left the version alone, or made
\* one, from the version before to the next.
CountsOf(rs, rs2, changes, c) ==
    \/ /\ \A ch \in changes : ch.channel # c
       /\ Version(rs2, c) = Version(rs, c)
    \/ \E ch \in changes :
          /\ ch.channel = c
          /\ \A other \in changes : other.channel = c => other = ch
          /\ ch.before = Version(rs, c) /\ ch.after = Version(rs, c) + 1
          /\ ~ch.closed => Version(rs2, c) = Version(rs, c) + 1

\* The result of a call, counted in every channel.
Counts(rs, result) ==
    /\ \A c \in Channels : CountsOf(rs, result.rooms, result.changes, c)
    /\ \A ch \in result.changes : ch.channel \in Channels

\* An ignored call.
LEMMA IgnoredCounts == ASSUME NEW rs PROVE Counts(rs, Ignored(rs))
  BY DEF Counts, CountsOf, Ignored

\* A call that writes one room.
LEMMA AcceptCounts ==
    ASSUME NEW rs, Good(rs), NEW c \in Channels, NEW members, NEW tracks, NEW change,
           LET ch == [change EXCEPT !.after = RoomOf(rs, c).version + 1]
           IN  /\ ch.channel = c /\ ch.before = RoomOf(rs, c).version
               /\ ch.after = RoomOf(rs, c).version + 1
    PROVE  Counts(rs, Accept(rs, c, 1, members, tracks, change))
  <1> DEFINE result == Accept(rs, c, 1, members, tracks, change)
             ch     == [change EXCEPT !.after = RoomOf(rs, c).version + 1]
  <1>1. /\ result.changes = {ch}
        /\ DOMAIN result.rooms = DOMAIN rs \cup {c}
        /\ result.rooms[c].version = RoomOf(rs, c).version + 1
        /\ \A d \in DOMAIN rs \ {c} : result.rooms[d] = rs[d]
    BY DEF Accept, Put
  <1>2. ch.channel = c /\ ch.before = Version(rs, c) /\ ch.after = Version(rs, c) + 1
    BY DEF Version
  <1> HIDE DEF result, ch
  <1>3. Version(result.rooms, c) = Version(rs, c) + 1
    BY <1>1 DEF Version, RoomOf
  <1>4. \A d : d # c => Version(result.rooms, d) = Version(rs, d)
    BY <1>1 DEF Version, RoomOf
  <1>5. Counts(rs, result)
    BY <1>1, <1>2, <1>3, <1>4 DEF Counts, CountsOf
  <1> QED BY <1>5 DEF result

\* The changes those calls make.
LEMMA ChangeCounts ==
    ASSUME NEW rs, NEW c, NEW reason, NEW x, NEW n
    PROVE  /\ LET ch == [[Change(rs, c, reason) EXCEPT !.added = x] EXCEPT !.after = n]
              IN  ch.channel = c /\ ch.before = RoomOf(rs, c).version /\ ch.after = n
           /\ LET ch == [[Change(rs, c, reason) EXCEPT !.updated = x] EXCEPT !.after = n]
              IN  ch.channel = c /\ ch.before = RoomOf(rs, c).version /\ ch.after = n
  BY DEF Change

\* Writing a member's row.
LEMMA PutMemberCounts ==
    ASSUME NEW rs, Good(rs), NEW c \in Channels, NEW u, NEW members, NEW tracks,
           NEW reason, NEW named
    PROVE  LET change == Change(rs, c, reason)
           IN  Counts(rs, Accept(rs, c, 1, members, tracks,
                   IF u \in Members(rs, c) THEN [change EXCEPT !.updated = named]
                   ELSE [change EXCEPT !.added = named]))
  <1>1. CASE u \in Members(rs, c)
    <2> DEFINE ch == [Change(rs, c, reason) EXCEPT !.updated = named]
    <2>1. LET made == [ch EXCEPT !.after = RoomOf(rs, c).version + 1]
          IN  /\ made.channel = c /\ made.before = RoomOf(rs, c).version
              /\ made.after = RoomOf(rs, c).version + 1
      BY ChangeCounts
    <2> HIDE DEF ch
    <2>2. Counts(rs, Accept(rs, c, 1, members, tracks, ch))
      BY <2>1, AcceptCounts
    <2> QED BY <1>1, <2>2 DEF ch
  <1>2. CASE u \notin Members(rs, c)
    <2> DEFINE ch == [Change(rs, c, reason) EXCEPT !.added = named]
    <2>1. LET made == [ch EXCEPT !.after = RoomOf(rs, c).version + 1]
          IN  /\ made.channel = c /\ made.before = RoomOf(rs, c).version
              /\ made.after = RoomOf(rs, c).version + 1
      BY ChangeCounts
    <2> HIDE DEF ch
    <2>2. Counts(rs, Accept(rs, c, 1, members, tracks, ch))
      BY <2>1, AcceptCounts
    <2> QED BY <1>2, <2>2 DEF ch
  <1> QED BY <1>1, <1>2

\* webhook_participant_joined and set_audio_state.
LEMMA RowCounts ==
    ASSUME NEW rs, Good(rs), NEW c \in Channels, NEW u, NEW s, NEW audio
    PROVE  /\ Counts(rs, WebhookParticipantJoined(rs, c, u, s))
           /\ Counts(rs, SetAudioState(rs, c, u, audio))
  <1>1. Counts(rs, WebhookParticipantJoined(rs, c, u, s))
    BY IgnoredCounts, PutMemberCounts DEF WebhookParticipantJoined
  <1>2. Counts(rs, SetAudioState(rs, c, u, audio))
    BY IgnoredCounts, PutMemberCounts DEF SetAudioState
  <1> QED BY <1>1, <1>2

\* The version a removal leaves a channel at, and the change it makes for it.
LEMMA RemovalCounts ==
    ASSUME NEW rs, NEW leavers, DOMAIN leavers \subseteq DOMAIN rs, NEW reason, NEW c,
           NEW why
    PROVE  LET rs2 == Remove(rs, leavers, reason).rooms
               ch  == Removal(rs, leavers, reason, c)
               ch2 == [ch EXCEPT !.reason = why]
           IN  /\ c \notin DOMAIN leavers => Version(rs2, c) = Version(rs, c)
               /\ c \in DOMAIN leavers =>
                    /\ ch.before = Version(rs, c) /\ ch.after = Version(rs, c) + 1
                    /\ ch2.before = Version(rs, c) /\ ch2.after = Version(rs, c) + 1
                    /\ ch2.closed = ch.closed
                    /\ ~ch.closed => Version(rs2, c) = Version(rs, c) + 1
  <1> DEFINE rs2 == Remove(rs, leavers, reason).rooms
             ch  == Removal(rs, leavers, reason, c)
             ch2 == [ch EXCEPT !.reason = why]
  <1>1. ASSUME c \notin DOMAIN leavers PROVE Version(rs2, c) = Version(rs, c)
    <2>1. RoomOf(rs2, c) = RoomOf(rs, c)
      BY <1>1, RemoveRooms
    <2> QED BY <2>1 DEF Version
  <1>2. ASSUME c \in DOMAIN leavers
        PROVE  /\ ch.before = Version(rs, c) /\ ch.after = Version(rs, c) + 1
               /\ ch2.before = Version(rs, c) /\ ch2.after = Version(rs, c) + 1
               /\ ch2.closed = ch.closed
    BY <1>2 DEF Removal, Change, Version, RoomOf
  <1>3. ASSUME c \in DOMAIN leavers, ~ch.closed
        PROVE  Version(rs2, c) = Version(rs, c) + 1
    <2>1. DOMAIN rs[c].participants \ leavers[c] # {}
      <3>1. Says(ch, c, leavers[c], EmptyMap, EmptyMap, OwnedBy(rs[c], leavers[c]),
                 EmptyMap, DOMAIN rs[c].participants \ leavers[c] = {})
        BY RemovalSays
      <3> HIDE DEF ch
      <3> QED BY <1>3, <3>1 DEF Says
    <2>2. c \in DOMAIN rs2 /\ rs2[c].version = rs[c].version + 1
      BY <1>3, <2>1 DEF Remove
    <2> HIDE DEF rs2
    <2> QED BY <1>3, <2>2 DEF Version, RoomOf
  <1> QED BY <1>1, <1>2, <1>3

\* webhook_participant_left.
LEMMA LeftCounts ==
    ASSUME NEW rs, Good(rs), NEW c, NEW u, NEW s
    PROVE  Counts(rs, WebhookParticipantLeft(rs, c, u, s))
  <1> DEFINE leavers == Put(EmptyMap, c, {u})
             reason  == "webhook.participant_left"
             result  == Remove(rs, leavers, reason)
  <1>1. ASSUME u \in Members(rs, c) PROVE Counts(rs, result)
    <2>1. DOMAIN leavers = {c} /\ {c} \subseteq DOMAIN rs /\ DOMAIN rs \subseteq Channels
      BY <1>1 DEF Good, Members, RoomOf, EmptyRoom, EmptyMap, Put
    <2>2. result.changes = {Removal(rs, leavers, reason, c)}
      BY <2>1, RemovalsMade
    <2>3. Removal(rs, leavers, reason, c).channel = c
      BY RemovalSays DEF Says
    <2> HIDE DEF leavers
    <2>4. /\ \A d : d # c => Version(result.rooms, d) = Version(rs, d)
          /\ LET ch == Removal(rs, leavers, reason, c)
             IN  /\ ch.before = Version(rs, c) /\ ch.after = Version(rs, c) + 1
                 /\ ~ch.closed => Version(result.rooms, c) = Version(rs, c) + 1
      BY <2>1, RemovalCounts
    <2> HIDE DEF result
    <2> QED BY <2>1, <2>2, <2>3, <2>4 DEF Counts, CountsOf
  <1> QED BY <1>1, IgnoredCounts DEF WebhookParticipantLeft

\* A join counts in the room joined and leaves the others' versions alone.
LEMMA JoinCountsOneRoom ==
    ASSUME NEW rs, NEW c, NEW u, NEW s, NEW d, d # c
    PROVE  Version(WebhookParticipantJoined(rs, c, u, s).rooms, d) = Version(rs, d)
  <1>1. ASSUME NEW n, NEW members, NEW tracks, NEW change
        PROVE  RoomOf(Accept(rs, c, n, members, tracks, change).rooms, d) = RoomOf(rs, d)
    BY DEF Accept, Put, RoomOf
  <1> QED BY <1>1 DEF WebhookParticipantJoined, Ignored, Version

\* webhook_participant_joined_exclusive: the rooms left, then the room joined.
LEMMA ExclusiveCounts ==
    ASSUME NEW rs, Good(rs), NEW c \in Channels, NEW u \in Users, NEW s \in Sids
    PROVE  Counts(rs, WebhookParticipantJoinedExclusive(rs, c, u, s))
  <1> DEFINE reason   == "webhook.participant_left"
             previous == {d \in DOMAIN rs \ {c} : u \in Members(rs, d)}
             leavers  == [d \in previous |-> {u}]
             evicted  == Remove(rs, leavers, reason)
             why(ch)  == IF IsProvisional(rs[ch.channel].participants[u])
                         THEN "ws.presence_hint" ELSE ch.reason
             retold(ch) == [ch EXCEPT !.reason = why(ch)]
             left(d)  == retold(Removal(rs, leavers, reason, d))
             entered  == WebhookParticipantJoined(evicted.rooms, c, u, s)
             changes  == {left(d) : d \in previous} \cup entered.changes
             result   == WebhookParticipantJoinedExclusive(rs, c, u, s)
  <1>1. result.rooms = entered.rooms /\ result.changes = changes
    <2>1. evicted.changes = {Removal(rs, leavers, reason, d) : d \in previous}
      BY RemovalsMade
    <2>2. /\ result.rooms = entered.rooms
          /\ result.changes = {retold(ch) : ch \in evicted.changes} \cup entered.changes
      BY DEF WebhookParticipantJoinedExclusive
    <2> HIDE DEF retold, evicted, result, entered
    <2>3. {retold(ch) : ch \in evicted.changes} = {left(d) : d \in previous}
      BY <2>1
    <2> QED BY <2>2, <2>3
  <1>2. DOMAIN leavers = previous /\ previous \subseteq DOMAIN rs /\ c \notin previous
        /\ DOMAIN rs \subseteq Channels
    BY DEF Good
  <1>3. \A d : left(d).channel = d
    <2>1. \A d : Says(left(d), d, leavers[d], EmptyMap, EmptyMap,
                      OwnedBy(rs[d], leavers[d]), EmptyMap,
                      DOMAIN rs[d].participants \ leavers[d] = {})
      BY RemovalSays
    <2> HIDE DEF left
    <2> QED BY <2>1 DEF Says
  <1>4. ASSUME NEW d
        PROVE  /\ d \notin previous => Version(evicted.rooms, d) = Version(rs, d)
               /\ d \in previous =>
                    /\ left(d).before = Version(rs, d) /\ left(d).after = Version(rs, d) + 1
                    /\ ~left(d).closed => Version(evicted.rooms, d) = Version(rs, d) + 1
    <2>1. PICK w : w = why(Removal(rs, leavers, reason, d))
      OBVIOUS
    <2>2. left(d) = [Removal(rs, leavers, reason, d) EXCEPT !.reason = w]
      BY <2>1
    <2> HIDE DEF left, leavers, previous, why
    <2> QED BY <1>2, <2>2, RemovalCounts
  <1>5. Good(evicted.rooms)
    BY <1>2, RemoveGood
  <1> HIDE DEF leavers, previous, evicted, left
  <1>6. /\ \A ch \in entered.changes : ch.channel = c
        /\ \A d : d # c => Version(entered.rooms, d) = Version(evicted.rooms, d)
    BY JoinTellsOneRoom, JoinCountsOneRoom
  <1>7. CountsOf(evicted.rooms, entered.rooms, entered.changes, c)
    BY <1>5, RowCounts DEF Counts
  <1> HIDE DEF entered, result
  <1>8. CountsOf(rs, entered.rooms, changes, c)
    <2>1. {ch \in changes : ch.channel = c} = {ch \in entered.changes : ch.channel = c}
      BY <1>2, <1>3
    <2>2. entered.changes \subseteq changes
      OBVIOUS
    <2> HIDE DEF changes
    <2>3. \A ch : ch \in changes /\ ch.channel = c <=> ch \in entered.changes /\ ch.channel = c
      BY <2>1
    <2>4. Version(evicted.rooms, c) = Version(rs, c)
      BY <1>2, <1>4
    <2> QED BY <1>7, <2>3, <2>4 DEF CountsOf
  <1>9. ASSUME NEW d \in Channels, d # c, d \notin previous
        PROVE  CountsOf(rs, entered.rooms, changes, d)
    <2>1. \A ch \in changes : ch.channel # d
      BY <1>3, <1>6, <1>9
    <2> HIDE DEF changes
    <2> QED BY <1>4, <1>6, <1>9, <2>1 DEF CountsOf
  <1>10. ASSUME NEW d \in previous PROVE CountsOf(rs, entered.rooms, changes, d)
    <2>1. left(d) \in changes /\ \A other \in changes : other.channel = d => other = left(d)
      BY <1>2, <1>3, <1>6, <1>10
    <2>2. left(d).channel = d /\ d # c
      BY <1>2, <1>3, <1>10
    <2> HIDE DEF changes
    <2> QED BY <1>4, <1>6, <1>10, <2>1, <2>2 DEF CountsOf
  <1>11. \A ch \in changes : ch.channel \in Channels
    BY <1>2, <1>3, <1>6
  <1> HIDE DEF changes
  <1>12. Counts(rs, result)
    BY <1>1, <1>8, <1>9, <1>10, <1>11 DEF Counts
  <1> QED BY <1>12 DEF result

-----------------------------------------------------------------------------
(* The socket's queues. *)

Queued(q) == {q[i] : i \in DOMAIN q}

IsQueue(q) == q \in Seq(Queued(q))

\* A sequence is a queue of its own elements.
LEMMA SeqIsQueue == ASSUME NEW S, NEW q \in Seq(S) PROVE IsQueue(q)
  <1>1. /\ SubSeq(q, 1, Len(q)) = q /\ Len(q) \in Nat /\ DOMAIN q = 1..Len(q)
    BY SubSeqFull, LenProperties
  <1>2. \A i \in 1..Len(q) : q[i] \in Queued(q)
    BY <1>1 DEF Queued
  <1>3. SubSeq(q, 1, Len(q)) \in Seq(Queued(q))
    BY <1>1, <1>2, SubSeqProperties
  <1> QED BY <1>1, <1>3 DEF IsQueue

LEMMA EmptyQueue == IsQueue(<<>>) /\ Queued(<<>>) = {}
  <1>1. <<>> \in Seq({}) /\ DOMAIN <<>> = 1..0 /\ 1..0 = {}
    BY EmptySeq, LenProperties
  <1> QED BY <1>1, SeqIsQueue DEF Queued

\* What Append makes of what is queued.
LEMMA QueueAppend ==
    ASSUME NEW q, IsQueue(q), NEW x
    PROVE  IsQueue(Append(q, x)) /\ Queued(Append(q, x)) = Queued(q) \cup {x}
  <1> DEFINE S == Queued(q) \cup {x}
  <1>1. q \in Seq(S) /\ x \in S
    BY SeqMonotonic DEF IsQueue
  <1> HIDE DEF S
  <1>2. /\ Append(q, x) \in Seq(S)
        /\ Len(q) \in Nat /\ DOMAIN q = 1..Len(q)
        /\ DOMAIN Append(q, x) = 1..Len(q) + 1
        /\ \A i \in 1..Len(q) : Append(q, x)[i] = q[i]
        /\ Append(q, x)[Len(q) + 1] = x
    BY <1>1, AppendProperties, LenProperties
  <1>3. 1..Len(q) + 1 = 1..Len(q) \cup {Len(q) + 1}
    BY <1>2
  <1>4. Queued(Append(q, x)) = Queued(q) \cup {x}
    BY <1>2, <1>3 DEF Queued
  <1> QED BY <1>2, <1>4, SeqIsQueue

\* What Head and Tail take.
LEMMA QueueTail ==
    ASSUME NEW q, IsQueue(q), q # <<>>
    PROVE  /\ Head(q) \in Queued(q)
           /\ IsQueue(Tail(q)) /\ Queued(Tail(q)) \subseteq Queued(q)
  <1>1. q \in Seq(Queued(q))
    BY DEF IsQueue
  <1>2. Head(q) \in Queued(q) /\ Tail(q) \in Seq(Queued(q))
    BY <1>1, HeadTailProperties
  <1>3. Queued(Tail(q)) \subseteq Queued(q)
    <2>1. \A i \in DOMAIN Tail(q) : Tail(q)[i] \in Queued(q)
      BY <1>2, LenProperties, ElementOfSeq
    <2> QED BY <2>1 DEF Queued
  <1> QED BY <1>2, <1>3, SeqIsQueue

\* A message put before the last.
LEMMA QueueOvertaken ==
    ASSUME NEW q, IsQueue(q), q # <<>>, NEW x
    PROVE  LET q2 == SubSeq(q, 1, Len(q) - 1) \o <<x, q[Len(q)]>>
           IN  IsQueue(q2) /\ Queued(q2) \subseteq Queued(q) \cup {x}
  <1> DEFINE S  == Queued(q) \cup {x}
             q2 == SubSeq(q, 1, Len(q) - 1) \o <<x, q[Len(q)]>>
  <1>1. q \in Seq(S) /\ x \in S
    BY SeqMonotonic DEF IsQueue
  <1> HIDE DEF S
  <1>2. Len(q) \in Nat \ {0} /\ \A i \in 1..Len(q) : q[i] \in S
    BY <1>1, EmptySeq, ElementOfSeq
  <1>3. SubSeq(q, 1, Len(q) - 1) \in Seq(S)
    <2>1. \A i \in 1..Len(q) - 1 : q[i] \in S
      BY <1>2
    <2> QED BY <1>2, <2>1, SubSeqProperties
  <1>4. <<x, q[Len(q)]>> \in Seq(S)
    <2>1. q[Len(q)] \in S
      BY <1>2
    <2> QED BY <1>1, <2>1
  <1>5. q2 \in Seq(S)
    BY <1>3, <1>4, ConcatProperties
  <1> HIDE DEF q2
  <1>6. Queued(q2) \subseteq S
    <2>1. \A i \in DOMAIN q2 : q2[i] \in S
      BY <1>5, LenProperties, ElementOfSeq
    <2> QED BY <2>1 DEF Queued
  <1>7. IsQueue(q2)
    BY <1>5, SeqIsQueue
  <1> QED BY <1>6, <1>7 DEF S, q2

-----------------------------------------------------------------------------
(* The store. *)

\* What a snapshot is asked for: channels, or none for all.
Requests == SUBSET Channels

\* The fields of a store, and what they keep to.
StoreOf(v, s, a, p, f, t, r) ==
    [versions |-> v, shown |-> s, awaiting |-> a, pendingIds |-> p, pendingFull |-> f,
     timer |-> t, recent |-> r]

IsStore(st) ==
    \E v, s : \E a, p \in Requests : \E f, t, r \in BOOLEAN :
        /\ st = StoreOf(v, s, a, p, f, t, r)
        /\ DOMAIN v = DOMAIN s
        /\ t <=> f \/ p # {}

\* An operation of the store that leaves the rows alone.
Asks(st, result) ==
    /\ IsStore(result.store) /\ result.sent \in Seq(Requests)
    /\ result.store.versions = st.versions /\ result.store.shown = st.shown

LEMMA QuietAsks == ASSUME NEW st, IsStore(st) PROVE Asks(st, Quiet(st))
  BY EmptySeq DEF Asks, Quiet

\* flushSnapshotRequest.
LEMMA FlushAsks ==
    ASSUME NEW v, NEW s, DOMAIN v = DOMAIN s, NEW a \in Requests, NEW p \in Requests,
           NEW f \in BOOLEAN, NEW t, NEW r
    PROVE  Asks(StoreOf(v, s, a, p, f, t, r), Flush(StoreOf(v, s, a, p, f, t, r)))
  <1>1. PICK st, no, yes : st = StoreOf(v, s, a, p, f, t, r) /\ no = FALSE /\ yes = TRUE
    OBVIOUS
  <1>2. PICK st1 : st1 = [st EXCEPT !.pendingFull = no]
    OBVIOUS
  <1>3. PICK st2 : st2 = [st1 EXCEPT !.pendingIds = {}]
    OBVIOUS
  <1>4. PICK st3 : st3 = [st2 EXCEPT !.timer = no]
    OBVIOUS
  <1>5. PICK st4 : st4 = [st3 EXCEPT !.recent = yes]
    OBVIOUS
  <1>6. [st EXCEPT !.pendingFull = FALSE, !.pendingIds = {}, !.timer = FALSE,
                   !.recent = TRUE] = st4
    BY <1>1, <1>2, <1>3, <1>4, <1>5
  <1>7. st1 = StoreOf(v, s, a, p, no, t, r)
    BY <1>1, <1>2 DEF StoreOf
  <1>8. st2 = StoreOf(v, s, a, {}, no, t, r)
    BY <1>3, <1>7 DEF StoreOf
  <1>9. st3 = StoreOf(v, s, a, {}, no, no, r)
    BY <1>4, <1>8 DEF StoreOf
  <1>10. st4 = StoreOf(v, s, a, {}, no, no, yes)
    BY <1>5, <1>9 DEF StoreOf
  <1>11. /\ st.versions = v /\ st.shown = s /\ st.pendingFull = f /\ st.pendingIds = p
         /\ st4.versions = v /\ st4.shown = s
    BY <1>1, <1>10 DEF StoreOf
  <1>12. IsStore(st4)
    <2>1. {} \in Requests
      BY DEF Requests
    <2> QED BY <1>1, <1>10, <2>1 DEF IsStore
  <1>13. <<IF f THEN {} ELSE p>> \in Seq(Requests)
    <2>1. (IF f THEN {} ELSE p) \in Requests
      BY DEF Requests
    <2> QED BY <2>1
  <1>14. Flush(st) = [store |-> st4, sent |-> <<IF f THEN {} ELSE p>>]
    BY <1>6, <1>11 DEF Flush
  <1>15. Asks(st, Flush(st))
    BY <1>11, <1>12, <1>13, <1>14 DEF Asks
  <1> QED BY <1>1, <1>15

\* requestSnapshot.
LEMMA RequestAsks ==
    ASSUME NEW st, IsStore(st), NEW ids \in Requests
    PROVE  Asks(st, RequestSnapshot(st, ids))
  <1>1. PICK v, s : \E a, p \in Requests : \E f, t, r \in BOOLEAN :
            /\ st = StoreOf(v, s, a, p, f, t, r)
            /\ DOMAIN v = DOMAIN s
            /\ t <=> f \/ p # {}
    BY DEF IsStore
  <1>2. PICK a \in Requests, p \in Requests, f \in BOOLEAN, t \in BOOLEAN, r \in BOOLEAN :
            st = StoreOf(v, s, a, p, f, t, r) /\ DOMAIN v = DOMAIN s
    BY <1>1
  <1>3. PICK more, queue, full, yes :
            /\ more = a \cup ids /\ queue = p \cup ids
            /\ full = (st.pendingFull \/ ids = {}) /\ yes = TRUE
    OBVIOUS
  <1>4. PICK st1 : st1 = [st EXCEPT !.awaiting = more]
    OBVIOUS
  <1>5. PICK st2 : st2 = [st1 EXCEPT !.pendingIds = queue]
    OBVIOUS
  <1>6. PICK st3 : st3 = [st2 EXCEPT !.pendingFull = full]
    OBVIOUS
  <1>7. PICK st4 : st4 = [st3 EXCEPT !.timer = yes]
    OBVIOUS
  <1>8. st.awaiting = a /\ st.pendingIds = p /\ st.pendingFull = f /\ st.recent = r
        /\ st.versions = v /\ st.shown = s
    BY <1>2 DEF StoreOf
  <1>9. [st EXCEPT !.awaiting = @ \cup ids, !.pendingIds = @ \cup ids,
                   !.pendingFull = @ \/ ids = {}] = st3
    <2>1. [st EXCEPT !.awaiting = @ \cup ids, !.pendingIds = @ \cup ids,
                     !.pendingFull = @ \/ ids = {}]
            = [st EXCEPT !.awaiting = st.awaiting \cup ids,
                         !.pendingIds = st.pendingIds \cup ids, !.pendingFull = full]
      BY <1>3
    <2> QED BY <1>3, <1>4, <1>5, <1>6, <1>8, <2>1
  <1>10. full \in BOOLEAN /\ (full <=> f \/ ids = {})
    BY <1>3, <1>8
  <1>11. st1 = StoreOf(v, s, more, p, f, t, r)
    BY <1>2, <1>4 DEF StoreOf
  <1>12. st2 = StoreOf(v, s, more, queue, f, t, r)
    BY <1>5, <1>11 DEF StoreOf
  <1>13. st3 = StoreOf(v, s, more, queue, full, t, r)
    BY <1>6, <1>12 DEF StoreOf
  <1>14. st4 = StoreOf(v, s, more, queue, full, yes, r)
    BY <1>7, <1>13 DEF StoreOf
  <1>15. st3.versions = v /\ st3.shown = s /\ st4.versions = v /\ st4.shown = s
    BY <1>13, <1>14 DEF StoreOf
  <1>16. more \in Requests /\ queue \in Requests
    BY <1>3 DEF Requests
  <1>17. IsStore(st4)
    <2>1. full \/ queue # {}
      BY <1>3, <1>10
    <2>2. yes \in BOOLEAN /\ (yes <=> full \/ queue # {})
      BY <1>3, <2>1
    <2> QED BY <1>2, <1>10, <1>14, <1>16, <2>2 DEF IsStore
  <1>18. Asks(st3, Flush(st3))
    BY <1>2, <1>10, <1>13, <1>16, FlushAsks
  <1>19. RequestSnapshot(st, ids) = IF r THEN Quiet(st4) ELSE Flush(st3)
    BY <1>3, <1>7, <1>8, <1>9 DEF RequestSnapshot
  <1>20. Asks(st4, Quiet(st4))
    BY <1>17, QuietAsks
  <1> QED BY <1>8, <1>15, <1>18, <1>19, <1>20 DEF Asks

-----------------------------------------------------------------------------
(* Agreement with a history H: what channel c had on the wire at version n  *)
(* is H[c][n].                                                              *)

\* Rows, of a snapshot or of the store, that the history holds at their versions.
Fits(H, rs, rows) ==
    \A c \in DOMAIN rows.versions :
        /\ c \in Channels
        /\ rows.versions[c] \in Nat /\ rows.versions[c] <= Version(rs, c)
        /\ IsShown(rows.shown[c])
        /\ OnWire(rows.shown[c]) = H[c][rows.versions[c]]

\* A change that leads from one of its entries to a later one.
Leads(H, rs, ch) ==
    /\ ch.channel \in Channels
    /\ ch.before \in Nat /\ ch.after \in Nat
    /\ ch.before < ch.after /\ ch.after <= Version(rs, ch.channel)
    /\ \A sh : IsShown(sh) /\ OnWire(sh) = H[ch.channel][ch.before]
                  => OnWire(Replay(sh, ch)) = H[ch.channel][ch.after]

\* applyState.
LEMMA StateApplied ==
    ASSUME NEW st, IsStore(st), NEW msg, DOMAIN msg.versions = DOMAIN msg.shown
    PROVE  LET result == ApplyState(st, msg)
           IN  /\ IsStore(result.store) /\ result.sent \in Seq(Requests)
               /\ \A H, rs : /\ Fits(H, rs, msg)
                             /\ msg.scope # {} => Fits(H, rs, st)
                             => Fits(H, rs, result.store)
  <1>1. PICK v, s : \E a, p \in Requests : \E f, t, r \in BOOLEAN :
            /\ st = StoreOf(v, s, a, p, f, t, r)
            /\ DOMAIN v = DOMAIN s
            /\ t <=> f \/ p # {}
    BY DEF IsStore
  <1>2. PICK a \in Requests, p \in Requests, f \in BOOLEAN, t \in BOOLEAN, r \in BOOLEAN :
            /\ st = StoreOf(v, s, a, p, f, t, r) /\ DOMAIN v = DOMAIN s
            /\ t <=> f \/ p # {}
    BY <1>1
  <1>3. PICK kept, known :
            /\ kept = IF msg.scope = {} THEN {}
                      ELSE DOMAIN st.versions \ (msg.scope \cup DOMAIN msg.versions)
            /\ known = kept \cup DOMAIN msg.versions
    OBVIOUS
  <1>4. PICK v2, s2, a2 :
            /\ v2 = [c \in known |-> IF c \in kept THEN v[c] ELSE msg.versions[c]]
            /\ s2 = [c \in known |-> IF c \in kept THEN s[c] ELSE msg.shown[c]]
            /\ a2 = IF msg.scope = {} THEN {} ELSE a \ msg.scope
    OBVIOUS
  <1>5. PICK st1 : st1 = [st EXCEPT !.versions = v2]
    OBVIOUS
  <1>6. PICK st2 : st2 = [st1 EXCEPT !.shown = s2]
    OBVIOUS
  <1>7. PICK st3 : st3 = [st2 EXCEPT !.awaiting = a2]
    OBVIOUS
  <1>8. st.versions = v /\ st.shown = s /\ st.awaiting = a
    BY <1>2 DEF StoreOf
  <1>9. [st EXCEPT
            !.versions = [c \in known |-> IF c \in kept THEN @[c] ELSE msg.versions[c]],
            !.shown    = [c \in known |-> IF c \in kept THEN @[c] ELSE msg.shown[c]],
            !.awaiting = IF msg.scope = {} THEN {} ELSE @ \ msg.scope] = st3
    <2>1. [st EXCEPT
            !.versions = [c \in known |-> IF c \in kept THEN @[c] ELSE msg.versions[c]],
            !.shown    = [c \in known |-> IF c \in kept THEN @[c] ELSE msg.shown[c]],
            !.awaiting = IF msg.scope = {} THEN {} ELSE @ \ msg.scope]
            = [st EXCEPT !.versions = v2, !.shown = s2, !.awaiting = a2]
      BY <1>4, <1>8
    <2> QED BY <1>5, <1>6, <1>7, <2>1
  <1>10. st1 = StoreOf(v2, s, a, p, f, t, r)
    BY <1>2, <1>5 DEF StoreOf
  <1>11. st2 = StoreOf(v2, s2, a, p, f, t, r)
    BY <1>6, <1>10 DEF StoreOf
  <1>12. st3 = StoreOf(v2, s2, a2, p, f, t, r)
    BY <1>7, <1>11 DEF StoreOf
  <1>13. ApplyState(st, msg) = Quiet(st3)
    BY <1>3, <1>9 DEF ApplyState
  <1>14. IsStore(st3)
    <2>1. a2 \in Requests
      BY <1>4 DEF Requests
    <2>2. DOMAIN v2 = DOMAIN s2
      BY <1>4
    <2> QED BY <1>2, <1>12, <2>1, <2>2 DEF IsStore
  <1>15. ASSUME NEW H, NEW rs, Fits(H, rs, msg), msg.scope # {} => Fits(H, rs, st)
         PROVE  Fits(H, rs, st3)
    <2>1. st3.versions = v2 /\ st3.shown = s2
      BY <1>12 DEF StoreOf
    <2>2. ASSUME NEW c \in kept
          PROVE  Fits(H, rs, st) /\ c \in DOMAIN st.versions /\ v2[c] = v[c] /\ s2[c] = s[c]
      BY <1>3, <1>4, <1>15, <2>2
    <2>3. ASSUME NEW c \in known \ kept
          PROVE  c \in DOMAIN msg.versions /\ v2[c] = msg.versions[c] /\ s2[c] = msg.shown[c]
      BY <1>3, <1>4, <2>3
    <2>4. DOMAIN v2 = known
      BY <1>4
    <2> QED BY <1>8, <1>15, <2>1, <2>2, <2>3, <2>4 DEF Fits
  <1>16. Quiet(st3).store = st3 /\ Quiet(st3).sent = <<>> /\ <<>> \in Seq(Requests)
    BY EmptySeq DEF Quiet
  <1> QED BY <1>13, <1>14, <1>15, <1>16

\* applyDelta.
LEMMA DeltaApplied ==
    ASSUME NEW st, IsStore(st), NEW ch, ch.channel \in Channels
    PROVE  LET result == ApplyDelta(st, ch)
           IN  /\ IsStore(result.store) /\ result.sent \in Seq(Requests)
               /\ \A H, rs : Fits(H, rs, st) /\ Leads(H, rs, ch) => Fits(H, rs, result.store)
  <1> DEFINE c == ch.channel
             st2 == [st EXCEPT !.versions[c] = ch.after, !.shown[c] = Replay(@, ch)]
  <1>1. PICK v, s : \E a, p \in Requests : \E f, t, r \in BOOLEAN :
            /\ st = StoreOf(v, s, a, p, f, t, r)
            /\ DOMAIN v = DOMAIN s
            /\ t <=> f \/ p # {}
    BY DEF IsStore
  <1>2. PICK a \in Requests, p \in Requests, f \in BOOLEAN, t \in BOOLEAN, r \in BOOLEAN :
            /\ st = StoreOf(v, s, a, p, f, t, r) /\ DOMAIN v = DOMAIN s
            /\ t <=> f \/ p # {}
    BY <1>1
  <1>3. st.versions = v /\ st.shown = s
    BY <1>2 DEF StoreOf
  <1>4. ASSUME NEW result, Asks(st, result)
        PROVE  /\ IsStore(result.store) /\ result.sent \in Seq(Requests)
               /\ \A H, rs : Fits(H, rs, st) => Fits(H, rs, result.store)
    BY <1>4 DEF Asks, Fits
  <1>5. Asks(st, Quiet(st)) /\ Asks(st, RequestSnapshot(st, {c}))
    <2>1. {c} \in Requests
      BY DEF Requests
    <2> QED BY <2>1, QuietAsks, RequestAsks
  <1>6. CASE c \notin st.awaiting /\ c \in DOMAIN st.versions /\ ch.before = st.versions[c]
    <2>1. PICK v2, s2 : v2 = [v EXCEPT ![c] = ch.after] /\ s2 = [s EXCEPT ![c] = Replay(@, ch)]
      OBVIOUS
    <2>2. PICK st1 : st1 = [st EXCEPT !.versions = v2]
      OBVIOUS
    <2>3. st1 = StoreOf(v2, s, a, p, f, t, r)
      BY <1>2, <2>2 DEF StoreOf
    <2>4. PICK st3 : st3 = [st1 EXCEPT !.shown = s2]
      OBVIOUS
    <2>5. st3 = StoreOf(v2, s2, a, p, f, t, r)
      BY <2>3, <2>4 DEF StoreOf
    <2>6. st2 = st3
      <3>1. st2 = [st EXCEPT !.versions = [st.versions EXCEPT ![c] = ch.after],
                             !.shown = [st.shown EXCEPT ![c] = Replay(st.shown[c], ch)]]
        OBVIOUS
      <3>2. st2 = [st EXCEPT !.versions = v2, !.shown = s2]
        BY <1>3, <2>1, <3>1
      <3> QED BY <2>2, <2>4, <3>2
    <2>7. DOMAIN v2 = DOMAIN v /\ DOMAIN s2 = DOMAIN s
      BY <2>1
    <2>8. IsStore(st3)
      BY <1>2, <2>5, <2>7 DEF IsStore
    <2>9. ASSUME NEW H, NEW rs, Fits(H, rs, st), Leads(H, rs, ch) PROVE Fits(H, rs, st3)
      <3>1. st3.versions = v2 /\ st3.shown = s2
        BY <2>5 DEF StoreOf
      <3>2. \A d \in DOMAIN v : d # c => v2[d] = v[d] /\ s2[d] = s[d]
        BY <1>2, <2>1
      <3>3. c \in DOMAIN v /\ v2[c] = ch.after /\ s2[c] = Replay(s[c], ch)
        BY <1>2, <1>3, <1>6, <2>1
      <3>4. IsShown(s[c]) /\ OnWire(s[c]) = H[c][ch.before]
        BY <1>3, <1>6, <2>9 DEF Fits
      <3>5. IsShown(Replay(s[c], ch))
        BY ReplayShown DEF IsShown
      <3>6. OnWire(Replay(s[c], ch)) = H[c][ch.after] /\ ch.after \in Nat
            /\ ch.after <= Version(rs, c)
        BY <2>9, <3>4 DEF Leads
      <3> HIDE DEF c
      <3> QED BY <1>3, <2>7, <2>9, <3>1, <3>2, <3>3, <3>5, <3>6 DEF Fits
    <2>10. ApplyDelta(st, ch) = Quiet(st3)
      BY <1>6, <2>6 DEF ApplyDelta
    <2>11. Quiet(st3).store = st3 /\ Quiet(st3).sent = <<>> /\ <<>> \in Seq(Requests)
      BY EmptySeq DEF Quiet
    <2> QED BY <2>8, <2>9, <2>10, <2>11
  <1>7. CASE ~(c \notin st.awaiting /\ c \in DOMAIN st.versions /\ ch.before = st.versions[c])
    <2>1. ApplyDelta(st, ch) = Quiet(st) \/ ApplyDelta(st, ch) = RequestSnapshot(st, {c})
      BY <1>7 DEF ApplyDelta
    <2> QED BY <1>4, <1>5, <2>1
  <1> QED BY <1>6, <1>7

-----------------------------------------------------------------------------
(* The invariant. *)

\* The connection's own task: it reads a request, or the rooms for an answer.
Work ==
         {Idle}
    \cup [at : {"active"}, scope : Requests]
    \cup [at : {"contents"}, scope : Requests, wanted : Requests]

\* What may be on the socket, and in the outbox.
IsMessage(msg) ==
    \/ msg.op = "delta" /\ msg.change.channel \in Channels
    \/ msg.op = "state" /\ DOMAIN msg.versions = DOMAIN msg.shown

IsEntry(entry) ==
    /\ entry = [number |-> entry.number, change |-> entry.change, to |-> entry.to]
    /\ entry.change.channel \in Channels

InBounds ==
    /\ {"channels", "sids"} \subseteq DOMAIN budget
    /\ budget.channels \subseteq Channels /\ budget.sids \subseteq Sids

SyncTyped ==
    /\ Good(rooms) /\ MusicInPlace(rooms)
    /\ \A entry \in outbox : IsEntry(entry)
    /\ task \in Work
    /\ IsQueue(down) /\ \A msg \in Queued(down) : IsMessage(msg)
    /\ up \in Seq(Requests)
    /\ joined # "yes" => ~conn
    /\ ~conn => down = <<>> /\ ~synced
    /\ IsStore(store)
    /\ InBounds

\* The rooms, what is to be told, what is on the socket and, once a snapshot of
\* all rooms came through it, the store agree with the history.
Agrees(H) ==
    /\ \A c \in Channels : H[c][Version(rooms, c)] = Wire(rooms, c)
    /\ \A entry \in outbox : Leads(H, rooms, entry.change)
    /\ \A msg \in Queued(down) : msg.op = "delta" => Leads(H, rooms, msg.change)
    /\ \A msg \in Queued(down) : msg.op = "state" => Fits(H, rooms, msg)
    /\ synced => Fits(H, rooms, store)

Remembered == "closing" \in spoiled \/ \E H : Agrees(H)

SyncInv == SyncTyped /\ Remembered

\* A history that goes on, as the versions do.
LEMMA Grown ==
    ASSUME NEW rs, NEW rs2, NEW H, NEW H2,
           \A c \in Channels : /\ Version(rs, c) \in Nat /\ Version(rs2, c) \in Nat
                               /\ Version(rs, c) <= Version(rs2, c)
                               /\ \A n \in Nat : n <= Version(rs, c) => H2[c][n] = H[c][n]
    PROVE  /\ \A ch : Leads(H, rs, ch) => Leads(H2, rs2, ch)
           /\ \A rows : Fits(H, rs, rows) => Fits(H2, rs2, rows)
  <1>1. ASSUME NEW ch, Leads(H, rs, ch) PROVE Leads(H2, rs2, ch)
    <2> DEFINE c == ch.channel
    <2>1. /\ c \in Channels /\ ch.before \in Nat /\ ch.after \in Nat
          /\ ch.before < ch.after /\ ch.after <= Version(rs, c)
      BY <1>1 DEF Leads
    <2>2. H2[c][ch.before] = H[c][ch.before] /\ H2[c][ch.after] = H[c][ch.after]
      <3>1. ch.before <= Version(rs, c)
        BY <2>1
      <3> QED BY <2>1, <3>1
    <2>3. ch.after <= Version(rs2, c)
      BY <2>1
    <2> QED BY <1>1, <2>1, <2>2, <2>3 DEF Leads
  <1>2. ASSUME NEW rows, Fits(H, rs, rows) PROVE Fits(H2, rs2, rows)
    <2>1. ASSUME NEW c \in DOMAIN rows.versions
          PROVE  /\ c \in Channels
                 /\ rows.versions[c] \in Nat /\ rows.versions[c] <= Version(rs2, c)
                 /\ IsShown(rows.shown[c])
                 /\ OnWire(rows.shown[c]) = H2[c][rows.versions[c]]
      BY <1>2 DEF Fits
    <2> QED BY <2>1 DEF Fits
  <1> QED BY <1>1, <1>2

LEMMA VersionIsNat == ASSUME NEW rs, Good(rs), NEW c \in Channels PROVE Version(rs, c) \in Nat
  BY RoomFacts DEF Version

\* A call of the registry adds an entry to the history of each room it changes.
LEMMA HistoryGrows ==
    ASSUME NEW rs, Good(rs), NEW result, Good(result.rooms), Tells(rs, result),
           Counts(rs, result), \A ch \in result.changes : ~ch.closed,
           NEW H, \A c \in Channels : H[c][Version(rs, c)] = Wire(rs, c)
    PROVE  \E H2 :
              /\ \A c \in Channels : H2[c][Version(result.rooms, c)] = Wire(result.rooms, c)
              /\ \A ch \in result.changes : Leads(H2, result.rooms, ch)
              /\ \A ch : Leads(H, rs, ch) => Leads(H2, result.rooms, ch)
              /\ \A rows : Fits(H, rs, rows) => Fits(H2, result.rooms, rows)
  <1> DEFINE rs2 == result.rooms
  <1>1. PICK H2 : H2 = [c \in Channels |-> [n \in Nat |->
                            IF n = Version(rs2, c) THEN Wire(rs2, c) ELSE H[c][n]]]
    OBVIOUS
  <1>2. \A c \in Channels : Version(rs, c) \in Nat /\ Version(rs2, c) \in Nat
    BY VersionIsNat
  <1>3. \A c \in Channels : H2[c][Version(rs2, c)] = Wire(rs2, c)
    BY <1>1, <1>2
  <1>4. ASSUME NEW c \in Channels
        PROVE  /\ CountsOf(rs, rs2, result.changes, c)
               /\ TellsOf(rs, rs2, result.changes, c)
    BY DEF Counts, Tells
  <1>5. ASSUME NEW c \in Channels
        PROVE  /\ Version(rs, c) <= Version(rs2, c)
               /\ \A n \in Nat : n <= Version(rs, c) => H2[c][n] = H[c][n]
    <2>1. CASE (\A ch \in result.changes : ch.channel # c) /\ Version(rs2, c) = Version(rs, c)
      <3>1. Wire(rs2, c) = Wire(rs, c)
        BY <1>4, <2>1, ToldOpen
      <3> QED BY <1>1, <1>2, <2>1, <3>1
    <2>2. CASE Version(rs2, c) = Version(rs, c) + 1
      BY <1>1, <1>2, <2>2
    <2> QED BY <1>4, <2>1, <2>2 DEF CountsOf
  <1>6. ASSUME NEW ch \in result.changes PROVE Leads(H2, rs2, ch)
    <2> DEFINE c == ch.channel
    <2>1. c \in Channels
      BY DEF Counts
    <2>2. /\ \A other \in result.changes : other.channel = c => other = ch
          /\ ch.before = Version(rs, c) /\ ch.after = Version(rs, c) + 1
          /\ Version(rs2, c) = Version(rs, c) + 1
      BY <1>4, <2>1 DEF CountsOf
    <2>3. Wire(rs2, c) = OnWire(Replay(Shown(rs, c), ch))
      BY <1>4, <2>1, <2>2, ToldOpen
    <2>4. H2[c][ch.after] = Wire(rs2, c)
      BY <1>3, <2>1, <2>2
    <2>5. H2[c][ch.before] = OnWire(Shown(rs, c))
      <3>1. H2[c][ch.before] = H[c][Version(rs, c)]
        BY <1>2, <1>5, <2>1, <2>2
      <3> QED BY <2>1, <3>1 DEF Wire
    <2>6. IsShown(Shown(rs, c))
      BY DEF Shown, IsShown
    <2>7. ASSUME NEW sh, IsShown(sh), OnWire(sh) = H2[c][ch.before]
          PROVE  OnWire(Replay(sh, ch)) = H2[c][ch.after]
      <3>1. OnWire(Replay(sh, ch)) = OnWire(Replay(Shown(rs, c), ch))
        BY <2>5, <2>6, <2>7, ReplayOnWire
      <3> QED BY <2>3, <2>4, <3>1
    <2>8. ch.before \in Nat /\ ch.after \in Nat /\ ch.before < ch.after
          /\ ch.after <= Version(rs2, c)
      BY <1>2, <2>1, <2>2
    <2> QED BY <2>1, <2>7, <2>8 DEF Leads
  <1>7. /\ \A ch : Leads(H, rs, ch) => Leads(H2, rs2, ch)
        /\ \A rows : Fits(H, rs, rows) => Fits(H2, rs2, rows)
    BY <1>2, <1>5, Grown
  <1> QED BY <1>3, <1>6, <1>7

-----------------------------------------------------------------------------
(* The steps. *)

\* What leaves the rooms alone keeps the history, if what is queued anew is a
\* change that was to be told or a snapshot of these rooms.
LEMMA RememberedStill ==
    ASSUME Remembered, rooms' = rooms, "closing" \in spoiled => "closing" \in spoiled',
           \A e \in outbox' : \E e2 \in outbox : e.change = e2.change,
           \A H : Agrees(H) => \A msg \in Queued(down') :
                      \/ msg \in Queued(down)
                      \/ \E e \in outbox : msg = Delta(e)
                      \/ msg.op = "state" /\ Fits(H, rooms, msg),
           \A H : Agrees(H) /\ synced' => Fits(H, rooms, store')
    PROVE  Remembered'
  <1>1. CASE "closing" \in spoiled
    BY <1>1 DEF Remembered
  <1>2. CASE "closing" \notin spoiled
    <2>1. PICK H : Agrees(H)
      BY <1>2 DEF Remembered
    <2>2. \A e \in outbox' : Leads(H, rooms, e.change)
      BY <2>1 DEF Agrees
    <2>3. ASSUME NEW msg \in Queued(down')
          PROVE  /\ msg.op = "delta" => Leads(H, rooms, msg.change)
                 /\ msg.op = "state" => Fits(H, rooms, msg)
      <3>1. CASE msg \in Queued(down)
        BY <2>1, <3>1 DEF Agrees
      <3>2. CASE \E e \in outbox : msg = Delta(e)
        <4>1. PICK e \in outbox : msg = Delta(e)
          BY <3>2
        <4>2. msg.op = "delta" /\ msg.change = e.change
          BY <4>1 DEF Delta
        <4> QED BY <2>1, <4>2 DEF Agrees
      <3>3. CASE msg.op = "state" /\ Fits(H, rooms, msg)
        BY <3>3
      <3> QED BY <2>1, <2>3, <3>1, <3>2, <3>3
    <2>4. synced' => Fits(H, rooms, store')
      BY <2>1
    <2>5. \A c \in Channels : H[c][Version(rooms, c)] = Wire(rooms, c)
      BY <2>1 DEF Agrees
    <2>6. Agrees(H)'
      BY <2>2, <2>3, <2>4, <2>5 DEF Agrees
    <2> QED BY <2>6 DEF Remembered
  <1> QED BY <1>1, <1>2

\* The history does not end, nor is anything new told.
LEMMA RememberedQuiet ==
    ASSUME Remembered, UNCHANGED <<rooms, outbox, down, store, synced>>,
           "closing" \in spoiled => "closing" \in spoiled'
    PROVE  Remembered'
  <1>1. \A H : Agrees(H) /\ synced' => Fits(H, rooms, store')
    BY DEF Agrees
  <1> QED BY <1>1, RememberedStill

\* A call of the registry, under the registry's lock.
LEMMA MutateStep ==
    ASSUME SyncInv, NEW result, Mutate(result), Good(result.rooms), Tells(rooms, result),
           Counts(rooms, result)
    PROVE  SyncInv'
  <1>1. /\ rooms' = result.rooms
        /\ outbox' = outbox \cup {[number |-> budget.changes, change |-> ch,
                                   to |-> "unknown"] : ch \in result.changes}
        /\ UNCHANGED <<task, lookup, socket, client>>
    BY DEF Mutate
  <1>2. UNCHANGED <<task, cache, joined, down, up, conn, store, synced>>
    BY <1>1 DEF lookup, socket, client
  <1>3. InBounds'
    <2>1. PICK n, k : budget' = [budget EXCEPT !.changes = n, !.closings = k]
      BY DEF Mutate
    <2> QED BY <2>1 DEF SyncInv, SyncTyped, InBounds
  <1>4. \A entry \in outbox' : IsEntry(entry)
    <2>1. ASSUME NEW ch \in result.changes
          PROVE  IsEntry([number |-> budget.changes, change |-> ch, to |-> "unknown"])
      BY DEF IsEntry, Counts
    <2> QED BY <1>1, <2>1 DEF SyncInv, SyncTyped
  <1>5. SyncTyped'
    BY <1>1, <1>2, <1>3, <1>4 DEF SyncInv, SyncTyped, Tells
  <1>6. CASE \E ch \in result.changes : ch.closed
    BY <1>5, <1>6 DEF Mutate, SyncInv, Remembered
  <1>7. CASE ~\E ch \in result.changes : ch.closed
    <2>1. CASE "closing" \in spoiled
      BY <1>5, <1>7, <2>1 DEF Mutate, SyncInv, Remembered
    <2>2. CASE "closing" \notin spoiled
      <3>1. PICK H : Agrees(H)
        BY <2>2 DEF SyncInv, Remembered
      <3>2. \A c \in Channels : H[c][Version(rooms, c)] = Wire(rooms, c)
        BY <3>1 DEF Agrees
      <3>3. Good(rooms)
        BY DEF SyncInv, SyncTyped
      <3>4. PICK H2 :
              /\ \A c \in Channels : H2[c][Version(result.rooms, c)] = Wire(result.rooms, c)
              /\ \A ch \in result.changes : Leads(H2, result.rooms, ch)
              /\ \A ch : Leads(H, rooms, ch) => Leads(H2, result.rooms, ch)
              /\ \A rows : Fits(H, rooms, rows) => Fits(H2, result.rooms, rows)
        BY <1>7, <3>2, <3>3, HistoryGrows
      <3>5. \A entry \in outbox' : Leads(H2, result.rooms, entry.change)
        <4>1. ASSUME NEW ch \in result.changes
              PROVE  [number |-> budget.changes, change |-> ch, to |-> "unknown"].change = ch
          OBVIOUS
        <4> QED BY <1>1, <3>1, <3>4, <4>1 DEF Agrees
      <3>6. Agrees(H2)'
        BY <1>1, <1>2, <3>1, <3>4, <3>5 DEF Agrees
      <3> QED BY <1>5, <3>6 DEF SyncInv, Remembered
    <2> QED BY <2>1, <2>2
  <1> QED BY <1>6, <1>7

\* The changes in play.
LEMMA MemberSteps ==
    ASSUME SyncInv, NEW c \in budget.channels
    PROVE  /\ \A s \in budget.sids : MemberJoins(c, s) \/ MemberLeaves(c, s) => SyncInv'
           /\ \A u \in Users, audio \in AudioStates : MemberMutes(c, u, audio) => SyncInv'
  <1>1. Good(rooms) /\ MusicInPlace(rooms) /\ c \in Channels /\ budget.sids \subseteq Sids
    BY DEF SyncInv, SyncTyped, InBounds
  <1>2. ASSUME NEW s \in budget.sids, MemberJoins(c, s) PROVE SyncInv'
    <2>1. s \in Sids /\ SidOwner[s] \in Users
      BY <1>1, SyncAssumption
    <2>2. LET result == WebhookParticipantJoinedExclusive(rooms, c, SidOwner[s], s)
          IN  Good(result.rooms) /\ Tells(rooms, result) /\ Counts(rooms, result)
      BY <1>1, <2>1, JoinedExclusiveGood, ExclusiveTells, ExclusiveCounts
    <2> QED BY <1>2, <2>2, MutateStep DEF MemberJoins
  <1>3. ASSUME NEW s \in budget.sids, MemberLeaves(c, s) PROVE SyncInv'
    <2>1. s \in Sids /\ SidOwner[s] \in Users
      BY <1>1, SyncAssumption
    <2>2. LET result == WebhookParticipantLeft(rooms, c, SidOwner[s], s)
          IN  Good(result.rooms) /\ Tells(rooms, result) /\ Counts(rooms, result)
      BY <1>1, <2>1, LeftGood, LeaversTell, LeftCounts
    <2> QED BY <1>3, <2>2, MutateStep DEF MemberLeaves
  <1>4. ASSUME NEW u \in Users, NEW audio \in AudioStates, MemberMutes(c, u, audio)
        PROVE  SyncInv'
    <2>1. LET result == SetAudioState(rooms, c, u, audio)
          IN  Good(result.rooms) /\ Tells(rooms, result) /\ Counts(rooms, result)
      BY <1>1, AudioGood, AudioTells, RowCounts
    <2> QED BY <1>4, <2>1, MutateStep DEF MemberMutes
  <1> QED BY <1>2, <1>3, <1>4

\* What is spent is not in question.
LEMMA SpendBounds == ASSUME InBounds, NEW what, NEW n, Spend(what, n),
                            what \notin {"channels", "sids"}
                     PROVE  InBounds'
  <1>1. PICK k : budget' = [budget EXCEPT ![what] = k]
    BY DEF Spend
  <1> QED BY <1>1 DEF InBounds

\* A change becomes one that is told, or to nobody.
LEMMA PublishSteps ==
    ASSUME SyncInv, NEW entry \in outbox,
           ReadMembers(entry) \/ TellNobody(entry) \/ Broadcast(entry) \/ Overtake(entry)
    PROVE  SyncInv'
  <1>1. SyncTyped /\ Remembered /\ IsEntry(entry) /\ InBounds
    BY DEF SyncInv, SyncTyped
  <1>2. CASE ReadMembers(entry)
    <2>1. PICK to : outbox' = (outbox \ {entry}) \cup {[entry EXCEPT !.to = to]}
      BY <1>2 DEF ReadMembers
    <2>2. PICK read : read = [entry EXCEPT !.to = to]
      OBVIOUS
    <2>3. read = [number |-> entry.number, change |-> entry.change, to |-> to]
      BY <1>1, <2>2 DEF IsEntry
    <2>4. IsEntry(read) /\ read.change = entry.change
      BY <1>1, <2>3 DEF IsEntry
    <2>5. UNCHANGED <<rooms, task, cache, joined, down, up, conn, store, synced, spoiled, budget>>
      BY <1>2 DEF ReadMembers, lookup, socket, client
    <2>6. SyncTyped'
      BY <1>1, <2>1, <2>2, <2>4, <2>5 DEF SyncTyped, InBounds
    <2>7. Remembered'
      <3>1. \A e \in outbox' : \E e2 \in outbox : e.change = e2.change
        BY <2>1, <2>2, <2>4
      <3>2. \A H : Agrees(H) /\ synced' => Fits(H, rooms, store')
        BY <2>5 DEF Agrees
      <3> QED BY <1>1, <2>5, <3>1, <3>2, RememberedStill
    <2> QED BY <2>6, <2>7 DEF SyncInv
  <1>3. CASE TellNobody(entry)
    <2>1. /\ outbox' = outbox \ {entry} /\ spoiled' = spoiled \cup {"untold"}
          /\ UNCHANGED <<rooms, task, joined, down, up, conn, store, synced>>
          /\ InBounds'
      BY <1>1, <1>3, SpendBounds DEF TellNobody, lookup, socket, client
    <2>2. SyncTyped'
      BY <1>1, <2>1 DEF SyncTyped
    <2>3. Remembered'
      <3>1. \A H : Agrees(H) /\ synced' => Fits(H, rooms, store')
        BY <2>1 DEF Agrees
      <3> QED BY <1>1, <2>1, <3>1, RememberedStill
    <2> QED BY <2>2, <2>3 DEF SyncInv
  <1>4. ASSUME Tell(entry), InBounds',
               "closing" \in spoiled => "closing" \in spoiled',
               IsQueue(down'), Queued(down') \subseteq Queued(down) \cup {Delta(entry)},
               ~conn => down' = <<>>
        PROVE  SyncInv'
    <2>1. /\ outbox' = outbox \ {entry}
          /\ UNCHANGED <<rooms, task, joined, up, conn, store, synced>>
      BY <1>4 DEF Tell, client
    <2>2. IsMessage(Delta(entry))
      BY <1>1 DEF IsMessage, Delta, IsEntry
    <2>3. SyncTyped'
      BY <1>1, <1>4, <2>1, <2>2 DEF SyncTyped
    <2>4. Remembered'
      <3>1. \A H : Agrees(H) /\ synced' => Fits(H, rooms, store')
        BY <2>1 DEF Agrees
      <3>2. \A msg \in Queued(down') : msg \in Queued(down) \/ \E e \in outbox : msg = Delta(e)
        BY <1>4
      <3> QED BY <1>1, <1>4, <2>1, <3>1, <3>2, RememberedStill
    <2> QED BY <2>3, <2>4 DEF SyncInv
  <1>5. CASE Broadcast(entry)
    <2>1. IsQueue(down) /\ IsQueue(Append(down, Delta(entry)))
          /\ Queued(Append(down, Delta(entry))) = Queued(down) \cup {Delta(entry)}
      BY <1>1, QueueAppend DEF SyncTyped
    <2>2. \/ down' = down
          \/ conn /\ down' = Append(down, Delta(entry))
      BY <1>5 DEF Broadcast
    <2>3. IsQueue(down') /\ Queued(down') \subseteq Queued(down) \cup {Delta(entry)}
          /\ (~conn => down' = <<>>)
      BY <1>1, <2>1, <2>2 DEF SyncTyped
    <2>4. Tell(entry) /\ InBounds' /\ ("closing" \in spoiled => "closing" \in spoiled')
      BY <1>1, <1>5 DEF Broadcast, InBounds
    <2> QED BY <1>4, <2>3, <2>4
  <1>6. CASE Overtake(entry)
    <2>1. /\ down # <<>> /\ IsQueue(down)
          /\ down' = SubSeq(down, 1, Len(down) - 1) \o <<Delta(entry), down[Len(down)]>>
      BY <1>1, <1>6 DEF Overtake, SyncTyped
    <2>2. IsQueue(down') /\ Queued(down') \subseteq Queued(down) \cup {Delta(entry)}
      BY <2>1, QueueOvertaken
    <2>3. conn
      BY <1>1, <2>1 DEF SyncTyped
    <2>4. Tell(entry) /\ InBounds' /\ ("closing" \in spoiled => "closing" \in spoiled')
      BY <1>1, <1>6, SpendBounds DEF Overtake
    <2> QED BY <1>4, <2>2, <2>3, <2>4
  <1> QED BY <1>2, <1>3, <1>5, <1>6

\* The cache of members, and the registration, which no socket precedes.
LEMMA LookupSteps ==
    ASSUME SyncInv, CacheExpires \/ Register \/ InvalidateMembers PROVE SyncInv'
  <1>1. /\ UNCHANGED <<rooms, outbox, task, down, up, conn, store, synced, spoiled, budget>>
        /\ joined' # "yes" => joined # "yes"
    BY DEF CacheExpires, Register, InvalidateMembers, socket, client
  <1>2. SyncTyped'
    BY <1>1 DEF SyncInv, SyncTyped, InBounds
  <1>3. Remembered'
    BY <1>1, RememberedQuiet DEF SyncInv
  <1> QED BY <1>2, <1>3 DEF SyncInv

\* The connection's task, up to what it sends.
LEMMA TaskSteps ==
    ASSUME SyncInv, TakeRequest \/ RefuseRequest \/ ReadActive \/ SnapshotFails
    PROVE  SyncInv'
  <1>1. SyncTyped /\ Remembered
    BY DEF SyncInv
  <1>2. /\ UNCHANGED <<rooms, outbox, joined, down, conn, store, synced>>
        /\ "closing" \in spoiled => "closing" \in spoiled'
    BY DEF TakeRequest, RefuseRequest, ReadActive, SnapshotFails, lookup, server, socket,
       client
  <1>3. up' \in Seq(Requests) /\ task' \in Work
    <2>1. up \in Seq(Requests) /\ task \in Work
      BY <1>1 DEF SyncTyped
    <2>2. up # <<>> => Head(up) \in Requests /\ Tail(up) \in Seq(Requests)
      BY <2>1, HeadTailProperties
    <2>3. CASE TakeRequest
      BY <2>2, <2>3 DEF TakeRequest, Work
    <2>4. CASE RefuseRequest
      BY <2>1, <2>2, <2>4 DEF RefuseRequest, server
    <2>5. CASE ReadActive
      <3>1. task.scope \in Requests
        BY <2>1, <2>5 DEF ReadActive, Work, Idle
      <3>2. DOMAIN rooms \subseteq Channels
        BY <1>1 DEF SyncTyped, Good
      <3>3. PICK wanted : /\ wanted \subseteq DOMAIN rooms
                          /\ task' = [at |-> "contents", scope |-> task.scope, wanted |-> wanted]
        BY <2>5 DEF ReadActive
      <3>4. task' \in Work
        BY <3>1, <3>2, <3>3 DEF Work, Requests
      <3> QED BY <2>1, <2>5, <3>4 DEF ReadActive, socket
    <2>6. CASE SnapshotFails
      BY <2>1, <2>6 DEF SnapshotFails, socket, Work
    <2> QED BY <2>3, <2>4, <2>5, <2>6
  <1>4. InBounds'
    <2>1. InBounds
      BY <1>1 DEF SyncTyped
    <2>2. CASE TakeRequest \/ ReadActive
      BY <2>1, <2>2 DEF TakeRequest, ReadActive, InBounds
    <2>3. CASE RefuseRequest
      BY <2>1, <2>3, SpendBounds DEF RefuseRequest
    <2>4. CASE SnapshotFails
      BY <2>1, <2>4, SpendBounds DEF SnapshotFails
    <2> QED BY <2>2, <2>3, <2>4
  <1>5. SyncTyped'
    BY <1>1, <1>2, <1>3, <1>4 DEF SyncTyped
  <1>6. Remembered'
    BY <1>1, <1>2, RememberedQuiet
  <1> QED BY <1>5, <1>6 DEF SyncInv

\* A snapshot says of each room what the history has at its version.
LEMMA SendStep == ASSUME SyncInv, SendState PROVE SyncInv'
  <1>1. SyncTyped /\ Remembered
    BY DEF SyncInv
  <1> DEFINE there == task.wanted \cap DOMAIN rooms
             msg   == [op       |-> "state",
                       scope    |-> task.scope,
                       versions |-> [c \in there |-> rooms[c].version],
                       shown    |-> [c \in there |-> Shown(rooms, c)]]
  <1>2. /\ down' = IF conn THEN Append(down, msg) ELSE down
        /\ task' = Idle
        /\ UNCHANGED <<rooms, outbox, joined, up, conn, store, synced, spoiled, budget>>
    BY DEF SendState, lookup, client
  <1>3. /\ msg.op = "state" /\ DOMAIN msg.versions = there /\ DOMAIN msg.shown = there
        /\ \A c \in there : msg.versions[c] = rooms[c].version /\ msg.shown[c] = Shown(rooms, c)
    OBVIOUS
  <1> HIDE DEF msg
  <1>4. IsQueue(down) /\ IsQueue(Append(down, msg))
        /\ Queued(Append(down, msg)) = Queued(down) \cup {msg}
    BY <1>1, QueueAppend DEF SyncTyped
  <1>5. \/ down' = down
        \/ conn /\ down' = Append(down, msg)
    BY <1>2
  <1>6. IsQueue(down') /\ Queued(down') \subseteq Queued(down) \cup {msg}
        /\ (~conn => down' = <<>>)
    BY <1>1, <1>4, <1>5 DEF SyncTyped
  <1>7. IsMessage(msg)
    BY <1>3 DEF IsMessage
  <1>8. SyncTyped'
    BY <1>1, <1>2, <1>6, <1>7 DEF SyncTyped, InBounds, Work
  <1>9. ASSUME NEW H, Agrees(H) PROVE Fits(H, rooms, msg)
    <2>1. ASSUME NEW c \in there
          PROVE  /\ c \in Channels
                 /\ msg.versions[c] = Version(rooms, c) /\ Version(rooms, c) \in Nat
                 /\ IsShown(msg.shown[c])
                 /\ OnWire(msg.shown[c]) = H[c][msg.versions[c]]
      <3>1. c \in Channels /\ Good(rooms)
        BY <1>1 DEF SyncTyped, Good
      <3>2. msg.versions[c] = Version(rooms, c) /\ msg.shown[c] = Shown(rooms, c)
        BY <1>3 DEF Version, RoomOf
      <3>3. IsShown(Shown(rooms, c))
        BY DEF IsShown, Shown
      <3>4. H[c][Version(rooms, c)] = OnWire(Shown(rooms, c))
        BY <1>9, <3>1 DEF Agrees, Wire
      <3> QED BY <3>1, <3>2, <3>3, <3>4, VersionIsNat
    <2> QED BY <1>3, <2>1 DEF Fits
  <1>10. Remembered'
    <2>1. \A H : Agrees(H) => \A m \in Queued(down') :
              m \in Queued(down) \/ (m.op = "state" /\ Fits(H, rooms, m))
      BY <1>3, <1>6, <1>9
    <2>2. \A H : Agrees(H) /\ synced' => Fits(H, rooms, store')
      BY <1>2 DEF Agrees
    <2> QED BY <1>1, <1>2, <2>1, <2>2, RememberedStill
  <1> QED BY <1>8, <1>10 DEF SyncInv

\* A history starts with the rooms as they are.
LEMMA HistoryStarts ==
    ASSUME NEW rs, Good(rs)
    PROVE  \E H : \A c \in Channels : H[c][Version(rs, c)] = Wire(rs, c)
  <1>1. PICK H : H = [c \in Channels |-> [n \in Nat |-> Wire(rs, c)]]
    OBVIOUS
  <1>2. \A c \in Channels : H[c][Version(rs, c)] = Wire(rs, c)
    BY <1>1, VersionIsNat
  <1> QED BY <1>2

\* With nothing to be told and nothing on a socket, the rooms are all there is.
LEMMA RememberedAnew ==
    ASSUME Good(rooms'), outbox' = {}, down' = <<>>, ~synced' PROVE Remembered'
  <1>1. PICK H : \A c \in Channels : H[c][Version(rooms', c)] = Wire(rooms', c)
    BY HistoryStarts
  <1>2. Agrees(H)'
    BY <1>1, EmptyQueue DEF Agrees
  <1> QED BY <1>2 DEF Remembered

\* No room, no member.
LEMMA EmptyRegistry ==
    /\ Good(EmptyMap) /\ MusicInPlace(EmptyMap)
  BY DEF Good, MusicInPlace, EmptyMap

\* A socket comes up and what may have gone wrong on the one before it is over,
\* unless there is something left to be told.
LEMMA ConnectStep == ASSUME SyncInv, Connect PROVE SyncInv'
  <1>1. SyncTyped /\ Remembered
    BY DEF SyncInv
  <1>2. /\ ~conn /\ joined = "yes" /\ conn' = TRUE
        /\ task' = [at |-> "active", scope |-> {}]
        /\ Sends(RequestSnapshot(store, {}))
        /\ spoiled' = IF outbox = {} /\ cache # "without" THEN {} ELSE spoiled
        /\ UNCHANGED <<rooms, outbox, joined, down, synced, budget>>
    BY DEF Connect, lookup
  <1>3. down = <<>> /\ ~synced
    BY <1>1, <1>2 DEF SyncTyped
  <1>4. IsStore(store') /\ up' \in Seq(Requests)
    <2>1. Asks(store, RequestSnapshot(store, {}))
      BY <1>1, RequestAsks DEF SyncTyped, Requests
    <2>2. store' = RequestSnapshot(store, {}).store
          /\ up' = up \o RequestSnapshot(store, {}).sent
      BY <1>2 DEF Sends
    <2> QED BY <1>1, <2>1, <2>2, ConcatProperties DEF Asks, SyncTyped
  <1>5. SyncTyped'
    <2>1. task' \in Work
      BY <1>2 DEF Work, Requests
    <2> QED BY <1>1, <1>2, <1>3, <1>4, <2>1 DEF SyncTyped, InBounds
  <1>6. Remembered'
    <2>1. CASE outbox = {} /\ cache # "without"
      BY <1>1, <1>2, <1>3, <2>1, RememberedAnew DEF SyncTyped
    <2>2. CASE ~(outbox = {} /\ cache # "without")
      BY <1>1, <1>2, <1>3, <2>2, RememberedStill
    <2> QED BY <2>1, <2>2
  <1> QED BY <1>5, <1>6 DEF SyncInv

\* The socket is lost, with the server or without it.
LEMMA CutSteps == ASSUME SyncInv, Lose \/ Restart PROVE SyncInv'
  <1>1. SyncTyped /\ Remembered /\ InBounds
    BY DEF SyncInv, SyncTyped
  <1>2. conn' = FALSE /\ down' = <<>> /\ up' = <<>> /\ task' = Idle /\ synced' = FALSE
    BY DEF Lose, Restart, Cut
  <1>3. /\ UNCHANGED <<joined, store, spoiled>> /\ InBounds'
        /\ \/ UNCHANGED <<rooms, outbox>>
           \/ rooms' = EmptyMap /\ outbox' = {}
    BY <1>1, SpendBounds DEF Lose, Restart, lookup
  <1>4. SyncTyped'
    <2>1. IsQueue(down') /\ Queued(down') = {} /\ up' \in Seq(Requests) /\ task' \in Work
      BY <1>2, EmptyQueue, EmptySeq DEF Work
    <2>2. Good(rooms') /\ MusicInPlace(rooms') /\ \A entry \in outbox' : IsEntry(entry)
      BY <1>1, <1>3, EmptyRegistry DEF SyncTyped
    <2> QED BY <1>1, <1>2, <1>3, <2>1, <2>2 DEF SyncTyped
  <1>5. Remembered'
    <2>1. CASE UNCHANGED <<rooms, outbox>>
      BY <1>1, <1>2, <1>3, <2>1, EmptyQueue, RememberedStill
    <2>2. CASE rooms' = EmptyMap /\ outbox' = {}
      BY <1>2, <2>2, EmptyRegistry, RememberedAnew
    <2> QED BY <1>3, <2>1, <2>2
  <1> QED BY <1>4, <1>5 DEF SyncInv

\* What the client sends is typed, whether the socket takes it or not.
LEMMA SentTyped ==
    ASSUME NEW result, Sends(result), result.sent \in Seq(Requests), up \in Seq(Requests)
    PROVE  store' = result.store /\ up' \in Seq(Requests)
  BY ConcatProperties DEF Sends

\* The store takes what comes through the socket.
LEMMA DeliverStep == ASSUME SyncInv, Deliver PROVE SyncInv'
  <1>1. SyncTyped /\ Remembered
    BY DEF SyncInv
  <1> DEFINE msg    == Head(down)
             result == IF msg.op = "state" THEN ApplyState(store, msg)
                       ELSE ApplyDelta(store, msg.change)
  <1>2. /\ down # <<>> /\ down' = Tail(down)
        /\ UNCHANGED <<rooms, outbox, task, joined, conn, spoiled, budget>>
        /\ Sends(result)
        /\ synced' = (synced \/ (msg.op = "state" /\ msg.scope = {}))
    BY DEF Deliver, server, lookup
  <1>3. msg \in Queued(down) /\ IsQueue(down') /\ Queued(down') \subseteq Queued(down)
    BY <1>1, <1>2, QueueTail DEF SyncTyped
  <1>4. IsMessage(msg) /\ IsStore(store) /\ up \in Seq(Requests)
    BY <1>1, <1>3 DEF SyncTyped
  <1>5. conn
    BY <1>1, <1>2 DEF SyncTyped
  <1> HIDE DEF msg
  <1>6. CASE msg.op = "state"
    <2>1. DOMAIN msg.versions = DOMAIN msg.shown
      BY <1>4, <1>6 DEF IsMessage
    <2>2. result = ApplyState(store, msg)
      BY <1>6
    <2> HIDE DEF result
    <2>3. /\ IsStore(result.store) /\ result.sent \in Seq(Requests)
          /\ \A H, rs : Fits(H, rs, msg) /\ (msg.scope # {} => Fits(H, rs, store))
                           => Fits(H, rs, result.store)
      BY <1>4, <2>1, <2>2, StateApplied
    <2>4. store' = result.store /\ up' \in Seq(Requests)
      BY <1>2, <1>4, <2>3, SentTyped
    <2>5. SyncTyped'
      BY <1>1, <1>2, <1>3, <1>5, <2>3, <2>4 DEF SyncTyped, InBounds
    <2>6. ASSUME NEW H, Agrees(H), synced' PROVE Fits(H, rooms, store')
      <3>1. Fits(H, rooms, msg)
        BY <1>3, <1>6, <2>6 DEF Agrees
      <3>2. msg.scope # {} => Fits(H, rooms, store)
        BY <1>2, <2>6 DEF Agrees
      <3> QED BY <2>3, <2>4, <3>1, <3>2
    <2>7. Remembered'
      BY <1>1, <1>2, <1>3, <2>6, RememberedStill
    <2> QED BY <2>5, <2>7 DEF SyncInv
  <1>7. CASE msg.op # "state"
    <2>1. msg.op = "delta" /\ msg.change.channel \in Channels
      BY <1>4, <1>7 DEF IsMessage
    <2>2. result = ApplyDelta(store, msg.change)
      BY <1>7
    <2> HIDE DEF result
    <2>3. /\ IsStore(result.store) /\ result.sent \in Seq(Requests)
          /\ \A H, rs : Fits(H, rs, store) /\ Leads(H, rs, msg.change)
                           => Fits(H, rs, result.store)
      BY <1>4, <2>1, <2>2, DeltaApplied
    <2>4. store' = result.store /\ up' \in Seq(Requests)
      BY <1>2, <1>4, <2>3, SentTyped
    <2>5. SyncTyped'
      BY <1>1, <1>2, <1>3, <1>5, <2>3, <2>4 DEF SyncTyped, InBounds
    <2>6. ASSUME NEW H, Agrees(H), synced' PROVE Fits(H, rooms, store')
      <3>1. Leads(H, rooms, msg.change)
        BY <1>3, <2>1, <2>6 DEF Agrees
      <3>2. Fits(H, rooms, store)
        BY <1>2, <1>7, <2>6 DEF Agrees
      <3> QED BY <2>3, <2>4, <3>1, <3>2
    <2>7. Remembered'
      BY <1>1, <1>2, <1>3, <2>6, RememberedStill
    <2> QED BY <2>5, <2>7 DEF SyncInv
  <1> QED BY <1>6, <1>7

\* Time passes for the store.
LEMMA ClockSteps == ASSUME SyncInv, Elapse \/ TimerFires PROVE SyncInv'
  <1>1. SyncTyped /\ Remembered /\ IsStore(store) /\ up \in Seq(Requests)
    BY DEF SyncInv, SyncTyped
  <1>2. UNCHANGED <<rooms, outbox, task, joined, down, conn, synced, spoiled, budget>>
    BY DEF Elapse, TimerFires, server, lookup, socket
  <1>3. PICK v, s : \E a, p \in Requests : \E f, t, r \in BOOLEAN :
            /\ store = StoreOf(v, s, a, p, f, t, r)
            /\ DOMAIN v = DOMAIN s
            /\ t <=> f \/ p # {}
    BY <1>1 DEF IsStore
  <1>4. PICK a \in Requests, p \in Requests, f \in BOOLEAN, t \in BOOLEAN, r \in BOOLEAN :
            /\ store = StoreOf(v, s, a, p, f, t, r) /\ DOMAIN v = DOMAIN s
            /\ t <=> f \/ p # {}
    BY <1>3
  <1>5. /\ IsStore(store') /\ up' \in Seq(Requests)
        /\ store'.versions = store.versions /\ store'.shown = store.shown
    <2>1. CASE Elapse
      <3>1. PICK no : no = FALSE
        OBVIOUS
      <3>2. store' = [store EXCEPT !.recent = no]
        BY <2>1, <3>1 DEF Elapse
      <3>3. store' = StoreOf(v, s, a, p, f, t, no)
        BY <1>4, <3>2 DEF StoreOf
      <3>4. IsStore(store')
        BY <1>4, <3>1, <3>3 DEF IsStore
      <3>5. store'.versions = store.versions /\ store'.shown = store.shown
        BY <1>4, <3>3 DEF StoreOf
      <3> QED BY <1>1, <2>1, <3>4, <3>5 DEF Elapse, socket
    <2>2. CASE TimerFires
      <3>1. Asks(store, Flush(store))
        BY <1>4, FlushAsks
      <3>2. Sends(Flush(store))
        BY <2>2 DEF TimerFires
      <3> QED BY <1>1, <3>1, <3>2, SentTyped DEF Asks
    <2> QED BY <2>1, <2>2
  <1>6. SyncTyped'
    BY <1>1, <1>2, <1>5 DEF SyncTyped, InBounds
  <1>7. Remembered'
    <2>1. \A H : Agrees(H) /\ synced' => Fits(H, rooms, store')
      BY <1>2, <1>5 DEF Agrees, Fits
    <2> QED BY <1>1, <1>2, <2>1, RememberedStill
  <1> QED BY <1>6, <1>7 DEF SyncInv

-----------------------------------------------------------------------------
(* The theorems. *)

LEMMA SyncInit == Init => SyncInv
  <1> SUFFICES ASSUME Init PROVE SyncInv
    OBVIOUS
  <1>1. /\ rooms = EmptyMap /\ outbox = {} /\ task = Idle /\ down = <<>> /\ up = <<>>
        /\ conn = FALSE /\ store = EmptyStore /\ synced = FALSE /\ spoiled = {}
        /\ budget \in Budgets
    BY DEF Init
  <1>2. InBounds
    BY <1>1, SyncAssumption DEF InBounds
  <1>3. IsStore(store)
    <2>1. store = StoreOf(EmptyMap, EmptyMap, {}, {}, FALSE, FALSE, FALSE)
      BY <1>1 DEF EmptyStore, StoreOf
    <2>2. {} \in Requests
      BY DEF Requests
    <2> QED BY <2>1, <2>2 DEF IsStore
  <1>4. SyncTyped
    BY <1>1, <1>2, <1>3, EmptyRegistry, EmptyQueue, EmptySeq DEF SyncTyped, Work
  <1>5. Remembered
    <2>1. PICK H : \A c \in Channels : H[c][Version(rooms, c)] = Wire(rooms, c)
      BY <1>1, EmptyRegistry, HistoryStarts
    <2>2. Agrees(H)
      BY <1>1, <2>1, EmptyQueue DEF Agrees
    <2> QED BY <2>2 DEF Remembered
  <1> QED BY <1>4, <1>5 DEF SyncInv

LEMMA SyncStep == SyncInv /\ [Next]_vars => SyncInv'
  <1> SUFFICES ASSUME SyncInv, [Next]_vars PROVE SyncInv'
    OBVIOUS
  <1>1. ASSUME NEW c \in budget.channels, NEW s \in budget.sids,
               MemberJoins(c, s) \/ MemberLeaves(c, s)
        PROVE  SyncInv'
    BY <1>1, MemberSteps
  <1>2. ASSUME NEW c \in budget.channels, NEW u \in Users, NEW audio \in AudioStates,
               MemberMutes(c, u, audio)
        PROVE  SyncInv'
    BY <1>2, MemberSteps
  <1>3. CASE Publish
    BY <1>3, PublishSteps DEF Publish
  <1>4. CASE \E entry \in outbox : Overtake(entry) \/ TellNobody(entry)
    BY <1>4, PublishSteps
  <1>5. CASE CacheExpires \/ Register \/ InvalidateMembers
    BY <1>5, LookupSteps
  <1>6. CASE Snapshot \/ RefuseRequest \/ SnapshotFails
    BY <1>6, TaskSteps, SendStep DEF Snapshot
  <1>7. CASE Connect
    BY <1>7, ConnectStep
  <1>8. CASE Lose \/ Restart
    BY <1>8, CutSteps
  <1>9. CASE Deliver
    BY <1>9, DeliverStep
  <1>10. CASE Elapse \/ TimerFires
    BY <1>10, ClockSteps
  <1>11. CASE UNCHANGED vars
    <2>1. UNCHANGED <<rooms, outbox, task, joined, down, up, conn, store, synced, spoiled, budget>>
      BY <1>11 DEF vars, server, lookup, socket, client
    <2>2. SyncTyped'
      BY <2>1 DEF SyncInv, SyncTyped, InBounds
    <2>3. Remembered'
      BY <2>1, RememberedQuiet DEF SyncInv
    <2> QED BY <2>2, <2>3 DEF SyncInv
  <1> QED
    BY <1>1, <1>2, <1>3, <1>4, <1>5, <1>6, <1>7, <1>8, <1>9, <1>10, <1>11 DEF Next

LEMMA SyncAlways == Spec => []SyncInv
  BY SyncInit, SyncStep, PTL DEF Spec

\* The types of VoiceSync: among them that nobody has a socket before the
\* registration is through, that the store keeps a version for every room it shows,
\* and that its timer runs exactly while a request is queued.
THEOREM SyncType == Spec => []TypeOK
  <1>1. ASSUME SyncInv PROVE TypeOK
    <2>1. IsRegistry(rooms)
      BY <1>1, GoodIsRegistry DEF SyncInv, SyncTyped
    <2>2. task.at \in {"idle", "active", "contents"}
      BY <1>1 DEF SyncInv, SyncTyped, Work, Idle
    <2>3. PICK v, s : \E a, p \in Requests : \E f, t, r \in BOOLEAN :
              /\ store = StoreOf(v, s, a, p, f, t, r)
              /\ DOMAIN v = DOMAIN s
              /\ t <=> f \/ p # {}
      BY <1>1 DEF SyncInv, SyncTyped, IsStore
    <2>4. PICK a \in Requests, p \in Requests, f \in BOOLEAN, t \in BOOLEAN, r \in BOOLEAN :
              /\ store = StoreOf(v, s, a, p, f, t, r) /\ DOMAIN v = DOMAIN s
              /\ t <=> f \/ p # {}
      BY <2>3
    <2>5. /\ store.versions = v /\ store.shown = s /\ store.awaiting = a
          /\ store.pendingIds = p /\ store.pendingFull = f /\ store.timer = t
      BY <2>4 DEF StoreOf
    <2>6. store.awaiting \cup store.pendingIds \subseteq Channels
      BY <2>5 DEF Requests
    <2>7. store.timer <=> (store.pendingFull \/ store.pendingIds # {})
      BY <2>4, <2>5
    <2> QED BY <1>1, <2>1, <2>2, <2>4, <2>5, <2>6, <2>7 DEF SyncInv, SyncTyped, TypeOK
  <1> QED BY <1>1, SyncAlways, PTL

\* INV-C2 as far as the code keeps it: however deltas of concurrent tasks and
\* snapshots are ordered on the socket, and however many sockets and servers are
\* lost, a client that was sent all rooms and holds the server's version of a room
\* shows that room, while no room has closed since its socket came up.
THEOREM LossesShow == Spec => []LossIsDetectableWhileOpen
  <1>1. ASSUME SyncInv PROVE LossIsDetectableWhileOpen
    <2>1. ASSUME "closing" \notin spoiled, synced,
                 NEW c \in DOMAIN rooms \cap DOMAIN store.versions,
                 store.versions[c] = rooms[c].version
          PROVE  OnWire(store.shown[c]) = OnWire(Shown(rooms, c))
      <3>1. PICK H : Agrees(H)
        BY <1>1, <2>1 DEF SyncInv, Remembered
      <3>2. c \in Channels /\ OnWire(store.shown[c]) = H[c][rooms[c].version]
        BY <2>1, <3>1 DEF Agrees, Fits
      <3>3. Version(rooms, c) = rooms[c].version
        BY <2>1 DEF Version, RoomOf
      <3> QED BY <3>1, <3>2, <3>3 DEF Agrees, Wire
    <2> QED BY <2>1 DEF LossIsDetectableWhileOpen, LossIsDetectable
  <1> QED BY <1>1, SyncAlways, PTL
=============================================================================
