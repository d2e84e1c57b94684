------------------------ MODULE VoiceControlPlaneProofs ------------------------
(***************************************************************************)
(* The control plane for every set of channels, users, sessions and        *)
(* tracks and every budget: its types, and that the row of a session that  *)
(* is connected survives every step but a reconcile by a list without it,  *)
(* an unknown join of another session of its user and a restart.           *)
(*                                                                         *)
(* The registry cannot tell a late participant_left from a timely one: it  *)
(* removes the row whose session the webhook names.  What makes that right *)
(* is outside it: LiveKit says that a session left only once it has (Over) *)
(* and never gives a SID twice (Announced) or in two rooms (Placed).  With *)
(* them the rooms are Good and everything in flight is well typed.         *)
(***************************************************************************)
EXTENDS VoiceControlPlane, VoiceRegistryLemmas, SequenceTheorems

Events == TrackEvents \cup {"participant_joined", "participant_left", "room_finished"}

\* The webhooks LiveKit sends.
Webhooks ==
    {w \in [event : Events, channel : Channels, sid : Sids \cup {NoSid},
            track : TrackSids \cup {NoTrack}] :
        /\ w.event # "room_finished" => w.sid \in Sids
        /\ w.event \in TrackEvents => w.track \in TrackSids}

\* Where a call to LiveKit may stand, and what it holds there.
Calls ==
    [at : {"idle", "rooms"}]
        \cup [at : {"one"}, channel : Channels]
        \cup [at : {"applyOne"}, channel : Channels, list : LiveLists]
        \cup [at : {"lists"}, todo : SUBSET Channels, lists : Maps(Channels, LiveLists)]

Hints ==
    {NoHint} \cup [state : {"joining", "leaving"}, channel : Channels,
                   sid : Sids \cup {NoSid}]

Kicks == [channel : Channels, user : Users, sid : Sids \cup {NoSid},
          by : {"hint", "owner"}]

Allowances ==
    [hint : Nat, request : Nat, owner : Nat, late : Nat, again : Nat,
     failure : Nat, restart : Nat, deliveries : Nat, channels : SUBSET Channels,
     sids : SUBSET Sids, tracks : SUBSET TrackSids, events : SUBSET TrackEvents]

Typed ==
    /\ live \in [Channels -> LiveLists]
    /\ DOMAIN net \subseteq Webhooks
    /\ seen \in Seq(Webhooks) /\ Len(seen) <= SeenCap
    /\ pending \subseteq Channels
    /\ loop \in [at : {"directed", "expire"}, due : SUBSET Channels]
    /\ task \in [{"loop", "request"} -> Calls]
    /\ hint \in [Users -> Hints]
    /\ joined \in [Users -> SUBSET Channels]
    /\ kicks \subseteq Kicks
    /\ budget \in Allowances

\* Who is connected is connected as himself, and some webhook told of his session.
Announced ==
    \A c \in Channels : \A u \in DOMAIN live[c] :
        /\ SidOwner[live[c][u].sid] = u
        /\ \E w \in DOMAIN net : w.sid = live[c][u].sid

\* A session LiveKit has said to have left a room is not in it.
Over ==
    \A w \in DOMAIN net : w.event = "participant_left" =>
        \A u \in DOMAIN live[w.channel] : live[w.channel][u].sid # w.sid

\* A session joined one room and is in no other.
Placed ==
    \A w \in DOMAIN net : w.event = "participant_joined" =>
        \A c \in Channels : \A u \in DOMAIN live[c] :
            live[c][u].sid = w.sid => c = w.channel

PlaneInv == Typed /\ Good(rooms) /\ Announced /\ Over /\ Placed

-----------------------------------------------------------------------------
(* Maps. *)

\* HashMap::insert keeps a map's type.
LEMMA MapsPut ==
    ASSUME NEW D, NEW R, NEW f \in Maps(D, R), NEW x \in D, NEW v \in R
    PROVE  Put(f, x, v) \in Maps(D, R)
  <1>1. PICK S \in SUBSET D : f \in [S -> R]
    BY DEF Maps
  <1>2. S \cup {x} \in SUBSET D /\ Put(f, x, v) \in [S \cup {x} -> R]
    BY <1>1 DEF Put
  <1> QED BY <1>2 DEF Maps

\* Keeping some keys of a map keeps its type.
LEMMA MapsRestrict ==
    ASSUME NEW D, NEW R, NEW f \in Maps(D, R), NEW S, S \subseteq DOMAIN f
    PROVE  Restrict(f, S) \in Maps(D, R)
  BY DEF Maps, Restrict

\* The empty map has every type.
LEMMA MapsEmpty == ASSUME NEW D, NEW R PROVE EmptyMap \in Maps(D, R)
  BY DEF Maps, EmptyMap

\* The keys and values of a map.
LEMMA MapsFacts ==
    ASSUME NEW D, NEW R, NEW f \in Maps(D, R)
    PROVE  DOMAIN f \subseteq D /\ \A x \in DOMAIN f : f[x] \in R
  BY DEF Maps

-----------------------------------------------------------------------------
(* LiveKit. *)

Flags == Maps(TrackSids, BOOLEAN)

\* A row of ListParticipants, read and written.
LEMMA LiveRows ==
    ASSUME NEW list \in LiveLists
    PROVE  /\ DOMAIN list \subseteq Users
           /\ \A u \in DOMAIN list : list[u].sid \in Sids /\ list[u].tracks \in Flags
           /\ \A u \in Users : \A s \in Sids : \A flags \in Flags :
                 Put(list, u, [sid |-> s, tracks |-> flags]) \in LiveLists
           /\ \A S \in SUBSET DOMAIN list : Restrict(list, S) \in LiveLists
  <1> DEFINE Row == [sid : Sids, tracks : Flags]
  <1>1. LiveLists = Maps(Users, Row)
    BY DEF LiveLists, Flags
  <1>2. DOMAIN list \subseteq Users /\ \A u \in DOMAIN list : list[u] \in Row
    <2> HIDE DEF Row
    <2> QED BY <1>1, MapsFacts
  <1>3. \A u \in DOMAIN list : list[u].sid \in Sids /\ list[u].tracks \in Flags
    BY <1>2
  <1>4. ASSUME NEW u \in Users, NEW s \in Sids, NEW flags \in Flags
        PROVE  Put(list, u, [sid |-> s, tracks |-> flags]) \in LiveLists
    <2>1. [sid |-> s, tracks |-> flags] \in Row
      OBVIOUS
    <2> HIDE DEF Row
    <2> QED BY <1>1, <2>1, MapsPut
  <1>5. \A S \in SUBSET DOMAIN list : Restrict(list, S) \in LiveLists
    <2> HIDE DEF Row
    <2> QED BY <1>1, MapsRestrict
  <1> QED BY <1>2, <1>3, <1>4, <1>5

\* The empty answer is an answer.
LEMMA EmptyList == EmptyMap \in LiveLists /\ EmptyMap \in Flags
  BY MapsEmpty DEF LiveLists, Flags

\* What ListParticipants answers of a room.
LEMMA ListedType ==
    ASSUME Typed, NEW c \in Channels
    PROVE  Listed(c) \in LiveLists /\ DOMAIN Listed(c) \subseteq DOMAIN live[c]
  <1>1. live[c] \in LiveLists
    BY DEF Typed
  <1> DEFINE S == {u \in DOMAIN live[c] : live[c][u].sid \notin HiddenSids}
  <1>2. S \in SUBSET DOMAIN live[c]
    OBVIOUS
  <1>3. Listed(c) = Restrict(live[c], S)
    BY DEF Listed
  <1> HIDE DEF S
  <1>4. Listed(c) \in LiveLists
    BY <1>1, <1>2, <1>3, LiveRows
  <1> QED BY <1>2, <1>3, <1>4 DEF Restrict

\* Spending an allowance leaves allowances.
LEMMA SpendFacts ==
    ASSUME Typed, NEW what \in {"hint", "request", "owner", "late", "again", "failure", "restart"},
           Spend(what)
    PROVE  budget' \in Allowances
  <1>1. /\ budget \in Allowances /\ budget[what] > 0
        /\ budget' = [budget EXCEPT ![what] = budget[what] - 1]
    BY DEF Typed, Spend
  <1>2. budget[what] \in Nat
    BY <1>1 DEF Allowances
  <1>3. budget[what] - 1 \in Nat
    BY <1>1, <1>2
  <1>4. PICK n \in Nat : budget' = [budget EXCEPT ![what] = n]
    BY <1>1, <1>3
  <1> QED BY <1>1, <1>4 DEF Allowances

\* Sending a webhook forgets none that was sent.
LEMMA EmitFacts ==
    ASSUME NEW ws, Emit(ws) PROVE DOMAIN net' = DOMAIN net \cup ws
  BY DEF Emit

\* The room of a session, and its user's row there, by what it says of both.
LEMMA LiveFact ==
    ASSUME Typed, NEW c \in Channels, NEW u \in DOMAIN live[c]
    PROVE  u \in Users /\ live[c][u].sid \in Sids
  <1>1. live[c] \in LiveLists
    BY DEF Typed
  <1> QED BY <1>1, LiveRows

\* Connecting: the new session is announced and the one it replaces is over.
LEMMA ConnectStep ==
    ASSUME PlaneInv, NEW c \in Channels, NEW s \in Sids, Connect(c, s)
    PROVE  /\ live' \in [Channels -> LiveLists]
           /\ DOMAIN net' \subseteq Webhooks
           /\ Announced' /\ Over' /\ Placed'
  <1> DEFINE u     == SidOwner[s]
             joins == Webhook("participant_joined", c, s, NoTrack)
             old   == IF u \in DOMAIN live[c]
                      THEN {Webhook("participant_left", c, live[c][u].sid, NoTrack)} ELSE {}
             row   == [sid |-> s, tracks |-> EmptyMap]
             new   == Put(live[c], u, row)
  <1>1. /\ Typed /\ Announced /\ Over /\ Placed
        /\ live \in [Channels -> LiveLists] /\ live[c] \in LiveLists
        /\ DOMAIN net \subseteq Webhooks /\ u \in Users
    BY ControlPlaneAssumption DEF PlaneInv, Typed
  <1>2. /\ Fresh(s) /\ live' = [live EXCEPT ![c] = new]
        /\ DOMAIN net' = DOMAIN net \cup (old \cup {joins})
    BY EmitFacts DEF Connect
  <1>3. \A w \in old : /\ w \in Webhooks /\ u \in DOMAIN live[c]
                       /\ w.event = "participant_left" /\ w.channel = c
                       /\ w.sid = live[c][u].sid
    BY <1>1, LiveFact DEF Webhook, Webhooks, Events, TrackEvents
  <1>4. /\ joins \in Webhooks /\ joins.event = "participant_joined"
        /\ joins.sid = s /\ joins.channel = c
    BY DEF Webhook, Webhooks, Events, TrackEvents
  <1>5. new \in LiveLists
    BY <1>1, LiveRows, EmptyList
  <1>6. DOMAIN new = DOMAIN live[c] \cup {u} /\ new[u].sid = s
        /\ \A v \in DOMAIN live[c] \ {u} : new[v] = live[c][v]
    BY DEF Put
  <1> HIDE DEF joins, old, new, u
  <1>7. live' \in [Channels -> LiveLists]
    BY <1>1, <1>2, <1>5
  <1>8. DOMAIN net' \subseteq Webhooks
    BY <1>1, <1>2, <1>3, <1>4
  <1>9. live'[c] = new /\ \A d \in Channels \ {c} : live'[d] = live[d]
    BY <1>1, <1>2
  <1>10. Announced'
    <2> SUFFICES ASSUME NEW d \in Channels, NEW v \in DOMAIN live'[d]
                 PROVE  /\ SidOwner[live'[d][v].sid] = v
                        /\ \E w \in DOMAIN net' : w.sid = live'[d][v].sid
      BY DEF Announced
    <2>1. CASE d = c /\ v = u
      BY <1>2, <1>4, <1>6, <1>9, <2>1 DEF u
    <2>2. CASE ~(d = c /\ v = u)
      <3>1. v \in DOMAIN live[d] /\ live'[d][v] = live[d][v]
        BY <1>6, <1>9, <2>2
      <3> QED BY <1>1, <1>2, <3>1 DEF Announced
    <2> QED BY <2>1, <2>2
  <1>11. Over'
    <2> SUFFICES ASSUME NEW w \in DOMAIN net', w.event = "participant_left",
                        NEW v \in DOMAIN live'[w.channel],
                        live'[w.channel][v].sid = w.sid
                 PROVE  FALSE
      BY DEF Over
    <2> DEFINE d == w.channel
    <2>1. d \in Channels
      BY <1>8 DEF Webhooks
    <2>2. CASE d = c /\ v = u
      <3>1. w.sid = s
        BY <1>6, <1>9, <2>2
      <3>2. w \in old
        BY <1>2, <1>4, <3>1 DEF Fresh
      <3>3. \E x \in DOMAIN net : x.sid = s
        BY <1>1, <1>3, <3>1, <3>2 DEF Announced
      <3> QED BY <1>2, <3>3 DEF Fresh
    <2>3. CASE ~(d = c /\ v = u)
      <3>1. v \in DOMAIN live[d] /\ live'[d][v] = live[d][v]
        BY <1>6, <1>9, <2>1, <2>3
      <3>2. CASE w \in DOMAIN net
        BY <1>1, <3>1, <3>2 DEF Over
      <3>3. CASE w \in old
        <4>1. d = c /\ w.sid = live[c][u].sid /\ u \in DOMAIN live[c]
          BY <1>3, <3>3
        <4>2. SidOwner[w.sid] = u /\ SidOwner[w.sid] = v
          BY <1>1, <2>1, <3>1, <4>1 DEF Announced
        <4> QED BY <2>3, <4>1, <4>2
      <3> QED BY <1>2, <1>4, <3>2, <3>3
    <2> QED BY <2>2, <2>3
  <1>12. Placed'
    <2> SUFFICES ASSUME NEW w \in DOMAIN net', w.event = "participant_joined",
                        NEW d \in Channels, NEW v \in DOMAIN live'[d],
                        live'[d][v].sid = w.sid
                 PROVE  d = w.channel
      BY DEF Placed
    <2>1. CASE d = c /\ v = u
      <3>1. w.sid = s
        BY <1>6, <1>9, <2>1
      <3>2. w = joins
        BY <1>2, <1>3, <3>1 DEF Fresh
      <3> QED BY <1>4, <2>1, <3>2
    <2>2. CASE ~(d = c /\ v = u)
      <3>1. v \in DOMAIN live[d] /\ live[d][v].sid = w.sid
        BY <1>6, <1>9, <2>2
      <3>2. w.sid # s
        BY <1>1, <1>2, <3>1 DEF Announced, Fresh
      <3>3. w \in DOMAIN net
        BY <1>2, <1>3, <1>4, <3>2
      <3> QED BY <1>1, <3>1, <3>3 DEF Placed
    <2> QED BY <2>1, <2>2
  <1> QED BY <1>7, <1>8, <1>10, <1>11, <1>12

\* Leaving: the session that ends is over.
LEMMA LeavesStep ==
    ASSUME PlaneInv, NEW c \in Channels, NEW u \in Users, Leaves(c, u)
    PROVE  /\ live' \in [Channels -> LiveLists]
           /\ DOMAIN net' \subseteq Webhooks
           /\ Announced' /\ Over' /\ Placed'
  <1> DEFINE left == Webhook("participant_left", c, live[c][u].sid, NoTrack)
             done == IF DOMAIN live[c] = {u} THEN {Webhook("room_finished", c, NoSid, NoTrack)}
                     ELSE {}
             new  == Without(live[c], {u})
  <1>1. /\ Typed /\ Announced /\ Over /\ Placed
        /\ live \in [Channels -> LiveLists] /\ live[c] \in LiveLists
        /\ DOMAIN net \subseteq Webhooks
    BY DEF PlaneInv, Typed
  <1>2. /\ u \in DOMAIN live[c] /\ live' = [live EXCEPT ![c] = new]
        /\ DOMAIN net' = DOMAIN net \cup ({left} \cup done)
    BY EmitFacts DEF Leaves
  <1>3. /\ left \in Webhooks /\ left.channel = c /\ left.sid = live[c][u].sid
        /\ left.event # "participant_joined"
    BY <1>1, <1>2, LiveFact DEF Webhook, Webhooks, Events, TrackEvents
  <1>4. \A w \in done : w \in Webhooks /\ w.event = "room_finished"
    BY DEF Webhook, Webhooks, Events, TrackEvents
  <1>5. new \in LiveLists
    BY <1>1, LiveRows DEF Without
  <1>6. DOMAIN new = DOMAIN live[c] \ {u}
        /\ \A v \in DOMAIN live[c] \ {u} : new[v] = live[c][v]
    BY DEF Without, Restrict
  <1> HIDE DEF left, done, new
  <1>7. live' \in [Channels -> LiveLists]
    BY <1>1, <1>2, <1>5
  <1>8. DOMAIN net' \subseteq Webhooks
    BY <1>1, <1>2, <1>3, <1>4
  <1>9. \A d \in Channels : \A v \in DOMAIN live'[d] :
            /\ v \in DOMAIN live[d] /\ live'[d][v] = live[d][v]
            /\ ~(d = c /\ v = u)
    BY <1>1, <1>2, <1>6
  <1>10. Announced'
    BY <1>1, <1>2, <1>9 DEF Announced
  <1>11. Over'
    <2> SUFFICES ASSUME NEW w \in DOMAIN net', w.event = "participant_left",
                        NEW v \in DOMAIN live'[w.channel],
                        live'[w.channel][v].sid = w.sid
                 PROVE  FALSE
      BY DEF Over
    <2> DEFINE d == w.channel
    <2>1. d \in Channels
      BY <1>8 DEF Webhooks
    <2>2. v \in DOMAIN live[d] /\ live[d][v].sid = w.sid /\ ~(d = c /\ v = u)
      BY <1>9, <2>1
    <2>3. CASE w \in DOMAIN net
      BY <1>1, <2>2, <2>3 DEF Over
    <2>4. CASE w = left
      <3>1. d = c /\ w.sid = live[c][u].sid
        BY <1>3, <2>4
      <3>2. SidOwner[w.sid] = u /\ SidOwner[w.sid] = v
        BY <1>1, <1>2, <2>1, <2>2, <3>1 DEF Announced
      <3> QED BY <2>2, <3>1, <3>2
    <2> QED BY <1>2, <1>4, <2>3, <2>4
  <1>12. Placed'
    BY <1>1, <1>2, <1>3, <1>4, <1>9 DEF Placed
  <1> QED BY <1>7, <1>8, <1>10, <1>11, <1>12

\* A track is published, muted, unmuted or unpublished: the sessions stay.
LEMMA TrackStep ==
    ASSUME PlaneInv, NEW c \in Channels, NEW t \in TrackSids, NEW event \in TrackEvents,
           TrackEvent(c, t, event)
    PROVE  /\ live' \in [Channels -> LiveLists]
           /\ DOMAIN net' \subseteq Webhooks
           /\ Announced' /\ Over' /\ Placed'
  <1> DEFINE s      == TrackSession[t]
             u      == SidOwner[s]
             w      == Webhook(event, c, s, t)
             tracks == live[c][u].tracks
             flags  == IF event = "track_unpublished" THEN Without(tracks, {t})
                       ELSE Put(tracks, t, event = "track_muted")
  <1>1. /\ Typed /\ Announced /\ Over /\ Placed
        /\ live \in [Channels -> LiveLists] /\ live[c] \in LiveLists
        /\ DOMAIN net \subseteq Webhooks /\ s \in Sids /\ u \in Users
    BY ControlPlaneAssumption DEF PlaneInv, Typed
  <1>2. /\ u \in DOMAIN live[c] /\ live' = [live EXCEPT ![c][u].tracks = flags]
        /\ DOMAIN net' = DOMAIN net \cup {w}
    BY EmitFacts DEF TrackEvent
  <1>3. w \in Webhooks /\ w.event \notin {"participant_left", "participant_joined"}
    BY <1>1 DEF Webhook, Webhooks, Events, TrackEvents
  <1>4. tracks \in Flags
    BY <1>1, <1>2, LiveRows
  <1>5. flags \in Flags
    <2> HIDE DEF tracks
    <2>1. \A muted \in BOOLEAN : Put(tracks, t, muted) \in Flags
      BY <1>4, MapsPut DEF Flags
    <2>2. Without(tracks, {t}) \in Flags
      BY <1>4, MapsRestrict DEF Flags, Without
    <2> QED BY <2>1, <2>2 DEF TrackEvents
  <1> HIDE DEF w, tracks, flags, u, s
  <1>6. /\ DOMAIN live' = Channels
        /\ \A d \in Channels : DOMAIN live'[d] = DOMAIN live[d]
        /\ \A d \in Channels : \A v \in DOMAIN live[d] :
              ~(d = c /\ v = u) => live'[d][v] = live[d][v]
        /\ live'[c][u] = [live[c][u] EXCEPT !.tracks = flags]
    BY <1>1, <1>2
  <1>7. \A d \in Channels \ {c} : live'[d] = live[d]
    BY <1>1, <1>2
  <1>8. live[c][u] \in [sid : Sids, tracks : Flags]
    <2> DEFINE Row == [sid : Sids, tracks : Flags]
    <2>1. live[c] \in Maps(Users, Row)
      BY <1>1 DEF LiveLists, Flags
    <2> HIDE DEF Row
    <2>2. live[c][u] \in Row
      BY <1>2, <2>1, MapsFacts
    <2> QED BY <2>2 DEF Row
  <1>9. live'[c][u] = [sid |-> live[c][u].sid, tracks |-> flags]
    BY <1>6, <1>8
  <1>10. live'[c] = Put(live[c], u, [sid |-> live[c][u].sid, tracks |-> flags])
    <2>1. live'[c] = [live[c] EXCEPT ![u] = [live[c][u] EXCEPT !.tracks = flags]]
      BY <1>1, <1>2
    <2>2. live'[c] = [v \in DOMAIN live[c] |-> live'[c][v]]
      BY <2>1
    <2>3. DOMAIN live[c] \cup {u} = DOMAIN live[c]
      BY <1>2
    <2> QED BY <1>6, <1>9, <2>2, <2>3 DEF Put
  <1>11. live'[c] \in LiveLists
    BY <1>1, <1>5, <1>8, <1>10, LiveRows
  <1>12. live' \in [Channels -> LiveLists]
    <2>1. live' = [d \in Channels |-> live'[d]]
      BY <1>1, <1>2
    <2> QED BY <1>1, <1>7, <1>11, <2>1
  <1>13. \A d \in Channels : \A v \in DOMAIN live'[d] :
            v \in DOMAIN live[d] /\ live'[d][v].sid = live[d][v].sid
    BY <1>6, <1>9
  <1>14. Announced'
    BY <1>1, <1>2, <1>13 DEF Announced
  <1>15. DOMAIN net' \subseteq Webhooks
    BY <1>1, <1>2, <1>3
  <1>16. Over'
    <2> SUFFICES ASSUME NEW x \in DOMAIN net', x.event = "participant_left",
                        NEW v \in DOMAIN live'[x.channel]
                 PROVE  live'[x.channel][v].sid # x.sid
      BY DEF Over
    <2>1. x.channel \in Channels /\ x \in DOMAIN net
      BY <1>2, <1>3, <1>15 DEF Webhooks
    <2> QED BY <1>1, <1>13, <2>1 DEF Over
  <1>17. Placed'
    BY <1>1, <1>2, <1>3, <1>13 DEF Placed
  <1> QED BY <1>12, <1>14, <1>15, <1>16, <1>17

\* A webhook comes again: LiveKit has sent no other.
LEMMA RedeliverStep ==
    ASSUME PlaneInv, NEW w \in DOMAIN net, Redeliver(w)
    PROVE  Typed' /\ UNCHANGED <<rooms, live>> /\ DOMAIN net' = DOMAIN net
  <1>1. /\ Typed /\ UNCHANGED <<live, server, hint>> /\ DOMAIN net' = DOMAIN net
        /\ Spend("again")
    BY DEF PlaneInv, Redeliver
  <1>2. budget' \in Allowances
    BY <1>1, SpendFacts
  <1> QED BY <1>1, <1>2 DEF Typed, server

-----------------------------------------------------------------------------
(* The registry without versions. *)

\* Erasing versions changes no row.
LEMMA UnversionedFacts ==
    ASSUME NEW rs, Good(rs)
    PROVE  /\ Good(Unversioned(rs))
           /\ DOMAIN Unversioned(rs) = DOMAIN rs
           /\ \A c : Members(Unversioned(rs), c) = Members(rs, c)
           /\ \A c \in DOMAIN rs : Unversioned(rs)[c].participants = rs[c].participants
  <1> DEFINE rs2 == Unversioned(rs)
  <1>1. DOMAIN rs2 = DOMAIN rs /\ rs2 = [c \in DOMAIN rs |-> rs2[c]]
    BY DEF Unversioned
  <1>2. ASSUME NEW c \in DOMAIN rs
        PROVE  rs2[c] = [version |-> 0, participants |-> rs[c].participants,
                         tracks |-> rs[c].tracks]
    <2>1. rs[c] = [version |-> rs[c].version, participants |-> rs[c].participants,
                   tracks |-> rs[c].tracks]
      BY DEF Good, GoodRoom
    <2>2. rs2[c] = [rs[c] EXCEPT !.version = 0]
      BY DEF Unversioned
    <2> QED BY <2>1, <2>2
  <1> HIDE DEF rs2
  <1>3. ASSUME NEW c \in DOMAIN rs PROVE GoodRoom(rs2[c])
    <2> DEFINE room == rs2[c]
    <2>1. GoodRoom(rs[c])
      BY DEF Good
    <2>2. /\ room = [version |-> 0, participants |-> rs[c].participants,
                     tracks |-> rs[c].tracks]
          /\ room.version = 0 /\ room.participants = rs[c].participants
          /\ room.tracks = rs[c].tracks
      BY <1>2
    <2> HIDE DEF room
    <2>3. GoodRoom(room)
      BY <2>1, <2>2 DEF GoodRoom
    <2> QED BY <2>3 DEF room
  <1>4. Good(rs2)
    BY <1>1, <1>3 DEF Good
  <1>5. \A c : Members(rs2, c) = Members(rs, c)
    BY <1>1, <1>2 DEF Members, RoomOf
  <1> QED BY <1>1, <1>2, <1>4, <1>5 DEF rs2

\* So what an operation keeps, it keeps unversioned.
LEMMA UnversionedKeeps ==
    ASSUME NEW rs, NEW rs2, Good(rs2), Keeps(rs, rs2)
    PROVE  Keeps(rs, Unversioned(rs2))
  <1> SUFFICES ASSUME NEW c \in DOMAIN rs, NEW u \in Members(rs, c),
                      ~IsProvisional(rs[c].participants[u])
               PROVE  /\ u \in Members(Unversioned(rs2), c)
                      /\ Unversioned(rs2)[c].participants[u].sid
                           = rs[c].participants[u].sid
    BY DEF Keeps
  <1>1. u \in Members(rs2, c) /\ rs2[c].participants[u].sid = rs[c].participants[u].sid
    BY DEF Keeps
  <1>2. c \in DOMAIN rs2
    BY <1>1 DEF Members, RoomOf, EmptyRoom, EmptyMap
  <1> QED BY <1>1, <1>2, UnversionedFacts

\* One step after another keeps whom each keeps.
LEMMA KeepsTransitive ==
    ASSUME NEW rs, NEW rs2, NEW rs3, Keeps(rs, rs2), Keeps(rs2, rs3)
    PROVE  Keeps(rs, rs3)
  <1> SUFFICES ASSUME NEW c \in DOMAIN rs, NEW u \in Members(rs, c),
                      ~IsProvisional(rs[c].participants[u])
               PROVE  /\ u \in Members(rs3, c)
                      /\ rs3[c].participants[u].sid = rs[c].participants[u].sid
    BY DEF Keeps
  <1>1. u \in Members(rs2, c) /\ rs2[c].participants[u].sid = rs[c].participants[u].sid
    BY DEF Keeps
  <1>2. c \in DOMAIN rs2
    BY <1>1 DEF Members, RoomOf, EmptyRoom, EmptyMap
  <1>3. ~IsProvisional(rs2[c].participants[u])
    BY <1>1 DEF IsProvisional
  <1> QED BY <1>1, <1>2, <1>3 DEF Keeps

\* The rows of connected sessions are in rs2 what they are in rooms.
Survive(rs2) ==
    \A c \in DOMAIN rooms : \A u \in Members(rooms, c) \cap DOMAIN live[c] :
        rooms[c].participants[u].sid = live[c][u].sid =>
            /\ u \in Members(rs2, c)
            /\ rs2[c].participants[u].sid = live[c][u].sid

\* Who keeps the confirmed rows keeps those of connected sessions.
LEMMA KeepsSurvive ==
    ASSUME PlaneInv, NEW rs2, Keeps(rooms, rs2) PROVE Survive(rs2)
  <1> SUFFICES ASSUME NEW c \in DOMAIN rooms, NEW u \in Members(rooms, c) \cap DOMAIN live[c],
                      rooms[c].participants[u].sid = live[c][u].sid
               PROVE  /\ u \in Members(rs2, c)
                      /\ rs2[c].participants[u].sid = live[c][u].sid
    BY DEF Survive
  <1>1. c \in Channels /\ live[c][u].sid \in Sids
    BY LiveFact DEF PlaneInv, Good
  <1>2. ~IsProvisional(rooms[c].participants[u])
    BY <1>1, RegistryAssumption DEF IsProvisional
  <1> QED BY <1>2 DEF Keeps

\* The same after a step, but for the rows the step displaces.
Kept(c, u) ==
    rooms[c].participants[u].sid = live[c][u].sid =>
        \/ /\ u \in Members(rooms', c)
           /\ rooms'[c].participants[u].sid = live[c][u].sid
        \/ Displaces(c, u, live[c][u].sid)

AllKept == \A c \in DOMAIN rooms : \A u \in Members(rooms, c) \cap DOMAIN live[c] : Kept(c, u)

LEMMA SurviveKept == ASSUME Survive(rooms') PROVE AllKept
  BY DEF Survive, AllKept, Kept

-----------------------------------------------------------------------------
(* Rows through joins and lists. *)

\* The exclusive join takes rows of its own user only, and not one that already
\* has its session.
LEMMA JoinedLeavesOthers ==
    ASSUME NEW rs, NEW c, NEW u, NEW s, NEW d \in DOMAIN rs, NEW v \in Members(rs, d),
           v # u \/ (d = c /\ rs[d].participants[v].sid = s)
    PROVE  /\ v \in Members(WebhookParticipantJoinedExclusive(rs, c, u, s).rooms, d)
           /\ WebhookParticipantJoinedExclusive(rs, c, u, s).rooms[d].participants[v]
                = rs[d].participants[v]
  <1> DEFINE previous == {e \in DOMAIN rs \ {c} : u \in Members(rs, e)}
             leavers  == [e \in previous |-> {u}]
             evicted  == Remove(rs, leavers, "webhook.participant_left").rooms
             result   == WebhookParticipantJoined(evicted, c, u, s)
  <1>1. WebhookParticipantJoinedExclusive(rs, c, u, s).rooms = result.rooms
    BY DEF WebhookParticipantJoinedExclusive
  <1>2. DOMAIN leavers \subseteq DOMAIN rs /\ (d \in DOMAIN leavers => v \notin leavers[d])
    OBVIOUS
  <1> HIDE DEF leavers
  <1>3. /\ d \in DOMAIN evicted /\ v \in Members(evicted, d)
        /\ evicted[d].participants[v] = rs[d].participants[v]
    <2>1. \A reason :
             /\ d \in DOMAIN Remove(rs, leavers, reason).rooms
             /\ v \in Members(Remove(rs, leavers, reason).rooms, d)
             /\ Remove(rs, leavers, reason).rooms[d].participants[v] = rs[d].participants[v]
      BY <1>2, RemoveLeavesOthers
    <2> QED BY <2>1
  <1> HIDE DEF evicted
  <1> DEFINE P   == RoomOf(evicted, c).participants
             row == IF u \in Members(evicted, c) THEN Confirm(P[u], s) ELSE NewRow(s)
  <1>4. CASE u \in Members(evicted, c) /\ P[u].sid = s
    <2>1. result.rooms = evicted
      BY <1>4 DEF WebhookParticipantJoined, Ignored
    <2> QED BY <1>1, <1>3, <2>1
  <1>5. CASE ~(u \in Members(evicted, c) /\ P[u].sid = s)
    <2>1. /\ \A e \in DOMAIN evicted \ {c} : e \in DOMAIN result.rooms
                                             /\ result.rooms[e] = evicted[e]
          /\ c \in DOMAIN result.rooms
          /\ result.rooms[c].participants = Put(P, u, row)
      BY <1>5 DEF WebhookParticipantJoined, Accept, Put
    <2>2. CASE d # c
      BY <1>1, <1>3, <2>1, <2>2 DEF Members, RoomOf
    <2>3. CASE d = c
      <3>1. P = evicted[d].participants /\ v \in DOMAIN P
        BY <1>3, <2>3 DEF Members, RoomOf
      <3>2. v # u
        BY <1>3, <1>5, <2>3, <3>1 DEF Members
      <3>3. v \in DOMAIN Put(P, u, row) /\ Put(P, u, row)[v] = P[v]
        BY <3>1, <3>2 DEF Put
      <3> QED BY <1>1, <1>3, <2>1, <2>3, <3>1, <3>3 DEF Members, RoomOf
    <2> QED BY <2>2, <2>3
  <1> QED BY <1>4, <1>5

\* A list keeps the rows of other rooms, and those it shows with their session.
LEMMA ListKeepsShown ==
    ASSUME NEW rs, NEW c, NEW list, NEW d \in DOMAIN rs, NEW v \in Members(rs, d),
           d # c \/ Shows(list, v, rs[d].participants[v].sid)
    PROVE  /\ d \in DOMAIN ReconcileRoom(rs, c, list).rooms
           /\ v \in Members(ReconcileRoom(rs, c, list).rooms, d)
           /\ ReconcileRoom(rs, c, list).rooms[d].participants[v].sid
                = rs[d].participants[v].sid
  <1> DEFINE room    == RoomOf(rs, c)
             members == ReconciledMembers(rs, c, list)
             tracks  == ReconciledTracks(rs, c, list)
             after   == ReconcileRoom(rs, c, list).rooms
  <1>1. CASE members = room.participants /\ tracks = room.tracks
    <2>1. after = Put(rs, c, room)
      BY <1>1 DEF ReconcileRoom
    <2>2. d \in DOMAIN after /\ after[d] = rs[d]
      BY <2>1 DEF Put, RoomOf
    <2> QED BY <2>2 DEF Members, RoomOf
  <1>2. CASE ~(members = room.participants /\ tracks = room.tracks)
    <2> DEFINE new == [version |-> room.version + 1, participants |-> members,
                       tracks |-> tracks]
    <2>1. after = IF DOMAIN members = {} THEN Without(Put(rs, c, new), {c})
                  ELSE Put(rs, c, new)
      BY <1>2 DEF ReconcileRoom, Accept
    <2> HIDE DEF members, tracks, room, after
    <2>2. CASE d # c
      <3>1. d \in DOMAIN after /\ after[d] = rs[d]
        BY <2>1, <2>2 DEF Put, Without, Restrict
      <3> QED BY <3>1 DEF Members, RoomOf, after
    <2>3. CASE d = c
      <3> DEFINE old == RoomOf(rs, c).participants
      <3>1. v \in DOMAIN list /\ list[v].sid = old[v].sid /\ v \in DOMAIN old
            /\ old = rs[d].participants
        BY <2>3 DEF Shows, Members, RoomOf
      <3>2. v \in DOMAIN members /\ members[v] = Confirm(old[v], list[v].sid)
        BY <3>1 DEF members, ReconciledMembers
      <3>3. after = Put(rs, c, new)
        BY <2>1, <3>2
      <3>4. d \in DOMAIN after /\ after[d].participants = members
        BY <2>3, <3>3 DEF Put
      <3> QED BY <3>1, <3>2, <3>4 DEF Members, RoomOf, Confirm, after
    <2> QED BY <2>2, <2>3
  <1> QED BY <1>1, <1>2

\* So does a sweep, of the rooms it names.
LEMMA SweepKeepsShown ==
    ASSUME NEW lists, NEW c \in DOMAIN rooms, NEW u \in Members(rooms, c),
           c \in DOMAIN lists, Shows(lists[c], u, rooms[c].participants[u].sid)
    PROVE  /\ u \in Members(Pruned(Reconciled(lists), lists), c)
           /\ Pruned(Reconciled(lists), lists)[c].participants[u].sid
                = rooms[c].participants[u].sid
  <1> DEFINE after(d) == IF d \in DOMAIN lists THEN ReconcileRoom(rooms, d, lists[d]).rooms
                         ELSE rooms
             room == ReconcileRoom(rooms, c, lists[c]).rooms
             all  == Reconciled(lists)
             kept == Pruned(all, lists)
  <1>1. /\ c \in DOMAIN room /\ u \in Members(room, c)
        /\ room[c].participants[u].sid = rooms[c].participants[u].sid
    BY ListKeepsShown
  <1>2. after(c) = room
    OBVIOUS
  <1>3. all = [d \in {e \in DOMAIN rooms \cup DOMAIN lists : e \in DOMAIN after(e)} |->
                  after(d)[d]]
    BY DEF Reconciled
  <1> HIDE DEF after, room
  <1>4. c \in DOMAIN all /\ all[c] = room[c]
    BY <1>1, <1>2, <1>3
  <1> HIDE DEF all
  <1>5. c \in DOMAIN kept /\ kept[c] = all[c]
    BY <1>4 DEF Pruned, ReconcilePrune, CloseChannels, Without, Restrict
  <1> HIDE DEF kept
  <1> QED BY <1>1, <1>4, <1>5 DEF Members, RoomOf, kept, all

-----------------------------------------------------------------------------
(* Webhooks. *)

\* Every event leaves well-formed rooms, and every one but a join the rows of
\* connected sessions.
LEMMA EventFacts ==
    ASSUME PlaneInv, NEW w \in DOMAIN net
    PROVE  /\ Good(EventResult(w).rooms)
           /\ w.event # "participant_joined" => Survive(EventResult(w).rooms)
  <1> DEFINE c == w.channel
             u == IF w.sid = NoSid THEN Bot ELSE SidOwner[w.sid]
  <1>1. /\ Typed /\ Good(rooms) /\ Over
        /\ w \in Webhooks
    BY DEF PlaneInv, Typed
  <1>2. /\ w.event \in Events /\ c \in Channels /\ w.sid \in Sids \cup {NoSid}
        /\ w.event # "room_finished" => w.sid \in Sids
        /\ w.event \in TrackEvents => w.track \in TrackSids
    BY <1>1 DEF Webhooks
  <1>3. u \in Users
    BY <1>2, RegistryAssumption, ControlPlaneAssumption
  <1> HIDE DEF u
  <1>4. CASE w.event = "participant_joined"
    <2>1. EventResult(w) = WebhookParticipantJoinedExclusive(rooms, c, u, w.sid)
      BY <1>4 DEF EventResult, u
    <2> QED BY <1>1, <1>2, <1>3, <1>4, <2>1, JoinedExclusiveGood
  <1>5. CASE w.event = "participant_left"
    <2>1. EventResult(w) = WebhookParticipantLeft(rooms, c, u, w.sid)
      BY <1>5 DEF EventResult, u
    <2>2. Good(EventResult(w).rooms)
      BY <1>1, <1>2, <1>3, <2>1, LeftGood
    <2>3. ASSUME NEW d \in DOMAIN rooms, NEW v \in Members(rooms, d) \cap DOMAIN live[d],
                 rooms[d].participants[v].sid = live[d][v].sid
          PROVE  /\ v \in Members(EventResult(w).rooms, d)
                 /\ EventResult(w).rooms[d].participants[v].sid = live[d][v].sid
      <3>1. ~(d = c /\ rooms[d].participants[v].sid = w.sid)
        BY <1>1, <1>5, <2>3 DEF Over
      <3> QED BY <2>1, <2>3, <3>1, LeftKeepsOtherSessions
    <2> QED BY <2>2, <2>3 DEF Survive
  <1>6. CASE w.event = "track_published"
    <2>1. EventResult(w) = WebhookTrackPublished(rooms, c, u, w.sid, w.track)
      BY <1>6 DEF EventResult, u
    <2>2. w.track \in TrackSids
      BY <1>2, <1>6 DEF TrackEvents
    <2> QED BY <1>1, <1>2, <1>3, <2>1, <2>2, PublishedGood, PublishedKeeps, KeepsSurvive
  <1>7. CASE w.event = "track_unpublished"
    <2>1. EventResult(w) = WebhookTrackUnpublished(rooms, c, w.track)
      BY <1>7 DEF EventResult
    <2> QED BY <1>1, <1>2, <2>1, UnpublishedGood, TrackWebhooksKeep, KeepsSurvive
  <1>8. CASE w.event \in {"track_muted", "track_unmuted"}
    <2>1. PICK muted \in BOOLEAN : EventResult(w) = WebhookTrackMuted(rooms, c, w.track, muted)
      <3>1. CASE w.event = "track_muted"
        BY <3>1 DEF EventResult
      <3>2. CASE w.event = "track_unmuted"
        BY <3>2 DEF EventResult
      <3> QED BY <1>8, <3>1, <3>2
    <2> QED BY <1>1, <1>2, <2>1, MutedGood, TrackWebhooksKeep, KeepsSurvive
  <1>9. CASE w.event = "room_finished"
    <2>1. EventResult(w) = Ignored(rooms)
      BY <1>9 DEF EventResult, Finished
    <2>2. Good(EventResult(w).rooms)
      BY <1>1, <2>1 DEF Ignored
    <2> QED BY <2>1, <2>2, IgnoredKeeps, KeepsSurvive
  <1> QED BY <1>2, <1>4, <1>5, <1>6, <1>7, <1>8, <1>9 DEF Events, TrackEvents

\* Survive looks at rows only.
LEMMA UnversionedSurvive ==
    ASSUME NEW rs2, Good(rs2), Survive(rs2) PROVE Survive(Unversioned(rs2))
  <1> SUFFICES ASSUME NEW c \in DOMAIN rooms, NEW u \in Members(rooms, c) \cap DOMAIN live[c],
                      rooms[c].participants[u].sid = live[c][u].sid
               PROVE  /\ u \in Members(Unversioned(rs2), c)
                      /\ Unversioned(rs2)[c].participants[u].sid = live[c][u].sid
    BY DEF Survive
  <1>1. u \in Members(rs2, c) /\ rs2[c].participants[u].sid = live[c][u].sid
    BY DEF Survive
  <1>2. c \in DOMAIN rs2
    BY <1>1 DEF Members, RoomOf, EmptyRoom, EmptyMap
  <1> QED BY <1>1, <1>2, UnversionedFacts

\* The ring holds what it was given, and no more than it may.
LEMMA RingFacts ==
    ASSUME Typed, NEW w \in Webhooks
    PROVE  /\ Ring(Append(seen, w)) \in Seq(Webhooks)
           /\ Len(Ring(Append(seen, w))) <= SeenCap
  <1> DEFINE s == Append(seen, w)
  <1>1. seen \in Seq(Webhooks) /\ Len(seen) \in Nat /\ Len(seen) <= SeenCap /\ SeenCap \in Nat
    BY ControlPlaneAssumption, LenProperties DEF Typed
  <1>2. s \in Seq(Webhooks) /\ Len(s) = Len(seen) + 1 /\ s # <<>>
    BY <1>1, AppendProperties
  <1> HIDE DEF s
  <1>3. Tail(s) \in Seq(Webhooks) /\ Len(Tail(s)) = Len(s) - 1
    BY <1>2, HeadTailProperties
  <1> QED BY <1>1, <1>2, <1>3 DEF Ring, s

\* A joined-webhook the ring does not know takes the rows of its user's other
\* sessions and of nobody else.
LEMMA JoinKeeps ==
    ASSUME PlaneInv, NEW w \in DOMAIN net, Receive(w), w.event = "participant_joined",
           w \notin Range(seen), rooms' = Unversioned(EventResult(w).rooms)
    PROVE  AllKept
  <1> DEFINE u  == SidOwner[w.sid]
             rs == WebhookParticipantJoinedExclusive(rooms, w.channel, u, w.sid).rooms
  <1>1. /\ Typed /\ Placed /\ w.sid \in Sids /\ w.channel \in Channels
        /\ w.sid # NoSid
    BY RegistryAssumption DEF PlaneInv, Typed, Webhooks
  <1>2. EventResult(w).rooms = rs
    BY <1>1 DEF EventResult
  <1>3. Good(rs)
    BY <1>2, EventFacts
  <1> SUFFICES ASSUME NEW c \in DOMAIN rooms, NEW v \in Members(rooms, c) \cap DOMAIN live[c],
                      rooms[c].participants[v].sid = live[c][v].sid,
                      ~Displaces(c, v, live[c][v].sid)
               PROVE  /\ v \in Members(rooms', c)
                      /\ rooms'[c].participants[v].sid = live[c][v].sid
    BY DEF AllKept, Kept
  <1>4. v # u \/ w.sid = live[c][v].sid
    BY DEF Displaces
  <1>5. c \in Channels
    BY DEF PlaneInv, Good
  <1>6. w.sid = live[c][v].sid => c = w.channel
    BY <1>1, <1>5 DEF Placed
  <1> HIDE DEF u
  <1>7. /\ v \in Members(rs, c)
        /\ rs[c].participants[v] = rooms[c].participants[v]
    BY <1>4, <1>6, JoinedLeavesOthers
  <1>8. c \in DOMAIN rs
    BY <1>7 DEF Members, RoomOf, EmptyRoom, EmptyMap
  <1> HIDE DEF rs
  <1> QED BY <1>2, <1>3, <1>7, <1>8, UnversionedFacts

\* A webhook is received.
LEMMA ReceiveStep ==
    ASSUME PlaneInv, NEW w \in DOMAIN net, Receive(w)
    PROVE  Typed' /\ Good(rooms') /\ AllKept
  <1>1. /\ Typed /\ Good(rooms) /\ w \in Webhooks
        /\ w.channel \in Channels
    BY DEF PlaneInv, Typed, Webhooks
  <1>2. /\ DOMAIN net' = DOMAIN net
        /\ UNCHANGED <<live, loop, sweepDue, task, joined, kicks, hint>>
    BY DEF Receive
  <1>3. Survive(rooms)
    BY DEF Survive
  <1>4. \/ UNCHANGED <<pending, budget>>
        \/ Schedules(w)
    BY DEF Receive
  <1>5. pending' \subseteq Channels /\ budget' \in Allowances
    <2>1. CASE UNCHANGED <<pending, budget>>
      BY <1>1, <2>1 DEF Typed
    <2>2. CASE Schedules(w)
      <3>1. pending' \subseteq pending \cup {w.channel} /\ (UNCHANGED budget \/ Spend("late"))
        BY <2>2 DEF Schedules, Schedule
      <3> QED BY <1>1, <3>1, SpendFacts DEF Typed
    <2> QED BY <1>4, <2>1, <2>2
  <1>6. seen' \in Seq(Webhooks) /\ Len(seen') <= SeenCap
    <2>1. seen' = seen \/ seen' = Ring(Append(seen, w))
      BY DEF Receive
    <2> QED BY <1>1, <2>1, RingFacts DEF Typed
  <1>7. Typed'
    BY <1>1, <1>2, <1>5, <1>6 DEF Typed
  <1>8. \/ rooms' = rooms
        \/ w \notin Range(seen) /\ rooms' = Unversioned(EventResult(w).rooms)
    BY DEF Receive, Apply
  <1>9. Good(rooms')
    BY <1>1, <1>8, EventFacts, UnversionedFacts
  <1>10. AllKept
    <2>1. CASE rooms' = rooms \/ w.event # "participant_joined"
      <3>1. Survive(rooms')
        BY <1>3, <1>8, <2>1, EventFacts, UnversionedSurvive
      <3> QED BY <3>1, SurviveKept
    <2>2. CASE rooms' # rooms /\ w.event = "participant_joined"
      <3>1. w \notin Range(seen) /\ rooms' = Unversioned(EventResult(w).rooms)
        BY <1>8, <2>2
      <3> QED BY <2>2, <3>1, JoinKeeps
    <2> QED BY <2>1, <2>2
  <1> QED BY <1>7, <1>9, <1>10

-----------------------------------------------------------------------------
(* Calls to LiveKit. *)

\* What a call holds, by where it stands.
LEMMA CallFacts ==
    ASSUME Typed, NEW k \in {"loop", "request"}
    PROVE  /\ task[k].at \in {"idle", "one", "applyOne", "rooms", "lists"}
           /\ At(k, "one") => task[k].channel \in Channels
           /\ At(k, "applyOne") => /\ task[k].channel \in Channels
                                   /\ task[k].list \in LiveLists
           /\ At(k, "lists") =>
                /\ task[k].todo \in SUBSET Channels
                /\ task[k].lists \in Maps(Channels, LiveLists)
                /\ task[k] \in [at : {"lists"}, todo : SUBSET Channels,
                                lists : Maps(Channels, LiveLists)]
  <1> DEFINE Lists == Maps(Channels, LiveLists)
             t == task[k]
  <1>1. \/ t \in [at : {"idle", "rooms"}]
        \/ t \in [at : {"one"}, channel : Channels]
        \/ t \in [at : {"applyOne"}, channel : Channels, list : LiveLists]
        \/ t \in [at : {"lists"}, todo : SUBSET Channels, lists : Lists]
    BY DEF Typed, Calls
  <1> HIDE DEF Lists, t
  <1>2. /\ t.at \in {"idle", "one", "applyOne", "rooms", "lists"}
        /\ t.at = "one" => t.channel \in Channels
        /\ t.at = "applyOne" => t.channel \in Channels /\ t.list \in LiveLists
        /\ t.at = "lists" => /\ t.todo \in SUBSET Channels /\ t.lists \in Lists
                             /\ t \in [at : {"lists"}, todo : SUBSET Channels, lists : Lists]
    BY <1>1
  <1> QED BY <1>2 DEF At, Lists, t

\* A sweep applies each list to its room and drops the others.
LEMMA SweepGood ==
    ASSUME Good(rooms), NEW lists \in Maps(Channels, LiveLists)
    PROVE  Good(Reconciled(lists)) /\ Good(Pruned(Reconciled(lists), lists))
  <1> DEFINE after(c) == IF c \in DOMAIN lists THEN ReconcileRoom(rooms, c, lists[c]).rooms
                         ELSE rooms
             dom == {d \in DOMAIN rooms \cup DOMAIN lists : d \in DOMAIN after(d)}
             all == [c \in dom |-> after(c)[c]]
  <1>1. DOMAIN lists \subseteq Channels /\ \A c \in DOMAIN lists : lists[c] \in LiveLists
    BY MapsFacts
  <1>2. ASSUME NEW c \in DOMAIN rooms \cup DOMAIN lists
        PROVE  c \in Channels /\ Good(after(c))
    <2>1. c \in Channels
      BY <1>1 DEF Good
    <2>2. CASE c \in DOMAIN lists
      BY <1>1, <2>1, <2>2, ReconciledGood
    <2> QED BY <2>1, <2>2
  <1> HIDE DEF after
  <1>3. \A c \in dom : c \in Channels /\ GoodRoom(after(c)[c])
    BY <1>2 DEF Good
  <1> HIDE DEF dom
  <1>4. Good(all)
    BY <1>3 DEF Good
  <1>5. Reconciled(lists) = all
    BY DEF Reconciled, all, dom, after
  <1> HIDE DEF all
  <1>6. Good(ReconcilePrune(all, DOMAIN lists).rooms)
    BY <1>4, WithoutGood DEF ReconcilePrune, CloseChannels
  <1> QED BY <1>4, <1>5, <1>6 DEF Pruned

\* Whatever a step leaves alone keeps its type.
LEMMA TaskStep ==
    ASSUME Typed, NEW k \in {"loop", "request"}, NEW call \in Calls,
           task' = [task EXCEPT ![k] = call],
           UNCHANGED <<live, seen, pending, joined, kicks, hint>>,
           DOMAIN net' = DOMAIN net,
           loop' \in [at : {"directed", "expire"}, due : SUBSET Channels],
           budget' \in Allowances
    PROVE  Typed'
  <1>1. task' \in [{"loop", "request"} -> Calls]
    BY DEF Typed
  <1> QED BY <1>1 DEF Typed

\* The calls a task may make, and what they come to.
LEMMA CallTypes ==
    /\ Idle \in Calls /\ [at |-> "rooms"] \in Calls
    /\ \A c \in Channels : [at |-> "one", channel |-> c] \in Calls
    /\ \A c \in Channels, list \in LiveLists :
          [at |-> "applyOne", channel |-> c, list |-> list] \in Calls
    /\ \A todo \in SUBSET Channels, lists \in Maps(Channels, LiveLists) :
          [at |-> "lists", todo |-> todo, lists |-> lists] \in Calls
  <1> DEFINE Lists == Maps(Channels, LiveLists)
  <1>1. Calls = [at : {"idle", "rooms"}]
                    \cup [at : {"one"}, channel : Channels]
                    \cup [at : {"applyOne"}, channel : Channels, list : LiveLists]
                    \cup [at : {"lists"}, todo : SUBSET Channels, lists : Lists]
    BY DEF Calls
  <1> HIDE DEF Lists
  <1>2. /\ Idle \in Calls /\ [at |-> "rooms"] \in Calls
        /\ \A c \in Channels : [at |-> "one", channel |-> c] \in Calls
    BY <1>1 DEF Idle
  <1>3. \A c \in Channels, list \in LiveLists :
            [at |-> "applyOne", channel |-> c, list |-> list] \in Calls
    BY <1>1
  <1>4. \A todo \in SUBSET Channels, lists \in Lists :
            [at |-> "lists", todo |-> todo, lists |-> lists] \in Calls
    BY <1>1
  <1> QED BY <1>2, <1>3, <1>4 DEF Lists

\* LiveKit answers, or the call fails: the answer is typed and nothing else moves.
LEMMA AnswerTyped ==
    ASSUME PlaneInv, NEW k \in {"loop", "request"}, Answer(k) \/ CallFails(k)
    PROVE  Typed' /\ UNCHANGED <<rooms, live, net>>
  <1>1. Typed /\ budget \in Allowances /\ UNCHANGED <<Calling, rooms>>
        /\ loop \in [at : {"directed", "expire"}, due : SUBSET Channels]
    BY DEF PlaneInv, Typed, Answer, AnswerOne, AnswerRooms, AnswerList, CallFails
  <1>2. CASE AnswerOne(k)
    <2> DEFINE c == task[k].channel
    <2>1. c \in Channels
      BY <1>1, <1>2, CallFacts DEF AnswerOne
    <2>2. PICK list \in LiveLists :
             /\ task' = [task EXCEPT ![k] = [at |-> "applyOne", channel |-> c, list |-> list]]
             /\ UNCHANGED budget \/ Failing
      BY <1>1, <1>2, <2>1, ListedType, EmptyList DEF AnswerOne
    <2>3. budget' \in Allowances
      BY <1>1, <2>2, SpendFacts DEF Failing
    <2>4. [at |-> "applyOne", channel |-> c, list |-> list] \in Calls
      BY <2>1, CallTypes
    <2> HIDE DEF c
    <2> QED BY <1>1, <2>2, <2>3, <2>4, TaskStep DEF Calling, external
  <1>3. CASE AnswerRooms(k)
    <2>1. PICK names \in SUBSET budget.channels :
             task' = [task EXCEPT ![k] = [at |-> "lists", todo |-> names, lists |-> EmptyMap]]
      BY <1>3 DEF AnswerRooms
    <2>2. names \in SUBSET Channels
      BY <1>1 DEF Allowances
    <2>3. [at |-> "lists", todo |-> names, lists |-> EmptyMap] \in Calls
      BY <2>2, CallTypes, MapsEmpty
    <2>4. budget' \in Allowances
      BY <1>1, <1>3 DEF AnswerRooms
    <2> QED BY <1>1, <2>1, <2>3, <2>4, TaskStep DEF Calling, external
  <1>4. CASE AnswerList(k)
    <2>1. PICK c \in task[k].todo :
             task' = [task EXCEPT ![k].todo = @ \ {c}, ![k].lists = Put(@, c, Listed(c))]
      BY <1>4 DEF AnswerList
    <2> DEFINE todo  == task[k].todo \ {c}
               lists == Put(task[k].lists, c, Listed(c))
               Lists == Maps(Channels, LiveLists)
    <2>2. /\ task[k] \in [at : {"lists"}, todo : SUBSET Channels, lists : Lists]
          /\ task \in [{"loop", "request"} -> Calls]
      BY <1>1, <1>4, CallFacts DEF AnswerList, Typed
    <2>3. c \in Channels /\ task[k].lists \in Lists /\ todo \in SUBSET Channels
      BY <1>1, <1>4, CallFacts DEF AnswerList
    <2>4. Listed(c) \in LiveLists
      BY <1>1, <2>3, ListedType
    <2>5. lists \in Lists
      BY <2>3, <2>4, MapsPut
    <2>6. task' = [task EXCEPT ![k] = [task[k] EXCEPT !.todo = todo, !.lists = lists]]
      BY <2>1, <2>2
    <2> HIDE DEF todo, lists
    <2>7. [task[k] EXCEPT !.todo = todo, !.lists = lists]
             = [at |-> "lists", todo |-> todo, lists |-> lists]
      <3> DEFINE t == task[k]
      <3>1. PICK a \in SUBSET Channels, b \in Lists :
               t = [at |-> "lists", todo |-> a, lists |-> b]
        <4> HIDE DEF Lists, t
        <4>1. t \in [at : {"lists"}, todo : SUBSET Channels, lists : Lists]
          BY <2>2 DEF t
        <4> QED BY <4>1
      <3> HIDE DEF t
      <3>2. [t EXCEPT !.todo = todo] = [at |-> "lists", todo |-> todo, lists |-> b]
        <4> HIDE DEF Lists
        <4> QED BY <3>1
      <3>3. [t EXCEPT !.todo = todo, !.lists = lists]
               = [[t EXCEPT !.todo = todo] EXCEPT !.lists = lists]
        OBVIOUS
      <3>4. [[at |-> "lists", todo |-> todo, lists |-> b] EXCEPT !.lists = lists]
               = [at |-> "lists", todo |-> todo, lists |-> lists]
        OBVIOUS
      <3> QED BY <3>2, <3>3, <3>4 DEF t
    <2>8. [at |-> "lists", todo |-> todo, lists |-> lists] \in Calls
      BY <2>3, <2>5, CallTypes
    <2>9. budget' \in Allowances
      BY <1>1, <1>4 DEF AnswerList
    <2> QED BY <1>1, <2>6, <2>7, <2>8, <2>9, TaskStep DEF Calling, external
  <1>5. CASE CallFails(k)
    <2>1. task' = [task EXCEPT ![k] = Idle] /\ Failing
      BY <1>5 DEF CallFails
    <2>2. budget' \in Allowances
      BY <1>1, <2>1, SpendFacts DEF Failing
    <2> QED BY <1>1, <2>1, <2>2, CallTypes, TaskStep DEF Calling, external
  <1>6. UNCHANGED <<rooms, live, net>>
    BY <1>1 DEF Calling, external
  <1> QED BY <1>2, <1>3, <1>4, <1>5, <1>6 DEF Answer

\* A list, or a sweep's, is applied.
LEMMA ApplyStep ==
    ASSUME PlaneInv, NEW k \in {"loop", "request"}, ApplyOne(k) \/ ApplySweep(k)
    PROVE  Typed' /\ Good(rooms') /\ UNCHANGED <<live, net>>
  <1>1. /\ Typed /\ Good(rooms) /\ budget \in Allowances
        /\ loop \in [at : {"directed", "expire"}, due : SUBSET Channels]
        /\ UNCHANGED <<Calling, budget>> /\ task' = [task EXCEPT ![k] = Idle]
    BY DEF PlaneInv, Typed, ApplyOne, ApplySweep
  <1>2. Typed'
    BY <1>1, CallTypes, TaskStep DEF Calling, external
  <1>3. CASE ApplyOne(k)
    <2>1. task[k].channel \in Channels /\ task[k].list \in LiveLists
      BY <1>1, <1>3, CallFacts DEF ApplyOne
    <2>2. Good(ReconcileRoom(rooms, task[k].channel, task[k].list).rooms)
      BY <1>1, <2>1, ReconciledGood
    <2> QED BY <1>1, <1>2, <1>3, <2>2, UnversionedFacts DEF ApplyOne, Apply, Calling, external
  <1>4. CASE ApplySweep(k)
    <2>1. task[k].lists \in Maps(Channels, LiveLists)
      BY <1>1, <1>4, CallFacts DEF ApplySweep
    <2>2. Good(Pruned(Reconciled(task[k].lists), task[k].lists))
      BY <1>1, <2>1, SweepGood
    <2>3. rooms' = Unversioned(Pruned(Reconciled(task[k].lists), task[k].lists))
      BY <1>4 DEF ApplySweep
    <2> QED BY <1>1, <1>2, <2>2, <2>3, UnversionedFacts DEF Calling, external
  <1> QED BY <1>3, <1>4

\* It takes the rows of the rooms it is about that it does not show.
LEMMA ApplyKeeps ==
    ASSUME PlaneInv, NEW k \in {"loop", "request"}, ApplyOne(k) \/ ApplySweep(k)
    PROVE  AllKept
  <1>1. Typed /\ Good(rooms)
    BY DEF PlaneInv
  <1> SUFFICES ASSUME NEW c \in DOMAIN rooms, NEW u \in Members(rooms, c) \cap DOMAIN live[c],
                      rooms[c].participants[u].sid = live[c][u].sid,
                      ~Displaces(c, u, live[c][u].sid)
               PROVE  /\ u \in Members(rooms', c)
                      /\ rooms'[c].participants[u].sid = live[c][u].sid
    BY DEF AllKept, Kept
  <1>2. ASSUME NEW rs, Good(rs), rooms' = Unversioned(rs), u \in Members(rs, c),
               rs[c].participants[u].sid = rooms[c].participants[u].sid
        PROVE  /\ u \in Members(rooms', c)
               /\ rooms'[c].participants[u].sid = live[c][u].sid
    <2>1. c \in DOMAIN rs
      BY <1>2 DEF Members, RoomOf, EmptyRoom, EmptyMap
    <2> QED BY <1>2, <2>1, UnversionedFacts
  <1>3. CASE ApplyOne(k)
    <2> DEFINE rs == ReconcileRoom(rooms, task[k].channel, task[k].list).rooms
    <2>1. task[k].channel \in Channels /\ task[k].list \in LiveLists /\ rooms' = Unversioned(rs)
      BY <1>1, <1>3, CallFacts DEF ApplyOne, Apply
    <2>2. Good(rs)
      BY <1>1, <2>1, ReconciledGood
    <2>3. c # task[k].channel \/ Shows(task[k].list, u, rooms[c].participants[u].sid)
      BY <1>3 DEF Displaces
    <2>4. u \in Members(rs, c) /\ rs[c].participants[u].sid = rooms[c].participants[u].sid
      BY <2>3, ListKeepsShown
    <2> HIDE DEF rs
    <2> QED BY <1>2, <2>1, <2>2, <2>4
  <1>4. CASE ApplySweep(k)
    <2> DEFINE lists == task[k].lists
               rs    == Pruned(Reconciled(lists), lists)
    <2>1. lists \in Maps(Channels, LiveLists) /\ rooms' = Unversioned(rs)
      BY <1>1, <1>4, CallFacts DEF ApplySweep
    <2>2. c \in DOMAIN lists /\ Shows(lists[c], u, rooms[c].participants[u].sid)
      BY <1>4 DEF Displaces
    <2> HIDE DEF lists
    <2>3. Good(rs)
      BY <1>1, <2>1, SweepGood
    <2>4. u \in Members(rs, c) /\ rs[c].participants[u].sid = rooms[c].participants[u].sid
      BY <2>2, SweepKeepsShown
    <2> HIDE DEF rs
    <2> QED BY <1>2, <2>1, <2>3, <2>4
  <1> QED BY <1>3, <1>4

-----------------------------------------------------------------------------
(* The loop, hints, the owner's commands, sockets, time. *)

\* The reconcile loop moves: its channels, and the rows that expire.
LEMMA LoopStepFacts ==
    ASSUME PlaneInv, LoopDirected \/ LoopSweep \/ LoopExpire
    PROVE  Typed' /\ Good(rooms') /\ Survive(rooms') /\ UNCHANGED <<live, net>>
  <1>1. /\ Typed /\ Good(rooms) /\ budget' \in Allowances
        /\ loop \in [at : {"directed", "expire"}, due : SUBSET Channels]
        /\ UNCHANGED <<external, seen, joined, kicks, hint>>
        /\ task \in [{"loop", "request"} -> Calls]
    BY DEF PlaneInv, Typed, LoopDirected, LoopSweep, LoopExpire
  <1>2. PICK at \in {"directed", "expire"}, due \in SUBSET Channels :
            loop = [at |-> at, due |-> due]
    BY <1>1
  <1>3. Survive(rooms)
    BY DEF Survive
  <1>4. CASE LoopDirected
    <2>1. PICK c \in loop.due :
             /\ loop' = [loop EXCEPT !.due = @ \ {c}]
             /\ task' = [task EXCEPT !["loop"] = [at |-> "one", channel |-> c]]
      BY <1>4 DEF LoopDirected
    <2>2. loop' \in [at : {"directed", "expire"}, due : SUBSET Channels]
      BY <1>2, <2>1
    <2>3. [at |-> "one", channel |-> c] \in Calls
      BY <1>2, <2>1, CallTypes
    <2>4. UNCHANGED <<pending, rooms>>
      BY <1>4 DEF LoopDirected
    <2>5. Typed'
      BY <1>1, <2>1, <2>2, <2>3, <2>4, TaskStep DEF external
    <2> QED BY <1>1, <1>3, <2>4, <2>5 DEF external
  <1>5. CASE LoopSweep
    <2>1. /\ loop' = [loop EXCEPT !.at = "expire"] /\ UNCHANGED <<pending, rooms>>
          /\ task' = task \/ task' = [task EXCEPT !["loop"] = [at |-> "rooms"]]
      BY <1>5 DEF LoopSweep
    <2>2. loop' \in [at : {"directed", "expire"}, due : SUBSET Channels]
      BY <1>2, <2>1
    <2>3. task' \in [{"loop", "request"} -> Calls]
      BY <1>1, <2>1, CallTypes
    <2>4. Typed'
      BY <1>1, <2>1, <2>2, <2>3 DEF Typed, external
    <2> QED BY <1>1, <1>3, <2>1, <2>4 DEF external
  <1>6. CASE LoopExpire
    <2>1. PICK taken \in SUBSET pending :
             loop' = [at |-> "directed", due |-> taken] /\ TakeDue(taken)
      BY <1>6 DEF LoopExpire
    <2>2. pending \subseteq Channels /\ pending' = pending \ taken /\ UNCHANGED task
      BY <1>1, <1>6, <2>1 DEF Typed, TakeDue, LoopExpire
    <2>3. Typed'
      BY <1>1, <2>1, <2>2 DEF Typed, external
    <2>4. rooms' = Unversioned(ExpireProvisionals(rooms).rooms)
      BY <1>6 DEF LoopExpire, Apply
    <2>5. Good(rooms') /\ Keeps(rooms, rooms')
      BY <1>1, <2>4, ExpiredGood, ExpireKeeps, UnversionedFacts, UnversionedKeeps
    <2> QED BY <1>1, <2>3, <2>5, KeepsSurvive DEF external
  <1> QED BY <1>4, <1>5, <1>6

\* What a hint carries.
LEMMA HintFacts ==
    ASSUME Typed, NEW u \in Users, hint[u].state # "none"
    PROVE  hint[u].channel \in Channels /\ hint[u].sid \in Sids \cup {NoSid}
  BY DEF Typed, Hints, NoHint

\* A joining hint writes a guess, and takes the connection's other guesses.
LEMMA HintedJoinStep ==
    ASSUME PlaneInv, NEW u \in Users, HintedJoin(u)
    PROVE  Typed' /\ Good(rooms') /\ Survive(rooms') /\ UNCHANGED <<live, net>>
  <1> DEFINE c == hint[u].channel
             others == joined[u] \ {c}
             guesses == {d \in others : u \in Members(rooms, d)
                                          /\ ~NeedsReconcile(rooms, d, u)}
             leavers == [d \in guesses |-> {u}]
             left == Remove(rooms, leavers, "ws.presence_hint").rooms
  <1>1. /\ Typed /\ Good(rooms) /\ UNCHANGED <<external, seen, loop, task, kicks, budget>>
        /\ joined \in [Users -> SUBSET Channels] /\ hint \in [Users -> Hints]
        /\ pending \subseteq Channels
    BY DEF PlaneInv, Typed, HintedJoin
  <1>2. /\ hint[u].state = "joining"
        /\ rooms' = Unversioned(HintJoining(left, c, u, hint[u].sid).rooms)
        /\ pending' = pending \cup {d \in others : NeedsReconcile(rooms, d, u)}
        /\ joined' = [joined EXCEPT ![u] = {c}] /\ hint' = [hint EXCEPT ![u] = NoHint]
    BY DEF HintedJoin, Apply, Schedule
  <1>3. c \in Channels /\ hint[u].sid \in Sids \cup {NoSid} /\ others \subseteq Channels
    BY <1>1, <1>2, HintFacts
  <1>4. \A d \in guesses : d \in DOMAIN rooms /\ IsProvisional(rooms[d].participants[u])
    BY DEF NeedsReconcile, Members, RoomOf, EmptyRoom, EmptyMap
  <1>5. DOMAIN leavers \subseteq DOMAIN rooms
        /\ \A d \in DOMAIN leavers : \A v \in Members(rooms, d) \cap leavers[d] :
              IsProvisional(rooms[d].participants[v])
    BY <1>4
  <1> HIDE DEF leavers, guesses
  <1>6. Good(left) /\ Keeps(rooms, left)
    BY <1>1, <1>5, RemoveGood, RemoveKeeps
  <1> HIDE DEF left, c, others
  <1>7. /\ Good(HintJoining(left, c, u, hint[u].sid).rooms)
        /\ Keeps(left, HintJoining(left, c, u, hint[u].sid).rooms)
    BY <1>3, <1>6, JoiningGood, JoiningKeeps
  <1>8. Good(rooms') /\ Keeps(rooms, rooms')
    BY <1>2, <1>6, <1>7, KeepsTransitive, UnversionedFacts, UnversionedKeeps
  <1>9. Typed'
    <2>1. pending' \subseteq Channels
      BY <1>1, <1>2, <1>3
    <2>2. joined' \in [Users -> SUBSET Channels]
      BY <1>1, <1>2, <1>3
    <2>3. hint' \in [Users -> Hints]
      BY <1>1, <1>2 DEF Hints
    <2> QED BY <1>1, <2>1, <2>2, <2>3 DEF Typed, external
  <1> QED BY <1>1, <1>8, <1>9, KeepsSurvive DEF external

\* A leaving hint takes a guess, and may have LiveKit asked to remove the rest.
LEMMA HintedLeaveStep ==
    ASSUME PlaneInv, NEW u \in Users, HintedLeave(u)
    PROVE  Typed' /\ Good(rooms') /\ Survive(rooms') /\ UNCHANGED <<live, net>>
  <1> DEFINE c == hint[u].channel
  <1>1. /\ Typed /\ Good(rooms) /\ UNCHANGED <<external, seen, loop, task, budget>>
        /\ joined \in [Users -> SUBSET Channels] /\ hint \in [Users -> Hints]
        /\ pending \subseteq Channels /\ kicks \subseteq Kicks
    BY DEF PlaneInv, Typed, HintedLeave
  <1>2. /\ hint[u].state = "leaving"
        /\ rooms' = Unversioned(HintLeaving(rooms, c, u).rooms)
        /\ pending' \subseteq pending \cup {c}
        /\ kicks' \subseteq kicks \cup {[channel |-> c, user |-> u, sid |-> hint[u].sid,
                                        by |-> "hint"]}
        /\ joined' = [joined EXCEPT ![u] = @ \ {c}] /\ hint' = [hint EXCEPT ![u] = NoHint]
    BY DEF HintedLeave, Apply, Schedule
  <1>3. c \in Channels /\ hint[u].sid \in Sids \cup {NoSid}
    BY <1>1, <1>2, HintFacts
  <1> HIDE DEF c
  <1>4. Good(rooms') /\ Keeps(rooms, rooms')
    BY <1>1, <1>2, <1>3, LeftGood, LeavingKeeps, UnversionedFacts, UnversionedKeeps
  <1>5. Typed'
    <2>1. pending' \subseteq Channels
      BY <1>1, <1>2, <1>3
    <2>2. joined' \in [Users -> SUBSET Channels]
      BY <1>1, <1>2
    <2>3. hint' \in [Users -> Hints]
      BY <1>1, <1>2 DEF Hints
    <2>4. kicks' \subseteq Kicks
      BY <1>1, <1>2, <1>3 DEF Kicks
    <2> QED BY <1>1, <2>1, <2>2, <2>3, <2>4 DEF Typed, external
  <1> QED BY <1>1, <1>4, <1>5, KeepsSurvive DEF external

\* A row ages: its session is none before and after.
LEMMA AgesStep ==
    ASSUME PlaneInv, NEW c \in Channels, NEW u \in Users, RowAges(c, u)
    PROVE  Typed' /\ Good(rooms') /\ Survive(rooms') /\ UNCHANGED <<live, net>>
  <1>1. /\ Typed /\ Good(rooms) /\ c \in DOMAIN rooms /\ u \in Members(rooms, c)
        /\ rooms[c].participants[u].since = "fresh" /\ rooms' = AgeRow(rooms, c, u)
        /\ UNCHANGED <<external, seen, pending, loop, task, joined, kicks, hint, budget>>
    BY DEF PlaneInv, RowAges
  <1>2. Good(rooms')
    BY <1>1, AgedGood
  <1>3. Typed'
    BY <1>1 DEF Typed, external
  <1> DEFINE P  == rooms[c].participants
             P2 == Put(P, u, [P[u] EXCEPT !.since = "expired"])
  <1>4. P[u] \in GoodRows
    <2>1. RoomOf(rooms, c) = rooms[c]
      BY <1>1 DEF RoomOf
    <2> QED BY <1>1, <2>1, RowOfMember
  <1>5. [P[u] EXCEPT !.since = "expired"].sid = P[u].sid
    <2> HIDE DEF P
    <2> QED BY <1>4 DEF GoodRows, Participant
  <1>6. \A v \in DOMAIN P : v \in DOMAIN P2 /\ P2[v].sid = P[v].sid
    <2> HIDE DEF P
    <2> QED BY <1>5 DEF Put
  <1>7. /\ DOMAIN rooms' = DOMAIN rooms /\ rooms'[c].participants = P2
        /\ \A d \in DOMAIN rooms \ {c} : rooms'[d] = rooms[d]
    BY <1>1 DEF AgeRow, Put
  <1> HIDE DEF P2
  <1>8. Keeps(rooms, rooms')
    <2> SUFFICES ASSUME NEW d \in DOMAIN rooms, NEW v \in Members(rooms, d)
                 PROVE  /\ v \in Members(rooms', d)
                        /\ rooms'[d].participants[v].sid = rooms[d].participants[v].sid
      BY DEF Keeps
    <2>1. CASE d = c
      BY <1>6, <1>7, <2>1 DEF Members, RoomOf
    <2>2. CASE d # c
      BY <1>7, <2>2 DEF Members, RoomOf
    <2> QED BY <2>1, <2>2
  <1> QED BY <1>1, <1>2, <1>3, <1>8, KeepsSurvive DEF external

\* Steps that move neither rooms nor LiveKit: a snapshot request, a hint sent, a
\* move, a lost socket, the sweep timer.
LEMMA QuietStep ==
    ASSUME PlaneInv,
           \/ RequestSweep \/ SweepTimer
           \/ \E u \in Users, c \in budget.channels : SendHint(u, c) \/ OwnerMoves(c, u)
           \/ \E u \in Users : SocketLost(u)
    PROVE  Typed' /\ UNCHANGED <<rooms, live, net>>
  <1>1. /\ Typed /\ budget \in Allowances /\ pending \subseteq Channels
        /\ budget.channels \subseteq Channels
        /\ task \in [{"loop", "request"} -> Calls]
        /\ joined \in [Users -> SUBSET Channels] /\ hint \in [Users -> Hints]
    BY DEF PlaneInv, Typed, Allowances
  <1>2. CASE RequestSweep
    <2>1. budget' \in Allowances
      BY <1>1, <1>2, SpendFacts DEF RequestSweep
    <2>2. task' \in [{"loop", "request"} -> Calls]
      BY <1>1, <1>2, CallTypes DEF RequestSweep
    <2>3. UNCHANGED <<external, rooms, seen, pending, loop, joined, kicks, hint>>
      BY <1>2 DEF RequestSweep
    <2> QED BY <1>1, <2>1, <2>2, <2>3 DEF Typed, external
  <1>3. CASE SweepTimer
    BY <1>1, <1>3 DEF Typed, SweepTimer, external
  <1>4. ASSUME NEW u \in Users, NEW c \in budget.channels, SendHint(u, c)
        PROVE  Typed' /\ UNCHANGED <<rooms, live, net>>
    <2> DEFINE known == IF u \in DOMAIN Listed(c) THEN {NoSid, live[c][u].sid} ELSE {NoSid}
    <2>1. c \in Channels
      BY <1>1
    <2>2. known \subseteq Sids \cup {NoSid}
      BY <1>1, <2>1, ListedType, LiveFact
    <2>3. PICK state \in {"joining", "leaving"}, s \in known :
             hint' = [hint EXCEPT ![u] = [state |-> state, channel |-> c, sid |-> s]]
      BY <1>4 DEF SendHint
    <2> HIDE DEF known
    <2>4. [state |-> state, channel |-> c, sid |-> s] \in Hints
      BY <2>1, <2>2 DEF Hints
    <2>5. hint' \in [Users -> Hints]
      BY <1>1, <2>3, <2>4
    <2>6. budget' \in Allowances /\ UNCHANGED <<external, server>>
      BY <1>1, <1>4, SpendFacts DEF SendHint
    <2> QED BY <1>1, <2>5, <2>6 DEF Typed, external, server
  <1>5. ASSUME NEW u \in Users, NEW c \in budget.channels, OwnerMoves(c, u)
        PROVE  Typed' /\ UNCHANGED <<rooms, live, net>>
    <2>1. \E from \in Channels : pending' = pending \cup {from, c}
      BY <1>5 DEF OwnerMoves, Schedule
    <2>2. pending' \subseteq Channels
      BY <1>1, <2>1
    <2>3. /\ budget' \in Allowances
          /\ UNCHANGED <<external, rooms, seen, loop, task, joined, kicks, hint>>
      BY <1>1, <1>5, SpendFacts DEF OwnerMoves
    <2> QED BY <1>1, <2>2, <2>3 DEF Typed, external
  <1>6. ASSUME NEW u \in Users, SocketLost(u)
        PROVE  Typed' /\ UNCHANGED <<rooms, live, net>>
    <2>1. /\ hint' = [hint EXCEPT ![u] = NoHint] /\ pending' = pending \cup joined[u]
          /\ joined' = [joined EXCEPT ![u] = {}] /\ rooms' = rooms
          /\ UNCHANGED <<external, seen, loop, task, kicks, budget>>
      BY <1>6 DEF SocketLost, Schedule, AfterSocketLoss
    <2>2. hint' \in [Users -> Hints]
      BY <1>1, <2>1 DEF Hints
    <2>3. joined' \in [Users -> SUBSET Channels] /\ pending' \subseteq Channels
      BY <1>1, <2>1
    <2> QED BY <1>1, <2>1, <2>2, <2>3 DEF Typed, external
  <1> QED BY <1>2, <1>3, <1>4, <1>5, <1>6

\* A member is removed at LiveKit, by the owner or a kick that lands late.
LEMMA RemovalStep ==
    ASSUME PlaneInv,
           \/ \E k \in kicks : KickLands(k)
           \/ \E u \in Users, c \in budget.channels : OwnerKicks(c, u)
    PROVE  /\ Typed' /\ UNCHANGED rooms
           /\ \/ UNCHANGED external
              \/ \E c \in Channels, u \in Users : Leaves(c, u)
  <1>1. /\ Typed /\ budget \in Allowances /\ pending \subseteq Channels
        /\ budget.channels \subseteq Channels /\ kicks \subseteq Kicks
    BY DEF PlaneInv, Typed, Allowances
  <1>2. /\ \/ UNCHANGED external
           \/ \E c \in Channels, u \in Users : Leaves(c, u)
        /\ UNCHANGED <<rooms, seen, loop, task, joined, hint>>
        /\ pending' \subseteq Channels /\ budget' \in Allowances /\ kicks' \subseteq Kicks
    <2>1. ASSUME NEW k \in kicks, KickLands(k)
          PROVE  /\ \/ UNCHANGED external
                    \/ \E c \in Channels, u \in Users : Leaves(c, u)
                 /\ UNCHANGED <<rooms, seen, loop, task, joined, hint>>
                 /\ pending' \subseteq Channels /\ budget' \in Allowances
                 /\ kicks' \subseteq Kicks
      <3>1. k.channel \in Channels /\ k.user \in Users
        BY <1>1, <2>1 DEF Kicks
      <3>2. pending' \subseteq pending \cup {k.channel}
        BY <2>1 DEF KickLands, Schedule
      <3> QED BY <1>1, <2>1, <3>1, <3>2 DEF KickLands
    <2>2. ASSUME NEW u \in Users, NEW c \in budget.channels, OwnerKicks(c, u)
          PROVE  /\ UNCHANGED <<external, rooms, seen, loop, task, joined, hint>>
                 /\ pending' \subseteq Channels /\ budget' \in Allowances
                 /\ kicks' \subseteq Kicks
      <3>1. [channel |-> c, user |-> u, sid |-> NoSid, by |-> "owner"] \in Kicks
        BY <1>1 DEF Kicks
      <3>2. Spend("owner") /\ UNCHANGED <<external, rooms, seen, pending, loop, task, joined, hint>>
        BY <2>2 DEF OwnerKicks
      <3>3. kicks' \subseteq Kicks
        BY <1>1, <2>2, <3>1 DEF OwnerKicks
      <3> QED BY <1>1, <3>2, <3>3, SpendFacts
    <2> QED BY <1>1, <2>1, <2>2
  <1>3. live' \in [Channels -> LiveLists] /\ DOMAIN net' \subseteq Webhooks
    <2>1. CASE UNCHANGED external
      BY <1>1, <2>1 DEF Typed, external
    <2>2. CASE \E c \in Channels, u \in Users : Leaves(c, u)
      BY <2>2, LeavesStep
    <2> QED BY <1>2, <2>1, <2>2
  <1> QED BY <1>1, <1>2, <1>3 DEF Typed

\* The server dies: of its rooms nothing is left.
LEMMA RestartStep ==
    ASSUME PlaneInv, Restart
    PROVE  Typed' /\ Good(rooms') /\ UNCHANGED <<live, net>>
  <1>1. Typed /\ budget' \in Allowances /\ UNCHANGED external
    BY SpendFacts DEF PlaneInv, Restart
  <1>2. Good(rooms')
    BY DEF Restart, Good, EmptyMap
  <1>3. /\ seen' \in Seq(Webhooks) /\ Len(seen') <= SeenCap
    BY ControlPlaneAssumption, EmptySeq DEF Restart
  <1>4. /\ task' \in [{"loop", "request"} -> Calls] /\ hint' \in [Users -> Hints]
        /\ joined' \in [Users -> SUBSET Channels] /\ kicks' \subseteq Kicks
        /\ pending' \subseteq Channels
        /\ loop' \in [at : {"directed", "expire"}, due : SUBSET Channels]
    BY CallTypes DEF Restart, Hints
  <1> QED BY <1>1, <1>2, <1>3, <1>4 DEF Typed, external

-----------------------------------------------------------------------------
(* Every step. *)

\* A step LiveKit does not take leaves its sessions and what it sent of them.
LEMMA SilentLiveKit ==
    ASSUME Announced, Over, Placed, live' = live, DOMAIN net' = DOMAIN net
    PROVE  Announced' /\ Over' /\ Placed'
  BY DEF Announced, Over, Placed

\* The webhook, the session and the track of a step are in play.
LEMMA InPlay ==
    ASSUME Typed
    PROVE  /\ budget.channels \subseteq Channels /\ budget.sids \subseteq Sids
           /\ budget.tracks \subseteq TrackSids /\ budget.events \subseteq TrackEvents
           /\ {SidOwner[s] : s \in budget.sids} \subseteq Users
  <1>1. budget.channels \subseteq Channels /\ budget.sids \subseteq Sids
        /\ budget.tracks \subseteq TrackSids /\ budget.events \subseteq TrackEvents
    BY DEF Typed, Allowances
  <1> QED BY <1>1, ControlPlaneAssumption

\* What a step of LiveKit comes to: the registry learns of it later.
LEMMA LiveKitStep ==
    ASSUME PlaneInv, LiveKit
    PROVE  Typed' /\ UNCHANGED rooms /\ Announced' /\ Over' /\ Placed'
  <1>1. Typed /\ Announced /\ Over /\ Placed
    BY DEF PlaneInv
  <1> DEFINE Sound == /\ live' \in [Channels -> LiveLists] /\ DOMAIN net' \subseteq Webhooks
                      /\ Announced' /\ Over' /\ Placed'
                      /\ UNCHANGED <<server, hint, budget>>
  <1>2. ASSUME NEW c \in budget.channels, NEW s \in budget.sids, Connect(c, s)
        PROVE  Sound
    BY <1>1, <1>2, InPlay, ConnectStep DEF Connect
  <1>3. ASSUME NEW c \in budget.channels, NEW t \in budget.tracks,
               NEW event \in budget.events, TrackEvent(c, t, event)
        PROVE  Sound
    BY <1>1, <1>3, InPlay, TrackStep DEF TrackEvent
  <1>4. ASSUME NEW c \in Channels, NEW u \in Users, Disconnect(c, u)
        PROVE  Sound
    BY <1>4, LeavesStep DEF Disconnect
  <1>5. Sound => Typed' /\ UNCHANGED rooms /\ Announced' /\ Over' /\ Placed'
    BY <1>1 DEF Typed, server
  <1>6. ASSUME NEW w \in DOMAIN net, Redeliver(w)
        PROVE  Typed' /\ UNCHANGED rooms /\ Announced' /\ Over' /\ Placed'
    BY <1>1, <1>6, RedeliverStep, SilentLiveKit
  <1> HIDE DEF Sound
  <1> QED BY <1>2, <1>3, <1>4, <1>5, <1>6 DEF LiveKit

\* What a step may do to rooms and to LiveKit.
LEMMA StepKinds ==
    ASSUME PlaneInv, Next
    PROVE  /\ Typed' /\ Good(rooms') /\ Announced' /\ Over' /\ Placed'
           /\ UNCHANGED rooms \/ (AllKept /\ UNCHANGED live)
  <1> DEFINE Sound == Typed' /\ Good(rooms') /\ Announced' /\ Over' /\ Placed'
             Told  == AllKept /\ UNCHANGED live
  <1>1. Typed /\ Good(rooms) /\ Announced /\ Over /\ Placed
    BY DEF PlaneInv
  <1>2. CASE LiveKit
    BY <1>1, <1>2, LiveKitStep
  <1>3. ASSUME NEW w \in DOMAIN net, Receive(w)
        PROVE  Sound /\ Told
    <2>1. live' = live /\ DOMAIN net' = DOMAIN net
      BY <1>3 DEF Receive
    <2>2. Typed' /\ Good(rooms') /\ AllKept
      BY <1>3, ReceiveStep
    <2> QED BY <1>1, <2>1, <2>2, SilentLiveKit
  <1>4. CASE \/ \E k \in kicks : KickLands(k)
             \/ \E u \in Users, c \in budget.channels : OwnerKicks(c, u)
    <2>1. /\ Typed' /\ UNCHANGED rooms
          /\ \/ UNCHANGED external
             \/ \E c \in Channels, u \in Users : Leaves(c, u)
      BY <1>4, RemovalStep
    <2>2. Announced' /\ Over' /\ Placed'
      BY <1>1, <2>1, LeavesStep, SilentLiveKit DEF external
    <2> QED BY <1>1, <2>1, <2>2
  <1>5. CASE \/ RequestSweep \/ SweepTimer
             \/ \E u \in Users, c \in budget.channels : SendHint(u, c) \/ OwnerMoves(c, u)
             \/ \E u \in Users : SocketLost(u)
    BY <1>1, <1>5, QuietStep, SilentLiveKit
  <1>6. ASSUME NEW u \in Users, HintedJoin(u) \/ HintedLeave(u)
        PROVE  Sound /\ Told
    BY <1>1, <1>6, HintedJoinStep, HintedLeaveStep, SilentLiveKit, SurviveKept
  <1>7. CASE LoopDirected \/ LoopSweep \/ LoopExpire
    BY <1>1, <1>7, LoopStepFacts, SilentLiveKit, SurviveKept
  <1>8. ASSUME NEW k \in {"loop", "request"}, ApplyOne(k) \/ ApplySweep(k)
        PROVE  Sound /\ Told
    BY <1>1, <1>8, ApplyStep, ApplyKeeps, SilentLiveKit
  <1>9. ASSUME NEW k \in {"loop", "request"}, Answer(k) \/ CallFails(k)
        PROVE  Sound /\ UNCHANGED rooms
    BY <1>1, <1>9, AnswerTyped, SilentLiveKit
  <1>10. ASSUME NEW c \in Channels, NEW u \in Users, RowAges(c, u)
         PROVE  Sound /\ Told
    BY <1>1, <1>10, AgesStep, SilentLiveKit, SurviveKept
  <1>11. CASE Restart
    <2>1. AllKept
      BY <1>11 DEF AllKept, Kept, Displaces
    <2> QED BY <1>1, <1>11, <2>1, RestartStep, SilentLiveKit
  <1>12. CASE Clients
    <2>1. {SidOwner[s] : s \in budget.sids} \subseteq Users
      BY <1>1, InPlay
    <2> QED BY <1>4, <1>5, <1>6, <1>12, <2>1 DEF Clients
  <1>13. CASE LoopStep
    BY <1>7, <1>8, <1>13 DEF LoopStep
  <1> QED
    BY <1>2, <1>3, <1>4, <1>5, <1>8, <1>9, <1>10, <1>11, <1>12, <1>13 DEF Next

\* Nothing is connected, sent or known.
LEMMA PlaneInit == Init => PlaneInv
  <1> SUFFICES ASSUME Init PROVE PlaneInv
    OBVIOUS
  <1>1. live \in [Channels -> LiveLists] /\ \A c \in Channels : DOMAIN live[c] = {}
    BY EmptyList DEF Init, EmptyMap
  <1>2. DOMAIN net = {} /\ Good(rooms)
    BY DEF Init, Good, EmptyMap
  <1>3. /\ seen \in Seq(Webhooks) /\ Len(seen) <= SeenCap
    BY ControlPlaneAssumption, EmptySeq DEF Init
  <1>4. /\ task \in [{"loop", "request"} -> Calls] /\ hint \in [Users -> Hints]
        /\ joined \in [Users -> SUBSET Channels] /\ kicks \subseteq Kicks
        /\ pending \subseteq Channels
        /\ loop \in [at : {"directed", "expire"}, due : SUBSET Channels]
    BY CallTypes DEF Init, Hints
  <1>5. budget \in Allowances
    BY ControlPlaneAssumption DEF Init, Allowances
  <1>6. Announced /\ Over /\ Placed
    BY <1>1, <1>2 DEF Announced, Over, Placed
  <1> QED BY <1>1, <1>2, <1>3, <1>4, <1>5, <1>6 DEF PlaneInv, Typed

\* Every step keeps the inductive invariant.
LEMMA PlaneStep == PlaneInv /\ [Next]_vars => PlaneInv'
  <1>1. ASSUME PlaneInv, Next PROVE PlaneInv'
    BY <1>1, StepKinds DEF PlaneInv
  <1>2. ASSUME PlaneInv, UNCHANGED vars PROVE PlaneInv'
    BY <1>2 DEF PlaneInv, Typed, Announced, Over, Placed, vars, external, server
  <1> QED BY <1>1, <1>2

\* Hence it holds throughout every behaviour.
LEMMA PlaneAlways == Spec => []PlaneInv
  BY PlaneInit, PlaneStep, PTL DEF Spec

\* Whatever webhooks, answers, hints and failures come in whatever order, the
\* registry holds well-formed rooms under known channels, the dedupe ring keeps
\* its length and the loop and the calls stand where they may.
THEOREM PlaneType == Spec => []TypeOK
  <1>1. PlaneInv => TypeOK
    <2> SUFFICES ASSUME PlaneInv PROVE TypeOK
      OBVIOUS
    <2>1. IsRegistry(rooms)
      BY GoodIsRegistry DEF PlaneInv
    <2>2. \A c \in Channels : DOMAIN live[c] \subseteq Users
      BY LiveRows DEF PlaneInv, Typed
    <2>3. \A k \in {"loop", "request"} :
              task[k].at \in {"idle", "one", "applyOne", "rooms", "lists"}
      BY CallFacts DEF PlaneInv
    <2>4. Len(seen) <= SeenCap /\ pending \subseteq Channels
          /\ loop.due \subseteq Channels /\ loop.at \in {"directed", "expire"}
      BY DEF PlaneInv, Typed
    <2> QED BY <2>1, <2>2, <2>3, <2>4 DEF TypeOK
  <1> QED BY <1>1, PlaneAlways, PTL

\* INV-A1, INV-A3 and what the code keeps of INV-B2: the row of a session that is
\* connected keeps it through every step but three.  They are a list of its room
\* without it, a joined-webhook of another session of its user that the dedupe
\* ring does not know (a newer one's, or an older one's that comes late or comes
\* again when the ring forgot it), and the server's end.
THEOREM ConnectedRowsSurvive == Spec => LiveRowsSurvive
  <1> DEFINE Survives(c, u) ==
               LET s == live'[c][u].sid
                   kept == /\ u \in Members(rooms', c)
                           /\ rooms'[c].participants[u].sid = s
               IN  rooms[c].participants[u].sid = s => kept \/ Displaces(c, u, s)
  <1>1. PlaneInv /\ [Next]_vars =>
            [\A c \in DOMAIN rooms : \A u \in Members(rooms, c) \cap DOMAIN live'[c] :
                Survives(c, u)]_vars
    <2> SUFFICES ASSUME PlaneInv, Next,
                        NEW c \in DOMAIN rooms, NEW u \in Members(rooms, c) \cap DOMAIN live'[c]
                 PROVE  Survives(c, u)
      OBVIOUS
    <2>1. UNCHANGED rooms \/ (AllKept /\ UNCHANGED live)
      BY StepKinds
    <2>2. CASE UNCHANGED rooms
      BY <2>2
    <2>3. CASE AllKept /\ UNCHANGED live
      BY <2>3 DEF AllKept, Kept
    <2> QED BY <2>1, <2>2, <2>3
  <1> QED BY <1>1, PlaneAlways, PTL DEF Spec, LiveRowsSurvive
=============================================================================
