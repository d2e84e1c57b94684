--------------------------- MODULE VoiceControlPlane ---------------------------
(***************************************************************************)
(* How the server keeps its registry of rooms in step with LiveKit:        *)
(* webhooks (routes/livekit.rs) that are lost, late, repeated and out of   *)
(* order; the reconcile loop (main.rs) and the sweeps that snapshot        *)
(* requests start (ws/handler.rs), each of which applies lists it read     *)
(* earlier; presence hints; the scheduler of directed reconciles           *)
(* (state.rs); kicks; lost sockets and server restarts.                    *)
(*                                                                         *)
(* LiveKit is external: `live` is its truth, sessions come and go at will. *)
(* Versions are erased here (VoiceSync is about them), delays are abstract *)
(* (a scheduled reconcile may come due at any time), and a handler is one  *)
(* step except where it waits for LiveKit.                                 *)
(***************************************************************************)
EXTENDS VoiceRegistry, Sequences

CONSTANTS
    SidOwner,       \* the user a session belongs to
    TrackSession,   \* the session a track is published in
    HiddenSids,     \* sessions of spectators (permission.hidden)
    SeenCap,        \* SEEN_EVENTS_CAP, the length of the dedupe ring
    Budgets         \* the bounds a behaviour may run under, one of them chosen
                    \* at the start (see budget)

TrackEvents == {"track_published", "track_muted", "track_unmuted", "track_unpublished"}

ASSUME ControlPlaneAssumption ==
    /\ SidOwner \in [Sids -> Users]
    /\ TrackSession \in [TrackSids -> Sids]
    /\ HiddenSids \subseteq Sids
    /\ SeenCap \in Nat \ {0}
    /\ Budgets \subseteq
          [hint : Nat, request : Nat, owner : Nat, late : Nat, again : Nat,
           failure : Nat, restart : Nat, deliveries : Nat, channels : SUBSET Channels,
           sids : SUBSET Sids, tracks : SUBSET TrackSids, events : SUBSET TrackEvents]

VARIABLES
    live,       \* LiveKit: the sessions connected to each room
    net,        \* webhooks sent, with the deliveries each has left
    rooms,      \* hub.voice: the registry
    seen,       \* the dedupe ring, oldest first
    pending,    \* pending_reconcile: channels scheduled
    loop,       \* the reconcile loop: where it is and the channels it took
    sweepDue,   \* 15 s have passed since the last full sweep
    task,       \* calls to LiveKit under way, of the loop and of a request
    hint,       \* the hint a user's socket carries, or none
    joined,     \* joined_calls of each user's connection
    kicks,      \* RemoveParticipant calls under way
    budget      \* bound: how many hints, snapshot requests, owner's commands,
                \* late webhooks, redeliveries, failed LiveKit calls and restarts
                \* are left; deliveries of a webhook (0 when it is lost); the
                \* channels, sessions and tracks in play, and what may happen to
                \* a track

external == <<live, net>>
server   == <<rooms, seen, pending, loop, sweepDue, task, joined, kicks>>
vars     == <<external, server, hint, budget>>

-----------------------------------------------------------------------------
(* Data. *)

Webhook(event, c, s, t) == [event |-> event, channel |-> c, sid |-> s, track |-> t]

NoTrack == MusicSid
NoHint  == [state |-> "none"]

\* ListParticipants of a room, without spectators.
Listed(c) ==
    Restrict(live[c], {u \in DOMAIN live[c] : live[c][u].sid \notin HiddenSids})

\* Versions are left out: every room is at version 0.
Unversioned(rs) == [c \in DOMAIN rs |-> [rs[c] EXCEPT !.version = 0]]

Apply(result) == rooms' = Unversioned(result.rooms)

Idle == [at |-> "idle"]

Spend(what) == budget[what] > 0 /\ budget' = [budget EXCEPT ![what] = @ - 1]

Init ==
    /\ live = [c \in Channels |-> EmptyMap]
    /\ net = EmptyMap
    /\ rooms = EmptyMap
    /\ seen = <<>>
    /\ pending = {}
    /\ loop = [at |-> "directed", due |-> {}]
    /\ sweepDue = FALSE
    /\ task = [k \in {"loop", "request"} |-> Idle]
    /\ hint = [u \in Users |-> NoHint]
    /\ joined = [u \in Users |-> {}]
    /\ kicks = {}
    /\ budget \in Budgets

-----------------------------------------------------------------------------
(* LiveKit. *)

\* Every webhook of `ws` is sent, to arrive a bounded number of times or never.
Emit(ws) ==
    \E n \in [ws -> 0..budget.deliveries] :
        net' = [w \in DOMAIN net \cup ws |-> IF w \in ws THEN n[w] ELSE net[w]]

Fresh(s) == \A w \in DOMAIN net : w.sid # s

\* A session connects; the identity's previous session in the room is dropped.
Connect(c, s) ==
    LET u   == SidOwner[s]
        old == IF u \in DOMAIN live[c]
               THEN {Webhook("participant_left", c, live[c][u].sid, NoTrack)} ELSE {}
    IN  /\ Fresh(s)
        /\ live' = [live EXCEPT ![c] = Put(@, u, [sid |-> s, tracks |-> EmptyMap])]
        /\ Emit(old \cup {Webhook("participant_joined", c, s, NoTrack)})
        /\ UNCHANGED <<server, hint, budget>>

\* The sessions that end when u leaves c, and the webhooks that tell of it.
Leaves(c, u) ==
    /\ u \in DOMAIN live[c]
    /\ live' = [live EXCEPT ![c] = Without(@, {u})]
    /\ Emit({Webhook("participant_left", c, live[c][u].sid, NoTrack)}
            \cup IF DOMAIN live[c] = {u} THEN {Webhook("room_finished", c, NoSid, NoTrack)}
                 ELSE {})

Disconnect(c, u) ==
    /\ Leaves(c, u)
    /\ UNCHANGED <<server, hint, budget>>

\* A track is published, muted, unmuted or unpublished by a connected session.
TrackEvent(c, t, event) ==
    LET s == TrackSession[t]
        u == SidOwner[s]
        w == Webhook(event, c, s, t)
        known == u \in DOMAIN live[c] /\ t \in DOMAIN live[c][u].tracks
        tracks == live[c][u].tracks
    IN  /\ u \in DOMAIN live[c] /\ live[c][u].sid = s /\ s \notin HiddenSids
        /\ w \notin DOMAIN net
        /\ known = (event # "track_published")
        /\ event \in {"track_muted", "track_unmuted"} =>
               tracks[t] = (event = "track_unmuted")
        /\ live' = [live EXCEPT ![c][u].tracks =
                       IF event = "track_unpublished" THEN Without(tracks, {t})
                       ELSE Put(tracks, t, event = "track_muted")]
        /\ Emit({w})
        /\ UNCHANGED <<server, hint, budget>>

\* A webhook comes once more: LiveKit had no answer to it.
Redeliver(w) ==
    /\ net[w] = 0
    /\ Spend("again")
    /\ net' = [net EXCEPT ![w] = 1]
    /\ UNCHANGED <<live, server, hint>>

-----------------------------------------------------------------------------
(* Webhooks. *)

\* Mutant: nothing is ever dropped from the ring.
RingGrows(s) == s

Ring(s) == IF Len(s) > SeenCap THEN Tail(s) ELSE s

\* room_finished may come after somebody rejoined: the room is not touched.
Finished(c) == Ignored(rooms)

\* What the registry makes of an event.
EventResult(w) ==
    LET c == w.channel
        u == IF w.sid = NoSid THEN Bot ELSE SidOwner[w.sid]
    IN  CASE w.event = "participant_joined" ->
                 WebhookParticipantJoinedExclusive(rooms, c, u, w.sid)
          [] w.event = "participant_left"  -> WebhookParticipantLeft(rooms, c, u, w.sid)
          [] w.event = "track_published"   ->
                 WebhookTrackPublished(rooms, c, u, w.sid, w.track)
          [] w.event = "track_unpublished" -> WebhookTrackUnpublished(rooms, c, w.track)
          [] w.event \in {"track_muted", "track_unmuted"} ->
                 WebhookTrackMuted(rooms, c, w.track, w.event = "track_muted")
          [] w.event = "room_finished"     -> Finished(c)

\* Spectators' events stop here.
Visible(w) == w.sid \notin HiddenSids

\* schedule_reconcile; when it is due is left open.
Schedule(channels) == pending' = pending \cup channels

\* take_due_reconciles.
TakeDue(due) == due \subseteq pending /\ pending' = pending \ due

\* An event older than 60 s, or a room's end, has the channel reconciled.
Schedules(w) ==
    \/ /\ Schedule(IF w.event = "room_finished" THEN {w.channel} ELSE {})
       /\ UNCHANGED budget
    \/ Schedule({w.channel}) /\ Spend("late")

\* A redelivery stops at the dedupe ring, a spectator's event after it.
Receive(w) ==
    /\ net[w] > 0
    /\ net' = [net EXCEPT ![w] = @ - 1]
    /\ UNCHANGED <<live, loop, sweepDue, task, joined, kicks, hint>>
    /\ IF w \in Range(seen) THEN UNCHANGED <<rooms, seen, pending, budget>>
       ELSE /\ seen' = Ring(Append(seen, w))
            /\ IF ~Visible(w) THEN UNCHANGED <<rooms, pending, budget>>
               ELSE /\ Apply(EventResult(w))
                    /\ Schedules(w)

-----------------------------------------------------------------------------
(* The reconcile loop: directed reconciles that came due, a full sweep every *)
(* 15 s, then the expiry of provisional rows.  It awaits every LiveKit call. *)

At(k, at) == task[k].at = at

Failing == Spend("failure")

\* reconcile_one_room calls ListParticipants.
LoopDirected ==
    /\ loop.at = "directed" /\ At("loop", "idle")
    /\ \E c \in loop.due :
          /\ loop' = [loop EXCEPT !.due = @ \ {c}]
          /\ task' = [task EXCEPT !["loop"] = [at |-> "one", channel |-> c]]
    /\ UNCHANGED <<external, rooms, seen, pending, sweepDue, joined, kicks, hint,
                   budget>>

\* The due channels are done: a sweep, when its time has come, or the expiry.
LoopSweep ==
    /\ loop.at = "directed" /\ loop.due = {} /\ At("loop", "idle")
    /\ loop' = [loop EXCEPT !.at = "expire"]
    /\ task' = IF sweepDue THEN [task EXCEPT !["loop"] = [at |-> "rooms"]] ELSE task
    /\ sweepDue' = FALSE
    /\ UNCHANGED <<external, rooms, seen, pending, joined, kicks, hint, budget>>

\* expire_provisionals, then the next tick's take_due_reconciles.
LoopExpire ==
    /\ loop.at = "expire" /\ At("loop", "idle")
    /\ Apply(ExpireProvisionals(rooms))
    /\ \E due \in SUBSET pending :
          /\ loop' = [at |-> "directed", due |-> due]
          /\ TakeDue(due)
    /\ UNCHANGED <<external, seen, sweepDue, task, joined, kicks, hint, budget>>

\* send_voice_room_state sweeps too, at most once in 5 s.
RequestSweep ==
    /\ At("request", "idle")
    /\ Spend("request")
    /\ task' = [task EXCEPT !["request"] = [at |-> "rooms"]]
    /\ UNCHANGED <<external, rooms, seen, pending, loop, sweepDue, joined, kicks, hint>>

-----------------------------------------------------------------------------
(* Calls to LiveKit: an answer is read at one time and applied later. *)

Calling == <<external, seen, pending, loop, sweepDue, joined, kicks, hint>>

\* ListParticipants of one room.  A status other than success reads as empty.
AnswerOne(k) ==
    /\ At(k, "one")
    /\ \/ /\ task' = [task EXCEPT ![k] = [at |-> "applyOne", channel |-> @.channel,
                                          list |-> Listed(@.channel)]]
          /\ UNCHANGED budget
       \/ /\ task' = [task EXCEPT ![k] = [at |-> "applyOne", channel |-> @.channel,
                                          list |-> EmptyMap]]
          /\ Failing
    /\ UNCHANGED <<Calling, rooms>>

ApplyOne(k) ==
    /\ At(k, "applyOne")
    /\ Apply(ReconcileRoom(rooms, task[k].channel, task[k].list))
    /\ task' = [task EXCEPT ![k] = Idle]
    /\ UNCHANGED <<Calling, budget>>

\* ListRooms names the occupied rooms, and perhaps one not yet timed out.
AnswerRooms(k) ==
    /\ At(k, "rooms")
    /\ \E names \in SUBSET budget.channels :
          /\ {c \in Channels : DOMAIN live[c] # {}} \subseteq names
          /\ task' = [task EXCEPT ![k] = [at |-> "lists", todo |-> names,
                                          lists |-> EmptyMap]]
    /\ UNCHANGED <<Calling, rooms, budget>>

\* One ListParticipants of the sweep.
AnswerList(k) ==
    /\ At(k, "lists")
    /\ \E c \in task[k].todo :
          task' = [task EXCEPT ![k].todo = @ \ {c},
                               ![k].lists = Put(@, c, Listed(c))]
    /\ UNCHANGED <<Calling, rooms, budget>>

\* Mutant: the error ends the loop's task.
CallEndsTask(k) ==
    /\ At(k, "one") \/ At(k, "rooms") \/ At(k, "lists")
    /\ Failing
    /\ task' = [task EXCEPT ![k] = [at |-> "dead"]]
    /\ UNCHANGED <<Calling, rooms>>

\* A failed call, or a failed status in a sweep, gives the whole sweep up.
CallFails(k) ==
    /\ At(k, "one") \/ At(k, "rooms") \/ (At(k, "lists") /\ task[k].todo # {})
    /\ Failing
    /\ task' = [task EXCEPT ![k] = Idle]
    /\ UNCHANGED <<Calling, rooms>>

\* The rooms after every list of the sweep; each is applied to its own room.
Reconciled(lists) ==
    LET after(c) == IF c \in DOMAIN lists THEN ReconcileRoom(rooms, c, lists[c]).rooms
                    ELSE rooms
    IN  [c \in {d \in DOMAIN rooms \cup DOMAIN lists : d \in DOMAIN after(d)} |->
            after(c)[c]]

\* Mutant: rooms LiveKit does not name are kept.
NoPrune(reconciled, lists) == reconciled

\* The rooms LiveKit does not name go.
Pruned(reconciled, lists) == ReconcilePrune(reconciled, DOMAIN lists).rooms

\* Every list, then the prune, under one write lock.
ApplySweep(k) ==
    /\ At(k, "lists") /\ task[k].todo = {}
    /\ \E reconciled \in {Reconciled(task[k].lists)} :
          rooms' = Unversioned(Pruned(reconciled, task[k].lists))
    /\ task' = [task EXCEPT ![k] = Idle]
    /\ UNCHANGED <<Calling, budget>>

-----------------------------------------------------------------------------
(* Presence hints and the socket that carries them. *)

\* Client: about to connect or connected (the session known or not), or leaving.
SendHint(u, c) ==
    /\ hint[u] = NoHint
    /\ Spend("hint")
    /\ LET known == IF u \in DOMAIN Listed(c) THEN {NoSid, live[c][u].sid} ELSE {NoSid}
       IN  \E state \in {"joining", "leaving"}, s \in known :
              hint' = [hint EXCEPT ![u] = [state |-> state, channel |-> c, sid |-> s]]
    /\ UNCHANGED <<external, server>>

\* handle_presence_hint, joining: provisional rows of the connection's other
\* channels go, confirmed ones are left to a directed reconcile.
HintedJoin(u) ==
    LET c == hint[u].channel
        others == joined[u] \ {c}
        guesses == {d \in others : u \in Members(rooms, d) /\ ~NeedsReconcile(rooms, d, u)}
        left == Remove(rooms, [d \in guesses |-> {u}], "ws.presence_hint").rooms
    IN  /\ hint[u].state = "joining"
        /\ Apply(HintJoining(left, c, u, hint[u].sid))
        /\ Schedule({d \in others : NeedsReconcile(rooms, d, u)})
        /\ joined' = [joined EXCEPT ![u] = {c}]
        /\ hint' = [hint EXCEPT ![u] = NoHint]
        /\ UNCHANGED <<external, seen, loop, sweepDue, task, kicks, budget>>

\* handle_presence_hint, leaving: a confirmed row stays; when the hint names its
\* session, LiveKit is asked, in a task of its own, to remove the identity.
HintedLeave(u) ==
    LET c == hint[u].channel
        confirmed == NeedsReconcile(rooms, c, u)
        asks == confirmed /\ RoomOf(rooms, c).participants[u].sid = hint[u].sid
    IN  /\ hint[u].state = "leaving"
        /\ Apply(HintLeaving(rooms, c, u))
        /\ Schedule(IF confirmed THEN {c} ELSE {})
        /\ kicks' = IF asks
                    THEN kicks \cup {[channel |-> c, user |-> u, sid |-> hint[u].sid,
                                      by |-> "hint"]}
                    ELSE kicks
        /\ joined' = [joined EXCEPT ![u] = @ \ {c}]
        /\ hint' = [hint EXCEPT ![u] = NoHint]
        /\ UNCHANGED <<external, seen, loop, sweepDue, task, budget>>

\* handle_voice_disconnect_member: the owner has a member removed; the server
\* evicts nobody itself.  Until LiveKit answers, the handler waits.
OwnerKicks(c, u) ==
    /\ u \in Members(rooms, c)
    /\ Spend("owner")
    /\ kicks' = kicks \cup {[channel |-> c, user |-> u, sid |-> NoSid, by |-> "owner"]}
    /\ UNCHANGED <<external, rooms, seen, pending, loop, sweepDue, task, joined, hint>>

\* RemoveParticipant reaches LiveKit, or fails: it names the identity, so it
\* ends whatever session the user then has in the room.  The owner's handler
\* goes on to schedule the channel either way.
KickLands(k) ==
    /\ k \in kicks
    /\ kicks' = kicks \ {k}
    /\ Leaves(k.channel, k.user) \/ UNCHANGED external
    /\ Schedule(IF k.by = "owner" THEN {k.channel} ELSE {})
    /\ UNCHANGED <<rooms, seen, loop, sweepDue, task, joined, hint, budget>>

\* handle_voice_move_member: the member is told to move and both ends are
\* scheduled.
OwnerMoves(c, u) ==
    /\ \E from \in Channels :
          /\ u \in Members(rooms, from)
          /\ Schedule({from, c})
    /\ Spend("owner")
    /\ UNCHANGED <<external, rooms, seen, loop, sweepDue, task, joined, kicks, hint>>

\* Mutant: the connection's channels are evicted with it.
EvictedWith(u) ==
    Remove(rooms, [c \in {d \in joined[u] : u \in Members(rooms, d)} |-> {u}],
           "ws.presence_hint").rooms

\* The last socket of u goes: no row changes, its channels are scheduled.
AfterSocketLoss(u) == rooms

SocketLost(u) ==
    /\ hint[u] # NoHint \/ joined[u] # {}
    /\ hint' = [hint EXCEPT ![u] = NoHint]
    /\ rooms' = AfterSocketLoss(u)
    /\ Schedule(joined[u])
    /\ joined' = [joined EXCEPT ![u] = {}]
    /\ UNCHANGED <<external, seen, loop, sweepDue, task, kicks, budget>>

-----------------------------------------------------------------------------
(* Time, and the death of the server. *)

SweepTimer ==
    /\ ~sweepDue
    /\ sweepDue' = TRUE
    /\ UNCHANGED <<external, rooms, seen, pending, loop, task, joined, kicks, hint,
                   budget>>

\* PROVISIONAL_TTL elapses for a row.
RowAges(c, u) ==
    /\ c \in DOMAIN rooms /\ u \in Members(rooms, c)
    /\ rooms[c].participants[u].since = "fresh"
    /\ rooms' = AgeRow(rooms, c, u)
    /\ UNCHANGED <<external, seen, pending, loop, sweepDue, task, joined, kicks, hint,
                   budget>>

\* All of the server's state is in memory; webhooks may still arrive after it.
Restart ==
    /\ Spend("restart")
    /\ rooms' = EmptyMap
    /\ seen' = <<>>
    /\ pending' = {}
    /\ loop' = [at |-> "directed", due |-> {}]
    /\ sweepDue' = FALSE
    /\ task' = [k \in {"loop", "request"} |-> Idle]
    /\ hint' = [u \in Users |-> NoHint]
    /\ joined' = [u \in Users |-> {}]
    /\ kicks' = {}
    /\ UNCHANGED external

-----------------------------------------------------------------------------

LiveKit ==
    \/ \E c \in budget.channels :
          \/ \E s \in budget.sids : Connect(c, s)
          \/ \E t \in budget.tracks, event \in budget.events : TrackEvent(c, t, event)
    \/ \E c \in Channels, u \in Users : Disconnect(c, u)
    \/ \E w \in DOMAIN net : Redeliver(w)

Clients ==
    \/ \E u \in {SidOwner[s] : s \in budget.sids}, c \in budget.channels :
          SendHint(u, c) \/ OwnerKicks(c, u) \/ OwnerMoves(c, u)
    \/ \E u \in Users : HintedJoin(u) \/ HintedLeave(u) \/ SocketLost(u)

\* What the loop does of its own, and what it must wait for.
LoopStep == LoopDirected \/ LoopSweep \/ LoopExpire
                \/ ApplyOne("loop") \/ ApplySweep("loop")
Answer(k) == AnswerOne(k) \/ AnswerRooms(k) \/ AnswerList(k)

Next ==
    \/ LiveKit
    \/ Clients
    \/ \E w \in DOMAIN net : Receive(w)
    \/ \E k \in kicks : KickLands(k)
    \/ LoopStep
    \/ RequestSweep \/ ApplySweep("request")
    \/ \E k \in {"loop", "request"} : Answer(k) \/ CallFails(k)
    \/ SweepTimer
    \/ \E c \in Channels, u \in Users : RowAges(c, u)
    \/ Restart

\* The server's task runs and time passes; nothing is asked of webhooks or
\* clients ("Nenhum caminho de convergencia depende do cliente ter enviado algo").
ServerFairness ==
    /\ WF_vars(LoopStep)
    /\ WF_vars(SweepTimer)
    /\ WF_vars(\E c \in Channels, u \in Users : RowAges(c, u))

Spec == Init /\ [][Next]_vars

\* LiveKit answers the loop's calls, which the code assumes: its HTTP client has
\* no timeout.  Failures are bounded.
FairSpec == Spec /\ ServerFairness /\ WF_vars(Answer("loop"))

-----------------------------------------------------------------------------
(* Invariants. *)

TypeOK ==
    /\ IsRegistry(rooms)
    /\ \A c \in Channels : DOMAIN live[c] \subseteq Users
    /\ Len(seen) <= SeenCap
    /\ pending \subseteq Channels /\ loop.due \subseteq Channels
    /\ loop.at \in {"directed", "expire"}
    /\ \A k \in {"loop", "request"} :
          task[k].at \in {"idle", "one", "applyOne", "rooms", "lists"}

-----------------------------------------------------------------------------
(* Action properties. *)

Shows(list, u, s) == u \in DOMAIN list /\ list[u].sid = s

\* What may put another session, or none, in the place of s, which is connected:
\* a list of c without it (an old one, a failed status, a room not named), a
\* joined-webhook of the same user's other session that the ring does not know,
\* and the server's end.
Displaces(c, u, s) ==
    \/ \E k \in {"loop", "request"} :
          \/ ApplyOne(k) /\ task[k].channel = c /\ ~Shows(task[k].list, u, s)
          \/ ApplySweep(k) /\ (c \in DOMAIN task[k].lists => ~Shows(task[k].lists[c], u, s))
    \/ \E w \in DOMAIN net :
          /\ w.event = "participant_joined" /\ SidOwner[w.sid] = u /\ w.sid # s
          /\ w \notin Range(seen) /\ Receive(w)
    \/ Restart

\* INV-A1, INV-A3 and what the code keeps of INV-B2: the row of a session that is
\* connected outlives every hint, expiry, kick and lost socket, the end of a room
\* it rejoined, other users' webhooks, left-webhooks of the user's older sessions,
\* redeliveries the ring knows and lists that show it.  A joined-webhook of an
\* older session that comes late, or again when the ring forgot it, does take the
\* row: webhook_participant_joined cannot tell it from a reconnection.
LiveRowsSurvive ==
    [][\A c \in DOMAIN rooms : \A u \in Members(rooms, c) \cap DOMAIN live'[c] :
           LET s == live'[c][u].sid
               kept == /\ u \in Members(rooms', c)
                       /\ rooms'[c].participants[u].sid = s
           IN  rooms[c].participants[u].sid = s => kept \/ Displaces(c, u, s)]_vars

-----------------------------------------------------------------------------
(* Liveness. *)

\* The confirmed rows of c, and its tracks, are those LiveKit lists.
Mirrors(c) ==
    LET room == RoomOf(rooms, c)
    IN  /\ {u \in Members(rooms, c) : ~IsProvisional(room.participants[u])} = DOMAIN Listed(c)
        /\ \A u \in DOMAIN Listed(c) : room.participants[u].sid = live[c][u].sid
        /\ DOMAIN room.tracks = LiveTracks(Listed(c))
        /\ \A t \in DOMAIN room.tracks :
              room.tracks[t].muted = Listed(c)[LiveOwner(Listed(c), t)].tracks[t]

\* 03-target-architecture: every anomaly converges.  Sessions are finite, so
\* LiveKit falls silent; from then on, whatever webhooks were lost, late or
\* repeated and however old the lists in flight, the registry settles on it.
Converges == <>[](\A c \in Channels : Mirrors(c))

Provisional(c, u) ==
    u \in Members(rooms, c) /\ IsProvisional(RoomOf(rooms, c).participants[u])

\* INV-A2: a provisional row is confirmed or goes, always again.
ProvisionalsResolve ==
    \A c \in Channels, u \in Users : []<>~Provisional(c, u)
=============================================================================
