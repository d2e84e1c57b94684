------------------------------- MODULE VoiceSync -------------------------------
(***************************************************************************)
(* How one v2 client's VoiceStore follows the server's VoiceRegistry: the  *)
(* publisher of changes (publish_room_change) and the snapshots            *)
(* (send_voice_room_state) of server/src/ws/handler.rs on one WebSocket,   *)
(* which is ordered and may be lost.                                       *)
(*                                                                         *)
(* A change is published after the registry's lock is released, so the     *)
(* changes of two tasks may be broadcast in either order.  A snapshot is   *)
(* built in two steps: the active channels, then (after the database)      *)
(* their contents.  The connection's task answers one request at a time.   *)
(* Whom a change is told is looked up in a cache of the community's        *)
(* members (server/src/state.rs), which a registration                     *)
(* (server/src/routes/auth.rs) invalidates.                                *)
(* Left out: v1 connections, channel visibility, and the reconcile a       *)
(* snapshot may start (VoiceControlPlane).                                 *)
(***************************************************************************)
EXTENDS VoiceStore

CONSTANTS
    SidOwner,   \* the user a LiveKit session belongs to
    Budgets     \* the bounds a behaviour may run under (see budget)

ASSUME SyncAssumption ==
    /\ SidOwner \in [Sids -> Users]
    /\ Budgets \subseteq
          [changes : Nat, closings : Nat, losses : Nat, restarts : Nat, refusals : Nat,
           overtakes : Nat, faults : Nat, member : BOOLEAN,
           channels : SUBSET Channels, sids : SUBSET Sids]

VARIABLES
    rooms,      \* hub.voice
    outbox,     \* changes not yet broadcast, each with a number that tells it
                \* apart and the members its task has read ("unknown" before)
    cache,      \* community_members_cache: "cold", or members "with" the
                \* client's user or "without"
    joined,     \* the user's registration: "no", "committed", "yes"
    task,       \* the connection's task: the snapshot it is building
    down, up,   \* the socket: messages to the client, requests to the server
    conn,       \* the socket is up
    store,      \* the client's VoiceStore
    synced,     \* history: a snapshot of all rooms came through this socket
    spoiled,    \* history: what happened since this socket came up that no
                \* version tells of: "closing", "refusal", "overtake",
                \* "untold", "refill"
    budget      \* bound: changes, changes that close a room, lost sockets,
                \* restarts, rate-limited requests, deltas that overtake a
                \* snapshot already read, and failures of the database, that
                \* are left; the channels and sessions in play; whether the
                \* user is a member at first

lookup == <<cache, joined>>
server == <<rooms, outbox, task, lookup>>
socket == <<down, up, conn>>
client == <<store, synced>>
vars   == <<server, socket, client, spoiled, budget>>

Spend(what, n) == budget[what] >= n /\ budget' = [budget EXCEPT ![what] = @ - n]

Idle == [at |-> "idle"]

Init ==
    /\ rooms = EmptyMap /\ outbox = {} /\ task = Idle
    /\ down = <<>> /\ up = <<>> /\ conn = FALSE
    /\ store = EmptyStore /\ synced = FALSE /\ spoiled = {}
    /\ budget \in Budgets
    /\ cache = IF budget.member THEN "with" ELSE "cold"
    /\ joined = IF budget.member THEN "yes" ELSE "no"

-----------------------------------------------------------------------------
(* The server: changes and their publication. *)

\* A mutation of the registry that changes something; a room left without
\* members is dropped, and its version with it.
Mutate(result) ==
    /\ result.changes # {} /\ budget.changes > 0
    /\ LET closed == Cardinality({ch \in result.changes : ch.closed})
       IN  /\ closed <= budget.closings
           /\ budget' = [budget EXCEPT !.changes = @ - 1, !.closings = @ - closed]
    /\ spoiled' = IF \E ch \in result.changes : ch.closed THEN spoiled \cup {"closing"}
                  ELSE spoiled
    /\ rooms' = result.rooms
    /\ outbox' = outbox \cup {[number |-> budget.changes, change |-> ch, to |-> "unknown"] : ch \in result.changes}
    /\ UNCHANGED <<task, lookup, socket, client>>

MemberJoins(c, s) == Mutate(WebhookParticipantJoinedExclusive(rooms, c, SidOwner[s], s))
MemberLeaves(c, s) == Mutate(WebhookParticipantLeft(rooms, c, SidOwner[s], s))
MemberMutes(c, u, audio) == Mutate(SetAudioState(rooms, c, u, audio))

\* community_members on a cold cache: the task reads the table, and the members
\* it read enter the cache later, over whatever is there by then.
ReadMembers(entry) ==
    /\ cache = "cold" /\ entry.to = "unknown"
    /\ outbox' = (outbox \ {entry})
                   \cup {[entry EXCEPT !.to = IF joined = "no" THEN "without" ELSE "with"]}
    /\ UNCHANGED <<rooms, task, lookup, socket, client, spoiled, budget>>

\* A lookup fails, of the channel's community or of its members: the change is
\* told nobody.
TellNobody(entry) ==
    /\ entry.to = "unknown"
    /\ Spend("faults", 1)
    /\ outbox' = outbox \ {entry}
    /\ spoiled' = spoiled \cup {"untold"}
    /\ UNCHANGED <<rooms, task, lookup, socket, client>>

\* Who is told: the members the task read, or else those in the cache.
Recipients(entry) == IF entry.to = "unknown" THEN cache ELSE entry.to

\* The task knows the members: cache' says them, and what is queued is delta.
Tell(entry) ==
    /\ entry \in outbox
    /\ Recipients(entry) # "cold"
    /\ outbox' = outbox \ {entry}
    /\ cache' = Recipients(entry)
    /\ UNCHANGED <<rooms, task, joined, up, conn, client>>

Delta(entry) == [op |-> "delta", change |-> entry.change]

\* broadcast_to_versioned: the delta is queued on every socket of a recipient
\* that is up.
Broadcast(entry) ==
    /\ Tell(entry)
    /\ down' = IF conn /\ Recipients(entry) = "with" THEN Append(down, Delta(entry)) ELSE down
    /\ spoiled' = IF entry.to = "without" /\ joined = "yes" THEN spoiled \cup {"refill"} ELSE spoiled
    /\ UNCHANGED budget

\* The same, ahead of a snapshot that was read first and is sent last.
Overtake(entry) ==
    /\ Tell(entry)
    /\ Recipients(entry) = "with"
    /\ Spend("overtakes", 1)
    /\ spoiled' = spoiled \cup {"overtake"}
    /\ down # <<>> /\ down[Len(down)].op = "state"
    /\ down' = SubSeq(down, 1, Len(down) - 1) \o <<Delta(entry), down[Len(down)]>>

\* COMMUNITY_MEMBERS_TTL is over.  Of members that are right it changes nothing.
CacheExpires ==
    /\ cache = "without"
    /\ cache' = "cold"
    /\ UNCHANGED <<rooms, outbox, task, joined, socket, client, spoiled, budget>>

-----------------------------------------------------------------------------
(* The server: the user registers (routes/auth.rs). *)

Register ==
    /\ joined = "no"
    /\ joined' = "committed"
    /\ UNCHANGED <<rooms, outbox, task, cache, socket, client, spoiled, budget>>

\* Mutant: the cache keeps the members of before.
KeepMembers ==
    /\ joined = "committed"
    /\ joined' = "yes"
    /\ UNCHANGED <<rooms, outbox, task, cache, socket, client, spoiled, budget>>

\* invalidate_members_cache, before the answer brings the user the token that
\* a connection needs.
InvalidateMembers ==
    /\ joined = "committed"
    /\ joined' = "yes" /\ cache' = "cold"
    /\ UNCHANGED <<rooms, outbox, task, socket, client, spoiled, budget>>

-----------------------------------------------------------------------------
(* The server: snapshots. *)

\* voice.room.request.
TakeRequest ==
    /\ task = Idle /\ up # <<>>
    /\ up' = Tail(up)
    /\ task' = [at |-> "active", scope |-> Head(up)]
    /\ UNCHANGED <<rooms, outbox, lookup, down, conn, client, spoiled, budget>>

\* The limiter answers with an error only.
RefuseRequest ==
    /\ task = Idle /\ up # <<>>
    /\ Spend("refusals", 1)
    /\ up' = Tail(up)
    /\ spoiled' = spoiled \cup {"refusal"}
    /\ UNCHANGED <<server, down, conn, client>>

ReadActive ==
    /\ task.at = "active"
    /\ LET active == {c \in DOMAIN rooms : Members(rooms, c) # {}}
           wanted == IF task.scope = {} THEN active ELSE active \cap task.scope
       IN  task' = [at |-> "contents", scope |-> task.scope, wanted |-> wanted]
    /\ UNCHANGED <<rooms, outbox, lookup, socket, client, spoiled, budget>>

\* visible_channel_ids fails: nothing is sent.
SnapshotFails ==
    /\ task.at = "contents"
    /\ Spend("faults", 1)
    /\ task' = Idle
    /\ spoiled' = spoiled \cup {"refusal"}
    /\ UNCHANGED <<rooms, outbox, lookup, socket, client>>

\* A room that closed since is left out.  The send follows the read at once,
\* but for Overtake.
SendState ==
    /\ task.at = "contents"
    /\ LET there == task.wanted \cap DOMAIN rooms
           msg   == [op       |-> "state",
                     scope    |-> task.scope,
                     versions |-> [c \in there |-> rooms[c].version],
                     shown    |-> [c \in there |-> Shown(rooms, c)]]
       IN  down' = IF conn THEN Append(down, msg) ELSE down
    /\ task' = Idle
    /\ UNCHANGED <<rooms, outbox, lookup, up, conn, client, spoiled, budget>>

-----------------------------------------------------------------------------
(* The socket. *)

\* What the client sends while the socket is down is lost.
Sends(result) ==
    /\ store' = result.store
    /\ up' = IF conn' THEN up \o result.sent ELSE up

\* The server registers the connection and builds a snapshot of its own; the
\* client asks for one as soon as it is connected.
Connect ==
    /\ ~conn /\ joined = "yes"
    /\ conn' = TRUE
    /\ task' = [at |-> "active", scope |-> {}]
    /\ Sends(RequestSnapshot(store, {}))
    /\ spoiled' = IF outbox = {} /\ cache # "without" THEN {} ELSE spoiled
    /\ UNCHANGED <<rooms, outbox, lookup, down, synced, budget>>

Cut == conn' = FALSE /\ down' = <<>> /\ up' = <<>> /\ task' = Idle /\ synced' = FALSE

Lose ==
    /\ conn
    /\ Spend("losses", 1)
    /\ Cut
    /\ UNCHANGED <<rooms, outbox, lookup, store, spoiled>>

\* Versions start again, and so do the rooms and the cache.
Restart ==
    /\ Spend("restarts", 1)
    /\ rooms' = EmptyMap /\ outbox' = {} /\ cache' = "cold"
    /\ Cut
    /\ UNCHANGED <<joined, store, spoiled>>

-----------------------------------------------------------------------------
(* The client. *)

Deliver ==
    /\ down # <<>>
    /\ UNCHANGED <<server, conn, spoiled, budget>>
    /\ down' = Tail(down)
    /\ LET msg == Head(down)
       IN  /\ Sends(IF msg.op = "state" THEN ApplyState(store, msg)
                    ELSE ApplyDelta(store, msg.change))
           /\ synced' = (synced \/ (msg.op = "state" /\ msg.scope = {}))

\* 2 s since the last request.
Elapse ==
    /\ store.recent
    /\ store' = [store EXCEPT !.recent = FALSE]
    /\ UNCHANGED <<server, socket, synced, spoiled, budget>>

TimerFires ==
    /\ store.timer /\ ~store.recent
    /\ UNCHANGED <<server, down, conn, synced, spoiled, budget>>
    /\ Sends(Flush(store))

-----------------------------------------------------------------------------

Snapshot == TakeRequest \/ ReadActive \/ SendState

Publish == \E entry \in outbox : ReadMembers(entry) \/ Broadcast(entry)

Next ==
    \/ \E c \in budget.channels :
          \/ \E s \in budget.sids : MemberJoins(c, s) \/ MemberLeaves(c, s)
          \/ \E u \in Users, audio \in AudioStates : MemberMutes(c, u, audio)
    \/ Publish \/ (\E entry \in outbox : Overtake(entry) \/ TellNobody(entry))
    \/ CacheExpires \/ Register \/ InvalidateMembers
    \/ Snapshot \/ RefuseRequest \/ SnapshotFails
    \/ Connect \/ Lose \/ Restart
    \/ Deliver \/ Elapse \/ TimerFires

Spec == Init /\ [][Next]_vars

\* The server's tasks run, the client reconnects (NetworkClient.cs retries as
\* long as it holds a token), what is queued on a live socket arrives and
\* timers fire.  Changes and registrations are never owed.
Fairness ==
    /\ WF_vars(Publish) /\ WF_vars(Snapshot) /\ WF_vars(InvalidateMembers)
    /\ WF_vars(Connect) /\ WF_vars(Deliver)
    /\ WF_vars(Elapse) /\ WF_vars(TimerFires)

FairSpec == Spec /\ Fairness

-----------------------------------------------------------------------------
(* Invariants. *)

TypeOK ==
    /\ IsRegistry(rooms)
    /\ task.at \in {"idle", "active", "contents"}
    /\ joined # "yes" => ~conn
    /\ DOMAIN store.versions = DOMAIN store.shown
    /\ store.awaiting \cup store.pendingIds \subseteq Channels
    /\ store.timer <=> (store.pendingFull \/ store.pendingIds # {})

\* INV-C2, "a perda e detectavel": a client that holds the server's version of
\* a room holds the room, whatever order deltas and snapshots came in and
\* however many were lost with a socket.  Otherwise the next delta is applied
\* to the wrong room and no gap will ever show.
LossIsDetectable ==
    synced => \A c \in DOMAIN rooms \cap DOMAIN store.versions :
                 store.versions[c] = rooms[c].version
                     => OnWire(store.shown[c]) = OnWire(Shown(rooms, c))

\* The same as far as the code keeps it: while no room has closed, and its
\* version with it, since the socket came up.
LossIsDetectableWhileOpen == "closing" \in spoiled \/ LossIsDetectable

-----------------------------------------------------------------------------
(* Liveness. *)

\* A channel whose deltas are being dropped gets its snapshot, though requests
\* are throttled and merged and sockets die with requests on them; unless the
\* server refused one or failed to answer it, which no client asks for again.
AwaitingEnds ==
    \A c \in Channels :
        c \in store.awaiting ~> c \notin store.awaiting \/ "refusal" \in spoiled

InStep ==
    /\ DOMAIN store.versions = DOMAIN rooms
    /\ \A c \in DOMAIN rooms : OnWire(store.shown[c]) = OnWire(Shown(rooms, c))

\* 03-target-architecture, "Cliente com versao de estado atrasada": once the
\* rooms are left alone the client shows them as they are, after any reordering
\* of deltas, lost socket or restart, and again after whatever spoiled an
\* earlier socket.  A member who registered is told of every change, unless the
\* cache was being filled at that moment.
CatchesUp == <>[](InStep \/ spoiled # {} \/ joined # "yes")
=============================================================================
