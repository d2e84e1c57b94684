------------------------------- MODULE VoiceStore ------------------------------
(***************************************************************************)
(* The desktop client's copy of the rooms, client/ui/src/voiceStore.ts:    *)
(* how a `voice.room.state` and a `voice.room.delta` change it, and when   *)
(* it asks for a snapshot.  An operation takes the store and returns       *)
(* [store |-> the store after, sent |-> the requests it sends, in order].  *)
(*                                                                         *)
(* A request is the set of channels it names, {} for all.  Left out: the   *)
(* v1 dialect, the speaking set, and what only renders (sorting, the       *)
(* session overlay).                                                       *)
(***************************************************************************)
EXTENDS VoiceRegistry, Sequences

-----------------------------------------------------------------------------
(* One room. *)

\* What a v2 client shows of a channel.
Shown(rs, c) == [members |-> RoomOf(rs, c).participants, tracks |-> RoomOf(rs, c).tracks]

\* applyOne: removals, additions, then updates of known rows.
Replay(shown, ch) ==
    LET left == Without(shown.members, ch.removed)
        came == [u \in DOMAIN left \cup DOMAIN ch.added |->
                    IF u \in DOMAIN ch.added THEN ch.added[u] ELSE left[u]]
        kept == Without(shown.tracks, ch.tracksRemoved)
    IN  [members |-> [u \in DOMAIN came |->
                        IF u \in DOMAIN ch.updated THEN ch.updated[u] ELSE came[u]],
         tracks  |-> [t \in DOMAIN kept \cup DOMAIN ch.tracksAdded |->
                        IF t \in DOMAIN ch.tracksAdded THEN ch.tracksAdded[t] ELSE kept[t]]]

\* Rows as the wire shows them: the age of a provisional row is not sent.
OnWire(shown) ==
    [shown EXCEPT !.members =
        [u \in DOMAIN @ |-> [sid |-> @[u].sid, audio |-> @[u].audio]]]

-----------------------------------------------------------------------------
(* The store.  `recent`: the last request is less than 2 s old; `timer`: a  *)
(* request waits for that to pass.                                          *)

EmptyStore ==
    [versions |-> EmptyMap, shown |-> EmptyMap, awaiting |-> {}, pendingIds |-> {},
     pendingFull |-> FALSE, timer |-> FALSE, recent |-> FALSE]

Quiet(st) == [store |-> st, sent |-> <<>>]

\* Mutant: the queue is not cleared.
FlushKeepsQueue(st) ==
    [store |-> [st EXCEPT !.timer = FALSE, !.recent = TRUE],
     sent  |-> <<IF st.pendingFull THEN {} ELSE st.pendingIds>>]

\* flushSnapshotRequest: whatever was queued goes out as one request.
Flush(st) ==
    [store |-> [st EXCEPT !.pendingFull = FALSE, !.pendingIds = {}, !.timer = FALSE,
                          !.recent = TRUE],
     sent  |-> <<IF st.pendingFull THEN {} ELSE st.pendingIds>>]

\* Mutant: a second channel is marked as awaiting and not queued.
RequestSnapshotUnqueued(st, ids) ==
    IF st.recent THEN Quiet([st EXCEPT !.awaiting = @ \cup ids])
    ELSE Flush([st EXCEPT !.awaiting = @ \cup ids, !.pendingIds = @ \cup ids,
                          !.pendingFull = @ \/ ids = {}])

\* requestSnapshot: at most one request in 2 s, later ones are merged into it.
RequestSnapshot(st, ids) ==
    LET queued == [st EXCEPT !.awaiting = @ \cup ids, !.pendingIds = @ \cup ids,
                             !.pendingFull = @ \/ ids = {}]
    IN  IF st.recent THEN Quiet([queued EXCEPT !.timer = TRUE]) ELSE Flush(queued)

\* applyState: a snapshot of all rooms, or of those it was asked for (`scope`).
ApplyState(st, msg) ==
    LET kept == IF msg.scope = {} THEN {}
                ELSE DOMAIN st.versions \ (msg.scope \cup DOMAIN msg.versions)
        known == kept \cup DOMAIN msg.versions
    IN  Quiet([st EXCEPT
            !.versions = [c \in known |-> IF c \in kept THEN @[c] ELSE msg.versions[c]],
            !.shown    = [c \in known |-> IF c \in kept THEN @[c] ELSE msg.shown[c]],
            !.awaiting = IF msg.scope = {} THEN {} ELSE @ \ msg.scope])

\* Mutant: a newer delta is applied whatever it was computed from.
ApplyNewerDelta(st, ch) ==
    LET c == ch.channel
    IN  IF c \in st.awaiting \/ c \notin DOMAIN st.versions THEN Quiet(st)
        ELSE Quiet([st EXCEPT !.versions[c] = ch.after, !.shown[c] = Replay(@, ch)])

\* applyDelta: the delta that follows the local version is applied, an older
\* one is a redelivery, and any other, or an unknown channel, means a snapshot.
ApplyDelta(st, ch) ==
    LET c == ch.channel
    IN  IF c \in st.awaiting THEN Quiet(st)
        ELSE IF c \notin DOMAIN st.versions THEN RequestSnapshot(st, {c})
        ELSE IF ch.before = st.versions[c]
        THEN Quiet([st EXCEPT !.versions[c] = ch.after, !.shown[c] = Replay(@, ch)])
        ELSE IF ch.after <= st.versions[c] THEN Quiet(st)
        ELSE RequestSnapshot(st, {c})
=============================================================================
