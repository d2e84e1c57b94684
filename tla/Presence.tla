-------------------------------- MODULE Presence -------------------------------
(***************************************************************************)
(* One member's presence as the server keeps it and the others see it:     *)
(* the connection task (handle_socket) and the delayed disconnect task it  *)
(* leaves behind in server/src/ws/handler.rs, the epochs and grace periods *)
(* of server/src/state.rs, the statuses of server/src/ws/hub.rs, and what  *)
(* goes with presence: the member's activity and the open rows of the      *)
(* playtime ledger in the database.                                        *)
(*                                                                         *)
(* Every await is a point where other tasks run, so a task is a sequence   *)
(* of steps `at`.  An observer is another member's connection, which gets  *)
(* a snapshot when it arrives and every broadcast from its registration    *)
(* on.  Left out: related_member_ids failing, upon which a broadcast is    *)
(* skipped, and what an activity says (a game is being played, or not).    *)
(***************************************************************************)
EXTENDS Naturals, FiniteSets

CONSTANTS
    Connections,    \* the member's sockets, each connected at most once
    Observers,      \* the other members' connections
    Budgets         \* the bounds a behaviour may run under (see budget)

Bounds == {"busy", "reports", "restarts"}

ASSUME PresenceAssumption ==
    /\ IsFiniteSet(Connections)
    /\ \A b \in Budgets : /\ \A what \in Bounds : b[what] \in Nat
                          /\ b.connections \subseteq Connections
                          /\ b.arrivals \subseteq Observers

VARIABLES
    conns,      \* hub.conns of the member
    epoch,      \* presence_epochs
    grace,      \* the member is in pending_offline
    busy,       \* hub.statuses holds "busy"
    playing,    \* hub.activities: the member plays a game
    ledger,     \* the game's row in game_sessions is open
    task,       \* each connection's task
    delayed,    \* the task each disconnect spawned
    observer,   \* each observer: where it is and the status it read
    shown,      \* the status each observer shows
    stale,      \* history: why some observer may be wrong (see Agrees)
    budget      \* bound: how many presence.set, activity.report and restarts
                \* are left; the sockets and the late observers in play

server == <<conns, epoch, grace, busy, playing, ledger>>
tasks  == <<task, delayed>>
others == <<observer, shown>>
vars   == <<server, tasks, others, stale, budget>>

Spend(what) == budget[what] > 0 /\ budget' = [budget EXCEPT ![what] = @ - 1]

Nothing == [at |-> "none"]

\* hub.status_for
StatusFor == IF conns = {} THEN "offline" ELSE IF busy THEN "busy" ELSE "online"

Init ==
    /\ conns = {} /\ epoch = 0 /\ grace = FALSE
    /\ busy = FALSE /\ playing = FALSE /\ ledger = FALSE
    /\ task = [k \in Connections |-> [at |-> "out"]]
    /\ delayed = [k \in Connections |-> Nothing]
    /\ budget \in Budgets
    /\ observer = [o \in Observers |->
                      [at |-> IF o \in budget.arrivals THEN "away" ELSE "here"]]
    /\ shown = [o \in Observers |-> "offline"]
    /\ stale = {}

\* The task of k is at `from` and goes on to `to`.
Goes(k, from, to) == task[k].at = from /\ task' = [task EXCEPT ![k].at = to]

Wakes(k, from, to) == delayed[k].at = from /\ delayed' = [delayed EXCEPT ![k].at = to]

\* The delayed task of k returns when `done`, or else goes on.
Returns(k, from, done, to) ==
    /\ delayed[k].at = from
    /\ delayed' = [delayed EXCEPT ![k] = IF done THEN Nothing ELSE [@ EXCEPT !.at = to]]

\* broadcast_presence_update: queued at once on every registered observer; one
\* that has read its snapshot and not yet sent it will show the older status.
Broadcast(status) ==
    /\ shown' = [o \in Observers |-> IF observer[o].at = "away" THEN shown[o] ELSE status]
    /\ stale' = IF \E o \in Observers : observer[o].at = "read"
                THEN stale \cup {"overtaken"} ELSE stale
    /\ UNCHANGED observer

-----------------------------------------------------------------------------
(* handle_socket: a connection of the member. *)

\* The delayed tasks that have found the member gone for good.
Finished == {k \in Connections :
                delayed[k].at \in {"finished", "cleared", "quiet", "closed"}}

Arrives(k) ==
    /\ k \in budget.connections
    /\ task[k].at = "out"
    /\ task' = [task EXCEPT ![k] = [at |-> "checked", wasOnline |-> conns # {},
                                    cancelled |-> FALSE]]
    /\ UNCHANGED <<server, delayed, others, stale, budget>>

Register(k) ==
    /\ Goes(k, "checked", "registered")
    /\ conns' = conns \cup {k}
    /\ stale' = IF Finished # {} THEN stale \cup {"late"} ELSE stale
    /\ UNCHANGED <<epoch, grace, busy, playing, ledger, delayed, others, budget>>

\* A disconnect's task that has yet to look at the epoch is doomed (a history,
\* see ComebackCancels).
AdvanceEpoch(k) ==
    /\ Goes(k, "registered", "advanced")
    /\ epoch' = epoch + 1
    /\ delayed' = [j \in Connections |->
                      IF delayed[j].at \in {"asleep", "awake", "absent"}
                      THEN [delayed[j] EXCEPT !.doomed = TRUE] ELSE delayed[j]]
    /\ UNCHANGED <<conns, grace, busy, playing, ledger, others, stale, budget>>

CancelGrace(k) ==
    /\ task[k].at = "advanced"
    /\ task' = [task EXCEPT ![k].at = "welcomed", ![k].cancelled = grace]
    /\ grace' = FALSE
    /\ UNCHANGED <<conns, epoch, busy, playing, ledger, delayed, others, stale, budget>>

\* Mutant: nobody is told of the first connection.
AnnounceNothing(k) ==
    /\ Goes(k, "welcomed", "live")
    /\ UNCHANGED <<server, delayed, others, stale, budget>>

\* The others are told, unless they never knew the member was away.
Announce(k) ==
    /\ Goes(k, "welcomed", "live")
    /\ IF task[k].wasOnline \/ task[k].cancelled THEN UNCHANGED <<others, stale>>
       ELSE Broadcast("online")
    /\ UNCHANGED <<server, delayed, budget>>

-----------------------------------------------------------------------------
(* dispatch: what a live connection may ask. *)

\* presence.set, then its broadcast.
SetStatus(k) ==
    /\ Spend("busy")
    /\ task[k].at = "live"
    /\ \E b \in BOOLEAN :
          /\ busy' = b
          /\ task' = [task EXCEPT ![k] = [at |-> "set", status |-> IF b THEN "busy" ELSE "online"]]
    /\ UNCHANGED <<conns, epoch, grace, playing, ledger, delayed, others, stale>>

TellStatus(k) ==
    /\ Goes(k, "set", "live")
    /\ Broadcast(task[k].status)
    /\ UNCHANGED <<server, delayed, budget>>

\* handle_activity_report: the previous activity is read, then the new one set.
ReadActivity(k) ==
    /\ Spend("reports")
    /\ task[k].at = "live"
    /\ \E p \in BOOLEAN :
          task' = [task EXCEPT ![k] = [at |-> "reported", before |-> playing, now |-> p]]
    /\ UNCHANGED <<server, delayed, others, stale>>

SetActivity(k) ==
    /\ Goes(k, "reported", IF playing = task[k].now THEN "live" ELSE "changed")
    /\ playing' = task[k].now
    /\ UNCHANGED <<conns, epoch, grace, busy, ledger, delayed, others, stale, budget>>

\* reconcile_game_sessions against the activity read before.
RecordPlaytime(k) ==
    /\ Goes(k, "changed", "live")
    /\ ledger' = IF task[k].before = task[k].now THEN ledger ELSE task[k].now
    /\ UNCHANGED <<conns, epoch, grace, busy, playing, delayed, others, stale, budget>>

-----------------------------------------------------------------------------
(* handle_socket: the end of a connection. *)

\* Mutant: the last socket's entry stays.
UnregisterAllButLast(k) ==
    /\ Goes(k, "live", IF conns = {k} THEN "lost" ELSE "over")
    /\ conns' = IF conns = {k} THEN conns ELSE conns \ {k}
    /\ UNCHANGED <<epoch, grace, busy, playing, ledger, delayed, others, stale, budget>>

Unregister(k) ==
    /\ Goes(k, "live", IF conns = {k} THEN "lost" ELSE "over")
    /\ conns' = conns \ {k}
    /\ UNCHANGED <<epoch, grace, busy, playing, ledger, delayed, others, stale, budget>>

SupersedeEpoch(k) ==
    /\ task[k].at = "lost"
    /\ epoch' = epoch + 1
    /\ task' = [task EXCEPT ![k] = [at |-> "dated", epoch |-> epoch + 1]]
    /\ UNCHANGED <<conns, grace, busy, playing, ledger, delayed, others, stale, budget>>

BeginGrace(k) ==
    /\ Goes(k, "dated", "over")
    /\ grace' = TRUE
    /\ delayed' = [delayed EXCEPT ![k] = [at |-> "asleep", epoch |-> task[k].epoch,
                                         doomed |-> FALSE]]
    /\ UNCHANGED <<conns, epoch, busy, playing, ledger, others, stale, budget>>

-----------------------------------------------------------------------------
(* The delayed disconnect task. *)

\* Steps that take two locks in a row are quick against the grace period.
Quick == \A k \in Connections : task[k].at \notin {"checked", "lost", "dated"}

GraceElapses(k) ==
    /\ Quick
    /\ Wakes(k, "asleep", "awake")
    /\ UNCHANGED <<server, task, others, stale, budget>>

CheckOnline(k) ==
    /\ Returns(k, "awake", conns # {}, "absent")
    /\ UNCHANGED <<server, task, others, stale, budget>>

\* Mutant: the epoch is not looked at.
CheckNoEpoch(k) ==
    /\ Wakes(k, "absent", "current")
    /\ UNCHANGED <<server, task, others, stale, budget>>

CheckEpoch(k) ==
    /\ Returns(k, "absent", epoch # delayed[k].epoch, "current")
    /\ UNCHANGED <<server, task, others, stale, budget>>

FinishGrace(k) ==
    /\ Returns(k, "current", ~grace, "finished")
    /\ grace' = FALSE
    /\ stale' = IF grace /\ (conns # {} \/ ~Quick)
                THEN stale \cup {"late"} ELSE stale
    /\ UNCHANGED <<conns, epoch, busy, playing, ledger, task, others, budget>>

ClearActivity(k) ==
    /\ Wakes(k, "finished", "cleared")
    /\ playing' = FALSE
    /\ UNCHANGED <<conns, epoch, grace, busy, ledger, task, others, stale, budget>>

ClearStatus(k) ==
    /\ Wakes(k, "cleared", "quiet")
    /\ busy' = FALSE
    /\ UNCHANGED <<conns, epoch, grace, playing, ledger, task, others, stale, budget>>

\* Mutant: the rows of the games are left open.
CloseNoSessions(k) ==
    /\ Wakes(k, "quiet", "closed")
    /\ UNCHANGED <<server, task, others, stale, budget>>

CloseGameSessions(k) ==
    /\ Wakes(k, "quiet", "closed")
    /\ ledger' = FALSE
    /\ UNCHANGED <<conns, epoch, grace, busy, playing, task, others, stale, budget>>

TellOffline(k) ==
    /\ delayed[k].at = "closed"
    /\ delayed' = [delayed EXCEPT ![k] = Nothing]
    /\ Broadcast("offline")
    /\ UNCHANGED <<server, task, budget>>

-----------------------------------------------------------------------------
(* Observers, and the death of the server. *)

ObserverRegisters(o) ==
    /\ observer[o].at = "away"
    /\ observer' = [observer EXCEPT ![o] = [at |-> "registered"]]
    /\ UNCHANGED <<server, tasks, shown, stale, budget>>

\* presence.snapshot is read some time after the observer's registration.  The
\* member may be away without the others having been told.
ObserverReads(o) ==
    /\ observer[o].at = "registered"
    /\ observer' = [observer EXCEPT ![o] = [at |-> "read", status |-> StatusFor]]
    /\ stale' = IF conns = {} /\ (grace \/ ~Quick) THEN stale \cup {"grace"} ELSE stale
    /\ UNCHANGED <<server, tasks, shown, budget>>

ObserverShows(o) ==
    /\ observer[o].at = "read"
    /\ observer' = [observer EXCEPT ![o] = [at |-> "here"]]
    /\ shown' = [shown EXCEPT ![o] = observer[o].status]
    /\ UNCHANGED <<server, tasks, stale, budget>>

\* Everything but the ledger is in memory, and the rows left open are closed at
\* startup.  The others reconnect.
Restart ==
    /\ Spend("restarts")
    /\ conns' = {} /\ epoch' = 0 /\ grace' = FALSE
    /\ busy' = FALSE /\ playing' = FALSE /\ ledger' = FALSE
    /\ task' = [k \in Connections |->
                   [at |-> IF task[k].at = "out" THEN "out" ELSE "over"]]
    /\ delayed' = [k \in Connections |-> Nothing]
    /\ observer' = [o \in Observers |-> [at |-> "away"]]
    /\ stale' = {}
    /\ UNCHANGED shown

-----------------------------------------------------------------------------

\* What a connection's task does next without being asked.
TaskStep(k) ==
    \/ Register(k) \/ AdvanceEpoch(k) \/ CancelGrace(k) \/ Announce(k)
    \/ TellStatus(k) \/ SetActivity(k) \/ RecordPlaytime(k)
    \/ SupersedeEpoch(k) \/ BeginGrace(k)

DelayedStep(k) ==
    \/ GraceElapses(k) \/ CheckOnline(k) \/ CheckEpoch(k) \/ FinishGrace(k)
    \/ ClearActivity(k) \/ ClearStatus(k) \/ CloseGameSessions(k) \/ TellOffline(k)

Observes(o) == ObserverRegisters(o) \/ ObserverReads(o) \/ ObserverShows(o)

Next ==
    \/ \E k \in Connections :
          \/ Arrives(k) \/ Unregister(k) \/ SetStatus(k) \/ ReadActivity(k)
          \/ TaskStep(k) \/ DelayedStep(k)
    \/ \E o \in Observers : Observes(o)
    \/ Restart

Spec == Init /\ [][Next]_vars

\* Tasks run and timers fire; sockets come, go and ask what they like.
Fairness ==
    /\ \A k \in Connections : WF_vars(TaskStep(k)) /\ WF_vars(DelayedStep(k))
    /\ \A o \in Observers : WF_vars(Observes(o))

FairSpec == Spec /\ Fairness

-----------------------------------------------------------------------------
(* Invariants. *)

TypeOK ==
    /\ conns \subseteq Connections
    /\ epoch <= 2 * Cardinality(Connections)
    /\ \A k \in Connections :
          /\ k \in conns => task[k].at \notin {"out", "checked", "lost", "dated", "over"}
          /\ delayed[k] # Nothing => delayed[k].epoch <= epoch
    /\ \A o \in Observers : shown[o] \in {"online", "busy", "offline"}

-----------------------------------------------------------------------------
(* Properties. *)

\* presence_test.rs, "a reconnect inside the grace period must cancel the
\* pending offline broadcast entirely": a connection that comes before a
\* disconnect's task has looked at the epoch keeps that task from ever acting,
\* even if it is gone again, with a task of its own, when the first one wakes.
ComebackCancels == \A k \in Finished : ~delayed[k].doomed

\* A member who is gone for good plays nothing, is no longer busy, has no
\* playtime running and is shown offline by everybody (but for a snapshot that
\* was overtaken), through any crossing of disconnects, returns and reports of
\* several devices.
GoesOffline ==
    (<>[](conns = {})) =>
        <>[](/\ ~busy /\ ~playing /\ ~ledger
             /\ \/ "overtaken" \in stale
                \/ \A o \in Observers : shown[o] = "offline")

Agrees == \A o \in Observers : shown[o] # "offline"

\* A member who stays is shown by everybody, except where a snapshot was read in
\* a grace period, a snapshot was overtaken by a broadcast, or a connection
\* came or went while a disconnect's task, its checks made, told of an absence.
StaysShown == (<>[](conns # {})) => <>[](Agrees \/ stale # {})
=============================================================================
