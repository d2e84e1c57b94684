------------------------------- MODULE Reconnect -------------------------------
(***************************************************************************)
(* The native client's realtime socket: ConnectWebSocketAsync, its         *)
(* disconnect, its sends, its receive loop and the reconnect loops of      *)
(* client/native/Talkeando.Client/NetworkClient.cs, driven by the          *)
(* bootstrap, login and logout of IpcBridge.cs and answered by the         *)
(* handshake of handle_socket in server/src/ws/handler.rs.                 *)
(*                                                                         *)
(* The UI's handler and each reconnect loop is a task, at the place where  *)
(* it awaits.  Tasks run on several threads: activity reports are sent     *)
(* from timers, and a loop that such a send starts stays off the UI        *)
(* thread.  A send is one step (the send gate keeps them apart), and what  *)
(* is sent is left out, but for the hello having to come first.            *)
(*                                                                         *)
(* The names differ from those of Presence, the server's end of the same   *)
(* connection, so that a module can extend both.                           *)
(***************************************************************************)
EXTENDS Naturals

CONSTANTS
    LoopsAtOnce,    \* bound: how many reconnect loops may run at once
    Allowances      \* the bounds a behaviour may run under (see allowed)

Loops == 1..LoopsAtOnce

\* The handler of the UI's messages that connect or disconnect.
Ui == 0

Tasks == Loops \cup {Ui}

VARIABLES
    token,      \* SessionStore.HasToken
    socket,     \* _webSocket: "none", "dialing", "open" or "closed"
    reading,    \* the receive loop of the current generation runs
    flag,       \* _reconnecting
    attempt,    \* _reconnectAttempt, counted up to FarAttempt
    at,         \* where each task is
    connectionState,    \* what the UI shows
    syncDue,    \* the UI is about to ask for the rooms, as it does once connected
    up,         \* the server answers
    refusing,   \* it rejects the hello: the session is revoked, or the database down
    link,       \* its end of the socket: "none", "fresh" (no hello yet), "ok", "dead"
    excuse,     \* history: what may have left the client without a connection
    allowed     \* bound: how many of each event are left

own  == <<socket, reading, flag, attempt>>
view == <<connectionState, syncDue>>
peer == <<up, refusing>>
socketVars == <<token, own, at, view, peer, link, excuse, allowed>>

Happens(what) == allowed[what] > 0 /\ allowed' = [allowed EXCEPT ![what] = @ - 1]

\* The delay grows up to the fifth attempt: the model tells the first from the rest.
FarAttempt == 2

SocketInit ==
    /\ token = FALSE /\ socket = "none" /\ reading = FALSE
    /\ flag = FALSE /\ attempt = 0
    /\ at = [t \in Tasks |-> "off"]
    /\ connectionState = "disconnected" /\ syncDue = FALSE
    /\ up = TRUE /\ refusing = FALSE /\ link = "none"
    /\ excuse = {}
    /\ allowed \in Allowances

Passes(t, from, to) == at[t] = from /\ at' = [at EXCEPT ![t] = to]

Says(state) ==
    /\ connectionState' = state
    /\ syncDue' = (syncDue \/ state = "connected")

Excused(why, when) == excuse' = IF when THEN excuse \cup {why} ELSE excuse

\* Mutant: the gate is for the dial alone.
GateFreeOnceDialed == \A t \in Tasks : at[t] # "dial"

\* The awaits of an attempt that holds _webSocketGate.
InGate == {"dial", "hello", "tell"}

GateFree == \A t \in Tasks : at[t] \notin InGate

\* BeginReconnect, by the receive loop or by a send that failed, while the tasks
\* are at `now`.  Which loop it starts makes no difference.
BeginReconnect(now) ==
    IF token /\ ~flag
    THEN /\ flag' = TRUE
         /\ connectionState' = "reconnecting"
         /\ \E l \in Loops : now[l] = "off"
         /\ at' = [now EXCEPT ![CHOOSE l \in Loops : now[l] = "off"] = "check"]
    ELSE at' = now /\ UNCHANGED <<flag, connectionState>>

\* A socket that is broken or gone under its user.
Closed == IF socket = "open" THEN "closed" ELSE socket

-----------------------------------------------------------------------------
(* ConnectWebSocketAsync, by any task. *)

\* A loop catches what its attempt throws; the UI's handler reports it.
Throws(t) == IF t = Ui THEN "off" ELSE "failed"

Connected(t) ==
    /\ attempt' = 0
    /\ flag' = FALSE
    /\ Says("connected")
    /\ at' = [at EXCEPT ![t] = IF t = Ui THEN "off" ELSE "won"]

AlreadyOpen(t) ==
    /\ at[t] = "gate" /\ GateFree
    /\ socket = "open"
    /\ Connected(t)
    /\ UNCHANGED <<token, socket, reading, peer, link, excuse, allowed>>

\* Mutant: a racing attempt that has won is not noticed.
DialAnyway(t) ==
    /\ GateFree /\ Passes(t, "gate", "dial")
    /\ socket' = "dialing" /\ reading' = FALSE /\ link' = "none"
    /\ UNCHANGED <<token, flag, attempt, view, peer, excuse, allowed>>

\* The old socket is disposed of and its receive loop is of an older generation.
Dial(t) ==
    /\ GateFree /\ Passes(t, "gate", "dial")
    /\ socket # "open"
    /\ socket' = "dialing" /\ reading' = FALSE /\ link' = "none"
    /\ UNCHANGED <<token, flag, attempt, view, peer, excuse, allowed>>

\* A dial, like a loop's delay, is long against the UI's request for the rooms.
Answered(t) ==
    /\ up /\ ~syncDue
    /\ Passes(t, "dial", "hello")
    /\ socket' = "open" /\ link' = "fresh"
    /\ UNCHANGED <<token, reading, flag, attempt, view, peer, excuse, allowed>>

Unanswered(t) ==
    /\ ~up
    /\ Passes(t, "dial", Throws(t))
    /\ socket' = "closed"
    /\ Excused("visit", t = Ui)
    /\ UNCHANGED <<token, reading, flag, attempt, view, peer, link, allowed>>

\* The session was cleared after the attempt began.
NoHello(t) ==
    /\ ~token
    /\ Passes(t, "hello", Throws(t))
    /\ Excused("unauthenticated", TRUE)
    /\ UNCHANGED <<token, own, view, peer, link, allowed>>

\* The hello is sent, maybe into the void, and the server takes it or closes.
Hello(t) ==
    /\ token /\ socket = "open"
    /\ Passes(t, "hello", "tell")
    /\ link' = IF link = "fresh" /\ ~refusing THEN "ok" ELSE "dead"
    /\ UNCHANGED <<token, own, view, peer, excuse, allowed>>

HelloFails(t) ==
    /\ token /\ link = "dead" /\ at[t] = "hello"
    /\ socket' = "closed"
    /\ BeginReconnect([at EXCEPT ![t] = Throws(t)])
    /\ UNCHANGED <<token, reading, attempt, syncDue, peer, link, excuse, allowed>>

\* A receive loop that starts on a socket broken by then ends at once.
Tell(t) ==
    /\ at[t] = "tell"
    /\ Connected(t)
    /\ reading' = (socket = "open")
    /\ Excused("abandoned", socket # "open")
    /\ UNCHANGED <<token, socket, peer, link, allowed>>

ConnectStep(t) ==
    \/ AlreadyOpen(t) \/ Dial(t) \/ Answered(t) \/ Unanswered(t)
    \/ NoHello(t) \/ Hello(t) \/ HelloFails(t) \/ Tell(t)

-----------------------------------------------------------------------------
(* ReconnectWebSocketAsync. *)

Check(l) ==
    /\ Passes(l, "check", IF token /\ flag THEN "sleep" ELSE "leave")
    /\ attempt' = IF token /\ flag /\ attempt < FarAttempt THEN attempt + 1 ELSE attempt
    /\ UNCHANGED <<token, socket, reading, flag, view, peer, link, excuse, allowed>>

Wake(l) ==
    /\ ~syncDue
    /\ Passes(l, "sleep", IF token /\ flag THEN "gate" ELSE "leave")
    /\ UNCHANGED <<token, own, view, peer, link, excuse, allowed>>

Retry(l) ==
    /\ Passes(l, "failed", "check")
    /\ Says("reconnecting")
    /\ Excused("overtaken", connectionState = "connected")
    /\ UNCHANGED <<token, own, peer, link, allowed>>

\* finally: the flag is reset, even one that another failure has set since.
Leave(l) ==
    /\ \/ Passes(l, "won", "off")
       \/ Passes(l, "leave", "last")
    /\ flag' = FALSE
    /\ Excused("abandoned", flag /\ token)
    /\ UNCHANGED <<token, socket, reading, attempt, view, peer, link, allowed>>

LastWord(l) ==
    /\ Passes(l, "last", "off")
    /\ IF token THEN UNCHANGED view ELSE Says("disconnected")
    /\ UNCHANGED <<token, own, peer, link, excuse, allowed>>

LoopStep(l) == Check(l) \/ Wake(l) \/ Retry(l) \/ Leave(l) \/ LastWord(l)

-----------------------------------------------------------------------------
(* ReceiveWebSocketAsync and SendWebSocketAsync. *)

\* Mutant: what ends the receive loop is taken for stale.
ReceiveEnds ==
    /\ reading /\ (socket # "open" \/ link = "dead")
    /\ reading' = FALSE
    /\ socket' = Closed
    /\ UNCHANGED <<token, flag, attempt, at, view, peer, link, excuse, allowed>>

\* The server's end is gone, a send has broken the socket or a logout disposed of it.
ReceiveFails ==
    /\ reading /\ (socket # "open" \/ link = "dead")
    /\ reading' = FALSE
    /\ socket' = Closed
    /\ BeginReconnect(at)
    /\ UNCHANGED <<token, attempt, syncDue, peer, link, excuse, allowed>>

\* What comes before the hello is refused.
Send ==
    /\ socket = "open"
    /\ link' = IF link = "ok" THEN "ok" ELSE "dead"
    /\ UNCHANGED <<socket, flag, at, connectionState>>

SendFails ==
    /\ socket # "open" \/ link = "dead"
    /\ socket' = Closed
    /\ BeginReconnect(at)
    /\ UNCHANGED link

\* An activity report, a message, or anything else.
Sends ==
    /\ Happens("sends")
    /\ token
    /\ Send \/ SendFails
    /\ UNCHANGED <<token, reading, attempt, syncDue, peer, excuse>>

\* voice.rooms.request, on connection.state "connected".
Syncs ==
    /\ syncDue
    /\ syncDue' = FALSE
    /\ Send \/ SendFails
    /\ UNCHANGED <<token, reading, attempt, peer, excuse, allowed>>

-----------------------------------------------------------------------------
(* IpcBridge: the bootstrap of a login or of a reload, and the logout. *)

Visit ==
    /\ Happens("visits")
    /\ up /\ ~refusing
    /\ Passes(Ui, "off", "gate")
    /\ token' = TRUE
    /\ UNCHANGED <<own, view, peer, link, excuse>>

Logout ==
    /\ Happens("logouts")
    /\ token /\ Passes(Ui, "off", "closing")
    /\ token' = FALSE
    /\ UNCHANGED <<own, view, peer, link, excuse>>

\* Mutant: the socket is let go of without being closed.
DisconnectForgets ==
    /\ GateFree /\ Passes(Ui, "closing", "off")
    /\ socket' = "none"
    /\ UNCHANGED <<token, reading, flag, attempt, view, peer, link, excuse, allowed>>

Disconnect ==
    /\ GateFree /\ Passes(Ui, "closing", "off")
    /\ socket' = "none"
    /\ link' = IF link = "none" THEN "none" ELSE "dead"
    /\ UNCHANGED <<token, reading, flag, attempt, view, peer, excuse, allowed>>

-----------------------------------------------------------------------------
(* The server and the network. *)

Cut == link' = IF link = "none" THEN "none" ELSE "dead"

Drop ==
    /\ Happens("drops")
    /\ link # "none" /\ Cut
    /\ UNCHANGED <<token, own, at, view, peer, excuse>>

\* handle_socket waits 10 s for the hello.
HelloTimeout ==
    /\ link = "fresh" /\ GateFree
    /\ Cut
    /\ UNCHANGED <<token, own, at, view, peer, excuse, allowed>>

Outage ==
    /\ Happens("outages")
    /\ up' = FALSE
    /\ Cut
    /\ UNCHANGED <<token, own, at, view, refusing, excuse>>

Refuse ==
    /\ Happens("refusals")
    /\ refusing' = TRUE
    /\ UNCHANGED <<token, own, at, view, up, link, excuse>>

Recover ==
    /\ ~up \/ refusing
    /\ up' = TRUE /\ refusing' = FALSE
    /\ UNCHANGED <<token, own, at, view, link, excuse, allowed>>

-----------------------------------------------------------------------------

SocketNext ==
    \/ \E t \in Tasks : ConnectStep(t)
    \/ \E l \in Loops : LoopStep(l)
    \/ ReceiveFails \/ Sends \/ Syncs
    \/ Visit \/ Logout \/ Disconnect
    \/ Drop \/ HelloTimeout \/ Outage \/ Refuse \/ Recover

SocketSpec == SocketInit /\ [][SocketNext]_socketVars

\* Tasks run, timers fire and servers close; nobody has to send anything.
SocketFairness ==
    /\ \A t \in Tasks : WF_socketVars(ConnectStep(t))
    /\ \A l \in Loops : WF_socketVars(LoopStep(l))
    /\ WF_socketVars(ReceiveFails) /\ WF_socketVars(Syncs)
    /\ WF_socketVars(Disconnect) /\ WF_socketVars(HelloTimeout)

SocketFairSpec == SocketSpec /\ SocketFairness

-----------------------------------------------------------------------------
(* Invariants. *)

SocketTypeOK ==
    /\ socket \in {"none", "dialing", "open", "closed"}
    /\ link \in {"none", "fresh", "ok", "dead"}
    /\ attempt \in 0..FarAttempt
    /\ connectionState \in {"connected", "reconnecting", "disconnected"}
    /\ \A s, t \in Tasks : at[s] \in InGate /\ at[t] \in InGate => s = t
    /\ socket = "dialing" <=> \E t \in Tasks : at[t] = "dial"

-----------------------------------------------------------------------------
(* Properties. *)

Live == socket = "open" /\ link = "ok" /\ reading /\ connectionState = "connected"

\* Attempts that race, of loops that have stacked up and of the UI, never replace
\* a connection the server has accepted.
LiveSocketIsKept ==
    [][socket = "open" /\ link = "ok" /\ socket' # "open" => ~token]_socketVars

\* A client with a session ends up connected, and says so, once the server stays
\* up and accepts it, except where the failure came in the moments in which an
\* attempt hands over (see the README), or an attempt of the UI's own failed.
Reconnects ==
    (<>[](token /\ up /\ ~refusing)) => <>[](Live \/ excuse # {})

\* A logout puts an end to every loop and to the server's end of the socket,
\* whatever attempt was under way.
LogoutEnds ==
    (<>[](~token)) => <>[](link # "ok" /\ \A t \in Tasks : at[t] = "off")
=============================================================================
