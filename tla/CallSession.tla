------------------------------ MODULE CallSession ------------------------------
(***************************************************************************)
(* The voice call of one client: the queue of joins and leaves that owns   *)
(* the session and its resources (callSession.ts), the microphone's own    *)
(* queue (audioPipeline.ts), what rtc.ts hangs on a session, and the stage *)
(* that App.tsx draws of it.                                               *)
(*                                                                         *)
(* JavaScript runs to completion between awaits, so a step ends where the  *)
(* code awaits: a credential, LiveKit, the microphone, a disposer.  LiveKit*)
(* is external: a Room connects or fails, and the server may end it.       *)
(***************************************************************************)
EXTENDS Integers, Sequences, FiniteSets, SequencesExt

CONSTANTS
    Channels,
    None,           \* no channel, no session
    Budgets         \* the bounds a behaviour may run under: joins and leaves,
                    \* rooms the server ends, failures, microphone switches

\* VoiceSession: what is registered for its end is in resources.
Sessions == [id : Nat, channel : Channels, state : {"connecting", "connected"},
             resources : Seq({"room", "store", "mic", "monitor"})]

ASSUME CallAssumption ==
    /\ None \notin Channels /\ None \notin Sessions
    /\ \A b \in Budgets : \A what \in {"requests", "drops", "failures", "switches"} :
          b[what] \in Nat

VARIABLES
    session,    \* current, or None
    nextId,     \* the id of the next session
    latest,     \* latestRequest
    queue,      \* the operations waiting their turn, oldest first
    task,       \* the operation whose turn it is, and where it awaits
    open,       \* sessions whose LiveKit Room is connecting or connected
    mic,        \* AudioPipelineManager: its operations, where the first of them
                \* is, the session that holds the microphone, and the answer
                \* the call's queue awaits
    monitor,    \* the session whose microphone level is measured
    stage,      \* voiceStore's session.channelId
    shown,      \* App.tsx's `call`: the channel on stage
    wanted,     \* history: the channel of the user's last request
    budget

call   == <<session, nextId, latest, queue, task, open>>
media  == <<mic, monitor>>
screen == <<stage, shown>>
vars   == <<call, media, screen, wanted, budget>>

-----------------------------------------------------------------------------

Idle   == [at |-> "idle"]
MicOff == [queue |-> <<>>, at |-> "idle", holder |-> 0, answer |-> "none"]

IsCurrent(id) == session # None /\ session.id = id

Spend(what) == budget[what] > 0 /\ budget' = [budget EXCEPT ![what] = @ - 1]

\* A voice store that emits puts its channel on stage; without one, the stage
\* is left as it is.
Bridge == IF stage # None THEN stage ELSE shown

Init ==
    /\ session = None
    /\ nextId = 1
    /\ latest = 0
    /\ queue = <<>>
    /\ task = Idle
    /\ open = {}
    /\ mic = MicOff
    /\ monitor = 0
    /\ stage = None
    /\ shown = None
    /\ wanted = None
    /\ budget \in Budgets

-----------------------------------------------------------------------------
(* The user. *)

Enqueue(op) == queue' = Append(queue, op)

\* A click on a channel that is not on stage, or voice.moved: the stage is up at
\* once, the join waits its turn.
JoinCall(c) ==
    /\ shown # c
    /\ Spend("requests")
    /\ latest' = latest + 1
    /\ Enqueue([op |-> "join", channel |-> c, request |-> latest'])
    /\ shown' = c
    /\ wanted' = c
    /\ UNCHANGED <<session, nextId, task, open, media, stage>>

\* Mutant: with no session there is nothing to leave.
LeaveNeedsSession ==
    IF session = None THEN UNCHANGED queue ELSE Enqueue([op |-> "leave"])

Leaving == Enqueue([op |-> "leave"])

\* The hang-up button or voice.disconnected: the stage is down at once.
LeaveCall ==
    /\ shown # None
    /\ Spend("requests")
    /\ latest' = latest + 1
    /\ Leaving
    /\ shown' = None
    /\ wanted' = None
    /\ UNCHANGED <<session, nextId, task, open, media, stage>>

\* Mutant: the microphone alone decides.
MicrophoneHeld == mic.holder # 0

Switchable == session # None /\ mic.holder # 0

\* setNoiseSuppressionMode and setAudioInputDevice, in a call.
SwitchMicrophone ==
    /\ Switchable
    /\ Spend("switches")
    /\ mic' = [mic EXCEPT !.queue =
                  Append(@, [op |-> "switch", id |-> IF session = None THEN 0 ELSE session.id])]
    /\ UNCHANGED <<call, monitor, screen, wanted>>

-----------------------------------------------------------------------------
(* teardownInternal: nobody is current from its first step; then the disposers,*)
(* last registered first, each awaited.                                      *)

Teardown(op, at) ==
    /\ task' = [op |-> op, at |-> at,
                id   |-> IF session = None THEN 0 ELSE session.id,
                todo |-> IF session = None THEN <<>> ELSE Reverse(session.resources)]
    /\ session' = None

TearingDown == task.at \in {"clearing", "ending", "failing"}

Disposing(what) == TearingDown /\ task.todo # <<>> /\ Head(task.todo) = what

Disposed == task' = [task EXCEPT !.todo = Tail(@)]

\* Local speech falls silent with its monitor: the store emits if it was heard.
DisposeMonitor ==
    /\ Disposing("monitor")
    /\ Disposed
    /\ monitor' = 0
    /\ shown' \in IF monitor # 0 THEN {shown, Bridge} ELSE {shown}
    /\ UNCHANGED <<session, nextId, latest, queue, open, mic, stage, wanted, budget>>

\* microphone.dispose waits its turn behind what the microphone is doing.
DisposeMicrophone ==
    /\ Disposing("mic")
    /\ task' = [task EXCEPT !.todo = <<"released">> \o Tail(@)]
    /\ mic' = [mic EXCEPT !.queue = Append(@, [op |-> "dispose", id |-> task.id])]
    /\ UNCHANGED <<session, nextId, latest, queue, open, monitor, screen, wanted, budget>>

MicrophoneReleased ==
    /\ Disposing("released")
    /\ mic.answer # "none"
    /\ Disposed
    /\ mic' = [mic EXCEPT !.answer = "none"]
    /\ UNCHANGED <<session, nextId, latest, queue, open, monitor, screen, wanted, budget>>

\* voiceStore.clearSession.
DisposeStore ==
    /\ Disposing("store")
    /\ Disposed
    /\ stage' = None
    /\ UNCHANGED <<session, nextId, latest, queue, open, media, shown, wanted, budget>>

DisposeRoom ==
    /\ Disposing("room")
    /\ Disposed
    /\ open' = open \ {task.id}
    /\ UNCHANGED <<session, nextId, latest, queue, media, screen, wanted, budget>>

-----------------------------------------------------------------------------
(* The queue: one operation at a time. *)

\* Mutant: the session it is about is not looked at again.
EndedAnyway(id) == TRUE

StillCurrent(id) == IsCurrent(id)

\* A join that is not the latest request does nothing, nor does the end of a
\* session that is no longer current.
Take ==
    /\ task.at = "idle" /\ queue # <<>>
    /\ queue' = Tail(queue)
    /\ LET op == Head(queue)
           drop == \/ op.op = "join" /\ op.request # latest
                   \/ op.op = "ended" /\ ~StillCurrent(op.id)
       IN  IF drop THEN UNCHANGED <<session, task>>
           ELSE Teardown(op, IF op.op = "join" THEN "clearing" ELSE "ending")
    /\ UNCHANGED <<nextId, latest, open, media, screen, wanted, budget>>

\* The new session, its Room its first resource; then credentials are awaited.
OpenSession ==
    /\ task.at = "clearing" /\ task.todo = <<>>
    /\ session' = [id |-> nextId, channel |-> task.op.channel, state |-> "connecting",
                   resources |-> <<"room">>]
    /\ nextId' = nextId + 1
    /\ task' = [op |-> task.op, at |-> "credentials", id |-> nextId]
    /\ UNCHANGED <<latest, queue, open, media, screen, wanted, budget>>

\* Anything that throws ends the attempt; if the session is no longer the current
\* one, whoever replaced it has torn it down.
Fail(id) ==
    IF IsCurrent(id) THEN Teardown(task.op, "failing")
    ELSE task' = Idle /\ UNCHANGED session

CredentialsArrive ==
    /\ task.at = "credentials"
    /\ \/ /\ IsCurrent(task.id)
          /\ task' = [task EXCEPT !.at = "connecting"]
          /\ open' = open \cup {task.id}
          /\ UNCHANGED <<session, budget>>
       \/ /\ Fail(task.id)
          /\ Spend("failures")
          /\ UNCHANGED open
    /\ UNCHANGED <<nextId, latest, queue, media, screen, wanted>>

\* Mutant: the participants are reported when they change, not at first.
BindMediaLater ==
    UNCHANGED <<stage, shown>>

\* bindMedia reports the participants: the store has a session, the stage is up.
BindMedia == stage' = session.channel /\ shown' = session.channel

\* room.connect succeeds: afterConnect binds the media and asks for the
\* microphone.
Connected ==
    /\ task.at = "connecting" /\ task.id \in open
    /\ IsCurrent(task.id)
    /\ session' = [session EXCEPT !.state = "connected", !.resources = Append(@, "store")]
    /\ BindMedia
    /\ mic' = [mic EXCEPT !.queue = Append(@, [op |-> "start", id |-> task.id])]
    /\ task' = [task EXCEPT !.at = "microphone"]
    /\ UNCHANGED <<nextId, latest, queue, open, monitor, wanted, budget>>

ConnectFails ==
    /\ task.at = "connecting"
    /\ Spend("failures")
    /\ open' = open \ {task.id}
    /\ Fail(task.id)
    /\ UNCHANGED <<nextId, latest, queue, media, screen, wanted>>

\* The microphone is published: its disposer and the speech monitor's are
\* registered, and the join is done.  If it failed, the join has.
MicrophoneAnswers ==
    /\ task.at = "microphone" /\ mic.answer # "none"
    /\ mic' = [mic EXCEPT !.answer = "none"]
    /\ IF mic.answer = "ok" /\ IsCurrent(task.id)
       THEN /\ session' = [session EXCEPT !.resources = @ \o <<"mic", "monitor">>]
            /\ monitor' = task.id
            /\ task' = Idle
       ELSE /\ Fail(task.id)
            /\ UNCHANGED monitor
    /\ UNCHANGED <<nextId, latest, queue, open, screen, wanted, budget>>

\* The teardown is done.  A failed join takes its own channel off the stage, an
\* end nobody asked for whatever is on it (onUnexpectedEnd).
Done ==
    /\ task.at \in {"ending", "failing"} /\ task.todo = <<>>
    /\ shown' = CASE task.op.op = "ended" -> None
                  [] task.op.op = "join"  -> IF shown = task.op.channel THEN None ELSE shown
                  [] task.op.op = "leave" -> shown
    /\ task' = Idle
    /\ UNCHANGED <<session, nextId, latest, queue, open, media, stage, wanted, budget>>

\* LiveKit ends the room (RoomEvent.Disconnected): of the current session, its
\* end takes its turn in the queue.
RoomDropped(id) ==
    /\ id \in open
    /\ ~(IsCurrent(id) /\ session.state = "connecting")
    /\ Spend("drops")
    /\ open' = open \ {id}
    /\ IF IsCurrent(id)
       THEN Enqueue([op |-> "ended", id |-> id,
                     asked |-> \E i \in DOMAIN queue : queue[i].op = "leave"])
       ELSE UNCHANGED queue
    /\ UNCHANGED <<session, nextId, latest, task, media, screen, wanted>>

-----------------------------------------------------------------------------
(* The microphone's queue. *)

MicTurn(at) == mic.at = at /\ mic.queue # <<>>

\* An operation ends; the call's queue awaits all but the switches.
MicDone(holder, answer) ==
    mic' = [queue |-> Tail(mic.queue), at |-> "idle", holder |-> holder,
            answer |-> IF Head(mic.queue).op = "switch" THEN mic.answer ELSE answer]

\* Mutant: a failed operation is never left behind.
MicStuck == mic' = [mic EXCEPT !.at = "stuck"]

\* Mutant: its failure is told to nobody.
MicFailsSilently == MicDone(mic.holder, mic.answer)

MicFails == MicDone(mic.holder, "failed")

MicCapture ==
    /\ MicTurn("idle") /\ Head(mic.queue).op # "dispose"
    /\ mic' = [mic EXCEPT !.at = "capturing"]
    /\ UNCHANGED <<call, monitor, screen, wanted, budget>>

\* getUserMedia answers.
MicCaptured ==
    /\ MicTurn("capturing")
    /\ \/ mic' = [mic EXCEPT !.at = "installing"] /\ UNCHANGED budget
       \/ MicFails /\ Spend("failures")
    /\ UNCHANGED <<call, monitor, screen, wanted>>

\* The new track is published, or replaces the old one, and the old pipeline is
\* disposed; unless muted, a switch measures the current session's speech again.
MicInstalled ==
    /\ MicTurn("installing")
    /\ MicDone(Head(mic.queue).id, "ok")
    /\ \/ UNCHANGED <<session, monitor>>
       \/ /\ Head(mic.queue).op = "switch" /\ session = None
          /\ monitor' = 0
          /\ UNCHANGED session
       \/ /\ Head(mic.queue).op = "switch" /\ session # None
          /\ monitor' = session.id
          /\ session' = [session EXCEPT !.resources = Append(@, "monitor")]
    /\ UNCHANGED <<nextId, latest, queue, task, open, screen, wanted, budget>>

\* LiveKit refuses the track, or the room is gone: the new pipeline is disposed.
MicRefused ==
    /\ MicTurn("installing")
    /\ MicFails
    /\ IF Head(mic.queue).id \in open THEN Spend("failures") ELSE UNCHANGED budget
    /\ UNCHANGED <<call, monitor, screen, wanted>>

MicDisposed ==
    /\ MicTurn("idle") /\ Head(mic.queue).op = "dispose"
    /\ MicDone(0, "ok")
    /\ UNCHANGED <<call, monitor, screen, wanted, budget>>

-----------------------------------------------------------------------------

\* A roster event, or somebody who speaks: the store emits.
StoreEmits ==
    /\ stage # None /\ shown # stage
    /\ shown' = Bridge
    /\ UNCHANGED <<call, media, stage, wanted, budget>>

CallStep ==
    \/ Take \/ OpenSession \/ Done
    \/ DisposeMonitor \/ DisposeMicrophone \/ MicrophoneReleased
    \/ DisposeStore \/ DisposeRoom
    \/ MicrophoneAnswers

\* What answers in a bounded time: credentials have a timeout of 10 s, LiveKit
\* timeouts of its own, and the device is there or not.
AnswerStep ==
    \/ CredentialsArrive \/ Connected \/ ConnectFails
    \/ MicCapture \/ MicCaptured \/ MicInstalled \/ MicRefused \/ MicDisposed

Next ==
    \/ \E c \in Channels : JoinCall(c)
    \/ LeaveCall
    \/ SwitchMicrophone
    \/ CallStep
    \/ AnswerStep
    \/ \E id \in open : RoomDropped(id)
    \/ StoreEmits

Spec == Init /\ [][Next]_vars

FairSpec == Spec /\ WF_vars(CallStep) /\ WF_vars(AnswerStep)

-----------------------------------------------------------------------------
(* Invariants. *)

Settled == task.at = "idle" /\ queue = <<>>

TypeOK ==
    /\ session # None =>
          /\ session.channel \in Channels
          /\ session.state \in {"connecting", "connected"}
          /\ session.id \in 1..nextId - 1
    /\ task.at \in {"idle", "clearing", "ending", "failing",
                    "credentials", "connecting", "microphone"}
    /\ mic.at \in {"idle", "capturing", "installing"}
    /\ mic.answer \in {"none", "ok", "failed"}
    /\ stage \in Channels \cup {None} /\ shown \in Channels \cup {None}

\* INV-D1, the header of callSession.ts: when a session is gone and its teardown
\* over, so are its Room, its microphone (whatever switch was under way), its
\* speech monitor and its store entry; the next session starts from nothing,
\* and two Rooms are never open at once.
NothingOutlives ==
    /\ Cardinality(open) <= 1
    /\ (session = None /\ task.at = "idle") \/ task.at = "credentials" =>
           open = {} /\ mic = MicOff /\ monitor = 0 /\ stage = None

\* The user's last request decides: once the queue is empty the session is in
\* the channel asked for last, or there is none, however many joins and leaves
\* were issued while others were under way.
LatestRequestWins == Settled /\ session # None => session.channel = wanted

\* A connected call is on stage, whatever the ends of older sessions and the
\* failures of older joins took off it.
ConnectedIsShown == Settled /\ session # None => shown = session.channel

-----------------------------------------------------------------------------
(* Action properties. *)

\* INV-C4, "a teardown we asked for never calls onUnexpectedEnd": not for a room
\* that ended while a leave was already waiting, nor while another session is
\* current.
LeavingIsQuiet ==
    [][task.at = "ending" /\ task'.at = "idle" /\ task.op.op = "ended"
          => ~task.op.asked /\ task.op.id = task.id]_vars

-----------------------------------------------------------------------------
(* Liveness. *)

\* No request hangs: a microphone that fails, a room that ends or a request that
\* overtakes another never stops the queue.
RequestsSettle == (queue # <<>>) ~> Settled
=============================================================================
