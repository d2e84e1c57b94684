--------------------------- MODULE CallSessionProofs ---------------------------
(***************************************************************************)
(* CallSession, for every set of channels and every budget, from one       *)
(* inductive invariant, CallInv:                                           *)
(*                                                                         *)
(*   Phases     at each step of the queue's operation, what the session    *)
(*              has acquired is registered for disposal, or the disposer   *)
(*              is still to be called; the microphone's queue included     *)
(*   Requested  the session is in the channel asked for last, unless a     *)
(*              request still in the queue overrules it                    *)
(*   Shown      so is the stage, whatever took it down and put it up       *)
(*   EndsAsked  the end of a room that a leave was waiting for has that    *)
(*              leave ahead of it                                          *)
(***************************************************************************)
EXTENDS CallSession, SequenceTheorems, FiniteSetTheorems, TLAPS

\* What a session registers for its end.
Kinds == {"room", "store", "mic", "monitor"}

\* Whether a resource, or a disposer, is in a sequence of them.
Has(s, what) == \E i \in DOMAIN s : s[i] = what

\* A disposer awaited is still there, as "released".
Once(s) == \A i, j \in DOMAIN s :
    s[i] \in {"mic", "released"} /\ s[j] \in {"mic", "released"} => i = j

\* The operations of the queue, and of the microphone's.
Joins == [op : {"join"}, channel : Channels, request : Nat]
Leaves == [op : {"leave"}]
Ends  == [op : {"ended"}, id : Nat, asked : BOOLEAN]
Ops   == Joins \cup Leaves \cup Ends

MicOps == [op : {"start", "switch", "dispose"}, id : Nat]

-----------------------------------------------------------------------------
(* Types. *)

\* The session and the queue.
SessionTyped ==
    /\ nextId \in Nat \ {0} /\ latest \in Nat
    /\ session # None => session \in Sessions /\ session.id \in 1..nextId - 1
    /\ queue \in Seq(Ops)

\* The microphone: what is at work is the first in its queue, and never a disposal.
MicTyped ==
    /\ mic \in [queue : Seq(MicOps), at : {"idle", "capturing", "installing"},
                holder : Nat, answer : {"none", "ok", "failed"}]
    /\ mic.at # "idle" => mic.queue # <<>> /\ Head(mic.queue).op # "dispose"

\* What is shown and asked for.
ScreenTyped ==
    /\ stage \in Channels \cup {None} /\ shown \in Channels \cup {None}
    /\ wanted \in Channels \cup {None}

-----------------------------------------------------------------------------
(* The phases of the call's queue. *)

\* No session has anything.
Clean == open = {} /\ mic = MicOff /\ monitor = 0 /\ stage = None

\* The microphone of a call: only switches wait for it.
Switches(m) == \A i \in DOMAIN m.queue : m.queue[i].op = "switch"

\* And no answer is awaited.
Switched(m) == m.answer = "none" /\ Switches(m)

\* The microphone of a call that begins: it is asked for, it failed, or it is there.
Begun(m) ==
    \/ /\ m.holder = 0 /\ m.answer = "none"
       /\ Len(m.queue) = 1 /\ m.queue[1].op = "start"
    \/ m = [MicOff EXCEPT !.answer = "failed"]
    \/ m.answer = "ok" /\ Switches(m)

\* The microphone of a call that is over: its disposal waits, behind the switches, or
\* is done.
Released(m) ==
    \/ m = [MicOff EXCEPT !.answer = "ok"]
    \/ /\ m.answer = "none" /\ m.queue # <<>>
       /\ \A i \in DOMAIN m.queue :
             m.queue[i].op = IF i = Len(m.queue) THEN "dispose" ELSE "switch"

\* A session with its store.
Bound ==
    /\ session.state = "connected" /\ stage = session.channel
    /\ open \subseteq {session.id}
    /\ Has(session.resources, "room") /\ Has(session.resources, "store")
    /\ monitor # 0 => Has(session.resources, "monitor")
    /\ Once(session.resources)

\* Nothing is left when there is no session.
Free == task.at = "idle" /\ session = None => Clean

\* A session whose join is over.
InCall ==
    task.at = "idle" /\ session # None =>
        Bound /\ Has(session.resources, "mic") /\ Switched(mic)

\* The join at work is that of the session.
Joining ==
    task.at \in {"credentials", "connecting", "microphone"} =>
        /\ task = [op |-> task.op, at |-> task.at, id |-> task.id]
        /\ task.op \in Joins /\ session # None /\ session.id = task.id
        /\ session.channel = task.op.channel
        /\ task.at # "microphone" =>
              /\ session.resources = <<"room">> /\ session.state = "connecting"
              /\ mic = MicOff /\ monitor = 0 /\ stage = None
              /\ open = IF task.at = "connecting" THEN {task.id} ELSE {}

\* The session awaits its microphone.
Starting ==
    task.at = "microphone" =>
        Bound /\ ~Has(session.resources, "mic") /\ Begun(mic)

\* What is left of a session has its disposer waiting.
Disposers ==
    TearingDown =>
        /\ task = [op |-> task.op, at |-> task.at, id |-> task.id, todo |-> task.todo]
        /\ task.op \in IF task.at = "ending" THEN Leaves \cup Ends ELSE Joins
        /\ task.id \in 0..nextId - 1 /\ task.todo \in Seq(Kinds \cup {"released"})
        /\ session = None
        /\ open \subseteq {task.id} /\ (open # {} => Has(task.todo, "room"))
        /\ stage # None => Has(task.todo, "store")
        /\ monitor # 0 => Has(task.todo, "monitor")
        /\ Once(task.todo)
        /\ \A i \in DOMAIN task.todo : task.todo[i] = "released" => i = 1
        /\ Has(task.todo, "mic") => Switched(mic)
        /\ Has(task.todo, "released") => Released(mic)
        /\ ~Has(task.todo, "mic") /\ ~Has(task.todo, "released") => mic = MicOff

\* The steps of the queue's operation.
PhaseTyped == task.at \in {"idle", "clearing", "ending", "failing",
                    "credentials", "connecting", "microphone"}

-----------------------------------------------------------------------------
(* The requests. *)

\* The join asked for last.
Newest(i) == queue[i].op = "join" /\ queue[i].request = latest

\* A request in the queue is to end the session.
Overruled == \E i \in DOMAIN queue : queue[i].op = "leave" \/ Newest(i)

\* The last request is heeded, or waits.
Requested ==
    /\ \A i \in DOMAIN queue :
          /\ queue[i].op = "join" => queue[i].request <= latest
          /\ Newest(i) => queue[i].channel = wanted
    /\ session # None => session.channel = wanted \/ Overruled
    /\ task.at = "clearing" => task.op.channel = wanted \/ Overruled

\* The stage shows the session, or a request waits.
Shown ==
    session # None /\ task.at \in {"idle", "microphone"} => shown = session.channel \/ Overruled

\* An end asked for has its leave ahead of it.
EndsAsked ==
    /\ \A i \in DOMAIN queue : queue[i].op = "ended" =>
          /\ queue[i].id < nextId
          /\ queue[i].asked /\ session # None /\ queue[i].id = session.id =>
                \E j \in 1..i - 1 : queue[j].op = "leave"
    /\ task.at = "ending" /\ task.op.op = "ended" => ~task.op.asked /\ task.op.id = task.id

Types == SessionTyped /\ MicTyped /\ ScreenTyped /\ PhaseTyped

Phases == Free /\ InCall /\ Joining /\ Starting /\ Disposers

CallInv == Types /\ Phases /\ Requested /\ Shown /\ EndsAsked

-----------------------------------------------------------------------------
(* Sequences of resources and of disposers. *)

\* What is appended is there, and so is what was.
LEMMA HasAppend ==
    ASSUME NEW S, NEW s \in Seq(S), NEW e \in S
    PROVE  /\ Has(Append(s, e), e)
           /\ \A what : Has(s, what) => Has(Append(s, e), what)
           /\ \A what : Has(Append(s, e), what) => Has(s, what) \/ what = e
           /\ e \notin {"mic", "released"} /\ Once(s) => Once(Append(s, e))
  <1>1. /\ Append(s, e) \in Seq(S) /\ Len(Append(s, e)) = Len(s) + 1
        /\ \A i \in 1..Len(s) : Append(s, e)[i] = s[i]
        /\ Append(s, e)[Len(s) + 1] = e
    BY AppendProperties
  <1>2. DOMAIN s = 1..Len(s) /\ DOMAIN Append(s, e) = 1..Len(s) + 1 /\ Len(s) \in Nat
    BY <1>1, LenProperties
  <1> HIDE DEF Has
  <1>3. Has(Append(s, e), e)
    BY <1>1, <1>2 DEF Has
  <1>4. ASSUME NEW what PROVE Has(s, what) => Has(Append(s, e), what)
    BY <1>1, <1>2 DEF Has
  <1>5. ASSUME NEW what PROVE Has(Append(s, e), what) => Has(s, what) \/ what = e
    BY <1>1, <1>2 DEF Has
  <1>6. e \notin {"mic", "released"} /\ Once(s) => Once(Append(s, e))
    BY <1>1, <1>2 DEF Once
  <1> QED
    BY <1>3, <1>4, <1>5, <1>6

\* The disposers are the resources, in the opposite order.
LEMMA Reversed ==
    ASSUME NEW S, NEW s \in Seq(S)
    PROVE  /\ Reverse(s) \in Seq(S)
           /\ \A what : Has(Reverse(s), what) <=> Has(s, what)
           /\ Once(s) => Once(Reverse(s))
  <1>1. /\ Len(s) \in Nat /\ DOMAIN s = 1..Len(s)
        /\ Reverse(s) = [i \in 1..Len(s) |-> s[(Len(s) - i) + 1]]
    BY DEF Reverse
  <1>2. \A i \in 1..Len(s) : (Len(s) - i) + 1 \in 1..Len(s) /\ s[i] \in S
    BY <1>1
  <1>3. Reverse(s) \in [1..Len(s) -> S]
    BY <1>1, <1>2
  <1>4. Reverse(s) \in Seq(S)
    BY <1>1, <1>3, SeqDef
  <1>5. DOMAIN Reverse(s) = 1..Len(s)
    BY <1>3
  <1>6. ASSUME NEW what PROVE Has(Reverse(s), what) => Has(s, what)
    BY <1>1, <1>2, <1>5 DEF Has
  <1>7. ASSUME NEW what PROVE Has(s, what) => Has(Reverse(s), what)
    <2>1. SUFFICES ASSUME NEW i \in 1..Len(s), s[i] = what PROVE Has(Reverse(s), what)
      BY <1>1 DEF Has
    <2>2. PICK j \in 1..Len(s) : j = (Len(s) - i) + 1
      BY <1>2
    <2>3. Reverse(s)[j] = s[(Len(s) - j) + 1] /\ (Len(s) - j) + 1 = i
      BY <1>1, <2>2
    <2> QED
      BY <1>5, <2>1, <2>3 DEF Has
  <1>8. ASSUME Once(s) PROVE Once(Reverse(s))
    <2>1. SUFFICES ASSUME NEW i \in 1..Len(s), NEW j \in 1..Len(s),
                          Reverse(s)[i] \in {"mic", "released"},
                          Reverse(s)[j] \in {"mic", "released"}
                   PROVE  i = j
      BY <1>5 DEF Once
    <2>2. PICK k \in 1..Len(s) : k = (Len(s) - i) + 1
      BY <1>2
    <2>3. PICK l \in 1..Len(s) : l = (Len(s) - j) + 1
      BY <1>2
    <2>4. s[k] \in {"mic", "released"} /\ s[l] \in {"mic", "released"}
      BY <1>1, <2>1, <2>2, <2>3
    <2>5. k = l
      BY <1>1, <1>8, <2>4 DEF Once
    <2> QED
      BY <1>1, <2>2, <2>3, <2>5
  <1> QED
    BY <1>4, <1>6, <1>7, <1>8

\* A disposer done, the others are still to be called.
LEMMA NextDisposer ==
    ASSUME NEW s \in Seq(Kinds \cup {"released"}), s # <<>>, Once(s),
           \A i \in DOMAIN s : s[i] = "released" => i = 1
    PROVE  /\ Tail(s) \in Seq(Kinds \cup {"released"}) /\ Once(Tail(s))
           /\ \A what : Has(s, what) <=> what = Head(s) \/ Has(Tail(s), what)
           /\ \A what : Has(Tail(s), what) => Head(s) \notin {"mic", "released"} \/ what # "mic"
           /\ ~Has(Tail(s), "released")
  <1>1. /\ Len(s) \in Nat \ {0} /\ DOMAIN s = 1..Len(s)
        /\ Tail(s) \in Seq(Kinds \cup {"released"})
        /\ Len(Tail(s)) = Len(s) - 1 /\ DOMAIN Tail(s) = 1..Len(s) - 1
        /\ \A i \in 1..Len(s) - 1 : Tail(s)[i] = s[i + 1]
        /\ Head(s) = s[1]
    BY EmptySeq, HeadTailProperties, LenProperties
  <1>2. Once(Tail(s))
    BY <1>1 DEF Once
  <1>3. ASSUME NEW what PROVE Has(s, what) => what = Head(s) \/ Has(Tail(s), what)
    <2>1. SUFFICES ASSUME NEW i \in 1..Len(s), s[i] = what
                   PROVE  what = Head(s) \/ Has(Tail(s), what)
      BY <1>1 DEF Has
    <2>2. CASE i = 1
      BY <1>1, <2>1, <2>2
    <2>3. CASE i # 1
      <3>1. PICK j \in 1..Len(s) - 1 : i = j + 1
        BY <1>1, <2>3
      <3> QED
        BY <1>1, <2>1, <3>1 DEF Has
    <2> QED
      BY <2>2, <2>3
  <1>4. ASSUME NEW what PROVE what = Head(s) \/ Has(Tail(s), what) => Has(s, what)
    BY <1>1 DEF Has
  <1>5. Has(Tail(s), "mic") => Head(s) \notin {"mic", "released"}
    BY <1>1 DEF Has, Once
  <1>6. ~Has(Tail(s), "released")
    BY <1>1 DEF Has
  <1> QED
    BY <1>1, <1>2, <1>3, <1>4, <1>5, <1>6

\* microphone.dispose is called, and awaited.
LEMMA Awaited ==
    ASSUME NEW s \in Seq(Kinds \cup {"released"}), s # <<>>, Once(s), Head(s) = "mic",
           \A i \in DOMAIN s : s[i] = "released" => i = 1
    PROVE  /\ <<"released">> \o Tail(s) \in Seq(Kinds \cup {"released"})
           /\ Once(<<"released">> \o Tail(s))
           /\ \A what : Has(<<"released">> \o Tail(s), what)
                          <=> what = "released" \/ (what # "mic" /\ Has(s, what))
           /\ \A i \in DOMAIN (<<"released">> \o Tail(s)) :
                (<<"released">> \o Tail(s))[i] = "released" => i = 1
  <1> DEFINE t == <<"released">> \o Tail(s)
  <1>1. /\ Len(s) \in Nat \ {0} /\ DOMAIN s = 1..Len(s) /\ s[1] = "mic"
        /\ Tail(s) \in Seq(Kinds \cup {"released"})
        /\ Len(Tail(s)) = Len(s) - 1
        /\ \A i \in 1..Len(s) - 1 : Tail(s)[i] = s[i + 1]
    BY EmptySeq, HeadTailProperties, LenProperties
  <1>2. <<"released">> \in Seq(Kinds \cup {"released"}) /\ Len(<<"released">>) = 1
    OBVIOUS
  <1>3. t \in Seq(Kinds \cup {"released"}) /\ Len(t) = 1 + (Len(s) - 1)
        /\ \A i \in 1..1 + (Len(s) - 1) :
              t[i] = IF i <= 1 THEN <<"released">>[i] ELSE Tail(s)[i - 1]
    BY <1>1, <1>2, ConcatProperties
  <1> HIDE DEF t
  <1>4. DOMAIN t = 1..Len(s) /\ t[1] = "released"
    BY <1>1, <1>3
  <1>5. \A i \in 2..Len(s) : t[i] = s[i]
    <2>1. SUFFICES ASSUME NEW i \in 2..Len(s) PROVE t[i] = s[i]
      OBVIOUS
    <2>2. PICK j \in 1..Len(s) - 1 : i = j + 1
      BY <1>1
    <2> QED
      BY <1>1, <1>3, <2>2
  <1>6. Once(t)
    BY <1>1, <1>4, <1>5 DEF Once
  <1>7. \A i \in DOMAIN t : t[i] = "released" => i = 1
    BY <1>1, <1>4, <1>5
  <1>8. ASSUME NEW what PROVE Has(t, what) <=> what = "released" \/ (what # "mic" /\ Has(s, what))
    <2>1. Has(t, what) => what = "released" \/ (what # "mic" /\ Has(s, what))
      <3> SUFFICES ASSUME Has(t, what), what # "released" PROVE what # "mic" /\ Has(s, what)
        OBVIOUS
      <3>1. PICK i \in 1..Len(s) : t[i] = what
        BY <1>4 DEF Has
      <3>2. i # 1 /\ i \in 2..Len(s)
        BY <1>1, <1>4, <3>1
      <3>3. s[i] = what /\ what # "mic"
        BY <1>1, <1>5, <3>1, <3>2 DEF Once
      <3> QED
        BY <1>1, <3>3 DEF Has
    <2>2. what # "mic" /\ Has(s, what) => Has(t, what)
      BY <1>1, <1>4, <1>5 DEF Has
    <2>3. Has(t, "released")
      BY <1>1, <1>4 DEF Has
    <2> QED
      BY <2>1, <2>2, <2>3
  <1> QED
    BY <1>3, <1>6, <1>7, <1>8 DEF t

-----------------------------------------------------------------------------
(* The user's requests, and the ends of rooms. *)

\* An operation takes the last place in the queue.
LEMMA QueueGrows ==
    ASSUME SessionTyped, NEW op \in Ops, Enqueue(op)
    PROVE  /\ Len(queue) \in Nat /\ DOMAIN queue = 1..Len(queue)
           /\ queue' \in Seq(Ops) /\ DOMAIN queue' = 1..Len(queue) + 1
           /\ \A i \in 1..Len(queue) : queue'[i] = queue[i]
           /\ queue'[Len(queue) + 1] = op
  <1>1. queue \in Seq(Ops) /\ queue' = Append(queue, op)
    BY DEF SessionTyped, Enqueue
  <1> QED
    BY <1>1, AppendProperties, LenProperties

\* The first in the queue leaves it.
LEMMA QueueShrinks ==
    ASSUME SessionTyped, queue # <<>>, queue' = Tail(queue)
    PROVE  /\ Len(queue) \in Nat \ {0} /\ DOMAIN queue = 1..Len(queue)
           /\ Head(queue) = queue[1] /\ Head(queue) \in Ops
           /\ queue' \in Seq(Ops) /\ DOMAIN queue' = 1..Len(queue) - 1
           /\ \A i \in 1..Len(queue) - 1 : queue'[i] = queue[i + 1]
  <1>1. queue \in Seq(Ops)
    BY DEF SessionTyped
  <1> QED
    BY <1>1, EmptySeq, HeadTailProperties, LenProperties

\* What neither the session nor its resources change leaves the phases alone.
LEMMA PhasesKept ==
    ASSUME Phases, UNCHANGED <<session, nextId, task, open, mic, monitor, stage>>
    PROVE  Phases'
  BY DEF Phases, Free, InCall, Joining, Starting, Disposers, Bound, Clean, TearingDown

\* The latest request overrules whatever goes before it.
LEMMA UserOverrules ==
    ASSUME CallInv, NEW op \in Joins \cup Leaves, Enqueue(op), latest' = latest + 1,
           op \in Leaves \/ (op.request = latest' /\ op.channel = wanted'),
           UNCHANGED <<session, nextId, task, open, media, stage>>,
           wanted' \in Channels \cup {None}, shown' \in Channels \cup {None}
    PROVE  CallInv'
  <1>1. op \in Ops
    BY DEF Ops
  <1> DEFINE n == Len(queue)
  <1>2. /\ n \in Nat /\ DOMAIN queue = 1..n
        /\ queue' \in Seq(Ops) /\ DOMAIN queue' = 1..n + 1
        /\ \A i \in 1..n : queue'[i] = queue[i]
        /\ queue'[n + 1] = op
    BY <1>1, QueueGrows DEF CallInv, Types
  <1> HIDE DEF n
  <1>3. latest \in Nat /\ latest' \in Nat /\ latest < latest'
    BY DEF CallInv, Types, SessionTyped
  <1>4. Types'
    BY <1>2, <1>3 DEF CallInv, Types, SessionTyped, MicTyped, ScreenTyped, PhaseTyped, media
  <1>5. Phases'
    BY PhasesKept DEF CallInv, media
  <1>6. op.op = "leave" \/ (op.op = "join" /\ op.request = latest' /\ op.channel = wanted')
    BY DEF Joins, Leaves
  <1>7. Overruled'
    BY <1>2, <1>6 DEF Overruled, Newest
  <1>8. Requested'
    <2>1. ASSUME NEW i \in DOMAIN queue'
          PROVE  /\ queue'[i].op = "join" => queue'[i].request <= latest'
                 /\ Newest(i)' => queue'[i].channel = wanted'
      <3>1. CASE i = n + 1
        BY <1>2, <1>3, <1>6, <3>1 DEF Newest
      <3>2. CASE i \in 1..n
        <4>1. queue[i].op = "join" => queue[i].request <= latest
          BY <1>2, <3>2 DEF CallInv, Requested
        <4>2. queue[i].op = "join" => queue[i].request \in Nat
          BY <1>2, <3>2 DEF CallInv, Types, SessionTyped, Ops, Joins, Leaves, Ends
        <4> QED
          BY <1>2, <1>3, <3>2, <4>1, <4>2 DEF Newest
      <3> QED
        BY <1>2, <2>1, <3>1, <3>2
    <2> QED
      BY <1>7, <2>1 DEF Requested
  <1>9. EndsAsked'
    <2>1. ASSUME NEW i \in DOMAIN queue', queue'[i].op = "ended"
          PROVE  /\ queue'[i].id < nextId'
                 /\ queue'[i].asked /\ session' # None /\ queue'[i].id = session'.id =>
                       \E j \in 1..i - 1 : queue'[j].op = "leave"
      <3>1. i \in 1..n /\ queue'[i] = queue[i]
        BY <1>2, <1>6, <2>1
      <3>2. \A j \in 1..i - 1 : queue'[j] = queue[j]
        BY <1>2, <3>1
      <3> QED
        BY <1>2, <2>1, <3>1, <3>2 DEF CallInv, EndsAsked
    <2> QED
      BY <2>1 DEF CallInv, EndsAsked
  <1> QED
    BY <1>4, <1>5, <1>7, <1>8, <1>9 DEF CallInv, Shown

\* The user joins and leaves.
LEMMA UserInv ==
    ASSUME CallInv, LeaveCall \/ \E c \in Channels : JoinCall(c) PROVE CallInv'
  <1>1. CASE LeaveCall
    <2>1. [op |-> "leave"] \in Leaves
      BY DEF Leaves
    <2>2. Enqueue([op |-> "leave"])
      BY <1>1 DEF LeaveCall, Leaving
    <2> QED
      BY <1>1, <2>1, <2>2, UserOverrules DEF LeaveCall
  <1>2. ASSUME NEW c \in Channels, JoinCall(c) PROVE CallInv'
    <2> DEFINE op == [op |-> "join", channel |-> c, request |-> latest']
    <2>1. latest' = latest + 1 /\ latest' \in Nat
      BY <1>2 DEF JoinCall, CallInv, Types, SessionTyped
    <2>2. op \in Joins
      BY <2>1 DEF Joins
    <2>3. /\ Enqueue(op) /\ op.request = latest' /\ op.channel = wanted'
          /\ wanted' = c /\ shown' = c
          /\ UNCHANGED <<session, nextId, task, open, media, stage>>
      BY <1>2 DEF JoinCall
    <2>4. PICK x \in Joins : x = op
      BY <2>2
    <2> QED
      BY <2>1, <2>3, <2>4, UserOverrules
  <1> QED
    BY <1>1, <1>2

\* The server ends a room.
LEMMA RoomDroppedInv ==
    ASSUME CallInv, NEW id \in open, RoomDropped(id) PROVE CallInv'
  <1> DEFINE n == Len(queue)
             old == /\ n \in Nat /\ DOMAIN queue = 1..n
                    /\ n <= Len(queue') /\ DOMAIN queue' = 1..Len(queue')
                    /\ queue' \in Seq(Ops)
                    /\ \A i \in 1..n : queue'[i] = queue[i]
             new == \A i \in DOMAIN queue' : i \notin 1..n =>
                       /\ queue'[i].op = "ended" /\ queue'[i].id < nextId
                       /\ queue'[i].asked => \E j \in 1..i - 1 : queue'[j].op = "leave"
  <1>1. UNCHANGED <<session, nextId, latest, task, mic, monitor, stage, shown, wanted>>
    BY DEF RoomDropped, media, screen
  <1>2. old /\ new
    <2>1. CASE ~IsCurrent(id)
      <3>1. UNCHANGED queue
        BY <2>1 DEF RoomDropped
      <3>2. queue \in Seq(Ops)
        BY DEF CallInv, Types, SessionTyped
      <3>3. DOMAIN queue = 1..n /\ n \in Nat
        BY <3>2, LenProperties
      <3> QED
        BY <3>1, <3>2, <3>3
    <2>2. CASE IsCurrent(id)
      <3>1. PICK asked \in BOOLEAN : asked = \E i \in DOMAIN queue : queue[i].op = "leave"
        OBVIOUS
      <3> DEFINE op == [op |-> "ended", id |-> id, asked |-> asked]
      <3>2. Enqueue(op)
        BY <2>2, <3>1 DEF RoomDropped
      <3>3. id \in Nat /\ id < nextId
        BY <2>2 DEF IsCurrent, CallInv, Types, SessionTyped
      <3>4. op \in Ops
        BY <3>3 DEF Ops, Ends
      <3>5. /\ n \in Nat /\ DOMAIN queue = 1..n
            /\ queue' \in Seq(Ops) /\ DOMAIN queue' = 1..n + 1
            /\ \A i \in 1..n : queue'[i] = queue[i]
            /\ queue'[n + 1] = op
        BY <3>2, <3>4, QueueGrows DEF CallInv, Types
      <3>6. Len(queue') = n + 1
        BY <3>5, LenProperties
      <3>7. old
        BY <3>5, <3>6
      <3>8. ASSUME asked PROVE \E j \in 1..n : queue'[j].op = "leave"
        BY <3>1, <3>5, <3>8
      <3>9. new
        BY <3>3, <3>5, <3>8
      <3> QED
        BY <3>7, <3>9
    <2> QED
      BY <2>1, <2>2
  <1> HIDE DEF n
  <1>3. Types'
    BY <1>1, <1>2 DEF CallInv, Types, SessionTyped, MicTyped, ScreenTyped, PhaseTyped
  <1>4. Phases'
    <2>1. open' = open \ {id} /\ (IsCurrent(id) => session.state # "connecting")
      BY DEF RoomDropped
    <2>2. task.at # "connecting"
      BY <2>1 DEF CallInv, Phases, Joining, IsCurrent
    <2>3. Free' /\ InCall' /\ Starting'
      BY <1>1, <2>1 DEF CallInv, Phases, Free, InCall, Starting, Bound, Clean
    <2>4. Joining'
      BY <1>1, <2>1, <2>2 DEF CallInv, Phases, Joining
    <2>5. Disposers'
      BY <1>1, <2>1 DEF CallInv, Phases, Disposers, TearingDown
    <2> QED
      BY <2>3, <2>4, <2>5 DEF Phases
  <1>5. Overruled => Overruled'
    BY <1>1, <1>2 DEF Overruled, Newest
  <1>6. Requested'
    <2>1. ASSUME NEW i \in DOMAIN queue'
          PROVE  /\ queue'[i].op = "join" => queue'[i].request <= latest'
                 /\ Newest(i)' => queue'[i].channel = wanted'
      BY <1>1, <1>2 DEF CallInv, Requested, Newest
    <2> QED
      BY <1>1, <1>5, <2>1 DEF CallInv, Requested
  <1>7. Shown'
    BY <1>1, <1>5 DEF CallInv, Shown
  <1>8. EndsAsked'
    <2>1. ASSUME NEW i \in DOMAIN queue', queue'[i].op = "ended"
          PROVE  /\ queue'[i].id < nextId'
                 /\ queue'[i].asked /\ session' # None /\ queue'[i].id = session'.id =>
                       \E j \in 1..i - 1 : queue'[j].op = "leave"
      <3>1. CASE i \notin 1..n
        BY <1>1, <1>2, <2>1, <3>1
      <3>2. CASE i \in 1..n
        <4>1. \A j \in 1..i : queue'[j] = queue[j]
          BY <1>2, <3>2
        <4>2. queue'[i] = queue[i] /\ i \in DOMAIN queue
          BY <1>2, <3>2
        <4> QED
          BY <1>1, <1>2, <2>1, <3>2, <4>1, <4>2 DEF CallInv, EndsAsked
      <3> QED
        BY <3>1, <3>2
    <2> QED
      BY <1>1, <2>1 DEF CallInv, EndsAsked
  <1> QED
    BY <1>3, <1>4, <1>6, <1>7, <1>8 DEF CallInv

-----------------------------------------------------------------------------
(* The microphone's queue. *)

\* An operation at work goes on.
LEMMA MicGoesOn ==
    ASSUME MicTyped, mic.queue # <<>>, Head(mic.queue).op # "dispose",
           NEW at \in {"capturing", "installing"}, mic' = [mic EXCEPT !.at = at]
    PROVE  /\ MicTyped' /\ mic # MicOff
           /\ Switched(mic) => Switched(mic')
           /\ Begun(mic) => Begun(mic')
           /\ Released(mic) => Released(mic')
  BY DEF MicTyped, Switched, Switches, Begun, Released, MicOff

\* An operation is done, or has failed.
LEMMA MicEnds ==
    ASSUME MicTyped, mic.queue # <<>>, NEW holder, NEW answer \in {"ok", "failed"},
           MicDone(holder, answer),
           \/ Head(mic.queue).op = "dispose" /\ holder = 0 /\ answer = "ok"
           \/ Head(mic.queue).op # "dispose" /\ answer = "ok" /\ holder = Head(mic.queue).id
           \/ Head(mic.queue).op # "dispose" /\ answer = "failed" /\ holder = mic.holder
    PROVE  /\ MicTyped' /\ mic # MicOff
           /\ Switched(mic) => Switched(mic')
           /\ Begun(mic) => Begun(mic')
           /\ Released(mic) => Released(mic')
  <1> DEFINE q == mic.queue
             n == Len(q)
  <1>1. /\ q \in Seq(MicOps) /\ q # <<>> /\ mic.holder \in Nat
        /\ mic.answer \in {"none", "ok", "failed"}
    BY DEF MicTyped
  <1>2. /\ n \in Nat \ {0} /\ DOMAIN q = 1..n /\ Head(q) = q[1]
        /\ Tail(q) \in Seq(MicOps) /\ Len(Tail(q)) = n - 1 /\ DOMAIN Tail(q) = 1..n - 1
        /\ \A i \in 1..n - 1 : Tail(q)[i] = q[i + 1]
    BY <1>1, EmptySeq, HeadTailProperties, LenProperties
  <1>3. Head(q).id \in Nat
    <2>1. q[1] \in MicOps
      BY <1>1, <1>2
    <2> QED
      BY <1>2, <2>1 DEF MicOps
  <1>4. mic' = [queue |-> Tail(q), at |-> "idle", holder |-> holder,
                answer |-> IF Head(q).op = "switch" THEN mic.answer ELSE answer]
    BY DEF MicDone
  <1> HIDE DEF q, n
  <1>5a. /\ mic'.queue = Tail(q) /\ mic'.at = "idle" /\ mic'.holder = holder
        /\ mic'.answer = IF Head(q).op = "switch" THEN mic.answer ELSE answer
    BY <1>4
  <1>5b. ASSUME Switches(mic)
        PROVE  Switches(mic') /\ mic'.answer = mic.answer
    <2>1. \A i \in 1..n : q[i].op = "switch"
      BY <1>2, <1>5b DEF Switches, q
    <2>2. \A i \in 1..n - 1 : Tail(q)[i].op = "switch"
      BY <1>2, <2>1
    <2>3. \A i \in DOMAIN Tail(q) : Tail(q)[i].op = "switch"
      BY <1>2, <2>2
    <2> QED
      BY <1>2, <1>5a, <2>1, <2>3 DEF Switches
  <1>5c. ASSUME n = 1, holder = 0, Head(q).op # "switch"
        PROVE  mic' = [MicOff EXCEPT !.answer = answer]
    <2>1. Tail(q) = <<>>
      BY <1>2, <1>5c, EmptySeq
    <2>2. mic' = [queue |-> <<>>, at |-> "idle", holder |-> 0, answer |-> answer]
      <3>1. (IF Head(q).op = "switch" THEN mic.answer ELSE answer) = answer
        BY <1>5c
      <3> QED
        BY <1>4, <1>5c, <2>1, <3>1
    <2>3. [queue |-> <<>>, at |-> "idle", holder |-> 0, answer |-> answer]
             = [MicOff EXCEPT !.answer = answer]
      BY DEF MicOff
    <2> QED
      BY <2>2, <2>3
  <1>5. MicTyped'
    BY <1>1, <1>2, <1>3, <1>4 DEF MicTyped, q
  <1>6. mic # MicOff
    BY <1>1 DEF MicOff, q
  <1>7. ASSUME Switched(mic) PROVE Switched(mic')
    BY <1>7, <1>5b DEF Switched
  <1>8. ASSUME Begun(mic) PROVE Begun(mic')
    <2>1. CASE mic.holder = 0 /\ mic.answer = "none" /\ Len(mic.queue) = 1
               /\ mic.queue[1].op = "start"
      <3>1. n = 1 /\ Head(q).op = "start"
        BY <1>2, <2>1 DEF q, n
      <3>2. CASE answer = "ok"
        <4>1. DOMAIN mic'.queue = {} /\ mic'.answer = "ok"
          BY <1>2, <1>5a, <3>1, <3>2
        <4> QED
          BY <4>1 DEF Begun, Switches
      <3>3. CASE answer = "failed"
        <4>1. holder = 0
          BY <2>1, <3>1, <3>3 DEF q
        <4>2. mic' = [MicOff EXCEPT !.answer = "failed"]
          BY <1>5c, <3>1, <3>3, <4>1
        <4> QED
          BY <4>2 DEF Begun
      <3> QED
        BY <3>2, <3>3
    <2>2. CASE mic = [MicOff EXCEPT !.answer = "failed"]
      BY <1>1, <2>2 DEF MicOff, q
    <2>3. CASE mic.answer = "ok" /\ Switches(mic)
      BY <1>5b, <2>3 DEF Begun
    <2> QED
      BY <1>8, <2>1, <2>2, <2>3 DEF Begun
  <1>9. ASSUME Released(mic) PROVE Released(mic')
    <2>1. CASE mic = [MicOff EXCEPT !.answer = "ok"]
      BY <1>1, <2>1 DEF MicOff, q
    <2>2. CASE /\ mic.answer = "none" /\ mic.queue # <<>>
               /\ \A i \in DOMAIN mic.queue :
                     mic.queue[i].op = IF i = Len(mic.queue) THEN "dispose" ELSE "switch"
      <3>1. \A i \in 1..n : q[i].op = IF i = n THEN "dispose" ELSE "switch"
        BY <1>2, <2>2 DEF q, n
      <3>2. CASE n = 1
        <4>1. Head(q).op = "dispose" /\ holder = 0 /\ answer = "ok"
          BY <1>2, <3>1, <3>2 DEF q
        <4>2. mic' = [MicOff EXCEPT !.answer = "ok"]
          BY <1>5c, <3>2, <4>1
        <4> QED
          BY <4>2 DEF Released
      <3>3. CASE n # 1
        <4>1. Head(q).op = "switch" /\ mic'.queue # <<>>
          <5>1. q[1].op = "switch"
            BY <1>2, <3>1, <3>3
          <5>2. Len(Tail(q)) # 0
            <6>1. Len(Tail(q)) = n - 1 /\ n \in Nat
              BY <1>2
            <6>2. n - 1 # 0
              BY <3>3, <6>1
            <6> QED
              BY <6>1, <6>2
          <5> QED
            BY <1>2, <1>5a, <5>1, <5>2, EmptySeq
        <4>2. \A i \in 1..n - 1 : Tail(q)[i].op = IF i = n - 1 THEN "dispose" ELSE "switch"
          BY <1>2, <3>1
        <4> QED
          BY <1>2, <1>5a, <2>2, <4>1, <4>2 DEF Released
      <3> QED
        BY <3>2, <3>3
    <2> QED
      BY <1>9, <2>1, <2>2 DEF Released
  <1> QED
    BY <1>5, <1>6, <1>7, <1>8, <1>9

\* What the microphone does leaves the requests as they are.
LEMMA MicRequests ==
    ASSUME Requested /\ Shown /\ EndsAsked,
           UNCHANGED <<nextId, latest, queue, task, open, screen, wanted>>,
           session' # None => session # None /\ session'.id = session.id
                                /\ session'.channel = session.channel
    PROVE  Requested' /\ Shown' /\ EndsAsked'
  <1>1. Overruled' <=> Overruled
    BY DEF Overruled, Newest
  <1>2. Requested' /\ Shown'
    BY <1>1 DEF Requested, Shown, Newest, screen
  <1>3. EndsAsked'
    BY DEF EndsAsked
  <1> QED
    BY <1>2, <1>3

\* What the microphone's queue does of its own leaves the call as it is.
LEMMA MicMoves ==
    ASSUME CallInv, UNCHANGED <<call, monitor, screen, wanted>>,
           MicTyped', mic # MicOff, Switched(mic) => Switched(mic'),
           Begun(mic) => Begun(mic'), Released(mic) => Released(mic')
    PROVE  CallInv'
  <1>1. Types'
    BY DEF CallInv, Types, SessionTyped, ScreenTyped, PhaseTyped, call, screen
  <1>2. Requested' /\ Shown' /\ EndsAsked'
    BY MicRequests DEF CallInv, call
  <1>3. Free' /\ InCall' /\ Joining' /\ Starting'
    BY DEF CallInv, Phases, Free, InCall, Joining, Starting, Bound, Clean, call, screen
  <1>4. Disposers'
    BY DEF CallInv, Phases, Disposers, TearingDown, call, screen
  <1> QED
    BY <1>1, <1>2, <1>3, <1>4 DEF CallInv, Phases

\* The operations of the microphone, but the one that installs a track.
LEMMA MicInv ==
    ASSUME CallInv, MicCapture \/ MicCaptured \/ MicRefused \/ MicDisposed
    PROVE  CallInv'
  <1>1. MicTyped /\ UNCHANGED <<call, monitor, screen, wanted>> /\ mic.queue # <<>>
    BY DEF CallInv, Types, MicCapture, MicCaptured, MicRefused, MicDisposed, MicTurn
  <1>2. CASE MicCapture
    BY <1>1, <1>2, MicGoesOn, MicMoves DEF MicCapture
  <1>3. CASE MicCaptured \/ MicRefused
    <2>1. Head(mic.queue).op # "dispose"
      BY <1>3 DEF CallInv, Types, MicTyped, MicCaptured, MicRefused, MicTurn
    <2>2. CASE mic' = [mic EXCEPT !.at = "installing"]
      BY <1>1, <2>1, <2>2, MicGoesOn, MicMoves
    <2>3. CASE MicDone(mic.holder, "failed")
      BY <1>1, <2>1, <2>3, MicEnds, MicMoves
    <2> QED
      BY <1>3, <2>2, <2>3 DEF MicCaptured, MicRefused, MicFails
  <1>4. CASE MicDisposed
    BY <1>1, <1>4, MicEnds, MicMoves DEF MicDisposed
  <1> QED
    BY <1>2, <1>3, <1>4

\* A switch of a call under way adds a monitor to its resources.
LEMMA MicInstalledInv ==
    ASSUME CallInv, MicInstalled PROVE CallInv'
  <1>1. /\ MicTyped /\ mic.queue # <<>> /\ MicDone(Head(mic.queue).id, "ok")
        /\ UNCHANGED <<nextId, latest, queue, task, open, screen, wanted>>
        /\ Head(mic.queue).op # "dispose"
    BY DEF CallInv, Types, MicTyped, MicInstalled, MicTurn
  <1>2. /\ MicTyped' /\ mic # MicOff
        /\ Switched(mic) => Switched(mic')
        /\ Begun(mic) => Begun(mic')
        /\ Released(mic) => Released(mic')
    BY <1>1, MicEnds
  <1>3. CASE UNCHANGED <<session, monitor>>
    BY <1>1, <1>2, <1>3, MicMoves DEF call
  <1>4. CASE session = None /\ monitor' = 0 /\ UNCHANGED session
    <2>1. Types'
      BY <1>1, <1>2, <1>4 DEF CallInv, Types, SessionTyped, ScreenTyped, PhaseTyped, screen
    <2>2. Requested' /\ Shown' /\ EndsAsked'
      BY <1>1, <1>4, MicRequests DEF CallInv
    <2>3. Free' /\ InCall' /\ Joining' /\ Starting'
      BY <1>1, <1>2, <1>4
         DEF CallInv, Phases, Free, InCall, Joining, Starting, Bound, Clean, screen
    <2>4. Disposers'
      BY <1>1, <1>2, <1>4 DEF CallInv, Phases, Disposers, TearingDown, screen
    <2> QED
      BY <2>1, <2>2, <2>3, <2>4 DEF CallInv, Phases
  <1>5. CASE /\ session # None /\ monitor' = session.id
             /\ session' = [session EXCEPT !.resources = Append(@, "monitor")]
    <2>1. session \in Sessions /\ session.id \in 1..nextId - 1
          /\ session.resources \in Seq(Kinds)
      BY <1>5 DEF CallInv, Types, SessionTyped, Sessions, Kinds
    <2> DEFINE more == Append(session.resources, "monitor")
    <2>2. more \in Seq(Kinds)
      BY <2>1 DEF Kinds
    <2>3. session' \in Sessions /\ session' # None
      BY <1>5, <2>1, <2>2, CallAssumption DEF Sessions, Kinds
    <2>4. session'.id = session.id /\ session'.channel = session.channel
          /\ session'.state = session.state /\ session'.resources = more
      BY <1>5, <2>1 DEF Sessions
    <2>5. "monitor" \in Kinds
      BY DEF Kinds
    <2>6. /\ Has(more, "monitor")
          /\ \A what : Has(session.resources, what) => Has(more, what)
          /\ \A what : Has(more, what) => Has(session.resources, what) \/ what = "monitor"
          /\ Once(session.resources) => Once(more)
      BY <2>1, <2>5, HasAppend
    <2> HIDE DEF more
    <2>7. Types'
      BY <1>1, <1>2, <2>1, <2>3, <2>4
         DEF CallInv, Types, SessionTyped, ScreenTyped, PhaseTyped, screen
    <2>8. Requested' /\ Shown' /\ EndsAsked'
      BY <1>1, <1>5, <2>4, MicRequests DEF CallInv
    <2>9. Bound => Bound'
      BY <1>1, <2>4, <2>6 DEF Bound, screen
    <2>10. task.at \notin {"credentials", "connecting"}
      BY <1>2 DEF CallInv, Phases, Joining
    <2>11. Free' /\ InCall'
      BY <1>1, <1>2, <1>5, <2>3, <2>4, <2>6, <2>9 DEF CallInv, Phases, Free, InCall
    <2>12. Joining' /\ Starting'
      BY <1>1, <1>2, <1>5, <2>3, <2>4, <2>6, <2>9, <2>10
         DEF CallInv, Phases, Joining, Starting
    <2>13. Disposers'
      BY <1>1, <1>5 DEF CallInv, Phases, Disposers, TearingDown
    <2> QED
      BY <2>7, <2>8, <2>11, <2>12, <2>13 DEF CallInv, Phases
  <1> QED
    BY <1>3, <1>4, <1>5 DEF MicInstalled

\* A switch waits behind what the microphone is doing.
LEMMA SwitchInv ==
    ASSUME CallInv, SwitchMicrophone PROVE CallInv'
  <1>1. session # None /\ mic.holder # 0 /\ UNCHANGED <<call, monitor, screen, wanted>>
    BY DEF SwitchMicrophone, Switchable
  <1> DEFINE op == [op |-> "switch", id |-> session.id]
             n == Len(mic.queue)
  <1>2. mic' = [mic EXCEPT !.queue = Append(@, op)]
    BY <1>1 DEF SwitchMicrophone
  <1>3. op \in MicOps /\ mic.queue \in Seq(MicOps)
    BY <1>1 DEF CallInv, Types, SessionTyped, MicTyped, MicOps
  <1>4. /\ mic'.queue \in Seq(MicOps) /\ n \in Nat
        /\ DOMAIN mic.queue = 1..n /\ DOMAIN mic'.queue = 1..n + 1
        /\ \A i \in 1..n : mic'.queue[i] = mic.queue[i]
        /\ mic'.queue[n + 1] = op
        /\ mic'.at = mic.at /\ mic'.holder = mic.holder /\ mic'.answer = mic.answer
        /\ mic.queue # <<>> => Head(mic'.queue) = Head(mic.queue)
        /\ mic'.queue # <<>>
    <2>1. mic'.queue = Append(mic.queue, op)
      BY <1>2 DEF CallInv, Types, MicTyped
    <2>2. /\ Append(mic.queue, op) \in Seq(MicOps) /\ n \in Nat
          /\ DOMAIN mic.queue = 1..n /\ DOMAIN Append(mic.queue, op) = 1..n + 1
          /\ \A i \in 1..n : Append(mic.queue, op)[i] = mic.queue[i]
          /\ Append(mic.queue, op)[n + 1] = op
          /\ Append(mic.queue, op) # <<>>
      BY <1>3, AppendProperties, LenProperties
    <2>3. mic.queue # <<>> => Head(Append(mic.queue, op)) = Head(mic.queue)
      BY <1>3, <2>2, EmptySeq
    <2>4. mic'.at = mic.at /\ mic'.holder = mic.holder /\ mic'.answer = mic.answer
      BY <1>2 DEF CallInv, Types, MicTyped
    <2> QED
      BY <2>1, <2>2, <2>3, <2>4
  <1> HIDE DEF n
  <1>5. MicTyped'
    <2>1. mic' \in [queue : Seq(MicOps), at : {"idle", "capturing", "installing"},
                    holder : Nat, answer : {"none", "ok", "failed"}]
      BY <1>2, <1>3, <1>4 DEF CallInv, Types, MicTyped
    <2> QED
      BY <1>4, <2>1 DEF CallInv, Types, MicTyped
  <1>6. mic # MicOff
    BY <1>1 DEF MicOff
  <1>6a. Switches(mic) => Switches(mic')
    <2>1. SUFFICES ASSUME Switches(mic), NEW i \in DOMAIN mic'.queue
                   PROVE  mic'.queue[i].op = "switch"
      BY DEF Switches
    <2>2. CASE i = n + 1
      BY <1>4, <2>2
    <2>3. CASE i \in 1..n
      BY <1>4, <2>1, <2>3 DEF Switches
    <2> QED
      BY <1>4, <2>2, <2>3
  <1>7. Switched(mic) => Switched(mic')
    BY <1>4, <1>6a DEF Switched
  <1>8. Begun(mic) => Begun(mic')
    BY <1>1, <1>4, <1>6a DEF Begun, MicOff
  <1>9. ~Released(mic) \/ task.at \notin {"clearing", "ending", "failing"}
    BY <1>1 DEF CallInv, Phases, Disposers, TearingDown
  <1>10. Types'
    BY <1>1, <1>5 DEF CallInv, Types, SessionTyped, ScreenTyped, PhaseTyped, call, screen
  <1>11. Requested' /\ Shown' /\ EndsAsked'
    BY <1>1, MicRequests DEF CallInv, call
  <1>12. Free' /\ InCall' /\ Joining' /\ Starting'
    BY <1>1, <1>6, <1>7, <1>8
       DEF CallInv, Phases, Free, InCall, Joining, Starting, Bound, Clean, call, screen
  <1>13. Disposers'
    BY <1>1 DEF CallInv, Phases, Disposers, TearingDown, call
  <1> QED
    BY <1>10, <1>11, <1>12, <1>13 DEF CallInv, Phases

-----------------------------------------------------------------------------
(* Teardown. *)

\* The session ends, and what it has registered is what is to be disposed of.
LEMMA TeardownPhases ==
    ASSUME SessionTyped, NEW op, NEW at \in {"clearing", "ending", "failing"},
           op \in IF at = "ending" THEN Leaves \cup Ends ELSE Joins,
           Teardown(op, at), UNCHANGED <<nextId, stage, monitor>>,
           session = None => Clean',
           session # None =>
              LET s == session.resources
              IN  /\ open' \subseteq {session.id} /\ (open' # {} => Has(s, "room"))
                  /\ stage # None => Has(s, "store")
                  /\ monitor # 0 => Has(s, "monitor")
                  /\ Once(s)
                  /\ Has(s, "mic") => Switched(mic')
                  /\ ~Has(s, "mic") => mic' = MicOff
    PROVE  /\ Phases' /\ PhaseTyped' /\ session' = None
           /\ task'.at = at /\ task'.op = op
           /\ session # None => task'.id = session.id
  <1> DEFINE id == IF session = None THEN 0 ELSE session.id
             todo == IF session = None THEN <<>> ELSE Reverse(session.resources)
  <1>1. session' = None /\ task' = [op |-> op, at |-> at, id |-> id, todo |-> todo]
    BY DEF Teardown
  <1>2. id \in 0..nextId - 1
    BY DEF SessionTyped, Sessions
  <1>3. CASE session = None
    <2>1. todo = <<>> /\ todo \in Seq(Kinds \cup {"released"})
      BY <1>3
    <2>2. Once(todo) /\ \A what : ~Has(todo, what)
      BY <2>1 DEF Once, Has
    <2>3. \A i \in DOMAIN todo : todo[i] = "released" => i = 1
      BY <2>1
    <2> HIDE DEF todo, id
    <2>4. Disposers'
      BY <1>1, <1>2, <1>3, <2>1, <2>2, <2>3 DEF Disposers, Clean
    <2> QED
      BY <1>1, <1>3, <2>4 DEF Phases, Free, InCall, Joining, Starting, PhaseTyped
  <1>4. CASE session # None
    <2> DEFINE s == session.resources
    <2>1. s \in Seq(Kinds)
      BY <1>4 DEF SessionTyped, Sessions, Kinds
    <2>2. /\ Reverse(s) \in Seq(Kinds)
          /\ \A what : Has(Reverse(s), what) <=> Has(s, what)
          /\ Once(s) => Once(Reverse(s))
      BY <2>1, Reversed
    <2>3. Kinds \subseteq Kinds \cup {"released"}
      OBVIOUS
    <2>4. Reverse(s) \in Seq(Kinds \cup {"released"})
      BY <2>2, <2>3, SeqMonotonic
    <2>5. \A i \in DOMAIN Reverse(s) : Reverse(s)[i] # "released"
      <3>1. "released" \notin Kinds
        BY DEF Kinds
      <3>2. \A i \in DOMAIN Reverse(s) : Reverse(s)[i] \in Kinds
        BY <2>2
      <3> QED
        BY <3>1, <3>2
    <2>6. ~Has(Reverse(s), "released")
      BY <2>5 DEF Has
    <2>7. todo = Reverse(s)
      BY <1>4
    <2> HIDE DEF todo, id
    <2>8. /\ todo \in Seq(Kinds \cup {"released"}) /\ Once(todo)
          /\ \A what : Has(todo, what) <=> Has(s, what)
          /\ ~Has(todo, "released")
          /\ \A i \in DOMAIN todo : todo[i] = "released" => i = 1
      BY <1>4, <2>2, <2>4, <2>5, <2>6, <2>7
    <2>9. Disposers'
      BY <1>1, <1>2, <1>4, <2>8 DEF Disposers, id
    <2>10. session # None => task'.id = session.id
      BY <1>1, <1>4 DEF id
    <2> QED
      BY <1>1, <2>9, <2>10 DEF Phases, Free, InCall, Joining, Starting, PhaseTyped
  <1> QED
    BY <1>3, <1>4

\* What is left of a session once one of its disposers has been called.
LEMMA DisposerCalled ==
    ASSUME CallInv, NEW what, Disposing(what),
           UNCHANGED <<session, nextId, latest, queue, wanted>>,
           shown' \in Channels \cup {None}, stage' \in {stage, None},
           monitor' \in {monitor, 0}, MicTyped',
           NEW todo \in Seq(Kinds \cup {"released"}),
           task' = [task EXCEPT !.todo = todo],
           Once(todo), \A i \in DOMAIN todo : todo[i] = "released" => i = 1,
           open' \subseteq open /\ (open' # {} => Has(todo, "room")),
           stage' # None => Has(todo, "store"),
           monitor' # 0 => Has(todo, "monitor"),
           Has(todo, "mic") => Switched(mic'),
           Has(todo, "released") => Released(mic'),
           ~Has(todo, "mic") /\ ~Has(todo, "released") => mic' = MicOff
    PROVE  CallInv'
  <1>1. TearingDown /\ Disposers
    BY DEF Disposing, CallInv, Phases
  <1>2. task = [op |-> task.op, at |-> task.at, id |-> task.id, todo |-> task.todo]
    BY <1>1 DEF Disposers
  <1>3. task' = [op |-> task.op, at |-> task.at, id |-> task.id, todo |-> todo]
    BY <1>2
  <1>4. /\ task'.op = task.op /\ task'.at = task.at /\ task'.id = task.id
        /\ task'.todo = todo /\ task.at \in {"clearing", "ending", "failing"}
    BY <1>1, <1>3 DEF TearingDown
  <1>5. Types'
    BY <1>4 DEF CallInv, Types, SessionTyped, ScreenTyped, PhaseTyped
  <1>6. Overruled' <=> Overruled
    BY DEF Overruled, Newest
  <1>7. Requested' /\ Shown' /\ EndsAsked'
    BY <1>1, <1>4, <1>6 DEF CallInv, Requested, Shown, EndsAsked, Newest, Disposers
  <1>8. Disposers'
    BY <1>1, <1>3, <1>4 DEF Disposers
  <1>9. Free' /\ InCall' /\ Joining' /\ Starting'
    BY <1>4 DEF Free, InCall, Joining, Starting
  <1> QED
    BY <1>5, <1>7, <1>8, <1>9 DEF CallInv, Phases

\* The disposers that take no turn in the microphone's queue.
LEMMA DisposeInv ==
    ASSUME CallInv, DisposeMonitor \/ DisposeStore \/ DisposeRoom PROVE CallInv'
  <1>1. PICK what \in {"monitor", "store", "room"} :
           /\ Disposing(what) /\ Disposed
           /\ UNCHANGED <<session, nextId, latest, queue, mic, wanted>>
           /\ shown' \in Channels \cup {None}
           /\ stage' = IF what = "store" THEN None ELSE stage
           /\ monitor' = IF what = "monitor" THEN 0 ELSE monitor
           /\ open' = IF what = "room" THEN open \ {task.id} ELSE open
    BY DEF DisposeMonitor, DisposeStore, DisposeRoom, media, screen, Bridge,
           CallInv, Types, ScreenTyped
  <1> DEFINE s == task.todo
  <1>2. /\ s \in Seq(Kinds \cup {"released"}) /\ s # <<>> /\ Once(s) /\ Head(s) = what
        /\ \A i \in DOMAIN s : s[i] = "released" => i = 1
        /\ open \subseteq {task.id} /\ (open # {} => Has(s, "room"))
        /\ stage # None => Has(s, "store")
        /\ monitor # 0 => Has(s, "monitor")
        /\ Has(s, "mic") => Switched(mic)
        /\ Has(s, "released") => Released(mic)
        /\ ~Has(s, "mic") /\ ~Has(s, "released") => mic = MicOff
    BY <1>1 DEF Disposing, CallInv, Phases, Disposers
  <1>3. task' = [task EXCEPT !.todo = Tail(s)]
    BY <1>1 DEF Disposed
  <1> HIDE DEF s
  <1>4. /\ Tail(s) \in Seq(Kinds \cup {"released"}) /\ Once(Tail(s))
        /\ \A w : Has(s, w) <=> w = what \/ Has(Tail(s), w)
        /\ ~Has(Tail(s), "released")
    BY <1>2, NextDisposer
  <1>5. \A i \in DOMAIN Tail(s) : Tail(s)[i] = "released" => i = 1
    BY <1>4 DEF Has
  <1>6. /\ open' \subseteq open /\ (open' # {} => Has(Tail(s), "room"))
        /\ stage' # None => Has(Tail(s), "store")
        /\ monitor' # 0 => Has(Tail(s), "monitor")
    BY <1>1, <1>2, <1>4
  <1>7. /\ Has(Tail(s), "mic") => Switched(mic')
        /\ Has(Tail(s), "released") => Released(mic')
        /\ ~Has(Tail(s), "mic") /\ ~Has(Tail(s), "released") => mic' = MicOff
    BY <1>1, <1>2, <1>4
  <1>8. MicTyped' /\ stage' \in {stage, None} /\ monitor' \in {monitor, 0}
    BY <1>1 DEF CallInv, Types, MicTyped
  <1>9. PICK todo \in Seq(Kinds \cup {"released"}) : todo = Tail(s)
    BY <1>4
  <1> QED
    BY <1>1, <1>3, <1>4, <1>5, <1>6, <1>7, <1>8, <1>9, DisposerCalled

\* The microphone's disposal takes its turn.
LEMMA DisposeMicrophoneInv ==
    ASSUME CallInv, DisposeMicrophone PROVE CallInv'
  <1> DEFINE s == task.todo
             t == <<"released">> \o Tail(s)
             op == [op |-> "dispose", id |-> task.id]
             n == Len(mic.queue)
  <1>1. /\ s \in Seq(Kinds \cup {"released"}) /\ s # <<>> /\ Once(s) /\ Head(s) = "mic"
        /\ \A i \in DOMAIN s : s[i] = "released" => i = 1
        /\ task.id \in Nat
        /\ open # {} => Has(s, "room")
        /\ stage # None => Has(s, "store")
        /\ monitor # 0 => Has(s, "monitor")
        /\ Has(s, "mic") => Switched(mic)
    BY DEF DisposeMicrophone, Disposing, CallInv, Phases, Disposers
  <1>2. /\ task' = [task EXCEPT !.todo = t]
        /\ mic' = [mic EXCEPT !.queue = Append(@, op)]
        /\ UNCHANGED <<session, nextId, latest, queue, open, monitor, stage, shown, wanted>>
    BY DEF DisposeMicrophone, screen
  <1>3. /\ t \in Seq(Kinds \cup {"released"}) /\ Once(t)
        /\ \A w : Has(t, w) <=> w = "released" \/ (w # "mic" /\ Has(s, w))
        /\ \A i \in DOMAIN t : t[i] = "released" => i = 1
    BY <1>1, Awaited
  <1>4. Switched(mic)
    BY <1>1, NextDisposer
  <1>5. MicTyped /\ mic.queue \in Seq(MicOps) /\ op \in MicOps
    BY <1>1 DEF CallInv, Types, MicTyped, MicOps
  <1>6. /\ mic'.queue = Append(mic.queue, op) /\ mic'.at = mic.at
        /\ mic'.holder = mic.holder /\ mic'.answer = mic.answer
        /\ mic' \in [queue : Seq(MicOps), at : {"idle", "capturing", "installing"},
                     holder : Nat, answer : {"none", "ok", "failed"}]
    <2>1. Append(mic.queue, op) \in Seq(MicOps)
      BY <1>5
    <2> QED
      BY <1>2, <1>5, <2>1 DEF MicTyped
  <1>7. /\ n \in Nat /\ DOMAIN mic.queue = 1..n /\ Len(mic'.queue) = n + 1
        /\ DOMAIN mic'.queue = 1..n + 1 /\ mic'.queue # <<>>
        /\ \A i \in 1..n : mic'.queue[i] = mic.queue[i]
        /\ mic'.queue[n + 1] = op
        /\ mic.queue # <<>> => Head(mic'.queue) = Head(mic.queue)
    <2>1. /\ Append(mic.queue, op) \in Seq(MicOps) /\ n \in Nat
          /\ Len(Append(mic.queue, op)) = n + 1
          /\ DOMAIN mic.queue = 1..n /\ DOMAIN Append(mic.queue, op) = 1..n + 1
          /\ \A i \in 1..n : Append(mic.queue, op)[i] = mic.queue[i]
          /\ Append(mic.queue, op)[n + 1] = op
          /\ Append(mic.queue, op) # <<>>
      BY <1>5, AppendProperties, LenProperties
    <2>2. mic.queue # <<>> => Head(Append(mic.queue, op)) = Head(mic.queue)
      BY <1>5, <2>1, EmptySeq
    <2> QED
      BY <1>6, <2>1, <2>2
  <1> HIDE DEF n
  <1>8. MicTyped'
    BY <1>5, <1>6, <1>7 DEF MicTyped
  <1>9. Released(mic')
    <2>1. \A i \in 1..n : mic.queue[i].op = "switch"
      BY <1>4, <1>7 DEF Switched, Switches
    <2>2. ASSUME NEW i \in 1..n + 1
          PROVE  mic'.queue[i].op = IF i = n + 1 THEN "dispose" ELSE "switch"
      <3>1. CASE i = n + 1
        BY <1>7, <3>1
      <3>2. CASE i \in 1..n
        BY <1>7, <2>1, <3>2
      <3> QED
        BY <1>7, <3>1, <3>2
    <2>3. mic'.answer = "none"
      BY <1>4, <1>6 DEF Switched
    <2> QED
      BY <1>7, <2>2, <2>3 DEF Released
  <1> HIDE DEF s, t
  <1>10. PICK todo \in Seq(Kinds \cup {"released"}) : todo = t
    BY <1>3
  <1>11. /\ open # {} => Has(todo, "room")
         /\ stage # None => Has(todo, "store")
         /\ monitor # 0 => Has(todo, "monitor")
         /\ ~Has(todo, "mic") /\ Has(todo, "released")
    BY <1>1, <1>3, <1>10
  <1>12. shown' \in Channels \cup {None} /\ Disposing("mic")
    BY <1>2 DEF CallInv, Types, ScreenTyped, DisposeMicrophone
  <1> QED
    BY <1>2, <1>3, <1>8, <1>9, <1>10, <1>11, <1>12, DisposerCalled

\* The microphone is released.
LEMMA MicrophoneReleasedInv ==
    ASSUME CallInv, MicrophoneReleased PROVE CallInv'
  <1> DEFINE s == task.todo
  <1>1. /\ s \in Seq(Kinds \cup {"released"}) /\ s # <<>> /\ Once(s) /\ Head(s) = "released"
        /\ \A i \in DOMAIN s : s[i] = "released" => i = 1
        /\ open # {} => Has(s, "room")
        /\ stage # None => Has(s, "store")
        /\ monitor # 0 => Has(s, "monitor")
        /\ Has(s, "released") => Released(mic)
    BY DEF MicrophoneReleased, Disposing, CallInv, Phases, Disposers
  <1>2. /\ task' = [task EXCEPT !.todo = Tail(s)]
        /\ mic.answer # "none" /\ mic' = [mic EXCEPT !.answer = "none"]
        /\ UNCHANGED <<session, nextId, latest, queue, open, monitor, stage, shown, wanted>>
    BY DEF MicrophoneReleased, screen, Disposed
  <1> HIDE DEF s
  <1>3. /\ Tail(s) \in Seq(Kinds \cup {"released"}) /\ Once(Tail(s))
        /\ \A w : Has(s, w) <=> w = "released" \/ Has(Tail(s), w)
        /\ ~Has(Tail(s), "released") /\ ~Has(Tail(s), "mic")
    BY <1>1, NextDisposer
  <1>4. \A i \in DOMAIN Tail(s) : Tail(s)[i] = "released" => i = 1
    BY <1>3 DEF Has
  <1>5. mic = [MicOff EXCEPT !.answer = "ok"]
    BY <1>1, <1>2, <1>3 DEF Released
  <1>6. mic' = MicOff
    BY <1>2, <1>5 DEF MicOff
  <1>7. MicTyped'
    BY <1>2, <1>6 DEF CallInv, Types, MicTyped, MicOff
  <1>8. PICK todo \in Seq(Kinds \cup {"released"}) : todo = Tail(s)
    BY <1>3
  <1>9. shown' \in Channels \cup {None} /\ Disposing("released")
    BY <1>2 DEF CallInv, Types, ScreenTyped, MicrophoneReleased
  <1> QED
    BY <1>1, <1>2, <1>3, <1>4, <1>6, <1>7, <1>8, <1>9, DisposerCalled

-----------------------------------------------------------------------------
(* The operations of the queue. *)

\* An operation that is taken and does nothing overruled nothing.
LEMMA QueueTaken ==
    ASSUME CallInv, queue # <<>>, queue' = Tail(queue), UNCHANGED <<latest, wanted, nextId>>
    PROVE  /\ \A i \in DOMAIN queue' :
                /\ queue'[i].op = "join" => queue'[i].request <= latest'
                /\ Newest(i)' => queue'[i].channel = wanted'
                /\ queue'[i].op = "ended" => queue'[i].id < nextId'
           /\ Overruled /\ Head(queue).op # "leave"
                 /\ ~(Head(queue).op = "join" /\ Head(queue).request = latest) => Overruled'
           /\ Head(queue).op = "join" /\ Head(queue).request = latest =>
                 Head(queue).channel = wanted
           /\ Head(queue).op = "ended" /\ Head(queue).asked =>
                 ~(session # None /\ Head(queue).id = session.id)
  <1> DEFINE n == Len(queue)
  <1>1. /\ n \in Nat \ {0} /\ DOMAIN queue = 1..n
        /\ Head(queue) = queue[1] /\ DOMAIN queue' = 1..n - 1
        /\ \A i \in 1..n - 1 : queue'[i] = queue[i + 1]
    BY QueueShrinks DEF CallInv, Types
  <1> HIDE DEF n
  <1>2. ASSUME NEW i \in 1..n - 1
        PROVE  /\ queue'[i].op = "join" => queue'[i].request <= latest'
               /\ Newest(i)' => queue'[i].channel = wanted'
               /\ queue'[i].op = "ended" => queue'[i].id < nextId'
    <2>1. i + 1 \in DOMAIN queue /\ queue'[i] = queue[i + 1]
      BY <1>1
    <2>2. PICK k \in DOMAIN queue : k = i + 1
      BY <2>1
    <2>3. queue'[i] = queue[k]
      BY <2>1, <2>2
    <2> QED
      BY <2>3 DEF CallInv, Requested, EndsAsked, Newest
  <1>3. ASSUME Overruled, Head(queue).op # "leave",
               ~(Head(queue).op = "join" /\ Head(queue).request = latest)
        PROVE  Overruled'
    <2>1. PICK k \in 1..n : queue[k].op = "leave" \/ Newest(k)
      BY <1>1, <1>3 DEF Overruled
    <2>2. k # 1
      BY <1>1, <1>3, <2>1 DEF Newest
    <2>3. PICK i \in 1..n - 1 : k = i + 1
      BY <1>1, <2>2
    <2>4. queue'[i] = queue[k]
      BY <1>1, <2>3
    <2> QED
      BY <1>1, <2>1, <2>4 DEF Overruled, Newest
  <1>4. 1 \in DOMAIN queue
    BY <1>1
  <1>5. Head(queue).op = "join" /\ Head(queue).request = latest => Head(queue).channel = wanted
    BY <1>1, <1>4 DEF CallInv, Requested, Newest
  <1>6. Head(queue).op = "ended" /\ Head(queue).asked =>
           ~(session # None /\ Head(queue).id = session.id)
    <2>1. \A j : j \notin 1..1 - 1
      OBVIOUS
    <2> QED
      BY <1>1, <1>4, <2>1 DEF CallInv, EndsAsked
  <1> QED
    BY <1>1, <1>2, <1>3, <1>5, <1>6

\* A leave still waiting is still ahead of the end of the room it was asked of.
LEMMA QueueTakenEnds ==
    ASSUME CallInv, queue # <<>>, queue' = Tail(queue), UNCHANGED session,
           Head(queue).op # "leave",
           NEW i \in DOMAIN queue', queue'[i].op = "ended", queue'[i].asked,
           session # None, queue'[i].id = session.id
    PROVE  \E j \in 1..i - 1 : queue'[j].op = "leave"
  <1> DEFINE n == Len(queue)
  <1>1. /\ n \in Nat \ {0} /\ DOMAIN queue = 1..n
        /\ Head(queue) = queue[1] /\ DOMAIN queue' = 1..n - 1
        /\ \A k \in 1..n - 1 : queue'[k] = queue[k + 1]
    BY QueueShrinks DEF CallInv, Types
  <1> HIDE DEF n
  <1>2. i \in 1..n - 1
    BY <1>1
  <1>3. PICK k \in DOMAIN queue : k = i + 1
    BY <1>1, <1>2
  <1>4. queue[k].op = "ended" /\ queue[k].asked /\ queue[k].id = session.id
    BY <1>1, <1>2, <1>3
  <1>5. PICK j \in 1..k - 1 : queue[j].op = "leave"
    BY <1>4 DEF CallInv, EndsAsked
  <1>6. j # 1
    BY <1>1, <1>5
  <1>7. PICK l \in 1..i - 1 : j = l + 1
    BY <1>1, <1>2, <1>3, <1>5, <1>6
  <1>8. queue'[l] = queue[j]
    BY <1>1, <1>2, <1>7
  <1> QED
    BY <1>5, <1>7, <1>8

\* The next operation has its turn, or is dropped.
LEMMA TakeInv ==
    ASSUME CallInv, Take PROVE CallInv'
  <1> DEFINE op == Head(queue)
             drop == \/ op.op = "join" /\ op.request # latest
                     \/ op.op = "ended" /\ ~StillCurrent(op.id)
  <1>1. /\ task.at = "idle" /\ queue # <<>> /\ queue' = Tail(queue)
        /\ UNCHANGED <<nextId, latest, open, mic, monitor, stage, shown, wanted>>
        /\ IF drop THEN UNCHANGED <<session, task>>
           ELSE Teardown(op, IF op.op = "join" THEN "clearing" ELSE "ending")
    BY DEF Take, media, screen
  <1>2. queue' \in Seq(Ops) /\ op \in Ops
    BY <1>1, QueueShrinks DEF CallInv, Types
  <1>3. op \in Joins \/ op \in Leaves \/ op \in Ends
    BY <1>2 DEF Ops
  <1>4. /\ \A i \in DOMAIN queue' :
             /\ queue'[i].op = "join" => queue'[i].request <= latest'
             /\ Newest(i)' => queue'[i].channel = wanted'
             /\ queue'[i].op = "ended" => queue'[i].id < nextId'
        /\ Overruled /\ op.op # "leave" /\ ~(op.op = "join" /\ op.request = latest) => Overruled'
        /\ op.op = "join" /\ op.request = latest => op.channel = wanted
        /\ op.op = "ended" /\ op.asked => ~(session # None /\ op.id = session.id)
    BY <1>1, QueueTaken
  <1>5. CASE drop
    <2>1. UNCHANGED <<session, task>> /\ op.op # "leave"
          /\ ~(op.op = "join" /\ op.request = latest)
      BY <1>1, <1>3, <1>5 DEF Joins, Leaves, Ends
    <2>2. Types'
      BY <1>1, <1>2, <2>1
         DEF CallInv, Types, SessionTyped, MicTyped, ScreenTyped, PhaseTyped
    <2>3. Phases'
      BY <1>1, <2>1, PhasesKept DEF CallInv
    <2>4. Requested' /\ Shown'
      BY <1>1, <1>4, <2>1 DEF CallInv, Requested, Shown
    <2>5. EndsAsked'
      BY <1>1, <1>4, <2>1, QueueTakenEnds DEF CallInv, EndsAsked
    <2> QED
      BY <2>2, <2>3, <2>4, <2>5 DEF CallInv
  <1>6. CASE ~drop
    <2> DEFINE at == IF op.op = "join" THEN "clearing" ELSE "ending"
    <2>1. /\ Teardown(op, at) /\ at \in {"clearing", "ending", "failing"}
          /\ op \in IF at = "ending" THEN Leaves \cup Ends ELSE Joins
      BY <1>1, <1>3, <1>6 DEF Joins, Leaves, Ends
    <2>2. session = None => Clean'
      BY <1>1 DEF CallInv, Phases, Free, Clean
    <2>3. session # None =>
             LET s == session.resources
             IN  /\ open' \subseteq {session.id} /\ (open' # {} => Has(s, "room"))
                 /\ stage # None => Has(s, "store")
                 /\ monitor # 0 => Has(s, "monitor")
                 /\ Once(s)
                 /\ Has(s, "mic") => Switched(mic')
                 /\ ~Has(s, "mic") => mic' = MicOff
      BY <1>1 DEF CallInv, Phases, InCall, Bound
    <2>4. PICK a \in {"clearing", "ending", "failing"} : a = at
      BY <2>1
    <2>5. PICK o \in Ops : o = op
      BY <1>2
    <2> HIDE DEF op, at
    <2>6. /\ Phases' /\ PhaseTyped' /\ session' = None
          /\ task'.at = at /\ task'.op = op
          /\ session # None => task'.id = session.id
      BY <1>1, <2>1, <2>2, <2>3, <2>4, <2>5, TeardownPhases DEF CallInv, Types
    <2>7. Types'
      BY <1>1, <1>2, <2>6 DEF CallInv, Types, SessionTyped, MicTyped, ScreenTyped
    <2>8. Requested'
      BY <1>1, <1>3, <1>4, <1>6, <2>6 DEF Requested, at, Ends, Joins, Leaves
    <2>9. EndsAsked'
      BY <1>4, <1>6, <2>6 DEF EndsAsked, at, op, StillCurrent, IsCurrent
    <2> QED
      BY <2>6, <2>7, <2>8, <2>9 DEF CallInv, Shown
  <1> QED
    BY <1>5, <1>6

\* A step of a join that neither takes an operation nor ends the session.
LEMMA JoinRequests ==
    ASSUME CallInv, UNCHANGED <<latest, queue, wanted>>,
           session' # None,
           \/ session # None /\ session'.channel = session.channel
                 /\ session'.id = session.id /\ nextId' = nextId
           \/ session'.channel = task.op.channel /\ task.at = "clearing"
                 /\ session'.id = nextId /\ nextId' = nextId + 1,
           task'.at \notin {"clearing", "ending"},
           task'.at \in {"idle", "microphone"} =>
              shown' = session'.channel \/ (session # None /\ UNCHANGED shown
                                            /\ task.at \in {"idle", "microphone"})
    PROVE  Requested' /\ Shown' /\ EndsAsked'
  <1>1. Overruled' <=> Overruled
    BY DEF Overruled, Newest
  <1>2. Requested'
    BY <1>1 DEF CallInv, Requested, Newest
  <1>3. Shown'
    BY <1>1 DEF CallInv, Shown
  <1>4. EndsAsked'
    <2>1. queue \in Seq(Ops) /\ nextId \in Nat
      BY DEF CallInv, Types, SessionTyped
    <2>2. \A i \in DOMAIN queue : queue[i] \in Ops
      BY <2>1
    <2>3. \A i \in DOMAIN queue : queue[i].op = "ended" => queue[i].id \in Nat
      BY <2>2 DEF Ops, Joins, Leaves, Ends
    <2>4. ASSUME NEW i \in DOMAIN queue', queue'[i].op = "ended"
          PROVE  /\ queue'[i].id < nextId'
                 /\ queue'[i].asked /\ session' # None /\ queue'[i].id = session'.id =>
                       \E j \in 1..i - 1 : queue'[j].op = "leave"
      BY <2>1, <2>3, <2>4 DEF CallInv, EndsAsked
    <2> QED
      BY <2>4 DEF EndsAsked
  <1> QED
    BY <1>2, <1>3, <1>4

\* The session before is gone, and the new one has nothing but its Room to come.
LEMMA OpenSessionInv ==
    ASSUME CallInv, OpenSession PROVE CallInv'
  <1>1. /\ task.at = "clearing" /\ task.todo = <<>>
        /\ nextId' = nextId + 1
        /\ UNCHANGED <<latest, queue, open, mic, monitor, stage, shown, wanted>>
        /\ task' = [op |-> task.op, at |-> "credentials", id |-> nextId]
        /\ session' = [id |-> nextId, channel |-> task.op.channel, state |-> "connecting",
                       resources |-> <<"room">>]
    BY DEF OpenSession, media, screen
  <1>2. task.op \in Joins /\ nextId \in Nat \ {0}
    BY <1>1 DEF CallInv, Phases, Disposers, TearingDown, Types, SessionTyped
  <1>3. Clean
    <2>1. \A what : ~Has(task.todo, what)
      BY <1>1 DEF Has
    <2> QED
      BY <1>1, <2>1 DEF CallInv, Phases, Disposers, TearingDown, Clean
  <1>4. <<"room">> \in Seq({"room", "store", "mic", "monitor"})
    OBVIOUS
  <1>5. session' \in Sessions /\ session' # None /\ session'.id \in 1..nextId' - 1
    <2>1. task.op.channel \in Channels
      BY <1>2 DEF Joins
    <2>2. session' \in Sessions
      BY <1>1, <1>2, <1>4, <2>1 DEF Sessions
    <2> QED
      BY <1>1, <1>2, <2>2, CallAssumption
  <1>6. Types'
    BY <1>1, <1>2, <1>5 DEF CallInv, Types, SessionTyped, MicTyped, ScreenTyped, PhaseTyped
  <1>7. Joining'
    BY <1>1, <1>2, <1>3, <1>5 DEF Joining, Clean
  <1>8. Free' /\ InCall' /\ Starting' /\ Disposers'
    BY <1>1 DEF Free, InCall, Starting, Disposers, TearingDown
  <1>9. Requested' /\ Shown' /\ EndsAsked'
    BY <1>1, <1>5, JoinRequests
  <1> QED
    BY <1>6, <1>7, <1>8, <1>9 DEF CallInv, Phases

\* An attempt that fails has no microphone, and its session is the current one.
LEMMA AttemptFails ==
    ASSUME CallInv, task.at \in {"credentials", "connecting", "microphone"}, Fail(task.id),
           UNCHANGED <<nextId, latest, queue, monitor, screen, wanted>>,
           open' \subseteq open, mic' = MicOff
    PROVE  CallInv'
  <1>1. session # None /\ session.id = task.id /\ task.op \in Joins
    BY DEF CallInv, Phases, Joining
  <1>2. Teardown(task.op, "failing")
    BY <1>1 DEF Fail, IsCurrent
  <1>3. \/ session.resources = <<"room">> /\ monitor = 0 /\ stage = None
        \/ Bound /\ ~Has(session.resources, "mic")
    BY DEF CallInv, Phases, Joining, Starting
  <1>4. ASSUME session.resources = <<"room">>
        PROVE  /\ Has(session.resources, "room") /\ ~Has(session.resources, "mic")
               /\ Once(session.resources)
    BY <1>4 DEF Has, Once
  <1>5. open \subseteq {session.id}
    BY <1>1 DEF CallInv, Phases, Joining, Starting, Bound
  <1>6. LET s == session.resources
        IN  /\ open' \subseteq {session.id} /\ (open' # {} => Has(s, "room"))
            /\ stage # None => Has(s, "store")
            /\ monitor # 0 => Has(s, "monitor")
            /\ Once(s)
            /\ Has(s, "mic") => Switched(mic')
            /\ ~Has(s, "mic") => mic' = MicOff
    BY <1>3, <1>4, <1>5 DEF Bound
  <1>7. PICK op \in Joins : op = task.op
    BY <1>1
  <1>8. /\ Phases' /\ PhaseTyped' /\ session' = None
        /\ task'.at = "failing" /\ task'.op = op
    BY <1>1, <1>2, <1>6, <1>7, TeardownPhases DEF CallInv, Types, screen
  <1>9. MicTyped'
    BY DEF MicTyped, MicOff
  <1>10. Types'
    BY <1>8, <1>9 DEF CallInv, Types, SessionTyped, ScreenTyped, screen
  <1>11. Requested' /\ Shown' /\ EndsAsked'
    BY <1>8 DEF CallInv, Requested, Shown, EndsAsked, Newest
  <1> QED
    BY <1>8, <1>10, <1>11 DEF CallInv

\* Credentials arrive, or do not.
LEMMA CredentialsArriveInv ==
    ASSUME CallInv, CredentialsArrive PROVE CallInv'
  <1>1. /\ task.at = "credentials"
        /\ UNCHANGED <<nextId, latest, queue, mic, monitor, stage, shown, wanted>>
    BY DEF CredentialsArrive, media, screen
  <1>2. /\ task = [op |-> task.op, at |-> task.at, id |-> task.id]
        /\ task.op \in Joins /\ session # None /\ session.id = task.id
        /\ session.channel = task.op.channel
        /\ session.resources = <<"room">> /\ session.state = "connecting"
        /\ mic = MicOff /\ monitor = 0 /\ stage = None /\ open = {}
    BY <1>1 DEF CallInv, Phases, Joining
  <1>3. CASE task' = [task EXCEPT !.at = "connecting"] /\ open' = open \cup {task.id}
             /\ UNCHANGED session
    <2>1. task' = [op |-> task.op, at |-> "connecting", id |-> task.id]
      BY <1>2, <1>3
    <2>2. Types'
      BY <1>1, <1>3, <2>1
         DEF CallInv, Types, SessionTyped, MicTyped, ScreenTyped, PhaseTyped
    <2>3. Joining'
      BY <1>1, <1>2, <1>3, <2>1 DEF Joining
    <2>4. Free' /\ InCall' /\ Starting' /\ Disposers'
      BY <2>1 DEF Free, InCall, Starting, Disposers, TearingDown
    <2>5. Requested' /\ Shown' /\ EndsAsked'
      BY <1>1, <1>2, <1>3, <2>1, JoinRequests
    <2> QED
      BY <2>2, <2>3, <2>4, <2>5 DEF CallInv, Phases
  <1>4. CASE Fail(task.id) /\ UNCHANGED open
    BY <1>1, <1>2, <1>4, AttemptFails DEF screen
  <1> QED
    BY <1>3, <1>4 DEF CredentialsArrive

\* LiveKit does not let the client in.
LEMMA ConnectFailsInv ==
    ASSUME CallInv, ConnectFails PROVE CallInv'
  <1>1. /\ task.at = "connecting" /\ open' = open \ {task.id} /\ Fail(task.id)
        /\ UNCHANGED <<nextId, latest, queue, mic, monitor, screen, wanted>>
    BY DEF ConnectFails, media
  <1>2. mic = MicOff /\ open = {task.id}
    BY <1>1 DEF CallInv, Phases, Joining
  <1> QED
    BY <1>1, <1>2, AttemptFails

\* The room is connected: the session has its store, and asks for the microphone.
LEMMA ConnectedInv ==
    ASSUME CallInv, Connected PROVE CallInv'
  <1>1. /\ task.at = "connecting"
        /\ session' = [session EXCEPT !.state = "connected", !.resources = Append(@, "store")]
        /\ stage' = session.channel /\ shown' = session.channel
        /\ mic' = [mic EXCEPT !.queue = Append(@, [op |-> "start", id |-> task.id])]
        /\ task' = [task EXCEPT !.at = "microphone"]
        /\ UNCHANGED <<nextId, latest, queue, open, monitor, wanted>>
    BY DEF Connected, BindMedia
  <1>2. /\ task = [op |-> task.op, at |-> task.at, id |-> task.id]
        /\ task.op \in Joins /\ session # None /\ session.id = task.id
        /\ session.channel = task.op.channel
        /\ session.resources = <<"room">>
        /\ mic = MicOff /\ monitor = 0 /\ open = {task.id}
    BY <1>1 DEF CallInv, Phases, Joining
  <1>3. session \in Sessions /\ session.id \in 1..nextId - 1
    BY <1>2 DEF CallInv, Types, SessionTyped
  <1>4. task' = [op |-> task.op, at |-> "microphone", id |-> task.id]
    BY <1>1, <1>2
  <1> DEFINE more == Append(session.resources, "store")
  <1>5. /\ session.resources \in Seq(Kinds) /\ "store" \in Kinds
    BY <1>3 DEF Sessions, Kinds
  <1>6. Once(session.resources) /\ Has(session.resources, "room")
        /\ ~Has(session.resources, "mic")
    BY <1>2 DEF Once, Has
  <1>7. /\ Has(more, "store") /\ Has(more, "room") /\ ~Has(more, "mic") /\ Once(more)
    BY <1>5, <1>6, HasAppend
  <1>8. more \in Seq({"room", "store", "mic", "monitor"})
    BY <1>5 DEF Kinds
  <1> HIDE DEF more
  <1>9. /\ session' \in Sessions /\ session' # None /\ session'.id = session.id
        /\ session'.channel = session.channel /\ session'.state = "connected"
        /\ session'.resources = more
    <2>1. session' = [session EXCEPT !.state = "connected", !.resources = more]
      BY <1>1, <1>3 DEF Sessions, more
    <2>2. session' = [id |-> session.id, channel |-> session.channel, state |-> "connected",
                      resources |-> more]
      BY <1>3, <2>1 DEF Sessions
    <2>3. session' \in Sessions
      BY <1>3, <1>8, <2>2 DEF Sessions
    <2> QED
      BY <2>2, <2>3, CallAssumption
  <1>10. mic' = [queue |-> <<[op |-> "start", id |-> task.id]>>, at |-> "idle",
                 holder |-> 0, answer |-> "none"]
    <2>1. mic' = [mic EXCEPT !.queue = Append(<<>>, [op |-> "start", id |-> task.id])]
      BY <1>1, <1>2 DEF MicOff
    <2> QED
      BY <1>2, <2>1 DEF MicOff
  <1>11. MicTyped' /\ Begun(mic')
    <2>1. [op |-> "start", id |-> task.id] \in MicOps
      BY <1>2, <1>3 DEF MicOps
    <2>2. <<[op |-> "start", id |-> task.id]>> \in Seq(MicOps)
      BY <2>1
    <2>3. MicTyped'
      BY <1>10, <2>2 DEF MicTyped
    <2>4. Begun(mic')
      BY <1>10 DEF Begun
    <2> QED
      BY <2>3, <2>4
  <1>12. Types'
    BY <1>1, <1>2, <1>3, <1>4, <1>9, <1>11
       DEF CallInv, Types, SessionTyped, ScreenTyped, PhaseTyped, Sessions
  <1>13. Joining'
    BY <1>2, <1>4, <1>9 DEF Joining
  <1>14. Starting'
    BY <1>1, <1>2, <1>4, <1>7, <1>9, <1>11 DEF Starting, Bound
  <1>15. Free' /\ InCall' /\ Disposers'
    BY <1>4 DEF Free, InCall, Disposers, TearingDown
  <1>16. Requested' /\ Shown' /\ EndsAsked'
    BY <1>1, <1>2, <1>4, <1>9, JoinRequests
  <1> QED
    BY <1>12, <1>13, <1>14, <1>15, <1>16 DEF CallInv, Phases

\* The microphone and its monitor are registered, or the attempt has failed.
LEMMA MicrophoneAnswersInv ==
    ASSUME CallInv, MicrophoneAnswers PROVE CallInv'
  <1>1. /\ task.at = "microphone" /\ mic.answer # "none"
        /\ mic' = [mic EXCEPT !.answer = "none"]
        /\ UNCHANGED <<nextId, latest, queue, open, screen, wanted>>
    BY DEF MicrophoneAnswers
  <1>2. /\ session # None /\ session.id = task.id /\ task.op \in Joins
        /\ Bound /\ ~Has(session.resources, "mic") /\ Begun(mic)
        /\ session \in Sessions /\ session.id \in 1..nextId - 1
    BY <1>1 DEF CallInv, Phases, Joining, Starting, Types, SessionTyped
  <1>3. MicTyped'
    BY <1>1 DEF CallInv, Types, MicTyped
  <1>4. CASE mic.answer # "ok"
    <2>1. mic = [MicOff EXCEPT !.answer = "failed"]
      BY <1>1, <1>2, <1>4 DEF Begun
    <2>2. mic' = MicOff
      BY <1>1, <2>1 DEF MicOff
    <2> QED
      BY <1>1, <1>4, <2>2, AttemptFails DEF MicrophoneAnswers
  <1>5. CASE mic.answer = "ok"
    <2>1. /\ session' = [session EXCEPT !.resources = @ \o <<"mic", "monitor">>]
          /\ monitor' = task.id /\ task' = Idle
      BY <1>2, <1>5 DEF MicrophoneAnswers, IsCurrent
    <2> DEFINE s == session.resources
               more == Append(Append(s, "mic"), "monitor")
    <2>2. s \in Seq(Kinds) /\ "mic" \in Kinds /\ "monitor" \in Kinds
      BY <1>2 DEF Sessions, Kinds
    <2>3. Append(s, "mic") \in Seq(Kinds) /\ more \in Seq(Kinds)
      BY <2>2
    <2>4. s \o <<"mic", "monitor">> = more
      BY <2>2
    <2>5. Once(Append(s, "mic"))
      <3>1. /\ Len(s) \in Nat /\ DOMAIN s = 1..Len(s) /\ DOMAIN Append(s, "mic") = 1..Len(s) + 1
            /\ \A i \in 1..Len(s) : Append(s, "mic")[i] = s[i] /\ s[i] \in Kinds
        BY <2>2, <2>3, AppendProperties, LenProperties
      <3>2. \A i \in 1..Len(s) : Append(s, "mic")[i] \notin {"mic", "released"}
        BY <1>2, <3>1 DEF Has, Kinds
      <3> QED
        BY <3>1, <3>2 DEF Once
    <2>6. /\ Has(more, "monitor") /\ Has(more, "mic") /\ Once(more)
          /\ \A what : Has(s, what) => Has(more, what)
      <3> DEFINE some == Append(s, "mic")
      <3>1. Has(some, "mic") /\ \A what : Has(s, what) => Has(some, what)
        BY <2>2, HasAppend
      <3>2. some \in Seq(Kinds) /\ Once(some) /\ more = Append(some, "monitor")
        BY <2>3, <2>5
      <3> HIDE DEF some, more
      <3>3. /\ Has(more, "monitor") /\ Once(more)
            /\ \A what : Has(some, what) => Has(more, what)
        BY <2>2, <3>2, HasAppend
      <3> QED
        BY <3>1, <3>3
    <2>7. more \in Seq({"room", "store", "mic", "monitor"})
      BY <2>3 DEF Kinds
    <2> HIDE DEF more
    <2>8. /\ session' \in Sessions /\ session' # None /\ session'.id = session.id
          /\ session'.channel = session.channel /\ session'.state = session.state
          /\ session'.resources = more
      <3>1. session' = [session EXCEPT !.resources = more]
        BY <1>2, <2>1, <2>4 DEF Sessions
      <3> QED
        BY <1>2, <2>7, <3>1, CallAssumption DEF Sessions
    <2>9. Switched(mic')
      <3>1. Switches(mic)
        BY <1>2, <1>5 DEF Begun, MicOff
      <3>2. mic'.queue = mic.queue /\ mic'.answer = "none"
        BY <1>1 DEF CallInv, Types, MicTyped
      <3> QED
        BY <3>1, <3>2 DEF Switched, Switches
    <2>10. task'.at = "idle"
      BY <2>1 DEF Idle
    <2>11. Types'
      BY <1>1, <1>2, <1>3, <2>8, <2>10
         DEF CallInv, Types, SessionTyped, ScreenTyped, PhaseTyped, screen
    <2>12. InCall'
      BY <1>1, <1>2, <2>6, <2>8, <2>9, <2>10 DEF InCall, Bound, screen
    <2>13. Free' /\ Joining' /\ Starting' /\ Disposers'
      BY <2>8, <2>10 DEF Free, Joining, Starting, Disposers, TearingDown
    <2>14. Requested' /\ Shown' /\ EndsAsked'
      BY <1>1, <1>2, <2>8, <2>10, JoinRequests DEF screen
    <2> QED
      BY <2>11, <2>12, <2>13, <2>14 DEF CallInv, Phases
  <1> QED
    BY <1>4, <1>5

\* The last disposer has been called, and nothing is left.
LEMMA DoneInv ==
    ASSUME CallInv, Done PROVE CallInv'
  <1>1. /\ task.at \in {"ending", "failing"} /\ task.todo = <<>> /\ task' = Idle
        /\ UNCHANGED <<session, nextId, latest, queue, open, mic, monitor, stage, wanted>>
    BY DEF Done, media
  <1>2. session = None /\ task.op \in Ops
    BY <1>1 DEF CallInv, Phases, Disposers, TearingDown, Ops
  <1>3. Clean
    <2>1. \A what : ~Has(task.todo, what)
      BY <1>1 DEF Has
    <2> QED
      BY <1>1, <2>1 DEF CallInv, Phases, Disposers, TearingDown, Clean
  <1>4. task'.at = "idle"
    BY <1>1 DEF Idle
  <1>5. shown' \in Channels \cup {None}
    <2>1. task.op.op \in {"ended", "join", "leave"}
      BY <1>2 DEF Ops, Joins, Leaves, Ends
    <2> QED
      BY <2>1 DEF Done, CallInv, Types, ScreenTyped
  <1>6. Types'
    BY <1>1, <1>4, <1>5 DEF CallInv, Types, SessionTyped, MicTyped, ScreenTyped, PhaseTyped
  <1>7. Phases'
    BY <1>1, <1>2, <1>3, <1>4
       DEF Phases, Free, InCall, Joining, Starting, Disposers, TearingDown, Clean
  <1>8. Requested' /\ Shown' /\ EndsAsked'
    BY <1>1, <1>2, <1>4 DEF CallInv, Requested, Shown, EndsAsked, Newest
  <1> QED
    BY <1>6, <1>7, <1>8 DEF CallInv

\* The store of a call emits the channel of the call.
LEMMA StoreEmitsInv ==
    ASSUME CallInv, StoreEmits PROVE CallInv'
  <1>1. /\ stage # None /\ shown' = stage
        /\ UNCHANGED <<session, nextId, latest, queue, task, open, mic, monitor, stage, wanted>>
    BY DEF StoreEmits, Bridge, call, media
  <1>2. Types'
    BY <1>1 DEF CallInv, Types, SessionTyped, MicTyped, ScreenTyped, PhaseTyped
  <1>3. Phases'
    BY <1>1, PhasesKept DEF CallInv
  <1>4. session # None /\ task.at \in {"idle", "microphone"} => stage = session.channel
    BY DEF CallInv, Phases, InCall, Starting, Bound
  <1>5. Requested' /\ Shown' /\ EndsAsked'
    BY <1>1, <1>4 DEF CallInv, Requested, Shown, EndsAsked, Newest, Overruled
  <1> QED
    BY <1>2, <1>3, <1>5 DEF CallInv

-----------------------------------------------------------------------------
(* The theorems. *)

\* It holds at the start.
LEMMA CallStart == Init => CallInv
  <1> SUFFICES ASSUME Init PROVE CallInv
    OBVIOUS
  <1>1. /\ session = None /\ nextId = 1 /\ latest = 0 /\ queue = <<>>
        /\ task.at = "idle" /\ open = {} /\ mic = MicOff /\ monitor = 0
        /\ stage = None /\ shown = None /\ wanted = None
    BY DEF Init, Idle
  <1>2. <<>> \in Seq(MicOps) /\ <<>> \in Seq(Ops)
    OBVIOUS
  <1>3. Types
    BY <1>1, <1>2 DEF Types, SessionTyped, MicTyped, ScreenTyped, PhaseTyped, MicOff
  <1>4. Phases
    BY <1>1 DEF Phases, Free, InCall, Joining, Starting, Disposers, TearingDown, Clean
  <1>5. Requested /\ Shown /\ EndsAsked
    BY <1>1 DEF Requested, Shown, EndsAsked
  <1> QED
    BY <1>3, <1>4, <1>5 DEF CallInv

\* And while nothing happens.
LEMMA CallStutters ==
    ASSUME CallInv, UNCHANGED vars PROVE CallInv'
  <1>1. UNCHANGED <<session, nextId, latest, queue, task, open, mic, monitor, stage, shown,
                    wanted>>
    BY DEF vars, call, media, screen
  <1>2. Types'
    BY <1>1 DEF CallInv, Types, SessionTyped, MicTyped, ScreenTyped, PhaseTyped
  <1>3. Phases'
    BY <1>1, PhasesKept DEF CallInv
  <1>4. Requested' /\ Shown' /\ EndsAsked'
    BY <1>1 DEF CallInv, Requested, Shown, EndsAsked, Newest, Overruled
  <1> QED
    BY <1>2, <1>3, <1>4 DEF CallInv

\* Every step keeps it.
LEMMA CallNext == CallInv /\ [Next]_vars => CallInv'
  <1> SUFFICES ASSUME CallInv, [Next]_vars PROVE CallInv'
    OBVIOUS
  <1>1. CASE LeaveCall \/ \E c \in Channels : JoinCall(c)
    BY <1>1, UserInv
  <1>2. CASE SwitchMicrophone
    BY <1>2, SwitchInv
  <1>3. CASE CallStep
    BY <1>3, TakeInv, OpenSessionInv, DoneInv, DisposeInv, DisposeMicrophoneInv,
       MicrophoneReleasedInv, MicrophoneAnswersInv DEF CallStep
  <1>4. CASE AnswerStep
    BY <1>4, CredentialsArriveInv, ConnectedInv, ConnectFailsInv, MicInv, MicInstalledInv
       DEF AnswerStep
  <1>5. CASE \E id \in open : RoomDropped(id)
    BY <1>5, RoomDroppedInv
  <1>6. CASE StoreEmits
    BY <1>6, StoreEmitsInv
  <1>7. CASE UNCHANGED vars
    BY <1>7, CallStutters
  <1> QED
    BY <1>1, <1>2, <1>3, <1>4, <1>5, <1>6, <1>7 DEF Next

\* And always.
LEMMA CallAlways == Spec => []CallInv
  BY CallStart, CallNext, PTL DEF Spec

\* Every variable of the call stays in its type, for any channels and any bounds.
THEOREM CallType == Spec => []TypeOK
  <1>1. CallInv => TypeOK
    BY DEF CallInv, Types, SessionTyped, MicTyped, ScreenTyped, PhaseTyped, TypeOK, Sessions
  <1> QED
    BY <1>1, CallAlways, PTL

\* INV-D1 of callSession.ts: when a session is gone and its teardown over, its Room,
\* its microphone, its monitor and its store entry are gone too, whatever the rooms
\* that ended, the attempts that failed and the switches under way; and two Rooms
\* are never open at once.
THEOREM CallLeavesNothing == Spec => []NothingOutlives
  <1>1. CallInv => NothingOutlives
    <2> SUFFICES ASSUME CallInv PROVE NothingOutlives
      OBVIOUS
    <2>1. \E id : open \subseteq {id}
      <3>1. CASE task.at = "idle" /\ session = None
        BY <3>1 DEF CallInv, Phases, Free, Clean
      <3>2. CASE task.at = "idle" /\ session # None
        BY <3>2 DEF CallInv, Phases, InCall, Bound
      <3>3. CASE task.at \in {"credentials", "connecting"}
        BY <3>3 DEF CallInv, Phases, Joining
      <3>4. CASE task.at = "microphone"
        BY <3>4 DEF CallInv, Phases, Starting, Bound
      <3>5. CASE TearingDown
        BY <3>5 DEF CallInv, Phases, Disposers
      <3> QED
        BY <3>1, <3>2, <3>3, <3>4, <3>5 DEF CallInv, Types, PhaseTyped, TearingDown
    <2>2. PICK id : open = {} \/ open = {id}
      BY <2>1
    <2>3. Cardinality(open) = 0 \/ Cardinality(open) = 1
      BY <2>2, FS_EmptySet, FS_Singleton
    <2>4. (session = None /\ task.at = "idle") \/ task.at = "credentials" => Clean
      BY DEF CallInv, Phases, Free, Joining, Clean
    <2> QED
      BY <2>3, <2>4 DEF NothingOutlives, Clean
  <1> QED
    BY <1>1, CallAlways, PTL

\* The user's last request decides, however many joins and leaves overtook one another
\* while credentials, LiveKit and the microphone were awaited.
THEOREM LastRequestDecides == Spec => []LatestRequestWins
  <1>1. CallInv => LatestRequestWins
    <2> SUFFICES ASSUME CallInv, Settled, session # None PROVE session.channel = wanted
      BY DEF LatestRequestWins
    <2>1. ~Overruled
      BY DEF Settled, Overruled
    <2> QED
      BY <2>1 DEF CallInv, Requested
  <1> QED
    BY <1>1, CallAlways, PTL

\* A connected call is on stage, whatever the ends of older sessions and the failures
\* of older joins took off it.
THEOREM CallIsOnStage == Spec => []ConnectedIsShown
  <1>1. CallInv => ConnectedIsShown
    <2> SUFFICES ASSUME CallInv, Settled, session # None PROVE shown = session.channel
      BY DEF ConnectedIsShown
    <2>1. ~Overruled /\ task.at = "idle"
      BY DEF Settled, Overruled
    <2> QED
      BY <2>1 DEF CallInv, Shown
  <1> QED
    BY <1>1, CallAlways, PTL

\* INV-C4 of callSession.ts: a teardown that was asked for is never reported as an
\* unexpected end, nor is the end of a session that is no longer the current one.
THEOREM AskedEndsAreQuiet == Spec => LeavingIsQuiet
  <1>1. CallInv /\ [Next]_vars =>
           [task.at = "ending" /\ task'.at = "idle" /\ task.op.op = "ended"
               => ~task.op.asked /\ task.op.id = task.id]_vars
    BY DEF CallInv, EndsAsked
  <1> QED
    BY <1>1, CallAlways, PTL DEF Spec, LeavingIsQuiet

=============================================================================
