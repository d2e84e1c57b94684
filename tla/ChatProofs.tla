------------------------------- MODULE ChatProofs ------------------------------
(***************************************************************************)
(* Chat, for every set of devices, requests and files, and every budget.   *)
(*                                                                         *)
(*   FilesStay          the attachment cleanup never takes a file from the *)
(*                      message that has it: the row of a file goes before *)
(*                      the file, and a message takes a file by its row    *)
(*   ChatType           the types, by ChatInv: whatever is on its way, in  *)
(*                      a task, on a connection or in a page, is about     *)
(*                      rows that are there, and the log only grows        *)
(*   ChatImplementsLog  every step of the chat is a step of MessageLog, or *)
(*                      none: a request is posted once, confirmed only     *)
(*                      when it is stored, and files are discarded free    *)
(*   RequestsPostOnce   so a request has one message, with all its files,  *)
(*                      and a confirmed one has a message                  *)
(*   PreviewsFollow     the preview of a settled message is of the content *)
(*                      it has: by PreviewInv, that content is yet to be   *)
(*                      told, or being looked up, or was looked up last    *)
(*   WindowsAgree       a window that missed nothing shows what is stored  *)
(*                      once nothing is under way: by WindowInv, until     *)
(*                      then it is right, or what waits on its connection  *)
(*                      or is yet to be told makes it right                *)
(***************************************************************************)
EXTENDS Chat, SequenceTheorems, TLAPS

-----------------------------------------------------------------------------
(* The files. *)

\* A file whose row is there is on disk, whether a message has it or not, and
\* the row of a file about to be removed is gone.
FilesAccounted ==
    /\ owner = [f \in Files |-> owner[f]]
    /\ cleanup = [scanned |-> cleanup.scanned, removing |-> cleanup.removing]
    /\ \A f \in Files : owner[f] # Removed => f \in disk
    /\ \A f \in cleanup.removing \cap Files : owner[f] = Removed

fileVars == <<owner, disk, cleanup>>

\* An action that leaves the rows, the files and the cleanup alone.
LEMMA FilesUntouched ==
    ASSUME FilesAccounted, UNCHANGED fileVars PROVE FilesAccounted'
  BY DEF FilesAccounted, fileVars

\* A new message takes files whose rows are there and free.
LEMMA CreateNewFiles ==
    ASSUME FilesAccounted, NEW d \in Devices, CreateNew(d) PROVE FilesAccounted'
  <1>1. /\ UNCHANGED <<disk, cleanup>>
        /\ \E n : owner' = [f \in Files |->
                     IF f \in {g \in FilesOf[Frame(d).request] : owner[g] = None}
                     THEN n ELSE owner[f]]
    BY DEF CreateNew
  <1>2. None # Removed
    BY ChatAssumption
  <1> QED
    BY <1>1, <1>2 DEF FilesAccounted

\* The conditional delete takes a free row, and then its file is to be removed.
LEMMA DeleteUnattachedFiles ==
    ASSUME FilesAccounted, NEW f \in Files, DeleteUnattached(f) PROVE FilesAccounted'
  <1>1. /\ owner' = [owner EXCEPT ![f] = IF @ = None THEN Removed ELSE @]
        /\ cleanup' = [scanned  |-> cleanup.scanned \ {f},
                       removing |-> IF owner[f] = None THEN {f} ELSE {}]
        /\ disk' = disk
    BY DEF DeleteUnattached
  <1>2. owner' = [g \in Files |-> IF g = f /\ owner[f] = None THEN Removed ELSE owner[g]]
    BY <1>1 DEF FilesAccounted
  <1>3. cleanup'.removing = IF owner[f] = None THEN {f} ELSE {}
    BY <1>1
  <1>4. cleanup' = [scanned |-> cleanup'.scanned, removing |-> cleanup'.removing]
    BY <1>1
  <1> QED
    BY <1>1, <1>2, <1>3, <1>4 DEF FilesAccounted

\* What is removed has no row any more.
LEMMA RemoveFileFiles ==
    ASSUME FilesAccounted, NEW f \in Files, RemoveFile(f) PROVE FilesAccounted'
  <1>1. /\ f \in cleanup.removing /\ disk' = disk \ {f} /\ owner' = owner
        /\ cleanup' = [cleanup EXCEPT !.removing = {}]
    BY DEF RemoveFile
  <1>2. cleanup' = [scanned |-> cleanup.scanned, removing |-> {}]
    BY <1>1 DEF FilesAccounted
  <1> QED
    BY <1>1, <1>2 DEF FilesAccounted

\* A scan removes nothing.
LEMMA ScanFiles ==
    ASSUME FilesAccounted, ScanUnattached PROVE FilesAccounted'
  <1>1. /\ UNCHANGED <<owner, disk>>
        /\ \E old : cleanup' = [cleanup EXCEPT !.scanned = old]
    BY DEF ScanUnattached
  <1>2. \E old : cleanup' = [scanned |-> old, removing |-> cleanup.removing]
    BY <1>1 DEF FilesAccounted
  <1> QED
    BY <1>1, <1>2 DEF FilesAccounted

\* A restart forgets the cleanup that was under way.
LEMMA RestartFiles ==
    ASSUME FilesAccounted, Restart PROVE FilesAccounted'
  <1>1. UNCHANGED <<owner, disk>> /\ cleanup' = [scanned |-> {}, removing |-> {}]
    BY DEF Restart
  <1> QED
    BY <1>1 DEF FilesAccounted

\* What the users do touches no file.
LEMMA UserActsFiles ==
    ASSUME UserActs PROVE UNCHANGED fileVars
  <1>1. ASSUME NEW r \in Requests, SendOptimistic(r) PROVE UNCHANGED fileVars
    BY <1>1 DEF SendOptimistic, store, fileVars
  <1>2. CASE \E r \in Requests : SubmitMessage(r) \/ CancelMessage(r) \/ RetryMessage(r)
    BY <1>1, <1>2 DEF SubmitMessage, CancelMessage, RetryMessage, store, fileVars
  <1>3. CASE \E d \in Devices : LeaveChannel(d) \/ ChooseChannel(d)
    BY <1>3 DEF LeaveChannel, ChooseChannel, store, fileVars
  <1>4. CASE \E d \in Devices : \E id \in DOMAIN view[d].shown :
                \/ DeleteMessage(d, id)
                \/ \E content \in Contents \ {"card"} : EditMessage(d, id, content)
    BY <1>4 DEF DeleteMessage, EditMessage, store, fileVars
  <1> QED
    BY <1>2, <1>3, <1>4 DEF UserActs

\* Of the handlers, only a creation touches files.
LEMMA HandlersFiles ==
    ASSUME FilesAccounted, NEW d \in Devices,
           Handle(d) \/ CreateFails(d) \/ ChangeFails(d) \/ TellChange(d)
    PROVE  FilesAccounted'
  <1>1. CASE CreateNew(d)
    BY <1>1, CreateNewFiles
  <1>2. CASE RefuseFiles(d) \/ CreateAgain(d) \/ CreateFails(d) \/ ChangeFails(d) \/ TellChange(d)
    BY <1>2, FilesUntouched
    DEF RefuseFiles, CreateAgain, CreateFails, ChangeFails, TellChange, store, fileVars
  <1>3. CASE HandleEdit(d) \/ HandleDelete(d)
    BY <1>3, FilesUntouched DEF HandleEdit, HandleDelete, fileVars
  <1> QED
    BY <1>1, <1>2, <1>3 DEF Handle

\* Neither do the tasks, but for the cleanup.
LEMMA TasksFiles ==
    ASSUME TellOrphan \/ UnfurlStep \/ PostCard PROVE UNCHANGED fileVars
  <1>1. CASE TellOrphan
    BY <1>1 DEF TellOrphan, store, fileVars
  <1>2. CASE UnfurlStep
    BY <1>2 DEF UnfurlStep, store, fileVars
  <1>3. CASE PostCard
    BY <1>3 DEF PostCard, fileVars
  <1> QED
    BY <1>1, <1>2, <1>3

\* Nor do the windows and the connections.
LEMMA ClientsFiles ==
    ASSUME \/ \E d \in Devices : \/ LoadHistory(d) \/ HistoryFails(d) \/ Receive(d)
                                 \/ Drop(d) \/ Reconnect(d)
           \/ \E r \in Requests : TimerFires(r)
    PROVE  UNCHANGED fileVars
  BY DEF LoadHistory, HistoryFails, Receive, Drop, Reconnect, TimerFires, store, fileVars

\* Every step keeps the files accounted for.
LEMMA StepFiles ==
    ASSUME FilesAccounted, [Next]_vars PROVE FilesAccounted'
  <1>1. CASE UserActs
    BY <1>1, UserActsFiles, FilesUntouched
  <1>2. CASE \E d \in Devices : Handle(d) \/ CreateFails(d) \/ ChangeFails(d) \/ TellChange(d)
    BY <1>2, HandlersFiles
  <1>3. CASE TellOrphan \/ UnfurlStep \/ PostCard
    BY <1>3, TasksFiles, FilesUntouched
  <1>4. CASE ScanUnattached
    BY <1>4, ScanFiles
  <1>5. CASE Cleanup
    BY <1>5, DeleteUnattachedFiles, RemoveFileFiles DEF Cleanup
  <1>6. CASE \/ \E d \in Devices : \/ LoadHistory(d) \/ HistoryFails(d) \/ Receive(d)
                                   \/ Drop(d) \/ Reconnect(d)
             \/ \E r \in Requests : TimerFires(r)
    BY <1>6, ClientsFiles, FilesUntouched
  <1>7. CASE Restart
    BY <1>7, RestartFiles
  <1>8. CASE UNCHANGED vars
    BY <1>8, FilesUntouched DEF vars, store, fileVars
  <1> QED
    BY <1>1, <1>2, <1>3, <1>4, <1>5, <1>6, <1>7, <1>8 DEF Next

\* spawn_attachment_cleanup never takes a file from the message that has it: a
\* message may have taken it between the scan and the conditional delete.
THEOREM FilesStay == Spec => []AttachedIsOnDisk
  <1>1. Init => FilesAccounted
    BY DEF Init, FilesAccounted
  <1>2. FilesAccounted /\ [Next]_vars => FilesAccounted'
    BY StepFiles
  <1>3. FilesAccounted => AttachedIsOnDisk
    BY DEF FilesAccounted, AttachedIsOnDisk
  <1> QED
    BY <1>1, <1>2, <1>3, PTL DEF Spec

-----------------------------------------------------------------------------
(* The types. *)

\* Who writes: the users of the devices, and the bot of the cards.
People == {User[d] : d \in Devices} \cup {"bot"}

\* A row of messages.
Rows == [request : Requests \cup {None}, user : People, content : Contents,
         deleted : BOOLEAN]

\* What a handler has yet to tell: a change of a row there is, and of the creation
\* of a row the request it was stored for.
Changes ==
    {e \in [op : {"created"}, id : Ids, request : Requests \cup {None}, content : Contents,
            to : People \cup {"all"}] : e.request = log[e.id].request}
    \cup [op : {"edited"}, id : Ids, content : Contents, to : People \cup {"all"}]
    \cup [op : {"deleted"}, id : Ids, to : People \cup {"all"}]

\* What a connection delivers, and what a client puts on it.
Events ==
    Changes \cup [op : {"preview"}, id : Ids, link : Links]
            \cup [op : {"error"}, request : Requests \cup {None}]

Frames ==
    [op : {"create"}, request : Requests, content : Contents]
    \cup [op : {"edit"}, id : Ids, content : Contents \ {"card"}]
    \cup [op : {"delete"}, id : Ids]

\* A task that looks a link up, at one of its steps.
Unfurls == [id : Ids, content : Contents, at : {"looking", "telling"}, link : Links]

\* Every row has its place for a preview, and the owner of a file is a row.
LogTyped ==
    /\ log \in Seq(Rows) /\ preview \in Seq(Links) /\ Len(preview) = Len(log)
    /\ owner \in [Files -> Ids \cup {None, Removed}]

\* What the server's tasks hold is about rows that are there.
TasksTyped ==
    /\ handler \in [Devices -> Changes \cup {Idle}]
    /\ orphans \subseteq Changes /\ unfurls \subseteq Unfurls

\* So is what is on its way, and what a window shows or waits for.
SocketTyped == socket \in [Devices -> [up : BOOLEAN, in : Seq(Frames), out : Seq(Events)]]

ViewTyped ==
    /\ view = [d \in Devices |-> [open |-> view[d].open, shown |-> view[d].shown]]
    /\ \A d \in Devices : DOMAIN view[d].shown \subseteq Ids
    /\ loads = [d \in Devices |-> loads[d]]
    /\ \A d \in Devices : \A l \in loads[d] :
          /\ l = [at |-> l.at, dirty |-> l.dirty, page |-> l.page]
          /\ DOMAIN l.page \subseteq Ids

\* A request under way is one its user was to say.
SendsTyped ==
    /\ status \in [Requests -> Statuses] /\ timer \subseteq Requests
    /\ \A r \in timer : status[r] # "unsent"
    /\ \A r \in Requests : status[r] # "unsent" => r \in DOMAIN budget.says
    /\ DOMAIN budget = Bounds \cup {"devices", "says"} /\ DOMAIN budget.says \subseteq Requests
    /\ \A r \in DOMAIN budget.says : budget.says[r] \in Contents

ChatInv == LogTyped /\ TasksTyped /\ SocketTyped /\ ViewTyped /\ SendsTyped

\* Rows are only added, and a row keeps its request.
Growth == Ids \subseteq Ids' /\ \A id \in Ids : log'[id].request = log[id].request

-----------------------------------------------------------------------------
(* What was well formed stays so as the log grows. *)

\* A row that is added has the next id.
LEMMA RowAdded ==
    ASSUME LogTyped, NEW row \in Rows, log' = Append(log, row)
    PROVE  /\ log' \in Seq(Rows) /\ Growth
           /\ Ids' = Ids \cup {Len(log) + 1} /\ Len(log) + 1 \notin Ids
           /\ Len(log') = Len(log) + 1
           /\ \A id \in Ids : log'[id] = log[id]
           /\ log'[Len(log) + 1] = row
  <1>1. log \in Seq(Rows) /\ Ids = 1..Len(log) /\ Len(log) \in Nat
    BY DEF LogTyped, Ids
  <1>2. log' \in Seq(Rows) /\ Len(log') = Len(log) + 1
    BY <1>1
  <1>3. Ids' = 1..Len(log')
    BY <1>2 DEF Ids
  <1>4. \A id \in 1..Len(log) : log'[id] = log[id]
    BY <1>1
  <1>5. log'[Len(log) + 1] = row
    BY <1>1
  <1>6. 1..Len(log') = 1..Len(log) \cup {Len(log) + 1} /\ Len(log) + 1 \notin 1..Len(log)
    BY <1>1, <1>2
  <1> QED
    BY <1>1, <1>2, <1>3, <1>4, <1>5, <1>6 DEF Growth

\* A row that is changed keeps its id and its request.
LEMMA RowChanged ==
    ASSUME LogTyped, NEW id \in Ids, NEW row \in Rows, row.request = log[id].request,
           log' = [log EXCEPT ![id] = row]
    PROVE  log' \in Seq(Rows) /\ Growth /\ Ids' = Ids /\ Len(log') = Len(log)
  <1>1. log \in Seq(Rows) /\ Ids = 1..Len(log) /\ Len(log) \in Nat
    BY DEF LogTyped, Ids
  <1>2. log' \in Seq(Rows) /\ Len(log') = Len(log) /\ DOMAIN log' = DOMAIN log
    BY <1>1
  <1>3. \A i \in Ids : log'[i].request = log[i].request
    BY <1>1
  <1> QED
    BY <1>1, <1>2, <1>3 DEF Growth, Ids

\* What names messages that are there names messages that are there later.
LEMMA Grown ==
    ASSUME Growth
    PROVE  /\ Changes \subseteq Changes' /\ Events \subseteq Events'
           /\ Frames \subseteq Frames' /\ Unfurls \subseteq Unfurls'
  <1>1. Changes \subseteq Changes'
    BY DEF Growth, Changes
  <1>2. Events \subseteq Events'
    BY <1>1 DEF Growth, Events
  <1> QED
    BY <1>1, <1>2 DEF Growth, Frames, Unfurls

\* A sequence over a set is one over a larger set.
LEMMA WiderSeq ==
    ASSUME NEW S, NEW T, S \subseteq T PROVE Seq(S) \subseteq Seq(T)
  BY SeqMonotonic

\* What an action leaves alone.
LEMMA Unaffected ==
    ASSUME Growth
    PROVE  /\ TasksTyped /\ UNCHANGED tasks => TasksTyped'
           /\ SocketTyped /\ UNCHANGED socket => SocketTyped'
           /\ ViewTyped /\ UNCHANGED <<view, loads>> => ViewTyped'
           /\ SendsTyped /\ UNCHANGED <<status, timer>> /\ budget'.says = budget.says
                 /\ DOMAIN budget' = DOMAIN budget => SendsTyped'
  <1>1. TasksTyped /\ UNCHANGED tasks => TasksTyped'
    BY Grown DEF TasksTyped, tasks
  <1>2. SocketTyped /\ UNCHANGED socket => SocketTyped'
    <2> SUFFICES ASSUME SocketTyped, socket' = socket PROVE SocketTyped'
      OBVIOUS
    <2>1. Seq(Frames) \subseteq Seq(Frames') /\ Seq(Events) \subseteq Seq(Events')
      BY Grown, WiderSeq
    <2> QED
      BY <2>1 DEF SocketTyped
  <1>3. ViewTyped /\ UNCHANGED <<view, loads>> => ViewTyped'
    BY DEF ViewTyped, Growth
  <1>4. SendsTyped /\ UNCHANGED <<status, timer>> /\ budget'.says = budget.says
                 /\ DOMAIN budget' = DOMAIN budget => SendsTyped'
    BY DEF SendsTyped
  <1> QED
    BY <1>1, <1>2, <1>3, <1>4

\* While the log is the same, so is what may be told, asked and looked up.
LEMMA SameLog ==
    ASSUME LogTyped, UNCHANGED log PROVE Growth /\ Ids' = Ids /\ Changes' = Changes
           /\ Events' = Events /\ Frames' = Frames /\ Unfurls' = Unfurls
  BY DEF Growth, Ids, Changes, Events, Frames, Unfurls

\* Spending leaves what the users are to say.
LEMMA Spent ==
    ASSUME SendsTyped, NEW what \in Bounds, Spend(what)
    PROVE  budget'.says = budget.says /\ DOMAIN budget' = DOMAIN budget
  BY DEF SendsTyped, Spend, Bounds

-----------------------------------------------------------------------------
(* The connections. *)

\* An event queued for some connections.
LEMMA Queued ==
    ASSUME LogTyped, SocketTyped, UNCHANGED log, NEW event \in Events, NEW recipients,
           Queue(event, recipients)
    PROVE  SocketTyped'
  <1>1. Events' = Events /\ Frames' = Frames
    BY SameLog
  <1>2. ASSUME NEW d \in Devices
        PROVE  /\ socket[d] \in [up : BOOLEAN, in : Seq(Frames), out : Seq(Events)]
               /\ [socket[d] EXCEPT !.out = Append(@, event)]
                     \in [up : BOOLEAN, in : Seq(Frames), out : Seq(Events)]
    <2>1. socket[d] \in [up : BOOLEAN, in : Seq(Frames), out : Seq(Events)]
      BY DEF SocketTyped
    <2>2. Append(socket[d].out, event) \in Seq(Events)
      BY <2>1
    <2> QED
      BY <2>1, <2>2
  <1>3. socket' \in [Devices -> [up : BOOLEAN, in : Seq(Frames), out : Seq(Events)]]
    BY <1>2 DEF Queue
  <1> QED
    BY <1>1, <1>3 DEF SocketTyped

\* A handler takes its frame and answers its own user.
LEMMA Replied ==
    ASSUME SocketTyped, Growth, NEW d \in Devices, NEW replies \in Seq(Events'),
           socket[d].in # <<>>, Reply(d, replies)
    PROVE  SocketTyped'
  <1> DEFINE C == [up : BOOLEAN, in : Seq(Frames'), out : Seq(Events')]
             done(c) == [socket[c] EXCEPT !.in = IF c = d THEN Tail(@) ELSE @]
  <1>1. Seq(Frames) \subseteq Seq(Frames') /\ Seq(Events) \subseteq Seq(Events')
    BY Grown, WiderSeq
  <1>2. ASSUME NEW c \in Devices
        PROVE  done(c) \in C /\ [done(c) EXCEPT !.out = @ \o replies] \in C
    <2>1. socket[c] \in C
      BY <1>1 DEF SocketTyped
    <2>2. Tail(socket[d].in) \in Seq(Frames')
      BY <1>1 DEF SocketTyped
    <2>3. done(c) \in C
      BY <2>1, <2>2
    <2>4. done(c).out \o replies \in Seq(Events')
      BY <2>3
    <2> QED
      BY <2>3, <2>4
  <1>3. socket' \in [Devices -> C]
    <2>1. socket' = [c \in Devices |-> IF c \in DevicesOf(User[d]) \cap Connected
                                       THEN [done(c) EXCEPT !.out = @ \o replies] ELSE done(c)]
      BY DEF Reply
    <2> HIDE DEF done, C
    <2> QED
      BY <1>2, <2>1
  <1> QED
    BY <1>3 DEF SocketTyped

\* The answer to a frame that is refused.
LEMMA Refused ==
    ASSUME NEW request \in Requests \cup {None}
    PROVE  Refusal(request) \in Seq(Events)
  <1>1. [op |-> "error", request |-> request] \in Events
    BY DEF Events
  <1> QED
    BY <1>1 DEF Refusal

\* A frame a client puts on its connection.
LEMMA Sent ==
    ASSUME LogTyped, SocketTyped, UNCHANGED log, NEW d \in Devices, NEW frame \in Frames,
           Send(d, frame)
    PROVE  SocketTyped'
  <1>1. Events' = Events /\ Frames' = Frames
    BY SameLog
  <1>2. Append(socket[d].in, frame) \in Seq(Frames)
    BY DEF SocketTyped
  <1>3. socket' = [socket EXCEPT ![d].in = Append(@, frame)]
    BY DEF Send
  <1> QED
    BY <1>1, <1>2, <1>3 DEF SocketTyped

\* The frame a handler has in hand.
LEMMA FrameTyped ==
    ASSUME SocketTyped, NEW d \in Devices, NEW op, Handles(d, op)
    PROVE  /\ socket[d].in # <<>>
           /\ op = "create" => Frame(d).request \in Requests /\ Frame(d).content \in Contents
           /\ op = "edit" => Frame(d).id \in Ids /\ Frame(d).content \in Contents \ {"card"}
           /\ op = "delete" => Frame(d).id \in Ids
  <1>1. socket[d].in \in Seq(Frames) /\ socket[d].in # <<>> /\ Frame(d).op = op
    BY DEF SocketTyped, Handles
  <1>2. Frame(d) \in Frames
    BY <1>1 DEF Frame
  <1> QED
    BY <1>1, <1>2 DEF Frames

-----------------------------------------------------------------------------
(* Telling. *)

\* The pages on their way that an event overtakes.
LEMMA Overtaken ==
    ASSUME LogTyped, ViewTyped, UNCHANGED <<log, view>>, Overtake
    PROVE  ViewTyped'
  <1>1. \A d \in Devices : loads'[d] = {[l EXCEPT !.dirty = TRUE] : l \in loads[d]}
    BY DEF Overtake
  <1>2. loads' = [d \in Devices |-> loads'[d]]
    BY DEF Overtake
  <1>3. ASSUME NEW d \in Devices, NEW k \in loads'[d]
        PROVE  /\ k = [at |-> k.at, dirty |-> k.dirty, page |-> k.page]
               /\ DOMAIN k.page \subseteq Ids
    <2>1. PICK l \in loads[d] : k = [l EXCEPT !.dirty = TRUE]
      BY <1>1, <1>3
    <2>2. l = [at |-> l.at, dirty |-> l.dirty, page |-> l.page] /\ DOMAIN l.page \subseteq Ids
      BY DEF ViewTyped
    <2>3. k = [at |-> l.at, dirty |-> TRUE, page |-> l.page]
      BY <2>1, <2>2
    <2> QED
      BY <2>2, <2>3
  <1>4. Ids' = Ids
    BY SameLog
  <1> QED
    BY <1>2, <1>3, <1>4 DEF ViewTyped

\* Whatever is told, and whoever hears it, the store stays as it is.
LEMMA Told ==
    ASSUME ChatInv, NEW e \in Changes, Tells(e), UNCHANGED <<store, view, status, timer>>
    PROVE  /\ LogTyped' /\ SocketTyped' /\ ViewTyped' /\ SendsTyped'
           /\ unfurls' \subseteq Unfurls'
  <1>1. LogTyped' /\ log' = log /\ Unfurls' = Unfurls /\ Growth
    BY SameLog DEF ChatInv, LogTyped, store, Ids
  <1>2. ViewTyped'
    BY Overtaken DEF ChatInv, Tells, Tell, TellNobody, Miss, MissAll, store
  <1>3. budget'.says = budget.says /\ DOMAIN budget' = DOMAIN budget
    BY Spent DEF ChatInv, Tells, TellNobody, Bounds
  <1>4. SendsTyped'
    BY <1>1, <1>3, Unaffected DEF ChatInv
  <1>5. ASSUME Follow(e) PROVE unfurls' \subseteq Unfurls
    <2>1. CASE e.op # "deleted" /\ unfurls' = unfurls \cup
                  {[id |-> e.id, content |-> e.content, at |-> "looking", link |-> None]}
      <3>1. e.id \in Ids /\ e.content \in Contents
        BY <2>1 DEF Changes
      <3>2. None \in Links
        BY ChatAssumption DEF Links
      <3> QED
        BY <2>1, <3>1, <3>2 DEF ChatInv, TasksTyped, Unfurls
    <2>2. CASE unfurls' = unfurls
      BY <2>2 DEF ChatInv, TasksTyped
    <2> QED
      BY <1>5, <2>1, <2>2 DEF Follow, Unfurl
  <1>6. unfurls' \subseteq Unfurls
    BY <1>5 DEF ChatInv, TasksTyped, Tells, Tell, TellNobody
  <1>7. SocketTyped'
    <2>1. CASE UNCHANGED socket
      BY <1>1, <2>1, Unaffected DEF ChatInv
    <2>2. CASE Tell(e)
      <3>1. e \in Events
        BY DEF Events
      <3> QED
        BY <1>1, <2>2, <3>1, Queued DEF ChatInv, Tell
    <2> QED
      BY <2>1, <2>2 DEF Tells, TellNobody
  <1> QED
    BY <1>1, <1>2, <1>4, <1>6, <1>7

\* A handler tells its change, its connection there or not.
LEMMA TellChangeTyped ==
    ASSUME ChatInv, NEW d \in Devices, TellChange(d) PROVE ChatInv'
  <1>1. handler[d] \in Changes
    BY DEF ChatInv, TasksTyped, TellChange
  <1>2. /\ LogTyped' /\ SocketTyped' /\ ViewTyped' /\ SendsTyped'
        /\ unfurls' \subseteq Unfurls'
    BY <1>1, Told DEF TellChange
  <1>3. Changes' = Changes
    BY SameLog DEF ChatInv, TellChange, store
  <1>4. TasksTyped'
    BY <1>2, <1>3 DEF TellChange, ChatInv, TasksTyped
  <1> QED
    BY <1>2, <1>4 DEF ChatInv

\* A handler whose connection is gone tells its change.
LEMMA TellOrphanTyped ==
    ASSUME ChatInv, TellOrphan PROVE ChatInv'
  <1>1. PICK e \in orphans : Tells(e) /\ orphans' = orphans \ {e}
    BY DEF TellOrphan
  <1>2. e \in Changes
    BY DEF ChatInv, TasksTyped
  <1>3. /\ LogTyped' /\ SocketTyped' /\ ViewTyped' /\ SendsTyped'
        /\ unfurls' \subseteq Unfurls'
    BY <1>1, <1>2, Told DEF TellOrphan
  <1>4. Changes' = Changes
    BY SameLog DEF ChatInv, TellOrphan, store
  <1>5. TasksTyped'
    BY <1>1, <1>3, <1>4 DEF TellOrphan, ChatInv, TasksTyped
  <1> QED
    BY <1>3, <1>5 DEF ChatInv

-----------------------------------------------------------------------------
(* The handlers. *)

\* A message inserted has the next id, and may be told.
LEMMA Inserted ==
    ASSUME LogTyped, NEW request \in Requests \cup {None}, NEW user \in People,
           NEW content \in Contents, Insert(request, user, content)
    PROVE  /\ log' \in Seq(Rows) /\ preview' \in Seq(Links) /\ Len(preview') = Len(log')
           /\ Growth /\ Ids' = Ids \cup {Len(log) + 1}
           /\ \A to \in People \cup {"all"} :
                 Created(Len(log) + 1, request, content, to) \in Changes'
  <1> DEFINE row == [request |-> request, user |-> user, content |-> content,
                     deleted |-> FALSE]
  <1>1. row \in Rows /\ log' = Append(log, row)
    BY DEF Rows, Insert
  <1> HIDE DEF row
  <1>2. /\ log' \in Seq(Rows) /\ Growth /\ Ids' = Ids \cup {Len(log) + 1}
        /\ Len(log') = Len(log) + 1 /\ log'[Len(log) + 1] = row
    BY <1>1, RowAdded
  <1>3. preview' \in Seq(Links) /\ Len(preview') = Len(log')
    <2>1. None \in Links
      BY ChatAssumption DEF Links
    <2> QED
      BY <1>2, <2>1 DEF LogTyped, Insert
  <1>4. ASSUME NEW to \in People \cup {"all"}
        PROVE  Created(Len(log) + 1, request, content, to) \in Changes'
    <2>1. log'[Len(log) + 1].request = request /\ Len(log) + 1 \in Ids'
      BY <1>2 DEF row
    <2> QED
      BY <2>1 DEF Created, Changes
  <1> QED
    BY <1>2, <1>3, <1>4

\* create_message stores the row and takes the files.
LEMMA CreateNewTyped ==
    ASSUME ChatInv, NEW d \in Devices, CreateNew(d) PROVE ChatInv'
  <1> DEFINE r == Frame(d).request
             c == Frame(d).content
  <1>1. r \in Requests /\ c \in Contents /\ socket[d].in # <<>>
    BY FrameTyped DEF ChatInv, CreateNew
  <1>2. User[d] \in People /\ "all" \in People \cup {"all"}
    BY DEF People
  <1>3. /\ log' \in Seq(Rows) /\ preview' \in Seq(Links) /\ Len(preview') = Len(log')
        /\ Growth /\ Ids' = Ids \cup {Len(log) + 1}
        /\ Created(Len(log) + 1, r, c, "all") \in Changes'
    BY <1>1, <1>2, Inserted DEF ChatInv, CreateNew
  <1>4. LogTyped'
    <2>1. owner' \in [Files -> Ids' \cup {None, Removed}]
      BY <1>3 DEF CreateNew, ChatInv, LogTyped
    <2> QED
      BY <1>3, <2>1 DEF LogTyped
  <1>5. TasksTyped'
    BY <1>3, Grown DEF CreateNew, ChatInv, TasksTyped
  <1>6. SocketTyped'
    <2>1. <<>> \in Seq(Events')
      OBVIOUS
    <2> QED
      BY <1>1, <1>3, <2>1, Replied DEF CreateNew, ChatInv
  <1>7. ViewTyped' /\ SendsTyped'
    BY <1>3, Unaffected DEF CreateNew, ChatInv, client
  <1> QED
    BY <1>4, <1>5, <1>6, <1>7 DEF ChatInv

\* A handler that stores nothing: it refuses, fails, or answers a retry.
LEMMA AnsweredTyped ==
    ASSUME ChatInv, NEW d \in Devices, UNCHANGED <<store, orphans, unfurls, client>>,
           handler' = handler \/ \E e \in Changes : handler' = [handler EXCEPT ![d] = e],
           socket[d].in # <<>>, NEW replies \in Seq(Events), Reply(d, replies),
           budget'.says = budget.says /\ DOMAIN budget' = DOMAIN budget
    PROVE  ChatInv'
  <1>1. Growth /\ Changes' = Changes /\ Events' = Events /\ Unfurls' = Unfurls
    BY SameLog DEF ChatInv, store
  <1>2. LogTyped'
    BY DEF ChatInv, LogTyped, store, Ids
  <1>3. TasksTyped'
    BY <1>1 DEF ChatInv, TasksTyped
  <1>4. SocketTyped'
    BY <1>1, Replied DEF ChatInv
  <1>5. ViewTyped' /\ SendsTyped'
    BY <1>1, Unaffected DEF ChatInv, client
  <1> QED
    BY <1>2, <1>3, <1>4, <1>5 DEF ChatInv

\* No reply is a reply.
LEMMA NoReply == <<>> \in Seq(Events)
  OBVIOUS

\* create_message of a request there is answers with its row.
LEMMA CreateAgainTyped ==
    ASSUME ChatInv, NEW d \in Devices, CreateAgain(d) PROVE ChatInv'
  <1>1. /\ Handles(d, "create") /\ Frame(d).request \in Requests /\ socket[d].in # <<>>
        /\ Reply(d, <<>>)
    BY FrameTyped DEF ChatInv, CreateAgain
  <1>2. PICK id \in Existing(Frame(d).request) :
           handler' = [handler EXCEPT ![d] =
                          Created(id, Frame(d).request, log[id].content, User[d])]
    BY DEF CreateAgain
  <1>3. id \in Ids /\ log[id].request = Frame(d).request /\ log[id] \in Rows
    BY DEF Existing, Ids, ChatInv, LogTyped
  <1>4. Created(id, Frame(d).request, log[id].content, User[d]) \in Changes
    BY <1>1, <1>3 DEF Created, Changes, Rows, People
  <1>5. UNCHANGED <<store, orphans, unfurls, client, budget>>
    BY DEF CreateAgain
  <1> QED
    BY <1>1, <1>2, <1>4, <1>5, NoReply, AnsweredTyped

\* A frame that is refused, or whose transaction fails.
LEMMA RefusesTyped ==
    ASSUME ChatInv, NEW d \in Devices, RefuseFiles(d) \/ CreateFails(d) \/ ChangeFails(d)
    PROVE  ChatInv'
  <1>1. PICK op \in {"create", "edit", "delete"} : Handles(d, op)
    BY DEF RefuseFiles, CreateFails, ChangeFails
  <1>2. socket[d].in # <<>> /\ (op = "create" => Frame(d).request \in Requests)
    BY <1>1, FrameTyped DEF ChatInv
  <1>3. PICK replies : replies \in Seq(Events) /\ Reply(d, replies)
    <2>1. CASE RefuseFiles(d) \/ CreateFails(d)
      <3>1. Frame(d).request \in Requests /\ Reply(d, Refusal(Frame(d).request))
        BY <2>1, FrameTyped DEF RefuseFiles, CreateFails, ChatInv
      <3> QED
        BY <3>1, Refused
    <2>2. CASE ChangeFails(d)
      BY <2>2, NoReply DEF ChangeFails
    <2> QED
      BY <2>1, <2>2
  <1>4. budget'.says = budget.says /\ DOMAIN budget' = DOMAIN budget
    BY Spent DEF ChatInv, RefuseFiles, CreateFails, ChangeFails, Bounds
  <1>5. UNCHANGED <<store, tasks, client>>
    BY DEF RefuseFiles, CreateFails, ChangeFails
  <1> QED
    BY <1>2, <1>3, <1>4, <1>5, AnsweredTyped DEF tasks

\* An edit or a deletion of a row of one's own, and its refusal.
LEMMA ChangeTyped ==
    ASSUME ChatInv, NEW d \in Devices, HandleEdit(d) \/ HandleDelete(d) PROVE ChatInv'
  <1> DEFINE id == Frame(d).id
  <1>1. id \in Ids /\ socket[d].in # <<>> /\ (HandleEdit(d) => Frame(d).content \in Contents)
    BY FrameTyped DEF ChatInv, HandleEdit, HandleDelete
  <1>2. /\ UNCHANGED <<owner, disk, cleanup, preview, orphans, unfurls, client, budget>>
    BY DEF HandleEdit, HandleDelete
  <1>3. CASE ~Mine(d, id)
    <2>1. UNCHANGED <<log, handler>> /\ Reply(d, Refusal(None))
      BY <1>3 DEF HandleEdit, HandleDelete
    <2>2. Refusal(None) \in Seq(Events)
      BY Refused
    <2> QED
      BY <1>1, <1>2, <2>1, <2>2, AnsweredTyped DEF store
  <1>4. CASE Mine(d, id)
    <2>1. PICK row \in Rows : row.request = log[id].request /\ log' = [log EXCEPT ![id] = row]
      <3>1. log[id] \in Rows /\ log \in Seq(Rows) /\ id \in DOMAIN log
        BY <1>1 DEF ChatInv, LogTyped, Ids
      <3>2. CASE HandleEdit(d)
        <4>1. log' = [log EXCEPT ![id] = [log[id] EXCEPT !.content = Frame(d).content]]
          BY <1>4, <3>2 DEF HandleEdit
        <4>2. /\ [log[id] EXCEPT !.content = Frame(d).content] \in Rows
              /\ [log[id] EXCEPT !.content = Frame(d).content].request = log[id].request
          BY <1>1, <3>1, <3>2 DEF Rows
        <4> QED
          BY <4>1, <4>2
      <3>3. CASE HandleDelete(d)
        <4>1. log' = [log EXCEPT ![id] = [log[id] EXCEPT !.deleted = TRUE]]
          BY <1>4, <3>3 DEF HandleDelete
        <4>2. /\ [log[id] EXCEPT !.deleted = TRUE] \in Rows
              /\ [log[id] EXCEPT !.deleted = TRUE].request = log[id].request
          BY <3>1 DEF Rows
        <4> QED
          BY <4>1, <4>2
      <3> QED
        BY <3>2, <3>3
    <2>2. log' \in Seq(Rows) /\ Growth /\ Ids' = Ids /\ Len(log') = Len(log)
      BY <1>1, <2>1, RowChanged DEF ChatInv
    <2>3. LogTyped'
      BY <1>2, <2>2 DEF ChatInv, LogTyped
    <2>4. PICK e \in Changes' : handler' = [handler EXCEPT ![d] = e]
      <3>1. CASE HandleEdit(d)
        <4>1. handler' = [handler EXCEPT ![d] =
                 [op |-> "edited", id |-> id, content |-> Frame(d).content, to |-> "all"]]
          BY <1>4, <3>1 DEF HandleEdit
        <4>2. [op |-> "edited", id |-> id, content |-> Frame(d).content, to |-> "all"] \in Changes'
          BY <1>1, <2>2, <3>1 DEF Changes
        <4> QED
          BY <4>1, <4>2
      <3>2. CASE HandleDelete(d)
        <4>1. handler' = [handler EXCEPT ![d] = [op |-> "deleted", id |-> id, to |-> "all"]]
          BY <1>4, <3>2 DEF HandleDelete
        <4>2. [op |-> "deleted", id |-> id, to |-> "all"] \in Changes'
          BY <1>1, <2>2 DEF Changes
        <4> QED
          BY <4>1, <4>2
      <3> QED
        BY <3>1, <3>2
    <2>5. TasksTyped'
      BY <1>2, <2>2, <2>4, Grown DEF ChatInv, TasksTyped
    <2>6. SocketTyped'
      <3>1. Reply(d, <<>>)
        BY <1>4 DEF HandleEdit, HandleDelete
      <3>2. <<>> \in Seq(Events')
        OBVIOUS
      <3> QED
        BY <1>1, <2>2, <3>1, <3>2, Replied DEF ChatInv
    <2>7. ViewTyped' /\ SendsTyped'
      BY <1>2, <2>2, Unaffected DEF ChatInv, client
    <2> QED
      BY <2>3, <2>5, <2>6, <2>7 DEF ChatInv
  <1> QED
    BY <1>3, <1>4

\* The bot posts its card.
LEMMA PostCardTyped ==
    ASSUME ChatInv, PostCard PROVE ChatInv'
  <1>1. "bot" \in People /\ "card" \in Contents /\ "all" \in People \cup {"all"}
    BY ChatAssumption DEF People
  <1>2. /\ log' \in Seq(Rows) /\ preview' \in Seq(Links) /\ Len(preview') = Len(log')
        /\ Growth /\ Ids' = Ids \cup {Len(log) + 1}
        /\ Created(Len(log) + 1, None, "card", "all") \in Changes'
    BY <1>1, Inserted DEF ChatInv, PostCard
  <1>3. LogTyped'
    BY <1>2 DEF PostCard, ChatInv, LogTyped
  <1>4. TasksTyped'
    BY <1>2, Grown DEF PostCard, ChatInv, TasksTyped
  <1>5. budget'.says = budget.says /\ DOMAIN budget' = DOMAIN budget
    BY Spent DEF PostCard, ChatInv, Bounds
  <1>6. SocketTyped' /\ ViewTyped' /\ SendsTyped'
    BY <1>2, <1>5, Unaffected DEF PostCard, ChatInv, client
  <1> QED
    BY <1>3, <1>4, <1>6 DEF ChatInv

-----------------------------------------------------------------------------
(* The tasks. *)

\* What leaves the log alone, and may spend the budget.
LEMMA LogKept ==
    ASSUME ChatInv, UNCHANGED <<log, preview>>, owner' \in [Files -> Ids \cup {None, Removed}],
           budget'.says = budget.says /\ DOMAIN budget' = DOMAIN budget
    PROVE  /\ LogTyped' /\ Growth
           /\ UNCHANGED tasks => TasksTyped'
           /\ UNCHANGED socket => SocketTyped'
           /\ UNCHANGED <<view, loads>> => ViewTyped'
           /\ UNCHANGED <<status, timer>> => SendsTyped'
  <1>1. Growth /\ Ids' = Ids
    BY SameLog DEF ChatInv
  <1>2. LogTyped'
    BY <1>1 DEF ChatInv, LogTyped
  <1> QED
    BY <1>1, <1>2, Unaffected DEF ChatInv

\* What changes no row leaves the rows as they are.
LEMMA StoreKept ==
    ASSUME ChatInv, UNCHANGED <<log, owner, preview>>,
           budget'.says = budget.says /\ DOMAIN budget' = DOMAIN budget
    PROVE  /\ LogTyped' /\ Growth
           /\ UNCHANGED tasks => TasksTyped'
           /\ UNCHANGED socket => SocketTyped'
           /\ UNCHANGED <<view, loads>> => ViewTyped'
           /\ UNCHANGED <<status, timer>> => SendsTyped'
  <1>1. owner' \in [Files -> Ids \cup {None, Removed}]
    BY DEF ChatInv, LogTyped
  <1> QED
    BY <1>1, LogKept

\* The steps of a task that looks a link up.
LEMMA UnfurlTyped ==
    ASSUME ChatInv, UnfurlStep PROVE ChatInv'
  <1>1. PICK t \in unfurls :
           \/ /\ StorePreview(t) \/ RemovePreview(t) \/ GiveUpPreview(t)
              /\ UNCHANGED <<socket, missed, loads>>
              /\ UNCHANGED <<log, owner, disk, cleanup, handler, orphans, view>>
              /\ UNCHANGED <<status, timer, budget>>
           \/ /\ (TellPreview(t) /\ UNCHANGED budget) \/ TellPreviewToNobody(t)
              /\ UNCHANGED <<store, handler, orphans, view, status, timer, excused>>
    BY DEF UnfurlStep
  <1>2. t \in Unfurls /\ t.id \in Ids /\ t.content \in Contents /\ t.link \in Links
    BY DEF ChatInv, TasksTyped, Unfurls
  <1>3. log' = log /\ Growth /\ Changes' = Changes /\ Unfurls' = Unfurls /\ Ids' = Ids
    BY <1>1, SameLog DEF ChatInv, store
  <1>4. budget'.says = budget.says /\ DOMAIN budget' = DOMAIN budget
    BY <1>1, Spent DEF ChatInv, TellPreviewToNobody, Bounds
  <1>5. None \in Links /\ Link[t.content] \in Links
    BY <1>2, ChatAssumption DEF Links
  <1>6. LogTyped'
    <2>1. preview' \in Seq(Links) /\ Len(preview') = Len(log)
      <3>1. CASE \E link \in Links : preview' = [preview EXCEPT ![t.id] = link]
        <4>1. /\ log \in Seq(Rows) /\ Ids = 1..Len(log)
              /\ preview \in Seq(Links) /\ Len(preview) = Len(log)
          BY DEF ChatInv, LogTyped, Ids
        <4>2. t.id \in 1..Len(preview)
          BY <1>2, <4>1
        <4> QED
          BY <3>1, <4>1, <4>2
      <3>2. CASE preview' = preview
        BY <3>2 DEF ChatInv, LogTyped
      <3>3. CASE StorePreview(t)
        BY <1>5, <3>1, <3>3 DEF StorePreview, SetPreview
      <3>4. CASE RemovePreview(t)
        BY <1>5, <3>1, <3>4 DEF RemovePreview, SetPreview
      <3>5. CASE GiveUpPreview(t)
        BY <3>2, <3>5 DEF GiveUpPreview
      <3> QED
        BY <1>1, <3>2, <3>3, <3>4, <3>5 DEF store
    <2>2. owner' = owner
      BY <1>1 DEF store
    <2> QED
      BY <1>3, <2>1, <2>2 DEF ChatInv, LogTyped
  <1>7. TasksTyped'
    <2>1. \A link \in Links : [t EXCEPT !.at = "telling", !.link = link] \in Unfurls
      BY <1>2 DEF Unfurls
    <2>2. unfurls' \subseteq Unfurls
      <3>1. CASE StorePreview(t)
        BY <1>5, <2>1, <3>1 DEF StorePreview, Turn, ChatInv, TasksTyped
      <3>2. CASE RemovePreview(t)
        BY <1>5, <2>1, <3>2 DEF RemovePreview, Turn, ChatInv, TasksTyped
      <3>3. CASE GiveUpPreview(t) \/ TellPreview(t) \/ TellPreviewToNobody(t)
        BY <3>3 DEF GiveUpPreview, TellPreview, TellPreviewToNobody, ChatInv,
           TasksTyped
      <3> QED
        BY <1>1, <3>1, <3>2, <3>3
    <2> QED
      BY <1>1, <1>3, <2>2 DEF ChatInv, TasksTyped
  <1>8. SocketTyped'
    <2>1. CASE TellPreview(t)
      <3>1. [op |-> "preview", id |-> t.id, link |-> t.link] \in Events
        BY <1>2 DEF Events
      <3> QED
        BY <1>3, <2>1, <3>1, Queued DEF ChatInv, TellPreview
    <2>2. CASE socket' = socket
      BY <1>3, <2>2, Unaffected DEF ChatInv
    <2> QED
      BY <1>1, <2>1, <2>2 DEF TellPreviewToNobody
  <1>9. ViewTyped'
    <2>1. CASE loads' = loads
      BY <1>1, <1>3, <2>1, Unaffected DEF ChatInv
    <2>2. CASE Overtake
      BY <1>1, <1>3, <2>2, Overtaken DEF ChatInv
    <2> QED
      BY <1>1, <2>1, <2>2 DEF TellPreview, TellPreviewToNobody, Miss, MissAll
  <1>10. SendsTyped'
    BY <1>1, <1>3, <1>4, Unaffected DEF ChatInv
  <1> QED
    BY <1>6, <1>7, <1>8, <1>9, <1>10 DEF ChatInv

\* The cleanup moves owners only from None to Removed.
LEMMA CleanupTyped ==
    ASSUME ChatInv, ScanUnattached \/ Cleanup PROVE ChatInv'
  <1>1. UNCHANGED <<log, preview, tasks, socket, client>>
    BY DEF ScanUnattached, Cleanup, DeleteUnattached, RemoveFile
  <1>2. budget'.says = budget.says /\ DOMAIN budget' = DOMAIN budget
    BY Spent DEF ChatInv, ScanUnattached, Cleanup, DeleteUnattached, RemoveFile,
       Bounds
  <1>3. owner' \in [Files -> Ids \cup {None, Removed}]
    BY DEF ScanUnattached, Cleanup, DeleteUnattached, RemoveFile, ChatInv,
       LogTyped
  <1> QED
    BY <1>1, <1>2, <1>3, LogKept DEF ChatInv, client

-----------------------------------------------------------------------------
(* The windows. *)

\* A message is submitted, or sent again.
LEMMA SendTyped ==
    ASSUME ChatInv, NEW r \in Requests, SubmitMessage(r) \/ RetryMessage(r)
    PROVE  ChatInv'
  <1>1. SendOptimistic(r) /\ (status[r] = "unsent" \/ status[r] = "failed")
    BY DEF SubmitMessage, RetryMessage
  <1>2. r \in DOMAIN budget.says /\ budget.says[r] \in Contents
    BY DEF SubmitMessage, RetryMessage, ChatInv, SendsTyped
  <1>3. budget'.says = budget.says /\ DOMAIN budget' = DOMAIN budget
    BY Spent DEF ChatInv, SubmitMessage, RetryMessage, Bounds
  <1>4. UNCHANGED <<store, tasks, view, loads>>
    BY <1>1 DEF SendOptimistic
  <1>5. LogTyped' /\ TasksTyped' /\ ViewTyped' /\ Growth
    BY <1>3, <1>4, StoreKept DEF store
  <1>6. SocketTyped'
    <2>1. CASE Send(Sender[r], [op |-> "create", request |-> r, content |-> budget.says[r]])
      <3>1. /\ [op |-> "create", request |-> r, content |-> budget.says[r]] \in Frames
            /\ Sender[r] \in Devices
        BY <1>2, ChatAssumption DEF Frames
      <3> QED
        BY <1>4, <2>1, <3>1, Sent DEF ChatInv, store
    <2>2. CASE socket' = socket
      BY <1>5, <2>2, Unaffected DEF ChatInv
    <2> QED
      BY <1>1, <2>1, <2>2 DEF SendOptimistic
  <1>7. SendsTyped'
    <2>1. \/ status' = [status EXCEPT ![r] = "pending"] /\ timer' = timer \cup {r}
          \/ status' = [status EXCEPT ![r] = "failed"] /\ timer' = timer
      BY <1>1 DEF SendOptimistic
    <2> QED
      BY <1>2, <1>3, <2>1 DEF ChatInv, SendsTyped, Statuses
  <1> QED
    BY <1>5, <1>6, <1>7 DEF ChatInv

\* A client asks for an edit or a deletion.
LEMMA AskTyped ==
    ASSUME ChatInv, NEW d \in Devices, NEW id \in DOMAIN view[d].shown,
           \/ DeleteMessage(d, id)
           \/ \E content \in Contents \ {"card"} : EditMessage(d, id, content)
    PROVE  ChatInv'
  <1>1. id \in Ids
    BY DEF ChatInv, ViewTyped
  <1>2. PICK frame \in Frames : Send(d, frame)
    BY <1>1 DEF DeleteMessage, EditMessage, Frames
  <1>3. UNCHANGED <<store, tasks, client>>
    BY DEF DeleteMessage, EditMessage
  <1>4. budget'.says = budget.says /\ DOMAIN budget' = DOMAIN budget
    BY Spent DEF ChatInv, DeleteMessage, EditMessage, Bounds
  <1>5. SocketTyped'
    BY <1>2, <1>3, Sent DEF ChatInv, store
  <1> QED
    BY <1>3, <1>4, <1>5, StoreKept DEF ChatInv, store, client

\* A message is given up, by its user or by its timer.
LEMMA CancelTyped ==
    ASSUME ChatInv, NEW r \in Requests, CancelMessage(r) \/ TimerFires(r) PROVE ChatInv'
  <1>1. UNCHANGED <<store, tasks, socket, view, loads, budget>>
    BY DEF CancelMessage, TimerFires
  <1>2. /\ timer' = timer \ {r}
        /\ status' = status \/ \E s \in {"cancelled", "failed"} :
              status' = [status EXCEPT ![r] = s] /\ status[r] \in {"pending", "failed"}
    <2>1. CASE CancelMessage(r)
      BY <2>1 DEF CancelMessage
    <2>2. CASE TimerFires(r)
      <3>1. CASE Open(Sender[r]) /\ status[r] = "pending"
        BY <2>2, <3>1 DEF TimerFires
      <3>2. CASE ~(Open(Sender[r]) /\ status[r] = "pending")
        BY <2>2, <3>2 DEF TimerFires, ChatInv, SendsTyped
      <3> QED
        BY <3>1, <3>2
    <2> QED
      BY <2>1, <2>2
  <1>3. SendsTyped'
    BY <1>1, <1>2 DEF ChatInv, SendsTyped, Statuses
  <1> QED
    BY <1>1, <1>3, StoreKept DEF ChatInv, store

\* A window opens or leaves the channel.
LEMMA VisitTyped ==
    ASSUME ChatInv, NEW d \in Devices, LeaveChannel(d) \/ ChooseChannel(d) PROVE ChatInv'
  <1>1. UNCHANGED <<store, tasks, socket, status, timer>>
    BY DEF LeaveChannel, ChooseChannel
  <1>2. budget'.says = budget.says /\ DOMAIN budget' = DOMAIN budget
    BY Spent DEF ChatInv, LeaveChannel, ChooseChannel, Bounds
  <1>3. Ids' = Ids
    BY <1>1, SameLog DEF ChatInv, store
  <1>4. PICK b \in BOOLEAN : view' = [view EXCEPT ![d].open = b]
    BY DEF LeaveChannel, ChooseChannel
  <1>5. /\ view' = [c \in Devices |-> [open |-> view'[c].open, shown |-> view'[c].shown]]
        /\ \A c \in Devices : view'[c].shown = view[c].shown
    BY <1>4 DEF ChatInv, ViewTyped
  <1>6. \/ loads' = loads
        \/ loads' = [loads EXCEPT ![d] =
              @ \cup {[at |-> "asked", dirty |-> FALSE, page |-> <<>>]}]
    BY DEF LeaveChannel, ChooseChannel
  <1>7. DOMAIN <<>> \subseteq Ids
    OBVIOUS
  <1>8. ViewTyped'
    BY <1>3, <1>5, <1>6, <1>7 DEF ChatInv, ViewTyped
  <1> QED
    BY <1>1, <1>2, <1>8, StoreKept DEF ChatInv, store

\* A load of history goes on to another of its steps, or ends.
LEMMA LoadStepped ==
    ASSUME ViewTyped, LogTyped, UNCHANGED log, NEW d \in Devices, NEW l \in loads[d], NEW next,
           \A k \in next : /\ k = [at |-> k.at, dirty |-> k.dirty, page |-> k.page]
                           /\ DOMAIN k.page \subseteq Ids,
           HistoryStep(d, l, next),
           view' = [c \in Devices |-> [open |-> view'[c].open, shown |-> view'[c].shown]],
           \A c \in Devices : DOMAIN view'[c].shown \subseteq Ids
    PROVE  ViewTyped'
  <1>1. Ids' = Ids
    BY SameLog
  <1>2. loads' = [c \in Devices |-> IF c = d THEN (loads[d] \ {l}) \cup next ELSE loads[c]]
    BY DEF HistoryStep, ViewTyped
  <1>3. \A c \in Devices : loads'[c] \subseteq loads[c] \cup next
    BY <1>2
  <1> QED
    BY <1>1, <1>2, <1>3 DEF ViewTyped

\* The steps of a load: asked, read, shown.
LEMMA HistoryTyped ==
    ASSUME ChatInv, NEW d \in Devices, LoadHistory(d) \/ HistoryFails(d) PROVE ChatInv'
  <1>1. UNCHANGED <<store, tasks, socket, timer>>
    BY DEF LoadHistory, HistoryFails
  <1>2. budget'.says = budget.says /\ DOMAIN budget' = DOMAIN budget
    BY Spent DEF ChatInv, LoadHistory, HistoryFails, Bounds
  <1>3. PICK l \in loads[d] :
           \/ ReadRows(d, l) \/ ReadPreviews(d, l) \/ ShowPage(d, l)
           \/ HistoryStep(d, l, {}) /\ UNCHANGED <<view, status>>
    BY DEF LoadHistory, HistoryFails
  <1>4. DOMAIN l.page \subseteq Ids
    BY DEF ChatInv, ViewTyped
  <1>5. /\ view = [c \in Devices |-> [open |-> view[c].open, shown |-> view[c].shown]]
        /\ \A c \in Devices : DOMAIN view[c].shown \subseteq Ids
    BY DEF ChatInv, ViewTyped
  <1>6. ViewTyped'
    <2>1. CASE HistoryStep(d, l, {}) /\ view' = view
      BY <1>1, <1>5, <2>1, LoadStepped DEF ChatInv, store
    <2>2. CASE ReadRows(d, l)
      <3> DEFINE k == [at |-> "rows", dirty |-> missed[d] # {} /\ socket[d].out # <<>>,
                       page |-> [id \in Live |-> log[id].content]]
      <3>1. HistoryStep(d, l, {k}) /\ view' = view
        BY <2>2 DEF ReadRows
      <3>2. DOMAIN k.page \subseteq Ids
        BY DEF Live, Ids
      <3> QED
        BY <1>1, <1>5, <3>1, <3>2, LoadStepped DEF ChatInv, store
    <2>3. CASE ReadPreviews(d, l)
      <3> DEFINE k == [at |-> "page", dirty |-> l.dirty,
             page |-> [id \in DOMAIN l.page |-> [content |-> l.page[id], link |-> preview[id]]]]
      <3>1. HistoryStep(d, l, {k}) /\ view' = view
        BY <2>3 DEF ReadPreviews
      <3>2. DOMAIN k.page \subseteq Ids
        BY <1>4
      <3> QED
        BY <1>1, <1>5, <3>1, <3>2, LoadStepped DEF ChatInv, store
    <2>4. CASE ShowPage(d, l)
      <3>1. HistoryStep(d, l, {}) /\ view' = [view EXCEPT ![d].shown = l.page]
        BY <2>4 DEF ShowPage
      <3>2. view' = [c \in Devices |-> [open |-> view[c].open,
                                        shown |-> IF c = d THEN l.page ELSE view[c].shown]]
        BY <1>5, <3>1
      <3>3. \A c \in Devices : /\ view'[c].open = view[c].open
                               /\ view'[c].shown = IF c = d THEN l.page ELSE view[c].shown
        BY <3>2
      <3>4. view' = [c \in Devices |-> [open |-> view'[c].open, shown |-> view'[c].shown]]
        BY <3>2, <3>3
      <3> QED
        BY <1>1, <1>4, <1>5, <3>1, <3>3, <3>4, LoadStepped DEF ChatInv, store
    <2> QED
      BY <1>3, <2>1, <2>2, <2>3, <2>4
  <1>7. SendsTyped'
    <2>1. \/ status' = status
          \/ status' = [r \in Requests |-> IF Sender[r] = d /\ status[r] \in {"pending", "failed"}
                                           THEN "forgotten" ELSE status[r]]
      BY <1>3 DEF ReadRows, ReadPreviews, ShowPage
    <2> QED
      BY <1>1, <1>2, <2>1 DEF ChatInv, SendsTyped, Statuses
  <1> QED
    BY <1>1, <1>2, <1>6, <1>7, StoreKept DEF ChatInv, store

\* What each event does to a window.
LEMMA ReceiveTyped ==
    ASSUME ChatInv, NEW d \in Devices, Receive(d) PROVE ChatInv'
  <1> DEFINE e == socket[d].out[1]
  <1>1. UNCHANGED <<store, tasks, loads, budget>> /\ socket[d].out # <<>>
    BY DEF Receive
  <1>2. socket[d] \in [up : BOOLEAN, in : Seq(Frames), out : Seq(Events)]
    BY DEF ChatInv, SocketTyped
  <1>3. e \in Events
    BY <1>1, <1>2
  <1>4. Ids' = Ids /\ Events' = Events /\ Frames' = Frames
    BY <1>1, SameLog DEF ChatInv, store
  <1>5. SocketTyped'
    <2>1. socket' = [socket EXCEPT ![d].out = Tail(@)]
      BY DEF Receive
    <2>2. Tail(socket[d].out) \in Seq(Events)
      BY <1>1, <1>2
    <2> QED
      BY <1>4, <2>1, <2>2 DEF ChatInv, SocketTyped
  <1>6. \/ e.op = "created" /\ ShowCreated(d, e)
        \/ e.op \in {"edited", "preview", "deleted"} /\ ShowChange(d, e)
        \/ e.op = "error" /\ ShowError(d, e.request)
        \/ UNCHANGED <<view, status, timer>>
    BY DEF Receive
  <1>7. \/ view' = view
        \/ \E shown : view' = [view EXCEPT ![d].shown = shown] /\ DOMAIN shown \subseteq Ids
    <2>1. DOMAIN view[d].shown \subseteq Ids
      BY DEF ChatInv, ViewTyped
    <2>2. CASE e.op = "created" /\ ShowCreated(d, e)
      <3>1. e.id \in Ids
        BY <1>3, <2>2 DEF Events, Changes
      <3>2. \A entry : DOMAIN With(view[d].shown, e.id, entry) \subseteq Ids
        BY <2>1, <3>1 DEF With
      <3> QED
        BY <2>2, <3>2 DEF ShowCreated
    <2>3. CASE e.op \in {"edited", "preview", "deleted"} /\ ShowChange(d, e)
      <3>1. CASE e.id \notin DOMAIN view[d].shown
        BY <2>3, <3>1 DEF ShowChange
      <3>2. CASE e.id \in DOMAIN view[d].shown
        <4> DEFINE s == CASE e.op = "edited"  -> [view[d].shown EXCEPT ![e.id].content = e.content]
                          [] e.op = "preview" -> [view[d].shown EXCEPT ![e.id].link = e.link]
                          [] e.op = "deleted" -> Without(view[d].shown, e.id)
        <4>1. view' = [view EXCEPT ![d].shown = s]
          BY <2>3, <3>2 DEF ShowChange
        <4>2. DOMAIN s \subseteq DOMAIN view[d].shown
          BY <2>3 DEF Without
        <4> QED
          BY <2>1, <4>1, <4>2
      <3> QED
        BY <3>1, <3>2
    <2>4. CASE e.op = "error" /\ ShowError(d, e.request)
      BY <2>4 DEF ShowError
    <2> QED
      BY <1>6, <2>2, <2>3, <2>4
  <1>8. ViewTyped'
    <2>1. CASE view' = view
      BY <1>1, <1>4, <2>1 DEF ChatInv, ViewTyped
    <2>2. ASSUME NEW shown, view' = [view EXCEPT ![d].shown = shown], DOMAIN shown \subseteq Ids
          PROVE  ViewTyped'
      <3>1. view = [c \in Devices |-> [open |-> view[c].open, shown |-> view[c].shown]]
        BY DEF ChatInv, ViewTyped
      <3>2. view' = [c \in Devices |-> [open |-> view[c].open,
                                        shown |-> IF c = d THEN shown ELSE view[c].shown]]
        BY <2>2, <3>1
      <3>3. \A c \in Devices : /\ view'[c].open = view[c].open
                               /\ view'[c].shown = IF c = d THEN shown ELSE view[c].shown
        BY <3>2
      <3>4. view' = [c \in Devices |-> [open |-> view'[c].open, shown |-> view'[c].shown]]
        BY <3>2, <3>3
      <3> QED
        BY <1>1, <1>4, <2>2, <3>3, <3>4 DEF ChatInv, ViewTyped
    <2> QED
      BY <1>7, <2>1, <2>2
  <1>9. /\ timer' \subseteq timer
        /\ status' = status \/ \E r \in Requests, s \in {"confirmed", "failed"} :
              status' = [status EXCEPT ![r] = s] /\ status[r] \in {"pending", "failed"}
    <2>1. CASE e.op = "created" /\ ShowCreated(d, e)
      <3>1. e.request \in Requests \cup {None}
        BY <1>3, <2>1 DEF Events, Changes
      <3> QED
        BY <2>1, <3>1 DEF ShowCreated
    <2>2. CASE e.op \in {"edited", "preview", "deleted"} /\ ShowChange(d, e)
      BY <2>2 DEF ShowChange
    <2>3. CASE e.op = "error" /\ ShowError(d, e.request)
      <3>1. CASE e.request \in timer /\ Sender[e.request] = d
        <4>1. e.request \in Requests /\ timer' = timer \ {e.request}
          BY <2>3, <3>1 DEF ShowError, ChatInv, SendsTyped
        <4>2. CASE Open(d) /\ status[e.request] \in {"pending", "failed"}
          BY <2>3, <3>1, <4>1, <4>2 DEF ShowError
        <4>3. CASE ~(Open(d) /\ status[e.request] \in {"pending", "failed"})
          BY <2>3, <3>1, <4>1, <4>3 DEF ShowError, ChatInv, SendsTyped
        <4> QED
          BY <4>1, <4>2, <4>3
      <3>2. CASE ~(e.request \in timer /\ Sender[e.request] = d)
        BY <2>3, <3>2 DEF ShowError
      <3> QED
        BY <3>1, <3>2
    <2> QED
      BY <1>6, <2>1, <2>2, <2>3
  <1>10. SendsTyped'
    BY <1>1, <1>9 DEF ChatInv, SendsTyped, Statuses
  <1> QED
    BY <1>1, <1>5, <1>8, <1>10, StoreKept DEF ChatInv, store

-----------------------------------------------------------------------------
(* The connections come and go. *)

\* A connection goes, its handler an orphan, or comes back.
LEMMA ConnectionTyped ==
    ASSUME ChatInv, NEW d \in Devices, Drop(d) \/ Reconnect(d) PROVE ChatInv'
  <1>1. UNCHANGED <<store, unfurls, client>>
    BY DEF Drop, Reconnect, tasks
  <1>2. budget'.says = budget.says /\ DOMAIN budget' = DOMAIN budget
    BY Spent DEF ChatInv, Drop, Reconnect, Bounds
  <1>3. Changes' = Changes /\ Events' = Events /\ Frames' = Frames /\ Unfurls' = Unfurls
    BY <1>1, SameLog DEF ChatInv, store
  <1>4. SocketTyped'
    <2>1. \/ socket' = [socket EXCEPT ![d] = [up |-> FALSE, in |-> <<>>, out |-> <<>>]]
          \/ socket' = [socket EXCEPT ![d].up = TRUE]
      BY DEF Drop, Reconnect
    <2>2. <<>> \in Seq(Frames) /\ <<>> \in Seq(Events)
      OBVIOUS
    <2>3. [up |-> FALSE, in |-> <<>>, out |-> <<>>]
             \in [up : BOOLEAN, in : Seq(Frames), out : Seq(Events)]
      BY <2>2
    <2>4. CASE socket' = [socket EXCEPT ![d] = [up |-> FALSE, in |-> <<>>, out |-> <<>>]]
      BY <1>3, <2>3, <2>4 DEF ChatInv, SocketTyped
    <2>5. CASE socket' = [socket EXCEPT ![d].up = TRUE]
      BY <1>3, <2>5 DEF ChatInv, SocketTyped
    <2> QED
      BY <2>1, <2>4, <2>5
  <1>5. TasksTyped'
    <2>1. CASE Reconnect(d)
      BY <1>1, <1>3, <2>1 DEF Reconnect, tasks, ChatInv, TasksTyped
    <2>2. CASE Drop(d)
      BY <1>1, <1>3, <2>2 DEF Drop, ChatInv, TasksTyped
    <2> QED
      BY <2>1, <2>2
  <1> QED
    BY <1>1, <1>2, <1>4, <1>5, StoreKept DEF ChatInv, store, client

\* A restart of the server.
LEMMA RestartTyped ==
    ASSUME ChatInv, Restart PROVE ChatInv'
  <1>1. UNCHANGED <<log, owner, preview, view, status, timer>>
    BY DEF Restart
  <1>2. budget'.says = budget.says /\ DOMAIN budget' = DOMAIN budget
    BY Spent DEF ChatInv, Restart, Bounds
  <1>3. Ids' = Ids
    BY <1>1, SameLog DEF ChatInv
  <1>4. SocketTyped'
    <2>1. socket' = [d \in Devices |-> [up |-> FALSE, in |-> <<>>, out |-> <<>>]]
      BY DEF Restart
    <2>2. <<>> \in Seq(Frames') /\ <<>> \in Seq(Events')
      OBVIOUS
    <2> QED
      BY <2>1, <2>2 DEF SocketTyped
  <1>5. TasksTyped'
    BY DEF Restart, TasksTyped
  <1>6. ViewTyped'
    BY <1>1, <1>3 DEF Restart, ChatInv, ViewTyped
  <1> QED
    BY <1>1, <1>2, <1>4, <1>5, <1>6, StoreKept DEF ChatInv

-----------------------------------------------------------------------------
(* Every step. *)

\* It holds at the start.
LEMMA ChatStart ==
    ASSUME Init PROVE ChatInv
  <1>1. Ids = {} /\ log = <<>> /\ preview = <<>>
    BY DEF Init, Ids
  <1>2. LogTyped
    BY <1>1 DEF Init, LogTyped
  <1>3. TasksTyped
    BY DEF Init, TasksTyped
  <1>4. SocketTyped
    <2>1. <<>> \in Seq(Frames) /\ <<>> \in Seq(Events)
      OBVIOUS
    <2> QED
      BY <2>1 DEF Init, SocketTyped
  <1>5. ViewTyped
    BY DEF Init, ViewTyped
  <1>6. SendsTyped
    <2>1. /\ DOMAIN budget = Bounds \cup {"devices", "says"}
          /\ DOMAIN budget.says \subseteq Requests
          /\ budget.says \in [DOMAIN budget.says -> Contents]
      BY ChatAssumption DEF Init
    <2>2. \A r \in DOMAIN budget.says : budget.says[r] \in Contents
      BY <2>1
    <2> QED
      BY <2>1, <2>2 DEF Init, SendsTyped, Statuses
  <1> QED
    BY <1>2, <1>3, <1>4, <1>5, <1>6 DEF ChatInv

\* Every step keeps it.
LEMMA ChatStep ==
    ASSUME ChatInv, [Next]_vars PROVE ChatInv'
  <1>1. CASE UserActs
    BY <1>1, SendTyped, CancelTyped, VisitTyped, AskTyped DEF UserActs
  <1>2. ASSUME NEW d \in Devices, Handle(d) \/ CreateFails(d) \/ ChangeFails(d) \/ TellChange(d)
        PROVE  ChatInv'
    BY <1>2, CreateNewTyped, RefusesTyped, CreateAgainTyped, ChangeTyped,
       TellChangeTyped
       DEF Handle
  <1>3. CASE TellOrphan \/ UnfurlStep \/ PostCard
    BY <1>3, TellOrphanTyped, UnfurlTyped, PostCardTyped
  <1>4. CASE ScanUnattached \/ Cleanup
    BY <1>4, CleanupTyped
  <1>5. ASSUME NEW d \in Devices, LoadHistory(d) \/ HistoryFails(d) \/ Receive(d)
        PROVE  ChatInv'
    BY <1>5, HistoryTyped, ReceiveTyped
  <1>6. CASE \E r \in Requests : TimerFires(r)
    BY <1>6, CancelTyped
  <1>7. CASE \E d \in Devices : Drop(d) \/ Reconnect(d)
    BY <1>7, ConnectionTyped
  <1>8. CASE Restart
    BY <1>8, RestartTyped
  <1>9. CASE UNCHANGED vars
    BY <1>9, StoreKept DEF vars, store, client, ChatInv
  <1> QED
    BY <1>1, <1>2, <1>3, <1>4, <1>5, <1>6, <1>7, <1>8, <1>9 DEF Next

\* And always.
LEMMA ChatAlways == Spec => []ChatInv
  <1>1. Init => ChatInv
    BY ChatStart
  <1>2. ChatInv /\ [Next]_vars => ChatInv'
    BY ChatStep
  <1> QED
    BY <1>1, <1>2, PTL DEF Spec

\* Whatever frames, events and pages are lost, late or crossed, no window shows a
\* message that is not stored, every stored row has its preview's row, and a
\* file's owner is a row.
THEOREM ChatType == Spec => []TypeOK
  <1>1. ChatInv => TypeOK
    <2> SUFFICES ASSUME ChatInv PROVE TypeOK
      OBVIOUS
    <2>1. /\ log \in Seq(Rows) /\ Ids = 1..Len(log)
          /\ preview \in Seq(Links) /\ Len(preview) = Len(log)
          /\ owner \in [Files -> Ids \cup {None, Removed}]
      BY DEF ChatInv, LogTyped, Ids
    <2>2. \A id \in Ids : log[id] \in Rows /\ preview[id] \in Links
      BY <2>1
    <2>3. DOMAIN preview = Ids
      BY <2>1
    <2>4. \A id \in Ids : log[id].content \in Contents
      BY <2>2 DEF Rows
    <2> QED
      BY <2>1, <2>2, <2>3, <2>4 DEF TypeOK, ChatInv, SendsTyped, ViewTyped
  <1> QED
    BY <1>1, ChatAlways, PTL

-----------------------------------------------------------------------------
(* The chat implements the log: every step is one of MessageLog, or none.  *)

\* The log as MessageLog sees it.
Shadow == [id \in Ids |-> [request |-> log[id].request, content |-> log[id].content,
                          deleted |-> log[id].deleted]]

\* A function on 1..n is a sequence.
LEMMA FunctionIsSeq ==
    ASSUME NEW S, NEW n \in Nat, NEW f \in [1..n -> S] PROVE f \in Seq(S)
  BY SeqDef

\* The rows, each without its user, are a sequence as long.
LEMMA Mapped ==
    ASSUME LogTyped
    PROVE  /\ Shadow \in Seq([request : Requests \cup {None}, content : Contents,
                             deleted : BOOLEAN])
           /\ DOMAIN Shadow = Ids /\ Len(Shadow) = Len(log)
  <1>1. log \in Seq(Rows) /\ Ids = 1..Len(log) /\ Len(log) \in Nat
    BY DEF LogTyped, Ids
  <1>2. \A id \in Ids : log[id] \in Rows
    BY <1>1
  <1>3. Shadow \in [1..Len(log) -> [request : Requests \cup {None}, content : Contents,
                                   deleted : BOOLEAN]]
    BY <1>1, <1>2 DEF Shadow, Rows
  <1>4. Shadow \in Seq([request : Requests \cup {None}, content : Contents,
                        deleted : BOOLEAN])
    BY <1>1, <1>3, FunctionIsSeq
  <1>5. DOMAIN Shadow = 1..Len(log)
    BY <1>1 DEF Shadow
  <1>6. Len(Shadow) = Len(log)
    BY <1>1, <1>4, <1>5
  <1> QED
    BY <1>1, <1>4, <1>5, <1>6

\* A new message, and a card.
LEMMA InsertAdds ==
    ASSUME LogTyped, NEW request \in Requests \cup {None}, NEW user \in People,
           NEW content \in Contents, Insert(request, user, content)
    PROVE  Log!Add(request, content)
  <1> DEFINE row == [request |-> request, user |-> user, content |-> content,
                     deleted |-> FALSE]
             seen == [request |-> request, content |-> content, deleted |-> FALSE]
  <1>1. row \in Rows /\ log' = Append(log, row)
    BY DEF Rows, Insert
  <1>2. /\ row.request = request /\ row.content = content /\ row.deleted = FALSE
    OBVIOUS
  <1> HIDE DEF row
  <1>3. /\ log' \in Seq(Rows) /\ Ids' = Ids \cup {Len(log) + 1} /\ Len(log) + 1 \notin Ids
        /\ \A id \in Ids : log'[id] = log[id]
        /\ log'[Len(log) + 1] = row
    BY <1>1, RowAdded
  <1>4. Shadow' = [id \in Ids \cup {Len(log) + 1} |->
                     IF id \in Ids THEN Shadow[id] ELSE seen]
    BY <1>2, <1>3 DEF Shadow
  <1>5. Append(Shadow, seen) = [id \in Ids \cup {Len(log) + 1} |->
                                  IF id \in Ids THEN Shadow[id] ELSE seen]
    <2>1. Shadow \in Seq([request : Requests \cup {None}, content : Contents,
                         deleted : BOOLEAN])
          /\ Len(Shadow) = Len(log) /\ Ids = 1..Len(log) /\ Len(log) \in Nat
      BY Mapped DEF LogTyped, Ids
    <2>2. Append(Shadow, seen) = [i \in 1..(Len(log) + 1) |->
                                    IF i <= Len(log) THEN Shadow[i] ELSE seen]
      BY <2>1
    <2>3. 1..(Len(log) + 1) = Ids \cup {Len(log) + 1}
      BY <2>1
    <2> QED
      BY <2>1, <2>2, <2>3
  <1>6. Shadow' = Append(Shadow, seen)
    BY <1>4, <1>5
  <1> QED
    BY <1>6 DEF Log!Add, Shadow

\* What leaves rows, owners and the senders' views alone is no step of the log.
LEMMA Unseen ==
    ASSUME UNCHANGED <<log, owner, status>> PROVE UNCHANGED Log!logVars
  BY DEF Log!logVars, Ids

\* create_message posts to the log, with the files that are free.
LEMMA CreateNewPosts ==
    ASSUME ChatInv, NEW d \in Devices, CreateNew(d) PROVE Log!LogNext
  <1>1. PICK r \in Requests, c \in Contents : r = Frame(d).request /\ c = Frame(d).content
    BY FrameTyped DEF ChatInv, CreateNew
  <1>2. User[d] \in People /\ Insert(r, User[d], c)
    BY <1>1 DEF People, CreateNew, Insert
  <1>3. Log!Add(r, c)
    BY <1>2, InsertAdds DEF ChatInv
  <1>4. ~Log!Posted(r)
    BY <1>1 DEF CreateNew, Existing, Log!Posted, Ids
  <1>5. Len(Shadow) = Len(log)
    BY Mapped DEF ChatInv
  <1>6. /\ {f \in FilesOf[r] : owner[f] = None} = FilesOf[r]
        /\ owner' = [f \in Files |-> IF f \in FilesOf[r] THEN Len(log) + 1 ELSE owner[f]]
        /\ status' = status
    BY <1>1 DEF CreateNew, client
  <1>7. Log!Post(r, c)
    BY <1>3, <1>4, <1>5, <1>6 DEF Log!Post, Shadow
  <1> QED
    BY <1>1, <1>7 DEF Log!LogNext

\* The bot's card has no request.
LEMMA PostCardAnnounces ==
    ASSUME ChatInv, PostCard PROVE Log!LogNext
  <1>1. "bot" \in People /\ "card" \in Contents
    BY ChatAssumption DEF People
  <1>2. Log!Add(None, "card")
    BY <1>1, InsertAdds DEF ChatInv, PostCard
  <1> QED
    BY <1>1, <1>2 DEF PostCard, client, Log!Announce, Log!LogNext

\* An edit edits, a deletion deletes.
LEMMA ChangeIsLogged ==
    ASSUME ChatInv, NEW d \in Devices, HandleEdit(d) \/ HandleDelete(d)
    PROVE  Log!LogNext \/ UNCHANGED Log!logVars
  <1>1. PICK id \in Ids : id = Frame(d).id /\ (HandleEdit(d) => Frame(d).content \in Contents)
    BY FrameTyped DEF ChatInv, HandleEdit, HandleDelete
  <1>2. UNCHANGED <<owner, status>>
    BY DEF HandleEdit, HandleDelete, client
  <1>3. CASE ~Mine(d, id)
    BY <1>1, <1>2, <1>3, Unseen DEF HandleEdit, HandleDelete
  <1>4. log[id] \in Rows /\ \A i \in Ids : log[i] \in Rows
    BY <1>1 DEF ChatInv, LogTyped, Ids
  <1>5. CASE Mine(d, id) /\ HandleEdit(d)
    <2> PICK c \in Contents : c = Frame(d).content
      BY <1>1, <1>5
    <2>1. log' = [log EXCEPT ![id].content = c] /\ ~log[id].deleted
      BY <1>1, <1>5 DEF HandleEdit, Mine
    <2>2. Ids' = Ids /\ log' = [log EXCEPT ![id] = [log[id] EXCEPT !.content = c]]
      BY <2>1 DEF Ids
    <2>3. /\ \A i \in Ids \ {id} : log'[i] = log[i]
          /\ log'[id] = [log[id] EXCEPT !.content = c]
      BY <1>1, <2>2 DEF Ids
    <2>4. /\ log'[id].request = log[id].request /\ log'[id].deleted = log[id].deleted
          /\ log'[id].content = c
      BY <1>4, <2>3 DEF Rows
    <2>5. Shadow' = [Shadow EXCEPT ![id].content = c]
      BY <1>1, <2>2, <2>3, <2>4 DEF Shadow
    <2>6. ~Shadow[id].deleted /\ DOMAIN Shadow = Ids
      BY <1>1, <2>1 DEF Shadow
    <2>7. Log!Edit(id, c)
      BY <1>2, <2>5, <2>6 DEF Log!Edit, Shadow
    <2> QED
      BY <2>6, <2>7 DEF Log!LogNext, Shadow
  <1>6. CASE Mine(d, id) /\ HandleDelete(d)
    <2>1. log' = [log EXCEPT ![id].deleted = TRUE] /\ ~log[id].deleted
      BY <1>1, <1>6 DEF HandleDelete, Mine
    <2>2. Ids' = Ids /\ log' = [log EXCEPT ![id] = [log[id] EXCEPT !.deleted = TRUE]]
      BY <2>1 DEF Ids
    <2>3. /\ \A i \in Ids \ {id} : log'[i] = log[i]
          /\ log'[id] = [log[id] EXCEPT !.deleted = TRUE]
      BY <1>1, <2>2 DEF Ids
    <2>4. /\ log'[id].request = log[id].request /\ log'[id].deleted = TRUE
          /\ log'[id].content = log[id].content
      BY <1>4, <2>3 DEF Rows
    <2>5. Shadow' = [Shadow EXCEPT ![id].deleted = TRUE]
      BY <1>1, <2>2, <2>3, <2>4 DEF Shadow
    <2>6. ~Shadow[id].deleted /\ DOMAIN Shadow = Ids
      BY <1>1, <2>1 DEF Shadow
    <2>7. Log!Delete(id)
      BY <1>2, <2>5, <2>6 DEF Log!Delete, Shadow
    <2> QED
      BY <2>6, <2>7 DEF Log!LogNext, Shadow
  <1> QED
    BY <1>3, <1>5, <1>6

\* The conditional delete discards a file, and nothing else does.
LEMMA CleanupDiscards ==
    ASSUME ChatInv, Cleanup PROVE Log!LogNext \/ UNCHANGED Log!logVars
  <1>1. PICK f \in Files : DeleteUnattached(f) \/ RemoveFile(f)
    BY DEF Cleanup
  <1>2. log' = log /\ status' = status /\ Shadow' = Shadow
    BY <1>1 DEF DeleteUnattached, RemoveFile, client, Shadow, Ids
  <1>3. CASE DeleteUnattached(f) /\ owner[f] = None
    <2>1. owner' = [owner EXCEPT ![f] = Removed]
      BY <1>3 DEF DeleteUnattached
    <2> QED
      BY <1>2, <1>3, <2>1 DEF Log!Discard, Log!LogNext, Shadow
  <1>4. CASE DeleteUnattached(f) /\ owner[f] # None
    <2>1. owner' = owner
      BY <1>4 DEF DeleteUnattached, ChatInv, LogTyped
    <2> QED
      BY <1>2, <2>1, Unseen
  <1>5. CASE RemoveFile(f)
    BY <1>2, <1>5, Unseen DEF RemoveFile
  <1> QED
    BY <1>1, <1>3, <1>4, <1>5

\* A request changes as its sender sees it.
LEMMA Moves ==
    ASSUME NEW r \in Requests, NEW to, status' = [status EXCEPT ![r] = to],
           UNCHANGED <<log, owner>>,
           \/ to = "pending" /\ status[r] \in {"unsent", "failed"}
           \/ to = "failed" /\ status[r] \in {"unsent", "pending", "failed"}
           \/ to = "cancelled" /\ status[r] = "failed"
           \/ to = "confirmed" /\ status[r] \in {"pending", "failed"} /\ Log!Posted(r)
    PROVE  Log!LogNext
  <1>1. Shadow' = Shadow
    BY DEF Shadow, Ids
  <1>2. Log!Send(r) \/ Log!Fail(r) \/ Log!GiveUp(r) \/ Log!Confirm(r)
    BY <1>1 DEF Log!Send, Log!Fail, Log!GiveUp, Log!Confirm, Log!Becomes, Shadow
  <1> QED
    BY <1>2 DEF Log!LogNext

\* A message submitted is one its sender awaits.
LEMMA SendIsLogged ==
    ASSUME ChatInv, NEW r \in Requests,
           SubmitMessage(r) \/ RetryMessage(r) \/ CancelMessage(r) \/ TimerFires(r)
    PROVE  Log!LogNext \/ UNCHANGED Log!logVars
  <1>1. UNCHANGED <<log, owner>>
    BY DEF SubmitMessage, RetryMessage, CancelMessage, TimerFires,
       SendOptimistic, store
  <1>2. CASE SubmitMessage(r) \/ RetryMessage(r)
    <2>1. \/ status' = [status EXCEPT ![r] = "pending"]
          \/ status' = [status EXCEPT ![r] = "failed"]
      BY <1>2 DEF SubmitMessage, RetryMessage, SendOptimistic
    <2> QED
      BY <1>1, <1>2, <2>1, Moves DEF SubmitMessage, RetryMessage
  <1>3. CASE CancelMessage(r)
    BY <1>1, <1>3, Moves DEF CancelMessage
  <1>4. CASE TimerFires(r)
    <2>1. CASE Open(Sender[r]) /\ status[r] = "pending"
      BY <1>1, <1>4, <2>1, Moves DEF TimerFires
    <2>2. CASE ~(Open(Sender[r]) /\ status[r] = "pending")
      BY <1>1, <1>4, <2>2, Unseen DEF TimerFires, ChatInv, SendsTyped
    <2> QED
      BY <2>1, <2>2
  <1> QED
    BY <1>2, <1>3, <1>4

\* A page confirms the requests of its rows.
LEMMA HistoryForgets ==
    ASSUME ChatInv, NEW d \in Devices, LoadHistory(d) PROVE Log!LogNext \/ UNCHANGED Log!logVars
  <1>1. UNCHANGED <<log, owner>> /\ Shadow' = Shadow
    BY DEF LoadHistory, store, Shadow, Ids
  <1>2. CASE status' = status
    BY <1>1, <1>2, Unseen
  <1>3. CASE \E l \in loads[d] : ShowPage(d, l)
    <2> DEFINE R == {r \in Requests : Sender[r] = d /\ status[r] \in {"pending", "failed"}}
    <2>1. status' = [r \in Requests |-> IF r \in R THEN "forgotten" ELSE status[r]]
      BY <1>3 DEF ShowPage
    <2>2. R \in SUBSET {r \in Requests : status[r] \in {"pending", "failed"}}
      OBVIOUS
    <2> HIDE DEF R
    <2>3. Log!Forget
      BY <1>1, <2>1, <2>2 DEF Log!Forget, Shadow
    <2> QED
      BY <2>3 DEF Log!LogNext
  <1> QED
    BY <1>2, <1>3 DEF LoadHistory, ReadRows, ReadPreviews

\* What is confirmed to its sender is in the log: an event of a creation names a
\* row that is there.
LEMMA ReceiveConfirms ==
    ASSUME ChatInv, NEW d \in Devices, Receive(d) PROVE Log!LogNext \/ UNCHANGED Log!logVars
  <1> DEFINE e == socket[d].out[1]
  <1>1. UNCHANGED <<log, owner>> /\ socket[d].out # <<>>
    BY DEF Receive, store
  <1>2. e \in Events
    BY <1>1 DEF ChatInv, SocketTyped
  <1>3. CASE status' = status
    BY <1>1, <1>3, Unseen
  <1>4. CASE e.op = "created" /\ ShowCreated(d, e) /\ status' # status
    <2>1. /\ e.request \in Requests /\ e.id \in Ids /\ log[e.id].request = e.request
          /\ status[e.request] \in {"pending", "failed"}
          /\ status' = [status EXCEPT ![e.request] = "confirmed"]
      BY <1>2, <1>4 DEF ShowCreated, Events, Changes
    <2>2. Log!Posted(e.request)
      BY <2>1 DEF Log!Posted
    <2> QED
      BY <1>1, <2>1, <2>2, Moves
  <1>5. CASE e.op = "error" /\ ShowError(d, e.request) /\ status' # status
    <2>1. e.request \in timer /\ Sender[e.request] = d /\ e.request \in Requests
      BY <1>5 DEF ShowError, ChatInv, SendsTyped
    <2>2. Open(d) /\ status[e.request] \in {"pending", "failed"}
      BY <1>5, <2>1 DEF ShowError, ChatInv, SendsTyped
    <2>3. status' = [status EXCEPT ![e.request] = "failed"]
      BY <1>5, <2>1, <2>2 DEF ShowError
    <2> QED
      BY <1>1, <2>1, <2>2, <2>3, Moves
  <1> QED
    BY <1>3, <1>4, <1>5 DEF Receive, ShowChange

\* Every step of the chat is a step of the log.
LEMMA StepIsLogged ==
    ASSUME ChatInv, [Next]_vars PROVE Log!LogNext \/ UNCHANGED Log!logVars
  <1>1. CASE UserActs
    <2>1. ASSUME NEW d \in Devices, NEW id \in DOMAIN view[d].shown,
                 \/ DeleteMessage(d, id)
                 \/ \E content \in Contents \ {"card"} : EditMessage(d, id, content)
          PROVE  UNCHANGED Log!logVars
      BY <2>1, Unseen DEF DeleteMessage, EditMessage, store, client
    <2>2. ASSUME NEW d \in Devices, LeaveChannel(d) \/ ChooseChannel(d)
          PROVE  UNCHANGED Log!logVars
      BY <2>2, Unseen DEF LeaveChannel, ChooseChannel, store
    <2> QED
      BY <1>1, <2>1, <2>2, SendIsLogged DEF UserActs
  <1>2. ASSUME NEW d \in Devices, Handle(d) \/ CreateFails(d) \/ ChangeFails(d) \/ TellChange(d)
        PROVE  Log!LogNext \/ UNCHANGED Log!logVars
    <2>1. CASE \/ RefuseFiles(d) \/ CreateAgain(d) \/ CreateFails(d) \/ ChangeFails(d)
               \/ TellChange(d)
      BY <2>1, Unseen DEF RefuseFiles, CreateAgain, CreateFails, ChangeFails,
         TellChange, store, client
    <2> QED
      BY <1>2, <2>1, CreateNewPosts, ChangeIsLogged DEF Handle
  <1>3. CASE TellOrphan \/ UnfurlStep \/ ScanUnattached
    BY <1>3, Unseen DEF TellOrphan, UnfurlStep, ScanUnattached, store, client
  <1>4. CASE PostCard \/ Cleanup
    BY <1>4, PostCardAnnounces, CleanupDiscards
  <1>5. ASSUME NEW d \in Devices, LoadHistory(d) \/ HistoryFails(d) \/ Receive(d)
        PROVE  Log!LogNext \/ UNCHANGED Log!logVars
    BY <1>5, HistoryForgets, ReceiveConfirms, Unseen DEF HistoryFails, store
  <1>6. CASE \E r \in Requests : TimerFires(r)
    BY <1>6, SendIsLogged
  <1>7. CASE (\E d \in Devices : Drop(d) \/ Reconnect(d)) \/ Restart \/ UNCHANGED vars
    BY <1>7, Unseen DEF Drop, Reconnect, Restart, vars, store, client
  <1> QED
    BY <1>1, <1>2, <1>3, <1>4, <1>5, <1>6, <1>7 DEF Next

\* The chat handlers and the windows implement the log, for every number of
\* devices, requests and files: a request adds one message however often it is
\* sent, with all its files or none, and is confirmed to its sender only once it
\* is stored, through every loss, retry, failure and restart.
THEOREM ChatImplementsLog == Spec => ImplementsLog
  <1>1. Init => Log!LogInit
    BY DEF Init, Log!LogInit, Ids
  <1>2. ChatInv /\ [Next]_vars => [Log!LogNext]_(Log!logVars)
    BY StepIsLogged
  <1> QED
    BY <1>1, <1>2, ChatAlways, PTL DEF Spec, ImplementsLog, Log!LogSpec

-----------------------------------------------------------------------------
(* What the log promises of its states, and so the chat of its own. *)

\* The unique request id: a request has one message at most.
OneMessageEach ==
    \A i, j \in Ids : log[i].request # None /\ log[i].request = log[j].request => i = j

\* A message has all the files its request was sent with, and keeps them.
FilesTogether ==
    \A i \in Ids : log[i].request # None =>
        \A f \in Files \cap FilesOf[log[i].request] : owner[f] = i

\* A request confirmed to its sender has a message.
ConfirmedIsPosted ==
    \A r \in Requests : status[r] = "confirmed" => \E i \in Ids : log[i].request = r

\* What the abstract log promises of every state it is in.
LogPromise == OneMessageEach /\ FilesTogether /\ ConfirmedIsPosted

\* The log as MessageLog sees it tells the requests.
LEMMA ShadowRequests ==
    ASSUME LogTyped
    PROVE  /\ DOMAIN Shadow = Ids /\ Ids = 1..Len(log) /\ Len(log) \in Nat
           /\ \A i \in Ids : Shadow[i].request = log[i].request
           /\ \A i \in Ids : log[i].request \in Requests \cup {None}
  <1>1. /\ Ids = 1..Len(log) /\ Len(log) \in Nat
        /\ \A i \in Ids : log[i] \in Rows
    BY DEF LogTyped, Ids
  <1> QED
    BY <1>1 DEF Shadow, Rows

\* A step that keeps the requests of the rows, and the owner of a file that has one.
LEMMA PromiseKept ==
    ASSUME LogTyped, LogPromise, Ids' = Ids, \A i \in Ids : log'[i].request = log[i].request,
           \A f \in Files : owner[f] # None => owner'[f] = owner[f],
           \A r \in Requests : status'[r] = "confirmed" =>
              status[r] = "confirmed" \/ \E i \in Ids : log[i].request = r
    PROVE  LogPromise'
  <1>1. None \notin Ids
    BY ShadowRequests, ChatAssumption
  <1>2. OneMessageEach'
    BY DEF LogPromise, OneMessageEach
  <1>3. FilesTogether'
    BY <1>1 DEF LogPromise, FilesTogether
  <1>4. ConfirmedIsPosted'
    BY DEF LogPromise, ConfirmedIsPosted
  <1> QED
    BY <1>2, <1>3, <1>4 DEF LogPromise

\* A row is added.
LEMMA AddTells ==
    ASSUME LogTyped, LogTyped', NEW r \in Requests \cup {None}, NEW c, Log!Add(r, c)
    PROVE  /\ Ids' = Ids \cup {Len(log) + 1} /\ Len(log) + 1 \notin Ids
           /\ \A i \in Ids : log'[i].request = log[i].request
           /\ log'[Len(log) + 1].request = r
  <1> DEFINE row == [request |-> r, content |-> c, deleted |-> FALSE]
  <1>1. Shadow' = Append(Shadow, row)
    BY DEF Log!Add, Shadow
  <1>2. Len(Shadow) = Len(log) /\ Len(Shadow) \in Nat /\ DOMAIN Shadow = 1..Len(Shadow)
    BY Mapped, ShadowRequests
  <1>3. row.request = r
    OBVIOUS
  <1> HIDE DEF row
  <1>4. /\ DOMAIN Shadow' = 1..(Len(log) + 1)
        /\ \A i \in 1..Len(log) : Shadow'[i] = Shadow[i]
        /\ Shadow'[Len(log) + 1] = row
    BY <1>1, <1>2
  <1>5. /\ DOMAIN Shadow' = Ids'
        /\ \A i \in Ids' : Shadow'[i].request = log'[i].request
    BY DEF Shadow
  <1> QED
    BY <1>2, <1>3, <1>4, <1>5, ShadowRequests

\* A new message, whose request had none, takes files that are free.
LEMMA PostPromised ==
    ASSUME LogTyped, LogTyped', LogPromise, NEW r \in Requests, NEW c, Log!Post(r, c)
    PROVE  LogPromise'
  <1> DEFINE n == Len(log) + 1
  <1>1. /\ Ids' = Ids \cup {n} /\ n \notin Ids /\ n \in Nat
        /\ \A i \in Ids : log'[i].request = log[i].request
        /\ log'[n].request = r
    BY AddTells, ShadowRequests DEF Log!Post
  <1>2. \A i \in Ids : log[i].request # r
    BY ShadowRequests DEF Log!Post, Log!Posted, Shadow
  <1>3. /\ \A f \in FilesOf[r] : owner[f] = None
        /\ owner' = [f \in Files |-> IF f \in FilesOf[r] THEN n ELSE owner[f]]
        /\ status' = status
    BY Mapped DEF Log!Post, Shadow
  <1>4. None \notin Ids /\ FilesOf[r] \subseteq Files
    BY ShadowRequests, ChatAssumption
  <1> HIDE DEF n
  <1>5. OneMessageEach'
    BY <1>1, <1>2 DEF LogPromise, OneMessageEach
  <1>6. FilesTogether'
    <2> SUFFICES ASSUME NEW i \in Ids', log'[i].request # None,
                        NEW f \in Files \cap FilesOf[log'[i].request]
                 PROVE  owner'[f] = i
      BY DEF FilesTogether
    <2>1. CASE i = n
      BY <1>1, <1>3, <2>1
    <2>2. CASE i \in Ids
      <3>1. owner[f] = i /\ f \in Files
        BY <1>1, <2>2 DEF LogPromise, FilesTogether
      <3>2. f \notin FilesOf[r]
        BY <1>3, <1>4, <2>2, <3>1
      <3> QED
        BY <1>3, <3>1, <3>2
    <2> QED
      BY <1>1, <2>1, <2>2
  <1>7. ConfirmedIsPosted'
    BY <1>1, <1>3 DEF LogPromise, ConfirmedIsPosted
  <1> QED
    BY <1>5, <1>6, <1>7 DEF LogPromise

\* A message that nobody requested.
LEMMA AnnouncePromised ==
    ASSUME LogTyped, LogTyped', LogPromise, NEW c, Log!Announce(c) PROVE LogPromise'
  <1>1. /\ Ids' = Ids \cup {Len(log) + 1}
        /\ \A i \in Ids : log'[i].request = log[i].request
        /\ log'[Len(log) + 1].request = None
    BY AddTells DEF Log!Announce
  <1>2. owner' = owner /\ status' = status
    BY DEF Log!Announce
  <1>3. OneMessageEach' /\ FilesTogether' /\ ConfirmedIsPosted'
    BY <1>1, <1>2 DEF LogPromise, OneMessageEach, FilesTogether, ConfirmedIsPosted
  <1> QED
    BY <1>3 DEF LogPromise

\* An edit or a deletion keeps the requests of all rows.
LEMMA ChangePromised ==
    ASSUME LogTyped, LogTyped', LogPromise, NEW id \in DOMAIN Shadow,
           Log!Delete(id) \/ \E c \in Contents : Log!Edit(id, c)
    PROVE  LogPromise'
  <1>1. owner' = owner /\ status' = status
    BY DEF Log!Delete, Log!Edit
  <1>2. \/ Shadow' = [Shadow EXCEPT ![id].deleted = TRUE]
        \/ \E c \in Contents : Shadow' = [Shadow EXCEPT ![id].content = c]
    BY DEF Log!Delete, Log!Edit, Shadow
  <1>3. Shadow[id] = [request |-> Shadow[id].request, content |-> Shadow[id].content,
                      deleted |-> Shadow[id].deleted]
    BY DEF Shadow
  <1>4. \A i \in DOMAIN Shadow : Shadow'[i].request = Shadow[i].request
    BY <1>2, <1>3
  <1>5. DOMAIN Shadow' = DOMAIN Shadow
    BY <1>2
  <1>6. /\ DOMAIN Shadow = Ids /\ DOMAIN Shadow' = Ids'
        /\ \A i \in Ids : Shadow[i].request = log[i].request
        /\ \A i \in Ids' : Shadow'[i].request = log'[i].request
    BY DEF Shadow
  <1>7. Ids' = Ids /\ \A i \in Ids : log'[i].request = log[i].request
    BY <1>4, <1>5, <1>6
  <1> QED
    BY <1>1, <1>7, PromiseKept DEF LogPromise, ConfirmedIsPosted

\* What leaves the rows as MessageLog sees them.
LEMMA ShadowKept ==
    ASSUME Shadow' = Shadow
    PROVE  Ids' = Ids /\ \A i \in Ids : log'[i].request = log[i].request
  <1>1. /\ DOMAIN Shadow = Ids /\ DOMAIN Shadow' = Ids'
        /\ \A i \in Ids : Shadow[i].request = log[i].request
        /\ \A i \in Ids' : Shadow'[i].request = log'[i].request
    BY DEF Shadow
  <1> QED
    BY <1>1

LEMMA DiscardPromised ==
    ASSUME LogTyped, LogPromise, NEW f \in Files, Log!Discard(f) PROVE LogPromise'
  <1>1. Shadow' = Shadow /\ status' = status
    BY DEF Log!Discard, Shadow
  <1>2. owner[f] = None /\ owner' = [owner EXCEPT ![f] = Removed]
    BY DEF Log!Discard
  <1>3. \A g \in Files : owner[g] # None => owner'[g] = owner[g]
    BY <1>2 DEF LogTyped
  <1> QED
    BY <1>1, <1>3, ShadowKept, PromiseKept DEF LogPromise, ConfirmedIsPosted

\* What a sender sees changes; confirmed is what has a row.
LEMMA StatusPromised ==
    ASSUME LogTyped, LogPromise, SendsTyped,
           \/ Log!Forget
           \/ \E r \in Requests : Log!Send(r) \/ Log!Fail(r) \/ Log!Confirm(r) \/ Log!GiveUp(r)
    PROVE  LogPromise'
  <1>1. Shadow' = Shadow /\ owner' = owner
    BY DEF Log!Forget, Log!Send, Log!Fail, Log!Confirm, Log!GiveUp, Log!Becomes, Shadow
  <1>2. ASSUME NEW r \in Requests, status'[r] = "confirmed"
        PROVE  status[r] = "confirmed" \/ \E i \in Ids : log[i].request = r
    <2>1. CASE Log!Forget
      BY <1>2, <2>1 DEF Log!Forget
    <2>2. ASSUME NEW q \in Requests, Log!Send(q) \/ Log!Fail(q) \/ Log!GiveUp(q)
          PROVE  status[r] = "confirmed"
      BY <1>2, <2>2 DEF Log!Send, Log!Fail, Log!GiveUp, Log!Becomes, SendsTyped
    <2>3. ASSUME NEW q \in Requests, Log!Confirm(q)
          PROVE  status[r] = "confirmed" \/ \E i \in Ids : log[i].request = r
      <3>1. \E i \in Ids : log[i].request = q
        BY <2>3 DEF Log!Confirm, Log!Posted
      <3>2. status' = [status EXCEPT ![q] = "confirmed"]
        BY <2>3 DEF Log!Confirm, Log!Becomes
      <3> QED
        BY <1>2, <3>1, <3>2 DEF SendsTyped
    <2> QED
      BY <2>1, <2>2, <2>3
  <1> QED
    BY <1>1, <1>2, ShadowKept, PromiseKept

\* No step of the log breaks its promise.
LEMMA LogKeepsPromise ==
    ASSUME ChatInv, ChatInv', LogPromise, Log!LogNext \/ UNCHANGED Log!logVars
    PROVE  LogPromise'
  <1> USE DEF ChatInv
  <1>1. ASSUME NEW r \in Requests, NEW c \in Contents, Log!Post(r, c) PROVE LogPromise'
    BY <1>1, PostPromised
  <1>2. ASSUME NEW c \in Contents, Log!Announce(c) PROVE LogPromise'
    BY <1>2, AnnouncePromised
  <1>3. ASSUME NEW id \in DOMAIN Shadow, Log!Delete(id) \/ \E c \in Contents : Log!Edit(id, c)
        PROVE  LogPromise'
    BY <1>3, ChangePromised
  <1>4. ASSUME NEW f \in Files, Log!Discard(f) PROVE LogPromise'
    BY <1>4, DiscardPromised
  <1>5. CASE \/ Log!Forget
             \/ \E r \in Requests : Log!Send(r) \/ Log!Fail(r) \/ Log!Confirm(r) \/ Log!GiveUp(r)
    BY <1>5, StatusPromised
  <1>6. CASE UNCHANGED Log!logVars
    <2>1. Shadow' = Shadow /\ owner' = owner /\ status' = status
      BY <1>6 DEF Log!logVars, Shadow
    <2> QED
      BY <2>1, ShadowKept, PromiseKept DEF LogPromise, ConfirmedIsPosted
  <1> QED
    BY <1>1, <1>2, <1>3, <1>4, <1>5, <1>6 DEF Log!LogNext, Shadow

\* However often a request is sent, retried, timed out or answered, it has one
\* message at most; that message has all the files it was sent with, for good; and
\* no sender sees confirmed what is not stored.
THEOREM RequestsPostOnce == Spec => [](OneMessageEach /\ FilesTogether /\ ConfirmedIsPosted)
  <1>1. Init => LogPromise
    BY DEF Init, LogPromise, OneMessageEach, FilesTogether, ConfirmedIsPosted, Ids
  <1>2. ChatInv /\ ChatInv' /\ LogPromise /\ [Next]_vars => LogPromise'
    BY StepIsLogged, LogKeepsPromise
  <1>3. LogPromise => OneMessageEach /\ FilesTogether /\ ConfirmedIsPosted
    BY DEF LogPromise
  <1> QED
    BY <1>1, <1>2, <1>3, ChatAlways, PTL DEF Spec

-----------------------------------------------------------------------------
(* The previews. *)

\* The changes that are stored and not told.
Hands == ({handler[d] : d \in Devices} \cup orphans) \ {Idle}

\* What a card says no link is looked up for, and no edit makes of a message:
\* its preview is none, and stays so.
Cards ==
    /\ \A e \in Hands : e.op # "deleted" /\ log[e.id].content = "card" => e.content = "card"
    /\ \A t \in unfurls : log[t.id].content # "card"
    /\ \A id \in Ids : log[id].content = "card" => preview[id] = None

\* The content a message says now is yet to be told, and its link to be looked up.
Announced(id) == \E e \in Untold(id) : e.op # "deleted" /\ e.content = log[id].content

\* The tasks that are looking a link of the message up look up the one it says
\* now, and after the last of them the preview is that.
Looking(id) == {t \in unfurls : t.id = id /\ t.at = "looking"}

Looked(id) ==
    /\ \A t \in Looking(id) : t.content = log[id].content
    /\ Looking(id) = {} => preview[id] = Link[log[id].content]

Followed == \A id \in Live \ excused : Announced(id) \/ Looked(id)

PreviewInv == Cards /\ Followed

\* Which messages have changes to tell is a matter of the changes on hand.
LEMMA UntoldOnHand ==
    ASSUME NEW id PROVE Untold(id) = {e \in Hands : e.id = id /\ e.to = "all"}
  BY DEF Untold, Hands

\* What leaves the messages, their tasks and the changes to be told alone.
LEMMA PreviewsUntouched ==
    ASSUME PreviewInv, UNCHANGED <<log, preview, unfurls, excused>>, Hands' = Hands
    PROVE  PreviewInv'
  <1>1. Ids' = Ids /\ Live' = Live
    BY DEF Ids, Live
  <1>2. Cards'
    BY <1>1 DEF PreviewInv, Cards
  <1>3. ASSUME NEW id \in Live PROVE (Announced(id) \/ Looked(id)) => (Announced(id) \/ Looked(id))'
    <2>1. Untold(id)' = Untold(id)
      BY UntoldOnHand DEF Untold, Hands
    <2>2. Looking(id)' = Looking(id)
      BY DEF Looking
    <2> QED
      BY <2>1, <2>2 DEF Announced, Looked
  <1> QED
    BY <1>1, <1>2, <1>3 DEF PreviewInv, Followed

\* A handler that has taken a frame has a change on hand.
LEMMA HandTaken ==
    ASSUME TasksTyped, NEW d \in Devices, handler[d] = Idle, NEW e, e.op # "idle",
           handler' = [handler EXCEPT ![d] = e], orphans' = orphans
    PROVE  Hands' = Hands \cup {e}
  <1>1. e # Idle
    BY DEF Idle
  <1>2. \A c \in Devices : handler'[c] = IF c = d THEN e ELSE handler[c]
    BY DEF TasksTyped
  <1> QED
    BY <1>1, <1>2 DEF Hands

\* What is told is off hand, unless a second handler has the same to tell; what is
\* not told to all is no message's change.
LEMMA PreviewsTold ==
    ASSUME ChatInv, PreviewInv, NEW e \in Changes, e \in Hands, Tells(e),
           UNCHANGED <<log, preview>>, Hands' \subseteq Hands, Hands \ {e} \subseteq Hands'
    PROVE  PreviewInv'
  <1> DEFINE spawned == [id |-> e.id, content |-> e.content, at |-> "looking", link |-> None]
  <1>1. Ids' = Ids /\ Live' = Live
    BY DEF Ids, Live
  <1>2. CASE e.op # "deleted" /\ e.to = "all" /\ e.content # "card" /\ Unfurl(e.id, e.content)
    <2>1. /\ unfurls' = unfurls \cup {spawned}
          /\ excused' = IF log[e.id].content # e.content \/ \E t \in unfurls : t.id = e.id
                        THEN excused \cup {e.id} ELSE excused \ {e.id}
      BY <1>2 DEF Unfurl
    <2>2. spawned.id = e.id /\ spawned.content = e.content /\ spawned.at = "looking"
      OBVIOUS
    <2> HIDE DEF spawned
    <2>3. Cards'
      BY <1>1, <1>2, <2>1, <2>2 DEF PreviewInv, Cards
    <2>4. ASSUME NEW id \in Live \ excused', id # e.id PROVE (Announced(id) \/ Looked(id))'
      <3>1. Announced(id) \/ Looked(id)
        BY <2>1, <2>4 DEF PreviewInv, Followed
      <3>2. Untold(id)' = Untold(id)
        BY <2>4 DEF Untold, Hands
      <3>3. Looking(id)' = Looking(id)
        BY <2>1, <2>2, <2>4 DEF Looking
      <3> QED
        BY <3>1, <3>2, <3>3 DEF Announced, Looked
    <2>5. ASSUME e.id \notin excused' PROVE Looked(e.id)'
      <3>1. log[e.id].content = e.content /\ ~ \E t \in unfurls : t.id = e.id
        BY <2>1, <2>5
      <3>2. Looking(e.id)' = {spawned}
        BY <2>1, <2>2, <3>1 DEF Looking
      <3> QED
        BY <2>2, <3>1, <3>2 DEF Looked
    <2> QED
      BY <1>1, <2>3, <2>4, <2>5 DEF PreviewInv, Followed
  <1>3. CASE UNCHANGED unfurls
    <2>1. Cards'
      BY <1>1, <1>3 DEF PreviewInv, Cards
    <2>2. CASE e.op = "edited" /\ excused' = excused \cup {e.id}
      <3>1. ASSUME NEW id \in Live \ excused' PROVE (Announced(id) \/ Looked(id))'
        <4>1. id # e.id /\ (Announced(id) \/ Looked(id))
          BY <2>2, <3>1 DEF PreviewInv, Followed
        <4>2. Untold(id)' = Untold(id)
          BY <4>1 DEF Untold, Hands
        <4>3. Looking(id)' = Looking(id)
          BY <1>3 DEF Looking
        <4> QED
          BY <4>1, <4>2, <4>3 DEF Announced, Looked
      <3> QED
        BY <1>1, <2>1, <3>1 DEF PreviewInv, Followed
    <2>3. CASE UNCHANGED excused /\ (e.op = "deleted" \/ e.to # "all" \/ e.content = "card")
      <3>1. ASSUME NEW id \in Live \ excused PROVE (Announced(id) \/ Looked(id))'
        <4>1. Looking(id)' = Looking(id)
          BY <1>3 DEF Looking
        <4>2. CASE Looked(id)
          BY <4>1, <4>2 DEF Looked
        <4>3. CASE Announced(id)
          <5>1. PICK x \in Untold(id) : x.op # "deleted" /\ x.content = log[id].content
            BY <4>3 DEF Announced
          <5>2. CASE x # e
            <6>1. x \in Untold(id)'
              BY <5>1, <5>2 DEF Untold, Hands
            <6> QED
              BY <5>1, <6>1 DEF Announced
          <5>3. CASE x = e
            <6>1. x.id = id /\ x.to = "all" /\ log[id].content = "card"
              BY <2>3, <5>1, <5>3 DEF Untold
            <6>2. id \in Ids
              BY DEF Live, Ids
            <6>3. Looking(id) = {} /\ preview[id] = None
              BY <6>1, <6>2 DEF PreviewInv, Cards, Looking
            <6>4. Link["card"] = None
              BY ChatAssumption
            <6> QED
              BY <4>1, <6>1, <6>3, <6>4 DEF Looked
          <5> QED
            BY <5>2, <5>3
        <4>4. Announced(id) \/ Looked(id)
          BY DEF PreviewInv, Followed
        <4> QED
          BY <4>2, <4>3, <4>4
      <3> QED
        BY <1>1, <2>1, <2>3, <3>1 DEF PreviewInv, Followed
    <2> QED
      BY <1>3, <2>2, <2>3, <1>2 DEF Tells, Tell, TellNobody, Follow
  <1> QED
    BY <1>2, <1>3 DEF Tells, Tell, TellNobody, Follow

\* A handler tells its change.
LEMMA TellChangePreviews ==
    ASSUME ChatInv, PreviewInv, NEW d \in Devices, TellChange(d) PROVE PreviewInv'
  <1> DEFINE e == handler[d]
  <1>1. e \in Changes /\ e \in Hands /\ Tells(e) /\ UNCHANGED <<log, preview>>
    BY DEF TellChange, ChatInv, TasksTyped, Hands, store
  <1>2. handler' = [handler EXCEPT ![d] = Idle] /\ orphans' = orphans
    BY DEF TellChange
  <1>3. \A c \in Devices : handler'[c] = IF c = d THEN Idle ELSE handler[c]
    BY <1>2 DEF ChatInv, TasksTyped
  <1>4. Hands' \subseteq Hands /\ Hands \ {e} \subseteq Hands'
    BY <1>2, <1>3 DEF Hands
  <1> QED
    BY <1>1, <1>4, PreviewsTold

\* So does one whose connection is gone.
LEMMA TellOrphanPreviews ==
    ASSUME ChatInv, PreviewInv, TellOrphan PROVE PreviewInv'
  <1>1. PICK e \in orphans : Tells(e) /\ orphans' = orphans \ {e}
    BY DEF TellOrphan
  <1>2. e \in Changes /\ e \in Hands /\ UNCHANGED <<log, preview, handler>>
    <2>1. e \in Changes /\ UNCHANGED <<log, preview, handler>>
      BY <1>1 DEF TellOrphan, ChatInv, TasksTyped, store
    <2>2. e # Idle
      BY <2>1 DEF Changes, Idle
    <2> QED
      BY <2>1, <2>2 DEF Hands
  <1>3. Hands' \subseteq Hands /\ Hands \ {e} \subseteq Hands'
    BY <1>1, <1>2 DEF Hands
  <1> QED
    BY <1>1, <1>2, <1>3, PreviewsTold

\* A message is added: its content is that of the change that is to be told.
LEMMA InsertPreviews ==
    ASSUME ChatInv, PreviewInv, NEW request \in Requests \cup {None}, NEW user \in People,
           NEW content \in Contents, Insert(request, user, content),
           Hands' = Hands \cup {Created(Len(log) + 1, request, content, "all")},
           Hands \subseteq Changes, UNCHANGED <<unfurls, excused>>
    PROVE  PreviewInv'
  <1> DEFINE row == [request |-> request, user |-> user, content |-> content,
                     deleted |-> FALSE]
             new == Len(log) + 1
             e == Created(new, request, content, "all")
  <1>1. row \in Rows /\ log' = Append(log, row) /\ row.content = content
    BY DEF Rows, Insert
  <1>2. e.op = "created" /\ e.id = new /\ e.content = content /\ e.to = "all"
    BY DEF Created
  <1>3. preview \in Seq(Links) /\ Len(preview) = Len(log) /\ preview' = Append(preview, None)
        /\ Ids = 1..Len(log) /\ Len(log) \in Nat
    BY DEF Insert, ChatInv, LogTyped, Ids
  <1> HIDE DEF row
  <1>4. /\ Ids' = Ids \cup {new} /\ new \notin Ids
        /\ \A id \in Ids : log'[id] = log[id]
        /\ log'[new] = row
    BY <1>1, RowAdded DEF ChatInv
  <1>5. \A id \in Ids : preview'[id] = preview[id]
    BY <1>3
  <1>6. preview'[new] = None
    BY <1>3
  <1>7. Hands' = Hands \cup {e}
    OBVIOUS
  <1> HIDE DEF e, new
  <1>8. (\A x \in Hands : x.id \in Ids) /\ (\A t \in unfurls : t.id \in Ids)
    BY DEF ChatInv, TasksTyped, Changes, Unfurls
  <1>9. Cards'
    BY <1>1, <1>2, <1>4, <1>5, <1>6, <1>7, <1>8 DEF PreviewInv, Cards
  <1>10. ASSUME NEW id \in (Live \ excused)' PROVE (Announced(id) \/ Looked(id))'
    <2>1. CASE id = new
      <3>1. e \in Hands' /\ e.id = id /\ e.to = "all"
        BY <1>2, <1>7, <2>1
      <3>2. e \in Untold(id)'
        BY <3>1 DEF Untold, Hands
      <3>3. log'[id].content = content
        BY <1>1, <1>4, <2>1
      <3> QED
        BY <1>2, <3>2, <3>3 DEF Announced
    <2>2. CASE id # new
      <3>1. id \in Ids /\ id \in Live \ excused
        BY <1>4, <1>10, <2>2 DEF Live, Ids
      <3>2. Untold(id)' = Untold(id)
        BY <1>2, <1>7, <2>2 DEF Untold, Hands
      <3>3. Looking(id)' = Looking(id)
        BY DEF Looking
      <3>4. log'[id] = log[id] /\ preview'[id] = preview[id]
        BY <1>4, <1>5, <3>1
      <3>5. Announced(id) \/ Looked(id)
        BY <3>1 DEF PreviewInv, Followed
      <3> QED
        BY <3>2, <3>3, <3>4, <3>5 DEF Announced, Looked
    <2> QED
      BY <2>1, <2>2
  <1> QED
    BY <1>9, <1>10 DEF PreviewInv, Followed

\* What is on hand is a change.
LEMMA HandsTyped == ASSUME TasksTyped PROVE Hands \subseteq Changes
  BY DEF TasksTyped, Hands

\* A message created, or a card posted: the row and its creation to be told.
LEMMA CreationInserts ==
    ASSUME ChatInv, (\E d \in Devices : CreateNew(d)) \/ PostCard
    PROVE  \E request \in Requests \cup {None}, user \in People, content \in Contents :
              /\ Insert(request, user, content)
              /\ Hands' = Hands \cup {Created(Len(log) + 1, request, content, "all")}
  <1>1. ASSUME NEW d \in Devices, CreateNew(d)
        PROVE  \E request \in Requests \cup {None}, user \in People, content \in Contents :
                  /\ Insert(request, user, content)
                  /\ Hands' = Hands \cup {Created(Len(log) + 1, request, content, "all")}
    <2>1. PICK r \in Requests, c \in Contents : r = Frame(d).request /\ c = Frame(d).content
      BY <1>1, FrameTyped DEF ChatInv, CreateNew
    <2>2. User[d] \in People /\ Insert(r, User[d], c) /\ orphans' = orphans
      BY <1>1, <2>1 DEF People, CreateNew
    <2>3. /\ handler[d] = Idle
          /\ handler' = [handler EXCEPT ![d] = Created(Len(log) + 1, r, c, "all")]
      BY <1>1, <2>1 DEF CreateNew, Handles
    <2>4. Created(Len(log) + 1, r, c, "all").op # "idle"
      BY DEF Created
    <2>5. Hands' = Hands \cup {Created(Len(log) + 1, r, c, "all")}
      BY <2>2, <2>3, <2>4, HandTaken DEF ChatInv
    <2> QED
      BY <2>2, <2>5
  <1>2. ASSUME PostCard
        PROVE  \E request \in Requests \cup {None}, user \in People, content \in Contents :
                  /\ Insert(request, user, content)
                  /\ Hands' = Hands \cup {Created(Len(log) + 1, request, content, "all")}
    <2>1. "bot" \in People /\ "card" \in Contents
      BY ChatAssumption DEF People
    <2>2. /\ Insert(None, "bot", "card") /\ UNCHANGED handler
          /\ orphans' = orphans \cup {Created(Len(log) + 1, None, "card", "all")}
      BY <1>2 DEF PostCard
    <2>3. Created(Len(log) + 1, None, "card", "all") # Idle
      BY DEF Created, Idle
    <2>4. Hands' = Hands \cup {Created(Len(log) + 1, None, "card", "all")}
      BY <2>2, <2>3 DEF Hands
    <2> QED
      BY <2>1, <2>2, <2>4
  <1> QED
    BY <1>1, <1>2

\* A message is created, or a card posted.
LEMMA CreationPreviews ==
    ASSUME ChatInv, PreviewInv, (\E d \in Devices : CreateNew(d)) \/ PostCard
    PROVE  PreviewInv'
  <1>1. PICK request \in Requests \cup {None}, user \in People, content \in Contents :
           /\ Insert(request, user, content)
           /\ Hands' = Hands \cup {Created(Len(log) + 1, request, content, "all")}
    BY CreationInserts
  <1>2. Hands \subseteq Changes
    BY HandsTyped DEF ChatInv
  <1>3. UNCHANGED <<unfurls, excused>>
    BY DEF CreateNew, PostCard
  <1> QED
    BY <1>1, <1>2, <1>3, InsertPreviews

\* A retry, an edit or a deletion, of a row that is there.
LEMMA AnswerPreviews ==
    ASSUME ChatInv, PreviewInv, NEW d \in Devices, CreateAgain(d) PROVE PreviewInv'
  <1>1. PICK id \in Ids :
           handler' = [handler EXCEPT ![d] =
                          Created(id, Frame(d).request, log[id].content, User[d])]
    BY DEF CreateAgain, Existing, Ids
  <1> DEFINE e == Created(id, Frame(d).request, log[id].content, User[d])
  <1>2. e.op = "created" /\ e.id = id /\ e.content = log[id].content
    BY DEF Created
  <1>3. UNCHANGED <<log, preview, orphans, unfurls, excused>> /\ handler[d] = Idle
    BY DEF CreateAgain, Handles, store
  <1> HIDE DEF e
  <1>4. Hands' = Hands \cup {e}
    BY <1>1, <1>2, <1>3, HandTaken DEF ChatInv, e
  <1>5. Ids' = Ids /\ Live' = Live
    BY <1>3 DEF Ids, Live
  <1>6. Cards'
    BY <1>2, <1>3, <1>4, <1>5 DEF PreviewInv, Cards
  <1>7. ASSUME NEW i \in Live \ excused PROVE (Announced(i) \/ Looked(i))'
    <2>1. Untold(i) \subseteq Untold(i)'
      BY <1>4 DEF Untold, Hands
    <2>2. Looking(i)' = Looking(i)
      BY <1>3 DEF Looking
    <2>3. Announced(i) \/ Looked(i)
      BY DEF PreviewInv, Followed
    <2> QED
      BY <1>3, <2>1, <2>2, <2>3 DEF Announced, Looked
  <1> QED
    BY <1>3, <1>5, <1>6, <1>7 DEF PreviewInv, Followed

\* The row of an edit has the content that is to be told, and no edit makes it a
\* card's; a row that is deleted is no longer live.
LEMMA ChangePreviews ==
    ASSUME ChatInv, PreviewInv, NEW d \in Devices, HandleEdit(d) \/ HandleDelete(d)
    PROVE  PreviewInv'
  <1>1. PICK id \in Ids : /\ id = Frame(d).id
                          /\ HandleEdit(d) => Frame(d).content \in Contents \ {"card"}
    BY FrameTyped DEF ChatInv, HandleEdit, HandleDelete
  <1>2. UNCHANGED <<preview, orphans, unfurls, excused>> /\ handler[d] = Idle
    BY DEF HandleEdit, HandleDelete, Handles
  <1>3. CASE ~Mine(d, id)
    <2>1. UNCHANGED <<log, handler>>
      BY <1>1, <1>3 DEF HandleEdit, HandleDelete
    <2> QED
      BY <1>2, <2>1, PreviewsUntouched DEF Hands
  <1>4. \A i \in Ids : log[i] \in Rows
    BY DEF ChatInv, LogTyped, Ids
  <1>5. CASE Mine(d, id) /\ HandleEdit(d)
    <2>1. PICK c \in Contents \ {"card"} : c = Frame(d).content
      BY <1>1, <1>5
    <2> DEFINE e == [op |-> "edited", id |-> id, content |-> c, to |-> "all"]
    <2>2. log' = [log EXCEPT ![id].content = c] /\ handler' = [handler EXCEPT ![d] = e]
      BY <1>1, <1>5, <2>1 DEF HandleEdit
    <2>3. e.op = "edited" /\ e.id = id /\ e.content = c /\ e.to = "all"
      OBVIOUS
    <2> HIDE DEF e
    <2>4. Hands' = Hands \cup {e}
      BY <1>2, <2>2, <2>3, HandTaken DEF ChatInv
    <2>5. Ids' = Ids /\ \A i \in Ids : /\ i # id => log'[i] = log[i]
                                       /\ log'[id].content = c
      BY <1>1, <1>4, <2>2 DEF Ids, Rows
    <2>6. Cards'
      <3>1. \A x \in Hands : x.id \in Ids
        BY HandsTyped DEF ChatInv, Changes
      <3>2. \A t \in unfurls : t.id \in Ids
        BY DEF ChatInv, TasksTyped, Unfurls
      <3> QED
        BY <1>2, <2>1, <2>3, <2>4, <2>5, <3>1, <3>2 DEF PreviewInv, Cards
    <2>7. ASSUME NEW i \in (Live \ excused)' PROVE (Announced(i) \/ Looked(i))'
      <3>1. i \in Ids
        BY <2>5, <2>7 DEF Live, Ids
      <3>2. CASE i = id
        <4>1. e \in Untold(id)'
          BY <2>3, <2>4 DEF Untold, Hands
        <4> QED
          BY <2>3, <2>5, <3>1, <3>2, <4>1 DEF Announced
      <3>3. CASE i # id
        <4>1. log'[i] = log[i] /\ i \in Live \ excused
          BY <1>2, <2>5, <2>7, <3>1, <3>3 DEF Live, Ids
        <4>2. Untold(i) \subseteq Untold(i)'
          BY <2>4 DEF Untold, Hands
        <4>3. Looking(i)' = Looking(i)
          BY <1>2 DEF Looking
        <4>4. Announced(i) \/ Looked(i)
          BY <4>1 DEF PreviewInv, Followed
        <4> QED
          BY <1>2, <4>1, <4>2, <4>3, <4>4 DEF Announced, Looked
      <3> QED
        BY <3>2, <3>3
    <2> QED
      BY <2>6, <2>7 DEF PreviewInv, Followed
  <1>6. CASE Mine(d, id) /\ HandleDelete(d)
    <2> DEFINE e == [op |-> "deleted", id |-> id, to |-> "all"]
    <2>1. log' = [log EXCEPT ![id].deleted = TRUE] /\ handler' = [handler EXCEPT ![d] = e]
      BY <1>1, <1>6 DEF HandleDelete
    <2>2. e.op = "deleted"
      OBVIOUS
    <2> HIDE DEF e
    <2>3. Hands' = Hands \cup {e}
      BY <1>2, <2>1, <2>2, HandTaken DEF ChatInv
    <2>4. Ids' = Ids /\ \A i \in Ids : /\ log'[i].content = log[i].content
                                       /\ log'[i].deleted = (i = id \/ log[i].deleted)
      <3>1. Ids' = Ids /\ \A i \in Ids : i # id => log'[i] = log[i]
        BY <1>1, <2>1 DEF Ids
      <3>2. log'[id].content = log[id].content /\ log'[id].deleted = TRUE
        BY <1>1, <1>4, <2>1 DEF Ids, Rows
      <3>3. \A i \in Ids : log[i].deleted \in BOOLEAN
        BY <1>4 DEF Rows
      <3> QED
        BY <3>1, <3>2, <3>3
    <2>5. Cards'
      <3>1. \A x \in Hands : x.id \in Ids
        BY HandsTyped DEF ChatInv, Changes
      <3>2. \A t \in unfurls : t.id \in Ids
        BY DEF ChatInv, TasksTyped, Unfurls
      <3> QED
        BY <1>2, <2>2, <2>3, <2>4, <3>1, <3>2 DEF PreviewInv, Cards
    <2>6. ASSUME NEW i \in (Live \ excused)' PROVE (Announced(i) \/ Looked(i))'
      <3>1. i \in Ids /\ i \in Live \ excused
        BY <1>2, <2>4, <2>6 DEF Live, Ids
      <3>2. Untold(i) \subseteq Untold(i)'
        BY <2>3 DEF Untold, Hands
      <3>3. Looking(i)' = Looking(i)
        BY <1>2 DEF Looking
      <3>4. Announced(i) \/ Looked(i)
        BY <3>1 DEF PreviewInv, Followed
      <3> QED
        BY <1>2, <2>4, <3>1, <3>2, <3>3, <3>4 DEF Announced, Looked
    <2> QED
      BY <2>5, <2>6 DEF PreviewInv, Followed
  <1> QED
    BY <1>3, <1>5, <1>6

\* The steps of a task: a preview that is stored is that of the content the task
\* looked up, and a lookup that fails excuses its message.
LEMMA UnfurlPreviews ==
    ASSUME ChatInv, PreviewInv, UnfurlStep PROVE PreviewInv'
  <1>1. PICK t \in unfurls :
           \/ /\ StorePreview(t) \/ RemovePreview(t) \/ GiveUpPreview(t)
              /\ UNCHANGED <<log, handler, orphans>>
           \/ /\ TellPreview(t) \/ TellPreviewToNobody(t)
              /\ UNCHANGED <<store, handler, orphans, excused>>
    BY DEF UnfurlStep
  <1>2. t \in Unfurls /\ t.id \in Ids
    BY DEF ChatInv, TasksTyped, Unfurls
  <1>3. log' = log /\ Hands' = Hands /\ Ids' = Ids /\ Live' = Live
    BY <1>1 DEF store, Hands, Ids, Live
  <1>4. \A id : Untold(id)' = Untold(id)
    BY <1>1 DEF Untold, Hands
  <1>5. ASSUME NEW link \in Links, link = Link[t.content], t.at = "looking",
               \A id \in Ids : preview'[id] = IF id = t.id THEN link ELSE preview[id],
               unfurls' = unfurls \ {t}
                 \/ unfurls' = (unfurls \ {t}) \cup {[t EXCEPT !.at = "telling", !.link = link]},
               UNCHANGED excused
        PROVE  PreviewInv'
    <2> DEFINE told == [t EXCEPT !.at = "telling", !.link = link]
    <2>1. told.id = t.id /\ told.at = "telling"
      BY <1>2 DEF Unfurls
    <2> HIDE DEF told
    <2>2. unfurls' \subseteq (unfurls \ {t}) \cup {told} /\ unfurls \ {t} \subseteq unfurls'
      BY <1>5 DEF told
    <2>3. Cards'
      BY <1>3, <1>5, <2>1, <2>2 DEF PreviewInv, Cards
    <2>4. ASSUME NEW id \in Live \ excused, Looked(id) PROVE Looked(id)'
      <3>1. id \in Ids
        BY DEF Live, Ids
      <3>2. Looking(id)' = Looking(id) \ {t}
        BY <2>1, <2>2 DEF Looking
      <3>3. CASE id = t.id
        <4>1. t.content = log[id].content
          BY <1>5, <2>4, <3>3 DEF Looked, Looking
        <4> QED
          BY <1>3, <1>5, <2>4, <3>1, <3>2, <3>3, <4>1 DEF Looked
      <3>4. CASE id # t.id
        <4>1. Looking(id)' = Looking(id)
          BY <3>2, <3>4 DEF Looking
        <4> QED
          BY <1>3, <1>5, <2>4, <3>1, <3>4, <4>1 DEF Looked
      <3> QED
        BY <3>3, <3>4
    <2>5. ASSUME NEW id \in Live \ excused PROVE (Announced(id) \/ Looked(id))'
      <3>1. Announced(id) => Announced(id)'
        BY <1>3, <1>4 DEF Announced
      <3> QED
        BY <2>4, <2>5, <3>1 DEF PreviewInv, Followed
    <2> QED
      BY <1>3, <1>5, <2>3, <2>5 DEF PreviewInv, Followed
  <1>6. /\ preview \in Seq(Links) /\ Len(preview) = Len(log) /\ Ids = 1..Len(log)
        /\ DOMAIN preview = Ids
    <2>1. /\ log \in Seq(Rows) /\ preview \in Seq(Links) /\ Len(preview) = Len(log)
      BY DEF ChatInv, LogTyped
    <2> QED
      BY <2>1 DEF Ids
  <1>7. Link[t.content] \in Links
    BY <1>2, ChatAssumption DEF Links, Unfurls
  <1>8. CASE StorePreview(t)
    <2>1. \A id \in Ids : preview'[id] = IF id = t.id THEN Link[t.content] ELSE preview[id]
      BY <1>2, <1>6, <1>8 DEF StorePreview, SetPreview
    <2> QED
      BY <1>5, <1>7, <1>8, <2>1 DEF StorePreview, Turn
  <1>9. CASE RemovePreview(t)
    <2>1. Link[t.content] = None
      BY <1>9 DEF RemovePreview, HasLink
    <2>2. \A id \in Ids : preview'[id] = IF id = t.id THEN Link[t.content] ELSE preview[id]
      BY <1>2, <1>6, <1>9, <2>1 DEF RemovePreview, SetPreview
    <2> QED
      BY <1>5, <1>7, <1>9, <2>1, <2>2 DEF RemovePreview, Turn
  <1>10. CASE GiveUpPreview(t)
    <2>1. /\ unfurls' = unfurls \ {t} /\ preview' = preview /\ t.at = "looking"
          /\ excused' = IF preview[t.id] = Link[t.content] THEN excused ELSE excused \cup {t.id}
      BY <1>10 DEF GiveUpPreview
    <2>2. CASE preview[t.id] = Link[t.content]
      BY <1>5, <1>7, <2>1, <2>2
    <2>3. CASE preview[t.id] # Link[t.content]
      <3>1. excused' = excused \cup {t.id}
        BY <2>1, <2>3
      <3>2. Cards'
        BY <1>3, <2>1 DEF PreviewInv, Cards
      <3>3. ASSUME NEW id \in Live \ excused' PROVE (Announced(id) \/ Looked(id))'
        <4>1. id # t.id /\ (Announced(id) \/ Looked(id))
          BY <3>1, <3>3 DEF PreviewInv, Followed
        <4>2. Looking(id)' = Looking(id)
          BY <2>1, <4>1 DEF Looking
        <4> QED
          BY <1>3, <1>4, <2>1, <4>1, <4>2 DEF Announced, Looked
      <3> QED
        BY <1>3, <3>1, <3>2, <3>3 DEF PreviewInv, Followed
    <2> QED
      BY <2>2, <2>3
  <1>11. CASE (TellPreview(t) \/ TellPreviewToNobody(t)) /\ UNCHANGED <<store, excused>>
    <2>1. unfurls' = unfurls \ {t} /\ t.at = "telling" /\ UNCHANGED <<preview, excused>>
      BY <1>11 DEF TellPreview, TellPreviewToNobody, store
    <2>2. Cards'
      BY <1>3, <2>1 DEF PreviewInv, Cards
    <2>3. ASSUME NEW id \in Live \ excused PROVE (Announced(id) \/ Looked(id))'
      <3>1. Announced(id) \/ Looked(id)
        BY DEF PreviewInv, Followed
      <3>2. Looking(id)' = Looking(id)
        BY <2>1 DEF Looking
      <3> QED
        BY <1>3, <1>4, <2>1, <3>1, <3>2 DEF Announced, Looked
    <2> QED
      BY <1>3, <2>1, <2>2, <2>3 DEF PreviewInv, Followed
  <1> QED
    BY <1>1, <1>8, <1>9, <1>10, <1>11

\* A connection that drops leaves its handler's change to an orphan; a restart
\* forgets changes and tasks, and excuses their messages.
LEMMA LossPreviews ==
    ASSUME ChatInv, PreviewInv, (\E d \in Devices : Drop(d)) \/ Restart PROVE PreviewInv'
  <1>1. ASSUME NEW d \in Devices, Drop(d) PROVE PreviewInv'
    <2>1. /\ orphans' = IF handler[d] = Idle THEN orphans ELSE orphans \cup {handler[d]}
          /\ handler' = [handler EXCEPT ![d] = Idle]
          /\ UNCHANGED <<log, preview, unfurls, excused>>
      BY <1>1 DEF Drop, store
    <2>2. \A c \in Devices : handler'[c] = IF c = d THEN Idle ELSE handler[c]
      BY <2>1 DEF ChatInv, TasksTyped
    <2>3. Hands' = Hands
      BY <2>1, <2>2 DEF Hands
    <2> QED
      BY <2>1, <2>3, PreviewsUntouched
  <1>2. ASSUME Restart PROVE PreviewInv'
    <2>1. /\ handler' = [d \in Devices |-> Idle] /\ orphans' = {} /\ unfurls' = {}
          /\ excused' = excused \cup {t.id : t \in unfurls} \cup {e.id : e \in Hands}
          /\ UNCHANGED <<log, preview>>
      BY <1>2 DEF Restart, Hands
    <2>2. Hands' = {} /\ Ids' = Ids /\ Live' = Live
      BY <2>1 DEF Hands, Ids, Live
    <2>3. Cards'
      BY <2>1, <2>2 DEF PreviewInv, Cards
    <2>4. ASSUME NEW id \in Live \ excused' PROVE Looked(id)'
      <3>1. Looking(id) = {} /\ Looking(id)' = {}
        BY <2>1, <2>4 DEF Looking
      <3>2. Untold(id) = {}
        BY <2>1, <2>4 DEF Untold, Hands
      <3>3. Looked(id)
        BY <2>1, <2>4, <3>2 DEF PreviewInv, Followed, Announced
      <3> QED
        BY <2>1, <3>1, <3>3 DEF Looked
    <2> QED
      BY <2>2, <2>3, <2>4 DEF PreviewInv, Followed
  <1> QED
    BY <1>1, <1>2

\* Every step keeps the previews followed.
LEMMA StepPreviews ==
    ASSUME ChatInv, PreviewInv, [Next]_vars PROVE PreviewInv'
  <1> DEFINE Quietly == UNCHANGED <<log, preview, unfurls, excused, handler, orphans>>
  <1>1. Quietly => PreviewInv'
    BY PreviewsUntouched DEF Hands
  <1>2. CASE UserActs
    <2>1. ASSUME NEW r \in Requests, SubmitMessage(r) \/ CancelMessage(r) \/ RetryMessage(r)
          PROVE  Quietly
      BY <2>1 DEF SubmitMessage, CancelMessage, RetryMessage, SendOptimistic,
         store, tasks
    <2>2. ASSUME NEW d \in Devices, LeaveChannel(d) \/ ChooseChannel(d) PROVE Quietly
      BY <2>2 DEF LeaveChannel, ChooseChannel, store, tasks
    <2>3. ASSUME NEW d \in Devices, NEW id \in DOMAIN view[d].shown,
                 \/ DeleteMessage(d, id)
                 \/ \E content \in Contents \ {"card"} : EditMessage(d, id, content)
          PROVE  Quietly
      BY <2>3 DEF DeleteMessage, EditMessage, store, tasks
    <2> QED
      BY <1>1, <1>2, <2>1, <2>2, <2>3 DEF UserActs
  <1>3. ASSUME NEW d \in Devices, Handle(d) \/ CreateFails(d) \/ ChangeFails(d) \/ TellChange(d)
        PROVE  PreviewInv'
    <2>1. CASE RefuseFiles(d) \/ CreateFails(d) \/ ChangeFails(d)
      BY <1>1, <2>1 DEF RefuseFiles, CreateFails, ChangeFails, store, tasks
    <2> QED
      BY <1>3, <2>1, CreationPreviews, AnswerPreviews, ChangePreviews,
         TellChangePreviews
         DEF Handle
  <1>4. CASE TellOrphan \/ UnfurlStep \/ PostCard
    BY <1>4, TellOrphanPreviews, UnfurlPreviews, CreationPreviews
  <1>5. CASE ScanUnattached \/ Cleanup
    BY <1>1, <1>5 DEF ScanUnattached, Cleanup, DeleteUnattached, RemoveFile, tasks
  <1>6. CASE \E d \in Devices : LoadHistory(d) \/ HistoryFails(d) \/ Receive(d)
    BY <1>1, <1>6 DEF LoadHistory, HistoryFails, Receive, store, tasks
  <1>7. CASE (\E r \in Requests : TimerFires(r)) \/ \E d \in Devices : Reconnect(d)
    BY <1>1, <1>7 DEF TimerFires, Reconnect, store, tasks
  <1>8. CASE (\E d \in Devices : Drop(d)) \/ Restart
    BY <1>8, LossPreviews
  <1>9. CASE UNCHANGED vars
    BY <1>1, <1>9 DEF vars, store, tasks
  <1> QED
    BY <1>2, <1>3, <1>4, <1>5, <1>6, <1>7, <1>8, <1>9 DEF Next

\* spawn_unfurl_task runs outside the handler's order, and yet a message that is
\* settled has the preview of the link it says now, or none: the lookup of its last
\* content came last -- unless the fetch, the store or the removal that would have
\* changed the preview failed (the code then leaves the old one, tells nobody and
\* does not try again), it was lost with the server, or two lookups ran together.
THEOREM PreviewsFollow == Spec => []PreviewFollowsContent
  <1>1. Init => PreviewInv
    <2> SUFFICES ASSUME Init PROVE PreviewInv
      OBVIOUS
    <2>1. Hands = {} /\ Ids = {} /\ Live = {} /\ unfurls = {}
      BY DEF Init, Hands, Ids, Live
    <2> QED
      BY <2>1 DEF PreviewInv, Cards, Followed
  <1>2. ChatInv /\ PreviewInv /\ [Next]_vars => PreviewInv'
    BY StepPreviews
  <1>3. PreviewInv => PreviewFollowsContent
    <2> SUFFICES ASSUME PreviewInv, NEW id \in Live \ excused, Settled(id)
                 PROVE  preview[id] = Link[log[id].content]
      BY DEF PreviewFollowsContent
    <2>1. ~Announced(id) /\ Looking(id) = {}
      BY DEF Settled, Announced, Looking
    <2> QED
      BY <2>1 DEF PreviewInv, Followed, Looked
  <1> QED
    BY <1>1, <1>2, <1>3, ChatAlways, PTL DEF Spec

-----------------------------------------------------------------------------
(* The windows. *)

\* A connection's events are all of one kind, or the last that is of another kind
\* is of the third.
Only(q, S)    == \A j \in 1..Len(q) : q[j] \in S
Ends(q, S, T) == \E p \in 1..Len(q) : q[p] \in T /\ \A j \in (p + 1)..Len(q) : q[j] \in S

\* An event is queued.
LEMMA QueueGrows ==
    ASSUME NEW E, NEW q \in Seq(E), NEW e \in E, NEW S, NEW T
    PROVE  /\ e \in S /\ Only(q, S) => Only(Append(q, e), S)
           /\ e \in S /\ Ends(q, S, T) => Ends(Append(q, e), S, T)
           /\ e \in T => Ends(Append(q, e), S, T)
  <1>1. /\ Len(q) \in Nat /\ Len(Append(q, e)) = Len(q) + 1
        /\ \A j \in 1..Len(q) : Append(q, e)[j] = q[j]
        /\ Append(q, e)[Len(q) + 1] = e
    OBVIOUS
  <1>2. e \in S /\ Only(q, S) => Only(Append(q, e), S)
    BY <1>1 DEF Only
  <1>3. ASSUME e \in S, Ends(q, S, T) PROVE Ends(Append(q, e), S, T)
    <2>1. PICK p \in 1..Len(q) : q[p] \in T /\ \A j \in (p + 1)..Len(q) : q[j] \in S
      BY <1>3 DEF Ends
    <2>2. p \in 1..(Len(q) + 1) /\ Append(q, e)[p] \in T
      BY <1>1, <2>1
    <2>3. \A j \in (p + 1)..(Len(q) + 1) : Append(q, e)[j] \in S
      BY <1>1, <1>3, <2>1
    <2> QED
      BY <1>1, <2>2, <2>3 DEF Ends
  <1>4. ASSUME e \in T PROVE Ends(Append(q, e), S, T)
    <2>1. Len(q) + 1 \in 1..(Len(q) + 1)
      BY <1>1
    <2>2. (Len(q) + 1 + 1)..(Len(q) + 1) = {}
      BY <1>1
    <2> QED
      BY <1>1, <1>4, <2>1, <2>2 DEF Ends
  <1> QED
    BY <1>2, <1>3, <1>4

\* The first event is taken.
LEMMA QueueShrinks ==
    ASSUME NEW E, NEW q \in Seq(E), q # <<>>, NEW S, NEW T
    PROVE  /\ Only(q, S) => q[1] \in S /\ Only(Tail(q), S)
           /\ Ends(q, S, T) => Ends(Tail(q), S, T) \/ (q[1] \in T /\ Only(Tail(q), S))
  <1>1. /\ Len(q) \in Nat /\ Len(q) >= 1 /\ Len(Tail(q)) = Len(q) - 1
        /\ \A j \in 1..(Len(q) - 1) : Tail(q)[j] = q[j + 1]
    OBVIOUS
  <1>2. Only(q, S) => q[1] \in S /\ Only(Tail(q), S)
    <2> SUFFICES ASSUME Only(q, S) PROVE q[1] \in S /\ Only(Tail(q), S)
      OBVIOUS
    <2>1. q[1] \in S
      BY <1>1 DEF Only
    <2>2. \A j \in 1..(Len(q) - 1) : q[j + 1] \in S
      BY <1>1 DEF Only
    <2> QED
      BY <1>1, <2>1, <2>2 DEF Only
  <1>3. ASSUME Ends(q, S, T) PROVE Ends(Tail(q), S, T) \/ (q[1] \in T /\ Only(Tail(q), S))
    <2>1. PICK p \in 1..Len(q) : q[p] \in T /\ \A j \in (p + 1)..Len(q) : q[j] \in S
      BY <1>3 DEF Ends
    <2>2. CASE p = 1
      <3>1. \A j \in 1..(Len(q) - 1) : q[j + 1] \in S
        BY <1>1, <2>1, <2>2
      <3>2. Only(Tail(q), S)
        BY <1>1, <3>1 DEF Only
      <3> QED
        BY <2>1, <2>2, <3>2
    <2>3. CASE p # 1
      <3>1. p - 1 \in 1..(Len(q) - 1) /\ Tail(q)[p - 1] = q[p]
        BY <1>1, <2>1, <2>3
      <3>2. \A j \in ((p - 1) + 1)..(Len(q) - 1) : Tail(q)[j] \in S
        BY <1>1, <2>1, <2>3
      <3> QED
        BY <1>1, <2>1, <3>1, <3>2 DEF Ends
    <2> QED
      BY <2>2, <2>3
  <1> QED
    BY <1>2, <1>3

\* More events count as of the kinds.
LEMMA QueueWider ==
    ASSUME NEW q, NEW S, NEW T, NEW S2, NEW T2, S \subseteq S2, T \subseteq T2
    PROVE  /\ Only(q, S) => Only(q, S2)
           /\ Ends(q, S, T) => Ends(q, S2, T2)
  BY DEF Only, Ends

\* Some events of the one kind are queued.
LEMMA QueueJoined ==
    ASSUME NEW E, NEW q \in Seq(E), NEW r \in Seq(E), NEW S, NEW T, Only(r, S)
    PROVE  /\ Only(q, S) => Only(q \o r, S)
           /\ Ends(q, S, T) => Ends(q \o r, S, T)
  <1>1. /\ Len(q) \in Nat /\ Len(r) \in Nat /\ Len(q \o r) = Len(q) + Len(r)
        /\ \A j \in 1..(Len(q) + Len(r)) :
              (q \o r)[j] = IF j <= Len(q) THEN q[j] ELSE r[j - Len(q)]
    OBVIOUS
  <1>2. ASSUME NEW j \in 1..(Len(q) + Len(r)), j > Len(q) PROVE (q \o r)[j] \in S
    <2>1. j - Len(q) \in 1..Len(r)
      BY <1>1, <1>2
    <2> QED
      BY <1>1, <1>2, <2>1 DEF Only
  <1>3. Only(q, S) => Only(q \o r, S)
    <2> SUFFICES ASSUME Only(q, S), NEW j \in 1..(Len(q) + Len(r)) PROVE (q \o r)[j] \in S
      BY <1>1 DEF Only
    <2> QED
      BY <1>1, <1>2 DEF Only
  <1>4. ASSUME Ends(q, S, T) PROVE Ends(q \o r, S, T)
    <2>1. PICK p \in 1..Len(q) : q[p] \in T /\ \A j \in (p + 1)..Len(q) : q[j] \in S
      BY <1>4 DEF Ends
    <2>2. p \in 1..(Len(q) + Len(r)) /\ (q \o r)[p] \in T
      BY <1>1, <2>1
    <2>3. ASSUME NEW j \in (p + 1)..(Len(q) + Len(r)) PROVE (q \o r)[j] \in S
      <3>1. CASE j <= Len(q)
        BY <1>1, <2>1, <2>2, <2>3, <3>1
      <3>2. CASE j > Len(q)
        BY <1>1, <1>2, <2>1, <2>3, <3>2
      <3> QED
        BY <1>1, <2>3, <3>1, <3>2
    <2> QED
      BY <1>1, <2>2, <2>3 DEF Ends
  <1> QED
    BY <1>3, <1>4

\* What is told of a message and leaves it, wherever it is shown, as it is stored,
\* and what makes it so: of the content, and of the link.
KeepsContent(id) ==
    {e \in Events : e.op \in {"created", "edited"} /\ e.id = id =>
        IF log[id].deleted THEN e.op = "edited" ELSE e.content = log[id].content}

MendsContent(id) ==
    {e \in Events : /\ e.op \in {"edited", "deleted"} /\ e.id = id
                    /\ IF log[id].deleted THEN e.op = "deleted"
                       ELSE e.op = "edited" /\ e.content = log[id].content}

KeepsLink(id) ==
    {e \in Events : /\ e.op = "created" /\ e.id = id => preview[id] = None
                    /\ e.op = "preview" /\ e.id = id => e.link = preview[id]}

MendsLink(id) == {e \in Events : e.op = "preview" /\ e.id = id /\ e.link = preview[id]}

\* What is yet to be told of it: its content or its end, its link, its creation.
Mends(id)     == \E e \in Untold(id) : Settles(e)
Relinks(id)   == \E t \in UntoldPreviews(id) : t.link = preview[id]
Announces(id) == \E e \in Untold(id) : e.op = "created"

Out(d) == socket[d].out

Coming(d, id) == \E j \in 1..Len(Out(d)) : Out(d)[j].op = "created" /\ Out(d)[j].id = id

\* What waits on the connection does not make a right window wrong, unless what is
\* yet to be told makes up for it.
HearsContent(d, id) ==
    \/ Mends(id)
    \/ Ends(Out(d), KeepsContent(id), MendsContent(id))
    \/ Only(Out(d), KeepsContent(id))

HearsLink(d, id) ==
    id \in Live => \/ Relinks(id)
                   \/ Ends(Out(d), KeepsLink(id), MendsLink(id))
                   \/ Only(Out(d), KeepsLink(id))

\* The window is right, or what waits or is yet to be told makes it right.
ContentFits(content, shown, id) ==
    IF log[id].deleted THEN id \notin shown ELSE id \in shown => content = log[id].content

FitsContent(d, id) ==
    \/ Mends(id)
    \/ Ends(Out(d), KeepsContent(id), MendsContent(id))
    \/ ContentFits(view[d].shown[id].content, DOMAIN view[d].shown, id)

FitsLink(d, id) ==
    id \in Live => \/ Relinks(id)
                   \/ Ends(Out(d), KeepsLink(id), MendsLink(id))
                   \/ id \in DOMAIN view[d].shown => view[d].shown[id].link = preview[id]

FitsRow(d, id) ==
    id \in Live => id \in DOMAIN view[d].shown \/ Announces(id) \/ Coming(d, id)

\* So is the page, but for what is yet to be told.
PageFits(l, id) ==
    /\ Mends(id) \/ ContentFits(IF l.at = "rows" THEN l.page[id] ELSE l.page[id].content,
                                DOMAIN l.page, id)
    /\ id \in Live => id \in DOMAIN l.page \/ Announces(id)
    /\ id \in Live /\ l.at = "page" =>
          Relinks(id) \/ (id \in DOMAIN l.page => l.page[id].link = preview[id])

\* The pages on their way that can be relied on.
Clean(d) == {l \in loads[d] : ~l.dirty /\ l.at \in {"rows", "page"}}

WindowFits(d, id) ==
    /\ missed[d] = {} \/ Clean(d) # {} => HearsContent(d, id) /\ HearsLink(d, id)
    /\ missed[d] = {} /\ Open(d) => FitsContent(d, id) /\ FitsLink(d, id) /\ FitsRow(d, id)
    /\ \A l \in Clean(d) : PageFits(l, id)

\* What a window shows and a page brings, and the deletions that are told.
IsEntry(x) == x = [content |-> x.content, link |-> x.link]

IsPage(f) == f = [id \in DOMAIN f |-> f[id]] /\ \A id \in DOMAIN f : IsEntry(f[id])

Entries ==
    \A d \in Devices :
       IsPage(view[d].shown) /\ \A l \in loads[d] : l.at = "page" => IsPage(l.page)

Deletions ==
    /\ \A e \in Hands : e.op = "deleted" => log[e.id].deleted
    /\ \A d \in Devices : \A j \in 1..Len(Out(d)) :
          Out(d)[j].op = "deleted" => log[Out(d)[j].id].deleted

WindowInv ==
    /\ missed = [d \in Devices |-> missed[d]]
    /\ Entries /\ Deletions
    /\ \A d \in Devices, id \in Ids : WindowFits(d, id)

\* A step after which nothing less is known of a message than before: it is stored
\* as it was, or what is yet to be told makes up for it.
ContentSteady(id) ==
    \/ Mends(id)'
    \/ /\ log'[id].deleted = log[id].deleted /\ log'[id].content = log[id].content
       /\ Mends(id) => Mends(id)'

LinkSteady(id) == Relinks(id)' \/ (preview'[id] = preview[id] /\ (Relinks(id) => Relinks(id)'))

RowSteady(id) == (id \in Live' => id \in Live) /\ (Announces(id) => Announces(id)')

Steady(id) == ContentSteady(id) /\ LinkSteady(id) /\ RowSteady(id)

\* A step that brings a device no event but an error, and no page.
Errors == [op : {"error"}, request : Requests \cup {None}]

Undisturbed(d) ==
    /\ \/ \E r \in Seq(Errors) : Out(d)' = Out(d) \o r
       \/ Out(d)' = <<>> /\ missed'[d] # {}
    /\ view'[d].shown = view[d].shown /\ (Open(d)' => Open(d) \/ missed'[d] # {})
    /\ missed'[d] = {} => missed[d] = {}
    /\ Clean(d)' \subseteq Clean(d)

\* The kinds of event are no narrower once a message was left as it is.
LEMMA KindsSteady ==
    ASSUME Growth, NEW id \in Ids
    PROVE  /\ ContentSteady(id) /\ ~Mends(id)' =>
                 /\ KeepsContent(id) \subseteq KeepsContent(id)'
                 /\ MendsContent(id) \subseteq MendsContent(id)'
           /\ LinkSteady(id) /\ ~Relinks(id)' =>
                 /\ KeepsLink(id) \subseteq KeepsLink(id)'
                 /\ MendsLink(id) \subseteq MendsLink(id)'
  <1>1. Events \subseteq Events'
    BY Grown
  <1>2. ContentSteady(id) /\ ~Mends(id)' =>
                 /\ KeepsContent(id) \subseteq KeepsContent(id)'
                 /\ MendsContent(id) \subseteq MendsContent(id)'
    BY <1>1 DEF ContentSteady, KeepsContent, MendsContent
  <1>3. LinkSteady(id) /\ ~Relinks(id)' =>
                 /\ KeepsLink(id) \subseteq KeepsLink(id)'
                 /\ MendsLink(id) \subseteq MendsLink(id)'
    BY <1>1 DEF LinkSteady, KeepsLink, MendsLink
  <1> QED
    BY <1>2, <1>3

\* An error is of every kind that changes nothing.
LEMMA ErrorsKeep ==
    ASSUME NEW r \in Seq(Errors), NEW id
    PROVE  r \in Seq(Events) /\ Only(r, KeepsContent(id)) /\ Only(r, KeepsLink(id))
  <1>1. Errors \subseteq Events
    BY DEF Errors, Events
  <1>2. \A e \in Errors : e \in KeepsContent(id) /\ e \in KeepsLink(id)
    BY <1>1 DEF Errors, KeepsContent, KeepsLink
  <1>3. \A j \in 1..Len(r) : r[j] \in Errors
    OBVIOUS
  <1>4. r \in Seq(Events)
    BY <1>1, WiderSeq
  <1> QED
    BY <1>2, <1>3, <1>4 DEF Only

\* The queues of the connections.
LEMMA OutTyped ==
    ASSUME SocketTyped, NEW d \in Devices PROVE Out(d) \in Seq(Events)
  BY DEF SocketTyped, Out

\* What a step leaves of what a device hears.
LEMMA HearingKept ==
    ASSUME SocketTyped, Growth, NEW d \in Devices, NEW id \in Ids, NEW r \in Seq(Errors),
           Out(d)' = Out(d) \o r, Steady(id)
    PROVE  /\ HearsContent(d, id) => HearsContent(d, id)'
           /\ HearsLink(d, id) => HearsLink(d, id)'
           /\ FitsContent(d, id) /\ view'[d].shown = view[d].shown => FitsContent(d, id)'
           /\ FitsLink(d, id) /\ view'[d].shown = view[d].shown => FitsLink(d, id)'
           /\ FitsRow(d, id) /\ view'[d].shown = view[d].shown => FitsRow(d, id)'
  <1>1. Out(d) \in Seq(Events) /\ r \in Seq(Events)
    BY OutTyped, ErrorsKeep
  <1>2. /\ Only(r, KeepsContent(id)) /\ Only(r, KeepsLink(id))
    BY ErrorsKeep
  <1>3. /\ Only(Out(d), KeepsContent(id)) => Only(Out(d)', KeepsContent(id))
        /\ Ends(Out(d), KeepsContent(id), MendsContent(id))
              => Ends(Out(d)', KeepsContent(id), MendsContent(id))
    BY <1>1, <1>2, QueueJoined
  <1>4. /\ Only(Out(d), KeepsLink(id)) => Only(Out(d)', KeepsLink(id))
        /\ Ends(Out(d), KeepsLink(id), MendsLink(id))
              => Ends(Out(d)', KeepsLink(id), MendsLink(id))
    BY <1>1, <1>2, QueueJoined
  <1>5. ASSUME ~Mends(id)'
        PROVE  /\ Only(Out(d), KeepsContent(id)) => Only(Out(d)', KeepsContent(id)')
               /\ Ends(Out(d), KeepsContent(id), MendsContent(id))
                     => Ends(Out(d)', KeepsContent(id)', MendsContent(id)')
    <2>1. /\ KeepsContent(id) \subseteq KeepsContent(id)'
          /\ MendsContent(id) \subseteq MendsContent(id)'
      BY <1>5, KindsSteady DEF Steady
    <2> QED
      BY <1>3, <2>1, QueueWider
  <1>6. ASSUME ~Relinks(id)'
        PROVE  /\ Only(Out(d), KeepsLink(id)) => Only(Out(d)', KeepsLink(id)')
               /\ Ends(Out(d), KeepsLink(id), MendsLink(id))
                     => Ends(Out(d)', KeepsLink(id)', MendsLink(id)')
    <2>1. KeepsLink(id) \subseteq KeepsLink(id)' /\ MendsLink(id) \subseteq MendsLink(id)'
      BY <1>6, KindsSteady DEF Steady
    <2> QED
      BY <1>4, <2>1, QueueWider
  <1>7. /\ Only(Out(d), KeepsContent(id))' <=> Only(Out(d)', KeepsContent(id)')
        /\ Ends(Out(d), KeepsContent(id), MendsContent(id))'
              <=> Ends(Out(d)', KeepsContent(id)', MendsContent(id)')
        /\ Only(Out(d), KeepsLink(id))' <=> Only(Out(d)', KeepsLink(id)')
        /\ Ends(Out(d), KeepsLink(id), MendsLink(id))'
              <=> Ends(Out(d)', KeepsLink(id)', MendsLink(id)')
    BY DEF Only, Ends
  <1>8. HearsContent(d, id) => HearsContent(d, id)'
    BY <1>5, <1>7 DEF HearsContent, Steady, ContentSteady
  <1>9. HearsLink(d, id) => HearsLink(d, id)'
    BY <1>6, <1>7 DEF HearsLink, Steady, LinkSteady, RowSteady
  <1>10. FitsContent(d, id) /\ view'[d].shown = view[d].shown => FitsContent(d, id)'
    <2>1. SUFFICES ASSUME FitsContent(d, id), view'[d].shown = view[d].shown, ~Mends(id)'
                   PROVE  FitsContent(d, id)'
      BY DEF FitsContent
    <2>2. /\ log'[id].deleted = log[id].deleted /\ log'[id].content = log[id].content
          /\ ~Mends(id)
      BY <2>1 DEF Steady, ContentSteady
    <2>3. CASE Ends(Out(d), KeepsContent(id), MendsContent(id))
      BY <1>5, <1>7, <2>1, <2>3 DEF FitsContent
    <2>4. CASE ContentFits(view[d].shown[id].content, DOMAIN view[d].shown, id)
      BY <2>1, <2>2, <2>4 DEF FitsContent, ContentFits
    <2> QED
      BY <2>1, <2>2, <2>3, <2>4 DEF FitsContent
  <1>11. FitsLink(d, id) /\ view'[d].shown = view[d].shown => FitsLink(d, id)'
    <2>1. SUFFICES ASSUME FitsLink(d, id), view'[d].shown = view[d].shown, ~Relinks(id)',
                          id \in Live'
                   PROVE  FitsLink(d, id)'
      BY DEF FitsLink
    <2>2. preview'[id] = preview[id] /\ ~Relinks(id) /\ id \in Live
      BY <2>1 DEF Steady, LinkSteady, RowSteady
    <2> QED
      BY <1>6, <1>7, <2>1, <2>2 DEF FitsLink
  <1>12. FitsRow(d, id) /\ view'[d].shown = view[d].shown => FitsRow(d, id)'
    <2>1. Coming(d, id) => Coming(d, id)'
      <3>1. /\ Len(Out(d)') = Len(Out(d)) + Len(r) /\ Len(Out(d)) \in Nat /\ Len(r) \in Nat
            /\ \A j \in 1..Len(Out(d)) : Out(d)'[j] = Out(d)[j]
        BY <1>1
      <3> QED
        BY <3>1 DEF Coming
    <2> QED
      BY <2>1 DEF FitsRow, Steady, RowSteady
  <1> QED
    BY <1>8, <1>9, <1>10, <1>11, <1>12

\* A page is as right as it was.
LEMMA PageKept ==
    ASSUME NEW l, NEW id \in Ids, PageFits(l, id), Steady(id) PROVE PageFits(l, id)'
  <1>1. Mends(id)' \/ ContentFits(IF l.at = "rows" THEN l.page[id] ELSE l.page[id].content,
                                  DOMAIN l.page, id)'
    BY DEF PageFits, Steady, ContentSteady, ContentFits
  <1>2. id \in Live' => id \in DOMAIN l.page \/ Announces(id)'
    BY DEF PageFits, Steady, RowSteady
  <1>3. id \in Live' /\ l.at = "page" =>
           Relinks(id)' \/ (id \in DOMAIN l.page => l.page[id].link = preview'[id])
    BY DEF PageFits, Steady, RowSteady, LinkSteady
  <1> QED
    BY <1>1, <1>2, <1>3 DEF PageFits

\* So is a device that a step brings nothing.
LEMMA WindowKept ==
    ASSUME SocketTyped, Growth, NEW d \in Devices, NEW id \in Ids, WindowFits(d, id),
           Steady(id), Undisturbed(d)
    PROVE  WindowFits(d, id)'
  <1>1. \A l \in Clean(d)' : PageFits(l, id)'
    BY PageKept DEF WindowFits, Undisturbed
  <1>2. missed'[d] = {} \/ Clean(d)' # {} => missed[d] = {} \/ Clean(d) # {}
    BY DEF Undisturbed
  <1>3. missed'[d] = {} /\ Open(d)' => missed[d] = {} /\ Open(d)
    BY DEF Undisturbed
  <1>4. CASE Out(d)' = <<>> /\ missed'[d] # {}
    <2>1. Only(Out(d), KeepsContent(id))' /\ Only(Out(d), KeepsLink(id))'
      BY <1>4 DEF Only
    <2>2. HearsContent(d, id)' /\ HearsLink(d, id)'
      BY <2>1 DEF HearsContent, HearsLink
    <2> QED
      BY <1>1, <1>4, <2>2 DEF WindowFits
  <1>5. ASSUME NEW r \in Seq(Errors), Out(d)' = Out(d) \o r PROVE WindowFits(d, id)'
    <2>1. view'[d].shown = view[d].shown
      BY DEF Undisturbed
    <2>2. /\ HearsContent(d, id) => HearsContent(d, id)'
          /\ HearsLink(d, id) => HearsLink(d, id)'
          /\ FitsContent(d, id) => FitsContent(d, id)'
          /\ FitsLink(d, id) => FitsLink(d, id)'
          /\ FitsRow(d, id) => FitsRow(d, id)'
      BY <1>5, <2>1, HearingKept
    <2> QED
      BY <1>1, <1>2, <1>3, <2>2 DEF WindowFits
  <1> QED
    BY <1>4, <1>5 DEF Undisturbed

\* A message that is new: nobody has heard of it, and it is yet to be told.
LEMMA WindowOfNew ==
    ASSUME ChatInv, NEW d \in Devices, NEW id \in Ids', id \notin Ids, Announces(id)',
           UNCHANGED <<view, loads, missed>>, Out(d)' = Out(d), preview'[id] = None,
           ~log'[id].deleted, Events \subseteq Events'
    PROVE  WindowFits(d, id)'
  <1>1. Out(d) \in Seq(Events) /\ \A e \in Events : e.op # "error" => e.id # id
    BY OutTyped DEF ChatInv, Events, Changes
  <1>2. \A j \in 1..Len(Out(d)') : Out(d)'[j] \in KeepsContent(id)' /\ Out(d)'[j] \in KeepsLink(id)'
    BY <1>1 DEF KeepsContent, KeepsLink
  <1>3. HearsContent(d, id)' /\ HearsLink(d, id)'
    BY <1>2 DEF HearsContent, HearsLink, Only
  <1>4. id \notin DOMAIN view'[d].shown /\ \A l \in Clean(d)' : id \notin DOMAIN l.page
    BY DEF ChatInv, ViewTyped, Clean
  <1>5. FitsContent(d, id)' /\ FitsLink(d, id)' /\ FitsRow(d, id)'
    BY <1>4 DEF FitsContent, FitsLink, FitsRow, ContentFits
  <1>6. \A l \in Clean(d)' : PageFits(l, id)'
    BY <1>4 DEF PageFits, ContentFits
  <1> QED
    BY <1>3, <1>5, <1>6 DEF WindowFits

\* Whatever stays on hand is true of a deletion, whatever comes is.
LEMMA DeletionsKept ==
    ASSUME ChatInv, Deletions, Growth,
           \A id \in Ids : log[id].deleted => log'[id].deleted,
           \A e \in Hands' \ Hands : e.op = "deleted" => log'[e.id].deleted,
           \A d \in Devices : \/ \E r \in Seq(Errors) : Out(d)' = Out(d) \o r
                              \/ Out(d)' = <<>>
                              \/ Out(d) # <<>> /\ Out(d)' = Tail(Out(d))
                              \/ \E e \in Events : /\ e.op = "deleted" => e \in Hands
                                                   /\ Out(d)' = Append(Out(d), e)
    PROVE  Deletions'
  <1>1. \A e \in Events : e.op = "deleted" => e.id \in Ids
    BY DEF Events, Changes
  <1>2. \A e \in Hands : e.op = "deleted" => e.id \in Ids
    BY HandsTyped DEF ChatInv, Changes
  <1>3. \A e \in Hands' : e.op = "deleted" => log'[e.id].deleted
    BY <1>2 DEF Deletions
  <1>4. ASSUME NEW d \in Devices, NEW j \in 1..Len(Out(d)'), Out(d)'[j].op = "deleted"
        PROVE  log'[Out(d)'[j].id].deleted
    <2>1. Out(d) \in Seq(Events)
      BY OutTyped DEF ChatInv
    <2>2. \A i \in 1..Len(Out(d)) : Out(d)[i].op = "deleted" => log'[Out(d)[i].id].deleted
      BY <1>1, <2>1 DEF Deletions
    <2>3. ASSUME NEW r \in Seq(Errors), Out(d)' = Out(d) \o r PROVE log'[Out(d)'[j].id].deleted
      <3>1. \A i \in 1..Len(r) : r[i].op = "error"
        <4>1. \A x \in Errors : x.op = "error"
          BY DEF Errors
        <4>2. \A i \in 1..Len(r) : r[i] \in Errors
          OBVIOUS
        <4> QED
          BY <4>1, <4>2
      <3>2. Errors \subseteq Events
        BY DEF Errors, Events
      <3>3. r \in Seq(Events)
        BY <3>2, WiderSeq
      <3>4. j \in 1..(Len(Out(d)) + Len(r)) /\ Out(d)'[j] = IF j <= Len(Out(d)) THEN Out(d)[j] ELSE r[j - Len(Out(d))]
        BY <1>4, <2>1, <2>3, <3>3
      <3>5. Len(Out(d)) \in Nat /\ Len(r) \in Nat
        BY <2>1
      <3>6. CASE j <= Len(Out(d))
        BY <1>4, <2>2, <3>4, <3>5, <3>6
      <3>7. CASE j > Len(Out(d))
        <4>1. j - Len(Out(d)) \in 1..Len(r)
          BY <3>4, <3>5, <3>7
        <4> QED
          BY <1>4, <3>1, <3>4, <3>5, <3>7, <4>1
      <3> QED
        BY <3>4, <3>5, <3>6, <3>7
    <2>4. CASE Out(d)' = <<>>
      BY <1>4, <2>4
    <2>5. CASE Out(d) # <<>> /\ Out(d)' = Tail(Out(d))
      <3>1. j + 1 \in 1..Len(Out(d)) /\ Out(d)'[j] = Out(d)[j + 1]
        BY <1>4, <2>1, <2>5
      <3> QED
        BY <1>4, <2>2, <3>1
    <2>6. ASSUME NEW e \in Events, e.op = "deleted" => e \in Hands, Out(d)' = Append(Out(d), e)
          PROVE  log'[Out(d)'[j].id].deleted
      <3>1. j \in 1..(Len(Out(d)) + 1) /\ Out(d)'[j] = IF j <= Len(Out(d)) THEN Out(d)[j] ELSE e
        BY <1>4, <2>1, <2>6
      <3>2. CASE j <= Len(Out(d))
        BY <1>4, <2>1, <2>2, <3>1, <3>2
      <3>3. CASE ~(j <= Len(Out(d)))
        BY <1>2, <1>4, <2>6, <3>1, <3>3 DEF Deletions
      <3> QED
        BY <3>2, <3>3
    <2> QED
      BY <2>3, <2>4, <2>5, <2>6
  <1> QED
    BY <1>3, <1>4 DEF Deletions

\* What is stored of a message, and what is yet to be told of it, is no less.
LEMMA SteadyKept ==
    ASSUME NEW id \in Ids, log'[id] = log[id], preview'[id] = preview[id],
           Untold(id) \subseteq Untold(id)', UntoldPreviews(id) \subseteq UntoldPreviews(id)'
    PROVE  Steady(id)
  <1>1. \A e \in Untold(id) : e.id = id /\ (Settles(e) => Settles(e)')
    <2>1. \A e \in Untold(id) : e.id = id
      BY DEF Untold
    <2> QED
      BY <2>1 DEF Settles, Current
  <1>2. Mends(id) => Mends(id)'
    BY <1>1 DEF Mends
  <1>3. Relinks(id) => Relinks(id)'
    BY DEF Relinks
  <1>4. Announces(id) => Announces(id)'
    BY DEF Announces
  <1>5. id \in Live' => id \in Live
    BY DEF Live, Ids
  <1> QED
    BY <1>2, <1>3, <1>4, <1>5 DEF Steady, ContentSteady, LinkSteady, RowSteady

\* More on hand is more to tell.
LEMMA HandsGrow ==
    ASSUME Hands \subseteq Hands', NEW id PROVE Untold(id) \subseteq Untold(id)'
  BY DEF Untold, Hands

\* Nothing is queued.
LEMMA NothingQueued ==
    ASSUME SocketTyped, NEW d \in Devices, Out(d)' = Out(d)
    PROVE  \E r \in Seq(Errors) : Out(d)' = Out(d) \o r
  <1>1. Out(d) \in Seq(Events) /\ <<>> \in Seq(Errors)
    BY OutTyped
  <1>2. Out(d) \o <<>> = Out(d)
    BY <1>1
  <1> QED
    BY <1>1, <1>2

\* An answer of a handler: its connection's user hears of an error, or of nothing.
LEMMA ReplyHeard ==
    ASSUME SocketTyped, NEW d \in Devices, NEW replies \in Seq(Errors), Reply(d, replies)
    PROVE  \A c \in Devices : /\ \E r \in Seq(Errors) : Out(c)' = Out(c) \o r
                              /\ Out(c)' = Out(c) \/ Out(c)' = Out(c) \o replies
  <1> SUFFICES ASSUME NEW c \in Devices
               PROVE  /\ \E r \in Seq(Errors) : Out(c)' = Out(c) \o r
                      /\ Out(c)' = Out(c) \/ Out(c)' = Out(c) \o replies
    OBVIOUS
  <1> DEFINE done == [socket[c] EXCEPT !.in = IF c = d THEN Tail(@) ELSE @]
  <1>1. socket'[c] = IF c \in DevicesOf(User[d]) \cap Connected
                     THEN [done EXCEPT !.out = @ \o replies] ELSE done
    BY DEF Reply
  <1>2. socket[c] \in [up : BOOLEAN, in : Seq(Frames), out : Seq(Events)]
    BY DEF SocketTyped
  <1>3. done.out = Out(c) /\ "out" \in DOMAIN done
    BY <1>2 DEF Out
  <1>4. CASE c \in DevicesOf(User[d]) \cap Connected
    <2>1. Out(c)' = Out(c) \o replies
      BY <1>1, <1>3, <1>4 DEF Out
    <2> QED
      BY <2>1
  <1>5. CASE ~(c \in DevicesOf(User[d]) \cap Connected)
    <2>1. Out(c)' = Out(c)
      BY <1>1, <1>3, <1>5 DEF Out
    <2> QED
      BY <2>1, NothingQueued
  <1> QED
    BY <1>4, <1>5

\* No answer, and a refusal.
LEMMA Answers ==
    /\ <<>> \in Seq(Errors)
    /\ \A request \in Requests \cup {None} : Refusal(request) \in Seq(Errors)
  BY DEF Refusal, Errors

\* Every window is as right as it was.
LEMMA WindowsKept ==
    ASSUME ChatInv, WindowInv, Growth, Ids' = Ids, \A id \in Ids : Steady(id),
           \A d \in Devices : Undisturbed(d),
           Entries', Deletions', missed' = [d \in Devices |-> missed'[d]]
    PROVE  WindowInv'
  <1>1. \A d \in Devices, id \in Ids : WindowFits(d, id)'
    BY WindowKept DEF ChatInv, WindowInv
  <1> QED
    BY <1>1 DEF WindowInv

\* A step of which a window sees nothing, or an error.
LEMMA WindowsUntouched ==
    ASSUME ChatInv, WindowInv, UNCHANGED <<log, preview, unfurls, view, missed, loads>>,
           Hands \subseteq Hands', \A e \in Hands' \ Hands : e.op # "deleted",
           \A d \in Devices : \E r \in Seq(Errors) : Out(d)' = Out(d) \o r
    PROVE  WindowInv'
  <1>1. Growth /\ Ids' = Ids
    BY SameLog DEF ChatInv
  <1>2. \A id \in Ids : Steady(id)
    BY HandsGrow, SteadyKept DEF UntoldPreviews
  <1>3. \A d \in Devices : Undisturbed(d)
    BY DEF Undisturbed, Open, Clean
  <1>4. Entries'
    BY DEF WindowInv, Entries
  <1>5. Deletions'
    BY <1>1, DeletionsKept DEF WindowInv
  <1> QED
    BY <1>1, <1>2, <1>3, <1>4, <1>5, WindowsKept DEF WindowInv

\* What the users and their timers do.
LEMMA ActsKept ==
    ASSUME ChatInv, WindowInv,
           \/ UserActs \/ ScanUnattached \/ Cleanup
           \/ \E r \in Requests : TimerFires(r)
           \/ \E d \in Devices : Reconnect(d)
    PROVE  WindowInv'
  <1> DEFINE Same == UNCHANGED <<log, preview, handler, orphans, unfurls>>
  <1>1. ASSUME Same, UNCHANGED <<view, missed, loads>>, \A d \in Devices : Out(d)' = Out(d)
        PROVE  WindowInv'
    <2>1. Hands' = Hands
      BY <1>1 DEF Hands
    <2>2. \A d \in Devices : \E r \in Seq(Errors) : Out(d)' = Out(d) \o r
      BY <1>1, NothingQueued DEF ChatInv
    <2> QED
      BY <1>1, <2>1, <2>2, WindowsUntouched
  <1>2. ASSUME NEW d \in Devices, NEW frame, Send(d, frame)
        PROVE  \A c \in Devices : Out(c)' = Out(c)
    BY <1>2 DEF Send, Out, ChatInv, SocketTyped
  <1>3. socket' = socket => \A d \in Devices : Out(d)' = Out(d)
    BY DEF Out
  <1>4. ASSUME NEW r \in Requests, SubmitMessage(r) \/ CancelMessage(r) \/ RetryMessage(r) \/ TimerFires(r)
        PROVE  WindowInv'
    <2>1. Sender[r] \in Devices
      BY ChatAssumption
    <2>2. CASE SendOptimistic(r)
      BY <1>1, <1>2, <1>3, <2>1, <2>2 DEF SendOptimistic, store, tasks
    <2>3. CASE CancelMessage(r) \/ TimerFires(r)
      BY <1>1, <1>3, <2>3 DEF CancelMessage, TimerFires, store, tasks
    <2> QED
      BY <1>4, <2>2, <2>3 DEF SubmitMessage, RetryMessage
  <1>5. ASSUME NEW d \in Devices, NEW id \in DOMAIN view[d].shown,
               \/ DeleteMessage(d, id)
               \/ \E content \in Contents \ {"card"} : EditMessage(d, id, content)
        PROVE  WindowInv'
    <2>1. PICK frame : Send(d, frame)
      BY <1>5 DEF DeleteMessage, EditMessage
    <2> QED
      BY <1>1, <1>2, <1>5, <2>1 DEF DeleteMessage, EditMessage, store, tasks, client
  <1>6. CASE ScanUnattached \/ Cleanup
    BY <1>1, <1>3, <1>6 DEF ScanUnattached, Cleanup, DeleteUnattached, RemoveFile, tasks, client
  <1>7. ASSUME NEW d \in Devices, Reconnect(d) PROVE WindowInv'
    <2>1. \A c \in Devices : Out(c)' = Out(c)
      BY <1>7 DEF Reconnect, Out, ChatInv, SocketTyped
    <2> QED
      BY <1>1, <1>7, <2>1 DEF Reconnect, store, tasks, client
  <1>8. ASSUME NEW d \in Devices, LeaveChannel(d) \/ ChooseChannel(d) PROVE WindowInv'
    <2>1. Same /\ socket' = socket
      BY <1>8 DEF LeaveChannel, ChooseChannel, store, tasks
    <2>2. Growth /\ Ids' = Ids /\ Hands' = Hands
      BY <2>1, SameLog DEF ChatInv, Hands
    <2>3. \A id \in Ids : Steady(id)
      BY <2>1, <2>2, HandsGrow, SteadyKept DEF UntoldPreviews
    <2>4. PICK open \in BOOLEAN : /\ view' = [view EXCEPT ![d].open = open]
                                  /\ \/ missed' = [missed EXCEPT ![d] = @ \cup {"away"}]
                                     \/ missed' = missed /\ (open => Open(d))
      BY <1>8 DEF LeaveChannel, ChooseChannel
    <2>5. \A c \in Devices : /\ view'[c].shown = view[c].shown
                             /\ c # d => view'[c] = view[c]
                             /\ view'[d].open = open
      BY <2>4 DEF ChatInv, ViewTyped
    <2>6. /\ missed' = [c \in Devices |-> missed'[c]]
          /\ \A c \in Devices : missed'[c] = {} => missed[c] = {}
          /\ open => Open(d) \/ missed'[d] # {}
      BY <2>4 DEF WindowInv
    <2>7. \A c \in Devices : \A l \in loads'[c] : l \in loads[c] \/ l.at = "asked"
      BY <1>8 DEF LeaveChannel, ChooseChannel, ChatInv, ViewTyped
    <2>8. \A c \in Devices : Undisturbed(c)
      <3>1. \A c \in Devices : Out(c)' = Out(c)
        BY <1>3, <2>1
      <3>2. \A c \in Devices : \E r \in Seq(Errors) : Out(c)' = Out(c) \o r
        BY <3>1, NothingQueued DEF ChatInv
      <3>3. \A c \in Devices : Clean(c)' \subseteq Clean(c)
        BY <2>7 DEF Clean
      <3>4. \A c \in Devices : Open(c)' => Open(c) \/ missed'[c] # {}
        BY <2>5, <2>6 DEF Open
      <3> QED
        BY <2>5, <2>6, <3>2, <3>3, <3>4 DEF Undisturbed
    <2>9. Entries'
      BY <2>5, <2>7 DEF WindowInv, Entries
    <2>10. Deletions'
      BY <2>1, <2>2 DEF WindowInv, Deletions, Out
    <2> QED
      BY <2>2, <2>3, <2>6, <2>8, <2>9, <2>10, WindowsKept
  <1> QED
    BY <1>4, <1>5, <1>6, <1>7, <1>8 DEF UserActs

\* A frame that is refused, fails, or is a retry of a message that is there.
LEMMA AnswersKept ==
    ASSUME ChatInv, WindowInv, NEW d \in Devices,
           RefuseFiles(d) \/ CreateFails(d) \/ ChangeFails(d) \/ CreateAgain(d)
    PROVE  WindowInv'
  <1>1. UNCHANGED <<log, preview, unfurls, orphans, view, missed, loads>>
    BY DEF RefuseFiles, CreateFails, ChangeFails, CreateAgain, store, tasks, client
  <1>2. PICK replies \in Seq(Errors) : Reply(d, replies)
    <2>1. CASE RefuseFiles(d) \/ CreateFails(d)
      <3>1. Frame(d).request \in Requests /\ Reply(d, Refusal(Frame(d).request))
        BY <2>1, FrameTyped DEF RefuseFiles, CreateFails, ChatInv
      <3> QED
        BY <3>1, Answers
    <2>2. CASE ChangeFails(d) \/ CreateAgain(d)
      BY <2>2, Answers DEF ChangeFails, CreateAgain
    <2> QED
      BY <2>1, <2>2
  <1>3. \A c \in Devices : \E r \in Seq(Errors) : Out(c)' = Out(c) \o r
    BY <1>2, ReplyHeard DEF ChatInv
  <1>4. Hands \subseteq Hands' /\ \A e \in Hands' \ Hands : e.op # "deleted"
    <2>1. CASE UNCHANGED tasks
      BY <2>1 DEF tasks, Hands
    <2>2. CASE CreateAgain(d)
      <3>1. PICK id : handler' = [handler EXCEPT ![d] =
                        Created(id, Frame(d).request, log[id].content, User[d])]
        BY <2>2 DEF CreateAgain
      <3>2. handler[d] = Idle /\ orphans' = orphans
        BY <1>1, <2>2 DEF CreateAgain, Handles
      <3> DEFINE e == Created(id, Frame(d).request, log[id].content, User[d])
      <3>3. e.op = "created"
        BY DEF Created
      <3> HIDE DEF e
      <3>4. Hands' = Hands \cup {e}
        BY <3>1, <3>2, <3>3, HandTaken DEF ChatInv, e
      <3> QED
        BY <3>3, <3>4
    <2> QED
      BY <2>1, <2>2 DEF RefuseFiles, CreateFails, ChangeFails
  <1> QED
    BY <1>1, <1>3, <1>4, WindowsUntouched

\* A row that is changed: what there is to tell of it settles it.
LEMMA ChangeKept ==
    ASSUME ChatInv, WindowInv, NEW d \in Devices, HandleEdit(d) \/ HandleDelete(d)
    PROVE  WindowInv'
  <1>1. PICK id \in Ids : /\ id = Frame(d).id
                          /\ HandleEdit(d) => Frame(d).content \in Contents
    BY FrameTyped DEF ChatInv, HandleEdit, HandleDelete
  <1>2. UNCHANGED <<preview, orphans, unfurls, view, missed, loads>> /\ handler[d] = Idle
    BY DEF HandleEdit, HandleDelete, Handles, client
  <1>3. CASE ~Mine(d, id)
    <2>1. UNCHANGED <<log, handler>> /\ Reply(d, Refusal(None))
      BY <1>1, <1>3 DEF HandleEdit, HandleDelete
    <2>2. \A c \in Devices : \E r \in Seq(Errors) : Out(c)' = Out(c) \o r
      BY <2>1, Answers, ReplyHeard DEF ChatInv
    <2> QED
      BY <1>2, <2>1, <2>2, WindowsUntouched DEF Hands
  <1>4. CASE Mine(d, id)
    <2>1. PICK e, row : /\ log' = [log EXCEPT ![id] = row]
                        /\ row \in Rows /\ row.request = log[id].request
                        /\ handler' = [handler EXCEPT ![d] = e]
                        /\ e.id = id /\ e.to = "all" /\ e.op \in {"edited", "deleted"}
                        /\ e.op = "edited" => ~row.deleted /\ e.content = row.content
                        /\ e.op = "deleted" => row.deleted
                        /\ log[id].deleted => row.deleted
      <3>1. log[id] \in Rows /\ ~log[id].deleted
        BY <1>1, <1>4 DEF ChatInv, LogTyped, Ids, Mine
      <3>2. CASE HandleEdit(d)
        <4> DEFINE row == [log[id] EXCEPT !.content = Frame(d).content]
                   e == [op |-> "edited", id |-> id, content |-> Frame(d).content, to |-> "all"]
        <4>1. log' = [log EXCEPT ![id] = row] /\ handler' = [handler EXCEPT ![d] = e]
          BY <1>1, <1>4, <3>2 DEF HandleEdit
        <4>2. /\ row \in Rows /\ row.request = log[id].request /\ ~row.deleted
              /\ row.content = Frame(d).content
          BY <1>1, <3>1, <3>2 DEF Rows
        <4>3. e.id = id /\ e.to = "all" /\ e.op = "edited" /\ e.content = Frame(d).content
          OBVIOUS
        <4> HIDE DEF row, e
        <4> QED
          BY <3>1, <4>1, <4>2, <4>3
      <3>3. CASE HandleDelete(d)
        <4> DEFINE row == [log[id] EXCEPT !.deleted = TRUE]
                   e == [op |-> "deleted", id |-> id, to |-> "all"]
        <4>1. log' = [log EXCEPT ![id] = row] /\ handler' = [handler EXCEPT ![d] = e]
          BY <1>1, <1>4, <3>3 DEF HandleDelete
        <4>2. row \in Rows /\ row.request = log[id].request /\ row.deleted
          BY <1>1, <3>1, <3>3 DEF Rows
        <4>3. e.id = id /\ e.to = "all" /\ e.op = "deleted"
          OBVIOUS
        <4> HIDE DEF row, e
        <4> QED
          BY <3>1, <4>1, <4>2, <4>3
      <3> QED
        BY <3>2, <3>3
    <2>2. Growth /\ Ids' = Ids
      BY <2>1, RowChanged DEF ChatInv
    <2>3. \A i \in Ids : log'[i] = IF i = id THEN row ELSE log[i]
      BY <2>1 DEF Ids
    <2>4. Hands' = Hands \cup {e}
      BY <1>2, <2>1, HandTaken DEF ChatInv
    <2>5. e \in Untold(id)' /\ \A i : Untold(i) \subseteq Untold(i)'
      <3>1. e # Idle /\ handler'[d] = e
        BY <2>1 DEF Idle, ChatInv, TasksTyped
      <3> QED
        BY <2>1, <2>4, <3>1, HandsGrow DEF Untold
    <2>6. Mends(id)'
      <3>1. Settles(e)'
        BY <1>1, <2>1, <2>3 DEF Settles, Current
      <3> QED
        BY <2>5, <3>1 DEF Mends
    <2>7. ASSUME NEW i \in Ids PROVE Steady(i)
      <3>1. CASE i = id
        <4>1. ContentSteady(i)
          BY <2>6, <3>1 DEF ContentSteady
        <4>2. LinkSteady(i)
          BY <1>2 DEF LinkSteady, Relinks, UntoldPreviews
        <4>3. RowSteady(i)
          BY <2>1, <2>2, <2>3, <2>5, <3>1 DEF RowSteady, Announces, Live, Ids
        <4> QED
          BY <4>1, <4>2, <4>3 DEF Steady
      <3>2. CASE i # id
        BY <1>2, <2>3, <2>5, <3>2, SteadyKept DEF UntoldPreviews
      <3> QED
        BY <3>1, <3>2
    <2>8. \A c \in Devices : \E r \in Seq(Errors) : Out(c)' = Out(c) \o r
      <3>1. Reply(d, <<>>)
        BY <1>1, <1>4 DEF HandleEdit, HandleDelete
      <3> QED
        BY <3>1, Answers, ReplyHeard DEF ChatInv
    <2>9. \A c \in Devices : Undisturbed(c)
      BY <1>2, <2>8 DEF Undisturbed, Open, Clean
    <2>10. Entries'
      BY <1>2 DEF WindowInv, Entries
    <2>11. Deletions'
      <3>1. \A i \in Ids : log[i].deleted => log'[i].deleted
        BY <2>1, <2>3
      <3>2. \A x \in Hands' \ Hands : x.op = "deleted" => log'[x.id].deleted
        BY <1>1, <2>1, <2>3, <2>4
      <3> QED
        BY <2>2, <2>8, <3>1, <3>2, DeletionsKept DEF WindowInv
    <2> QED
      BY <1>2, <2>2, <2>7, <2>9, <2>10, <2>11, WindowsKept DEF WindowInv
  <1> QED
    BY <1>3, <1>4

\* A row that is added, and its creation to be told.
LEMMA CreationKept ==
    ASSUME ChatInv, WindowInv, (\E d \in Devices : CreateNew(d)) \/ PostCard
    PROVE  WindowInv'
  <1>0. PICK new : new = Len(log) + 1
    OBVIOUS
  <1>1. PICK request \in Requests \cup {None}, user \in People, content \in Contents :
           /\ Insert(request, user, content)
           /\ Hands' = Hands \cup {Created(Len(log) + 1, request, content, "all")}
    BY CreationInserts
  <1> DEFINE row == [request |-> request, user |-> user, content |-> content,
                     deleted |-> FALSE]
             e == Created(new, request, content, "all")
  <1>2. row \in Rows /\ log' = Append(log, row) /\ ~row.deleted
    BY <1>1 DEF Rows, Insert
  <1>3. e.op = "created" /\ e.id = new /\ e.to = "all" /\ Hands' = Hands \cup {e}
    BY <1>1, <1>0 DEF Created
  <1>4. preview \in Seq(Links) /\ Len(preview) = Len(log) /\ preview' = Append(preview, None)
        /\ Ids = 1..Len(log) /\ Len(log) \in Nat
    BY <1>1 DEF Insert, ChatInv, LogTyped, Ids
  <1> HIDE DEF row
  <1>5. /\ Growth /\ Ids' = Ids \cup {new} /\ new \notin Ids
        /\ \A id \in Ids : log'[id] = log[id]
        /\ log'[new] = row
    BY <1>2, <1>0, RowAdded DEF ChatInv
  <1>6. /\ \A id \in Ids : preview'[id] = preview[id]
        /\ preview'[new] = None
    BY <1>4, <1>0
  <1> HIDE DEF e
  <1>7. UNCHANGED <<unfurls, view, missed, loads>>
    BY DEF CreateNew, PostCard, client
  <1>8. \A c \in Devices : Out(c)' = Out(c)
    <2>1. ASSUME NEW d \in Devices, CreateNew(d), NEW c \in Devices PROVE Out(c)' = Out(c)
      <3>1. Reply(d, <<>>)
        BY <2>1 DEF CreateNew
      <3>2. Out(c)' = Out(c) \/ Out(c)' = Out(c) \o <<>>
        BY <3>1, Answers, ReplyHeard DEF ChatInv
      <3>3. Out(c) \in Seq(Events)
        BY OutTyped DEF ChatInv
      <3> QED
        BY <3>2, <3>3
    <2>2. PostCard => \A c \in Devices : Out(c)' = Out(c)
      BY DEF PostCard, Out
    <2> QED
      BY <2>1, <2>2
  <1>9. e \in Untold(new)'
    <2>1. e # Idle
      BY <1>3 DEF Idle
    <2> QED
      BY <1>3, <2>1 DEF Untold, Hands
  <1>10. \A id \in Ids : Steady(id)
    BY <1>3, <1>5, <1>6, <1>7, HandsGrow, SteadyKept DEF UntoldPreviews
  <1>11. \A d \in Devices : \E r \in Seq(Errors) : Out(d)' = Out(d) \o r
    BY <1>8, NothingQueued DEF ChatInv
  <1>12. \A d \in Devices : Undisturbed(d)
    BY <1>7, <1>11 DEF Undisturbed, Open, Clean
  <1>13. ASSUME NEW d \in Devices PROVE WindowFits(d, new)'
    <2>1. Announces(new)'
      BY <1>3, <1>9 DEF Announces
    <2>2. new \in Ids' /\ ~log'[new].deleted /\ Events \subseteq Events'
      BY <1>2, <1>5, Grown
    <2> QED
      BY <1>5, <1>6, <1>7, <1>8, <2>1, <2>2, WindowOfNew
  <1>14. ASSUME NEW d \in Devices, NEW id \in Ids PROVE WindowFits(d, id)'
    BY <1>5, <1>10, <1>12, WindowKept DEF WindowInv, ChatInv
  <1>15. Entries'
    BY <1>7 DEF WindowInv, Entries
  <1>16. Deletions'
    <2>1. \A id \in Ids : log[id].deleted => log'[id].deleted
      BY <1>5
    <2>2. \A x \in Hands' \ Hands : x.op = "deleted" => log'[x.id].deleted
      BY <1>3
    <2> QED
      BY <1>5, <1>11, <2>1, <2>2, DeletionsKept DEF WindowInv
  <1>17. missed' = [d \in Devices |-> missed'[d]]
    BY <1>7 DEF WindowInv
  <1>18. \A d \in Devices, id \in Ids' : WindowFits(d, id)'
    BY <1>5, <1>13, <1>14
  <1> QED
    BY <1>15, <1>16, <1>17, <1>18 DEF WindowInv

\* A task that looked a link up: what it stored is to be told, and what it did not
\* change is as it was.
LEMMA LookupKept ==
    ASSUME ChatInv, WindowInv, NEW t \in unfurls,
           StorePreview(t) \/ RemovePreview(t) \/ GiveUpPreview(t),
           UNCHANGED <<socket, missed, loads, log, handler, orphans, view>>
    PROVE  WindowInv'
  <1>1. t \in Unfurls /\ t.id \in Ids
    BY DEF ChatInv, TasksTyped, Unfurls
  <1>2. /\ preview \in Seq(Links) /\ Len(preview) = Len(log) /\ Ids = 1..Len(log)
        /\ DOMAIN preview = Ids
    <2>1. preview \in Seq(Links) /\ Len(preview) = Len(log) /\ log \in Seq(Rows)
      BY DEF ChatInv, LogTyped
    <2> QED
      BY <2>1 DEF Ids
  <1>3. Growth /\ Ids' = Ids /\ Live' = Live /\ Hands' = Hands
    BY SameLog DEF ChatInv, Live, Hands
  <1>4. \A id \in Ids : UntoldPreviews(id) \subseteq UntoldPreviews(id)'
    BY DEF StorePreview, RemovePreview, GiveUpPreview, Turn, UntoldPreviews
  <1>5. \A id \in Ids : LinkSteady(id)
    <2>1. ASSUME NEW id \in Ids, preview'[id] = preview[id] PROVE LinkSteady(id)
      <3>1. UntoldPreviews(id) \subseteq UntoldPreviews(id)'
        BY <1>4
      <3> QED
        BY <2>1, <3>1 DEF LinkSteady, Relinks
    <2>2. ASSUME NEW link, preview' = [preview EXCEPT ![t.id] = link], Turn(t, link)
          PROVE  \A id \in Ids : LinkSteady(id)
      <3> DEFINE told == [t EXCEPT !.at = "telling", !.link = link]
      <3>1. told.id = t.id /\ told.at = "telling" /\ told.link = link
        BY <1>1 DEF Unfurls
      <3>2. told \in unfurls'
        BY <2>2 DEF Turn
      <3> HIDE DEF told
      <3>3. told \in UntoldPreviews(t.id)' /\ preview'[t.id] = link
        BY <1>1, <1>2, <2>2, <3>1, <3>2 DEF UntoldPreviews
      <3>4. LinkSteady(t.id)
        BY <3>1, <3>3 DEF LinkSteady, Relinks
      <3>5. \A id \in Ids \ {t.id} : preview'[id] = preview[id]
        BY <1>2, <2>2
      <3> QED
        BY <2>1, <3>4, <3>5
    <2>3. CASE RemovePreview(t) /\ preview[t.id] = None
      <3>1. \A id \in Ids : preview'[id] = preview[id]
        BY <1>2, <2>3 DEF RemovePreview, SetPreview
      <3> QED
        BY <2>1, <3>1
    <2>4. CASE GiveUpPreview(t)
      BY <2>1, <2>4 DEF GiveUpPreview
    <2> QED
      BY <2>2, <2>3, <2>4 DEF StorePreview, RemovePreview, SetPreview
  <1>6. ASSUME NEW id \in Ids PROVE Steady(id)
    <2>1. Untold(id)' = Untold(id)
      BY DEF Untold
    <2>2. Mends(id) => Mends(id)'
      BY <2>1 DEF Mends, Settles, Current
    <2> QED
      BY <1>3, <1>5, <2>1, <2>2 DEF Steady, ContentSteady, RowSteady, Announces
  <1>7. \A d \in Devices : Out(d)' = Out(d)
    BY DEF Out
  <1>8. \A d \in Devices : \E r \in Seq(Errors) : Out(d)' = Out(d) \o r
    BY <1>7, NothingQueued DEF ChatInv
  <1>9. \A d \in Devices : Undisturbed(d)
    BY <1>8 DEF Undisturbed, Open, Clean
  <1>10. Entries' /\ Deletions'
    BY <1>3, <1>7 DEF WindowInv, Entries, Deletions
  <1> QED
    BY <1>3, <1>6, <1>9, <1>10, WindowsKept DEF WindowInv

\* Queueing an event.
LEMMA EventQueued ==
    ASSUME ChatInv, NEW event, NEW recipients, Queue(event, recipients), NEW d \in Devices
    PROVE  Out(d)' = IF d \in recipients \cap Connected THEN Append(Out(d), event) ELSE Out(d)
  <1>1. socket[d] \in [up : BOOLEAN, in : Seq(Frames), out : Seq(Events)]
    BY DEF ChatInv, SocketTyped
  <1> QED
    BY <1>1 DEF Queue, Out

\* An event that makes the content right, or leaves it as right as it was.
LEMMA ContentHeard ==
    ASSUME ChatInv, UNCHANGED <<log, view>>, NEW d \in Devices, NEW id \in Ids,
           NEW e \in Events, Out(d)' = Append(Out(d), e),
           \/ Mends(id)'
           \/ e \in MendsContent(id)
           \/ e \in KeepsContent(id) /\ (Mends(id) => Mends(id)')
    PROVE  /\ HearsContent(d, id) => HearsContent(d, id)'
           /\ FitsContent(d, id) => FitsContent(d, id)'
  <1> DEFINE S == KeepsContent(id)
             T == MendsContent(id)
  <1>1. Out(d) \in Seq(Events)
    BY OutTyped DEF ChatInv
  <1>2. S' = S /\ T' = T
    BY SameLog DEF ChatInv, KeepsContent, MendsContent
  <1>3. /\ Only(Out(d), S)' <=> Only(Out(d)', S')
        /\ Ends(Out(d), S, T)' <=> Ends(Out(d)', S', T')
    BY DEF Only, Ends
  <1>4. ContentFits(view[d].shown[id].content, DOMAIN view[d].shown, id)
           => ContentFits(view[d].shown[id].content, DOMAIN view[d].shown, id)'
    BY DEF ContentFits
  <1> HIDE DEF S, T
  <1>5. /\ e \in S /\ Only(Out(d), S) => Only(Append(Out(d), e), S)
        /\ e \in S /\ Ends(Out(d), S, T) => Ends(Append(Out(d), e), S, T)
        /\ e \in T => Ends(Append(Out(d), e), S, T)
    BY <1>1, QueueGrows
  <1>6. e \in T => Ends(Out(d), S, T)'
    BY <1>2, <1>3, <1>5
  <1>7. e \in S => /\ Only(Out(d), S) => Only(Out(d), S)'
                   /\ Ends(Out(d), S, T) => Ends(Out(d), S, T)'
    BY <1>2, <1>3, <1>5
  <1> QED
    BY <1>4, <1>6, <1>7 DEF HearsContent, FitsContent, S, T

\* The same of the link.
LEMMA LinkHeard ==
    ASSUME ChatInv, UNCHANGED <<log, preview, view>>, NEW d \in Devices, NEW id \in Ids,
           NEW e \in Events, Out(d)' = Append(Out(d), e),
           \/ id \notin Live
           \/ Relinks(id)'
           \/ e \in MendsLink(id)
           \/ e \in KeepsLink(id) /\ (Relinks(id) => Relinks(id)')
    PROVE  /\ HearsLink(d, id) => HearsLink(d, id)'
           /\ FitsLink(d, id) => FitsLink(d, id)'
  <1> DEFINE S == KeepsLink(id)
             T == MendsLink(id)
  <1>1. Out(d) \in Seq(Events)
    BY OutTyped DEF ChatInv
  <1>2. S' = S /\ T' = T /\ Live' = Live
    BY SameLog DEF ChatInv, KeepsLink, MendsLink, Live
  <1>3. /\ Only(Out(d), S)' <=> Only(Out(d)', S')
        /\ Ends(Out(d), S, T)' <=> Ends(Out(d)', S', T')
    BY DEF Only, Ends
  <1> HIDE DEF S, T
  <1>4. /\ e \in S /\ Only(Out(d), S) => Only(Append(Out(d), e), S)
        /\ e \in S /\ Ends(Out(d), S, T) => Ends(Append(Out(d), e), S, T)
        /\ e \in T => Ends(Append(Out(d), e), S, T)
    BY <1>1, QueueGrows
  <1>5. e \in T => Ends(Out(d), S, T)'
    BY <1>2, <1>3, <1>4
  <1>6. e \in S => /\ Only(Out(d), S) => Only(Out(d), S)'
                   /\ Ends(Out(d), S, T) => Ends(Out(d), S, T)'
    BY <1>2, <1>3, <1>4
  <1> QED
    BY <1>2, <1>5, <1>6 DEF HearsLink, FitsLink, S, T

\* A creation that comes is coming.
LEMMA CreationHeard ==
    ASSUME ChatInv, NEW d \in Devices, NEW id, NEW e \in Events, Out(d)' = Append(Out(d), e)
    PROVE  Coming(d, id) \/ (e.op = "created" /\ e.id = id) => Coming(d, id)'
  <1>1. Out(d) \in Seq(Events)
    BY OutTyped DEF ChatInv
  <1>2. /\ Len(Out(d)') = Len(Out(d)) + 1 /\ Len(Out(d)) \in Nat
        /\ \A j \in 1..Len(Out(d)) : Out(d)'[j] = Out(d)[j]
        /\ Out(d)'[Len(Out(d)) + 1] = e
    BY <1>1
  <1> QED
    BY <1>2 DEF Coming

\* A device that is known to have missed something, and no page to rely on.
LEMMA WindowExcused ==
    ASSUME NEW d \in Devices, NEW id, missed'[d] # {}, Clean(d)' = {} PROVE WindowFits(d, id)'
  BY DEF WindowFits

\* A window that hears an event.
LEMMA WindowHears ==
    ASSUME ChatInv, UNCHANGED <<log, preview, view>>, NEW d \in Devices, NEW id \in Ids,
           NEW e \in Events, Out(d)' = Append(Out(d), e), WindowFits(d, id),
           missed[d] = {}, Clean(d)' = {},
           \/ Mends(id)'
           \/ e \in MendsContent(id)
           \/ e \in KeepsContent(id) /\ (Mends(id) => Mends(id)'),
           \/ id \notin Live
           \/ Relinks(id)'
           \/ e \in MendsLink(id)
           \/ e \in KeepsLink(id) /\ (Relinks(id) => Relinks(id)'),
           Announces(id) => Announces(id)' \/ (e.op = "created" /\ e.id = id)
    PROVE  WindowFits(d, id)'
  <1>1. /\ HearsContent(d, id) => HearsContent(d, id)'
        /\ FitsContent(d, id) => FitsContent(d, id)'
    BY ContentHeard
  <1>2. /\ HearsLink(d, id) => HearsLink(d, id)'
        /\ FitsLink(d, id) => FitsLink(d, id)'
    BY LinkHeard
  <1>3. Coming(d, id) \/ (e.op = "created" /\ e.id = id) => Coming(d, id)'
    BY CreationHeard
  <1>4. FitsRow(d, id) => FitsRow(d, id)'
    BY <1>3 DEF FitsRow, Live
  <1>5. Open(d)' <=> Open(d)
    BY DEF Open
  <1> QED
    BY <1>1, <1>2, <1>4, <1>5 DEF WindowFits

\* Once something is told, no page on its way is relied on.
LEMMA OvertakenPages ==
    ASSUME ChatInv, Entries, UNCHANGED view, Overtake
    PROVE  Entries' /\ \A d \in Devices : Clean(d)' = {}
  <1>1. ASSUME NEW d \in Devices, NEW k \in loads'[d]
        PROVE  k.dirty /\ \E l \in loads[d] : k.at = l.at /\ k.page = l.page
    <2>1. loads'[d] = {[l EXCEPT !.dirty = TRUE] : l \in loads[d]}
      BY DEF Overtake
    <2>2. PICK l \in loads[d] : k = [l EXCEPT !.dirty = TRUE]
      BY <1>1, <2>1
    <2>3. l = [at |-> l.at, dirty |-> l.dirty, page |-> l.page]
      BY DEF ChatInv, ViewTyped
    <2>4. k = [at |-> l.at, dirty |-> TRUE, page |-> l.page]
      BY <2>2, <2>3
    <2> QED
      BY <2>4
  <1>2. \A d \in Devices : Clean(d)' = {}
    BY <1>1 DEF Clean
  <1>3. ASSUME NEW d \in Devices
        PROVE  IsPage(view'[d].shown) /\ \A k \in loads'[d] : k.at = "page" => IsPage(k.page)
    BY <1>1 DEF Entries
  <1> QED
    BY <1>2, <1>3 DEF Entries

\* Who may be wrong once something is told, and once it is told to nobody.
LEMMA TellingMissed ==
    ASSUME NEW recipients, NEW outdated \in BOOLEAN, NEW reason,
           Miss(recipients, outdated) \/ MissAll(reason)
    PROVE  /\ missed' = [d \in Devices |-> missed'[d]]
           /\ \A d \in Devices : missed'[d] = {} =>
                 /\ missed[d] = {} /\ Miss(recipients, outdated)
                 /\ d \in recipients => d \in Connected /\ ~outdated
  <1>1. CASE Miss(recipients, outdated)
    <2>1. missed' = [d \in Devices |->
             IF d \notin recipients THEN missed[d]
             ELSE missed[d] \cup (IF d \in Connected THEN {} ELSE {"offline"})
                            \cup (IF outdated THEN {"overtaken"} ELSE {})]
      BY <1>1 DEF Miss
    <2> QED
      BY <1>1, <2>1
  <1>2. CASE MissAll(reason)
    <2>1. missed' = [d \in Devices |-> missed[d] \cup {reason}]
      BY <1>2 DEF MissAll
    <2> QED
      BY <2>1
  <1> QED
    BY <1>1, <1>2

\* What one handler tells, with all the others' changes still to be told.
LEMMA ToldSteady ==
    ASSUME ChatInv, NEW e \in Hands, UNCHANGED <<log, preview>>, Hands \ {e} \subseteq Hands',
           unfurls \subseteq unfurls', NEW id \in Ids
    PROVE  /\ \A x \in Untold(id) \ {e} : x \in Untold(id)' /\ (Settles(x) => Settles(x)')
           /\ Relinks(id) => Relinks(id)'
           /\ id # e.id \/ e.to # "all" => Steady(id)
  <1>1. Untold(id) \ {e} \subseteq Untold(id)'
    BY DEF Untold, Hands
  <1>2. UntoldPreviews(id) \subseteq UntoldPreviews(id)'
    BY DEF UntoldPreviews
  <1>3. id # e.id \/ e.to # "all" => e \notin Untold(id)
    BY DEF Untold
  <1>4. id # e.id \/ e.to # "all" => Steady(id)
    BY <1>1, <1>2, <1>3, SteadyKept
  <1>5. \A x \in Untold(id) \ {e} : x \in Untold(id)' /\ (Settles(x) => Settles(x)')
    BY <1>1 DEF Settles, Current
  <1>6. Relinks(id) => Relinks(id)'
    BY <1>2 DEF Relinks
  <1> QED
    BY <1>4, <1>5, <1>6

\* The window that hears a change which is not out of date.
LEMMA ChangeHeard ==
    ASSUME ChatInv, NEW e \in Changes, e \in Hands, UNCHANGED <<log, preview, view>>,
           Hands \ {e} \subseteq Hands', unfurls \subseteq unfurls', ~OutOfDate(e),
           NEW d \in Devices, NEW id \in Ids, Out(d)' = Append(Out(d), e),
           WindowFits(d, id), missed[d] = {}, Clean(d)' = {}
    PROVE  WindowFits(d, id)'
  <1>1. /\ \A x \in Untold(id) \ {e} : x \in Untold(id)' /\ (Settles(x) => Settles(x)')
        /\ Relinks(id) => Relinks(id)'
        /\ id # e.id \/ e.to # "all" => Steady(id)
    BY ToldSteady
  <1>2. e \in Events /\ e.op \in {"created", "edited", "deleted"}
    BY DEF Events, Changes
  <1>3. Announces(id) => Announces(id)' \/ (e.op = "created" /\ e.id = id)
    <2>1. \A x \in Untold(id) : x.id = id
      BY DEF Untold
    <2> QED
      BY <1>1, <2>1 DEF Announces
  <1>4. ~Settles(e) => (Mends(id) => Mends(id)')
    BY <1>1 DEF Mends
  <1>5. \/ Mends(id)'
        \/ e \in MendsContent(id)
        \/ e \in KeepsContent(id) /\ (Mends(id) => Mends(id)')
    <2>1. CASE id # e.id
      <3>1. e \in KeepsContent(id)
        BY <1>2, <2>1 DEF KeepsContent
      <3>2. e \notin Untold(id)
        BY <2>1 DEF Untold
      <3> QED
        BY <1>1, <3>1, <3>2 DEF Mends
    <2>2. CASE id = e.id /\ Settles(e)
      BY <1>2, <2>2 DEF MendsContent, Settles, Current
    <2>3. CASE id = e.id /\ ~Settles(e) /\ Current(e)
      <3>1. e \in KeepsContent(id)
        BY <1>2, <2>3 DEF KeepsContent, Settles, Current
      <3> QED
        BY <1>4, <2>3, <3>1
    <2>4. CASE id = e.id /\ ~Settles(e) /\ ~Current(e)
      <3>1. Mends(id)
        BY <2>4 DEF OutOfDate, Mends
      <3> QED
        BY <1>4, <2>4, <3>1
    <2> QED
      BY <2>1, <2>2, <2>3, <2>4
  <1>6. \/ id \notin Live
        \/ Relinks(id)'
        \/ e \in MendsLink(id)
        \/ e \in KeepsLink(id) /\ (Relinks(id) => Relinks(id)')
    <2>1. ASSUME id \in Live PROVE e \in KeepsLink(id)
      BY <1>2, <2>1 DEF KeepsLink, OutOfDate
    <2> QED
      BY <1>1, <2>1
  <1> QED
    BY <1>2, <1>3, <1>5, <1>6, WindowHears

\* A change that is told, or that nobody hears of.
LEMMA ToldKept ==
    ASSUME ChatInv, WindowInv, NEW e \in Changes, e \in Hands, Tells(e),
           UNCHANGED <<log, preview, view>>, Hands' \subseteq Hands, Hands \ {e} \subseteq Hands'
    PROVE  WindowInv'
  <1> DEFINE recipients == IF e.to = "all" THEN Devices ELSE DevicesOf(e.to)
             outdated == (OutOfDate(e))
  <1>1. Growth /\ Ids' = Ids /\ e \in Events
    BY SameLog DEF ChatInv, Events
  <1>2. unfurls \subseteq unfurls'
    BY DEF Tells, Tell, TellNobody, Follow, Unfurl
  <1>3. \/ Queue(e, recipients) /\ Miss(recipients, outdated)
        \/ socket' = socket /\ MissAll("untold")
    BY DEF Tells, Tell, TellNobody
  <1>4. outdated \in BOOLEAN
    BY DEF OutOfDate
  <1>5. outdated <=> OutOfDate(e)
    OBVIOUS
  <1>6. e.to = "all" => recipients = Devices
    OBVIOUS
  <1> HIDE DEF recipients, outdated
  <1>7. /\ missed' = [d \in Devices |-> missed'[d]]
        /\ \A d \in Devices : missed'[d] = {} =>
              /\ missed[d] = {} /\ Miss(recipients, outdated)
              /\ d \in recipients => d \in Connected /\ ~outdated
    BY <1>3, <1>4, TellingMissed
  <1>8. Overtake
    BY <1>3 DEF Miss, MissAll
  <1>9. Entries' /\ \A d \in Devices : Clean(d)' = {}
    BY <1>8, OvertakenPages DEF WindowInv
  <1>10. \A d \in Devices : Out(d)' = Out(d) \/ Out(d)' = Append(Out(d), e)
    <2>1. socket' = socket => \A d \in Devices : Out(d)' = Out(d)
      BY DEF Out
    <2> QED
      BY <1>3, <2>1, EventQueued
  <1>11. Deletions'
    <2>1. \A d \in Devices : \/ \E r \in Seq(Errors) : Out(d)' = Out(d) \o r
                             \/ Out(d)' = Append(Out(d), e)
      BY <1>10, NothingQueued DEF ChatInv
    <2> QED
      BY <1>1, <2>1, DeletionsKept DEF WindowInv
  <1>12. ASSUME NEW d \in Devices, NEW id \in Ids PROVE WindowFits(d, id)'
    <2>1. WindowFits(d, id)
      BY DEF WindowInv
    <2>2. CASE missed'[d] # {}
      BY <1>9, <2>2, WindowExcused
    <2>3. CASE missed'[d] = {} /\ d \in recipients
      <3>1. missed[d] = {} /\ d \in Connected /\ ~OutOfDate(e) /\ Miss(recipients, outdated)
        BY <1>5, <1>7, <2>3
      <3>2. ~ MissAll("untold")
        <4>1. MissAll("untold") => missed'[d] # {}
          BY DEF MissAll
        <4> QED
          BY <2>3, <4>1
      <3>3. Out(d)' = Append(Out(d), e)
        BY <1>3, <2>3, <3>1, <3>2, EventQueued
      <3>4. Clean(d)' = {}
        BY <1>9
      <3> QED
        BY <1>2, <2>1, <3>1, <3>3, <3>4, ChangeHeard
    <2>4. CASE missed'[d] = {} /\ d \notin recipients
      <3>1. e.to # "all" /\ missed[d] = {}
        BY <1>6, <1>7, <2>4
      <3>2. Steady(id)
        BY <1>2, <3>1, ToldSteady
      <3>3. Out(d)' = Out(d)
        <4>1. socket' = socket => Out(d)' = Out(d)
          BY DEF Out
        <4> QED
          BY <1>3, <2>4, <4>1, EventQueued
      <3>4. \E r \in Seq(Errors) : Out(d)' = Out(d) \o r
        BY <3>3, NothingQueued DEF ChatInv
      <3>5. Undisturbed(d)
        BY <1>9, <2>4, <3>1, <3>4 DEF Undisturbed, Open
      <3> QED
        BY <1>1, <2>1, <3>2, <3>5, WindowKept DEF ChatInv
    <2> QED
      BY <2>2, <2>3, <2>4
  <1>13. \A d \in Devices, id \in Ids' : WindowFits(d, id)'
    BY <1>1, <1>12
  <1> QED
    BY <1>7, <1>9, <1>11, <1>13 DEF WindowInv

\* A handler's change that is told, its connection there or not.
LEMMA TellingKept ==
    ASSUME ChatInv, WindowInv, (\E d \in Devices : TellChange(d)) \/ TellOrphan
    PROVE  WindowInv'
  <1>1. ASSUME NEW d \in Devices, TellChange(d) PROVE WindowInv'
    <2> DEFINE e == handler[d]
    <2>1. e \in Changes /\ e \in Hands /\ Tells(e) /\ UNCHANGED <<log, preview, view>>
      BY <1>1 DEF TellChange, ChatInv, TasksTyped, Hands, store
    <2>2. handler' = [handler EXCEPT ![d] = Idle] /\ orphans' = orphans
      BY <1>1 DEF TellChange
    <2>3. \A c \in Devices : handler'[c] = IF c = d THEN Idle ELSE handler[c]
      BY <2>2 DEF ChatInv, TasksTyped
    <2>4. Hands' \subseteq Hands /\ Hands \ {e} \subseteq Hands'
      BY <2>2, <2>3 DEF Hands
    <2> HIDE DEF e
    <2> QED
      BY <2>1, <2>4, ToldKept
  <1>2. ASSUME TellOrphan PROVE WindowInv'
    <2>1. PICK e \in orphans : Tells(e) /\ orphans' = orphans \ {e}
      BY <1>2 DEF TellOrphan
    <2>2. e \in Changes /\ e \in Hands /\ UNCHANGED <<log, preview, view, handler>>
      <3>1. e \in Changes /\ UNCHANGED <<log, preview, view, handler>>
        BY <1>2, <2>1 DEF TellOrphan, ChatInv, TasksTyped, store
      <3>2. e # Idle
        BY <3>1 DEF Changes, Idle
      <3> QED
        BY <3>1, <3>2 DEF Hands
    <2>3. Hands' \subseteq Hands /\ Hands \ {e} \subseteq Hands'
      BY <2>1, <2>2 DEF Hands
    <2> QED
      BY <2>1, <2>2, <2>3, ToldKept
  <1> QED
    BY <1>1, <1>2

\* A preview that is told, or that nobody hears of.
LEMMA PreviewToldKept ==
    ASSUME ChatInv, WindowInv, NEW t \in unfurls, TellPreview(t) \/ TellPreviewToNobody(t),
           UNCHANGED <<log, preview, handler, orphans, view>>
    PROVE  WindowInv'
  <1> DEFINE e == [op |-> "preview", id |-> t.id, link |-> t.link]
             outdated == (/\ ~Current(e)
                          /\ ~ \E u \in UntoldPreviews(t.id) : u.link = preview[t.id])
  <1>1. t \in Unfurls /\ t.id \in Ids /\ t.link \in Links
    BY DEF ChatInv, TasksTyped, Unfurls
  <1>2. e \in Events /\ e.op = "preview" /\ e.id = t.id /\ e.link = t.link
    BY <1>1 DEF Events
  <1>3. /\ t.at = "telling" /\ unfurls' = unfurls \ {t}
        /\ \/ Queue(e, Devices) /\ Miss(Devices, outdated)
           \/ socket' = socket /\ MissAll("untold")
    BY DEF TellPreview, TellPreviewToNobody
  <1>4. outdated \in BOOLEAN
    OBVIOUS
  <1>5. ~outdated <=> Current(e) \/ \E u \in UntoldPreviews(t.id) : u.link = preview[t.id]
    OBVIOUS
  <1> HIDE DEF e, outdated
  <1>6. Growth /\ Ids' = Ids /\ Hands' = Hands
    BY SameLog DEF ChatInv, Hands
  <1>7. /\ missed' = [d \in Devices |-> missed'[d]]
        /\ \A d \in Devices : missed'[d] = {} =>
              missed[d] = {} /\ Miss(Devices, outdated) /\ d \in Connected /\ ~outdated
    BY <1>3, <1>4, TellingMissed
  <1>8. Entries' /\ \A d \in Devices : Clean(d)' = {}
    BY <1>3, OvertakenPages DEF WindowInv, Miss, MissAll
  <1>9. \A d \in Devices : Out(d)' = Out(d) \/ Out(d)' = Append(Out(d), e)
    <2>1. socket' = socket => \A d \in Devices : Out(d)' = Out(d)
      BY DEF Out
    <2> QED
      BY <1>3, <2>1, EventQueued
  <1>10. Deletions'
    <2>1. \A d \in Devices : \/ \E r \in Seq(Errors) : Out(d)' = Out(d) \o r
                             \/ Out(d)' = Append(Out(d), e)
      BY <1>9, NothingQueued DEF ChatInv
    <2> QED
      BY <1>2, <1>6, <2>1, DeletionsKept DEF WindowInv
  <1>11. ASSUME NEW d \in Devices, NEW id \in Ids PROVE WindowFits(d, id)'
    <2>1. CASE missed'[d] # {}
      BY <1>8, <2>1, WindowExcused
    <2>2. CASE missed'[d] = {}
      <3>1. missed[d] = {} /\ d \in Connected /\ ~outdated
        BY <1>7, <2>2
      <3>2. ~ MissAll("untold")
        <4>1. MissAll("untold") => missed'[d] # {}
          BY DEF MissAll
        <4> QED
          BY <2>2, <4>1
      <3>3. Out(d)' = Append(Out(d), e)
        BY <1>3, <3>1, <3>2, EventQueued
      <3>4. Untold(id)' = Untold(id)
        BY DEF Untold
      <3>5. e \in KeepsContent(id) /\ (Mends(id) => Mends(id)')
        BY <1>2, <3>4 DEF KeepsContent, Mends, Settles, Current
      <3>6. Announces(id) => Announces(id)'
        BY <3>4 DEF Announces
      <3>7. \/ id \notin Live
            \/ Relinks(id)'
            \/ e \in MendsLink(id)
            \/ e \in KeepsLink(id) /\ (Relinks(id) => Relinks(id)')
        <4>1. CASE id # t.id
          <5>1. UntoldPreviews(id)' = UntoldPreviews(id)
            BY <1>3, <4>1 DEF UntoldPreviews
          <5> QED
            BY <1>2, <4>1, <5>1 DEF KeepsLink, Relinks
        <4>2. CASE id = t.id /\ Current(e)
          BY <1>2, <4>2 DEF Current, Live, MendsLink
        <4>3. CASE id = t.id /\ id \in Live /\ ~Current(e)
          <5>1. PICK u \in UntoldPreviews(id) : u.link = preview[id]
            BY <1>5, <3>1, <4>3
          <5>2. u # t
            BY <1>2, <4>3, <5>1 DEF Current, Live
          <5> QED
            BY <1>3, <5>1, <5>2 DEF Relinks, UntoldPreviews
        <4> QED
          BY <4>1, <4>2, <4>3
      <3>8. WindowFits(d, id) /\ Clean(d)' = {}
        BY <1>8 DEF WindowInv
      <3> QED
        BY <1>2, <3>1, <3>3, <3>5, <3>6, <3>7, <3>8, WindowHears
    <2> QED
      BY <2>1, <2>2
  <1>12. \A d \in Devices, id \in Ids' : WindowFits(d, id)'
    BY <1>6, <1>11
  <1> QED
    BY <1>7, <1>8, <1>10, <1>12 DEF WindowInv

\* The unfurl tasks.
LEMMA UnfurlKept ==
    ASSUME ChatInv, WindowInv, UnfurlStep PROVE WindowInv'
  <1>1. PICK t \in unfurls :
           \/ /\ StorePreview(t) \/ RemovePreview(t) \/ GiveUpPreview(t)
              /\ UNCHANGED <<socket, missed, loads, log, handler, orphans, view>>
           \/ /\ TellPreview(t) \/ TellPreviewToNobody(t)
              /\ UNCHANGED <<log, preview, handler, orphans, view>>
    BY DEF UnfurlStep, store
  <1> QED
    BY <1>1, LookupKept, PreviewToldKept

\* While the server rests, nothing changes of any message.
LEMMA ServerRests ==
    ASSUME ChatInv, UNCHANGED <<log, preview, handler, orphans, unfurls>>
    PROVE  Growth /\ Ids' = Ids /\ Live' = Live /\ Hands' = Hands /\ \A id \in Ids : Steady(id)
  <1>1. Growth /\ Ids' = Ids /\ Live' = Live /\ Hands' = Hands
    BY SameLog DEF ChatInv, Hands, Live
  <1>2. \A id \in Ids : Steady(id)
    BY <1>1, HandsGrow, SteadyKept DEF UntoldPreviews
  <1> QED
    BY <1>1, <1>2

\* A device that a step leaves as it is.
LEMMA DeviceRests ==
    ASSUME ChatInv, WindowInv, NEW d \in Devices, NEW id \in Ids, Growth, Steady(id),
           Out(d)' = Out(d), view'[d].shown = view[d].shown, Open(d)' => Open(d),
           missed'[d] = missed[d], loads'[d] \subseteq loads[d]
    PROVE  WindowFits(d, id)'
  <1>1. \E r \in Seq(Errors) : Out(d)' = Out(d) \o r
    BY NothingQueued DEF ChatInv
  <1>2. Undisturbed(d)
    BY <1>1 DEF Undisturbed, Clean
  <1> QED
    BY <1>2, WindowKept DEF ChatInv, WindowInv

\* What waits for a device is as good as it was.
LEMMA QueueRests ==
    ASSUME ChatInv, NEW d \in Devices, NEW id \in Ids, Growth, Steady(id), Out(d)' = Out(d)
    PROVE  /\ HearsContent(d, id) => HearsContent(d, id)'
           /\ HearsLink(d, id) => HearsLink(d, id)'
           /\ view'[d].shown = view[d].shown =>
                 /\ FitsContent(d, id) => FitsContent(d, id)'
                 /\ FitsLink(d, id) => FitsLink(d, id)'
                 /\ FitsRow(d, id) => FitsRow(d, id)'
  <1>1. PICK r \in Seq(Errors) : Out(d)' = Out(d) \o r
    BY NothingQueued DEF ChatInv
  <1> QED
    BY <1>1, HearingKept DEF ChatInv

\* Nothing waits.
LEMMA NothingWaits ==
    ASSUME NEW d \in Devices, NEW id, Out(d) = <<>> PROVE HearsContent(d, id) /\ HearsLink(d, id)
  BY DEF HearsContent, HearsLink, Only

\* A page that is read: of the rows there are, or of their previews.
LEMMA ReadKept ==
    ASSUME ChatInv, WindowInv, NEW d \in Devices, NEW l \in loads[d], NEW k, NEW id \in Ids,
           Growth, Steady(id), UNCHANGED <<view, missed>>, Out(d)' = Out(d),
           loads'[d] = (loads[d] \ {l}) \cup {k},
           ~k.dirty => /\ missed[d] = {} \/ Clean(d) # {} \/ Out(d) = <<>>
                       /\ PageFits(k, id)'
    PROVE  WindowFits(d, id)'
  <1>1. WindowFits(d, id)
    BY DEF WindowInv
  <1>2. /\ HearsContent(d, id) => HearsContent(d, id)'
        /\ HearsLink(d, id) => HearsLink(d, id)'
        /\ FitsContent(d, id) => FitsContent(d, id)'
        /\ FitsLink(d, id) => FitsLink(d, id)'
        /\ FitsRow(d, id) => FitsRow(d, id)'
    BY QueueRests
  <1>3. \A x \in Clean(d)' : x \in Clean(d) \/ (x = k /\ ~k.dirty)
    BY DEF Clean
  <1>4. missed'[d] = {} \/ Clean(d)' # {} => missed[d] = {} \/ Clean(d) # {} \/ Out(d) = <<>>
    BY <1>3
  <1>5. missed'[d] = {} \/ Clean(d)' # {} => HearsContent(d, id)' /\ HearsLink(d, id)'
    BY <1>1, <1>2, <1>4, NothingWaits DEF WindowFits
  <1>6. \A x \in Clean(d)' : PageFits(x, id)'
    BY <1>1, <1>3, PageKept DEF WindowFits
  <1>7. missed'[d] = {} /\ Open(d)' => FitsContent(d, id)' /\ FitsLink(d, id)' /\ FitsRow(d, id)'
    BY <1>1, <1>2 DEF WindowFits, Open
  <1> QED
    BY <1>5, <1>6, <1>7 DEF WindowFits

\* A page that is shown.
LEMMA PageShown ==
    ASSUME ChatInv, WindowInv, NEW d \in Devices, NEW l \in loads[d], NEW id \in Ids,
           Growth, Steady(id), Live' = Live, Out(d)' = Out(d), l.at = "page",
           UNCHANGED <<log, preview, handler, orphans, unfurls>>,
           loads'[d] = loads[d] \ {l}, view'[d].shown = l.page,
           missed'[d] = IF l.dirty THEN missed[d] \cup {"stale"} ELSE {}
    PROVE  WindowFits(d, id)'
  <1>1. WindowFits(d, id)
    BY DEF WindowInv
  <1>2. /\ HearsContent(d, id) => HearsContent(d, id)'
        /\ HearsLink(d, id) => HearsLink(d, id)'
    BY QueueRests
  <1>3. Clean(d)' \subseteq Clean(d)
    BY DEF Clean
  <1>4. missed'[d] = {} => l \in Clean(d)
    BY DEF Clean
  <1>5. missed'[d] = {} \/ Clean(d)' # {} => HearsContent(d, id)' /\ HearsLink(d, id)'
    BY <1>1, <1>2, <1>3, <1>4 DEF WindowFits
  <1>6. \A x \in Clean(d)' : PageFits(x, id)'
    BY <1>1, <1>3, PageKept DEF WindowFits
  <1>7. ASSUME missed'[d] = {} PROVE FitsContent(d, id)' /\ FitsLink(d, id)' /\ FitsRow(d, id)'
    <2>1. PageFits(l, id)'
      BY <1>1, <1>4, <1>7, PageKept DEF WindowFits
    <2>2. FitsContent(d, id)'
      <3>1. Mends(id)' \/ ContentFits(l.page[id].content, DOMAIN l.page, id)'
        BY <2>1 DEF PageFits
      <3> QED
        BY <3>1 DEF FitsContent, ContentFits
    <2>3. FitsLink(d, id)' /\ FitsRow(d, id)'
      BY <2>1 DEF PageFits, FitsLink, FitsRow
    <2> QED
      BY <2>2, <2>3
  <1> QED
    BY <1>5, <1>6, <1>7 DEF WindowFits

\* What a window shows of a message.
LEMMA EntryMade ==
    ASSUME NEW x, NEW a, NEW b, x = [content |-> a, link |-> b]
    PROVE  IsEntry(x) /\ x.content = a /\ x.link = b
  <1>1. x.content = a /\ x.link = b
    OBVIOUS
  <1> QED
    BY <1>1 DEF IsEntry

\* A step of a load: the other devices rest.
LEMMA HistoryKept ==
    ASSUME ChatInv, WindowInv, NEW d \in Devices, LoadHistory(d) \/ HistoryFails(d)
    PROVE  WindowInv'
  <1>1. UNCHANGED <<log, preview, handler, orphans, unfurls, socket>>
    BY DEF LoadHistory, HistoryFails, store, tasks
  <1>2. Growth /\ Ids' = Ids /\ Live' = Live /\ Hands' = Hands /\ \A id \in Ids : Steady(id)
    BY <1>1, ServerRests
  <1>3. \A c \in Devices : Out(c)' = Out(c)
    BY <1>1 DEF Out
  <1>4. PICK l \in loads[d] :
           \/ ReadRows(d, l) \/ ReadPreviews(d, l) \/ ShowPage(d, l)
           \/ HistoryStep(d, l, {}) /\ UNCHANGED <<view, missed>>
    BY DEF LoadHistory, HistoryFails
  <1>5. /\ view = [c \in Devices |-> [open |-> view[c].open, shown |-> view[c].shown]]
        /\ loads = [c \in Devices |-> loads[c]]
        /\ missed = [c \in Devices |-> missed[c]]
    BY DEF ChatInv, ViewTyped, WindowInv
  <1>6. ASSUME NEW next, HistoryStep(d, l, next)
        PROVE  \A c \in Devices : loads'[c] = IF c = d THEN (loads[d] \ {l}) \cup next ELSE loads[c]
    BY <1>5, <1>6 DEF HistoryStep
  <1>7. Deletions'
    BY <1>1, <1>2, <1>3 DEF WindowInv, Deletions
  <1>8. ASSUME NEW c \in Devices, NEW id \in Ids, UNCHANGED <<view, missed>>,
               loads'[c] \subseteq loads[c]
        PROVE  WindowFits(c, id)'
    BY <1>2, <1>3, <1>8, DeviceRests DEF Open
  <1>9. CASE HistoryStep(d, l, {}) /\ UNCHANGED <<view, missed>>
    <2>1. \A c \in Devices : loads'[c] \subseteq loads[c]
      BY <1>5, <1>9 DEF HistoryStep
    <2>2. Entries'
      BY <1>9, <2>1 DEF WindowInv, Entries
    <2> QED
      BY <1>2, <1>5, <1>7, <1>8, <1>9, <2>1, <2>2 DEF WindowInv
  <1>10. ASSUME NEW k, HistoryStep(d, l, {k}), UNCHANGED <<view, missed>>,
                ~k.dirty => missed[d] = {} \/ Clean(d) # {} \/ Out(d) = <<>>,
                k.at = "page" => IsPage(k.page),
                \A id \in Ids : ~k.dirty => PageFits(k, id)'
         PROVE  WindowInv'
    <2>1. \A c \in Devices : loads'[c] = IF c = d THEN (loads[d] \ {l}) \cup {k} ELSE loads[c]
      BY <1>6, <1>10
    <2>2. \A id \in Ids : WindowFits(d, id)'
      BY <1>2, <1>3, <1>10, <2>1, ReadKept
    <2>3. \A c \in Devices \ {d} : loads'[c] \subseteq loads[c]
      BY <2>1
    <2>4. \A c \in Devices \ {d}, id \in Ids : WindowFits(c, id)'
      BY <1>8, <1>10, <2>3
    <2>5. Entries'
      BY <1>10, <2>1 DEF WindowInv, Entries
    <2> QED
      BY <1>2, <1>5, <1>7, <1>10, <2>2, <2>4, <2>5 DEF WindowInv
  <1>11. CASE ReadRows(d, l)
    <2>1. PICK dirty \in BOOLEAN : dirty <=> missed[d] # {} /\ socket[d].out # <<>>
      OBVIOUS
    <2>0. PICK k : k = [at |-> "rows", dirty |-> dirty,
                        page |-> [id \in Live |-> log[id].content]]
      OBVIOUS
    <2>2. HistoryStep(d, l, {k}) /\ UNCHANGED <<view, missed>>
      <3>1. dirty = (missed[d] # {} /\ socket[d].out # <<>>)
        BY <2>1
      <3> QED
        BY <1>11, <2>0, <3>1 DEF ReadRows
    <2>3. k.at = "rows" /\ k.dirty = dirty /\ k.page = [id \in Live |-> log[id].content]
      BY <2>0
    <2>4. ~k.dirty => missed[d] = {} \/ Clean(d) # {} \/ Out(d) = <<>>
      BY <2>1, <2>3 DEF Out
    <2>5. ASSUME NEW id \in Ids PROVE PageFits(k, id)'
      <3>1. ContentFits(k.page[id], DOMAIN k.page, id)'
        BY <1>1, <2>3, <2>5 DEF ContentFits, Live, Ids
      <3>2. id \in Live' => id \in DOMAIN k.page
        BY <1>2, <2>3
      <3> QED
        BY <2>3, <3>1, <3>2 DEF PageFits
    <2> QED
      BY <1>10, <2>2, <2>3, <2>4, <2>5
  <1>12. CASE ReadPreviews(d, l)
    <2>0. PICK k : k = [at |-> "page", dirty |-> l.dirty,
             page |-> [id \in DOMAIN l.page |-> [content |-> l.page[id], link |-> preview[id]]]]
      OBVIOUS
    <2>1. HistoryStep(d, l, {k}) /\ UNCHANGED <<view, missed>> /\ l.at = "rows"
      BY <1>12, <2>0 DEF ReadPreviews
    <2>2. /\ k.at = "page" /\ k.dirty = l.dirty
          /\ DOMAIN k.page = DOMAIN l.page
          /\ \A id \in DOMAIN l.page : k.page[id] = [content |-> l.page[id], link |-> preview[id]]
      BY <2>0
    <2>3. \A id \in DOMAIN k.page : /\ IsEntry(k.page[id])
                                    /\ k.page[id].content = l.page[id]
                                    /\ k.page[id].link = preview[id]
      <3> SUFFICES ASSUME NEW id \in DOMAIN k.page
                   PROVE  /\ IsEntry(k.page[id])
                          /\ k.page[id].content = l.page[id]
                          /\ k.page[id].link = preview[id]
        OBVIOUS
      <3>1. k.page[id] = [content |-> l.page[id], link |-> preview[id]]
        BY <2>2
      <3> QED
        BY <3>1, EntryMade
    <2>4. ~k.dirty => l \in Clean(d)
      BY <2>1, <2>2 DEF Clean
    <2>5. ASSUME NEW id \in Ids, ~k.dirty PROVE PageFits(k, id)'
      <3>1. PageFits(l, id)
        BY <2>4, <2>5 DEF WindowInv, WindowFits
      <3>2. PageFits(l, id)'
        BY <1>2, <3>1, PageKept
      <3>3. Mends(id)' \/ ContentFits(k.page[id].content, DOMAIN k.page, id)'
        BY <2>1, <2>2, <2>3, <3>2 DEF PageFits, ContentFits
      <3>4. id \in Live' => id \in DOMAIN k.page \/ Announces(id)'
        BY <2>2, <3>2 DEF PageFits
      <3>5. id \in DOMAIN k.page => k.page[id].link = preview'[id]
        BY <1>1, <2>3
      <3> QED
        BY <2>2, <3>3, <3>4, <3>5 DEF PageFits
    <2>6. IsPage(k.page)
      <3>1. k.page = [id \in DOMAIN k.page |-> k.page[id]]
        BY <2>0
      <3> QED
        BY <2>3, <3>1 DEF IsPage
    <2> QED
      BY <1>10, <2>1, <2>2, <2>4, <2>5, <2>6
  <1>13. CASE ShowPage(d, l)
    <2>1. /\ l.at = "page" /\ HistoryStep(d, l, {})
          /\ view' = [view EXCEPT ![d].shown = l.page]
          /\ missed' = [missed EXCEPT ![d] = IF l.dirty THEN @ \cup {"stale"} ELSE {}]
      BY <1>13 DEF ShowPage
    <2>2. \A c \in Devices : /\ loads'[c] = IF c = d THEN loads[d] \ {l} ELSE loads[c]
                             /\ missed'[c] = IF c # d THEN missed[c]
                                             ELSE IF l.dirty THEN missed[d] \cup {"stale"} ELSE {}
      BY <1>5, <2>1 DEF HistoryStep
    <2>3. view' = [c \in Devices |-> [open |-> view[c].open,
                                      shown |-> IF c = d THEN l.page ELSE view[c].shown]]
      BY <1>5, <2>1
    <2>4. \A c \in Devices : /\ view'[c].open = view[c].open
                             /\ view'[c].shown = IF c = d THEN l.page ELSE view[c].shown
      BY <2>3
    <2>5. missed' = [c \in Devices |-> missed'[c]]
      BY <1>5, <2>1
    <2>6. \A id \in Ids : WindowFits(d, id)'
      BY <1>1, <1>2, <1>3, <2>1, <2>2, <2>4, PageShown
    <2>7. \A c \in Devices \ {d}, id \in Ids : WindowFits(c, id)'
      BY <1>2, <1>3, <2>2, <2>4, DeviceRests DEF Open
    <2>8. Entries'
      <3>1. Entries
        BY DEF WindowInv
      <3>2. ASSUME NEW c \in Devices
            PROVE  IsPage(view'[c].shown)
        <4>1. CASE c = d
          BY <2>1, <2>4, <3>1, <4>1 DEF Entries
        <4>2. CASE c # d
          BY <2>4, <3>1, <4>2 DEF Entries
        <4> QED
          BY <4>1, <4>2
      <3>3. \A c \in Devices : loads'[c] \subseteq loads[c]
        BY <2>2
      <3> QED
        BY <3>1, <3>2, <3>3 DEF Entries
    <2> QED
      BY <1>2, <1>7, <2>5, <2>6, <2>7, <2>8 DEF WindowInv
  <1> QED
    BY <1>4, <1>9, <1>11, <1>12, <1>13

\* The other messages of the window.
Beside(s, t, id) == \A i : i # id => /\ i \in DOMAIN s <=> i \in DOMAIN t
                                     /\ i \in DOMAIN t => s[i] = t[i]

\* What an event makes of the window s.
Makes(e, s, t) ==
    /\ s = [i \in DOMAIN s |-> s[i]] => t = [i \in DOMAIN t |-> t[i]]
    /\ e.op = "error" => t = s
    /\ e.op # "error" => Beside(t, s, e.id)
    /\ e.op = "created" =>
          /\ e.id \in DOMAIN t
          /\ \/ IsEntry(t[e.id]) /\ t[e.id].content = e.content /\ t[e.id].link = None
             \/ e.id \in DOMAIN s /\ t[e.id] = s[e.id]
    /\ e.op \in {"edited", "preview"} =>
          /\ e.id \in DOMAIN t <=> e.id \in DOMAIN s
          /\ e.id \in DOMAIN s =>
                /\ IsEntry(t[e.id])
                /\ t[e.id].content = IF e.op = "edited" THEN e.content ELSE s[e.id].content
                /\ t[e.id].link = IF e.op = "preview" THEN e.link ELSE s[e.id].link
    /\ e.op = "deleted" => e.id \notin DOMAIN t

\* A creation that a window applies.
LEMMA CreationMakes ==
    ASSUME ViewTyped, NEW d \in Devices, NEW e, e.op = "created", ShowCreated(d, e)
    PROVE  /\ \A c \in Devices : view'[c].open = view[c].open
           /\ \A c \in Devices \ {d} : view'[c].shown = view[c].shown
           /\ Makes(e, view[d].shown, view'[d].shown)
  <1> DEFINE entry == [content |-> e.content, link |-> None]
  <1>1. IsEntry(entry) /\ entry.content = e.content /\ entry.link = None
    BY EntryMade
  <1>2. \/ view' = [view EXCEPT ![d].shown = With(view[d].shown, e.id, entry)]
        \/ view' = view /\ e.id \in DOMAIN view[d].shown
    BY DEF ShowCreated
  <1> HIDE DEF entry
  <1>3. CASE view' = view /\ e.id \in DOMAIN view[d].shown
    BY <1>3 DEF Makes, Beside
  <1>4. CASE view' = [view EXCEPT ![d].shown = With(view[d].shown, e.id, entry)]
    <2>0. PICK t : t = With(view[d].shown, e.id, entry)
      OBVIOUS
    <2>1. view' = [c \in Devices |-> [open |-> view[c].open,
                                      shown |-> IF c = d THEN t ELSE view[c].shown]]
      BY <1>4, <2>0 DEF ViewTyped
    <2>2. Makes(e, view[d].shown, t)
      BY <1>1, <2>0 DEF Makes, Beside, With
    <2> QED
      BY <2>1, <2>2
  <1> QED
    BY <1>2, <1>3, <1>4

\* A change that a window applies.
LEMMA ChangeMakes ==
    ASSUME ViewTyped, NEW d \in Devices, NEW e, e.op \in {"edited", "preview", "deleted"},
           ShowChange(d, e), \A id \in DOMAIN view[d].shown : IsEntry(view[d].shown[id])
    PROVE  /\ \A c \in Devices : view'[c].open = view[c].open
           /\ \A c \in Devices \ {d} : view'[c].shown = view[c].shown
           /\ Makes(e, view[d].shown, view'[d].shown)
  <1>1. PICK s : s = view[d].shown
    OBVIOUS
  <1>2. CASE e.id \notin DOMAIN s
    BY <1>1, <1>2 DEF ShowChange, Makes, Beside
  <1>3. ASSUME NEW t, e.id \in DOMAIN s, view' = [view EXCEPT ![d].shown = t], Makes(e, s, t)
        PROVE  /\ \A c \in Devices : view'[c].open = view[c].open
               /\ \A c \in Devices \ {d} : view'[c].shown = view[c].shown
               /\ Makes(e, view[d].shown, view'[d].shown)
    <2>1. view' = [c \in Devices |-> [open |-> view[c].open,
                                      shown |-> IF c = d THEN t ELSE view[c].shown]]
      BY <1>3 DEF ViewTyped
    <2> QED
      BY <1>1, <1>3, <2>1
  <1>4. e.id \in DOMAIN s =>
           s[e.id] = [content |-> s[e.id].content, link |-> s[e.id].link]
    BY <1>1 DEF IsEntry
  <1>5. CASE e.id \in DOMAIN s /\ e.op = "edited"
    <2>1. PICK x : x = [s[e.id] EXCEPT !.content = e.content]
      OBVIOUS
    <2>2. x = [content |-> e.content, link |-> s[e.id].link]
      BY <1>4, <1>5, <2>1
    <2>3. IsEntry(x) /\ x.content = e.content /\ x.link = s[e.id].link
      BY <2>2, EntryMade
    <2>4. PICK t : t = [s EXCEPT ![e.id] = x]
      OBVIOUS
    <2>5. view' = [view EXCEPT ![d].shown = t]
      BY <1>1, <1>5, <2>1, <2>4 DEF ShowChange
    <2>6. DOMAIN t = DOMAIN s /\ t[e.id] = x /\ \A i \in DOMAIN s : i # e.id => t[i] = s[i]
      BY <1>5, <2>4
    <2>7. Makes(e, s, t)
      <3>1. t = [i \in DOMAIN t |-> t[i]]
        BY <2>4
      <3> QED
        BY <1>5, <2>3, <2>6, <3>1 DEF Makes, Beside
    <2> QED
      BY <1>3, <1>5, <2>5, <2>7
  <1>6. CASE e.id \in DOMAIN s /\ e.op = "preview"
    <2>1. PICK x : x = [s[e.id] EXCEPT !.link = e.link]
      OBVIOUS
    <2>2. x = [content |-> s[e.id].content, link |-> e.link]
      BY <1>4, <1>6, <2>1
    <2>3. IsEntry(x) /\ x.content = s[e.id].content /\ x.link = e.link
      BY <2>2, EntryMade
    <2>4. PICK t : t = [s EXCEPT ![e.id] = x]
      OBVIOUS
    <2>5. view' = [view EXCEPT ![d].shown = t]
      BY <1>1, <1>6, <2>1, <2>4 DEF ShowChange
    <2>6. DOMAIN t = DOMAIN s /\ t[e.id] = x /\ \A i \in DOMAIN s : i # e.id => t[i] = s[i]
      BY <1>6, <2>4
    <2>7. Makes(e, s, t)
      <3>1. t = [i \in DOMAIN t |-> t[i]]
        BY <2>4
      <3> QED
        BY <1>6, <2>3, <2>6, <3>1 DEF Makes, Beside
    <2> QED
      BY <1>3, <1>6, <2>5, <2>7
  <1>7. CASE e.id \in DOMAIN s /\ e.op = "deleted"
    <2>1. view' = [view EXCEPT ![d].shown = Without(s, e.id)]
      BY <1>1, <1>7 DEF ShowChange
    <2>2. Makes(e, s, Without(s, e.id))
      BY <1>7 DEF Makes, Beside, Without
    <2> QED
      BY <1>3, <1>7, <2>1, <2>2
  <1> QED
    BY <1>2, <1>5, <1>6, <1>7

\* An event that is taken from the connection, and what the window makes of it.
LEMMA EventTaken ==
    ASSUME ChatInv, Entries, NEW d \in Devices, Receive(d)
    PROVE  \E e \in Events :
              /\ Out(d) # <<>> /\ e = Out(d)[1] /\ Out(d)' = Tail(Out(d))
              /\ \A c \in Devices \ {d} : Out(c)' = Out(c) /\ view'[c].shown = view[c].shown
              /\ \A c \in Devices : view'[c].open = view[c].open
              /\ view'[d].shown = view[d].shown \/ Makes(e, view[d].shown, view'[d].shown)
              /\ Open(d) => Makes(e, view[d].shown, view'[d].shown)
  <1>1. PICK e : e = Out(d)[1]
    OBVIOUS
  <1>2. socket[d] \in [up : BOOLEAN, in : Seq(Frames), out : Seq(Events)]
    BY DEF ChatInv, SocketTyped
  <1>3. Out(d) # <<>> /\ Out(d) \in Seq(Events)
    BY OutTyped DEF ChatInv, Receive, Out
  <1>4. e \in Events
    BY <1>1, <1>3
  <1>5. Out(d)' = Tail(Out(d)) /\ \A c \in Devices \ {d} : Out(c)' = Out(c)
    BY <1>2 DEF Receive, Out, ChatInv, SocketTyped
  <1>6. \/ e.op = "created" /\ Open(d) /\ ShowCreated(d, e)
        \/ e.op \in {"edited", "preview", "deleted"} /\ Open(d) /\ ShowChange(d, e)
        \/ e.op = "error" /\ view' = view
        \/ e.op # "error" /\ ~Open(d) /\ view' = view
    BY <1>1 DEF Receive, ShowError, Out
  <1>7. ViewTyped /\ \A id \in DOMAIN view[d].shown : IsEntry(view[d].shown[id])
    BY DEF ChatInv, Entries, IsPage
  <1>8. e.op = "error" => Makes(e, view[d].shown, view[d].shown)
    BY DEF Makes
  <1>9. CASE view' = view
    <2>1. Open(d) => e.op = "error" \/ Makes(e, view[d].shown, view'[d].shown)
      BY <1>6, <1>7, CreationMakes, ChangeMakes
    <2> QED
      BY <1>1, <1>3, <1>4, <1>5, <1>8, <1>9, <2>1
  <1>10. CASE \/ e.op = "created" /\ ShowCreated(d, e)
              \/ e.op \in {"edited", "preview", "deleted"} /\ ShowChange(d, e)
    <2>1. /\ \A c \in Devices : view'[c].open = view[c].open
          /\ \A c \in Devices \ {d} : view'[c].shown = view[c].shown
          /\ Makes(e, view[d].shown, view'[d].shown)
      BY <1>7, <1>10, CreationMakes, ChangeMakes
    <2> QED
      BY <1>1, <1>3, <1>4, <1>5, <2>1
  <1> QED
    BY <1>6, <1>9, <1>10

\* What the connection still holds is as good as what it held.
LEMMA RestHeard ==
    ASSUME ChatInv, UNCHANGED <<log, preview, handler, orphans, unfurls>>,
           NEW d \in Devices, NEW id \in Ids, Out(d) # <<>>, Out(d)' = Tail(Out(d))
    PROVE  /\ HearsContent(d, id) => HearsContent(d, id)'
           /\ HearsLink(d, id) => HearsLink(d, id)'
           /\ Mends(id)' <=> Mends(id)
           /\ Relinks(id)' <=> Relinks(id)
           /\ Announces(id)' <=> Announces(id)
           /\ Ends(Out(d), KeepsContent(id), MendsContent(id)) =>
                 \/ Ends(Out(d), KeepsContent(id), MendsContent(id))'
                 \/ Out(d)[1] \in MendsContent(id)
           /\ Only(Out(d), KeepsContent(id)) => Out(d)[1] \in KeepsContent(id)
           /\ Ends(Out(d), KeepsLink(id), MendsLink(id)) =>
                 \/ Ends(Out(d), KeepsLink(id), MendsLink(id))'
                 \/ Out(d)[1] \in MendsLink(id)
           /\ Only(Out(d), KeepsLink(id)) => Out(d)[1] \in KeepsLink(id)
  <1> DEFINE S == KeepsContent(id)
             T == MendsContent(id)
             U == KeepsLink(id)
             V == MendsLink(id)
  <1>1. Out(d) \in Seq(Events)
    BY OutTyped DEF ChatInv
  <1>2. Events' = Events /\ Live' = Live
    BY SameLog DEF ChatInv, Live
  <1>3. S' = S /\ T' = T /\ U' = U /\ V' = V
    BY <1>2 DEF KeepsContent, MendsContent, KeepsLink, MendsLink
  <1>4. /\ Only(Out(d), S)' <=> Only(Out(d)', S')
        /\ Ends(Out(d), S, T)' <=> Ends(Out(d)', S', T')
        /\ Only(Out(d), U)' <=> Only(Out(d)', U')
        /\ Ends(Out(d), U, V)' <=> Ends(Out(d)', U', V')
    BY DEF Only, Ends
  <1>5. /\ Mends(id)' <=> Mends(id)
        /\ Relinks(id)' <=> Relinks(id)
        /\ Announces(id)' <=> Announces(id)
    <2>1. Untold(id)' = Untold(id) /\ UntoldPreviews(id)' = UntoldPreviews(id)
      BY DEF Untold, UntoldPreviews
    <2> QED
      BY <2>1 DEF Mends, Relinks, Announces, Settles, Current
  <1> HIDE DEF S, T, U, V
  <1>6. /\ Only(Out(d), S) => Out(d)[1] \in S /\ Only(Tail(Out(d)), S)
        /\ Ends(Out(d), S, T) =>
              Ends(Tail(Out(d)), S, T) \/ (Out(d)[1] \in T /\ Only(Tail(Out(d)), S))
    BY <1>1, QueueShrinks
  <1>7. /\ Only(Out(d), U) => Out(d)[1] \in U /\ Only(Tail(Out(d)), U)
        /\ Ends(Out(d), U, V) =>
              Ends(Tail(Out(d)), U, V) \/ (Out(d)[1] \in V /\ Only(Tail(Out(d)), U))
    BY <1>1, QueueShrinks
  <1>8. /\ Only(Out(d), S) => Out(d)[1] \in S /\ Only(Out(d), S)'
        /\ Ends(Out(d), S, T) => Ends(Out(d), S, T)' \/ (Out(d)[1] \in T /\ Only(Out(d), S)')
        /\ Only(Out(d), U) => Out(d)[1] \in U /\ Only(Out(d), U)'
        /\ Ends(Out(d), U, V) => Ends(Out(d), U, V)' \/ (Out(d)[1] \in V /\ Only(Out(d), U)')
    BY <1>3, <1>4, <1>6, <1>7
  <1>9. HearsContent(d, id) => HearsContent(d, id)'
    BY <1>5, <1>8 DEF HearsContent, S, T
  <1>10. HearsLink(d, id) => HearsLink(d, id)'
    BY <1>2, <1>5, <1>8 DEF HearsLink, U, V
  <1> QED
    BY <1>5, <1>8, <1>9, <1>10 DEF S, T, U, V

\* The content that an event leaves in a window.
LEMMA ContentTaken ==
    ASSUME NEW e \in Events, NEW s, NEW t, NEW id \in Ids, Makes(e, s, t),
           \/ e \in MendsContent(id)
           \/ e \in KeepsContent(id) /\ ContentFits(s[id].content, DOMAIN s, id)
    PROVE  ContentFits(t[id].content, DOMAIN t, id)
  <1>1. e.op \in {"error", "created", "edited", "preview", "deleted"}
    BY DEF Events, Changes
  <1>2. CASE e.op = "error"
    BY <1>2 DEF Makes, MendsContent
  <1>3. CASE e.op # "error" /\ e.id # id
    BY <1>3 DEF Makes, Beside, MendsContent, ContentFits
  <1>4. CASE e.op = "created" /\ e.id = id
    BY <1>4 DEF Makes, MendsContent, KeepsContent, ContentFits
  <1>5. CASE e.op = "edited" /\ e.id = id
    BY <1>5 DEF Makes, MendsContent, KeepsContent, ContentFits
  <1>6. CASE e.op = "preview" /\ e.id = id
    BY <1>6 DEF Makes, MendsContent, ContentFits
  <1>7. CASE e.op = "deleted" /\ e.id = id
    BY <1>7 DEF Makes, ContentFits
  <1> QED
    BY <1>1, <1>2, <1>3, <1>4, <1>5, <1>6, <1>7

\* Its link.
LEMMA LinkTaken ==
    ASSUME NEW e \in Events, NEW s, NEW t, NEW id \in Ids, Makes(e, s, t),
           \/ e \in MendsLink(id)
           \/ e \in KeepsLink(id) /\ (id \in DOMAIN s => s[id].link = preview[id])
    PROVE  id \in DOMAIN t => t[id].link = preview[id]
  <1>1. e.op \in {"error", "created", "edited", "preview", "deleted"}
    BY DEF Events, Changes
  <1>2. CASE e.op = "error"
    BY <1>2 DEF Makes, MendsLink
  <1>3. CASE e.op # "error" /\ e.id # id
    BY <1>3 DEF Makes, Beside, MendsLink
  <1>4. CASE e.op = "created" /\ e.id = id
    BY <1>4 DEF Makes, MendsLink, KeepsLink
  <1>5. CASE e.op = "edited" /\ e.id = id
    BY <1>5 DEF Makes, MendsLink
  <1>6. CASE e.op = "preview" /\ e.id = id
    BY <1>6 DEF Makes, MendsLink, KeepsLink
  <1>7. CASE e.op = "deleted" /\ e.id = id
    BY <1>7 DEF Makes
  <1> QED
    BY <1>1, <1>2, <1>3, <1>4, <1>5, <1>6, <1>7

\* Every entry of the window is one still.
LEMMA EntriesTaken ==
    ASSUME NEW e \in Events, NEW s, NEW t, Makes(e, s, t), IsPage(s)
    PROVE  IsPage(t)
  <1>1. e.op \in {"error", "created", "edited", "preview", "deleted"}
    BY DEF Events, Changes
  <1>2. \A id \in DOMAIN t : id # e.id /\ e.op # "error" => IsEntry(t[id])
    BY DEF Makes, Beside, IsPage
  <1>3. e.op # "error" /\ e.id \in DOMAIN t => IsEntry(t[e.id])
    BY <1>1 DEF Makes, IsPage
  <1> QED
    BY <1>2, <1>3 DEF Makes, IsPage

\* A window that applies the first event of its connection.
LEMMA WindowReceives ==
    ASSUME ChatInv, Deletions, UNCHANGED <<log, preview, handler, orphans, unfurls>>,
           UNCHANGED <<missed, loads>>, Growth,
           NEW d \in Devices, NEW id \in Ids, Steady(id), WindowFits(d, id),
           NEW e \in Events, Out(d) # <<>>, e = Out(d)[1], Out(d)' = Tail(Out(d)),
           Open(d)' <=> Open(d),
           Open(d) => Makes(e, view[d].shown, view'[d].shown)
    PROVE  WindowFits(d, id)'
  <1>1. Live' = Live
    BY DEF Live
  <1>2. /\ HearsContent(d, id) => HearsContent(d, id)'
        /\ HearsLink(d, id) => HearsLink(d, id)'
        /\ Mends(id)' <=> Mends(id)
        /\ Relinks(id)' <=> Relinks(id)
        /\ Announces(id)' <=> Announces(id)
        /\ Ends(Out(d), KeepsContent(id), MendsContent(id)) =>
              Ends(Out(d), KeepsContent(id), MendsContent(id))' \/ e \in MendsContent(id)
        /\ Only(Out(d), KeepsContent(id)) => e \in KeepsContent(id)
        /\ Ends(Out(d), KeepsLink(id), MendsLink(id)) =>
              Ends(Out(d), KeepsLink(id), MendsLink(id))' \/ e \in MendsLink(id)
        /\ Only(Out(d), KeepsLink(id)) => e \in KeepsLink(id)
    BY RestHeard
  <1>3. \A l \in Clean(d)' : PageFits(l, id)'
    BY PageKept DEF WindowFits, Clean
  <1>4. missed'[d] = {} \/ Clean(d)' # {} => HearsContent(d, id)' /\ HearsLink(d, id)'
    BY <1>2 DEF WindowFits, Clean
  <1>5. ASSUME missed'[d] = {}, Open(d)'
        PROVE  FitsContent(d, id)' /\ FitsLink(d, id)' /\ FitsRow(d, id)'
    <2>1. PICK s, t : s = view[d].shown /\ t = view'[d].shown
      OBVIOUS
    <2>2. /\ HearsContent(d, id) /\ HearsLink(d, id)
          /\ FitsContent(d, id) /\ FitsLink(d, id) /\ FitsRow(d, id)
          /\ Makes(e, s, t)
      BY <1>5, <2>1 DEF WindowFits
    <2>3. FitsContent(d, id)'
      <3>1. ContentFits(t[id].content, DOMAIN t, id) => FitsContent(d, id)'
        BY <2>1 DEF FitsContent, ContentFits
      <3>2. Mends(id) \/ Ends(Out(d), KeepsContent(id), MendsContent(id))' => FitsContent(d, id)'
        BY <1>2 DEF FitsContent
      <3>3. e \in MendsContent(id) => ContentFits(t[id].content, DOMAIN t, id)
        BY <2>2, ContentTaken
      <3>4. e \in KeepsContent(id) /\ ContentFits(s[id].content, DOMAIN s, id)
               => ContentFits(t[id].content, DOMAIN t, id)
        BY <2>2, ContentTaken
      <3> QED
        BY <1>2, <2>1, <2>2, <3>1, <3>2, <3>3, <3>4 DEF HearsContent, FitsContent
    <2>4. FitsLink(d, id)'
      <3> SUFFICES ASSUME id \in Live PROVE FitsLink(d, id)'
        BY <1>1 DEF FitsLink
      <3>1. (id \in DOMAIN t => t[id].link = preview[id]) => FitsLink(d, id)'
        BY <2>1 DEF FitsLink
      <3>2. Relinks(id) \/ Ends(Out(d), KeepsLink(id), MendsLink(id))' => FitsLink(d, id)'
        BY <1>2 DEF FitsLink
      <3>3. e \in MendsLink(id) => (id \in DOMAIN t => t[id].link = preview[id])
        BY <2>2, LinkTaken
      <3>4. e \in KeepsLink(id) /\ (id \in DOMAIN s => s[id].link = preview[id])
               => (id \in DOMAIN t => t[id].link = preview[id])
        BY <2>2, LinkTaken
      <3> QED
        BY <1>2, <2>1, <2>2, <3>1, <3>2, <3>3, <3>4 DEF HearsLink, FitsLink
    <2>5. FitsRow(d, id)'
      <3> SUFFICES ASSUME id \in Live PROVE FitsRow(d, id)'
        BY <1>1 DEF FitsRow
      <3>1. Out(d) \in Seq(Events)
        BY OutTyped DEF ChatInv
      <3>2. ~(e.op = "deleted" /\ e.id = id)
        <4>1. 1 \in 1..Len(Out(d))
          BY <3>1
        <4> QED
          BY <4>1 DEF Deletions, Live
      <3>3. id \in DOMAIN s => id \in DOMAIN t
        <4>1. e.op \in {"error", "created", "edited", "preview", "deleted"}
          BY DEF Events, Changes
        <4> QED
          BY <2>2, <3>2, <4>1 DEF Makes, Beside
      <3>4. Coming(d, id) => Coming(d, id)' \/ id \in DOMAIN t
        <4>1. SUFFICES ASSUME NEW j \in 1..Len(Out(d)), Out(d)[j].op = "created",
                              Out(d)[j].id = id
                       PROVE  Coming(d, id)' \/ id \in DOMAIN t
          BY DEF Coming
        <4>2. CASE j = 1
          BY <2>2, <4>1, <4>2 DEF Makes
        <4>3. CASE j # 1
          <5>1. j - 1 \in 1..Len(Out(d)') /\ Out(d)'[j - 1] = Out(d)[j]
            BY <3>1, <4>3
          <5> QED
            BY <4>1, <5>1 DEF Coming
        <4> QED
          BY <4>2, <4>3
      <3> QED
        BY <1>2, <2>1, <2>2, <3>3, <3>4 DEF FitsRow
    <2> QED
      BY <2>3, <2>4, <2>5
  <1> QED
    BY <1>3, <1>4, <1>5 DEF WindowFits

\* An event arrives: the other devices rest.
LEMMA ReceiveKept ==
    ASSUME ChatInv, WindowInv, NEW d \in Devices, Receive(d) PROVE WindowInv'
  <1>1. UNCHANGED <<log, preview, handler, orphans, unfurls, missed, loads>>
    BY DEF Receive, store, tasks
  <1>2. Growth /\ Ids' = Ids /\ Live' = Live /\ Hands' = Hands /\ \A id \in Ids : Steady(id)
    BY <1>1, ServerRests
  <1>3. PICK e \in Events :
           /\ Out(d) # <<>> /\ e = Out(d)[1] /\ Out(d)' = Tail(Out(d))
           /\ \A c \in Devices \ {d} : Out(c)' = Out(c) /\ view'[c].shown = view[c].shown
           /\ \A c \in Devices : view'[c].open = view[c].open
           /\ view'[d].shown = view[d].shown \/ Makes(e, view[d].shown, view'[d].shown)
           /\ Open(d) => Makes(e, view[d].shown, view'[d].shown)
    BY EventTaken DEF WindowInv
  <1>4. \A id \in Ids : WindowFits(d, id)'
    BY <1>1, <1>2, <1>3, WindowReceives DEF WindowInv, Open
  <1>5. \A c \in Devices \ {d}, id \in Ids : WindowFits(c, id)'
    BY <1>1, <1>2, <1>3, DeviceRests DEF Open
  <1>6. Entries'
    <2>1. IsPage(view'[d].shown)
      BY <1>3, EntriesTaken DEF WindowInv, Entries
    <2> QED
      BY <1>1, <1>3, <2>1 DEF WindowInv, Entries
  <1>7. Deletions'
    <2>1. \A c \in Devices : \/ \E r \in Seq(Errors) : Out(c)' = Out(c) \o r
                             \/ Out(c) # <<>> /\ Out(c)' = Tail(Out(c))
      BY <1>3, NothingQueued DEF ChatInv
    <2> QED
      BY <1>1, <1>2, <2>1, DeletionsKept DEF WindowInv
  <1>8. missed' = [c \in Devices |-> missed'[c]]
    BY <1>1 DEF WindowInv
  <1>9. \A c \in Devices, id \in Ids' : WindowFits(c, id)'
    BY <1>2, <1>4, <1>5
  <1> QED
    BY <1>6, <1>7, <1>8, <1>9 DEF WindowInv

\* A connection that goes, with what was queued on it.
LEMMA DropKept ==
    ASSUME ChatInv, WindowInv, NEW d \in Devices, Drop(d) PROVE WindowInv'
  <1>1. /\ orphans' = IF handler[d] = Idle THEN orphans ELSE orphans \cup {handler[d]}
        /\ handler' = [handler EXCEPT ![d] = Idle]
        /\ UNCHANGED <<log, preview, unfurls, view, loads>>
    BY DEF Drop, store, client
  <1>2. \A c \in Devices : handler'[c] = IF c = d THEN Idle ELSE handler[c]
    BY <1>1 DEF ChatInv, TasksTyped
  <1>3. Hands' = Hands
    BY <1>1, <1>2 DEF Hands
  <1>4. Growth /\ Ids' = Ids
    BY <1>1, SameLog DEF ChatInv
  <1>5. \A id \in Ids : Steady(id)
    BY <1>1, <1>3, HandsGrow, SteadyKept DEF UntoldPreviews
  <1>6. \A c \in Devices : Out(c)' = IF c = d THEN <<>> ELSE Out(c)
    BY DEF Drop, Out, ChatInv, SocketTyped
  <1>7. /\ missed' = [c \in Devices |-> missed'[c]]
        /\ \A c \in Devices \ {d} : missed'[c] = missed[c]
        /\ IF Out(d) = <<>> THEN missed'[d] = missed[d] ELSE missed'[d] = missed[d] \cup {"offline"}
    <2>1. PICK x : x = IF socket[d].out = <<>> THEN missed[d] ELSE missed[d] \cup {"offline"}
      OBVIOUS
    <2>2. missed' = [missed EXCEPT ![d] = x]
      BY <2>1 DEF Drop
    <2>3. missed = [c \in Devices |-> missed[c]]
      BY DEF WindowInv
    <2> QED
      BY <2>1, <2>2, <2>3 DEF Out
  <1>8. \A c \in Devices : \/ Out(c)' = Out(c) /\ missed'[c] = missed[c]
                           \/ Out(c)' = <<>> /\ missed'[c] # {}
    BY <1>6, <1>7
  <1>9. \A c \in Devices : Undisturbed(c)
    <2>1. \A c \in Devices : Out(c)' = Out(c) => \E r \in Seq(Errors) : Out(c)' = Out(c) \o r
      BY NothingQueued DEF ChatInv
    <2> QED
      BY <1>1, <1>8, <2>1 DEF Undisturbed, Open, Clean
  <1>10. Entries'
    BY <1>1 DEF WindowInv, Entries
  <1>11. Deletions'
    <2>1. \A c \in Devices : \/ \E r \in Seq(Errors) : Out(c)' = Out(c) \o r
                             \/ Out(c)' = <<>>
      BY <1>8, NothingQueued DEF ChatInv
    <2> QED
      BY <1>1, <1>3, <1>4, <2>1, DeletionsKept DEF WindowInv
  <1> QED
    BY <1>4, <1>5, <1>7, <1>9, <1>10, <1>11, WindowsKept

\* A restart: every device has missed something, and no page is on its way.
LEMMA RestartKept ==
    ASSUME ChatInv, WindowInv, Restart PROVE WindowInv'
  <1>1. /\ Hands' = {} /\ view' = view
        /\ \A d \in Devices : Out(d)' = <<>> /\ loads'[d] = {} /\ missed'[d] # {}
        /\ missed' = [d \in Devices |-> missed'[d]]
    <2>1. missed' = [d \in Devices |-> missed[d] \cup {"offline"}]
      BY DEF Restart
    <2>2. \A d \in Devices : missed'[d] # {}
      BY <2>1
    <2>3. missed' = [d \in Devices |-> missed'[d]]
      BY <2>1
    <2>4. handler' = [d \in Devices |-> Idle] /\ orphans' = {}
      BY DEF Restart
    <2>5. Hands' = {}
      BY <2>4 DEF Hands
    <2>6. \A d \in Devices : Out(d)' = <<>> /\ loads'[d] = {}
      BY DEF Restart, Out
    <2>7. view' = view
      BY DEF Restart
    <2> QED
      BY <2>2, <2>3, <2>5, <2>6, <2>7
  <1>2. Entries'
    BY <1>1 DEF WindowInv, Entries
  <1>3. Deletions'
    BY <1>1 DEF Deletions
  <1>4. \A d \in Devices : \A id : WindowFits(d, id)'
    BY <1>1, WindowExcused DEF Clean
  <1>5. \A d \in Devices, id \in Ids' : WindowFits(d, id)'
    BY <1>4
  <1> QED
    BY <1>1, <1>2, <1>3, <1>5 DEF WindowInv

\* Every step keeps the windows right.
LEMMA StepWindows ==
    ASSUME ChatInv, WindowInv, [Next]_vars PROVE WindowInv'
  <1>1. CASE UserActs
    BY <1>1, ActsKept
  <1>2. ASSUME NEW d \in Devices, Handle(d) \/ CreateFails(d) \/ ChangeFails(d) \/ TellChange(d)
        PROVE  WindowInv'
    BY <1>2, CreationKept, AnswersKept, ChangeKept, TellingKept DEF Handle
  <1>3. CASE TellOrphan \/ UnfurlStep \/ PostCard
    BY <1>3, TellingKept, UnfurlKept, CreationKept
  <1>4. CASE ScanUnattached \/ Cleanup
    BY <1>4, ActsKept
  <1>5. ASSUME NEW d \in Devices, LoadHistory(d) \/ HistoryFails(d) \/ Receive(d)
        PROVE  WindowInv'
    BY <1>5, HistoryKept, ReceiveKept
  <1>6. CASE \E r \in Requests : TimerFires(r)
    BY <1>6, ActsKept
  <1>7. ASSUME NEW d \in Devices, Drop(d) \/ Reconnect(d) PROVE WindowInv'
    BY <1>7, DropKept, ActsKept
  <1>8. CASE Restart
    BY <1>8, RestartKept
  <1>9. CASE UNCHANGED vars
    <2>1. UNCHANGED <<log, preview, unfurls, view, missed, loads, handler, orphans, socket>>
      BY <1>9 DEF vars, store, tasks, client
    <2>2. \A d \in Devices : Out(d)' = Out(d)
      BY <2>1 DEF Out
    <2>3. \A d \in Devices : \E r \in Seq(Errors) : Out(d)' = Out(d) \o r
      BY <2>2, NothingQueued DEF ChatInv
    <2> QED
      BY <2>1, <2>3, WindowsUntouched DEF Hands
  <1> QED
    BY <1>1, <1>2, <1>3, <1>4, <1>5, <1>6, <1>7, <1>8, <1>9 DEF Next

\* Once nothing is under way, a window that missed nothing shows what is stored.
LEMMA QuietWindow ==
    ASSUME ChatInv, WindowInv, Quiet, NEW d \in Devices, Open(d), missed[d] = {}
    PROVE  view[d].shown = Stored
  <1>1. Out(d) = <<>>
    BY DEF Quiet, Out
  <1>2. \A id : Untold(id) = {} /\ UntoldPreviews(id) = {}
    BY DEF Quiet, Untold, UntoldPreviews
  <1>3. \A id \in Ids : FitsContent(d, id) /\ FitsLink(d, id) /\ FitsRow(d, id)
    BY DEF WindowInv, WindowFits
  <1>4. PICK s : s = view[d].shown
    OBVIOUS
  <1>5. \A id \in Ids : ContentFits(s[id].content, DOMAIN s, id)
    BY <1>1, <1>2, <1>3, <1>4 DEF FitsContent, Mends, Ends
  <1>6. \A id \in Live : id \in DOMAIN s /\ s[id].link = preview[id]
    <2>1. \A id \in Live : id \in Ids
      BY DEF Live, Ids
    <2>2. \A id \in Live : id \in DOMAIN s
      BY <1>1, <1>2, <1>3, <1>4, <2>1 DEF FitsRow, Announces, Coming
    <2> QED
      BY <1>1, <1>2, <1>3, <1>4, <2>1, <2>2 DEF FitsLink, Relinks, Ends
  <1>7. DOMAIN s = Live
    <2>1. DOMAIN s \subseteq Ids
      BY <1>4 DEF ChatInv, ViewTyped
    <2> QED
      BY <1>5, <1>6, <2>1 DEF ContentFits, Live, Ids
  <1>8. \A id \in Live : s[id] = [content |-> log[id].content, link |-> preview[id]]
    <2>1. ASSUME NEW id \in Live
          PROVE  s[id] = [content |-> log[id].content, link |-> preview[id]]
      <3>1. id \in DOMAIN s /\ s[id].link = preview[id] /\ id \in Ids
        BY <1>6, <2>1 DEF Live, Ids
      <3>2. s[id].content = log[id].content
        BY <1>5, <3>1, <2>1 DEF ContentFits, Live
      <3>3. s[id] = [content |-> s[id].content, link |-> s[id].link]
        BY <1>4, <3>1 DEF WindowInv, Entries, IsPage, IsEntry
      <3> QED
        BY <3>1, <3>2, <3>3
    <2> QED
      BY <2>1
  <1>9. s = [id \in DOMAIN s |-> s[id]]
    BY <1>4 DEF WindowInv, Entries, IsPage
  <1> QED
    BY <1>4, <1>7, <1>8, <1>9 DEF Stored

\* Through any number of devices, messages, retries, edits and deletions, their
\* unfurls, the pages of history and the connections that come and go, a window of
\* App.tsx that missed nothing shows, once everything under way has arrived,
\* exactly the messages, the contents and the previews that the server stores.
THEOREM WindowsAgree == Spec => []AgreesWhenQuiet
  <1>1. Init => WindowInv
    <2> SUFFICES ASSUME Init PROVE WindowInv
      OBVIOUS
    <2>1. Hands = {} /\ Ids = {}
      BY DEF Init, Hands, Ids
    <2>2. missed = [d \in Devices |-> missed[d]]
      BY DEF Init
    <2>3. \A d \in Devices : Out(d) = <<>> /\ loads[d] = {} /\ DOMAIN view[d].shown = {}
      BY DEF Init, Out
    <2>4. \A d \in Devices : IsPage(view[d].shown)
      BY DEF Init, IsPage
    <2> QED
      BY <2>1, <2>2, <2>3, <2>4 DEF WindowInv, Entries, Deletions
  <1>2. ChatInv /\ WindowInv /\ [Next]_vars => WindowInv'
    BY StepWindows
  <1>3. ChatInv /\ WindowInv => AgreesWhenQuiet
    BY QuietWindow DEF AgreesWhenQuiet
  <1> QED
    BY <1>1, <1>2, <1>3, ChatAlways, PTL DEF Spec
=============================================================================
