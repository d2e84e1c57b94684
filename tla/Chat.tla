---------------------------------- MODULE Chat ---------------------------------
(***************************************************************************)
(* The messages of one text channel: the chat handlers of                  *)
(* server/src/ws/handler.rs over the messages, attachments and             *)
(* message_link_previews tables, the unfurl tasks of                       *)
(* server/src/link_preview.rs, the attachment cleanup of                   *)
(* server/src/main.rs, the history of server/src/routes/messages.rs, and   *)
(* the optimistic sends and the view of client/ui/src/App.tsx, one for     *)
(* each device.                                                            *)
(*                                                                         *)
(* A connection's frames are handled one at a time; the handlers of        *)
(* different connections, and the tasks, interleave at every await, so a   *)
(* handler is a commit and, later, the telling of it.  The devices belong  *)
(* to members of the community that stay members.                          *)
(***************************************************************************)
EXTENDS Naturals, Sequences, FiniteSets

CONSTANTS
    Devices,    \* the devices the channel is open on at first
    User,       \* whose each device is
    Requests,   \* the request ids the devices choose
    Sender,     \* the device each request comes from
    Contents,   \* what a message may say
    Link,       \* the first link of each content, or None
    Files,      \* the attachments uploaded to the channel
    FilesOf,    \* the files each request attaches
    None, Removed,
    Budgets     \* the bounds a behaviour may run under (see budget)

Bounds == {"retries", "edits", "deletes", "cards", "drops", "restarts",
           "visits", "faults", "scans"}

Links == {Link[c] : c \in Contents} \* None among them

ASSUME ChatAssumption ==
    /\ User \in [Devices -> {User[d] : d \in Devices}]
    /\ Sender \in [Requests -> Devices]
    /\ Link \in [Contents -> Links]
    /\ FilesOf \in [Requests -> SUBSET Files]
    /\ None \notin Requests \cup Nat /\ None # Removed /\ Removed \notin Nat
    /\ "card" \in Contents /\ Link["card"] = None
    /\ \A b \in Budgets : /\ \A what \in Bounds : b[what] \in Nat
                          /\ DOMAIN b = Bounds \cup {"devices", "says"}
                          /\ b.devices \subseteq Devices
                          /\ b.says \in [DOMAIN b.says -> Contents]
                          /\ DOMAIN b.says \subseteq Requests

VARIABLES
    log,        \* messages: the rows in the order of their insertion
    owner,      \* attachments: each row's message_id, or Removed
    disk,       \* the files in the attachment storage
    cleanup,    \* what the cleanup has scanned and has yet to remove
    preview,    \* message_link_previews: the link of each message that has one
    handler,    \* each connection's handler: the change it has yet to tell
    orphans,    \* the handlers whose connection is gone
    unfurls,    \* the tasks spawned to look up links
    socket,     \* each device's connection: up, the frames in and out
    view,       \* each device's window: the channel open, the messages shown
    status,     \* each request as its sender shows it
    timer,      \* the requests with a send timeout
    loads,      \* each device's requests for history
    missed,     \* history: why a device may be wrong (see AgreesWhenQuiet)
    excused,    \* history: the messages whose preview may be wrong
    budget      \* bound: what is left of each kind of event, the devices in
                \* play, and what each request in play says

store  == <<log, owner, disk, cleanup, preview>>
tasks  == <<handler, orphans, unfurls>>
client == <<view, status, timer, loads>>
vars   == <<store, tasks, socket, client, missed, excused, budget>>

Spend(what) == budget[what] > 0 /\ budget' = [budget EXCEPT ![what] = @ - 1]

Idle == [op |-> "idle"]

Init ==
    /\ budget \in Budgets
    /\ log = <<>>
    /\ owner = [f \in Files |-> None] /\ disk = Files
    /\ cleanup = [scanned |-> {}, removing |-> {}]
    /\ preview = <<>>
    /\ handler = [d \in Devices |-> Idle] /\ orphans = {} /\ unfurls = {}
    /\ socket = [d \in Devices |-> [up |-> d \in budget.devices, in |-> <<>>, out |-> <<>>]]
    /\ view = [d \in Devices |-> [open |-> TRUE, shown |-> <<>>]]
    /\ status = [r \in Requests |-> "unsent"]
    /\ timer = {}
    /\ loads = [d \in Devices |-> {}]
    /\ missed = [d \in Devices |-> {}]
    /\ excused = {}

\* What the history shows of the rows.
Live == {id \in DOMAIN log : ~log[id].deleted}

\* shown is a function on the ids of the messages shown.
With(shown, id, entry) == [i \in DOMAIN shown \cup {id} |-> IF i = id THEN entry ELSE shown[i]]
Without(shown, id)     == [i \in DOMAIN shown \ {id} |-> shown[i]]

-----------------------------------------------------------------------------
(* Telling: hub.broadcast_to and hub.send_to queue an event on every open  *)
(* connection of the recipients.                                           *)

Connected == {d \in Devices : socket[d].up}

DevicesOf(user) == {d \in Devices : User[d] = user}

Queue(event, recipients) ==
    socket' = [d \in Devices |->
                  IF d \in recipients \cap Connected
                  THEN [socket[d] EXCEPT !.out = Append(@, event)] ELSE socket[d]]

\* The changes of message id that have been committed and not told.
Untold(id) == {e \in {handler[d] : d \in Devices} \cup orphans :
                  e # Idle /\ e.id = id /\ e.to = "all"}

UntoldPreviews(id) == {t \in unfurls : t.id = id /\ t.at = "telling"}

\* The event says what is stored now.  Of a deleted message, only its creation
\* makes a difference to a window.
Current(e) ==
    IF log[e.id].deleted THEN e.op # "created"
    ELSE IF e.op = "preview" THEN preview[e.id] = e.link ELSE log[e.id].content = e.content

\* The event leaves its message, wherever it is shown, as it is stored now.
Settles(e) == IF log[e.id].deleted THEN e.op = "deleted" ELSE e.op = "edited" /\ Current(e)

\* A page of history on its way is out of date (see LoadHistory).
Overtake == loads' = [d \in Devices |-> {[l EXCEPT !.dirty = TRUE] : l \in loads[d]}]

\* A device misses an event while its socket is down, and has seen a later one
\* if this is out of date and nothing is under way to correct it.
Miss(recipients, outdated) ==
    /\ missed' = [d \in Devices |->
          IF d \notin recipients THEN missed[d]
          ELSE missed[d] \cup (IF d \in Connected THEN {} ELSE {"offline"})
                         \cup (IF outdated THEN {"overtaken"} ELSE {})]
    /\ Overtake

MissAll(reason) == missed' = [d \in Devices |-> missed[d] \cup {reason}] /\ Overtake

\* spawn_unfurl_task.  Two tasks of one message race, and one may be spawned
\* for a content that was changed since (a history, see PreviewFollowsContent).
Unfurl(id, content) ==
    /\ unfurls' = unfurls \cup {[id |-> id, content |-> content, at |-> "looking",
                                 link |-> None]}
    /\ excused' = IF log[id].content # content \/ \E t \in unfurls : t.id = id THEN excused \cup {id} ELSE excused \ {id}

\* What a handler does once it has told its change.
Follow(e) == IF e.op # "deleted" /\ e.to = "all" /\ e.content # "card"
             THEN Unfurl(e.id, e.content) ELSE UNCHANGED <<unfurls, excused>>

\* The window that hears e will not show what is stored: a later change was told
\* before, or a preview that the event does not have.
OutOfDate(e) ==
    \/ ~Current(e) /\ ~ \E later \in Untold(e.id) : Settles(later)
    \/ e.op = "created" /\ e.id \in Live /\ preview[e.id] # None

\* The end of handle_chat_create, handle_chat_edit and handle_chat_delete.
\* The reply to a retry goes to its user only.
Tell(e) ==
    LET recipients == IF e.to = "all" THEN Devices ELSE DevicesOf(e.to)
    IN  Queue(e, recipients) /\ Miss(recipients, OutOfDate(e)) /\ Follow(e)

\* The lookup of the recipients fails: the change is stored and nobody hears of
\* it.  After an edit the failure of channel_if_member drops the unfurl as well.
TellNobody(e) ==
    /\ e.to = "all"
    /\ Spend("faults")
    /\ MissAll("untold")
    /\ \/ Follow(e)
       \/ e.op = "edited" /\ excused' = excused \cup {e.id} /\ UNCHANGED unfurls
    /\ UNCHANGED socket

Tells(e) == (Tell(e) /\ UNCHANGED budget) \/ TellNobody(e)

TellChange(d) ==
    /\ handler[d] # Idle
    /\ Tells(handler[d])
    /\ handler' = [handler EXCEPT ![d] = Idle]
    /\ UNCHANGED <<store, orphans, view, status, timer>>

TellOrphan ==
    /\ \E e \in orphans : Tells(e) /\ orphans' = orphans \ {e}
    /\ UNCHANGED <<store, handler, view, status, timer>>

-----------------------------------------------------------------------------
(* The handlers: the next frame of a connection.                           *)

Frame(d) == socket[d].in[1]

Handles(d, op) ==
    /\ handler[d] = Idle /\ socket[d].in # <<>>
    /\ Frame(d).op = op

\* The frame is done; its sender's user is sent `replies`.
Reply(d, replies) ==
    socket' = [c \in Devices |->
        LET done == [socket[c] EXCEPT !.in = IF c = d THEN Tail(@) ELSE @]
        IN  IF c \in DevicesOf(User[d]) \cap Connected
            THEN [done EXCEPT !.out = @ \o replies] ELSE done]

Refusal(request) == <<[op |-> "error", request |-> request]>>

\* Mutant: a retry inserts a second row (no ON CONFLICT clause).
ExistingNever(request) == {}

\* The insertion conflicts with the row of an earlier attempt.
Existing(request) == {id \in DOMAIN log : log[id].request = request}

Insert(request, user, content) ==
    /\ log' = Append(log, [request |-> request, user |-> user, content |-> content,
                           deleted |-> FALSE])
    /\ preview' = Append(preview, None)

Created(id, request, content, to) ==
    [op |-> "created", id |-> id, request |-> request, content |-> content, to |-> to]

\* The transaction of a new message: the row and every one of its files, or
\* nothing.
CreateNew(d) ==
    LET request == Frame(d).request
        files   == {f \in FilesOf[request] : owner[f] = None}
    IN  /\ Handles(d, "create")
        /\ Existing(request) = {}
        /\ files = FilesOf[request]
        /\ Insert(request, User[d], Frame(d).content)
        /\ owner' = [f \in Files |-> IF f \in files THEN Len(log) + 1 ELSE owner[f]]
        /\ handler' = [handler EXCEPT ![d] =
                          Created(Len(log) + 1, request, Frame(d).content, "all")]
        /\ Reply(d, <<>>)
        /\ UNCHANGED <<disk, cleanup, orphans, unfurls, client, missed, excused, budget>>

\* Files that are gone roll the row back.
RefuseFiles(d) ==
    /\ Handles(d, "create")
    /\ Existing(Frame(d).request) = {}
    /\ \E f \in FilesOf[Frame(d).request] : owner[f] # None
    /\ Reply(d, Refusal(Frame(d).request))
    /\ UNCHANGED <<store, tasks, client, missed, excused, budget>>

\* A retry of a request that is stored resolves to its row, whatever became of
\* it since.
CreateAgain(d) ==
    /\ Handles(d, "create")
    /\ \E id \in Existing(Frame(d).request) :
          handler' = [handler EXCEPT ![d] =
                         Created(id, Frame(d).request, log[id].content, User[d])]
    /\ Reply(d, <<>>)
    /\ UNCHANGED <<store, orphans, unfurls, client, missed, excused, budget>>

\* Mutant: the files are taken outside the transaction, for a row that is lost.
CreateFailsHalfway(d) ==
    /\ Handles(d, "create")
    /\ Spend("faults")
    /\ owner' = [f \in Files |-> IF f \in FilesOf[Frame(d).request] THEN Len(log) + 1 ELSE owner[f]]
    /\ Reply(d, Refusal(Frame(d).request))
    /\ UNCHANGED <<log, disk, cleanup, preview, tasks, client, missed, excused>>

\* begin, the insertion or the commit fails.
CreateFails(d) ==
    /\ Handles(d, "create")
    /\ Spend("faults")
    /\ Reply(d, Refusal(Frame(d).request))
    /\ UNCHANGED <<store, tasks, client, missed, excused>>

Mine(d, id) == log[id].user = User[d] /\ ~log[id].deleted

HandleEdit(d) ==
    LET id == Frame(d).id
    IN  /\ Handles(d, "edit")
        /\ IF Mine(d, id)
           THEN /\ log' = [log EXCEPT ![id].content = Frame(d).content]
                /\ handler' = [handler EXCEPT ![d] =
                      [op |-> "edited", id |-> id, content |-> Frame(d).content, to |-> "all"]]
                /\ Reply(d, <<>>)
           ELSE Reply(d, Refusal(None)) /\ UNCHANGED <<log, handler>>
        /\ UNCHANGED <<owner, disk, cleanup, preview, orphans, unfurls, client, missed,
                       excused, budget>>

HandleDelete(d) ==
    LET id == Frame(d).id
    IN  /\ Handles(d, "delete")
        /\ IF Mine(d, id)
           THEN /\ log' = [log EXCEPT ![id].deleted = TRUE]
                /\ handler' = [handler EXCEPT ![d] = [op |-> "deleted", id |-> id, to |-> "all"]]
                /\ Reply(d, <<>>)
           ELSE Reply(d, Refusal(None)) /\ UNCHANGED <<log, handler>>
        /\ UNCHANGED <<owner, disk, cleanup, preview, orphans, unfurls, client, missed,
                       excused, budget>>

\* The update of an edit or a deletion fails: its sender is not told.
ChangeFails(d) ==
    /\ Handles(d, "edit") \/ Handles(d, "delete")
    /\ Spend("faults")
    /\ Reply(d, <<>>)
    /\ UNCHANGED <<store, tasks, client, missed, excused>>

\* handle_music_status: the music bot's connection posts a card, with no
\* request id and no link to look up.  Its handler counts among the orphans.
PostCard ==
    /\ Spend("cards")
    /\ Insert(None, "bot", "card")
    /\ orphans' = orphans \cup {Created(Len(log) + 1, None, "card", "all")}
    /\ UNCHANGED <<owner, disk, cleanup, handler, unfurls, socket, client, missed, excused>>

-----------------------------------------------------------------------------
(* The unfurl tasks (link_preview.rs).                                     *)

\* extract_first_url finds one.
HasLink(t) == Link[t.content] # None

SetPreview(id, link) == preview' = [preview EXCEPT ![id] = link]

Turn(t, link) == unfurls' = (unfurls \ {t}) \cup {[t EXCEPT !.at = "telling", !.link = link]}

\* The content has a link and it was fetched: the preview is stored.
StorePreview(t) ==
    /\ t.at = "looking" /\ HasLink(t)
    /\ SetPreview(t.id, Link[t.content])
    /\ Turn(t, Link[t.content])
    /\ UNCHANGED excused

\* The fetch, the upsert or the removal failed: the preview that was there stays,
\* nobody is told and nothing is tried again.
GiveUpPreview(t) ==
    /\ t.at = "looking"
    /\ unfurls' = unfurls \ {t}
    /\ excused' = IF preview[t.id] = Link[t.content] THEN excused ELSE excused \cup {t.id}
    /\ UNCHANGED preview

\* Mutant: only a content with a link touches the preview.
RemoveNothing(t) ==
    /\ t.at = "looking" /\ ~HasLink(t)
    /\ unfurls' = unfurls \ {t}
    /\ UNCHANGED <<preview, excused>>

\* The content has no link and the removal succeeds: a preview there was goes.
RemovePreview(t) ==
    /\ t.at = "looking" /\ ~HasLink(t)
    /\ SetPreview(t.id, None)
    /\ IF preview[t.id] # None THEN Turn(t, None) ELSE unfurls' = unfurls \ {t}
    /\ UNCHANGED excused

TellPreview(t) ==
    LET event == [op |-> "preview", id |-> t.id, link |-> t.link]
    IN  /\ t.at = "telling"
        /\ Queue(event, Devices)
        /\ Miss(Devices, ~Current(event)
                            /\ ~ \E u \in UntoldPreviews(t.id) : u.link = preview[t.id])
        /\ unfurls' = unfurls \ {t}

TellPreviewToNobody(t) ==
    /\ t.at = "telling"
    /\ Spend("faults")
    /\ MissAll("untold")
    /\ unfurls' = unfurls \ {t}
    /\ UNCHANGED socket

UnfurlStep ==
    \E t \in unfurls :
       \/ /\ StorePreview(t) \/ RemovePreview(t) \/ GiveUpPreview(t)
          /\ UNCHANGED <<socket, missed, loads>>
          /\ UNCHANGED <<log, owner, disk, cleanup, handler, orphans, view, status, timer, budget>>
       \/ /\ (TellPreview(t) /\ UNCHANGED budget) \/ TellPreviewToNobody(t)
          /\ UNCHANGED <<store, handler, orphans, view, status, timer, excused>>

-----------------------------------------------------------------------------
(* The attachment cleanup (spawn_attachment_cleanup): an hourly scan for   *)
(* the uploads no message took within their time to live, which is over    *)
(* for any file at any time here.                                          *)

ScanUnattached ==
    /\ cleanup = [scanned |-> {}, removing |-> {}]
    /\ Spend("scans")
    /\ \E old \in SUBSET {f \in Files : owner[f] = None} :
          cleanup' = [cleanup EXCEPT !.scanned = old]
    /\ UNCHANGED <<log, owner, disk, preview, tasks, socket, client, missed, excused>>

\* Mutant: the row goes whoever has taken the file since the scan.
DeleteScanned(f) ==
    /\ f \in cleanup.scanned /\ cleanup.removing = {}
    /\ cleanup' = [scanned |-> cleanup.scanned \ {f}, removing |-> {f}]
    /\ UNCHANGED <<log, owner, disk, preview, tasks, socket, client, missed, excused, budget>>

\* The conditional delete, which takes only what is still unattached.
DeleteUnattached(f) ==
    /\ f \in cleanup.scanned /\ cleanup.removing = {}
    /\ owner' = [owner EXCEPT ![f] = IF @ = None THEN Removed ELSE @]
    /\ cleanup' = [scanned  |-> cleanup.scanned \ {f},
                   removing |-> IF owner[f] = None THEN {f} ELSE {}]
    /\ UNCHANGED <<log, disk, preview, tasks, socket, client, missed, excused, budget>>

RemoveFile(f) ==
    /\ f \in cleanup.removing
    /\ disk' = disk \ {f}
    /\ cleanup' = [cleanup EXCEPT !.removing = {}]
    /\ UNCHANGED <<log, owner, preview, tasks, socket, client, missed, excused, budget>>

Cleanup == \E f \in Files : DeleteUnattached(f) \/ RemoveFile(f)

-----------------------------------------------------------------------------
(* History over HTTP (messages.rs): the rows and their previews are read   *)
(* in two queries, and the page travels apart from the socket's events.  A *)
(* page is dirty (a history) when it cannot be relied on to repair what    *)
(* the device missed: an event is told while it is on its way, or waits in *)
(* the socket when it is read.                                             *)

HistoryStep(d, l, next) == loads' = [loads EXCEPT ![d] = (@ \ {l}) \cup next]

ReadRows(d, l) ==
    /\ l.at = "asked"
    /\ HistoryStep(d, l, {[at |-> "rows", dirty |-> missed[d] # {} /\ socket[d].out # <<>>,
                           page |-> [id \in Live |-> log[id].content]]})
    /\ UNCHANGED <<view, status, missed>>

ReadPreviews(d, l) ==
    /\ l.at = "rows"
    /\ HistoryStep(d, l, {[at |-> "page", dirty |-> l.dirty,
          page |-> [id \in DOMAIN l.page |-> [content |-> l.page[id], link |-> preview[id]]]]})
    /\ UNCHANGED <<view, status, missed>>

\* Mutant: the page is added to what the window shows.
AddPage(d, l) ==
    /\ l.at = "page"
    /\ HistoryStep(d, l, {})
    /\ view' = [view EXCEPT ![d].shown =
          [id \in DOMAIN @ \cup DOMAIN l.page |-> IF id \in DOMAIN l.page THEN l.page[id] ELSE @[id]]]
    /\ status' = status
    /\ missed' = [missed EXCEPT ![d] = IF l.dirty THEN @ \cup {"stale"} ELSE {}]

\* The page replaces the window's messages, those in progress included, or the
\* cache of a channel that was left.
ShowPage(d, l) ==
    /\ l.at = "page"
    /\ HistoryStep(d, l, {})
    /\ view' = [view EXCEPT ![d].shown = l.page]
    /\ status' = [r \in Requests |->
          IF Sender[r] = d /\ status[r] \in {"pending", "failed"} THEN "forgotten" ELSE status[r]]
    /\ missed' = [missed EXCEPT ![d] = IF l.dirty THEN @ \cup {"stale"} ELSE {}]

LoadHistory(d) ==
    /\ \E l \in loads[d] : ReadRows(d, l) \/ ReadPreviews(d, l) \/ ShowPage(d, l)
    /\ UNCHANGED <<store, tasks, socket, timer, excused, budget>>

HistoryFails(d) ==
    /\ Spend("faults")
    /\ \E l \in loads[d] : HistoryStep(d, l, {})
    /\ UNCHANGED <<store, tasks, socket, view, status, timer, missed, excused>>

-----------------------------------------------------------------------------
(* The window of a device (App.tsx).                                       *)

Open(d) == view[d].open

\* SendWebSocketAsync: a frame goes out, or the send throws.
Send(d, frame) == socket' = [socket EXCEPT ![d].in = Append(@, frame)]

\* sendOptimistic: the entry is pending until the timer says otherwise.  With
\* the socket down the bridge answers with an error at once.
SendOptimistic(r) ==
    LET d == Sender[r]
    IN  /\ Open(d)
        /\ IF socket[d].up
           THEN /\ Send(d, [op |-> "create", request |-> r, content |-> budget.says[r]])
                /\ status' = [status EXCEPT ![r] = "pending"]
                /\ timer' = timer \cup {r}
           ELSE status' = [status EXCEPT ![r] = "failed"] /\ UNCHANGED <<socket, timer>>
        /\ UNCHANGED <<store, tasks, view, loads, missed, excused>>

SubmitMessage(r) ==
    /\ r \in DOMAIN budget.says /\ Sender[r] \in budget.devices /\ status[r] = "unsent"
    /\ SendOptimistic(r)
    /\ UNCHANGED budget

\* Mutant: a retry that starts no timer.
RetryUntimed(r) ==
    /\ status[r] = "failed" /\ Spend("retries")
    /\ socket[Sender[r]].up
    /\ Send(Sender[r], [op |-> "create", request |-> r, content |-> budget.says[r]])
    /\ status' = [status EXCEPT ![r] = "pending"]
    /\ UNCHANGED <<store, tasks, view, timer, loads, missed, excused>>

\* retryMessage: the same request id, content and files.
RetryMessage(r) ==
    /\ status[r] = "failed" /\ Spend("retries")
    /\ SendOptimistic(r)

CancelMessage(r) ==
    /\ Open(Sender[r])
    /\ status[r] = "failed"
    /\ status' = [status EXCEPT ![r] = "cancelled"]
    /\ timer' = timer \ {r}
    /\ UNCHANGED <<store, tasks, socket, view, loads, missed, excused, budget>>

\* SEND_TIMEOUT_MS is over.  The list a timer finds is the channel shown then.
TimerFires(r) ==
    /\ r \in timer
    /\ timer' = timer \ {r}
    /\ status' = [status EXCEPT ![r] = IF Open(Sender[r]) /\ @ = "pending" THEN "failed" ELSE @]
    /\ UNCHANGED <<store, tasks, socket, view, loads, missed, excused, budget>>

\* editMessage and deleteMessage, of a message of one's own that is shown.
CanChange(d, id) ==
    Open(d) /\ socket[d].up /\ id \in DOMAIN view[d].shown /\ log[id].user = User[d]

EditMessage(d, id, content) ==
    /\ CanChange(d, id) /\ content # view[d].shown[id].content
    /\ Spend("edits")
    /\ Send(d, [op |-> "edit", id |-> id, content |-> content])
    /\ UNCHANGED <<store, tasks, client, missed, excused>>

DeleteMessage(d, id) ==
    /\ CanChange(d, id)
    /\ Spend("deletes")
    /\ Send(d, [op |-> "delete", id |-> id])
    /\ UNCHANGED <<store, tasks, client, missed, excused>>

\* chooseChannel: another channel, and back to this one, whose cached messages
\* show until the history comes.  To choose the channel that is open asks for its
\* history too; its cache is kept equal to the window.
LeaveChannel(d) ==
    /\ d \in budget.devices /\ Open(d) /\ Spend("visits")
    /\ view' = [view EXCEPT ![d].open = FALSE]
    /\ UNCHANGED <<store, tasks, socket, status, timer, loads, missed, excused>>

ChooseChannel(d) ==
    /\ \/ /\ ~Open(d)
          /\ missed' = [missed EXCEPT ![d] = @ \cup {"away"}]
          /\ UNCHANGED budget
       \/ d \in budget.devices /\ Open(d) /\ Spend("visits") /\ UNCHANGED missed
    /\ view' = [view EXCEPT ![d].open = TRUE]
    /\ loads' = [loads EXCEPT ![d] = @ \cup {[at |-> "asked", dirty |-> FALSE, page |-> <<>>]}]
    /\ UNCHANGED <<store, tasks, socket, status, timer, excused>>

-----------------------------------------------------------------------------
(* The events, as the window applies them.                                 *)

\* The sender's own entry is replaced, anything else is added once.
ShowCreated(d, e) ==
    LET r == e.request
        mine == r # None /\ Sender[r] = d /\ status[r] \in {"pending", "failed"}
        shown == [content |-> e.content, link |-> None]
    IN  /\ view' = IF mine \/ e.id \notin DOMAIN view[d].shown
                   THEN [view EXCEPT ![d].shown = With(@, e.id, shown)] ELSE view
        /\ status' = IF mine THEN [status EXCEPT ![r] = "confirmed"] ELSE status
        /\ timer' = IF r # None /\ Sender[r] = d THEN timer \ {r} ELSE timer

ShowChange(d, e) ==
    /\ view' = IF e.id \notin DOMAIN view[d].shown THEN view
               ELSE [view EXCEPT ![d].shown =
                  CASE e.op = "edited"  -> [@ EXCEPT ![e.id].content = e.content]
                    [] e.op = "preview" -> [@ EXCEPT ![e.id].link = e.link]
                    [] e.op = "deleted" -> Without(@, e.id)]
    /\ UNCHANGED <<status, timer>>

\* An error answers a request only while its timer runs.
ShowError(d, r) ==
    IF r \in timer /\ Sender[r] = d
    THEN /\ timer' = timer \ {r}
         /\ status' = [status EXCEPT ![r] =
                          IF Open(d) /\ @ \in {"pending", "failed"} THEN "failed" ELSE @]
         /\ UNCHANGED view
    ELSE UNCHANGED <<view, status, timer>>

Receive(d) ==
    /\ socket[d].out # <<>>
    /\ LET e == socket[d].out[1]
       IN  \/ e.op = "created" /\ Open(d) /\ ShowCreated(d, e)
           \/ e.op \in {"edited", "preview", "deleted"} /\ Open(d) /\ ShowChange(d, e)
           \/ e.op = "error" /\ ShowError(d, e.request)
           \/ e.op # "error" /\ ~Open(d) /\ UNCHANGED <<view, status, timer>>
    /\ socket' = [socket EXCEPT ![d].out = Tail(@)]
    /\ UNCHANGED <<store, tasks, loads, missed, excused, budget>>

-----------------------------------------------------------------------------
(* Connections drop and return; the server dies and starts again.          *)

\* What is queued either way is lost; a handler that is running goes on.
Drop(d) ==
    /\ socket[d].up /\ Spend("drops")
    /\ socket' = [socket EXCEPT ![d] = [up |-> FALSE, in |-> <<>>, out |-> <<>>]]
    /\ missed' = [missed EXCEPT ![d] = IF socket[d].out = <<>> THEN @ ELSE @ \cup {"offline"}]
    /\ orphans' = IF handler[d] = Idle THEN orphans ELSE orphans \cup {handler[d]}
    /\ handler' = [handler EXCEPT ![d] = Idle]
    /\ UNCHANGED <<store, unfurls, client, excused>>

\* connection.state: the window asks for the voice rooms and for nothing else.
Reconnect(d) ==
    /\ d \in budget.devices /\ ~socket[d].up
    /\ socket' = [socket EXCEPT ![d].up = TRUE]
    /\ UNCHANGED <<store, tasks, client, missed, excused, budget>>

\* The database and the files stay; what a task had yet to tell is never told.
Restart ==
    /\ Spend("restarts")
    /\ socket' = [d \in Devices |-> [up |-> FALSE, in |-> <<>>, out |-> <<>>]]
    /\ handler' = [d \in Devices |-> Idle] /\ orphans' = {} /\ unfurls' = {}
    /\ cleanup' = [scanned |-> {}, removing |-> {}]
    /\ loads' = [d \in Devices |-> {}]
    /\ missed' = [d \in Devices |-> missed[d] \cup {"offline"}]
    /\ excused' = excused \cup {t.id : t \in unfurls}
                     \cup {e.id : e \in ({handler[d] : d \in Devices} \cup orphans) \ {Idle}}
    /\ UNCHANGED <<log, owner, disk, preview, view, status, timer>>

-----------------------------------------------------------------------------

Handle(d) == CreateNew(d) \/ RefuseFiles(d) \/ CreateAgain(d) \/ HandleEdit(d) \/ HandleDelete(d)

UserActs ==
    \/ \E r \in Requests :
          SubmitMessage(r) \/ CancelMessage(r) \/ RetryMessage(r)
    \/ \E d \in Devices :
          \/ LeaveChannel(d) \/ ChooseChannel(d)
          \/ \E id \in DOMAIN view[d].shown :
                DeleteMessage(d, id) \/ \E content \in Contents \ {"card"} : EditMessage(d, id, content)

Next ==
    \/ UserActs
    \/ \E d \in Devices : Handle(d) \/ CreateFails(d) \/ ChangeFails(d) \/ TellChange(d)
    \/ TellOrphan \/ UnfurlStep \/ PostCard
    \/ ScanUnattached \/ Cleanup
    \/ \E d \in Devices : LoadHistory(d) \/ HistoryFails(d) \/ Receive(d)
    \/ \E r \in Requests : TimerFires(r)
    \/ \E d \in Devices : Drop(d) \/ Reconnect(d)
    \/ Restart

Spec == Init /\ [][Next]_vars

\* The server's tasks and the windows' event loops run, timers fire and answers
\* come; users, failures and connections do what they like.
Fairness ==
    /\ \A d \in Devices : /\ WF_vars(Handle(d)) /\ WF_vars(TellChange(d))
                          /\ WF_vars(LoadHistory(d)) /\ WF_vars(Receive(d))
    /\ WF_vars(TellOrphan) /\ WF_vars(UnfurlStep)
    /\ \A r \in Requests : WF_vars(TimerFires(r))

FairSpec == Spec /\ Fairness

-----------------------------------------------------------------------------
(* Invariants. *)

Ids == DOMAIN log

Statuses == {"unsent", "pending", "failed", "confirmed", "cancelled", "forgotten"}

TypeOK ==
    /\ DOMAIN preview = Ids
    /\ \A id \in Ids : log[id].content \in Contents /\ preview[id] \in Links
    /\ \A f \in Files : owner[f] \in Ids \cup {None, Removed}
    /\ status \in [Requests -> Statuses]
    /\ \A r \in timer : status[r] # "unsent"
    /\ \A d \in Devices : DOMAIN view[d].shown \subseteq Ids

Settled(id) == Untold(id) = {} /\ ~ \E t \in unfurls : t.id = id

Quiet == /\ orphans = {} /\ unfurls = {}
         /\ \A d \in Devices : /\ handler[d] = Idle /\ loads[d] = {}
                               /\ socket[d].in = <<>> /\ socket[d].out = <<>>

Stored == [id \in Live |-> [content |-> log[id].content, link |-> preview[id]]]

\* Once everything under way has arrived, every window shows exactly the
\* messages, contents and previews that are stored, through any crossing of
\* creations, retries, edits and deletions of several devices, their unfurls
\* and the loads of history -- unless the device was offline when something was
\* told ("offline"), had the channel left and chosen again ("away"), was told an
\* event after a later one of the same message, a retry that resolves to a deleted
\* row among them ("overtaken"), had a page on its way meanwhile ("stale"), or
\* telling failed ("untold").  A page of history that nothing crosses repairs all
\* of it.
AgreesWhenQuiet ==
    Quiet => \A d \in Devices : Open(d) /\ missed[d] = {} => view[d].shown = Stored

\* A message has the preview of the link it says now, or none: an edit's lookup
\* replaces the preview or removes it -- unless the fetch, the store or the removal
\* that would have changed it failed (spawn_unfurl_task tells nobody and does not
\* try again), it was lost with the server, or the lookups of two contents ran
\* together.
PreviewFollowsContent ==
    \A id \in Live \ excused : Settled(id) => preview[id] = Link[log[id].content]

\* The cleanup never takes a file from the message that has it: "a conditional
\* delete prevents removing an attachment that was associated between the scan
\* and cleanup" (main.rs).
AttachedIsOnDisk == \A f \in Files : owner[f] \notin {None, Removed} => f \in disk

-----------------------------------------------------------------------------
(* Properties. *)

Log == INSTANCE MessageLog WITH
          log <- [id \in Ids |-> [request |-> log[id].request, content |-> log[id].content,
                                  deleted |-> log[id].deleted]]

\* The chat implements the log: one message for each request through timeouts
\* and retries, none changed after its deletion, a message with all its files
\* or not at all, and nothing confirmed to its sender that is not stored.
ImplementsLog == Log!LogSpec

\* Everything comes to rest: every frame is answered, every change told, every
\* lookup and load ended, and no window shows a message as being sent for ever:
\* it is confirmed, it fails where the user can see it, or a page of history has
\* dropped it from the window (see FailedSendsStay) -- unless its timer fired while
\* another channel was shown and no page has replaced the window since.
Resolved(r) == status[r] = "pending" => ~Open(Sender[r]) \/ "away" \in missed[Sender[r]]

ComesToRest == []<>(Quiet /\ \A r \in Requests : Resolved(r))

-----------------------------------------------------------------------------
(* What the documents say of the code and it does not keep. *)

\* docs/SDD/specs/chat.md, on a reconnect: pending and failed messages "remain in
\* their pending/failed state (never silently dropped)".  A send that failed and is
\* not stored leaves the window when its user retries or cancels it, and not with a
\* page of history.
FailedSendsStay ==
    [][\A r \in Requests :
          status[r] = "failed" /\ status'[r] = "forgotten" => Existing(r) # {}]_vars

\* docs/SDD/specs/chat.md, on a reconnect: "the client re-fetches the
\* currently-open channel's most recent page".  What a device misses while it
\* is offline it catches up with.
CatchesUp ==
    \A d \in Devices :
        (<>[](socket[d].up /\ Open(d))) => <>[](Quiet => DOMAIN view[d].shown = Live)
=============================================================================
