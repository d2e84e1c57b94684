------------------------------- MODULE MessageLog ------------------------------
(***************************************************************************)
(* What the chat of one text channel promises: a log to which a request    *)
(* adds at most one message however often it is sent, in which a message   *)
(* changes only until it is deleted, a file belongs to one message for     *)
(* good, and a request its sender sees confirmed is in the log.  Chat      *)
(* implements it with sockets that drop, retries and timeouts.             *)
(***************************************************************************)
EXTENDS Naturals, Sequences

CONSTANTS
    Requests,   \* the request ids the clients choose
    Contents,   \* what a message may say
    Files,      \* the attachments uploaded to the channel
    FilesOf,    \* the files each request attaches
    None,       \* the request of a message nobody requested; a free file's owner
    Removed     \* the owner of a file that was discarded

VARIABLES
    log,        \* the messages in the order of their insertion
    owner,      \* each file's message, None, or Removed
    status      \* each request as its sender sees it

logVars == <<log, owner, status>>

Posted(r) == \E id \in DOMAIN log : log[id].request = r

LogInit ==
    /\ log = <<>>
    /\ owner = [f \in Files |-> None]
    /\ status = [r \in Requests |-> "unsent"]

Add(r, content) == log' = Append(log, [request |-> r, content |-> content, deleted |-> FALSE])

\* The message and its files enter the log together.
Post(r, content) ==
    /\ ~Posted(r)
    /\ \A f \in FilesOf[r] : owner[f] = None
    /\ Add(r, content)
    /\ owner' = [f \in Files |-> IF f \in FilesOf[r] THEN Len(log) + 1 ELSE owner[f]]
    /\ UNCHANGED status

Announce(content) == Add(None, content) /\ UNCHANGED <<owner, status>>

Edit(id, content) ==
    /\ ~log[id].deleted
    /\ log' = [log EXCEPT ![id].content = content]
    /\ UNCHANGED <<owner, status>>

Delete(id) ==
    /\ ~log[id].deleted
    /\ log' = [log EXCEPT ![id].deleted = TRUE]
    /\ UNCHANGED <<owner, status>>

Discard(f) ==
    /\ owner[f] = None
    /\ owner' = [owner EXCEPT ![f] = Removed]
    /\ UNCHANGED <<log, status>>

Becomes(r, from, to) ==
    /\ status[r] \in from
    /\ status' = [status EXCEPT ![r] = to]
    /\ UNCHANGED <<log, owner>>

Send(r)    == Becomes(r, {"unsent", "failed"}, "pending")
Fail(r)    == Becomes(r, {"unsent", "pending", "failed"}, "failed")
Confirm(r) == Posted(r) /\ Becomes(r, {"pending", "failed"}, "confirmed")
GiveUp(r)  == Becomes(r, {"failed"}, "cancelled")

\* A page of history replaces what the sender sees, whatever was in progress.
Forget == /\ \E R \in SUBSET {r \in Requests : status[r] \in {"pending", "failed"}} :
                status' = [r \in Requests |-> IF r \in R THEN "forgotten" ELSE status[r]]
          /\ UNCHANGED <<log, owner>>

LogNext ==
    \/ \E r \in Requests :
          \/ \E content \in Contents : Post(r, content)
          \/ Send(r) \/ Fail(r) \/ Confirm(r) \/ GiveUp(r)
    \/ \E content \in Contents : Announce(content)
    \/ \E id \in DOMAIN log : Delete(id) \/ \E content \in Contents : Edit(id, content)
    \/ \E f \in Files : Discard(f)
    \/ Forget

LogSpec == LogInit /\ [][LogNext]_logVars
=============================================================================
