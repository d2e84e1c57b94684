------------------------------- MODULE MediaStore ------------------------------
(***************************************************************************)
(* Rows of the database and the files they name: the Discord importer      *)
(* (server/src/discord_import.rs), a command that may be interrupted and   *)
(* run again from another source, with its ledger of what it has imported; *)
(* and, beside it, the uploads of attachments and of avatars               *)
(* (server/src/routes/attachments.rs, profile.rs).                         *)
(*                                                                         *)
(* Every await is a point where the process may die, so the importer is a  *)
(* sequence of steps.  A new file has a name of its own, a number; only an *)
(* avatar that is uploaded overwrites its file.  Left out: the names and   *)
(* badges of imported authors, and the images of rich embeds, which are    *)
(* files of their own written before their row.                            *)
(***************************************************************************)
EXTENDS Naturals, FiniteSets, Sequences

CONSTANTS
    Sources,    \* the messages at Discord
    Portions,   \* what of them a source may have: an archive holds what was looked
                \* at, and the JSON has two channels the live import has not
    Files,      \* their attachments
    FilesOf,    \* the attachments of each message
    EmbedsOf,   \* the positions of the rich embeds of each message
    Images,     \* the messages whose link preview has an image
    Requests,   \* the uploads of one user's avatar
    None,
    MaxFiles,   \* bound: how many files are written
    Budgets     \* the bounds a behaviour may run under (see budget)

\* What the command may be asked for.
Kinds == {"har", "live", "json", "replace"}

\* An attachment has its Discord ID, of one message, and so has a message; a file
\* has a number.
ASSUME MediaStoreAssumption ==
    /\ FilesOf \in [Sources -> SUBSET Files]
    /\ \A m, n \in Sources : m # n => FilesOf[m] \cap FilesOf[n] = {}
    /\ Files \cap Nat = {} /\ Files \cap Sources = {}
    /\ None \notin Nat \cup Sources \cup Files \cup Kinds \cup {"old", "new"}
    /\ EmbedsOf \in [Sources -> SUBSET Nat]
    /\ Images \subseteq Sources /\ Portions \subseteq SUBSET Sources
    /\ MaxFiles \in Nat
    /\ Budgets \subseteq [crashes : Nat, faults : Nat, uploads : Nat,
                          runs : Seq(Kinds), avatars : SUBSET Requests]

VARIABLES
    rows,       \* messages: what each source's row says, or None
    ledger,     \* imported_message_sources
    media,      \* attachments: the rows, each with its file
    fileLedger, \* imported_attachment_sources: the file each source has
    preview,    \* message_link_previews: each source's image file, or None
    embeds,     \* message_embeds: the positions each source has
    face,       \* the imported author's avatar_storage_path, or None
    disk,       \* the files
    written,    \* how many files have been written: their names
    job,        \* the importer
    upload,     \* an upload: the file written and not yet in a row, or None
    avatar,     \* the user's avatar: its file, its row, the uploads of it
    torn,       \* history: what was left half imported, and the files nothing
                \* names any more
    budget      \* bound: the runs to come, and what is left of other events

imported == <<rows, ledger, preview, embeds, face>>
vars == <<imported, media, fileLedger, disk, written, job, upload, avatar, torn, budget>>

Spend(what) == budget[what] > 0 /\ budget' = [budget EXCEPT ![what] = @ - 1]

Rest == [mode |-> None, at |-> "rest"]

Init ==
    /\ budget \in Budgets
    /\ rows = [m \in Sources |-> None] /\ ledger = {}
    /\ media = {} /\ fileLedger = [x \in Files |-> None]
    /\ preview = [m \in Sources |-> None] /\ embeds = [m \in Sources |-> {}]
    /\ face = None
    /\ disk = {} /\ written = 0
    /\ job = Rest
    /\ upload = None
    /\ avatar = [file |-> None, row |-> None, crossed |-> FALSE,
                 at |-> [q \in Requests |-> "out"]]
    /\ torn = {}

\* A file of a new name is written.
NewFile == written + 1
Write   == written < MaxFiles /\ written' = NewFile /\ disk' = disk \cup {NewFile}

\* The writing fails, or what names the file does: nothing removes it.
Leave(file) == Spend("faults") /\ torn' = torn \cup {file}

-----------------------------------------------------------------------------
(* The importer: what it does for each message, in order.                  *)

HarSteps  == <<"look", "insert", "author", "update", "files", "preview">>
LiveSteps == <<"look", "author", "update", "row", "ledger", "files", "preview">>
JsonSteps == <<"look", "update", "insert", "files", "preview", "clear", "embeds">>

Steps(mode) ==
    CASE mode = "har" -> HarSteps [] mode = "live" -> LiveSteps [] mode = "json" -> JsonSteps

\* What the source says of a message: an archive captured it before an edit.
Says(mode) == IF mode = "har" THEN "old" ELSE "new"

At(step) == job.at = "work" /\ Steps(job.mode)[job.pc] = step

\* The message's next step, or the next message.
Advance ==
    job' = IF job.pc < Len(Steps(job.mode)) THEN [job EXCEPT !.pc = @ + 1]
           ELSE [job EXCEPT !.at = "next", !.todo = @ \ {job.now}]

Begin(mode, portion) ==
    [mode |-> mode, at |-> IF mode = "json" THEN "users" ELSE "next",
     asked |-> portion, todo |-> portion, now |-> None, pc |-> 0, known |-> FALSE,
     tried |-> {}, skipped |-> {}, x |-> None, file |-> None]

\* The command is run, with the server stopped or not.
Run ==
    /\ job.at \in {"rest", "done", "failed"}
    /\ budget.runs # <<>>
    /\ budget' = [budget EXCEPT !.runs = Tail(@)]
    /\ IF Head(budget.runs) = "replace"
       THEN job' = [mode |-> "replace", at |-> "paths", paths |-> {}]
       ELSE \E portion \in Portions : job' = Begin(Head(budget.runs), portion)
    /\ UNCHANGED <<imported, media, fileLedger, disk, written, upload, avatar, torn>>

NextMessage ==
    /\ job.at = "next"
    /\ \/ \E m \in job.todo :
             job' = [job EXCEPT !.at = "work", !.now = m, !.pc = 1, !.tried = {}]
       \/ job.todo = {} /\ job' = [job EXCEPT !.at = "done"]
    /\ UNCHANGED <<imported, media, fileLedger, disk, written, upload, avatar, torn, budget>>

Look ==
    /\ At("look")
    /\ job' = [job EXCEPT !.known = job.now \in ledger, !.pc = @ + 1]
    /\ UNCHANGED <<imported, media, fileLedger, disk, written, upload, avatar, torn, budget>>

\* The row's client_req_id is unique: where a row is, the insertion fails, and
\* the run with it.
Fail == job' = [job EXCEPT !.at = "failed"]

\* import_har, import_json: the row and its entry in the ledger, or neither.
Insert ==
    /\ At("insert")
    /\ IF job.known THEN Advance /\ UNCHANGED <<rows, ledger>>
       ELSE IF rows[job.now] # None THEN Fail /\ UNCHANGED <<rows, ledger>>
       ELSE /\ rows' = [rows EXCEPT ![job.now] = Says(job.mode)]
            /\ ledger' = ledger \cup {job.now}
            /\ Advance
    /\ UNCHANGED <<preview, embeds, face, media, fileLedger, disk, written, upload, avatar,
                   torn, budget>>

\* import_live: the row, and then the ledger.
InsertRow ==
    /\ At("row")
    /\ IF job.known THEN Advance /\ UNCHANGED rows
       ELSE IF rows[job.now] # None THEN Fail /\ UNCHANGED rows
       ELSE rows' = [rows EXCEPT ![job.now] = Says(job.mode)] /\ Advance
    /\ UNCHANGED <<ledger, preview, embeds, face, media, fileLedger, disk, written, upload,
                   avatar, torn, budget>>

InsertLedger ==
    /\ At("ledger")
    /\ ledger' = ledger \cup {job.now}
    /\ Advance
    /\ UNCHANGED <<rows, preview, embeds, face, media, fileLedger, disk, written, upload,
                   avatar, torn, budget>>

\* A message that was imported before says what this source says.
Update ==
    /\ At("update")
    /\ rows' = IF job.known THEN [rows EXCEPT ![job.now] = Says(job.mode)] ELSE rows
    /\ Advance
    /\ UNCHANGED <<ledger, preview, embeds, face, media, fileLedger, disk, written, upload,
                   avatar, torn, budget>>

\* apply_user_images: the image is written and then named; a failure is skipped.
\* import_json does it for all authors before any message.
AuthorDone == IF job.at = "users" THEN job' = [job EXCEPT !.file = None, !.at = "next"]
              ELSE job' = [job EXCEPT !.file = None, !.pc = @ + 1]

AuthorImage ==
    /\ At("author") \/ job.at = "users"
    /\ job.file = None
    /\ \/ Write /\ job' = [job EXCEPT !.file = NewFile] /\ UNCHANGED <<torn, budget>>
       \/ AuthorDone /\ UNCHANGED <<disk, written, torn, budget>>
       \/ Write /\ Leave(NewFile) /\ AuthorDone
    /\ UNCHANGED <<imported, media, fileLedger, upload, avatar>>

NameAuthorImage ==
    /\ At("author") \/ job.at = "users"
    /\ job.file # None
    /\ \/ /\ face' = job.file
          /\ torn' = torn \cup ({face} \ {None})
          /\ UNCHANGED budget
       \/ Leave(job.file) /\ UNCHANGED face
    /\ AuthorDone
    /\ UNCHANGED <<rows, ledger, preview, embeds, media, fileLedger, disk, written, upload, avatar>>

\* The attachments of the message, in the order the source lists them (here in
\* any order): one in the ledger is passed over, and so is one that cannot be
\* fetched or whose row cannot be inserted.
PassOver(x) == job' = [job EXCEPT !.tried = @ \cup {x}]

Skip(x) == job' = [job EXCEPT !.tried = @ \cup {x}, !.skipped = @ \cup {x},
                              !.x = None, !.file = None]

\* Mutant: the ledger is not asked.
FetchAgain(x) ==
    /\ At("files")
    /\ job.file = None /\ x \in FilesOf[job.now] \ job.tried
    /\ \/ Skip(x) /\ UNCHANGED <<disk, written>>
       \/ Write /\ job' = [job EXCEPT !.x = x, !.file = NewFile]
    /\ UNCHANGED <<imported, media, fileLedger, upload, avatar, torn, budget>>

FetchFile(x) ==
    /\ At("files")
    /\ job.file = None /\ x \in FilesOf[job.now] \ job.tried
    /\ \/ fileLedger[x] # None /\ PassOver(x) /\ UNCHANGED <<disk, written, torn, budget>>
       \/ fileLedger[x] = None /\ Skip(x) /\ UNCHANGED <<disk, written, torn, budget>>
       \/ fileLedger[x] = None /\ Write /\ Leave(NewFile) /\ Skip(x)
       \/ /\ fileLedger[x] = None
          /\ Write /\ job' = [job EXCEPT !.x = x, !.file = NewFile]
          /\ UNCHANGED <<torn, budget>>
    /\ UNCHANGED <<imported, media, fileLedger, upload, avatar>>

\* The file is in an attachment's row, which the ledger has yet to name.
InRow == \E a \in media : a.file = job.file

InsertAttachment ==
    /\ At("files")
    /\ job.file # None /\ ~InRow
    /\ \/ /\ media' = media \cup {[file |-> job.file, source |-> job.x, of |-> job.now]}
          /\ UNCHANGED <<disk, job, budget>>
       \/ /\ Spend("faults")
          /\ disk' = disk \ {job.file} /\ Skip(job.x)
          /\ UNCHANGED media
    /\ UNCHANGED <<imported, fileLedger, written, upload, avatar, torn>>

\* The row stays if the ledger fails: the next run imports the file again.
LedgerAttachment ==
    /\ At("files")
    /\ job.file # None /\ InRow
    /\ \/ /\ fileLedger' = [fileLedger EXCEPT ![job.x] = job.file]
          /\ job' = [job EXCEPT !.tried = @ \cup {job.x}, !.x = None, !.file = None]
          /\ UNCHANGED <<torn, budget>>
       \/ Leave(job.x) /\ Skip(job.x) /\ UNCHANGED fileLedger
    /\ UNCHANGED <<imported, media, disk, written, upload, avatar>>

FilesDone ==
    /\ At("files")
    /\ job.file = None /\ FilesOf[job.now] \subseteq job.tried
    /\ Advance
    /\ UNCHANGED <<imported, media, fileLedger, disk, written, upload, avatar, torn, budget>>

\* import_embed_preview: the image is written if it can be fetched, and the row
\* keeps the image it has if there is no new one.
PreviewDone ==
    job' = [job EXCEPT !.file = None,
                       !.pc = IF job.mode = "json" THEN @ + 1 ELSE @,
                       !.at = IF job.mode = "json" THEN @ ELSE "next",
                       !.todo = IF job.mode = "json" THEN @ ELSE @ \ {job.now}]

\* A write that fails may leave its file, and the row goes without it.
PreviewImage ==
    /\ At("preview")
    /\ job.now \in Images /\ job.file = None
    /\ Write
    /\ \/ job' = [job EXCEPT !.file = NewFile] /\ UNCHANGED <<torn, budget>>
       \/ Leave(NewFile) /\ PreviewDone
    /\ UNCHANGED <<imported, media, fileLedger, upload, avatar>>

UpsertPreview ==
    /\ At("preview")
    /\ preview' = [preview EXCEPT ![job.now] = IF job.file = None THEN @ ELSE job.file]
    /\ torn' = IF job.file = None THEN torn ELSE torn \cup ({preview[job.now]} \ {None})
    /\ PreviewDone
    /\ UNCHANGED <<rows, ledger, embeds, face, media, fileLedger, disk, written, upload, avatar,
                   budget>>

\* Mutant: the embeds of a message that was imported before are taken for whole.
ClearNothing ==
    /\ At("clear")
    /\ job' = IF job.known THEN [job EXCEPT !.at = "next", !.todo = @ \ {job.now}]
              ELSE [job EXCEPT !.pc = @ + 1]
    /\ UNCHANGED <<imported, media, fileLedger, disk, written, upload, avatar, torn, budget>>

\* import_json: the rich embeds go, and come again one by one.
ClearEmbeds ==
    /\ At("clear")
    /\ embeds' = [embeds EXCEPT ![job.now] = {}]
    /\ Advance
    /\ UNCHANGED <<rows, ledger, preview, face, media, fileLedger, disk, written, upload, avatar,
                   torn, budget>>

InsertEmbed ==
    /\ At("embeds")
    /\ LET left == EmbedsOf[job.now] \ embeds[job.now]
       IN  IF left = {} THEN Advance /\ UNCHANGED embeds
           ELSE /\ \E p \in left : embeds' = [embeds EXCEPT ![job.now] = @ \cup {p}]
                /\ UNCHANGED job
    /\ UNCHANGED <<rows, ledger, preview, face, media, fileLedger, disk, written, upload, avatar,
                   torn, budget>>

-----------------------------------------------------------------------------
(* replace_with_live: the paths are read, the imported messages deleted    *)
(* with all that names them, the files removed, and the live import runs.  *)

\* Only what the ledger names is the importer's.
Owned == {a \in media : a.of \in ledger}

OwnedPaths == {a.file : a \in Owned} \cup ({preview[m] : m \in ledger} \ {None})

\* Mutant: the files are removed before their rows.
ReadPathsAndUnlink ==
    /\ job.at = "paths"
    /\ job' = [job EXCEPT !.at = "delete", !.paths = {}]
    /\ disk' = disk \ OwnedPaths
    /\ UNCHANGED <<imported, media, fileLedger, written, upload, avatar, torn, budget>>

ReadPaths ==
    /\ job.at = "paths"
    /\ job' = [job EXCEPT !.at = "delete", !.paths = OwnedPaths]
    /\ UNCHANGED <<imported, media, fileLedger, disk, written, upload, avatar, torn, budget>>

\* Mutant: the ledger does not go with its messages.
DeleteUnledgered ==
    /\ job.at = "delete"
    /\ rows' = [m \in Sources |-> IF m \in ledger THEN None ELSE rows[m]]
    /\ preview' = [m \in Sources |-> IF m \in ledger THEN None ELSE preview[m]]
    /\ embeds' = [m \in Sources |-> IF m \in ledger THEN {} ELSE embeds[m]]
    /\ media' = media \ Owned
    /\ job' = [job EXCEPT !.at = "unlink"]
    /\ UNCHANGED <<ledger, fileLedger, face, disk, written, upload, avatar, torn, budget>>

DeleteImported ==
    /\ job.at = "delete"
    /\ rows' = [m \in Sources |-> IF m \in ledger THEN None ELSE rows[m]]
    /\ preview' = [m \in Sources |-> IF m \in ledger THEN None ELSE preview[m]]
    /\ embeds' = [m \in Sources |-> IF m \in ledger THEN {} ELSE embeds[m]]
    /\ ledger' = {}
    /\ media' = media \ Owned
    /\ fileLedger' = [x \in Files |-> IF \E a \in Owned : a.file = fileLedger[x]
                                      THEN None ELSE fileLedger[x]]
    /\ torn' = torn \ {x \in Files : \E m \in ledger : x \in FilesOf[m]}
    /\ job' = [job EXCEPT !.at = "unlink"]
    /\ UNCHANGED <<face, disk, written, upload, avatar, budget>>

Unlink ==
    /\ job.at = "unlink"
    /\ IF job.paths = {}
       THEN \E portion \in Portions : job' = Begin("live", portion) /\ UNCHANGED disk
       ELSE \E path \in job.paths : /\ disk' = disk \ {path}
                                    /\ job' = [job EXCEPT !.paths = @ \ {path}]
    /\ UNCHANGED <<imported, media, fileLedger, written, upload, avatar, torn, budget>>

-----------------------------------------------------------------------------
(* Uploads to the server.                                                  *)

UploadFile ==
    /\ upload = None /\ budget.uploads > 0
    /\ Write
    /\ \/ Spend("uploads") /\ upload' = NewFile /\ UNCHANGED torn
       \/ Leave(NewFile) /\ UNCHANGED upload
    /\ UNCHANGED <<imported, media, fileLedger, job, avatar>>

\* The row of an attachment no message has yet; the file goes if it fails.
UploadRow ==
    /\ upload # None
    /\ upload' = None
    /\ \/ media' = media \cup {[file |-> upload, source |-> None, of |-> None]}
          /\ UNCHANGED <<disk, budget>>
       \/ Spend("faults") /\ disk' = disk \ {upload} /\ UNCHANGED media
    /\ UNCHANGED <<imported, fileLedger, written, job, avatar, torn>>

\* upload_avatar: every upload of the user overwrites one file, of which the
\* row says the type; what two writes at once leave is anybody's guess.
Writing == {q \in Requests : avatar.at[q] = "writing"}
Waiting == {q \in Requests : avatar.at[q] # "out"}

OpenAvatar(q) ==
    /\ q \in budget.avatars /\ avatar.at[q] = "out"
    /\ budget' = [budget EXCEPT !.avatars = @ \ {q}]
    /\ avatar' = [avatar EXCEPT !.at[q] = "writing", !.file = "partial", !.crossed = Waiting # {}]
    /\ UNCHANGED <<imported, media, fileLedger, disk, written, job, upload, torn>>

WriteAvatar(q) ==
    /\ avatar.at[q] = "writing"
    /\ \E image \in IF Writing = {q} THEN {q} ELSE {q, "partial"} :
          avatar' = [avatar EXCEPT !.at[q] = "written", !.file = image]
    /\ UNCHANGED <<imported, media, fileLedger, disk, written, job, upload, torn, budget>>

\* Mutant: the first upload's type is kept.
NameAvatarOnce(q) ==
    /\ avatar.at[q] = "written"
    /\ avatar' = [avatar EXCEPT !.at[q] = "out", !.row = IF @ = None THEN q ELSE @]
    /\ UNCHANGED <<imported, media, fileLedger, disk, written, job, upload, torn, budget>>

NameAvatar(q) ==
    /\ avatar.at[q] = "written"
    /\ avatar' = [avatar EXCEPT !.at[q] = "out", !.row = q]
    /\ UNCHANGED <<imported, media, fileLedger, disk, written, job, upload, torn, budget>>

\* The write or the update fails: the file is not what the row says.
AvatarFails(q) ==
    /\ avatar.at[q] # "out" /\ Spend("faults")
    /\ avatar' = [avatar EXCEPT !.at[q] = "out", !.crossed = TRUE]
    /\ UNCHANGED <<imported, media, fileLedger, disk, written, job, upload, torn>>

-----------------------------------------------------------------------------
(* Interruptions.                                                          *)

\* The importer is stopped or dies, or one of its queries or requests fails and
\* the command ends with that error: what it has in hand is left as it is.  The
\* unique index is the one error that has a state of its own (Fail).
Interrupt ==
    /\ job.at \notin {"rest", "done", "failed"} /\ Spend("crashes")
    /\ job' = Rest
    /\ torn' = torn
          \cup (IF job.at = "work" /\ At("ledger") /\ ~job.known THEN {job.now} ELSE {})
          \cup (IF job.mode = "replace" THEN (IF job.at = "unlink" THEN job.paths ELSE {})
                ELSE IF job.file = None THEN {}
                ELSE IF InRow THEN {job.x} ELSE {job.file})
    /\ UNCHANGED <<imported, media, fileLedger, disk, written, upload, avatar>>

\* The server dies.
Crash ==
    /\ upload # None \/ Waiting # {}
    /\ Spend("crashes")
    /\ upload' = None /\ torn' = torn \cup ({upload} \ {None})
    /\ avatar' = [avatar EXCEPT !.at = [q \in Requests |-> "out"],
                                !.crossed = @ \/ Waiting # {}]
    /\ UNCHANGED <<imported, media, fileLedger, disk, written, job>>

-----------------------------------------------------------------------------

Import ==
    \/ NextMessage \/ Look \/ Insert \/ InsertRow \/ InsertLedger \/ Update
    \/ AuthorImage \/ NameAuthorImage
    \/ \E x \in Files : FetchFile(x)
    \/ InsertAttachment \/ LedgerAttachment \/ FilesDone
    \/ PreviewImage \/ UpsertPreview \/ ClearEmbeds \/ InsertEmbed
    \/ ReadPaths \/ DeleteImported \/ Unlink

Next ==
    \/ Run \/ Import \/ Interrupt
    \/ UploadFile \/ UploadRow \/ Crash
    \/ \E q \in Requests : OpenAvatar(q) \/ WriteAvatar(q) \/ NameAvatar(q) \/ AvatarFails(q)

Spec == Init /\ [][Next]_vars

-----------------------------------------------------------------------------
(* Invariants. *)

Names == {a.file : a \in media} \cup {preview[m] : m \in Sources} \cup {face}

TypeOK ==
    /\ disk \subseteq 1..written
    /\ \A m \in Sources : rows[m] \in {None, "old", "new"} /\ embeds[m] \subseteq EmbedsOf[m]
    /\ \A a \in media : a.source \in Files => \E m \in Sources : m = a.of /\ a.source \in FilesOf[m]
    /\ \A m \in ledger : rows[m] # None
    /\ \A x \in Files : fileLedger[x] # None => \E a \in media : a.file = fileLedger[x]

RowsHaveFiles == Names \ {None} \subseteq disk

\* In somebody's hands, or left behind by an interruption or a newer image.
Accounted(file) ==
    \/ file \in torn
    \/ upload = file
    \/ job.at \in {"work", "users"} /\ job.file = file
    \/ job.mode = "replace" /\ file \in job.paths

\* "Files are removed after the database transaction so a failed delete cannot
\* leave history referring to missing media": whatever is interrupted, and
\* wherever, no row names a file that is not there.  And the other way round:
\* an insertion that fails leaves no file that no row names.
DiskMatchesRows == RowsHaveFiles /\ \A file \in disk \ Names : Accounted(file)

\* "Idempotent by the original ID of each attachment": an attachment is
\* imported once, through runs of any sources one after the other, unless an
\* interruption fell between its row and the ledger.
AttachmentsOnce ==
    \A x \in Files \ torn : Cardinality({a \in media : a.source = x}) <= 1

Whole(m) ==
    /\ m \in ledger /\ rows[m] = Says(job.mode)
    /\ \A x \in FilesOf[m] \ job.skipped :
          \E a \in media : a.source = x /\ a.of = m /\ a.file = fileLedger[x]
    /\ job.mode = "json" => embeds[m] = EmbedsOf[m]

\* A run that ends without an error has imported everything its source has:
\* every message is there and says what the source says, with every attachment
\* that could be fetched and, from the JSON, all its embeds -- whatever earlier
\* runs were interrupted or failed, and where.  And of what an earlier run left,
\* only a message whose live import ended between its row and the ledger makes a
\* later run fail: nothing else meets the unique index.
RunsAreWhole ==
    /\ job.at = "done" => \A m \in job.asked : Whole(m)
    /\ job.at = "failed" => job.now \in torn

\* The avatar is the image its row describes, once no upload of it is under
\* way, unless two crossed or one failed; the next upload repairs it.
AvatarAsDescribed == Waiting = {} /\ ~avatar.crossed => avatar.file = avatar.row

-----------------------------------------------------------------------------
(* What the documents say of the code and it does not keep. *)

\* docs/discord-live-import.md: it is safe to run the import again after an
\* interruption.
SafeToRunAgain == job.at # "failed"
=============================================================================
