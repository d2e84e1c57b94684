---------------------------- MODULE MediaStoreProofs ---------------------------
(***************************************************************************)
(* Rows and files of MediaStore stay together wherever a run or an upload  *)
(* is interrupted, and a run that ends has imported all its source says,   *)
(* for any number of messages, attachments and runs.                       *)
(***************************************************************************)
EXTENDS MediaStore, FiniteSetTheorems, TLAPS

Modes == {"har", "live", "json"}

\* A run of the importer, and a replacement before its run.
ImportJobs ==
    [mode : Modes, at : {"users", "next", "work", "done", "failed"},
     asked : SUBSET Sources, todo : SUBSET Sources, now : Sources \cup {None},
     pc : Nat, known : BOOLEAN, tried : SUBSET Files, skipped : SUBSET Files,
     x : Files \cup {None}, file : Nat \cup {None}]

ReplaceJobs ==
    [mode : {"replace"}, at : {"paths", "delete", "unlink"}, paths : SUBSET Nat]

Attachments == [file : Nat, source : Files \cup {None}, of : Sources \cup {None}]

Typed ==
    /\ rows \in [Sources -> {None, "old", "new"}]
    /\ ledger \subseteq Sources
    /\ media \subseteq Attachments
    /\ fileLedger \in [Files -> Nat \cup {None}]
    /\ preview \in [Sources -> Nat \cup {None}]
    /\ embeds \in [Sources -> SUBSET Nat]
    /\ \A m \in Sources : embeds[m] \subseteq EmbedsOf[m]
    /\ face \in Nat \cup {None}
    /\ written \in Nat /\ disk \subseteq 1..written
    /\ job \in ImportJobs \/ job \in ReplaceJobs \/ job = Rest
    /\ job.at = "work" => job.now \in Sources
    /\ upload \in Nat \cup {None}
    /\ budget \in [crashes : Nat, faults : Nat, uploads : Nat,
                   runs : Seq(Kinds), avatars : SUBSET Requests]

\* No file is in two places.
Distinct ==
    /\ \A a, b \in media : a.file = b.file => a = b
    /\ \A m, n \in Sources : preview[m] # None /\ preview[m] = preview[n] => m = n
    /\ \A a \in media, m \in Sources : preview[m] # a.file
    /\ \A a \in media : face # a.file
    /\ \A m \in Sources : face # None => face # preview[m]

\* What the importer has in hand is on disk, and in no row but the one that
\* LedgerAttachment is about to enter in the ledger.
InHand ==
    job.mode \in Modes /\ job.file # None =>
        /\ job.at = "users" \/ At("author") \/ At("files") \/ At("preview")
        /\ job.file \in disk /\ job.file # upload /\ job.file # face
        /\ \A m \in Sources : job.file # preview[m]
        /\ At("files") =>
              /\ job.x \in FilesOf[job.now]
              /\ fileLedger[job.x] = None
              /\ \A a \in media : a.file = job.file => a.source = job.x /\ a.of = job.now
        /\ ~At("files") => ~InRow

Uploaded ==
    upload # None => upload \in disk /\ upload \notin Names

\* The paths of a replacement are what it is going to delete, and then what no
\* row names any more.
Listed ==
    /\ job.at = "paths" => job.paths = {}
    /\ job.at = "delete" => job.paths = OwnedPaths
    /\ job.at = "unlink" => job.paths \subseteq disk \ (Names \cup {upload})

\* The importer has nothing in hand, and no path to remove.
Idle(j) ==
    \/ j = Rest
    \/ j \in ImportJobs /\ j.file = None
    \/ j \in ReplaceJobs /\ j.at # "delete" /\ j.paths = {}

FilesInv == Distinct /\ InHand /\ Uploaded /\ Listed /\ DiskMatchesRows

\* The importer works on a message in the order of its steps.
InStep ==
    job.at = "work" =>
        /\ job.pc \in 1..Len(Steps(job.mode))
        /\ ~At("look") /\ job.known => job.now \in ledger
        /\ At("ledger") => rows[job.now] # None

Ledgered ==
    /\ \A m \in ledger : rows[m] # None
    /\ \A a \in media : a.source \in Files => a.of \in Sources /\ a.source \in FilesOf[a.of]
    /\ \A x \in Files : fileLedger[x] # None => \E a \in media : a.file = fileLedger[x]

\* Every attachment but those whose import was torn is in the ledger, or the
\* importer is about to enter it.
Entered ==
    \A a \in media : a.source \in Files \ torn =>
        \/ fileLedger[a.source] = a.file
        \/ job.mode \in Modes /\ At("files") /\ job.file = a.file

LedgerInv == InStep /\ Ledgered /\ Entered

\* As long as uploads of an avatar do not cross, the one under way is alone, and
\* once it is written the file is its image.
AvatarInv ==
    /\ DOMAIN avatar.at = Requests
    /\ avatar = [file |-> avatar.file, row |-> avatar.row, crossed |-> avatar.crossed,
                 at |-> avatar.at]
    /\ ~avatar.crossed =>
          /\ \A p, q \in Waiting : p = q
          /\ \A q \in Waiting : avatar.at[q] = "written" => avatar.file = q
          /\ Waiting = {} => avatar.file = avatar.row

\* A job at work, or at its users, is an import; one at its paths, a replacement.
LEMMA Shape ==
    ASSUME Typed
    PROVE  /\ job.at \in {"users", "next", "work", "done", "failed"} => job \in ImportJobs
           /\ job.at \in {"paths", "delete", "unlink"} => job \in ReplaceJobs
  BY DEF Typed, ImportJobs, ReplaceJobs, Rest

\* The next eleven: what each update of the importer makes of an import.
LEMMA AdvanceJob ==
    ASSUME job \in ImportJobs, job.at = "work", Advance
    PROVE  /\ job' \in ImportJobs
           /\ job'.mode = job.mode /\ job'.now = job.now /\ job'.known = job.known
           /\ job'.x = job.x /\ job'.file = job.file
           /\ \/ job'.at = "work" /\ job'.pc = job.pc + 1 /\ job.pc < Len(Steps(job.mode))
              \/ job'.at = "next"
  <1>1. CASE job.pc < Len(Steps(job.mode))
    <2>1. job' = [job EXCEPT !.pc = @ + 1]
      BY <1>1 DEF Advance
    <2> QED
      BY <1>1, <2>1 DEF ImportJobs
  <1>2. CASE ~(job.pc < Len(Steps(job.mode)))
    <2>1. job' = [job EXCEPT !.at = "next", !.todo = @ \ {job.now}]
      BY <1>2 DEF Advance
    <2> QED
      BY <2>1 DEF ImportJobs
  <1> QED
    BY <1>1, <1>2

LEMMA NextJob ==
    ASSUME job \in ImportJobs, NextMessage
    PROVE  /\ job' \in ImportJobs
           /\ job'.mode = job.mode /\ job'.file = job.file
           /\ \/ job'.at = "work" /\ job'.pc = 1 /\ job'.now \in Sources
              \/ job'.at = "done"
  <1>1. ASSUME NEW m \in job.todo,
               job' = [job EXCEPT !.at = "work", !.now = m, !.pc = 1, !.tried = {}]
        PROVE  /\ job' \in ImportJobs
               /\ job'.mode = job.mode /\ job'.file = job.file
               /\ job'.at = "work" /\ job'.pc = 1 /\ job'.now \in Sources
    <2>1. m \in Sources
      BY DEF ImportJobs
    <2> QED
      BY <1>1, <2>1 DEF ImportJobs
  <1>2. CASE job' = [job EXCEPT !.at = "done"]
    BY <1>2 DEF ImportJobs
  <1> QED
    BY <1>1, <1>2 DEF NextMessage

LEMMA BeginJob ==
    ASSUME NEW mode \in Modes, NEW portion \in Portions, job' = Begin(mode, portion)
    PROVE  /\ job' \in ImportJobs /\ job'.file = None /\ job'.at \in {"users", "next"}
  <1>1. portion \subseteq Sources
    BY MediaStoreAssumption
  <1> QED
    BY <1>1 DEF Begin, ImportJobs

\* A run starts an import or a replacement.
LEMMA RunJob ==
    ASSUME Typed, Run
    PROVE  \/ /\ job' \in ImportJobs /\ job'.file = None /\ job'.at \in {"users", "next"}
           \/ /\ job' \in ReplaceJobs /\ job'.at = "paths" /\ job'.paths = {}
  <1>1. CASE job' = [mode |-> "replace", at |-> "paths", paths |-> {}]
    BY <1>1 DEF ReplaceJobs
  <1>2. CASE /\ budget.runs # <<>> /\ Head(budget.runs) # "replace"
             /\ \E portion \in Portions : job' = Begin(Head(budget.runs), portion)
    <2>1. Head(budget.runs) \in Kinds
      BY <1>2 DEF Typed
    <2> QED
      BY <1>2, <2>1, BeginJob DEF Kinds, Modes
  <1> QED
    BY <1>1, <1>2 DEF Run

LEMMA LookJob ==
    ASSUME job \in ImportJobs, Look
    PROVE  /\ job' \in ImportJobs
           /\ job'.mode = job.mode /\ job'.file = job.file /\ job'.now = job.now
           /\ job'.at = job.at /\ job'.pc = job.pc + 1 /\ job'.known = (job.now \in ledger)
  <1>1. (job.now \in ledger) \in BOOLEAN /\ job.pc + 1 \in Nat
    BY DEF ImportJobs
  <1>2. ASSUME NEW b \in BOOLEAN, NEW p \in Nat, job' = [job EXCEPT !.known = b, !.pc = p]
        PROVE  /\ job' \in ImportJobs
               /\ job'.mode = job.mode /\ job'.file = job.file /\ job'.now = job.now
               /\ job'.at = job.at /\ job'.pc = p /\ job'.known = b
    BY <1>2 DEF ImportJobs
  <1> QED
    BY <1>1, <1>2 DEF Look

LEMMA FailJob ==
    ASSUME job \in ImportJobs, Fail
    PROVE  /\ job' \in ImportJobs
           /\ job'.mode = job.mode /\ job'.file = job.file /\ job'.at = "failed"
  BY DEF Fail, ImportJobs

LEMMA AuthorDoneJob ==
    ASSUME job \in ImportJobs, AuthorDone
    PROVE  /\ job' \in ImportJobs
           /\ job'.mode = job.mode /\ job'.file = None /\ job'.now = job.now
           /\ job'.known = job.known
           /\ \/ job.at # "users" /\ job'.at = job.at /\ job'.pc = job.pc + 1
              \/ job'.at = "next"
  <1>1. CASE job.at = "users"
    <2>1. job' = [job EXCEPT !.file = None, !.at = "next"]
      BY <1>1 DEF AuthorDone
    <2> QED
      BY <2>1 DEF ImportJobs
  <1>2. CASE job.at # "users"
    <2>1. PICK p \in Nat : p = job.pc + 1
      BY DEF ImportJobs
    <2>2. job' = [job EXCEPT !.file = None, !.pc = p]
      BY <1>2, <2>1 DEF AuthorDone
    <2> QED
      BY <1>2, <2>1, <2>2 DEF ImportJobs
  <1> QED
    BY <1>1, <1>2

LEMMA PassOverJob ==
    ASSUME job \in ImportJobs, NEW x \in Files, PassOver(x)
    PROVE  /\ job' \in ImportJobs
           /\ job'.mode = job.mode /\ job'.file = job.file /\ job'.now = job.now
           /\ job'.x = job.x
           /\ job'.known = job.known /\ job'.at = job.at /\ job'.pc = job.pc
  BY DEF PassOver, ImportJobs

LEMMA SkipJob ==
    ASSUME job \in ImportJobs, NEW x \in Files, Skip(x)
    PROVE  /\ job' \in ImportJobs
           /\ job'.mode = job.mode /\ job'.file = None /\ job'.now = job.now
           /\ job'.known = job.known /\ job'.at = job.at /\ job'.pc = job.pc
  BY DEF Skip, ImportJobs

LEMMA PreviewJob ==
    ASSUME job \in ImportJobs, job.at = "work", PreviewDone
    PROVE  /\ job' \in ImportJobs
           /\ job'.mode = job.mode /\ job'.file = None /\ job'.now = job.now
           /\ job'.known = job.known
           /\ \/ job.mode = "json" /\ job'.at = job.at /\ job'.pc = job.pc + 1
              \/ job'.at = "next"
  <1>1. CASE job.mode = "json"
    <2>1. PICK p \in Nat : p = job.pc + 1
      BY DEF ImportJobs
    <2>2. job' = [job EXCEPT !.file = None, !.pc = p, !.at = @, !.todo = @]
      BY <1>1, <2>1 DEF PreviewDone
    <2> QED
      BY <1>1, <2>1, <2>2 DEF ImportJobs
  <1>2. CASE job.mode # "json"
    <2>1. job' = [job EXCEPT !.file = None, !.pc = @, !.at = "next", !.todo = @ \ {job.now}]
      BY <1>2 DEF PreviewDone
    <2> QED
      BY <2>1 DEF ImportJobs
  <1> QED
    BY <1>1, <1>2

LEMMA HoldJob ==
    ASSUME job \in ImportJobs, NEW f \in Nat, job' = [job EXCEPT !.file = f]
    PROVE  /\ job' \in ImportJobs
           /\ job'.mode = job.mode /\ job'.file = f /\ job'.now = job.now
           /\ job'.x = job.x
           /\ job'.known = job.known /\ job'.at = job.at /\ job'.pc = job.pc
  BY DEF ImportJobs

LEMMA FetchJob ==
    ASSUME job \in ImportJobs, NEW x \in Files, NEW f \in Nat,
           job' = [job EXCEPT !.x = x, !.file = f]
    PROVE  /\ job' \in ImportJobs
           /\ job'.mode = job.mode /\ job'.file = f /\ job'.now = job.now
           /\ job'.x = x
           /\ job'.known = job.known /\ job'.at = job.at /\ job'.pc = job.pc
  BY DEF ImportJobs

LEMMA EnterJob ==
    ASSUME job \in ImportJobs,
           job' = [job EXCEPT !.tried = @ \cup {job.x}, !.x = None, !.file = None],
           job.x \in Files
    PROVE  /\ job' \in ImportJobs
           /\ job'.mode = job.mode /\ job'.file = None /\ job'.now = job.now
           /\ job'.known = job.known /\ job'.at = job.at /\ job'.pc = job.pc
  BY DEF ImportJobs

\* What is spent was there.
LEMMA SpendBudget ==
    ASSUME Typed, NEW what \in {"crashes", "faults", "uploads"}, Spend(what)
    PROVE  budget' \in [crashes : Nat, faults : Nat, uploads : Nat,
                        runs : Seq(Kinds), avatars : SUBSET Requests]
  <1>1. budget[what] \in Nat /\ budget[what] > 0
    BY DEF Typed, Spend
  <1>2. PICK n \in Nat : n = budget[what] - 1
    BY <1>1
  <1>3. budget' = [budget EXCEPT ![what] = n]
    BY <1>2 DEF Spend
  <1> QED
    BY <1>3 DEF Typed

\* A new file has a number no file on disk has.
LEMMA WriteFile ==
    ASSUME Typed, Write
    PROVE  /\ NewFile \in Nat /\ NewFile \notin disk
           /\ written' \in Nat /\ disk' \subseteq 1..written'
           /\ disk' = disk \cup {NewFile}
  BY DEF Typed, Write, NewFile

\* Every step keeps the types.
LEMMA TypedStep ==
    ASSUME Typed, InHand, [Next]_vars PROVE Typed'
  <1>1. CASE Run
    <2>1. \/ job' \in ImportJobs /\ job'.at # "work"
          \/ job' \in ReplaceJobs /\ job'.at # "work"
      BY <1>1, RunJob
    <2>2. budget' \in [crashes : Nat, faults : Nat, uploads : Nat,
                       runs : Seq(Kinds), avatars : SUBSET Requests]
      <3>1. budget' = [budget EXCEPT !.runs = Tail(@)] /\ budget.runs # <<>>
        BY <1>1 DEF Run
      <3>2. Tail(budget.runs) \in Seq(Kinds)
        BY <3>1 DEF Typed
      <3> QED
        BY <3>1, <3>2 DEF Typed
    <2> QED
      BY <1>1, <2>1, <2>2 DEF Run, imported, Typed
  <1>2. CASE NextMessage
    <2>1. job \in ImportJobs
      BY <1>2, Shape DEF NextMessage
    <2>2. job' \in ImportJobs /\ (job'.at = "work" => job'.now \in Sources)
      BY <1>2, <2>1, NextJob
    <2> QED
      BY <1>2, <2>2 DEF NextMessage, imported, Typed
  <1>3. CASE Look
    <2>1. job \in ImportJobs /\ job.now \in Sources
      BY <1>3, Shape DEF Look, At, Typed
    <2>2. job' \in ImportJobs /\ job'.now \in Sources
      BY <1>3, <2>1, LookJob DEF Look, At
    <2> QED
      BY <1>3, <2>1, <2>2 DEF Look, imported, Typed
  <1>4. CASE Insert
    <2>1. job \in ImportJobs /\ job.now \in Sources
      BY <1>4, Shape DEF Insert, At, Typed
    <2>2. job' \in ImportJobs /\ (job'.at = "work" => job'.now \in Sources)
      BY <1>4, <2>1, AdvanceJob, FailJob DEF Insert, At
    <2> QED
      BY <1>4, <2>1, <2>2 DEF Insert, Says, Typed
  <1>5. CASE InsertRow
    <2>1. job \in ImportJobs /\ job.now \in Sources
      BY <1>5, Shape DEF InsertRow, At, Typed
    <2>2. job' \in ImportJobs /\ (job'.at = "work" => job'.now \in Sources)
      BY <1>5, <2>1, AdvanceJob, FailJob DEF InsertRow, At
    <2> QED
      BY <1>5, <2>1, <2>2 DEF InsertRow, Says, Typed
  <1>6. CASE InsertLedger
    <2>1. job \in ImportJobs /\ job.now \in Sources
      BY <1>6, Shape DEF InsertLedger, At, Typed
    <2>2. job' \in ImportJobs /\ job'.now \in Sources
      BY <1>6, <2>1, AdvanceJob DEF InsertLedger, At
    <2> QED
      BY <1>6, <2>1, <2>2 DEF InsertLedger, imported, Typed
  <1>7. CASE Update
    <2>1. job \in ImportJobs /\ job.now \in Sources
      BY <1>7, Shape DEF Update, At, Typed
    <2>2. job' \in ImportJobs /\ job'.now \in Sources
      BY <1>7, <2>1, AdvanceJob DEF Update, At
    <2> QED
      BY <1>7, <2>1, <2>2 DEF Update, Says, imported, Typed
  <1>8. CASE AuthorImage
    <2>1. job \in ImportJobs /\ (job.at = "work" => job.now \in Sources)
      BY <1>8, Shape DEF AuthorImage, At, Typed
    <2>2. job' \in ImportJobs /\ (job'.at = "work" => job'.now \in Sources)
      BY <1>8, <2>1, AuthorDoneJob, HoldJob, WriteFile DEF AuthorImage, At
    <2>3. budget' \in [crashes : Nat, faults : Nat, uploads : Nat,
                       runs : Seq(Kinds), avatars : SUBSET Requests]
      BY <1>8, SpendBudget DEF AuthorImage, Leave, Typed
    <2>4. written' \in Nat /\ disk' \subseteq 1..written'
      BY <1>8, WriteFile DEF AuthorImage, Typed
    <2> QED
      BY <1>8, <2>2, <2>3, <2>4 DEF AuthorImage, imported, Typed
  <1>9. CASE NameAuthorImage
    <2>1. job \in ImportJobs /\ (job.at = "work" => job.now \in Sources)
      BY <1>9, Shape DEF NameAuthorImage, At, Typed
    <2>2. job' \in ImportJobs /\ (job'.at = "work" => job'.now \in Sources)
      BY <1>9, <2>1, AuthorDoneJob DEF NameAuthorImage, At
    <2>3. budget' \in [crashes : Nat, faults : Nat, uploads : Nat,
                       runs : Seq(Kinds), avatars : SUBSET Requests]
      BY <1>9, SpendBudget DEF NameAuthorImage, Leave, Typed
    <2>4. job.file \in Nat \cup {None}
      BY <2>1 DEF ImportJobs
    <2> QED
      BY <1>9, <2>2, <2>3, <2>4 DEF NameAuthorImage, Typed
  <1>10. ASSUME NEW x \in Files, FetchFile(x) PROVE Typed'
    <2>1. job \in ImportJobs /\ job.now \in Sources
      BY <1>10, Shape DEF FetchFile, At, Typed
    <2>2. job' \in ImportJobs /\ job'.now \in Sources
      BY <1>10, <2>1, PassOverJob, SkipJob, FetchJob, WriteFile DEF FetchFile
    <2>3. budget' \in [crashes : Nat, faults : Nat, uploads : Nat,
                       runs : Seq(Kinds), avatars : SUBSET Requests]
      BY <1>10, SpendBudget DEF FetchFile, Leave, Typed
    <2>4. written' \in Nat /\ disk' \subseteq 1..written'
      BY <1>10, WriteFile DEF FetchFile, Typed
    <2> QED
      BY <1>10, <2>2, <2>3, <2>4 DEF FetchFile, imported, Typed
  <1>11. CASE InsertAttachment
    <2>1. job \in ImportJobs /\ job.now \in Sources /\ job.x \in Files /\ job.file \in Nat
      BY <1>11, Shape, MediaStoreAssumption DEF InsertAttachment, At, Typed,
         InHand, ImportJobs
    <2>2. job' \in ImportJobs /\ job'.now \in Sources
      BY <1>11, <2>1, SkipJob DEF InsertAttachment
    <2>3. budget' \in [crashes : Nat, faults : Nat, uploads : Nat,
                       runs : Seq(Kinds), avatars : SUBSET Requests]
      BY <1>11, SpendBudget DEF InsertAttachment, Typed
    <2>4. media' \subseteq Attachments
      BY <1>11, <2>1 DEF InsertAttachment, Typed, Attachments
    <2>5. disk' \subseteq disk
      BY <1>11 DEF InsertAttachment
    <2> QED
      BY <1>11, <2>2, <2>3, <2>4, <2>5 DEF InsertAttachment, imported, Typed
  <1>12. CASE LedgerAttachment
    <2>1. job \in ImportJobs /\ job.now \in Sources /\ job.x \in Files /\ job.file \in Nat
      BY <1>12, Shape, MediaStoreAssumption DEF LedgerAttachment, At, Typed,
         InHand, ImportJobs
    <2>2. job' \in ImportJobs /\ job'.now \in Sources
      BY <1>12, <2>1, SkipJob, EnterJob DEF LedgerAttachment
    <2>3. budget' \in [crashes : Nat, faults : Nat, uploads : Nat,
                       runs : Seq(Kinds), avatars : SUBSET Requests]
      BY <1>12, SpendBudget DEF LedgerAttachment, Leave, Typed
    <2> QED
      BY <1>12, <2>1, <2>2, <2>3 DEF LedgerAttachment, imported, Typed
  <1>13. CASE FilesDone
    <2>1. job \in ImportJobs /\ job.now \in Sources
      BY <1>13, Shape DEF FilesDone, At, Typed
    <2>2. job' \in ImportJobs /\ job'.now \in Sources
      BY <1>13, <2>1, AdvanceJob DEF FilesDone, At
    <2> QED
      BY <1>13, <2>1, <2>2 DEF FilesDone, imported, Typed
  <1>14. CASE PreviewImage
    <2>1. job \in ImportJobs /\ job.now \in Sources /\ job.at = "work"
      BY <1>14, Shape DEF PreviewImage, At, Typed
    <2>2. job' \in ImportJobs /\ job'.now \in Sources
      <3>1. NewFile \in Nat
        BY <1>14, WriteFile DEF PreviewImage
      <3> QED
        BY <1>14, <2>1, <3>1, HoldJob, PreviewJob DEF PreviewImage
    <2>3. written' \in Nat /\ disk' \subseteq 1..written'
      BY <1>14, WriteFile DEF PreviewImage, Typed
    <2>4. budget' \in [crashes : Nat, faults : Nat, uploads : Nat,
                       runs : Seq(Kinds), avatars : SUBSET Requests]
      BY <1>14, SpendBudget DEF PreviewImage, Leave, Typed
    <2> QED
      BY <1>14, <2>2, <2>3, <2>4 DEF PreviewImage, imported, Typed
  <1>15. CASE UpsertPreview
    <2>1. job \in ImportJobs /\ job.now \in Sources /\ job.at = "work"
      BY <1>15, Shape DEF UpsertPreview, At, Typed
    <2>2. job' \in ImportJobs /\ job'.now \in Sources
      BY <1>15, <2>1, PreviewJob DEF UpsertPreview
    <2>3. job.file \in Nat \cup {None}
      BY <2>1 DEF ImportJobs
    <2>4. preview' \in [Sources -> Nat \cup {None}]
      BY <1>15, <2>1, <2>3 DEF UpsertPreview, Typed
    <2> QED
      BY <1>15, <2>2, <2>4 DEF UpsertPreview, Typed
  <1>16. CASE ClearEmbeds
    <2>1. job \in ImportJobs /\ job.now \in Sources
      BY <1>16, Shape DEF ClearEmbeds, At, Typed
    <2>2. job' \in ImportJobs /\ job'.now \in Sources
      BY <1>16, <2>1, AdvanceJob DEF ClearEmbeds, At
    <2> QED
      BY <1>16, <2>1, <2>2 DEF ClearEmbeds, imported, Typed
  <1>17. CASE InsertEmbed
    <2>1. job \in ImportJobs /\ job.now \in Sources
      BY <1>17, Shape DEF InsertEmbed, At, Typed
    <2>2. job' \in ImportJobs /\ job'.now \in Sources
      BY <1>17, <2>1, AdvanceJob DEF InsertEmbed, At
    <2>3. /\ embeds' \in [Sources -> SUBSET Nat]
          /\ \A m \in Sources : embeds'[m] \subseteq EmbedsOf[m]
      <3>1. EmbedsOf \in [Sources -> SUBSET Nat]
        BY MediaStoreAssumption
      <3>2. /\ embeds \in [Sources -> SUBSET Nat]
            /\ \A m \in Sources : embeds[m] \subseteq EmbedsOf[m]
        BY DEF Typed
      <3>3. \/ embeds' = embeds
            \/ \E p \in EmbedsOf[job.now] : embeds' = [embeds EXCEPT ![job.now] = @ \cup {p}]
        BY <1>17 DEF InsertEmbed
      <3> QED
        BY <2>1, <3>1, <3>2, <3>3
    <2> QED
      BY <1>17, <2>2, <2>3 DEF InsertEmbed, Typed
  <1>18. CASE ReadPaths
    <2>1. job \in ReplaceJobs
      BY <1>18, Shape DEF ReadPaths
    <2>2. OwnedPaths \subseteq Nat
      BY MediaStoreAssumption DEF OwnedPaths, Owned, Typed, Attachments
    <2>3. job' \in ReplaceJobs /\ job'.at = "delete"
      BY <1>18, <2>1, <2>2 DEF ReadPaths, ReplaceJobs
    <2> QED
      BY <1>18, <2>3 DEF ReadPaths, imported, Typed
  <1>19. CASE DeleteImported
    <2>1. job \in ReplaceJobs
      BY <1>19, Shape DEF DeleteImported
    <2>2. job' \in ReplaceJobs /\ job'.at = "unlink"
      BY <1>19, <2>1 DEF DeleteImported, ReplaceJobs
    <2>3. /\ rows' \in [Sources -> {None, "old", "new"}]
          /\ preview' \in [Sources -> Nat \cup {None}]
          /\ fileLedger' \in [Files -> Nat \cup {None}]
          /\ embeds' \in [Sources -> SUBSET Nat]
          /\ \A m \in Sources : embeds'[m] \subseteq EmbedsOf[m]
      BY <1>19 DEF DeleteImported, Typed
    <2> QED
      BY <1>19, <2>2, <2>3 DEF DeleteImported, Typed
  <1>20. CASE Unlink
    <2>1. job \in ReplaceJobs
      BY <1>20, Shape DEF Unlink
    <2>2. \/ job' \in ImportJobs /\ job'.at # "work"
          \/ job' \in ReplaceJobs /\ job'.at # "work"
      <3>1. CASE \E portion \in Portions : job' = Begin("live", portion)
        BY <3>1, BeginJob DEF Modes
      <3>2. ASSUME NEW path \in job.paths, job' = [job EXCEPT !.paths = @ \ {path}]
            PROVE  job' \in ReplaceJobs /\ job'.at # "work"
        BY <1>20, <2>1, <3>2 DEF ReplaceJobs, Unlink
      <3> QED
        BY <1>20, <3>1, <3>2 DEF Unlink
    <2>3. disk' \subseteq disk
      BY <1>20 DEF Unlink
    <2> QED
      BY <1>20, <2>2, <2>3 DEF Unlink, imported, Typed
  <1>21. CASE Interrupt
    <2>1. budget' \in [crashes : Nat, faults : Nat, uploads : Nat,
                       runs : Seq(Kinds), avatars : SUBSET Requests]
      BY <1>21, SpendBudget DEF Interrupt
    <2> QED
      BY <1>21, <2>1 DEF Interrupt, imported, Typed, Rest
  <1>22. CASE UploadFile
    <2>1. budget' \in [crashes : Nat, faults : Nat, uploads : Nat,
                       runs : Seq(Kinds), avatars : SUBSET Requests]
      BY <1>22, SpendBudget DEF UploadFile, Leave
    <2>2. written' \in Nat /\ disk' \subseteq 1..written'
      BY <1>22, WriteFile DEF UploadFile, Typed
    <2>3. upload' \in Nat \cup {None}
      BY <1>22, WriteFile DEF UploadFile, Typed
    <2> QED
      BY <1>22, <2>1, <2>2, <2>3 DEF UploadFile, imported, Typed
  <1>23. CASE UploadRow
    <2>1. budget' \in [crashes : Nat, faults : Nat, uploads : Nat,
                       runs : Seq(Kinds), avatars : SUBSET Requests]
      BY <1>23, SpendBudget DEF UploadRow, Typed
    <2>2. media' \subseteq Attachments /\ disk' \subseteq disk
      BY <1>23 DEF UploadRow, Typed, Attachments
    <2> QED
      BY <1>23, <2>1, <2>2 DEF UploadRow, imported, Typed
  <1>24. CASE Crash
    <2>1. budget' \in [crashes : Nat, faults : Nat, uploads : Nat,
                       runs : Seq(Kinds), avatars : SUBSET Requests]
      BY <1>24, SpendBudget DEF Crash
    <2> QED
      BY <1>24, <2>1 DEF Crash, imported, Typed
  <1>25. ASSUME NEW q \in Requests, OpenAvatar(q) PROVE Typed'
    <2>1. budget' \in [crashes : Nat, faults : Nat, uploads : Nat,
                       runs : Seq(Kinds), avatars : SUBSET Requests]
      BY <1>25 DEF OpenAvatar, Typed
    <2> QED
      BY <1>25, <2>1 DEF OpenAvatar, imported, Typed
  <1>26. ASSUME NEW q \in Requests, WriteAvatar(q) PROVE Typed'
    BY <1>26 DEF WriteAvatar, imported, Typed
  <1>27. ASSUME NEW q \in Requests, NameAvatar(q) PROVE Typed'
    BY <1>27 DEF NameAvatar, imported, Typed
  <1>28. ASSUME NEW q \in Requests, AvatarFails(q) PROVE Typed'
    <2>1. budget' \in [crashes : Nat, faults : Nat, uploads : Nat,
                       runs : Seq(Kinds), avatars : SUBSET Requests]
      BY <1>28, SpendBudget DEF AvatarFails
    <2> QED
      BY <1>28, <2>1 DEF AvatarFails, imported, Typed
  <1>29. CASE UNCHANGED vars
    BY <1>29 DEF vars, imported, Typed
  <1> QED
    BY <1>1, <1>2, <1>3, <1>4, <1>5, <1>6, <1>7, <1>8, <1>9, <1>10, <1>11,
       <1>12, <1>13, <1>14, <1>15, <1>16, <1>17, <1>18, <1>19, <1>20, <1>21,
       <1>22, <1>23, <1>24, <1>25, <1>26, <1>27, <1>28, <1>29 DEF Next, Import

\* None is not a file.
LEMMA NoneOnDisk ==
    ASSUME Typed PROVE None \notin disk
  <1>1. None \notin Nat
    BY MediaStoreAssumption
  <1>2. 1..written \subseteq Nat /\ disk \subseteq 1..written
    BY DEF Typed
  <1>3. disk \subseteq Nat
    BY <1>2
  <1> QED
    BY <1>1, <1>3

\* A step of an importer with nothing in hand that leaves the files alone.
LEMMA IdleFiles ==
    ASSUME Typed, FilesInv, Idle(job), Idle(job'),
           UNCHANGED <<media, preview, face, disk, upload, torn>>
    PROVE  FilesInv'
  <1>1. Distinct' /\ Uploaded' /\ Names' = Names
    BY DEF FilesInv, Distinct, Uploaded, Names
  <1>2. InHand'
    BY MediaStoreAssumption DEF Idle, InHand, ReplaceJobs, Rest, Modes, Kinds
  <1>3. Listed'
    BY DEF Idle, Listed, ImportJobs, ReplaceJobs, Rest
  <1>4. ASSUME NEW file \in disk, Accounted(file) PROVE Accounted(file)'
    <2>1. file # None
      BY NoneOnDisk
    <2>2. file \in torn \/ upload = file
      BY <1>4, <2>1, MediaStoreAssumption DEF Accounted, Idle, ImportJobs,
         ReplaceJobs, Rest, Modes, Kinds
    <2> QED
      BY <2>2 DEF Accounted
  <1>5. DiskMatchesRows'
    BY <1>1, <1>4 DEF FilesInv, DiskMatchesRows, RowsHaveFiles
  <1> QED
    BY <1>1, <1>2, <1>3, <1>5 DEF FilesInv

\* Between the steps that hold a file the importer has nothing in hand.
LEMMA IdleJob ==
    ASSUME Typed, InHand, job \in ImportJobs,
           \A s \in {"author", "files", "preview"} : ~At(s), job.at # "users"
    PROVE  Idle(job)
  BY DEF Idle, InHand, ImportJobs

\* An importer that goes from one step to the next with nothing in hand.
LEMMA IdleSteps ==
    ASSUME Typed, InHand,
           \/ NextMessage \/ Look \/ Insert \/ InsertRow \/ InsertLedger \/ Update
           \/ FilesDone \/ ClearEmbeds \/ InsertEmbed
    PROVE  Idle(job) /\ Idle(job')
  <1>1. CASE NextMessage
    <2>1. job \in ImportJobs
      BY <1>1, Shape DEF NextMessage
    <2>2. Idle(job)
      BY <1>1, <2>1, IdleJob DEF NextMessage, At
    <2> QED
      BY <1>1, <2>1, <2>2, NextJob DEF Idle, ImportJobs, ReplaceJobs, Rest
  <1>2. CASE Look
    <2>1. job \in ImportJobs
      BY <1>2, Shape DEF Look, At
    <2>2. Idle(job)
      BY <1>2, <2>1, IdleJob DEF Look, At
    <2> QED
      BY <1>2, <2>1, <2>2, LookJob DEF Idle, ImportJobs, ReplaceJobs, Rest
  <1>3. CASE Insert \/ InsertRow
    <2>1. job \in ImportJobs
      BY <1>3, Shape DEF Insert, InsertRow, At
    <2>2. Idle(job)
      BY <1>3, <2>1, IdleJob DEF Insert, InsertRow, At
    <2>3. Advance \/ Fail
      BY <1>3 DEF Insert, InsertRow
    <2> QED
      BY <1>3, <2>1, <2>2, <2>3, AdvanceJob, FailJob
         DEF Insert, InsertRow, At, Idle, ImportJobs, ReplaceJobs, Rest
  <1>4. CASE InsertLedger \/ Update \/ ClearEmbeds
    <2>1. job \in ImportJobs
      BY <1>4, Shape DEF InsertLedger, Update, ClearEmbeds, At
    <2>2. Idle(job)
      BY <1>4, <2>1, IdleJob DEF InsertLedger, Update, ClearEmbeds, At
    <2>3. Advance
      BY <1>4 DEF InsertLedger, Update, ClearEmbeds
    <2> QED
      BY <1>4, <2>1, <2>2, <2>3, AdvanceJob
         DEF InsertLedger, Update, ClearEmbeds, At, Idle, ImportJobs, ReplaceJobs, Rest
  <1>5. CASE FilesDone
    <2>1. job \in ImportJobs /\ job.at = "work" /\ job.file = None
      BY <1>5, Shape DEF FilesDone, At
    <2> QED
      BY <1>5, <2>1, AdvanceJob DEF FilesDone, Idle
  <1>6. CASE InsertEmbed
    <2>1. job \in ImportJobs /\ job.at = "work"
      BY <1>6, Shape DEF InsertEmbed, At
    <2>2. Idle(job)
      BY <1>6, <2>1, IdleJob DEF InsertEmbed, At
    <2>3. Advance \/ job' = job
      BY <1>6 DEF InsertEmbed
    <2> QED
      BY <2>1, <2>2, <2>3, AdvanceJob DEF Idle, ImportJobs, ReplaceJobs, Rest
  <1> QED
    BY <1>1, <1>2, <1>3, <1>4, <1>5, <1>6

\* A run begins with nothing in hand, and so does what it starts.
LEMMA IdleRun ==
    ASSUME Typed, InHand, Listed, Run
    PROVE  Idle(job) /\ Idle(job')
  <1>1. Idle(job)
    <2>1. job \in ImportJobs \/ job = Rest
      BY DEF Run, Typed, ReplaceJobs
    <2> QED
      BY <2>1, IdleJob DEF Run, At, Idle
  <1>2. Idle(job')
    BY RunJob DEF Idle
  <1> QED
    BY <1>1, <1>2

\* A new file is taken in hand.
LEMMA TakesFile ==
    ASSUME Typed, FilesInv, Write, job \in ImportJobs, job.file = None,
           UNCHANGED <<media, fileLedger, preview, face, upload, torn>>,
           job' \in ImportJobs, job'.file = NewFile,
           job'.mode = job.mode, job'.at = job.at, job'.pc = job.pc, job'.now = job.now,
           job.at = "users" \/ At("author") \/ At("files") \/ At("preview"),
           At("files") => job'.x \in FilesOf[job.now] /\ fileLedger[job'.x] = None
    PROVE  FilesInv'
  <1>1. /\ NewFile \in Nat /\ NewFile # None /\ NewFile \notin disk /\ disk' = disk \cup {NewFile}
        /\ NewFile \notin Names /\ NewFile # upload
    BY WriteFile, MediaStoreAssumption DEF FilesInv, DiskMatchesRows,
       RowsHaveFiles, Uploaded
  <1>2. Distinct' /\ Uploaded' /\ Names' = Names
    BY <1>1 DEF FilesInv, Distinct, Uploaded, Names
  <1>3. \A s : At(s)' <=> At(s)
    BY DEF At
  <1>4. InHand'
    BY <1>1, <1>3 DEF InHand, Names, InRow
  <1>5. Listed'
    BY DEF Listed, ImportJobs
  <1>6. ASSUME NEW file \in disk, Accounted(file) PROVE Accounted(file)'
    <2>1. file # None
      BY NoneOnDisk
    <2>2. file \in torn \/ upload = file
      BY <1>6, <2>1 DEF Accounted, ImportJobs, Modes
    <2> QED
      BY <2>2 DEF Accounted
  <1>7. ASSUME NEW file, file = NewFile PROVE Accounted(file)'
    BY <1>7 DEF Accounted, At
  <1>8. DiskMatchesRows'
    BY <1>1, <1>2, <1>6, <1>7 DEF FilesInv, DiskMatchesRows, RowsHaveFiles
  <1> QED
    BY <1>2, <1>4, <1>5, <1>8 DEF FilesInv

\* A new file is left behind, or lost by whoever had it in hand.
LEMMA LosesFile ==
    ASSUME Typed, FilesInv, NEW lost, torn' = torn \cup {lost},
           \/ Write /\ lost = NewFile
           \/ disk' = disk,
           UNCHANGED <<media, preview, face, upload>>,
           job \in ImportJobs, job.file \in {None, lost},
           job' \in ImportJobs, job'.file = None
    PROVE  FilesInv'
  <1>1. disk \subseteq disk' /\ disk' \subseteq disk \cup {lost}
    BY WriteFile
  <1>2. Distinct' /\ Uploaded' /\ Names' = Names
    BY <1>1 DEF FilesInv, Distinct, Uploaded, Names
  <1>3. InHand' /\ Listed'
    BY DEF InHand, Listed, ImportJobs
  <1>4. ASSUME NEW file \in disk, Accounted(file) PROVE Accounted(file)'
    <2>1. file # None
      BY NoneOnDisk
    <2>2. file \in torn \/ upload = file \/ file = lost
      BY <1>4, <2>1 DEF Accounted, ImportJobs, Modes
    <2> QED
      BY <2>2 DEF Accounted
  <1>5. DiskMatchesRows'
    BY <1>1, <1>2, <1>4 DEF FilesInv, DiskMatchesRows, RowsHaveFiles, Accounted
  <1> QED
    BY <1>2, <1>3, <1>5 DEF FilesInv

\* An author's image is written, in hand, or torn.
LEMMA AuthorImageFiles ==
    ASSUME Typed, FilesInv, AuthorImage PROVE FilesInv'
  <1>1. /\ job \in ImportJobs /\ job.file = None /\ (job.at = "work" \/ job.at = "users")
        /\ At("author") \/ job.at = "users"
        /\ UNCHANGED <<media, fileLedger, preview, face, upload>>
    BY Shape DEF AuthorImage, At, imported
  <1>2. CASE Write /\ job' = [job EXCEPT !.file = NewFile] /\ UNCHANGED torn
    <2>1. NewFile \in Nat
      BY <1>2, WriteFile
    <2>2. At("files") => FALSE
      BY <1>1 DEF At
    <2> QED
      BY <1>1, <1>2, <2>1, <2>2, HoldJob, TakesFile
  <1>3. CASE AuthorDone /\ UNCHANGED <<disk, torn>>
    BY <1>1, <1>3, AuthorDoneJob, IdleFiles DEF Idle
  <1>4. CASE Write /\ Leave(NewFile) /\ AuthorDone
    BY <1>1, <1>4, AuthorDoneJob, LosesFile DEF Leave
  <1> QED
    BY <1>2, <1>3, <1>4 DEF AuthorImage

\* An attachment is fetched: its file is in hand, or torn.
LEMMA FetchFileFiles ==
    ASSUME Typed, FilesInv, NEW x \in Files, FetchFile(x) PROVE FilesInv'
  <1>1. /\ job \in ImportJobs /\ job.file = None /\ At("files") /\ x \in FilesOf[job.now]
        /\ UNCHANGED <<media, fileLedger, preview, face, upload>>
    BY Shape DEF FetchFile, At, imported
  <1>2. CASE PassOver(x) /\ UNCHANGED <<disk, torn>>
    BY <1>1, <1>2, PassOverJob, IdleFiles DEF Idle
  <1>3. CASE Skip(x) /\ UNCHANGED <<disk, torn>>
    BY <1>1, <1>3, SkipJob, IdleFiles DEF Idle
  <1>4. CASE Write /\ Leave(NewFile) /\ Skip(x)
    BY <1>1, <1>4, SkipJob, LosesFile DEF Leave
  <1>5. CASE /\ fileLedger[x] = None /\ Write /\ torn' = torn
             /\ job' = [job EXCEPT !.x = x, !.file = NewFile]
    <2>1. NewFile \in Nat
      BY <1>5, WriteFile
    <2> QED
      BY <1>1, <1>5, <2>1, FetchJob, TakesFile
  <1> QED
    BY <1>2, <1>3, <1>4, <1>5 DEF FetchFile

\* A preview's image is written, in hand, or torn.
LEMMA PreviewImageFiles ==
    ASSUME Typed, FilesInv, PreviewImage PROVE FilesInv'
  <1>1. /\ job \in ImportJobs /\ job.file = None /\ At("preview") /\ job.at = "work" /\ Write
        /\ UNCHANGED <<media, fileLedger, preview, face, upload>>
    BY Shape DEF PreviewImage, At, imported
  <1>2. ~At("files") /\ NewFile \in Nat
    BY <1>1, WriteFile DEF At
  <1>3. CASE job' = [job EXCEPT !.file = NewFile] /\ UNCHANGED torn
    BY <1>1, <1>2, <1>3, HoldJob, TakesFile
  <1>4. CASE Leave(NewFile) /\ PreviewDone
    BY <1>1, <1>4, PreviewJob, LosesFile DEF Leave
  <1> QED
    BY <1>3, <1>4 DEF PreviewImage

\* What the importer had in hand gets its row, and the row's former file is left.
LEMMA NamesFile ==
    ASSUME Typed, FilesInv, job \in ImportJobs, ~At("files"),
           \/ face' = job.file /\ preview' = preview /\ torn' = torn \cup ({face} \ {None})
           \/ \E m \in Sources :
                 /\ preview' = [preview EXCEPT ![m] = job.file] /\ face' = face
                 /\ torn' = torn \cup ({preview[m]} \ {None}),
           job.file # None,
           UNCHANGED <<media, disk, upload>>,
           job' \in ImportJobs, job'.file = None
    PROVE  FilesInv'
  <1>1. /\ job.file \in disk /\ job.file # upload /\ job.file # face
        /\ \A n \in Sources : job.file # preview[n]
        /\ \A a \in media : a.file # job.file
        /\ job.mode \in Modes
    BY DEF FilesInv, InHand, InRow, ImportJobs
  <1>2. Distinct'
    BY <1>1 DEF FilesInv, Distinct, Typed
  <1>3. InHand' /\ Listed'
    BY DEF InHand, Listed, ImportJobs
  <1>4. /\ \A f \in Names' : f \in Names \/ f = job.file
        /\ \A f \in Names : f \in Names' \/ f \in torn' \/ f = None
        /\ job.file \in Names'
    BY DEF Names, Typed
  <1>5. Uploaded'
    BY <1>1, <1>4 DEF FilesInv, Uploaded
  <1>6. ASSUME NEW file \in disk, Accounted(file) PROVE Accounted(file)' \/ file = job.file
    <2>1. file \in torn \/ upload = file \/ file = job.file
      BY <1>6 DEF Accounted, ImportJobs, Modes
    <2> QED
      BY <2>1 DEF Accounted
  <1>7. ASSUME NEW file \in disk' \ Names' PROVE Accounted(file)'
    <2>1. file \in disk /\ file # None /\ file # job.file
      BY <1>4, NoneOnDisk
    <2>2. CASE file \in Names
      BY <1>4, <1>7, <2>1, <2>2 DEF Accounted
    <2>3. CASE file \notin Names
      BY <1>6, <2>1, <2>3 DEF FilesInv, DiskMatchesRows
    <2> QED
      BY <2>2, <2>3
  <1>8. RowsHaveFiles'
    BY <1>1, <1>4 DEF FilesInv, DiskMatchesRows, RowsHaveFiles
  <1> QED
    BY <1>2, <1>3, <1>5, <1>7, <1>8 DEF FilesInv, DiskMatchesRows

\* The author gets the image, and the image before it is torn.
LEMMA NameAuthorImageFiles ==
    ASSUME Typed, FilesInv, NameAuthorImage PROVE FilesInv'
  <1>1. /\ job \in ImportJobs /\ job.file # None /\ ~At("files")
        /\ UNCHANGED <<media, preview, disk, upload>>
    BY Shape DEF NameAuthorImage, At
  <1>2. job' \in ImportJobs /\ job'.file = None
    BY <1>1, AuthorDoneJob DEF NameAuthorImage
  <1>3. CASE face' = job.file /\ torn' = torn \cup ({face} \ {None})
    BY <1>1, <1>2, <1>3, NamesFile
  <1>4. CASE Leave(job.file) /\ UNCHANGED face
    BY <1>1, <1>2, <1>4, LosesFile DEF Leave
  <1> QED
    BY <1>3, <1>4 DEF NameAuthorImage

\* The preview gets the image, and the image before it is torn.
LEMMA UpsertPreviewFiles ==
    ASSUME Typed, FilesInv, UpsertPreview PROVE FilesInv'
  <1>1. /\ job \in ImportJobs /\ job.at = "work" /\ ~At("files") /\ job.now \in Sources
        /\ UNCHANGED <<media, face, disk, upload>>
    BY Shape DEF UpsertPreview, At, Typed
  <1>2. job' \in ImportJobs /\ job'.file = None
    BY <1>1, PreviewJob DEF UpsertPreview
  <1>3. CASE job.file = None
    <2>1. preview' = preview /\ torn' = torn
      BY <1>3 DEF UpsertPreview, Typed
    <2> QED
      BY <1>1, <1>2, <1>3, <2>1, IdleFiles DEF Idle
  <1>4. CASE job.file # None
    <2>1. /\ preview' = [preview EXCEPT ![job.now] = job.file]
          /\ torn' = torn \cup ({preview[job.now]} \ {None})
      BY <1>4 DEF UpsertPreview
    <2> QED
      BY <1>1, <1>2, <1>4, <2>1, NamesFile
  <1> QED
    BY <1>3, <1>4

\* The row of an attachment is inserted with the file in hand, or the file goes.
LEMMA InsertAttachmentFiles ==
    ASSUME Typed, FilesInv, InsertAttachment PROVE FilesInv'
  <1>1. /\ job \in ImportJobs /\ job.file # None /\ job.at = "work" /\ At("files") /\ ~InRow
        /\ job.x \in Files
        /\ UNCHANGED <<fileLedger, preview, face, upload, torn>>
    BY Shape, MediaStoreAssumption
       DEF InsertAttachment, At, imported, Typed, FilesInv, InHand, ImportJobs
  <1>2. /\ job.file \in disk /\ job.file # upload /\ job.file # face
        /\ \A n \in Sources : job.file # preview[n]
        /\ \A a \in media : a.file # job.file
        /\ job.x \in FilesOf[job.now] /\ fileLedger[job.x] = None
    BY <1>1 DEF FilesInv, InHand, InRow, ImportJobs
  <1>3. CASE /\ media' = media \cup {[file |-> job.file, source |-> job.x, of |-> job.now]}
             /\ UNCHANGED <<disk, job>>
    <2>1. Distinct'
      BY <1>1, <1>2, <1>3 DEF FilesInv, Distinct
    <2>2. InHand'
      BY <1>1, <1>2, <1>3 DEF InHand, At
    <2>3. Names' = Names \cup {job.file}
      <3>1. PICK row : row.file = job.file /\ media' = media \cup {row}
        BY <1>3
      <3>2. {a.file : a \in media'} = {a.file : a \in media} \cup {job.file}
        BY <3>1
      <3>3. {preview'[m] : m \in Sources} = {preview[m] : m \in Sources} /\ face' = face
        BY <1>1
      <3> QED
        BY <3>2, <3>3 DEF Names
    <2>4. Uploaded' /\ Listed'
      BY <1>1, <1>2, <1>3, <2>3 DEF FilesInv, Uploaded, Listed
    <2>5. \A file \in disk : Accounted(file) => Accounted(file)'
      BY <1>1, <1>3 DEF Accounted
    <2>6. DiskMatchesRows'
      BY <1>2, <1>3, <2>3, <2>5 DEF FilesInv, DiskMatchesRows, RowsHaveFiles
    <2> QED
      BY <2>1, <2>2, <2>4, <2>6 DEF FilesInv
  <1>4. CASE disk' = disk \ {job.file} /\ Skip(job.x) /\ UNCHANGED media
    <2>1. job' \in ImportJobs /\ job'.file = None
      BY <1>1, <1>4, SkipJob
    <2>2. Distinct' /\ Names' = Names /\ job.file \notin Names
      BY <1>1, <1>2, <1>4 DEF FilesInv, Distinct, Names
    <2>3. InHand' /\ Listed'
      BY <2>1 DEF InHand, Listed, ImportJobs
    <2>4. Uploaded'
      BY <1>1, <1>2, <1>4, <2>2 DEF FilesInv, Uploaded
    <2>5. ASSUME NEW file \in disk', Accounted(file) PROVE Accounted(file)'
      <3>1. file \in torn \/ upload = file
        BY <1>1, <1>4, <2>5 DEF Accounted, ImportJobs, Modes
      <3> QED
        BY <1>1, <3>1 DEF Accounted
    <2>6. DiskMatchesRows'
      BY <1>4, <2>2, <2>5 DEF FilesInv, DiskMatchesRows, RowsHaveFiles
    <2> QED
      BY <2>2, <2>3, <2>4, <2>6 DEF FilesInv
  <1> QED
    BY <1>3, <1>4 DEF InsertAttachment

\* The ledger takes the file, or the importer goes on without it: the row has it.
LEMMA LedgerAttachmentFiles ==
    ASSUME Typed, FilesInv, LedgerAttachment PROVE FilesInv'
  <1>1. /\ job \in ImportJobs /\ job.at = "work" /\ job.file \in Names /\ job.x \in Files
        /\ torn \subseteq torn'
        /\ UNCHANGED <<media, preview, face, disk, upload>>
    BY Shape, MediaStoreAssumption
       DEF LedgerAttachment, Leave, At, imported, InRow, Names, Typed, FilesInv, InHand, ImportJobs
  <1>2. job' \in ImportJobs /\ job'.file = None
    BY <1>1, SkipJob, EnterJob DEF LedgerAttachment
  <1>3. Distinct' /\ Uploaded' /\ Names' = Names
    BY <1>1 DEF FilesInv, Distinct, Uploaded, Names
  <1>4. InHand' /\ Listed'
    BY <1>2 DEF InHand, Listed, ImportJobs
  <1>5. ASSUME NEW file \in disk \ Names, Accounted(file) PROVE Accounted(file)'
    <2>1. file \in torn \/ upload = file
      BY <1>1, <1>5 DEF Accounted, ImportJobs, Modes
    <2> QED
      BY <1>1, <2>1 DEF Accounted
  <1>6. DiskMatchesRows'
    BY <1>1, <1>3, <1>5 DEF FilesInv, DiskMatchesRows, RowsHaveFiles
  <1> QED
    BY <1>3, <1>4, <1>6 DEF FilesInv

\* The paths are what the rows of the ledger name.
LEMMA ReadPathsFiles ==
    ASSUME Typed, FilesInv, ReadPaths PROVE FilesInv'
  <1>1. /\ job \in ReplaceJobs /\ job.at = "paths" /\ job.paths = {}
        /\ UNCHANGED <<media, ledger, preview, face, disk, upload, torn>>
    BY Shape DEF ReadPaths, imported, FilesInv, Listed
  <1>2. /\ job'.mode = "replace" /\ job'.at = "delete" /\ job'.paths = OwnedPaths
    BY <1>1 DEF ReadPaths, ReplaceJobs
  <1>3. Distinct' /\ Uploaded' /\ Names' = Names /\ OwnedPaths' = OwnedPaths
    BY <1>1 DEF FilesInv, Distinct, Uploaded, Names, OwnedPaths, Owned
  <1>4. InHand' /\ Listed'
    BY <1>2, <1>3 DEF InHand, Listed, Modes
  <1>5. ASSUME NEW file \in disk, Accounted(file) PROVE Accounted(file)'
    <2>1. file \in torn \/ upload = file
      BY <1>1, <1>5 DEF Accounted
    <2> QED
      BY <1>1, <2>1 DEF Accounted
  <1>6. DiskMatchesRows'
    BY <1>1, <1>3, <1>5 DEF FilesInv, DiskMatchesRows, RowsHaveFiles
  <1> QED
    BY <1>3, <1>4, <1>6 DEF FilesInv

\* What is deleted with the messages is on the list, and nothing else is.
LEMMA DeleteImportedFiles ==
    ASSUME Typed, FilesInv, DeleteImported PROVE FilesInv'
  <1>1. /\ job \in ReplaceJobs /\ job.at = "delete" /\ job.paths = OwnedPaths
        /\ media' = media \ Owned
        /\ preview' = [m \in Sources |-> IF m \in ledger THEN None ELSE preview[m]]
        /\ UNCHANGED <<face, disk, upload>>
    BY Shape DEF DeleteImported, FilesInv, Listed
  <1>2. /\ job'.mode = "replace" /\ job'.at = "unlink" /\ job'.paths = OwnedPaths
    BY <1>1 DEF DeleteImported, ReplaceJobs
  <1>3. Distinct'
    <2>1. \A a \in media : a.file # None
      BY MediaStoreAssumption DEF Typed, Attachments
    <2>2. \A m \in Sources : preview'[m] = None \/ preview'[m] = preview[m]
      BY <1>1
    <2> QED
      BY <1>1, <2>1, <2>2 DEF FilesInv, Distinct
  <1>4. Names' \subseteq Names \cup {None}
    BY <1>1 DEF Names
  <1>5. Uploaded'
    BY <1>1, <1>4 DEF FilesInv, Uploaded
  <1>6. OwnedPaths \cap Names' = {}
    <2>1. SUFFICES ASSUME NEW f \in OwnedPaths, f \in Names' PROVE FALSE
      OBVIOUS
    <2>2. f \in Nat /\ f # None
      BY MediaStoreAssumption DEF OwnedPaths, Owned, Typed, Attachments
    <2>3. \/ \E a \in media : a.file = f /\ a \in Owned
          \/ \E m \in ledger : preview[m] = f
      BY DEF OwnedPaths, Owned
    <2>4. \/ \E a \in media : a.file = f /\ a \notin Owned
          \/ \E m \in Sources : m \notin ledger /\ preview[m] = f
          \/ face = f
      BY <1>1, <2>1, <2>2 DEF Names
    <2> QED
      BY <2>2, <2>3, <2>4 DEF FilesInv, Distinct, Typed
  <1>7. upload \notin OwnedPaths /\ OwnedPaths \subseteq disk
    <2>1. OwnedPaths \subseteq Names \ {None}
      BY MediaStoreAssumption DEF OwnedPaths, Owned, Names, Typed, Attachments
    <2> QED
      BY <2>1 DEF FilesInv, Uploaded, DiskMatchesRows, RowsHaveFiles
  <1>8. InHand' /\ Listed'
    BY <1>1, <1>2, <1>6, <1>7 DEF InHand, Listed, Modes
  <1>9. ASSUME NEW file \in disk, Accounted(file) PROVE Accounted(file)'
    <2>1. file \in torn \/ upload = file \/ file \in OwnedPaths
      BY <1>1, <1>9 DEF Accounted
    <2>2. file \notin Files
      BY MediaStoreAssumption DEF Typed
    <2> QED
      BY <1>1, <1>2, <2>1, <2>2 DEF Accounted, DeleteImported
  <1>10. ASSUME NEW file \in disk \cap Names, file \notin Names' PROVE Accounted(file)'
    <2>1. file \in OwnedPaths
      BY <1>1, <1>10, NoneOnDisk DEF Names, OwnedPaths, Typed
    <2> QED
      BY <1>2, <2>1 DEF Accounted
  <1>11. DiskMatchesRows'
    BY <1>1, <1>4, <1>9, <1>10 DEF FilesInv, DiskMatchesRows, RowsHaveFiles
  <1> QED
    BY <1>3, <1>5, <1>8, <1>11 DEF FilesInv

\* A path that is removed is named by no row.
LEMMA UnlinkFiles ==
    ASSUME Typed, FilesInv, Unlink PROVE FilesInv'
  <1>1. /\ job \in ReplaceJobs /\ job.at = "unlink"
        /\ job.paths \subseteq disk \ (Names \cup {upload})
        /\ UNCHANGED <<media, ledger, preview, face, upload, torn>>
    BY Shape DEF Unlink, imported, FilesInv, Listed
  <1>2. CASE job.paths = {}
    <2>1. (\E portion \in Portions : job' = Begin("live", portion)) /\ disk' = disk
      BY <1>2 DEF Unlink
    <2> QED
      BY <1>1, <1>2, <2>1, BeginJob, IdleFiles DEF Idle, Modes
  <1>3. CASE job.paths # {}
    <2>1. PICK path \in job.paths :
             disk' = disk \ {path} /\ job' = [job EXCEPT !.paths = @ \ {path}]
      BY <1>3 DEF Unlink
    <2>2. job'.mode = "replace" /\ job'.at = "unlink" /\ job'.paths = job.paths \ {path}
      BY <1>1, <2>1 DEF ReplaceJobs
    <2>3. Distinct' /\ Names' = Names
      BY <1>1 DEF FilesInv, Distinct, Names
    <2>4. Uploaded'
      BY <1>1, <2>1, <2>3 DEF FilesInv, Uploaded
    <2>5. InHand' /\ Listed'
      BY <1>1, <2>1, <2>2, <2>3 DEF InHand, Listed, Modes
    <2>6. ASSUME NEW file \in disk', Accounted(file) PROVE Accounted(file)'
      <3>1. file \in torn \/ upload = file \/ file \in job.paths
        BY <1>1, <2>6 DEF Accounted
      <3> QED
        BY <1>1, <2>1, <2>2, <3>1 DEF Accounted
    <2>7. DiskMatchesRows'
      BY <1>1, <2>1, <2>3, <2>6 DEF FilesInv, DiskMatchesRows, RowsHaveFiles
    <2> QED
      BY <2>3, <2>4, <2>5, <2>7 DEF FilesInv
  <1> QED
    BY <1>2, <1>3

\* What the importer had in hand, or was about to remove, is left.
LEMMA InterruptFiles ==
    ASSUME Typed, FilesInv, Interrupt PROVE FilesInv'
  <1>1. /\ job' = Rest /\ torn \subseteq torn'
        /\ UNCHANGED <<media, preview, face, disk, upload>>
    BY DEF Interrupt, imported
  <1>2. Rest.at = "rest" /\ Rest.mode \notin Modes \cup {"replace"}
    BY MediaStoreAssumption DEF Rest, Modes, Kinds
  <1>3. Distinct' /\ Uploaded' /\ Names' = Names
    BY <1>1 DEF FilesInv, Distinct, Uploaded, Names
  <1>4. InHand' /\ Listed'
    BY <1>1, <1>2 DEF InHand, Listed
  <1>5. ASSUME NEW file \in disk \ Names, Accounted(file) PROVE Accounted(file)'
    <2>1. file # None
      BY NoneOnDisk
    <2>2. CASE job.at \in {"work", "users"} /\ job.file = file
      <3>1. job \in ImportJobs /\ job.mode # "replace" /\ job.file # None
        BY <2>1, <2>2, Shape DEF ImportJobs, Modes
      <3>2. ~InRow
        BY <1>5, <2>2 DEF InRow, Names
      <3>3. file \in torn'
        BY <2>2, <3>1, <3>2 DEF Interrupt
      <3> QED
        BY <3>3 DEF Accounted
    <2>3. CASE job.mode = "replace" /\ file \in job.paths
      <3>1. job \in ReplaceJobs
        BY <2>3, MediaStoreAssumption DEF Typed, ImportJobs, Modes, Rest, Kinds
      <3>2. job.at = "unlink"
        <4>1. OwnedPaths \subseteq Names
          BY DEF OwnedPaths, Owned, Names, Typed
        <4> QED
          BY <1>5, <2>3, <3>1, <4>1 DEF ReplaceJobs, FilesInv, Listed
      <3>3. file \in torn'
        BY <2>3, <3>2 DEF Interrupt
      <3> QED
        BY <3>3 DEF Accounted
    <2> QED
      BY <1>1, <1>5, <2>2, <2>3 DEF Accounted
  <1>6. DiskMatchesRows'
    BY <1>1, <1>3, <1>5 DEF FilesInv, DiskMatchesRows, RowsHaveFiles
  <1> QED
    BY <1>3, <1>4, <1>6 DEF FilesInv

\* An upload's file is in its hands, or torn.
LEMMA UploadFileFiles ==
    ASSUME Typed, FilesInv, UploadFile PROVE FilesInv'
  <1>1. /\ upload = None /\ Write /\ job' = job
        /\ UNCHANGED <<media, ledger, fileLedger, preview, face>>
        /\ \/ upload' = NewFile /\ torn' = torn
           \/ upload' = None /\ torn' = torn \cup {NewFile}
    BY DEF UploadFile, Leave, imported
  <1>2. /\ NewFile \in Nat /\ NewFile # None /\ NewFile \notin disk /\ disk' = disk \cup {NewFile}
        /\ NewFile \notin Names
    BY <1>1, WriteFile, MediaStoreAssumption DEF FilesInv, DiskMatchesRows,
       RowsHaveFiles
  <1>3. Distinct' /\ Names' = Names /\ OwnedPaths' = OwnedPaths
    BY <1>1 DEF FilesInv, Distinct, Names, OwnedPaths, Owned
  <1>4. Uploaded'
    BY <1>1, <1>2, <1>3 DEF Uploaded
  <1>5. InHand'
    BY <1>1, <1>2, MediaStoreAssumption DEF FilesInv, InHand, At, InRow
  <1>6. job.at = "unlink" => NewFile \notin job.paths
    BY <1>2 DEF FilesInv, Listed
  <1>7. Listed'
    BY <1>1, <1>2, <1>3, <1>6 DEF FilesInv, Listed
  <1>8. ASSUME NEW file \in disk, Accounted(file) PROVE Accounted(file)'
    BY <1>1, <1>8, NoneOnDisk DEF Accounted
  <1>9. ASSUME NEW file, file = NewFile PROVE Accounted(file)'
    BY <1>1, <1>9 DEF Accounted
  <1>10. DiskMatchesRows'
    BY <1>2, <1>3, <1>8, <1>9 DEF FilesInv, DiskMatchesRows, RowsHaveFiles
  <1> QED
    BY <1>3, <1>4, <1>5, <1>7, <1>10 DEF FilesInv

\* An upload's file goes to its row, or from the disk.
LEMMA UploadRowFiles ==
    ASSUME Typed, FilesInv, UploadRow PROVE FilesInv'
  <1>1. /\ upload # None /\ upload' = None /\ job' = job
        /\ upload \in disk /\ upload \notin Names
        /\ UNCHANGED <<ledger, fileLedger, preview, face, torn>>
    BY DEF UploadRow, imported, FilesInv, Uploaded
  <1>2. CASE /\ media' = media \cup {[file |-> upload, source |-> None, of |-> None]}
             /\ disk' = disk
    <2>1. PICK row : /\ row = [file |-> upload, source |-> None, of |-> None]
                     /\ row.file = upload /\ row.of = None /\ media' = media \cup {row}
      BY <1>2
    <2>2. Names' = Names \cup {upload}
      <3>1. {a.file : a \in media'} = {a.file : a \in media} \cup {upload}
        BY <2>1
      <3>2. {preview'[m] : m \in Sources} = {preview[m] : m \in Sources} /\ face' = face
        BY <1>1
      <3> QED
        BY <3>1, <3>2 DEF Names
    <2>3. OwnedPaths' = OwnedPaths
      <3>1. Owned' = Owned
        BY <1>1, <2>1, MediaStoreAssumption DEF Owned, Typed
      <3> QED
        BY <1>1, <3>1 DEF OwnedPaths
    <2>4. Distinct'
      BY <1>1, <2>1 DEF FilesInv, Distinct, Names
    <2>5. InHand'
      BY <1>1, <1>2, <2>1 DEF FilesInv, InHand, At, InRow
    <2>6. Uploaded' /\ Listed'
      BY <1>1, <1>2, <2>2, <2>3, NoneOnDisk DEF FilesInv, Uploaded, Listed
    <2>7. ASSUME NEW file \in disk, Accounted(file) PROVE Accounted(file)' \/ file = upload
      BY <1>1, <2>7 DEF Accounted
    <2>8. DiskMatchesRows'
      BY <1>1, <1>2, <2>2, <2>7 DEF FilesInv, DiskMatchesRows, RowsHaveFiles
    <2> QED
      BY <2>4, <2>5, <2>6, <2>8 DEF FilesInv
  <1>3. CASE disk' = disk \ {upload} /\ media' = media
    <2>1. Distinct' /\ Names' = Names /\ OwnedPaths' = OwnedPaths
      BY <1>1, <1>3 DEF FilesInv, Distinct, Names, OwnedPaths, Owned
    <2>2. InHand'
      BY <1>1, <1>3 DEF FilesInv, InHand, At, InRow
    <2>3. Uploaded' /\ Listed'
      BY <1>1, <1>3, <2>1, NoneOnDisk DEF FilesInv, Uploaded, Listed
    <2>4. ASSUME NEW file \in disk, Accounted(file) PROVE Accounted(file)' \/ file = upload
      BY <1>1, <2>4 DEF Accounted
    <2>5. DiskMatchesRows'
      BY <1>1, <1>3, <2>1, <2>4 DEF FilesInv, DiskMatchesRows, RowsHaveFiles
    <2> QED
      BY <2>1, <2>2, <2>3, <2>5 DEF FilesInv
  <1> QED
    BY <1>2, <1>3 DEF UploadRow

\* The file of an upload that dies is torn.
LEMMA CrashFiles ==
    ASSUME Typed, FilesInv, Crash PROVE FilesInv'
  <1>1. /\ upload' = None /\ torn' = torn \cup ({upload} \ {None}) /\ job' = job
        /\ UNCHANGED <<media, ledger, fileLedger, preview, face, disk>>
    BY DEF Crash, imported
  <1>2. Distinct' /\ Names' = Names /\ OwnedPaths' = OwnedPaths
    BY <1>1 DEF FilesInv, Distinct, Names, OwnedPaths, Owned
  <1>3. InHand'
    BY <1>1 DEF FilesInv, InHand, At, InRow
  <1>4. Uploaded'
    BY <1>1 DEF Uploaded
  <1>5. Listed'
    BY <1>1, <1>2, NoneOnDisk DEF FilesInv, Listed
  <1>6. ASSUME NEW file \in disk, Accounted(file) PROVE Accounted(file)'
    BY <1>1, <1>6, NoneOnDisk DEF Accounted
  <1>7. DiskMatchesRows'
    BY <1>1, <1>2, <1>6 DEF FilesInv, DiskMatchesRows, RowsHaveFiles
  <1> QED
    BY <1>2, <1>3, <1>4, <1>5, <1>7 DEF FilesInv

\* A step of the avatars, or none.
LEMMA UntouchedFiles ==
    ASSUME FilesInv,
           UNCHANGED <<media, ledger, fileLedger, preview, face, disk, upload, job, torn>>
    PROVE  FilesInv'
  <1>1. Distinct' /\ Names' = Names /\ OwnedPaths' = OwnedPaths
    BY DEF FilesInv, Distinct, Names, OwnedPaths, Owned
  <1>2. InHand' /\ Uploaded' /\ Listed'
    BY <1>1 DEF FilesInv, InHand, At, InRow, Uploaded, Listed
  <1>3. \A file \in disk : Accounted(file) => Accounted(file)'
    BY DEF Accounted
  <1>4. DiskMatchesRows'
    BY <1>1, <1>3 DEF FilesInv, DiskMatchesRows, RowsHaveFiles
  <1> QED
    BY <1>1, <1>2, <1>4 DEF FilesInv

\* Every step keeps rows and files together.
LEMMA FilesStep ==
    ASSUME Typed, FilesInv, [Next]_vars PROVE FilesInv'
  <1>1. CASE Run
    <2>1. Idle(job) /\ Idle(job')
      BY <1>1, IdleRun DEF FilesInv
    <2> QED
      BY <1>1, <2>1, IdleFiles DEF Run, imported
  <1>2. CASE \/ NextMessage \/ Look \/ Insert \/ InsertRow \/ InsertLedger \/ Update
             \/ FilesDone \/ ClearEmbeds \/ InsertEmbed
    <2>1. Idle(job) /\ Idle(job')
      BY <1>2, IdleSteps DEF FilesInv
    <2>2. UNCHANGED <<media, preview, face, disk, upload, torn>>
      BY <1>2 DEF NextMessage, Look, Insert, InsertRow, InsertLedger, Update,
         FilesDone, ClearEmbeds, InsertEmbed, imported
    <2> QED
      BY <2>1, <2>2, IdleFiles
  <1>3. CASE AuthorImage \/ NameAuthorImage \/ PreviewImage \/ UpsertPreview
    BY <1>3, AuthorImageFiles, NameAuthorImageFiles, PreviewImageFiles,
       UpsertPreviewFiles
  <1>4. CASE (\E x \in Files : FetchFile(x)) \/ InsertAttachment \/ LedgerAttachment
    BY <1>4, FetchFileFiles, InsertAttachmentFiles, LedgerAttachmentFiles
  <1>5. CASE ReadPaths \/ DeleteImported \/ Unlink
    BY <1>5, ReadPathsFiles, DeleteImportedFiles, UnlinkFiles
  <1>6. CASE Interrupt \/ Crash
    BY <1>6, InterruptFiles, CrashFiles
  <1>7. CASE UploadFile \/ UploadRow
    BY <1>7, UploadFileFiles, UploadRowFiles
  <1>8. CASE \/ \E q \in Requests :
                   OpenAvatar(q) \/ WriteAvatar(q) \/ NameAvatar(q) \/ AvatarFails(q)
             \/ UNCHANGED vars
    BY <1>8, UntouchedFiles
       DEF OpenAvatar, WriteAvatar, NameAvatar, AvatarFails, vars, imported
  <1> QED
    BY <1>1, <1>2, <1>3, <1>4, <1>5, <1>6, <1>7, <1>8 DEF Next, Import

-----------------------------------------------------------------------------
(* The steps of a message, and the ledger of its attachments. *)

\* Every message begins with the look at the ledger, a live row is followed by
\* its entry in the ledger, and a step that ends an image is not the last.
LEMMA StepOrder ==
    ASSUME NEW mode \in Modes, NEW n \in 1..Len(Steps(mode))
    PROVE  /\ Len(Steps(mode)) \in 1..7
           /\ Steps(mode)[n] = "look" <=> n = 1
           /\ n < Len(Steps(mode)) /\ Steps(mode)[n + 1] = "ledger" => Steps(mode)[n] = "row"
           /\ Steps(mode)[n] = "look" => n < Len(Steps(mode))
           /\ Steps(mode)[n] = "author" => n < Len(Steps(mode))
           /\ mode = "json" /\ Steps(mode)[n] = "preview" => n < Len(Steps(mode))
  <1>1. CASE mode = "har"
    <2>1. Steps(mode) = <<"look", "insert", "author", "update", "files", "preview">>
      BY <1>1 DEF Steps, HarSteps
    <2>2. Len(Steps(mode)) = 6 /\ n \in {1, 2, 3, 4, 5, 6}
      BY <2>1
    <2>3. /\ Steps(mode)[1] = "look"
          /\ Steps(mode)[2] = "insert"
          /\ Steps(mode)[3] = "author"
          /\ Steps(mode)[4] = "update"
          /\ Steps(mode)[5] = "files"
          /\ Steps(mode)[6] = "preview"
      BY <2>1
    <2> QED
      BY <1>1, <2>2, <2>3
  <1>2. CASE mode = "live"
    <2>1. Steps(mode) = <<"look", "author", "update", "row", "ledger", "files", "preview">>
      BY <1>2 DEF Steps, LiveSteps
    <2>2. Len(Steps(mode)) = 7 /\ n \in {1, 2, 3, 4, 5, 6, 7}
      BY <2>1
    <2>3. /\ Steps(mode)[1] = "look"
          /\ Steps(mode)[2] = "author"
          /\ Steps(mode)[3] = "update"
          /\ Steps(mode)[4] = "row"
          /\ Steps(mode)[5] = "ledger"
          /\ Steps(mode)[6] = "files"
          /\ Steps(mode)[7] = "preview"
      BY <2>1
    <2> QED
      BY <1>2, <2>2, <2>3
  <1>3. CASE mode = "json"
    <2>1. Steps(mode) = <<"look", "update", "insert", "files", "preview", "clear", "embeds">>
      BY <1>3 DEF Steps, JsonSteps
    <2>2. Len(Steps(mode)) = 7 /\ n \in {1, 2, 3, 4, 5, 6, 7}
      BY <2>1
    <2>3. /\ Steps(mode)[1] = "look"
          /\ Steps(mode)[2] = "update"
          /\ Steps(mode)[3] = "insert"
          /\ Steps(mode)[4] = "files"
          /\ Steps(mode)[5] = "preview"
          /\ Steps(mode)[6] = "clear"
          /\ Steps(mode)[7] = "embeds"
      BY <2>1
    <2> QED
      BY <1>3, <2>2, <2>3
  <1> QED
    BY <1>1, <1>2, <1>3 DEF Modes

\* The importer goes to the next step of its message, other than from the look.
LEMMA NextStep ==
    ASSUME Typed, InStep, job \in ImportJobs, NEW s, At(s), s # "look",
           s = "row" => rows'[job.now] # None, ledger \subseteq ledger',
           job' \in ImportJobs, job'.mode = job.mode, job'.now = job.now,
           job'.known = job.known, job'.at = "work", job'.pc = job.pc + 1,
           job.pc < Len(Steps(job.mode))
    PROVE  InStep'
  <1>1. /\ job.mode \in Modes /\ job.pc \in 1..Len(Steps(job.mode))
        /\ Steps(job.mode)[job.pc] = s /\ job.pc \in Nat
    BY DEF InStep, At, ImportJobs
  <1>2. Len(Steps(job.mode)) \in 1..7
    BY <1>1, StepOrder
  <1>3. job'.pc \in 1..Len(Steps(job'.mode))
    BY <1>1, <1>2
  <1>4. At("ledger")' => s = "row"
    BY <1>1, StepOrder DEF At
  <1>5. job.known => job.now \in ledger
    BY DEF InStep, At
  <1> QED
    BY <1>3, <1>4, <1>5 DEF InStep

\* The importer goes to the next step, or to the next message.
LEMMA AdvanceStep ==
    ASSUME Typed, InStep, NEW s, At(s), s # "look", Advance,
           s = "row" => rows'[job.now] # None, ledger \subseteq ledger'
    PROVE  InStep'
  <1>1. job \in ImportJobs /\ job.at = "work"
    BY Shape DEF At
  <1>2. CASE job'.at = "next"
    BY <1>2 DEF InStep
  <1>3. CASE job'.at = "work" /\ job'.pc = job.pc + 1 /\ job.pc < Len(Steps(job.mode))
    BY <1>1, <1>3, AdvanceJob, NextStep
  <1> QED
    BY <1>1, <1>2, <1>3, AdvanceJob

\* The importer stays at the step it is at.
LEMMA SameStep ==
    ASSUME InStep, UNCHANGED <<rows, ledger>>,
           job'.mode = job.mode, job'.now = job.now, job'.known = job.known,
           job'.at = job.at, job'.pc = job.pc
    PROVE  InStep'
  BY DEF InStep, At

\* Anything but a change of the attachments and of their ledger.
LEMMA SameAttachments ==
    ASSUME Typed, Ledgered, Entered, UNCHANGED <<media, fileLedger>>,
           \A m \in ledger' : rows'[m] # None,
           torn \subseteq torn', job.mode \in Modes /\ At("files") => ~InRow
    PROVE  Ledgered' /\ Entered'
  <1>1. Ledgered'
    BY DEF Ledgered
  <1>2. Entered'
    BY DEF Entered, InRow
  <1> QED
    BY <1>1, <1>2

\* With nothing in hand, no row has what is in hand.
LEMMA EmptyHand ==
    ASSUME Typed, job.file = None PROVE ~InRow
  BY MediaStoreAssumption DEF Typed, Attachments, InRow

\* After the look, the importer knows what the ledger says.
LEMMA LookStep ==
    ASSUME Typed, InStep, Look PROVE InStep'
  <1>1. job \in ImportJobs /\ job.at = "work"
    BY Shape DEF Look, At
  <1>2. /\ job.mode \in Modes /\ job.pc \in 1..Len(Steps(job.mode))
        /\ Steps(job.mode)[job.pc] = "look"
    BY <1>1 DEF InStep, Look, At, ImportJobs
  <1>3. job.pc = 1 /\ job.pc < Len(Steps(job.mode)) /\ Len(Steps(job.mode)) \in 1..7
    BY <1>2, StepOrder
  <1>4. /\ job'.mode = job.mode /\ job'.at = "work" /\ job'.now = job.now
        /\ job'.pc = 2 /\ job'.known = (job.now \in ledger)
    BY <1>1, <1>3 DEF Look, ImportJobs
  <1>5. Steps(job.mode)[2] # "ledger"
    BY <1>2, <1>3, StepOrder
  <1>6. job'.pc \in 1..Len(Steps(job'.mode)) /\ ~At("ledger")'
    BY <1>3, <1>4, <1>5 DEF At
  <1> QED
    BY <1>4, <1>6 DEF InStep, Look, imported

\* A message begins with the look.
LEMMA BeginStep ==
    ASSUME Typed, InStep, NextMessage PROVE InStep'
  <1>1. job \in ImportJobs
    BY Shape DEF NextMessage
  <1>2. ASSUME NEW m \in job.todo,
               job' = [job EXCEPT !.at = "work", !.now = m, !.pc = 1, !.tried = {}]
        PROVE  InStep'
    <2>1. job'.mode = job.mode /\ job.mode \in Modes /\ job'.pc = 1
      BY <1>1, <1>2 DEF ImportJobs
    <2>2. 1 \in 1..Len(Steps(job.mode)) /\ Steps(job.mode)[1] = "look"
      BY <2>1 DEF Modes, Steps, HarSteps, LiveSteps, JsonSteps
    <2> QED
      BY <2>1, <2>2 DEF InStep, At
  <1>3. CASE job' = [job EXCEPT !.at = "done"]
    <2>1. job'.at = "done"
      BY <1>1, <1>3 DEF ImportJobs
    <2> QED
      BY <2>1 DEF InStep
  <1> QED
    BY <1>2, <1>3 DEF NextMessage

\* A row is in the ledger, or comes with its entry, or before it.
LEMMA InsertStep ==
    ASSUME Typed, LedgerInv, Insert \/ InsertRow \/ InsertLedger \/ Update
    PROVE  InStep' /\ (\A m \in ledger' : rows'[m] # None)
  <1>1. job \in ImportJobs /\ job.at = "work" /\ job.now \in Sources /\ job.mode \in Modes
    BY Shape DEF Insert, InsertRow, InsertLedger, Update, At, Typed, ImportJobs
  <1>2. Says(job.mode) # None
    BY MediaStoreAssumption DEF Says
  <1>3. rows \in [Sources -> {None, "old", "new"}] /\ ledger \subseteq Sources
    BY DEF Typed
  <1>4. InStep /\ \A m \in ledger : rows[m] # None
    BY DEF LedgerInv, Ledgered
  <1>5. job.known /\ ~At("look") => job.now \in ledger
    BY <1>1, <1>4 DEF InStep
  <1>6. CASE Fail /\ UNCHANGED <<rows, ledger>>
    <2>1. job'.at = "failed"
      BY <1>1, <1>6 DEF Fail, ImportJobs
    <2> QED
      BY <1>4, <1>6, <2>1 DEF InStep
  <1>7. CASE /\ Advance /\ ledger \subseteq ledger' /\ \A m \in ledger' : rows'[m] # None
             /\ \E s : At(s) /\ s # "look" /\ (s = "row" => rows'[job.now] # None)
    BY <1>4, <1>7, AdvanceStep
  <1>8. ASSUME rows' = [rows EXCEPT ![job.now] = Says(job.mode)]
        PROVE  rows'[job.now] # None /\ \A m \in ledger : rows'[m] # None
    BY <1>1, <1>2, <1>3, <1>4, <1>8
  <1>9. CASE Insert
    <2>1. At("insert")
      BY <1>9 DEF Insert
    <2>2. CASE job.known
      <3>1. Advance /\ UNCHANGED <<rows, ledger>>
        BY <1>9, <2>2 DEF Insert
      <3> QED
        BY <1>4, <1>7, <2>1, <3>1
    <2>3. CASE ~job.known /\ rows[job.now] # None
      BY <1>6, <1>9, <2>3 DEF Insert
    <2>4. CASE ~job.known /\ rows[job.now] = None
      <3>1. /\ rows' = [rows EXCEPT ![job.now] = Says(job.mode)]
            /\ ledger' = ledger \cup {job.now} /\ Advance
        BY <1>9, <2>4 DEF Insert
      <3>2. \A m \in ledger' : rows'[m] # None
        BY <1>8, <3>1
      <3> QED
        BY <1>7, <2>1, <3>1, <3>2
    <2> QED
      BY <2>2, <2>3, <2>4
  <1>10. CASE InsertRow
    <2>1. At("row") /\ ledger' = ledger
      BY <1>10 DEF InsertRow
    <2>2. CASE job.known
      <3>1. Advance /\ rows' = rows
        BY <1>10, <2>2 DEF InsertRow
      <3>2. rows'[job.now] # None
        BY <1>1, <1>4, <1>5, <2>1, <2>2, <3>1 DEF At
      <3> QED
        BY <1>4, <1>7, <2>1, <3>1, <3>2
    <2>3. CASE ~job.known /\ rows[job.now] # None
      BY <1>6, <1>10, <2>1, <2>3 DEF InsertRow
    <2>4. CASE ~job.known /\ rows[job.now] = None
      <3>1. rows' = [rows EXCEPT ![job.now] = Says(job.mode)] /\ Advance
        BY <1>10, <2>4 DEF InsertRow
      <3> QED
        BY <1>7, <1>8, <2>1, <3>1
    <2> QED
      BY <2>2, <2>3, <2>4
  <1>11. CASE InsertLedger
    <2>1. At("ledger") /\ Advance /\ rows' = rows /\ ledger' = ledger \cup {job.now}
      BY <1>11 DEF InsertLedger
    <2>2. \A m \in ledger' : rows'[m] # None
      BY <1>1, <1>4, <2>1 DEF InStep
    <2> QED
      BY <1>7, <2>1, <2>2
  <1>12. CASE Update
    <2>1. At("update") /\ Advance /\ ledger' = ledger
      BY <1>12 DEF Update
    <2>2. rows' = [rows EXCEPT ![job.now] = Says(job.mode)] \/ rows' = rows
      BY <1>12 DEF Update
    <2>3. \A m \in ledger' : rows'[m] # None
      BY <1>4, <1>8, <2>1, <2>2
    <2> QED
      BY <1>7, <2>1, <2>3
  <1> QED
    BY <1>9, <1>10, <1>11, <1>12

\* The author's image is written and named, or not.
LEMMA AuthorStep ==
    ASSUME Typed, InStep, AuthorImage \/ NameAuthorImage PROVE InStep'
  <1>1. job \in ImportJobs /\ UNCHANGED <<rows, ledger>>
    BY Shape DEF AuthorImage, NameAuthorImage, At, imported
  <1>2. CASE job' = [job EXCEPT !.file = NewFile]
    <2>1. /\ job'.mode = job.mode /\ job'.now = job.now /\ job'.known = job.known
          /\ job'.at = job.at /\ job'.pc = job.pc
      BY <1>1, <1>2 DEF ImportJobs
    <2> QED
      BY <1>1, <2>1, SameStep
  <1>3. CASE AuthorDone /\ job.at = "users"
    <2>1. job'.at = "next"
      BY <1>1, <1>3 DEF AuthorDone, ImportJobs
    <2> QED
      BY <2>1 DEF InStep
  <1>4. CASE AuthorDone /\ At("author")
    <2>1. job' \in ImportJobs
      BY <1>1, <1>4, AuthorDoneJob
    <2>2. /\ job'.mode = job.mode /\ job'.now = job.now /\ job'.known = job.known
          /\ job'.at = "work" /\ job'.pc = job.pc + 1
      BY <1>1, <1>4 DEF AuthorDone, At, ImportJobs
    <2>3. /\ job.mode \in Modes /\ job.pc \in 1..Len(Steps(job.mode))
          /\ Steps(job.mode)[job.pc] = "author"
      BY <1>1, <1>4 DEF InStep, At, ImportJobs
    <2>4. job.pc < Len(Steps(job.mode))
      BY <2>3, StepOrder
    <2> QED
      BY <1>1, <1>4, <2>1, <2>2, <2>4, NextStep
  <1> QED
    BY <1>2, <1>3, <1>4 DEF AuthorImage, NameAuthorImage

\* The preview is followed by the embeds of the JSON, or by the next message.
LEMMA PreviewStep ==
    ASSUME Typed, InStep, At("preview"), PreviewDone, UNCHANGED <<rows, ledger>>
    PROVE  InStep'
  <1>1. job \in ImportJobs /\ At("preview") /\ job.at = "work" /\ UNCHANGED <<rows, ledger>>
    BY Shape DEF At
  <1>2. CASE job.mode # "json"
    <2>1. job'.at = "next"
      BY <1>1, <1>2 DEF PreviewDone, ImportJobs
    <2> QED
      BY <2>1 DEF InStep
  <1>3. CASE job.mode = "json"
    <2>1. job' \in ImportJobs
      BY <1>1, PreviewJob
    <2>2. /\ job'.mode = job.mode /\ job'.now = job.now /\ job'.known = job.known
          /\ job'.at = "work" /\ job'.pc = job.pc + 1
      BY <1>1, <1>3 DEF PreviewDone, ImportJobs
    <2>3. /\ job.mode \in Modes /\ job.pc \in 1..Len(Steps(job.mode))
          /\ Steps(job.mode)[job.pc] = "preview"
      BY <1>1 DEF InStep, At, ImportJobs
    <2>4. job.pc < Len(Steps(job.mode))
      BY <1>3, <2>3, StepOrder
    <2> QED
      BY <1>1, <2>1, <2>2, <2>4, NextStep
  <1> QED
    BY <1>2, <1>3

\* The importer takes, drops or enters an attachment, and stays at its step.
LEMMA HoldStep ==
    ASSUME Typed, InStep,
           \/ \E x \in Files : FetchFile(x)
           \/ InsertAttachment \/ LedgerAttachment
           \/ PreviewImage /\ job' = [job EXCEPT !.file = NewFile]
    PROVE  InStep'
  <1>1. job \in ImportJobs /\ UNCHANGED <<rows, ledger>>
    BY Shape DEF FetchFile, InsertAttachment, LedgerAttachment, PreviewImage,
       At, imported
  <1>2. /\ job'.mode = job.mode /\ job'.now = job.now /\ job'.known = job.known
        /\ job'.at = job.at /\ job'.pc = job.pc
    <2>1. \/ job' = job
          \/ \E f : job' = [job EXCEPT !.file = f]
          \/ \E x, f : job' = [job EXCEPT !.x = x, !.file = f]
          \/ \E T, x, f : job' = [job EXCEPT !.tried = T, !.x = x, !.file = f]
          \/ \E T : job' = [job EXCEPT !.tried = T]
          \/ \E T, K, x, f : job' = [job EXCEPT !.tried = T, !.skipped = K, !.x = x, !.file = f]
      <3>1. ASSUME NEW x \in Files, FetchFile(x)
            PROVE  \/ PassOver(x) \/ Skip(x)
                   \/ \E f : job' = [job EXCEPT !.x = x, !.file = f]
        BY <3>1 DEF FetchFile
      <3>2. CASE InsertAttachment
        BY <3>2 DEF InsertAttachment, Skip
      <3>3. CASE LedgerAttachment
        <4>1. CASE job' = [job EXCEPT !.tried = @ \cup {job.x}, !.x = None, !.file = None]
          <5>1. PICK T : job' = [job EXCEPT !.tried = T, !.x = None, !.file = None]
            BY <4>1
          <5> QED
            BY <5>1
        <4>2. CASE Skip(job.x)
          BY <4>2 DEF Skip
        <4> QED
          BY <3>3, <4>1, <4>2 DEF LedgerAttachment
      <3>4. CASE job' = [job EXCEPT !.file = NewFile]
        BY <3>4
      <3> QED
        BY <3>1, <3>2, <3>3, <3>4 DEF PassOver, Skip
    <2> QED
      BY <1>1, <2>1 DEF ImportJobs
  <1> QED
    BY <1>1, <1>2, SameStep

\* A new row is the one in hand.
LEMMA InsertAttachmentLedger ==
    ASSUME Typed, FilesInv, LedgerInv, InsertAttachment PROVE Ledgered' /\ Entered'
  <1>1. /\ job \in ImportJobs /\ job.mode \in Modes /\ job.now \in Sources
        /\ job.x \in FilesOf[job.now] /\ job.x \in Files /\ ~InRow /\ At("files")
        /\ UNCHANGED <<rows, ledger, fileLedger, torn>>
    BY Shape, MediaStoreAssumption
       DEF InsertAttachment, At, ImportJobs, Typed, FilesInv, InHand, imported
  <1>2. CASE /\ media' = media \cup {[file |-> job.file, source |-> job.x, of |-> job.now]}
             /\ job' = job
    <2>1. PICK row : /\ row.file = job.file /\ row.source = job.x /\ row.of = job.now
                     /\ media' = media \cup {row}
      BY <1>2
    <2>2. Ledgered'
      BY <1>1, <2>1 DEF LedgerInv, Ledgered
    <2>3. At("files")'
      BY <1>1, <1>2 DEF At
    <2>4. Entered'
      BY <1>1, <1>2, <2>1, <2>3 DEF LedgerInv, Entered, InRow
    <2> QED
      BY <2>2, <2>4
  <1>3. CASE media' = media
    BY <1>1, <1>3, SameAttachments DEF LedgerInv, Ledgered
  <1> QED
    BY <1>2, <1>3 DEF InsertAttachment

\* The row in hand is entered in the ledger, or torn.
LEMMA LedgerAttachmentLedger ==
    ASSUME Typed, FilesInv, LedgerInv, LedgerAttachment PROVE Ledgered' /\ Entered'
  <1>1. /\ job \in ImportJobs /\ job.mode \in Modes /\ job.now \in Sources
        /\ job.x \in Files /\ InRow /\ At("files") /\ fileLedger[job.x] = None
        /\ \A a \in media : a.file = job.file => a.source = job.x
        /\ UNCHANGED <<rows, ledger, media>>
    BY Shape, MediaStoreAssumption
       DEF LedgerAttachment, At, ImportJobs, Typed, FilesInv, InHand, imported
  <1>2. \A a \in media : a.file # None
    BY MediaStoreAssumption DEF Typed, Attachments
  <1>3. CASE fileLedger' = [fileLedger EXCEPT ![job.x] = job.file] /\ torn' = torn
    <2>1. /\ fileLedger'[job.x] = job.file
          /\ \A x \in Files \ {job.x} : fileLedger'[x] = fileLedger[x]
      BY <1>1, <1>3 DEF Typed
    <2>2. Ledgered'
      BY <1>1, <2>1 DEF LedgerInv, Ledgered, InRow
    <2>3. Entered'
      BY <1>1, <1>2, <1>3, <2>1 DEF LedgerInv, Entered
    <2> QED
      BY <2>2, <2>3
  <1>4. CASE fileLedger' = fileLedger /\ torn' = torn \cup {job.x}
    BY <1>1, <1>4 DEF LedgerInv, Ledgered, Entered
  <1> QED
    BY <1>3, <1>4 DEF LedgerAttachment, Leave

\* The ledger goes with the messages it names, and with their attachments; what
\* stays is another message's.
LEMMA DeleteImportedLedger ==
    ASSUME Typed, FilesInv, LedgerInv, DeleteImported PROVE Ledgered' /\ Entered'
  <1>1. job \in ReplaceJobs /\ job.mode \notin Modes
    BY Shape DEF DeleteImported, ReplaceJobs, Modes
  <1>2. /\ ledger' = {} /\ media' = media \ Owned
        /\ \A x \in Files : fileLedger'[x] = IF \E a \in Owned : a.file = fileLedger[x]
                                             THEN None ELSE fileLedger[x]
        /\ torn' = torn \ {x \in Files : \E m \in ledger : x \in FilesOf[m]}
    BY DEF DeleteImported
  <1>3. Ledgered'
    BY <1>2 DEF LedgerInv, Ledgered
  <1>4. ASSUME NEW a \in media', a.source \in Files \ torn'
        PROVE  fileLedger'[a.source] = a.file
    <2>1. a \in media /\ a.of \in Sources /\ a.source \in FilesOf[a.of] /\ a.of \notin ledger
      BY <1>2, <1>4 DEF LedgerInv, Ledgered, Owned
    <2>2. a.source \notin torn
      <3>1. \A m, n \in Sources : m # n => FilesOf[m] \cap FilesOf[n] = {}
        BY MediaStoreAssumption
      <3>2. \A m \in ledger : a.source \notin FilesOf[m]
        BY <2>1, <3>1 DEF Typed
      <3> QED
        BY <1>2, <1>4, <3>2
    <2>3. fileLedger[a.source] = a.file
      BY <1>1, <1>4, <2>1, <2>2 DEF LedgerInv, Entered
    <2>4. ~ \E b \in Owned : b.file = a.file
      BY <2>1 DEF FilesInv, Distinct, Owned
    <2> QED
      BY <1>2, <1>4, <2>3, <2>4
  <1> QED
    BY <1>3, <1>4 DEF Entered

\* The row in hand is torn.
LEMMA InterruptLedger ==
    ASSUME Typed, FilesInv, LedgerInv, Interrupt PROVE Ledgered' /\ Entered'
  <1>1. torn \subseteq torn' /\ UNCHANGED <<rows, ledger, media, fileLedger>>
    BY DEF Interrupt, imported
  <1>2. ASSUME NEW a \in media, a.source \in Files \ torn' PROVE fileLedger[a.source] = a.file
    <2>1. SUFFICES ASSUME job.mode \in Modes, At("files"), job.file = a.file PROVE FALSE
      BY <1>1, <1>2 DEF LedgerInv, Entered
    <2>2. InRow /\ job.file # None /\ job.mode # "replace"
      BY <2>1, MediaStoreAssumption DEF InRow, Typed, Attachments, Modes
    <2>3. a.source = job.x
      BY <2>1, <2>2 DEF FilesInv, InHand
    <2>4. job.x \in torn'
      BY <2>2 DEF Interrupt
    <2> QED
      BY <1>2, <2>3, <2>4
  <1> QED
    BY <1>1, <1>2 DEF LedgerInv, Ledgered, Entered

\* Nothing of the importer changes; an attachment that is uploaded has no source.
LEMMA UploadLedger ==
    ASSUME Typed, LedgerInv, UNCHANGED <<rows, ledger, fileLedger, job>>, torn \subseteq torn',
           \/ media' = media
           \/ \E f : media' = media \cup {[file |-> f, source |-> None, of |-> None]}
    PROVE  LedgerInv'
  <1>1. InStep'
    BY DEF LedgerInv, InStep, At
  <1>2. media \subseteq media' /\ \A a \in media' : a \in media \/ a.source = None
    OBVIOUS
  <1>3. Ledgered' /\ Entered'
    BY <1>2, MediaStoreAssumption DEF LedgerInv, Ledgered, Entered, At
  <1> QED
    BY <1>1, <1>3 DEF LedgerInv

\* Before and after the work on a message.
LEMMA OtherLedger ==
    ASSUME Typed, LedgerInv, UNCHANGED <<rows, ledger, media, fileLedger>>,
           torn \subseteq torn', job.at # "work", job'.at # "work"
    PROVE  LedgerInv'
  <1>1. InStep'
    BY DEF InStep
  <1>2. Ledgered' /\ Entered'
    BY SameAttachments DEF LedgerInv, Ledgered, At
  <1> QED
    BY <1>1, <1>2 DEF LedgerInv

\* Every step keeps the ledgers.
LEMMA LedgerStep ==
    ASSUME Typed, FilesInv, LedgerInv, [Next]_vars PROVE LedgerInv'
  <1> InStep /\ Ledgered /\ Entered /\ InHand
    BY DEF LedgerInv, FilesInv
  <1>1. CASE Run
    <2>1. job.at # "work" /\ job'.at # "work"
      BY <1>1, RunJob, Shape DEF Run, ReplaceJobs
    <2> QED
      BY <1>1, <2>1, OtherLedger DEF Run, imported
  <1>2. CASE \/ NextMessage \/ Look \/ Insert \/ InsertRow \/ InsertLedger \/ Update
             \/ FilesDone \/ ClearEmbeds \/ InsertEmbed
    <2>1. InStep' /\ \A m \in ledger' : rows'[m] # None
      <3>1. CASE NextMessage
        BY <3>1, BeginStep DEF NextMessage, imported, Ledgered
      <3>2. CASE Look
        BY <3>2, LookStep DEF Look, imported, Ledgered
      <3>3. CASE Insert \/ InsertRow \/ InsertLedger \/ Update
        BY <3>3, InsertStep
      <3>4. CASE FilesDone \/ ClearEmbeds
        <4>1. At("files") \/ At("clear")
          BY <3>4 DEF FilesDone, ClearEmbeds
        <4> QED
          BY <3>4, <4>1, AdvanceStep DEF FilesDone, ClearEmbeds, imported,
             Ledgered
      <3>5. CASE InsertEmbed /\ Advance
        BY <3>5, AdvanceStep DEF InsertEmbed, Ledgered
      <3>6. CASE InsertEmbed /\ job' = job
        BY <3>6, SameStep DEF InsertEmbed, Ledgered
      <3> QED
        BY <1>2, <3>1, <3>2, <3>3, <3>4, <3>5, <3>6 DEF InsertEmbed
    <2>2. UNCHANGED <<media, fileLedger, torn>>
      BY <1>2 DEF NextMessage, Look, Insert, InsertRow, InsertLedger, Update,
         FilesDone, ClearEmbeds, InsertEmbed
    <2>3. job.mode \in Modes => job.file = None
      BY <1>2, IdleSteps, MediaStoreAssumption DEF Idle, Rest, ReplaceJobs,
         Modes, Kinds
    <2> QED
      BY <2>1, <2>2, <2>3, EmptyHand, SameAttachments DEF LedgerInv
  <1>3. CASE AuthorImage \/ NameAuthorImage \/ PreviewImage \/ UpsertPreview
    <2>1. InStep'
      <3>1. CASE PreviewImage /\ PreviewDone
        BY <3>1, PreviewStep DEF PreviewImage, imported
      <3>2. CASE UpsertPreview
        BY <3>2, PreviewStep DEF UpsertPreview
      <3> QED
        BY <1>3, <3>1, <3>2, AuthorStep, HoldStep DEF PreviewImage
    <2>2. /\ UNCHANGED <<rows, ledger, media, fileLedger>> /\ torn \subseteq torn'
          /\ ~At("files")
      BY <1>3 DEF AuthorImage, NameAuthorImage, PreviewImage, UpsertPreview,
         Leave, At, imported
    <2> QED
      BY <2>1, <2>2, SameAttachments DEF LedgerInv, Ledgered
  <1>4. CASE \E x \in Files : FetchFile(x)
    <2>1. InStep'
      BY <1>4, HoldStep
    <2>2. /\ UNCHANGED <<rows, ledger, media, fileLedger>> /\ torn \subseteq torn'
          /\ job.file = None
      BY <1>4 DEF FetchFile, Leave, imported
    <2> QED
      BY <2>1, <2>2, EmptyHand, SameAttachments DEF LedgerInv, Ledgered
  <1>5. CASE InsertAttachment \/ LedgerAttachment
    BY <1>5, HoldStep, InsertAttachmentLedger, LedgerAttachmentLedger DEF
       LedgerInv
  <1>6. CASE DeleteImported \/ Interrupt
    <2>1. job'.at # "work"
      BY <1>6, Shape DEF DeleteImported, Interrupt, Rest, ReplaceJobs
    <2> QED
      BY <1>6, <2>1, DeleteImportedLedger, InterruptLedger DEF LedgerInv, InStep
  <1>7. CASE ReadPaths \/ Unlink
    <2>1. job.at # "work" /\ job'.at # "work"
      <3>1. job.at # "work" /\ job \in ReplaceJobs
        BY <1>7, Shape DEF ReadPaths, Unlink
      <3>2. CASE ReadPaths
        BY <3>1, <3>2 DEF ReadPaths, ReplaceJobs
      <3>3. CASE Unlink /\ \E portion \in Portions : job' = Begin("live", portion)
        BY <3>1, <3>3 DEF Begin
      <3>4. CASE Unlink /\ \E path \in job.paths : job' = [job EXCEPT !.paths = @ \ {path}]
        BY <3>1, <3>4 DEF ReplaceJobs
      <3> QED
        BY <1>7, <3>1, <3>2, <3>3, <3>4 DEF Unlink
    <2> QED
      BY <1>7, <2>1, OtherLedger DEF ReadPaths, Unlink, imported
  <1>8. CASE UploadFile \/ UploadRow \/ Crash
    BY <1>8, UploadLedger DEF UploadFile, UploadRow, Crash, Leave, imported
  <1>9. CASE \/ \E q \in Requests :
                   OpenAvatar(q) \/ WriteAvatar(q) \/ NameAvatar(q) \/ AvatarFails(q)
             \/ UNCHANGED vars
    BY <1>9, UploadLedger
       DEF OpenAvatar, WriteAvatar, NameAvatar, AvatarFails, vars, imported
  <1> QED
    BY <1>1, <1>2, <1>3, <1>4, <1>5, <1>6, <1>7, <1>8, <1>9 DEF Next, Import

-----------------------------------------------------------------------------
(* The runs. *)

\* The importer has done this for its message.
Past(step) == \E i \in 1..job.pc - 1 : Steps(job.mode)[i] = step

\* An attachment of its message is there, and in the ledger.
Imported(x) == \E a \in media : a.source = x /\ a.of = job.now /\ a.file = fileLedger[x]

\* A message's row is in the ledger, torn from it, or about to be entered.
Claimed ==
    \A m \in Sources : rows[m] # None =>
        m \in ledger \cup torn \/ (At("ledger") /\ job.now = m)

\* The ledger names a file of the attachment itself.
Named ==
    \A x \in Files : fileLedger[x] # None =>
        \E a \in media : a.file = fileLedger[x] /\ a.source = x

\* The messages the run is done with are whole.
Finished == job.mode \in Modes => \A m \in job.asked \ job.todo : Whole(m)

\* What the steps behind it have made of the message at work.
Begun ==
    job.at = "work" =>
        /\ job.now \in job.todo
        /\ Past("insert") \/ Past("ledger") => job.now \in ledger
        /\ Past("look") /\ ~job.known => job.now \notin ledger \/ Past("insert") \/ Past("ledger")
        /\ job.known /\ Past("update") => rows[job.now] = Says(job.mode)
        /\ ~job.known /\ (Past("insert") \/ Past("row")) => rows[job.now] = Says(job.mode)
        /\ \A x \in (FilesOf[job.now] \cap job.tried) \ job.skipped : Imported(x)
        /\ Past("files") => FilesOf[job.now] \subseteq job.tried

\* A run ends when nothing is left to do, or at a torn message.
Stopped ==
    /\ job.at = "done" => job.todo = {}
    /\ job.at = "failed" => job.now \in torn

RunInv == Claimed /\ Named /\ Finished /\ Begun /\ Stopped

\* Where the steps stand: the look comes first, a row only once and before the
\* files, and a message ends with its preview or with the embeds of the JSON.
LEMMA PastOrder ==
    ASSUME NEW mode \in Modes, NEW n \in 1..Len(Steps(mode))
    PROVE  LET done(s) == \E i \in 1..n - 1 : Steps(mode)[i] = s
           IN  /\ Steps(mode)[n] \in {"insert", "row"} =>
                     done("look") /\ ~done("insert") /\ ~done("ledger")
               /\ n = 2 => \A s : done(s) <=> s = "look"
               /\ mode # "json" /\ Steps(mode)[n] = "preview" => n = Len(Steps(mode))
               /\ n = Len(Steps(mode)) =>
                     /\ done("update") /\ done("files")
                     /\ done("insert") \/ done("ledger")
                     /\ done("insert") \/ done("row")
                     /\ Steps(mode)[n] = IF mode = "json" THEN "embeds" ELSE "preview"
  <1> DEFINE done(s) == \E i \in 1..n - 1 : Steps(mode)[i] = s
  <1>1. CASE mode = "har"
    <2>1. Steps(mode) = <<"look", "insert", "author", "update", "files", "preview">>
      BY <1>1 DEF Steps, HarSteps
    <2>2. Len(Steps(mode)) = 6 /\ n \in {1, 2, 3, 4, 5, 6}
      BY <2>1
    <2>3. /\ Steps(mode)[1] = "look"
          /\ Steps(mode)[2] = "insert"
          /\ Steps(mode)[3] = "author"
          /\ Steps(mode)[4] = "update"
          /\ Steps(mode)[5] = "files"
          /\ Steps(mode)[6] = "preview"
      BY <2>1
    <2>4. Steps(mode)[n] \in {"insert", "row"} =>
              done("look") /\ ~done("insert") /\ ~done("ledger")
      BY <2>2, <2>3
    <2>5. n = 2 => \A s : done(s) <=> s = "look"
      BY <2>2, <2>3
    <2>6. mode # "json" /\ Steps(mode)[n] = "preview" => n = Len(Steps(mode))
      BY <1>1, <2>2, <2>3
    <2>7. n = Len(Steps(mode)) =>
              /\ done("update") /\ done("files")
              /\ done("insert") \/ done("ledger")
              /\ done("insert") \/ done("row")
              /\ Steps(mode)[n] = IF mode = "json" THEN "embeds" ELSE "preview"
      BY <1>1, <2>2, <2>3
    <2> QED
      BY <2>4, <2>5, <2>6, <2>7
  <1>2. CASE mode = "live"
    <2>1. Steps(mode) = <<"look", "author", "update", "row", "ledger", "files", "preview">>
      BY <1>2 DEF Steps, LiveSteps
    <2>2. Len(Steps(mode)) = 7 /\ n \in {1, 2, 3, 4, 5, 6, 7}
      BY <2>1
    <2>3. /\ Steps(mode)[1] = "look"
          /\ Steps(mode)[2] = "author"
          /\ Steps(mode)[3] = "update"
          /\ Steps(mode)[4] = "row"
          /\ Steps(mode)[5] = "ledger"
          /\ Steps(mode)[6] = "files"
          /\ Steps(mode)[7] = "preview"
      BY <2>1
    <2>4. Steps(mode)[n] \in {"insert", "row"} =>
              done("look") /\ ~done("insert") /\ ~done("ledger")
      BY <2>2, <2>3
    <2>5. n = 2 => \A s : done(s) <=> s = "look"
      BY <2>2, <2>3
    <2>6. mode # "json" /\ Steps(mode)[n] = "preview" => n = Len(Steps(mode))
      BY <1>2, <2>2, <2>3
    <2>7. n = Len(Steps(mode)) =>
              /\ done("update") /\ done("files")
              /\ done("insert") \/ done("ledger")
              /\ done("insert") \/ done("row")
              /\ Steps(mode)[n] = IF mode = "json" THEN "embeds" ELSE "preview"
      BY <1>2, <2>2, <2>3
    <2> QED
      BY <2>4, <2>5, <2>6, <2>7
  <1>3. CASE mode = "json"
    <2>1. Steps(mode) = <<"look", "update", "insert", "files", "preview", "clear", "embeds">>
      BY <1>3 DEF Steps, JsonSteps
    <2>2. Len(Steps(mode)) = 7 /\ n \in {1, 2, 3, 4, 5, 6, 7}
      BY <2>1
    <2>3. /\ Steps(mode)[1] = "look"
          /\ Steps(mode)[2] = "update"
          /\ Steps(mode)[3] = "insert"
          /\ Steps(mode)[4] = "files"
          /\ Steps(mode)[5] = "preview"
          /\ Steps(mode)[6] = "clear"
          /\ Steps(mode)[7] = "embeds"
      BY <2>1
    <2>4. Steps(mode)[n] \in {"insert", "row"} =>
              done("look") /\ ~done("insert") /\ ~done("ledger")
      BY <2>2, <2>3
    <2>5. n = 2 => \A s : done(s) <=> s = "look"
      BY <2>2, <2>3
    <2>6. mode # "json" /\ Steps(mode)[n] = "preview" => n = Len(Steps(mode))
      BY <1>3, <2>2, <2>3
    <2>7. n = Len(Steps(mode)) =>
              /\ done("update") /\ done("files")
              /\ done("insert") \/ done("ledger")
              /\ done("insert") \/ done("row")
              /\ Steps(mode)[n] = IF mode = "json" THEN "embeds" ELSE "preview"
      BY <1>3, <2>2, <2>3
    <2> QED
      BY <2>4, <2>5, <2>6, <2>7
  <1> QED
    BY <1>1, <1>2, <1>3 DEF Modes

\* The same of the importer at work.
LEMMA AtOrder ==
    ASSUME Typed, InStep, job.at = "work"
    PROVE  /\ job \in ImportJobs /\ job.mode \in Modes /\ job.now \in Sources
           /\ job.pc \in 1..Len(Steps(job.mode)) /\ job.pc \in Nat
           /\ At("insert") \/ At("row") => Past("look") /\ ~Past("insert") /\ ~Past("ledger")
           /\ job.mode # "json" /\ At("preview") => job.pc = Len(Steps(job.mode))
           /\ job.pc = Len(Steps(job.mode)) =>
                 /\ Past("update") /\ Past("files")
                 /\ Past("insert") \/ Past("ledger")
                 /\ Past("insert") \/ Past("row")
                 /\ IF job.mode = "json" THEN At("embeds") ELSE At("preview")
           /\ \A s, t : At(s) /\ At(t) => s = t
  <1>1. /\ job \in ImportJobs /\ job.mode \in Modes /\ job.now \in Sources
        /\ job.pc \in 1..Len(Steps(job.mode)) /\ job.pc \in Nat
    BY Shape DEF Typed, InStep, ImportJobs
  <1>2. At("insert") \/ At("row") => Past("look") /\ ~Past("insert") /\ ~Past("ledger")
    BY <1>1, PastOrder DEF At, Past
  <1>3. job.mode # "json" /\ At("preview") => job.pc = Len(Steps(job.mode))
    BY <1>1, PastOrder DEF At
  <1>4. ASSUME job.pc = Len(Steps(job.mode))
        PROVE  /\ Past("update") /\ Past("files")
               /\ Past("insert") \/ Past("ledger")
               /\ Past("insert") \/ Past("row")
               /\ IF job.mode = "json" THEN At("embeds") ELSE At("preview")
    <2>1. /\ Past("update") /\ Past("files")
          /\ Past("insert") \/ Past("ledger")
          /\ Past("insert") \/ Past("row")
      BY <1>1, <1>4, PastOrder DEF Past
    <2>2. Steps(job.mode)[job.pc] = IF job.mode = "json" THEN "embeds" ELSE "preview"
      BY <1>1, <1>4, PastOrder
    <2>3. CASE job.mode = "json"
      BY <2>1, <2>2, <2>3 DEF At
    <2>4. CASE job.mode # "json"
      BY <2>1, <2>2, <2>4 DEF At
    <2> QED
      BY <2>3, <2>4
  <1>5. \A s, t : At(s) /\ At(t) => s = t
    BY DEF At
  <1> QED
    BY <1>1, <1>2, <1>3, <1>4, <1>5

\* A step that is done is past.
LEMMA PastGrows ==
    ASSUME Typed, InStep, job.at = "work", job'.mode = job.mode, job'.pc = job.pc + 1
    PROVE  \A s : Past(s)' <=> Past(s) \/ At(s)
  <1>1. job.pc \in Nat /\ job.pc >= 1
    BY AtOrder
  <1>2. 1..job'.pc - 1 = (1..job.pc - 1) \cup {job.pc}
    BY <1>1
  <1> QED
    BY <1>2 DEF Past, At

\* What an import adds leaves the rest whole.
Adds ==
    /\ job'.mode = job.mode /\ job.skipped \subseteq job'.skipped
    /\ ledger \subseteq ledger' /\ media \subseteq media'
    /\ \A x \in Files : fileLedger[x] # None => fileLedger'[x] = fileLedger[x]
    /\ \A m \in Sources : m # job.now => rows'[m] = rows[m] /\ embeds'[m] = embeds[m]

\* An attachment that was imported stays so.
LEMMA ImportedStays ==
    ASSUME Typed, Adds, job'.now = job.now, NEW x \in Files, Imported(x)
    PROVE  Imported(x)'
  <1>1. \A a \in media : a.file # None
    BY MediaStoreAssumption DEF Typed, Attachments
  <1> QED
    BY <1>1 DEF Adds, Imported

\* A message that the run is done with stays whole.
LEMMA WholeStays ==
    ASSUME Typed, Adds, NEW m \in Sources, m # job.now, Whole(m) PROVE Whole(m)'
  <1>1. \A a \in media : a.file # None
    BY MediaStoreAssumption DEF Typed, Attachments
  <1>2. \A x \in FilesOf[m] : x \in Files
    BY MediaStoreAssumption
  <1>3. m \in ledger' /\ rows'[m] = Says(job'.mode)
    BY DEF Adds, Whole
  <1>4. ASSUME NEW x \in FilesOf[m] \ job'.skipped
        PROVE  \E a \in media' : a.source = x /\ a.of = m /\ a.file = fileLedger'[x]
    BY <1>1, <1>2, <1>4 DEF Adds, Whole
  <1>5. job'.mode = "json" => embeds'[m] = EmbedsOf[m]
    BY DEF Adds, Whole
  <1> QED
    BY <1>3, <1>4, <1>5 DEF Whole

\* So what a run is done with stays finished, while no more is.
LEMMA FinishedStays ==
    ASSUME Typed, Finished, Adds, job \in ImportJobs, job'.todo = job.todo,
           job'.asked = job.asked, job.now \in job.todo \/ UNCHANGED <<rows, embeds>>
    PROVE  Finished'
  <1>1. ASSUME NEW m \in job'.asked \ job'.todo, job'.mode \in Modes PROVE Whole(m)'
    <2>1. Whole(m) /\ m \in Sources
      <3>1. job.asked \subseteq Sources /\ m \in job.asked \ job.todo
        BY <1>1 DEF ImportJobs
      <3>2. job.mode \in Modes
        BY <1>1 DEF Adds
      <3>3. Whole(m)
        BY <3>1, <3>2 DEF Finished
      <3> QED
        BY <3>1, <3>3
    <2>2. CASE m # job.now
      BY <2>1, <2>2, WholeStays
    <2>3. CASE m = job.now
      <3>1. \A a \in media : a.file # None
        BY MediaStoreAssumption DEF Typed, Attachments
      <3>2. \A x \in FilesOf[m] : x \in Files
        BY <2>1, MediaStoreAssumption
      <3>3. UNCHANGED <<rows, embeds>>
        BY <1>1, <2>3
      <3> QED
        BY <2>1, <3>1, <3>2, <3>3 DEF Whole, Adds
    <2> QED
      BY <2>2, <2>3
  <1> QED
    BY <1>1 DEF Finished

\* The importer is done with a step, and goes to the next or to the next message.
LEMMA MovesOn ==
    ASSUME Typed, InStep, RunInv, Adds, job.at = "work", ~At("look"),
           job'.now = job.now, job'.known = job.known,
           job'.tried = job.tried, job'.skipped = job.skipped,
           \/ /\ job'.at = "work" /\ job'.pc = job.pc + 1
              /\ job'.todo = job.todo /\ job'.asked = job.asked
           \/ /\ job'.at = "next" /\ job.pc = Len(Steps(job.mode))
              /\ job'.todo = job.todo \ {job.now} /\ job'.asked = job.asked,
           At("insert") \/ At("ledger") => job.now \in ledger',
           ~job.known /\ ~At("insert") /\ ~At("ledger") /\ job.now \in ledger'
              => job.now \in ledger,
           job.known /\ (Past("update") \/ At("update")) => rows'[job.now] = Says(job.mode),
           ~job.known /\ (Past("insert") \/ Past("row") \/ At("insert") \/ At("row"))
              => rows'[job.now] = Says(job.mode),
           At("files") => FilesOf[job.now] \subseteq job.tried,
           At("embeds") => embeds'[job.now] = EmbedsOf[job.now]
    PROVE  Finished' /\ Begun' /\ Stopped'
  <1>1. /\ job \in ImportJobs /\ job.now \in Sources /\ job.now \in job.todo
        /\ FilesOf[job.now] \subseteq Files
        /\ Begun /\ Finished
    BY AtOrder, MediaStoreAssumption DEF RunInv, Begun
  <1>2. ASSUME NEW x \in (FilesOf[job.now] \cap job.tried) \ job.skipped PROVE Imported(x)'
    <2>1. Imported(x) /\ x \in Files
      BY <1>1, <1>2 DEF Begun
    <2> QED
      BY <2>1, ImportedStays
  <1>3. CASE /\ job'.at = "work" /\ job'.pc = job.pc + 1
             /\ job'.todo = job.todo /\ job'.asked = job.asked
    <2>1. \A s : Past(s)' <=> Past(s) \/ At(s)
      BY <1>3, PastGrows DEF Adds
    <2>2. Finished'
      BY <1>1, <1>3, FinishedStays
    <2>3. Past("insert")' \/ Past("ledger")' => job'.now \in ledger'
      BY <1>1, <2>1 DEF Begun, Adds
    <2>4. Past("look")' /\ ~job'.known =>
              job'.now \notin ledger' \/ Past("insert")' \/ Past("ledger")'
      BY <1>1, <2>1 DEF Begun
    <2>5. /\ job'.known /\ Past("update")' => rows'[job'.now] = Says(job'.mode)
          /\ ~job'.known /\ (Past("insert")' \/ Past("row")')
                => rows'[job'.now] = Says(job'.mode)
      BY <2>1 DEF Adds
    <2>6. Past("files")' => FilesOf[job'.now] \subseteq job'.tried
      BY <1>1, <2>1 DEF Begun
    <2>7. \A x \in (FilesOf[job'.now] \cap job'.tried) \ job'.skipped : Imported(x)'
      BY <1>2
    <2>8. Begun'
      BY <1>1, <1>3, <2>3, <2>4, <2>5, <2>6, <2>7 DEF Begun
    <2> QED
      BY <1>3, <2>2, <2>8 DEF Stopped
  <1>4. CASE /\ job'.at = "next" /\ job.pc = Len(Steps(job.mode))
             /\ job'.todo = job.todo \ {job.now} /\ job'.asked = job.asked
    <2>1. /\ Past("update") /\ Past("files")
          /\ Past("insert") \/ Past("ledger")
          /\ Past("insert") \/ Past("row")
          /\ job.mode = "json" => At("embeds")
      BY <1>4, AtOrder
    <2>2. job.now \in ledger' /\ rows'[job.now] = Says(job'.mode)
      BY <1>1, <2>1 DEF Begun, Adds
    <2>3. ASSUME NEW x \in FilesOf[job.now] \ job'.skipped
          PROVE  \E a \in media' : a.source = x /\ a.of = job.now /\ a.file = fileLedger'[x]
      <3>1. x \in job.tried
        BY <1>1, <2>1, <2>3 DEF Begun
      <3>2. Imported(x)'
        BY <1>2, <2>3, <3>1
      <3> QED
        BY <3>2 DEF Imported
    <2>4. job'.mode = "json" => embeds'[job.now] = EmbedsOf[job.now]
      BY <2>1 DEF Adds
    <2>5. Whole(job.now)'
      BY <2>2, <2>3, <2>4 DEF Whole
    <2>6. ASSUME NEW m \in job'.asked \ job'.todo, job'.mode \in Modes PROVE Whole(m)'
      <3>1. CASE m = job.now
        BY <2>5, <3>1
      <3>2. CASE m # job.now
        <4>1. Whole(m) /\ m \in Sources
          BY <1>1, <1>4, <2>6, <3>2 DEF Finished, Adds, ImportJobs
        <4> QED
          BY <3>2, <4>1, WholeStays
      <3> QED
        BY <3>1, <3>2
    <2>7. Finished'
      BY <2>6 DEF Finished
    <2> QED
      BY <1>4, <2>7 DEF Begun, Stopped
  <1> QED
    BY <1>3, <1>4

\* The importer stays at a step, with the row of its message as it was.
LEMMA StaysOn ==
    ASSUME Typed, InStep, RunInv, Adds, job.at = "work", UNCHANGED <<rows, ledger>>,
           job'.at = "work", job'.pc = job.pc, job'.todo = job.todo /\ job'.asked = job.asked,
           job'.now = job.now, job'.known = job.known, job.tried \subseteq job'.tried,
           \A x \in (FilesOf[job.now] \cap job'.tried) \ job'.skipped :
              x \in job.tried \/ Imported(x)'
    PROVE  Finished' /\ Begun' /\ Stopped'
  <1>1. /\ job \in ImportJobs /\ job.now \in Sources /\ job.now \in job.todo
        /\ FilesOf[job.now] \subseteq Files
        /\ Begun /\ Finished
    BY AtOrder, MediaStoreAssumption DEF RunInv, Begun
  <1>2. ASSUME NEW x \in (FilesOf[job.now] \cap job'.tried) \ job'.skipped PROVE Imported(x)'
    <2>1. CASE x \in job.tried
      <3>1. Imported(x) /\ x \in Files
        BY <1>1, <1>2, <2>1 DEF Begun, Adds
      <3> QED
        BY <3>1, ImportedStays
    <2> QED
      BY <1>2, <2>1
  <1>3. \A s : Past(s)' <=> Past(s)
    BY DEF Past, Adds
  <1>4. Finished'
    BY <1>1, FinishedStays
  <1>5. Begun'
    BY <1>1, <1>2, <1>3 DEF Begun, Adds
  <1> QED
    BY <1>4, <1>5 DEF Stopped

\* A live row is followed by its entry in the ledger.
LEMMA RowThenLedger ==
    ASSUME Typed, InStep, At("row"), Advance PROVE At("ledger")'
  <1>1. job \in ImportJobs /\ job.at = "work"
    BY Shape DEF At
  <1>2. /\ job.mode \in Modes /\ job.pc \in 1..Len(Steps(job.mode)) /\ job.pc \in Nat
        /\ Steps(job.mode)[job.pc] = "row"
    BY <1>1 DEF InStep, At, ImportJobs
  <1>3. job.mode = "live" /\ job.pc = 4
    <2>1. CASE job.mode = "har"
      <3>1. Steps(job.mode) = <<"look", "insert", "author", "update", "files", "preview">>
        BY <2>1 DEF Steps, HarSteps
      <3>2. job.pc \in {1, 2, 3, 4, 5, 6}
        BY <1>2, <3>1
      <3> QED
        BY <1>2, <3>1, <3>2
    <2>2. CASE job.mode = "live"
      <3>1. Steps(job.mode) = <<"look", "author", "update", "row", "ledger", "files", "preview">>
        BY <2>2 DEF Steps, LiveSteps
      <3>2. job.pc \in {1, 2, 3, 4, 5, 6, 7}
        BY <1>2, <3>1
      <3> QED
        BY <1>2, <2>2, <3>1, <3>2
    <2>3. CASE job.mode = "json"
      <3>1. Steps(job.mode) = <<"look", "update", "insert", "files", "preview", "clear", "embeds">>
        BY <2>3 DEF Steps, JsonSteps
      <3>2. job.pc \in {1, 2, 3, 4, 5, 6, 7}
        BY <1>2, <3>1
      <3> QED
        BY <1>2, <3>1, <3>2
    <2> QED
      BY <1>2, <2>1, <2>2, <2>3 DEF Modes
  <1>4. Steps("live") = <<"look", "author", "update", "row", "ledger", "files", "preview">>
    BY DEF Steps, LiveSteps
  <1>5. job' = [job EXCEPT !.pc = @ + 1]
    <2>1. Len(Steps(job.mode)) = 7
      BY <1>3, <1>4
    <2> QED
      BY <1>3, <2>1 DEF Advance
  <1>6. job'.at = "work" /\ job'.mode = "live" /\ job'.pc = 5
    BY <1>1, <1>3, <1>5 DEF ImportJobs
  <1> QED
    BY <1>4, <1>6 DEF At

\* The rest of what Advance makes of an import.
LEMMA AdvanceRest ==
    ASSUME job \in ImportJobs, job.at = "work", Advance, InStep
    PROVE  /\ job'.mode = job.mode /\ job'.now = job.now /\ job'.known = job.known
           /\ job'.tried = job.tried /\ job'.skipped = job.skipped
           /\ \/ /\ job'.at = "work" /\ job'.pc = job.pc + 1
                 /\ job'.todo = job.todo /\ job'.asked = job.asked
              \/ /\ job'.at = "next" /\ job.pc = Len(Steps(job.mode))
                 /\ job'.todo = job.todo \ {job.now} /\ job'.asked = job.asked
  <1>1. CASE job.pc < Len(Steps(job.mode))
    <2>1. job' = [job EXCEPT !.pc = @ + 1]
      BY <1>1 DEF Advance
    <2> QED
      BY <1>1, <2>1 DEF ImportJobs
  <1>2. CASE ~(job.pc < Len(Steps(job.mode)))
    <2>1. job' = [job EXCEPT !.at = "next", !.todo = @ \ {job.now}]
      BY <1>2 DEF Advance
    <2>2. job.mode \in Modes /\ job.pc \in 1..Len(Steps(job.mode))
      BY DEF InStep, ImportJobs
    <2>3. Len(Steps(job.mode)) \in 1..7
      BY <2>2, StepOrder
    <2>4. job.pc = Len(Steps(job.mode))
      BY <1>2, <2>2, <2>3
    <2> QED
      BY <2>1, <2>4 DEF ImportJobs
  <1> QED
    BY <1>1, <1>2

\* A run that fails at an insertion has found a row that the ledger does not name.
LEMMA FailsTorn ==
    ASSUME Typed, LedgerInv, RunInv, At("insert") \/ At("row"), ~job.known,
           rows[job.now] # None, Fail, UNCHANGED <<imported, media, fileLedger, torn>>
    PROVE  RunInv'
  <1>1. /\ InStep /\ Claimed /\ Named /\ Finished /\ Begun /\ job.at = "work"
    BY DEF LedgerInv, RunInv, At
  <1>2. /\ job \in ImportJobs /\ job.now \in Sources /\ job.now \in job.todo
        /\ Past("look") /\ ~Past("insert") /\ ~Past("ledger") /\ ~At("ledger")
    BY <1>1, AtOrder DEF Begun
  <1>3. job.now \notin ledger
    BY <1>1, <1>2 DEF Begun
  <1>4. job.now \in torn
    BY <1>1, <1>2, <1>3 DEF Claimed
  <1>5. /\ job'.at = "failed" /\ job'.now = job.now
        /\ job'.todo = job.todo /\ job'.asked = job.asked
        /\ job'.mode = job.mode /\ job'.skipped = job.skipped
    BY <1>2 DEF Fail, ImportJobs
  <1>6. Finished'
    BY <1>1, <1>2, <1>5, FinishedStays DEF Adds, imported
  <1>7. Claimed'
    BY <1>1, <1>2 DEF Claimed, imported
  <1>8. Named'
    BY <1>1 DEF Named
  <1> QED
    BY <1>4, <1>5, <1>6, <1>7, <1>8 DEF RunInv, Begun, Stopped, imported

\* Where neither rows nor ledgers change, what claims them does not either.
LEMMA ClaimsStay ==
    ASSUME Claimed, Named, UNCHANGED <<rows, ledger, fileLedger>>, torn \subseteq torn',
           media \subseteq media', ~At("ledger")
    PROVE  Claimed' /\ Named'
  <1>1. Claimed'
    BY DEF Claimed
  <1>2. Named'
    BY DEF Named
  <1> QED
    BY <1>1, <1>2

\* A row is inserted with its entry in the ledger, or before it; or it is updated.
LEMMA InsertRun ==
    ASSUME Typed, LedgerInv, RunInv, Insert \/ InsertRow \/ InsertLedger \/ Update
    PROVE  RunInv'
  <1>1. /\ InStep /\ Claimed /\ Named /\ Finished /\ Begun /\ job.at = "work"
        /\ UNCHANGED <<embeds, media, fileLedger, torn>>
    BY DEF LedgerInv, RunInv, At, Insert, InsertRow, InsertLedger, Update
  <1>2. /\ job \in ImportJobs /\ job.mode \in Modes /\ job.now \in Sources
        /\ \A s, t : At(s) /\ At(t) => s = t
        /\ At("insert") \/ At("row") => ~Past("insert") /\ ~Past("ledger")
    BY <1>1, AtOrder
  <1>3. job.known /\ ~At("look") => job.now \in ledger
    BY <1>1 DEF InStep
  <1>4. rows \in [Sources -> {None, "old", "new"}]
    BY DEF Typed
  <1>5. Named'
    BY <1>1 DEF Named
  <1>6. ASSUME Adds, Advance, Claimed', ~At("look"), ~At("files"), ~At("embeds"),
               At("insert") \/ At("ledger") => job.now \in ledger',
               ~At("insert") /\ ~At("ledger") => ledger' = ledger,
               job.known /\ (Past("update") \/ At("update")) => rows'[job.now] = Says(job.mode),
               ~job.known /\ (Past("insert") \/ Past("row") \/ At("insert") \/ At("row"))
                  => rows'[job.now] = Says(job.mode)
        PROVE  RunInv'
    <2>1. /\ job'.mode = job.mode /\ job'.now = job.now /\ job'.known = job.known
          /\ job'.tried = job.tried /\ job'.skipped = job.skipped
          /\ \/ /\ job'.at = "work" /\ job'.pc = job.pc + 1
                /\ job'.todo = job.todo /\ job'.asked = job.asked
             \/ /\ job'.at = "next" /\ job.pc = Len(Steps(job.mode))
                /\ job'.todo = job.todo \ {job.now} /\ job'.asked = job.asked
      BY <1>1, <1>2, <1>6, AdvanceRest
    <2>2. Finished' /\ Begun' /\ Stopped'
      BY <1>1, <1>6, <2>1, MovesOn
    <2> QED
      BY <1>5, <1>6, <2>2 DEF RunInv
  <1>7. ASSUME rows' = [rows EXCEPT ![job.now] = Says(job.mode)]
        PROVE  /\ rows'[job.now] = Says(job.mode)
               /\ \A m \in Sources : m # job.now => rows'[m] = rows[m]
    BY <1>2, <1>4, <1>7
  <1>8. Advance => job'.mode = job.mode /\ job'.skipped = job.skipped
    BY <1>1, <1>2, AdvanceRest
  <1>9. CASE Insert
    <2>1. At("insert") /\ ~At("look") /\ ~At("files") /\ ~At("embeds") /\ ~At("ledger")
      BY <1>2, <1>9 DEF Insert
    <2>2. CASE job.known
      <3>1. Advance /\ UNCHANGED <<rows, ledger>>
        BY <1>9, <2>2 DEF Insert
      <3>2. Adds
        BY <1>1, <1>8, <3>1 DEF Adds
      <3>3. Claimed'
        BY <1>1, <2>1, <3>1 DEF Claimed
      <3>4. job.now \in ledger'
        BY <1>3, <2>1, <2>2, <3>1
      <3>5. job.known /\ (Past("update") \/ At("update")) => rows'[job.now] = Says(job.mode)
        BY <1>1, <1>2, <2>1, <3>1 DEF Begun
      <3> QED
        BY <1>6, <2>1, <2>2, <3>1, <3>2, <3>3, <3>4, <3>5
    <2>3. CASE ~job.known /\ rows[job.now] # None
      BY <1>1, <1>9, <2>1, <2>3, FailsTorn DEF Insert, imported
    <2>4. CASE ~job.known /\ rows[job.now] = None
      <3>1. /\ rows' = [rows EXCEPT ![job.now] = Says(job.mode)]
            /\ ledger' = ledger \cup {job.now} /\ Advance
        BY <1>9, <2>4 DEF Insert
      <3>2. Adds
        BY <1>1, <1>7, <1>8, <3>1 DEF Adds
      <3>3. Claimed'
        BY <1>1, <1>7, <2>1, <3>1 DEF Claimed
      <3> QED
        BY <1>6, <1>7, <2>1, <2>4, <3>1, <3>2, <3>3
    <2> QED
      BY <2>2, <2>3, <2>4
  <1>10. CASE InsertRow
    <2>1. /\ At("row") /\ ~At("look") /\ ~At("files") /\ ~At("embeds") /\ ~At("ledger")
          /\ ~At("insert") /\ ~At("update") /\ ledger' = ledger
      BY <1>2, <1>10 DEF InsertRow
    <2>2. CASE job.known
      <3>1. Advance /\ rows' = rows
        BY <1>10, <2>2 DEF InsertRow
      <3>2. Adds
        BY <1>1, <1>8, <2>1, <3>1 DEF Adds
      <3>3. Claimed'
        BY <1>1, <2>1, <3>1 DEF Claimed
      <3>4. job.known /\ (Past("update") \/ At("update")) => rows'[job.now] = Says(job.mode)
        BY <1>1, <2>1, <3>1 DEF Begun
      <3> QED
        BY <1>6, <2>1, <2>2, <3>1, <3>2, <3>3, <3>4
    <2>3. CASE ~job.known /\ rows[job.now] # None
      BY <1>1, <1>10, <2>1, <2>3, FailsTorn DEF InsertRow, imported
    <2>4. CASE ~job.known /\ rows[job.now] = None
      <3>1. rows' = [rows EXCEPT ![job.now] = Says(job.mode)] /\ Advance
        BY <1>10, <2>4 DEF InsertRow
      <3>2. Adds
        BY <1>1, <1>7, <1>8, <2>1, <3>1 DEF Adds
      <3>3. At("ledger")' /\ job'.now = job.now
        BY <1>1, <1>2, <2>1, <3>1, RowThenLedger, AdvanceRest
      <3>4. Claimed'
        BY <1>1, <1>7, <2>1, <3>1, <3>3 DEF Claimed
      <3> QED
        BY <1>6, <1>7, <2>1, <2>4, <3>1, <3>2, <3>4
    <2> QED
      BY <2>2, <2>3, <2>4
  <1>11. CASE InsertLedger
    <2>1. /\ At("ledger") /\ Advance /\ rows' = rows /\ ledger' = ledger \cup {job.now}
          /\ ~At("look") /\ ~At("files") /\ ~At("embeds") /\ ~At("insert") /\ ~At("row")
          /\ ~At("update")
      BY <1>2, <1>11 DEF InsertLedger
    <2>2. Adds
      BY <1>1, <1>8, <2>1 DEF Adds
    <2>3. Claimed'
      BY <1>1, <2>1 DEF Claimed
    <2>4. /\ job.known /\ (Past("update") \/ At("update")) => rows'[job.now] = Says(job.mode)
          /\ ~job.known /\ (Past("insert") \/ Past("row") \/ At("insert") \/ At("row"))
                => rows'[job.now] = Says(job.mode)
      BY <1>1, <2>1 DEF Begun
    <2> QED
      BY <1>6, <2>1, <2>2, <2>3, <2>4
  <1>12. CASE Update
    <2>1. /\ At("update") /\ Advance /\ ledger' = ledger
          /\ ~At("look") /\ ~At("files") /\ ~At("embeds") /\ ~At("insert") /\ ~At("row")
          /\ ~At("ledger")
      BY <1>2, <1>12 DEF Update
    <2>2. CASE job.known
      <3>1. rows' = [rows EXCEPT ![job.now] = Says(job.mode)]
        BY <1>12, <2>2 DEF Update
      <3>2. Adds
        BY <1>1, <1>7, <1>8, <2>1, <3>1 DEF Adds
      <3>3. job.now \in ledger
        BY <1>3, <2>1, <2>2
      <3>4. Claimed'
        BY <1>1, <1>7, <2>1, <3>1, <3>3 DEF Claimed
      <3> QED
        BY <1>6, <1>7, <2>1, <2>2, <3>1, <3>2, <3>4
    <2>3. CASE ~job.known
      <3>1. rows' = rows
        BY <1>12, <2>3 DEF Update
      <3>2. Adds
        BY <1>1, <1>8, <2>1, <3>1 DEF Adds
      <3>3. Claimed'
        BY <1>1, <2>1, <3>1 DEF Claimed
      <3>4. Past("insert") \/ Past("row") => rows'[job.now] = Says(job.mode)
        BY <1>1, <2>3, <3>1 DEF Begun
      <3> QED
        BY <1>6, <2>1, <2>3, <3>1, <3>2, <3>3, <3>4
    <2> QED
      BY <2>2, <2>3
  <1> QED
    BY <1>9, <1>10, <1>11, <1>12

\* The importer looks at the ledger.
LEMMA LookRun ==
    ASSUME Typed, LedgerInv, RunInv, Look PROVE RunInv'
  <1>1. /\ job \in ImportJobs /\ job.at = "work" /\ InStep /\ Claimed /\ Named
        /\ Finished /\ Begun /\ UNCHANGED <<imported, media, fileLedger, torn>>
    BY Shape DEF Look, At, LedgerInv, RunInv
  <1>2. /\ job.mode \in Modes /\ job.pc \in 1..Len(Steps(job.mode))
        /\ Steps(job.mode)[job.pc] = "look"
    BY <1>1 DEF InStep, Look, At, ImportJobs
  <1>3. job.pc = 1 /\ 2 \in 1..Len(Steps(job.mode))
    <2>1. job.pc = 1 /\ job.pc < Len(Steps(job.mode)) /\ Len(Steps(job.mode)) \in 1..7
      BY <1>2, StepOrder
    <2> QED
      BY <2>1
  <1>4. /\ job'.mode = job.mode /\ job'.at = "work" /\ job'.now = job.now /\ job'.pc = 2
        /\ job'.known = (job.now \in ledger) /\ job'.todo = job.todo /\ job'.asked = job.asked
        /\ job'.tried = job.tried /\ job'.skipped = job.skipped
    BY <1>1, <1>3 DEF Look, ImportJobs
  <1>5. \A s : Past(s)' <=> s = "look"
    BY <1>2, <1>3, <1>4, PastOrder DEF Past
  <1>6. ~At("ledger")
    BY <1>2 DEF At
  <1>7. Claimed' /\ Named'
    BY <1>1, <1>6, ClaimsStay DEF imported
  <1>8. Finished'
    BY <1>1, <1>4, FinishedStays DEF Adds, imported
  <1>9. Begun'
    <2>1. ~job'.known => job'.now \notin ledger'
      BY <1>1, <1>4 DEF imported
    <2>2. \A x : Imported(x) => Imported(x)'
      BY <1>1, <1>4 DEF Imported
    <2>3. /\ job.now \in job.todo
          /\ \A x \in (FilesOf[job.now] \cap job.tried) \ job.skipped : Imported(x)
      BY <1>1 DEF Begun
    <2> QED
      BY <1>4, <1>5, <2>1, <2>2, <2>3 DEF Begun
  <1> QED
    BY <1>4, <1>7, <1>8, <1>9 DEF RunInv, Stopped

\* The importer takes a message, or has none left.
LEMMA NextRun ==
    ASSUME Typed, LedgerInv, RunInv, NextMessage PROVE RunInv'
  <1>1. /\ job \in ImportJobs /\ job.at = "next" /\ Claimed /\ Named
        /\ Finished /\ UNCHANGED <<imported, media, fileLedger, torn>>
    BY Shape DEF NextMessage, RunInv
  <1>2. Claimed' /\ Named'
    BY <1>1, ClaimsStay DEF imported, At
  <1>3. ASSUME NEW m \in job.todo,
               job' = [job EXCEPT !.at = "work", !.now = m, !.pc = 1, !.tried = {}]
        PROVE  Finished' /\ Begun' /\ Stopped'
    <2>1. /\ job'.mode = job.mode /\ job'.at = "work" /\ job'.now = m /\ job'.pc = 1
          /\ job'.todo = job.todo /\ job'.asked = job.asked
          /\ job'.tried = {} /\ job'.skipped = job.skipped
      BY <1>1, <1>3 DEF ImportJobs
    <2>2. \A s : ~Past(s)'
      BY <2>1 DEF Past
    <2>3. Finished'
      BY <1>1, <2>1, FinishedStays DEF Adds, imported
    <2>4. Begun'
      BY <2>1, <2>2 DEF Begun
    <2> QED
      BY <2>1, <2>3, <2>4 DEF Stopped
  <1>4. CASE job.todo = {} /\ job' = [job EXCEPT !.at = "done"]
    <2>1. /\ job'.mode = job.mode /\ job'.at = "done" /\ job'.todo = {}
          /\ job'.todo = job.todo /\ job'.asked = job.asked /\ job'.skipped = job.skipped
      BY <1>1, <1>4 DEF ImportJobs
    <2>2. Finished'
      BY <1>1, <2>1, FinishedStays DEF Adds, imported
    <2>3. job'.at # "work" /\ job'.at # "failed"
      BY <2>1
    <2>4. Begun'
      BY <2>3 DEF Begun
    <2>5. Stopped'
      BY <2>1, <2>3 DEF Stopped
    <2> QED
      BY <1>2, <2>2, <2>4, <2>5 DEF RunInv
  <1> QED
    BY <1>2, <1>3, <1>4 DEF NextMessage, RunInv

\* A step at which neither rows nor ledgers change is over.
LEMMA PassesOn ==
    ASSUME Typed, LedgerInv, RunInv, job.at = "work",
           UNCHANGED <<rows, ledger, fileLedger>>, torn \subseteq torn',
           media \subseteq media',
           \A m \in Sources : m # job.now => embeds'[m] = embeds[m],
           NEW s \in {"author", "files", "preview", "clear", "embeds"}, At(s),
           job'.mode = job.mode, job'.now = job.now, job'.known = job.known,
           job'.tried = job.tried, job'.skipped = job.skipped,
           \/ /\ job'.at = "work" /\ job'.pc = job.pc + 1
              /\ job'.todo = job.todo /\ job'.asked = job.asked
           \/ /\ job'.at = "next" /\ job.pc = Len(Steps(job.mode))
              /\ job'.todo = job.todo \ {job.now} /\ job'.asked = job.asked,
           s = "files" => FilesOf[job.now] \subseteq job.tried,
           s = "embeds" => embeds'[job.now] = EmbedsOf[job.now]
    PROVE  RunInv'
  <1>1. InStep /\ Claimed /\ Named /\ Begun
    BY DEF LedgerInv, RunInv
  <1>2. /\ ~At("look") /\ ~At("insert") /\ ~At("row") /\ ~At("ledger") /\ ~At("update")
        /\ At("files") => s = "files"
        /\ At("embeds") => s = "embeds"
    BY DEF At
  <1>3. Claimed' /\ Named'
    BY <1>1, <1>2, ClaimsStay
  <1>4. Adds
    BY DEF Adds
  <1>5. /\ job.known /\ Past("update") => rows'[job.now] = Says(job.mode)
        /\ ~job.known /\ (Past("insert") \/ Past("row")) => rows'[job.now] = Says(job.mode)
    BY <1>1 DEF Begun
  <1>6. Finished' /\ Begun' /\ Stopped'
    BY <1>1, <1>2, <1>4, <1>5, MovesOn
  <1> QED
    BY <1>3, <1>6 DEF RunInv

\* A step goes on, and what it adds is an attachment that is imported.
LEMMA GoesOn ==
    ASSUME Typed, LedgerInv, RunInv, job.at = "work", UNCHANGED <<rows, ledger>>,
           torn \subseteq torn', media \subseteq media', Named', ~At("ledger"),
           \A x \in Files : fileLedger[x] # None => fileLedger'[x] = fileLedger[x],
           \A m \in Sources : m # job.now => embeds'[m] = embeds[m],
           job'.mode = job.mode, job'.now = job.now, job'.known = job.known,
           job'.at = "work", job'.pc = job.pc, job'.todo = job.todo /\ job'.asked = job.asked,
           job.tried \subseteq job'.tried, job.skipped \subseteq job'.skipped,
           \A x \in (FilesOf[job.now] \cap job'.tried) \ job'.skipped :
              x \in job.tried \/ Imported(x)'
    PROVE  RunInv'
  <1>1. InStep /\ Claimed
    BY DEF LedgerInv, RunInv
  <1>2. Claimed'
    BY <1>1 DEF Claimed
  <1>3. Adds
    BY DEF Adds
  <1>4. Finished' /\ Begun' /\ Stopped'
    BY <1>1, <1>3, StaysOn
  <1> QED
    BY <1>2, <1>4 DEF RunInv

\* The importer is at no message.
LEMMA Between ==
    ASSUME Typed, RunInv, job \in ImportJobs, job.at # "work",
           UNCHANGED <<rows, ledger, embeds, fileLedger>>, torn \subseteq torn',
           media \subseteq media', job'.mode = job.mode,
           job'.todo = job.todo, job'.asked = job.asked,
           job'.skipped = job.skipped, job'.at \notin {"work", "failed", "done"}
    PROVE  RunInv'
  <1>1. Claimed /\ Named /\ Finished
    BY DEF RunInv
  <1>2. Claimed' /\ Named'
    BY <1>1, ClaimsStay DEF At
  <1>3. Finished'
    BY <1>1, FinishedStays DEF Adds
  <1> QED
    BY <1>2, <1>3 DEF RunInv, Begun, Stopped

\* The author's image.
LEMMA AuthorRun ==
    ASSUME Typed, LedgerInv, RunInv, AuthorImage \/ NameAuthorImage PROVE RunInv'
  <1>1. /\ job \in ImportJobs /\ torn \subseteq torn'
        /\ UNCHANGED <<rows, ledger, embeds, media, fileLedger>>
        /\ (At("author") /\ job.at = "work") \/ job.at = "users"
    BY Shape DEF AuthorImage, NameAuthorImage, Leave, At, imported
  <1>2. Named'
    BY <1>1 DEF RunInv, Named
  <1>3. CASE job' = [job EXCEPT !.file = NewFile]
    <2>1. /\ job'.mode = job.mode /\ job'.now = job.now /\ job'.known = job.known
          /\ job'.at = job.at /\ job'.pc = job.pc /\ job'.todo = job.todo /\ job'.asked = job.asked
          /\ job'.tried = job.tried /\ job'.skipped = job.skipped
      BY <1>1, <1>3 DEF ImportJobs
    <2>2. CASE job.at = "users"
      BY <1>1, <2>1, <2>2, Between
    <2>3. CASE At("author") /\ job.at = "work"
      <3>1. ~At("ledger")
        BY <2>3 DEF At
      <3> QED
        BY <1>1, <1>2, <2>1, <2>3, <3>1, GoesOn
    <2> QED
      BY <1>1, <2>2, <2>3
  <1>4. CASE AuthorDone /\ job.at = "users"
    <2>1. /\ job'.mode = job.mode /\ job'.at = "next"
          /\ job'.todo = job.todo /\ job'.asked = job.asked
          /\ job'.skipped = job.skipped
      BY <1>1, <1>4 DEF AuthorDone, ImportJobs
    <2> QED
      BY <1>1, <1>4, <2>1, Between
  <1>5. CASE AuthorDone /\ At("author") /\ job.at = "work"
    <2>1. /\ job'.mode = job.mode /\ job'.now = job.now /\ job'.known = job.known
          /\ job'.at = "work" /\ job'.pc = job.pc + 1
          /\ job'.todo = job.todo /\ job'.asked = job.asked
          /\ job'.tried = job.tried /\ job'.skipped = job.skipped
      BY <1>1, <1>5 DEF AuthorDone, ImportJobs
    <2> QED
      BY <1>1, <1>5, <2>1, PassesOn
  <1> QED
    BY <1>1, <1>3, <1>4, <1>5 DEF AuthorImage, NameAuthorImage

\* An attachment in the ledger is there: it may be passed over.
LEMMA LedgeredImported ==
    ASSUME Typed, LedgerInv, RunInv, job.now \in Sources, NEW x \in FilesOf[job.now],
           fileLedger[x] # None
    PROVE  Imported(x)
  <1>1. x \in Files /\ \A m, n \in Sources : m # n => FilesOf[m] \cap FilesOf[n] = {}
    BY MediaStoreAssumption
  <1>2. PICK a \in media : a.file = fileLedger[x] /\ a.source = x
    BY <1>1 DEF RunInv, Named
  <1>3. a.of \in Sources /\ a.source \in FilesOf[a.of]
    BY <1>1, <1>2 DEF LedgerInv, Ledgered
  <1>4. a.of = job.now
    BY <1>1, <1>2, <1>3
  <1> QED
    BY <1>2, <1>4 DEF Imported

\* What a skip, or a fetch that comes to nothing, makes of an import.
LEMMA SkipRest ==
    ASSUME job \in ImportJobs, NEW x, Skip(x)
    PROVE  /\ job'.mode = job.mode /\ job'.now = job.now /\ job'.known = job.known
           /\ job'.at = job.at /\ job'.pc = job.pc /\ job'.todo = job.todo /\ job'.asked = job.asked
           /\ job'.tried = job.tried \cup {x} /\ job'.skipped = job.skipped \cup {x}
  BY DEF Skip, ImportJobs

\* An attachment is fetched, or passed over.
LEMMA FetchRun ==
    ASSUME Typed, LedgerInv, RunInv, NEW x \in Files, FetchFile(x) PROVE RunInv'
  <1>1. /\ job \in ImportJobs /\ job.at = "work" /\ At("files") /\ ~At("ledger")
        /\ job.now \in Sources /\ x \in FilesOf[job.now] /\ torn \subseteq torn'
        /\ UNCHANGED <<rows, ledger, embeds, media, fileLedger>> /\ Named
    BY Shape DEF FetchFile, Leave, At, imported, RunInv, Typed
  <1>2. Named'
    BY <1>1 DEF Named
  <1>3. CASE fileLedger[x] # None /\ PassOver(x)
    <2>1. /\ job'.mode = job.mode /\ job'.now = job.now /\ job'.known = job.known
          /\ job'.at = job.at /\ job'.pc = job.pc /\ job'.todo = job.todo /\ job'.asked = job.asked
          /\ job'.tried = job.tried \cup {x} /\ job'.skipped = job.skipped
      BY <1>1, <1>3 DEF PassOver, ImportJobs
    <2>2. Imported(x)'
      <3>1. Imported(x)
        BY <1>1, <1>3, LedgeredImported
      <3> QED
        BY <1>1, <2>1, <3>1 DEF Imported
    <2> QED
      BY <1>1, <1>2, <2>1, <2>2, GoesOn
  <1>4. CASE Skip(x)
    <2>1. /\ job'.mode = job.mode /\ job'.now = job.now /\ job'.known = job.known
          /\ job'.at = job.at /\ job'.pc = job.pc /\ job'.todo = job.todo /\ job'.asked = job.asked
          /\ job'.tried = job.tried \cup {x} /\ job'.skipped = job.skipped \cup {x}
      BY <1>1, <1>4, SkipRest
    <2> QED
      BY <1>1, <1>2, <2>1, GoesOn
  <1>5. CASE job' = [job EXCEPT !.x = x, !.file = NewFile]
    <2>1. /\ job'.mode = job.mode /\ job'.now = job.now /\ job'.known = job.known
          /\ job'.at = job.at /\ job'.pc = job.pc /\ job'.todo = job.todo /\ job'.asked = job.asked
          /\ job'.tried = job.tried /\ job'.skipped = job.skipped
      BY <1>1, <1>5 DEF ImportJobs
    <2> QED
      BY <1>1, <1>2, <2>1, GoesOn
  <1> QED
    BY <1>3, <1>4, <1>5 DEF FetchFile

\* Its row is inserted, and entered in the ledger, or not.
LEMMA AttachmentRun ==
    ASSUME Typed, FilesInv, LedgerInv, RunInv, InsertAttachment \/ LedgerAttachment
    PROVE  RunInv'
  <1>1. /\ job \in ImportJobs /\ job.at = "work" /\ At("files") /\ ~At("ledger")
        /\ job.mode \in Modes /\ job.now \in Sources /\ torn \subseteq torn'
        /\ UNCHANGED <<rows, ledger, embeds>> /\ Named /\ job.file # None
    BY Shape DEF InsertAttachment, LedgerAttachment, Leave, At, imported, RunInv, Typed,
       ImportJobs
  <1>2. /\ job.x \in FilesOf[job.now] /\ job.x \in Files /\ fileLedger[job.x] = None
        /\ \A a \in media : a.file = job.file => a.source = job.x /\ a.of = job.now
    BY <1>1, MediaStoreAssumption DEF FilesInv, InHand
  <1>3. CASE InsertAttachment /\ media \subseteq media' /\ job' = job
    <2>1. fileLedger' = fileLedger
      BY <1>3 DEF InsertAttachment
    <2>2. Named'
      BY <1>1, <1>3, <2>1 DEF Named
    <2> QED
      BY <1>1, <1>3, <2>1, <2>2, GoesOn
  <1>4. CASE Skip(job.x) /\ UNCHANGED <<media, fileLedger>>
    <2>1. /\ job'.mode = job.mode /\ job'.now = job.now /\ job'.known = job.known
          /\ job'.at = job.at /\ job'.pc = job.pc /\ job'.todo = job.todo /\ job'.asked = job.asked
          /\ job'.tried = job.tried \cup {job.x} /\ job'.skipped = job.skipped \cup {job.x}
      BY <1>1, <1>4, SkipRest
    <2>2. Named'
      BY <1>1, <1>4 DEF Named
    <2> QED
      BY <1>1, <1>4, <2>1, <2>2, GoesOn
  <1>5. CASE /\ fileLedger' = [fileLedger EXCEPT ![job.x] = job.file] /\ InRow
             /\ job' = [job EXCEPT !.tried = @ \cup {job.x}, !.x = None, !.file = None]
             /\ media' = media
    <2>1. /\ job'.mode = job.mode /\ job'.now = job.now /\ job'.known = job.known
          /\ job'.at = job.at /\ job'.pc = job.pc /\ job'.todo = job.todo /\ job'.asked = job.asked
          /\ job'.tried = job.tried \cup {job.x} /\ job'.skipped = job.skipped
      BY <1>1, <1>5 DEF ImportJobs
    <2>2. /\ fileLedger'[job.x] = job.file
          /\ \A x \in Files \ {job.x} : fileLedger'[x] = fileLedger[x]
      BY <1>2, <1>5 DEF Typed
    <2>3. PICK a \in media : a.file = job.file /\ a.source = job.x /\ a.of = job.now
      BY <1>2, <1>5 DEF InRow
    <2>4. Named'
      BY <1>1, <1>5, <2>2, <2>3 DEF Named
    <2>5. ASSUME NEW x, x = job.x PROVE Imported(x)'
      BY <1>5, <2>1, <2>2, <2>3, <2>5 DEF Imported
    <2>6. \A x \in Files : fileLedger[x] # None => fileLedger'[x] = fileLedger[x]
      BY <1>2, <2>2
    <2>7. \A x \in (FilesOf[job.now] \cap job'.tried) \ job'.skipped :
              x \in job.tried \/ Imported(x)'
      BY <2>1, <2>5
    <2> QED
      BY <1>1, <1>5, <2>1, <2>4, <2>6, <2>7, GoesOn
  <1> QED
    BY <1>3, <1>4, <1>5 DEF InsertAttachment, LedgerAttachment

\* The attachments are all tried, and what follows them.
LEMMA AfterFilesRun ==
    ASSUME Typed, LedgerInv, RunInv,
           FilesDone \/ PreviewImage \/ UpsertPreview \/ ClearEmbeds \/ InsertEmbed
    PROVE  RunInv'
  <1>1. /\ job \in ImportJobs /\ job.at = "work" /\ InStep /\ Named
        /\ UNCHANGED <<rows, ledger, media, fileLedger>> /\ torn \subseteq torn'
        /\ job.now \in Sources /\ embeds \in [Sources -> SUBSET Nat]
        /\ embeds[job.now] \subseteq EmbedsOf[job.now]
    BY Shape DEF FilesDone, PreviewImage, UpsertPreview, ClearEmbeds, InsertEmbed, Leave, At,
       imported, LedgerInv, RunInv, Typed
  <1>2. Named'
    BY <1>1 DEF Named
  <1>3. CASE FilesDone \/ ClearEmbeds
    <2>1. PICK s \in {"files", "clear"} :
             At(s) /\ (s = "files" => FilesOf[job.now] \subseteq job.tried)
      BY <1>3 DEF FilesDone, ClearEmbeds
    <2>2. \A m \in Sources : m # job.now => embeds'[m] = embeds[m]
      BY <1>1, <1>3 DEF FilesDone, ClearEmbeds, imported
    <2>3. /\ job'.mode = job.mode /\ job'.now = job.now /\ job'.known = job.known
          /\ job'.tried = job.tried /\ job'.skipped = job.skipped
          /\ \/ /\ job'.at = "work" /\ job'.pc = job.pc + 1
                /\ job'.todo = job.todo /\ job'.asked = job.asked
             \/ /\ job'.at = "next" /\ job.pc = Len(Steps(job.mode))
                /\ job'.todo = job.todo \ {job.now} /\ job'.asked = job.asked
      BY <1>1, <1>3, AdvanceRest DEF FilesDone, ClearEmbeds
    <2> QED
      BY <1>1, <2>1, <2>2, <2>3, PassesOn
  <1>4. CASE PreviewImage /\ job' = [job EXCEPT !.file = NewFile]
    <2>1. /\ job'.mode = job.mode /\ job'.now = job.now /\ job'.known = job.known
          /\ job'.at = job.at /\ job'.pc = job.pc /\ job'.todo = job.todo /\ job'.asked = job.asked
          /\ job'.tried = job.tried /\ job'.skipped = job.skipped
          /\ embeds' = embeds /\ ~At("ledger")
      BY <1>1, <1>4 DEF PreviewImage, ImportJobs, imported, At
    <2> QED
      BY <1>1, <1>2, <2>1, GoesOn
  <1>5. CASE (PreviewImage \/ UpsertPreview) /\ PreviewDone
    <2>1. At("preview") /\ embeds' = embeds
      BY <1>5 DEF PreviewImage, UpsertPreview, imported
    <2>2. CASE job.mode = "json"
      <3>1. /\ job'.mode = job.mode /\ job'.now = job.now /\ job'.known = job.known
            /\ job'.tried = job.tried /\ job'.skipped = job.skipped
            /\ job'.at = "work" /\ job'.pc = job.pc + 1
            /\ job'.todo = job.todo /\ job'.asked = job.asked
        BY <1>1, <1>5, <2>2 DEF PreviewDone, ImportJobs
      <3> QED
        BY <1>1, <2>1, <3>1, PassesOn
    <2>3. CASE job.mode # "json"
      <3>1. /\ job'.mode = job.mode /\ job'.now = job.now /\ job'.known = job.known
            /\ job'.tried = job.tried /\ job'.skipped = job.skipped
            /\ job'.at = "next" /\ job'.todo = job.todo \ {job.now} /\ job'.asked = job.asked
        BY <1>1, <1>5, <2>3 DEF PreviewDone, ImportJobs
      <3>2. job.pc = Len(Steps(job.mode))
        BY <1>1, <2>1, <2>3, AtOrder
      <3> QED
        BY <1>1, <2>1, <3>1, <3>2, PassesOn
    <2> QED
      BY <2>2, <2>3
  <1>6. CASE InsertEmbed
    <2>1. At("embeds") /\ ~At("ledger")
      BY <1>6 DEF InsertEmbed, At
    <2>2. CASE EmbedsOf[job.now] \ embeds[job.now] = {}
      <3>1. Advance /\ embeds' = embeds
        BY <1>6, <2>2 DEF InsertEmbed
      <3>2. embeds'[job.now] = EmbedsOf[job.now]
        BY <1>1, <2>2, <3>1
      <3>3. /\ job'.mode = job.mode /\ job'.now = job.now /\ job'.known = job.known
            /\ job'.tried = job.tried /\ job'.skipped = job.skipped
            /\ \/ /\ job'.at = "work" /\ job'.pc = job.pc + 1
                  /\ job'.todo = job.todo /\ job'.asked = job.asked
               \/ /\ job'.at = "next" /\ job.pc = Len(Steps(job.mode))
                  /\ job'.todo = job.todo \ {job.now} /\ job'.asked = job.asked
        BY <1>1, <3>1, AdvanceRest
      <3> QED
        BY <1>1, <2>1, <3>1, <3>2, <3>3, PassesOn
    <2>3. CASE EmbedsOf[job.now] \ embeds[job.now] # {}
      <3>1. PICK p : embeds' = [embeds EXCEPT ![job.now] = @ \cup {p}] /\ job' = job
        BY <1>6, <2>3 DEF InsertEmbed
      <3>2. \A m \in Sources : m # job.now => embeds'[m] = embeds[m]
        BY <1>1, <3>1
      <3> QED
        BY <1>1, <1>2, <2>1, <3>1, <3>2, GoesOn
    <2> QED
      BY <2>2, <2>3
  <1> QED
    BY <1>3, <1>4, <1>5, <1>6 DEF PreviewImage, UpsertPreview

\* A run begins or is replaced, ends or is interrupted.
LEMMA OtherRun ==
    ASSUME Typed, FilesInv, LedgerInv, RunInv,
           Run \/ ReadPaths \/ DeleteImported \/ Unlink \/ Interrupt
    PROVE  RunInv'
  <1>1. Claimed /\ Named /\ InStep
    BY DEF RunInv, LedgerInv
  <1>2. /\ job'.at \notin {"work", "failed", "done"}
        /\ job'.mode \in Modes => job'.todo = job'.asked
    <2>1. ASSUME NEW mode, NEW portion, job' = Begin(mode, portion)
          PROVE  job'.at \notin {"work", "failed", "done"} /\ job'.todo = job'.asked
      BY <2>1 DEF Begin
    <2>2. CASE Run
      <3>1. \/ job' = [mode |-> "replace", at |-> "paths", paths |-> {}]
            \/ \E portion \in Portions : job' = Begin(Head(budget.runs), portion)
        BY <2>2 DEF Run
      <3>2. CASE job' = [mode |-> "replace", at |-> "paths", paths |-> {}]
        BY <3>2 DEF Modes
      <3> QED
        BY <2>1, <3>1, <3>2
    <2>3. CASE Interrupt
      BY <2>3, MediaStoreAssumption DEF Interrupt, Rest, Modes, Kinds
    <2>4. CASE ReadPaths \/ DeleteImported
      <3>1. job \in ReplaceJobs
        BY <2>4, Shape DEF ReadPaths, DeleteImported
      <3> QED
        BY <2>4, <3>1 DEF ReadPaths, DeleteImported, ReplaceJobs, Modes
    <2>5. CASE Unlink
      <3>1. job \in ReplaceJobs
        BY <2>5, Shape DEF Unlink
      <3>2. CASE \E portion \in Portions : job' = Begin("live", portion)
        BY <2>1, <3>2
      <3>3. CASE \E path \in job.paths : job' = [job EXCEPT !.paths = @ \ {path}]
        BY <2>5, <3>1, <3>3 DEF Unlink, ReplaceJobs, Modes
      <3> QED
        BY <2>5, <3>2, <3>3 DEF Unlink
    <2> QED
      BY <2>2, <2>3, <2>4, <2>5
  <1>3. Finished' /\ Begun' /\ Stopped'
    BY <1>2 DEF Finished, Begun, Stopped
  <1>4. CASE Run \/ ReadPaths \/ Unlink
    <2>1. ~At("ledger") /\ UNCHANGED <<rows, ledger, media, fileLedger, torn>>
      BY <1>4 DEF Run, ReadPaths, Unlink, At, imported
    <2> QED
      BY <1>1, <1>3, <2>1, ClaimsStay DEF RunInv
  <1>5. CASE DeleteImported
    <2>1. /\ ledger' = {} /\ media' = media \ Owned
          /\ \A m \in Sources : rows'[m] = IF m \in ledger THEN None ELSE rows[m]
          /\ \A x \in Files : fileLedger'[x] = IF \E a \in Owned : a.file = fileLedger[x]
                                               THEN None ELSE fileLedger[x]
          /\ torn' = torn \ {x \in Files : \E m \in ledger : x \in FilesOf[m]}
          /\ ~At("ledger")
      BY <1>5 DEF DeleteImported, At
    <2>2. Claimed'
      <3>1. \A m \in Sources : m \notin Files
        BY MediaStoreAssumption
      <3> QED
        BY <1>1, <2>1, <3>1 DEF Claimed
    <2>3. Named'
      BY <1>1, <2>1 DEF Named
    <2> QED
      BY <1>3, <2>2, <2>3 DEF RunInv
  <1>6. CASE Interrupt
    <2>1. UNCHANGED <<rows, ledger, media, fileLedger>> /\ torn \subseteq torn'
      BY <1>6 DEF Interrupt, imported
    <2>2. ASSUME At("ledger") PROVE job.now \in ledger \cup torn'
      <3>1. CASE job.known
        BY <1>1, <2>2, <3>1 DEF InStep, At
      <3>2. CASE ~job.known
        BY <1>6, <2>2, <3>2 DEF Interrupt, At
      <3> QED
        BY <3>1, <3>2
    <2>3. Claimed'
      BY <1>1, <2>1, <2>2 DEF Claimed
    <2>4. Named'
      BY <1>1, <2>1 DEF Named
    <2> QED
      BY <1>3, <2>3, <2>4 DEF RunInv
  <1> QED
    BY <1>4, <1>5, <1>6

\* An upload adds files and rows of its own.
LEMMA UploadRun ==
    ASSUME Typed, RunInv, UNCHANGED <<imported, fileLedger, job>>, torn \subseteq torn',
           media \subseteq media'
    PROVE  RunInv'
  <1>1. Claimed'
    BY DEF RunInv, Claimed, At, imported
  <1>2. Named'
    BY DEF RunInv, Named
  <1>3. ASSUME NEW m \in Sources, Whole(m) PROVE Whole(m)'
    BY <1>3 DEF Whole, imported
  <1>6. job.mode \in Modes => job.asked \subseteq Sources
    BY MediaStoreAssumption DEF Typed, ImportJobs, ReplaceJobs, Rest, Modes, Kinds
  <1>4. Finished'
    BY <1>3, <1>6 DEF RunInv, Finished
  <1>5. Begun'
    <2>1. \A s : Past(s)' <=> Past(s)
      BY DEF Past
    <2>2. \A x : Imported(x) => Imported(x)'
      BY DEF Imported
    <2> QED
      BY <2>1, <2>2 DEF RunInv, Begun, imported
  <1> QED
    BY <1>1, <1>2, <1>4, <1>5 DEF RunInv, Stopped

\* Every step keeps the runs.
LEMMA RunStep ==
    ASSUME Typed, FilesInv, LedgerInv, RunInv, [Next]_vars PROVE RunInv'
  <1>1. CASE Run \/ ReadPaths \/ DeleteImported \/ Unlink \/ Interrupt
    BY <1>1, OtherRun
  <1>2. CASE NextMessage \/ Look
    BY <1>2, NextRun, LookRun
  <1>3. CASE Insert \/ InsertRow \/ InsertLedger \/ Update
    BY <1>3, InsertRun
  <1>4. CASE AuthorImage \/ NameAuthorImage
    BY <1>4, AuthorRun
  <1>5. CASE \E x \in Files : FetchFile(x)
    BY <1>5, FetchRun
  <1>6. CASE InsertAttachment \/ LedgerAttachment
    BY <1>6, AttachmentRun
  <1>7. CASE FilesDone \/ PreviewImage \/ UpsertPreview \/ ClearEmbeds \/ InsertEmbed
    BY <1>7, AfterFilesRun
  <1>8. CASE UploadFile \/ UploadRow \/ Crash
    BY <1>8, UploadRun DEF UploadFile, UploadRow, Crash, Leave
  <1>9. CASE \/ \E q \in Requests :
                   OpenAvatar(q) \/ WriteAvatar(q) \/ NameAvatar(q) \/ AvatarFails(q)
             \/ UNCHANGED vars
    BY <1>9, UploadRun DEF OpenAvatar, WriteAvatar, NameAvatar, AvatarFails, vars
  <1> QED
    BY <1>1, <1>2, <1>3, <1>4, <1>5, <1>6, <1>7, <1>8, <1>9 DEF Next, Import

-----------------------------------------------------------------------------
(* The avatar. *)

\* Every step keeps the avatar.
LEMMA AvatarStep ==
    ASSUME AvatarInv, [Next]_vars PROVE AvatarInv'
  <1> USE DEF AvatarInv, Waiting
  <1>1. ASSUME NEW q \in Requests, OpenAvatar(q) PROVE AvatarInv'
    BY <1>1 DEF OpenAvatar
  <1>2. ASSUME NEW q \in Requests, WriteAvatar(q) PROVE AvatarInv'
    <2>1. PICK image : /\ avatar' = [avatar EXCEPT !.at[q] = "written", !.file = image]
                       /\ Writing = {q} => image = q
      BY <1>2 DEF WriteAvatar
    <2>2. avatar.at[q] = "writing"
      BY <1>2 DEF WriteAvatar
    <2>3. /\ avatar'.file = image /\ avatar'.row = avatar.row /\ avatar'.crossed = avatar.crossed
          /\ avatar'.at = [avatar.at EXCEPT ![q] = "written"] /\ DOMAIN avatar'.at = Requests
          /\ avatar' = [file |-> avatar'.file, row |-> avatar'.row,
                        crossed |-> avatar'.crossed, at |-> avatar'.at]
      BY <2>1
    <2>4. Waiting' = Waiting /\ q \in Waiting
      BY <2>2, <2>3
    <2>5. ~avatar.crossed => Waiting = {q} /\ Writing = {q}
      BY <2>2, <2>4 DEF Writing
    <2> QED
      BY <2>1, <2>3, <2>4, <2>5
  <1>3. ASSUME NEW q \in Requests, NameAvatar(q) PROVE AvatarInv'
    BY <1>3 DEF NameAvatar
  <1>4. ASSUME NEW q \in Requests, AvatarFails(q) PROVE AvatarInv'
    BY <1>4 DEF AvatarFails
  <1>5. CASE Crash
    BY <1>5 DEF Crash
  <1>6. CASE avatar' = avatar
    BY <1>6
  <1> QED
    BY <1>1, <1>2, <1>3, <1>4, <1>5, <1>6
       DEF Next, Import, vars, imported, Run, NextMessage, Look, Insert, InsertRow,
           InsertLedger, Update, AuthorImage, NameAuthorImage, FetchFile, InsertAttachment,
           LedgerAttachment, FilesDone, PreviewImage, UpsertPreview, ClearEmbeds, InsertEmbed,
           ReadPaths, DeleteImported, Unlink, Interrupt, UploadFile, UploadRow

-----------------------------------------------------------------------------
(* What holds of every behaviour. *)

MediaInv == Typed /\ FilesInv /\ LedgerInv /\ RunInv /\ AvatarInv

\* It holds at the start.
LEMMA Start ==
    ASSUME Init PROVE MediaInv
  <1>1. None \notin Nat
    BY MediaStoreAssumption
  <1>2. Rest.at = "rest" /\ Rest.mode = None
    BY DEF Rest
  <1>3. None \notin Modes \cup {"replace"}
    BY MediaStoreAssumption DEF Modes, Kinds
  <1>4. Typed
    <2>1. Budgets \subseteq [crashes : Nat, faults : Nat, uploads : Nat,
                             runs : Seq(Kinds), avatars : SUBSET Requests]
      BY MediaStoreAssumption
    <2> QED
      BY <1>2, <2>1 DEF Init, Typed
  <1>5. FilesInv
    <2>1. Distinct /\ Uploaded
      BY DEF Init, Distinct, Uploaded
    <2>2. InHand /\ Listed
      BY <1>2, <1>3 DEF Init, InHand, Listed
    <2>3. DiskMatchesRows
      BY DEF Init, DiskMatchesRows, RowsHaveFiles, Names
    <2> QED
      BY <2>1, <2>2, <2>3 DEF FilesInv
  <1>6. LedgerInv
    BY <1>2 DEF Init, LedgerInv, InStep, Ledgered, Entered
  <1>7. RunInv
    BY <1>2, <1>3 DEF Init, RunInv, Claimed, Named, Finished, Begun, Stopped
  <1>8. AvatarInv
    BY DEF Init, AvatarInv, Waiting
  <1> QED
    BY <1>4, <1>5, <1>6, <1>7, <1>8 DEF MediaInv

\* And always.
LEMMA Always == Spec => []MediaInv
  <1>1. Init => MediaInv
    BY Start
  <1>2. MediaInv /\ [Next]_vars => MediaInv'
    BY TypedStep, FilesStep, LedgerStep, RunStep, AvatarStep DEF MediaInv, FilesInv
  <1> QED
    BY <1>1, <1>2, PTL DEF Spec

\* The disk holds only files that were written, a row has embeds of its own
\* message only, and neither ledger names what is not there, wherever a run of
\* the importer was interrupted.
THEOREM MediaType == Spec => []TypeOK
  <1>1. MediaInv => TypeOK
    <2> SUFFICES ASSUME MediaInv PROVE TypeOK
      OBVIOUS
    <2>1. /\ disk \subseteq 1..written
          /\ \A m \in Sources : rows[m] \in {None, "old", "new"} /\ embeds[m] \subseteq EmbedsOf[m]
      BY DEF MediaInv, Typed
    <2>2. Ledgered
      BY DEF MediaInv, LedgerInv
    <2> QED
      BY <2>1, <2>2 DEF TypeOK, Ledgered
  <1> QED
    BY <1>1, Always, PTL

\* No row names a file that is not on disk, however runs of the importer,
\* replacements and uploads fail or are interrupted; and a file that no row names
\* is in somebody's hands, or was left there by an interruption, a failure or a
\* newer image.
THEOREM NoRowWithoutItsFile == Spec => []DiskMatchesRows
  <1>1. MediaInv => DiskMatchesRows
    BY DEF MediaInv, FilesInv
  <1> QED
    BY <1>1, Always, PTL

\* An attachment that is not torn has one row, whatever the runs that came
\* across it: the ledger names its file, and no two rows have the same file.
THEOREM ImportedOnce == Spec => []AttachmentsOnce
  <1>1. MediaInv => AttachmentsOnce
    <2> SUFFICES ASSUME MediaInv, NEW x \in Files \ torn
                 PROVE  Cardinality({a \in media : a.source = x}) <= 1
      BY DEF AttachmentsOnce
    <2> DEFINE R == {a \in media : a.source = x}
    <2>1. /\ \A a, b \in media : a.file = b.file => a = b
          /\ \A a \in media : a.file # None
          /\ job.mode \in Modes /\ At("files") /\ job.file # None => fileLedger[job.x] = None
          /\ job.mode \in Modes /\ At("files") /\ job.file # None =>
                \A a \in media : a.file = job.file => a.source = job.x
      BY MediaStoreAssumption DEF MediaInv, FilesInv, Distinct, InHand, Typed,
         Attachments
    <2>2. \A a \in R : \/ fileLedger[x] = a.file
                       \/ job.mode \in Modes /\ At("files") /\ job.file = a.file
      BY DEF MediaInv, LedgerInv, Entered
    <2>3. \A a, b \in R : a = b
      BY <2>1, <2>2
    <2>4. R = {} \/ \E a : R = {a}
      BY <2>3
    <2>5. Cardinality(R) = 0 \/ Cardinality(R) = 1
      BY <2>4, FS_EmptySet, FS_Singleton
    <2> QED
      BY <2>5
  <1> QED
    BY <1>1, Always, PTL

\* Every run of the importer that ends without an error has imported all that its
\* source has, whatever earlier runs left half done; and of what they left, only a
\* message of a live import that ended before its ledger entry makes a run fail.
THEOREM FinishedRunsAreWhole == Spec => []RunsAreWhole
  <1>1. MediaInv => RunsAreWhole
    <2> SUFFICES ASSUME MediaInv PROVE RunsAreWhole
      OBVIOUS
    <2>1. ASSUME job.at = "done", NEW m \in job.asked PROVE Whole(m)
      <3>1. job.todo = {} /\ job.mode \in Modes
        BY <2>1, Shape DEF MediaInv, RunInv, Stopped, ImportJobs
      <3> QED
        BY <3>1 DEF MediaInv, RunInv, Finished
    <2>2. job.at = "failed" => job.now \in torn
      BY DEF MediaInv, RunInv, Stopped
    <2> QED
      BY <2>1, <2>2 DEF RunsAreWhole
  <1> QED
    BY <1>1, Always, PTL

\* An avatar is what its row says as soon as no upload of it is under way, if
\* none of them crossed another or failed since the last that did not.
THEOREM AvatarIsDescribed == Spec => []AvatarAsDescribed
  <1>1. MediaInv => AvatarAsDescribed
    BY DEF MediaInv, AvatarInv, AvatarAsDescribed
  <1> QED
    BY <1>1, Always, PTL

=============================================================================
