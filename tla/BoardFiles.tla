----------------------------- MODULE BoardFiles -----------------------------
(***************************************************************************)
(* The documents of the display board: rows in PostgreSQL that name files  *)
(* in a store which no transaction spans, their versions, and the jobs     *)
(* that draw a thumbnail of the current file.                              *)
(*                                                                         *)
(* A request is a transaction under READ COMMITTED, cut at its statements. *)
(* What it inserts or updates is seen when it commits; what it does to     *)
(* the store and to the queue is done at once and is not taken back.       *)
(* Titles, sections and visibility are left out.                           *)
(***************************************************************************)
EXTENDS Integers

CONSTANTS
    Connections,  \* connections that run requests
    Documents,    \* identities of BoardDocument rows
    Pdfs,         \* storage keys of PDF files
    Jobs,         \* identities of thumbnail jobs
    Authors,      \* accounts that create documents
    Editors,      \* accounts that replace and restore files, authors or reviewers
    Attempts,     \* THUMBNAIL_QUEUE_ATTEMPTS, 3 in the code
    MaxVersion,   \* bound: versions of one document
    FirstDays,    \* the documents there may be at first, with the author of version 1
    BoardKinds,   \* the requests that occur
    Absent, Gone  \* no row yet, and no row any more

Uploads == {"replace", "restore"}
Deletions == {"remove", "bulk"}
Places == {"idle", "read", "numbered", "inserted", "updated", "swept", "deleted", "cleaned", "queued"}

\* Each drawing has a key of its own; `left` are the attempts the job had.
Thumbnail == [pdf : Pdfs, job : Jobs, left : 1..Attempts]
DocumentRow == [uri : Pdfs, thumbnailUri : Thumbnail \cup {Absent}]
VersionRow == [document : Documents, versionNumber : 1..MaxVersion, uri : Pdfs, uploadedBy : Authors \cup Editors]
Job == [document : Documents, pdf : Pdfs, left : 1..Attempts, drawn : BOOLEAN]

ASSUME BoardAssumption ==
    /\ Attempts \in Nat \ {0} /\ MaxVersion \in Nat \ {0}
    /\ BoardKinds \subseteq Uploads \cup Deletions \cup {"create"}
    /\ Absent # Gone
    /\ {Absent, Gone} \cap (DocumentRow \cup Job \cup Pdfs \cup Thumbnail \cup Authors \cup Editors) = {}
    /\ \A old \in FirstDays :
          /\ DOMAIN old \subseteq Documents
          /\ \A d \in DOMAIN old : old[d] \in [uri : Pdfs, by : Authors \cup {Absent}]
          /\ \A d, e \in DOMAIN old : old[d].uri = old[e].uri => d = e
    /\ Pdfs \cap Thumbnail = {}

VARIABLES
    doc,         \* doc[d]: the committed BoardDocument row
    version,     \* the committed BoardDocumentVersion rows
    file,        \* the keys under which the store has a file
    uploaded,    \* the keys that were given to a PDF; none is given twice
    job,         \* job[j]: a job of the thumbnail queue, Gone when it is over
    work,        \* work[x]: the request of connection x
    overlapped,  \* history: documents with two uploads or restores at once
    lost,        \* history: files went and the rows that name them stayed, or came back
    smudged      \* history: a thumbnail of another file may have come last

boardVars == <<doc, version, file, uploaded, job, work, overlapped, lost, smudged>>
History == <<overlapped, lost, smudged>>

Work ==
    [ kind : Uploads \cup Deletions \cup {"create", "none"}, at : Places,
      docs : SUBSET Documents,             \* what it is about
      uri : Pdfs \cup {Absent},            \* the file that becomes the current one
      by : Authors \cup Editors \cup {Absent},
      number : 0..MaxVersion,              \* the number of the version it inserts
      old : SUBSET (Pdfs \cup Thumbnail) ] \* the files it is going to delete

Asked(kind, place, docs, uri, by, number, old) ==
    [kind |-> kind, at |-> place, docs |-> docs, uri |-> uri, by |-> by, number |-> number, old |-> old]

Idle == Asked("none", "idle", {}, Absent, Absent, 0, {})

-----------------------------------------------------------------------------
(* Rows, keys and locks.                                                   *)

Stands(d) == doc[d] \notin {Absent, Gone}
FilesOf(d) == IF Stands(d) THEN {doc[d].uri, doc[d].thumbnailUri} \ {Absent} ELSE {}
VersionsOf(d) == { v \in version : v.document = d }

IsLastNumber(d, n) ==
    /\ \A v \in VersionsOf(d) : v.versionNumber <= n
    /\ n = 0 \/ \E v \in VersionsOf(d) : v.versionNumber = n

\* An updated row is locked; an inserted version holds off the deletion of its document.
Updates(z, d) == d \in work[z].docs /\ work[z].kind \in Uploads /\ work[z].at \in {"updated", "cleaned", "queued"}
Names(z, d) == d \in work[z].docs /\ work[z].kind \in Uploads /\ (work[z].at = "inserted" \/ Updates(z, d))
Deletes(z, d) == d \in work[z].docs /\ work[z].kind \in Deletions /\ work[z].at \in {"deleted", "cleaned"}

NoOther(x, Lock(_, _)) == \A z \in Connections \ {x} : \A d \in work[x].docs : ~Lock(z, d)

At(x, kinds, place) == work[x].kind \in kinds /\ work[x].at = place
Go(x, place) == work' = [work EXCEPT ![x] = [@ EXCEPT !.at = place]]

\* Documents of before the versions have none: nobody is recorded as their author.
BoardInit ==
    /\ \E old \in FirstDays :
          /\ doc = [d \in Documents |->
                       IF d \in DOMAIN old THEN [uri |-> old[d].uri, thumbnailUri |-> Absent] ELSE Absent]
          /\ version = { [document |-> d, versionNumber |-> 1, uri |-> old[d].uri, uploadedBy |-> old[d].by]
                         : d \in { e \in DOMAIN old : old[e].by # Absent } }
          /\ uploaded = { old[d].uri : d \in DOMAIN old } /\ file = uploaded
    /\ job = [j \in Jobs |-> Absent]
    /\ work = [x \in Connections |-> Idle]
    /\ overlapped = {} /\ lost = {} /\ smudged = {}

-----------------------------------------------------------------------------
(* The requests.                                                           *)

Start(x, q) ==
    /\ work[x] = Idle /\ q.kind \in BoardKinds
    /\ work' = [work EXCEPT ![x] = q]

\* Before anything is written to the database.
SaveBoardFile(f) ==
    /\ f \notin uploaded
    /\ uploaded' = uploaded \cup {f} /\ file' = file \cup {f}

\* createBoardDocument: the document and its version 1 are inserted.
Create(x, d, f, a) ==
    /\ doc[d] = Absent /\ \A z \in Connections : d \notin work[z].docs
    /\ SaveBoardFile(f)
    /\ Start(x, Asked("create", "cleaned", {d}, f, a, 1, {}))
    /\ UNCHANGED <<doc, version, job, History>>

\* Two requests that upload to or restore one document at once.
Overlap(x, d) ==
    overlapped' = IF \E z \in Connections \ {x} : work[z].kind \in Uploads /\ d \in work[z].docs
                  THEN overlapped \cup {d} ELSE overlapped

\* replaceDocumentFile: the file is saved, then the old row is read, if there is one.
Replace(x, d, f, a) ==
    /\ doc[d] # Absent
    /\ SaveBoardFile(f)
    /\ Start(x, Asked("replace", "read", {d}, f, a, 0, FilesOf(d)))
    /\ Overlap(x, d)
    /\ UNCHANGED <<doc, version, job, lost, smudged>>

\* restoreDocumentVersion: the version, then the row, of which only the thumbnail is deleted.
Restore(x, v, a) ==
    /\ Start(x, Asked("restore", "read", {v.document}, v.uri, a, 0, FilesOf(v.document) \ Pdfs))
    /\ Overlap(x, v.document)
    /\ UNCHANGED <<doc, version, file, uploaded, job, lost, smudged>>

\* Mutant: the number of the last version, not the next one.
ReadNumberLast(x) ==
    /\ At(x, Uploads, "read")
    /\ \E n \in 0..MaxVersion :
          /\ \A d \in work[x].docs : IsLastNumber(d, n)
          /\ work' = [work EXCEPT ![x] = [@ EXCEPT !.at = "numbered", !.number = n]]
    /\ UNCHANGED <<doc, version, file, uploaded, job, History>>

\* createVersionForUpload: the last number, then the row.
ReadNumber(x) ==
    /\ At(x, Uploads, "read")
    /\ \E n \in 0..MaxVersion - 1 :
          /\ \A d \in work[x].docs : IsLastNumber(d, n)
          /\ work' = [work EXCEPT ![x] = [@ EXCEPT !.at = "numbered", !.number = n + 1]]
    /\ UNCHANGED <<doc, version, file, uploaded, job, History>>

InsertVersion(x) ==
    /\ At(x, Uploads, "numbered") /\ NoOther(x, Deletes)
    /\ \A d \in work[x].docs : Stands(d)
    /\ Go(x, "inserted")
    /\ UNCHANGED <<doc, version, file, uploaded, job, History>>

\* The new file, and no thumbnail.
UpdateDocument(x) ==
    /\ At(x, Uploads, "inserted") /\ NoOther(x, Updates)
    /\ Go(x, "updated")
    /\ UNCHANGED <<doc, version, file, uploaded, job, History>>

\* deleteAllVersionFiles, which the page calls first.
SweepVersions(x, d) ==
    /\ Stands(d)
    /\ Start(x, Asked("remove", "swept", {d}, Absent, Absent, 0, {}))
    /\ file' = file \ { v.uri : v \in VersionsOf(d) }
    /\ UNCHANGED <<doc, version, uploaded, job, History>>

\* deleteBoardDocument: the row as it is when it is deleted names the files.
DeleteRow(x) ==
    /\ At(x, {"remove"}, "swept") /\ NoOther(x, Names) /\ NoOther(x, Deletes)
    /\ \A d \in work[x].docs : Stands(d)
    /\ work' = [work EXCEPT ![x] = [@ EXCEPT !.at = "deleted", !.old = UNION { FilesOf(d) : d \in work[x].docs }]]
    /\ UNCHANGED <<doc, version, file, uploaded, job, History>>

\* bulkDeleteBoardItems: the rows as they were before name the files.
BulkDelete(x, ds) ==
    /\ ds # {} /\ \A d \in ds : Stands(d)
    /\ Start(x, Asked("bulk", "read", ds, Absent, Absent, 0, UNION { FilesOf(d) : d \in ds }))
    /\ UNCHANGED <<doc, version, file, uploaded, job, History>>

DeleteRows(x) ==
    /\ At(x, {"bulk"}, "read") /\ NoOther(x, Names) /\ NoOther(x, Deletes)
    /\ Go(x, "deleted")
    /\ UNCHANGED <<doc, version, file, uploaded, job, History>>

\* Mutant: the row as it is after the update names the files.
CleanUpUpdated(x) ==
    /\ At(x, Uploads, "updated") \/ At(x, Deletions, "deleted")
    /\ Go(x, "cleaned")
    /\ file' = file \ (IF work[x].kind \in Uploads THEN {work[x].uri} ELSE work[x].old)
    /\ UNCHANGED <<doc, version, uploaded, job, History>>

\* The files are deleted inside the transaction.
CleanUp(x) ==
    /\ At(x, Uploads, "updated") \/ At(x, Deletions, "deleted")
    /\ Go(x, "cleaned")
    /\ file' = file \ work[x].old
    /\ UNCHANGED <<doc, version, uploaded, job, History>>

Alive(j) == job[j] \notin {Absent, Gone}

\* thumbnailQueue.add: a worker may take the job at once.
Enqueue(x, j) ==
    /\ At(x, Uploads \cup {"create"}, "cleaned") /\ job[j] = Absent
    /\ \E d \in work[x].docs :
          /\ job' = [job EXCEPT ![j] = [document |-> d, pdf |-> work[x].uri, left |-> Attempts, drawn |-> FALSE]]
          /\ smudged' = IF \E k \in Jobs : Alive(k) /\ job[k].document = d THEN smudged \cup {d} ELSE smudged
    /\ Go(x, "queued")
    /\ UNCHANGED <<doc, version, file, uploaded, overlapped, lost>>

\* Mutant: an upload leaves the thumbnail in the row.
CommitKeepingThumbnail(x) ==
    LET q == work[x]
        deleting == q.kind \in Deletions
    IN  /\ q.at = IF deleting THEN "cleaned" ELSE "queued"
        /\ doc' = [d \in Documents |->
                      IF d \notin q.docs THEN doc[d]
                      ELSE IF deleting THEN Gone ELSE [uri |-> q.uri,
                                                        thumbnailUri |-> IF Stands(d) THEN doc[d].thumbnailUri ELSE Absent]]
        /\ version' = IF deleting THEN { v \in version : v.document \notin q.docs }
                      ELSE version \cup { [document |-> d, versionNumber |-> q.number, uri |-> q.uri, uploadedBy |-> q.by]
                                          : d \in q.docs }
        /\ lost' = IF q.kind = "restore" /\ q.uri \notin file THEN lost \cup q.docs ELSE lost \ q.docs
        /\ work' = [work EXCEPT ![x] = Idle]
        /\ UNCHANGED <<file, uploaded, job, overlapped, smudged>>

\* Mutant: a restore is not recorded as a version.
CommitUnversioned(x) ==
    LET q == work[x]
        deleting == q.kind \in Deletions
    IN  /\ q.at = IF deleting THEN "cleaned" ELSE "queued"
        /\ doc' = [d \in Documents |->
                      IF d \notin q.docs THEN doc[d]
                      ELSE IF deleting THEN Gone ELSE [uri |-> q.uri, thumbnailUri |-> Absent]]
        /\ version' = IF deleting THEN { v \in version : v.document \notin q.docs }
                      ELSE IF q.kind = "restore" THEN version
                      ELSE version \cup { [document |-> d, versionNumber |-> q.number, uri |-> q.uri, uploadedBy |-> q.by]
                                          : d \in q.docs }
        /\ lost' = IF q.kind = "restore" /\ q.uri \notin file THEN lost \cup q.docs ELSE lost \ q.docs
        /\ work' = [work EXCEPT ![x] = Idle]
        /\ UNCHANGED <<file, uploaded, job, overlapped, smudged>>

\* The versions go with their document.
Commit(x) ==
    LET q == work[x]
        deleting == q.kind \in Deletions
    IN  /\ q.at = IF deleting THEN "cleaned" ELSE "queued"
        /\ doc' = [d \in Documents |->
                      IF d \notin q.docs THEN doc[d]
                      ELSE IF deleting THEN Gone ELSE [uri |-> q.uri, thumbnailUri |-> Absent]]
        /\ version' = IF deleting THEN { v \in version : v.document \notin q.docs }
                      ELSE version \cup { [document |-> d, versionNumber |-> q.number, uri |-> q.uri, uploadedBy |-> q.by]
                                          : d \in q.docs }
        /\ lost' = IF q.kind = "restore" /\ q.uri \notin file THEN lost \cup q.docs ELSE lost \ q.docs
        /\ work' = [work EXCEPT ![x] = Idle]
        /\ UNCHANGED <<file, uploaded, job, overlapped, smudged>>

\* Files of these documents are gone already.
Erased(x, d) ==
    /\ d \in work[x].docs
    /\ \/ work[x].kind \in Uploads /\ work[x].at \in {"cleaned", "queued"}
       \/ work[x].kind = "remove"
       \/ work[x].kind = "bulk" /\ work[x].at = "cleaned"

\* A failure after any statement: a row that is gone, a deadlock, a timeout, a queue that
\* does not answer, or what the route does after these calls.
Rollback(x) ==
    /\ work[x] # Idle
    /\ doc' = [d \in Documents |-> IF work[x].kind = "create" /\ d \in work[x].docs THEN Gone ELSE doc[d]]
    /\ lost' = lost \cup { d \in Documents : Erased(x, d) }
    /\ smudged' = IF work[x].at = "queued" THEN smudged \cup work[x].docs ELSE smudged
    /\ work' = [work EXCEPT ![x] = Idle]
    /\ UNCHANGED <<version, file, uploaded, job, overlapped>>

-----------------------------------------------------------------------------
(* The worker, with its two hands.                                         *)

Over(j) == job' = [job EXCEPT ![j] = Gone]

\* The handler throws, or the worker dies: the job is taken again.
Again(j) == job' = [job EXCEPT ![j] = IF job[j].left = 1 THEN Gone ELSE [job[j] EXCEPT !.left = job[j].left - 1, !.drawn = FALSE]]

KeyOf(j) == [pdf |-> job[j].pdf, job |-> j, left |-> job[j].left]

\* generateThumbnail and saveThumbnailFile.
Draw(j) ==
    /\ Alive(j) /\ ~job[j].drawn /\ job[j].pdf \in file
    /\ file' = file \cup {KeyOf(j)}
    /\ job' = [job EXCEPT ![j].drawn = TRUE]
    /\ UNCHANGED <<doc, version, uploaded, work, History>>

\* The file is not there, or it cannot be drawn.
Skip(j) ==
    /\ Alive(j) /\ ~job[j].drawn
    /\ Over(j)
    /\ UNCHANGED <<doc, version, file, uploaded, work, History>>

\* The update of the row waits for its lock, and throws when it is not there.
Show(j) ==
    LET d == job[j].document IN
    /\ Alive(j) /\ job[j].drawn /\ Stands(d)
    /\ \A z \in Connections : ~Updates(z, d) /\ ~Deletes(z, d)
    /\ doc' = [doc EXCEPT ![d].thumbnailUri = KeyOf(j)]
    /\ Over(j)
    /\ UNCHANGED <<version, file, uploaded, work, History>>

Throws(j) ==
    /\ Alive(j)
    /\ Again(j)
    /\ UNCHANGED <<doc, version, file, uploaded, work, History>>

BoardNext ==
    \/ \E x \in Connections :
          \/ \E d \in Documents, f \in Pdfs :
                (\E a \in Authors : Create(x, d, f, a)) \/ (\E a \in Editors : Replace(x, d, f, a))
          \/ \E v \in version, a \in Editors : Restore(x, v, a)
          \/ ReadNumber(x) \/ InsertVersion(x) \/ UpdateDocument(x)
          \/ \E d \in Documents : SweepVersions(x, d)
          \/ \E ds \in SUBSET Documents : BulkDelete(x, ds)
          \/ DeleteRow(x) \/ DeleteRows(x) \/ CleanUp(x)
          \/ \E j \in Jobs : Enqueue(x, j)
          \/ Commit(x) \/ Rollback(x)
    \/ \E j \in Jobs : Draw(j) \/ Skip(j) \/ Show(j) \/ Throws(j)

BoardSpec == BoardInit /\ [][BoardNext]_boardVars

-----------------------------------------------------------------------------
BoardTypes ==
    /\ doc \in [Documents -> DocumentRow \cup {Absent, Gone}]
    /\ version \subseteq VersionRow
    /\ file \subseteq Pdfs \cup Thumbnail /\ uploaded \subseteq Pdfs
    /\ job \in [Jobs -> Job \cup {Absent, Gone}]
    /\ work \in [Connections -> Work]
    /\ overlapped \subseteq Documents /\ lost \subseteq Documents /\ smudged \subseteq Documents

\* What a row names is in the store, though files are deleted before the commit and by
\* keys that were read long ago: unless a request is between the two, or has rolled back
\* in between, or a restore brought back a file that a replacement had deleted.
FilesStand ==
    \A d \in Documents \ lost :
        FilesOf(d) \subseteq file \/ \E x \in Connections : Erased(x, d)

\* "the latest row always matches the current BoardDocument.uri": the versions of a
\* document are numbered apart and the last one is the current file, unless two uploads
\* or restores of it overlapped.
LatestIsCurrent ==
    \A d \in Documents \ overlapped :
        /\ \A v, w \in VersionsOf(d) : v.versionNumber = w.versionNumber => v = w
        /\ Stands(d) => \A v \in VersionsOf(d) : IsLastNumber(d, v.versionNumber) => v.uri = doc[d].uri

\* isDocumentOwnedByUploader asks who uploaded version 1: whatever is uploaded and
\* restored, by whom and at once, that is one account and stays the same. (A document of
\* before the versions has no author, and then who first replaces its file.)
Owners(d) == { v.uploadedBy : v \in { v \in VersionsOf(d) : v.versionNumber = 1 } }
Unauthored == UNION { { d \in DOMAIN old : old[d].by = Absent } : old \in FirstDays }

OwnerStays ==
    [][\A d \in Documents \ Unauthored : Stands(d) /\ Stands(d)' => Owners(d)' = Owners(d)]_boardVars

\* A thumbnail is of the current file, unless a job of the document was queued while
\* another one was under way, or by a request that rolled back.
ThumbnailTells ==
    \A d \in Documents \ smudged :
        Stands(d) /\ doc[d].thumbnailUri # Absent => doc[d].thumbnailUri.pdf = doc[d].uri

\* "Restoring brings back the chosen file as the current one" (display-board.md): when a
\* restore is saved, its file is in the store, unless a failure had taken it.
RestoreBringsBack ==
    [][\A x \in Connections :
          At(x, {"restore"}, "queued") /\ Commit(x) /\ work[x].docs \cap lost = {} => work[x].uri \in file]_boardVars
=============================================================================
