-------------------------- MODULE BoardFilesProofs --------------------------
(***************************************************************************)
(* What holds of the documents of the board, for any number of them, of    *)
(* requests at once, of jobs and of attempts.                              *)
(***************************************************************************)
EXTENDS BoardFiles, TLAPS

\* How far a request gets, and what it knows by then.
Shape(q) ==
    \/ q = Idle
    \/ /\ q.kind = "create" /\ q.at \in {"cleaned", "queued"}
       /\ q.number = 1 /\ q.uri \in Pdfs /\ q.by \in Authors /\ q.old = {}
       /\ \E d \in Documents : q.docs = {d}
    \/ /\ q.kind \in Uploads /\ q.at \in {"read", "numbered", "inserted", "updated", "cleaned", "queued"}
       /\ q.at # "read" => q.number # 0
       /\ q.uri \in Pdfs /\ q.by \in Editors
       /\ \E d \in Documents : q.docs = {d}
    \/ /\ q.kind = "remove" /\ q.at \in {"swept", "deleted", "cleaned"} /\ q.uri = Absent
       /\ \E d \in Documents : q.docs = {d}
    \/ q.kind = "bulk" /\ q.at \in {"read", "deleted", "cleaned"} /\ q.uri = Absent

Shapes == BoardTypes /\ \A x \in Connections : Shape(work[x])

LEMMA Rows ==
    ASSUME BoardTypes
    PROVE  /\ \A d \in Documents : (Stands(d) => doc[d] \in DocumentRow) /\ FilesOf(d) \subseteq Pdfs \cup Thumbnail
           /\ \A j \in Jobs : Alive(j) => job[j] \in Job /\ KeyOf(j) \in Thumbnail
  BY BoardAssumption DEF BoardTypes, Stands, Alive, FilesOf, DocumentRow, Job, KeyOf, Thumbnail

LEMMA ShapesInit == BoardInit => Shapes
<1> SUFFICES ASSUME BoardInit PROVE Shapes
  OBVIOUS
<1> USE BoardAssumption
<1>1. PICK old \in FirstDays :
        /\ doc = [d \in Documents |->
                    IF d \in DOMAIN old THEN [uri |-> old[d].uri, thumbnailUri |-> Absent] ELSE Absent]
        /\ version = { [document |-> d, versionNumber |-> 1, uri |-> old[d].uri, uploadedBy |-> old[d].by]
                      : d \in { e \in DOMAIN old : old[e].by # Absent } }
        /\ uploaded = { old[d].uri : d \in DOMAIN old } /\ file = uploaded
  BY DEF BoardInit
<1>2. /\ DOMAIN old \subseteq Documents
      /\ \A d \in DOMAIN old : old[d] \in [uri : Pdfs, by : Authors \cup {Absent}]
  BY <1>1
<1>3. doc \in [Documents -> DocumentRow \cup {Absent, Gone}]
  BY <1>1, <1>2 DEF DocumentRow
<1>4. version \subseteq VersionRow
  BY <1>1, <1>2 DEF VersionRow
<1>5. file \subseteq Pdfs \cup Thumbnail /\ uploaded \subseteq Pdfs
  BY <1>1, <1>2
<1>6. Idle \in Work
  BY DEF Idle, Asked, Work, Places
<1>7. work \in [Connections -> Work] /\ \A x \in Connections : Shape(work[x])
  BY <1>6 DEF BoardInit, Shape
<1> QED
  BY <1>3, <1>4, <1>5, <1>7 DEF BoardInit, BoardTypes, Shapes

LEMMA WorkTyped ==
    ASSUME work \in [Connections -> Work], \A z \in Connections : Shape(work[z]),
           NEW x \in Connections, NEW q \in Work, Shape(q),
           work' = [work EXCEPT ![x] = q]
    PROVE  work' \in [Connections -> Work] /\ \A z \in Connections : Shape(work'[z])
  OBVIOUS

LEMMA ShapesStep ==
    ASSUME Shapes, [BoardNext]_boardVars
    PROVE  Shapes'
<1> USE BoardAssumption
<1>0. BoardTypes /\ \A x \in Connections : Shape(work[x])
  BY DEF Shapes
<1> USE DEF BoardTypes, History
<1>1. ASSUME NEW x \in Connections, NEW d \in Documents, NEW f \in Pdfs, NEW a \in Authors, Create(x, d, f, a)
      PROVE  Shapes'
  <2> DEFINE q == Asked("create", "cleaned", {d}, f, a, 1, {})
  <2>1. q \in Work /\ Shape(q)
    BY DEF Idle, Asked, Work, Places, Shape
  <2>2. work' \in [Connections -> Work] /\ \A z \in Connections : Shape(work'[z])
    BY <1>0, <1>1, <2>1, WorkTyped DEF Create, Start
  <2> QED
    BY <1>0, <1>1, <2>2 DEF Create, SaveBoardFile, Shapes
<1>2. ASSUME NEW x \in Connections, NEW d \in Documents, NEW f \in Pdfs, NEW a \in Editors, Replace(x, d, f, a)
      PROVE  Shapes'
  <2> DEFINE old == FilesOf(d)
             q == Asked("replace", "read", {d}, f, a, 0, old)
  <2>1. old \subseteq Pdfs \cup Thumbnail
    BY <1>0, Rows
  <2>2. q \in Work /\ Shape(q)
    BY <2>1 DEF Idle, Asked, Work, Places, Shape, Uploads
  <2>3. work' \in [Connections -> Work] /\ \A z \in Connections : Shape(work'[z])
    BY <1>0, <1>2, <2>2, WorkTyped DEF Replace, Start
  <2> QED
    BY <1>0, <1>2, <2>3 DEF Replace, SaveBoardFile, Overlap, Shapes
<1>3. ASSUME NEW x \in Connections, NEW v \in version, NEW a \in Editors, Restore(x, v, a)
      PROVE  Shapes'
  <2> DEFINE old == FilesOf(v.document) \ Pdfs
             q == Asked("restore", "read", {v.document}, v.uri, a, 0, old)
  <2>1. v.document \in Documents /\ v.uri \in Pdfs
    BY <1>0 DEF VersionRow
  <2>2. old \subseteq Pdfs \cup Thumbnail
    BY <1>0, <2>1, Rows
  <2>3. q \in Work /\ Shape(q)
    BY <2>1, <2>2 DEF Asked, Work, Places, Shape, Uploads
  <2>4. work' \in [Connections -> Work] /\ \A z \in Connections : Shape(work'[z])
    BY <1>0, <1>3, <2>3, WorkTyped DEF Restore, Start
  <2> QED
    BY <1>0, <1>3, <2>1, <2>4 DEF Restore, Overlap, Shapes
<1>4. ASSUME NEW x \in Connections, InsertVersion(x)
      PROVE  Shapes'
  <2> DEFINE q == [work[x] EXCEPT !.at = "inserted"]
  <2>1. work[x] \in Work /\ Shape(work[x])
    BY <1>0
  <2>2. q \in Work
    BY <2>1 DEF Work, Places
  <2>3. Shape(q)
    BY <2>1, <1>4 DEF InsertVersion, At, Work, Shape, Uploads, Deletions, Idle, Asked
  <2>4. work' = [work EXCEPT ![x] = q]
    BY <1>4 DEF InsertVersion, Go
  <2>5. work' \in [Connections -> Work] /\ \A z \in Connections : Shape(work'[z])
    BY <1>0, <2>2, <2>3, <2>4, WorkTyped
  <2> QED
    BY <1>0, <1>4, <2>1, <2>5 DEF InsertVersion, Shapes
<1>5. ASSUME NEW x \in Connections, UpdateDocument(x)
      PROVE  Shapes'
  <2> DEFINE q == [work[x] EXCEPT !.at = "updated"]
  <2>1. work[x] \in Work /\ Shape(work[x])
    BY <1>0
  <2>2. q \in Work
    BY <2>1 DEF Work, Places
  <2>3. Shape(q)
    BY <2>1, <1>5 DEF UpdateDocument, At, Work, Shape, Uploads, Deletions, Idle, Asked
  <2>4. work' = [work EXCEPT ![x] = q]
    BY <1>5 DEF UpdateDocument, Go
  <2>5. work' \in [Connections -> Work] /\ \A z \in Connections : Shape(work'[z])
    BY <1>0, <2>2, <2>3, <2>4, WorkTyped
  <2> QED
    BY <1>0, <1>5, <2>1, <2>5 DEF UpdateDocument, Shapes
<1>6. ASSUME NEW x \in Connections, DeleteRows(x)
      PROVE  Shapes'
  <2> DEFINE q == [work[x] EXCEPT !.at = "deleted"]
  <2>1. work[x] \in Work /\ Shape(work[x])
    BY <1>0
  <2>2. q \in Work
    BY <2>1 DEF Work, Places
  <2>3. Shape(q)
    BY <2>1, <1>6 DEF DeleteRows, At, Work, Shape, Uploads, Deletions, Idle, Asked
  <2>4. work' = [work EXCEPT ![x] = q]
    BY <1>6 DEF DeleteRows, Go
  <2>5. work' \in [Connections -> Work] /\ \A z \in Connections : Shape(work'[z])
    BY <1>0, <2>2, <2>3, <2>4, WorkTyped
  <2> QED
    BY <1>0, <1>6, <2>1, <2>5 DEF DeleteRows, Shapes
<1>7. ASSUME NEW x \in Connections, CleanUp(x)
      PROVE  Shapes'
  <2> DEFINE q == [work[x] EXCEPT !.at = "cleaned"]
  <2>1. work[x] \in Work /\ Shape(work[x])
    BY <1>0
  <2>2. q \in Work
    BY <2>1 DEF Work, Places
  <2>3. Shape(q)
    BY <2>1, <1>7 DEF CleanUp, At, Work, Shape, Uploads, Deletions, Idle, Asked
  <2>4. work' = [work EXCEPT ![x] = q]
    BY <1>7 DEF CleanUp, Go
  <2>5. work' \in [Connections -> Work] /\ \A z \in Connections : Shape(work'[z])
    BY <1>0, <2>2, <2>3, <2>4, WorkTyped
  <2> QED
    BY <1>0, <1>7, <2>1, <2>5 DEF CleanUp, Shapes, Work
<1>8. ASSUME NEW x \in Connections, ReadNumber(x)
      PROVE  Shapes'
  <2>1. work[x] \in Work /\ Shape(work[x])
    BY <1>0
  <2>2. PICK n \in 0..MaxVersion - 1 : work' = [work EXCEPT ![x] = [@ EXCEPT !.at = "numbered", !.number = n + 1]]
    BY <1>8 DEF ReadNumber
  <2> DEFINE q == [work[x] EXCEPT !.at = "numbered", !.number = n + 1]
  <2>3. n + 1 \in 0..MaxVersion /\ n + 1 # 0
    OBVIOUS
  <2>4. q \in Work
    BY <2>1, <2>3 DEF Work, Places
  <2>5. Shape(q)
    BY <2>1, <2>3, <1>8 DEF ReadNumber, At, Work, Shape, Uploads, Deletions, Idle, Asked
  <2>6. work' \in [Connections -> Work] /\ \A z \in Connections : Shape(work'[z])
    BY <1>0, <2>2, <2>4, <2>5, WorkTyped
  <2> QED
    BY <1>0, <1>8, <2>6 DEF ReadNumber, Shapes
<1>9. ASSUME NEW x \in Connections, NEW d \in Documents, SweepVersions(x, d)
      PROVE  Shapes'
  <2> DEFINE q == Asked("remove", "swept", {d}, Absent, Absent, 0, {})
  <2>1. q \in Work /\ Shape(q)
    BY DEF Asked, Work, Places, Shape, Deletions
  <2>2. work' \in [Connections -> Work] /\ \A z \in Connections : Shape(work'[z])
    BY <1>0, <1>9, <2>1, WorkTyped DEF SweepVersions, Start
  <2> QED
    BY <1>0, <1>9, <2>2 DEF SweepVersions, Shapes
<1>10. ASSUME NEW x \in Connections, NEW ds \in SUBSET Documents, BulkDelete(x, ds)
       PROVE  Shapes'
  <2> DEFINE old == UNION { FilesOf(d) : d \in ds }
             q == Asked("bulk", "read", ds, Absent, Absent, 0, old)
  <2>1. old \subseteq Pdfs \cup Thumbnail
    BY <1>0, Rows
  <2>2. q \in Work /\ Shape(q)
    BY <2>1 DEF Asked, Work, Places, Shape, Deletions
  <2>3. work' \in [Connections -> Work] /\ \A z \in Connections : Shape(work'[z])
    BY <1>0, <1>10, <2>2, WorkTyped DEF BulkDelete, Start
  <2> QED
    BY <1>0, <1>10, <2>3 DEF BulkDelete, Shapes
<1>11. ASSUME NEW x \in Connections, DeleteRow(x)
       PROVE  Shapes'
  <2> DEFINE old == UNION { FilesOf(d) : d \in work[x].docs }
             q == [work[x] EXCEPT !.at = "deleted", !.old = old]
  <2>1. work[x] \in Work /\ Shape(work[x])
    BY <1>0
  <2>2. old \subseteq Pdfs \cup Thumbnail
    BY <1>0, <2>1, Rows DEF Work
  <2>3. q \in Work
    BY <2>1, <2>2 DEF Work, Places
  <2>4. Shape(q)
    BY <2>1, <1>11 DEF DeleteRow, At, Work, Shape, Uploads, Idle, Asked
  <2>5. work' \in [Connections -> Work] /\ \A z \in Connections : Shape(work'[z])
    BY <1>0, <1>11, <2>3, <2>4, WorkTyped DEF DeleteRow
  <2> QED
    BY <1>0, <1>11, <2>5 DEF DeleteRow, Shapes
<1>12. ASSUME NEW x \in Connections, NEW j \in Jobs, Enqueue(x, j)
       PROVE  Shapes'
  <2> DEFINE q == [work[x] EXCEPT !.at = "queued"]
  <2>1. work[x] \in Work /\ Shape(work[x])
    BY <1>0
  <2>2. q \in Work
    BY <2>1 DEF Work, Places
  <2>3. Shape(q) /\ work[x].uri \in Pdfs /\ work[x].docs \subseteq Documents
    BY <2>1, <1>12 DEF Enqueue, At, Work, Shape, Uploads, Deletions, Idle, Asked
  <2>4. work' \in [Connections -> Work] /\ \A z \in Connections : Shape(work'[z])
    BY <1>0, <1>12, <2>2, <2>3, WorkTyped DEF Enqueue, Go
  <2>5. PICK d \in work[x].docs :
          /\ job' = [job EXCEPT ![j] = [document |-> d, pdf |-> work[x].uri, left |-> Attempts, drawn |-> FALSE]]
          /\ smudged' \subseteq smudged \cup {d}
    BY <1>12 DEF Enqueue
  <2>6. job' \in [Jobs -> Job \cup {Absent, Gone}] /\ smudged' \subseteq Documents
    BY <1>0, <2>3, <2>5 DEF Job
  <2> QED
    BY <1>0, <1>12, <2>4, <2>6 DEF Enqueue, Shapes
<1>13. ASSUME NEW x \in Connections, Commit(x)
       PROVE  Shapes'
  <2> DEFINE q == work[x]
  <2>1. q \in Work /\ Shape(q)
    BY <1>0
  <2>2. Idle \in Work /\ Shape(Idle)
    BY DEF Idle, Asked, Work, Places, Shape
  <2>3. work' \in [Connections -> Work] /\ \A z \in Connections : Shape(work'[z])
    BY <1>0, <1>13, <2>2, WorkTyped DEF Commit
  <2>4. q.docs \subseteq Documents
    BY <2>1 DEF Work
  <2>5. q.kind \notin Deletions => q.uri \in Pdfs /\ q.number \in 1..MaxVersion /\ q.by \in Authors \cup Editors
    BY <1>13, <2>1 DEF Commit, Work, Shape, Uploads, Deletions, Idle, Asked
  <2>6. doc' \in [Documents -> DocumentRow \cup {Absent, Gone}]
    BY <1>0, <1>13, <2>5 DEF Commit, DocumentRow
  <2>7. version' \subseteq VersionRow
    BY <1>0, <1>13, <2>4, <2>5 DEF Commit, VersionRow
  <2>8. lost' \subseteq Documents
    BY <1>0, <1>13, <2>4 DEF Commit
  <2> QED
    BY <1>0, <1>13, <2>3, <2>6, <2>7, <2>8 DEF Commit, Shapes
<1>14. ASSUME NEW x \in Connections, Rollback(x)
       PROVE  Shapes'
  <2>1. Idle \in Work /\ Shape(Idle)
    BY DEF Idle, Asked, Work, Places, Shape
  <2>2. work' \in [Connections -> Work] /\ \A z \in Connections : Shape(work'[z])
    BY <1>0, <1>14, <2>1, WorkTyped DEF Rollback
  <2>3. smudged' \subseteq Documents
    BY <1>0, <1>14 DEF Rollback, Work
  <2> QED
    BY <1>0, <1>14, <2>2, <2>3 DEF Rollback, Shapes
<1>15. ASSUME NEW j \in Jobs, Draw(j) \/ Skip(j) \/ Show(j) \/ Throws(j)
       PROVE  Shapes'
  <2>1. job[j] \in Job /\ KeyOf(j) \in Thumbnail
    BY <1>0, <1>15, Rows DEF Draw, Skip, Show, Throws
  <2>2. CASE Draw(j)
    BY <1>0, <2>1, <2>2 DEF Draw, Job, Shapes
  <2>3. CASE Skip(j)
    BY <1>0, <2>1, <2>3 DEF Skip, Over, Shapes
  <2>4. CASE Show(j)
    <3>1. job[j].document \in Documents /\ doc[job[j].document] \in DocumentRow
      BY <1>0, <2>1, <2>4, Rows DEF Show, Job
    <3>2. doc' \in [Documents -> DocumentRow \cup {Absent, Gone}]
      BY <1>0, <2>1, <2>4, <3>1 DEF Show, DocumentRow
    <3> QED
      BY <1>0, <2>4, <3>2 DEF Show, Over, Shapes
  <2>5. CASE Throws(j)
    <3>1. job[j].left # 1 => job[j].left - 1 \in 1..Attempts
      BY <2>1 DEF Job
    <3>2. job[j].left # 1 => [job[j] EXCEPT !.left = job[j].left - 1, !.drawn = FALSE] \in Job
      BY <2>1, <3>1 DEF Job
    <3>3. job' \in [Jobs -> Job \cup {Absent, Gone}]
      BY <1>0, <2>5, <3>2 DEF Throws, Again
    <3> QED
      BY <1>0, <2>5, <3>3 DEF Throws, Shapes
  <2> QED
    BY <1>15, <2>2, <2>3, <2>4, <2>5
<1>16. CASE UNCHANGED boardVars
  BY <1>0, <1>16 DEF boardVars, Shapes
<1> QED
  BY <1>1, <1>2, <1>3, <1>4, <1>5, <1>6, <1>7, <1>8, <1>9, <1>10, <1>11, <1>12, <1>13, <1>14, <1>15, <1>16
     DEF BoardNext

-----------------------------------------------------------------------------
(* What a step changes of the request that takes it.                       *)

\* The request of x goes from one place to another one; those of the others stay.
Goes(x, from, to) ==
    /\ work[x] \in Work /\ work'[x] \in Work
    /\ work[x].at = from /\ work'[x].at = to
    /\ work'[x].kind = work[x].kind /\ work'[x].docs = work[x].docs
    /\ work'[x].uri = work[x].uri /\ work'[x].by = work[x].by
    /\ \A z \in Connections \ {x} : work'[z] = work[z]

Starts(x, q) ==
    /\ work[x] = Idle /\ work'[x] = q
    /\ \A z \in Connections \ {x} : work'[z] = work[z]

Ends(x) ==
    /\ work[x] \in Work /\ Shape(work[x]) /\ work'[x] = Idle
    /\ \A z \in Connections \ {x} : work'[z] = work[z]

LEMMA Starting ==
    ASSUME Shapes, NEW x \in Connections
    PROVE  /\ \A d \in Documents, f \in Pdfs : \A a : Create(x, d, f, a) => Starts(x, Asked("create", "cleaned", {d}, f, a, 1, {}))
           /\ \A d \in Documents, f \in Pdfs : \A a : Replace(x, d, f, a) => Starts(x, Asked("replace", "read", {d}, f, a, 0, FilesOf(d)))
           /\ \A v \in version : \A a : Restore(x, v, a) =>
                 Starts(x, Asked("restore", "read", {v.document}, v.uri, a, 0, FilesOf(v.document) \ Pdfs))
           /\ \A d \in Documents : SweepVersions(x, d) => Starts(x, Asked("remove", "swept", {d}, Absent, Absent, 0, {}))
           /\ \A ds \in SUBSET Documents : BulkDelete(x, ds) =>
                 Starts(x, Asked("bulk", "read", ds, Absent, Absent, 0, UNION { FilesOf(d) : d \in ds }))
<1> USE DEF Shapes, BoardTypes, Starts, Start
<1>1. \A d \in Documents, f \in Pdfs : \A a : Create(x, d, f, a) => Starts(x, Asked("create", "cleaned", {d}, f, a, 1, {}))
  BY DEF Create
<1>2. \A d \in Documents, f \in Pdfs : \A a : Replace(x, d, f, a) => Starts(x, Asked("replace", "read", {d}, f, a, 0, FilesOf(d)))
  BY DEF Replace
<1>3. \A v \in version : \A a : Restore(x, v, a) =>
        Starts(x, Asked("restore", "read", {v.document}, v.uri, a, 0, FilesOf(v.document) \ Pdfs))
  BY DEF Restore
<1>4. \A d \in Documents : SweepVersions(x, d) => Starts(x, Asked("remove", "swept", {d}, Absent, Absent, 0, {}))
  BY DEF SweepVersions
<1>5. \A ds \in SUBSET Documents : BulkDelete(x, ds) =>
        Starts(x, Asked("bulk", "read", ds, Absent, Absent, 0, UNION { FilesOf(d) : d \in ds }))
  BY DEF BulkDelete
<1> QED
  BY <1>1, <1>2, <1>3, <1>4, <1>5

LEMMA Going ==
    ASSUME Shapes, Shapes', NEW x \in Connections
    PROVE  /\ ReadNumber(x) => Goes(x, "read", "numbered") /\ work[x].kind \in Uploads /\ work'[x].old = work[x].old
           /\ InsertVersion(x) =>
                 /\ Goes(x, "numbered", "inserted") /\ work[x].kind \in Uploads
                 /\ work'[x].old = work[x].old /\ work'[x].number = work[x].number
           /\ UpdateDocument(x) =>
                 /\ Goes(x, "inserted", "updated") /\ work[x].kind \in Uploads
                 /\ work'[x].old = work[x].old /\ work'[x].number = work[x].number
           /\ DeleteRow(x) => Goes(x, "swept", "deleted") /\ work[x].kind = "remove"
           /\ DeleteRows(x) => Goes(x, "read", "deleted") /\ work[x].kind = "bulk" /\ work'[x].old = work[x].old
           /\ CleanUp(x) =>
                 /\ \/ Goes(x, "updated", "cleaned") /\ work[x].kind \in Uploads
                    \/ Goes(x, "deleted", "cleaned") /\ work[x].kind \in Deletions
                 /\ work'[x].old = work[x].old /\ work'[x].number = work[x].number
           /\ \A j \in Jobs : Enqueue(x, j) =>
                 /\ Goes(x, "cleaned", "queued") /\ work[x].kind \in Uploads \cup {"create"}
                 /\ work'[x].old = work[x].old /\ work'[x].number = work[x].number
           /\ Commit(x) \/ Rollback(x) => Ends(x)
<1> USE DEF Goes, Go, At
<1>1. /\ work \in [Connections -> Work] /\ work' \in [Connections -> Work]
      /\ work[x] \in [kind : Uploads \cup Deletions \cup {"create", "none"}, at : Places, docs : SUBSET Documents,
                       uri : Pdfs \cup {Absent}, by : Authors \cup Editors \cup {Absent}, number : 0..MaxVersion,
                       old : SUBSET (Pdfs \cup Thumbnail)]
      /\ Shape(work[x])
  BY DEF Shapes, BoardTypes, Work
<1>2. ReadNumber(x) => Goes(x, "read", "numbered") /\ work[x].kind \in Uploads /\ work'[x].old = work[x].old
  BY <1>1 DEF ReadNumber
<1>3. InsertVersion(x) =>
        /\ Goes(x, "numbered", "inserted") /\ work[x].kind \in Uploads
        /\ work'[x].old = work[x].old /\ work'[x].number = work[x].number
  BY <1>1 DEF InsertVersion
<1>4. UpdateDocument(x) =>
        /\ Goes(x, "inserted", "updated") /\ work[x].kind \in Uploads
        /\ work'[x].old = work[x].old /\ work'[x].number = work[x].number
  BY <1>1 DEF UpdateDocument
<1>5. DeleteRow(x) => Goes(x, "swept", "deleted") /\ work[x].kind = "remove"
  BY <1>1 DEF DeleteRow
<1>6. DeleteRows(x) => Goes(x, "read", "deleted") /\ work[x].kind = "bulk" /\ work'[x].old = work[x].old
  BY <1>1 DEF DeleteRows
<1>7. CleanUp(x) =>
        /\ \/ Goes(x, "updated", "cleaned") /\ work[x].kind \in Uploads
           \/ Goes(x, "deleted", "cleaned") /\ work[x].kind \in Deletions
        /\ work'[x].old = work[x].old /\ work'[x].number = work[x].number
  BY <1>1 DEF CleanUp
<1>8. \A j \in Jobs : Enqueue(x, j) =>
        /\ Goes(x, "cleaned", "queued") /\ work[x].kind \in Uploads \cup {"create"}
        /\ work'[x].old = work[x].old /\ work'[x].number = work[x].number
  BY <1>1 DEF Enqueue
<1>9. Commit(x) \/ Rollback(x) => Ends(x)
  BY <1>1 DEF Commit, Rollback, Ends, Shapes, BoardTypes
<1> QED
  BY <1>2, <1>3, <1>4, <1>5, <1>6, <1>7, <1>8, <1>9

-----------------------------------------------------------------------------
(* Rows and locks.                                                         *)

Anchored == \A v \in version : Stands(v.document)

\* Nobody else has to do with a document that is being created.
Creating ==
    \A x \in Connections : work[x].kind = "create" =>
        \A d \in work[x].docs : doc[d] = Absent /\ \A z \in Connections \ {x} : d \notin work[z].docs

\* The document of a version that was inserted cannot go before the request ends.
Held ==
    \A x \in Connections : work[x].kind \in Uploads =>
        \A d \in work[x].docs :
            /\ doc[d] # Absent
            /\ Names(x, d) => Stands(d) /\ \A z \in Connections \ {x} : ~Deletes(z, d)

Exclusive ==
    \A x, z \in Connections, d \in Documents : Updates(x, d) /\ Updates(z, d) => x = z

RowsInv == Shapes /\ Anchored /\ Creating /\ Held /\ Exclusive

LEMMA RowsInit == BoardInit => RowsInv
<1> SUFFICES ASSUME BoardInit PROVE RowsInv
  OBVIOUS
<1>1. Shapes
  BY ShapesInit
<1>2. PICK old \in FirstDays :
        /\ doc = [d \in Documents |->
                    IF d \in DOMAIN old THEN [uri |-> old[d].uri, thumbnailUri |-> Absent] ELSE Absent]
        /\ version = { [document |-> d, versionNumber |-> 1, uri |-> old[d].uri, uploadedBy |-> old[d].by]
                      : d \in { e \in DOMAIN old : old[e].by # Absent } }
  BY DEF BoardInit
<1>3. DOMAIN old \subseteq Documents /\ \A d \in DOMAIN old : [uri |-> old[d].uri, thumbnailUri |-> Absent] \in DocumentRow
  BY BoardAssumption DEF DocumentRow
<1>4. \A row \in DocumentRow : row # Absent /\ row # Gone
  BY BoardAssumption
<1>5. Anchored
  BY <1>2, <1>3, <1>4 DEF Anchored, Stands
<1>6. \A x \in Connections : work[x] = Idle
  BY DEF BoardInit
<1>7. Creating /\ Held /\ Exclusive
  BY <1>6 DEF Creating, Held, Exclusive, Updates, Idle, Asked, Uploads
<1> QED
  BY <1>1, <1>5, <1>7 DEF RowsInv

\* Which documents stand, and what the locks are, when no row comes or goes.
SameRows == \A d \in Documents : (doc'[d] = Absent <=> doc[d] = Absent) /\ (Stands(d)' <=> Stands(d))

LEMMA ShowStands ==
    ASSUME Shapes, Shapes', NEW j \in Jobs, Draw(j) \/ Skip(j) \/ Show(j) \/ Throws(j)
    PROVE  SameRows /\ UNCHANGED <<version, work>>
<1>1. CASE Show(j)
  <2>1. job[j] \in Job /\ doc \in [Documents -> DocumentRow \cup {Absent, Gone}]
    BY <1>1, Rows DEF Show, Shapes, BoardTypes
  <2>2. doc[job[j].document] \in DocumentRow /\ job[j].document \in Documents
    BY <1>1, <2>1, Rows DEF Show, Job, Shapes
  <2>3. [doc[job[j].document] EXCEPT !.thumbnailUri = KeyOf(j)] \in [uri : Pdfs, thumbnailUri : Thumbnail \cup {Absent}]
    BY <1>1, <2>2, Rows DEF Show, DocumentRow, Shapes
  <2>4. doc'[job[j].document] \in DocumentRow /\ \A d \in Documents \ {job[j].document} : doc'[d] = doc[d]
    BY <1>1, <2>1, <2>2, <2>3 DEF Show, DocumentRow
  <2>5. \A row \in DocumentRow : row # Absent /\ row # Gone
    BY BoardAssumption
  <2>6. SameRows
    BY <2>2, <2>4, <2>5 DEF SameRows, Stands
  <2> QED
    BY <1>1, <2>6 DEF Show
<1>2. CASE Draw(j) \/ Skip(j) \/ Throws(j)
  BY <1>2 DEF Draw, Skip, Throws, SameRows, Stands
<1> QED
  BY <1>1, <1>2

LEMMA RowsStep ==
    ASSUME RowsInv, [BoardNext]_boardVars
    PROVE  RowsInv'
<1>1. Shapes /\ Shapes'
  BY ShapesStep DEF RowsInv
<1>2. Anchored /\ Creating /\ Held /\ Exclusive
  BY DEF RowsInv
<1>3. \A x \in Connections : work[x] \in Work /\ work'[x] \in Work /\ Shape(work[x])
  BY <1>1 DEF Shapes, BoardTypes
<1>4. \A x \in Connections : work[x].docs \subseteq Documents
  BY <1>3 DEF Work
<1> DEFINE Locks == Creating' /\ Held' /\ Exclusive'
<1>5. (UNCHANGED <<doc, version>>) => SameRows /\ Anchored'
  BY <1>1, <1>2 DEF SameRows, Anchored, Stands
<1>6. ASSUME NEW x \in Connections, NEW d \in Documents, NEW f \in Pdfs, NEW a \in Authors, Create(x, d, f, a)
      PROVE  RowsInv'
  <2>1. Starts(x, Asked("create", "cleaned", {d}, f, a, 1, {}))
    BY <1>1, <1>6, Starting
  <2>2. UNCHANGED <<doc, version>> /\ doc[d] = Absent /\ \A z \in Connections : d \notin work[z].docs
    BY <1>6 DEF Create
  <2>3. Locks
    BY <1>2, <1>4, <2>1, <2>2 DEF Starts, Asked, Idle, Creating, Held, Exclusive, Updates, Names, Deletes, Uploads, Deletions, Stands
  <2> QED
    BY <1>1, <1>5, <2>2, <2>3 DEF RowsInv
<1>7. ASSUME NEW x \in Connections, NEW q, Starts(x, q), UNCHANGED <<doc, version>>,
             q.kind \in Uploads \cup Deletions, q.at \in {"read", "swept"},
             q.docs \subseteq Documents, \A d \in q.docs : doc[d] # Absent
      PROVE  RowsInv'
  <2>1. Locks
    BY <1>2, <1>4, <1>7 DEF Starts, Idle, Asked, Creating, Held, Exclusive, Updates, Names, Deletes, Uploads, Deletions, Stands
  <2> QED
    BY <1>1, <1>5, <1>7, <2>1 DEF RowsInv
<1>8. ASSUME NEW x \in Connections, NEW d \in Documents, NEW f \in Pdfs, NEW a \in Editors, Replace(x, d, f, a)
      PROVE  RowsInv'
  <2> DEFINE q == Asked("replace", "read", {d}, f, a, 0, FilesOf(d))
  <2>1. Starts(x, q) /\ UNCHANGED <<doc, version>> /\ doc[d] # Absent
    BY <1>1, <1>8, Starting DEF Replace
  <2>2. q.kind \in Uploads \cup Deletions /\ q.at \in {"read", "swept"} /\ q.docs = {d}
    BY DEF Asked, Uploads
  <2> QED
    BY <1>7, <2>1, <2>2
<1>9. ASSUME NEW x \in Connections, NEW v \in version, NEW a \in Editors, Restore(x, v, a)
      PROVE  RowsInv'
  <2> DEFINE q == Asked("restore", "read", {v.document}, v.uri, a, 0, FilesOf(v.document) \ Pdfs)
  <2>1. Starts(x, q) /\ UNCHANGED <<doc, version>>
    BY <1>1, <1>9, Starting DEF Restore
  <2>2. q.kind \in Uploads \cup Deletions /\ q.at \in {"read", "swept"} /\ q.docs = {v.document}
    BY DEF Asked, Uploads
  <2>3. v.document \in Documents /\ doc[v.document] # Absent
    BY <1>1, <1>2 DEF Shapes, BoardTypes, VersionRow, Anchored, Stands
  <2> QED
    BY <1>7, <2>1, <2>2, <2>3
<1>10. ASSUME NEW x \in Connections, NEW d \in Documents, SweepVersions(x, d)
       PROVE  RowsInv'
  <2> DEFINE q == Asked("remove", "swept", {d}, Absent, Absent, 0, {})
  <2>1. Starts(x, q) /\ UNCHANGED <<doc, version>> /\ doc[d] # Absent
    BY <1>1, <1>10, Starting DEF SweepVersions, Stands
  <2>2. q.kind \in Uploads \cup Deletions /\ q.at \in {"read", "swept"} /\ q.docs = {d}
    BY DEF Asked, Deletions
  <2> QED
    BY <1>7, <2>1, <2>2
<1>11. ASSUME NEW x \in Connections, NEW ds \in SUBSET Documents, BulkDelete(x, ds)
       PROVE  RowsInv'
  <2> DEFINE q == Asked("bulk", "read", ds, Absent, Absent, 0, UNION { FilesOf(d) : d \in ds })
  <2>1. Starts(x, q) /\ UNCHANGED <<doc, version>> /\ \A d \in ds : doc[d] # Absent
    BY <1>1, <1>11, Starting DEF BulkDelete, Stands
  <2>2. q.kind \in Uploads \cup Deletions /\ q.at \in {"read", "swept"} /\ q.docs = ds
    BY DEF Asked, Deletions
  <2> QED
    BY <1>7, <2>1, <2>2
<1>12. ASSUME NEW x \in Connections,
              \/ ReadNumber(x) \/ InsertVersion(x) \/ UpdateDocument(x) \/ DeleteRow(x) \/ DeleteRows(x) \/ CleanUp(x)
              \/ \E j \in Jobs : Enqueue(x, j)
       PROVE  RowsInv'
  <2>1. UNCHANGED <<doc, version>>
    BY <1>12 DEF ReadNumber, InsertVersion, UpdateDocument, DeleteRow, DeleteRows, CleanUp, Enqueue
  <2>2. Locks
    <3> USE DEF Goes, Creating, Held, Exclusive, Updates, Names, Deletes, Uploads, Deletions, Stands
    <3>1. CASE ReadNumber(x)
      <4>1. Goes(x, "read", "numbered") /\ work[x].kind \in Uploads
        BY <1>1, <3>1, Going
      <4> QED
        BY <1>2, <1>4, <2>1, <4>1
    <3>2. CASE InsertVersion(x)
      <4>1. Goes(x, "numbered", "inserted") /\ work[x].kind \in Uploads
        BY <1>1, <3>2, Going
      <4>2. NoOther(x, Deletes) /\ \A d \in work[x].docs : Stands(d)
        BY <3>2 DEF InsertVersion
      <4> QED
        BY <1>2, <1>4, <2>1, <4>1, <4>2 DEF NoOther
    <3>3. CASE UpdateDocument(x)
      <4>1. Goes(x, "inserted", "updated") /\ work[x].kind \in Uploads
        BY <1>1, <3>3, Going
      <4>2. NoOther(x, Updates)
        BY <3>3 DEF UpdateDocument
      <4> QED
        BY <1>2, <1>4, <2>1, <4>1, <4>2 DEF NoOther
    <3>4. CASE DeleteRow(x) \/ DeleteRows(x)
      <4>1. (Goes(x, "swept", "deleted") \/ Goes(x, "read", "deleted")) /\ work[x].kind \in Deletions
        BY <1>1, <3>4, Going
      <4>2. NoOther(x, Names)
        BY <3>4 DEF DeleteRow, DeleteRows
      <4> QED
        BY <1>2, <1>4, <2>1, <4>1, <4>2 DEF NoOther
    <3>5. CASE CleanUp(x)
      <4>1. \/ Goes(x, "updated", "cleaned") /\ work[x].kind \in Uploads
            \/ Goes(x, "deleted", "cleaned") /\ work[x].kind \in Deletions
        BY <1>1, <3>5, Going
      <4> QED
        BY <1>2, <1>4, <2>1, <4>1
    <3>6. CASE \E j \in Jobs : Enqueue(x, j)
      <4>1. Goes(x, "cleaned", "queued") /\ work[x].kind \in Uploads \cup {"create"}
        BY <1>1, <3>6, Going
      <4> QED
        BY <1>2, <1>4, <2>1, <4>1
    <3> QED
      BY <1>12, <3>1, <3>2, <3>3, <3>4, <3>5, <3>6
  <2> QED
    BY <1>1, <1>5, <2>1, <2>2 DEF RowsInv
<1>13. ASSUME NEW x \in Connections, Commit(x)
       PROVE  RowsInv'
  <2> DEFINE q == work[x]
  <2>1. Ends(x)
    BY <1>1, <1>13, Going
  <2>2. /\ q.docs \subseteq Documents
        /\ \/ q.kind \in Deletions /\ q.at = "cleaned"
           \/ q.kind \in Uploads \cup {"create"} /\ q.at = "queued" /\ q.uri \in Pdfs
    <3>1. q.at = IF q.kind \in Deletions THEN "cleaned" ELSE "queued"
      BY <1>13 DEF Commit
    <3> QED
      BY <1>3, <1>4, <3>1 DEF Shape, Idle, Asked, Uploads, Deletions
  <2>3. \A d \in Documents : doc'[d] = IF d \notin q.docs THEN doc[d]
                                      ELSE IF q.kind \in Deletions THEN Gone ELSE [uri |-> q.uri, thumbnailUri |-> Absent]
    BY <1>13 DEF Commit
  <2>4. q.kind \notin Deletions => [uri |-> q.uri, thumbnailUri |-> Absent] \in DocumentRow
    BY <2>2 DEF DocumentRow
  <2>5. Absent # Gone /\ \A row \in DocumentRow : row # Absent /\ row # Gone
    BY BoardAssumption
  <2>6. \A d \in q.docs : doc'[d] # Absent /\ (Stands(d)' <=> q.kind \notin Deletions)
    <3> SUFFICES ASSUME NEW d \in q.docs PROVE doc'[d] # Absent /\ (Stands(d)' <=> q.kind \notin Deletions)
      OBVIOUS
    <3>1. d \in Documents
      BY <2>2
    <3>2. CASE q.kind \in Deletions
      BY <2>3, <2>5, <3>1, <3>2 DEF Stands
    <3>3. CASE q.kind \notin Deletions
      BY <2>3, <2>4, <2>5, <3>1, <3>3 DEF Stands
    <3> QED
      BY <3>2, <3>3
  <2>7. \A d \in Documents \ q.docs : doc'[d] = doc[d]
    BY <2>3
  <2>8. Anchored'
    <3>1. CASE q.kind \in Deletions
      <4>1. version' = { v \in version : v.document \notin q.docs }
        BY <1>13, <3>1 DEF Commit
      <4>2. \A v \in version : v.document \in Documents
        BY <1>1 DEF Shapes, BoardTypes, VersionRow
      <4> QED
        BY <1>2, <2>7, <4>1, <4>2 DEF Anchored, Stands
    <3>2. CASE q.kind \notin Deletions
      <4>1. \A v \in version' : v \in version \/ v.document \in q.docs
        BY <1>13, <3>2 DEF Commit
      <4>2. \A v \in version : v.document \in Documents
        BY <1>1 DEF Shapes, BoardTypes, VersionRow
      <4> QED
        BY <1>2, <2>6, <2>7, <3>2, <4>1, <4>2 DEF Anchored, Stands
    <3> QED
      BY <3>1, <3>2
  <2>9. \A z \in Connections : work'[z] = Idle \/ (z # x /\ work'[z] = work[z])
    <3>1. SUFFICES ASSUME NEW z \in Connections, z # x PROVE work'[z] = work[z]
      BY <2>1 DEF Ends
    <3> QED
      BY <2>1, <3>1 DEF Ends
  <2>10. Idle.kind = "none" /\ Idle.docs = {}
    BY DEF Idle, Asked
  <2>11. Creating'
    <3> SUFFICES ASSUME NEW z \in Connections, work'[z].kind = "create", NEW d \in work'[z].docs
                 PROVE  doc'[d] = Absent /\ \A y \in Connections \ {z} : d \notin work'[y].docs
      BY DEF Creating
    <3>1. z # x /\ work'[z] = work[z] /\ d \in Documents
      BY <1>4, <2>9, <2>10
    <3>2. d \notin q.docs
      BY <1>2, <3>1 DEF Creating
    <3> QED
      BY <1>2, <2>7, <2>9, <2>10, <3>1, <3>2 DEF Creating
  <2>12. Held'
    <3> SUFFICES ASSUME NEW z \in Connections, work'[z].kind \in Uploads, NEW d \in work'[z].docs
                 PROVE  /\ doc'[d] # Absent
                        /\ Names(z, d)' => Stands(d)' /\ \A y \in Connections \ {z} : ~Deletes(y, d)'
      BY DEF Held
    <3>1. z # x /\ work'[z] = work[z] /\ d \in Documents
      BY <1>4, <2>9, <2>10
    <3>2. doc'[d] # Absent
      BY <1>2, <2>6, <2>7, <3>1 DEF Held
    <3>3. ASSUME Names(z, d)'
          PROVE  Stands(d)' /\ \A y \in Connections \ {z} : ~Deletes(y, d)'
      <4>1. Names(z, d)
        BY <3>1, <3>3 DEF Names, Updates
      <4>2. Stands(d) /\ \A y \in Connections \ {z} : ~Deletes(y, d)
        BY <1>2, <3>1, <4>1 DEF Held
      <4>3. d \in q.docs => q.kind \notin Deletions
        BY <2>2, <3>1, <4>2 DEF Deletes, Uploads, Deletions
      <4>4. Stands(d)'
        BY <2>6, <2>7, <3>1, <4>2, <4>3 DEF Stands
      <4>5. \A y \in Connections \ {z} : ~Deletes(y, d)'
        BY <2>9, <2>10, <4>2 DEF Deletes
      <4> QED
        BY <4>4, <4>5
    <3> QED
      BY <3>2, <3>3
  <2>13. Exclusive'
    BY <1>2, <2>9, <2>10 DEF Exclusive, Updates
  <2> QED
    BY <1>1, <2>8, <2>11, <2>12, <2>13 DEF RowsInv
<1>14. ASSUME NEW x \in Connections, Rollback(x)
       PROVE  RowsInv'
  <2>1. Ends(x)
    BY <1>1, <1>14, Going
  <2>2. \A d \in Documents : doc'[d] = IF work[x].kind = "create" /\ d \in work[x].docs THEN Gone ELSE doc[d]
    BY <1>14 DEF Rollback
  <2>3. \A d \in Documents : Stands(d)' <=> Stands(d)
    BY <1>2, <2>2 DEF Creating, Stands
  <2>4. Anchored'
    BY <1>1, <1>14, <1>2, <2>3 DEF Rollback, Anchored, Shapes, BoardTypes, VersionRow
  <2>5. \A z \in Connections : work'[z] = Idle \/ (z # x /\ work'[z] = work[z])
    <3>1. SUFFICES ASSUME NEW z \in Connections, z # x PROVE work'[z] = work[z]
      BY <2>1 DEF Ends
    <3> QED
      BY <2>1, <3>1 DEF Ends
  <2>6. Idle.kind = "none" /\ Idle.docs = {}
    BY DEF Idle, Asked
  <2>7. \A z \in Connections \ {x} : \A d \in work[z].docs : doc'[d] = doc[d]
    BY <1>2, <1>4, <2>2 DEF Creating
  <2>8. Creating'
    BY <1>2, <1>4, <2>5, <2>6, <2>7 DEF Creating
  <2>9. Held'
    BY <1>2, <1>4, <2>3, <2>5, <2>6, <2>7 DEF Held, Names, Updates, Deletes, Uploads
  <2>10. Exclusive'
    BY <1>2, <2>5, <2>6 DEF Exclusive, Updates
  <2> QED
    BY <1>1, <2>4, <2>8, <2>9, <2>10 DEF RowsInv
<1>15. ASSUME SameRows, UNCHANGED <<version, work>>
       PROVE  RowsInv'
  <2>1. Anchored'
    BY <1>1, <1>2, <1>15 DEF SameRows, Anchored, Shapes, BoardTypes, VersionRow
  <2>2. Locks
    BY <1>2, <1>4, <1>15 DEF SameRows, Creating, Held, Exclusive, Updates, Names, Deletes
  <2> QED
    BY <1>1, <2>1, <2>2 DEF RowsInv
<1>16. ASSUME NEW j \in Jobs, Draw(j) \/ Skip(j) \/ Show(j) \/ Throws(j)
       PROVE  RowsInv'
  BY <1>1, <1>15, <1>16, ShowStands
<1>17. CASE UNCHANGED boardVars
  BY <1>5, <1>15, <1>17 DEF boardVars
<1> QED
  BY <1>6, <1>8, <1>9, <1>10, <1>11, <1>12, <1>13, <1>14, <1>16, <1>17 DEF BoardNext

\* What a request that commits has done.
LEMMA Committing ==
    ASSUME RowsInv, NEW x \in Connections, Commit(x)
    PROVE  /\ Ends(x)
           /\ \/ /\ work[x].kind \in Deletions /\ work[x].at = "cleaned"
                 /\ \A d \in Documents : doc'[d] = IF d \in work[x].docs THEN Gone ELSE doc[d]
                 /\ version' = { v \in version : v.document \notin work[x].docs }
              \/ /\ work[x].kind \in Uploads \cup {"create"} /\ work[x].at = "queued"
                 /\ \E d \in Documents :
                       /\ work[x].docs = {d}
                       /\ \A e \in Documents \ {d} : doc'[e] = doc[e]
                       /\ doc'[d] = [uri |-> work[x].uri, thumbnailUri |-> Absent] /\ Stands(d)'
                       /\ version' = version \cup { [document |-> d, versionNumber |-> work[x].number,
                                                    uri |-> work[x].uri, uploadedBy |-> work[x].by] }
<1> DEFINE q == work[x]
<1>1. Ends(x)
  BY Going, ShapesStep DEF RowsInv, BoardNext
<1>2. q \in Work /\ Shape(q)
  BY DEF RowsInv, Shapes, BoardTypes
<1>3. q.at = IF q.kind \in Deletions THEN "cleaned" ELSE "queued"
  BY DEF Commit
<1>4. \A d \in Documents : doc'[d] = IF d \notin q.docs THEN doc[d]
                                    ELSE IF q.kind \in Deletions THEN Gone ELSE [uri |-> q.uri, thumbnailUri |-> Absent]
  BY DEF Commit
<1>5. CASE q.kind \in Deletions
  <2>1. version' = { v \in version : v.document \notin q.docs }
    BY <1>5 DEF Commit
  <2>2. \A d \in Documents : doc'[d] = IF d \in q.docs THEN Gone ELSE doc[d]
    BY <1>4, <1>5
  <2> QED
    BY <1>1, <1>3, <1>5, <2>1, <2>2
<1>6. CASE q.kind \notin Deletions
  <2>1. q.at = "queued"
    BY <1>3, <1>6
  <2>2. q.kind \in Uploads \cup {"create"} /\ q.uri \in Pdfs /\ \E d \in Documents : q.docs = {d}
    BY <1>2, <1>6, <2>1 DEF Shape, Idle, Asked, Uploads, Deletions
  <2>3. PICK d \in Documents : q.docs = {d}
    BY <2>2
  <2>4. doc'[d] = [uri |-> q.uri, thumbnailUri |-> Absent] /\ \A e \in Documents \ {d} : doc'[e] = doc[e]
    BY <1>4, <1>6, <2>3
  <2>5. Stands(d)'
    <3>1. [uri |-> q.uri, thumbnailUri |-> Absent] \in DocumentRow
      BY <2>2 DEF DocumentRow
    <3> QED
      BY <2>4, <3>1, BoardAssumption DEF Stands
  <2>6. version' = version \cup { [document |-> e, versionNumber |-> q.number, uri |-> q.uri, uploadedBy |-> q.by] : e \in q.docs }
    BY <1>6 DEF Commit
  <2>7. version' = version \cup { [document |-> d, versionNumber |-> q.number, uri |-> q.uri, uploadedBy |-> q.by] }
    BY <2>3, <2>6
  <2> QED
    BY <1>1, <2>1, <2>2, <2>3, <2>4, <2>5, <2>7
<1> QED
  BY <1>5, <1>6

\* Everything but a commit leaves the versions and the current files.
SameCurrent ==
    /\ UNCHANGED version
    /\ \A d \in Documents : (Stands(d)' <=> Stands(d)) /\ (Stands(d) => doc'[d].uri = doc[d].uri)

LEMMA ShowKeepsCurrent ==
    ASSUME RowsInv, NEW j \in Jobs, Draw(j) \/ Skip(j) \/ Show(j) \/ Throws(j)
    PROVE  SameCurrent
<1>1. Shapes /\ Shapes'
  BY ShapesStep DEF RowsInv, BoardNext
<1>2. SameRows /\ UNCHANGED version
  BY <1>1, ShowStands
<1>3. CASE Show(j)
  <2>1. job[j] \in Job /\ doc \in [Documents -> DocumentRow \cup {Absent, Gone}]
    BY <1>1, <1>3, Rows DEF Show, Shapes, BoardTypes
  <2>2. doc[job[j].document] \in DocumentRow /\ job[j].document \in Documents
    BY <1>1, <1>3, <2>1, Rows DEF Show, Job, Shapes
  <2>3. doc'[job[j].document].uri = doc[job[j].document].uri
    BY <1>3, <2>1, <2>2 DEF Show, DocumentRow
  <2>4. \A d \in Documents \ {job[j].document} : doc'[d] = doc[d]
    BY <1>3, <2>1 DEF Show
  <2> QED
    BY <1>2, <2>3, <2>4 DEF SameRows, SameCurrent
<1>4. CASE Draw(j) \/ Skip(j) \/ Throws(j)
  BY <1>4 DEF Draw, Skip, Throws, SameCurrent, Stands
<1> QED
  BY <1>3, <1>4

LEMMA RollbackKeepsCurrent ==
    ASSUME RowsInv, NEW x \in Connections, Rollback(x)
    PROVE  SameCurrent
<1>1. \A d \in Documents : doc'[d] = IF work[x].kind = "create" /\ d \in work[x].docs THEN Gone ELSE doc[d]
  BY DEF Rollback
<1>2. \A d \in Documents : doc'[d] = doc[d] \/ (doc[d] = Absent /\ doc'[d] = Gone)
  BY <1>1 DEF RowsInv, Creating
<1> QED
  BY <1>2 DEF Rollback, SameCurrent, Stands

-----------------------------------------------------------------------------
(* The numbers of the versions.                                            *)

\* Who has the right to a document by its first version is found there.
Authored ==
    \A d \in Documents \ Unauthored : Stands(d) => \E v \in version : v.document = d /\ v.versionNumber = 1

LaterNumbers ==
    \A x \in Connections : work[x].kind \in Uploads /\ work[x].at # "read" =>
        \A d \in work[x].docs \ Unauthored : Stands(d) => work[x].number # 1

Alone ==
    \A x, z \in Connections : work[x].kind \in Uploads /\ work[z].kind \in Uploads =>
        \A d \in (work[x].docs \cap work[z].docs) \ overlapped : x = z

NextNumber ==
    \A x \in Connections : work[x].kind \in Uploads /\ work[x].at # "read" =>
        \A d \in work[x].docs \ overlapped : Stands(d) => IsLastNumber(d, work[x].number - 1)

NumbersInv == RowsInv /\ Authored /\ LaterNumbers /\ Alone /\ NextNumber /\ LatestIsCurrent

LEMMA NumbersInit == BoardInit => NumbersInv
<1> SUFFICES ASSUME BoardInit PROVE NumbersInv
  OBVIOUS
<1>1. RowsInv
  BY RowsInit
<1>2. PICK old \in FirstDays :
        /\ doc = [d \in Documents |->
                    IF d \in DOMAIN old THEN [uri |-> old[d].uri, thumbnailUri |-> Absent] ELSE Absent]
        /\ version = { [document |-> d, versionNumber |-> 1, uri |-> old[d].uri, uploadedBy |-> old[d].by]
                      : d \in { e \in DOMAIN old : old[e].by # Absent } }
  BY DEF BoardInit
<1>3. DOMAIN old \subseteq Documents
  BY BoardAssumption
<1>4. \A d \in Documents : Stands(d) => d \in DOMAIN old
  BY <1>2 DEF Stands
<1>5. \A d \in DOMAIN old : d \notin Unauthored => old[d].by # Absent
  BY DEF Unauthored
<1>6. Authored
  <2> SUFFICES ASSUME NEW d \in Documents \ Unauthored, Stands(d)
               PROVE  \E v \in version : v.document = d /\ v.versionNumber = 1
    BY DEF Authored
  <2>1. d \in DOMAIN old /\ old[d].by # Absent
    BY <1>4, <1>5
  <2>2. [document |-> d, versionNumber |-> 1, uri |-> old[d].uri, uploadedBy |-> old[d].by] \in version
    BY <1>2, <2>1
  <2> QED
    BY <2>2
<1>7. \A v \in version : v.document \in DOMAIN old /\ v.uri = old[v.document].uri /\ v.versionNumber = 1
                         /\ v.uploadedBy = old[v.document].by
  BY <1>2
<1>8. LatestIsCurrent
  <2>1. \A v, w \in version : v.document = w.document => v = w
    BY <1>2
  <2>2. \A v \in version : v.uri = doc[v.document].uri
    BY <1>2, <1>3, <1>7
  <2> QED
    BY <2>1, <2>2 DEF LatestIsCurrent, VersionsOf
<1>9. LaterNumbers /\ Alone /\ NextNumber
  BY DEF BoardInit, Idle, Asked, LaterNumbers, Alone, NextNumber, Uploads
<1> QED
  BY <1>1, <1>6, <1>8, <1>9 DEF NumbersInv

LEMMA NumbersStep ==
    ASSUME NumbersInv, [BoardNext]_boardVars
    PROVE  NumbersInv'
<1>1. RowsInv /\ RowsInv' /\ Shapes /\ Shapes'
  BY RowsStep DEF NumbersInv, RowsInv
<1>2. Authored /\ LaterNumbers /\ Alone /\ NextNumber /\ LatestIsCurrent
  BY DEF NumbersInv
<1>3. \A x \in Connections : work[x] \in Work /\ work'[x] \in Work /\ work[x].docs \subseteq Documents
  BY <1>1 DEF Shapes, BoardTypes, Work
<1>4. \A v \in version : v \in VersionRow
  BY <1>1 DEF Shapes, BoardTypes
<1> DEFINE Work3 == LaterNumbers' /\ Alone' /\ NextNumber'
<1>5. ASSUME SameCurrent, overlapped \subseteq overlapped'
      PROVE  Authored' /\ LatestIsCurrent'
  <2>1. Authored'
    BY <1>2, <1>5 DEF SameCurrent, Authored
  <2>2. \A d \in Documents \ overlapped' : d \in Documents \ overlapped
    BY <1>5
  <2>3. LatestIsCurrent'
    BY <1>2, <1>5, <2>2 DEF SameCurrent, LatestIsCurrent, VersionsOf, IsLastNumber
  <2> QED
    BY <2>1, <2>3
\* A request that neither uploads nor ends one: the numbers of the others stay.
<1>6. ASSUME SameCurrent, UNCHANGED overlapped, NEW x \in Connections,
             \A z \in Connections \ {x} : work'[z] = work[z],
             \/ work'[x].kind \notin Uploads
             \/ /\ work'[x].kind = work[x].kind /\ work'[x].docs = work[x].docs
                /\ work[x].at # "read" /\ work'[x].number = work[x].number
      PROVE  NumbersInv'
  <2>1. \A z \in Connections : work'[z].kind \in Uploads =>
            /\ work[z].kind \in Uploads /\ work'[z].docs = work[z].docs
            /\ work'[z].at # "read" => work[z].at # "read" /\ work'[z].number = work[z].number
    BY <1>6
  <2>2. LaterNumbers'
    BY <1>2, <1>3, <1>6, <2>1 DEF SameCurrent, LaterNumbers
  <2>3. Alone'
    BY <1>2, <1>3, <1>6, <2>1 DEF Alone
  <2>4. NextNumber'
    <3> SUFFICES ASSUME NEW z \in Connections, work'[z].kind \in Uploads, work'[z].at # "read",
                        NEW d \in work'[z].docs \ overlapped', Stands(d)'
                 PROVE  IsLastNumber(d, work[z].number - 1)'
      BY DEF NextNumber
    <3>1. IsLastNumber(d, work[z].number - 1)
      BY <1>2, <1>3, <1>6, <2>1 DEF SameCurrent, NextNumber
    <3>2. work'[z].number = work[z].number
      BY <2>1
    <3> QED
      BY <1>6, <3>1, <3>2 DEF SameCurrent, IsLastNumber, VersionsOf
  <2> QED
    BY <1>1, <1>5, <1>6, <2>2, <2>3, <2>4 DEF NumbersInv
<1>7. UNCHANGED <<doc, version>> => SameCurrent
  BY DEF SameCurrent, Stands
<1>8. ASSUME NEW x \in Connections, NEW q, Starts(x, q), UNCHANGED <<doc, version, overlapped>>, q.kind \notin Uploads
      PROVE  NumbersInv'
  BY <1>6, <1>7, <1>8 DEF Starts
<1>9. ASSUME NEW x \in Connections, NEW d \in Documents, NEW q, Starts(x, q), UNCHANGED <<doc, version>>,
             q.kind \in Uploads, q.at = "read", q.docs = {d}, Overlap(x, d)
      PROVE  NumbersInv'
  <2>1. overlapped \subseteq overlapped'
    BY <1>9 DEF Overlap
  <2>2. \A z \in Connections : work'[z] = work[z] \/ (z = x /\ work'[z].at = "read" /\ work'[z].docs = {d})
    BY <1>9 DEF Starts
  <2>3. LaterNumbers'
    BY <1>2, <1>3, <1>9, <2>2 DEF LaterNumbers, Stands
  <2>4. Alone'
    <3> SUFFICES ASSUME NEW y \in Connections, NEW z \in Connections, work'[y].kind \in Uploads, work'[z].kind \in Uploads,
                        NEW e \in (work'[y].docs \cap work'[z].docs) \ overlapped', y # z
                 PROVE  FALSE
      BY DEF Alone
    <3>1. CASE y = x
      BY <1>9, <2>1, <3>1 DEF Overlap, Starts
    <3>2. CASE z = x
      BY <1>9, <2>1, <3>2 DEF Overlap, Starts
    <3>3. CASE y # x /\ z # x
      BY <1>2, <1>9, <2>1, <3>3 DEF Alone, Starts
    <3> QED
      BY <3>1, <3>2, <3>3
  <2>5. NextNumber'
    <3> SUFFICES ASSUME NEW z \in Connections, work'[z].kind \in Uploads, work'[z].at # "read",
                        NEW e \in work'[z].docs \ overlapped', Stands(e)'
                 PROVE  IsLastNumber(e, work[z].number - 1)'
      BY DEF NextNumber
    <3>1. work'[z] = work[z] /\ e \in work[z].docs \ overlapped /\ Stands(e)
      BY <1>9, <2>1, <2>2 DEF Stands
    <3>2. IsLastNumber(e, work[z].number - 1)
      BY <1>2, <3>1 DEF NextNumber
    <3> QED
      BY <1>9, <3>1, <3>2 DEF IsLastNumber, VersionsOf
  <2> QED
    BY <1>1, <1>5, <1>7, <1>9, <2>1, <2>3, <2>4, <2>5 DEF NumbersInv
<1>10. ASSUME NEW x \in Connections, ReadNumber(x)
       PROVE  NumbersInv'
  <2>1. Goes(x, "read", "numbered") /\ work[x].kind \in Uploads
    BY <1>1, <1>10, Going
  <2>2. UNCHANGED <<doc, version, overlapped>>
    BY <1>10 DEF ReadNumber, History
  <2>3. PICK n \in 0..MaxVersion - 1 :
          /\ \A d \in work[x].docs : IsLastNumber(d, n)
          /\ work'[x].number = n + 1
    BY <1>1, <1>3, <1>10 DEF ReadNumber, Work, Shapes, BoardTypes
  <2>4. MaxVersion \in Nat
    BY BoardAssumption
  <2>5. LaterNumbers'
    <3> SUFFICES ASSUME NEW z \in Connections, work'[z].kind \in Uploads, work'[z].at # "read",
                        NEW d \in work'[z].docs \ Unauthored, Stands(d)'
                 PROVE  work'[z].number # 1
      BY DEF LaterNumbers
    <3>1. Stands(d)
      BY <2>2 DEF Stands
    <3>2. CASE z # x
      BY <1>2, <2>1, <3>1, <3>2 DEF Goes, LaterNumbers
    <3>3. CASE z = x
      <4>1. d \in work[x].docs /\ d \in Documents
        BY <1>3, <2>1, <3>3 DEF Goes
      <4>2. PICK v \in version : v.document = d /\ v.versionNumber = 1
        BY <1>2, <3>1, <4>1 DEF Authored
      <4>3. IsLastNumber(d, n)
        BY <2>3, <4>1
      <4>4. n # 0
        BY <4>2, <4>3 DEF IsLastNumber, VersionsOf
      <4> QED
        BY <2>3, <2>4, <3>3, <4>4
    <3> QED
      BY <3>2, <3>3
  <2>6. Alone'
    BY <1>2, <2>1, <2>2 DEF Goes, Alone
  <2>7. NextNumber'
    <3> SUFFICES ASSUME NEW z \in Connections, work'[z].kind \in Uploads, work'[z].at # "read",
                        NEW d \in work'[z].docs \ overlapped', Stands(d)'
                 PROVE  IsLastNumber(d, work[z].number - 1)'
      BY DEF NextNumber
    <3>1. IsLastNumber(d, work'[z].number - 1)
      <4>1. CASE z # x
        BY <1>2, <2>1, <2>2, <4>1 DEF Goes, NextNumber, Stands
      <4>2. CASE z = x
        <5>1. IsLastNumber(d, n) /\ work'[z].number - 1 = n
          BY <2>1, <2>3, <2>4, <4>2 DEF Goes
        <5> QED
          BY <5>1
      <4> QED
        BY <4>1, <4>2
    <3> QED
      BY <2>2, <3>1 DEF IsLastNumber, VersionsOf
  <2> QED
    BY <1>1, <1>5, <1>7, <2>2, <2>5, <2>6, <2>7 DEF NumbersInv
<1>11. ASSUME NEW x \in Connections, Commit(x)
       PROVE  NumbersInv'
  <2> DEFINE q == work[x]
  <2>1. Ends(x) /\ UNCHANGED overlapped
    BY <1>1, <1>11, Committing DEF Commit
  <2>2. \A z \in Connections : work'[z].kind \in Uploads => z # x /\ work'[z] = work[z]
    BY <2>1 DEF Ends, Idle, Asked, Uploads
  <2>3. Alone'
    BY <1>2, <2>1, <2>2 DEF Alone
  <2>4. CASE q.kind \in Deletions
    <3>1. /\ \A d \in Documents : doc'[d] = IF d \in q.docs THEN Gone ELSE doc[d]
          /\ version' = { v \in version : v.document \notin q.docs }
      BY <1>1, <1>11, <2>4, Committing DEF Uploads, Deletions
    <3>2. \A d \in Documents : Stands(d)' => d \notin q.docs /\ doc'[d] = doc[d] /\ Stands(d)
      BY <3>1 DEF Stands
    <3>3. \A d \in Documents \ q.docs : VersionsOf(d)' = VersionsOf(d)
      BY <3>1 DEF VersionsOf
    <3>4. Authored'
      BY <1>2, <3>1, <3>2 DEF Authored
    <3>5. LatestIsCurrent'
      <4> SUFFICES ASSUME NEW d \in Documents \ overlapped
                   PROVE  /\ \A v, w \in VersionsOf(d)' : v.versionNumber = w.versionNumber => v = w
                          /\ Stands(d)' => \A v \in VersionsOf(d)' : IsLastNumber(d, v.versionNumber)' => v.uri = doc'[d].uri
        BY <2>1 DEF LatestIsCurrent
      <4>1. VersionsOf(d)' \subseteq VersionsOf(d)
        BY <3>1 DEF VersionsOf
      <4>2. \A v, w \in VersionsOf(d)' : v.versionNumber = w.versionNumber => v = w
        BY <1>2, <4>1 DEF LatestIsCurrent
      <4>3. ASSUME Stands(d)', NEW v \in VersionsOf(d)', IsLastNumber(d, v.versionNumber)'
            PROVE  v.uri = doc'[d].uri
        <5>1. VersionsOf(d)' = VersionsOf(d) /\ doc'[d] = doc[d] /\ Stands(d)
          BY <3>2, <3>3, <4>3
        <5>2. IsLastNumber(d, v.versionNumber)
          BY <4>3, <5>1 DEF IsLastNumber
        <5> QED
          BY <1>2, <5>1, <5>2 DEF LatestIsCurrent
      <4> QED
        BY <4>2, <4>3
    <3>6. LaterNumbers'
      BY <1>2, <1>3, <2>2, <3>2 DEF LaterNumbers
    <3>7. NextNumber'
      <4> SUFFICES ASSUME NEW z \in Connections, work'[z].kind \in Uploads, work'[z].at # "read",
                          NEW d \in work'[z].docs \ overlapped', Stands(d)'
                   PROVE  IsLastNumber(d, work[z].number - 1)'
        BY DEF NextNumber
      <4>1. work'[z] = work[z] /\ d \in Documents /\ d \notin overlapped /\ Stands(d) /\ VersionsOf(d)' = VersionsOf(d)
        BY <1>3, <2>1, <2>2, <3>2, <3>3
      <4>2. IsLastNumber(d, work[z].number - 1)
        BY <1>2, <4>1 DEF NextNumber
      <4> QED
        BY <4>1, <4>2 DEF IsLastNumber
    <3> QED
      BY <1>1, <2>3, <3>4, <3>5, <3>6, <3>7 DEF NumbersInv
  <2>5. CASE q.kind \in Uploads \cup {"create"}
    <3>1. PICK d \in Documents :
            /\ q.docs = {d} /\ q.at = "queued"
            /\ \A e \in Documents \ {d} : doc'[e] = doc[e]
            /\ doc'[d] = [uri |-> q.uri, thumbnailUri |-> Absent] /\ Stands(d)'
            /\ version' = version \cup { [document |-> d, versionNumber |-> q.number, uri |-> q.uri, uploadedBy |-> q.by] }
      BY <1>1, <1>11, <2>5, Committing DEF Uploads, Deletions
    <3> DEFINE new == [document |-> d, versionNumber |-> q.number, uri |-> q.uri, uploadedBy |-> q.by]
    <3>2. \A e \in Documents \ {d} : VersionsOf(e)' = VersionsOf(e) /\ doc'[e] = doc[e] /\ (Stands(e)' <=> Stands(e))
      BY <3>1 DEF VersionsOf, Stands
    <3>3. VersionsOf(d)' = VersionsOf(d) \cup {new}
      BY <3>1 DEF VersionsOf
    <3>4. q.kind = "create" => q.number = 1 /\ VersionsOf(d) = {} /\ \A z \in Connections \ {x} : d \notin work[z].docs
      <4>1. Shape(q) /\ Creating /\ Anchored
        BY <1>1 DEF RowsInv, Shapes
      <4> QED
        BY <3>1, <4>1 DEF Shape, Idle, Asked, Uploads, Creating, Anchored, VersionsOf, Stands
    <3>5. q.kind \in Uploads => Stands(d) /\ q.at # "read"
      BY <1>1, <3>1 DEF RowsInv, Held, Names, Updates
    <3>6. Authored'
      <4> SUFFICES ASSUME NEW e \in Documents \ Unauthored, Stands(e)'
                   PROVE  \E v \in version' : v.document = e /\ v.versionNumber = 1
        BY DEF Authored
      <4>1. CASE e # d \/ q.kind # "create"
        BY <1>2, <2>5, <3>1, <3>2, <3>5, <4>1 DEF Authored
      <4>2. CASE e = d /\ q.kind = "create"
        <5>1. new \in version' /\ new.document = d /\ new.versionNumber = 1
          BY <3>1, <3>4, <4>2
        <5> QED
          BY <4>2, <5>1
      <4> QED
        BY <4>1, <4>2
    <3>7. LaterNumbers'
      <4> SUFFICES ASSUME NEW z \in Connections, work'[z].kind \in Uploads, work'[z].at # "read",
                          NEW e \in work'[z].docs \ Unauthored, Stands(e)'
                   PROVE  work'[z].number # 1
        BY DEF LaterNumbers
      <4>1. work'[z] = work[z] /\ z # x /\ e \in Documents
        BY <1>3, <2>2
      <4>2. Stands(e)
        BY <2>5, <3>2, <3>4, <3>5, <4>1
      <4> QED
        BY <1>2, <4>1, <4>2 DEF LaterNumbers
    <3>8. NextNumber'
      <4> SUFFICES ASSUME NEW z \in Connections, work'[z].kind \in Uploads, work'[z].at # "read",
                          NEW e \in work'[z].docs \ overlapped', Stands(e)'
                   PROVE  IsLastNumber(e, work[z].number - 1)'
        BY DEF NextNumber
      <4>1. work'[z] = work[z] /\ z # x /\ e \in Documents /\ e \notin overlapped
        BY <1>3, <2>1, <2>2
      <4>2. e # d
        <5>1. CASE q.kind = "create"
          BY <3>4, <4>1, <5>1
        <5>2. CASE q.kind \in Uploads
          BY <1>2, <3>1, <4>1, <5>2 DEF Alone
        <5> QED
          BY <2>5, <5>1, <5>2
      <4>3. IsLastNumber(e, work[z].number - 1) /\ VersionsOf(e)' = VersionsOf(e)
        BY <1>2, <3>2, <4>1, <4>2 DEF NextNumber
      <4> QED
        BY <4>1, <4>3 DEF IsLastNumber
    <3>9. LatestIsCurrent'
      <4> SUFFICES ASSUME NEW e \in Documents \ overlapped
                   PROVE  /\ \A v, w \in VersionsOf(e)' : v.versionNumber = w.versionNumber => v = w
                          /\ Stands(e)' => \A v \in VersionsOf(e)' : IsLastNumber(e, v.versionNumber)' => v.uri = doc'[e].uri
        BY <2>1 DEF LatestIsCurrent
      <4>1. CASE e # d
        BY <1>2, <3>2, <4>1 DEF LatestIsCurrent, IsLastNumber
      <4>2. CASE e = d
        <5>1. \A v \in VersionsOf(d) : v.versionNumber < q.number
          <6>1. CASE q.kind = "create"
            BY <3>4, <6>1
          <6>2. CASE q.kind \in Uploads
            <7>1. IsLastNumber(d, q.number - 1)
              BY <1>2, <3>1, <3>5, <4>2, <6>2 DEF NextNumber
            <7>2. q.number \in Nat /\ \A v \in VersionsOf(d) : v.versionNumber \in Nat
              BY <1>3, <1>4, BoardAssumption DEF Work, VersionsOf, VersionRow
            <7> QED
              BY <7>1, <7>2 DEF IsLastNumber
          <6> QED
            BY <2>5, <6>1, <6>2
        <5>2. q.number \in Nat /\ \A v \in VersionsOf(d) : v.versionNumber \in Nat
          BY <1>3, <1>4, BoardAssumption DEF Work, VersionsOf, VersionRow
        <5>3. new.versionNumber = q.number /\ new.uri = doc'[d].uri /\ new \in VersionsOf(d)'
          BY <3>1, <3>3
        <5>4. \A v, w \in VersionsOf(d)' : v.versionNumber = w.versionNumber => v = w
          BY <1>2, <3>3, <4>2, <5>1, <5>2, <5>3 DEF LatestIsCurrent
        <5>5. ASSUME NEW v \in VersionsOf(d)', IsLastNumber(d, v.versionNumber)'
              PROVE  v.uri = doc'[d].uri
          <6>1. q.number <= v.versionNumber
            BY <5>3, <5>5 DEF IsLastNumber
          <6>2. v = new
            BY <3>3, <5>1, <5>2, <6>1
          <6> QED
            BY <5>3, <6>2
        <5> QED
          BY <4>2, <5>4, <5>5
      <4> QED
        BY <4>1, <4>2
    <3> QED
      BY <1>1, <2>3, <3>6, <3>7, <3>8, <3>9 DEF NumbersInv
  <2> QED
    BY <1>1, <1>11, <2>4, <2>5, Committing
<1>12. ASSUME NEW x \in Connections, Rollback(x)
       PROVE  NumbersInv'
  <2>1. SameCurrent /\ UNCHANGED overlapped
    BY <1>1, <1>12, RollbackKeepsCurrent DEF Rollback
  <2>2. Ends(x)
    BY <1>1, <1>12, Going
  <2> QED
    BY <1>6, <2>1, <2>2 DEF Ends, Idle, Asked, Uploads
<1>13. ASSUME NEW x \in Connections, NEW d \in Documents, NEW f \in Pdfs, NEW a, Create(x, d, f, a) \/ Replace(x, d, f, a)
       PROVE  NumbersInv'
  <2>1. CASE Create(x, d, f, a)
    <3>1. Starts(x, Asked("create", "cleaned", {d}, f, a, 1, {})) /\ UNCHANGED <<doc, version, overlapped>>
      BY <1>1, <2>1, Starting DEF Create, History
    <3> QED
      BY <1>8, <3>1 DEF Asked, Uploads
  <2>2. CASE Replace(x, d, f, a)
    <3>1. Starts(x, Asked("replace", "read", {d}, f, a, 0, FilesOf(d))) /\ UNCHANGED <<doc, version>> /\ Overlap(x, d)
      BY <1>1, <2>2, Starting DEF Replace
    <3> QED
      BY <1>9, <3>1 DEF Asked, Uploads
  <2> QED
    BY <1>13, <2>1, <2>2
<1>14. ASSUME NEW x \in Connections, NEW v \in version, NEW a, Restore(x, v, a)
       PROVE  NumbersInv'
  <2>1. /\ Starts(x, Asked("restore", "read", {v.document}, v.uri, a, 0, FilesOf(v.document) \ Pdfs))
        /\ UNCHANGED <<doc, version>> /\ Overlap(x, v.document)
    BY <1>1, <1>14, Starting DEF Restore
  <2>2. v.document \in Documents
    BY <1>4 DEF VersionRow
  <2> QED
    BY <1>9, <2>1, <2>2 DEF Asked, Uploads
<1>15. ASSUME NEW x \in Connections,
              (\E d \in Documents : SweepVersions(x, d)) \/ (\E ds \in SUBSET Documents : BulkDelete(x, ds))
       PROVE  NumbersInv'
  <2>1. CASE \E d \in Documents : SweepVersions(x, d)
    <3>1. PICK d \in Documents : SweepVersions(x, d)
      BY <2>1
    <3>2. Starts(x, Asked("remove", "swept", {d}, Absent, Absent, 0, {})) /\ UNCHANGED <<doc, version, overlapped>>
      BY <1>1, <3>1, Starting DEF SweepVersions, History
    <3> QED
      BY <1>8, <3>2 DEF Asked, Uploads
  <2>2. CASE \E ds \in SUBSET Documents : BulkDelete(x, ds)
    <3>1. PICK ds \in SUBSET Documents : BulkDelete(x, ds)
      BY <2>2
    <3>2. /\ Starts(x, Asked("bulk", "read", ds, Absent, Absent, 0, UNION { FilesOf(d) : d \in ds }))
          /\ UNCHANGED <<doc, version, overlapped>>
      BY <1>1, <3>1, Starting DEF BulkDelete, History
    <3> QED
      BY <1>8, <3>2 DEF Asked, Uploads
  <2> QED
    BY <1>15, <2>1, <2>2
<1>16. ASSUME NEW x \in Connections,
              \/ InsertVersion(x) \/ UpdateDocument(x) \/ DeleteRow(x) \/ DeleteRows(x) \/ CleanUp(x)
              \/ \E j \in Jobs : Enqueue(x, j)
       PROVE  NumbersInv'
  <2>1. UNCHANGED <<doc, version, overlapped>>
    BY <1>16 DEF InsertVersion, UpdateDocument, DeleteRow, DeleteRows, CleanUp, Enqueue, History
  <2>2. /\ \A z \in Connections \ {x} : work'[z] = work[z]
        /\ \/ work'[x].kind \notin Uploads
           \/ /\ work'[x].kind = work[x].kind /\ work'[x].docs = work[x].docs
              /\ work[x].at # "read" /\ work'[x].number = work[x].number
    BY <1>1, <1>16, Going DEF Goes, Uploads, Deletions
  <2> QED
    BY <1>6, <1>7, <2>1, <2>2
<1>17. ASSUME SameCurrent, UNCHANGED <<work, overlapped>>
       PROVE  NumbersInv'
  <2>1. LaterNumbers'
    BY <1>2, <1>3, <1>17 DEF SameCurrent, LaterNumbers
  <2>2. Alone'
    BY <1>2, <1>17 DEF Alone
  <2>3. NextNumber'
    BY <1>2, <1>3, <1>17 DEF SameCurrent, NextNumber, IsLastNumber, VersionsOf
  <2> QED
    BY <1>1, <1>5, <1>17, <2>1, <2>2, <2>3 DEF NumbersInv
<1>18. ASSUME NEW j \in Jobs, Draw(j) \/ Skip(j) \/ Show(j) \/ Throws(j)
       PROVE  NumbersInv'
  <2>1. UNCHANGED <<work, overlapped>>
    BY <1>18 DEF Draw, Skip, Show, Throws, History
  <2> QED
    BY <1>1, <1>17, <1>18, <2>1, ShowKeepsCurrent
<1>19. CASE UNCHANGED boardVars
  BY <1>7, <1>17, <1>19 DEF boardVars
<1> QED
  BY <1>10, <1>11, <1>12, <1>13, <1>14, <1>15, <1>16, <1>18, <1>19 DEF BoardNext

LEMMA OwnerKept ==
    ASSUME NumbersInv, [BoardNext]_boardVars, NEW d \in Documents \ Unauthored, Stands(d), Stands(d)'
    PROVE  Owners(d)' = Owners(d)
<1>1. RowsInv /\ LaterNumbers
  BY DEF NumbersInv
<1>2. CASE UNCHANGED version
  BY <1>2 DEF Owners, VersionsOf
<1>3. ASSUME NEW x \in Connections, Commit(x)
      PROVE  Owners(d)' = Owners(d)
  <2>1. CASE work[x].kind \in Deletions
    <3>1. /\ \A e \in Documents : doc'[e] = IF e \in work[x].docs THEN Gone ELSE doc[e]
          /\ version' = { v \in version : v.document \notin work[x].docs }
      BY <1>1, <1>3, <2>1, Committing DEF Uploads, Deletions
    <3>2. d \notin work[x].docs
      BY <3>1 DEF Stands
    <3>3. VersionsOf(d)' = VersionsOf(d)
      BY <3>1, <3>2 DEF VersionsOf
    <3> QED
      BY <3>3 DEF Owners
  <2>2. CASE work[x].kind \in Uploads \cup {"create"}
    <3>1. PICK e \in Documents :
            /\ work[x].docs = {e} /\ work[x].at = "queued"
            /\ version' = version \cup { [document |-> e, versionNumber |-> work[x].number,
                                         uri |-> work[x].uri, uploadedBy |-> work[x].by] }
      BY <1>1, <1>3, <2>2, Committing DEF Uploads, Deletions
    <3>2. d = e => work[x].kind \in Uploads /\ work[x].number # 1
      BY <1>1, <2>2, <3>1 DEF RowsInv, Creating, LaterNumbers, Stands
    <3>3. \A v : v.versionNumber = 1 => (v \in VersionsOf(d)' <=> v \in VersionsOf(d))
      BY <3>1, <3>2 DEF VersionsOf
    <3> QED
      BY <3>3 DEF Owners
  <2> QED
    BY <1>1, <1>3, <2>1, <2>2, Committing
<1>4. ASSUME NEW x \in Connections
      PROVE  /\ \A e \in Documents, f \in Pdfs : \A a : Create(x, e, f, a) \/ Replace(x, e, f, a) => UNCHANGED version
             /\ \A v \in version : \A a : Restore(x, v, a) => UNCHANGED version
             /\ \A e \in Documents : SweepVersions(x, e) => UNCHANGED version
             /\ \A ds \in SUBSET Documents : BulkDelete(x, ds) => UNCHANGED version
  BY DEF Create, Replace, Restore, SweepVersions, BulkDelete
<1>5. ASSUME NEW x \in Connections
      PROVE  /\ ReadNumber(x) \/ InsertVersion(x) \/ UpdateDocument(x) => UNCHANGED version
             /\ DeleteRow(x) \/ DeleteRows(x) \/ CleanUp(x) \/ Rollback(x) => UNCHANGED version
             /\ \A j \in Jobs : Enqueue(x, j) => UNCHANGED version
  BY DEF ReadNumber, InsertVersion, UpdateDocument, DeleteRow, DeleteRows, CleanUp, Rollback, Enqueue
<1>6. ASSUME NEW j \in Jobs, Draw(j) \/ Skip(j) \/ Show(j) \/ Throws(j)
      PROVE  UNCHANGED version
  BY <1>6 DEF Draw, Skip, Show, Throws
<1> QED
  BY <1>2, <1>3, <1>4, <1>5, <1>6 DEF BoardNext, boardVars

-----------------------------------------------------------------------------
(* The thumbnails.                                                         *)

\* The requests that have queued a job of d and have not ended.
Queued(x, d) == work[x].kind \in Uploads \cup {"create"} /\ work[x].at = "queued" /\ d \in work[x].docs

\* A job draws the file of the request that queued it, or the current one.
JobsTell ==
    \A j \in Jobs : Alive(j) /\ job[j].document \notin smudged =>
        /\ \A x \in Connections : Queued(x, job[j].document) => job[j].pdf = work[x].uri
        /\ Stands(job[j].document) =>
              \/ job[j].pdf = doc[job[j].document].uri
              \/ \E x \in Connections : Queued(x, job[j].document)

ThumbsInv == RowsInv /\ JobsTell /\ ThumbnailTells

LEMMA QueuedOnce ==
    ASSUME RowsInv, NEW d \in Documents, NEW x \in Connections, NEW z \in Connections, Queued(x, d), Queued(z, d)
    PROVE  x = z
<1>1. Creating /\ Exclusive
  BY DEF RowsInv
<1>2. CASE work[x].kind = "create" \/ work[z].kind = "create"
  BY <1>1, <1>2 DEF Queued, Creating
<1>3. CASE work[x].kind \in Uploads /\ work[z].kind \in Uploads
  BY <1>1, <1>3 DEF Queued, Exclusive, Updates
<1> QED
  BY <1>2, <1>3 DEF Queued

LEMMA ThumbsInit == BoardInit => ThumbsInv
<1> SUFFICES ASSUME BoardInit PROVE ThumbsInv
  OBVIOUS
<1>1. PICK old \in FirstDays :
        doc = [d \in Documents |-> IF d \in DOMAIN old THEN [uri |-> old[d].uri, thumbnailUri |-> Absent] ELSE Absent]
  BY DEF BoardInit
<1>2. ThumbnailTells
  BY <1>1 DEF ThumbnailTells, Stands
<1>3. JobsTell
  BY DEF BoardInit, JobsTell, Alive
<1> QED
  BY <1>2, <1>3, RowsInit DEF ThumbsInv

LEMMA ThumbsStep ==
    ASSUME ThumbsInv, [BoardNext]_boardVars
    PROVE  ThumbsInv'
<1>1. RowsInv /\ RowsInv' /\ Shapes /\ Shapes'
  BY RowsStep DEF ThumbsInv, RowsInv
<1>2. JobsTell /\ ThumbnailTells
  BY DEF ThumbsInv
<1>3. \A x \in Connections : work[x] \in Work /\ Shape(work[x]) /\ work[x].docs \subseteq Documents
  BY <1>1 DEF Shapes, BoardTypes, Work
<1>4. \A j \in Jobs : Alive(j) => job[j] \in Job /\ job[j].document \in Documents
  BY <1>1, Rows DEF Shapes, Job
\* Nothing is queued, nothing is saved.
<1>5. ASSUME UNCHANGED <<doc, job, smudged>>,
             \A x \in Connections, d \in Documents :
                (Queued(x, d)' <=> Queued(x, d)) /\ (Queued(x, d) => work'[x].uri = work[x].uri)
      PROVE  ThumbsInv'
  <2>1. JobsTell'
    BY <1>2, <1>4, <1>5 DEF JobsTell, Alive, Stands
  <2>2. ThumbnailTells'
    BY <1>2, <1>5 DEF ThumbnailTells, Stands
  <2> QED
    BY <1>1, <2>1, <2>2 DEF ThumbsInv
<1>6. ASSUME NEW x \in Connections, NEW q, Starts(x, q), UNCHANGED <<doc, job, smudged>>, q.at # "queued"
      PROVE  ThumbsInv'
  BY <1>5, <1>6 DEF Starts, Queued, Idle, Asked, Uploads
<1>7. ASSUME NEW x \in Connections, NEW d \in Documents, NEW f \in Pdfs, NEW a, Create(x, d, f, a) \/ Replace(x, d, f, a)
      PROVE  ThumbsInv'
  <2>1. \/ Starts(x, Asked("create", "cleaned", {d}, f, a, 1, {}))
        \/ Starts(x, Asked("replace", "read", {d}, f, a, 0, FilesOf(d)))
    BY <1>1, <1>7, Starting
  <2>2. UNCHANGED <<doc, job, smudged>>
    BY <1>7 DEF Create, Replace, History
  <2> QED
    BY <1>6, <2>1, <2>2 DEF Asked
<1>8. ASSUME NEW x \in Connections, NEW v \in version, NEW a, Restore(x, v, a)
      PROVE  ThumbsInv'
  <2>1. Starts(x, Asked("restore", "read", {v.document}, v.uri, a, 0, FilesOf(v.document) \ Pdfs))
    BY <1>1, <1>8, Starting
  <2> QED
    BY <1>6, <1>8, <2>1 DEF Restore, Asked
<1>9. ASSUME NEW x \in Connections, NEW d \in Documents, SweepVersions(x, d)
      PROVE  ThumbsInv'
  <2>1. Starts(x, Asked("remove", "swept", {d}, Absent, Absent, 0, {}))
    BY <1>1, <1>9, Starting
  <2> QED
    BY <1>6, <1>9, <2>1 DEF SweepVersions, Asked, History
<1>10. ASSUME NEW x \in Connections, NEW ds \in SUBSET Documents, BulkDelete(x, ds)
       PROVE  ThumbsInv'
  <2>1. Starts(x, Asked("bulk", "read", ds, Absent, Absent, 0, UNION { FilesOf(d) : d \in ds }))
    BY <1>1, <1>10, Starting
  <2> QED
    BY <1>6, <1>10, <2>1 DEF BulkDelete, Asked, History
<1>11. ASSUME NEW x \in Connections,
              ReadNumber(x) \/ InsertVersion(x) \/ UpdateDocument(x) \/ DeleteRow(x) \/ DeleteRows(x) \/ CleanUp(x)
       PROVE  ThumbsInv'
  <2>1. UNCHANGED <<doc, job, smudged>>
    BY <1>11 DEF ReadNumber, InsertVersion, UpdateDocument, DeleteRow, DeleteRows, CleanUp, History
  <2>2. work[x].at # "queued" /\ work'[x].at # "queued" /\ \A z \in Connections \ {x} : work'[z] = work[z]
    BY <1>1, <1>11, Going DEF Goes
  <2> QED
    BY <1>5, <2>1, <2>2 DEF Queued
<1>12. ASSUME NEW x \in Connections, NEW k \in Jobs, Enqueue(x, k)
       PROVE  ThumbsInv'
  <2>1. Goes(x, "cleaned", "queued") /\ work[x].kind \in Uploads \cup {"create"} /\ UNCHANGED doc
    BY <1>1, <1>12, Going DEF Enqueue
  <2>2. PICK d \in Documents : work[x].docs = {d}
    BY <1>3, <2>1 DEF Shape, Idle, Asked, Uploads
  <2>3. /\ job' = [job EXCEPT ![k] = [document |-> d, pdf |-> work[x].uri, left |-> Attempts, drawn |-> FALSE]]
        /\ smudged' = IF \E j \in Jobs : Alive(j) /\ job[j].document = d THEN smudged \cup {d} ELSE smudged
    BY <1>12, <2>2 DEF Enqueue
  <2>4. Queued(x, d)' /\ \A z \in Connections, e \in Documents : e # d => (Queued(z, e)' <=> Queued(z, e))
    BY <2>1, <2>2 DEF Goes, Queued
  <2>5. job'[k].document = d /\ job'[k].pdf = work'[x].uri /\ \A j \in Jobs \ {k} : job'[j] = job[j]
    BY <1>1, <2>1, <2>3 DEF Goes, Shapes, BoardTypes
  <2>6. JobsTell'
    <3> SUFFICES ASSUME NEW j \in Jobs, Alive(j)', job'[j].document \notin smudged'
                 PROVE  /\ \A z \in Connections : Queued(z, job[j].document)' => job'[j].pdf = work'[z].uri
                        /\ Stands(job[j].document)' =>
                              \/ job'[j].pdf = doc'[job'[j].document].uri
                              \/ \E z \in Connections : Queued(z, job[j].document)'
      BY DEF JobsTell
    <3>1. CASE j = k
      <4>1. \A z \in Connections \ {x} : ~Queued(z, d)
        BY <1>1, <2>1, <2>2 DEF RowsInv, Creating, Exclusive, Updates, Goes, Queued
      <4>2. \A z \in Connections : Queued(z, d)' => z = x
        BY <2>1, <4>1 DEF Goes, Queued
      <4> QED
        BY <2>4, <2>5, <3>1, <4>2
    <3>2. CASE j # k
      <4>1. Alive(j) /\ job'[j] = job[j] /\ job[j].document \in Documents
        BY <1>4, <2>5, <3>2 DEF Alive
      <4>2. job[j].document # d /\ job[j].document \notin smudged
        BY <2>3, <4>1
      <4>3. \A z \in Connections : (Queued(z, job[j].document)' <=> Queued(z, job[j].document))
                                  /\ (Queued(z, job[j].document) => work'[z] = work[z])
        BY <2>1, <2>2, <4>1, <4>2 DEF Goes, Queued
      <4> QED
        BY <1>2, <2>1, <4>1, <4>2, <4>3 DEF JobsTell, Stands
    <3> QED
      BY <3>1, <3>2
  <2>7. ThumbnailTells'
    BY <1>2, <2>1, <2>3 DEF ThumbnailTells, Stands
  <2> QED
    BY <1>1, <2>6, <2>7 DEF ThumbsInv
<1>13. ASSUME NEW x \in Connections, Commit(x)
       PROVE  ThumbsInv'
  <2> DEFINE q == work[x]
  <2>1. Ends(x) /\ UNCHANGED <<job, smudged>>
    BY <1>1, <1>13, Committing DEF Commit
  <2>2. \A z \in Connections, d \in Documents : Queued(z, d)' => z # x /\ Queued(z, d) /\ work'[z] = work[z]
    BY <2>1 DEF Ends, Idle, Asked, Uploads, Queued
  <2>3. \A z \in Connections \ {x}, d \in Documents : Queued(z, d) => Queued(z, d)'
    BY <2>1 DEF Ends, Queued
  <2>4. \A j \in Jobs : Alive(j)' => Alive(j) /\ job'[j] = job[j]
    BY <2>1 DEF Alive
  <2>5. CASE q.kind \in Deletions
    <3>1. \A d \in Documents : doc'[d] = IF d \in q.docs THEN Gone ELSE doc[d]
      BY <1>1, <1>13, <2>5, Committing DEF Uploads, Deletions
    <3>2. \A d \in Documents : Stands(d)' => Stands(d) /\ doc'[d] = doc[d]
      BY <3>1 DEF Stands
    <3>3. \A d \in Documents : ~Queued(x, d)
      BY <2>5 DEF Queued, Uploads, Deletions
    <3>4. JobsTell'
      <4> SUFFICES ASSUME NEW j \in Jobs, Alive(j)', job'[j].document \notin smudged'
                   PROVE  /\ \A z \in Connections : Queued(z, job[j].document)' => job'[j].pdf = work'[z].uri
                          /\ Stands(job[j].document)' =>
                                \/ job'[j].pdf = doc'[job'[j].document].uri
                                \/ \E z \in Connections : Queued(z, job[j].document)'
        BY DEF JobsTell
      <4>1. UNCHANGED job /\ Alive(j) /\ job[j].document \in Documents /\ job[j].document \notin smudged
        BY <1>4, <2>1, <2>4
      <4>2. \A z \in Connections : Queued(z, job[j].document)' <=> Queued(z, job[j].document)
        BY <2>2, <2>3, <3>3, <4>1 DEF Queued
      <4> QED
        BY <1>2, <2>2, <3>2, <4>1, <4>2 DEF JobsTell, Queued, Stands
    <3>5. ThumbnailTells'
      BY <1>2, <2>1, <3>2 DEF ThumbnailTells
    <3> QED
      BY <1>1, <3>4, <3>5 DEF ThumbsInv
  <2>6. CASE q.kind \in Uploads \cup {"create"}
    <3>1. PICK d \in Documents :
            /\ q.docs = {d} /\ q.at = "queued"
            /\ \A e \in Documents \ {d} : doc'[e] = doc[e]
            /\ doc'[d] = [uri |-> q.uri, thumbnailUri |-> Absent]
      BY <1>1, <1>13, <2>6, Committing DEF Uploads, Deletions
    <3>2. Queued(x, d) /\ \A e \in Documents \ {d} : ~Queued(x, e)
      BY <2>6, <3>1 DEF Queued
    <3>3. \A z \in Connections : ~Queued(z, d)'
      BY <1>1, <2>2, <3>2, QueuedOnce
    <3>4. JobsTell'
      <4> SUFFICES ASSUME NEW j \in Jobs, Alive(j)', job'[j].document \notin smudged'
                   PROVE  /\ \A z \in Connections : Queued(z, job[j].document)' => job'[j].pdf = work'[z].uri
                          /\ Stands(job[j].document)' =>
                                \/ job'[j].pdf = doc'[job'[j].document].uri
                                \/ \E z \in Connections : Queued(z, job[j].document)'
        BY DEF JobsTell
      <4>1. UNCHANGED job /\ Alive(j) /\ job[j].document \in Documents /\ job[j].document \notin smudged
        BY <1>4, <2>1, <2>4
      <4>2. CASE job[j].document = d
        <5>1. job[j].pdf = q.uri
          BY <1>2, <3>2, <4>1, <4>2 DEF JobsTell
        <5>2. doc'[d].uri = q.uri
          BY <3>1
        <5>3. \A z \in Connections : ~Queued(z, job[j].document)'
          BY <3>3, <4>1, <4>2 DEF Queued
        <5> QED
          BY <4>1, <4>2, <5>1, <5>2, <5>3
      <4>3. CASE job[j].document # d
        <5>1. \A z \in Connections : Queued(z, job[j].document)' <=> Queued(z, job[j].document)
          BY <2>2, <2>3, <3>2, <4>1, <4>3 DEF Queued
        <5> QED
          BY <1>2, <2>2, <3>1, <4>1, <4>3, <5>1 DEF JobsTell, Queued, Stands
      <4> QED
        BY <4>2, <4>3
    <3>5. ThumbnailTells'
      <4> SUFFICES ASSUME NEW e \in Documents \ smudged, Stands(e)', doc'[e].thumbnailUri # Absent
                   PROVE  doc'[e].thumbnailUri.pdf = doc'[e].uri
        BY <2>1 DEF ThumbnailTells
      <4>1. e # d
        BY <3>1
      <4> QED
        BY <1>2, <3>1, <4>1 DEF ThumbnailTells, Stands
    <3> QED
      BY <1>1, <3>4, <3>5 DEF ThumbsInv
  <2> QED
    BY <1>1, <1>13, <2>5, <2>6, Committing
<1>14. ASSUME NEW x \in Connections, Rollback(x)
       PROVE  ThumbsInv'
  <2>1. Ends(x) /\ UNCHANGED job /\ smudged' = IF work[x].at = "queued" THEN smudged \cup work[x].docs ELSE smudged
    BY <1>1, <1>14, Going DEF Rollback
  <2>2. \A d \in Documents : doc'[d] = IF work[x].kind = "create" /\ d \in work[x].docs THEN Gone ELSE doc[d]
    BY <1>14 DEF Rollback
  <2>3. \A d \in Documents : Stands(d)' => Stands(d) /\ doc'[d] = doc[d]
    BY <2>2 DEF Stands
  <2>4. \A z \in Connections, d \in Documents : Queued(z, d)' => Queued(z, d) /\ work'[z] = work[z]
    BY <2>1 DEF Ends, Idle, Asked, Uploads, Queued
  <2>5. \A z \in Connections, d \in Documents \ smudged' : Queued(z, d) => Queued(z, d)'
    BY <2>1 DEF Ends, Queued
  <2>6. JobsTell'
    <3> SUFFICES ASSUME NEW j \in Jobs, Alive(j)', job'[j].document \notin smudged'
                 PROVE  /\ \A z \in Connections : Queued(z, job[j].document)' => job'[j].pdf = work'[z].uri
                        /\ Stands(job[j].document)' =>
                              \/ job'[j].pdf = doc'[job'[j].document].uri
                              \/ \E z \in Connections : Queued(z, job[j].document)'
      BY DEF JobsTell
    <3>1. UNCHANGED job /\ Alive(j) /\ job[j].document \in Documents /\ job[j].document \notin smudged
      BY <1>4, <2>1 DEF Alive
    <3>2. \A z \in Connections : Queued(z, job[j].document)' <=> Queued(z, job[j].document)
      BY <2>4, <2>5, <3>1 DEF Queued
    <3> QED
      BY <1>2, <2>3, <2>4, <3>1, <3>2 DEF JobsTell, Queued, Stands
  <2>7. ThumbnailTells'
    BY <1>2, <2>1, <2>3 DEF ThumbnailTells
  <2> QED
    BY <1>1, <2>6, <2>7 DEF ThumbsInv
\* The jobs that are left are the same ones, at the same file.
<1>15. ASSUME SameCurrent, UNCHANGED <<work, smudged>>,
              \A j \in Jobs : Alive(j)' => Alive(j) /\ job'[j].document = job[j].document /\ job'[j].pdf = job[j].pdf
       PROVE  JobsTell'
  <2> SUFFICES ASSUME NEW j \in Jobs, Alive(j)', job'[j].document \notin smudged'
               PROVE  /\ \A z \in Connections : Queued(z, job[j].document)' => job'[j].pdf = work'[z].uri
                      /\ Stands(job[j].document)' =>
                            \/ job'[j].pdf = doc'[job'[j].document].uri
                            \/ \E z \in Connections : Queued(z, job[j].document)'
    BY DEF JobsTell
  <2> DEFINE d == job[j].document
  <2>1. Alive(j) /\ job'[j].document = d /\ job'[j].pdf = job[j].pdf /\ d \in Documents /\ d \notin smudged
    BY <1>4, <1>15
  <2>2. \A z \in Connections : Queued(z, job[j].document)' <=> Queued(z, d)
    BY <1>15, <2>1 DEF Queued
  <2>3. Stands(job[j].document)' <=> Stands(d)
    BY <1>15, <2>1 DEF SameCurrent, Stands
  <2>4. Stands(d) => doc'[d].uri = doc[d].uri
    BY <1>15, <2>1 DEF SameCurrent
  <2> QED
    BY <1>2, <1>15, <2>1, <2>2, <2>3, <2>4 DEF JobsTell
<1>16. ASSUME NEW j \in Jobs, Draw(j) \/ Skip(j) \/ Show(j) \/ Throws(j)
       PROVE  ThumbsInv'
  <2>1. SameCurrent /\ UNCHANGED <<work, smudged>>
    BY <1>1, <1>16, ShowKeepsCurrent DEF Draw, Skip, Show, Throws, History
  <2>2. \A k \in Jobs : Alive(k)' => Alive(k) /\ job'[k].document = job[k].document /\ job'[k].pdf = job[k].pdf
    <3>1. job \in [Jobs -> Job \cup {Absent, Gone}] /\ Alive(j) /\ job[j] \in Job
      BY <1>1, <1>4, <1>16 DEF Draw, Skip, Show, Throws, Shapes, BoardTypes
    <3>2. CASE Draw(j)
      BY <3>1, <3>2 DEF Draw, Alive, Job
    <3>3. CASE Skip(j) \/ Show(j)
      BY <3>1, <3>3 DEF Skip, Show, Over, Alive
    <3>4. CASE Throws(j)
      BY <3>1, <3>4 DEF Throws, Again, Alive, Job
    <3> QED
      BY <1>16, <3>2, <3>3, <3>4
  <2>3. JobsTell'
    BY <1>15, <2>1, <2>2
  <2>4. ThumbnailTells'
    <3>1. CASE Show(j)
      <4> DEFINE d == job[j].document
      <4>1. d \in Documents /\ Alive(j) /\ Stands(d)
        BY <1>4, <3>1 DEF Show
      <4>2. \A x \in Connections : ~Queued(x, d)
        BY <1>1, <3>1, <4>1 DEF Show, Queued, Updates, RowsInv, Creating, Stands
      <4>3. d \notin smudged => job[j].pdf = doc[d].uri
        BY <1>2, <4>1, <4>2 DEF JobsTell
      <4>4. doc[d] \in DocumentRow
        BY <1>1, <4>1, Rows DEF Shapes
      <4>5. doc'[d].thumbnailUri.pdf = job[j].pdf /\ doc'[d].uri = doc[d].uri /\ \A e \in Documents \ {d} : doc'[e] = doc[e]
        BY <1>1, <3>1, <4>1, <4>4 DEF Show, KeyOf, DocumentRow, Shapes, BoardTypes
      <4>6. \A e \in Documents : Stands(e)' <=> Stands(e)
        BY <2>1 DEF SameCurrent
      <4> SUFFICES ASSUME NEW e \in Documents \ smudged, Stands(e)', doc'[e].thumbnailUri # Absent
                   PROVE  doc'[e].thumbnailUri.pdf = doc'[e].uri
        BY <2>1 DEF ThumbnailTells
      <4>7. CASE e = d
        BY <4>3, <4>5, <4>7
      <4>8. CASE e # d
        BY <1>2, <4>5, <4>6, <4>8 DEF ThumbnailTells
      <4> QED
        BY <4>7, <4>8
    <3>2. CASE Draw(j) \/ Skip(j) \/ Throws(j)
      BY <1>2, <2>1, <3>2 DEF Draw, Skip, Throws, ThumbnailTells, Stands
    <3> QED
      BY <1>16, <3>1, <3>2
  <2> QED
    BY <1>1, <2>3, <2>4 DEF ThumbsInv
<1>17. CASE UNCHANGED boardVars
  BY <1>5, <1>17 DEF boardVars, Queued
<1> QED
  BY <1>7, <1>8, <1>9, <1>10, <1>11, <1>12, <1>13, <1>14, <1>16, <1>17 DEF BoardNext

-----------------------------------------------------------------------------
(* The files.                                                              *)

Sends(x, d) == work[x].kind \in Uploads \cup {"create"} /\ d \in work[x].docs

\* The keys that are named for d, in its row and its versions or by who uploads.
Known(d, f) ==
    \/ f \in FilesOf(d)
    \/ \E v \in version : v.document = d /\ v.uri = f
    \/ \E x \in Connections : Sends(x, d) /\ work[x].uri = f

Given ==
    /\ \A d \in Documents, f \in Pdfs : Known(d, f) => f \in uploaded
    /\ \A x \in Connections : work[x].old \cap Pdfs \subseteq uploaded

\* No file is of two documents, and who deletes a file is about its document.
Apart ==
    /\ \A d, e \in Documents, f \in Pdfs \cup Thumbnail : Known(d, f) /\ Known(e, f) => d = e
    /\ \A x \in Connections, d \in Documents, f \in Pdfs \cup Thumbnail :
          f \in work[x].old /\ Known(d, f) => d \in work[x].docs

\* A thumbnail is shown once, when its job is over.
Shown ==
    \A t \in Thumbnail :
        (\E d \in Documents : Known(d, t)) \/ (\E x \in Connections : t \in work[x].old) => job[t.job] = Gone

NamesInv == Given /\ Apart /\ Shown

\* The keys K become known for e.
Learns(e, K) ==
    /\ \A d \in Documents, f \in Pdfs \cup Thumbnail : Known(d, f)' => Known(d, f) \/ (d = e /\ f \in K)
    /\ \A d \in Documents, f \in K : ~Known(d, f)
    /\ \A x \in Connections : K \cap work[x].old = {}
    /\ uploaded \subseteq uploaded' /\ K \cap Pdfs \subseteq uploaded'
    /\ \A t \in K \cap Thumbnail : job'[t.job] = Gone
    /\ \A j \in Jobs : job[j] = Gone => job'[j] = Gone

\* What x is going to delete, it was going to delete before, or it finds in a row.
OldFrom(x) ==
    \/ work'[x].old = {}
    \/ work'[x].old = work[x].old /\ work'[x].docs = work[x].docs
    \/ \A f \in work'[x].old : \E d \in Documents : d \in work'[x].docs /\ f \in FilesOf(d)

LEMMA NamesKept ==
    ASSUME Shapes, Shapes', NamesInv, NEW e, NEW K, Learns(e, K), \A x \in Connections : OldFrom(x)
    PROVE  NamesInv'
<1>1. \A x \in Connections : work'[x].old \subseteq Pdfs \cup Thumbnail
  BY DEF Shapes, BoardTypes, Work
<1>2. \A x \in Connections : \A f \in work'[x].old :
        \/ f \in work[x].old /\ work'[x].docs = work[x].docs
        \/ \E d \in Documents : d \in work'[x].docs /\ Known(d, f)
  BY DEF OldFrom, Known
<1>3. Given'
  <2>1. \A d \in Documents, f \in Pdfs : Known(d, f)' => f \in uploaded'
    BY DEF Learns, NamesInv, Given
  <2>2. \A x \in Connections, f \in Pdfs : f \in work'[x].old => f \in uploaded'
    BY <1>2 DEF Learns, NamesInv, Given
  <2> QED
    BY <2>1, <2>2 DEF Given
<1>4. Apart'
  <2>1. ASSUME NEW d \in Documents, NEW c \in Documents, NEW f \in Pdfs \cup Thumbnail, Known(d, f)', Known(c, f)'
        PROVE  d = c
    BY <2>1 DEF Learns, NamesInv, Apart
  <2>2. ASSUME NEW x \in Connections, NEW d \in Documents, NEW f \in Pdfs \cup Thumbnail, f \in work'[x].old, Known(d, f)'
        PROVE  d \in work'[x].docs
    <3>1. f \notin K
      BY <1>2, <2>2 DEF Learns
    <3>2. Known(d, f)
      BY <2>2, <3>1 DEF Learns
    <3> QED
      BY <1>2, <2>2, <3>2 DEF NamesInv, Apart
  <2> QED
    BY <2>1, <2>2 DEF Apart
<1>5. Shown'
  <2> SUFFICES ASSUME NEW t \in Thumbnail, (\E d \in Documents : Known(d, t)') \/ (\E x \in Connections : t \in work'[x].old)
               PROVE  job'[t.job] = Gone
    BY DEF Shown
  <2>1. t.job \in Jobs
    BY DEF Thumbnail
  <2>2. t \in K \/ (\E d \in Documents : Known(d, t)) \/ (\E x \in Connections : t \in work[x].old)
    BY <1>2 DEF Learns
  <2> QED
    BY <2>1, <2>2 DEF Learns, NamesInv, Shown
<1> QED
  BY <1>3, <1>4, <1>5 DEF NamesInv

LEMMA NamesInit == BoardInit => NamesInv
<1> SUFFICES ASSUME BoardInit PROVE NamesInv
  OBVIOUS
<1> USE BoardAssumption
<1>1. PICK old \in FirstDays :
        /\ doc = [d \in Documents |->
                    IF d \in DOMAIN old THEN [uri |-> old[d].uri, thumbnailUri |-> Absent] ELSE Absent]
        /\ version = { [document |-> d, versionNumber |-> 1, uri |-> old[d].uri, uploadedBy |-> old[d].by]
                      : d \in { e \in DOMAIN old : old[e].by # Absent } }
        /\ uploaded = { old[d].uri : d \in DOMAIN old }
  BY DEF BoardInit
<1>2. /\ DOMAIN old \subseteq Documents /\ \A d \in DOMAIN old : old[d].uri \in Pdfs
      /\ \A d, e \in DOMAIN old : old[d].uri = old[e].uri => d = e
  BY <1>1
<1>3. \A x \in Connections : work[x].old = {} /\ \A d : ~Sends(x, d)
  BY DEF BoardInit, Idle, Asked, Sends, Uploads
<1>4. ASSUME NEW d \in Documents, NEW f, Known(d, f)
      PROVE  d \in DOMAIN old /\ f = old[d].uri
  <2>1. CASE f \in FilesOf(d)
    BY <1>1, <2>1 DEF FilesOf, Stands
  <2>2. CASE \E v \in version : v.document = d /\ v.uri = f
    BY <1>1, <2>2
  <2> QED
    BY <1>3, <1>4, <2>1, <2>2 DEF Known
<1>5. Given
  BY <1>1, <1>3, <1>4 DEF Given
<1>6. Apart
  BY <1>2, <1>3, <1>4 DEF Apart
<1>7. Shown
  BY <1>2, <1>3, <1>4 DEF Shown
<1> QED
  BY <1>5, <1>6, <1>7 DEF NamesInv

LEMMA NamesStep ==
    ASSUME RowsInv, NamesInv, [BoardNext]_boardVars
    PROVE  NamesInv'
<1>1. RowsInv' /\ Shapes /\ Shapes'
  BY RowsStep DEF RowsInv
<1>2. \A x \in Connections : work[x] \in Work /\ Shape(work[x])
  BY <1>1 DEF Shapes, BoardTypes
\* A key that no PDF had is new to all.
<1>3. ASSUME NEW f \in Pdfs \ uploaded
      PROVE  (\A d \in Documents : ~Known(d, f)) /\ \A x \in Connections : f \notin work[x].old
  BY <1>3 DEF NamesInv, Given
<1>4. ASSUME NEW x \in Connections, NEW q, Starts(x, q), UNCHANGED <<doc, version, job>>,
             NEW d \in Documents, NEW f \in Pdfs, q.docs = {d}, q.uri = f, SaveBoardFile(f),
             \A g \in q.old : g \in FilesOf(d)
      PROVE  NamesInv'
  <2>1. Learns(d, {f})
    <3>1. \A c \in Documents : \A g : Known(c, g)' => Known(c, g) \/ (c = d /\ g = f)
      BY <1>4 DEF Starts, Known, Sends, FilesOf, Stands
    <3>2. f \in uploaded' /\ uploaded \subseteq uploaded' /\ f \notin Thumbnail
      BY <1>4, BoardAssumption DEF SaveBoardFile
    <3> QED
      BY <1>3, <1>4, <3>1, <3>2 DEF SaveBoardFile, Learns
  <2>2. \A z \in Connections : OldFrom(z)
    BY <1>4 DEF OldFrom, Starts
  <2> QED
    BY <1>1, <2>1, <2>2, NamesKept
<1>5. ASSUME NEW x \in Connections, NEW d \in Documents, NEW f \in Pdfs, NEW a, Create(x, d, f, a) \/ Replace(x, d, f, a)
      PROVE  NamesInv'
  <2>1. \/ Starts(x, Asked("create", "cleaned", {d}, f, a, 1, {}))
        \/ Starts(x, Asked("replace", "read", {d}, f, a, 0, FilesOf(d)))
    BY <1>1, <1>5, Starting
  <2>2. UNCHANGED <<doc, version, job>> /\ SaveBoardFile(f)
    BY <1>5 DEF Create, Replace
  <2> QED
    BY <1>4, <2>1, <2>2 DEF Asked
\* Nothing is learnt.
<1>6. ASSUME \A d \in Documents, f \in Pdfs \cup Thumbnail : Known(d, f)' => Known(d, f),
             uploaded' = uploaded, \A j \in Jobs : job[j] = Gone => job'[j] = Gone,
             \A x \in Connections : OldFrom(x)
      PROVE  NamesInv'
  <2>1. Learns(Absent, {})
    BY <1>6 DEF Learns
  <2> QED
    BY <1>1, <1>6, <2>1, NamesKept
<1>7. ASSUME NEW x \in Connections, NEW v \in version, NEW a, Restore(x, v, a)
      PROVE  NamesInv'
  <2>1. Starts(x, Asked("restore", "read", {v.document}, v.uri, a, 0, FilesOf(v.document) \ Pdfs))
    BY <1>1, <1>7, Starting
  <2>2. UNCHANGED <<doc, version, job, uploaded>> /\ v.document \in Documents
    BY <1>1, <1>7 DEF Restore, Shapes, BoardTypes, VersionRow
  <2>3. \A d \in Documents : \A f : Known(d, f)' => Known(d, f)
    BY <2>1, <2>2 DEF Starts, Asked, Known, Sends, FilesOf, Stands
  <2>4. \A z \in Connections : OldFrom(z)
    BY <2>1, <2>2 DEF OldFrom, Starts, Asked
  <2> QED
    BY <1>6, <2>2, <2>3, <2>4
<1>8. ASSUME NEW x \in Connections, NEW ds \in SUBSET Documents,
             (\E d \in Documents : ds = {d} /\ SweepVersions(x, d)) \/ BulkDelete(x, ds)
      PROVE  NamesInv'
  <2>1. \/ Starts(x, Asked("remove", "swept", ds, Absent, Absent, 0, {}))
        \/ Starts(x, Asked("bulk", "read", ds, Absent, Absent, 0, UNION { FilesOf(d) : d \in ds }))
    BY <1>1, <1>8, Starting
  <2>2. UNCHANGED <<doc, version, job, uploaded>>
    BY <1>8 DEF SweepVersions, BulkDelete
  <2>3. \A d \in Documents : \A f : Known(d, f)' => Known(d, f)
    BY <2>1, <2>2 DEF Starts, Asked, Known, Sends, FilesOf, Stands, Uploads
  <2>4. \A z \in Connections : OldFrom(z)
    BY <2>1, <2>2 DEF OldFrom, Starts, Asked
  <2> QED
    BY <1>6, <2>2, <2>3, <2>4
<1>9. ASSUME NEW x \in Connections,
             \/ ReadNumber(x) \/ InsertVersion(x) \/ UpdateDocument(x) \/ DeleteRow(x) \/ DeleteRows(x) \/ CleanUp(x)
             \/ \E j \in Jobs : Enqueue(x, j)
      PROVE  NamesInv'
  <2>1. UNCHANGED <<doc, version, uploaded>>
    BY <1>9 DEF ReadNumber, InsertVersion, UpdateDocument, DeleteRow, DeleteRows, CleanUp, Enqueue
  <2>2. /\ \E from, to \in Places : Goes(x, from, to)
        /\ work'[x].old = work[x].old \/ DeleteRow(x)
    BY <1>1, <1>9, Going DEF Places
  <2>3. \A d \in Documents : \A f : Known(d, f)' => Known(d, f)
    BY <2>1, <2>2 DEF Goes, Known, Sends, FilesOf, Stands
  <2>4. DeleteRow(x) => work'[x].old = UNION { FilesOf(d) : d \in work[x].docs }
    <3> DEFINE old == UNION { FilesOf(d) : d \in work[x].docs }
    <3>1. /\ work \in [Connections -> Work]
          /\ DeleteRow(x) => work' = [work EXCEPT ![x] = [@ EXCEPT !.at = "deleted", !.old = old]]
      BY <1>1 DEF DeleteRow, Shapes, BoardTypes
    <3>2. DeleteRow(x) => work'[x] = [work[x] EXCEPT !.at = "deleted", !.old = old]
      BY <3>1
    <3> HIDE DEF old
    <3>3. [work[x] EXCEPT !.at = "deleted", !.old = old].old = old
      BY <1>2 DEF Work
    <3> QED
      BY <3>2, <3>3 DEF old
  <2>5. work[x].docs \subseteq Documents
    BY <1>2 DEF Work
  <2>6. \A z \in Connections : OldFrom(z)
    BY <2>2, <2>4, <2>5 DEF OldFrom, Goes
  <2>7. \A j \in Jobs : job[j] = Gone => job'[j] = Gone
    BY <1>1, <1>9, BoardAssumption DEF ReadNumber, InsertVersion, UpdateDocument, DeleteRow, DeleteRows, CleanUp, Enqueue,
       Shapes, BoardTypes
  <2> QED
    BY <1>6, <2>1, <2>3, <2>6, <2>7
<1>10. ASSUME NEW x \in Connections, Commit(x) \/ Rollback(x)
       PROVE  NamesInv'
  <2>1. Ends(x) /\ UNCHANGED <<job, uploaded>>
    BY <1>1, <1>10, Going DEF Commit, Rollback
  <2>2. \A z \in Connections : \A d : Sends(z, d)' => Sends(z, d) /\ work'[z] = work[z]
    BY <2>1 DEF Ends, Idle, Asked, Uploads, Sends
  <2>3. \A d \in Documents : \A f : Known(d, f)' => Known(d, f)
    <3>1. CASE Rollback(x)
      <4>1. UNCHANGED version /\ \A d \in Documents : doc'[d] = doc[d] \/ doc'[d] = Gone
        BY <3>1 DEF Rollback
      <4>2. \A d \in Documents : \A f : f \in FilesOf(d)' => f \in FilesOf(d)
        BY <4>1 DEF FilesOf, Stands
      <4> QED
        BY <2>2, <4>1, <4>2 DEF Known
    <3>2. CASE Commit(x) /\ work[x].kind \in Deletions
      <4>1. version' \subseteq version /\ \A d \in Documents : doc'[d] = doc[d] \/ doc'[d] = Gone
        BY <3>2, Committing DEF Uploads, Deletions
      <4>2. \A d \in Documents : \A f : f \in FilesOf(d)' => f \in FilesOf(d)
        BY <4>1 DEF FilesOf, Stands
      <4> QED
        BY <2>2, <4>1, <4>2 DEF Known
    <3>3. CASE Commit(x) /\ work[x].kind \notin Deletions
      <4>1. PICK d \in Documents :
              /\ work[x].kind \in Uploads \cup {"create"} /\ work[x].docs = {d}
              /\ \A e \in Documents \ {d} : doc'[e] = doc[e]
              /\ doc'[d] = [uri |-> work[x].uri, thumbnailUri |-> Absent]
              /\ version' = version \cup { [document |-> d, versionNumber |-> work[x].number,
                                           uri |-> work[x].uri, uploadedBy |-> work[x].by] }
        BY <3>3, Committing
      <4>2. Sends(x, d) /\ Known(d, work[x].uri)
        BY <4>1 DEF Sends, Known
      <4>3. \A e \in Documents : \A f : f \in FilesOf(e)' => f \in FilesOf(e) \/ (e = d /\ f = work[x].uri)
        BY <4>1 DEF FilesOf, Stands
      <4>4. \A v \in version' : v \in version \/ (v.document = d /\ v.uri = work[x].uri)
        BY <4>1
      <4> QED
        BY <2>2, <4>2, <4>3, <4>4 DEF Known
    <3> QED
      BY <1>10, <3>1, <3>2, <3>3
  <2>4. \A z \in Connections : OldFrom(z)
    BY <2>1 DEF Ends, Idle, Asked, OldFrom
  <2> QED
    BY <1>6, <2>1, <2>3, <2>4
<1>11. ASSUME NEW j \in Jobs, Draw(j) \/ Skip(j) \/ Throws(j)
       PROVE  NamesInv'
  <2>1. UNCHANGED <<doc, version, work, uploaded>>
    BY <1>11 DEF Draw, Skip, Throws, History
  <2>2. \A d \in Documents : \A f : Known(d, f)' => Known(d, f)
    BY <2>1 DEF Known, Sends, FilesOf, Stands
  <2>3. \A k \in Jobs : job[k] = Gone => job'[k] = Gone
    BY <1>1, <1>11 DEF Draw, Skip, Throws, Over, Again, Alive, Shapes, BoardTypes
  <2>4. \A z \in Connections : OldFrom(z)
    BY <2>1 DEF OldFrom
  <2> QED
    BY <1>6, <2>1, <2>2, <2>3, <2>4
<1>12. ASSUME NEW j \in Jobs, Show(j)
       PROVE  NamesInv'
  <2>1. PICK d \in Documents, t \in Thumbnail :
          /\ d = job[j].document /\ t = KeyOf(j) /\ t.job = j
          /\ Alive(j) /\ doc[d] \in DocumentRow /\ UNCHANGED <<version, work, uploaded>>
    BY <1>1, <1>12, Rows DEF Show, Shapes, Job, KeyOf, History
  <2>2. \A e \in Documents \ {d} : doc'[e] = doc[e]
    BY <1>1, <1>12, <2>1 DEF Show, Shapes, BoardTypes
  <2>3. doc'[d].uri = doc[d].uri /\ doc'[d].thumbnailUri = t /\ Stands(d)
    BY <1>1, <1>12, <2>1 DEF Show, DocumentRow, Shapes, BoardTypes
  <2>4. \A e \in Documents : \A f : f \in FilesOf(e)' => f \in FilesOf(e) \/ (e = d /\ f = t)
    <3>1. \A e \in Documents \ {d} : FilesOf(e)' = FilesOf(e)
      BY <2>2 DEF FilesOf, Stands
    <3>2. doc[d].uri \in FilesOf(d)
      BY <2>1, <2>3, BoardAssumption DEF FilesOf, DocumentRow
    <3>3. FilesOf(d)' \subseteq {doc[d].uri, t}
      BY <2>3 DEF FilesOf
    <3> QED
      BY <3>1, <3>2, <3>3
  <2>5. \A e \in Documents : \A f : Known(e, f)' => Known(e, f) \/ (e = d /\ f = t)
    BY <2>1, <2>4 DEF Known, Sends
  <2>6. job'[j] = Gone /\ \A k \in Jobs \ {j} : job'[k] = job[k]
    BY <1>1, <1>12 DEF Show, Over, Shapes, BoardTypes
  <2>7. (\A e \in Documents : ~Known(e, t)) /\ \A x \in Connections : t \notin work[x].old
    BY <2>1 DEF NamesInv, Shown, Alive
  <2>8. t \notin Pdfs
    BY <2>1, BoardAssumption
  <2>9. Learns(d, {t})
    BY <2>1, <2>5, <2>6, <2>7, <2>8 DEF Learns
  <2>10. \A z \in Connections : OldFrom(z)
    BY <2>1 DEF OldFrom
  <2> QED
    BY <1>1, <2>9, <2>10, NamesKept
<1>13. CASE UNCHANGED boardVars
  <2>1. \A d \in Documents : \A f : Known(d, f)' => Known(d, f)
    BY <1>13 DEF boardVars, Known, Sends, FilesOf, Stands
  <2> QED
    BY <1>6, <1>13, <2>1 DEF boardVars, OldFrom
<1> QED
  BY <1>5, <1>7, <1>8, <1>9, <1>10, <1>11, <1>12, <1>13 DEF BoardNext

\* What is drawn is in the store, and who uploads a file is alone with it until the commit.
Drawn == \A j \in Jobs : Alive(j) /\ job[j].drawn => KeyOf(j) \in file

Foreign(x, f) ==
    \/ \E d \in Documents : f \in FilesOf(d)
    \/ \E v \in version : v.uri = f
    \/ \E z \in Connections : f \in work[z].old \/ (z # x /\ work[z].uri = f)

Fresh ==
    \A x \in Connections : work[x].kind \in {"create", "replace"} => work[x].uri \in file /\ ~Foreign(x, work[x].uri)

FilesInv == RowsInv /\ NamesInv /\ Drawn /\ Fresh /\ FilesStand

LEMMA FilesInit == BoardInit => FilesInv
<1> SUFFICES ASSUME BoardInit PROVE FilesInv
  OBVIOUS
<1>1. PICK old \in FirstDays :
        /\ doc = [d \in Documents |->
                    IF d \in DOMAIN old THEN [uri |-> old[d].uri, thumbnailUri |-> Absent] ELSE Absent]
        /\ uploaded = { old[d].uri : d \in DOMAIN old } /\ file = uploaded
  BY DEF BoardInit
<1>2. FilesStand
  BY <1>1 DEF FilesStand, FilesOf, Stands
<1>3. Drawn /\ Fresh
  BY DEF BoardInit, Drawn, Alive, Fresh, Idle, Asked
<1> QED
  BY <1>2, <1>3, RowsInit, NamesInit DEF FilesInv

LEMMA DrawnStep ==
    ASSUME RowsInv, NamesInv, Drawn, [BoardNext]_boardVars
    PROVE  Drawn'
<1>1. Shapes /\ Shapes'
  BY RowsStep DEF RowsInv
<1>2. job \in [Jobs -> Job \cup {Absent, Gone}] /\ \A j \in Jobs : Alive(j) => job[j] \in Job /\ KeyOf(j) \in Thumbnail
  BY <1>1, Rows DEF Shapes, BoardTypes
\* The jobs that have drawn are the same, and nothing of theirs is deleted.
<1>3. ASSUME UNCHANGED job, \A t \in file : t \in file' \/ t \in Pdfs \/ \E x \in Connections : t \in work[x].old
      PROVE  Drawn'
  <2> SUFFICES ASSUME NEW j \in Jobs, Alive(j), job[j].drawn
               PROVE  KeyOf(j) \in file'
    BY <1>3 DEF Drawn, Alive, KeyOf
  <2>1. KeyOf(j) \in file /\ KeyOf(j) \in Thumbnail /\ KeyOf(j).job = j /\ job[j] # Gone
    BY <1>2 DEF Drawn, KeyOf, Alive
  <2> QED
    BY <1>3, <2>1, BoardAssumption DEF NamesInv, Shown
<1>4. ASSUME NEW x \in Connections,
             \/ \E d \in Documents, f \in Pdfs : (\E a \in Authors : Create(x, d, f, a)) \/ (\E a \in Editors : Replace(x, d, f, a))
             \/ \E v \in version, a \in Editors : Restore(x, v, a)
             \/ ReadNumber(x) \/ InsertVersion(x) \/ UpdateDocument(x)
             \/ \E ds \in SUBSET Documents : BulkDelete(x, ds)
             \/ DeleteRow(x) \/ DeleteRows(x) \/ Commit(x) \/ Rollback(x)
      PROVE  Drawn'
  <2>1. UNCHANGED job /\ file \subseteq file'
    BY <1>4 DEF Create, Replace, SaveBoardFile, Restore, ReadNumber, InsertVersion, UpdateDocument, BulkDelete, DeleteRow,
       DeleteRows, Commit, Rollback
  <2> QED
    BY <1>3, <2>1
<1>5. ASSUME NEW x \in Connections, NEW d \in Documents, SweepVersions(x, d)
      PROVE  Drawn'
  <2>1. \A t \in file : t \in file' \/ t \in Pdfs
    BY <1>1, <1>5 DEF SweepVersions, VersionsOf, Shapes, BoardTypes, VersionRow
  <2> QED
    BY <1>3, <1>5, <2>1 DEF SweepVersions
<1>6. ASSUME NEW x \in Connections, CleanUp(x)
      PROVE  Drawn'
  BY <1>3, <1>6 DEF CleanUp
<1>7. ASSUME NEW x \in Connections, NEW k \in Jobs, Enqueue(x, k)
      PROVE  Drawn'
  <2>1. UNCHANGED file /\ ~job'[k].drawn /\ \A j \in Jobs \ {k} : job'[j] = job[j]
    BY <1>2, <1>7 DEF Enqueue
  <2> QED
    BY <2>1 DEF Drawn, Alive, KeyOf
<1>8. ASSUME NEW k \in Jobs, Draw(k) \/ Skip(k) \/ Show(k) \/ Throws(k)
      PROVE  Drawn'
  <2>1. Alive(k) /\ job[k] \in Job
    BY <1>2, <1>8 DEF Draw, Skip, Show, Throws
  <2>2. \A j \in Jobs \ {k} : job'[j] = job[j]
    BY <1>2, <1>8 DEF Draw, Skip, Show, Throws, Over, Again
  <2>3. file \subseteq file'
    BY <1>8 DEF Draw, Skip, Show, Throws
  <2>4. Alive(k)' /\ job'[k].drawn => KeyOf(k)' \in file'
    <3>1. CASE Draw(k)
      <4>1. KeyOf(k) \in file' /\ job'[k].pdf = job[k].pdf /\ job'[k].left = job[k].left
        BY <1>2, <2>1, <3>1 DEF Draw, Job
      <4> QED
        BY <4>1 DEF KeyOf
    <3>2. CASE Skip(k) \/ Show(k)
      BY <1>2, <3>2 DEF Skip, Show, Over, Alive
    <3>3. CASE Throws(k)
      <4>1. job'[k] = Gone \/ job'[k].drawn = FALSE
        BY <1>2, <2>1, <3>3 DEF Throws, Again, Job
      <4> QED
        BY <4>1 DEF Alive
    <3> QED
      BY <1>8, <3>1, <3>2, <3>3
  <2> QED
    BY <2>2, <2>3, <2>4 DEF Drawn, Alive, KeyOf
<1>9. CASE UNCHANGED boardVars
  BY <1>3, <1>9 DEF boardVars
<1> QED
  BY <1>4, <1>5, <1>6, <1>7, <1>8, <1>9 DEF BoardNext

LEMMA FreshStep ==
    ASSUME RowsInv, NamesInv, Fresh, [BoardNext]_boardVars
    PROVE  Fresh'
<1>1. Shapes /\ Shapes'
  BY RowsStep DEF RowsInv
<1>2. /\ \A x \in Connections : work[x] \in Work /\ Shape(work[x]) /\ work[x].docs \subseteq Documents
      /\ \A x \in Connections : work[x].kind \in {"create", "replace"} => work[x].uri \in Pdfs
  BY <1>1 DEF Shapes, BoardTypes, Work, Shape, Idle, Asked, Deletions
\* Nothing becomes foreign to a request that is under way, and its file stays.
<1>3. ASSUME \A x \in Connections : work'[x].kind \in {"create", "replace"} =>
                /\ work[x].kind = work'[x].kind /\ work[x].uri = work'[x].uri
                /\ work[x].uri \in file /\ work[x].uri \in Pdfs => work[x].uri \in file' \/ Foreign(x, work[x].uri)
                /\ Foreign(x, work[x].uri)' => Foreign(x, work[x].uri)
      PROVE  Fresh'
  BY <1>2, <1>3 DEF Fresh, Foreign
<1>4. ASSUME NEW x \in Connections, NEW q, Starts(x, q), UNCHANGED <<doc, version>>,
             NEW d \in Documents, NEW f \in Pdfs, q.uri = f, SaveBoardFile(f), \A g \in q.old : g \in FilesOf(d)
      PROVE  Fresh'
  <2>1. /\ \A c \in Documents : ~Known(c, f)
        /\ \A z \in Connections : f \notin work[z].old
    BY <1>4 DEF SaveBoardFile, NamesInv, Given
  <2>2. \A v \in version : v.document \in Documents /\ v.uri # f
    BY <1>1, <2>1 DEF Known, Shapes, BoardTypes, VersionRow
  <2>3. \A z \in Connections : work[z].uri # f
    <3> SUFFICES ASSUME NEW z \in Connections, work[z].uri = f PROVE FALSE
      OBVIOUS
    <3>1. f # Absent
      BY BoardAssumption
    <3>2. work[z].kind \in Uploads \cup {"create"} /\ \E c \in Documents : c \in work[z].docs
      BY <1>2, <3>1 DEF Shape, Idle, Asked
    <3> QED
      BY <2>1, <3>2 DEF Known, Sends
  <2>4. f \in file' /\ file \subseteq file'
    BY <1>4 DEF SaveBoardFile
  <2>5. f \notin FilesOf(d) /\ \A c \in Documents : f \notin FilesOf(c) /\ FilesOf(c)' = FilesOf(c)
    BY <1>4, <2>1 DEF Known, FilesOf, Stands
  <2>6. ~Foreign(x, f)'
    BY <1>4, <2>1, <2>2, <2>3, <2>5 DEF Foreign, Starts
  <2>7. \A z \in Connections \ {x} : \A g : Foreign(z, g)' => Foreign(z, g) \/ g = f
    BY <1>4, <2>5 DEF Foreign, Starts
  <2> QED
    BY <1>2, <1>4, <2>3, <2>4, <2>6, <2>7 DEF Fresh, Starts
<1>5. ASSUME NEW x \in Connections, NEW d \in Documents, NEW f \in Pdfs, NEW a, Create(x, d, f, a) \/ Replace(x, d, f, a)
      PROVE  Fresh'
  <2>1. \/ Starts(x, Asked("create", "cleaned", {d}, f, a, 1, {}))
        \/ Starts(x, Asked("replace", "read", {d}, f, a, 0, FilesOf(d)))
    BY <1>1, <1>5, Starting
  <2>2. UNCHANGED <<doc, version>> /\ SaveBoardFile(f)
    BY <1>5 DEF Create, Replace
  <2> QED
    BY <1>4, <2>1, <2>2 DEF Asked
\* The others start with what the rows name.
<1>6. ASSUME NEW x \in Connections, NEW q, Starts(x, q), UNCHANGED <<doc, version>>, q.kind \notin {"create", "replace"},
             \A g \in q.old : \E d \in Documents : g \in FilesOf(d),
             q.uri = Absent \/ \E v \in version : v.uri = q.uri,
             \A f \in file : f \in file' \/ \E v \in version : v.uri = f
      PROVE  Fresh'
  <2>1. \A z \in Connections \ {x}, g \in Pdfs : Foreign(z, g)' => Foreign(z, g)
    <3>1. \A g \in Pdfs : g # Absent
      BY BoardAssumption
    <3>2. \A d \in Documents : FilesOf(d)' = FilesOf(d)
      BY <1>6 DEF FilesOf, Stands
    <3> QED
      BY <1>6, <3>1, <3>2 DEF Foreign, Starts
  <2>2. \A z \in Connections, f \in file : f \in file' \/ Foreign(z, f)
    BY <1>6 DEF Foreign
  <2> QED
    BY <1>2, <1>3, <1>6, <2>1, <2>2 DEF Starts
<1>7. ASSUME NEW x \in Connections, NEW v \in version, NEW a, Restore(x, v, a)
      PROVE  Fresh'
  <2>1. Starts(x, Asked("restore", "read", {v.document}, v.uri, a, 0, FilesOf(v.document) \ Pdfs))
    BY <1>1, <1>7, Starting
  <2>2. UNCHANGED <<doc, version, file>> /\ v.document \in Documents
    BY <1>1, <1>7 DEF Restore, Shapes, BoardTypes, VersionRow
  <2> QED
    BY <1>6, <2>1, <2>2 DEF Asked
<1>8. ASSUME NEW x \in Connections, NEW d \in Documents, SweepVersions(x, d)
      PROVE  Fresh'
  <2>1. Starts(x, Asked("remove", "swept", {d}, Absent, Absent, 0, {}))
    BY <1>1, <1>8, Starting
  <2>2. UNCHANGED <<doc, version>> /\ \A f \in file : f \in file' \/ \E v \in version : v.uri = f
    BY <1>8 DEF SweepVersions, VersionsOf
  <2> QED
    BY <1>6, <2>1, <2>2 DEF Asked
<1>9. ASSUME NEW x \in Connections, NEW ds \in SUBSET Documents, BulkDelete(x, ds)
      PROVE  Fresh'
  <2>1. Starts(x, Asked("bulk", "read", ds, Absent, Absent, 0, UNION { FilesOf(d) : d \in ds }))
    BY <1>1, <1>9, Starting
  <2>2. UNCHANGED <<doc, version, file>>
    BY <1>9 DEF BulkDelete
  <2>3. \A g \in UNION { FilesOf(d) : d \in ds } : \E d \in Documents : g \in FilesOf(d)
    OBVIOUS
  <2> QED
    BY <1>6, <2>1, <2>2, <2>3 DEF Asked
<1>10. ASSUME NEW x \in Connections,
              \/ ReadNumber(x) \/ InsertVersion(x) \/ UpdateDocument(x) \/ DeleteRow(x) \/ DeleteRows(x) \/ CleanUp(x)
              \/ \E j \in Jobs : Enqueue(x, j)
       PROVE  Fresh'
  <2>1. UNCHANGED <<doc, version>> /\ \A f \in file : f \in file' \/ f \in work[x].old
    BY <1>10 DEF ReadNumber, InsertVersion, UpdateDocument, DeleteRow, DeleteRows, CleanUp, Enqueue
  <2>2. /\ \E from, to \in Places : Goes(x, from, to)
        /\ work'[x].old = work[x].old \/ DeleteRow(x)
    BY <1>1, <1>10, Going DEF Places
  <2>3. DeleteRow(x) => work'[x].old = UNION { FilesOf(d) : d \in work[x].docs }
    <3> DEFINE old == UNION { FilesOf(d) : d \in work[x].docs }
    <3>1. DeleteRow(x) => work'[x] = [work[x] EXCEPT !.at = "deleted", !.old = old]
      BY <1>1 DEF DeleteRow, Shapes, BoardTypes
    <3> HIDE DEF old
    <3>2. [work[x] EXCEPT !.at = "deleted", !.old = old].old = old
      BY <1>2 DEF Work
    <3> QED
      BY <3>1, <3>2 DEF old
  <2>4. \A g \in work'[x].old : g \in work[x].old \/ \E d \in Documents : g \in FilesOf(d)
    BY <1>2, <2>2, <2>3
  <2>5. \A d \in Documents : FilesOf(d)' = FilesOf(d)
    BY <2>1 DEF FilesOf, Stands
  <2>6. \A z \in Connections : \A g : Foreign(z, g)' => Foreign(z, g)
    BY <2>1, <2>2, <2>4, <2>5 DEF Foreign, Goes
  <2>7. \A z \in Connections, f \in file : f \in file' \/ Foreign(z, f)
    BY <2>1 DEF Foreign
  <2> QED
    BY <1>2, <1>3, <2>2, <2>6, <2>7 DEF Goes
<1>11. ASSUME NEW x \in Connections, Commit(x) \/ Rollback(x)
       PROVE  Fresh'
  <2>1. Ends(x) /\ UNCHANGED file
    BY <1>1, <1>11, Going DEF Commit, Rollback
  <2>2. /\ \A d \in Documents : \A f : f \in FilesOf(d)' => f \in FilesOf(d) \/ f = work[x].uri
        /\ \A v \in version' : v \in version \/ v.uri = work[x].uri
    <3>1. CASE Rollback(x)
      <4>1. UNCHANGED version /\ \A d \in Documents : doc'[d] = doc[d] \/ doc'[d] = Gone
        BY <3>1 DEF Rollback
      <4> QED
        BY <4>1 DEF FilesOf, Stands
    <3>2. CASE Commit(x) /\ work[x].kind \in Deletions
      <4>1. version' \subseteq version /\ \A d \in Documents : doc'[d] = doc[d] \/ doc'[d] = Gone
        BY <3>2, Committing DEF Uploads, Deletions
      <4> QED
        BY <4>1 DEF FilesOf, Stands
    <3>3. CASE Commit(x) /\ work[x].kind \notin Deletions
      <4>1. PICK d \in Documents :
              /\ \A e \in Documents \ {d} : doc'[e] = doc[e]
              /\ doc'[d] = [uri |-> work[x].uri, thumbnailUri |-> Absent]
              /\ version' = version \cup { [document |-> d, versionNumber |-> work[x].number,
                                           uri |-> work[x].uri, uploadedBy |-> work[x].by] }
        BY <3>3, Committing
      <4> QED
        BY <4>1 DEF FilesOf, Stands
    <3> QED
      BY <1>11, <3>1, <3>2, <3>3
  <2>3. \A z \in Connections \ {x}, g \in Pdfs : Foreign(z, g)' => Foreign(z, g)
    <3>1. Idle.uri = Absent /\ Idle.old = {} /\ \A g \in Pdfs : g # Absent
      BY BoardAssumption DEF Idle, Asked
    <3> QED
      BY <2>1, <2>2, <3>1 DEF Foreign, Ends
  <2> QED
    BY <1>2, <1>3, <2>1, <2>3 DEF Ends, Idle, Asked
<1>12. ASSUME NEW j \in Jobs, Draw(j) \/ Skip(j) \/ Show(j) \/ Throws(j)
       PROVE  Fresh'
  <2>1. UNCHANGED <<version, work>> /\ file \subseteq file'
    BY <1>12 DEF Draw, Skip, Show, Throws
  <2>2. \A d \in Documents, f \in Pdfs : f \in FilesOf(d)' => f \in FilesOf(d)
    <3>1. CASE Show(j)
      <4>1. SameCurrent /\ \A d \in Documents : Stands(d)' => doc'[d] \in DocumentRow
        BY <1>1, <3>1, ShowKeepsCurrent DEF Shapes, BoardTypes, Stands
      <4>2. \A d \in Documents : Stands(d)' => Stands(d) /\ doc'[d].uri = doc[d].uri /\ doc[d].uri # Absent
        BY <1>1, <4>1, Rows, BoardAssumption DEF SameCurrent, DocumentRow, Shapes
      <4>3. \A d \in Documents, f \in Pdfs : f \in FilesOf(d)' => Stands(d)' /\ f = doc'[d].uri
        BY <4>1, BoardAssumption DEF FilesOf, DocumentRow
      <4> QED
        BY <4>2, <4>3 DEF FilesOf
    <3>2. CASE Draw(j) \/ Skip(j) \/ Throws(j)
      BY <3>2 DEF Draw, Skip, Throws, FilesOf, Stands
    <3> QED
      BY <1>12, <3>1, <3>2
  <2>3. \A z \in Connections, g \in Pdfs : Foreign(z, g)' => Foreign(z, g)
    BY <2>1, <2>2 DEF Foreign
  <2> QED
    BY <1>2, <1>3, <2>1, <2>3
<1>13. CASE UNCHANGED boardVars
  <2>1. \A z \in Connections : \A g : Foreign(z, g)' => Foreign(z, g)
    BY <1>13 DEF boardVars, Foreign, FilesOf, Stands
  <2> QED
    BY <1>3, <1>13, <2>1 DEF boardVars
<1> QED
  BY <1>5, <1>7, <1>8, <1>9, <1>10, <1>11, <1>12, <1>13 DEF BoardNext

LEMMA FilesStandStep ==
    ASSUME FilesInv, [BoardNext]_boardVars
    PROVE  FilesStand'
<1>1. RowsInv /\ NamesInv /\ Shapes /\ Shapes' /\ FilesStand /\ Drawn /\ Fresh
  BY ShapesStep DEF FilesInv, RowsInv
<1>2. \A x \in Connections : work[x] \in Work /\ Shape(work[x]) /\ work[x].docs \subseteq Documents
  BY <1>1 DEF Shapes, BoardTypes, Work
<1>3. \A d \in Documents : FilesOf(d) \subseteq Pdfs \cup Thumbnail
  BY <1>1, Rows DEF Shapes
\* For each document by itself: it names nothing new, what it names is not deleted or the
\* document is erased, and who has erased it is still about it.
<1>4. ASSUME \A d \in Documents \ lost' :
                \/ \A f \in FilesOf(d)' : f \in file'
                \/ \E x \in Connections : Erased(x, d)'
                \/ /\ d \notin lost
                   /\ \A f \in FilesOf(d)' : (f \in FilesOf(d) /\ (f \in file => f \in file')) \/ f \in file'
                   /\ \A x \in Connections : ~Erased(x, d)
      PROVE  FilesStand'
  BY <1>1, <1>4 DEF FilesStand
<1>5. ASSUME lost \subseteq lost', \A d \in Documents : FilesOf(d)' \subseteq FilesOf(d), file \subseteq file',
             \A d \in Documents \ lost', x \in Connections : Erased(x, d) => Erased(x, d)'
      PROVE  FilesStand'
  BY <1>4, <1>5
<1>6. ASSUME UNCHANGED doc PROVE \A d \in Documents : FilesOf(d)' = FilesOf(d)
  BY <1>6 DEF FilesOf, Stands
<1>7. ASSUME NEW x \in Connections, NEW q, Starts(x, q), UNCHANGED <<doc, lost>>, file \subseteq file'
      PROVE  FilesStand'
  <2>1. \A d \in Documents, z \in Connections : Erased(z, d) => Erased(z, d)'
    BY <1>7 DEF Starts, Erased, Idle, Asked
  <2> QED
    BY <1>5, <1>6, <1>7, <2>1
<1>8. ASSUME NEW x \in Connections, NEW d \in Documents, NEW f \in Pdfs, NEW a, Create(x, d, f, a) \/ Replace(x, d, f, a)
      PROVE  FilesStand'
  <2>1. \/ Starts(x, Asked("create", "cleaned", {d}, f, a, 1, {}))
        \/ Starts(x, Asked("replace", "read", {d}, f, a, 0, FilesOf(d)))
    BY <1>1, <1>8, Starting
  <2> QED
    BY <1>7, <1>8, <2>1 DEF Create, Replace, SaveBoardFile, History
<1>9. ASSUME NEW x \in Connections, NEW v \in version, NEW a, Restore(x, v, a)
      PROVE  FilesStand'
  <2>1. Starts(x, Asked("restore", "read", {v.document}, v.uri, a, 0, FilesOf(v.document) \ Pdfs))
    BY <1>1, <1>9, Starting
  <2> QED
    BY <1>7, <1>9, <2>1 DEF Restore
<1>10. ASSUME NEW x \in Connections, NEW ds \in SUBSET Documents, BulkDelete(x, ds)
       PROVE  FilesStand'
  <2>1. Starts(x, Asked("bulk", "read", ds, Absent, Absent, 0, UNION { FilesOf(d) : d \in ds }))
    BY <1>1, <1>10, Starting
  <2> QED
    BY <1>7, <1>10, <2>1 DEF BulkDelete, History
\* Whose versions go is erased; no other document has files among them.
<1>11. ASSUME NEW x \in Connections, NEW d \in Documents, SweepVersions(x, d)
       PROVE  FilesStand'
  <2>1. Starts(x, Asked("remove", "swept", {d}, Absent, Absent, 0, {}))
    BY <1>1, <1>11, Starting
  <2>2. UNCHANGED <<doc, lost>> /\ file' = file \ { v.uri : v \in VersionsOf(d) }
    BY <1>11 DEF SweepVersions, History
  <2>3. Erased(x, d)'
    BY <2>1 DEF Starts, Asked, Erased
  <2>4. \A c \in Documents, z \in Connections : Erased(z, c) => Erased(z, c)'
    BY <2>1 DEF Starts, Erased, Idle, Asked
  <2>5. \A c \in Documents \ {d} : \A f \in FilesOf(c) : f \in file => f \in file'
    <3> SUFFICES ASSUME NEW c \in Documents \ {d}, NEW f \in FilesOf(c), NEW v \in version, v.document = d, v.uri = f
                 PROVE  FALSE
      BY <2>2 DEF VersionsOf
    <3>1. Known(c, f) /\ Known(d, f) /\ f \in Pdfs \cup Thumbnail
      BY <1>3 DEF Known
    <3> QED
      BY <1>1, <3>1 DEF NamesInv, Apart
  <2> QED
    BY <1>4, <1>6, <2>2, <2>3, <2>4, <2>5
<1>12. ASSUME NEW x \in Connections, CleanUp(x)
       PROVE  FilesStand'
  <2>1. \/ Goes(x, "updated", "cleaned") /\ work[x].kind \in Uploads
        \/ Goes(x, "deleted", "cleaned") /\ work[x].kind \in Deletions
    BY <1>1, <1>12, Going
  <2>2. UNCHANGED <<doc, lost>> /\ file' = file \ work[x].old
    BY <1>12 DEF CleanUp, History
  <2>3. \A d \in work[x].docs : Erased(x, d)'
    BY <2>1 DEF Goes, Erased, Deletions
  <2>4. \A c \in Documents, z \in Connections : Erased(z, c) => Erased(z, c)'
    BY <2>1 DEF Goes, Erased, Deletions, Uploads
  <2>5. \A c \in Documents \ work[x].docs : \A f \in FilesOf(c) : f \in file => f \in file'
    <3> SUFFICES ASSUME NEW c \in Documents \ work[x].docs, NEW f \in FilesOf(c), f \in work[x].old
                 PROVE  FALSE
      BY <2>2
    <3>1. Known(c, f) /\ f \in Pdfs \cup Thumbnail
      BY <1>3 DEF Known
    <3> QED
      BY <1>1, <3>1 DEF NamesInv, Apart
  <2> QED
    BY <1>4, <1>6, <2>2, <2>3, <2>4, <2>5
<1>13. ASSUME NEW x \in Connections,
              \/ ReadNumber(x) \/ InsertVersion(x) \/ UpdateDocument(x) \/ DeleteRow(x) \/ DeleteRows(x)
              \/ \E j \in Jobs : Enqueue(x, j)
       PROVE  FilesStand'
  <2>1. UNCHANGED <<doc, lost, file>>
    BY <1>13 DEF ReadNumber, InsertVersion, UpdateDocument, DeleteRow, DeleteRows, Enqueue, History
  <2>2. \/ \E from, to \in Places : Goes(x, from, to) /\ from \notin {"cleaned", "queued"} /\ work[x].kind \in Uploads
        \/ \E from, to \in Places : Goes(x, from, to) /\ from # "cleaned" /\ work[x].kind \in Deletions
        \/ Goes(x, "cleaned", "queued") /\ work[x].kind \in Uploads \cup {"create"}
    <3>1. CASE ReadNumber(x) \/ InsertVersion(x) \/ UpdateDocument(x)
      BY <1>1, <3>1, Going DEF Places
    <3>2. CASE DeleteRow(x) \/ DeleteRows(x)
      BY <1>1, <3>2, Going DEF Places, Deletions
    <3>3. CASE \E j \in Jobs : Enqueue(x, j)
      BY <1>1, <3>3, Going
    <3> QED
      BY <1>13, <3>1, <3>2, <3>3
  <2>3. \A c \in Documents, z \in Connections : Erased(z, c) => Erased(z, c)'
    BY <2>2 DEF Goes, Erased, Deletions, Uploads
  <2> QED
    BY <1>5, <1>6, <2>1, <2>3
<1>14. ASSUME NEW x \in Connections, Commit(x)
       PROVE  FilesStand'
  <2>1. Ends(x) /\ UNCHANGED file
    BY <1>1, <1>14, Committing DEF Commit
  <2>2. lost' = IF work[x].kind = "restore" /\ work[x].uri \notin file THEN lost \cup work[x].docs ELSE lost \ work[x].docs
    BY <1>14 DEF Commit
  <2>3. \A d \in Documents \ work[x].docs : FilesOf(d)' = FilesOf(d)
    BY <1>1, <1>14, Committing DEF FilesOf, Stands
  <2>4. \A d \in Documents \ work[x].docs, z \in Connections : Erased(z, d) => Erased(z, d)'
    BY <2>1 DEF Ends, Erased
  <2>5. ASSUME NEW d \in work[x].docs, d \notin lost'
        PROVE  FilesOf(d)' \subseteq file'
    <3>1. CASE work[x].kind \in Deletions
      <4>1. doc'[d] = Gone
        BY <1>1, <1>2, <1>14, <3>1, Committing DEF Uploads, Deletions
      <4> QED
        BY <4>1 DEF FilesOf, Stands
    <3>2. CASE work[x].kind \notin Deletions
      <4>1. doc'[d] = [uri |-> work[x].uri, thumbnailUri |-> Absent] /\ work[x].kind \in Uploads \cup {"create"}
        BY <1>1, <1>14, <2>5, <3>2, Committing
      <4>2. FilesOf(d)' \subseteq {work[x].uri}
        BY <4>1 DEF FilesOf
      <4>3. work[x].uri \in file
        BY <1>1, <2>2, <2>5, <4>1 DEF Fresh, Uploads
      <4> QED
        BY <2>1, <4>2, <4>3
    <3> QED
      BY <3>1, <3>2
  <2> QED
    BY <1>4, <2>1, <2>2, <2>3, <2>4, <2>5
<1>15. ASSUME NEW x \in Connections, Rollback(x)
       PROVE  FilesStand'
  <2>1. Ends(x) /\ UNCHANGED file /\ lost' = lost \cup { d \in Documents : Erased(x, d) }
    BY <1>1, <1>15, Going DEF Rollback
  <2>2. \A d \in Documents : doc'[d] = doc[d] \/ doc'[d] = Gone
    BY <1>15 DEF Rollback
  <2>3. \A d \in Documents : FilesOf(d)' \subseteq FilesOf(d)
    BY <2>2 DEF FilesOf, Stands
  <2>4. \A d \in Documents \ lost', z \in Connections : Erased(z, d) => Erased(z, d)'
    BY <2>1 DEF Ends, Erased
  <2> QED
    BY <1>5, <2>1, <2>3, <2>4
<1>16. ASSUME NEW j \in Jobs, Draw(j) \/ Skip(j) \/ Show(j) \/ Throws(j)
       PROVE  FilesStand'
  <2>1. UNCHANGED <<work, lost>> /\ file \subseteq file'
    BY <1>16 DEF Draw, Skip, Show, Throws, History
  <2>2. \A c \in Documents, z \in Connections : Erased(z, c) <=> Erased(z, c)'
    BY <2>1 DEF Erased
  <2>3. CASE Show(j)
    <3>1. PICK d \in Documents, t \in Thumbnail :
            d = job[j].document /\ t = KeyOf(j) /\ Alive(j) /\ job[j].drawn /\ doc[d] \in DocumentRow
      BY <1>1, <2>3, Rows DEF Show, Shapes, Job
    <3>2. \A e \in Documents \ {d} : doc'[e] = doc[e]
      BY <1>1, <2>3, <3>1 DEF Show, Shapes, BoardTypes
    <3>3. doc'[d].uri = doc[d].uri /\ doc'[d].thumbnailUri = t /\ Stands(d)
      BY <1>1, <2>3, <3>1 DEF Show, DocumentRow, Shapes, BoardTypes
    <3>4. \A e \in Documents \ {d} : FilesOf(e)' = FilesOf(e)
      BY <3>2 DEF FilesOf, Stands
    <3>5. doc[d].uri \in FilesOf(d) /\ FilesOf(d)' \subseteq {doc[d].uri, t}
      BY <3>1, <3>3, BoardAssumption DEF FilesOf, DocumentRow
    <3>6. t \in file'
      BY <1>1, <2>1, <3>1 DEF Drawn
    <3>7. \A e \in Documents : \A f \in FilesOf(e)' : f \in FilesOf(e) \/ f \in file'
      BY <3>4, <3>5, <3>6
    <3> QED
      BY <1>4, <2>1, <2>2, <3>7
  <2>4. CASE Draw(j) \/ Skip(j) \/ Throws(j)
    <3>1. UNCHANGED doc
      BY <2>4 DEF Draw, Skip, Throws
    <3> QED
      BY <1>5, <1>6, <2>1, <2>2, <3>1
  <2> QED
    BY <1>16, <2>3, <2>4
<1>17. CASE UNCHANGED boardVars
  BY <1>5, <1>6, <1>17 DEF boardVars, Erased
<1> QED
  BY <1>8, <1>9, <1>10, <1>11, <1>12, <1>13, <1>14, <1>15, <1>16, <1>17 DEF BoardNext

LEMMA FilesStep ==
    ASSUME FilesInv, [BoardNext]_boardVars
    PROVE  FilesInv'
  BY RowsStep, NamesStep, DrawnStep, FreshStep, FilesStandStep DEF FilesInv

-----------------------------------------------------------------------------
(* The theorems.                                                           *)

\* The rows, the store and the queue hold what their schema says, whatever requests overlap.
THEOREM BoardIsTyped == BoardSpec => []BoardTypes
<1>1. Shapes => BoardTypes
  BY DEF Shapes
<1> QED
  BY ShapesInit, ShapesStep, <1>1, PTL DEF BoardSpec

\* createVersionForUpload and the two updates of BoardDocument.uri keep the last version
\* and the current file the same, however many requests run, where no two uploads or
\* restores of one document overlap.
THEOREM LastVersionIsShown == BoardSpec => []LatestIsCurrent
<1>1. NumbersInv => LatestIsCurrent
  BY DEF NumbersInv
<1> QED
  BY NumbersInit, NumbersStep, <1>1, PTL DEF BoardSpec

\* The account isDocumentOwnedByUploader finds in version 1 never changes while the
\* document stands: not by uploads or restores that overlap, and not by rollbacks.
THEOREM AuthorsStayAuthors == BoardSpec => OwnerStays
<1>1. NumbersInv /\ [BoardNext]_boardVars =>
        [\A d \in Documents \ Unauthored : Stands(d) /\ Stands(d)' => Owners(d)' = Owners(d)]_boardVars
  BY OwnerKept
<1> QED
  BY NumbersInit, NumbersStep, <1>1, PTL DEF BoardSpec, OwnerStays

\* handleThumbnailWork shows a thumbnail of the current file, unless two jobs of one
\* document were under way at once or one was queued by a request that rolled back.
THEOREM ThumbnailsTell == BoardSpec => []ThumbnailTells
<1>1. ThumbsInv => ThumbnailTells
  BY DEF ThumbsInv
<1> QED
  BY ThumbsInit, ThumbsStep, <1>1, PTL DEF BoardSpec

\* replaceDocumentFile, deleteBoardDocument and bulkDeleteBoardItems delete files inside a
\* transaction, by keys they read before: no committed row names a file that is gone,
\* unless its document is being changed, or a rollback or a restore brought that about.
THEOREM RowsNameFiles == BoardSpec => []FilesStand
<1>1. FilesInv => FilesStand
  BY DEF FilesInv
<1> QED
  BY FilesInit, FilesStep, <1>1, PTL DEF BoardSpec
=============================================================================
