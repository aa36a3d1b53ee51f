--------------------- MODULE NotificationPipelineProofs ---------------------
(***************************************************************************)
(* The pipeline for any number of callers, cron runs, rows, jobs and       *)
(* faults.  Everything rests on the locks: a pending row is in the batch   *)
(* of one flush, or cancelled by one caller, or held by nobody.            *)
(***************************************************************************)
EXTENDS NotificationPipeline, FiniteSetTheorems, TLAPS

\* Whoever holds a row holds it alone, and it is pending.
Locks ==
    /\ \A y \in Crons : \A r \in cron[y].batch : Is(r, "pending")
    /\ \A x \in Callers : \A r \in tx[x].hit : Is(r, "pending")
    /\ \A y, z \in Crons : y # z => cron[y].batch \cap cron[z].batch = {}
    /\ \A x, z \in Callers : x # z => tx[x].hit \cap tx[z].hit = {}
    /\ \A x \in Callers, y \in Crons : tx[x].hit \cap cron[y].batch = {}

\* What a flush has queued, at each place.
Flushes ==
    \A y \in Crons :
        /\ cron[y].queued \subseteq cron[y].batch \cap handed
        /\ cron[y].at = "commit" => cron[y].queued = cron[y].batch
        /\ cron[y].at = "idle" => cron[y].batch = {}

\* A caller at work has a type and a key; only one that is done holds rows.
Requests ==
    \A x \in Callers :
        /\ tx[x].at # "idle" => tx[x].type \in Types /\ tx[x].key \in Keys
        /\ tx[x].at # "commit" => tx[x].hit = {}

\* Attempts are left for a job that waits.
Queue ==
    \A j \in JobIds : job[j] # None =>
        /\ job[j].rows \subseteq handed /\ job[j].todo \subseteq job[j].rows
        /\ job[j].refused \subseteq job[j].rows
        /\ job[j].at = "waiting" => job[j].left >= 1
        /\ job[j].at = "active" => job[j].left < Attempts

\* A row that was handed over is pending only while its flush runs or when
\* that flush rolled back, and cancelled only in the second case.
Handing ==
    \A r \in Rows :
        /\ r \in handed => event[r] # None
        /\ r \in handed /\ Is(r, "cancelled") => r \in orphan
        /\ r \in handed /\ Is(r, "pending") =>
              r \in orphan \/ \E y \in Crons : r \in cron[y].queued
        /\ Is(r, "sent") \/ Is(r, "failed") => r \in handed
        /\ mails[r] > 0 => r \in handed

IInv == TypeOK /\ Locks /\ Flushes /\ Requests /\ Queue /\ Handing

-----------------------------------------------------------------------------
(* The table of rows.                                                      *)

(* Marking changes the status of the marked rows that exist, and no more.   *)
LEMMA MarkedRows ==
    ASSUME TypeOK, NEW R, NEW status \in {"cancelled", "sent", "failed", "deleted"}
    PROVE  /\ Marked(R, status) \in [Rows -> Row \cup {None}]
           /\ \A r \in Rows :
                 \/ ~(r \in R /\ Exists(r)) /\ Marked(R, status)[r] = event[r]
                 \/ /\ r \in R /\ Exists(r) /\ Marked(R, status)[r] # None
                    /\ Marked(R, status)[r].status = status
                    /\ Marked(R, status)[r].key = event[r].key
                    /\ Marked(R, status)[r].type = event[r].type
                    /\ Marked(R, status)[r].settled = event[r].settled
<1> DEFINE M == Marked(R, status)
<1>1. ASSUME NEW r \in Rows, r \in R, Exists(r)
      PROVE  /\ M[r] \in Row
             /\ M[r].status = status /\ M[r].key = event[r].key
             /\ M[r].type = event[r].type /\ M[r].settled = event[r].settled
  <2>1. event[r] \in Row
    BY <1>1 DEF TypeOK, Exists
  <2>2. M[r] = [event[r] EXCEPT !.status = status]
    BY <1>1 DEF Marked
  <2> QED
    BY <2>1, <2>2 DEF Row
<1>2. ASSUME NEW r \in Rows, ~(r \in R /\ Exists(r))
      PROVE  M[r] = event[r]
  BY <1>2 DEF Marked
<1>3. M \in [Rows -> Row \cup {None}]
  <2>1. \A r \in Rows : M[r] \in Row \cup {None}
    BY <1>1, <1>2 DEF TypeOK
  <2> QED
    BY <2>1 DEF Marked
<1>4. None \notin Row
  BY PipelineAssumption
<1> QED
  BY <1>1, <1>2, <1>3, <1>4


-----------------------------------------------------------------------------
(* One lemma per action.                                                   *)

(* A caller that begins chooses rows and writes nothing.                   *)
LEMMA BeginKeeps ==
    ASSUME IInv, NEW x \in Callers, NEW t \in Types, NEW k \in Keys, Begin(x, t, k)
    PROVE  IInv'
<1>1. TypeOK'
  <2>1. Matching(t, k) \in SUBSET Rows
    BY DEF Matching
  <2>2. tx'[x] \in Transaction
    BY <2>1 DEF IInv, TypeOK, Begin, Idle, Transaction
  <2>3. tx' \in [Callers -> Transaction]
    BY <2>2 DEF IInv, TypeOK, Begin
  <2> QED
    BY <2>3 DEF IInv, TypeOK, Begin, history
<1>2. Locks'
  BY DEF IInv, TypeOK, Begin, Idle, Locks, Is, history
<1>3. Flushes'
  BY DEF IInv, Begin, Flushes, history
<1>4. Requests'
  BY DEF IInv, TypeOK, Begin, Idle, Requests
<1>5. Queue'
  BY DEF IInv, Begin, Queue, history
<1>6. Handing'
  BY DEF IInv, Begin, Handing, Is, history
<1> QED
  BY <1>1, <1>2, <1>3, <1>4, <1>5, <1>6 DEF IInv

(* The rows a caller cancels are pending and nobody else holds them.       *)
LEMMA CancelKeeps ==
    ASSUME IInv, NEW x \in Callers, Cancel(x)
    PROVE  IInv'
<1> DEFINE hit == { r \in tx[x].found : Is(r, "pending") }
<1>1. /\ tx[x] \in Transaction /\ tx[x].at = "cancel"
      /\ tx[x].found \cap Held = {}
      /\ UNCHANGED <<event, cron, job, faults, handed, orphan, skipped, mails>>
  BY DEF IInv, TypeOK, Cancel, history
<1>2. /\ tx'[x].at \in {"push", "commit"} /\ tx'[x].hit = hit
      /\ tx'[x].type = tx[x].type /\ tx'[x].key = tx[x].key
      /\ tx'[x].at = "push" => hit = {}
      /\ tx'[x] \in Transaction
      /\ \A z \in Callers \ {x} : tx'[z] = tx[z]
  <2>1. hit \in SUBSET Rows
    BY <1>1 DEF Transaction
  <2> QED
    BY <2>1, <1>1 DEF Cancel, Transaction, IInv, TypeOK
<1>3. tx' \in [Callers -> Transaction]
  BY <1>2 DEF IInv, TypeOK, Cancel
<1>4. /\ \A y \in Crons : hit \cap cron[y].batch = {}
      /\ \A z \in Callers : hit \cap tx[z].hit = {}
  BY <1>1 DEF Held, HeldByCrons, HeldByCallers
<1>5. TypeOK'
  BY <1>1, <1>3 DEF IInv, TypeOK
<1>6. Locks'
  <2>1. \A z \in Callers : tx'[z].hit = IF z = x THEN hit ELSE tx[z].hit
    BY <1>2
  <2>2. \A r : Is(r, "pending")' <=> Is(r, "pending")
    BY <1>1 DEF Is
  <2>3. \A z \in Callers : \A r \in tx'[z].hit : Is(r, "pending")'
    BY <2>1, <2>2 DEF IInv, Locks
  <2>4. \A z, w \in Callers : z # w => tx'[z].hit \cap tx'[w].hit = {}
    BY <2>1, <1>4 DEF IInv, Locks
  <2>5. \A z \in Callers, y \in Crons : tx'[z].hit \cap cron'[y].batch = {}
    BY <2>1, <1>1, <1>4 DEF IInv, Locks
  <2>6. \A y \in Crons : \A r \in cron'[y].batch : Is(r, "pending")'
    BY <2>2, <1>1 DEF IInv, Locks
  <2>7. \A y, z \in Crons : y # z => cron'[y].batch \cap cron'[z].batch = {}
    BY <1>1 DEF IInv, Locks
  <2> QED
    BY <2>3, <2>4, <2>5, <2>6, <2>7 DEF Locks
<1>7. Flushes'
  BY <1>1 DEF IInv, Flushes
<1>8. Requests'
  BY <1>1, <1>2 DEF IInv, Requests
<1>9. Queue'
  BY <1>1 DEF IInv, Queue
<1>10. Handing'
  BY <1>1 DEF IInv, Handing, Is
<1> QED
  BY <1>5, <1>6, <1>7, <1>8, <1>9, <1>10 DEF IInv

(* A job put in a free slot.                                               *)
LEMMA AddedJob ==
    ASSUME IInv, NEW ids \in SUBSET JobIds, NEW R \in SUBSET Rows, AddJob(ids, R),
           handed' = handed \cup R, UNCHANGED orphan
    PROVE  job' \in [JobIds -> Job \cup {None}] /\ Queue'
<1>1. PICK j \in JobIds :
          job' = [job EXCEPT ![j] = [at |-> "waiting", rows |-> R, todo |-> {}, refused |-> {},
                                     left |-> Attempts, stalled |-> FALSE]]
  BY DEF AddJob
<1> DEFINE new == [at |-> "waiting", rows |-> R, todo |-> {}, refused |-> {},
                   left |-> Attempts, stalled |-> FALSE]
<1>2. new \in Job
  BY PipelineAssumption DEF Job
<1>3. job \in [JobIds -> Job \cup {None}]
  BY DEF IInv, TypeOK
<1>4. job'[j] = new /\ \A i \in JobIds \ {j} : job'[i] = job[i]
  BY <1>1, <1>3
<1>5. job' \in [JobIds -> Job \cup {None}]
  BY <1>1, <1>2, <1>3
<1>6. Attempts >= 1
  BY PipelineAssumption
<1>7. Queue'
  BY <1>4, <1>6 DEF IInv, Queue
<1> QED
  BY <1>5, <1>7

(* A caller that pushes an instant notification adds a job without rows.   *)
LEMMA PushKeeps ==
    ASSUME IInv, NEW x \in Callers, Push(x)
    PROVE  IInv'
<1>1. /\ UNCHANGED <<event, cron, faults, handed, orphan, skipped, mails>>
      /\ tx[x].at = "push" /\ tx' = [tx EXCEPT ![x].at = "commit"]
  BY DEF Push, history
<1>2. job' \in [JobIds -> Job \cup {None}] /\ Queue'
  <2>1. AddJob(InstantIds, {})
    BY DEF Push
  <2>2. InstantIds \in SUBSET JobIds /\ {} \in SUBSET Rows
    BY DEF JobIds
  <2>3. handed' = handed \cup {}
    BY <1>1
  <2> QED
    BY <2>1, <2>2, <2>3, <1>1, AddedJob
<1>3. tx' \in [Callers -> Transaction]
  BY <1>1 DEF IInv, TypeOK, Transaction
<1>4. TypeOK'
  BY <1>1, <1>2, <1>3 DEF IInv, TypeOK
<1>5. Locks' /\ Flushes' /\ Requests' /\ Handing'
  BY <1>1 DEF IInv, TypeOK, Locks, Flushes, Requests, Handing, Is
<1> QED
  BY <1>2, <1>4, <1>5 DEF IInv

(* So does one whose push fails, without the job.                          *)
LEMMA PushFailsKeeps ==
    ASSUME IInv, NEW x \in Callers, PushFails(x)
    PROVE  IInv'
<1>1. /\ UNCHANGED <<event, cron, job, handed, orphan, skipped, mails>>
      /\ tx[x].at = "push" /\ tx' = [tx EXCEPT ![x].at = "commit"]
      /\ faults' \in 0..MaxFaults
  BY PipelineAssumption DEF PushFails, Fault, history, IInv, TypeOK
<1>2. tx' \in [Callers -> Transaction]
  BY <1>1 DEF IInv, TypeOK, Transaction
<1>3. TypeOK'
  BY <1>1, <1>2 DEF IInv, TypeOK
<1>4. Locks' /\ Flushes' /\ Requests' /\ Queue' /\ Handing'
  BY <1>1 DEF IInv, TypeOK, Locks, Flushes, Requests, Queue, Handing, Is
<1> QED
  BY <1>3, <1>4 DEF IInv

(* What a commit does to the table: the rows held are cancelled, one row   *)
(* is new when the type is debounced, the others are as they were.         *)
LEMMA CommittedRows ==
    ASSUME IInv, NEW x \in Callers, Commit(x)
    PROVE  /\ event' \in [Rows -> Row \cup {None}]
           /\ \E new \in Rows \cup {0} :
                 /\ new # 0 => /\ Debounced(tx[x].type) /\ event[new] = None
                               /\ event'[new] \in Row /\ event'[new].status = "pending"
                               /\ event'[new].type = tx[x].type /\ event'[new].key = tx[x].key
                 /\ \A q \in Rows \ {new} :
                       \/ q \notin tx[x].hit /\ event'[q] = event[q]
                       \/ /\ q \in tx[x].hit /\ event'[q] # None
                          /\ event'[q].status = "cancelled"
<1> DEFINE cancelled == Marked(tx[x].hit, "cancelled")
           row == [type |-> tx[x].type, key |-> tx[x].key, settled |-> FALSE,
                   status |-> "pending"]
<1>1. TypeOK /\ tx[x] \in Transaction /\ tx[x].type \in Types /\ tx[x].key \in Keys
  BY DEF IInv, TypeOK, Requests, Commit
<1>2. cancelled \in [Rows -> Row \cup {None}]
  BY <1>1, MarkedRows
<1>3. ASSUME NEW q \in Rows
      PROVE  \/ q \notin tx[x].hit /\ cancelled[q] = event[q]
             \/ /\ q \in tx[x].hit /\ cancelled[q] # None
                /\ cancelled[q].status = "cancelled"
  <2>1. q \in tx[x].hit => Exists(q)
    BY DEF IInv, Locks, Is, Exists
  <2> QED
    BY <2>1, <1>1, MarkedRows
<1>4. row \in Row
  BY <1>1 DEF Row
<1>5. 0 \notin Rows
  BY DEF Rows
<1>6. CASE Debounced(tx[x].type)
  <2>1. PICK r \in Rows : Lowest(r, Unwritten) /\ event' = [cancelled EXCEPT ![r] = row]
    BY <1>6 DEF Commit
  <2>2. event[r] = None
    BY <2>1 DEF Lowest, Unwritten
  <2>3. event'[r] = row /\ \A q \in Rows \ {r} : event'[q] = cancelled[q]
    BY <2>1, <1>2
  <2>4. event' \in [Rows -> Row \cup {None}]
    BY <2>1, <1>2, <1>4
  <2>5. \A q \in Rows \ {r} :
           \/ q \notin tx[x].hit /\ event'[q] = event[q]
           \/ /\ q \in tx[x].hit /\ event'[q] # None
              /\ event'[q].status = "cancelled"
    BY <2>3, <1>3
  <2>6. /\ event[r] = None /\ event'[r] \in Row /\ event'[r].status = "pending"
        /\ event'[r].type = tx[x].type /\ event'[r].key = tx[x].key
    BY <2>2, <2>3, <1>4
  <2> QED
    BY <2>4, <2>5, <2>6, <1>6
<1>7. CASE ~Debounced(tx[x].type)
  <2>1. event' = cancelled
    BY <1>7 DEF Commit
  <2> QED
    BY <2>1, <1>2, <1>3, <1>5
<1> QED
  BY <1>6, <1>7

LEMMA CommitKeeps ==
    ASSUME IInv, NEW x \in Callers, Commit(x)
    PROVE  IInv'
<1>1. /\ UNCHANGED <<cron, job, faults, handed, orphan, skipped, mails>>
      /\ tx' = [tx EXCEPT ![x] = Idle] /\ tx[x] \in Transaction /\ TypeOK
  BY DEF Commit, history, IInv, TypeOK
<1>2. event' \in [Rows -> Row \cup {None}]
  BY CommittedRows
<1>3. PICK new \in Rows \cup {0} :
         /\ new # 0 => /\ event[new] = None
                       /\ event'[new] \in Row /\ event'[new].status = "pending"
         /\ \A q \in Rows \ {new} :
               \/ q \notin tx[x].hit /\ event'[q] = event[q]
               \/ /\ q \in tx[x].hit /\ event'[q] # None
                  /\ event'[q].status = "cancelled"
  BY CommittedRows
<1>4. tx'[x] = Idle /\ (\A z \in Callers \ {x} : tx'[z] = tx[z]) /\ 0 \notin Rows
  BY <1>1 DEF TypeOK, Rows
<1>5. TypeOK'
  <2>1. Idle \in Transaction
    BY DEF Idle, Transaction
  <2>2. tx' \in [Callers -> Transaction]
    BY <1>1, <2>1 DEF TypeOK
  <2> QED
    BY <1>1, <1>2, <2>2 DEF TypeOK
<1>6. ASSUME NEW q \in Rows, q \notin tx[x].hit, Is(q, "pending")
      PROVE  Is(q, "pending")'
  BY <1>3, <1>4, <1>6 DEF Is
<1>7. Locks'
  <2>1. \A y \in Crons : \A r \in cron'[y].batch : Is(r, "pending")'
    <3>1. \A y \in Crons : cron[y].batch \subseteq Rows
      BY DEF IInv, TypeOK, Flush
    <3> QED
      BY <1>1, <1>6, <3>1 DEF IInv, Locks
  <2>2. \A z \in Callers : \A r \in tx'[z].hit : Is(r, "pending")'
    <3>1. \A z \in Callers : tx[z].hit \subseteq Rows
      BY DEF IInv, TypeOK, Transaction
    <3> QED
      BY <1>4, <1>6, <3>1 DEF IInv, Locks, Idle
  <2>3. /\ \A y, z \in Crons : y # z => cron'[y].batch \cap cron'[z].batch = {}
        /\ \A z, w \in Callers : z # w => tx'[z].hit \cap tx'[w].hit = {}
        /\ \A z \in Callers, y \in Crons : tx'[z].hit \cap cron'[y].batch = {}
    BY <1>1, <1>4 DEF IInv, Locks, Idle
  <2> QED
    BY <2>1, <2>2, <2>3 DEF Locks
<1>8. Flushes' /\ Queue'
  BY <1>1 DEF IInv, Flushes, Queue
<1>9. Requests'
  BY <1>4 DEF IInv, Requests, Idle
<1>10. Handing'
  <2>1. SUFFICES ASSUME NEW r \in Rows
                 PROVE  /\ r \in handed => event'[r] # None
                        /\ r \in handed /\ Is(r, "cancelled")' => r \in orphan
                        /\ r \in handed /\ Is(r, "pending")' =>
                              r \in orphan \/ \E y \in Crons : r \in cron[y].queued
                        /\ Is(r, "sent")' \/ Is(r, "failed")' => r \in handed
                        /\ mails[r] > 0 => r \in handed
    BY <1>1 DEF Handing
  <2>2. CASE r = new
    <3>1. new # 0 /\ r \notin handed
      BY <2>2, <1>3, <1>4 DEF IInv, Handing
    <3> QED
      BY <2>2, <3>1, <1>3 DEF Is, IInv, Handing
  <2>3. CASE r \in tx[x].hit /\ r # new
    <3>1. event'[r] # None /\ event'[r].status = "cancelled"
      BY <2>3, <1>3
    <3>2. Is(r, "pending") /\ \A y \in Crons : r \notin cron[y].queued
      BY <2>3 DEF IInv, Locks, Flushes
    <3> QED
      BY <3>1, <3>2 DEF Is, IInv, Handing
  <2>4. CASE r \notin tx[x].hit /\ r # new
    <3>1. event'[r] = event[r]
      BY <2>4, <1>3
    <3> QED
      BY <3>1 DEF Is, IInv, Handing
  <2> QED
    BY <2>2, <2>3, <2>4
<1> QED
  BY <1>5, <1>7, <1>8, <1>9, <1>10 DEF IInv

(* A rollback forgets what the transaction remembers.                      *)
LEMMA RollbackKeeps ==
    ASSUME IInv, NEW x \in Callers, Rollback(x)
    PROVE  IInv'
<1>1. /\ UNCHANGED <<event, cron, job, handed, orphan, skipped, mails>>
      /\ tx' = [tx EXCEPT ![x] = Idle] /\ faults' \in 0..MaxFaults
  BY PipelineAssumption DEF Rollback, Fault, history, IInv, TypeOK
<1>2. tx' \in [Callers -> Transaction]
  <2>1. Idle \in Transaction
    BY DEF Idle, Transaction
  <2> QED
    BY <1>1, <2>1 DEF IInv, TypeOK
<1>3. TypeOK'
  BY <1>1, <1>2 DEF IInv, TypeOK
<1>4. Locks' /\ Flushes' /\ Requests' /\ Queue' /\ Handing'
  BY <1>1 DEF IInv, TypeOK, Idle, Locks, Flushes, Requests, Queue, Handing, Is
<1> QED
  BY <1>3, <1>4 DEF IInv

(* Time passes for a row that stays pending.                               *)
LEMMA SettleKeeps ==
    ASSUME IInv, NEW r \in Rows, Settle(r)
    PROVE  IInv'
<1>1. /\ UNCHANGED <<tx, cron, job, faults, handed, orphan, skipped, mails>>
      /\ event' = [event EXCEPT ![r].settled = TRUE] /\ event[r] \in Row
  BY DEF Settle, Is, history, IInv, TypeOK
<1>2. /\ event'[r] \in Row /\ event'[r].status = event[r].status
      /\ \A q \in Rows \ {r} : event'[q] = event[q]
      /\ event' \in [Rows -> Row \cup {None}]
  BY <1>1 DEF IInv, TypeOK, Row
<1>3. \A q \in Rows : /\ event'[q] # None <=> event[q] # None
                      /\ \A s : Is(q, s)' <=> Is(q, s)
  BY <1>1, <1>2, PipelineAssumption DEF Is
<1>4. TypeOK'
  BY <1>1, <1>2 DEF IInv, TypeOK
<1>5. Flushes' /\ Requests' /\ Queue'
  BY <1>1 DEF IInv, Flushes, Requests, Queue
<1>6. Locks'
  <2>1. /\ \A y \in Crons : cron[y].batch \subseteq Rows
        /\ \A x \in Callers : tx[x].hit \subseteq Rows
    BY DEF IInv, TypeOK, Flush, Transaction
  <2> QED
    BY <1>1, <1>3, <2>1 DEF IInv, Locks
<1>7. Handing'
  BY <1>1, <1>3 DEF IInv, Handing
<1> QED
  BY <1>4, <1>5, <1>6, <1>7 DEF IInv

(* Rows that nobody holds may be marked: those a job holds as failed, those *)
(* that were dealt with as deleted.                                         *)
LEMMA MarkingKeeps ==
    ASSUME IInv, NEW R \in SUBSET Rows, NEW s \in {"failed", "deleted"}, R \cap Held = {},
           event' = Marked(R, s), s = "failed" => R \subseteq handed,
           UNCHANGED <<tx, cron, handed, orphan, mails>>
    PROVE  event' \in [Rows -> Row \cup {None}] /\ Locks' /\ Handing'
<1>1. event' \in [Rows -> Row \cup {None}]
  BY MarkedRows DEF IInv
<1>2. ASSUME NEW r \in Rows
      PROVE  \/ event'[r] = event[r]
             \/ r \in R /\ event[r] # None /\ event'[r] # None /\ event'[r].status = s
  BY MarkedRows DEF IInv, Exists
<1>3. ASSUME NEW r \in Rows, r \notin R, Is(r, "pending")
      PROVE  Is(r, "pending")'
  BY <1>2, <1>3 DEF Is
<1>4. /\ \A y \in Crons : cron[y].batch \cap R = {} /\ cron[y].batch \subseteq Rows
      /\ \A x \in Callers : tx[x].hit \cap R = {} /\ tx[x].hit \subseteq Rows
  BY DEF Held, HeldByCrons, HeldByCallers, IInv, TypeOK, Flush, Transaction
<1>5. Locks'
  BY <1>3, <1>4 DEF IInv, Locks
<1>6. Handing'
  BY <1>2 DEF IInv, Handing, Is
<1> QED
  BY <1>1, <1>5, <1>6

LEMMA CleanupKeeps ==
    ASSUME IInv, NEW r \in Rows, Cleanup(r)
    PROVE  IInv'
<1>1. /\ UNCHANGED <<tx, cron, job, faults, handed, orphan, skipped, mails>>
      /\ event' = Marked({r}, "deleted") /\ {r} \cap Held = {}
  BY DEF Cleanup, history
<1>2. event' \in [Rows -> Row \cup {None}] /\ Locks' /\ Handing'
  BY <1>1, MarkingKeeps
<1>3. TypeOK' /\ Flushes' /\ Requests' /\ Queue'
  BY <1>1, <1>2 DEF IInv, TypeOK, Flushes, Requests, Queue
<1> QED
  BY <1>2, <1>3 DEF IInv

(* A flush takes pending rows that nobody holds.                           *)
LEMMA SelectKeeps ==
    ASSUME IInv, NEW y \in Crons, Select(y)
    PROVE  IInv'
<1> DEFINE batch == { r \in Selectable :
                        Cardinality({ q \in Selectable : q < r }) < BatchSize }
<1>1. /\ UNCHANGED <<event, tx, job, faults, handed, orphan, skipped, mails>>
      /\ cron' = [cron EXCEPT ![y] = [at |-> "enqueue", queued |-> {}, batch |-> batch]]
      /\ cron[y].at = "idle"
  BY DEF Select, history
<1>2. /\ batch \subseteq Rows
      /\ \A r \in batch : Is(r, "pending")
      /\ \A z \in Crons : batch \cap cron[z].batch = {}
      /\ \A x \in Callers : batch \cap tx[x].hit = {}
  BY DEF Selectable, Held, HeldByCrons, HeldByCallers
<1> HIDE DEF batch
<1>3. /\ cron' \in [Crons -> Flush]
      /\ cron'[y].batch = batch /\ cron'[y].queued = {} /\ cron'[y].at = "enqueue"
      /\ \A z \in Crons \ {y} : cron'[z] = cron[z]
  BY <1>1, <1>2 DEF IInv, TypeOK, Flush
<1>4. TypeOK'
  BY <1>1, <1>3 DEF IInv, TypeOK
<1>5. Locks'
  <2>1. \A z \in Crons : \A r \in cron'[z].batch : Is(r, "pending")'
    BY <1>1, <1>2, <1>3 DEF IInv, Locks, Is
  <2>2. \A z, w \in Crons : z # w => cron'[z].batch \cap cron'[w].batch = {}
    BY <1>2, <1>3 DEF IInv, Locks
  <2>3. \A x \in Callers, z \in Crons : tx'[x].hit \cap cron'[z].batch = {}
    BY <1>1, <1>2, <1>3 DEF IInv, Locks
  <2>4. /\ \A x \in Callers : \A r \in tx'[x].hit : Is(r, "pending")'
        /\ \A x, z \in Callers : x # z => tx'[x].hit \cap tx'[z].hit = {}
    BY <1>1 DEF IInv, Locks, Is
  <2> QED
    BY <2>1, <2>2, <2>3, <2>4 DEF Locks
<1>6. Flushes' /\ Requests' /\ Queue'
  BY <1>1, <1>3 DEF IInv, Flushes, Requests, Queue
<1>7. Handing'
  <2>1. \A r : \A z \in Crons : r \in cron[z].queued => r \in cron'[z].queued
    BY <1>1, <1>3 DEF IInv, Flushes
  <2> QED
    BY <2>1, <1>1 DEF IInv, Handing, Is
<1> QED
  BY <1>4, <1>5, <1>6, <1>7 DEF IInv

(* A digest is queued for rows the flush holds.                            *)
LEMMA EnqueueKeeps ==
    ASSUME IInv, NEW y \in Crons, Enqueue(y)
    PROVE  IInv'
<1> DEFINE rest == cron[y].batch \ cron[y].queued
           group(first) == { r \in rest : digestOf[event[r].key] = digestOf[event[first].key] }
<1>1. PICK first \in Rows :
         /\ AddJob(DigestIds, group(first))
         /\ handed' = handed \cup group(first)
         /\ cron' = [cron EXCEPT ![y].queued = @ \cup group(first),
                               ![y].at = IF rest = group(first) THEN "commit" ELSE "enqueue"]
         /\ UNCHANGED <<event, tx, faults, orphan, skipped, mails>>
  BY DEF Enqueue
<1> DEFINE R == group(first)
<1>2. R \subseteq rest /\ R \subseteq Rows /\ cron[y] \in Flush
  BY DEF IInv, TypeOK, Flush
<1>3. /\ cron' \in [Crons -> Flush]
      /\ cron'[y].batch = cron[y].batch /\ cron'[y].queued = cron[y].queued \cup R
      /\ cron'[y].at = IF rest = R THEN "commit" ELSE "enqueue"
      /\ \A z \in Crons \ {y} : cron'[z] = cron[z]
  BY <1>1, <1>2 DEF IInv, TypeOK, Flush
<1>4. job' \in [JobIds -> Job \cup {None}] /\ Queue'
  <2>1. DigestIds \in SUBSET JobIds
    BY DEF JobIds
  <2> QED
    BY <2>1, <1>1, <1>2, AddedJob
<1>5. handed' = handed \cup R /\ UNCHANGED <<event, tx, faults, orphan, skipped, mails>>
  BY <1>1
<1> HIDE DEF R
<1>6. TypeOK'
  BY <1>2, <1>3, <1>4, <1>5 DEF IInv, TypeOK
<1>7. Locks'
  <2>1. \A z \in Crons : cron'[z].batch = cron[z].batch
    BY <1>3
  <2> QED
    BY <2>1, <1>5 DEF IInv, Locks, Is
<1>8. Flushes'
  BY <1>2, <1>3, <1>5 DEF IInv, Flushes
<1>9. Requests'
  BY <1>5 DEF IInv, Requests
<1>10. Handing'
  <2>1. \A r \in R : Is(r, "pending") /\ event[r] # None
    BY <1>2 DEF IInv, Locks, Is
  <2>2. \A z \in Crons : cron[z].queued \subseteq cron'[z].queued
    BY <1>3
  <2>3. \A r \in R : r \in cron'[y].queued
    BY <1>3
  <2> QED
    BY <2>1, <2>2, <2>3, <1>5 DEF IInv, Handing, Is
<1> QED
  BY <1>4, <1>6, <1>7, <1>8, <1>9, <1>10 DEF IInv

(* The rows of a flush that commits were all handed over.                  *)
LEMMA FlushCommitKeeps ==
    ASSUME IInv, NEW y \in Crons, FlushCommit(y)
    PROVE  IInv'
<1>1. /\ UNCHANGED <<tx, job, faults, handed, orphan, skipped, mails>>
      /\ event' = Marked(cron[y].batch, "sent") /\ cron' = [cron EXCEPT ![y] = Resting]
      /\ cron[y].queued = cron[y].batch /\ cron[y].batch \subseteq handed
  BY DEF FlushCommit, history, IInv, Flushes
<1>2. /\ cron' \in [Crons -> Flush] /\ cron'[y] = Resting
      /\ \A z \in Crons \ {y} : cron'[z] = cron[z]
  BY <1>1 DEF IInv, TypeOK, Flush, Resting
<1>3. event' \in [Rows -> Row \cup {None}]
  BY <1>1, MarkedRows DEF IInv
<1>4. ASSUME NEW r \in Rows
      PROVE  \/ r \notin cron[y].batch /\ event'[r] = event[r]
             \/ r \in cron[y].batch /\ event'[r] # None /\ event'[r].status = "sent"
  <2>1. r \in cron[y].batch => Exists(r)
    BY DEF IInv, Locks, Is, Exists
  <2> QED
    BY <2>1, <1>1, MarkedRows DEF IInv
<1>5. TypeOK'
  BY <1>1, <1>2, <1>3 DEF IInv, TypeOK
<1>6. Locks'
  <2>1. /\ \A z \in Crons : cron[z].batch \subseteq Rows
        /\ \A x \in Callers : tx[x].hit \subseteq Rows
    BY DEF IInv, TypeOK, Flush, Transaction
  <2>2. \A z \in Crons : \A r \in cron'[z].batch : Is(r, "pending")'
    BY <2>1, <1>2, <1>4 DEF IInv, Locks, Resting, Is
  <2>3. \A x \in Callers : \A r \in tx'[x].hit : Is(r, "pending")'
    BY <2>1, <1>1, <1>4 DEF IInv, Locks, Is
  <2>4. /\ \A z, w \in Crons : z # w => cron'[z].batch \cap cron'[w].batch = {}
        /\ \A x, z \in Callers : x # z => tx'[x].hit \cap tx'[z].hit = {}
        /\ \A x \in Callers, z \in Crons : tx'[x].hit \cap cron'[z].batch = {}
    BY <1>1, <1>2 DEF IInv, Locks, Resting
  <2> QED
    BY <2>2, <2>3, <2>4 DEF Locks
<1>7. Flushes' /\ Requests' /\ Queue'
  BY <1>1, <1>2 DEF IInv, Flushes, Requests, Queue, Resting
<1>8. Handing'
  <2>1. ASSUME NEW r \in Rows, NEW z \in Crons, r \in cron[z].queued, r \notin cron[y].batch
        PROVE  r \in cron'[z].queued
    BY <2>1, <1>1, <1>2
  <2> QED
    BY <2>1, <1>1, <1>4 DEF IInv, Handing, Is
<1> QED
  BY <1>5, <1>6, <1>7, <1>8 DEF IInv

(* The rows of a flush that rolls back are pending again, and orphans.     *)
LEMMA FlushAbortKeeps ==
    ASSUME IInv, NEW y \in Crons, FlushAbort(y)
    PROVE  IInv'
<1>1. /\ UNCHANGED <<event, tx, job, handed, skipped, mails>>
      /\ orphan' = orphan \cup cron[y].queued /\ cron' = [cron EXCEPT ![y] = Resting]
      /\ faults' \in 0..MaxFaults
  BY PipelineAssumption DEF FlushAbort, Fault, history, IInv, TypeOK
<1>2. /\ cron' \in [Crons -> Flush] /\ cron'[y] = Resting
      /\ \A z \in Crons \ {y} : cron'[z] = cron[z]
  BY <1>1 DEF IInv, TypeOK, Flush, Resting
<1>3. TypeOK'
  BY <1>1, <1>2 DEF IInv, TypeOK, Flushes
<1>4. Locks'
  BY <1>1, <1>2 DEF IInv, Locks, Is, Resting
<1>5. Flushes' /\ Requests' /\ Queue'
  BY <1>1, <1>2 DEF IInv, Flushes, Requests, Queue, Resting
<1>6. Handing'
  <2>1. ASSUME NEW r \in Rows, NEW z \in Crons, r \in cron[z].queued
        PROVE  r \in orphan' \/ r \in cron'[z].queued
    BY <2>1, <1>1, <1>2
  <2>2. orphan \subseteq orphan'
    BY <1>1
  <2> QED
    BY <2>1, <2>2, <1>1 DEF IInv, Handing, Is
<1> QED
  BY <1>3, <1>4, <1>5, <1>6 DEF IInv

(* A step of the worker that changes one job, and neither the table nor    *)
(* the rows of the job.                                                    *)
LEMMA JobStepKeeps ==
    ASSUME IInv, NEW j \in JobIds, NEW new \in Job, job' = [job EXCEPT ![j] = new],
           new.rows \subseteq handed, new.todo \subseteq new.rows,
           new.refused \subseteq new.rows,
           new.at = "waiting" => new.left >= 1,
           new.at = "active" => new.left < Attempts,
           UNCHANGED <<event, tx, cron, handed, orphan>>,
           faults' \in 0..MaxFaults, skipped' \subseteq handed, mails' \in [Rows -> Nat],
           \A r \in Rows : mails'[r] > 0 => r \in handed
    PROVE  IInv' /\ job'[j] # None
<1>1. job' \in [JobIds -> Job \cup {None}]
  BY DEF IInv, TypeOK
<1>2. job'[j] = new /\ \A i \in JobIds \ {j} : job'[i] = job[i]
  BY DEF IInv, TypeOK
<1>3. TypeOK'
  BY <1>1 DEF IInv, TypeOK
<1>4. Queue'
  BY <1>2 DEF IInv, Queue
<1>5. Locks' /\ Flushes' /\ Requests'
  BY DEF IInv, Locks, Flushes, Requests, Is
<1>6. Handing'
  BY DEF IInv, Handing, Is
<1> QED
  BY <1>2, <1>3, <1>4, <1>5, <1>6, PipelineAssumption DEF IInv

(* What the invariant says of a job, for the lemmas that follow.           *)
LEMMA JobFacts ==
    ASSUME IInv, NEW j \in JobIds, job[j] # None
    PROVE  /\ job[j] \in Job /\ job[j].rows \subseteq handed /\ handed \subseteq Rows
           /\ job[j].todo \subseteq job[j].rows /\ job[j].refused \subseteq job[j].rows
           /\ job[j].at = "waiting" => job[j].left >= 1
           /\ job[j].at = "active" => job[j].left < Attempts
           /\ faults \in 0..MaxFaults /\ skipped \subseteq handed /\ mails \in [Rows -> Nat]
           /\ \A r \in Rows : mails[r] > 0 => r \in handed
BY DEF IInv, TypeOK, Queue, Handing

LEMMA TakeKeeps ==
    ASSUME IInv, NEW j \in JobIds, Take(j)
    PROVE  IInv' /\ job'[j] # None
<1> DEFINE new == [job[j] EXCEPT !.at = "active", !.todo = job[j].rows, !.refused = {},
                                 !.left = @ - 1]
<1>1. /\ UNCHANGED <<event, tx, cron, faults, handed, orphan, skipped, mails>>
      /\ job' = [job EXCEPT ![j] = new] /\ job[j] # None /\ job[j].at = "waiting"
  BY DEF Take, history
<1>4. Attempts \in Nat /\ job[j] \in Job /\ job[j].left >= 1
  BY <1>1, JobFacts, PipelineAssumption
<1>5. job[j].left - 1 \in 0..Attempts /\ job[j].left - 1 < Attempts
  BY <1>4 DEF Job
<1>2. /\ new \in Job /\ new.rows = job[j].rows /\ new.todo = job[j].rows /\ new.refused = {}
      /\ new.at = "active" /\ new.left < Attempts
  BY <1>4, <1>5 DEF Job
<1> HIDE DEF new
<1> QED
  BY <1>1, <1>2, JobFacts, JobStepKeeps

LEMMA SendEventKeeps ==
    ASSUME IInv, NEW j \in JobIds, SendEvent(j)
    PROVE  IInv' /\ job'[j] # None
<1>1. PICK r \in Rows, mailed \in BOOLEAN, fails \in BOOLEAN :
         /\ Active(j) /\ Lowest(r, job[j].todo)
         /\ job' = [job EXCEPT ![j].todo = @ \ {r},
                               ![j].refused = IF fails THEN @ \cup {r} ELSE @]
         /\ mails' = IF mailed THEN [mails EXCEPT ![r] = @ + 1] ELSE mails
         /\ skipped' = IF mailed \/ fails THEN skipped ELSE skipped \cup {r}
         /\ UNCHANGED <<event, tx, cron, faults, handed, orphan>>
  BY DEF SendEvent
<1> DEFINE new == [job[j] EXCEPT !.todo = @ \ {r}, !.refused = IF fails THEN @ \cup {r} ELSE @]
<1>2. job[j] # None /\ job[j].at = "active" /\ r \in job[j].todo
  BY <1>1 DEF Active, Lowest
<1>3. job' = [job EXCEPT ![j] = new]
  BY <1>1 DEF IInv, TypeOK
<1>4. /\ new \in Job /\ new.rows = job[j].rows /\ new.todo = job[j].todo \ {r}
      /\ new.refused \subseteq job[j].refused \cup {r}
      /\ new.at = "active" /\ new.left = job[j].left
  BY <1>2, JobFacts DEF Job
<1>5. /\ r \in handed
      /\ new.todo \subseteq new.rows /\ new.refused \subseteq new.rows
      /\ new.rows \subseteq handed /\ new.left < Attempts
  BY <1>2, <1>4, JobFacts
<1>6. /\ skipped' \subseteq handed /\ mails' \in [Rows -> Nat]
      /\ \A q \in Rows : mails'[q] > 0 => q \in handed
  BY <1>1, <1>2, <1>5, JobFacts
<1>7. faults' \in 0..MaxFaults
  BY <1>1, <1>2, JobFacts
<1> HIDE DEF new
<1> QED
  BY <1>1, <1>3, <1>4, <1>5, <1>6, <1>7, JobStepKeeps

LEMMA ThrowsKeeps ==
    ASSUME IInv, NEW j \in JobIds, Throws(j)
    PROVE  IInv' /\ job'[j] # None
<1> DEFINE new == [job[j] EXCEPT !.at = IF job[j].left > 0 THEN "waiting" ELSE "dead"]
<1>1. /\ UNCHANGED <<event, tx, cron, handed, orphan, skipped, mails>>
      /\ job' = [job EXCEPT ![j] = new] /\ job[j] # None /\ faults' \in 0..MaxFaults
  BY PipelineAssumption DEF Throws, Active, Fault, history, IInv, TypeOK
<1>2. /\ new \in Job /\ new.rows = job[j].rows /\ new.todo = job[j].todo
      /\ new.refused = job[j].refused /\ new.left = job[j].left
      /\ new.at = "waiting" => new.left >= 1
      /\ new.at # "active"
  BY <1>1, JobFacts, PipelineAssumption DEF Job
<1> HIDE DEF new
<1> QED
  BY <1>1, <1>2, JobFacts, JobStepKeeps

LEMMA StallKeeps ==
    ASSUME IInv, NEW j \in JobIds, Stall(j)
    PROVE  IInv' /\ job'[j] # None
<1> DEFINE new == [job[j] EXCEPT !.at = IF job[j].stalled THEN "dead" ELSE "waiting",
                                 !.stalled = TRUE, !.left = @ + 1]
<1>1. /\ UNCHANGED <<event, tx, cron, handed, orphan, skipped, mails>>
      /\ job[j] # None /\ job[j].at = "active" /\ faults' \in 0..MaxFaults
  BY PipelineAssumption DEF Stall, Active, Fault, history, IInv, TypeOK
<1>3. job' = [job EXCEPT ![j] = new]
  BY DEF Stall
<1>4. Attempts \in Nat /\ job[j] \in Job /\ job[j].left < Attempts
  BY <1>1, JobFacts, PipelineAssumption
<1>5. job[j].left + 1 \in 0..Attempts /\ job[j].left + 1 >= 1
  BY <1>4 DEF Job
<1>2. /\ new \in Job /\ new.rows = job[j].rows /\ new.todo = job[j].todo
      /\ new.refused = job[j].refused /\ new.left >= 1 /\ new.at # "active"
  BY <1>4, <1>5 DEF Job
<1> HIDE DEF new
<1> QED
  BY <1>1, <1>2, <1>3, JobFacts, JobStepKeeps

(* A job that ends leaves the queue.                                       *)
LEMMA EndedJob ==
    ASSUME IInv, NEW j \in JobIds, job' = [job EXCEPT ![j] = None], UNCHANGED handed
    PROVE  job' \in [JobIds -> Job \cup {None}] /\ Queue'
BY DEF IInv, TypeOK, Queue

LEMMA FinishKeeps ==
    ASSUME IInv, NEW j \in JobIds, Finish(j)
    PROVE  IInv'
<1>1. /\ UNCHANGED <<tx, cron, faults, handed, orphan, skipped, mails>>
      /\ job' = [job EXCEPT ![j] = None] /\ job[j] # None
      /\ event' = Marked(job[j].refused, "failed") /\ job[j].refused \cap Held = {}
  BY DEF Finish, Active, history
<1>2. job[j].refused \in SUBSET Rows /\ job[j].refused \subseteq handed
  BY <1>1, JobFacts
<1>3. event' \in [Rows -> Row \cup {None}] /\ Locks' /\ Handing'
  BY <1>1, <1>2, MarkingKeeps
<1>4. TypeOK' /\ Flushes' /\ Requests' /\ Queue'
  BY <1>1, <1>3, EndedJob DEF IInv, TypeOK, Flushes, Requests
<1> QED
  BY <1>3, <1>4 DEF IInv

LEMMA SuppressKeeps ==
    ASSUME IInv, NEW j \in JobIds, Suppress(j)
    PROVE  IInv'
<1>1. /\ UNCHANGED <<event, tx, cron, faults, handed, orphan, mails>>
      /\ job' = [job EXCEPT ![j] = None] /\ skipped' = skipped \cup job[j].rows
      /\ job[j] # None
  BY DEF Suppress, Active
<1>2. TypeOK' /\ Queue'
  BY <1>1, EndedJob, JobFacts DEF IInv, TypeOK
<1>3. Locks' /\ Flushes' /\ Requests' /\ Handing'
  BY <1>1 DEF IInv, Locks, Flushes, Requests, Handing, Is
<1> QED
  BY <1>2, <1>3 DEF IInv

-----------------------------------------------------------------------------
(* Type correctness.                                                       *)

LEMMA InitIInv == Init => IInv
<1> SUFFICES ASSUME Init PROVE IInv
  OBVIOUS
<1>1. TypeOK
  BY PipelineAssumption DEF Init, TypeOK, Idle, Resting, Transaction, Flush
<1>2. Locks /\ Flushes /\ Requests /\ Queue /\ Handing
  BY DEF Init, Locks, Flushes, Requests, Queue, Handing, Idle, Resting, Is
<1> QED
  BY <1>1, <1>2 DEF IInv

LEMMA NextIInv == IInv /\ [Next]_vars => IInv'
<1> SUFFICES ASSUME IInv, [Next]_vars PROVE IInv'
  OBVIOUS
<1>1. ASSUME NEW x \in Callers, NEW t \in Types, NEW k \in Keys, Begin(x, t, k) PROVE IInv'
  BY <1>1, BeginKeeps
<1>2. ASSUME NEW x \in Callers, CallerStep(x) \/ PushFails(x) \/ Rollback(x) PROVE IInv'
  BY <1>2, CancelKeeps, PushKeeps, CommitKeeps, PushFailsKeeps, RollbackKeeps DEF CallerStep
<1>3. ASSUME NEW r \in Rows, Settle(r) \/ Cleanup(r) PROVE IInv'
  BY <1>3, SettleKeeps, CleanupKeeps
<1>4. ASSUME NEW y \in Crons, CronStep(y) \/ FlushAbort(y) PROVE IInv'
  BY <1>4, SelectKeeps, EnqueueKeeps, FlushCommitKeeps, FlushAbortKeeps DEF CronStep
<1>5. ASSUME NEW j \in JobIds, WorkerStep(j) \/ Suppress(j) \/ Throws(j) \/ Stall(j) PROVE IInv'
  BY <1>5, TakeKeeps, SendEventKeeps, FinishKeeps, SuppressKeeps, ThrowsKeeps, StallKeeps
     DEF WorkerStep
<1>6. CASE UNCHANGED vars
  BY <1>6 DEF vars, IInv, TypeOK, Locks, Flushes, Requests, Queue, Handing, Is
<1> QED
  BY <1>1, <1>2, <1>3, <1>4, <1>5, <1>6 DEF Next

(* The locks, the flushes and the queue stay consistent whatever the      *)
(* callers, the cron, the worker and the faults do.                        *)
THEOREM PipelineInvariant == Spec => []IInv
BY InitIInv, NextIInv, PTL DEF Spec

(* The state keeps its types; in particular no attempt is left over or     *)
(* lacking when a crash or an exception sends a job back to the queue.     *)
THEOREM PipelineTypes == Spec => []TypeOK
<1>1. IInv => TypeOK
  BY DEF IInv
<1> QED
  BY <1>1, PipelineInvariant, PTL

-----------------------------------------------------------------------------
(* Nothing sent is lost.                                                   *)

\* The rows a mail is owed for: sent, or queued by a flush that still runs.
Owed(r) == Is(r, "sent") \/ \E y \in Crons : r \in cron[y].queued

InJob(j, r) == job[j] # None /\ r \in job[j].rows

Covered ==
    \A r \in Rows : Owed(r) => mails[r] > 0 \/ r \in skipped \/ \E j \in JobIds : InJob(j, r)

\* What the worker has done of an active job.
Worked ==
    \A j \in JobIds : Active(j) =>
        \A r \in job[j].rows \ job[j].todo :
            mails[r] > 0 \/ r \in skipped \/ r \in job[j].refused

Delivery == Covered /\ Worked

(* Steps that add nothing to what is owed and take nothing away.           *)
LEMMA NothingMoreOwed ==
    ASSUME IInv, Delivery, UNCHANGED mails, skipped \subseteq skipped',
           \A r \in Rows : Owed(r)' => Owed(r),
           \A j \in JobIds, r \in Rows : InJob(j, r) => InJob(j, r)' \/ r \in skipped'
    PROVE  Covered'
BY DEF Delivery, Covered

(* Steps that leave the jobs as they are, or add one that waits.           *)
LEMMA NoMoreWorked ==
    ASSUME Delivery, UNCHANGED mails, skipped \subseteq skipped',
           \A j \in JobIds : Active(j)' => Active(j) /\ job'[j] = job[j]
    PROVE  Worked'
BY DEF Delivery, Worked, Active

(* The statuses that follow a step of a caller.                            *)
LEMMA CallerOwesNothing ==
    ASSUME IInv, NEW x \in Callers,
           \/ \E t \in Types, k \in Keys : Begin(x, t, k)
           \/ Cancel(x) \/ Commit(x) \/ PushFails(x) \/ Rollback(x) \/ Push(x)
    PROVE  /\ \A r \in Rows : Owed(r)' => Owed(r)
           /\ UNCHANGED <<skipped, mails>>
<1>1. UNCHANGED <<cron, skipped, mails>>
  BY DEF Begin, Cancel, Commit, PushFails, Rollback, Push, history
<1>2. ASSUME NEW r \in Rows PROVE Is(r, "sent")' => Is(r, "sent")
  <2>1. CASE Commit(x)
    <3>1. PICK new \in Rows \cup {0} :
             /\ new # 0 => event'[new].status = "pending"
             /\ \A q \in Rows \ {new} : \/ event'[q] = event[q]
                                        \/ event'[q].status = "cancelled"
      BY <2>1, CommittedRows
    <3>2. 0 \notin Rows
      BY DEF Rows
    <3> QED
      BY <3>1, <3>2 DEF Is
  <2>2. CASE ~Commit(x)
    BY <2>2 DEF Begin, Cancel, PushFails, Rollback, Push, Is
  <2> QED
    BY <2>1, <2>2
<1> QED
  BY <1>1, <1>2 DEF Owed

LEMMA CallerDelivers ==
    ASSUME IInv, Delivery, NEW x \in Callers,
           \/ \E t \in Types, k \in Keys : Begin(x, t, k)
           \/ Cancel(x) \/ Commit(x) \/ PushFails(x) \/ Rollback(x)
    PROVE  Delivery'
<1>1. UNCHANGED job
  BY DEF Begin, Cancel, Commit, PushFails, Rollback
<1>2. Covered'
  BY <1>1, CallerOwesNothing, NothingMoreOwed DEF InJob
<1>3. Worked'
  BY <1>1, CallerOwesNothing, NoMoreWorked DEF Active
<1> QED
  BY <1>2, <1>3 DEF Delivery

(* A job in a free slot takes no other job's place and waits.              *)
LEMMA AddedJobDelivers ==
    ASSUME IInv, NEW ids, NEW R \in SUBSET Rows, AddJob(ids, R)
    PROVE  /\ \A j \in JobIds, r \in Rows : InJob(j, r) => InJob(j, r)'
           /\ \A j \in JobIds : Active(j)' => Active(j) /\ job'[j] = job[j]
           /\ R # {} => \E j \in JobIds : \A r \in R : job'[j] # None /\ r \in job'[j].rows
<1> DEFINE new == [at |-> "waiting", rows |-> R, todo |-> {}, refused |-> {},
                   left |-> Attempts, stalled |-> FALSE]
<1>1. PICK j \in JobIds : Lowest(j, Free(ids)) /\ job' = [job EXCEPT ![j] = new]
  BY DEF AddJob
<1>2. job[j] = None
  BY <1>1 DEF Lowest, Free
<1>3. job'[j] = new /\ \A i \in JobIds \ {j} : job'[i] = job[i]
  BY <1>1 DEF IInv, TypeOK
<1>4. new # None /\ new.rows = R /\ new.at = "waiting"
  <2>1. new \in Job
    BY PipelineAssumption DEF Job
  <2> QED
    BY <2>1, PipelineAssumption
<1> HIDE DEF new
<1>5. \A i \in JobIds, r \in Rows : InJob(i, r) => InJob(i, r)'
  BY <1>2, <1>3 DEF InJob
<1>6. \A i \in JobIds : Active(i)' => Active(i) /\ job'[i] = job[i]
  BY <1>2, <1>3, <1>4 DEF Active
<1> QED
  BY <1>3, <1>4, <1>5, <1>6

LEMMA PushDelivers ==
    ASSUME IInv, Delivery, NEW x \in Callers, Push(x)
    PROVE  Delivery'
<1>1. AddJob(InstantIds, {}) /\ {} \in SUBSET Rows
  BY DEF Push
<1>2. /\ \A j \in JobIds, r \in Rows : InJob(j, r) => InJob(j, r)'
      /\ \A j \in JobIds : Active(j)' => Active(j) /\ job'[j] = job[j]
  BY <1>1, AddedJobDelivers
<1>3. Covered'
  BY <1>2, CallerOwesNothing, NothingMoreOwed
<1>4. Worked'
  BY <1>2, CallerOwesNothing, NoMoreWorked
<1> QED
  BY <1>3, <1>4 DEF Delivery

(* Time and cleaning make no row sent.                                     *)
LEMMA TimeDelivers ==
    ASSUME IInv, Delivery, NEW r \in Rows, Settle(r) \/ Cleanup(r)
    PROVE  Delivery'
<1>1. UNCHANGED <<cron, job, skipped, mails>>
  BY DEF Settle, Cleanup, history
<1>2. ASSUME NEW q \in Rows PROVE Is(q, "sent")' => Is(q, "sent")
  <2>1. CASE Settle(r)
    <3>1. event[r] \in Row /\ event' = [event EXCEPT ![r].settled = TRUE]
      BY <2>1 DEF Settle, Is, IInv, TypeOK
    <3>2. event'[r].status = event[r].status /\ event[r] # None
      BY <3>1, <2>1 DEF Row, IInv, TypeOK, Settle, Is
    <3>3. q # r => event'[q] = event[q]
      BY <3>1 DEF IInv, TypeOK
    <3> QED
      BY <3>2, <3>3 DEF Is
  <2>2. CASE Cleanup(r)
    <3>1. event' = Marked({r}, "deleted")
      BY <2>2 DEF Cleanup
    <3> QED
      BY <3>1, MarkedRows DEF IInv, Is
  <2> QED
    BY <2>1, <2>2
<1>3. \A q \in Rows : Owed(q)' => Owed(q)
  BY <1>1, <1>2 DEF Owed
<1>4. Covered'
  BY <1>1, <1>3, NothingMoreOwed DEF InJob
<1>5. Worked'
  BY <1>1, NoMoreWorked DEF Active
<1> QED
  BY <1>4, <1>5 DEF Delivery

(* A flush owes what it queues, and marks what it queued.                  *)
LEMMA CronDelivers ==
    ASSUME IInv, Delivery, NEW y \in Crons, CronStep(y) \/ FlushAbort(y)
    PROVE  Delivery'
<1>1. CASE Select(y) \/ FlushAbort(y)
  <2>1. /\ UNCHANGED <<event, job, skipped, mails>>
        /\ \A z \in Crons : cron'[z].queued \subseteq cron[z].queued
    BY <1>1 DEF Select, FlushAbort, history, IInv, TypeOK, Resting
  <2>2. \A r \in Rows : Owed(r)' => Owed(r)
    BY <2>1 DEF Owed, Is
  <2> QED
    BY <2>1, <2>2, NothingMoreOwed, NoMoreWorked DEF InJob, Active, Delivery
<1>2. CASE FlushCommit(y)
  <2>1. /\ UNCHANGED <<job, skipped, mails>>
        /\ event' = Marked(cron[y].batch, "sent") /\ cron' = [cron EXCEPT ![y] = Resting]
        /\ cron[y].queued = cron[y].batch
    BY <1>2 DEF FlushCommit, history, IInv, Flushes
  <2>2. \A z \in Crons : cron'[z].queued \subseteq cron[z].queued
    BY <2>1 DEF IInv, TypeOK, Resting
  <2>3. \A r \in Rows : Is(r, "sent")' => Is(r, "sent") \/ r \in cron[y].queued
    BY <2>1, MarkedRows DEF IInv, Is
  <2>4. \A r \in Rows : Owed(r)' => Owed(r)
    BY <2>2, <2>3 DEF Owed
  <2> QED
    BY <2>1, <2>4, NothingMoreOwed, NoMoreWorked DEF InJob, Active, Delivery
<1>3. CASE Enqueue(y)
  <2> DEFINE rest == cron[y].batch \ cron[y].queued
             group(first) == { r \in rest : digestOf[event[r].key] = digestOf[event[first].key] }
  <2>1. PICK first \in Rows :
           /\ AddJob(DigestIds, group(first)) /\ first \in rest
           /\ cron' = [cron EXCEPT ![y].queued = @ \cup group(first),
                                 ![y].at = IF rest = group(first) THEN "commit" ELSE "enqueue"]
           /\ UNCHANGED <<event, skipped, mails>>
    BY <1>3 DEF Enqueue, Lowest
  <2> DEFINE R == group(first)
  <2>2. R \in SUBSET Rows /\ R # {}
    BY <2>1 DEF IInv, TypeOK, Flush
  <2>3. /\ \A j \in JobIds, r \in Rows : InJob(j, r) => InJob(j, r)'
        /\ \A j \in JobIds : Active(j)' => Active(j) /\ job'[j] = job[j]
        /\ \E j \in JobIds : \A r \in R : job'[j] # None /\ r \in job'[j].rows
    BY <2>1, <2>2, AddedJobDelivers
  <2>4. UNCHANGED <<event, skipped, mails>>
    BY <2>1
  <2> HIDE DEF R
  <2>5. \A z \in Crons : cron'[z].queued \subseteq cron[z].queued \cup R
    <3>1. cron \in [Crons -> Flush]
      BY DEF IInv, TypeOK
    <3>2. cron'[y].queued = cron[y].queued \cup R /\ \A z \in Crons \ {y} : cron'[z] = cron[z]
      BY <2>1, <3>1 DEF Flush, R
    <3> QED
      BY <3>2
  <2>6. \A r \in Rows : Owed(r)' => Owed(r) \/ r \in R
    BY <2>4, <2>5 DEF Owed, Is
  <2>7. Covered'
    BY <2>3, <2>4, <2>6 DEF Delivery, Covered, InJob
  <2>8. Worked'
    BY <2>3, <2>4, NoMoreWorked
  <2> QED
    BY <2>7, <2>8 DEF Delivery
<1> QED
  BY <1>1, <1>2, <1>3 DEF CronStep

(* The worker mails, skips or refuses each row of a job before it ends it, *)
(* and what it refused it marks.                                           *)
LEMMA WorkerDelivers ==
    ASSUME IInv, Delivery, NEW j \in JobIds,
           WorkerStep(j) \/ Suppress(j) \/ Throws(j) \/ Stall(j)
    PROVE  Delivery'
<1>1. CASE Take(j) \/ Throws(j) \/ Stall(j)
  <2>1. UNCHANGED <<event, cron, skipped, mails>>
    BY <1>1 DEF Take, Throws, Stall, history
  <2>2. /\ job'[j].rows = job[j].rows /\ job[j] # None
        /\ job'[j].at = "active" => job'[j].todo = job[j].rows
        /\ \A i \in JobIds \ {j} : job'[i] = job[i]
    BY <1>1, JobFacts DEF Take, Throws, Stall, Active, IInv, TypeOK, Job
  <2>3. job'[j] # None
    BY <1>1, TakeKeeps, ThrowsKeeps, StallKeeps
  <2>4. Covered'
    BY <2>1, <2>2, <2>3 DEF Delivery, Covered, InJob, Owed, Is
  <2>5. Worked'
    BY <2>1, <2>2 DEF Delivery, Worked, Active
  <2> QED
    BY <2>4, <2>5 DEF Delivery
<1>2. CASE SendEvent(j)
  <2>1. PICK r \in Rows, mailed \in BOOLEAN, fails \in BOOLEAN :
           /\ Active(j)
           /\ job' = [job EXCEPT ![j].todo = @ \ {r},
                                 ![j].refused = IF fails THEN @ \cup {r} ELSE @]
           /\ mails' = IF mailed THEN [mails EXCEPT ![r] = @ + 1] ELSE mails
           /\ skipped' = IF mailed \/ fails THEN skipped ELSE skipped \cup {r}
           /\ UNCHANGED <<event, cron>>
    BY <1>2 DEF SendEvent
  <2>2. job[j] \in Job /\ job[j] # None /\ job' \in [JobIds -> Job \cup {None}] /\ job'[j] # None
    BY <2>1, <1>2, JobFacts, SendEventKeeps DEF Active, IInv, TypeOK
  <2>3. /\ job'[j].rows = job[j].rows /\ job'[j].todo = job[j].todo \ {r}
        /\ job'[j].refused = IF fails THEN job[j].refused \cup {r} ELSE job[j].refused
        /\ \A i \in JobIds \ {j} : job'[i] = job[i]
    BY <2>1, <2>2 DEF IInv, TypeOK, Job
  <2>4. /\ mails \in [Rows -> Nat] /\ skipped \subseteq skipped'
        /\ \A q \in Rows : mails[q] > 0 => mails'[q] > 0
        /\ mails'[r] > 0 \/ r \in skipped' \/ fails
    BY <2>1 DEF IInv, TypeOK
  <2>5. Covered'
    BY <2>1, <2>2, <2>3, <2>4 DEF Delivery, Covered, InJob, Owed, Is
  <2>6. Worked'
    <3>1. SUFFICES ASSUME NEW i \in JobIds, Active(i)', NEW q \in job'[i].rows \ job'[i].todo
                   PROVE  mails'[q] > 0 \/ q \in skipped' \/ q \in job'[i].refused
      BY DEF Worked
    <3>2. q \in Rows
      BY <2>2, <3>1, SendEventKeeps, <1>2 DEF Active, IInv, TypeOK, Job
    <3>3. CASE i = j
      <4>1. CASE q = r
        BY <3>3, <4>1, <2>3, <2>4
      <4>2. CASE q # r
        <5>1. q \in job[j].rows \ job[j].todo
          BY <3>1, <3>3, <4>2, <2>3
        <5>2. mails[q] > 0 \/ q \in skipped \/ q \in job[j].refused
          BY <5>1, <2>1 DEF Delivery, Worked
        <5> QED
          BY <5>2, <3>2, <3>3, <2>3, <2>4
      <4> QED
        BY <4>1, <4>2
    <3>4. CASE i # j
      BY <3>1, <3>2, <3>4, <2>3, <2>4 DEF Delivery, Worked, Active
    <3> QED
      BY <3>3, <3>4
  <2> QED
    BY <2>5, <2>6 DEF Delivery
<1>3. CASE Finish(j)
  <2>1. /\ UNCHANGED <<cron, skipped, mails>> /\ Active(j) /\ job[j].todo = {}
        /\ event' = Marked(job[j].refused, "failed") /\ job[j].refused \cap Held = {}
        /\ job' = [job EXCEPT ![j] = None]
    BY <1>3 DEF Finish, history
  <2>2. job'[j] = None /\ \A i \in JobIds \ {j} : job'[i] = job[i]
    BY <2>1 DEF IInv, TypeOK
  <2>3. ASSUME NEW r \in Rows, Owed(r)'
        PROVE  Owed(r) /\ r \notin job[j].refused
    <3>1. CASE \E y \in Crons : r \in cron[y].queued
      BY <3>1, <2>1 DEF Owed, IInv, Flushes, Held, HeldByCrons
    <3>2. CASE Is(r, "sent")'
      <4>1. r \in job[j].refused => ~Is(r, "sent")'
        BY <2>1, MarkedRows DEF IInv, Is, Exists
      <4>2. Is(r, "sent")
        BY <3>2, <2>1, MarkedRows DEF IInv, Is
      <4> QED
        BY <3>2, <4>1, <4>2 DEF Owed
    <3> QED
      BY <2>1, <2>3, <3>1, <3>2 DEF Owed
  <2>4. ASSUME NEW r \in Rows, r \in job[j].rows, r \notin job[j].refused
        PROVE  mails[r] > 0 \/ r \in skipped
    BY <2>1, <2>4 DEF Delivery, Worked
  <2>5. Covered'
    BY <2>1, <2>2, <2>3, <2>4 DEF Delivery, Covered, InJob
  <2>6. Worked'
    BY <2>1, <2>2 DEF Delivery, Worked, Active
  <2> QED
    BY <2>5, <2>6 DEF Delivery
<1>4. CASE Suppress(j)
  <2>1. /\ UNCHANGED <<event, cron, mails>> /\ Active(j)
        /\ skipped' = skipped \cup job[j].rows /\ job' = [job EXCEPT ![j] = None]
    BY <1>4 DEF Suppress
  <2>2. job'[j] = None /\ \A i \in JobIds \ {j} : job'[i] = job[i]
    BY <2>1 DEF IInv, TypeOK
  <2>3. Covered'
    BY <2>1, <2>2 DEF Delivery, Covered, InJob, Owed, Is
  <2>4. Worked'
    BY <2>1, <2>2 DEF Delivery, Worked, Active
  <2> QED
    BY <2>3, <2>4 DEF Delivery
<1> QED
  BY <1>1, <1>2, <1>3, <1>4 DEF WorkerStep

LEMMA NextDelivers == IInv /\ Delivery /\ [Next]_vars => Delivery'
<1> SUFFICES ASSUME IInv, Delivery, [Next]_vars PROVE Delivery'
  OBVIOUS
<1>1. ASSUME NEW x \in Callers,
             \/ \E t \in Types, k \in Keys : Begin(x, t, k)
             \/ CallerStep(x) \/ PushFails(x) \/ Rollback(x)
      PROVE  Delivery'
  BY <1>1, CallerDelivers, PushDelivers DEF CallerStep
<1>2. ASSUME NEW r \in Rows, Settle(r) \/ Cleanup(r) PROVE Delivery'
  BY <1>2, TimeDelivers
<1>3. ASSUME NEW y \in Crons, CronStep(y) \/ FlushAbort(y) PROVE Delivery'
  BY <1>3, CronDelivers
<1>4. ASSUME NEW j \in JobIds, WorkerStep(j) \/ Suppress(j) \/ Throws(j) \/ Stall(j)
      PROVE  Delivery'
  BY <1>4, WorkerDelivers
<1>5. CASE UNCHANGED vars
  BY <1>5 DEF vars, Delivery, Covered, Worked, Owed, InJob, Is, Active
<1> QED
  BY <1>1, <1>2, <1>3, <1>4, <1>5 DEF Next

(* A row that reads 'sent' was mailed, was skipped on purpose, or is in a  *)
(* job that still exists, whatever fails and however often it is tried     *)
(* again: the flush marks what it has queued, and the worker marks what it *)
(* refused before its job ends.                                            *)
THEOREM SentIsAccountedFor == Spec => []NothingSentIsLost
<1>1. Init => Delivery
  BY DEF Init, Delivery, Covered, Worked, Owed, Is, Active, Resting
<1>2. Delivery => NothingSentIsLost
  BY DEF Delivery, Covered, Owed, InJob, NothingSentIsLost
<1> QED
  BY <1>1, <1>2, PipelineInvariant, NextDelivers, PTL DEF Spec

-----------------------------------------------------------------------------
(* The pipeline keeps the promises.                                        *)

\* Where a row stands, without CASE.
Standing ==
    \A r \in Rows :
        /\ event[r] = None => Promised(r) = "absent"
        /\ event[r] # None /\ r \in handed /\ ~TakenBack(r) => Promised(r) = "handed"
        /\ Is(r, "pending") /\ r \notin handed => Promised(r) = "waiting"
        /\ event[r] # None /\ ~Is(r, "pending") /\ r \notin handed => Promised(r) = "withdrawn"

LEMMA StandingHolds == Standing
BY DEF Standing, Promised, TakenBack, Is

LEMMA StandingAfter == Standing'
BY DEF Standing, Promised, TakenBack, Is

\* A step that moves rows along and mails nothing.
Advances ==
    /\ UNCHANGED mails
    /\ \A r \in Rows : \/ Promised(r)' = Promised(r)
                       \/ <<Promised(r), Promised(r)'>> \in Promises!Lifecycle

LEMMA AdvancesKeeps == Advances => [Promises!Next]_(Promises!vars)
<1> SUFFICES ASSUME Advances PROVE Promises!Advance
  BY DEF Promises!Next
<1> DEFINE p == [r \in Rows |-> Promised(r)]
<1>1. \A r \in Rows : Promised(r)' \in Promises!Places
  BY DEF Promised, Promises!Places
<1>2. [r \in Rows |-> Promised(r)]' \in [Rows -> Promises!Places]
  BY <1>1
<1>3. \A r \in Rows : p[r] = Promised(r) /\ p'[r] = Promised(r)'
  OBVIOUS
<1>4. \A r \in Rows : p'[r] # p[r] => <<p[r], p'[r]>> \in Promises!Lifecycle
  BY <1>3 DEF Advances
<1> QED
  BY <1>2, <1>4 DEF Promises!Advance, Advances

(* Steps that touch neither the table nor what was handed over.            *)
LEMMA QuietAdvances ==
    ASSUME UNCHANGED <<event, handed, orphan, mails>>
    PROVE  Advances
BY DEF Advances, Promised, TakenBack, Is

LEMMA CommitAdvances ==
    ASSUME IInv, NEW x \in Callers, Commit(x)
    PROVE  Advances
<1>1. UNCHANGED <<handed, orphan, mails>> /\ 0 \notin Rows
  BY DEF Commit, history, Rows
<1>2. PICK new \in Rows \cup {0} :
         /\ new # 0 => event[new] = None /\ event'[new] \in Row /\ event'[new].status = "pending"
         /\ \A q \in Rows \ {new} :
               \/ q \notin tx[x].hit /\ event'[q] = event[q]
               \/ /\ q \in tx[x].hit /\ event'[q] # None
                  /\ event'[q].status = "cancelled"
  BY CommittedRows
<1>3. ASSUME NEW r \in Rows
      PROVE  \/ Promised(r)' = Promised(r)
             \/ <<Promised(r), Promised(r)'>> \in Promises!Lifecycle
  <2>1. CASE r = new
    <3>1. event[r] = None /\ event'[r] # None /\ Is(r, "pending")' /\ r \notin handed
      BY <2>1, <1>1, <1>2, PipelineAssumption DEF Is, IInv, Handing
    <3> QED
      BY <3>1, <1>1, StandingHolds, StandingAfter DEF Standing, Promises!Lifecycle
  <2>2. CASE r # new /\ r \notin tx[x].hit
    BY <2>2, <1>1, <1>2 DEF Promised, TakenBack, Is
  <2>3. CASE r # new /\ r \in tx[x].hit
    <3>1. /\ Is(r, "pending") /\ Is(r, "cancelled")' /\ ~Is(r, "pending")' /\ event'[r] # None
          /\ r \in handed => r \in orphan
      BY <2>3, <1>2 DEF Is, IInv, Locks, Flushes, Handing
    <3>2. CASE r \in handed
      BY <3>1, <3>2, <1>1, StandingHolds, StandingAfter DEF Standing, TakenBack, Is
    <3>3. CASE r \notin handed
      BY <3>1, <3>3, <1>1, StandingHolds, StandingAfter DEF Standing, Promises!Lifecycle
    <3> QED
      BY <3>2, <3>3
  <2> QED
    BY <2>1, <2>2, <2>3
<1> QED
  BY <1>1, <1>3 DEF Advances

(* A row that is marked was handed over and stays so, or was taken back.   *)
LEMMA MarkedAdvances ==
    ASSUME IInv, NEW R \in SUBSET Rows, NEW s \in {"sent", "failed", "deleted"},
           event' = Marked(R, s), UNCHANGED <<handed, orphan, mails>>,
           \A r \in R : r \in handed \/ ~Is(r, "pending")
    PROVE  Advances
<1>1. ASSUME NEW r \in Rows
      PROVE  Promised(r)' = Promised(r)
  <2>1. \/ event'[r] = event[r]
        \/ /\ r \in R /\ event[r] # None /\ event'[r] # None /\ event'[r].status = s
    BY MarkedRows DEF IInv, Exists
  <2>2. CASE event'[r] = event[r]
    BY <2>2 DEF Promised, TakenBack, Is
  <2>3. CASE /\ r \in R /\ event[r] # None /\ event'[r] # None /\ event'[r].status = s
    <3>1. ~Is(r, "pending")' /\ ~TakenBack(r)'
      BY <2>3 DEF Is, TakenBack
    <3>2. CASE r \in handed
      <4>1. ~TakenBack(r)
        BY <3>2 DEF TakenBack, IInv, Handing
      <4> QED
        BY <2>3, <3>1, <3>2, <4>1, StandingHolds, StandingAfter DEF Standing
    <3>3. CASE r \notin handed
      BY <2>3, <3>1, <3>3, StandingHolds, StandingAfter DEF Standing
    <3> QED
      BY <3>2, <3>3
  <2> QED
    BY <2>1, <2>2, <2>3
<1> QED
  BY <1>1 DEF Advances

LEMMA CallerPromises ==
    ASSUME IInv, NEW x \in Callers,
           \/ \E t \in Types, k \in Keys : Begin(x, t, k)
           \/ CallerStep(x) \/ PushFails(x) \/ Rollback(x)
    PROVE  Advances
<1>1. CASE Commit(x)
  BY <1>1, CommitAdvances
<1>2. CASE ~Commit(x)
  BY <1>2, QuietAdvances DEF CallerStep, Begin, Cancel, Push, PushFails, Rollback, history
<1> QED
  BY <1>1, <1>2

LEMMA TimePromises ==
    ASSUME IInv, NEW r \in Rows, Settle(r) \/ Cleanup(r)
    PROVE  Advances
<1>1. CASE Settle(r)
  <2>1. event[r] \in Row /\ event' = [event EXCEPT ![r].settled = TRUE] /\ event[r] # None
        /\ UNCHANGED <<handed, orphan, mails>>
    BY <1>1 DEF Settle, Is, IInv, TypeOK, history
  <2>2. event'[r].status = event[r].status /\ event'[r] \in Row
    BY <2>1 DEF Row, IInv, TypeOK
  <2>3. \A q \in Rows \ {r} : event'[q] = event[q]
    BY <2>1 DEF IInv, TypeOK
  <2>4. event'[r] # None
    BY <2>2, PipelineAssumption
  <2>5. \A q \in Rows : Promised(q)' = Promised(q)
    BY <2>1, <2>2, <2>3, <2>4 DEF Promised, TakenBack, Is
  <2> QED
    BY <2>1, <2>5 DEF Advances
<1>2. CASE Cleanup(r)
  <2>1. /\ event' = Marked({r}, "deleted") /\ ~Is(r, "pending")
        /\ UNCHANGED <<handed, orphan, mails>>
    BY <1>2 DEF Cleanup, Is, history
  <2> QED
    BY <2>1, MarkedAdvances
<1> QED
  BY <1>1, <1>2

LEMMA CronPromises ==
    ASSUME IInv, NEW y \in Crons, CronStep(y) \/ FlushAbort(y)
    PROVE  Advances
<1>1. CASE Select(y)
  BY <1>1, QuietAdvances DEF Select, history
<1>2. CASE Enqueue(y)
  <2> DEFINE rest == cron[y].batch \ cron[y].queued
             group(first) == { r \in rest : digestOf[event[r].key] = digestOf[event[first].key] }
  <2>1. PICK first \in Rows :
           handed' = handed \cup group(first) /\ UNCHANGED <<event, orphan, mails>>
    BY <1>2 DEF Enqueue
  <2> DEFINE R == group(first)
  <2>2. \A r \in R : Is(r, "pending")
    BY DEF IInv, Locks
  <2>3. handed' = handed \cup R /\ UNCHANGED <<event, orphan, mails>>
    BY <2>1
  <2> HIDE DEF R
  <2>4. ASSUME NEW r \in Rows
        PROVE  \/ Promised(r)' = Promised(r)
               \/ <<Promised(r), Promised(r)'>> \in Promises!Lifecycle
    <3>1. CASE r \in R /\ r \notin handed
      <4>1. Is(r, "pending") /\ r \in handed' /\ event'[r] # None /\ ~TakenBack(r)'
        BY <3>1, <2>2, <2>3 DEF Is, TakenBack
      <4> QED
        BY <3>1, <4>1, StandingHolds, StandingAfter DEF Standing, Promises!Lifecycle
    <3>2. CASE ~(r \in R /\ r \notin handed)
      BY <3>2, <2>3 DEF Promised, TakenBack, Is
    <3> QED
      BY <3>1, <3>2
  <2> QED
    BY <2>3, <2>4 DEF Advances
<1>3. CASE FlushCommit(y)
  <2>1. /\ event' = Marked(cron[y].batch, "sent") /\ cron[y].batch \subseteq handed
        /\ UNCHANGED <<handed, orphan, mails>>
    BY <1>3 DEF FlushCommit, history, IInv, Flushes
  <2>2. cron[y].batch \in SUBSET Rows
    BY DEF IInv, TypeOK, Flush
  <2> QED
    BY <2>1, <2>2, MarkedAdvances
<1>4. CASE FlushAbort(y)
  <2>1. orphan' = orphan \cup cron[y].queued /\ UNCHANGED <<event, handed, mails>>
    BY <1>4 DEF FlushAbort
  <2>2. \A r \in cron[y].queued : Is(r, "pending")
    BY DEF IInv, Locks, Flushes
  <2>3. \A r \in Rows : TakenBack(r)' <=> TakenBack(r)
    BY <2>1, <2>2 DEF TakenBack, Is
  <2>4. \A r \in Rows : Promised(r)' = Promised(r)
    BY <2>1, <2>3 DEF Promised, Is
  <2> QED
    BY <2>1, <2>4 DEF Advances
<1> QED
  BY <1>1, <1>2, <1>3, <1>4 DEF CronStep

LEMMA WorkerPromises ==
    ASSUME IInv, NEW j \in JobIds, WorkerStep(j) \/ Suppress(j) \/ Throws(j) \/ Stall(j)
    PROVE  [Promises!Next]_(Promises!vars)
<1>1. CASE Take(j) \/ Suppress(j) \/ Throws(j) \/ Stall(j)
  BY <1>1, QuietAdvances, AdvancesKeeps DEF Take, Suppress, Throws, Stall, history
<1>2. CASE SendEvent(j)
  <2>1. PICK r \in Rows, mailed \in BOOLEAN :
           /\ Active(j) /\ r \in job[j].todo
           /\ mails' = IF mailed THEN [mails EXCEPT ![r] = @ + 1] ELSE mails
           /\ UNCHANGED <<event, handed, orphan>>
    BY <1>2 DEF SendEvent, Lowest
  <2>2. Promised(r) = "handed"
    <3>1. r \in handed
      BY <2>1, JobFacts DEF Active
    <3>2. event[r] # None /\ ~TakenBack(r)
      BY <3>1 DEF IInv, Handing, TakenBack
    <3> QED
      BY <3>1, <3>2, StandingHolds DEF Standing
  <2>3. \A q \in Rows : Promised(q)' = Promised(q)
    BY <2>1 DEF Promised, TakenBack, Is
  <2>4. CASE mailed
    <3>1. mails' = [mails EXCEPT ![r] = @ + 1]
      BY <2>1, <2>4
    <3>2. [q \in Rows |-> Promised(q)]' = [q \in Rows |-> Promised(q)]
      BY <2>3
    <3> QED
      BY <2>2, <3>1, <3>2 DEF Promises!Next, Promises!Deliver
  <2>5. CASE ~mailed
    BY <2>1, <2>3, <2>5, AdvancesKeeps DEF Advances
  <2> QED
    BY <2>4, <2>5
<1>3. CASE Finish(j)
  <2>1. /\ event' = Marked(job[j].refused, "failed") /\ Active(j)
        /\ UNCHANGED <<handed, orphan, mails>>
    BY <1>3 DEF Finish, history
  <2>2. job[j].refused \in SUBSET Rows /\ job[j].refused \subseteq handed
    BY <2>1, JobFacts DEF Active
  <2> QED
    BY <2>1, <2>2, MarkedAdvances, AdvancesKeeps
<1> QED
  BY <1>1, <1>2, <1>3 DEF WorkerStep

(* The detailed pipeline implements the promises, step by step: a          *)
(* notification is withdrawn or handed over, never both, however the       *)
(* cancellations, the overlapping flushes, their rollbacks and the retries *)
(* interleave; and only what was handed over is mailed.                    *)
THEOREM PipelineKeepsPromises == Spec => KeepsPromises
<1>1. Init => Promises!Init
  <2> SUFFICES ASSUME Init PROVE Promises!Init
    OBVIOUS
  <2>1. \A r \in Rows : Promised(r) = "absent"
    <3> TAKE r \in Rows
    <3>1. event[r] = None
      BY DEF Init
    <3> QED
      BY <3>1, StandingHolds DEF Standing
  <2> QED
    BY <2>1 DEF Init, Promises!Init
<1>2. IInv /\ [Next]_vars => [Promises!Next]_(Promises!vars)
  <2> SUFFICES ASSUME IInv, [Next]_vars PROVE [Promises!Next]_(Promises!vars)
    OBVIOUS
  <2>1. CASE \E x \in Callers : \/ \E t \in Types, k \in Keys : Begin(x, t, k)
                                \/ CallerStep(x) \/ PushFails(x) \/ Rollback(x)
    BY <2>1, CallerPromises, AdvancesKeeps
  <2>2. CASE \E r \in Rows : Settle(r) \/ Cleanup(r)
    BY <2>2, TimePromises, AdvancesKeeps
  <2>3. CASE \E y \in Crons : CronStep(y) \/ FlushAbort(y)
    BY <2>3, CronPromises, AdvancesKeeps
  <2>4. CASE \E j \in JobIds : WorkerStep(j) \/ Suppress(j) \/ Throws(j) \/ Stall(j)
    BY <2>4, WorkerPromises
  <2>5. CASE UNCHANGED vars
    BY <2>5, QuietAdvances, AdvancesKeeps DEF vars
  <2> QED
    BY <2>1, <2>2, <2>3, <2>4, <2>5 DEF Next
<1> QED
  BY <1>1, <1>2, PipelineInvariant, PTL DEF Spec, KeepsPromises, Promises!Spec

-----------------------------------------------------------------------------
(* Extra mails need faults.  The mails of a row, the jobs that may still   *)
(* mail it and the chance to be put in one more job are never more than    *)
(* the first mail and the faults: who spends one of them earns another     *)
(* only by a fault.                                                        *)

\* The row may be put in a job: it does not exist yet, or is pending and no
\* running flush has put it in one.
MayQueue(r) == event[r] = None \/ (Is(r, "pending") /\ \A y \in Crons : r \notin cron[y].queued)

\* The jobs that may still mail the row.
WillMail(r) ==
    { j \in JobIds : /\ job[j] # None
                     /\ \/ job[j].at = "waiting" /\ r \in job[j].rows
                        \/ job[j].at = "active" /\ r \in job[j].todo }

One(b) == IF b THEN 1 ELSE 0

Account ==
    \A r \in Rows : mails[r] + Cardinality(WillMail(r)) + One(MayQueue(r)) <= 1 + faults

LEMMA JobIdsFinite == IsFiniteSet(JobIds)
<1>1. IsFiniteSet(1..(MaxDigests + MaxInstants))
  BY PipelineAssumption, FS_Interval
<1>2. JobIds \in SUBSET (1..(MaxDigests + MaxInstants))
  BY PipelineAssumption DEF JobIds, DigestIds, InstantIds
<1> QED
  BY <1>1, <1>2, FS_Subset

\* Two sets that differ in one element at most.
LEMMA CountChange ==
    ASSUME NEW S, NEW T, IsFiniteSet(S), IsFiniteSet(T), NEW j, S \ {j} = T \ {j}
    PROVE  /\ Cardinality(S) \in Nat /\ Cardinality(T) \in Nat
           /\ Cardinality(T) + One(j \in S) = Cardinality(S) + One(j \in T)
<1>1. Cardinality(S) \in Nat /\ Cardinality(T) \in Nat
  BY FS_CardinalityType
<1>2. Cardinality(S \ {j}) = Cardinality(S) - One(j \in S)
  BY <1>1, FS_RemoveElement DEF One
<1>3. Cardinality(T \ {j}) = Cardinality(T) - One(j \in T)
  BY <1>1, FS_RemoveElement DEF One
<1>4. One(j \in S) \in Nat /\ One(j \in T) \in Nat
  BY DEF One
<1>5. Cardinality(S) - One(j \in S) = Cardinality(T) - One(j \in T)
  BY <1>2, <1>3
<1> QED
  BY <1>1, <1>4, <1>5

\* A step on one job balances when no row gains more than the step has faults.
LEMMA JobBalance ==
    ASSUME IInv, IInv', Account, NEW j \in JobIds, \A i \in JobIds \ {j} : job'[i] = job[i],
           \A r \in Rows :
              mails'[r] + One(j \in WillMail(r)') + One(MayQueue(r)') + faults
                <= mails[r] + One(j \in WillMail(r)) + One(MayQueue(r)) + faults'
    PROVE  Account'
<1> SUFFICES ASSUME NEW r \in Rows
             PROVE  mails'[r] + Cardinality(WillMail(r)') + One(MayQueue(r)') <= 1 + faults'
  BY DEF Account, Rows
<1>1. IsFiniteSet(WillMail(r)) /\ IsFiniteSet(WillMail(r)')
  <2>1. WillMail(r) \in SUBSET JobIds /\ WillMail(r)' \in SUBSET JobIds
    BY DEF WillMail
  <2> QED
    BY <2>1, JobIdsFinite, FS_Subset
<1>2. WillMail(r) \ {j} = WillMail(r)' \ {j}
  BY DEF WillMail
<1>3. /\ Cardinality(WillMail(r)) \in Nat /\ Cardinality(WillMail(r)') \in Nat
      /\ Cardinality(WillMail(r)') + One(j \in WillMail(r))
            = Cardinality(WillMail(r)) + One(j \in WillMail(r)')
  BY <1>1, <1>2, CountChange
<1>4. /\ mails[r] \in Nat /\ mails'[r] \in Nat /\ faults \in Nat /\ faults' \in Nat
  BY DEF IInv, TypeOK
<1>5. \A b : One(b) \in Nat
  BY DEF One
<1>6. mails[r] + Cardinality(WillMail(r)) + One(MayQueue(r)) <= 1 + faults
  BY DEF Account
<1>7. mails'[r] + One(j \in WillMail(r)') + One(MayQueue(r)') + faults
         <= mails[r] + One(j \in WillMail(r)) + One(MayQueue(r)) + faults'
  OBVIOUS
<1>8. /\ One(j \in WillMail(r)) \in Nat /\ One(j \in WillMail(r)') \in Nat
      /\ One(MayQueue(r)) \in Nat /\ One(MayQueue(r)') \in Nat
  BY <1>5
<1> QED
  BY <1>3, <1>4, <1>6, <1>7, <1>8

\* A step beside the queue balances when no row comes back, or by a fault.
LEMMA TableBalance ==
    ASSUME IInv, IInv', Account, UNCHANGED <<job, mails>>, faults <= faults',
           faults' = faults => \A r \in Rows : MayQueue(r)' => MayQueue(r)
    PROVE  Account'
<1> SUFFICES ASSUME NEW r \in Rows
             PROVE  mails'[r] + Cardinality(WillMail(r)') + One(MayQueue(r)') <= 1 + faults'
  BY DEF Account, Rows
<1>1. WillMail(r)' = WillMail(r) /\ mails'[r] = mails[r]
  BY DEF WillMail
<1>2. Cardinality(WillMail(r)) \in Nat
  <2>1. WillMail(r) \in SUBSET JobIds
    BY DEF WillMail
  <2> QED
    BY <2>1, JobIdsFinite, FS_Subset, FS_CardinalityType
<1>3. mails[r] \in Nat /\ faults \in Nat /\ faults' \in Nat
  BY DEF IInv, TypeOK
<1>4. mails[r] + Cardinality(WillMail(r)) + One(MayQueue(r)) <= 1 + faults
  BY DEF Account
<1>5. One(MayQueue(r)) \in {0, 1} /\ One(MayQueue(r)') \in {0, 1}
  BY DEF One
<1>6. faults' = faults => One(MayQueue(r)') <= One(MayQueue(r))
  BY DEF One
<1> QED
  BY <1>1, <1>2, <1>3, <1>4, <1>5, <1>6

\* A row that is pending after a step of the table was, or did not exist.
LEMMA StaysQueueable ==
    ASSUME \A r \in Rows : Is(r, "pending")' => Is(r, "pending") \/ event[r] = None,
           \A r \in Rows : event'[r] = None => event[r] = None,
           \A y \in Crons : \A r \in cron[y].queued :
              (\E z \in Crons : r \in cron'[z].queued) \/ ~Is(r, "pending")'
    PROVE  \A r \in Rows : MayQueue(r)' => MayQueue(r)
<1> SUFFICES ASSUME NEW r \in Rows, MayQueue(r)' PROVE MayQueue(r)
  OBVIOUS
<1>1. CASE event'[r] = None
  BY <1>1 DEF MayQueue
<1>2. CASE event'[r] # None
  <2>1. Is(r, "pending")' /\ \A z \in Crons : r \notin cron'[z].queued
    BY <1>2 DEF MayQueue
  <2> QED
    BY <2>1 DEF MayQueue
<1> QED
  BY <1>1, <1>2

LEMMA CallerBalances ==
    ASSUME IInv, IInv', Account, NEW x \in Callers,
           \/ \E t \in Types, k \in Keys : Begin(x, t, k)
           \/ CallerStep(x) \/ PushFails(x) \/ Rollback(x)
    PROVE  Account'
<1>1. faults \in Nat
  BY DEF IInv, TypeOK
<1>2. CASE Commit(x)
  <2>1. PICK new \in Rows \cup {0} :
           /\ new # 0 => event[new] = None /\ event'[new] \in Row
           /\ \A q \in Rows \ {new} :
                 \/ event'[q] = event[q]
                 \/ event'[q] # None /\ event'[q].status = "cancelled"
    BY <1>2, CommittedRows
  <2>2. UNCHANGED <<cron, job, faults, mails>>
    BY <1>2 DEF Commit, history
  <2>3. 0 \notin Rows /\ None \notin Row
    BY PipelineAssumption DEF Rows
  <2>4. \A r \in Rows : Is(r, "pending")' => Is(r, "pending") \/ event[r] = None
    BY <2>1, <2>3 DEF Is
  <2>5. \A r \in Rows : event'[r] = None => event[r] = None
    BY <2>1, <2>3
  <2>6. \A r \in Rows : MayQueue(r)' => MayQueue(r)
    BY <2>2, <2>4, <2>5, StaysQueueable
  <2> QED
    BY <1>1, <2>2, <2>6, TableBalance
<1>3. CASE Push(x)
  <2>1. /\ UNCHANGED <<event, cron, faults, mails>>
        /\ AddJob(InstantIds, {})
    BY <1>3 DEF Push, history
  <2>2. PICK j \in JobIds :
           /\ job[j] = None
           /\ job' = [job EXCEPT ![j] = [at |-> "waiting", rows |-> {}, todo |-> {}, refused |-> {},
                                         left |-> Attempts, stalled |-> FALSE]]
    BY <2>1 DEF AddJob, Lowest, Free
  <2>3. /\ \A i \in JobIds \ {j} : job'[i] = job[i]
        /\ job'[j].at = "waiting" /\ job'[j].rows = {}
    BY <2>2 DEF IInv, TypeOK
  <2>4. \A r \in Rows : j \notin WillMail(r)' /\ j \notin WillMail(r)
    BY <2>2, <2>3 DEF WillMail
  <2>5. \A r \in Rows : MayQueue(r)' = MayQueue(r) /\ mails'[r] = mails[r]
    BY <2>1 DEF MayQueue, Is
  <2>6. ASSUME NEW r \in Rows
        PROVE  mails'[r] + One(j \in WillMail(r)') + One(MayQueue(r)') + faults
                 <= mails[r] + One(j \in WillMail(r)) + One(MayQueue(r)) + faults'
    <3>1. mails[r] \in Nat
      BY DEF IInv, TypeOK
    <3>2. One(j \in WillMail(r)') = One(j \in WillMail(r)) /\ One(j \in WillMail(r)) \in Nat
      BY <2>4 DEF One
    <3>3. One(MayQueue(r)') = One(MayQueue(r)) /\ One(MayQueue(r)) \in Nat
      BY <2>5 DEF One
    <3> QED
      BY <1>1, <2>1, <2>5, <3>1, <3>2, <3>3
  <2> QED
    BY <2>3, <2>6, JobBalance
<1>4. CASE (\E t \in Types, k \in Keys : Begin(x, t, k)) \/ Cancel(x) \/ PushFails(x) \/ Rollback(x)
  <2>1. UNCHANGED <<event, cron, job, mails>> /\ faults' \in {faults, faults + 1}
    BY <1>4 DEF Begin, Cancel, PushFails, Rollback, Fault, history
  <2>2. \A r \in Rows : MayQueue(r)' => MayQueue(r)
    BY <2>1 DEF MayQueue, Is
  <2> QED
    BY <1>1, <2>1, <2>2, TableBalance
<1> QED
  BY <1>2, <1>3, <1>4 DEF CallerStep

LEMMA TimeBalances ==
    ASSUME IInv, IInv', Account, NEW r \in Rows, Settle(r) \/ Cleanup(r)
    PROVE  Account'
<1>1. UNCHANGED <<cron, job, mails, faults>> /\ faults \in Nat
  BY DEF Settle, Cleanup, history, IInv, TypeOK
<1>2. \A q \in Rows : /\ Is(q, "pending")' => Is(q, "pending")
                      /\ event'[q] = None => event[q] = None
  <2>1. CASE Settle(r)
    <3>1. event[r] \in Row /\ event' = [event EXCEPT ![r].settled = TRUE]
      BY <2>1 DEF Settle, Is, IInv, TypeOK
    <3>2. \A q \in Rows \ {r} : event'[q] = event[q]
      BY <3>1 DEF IInv, TypeOK
    <3>3. Is(r, "pending") /\ event'[r] # None
      <4>1. event[r] \in Row /\ event'[r] = [event[r] EXCEPT !.settled = TRUE]
        BY <2>1, <3>1 DEF IInv, TypeOK
      <4>2. event'[r] \in Row
        BY <4>1 DEF Row
      <4> QED
        BY <2>1, <4>2, PipelineAssumption DEF Settle
    <3> QED
      BY <3>2, <3>3 DEF Is
  <2>2. CASE Cleanup(r)
    <3>1. event' = Marked({r}, "deleted") /\ TypeOK
      BY <2>2 DEF Cleanup, IInv
    <3> QED
      BY <3>1, MarkedRows DEF Is, Exists
  <2> QED
    BY <2>1, <2>2
<1>3. \A q \in Rows : MayQueue(q)' => MayQueue(q)
  BY <1>1, <1>2, StaysQueueable
<1> QED
  BY <1>1, <1>3, TableBalance

LEMMA CronBalances ==
    ASSUME IInv, IInv', Account, NEW y \in Crons, CronStep(y) \/ FlushAbort(y)
    PROVE  Account'
<1>1. faults \in Nat /\ cron[y] \in Flush
  BY DEF IInv, TypeOK
<1>2. CASE Select(y)
  <2>1. UNCHANGED <<event, job, mails, faults>> /\ cron[y].at = "idle"
    BY <1>2 DEF Select, history
  <2>2. \A z \in Crons \ {y} : cron'[z] = cron[z]
    BY <1>2 DEF Select, IInv, TypeOK
  <2>3. cron[y].queued = {}
    BY <2>1 DEF IInv, Flushes
  <2>4. \A r \in Rows : MayQueue(r)' => MayQueue(r)
    BY <2>1, <2>2, <2>3, StaysQueueable DEF Is
  <2> QED
    BY <1>1, <2>1, <2>4, TableBalance
<1>3. CASE Enqueue(y)
  <2>1. PICK first \in Rows :
          LET rest == cron[y].batch \ cron[y].queued
              group == { r \in rest : digestOf[event[r].key] = digestOf[event[first].key] }
          IN  /\ AddJob(DigestIds, group)
              /\ cron' = [cron EXCEPT ![y].queued = @ \cup group,
                                     ![y].at = IF rest = group THEN "commit" ELSE "enqueue"]
              /\ UNCHANGED <<event, faults, mails>>
    BY <1>3 DEF Enqueue
  <2> DEFINE rest == cron[y].batch \ cron[y].queued
             group == { r \in rest : digestOf[event[r].key] = digestOf[event[first].key] }
  <2>2. PICK j \in JobIds :
           /\ job[j] = None
           /\ job' = [job EXCEPT ![j] = [at |-> "waiting", rows |-> group, todo |-> {},
                                         refused |-> {}, left |-> Attempts, stalled |-> FALSE]]
    BY <2>1 DEF AddJob, Lowest, Free
  <2>3. UNCHANGED <<event, faults, mails>> /\ group \subseteq rest
    BY <2>1
  <2>4. cron'[y].queued = cron[y].queued \cup group /\ \A z \in Crons \ {y} : cron'[z] = cron[z]
    BY <1>1, <2>1 DEF IInv, TypeOK, Flush
  <2> HIDE DEF group
  <2>5. /\ \A i \in JobIds \ {j} : job'[i] = job[i]
        /\ job'[j] = [at |-> "waiting", rows |-> group, todo |-> {},
                      refused |-> {}, left |-> Attempts, stalled |-> FALSE]
    BY <2>2 DEF IInv, TypeOK
  <2>6. job'[j] # None
    <3>1. group \in SUBSET Rows /\ Attempts \in 0..Attempts
      BY <1>1, <2>3, PipelineAssumption DEF Flush
    <3>2. job'[j] \in Job
      BY <2>5, <3>1 DEF Job
    <3> QED
      BY <3>2, PipelineAssumption
  <2>7. \A r \in Rows : j \notin WillMail(r) /\ (j \in WillMail(r)' <=> r \in group)
    BY <2>2, <2>5, <2>6 DEF WillMail
  <2>8. \A r \in group : MayQueue(r) /\ ~MayQueue(r)'
    <3> SUFFICES ASSUME NEW r \in group PROVE MayQueue(r) /\ ~MayQueue(r)'
      OBVIOUS
    <3>1. r \in cron[y].batch /\ r \notin cron[y].queued /\ r \in cron'[y].queued
      BY <2>3, <2>4
    <3>2. Is(r, "pending") /\ \A z \in Crons \ {y} : r \notin cron[z].queued
      BY <3>1 DEF IInv, Locks, Flushes
    <3>3. event'[r] # None
      BY <2>3, <3>2 DEF Is
    <3> QED
      BY <3>1, <3>2, <3>3 DEF MayQueue
  <2>9. \A r \in Rows : MayQueue(r)' => MayQueue(r)
    BY <2>3, <2>4, StaysQueueable DEF Is
  <2>10. ASSUME NEW r \in Rows
         PROVE  mails'[r] + One(j \in WillMail(r)') + One(MayQueue(r)') + faults
                  <= mails[r] + One(j \in WillMail(r)) + One(MayQueue(r)) + faults'
    <3>1. mails[r] \in Nat /\ mails'[r] = mails[r] /\ faults' = faults
      BY <2>3 DEF IInv, TypeOK
    <3>2. One(j \in WillMail(r)') + One(MayQueue(r)')
             <= One(j \in WillMail(r)) + One(MayQueue(r))
      BY <2>7, <2>8, <2>9 DEF One
    <3>3. \A b : One(b) \in Nat
      BY DEF One
    <3>4. /\ One(j \in WillMail(r)) \in Nat /\ One(j \in WillMail(r)') \in Nat
          /\ One(MayQueue(r)) \in Nat /\ One(MayQueue(r)') \in Nat
      BY <3>3
    <3> QED
      BY <1>1, <3>1, <3>2, <3>4
  <2> QED
    BY <2>5, <2>10, JobBalance
<1>4. CASE FlushCommit(y)
  <2>1. /\ UNCHANGED <<job, mails, faults>> /\ event' = Marked(cron[y].batch, "sent")
        /\ cron' = [cron EXCEPT ![y] = Resting]
    BY <1>4 DEF FlushCommit, history
  <2>2. \A z \in Crons \ {y} : cron'[z] = cron[z]
    BY <2>1 DEF IInv, TypeOK
  <2>3. TypeOK /\ cron[y].batch \subseteq Rows /\ cron[y].queued \subseteq cron[y].batch
    BY <1>1 DEF IInv, Flushes, Flush
  <2>4. \A r \in Rows : /\ Is(r, "pending")' => Is(r, "pending")
                        /\ event'[r] = None => event[r] = None
    BY <2>1, <2>3, MarkedRows DEF Is
  <2>5. \A r \in cron[y].batch : ~Is(r, "pending")'
    <3> SUFFICES ASSUME NEW r \in cron[y].batch PROVE ~Is(r, "pending")'
      OBVIOUS
    <3>1. Exists(r) /\ r \in Rows
      BY <2>3 DEF IInv, Locks, Is, Exists
    <3> QED
      BY <2>1, <2>3, <3>1, MarkedRows DEF Is
  <2>6. \A r \in Rows : MayQueue(r)' => MayQueue(r)
    BY <2>2, <2>3, <2>4, <2>5, StaysQueueable
  <2> QED
    BY <1>1, <2>1, <2>6, TableBalance
<1>5. CASE FlushAbort(y)
  <2>1. UNCHANGED <<job, mails>> /\ faults' = faults + 1
    BY <1>5 DEF FlushAbort, Fault
  <2> QED
    BY <1>1, <2>1, TableBalance
<1> QED
  BY <1>2, <1>3, <1>4, <1>5 DEF CronStep

LEMMA WorkerBalances ==
    ASSUME IInv, IInv', Account, NEW j \in JobIds,
           WorkerStep(j) \/ Suppress(j) \/ Throws(j) \/ Stall(j)
    PROVE  Account'
<1>1. /\ faults \in Nat /\ mails \in [Rows -> Nat] /\ job \in [JobIds -> Job \cup {None}]
      /\ job[j] # None
  <2>1. job[j] # None
    BY DEF WorkerStep, Take, SendEvent, Finish, Suppress, Throws, Stall, Active
  <2> QED
    BY <2>1 DEF IInv, TypeOK
<1>2. job[j] \in Job /\ job[j].todo \subseteq job[j].rows
  BY <1>1, JobFacts
<1>3. \A i \in JobIds \ {j} : job'[i] = job[i]
  BY <1>1 DEF WorkerStep, Take, SendEvent, Finish, Suppress, Throws, Stall
<1>4. UNCHANGED cron
  BY DEF WorkerStep, Take, SendEvent, Finish, Suppress, Throws, Stall
<1>5. \A r \in Rows : MayQueue(r)' => MayQueue(r)
  <2>1. CASE Finish(j)
    <3>1. event' = Marked(job[j].refused, "failed") /\ TypeOK
      BY <2>1 DEF Finish, IInv
    <3>2. \A r \in Rows : /\ Is(r, "pending")' => Is(r, "pending")
                          /\ event'[r] = None => event[r] = None
      BY <3>1, MarkedRows DEF Is
    <3> QED
      BY <1>4, <3>2, StaysQueueable
  <2>2. CASE ~Finish(j)
    <3>1. event' = event
      BY <2>2 DEF WorkerStep, Take, SendEvent, Suppress, Throws, Stall
    <3> QED
      BY <1>4, <3>1 DEF MayQueue, Is
  <2> QED
    BY <2>1, <2>2
<1>6. ASSUME NEW r \in Rows
      PROVE  mails'[r] + One(j \in WillMail(r)') + faults
               <= mails[r] + One(j \in WillMail(r)) + faults'
  <2>1. mails[r] \in Nat
    BY <1>1
  <2>2. One(j \in WillMail(r)) \in {0, 1} /\ One(j \in WillMail(r)') \in {0, 1}
    BY DEF One
  <2>3. CASE Take(j)
    <3>1. /\ UNCHANGED <<faults, mails>> /\ job[j].at = "waiting"
          /\ job'[j].at = "active" /\ job'[j].todo = job[j].rows
      BY <1>1, <1>2, <2>3 DEF Take, history, Job
    <3>2. j \in WillMail(r)' => j \in WillMail(r)
      BY <1>1, <3>1 DEF WillMail
    <3>3. One(j \in WillMail(r)') <= One(j \in WillMail(r))
      BY <3>2 DEF One
    <3> QED
      BY <1>1, <2>1, <2>2, <3>1, <3>3
  <2>4. CASE SendEvent(j)
    <3>1. PICK q \in Rows, mailed \in BOOLEAN :
            /\ Active(j) /\ q \in job[j].todo
            /\ job'[j].at = "active" /\ job'[j].todo = job[j].todo \ {q}
            /\ mails' = IF mailed THEN [mails EXCEPT ![q] = @ + 1] ELSE mails
            /\ faults' = faults
      <4>1. PICK q \in Rows, mailed \in BOOLEAN, fails \in BOOLEAN :
              /\ Active(j) /\ q \in job[j].todo
              /\ job' = [job EXCEPT ![j].todo = @ \ {q},
                                    ![j].refused = IF fails THEN @ \cup {q} ELSE @]
              /\ mails' = IF mailed THEN [mails EXCEPT ![q] = @ + 1] ELSE mails
              /\ faults' = faults
        BY <2>4 DEF SendEvent, Lowest
      <4>2. job'[j].at = job[j].at /\ job'[j].todo = job[j].todo \ {q}
        BY <1>1, <1>2, <4>1 DEF Job
      <4> QED
        BY <4>1, <4>2 DEF Active
    <3>2. CASE q = r
      <4>1. j \in WillMail(r) /\ j \notin WillMail(r)'
        BY <1>1, <3>1, <3>2 DEF WillMail, Active
      <4>2. One(j \in WillMail(r)) = 1 /\ One(j \in WillMail(r)') = 0
        BY <4>1 DEF One
      <4>3. mails'[r] \in {mails[r], mails[r] + 1}
        BY <1>1, <3>1, <3>2
      <4> QED
        BY <1>1, <2>1, <3>1, <4>2, <4>3
    <3>3. CASE q # r
      <4>1. j \in WillMail(r)' => j \in WillMail(r)
        BY <1>1, <3>1, <3>3 DEF WillMail, Active
      <4>2. One(j \in WillMail(r)') <= One(j \in WillMail(r))
        BY <4>1 DEF One
      <4>3. mails'[r] = mails[r]
        BY <1>1, <3>1, <3>3
      <4> QED
        BY <1>1, <2>1, <2>2, <3>1, <4>2, <4>3
    <3> QED
      BY <3>2, <3>3
  <2>5. CASE Finish(j) \/ Suppress(j)
    <3>1. UNCHANGED <<faults, mails>> /\ job'[j] = None
      BY <1>1, <2>5 DEF Finish, Suppress, history
    <3>2. One(j \in WillMail(r)') = 0
      BY <3>1 DEF WillMail, One
    <3> QED
      BY <1>1, <2>1, <2>2, <3>1, <3>2
  <2>6. CASE Throws(j) \/ Stall(j)
    <3>1. faults' = faults + 1 /\ mails' = mails
      BY <2>6 DEF Throws, Stall, Fault, history
    <3> QED
      BY <1>1, <2>1, <2>2, <3>1
  <2> QED
    BY <2>3, <2>4, <2>5, <2>6 DEF WorkerStep
<1>7. ASSUME NEW r \in Rows
      PROVE  mails'[r] + One(j \in WillMail(r)') + One(MayQueue(r)') + faults
               <= mails[r] + One(j \in WillMail(r)) + One(MayQueue(r)) + faults'
  <2>1. mails[r] \in Nat /\ mails'[r] \in Nat /\ faults' \in Nat
    BY DEF IInv, TypeOK
  <2>2. /\ One(j \in WillMail(r)) \in {0, 1} /\ One(j \in WillMail(r)') \in {0, 1}
        /\ One(MayQueue(r)) \in {0, 1} /\ One(MayQueue(r)') \in {0, 1}
    BY DEF One
  <2>3. One(MayQueue(r)') <= One(MayQueue(r))
    BY <1>5 DEF One
  <2> QED
    BY <1>1, <1>6, <2>1, <2>2, <2>3
<1> QED
  BY <1>3, <1>7, JobBalance

LEMMA InitAccount == Init => Account
<1> SUFFICES ASSUME Init PROVE Account
  OBVIOUS
<1>1. \A r \in Rows : mails[r] = 0 /\ WillMail(r) = {}
  BY DEF Init, WillMail
<1>2. Cardinality({}) = 0
  BY FS_EmptySet
<1> QED
  BY <1>1, <1>2 DEF Account, One, Init

\* The retries of the queue, overlapping runs of the cron and mails that settle
\* while they are replaced never mail the event of a row twice: every mail after
\* the first costs a flush that rolled back, a crash of the worker or an
\* exception (flushSettledNotifications, the worker of the e-mail queue).
THEOREM MailsAreAccountedFor == Spec => []ExtraMailsNeedFaults
<1>1. Init => Account
  BY InitAccount
<1>2. IInv /\ IInv' /\ Account /\ [Next]_vars => Account'
  <2> SUFFICES ASSUME IInv, IInv', Account, [Next]_vars PROVE Account'
    OBVIOUS
  <2>1. CASE UNCHANGED vars
    <3>1. UNCHANGED <<event, cron, job, mails, faults>> /\ faults \in Nat
      BY <2>1 DEF vars, IInv, TypeOK
    <3>2. \A r \in Rows : MayQueue(r)' => MayQueue(r)
      BY <3>1 DEF MayQueue, Is
    <3> QED
      BY <3>1, <3>2, TableBalance
  <2> QED
    BY <2>1, CallerBalances, TimeBalances, CronBalances, WorkerBalances DEF Next
<1>3. IInv /\ Account => ExtraMailsNeedFaults
  <2> SUFFICES ASSUME IInv, Account, NEW r \in Rows PROVE mails[r] <= 1 + faults
    BY DEF ExtraMailsNeedFaults
  <2>1. WillMail(r) \in SUBSET JobIds
    BY DEF WillMail
  <2>2. Cardinality(WillMail(r)) \in Nat
    BY <2>1, JobIdsFinite, FS_Subset, FS_CardinalityType
  <2>3. One(MayQueue(r)) \in Nat /\ mails[r] \in Nat /\ faults \in Nat
    BY DEF One, IInv, TypeOK
  <2>4. mails[r] + Cardinality(WillMail(r)) + One(MayQueue(r)) <= 1 + faults
    BY DEF Account
  <2> QED
    BY <2>2, <2>3, <2>4
<1>4. Spec => []Account
  BY <1>1, <1>2, PipelineInvariant, PTL DEF Spec
<1> QED
  BY <1>3, <1>4, PipelineInvariant, PTL

-----------------------------------------------------------------------------
(* What the debounce keys promise when the callers of one key wait for     *)
(* each other: nobody mails a change twice, and a retraction leaves        *)
(* nothing to be sent, whatever the flushes do between the statements of   *)
(* notify().                                                               *)


\* The callers at work are about different keys: each holds the row of its entity.
Alone ==
    \A x, z \in Callers :
        x # z /\ tx[x].at # "idle" /\ tx[z].at # "idle" => tx[x].key # tx[z].key

\* Until a caller commits, the pending rows it replaces are those it has
\* chosen, then those it has cancelled: no row of its key comes in between.
Covering ==
    \A x \in Callers :
        /\ tx[x].at = "cancel" => Matching(tx[x].type, tx[x].key) \subseteq tx[x].found
        /\ tx[x].at \in {"push", "commit"} /\ routing[tx[x].type].kind # "instant" =>
              Matching(tx[x].type, tx[x].key) \subseteq tx[x].hit

KeyInv == IInv /\ Alone /\ Covering /\ OnePendingPerKey

\* No row becomes pending, and none that is changes its key or its type.
NoNewPending ==
    \A r \in Rows : Is(r, "pending")' =>
        /\ Is(r, "pending")
        /\ event'[r].key = event[r].key /\ event'[r].type = event[r].type

-----------------------------------------------------------------------------
LEMMA MarkingAddsNone ==
    ASSUME IInv, NEW R, NEW status \in {"cancelled", "sent", "failed", "deleted"},
           event' = Marked(R, status)
    PROVE  NoNewPending
<1>1. \A r \in Rows :
         \/ event'[r] = event[r]
         \/ event'[r].status = status
  BY MarkedRows DEF IInv
<1> QED
  BY <1>1 DEF NoNewPending, Is

\* Everything but the commit of a caller only takes rows away.
LEMMA OthersAddNone ==
    ASSUME IInv, [Next]_vars, \A x \in Callers : ~Commit(x)
    PROVE  NoNewPending
<1>1. CASE UNCHANGED event
  BY <1>1 DEF NoNewPending, Is
<1>2. ASSUME NEW x \in Callers, NEW t \in Types, NEW k \in Keys, Begin(x, t, k)
      PROVE  UNCHANGED event
  BY <1>2 DEF Begin
<1>3. ASSUME NEW x \in Callers, Cancel(x) \/ Push(x) \/ PushFails(x) \/ Rollback(x)
      PROVE  UNCHANGED event
  BY <1>3 DEF Cancel, Push, PushFails, Rollback
<1>4. ASSUME NEW r \in Rows, Settle(r)
      PROVE  NoNewPending
  BY <1>4 DEF Settle, NoNewPending, Is, IInv, TypeOK, Row
<1>5. ASSUME NEW r \in Rows, Cleanup(r)
      PROVE  NoNewPending
  BY <1>5, MarkingAddsNone DEF Cleanup
<1>6. ASSUME NEW y \in Crons, Select(y) \/ Enqueue(y) \/ FlushAbort(y)
      PROVE  UNCHANGED event
  BY <1>6 DEF Select, Enqueue, FlushAbort
<1>7. ASSUME NEW y \in Crons, FlushCommit(y)
      PROVE  NoNewPending
  BY <1>7, MarkingAddsNone DEF FlushCommit
<1>8. ASSUME NEW j \in JobIds, Take(j) \/ SendEvent(j) \/ Suppress(j) \/ Throws(j) \/ Stall(j)
      PROVE  UNCHANGED event
  BY <1>8 DEF Take, SendEvent, Suppress, Throws, Stall
<1>9. ASSUME NEW j \in JobIds, Finish(j)
      PROVE  NoNewPending
  BY <1>9, MarkingAddsNone DEF Finish
<1>10. CASE UNCHANGED vars
  BY <1>1, <1>10 DEF vars
<1> QED
  BY <1>1, <1>2, <1>3, <1>4, <1>5, <1>6, <1>7, <1>8, <1>9, <1>10
     DEF Next, CallerStep, CronStep, WorkerStep

\* With no new pending row, what matches does not grow.
LEMMA MatchingShrinks ==
    ASSUME NoNewPending, NEW t, NEW k
    PROVE  Matching(t, k)' \subseteq Matching(t, k)
BY DEF NoNewPending, Matching, Replaced

LEMMA OnePendingStays ==
    ASSUME NoNewPending, OnePendingPerKey
    PROVE  OnePendingPerKey'
BY DEF NoNewPending, OnePendingPerKey, Is

-----------------------------------------------------------------------------
(* Each step keeps the keys apart and covered.                             *)

LEMMA StandstillCovers ==
    ASSUME KeyInv, NoNewPending, tx' = tx
    PROVE  Alone' /\ Covering' /\ OnePendingPerKey'
<1>1. Alone'
  BY DEF KeyInv, Alone
<1>2. Covering'
  BY MatchingShrinks DEF KeyInv, Covering
<1> QED
  BY <1>1, <1>2, OnePendingStays DEF KeyInv

LEMMA BeginCovers ==
    ASSUME KeyInv, Callers \subseteq Guarded,
           NEW x \in Callers, NEW t \in Types, NEW k \in Keys, Begin(x, t, k)
    PROVE  Alone' /\ Covering' /\ OnePendingPerKey'
<1>1. /\ event' = event
      /\ \A z \in Callers : tx[z].key # k
      /\ \A z \in Callers \ {x} : tx'[z] = tx[z]
  BY DEF Begin, KeyInv, IInv, TypeOK
<1>2. /\ tx'[x].type = t /\ tx'[x].key = k
      /\ tx'[x].at = IF routing[t].kind = "instant" THEN "push" ELSE "cancel"
      /\ routing[t].kind # "instant" => tx'[x].found = Matching(t, k)
  BY DEF Begin, Idle, KeyInv, IInv, TypeOK
<1>3. Alone'
  BY <1>1, <1>2 DEF KeyInv, Alone
<1>4. NoNewPending
  BY <1>1 DEF NoNewPending, Is
<1>5. \A u, v : Matching(u, v)' \subseteq Matching(u, v)
  BY <1>4, MatchingShrinks
<1>6. Covering'
  BY <1>1, <1>2, <1>5 DEF KeyInv, Covering
<1> QED
  BY <1>3, <1>4, <1>6, OnePendingStays DEF KeyInv

LEMMA CancelCovers ==
    ASSUME KeyInv, NEW x \in Callers, Cancel(x)
    PROVE  Alone' /\ Covering' /\ OnePendingPerKey'
<1>1. /\ event' = event /\ tx[x].at = "cancel"
      /\ \A z \in Callers \ {x} : tx'[z] = tx[z]
  BY DEF Cancel, KeyInv, IInv, TypeOK
<1>2. /\ tx'[x].type = tx[x].type /\ tx'[x].key = tx[x].key /\ tx'[x].at \in {"push", "commit"}
      /\ tx'[x].hit = { r \in tx[x].found : Is(r, "pending") }
  BY DEF Cancel, KeyInv, IInv, TypeOK, Transaction
<1>3. Alone'
  BY <1>1, <1>2 DEF KeyInv, Alone
<1>4. NoNewPending
  BY <1>1 DEF NoNewPending, Is
<1>5. \A u, v : Matching(u, v)' \subseteq Matching(u, v)
  BY <1>4, MatchingShrinks
<1>6. Matching(tx[x].type, tx[x].key) \subseteq tx'[x].hit
  BY <1>1, <1>2 DEF KeyInv, Covering, Matching
<1>7. Covering'
  BY <1>1, <1>2, <1>5, <1>6 DEF KeyInv, Covering
<1> QED
  BY <1>3, <1>4, <1>7, OnePendingStays DEF KeyInv

LEMMA PushCovers ==
    ASSUME KeyInv, NEW x \in Callers, Push(x) \/ PushFails(x)
    PROVE  Alone' /\ Covering' /\ OnePendingPerKey'
<1>1. event' = event /\ tx[x].at = "push" /\ tx' = [tx EXCEPT ![x].at = "commit"]
  BY DEF Push, PushFails
<1>2. /\ \A z \in Callers \ {x} : tx'[z] = tx[z]
      /\ tx'[x].at = "commit" /\ tx'[x].type = tx[x].type /\ tx'[x].key = tx[x].key
      /\ tx'[x].hit = tx[x].hit
  BY <1>1 DEF KeyInv, IInv, TypeOK, Transaction
<1>3. Alone'
  BY <1>1, <1>2 DEF KeyInv, Alone
<1>4. NoNewPending
  BY <1>1 DEF NoNewPending, Is
<1>5. \A u, v : Matching(u, v)' \subseteq Matching(u, v)
  BY <1>4, MatchingShrinks
<1>6. Covering'
  BY <1>1, <1>2, <1>5 DEF KeyInv, Covering
<1> QED
  BY <1>3, <1>4, <1>6, OnePendingStays DEF KeyInv

LEMMA RollbackCovers ==
    ASSUME KeyInv, NEW x \in Callers, Rollback(x)
    PROVE  Alone' /\ Covering' /\ OnePendingPerKey'
<1>1. event' = event /\ tx' = [tx EXCEPT ![x] = Idle] /\ Idle.at = "idle"
  BY DEF Rollback, Idle
<1>2. tx'[x].at = "idle" /\ \A z \in Callers \ {x} : tx'[z] = tx[z]
  BY <1>1 DEF KeyInv, IInv, TypeOK
<1>3. Alone'
  BY <1>2 DEF KeyInv, Alone
<1>4. NoNewPending
  BY <1>1 DEF NoNewPending, Is
<1>5. \A u, v : Matching(u, v)' \subseteq Matching(u, v)
  BY <1>4, MatchingShrinks
<1>6. Covering'
  BY <1>2, <1>5 DEF KeyInv, Covering
<1> QED
  BY <1>3, <1>4, <1>6, OnePendingStays DEF KeyInv


\* What a caller leaves behind when it commits: its row, and nothing else, waits
\* under its key with one of the types it replaces.
LEMMA CommitReplaces ==
    ASSUME KeyInv, NEW x \in Callers, Commit(x), routing[tx[x].type].kind # "instant",
           NEW r \in Rows, Is(r, "pending"), event[r].key = tx[x].key,
           event[r].type \in Replaced(tx[x].type)
    PROVE  ~Is(r, "pending")'
<1>1. r \in tx[x].hit
  <2>1. tx[x].at = "commit"
    BY DEF Commit
  <2>2. r \in Matching(tx[x].type, tx[x].key)
    BY DEF Matching
  <2> QED
    BY <2>1, <2>2 DEF KeyInv, Covering
<1> DEFINE cancelled == Marked(tx[x].hit, "cancelled")
<1>2. Exists(r)
  BY DEF Is, Exists
<1>3. cancelled[r].status = "cancelled"
  <2>1. \A q \in Rows : q \in tx[x].hit /\ Exists(q) => Marked(tx[x].hit, "cancelled")[q].status = "cancelled"
    BY MarkedRows DEF KeyInv, IInv
  <2> QED
    BY <1>1, <1>2, <2>1
<1>4. \A q \in Rows : Lowest(q, Unwritten) => q # r
  BY DEF Lowest, Unwritten, Is
<1>5. event'[r] = cancelled[r]
  <2>1. cancelled \in [Rows -> Row \cup {None}]
    BY MarkedRows DEF KeyInv, IInv
  <2> HIDE DEF cancelled
  <2>2. CASE Debounced(tx[x].type)
    <3>1. PICK q \in Rows :
            /\ Lowest(q, Unwritten)
            /\ event' = [cancelled EXCEPT ![q] =
                  [type |-> tx[x].type, key |-> tx[x].key, settled |-> FALSE, status |-> "pending"]]
      BY <2>2 DEF Commit, cancelled
    <3> QED
      BY <1>4, <2>1, <3>1
  <2>3. CASE ~Debounced(tx[x].type)
    BY <2>3 DEF Commit, cancelled
  <2> QED
    BY <2>2, <2>3
<1> QED
  BY <1>3, <1>5 DEF Is

\* The rows that are pending after a commit were pending before it, but for the
\* one the caller wrote.
LEMMA CommitWrites ==
    ASSUME KeyInv, NEW x \in Callers, Commit(x)
    PROVE  \/ NoNewPending
           \/ /\ Debounced(tx[x].type)
              /\ \E n \in Rows :
                    /\ event'[n].key = tx[x].key /\ event'[n].type = tx[x].type
                    /\ \A r \in Rows \ {n} : Is(r, "pending")' =>
                          /\ Is(r, "pending")
                          /\ event'[r].key = event[r].key /\ event'[r].type = event[r].type
<1> DEFINE cancelled == Marked(tx[x].hit, "cancelled")
<1>1. cancelled \in [Rows -> Row \cup {None}]
  BY MarkedRows DEF KeyInv, IInv
<1>2. \A r \in Rows : cancelled[r] = event[r] \/ cancelled[r].status = "cancelled"
  BY MarkedRows DEF KeyInv, IInv
<1>3. CASE ~Debounced(tx[x].type)
  <2>1. event' = Marked(tx[x].hit, "cancelled")
    BY <1>3 DEF Commit
  <2> QED
    BY <2>1, MarkingAddsNone DEF KeyInv
<1>4. CASE Debounced(tx[x].type)
  <2> DEFINE row == [type |-> tx[x].type, key |-> tx[x].key, settled |-> FALSE, status |-> "pending"]
  <2>1. PICK n \in Rows : event' = [cancelled EXCEPT ![n] = row]
    BY <1>4 DEF Commit
  <2>2. row.key = tx[x].key /\ row.type = tx[x].type
    OBVIOUS
  <2> HIDE DEF cancelled, row
  <2>3. event'[n] = row /\ \A r \in Rows \ {n} : event'[r] = cancelled[r]
    BY <1>1, <2>1
  <2>4. \A r \in Rows \ {n} : Is(r, "pending")' =>
           /\ Is(r, "pending")
           /\ event'[r].key = event[r].key /\ event'[r].type = event[r].type
    BY <1>2, <2>3 DEF Is
  <2> QED
    BY <1>4, <2>2, <2>3, <2>4
<1> QED
  BY <1>3, <1>4

LEMMA CommitCovers ==
    ASSUME KeyInv, NEW x \in Callers, Commit(x)
    PROVE  Alone' /\ Covering' /\ OnePendingPerKey'
<1>1. tx[x].at = "commit" /\ tx' = [tx EXCEPT ![x] = Idle] /\ Idle.at = "idle"
  BY DEF Commit, Idle
<1>2. tx'[x].at = "idle" /\ \A z \in Callers \ {x} : tx'[z] = tx[z]
  BY <1>1 DEF KeyInv, IInv, TypeOK
<1>3. Alone'
  BY <1>2 DEF KeyInv, Alone
<1>4. CASE NoNewPending
  <2>1. \A u, v : Matching(u, v)' \subseteq Matching(u, v)
    BY <1>4, MatchingShrinks
  <2>2. Covering'
    BY <1>2, <2>1 DEF KeyInv, Covering
  <2> QED
    BY <1>3, <1>4, <2>2, OnePendingStays DEF KeyInv
<1>5. CASE ~NoNewPending
  <2>1. Debounced(tx[x].type)
    BY <1>5, CommitWrites
  <2>2. PICK n \in Rows :
           /\ event'[n].key = tx[x].key /\ event'[n].type = tx[x].type
           /\ \A r \in Rows \ {n} : Is(r, "pending")' =>
                 /\ Is(r, "pending")
                 /\ event'[r].key = event[r].key /\ event'[r].type = event[r].type
    BY <1>5, CommitWrites
  <2>3. ASSUME NEW u, NEW v, v # tx[x].key
        PROVE  Matching(u, v)' \subseteq Matching(u, v)
    <3>1. ASSUME NEW r \in Matching(u, v)'
          PROVE  r \in Matching(u, v)
      <4>1. r \in Rows /\ Is(r, "pending")' /\ event'[r].key = v /\ event'[r].type \in Replaced(u)
        BY <3>1 DEF Matching, Replaced
      <4>2. r # n
        BY <2>2, <2>3, <4>1
      <4> QED
        BY <2>2, <4>1, <4>2 DEF Matching
    <3> QED
      BY <3>1
  <2>4. Covering'
    <3>1. ASSUME NEW z \in Callers, tx'[z].at # "idle"
          PROVE  /\ tx[z] = tx'[z]
                 /\ Matching(tx[z].type, tx[z].key)' \subseteq Matching(tx[z].type, tx[z].key)
      <4>1. z # x /\ tx[z] = tx'[z]
        BY <1>2, <3>1
      <4>2. tx[z].key # tx[x].key
        BY <1>1, <3>1, <4>1 DEF KeyInv, Alone
      <4> QED
        BY <2>3, <4>1, <4>2
    <3> QED
      BY <3>1 DEF KeyInv, Covering
  <2>5. ASSUME NEW r \in Rows \ {n}, Is(r, "pending")', event'[r].key = tx[x].key,
               event'[r].type = tx[x].type
        PROVE  FALSE
    <3>1. /\ routing[tx[x].type].kind # "instant"
          /\ event[r].type \in Replaced(tx[x].type)
      BY <2>1, <2>2, <2>5 DEF Debounced, Replaced
    <3> QED
      BY <2>2, <2>5, <3>1, CommitReplaces
  <2>6. OnePendingPerKey'
    <3> SUFFICES ASSUME NEW q \in Rows, NEW r \in Rows, Is(q, "pending")', Is(r, "pending")',
                        event'[q].key = event'[r].key, event'[q].type = event'[r].type
                 PROVE  q = r
      BY DEF OnePendingPerKey
    <3>1. CASE q = n \/ r = n
      BY <2>2, <2>5, <3>1
    <3>2. CASE q # n /\ r # n
      BY <2>2, <3>2 DEF KeyInv, OnePendingPerKey
    <3> QED
      BY <3>1, <3>2
  <2> QED
    BY <1>3, <2>4, <2>6
<1> QED
  BY <1>4, <1>5

LEMMA KeyStep ==
    ASSUME KeyInv, [Next]_vars, Callers \subseteq Guarded
    PROVE  KeyInv'
<1>1. IInv'
  BY NextIInv DEF KeyInv
<1>2. ASSUME NEW x \in Callers, NEW t \in Types, NEW k \in Keys, Begin(x, t, k)
      PROVE  KeyInv'
  BY <1>1, <1>2, BeginCovers DEF KeyInv
<1>3. ASSUME NEW x \in Callers, CallerStep(x) \/ PushFails(x) \/ Rollback(x)
      PROVE  KeyInv'
  BY <1>1, <1>3, CancelCovers, PushCovers, CommitCovers, RollbackCovers DEF KeyInv, CallerStep
<1>4. CASE tx' = tx /\ \A x \in Callers : ~Commit(x)
  BY <1>1, <1>4, OthersAddNone, StandstillCovers DEF KeyInv
<1>5. CASE tx' = tx
  <2>1. \A x \in Callers : ~Commit(x)
    <3> SUFFICES ASSUME NEW x \in Callers, Commit(x)
                 PROVE  FALSE
      OBVIOUS
    <3>1. tx'[x].at = "idle" /\ tx[x].at = "commit"
      BY DEF Commit, Idle, KeyInv, IInv, TypeOK
    <3> QED
      BY <1>5, <3>1
  <2> QED
    BY <1>4, <1>5, <2>1
<1>6. ASSUME NEW r \in Rows, Settle(r) \/ Cleanup(r)
      PROVE  tx' = tx
  BY <1>6 DEF Settle, Cleanup
<1>7. ASSUME NEW y \in Crons, CronStep(y) \/ FlushAbort(y)
      PROVE  tx' = tx
  BY <1>7 DEF CronStep, Select, Enqueue, FlushCommit, FlushAbort
<1>8. ASSUME NEW j \in JobIds, WorkerStep(j) \/ Suppress(j) \/ Throws(j) \/ Stall(j)
      PROVE  tx' = tx
  BY <1>8 DEF WorkerStep, Take, SendEvent, Finish, Suppress, Throws, Stall
<1>9. CASE UNCHANGED vars
  BY <1>5, <1>9 DEF vars
<1> QED
  BY <1>2, <1>3, <1>5, <1>6, <1>7, <1>8, <1>9 DEF Next

LEMMA KeyInvHolds ==
    ASSUME Callers \subseteq Guarded
    PROVE  Spec => []KeyInv
<1>1. Init => KeyInv
  BY InitIInv DEF Init, Idle, KeyInv, Alone, Covering, OnePendingPerKey, Is
<1>2. KeyInv /\ [Next]_vars => KeyInv'
  BY KeyStep
<1> QED
  BY <1>1, <1>2, PTL DEF Spec

(* Of one key and type at most one row is pending when the callers of a    *)
(* key hold the row of its entity: a burst of changes is one mail (the     *)
(* debounced branch of notify()).                                          *)
THEOREM BurstsAreOneMail ==
    ASSUME Callers \subseteq Guarded
    PROVE  Spec => []OnePendingPerKey
<1>1. KeyInv => OnePendingPerKey
  BY DEF KeyInv
<1> QED
  BY <1>1, KeyInvHolds, PTL

(* When a retraction commits, nothing it retracts is pending: the flush    *)
(* cannot send it later (the cancelling branch of notify()).               *)
THEOREM RetractionsAreFinal ==
    ASSUME Callers \subseteq Guarded
    PROVE  Spec => RetractionLeavesNothing
<1>1. ASSUME KeyInv, NEW x \in Callers, Commit(x), routing[tx[x].type].kind = "cancellation",
             NEW r \in Rows, Is(r, "pending")', event'[r].key = tx[x].key,
             event'[r].type \in routing[tx[x].type].cancels
      PROVE  FALSE
  <2>1. NoNewPending
    BY <1>1, CommitWrites DEF Debounced
  <2>2. /\ Is(r, "pending") /\ event[r].key = tx[x].key
        /\ event[r].type \in Replaced(tx[x].type)
    BY <1>1, <2>1 DEF NoNewPending, Replaced
  <2> QED
    BY <1>1, <2>2, CommitReplaces
<1>2. KeyInv /\ [Next]_vars =>
        [\A x \in Callers :
            Commit(x) /\ routing[tx[x].type].kind = "cancellation" =>
                ~\E r \in Rows : /\ Is(r, "pending")' /\ event'[r].key = tx[x].key
                                 /\ event'[r].type \in routing[tx[x].type].cancels]_vars
  BY <1>1
<1> QED
  BY <1>2, KeyInvHolds, PTL DEF Spec, RetractionLeavesNothing
=============================================================================
