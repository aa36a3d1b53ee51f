------------------------ MODULE NotificationPipeline ------------------------
(***************************************************************************)
(* From notify() to the mail: the table NotificationEvent, the cron that   *)
(* turns settled rows in digest jobs, and the worker of the e-mail queue.  *)
(*                                                                         *)
(* notify() runs in the transaction of its caller and is cut here at its   *)
(* statements: an updateMany chooses its rows when it begins (Begin),      *)
(* waits for their locks and looks at them again (Cancel), as READ         *)
(* COMMITTED does; the row it inserts is seen when it commits.  The cron   *)
(* adds its jobs to Redis before its transaction commits, so a job         *)
(* outlives the rollback of the flush, and the worker may be done with it  *)
(* before the rows are marked.                                             *)
(***************************************************************************)
EXTENDS Integers, FiniteSets

CONSTANTS
    Callers,      \* transactions that call notify()
    Crons,        \* runs of /cron/process-notifications that may overlap
    Keys,         \* debounce keys: an entity and a recipient
    digestOf,     \* digestOf[k]: the digest of a key (congregation, recipient, family of types)
    Types, routing,   \* routing[t]: how the registry routes type t
    Guarded,      \* the callers that hold the lock of the entity's row until they commit
    None,
    MaxRows,      \* bound: rows of NotificationEvent
    MaxDigests, MaxInstants,   \* bounds: jobs of each kind in the queue at one time
    BatchSize,    \* LIMIT of the flush
    Attempts,     \* EMAIL_QUEUE_ATTEMPTS
    MaxFaults     \* bound: rollbacks, crashes and exceptions in a behaviour

Rows == 1..MaxRows
DigestIds == 1..MaxDigests
InstantIds == (MaxDigests + 1)..(MaxDigests + MaxInstants)
JobIds == DigestIds \cup InstantIds

\* A routing cancels pending rows of other types, or is debounced, or instant.
Routing == [kind : {"cancellation", "debounced", "instant"}, cancels : SUBSET Types]

Row == [type : Types, key : Keys, settled : BOOLEAN,
        status : {"pending", "cancelled", "sent", "failed", "deleted"}]

\* A digest has rows, an instant notification has none.
Job ==
    [ at : {"waiting", "active", "dead"}, rows : SUBSET Rows,
      todo : SUBSET Rows, refused : SUBSET Rows, left : 0..Attempts, stalled : BOOLEAN ]

ASSUME PipelineAssumption ==
    /\ MaxRows \in Nat /\ MaxDigests \in Nat /\ MaxInstants \in Nat
    /\ BatchSize \in Nat \ {0} /\ Attempts \in Nat \ {0} /\ MaxFaults \in Nat
    /\ routing \in [Types -> Routing]
    /\ DOMAIN digestOf = Keys /\ Guarded \subseteq Callers
    /\ None \notin Types \cup Keys \cup Row \cup Job

VARIABLES
    event,     \* the committed rows of NotificationEvent
    tx,        \* tx[x]: where the transaction of caller x is
    cron,      \* cron[y]: where the flush y is
    job,       \* the e-mail queue
    faults,    \* what went wrong so far
    handed,    \* history: the rows that were ever put in a job
    orphan,    \* history: the rows put in a job by a flush that rolled back
    skipped,   \* history: the rows that were not mailed on purpose
    mails      \* history: how often the event of a row was mailed

vars == <<event, tx, cron, job, faults, handed, orphan, skipped, mails>>
history == <<handed, orphan, skipped, mails>>

Transaction ==
    [ at : {"idle", "cancel", "push", "commit"},
      type : Types \cup {None}, key : Keys \cup {None},
      found : SUBSET Rows,       \* the rows the updateMany will look at
      hit : SUBSET Rows ]        \* the rows it cancelled, locked until the end

Flush ==
    [ at : {"idle", "enqueue", "commit"},
      batch : SUBSET Rows,       \* the rows selected and locked
      queued : SUBSET Rows ]     \* those that are in a job by now

Idle == [at |-> "idle", type |-> None, key |-> None, found |-> {}, hit |-> {}]
Resting == [at |-> "idle", batch |-> {}, queued |-> {}]

Init ==
    /\ event = [r \in Rows |-> None]
    /\ tx = [x \in Callers |-> Idle]
    /\ cron = [y \in Crons |-> Resting]
    /\ job = [j \in JobIds |-> None]
    /\ faults = 0
    /\ handed = {} /\ orphan = {} /\ skipped = {}
    /\ mails = [r \in Rows |-> 0]

-----------------------------------------------------------------------------
Is(r, status) == event[r] # None /\ event[r].status = status

\* The locks: a flush holds its batch, a caller the rows it cancelled.
HeldByCrons == UNION { cron[y].batch : y \in Crons }
HeldByCallers == UNION { tx[x].hit : x \in Callers }
Held == HeldByCrons \cup HeldByCallers

\* The table once the rows R that still exist have that status.
Exists(r) == event[r] # None /\ event[r].status # "deleted"
Marked(R, status) ==
    [r \in Rows |-> IF r \in R /\ Exists(r) THEN [event[r] EXCEPT !.status = status] ELSE event[r]]

Unwritten == { r \in Rows : event[r] = None }
Free(ids) == { j \in ids : job[j] = None }

Lowest(n, S) == n \in S /\ \A m \in S : n <= m

\* emailQueue.add
AddJob(ids, R) ==
    \E j \in JobIds :
        /\ Lowest(j, Free(ids))
        /\ job' = [job EXCEPT ![j] = [at |-> "waiting", rows |-> R, todo |-> {}, refused |-> {},
                                     left |-> Attempts, stalled |-> FALSE]]

Fault == faults < MaxFaults /\ faults' = faults + 1

-----------------------------------------------------------------------------
(* notify(), in the transaction of its caller.                             *)

\* The types whose pending rows the first updateMany cancels: those the
\* routing names, or, for a debounced type, the type itself.
Replaced(t) == IF routing[t].kind = "cancellation" THEN routing[t].cancels ELSE {t}

\* Mutant: only rows that have not settled are replaced.
MatchingUnsettled(t, k) ==
    { r \in Rows : /\ Is(r, "pending") /\ ~event[r].settled
                   /\ event[r].key = k /\ event[r].type \in Replaced(t) }

Matching(t, k) ==
    { r \in Rows : Is(r, "pending") /\ event[r].key = k /\ event[r].type \in Replaced(t) }

Debounced(t) == routing[t].kind = "debounced"
Debouncing == { x \in Callers : tx[x].at # "idle" /\ Debounced(tx[x].type) }

\* A guarded caller waits for the entity's row first; its notify() comes later
\* in the transaction, and the updateMany chooses its rows.
Begin(x, t, k) ==
    /\ tx[x].at = "idle"
    /\ Debounced(t) => Cardinality(Debouncing) < Cardinality(Unwritten)
    /\ x \in Guarded => \A z \in Guarded : tx[z].key # k
    /\ tx' = [tx EXCEPT ![x] =
          IF routing[t].kind = "instant"
          THEN [Idle EXCEPT !.at = "push", !.type = t, !.key = k]
          ELSE [Idle EXCEPT !.at = "cancel", !.type = t, !.key = k, !.found = Matching(t, k)]]
    /\ UNCHANGED <<event, cron, job, faults, history>>

\* Mutant: rows are cancelled whoever holds them.
CancelUnlocked(x) ==
    LET hit == { r \in tx[x].found : Is(r, "pending") }
    IN  /\ tx[x].at = "cancel"
        /\ tx' = [tx EXCEPT
              ![x].at = IF Debounced(tx[x].type) \/ hit # {} THEN "commit" ELSE "push",
              ![x].found = {}, ![x].hit = hit]
        /\ UNCHANGED <<event, cron, job, faults, history>>

\* Mutant: rows that somebody holds are skipped.
CancelSkipLocked(x) ==
    LET hit == { r \in tx[x].found : Is(r, "pending") } \ Held
    IN  /\ tx[x].at = "cancel"
        /\ tx' = [tx EXCEPT
              ![x].at = IF Debounced(tx[x].type) \/ hit # {} THEN "commit" ELSE "push",
              ![x].found = {}, ![x].hit = hit]
        /\ UNCHANGED <<event, cron, job, faults, history>>

\* The rows that are still pending once nobody else holds them.  A
\* cancellation that finds none falls back on an instant notification.
Cancel(x) ==
    LET hit == { r \in tx[x].found : Is(r, "pending") }
    IN  /\ tx[x].at = "cancel"
        /\ tx[x].found \cap Held = {}
        /\ tx' = [tx EXCEPT
              ![x].at = IF Debounced(tx[x].type) \/ hit # {} THEN "commit" ELSE "push",
              ![x].found = {}, ![x].hit = hit]
        /\ UNCHANGED <<event, cron, job, faults, history>>

\* The job is in Redis before the transaction commits.
Push(x) ==
    /\ tx[x].at = "push"
    /\ AddJob(InstantIds, {})
    /\ tx' = [tx EXCEPT ![x].at = "commit"]
    /\ UNCHANGED <<event, cron, faults, history>>

\* An error of the queue is logged and swallowed.
PushFails(x) ==
    /\ tx[x].at = "push"
    /\ Fault
    /\ tx' = [tx EXCEPT ![x].at = "commit"]
    /\ UNCHANGED <<event, cron, job, history>>

\* Others see what the transaction wrote: the cancelled rows and the new one.
Commit(x) ==
    LET cancelled == Marked(tx[x].hit, "cancelled")
    IN  /\ tx[x].at = "commit"
        /\ IF Debounced(tx[x].type)
           THEN \E r \in Rows :
                   /\ Lowest(r, Unwritten)
                   /\ event' = [cancelled EXCEPT ![r] =
                         [type |-> tx[x].type, key |-> tx[x].key, settled |-> FALSE,
                          status |-> "pending"]]
           ELSE event' = cancelled
        /\ tx' = [tx EXCEPT ![x] = Idle]
        /\ UNCHANGED <<cron, job, faults, history>>

Rollback(x) ==
    /\ tx[x].at # "idle"
    /\ Fault
    /\ tx' = [tx EXCEPT ![x] = Idle]
    /\ UNCHANGED <<event, cron, job, history>>

\* debounceUntil passes.
Settle(r) ==
    /\ Is(r, "pending") /\ ~event[r].settled
    /\ event' = [event EXCEPT ![r].settled = TRUE]
    /\ UNCHANGED <<tx, cron, job, faults, history>>

-----------------------------------------------------------------------------
(* flushSettledNotifications(), one transaction.                           *)

\* Mutant: the rows are selected without a lock.
SelectableByAll == { r \in Rows : Is(r, "pending") /\ event[r].settled }

\* FOR UPDATE SKIP LOCKED, the oldest first.
Selectable == { r \in Rows : Is(r, "pending") /\ event[r].settled } \ Held

Select(y) ==
    /\ cron[y].at = "idle"
    /\ Selectable # {}
    /\ cron' = [cron EXCEPT ![y] =
          [at |-> "enqueue", queued |-> {},
           batch |-> { r \in Selectable :
                         Cardinality({ q \in Selectable : q < r }) < BatchSize }]]
    /\ UNCHANGED <<event, tx, job, faults, history>>

\* One digest for each group, the groups in the order of their first row.
Enqueue(y) ==
    \E first \in Rows :
        LET rest == cron[y].batch \ cron[y].queued
            group == { r \in rest : digestOf[event[r].key] = digestOf[event[first].key] }
        IN  /\ cron[y].at = "enqueue"
            /\ Lowest(first, rest)
            /\ AddJob(DigestIds, group)
            /\ handed' = handed \cup group
            /\ cron' = [cron EXCEPT ![y].queued = @ \cup group,
                                   ![y].at = IF rest = group THEN "commit" ELSE "enqueue"]
            /\ UNCHANGED <<event, tx, faults, orphan, skipped, mails>>

\* Mutant: the rows are marked before their jobs are added.
FlushCommitFirst(y) ==
    /\ cron[y].at # "idle"
    /\ event' = Marked(cron[y].batch, "sent")
    /\ cron' = [cron EXCEPT ![y] = Resting]
    /\ UNCHANGED <<tx, job, faults, history>>

FlushCommit(y) ==
    /\ cron[y].at = "commit"
    /\ event' = Marked(cron[y].batch, "sent")
    /\ cron' = [cron EXCEPT ![y] = Resting]
    /\ UNCHANGED <<tx, job, faults, history>>

\* A crash, or an error of Redis or of the database: the rows are pending
\* again, the jobs that were added stay.
FlushAbort(y) ==
    /\ cron[y].at # "idle"
    /\ Fault
    /\ orphan' = orphan \cup cron[y].queued
    /\ cron' = [cron EXCEPT ![y] = Resting]
    /\ UNCHANGED <<event, tx, job, handed, skipped, mails>>

-----------------------------------------------------------------------------
(* The worker.                                                             *)

Active(j) == job[j] # None /\ job[j].at = "active"

\* Mutant: an attempt is not counted when it begins.
TakeUncounted(j) ==
    /\ job[j] # None /\ job[j].at = "waiting"
    /\ job' = [job EXCEPT ![j].at = "active", ![j].todo = job[j].rows, ![j].refused = {}]
    /\ UNCHANGED <<event, tx, cron, faults, history>>

Take(j) ==
    /\ job[j] # None /\ job[j].at = "waiting"
    /\ job' = [job EXCEPT ![j].at = "active", ![j].todo = job[j].rows, ![j].refused = {},
                          ![j].left = @ - 1]
    /\ UNCHANGED <<event, tx, cron, faults, history>>

\* The congregation is suspended: the job ends, the rows stay as they are.
Suppress(j) ==
    /\ Active(j) /\ job[j].todo = job[j].rows
    /\ job' = [job EXCEPT ![j] = None]
    /\ skipped' = skipped \cup job[j].rows
    /\ UNCHANGED <<event, tx, cron, faults, handed, orphan, mails>>

\* The next event of the digest.  Its mail is sent; or the recipient is gone
\* or does not want it; or rendering or sending fails, for every recipient or
\* for some of them.
SendEvent(j) ==
    \E r \in Rows, mailed, fails \in BOOLEAN :
        /\ Active(j) /\ Lowest(r, job[j].todo)
        /\ job' = [job EXCEPT ![j].todo = @ \ {r},
                              ![j].refused = IF fails THEN @ \cup {r} ELSE @]
        /\ mails' = IF mailed THEN [mails EXCEPT ![r] = @ + 1] ELSE mails
        /\ skipped' = IF mailed \/ fails THEN skipped ELSE skipped \cup {r}
        /\ UNCHANGED <<event, tx, cron, faults, handed, orphan>>

\* Mutant: the refused rows are not marked.
FinishUnmarked(j) ==
    /\ Active(j) /\ job[j].todo = {}
    /\ job' = [job EXCEPT ![j] = None]
    /\ UNCHANGED <<event, tx, cron, faults, history>>

\* The end of a digest: the refused rows are marked, whatever their status,
\* once nobody holds them.  An instant notification ends here too.
Finish(j) ==
    /\ Active(j) /\ job[j].todo = {}
    /\ job[j].refused \cap Held = {}
    /\ event' = Marked(job[j].refused, "failed")
    /\ job' = [job EXCEPT ![j] = None]
    /\ UNCHANGED <<tx, cron, faults, history>>

\* The exceptions a handler lets through: of the query of the congregation at
\* the start, of the mailer for one instant recipient, of the last update.
\* BullMQ tries again while there are attempts left.
Throws(j) ==
    /\ Active(j)
    /\ job[j].todo = job[j].rows \/ (job[j].todo = {} /\ job[j].refused # {})
    /\ Fault
    /\ job' = [job EXCEPT ![j].at = IF job[j].left > 0 THEN "waiting" ELSE "dead"]
    /\ UNCHANGED <<event, tx, cron, history>>

\* The worker crashes: BullMQ gives a stalled job to a worker once more.
Stall(j) ==
    /\ Active(j)
    /\ Fault
    /\ job' = [job EXCEPT ![j].at = IF job[j].stalled THEN "dead" ELSE "waiting",
                          ![j].stalled = TRUE, ![j].left = @ + 1]
    /\ UNCHANGED <<event, tx, cron, history>>

\* cleanupNotificationEvents, for a row that is old enough.
Cleanup(r) ==
    /\ event[r] # None /\ event[r].status \in {"sent", "cancelled", "failed"}
    /\ r \notin Held
    /\ event' = Marked({r}, "deleted")
    /\ UNCHANGED <<tx, cron, job, faults, history>>

-----------------------------------------------------------------------------
CallerStep(x) == Cancel(x) \/ Push(x) \/ Commit(x)
CronStep(y) == Select(y) \/ Enqueue(y) \/ FlushCommit(y)
WorkerStep(j) == Take(j) \/ SendEvent(j) \/ Finish(j)

Next ==
    \/ \E x \in Callers :
          \/ \E t \in Types, k \in Keys : Begin(x, t, k)
          \/ CallerStep(x) \/ PushFails(x) \/ Rollback(x)
    \/ \E r \in Rows : Settle(r) \/ Cleanup(r)
    \/ \E y \in Crons : CronStep(y) \/ FlushAbort(y)
    \/ \E j \in JobIds : WorkerStep(j) \/ Suppress(j) \/ Throws(j) \/ Stall(j)

\* PostgreSQL ends the transactions, the cron is called every few minutes and
\* the worker takes what the queue has.
Fairness ==
    /\ \A x \in Callers : WF_vars(CallerStep(x))
    /\ \A r \in Rows : WF_vars(Settle(r))
    /\ \A y \in Crons : WF_vars(CronStep(y))
    /\ \A j \in JobIds : WF_vars(WorkerStep(j))

Spec == Init /\ [][Next]_vars /\ Fairness

-----------------------------------------------------------------------------
(* What the pipeline promises, row by row: NotificationPromises.  A row is *)
(* handed over when it enters a job; what a flush that rolled back handed  *)
(* over cannot be taken back.                                              *)

TakenBack(r) == Is(r, "cancelled") /\ r \notin orphan

Promised(r) ==
    CASE event[r] = None -> "absent"
      [] event[r] # None /\ r \in handed /\ ~TakenBack(r) -> "handed"
      [] Is(r, "pending") /\ r \notin handed -> "waiting"
      [] OTHER -> "withdrawn"

Promises == INSTANCE NotificationPromises WITH promise <- [r \in Rows |-> Promised(r)]

\* The pipeline keeps the promises: a row leaves the state of waiting once,
\* withdrawn by a cancellation or handed over to the worker, never both, and
\* only what was handed over is mailed.
KeepsPromises == Promises!Spec

-----------------------------------------------------------------------------
TypeOK ==
    /\ event \in [Rows -> Row \cup {None}]
    /\ tx \in [Callers -> Transaction]
    /\ cron \in [Crons -> Flush]
    /\ job \in [JobIds -> Job \cup {None}]
    /\ faults \in 0..MaxFaults
    /\ handed \subseteq Rows /\ orphan \subseteq handed /\ skipped \subseteq handed
    /\ mails \in [Rows -> Nat]

\* The event of a row is mailed once; every further mail costs a rollback of
\* the flush, a crash of the worker or an exception.  Overlapping runs of the
\* cron and the retries of the queue add none.
ExtraMailsNeedFaults == \A r \in Rows : mails[r] <= 1 + faults

\* A row that reads 'sent' was mailed, or skipped on purpose, or is in a job
\* that still exists: the flush marks nothing that it did not queue.
NothingSentIsLost ==
    \A r \in Rows : Is(r, "sent") =>
        \/ mails[r] > 0 \/ r \in skipped
        \/ \E j \in JobIds : job[j] # None /\ r \in job[j].rows

\* "Replace any existing pending event with the same key and type": of one key
\* and type at most one row is pending, so a burst of changes is one mail.
OnePendingPerKey ==
    \A q, r \in Rows :
        (Is(q, "pending") /\ Is(r, "pending") /\ event[q].key = event[r].key
            /\ event[q].type = event[r].type) => q = r

\* When a cancellation commits, no row of the types it cancels is pending under
\* its key: the mail it retracts is not sent later, whatever the flush did
\* between its statements.
RetractionLeavesNothing ==
    [][\A x \in Callers :
          Commit(x) /\ routing[tx[x].type].kind = "cancellation" =>
              ~\E r \in Rows : /\ Is(r, "pending")' /\ event'[r].key = tx[x].key
                               /\ event'[r].type \in routing[tx[x].type].cancels]_vars

\* Every pending row is cancelled, mailed, skipped on purpose or marked failed
\* in the end, or is in a job the queue gave up.
EveryRowIsAnswered ==
    \A r \in Rows : Is(r, "pending") ~>
        \/ mails[r] > 0 \/ r \in skipped
        \/ Is(r, "cancelled") \/ Is(r, "failed") \/ Is(r, "deleted")
        \/ \E j \in JobIds : job[j] # None /\ job[j].at = "dead" /\ r \in job[j].rows

=============================================================================
