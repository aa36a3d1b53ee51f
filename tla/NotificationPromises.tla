------------------------ MODULE NotificationPromises ------------------------
(***************************************************************************)
(* What a debounced notification promises, without transactions, cron and  *)
(* queue: it waits, then it is withdrawn or handed over, and a mail is     *)
(* about one that was handed over.                                         *)
(***************************************************************************)
EXTENDS Naturals

CONSTANT Rows

VARIABLES
    promise,   \* promise[r]: what became of notification r
    mails      \* mails[r]: the mails about it

vars == <<promise, mails>>

Places == {"absent", "waiting", "withdrawn", "handed"}

Init ==
    /\ promise = [r \in Rows |-> "absent"]
    /\ mails = [r \in Rows |-> 0]

Lifecycle == {<<"absent", "waiting">>, <<"waiting", "withdrawn">>, <<"waiting", "handed">>}

\* One transaction may withdraw a notification and make another one wait; one
\* digest hands several over.
Advance ==
    /\ promise' \in [Rows -> Places]
    /\ \A r \in Rows : promise'[r] # promise[r] => <<promise[r], promise'[r]>> \in Lifecycle
    /\ UNCHANGED mails

Deliver(r) ==
    /\ promise[r] = "handed"
    /\ mails' = [mails EXCEPT ![r] = @ + 1]
    /\ UNCHANGED promise

Next == Advance \/ \E r \in Rows : Deliver(r)

Spec == Init /\ [][Next]_vars

=============================================================================
