---------------------- MODULE MCNotificationPipeline ----------------------
(***************************************************************************)
(* Instances of NotificationPipeline for TLC.                              *)
(***************************************************************************)
EXTENDS NotificationPipeline, TLC

\* The routing of board.document.created, .updated and .deleted.
BoardRouting ==
    "created" :> [kind |-> "debounced", cancels |-> {}]
    @@ "updated" :> [kind |-> "debounced", cancels |-> {}]
    @@ "deleted" :> [kind |-> "cancellation", cancels |-> {"created", "updated"}]

\* The routing of programme.assignment.assigned and .unassigned.
AssignmentRouting ==
    "assigned" :> [kind |-> "debounced", cancels |-> {}]
    @@ "unassigned" :> [kind |-> "cancellation", cancels |-> {"assigned"}]

\* The rows of one recipient go out in one digest.
OneDigest == [k \in Keys |-> "d"]

AllSymmetry == Permutations(Crons) \cup Permutations(Callers) \cup Permutations(Keys)
=============================================================================
