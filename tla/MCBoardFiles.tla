---------------------------- MODULE MCBoardFiles ----------------------------
(***************************************************************************)
(* Instances of BoardFiles for TLC.                                        *)
(***************************************************************************)
EXTENDS BoardFiles, TLC

CONSTANTS d1, f1, a1

NoDocument == { [d \in {} |-> Absent] }

\* The document is there with its first version, or it is not there.
OneOrNone == { [d \in {} |-> Absent], d1 :> [uri |-> f1, by |-> a1] }
=============================================================================
