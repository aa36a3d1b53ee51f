--------------------------- MODULE MCEventRelease ---------------------------
(***************************************************************************)
(* Instances of EventRelease for TLC.  A behaviour of the larger one is    *)
(* about the mails of an event that nobody is absent from, or about the    *)
(* absences of members who have no account: its day tells which.           *)
(***************************************************************************)
EXTENDS EventRelease, TLC

CONSTANTS ann, bob, cat, eve, talk

\* The speakers and the reader of a talk; ann is both.
SharedSpeakers == [p \in Parts |-> {ann, bob}]
SharedReaders == [p \in Parts |-> {ann}]
AllSpeakers == [p \in Parts |-> {ann, bob, cat}]
AllReaders == [p \in Parts |-> {ann, eve}]

NoAbsences == {}
SomeAbsences == {<<cat, 0>>, <<eve, 0>>}

\* Bounds: on day 2 the event is about mails, on the others about absences.
OfMails == event.day = 2
Bounded ==
    /\ \A x \in Desks : Of(tx[x].new) \subseteq IF OfMails THEN Accounts ELSE Members \ Accounts
    /\ OfMails => \A x \in Desks : tx[x].absences = {}
    /\ ~OfMails => faults = 0

EventNext == Next /\ Bounded' /\ OfMails' = OfMails
EventSpec == Init /\ [][EventNext]_vars

DeskSymmetry == Permutations(Desks)
=============================================================================
