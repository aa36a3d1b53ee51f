-------------------------- MODULE TerritoryCustody --------------------------
(***************************************************************************)
(* What the campaign lifecycle promises about each attribution, without    *)
(* dates, windows, scopes or options: who holds a territory, who suspended *)
(* that, and that what was returned stays returned.  TerritoryCampaigns    *)
(* implements it (docs/product/territories.md, "Publishing campaigns").    *)
(***************************************************************************)
CONSTANTS Campaigns, Attributions, None

VARIABLES
    mode,     \* mode[c]: campaign c has not begun, is on, or is over
    custody   \* custody[a]: what became of attribution a, and who suspended it

cvars == <<mode, custody>>

Absent == [state |-> "absent", by |-> None]
Held == [state |-> "held", by |-> None]
Returned == [state |-> "returned", by |-> None]
Suspended(c) == [state |-> "suspended", by |-> c]

Custody == {Absent, Held, Returned} \cup { Suspended(c) : c \in Campaigns }

CustodyTypeOK ==
    /\ mode \in [Campaigns -> {"new", "on", "over"}]
    /\ custody \in [Attributions -> Custody]

CustodyInit ==
    /\ mode = [c \in Campaigns |-> "new"]
    /\ custody = [a \in Attributions |-> Absent]

\* What campaign c may do to one attribution: create it, suspend it, give it
\* back if c itself had suspended it, return it, or leave it alone.
MoveOf(c, old, new) ==
    \/ new = old
    \/ old = Absent /\ new = Held
    \/ old = Held /\ new = Suspended(c)
    \/ old = Suspended(c) /\ new = Held
    \/ old \notin {Absent, Returned} /\ new = Returned

\* A campaign that begins, goes on or ends moves any number of attributions at
\* once; a campaign that is over does not.
CampaignStep(c) ==
    /\ \/ mode[c] = "new" /\ mode' = [mode EXCEPT ![c] = "on"]
       \/ mode[c] = "on" /\ mode' = mode
       \/ mode[c] = "on" /\ mode' = [mode EXCEPT ![c] = "over"]
    /\ custody' \in [Attributions -> Custody]
    /\ \A a \in Attributions : MoveOf(c, custody[a], custody'[a])

\* A campaign is forgotten only when nothing is suspended in its name.
Forget(c) ==
    /\ mode[c] = "over"
    /\ \A a \in Attributions : custody[a] # Suspended(c)
    /\ mode' = [mode EXCEPT ![c] = "new"]
    /\ UNCHANGED custody

\* A manager opens, returns, releases or removes one attribution.
ManagerStep(a) ==
    /\ \/ custody[a] = Absent /\ custody' = [custody EXCEPT ![a] = Held]
       \/ custody[a] \notin {Absent, Returned} /\ custody' = [custody EXCEPT ![a] = Returned]
       \/ \E c \in Campaigns : custody[a] = Suspended(c) /\ custody' = [custody EXCEPT ![a] = Held]
       \/ custody[a] # Absent /\ custody' = [custody EXCEPT ![a] = Absent]
    /\ UNCHANGED mode

\* A publisher who leaves returns everything.
ReturnMany(S) ==
    /\ \A a \in S : custody[a] \notin {Absent, Returned}
    /\ custody' = [a \in Attributions |-> IF a \in S THEN Returned ELSE custody[a]]
    /\ UNCHANGED mode

CustodyNext ==
    \/ \E c \in Campaigns : CampaignStep(c) \/ Forget(c)
    \/ \E a \in Attributions : ManagerStep(a)
    \/ \E S \in SUBSET Attributions : ReturnMany(S)

CustodySpec == CustodyInit /\ [][CustodyNext]_cvars
=============================================================================
