--------------------- MODULE CampaignTransactionsProofs ---------------------
(***************************************************************************)
(* What concurrent requests cannot break: the types, and that a campaign   *)
(* that has ended stays ended.  A request that stamps a campaign works on  *)
(* a version nobody else can write until it commits, so what it commits    *)
(* follows from what is committed, however old the reads are that made it  *)
(* choose the campaign.                                                    *)
(***************************************************************************)
EXTENDS CampaignTransactions, TLAPS

CampaignVersion == CampaignRow \cup {None}

\* An ended campaign is followed by no version that is not ended.
Keeps(old, new) ==
    old # None /\ old.status = "ended" => new = None \/ new.status = "ended"

\* A row is written by one transaction at a time.
CampaignLocks ==
    \A x, y \in Transactions : x # y => DOMAIN campaignW[x] \cap DOMAIN campaignW[y] = {}

\* What is written and not committed follows from what is committed.
WrittenOver ==
    \A x \in Transactions : \A c \in DOMAIN campaignW[x] : Keeps(campaign[c], campaignW[x][c])

\* What a transaction with memory m, which wrote cw and aw, knows at each place.
Placed(m, cw, aw) ==
    /\ m.at = "create" => m.fresh \in CampaignRow
    /\ m.at = "insert" => m.new \in AttributionRow
    /\ m.at = "update" => m.kind = "edit"
    /\ m.at \in {"carry", "insert"} => m.rows \subseteq DOMAIN aw
    /\ m.at = "delete" => m.c \in Campaigns
    /\ m.kind = "edit" =>
          m.c \in DOMAIN m.seen /\ m.at \notin {"due", "activate", "ending", "delete"}
    /\ m.at = "replace" \/ (m.kind = "edit" /\ m.at # "update") =>
          m.c \in DOMAIN cw /\ cw[m.c] \in CampaignRow

AllPlaced == \A x \in Transactions : Placed(tx[x], campaignW[x], attributionW[x])

IInv == TypeOK /\ CampaignLocks /\ WrittenOver /\ AllPlaced

-----------------------------------------------------------------------------
(* Partial functions.                                                      *)

(* A function on a part of K with values in R.                             *)
LEMMA PartialIntro ==
    ASSUME NEW K, NEW R, NEW f, f = [k \in DOMAIN f |-> f[k]], DOMAIN f \subseteq K,
           \A k \in DOMAIN f : f[k] \in R
    PROVE  f \in Partial(K, R)
<1>1. f \in [DOMAIN f -> R]
  OBVIOUS
<1> QED
  BY <1>1 DEF Partial

LEMMA PartialElim ==
    ASSUME NEW K, NEW R, NEW f \in Partial(K, R)
    PROVE  /\ f = [k \in DOMAIN f |-> f[k]]
           /\ DOMAIN f \subseteq K
           /\ \A k \in DOMAIN f : f[k] \in R
BY DEF Partial

(* Writing over earlier writes.                                            *)
LEMMA PutTyped ==
    ASSUME NEW K, NEW R, NEW old \in Partial(K, R), NEW new \in Partial(K, R)
    PROVE  Put(old, new) \in Partial(K, R)
<1> DEFINE f == Put(old, new)
<1>1. f = [k \in DOMAIN f |-> f[k]]
  BY DEF Put
<1>2. DOMAIN f \subseteq K /\ \A k \in DOMAIN f : f[k] \in R
  BY PartialElim DEF Put
<1>3. f \in Partial(K, R)
  <2> HIDE DEF f
  <2> QED
    BY <1>1, <1>2, PartialIntro
<1> QED
  BY <1>3

LEMMA NothingIsPartial ==
    ASSUME NEW K, NEW R
    PROVE  Nothing \in Partial(K, R) /\ DOMAIN Nothing = {}
<1>1. DOMAIN Nothing = {} /\ Nothing = [k \in DOMAIN Nothing |-> Nothing[k]]
  BY DEF Nothing
<1> QED
  BY <1>1, PartialIntro

LEMMA IdleIsMemory == Idle \in Memory
<1>1. Nothing \in Partial(Campaigns, CampaignRow)
  BY NothingIsPartial
<1> QED
  BY <1>1 DEF Idle, Memory, RequestKinds

-----------------------------------------------------------------------------
(* What a transaction sees.                                                *)

LEMMA CampTyped ==
    ASSUME TypeOK, NEW x \in Transactions
    PROVE  /\ Camp(x) \in [Campaigns -> CampaignVersion]
           /\ DOMAIN campaignW[x] \subseteq Campaigns
           /\ \A c \in DOMAIN campaignW[x] : Camp(x)[c] = campaignW[x][c]
           /\ \A c \in Campaigns \ DOMAIN campaignW[x] : Camp(x)[c] = campaign[c]
<1>1. campaignW[x] \in Partial(Campaigns, CampaignVersion)
  BY DEF TypeOK, CampaignVersion
<1>2. DOMAIN campaignW[x] \subseteq Campaigns
      /\ \A c \in DOMAIN campaignW[x] : campaignW[x][c] \in CampaignVersion
  BY <1>1, PartialElim
<1>3. campaign \in [Campaigns -> CampaignVersion]
  BY DEF TypeOK, CampaignVersion
<1> QED
  BY <1>2, <1>3 DEF Camp, Over

LEMMA AttTyped ==
    ASSUME TypeOK, NEW x \in Transactions
    PROVE  /\ Att(x) \in [Attributions -> AttributionRow \cup {None}]
           /\ DOMAIN attributionW[x] \subseteq Attributions
           /\ \A a \in DOMAIN attributionW[x] : Att(x)[a] \in AttributionRow
<1>1. attributionW[x] \in Partial(Attributions, AttributionRow)
  BY DEF TypeOK
<1>2. DOMAIN attributionW[x] \subseteq Attributions
      /\ \A a \in DOMAIN attributionW[x] : attributionW[x][a] \in AttributionRow
  BY <1>1, PartialElim
<1>3. attribution \in [Attributions -> AttributionRow \cup {None}]
  BY DEF TypeOK
<1> QED
  BY <1>2, <1>3 DEF Att, Over

(* The campaign objects of a query are rows of the schema.                 *)
LEMMA SnapshotTyped ==
    ASSUME NEW camp \in [Campaigns -> CampaignVersion], NEW S \in SUBSET Campaigns,
           \A c \in S : camp[c] # None
    PROVE  Snapshot(camp, S) \in Partial(Campaigns, CampaignRow) /\ DOMAIN Snapshot(camp, S) = S
<1> DEFINE f == Snapshot(camp, S)
<1>1. f = [c \in S |-> camp[c]] /\ DOMAIN f = S
  BY DEF Snapshot
<1>2. f = [k \in DOMAIN f |-> f[k]] /\ \A k \in DOMAIN f : f[k] \in CampaignRow
  BY <1>1 DEF CampaignVersion
<1>3. f \in Partial(Campaigns, CampaignRow)
  <2> HIDE DEF f
  <2> QED
    BY <1>1, <1>2, PartialIntro
<1> QED
  BY <1>1, <1>3

LEMMA ForgetTyped ==
    ASSUME NEW seen \in Partial(Campaigns, CampaignRow), NEW c
    PROVE  Forget(seen, c) \in Partial(Campaigns, CampaignRow)
<1> DEFINE f == Forget(seen, c)
<1>1. f = [d \in DOMAIN seen \ {c} |-> seen[d]] /\ DOMAIN f = DOMAIN seen \ {c}
  BY DEF Forget
<1>2. f = [k \in DOMAIN f |-> f[k]] /\ DOMAIN f \subseteq Campaigns
      /\ \A k \in DOMAIN f : f[k] \in CampaignRow
  BY <1>1, PartialElim
<1>3. f \in Partial(Campaigns, CampaignRow)
  <2> HIDE DEF f
  <2> QED
    BY <1>2, PartialIntro
<1> QED
  BY <1>3

LEMMA EffectiveTyped ==
    ASSUME NEW scope \in SUBSET Territories
    PROVE  Effective(scope) \in SUBSET Territories
BY DEF Effective

-----------------------------------------------------------------------------
(* One step of one transaction.                                            *)

LEMMA GoFacts ==
    ASSUME tx \in [Transactions -> Memory], NEW x \in Transactions, NEW m \in Memory, Go(x, m)
    PROVE  /\ tx' \in [Transactions -> Memory]
           /\ tx'[x] = m
           /\ \A y \in Others(x) : tx'[y] = tx[y]
BY DEF Go, Others

(* A step that only reads.                                                 *)
LEMMA ReadStep ==
    ASSUME IInv, NEW x \in Transactions, NEW m \in Memory, Go(x, m), Reads,
           Placed(m, campaignW[x], attributionW[x])
    PROVE  IInv'
<1>1. tx' \in [Transactions -> Memory] /\ tx'[x] = m /\ \A y \in Others(x) : tx'[y] = tx[y]
  BY GoFacts DEF IInv, TypeOK
<1>2. UNCHANGED <<today, campaign, attribution, campaignW, attributionW>>
  BY DEF Reads
<1>3. TypeOK'
  BY <1>1, <1>2 DEF IInv, TypeOK
<1>4. CampaignLocks' /\ WrittenOver'
  BY <1>2 DEF IInv, CampaignLocks, WrittenOver
<1>5. AllPlaced'
  <2> SUFFICES ASSUME NEW y \in Transactions
               PROVE  Placed(tx'[y], campaignW[y], attributionW[y])
    BY <1>2 DEF AllPlaced
  <2>1. CASE y = x
    BY <1>1, <2>1
  <2>2. CASE y # x
    BY <1>1, <2>2 DEF IInv, AllPlaced, Others
  <2> QED
    BY <2>1, <2>2
<1> QED
  BY <1>3, <1>4, <1>5 DEF IInv

LEMMA WriteCampaignFacts ==
    ASSUME TypeOK, NEW x \in Transactions, NEW c \in Campaigns, NEW row \in CampaignVersion,
           WriteCampaign(x, c, row)
    PROVE  /\ campaignW' \in [Transactions -> Partial(Campaigns, CampaignVersion)]
           /\ DOMAIN campaignW'[x] = DOMAIN campaignW[x] \cup {c}
           /\ campaignW'[x][c] = row
           /\ \A d \in DOMAIN campaignW[x] \ {c} : campaignW'[x][d] = campaignW[x][d]
           /\ \A y \in Others(x) : campaignW'[y] = campaignW[y]
<1> DEFINE f == [k \in {c} |-> row]
<1>1. f = [k \in DOMAIN f |-> f[k]] /\ DOMAIN f = {c} /\ f[c] = row
  OBVIOUS
<1>2. f \in Partial(Campaigns, CampaignVersion)
  <2>1. DOMAIN f \subseteq Campaigns /\ \A k \in DOMAIN f : f[k] \in CampaignVersion
    OBVIOUS
  <2> HIDE DEF f
  <2> QED
    BY <1>1, <2>1, PartialIntro
<1>3. campaignW \in [Transactions -> Partial(Campaigns, CampaignVersion)]
  BY DEF TypeOK, CampaignVersion
<1>4. campaignW' = [campaignW EXCEPT ![x] = Put(campaignW[x], f)]
  BY DEF WriteCampaign
<1>5. Put(campaignW[x], f) \in Partial(Campaigns, CampaignVersion)
  <2> HIDE DEF f
  <2>1. campaignW[x] \in Partial(Campaigns, CampaignVersion)
    BY <1>3
  <2> QED
    BY <1>2, <2>1, PutTyped
<1>6. /\ DOMAIN Put(campaignW[x], f) = DOMAIN campaignW[x] \cup DOMAIN f
      /\ \A k \in DOMAIN f : Put(campaignW[x], f)[k] = f[k]
      /\ \A k \in DOMAIN campaignW[x] \ DOMAIN f : Put(campaignW[x], f)[k] = campaignW[x][k]
  BY DEF Put
<1> HIDE DEF f
<1>7. campaignW'[x] = Put(campaignW[x], f) /\ \A y \in Others(x) : campaignW'[y] = campaignW[y]
  BY <1>3, <1>4 DEF Others
<1>8. campaignW' \in [Transactions -> Partial(Campaigns, CampaignVersion)]
  BY <1>3, <1>4, <1>5
<1> QED
  BY <1>1, <1>6, <1>7, <1>8

(* A step that writes one campaign, on a version it may write.             *)
LEMMA CampaignStep ==
    ASSUME IInv, NEW x \in Transactions, NEW m \in Memory,
           NEW c \in Campaigns, NEW row \in CampaignVersion,
           Go(x, m), WritesCampaign, WriteCampaign(x, c, row),
           CampaignFree(x, c), Keeps(campaign[c], row),
           Placed(m, campaignW'[x], attributionW[x])
    PROVE  IInv'
<1>1. tx' \in [Transactions -> Memory] /\ tx'[x] = m /\ \A y \in Others(x) : tx'[y] = tx[y]
  BY GoFacts DEF IInv, TypeOK
<1>2. UNCHANGED <<today, campaign, attribution, attributionW>>
  BY DEF WritesCampaign
<1>3. /\ campaignW' \in [Transactions -> Partial(Campaigns, CampaignVersion)]
      /\ DOMAIN campaignW'[x] = DOMAIN campaignW[x] \cup {c}
      /\ campaignW'[x][c] = row
      /\ \A d \in DOMAIN campaignW[x] \ {c} : campaignW'[x][d] = campaignW[x][d]
      /\ \A y \in Others(x) : campaignW'[y] = campaignW[y]
  BY WriteCampaignFacts DEF IInv
<1>4. TypeOK'
  BY <1>1, <1>2, <1>3 DEF IInv, TypeOK, CampaignVersion
<1>5. CampaignLocks'
  <2> SUFFICES ASSUME NEW y \in Transactions, NEW z \in Transactions, y # z
               PROVE  DOMAIN campaignW'[y] \cap DOMAIN campaignW'[z] = {}
    BY DEF CampaignLocks
  <2>1. DOMAIN campaignW[y] \cap DOMAIN campaignW[z] = {}
    BY DEF IInv, CampaignLocks
  <2>2. \A w \in Others(x) : c \notin DOMAIN campaignW[w]
    BY DEF CampaignFree
  <2>3. CASE y = x
    BY <1>3, <2>1, <2>2, <2>3 DEF Others
  <2>4. CASE z = x
    BY <1>3, <2>1, <2>2, <2>4 DEF Others
  <2>5. CASE y # x /\ z # x
    BY <1>3, <2>1, <2>5 DEF Others
  <2> QED
    BY <2>3, <2>4, <2>5
<1>6. WrittenOver'
  <2> SUFFICES ASSUME NEW y \in Transactions, NEW d \in DOMAIN campaignW'[y]
               PROVE  Keeps(campaign[d], campaignW'[y][d])
    BY <1>2 DEF WrittenOver
  <2>1. CASE y = x /\ d = c
    BY <1>3, <2>1
  <2>2. CASE y = x /\ d # c
    BY <1>3, <2>2 DEF IInv, WrittenOver
  <2>3. CASE y # x
    BY <1>3, <2>3 DEF IInv, WrittenOver, Others
  <2> QED
    BY <2>1, <2>2, <2>3
<1>7. AllPlaced'
  <2> SUFFICES ASSUME NEW y \in Transactions
               PROVE  Placed(tx'[y], campaignW'[y], attributionW[y])
    BY <1>2 DEF AllPlaced
  <2>1. CASE y = x
    BY <1>1, <2>1
  <2>2. CASE y # x
    BY <1>1, <1>3, <2>2 DEF IInv, AllPlaced, Others
  <2> QED
    BY <2>1, <2>2
<1> QED
  BY <1>4, <1>5, <1>6, <1>7 DEF IInv

LEMMA WriteAttributionsFacts ==
    ASSUME TypeOK, NEW x \in Transactions, NEW rows \in Partial(Attributions, AttributionRow),
           WriteAttributions(x, rows)
    PROVE  /\ attributionW' \in [Transactions -> Partial(Attributions, AttributionRow)]
           /\ DOMAIN attributionW'[x] = DOMAIN attributionW[x] \cup DOMAIN rows
           /\ \A y \in Others(x) : attributionW'[y] = attributionW[y]
<1>1. attributionW \in [Transactions -> Partial(Attributions, AttributionRow)]
  BY DEF TypeOK
<1>2. attributionW' = [attributionW EXCEPT ![x] = Put(attributionW[x], rows)]
  BY DEF WriteAttributions
<1>3. /\ Put(attributionW[x], rows) \in Partial(Attributions, AttributionRow)
      /\ DOMAIN Put(attributionW[x], rows) = DOMAIN attributionW[x] \cup DOMAIN rows
  <2>1. attributionW[x] \in Partial(Attributions, AttributionRow)
    BY <1>1
  <2>2. Put(attributionW[x], rows) \in Partial(Attributions, AttributionRow)
    BY <2>1, PutTyped
  <2> QED
    BY <2>2 DEF Put
<1> QED
  BY <1>1, <1>2, <1>3 DEF Others

(* A step that writes attributions.                                        *)
LEMMA AttributionStep ==
    ASSUME IInv, NEW x \in Transactions, NEW m \in Memory,
           NEW rows \in Partial(Attributions, AttributionRow),
           Go(x, m), WritesAttributions, WriteAttributions(x, rows),
           Placed(m, campaignW[x], attributionW'[x])
    PROVE  IInv'
<1>1. tx' \in [Transactions -> Memory] /\ tx'[x] = m /\ \A y \in Others(x) : tx'[y] = tx[y]
  BY GoFacts DEF IInv, TypeOK
<1>2. UNCHANGED <<today, campaign, attribution, campaignW>>
  BY DEF WritesAttributions
<1>3. /\ attributionW' \in [Transactions -> Partial(Attributions, AttributionRow)]
      /\ \A y \in Others(x) : attributionW'[y] = attributionW[y]
  BY WriteAttributionsFacts DEF IInv
<1>4. TypeOK'
  BY <1>1, <1>2, <1>3 DEF IInv, TypeOK
<1>5. CampaignLocks' /\ WrittenOver'
  BY <1>2 DEF IInv, CampaignLocks, WrittenOver
<1>6. AllPlaced'
  <2> SUFFICES ASSUME NEW y \in Transactions
               PROVE  Placed(tx'[y], campaignW[y], attributionW'[y])
    BY <1>2 DEF AllPlaced
  <2>1. CASE y = x
    BY <1>1, <2>1
  <2>2. CASE y # x
    BY <1>1, <1>3, <2>2 DEF IInv, AllPlaced, Others
  <2> QED
    BY <2>1, <2>2
<1> QED
  BY <1>4, <1>5, <1>6 DEF IInv

(* The end of a transaction.                                               *)
LEMMA IdlePlaced == Placed(Idle, Nothing, Nothing)
BY DEF Placed, Idle

LEMMA RollbackStep ==
    ASSUME IInv, NEW x \in Transactions, Rollback(x)
    PROVE  IInv'
<1>1. tx' \in [Transactions -> Memory] /\ tx'[x] = Idle /\ \A y \in Others(x) : tx'[y] = tx[y]
  BY GoFacts, IdleIsMemory DEF IInv, TypeOK, Rollback, Release
<1>2. UNCHANGED <<today, campaign, attribution>>
  BY DEF Rollback
<1>3. /\ campaignW' \in [Transactions -> Partial(Campaigns, CampaignVersion)]
      /\ campaignW'[x] = Nothing
      /\ \A y \in Others(x) : campaignW'[y] = campaignW[y]
  <2>1. campaignW \in [Transactions -> Partial(Campaigns, CampaignVersion)]
    BY DEF IInv, TypeOK, CampaignVersion
  <2>2. Nothing \in Partial(Campaigns, CampaignVersion)
    BY NothingIsPartial
  <2> QED
    BY <2>1, <2>2 DEF Rollback, Release, Others
<1>4. /\ attributionW' \in [Transactions -> Partial(Attributions, AttributionRow)]
      /\ attributionW'[x] = Nothing
      /\ \A y \in Others(x) : attributionW'[y] = attributionW[y]
  <2>1. Nothing \in Partial(Attributions, AttributionRow)
    BY NothingIsPartial
  <2> QED
    BY <2>1 DEF IInv, TypeOK, Rollback, Release, Others
<1>5. TypeOK'
  BY <1>1, <1>2, <1>3, <1>4 DEF IInv, TypeOK, CampaignVersion
<1>6. DOMAIN Nothing = {}
  BY NothingIsPartial
<1>7. CampaignLocks' /\ WrittenOver'
  BY <1>2, <1>3, <1>6 DEF IInv, CampaignLocks, WrittenOver, Others
<1>8. AllPlaced'
  BY <1>1, <1>3, <1>4, IdlePlaced DEF IInv, AllPlaced, Others
<1> QED
  BY <1>5, <1>7, <1>8 DEF IInv

-----------------------------------------------------------------------------
(* The statements of the sweep.                                            *)

LEMMA Known ==
    ASSUME IInv, NEW x \in Transactions
    PROVE  /\ TypeOK
           /\ tx[x] \in Memory
           /\ Placed(tx[x], campaignW[x], attributionW[x])
           /\ Camp(x) \in [Campaigns -> CampaignVersion]
           /\ Att(x) \in [Attributions -> AttributionRow \cup {None}]
BY CampTyped, AttTyped DEF IInv, TypeOK, AllPlaced

(* A version made from the one the transaction sees.                       *)
LEMMA KeepsSeen ==
    ASSUME IInv, NEW x \in Transactions, NEW c \in Campaigns, NEW row,
           Camp(x)[c] # None, Keeps(Camp(x)[c], row)
    PROVE  Keeps(campaign[c], row)
<1>1. CASE c \in DOMAIN campaignW[x]
  <2>1. Keeps(campaign[c], campaignW[x][c]) /\ Camp(x)[c] = campaignW[x][c]
    BY <1>1, CampTyped DEF IInv, WrittenOver
  <2> QED
    BY <2>1 DEF Keeps
<1>2. CASE c \notin DOMAIN campaignW[x]
  BY <1>2, CampTyped DEF IInv
<1> QED
  BY <1>1, <1>2

LEMMA BeginSweepStep ==
    ASSUME IInv, NEW x \in Transactions, BeginSweep(x)
    PROVE  IInv'
<1> DEFINE m == [Idle EXCEPT !.at = "due", !.kind = "sweep"]
<1>1. m \in Memory
  BY IdleIsMemory DEF Memory, RequestKinds
<1>2. Placed(m, campaignW[x], attributionW[x])
  BY DEF Placed, Idle
<1>3. Go(x, m) /\ Reads
  BY DEF BeginSweep
<1> HIDE DEF m
<1> QED
  BY <1>1, <1>2, <1>3, ReadStep

LEMMA FindDueStep ==
    ASSUME IInv, NEW x \in Transactions, FindDue(x)
    PROVE  IInv'
<1> DEFINE seen == Snapshot(Camp(x), DueToActivate(Camp(x)))
           m == [Idle EXCEPT !.at = "activate", !.kind = "sweep", !.seen = seen]
<1>1. seen \in Partial(Campaigns, CampaignRow)
  BY Known, SnapshotTyped DEF DueToActivate
<1>2. m \in Memory
  <2> HIDE DEF seen
  <2> QED
    BY <1>1, IdleIsMemory DEF Memory, RequestKinds
<1>3. Placed(m, campaignW[x], attributionW[x])
  BY DEF Placed, Idle
<1>4. Go(x, m) /\ Reads
  BY DEF FindDue
<1> HIDE DEF m
<1> QED
  BY <1>2, <1>3, <1>4, ReadStep

LEMMA MarkActivatedStep ==
    ASSUME IInv, NEW x \in Transactions, NEW c \in Campaigns, MarkActivated(x, c)
    PROVE  IInv'
<1> DEFINE row == [Camp(x)[c] EXCEPT !.status = IF @ = "scheduled" THEN "active" ELSE @]
           m == [tx[x] EXCEPT !.at = "pick", !.c = c, !.seen = Forget(@, c),
                              !.area = Effective(tx[x].seen[c].scope)]
<1>1. /\ At(x, "activate") /\ c \in DOMAIN tx[x].seen
      /\ CampaignFree(x, c) /\ Camp(x)[c] # None
      /\ WriteCampaign(x, c, row) /\ Go(x, m) /\ WritesCampaign
  BY DEF MarkActivated
<1>2. Camp(x)[c] \in CampaignRow
  BY <1>1, Known DEF CampaignVersion
<1>3. row \in CampaignVersion /\ Keeps(Camp(x)[c], row)
  BY <1>2 DEF CampaignVersion, CampaignRow, Keeps
<1>4. tx[x].seen \in Partial(Campaigns, CampaignRow) /\ tx[x] \in Memory
  BY Known DEF Memory
<1>5. Forget(tx[x].seen, c) \in Partial(Campaigns, CampaignRow)
  BY <1>4, ForgetTyped
<1>6. Effective(tx[x].seen[c].scope) \in SUBSET Territories
  <2>1. tx[x].seen[c] \in CampaignRow
    BY <1>1, <1>4, PartialElim
  <2>2. tx[x].seen[c].scope \in SUBSET Territories
    BY <2>1 DEF CampaignRow
  <2> QED
    BY <2>2, EffectiveTyped
<1>7. m \in Memory
  BY <1>4, <1>5, <1>6 DEF Memory
<1>8. Placed(m, campaignW'[x], attributionW[x])
  <2>1. tx[x].kind # "edit"
    BY <1>1, Known DEF Placed, At
  <2> QED
    BY <1>4, <2>1 DEF Placed, Memory
<1>9. Keeps(campaign[c], row)
  <2> HIDE DEF row
  <2> QED
    BY <1>1, <1>3, KeepsSeen
<1> HIDE DEF row, m
<1> QED
  BY <1>1, <1>3, <1>7, <1>8, <1>9, CampaignStep

LEMMA FindRegularsStep ==
    ASSUME IInv, NEW x \in Transactions, FindRegulars(x)
    PROVE  IInv'
<1> DEFINE m == [tx[x] EXCEPT !.at = "pause", !.rows = OpenRegulars(Att(x), tx[x].area)]
<1>1. At(x, "pick") /\ Go(x, m) /\ Reads
  BY DEF FindRegulars
<1>2. OpenRegulars(Att(x), tx[x].area) \subseteq Attributions
  BY DEF OpenRegulars
<1>3. /\ m \in Memory
      /\ m.at = "pause" /\ m.kind = tx[x].kind /\ m.c = tx[x].c /\ m.seen = tx[x].seen
  <2> DEFINE rows == OpenRegulars(Att(x), tx[x].area)
  <2>1. tx[x] \in Memory /\ rows \subseteq Attributions
    BY <1>2, Known
  <2> HIDE DEF rows
  <2>2. /\ m = [tx[x] EXCEPT !.at = "pause", !.rows = rows]
        /\ m.at = "pause" /\ m.kind = tx[x].kind /\ m.c = tx[x].c /\ m.seen = tx[x].seen
    BY <2>1 DEF Memory, rows
  <2>3. m \in Memory
    BY <2>1, <2>2 DEF Memory
  <2> QED
    BY <2>2, <2>3
<1> HIDE DEF m
<1>4. Placed(m, campaignW[x], attributionW[x])
  BY <1>1, <1>3, Known DEF Placed, At
<1> QED
  BY <1>1, <1>3, <1>4, ReadStep

(* Rows that exist, with one column set.                                   *)
LEMMA SuspendTyped ==
    ASSUME NEW row \in AttributionRow, NEW c \in Campaigns \cup {None}
    PROVE  [row EXCEPT !.pausedByCampaignId = c] \in AttributionRow
BY DEF AttributionRow

LEMMA PauseRowsStep ==
    ASSUME IInv, NEW x \in Transactions, PauseRows(x)
    PROVE  IInv'
<1> DEFINE rows == { a \in tx[x].rows : Att(x)[a] # None }
           f == [a \in rows |-> [Att(x)[a] EXCEPT !.pausedByCampaignId = tx[x].c]]
           m == [tx[x] EXCEPT !.at = IF startAutoReassign THEN "carry" ELSE "over", !.rows = rows]
<1>1. At(x, "pause") /\ WriteAttributions(x, f) /\ Go(x, m) /\ WritesAttributions
  BY DEF PauseRows
<1>2. /\ tx[x] \in Memory /\ tx[x].rows \subseteq Attributions /\ tx[x].c \in Campaigns \cup {None}
      /\ Att(x) \in [Attributions -> AttributionRow \cup {None}]
  BY Known DEF Memory
<1>3. f \in Partial(Attributions, AttributionRow)
  <2>1. f = [a \in DOMAIN f |-> f[a]] /\ DOMAIN f = rows /\ DOMAIN f \subseteq Attributions
    BY <1>2
  <2>2. ASSUME NEW a \in DOMAIN f
        PROVE  f[a] \in AttributionRow
    <3>1. Att(x)[a] \in AttributionRow
      BY <1>2
    <3> QED
      BY <1>2, <3>1, SuspendTyped
  <2> HIDE DEF f
  <2> QED
    BY <2>1, <2>2, PartialIntro
<1>4. m \in Memory
  BY <1>2 DEF Memory
<1>5. DOMAIN f = rows
  OBVIOUS
<1> HIDE DEF f
<1>6. DOMAIN attributionW'[x] = DOMAIN attributionW[x] \cup rows
  BY <1>1, <1>3, <1>5, Known, WriteAttributionsFacts
<1>7. Placed(m, campaignW[x], attributionW'[x])
  BY <1>1, <1>2, <1>6, Known DEF Placed, At, Memory
<1> HIDE DEF m
<1> QED
  BY <1>1, <1>3, <1>4, <1>7, AttributionStep

LEMMA NewAttributionTyped ==
    ASSUME NEW p \in Publishers, NEW t \in Territories, NEW layer \in Campaigns \cup {None}
    PROVE  NewAttribution(p, t, layer) \in AttributionRow
BY DEF NewAttribution, AttributionRow

LEMMA CarryOverStep ==
    ASSUME IInv, NEW x \in Transactions, NEW a \in Attributions, CarryOver(x, a)
    PROVE  IInv'
<1> DEFINE new == NewAttribution(Att(x)[a].publisherId, Att(x)[a].territoryId, tx[x].c)
           taken == [tx[x] EXCEPT !.at = "insert", !.rows = @ \ {a}, !.new = new]
           skipped == [tx[x] EXCEPT !.rows = @ \ {a}]
<1>1. At(x, "carry") /\ a \in tx[x].rows /\ Reads /\ (Go(x, taken) \/ Go(x, skipped))
  BY DEF CarryOver
<1>2. tx[x] \in Memory /\ tx[x].rows \subseteq DOMAIN attributionW[x]
  BY <1>1, Known DEF Placed, At
<1>3. Att(x)[a] \in AttributionRow
  BY <1>1, <1>2, AttTyped DEF IInv
<1>4. new \in AttributionRow
  <2>1. Att(x)[a].publisherId \in Publishers /\ Att(x)[a].territoryId \in Territories
    BY <1>3 DEF AttributionRow
  <2>2. tx[x].c \in Campaigns \cup {None}
    BY <1>2 DEF Memory
  <2> QED
    BY <2>1, <2>2, NewAttributionTyped
<1> HIDE DEF new
<1>5. taken \in Memory /\ skipped \in Memory
  BY <1>2, <1>4 DEF Memory
<1>6. Placed(taken, campaignW[x], attributionW[x])
  BY <1>1, <1>2, <1>4, Known DEF Placed, At, Memory
<1>7. Placed(skipped, campaignW[x], attributionW[x])
  BY <1>1, <1>2, Known DEF Placed, At, Memory
<1> HIDE DEF taken, skipped
<1> QED
  BY <1>1, <1>5, <1>6, <1>7, ReadStep

LEMMA InsertAttributionStep ==
    ASSUME IInv, NEW x \in Transactions, NEW a \in Attributions, InsertAttribution(x, a)
    PROVE  IInv'
<1> DEFINE f == [k \in {a} |-> tx[x].new]
           m == [tx[x] EXCEPT !.at = IF tx[x].kind = "assign" THEN "commit" ELSE "carry",
                              !.new = None]
<1>1. At(x, "insert") /\ WriteAttributions(x, f) /\ Go(x, m) /\ WritesAttributions
  BY DEF InsertAttribution
<1>2. /\ tx[x] \in Memory /\ tx[x].new \in AttributionRow
      /\ tx[x].rows \subseteq DOMAIN attributionW[x]
  BY <1>1, Known DEF Placed, At
<1>3. f \in Partial(Attributions, AttributionRow)
  <2>1. f = [k \in DOMAIN f |-> f[k]] /\ DOMAIN f = {a} /\ \A k \in DOMAIN f : f[k] \in AttributionRow
    BY <1>2
  <2> HIDE DEF f
  <2> QED
    BY <2>1, PartialIntro
<1>4. m \in Memory
  BY <1>2 DEF Memory
<1> HIDE DEF f
<1>5. DOMAIN attributionW'[x] = DOMAIN attributionW[x] \cup DOMAIN f
  BY <1>1, <1>3, Known, WriteAttributionsFacts
<1>6. Placed(m, campaignW[x], attributionW'[x])
  BY <1>1, <1>2, <1>5, Known DEF Placed, At, Memory
<1> HIDE DEF m
<1> QED
  BY <1>1, <1>3, <1>4, <1>6, AttributionStep

LEMMA CarriedOverStep ==
    ASSUME IInv, NEW x \in Transactions, CarriedOver(x)
    PROVE  IInv'
<1> DEFINE m == [tx[x] EXCEPT !.at = "over"]
<1>1. At(x, "carry") /\ Go(x, m) /\ Reads
  BY DEF CarriedOver
<1>2. m \in Memory
  BY Known DEF Memory
<1>3. Placed(m, campaignW[x], attributionW[x])
  BY <1>1, Known DEF Placed, At, Memory
<1> HIDE DEF m
<1> QED
  BY <1>1, <1>2, <1>3, ReadStep

LEMMA NextActivationStep ==
    ASSUME IInv, NEW x \in Transactions, NextActivation(x)
    PROVE  IInv'
<1> DEFINE seen == Snapshot(Camp(x), DueToEnd(Camp(x)))
           more == [tx[x] EXCEPT !.at = "activate"]
           turn == [tx[x] EXCEPT !.at = "ending", !.seen = seen]
<1>1. Reads /\ (Go(x, more) \/ Go(x, turn))
  BY DEF NextActivation
<1>2. tx[x] \in Memory /\ tx[x].kind # "edit"
  BY Known DEF NextActivation, Placed, At
<1>3. seen \in Partial(Campaigns, CampaignRow)
  BY Known, SnapshotTyped DEF DueToEnd
<1> HIDE DEF seen
<1>4. more \in Memory /\ turn \in Memory
  BY <1>2, <1>3 DEF Memory
<1>5. Placed(more, campaignW[x], attributionW[x]) /\ Placed(turn, campaignW[x], attributionW[x])
  BY <1>2 DEF Placed, Memory
<1> HIDE DEF more, turn
<1> QED
  BY <1>1, <1>4, <1>5, ReadStep

LEMMA MarkEndedStep ==
    ASSUME IInv, NEW x \in Transactions, NEW c \in Campaigns, MarkEnded(x, c)
    PROVE  IInv'
<1> DEFINE row == [Camp(x)[c] EXCEPT !.status = "ended"]
           m == [tx[x] EXCEPT !.at = "close", !.c = c, !.seen = Forget(@, c), !.area = Territories]
<1>1. /\ At(x, "ending") /\ CampaignFree(x, c) /\ Camp(x)[c] # None
      /\ WriteCampaign(x, c, row) /\ Go(x, m) /\ WritesCampaign
  BY DEF MarkEnded
<1>2. Camp(x)[c] \in CampaignRow
  BY <1>1, Known DEF CampaignVersion
<1>3. row \in CampaignVersion /\ Keeps(Camp(x)[c], row)
  BY <1>2 DEF CampaignVersion, CampaignRow, Keeps
<1>4. tx[x].seen \in Partial(Campaigns, CampaignRow) /\ tx[x] \in Memory
  BY Known DEF Memory
<1>5. Forget(tx[x].seen, c) \in Partial(Campaigns, CampaignRow)
  BY <1>4, ForgetTyped
<1>6. m \in Memory
  BY <1>4, <1>5 DEF Memory
<1>7. Placed(m, campaignW'[x], attributionW[x])
  <2>1. tx[x].kind # "edit"
    BY <1>1, Known DEF Placed, At
  <2> QED
    BY <1>4, <2>1 DEF Placed, Memory
<1>8. Keeps(campaign[c], row)
  <2> HIDE DEF row
  <2> QED
    BY <1>1, <1>3, KeepsSeen
<1> HIDE DEF row, m
<1> QED
  BY <1>1, <1>3, <1>6, <1>7, <1>8, CampaignStep

LEMMA CloseWorkStep ==
    ASSUME IInv, NEW x \in Transactions, CloseWork(x)
    PROVE  IInv'
<1> DEFINE rows == OpenWorkOf(Att(x), tx[x].c, tx[x].area)
           f == [a \in rows |-> [Att(x)[a] EXCEPT !.open = FALSE]]
           m == [tx[x] EXCEPT !.at = "release"]
<1>1. At(x, "close") /\ WriteAttributions(x, f) /\ Go(x, m) /\ WritesAttributions
  BY DEF CloseWork
<1>2. f \in Partial(Attributions, AttributionRow)
  <2>1. f = [a \in DOMAIN f |-> f[a]] /\ DOMAIN f = rows /\ DOMAIN f \subseteq Attributions
    BY DEF OpenWorkOf
  <2>2. ASSUME NEW a \in DOMAIN f
        PROVE  f[a] \in AttributionRow
    <3>1. Att(x)[a] \in AttributionRow
      BY <2>1, Known DEF OpenWorkOf
    <3> QED
      BY <3>1 DEF AttributionRow
  <2> HIDE DEF f
  <2> QED
    BY <2>1, <2>2, PartialIntro
<1>3. m \in Memory
  BY Known DEF Memory
<1>4. Placed(m, campaignW[x], attributionW'[x])
  BY <1>1, Known DEF Placed, At, Memory
<1> HIDE DEF f, m
<1> QED
  BY <1>1, <1>2, <1>3, <1>4, AttributionStep

LEMMA ReleaseRowsStep ==
    ASSUME IInv, NEW x \in Transactions, ReleaseRows(x)
    PROVE  IInv'
<1> DEFINE rows == OpenPausedBy(Att(x), tx[x].c, tx[x].area)
           f == [a \in rows |-> [Att(x)[a] EXCEPT !.pausedByCampaignId = None]]
           m == [tx[x] EXCEPT !.at = IF tx[x].kind = "edit" THEN "replace" ELSE "ending"]
<1>1. At(x, "release") /\ WriteAttributions(x, f) /\ Go(x, m) /\ WritesAttributions
  BY DEF ReleaseRows
<1>2. f \in Partial(Attributions, AttributionRow)
  <2>1. f = [a \in DOMAIN f |-> f[a]] /\ DOMAIN f = rows /\ DOMAIN f \subseteq Attributions
    BY DEF OpenPausedBy
  <2>2. ASSUME NEW a \in DOMAIN f
        PROVE  f[a] \in AttributionRow
    <3>1. Att(x)[a] \in AttributionRow
      BY <2>1, Known DEF OpenPausedBy
    <3> QED
      BY <3>1, SuspendTyped
  <2> HIDE DEF f
  <2> QED
    BY <2>1, <2>2, PartialIntro
<1>3. m \in Memory
  BY Known DEF Memory
<1>4. Placed(m, campaignW[x], attributionW'[x])
  BY <1>1, Known DEF Placed, At, Memory
<1> HIDE DEF f, m
<1> QED
  BY <1>1, <1>2, <1>3, <1>4, AttributionStep

LEMMA FinishStep ==
    ASSUME IInv, NEW x \in Transactions, Finish(x)
    PROVE  IInv'
<1> DEFINE m == [tx[x] EXCEPT !.at = "commit"]
<1>1. At(x, "ending") /\ Go(x, m) /\ Reads
  BY DEF Finish
<1>2. m \in Memory
  BY Known DEF Memory
<1>3. Placed(m, campaignW[x], attributionW[x])
  BY <1>1, Known DEF Placed, At, Memory
<1> HIDE DEF m
<1> QED
  BY <1>1, <1>2, <1>3, ReadStep

-----------------------------------------------------------------------------
(* The statements of the requests.                                         *)

LEMMA BeginCreateStep ==
    ASSUME IInv, NEW x \in Transactions, NEW w \in Windows, NEW scope \in Scopes,
           BeginCreate(x, w, scope)
    PROVE  IInv'
<1> DEFINE row == [startDate |-> w[1], endDate |-> w[2], scope |-> scope, status |-> "scheduled"]
           m == [Idle EXCEPT !.at = "create", !.kind = "create", !.fresh = row]
<1>1. row \in CampaignRow
  BY ConcurrencyAssumption DEF CampaignRow
<1>2. Go(x, m) /\ Reads
  BY DEF BeginCreate
<1> HIDE DEF row
<1>3. m \in Memory
  BY <1>1, IdleIsMemory DEF Memory, RequestKinds
<1>4. Placed(m, campaignW[x], attributionW[x])
  BY <1>1 DEF Placed, Idle
<1> HIDE DEF m
<1> QED
  BY <1>2, <1>3, <1>4, ReadStep

LEMMA InsertCampaignStep ==
    ASSUME IInv, NEW x \in Transactions, NEW c \in Campaigns, InsertCampaign(x, c)
    PROVE  IInv'
<1> DEFINE m == [Idle EXCEPT !.at = "due"]
<1>1. /\ At(x, "create") /\ campaign[c] = None /\ CampaignFree(x, c)
      /\ WriteCampaign(x, c, tx[x].fresh) /\ Go(x, m) /\ WritesCampaign
  BY DEF InsertCampaign
<1>2. tx[x].fresh \in CampaignVersion
  BY <1>1, Known DEF Placed, At, CampaignVersion
<1>3. Keeps(campaign[c], tx[x].fresh)
  BY <1>1 DEF Keeps
<1>4. m \in Memory
  BY IdleIsMemory DEF Memory
<1>5. Placed(m, campaignW'[x], attributionW[x])
  BY DEF Placed, Idle
<1> HIDE DEF m
<1> QED
  BY <1>1, <1>2, <1>3, <1>4, <1>5, CampaignStep

LEMMA BeginEditStep ==
    ASSUME IInv, NEW x \in Transactions, NEW c \in Campaigns, NEW scope \in Scopes,
           BeginEdit(x, c, scope)
    PROVE  IInv'
<1> DEFINE seen == Snapshot(Camp(x), {c})
           m == [Idle EXCEPT !.at = "update", !.kind = "edit", !.c = c, !.scope = scope,
                             !.seen = seen]
<1>1. Camp(x)[c] # None /\ Go(x, m) /\ Reads
  BY DEF BeginEdit
<1>2. seen \in Partial(Campaigns, CampaignRow) /\ DOMAIN seen = {c}
  BY <1>1, Known, SnapshotTyped
<1> HIDE DEF seen
<1>3. scope \in SUBSET Territories
  BY ConcurrencyAssumption
<1>4. m \in Memory
  BY <1>2, <1>3, IdleIsMemory DEF Memory, RequestKinds
<1>5. Placed(m, campaignW[x], attributionW[x])
  BY <1>2 DEF Placed, Idle
<1> HIDE DEF m
<1> QED
  BY <1>1, <1>4, <1>5, ReadStep

(* The scopes an edit compares.                                            *)
LEMMA EditScopes ==
    ASSUME IInv, NEW x \in Transactions, tx[x].kind = "edit"
    PROVE  /\ tx[x] \in Memory
           /\ tx[x].c \in Campaigns
           /\ Effective(tx[x].scope) \in SUBSET Territories
           /\ Effective(tx[x].seen[tx[x].c].scope) \in SUBSET Territories
<1>1. tx[x] \in Memory /\ tx[x].c \in DOMAIN tx[x].seen
  BY Known DEF Placed
<1>2. tx[x].seen \in Partial(Campaigns, CampaignRow) /\ tx[x].scope \in SUBSET Territories
  BY <1>1 DEF Memory
<1>3. tx[x].c \in Campaigns /\ tx[x].seen[tx[x].c] \in CampaignRow
  BY <1>1, <1>2, PartialElim
<1>4. tx[x].seen[tx[x].c].scope \in SUBSET Territories
  BY <1>3 DEF CampaignRow
<1> QED
  BY <1>1, <1>2, <1>3, <1>4, EffectiveTyped

LEMMA UpdateCampaignStep ==
    ASSUME IInv, NEW x \in Transactions, UpdateCampaign(x)
    PROVE  IInv'
<1> DEFINE c == tx[x].c
           area == Effective(tx[x].scope) \ Effective(tx[x].seen[c].scope)
           m == [tx[x] EXCEPT !.at = IF tx[x].seen[c].status = "active" THEN "pick" ELSE "replace",
                              !.area = area]
<1>1. /\ At(x, "update") /\ CampaignFree(x, c) /\ Camp(x)[c] # None
      /\ WriteCampaign(x, c, Camp(x)[c]) /\ Go(x, m) /\ WritesCampaign
  BY DEF UpdateCampaign
<1>2. tx[x].kind = "edit"
  BY <1>1, Known DEF Placed, At
<1>3. c \in Campaigns /\ area \in SUBSET Territories /\ tx[x] \in Memory
  BY <1>2, EditScopes
<1> HIDE DEF area
<1>4. m \in Memory
  BY <1>3 DEF Memory
<1>5. Camp(x)[c] \in CampaignRow /\ Camp(x)[c] \in CampaignVersion
  BY <1>1, <1>3, Known DEF CampaignVersion
<1>6. Keeps(campaign[c], Camp(x)[c])
  BY <1>1, <1>3, KeepsSeen DEF Keeps
<1>7. c \in DOMAIN campaignW'[x] /\ campaignW'[x][c] = Camp(x)[c]
  BY <1>1, <1>3, <1>5, Known, WriteCampaignFacts
<1>8. Placed(m, campaignW'[x], attributionW[x])
  BY <1>1, <1>2, <1>3, <1>5, <1>7, Known DEF Placed, At, Memory
<1> HIDE DEF m
<1> QED
  BY <1>1, <1>3, <1>4, <1>5, <1>6, <1>8, CampaignStep

LEMMA TurnToRemovedStep ==
    ASSUME IInv, NEW x \in Transactions, TurnToRemoved(x)
    PROVE  IInv'
<1> DEFINE area == Effective(tx[x].seen[tx[x].c].scope) \ Effective(tx[x].scope)
           m == [tx[x] EXCEPT !.at = "close", !.area = area]
<1>1. At(x, "over") /\ tx[x].kind = "edit" /\ Go(x, m) /\ Reads
  BY DEF TurnToRemoved
<1>2. area \in SUBSET Territories /\ tx[x] \in Memory
  BY <1>1, EditScopes
<1> HIDE DEF area
<1>3. m \in Memory
  BY <1>2 DEF Memory
<1>4. Placed(m, campaignW[x], attributionW[x])
  BY <1>1, <1>2, Known DEF Placed, At, Memory
<1> HIDE DEF m
<1> QED
  BY <1>1, <1>3, <1>4, ReadStep

LEMMA ReplaceScopeStep ==
    ASSUME IInv, NEW x \in Transactions, ReplaceScope(x)
    PROVE  IInv'
<1> DEFINE c == tx[x].c
           row == [Camp(x)[c] EXCEPT !.scope = tx[x].scope]
           m == [Idle EXCEPT !.at = "due"]
<1>1. At(x, "replace") /\ WriteCampaign(x, c, row) /\ Go(x, m) /\ WritesCampaign
  BY DEF ReplaceScope
<1>2. c \in DOMAIN campaignW[x] /\ campaignW[x][c] \in CampaignRow
  BY <1>1, Known DEF Placed, At
<1>3. c \in Campaigns /\ Camp(x)[c] = campaignW[x][c]
  BY <1>2, CampTyped DEF IInv
<1>4. tx[x].scope \in SUBSET Territories
  BY Known DEF Memory
<1>5. row \in CampaignVersion /\ Keeps(Camp(x)[c], row)
  BY <1>2, <1>3, <1>4 DEF CampaignVersion, CampaignRow, Keeps
<1>6. Camp(x)[c] # None
  BY <1>2, <1>3, ConcurrencyAssumption
<1>7. Keeps(campaign[c], row)
  <2> HIDE DEF row
  <2> QED
    BY <1>3, <1>5, <1>6, KeepsSeen
<1>8. CampaignFree(x, c)
  BY <1>2 DEF CampaignFree, Others, IInv, CampaignLocks
<1>9. m \in Memory /\ Placed(m, campaignW'[x], attributionW[x])
  BY IdleIsMemory DEF Memory, Placed, Idle
<1> HIDE DEF c, row, m
<1> QED
  BY <1>1, <1>3, <1>5, <1>7, <1>8, <1>9, CampaignStep

LEMMA BeginEndStep ==
    ASSUME IInv, NEW x \in Transactions, NEW c \in Campaigns, BeginEnd(x, c)
    PROVE  IInv'
<1> DEFINE seen == Snapshot(Camp(x), {c})
           m == [Idle EXCEPT !.at = "ending", !.kind = "end", !.seen = seen]
<1>1. Camp(x)[c] # None /\ Go(x, m) /\ Reads
  BY DEF BeginEnd, Active
<1>2. seen \in Partial(Campaigns, CampaignRow)
  BY <1>1, Known, SnapshotTyped
<1> HIDE DEF seen
<1>3. m \in Memory
  BY <1>2, IdleIsMemory DEF Memory, RequestKinds
<1>4. Placed(m, campaignW[x], attributionW[x])
  BY DEF Placed, Idle
<1> HIDE DEF m
<1> QED
  BY <1>1, <1>3, <1>4, ReadStep

LEMMA BeginDeleteStep ==
    ASSUME IInv, NEW x \in Transactions, NEW c \in Campaigns, BeginDelete(x, c)
    PROVE  IInv'
<1> DEFINE m == [Idle EXCEPT !.at = "delete", !.kind = "delete", !.c = c]
<1>1. Go(x, m) /\ Reads
  BY DEF BeginDelete
<1>2. m \in Memory
  BY IdleIsMemory DEF Memory, RequestKinds
<1>3. Placed(m, campaignW[x], attributionW[x])
  BY DEF Placed, Idle
<1> HIDE DEF m
<1> QED
  BY <1>1, <1>2, <1>3, ReadStep

LEMMA DeleteRowStep ==
    ASSUME IInv, NEW x \in Transactions, DeleteRow(x)
    PROVE  IInv'
<1> DEFINE c == tx[x].c
           m == [tx[x] EXCEPT !.at = "commit"]
<1>1. /\ At(x, "delete") /\ CampaignFree(x, c)
      /\ WriteCampaign(x, c, None) /\ Go(x, m) /\ WritesCampaign
  BY DEF DeleteRow
<1>2. tx[x] \in Memory /\ tx[x].kind # "edit" /\ c \in Campaigns
  BY <1>1, Known DEF Placed, At
<1>3. m \in Memory /\ Placed(m, campaignW'[x], attributionW[x])
  BY <1>2 DEF Memory, Placed
<1>4. None \in CampaignVersion /\ Keeps(campaign[c], None)
  BY DEF CampaignVersion, Keeps
<1> HIDE DEF c, m
<1> QED
  BY <1>1, <1>2, <1>3, <1>4, CampaignStep

LEMMA BeginAssignStep ==
    ASSUME IInv, NEW x \in Transactions, NEW p \in Publishers, NEW t \in Territories,
           NEW layer \in Campaigns \cup {None}, BeginAssign(x, p, t, layer)
    PROVE  IInv'
<1> DEFINE new == NewAttribution(p, t, layer)
           m == [Idle EXCEPT !.at = "insert", !.kind = "assign", !.new = new]
<1>1. Go(x, m) /\ Reads
  BY DEF BeginAssign
<1>2. new \in AttributionRow
  BY NewAttributionTyped
<1> HIDE DEF new
<1>3. m \in Memory
  BY <1>2, IdleIsMemory DEF Memory, RequestKinds
<1>4. Placed(m, campaignW[x], attributionW[x])
  BY <1>2 DEF Placed, Idle
<1> HIDE DEF m
<1> QED
  BY <1>1, <1>3, <1>4, ReadStep

LEMMA BeginResumeStep ==
    ASSUME IInv, NEW x \in Transactions, NEW a \in Attributions, BeginResume(x, a)
    PROVE  IInv'
<1> DEFINE m == [Idle EXCEPT !.at = "resume", !.kind = "resume", !.rows = {a}]
<1>1. Go(x, m) /\ Reads
  BY DEF BeginResume
<1>2. m \in Memory
  BY IdleIsMemory DEF Memory, RequestKinds
<1>3. Placed(m, campaignW[x], attributionW[x])
  BY DEF Placed, Idle
<1> HIDE DEF m
<1> QED
  BY <1>1, <1>2, <1>3, ReadStep

LEMMA LiftPauseStep ==
    ASSUME IInv, NEW x \in Transactions, LiftPause(x)
    PROVE  IInv'
<1> DEFINE rows == tx[x].rows
           f == [a \in rows |-> [Att(x)[a] EXCEPT !.pausedByCampaignId = None]]
           m == [tx[x] EXCEPT !.at = "commit"]
<1>1. /\ At(x, "resume") /\ WriteAttributions(x, f) /\ Go(x, m) /\ WritesAttributions
      /\ \A a \in rows : Att(x)[a] # None
  BY DEF LiftPause
<1>2. rows \subseteq Attributions
  BY Known DEF Memory
<1>3. f \in Partial(Attributions, AttributionRow)
  <2>1. f = [a \in DOMAIN f |-> f[a]] /\ DOMAIN f = rows
    OBVIOUS
  <2>2. ASSUME NEW a \in DOMAIN f
        PROVE  f[a] \in AttributionRow
    <3>1. Att(x)[a] \in AttributionRow
      BY <1>1, <1>2, Known
    <3> QED
      BY <3>1, SuspendTyped
  <2> HIDE DEF f
  <2> QED
    BY <1>2, <2>1, <2>2, PartialIntro
<1>4. m \in Memory
  BY Known DEF Memory
<1>5. Placed(m, campaignW[x], attributionW'[x])
  BY <1>1, Known DEF Placed, At, Memory
<1> HIDE DEF f, m
<1> QED
  BY <1>1, <1>3, <1>4, <1>5, AttributionStep

-----------------------------------------------------------------------------
(* The end of a request, and the specification.                            *)

(* The versions that become the committed ones follow from those; the     *)
(* versions of the others are of other campaigns, which stay as they are.  *)
LEMMA CommitStep ==
    ASSUME IInv, NEW x \in Transactions, Commit(x)
    PROVE  IInv'
<1>1. tx' \in [Transactions -> Memory] /\ tx'[x] = Idle /\ \A y \in Others(x) : tx'[y] = tx[y]
  BY GoFacts, IdleIsMemory DEF IInv, TypeOK, Commit, Release
<1>2. campaign' = Camp(x) /\ attribution' = Att(x) /\ today' = today
  BY DEF Commit
<1>3. /\ campaignW' \in [Transactions -> Partial(Campaigns, CampaignVersion)]
      /\ campaignW'[x] = Nothing
      /\ \A y \in Others(x) : campaignW'[y] = campaignW[y]
  <2>1. campaignW \in [Transactions -> Partial(Campaigns, CampaignVersion)]
    BY DEF IInv, TypeOK, CampaignVersion
  <2>2. Nothing \in Partial(Campaigns, CampaignVersion)
    BY NothingIsPartial
  <2> QED
    BY <2>1, <2>2 DEF Commit, Release, Others
<1>4. /\ attributionW' \in [Transactions -> Partial(Attributions, AttributionRow)]
      /\ attributionW'[x] = Nothing
      /\ \A y \in Others(x) : attributionW'[y] = attributionW[y]
  <2>1. Nothing \in Partial(Attributions, AttributionRow)
    BY NothingIsPartial
  <2> QED
    BY <2>1 DEF IInv, TypeOK, Commit, Release, Others
<1>5. TypeOK'
  BY <1>1, <1>2, <1>3, <1>4, Known DEF IInv, TypeOK, CampaignVersion
<1>6. DOMAIN Nothing = {}
  BY NothingIsPartial
<1>7. CampaignLocks'
  BY <1>3, <1>6 DEF IInv, CampaignLocks, Others
<1>8. WrittenOver'
  <2> SUFFICES ASSUME NEW y \in Transactions, NEW c \in DOMAIN campaignW'[y]
               PROVE  Keeps(Camp(x)[c], campaignW'[y][c])
    BY <1>2 DEF WrittenOver
  <2>1. y # x /\ c \in DOMAIN campaignW[y] /\ campaignW'[y] = campaignW[y]
    BY <1>3, <1>6 DEF Others
  <2>2. c \in Campaigns /\ c \notin DOMAIN campaignW[x]
    BY <2>1, CampTyped DEF IInv, CampaignLocks
  <2>3. Camp(x)[c] = campaign[c]
    BY <2>2, CampTyped DEF IInv
  <2> QED
    BY <2>1, <2>3 DEF IInv, WrittenOver
<1>9. AllPlaced'
  BY <1>1, <1>3, <1>4, IdlePlaced DEF IInv, AllPlaced, Others
<1> QED
  BY <1>5, <1>7, <1>8, <1>9 DEF IInv

LEMMA InitIInv == Init => IInv
<1> SUFFICES ASSUME Init PROVE IInv
  OBVIOUS
<1>1. TypeOK
  <2>1. /\ Nothing \in Partial(Campaigns, CampaignRow \cup {None})
        /\ Nothing \in Partial(Attributions, AttributionRow)
    BY NothingIsPartial
  <2>2. today \in 0..MaxDay
    BY ConcurrencyAssumption DEF Init
  <2> QED
    BY <2>1, <2>2, IdleIsMemory, ConcurrencyAssumption DEF Init, TypeOK
<1>2. DOMAIN Nothing = {}
  BY NothingIsPartial
<1>3. CampaignLocks /\ WrittenOver
  BY <1>2 DEF Init, CampaignLocks, WrittenOver
<1>4. AllPlaced
  BY IdlePlaced DEF Init, AllPlaced
<1> QED
  BY <1>1, <1>3, <1>4 DEF IInv

(* What a request does before it ends, one case per action.                *)
LEMMA RequestStep ==
    ASSUME IInv, NEW x \in Transactions, Begin(x) \/ Statement(x)
    PROVE  IInv'
<1>1. ASSUME Begin(x) PROVE IInv'
  <2>1. CASE BeginSweep(x)
    BY <2>1, BeginSweepStep
  <2>2. ASSUME NEW scope \in Scopes, NEW w \in Windows, BeginCreate(x, w, scope) PROVE IInv'
    BY <2>2, BeginCreateStep
  <2>3. ASSUME NEW scope \in Scopes, NEW c \in Campaigns, BeginEdit(x, c, scope) PROVE IInv'
    BY <2>3, BeginEditStep
  <2>4. ASSUME NEW c \in Campaigns, BeginEnd(x, c) \/ BeginDelete(x, c) PROVE IInv'
    BY <2>4, BeginEndStep, BeginDeleteStep
  <2>5. ASSUME NEW p \in Publishers, NEW t \in Territories, NEW layer \in Campaigns \cup {None},
               BeginAssign(x, p, t, layer)
        PROVE  IInv'
    BY <2>5, BeginAssignStep
  <2>6. ASSUME NEW a \in Attributions, BeginResume(x, a) PROVE IInv'
    BY <2>6, BeginResumeStep
  <2> QED
    BY <1>1, <2>1, <2>2, <2>3, <2>4, <2>5, <2>6 DEF Begin
<1>2. ASSUME Statement(x) PROVE IInv'
  <2>1. CASE FindDue(x) \/ FindRegulars(x) \/ PauseRows(x) \/ CarriedOver(x) \/ NextActivation(x)
    BY <2>1, FindDueStep, FindRegularsStep, PauseRowsStep, CarriedOverStep, NextActivationStep
  <2>2. CASE CloseWork(x) \/ ReleaseRows(x) \/ Finish(x)
    BY <2>2, CloseWorkStep, ReleaseRowsStep, FinishStep
  <2>3. ASSUME NEW c \in Campaigns, MarkActivated(x, c) \/ MarkEnded(x, c) \/ InsertCampaign(x, c)
        PROVE  IInv'
    BY <2>3, MarkActivatedStep, MarkEndedStep, InsertCampaignStep
  <2>4. ASSUME NEW a \in Attributions, CarryOver(x, a) \/ InsertAttribution(x, a) PROVE IInv'
    BY <2>4, CarryOverStep, InsertAttributionStep
  <2>5. CASE UpdateCampaign(x) \/ TurnToRemoved(x) \/ ReplaceScope(x)
    BY <2>5, UpdateCampaignStep, TurnToRemovedStep, ReplaceScopeStep
  <2>6. CASE DeleteRow(x) \/ LiftPause(x)
    BY <2>6, DeleteRowStep, LiftPauseStep
  <2> QED
    BY <1>2, <2>1, <2>2, <2>3, <2>4, <2>5, <2>6 DEF Statement
<1> QED
  BY <1>1, <1>2

LEMMA NextIInv == IInv /\ [Next]_vars => IInv'
<1> SUFFICES ASSUME IInv, [Next]_vars PROVE IInv'
  OBVIOUS
<1>1. ASSUME NEW x \in Transactions, Begin(x) \/ Statement(x) PROVE IInv'
  BY <1>1, RequestStep
<1>2. ASSUME NEW x \in Transactions, Commit(x) \/ Rollback(x) PROVE IInv'
  BY <1>2, CommitStep, RollbackStep
<1>3. CASE NextDay
  <2>1. UNCHANGED <<campaign, attribution, campaignW, attributionW, tx>>
    BY <1>3 DEF NextDay
  <2>2. today' \in 0..MaxDay
    BY <1>3, ConcurrencyAssumption DEF NextDay, IInv, TypeOK
  <2> QED
    BY <2>1, <2>2 DEF IInv, TypeOK, CampaignLocks, WrittenOver, AllPlaced
<1>4. CASE UNCHANGED vars
  BY <1>4 DEF vars, IInv, TypeOK, CampaignLocks, WrittenOver, AllPlaced
<1> QED
  BY <1>1, <1>2, <1>3, <1>4 DEF Next

(* Hence it holds in every reachable state.                                *)
LEMMA Invariance == Spec => []IInv
BY InitIInv, NextIInv, PTL DEF Spec

(* The tables keep to the schema, the uncommitted versions too, and no     *)
(* request meets a place with a memory that does not fit it.               *)
THEOREM TypeCorrect == Spec => []TypeOK
<1>1. IInv => TypeOK
  BY DEF IInv
<1> QED
  BY <1>1, Invariance, PTL

(* No step takes an ended campaign back: only a commit changes what is     *)
(* committed, and what it commits follows from what it replaces.           *)
LEMMA StepKeepsEnded ==
    ASSUME IInv, [Next]_vars, NEW c \in Campaigns
    PROVE  Keeps(campaign[c], campaign'[c])
<1>1. ASSUME NEW x \in Transactions, Commit(x)
      PROVE  Keeps(campaign[c], campaign'[c])
  <2>1. campaign' = Camp(x)
    BY <1>1 DEF Commit
  <2>2. CASE c \in DOMAIN campaignW[x]
    BY <2>1, <2>2, CampTyped DEF IInv, WrittenOver
  <2>3. CASE c \notin DOMAIN campaignW[x]
    BY <2>1, <2>3, CampTyped DEF IInv, Keeps
  <2> QED
    BY <2>2, <2>3
<1>2. ASSUME campaign' = campaign PROVE Keeps(campaign[c], campaign'[c])
  BY <1>2 DEF Keeps
<1>3. ASSUME NEW x \in Transactions, Begin(x) \/ Rollback(x) PROVE campaign' = campaign
  BY <1>3 DEF Begin, Rollback, BeginSweep, BeginCreate, BeginEdit, BeginEnd, BeginDelete,
              BeginAssign, BeginResume, Reads
<1>4. ASSUME NEW x \in Transactions, Statement(x) PROVE campaign' = campaign
  BY <1>4 DEF Statement, FindDue, FindRegulars, PauseRows, CarriedOver, NextActivation,
              CloseWork, ReleaseRows, Finish, MarkActivated, MarkEnded, InsertCampaign,
              CarryOver, InsertAttribution, UpdateCampaign, TurnToRemoved, ReplaceScope,
              DeleteRow, LiftPause, Reads, WritesCampaign, WritesAttributions
<1>5. CASE NextDay \/ UNCHANGED vars
  BY <1>2, <1>5 DEF NextDay, vars
<1> QED
  BY <1>1, <1>2, <1>3, <1>4, <1>5 DEF Next

(* A campaign that has ended stays ended, for any number of connections.   *)
THEOREM EndedCampaignsStayEnded == Spec => EndedStaysEnded
<1>1. IInv /\ [Next]_vars =>
        [\A c \in Campaigns : campaign[c] # None /\ campaign[c].status = "ended" =>
            campaign'[c] = None \/ campaign'[c].status = "ended"]_vars
  BY StepKeepsEnded DEF Keeps
<1> QED
  BY <1>1, Invariance, PTL DEF Spec, EndedStaysEnded
-----------------------------------------------------------------------------
(***************************************************************************)
(* Two relations between campaigns and attributions, for any number of     *)
(* connections.  ReferencesHold: what an attribution names is a campaign   *)
(* that exists and has begun.  Begun is stable: once a version of a        *)
(* campaign has begun, no version follows that has not, until it is        *)
(* deleted.  So what a request learned from an old read may be gone, but   *)
(* it is not wrong; and the foreign keys see to it that a campaign is not  *)
(* gone when a row that names it is written.  CarriedOnce: a campaign's    *)
(* work is inserted under the lock on the campaign's row, so the check     *)
(* that a territory has none is still true at the insert.                  *)
(***************************************************************************)

\* The campaigns a request took for begun.
Learned(m) == { c \in DOMAIN m.seen : Begun(m.seen[c]) } \cup Refs(m.new)

\* Whatever x finds of campaign c, if anything, has begun.
Settled(x, c) ==
    /\ Camp(x)[c] = None \/ Begun(Camp(x)[c])
    /\ \A y \in Transactions :
          c \in DOMAIN campaignW[y] => campaignW[y][c] = None \/ Begun(campaignW[y][c])

\* x finds campaign c, it has begun, and nobody is deleting it.
Standing(x, c) ==
    /\ Begun(Camp(x)[c])
    /\ \A y \in Transactions : c \in DOMAIN campaignW[y] => Begun(campaignW[y][c])

BegunFollows ==
    \A x \in Transactions : \A c \in DOMAIN campaignW[x] :
        Begun(campaign[c]) => campaignW[x][c] = None \/ Begun(campaignW[x][c])

CommittedStand ==
    \A a \in Attributions : \A c \in Refs(attribution[a]) :
        /\ Begun(campaign[c])
        /\ \A y \in Transactions : c \in DOMAIN campaignW[y] => Begun(campaignW[y][c])

WrittenStand ==
    \A x \in Transactions : \A a \in DOMAIN attributionW[x] :
        \A c \in Refs(attributionW[x][a]) : Standing(x, c)

LearnedSettled == \A x \in Transactions : \A c \in Learned(tx[x]) : Settled(x, c)

\* A request pauses for a campaign it holds locked, and deletes one, or inserts
\* one, before it wrote an attribution.
Ready(m, cw, aw) ==
    /\ m.at \in {"pick", "pause"} => m.c \in DOMAIN cw /\ Begun(cw[m.c])
    /\ m.at \in {"idle", "create", "delete"} => DOMAIN aw = {}

AllReady == \A x \in Transactions : Ready(tx[x], campaignW[x], attributionW[x])

RefsInv == BegunFollows /\ CommittedStand /\ WrittenStand /\ LearnedSettled /\ AllReady

-----------------------------------------------------------------------------
(* What a request may conclude.                                            *)

LEMMA OverAt ==
    ASSUME NEW K, NEW R, NEW table \in [K -> R], NEW written, NEW k \in K
    PROVE  Over(table, written)[k] = IF k \in DOMAIN written THEN written[k] ELSE table[k]
BY DEF Over

(* An attribution names campaigns.                                         *)
LEMMA RefsTyped ==
    ASSUME NEW row \in AttributionRow \cup {None}
    PROVE  Refs(row) \subseteq Campaigns
BY DEF Refs, AttributionRow

(* All that is named or remembered is a campaign.                          *)
LEMMA NamesTyped ==
    ASSUME IInv
    PROVE  /\ \A a \in Attributions : Refs(attribution[a]) \subseteq Campaigns
           /\ \A y \in Transactions : \A a \in DOMAIN attributionW[y] :
                 Refs(attributionW[y][a]) \subseteq Campaigns
           /\ \A y \in Transactions : Learned(tx[y]) \subseteq Campaigns
<1>1. \A a \in Attributions : attribution[a] \in AttributionRow \cup {None}
  BY DEF IInv, TypeOK
<1>2. ASSUME NEW y \in Transactions, NEW a \in DOMAIN attributionW[y]
      PROVE  attributionW[y][a] \in AttributionRow
  <2>1. attributionW[y] \in Partial(Attributions, AttributionRow)
    BY DEF IInv, TypeOK
  <2> QED
    BY <2>1, PartialElim
<1>3. ASSUME NEW y \in Transactions
      PROVE  Learned(tx[y]) \subseteq Campaigns
  <2>1. tx[y].seen \in Partial(Campaigns, CampaignRow) /\ tx[y].new \in AttributionRow \cup {None}
    BY Known DEF Memory
  <2>2. DOMAIN tx[y].seen \subseteq Campaigns /\ Refs(tx[y].new) \subseteq Campaigns
    BY <2>1, PartialElim, RefsTyped
  <2> QED
    BY <2>2 DEF Learned
<1> QED
  BY <1>1, <1>2, <1>3, RefsTyped

(* A request that finds a campaign begun will not find a version of it     *)
(* that has not.                                                           *)
LEMMA Learn ==
    ASSUME IInv, RefsInv, NEW x \in Transactions, NEW c \in Campaigns, Begun(Camp(x)[c])
    PROVE  Settled(x, c)
<1>1. CASE c \in DOMAIN campaignW[x]
  <2>1. Camp(x)[c] = campaignW[x][c]
    BY <1>1, CampTyped DEF IInv
  <2>2. \A y \in Transactions : c \in DOMAIN campaignW[y] => y = x
    BY <1>1 DEF IInv, CampaignLocks
  <2> QED
    BY <2>1, <2>2 DEF Settled
<1>2. CASE c \notin DOMAIN campaignW[x]
  <2>1. Camp(x)[c] = campaign[c]
    BY <1>2, CampTyped DEF IInv
  <2> QED
    BY <2>1 DEF Settled, RefsInv, BegunFollows
<1> QED
  BY <1>1, <1>2

(* What an attribution names when a request reads it.                      *)
LEMMA RefStands ==
    ASSUME IInv, RefsInv, NEW x \in Transactions, NEW a \in Attributions,
           NEW c \in Refs(Att(x)[a])
    PROVE  Standing(x, c)
<1>1. attribution \in [Attributions -> AttributionRow \cup {None}]
  BY DEF IInv, TypeOK
<1>2. Att(x)[a] = IF a \in DOMAIN attributionW[x] THEN attributionW[x][a] ELSE attribution[a]
  BY <1>1 DEF Att, Over
<1>3. CASE a \in DOMAIN attributionW[x]
  BY <1>2, <1>3 DEF RefsInv, WrittenStand
<1>4. CASE a \notin DOMAIN attributionW[x]
  <2>1. /\ Begun(campaign[c])
        /\ \A y \in Transactions : c \in DOMAIN campaignW[y] => Begun(campaignW[y][c])
    BY <1>2, <1>4 DEF RefsInv, CommittedStand
  <2>2. c \in Campaigns
    BY Known, RefsTyped
  <2>3. Begun(Camp(x)[c])
    BY <2>1, <2>2, CampTyped DEF IInv
  <2> QED
    BY <2>1, <2>3 DEF Standing
<1> QED
  BY <1>3, <1>4

-----------------------------------------------------------------------------
(* One step of one request.                                                *)

(* A step that only reads.                                                 *)
LEMMA ReadRefs ==
    ASSUME IInv, RefsInv, NEW x \in Transactions, NEW m, Go(x, m), Reads,
           \A c \in Learned(m) : Settled(x, c),
           Ready(m, campaignW[x], attributionW[x])
    PROVE  RefsInv'
<1>1. tx'[x] = m /\ \A y \in Others(x) : tx'[y] = tx[y]
  BY DEF Go, IInv, TypeOK, Others
<1>2. UNCHANGED <<today, campaign, attribution, campaignW, attributionW>>
  BY DEF Reads
<1>3. \A y \in Transactions : UNCHANGED Camp(y)
  BY <1>2 DEF Camp
<1>4. BegunFollows' /\ CommittedStand' /\ WrittenStand'
  BY <1>2, <1>3 DEF RefsInv, BegunFollows, CommittedStand, WrittenStand, Standing
<1>5. LearnedSettled'
  <2> SUFFICES ASSUME NEW y \in Transactions, NEW c \in Learned(tx'[y])
               PROVE  Settled(y, c)
    BY <1>2, <1>3 DEF LearnedSettled, Settled
  <2>1. CASE y = x
    BY <1>1, <2>1
  <2>2. CASE y # x
    BY <1>1, <2>2 DEF RefsInv, LearnedSettled, Others
  <2> QED
    BY <2>1, <2>2
<1>6. AllReady'
  <2> SUFFICES ASSUME NEW y \in Transactions
               PROVE  Ready(tx'[y], campaignW[y], attributionW[y])
    BY <1>2 DEF AllReady
  <2>1. CASE y = x
    BY <1>1, <2>1
  <2>2. CASE y # x
    BY <1>1, <2>2 DEF RefsInv, AllReady, Others
  <2> QED
    BY <2>1, <2>2
<1> QED
  BY <1>4, <1>5, <1>6 DEF RefsInv


(* What a step that writes campaign c changes of what requests find.       *)
LEMMA CampaignWritten ==
    ASSUME IInv, NEW x \in Transactions, NEW c \in Campaigns, NEW row \in CampaignVersion,
           WriteCampaign(x, c, row), WritesCampaign, CampaignFree(x, c)
    PROVE  /\ Camp(x)'[c] = row
           /\ \A d \in Campaigns \ {c} : \A y \in Transactions : Camp(y)'[d] = Camp(y)[d]
           /\ \A y \in Others(x) : Camp(y)'[c] = Camp(y)[c] /\ Camp(y)[c] = campaign[c]
           /\ \A y \in Transactions, d \in Campaigns \ {c} : d \in DOMAIN campaignW'[y] =>
                 d \in DOMAIN campaignW[y] /\ campaignW'[y][d] = campaignW[y][d]
           /\ \A y \in Transactions :
                 c \in DOMAIN campaignW'[y] => y = x /\ campaignW'[y][c] = row
<1>1. /\ campaignW' \in [Transactions -> Partial(Campaigns, CampaignVersion)]
      /\ DOMAIN campaignW'[x] = DOMAIN campaignW[x] \cup {c}
      /\ campaignW'[x][c] = row
      /\ \A d \in DOMAIN campaignW[x] \ {c} : campaignW'[x][d] = campaignW[x][d]
      /\ \A y \in Others(x) : campaignW'[y] = campaignW[y]
  BY WriteCampaignFacts DEF IInv
<1>2. campaign' = campaign /\ campaign \in [Campaigns -> CampaignVersion]
  BY DEF WritesCampaign, IInv, TypeOK, CampaignVersion
<1>3. \A y \in Transactions : \A d \in Campaigns :
         /\ Camp(y)'[d] = IF d \in DOMAIN campaignW'[y] THEN campaignW'[y][d] ELSE campaign[d]
         /\ Camp(y)[d] = IF d \in DOMAIN campaignW[y] THEN campaignW[y][d] ELSE campaign[d]
  BY <1>2 DEF Camp, Over
<1>4. \A y \in Others(x) : c \notin DOMAIN campaignW[y]
  BY DEF CampaignFree
<1> QED
  BY <1>1, <1>3, <1>4 DEF Others


(* A step that writes a version of campaign c that nobody can object to.   *)
LEMMA CampaignRefs ==
    ASSUME IInv, RefsInv, NEW x \in Transactions, NEW m,
           NEW c \in Campaigns, NEW row \in CampaignVersion,
           Go(x, m), WritesCampaign, WriteCampaign(x, c, row), CampaignFree(x, c),
           Begun(campaign[c]) => row = None \/ Begun(row),
           \A a \in Attributions : c \in Refs(attribution[a]) => Begun(row),
           \A y \in Transactions : \A a \in DOMAIN attributionW[y] :
               c \in Refs(attributionW[y][a]) => Begun(row),
           \A y \in Others(x) : c \in Learned(tx[y]) => row = None \/ Begun(row),
           \A d \in Learned(m) : d \in Learned(tx[x]) /\ (d = c => row = None \/ Begun(row)),
           Ready(m, campaignW'[x], attributionW[x])
    PROVE  RefsInv'
<1>1. tx'[x] = m /\ \A y \in Others(x) : tx'[y] = tx[y]
  BY DEF Go, IInv, TypeOK, Others
<1>2. UNCHANGED <<today, campaign, attribution, attributionW>>
  BY DEF WritesCampaign
<1>3. /\ Camp(x)'[c] = row
      /\ \A d \in Campaigns \ {c} : \A y \in Transactions : Camp(y)'[d] = Camp(y)[d]
      /\ \A y \in Others(x) : Camp(y)'[c] = Camp(y)[c] /\ Camp(y)[c] = campaign[c]
      /\ \A y \in Transactions, d \in Campaigns \ {c} : d \in DOMAIN campaignW'[y] =>
            d \in DOMAIN campaignW[y] /\ campaignW'[y][d] = campaignW[y][d]
      /\ \A y \in Transactions :
            c \in DOMAIN campaignW'[y] => y = x /\ campaignW'[y][c] = row
  BY CampaignWritten
<1>4. /\ \A a \in Attributions : Refs(attribution[a]) \subseteq Campaigns
      /\ \A y \in Transactions : \A a \in DOMAIN attributionW[y] :
            Refs(attributionW[y][a]) \subseteq Campaigns
      /\ \A y \in Transactions : DOMAIN campaignW'[y] \subseteq Campaigns
      /\ \A y \in Transactions : Learned(tx[y]) \subseteq Campaigns
  <2>1. \A y \in Transactions : DOMAIN campaignW'[y] \subseteq Campaigns
    BY WriteCampaignFacts, CampTyped DEF IInv, Others
  <2> QED
    BY <2>1, NamesTyped
<1>5. BegunFollows'
  <2> SUFFICES ASSUME NEW y \in Transactions, NEW d \in DOMAIN campaignW'[y], Begun(campaign[d])
               PROVE  campaignW'[y][d] = None \/ Begun(campaignW'[y][d])
    BY <1>2 DEF BegunFollows
  <2>1. CASE d = c
    BY <1>3, <2>1
  <2>2. CASE d # c
    BY <1>3, <1>4, <2>2 DEF RefsInv, BegunFollows
  <2> QED
    BY <2>1, <2>2
<1>6. CommittedStand'
  <2> SUFFICES ASSUME NEW a \in Attributions, NEW d \in Refs(attribution[a])
               PROVE  /\ Begun(campaign[d])
                      /\ \A y \in Transactions : d \in DOMAIN campaignW'[y] => Begun(campaignW'[y][d])
    BY <1>2 DEF CommittedStand
  <2>1. /\ Begun(campaign[d])
        /\ \A y \in Transactions : d \in DOMAIN campaignW[y] => Begun(campaignW[y][d])
    BY DEF RefsInv, CommittedStand
  <2>2. CASE d = c
    BY <1>3, <2>1, <2>2
  <2>3. CASE d # c
    BY <1>3, <1>4, <2>1, <2>3
  <2> QED
    BY <2>2, <2>3
<1>7. WrittenStand'
  <2> SUFFICES ASSUME NEW y \in Transactions, NEW a \in DOMAIN attributionW[y],
                      NEW d \in Refs(attributionW[y][a])
               PROVE  Standing(y, d)'
    BY <1>2 DEF WrittenStand
  <2>1. Standing(y, d)
    BY DEF RefsInv, WrittenStand
  <2>2. CASE d = c
    BY <1>3, <2>1, <2>2 DEF Standing, Others
  <2>3. CASE d # c
    BY <1>3, <1>4, <2>1, <2>3 DEF Standing
  <2> QED
    BY <2>2, <2>3
<1>8. LearnedSettled'
  <2> SUFFICES ASSUME NEW y \in Transactions, NEW d \in Learned(tx'[y])
               PROVE  Settled(y, d)'
    BY DEF LearnedSettled, Learned
  <2>1. d \in Learned(tx[y]) /\ (d = c => row = None \/ Begun(row))
    BY <1>1 DEF Others
  <2>2. Settled(y, d)
    BY <2>1 DEF RefsInv, LearnedSettled
  <2>3. CASE d = c
    BY <1>3, <2>1, <2>2, <2>3 DEF Settled, Others
  <2>4. CASE d # c
    BY <1>3, <1>4, <2>1, <2>2, <2>4 DEF Settled
  <2> QED
    BY <2>3, <2>4
<1>9. AllReady'
  <2> SUFFICES ASSUME NEW y \in Transactions
               PROVE  Ready(tx'[y], campaignW'[y], attributionW[y])
    BY <1>2 DEF AllReady
  <2>1. CASE y = x
    BY <1>1, <2>1
  <2>2. CASE y # x
    <3>1. campaignW'[y] = campaignW[y]
      BY <2>2, WriteCampaignFacts DEF IInv, Others
    <3> QED
      BY <1>1, <2>2, <3>1 DEF RefsInv, AllReady, Others
  <2> QED
    BY <2>1, <2>2
<1> QED
  BY <1>5, <1>6, <1>7, <1>8, <1>9 DEF RefsInv


(* The stamps, the update and the new scope: what has begun stays begun.   *)
LEMMA AdvanceRefs ==
    ASSUME IInv, RefsInv, NEW x \in Transactions, NEW m,
           NEW c \in Campaigns, NEW row \in CampaignRow,
           Go(x, m), WritesCampaign, WriteCampaign(x, c, row), CampaignFree(x, c),
           Camp(x)[c] # None, Begun(Camp(x)[c]) => Begun(row),
           Learned(m) \subseteq Learned(tx[x]),
           Ready(m, campaignW'[x], attributionW[x])
    PROVE  RefsInv'
<1>1. row \in CampaignVersion
  BY DEF CampaignVersion
<1>2. Camp(x)[c] = IF c \in DOMAIN campaignW[x] THEN campaignW[x][c] ELSE campaign[c]
  BY CampTyped DEF IInv
<1>3. \A y \in Others(x) : Camp(y)[c] = campaign[c]
  BY CampTyped DEF IInv, CampaignFree, Others
<1>4. Begun(campaign[c]) => Begun(row)
  BY <1>2 DEF RefsInv, BegunFollows
<1>5. \A a \in Attributions : c \in Refs(attribution[a]) => Begun(row)
  BY <1>4 DEF RefsInv, CommittedStand
<1>6. ASSUME NEW y \in Transactions, Standing(y, c)
      PROVE  Begun(row)
  <2>1. CASE y = x
    BY <1>6, <2>1 DEF Standing
  <2>2. CASE y # x
    BY <1>3, <1>4, <1>6, <2>2 DEF Standing, Others
  <2> QED
    BY <2>1, <2>2
<1>7. \A y \in Transactions : \A a \in DOMAIN attributionW[y] :
         c \in Refs(attributionW[y][a]) => Begun(row)
  BY <1>6 DEF RefsInv, WrittenStand
<1>8. ASSUME NEW y \in Transactions, c \in Learned(tx[y])
      PROVE  Begun(row)
  <2>1. Settled(y, c)
    BY <1>8 DEF RefsInv, LearnedSettled
  <2>2. CASE c \in DOMAIN campaignW[x]
    BY <1>2, <2>1, <2>2 DEF Settled
  <2>3. CASE c \notin DOMAIN campaignW[x]
    <3>1. Camp(y)[c] = campaign[c] /\ Camp(x)[c] = campaign[c]
      BY <1>2, <1>3, <2>3 DEF Others
    <3> QED
      BY <1>4, <2>1, <3>1 DEF Settled
  <2> QED
    BY <2>2, <2>3
<1> QED
  BY <1>1, <1>4, <1>5, <1>7, <1>8, CampaignRefs DEF Others

(* A step that writes attributions which name what stands.                 *)
LEMMA AttributionRefs ==
    ASSUME IInv, RefsInv, NEW x \in Transactions, NEW m, NEW rows,
           Go(x, m), WritesAttributions, WriteAttributions(x, rows),
           \A a \in DOMAIN rows : \A c \in Refs(rows[a]) : Standing(x, c),
           Learned(m) \subseteq Learned(tx[x]),
           Ready(m, campaignW[x], attributionW'[x])
    PROVE  RefsInv'
<1>1. tx'[x] = m /\ \A y \in Others(x) : tx'[y] = tx[y]
  BY DEF Go, IInv, TypeOK, Others
<1>2. UNCHANGED <<today, campaign, attribution, campaignW>>
  BY DEF WritesAttributions
<1>3. \A y \in Transactions : UNCHANGED Camp(y)
  BY <1>2 DEF Camp
<1>4. \A y \in Others(x) : attributionW'[y] = attributionW[y]
  BY DEF WriteAttributions, IInv, TypeOK, Others
<1>5. /\ DOMAIN attributionW'[x] = DOMAIN attributionW[x] \cup DOMAIN rows
      /\ \A a \in DOMAIN rows : attributionW'[x][a] = rows[a]
      /\ \A a \in DOMAIN attributionW[x] \ DOMAIN rows : attributionW'[x][a] = attributionW[x][a]
  <2>1. attributionW'[x] = Put(attributionW[x], rows)
    BY DEF WriteAttributions, IInv, TypeOK
  <2> QED
    BY <2>1 DEF Put
<1>6. BegunFollows' /\ CommittedStand'
  BY <1>2 DEF RefsInv, BegunFollows, CommittedStand
<1>7. WrittenStand'
  <2> SUFFICES ASSUME NEW y \in Transactions, NEW a \in DOMAIN attributionW'[y],
                      NEW c \in Refs(attributionW'[y][a])
               PROVE  Standing(y, c)
    BY <1>2, <1>3 DEF WrittenStand, Standing
  <2>1. CASE y = x /\ a \in DOMAIN rows
    BY <1>5, <2>1
  <2>2. CASE y = x /\ a \notin DOMAIN rows
    BY <1>5, <2>2 DEF RefsInv, WrittenStand
  <2>3. CASE y # x
    BY <1>4, <2>3 DEF RefsInv, WrittenStand, Others
  <2> QED
    BY <2>1, <2>2, <2>3
<1>8. LearnedSettled'
  <2> SUFFICES ASSUME NEW y \in Transactions, NEW c \in Learned(tx'[y])
               PROVE  Settled(y, c)
    BY <1>2, <1>3 DEF LearnedSettled, Settled
  <2> QED
    BY <1>1 DEF RefsInv, LearnedSettled, Others
<1>9. AllReady'
  <2> SUFFICES ASSUME NEW y \in Transactions
               PROVE  Ready(tx'[y], campaignW[y], attributionW'[y])
    BY <1>2 DEF AllReady
  <2> QED
    BY <1>1, <1>4 DEF RefsInv, AllReady, Others
<1> QED
  BY <1>6, <1>7, <1>8, <1>9 DEF RefsInv


-----------------------------------------------------------------------------
(* The reads.                                                              *)

(* A request that starts afresh has learned nothing.                       *)
LEMMA LearnedAfresh ==
    ASSUME NEW m, m.seen = Nothing, m.new = None
    PROVE  Learned(m) = {}
BY DEF Learned, Nothing, Refs

(* The campaigns of a query are taken for what they are.                   *)
LEMMA SnapshotRefs ==
    ASSUME IInv, RefsInv, NEW x \in Transactions, NEW S \in SUBSET Campaigns,
           NEW c \in DOMAIN Snapshot(Camp(x), S), Begun(Snapshot(Camp(x), S)[c])
    PROVE  Settled(x, c)
BY Learn DEF Snapshot

(* A row that may be inserted names the campaign that was found active.    *)
LEMMA NewNames ==
    ASSUME IInv, RefsInv, NEW x \in Transactions, NEW p, NEW t, NEW layer \in Campaigns \cup {None},
           MayAssign(Camp(x), Att(x), p, t, layer)
    PROVE  \A c \in Refs(NewAttribution(p, t, layer)) : Settled(x, c)
<1>1. \A c \in Refs(NewAttribution(p, t, layer)) : c = layer /\ c # None
  BY DEF Refs, NewAttribution
<1>2. \A c \in Active(Camp(x)) : Begun(Camp(x)[c]) /\ c \in Campaigns
  BY DEF Active, Begun
<1> QED
  BY <1>1, <1>2, Learn DEF MayAssign

LEMMA BeginRefs ==
    ASSUME IInv, RefsInv, NEW x \in Transactions, Begin(x)
    PROVE  RefsInv'
<1>1. CASE BeginSweep(x)
  <2> DEFINE m == [Idle EXCEPT !.at = "due", !.kind = "sweep"]
  <2>1. Go(x, m) /\ Reads
    BY <1>1 DEF BeginSweep
  <2>2. Ready(m, campaignW[x], attributionW[x]) /\ m.seen = Nothing /\ m.new = None
    BY DEF Ready, Idle
  <2> HIDE DEF m
  <2> QED
    BY <2>1, <2>2, LearnedAfresh, ReadRefs
<1>2. ASSUME NEW scope \in Scopes, NEW w \in Windows, BeginCreate(x, w, scope)
      PROVE  RefsInv'
  <2> DEFINE row == [startDate |-> w[1], endDate |-> w[2], scope |-> scope, status |-> "scheduled"]
             m == [Idle EXCEPT !.at = "create", !.kind = "create", !.fresh = row]
  <2>1. Go(x, m) /\ Reads /\ At(x, "idle")
    BY <1>2 DEF BeginCreate
  <2> HIDE DEF row
  <2>2. Ready(m, campaignW[x], attributionW[x]) /\ m.seen = Nothing /\ m.new = None
    BY <2>1 DEF RefsInv, AllReady, Ready, Idle, At
  <2> HIDE DEF m
  <2> QED
    BY <2>1, <2>2, LearnedAfresh, ReadRefs
<1>3. ASSUME NEW scope \in Scopes, NEW c \in Campaigns, BeginEdit(x, c, scope)
      PROVE  RefsInv'
  <2> DEFINE seen == Snapshot(Camp(x), {c})
             m == [Idle EXCEPT !.at = "update", !.kind = "edit", !.c = c, !.scope = scope,
                               !.seen = seen]
  <2>1. Go(x, m) /\ Reads
    BY <1>3 DEF BeginEdit
  <2>2. \A d \in DOMAIN seen : Begun(seen[d]) => Settled(x, d)
    BY SnapshotRefs
  <2> HIDE DEF seen
  <2>3. m.seen = seen /\ m.new = None /\ Ready(m, campaignW[x], attributionW[x])
    BY DEF Ready, Idle
  <2> HIDE DEF m
  <2>4. \A d \in Learned(m) : Settled(x, d)
    BY <2>2, <2>3 DEF Learned, Refs
  <2> QED
    BY <2>1, <2>3, <2>4, ReadRefs
<1>4. ASSUME NEW c \in Campaigns, BeginEnd(x, c)
      PROVE  RefsInv'
  <2> DEFINE seen == Snapshot(Camp(x), {c})
             m == [Idle EXCEPT !.at = "ending", !.kind = "end", !.seen = seen]
  <2>1. Go(x, m) /\ Reads
    BY <1>4 DEF BeginEnd
  <2>2. \A d \in DOMAIN seen : Begun(seen[d]) => Settled(x, d)
    BY SnapshotRefs
  <2> HIDE DEF seen
  <2>3. m.seen = seen /\ m.new = None /\ Ready(m, campaignW[x], attributionW[x])
    BY DEF Ready, Idle
  <2> HIDE DEF m
  <2>4. \A d \in Learned(m) : Settled(x, d)
    BY <2>2, <2>3 DEF Learned, Refs
  <2> QED
    BY <2>1, <2>3, <2>4, ReadRefs
<1>5. ASSUME NEW c \in Campaigns, BeginDelete(x, c)
      PROVE  RefsInv'
  <2> DEFINE m == [Idle EXCEPT !.at = "delete", !.kind = "delete", !.c = c]
  <2>1. Go(x, m) /\ Reads /\ At(x, "idle")
    BY <1>5 DEF BeginDelete
  <2>2. Ready(m, campaignW[x], attributionW[x]) /\ m.seen = Nothing /\ m.new = None
    BY <2>1 DEF RefsInv, AllReady, Ready, Idle, At
  <2> HIDE DEF m
  <2> QED
    BY <2>1, <2>2, LearnedAfresh, ReadRefs
<1>6. ASSUME NEW p \in Publishers, NEW t \in Territories, NEW layer \in Campaigns \cup {None},
             BeginAssign(x, p, t, layer)
      PROVE  RefsInv'
  <2> DEFINE new == NewAttribution(p, t, layer)
             m == [Idle EXCEPT !.at = "insert", !.kind = "assign", !.new = new]
  <2>1. Go(x, m) /\ Reads /\ MayAssign(Camp(x), Att(x), p, t, layer)
    BY <1>6 DEF BeginAssign
  <2>2. \A d \in Refs(new) : Settled(x, d)
    BY <2>1, NewNames
  <2> HIDE DEF new
  <2>3. m.seen = Nothing /\ m.new = new /\ Ready(m, campaignW[x], attributionW[x])
    BY DEF Ready, Idle
  <2> HIDE DEF m
  <2>4. \A d \in Learned(m) : Settled(x, d)
    BY <2>2, <2>3 DEF Learned, Nothing
  <2> QED
    BY <2>1, <2>3, <2>4, ReadRefs
<1>7. ASSUME NEW a \in Attributions, BeginResume(x, a)
      PROVE  RefsInv'
  <2> DEFINE m == [Idle EXCEPT !.at = "resume", !.kind = "resume", !.rows = {a}]
  <2>1. Go(x, m) /\ Reads
    BY <1>7 DEF BeginResume
  <2>2. Ready(m, campaignW[x], attributionW[x]) /\ m.seen = Nothing /\ m.new = None
    BY DEF Ready, Idle
  <2> HIDE DEF m
  <2> QED
    BY <2>1, <2>2, LearnedAfresh, ReadRefs
<1> QED
  BY <1>1, <1>2, <1>3, <1>4, <1>5, <1>6, <1>7 DEF Begin


(* The statements that only read.                                          *)
LEMMA FindRefs ==
    ASSUME IInv, RefsInv, NEW x \in Transactions,
           \/ FindDue(x) \/ FindRegulars(x) \/ CarriedOver(x) \/ NextActivation(x) \/ Finish(x)
           \/ TurnToRemoved(x) \/ \E a \in Attributions : CarryOver(x, a)
    PROVE  RefsInv'
<1>1. /\ tx[x] \in Memory
      /\ \A c \in Learned(tx[x]) : Settled(x, c)
      /\ Ready(tx[x], campaignW[x], attributionW[x])
  BY Known DEF RefsInv, LearnedSettled, AllReady
<1>2. ASSUME NEW m, Go(x, m), Reads, m.at \notin {"pick", "pause", "idle", "create", "delete"},
             m.seen = tx[x].seen, m.new = tx[x].new
      PROVE  RefsInv'
  BY <1>1, <1>2, ReadRefs DEF Learned, Ready
<1>3. CASE FindDue(x)
  <2> DEFINE seen == Snapshot(Camp(x), DueToActivate(Camp(x)))
             m == [Idle EXCEPT !.at = "activate", !.kind = "sweep", !.seen = seen]
  <2>1. Go(x, m) /\ Reads
    BY <1>3 DEF FindDue
  <2>2. \A d \in DOMAIN seen : Begun(seen[d]) => Settled(x, d)
    BY SnapshotRefs DEF DueToActivate
  <2> HIDE DEF seen
  <2>3. m.seen = seen /\ m.new = None /\ Ready(m, campaignW[x], attributionW[x])
    BY DEF Ready, Idle
  <2> HIDE DEF m
  <2>4. \A d \in Learned(m) : Settled(x, d)
    BY <2>2, <2>3 DEF Learned, Refs
  <2> QED
    BY <2>1, <2>3, <2>4, ReadRefs
<1>4. CASE FindRegulars(x)
  <2> DEFINE m == [tx[x] EXCEPT !.at = "pause", !.rows = OpenRegulars(Att(x), tx[x].area)]
  <2>1. Go(x, m) /\ Reads /\ At(x, "pick")
    BY <1>4 DEF FindRegulars
  <2>2. m.seen = tx[x].seen /\ m.new = tx[x].new /\ m.c = tx[x].c /\ m.at = "pause"
    BY <1>1 DEF Memory
  <2>3. Ready(m, campaignW[x], attributionW[x])
    BY <1>1, <2>1, <2>2 DEF Ready, At
  <2>4. Learned(m) = Learned(tx[x])
    BY <2>2 DEF Learned
  <2> HIDE DEF m
  <2> QED
    BY <1>1, <2>1, <2>3, <2>4, ReadRefs
<1>5. CASE CarriedOver(x) \/ Finish(x) \/ TurnToRemoved(x)
  <2> DEFINE over == [tx[x] EXCEPT !.at = "over"]
             done == [tx[x] EXCEPT !.at = "commit"]
             area == Effective(tx[x].seen[tx[x].c].scope) \ Effective(tx[x].scope)
             turn == [tx[x] EXCEPT !.at = "close", !.area = area]
  <2>1. Reads /\ (Go(x, over) \/ Go(x, done) \/ Go(x, turn))
    BY <1>5 DEF CarriedOver, Finish, TurnToRemoved
  <2> HIDE DEF area
  <2>2. /\ over.at = "over" /\ over.seen = tx[x].seen /\ over.new = tx[x].new
        /\ done.at = "commit" /\ done.seen = tx[x].seen /\ done.new = tx[x].new
        /\ turn.at = "close" /\ turn.seen = tx[x].seen /\ turn.new = tx[x].new
    BY <1>1 DEF Memory
  <2> HIDE DEF over, done, turn
  <2> QED
    BY <1>2, <2>1, <2>2
<1>6. CASE NextActivation(x)
  <2> DEFINE seen == Snapshot(Camp(x), DueToEnd(Camp(x)))
             more == [tx[x] EXCEPT !.at = "activate"]
             turn == [tx[x] EXCEPT !.at = "ending", !.seen = seen]
  <2>1. Reads /\ (Go(x, more) \/ Go(x, turn))
    BY <1>6 DEF NextActivation
  <2>2. \A d \in DOMAIN seen : Begun(seen[d]) => Settled(x, d)
    BY SnapshotRefs DEF DueToEnd
  <2> HIDE DEF seen
  <2>3. /\ more.at = "activate" /\ more.seen = tx[x].seen /\ more.new = tx[x].new
        /\ turn.at = "ending" /\ turn.seen = seen /\ turn.new = tx[x].new
    BY <1>1 DEF Memory
  <2> HIDE DEF more, turn
  <2>4. Ready(turn, campaignW[x], attributionW[x]) /\ \A d \in Learned(turn) : Settled(x, d)
    BY <1>1, <2>2, <2>3 DEF Learned, Ready
  <2> QED
    BY <1>2, <2>1, <2>3, <2>4, ReadRefs
<1>7. ASSUME NEW a \in Attributions, CarryOver(x, a)
      PROVE  RefsInv'
  <2> DEFINE p == Att(x)[a].publisherId
             t == Att(x)[a].territoryId
             new == NewAttribution(p, t, tx[x].c)
             taken == [tx[x] EXCEPT !.at = "insert", !.rows = @ \ {a}, !.new = new]
             skipped == [tx[x] EXCEPT !.rows = @ \ {a}]
  <2>1. /\ Reads /\ At(x, "carry")
        /\ \/ MayAssign(Camp(x), Att(x), p, t, tx[x].c) /\ Go(x, taken)
           \/ Go(x, skipped)
    BY <1>7 DEF CarryOver
  <2>2. MayAssign(Camp(x), Att(x), p, t, tx[x].c) => \A d \in Refs(new) : Settled(x, d)
    BY <1>1, NewNames DEF Memory
  <2> HIDE DEF p, t, new
  <2>3. /\ taken.at = "insert" /\ taken.seen = tx[x].seen /\ taken.new = new
        /\ skipped.at = "carry" /\ skipped.seen = tx[x].seen /\ skipped.new = tx[x].new
    BY <1>1, <2>1 DEF Memory, At
  <2> HIDE DEF taken, skipped
  <2>4. CASE MayAssign(Camp(x), Att(x), p, t, tx[x].c) /\ Go(x, taken)
    <3>1. Ready(taken, campaignW[x], attributionW[x]) /\ \A d \in Learned(taken) : Settled(x, d)
      BY <1>1, <2>2, <2>3, <2>4 DEF Learned, Ready
    <3> QED
      BY <2>1, <2>4, <3>1, ReadRefs
  <2> QED
    BY <1>2, <2>1, <2>3, <2>4
<1> QED
  BY <1>3, <1>4, <1>5, <1>6, <1>7


-----------------------------------------------------------------------------
(* The statements that write a campaign.                                   *)

(* A stamp.                                                                *)
LEMMA MarkRefs ==
    ASSUME IInv, RefsInv, NEW x \in Transactions, NEW c \in Campaigns,
           MarkActivated(x, c) \/ MarkEnded(x, c)
    PROVE  RefsInv'
<1>1. tx[x] \in Memory
  BY Known
<1>2. Forget(tx[x].seen, c) = [d \in DOMAIN tx[x].seen \ {c} |-> tx[x].seen[d]]
  BY DEF Forget
<1>3. CASE MarkActivated(x, c)
  <2> DEFINE row == [Camp(x)[c] EXCEPT !.status = IF @ = "scheduled" THEN "active" ELSE @]
             area == Effective(tx[x].seen[c].scope)
             m == [tx[x] EXCEPT !.at = "pick", !.c = c, !.seen = Forget(@, c), !.area = area]
  <2>1. /\ CampaignFree(x, c) /\ Camp(x)[c] # None
        /\ WriteCampaign(x, c, row) /\ Go(x, m) /\ WritesCampaign
    BY <1>3 DEF MarkActivated
  <2>2. Camp(x)[c] \in CampaignRow
    BY <2>1, Known DEF CampaignVersion
  <2>3. row \in CampaignRow /\ Begun(row)
    BY <2>2, ConcurrencyAssumption DEF CampaignRow, Begun
  <2> HIDE DEF row, area
  <2>4. m.at = "pick" /\ m.c = c /\ m.seen = Forget(tx[x].seen, c) /\ m.new = tx[x].new
    BY <1>1 DEF Memory
  <2> HIDE DEF m
  <2>5. Learned(m) \subseteq Learned(tx[x])
    BY <1>2, <2>4 DEF Learned
  <2>6. c \in DOMAIN campaignW'[x] /\ campaignW'[x][c] = row
    BY <2>1, <2>3, Known, WriteCampaignFacts DEF CampaignVersion
  <2>7. Ready(m, campaignW'[x], attributionW[x])
    BY <2>3, <2>4, <2>6 DEF Ready
  <2> QED
    BY <2>1, <2>3, <2>5, <2>7, AdvanceRefs
<1>4. CASE MarkEnded(x, c)
  <2> DEFINE row == [Camp(x)[c] EXCEPT !.status = "ended"]
             m == [tx[x] EXCEPT !.at = "close", !.c = c, !.seen = Forget(@, c), !.area = Territories]
  <2>1. /\ CampaignFree(x, c) /\ Camp(x)[c] # None
        /\ WriteCampaign(x, c, row) /\ Go(x, m) /\ WritesCampaign
    BY <1>4 DEF MarkEnded
  <2>2. Camp(x)[c] \in CampaignRow
    BY <2>1, Known DEF CampaignVersion
  <2>3. row \in CampaignRow /\ Begun(row)
    BY <2>2, ConcurrencyAssumption DEF CampaignRow, Begun
  <2> HIDE DEF row
  <2>4. m.at = "close" /\ m.seen = Forget(tx[x].seen, c) /\ m.new = tx[x].new
    BY <1>1 DEF Memory
  <2> HIDE DEF m
  <2>5. Learned(m) \subseteq Learned(tx[x]) /\ Ready(m, campaignW'[x], attributionW[x])
    BY <1>2, <2>4 DEF Learned, Ready
  <2> QED
    BY <2>1, <2>3, <2>5, AdvanceRefs
<1> QED
  BY <1>3, <1>4

(* The two writes of an edit.  The campaign an edit found active has begun *)
(* also in the version the update meets, and the lock of the update keeps  *)
(* it so while its rows are paused.                                        *)
LEMMA EditRefs ==
    ASSUME IInv, RefsInv, NEW x \in Transactions, UpdateCampaign(x) \/ ReplaceScope(x)
    PROVE  RefsInv'
<1>1. tx[x] \in Memory
  BY Known
<1>2. CASE UpdateCampaign(x)
  <2> DEFINE c == tx[x].c
             area == Effective(tx[x].scope) \ Effective(tx[x].seen[c].scope)
             m == [tx[x] EXCEPT !.at = IF tx[x].seen[c].status = "active" THEN "pick" ELSE "replace",
                                !.area = area]
  <2>1. /\ At(x, "update") /\ CampaignFree(x, c) /\ Camp(x)[c] # None
        /\ WriteCampaign(x, c, Camp(x)[c]) /\ Go(x, m) /\ WritesCampaign
    BY <1>2 DEF UpdateCampaign
  <2>2. tx[x].kind = "edit" /\ c \in DOMAIN tx[x].seen
    BY <2>1, Known DEF Placed, At
  <2>3. c \in Campaigns /\ Camp(x)[c] \in CampaignRow
    BY <2>1, <2>2, EditScopes, Known DEF CampaignVersion
  <2>4. tx[x].seen[c].status = "active" => Begun(Camp(x)[c])
    <3>1. tx[x].seen \in Partial(Campaigns, CampaignRow)
      BY <1>1 DEF Memory
    <3>2. tx[x].seen[c] # None
      BY <2>2, <3>1, PartialElim, ConcurrencyAssumption
    <3>3. tx[x].seen[c].status = "active" => c \in Learned(tx[x])
      BY <2>2, <3>2 DEF Learned, Begun
    <3> QED
      BY <2>1, <3>3 DEF RefsInv, LearnedSettled, Settled
  <2> HIDE DEF area
  <2>5. /\ m.at \in {"pick", "replace"} /\ m.c = c
        /\ m.at = "pick" => tx[x].seen[c].status = "active"
        /\ m.seen = tx[x].seen /\ m.new = tx[x].new
    BY <1>1 DEF Memory
  <2>6. c \in DOMAIN campaignW'[x] /\ campaignW'[x][c] = Camp(x)[c]
    BY <2>1, <2>3, Known, WriteCampaignFacts DEF CampaignVersion
  <2> HIDE DEF m
  <2>7. Learned(m) \subseteq Learned(tx[x]) /\ Ready(m, campaignW'[x], attributionW[x])
    BY <2>4, <2>5, <2>6 DEF Learned, Ready
  <2> HIDE DEF c
  <2> QED
    BY <2>1, <2>3, <2>7, AdvanceRefs
<1>3. CASE ReplaceScope(x)
  <2> DEFINE c == tx[x].c
             row == [Camp(x)[c] EXCEPT !.scope = tx[x].scope]
             m == [Idle EXCEPT !.at = "due"]
  <2>1. At(x, "replace") /\ WriteCampaign(x, c, row) /\ Go(x, m) /\ WritesCampaign
    BY <1>3 DEF ReplaceScope
  <2>2. c \in DOMAIN campaignW[x] /\ campaignW[x][c] \in CampaignRow
    BY <2>1, Known DEF Placed, At
  <2>3. c \in Campaigns /\ Camp(x)[c] = campaignW[x][c] /\ Camp(x)[c] # None
    BY <2>2, CampTyped, ConcurrencyAssumption DEF IInv
  <2>4. CampaignFree(x, c)
    BY <2>2 DEF CampaignFree, Others, IInv, CampaignLocks
  <2>5. row \in CampaignRow /\ (Begun(Camp(x)[c]) => Begun(row))
    <3>1. Camp(x)[c] \in CampaignRow /\ tx[x].scope \in SUBSET Territories
      BY <1>1, <2>2, <2>3 DEF Memory
    <3>2. row \in CampaignRow /\ row.status = Camp(x)[c].status
      BY <3>1 DEF CampaignRow
    <3>3. row # None
      BY <3>2, ConcurrencyAssumption
    <3> HIDE DEF row
    <3> QED
      BY <3>2, <3>3 DEF Begun
  <2>6. m.at = "due" /\ m.seen = Nothing /\ m.new = None
    BY DEF Idle
  <2> HIDE DEF c, row, m
  <2>7. Learned(m) \subseteq Learned(tx[x]) /\ Ready(m, campaignW'[x], attributionW[x])
    BY <2>6, LearnedAfresh DEF Ready
  <2> QED
    BY <2>1, <2>3, <2>4, <2>5, <2>7, AdvanceRefs
<1> QED
  BY <1>2, <1>3

(* A new campaign is named and remembered by nobody.                       *)
LEMMA InsertCampaignRefs ==
    ASSUME IInv, RefsInv, NEW x \in Transactions, NEW c \in Campaigns, InsertCampaign(x, c)
    PROVE  RefsInv'
<1> DEFINE row == tx[x].fresh
           m == [Idle EXCEPT !.at = "due"]
<1>1. /\ At(x, "create") /\ campaign[c] = None /\ CampaignFree(x, c)
      /\ \A y \in Others(x) : c \notin Remembered(y)
      /\ WriteCampaign(x, c, row) /\ Go(x, m) /\ WritesCampaign
  BY DEF InsertCampaign
<1>2. row \in CampaignVersion /\ DOMAIN attributionW[x] = {}
  BY <1>1, Known DEF Placed, At, CampaignVersion, RefsInv, AllReady, Ready
<1>3. ~Begun(campaign[c])
  BY <1>1 DEF Begun
<1>4. \A a \in Attributions : c \notin Refs(attribution[a])
  BY <1>3 DEF RefsInv, CommittedStand
<1>5. ASSUME NEW y \in Transactions, NEW a \in DOMAIN attributionW[y], c \in Refs(attributionW[y][a])
      PROVE  FALSE
  <2>1. y # x /\ Begun(Camp(y)[c])
    BY <1>2, <1>5 DEF RefsInv, WrittenStand, Standing
  <2>2. Camp(y)[c] = campaign[c]
    BY <1>1, <2>1, CampTyped DEF IInv, CampaignFree, Others
  <2> QED
    BY <1>3, <2>1, <2>2
<1>6. \A y \in Others(x) : c \notin Learned(tx[y])
  BY <1>1 DEF Remembered, Learned
<1>7. m.at = "due" /\ m.seen = Nothing /\ m.new = None
  BY DEF Idle
<1> HIDE DEF row, m
<1>8. Learned(m) = {} /\ Ready(m, campaignW'[x], attributionW[x])
  BY <1>7, LearnedAfresh DEF Ready
<1> QED
  BY <1>1, <1>2, <1>3, <1>4, <1>5, <1>6, <1>8, CampaignRefs

(* A deleted campaign is named by no row, whoever wrote it.                *)
LEMMA DeleteRowRefs ==
    ASSUME IInv, RefsInv, NEW x \in Transactions, DeleteRow(x)
    PROVE  RefsInv'
<1> DEFINE c == tx[x].c
           m == [tx[x] EXCEPT !.at = "commit"]
<1>1. /\ At(x, "delete") /\ CampaignFree(x, c) /\ Unreferenced(x, c)
      /\ WriteCampaign(x, c, None) /\ Go(x, m) /\ WritesCampaign
  BY DEF DeleteRow
<1>2. tx[x] \in Memory /\ c \in Campaigns /\ DOMAIN attributionW[x] = {}
  BY <1>1, Known DEF Placed, At, RefsInv, AllReady, Ready
<1>3. \A a \in Attributions : Att(x)[a] = attribution[a]
  BY <1>2 DEF Att, Over, IInv, TypeOK
<1>4. \A a \in Attributions : c \notin Refs(attribution[a])
  BY <1>1, <1>3 DEF Unreferenced
<1>5. \A y \in Transactions : \A a \in DOMAIN attributionW[y] : c \notin Refs(attributionW[y][a])
  BY <1>1, <1>2 DEF Unreferenced, Others
<1>6. m.at = "commit" /\ m.seen = tx[x].seen /\ m.new = tx[x].new
  BY <1>2 DEF Memory
<1>7. None \in CampaignVersion
  BY DEF CampaignVersion
<1> HIDE DEF c, m
<1>8. Learned(m) = Learned(tx[x]) /\ Ready(m, campaignW'[x], attributionW[x])
  BY <1>6 DEF Learned, Ready
<1> QED
  BY <1>1, <1>2, <1>4, <1>5, <1>7, <1>8, CampaignRefs


-----------------------------------------------------------------------------
(* The statements that write attributions.                                 *)

(* What the changed versions of a row name.                                *)
LEMMA ChangedNames ==
    ASSUME NEW row \in AttributionRow, NEW c
    PROVE  /\ Refs([row EXCEPT !.open = FALSE]) \subseteq Refs(row)
           /\ Refs([row EXCEPT !.pausedByCampaignId = None]) \subseteq Refs(row)
           /\ Refs([row EXCEPT !.pausedByCampaignId = c]) \subseteq Refs(row) \cup {c}
BY ConcurrencyAssumption DEF Refs, AttributionRow

(* The lock on its campaign keeps it standing for the request that pauses. *)
LEMMA PauseRowsRefs ==
    ASSUME IInv, RefsInv, NEW x \in Transactions, PauseRows(x)
    PROVE  RefsInv'
<1> DEFINE rows == { a \in tx[x].rows : Att(x)[a] # None }
           f == [a \in rows |-> [Att(x)[a] EXCEPT !.pausedByCampaignId = tx[x].c]]
           m == [tx[x] EXCEPT !.at = IF startAutoReassign THEN "carry" ELSE "over", !.rows = rows]
<1>1. At(x, "pause") /\ WriteAttributions(x, f) /\ Go(x, m) /\ WritesAttributions
  BY DEF PauseRows
<1>2. tx[x] \in Memory /\ tx[x].rows \subseteq Attributions
  BY Known DEF Memory
<1>3. Standing(x, tx[x].c)
  <2>1. tx[x].c \in DOMAIN campaignW[x] /\ Begun(campaignW[x][tx[x].c])
    BY <1>1 DEF RefsInv, AllReady, Ready, At
  <2>2. Camp(x)[tx[x].c] = campaignW[x][tx[x].c]
    BY <2>1, CampTyped DEF IInv
  <2>3. \A y \in Transactions : tx[x].c \in DOMAIN campaignW[y] => y = x
    BY <2>1 DEF IInv, CampaignLocks
  <2> QED
    BY <2>1, <2>2, <2>3 DEF Standing
<1>4. ASSUME NEW a \in DOMAIN f, NEW c \in Refs(f[a])
      PROVE  Standing(x, c)
  <2>1. a \in Attributions /\ Att(x)[a] \in AttributionRow
    BY <1>2, Known
  <2>2. c \in Refs(Att(x)[a]) \cup {tx[x].c}
    BY <2>1, ChangedNames
  <2> QED
    BY <1>3, <2>1, <2>2, RefStands
<1>5. m.at \in {"carry", "over"} /\ m.seen = tx[x].seen /\ m.new = tx[x].new
  BY <1>2 DEF Memory
<1> HIDE DEF f, m
<1>6. Learned(m) = Learned(tx[x]) /\ Ready(m, campaignW[x], attributionW'[x])
  BY <1>5 DEF Learned, Ready
<1> QED
  BY <1>1, <1>4, <1>6, AttributionRefs

(* The other changes of a row name no more than the row did.               *)
LEMMA ChangeRefs ==
    ASSUME IInv, RefsInv, NEW x \in Transactions, CloseWork(x) \/ ReleaseRows(x) \/ LiftPause(x)
    PROVE  RefsInv'
<1>1. tx[x] \in Memory /\ tx[x].rows \subseteq Attributions
  BY Known DEF Memory
<1>2. ASSUME NEW m, NEW f, Go(x, m), WritesAttributions, WriteAttributions(x, f),
             DOMAIN f \subseteq Attributions,
             \A a \in DOMAIN f : Refs(f[a]) \subseteq Refs(Att(x)[a]),
             m.at \in {"release", "replace", "ending", "commit"},
             m.seen = tx[x].seen, m.new = tx[x].new
      PROVE  RefsInv'
  <2>1. \A a \in DOMAIN f : \A c \in Refs(f[a]) : Standing(x, c)
    BY <1>2, RefStands
  <2>2. Learned(m) = Learned(tx[x]) /\ Ready(m, campaignW[x], attributionW'[x])
    BY <1>2 DEF Learned, Ready
  <2> QED
    BY <1>2, <2>1, <2>2, AttributionRefs
<1>3. CASE CloseWork(x)
  <2> DEFINE rows == OpenWorkOf(Att(x), tx[x].c, tx[x].area)
             f == [a \in rows |-> [Att(x)[a] EXCEPT !.open = FALSE]]
             m == [tx[x] EXCEPT !.at = "release"]
  <2>1. WriteAttributions(x, f) /\ Go(x, m) /\ WritesAttributions
    BY <1>3 DEF CloseWork
  <2>2. rows \subseteq Attributions /\ \A a \in rows : Att(x)[a] \in AttributionRow
    BY Known DEF OpenWorkOf
  <2> HIDE DEF rows
  <2>3. DOMAIN f \subseteq Attributions /\ \A a \in DOMAIN f : Refs(f[a]) \subseteq Refs(Att(x)[a])
    BY <2>2, ChangedNames
  <2>4. m.at = "release" /\ m.seen = tx[x].seen /\ m.new = tx[x].new
    BY <1>1 DEF Memory
  <2> HIDE DEF f, m
  <2> QED
    BY <1>2, <2>1, <2>3, <2>4
<1>4. CASE ReleaseRows(x)
  <2> DEFINE rows == OpenPausedBy(Att(x), tx[x].c, tx[x].area)
             f == [a \in rows |-> [Att(x)[a] EXCEPT !.pausedByCampaignId = None]]
             m == [tx[x] EXCEPT !.at = IF tx[x].kind = "edit" THEN "replace" ELSE "ending"]
  <2>1. WriteAttributions(x, f) /\ Go(x, m) /\ WritesAttributions
    BY <1>4 DEF ReleaseRows
  <2>2. rows \subseteq Attributions /\ \A a \in rows : Att(x)[a] \in AttributionRow
    BY Known DEF OpenPausedBy
  <2> HIDE DEF rows
  <2>3. DOMAIN f \subseteq Attributions /\ \A a \in DOMAIN f : Refs(f[a]) \subseteq Refs(Att(x)[a])
    BY <2>2, ChangedNames
  <2>4. m.at \in {"replace", "ending"} /\ m.seen = tx[x].seen /\ m.new = tx[x].new
    BY <1>1 DEF Memory
  <2> HIDE DEF f, m
  <2> QED
    BY <1>2, <2>1, <2>3, <2>4
<1>5. CASE LiftPause(x)
  <2> DEFINE rows == tx[x].rows
             f == [a \in rows |-> [Att(x)[a] EXCEPT !.pausedByCampaignId = None]]
             m == [tx[x] EXCEPT !.at = "commit"]
  <2>1. /\ WriteAttributions(x, f) /\ Go(x, m) /\ WritesAttributions
        /\ \A a \in rows : Att(x)[a] # None
    BY <1>5 DEF LiftPause
  <2>2. rows \subseteq Attributions /\ \A a \in rows : Att(x)[a] \in AttributionRow
    BY <1>1, <2>1, Known
  <2> HIDE DEF rows
  <2>3. DOMAIN f \subseteq Attributions /\ \A a \in DOMAIN f : Refs(f[a]) \subseteq Refs(Att(x)[a])
    BY <2>2, ChangedNames
  <2>4. m.at = "commit" /\ m.seen = tx[x].seen /\ m.new = tx[x].new
    BY <1>1 DEF Memory
  <2> HIDE DEF f, m
  <2> QED
    BY <1>2, <2>1, <2>3, <2>4
<1> QED
  BY <1>3, <1>4, <1>5

(* The foreign keys of a new row find what the checks saw, or nothing.     *)
LEMMA InsertAttributionRefs ==
    ASSUME IInv, RefsInv, NEW x \in Transactions, NEW a \in Attributions, InsertAttribution(x, a)
    PROVE  RefsInv'
<1> DEFINE f == [k \in {a} |-> tx[x].new]
           m == [tx[x] EXCEPT !.at = IF tx[x].kind = "assign" THEN "commit" ELSE "carry",
                              !.new = None]
<1>1. WriteAttributions(x, f) /\ Go(x, m) /\ WritesAttributions /\ KeysHold(x, tx[x].new)
  BY DEF InsertAttribution
<1>2. tx[x] \in Memory
  BY Known
<1>3. ASSUME NEW c \in Refs(tx[x].new)
      PROVE  Standing(x, c)
  <2>1. Settled(x, c)
    BY DEF RefsInv, LearnedSettled, Learned
  <2>2. /\ Camp(x)[c] # None
        /\ \A y \in Others(x) : c \in DOMAIN campaignW[y] => campaignW[y][c] # None
    BY <1>1 DEF KeysHold
  <2>3. c \in DOMAIN campaignW[x] => campaignW[x][c] = Camp(x)[c]
    BY CampTyped DEF IInv
  <2> QED
    BY <2>1, <2>2, <2>3 DEF Settled, Standing, Others
<1>4. m.at \in {"carry", "commit"} /\ m.seen = tx[x].seen /\ m.new = None
  BY <1>2 DEF Memory
<1>5. \A k \in DOMAIN f : f[k] = tx[x].new
  OBVIOUS
<1> HIDE DEF f, m
<1>6. Learned(m) \subseteq Learned(tx[x]) /\ Ready(m, campaignW[x], attributionW'[x])
  BY <1>4 DEF Learned, Ready, Refs
<1> QED
  BY <1>1, <1>3, <1>5, <1>6, AttributionRefs


-----------------------------------------------------------------------------
(* The end of a request, and the specification.                            *)

(* What is committed is what the request found; the others find it too.    *)
LEMMA CommitRefs ==
    ASSUME IInv, RefsInv, NEW x \in Transactions, Commit(x)
    PROVE  RefsInv'
<1>1. /\ tx'[x] = Idle /\ \A y \in Others(x) : tx'[y] = tx[y]
      /\ campaignW'[x] = Nothing /\ \A y \in Others(x) : campaignW'[y] = campaignW[y]
      /\ attributionW'[x] = Nothing /\ \A y \in Others(x) : attributionW'[y] = attributionW[y]
  BY DEF Commit, Release, Go, IInv, TypeOK, Others
<1>2. DOMAIN Nothing = {} /\ Learned(Idle) = {}
  BY NothingIsPartial, LearnedAfresh DEF Idle
<1>3. campaign' = Camp(x) /\ attribution' = Att(x)
  BY DEF Commit
<1>4. Camp(x) \in [Campaigns -> CampaignVersion] /\ campaign \in [Campaigns -> CampaignVersion]
  BY Known DEF IInv, TypeOK, CampaignVersion
<1>5. \A c \in Campaigns :
         Camp(x)[c] = IF c \in DOMAIN campaignW[x] THEN campaignW[x][c] ELSE campaign[c]
  BY CampTyped DEF IInv
<1>6. \A y \in Transactions : DOMAIN campaignW[y] \subseteq Campaigns
  BY CampTyped DEF IInv
<1>7. ASSUME NEW y \in Others(x), NEW c \in Campaigns
      PROVE  /\ Camp(y)'[c] = IF c \in DOMAIN campaignW[y] THEN campaignW[y][c] ELSE Camp(x)[c]
             /\ Camp(y)[c] = IF c \in DOMAIN campaignW[y] THEN campaignW[y][c] ELSE campaign[c]
  BY <1>1, <1>3, <1>4 DEF Camp, Over
<1>8. BegunFollows'
  <2> SUFFICES ASSUME NEW y \in Transactions, NEW c \in DOMAIN campaignW'[y], Begun(Camp(x)[c])
               PROVE  campaignW'[y][c] = None \/ Begun(campaignW'[y][c])
    BY <1>3 DEF BegunFollows
  <2>1. y \in Others(x) /\ c \in DOMAIN campaignW[y] /\ campaignW'[y] = campaignW[y]
    BY <1>1, <1>2 DEF Others
  <2>2. c \notin DOMAIN campaignW[x]
    BY <2>1 DEF IInv, CampaignLocks, Others
  <2> QED
    BY <1>5, <1>6, <2>1, <2>2 DEF RefsInv, BegunFollows, Others
<1>9. CommittedStand'
  <2> SUFFICES ASSUME NEW a \in Attributions, NEW c \in Refs(Att(x)[a])
               PROVE  /\ Begun(Camp(x)[c])
                      /\ \A y \in Transactions : c \in DOMAIN campaignW'[y] => Begun(campaignW'[y][c])
    BY <1>3 DEF CommittedStand
  <2>1. Standing(x, c)
    BY RefStands
  <2> QED
    BY <1>1, <1>2, <2>1 DEF Standing, Others
<1>10. WrittenStand'
  <2> SUFFICES ASSUME NEW y \in Transactions, NEW a \in DOMAIN attributionW'[y],
                      NEW c \in Refs(attributionW'[y][a])
               PROVE  Standing(y, c)'
    BY DEF WrittenStand
  <2>1. y \in Others(x) /\ attributionW'[y] = attributionW[y]
    BY <1>1, <1>2 DEF Others
  <2>2. Standing(y, c)
    BY <2>1 DEF RefsInv, WrittenStand
  <2>3. c \in Campaigns
    BY <2>1, NamesTyped
  <2>4. Begun(Camp(y)'[c])
    BY <1>5, <1>7, <2>1, <2>2, <2>3 DEF Standing
  <2>5. \A z \in Transactions : c \in DOMAIN campaignW'[z] => Begun(campaignW'[z][c])
    BY <1>1, <1>2, <2>2 DEF Standing, Others
  <2> QED
    BY <2>4, <2>5 DEF Standing
<1>11. LearnedSettled'
  <2> SUFFICES ASSUME NEW y \in Transactions, NEW c \in Learned(tx'[y])
               PROVE  Settled(y, c)'
    BY DEF LearnedSettled, Learned
  <2>1. y \in Others(x) /\ c \in Learned(tx[y])
    BY <1>1, <1>2 DEF Others
  <2>2. Settled(y, c) /\ c \in Campaigns
    BY <2>1, NamesTyped DEF RefsInv, LearnedSettled
  <2>3. Camp(y)'[c] = None \/ Begun(Camp(y)'[c])
    BY <1>5, <1>7, <2>1, <2>2 DEF Settled
  <2>4. \A z \in Transactions :
           c \in DOMAIN campaignW'[z] => campaignW'[z][c] = None \/ Begun(campaignW'[z][c])
    BY <1>1, <1>2, <2>2 DEF Settled, Others
  <2> QED
    BY <2>3, <2>4 DEF Settled
<1>12. AllReady'
  <2>1. Ready(Idle, Nothing, Nothing)
    BY <1>2 DEF Ready, Idle
  <2> QED
    BY <1>1, <2>1 DEF RefsInv, AllReady, Others
<1> QED
  BY <1>8, <1>9, <1>10, <1>11, <1>12 DEF RefsInv

LEMMA RollbackRefs ==
    ASSUME IInv, RefsInv, NEW x \in Transactions, Rollback(x)
    PROVE  RefsInv'
<1>1. /\ tx'[x] = Idle /\ \A y \in Others(x) : tx'[y] = tx[y]
      /\ campaignW'[x] = Nothing /\ \A y \in Others(x) : campaignW'[y] = campaignW[y]
      /\ attributionW'[x] = Nothing /\ \A y \in Others(x) : attributionW'[y] = attributionW[y]
  BY DEF Rollback, Release, Go, IInv, TypeOK, Others
<1>2. DOMAIN Nothing = {} /\ Learned(Idle) = {}
  BY NothingIsPartial, LearnedAfresh DEF Idle
<1>3. campaign' = campaign /\ attribution' = attribution
  BY DEF Rollback
<1>4. \A y \in Others(x) : Camp(y)' = Camp(y)
  BY <1>1, <1>3 DEF Camp
<1>5. BegunFollows' /\ CommittedStand'
  BY <1>1, <1>2, <1>3 DEF RefsInv, BegunFollows, CommittedStand, Others
<1>6. WrittenStand'
  <2> SUFFICES ASSUME NEW y \in Transactions, NEW a \in DOMAIN attributionW'[y],
                      NEW c \in Refs(attributionW'[y][a])
               PROVE  Standing(y, c)'
    BY DEF WrittenStand
  <2>1. y \in Others(x) /\ Standing(y, c)
    BY <1>1, <1>2 DEF Others, RefsInv, WrittenStand
  <2> QED
    BY <1>1, <1>2, <1>4, <2>1 DEF Standing, Others
<1>7. LearnedSettled'
  <2> SUFFICES ASSUME NEW y \in Transactions, NEW c \in Learned(tx'[y])
               PROVE  Settled(y, c)'
    BY DEF LearnedSettled, Learned
  <2>1. y \in Others(x) /\ Settled(y, c)
    BY <1>1, <1>2 DEF Others, RefsInv, LearnedSettled
  <2> QED
    BY <1>1, <1>2, <1>4, <2>1 DEF Settled, Others
<1>8. AllReady'
  <2>1. Ready(Idle, Nothing, Nothing)
    BY <1>2 DEF Ready, Idle
  <2> QED
    BY <1>1, <2>1 DEF RefsInv, AllReady, Others
<1> QED
  BY <1>5, <1>6, <1>7, <1>8 DEF RefsInv

LEMMA InitRefs == Init => RefsInv
<1> SUFFICES ASSUME Init PROVE RefsInv
  OBVIOUS
<1>1. DOMAIN Nothing = {} /\ Learned(Idle) = {}
  BY NothingIsPartial, LearnedAfresh DEF Idle
<1>2. /\ \A x \in Transactions : DOMAIN campaignW[x] = {} /\ DOMAIN attributionW[x] = {}
      /\ \A x \in Transactions : tx[x] = Idle
  BY <1>1 DEF Init
<1>3. CommittedStand
  BY <1>2, InitialReferencesAssumption DEF Init, CommittedStand
<1>4. AllReady
  BY <1>2 DEF AllReady, Ready, Idle
<1> QED
  BY <1>1, <1>2, <1>3, <1>4 DEF RefsInv, BegunFollows, WrittenStand, LearnedSettled

LEMMA StatementRefs ==
    ASSUME IInv, RefsInv, NEW x \in Transactions, Statement(x)
    PROVE  RefsInv'
<1>1. CASE FindDue(x) \/ FindRegulars(x) \/ CarriedOver(x) \/ NextActivation(x) \/ Finish(x)
           \/ TurnToRemoved(x)
  BY <1>1, FindRefs
<1>2. CASE PauseRows(x)
  BY <1>2, PauseRowsRefs
<1>3. CASE CloseWork(x) \/ ReleaseRows(x) \/ LiftPause(x)
  BY <1>3, ChangeRefs
<1>4. ASSUME NEW c \in Campaigns, MarkActivated(x, c) \/ MarkEnded(x, c) PROVE RefsInv'
  BY <1>4, MarkRefs
<1>5. ASSUME NEW c \in Campaigns, InsertCampaign(x, c) PROVE RefsInv'
  BY <1>5, InsertCampaignRefs
<1>6. ASSUME NEW a \in Attributions, CarryOver(x, a) PROVE RefsInv'
  BY <1>6, FindRefs
<1>7. ASSUME NEW a \in Attributions, InsertAttribution(x, a) PROVE RefsInv'
  BY <1>7, InsertAttributionRefs
<1>8. CASE UpdateCampaign(x) \/ ReplaceScope(x)
  BY <1>8, EditRefs
<1>9. CASE DeleteRow(x)
  BY <1>9, DeleteRowRefs
<1> QED
  BY <1>1, <1>2, <1>3, <1>4, <1>5, <1>6, <1>7, <1>8, <1>9 DEF Statement

LEMMA NextRefs == IInv /\ RefsInv /\ [Next]_vars => RefsInv'
<1> SUFFICES ASSUME IInv, RefsInv, [Next]_vars PROVE RefsInv'
  OBVIOUS
<1>1. ASSUME NEW x \in Transactions, Begin(x) \/ Statement(x) PROVE RefsInv'
  BY <1>1, BeginRefs, StatementRefs
<1>2. ASSUME NEW x \in Transactions, Commit(x) \/ Rollback(x) PROVE RefsInv'
  BY <1>2, CommitRefs, RollbackRefs
<1>3. CASE NextDay \/ UNCHANGED vars
  <2>1. UNCHANGED <<campaign, attribution, campaignW, attributionW, tx>>
    BY <1>3 DEF NextDay, vars
  <2>2. \A y \in Transactions : UNCHANGED Camp(y)
    BY <2>1 DEF Camp
  <2> QED
    BY <2>1, <2>2 DEF RefsInv, BegunFollows, CommittedStand, WrittenStand, LearnedSettled,
                      AllReady, Standing, Settled
<1> QED
  BY <1>1, <1>2, <1>3 DEF Next

(* A row names campaigns that exist and have begun, for any number of      *)
(* connections: deleteCampaign, a sweep, a scope edit and an assignment    *)
(* may interleave in every way their statements can.                       *)
THEOREM AttributionsNameBegunCampaigns == Spec => []ReferencesHold
<1>1. RefsInv => ReferencesHold
  BY DEF RefsInv, CommittedStand, ReferencesHold
<1> QED
  BY <1>1, InitRefs, NextRefs, Invariance, PTL DEF Spec

-----------------------------------------------------------------------------
(* CarriedOnce, where no publisher is assigned by hand: two requests that  *)
(* assign one pair at the same time are kept apart by nothing.  Work in    *)
(* the name of a campaign is then inserted by who holds the campaign's row *)
(* locked, and is never suspended, so nobody adds any between the check of *)
(* a request and its insert.                                               *)

\* A row at work, or suspended, on territory t in campaign c.
OpenIn(row, c, t) == row # None /\ row.open /\ row.campaignId = c /\ row.territoryId = t

Once(table) ==
    \A c \in Campaigns, t \in Territories : \A a, b \in Attributions :
        OpenIn(table[a], c, t) /\ OpenIn(table[b], c, t) => a = b

\* Only rows outside every campaign are suspended.
Unpaused(row) == row = None \/ row.campaignId = None \/ ~Suspended(row)

\* The tables of the first day, and the requests that occur.
CarriesOnly ==
    /\ "assign" \notin Kinds
    /\ \A att \in InitialAttributions : Once(att) /\ \A a \in Attributions : Unpaused(att[a])

AttributionLocks ==
    \A x, y \in Transactions : x # y => DOMAIN attributionW[x] \cap DOMAIN attributionW[y] = {}

\* A request writes rows of the campaigns it holds locked, and of none.
OwnCampaigns ==
    \A x \in Transactions : \A a \in DOMAIN attributionW[x] :
        attributionW[x][a].campaignId \in DOMAIN campaignW[x] \cup {None}

\* A row stays in its campaign.
RowsStay ==
    \A x \in Transactions : \A a \in DOMAIN attributionW[x] :
        attribution[a] # None => attributionW[x][a].campaignId = attribution[a].campaignId

CampaignRowsWork ==
    /\ \A a \in Attributions : Unpaused(attribution[a])
    /\ \A x \in Transactions : \A a \in DOMAIN attributionW[x] : Unpaused(attributionW[x][a])

OnceForAll == Once(attribution) /\ \A x \in Transactions : Once(Att(x))

\* What a request with memory m, which wrote cw and finds att, relies on.
Prepared(m, cw, att) ==
    /\ m.at \in {"pick", "pause", "carry", "insert", "over", "close", "release"} => m.c \in DOMAIN cw
    /\ m.at \in {"pause", "resume"} => \A a \in m.rows : att[a] # None /\ att[a].campaignId = None
    /\ m.at = "insert" =>
          /\ m.new.campaignId = m.c /\ m.new.pausedByCampaignId = None
          /\ \A a \in Attributions : ~OpenIn(att[a], m.c, m.new.territoryId)

AllPrepared == \A x \in Transactions : Prepared(tx[x], campaignW[x], Att(x))

OnceInv ==
    /\ AttributionLocks /\ OwnCampaigns /\ RowsStay /\ CampaignRowsWork
    /\ OnceForAll /\ AllPrepared

LEMMA AttAt ==
    ASSUME IInv, NEW x \in Transactions
    PROVE  /\ DOMAIN attributionW[x] \subseteq Attributions
           /\ \A a \in DOMAIN attributionW[x] :
                 Att(x)[a] = attributionW[x][a] /\ attributionW[x][a] \in AttributionRow
           /\ \A a \in Attributions \ DOMAIN attributionW[x] : Att(x)[a] = attribution[a]
<1>1. attribution \in [Attributions -> AttributionRow \cup {None}]
  BY DEF IInv, TypeOK
<1>2. DOMAIN attributionW[x] \subseteq Attributions
  BY AttTyped DEF IInv
<1>3. \A a \in DOMAIN attributionW[x] : Att(x)[a] = attributionW[x][a]
  BY <1>1, <1>2 DEF Att, Over
<1>4. \A a \in DOMAIN attributionW[x] : Att(x)[a] \in AttributionRow
  BY AttTyped DEF IInv
<1> QED
  BY <1>1, <1>2, <1>3, <1>4 DEF Att, Over

LEMMA NoneIsNoRow ==
    /\ None \notin Campaigns /\ None \notin AttributionRow
    /\ \A x \in Transactions : IInv => None \notin DOMAIN campaignW[x]
BY ConcurrencyAssumption, CampTyped DEF IInv

(* What a request finds keeps out of the pauses of campaigns.              *)
LEMMA FoundUnpaused ==
    ASSUME IInv, OnceInv, NEW x \in Transactions, NEW a \in Attributions
    PROVE  Unpaused(Att(x)[a])
BY AttAt DEF OnceInv, CampaignRowsWork

-----------------------------------------------------------------------------
(* One step of one request.                                                *)

(* A step that only reads.                                                 *)
LEMMA ReadOnce ==
    ASSUME IInv, OnceInv, NEW x \in Transactions, NEW m, Go(x, m), Reads,
           Prepared(m, campaignW[x], Att(x))
    PROVE  OnceInv'
<1>1. tx'[x] = m /\ \A y \in Others(x) : tx'[y] = tx[y]
  BY DEF Go, IInv, TypeOK, Others
<1>2. UNCHANGED <<campaign, attribution, campaignW, attributionW>>
  BY DEF Reads
<1>3. \A y \in Transactions : UNCHANGED Att(y)
  BY <1>2 DEF Att
<1>4. AllPrepared'
  <2> SUFFICES ASSUME NEW y \in Transactions
               PROVE  Prepared(tx'[y], campaignW[y], Att(y))
    BY <1>2, <1>3 DEF AllPrepared
  <2>1. CASE y = x
    BY <1>1, <2>1
  <2>2. CASE y # x
    BY <1>1, <2>2 DEF OnceInv, AllPrepared, Others
  <2> QED
    BY <2>1, <2>2
<1> QED
  BY <1>2, <1>3, <1>4
  DEF OnceInv, AttributionLocks, OwnCampaigns, RowsStay, CampaignRowsWork, OnceForAll

(* A step that writes a version of a campaign.                             *)
LEMMA CampaignOnce ==
    ASSUME IInv, OnceInv, NEW x \in Transactions, NEW m,
           NEW c \in Campaigns, NEW row \in CampaignVersion,
           Go(x, m), WritesCampaign, WriteCampaign(x, c, row),
           Prepared(m, campaignW'[x], Att(x))
    PROVE  OnceInv'
<1>1. tx'[x] = m /\ \A y \in Others(x) : tx'[y] = tx[y]
  BY DEF Go, IInv, TypeOK, Others
<1>2. UNCHANGED <<campaign, attribution, attributionW>>
  BY DEF WritesCampaign
<1>3. \A y \in Transactions : UNCHANGED Att(y)
  BY <1>2 DEF Att
<1>4. /\ DOMAIN campaignW'[x] = DOMAIN campaignW[x] \cup {c}
      /\ \A y \in Others(x) : campaignW'[y] = campaignW[y]
  BY WriteCampaignFacts DEF IInv
<1>5. \A y \in Transactions : DOMAIN campaignW[y] \subseteq DOMAIN campaignW'[y]
  BY <1>4 DEF Others
<1>6. OwnCampaigns'
  BY <1>2, <1>5 DEF OnceInv, OwnCampaigns
<1>7. AllPrepared'
  <2> SUFFICES ASSUME NEW y \in Transactions
               PROVE  Prepared(tx'[y], campaignW'[y], Att(y))
    BY <1>3 DEF AllPrepared
  <2>1. CASE y = x
    BY <1>1, <2>1
  <2>2. CASE y # x
    BY <1>1, <1>4, <2>2 DEF OnceInv, AllPrepared, Others
  <2> QED
    BY <2>1, <2>2
<1> QED
  BY <1>2, <1>3, <1>6, <1>7
  DEF OnceInv, AttributionLocks, RowsStay, CampaignRowsWork, OnceForAll

(* What a step that writes attributions changes of what requests find.     *)
LEMMA AttributionsWritten ==
    ASSUME IInv, NEW x \in Transactions, NEW rows,
           DOMAIN rows \subseteq Attributions,
           WriteAttributions(x, rows), WritesAttributions
    PROVE  /\ DOMAIN attributionW'[x] = DOMAIN attributionW[x] \cup DOMAIN rows
           /\ \A a \in DOMAIN rows : attributionW'[x][a] = rows[a] /\ Att(x)'[a] = rows[a]
           /\ \A a \in DOMAIN attributionW[x] \ DOMAIN rows : attributionW'[x][a] = attributionW[x][a]
           /\ \A a \in Attributions \ DOMAIN rows : Att(x)'[a] = Att(x)[a]
           /\ \A y \in Others(x) : attributionW'[y] = attributionW[y] /\ Att(y)' = Att(y)
<1>1. attributionW'[x] = Put(attributionW[x], rows)
      /\ \A y \in Others(x) : attributionW'[y] = attributionW[y]
  BY DEF WriteAttributions, IInv, TypeOK, Others
<1>2. /\ DOMAIN attributionW'[x] = DOMAIN attributionW[x] \cup DOMAIN rows
      /\ \A a \in DOMAIN rows : attributionW'[x][a] = rows[a]
      /\ \A a \in DOMAIN attributionW[x] \ DOMAIN rows : attributionW'[x][a] = attributionW[x][a]
  BY <1>1 DEF Put
<1>3. attribution' = attribution /\ attribution \in [Attributions -> AttributionRow \cup {None}]
  BY DEF WritesAttributions, IInv, TypeOK
<1>4. \A y \in Others(x) : Att(y)' = Att(y)
  BY <1>1, <1>3 DEF Att
<1>5. \A a \in Attributions :
         /\ Att(x)[a] = IF a \in DOMAIN attributionW[x] THEN attributionW[x][a] ELSE attribution[a]
         /\ Att(x)'[a] = IF a \in DOMAIN attributionW'[x] THEN attributionW'[x][a] ELSE attribution[a]
  BY <1>3 DEF Att, Over
<1> QED
  BY <1>1, <1>2, <1>4, <1>5

(* A step that writes attributions of the campaigns x holds, or of none,   *)
(* and leaves what x finds without a second open row.                      *)
LEMMA AttributionOnce ==
    ASSUME IInv, OnceInv, NEW x \in Transactions, NEW m, NEW rows,
           DOMAIN rows \subseteq Attributions,
           Go(x, m), WritesAttributions, WriteAttributions(x, rows),
           \A a \in DOMAIN rows :
               /\ AttributionFree(x, a) /\ Unpaused(rows[a])
               /\ rows[a].campaignId \in DOMAIN campaignW[x] \cup {None}
               /\ Att(x)[a] # None => rows[a].campaignId = Att(x)[a].campaignId,
           Once(Att(x)'),
           Prepared(m, campaignW[x], Att(x)')
    PROVE  OnceInv'
<1>1. tx'[x] = m /\ \A y \in Others(x) : tx'[y] = tx[y]
  BY DEF Go, IInv, TypeOK, Others
<1>2. UNCHANGED <<campaign, attribution, campaignW>>
  BY DEF WritesAttributions
<1>3. /\ DOMAIN attributionW'[x] = DOMAIN attributionW[x] \cup DOMAIN rows
      /\ \A a \in DOMAIN rows : attributionW'[x][a] = rows[a]
      /\ \A a \in DOMAIN attributionW[x] \ DOMAIN rows : attributionW'[x][a] = attributionW[x][a]
      /\ \A y \in Others(x) : attributionW'[y] = attributionW[y] /\ Att(y)' = Att(y)
  BY AttributionsWritten
<1>4. AttributionLocks'
  BY <1>3 DEF OnceInv, AttributionLocks, AttributionFree, Others
<1>5. OwnCampaigns'
  BY <1>2, <1>3 DEF OnceInv, OwnCampaigns, Others
<1>6. RowsStay'
  <2> SUFFICES ASSUME NEW y \in Transactions, NEW a \in DOMAIN attributionW'[y],
                      attribution[a] # None
               PROVE  attributionW'[y][a].campaignId = attribution[a].campaignId
    BY <1>2 DEF RowsStay
  <2>1. CASE y # x \/ a \notin DOMAIN rows
    BY <1>3, <2>1 DEF OnceInv, RowsStay, Others
  <2>2. CASE y = x /\ a \in DOMAIN rows
    <3>1. CASE a \in DOMAIN attributionW[x]
      <4>1. Att(x)[a] # None /\ Att(x)[a].campaignId = attribution[a].campaignId
        BY <3>1, AttAt, NoneIsNoRow DEF OnceInv, RowsStay
      <4> QED
        BY <1>3, <2>2, <4>1
    <3>2. CASE a \notin DOMAIN attributionW[x]
      <4>1. Att(x)[a] = attribution[a]
        BY <2>2, <3>2, AttAt
      <4> QED
        BY <1>3, <2>2, <4>1
    <3> QED
      BY <3>1, <3>2
  <2> QED
    BY <2>1, <2>2
<1>7. CampaignRowsWork'
  <2>1. \A a \in Attributions : Unpaused(attribution'[a])
    BY <1>2 DEF OnceInv, CampaignRowsWork
  <2>2. ASSUME NEW y \in Transactions, NEW a \in DOMAIN attributionW'[y]
        PROVE  Unpaused(attributionW'[y][a])
    BY <1>3 DEF OnceInv, CampaignRowsWork, Others
  <2> QED
    BY <2>1, <2>2 DEF CampaignRowsWork, Unpaused, Suspended
<1>8. OnceForAll'
  <2>1. Once(attribution')
    BY <1>2 DEF OnceInv, OnceForAll
  <2>2. ASSUME NEW y \in Transactions PROVE Once(Att(y)')
    BY <1>3 DEF OnceInv, OnceForAll, Others
  <2> QED
    BY <2>1, <2>2 DEF OnceForAll, Once, OpenIn
<1>9. AllPrepared'
  <2> SUFFICES ASSUME NEW y \in Transactions
               PROVE  Prepared(tx'[y], campaignW[y], Att(y)')
    BY <1>2 DEF AllPrepared, Prepared, OpenIn
  <2>1. CASE y = x
    BY <1>1, <2>1
  <2>2. CASE y # x
    BY <1>1, <1>3, <2>2 DEF OnceInv, AllPrepared, Others
  <2> QED
    BY <2>1, <2>2
<1> QED
  BY <1>4, <1>5, <1>6, <1>7, <1>8, <1>9 DEF OnceInv

(* A version that opens nothing brings no second open row.                 *)
LEMMA RewriteOnce ==
    ASSUME IInv, OnceInv, NEW x \in Transactions, NEW m, NEW rows,
           DOMAIN rows \subseteq Attributions,
           Go(x, m), WritesAttributions, WriteAttributions(x, rows),
           \A a \in DOMAIN rows :
               /\ AttributionFree(x, a) /\ Unpaused(rows[a]) /\ Att(x)[a] # None
               /\ rows[a].campaignId \in DOMAIN campaignW[x] \cup {None}
               /\ rows[a].campaignId = Att(x)[a].campaignId
               /\ rows[a].territoryId = Att(x)[a].territoryId
               /\ rows[a].open => Att(x)[a].open,
           m.at \notin {"pause", "resume", "insert"},
           m.at \in {"pick", "carry", "over", "close", "release"} => m.c \in DOMAIN campaignW[x]
    PROVE  OnceInv'
<1>1. /\ \A a \in DOMAIN rows : Att(x)'[a] = rows[a]
      /\ \A a \in Attributions \ DOMAIN rows : Att(x)'[a] = Att(x)[a]
  BY AttributionsWritten
<1>2. \A c \in Campaigns, t \in Territories : \A a \in Attributions :
         OpenIn(Att(x)'[a], c, t) => OpenIn(Att(x)[a], c, t)
  BY <1>1 DEF OpenIn
<1>3. Once(Att(x)')
  BY <1>2 DEF OnceInv, OnceForAll, Once
<1>4. Prepared(m, campaignW[x], Att(x)')
  BY DEF Prepared
<1> QED
  BY <1>3, <1>4, AttributionOnce

-----------------------------------------------------------------------------
(* The actions.                                                            *)

(* Places that rely on nothing but, some of them, the campaign's lock.     *)
LEMMA PlainPrepared ==
    ASSUME NEW m, NEW cw, NEW att, m.at \notin {"pause", "resume", "insert"},
           m.at \in {"pick", "carry", "over", "close", "release"} => m.c \in DOMAIN cw
    PROVE  Prepared(m, cw, att)
BY DEF Prepared

LEMMA BeginOnce ==
    ASSUME CarriesOnly, IInv, OnceInv, NEW x \in Transactions, Begin(x)
    PROVE  OnceInv'
<1>1. ASSUME NEW m, Go(x, m), Reads, m.at \in {"due", "create", "update", "ending", "delete"}
      PROVE  OnceInv'
  BY <1>1, PlainPrepared, ReadOnce
<1>2. CASE BeginSweep(x)
  <2> DEFINE m == [Idle EXCEPT !.at = "due", !.kind = "sweep"]
  <2>1. Go(x, m) /\ Reads
    BY <1>2 DEF BeginSweep
  <2>2. m.at = "due"
    BY DEF Idle
  <2> HIDE DEF m
  <2> QED
    BY <1>1, <2>1, <2>2
<1>3. ASSUME NEW scope \in Scopes, NEW w \in Windows, BeginCreate(x, w, scope)
      PROVE  OnceInv'
  <2> DEFINE row == [startDate |-> w[1], endDate |-> w[2], scope |-> scope, status |-> "scheduled"]
             m == [Idle EXCEPT !.at = "create", !.kind = "create", !.fresh = row]
  <2>1. Go(x, m) /\ Reads
    BY <1>3 DEF BeginCreate
  <2> HIDE DEF row
  <2>2. m.at = "create"
    BY DEF Idle
  <2> HIDE DEF m
  <2> QED
    BY <1>1, <2>1, <2>2
<1>4. ASSUME NEW scope \in Scopes, NEW c \in Campaigns, BeginEdit(x, c, scope)
      PROVE  OnceInv'
  <2> DEFINE m == [Idle EXCEPT !.at = "update", !.kind = "edit", !.c = c, !.scope = scope,
                               !.seen = Snapshot(Camp(x), {c})]
  <2>1. Go(x, m) /\ Reads
    BY <1>4 DEF BeginEdit
  <2>2. m.at = "update"
    BY DEF Idle
  <2> HIDE DEF m
  <2> QED
    BY <1>1, <2>1, <2>2
<1>5. ASSUME NEW c \in Campaigns, BeginEnd(x, c)
      PROVE  OnceInv'
  <2> DEFINE m == [Idle EXCEPT !.at = "ending", !.kind = "end", !.seen = Snapshot(Camp(x), {c})]
  <2>1. Go(x, m) /\ Reads
    BY <1>5 DEF BeginEnd
  <2>2. m.at = "ending"
    BY DEF Idle
  <2> HIDE DEF m
  <2> QED
    BY <1>1, <2>1, <2>2
<1>6. ASSUME NEW c \in Campaigns, BeginDelete(x, c)
      PROVE  OnceInv'
  <2> DEFINE m == [Idle EXCEPT !.at = "delete", !.kind = "delete", !.c = c]
  <2>1. Go(x, m) /\ Reads
    BY <1>6 DEF BeginDelete
  <2>2. m.at = "delete"
    BY DEF Idle
  <2> HIDE DEF m
  <2> QED
    BY <1>1, <2>1, <2>2
<1>7. ASSUME NEW a \in Attributions, BeginResume(x, a)
      PROVE  OnceInv'
  <2> DEFINE m == [Idle EXCEPT !.at = "resume", !.kind = "resume", !.rows = {a}]
  <2>1. Go(x, m) /\ Reads /\ Att(x)[a] # None /\ Suspended(Att(x)[a])
    BY <1>7 DEF BeginResume
  <2>2. Att(x)[a].campaignId = None
    BY <2>1, FoundUnpaused DEF Unpaused
  <2>3. m.at = "resume" /\ m.rows = {a}
    BY DEF Idle
  <2>4. Prepared(m, campaignW[x], Att(x))
    BY <2>1, <2>2, <2>3 DEF Prepared
  <2> HIDE DEF m
  <2> QED
    BY <2>1, <2>4, ReadOnce
<1> QED
  BY <1>2, <1>3, <1>4, <1>5, <1>6, <1>7 DEF Begin, BeginAssign, CarriesOnly

(* The statements that only read.                                          *)
LEMMA FindOnce ==
    ASSUME IInv, OnceInv, NEW x \in Transactions,
           FindDue(x) \/ CarriedOver(x) \/ NextActivation(x) \/ Finish(x) \/ TurnToRemoved(x)
    PROVE  OnceInv'
<1>1. tx[x] \in Memory /\ Prepared(tx[x], campaignW[x], Att(x))
  BY Known DEF OnceInv, AllPrepared
<1>2. ASSUME NEW m, Go(x, m), Reads, m.at \in {"activate", "ending", "commit"}
      PROVE  OnceInv'
  BY <1>2, PlainPrepared, ReadOnce
<1>3. ASSUME NEW m, Go(x, m), Reads, m.at \in {"over", "close"}, m.c = tx[x].c,
             tx[x].at \in {"carry", "over"}
      PROVE  OnceInv'
  <2>1. m.c \in DOMAIN campaignW[x]
    BY <1>1, <1>3 DEF Prepared
  <2> QED
    BY <1>3, <2>1, PlainPrepared, ReadOnce
<1>4. CASE FindDue(x)
  <2> DEFINE m == [Idle EXCEPT !.at = "activate", !.kind = "sweep",
                               !.seen = Snapshot(Camp(x), DueToActivate(Camp(x)))]
  <2>1. Go(x, m) /\ Reads
    BY <1>4 DEF FindDue
  <2>2. m.at = "activate"
    BY DEF Idle
  <2> HIDE DEF m
  <2> QED
    BY <1>2, <2>1, <2>2
<1>5. CASE CarriedOver(x) \/ TurnToRemoved(x)
  <2> DEFINE area == Effective(tx[x].seen[tx[x].c].scope) \ Effective(tx[x].scope)
             over == [tx[x] EXCEPT !.at = "over"]
             turn == [tx[x] EXCEPT !.at = "close", !.area = area]
  <2>1. Reads /\ tx[x].at \in {"carry", "over"} /\ (Go(x, over) \/ Go(x, turn))
    BY <1>5 DEF CarriedOver, TurnToRemoved, At
  <2> HIDE DEF area
  <2>2. over.at = "over" /\ over.c = tx[x].c /\ turn.at = "close" /\ turn.c = tx[x].c
    BY <1>1 DEF Memory
  <2> HIDE DEF over, turn
  <2> QED
    BY <1>3, <2>1, <2>2
<1>6. CASE NextActivation(x) \/ Finish(x)
  <2> DEFINE seen == Snapshot(Camp(x), DueToEnd(Camp(x)))
             more == [tx[x] EXCEPT !.at = "activate"]
             turn == [tx[x] EXCEPT !.at = "ending", !.seen = seen]
             done == [tx[x] EXCEPT !.at = "commit"]
  <2>1. Reads /\ (Go(x, more) \/ Go(x, turn) \/ Go(x, done))
    BY <1>6 DEF NextActivation, Finish
  <2> HIDE DEF seen
  <2>2. more.at = "activate" /\ turn.at = "ending" /\ done.at = "commit"
    BY <1>1 DEF Memory
  <2> HIDE DEF more, turn, done
  <2> QED
    BY <1>2, <2>1, <2>2
<1> QED
  BY <1>4, <1>5, <1>6

(* pauseOpenRegulars finds rows outside every campaign.                    *)
LEMMA FindRegularsOnce ==
    ASSUME IInv, OnceInv, NEW x \in Transactions, FindRegulars(x)
    PROVE  OnceInv'
<1> DEFINE rows == OpenRegulars(Att(x), tx[x].area)
           m == [tx[x] EXCEPT !.at = "pause", !.rows = rows]
<1>1. Go(x, m) /\ Reads /\ At(x, "pick")
  BY DEF FindRegulars
<1>2. tx[x] \in Memory /\ tx[x].c \in DOMAIN campaignW[x]
  BY <1>1, Known DEF OnceInv, AllPrepared, Prepared, At
<1>3. \A a \in rows : Att(x)[a] # None /\ Att(x)[a].campaignId = None
  BY DEF OpenRegulars
<1> HIDE DEF rows
<1>4. m.at = "pause" /\ m.rows = rows /\ m.c = tx[x].c
  BY <1>2 DEF Memory
<1> HIDE DEF m
<1>5. Prepared(m, campaignW[x], Att(x))
  BY <1>2, <1>3, <1>4 DEF Prepared
<1> QED
  BY <1>1, <1>5, ReadOnce

(* _reassignIntoCampaign finds no work on the territory, so no open row of *)
(* the campaign, for those are at work.                                    *)
LEMMA CarryOverOnce ==
    ASSUME IInv, OnceInv, NEW x \in Transactions, NEW a \in Attributions, CarryOver(x, a)
    PROVE  OnceInv'
<1> DEFINE p == Att(x)[a].publisherId
           t == Att(x)[a].territoryId
           new == NewAttribution(p, t, tx[x].c)
           taken == [tx[x] EXCEPT !.at = "insert", !.rows = @ \ {a}, !.new = new]
           skipped == [tx[x] EXCEPT !.rows = @ \ {a}]
<1>1. /\ Reads /\ At(x, "carry")
      /\ \/ MayAssign(Camp(x), Att(x), p, t, tx[x].c) /\ Go(x, taken)
         \/ Go(x, skipped)
  BY DEF CarryOver
<1>2. tx[x] \in Memory /\ tx[x].c \in DOMAIN campaignW[x] /\ tx[x].c # None
  BY <1>1, Known, NoneIsNoRow DEF OnceInv, AllPrepared, Prepared, At
<1>3. CASE MayAssign(Camp(x), Att(x), p, t, tx[x].c) /\ Go(x, taken)
  <2>1. \A b \in Attributions : ~(Att(x)[b] # None /\ Att(x)[b].territoryId = t /\ Worked(Att(x)[b]))
    BY <1>2, <1>3 DEF MayAssign
  <2>2. \A b \in Attributions : ~OpenIn(Att(x)[b], tx[x].c, t)
    BY <1>2, <2>1, FoundUnpaused DEF OpenIn, Unpaused, Worked
  <2>3. new.campaignId = tx[x].c /\ new.pausedByCampaignId = None /\ new.territoryId = t
    BY DEF NewAttribution
  <2> HIDE DEF new, t, p
  <2>4. taken.at = "insert" /\ taken.new = new /\ taken.c = tx[x].c
    BY <1>2 DEF Memory
  <2> HIDE DEF taken
  <2>5. Prepared(taken, campaignW[x], Att(x))
    BY <1>2, <2>2, <2>3, <2>4 DEF Prepared
  <2> QED
    BY <1>1, <1>3, <2>5, ReadOnce
<1>4. CASE Go(x, skipped)
  <2>1. skipped.at = "carry" /\ skipped.c = tx[x].c
    BY <1>1, <1>2 DEF Memory, At
  <2> HIDE DEF skipped
  <2> QED
    BY <1>1, <1>2, <1>4, <2>1, PlainPrepared, ReadOnce
<1> QED
  BY <1>1, <1>3, <1>4

(* The statements that write a campaign.                                   *)
LEMMA CampaignsOnce ==
    ASSUME IInv, OnceInv, NEW x \in Transactions,
           \/ UpdateCampaign(x) \/ ReplaceScope(x) \/ DeleteRow(x)
           \/ \E c \in Campaigns : MarkActivated(x, c) \/ MarkEnded(x, c) \/ InsertCampaign(x, c)
    PROVE  OnceInv'
<1>1. TypeOK /\ tx[x] \in Memory /\ Camp(x) \in [Campaigns -> CampaignVersion]
  BY Known
<1>2. ASSUME NEW m, NEW c \in Campaigns, NEW row \in CampaignVersion,
             Go(x, m), WritesCampaign, WriteCampaign(x, c, row),
             m.at \notin {"pause", "resume", "insert"},
             m.at \in {"pick", "carry", "over", "close", "release"} => m.c = c
      PROVE  OnceInv'
  <2>1. c \in DOMAIN campaignW'[x]
    BY <1>1, <1>2, WriteCampaignFacts
  <2> QED
    BY <1>2, <2>1, PlainPrepared, CampaignOnce
<1>3. ASSUME NEW c \in Campaigns, MarkActivated(x, c)
      PROVE  OnceInv'
  <2> DEFINE row == [Camp(x)[c] EXCEPT !.status = IF @ = "scheduled" THEN "active" ELSE @]
             area == Effective(tx[x].seen[c].scope)
             m == [tx[x] EXCEPT !.at = "pick", !.c = c, !.seen = Forget(@, c), !.area = area]
  <2>1. Camp(x)[c] # None /\ WriteCampaign(x, c, row) /\ Go(x, m) /\ WritesCampaign
    BY <1>3 DEF MarkActivated
  <2>2. row \in CampaignVersion
    BY <1>1, <2>1 DEF CampaignVersion, CampaignRow
  <2> HIDE DEF row, area
  <2>3. m.at = "pick" /\ m.c = c
    BY <1>1 DEF Memory
  <2> HIDE DEF m
  <2> QED
    BY <1>2, <2>1, <2>2, <2>3
<1>4. ASSUME NEW c \in Campaigns, MarkEnded(x, c)
      PROVE  OnceInv'
  <2> DEFINE row == [Camp(x)[c] EXCEPT !.status = "ended"]
             m == [tx[x] EXCEPT !.at = "close", !.c = c, !.seen = Forget(@, c), !.area = Territories]
  <2>1. Camp(x)[c] # None /\ WriteCampaign(x, c, row) /\ Go(x, m) /\ WritesCampaign
    BY <1>4 DEF MarkEnded
  <2>2. row \in CampaignVersion
    BY <1>1, <2>1 DEF CampaignVersion, CampaignRow
  <2> HIDE DEF row
  <2>3. m.at = "close" /\ m.c = c
    BY <1>1 DEF Memory
  <2> HIDE DEF m
  <2> QED
    BY <1>2, <2>1, <2>2, <2>3
<1>5. ASSUME NEW c \in Campaigns, InsertCampaign(x, c)
      PROVE  OnceInv'
  <2> DEFINE m == [Idle EXCEPT !.at = "due"]
  <2>1. WriteCampaign(x, c, tx[x].fresh) /\ Go(x, m) /\ WritesCampaign
    BY <1>5 DEF InsertCampaign
  <2>2. tx[x].fresh \in CampaignVersion
    BY <1>1 DEF Memory, CampaignVersion
  <2>3. m.at = "due"
    BY DEF Idle
  <2> HIDE DEF m
  <2> QED
    BY <1>2, <2>1, <2>2, <2>3
<1>6. CASE UpdateCampaign(x)
  <2> DEFINE c == tx[x].c
             area == Effective(tx[x].scope) \ Effective(tx[x].seen[c].scope)
             m == [tx[x] EXCEPT !.at = IF tx[x].seen[c].status = "active" THEN "pick" ELSE "replace",
                                !.area = area]
  <2>1. At(x, "update") /\ WriteCampaign(x, c, Camp(x)[c]) /\ Go(x, m) /\ WritesCampaign
    BY <1>6 DEF UpdateCampaign
  <2>2. c \in Campaigns
    BY <2>1, Known, EditScopes DEF Placed, At
  <2>3. Camp(x)[c] \in CampaignVersion
    BY <1>1, <2>2
  <2> HIDE DEF area
  <2>4. m.at \in {"pick", "replace"} /\ m.c = c
    BY <1>1 DEF Memory
  <2> HIDE DEF m
  <2> QED
    BY <1>2, <2>1, <2>2, <2>3, <2>4
<1>7. CASE ReplaceScope(x)
  <2> DEFINE c == tx[x].c
             row == [Camp(x)[c] EXCEPT !.scope = tx[x].scope]
             m == [Idle EXCEPT !.at = "due"]
  <2>1. At(x, "replace") /\ WriteCampaign(x, c, row) /\ Go(x, m) /\ WritesCampaign
    BY <1>7 DEF ReplaceScope
  <2>2. c \in DOMAIN campaignW[x] /\ campaignW[x][c] \in CampaignRow
    BY <2>1, Known DEF Placed, At
  <2>3. c \in Campaigns /\ Camp(x)[c] \in CampaignRow
    BY <1>1, <2>2, CampTyped
  <2>4. row \in CampaignVersion
    BY <1>1, <2>3 DEF CampaignVersion, CampaignRow, Memory
  <2> HIDE DEF row
  <2>5. m.at = "due"
    BY DEF Idle
  <2> HIDE DEF m
  <2> QED
    BY <1>2, <2>1, <2>3, <2>4, <2>5
<1>8. CASE DeleteRow(x)
  <2> DEFINE m == [tx[x] EXCEPT !.at = "commit"]
  <2>1. At(x, "delete") /\ WriteCampaign(x, tx[x].c, None) /\ Go(x, m) /\ WritesCampaign
    BY <1>8 DEF DeleteRow
  <2>2. tx[x].c \in Campaigns /\ None \in CampaignVersion
    BY <2>1, Known DEF Placed, At, CampaignVersion
  <2>3. m.at = "commit"
    BY <1>1 DEF Memory
  <2> HIDE DEF m
  <2> QED
    BY <1>2, <2>1, <2>2, <2>3
<1> QED
  BY <1>3, <1>4, <1>5, <1>6, <1>7, <1>8

(* The rows to pause were found outside every campaign, and stay there.    *)
LEMMA PauseRowsOnce ==
    ASSUME IInv, OnceInv, NEW x \in Transactions, PauseRows(x)
    PROVE  OnceInv'
<1> DEFINE rows == { a \in tx[x].rows : Att(x)[a] # None }
           f == [a \in rows |-> [Att(x)[a] EXCEPT !.pausedByCampaignId = tx[x].c]]
           m == [tx[x] EXCEPT !.at = IF startAutoReassign THEN "carry" ELSE "over", !.rows = rows]
<1>1. /\ At(x, "pause") /\ WriteAttributions(x, f) /\ Go(x, m) /\ WritesAttributions
      /\ \A a \in rows : AttributionFree(x, a)
  BY DEF PauseRows
<1>2. /\ tx[x] \in Memory /\ tx[x].c \in DOMAIN campaignW[x]
      /\ \A a \in rows : a \in Attributions /\ Att(x)[a] \in AttributionRow /\ Att(x)[a] # None
                         /\ Att(x)[a].campaignId = None
  BY <1>1, Known DEF OnceInv, AllPrepared, Prepared, At, Memory
<1> HIDE DEF rows
<1>3. /\ DOMAIN f = rows
      /\ \A a \in rows : /\ f[a].campaignId = None
                         /\ f[a].territoryId = Att(x)[a].territoryId
                         /\ f[a].open = Att(x)[a].open
  BY <1>2 DEF AttributionRow
<1> HIDE DEF f
<1>4. m.at \in {"carry", "over"} /\ m.c = tx[x].c
  BY <1>2 DEF Memory
<1> HIDE DEF m
<1> QED
  BY <1>1, <1>2, <1>3, <1>4, RewriteOnce DEF Unpaused

(* What is closed is the campaign's own work.                              *)
LEMMA CloseWorkOnce ==
    ASSUME IInv, OnceInv, NEW x \in Transactions, CloseWork(x)
    PROVE  OnceInv'
<1> DEFINE rows == OpenWorkOf(Att(x), tx[x].c, tx[x].area)
           f == [a \in rows |-> [Att(x)[a] EXCEPT !.open = FALSE]]
           m == [tx[x] EXCEPT !.at = "release"]
<1>1. /\ At(x, "close") /\ WriteAttributions(x, f) /\ Go(x, m) /\ WritesAttributions
      /\ \A a \in rows : AttributionFree(x, a)
  BY DEF CloseWork
<1>2. /\ tx[x] \in Memory /\ tx[x].c \in DOMAIN campaignW[x]
      /\ \A a \in rows : a \in Attributions /\ Att(x)[a] \in AttributionRow /\ Att(x)[a] # None
                         /\ Att(x)[a].campaignId = tx[x].c /\ Unpaused(Att(x)[a])
  BY <1>1, Known, FoundUnpaused DEF OnceInv, AllPrepared, Prepared, At, OpenWorkOf
<1> HIDE DEF rows
<1>3. /\ DOMAIN f = rows
      /\ \A a \in rows : /\ f[a].campaignId = Att(x)[a].campaignId
                         /\ f[a].territoryId = Att(x)[a].territoryId
                         /\ f[a].pausedByCampaignId = Att(x)[a].pausedByCampaignId
                         /\ ~f[a].open
  BY <1>2 DEF AttributionRow
<1>4. \A a \in rows : Unpaused(f[a])
  BY <1>2, <1>3 DEF Unpaused, Suspended
<1> HIDE DEF f
<1>5. m.at = "release" /\ m.c = tx[x].c
  BY <1>2 DEF Memory
<1> HIDE DEF m
<1> QED
  BY <1>1, <1>2, <1>3, <1>4, <1>5, RewriteOnce

(* What is released was suspended, so it is outside every campaign.        *)
LEMMA ReleaseRowsOnce ==
    ASSUME IInv, OnceInv, NEW x \in Transactions, ReleaseRows(x) \/ LiftPause(x)
    PROVE  OnceInv'
<1>1. ASSUME NEW rows \in SUBSET Attributions, NEW m, Go(x, m), WritesAttributions,
             WriteAttributions(x, [a \in rows |-> [Att(x)[a] EXCEPT !.pausedByCampaignId = None]]),
             \A a \in rows : AttributionFree(x, a) /\ Att(x)[a] # None /\ Att(x)[a].campaignId = None,
             m.at \in {"replace", "ending", "commit"}
      PROVE  OnceInv'
  <2> DEFINE f == [a \in rows |-> [Att(x)[a] EXCEPT !.pausedByCampaignId = None]]
  <2>1. \A a \in rows : Att(x)[a] \in AttributionRow
    BY <1>1, Known
  <2>2. /\ DOMAIN f = rows
        /\ \A a \in rows : /\ f[a].campaignId = None
                           /\ f[a].territoryId = Att(x)[a].territoryId
                           /\ f[a].open = Att(x)[a].open
    BY <1>1, <2>1 DEF AttributionRow
  <2>3. WriteAttributions(x, f)
    BY <1>1
  <2> HIDE DEF f
  <2> QED
    BY <1>1, <2>2, <2>3, RewriteOnce DEF Unpaused
<1>2. tx[x] \in Memory /\ Prepared(tx[x], campaignW[x], Att(x))
  BY Known DEF OnceInv, AllPrepared
<1>3. CASE ReleaseRows(x)
  <2> DEFINE rows == OpenPausedBy(Att(x), tx[x].c, tx[x].area)
             m == [tx[x] EXCEPT !.at = IF tx[x].kind = "edit" THEN "replace" ELSE "ending"]
  <2>1. /\ At(x, "release") /\ Go(x, m) /\ WritesAttributions
        /\ WriteAttributions(x, [a \in rows |-> [Att(x)[a] EXCEPT !.pausedByCampaignId = None]])
        /\ \A a \in rows : AttributionFree(x, a)
    BY <1>3 DEF ReleaseRows
  <2>2. tx[x].c # None
    BY <1>2, <2>1, NoneIsNoRow DEF Prepared, At
  <2>3. \A a \in rows : a \in Attributions /\ Att(x)[a] # None /\ Att(x)[a].campaignId = None
    BY <2>2, FoundUnpaused DEF OpenPausedBy, Unpaused, Suspended
  <2> HIDE DEF rows
  <2>4. m.at \in {"replace", "ending"}
    BY <1>2 DEF Memory
  <2> HIDE DEF m
  <2> QED
    BY <1>1, <2>1, <2>3, <2>4
<1>4. CASE LiftPause(x)
  <2> DEFINE rows == tx[x].rows
             m == [tx[x] EXCEPT !.at = "commit"]
  <2>1. /\ At(x, "resume") /\ Go(x, m) /\ WritesAttributions
        /\ WriteAttributions(x, [a \in rows |-> [Att(x)[a] EXCEPT !.pausedByCampaignId = None]])
        /\ \A a \in rows : AttributionFree(x, a)
    BY <1>4 DEF LiftPause
  <2>2. rows \subseteq Attributions
        /\ \A a \in rows : Att(x)[a] # None /\ Att(x)[a].campaignId = None
    BY <1>2, <2>1 DEF Prepared, At, Memory
  <2>3. m.at = "commit"
    BY <1>2 DEF Memory
  <2> HIDE DEF rows, m
  <2> QED
    BY <1>1, <2>1, <2>2, <2>3
<1> QED
  BY <1>3, <1>4

(* The row that is inserted is the only open one of its campaign there.    *)
LEMMA InsertAttributionOnce ==
    ASSUME IInv, OnceInv, NEW x \in Transactions, NEW a \in Attributions, InsertAttribution(x, a)
    PROVE  OnceInv'
<1> DEFINE new == tx[x].new
           f == [k \in {a} |-> new]
           m == [tx[x] EXCEPT !.at = IF tx[x].kind = "assign" THEN "commit" ELSE "carry",
                              !.new = None]
<1>1. /\ At(x, "insert") /\ WriteAttributions(x, f) /\ Go(x, m) /\ WritesAttributions
      /\ attribution[a] = None /\ \A y \in Transactions : a \notin DOMAIN attributionW[y]
  BY DEF InsertAttribution
<1>2. /\ tx[x] \in Memory /\ tx[x].c \in DOMAIN campaignW[x]
      /\ new.campaignId = tx[x].c /\ new.pausedByCampaignId = None
      /\ \A b \in Attributions : ~OpenIn(Att(x)[b], tx[x].c, new.territoryId)
  BY <1>1, Known DEF OnceInv, AllPrepared, Prepared, At
<1>3. Att(x)[a] = None /\ AttributionFree(x, a)
  BY <1>1, AttAt DEF AttributionFree, Others
<1> HIDE DEF new
<1>4. DOMAIN f = {a} /\ f[a] = new
  OBVIOUS
<1> HIDE DEF f
<1>5. Att(x)'[a] = new /\ \A b \in Attributions \ {a} : Att(x)'[b] = Att(x)[b]
  BY <1>1, <1>4, AttributionsWritten
<1>6. Once(Att(x)')
  <2> SUFFICES ASSUME NEW c \in Campaigns, NEW t \in Territories,
                      NEW b \in Attributions, NEW d \in Attributions,
                      OpenIn(Att(x)'[b], c, t), OpenIn(Att(x)'[d], c, t)
               PROVE  b = d
    BY DEF Once
  <2>1. CASE b # a /\ d # a
    BY <1>5, <2>1 DEF OnceInv, OnceForAll, Once
  <2>2. CASE b = a \/ d = a
    <3>1. c = tx[x].c /\ t = new.territoryId
      BY <1>2, <1>5, <2>2 DEF OpenIn
    <3> QED
      BY <1>2, <1>5, <2>2, <3>1
  <2> QED
    BY <2>1, <2>2
<1>7. m.at \in {"commit", "carry"} /\ m.c = tx[x].c
  BY <1>2 DEF Memory
<1> HIDE DEF m
<1>8. Prepared(m, campaignW[x], Att(x)')
  BY <1>2, <1>7 DEF Prepared
<1>9. Unpaused(new)
  BY <1>2 DEF Unpaused, Suspended
<1> QED
  BY <1>1, <1>2, <1>3, <1>4, <1>6, <1>8, <1>9, AttributionOnce

-----------------------------------------------------------------------------
(* The end of a request.                                                   *)

(* What y finds when x has committed is what it found, or what x wrote of  *)
(* a row that y did not.                                                   *)
LEMMA CommitSeen ==
    ASSUME IInv, OnceInv, NEW x \in Transactions, Commit(x), NEW y \in Others(x),
           NEW a \in Attributions
    PROVE  \/ Att(y)'[a] = Att(y)[a] /\ (a \in DOMAIN attributionW[y] \/ Att(x)[a] = Att(y)[a])
           \/ /\ a \in DOMAIN attributionW[x] /\ a \notin DOMAIN attributionW[y]
              /\ Att(y)'[a] = attributionW[x][a] /\ Att(x)[a] = attributionW[x][a]
              /\ Att(y)[a] = attribution[a]
<1>1. attribution' = Att(x) /\ attributionW'[y] = attributionW[y]
  BY DEF Commit, Release, IInv, TypeOK, Others
<1>2. Att(x) \in [Attributions -> AttributionRow \cup {None}]
  BY Known
<1>3. Att(y)'[a] = IF a \in DOMAIN attributionW[y] THEN attributionW[y][a] ELSE Att(x)[a]
  BY <1>1, <1>2 DEF Att, Over
<1> QED
  BY <1>3, AttAt DEF Others

LEMMA CommitOnce ==
    ASSUME IInv, OnceInv, NEW x \in Transactions, Commit(x)
    PROVE  OnceInv'
<1>1. /\ tx'[x] = Idle /\ \A y \in Others(x) : tx'[y] = tx[y]
      /\ campaignW'[x] = Nothing /\ \A y \in Others(x) : campaignW'[y] = campaignW[y]
      /\ attributionW'[x] = Nothing /\ \A y \in Others(x) : attributionW'[y] = attributionW[y]
  BY DEF Commit, Release, Go, IInv, TypeOK, Others
<1>2. DOMAIN Nothing = {}
  BY NothingIsPartial
<1>3. attribution' = Att(x)
  BY DEF Commit
<1>4. Att(x)' = Att(x)
  <2>1. Att(x) = [a \in DOMAIN Att(x) |-> Att(x)[a]]
    BY DEF Att, Over
  <2> QED
    BY <1>1, <1>2, <1>3, <2>1 DEF Att, Over
<1>5. AttributionLocks' /\ OwnCampaigns'
  BY <1>1, <1>2 DEF OnceInv, AttributionLocks, OwnCampaigns, Others
<1>6. RowsStay'
  <2> SUFFICES ASSUME NEW y \in Transactions, NEW a \in DOMAIN attributionW'[y],
                      Att(x)[a] # None
               PROVE  attributionW'[y][a].campaignId = Att(x)[a].campaignId
    BY <1>3 DEF RowsStay
  <2>1. y \in Others(x) /\ attributionW'[y] = attributionW[y] /\ a \in DOMAIN attributionW[y]
    BY <1>1, <1>2 DEF Others
  <2>2. a \in Attributions /\ a \notin DOMAIN attributionW[x]
    BY <2>1, AttAt DEF OnceInv, AttributionLocks, Others
  <2>3. Att(x)[a] = attribution[a]
    BY <2>2, AttAt
  <2> QED
    BY <2>1, <2>3 DEF OnceInv, RowsStay, Others
<1>7. CampaignRowsWork'
  <2>1. \A a \in Attributions : Unpaused(Att(x)[a])
    BY FoundUnpaused
  <2>2. ASSUME NEW y \in Transactions, NEW a \in DOMAIN attributionW'[y]
        PROVE  Unpaused(attributionW'[y][a])
    BY <1>1, <1>2 DEF OnceInv, CampaignRowsWork, Others
  <2> QED
    BY <1>3, <2>1, <2>2 DEF CampaignRowsWork, Unpaused, Suspended
<1>8. ASSUME NEW y \in Others(x), NEW c \in DOMAIN campaignW[y], NEW t, NEW a \in Attributions,
             OpenIn(Att(y)'[a], c, t)
      PROVE  OpenIn(Att(y)[a], c, t)
  <2>1. c \notin DOMAIN campaignW[x] /\ c # None
    BY NoneIsNoRow DEF IInv, CampaignLocks, Others
  <2>2. \A b \in DOMAIN attributionW[x] : attributionW[x][b].campaignId # c
    BY <2>1 DEF OnceInv, OwnCampaigns
  <2> QED
    BY <1>8, <2>2, CommitSeen DEF OpenIn
<1>9. ASSUME NEW y \in Others(x), NEW c \in Campaigns \ DOMAIN campaignW[y], NEW t,
             NEW a \in Attributions, OpenIn(Att(y)'[a], c, t)
      PROVE  OpenIn(Att(x)[a], c, t)
  <2>1. c # None /\ y \in Transactions
    BY NoneIsNoRow DEF Others
  <2>2. \A b \in DOMAIN attributionW[y] :
           attributionW[y][b].campaignId # c /\ Att(y)[b] = attributionW[y][b]
    BY <2>1, AttAt DEF OnceInv, OwnCampaigns
  <2> QED
    BY <1>9, <2>2, CommitSeen DEF OpenIn
<1>10. OnceForAll'
  <2>1. Once(Att(x))
    BY DEF OnceInv, OnceForAll
  <2>2. ASSUME NEW y \in Others(x) PROVE Once(Att(y)')
    <3> SUFFICES ASSUME NEW c \in Campaigns, NEW t \in Territories,
                        NEW a \in Attributions, NEW b \in Attributions,
                        OpenIn(Att(y)'[a], c, t), OpenIn(Att(y)'[b], c, t)
                 PROVE  a = b
      BY DEF Once
    <3>1. CASE c \in DOMAIN campaignW[y]
      BY <1>8, <3>1 DEF OnceInv, OnceForAll, Once, Others
    <3>2. CASE c \notin DOMAIN campaignW[y]
      BY <1>9, <2>1, <3>2 DEF Once
    <3> QED
      BY <3>1, <3>2
  <2>3. \A y \in Transactions : Once(Att(y)')
    BY <1>4, <2>1, <2>2 DEF Others
  <2> QED
    BY <1>3, <2>1, <2>3 DEF OnceForAll, Once, OpenIn
<1>11. AllPrepared'
  <2>1. Prepared(Idle, Nothing, Att(x)')
    BY DEF Prepared, Idle
  <2>2. ASSUME NEW y \in Others(x)
        PROVE  Prepared(tx[y], campaignW[y], Att(y)')
    <3>1. Prepared(tx[y], campaignW[y], Att(y)) /\ tx[y].rows \subseteq Attributions
      BY Known DEF OnceInv, AllPrepared, Others, Memory
    <3>2. ASSUME NEW a \in Attributions, Att(y)[a] # None, Att(y)[a].campaignId = None
          PROVE  Att(y)'[a] # None /\ Att(y)'[a].campaignId = None
      BY <3>2, CommitSeen, AttAt, NoneIsNoRow DEF OnceInv, RowsStay
    <3>3. tx[y].at = "insert" =>
             \A a \in Attributions : ~OpenIn(Att(y)'[a], tx[y].c, tx[y].new.territoryId)
      BY <1>8, <3>1 DEF Prepared
    <3> QED
      BY <3>1, <3>2, <3>3 DEF Prepared
  <2>3. \A y \in Transactions : Prepared(tx'[y], campaignW'[y], Att(y)')
    BY <1>1, <2>1, <2>2 DEF Others
  <2> QED
    BY <2>3 DEF AllPrepared, Prepared, OpenIn
<1> QED
  BY <1>5, <1>6, <1>7, <1>10, <1>11 DEF OnceInv

LEMMA RollbackOnce ==
    ASSUME IInv, OnceInv, NEW x \in Transactions, Rollback(x)
    PROVE  OnceInv'
<1>1. /\ tx'[x] = Idle /\ \A y \in Others(x) : tx'[y] = tx[y]
      /\ campaignW'[x] = Nothing /\ \A y \in Others(x) : campaignW'[y] = campaignW[y]
      /\ attributionW'[x] = Nothing /\ \A y \in Others(x) : attributionW'[y] = attributionW[y]
  BY DEF Rollback, Release, Go, IInv, TypeOK, Others
<1>2. DOMAIN Nothing = {}
  BY NothingIsPartial
<1>3. attribution' = attribution /\ attribution = [a \in DOMAIN attribution |-> attribution[a]]
  BY DEF Rollback, IInv, TypeOK
<1>4. Att(x)' = attribution /\ \A y \in Others(x) : Att(y)' = Att(y)
  BY <1>1, <1>2, <1>3 DEF Att, Over
<1>5. AttributionLocks' /\ OwnCampaigns' /\ RowsStay' /\ CampaignRowsWork'
  BY <1>1, <1>2, <1>3
  DEF OnceInv, AttributionLocks, OwnCampaigns, RowsStay, CampaignRowsWork, Others
<1>6. OnceForAll'
  <2>1. Once(attribution) /\ \A y \in Transactions : Once(Att(y)')
    BY <1>4 DEF OnceInv, OnceForAll, Others
  <2> QED
    BY <1>3, <2>1 DEF OnceForAll, Once, OpenIn
<1>7. AllPrepared'
  <2>1. Prepared(Idle, Nothing, Att(x)')
    BY DEF Prepared, Idle
  <2>2. \A y \in Transactions : Prepared(tx'[y], campaignW'[y], Att(y)')
    BY <1>1, <1>4, <2>1 DEF OnceInv, AllPrepared, Others
  <2> QED
    BY <2>2 DEF AllPrepared, Prepared, OpenIn
<1> QED
  BY <1>5, <1>6, <1>7 DEF OnceInv

LEMMA InitOnce ==
    ASSUME CarriesOnly, Init
    PROVE  OnceInv
<1>1. DOMAIN Nothing = {} /\ attribution \in [Attributions -> AttributionRow \cup {None}]
  BY NothingIsPartial, ConcurrencyAssumption DEF Init
<1>2. \A x \in Transactions : DOMAIN attributionW[x] = {} /\ tx[x] = Idle
  BY <1>1 DEF Init
<1>3. \A x \in Transactions : Att(x) = attribution
  BY <1>1, <1>2 DEF Att, Over
<1>4. Once(attribution) /\ \A a \in Attributions : Unpaused(attribution[a])
  BY DEF Init, CarriesOnly
<1>5. AllPrepared
  BY <1>2 DEF AllPrepared, Prepared, Idle
<1> QED
  BY <1>2, <1>3, <1>4, <1>5
  DEF OnceInv, AttributionLocks, OwnCampaigns, RowsStay, CampaignRowsWork, OnceForAll

LEMMA NextOnce ==
    ASSUME CarriesOnly
    PROVE  IInv /\ OnceInv /\ [Next]_vars => OnceInv'
<1> SUFFICES ASSUME IInv, OnceInv, [Next]_vars PROVE OnceInv'
  OBVIOUS
<1>1. ASSUME NEW x \in Transactions, Begin(x) PROVE OnceInv'
  BY <1>1, BeginOnce
<1>2. ASSUME NEW x \in Transactions, Statement(x) PROVE OnceInv'
  <2>1. CASE FindDue(x) \/ CarriedOver(x) \/ NextActivation(x) \/ Finish(x) \/ TurnToRemoved(x)
    BY <2>1, FindOnce
  <2>2. CASE FindRegulars(x)
    BY <2>2, FindRegularsOnce
  <2>3. CASE PauseRows(x)
    BY <2>3, PauseRowsOnce
  <2>4. CASE CloseWork(x)
    BY <2>4, CloseWorkOnce
  <2>5. CASE ReleaseRows(x) \/ LiftPause(x)
    BY <2>5, ReleaseRowsOnce
  <2>6. ASSUME NEW a \in Attributions, CarryOver(x, a) \/ InsertAttribution(x, a) PROVE OnceInv'
    BY <2>6, CarryOverOnce, InsertAttributionOnce
  <2>7. CASE UpdateCampaign(x) \/ ReplaceScope(x) \/ DeleteRow(x)
    BY <2>7, CampaignsOnce
  <2>8. ASSUME NEW c \in Campaigns, MarkActivated(x, c) \/ MarkEnded(x, c) \/ InsertCampaign(x, c)
        PROVE  OnceInv'
    BY <2>8, CampaignsOnce
  <2> QED
    BY <1>2, <2>1, <2>2, <2>3, <2>4, <2>5, <2>6, <2>7, <2>8 DEF Statement
<1>3. ASSUME NEW x \in Transactions, Commit(x) \/ Rollback(x) PROVE OnceInv'
  BY <1>3, CommitOnce, RollbackOnce
<1>4. CASE NextDay \/ UNCHANGED vars
  <2>1. UNCHANGED <<attribution, campaignW, attributionW, tx>>
    BY <1>4 DEF NextDay, vars
  <2>2. \A y \in Transactions : UNCHANGED Att(y)
    BY <2>1 DEF Att
  <2> QED
    BY <2>1, <2>2 DEF OnceInv, AttributionLocks, OwnCampaigns, RowsStay, CampaignRowsWork,
                      OnceForAll, AllPrepared
<1> QED
  BY <1>1, <1>2, <1>3, <1>4 DEF Next

(* No campaign has two open rows on one territory, for any number of       *)
(* connections and campaigns: of two activations, or an activation and a   *)
(* scope edit, the later one waits for the campaign's row and then sees    *)
(* what the earlier one carried over.                                      *)
THEOREM ACampaignWorksATerritoryOnce ==
    ASSUME CarriesOnly PROVE Spec => []Once(attribution)
<1>1. OnceInv => Once(attribution)
  BY DEF OnceInv, OnceForAll
<1>2. Init => OnceInv
  BY InitOnce
<1>3. IInv /\ OnceInv /\ [Next]_vars => OnceInv'
  BY NextOnce
<1> QED
  BY <1>1, <1>2, <1>3, Invariance, PTL DEF Spec

(* So where one campaign takes its turn, a territory is carried once.      *)
THEOREM TerritoriesAreCarriedOnce ==
    ASSUME CarriesOnly, \A c, d \in Campaigns : c = d PROVE Spec => []CarriedOnce
<1>1. IInv /\ Once(attribution) => CarriedOnce
  <2> SUFFICES ASSUME IInv, Once(attribution), NEW a \in Attributions, NEW b \in Attributions,
                      a # b, attribution[a] # None, attribution[b] # None,
                      attribution[a].open, attribution[a].campaignId # None,
                      attribution[b].open, attribution[b].campaignId # None,
                      attribution[a].territoryId = attribution[b].territoryId
               PROVE  FALSE
    BY DEF CarriedOnce
  <2>1. attribution[a] \in AttributionRow /\ attribution[b] \in AttributionRow
    BY DEF IInv, TypeOK
  <2>2. /\ attribution[a].campaignId \in Campaigns /\ attribution[a].territoryId \in Territories
        /\ attribution[b].campaignId \in Campaigns
    BY <2>1 DEF AttributionRow
  <2>3. attribution[a].campaignId = attribution[b].campaignId
    BY <2>2
  <2> QED
    BY <2>2, <2>3 DEF Once, OpenIn
<1> QED
  BY <1>1, ACampaignWorksATerritoryOnce, Invariance, PTL
=============================================================================
