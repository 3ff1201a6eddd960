------------------------- MODULE WorkItemSyncProofs -------------------------
(***************************************************************************)
(* The committed rows of work packages, for every set of packages and any  *)
(* number of edits, webhooks and failures.                                 *)
(*                                                                         *)
(* None of the properties is inductive.  They speak of committed rows, but *)
(* a commit writes what the worker's transaction holds, after calls that   *)
(* raised half-way too; and whether a half-done call leaves a baseline     *)
(* that is not applied depends on the snapshot at hand being the newest    *)
(* the worker has seen, which OpenProject only guarantees through the      *)
(* order of its revisions.  The invariant says so of the database, the     *)
(* transaction and the fetched batch.                                      *)
(***************************************************************************)
EXTENDS WorkItemSync, SequenceTheorems, TLAPS

\* A snapshot the provider has had: an older revision than the present one, or
\* that one.
Past(k, s) ==
    /\ provider[k] # Absent
    /\ s.rev <= provider[k].rev
    /\ s.rev = provider[k].rev => s = provider[k]

\* The revision in the baseline has been applied to the work item.
Applied(e) ==
    e.snap # NoSnapshot =>
        /\ e.item.rev >= e.snap.rev
        /\ e.item.rev = e.snap.rev /\ e.snap.assignee # Nobody
              => e.item.assignee = e.snap.assignee

\* An assignment to the brain is announced; an item without a baseline is what
\* an interrupted call left.
Announced(e) == e.snap = NoSnapshot \/ e.snap.assignee = BrainActor => e.told # "no"

\* What holds of the rows of package k that the worker has written.
RowInv(k, e) ==
    e # NoEntry =>
        /\ provider[k] # Absent
        /\ e.item.rev <= provider[k].rev
        /\ e.snap # NoSnapshot => Past(k, e.snap)
        /\ Applied(e)
        /\ Announced(e)
        /\ e.item.id.gen <= gen

RowsInv == \A k \in Packages : RowInv(k, db[k]) /\ RowInv(k, tx[k])

\* Rows e of a package may replace the rows d: same item, no older baseline.
Follows(e, d) ==
    e # NoEntry /\ d # NoEntry =>
        /\ e.item.id = d.item.id
        /\ d.snap # NoSnapshot => e.snap # NoSnapshot /\ d.snap.rev <= e.snap.rev

TxFollows == \A k \in Packages : Follows(tx[k], db[k])

\* A snapshot is not older than the rows e.
NotOlder(s, e) ==
    e # NoEntry =>
        /\ e.item.rev <= s.rev
        /\ e.snap # NoSnapshot =>
              /\ e.snap.rev <= s.rev
              /\ e.snap.rev = s.rev => e.snap = s

BatchInv ==
    /\ \A k \in DOMAIN batch : Past(k, batch[k]) /\ NotOlder(batch[k], View(tx, k))
    /\ \A k \in plan : provider[k] # Absent

\* The API process gives items ids of its own or finds a committed item.
FromCommitted(k, e) ==
    e # NoEntry =>
        \/ e.item.id.by = "api"
        \/ db[k] # NoEntry /\ db[k].item.id = e.item.id

ApiInv ==
    /\ \A k \in Packages : FromCommitted(k, api[k])
    /\ request # NoRequest => FromCommitted(request.hook.pkg, request.before)

Findable(run) == run.id.by = "api" \/ run.id.gen < gen \/ Found(run)

QueueInv == \A i \in DOMAIN queue : Findable(queue[i])

SyncInv ==
    /\ TypeOK
    /\ gen <= faults
    /\ RowsInv
    /\ TxFollows
    /\ BatchInv
    /\ ApiInv
    /\ QueueInv

-----------------------------------------------------------------------------
(* One call of ingest_work_item_snapshot.                                   *)

LEMMA AppliedItemType ==
    ASSUME NEW e \in Entries, NEW snap \in Snapshot, NEW id \in ItemId
    PROVE  /\ AppliedItem(e, snap, id) \in Item
           /\ AppliedItem(e, snap, id).rev = snap.rev
           /\ snap.assignee # Nobody => AppliedItem(e, snap, id).assignee = snap.assignee
           /\ e = NoEntry => AppliedItem(e, snap, id).id = id
           /\ e # NoEntry => AppliedItem(e, snap, id).id = e.item.id
  BY DEF AppliedItem, Entries, Entry, Item, Snapshot, Assignees

LEMMA IngestedType ==
    ASSUME NEW e \in Entries, NEW snap \in Snapshot, NEW id \in ItemId, NEW action
    PROVE  /\ Ingested(e, snap, action, id) \in Entry
           /\ Ingested(e, snap, action, id).snap = snap
           /\ Ingested(e, snap, action, id).item = AppliedItem(e, snap, id)
  BY AppliedItemType DEF Ingested, Entries, Entry, Told, ToldBefore

LEMMA InterruptedType ==
    ASSUME NEW e \in Entries, NEW snap \in Snapshot, NEW id \in ItemId
    PROVE  /\ IngestedHalf(e, snap, id) \in Entry
           /\ IngestedHalf(e, snap, id).snap = Baseline(e)
           /\ IngestedHalf(e, snap, id).item = AppliedItem(e, snap, id)
           /\ IngestedHalf(e, snap, id).told = "interrupted"
           /\ IngestedSilently(e, snap, id) \in Entry
           /\ IngestedSilently(e, snap, id).snap = snap
           /\ IngestedSilently(e, snap, id).item = AppliedItem(e, snap, id)
           /\ IngestedSilently(e, snap, id).told = "interrupted"
  BY AppliedItemType
     DEF IngestedHalf, IngestedSilently, Entries, Entry, Told, Baseline

\* A pull announces an assignment to the brain unless it has been announced.
LEMMA PullAnnounces ==
    ASSUME NEW e \in Entries, NEW snap \in Snapshot, NEW id,
           e # NoEntry => Announced(e)
    PROVE  Announced(Ingested(e, snap, "none", id))
  <1> DEFINE after == Ingested(e, snap, "none", id)
  <1>1. /\ after.snap = snap
        /\ after.told = IF Announces(e, snap, "none") THEN "yes"
                        ELSE IF snap.assignee # BrainActor THEN "no"
                        ELSE ToldBefore(e)
    BY DEF Ingested
  <1>2. snap # NoSnapshot
    BY IngestionAssumption
  <1> HIDE DEF after
  <1>3. SUFFICES ASSUME snap.assignee = BrainActor,
                        ~Announces(e, snap, "none")
                 PROVE  after.told # "no"
    BY <1>1, <1>2 DEF Announced, after
  <1>4. e # NoEntry /\ after.told = e.told
    BY <1>1, <1>3 DEF Announces, Triggers, ToldBefore
  <1>5. "assignee" \notin Changes(e.snap, snap)
    BY <1>3, <1>4 DEF Announces, Triggers, Baseline
  <1>6. e.snap = NoSnapshot \/ e.snap.assignee = snap.assignee
    BY <1>5 DEF Changes
  <1> QED
    BY <1>3, <1>4, <1>6 DEF Announced

-----------------------------------------------------------------------------
(* What the rows of the worker's transaction become.                        *)

\* The rows that a call of the pull, complete or not, writes for a package of
\* its batch.
Written(k) ==
    {Ingested(View(tx, k), batch[k], "none", WorkerId),
     IngestedHalf(View(tx, k), batch[k], WorkerId),
     IngestedSilently(View(tx, k), batch[k], WorkerId)}

\* The view of the worker's session.
LEMMA ViewType ==
    ASSUME TypeOK, NEW k \in Packages
    PROVE  View(tx, k) \in Entries
  BY DEF View, TypeOK, Rows

LEMMA ViewInv ==
    ASSUME SyncInv, NEW k \in Packages
    PROVE  RowInv(k, View(tx, k)) /\ Follows(View(tx, k), db[k])
  <1>1. RowInv(k, tx[k]) /\ RowInv(k, db[k]) /\ Follows(tx[k], db[k])
    BY DEF SyncInv, RowsInv, TxFollows
  <1>2. Follows(db[k], db[k])
    <2>1. db[k] # NoEntry /\ db[k].snap # NoSnapshot => db[k].snap.rev \in Nat
      BY IngestionAssumption DEF SyncInv, TypeOK, Rows, Entries, Entry, Snapshot
    <2> QED
      BY <2>1 DEF Follows
  <1> QED
    BY <1>1, <1>2 DEF View

LEMMA WorkerIdType == ASSUME TypeOK PROVE WorkerId \in ItemId /\ WorkerId.gen = gen
  BY DEF WorkerId, ItemId, TypeOK

\* Complete or not, a call leaves a baseline that is applied, an assignment
\* that is announced, and rows that may replace the committed ones.
LEMMA WrittenInv ==
    ASSUME SyncInv, NEW k \in DOMAIN batch, NEW e \in Written(k)
    PROVE  /\ e \in Entry
           /\ RowInv(k, e)
           /\ Follows(e, View(tx, k))
           /\ Follows(e, db[k])
  <1> DEFINE v == View(tx, k)
             item == AppliedItem(v, batch[k], WorkerId)
  <1>1. /\ k \in Packages /\ batch[k] \in Snapshot /\ v \in Entries
        /\ WorkerId \in ItemId /\ WorkerId.gen = gen /\ batch[k] # NoSnapshot
    BY ViewType, WorkerIdType, IngestionAssumption DEF SyncInv, TypeOK
  <1>2. /\ RowInv(k, v) /\ Follows(v, db[k])
        /\ Past(k, batch[k]) /\ NotOlder(batch[k], v)
    BY <1>1, ViewInv DEF SyncInv, BatchInv
  <1>3. /\ item \in Item
        /\ item.rev = batch[k].rev
        /\ batch[k].assignee # Nobody => item.assignee = batch[k].assignee
        /\ v = NoEntry => item.id = WorkerId
        /\ v # NoEntry => item.id = v.item.id
    BY <1>1, AppliedItemType
  <1>4. /\ e \in Entry /\ e.item = item
        /\ \/ e.snap = batch[k]
           \/ e.snap = Baseline(v)
        /\ Announced(e)
    <2>1. CASE e = Ingested(v, batch[k], "none", WorkerId)
      <3>1. v # NoEntry => Announced(v)
        BY <1>2 DEF RowInv
      <3> QED
        BY <1>1, <2>1, <3>1, IngestedType, PullAnnounces
    <2>2. CASE e = IngestedHalf(v, batch[k], WorkerId)
      BY <1>1, <2>2, InterruptedType DEF Announced
    <2>3. CASE e = IngestedSilently(v, batch[k], WorkerId)
      BY <1>1, <2>3, InterruptedType DEF Announced
    <2> QED
      BY <2>1, <2>2, <2>3 DEF Written
  <1>5. v # NoEntry => v \in Entry /\ e # NoEntry
    BY <1>1, <1>4, IngestionAssumption DEF Entries
  <1>6. batch[k].rev \in Nat /\ (v # NoEntry => v.item.rev \in Nat)
        /\ (v # NoEntry /\ v.snap # NoSnapshot => v.snap \in Snapshot /\ v.snap.rev \in Nat)
    BY <1>1, <1>5, IngestionAssumption DEF Entry, Item, Snapshot
  <1> HIDE DEF v, item
  <1>7. Applied(e)
    <2>1. CASE e.snap = batch[k]
      BY <1>3, <1>4, <1>6, <2>1 DEF Applied
    <2>2. CASE e.snap = Baseline(v) /\ v # NoEntry
      BY <1>2, <1>3, <1>4, <1>6, <2>2 DEF Applied, Baseline, NotOlder
    <2>3. CASE e.snap = NoSnapshot
      BY <2>3 DEF Applied
    <2> QED
      BY <1>4, <2>1, <2>2, <2>3 DEF Baseline
  <1>8. e.snap # NoSnapshot => Past(k, e.snap)
    BY <1>2, <1>4 DEF Baseline, RowInv
  <1>9. e.item.id.gen <= gen
    BY <1>1, <1>2, <1>3, <1>4 DEF RowInv, SyncInv, TypeOK
  <1>10. RowInv(k, e)
    BY <1>2, <1>3, <1>4, <1>7, <1>8, <1>9 DEF RowInv, Past
  <1>11. Follows(e, v)
    BY <1>1, <1>2, <1>3, <1>4, <1>6 DEF Follows, NotOlder, Baseline
  <1>12. Follows(e, db[k])
    <2>1. db[k] # NoEntry => v # NoEntry
      BY DEF View, v
    <2>2. db[k] # NoEntry /\ db[k].snap # NoSnapshot => db[k].snap.rev \in Nat
      BY <1>1, IngestionAssumption
         DEF SyncInv, TypeOK, Rows, Entries, Entry, Snapshot
    <2>3. e.snap # NoSnapshot => e.snap.rev \in Nat
      BY <1>4, IngestionAssumption DEF Entry, Snapshot
    <2> QED
      BY <1>2, <1>5, <1>6, <1>11, <2>1, <2>2, <2>3 DEF Follows
  <1> QED
    BY <1>4, <1>10, <1>11, <1>12 DEF v

-----------------------------------------------------------------------------
(* The invariant holds initially.                                           *)

LEMMA BootstrappedInv ==
    ASSUME NEW snap \in Snapshot
    PROVE  /\ Bootstrapped(snap) \in Entry
           /\ Bootstrapped(snap).snap = snap
           /\ Bootstrapped(snap).item.rev = snap.rev
           /\ Bootstrapped(snap).item.id.gen = 0
           /\ Applied(Bootstrapped(snap))
           /\ Announced(Bootstrapped(snap))
  <1> DEFINE id == [by |-> "worker", gen |-> 0]
  <1>1. id \in ItemId /\ id.gen = 0 /\ NoEntry \in Entries
    BY IngestionAssumption DEF ItemId, Entries
  <1> HIDE DEF id
  <1>2. /\ AppliedItem(NoEntry, snap, id) \in Item
        /\ AppliedItem(NoEntry, snap, id).rev = snap.rev
        /\ snap.assignee # Nobody =>
              AppliedItem(NoEntry, snap, id).assignee = snap.assignee
        /\ AppliedItem(NoEntry, snap, id).id = id
    BY <1>1, AppliedItemType
  <1>3. /\ Bootstrapped(snap).snap = snap
        /\ Bootstrapped(snap).item = AppliedItem(NoEntry, snap, id)
        /\ Bootstrapped(snap).told
              = IF snap.assignee = BrainActor THEN "historical" ELSE "no"
        /\ Bootstrapped(snap) \in Entry
    BY <1>2 DEF Bootstrapped, Entry, Told, id
  <1>4. snap # NoSnapshot /\ snap.rev \in Nat
    BY IngestionAssumption DEF Snapshot
  <1> QED
    BY <1>1, <1>2, <1>3, <1>4 DEF Applied, Announced

LEMMA SyncInit == ASSUME Init PROVE SyncInv
  <1>1. /\ Historical \subseteq Packages /\ MaxDay \in Nat /\ MaxEdits \in Nat
        /\ MaxHooks \in Nat /\ MaxGen \in Nat /\ MaxFaults \in 0 .. MaxGen
        /\ MaxRev \in Nat \ {0}
    BY SyncAssumption, IngestionAssumption
  <1>2. ASSUME NEW k \in Packages
        PROVE  /\ provider[k] \in Snapshot \cup {Absent}
               /\ db[k] \in Entries
               /\ RowInv(k, db[k])
    <2>1. CASE db = Nothing
      <3>1. db[k] = NoEntry
        BY <2>1 DEF Nothing
      <3>2. provider[k] \in Snapshot \cup {Absent}
        <4>1. CASE provider = [j \in Packages |-> Absent]
          BY <4>1
        <4>2. CASE \E who \in [Historical -> Assignees] :
                      provider = [j \in Packages |->
                         IF j \in Historical THEN [rev |-> 1, assignee |-> who[j]]
                         ELSE Absent]
          BY <1>1, <4>2 DEF Snapshot
        <4> QED
          BY <4>1, <4>2 DEF Init
      <3> QED
        BY <3>1, <3>2 DEF Entries, RowInv
    <2>2. CASE db # Nothing
      <3>1. PICK who \in [Historical -> Assignees] :
               /\ provider = [j \in Packages |->
                     IF j \in Historical THEN [rev |-> 1, assignee |-> who[j]]
                     ELSE Absent]
               /\ db = [j \in Packages |->
                     IF j \in Historical THEN Bootstrapped(provider[j])
                     ELSE NoEntry]
        BY <2>2 DEF Init
      <3>2. CASE k \in Historical
        <4>1. provider[k] = [rev |-> 1, assignee |-> who[k]]
              /\ db[k] = Bootstrapped(provider[k])
          BY <3>1, <3>2
        <4>2. provider[k] \in Snapshot /\ provider[k].rev \in Nat
          BY <1>1, <3>2, <4>1 DEF Snapshot
        <4>3. provider[k] # Absent
          BY <4>2, SyncAssumption
        <4>4. gen = 0
          BY DEF Init
        <4> DEFINE e == Bootstrapped(provider[k])
        <4>5. /\ e \in Entry /\ e.snap = provider[k] /\ e.item.rev = provider[k].rev
              /\ e.item.id.gen = 0 /\ Applied(e) /\ Announced(e)
          BY <4>2, BootstrappedInv
        <4> HIDE DEF e
        <4>6. RowInv(k, e)
          BY <4>2, <4>3, <4>4, <4>5 DEF RowInv, Past
        <4> QED
          BY <4>1, <4>2, <4>5, <4>6 DEF Entries, e
      <3>3. CASE k \notin Historical
        <4>1. provider[k] = Absent /\ db[k] = NoEntry
          BY <3>1, <3>3
        <4> QED
          BY <4>1 DEF RowInv, Entries
      <3> QED
        BY <3>2, <3>3
    <2> QED
      BY <2>1, <2>2
  <1>3. /\ Nothing \in Rows
        /\ \A k \in Packages : Nothing[k] = NoEntry
    BY DEF Nothing, Rows, Entries
  <1>4. DOMAIN batch = {} /\ queue = << >> /\ plan = {} /\ request = NoRequest
    BY DEF Init, NoBatch
  <1>5. TypeOK
    <2>1. /\ provider = [k \in Packages |-> provider[k]]
          /\ db = [k \in Packages |-> db[k]]
      BY <1>3 DEF Init, Nothing
    <2>2. provider \in [Packages -> Snapshot \cup {Absent}] /\ db \in Rows
      BY <1>2, <2>1 DEF Rows
    <2>3. mark \in 0 .. MaxDay \cup {NoMark}
      BY <1>1 DEF Init
    <2>4. /\ updated \in [Packages -> 0 .. MaxDay] /\ today \in 0 .. MaxDay
          /\ edits \in 0 .. MaxEdits /\ handled \in 0 .. MaxHooks
          /\ gen \in 0 .. MaxGen /\ faults \in 0 .. MaxFaults
      BY <1>1 DEF Init
    <2>5. /\ DOMAIN batch \subseteq Packages
          /\ \A k \in DOMAIN batch : batch[k] \in Snapshot
          /\ queue \in Seq(Run)
      BY <1>4
    <2>6. /\ hooks \in SUBSET Hook /\ seen \in SUBSET Packages
          /\ plan \in SUBSET Packages /\ refused \in BOOLEAN
          /\ wpc \in {"idle", "pull", "sweep"} /\ api \in Rows /\ tx \in Rows
          /\ request \in Request \cup {NoRequest}
      BY <1>3 DEF Init
    <2> QED
      BY <2>2, <2>3, <2>4, <2>5, <2>6 DEF TypeOK
  <1>6. RowsInv /\ TxFollows
    BY <1>2, <1>3 DEF Init, RowsInv, TxFollows, RowInv, Follows
  <1>7. BatchInv /\ ApiInv /\ QueueInv
    BY <1>3, <1>4 DEF Init, BatchInv, ApiInv, QueueInv, FromCommitted
  <1>8. gen <= faults
    BY DEF Init
  <1> QED
    BY <1>5, <1>6, <1>7, <1>8 DEF SyncInv

-----------------------------------------------------------------------------
(* OpenProject.                                                             *)

LEMMA NotifyType ==
    ASSUME TypeOK, NEW k \in Packages, NEW action \in {"created", "updated"},
           provider' \in [Packages -> Snapshot \cup {Absent}],
           provider'[k] \in Snapshot, Notify(k, action)
    PROVE  hooks' \in SUBSET Hook
  BY DEF Notify, TypeOK, Hook

\* A package that changes gets a new revision: nothing the worker has is newer
\* or different at the same revision.
LEMMA NewRevision ==
    ASSUME SyncInv, NEW k \in Packages, NEW s \in Snapshot,
           provider' = [provider EXCEPT ![k] = s],
           provider[k] = Absent \/ (provider[k] # Absent /\ s.rev = provider[k].rev + 1),
           UNCHANGED <<db, mark, apiVars, pullVars, tx, gen, queue>>
    PROVE  RowsInv' /\ TxFollows' /\ BatchInv' /\ ApiInv' /\ QueueInv'
  <1>1. /\ provider \in [Packages -> Snapshot \cup {Absent}]
        /\ Absent \notin Snapshot
        /\ DOMAIN batch \subseteq Packages
        /\ \A j \in DOMAIN batch : batch[j] \in Snapshot
        /\ db \in Rows /\ tx \in Rows /\ plan \subseteq Packages
    BY SyncAssumption DEF SyncInv, TypeOK
  <1>2. \A j \in Packages : provider[j] # Absent =>
            provider'[j] # Absent /\ provider[j].rev \in Nat /\ provider'[j].rev \in Nat
            /\ provider[j].rev <= provider'[j].rev
    BY <1>1 DEF Snapshot
  <1>3. ASSUME NEW j \in Packages, NEW t \in Snapshot, Past(j, t) PROVE Past(j, t)'
    <2>1. t.rev \in Nat
      BY DEF Snapshot
    <2>2. CASE j = k
      BY <1>1, <1>2, <1>3, <2>1, <2>2 DEF Past, Snapshot
    <2>3. CASE j # k
      BY <1>1, <1>3, <2>3 DEF Past
    <2> QED
      BY <2>2, <2>3
  <1>4. ASSUME NEW j \in Packages, NEW e \in Entries, RowInv(j, e) PROVE RowInv(j, e)'
    <2>1. e # NoEntry => e.snap \in Snapshot \cup {NoSnapshot} /\ e.item.rev \in Nat
      BY DEF Entries, Entry, Item
    <2> QED
      BY <1>2, <1>3, <1>4, <2>1 DEF RowInv
  <1>5. RowsInv'
    BY <1>1, <1>4 DEF SyncInv, RowsInv, Rows
  <1>6. BatchInv'
    BY <1>1, <1>2, <1>3 DEF SyncInv, BatchInv, pullVars, View
  <1> QED
    BY <1>5, <1>6 DEF SyncInv, TxFollows, ApiInv, QueueInv, apiVars, FromCommitted,
                      Findable, Found, View

LEMMA CreateStep == ASSUME SyncInv, NEW k \in Packages, Create(k) PROVE SyncInv'
  <1>1. PICK who \in Assignees :
           provider' = [provider EXCEPT ![k] = [rev |-> 1, assignee |-> who]]
    BY DEF Create
  <1>2. [rev |-> 1, assignee |-> who] \in Snapshot
    BY IngestionAssumption DEF Snapshot
  <1>3. provider' \in [Packages -> Snapshot \cup {Absent}] /\ provider'[k] \in Snapshot
    BY <1>1, <1>2 DEF SyncInv, TypeOK
  <1>4. hooks' \in SUBSET Hook
    BY <1>3, NotifyType DEF Create, SyncInv
  <1>5. updated' \in [Packages -> 0 .. MaxDay]
    BY DEF Create, SyncInv, TypeOK
  <1>6. TypeOK' /\ (gen <= faults)'
    BY <1>3, <1>4, <1>5 DEF Create, SyncInv, TypeOK, apiVars, pullVars
  <1>7. RowsInv' /\ TxFollows' /\ BatchInv' /\ ApiInv' /\ QueueInv'
    BY <1>1, <1>2, NewRevision DEF Create
  <1> QED
    BY <1>6, <1>7 DEF SyncInv

LEMMA EditStep == ASSUME SyncInv, NEW k \in Packages, Edit(k) PROVE SyncInv'
  <1>1. PICK who \in Assignees :
           provider' = [provider EXCEPT ![k] =
                          [rev |-> provider[k].rev + 1, assignee |-> who]]
    BY DEF Edit
  <1>2. [rev |-> provider[k].rev + 1, assignee |-> who] \in Snapshot
    BY IngestionAssumption DEF Edit, SyncInv, TypeOK, Snapshot
  <1>3. provider' \in [Packages -> Snapshot \cup {Absent}] /\ provider'[k] \in Snapshot
    BY <1>1, <1>2 DEF SyncInv, TypeOK
  <1>4. hooks' \in SUBSET Hook
    BY <1>3, NotifyType DEF Edit, SyncInv
  <1>5. updated' \in [Packages -> 0 .. MaxDay] /\ edits' \in 0 .. MaxEdits
    BY SyncAssumption DEF Edit, SyncInv, TypeOK
  <1>6. TypeOK' /\ (gen <= faults)'
    BY <1>3, <1>4, <1>5 DEF Edit, SyncInv, TypeOK, apiVars, pullVars
  <1>7. RowsInv' /\ TxFollows' /\ BatchInv' /\ ApiInv' /\ QueueInv'
    BY <1>1, <1>2, NewRevision DEF Edit
  <1> QED
    BY <1>6, <1>7 DEF SyncInv

\* Nothing the invariant speaks of changes.
LEMMA KeptStep ==
    ASSUME SyncInv,
           UNCHANGED <<provider, db, tx, batch, plan, gen, faults, api, request, queue>>
    PROVE  /\ (gen <= faults)' /\ RowsInv' /\ TxFollows' /\ BatchInv' /\ ApiInv'
           /\ QueueInv'
  BY DEF SyncInv, RowsInv, RowInv, Past, TxFollows, Follows, BatchInv, NotOlder, View,
         ApiInv, FromCommitted, QueueInv, Findable, Found

LEMMA NextDayStep == ASSUME SyncInv, NextDay PROVE SyncInv'
  <1>1. TypeOK'
    BY SyncAssumption DEF NextDay, SyncInv, TypeOK, apiVars, pullVars
  <1> QED
    BY <1>1, KeptStep DEF NextDay, SyncInv, apiVars, pullVars

-----------------------------------------------------------------------------
(* The queue of RUN_WORK_ITEM.                                              *)

LEMMA QueueKept ==
    ASSUME QueueInv, queue \in Seq(Run), queue' = queue,
           \A r \in Run : Findable(r) => Findable(r)'
    PROVE  QueueInv'
  <1>1. ASSUME NEW i \in DOMAIN queue' PROVE Findable(queue[i])'
    <2>1. PICK r \in Run : r = queue[i] /\ r = queue'[i] /\ Findable(r)
      BY <1>1 DEF QueueInv
    <2>2. Findable(r)'
      BY <2>1
    <2> QED
      BY <2>1, <2>2 DEF Findable, Found
  <1> QED
    BY <1>1 DEF QueueInv

LEMMA QueueAppend ==
    ASSUME QueueInv, queue \in Seq(Run),
           \A r \in Run : Findable(r) => Findable(r)',
           \E r \in Run : Findable(r)' /\ queue' = Append(queue, r)
    PROVE  queue' \in Seq(Run) /\ QueueInv'
  <1>1. PICK run \in Run : Findable(run)' /\ queue' = Append(queue, run)
    OBVIOUS
  <1>2. /\ queue' \in Seq(Run)
        /\ Len(queue') = Len(queue) + 1
        /\ \A i \in 1 .. Len(queue) : queue'[i] = queue[i]
        /\ queue'[Len(queue) + 1] = run
    BY <1>1, AppendProperties
  <1>3. DOMAIN queue' = 1 .. Len(queue) + 1 /\ DOMAIN queue = 1 .. Len(queue)
        /\ Len(queue) \in Nat
    BY <1>2
  <1>4. ASSUME NEW i \in DOMAIN queue' PROVE Findable(queue[i])'
    <2>1. CASE i \in DOMAIN queue
      <3>1. PICK r \in Run : r = queue[i] /\ r = queue'[i] /\ Findable(r)
        BY <1>2, <1>3, <2>1 DEF QueueInv
      <3>2. Findable(r)'
        BY <3>1
      <3> QED
        BY <3>1, <3>2 DEF Findable, Found
    <2>2. CASE i = Len(queue) + 1
      BY <1>1, <1>2, <2>2 DEF Findable, Found
    <2> QED
      BY <1>3, <2>1, <2>2
  <1> QED
    BY <1>2, <1>4 DEF QueueInv

LEMMA QueueTail ==
    ASSUME QueueInv, queue \in Seq(Run), queue # << >>, queue' = Tail(queue),
           \A r \in Run : Findable(r) => Findable(r)'
    PROVE  queue' \in Seq(Run) /\ QueueInv'
  <1>1. /\ queue' \in Seq(Run)
        /\ Len(queue') = Len(queue) - 1
        /\ \A i \in 1 .. Len(queue') : queue'[i] = queue[i + 1]
    BY HeadTailProperties
  <1>2. DOMAIN queue' = 1 .. Len(queue') /\ DOMAIN queue = 1 .. Len(queue)
        /\ Len(queue) \in Nat
    BY <1>1
  <1>3. ASSUME NEW i \in DOMAIN queue' PROVE Findable(queue[i])'
    <2>1. i + 1 \in DOMAIN queue /\ queue'[i] = queue[i + 1]
      BY <1>1, <1>2
    <2>2. PICK r \in Run : r = queue[i + 1] /\ r = queue'[i] /\ Findable(r)
      BY <2>1 DEF QueueInv
    <2>3. Findable(r)'
      BY <2>2
    <2> QED
      BY <2>2, <2>3 DEF Findable, Found
  <1> QED
    BY <1>1, <1>3 DEF QueueInv

-----------------------------------------------------------------------------
(* The API process.                                                         *)

LEMMA ApiRequestStep ==
    ASSUME SyncInv, NEW h \in hooks, ApiRequest(h) PROVE SyncInv'
  <1>1. /\ hooks' \in SUBSET Hook /\ handled' \in 0 .. MaxHooks
        /\ h \in Hook /\ h.pkg \in Packages /\ api \in Rows /\ db \in Rows
    BY SyncAssumption DEF ApiRequest, SyncInv, TypeOK, Hook
  <1>2. View(api, h.pkg) \in Entries
    BY <1>1 DEF View, Rows
  <1>3. /\ request' \in Request \cup {NoRequest}
        /\ request' # NoRequest =>
              request'.hook = h /\ request'.before = View(api, h.pkg)
    BY <1>1, <1>2 DEF ApiRequest, Request
  <1>4. TypeOK'
    BY <1>1, <1>3 DEF ApiRequest, SyncInv, TypeOK, providerVars, pullVars
  <1>5. FromCommitted(h.pkg, View(api, h.pkg))
    BY <1>1 DEF SyncInv, ApiInv, FromCommitted, View
  <1>6. ApiInv'
    BY <1>3, <1>5 DEF ApiRequest, SyncInv, ApiInv, FromCommitted
  <1>7. RowsInv' /\ TxFollows' /\ BatchInv' /\ QueueInv' /\ (gen <= faults)'
    BY DEF ApiRequest, SyncInv, RowsInv, RowInv, Past, TxFollows, Follows, BatchInv,
           NotOlder, View, QueueInv, Findable, Found, providerVars, pullVars
  <1> QED
    BY <1>4, <1>6, <1>7 DEF SyncInv

LEMMA ApiWriteStep == ASSUME SyncInv, ApiWrite PROVE SyncInv'
  <1> DEFINE k == request.hook.pkg
             id == [by |-> "api", gen |-> 0]
             after == Ingested(request.before, request.hook.snap,
                               request.hook.action, id)
  <1>1. /\ request \in Request /\ k \in Packages /\ request.before \in Entries
        /\ request.hook.snap \in Snapshot /\ tx[k] = NoEntry
    BY DEF ApiWrite, Requested, SyncInv, TypeOK, Request, Hook
  <1>2. id \in ItemId /\ id.by = "api"
    BY IngestionAssumption DEF ItemId
  <1> HIDE DEF id
  <1>3. /\ after \in Entry /\ after.snap = request.hook.snap
        /\ request.before = NoEntry => after.item.id = id
        /\ request.before # NoEntry => after.item.id = request.before.item.id
        /\ after.item.id \in ItemId
    BY <1>1, <1>2, IngestedType, AppliedItemType DEF Item
  <1>4. /\ api' = [api EXCEPT ![k] = after]
        /\ queue' = IF Announces(request.before, request.hook.snap,
                                 request.hook.action)
                    THEN Append(queue, RunOf(k, after)) ELSE queue
        /\ request' = NoRequest
        /\ UNCHANGED <<providerVars, hooks, handled, db, mark, refused, pullVars,
                       tx, gen, faults>>
    BY DEF ApiWrite, id
  <1> HIDE DEF after
  <1>5. FromCommitted(k, after)
    BY <1>1, <1>2, <1>3 DEF ApiWrite, Requested, SyncInv, ApiInv, FromCommitted
  <1>6. ApiInv' /\ api' \in Rows
    <2>1. api \in Rows /\ \A j \in Packages : FromCommitted(j, api[j])
      BY DEF SyncInv, TypeOK, ApiInv
    <2>2. api' \in Rows
      BY <1>1, <1>3, <1>4, <2>1 DEF Rows, Entries
    <2>3. \A j \in Packages : api'[j] = IF j = k THEN after ELSE api[j]
      BY <1>1, <1>4, <2>1 DEF Rows
    <2>4. db' = db /\ request' = NoRequest
      BY <1>4
    <2> HIDE DEF k
    <2>5. \A j \in Packages : FromCommitted(j, api'[j])
      BY <1>5, <2>1, <2>3
    <2> QED
      BY <2>2, <2>4, <2>5 DEF ApiInv, FromCommitted
  <1> DEFINE run == RunOf(k, after)
  <1>7. run \in Run /\ run.pkg = k /\ run.id = after.item.id
    BY <1>1, <1>3 DEF RunOf, Run
  <1>8. Findable(run)
    <2>1. after # NoEntry
      BY <1>3, IngestionAssumption
    <2> QED
      BY <1>1, <1>5, <1>7, <2>1 DEF FromCommitted, Findable, Found, View
  <1>9. \A r \in Run : Findable(r) => Findable(r)'
    BY <1>4 DEF Findable, Found, View
  <1>10. queue' \in Seq(Run) /\ QueueInv'
    <2>1. QueueInv /\ queue \in Seq(Run)
      BY DEF SyncInv, TypeOK
    <2> HIDE DEF run
    <2>2. CASE queue' = queue
      BY <1>9, <2>1, <2>2, QueueKept
    <2>3. CASE queue' = Append(queue, run)
      <3>1. \E r \in Run : Findable(r) /\ queue' = Append(queue, r)
        BY <1>7, <1>8, <2>3
      <3> QED
        BY <1>9, <2>1, <3>1, QueueAppend
    <2> QED
      BY <1>4, <2>2, <2>3 DEF run
  <1>11. TypeOK'
    BY <1>4, <1>6, <1>10 DEF SyncInv, TypeOK, providerVars, pullVars
  <1>12. RowsInv' /\ TxFollows' /\ BatchInv' /\ (gen <= faults)'
    BY <1>4 DEF SyncInv, RowsInv, RowInv, Past, TxFollows, Follows, BatchInv,
                NotOlder, View, providerVars, pullVars
  <1> QED
    BY <1>6, <1>10, <1>11, <1>12 DEF SyncInv

\* A conflict or a restart drops what the API process wrote.
LEMMA ApiGoneStep == ASSUME SyncInv, ApiConflict \/ ApiRestart PROVE SyncInv'
  <1>1. /\ api' = Nothing /\ request' = NoRequest /\ refused' \in BOOLEAN
        /\ UNCHANGED <<providerVars, hooks, handled, db, mark, pullVars, tx, gen,
                       queue, faults>>
    BY DEF ApiConflict, ApiRestart
  <1>2. Nothing \in Rows /\ \A k \in Packages : Nothing[k] = NoEntry
    BY DEF Nothing, Rows, Entries
  <1>3. TypeOK'
    BY <1>1, <1>2 DEF SyncInv, TypeOK, providerVars, pullVars
  <1>4. ApiInv'
    BY <1>1, <1>2 DEF ApiInv, FromCommitted
  <1>5. RowsInv' /\ TxFollows' /\ BatchInv' /\ QueueInv' /\ (gen <= faults)'
    BY <1>1 DEF SyncInv, RowsInv, RowInv, Past, TxFollows, Follows, BatchInv,
                NotOlder, View, QueueInv, Findable, Found, providerVars, pullVars
  <1> QED
    BY <1>3, <1>4, <1>5 DEF SyncInv

-----------------------------------------------------------------------------
(* The worker.                                                              *)

\* Fetching: what the provider has now is not older than any row.
LEMMA FetchedInv ==
    ASSUME SyncInv, NEW k \in Packages, provider[k] # Absent
    PROVE  /\ provider[k] \in Snapshot
           /\ Past(k, provider[k])
           /\ NotOlder(provider[k], View(tx, k))
  <1>1. provider[k] \in Snapshot /\ provider[k].rev \in Nat
    BY DEF SyncInv, TypeOK, Snapshot
  <1>2. RowInv(k, View(tx, k))
    BY ViewInv
  <1> QED
    BY <1>1, <1>2 DEF Past, RowInv, NotOlder

LEMMA PullStartStep == ASSUME SyncInv, PullStart PROVE SyncInv'
  <1> DEFINE changed == {p \in Packages : provider[p] # Absent /\ updated[p] >= Since}
  <1>1. /\ batch' = [k \in changed |-> provider[k]] /\ plan' = {}
        /\ wpc' = "pull" /\ seen' = {}
        /\ UNCHANGED <<providerVars, hooks, handled, db, mark, apiVars, tx, gen,
                       queue, faults>>
    BY DEF PullStart
  <1>2. DOMAIN batch' = changed /\ \A k \in changed : batch'[k] = provider[k]
    BY <1>1
  <1>3. \A k \in changed : k \in Packages /\ provider[k] # Absent
    OBVIOUS
  <1> HIDE DEF changed
  <1>4. TypeOK'
    BY <1>1, <1>2, <1>3 DEF SyncInv, TypeOK, providerVars, apiVars
  <1>5. \A k \in changed : Past(k, provider[k]) /\ NotOlder(provider[k], View(tx, k))
    BY <1>3, FetchedInv
  <1>6. provider' = provider /\ tx' = tx /\ db' = db /\ gen' = gen
    BY <1>1 DEF providerVars
  <1>7. BatchInv'
    BY <1>1, <1>2, <1>5, <1>6 DEF BatchInv, Past, NotOlder, View
  <1>8. RowsInv' /\ TxFollows' /\ ApiInv' /\ QueueInv' /\ (gen <= faults)'
    BY <1>1 DEF SyncInv, RowsInv, RowInv, Past, TxFollows, Follows, View, ApiInv,
                FromCommitted, QueueInv, Findable, Found, providerVars, apiVars
  <1> QED
    BY <1>4, <1>7, <1>8 DEF SyncInv

LEMMA SweepStartStep == ASSUME SyncInv, SweepStart PROVE SyncInv'
  <1>1. \A k \in SweepPlan : k \in Packages /\ View(tx, k) # NoEntry
    BY DEF SweepPlan, Missing
  <1>2. \A k \in SweepPlan : provider[k] # Absent
    BY <1>1, ViewInv DEF RowInv
  <1>3. TypeOK'
    BY <1>1 DEF SweepStart, SyncInv, TypeOK, providerVars, apiVars
  <1>4. BatchInv'
    BY <1>2 DEF SweepStart, SyncInv, BatchInv, Past, NotOlder, View, providerVars
  <1>5. RowsInv' /\ TxFollows' /\ ApiInv' /\ QueueInv' /\ (gen <= faults)'
    BY DEF SweepStart, SyncInv, RowsInv, RowInv, Past, TxFollows, Follows, View,
           ApiInv, FromCommitted, QueueInv, Findable, Found, providerVars, apiVars
  <1> QED
    BY <1>3, <1>4, <1>5 DEF SyncInv

LEMMA SweepFetchStep == ASSUME SyncInv, SweepFetch PROVE SyncInv'
  <1>1. PICK k \in plan : /\ batch' = [p \in {k} |-> provider[p]]
                          /\ plan' = plan \ {k}
    BY DEF SweepFetch
  <1>2. /\ k \in Packages /\ provider[k] # Absent
        /\ DOMAIN batch' = {k} /\ batch'[k] = provider[k]
    BY <1>1 DEF SyncInv, TypeOK, BatchInv
  <1>3. /\ provider[k] \in Snapshot /\ Past(k, provider[k])
        /\ NotOlder(provider[k], View(tx, k))
    BY <1>2, FetchedInv
  <1>4. TypeOK'
    BY <1>1, <1>2, <1>3 DEF SweepFetch, SyncInv, TypeOK, providerVars, apiVars
  <1>5. BatchInv'
    BY <1>1, <1>2, <1>3
       DEF SweepFetch, SyncInv, BatchInv, Past, NotOlder, View, providerVars
  <1>6. RowsInv' /\ TxFollows' /\ ApiInv' /\ QueueInv' /\ (gen <= faults)'
    BY DEF SweepFetch, SyncInv, RowsInv, RowInv, Past, TxFollows, Follows, View,
           ApiInv, FromCommitted, QueueInv, Findable, Found, providerVars, apiVars
  <1> QED
    BY <1>4, <1>5, <1>6 DEF SyncInv

\* The rows of one package of the batch are written.
LEMMA TxWritten ==
    ASSUME SyncInv, NEW k \in DOMAIN batch, NEW e \in Written(k),
           tx' = [tx EXCEPT ![k] = e],
           DOMAIN batch' \subseteq DOMAIN batch \ {k},
           \A j \in DOMAIN batch' : batch'[j] = batch[j],
           plan' \subseteq plan,
           UNCHANGED <<provider, db, gen, api, request>>
    PROVE  /\ tx' \in Rows
           /\ RowsInv' /\ TxFollows' /\ BatchInv' /\ ApiInv'
           /\ \A r \in Run : Findable(r) => Findable(r)'
           /\ \A r \in Run : r.pkg = k /\ r.id = e.item.id => Findable(r)'
  <1>1. /\ e \in Entry /\ RowInv(k, e) /\ Follows(e, View(tx, k)) /\ Follows(e, db[k])
    BY WrittenInv
  <1>2. e # NoEntry
    BY <1>1, IngestionAssumption
  <1>3. /\ k \in Packages /\ tx \in Rows /\ db \in Rows /\ DOMAIN batch \subseteq Packages
    BY DEF SyncInv, TypeOK
  <1>4. tx' \in Rows /\ \A j \in Packages : tx'[j] = IF j = k THEN e ELSE tx[j]
    BY <1>1, <1>3 DEF Rows, Entries
  <1>5. RowsInv'
    BY <1>1, <1>4 DEF SyncInv, RowsInv, RowInv, Past
  <1>6. TxFollows'
    BY <1>1, <1>4 DEF SyncInv, TxFollows, Follows
  <1>7. \A j \in Packages : View(tx, j)' = IF j = k THEN e ELSE View(tx, j)
    BY <1>2, <1>4 DEF View
  <1>8. BatchInv'
    <2>1. ASSUME NEW j \in DOMAIN batch'
          PROVE  Past(j, batch[j]) /\ NotOlder(batch[j], View(tx, j)) /\ j # k
                 /\ batch'[j] = batch[j] /\ j \in Packages
      BY <1>3, <2>1 DEF SyncInv, BatchInv
    <2>2. ASSUME NEW j \in DOMAIN batch'
          PROVE  Past(j, batch[j])' /\ NotOlder(batch[j], View(tx, j))'
      <3>1. View(tx, j)' = View(tx, j)
        BY <1>7, <2>1
      <3> QED
        BY <2>1, <3>1 DEF Past, NotOlder
    <2> QED
      BY <2>2 DEF SyncInv, BatchInv
  <1>9. ApiInv'
    BY DEF SyncInv, ApiInv, FromCommitted
  <1>10. \A r \in Run : Findable(r) => Findable(r)'
    <2> SUFFICES ASSUME NEW r \in Run, Findable(r) PROVE Findable(r)'
      OBVIOUS
    <2>1. r.pkg \in Packages
      BY DEF Run
    <2>2. CASE r.pkg = k
      BY <1>1, <1>2, <1>7, <2>1, <2>2 DEF Findable, Found, Follows
    <2>3. CASE r.pkg # k
      BY <1>7, <2>1, <2>3 DEF Findable, Found
    <2> QED
      BY <2>2, <2>3
  <1>11. \A r \in Run : r.pkg = k /\ r.id = e.item.id => Findable(r)'
    BY <1>2, <1>3, <1>7 DEF Findable, Found
  <1> QED
    BY <1>4, <1>5, <1>6, <1>8, <1>9, <1>10, <1>11

LEMMA IngestStep ==
    ASSUME SyncInv, NEW k \in Packages, Ingest(k) PROVE SyncInv'
  <1> DEFINE e == Ingested(View(tx, k), batch[k], "none", WorkerId)
             run == RunOf(k, e)
  <1>1. /\ k \in DOMAIN batch
        /\ tx' = [tx EXCEPT ![k] = e]
        /\ queue' = IF Announces(View(tx, k), batch[k], "none")
                    THEN Append(queue, run) ELSE queue
        /\ batch' = [j \in DOMAIN batch \ {k} |-> batch[j]]
        /\ seen' = seen \cup {k}
        /\ UNCHANGED <<providerVars, hooks, handled, db, mark, apiVars, wpc, plan,
                       gen, faults>>
    BY DEF Ingest
  <1>2. e \in Written(k)
    BY DEF Written
  <1>3. e \in Entry /\ e.snap = batch[k] /\ batch[k] \in Snapshot
    BY <1>1, ViewType, WorkerIdType, IngestedType DEF SyncInv, TypeOK
  <1>4. run \in Run /\ run.pkg = k /\ run.id = e.item.id
    BY <1>3 DEF RunOf, Run, Entry, Item
  <1> HIDE DEF e, run
  <1>5. /\ DOMAIN batch' = DOMAIN batch \ {k}
        /\ \A j \in DOMAIN batch' : batch'[j] = batch[j]
    BY <1>1
  <1>6. /\ provider' = provider /\ db' = db /\ gen' = gen /\ api' = api
        /\ request' = request /\ plan' = plan /\ faults' = faults
    BY <1>1 DEF providerVars, apiVars
  <1>7. /\ tx' \in Rows
        /\ RowsInv' /\ TxFollows' /\ BatchInv' /\ ApiInv'
        /\ \A r \in Run : Findable(r) => Findable(r)'
        /\ \A r \in Run : r.pkg = k /\ r.id = e.item.id => Findable(r)'
    BY <1>1, <1>2, <1>5, <1>6, TxWritten
  <1>8. queue' \in Seq(Run) /\ QueueInv'
    <2>1. QueueInv /\ queue \in Seq(Run)
      BY DEF SyncInv, TypeOK
    <2>2. CASE queue' = queue
      BY <1>7, <2>1, <2>2, QueueKept
    <2>3. CASE queue' = Append(queue, run)
      <3>1. \E r \in Run : r.pkg = k /\ r.id = e.item.id /\ queue' = Append(queue, r)
        BY <1>4, <2>3
      <3>2. \E r \in Run : Findable(r)' /\ queue' = Append(queue, r)
        BY <1>7, <3>1
      <3> QED
        BY <1>7, <2>1, <3>2, QueueAppend
    <2> QED
      BY <1>1, <2>2, <2>3
  <1>9. TypeOK'
    BY <1>1, <1>5, <1>7, <1>8 DEF SyncInv, TypeOK, providerVars, apiVars
  <1> QED
    BY <1>6, <1>7, <1>8, <1>9 DEF SyncInv

LEMMA FaultType == ASSUME TypeOK, Fault PROVE faults' \in 0 .. MaxFaults /\ faults' = faults + 1
  BY SyncAssumption DEF TypeOK, Fault

LEMMA IngestFailsStep ==
    ASSUME SyncInv, NEW k \in Packages, IngestFails(k) PROVE SyncInv'
  <1>1. PICK e \in Written(k) : tx' = [tx EXCEPT ![k] = e]
    BY DEF IngestFails, Written
  <1>2. /\ k \in DOMAIN batch /\ batch' = NoBatch /\ plan' = {} /\ wpc' = "idle"
        /\ seen' = {} /\ faults' \in 0 .. MaxFaults /\ faults' = faults + 1
        /\ UNCHANGED <<providerVars, hooks, handled, db, mark, apiVars, gen, queue>>
    BY FaultType DEF IngestFails, GiveUp, SyncInv
  <1>3. DOMAIN batch' = {}
    BY <1>2 DEF NoBatch
  <1>4. /\ provider' = provider /\ db' = db /\ gen' = gen /\ api' = api
        /\ request' = request /\ queue' = queue
    BY <1>2 DEF providerVars, apiVars
  <1>5. /\ tx' \in Rows
        /\ RowsInv' /\ TxFollows' /\ BatchInv' /\ ApiInv'
        /\ \A r \in Run : Findable(r) => Findable(r)'
    BY <1>1, <1>2, <1>3, <1>4, TxWritten
  <1>6. QueueInv'
    BY <1>4, <1>5, QueueKept DEF SyncInv, TypeOK
  <1>7. TypeOK'
    BY <1>2, <1>3, <1>5 DEF SyncInv, TypeOK, providerVars, apiVars
  <1>8. (gen <= faults)'
    BY <1>2, <1>4 DEF SyncInv, TypeOK
  <1> QED
    BY <1>5, <1>6, <1>7, <1>8 DEF SyncInv

LEMMA PullFailsStep == ASSUME SyncInv, PullFails PROVE SyncInv'
  <1>1. /\ batch' = NoBatch /\ plan' = {} /\ wpc' = "idle"
        /\ seen' = {} /\ faults' \in 0 .. MaxFaults /\ faults' = faults + 1
        /\ UNCHANGED <<providerVars, hooks, handled, db, mark, apiVars, tx, gen, queue>>
    BY FaultType DEF PullFails, GiveUp, SyncInv
  <1>2. DOMAIN batch' = {}
    BY <1>1 DEF NoBatch
  <1>3. TypeOK'
    BY <1>1, <1>2 DEF SyncInv, TypeOK, providerVars, apiVars
  <1>4. (gen <= faults)'
    BY <1>1 DEF SyncInv, TypeOK
  <1>5. RowsInv' /\ TxFollows' /\ BatchInv' /\ ApiInv' /\ QueueInv'
    BY <1>1, <1>2 DEF SyncInv, RowsInv, RowInv, Past, TxFollows, Follows, BatchInv, View,
       ApiInv, FromCommitted, QueueInv, Findable, Found, providerVars, apiVars
  <1> QED
    BY <1>3, <1>4, <1>5 DEF SyncInv

\* A commit makes the worker's view the committed rows.
LEMMA CommitKeeps ==
    ASSUME SyncInv, db' = Committed, tx' = Nothing,
           UNCHANGED <<provider, gen, api, request>>
    PROVE  /\ db' \in Rows /\ tx' \in Rows
           /\ RowsInv' /\ TxFollows' /\ ApiInv'
           /\ \A k \in Packages : View(tx, k)' = View(tx, k)
           /\ \A r \in Run : Findable(r) => Findable(r)'
           /\ \A k \in Packages : Follows(db'[k], db[k])
  <1>1. /\ \A k \in Packages : db'[k] = View(tx, k) /\ tx'[k] = NoEntry
        /\ db' \in Rows /\ tx' \in Rows
    BY ViewType DEF Committed, Nothing, Rows, Entries, SyncInv
  <1>2. \A k \in Packages : RowInv(k, View(tx, k)) /\ Follows(View(tx, k), db[k])
    BY ViewInv
  <1>3. RowsInv'
    BY <1>1, <1>2 DEF RowsInv, RowInv, Past
  <1>4. TxFollows'
    BY <1>1 DEF TxFollows, Follows
  <1>5. \A k \in Packages : View(tx, k)' = View(tx, k)
    BY <1>1 DEF View
  <1>6. \A k \in Packages : db[k] # NoEntry =>
           db'[k] # NoEntry /\ db'[k].item.id = db[k].item.id
    BY <1>1, <1>2 DEF Follows, View
  <1>7. ApiInv'
    <2>1. request # NoRequest => request.hook.pkg \in Packages
      BY DEF SyncInv, TypeOK, Request, Hook
    <2> QED
      BY <1>6, <2>1 DEF SyncInv, ApiInv, FromCommitted
  <1>8. \A r \in Run : Findable(r) => Findable(r)'
    <2> SUFFICES ASSUME NEW r \in Run, Findable(r) PROVE Findable(r)'
      OBVIOUS
    <2>1. View(tx, r.pkg)' = View(tx, r.pkg)
      BY <1>5 DEF Run
    <2> QED
      BY <2>1 DEF Findable, Found
  <1> QED
    BY <1>1, <1>2, <1>3, <1>4, <1>5, <1>7, <1>8

LEMMA PullFinishStep == ASSUME SyncInv, PullFinish PROVE SyncInv'
  <1>1. /\ mark' = today /\ db' = Committed /\ tx' = Nothing
        /\ batch' = NoBatch /\ plan' = {} /\ wpc' = "idle" /\ seen' = {}
        /\ UNCHANGED <<providerVars, hooks, handled, apiVars, gen, queue, faults>>
    BY DEF PullFinish, GiveUp
  <1>2. DOMAIN batch' = {}
    BY <1>1 DEF NoBatch
  <1>3. /\ db' \in Rows /\ tx' \in Rows /\ RowsInv' /\ TxFollows' /\ ApiInv'
        /\ \A r \in Run : Findable(r) => Findable(r)'
    BY <1>1, CommitKeeps DEF providerVars, apiVars
  <1>4. QueueInv'
    BY <1>1, <1>3, QueueKept DEF SyncInv, TypeOK
  <1>5. BatchInv'
    BY <1>1, <1>2 DEF BatchInv
  <1>6. TypeOK' /\ (gen <= faults)'
    BY <1>1, <1>2, <1>3 DEF SyncInv, TypeOK, providerVars, apiVars
  <1> QED
    BY <1>3, <1>4, <1>5, <1>6 DEF SyncInv

LEMMA RunWorkItemStep == ASSUME SyncInv, RunWorkItem PROVE SyncInv'
  <1>1. /\ queue # << >> /\ queue' = Tail(queue) /\ db' = Committed /\ tx' = Nothing
        /\ UNCHANGED <<providerVars, hooks, handled, mark, apiVars, pullVars, gen,
                       faults>>
    BY DEF RunWorkItem
  <1>2. /\ db' \in Rows /\ tx' \in Rows /\ RowsInv' /\ TxFollows' /\ ApiInv'
        /\ \A k \in Packages : View(tx, k)' = View(tx, k)
        /\ \A r \in Run : Findable(r) => Findable(r)'
    BY <1>1, CommitKeeps DEF providerVars, apiVars
  <1>3. queue' \in Seq(Run) /\ QueueInv'
    BY <1>1, <1>2, QueueTail DEF SyncInv, TypeOK
  <1>4. BatchInv'
    <2>1. DOMAIN batch \subseteq Packages
      BY DEF SyncInv, TypeOK
    <2> QED
      BY <1>1, <1>2, <2>1 DEF SyncInv, BatchInv, Past, NotOlder, providerVars, pullVars
  <1>5. TypeOK' /\ (gen <= faults)'
    BY <1>1, <1>2, <1>3 DEF SyncInv, TypeOK, providerVars, apiVars, pullVars
  <1> QED
    BY <1>2, <1>3, <1>4, <1>5 DEF SyncInv

\* Items of a lost transaction are told apart by its number.
LEMMA WorkerLosesStep == ASSUME SyncInv, WorkerLoses PROVE SyncInv'
  <1>1. /\ tx' = Nothing /\ gen' = gen + 1
        /\ batch' = NoBatch /\ plan' = {} /\ wpc' = "idle" /\ seen' = {}
        /\ faults' \in 0 .. MaxFaults /\ faults' = faults + 1
        /\ UNCHANGED <<providerVars, hooks, handled, db, mark, apiVars, queue>>
    BY FaultType DEF WorkerLoses, GiveUp, SyncInv
  <1>2. DOMAIN batch' = {}
    BY <1>1 DEF NoBatch
  <1>3. tx' \in Rows /\ \A k \in Packages : tx'[k] = NoEntry
    BY <1>1 DEF Nothing, Rows, Entries
  <1>4. gen' \in 0 .. MaxGen /\ gen' <= faults' /\ gen \in Nat
    BY <1>1, SyncAssumption, IngestionAssumption DEF SyncInv, TypeOK
  <1>5. TypeOK'
    BY <1>1, <1>2, <1>3, <1>4 DEF SyncInv, TypeOK, providerVars, apiVars
  <1>6. RowsInv'
    <2>1. ASSUME NEW k \in Packages PROVE RowInv(k, db[k])'
      <3>1. db[k] # NoEntry => db[k].item.id.gen \in Nat
        BY DEF SyncInv, TypeOK, Rows, Entries, Entry, Item, ItemId
      <3>2. RowInv(k, db[k]) /\ db' = db /\ provider' = provider
        BY <1>1 DEF SyncInv, RowsInv, providerVars
      <3> QED
        BY <1>1, <1>4, <3>1, <3>2 DEF RowInv, Past
    <2> QED
      BY <1>3, <2>1 DEF RowsInv, RowInv
  <1>7. TxFollows' /\ BatchInv' /\ ApiInv'
    BY <1>1, <1>2, <1>3
       DEF SyncInv, TxFollows, Follows, BatchInv, ApiInv, FromCommitted, apiVars
  <1>8. \A r \in Run : Findable(r) => Findable(r)'
    <2> SUFFICES ASSUME NEW r \in Run, Findable(r), r.id.by # "api"
                 PROVE  Findable(r)'
      BY DEF Findable
    <2>1. r.pkg \in Packages /\ r.id.gen \in Nat
      BY DEF Run, ItemId
    <2>2. Found(r) => r.id.gen <= gen
      BY <2>1, ViewInv DEF Found, RowInv
    <2> QED
      BY <1>1, <1>4, <2>1, <2>2 DEF Findable
  <1>9. QueueInv'
    BY <1>1, <1>8, QueueKept DEF SyncInv, TypeOK
  <1> QED
    BY <1>4, <1>5, <1>6, <1>7, <1>9 DEF SyncInv

LEMMA SyncStep == ASSUME SyncInv, [Next]_vars PROVE SyncInv'
  <1>1. CASE UNCHANGED vars
    <2>1. TypeOK'
      BY <1>1 DEF vars, SyncInv, TypeOK
    <2> QED
      BY <1>1, <2>1, KeptStep DEF vars, SyncInv
  <1>2. CASE PullStep
    BY <1>2, PullStartStep, SweepStartStep, SweepFetchStep, PullFinishStep, IngestStep
       DEF PullStep
  <1> QED
    BY <1>1, <1>2, CreateStep, EditStep, IngestFailsStep, NextDayStep, ApiRequestStep,
       ApiWriteStep, ApiGoneStep, PullFailsStep, RunWorkItemStep, WorkerLosesStep
       DEF Next

LEMMA SyncCorrect == Spec => []SyncInv
  BY SyncInit, SyncStep, PTL DEF Spec

-----------------------------------------------------------------------------
(* The theorems.                                                            *)

\* Rows, batches and queued commands stay what the code takes them for.
THEOREM SyncTypes == Spec => []TypeOK
  BY SyncCorrect, PTL DEF SyncInv

\* A revision in the committed baseline has been applied to the work item, also
\* after calls that raised between the two (ingest_work_item_snapshot), so that
\* later pulls, which compare with the baseline, miss nothing.
THEOREM BaselinesAreApplied == Spec => []BaselineIsApplied
  <1>1. SyncInv => BaselineIsApplied
    BY DEF SyncInv, RowsInv, RowInv, Applied, BaselineIsApplied, Baseline
  <1> QED
    BY <1>1, SyncCorrect, PTL

\* A package committed as assigned to the brain has been announced, or its call
\* was interrupted (_should_trigger_assignment).
THEOREM AssignmentsAreAnnounced == Spec => []AssignmentIsAnnounced
  <1>1. SyncInv => AssignmentIsAnnounced
    BY DEF SyncInv, RowsInv, RowInv, Announced, AssignmentIsAnnounced, Baseline
  <1> QED
    BY <1>1, SyncCorrect, PTL

\* Whatever the order of webhooks, pulls and failures, a commit of the worker
\* keeps the work item of a package and never goes back to an older baseline.
THEOREM CommitsMoveForward == Spec => CommittedMovesForward
  <1> DEFINE Forward(k) ==
        db[k] # NoEntry =>
         /\ db'[k] # NoEntry
         /\ db'[k].item.id = db[k].item.id
         /\ Baseline(db[k]) # NoSnapshot =>
              /\ Baseline(db'[k]) # NoSnapshot
              /\ db'[k].snap.rev >= db[k].snap.rev
  <1>1. ASSUME SyncInv, [Next]_vars, NEW k \in Packages PROVE Forward(k)
    <2>1. db[k] # NoEntry /\ db[k].snap # NoSnapshot => db[k].snap.rev \in Nat
      BY <1>1, IngestionAssumption DEF SyncInv, TypeOK, Rows, Entries, Entry, Snapshot
    <2>2. CASE db' = db
      BY <2>1, <2>2 DEF Baseline
    <2>3. CASE PullFinish \/ RunWorkItem
      <3>1. /\ db' = Committed /\ tx' = Nothing
            /\ UNCHANGED <<provider, gen, api, request>>
        BY <2>3 DEF PullFinish, RunWorkItem, providerVars, apiVars
      <3>2. Follows(db'[k], db[k]) /\ db'[k] = View(tx, k) /\ db' \in Rows
        BY <1>1, <3>1, CommitKeeps DEF Committed
      <3>3. db[k] # NoEntry => db'[k] # NoEntry
        BY <3>2 DEF View
      <3>4. db'[k] # NoEntry /\ db'[k].snap # NoSnapshot => db'[k].snap.rev \in Nat
        BY <1>1, <3>2, IngestionAssumption DEF Rows, Entries, Entry, Snapshot
      <3> QED
        BY <2>1, <3>2, <3>3, <3>4 DEF Follows, Baseline
    <2>4. CASE ~(PullFinish \/ RunWorkItem)
      <3>1. db' = db
        BY <1>1, <2>4
           DEF Next, vars, Create, Edit, IngestFails, NextDay, ApiRequest, ApiWrite,
               ApiConflict, ApiRestart, PullStep, PullStart, SweepStart, SweepFetch,
               Ingest, PullFails, WorkerLoses
      <3> QED
        BY <2>2, <3>1
    <2> QED
      BY <2>3, <2>4
  <1>2. SyncInv /\ [Next]_vars => [\A k \in Packages : Forward(k)]_vars
    BY <1>1
  <1> QED
    BY <1>2, SyncCorrect, PTL DEF Spec, CommittedMovesForward

\* A RUN_WORK_ITEM that a pull enqueued finds its work item, unless the worker
\* lost the transaction that created it (_run_work_item).
THEOREM PulledRunsFindItems == Spec => PulledRunFindsItem
  <1>1. ASSUME SyncInv, queue # << >> PROVE Findable(Head(queue))
    <2>1. queue \in Seq(Run) /\ Len(queue) \in Nat \ {0}
      BY <1>1, EmptySeq DEF SyncInv, TypeOK
    <2>2. 1 \in DOMAIN queue /\ Head(queue) = queue[1]
      BY <1>1, <2>1
    <2> QED
      BY <1>1, <2>2 DEF SyncInv, QueueInv
  <1>2. SyncInv /\ [Next]_vars =>
           [queue # << >> /\ queue' = Tail(queue) =>
              \/ Found(Head(queue))
              \/ Head(queue).id.by = "api"
              \/ Head(queue).id.gen < gen]_vars
    BY <1>1 DEF Findable
  <1> QED
    BY <1>2, SyncCorrect, PTL DEF Spec, PulledRunFindsItem
=============================================================================
