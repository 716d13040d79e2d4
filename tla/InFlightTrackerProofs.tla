----------------------- MODULE InFlightTrackerProofs -----------------------
(***************************************************************************)
(* Proofs about the tracker, for every number of workers, publishers,      *)
(* shards, messages and places: its types, the exact bound, what its       *)
(* gauges say, retries, and the end of the publish loop.                   *)
(***************************************************************************)
EXTENDS InFlightTracker, FiniteSetTheorems, TLAPS

WorkerPhases == {"idle", "pin", "lock", "insert", "rollback", "release"}

\* What the bound is about: the types it needs.
BoundTypes ==
    /\ items \in [Keys -> Item \cup {NoItem}]
    /\ holder \in [Shards -> Workers \cup Publishers \cup {Nobody}]
    /\ itemCount \in Int
    /\ wpc \in [Workers -> WorkerPhases]
    /\ op \in [Workers -> Call \cup {NoOp}]

LEMMA RetrackedType ==
    ASSUME BoundTypes, NEW k \in Keys, items[k] # NoItem, NEW item \in Item
    PROVE  Retracked(k, item) \in Item
  BY DEF BoundTypes, Retracked, Item

\* Publishers, Start and Close leave all of it alone but the locks.
LEMMA OthersKeep ==
    ASSUME NEW p \in Publishers,
           \/ PublishBegin(p) \/ PublishStep(p) \/ LoopTick \/ LoopExit
           \/ CloseBegin \/ CloseReturn \/ Tick
           \/ \E s \in Starters : StartClaim(s) \/ StartAgain(s) \/ StartSpawn(s)
    PROVE  UNCHANGED <<items, itemCount, wpc, op>>
  BY DEF PublishBegin, PublishStep, PublishLock, PublishUnlock, PublishEmit, PublishEnd, LoopTick,
         LoopExit, CloseBegin, CloseReturn, Tick, StartClaim, StartAgain, StartSpawn, Aside, works,
         counters, workerVars

\* Workers' actions keep the types.
LEMMA WorkerTypes ==
    ASSUME BoundTypes, Places, NEW w \in Workers, WorkerCall(w) \/ WorkerStep(w)
    PROVE  BoundTypes'
<1> USE TrackerAssumption DEF BoundTypes, WorkerPhases
<1>1. ASSUME NEW k \in Keys, TrackInvalid(w, k) \/ DoneRemove(w, k) \/ DoneUnknown(w, k)
      PROVE  BoundTypes'
  BY <1>1 DEF TrackInvalid, DoneRemove, DoneUnknown, Goto, Lock, Call, counters
<1>2. ASSUME NEW k \in Keys, NEW item \in Item,
             TrackNewCurrency(w, k, item) \/ TrackKnownCurrency(w, k, item) \/ TrackMismatch(w, k, item)
      PROVE  BoundTypes'
  BY <1>2 DEF TrackNewCurrency, TrackKnownCurrency, TrackMismatch, Goto, Call, counters
<1>3. CASE TrackPin(w) \/ TrackPinLost(w)
  BY <1>3 DEF TrackPin, TrackPinLost, Goto, Finish, counters
<1>4. CASE TrackUpdate(w)
  <2>1. op[w].key \in Keys /\ op[w].item \in Item
    BY <1>4 DEF TrackUpdate, Places, Call
  <2>2. Retracked(op[w].key, op[w].item) \in Item
    BY <1>4, <2>1, RetrackedType DEF TrackUpdate
  <2> QED
    BY <1>4, <2>1, <2>2 DEF TrackUpdate, Finish, counters
<1>5. CASE TrackReserve(w) \/ TrackInsert(w) \/ TrackRollback(w) \/ DoneRelease(w)
  <2>1. op[w].key \in Keys /\ op[w].item \in Item
    BY <1>5 DEF TrackReserve, TrackInsert, TrackRollback, DoneRelease, Places, Call
  <2> QED
    BY <1>5, <2>1 DEF TrackReserve, TrackInsert, TrackRollback, RolledBack, DoneRelease, Goto, Finish,
       Lock, Unlock, counters
<1> QED
  BY <1>1, <1>2, <1>3, <1>4, <1>5 DEF WorkerCall, WorkerStep

\* The other actions only move locks between publishers and nobody.
LEMMA OthersMoveLocks ==
    ASSUME BoundTypes, NEW p \in Publishers,
           \/ PublishBegin(p) \/ PublishStep(p) \/ LoopTick \/ LoopExit
           \/ CloseBegin \/ CloseReturn \/ Tick
           \/ \E s \in Starters : StartClaim(s) \/ StartAgain(s) \/ StartSpawn(s)
    PROVE  /\ holder' \in [Shards -> Workers \cup Publishers \cup {Nobody}]
           /\ \A s \in Shards : holder[s] \in Workers => holder'[s] = holder[s]
<1> USE TrackerAssumption DEF BoundTypes
<1>1. ASSUME NEW s \in Shards, PublishLock(p, s)
      PROVE  /\ holder' \in [Shards -> Workers \cup Publishers \cup {Nobody}]
             /\ \A x \in Shards : holder[x] \in Workers => holder'[x] = holder[x]
  BY <1>1 DEF PublishLock, Locked
<1>2. CASE PublishUnlock(p)
  BY <1>2 DEF PublishUnlock
<1>3. CASE UNCHANGED holder
  BY <1>3
<1> QED
  BY <1>1, <1>2, <1>3 DEF PublishStep, PublishBegin, PublishEmit, PublishEnd, LoopTick,
     LoopExit, CloseBegin, CloseReturn, Tick, StartClaim, StartAgain, StartSpawn, works

\* A worker that moves leaves one crowd and joins another.
LEMMA AtMove ==
    ASSUME BoundTypes, NEW w \in Workers, NEW here, NEW there \in WorkerPhases, here # there,
           wpc[w] = here, wpc' = [wpc EXCEPT ![w] = there]
    PROVE  /\ Cardinality(At(here)') = Cardinality(At(here)) - 1
           /\ Cardinality(At(there)') = Cardinality(At(there)) + 1
           /\ \A x \in WorkerPhases \ {here, there} : At(x)' = At(x)
<1>1. At(here)' = At(here) \ {w} /\ w \in At(here)
  BY DEF At, BoundTypes
<1>2. At(there)' = At(there) \cup {w} /\ w \notin At(there)
  BY DEF At, BoundTypes
<1>3. IsFiniteSet(At(here)) /\ IsFiniteSet(At(there))
  BY TrackerAssumption, FS_Subset DEF At
<1>4. \A x \in WorkerPhases \ {here, there} : At(x)' = At(x)
  BY DEF At, BoundTypes
<1>5. Cardinality(At(here)') = Cardinality(At(here)) - 1
  BY <1>1, <1>3, FS_RemoveElement
<1>6. Cardinality(At(there)') = Cardinality(At(there)) + 1
  BY <1>2, <1>3, FS_AddElement
<1> QED
  BY <1>4, <1>5, <1>6

LEMMA CrowdSizes ==
    ASSUME NEW x
    PROVE  Cardinality(At(x)) \in Nat
<1>1. IsFiniteSet(At(x))
  BY TrackerAssumption, FS_Subset DEF At
<1> QED
  BY <1>1, FS_CardinalityType

\* What each worker action does to the crowds that hold a place.
LEMMA CrowdMove ==
    ASSUME BoundTypes, NEW w \in Workers
    PROVE  /\ wpc[w] = "lock" /\ wpc' = [wpc EXCEPT ![w] = "insert"]
              => /\ Cardinality(At("insert")') = Cardinality(At("insert")) + 1
                 /\ Cardinality(At("release")') = Cardinality(At("release"))
                 /\ Cardinality(At("rollback")') = Cardinality(At("rollback"))
           /\ wpc[w] = "lock" /\ wpc' = [wpc EXCEPT ![w] = "rollback"]
              => /\ Cardinality(At("insert")') = Cardinality(At("insert"))
                 /\ Cardinality(At("release")') = Cardinality(At("release"))
                 /\ Cardinality(At("rollback")') = Cardinality(At("rollback")) + 1
           /\ wpc[w] = "insert" /\ wpc' = [wpc EXCEPT ![w] = "idle"]
              => /\ Cardinality(At("insert")') = Cardinality(At("insert")) - 1
                 /\ Cardinality(At("release")') = Cardinality(At("release"))
                 /\ Cardinality(At("rollback")') = Cardinality(At("rollback"))
           /\ wpc[w] = "rollback" /\ wpc' = [wpc EXCEPT ![w] = "idle"]
              => /\ Cardinality(At("insert")') = Cardinality(At("insert"))
                 /\ Cardinality(At("release")') = Cardinality(At("release"))
                 /\ Cardinality(At("rollback")') = Cardinality(At("rollback")) - 1
           /\ wpc[w] = "idle" /\ wpc' = [wpc EXCEPT ![w] = "release"]
              => /\ Cardinality(At("insert")') = Cardinality(At("insert"))
                 /\ Cardinality(At("release")') = Cardinality(At("release")) + 1
                 /\ Cardinality(At("rollback")') = Cardinality(At("rollback"))
           /\ wpc[w] = "release" /\ wpc' = [wpc EXCEPT ![w] = "idle"]
              => /\ Cardinality(At("insert")') = Cardinality(At("insert"))
                 /\ Cardinality(At("release")') = Cardinality(At("release")) - 1
                 /\ Cardinality(At("rollback")') = Cardinality(At("rollback"))
<1>1. ASSUME wpc[w] = "lock", wpc' = [wpc EXCEPT ![w] = "insert"]
      PROVE  /\ Cardinality(At("insert")') = Cardinality(At("insert")) + 1
             /\ Cardinality(At("release")') = Cardinality(At("release"))
             /\ Cardinality(At("rollback")') = Cardinality(At("rollback"))
  <2>1. /\ "lock" # "insert" /\ "insert" \in WorkerPhases
        /\ {"insert", "release", "rollback"} \ {"lock", "insert"} \subseteq WorkerPhases \ {"lock", "insert"}
    BY DEF WorkerPhases
  <2>2. /\ Cardinality(At("lock")') = Cardinality(At("lock")) - 1
        /\ Cardinality(At("insert")') = Cardinality(At("insert")) + 1
        /\ \A x \in WorkerPhases \ {"lock", "insert"} : At(x)' = At(x)
    BY <1>1, <2>1, AtMove
  <2> QED
    BY <2>1, <2>2
<1>2. ASSUME wpc[w] = "lock", wpc' = [wpc EXCEPT ![w] = "rollback"]
      PROVE  /\ Cardinality(At("insert")') = Cardinality(At("insert"))
             /\ Cardinality(At("release")') = Cardinality(At("release"))
             /\ Cardinality(At("rollback")') = Cardinality(At("rollback")) + 1
  <2>1. /\ "lock" # "rollback" /\ "rollback" \in WorkerPhases
        /\ {"insert", "release", "rollback"} \ {"lock", "rollback"} \subseteq WorkerPhases \ {"lock", "rollback"}
    BY DEF WorkerPhases
  <2>2. /\ Cardinality(At("lock")') = Cardinality(At("lock")) - 1
        /\ Cardinality(At("rollback")') = Cardinality(At("rollback")) + 1
        /\ \A x \in WorkerPhases \ {"lock", "rollback"} : At(x)' = At(x)
    BY <1>2, <2>1, AtMove
  <2> QED
    BY <2>1, <2>2
<1>3. ASSUME wpc[w] = "insert", wpc' = [wpc EXCEPT ![w] = "idle"]
      PROVE  /\ Cardinality(At("insert")') = Cardinality(At("insert")) - 1
             /\ Cardinality(At("release")') = Cardinality(At("release"))
             /\ Cardinality(At("rollback")') = Cardinality(At("rollback"))
  <2>1. /\ "insert" # "idle" /\ "idle" \in WorkerPhases
        /\ {"insert", "release", "rollback"} \ {"insert", "idle"} \subseteq WorkerPhases \ {"insert", "idle"}
    BY DEF WorkerPhases
  <2>2. /\ Cardinality(At("insert")') = Cardinality(At("insert")) - 1
        /\ Cardinality(At("idle")') = Cardinality(At("idle")) + 1
        /\ \A x \in WorkerPhases \ {"insert", "idle"} : At(x)' = At(x)
    BY <1>3, <2>1, AtMove
  <2> QED
    BY <2>1, <2>2
<1>4. ASSUME wpc[w] = "rollback", wpc' = [wpc EXCEPT ![w] = "idle"]
      PROVE  /\ Cardinality(At("insert")') = Cardinality(At("insert"))
             /\ Cardinality(At("release")') = Cardinality(At("release"))
             /\ Cardinality(At("rollback")') = Cardinality(At("rollback")) - 1
  <2>1. /\ "rollback" # "idle" /\ "idle" \in WorkerPhases
        /\ {"insert", "release", "rollback"} \ {"rollback", "idle"} \subseteq WorkerPhases \ {"rollback", "idle"}
    BY DEF WorkerPhases
  <2>2. /\ Cardinality(At("rollback")') = Cardinality(At("rollback")) - 1
        /\ Cardinality(At("idle")') = Cardinality(At("idle")) + 1
        /\ \A x \in WorkerPhases \ {"rollback", "idle"} : At(x)' = At(x)
    BY <1>4, <2>1, AtMove
  <2> QED
    BY <2>1, <2>2
<1>5. ASSUME wpc[w] = "idle", wpc' = [wpc EXCEPT ![w] = "release"]
      PROVE  /\ Cardinality(At("insert")') = Cardinality(At("insert"))
             /\ Cardinality(At("release")') = Cardinality(At("release")) + 1
             /\ Cardinality(At("rollback")') = Cardinality(At("rollback"))
  <2>1. /\ "idle" # "release" /\ "release" \in WorkerPhases
        /\ {"insert", "release", "rollback"} \ {"idle", "release"} \subseteq WorkerPhases \ {"idle", "release"}
    BY DEF WorkerPhases
  <2>2. /\ Cardinality(At("idle")') = Cardinality(At("idle")) - 1
        /\ Cardinality(At("release")') = Cardinality(At("release")) + 1
        /\ \A x \in WorkerPhases \ {"idle", "release"} : At(x)' = At(x)
    BY <1>5, <2>1, AtMove
  <2> QED
    BY <2>1, <2>2
<1>6. ASSUME wpc[w] = "release", wpc' = [wpc EXCEPT ![w] = "idle"]
      PROVE  /\ Cardinality(At("insert")') = Cardinality(At("insert"))
             /\ Cardinality(At("release")') = Cardinality(At("release")) - 1
             /\ Cardinality(At("rollback")') = Cardinality(At("rollback"))
  <2>1. /\ "release" # "idle" /\ "idle" \in WorkerPhases
        /\ {"insert", "release", "rollback"} \ {"release", "idle"} \subseteq WorkerPhases \ {"release", "idle"}
    BY DEF WorkerPhases
  <2>2. /\ Cardinality(At("release")') = Cardinality(At("release")) - 1
        /\ Cardinality(At("idle")') = Cardinality(At("idle")) + 1
        /\ \A x \in WorkerPhases \ {"release", "idle"} : At(x)' = At(x)
    BY <1>6, <2>1, AtMove
  <2> QED
    BY <2>1, <2>2
<1> QED
  BY <1>1, <1>2, <1>3, <1>4, <1>5, <1>6

\* A message comes or goes.
LEMMA TrackedMove ==
    ASSUME BoundTypes, NEW k \in Keys
    PROVE  /\ Cardinality(Tracked) \in Nat
           /\ \A item \in Item : items[k] = NoItem /\ items' = [items EXCEPT ![k] = item]
                  => Cardinality(Tracked') = Cardinality(Tracked) + 1
           /\ items[k] # NoItem /\ items' = [items EXCEPT ![k] = NoItem]
                  => Cardinality(Tracked') = Cardinality(Tracked) - 1
           /\ \A item \in Item : items[k] # NoItem /\ items' = [items EXCEPT ![k] = item]
                  => Tracked' = Tracked
<1>1. IsFiniteSet(Tracked)
  BY TrackerAssumption, FS_Subset DEF Tracked
<1>2. Cardinality(Tracked) \in Nat
  BY <1>1, FS_CardinalityType
<1>3. ASSUME items[k] = NoItem, NEW item \in Item, items' = [items EXCEPT ![k] = item]
      PROVE  Cardinality(Tracked') = Cardinality(Tracked) + 1
  <2>1. Tracked' = Tracked \cup {k} /\ k \notin Tracked
    BY <1>3, PlaceholderAssumption DEF Tracked, BoundTypes
  <2> QED
    BY <2>1, <1>1, FS_AddElement
<1>4. ASSUME items[k] # NoItem, items' = [items EXCEPT ![k] = NoItem]
      PROVE  Cardinality(Tracked') = Cardinality(Tracked) - 1
  <2>1. Tracked' = Tracked \ {k} /\ k \in Tracked
    BY <1>4 DEF Tracked, BoundTypes
  <2> QED
    BY <2>1, <1>1, FS_RemoveElement
<1>5. ASSUME items[k] # NoItem, NEW item \in Item, items' = [items EXCEPT ![k] = item]
      PROVE  Tracked' = Tracked
  BY <1>5, PlaceholderAssumption DEF Tracked, BoundTypes
<1> QED
  BY <1>2, <1>3, <1>4, <1>5

\* Places holds again after each worker action.
LEMMA WorkerPlaces ==
    ASSUME BoundTypes, Places, NEW w \in Workers, WorkerCall(w) \/ WorkerStep(w)
    PROVE  Places'
<1> DEFINE T == Cardinality(Tracked)
           I == Cardinality(At("insert"))
           R == Cardinality(At("release"))
           B == Cardinality(At("rollback"))
<1> DEFINE Sums == itemCount' = (T + I + R + B)' /\ (T + I + R)' <= MaxItems
           Held == \A v \in Workers :
              /\ wpc'[v] # "idle" => op'[v] \in Call
              /\ wpc'[v] \in {"insert", "rollback", "release"} => holder'[ShardOf[op'[v].key]] = v
              /\ wpc'[v] = "insert" => items'[op'[v].key] = NoItem
<1> SUFFICES Sums /\ Held
  BY DEF Places
<1>0. /\ T \in Nat /\ I \in Nat /\ R \in Nat /\ B \in Nat /\ MaxItems \in Nat
      /\ itemCount = T + I + R + B /\ T + I + R <= MaxItems
  <2>1. IsFiniteSet(Tracked)
    BY TrackerAssumption, FS_Subset DEF Tracked
  <2> QED
    BY <2>1, FS_CardinalityType, CrowdSizes, TrackerAssumption DEF Places, BoundTypes
<1> USE DEF BoundTypes
\* Before the counter: no place is involved.
<1>1. ASSUME items' = items, itemCount' = itemCount, holder' = holder,
             wpc[w] \in {"idle", "pin", "lock"}, NEW there \in {"idle", "pin", "lock"},
             wpc' = [wpc EXCEPT ![w] = there],
             \E o \in Call \cup {NoOp} : op' = [op EXCEPT ![w] = o] /\ (there # "idle" => o \in Call)
      PROVE  Sums /\ Held
  <2>1. Tracked' = Tracked
    BY <1>1 DEF Tracked
  <2>2. At("insert")' = At("insert") /\ At("release")' = At("release") /\ At("rollback")' = At("rollback")
    BY <1>1 DEF At
  <2>3. Sums
    BY <2>1, <2>2, <1>0, <1>1
  <2>4. Held
    BY <1>1 DEF Places
  <2> QED
    BY <2>3, <2>4
<1>2. ASSUME NEW k \in Keys, NEW item \in Item,
             TrackNewCurrency(w, k, item) \/ TrackKnownCurrency(w, k, item) \/ TrackMismatch(w, k, item)
      PROVE  Sums /\ Held
  BY <1>2, <1>1 DEF TrackNewCurrency, TrackKnownCurrency, TrackMismatch, Idle, Free, Goto, Call, counters
<1>10. ASSUME NEW k \in Keys, TrackInvalid(w, k) \/ DoneUnknown(w, k)
      PROVE  Sums /\ Held
  BY <1>10, <1>1 DEF TrackInvalid, DoneUnknown, Idle, Free, counters
<1>3. CASE TrackPin(w) \/ TrackPinLost(w)
  <2>1. op[w] \in Call /\ NoOp \in Call \cup {NoOp} /\ op' = [op EXCEPT ![w] = op'[w]] /\ wpc[w] = "pin"
    BY <1>3 DEF TrackPin, TrackPinLost, Finish, Places
  <2>2. UNCHANGED <<items, itemCount, holder>>
    BY <1>3 DEF TrackPin, TrackPinLost, counters
  <2>3. CASE TrackPin(w)
    <3>1. wpc' = [wpc EXCEPT ![w] = "lock"] /\ op' = [op EXCEPT ![w] = op[w]]
      BY <2>3 DEF TrackPin, Goto
    <3> QED
      BY <1>1, <2>1, <2>2, <3>1
  <2>4. CASE TrackPinLost(w)
    <3>1. wpc' = [wpc EXCEPT ![w] = "idle"] /\ op' = [op EXCEPT ![w] = NoOp]
      BY <2>4 DEF TrackPinLost, Finish
    <3> QED
      BY <1>1, <2>1, <2>2, <3>1
  <2> QED
    BY <1>3, <2>3, <2>4
<1>4. CASE TrackUpdate(w)
  <2>1. op[w].key \in Keys /\ op[w].item \in Item
    BY <1>4 DEF TrackUpdate, Places, Call
  <2>2. Tracked' = Tracked
    BY <1>4, <2>1, RetrackedType, TrackedMove DEF TrackUpdate
  <2>3. At("insert")' = At("insert") /\ At("release")' = At("release") /\ At("rollback")' = At("rollback")
    BY <1>4 DEF At, TrackUpdate, Finish
  <2>4. Sums
    BY <1>4, <2>2, <2>3, <1>0 DEF TrackUpdate, counters
  <2>5. Held
    BY <1>4, TrackerAssumption DEF TrackUpdate, Finish, Places
  <2> QED
    BY <2>4, <2>5
<1>5. CASE TrackReserve(w)
  <2>1. op[w] \in Call /\ op[w].key \in Keys
    BY <1>5 DEF TrackReserve, Places, Call
  <2>2. Held
    BY <1>5, <2>1, TrackerAssumption DEF TrackReserve, Lock, Goto, Places
  <2>3. Tracked' = Tracked
    BY <1>5 DEF TrackReserve, Tracked
  <2>4. CASE Fits
    <3>1. I' = I + 1 /\ R' = R /\ B' = B
      <4>1. wpc[w] = "lock" /\ wpc' = [wpc EXCEPT ![w] = "insert"]
        BY <1>5, <2>4 DEF TrackReserve, Goto
      <4> QED
        BY <4>1, CrowdMove
    <3> QED
      BY <1>5, <2>2, <2>3, <2>4, <3>1, <1>0 DEF TrackReserve, Fits
  <2>5. CASE ~ Fits
    <3>1. I' = I /\ R' = R /\ B' = B + 1
      <4>1. wpc[w] = "lock" /\ wpc' = [wpc EXCEPT ![w] = "rollback"]
        BY <1>5, <2>5 DEF TrackReserve, Goto
      <4> QED
        BY <4>1, CrowdMove
    <3> QED
      BY <1>5, <2>2, <2>3, <2>5, <3>1, <1>0 DEF TrackReserve, Fits
  <2> QED
    BY <2>2, <2>4, <2>5
<1>6. CASE TrackInsert(w)
  <2>1. op[w] \in Call /\ op[w].key \in Keys /\ op[w].item \in Item /\ items[op[w].key] = NoItem
    BY <1>6 DEF TrackInsert, Places, Call
  <2>2. Held
    BY <1>6, <2>1, TrackerAssumption, PlaceholderAssumption DEF TrackInsert, Unlock, Finish, Places
  <2>3. T' = T + 1
    BY <1>6, <2>1, TrackedMove DEF TrackInsert
  <2>4. I' = I - 1 /\ R' = R /\ B' = B
    <3>1. wpc[w] = "insert" /\ wpc' = [wpc EXCEPT ![w] = "idle"]
      BY <1>6 DEF TrackInsert, Finish
    <3> QED
      BY <3>1, CrowdMove
  <2> QED
    BY <1>6, <2>2, <2>3, <2>4, <1>0 DEF TrackInsert, counters
<1>7. CASE TrackRollback(w)
  <2>1. op[w] \in Call /\ op[w].key \in Keys
    BY <1>7 DEF TrackRollback, Places, Call
  <2>2. Held
    BY <1>7, <2>1, TrackerAssumption DEF TrackRollback, Unlock, Finish, Places
  <2>3. T' = T
    BY <1>7 DEF TrackRollback, Tracked
  <2>4. I' = I /\ R' = R /\ B' = B - 1
    <3>1. wpc[w] = "rollback" /\ wpc' = [wpc EXCEPT ![w] = "idle"]
      BY <1>7 DEF TrackRollback, Finish
    <3> QED
      BY <3>1, CrowdMove
  <2> QED
    BY <1>7, <2>2, <2>3, <2>4, <1>0 DEF TrackRollback, RolledBack
<1>8. ASSUME NEW k \in Keys, DoneRemove(w, k) PROVE Sums /\ Held
  <2>1. op'[w] \in Call /\ op'[w].key = k
    BY <1>8 DEF DoneRemove, Call
  <2>2. Held
    <3> SUFFICES ASSUME NEW v \in Workers
                 PROVE  /\ wpc'[v] # "idle" => op'[v] \in Call
                        /\ wpc'[v] \in {"insert", "rollback", "release"} => holder'[ShardOf[op'[v].key]] = v
                        /\ wpc'[v] = "insert" => items'[op'[v].key] = NoItem
      OBVIOUS
    <3>1. CASE v = w
      BY <1>8, <2>1, <3>1, TrackerAssumption DEF DoneRemove, Lock, Goto
    <3>2. CASE v # w
      <4>1. wpc'[v] = wpc[v] /\ op'[v] = op[v]
        BY <1>8, <3>2 DEF DoneRemove, Goto
      <4>2. wpc[v] # "idle" => op[v] \in Call /\ op[v].key \in Keys
        BY DEF Places, Call
      <4> QED
        BY <1>8, <4>1, <4>2, TrackerAssumption DEF DoneRemove, Lock, Places
    <3> QED
      BY <3>1, <3>2
  <2>3. T' = T - 1
    BY <1>8, TrackedMove DEF DoneRemove
  <2>4. I' = I /\ R' = R + 1 /\ B' = B
    <3>1. wpc[w] = "idle" /\ wpc' = [wpc EXCEPT ![w] = "release"]
      BY <1>8 DEF DoneRemove, Goto, Idle
    <3> QED
      BY <3>1, CrowdMove
  <2> QED
    BY <1>8, <2>2, <2>3, <2>4, <1>0 DEF DoneRemove, counters
<1>9. CASE DoneRelease(w)
  <2>1. op[w] \in Call /\ op[w].key \in Keys
    BY <1>9 DEF DoneRelease, Places, Call
  <2>2. Held
    BY <1>9, <2>1, TrackerAssumption DEF DoneRelease, Unlock, Finish, Places
  <2>3. T' = T
    BY <1>9 DEF DoneRelease, Tracked
  <2>4. I' = I /\ R' = R - 1 /\ B' = B
    <3>1. wpc[w] = "release" /\ wpc' = [wpc EXCEPT ![w] = "idle"]
      BY <1>9 DEF DoneRelease, Finish
    <3> QED
      BY <3>1, CrowdMove
  <2> QED
    BY <1>9, <2>2, <2>3, <2>4, <1>0 DEF DoneRelease
<1> QED
  BY <1>2, <1>3, <1>4, <1>5, <1>6, <1>7, <1>8, <1>9, <1>10 DEF WorkerCall, WorkerStep

LEMMA OthersPlaces ==
    ASSUME BoundTypes, Places, UNCHANGED <<items, itemCount, wpc, op>>,
           holder' \in [Shards -> Workers \cup Publishers \cup {Nobody}],
           \A s \in Shards : holder[s] \in Workers => holder'[s] = holder[s]
    PROVE  BoundTypes' /\ Places'
<1>1. BoundTypes'
  BY DEF BoundTypes
<1>2. Tracked' = Tracked /\ \A x : At(x)' = At(x)
  BY DEF Tracked, At
<1>3. \A w \in Workers : wpc[w] # "idle" => ShardOf[op[w].key] \in Shards
  BY TrackerAssumption DEF Places, Call
<1>4. \A w \in Workers :
         /\ wpc'[w] # "idle" => op'[w] \in Call
         /\ wpc'[w] \in {"insert", "rollback", "release"} => holder'[ShardOf[op'[w].key]] = w
         /\ wpc'[w] = "insert" => items'[op'[w].key] = NoItem
  BY <1>3 DEF Places
<1>5. /\ itemCount' = Cardinality(Tracked') + Cardinality(At("insert")') + Cardinality(At("release")')
                      + Cardinality(At("rollback")')
      /\ Cardinality(Tracked') + Cardinality(At("insert")') + Cardinality(At("release")') <= MaxItems
  BY <1>2 DEF Places
<1> QED
  BY <1>1, <1>4, <1>5 DEF Places

LEMMA PlacesAtInit ==
    ASSUME Init
    PROVE  BoundTypes /\ Places
<1>1. Tracked = {} /\ At("insert") = {} /\ At("release") = {} /\ At("rollback") = {}
  BY DEF Init, Tracked, At, Empty
<1>2. Cardinality({}) = 0 /\ MaxItems \in Nat
  BY FS_EmptySet, TrackerAssumption
<1>3. /\ Cardinality(Tracked) = 0 /\ Cardinality(At("insert")) = 0
      /\ Cardinality(At("release")) = 0 /\ Cardinality(At("rollback")) = 0
  BY <1>1, <1>2
<1>4. BoundTypes
  BY DEF Init, BoundTypes, Empty, WorkerPhases
<1>5. itemCount = 0 /\ \A w \in Workers : wpc[w] = "idle"
  BY DEF Init
<1> QED
  BY <1>2, <1>3, <1>4, <1>5 DEF Places

\* What a place is, for every step.
LEMMA PlacesInv == Spec => [](BoundTypes /\ Places)
<1>1. Init => BoundTypes /\ Places
  BY PlacesAtInit
<1>2. BoundTypes /\ Places /\ [Next]_vars => (BoundTypes /\ Places)'
  <2> SUFFICES ASSUME BoundTypes, Places, [Next]_vars PROVE BoundTypes' /\ Places'
    OBVIOUS
  <2>1. ASSUME NEW w \in Workers, WorkerCall(w) \/ WorkerStep(w) PROVE BoundTypes' /\ Places'
    BY <2>1, WorkerTypes, WorkerPlaces
  <2>2. ASSUME NEW p \in Publishers, PublishBegin(p) \/ PublishStep(p) PROVE BoundTypes' /\ Places'
    BY <2>2, OthersKeep, OthersMoveLocks, OthersPlaces
  <2>3. ASSUME \/ LoopTick \/ LoopExit \/ CloseBegin \/ CloseReturn \/ Tick
               \/ \E s \in Starters : StartClaim(s) \/ StartAgain(s) \/ StartSpawn(s)
        PROVE  BoundTypes' /\ Places'
    <3>1. Loop \in Publishers
      BY DEF Publishers
    <3> QED
      BY <2>3, <3>1, OthersKeep, OthersMoveLocks, OthersPlaces
  <2>4. ASSUME UNCHANGED vars PROVE BoundTypes' /\ Places'
    <3>1. UNCHANGED <<items, itemCount, wpc, op, holder>>
      BY <2>4 DEF vars, counters, workerVars
    <3> QED
      BY <3>1, OthersPlaces DEF BoundTypes
  <2> QED
    BY <2>1, <2>2, <2>3, <2>4 DEF Next, Publishers
<1> QED
  BY <1>1, <1>2, PTL DEF Spec

\* The tracker never holds more messages than its bound, however many workers
\* reserve places in however many shards at once.
THEOREM BoundHolds == Spec => []BoundExact
<1>1. BoundTypes /\ Places => BoundExact
  <2>1. IsFiniteSet(Tracked)
    BY TrackerAssumption, FS_Subset DEF Tracked
  <2> QED
    BY <2>1, FS_CardinalityType, CrowdSizes, TrackerAssumption DEF Places, BoundExact
<1> QED
  BY <1>1, PlacesInv, PTL

\* Refused tracks and completed messages give their places back: the counter
\* is the size of the set whenever no worker is in between.
THEOREM PlacesReturn == Spec => []NoPlaceLeaked
<1>1. BoundTypes /\ Places => NoPlaceLeaked
  <2> SUFFICES ASSUME BoundTypes, Places, At("insert") \cup At("rollback") \cup At("release") = {}
               PROVE  itemCount = Cardinality(Tracked)
    BY DEF NoPlaceLeaked
  <2>1. At("insert") = {} /\ At("rollback") = {} /\ At("release") = {}
    OBVIOUS
  <2>2. Cardinality(Tracked) \in Nat
    <3>1. IsFiniteSet(Tracked)
      BY TrackerAssumption, FS_Subset DEF Tracked
    <3> QED
      BY <3>1, FS_CardinalityType
  <2>3. Cardinality({}) = 0
    BY FS_EmptySet
  <2> QED
    <3>1. Cardinality(At("insert")) = 0 /\ Cardinality(At("rollback")) = 0 /\ Cardinality(At("release")) = 0
      BY <2>1, <2>3
    <3> QED
      BY <2>2, <3>1 DEF Places
<1> QED
  BY <1>1, PlacesInv, PTL

-----------------------------------------------------------------------------
(* The gauges, retries, and the end of the publish loop *)

\* Types of what workers write beside the set itself.
WorkerSide ==
    /\ overflow \in Nat /\ rejected \in Nat /\ expected \subseteq Keys
    /\ pinned \in [Currencies -> Exponents \cup {NoExponent}]

\* Types of what publishers write.
PublishSide ==
    /\ now \in Instants
    /\ publisher \in Publishers \cup {Nobody} /\ live \subseteq Combos
    /\ ppc \in [Publishers -> {"idle", "ticked", "locking", "locked", "emit"}]
    /\ asOf \in [Publishers -> Instants]
    /\ snap \in [Publishers -> [Keys -> Item \cup {NoItem}]]
    /\ todo \in [Publishers -> SUBSET Combos]
    /\ gauge \in [Series -> Levels]
    /\ lastSnap \in [Keys -> Item \cup {NoItem}] /\ lastAsOf \in Instants

\* Start and Close: only the Start that claimed the loop spawns it, and a loop
\* that ran when Close was called has exited before Close returned.
LifeInv ==
    /\ started \in BOOLEAN /\ loop \in {"none", "running", "exited"} /\ stopped \in BOOLEAN
    /\ spc \in [Starters -> {"idle", "spawn", "returned"}]
    /\ closing \in {"open", "wait", "closed"} /\ startedFirst \in BOOLEAN
    /\ loop # "none" => started
    /\ \A s \in Starters : spc[s] = "spawn" =>
          started /\ loop = "none" /\ \A t \in Starters : spc[t] = "spawn" => t = s
    /\ startedFirst => loop # "none"
    /\ closing = "closed" /\ startedFirst => loop = "exited"
    /\ loop = "exited" => ppc[Loop] = "idle"

\* Every amount that is in the set, on its way into it, or to be published
\* is in the exponent its currency is pinned to.
ExponentsPinned ==
    /\ \A k \in Tracked : items[k].money.exponent = pinned[items[k].money.currency]
    /\ \A w \in Workers : wpc[w] \in {"lock", "insert"} =>
          op[w].item.money.exponent = pinned[op[w].item.money.currency]
    /\ \A c \in live : c.exponent = pinned[c.currency]
    /\ \A p \in Publishers : \A c \in todo[p] : c.exponent = pinned[c.currency]

\* A shard whose lock a publisher holds is as the publisher read it.
SnapshotInv ==
    \A p \in Publishers :
        /\ ppc[p] \notin {"idle", "ticked"} => publisher = p
        /\ ppc[p] \in {"idle", "ticked", "emit"} => \A s \in Shards : holder[s] # p
        /\ ppc[p] = "locked" => \A s \in Shards : holder[s] = p
        /\ \A k \in Keys : holder[ShardOf[k]] = p => snap[p][k] = items[k]

CombosIn(s) == {c \in Combos : SeriesOf(c) = s}

Shown(s) == gauge[s] = Level(lastSnap, lastAsOf, CombosIn(s))

\* Every series shows the last snapshot or is about to.
GaugeInv ==
    /\ live = CombosOf(lastSnap)
    /\ \A p \in Publishers : ppc[p] = "emit" => snap[p] = lastSnap /\ asOf[p] = lastAsOf
    /\ \A s \in Series :
          \/ Shown(s)
          \/ \E p \in Publishers : ppc[p] = "emit" /\ \E c \in todo[p] : SeriesOf(c) = s

\* What is missing from the set is counted.
MissingCounted == expected \subseteq Tracked \/ overflow + rejected > 0

IInv == /\ BoundTypes /\ Places /\ WorkerSide /\ PublishSide /\ LifeInv
        /\ ExponentsPinned /\ SnapshotInv /\ MissingCounted

\* No two of the tracked stages share a label: at most one of them is outside
\* the registry.
StagesApart == \A c, d \in Combos : SeriesOf(c) = SeriesOf(d) => c.stage = d.stage
-----------------------------------------------------------------------------
(* Operators *)

\* A level depends on those combos only that the set has.
LEMMA LevelSame ==
    ASSUME NEW set, NEW t, NEW C, NEW D,
           \A k \in Keys : set[k] # NoItem => (ComboOf(k, set[k]) \in C <=> ComboOf(k, set[k]) \in D)
    PROVE  Level(set, t, C) = Level(set, t, D)
<1>1. \A b \in AgeBuckets :
         {j \in Keys : set[j] # NoItem /\ ComboOf(j, set[j]) \in C /\ AgeBucketFor(t - set[j].enqueuedAt) = b}
         = {j \in Keys : set[j] # NoItem /\ ComboOf(j, set[j]) \in D /\ AgeBucketFor(t - set[j].enqueuedAt) = b}
  OBVIOUS
<1> QED
  BY <1>1, Zenon DEF Level

LEMMA LevelZero ==
    ASSUME NEW set, NEW t, NEW C, \A k \in Keys : set[k] # NoItem => ComboOf(k, set[k]) \notin C
    PROVE  Level(set, t, C) = Zero
<1>1. \A b \in AgeBuckets :
         {j \in Keys : set[j] # NoItem /\ ComboOf(j, set[j]) \in C /\ AgeBucketFor(t - set[j].enqueuedAt) = b} = {}
  OBVIOUS
<1>2. \A b \in AgeBuckets :
         {<<k, set[k].money.amount>> : k \in {j \in Keys : /\ set[j] # NoItem
                                                           /\ ComboOf(j, set[j]) \in C
                                                           /\ AgeBucketFor(t - set[j].enqueuedAt) = b}} = {}
  BY <1>1
<1> QED
  BY <1>2, Zenon DEF Level, Zero

LEMMA LevelType ==
    ASSUME NEW set \in [Keys -> Item \cup {NoItem}], NEW t, NEW C
    PROVE  Level(set, t, C) \in Levels
<1> DEFINE of(b) == {j \in Keys : /\ set[j] # NoItem /\ ComboOf(j, set[j]) \in C
                                  /\ AgeBucketFor(t - set[j].enqueuedAt) = b}
<1>1. \A k \in Keys : set[k] # NoItem => set[k].money.amount \in {m.amount : m \in Moneys}
  BY DEF Item
<1>2. \A b : {<<k, set[k].money.amount>> : k \in of(b)} \in SUBSET (Keys \X {m.amount : m \in Moneys})
  BY <1>1
<1> HIDE DEF of
<1>3. [b \in AgeBuckets |-> {<<k, set[k].money.amount>> : k \in of(b)}]
        \in [AgeBuckets -> SUBSET (Keys \X {m.amount : m \in Moneys})]
  BY <1>2
<1> QED
  BY <1>3 DEF Level, Levels, of

LEMMA ComboType ==
    ASSUME NEW k \in Keys, NEW item \in Item
    PROVE  ComboOf(k, item) \in Combos /\ SeriesOf(ComboOf(k, item)) \in Series
  BY DEF ComboOf, Combos, SeriesOf, Series, Stages, Currencies, Exponents, Item

LEMMA CombosType ==
    ASSUME NEW set \in [Keys -> Item \cup {NoItem}]
    PROVE  CombosOf(set) \subseteq Combos
  BY ComboType DEF CombosOf

LEMMA ExponentTypes ==
    /\ \A item \in Item : item.money.currency \in Currencies /\ item.money.exponent \in Exponents
    /\ \A c \in Combos : c.currency \in Currencies /\ c.exponent \in Exponents
    /\ NoExponent \notin Exponents
  BY TrackerAssumption DEF Item, Combos, Currencies, Exponents

-----------------------------------------------------------------------------
(* What each kind of step leaves alone *)

LEMMA WorkerFrame ==
    ASSUME NEW w \in Workers, WorkerCall(w) \/ WorkerStep(w)
    PROVE  UNCHANGED <<now, publisher, live, ppc, asOf, snap, todo, gauge, lastSnap, lastAsOf,
                       started, loop, stopped, spc, closing, startedFirst>>
  BY DEF WorkerCall, WorkerStep, TrackInvalid, TrackNewCurrency, TrackKnownCurrency, TrackMismatch,
     TrackPin, TrackPinLost, TrackUpdate, TrackReserve, TrackInsert, TrackRollback, DoneRemove,
     DoneRelease, DoneUnknown, Rest, publishVars, lifeVars

LEMMA PublishFrame ==
    ASSUME NEW p \in Publishers, PublishBegin(p) \/ PublishStep(p)
    PROVE  UNCHANGED <<now, items, itemCount, overflow, rejected, pinned, wpc, op, expected,
                       started, loop, stopped, spc, closing, startedFirst>>
  BY DEF PublishBegin, PublishStep, PublishLock, PublishUnlock, PublishEmit, PublishEnd, Aside,
     counters, workerVars, lifeVars

LifeStep == \/ LoopExit \/ CloseBegin \/ CloseReturn
            \/ \E s \in Starters : StartClaim(s) \/ StartAgain(s) \/ StartSpawn(s)

LEMMA LifeFrame ==
    ASSUME LifeStep
    PROVE  UNCHANGED <<now, items, holder, itemCount, overflow, rejected, pinned, wpc, op, expected,
                       publisher, live, ppc, asOf, snap, todo, gauge, lastSnap, lastAsOf>>
  BY DEF LifeStep, LoopExit, CloseBegin, CloseReturn, StartClaim, StartAgain, StartSpawn, works,
     counters, workerVars, publishVars

LEMMA TickFrame ==
    ASSUME Tick
    PROVE  UNCHANGED <<items, holder, itemCount, overflow, rejected, pinned, wpc, op, expected,
                       publisher, live, ppc, asOf, snap, todo, gauge, lastSnap, lastAsOf,
                       started, loop, stopped, spc, closing, startedFirst>>
  BY DEF Tick, counters, workerVars, publishVars, lifeVars

\* The tick is between the loop and its ticker.
LEMMA LoopTickFrame ==
    ASSUME LoopTick
    PROVE  UNCHANGED <<now, items, holder, itemCount, overflow, rejected, pinned, wpc, op, expected,
                       publisher, live, asOf, snap, todo, gauge, lastSnap, lastAsOf,
                       started, loop, stopped, spc, closing, startedFirst>>
  BY DEF LoopTick, Aside, counters, workerVars, lifeVars

LEMMA StepKinds ==
    ASSUME [Next]_vars
    PROVE  \/ \E w \in Workers : WorkerCall(w) \/ WorkerStep(w)
           \/ \E p \in Publishers : PublishBegin(p) \/ PublishStep(p)
           \/ LifeStep \/ LoopTick \/ Tick \/ UNCHANGED vars
  BY Zenon DEF Next, LifeStep
-----------------------------------------------------------------------------
(* Types and lifecycle *)

LEMMA WorkerSideKept ==
    ASSUME BoundTypes, Places, WorkerSide, NEW w \in Workers, WorkerCall(w) \/ WorkerStep(w)
    PROVE  WorkerSide'
<1> USE DEF WorkerSide
<1>1. ASSUME NEW k \in Keys, TrackInvalid(w, k) \/ DoneRemove(w, k) \/ DoneUnknown(w, k)
      PROVE  WorkerSide'
  BY <1>1 DEF TrackInvalid, DoneRemove, DoneUnknown, counters
<1>2. ASSUME NEW k \in Keys, NEW item \in Item,
             TrackNewCurrency(w, k, item) \/ TrackKnownCurrency(w, k, item) \/ TrackMismatch(w, k, item)
      PROVE  WorkerSide'
  BY <1>2 DEF TrackNewCurrency, TrackKnownCurrency, TrackMismatch, counters
<1>3. ASSUME WorkerStep(w) PROVE WorkerSide'
  <2>1. wpc[w] # "idle"
    BY <1>3 DEF WorkerStep, TrackPin, TrackPinLost, TrackUpdate, TrackReserve, TrackInsert, TrackRollback, DoneRelease
  <2>2. op[w].key \in Keys /\ op[w].item \in Item
    BY <2>1 DEF Places, Call
  <2>3. CASE TrackPin(w)
    BY <2>2, <2>3, ExponentTypes DEF TrackPin, LoadOrStore, counters
  <2>4. CASE \/ TrackPinLost(w) \/ TrackUpdate(w) \/ TrackReserve(w) \/ TrackInsert(w)
             \/ TrackRollback(w) \/ DoneRelease(w)
    BY <2>2, <2>4 DEF TrackPinLost, TrackUpdate, TrackReserve, TrackInsert, TrackRollback, Refused, DoneRelease, counters
  <2> QED
    BY <1>3, <2>3, <2>4 DEF WorkerStep
<1> QED
  BY <1>1, <1>2, <1>3 DEF WorkerCall

LEMMA PublishSideKept ==
    ASSUME BoundTypes, PublishSide, NEW p \in Publishers, PublishBegin(p) \/ PublishStep(p)
    PROVE  PublishSide'
<1> USE DEF PublishSide
<1>0. now' = now
  BY PublishFrame
<1>1. CASE PublishBegin(p)
  BY <1>0, <1>1 DEF PublishBegin
<1>2. ASSUME NEW s \in Shards, PublishLock(p, s) PROVE PublishSide'
  BY <1>0, <1>2 DEF PublishLock, BoundTypes
<1>3. CASE PublishUnlock(p)
  BY <1>0, <1>3, CombosType DEF PublishUnlock, ToPublish
<1>4. ASSUME NEW c \in Combos, PublishEmit(p, c) PROVE PublishSide'
  <2>1. Level(snap[p], asOf[p], {c}) \in Levels
    BY LevelType
  <2> QED
    BY <1>0, <1>4, <2>1 DEF PublishEmit
<1>5. CASE PublishEnd(p)
  BY <1>0, <1>5 DEF PublishEnd, Empty
<1> QED
  BY <1>1, <1>2, <1>3, <1>4, <1>5 DEF PublishStep

LEMMA LifeKept ==
    ASSUME LifeInv, PublishSide, LifeStep
    PROVE  LifeInv'
<1> USE DEF LifeInv
<1>0. ppc' = ppc
  BY LifeFrame
<1>1. CASE LoopExit
  BY <1>0, <1>1 DEF LoopExit
<1>2. CASE CloseBegin
  BY <1>0, <1>2 DEF CloseBegin
<1>3. CASE CloseReturn
  BY <1>0, <1>3 DEF CloseReturn, LoopDone
<1>4. ASSUME NEW s \in Starters, StartClaim(s) PROVE LifeInv'
  BY <1>0, <1>4 DEF StartClaim, NotStarted
<1>5. ASSUME NEW s \in Starters, StartAgain(s) PROVE LifeInv'
  BY <1>0, <1>5 DEF StartAgain
<1>6. ASSUME NEW s \in Starters, StartSpawn(s) PROVE LifeInv'
  BY <1>0, <1>6 DEF StartSpawn
<1> QED
  BY <1>1, <1>2, <1>3, <1>4, <1>5, <1>6 DEF LifeStep

LEMMA LifeOfLoop ==
    ASSUME LifeInv, PublishSide, NEW p \in Publishers, PublishBegin(p) \/ PublishStep(p)
    PROVE  LifeInv'
<1>1. UNCHANGED <<started, loop, stopped, spc, closing, startedFirst>>
  BY PublishFrame
<1>2. loop = "exited" => ppc'[Loop] = "idle"
  <2>1. Loop \in Publishers
    BY DEF Publishers
  <2> QED
    BY <2>1 DEF LifeInv, PublishSide, PublishStep, PublishBegin, Calls, PublishLock, PublishUnlock, PublishEmit, PublishEnd
<1> QED
  BY <1>1, <1>2 DEF LifeInv
-----------------------------------------------------------------------------
(* Exponents and shards *)

\* A pinned exponent stays.
LEMMA PinnedStays ==
    ASSUME BoundTypes, Places, WorkerSide, NEW w \in Workers, WorkerCall(w) \/ WorkerStep(w),
           NEW c \in Currencies, pinned[c] # NoExponent
    PROVE  pinned'[c] = pinned[c]
<1>1. CASE TrackPin(w)
  <2>1. op[w].item \in Item
    BY <1>1 DEF TrackPin, Places, Call
  <2> QED
    BY <1>1, <2>1, ExponentTypes DEF TrackPin, LoadOrStore, WorkerSide
<1>2. CASE pinned' = pinned
  BY <1>2
<1> QED
  BY <1>1, <1>2 DEF WorkerCall, WorkerStep, TrackInvalid, TrackNewCurrency, TrackKnownCurrency,
     TrackMismatch, TrackPinLost, TrackUpdate, TrackReserve, TrackInsert, TrackRollback, DoneRemove,
     DoneRelease, DoneUnknown, counters

AgreesWith(pins, item) == item.money.exponent = pins[item.money.currency]

\* What a worker adds to the set carries a pinned exponent, and so does what
\* it goes to the lock with.
LEMMA WorkerPinned ==
    ASSUME BoundTypes, Places, WorkerSide, ExponentsPinned, NEW w \in Workers,
           WorkerCall(w) \/ WorkerStep(w)
    PROVE  /\ \A k \in Keys : items'[k] # NoItem =>
                items'[k] \in Item /\ items'[k].money.exponent = pinned'[items'[k].money.currency]
           /\ \A v \in Workers : wpc'[v] \in {"lock", "insert"} =>
                op'[v].item.money.exponent = pinned'[op'[v].item.money.currency]
<1>1. ASSUME NEW item \in Item, item.money.exponent = pinned[item.money.currency]
      PROVE  AgreesWith(pinned', item)
  BY <1>1, PinnedStays, ExponentTypes DEF AgreesWith
<1>2. \A k \in Keys : items[k] # NoItem => items[k] \in Item /\ AgreesWith(pinned', items[k])
  BY <1>1 DEF BoundTypes, ExponentsPinned, Tracked
<1>3. \A v \in Workers : wpc[v] \in {"lock", "insert"} => op[v] \in Call /\ op[v].item \in Item /\ AgreesWith(pinned', op[v].item)
  BY <1>1 DEF Places, Call, ExponentsPinned
<1> DEFINE Set == \A k \in Keys : items'[k] # NoItem => items'[k] \in Item /\ AgreesWith(pinned', items'[k])
           Ops == \A v \in Workers : wpc'[v] \in {"lock", "insert"} => AgreesWith(pinned', op'[v].item)
<1> SUFFICES Set /\ Ops
  BY DEF AgreesWith
<1>4. ASSUME NEW k \in Keys, TrackInvalid(w, k) \/ DoneRemove(w, k) \/ DoneUnknown(w, k)
      PROVE  Set /\ Ops
  BY <1>4, <1>2, <1>3 DEF TrackInvalid, DoneRemove, DoneUnknown, Goto, BoundTypes
<1>5. ASSUME NEW k \in Keys, NEW item \in Item,
             TrackNewCurrency(w, k, item) \/ TrackKnownCurrency(w, k, item) \/ TrackMismatch(w, k, item)
      PROVE  Set /\ Ops
  <2>1. items' = items /\ pinned' = pinned
    BY <1>5 DEF TrackNewCurrency, TrackKnownCurrency, TrackMismatch
  <2>2. CASE TrackNewCurrency(w, k, item) \/ TrackMismatch(w, k, item)
    BY <2>1, <2>2, <1>2, <1>3 DEF TrackNewCurrency, TrackMismatch, Goto, BoundTypes
  <2>3. CASE TrackKnownCurrency(w, k, item)
    <3>1. AgreesWith(pinned', item)
      BY <2>1, <2>3 DEF TrackKnownCurrency, AgreesWith
    <3> QED
      BY <2>1, <2>3, <3>1, <1>2, <1>3 DEF TrackKnownCurrency, Goto, BoundTypes
  <2> QED
    BY <1>5, <2>2, <2>3
<1>6. CASE TrackPin(w)
  <2>1. AgreesWith(pinned', op[w].item) /\ items' = items /\ op' = op
    BY <1>6 DEF TrackPin, AgreesWith
  <2> QED
    BY <1>6, <2>1, <1>2, <1>3 DEF TrackPin, Goto, BoundTypes
<1>7. CASE TrackPinLost(w) \/ TrackRollback(w) \/ DoneRelease(w)
  BY <1>7, <1>2, <1>3 DEF TrackPinLost, TrackRollback, DoneRelease, Finish, BoundTypes
<1>8. CASE TrackUpdate(w)
  <2>1. op[w].key \in Keys /\ op[w].item \in Item /\ AgreesWith(pinned', op[w].item)
    BY <1>8, <1>3 DEF TrackUpdate, Call
  <2>2. /\ Retracked(op[w].key, op[w].item) \in Item
        /\ Retracked(op[w].key, op[w].item).money = op[w].item.money
    BY <1>8, <2>1, RetrackedType DEF TrackUpdate, Retracked, Item
  <2>3. AgreesWith(pinned', Retracked(op[w].key, op[w].item))
    BY <2>1, <2>2 DEF AgreesWith
  <2> QED
    BY <1>8, <2>1, <2>2, <2>3, <1>2, <1>3 DEF TrackUpdate, Finish, BoundTypes
<1>9. CASE TrackReserve(w)
  BY <1>9, <1>2, <1>3 DEF TrackReserve, Goto, BoundTypes
<1>10. CASE TrackInsert(w)
  <2>1. op[w].key \in Keys /\ op[w].item \in Item /\ AgreesWith(pinned', op[w].item)
    BY <1>10, <1>3 DEF TrackInsert, Call
  <2> QED
    BY <1>10, <2>1, <1>2, <1>3 DEF TrackInsert, Finish, BoundTypes
<1> QED
  BY <1>4, <1>5, <1>6, <1>7, <1>8, <1>9, <1>10 DEF WorkerCall, WorkerStep

LEMMA PinnedByWorker ==
    ASSUME BoundTypes, Places, WorkerSide, PublishSide, ExponentsPinned, NEW w \in Workers,
           WorkerCall(w) \/ WorkerStep(w)
    PROVE  ExponentsPinned'
<1>1. live' = live /\ todo' = todo
  BY WorkerFrame
<1>2. \A c \in Combos : c.exponent = pinned[c.currency] => c.exponent = pinned'[c.currency]
  BY PinnedStays, ExponentTypes
<1>3. /\ \A c \in live : c.exponent = pinned'[c.currency]
      /\ \A p \in Publishers : \A c \in todo[p] : c.exponent = pinned'[c.currency]
  BY <1>2 DEF ExponentsPinned, PublishSide
<1>4. \A k \in Tracked' : items'[k].money.exponent = pinned'[items'[k].money.currency]
  BY WorkerPinned DEF Tracked
<1>5. \A v \in Workers : wpc'[v] \in {"lock", "insert"} =>
         op'[v].item.money.exponent = pinned'[op'[v].item.money.currency]
  BY WorkerPinned
<1> QED
  BY <1>1, <1>3, <1>4, <1>5 DEF ExponentsPinned

LEMMA PinnedByPublisher ==
    ASSUME BoundTypes, PublishSide, ExponentsPinned, SnapshotInv, NEW p \in Publishers,
           PublishBegin(p) \/ PublishStep(p)
    PROVE  ExponentsPinned'
<1>1. UNCHANGED <<items, pinned, wpc, op>>
  BY PublishFrame
<1>2. /\ \A k \in Tracked' : items'[k].money.exponent = pinned'[items'[k].money.currency]
      /\ \A w \in Workers : wpc'[w] \in {"lock", "insert"} =>
            op'[w].item.money.exponent = pinned'[op'[w].item.money.currency]
  BY <1>1 DEF ExponentsPinned, Tracked
<1> DEFINE Ready == /\ \A c \in live' : c.exponent = pinned[c.currency]
                    /\ \A q \in Publishers : \A c \in todo'[q] : c.exponent = pinned[c.currency]
<1> SUFFICES Ready
  BY <1>1, <1>2 DEF ExponentsPinned
<1>3. CASE PublishUnlock(p)
  <2>1. \A k \in Keys : snap[p][k] = items[k]
    BY <1>3, TrackerAssumption DEF PublishUnlock, SnapshotInv
  <2>2. \A c \in CombosOf(snap[p]) : c.exponent = pinned[c.currency]
    BY <2>1 DEF CombosOf, ComboOf, ExponentsPinned, Tracked
  <2> QED
    BY <1>1, <1>2, <1>3, <2>2 DEF PublishUnlock, ToPublish, ExponentsPinned, PublishSide
<1>4. ASSUME NEW c \in Combos, PublishEmit(p, c) PROVE Ready
  BY <1>4 DEF PublishEmit, ExponentsPinned, PublishSide
<1>5. CASE PublishBegin(p) \/ PublishEnd(p) \/ \E s \in Shards : PublishLock(p, s)
  BY <1>5 DEF PublishBegin, PublishEnd, PublishLock, ExponentsPinned
<1> QED
  BY <1>3, <1>4, <1>5 DEF PublishStep
-----------------------------------------------------------------------------
(* Snapshots *)

\* A worker takes and changes shards that nobody holds, and its own.
LEMMA WorkerShards ==
    ASSUME BoundTypes, Places, NEW w \in Workers, WorkerCall(w) \/ WorkerStep(w)
    PROVE  /\ \A s \in Shards : holder'[s] = holder[s] \/ {holder[s], holder'[s]} \subseteq {w, Nobody}
           /\ \A k \in Keys : items'[k] = items[k] \/ holder[ShardOf[k]] \in {w, Nobody}
<1> DEFINE Own == /\ \A s \in Shards : holder'[s] = holder[s] \/ {holder[s], holder'[s]} \subseteq {w, Nobody}
                  /\ \A k \in Keys : items'[k] = items[k] \/ holder[ShardOf[k]] \in {w, Nobody}
<1> SUFFICES Own
  OBVIOUS
<1> USE TrackerAssumption DEF BoundTypes
<1>1. CASE UNCHANGED <<items, holder>>
  BY <1>1
<1>2. ASSUME NEW k \in Keys, DoneRemove(w, k) PROVE Own
  BY <1>2 DEF DoneRemove, Lock
<1>3. CASE \/ TrackUpdate(w) \/ TrackReserve(w) \/ TrackInsert(w) \/ TrackRollback(w) \/ DoneRelease(w)
  <2>1. op[w].key \in Keys /\ ShardOf[op[w].key] \in Shards
    BY <1>3 DEF TrackUpdate, TrackReserve, TrackInsert, TrackRollback, DoneRelease, Places, Call
  <2>2. CASE TrackUpdate(w)
    BY <2>1, <2>2 DEF TrackUpdate
  <2>3. CASE TrackReserve(w)
    BY <2>1, <2>3 DEF TrackReserve, Lock
  <2>4. CASE TrackInsert(w)
    BY <2>1, <2>4 DEF TrackInsert, Unlock, Places
  <2>5. CASE TrackRollback(w) \/ DoneRelease(w)
    BY <2>1, <2>5 DEF TrackRollback, DoneRelease, Unlock, Places
  <2> QED
    BY <1>3, <2>2, <2>3, <2>4, <2>5
<1> QED
  BY <1>1, <1>2, <1>3 DEF WorkerCall, WorkerStep, TrackInvalid, TrackNewCurrency, TrackKnownCurrency,
     TrackMismatch, TrackPin, TrackPinLost, DoneUnknown

LEMMA SnapshotByWorker ==
    ASSUME BoundTypes, Places, SnapshotInv, NEW w \in Workers, WorkerCall(w) \/ WorkerStep(w)
    PROVE  SnapshotInv'
<1>1. UNCHANGED <<publisher, ppc, snap>>
  BY WorkerFrame
<1>2. ASSUME NEW p \in Publishers, NEW s \in Shards
      PROVE  holder'[s] = p <=> holder[s] = p
  BY <1>2, WorkerShards, TrackerAssumption
<1>3. ASSUME NEW p \in Publishers, NEW k \in Keys, holder'[ShardOf[k]] = p
      PROVE  snap[p][k] = items'[k]
  <2>1. ShardOf[k] \in Shards
    BY TrackerAssumption
  <2>2. holder[ShardOf[k]] = p
    BY <1>2, <1>3, <2>1
  <2> QED
    BY <2>2, WorkerShards, TrackerAssumption DEF SnapshotInv
<1> QED
  BY <1>1, <1>2, <1>3 DEF SnapshotInv

LEMMA SnapshotByPublisher ==
    ASSUME BoundTypes, PublishSide, SnapshotInv, NEW p \in Publishers, PublishBegin(p) \/ PublishStep(p)
    PROVE  SnapshotInv'
<1> USE DEF SnapshotInv, PublishSide
<1>0. items' = items
  BY PublishFrame
<1>00. \A k \in Keys : ShardOf[k] \in Shards
  BY TrackerAssumption
<1>01. Nobody \notin Publishers
  BY TrackerAssumption
<1>1. CASE PublishBegin(p)
  BY <1>0, <1>1, <1>00, <1>01 DEF PublishBegin, Calls, Serialized
<1>2. ASSUME NEW s \in Shards, PublishLock(p, s) PROVE SnapshotInv'
  <2>1. \A q \in Publishers : q # p => ppc[q] \in {"idle", "ticked"}
    BY <1>2 DEF PublishLock
  <2>2. \A t \in Shards : holder'[t] = IF t = s THEN p ELSE holder[t]
    BY <1>2 DEF PublishLock, Locked, BoundTypes
  <2>3. s = ShardCount => \A t \in Shards : holder'[t] = p
    <3> SUFFICES ASSUME s = ShardCount, NEW t \in Shards, t # s PROVE holder[t] = p
      BY <2>2
    <3>1. t < s
      BY TrackerAssumption DEF Shards
    <3>2. ~ (s <= t)
      BY <3>1 DEF Shards
    <3> QED
      BY <1>2, <3>2 DEF PublishLock, Missing, ReadBy
  <2>4. /\ UNCHANGED publisher
        /\ \A q \in Publishers : ppc'[q] = IF q = p THEN (IF s = ShardCount THEN "locked" ELSE "locking") ELSE ppc[q]
        /\ \A q \in Publishers : q # p => snap'[q] = snap[q]
        /\ \A k \in Keys : snap'[p][k] = IF ShardOf[k] = s THEN items[k] ELSE snap[p][k]
    BY <1>2 DEF PublishLock
  <2>5. ASSUME NEW q \in Publishers
        PROVE  /\ ppc'[q] \notin {"idle", "ticked"} => publisher' = q
               /\ ppc'[q] \in {"idle", "ticked", "emit"} => \A t \in Shards : holder'[t] # q
               /\ ppc'[q] = "locked" => \A t \in Shards : holder'[t] = q
    <3>1. CASE q = p
      BY <1>2, <2>3, <2>4, <3>1 DEF PublishLock
    <3>2. CASE q # p
      <4>1. ppc[q] \in {"idle", "ticked"} /\ ppc'[q] = ppc[q] /\ \A t \in Shards : holder[t] # q
        BY <2>1, <2>4, <3>2
      <4> QED
        BY <2>2, <3>2, <4>1
    <3> QED
      BY <3>1, <3>2
  <2>6. ASSUME NEW q \in Publishers, NEW k \in Keys, holder'[ShardOf[k]] = q
        PROVE  snap'[q][k] = items'[k]
    BY <2>6, <1>0, <1>00, <2>2, <2>4
  <2> QED
    BY <2>5, <2>6
<1>3. CASE PublishUnlock(p)
  BY <1>0, <1>3, <1>00, <1>01 DEF PublishUnlock, BoundTypes
<1>4. ASSUME NEW c \in Combos, PublishEmit(p, c) PROVE SnapshotInv'
  BY <1>0, <1>4 DEF PublishEmit
<1>5. CASE PublishEnd(p)
  BY <1>0, <1>5, <1>00 DEF PublishEnd
<1> QED
  BY <1>1, <1>2, <1>3, <1>4, <1>5 DEF PublishStep

\* A worker that leaves its message out of the set counts it.
LEMMA MissingByWorker ==
    ASSUME BoundTypes, Places, WorkerSide, MissingCounted, NEW w \in Workers,
           WorkerCall(w) \/ WorkerStep(w)
    PROVE  MissingCounted'
<1> USE DEF MissingCounted, WorkerSide
<1>1. ASSUME NEW k \in Keys, TrackInvalid(w, k) \/ \E item \in Item : TrackMismatch(w, k, item)
      PROVE  MissingCounted'
  BY <1>1 DEF TrackInvalid, TrackMismatch
<1>2. CASE TrackPinLost(w) \/ TrackRollback(w)
  BY <1>2 DEF TrackPinLost, TrackRollback, Refused
<1>3. ASSUME NEW k \in Keys, DoneRemove(w, k) PROVE MissingCounted'
  BY <1>3 DEF DoneRemove, Tracked, BoundTypes, counters
<1>4. ASSUME NEW k \in Keys, DoneUnknown(w, k) PROVE MissingCounted'
  BY <1>4 DEF DoneUnknown, Tracked, counters
<1>5. CASE TrackUpdate(w) \/ TrackInsert(w)
  <2>1. op[w].key \in Keys /\ op[w].item \in Item
    BY <1>5 DEF TrackUpdate, TrackInsert, Places, Call
  <2>2. TrackUpdate(w) => Retracked(op[w].key, op[w].item) \in Item
    BY <2>1, RetrackedType DEF TrackUpdate
  <2>3. PICK item \in Item : items' = [items EXCEPT ![op[w].key] = item]
    BY <1>5, <2>1, <2>2 DEF TrackUpdate, TrackInsert
  <2>4. Tracked' = Tracked \cup {op[w].key}
    BY <2>1, <2>3, PlaceholderAssumption DEF Tracked, BoundTypes
  <2> QED
    BY <1>5, <2>4 DEF TrackUpdate, TrackInsert, counters
<1>6. CASE UNCHANGED <<items, expected, overflow, rejected>>
  BY <1>6 DEF Tracked
<1> QED
  BY <1>1, <1>2, <1>3, <1>4, <1>5, <1>6 DEF WorkerCall, WorkerStep, TrackNewCurrency,
     TrackKnownCurrency, TrackPin, TrackReserve, DoneRelease, counters
-----------------------------------------------------------------------------
(* The gauges *)

\* With every exponent pinned, a series is one combo of what is live.
LEMMA SeriesIsCombo ==
    ASSUME StagesApart, PublishSide, ExponentsPinned, NEW p \in Publishers, NEW c \in todo[p],
           NEW d \in live, SeriesOf(c) = SeriesOf(d)
    PROVE  c = d
<1>1. c \in Combos /\ d \in Combos
  BY DEF PublishSide
<1>2. c.stage = d.stage
  BY <1>1 DEF StagesApart
<1>3. c.currency = d.currency
  BY DEF SeriesOf
<1>4. c.exponent = d.exponent
  BY <1>3 DEF ExponentsPinned
<1> QED
  BY <1>1, <1>2, <1>3, <1>4 DEF Combos

LEMMA GaugeByPublisher ==
    ASSUME StagesApart, PublishSide, ExponentsPinned, SnapshotInv, GaugeInv, NEW p \in Publishers,
           PublishBegin(p) \/ PublishStep(p)
    PROVE  GaugeInv'
<1>0. ppc[p] \notin {"idle", "ticked"}
        => publisher = p /\ \A q \in Publishers : q # p => ppc[q] \in {"idle", "ticked"}
  BY DEF SnapshotInv
<1>1. CASE PublishBegin(p)
  <2>1. \A q \in Publishers : ppc[q] \in {"idle", "ticked"}
    BY <1>1, TrackerAssumption DEF PublishBegin, Serialized, SnapshotInv
  <2>2. \A q \in Publishers : ppc'[q] # "emit"
    BY <1>1, <2>1 DEF PublishBegin, PublishSide
  <2>3. \A s \in Series : Shown(s)
    BY <2>1 DEF GaugeInv
  <2>4. \A s \in Series : Shown(s)'
    BY <1>1, <2>3 DEF PublishBegin, Shown
  <2> QED
    BY <1>1, <2>2, <2>4 DEF PublishBegin, GaugeInv
<1>2. ASSUME NEW s \in Shards, PublishLock(p, s) PROVE GaugeInv'
  <2>1. \A q \in Publishers : ppc[q] # "emit"
    BY <1>0, <1>2 DEF PublishLock
  <2>2. \A q \in Publishers : ppc'[q] # "emit"
    BY <1>2, <2>1 DEF PublishLock, PublishSide
  <2>3. \A x \in Series : Shown(x)'
    BY <1>2, <2>1 DEF PublishLock, Shown, GaugeInv
  <2> QED
    BY <1>2, <2>2, <2>3 DEF PublishLock, GaugeInv
<1>3. CASE PublishUnlock(p)
  <2>1. \A q \in Publishers : ppc[q] # "emit"
    BY <1>0, <1>3 DEF PublishUnlock
  <2>2. \A q \in Publishers : ppc'[q] = IF q = p THEN "emit" ELSE ppc[q]
    BY <1>3 DEF PublishUnlock, PublishSide
  <2>3. todo'[p] = CombosOf(snap[p]) \cup CombosOf(lastSnap)
    BY <1>3 DEF PublishUnlock, PublishSide, ToPublish, GaugeInv
  <2>4. ASSUME NEW s \in Series, ~ \E c \in todo'[p] : SeriesOf(c) = s PROVE Shown(s)'
    <3>1. Level(lastSnap, lastAsOf, CombosIn(s)) = Zero
      BY <2>3, <2>4, LevelZero DEF CombosOf, CombosIn
    <3>2. Level(snap[p], asOf[p], CombosIn(s)) = Zero
      BY <2>3, <2>4, LevelZero DEF CombosOf, CombosIn
    <3>3. gauge[s] = Level(lastSnap, lastAsOf, CombosIn(s))
      BY <2>1 DEF GaugeInv, Shown
    <3> QED
      BY <1>3, <3>1, <3>2, <3>3 DEF PublishUnlock, Shown, CombosIn
  <2>5. live' = CombosOf(lastSnap')
    BY <1>3 DEF PublishUnlock
  <2>6. \A q \in Publishers : ppc'[q] = "emit" => snap'[q] = lastSnap' /\ asOf'[q] = lastAsOf'
    BY <1>3, <2>1, <2>2 DEF PublishUnlock
  <2>7. \A s \in Series : Shown(s)' \/ \E q \in Publishers : ppc'[q] = "emit" /\ \E c \in todo'[q] : SeriesOf(c) = s
    BY <2>2, <2>4
  <2> QED
    BY <2>5, <2>6, <2>7 DEF GaugeInv
<1>4. ASSUME NEW c \in Combos, PublishEmit(p, c) PROVE GaugeInv'
  <2>1. c \in todo[p] /\ ppc[p] = "emit" /\ snap[p] = lastSnap /\ asOf[p] = lastAsOf
    BY <1>4 DEF PublishEmit, GaugeInv
  <2>2. UNCHANGED <<live, lastSnap, lastAsOf, ppc, snap, asOf>>
    BY <1>4 DEF PublishEmit
  <2>3. todo'[p] = todo[p] \ {c} /\ \A q \in Publishers : q # p => ppc[q] \in {"idle", "ticked"}
    BY <1>0, <1>4 DEF PublishEmit, PublishSide
  <2>4. Level(lastSnap, lastAsOf, {c}) = Level(lastSnap, lastAsOf, CombosIn(SeriesOf(c)))
    <3>1. \A k \in Keys : lastSnap[k] # NoItem => ComboOf(k, lastSnap[k]) \in live
      BY DEF GaugeInv, CombosOf
    <3>2. \A d \in live : d \in {c} <=> d \in CombosIn(SeriesOf(c))
      BY <2>1, SeriesIsCombo DEF PublishSide, CombosIn
    <3> QED
      BY <3>1, <3>2, LevelSame
  <2>5. ASSUME NEW s \in Series
        PROVE  Shown(s)' \/ \E q \in Publishers : ppc'[q] = "emit" /\ \E d \in todo'[q] : SeriesOf(d) = s
    <3>1. CASE s = SeriesOf(c)
      <4>1. gauge'[s] = Level(lastSnap, lastAsOf, {c})
        BY <1>4, <2>1, <3>1 DEF PublishEmit, PublishSide
      <4> QED
        BY <2>2, <2>4, <3>1, <4>1 DEF Shown, CombosIn
    <3>2. CASE s # SeriesOf(c) /\ Shown(s)
      <4>1. gauge'[s] = gauge[s]
        BY <1>4, <3>2 DEF PublishEmit, PublishSide
      <4> QED
        BY <2>2, <3>2, <4>1 DEF Shown, CombosIn
    <3>3. CASE s # SeriesOf(c) /\ ~ Shown(s)
      <4>1. \E d \in todo[p] : SeriesOf(d) = s
        BY <2>3, <3>3 DEF GaugeInv
      <4> QED
        BY <2>1, <2>2, <2>3, <3>3, <4>1
    <3> QED
      BY <3>1, <3>2, <3>3
  <2> QED
    BY <2>2, <2>5 DEF GaugeInv
<1>5. CASE PublishEnd(p)
  <2>1. \A s \in Series : Shown(s)
    BY <1>0, <1>5 DEF PublishEnd, GaugeInv
  <2>2. \A q \in Publishers : ppc'[q] # "emit"
    BY <1>0, <1>5 DEF PublishEnd, PublishSide
  <2>3. \A s \in Series : Shown(s)'
    BY <1>5, <2>1 DEF PublishEnd, Shown
  <2> QED
    BY <1>5, <2>2, <2>3 DEF PublishEnd, GaugeInv
<1> QED
  BY <1>1, <1>2, <1>3, <1>4, <1>5 DEF PublishStep
-----------------------------------------------------------------------------
(* The invariant *)

LEMMA InitIInv == Init => IInv /\ GaugeInv
<1> SUFFICES ASSUME Init PROVE IInv /\ GaugeInv
  OBVIOUS
<1>1. BoundTypes /\ Places
  BY PlacesAtInit
<1>2. WorkerSide
  BY DEF Init, WorkerSide
<1>3. PublishSide
  <2>1. Zero \in Levels
    BY DEF Zero, Levels
  <2> QED
    BY <2>1 DEF Init, PublishSide, Empty
<1>4. LifeInv
  <2>1. Loop \in Publishers
    BY DEF Publishers
  <2> QED
    BY <2>1 DEF Init, LifeInv
<1>5. ExponentsPinned /\ MissingCounted
  BY DEF Init, Empty, ExponentsPinned, MissingCounted, Tracked
<1>6. SnapshotInv
  <2>1. \A k \in Keys : ShardOf[k] \in Shards
    BY TrackerAssumption
  <2> QED
    BY <2>1, TrackerAssumption DEF Init, SnapshotInv
<1>7. GaugeInv
  <2>1. \A t, C : Level(Empty, t, C) = Zero
    BY LevelZero DEF Empty
  <2>2. CombosOf(Empty) = {}
    BY DEF CombosOf, Empty
  <2> QED
    BY <2>1, <2>2 DEF Init, GaugeInv, Shown
<1> QED
  BY <1>1, <1>2, <1>3, <1>4, <1>5, <1>6, <1>7 DEF IInv

\* Nothing but a publisher or a worker touches what the invariant is about.
LEMMA AsideKept ==
    ASSUME IInv, UNCHANGED <<items, holder, itemCount, overflow, rejected, pinned, wpc, op, expected,
                             publisher, live, ppc, asOf, snap, todo, gauge, lastSnap, lastAsOf>>,
           now' \in Instants, LifeInv'
    PROVE  IInv' /\ (GaugeInv => GaugeInv')
<1>1. BoundTypes' /\ Places'
  BY OthersPlaces DEF IInv, BoundTypes
<1>2. WorkerSide' /\ PublishSide'
  BY DEF IInv, WorkerSide, PublishSide
<1>3. ExponentsPinned' /\ SnapshotInv' /\ MissingCounted'
  BY DEF IInv, ExponentsPinned, SnapshotInv, MissingCounted, Tracked
<1>4. GaugeInv => GaugeInv'
  BY DEF GaugeInv, Shown
<1> QED
  BY <1>1, <1>2, <1>3, <1>4 DEF IInv

LEMMA StepIInv == IInv /\ [Next]_vars => IInv' /\ (StagesApart /\ GaugeInv => GaugeInv')
<1> SUFFICES ASSUME IInv, [Next]_vars PROVE IInv' /\ (StagesApart /\ GaugeInv => GaugeInv')
  OBVIOUS
<1>0. /\ BoundTypes /\ Places /\ WorkerSide /\ PublishSide /\ LifeInv
      /\ ExponentsPinned /\ SnapshotInv /\ MissingCounted
  BY DEF IInv
<1>1. ASSUME NEW w \in Workers, WorkerCall(w) \/ WorkerStep(w)
      PROVE  IInv' /\ (StagesApart /\ GaugeInv => GaugeInv')
  <2>1. BoundTypes' /\ Places'
    BY <1>0, <1>1, WorkerTypes, WorkerPlaces
  <2>2. WorkerSide' /\ MissingCounted'
    BY <1>0, <1>1, WorkerSideKept, MissingByWorker
  <2>3. ExponentsPinned' /\ SnapshotInv'
    BY <1>0, <1>1, PinnedByWorker, SnapshotByWorker
  <2>4. UNCHANGED <<now, publisher, live, ppc, asOf, snap, todo, gauge, lastSnap, lastAsOf,
                    started, loop, stopped, spc, closing, startedFirst>>
    BY <1>1, WorkerFrame
  <2>5. PublishSide' /\ LifeInv'
    BY <1>0, <2>4 DEF PublishSide, LifeInv
  <2>6. GaugeInv => GaugeInv'
    BY <2>4 DEF GaugeInv, Shown
  <2> QED
    BY <2>1, <2>2, <2>3, <2>5, <2>6 DEF IInv
<1>2. ASSUME NEW p \in Publishers, PublishBegin(p) \/ PublishStep(p)
      PROVE  IInv' /\ (StagesApart /\ GaugeInv => GaugeInv')
  <2>1. BoundTypes' /\ Places'
    BY <1>0, <1>2, OthersKeep, OthersMoveLocks, OthersPlaces
  <2>2. UNCHANGED <<items, overflow, rejected, pinned, expected>>
    BY <1>2, PublishFrame
  <2>3. WorkerSide' /\ MissingCounted'
    BY <1>0, <2>2 DEF WorkerSide, MissingCounted, Tracked
  <2>4. PublishSide' /\ LifeInv'
    BY <1>0, <1>2, PublishSideKept, LifeOfLoop
  <2>5. ExponentsPinned' /\ SnapshotInv'
    BY <1>0, <1>2, PinnedByPublisher, SnapshotByPublisher
  <2>6. StagesApart /\ GaugeInv => GaugeInv'
    BY <1>0, <1>2, GaugeByPublisher
  <2> QED
    BY <2>1, <2>3, <2>4, <2>5, <2>6 DEF IInv
<1>3. CASE LifeStep
  BY <1>0, <1>3, LifeKept, LifeFrame, AsideKept DEF PublishSide
<1>6. CASE LoopTick
  <2>1. /\ loop = "running" /\ Loop \in Publishers /\ ppc[Loop] = "idle"
        /\ ppc' = [ppc EXCEPT ![Loop] = "ticked"]
    BY <1>6 DEF LoopTick, Publishers
  <2>2. BoundTypes' /\ Places'
    BY <1>0, <1>6, LoopTickFrame, OthersPlaces DEF BoundTypes
  <2>3. WorkerSide' /\ MissingCounted' /\ ExponentsPinned'
    BY <1>0, <1>6, LoopTickFrame DEF WorkerSide, MissingCounted, ExponentsPinned, Tracked
  <2>4. PublishSide' /\ LifeInv'
    BY <1>0, <1>6, <2>1, LoopTickFrame DEF PublishSide, LifeInv
  <2>5. SnapshotInv'
    BY <1>0, <1>6, <2>1, LoopTickFrame DEF SnapshotInv, PublishSide
  <2>6. \A p \in Publishers : ppc'[p] = "emit" <=> ppc[p] = "emit"
    BY <1>0, <2>1 DEF PublishSide
  <2>7. GaugeInv => GaugeInv'
    BY <1>6, <2>6, LoopTickFrame DEF GaugeInv, Shown
  <2> QED
    BY <2>2, <2>3, <2>4, <2>5, <2>7 DEF IInv
<1>4. CASE Tick
  <2>1. now' \in Instants
    BY <1>4 DEF Tick
  <2>2. LifeInv'
    BY <1>0, <1>4, TickFrame DEF LifeInv
  <2> QED
    BY <1>4, <2>1, <2>2, TickFrame, AsideKept
<1>5. CASE UNCHANGED vars
  <2>1. UNCHANGED <<now, items, holder, itemCount, overflow, rejected, pinned, wpc, op, expected,
                    publisher, live, ppc, asOf, snap, todo, gauge, lastSnap, lastAsOf,
                    started, loop, stopped, spc, closing, startedFirst>>
    BY <1>5 DEF vars, counters, workerVars, publishVars, lifeVars
  <2>2. LifeInv'
    BY <1>0, <2>1 DEF LifeInv
  <2>3. now' \in Instants
    BY <1>0, <2>1 DEF PublishSide
  <2> QED
    BY <2>1, <2>2, <2>3, AsideKept
<1> QED
  BY <1>1, <1>2, <1>3, <1>4, <1>5, <1>6, StepKinds

LEMMA TrackerInvariant == Spec => []IInv
  BY InitIInv, StepIInv, PTL DEF Spec

\* The counter's bound: beyond the granted places, one for each worker that
\* is about to give its place back.
LEMMA CounterBounded ==
    ASSUME BoundTypes, Places
    PROVE  itemCount \in 0 .. MaxItems + Cardinality(Workers)
<1>1. IsFiniteSet(Tracked)
  BY TrackerAssumption, FS_Subset DEF Tracked
<1>2. Cardinality(At("rollback")) <= Cardinality(Workers)
  <2>1. At("rollback") \subseteq Workers
    BY DEF At
  <2> QED
    BY <2>1, TrackerAssumption, FS_Subset
<1>3. Cardinality(Workers) \in Nat
  BY TrackerAssumption, FS_CardinalityType
<1> QED
  BY <1>1, <1>2, <1>3, FS_CardinalityType, CrowdSizes, TrackerAssumption DEF Places

\* Whatever workers, publishers, Start and Close do in whichever order, each
\* variable keeps its type, and the counter never shows more than the bound
\* plus the reservations that are about to be rolled back.
THEOREM TrackerTypes == Spec => []TypeOK
<1>1. IInv => TypeOK
  BY CounterBounded DEF IInv, BoundTypes, WorkerPhases, WorkerSide, PublishSide, LifeInv, TypeOK
<1> QED
  BY <1>1, TrackerInvariant, PTL

\* Where no two tracked stages share a label, what the gauges say is the last
\* consistent snapshot of the set, in one exponent for each currency, and what
\* the set leaves out is counted.
THEOREM GaugesTellTheTruth ==
    ASSUME StagesApart
    PROVE  Spec => []GaugesTruthful
<1>1. IInv /\ GaugeInv => GaugesTruthful
  <2> SUFFICES ASSUME IInv, GaugeInv PROVE GaugesTruthful
    OBVIOUS
  <2>1. \A k \in Tracked : items[k].money.exponent = pinned[items[k].money.currency]
    BY DEF IInv, ExponentsPinned
  <2>2. ASSUME NEW p \in Publishers, ppc[p] = "locked" PROVE snap[p] = items
    <3>1. \A k \in Keys : snap[p][k] = items[k]
      BY <2>2, TrackerAssumption DEF IInv, SnapshotInv
    <3> QED
      BY <3>1 DEF IInv, BoundTypes, PublishSide
  <2>3. ASSUME publisher = Nobody, NEW s \in Series
        PROVE  gauge[s] = Level(lastSnap, lastAsOf, {c \in Combos : SeriesOf(c) = s})
    <3>1. \A p \in Publishers : ppc[p] # "emit"
      BY <2>3, TrackerAssumption DEF IInv, SnapshotInv
    <3> QED
      BY <3>1, Zenon DEF GaugeInv, Shown, CombosIn
  <2> QED
    BY <2>1, <2>2, <2>3 DEF IInv, MissingCounted, GaugesTruthful
<1>2. IInv /\ GaugeInv /\ [Next]_vars => IInv' /\ GaugeInv'
  BY StepIInv
<1> QED
  BY <1>1, <1>2, InitIInv, PTL DEF Spec

\* No step of any worker makes a tracked message look younger than it did.
THEOREM NeverYounger == Spec => BacklogNeverYounger
<1> DEFINE Older == \A k \in Keys : items[k] # NoItem /\ items'[k] # NoItem
                       => items'[k].enqueuedAt <= items[k].enqueuedAt
<1>1. ASSUME IInv, [Next]_vars PROVE Older
  <2>0. BoundTypes /\ Places
    BY <1>1 DEF IInv
  <2>1. \A k \in Keys : items[k] # NoItem => items[k] \in Item /\ items[k].enqueuedAt \in Nat
    BY <2>0, TrackerAssumption DEF BoundTypes, Item
  <2>2. CASE items' = items
    BY <2>1, <2>2
  <2>3. ASSUME NEW w \in Workers, TrackUpdate(w) PROVE Older
    <3>1. op[w].key \in Keys /\ op[w].item \in Item /\ items[op[w].key] # NoItem
      BY <2>0, <2>3 DEF TrackUpdate, Places, Call
    <3>2. op[w].item.enqueuedAt \in Nat
      BY <3>1, TrackerAssumption DEF Item
    <3>3. Retracked(op[w].key, op[w].item).enqueuedAt <= items[op[w].key].enqueuedAt
      BY <2>1, <3>1, <3>2 DEF Retracked, Item
    <3>4. \A k \in Keys : items'[k] = IF k = op[w].key THEN Retracked(op[w].key, op[w].item) ELSE items[k]
      BY <2>0, <2>3 DEF TrackUpdate, BoundTypes
    <3> QED
      BY <2>1, <3>3, <3>4
  <2>4. ASSUME NEW w \in Workers, TrackInsert(w) PROVE Older
    <3>1. items[op[w].key] = NoItem
      BY <2>0, <2>4 DEF TrackInsert, Places
    <3>2. \A k \in Keys : k # op[w].key => items'[k] = items[k]
      BY <2>0, <2>4 DEF TrackInsert, BoundTypes
    <3> QED
      BY <2>1, <3>1, <3>2
  <2>5. ASSUME NEW w \in Workers, NEW k \in Keys, DoneRemove(w, k) PROVE Older
    <3>1. \A j \in Keys : items'[j] = IF j = k THEN NoItem ELSE items[j]
      BY <2>0, <2>5 DEF DoneRemove, BoundTypes
    <3> QED
      BY <2>1, <3>1
  <2>6. ASSUME NEW w \in Workers, WorkerCall(w) \/ WorkerStep(w) PROVE Older
    BY <2>2, <2>3, <2>4, <2>5, <2>6 DEF WorkerCall, WorkerStep, TrackInvalid, TrackNewCurrency,
       TrackKnownCurrency, TrackMismatch, TrackPin, TrackPinLost, TrackReserve, TrackRollback,
       DoneRelease, DoneUnknown
  <2>7. UNCHANGED vars => items' = items
    BY DEF vars
  <2> HIDE DEF Older
  <2> QED
    BY <1>1, <2>2, <2>6, <2>7, PublishFrame, LifeFrame, LoopTickFrame, TickFrame, StepKinds
<1>2. IInv /\ [Next]_vars => [Older]_vars
  BY <1>1
<1> QED
  BY <1>2, TrackerInvariant, PTL DEF Spec, BacklogNeverYounger

\* When Close returns, the loop it had to stop has exited and left no Publish
\* behind, and a Start that comes later starts no other.
THEOREM LoopEndsFirst == Spec => []LoopEnded
<1>1. IInv => LoopEnded
  BY DEF IInv, LifeInv, LoopEnded
<1> QED
  BY <1>1, TrackerInvariant, PTL
=============================================================================
