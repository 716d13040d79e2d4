-------------------------- MODULE InFlightTracker --------------------------
(***************************************************************************)
(* The in-flight tracker (src/emit/inflight.go, type InFlightTracker).     *)
(* Worker goroutines Track and Done messages in a set that is sharded by   *)
(* message id and bounded by one atomic counter; publishers snapshot all   *)
(* shards and set the in-flight gauges of every combo that has, or until   *)
(* the last snapshot had, messages.                                        *)
(*                                                                         *)
(* A step is what one goroutine does between two operations other          *)
(* goroutines can observe: an atomic load or add, taking a shard lock,     *)
(* releasing it.  The two gauges of a series and bucket are the sum and    *)
(* the number of a set of messages, and are modelled by that set.          *)
(***************************************************************************)
EXTENDS Integers, FiniteSets

CONSTANTS
    Workers,       \* goroutines calling Track and Done
    PublishCallers, Loop, \* goroutines calling Publish, the publish loop
    Starters,      \* goroutines calling Start
    Keys,          \* (flow, stage, id) of the messages
    ShardCount,    \* trackerShards
    ShardOf,       \* key -> shard of its id
    StageOf,       \* key -> its (flow, stage)
    Registered,    \* the (flow, stage) pairs of the registry
    Unregistered,  \* the label of every other one
    Moneys,        \* valid money: amount, currency, exponent
    Instants,      \* the minutes the clock and enqueue timestamps show
    MaxItems,      \* WithTrackerMaxItems
    MaxRefused,    \* bound of the model: Track calls refused in a behaviour
    InvalidMoney,  \* whether a Track may carry invalid money
    NoItem, NoOp, NoExponent, Nobody

Publishers == PublishCallers \cup {Loop}
Shards     == 1 .. ShardCount
Currencies == {m.currency : m \in Moneys}
Exponents  == {m.exponent : m \in Moneys}
Stages     == {StageOf[k] : k \in Keys}

ASSUME TrackerAssumption ==
    /\ ShardCount \in Nat \ {0} /\ MaxItems \in Nat \ {0} /\ MaxRefused \in Nat
    /\ ShardOf \in [Keys -> Shards]
    /\ IsFiniteSet(Workers) /\ IsFiniteSet(Keys)
    /\ Instants \subseteq Nat
    /\ \A m \in Moneys : {"amount", "currency", "exponent"} = DOMAIN m
    /\ Workers \cap Publishers = {} /\ Nobody \notin Workers \cup Publishers
    /\ Loop \notin PublishCallers
    /\ NoExponent \notin Exponents
    /\ InvalidMoney \in BOOLEAN

Item   == [money : Moneys, enqueuedAt : Instants]
Call   == [key : Keys, item : Item]
Combos == [stage : Stages, currency : Currencies, exponent : Exponents]
Series == [stage : Registered \cup {Unregistered}, currency : Currencies]

ASSUME PlaceholderAssumption == NoItem \notin Item /\ NoOp \notin Call

VARIABLES
    now,        \* the clock
    items,      \* the shards' maps: key -> its item, or NoItem
    holder,     \* shard -> who holds its lock
    itemCount, overflow, rejected,  \* the atomic counters
    pinned,     \* exponents: currency -> its pinned exponent
    wpc, op,    \* worker -> where it is in Track or Done, what it tracks
    publisher,  \* who holds publishMu
    live,       \* combos to zero once when they empty
    ppc,        \* publisher -> where it is in Publish
    asOf, snap, todo, \* publisher -> its time, snapshot, combos to publish
    gauge,      \* series -> bucket -> the messages its level stands for
    started, loop, stopped,  \* Start's flag, the publish loop, stop is closed
    spc, closing, \* starter -> where it is in Start; where Close is
    expected,   \* history: messages Track returned for and Done did not
    lastSnap, lastAsOf, \* history: the last snapshot taken
    startedFirst \* history: a Start had returned when Close was called

counters   == <<itemCount, overflow, rejected>>
workerVars == <<wpc, op, expected>>
publishVars == <<publisher, live, ppc, asOf, snap, todo, gauge, lastSnap, lastAsOf>>
lifeVars   == <<started, loop, stopped, spc, closing, startedFirst>>
vars == <<now, items, holder, counters, pinned, workerVars, publishVars, lifeVars>>

Tracked == {k \in Keys : items[k] # NoItem}
Empty   == [k \in Keys |-> NoItem]

AgeBuckets == {"lt1m", "1m-5m", "5m-30m", "30m-2h", "gt2h"}

\* Minutes to bucket; a negative age (clock skew) counts as the youngest.
AgeBucketFor(age) ==
    CASE age < 1 -> "lt1m" [] age \in 1 .. 4 -> "1m-5m" [] age \in 5 .. 29 -> "5m-30m"
      [] age \in 30 .. 119 -> "30m-2h" [] OTHER -> "gt2h"

ComboOf(k, item) == [stage |-> StageOf[k], currency |-> item.money.currency,
                     exponent |-> item.money.exponent]
CombosOf(set)    == {ComboOf(k, set[k]) : k \in {j \in Keys : set[j] # NoItem}}

\* flowStageLabels: a name outside the registry gets the fixed label.
SeriesOf(combo) == [stage |-> IF combo.stage \in Registered THEN combo.stage ELSE Unregistered,
                    currency |-> combo.currency]

\* The level of each bucket: the messages of the given combos at time t.
Level(set, t, combos) ==
    [b \in AgeBuckets |->
        {<<k, set[k].money.amount>> : k \in {j \in Keys :
            /\ set[j] # NoItem
            /\ ComboOf(j, set[j]) \in combos
            /\ AgeBucketFor(t - set[j].enqueuedAt) = b}}]

Zero == [b \in AgeBuckets |-> {}]

Init ==
    /\ now \in Instants
    /\ items = Empty
    /\ holder = [s \in Shards |-> Nobody]
    /\ itemCount = 0 /\ overflow = 0 /\ rejected = 0
    /\ pinned = [c \in Currencies |-> NoExponent]
    /\ wpc = [w \in Workers |-> "idle"] /\ op = [w \in Workers |-> NoOp]
    /\ publisher = Nobody /\ live = {}
    /\ ppc = [p \in Publishers |-> "idle"] /\ asOf = [p \in Publishers |-> now]
    /\ snap = [p \in Publishers |-> Empty] /\ todo = [p \in Publishers |-> {}]
    /\ gauge = [s \in Series |-> Zero]
    /\ started = FALSE /\ loop = "none" /\ stopped = FALSE
    /\ spc = [s \in Starters |-> "idle"] /\ closing = "open"
    /\ expected = {} /\ lastSnap = Empty /\ lastAsOf = now
    /\ startedFirst = FALSE
-----------------------------------------------------------------------------
(* Track *)

Rest == <<now, publishVars, lifeVars>>

\* A worker with no call in progress makes the next one.
Idle(w) == wpc[w] = "idle"
Free(w) == Idle(w) /\ overflow + rejected < MaxRefused

Goto(w, where) == wpc' = [wpc EXCEPT ![w] = where]
Finish(w)      == wpc' = [wpc EXCEPT ![w] = "idle"] /\ op' = [op EXCEPT ![w] = NoOp]

\* Track with invalid money: counted, nothing else.
TrackInvalid(w, k) ==
    /\ InvalidMoney
    /\ Free(w)
    /\ rejected' = rejected + 1
    /\ expected' = expected \cup {k}
    /\ UNCHANGED <<items, holder, itemCount, overflow, pinned, wpc, op, Rest>>

\* Track: exponents.Load misses, the currency is new.
TrackNewCurrency(w, k, item) ==
    /\ Free(w)
    /\ pinned[item.money.currency] = NoExponent
    /\ op' = [op EXCEPT ![w] = [key |-> k, item |-> item]]
    /\ Goto(w, "pin")
    /\ UNCHANGED <<items, holder, counters, pinned, expected, Rest>>

\* Track: exponents.Load finds the exponent the money has.
TrackKnownCurrency(w, k, item) ==
    /\ Free(w)
    /\ pinned[item.money.currency] = item.money.exponent
    /\ op' = [op EXCEPT ![w] = [key |-> k, item |-> item]]
    /\ Goto(w, "lock")
    /\ UNCHANGED <<items, holder, counters, pinned, expected, Rest>>

\* Track: exponents.Load finds another exponent.
TrackMismatch(w, k, item) ==
    /\ Free(w)
    /\ pinned[item.money.currency] \notin {NoExponent, item.money.exponent}
    /\ rejected' = rejected + 1
    /\ expected' = expected \cup {k}
    /\ UNCHANGED <<items, holder, itemCount, overflow, pinned, wpc, op, Rest>>

LoadOrStore(currency, exponent) ==
    IF pinned[currency] = NoExponent THEN exponent ELSE pinned[currency]

\* Track: LoadOrStore pins the exponent unless another worker was faster.
TrackPin(w) ==
    LET money == op[w].item.money
    IN  /\ wpc[w] = "pin"
        /\ pinned' = [pinned EXCEPT ![money.currency] = LoadOrStore(money.currency, money.exponent)]
        /\ pinned'[money.currency] = money.exponent
        /\ Goto(w, "lock")
        /\ UNCHANGED <<items, holder, counters, op, expected, Rest>>

\* Track: LoadOrStore returns the different exponent of a faster worker.
TrackPinLost(w) ==
    LET money == op[w].item.money
    IN  /\ wpc[w] = "pin"
        /\ LoadOrStore(money.currency, money.exponent) # money.exponent
        /\ rejected' = rejected + 1
        /\ expected' = expected \cup {op[w].key}
        /\ Finish(w)
        /\ UNCHANGED <<items, holder, itemCount, overflow, pinned, Rest>>

Lock(w, k)   == holder[ShardOf[k]] = Nobody /\ holder' = [holder EXCEPT ![ShardOf[k]] = w]
Unlock(w, k) == holder' = [holder EXCEPT ![ShardOf[k]] = Nobody]

\* Mutant of Retracked: the retry's own timestamp is kept.
RetrackedAfresh(k, item) == item

\* The oldest enqueue time seen, the latest money.
Retracked(k, item) ==
    [item EXCEPT !.enqueuedAt =
        IF items[k].enqueuedAt < @ THEN items[k].enqueuedAt ELSE @]

\* Track of a message the set has: one critical section of its shard.
TrackUpdate(w) ==
    LET k == op[w].key
    IN  /\ wpc[w] = "lock" /\ holder[ShardOf[k]] = Nobody
        /\ items[k] # NoItem
        /\ items' = [items EXCEPT ![k] = Retracked(k, op[w].item)]
        /\ expected' = expected \cup {k}
        /\ Finish(w)
        /\ UNCHANGED <<holder, counters, pinned, Rest>>

\* Mutant of Fits: the counter is compared before the addition.
FitsOffByOne == itemCount <= MaxItems

\* itemCount.Add(1) stays within the bound.
Fits == itemCount + 1 <= MaxItems

\* Track of a new message: its shard's lock is taken and a place reserved,
\* which the bound grants or refuses.
TrackReserve(w) ==
    LET k == op[w].key
    IN  /\ wpc[w] = "lock" /\ Lock(w, k)
        /\ items[k] = NoItem
        /\ itemCount' = itemCount + 1
        /\ IF Fits THEN Goto(w, "insert") ELSE Goto(w, "rollback")
        /\ UNCHANGED <<items, overflow, rejected, pinned, op, expected, Rest>>

TrackInsert(w) ==
    LET k == op[w].key
    IN  /\ wpc[w] = "insert"
        /\ items' = [items EXCEPT ![k] = op[w].item]
        /\ Unlock(w, k)
        /\ expected' = expected \cup {k}
        /\ Finish(w)
        /\ UNCHANGED <<counters, pinned, Rest>>

\* Mutant of RolledBack: a refused Track keeps its place.
RolledBackNever == itemCount

RolledBack == itemCount - 1
Refused    == overflow + 1

\* The place is given back, the refusal counted, the lock released.
TrackRollback(w) ==
    LET k == op[w].key
    IN  /\ wpc[w] = "rollback"
        /\ itemCount' = RolledBack /\ overflow' = Refused
        /\ Unlock(w, k)
        /\ expected' = expected \cup {k}
        /\ Finish(w)
        /\ UNCHANGED <<items, rejected, pinned, Rest>>
-----------------------------------------------------------------------------
(* Done *)

\* Done of a message the set has: the message goes first, its place after.
DoneRemove(w, k) ==
    /\ Idle(w)
    /\ items[k] # NoItem
    /\ Lock(w, k)
    /\ op' = [op EXCEPT ![w] = [key |-> k, item |-> items[k]]]
    /\ items' = [items EXCEPT ![k] = NoItem]
    /\ expected' = expected \ {k}
    /\ Goto(w, "release")
    /\ UNCHANGED <<counters, pinned, Rest>>

DoneRelease(w) ==
    /\ wpc[w] = "release"
    /\ itemCount' = itemCount - 1
    /\ Unlock(w, op[w].key)
    /\ Finish(w)
    /\ UNCHANGED <<items, overflow, rejected, pinned, expected, Rest>>

\* Mutant of DoneUnknown: the place is given back although none was taken.
DoneUnknownReleasing(w, k) ==
    /\ Idle(w)
    /\ items[k] = NoItem /\ holder[ShardOf[k]] = Nobody
    /\ expected' = expected \ {k}
    /\ itemCount' = itemCount - 1
    /\ UNCHANGED <<items, holder, overflow, rejected, pinned, wpc, op, Rest>>

\* Done of any other message does nothing.
DoneUnknown(w, k) ==
    /\ Idle(w)
    /\ items[k] = NoItem /\ holder[ShardOf[k]] = Nobody
    /\ expected' = expected \ {k}
    /\ UNCHANGED <<items, holder, counters, pinned, wpc, op, Rest>>

WorkerCall(w) ==
    \E k \in Keys :
        \/ TrackInvalid(w, k) \/ DoneRemove(w, k) \/ DoneUnknown(w, k)
        \/ \E item \in Item : \/ TrackNewCurrency(w, k, item)
                              \/ TrackKnownCurrency(w, k, item)
                              \/ TrackMismatch(w, k, item)

WorkerStep(w) == \/ TrackPin(w) \/ TrackPinLost(w) \/ TrackUpdate(w) \/ TrackReserve(w)
                 \/ TrackInsert(w) \/ TrackRollback(w) \/ DoneRelease(w)
-----------------------------------------------------------------------------
(* Publish *)

Aside == <<now, items, counters, pinned, workerVars, lifeVars>>

\* Mutant of Serialized: there is no publishMu.
SerializedNever == TRUE

\* publishMu is free.
Serialized == publisher = Nobody

\* A caller calls Publish at any time, the loop after a tick.
Calls(p) == ppc[p] = IF p = Loop THEN "ticked" ELSE "idle"

\* Publish: publishMu is taken, the clock read.
PublishBegin(p) ==
    /\ Calls(p) /\ Serialized
    /\ publisher' = p
    /\ asOf' = [asOf EXCEPT ![p] = now]
    /\ ppc' = [ppc EXCEPT ![p] = "locking"]
    /\ UNCHANGED <<Aside, holder, live, snap, todo, gauge, lastSnap, lastAsOf>>

ReadBy(p)  == {s \in Shards : holder[s] = p}
Missing(p) == Shards \ ReadBy(p)

Locked(p, s) == [holder EXCEPT ![s] = p]

\* Publish takes the shards' locks in index order.  A shard is read here: its
\* items stay as they are until every lock is held and released again.
PublishLock(p, s) ==
    /\ ppc[p] = "locking"
    /\ s \in Missing(p) /\ \A t \in Missing(p) : s <= t
    /\ holder[s] = Nobody
    /\ holder' = Locked(p, s)
    /\ snap' = [snap EXCEPT ![p] = [k \in Keys |-> IF ShardOf[k] = s THEN items[k] ELSE @[k]]]
    /\ ppc' = [ppc EXCEPT ![p] = IF s = ShardCount THEN "locked" ELSE "locking"]
    /\ UNCHANGED <<Aside, publisher, live, asOf, todo, gauge, lastSnap, lastAsOf>>

\* Mutant of ToPublish: a combo that emptied is forgotten at once.
ToPublishNonEmpty(combos) == combos

\* Every combo with messages, and every live one without: it is zeroed once.
ToPublish(combos) == combos \cup live

\* Publish releases all locks and settles what to publish and what stays live.
PublishUnlock(p) ==
    /\ ppc[p] = "locked"
    /\ holder' = [s \in Shards |-> IF holder[s] = p THEN Nobody ELSE holder[s]]
    /\ todo' = [todo EXCEPT ![p] = ToPublish(CombosOf(snap[p]))]
    /\ live' = CombosOf(snap[p])
    /\ lastSnap' = snap[p] /\ lastAsOf' = asOf[p]
    /\ ppc' = [ppc EXCEPT ![p] = "emit"]
    /\ UNCHANGED <<Aside, publisher, asOf, snap, gauge>>

\* SetInFlight for every bucket of one combo; a backend applies the samples of
\* a series in this order, the order of their times.
PublishEmit(p, combo) ==
    /\ ppc[p] = "emit" /\ combo \in todo[p]
    /\ gauge' = [gauge EXCEPT ![SeriesOf(combo)] = Level(snap[p], asOf[p], {combo})]
    /\ todo' = [todo EXCEPT ![p] = @ \ {combo}]
    /\ UNCHANGED <<Aside, holder, publisher, live, ppc, asOf, snap, lastSnap,
                   lastAsOf>>

PublishEnd(p) ==
    /\ ppc[p] = "emit" /\ todo[p] = {}
    /\ publisher' = Nobody
    /\ snap' = [snap EXCEPT ![p] = Empty]
    /\ ppc' = [ppc EXCEPT ![p] = "idle"]
    /\ UNCHANGED <<Aside, holder, live, asOf, todo, gauge, lastSnap, lastAsOf>>

PublishStep(p) == \/ \E s \in Shards : PublishLock(p, s)
                  \/ PublishUnlock(p)
                  \/ \E combo \in Combos : PublishEmit(p, combo)
                  \/ PublishEnd(p)
-----------------------------------------------------------------------------
(* Start and Close *)

works == <<now, items, holder, counters, pinned, workerVars, publishVars>>

NotStarted == ~ started

\* Start claims the loop under stateMu; it runs only after that.
StartClaim(s) ==
    /\ spc[s] = "idle" /\ NotStarted
    /\ started' = TRUE
    /\ spc' = [spc EXCEPT ![s] = "spawn"]
    /\ UNCHANGED <<loop, stopped, closing, startedFirst, works>>

\* A second Start changes nothing.
StartAgain(s) ==
    /\ spc[s] = "idle" /\ started
    /\ spc' = [spc EXCEPT ![s] = "returned"]
    /\ UNCHANGED <<started, loop, stopped, closing, startedFirst, works>>

\* wg.Add and go: the loop runs, even when Close was called meanwhile.
StartSpawn(s) ==
    /\ spc[s] = "spawn"
    /\ loop' = "running"
    /\ spc' = [spc EXCEPT ![s] = "returned"]
    /\ UNCHANGED <<started, stopped, closing, startedFirst, works>>

\* The loop picks a tick, also when stop is closed already, and waits for
\* publishMu from then on.
LoopTick ==
    /\ loop = "running" /\ ppc[Loop] = "idle"
    /\ ppc' = [ppc EXCEPT ![Loop] = "ticked"]
    /\ UNCHANGED <<Aside, holder, publisher, live, asOf, snap, todo, gauge, lastSnap, lastAsOf>>

\* Mutant of StopSeen: the loop only looks at the ticker.
StopUnseen == FALSE

\* The loop's select finds stop closed.
StopSeen == stopped

LoopExit ==
    /\ loop = "running" /\ ppc[Loop] = "idle"
    /\ StopSeen
    /\ loop' = "exited"
    /\ UNCHANGED <<started, stopped, spc, closing, startedFirst, works>>

\* Close closes stop.
CloseBegin ==
    /\ closing = "open"
    /\ stopped' = TRUE /\ closing' = "wait"
    /\ startedFirst' = (loop # "none")
    /\ UNCHANGED <<started, loop, spc, works>>

\* wg.Wait returns.
LoopDone == loop # "running"

CloseReturn ==
    /\ closing = "wait" /\ LoopDone
    /\ closing' = "closed"
    /\ UNCHANGED <<started, loop, stopped, spc, startedFirst, works>>

Tick == /\ \E t \in Instants : t > now /\ now' = t
        /\ UNCHANGED <<items, holder, counters, pinned, workerVars, publishVars, lifeVars>>

Next == \/ \E w \in Workers : WorkerCall(w) \/ WorkerStep(w)
        \/ \E p \in Publishers : PublishBegin(p) \/ PublishStep(p)
        \/ \E s \in Starters : StartClaim(s) \/ StartAgain(s) \/ StartSpawn(s)
        \/ LoopTick \/ LoopExit \/ CloseBegin \/ CloseReturn
        \/ Tick

Spec == Init /\ [][Next]_vars

\* A goroutine in a call goes on; a mutex that is freed again and again goes to
\* everyone who waits for it (sync.Mutex's starvation mode); the ticker ticks,
\* and select picks stop eventually when both its cases stay ready.
FairSpec ==
    /\ Spec
    /\ \A w \in Workers : SF_vars(WorkerStep(w))
    /\ \A p \in Publishers : SF_vars(PublishStep(p))
    /\ SF_vars(LoopTick) /\ SF_vars(PublishBegin(Loop)) /\ SF_vars(LoopExit) /\ WF_vars(CloseReturn)
    /\ \A s \in Starters : WF_vars(StartSpawn(s))
-----------------------------------------------------------------------------
(* Properties *)

Levels == [AgeBuckets -> SUBSET (Keys \X {m.amount : m \in Moneys})]

TypeOK ==
    /\ now \in Instants
    /\ items \in [Keys -> Item \cup {NoItem}]
    /\ holder \in [Shards -> Workers \cup Publishers \cup {Nobody}]
    /\ itemCount \in 0 .. MaxItems + Cardinality(Workers) /\ overflow \in Nat /\ rejected \in Nat
    /\ pinned \in [Currencies -> Exponents \cup {NoExponent}]
    /\ wpc \in [Workers -> {"idle", "pin", "lock", "insert", "rollback", "release"}]
    /\ op \in [Workers -> Call \cup {NoOp}]
    /\ publisher \in Publishers \cup {Nobody} /\ live \subseteq Combos
    /\ ppc \in [Publishers -> {"idle", "ticked", "locking", "locked", "emit"}]
    /\ asOf \in [Publishers -> Instants]
    /\ snap \in [Publishers -> [Keys -> Item \cup {NoItem}]]
    /\ todo \in [Publishers -> SUBSET Combos]
    /\ gauge \in [Series -> Levels]
    /\ started \in BOOLEAN /\ loop \in {"none", "running", "exited"} /\ stopped \in BOOLEAN
    /\ spc \in [Starters -> {"idle", "spawn", "returned"}]
    /\ closing \in {"open", "wait", "closed"}
    /\ expected \subseteq Keys
    /\ lastSnap \in [Keys -> Item \cup {NoItem}] /\ lastAsOf \in Instants
    /\ startedFirst \in BOOLEAN

At(where) == {w \in Workers : wpc[w] = where}

\* The inductive strengthening of the next two: a place is counted from its
\* reservation to its release, the granted ones stay within the bound, and a
\* worker that has reserved or removed holds its message's shard.
Places ==
    LET granted == Cardinality(Tracked) + Cardinality(At("insert")) + Cardinality(At("release"))
    IN  /\ itemCount = granted + Cardinality(At("rollback"))
        /\ granted <= MaxItems
        /\ \A w \in Workers :
              /\ wpc[w] # "idle" => op[w] \in Call
              /\ wpc[w] \in {"insert", "rollback", "release"} => holder[ShardOf[op[w].key]] = w
              /\ wpc[w] = "insert" => items[op[w].key] = NoItem

\* The bound is exact under concurrency: reservations in other shards never
\* let one message too many in (Track: "The bound stays EXACT").
BoundExact == Cardinality(Tracked) <= MaxItems

\* No place is lost: when no worker is between a counter and a map, the
\* counter is the size of the set (Track's roll-back, Done's release).
NoPlaceLeaked ==
    At("insert") \cup At("rollback") \cup At("release") = {}
        => itemCount = Cardinality(Tracked)

\* A retry never makes the backlog look younger, in whichever order two
\* workers re-track a message (Track: "retries never rejuvenate backlog").
BacklogNeverYounger ==
    [][\A k \in Keys : items[k] # NoItem /\ items'[k] # NoItem
          => items'[k].enqueuedAt <= items[k].enqueuedAt]_vars

\* What the gauges say can be relied on.  Amounts under one series are
\* comparable, whichever worker won the race for a new currency; a message the
\* caller believes tracked and the set leaves out is counted; a snapshot is the
\* set at one instant, although it is read shard by shard; and between two
\* Publish calls every gauge shows exactly the last one, so no older snapshot
\* overtakes it and a series whose messages all left reads zero (field
\* exponents, Rejected, Publish: "ONE consistent snapshot", "the stale level
\* would win", "zeroed one final time").
GaugesTruthful ==
    /\ \A k \in Tracked : items[k].money.exponent = pinned[items[k].money.currency]
    /\ expected \subseteq Tracked \/ overflow + rejected > 0
    /\ \A p \in Publishers : ppc[p] = "locked" => snap[p] = items
    /\ publisher = Nobody =>
         \A s \in Series :
             gauge[s] = Level(lastSnap, lastAsOf, {c \in Combos : SeriesOf(c) = s})

\* A loop that ran when Close was called has ended when Close returns, and is
\* not in the middle of a Publish.
LoopEnded == closing = "closed" /\ startedFirst => loop = "exited" /\ ppc[Loop] = "idle"

\* Close returns whatever workers do with the shard locks, and has then ended
\* a loop started before, which is not in the middle of a Publish (Close:
\* "stops the publish loop").
CloseReturns ==
    /\ closing = "wait" ~> closing = "closed"
    /\ []LoopEnded

\* With the loop running, a message that has left for good leaves the gauges.
LeftMessagesLeaveGauges ==
    \A k \in Keys :
        []<>(loop # "running") \/ []<>(items[k] # NoItem)
        \/ <>[](\A s \in Series, b \in AgeBuckets : \A e \in gauge[s][b] : e[1] # k)
=============================================================================
