--------------------------- MODULE MoneyPathProofs --------------------------
(***************************************************************************)
(* Proofs about Reconcile's walk over the provider's list, for any number  *)
(* of payments and any size of a page, while payments are created and      *)
(* settle between two pages; about the severity a report suggests; and     *)
(* about the sums of a report: the realized loss and its bounds, the level *)
(* of the in-flight gauge, and the coverage of the walked books.           *)
(***************************************************************************)
EXTENDS MoneyPath, FiniteSetTheorems, WellFoundedInduction, TLAPS

Reading == [payment : Payments, as : SUBSET {"success", "deferred", "failed"}]

Intent == [status : {"none", "requires_payment_method", "processing", "succeeded"}, error : BOOLEAN]

\* The list names each payment once, and only payments the provider knows.
ListInv ==
    /\ intents \in [Payments -> Intent]
    /\ created \in Seq(Payments)
    /\ \A i, j \in DOMAIN created : created[i] = created[j] => i = j
    /\ \A i \in DOMAIN created : intents[created[i]].status # "none"

\* A walk that listed the first n payments of the list has read them from the
\* newest down to its cursor.
ReadDown(n) ==
    /\ walk.listed = {created[i] : i \in 1 .. n}
    /\ Len(walk.read) <= n
    /\ \A i \in 1 .. Len(walk.read) : walk.read[i].payment = created[n + 1 - i]
    /\ walk.phase = "done" => Len(walk.read) = n
    /\ walk.phase = "paging" => /\ Len(walk.read) > 0 /\ Len(walk.read) < n
                                /\ walk.cursor = created[n + 1 - Len(walk.read)]

WalkInv ==
    /\ walk.phase \in {"idle", "paging", "done", "failed"}
    /\ walk.read \in Seq(Reading)
    /\ walk.phase = "idle" => walk.read = <<>> /\ walk.cursor = NoOne
    /\ walk.phase \in {"paging", "done"} => \E n \in 0 .. Len(created) : ReadDown(n)

LEMMA MinOfTwo ==
    ASSUME NEW a \in Nat, NEW b \in Nat
    PROVE  Min({a, b}) = IF a <= b THEN a ELSE b
  <1> DEFINE m == IF a <= b THEN a ELSE b
  <1>1. m \in {a, b} /\ \A y \in {a, b} : m <= y OBVIOUS
  <1>2. \A x \in {a, b} : (\A y \in {a, b} : x <= y) => x = m OBVIOUS
  <1> QED BY <1>1, <1>2 DEF Min

\* The list, newest first.
LEMMA NewestFirst ==
    ASSUME ListInv
    PROVE  /\ Reverse(created) \in Seq(Payments) /\ Len(Reverse(created)) = Len(created)
           /\ \A k \in 1 .. Len(created) : Reverse(created)[k] = created[Len(created) + 1 - k]
  <1>1. Len(created) \in Nat /\ DOMAIN created = 1 .. Len(created) BY DEF ListInv
  <1>2. \A k \in 1 .. Len(created) : (Len(created) - k) + 1 \in 1 .. Len(created) BY <1>1
  <1> QED BY <1>1, <1>2 DEF ListInv, Reverse

\* After the cursor come the payments older than it, newest first, whatever
\* has been created since the walk began.
LEMMA OlderThan ==
    ASSUME ListInv, NEW n \in 0 .. Len(created), NEW m \in 0 .. n, NEW cursor,
           \/ m = 0 /\ cursor = NoOne /\ n = Len(created)
           \/ m > 0 /\ cursor = created[n + 1 - m]
    PROVE  /\ Older(cursor) \in Seq(Payments) /\ Len(Older(cursor)) = n - m
           /\ \A k \in 1 .. n - m : Older(cursor)[k] = created[n + 1 - (m + k)]
  <1> DEFINE N == Len(created)
             list == Reverse(created)
             i == IF cursor = NoOne THEN 0 ELSE CHOOSE k \in DOMAIN list : list[k] = cursor
  <1>1. N \in Nat /\ DOMAIN created = 1 .. N /\ created \in Seq(Payments) BY DEF ListInv
  <1>0. n \in Nat /\ m \in Nat /\ m <= n /\ n <= N
    <2>1. n \in 0 .. N OBVIOUS
    <2>2. n \in Nat /\ n <= N
      <3> HIDE DEF N
      <3> QED BY <1>1, <2>1
    <2>3. m \in 0 .. n OBVIOUS
    <2> HIDE DEF N
    <2> QED BY <2>2, <2>3
  <1> HIDE DEF N
  <1>2. list \in Seq(Payments) /\ Len(list) = N /\ DOMAIN list = 1 .. N /\ \A k \in 1 .. N : list[k] = created[N + 1 - k]
    BY NewestFirst, <1>1
  <1> HIDE DEF list
  <1>3. i = (N - n) + m
    <2>1. CASE m = 0 BY <1>0, <1>1, <2>1 DEF N
    <2>2. CASE m > 0
      <3>1. n + 1 - m \in 1 .. N /\ cursor = created[n + 1 - m] BY <1>0, <1>1, <2>2
      <3>2. cursor # NoOne BY <1>1, <3>1, MoneyPathAssumption DEF NoOne
      <3>3. (N - n) + m \in 1 .. N /\ N + 1 - ((N - n) + m) = n + 1 - m BY <1>1, <2>2
      <3>4. list[(N - n) + m] = cursor BY <1>2, <3>1, <3>3
      <3>5. ASSUME NEW k \in 1 .. N, list[k] = cursor PROVE k = (N - n) + m
        <4>1. created[N + 1 - k] = created[n + 1 - m] /\ N + 1 - k \in 1 .. N BY <1>1, <1>2, <3>1, <3>5
        <4>2. N + 1 - k = n + 1 - m BY <1>1, <3>1, <4>1 DEF ListInv
        <4> QED BY <1>1, <4>2
      <3> QED BY <1>2, <3>2, <3>3, <3>4, <3>5
    <2> QED BY <2>1, <2>2
  <1>4. Older(cursor) = SubSeq(list, i + 1, N) BY <1>2 DEF Older, list
  <1> HIDE DEF i
  <1>5. i \in 0 .. N /\ N - i = n - m BY <1>1, <1>3
  <1>6. \A k \in i + 1 .. N : list[k] \in Payments BY <1>2, <1>5
  <1>7. Older(cursor) \in Seq(Payments) /\ Len(Older(cursor)) = N - i
    BY <1>1, <1>2, <1>4, <1>5, <1>6
  <1>8. ASSUME NEW k \in 1 .. N - i PROVE Older(cursor)[k] = list[i + k]
    <2>1. i \in Nat /\ k \in Nat /\ k <= N - i /\ (i + 1) + k - 1 = i + k BY <1>1, <1>5
    <2>2. SubSeq(list, i + 1, N)[k] = list[(i + 1) + k - 1] BY <1>1, <1>2, <1>5, <2>1
    <2> QED BY <1>4, <2>1, <2>2
  <1>9. ASSUME NEW k \in 1 .. n - m PROVE Older(cursor)[k] = created[n + 1 - (m + k)]
    <2>1. i + k \in 1 .. N /\ N + 1 - (i + k) = n + 1 - (m + k) BY <1>1, <1>3, <1>5
    <2>2. Older(cursor)[k] = list[i + k] BY <1>5, <1>8
    <2> QED BY <1>2, <2>1, <2>2
  <1> QED BY <1>5, <1>7, <1>9

-----------------------------------------------------------------------------
(* A page *)

\* Where the walk stands before a page: at m of the n payments it will have listed.
AtPage(n, m) ==
    /\ n \in 0 .. Len(created) /\ m \in 0 .. n /\ m = Len(walk.read)
    /\ \/ m = 0 /\ walk.cursor = NoOne /\ n = Len(created)
       \/ m > 0 /\ walk.cursor = created[n + 1 - m]
    /\ \A i \in 1 .. m : walk.read[i].payment = created[n + 1 - i]
    /\ walk'.listed = {created[i] : i \in 1 .. n}

LEMMA BeforePage ==
    ASSUME ListInv, WalkInv, Page
    PROVE  \E n \in 0 .. Len(created), m \in Nat : AtPage(n, m)
  <1>1. Len(created) \in Nat /\ DOMAIN created = 1 .. Len(created) BY DEF ListInv
  <1>2. walk.phase \in {"idle", "paging"} BY DEF Page
  <1>3. walk'.listed = IF walk.phase = "idle" THEN ToSet(created) ELSE walk.listed BY DEF Page
  <1>4. CASE walk.phase = "idle"
    <2>1. walk.read = <<>> /\ walk.cursor = NoOne BY <1>4 DEF WalkInv
    <2>2. ToSet(created) = {created[i] : i \in 1 .. Len(created)} BY <1>1 DEF ToSet
    <2>3. AtPage(Len(created), 0) BY <1>1, <1>3, <1>4, <2>1, <2>2 DEF AtPage
    <2> QED BY <1>1, <2>3
  <1>5. CASE walk.phase = "paging"
    <2>1. PICK n \in 0 .. Len(created) : ReadDown(n) BY <1>5 DEF WalkInv
    <2>2. Len(walk.read) \in Nat BY DEF WalkInv
    <2>3. AtPage(n, Len(walk.read)) BY <1>1, <1>3, <1>5, <2>1, <2>2 DEF AtPage, ReadDown
    <2> QED BY <2>2, <2>3
  <1> QED BY <1>2, <1>4, <1>5

\* What the provider answers there.
LEMMA PageFacts ==
    ASSUME ListInv, NEW n \in 0 .. Len(created), NEW m \in Nat, AtPage(n, m), NEW page, page = ListPage(walk.cursor)
    PROVE  LET c == Len(page.intents)
           IN  /\ page.intents \in Seq(Payments) /\ c \in Nat
               /\ c = IF PageSize <= n - m THEN PageSize ELSE n - m
               /\ page.hasMore <=> n - m > PageSize
               /\ \A k \in 1 .. c : page.intents[k] = created[n + 1 - (m + k)]
  <1> DEFINE older == Older(walk.cursor)
             size == IF PageSize <= n - m THEN PageSize ELSE n - m
  <1>1. n \in Nat /\ m <= n /\ n - m \in Nat /\ PageSize \in Nat
    <2>1. Len(created) \in Nat BY DEF ListInv
    <2> QED BY <2>1, MoneyPathAssumption DEF AtPage
  <1>2. older \in Seq(Payments) /\ Len(older) = n - m /\ \A k \in 1 .. n - m : older[k] = created[n + 1 - (m + k)]
    <2>1. m \in 0 .. n BY DEF AtPage
    <2>2. \/ m = 0 /\ walk.cursor = NoOne /\ n = Len(created)
          \/ m > 0 /\ walk.cursor = created[n + 1 - m]
      BY DEF AtPage
    <2> QED BY <2>1, <2>2, OlderThan
  <1> HIDE DEF older
  <1>3. Min({PageSize, Len(older)}) = size BY <1>1, <1>2, MinOfTwo
  <1>4. page.intents = SubSeq(older, 1, size) /\ (page.hasMore <=> n - m > PageSize)
    BY <1>2, <1>3 DEF ListPage, older
  <1>5. size \in 0 .. n - m BY <1>1
  <1> HIDE DEF size
  <1>6. \A k \in 1 .. size : older[k] \in Payments BY <1>1, <1>2, <1>5
  <1>7. page.intents \in Seq(Payments) /\ Len(page.intents) = size BY <1>1, <1>2, <1>4, <1>5, <1>6
  <1>8. ASSUME NEW k \in 1 .. size PROVE page.intents[k] = created[n + 1 - (m + k)]
    <2>1. k \in 1 .. n - m /\ k \in Nat /\ 1 + k - 1 = k BY <1>1, <1>5
    <2>2. page.intents[k] = older[1 + k - 1] BY <1>1, <1>2, <1>4, <1>5, <2>1
    <2> QED BY <1>2, <2>1, <2>2
  <1> QED BY <1>4, <1>5, <1>7, <1>8 DEF size

LEMMA Joined ==
    ASSUME NEW S, NEW s \in Seq(S), NEW t \in Seq(S), NEW m, NEW c, m = Len(s), c = Len(t)
    PROVE  /\ s \o t \in Seq(S) /\ Len(s \o t) = m + c
           /\ \A i \in 1 .. m : (s \o t)[i] = s[i]
           /\ \A k \in 1 .. c : (s \o t)[m + k] = t[k]
  OBVIOUS

LEMMA ClassifyType ==
    ASSUME NEW intent
    PROVE  Classify(intent) \in SUBSET {"success", "deferred", "failed"}
  BY DEF Classify, None

LEMMA PageStep ==
    ASSUME ListInv, WalkInv, Page
    PROVE  WalkInv' /\ created' = created /\ intents' = intents
  <1>0. created' = created /\ intents' = intents /\ Len(created) \in Nat BY DEF Page, provider, ListInv
  <1>1. PICK n \in 0 .. Len(created), m \in Nat : AtPage(n, m) BY BeforePage
  <1> DEFINE page == ListPage(walk.cursor)
             c == Len(page.intents)
             read == [i \in DOMAIN page.intents |-> [payment |-> page.intents[i], as |-> Classify(intents[page.intents[i]])]]
             more == page.hasMore /\ page.intents # <<>> /\ NextCursor(page) # walk.cursor
  <1>2. /\ page.intents \in Seq(Payments) /\ c \in Nat
        /\ c = IF PageSize <= n - m THEN PageSize ELSE n - m
        /\ (page.hasMore <=> n - m > PageSize)
        /\ \A k \in 1 .. c : page.intents[k] = created[n + 1 - (m + k)]
    BY <1>1, PageFacts
  <1>3. /\ walk'.read = walk.read \o read
        /\ walk'.phase = (IF more THEN "paging" ELSE "done")
        /\ more => walk'.cursor = NextCursor(page)
        /\ walk'.listed = {created[i] : i \in 1 .. n}
    BY <1>1 DEF Page, AtPage
  <1> HIDE DEF page
  <1>4. read \in Seq(Reading) /\ Len(read) = c /\ \A k \in 1 .. c : read[k].payment = page.intents[k]
    <2>1. DOMAIN page.intents = 1 .. c BY <1>2
    <2>2. \A k \in 1 .. c : page.intents[k] \in Payments BY <1>2
    <2>3. \A k \in 1 .. c : read[k] \in Reading BY <2>1, <2>2, ClassifyType DEF Reading
    <2>4. DOMAIN read = 1 .. c BY <2>1
    <2>5. read \in [1 .. c -> Reading]
      <3> HIDE DEF c
      <3> QED BY <2>1, <2>3
    <2> HIDE DEF c, read
    <2>6. read \in Seq(Reading) /\ Len(read) = c
      <3>1. c \in Nat BY <1>2 DEF c
      <3> QED BY <2>5, <3>1
    <2>7. \A k \in 1 .. c : read[k].payment = page.intents[k] BY <2>1 DEF read
    <2> QED BY <2>6, <2>7
  <1> HIDE DEF read, c
  <1>5. walk.read \in Seq(Reading) /\ Len(walk.read) = m BY <1>1 DEF WalkInv, AtPage
  <1>6. walk'.read \in Seq(Reading) /\ Len(walk'.read) = m + c
    <2>1. m = Len(walk.read) /\ c = Len(read) BY <1>4, <1>5
    <2>2. walk.read \o read \in Seq(Reading) /\ Len(walk.read \o read) = m + c BY ONLY <1>4, <1>5, <2>1, Joined
    <2> QED BY <1>3, <2>2
  <1>7. n \in Nat /\ m <= n /\ m + c <= n /\ PageSize \in Nat \ {0}
    <2>1. n \in Nat /\ m <= n BY <1>0, <1>1 DEF AtPage
    <2> QED BY <1>2, <2>1, MoneyPathAssumption
  <1>8. ASSUME NEW i \in 1 .. m + c PROVE walk'.read[i].payment = created[n + 1 - i]
    <2>1. CASE i <= m
      <3>1. i \in 1 .. m BY <1>7, <2>1
      <3>2. walk'.read[i] = walk.read[i] BY <1>2, <1>3, <1>4, <1>5, <3>1, Joined
      <3> QED BY <1>1, <3>1, <3>2 DEF AtPage
    <2>2. CASE ~ (i <= m)
      <3>1. i - m \in 1 .. c /\ m + (i - m) = i BY <1>2, <1>7, <2>2
      <3>2. walk'.read[i] = read[i - m]
        <4>1. m = Len(walk.read) /\ c = Len(read) BY <1>4, <1>5
        <4>2. walk.read \in Seq(Reading) /\ read \in Seq(Reading) BY <1>4, <1>5
        <4> DEFINE k == i - m
        <4>3. k \in 1 .. c /\ m + k = i BY <3>1
        <4> HIDE DEF k
        <4>4. (walk.read \o read)[m + k] = read[k] BY ONLY <4>1, <4>2, <4>3, Joined
        <4> QED BY <1>3, <4>3, <4>4 DEF k
      <3>3. read[i - m].payment = created[n + 1 - (m + (i - m))] BY <1>2, <1>4, <3>1
      <3> QED BY <3>1, <3>2, <3>3
    <2> QED BY <2>1, <2>2
  <1>9. ASSUME page.hasMore
        PROVE  /\ c > 0 /\ m + c < n /\ NextCursor(page) = created[n + 1 - (m + c)]
               /\ page.intents # <<>> /\ NextCursor(page) # walk.cursor
    <2>1. c > 0 /\ m + c < n BY <1>2, <1>7, <1>9
    <2>2. c \in 1 .. c BY <1>2, <2>1
    <2>3. NextCursor(page) = created[n + 1 - (m + c)] BY <1>2, <2>2 DEF NextCursor, Last, c
    <2>4. page.intents # <<>> BY <2>1 DEF c
    <2>5. n + 1 - (m + c) \in 1 .. Len(created) BY <1>0, <1>2, <1>7, <2>1
    <2>6. NextCursor(page) # walk.cursor
      <3>1. CASE m = 0
        <4>1. walk.cursor = NoOne BY <1>1, <3>1 DEF AtPage
        <4>2. created[n + 1 - (m + c)] \in Payments BY <2>5 DEF ListInv
        <4> QED BY <2>3, <4>1, <4>2, MoneyPathAssumption DEF NoOne
      <3>2. CASE m # 0
        <4>1. walk.cursor = created[n + 1 - m] BY <1>1, <3>2 DEF AtPage
        <4>2. n + 1 - m \in 1 .. Len(created) /\ n + 1 - m # n + 1 - (m + c) BY <1>0, <1>2, <1>7, <2>1, <3>2
        <4>3. DOMAIN created = 1 .. Len(created) BY DEF ListInv
        <4> QED BY <2>3, <2>5, <4>1, <4>2, <4>3 DEF ListInv
      <3> QED BY <3>1, <3>2
    <2> QED BY <2>1, <2>3, <2>4, <2>6
  <1>10. ~ page.hasMore => m + c = n BY <1>2, <1>7
  <1>11. ReadDown(n)'
    <2>1. walk'.phase = "done" => ~ page.hasMore BY <1>3, <1>9
    <2>2. walk'.phase = "paging" => page.hasMore /\ walk'.cursor = NextCursor(page) BY <1>3
    <2>3. walk'.phase = "done" => Len(walk'.read) = n BY <1>6, <1>10, <2>1
    <2>4. walk'.phase = "paging" => /\ Len(walk'.read) > 0 /\ Len(walk'.read) < n
                                    /\ walk'.cursor = created[n + 1 - Len(walk'.read)]
      BY <1>2, <1>6, <1>7, <1>9, <2>2
    <2> QED BY <1>0, <1>3, <1>6, <1>7, <1>8, <2>3, <2>4 DEF ReadDown
  <1>12. walk'.phase \in {"paging", "done"} BY <1>3
  <1> QED BY <1>0, <1>6, <1>11, <1>12 DEF WalkInv

-----------------------------------------------------------------------------
(* The other steps *)

\* A payment joins the list once.
LEMMA EnterStep ==
    ASSUME ListInv, WalkInv, NEW p \in Payments, NEW outcome, Enter(p, outcome)
    PROVE  ListInv' /\ WalkInv'
  <1>1. /\ created' = Append(created, p) /\ intents[p].status = "none"
        /\ intents' = [intents EXCEPT ![p] = [status |-> "requires_payment_method", error |-> outcome = "failed"]]
        /\ walk' = walk
    BY DEF Enter
  <1>2. Len(created) \in Nat /\ DOMAIN created = 1 .. Len(created) /\ created \in Seq(Payments) BY DEF ListInv
  <1>3. /\ created' \in Seq(Payments) /\ Len(created') = Len(created) + 1
        /\ DOMAIN created' = 1 .. Len(created) + 1
        /\ \A i \in 1 .. Len(created) : created'[i] = created[i]
        /\ created'[Len(created) + 1] = p
    BY <1>1, <1>2
  <1>4. \A i \in 1 .. Len(created) : created[i] # p BY <1>1, <1>2 DEF ListInv
  <1>5. \A i, j \in DOMAIN created' : created'[i] = created'[j] => i = j
    <2> SUFFICES ASSUME NEW i \in DOMAIN created', NEW j \in DOMAIN created', created'[i] = created'[j] PROVE i = j
      OBVIOUS
    <2>1. CASE i = Len(created) + 1 BY <1>2, <1>3, <1>4, <2>1
    <2>2. CASE j = Len(created) + 1 BY <1>2, <1>3, <1>4, <2>2
    <2>3. CASE i # Len(created) + 1 /\ j # Len(created) + 1
      <3>1. i \in 1 .. Len(created) /\ j \in 1 .. Len(created) BY <1>2, <1>3, <2>3
      <3> QED BY <1>2, <1>3, <3>1 DEF ListInv
    <2> QED BY <2>1, <2>2, <2>3
  <1>6. intents' \in [Payments -> Intent] /\ intents'[p].status # "none"
        /\ \A o \in Payments \ {p} : intents'[o] = intents[o]
    <2> DEFINE b == outcome = "failed"
    <2>1. b \in BOOLEAN OBVIOUS
    <2> HIDE DEF b
    <2>2. [status |-> "requires_payment_method", error |-> b] \in Intent BY <2>1 DEF Intent
    <2>3. intents' = [intents EXCEPT ![p] = [status |-> "requires_payment_method", error |-> b]] BY <1>1 DEF b
    <2> QED BY <2>2, <2>3 DEF ListInv
  <1>7. ASSUME NEW i \in DOMAIN created' PROVE intents'[created'[i]].status # "none"
    <2>1. CASE i = Len(created) + 1 BY <1>3, <1>6, <2>1
    <2>2. CASE i # Len(created) + 1
      <3>1. i \in 1 .. Len(created) /\ created[i] \in Payments BY <1>2, <1>3, <2>2
      <3> QED BY <1>2, <1>3, <1>4, <1>6, <3>1 DEF ListInv
    <2> QED BY <2>1, <2>2
  <1>8. ListInv' BY <1>3, <1>5, <1>6, <1>7 DEF ListInv
  <1>9. ASSUME NEW n \in 0 .. Len(created), ReadDown(n) PROVE n \in 0 .. Len(created') /\ ReadDown(n)'
    <2>1. n \in Nat /\ n <= Len(created) /\ n \in 0 .. Len(created') BY <1>2, <1>3
    <2>2. Len(walk.read) \in Nat BY DEF WalkInv
    <2>3. \A i \in 1 .. n : created'[i] = created[i] BY <1>2, <1>3, <2>1
    <2>4. \A i \in 1 .. Len(walk.read) : created'[n + 1 - i] = created[n + 1 - i]
      <3>1. \A i \in 1 .. Len(walk.read) : n + 1 - i \in 1 .. n BY <1>9, <2>1, <2>2 DEF ReadDown
      <3> QED BY <2>3, <3>1
    <2>5. {created'[i] : i \in 1 .. n} = {created[i] : i \in 1 .. n} BY <2>3
    <2>6. walk.phase = "paging" => created'[n + 1 - Len(walk.read)] = created[n + 1 - Len(walk.read)]
      <3>1. walk.phase = "paging" => Len(walk.read) \in 1 .. Len(walk.read) BY <1>9, <2>2 DEF ReadDown
      <3> QED BY <2>4, <3>1
    <2> QED BY <1>1, <1>9, <2>1, <2>4, <2>5, <2>6 DEF ReadDown
  <1>10. WalkInv' BY <1>1, <1>9 DEF WalkInv
  <1> QED BY <1>8, <1>10

\* A walk is where it was while neither it nor the list moves.
LEMMA WalkStill ==
    ASSUME WalkInv, created' = created, walk' = walk
    PROVE  WalkInv'
  <1>1. \A n : ReadDown(n)' = ReadDown(n) BY DEF ReadDown
  <1> QED BY <1>1 DEF WalkInv

\* A payment the provider has moved on stays where it is in the list.
LEMMA MovedOn ==
    ASSUME ListInv, WalkInv, NEW p \in Payments, NEW intent \in Intent,
           intent.status # "none", intents' = [intents EXCEPT ![p] = intent], created' = created, walk' = walk
    PROVE  ListInv' /\ WalkInv'
  <1>1. intents' \in [Payments -> Intent] /\ \A o \in Payments : intents'[o] = IF o = p THEN intent ELSE intents[o]
    BY DEF ListInv
  <1>2. \A i \in DOMAIN created : created[i] \in Payments BY DEF ListInv
  <1>3. \A i \in DOMAIN created : intents'[created[i]].status # "none" BY <1>1, <1>2 DEF ListInv
  <1>4. ListInv' BY <1>1, <1>3 DEF ListInv
  <1>5. WalkInv' BY WalkStill
  <1> QED BY <1>4, <1>5

LEMMA WalkStep == ListInv /\ WalkInv /\ [Next]_vars => ListInv' /\ WalkInv'
  <1> SUFFICES ASSUME ListInv, WalkInv, [Next]_vars PROVE ListInv' /\ WalkInv' OBVIOUS
  <1>1. ASSUME created' = created, intents' = intents, walk' = walk PROVE ListInv' /\ WalkInv'
    <2>1. WalkInv' BY <1>1, WalkStill
    <2> QED BY <1>1, <2>1 DEF ListInv
  <1>2. ASSUME NEW p \in Payments, Settle(p) \/ Decline(p) \/ Postpone(p) PROVE ListInv' /\ WalkInv'
    <2>1. CASE Settle(p)
      <3>1. [status |-> "succeeded", error |-> FALSE] \in Intent BY DEF Intent
      <3> QED BY <2>1, <3>1, MovedOn DEF Settle
    <2>2. CASE Decline(p)
      <3>1. [status |-> "requires_payment_method", error |-> TRUE] \in Intent BY DEF Intent
      <3> QED BY <2>2, <3>1, MovedOn DEF Decline
    <2>3. CASE Postpone(p)
      <3>1. [status |-> "processing", error |-> FALSE] \in Intent BY DEF Intent
      <3> QED BY <2>3, <3>1, MovedOn DEF Postpone
    <2> QED BY <1>2, <2>1, <2>2, <2>3
  <1>3. ASSUME NEW p \in Payments, NEW o, Enter(p, o) PROVE ListInv' /\ WalkInv' BY <1>3, EnterStep
  <1>4. CASE Page BY <1>4, PageStep DEF ListInv
  <1>5. CASE PageFails BY <1>5 DEF PageFails, ListInv, WalkInv, provider
  <1>6. CASE Tick \/ Publish \/ (\E r \in sent : Redeliver(r)) \/ UNCHANGED vars
    BY <1>1, <1>6 DEF Tick, Publish, Redeliver, vars, provider
  <1> QED BY <1>2, <1>3, <1>4, <1>5, <1>6 DEF Next

LEMMA WalkCounts == ListInv /\ WalkInv => WalkCountsOnce
  <1> SUFFICES ASSUME ListInv, WalkInv, walk.phase = "done"
               PROVE  /\ Distinct([i \in DOMAIN walk.read |-> walk.read[i].payment])
                      /\ {walk.read[i].payment : i \in DOMAIN walk.read} = walk.listed
    BY DEF WalkCountsOnce
  <1>1. PICK n \in 0 .. Len(created) : ReadDown(n) BY DEF WalkInv
  <1>2. Len(created) \in Nat /\ DOMAIN created = 1 .. Len(created) BY DEF ListInv
  <1>3. n \in Nat /\ n <= Len(created) BY <1>2
  <1>4. DOMAIN walk.read = 1 .. n /\ \A i \in 1 .. n : walk.read[i].payment = created[n + 1 - i]
    BY <1>1 DEF ReadDown, WalkInv
  <1>5. \A i \in 1 .. n : n + 1 - i \in 1 .. n /\ n + 1 - i \in 1 .. Len(created) BY <1>3
  <1>6. \A i, j \in 1 .. n : created[n + 1 - i] = created[n + 1 - j] => i = j
    <2> SUFFICES ASSUME NEW i \in 1 .. n, NEW j \in 1 .. n, created[n + 1 - i] = created[n + 1 - j] PROVE i = j
      OBVIOUS
    <2>1. n + 1 - i = n + 1 - j BY <1>2, <1>5 DEF ListInv
    <2> QED BY <1>3, <2>1
  <1>7. Distinct([i \in DOMAIN walk.read |-> walk.read[i].payment])
    <2> DEFINE f == [i \in DOMAIN walk.read |-> walk.read[i].payment]
    <2>1. DOMAIN f = 1 .. n /\ \A i \in 1 .. n : f[i] = created[n + 1 - i] BY <1>4
    <2> HIDE DEF f
    <2>2. Distinct(f) BY <1>6, <2>1 DEF Distinct
    <2> QED BY <2>2 DEF f
  <1>8. {created[n + 1 - i] : i \in 1 .. n} = {created[i] : i \in 1 .. n}
    <2>1. ASSUME NEW i \in 1 .. n PROVE n + 1 - (n + 1 - i) = i BY <1>3
    <2> QED BY <1>5, <2>1
  <1>9. {walk.read[i].payment : i \in DOMAIN walk.read} = {created[n + 1 - i] : i \in 1 .. n} BY <1>4
  <1>10. walk.listed = {created[i] : i \in 1 .. n} BY <1>1 DEF ReadDown
  <1> QED BY <1>7, <1>8, <1>9, <1>10

\* A walk that ends with a ledger has read every intent that was there when it
\* began, once, and none that came later (Reconcile), for any size of a page
\* and whatever is created or settles between two pages.
THEOREM WalksCountOnce == Spec => []WalkCountsOnce
  <1>1. Init => ListInv /\ WalkInv
    <2> SUFFICES ASSUME Init PROVE ListInv /\ WalkInv OBVIOUS
    <2>1. intents \in [Payments -> Intent] BY DEF Init, Intent
    <2>2. created = <<>> /\ created \in Seq(Payments) /\ DOMAIN created = {} BY DEF Init
    <2>3. walk.phase = "idle" /\ walk.read = <<>> /\ walk.cursor = NoOne BY DEF Init
    <2>4. walk.read \in Seq(Reading) BY <2>3
    <2> QED BY <2>1, <2>2, <2>3, <2>4 DEF ListInv, WalkInv
  <1> QED BY <1>1, WalkStep, WalkCounts, PTL DEF Spec

-----------------------------------------------------------------------------
(* The suggested severity *)

LEMMA LeastOf ==
    ASSUME NEW T, T \subseteq Nat, T # {}
    PROVE  Min(T) \in T /\ \A y \in T : Min(T) <= y
  <1>1. PICK x \in T : \A y \in T : ~ (<<y, x>> \in OpToRel(<, Nat)) BY NatLessThanWellFounded, WFMin
  <1>2. \A y \in T : x <= y
    <2> SUFFICES ASSUME NEW y \in T PROVE x <= y OBVIOUS
    <2>1. x \in Nat /\ y \in Nat OBVIOUS
    <2>2. ~ (y < x) BY <1>1, <2>1 DEF OpToRel
    <2> QED BY <2>1, <2>2
  <1> QED BY <1>2 DEF Min

\* Floors that fall from level to level fall from any level to any later one.
LEMMA LadderFalls ==
    ASSUME NEW floors \in Seq(Int), LadderDescends(floors)
    PROVE  \A i, j \in DOMAIN floors : i < j => floors[j] < floors[i]
  <1> SUFFICES ASSUME NEW i \in DOMAIN floors, \E j \in DOMAIN floors : i < j /\ ~ (floors[j] < floors[i])
               PROVE  FALSE
    OBVIOUS
  <1> DEFINE T == {j \in DOMAIN floors : i < j /\ ~ (floors[j] < floors[i])}
  <1>1. Len(floors) \in Nat /\ DOMAIN floors = 1 .. Len(floors) /\ \A j \in DOMAIN floors : floors[j] \in Int OBVIOUS
  <1>2. T \subseteq Nat /\ T # {} BY <1>1
  <1> DEFINE j == Min(T)
  <1>3. j \in T /\ \A k \in T : j <= k BY <1>2, LeastOf
  <1> HIDE DEF j
  <1>4. j \in 1 .. Len(floors) /\ i < j /\ i \in 1 .. Len(floors) /\ ~ (floors[j] < floors[i]) BY <1>1, <1>3
  <1>5. j - 1 \in DOMAIN floors /\ j > 1 BY <1>1, <1>4
  <1>6. floors[j] < floors[j - 1] BY <1>1, <1>4, <1>5 DEF LadderDescends
  <1>7. CASE j - 1 = i BY <1>4, <1>6, <1>7
  <1>8. CASE j - 1 # i
    <2>1. i < j - 1 /\ ~ (j <= j - 1) BY <1>1, <1>4, <1>8
    <2>2. floors[j - 1] < floors[i] BY <1>3, <1>5, <2>1
    <2> QED BY <1>1, <1>4, <1>5, <1>6, <2>2
  <1> QED BY <1>7, <1>8

LadderOf(reg) == [i \in DOMAIN reg.severity |-> reg.severity[i].floor]

\* The floors a rate of a currency of C reaches.
ReachedFloors(reg, window, atRisk, C) ==
    {x \in {reg.severity[i].floor : i \in DOMAIN reg.severity} :
        /\ window.to - window.from > 0
        /\ \E c \in C : Money(atRisk, c) >= x * (window.to - window.from)}

Greatest(S) == IF S = {} THEN {} ELSE {Max(S)}

\* For any ladder and any money at risk, the suggested level is the one with
\* the greatest floor some rate reaches.
LEMMA TightestLevel ==
    ASSUME NEW reg, NEW window, NEW atRisk, NEW C, DOMAIN atRisk \subseteq C,
           LadderOf(reg) \in Seq(Int), LadderDescends(LadderOf(reg)),
           window.to \in Int, window.from \in Int
    PROVE  {reg.severity[i].floor : i \in SuggestSeverity(reg, window, atRisk)}
             = Greatest(ReachedFloors(reg, window, atRisk, C))
  <1> DEFINE f == LadderOf(reg)
             D == DOMAIN reg.severity
             minutes == window.to - window.from
             reached == {x \in {f[i] : i \in D} : minutes > 0 /\ \E c \in C : Money(atRisk, c) >= x * minutes}
             level(c) == {i \in D : atRisk[c] >= f[i] * minutes}
             best == UNION {IF level(c) = {} THEN {} ELSE {Min(level(c))} : c \in DOMAIN atRisk}
  <1>1. /\ f \in Seq(Int) /\ DOMAIN f = D /\ D \subseteq Nat
        /\ \A i \in D : f[i] \in Int /\ f[i] > 0 /\ f[i] = reg.severity[i].floor
        /\ \A i, j \in D : i < j => f[j] < f[i]
    <2>1. f \in Seq(Int) /\ LadderDescends(f) OBVIOUS
    <2>2. DOMAIN f = D /\ \A i \in D : f[i] = reg.severity[i].floor BY DEF LadderOf
    <2> HIDE DEF f, D
    <2>3. DOMAIN f = 1 .. Len(f) /\ Len(f) \in Nat /\ \A i \in DOMAIN f : f[i] \in Int BY <2>1
    <2>4. \A i \in DOMAIN f : f[i] > 0 BY <2>1 DEF LadderDescends
    <2>5. \A i, j \in DOMAIN f : i < j => f[j] < f[i] BY <2>1, LadderFalls
    <2> QED BY <2>1, <2>2, <2>3, <2>4, <2>5
  <1>2. SuggestSeverity(reg, window, atRisk) = IF minutes <= 0 \/ best = {} THEN {} ELSE {Min(best)}
    <2>0. \A i \in D : f[i] = reg.severity[i].floor BY <1>1
    <2> DEFINE reach(c) == {i \in DOMAIN reg.severity : atRisk[c] >= reg.severity[i].floor * (window.to - window.from)}
    <2>1. \A c : level(c) = reach(c) BY <2>0
    <2>2. window.to <= window.from <=> minutes <= 0 OBVIOUS
    <2>3. SuggestSeverity(reg, window, atRisk)
            = LET all == UNION {IF reach(c) = {} THEN {} ELSE {Min(reach(c))} : c \in DOMAIN atRisk}
              IN  IF window.to <= window.from \/ all = {} THEN {} ELSE {Min(all)}
      BY DEF SuggestSeverity, None, Some
    <2> HIDE DEF level, reach, minutes
    <2> QED BY <2>1, <2>2, <2>3
  <1>3. minutes \in Int OBVIOUS
  <1> HIDE DEF f, D, minutes
  <1>4. {reg.severity[i].floor : i \in SuggestSeverity(reg, window, atRisk)} = (IF reached = {} THEN {} ELSE {Max(reached)})
    <2>1. CASE minutes <= 0
      <3>1. reached = {} BY <1>3, <2>1
      <3> QED BY <1>2, <2>1, <3>1
    <2>2. CASE minutes > 0
      <3>1. ASSUME NEW i \in D, NEW c \in C, Money(atRisk, c) >= f[i] * minutes
            PROVE  c \in DOMAIN atRisk /\ i \in level(c)
        <4>1. \A a, b \in Int : a > 0 /\ b > 0 => ~ (0 >= a * b) OBVIOUS
        <4>2. c \in DOMAIN atRisk BY <1>1, <1>3, <2>2, <3>1, <4>1 DEF Money
        <4> QED BY <3>1, <4>2 DEF Money
      <3>2. ASSUME NEW c \in DOMAIN atRisk, NEW i \in level(c) PROVE f[i] \in reached
        <4>1. Money(atRisk, c) >= f[i] * minutes /\ c \in C /\ i \in D BY <3>2 DEF Money
        <4> QED BY <2>2, <4>1
      <3>3. \A c \in DOMAIN atRisk : level(c) # {} => Min(level(c)) \in level(c) /\ \A i \in level(c) : Min(level(c)) <= i
        <4> SUFFICES ASSUME NEW c \in DOMAIN atRisk, level(c) # {}
                     PROVE  Min(level(c)) \in level(c) /\ \A i \in level(c) : Min(level(c)) <= i
          OBVIOUS
        <4>1. level(c) \subseteq Nat BY <1>1
        <4> HIDE DEF level
        <4> QED BY <4>1, LeastOf
      <3>4. best \subseteq D BY <3>3
      <3>5. CASE best = {}
        <4>1. \A c \in DOMAIN atRisk : level(c) = {}
          <5> SUFFICES ASSUME NEW c \in DOMAIN atRisk, level(c) # {} PROVE FALSE OBVIOUS
          <5>1. Min(level(c)) \in best OBVIOUS
          <5> QED BY <3>5, <5>1
        <4>2. reached = {} BY <3>1, <4>1
        <4> QED BY <1>2, <3>5, <4>2
      <3>6. CASE best # {}
        <4> DEFINE m == Min(best)
        <4>1. m \in best /\ \A i \in best : m <= i
          <5>1. best \subseteq Nat BY <1>1, <3>4
          <5> HIDE DEF best
          <5> QED BY <3>6, <5>1, LeastOf
        <4> HIDE DEF m
        <4>2. PICK c \in DOMAIN atRisk : level(c) # {} /\ m = Min(level(c)) BY <4>1
        <4>3. m \in level(c) BY <3>3, <4>2
        <4>4. f[m] \in reached /\ m \in D BY <3>2, <4>3
        <4>5. ASSUME NEW x \in reached PROVE f[m] >= x
          <5>1. PICK i \in D : x = f[i] OBVIOUS
          <5>2. PICK d \in C : Money(atRisk, d) >= f[i] * minutes BY <5>1
          <5>3. d \in DOMAIN atRisk /\ i \in level(d) BY <3>1, <5>2
          <5>4. Min(level(d)) \in best /\ Min(level(d)) <= i BY <3>3, <5>3
          <5>5. m <= Min(level(d)) BY <4>1, <5>4
          <5>6. Min(level(d)) \in Nat /\ i \in Nat /\ m \in Nat BY <1>1, <3>4, <4>4, <5>4
          <5> HIDE DEF level
          <5>7. m <= i BY <5>4, <5>5, <5>6
          <5>8. m = i \/ m < i BY <5>6, <5>7
          <5>9. f[m] = f[i] \/ f[i] < f[m] BY <1>1, <4>4, <5>8
          <5> QED BY <1>1, <4>4, <5>1, <5>9
        <4>6. \A y \in reached : (\A x \in reached : y >= x) => y = f[m]
          <5>1. \A y \in reached : y \in Int BY <1>1
          <5> HIDE DEF reached
          <5> QED BY <4>4, <4>5, <5>1
        <4>7. Max(reached) = f[m]
          <5> HIDE DEF reached
          <5> QED BY <4>4, <4>5, <4>6 DEF Max
        <4>8. SuggestSeverity(reg, window, atRisk) = {m}
          <5>1. ~ (minutes <= 0) BY <1>3, <2>2
          <5> HIDE DEF best
          <5> QED BY <1>2, <3>6, <5>1 DEF m
        <4> HIDE DEF reached
        <4> QED BY <1>1, <4>4, <4>7, <4>8
      <3> QED BY <3>5, <3>6
    <2>3. minutes <= 0 \/ minutes > 0 BY <1>3
    <2> HIDE DEF reached
    <2> QED BY <2>1, <2>2, <2>3
  <1>5. {reg.severity[i].floor : i \in D} = {f[i] : i \in D} BY <1>1
  <1>6. reached = ReachedFloors(reg, window, atRisk, C) BY <1>5 DEF ReachedFloors, D, minutes
  <1> HIDE DEF reached
  <1> QED BY <1>4, <1>6 DEF Greatest

-----------------------------------------------------------------------------
(* Whose money the legs count *)

OfPayment(labels) == "currency" \in DOMAIN labels /\ labels["currency"] \in Currencies

\* Every record and every sample is of a payment.
MoneyInv ==
    /\ \A r \in sent : r.payment \in Payments
    /\ \A s \in samples : OfPayment(s.labels)
    /\ \A c \in live : OfPayment(c)

LEMMA ComboOfPayment == ASSUME NEW p \in Payments PROVE OfPayment(Combo(p))
  BY DEF OfPayment, Combo, Currencies

LEMMA MoneyStep == MoneyInv /\ [Next]_vars => MoneyInv'
  <1> SUFFICES ASSUME MoneyInv, [Next]_vars PROVE MoneyInv' OBVIOUS
  <1>1. ASSUME NEW q, NEW p \in Payments, NEW stage, NEW outcome, Record(q, p, stage, outcome)
        PROVE  \A r \in sent' : r.payment \in Payments
    <2>1. CASE sent' = sent BY <2>1 DEF MoneyInv
    <2>2. CASE sent' # sent
      <3>1. PICK points, event \in BOOLEAN :
              sent' = sent \cup {[process |-> q, payment |-> p, stage |-> stage, outcome |-> outcome,
                                  at |-> now, points |-> points, event |-> event]}
        BY <1>1, <2>2 DEF Record
      <3> QED BY <3>1 DEF MoneyInv
    <2> QED BY <2>1, <2>2
  <1>2. ASSUME samples' = samples, live' = live, \A r \in sent' : r.payment \in Payments PROVE MoneyInv'
    BY <1>2 DEF MoneyInv
  <1>3. ASSUME NEW p \in Payments, Settle(p) \/ Decline(p) \/ Postpone(p) \/ \E o : Enter(p, o) PROVE MoneyInv'
    <2>1. samples' = samples /\ live' = live BY <1>3 DEF Settle, Decline, Postpone, Enter, tracker
    <2>2. \E stage, outcome : Record(1, p, stage, outcome) BY <1>3 DEF Settle, Decline, Postpone, Enter
    <2> QED BY <1>1, <1>2, <2>1, <2>2
  <1>4. ASSUME NEW r \in sent, Redeliver(r) PROVE MoneyInv'
    <2>1. r.payment \in Payments BY DEF MoneyInv
    <2> QED BY <1>1, <1>2, <1>4, <2>1 DEF Redeliver, tracker
  <1>5. CASE Publish
    <2>1. live' = {Combo(p) : p \in InFlight} /\ InFlight \subseteq Payments BY <1>5 DEF Publish, InFlight
    <2>2. \A c \in live' \cup Retired : OfPayment(c)
      BY <2>1, ComboOfPayment DEF MoneyInv, Retired
    <2> DEFINE sample(name, c, v) == [n |-> Len(published), name |-> name, labels |-> c, at |-> now, value |-> v]
               in(c) == {p \in InFlight : Combo(p) = c}
               full == {Combo(p) : p \in InFlight}
               value(c) == sample("biz_inflight_value", c, SumFunction([p \in in(c) |-> AmountOf[p]]))
               count(c) == sample("biz_inflight_count", c, Cardinality(in(c)))
    <2>3. \A s \in samples' : s \in samples \/ s.labels \in live' \cup Retired
      <3>1. samples' = samples \cup {value(c) : c \in full \cup Retired} \cup {count(c) : c \in full \cup Retired}
        BY <1>5 DEF Publish
      <3>2. \A c : value(c).labels = c /\ count(c).labels = c OBVIOUS
      <3>3. live' = full BY <2>1
      <3> HIDE DEF value, count, full
      <3> QED BY <3>1, <3>2, <3>3
    <2>4. sent' = sent BY <1>5 DEF Publish
    <2> QED BY <2>2, <2>3, <2>4 DEF MoneyInv
  <1>6. CASE Tick \/ Page \/ PageFails \/ UNCHANGED vars
    BY <1>2, <1>6 DEF Tick, Page, PageFails, vars, tracker, MoneyInv
  <1> QED BY <1>3, <1>4, <1>5, <1>6 DEF Next

LEMMA StoreFacts ==
    ASSUME MoneyInv, NEW down
    PROVE  LET store == Store(TRUE, TRUE, down)
           IN  /\ store.caps.metrics /\ store.caps.events
               /\ \A x \in {"metrics", "events"} : x \in store.down <=> x \in down
               /\ \A p \in store.points : OfPayment(p.labels)
               /\ \A e \in store.events : OfPayment(e.labels)
  <1> DEFINE store == Store(TRUE, TRUE, down)
  <1>1. /\ store.caps.metrics /\ store.caps.events /\ store.points = Points \cup samples /\ store.events = Events
        /\ store.down = (down \cap {"metrics"}) \cup (down \cap {"events"})
    BY DEF Store, Combine, Backend
  <1>2. \A p \in Points : OfPayment(p.labels) BY DEF Points, Labels, OfPayment, MoneyInv, Currencies
  <1>3. \A e \in Events : OfPayment(e.labels) BY DEF Events, OfPayment, MoneyInv, Currencies
  <1> HIDE DEF store
  <1>4. \A p \in samples : OfPayment(p.labels) BY DEF MoneyInv
  <1> QED BY <1>1, <1>2, <1>3, <1>4 DEF store

LEMMA KeyCurrency ==
    ASSUME NEW labels, OfPayment(labels), NEW by, "currency" \in by
    PROVE  GroupKey(labels, by)["currency"] \in Currencies
  BY DEF GroupKey, Label, OfPayment

LEMMA MetricRows ==
    ASSUME NEW store, \A p \in store.points : OfPayment(p.labels), NEW metric, NEW filters, NEW range, NEW by, "currency" \in by
    PROVE  \A series \in Counter(store, metric, filters, by, range, 0) : \A s \in series : s.labels["currency"] \in Currencies
  <1> SUFFICES ASSUME NEW series \in Counter(store, metric, filters, by, range, 0), NEW s \in series
               PROVE  s.labels["currency"] \in Currencies
    OBVIOUS
  <1> DEFINE qy == [metric |-> metric, agg |-> "sum", filters |-> filters, groupBy |-> by, range |-> range, step |-> 0]
             matching == MatchingPoints(store, qy)
             keys == {GroupKey(p.labels, by) : p \in matching}
             buckets(k) == BucketPoints({p \in matching : GroupKey(p.labels, by) = k}, qy, metric \in GaugeFamilies)
  <1>0. qy.groupBy = by /\ qy.metric = metric OBVIOUS
  <1>1. \E p \in store.points : s.labels = GroupKey(p.labels, by)
    <2>1. series \in QueryMetric(store, qy) BY DEF Counter
    <2>2. matching \subseteq store.points BY DEF MatchingPoints
    <2> HIDE DEF qy
    <2>3. series = {[labels |-> k, points |-> buckets(k)] : k \in keys} BY <1>0, <2>1 DEF QueryMetric
    <2> HIDE DEF matching, buckets
    <2>4. s.labels \in keys BY <2>3
    <2> QED BY <2>2, <2>4
  <1> QED BY <1>1, KeyCurrency

LEMMA EventRows ==
    ASSUME NEW store, \A e \in store.events : OfPayment(e.labels), NEW qy, "currency" \in qy.groupBy
    PROVE  \A rows \in QueryEvents(store, qy) : \A g \in rows : g.key["currency"] \in Currencies
  <1> SUFFICES ASSUME NEW rows \in QueryEvents(store, qy), NEW g \in rows PROVE g.key["currency"] \in Currencies
    OBVIOUS
  <1> DEFINE matched == MatchingEvents(store, qy)
             keys == {GroupKey(e.labels, qy.groupBy) : e \in matched}
             of(k) == {e \in matched : GroupKey(e.labels, qy.groupBy) = k}
  <1>1. \E e \in store.events : g.key = GroupKey(e.labels, qy.groupBy)
    <2>1. matched \subseteq store.events BY DEF MatchingEvents
    <2>2. rows = {Group(k, of(k), qy.agg) : k \in keys} BY DEF QueryEvents
    <2>3. \A k \in keys : Group(k, of(k), qy.agg).key = k BY DEF Group
    <2> HIDE DEF matched, of
    <2>4. g.key \in keys BY <2>2, <2>3
    <2> QED BY <2>1, <2>4
  <1> QED BY <1>1, KeyCurrency

\* A sum of answers is of their rows; one answer missing, there is none.
LEMMA Gathered ==
    ASSUME NEW answers
    PROVE  /\ \A rows \in Gather(answers) : \A x \in rows : \E i \in DOMAIN answers : \E a \in answers[i] : x.row \in a
           /\ (\E i \in DOMAIN answers : answers[i] = {}) => Gather(answers) = {}
  BY DEF Gather, None, Some

LEMMA SomeQuery ==
    ASSUME NEW req \in Requests, NEW outcome
    PROVE  /\ DOMAIN InflightFilters(req) # {}
           /\ DOMAIN FlowFilters(req, outcome) = DOMAIN InflightFilters(req)
  <1>1. req.flows \in Seq(STRING) BY MoneyPathAssumption
  <1>2. req.flows # <<>> => 1 \in DOMAIN req.flows BY <1>1
  <1>3. DOMAIN InflightFilters(req) # {} BY <1>2 DEF InflightFilters
  <1> QED BY <1>3 DEF FlowFilters

LEMMA RealizedMoney ==
    ASSUME MoneyInv, NEW req \in Requests, NEW down
    PROVE  LET leg == RealizedLeg(Store(TRUE, TRUE, down), req)
           IN  /\ \A x \in leg : DOMAIN x.byCurrency \subseteq Currencies
               /\ "events" \in down => leg = None
  <1> DEFINE store == Store(TRUE, TRUE, down)
             perFlow(o, by, agg) == EventsPerFlow(store, req, o, by, agg)
             won == perFlow("success", {"currency", "entity"}, "groups")
             failures == perFlow("failed", {"currency", "entity"}, "max_per_group")
  <1>1. /\ store.caps.events /\ \A e \in store.events : OfPayment(e.labels)
        /\ "events" \in down => "events" \in store.down
    BY StoreFacts
  <1> HIDE DEF store
  <1>2. RealizedLeg(store, req) = RealizedFromEvents(store, req) BY <1>1 DEF RealizedLeg
  <1>3. ASSUME NEW o, NEW by, "currency" \in by, NEW agg
        PROVE  /\ \A rows \in perFlow(o, by, agg) : \A g \in rows : g.row.key["currency"] \in Currencies
               /\ "events" \in down => perFlow(o, by, agg) = {}
    <2> DEFINE qy(i) == [filters |-> FlowFilters(req, o)[i], groupBy |-> by, range |-> req.window, agg |-> agg]
               answers == [i \in DOMAIN FlowFilters(req, o) |-> QueryEvents(store, qy(i))]
    <2>1. perFlow(o, by, agg) = Gather(answers) BY DEF EventsPerFlow
    <2>2. ASSUME NEW i \in DOMAIN FlowFilters(req, o)
          PROVE  /\ \A rows \in QueryEvents(store, qy(i)) : \A g \in rows : g.key["currency"] \in Currencies
                 /\ "events" \in down => QueryEvents(store, qy(i)) = {}
      <3>1. "currency" \in qy(i).groupBy BY <1>3
      <3>2. "events" \in down => QueryEvents(store, qy(i)) = {} BY <1>1 DEF QueryEvents
      <3> HIDE DEF qy
      <3> QED BY <1>1, <3>1, <3>2, EventRows
    <2>3. DOMAIN FlowFilters(req, o) # {} BY SomeQuery
    <2>4. DOMAIN answers = DOMAIN FlowFilters(req, o) /\ \A i \in DOMAIN answers : answers[i] = QueryEvents(store, qy(i))
      OBVIOUS
    <2> HIDE DEF qy, answers
    <2>5. ASSUME NEW rows \in Gather(answers), NEW g \in rows PROVE g.row.key["currency"] \in Currencies
      BY <2>2, <2>4, Gathered
    <2>6. "events" \in down => Gather(answers) = {} BY <2>2, <2>3, <2>4, Gathered
    <2> QED BY <2>1, <2>5, <2>6
  <1>4. /\ \A rows \in failures : \A g \in rows : g.row.key["currency"] \in Currencies
        /\ "events" \in down => failures = {}
    BY <1>3
  <1> HIDE DEF won, failures
  <1>5. ASSUME NEW x \in RealizedFromEvents(store, req) PROVE DOMAIN x.byCurrency \subseteq Currencies /\ failures # {}
    <2> DEFINE lost(w, f) == {g \in f : g.row.key["entity"] \notin {h.row.key["entity"] : h \in w}}
               money(w, f) == Totals(lost(w, f), LAMBDA g : g.row.key["currency"], LossOf)
               leg(w, f) == [count |-> Cardinality(lost(w, f)), byCurrency |-> money(w, f)]
    <2>1. RealizedFromEvents(store, req) = {leg(w, f) : w \in won, f \in failures}
      BY DEF RealizedFromEvents, failures, won
    <2>2. \A w, f : DOMAIN money(w, f) = {g.row.key["currency"] : g \in lost(w, f)} BY DEF Totals
    <2>3. \A w, f : leg(w, f).byCurrency = money(w, f) /\ lost(w, f) \subseteq f OBVIOUS
    <2> HIDE DEF leg, money, lost
    <2>4. PICK w \in won, f \in failures : x = leg(w, f) BY <2>1
    <2>5. DOMAIN x.byCurrency = {g.row.key["currency"] : g \in lost(w, f)} /\ lost(w, f) \subseteq f BY <2>2, <2>3, <2>4
    <2>6. \A g \in f : g.row.key["currency"] \in Currencies BY <1>4
    <2> QED BY <2>4, <2>5, <2>6
  <1> QED BY <1>2, <1>4, <1>5 DEF store, None

LEMMA LegCurrencies ==
    ASSUME NEW reg, NEW rows, NEW count, NEW breaches
    PROVE  DOMAIN DeferredLeg(reg, rows, count, breaches).byCurrency = {r.currency : r \in rows}
  <1>1. DeferredLeg(reg, rows, count, breaches).byCurrency = Totals(rows, LAMBDA r : r.currency, LAMBDA r : r.minor)
    BY DEF DeferredLeg
  <1> QED BY <1>1 DEF Totals

\* The gauge's rows are of the samples' currencies.
LEMMA GaugeMoney ==
    ASSUME MoneyInv, NEW reg, NEW req \in Requests, NEW down
    PROVE  LET legs == DeferredFromGauge(Store(TRUE, TRUE, down), reg, req)
           IN  /\ \A g \in legs : DOMAIN g.leg.byCurrency \subseteq Currencies
               /\ "metrics" \in down => legs = {}
  <1> DEFINE store == Store(TRUE, TRUE, down)
             by == {"flow", "stage", "age_bucket", "currency"}
             series(metric) == InflightSeries(store, req, metric)
  <1>1. /\ \A p \in store.points : OfPayment(p.labels)
        /\ "metrics" \in down => "metrics" \in store.down
    BY StoreFacts
  <1> HIDE DEF store
  <1>2. ASSUME NEW metric
        PROVE  /\ \A values \in series(metric) : \A s \in values : s.row.labels["currency"] \in Currencies
               /\ "metrics" \in down => series(metric) = {}
    <2> DEFINE filters(i) == InflightFilters(req)[i]
               answers == [i \in DOMAIN InflightFilters(req) |-> Counter(store, metric, filters(i), by, req.window, 0)]
    <2>1. series(metric) = Gather(answers) BY DEF InflightSeries
    <2>2. \A i \in DOMAIN answers : \A a \in answers[i] : \A s \in a : s.labels["currency"] \in Currencies
      <3>1. "currency" \in by OBVIOUS
      <3> HIDE DEF by
      <3> QED BY <1>1, <3>1, MetricRows
    <2>3. "metrics" \in down => \A i \in DOMAIN answers : answers[i] = {} BY <1>1 DEF Counter, QueryMetric
    <2>4. DOMAIN answers # {} BY SomeQuery
    <2> HIDE DEF answers
    <2>5. \A values \in Gather(answers) : \A s \in values : s.row.labels["currency"] \in Currencies BY <2>2, Gathered
    <2>6. "metrics" \in down => Gather(answers) = {} BY <2>3, <2>4, Gathered
    <2> QED BY <2>1, <2>5, <2>6
  <1> DEFINE values == series("biz_inflight_value")
             counts == series("biz_inflight_count")
             answer(v, c) == [saw |-> v # {}, leg |-> GaugeLeg(reg, NonZero(v), NonZero(c))]
  <1>3. DeferredFromGauge(store, reg, req) = {answer(v, c) : v \in values, c \in counts} BY DEF DeferredFromGauge
  <1>4. /\ \A v \in values : \A s \in v : s.row.labels["currency"] \in Currencies
        /\ "metrics" \in down => values = {}
    BY <1>2
  <1>5. ASSUME NEW v \in values, NEW c PROVE DOMAIN answer(v, c).leg.byCurrency \subseteq Currencies
    <2>1. answer(v, c).leg = GaugeLeg(reg, NonZero(v), NonZero(c)) OBVIOUS
    <2>2. DOMAIN GaugeLeg(reg, NonZero(v), NonZero(c)).byCurrency = {r.currency : r \in NonZero(v)}
      BY LegCurrencies DEF GaugeLeg
    <2>3. \A r \in NonZero(v) : \E s \in v : r.currency = s.row.labels["currency"] BY DEF NonZero, GaugeRow
    <2> HIDE DEF answer
    <2> QED BY <1>4, <2>1, <2>2, <2>3
  <1> HIDE DEF values, counts, answer
  <1>6. \A g \in DeferredFromGauge(store, reg, req) : DOMAIN g.leg.byCurrency \subseteq Currencies BY <1>3, <1>5
  <1>7. "metrics" \in down => DeferredFromGauge(store, reg, req) = {} BY <1>3, <1>4
  <1> QED BY <1>6, <1>7 DEF store

\* An item in flight has an event, in the currency of its payment.
LEMMA ItemMoney ==
    ASSUME NEW f, NEW events, \A e \in events : OfPayment(e.labels), NEW stages, NEW lookback, NEW window
    PROVE  \A r \in ItemRows(f, events, stages, lookback, window) : r.currency \in Currencies
  <1> DEFINE log == {[entity |-> e.labels["entity"], stage |-> e.labels["stage"], result |-> e.labels["outcome"],
                      at |-> e.at, amount |-> e.amount] : e \in events}
             asked == Flow(f, stages, lookback)!Request(window.from, window.to, stages)
  <1>1. ASSUME NEW i \in Flow(f, stages, lookback)!InFlight(log, asked)
        PROVE  \E e \in events : e.labels["entity"] = i[2]
    <2> HIDE DEF log, asked
    <2>1. \E o \in log : i = <<o.stage, o.entity>>
      BY DEF Flow!InFlight, Flow!Items, Flow!Deferrals, Flow!Matching, Flow!Item
    <2> QED BY <2>1 DEF log
  <1> DEFINE of(i) == (CHOOSE e \in events : e.labels["entity"] = i[2]).labels["currency"]
             row(i) == [stage |-> i[1], entity |-> i[2], currency |-> of(i),
                        bucket |-> AgeBucketOrder[Flow(f, stages, lookback)!BucketOf(log, asked, i)],
                        minor |-> Flow(f, stages, lookback)!DeferredOf(log, asked, i)]
  <1>2. ItemRows(f, events, stages, lookback, window) = {row(i) : i \in Flow(f, stages, lookback)!InFlight(log, asked)}
    BY DEF ItemRows
  <1>3. \A i : row(i).currency = of(i) OBVIOUS
  <1>4. ASSUME NEW i \in Flow(f, stages, lookback)!InFlight(log, asked) PROVE of(i) \in Currencies
    <2> DEFINE e == CHOOSE e \in events : e.labels["entity"] = i[2]
    <2>1. e \in events BY <1>1
    <2> HIDE DEF e
    <2>2. e.labels["currency"] \in Currencies BY <2>1 DEF OfPayment
    <2> QED BY <2>2 DEF e
  <1> HIDE DEF log, asked, row, of
  <1> QED BY <1>2, <1>3, <1>4

LEMMA FlowMoney ==
    ASSUME NEW reg, NEW id, NEW events, \A e \in events : OfPayment(e.labels), NEW lookback, NEW window
    PROVE  \A r \in FlowRows(reg, id, events, lookback, window) : r.currency \in Currencies
  <1> DEFINE listed == IF FlowById(reg, id) = {} THEN {Unlisted} ELSE FlowById(reg, id)
             items(f) == ItemRows(f, events, StagesOf(events), lookback, window)
             tagged(x) == [flow |-> id, stage |-> x.stage, entity |-> x.entity,
                           currency |-> x.currency, bucket |-> x.bucket, minor |-> x.minor]
  <1>1. FlowRows(reg, id, events, lookback, window) = {tagged(x) : x \in UNION {items(f) : f \in listed}} BY DEF FlowRows
  <1>2. \A x : tagged(x).currency = x.currency OBVIOUS
  <1>3. \A f : \A x \in items(f) : x.currency \in Currencies BY ItemMoney
  <1> HIDE DEF items, tagged, listed
  <1> SUFFICES ASSUME NEW r \in FlowRows(reg, id, events, lookback, window) PROVE r.currency \in Currencies
    OBVIOUS
  <1>4. PICK x \in UNION {items(f) : f \in listed} : r = tagged(x) BY <1>1
  <1> QED BY <1>2, <1>3, <1>4

LEMMA EventMoney ==
    ASSUME MoneyInv, NEW reg, NEW req, NEW down
    PROVE  \A leg \in DeferredFromEvents(Store(TRUE, TRUE, down), reg, req) : DOMAIN leg.byCurrency \subseteq Currencies
  <1> DEFINE store == Store(TRUE, TRUE, down)
             filters == InflightFilters(req)
             rows == UNION {DeferredRows(store, reg, req, filters[i]) : i \in DOMAIN filters}
  <1>1. \A e \in store.events : OfPayment(e.labels) BY StoreFacts
  <1> HIDE DEF store
  <1>2. ASSUME NEW f, NEW r \in DeferredRows(store, reg, req, f) PROVE r.currency \in Currencies
    <2> DEFINE scope == [k \in DOMAIN f \ {"outcome"} |-> f[k]]
               events == {e \in store.events : MatchFilters(e.labels, scope)}
               of(id) == {e \in events : e.labels["flow"] = id}
               flow(id) == FlowRows(reg, id, of(id), EventsLookback(reg, f), req.window)
    <2>1. DeferredRows(store, reg, req, f) = UNION {flow(id) : id \in {e.labels["flow"] : e \in events}}
      BY DEF DeferredRows
    <2>2. ASSUME NEW id PROVE \A x \in flow(id) : x.currency \in Currencies
      <3>1. \A e \in of(id) : OfPayment(e.labels) BY <1>1
      <3> HIDE DEF of
      <3> QED BY <3>1, FlowMoney
    <2> HIDE DEF flow, events
    <2> QED BY <2>1, <2>2
  <1>3. \A r \in rows : r.currency \in Currencies
    <2> HIDE DEF filters
    <2> QED BY <1>2
  <1>4. DOMAIN EventLeg(reg, rows).byCurrency = {r.currency : r \in rows} BY LegCurrencies DEF EventLeg
  <1>5. \A leg \in DeferredFromEvents(store, reg, req) : leg = EventLeg(reg, rows)
    BY Zenon DEF DeferredFromEvents, None
  <1> HIDE DEF rows
  <1> QED BY <1>3, <1>4, <1>5 DEF store

LEMMA DeferredMoney ==
    ASSUME MoneyInv, NEW reg, NEW req \in Requests, NEW down
    PROVE  LET legs == Deferred(Store(TRUE, TRUE, down), reg, req)
           IN  /\ \A leg \in legs : DOMAIN leg.byCurrency \subseteq Currencies
               /\ "metrics" \in down => legs = None
  <1> DEFINE store == Store(TRUE, TRUE, down)
  <1>1. store.caps.metrics BY StoreFacts
  <1>2. /\ \A g \in DeferredFromGauge(store, reg, req) : DOMAIN g.leg.byCurrency \subseteq Currencies
        /\ "metrics" \in down => DeferredFromGauge(store, reg, req) = {}
    BY GaugeMoney
  <1>3. \A leg \in DeferredFromEvents(store, reg, req) : DOMAIN leg.byCurrency \subseteq Currencies BY EventMoney
  <1> HIDE DEF store
  <1>4. \A leg \in Deferred(store, reg, req) :
          \E g \in DeferredFromGauge(store, reg, req) : leg = g.leg \/ leg \in DeferredFromEvents(store, reg, req)
    BY <1>1 DEF Deferred
  <1>5. \A leg \in Deferred(store, reg, req) : DOMAIN leg.byCurrency \subseteq Currencies BY <1>2, <1>3, <1>4
  <1>6. "metrics" \in down => Deferred(store, reg, req) = {} BY <1>2, <1>4
  <1> QED BY <1>5, <1>6 DEF store, None

\* Without metrics there is no estimate.
LEMMA UnrealizedDown ==
    ASSUME MoneyInv, NEW reg, NEW req, NEW down, "metrics" \in down
    PROVE  Unrealized(Store(TRUE, TRUE, down), reg, req) \in {None, {NoEstimate}}
  <1> DEFINE store == Store(TRUE, TRUE, down)
             target == HourlyInstants(req.window)
             sizable == SizableFlows(store, reg, req)
             answers == [x \in sizable |-> UnrealizedOf(store, x[2], req.window, target)]
  <1>1. "metrics" \in store.down BY StoreFacts
  <1> HIDE DEF store
  <1>2. ASSUME NEW f PROVE UnrealizedOf(store, f, req.window, target) = {}
    <2> DEFINE weeks == CHOOSE w \in f.weeks : TRUE
               history == HourlyEntries(store, f, [from |-> Min(target) - weeks * HoursPerWeek * Hour, to |-> Min(target)])
               observed == HourlyEntries(store, f, ObservedRange(req.window, target))
               ranges(h, o) == UNION {UNION {RangeOf(f, c, Expected(h[c], target, weeks), Seen(o, c, target), aov)
                                               : aov \in AovMinor(store, f, c, req.window)} : c \in DOMAIN h}
    <2>1. \A range : HourlyEntries(store, f, range) = {} BY <1>1 DEF HourlyEntries, Counter, QueryMetric
    <2>2. UnrealizedOf(store, f, req.window, target) = {ranges(h, o) : h \in history, o \in observed} BY DEF UnrealizedOf
    <2>3. history = {} BY <2>1
    <2> HIDE DEF history, observed, ranges, target
    <2> QED BY <2>2, <2>3
  <1>3. Unrealized(store, reg, req) \in {{NoEstimate}, FromAnswers(answers)} BY DEF Unrealized
  <1>4. FromAnswers(answers) \in {None, {NoEstimate}}
    <2> DEFINE rows(x) == {[query |-> x[1], row |-> r] : r \in UNION answers[x]}
    <2>1. FromAnswers(answers) = IF \E x \in DOMAIN answers : answers[x] = None THEN None
                                 ELSE {RangeTotals(UNION {rows(x) : x \in DOMAIN answers})}
      BY DEF FromAnswers
    <2>2. DOMAIN answers = sizable /\ \A x \in sizable : answers[x] = None BY <1>2 DEF None
    <2> HIDE DEF answers, rows, sizable
    <2>3. CASE sizable = {}
      <3>1. UNION {rows(x) : x \in DOMAIN answers} = {} BY <2>2, <2>3
      <3>2. RangeTotals({}) = NoEstimate BY DEF RangeTotals
      <3> QED BY <2>1, <2>2, <2>3, <3>1, <3>2
    <2>4. CASE sizable # {} BY <2>1, <2>2, <2>4
    <2> QED BY <2>3, <2>4
  <1> HIDE DEF answers
  <1> QED BY <1>3, <1>4 DEF store, None

\* A registry's ladder is one Parse has accepted.
LEMMA AcceptedLadder ==
    ASSUME NEW reg \in Registries
    PROVE  LadderOf(reg) \in Seq(Int) /\ LadderDescends(LadderOf(reg))
  <1>1. PICK d \in Documents : reg \in Parse(d) BY DEF Registries
  <1>2. Accepted(d) /\ reg.severity = d.severity BY <1>1 DEF Parse, None, Some
  <1>3. LadderDescends([i \in DOMAIN d.severity |-> d.severity[i].floor]) BY <1>2 DEF Accepted, SeverityAccepted
  <1>4. [i \in DOMAIN d.severity |-> d.severity[i].floor] \in Seq(Int) BY MoneyPathAssumption
  <1> QED BY <1>2, <1>3, <1>4 DEF LadderOf

LEMMA MoneyOfLeg ==
    ASSUME NEW leg, \A x \in leg : DOMAIN x.byCurrency \subseteq Currencies
    PROVE  DOMAIN MoneyOf(leg) \subseteq Currencies
  <1>1. CASE leg = None
    <2>1. DOMAIN NoMoney = {} BY DEF NoMoney
    <2> QED BY <1>1, <2>1 DEF MoneyOf
  <1>2. CASE leg # None
    <2> DEFINE x == CHOOSE x \in leg : TRUE
    <2>1. x \in leg BY <1>2 DEF None
    <2> HIDE DEF x
    <2>2. DOMAIN x.byCurrency \subseteq Currencies BY <2>1
    <2> QED BY <1>2, <2>2 DEF MoneyOf, x
  <1> QED BY <1>1, <1>2

LEMMA SuggestionIsTightest == MoneyInv => SeverityIsTightest
  <1> SUFFICES ASSUME MoneyInv, NEW req \in Asked, NEW reg \in Registries, NEW down \in {{}, {"events"}, {"metrics"}}
               PROVE  LET report  == Compute(Store(TRUE, TRUE, down), reg, req)
                          minutes == req.window.to - req.window.from
                          floors  == {reg.severity[i].floor : i \in DOMAIN reg.severity}
                          risk(c) == Money(report.realized.byCurrency, c) + Money(report.deferred.byCurrency, c)
                          reached == {x \in floors : minutes > 0 /\ \E c \in Currencies : risk(c) >= x * minutes}
                      IN  /\ {reg.severity[i].floor : i \in report.severity} = (IF reached = {} THEN {} ELSE {Max(reached)})
                          /\ "events" \in down => report.realized.unavailable
                          /\ "metrics" \in down => report.deferred.unavailable /\ report.unrealized.unavailable
    BY DEF SeverityIsTightest
  <1> DEFINE store == Store(TRUE, TRUE, down)
             report == Compute(store, reg, req)
             realized == RealizedLeg(store, req)
             deferred == Deferred(store, reg, req)
             unrealized == Unrealized(store, reg, req)
             r == MoneyOf(realized)
             d == MoneyOf(deferred)
             atRisk == AtRisk(r, d)
             customers == IF store.caps.events THEN Customers(store, req) ELSE None
             floors == {reg.severity[i].floor : i \in DOMAIN reg.severity}
             minutes == req.window.to - req.window.from
  <1>1. req \in Requests /\ req.window.to \in Int /\ req.window.from \in Int
    <2>1. req \in Requests BY DEF Asked, Over
    <2> QED BY <2>1, MoneyPathAssumption
  <1>2. /\ \A x \in realized : DOMAIN x.byCurrency \subseteq Currencies
        /\ "events" \in down => realized = None
    BY <1>1, RealizedMoney
  <1>3. /\ \A x \in deferred : DOMAIN x.byCurrency \subseteq Currencies
        /\ "metrics" \in down => deferred = None
    BY <1>1, DeferredMoney
  <1>4. "metrics" \in down => unrealized \in {None, {NoEstimate}} BY UnrealizedDown
  <1>5. report = Report(reg, req, realized, deferred, unrealized, customers) BY DEF Compute
  <1> HIDE DEF store, report, realized, deferred, unrealized, customers
  <1>6. /\ report.realized.unavailable <=> realized = None
        /\ report.deferred.unavailable <=> deferred = None
        /\ report.realized.byCurrency = r /\ report.deferred.byCurrency = d
        /\ report.unrealized = (IF unrealized = None THEN NoEstimate ELSE CHOOSE x \in unrealized : TRUE)
        /\ report.severity = SuggestSeverity(reg, req.window, atRisk)
    BY <1>5 DEF Report
  <1>7. "metrics" \in down => report.unrealized.unavailable
    <2>1. NoEstimate.unavailable BY DEF NoEstimate
    <2>2. "metrics" \in down => report.unrealized = NoEstimate
      <3> HIDE DEF atRisk, r, d
      <3>1. CASE unrealized = None BY <1>6, <3>1
      <3>2. CASE unrealized = {NoEstimate} /\ unrealized # None BY <1>6, <3>2
      <3> QED BY <1>4, <3>1, <3>2
    <2> QED BY <2>1, <2>2
  <1>8. DOMAIN r \subseteq Currencies /\ DOMAIN d \subseteq Currencies
    BY <1>2, <1>3, MoneyOfLeg
  <1> HIDE DEF r, d
  <1>9. DOMAIN atRisk \subseteq Currencies /\ \A c : Money(atRisk, c) = IF c \in DOMAIN r \cup DOMAIN d
                                                                       THEN Money(r, c) + Money(d, c) ELSE 0
    BY <1>8 DEF AtRisk, Money
  <1>10. \A c : Money(atRisk, c) = Money(r, c) + Money(d, c) BY <1>9 DEF Money
  <1>11. {reg.severity[i].floor : i \in SuggestSeverity(reg, req.window, atRisk)}
           = Greatest(ReachedFloors(reg, req.window, atRisk, Currencies))
    <2>1. LadderOf(reg) \in Seq(Int) /\ LadderDescends(LadderOf(reg)) BY AcceptedLadder
    <2>2. DOMAIN atRisk \subseteq Currencies BY <1>9
    <2> HIDE DEF atRisk
    <2> QED BY <1>1, <2>1, <2>2, TightestLevel
  <1> HIDE DEF atRisk
  <1>12. \A c : Money(report.realized.byCurrency, c) + Money(report.deferred.byCurrency, c) = Money(atRisk, c)
    BY <1>6, <1>10
  <1> DEFINE risk(c) == Money(report.realized.byCurrency, c) + Money(report.deferred.byCurrency, c)
             total == ReachedFloors(reg, req.window, atRisk, Currencies)
             reached == {x \in floors : minutes > 0 /\ \E c \in Currencies : risk(c) >= x * minutes}
  <1>13. reached = total
    <2> HIDE DEF risk
    <2>1. \A c : risk(c) = Money(atRisk, c) BY <1>12 DEF risk
    <2> QED BY <2>1 DEF ReachedFloors
  <1>14. {reg.severity[i].floor : i \in report.severity} = IF reached = {} THEN {} ELSE {Max(reached)}
    <2>1. {reg.severity[i].floor : i \in report.severity} = IF total = {} THEN {} ELSE {Max(total)} BY <1>6, <1>11 DEF Greatest
    <2> HIDE DEF reached, total
    <2> QED BY <1>13, <2>1
  <1>15. "events" \in down => report.realized.unavailable BY <1>2, <1>6
  <1>16. "metrics" \in down => report.deferred.unavailable BY <1>3, <1>6
  <1> QED BY <1>7, <1>14, <1>15, <1>16 DEF report, store

\* The suggested level is the one with the greatest floor any currency's rate
\* reaches, and a leg whose store is down is marked and has no part in it
\* (SuggestSeverity, Compute), for any ladder Parse accepts, any registry,
\* request and history.
THEOREM TightestSeverity == Spec => []SeverityIsTightest
  <1>1. Init => MoneyInv BY DEF Init, MoneyInv
  <1> QED BY <1>1, MoneyStep, SuggestionIsTightest, PTL DEF Spec

-----------------------------------------------------------------------------
(* Sums *)

LEMMA LeastNat ==
    ASSUME NEW T, T \subseteq Nat, T # {}
    PROVE  \E x \in T : \A y \in T : x <= y
  <1>1. PICK x \in T : \A y \in T : ~ (<<y, x>> \in OpToRel(<, Nat)) BY NatLessThanWellFounded, WFMin
  <1>2. \A y \in T : x <= y
    <2> SUFFICES ASSUME NEW y \in T PROVE x <= y OBVIOUS
    <2>1. x \in Nat /\ y \in Nat OBVIOUS
    <2>2. ~ (y < x) BY <1>1, <2>1 DEF OpToRel
    <2> QED BY <2>1, <2>2
  <1> QED BY <1>2

\* Among subsets of a finite set one is the smallest.
LEMMA SmallestSet ==
    ASSUME NEW S, IsFiniteSet(S), NEW Bad, Bad \subseteq SUBSET S, Bad # {}
    PROVE  \E s \in Bad : /\ IsFiniteSet(s)
                          /\ \A x \in s : s \ {x} \notin Bad
  <1> DEFINE Sizes == {Cardinality(s) : s \in Bad}
  <1>1. \A s \in Bad : IsFiniteSet(s) /\ Cardinality(s) \in Nat BY FS_Subset, FS_CardinalityType
  <1>2. Sizes \subseteq Nat /\ Sizes # {} BY <1>1
  <1>3. PICK n \in Sizes : \A m \in Sizes : n <= m
    <2> HIDE DEF Sizes
    <2> QED BY <1>2, LeastNat
  <1>4. PICK s \in Bad : n = Cardinality(s) BY <1>3
  <1>5. ASSUME NEW x \in s, s \ {x} \in Bad PROVE FALSE
    <2>1. Cardinality(s \ {x}) = Cardinality(s) - 1 BY <1>1, FS_RemoveElement
    <2>2. Cardinality(s) <= Cardinality(s \ {x}) BY <1>3, <1>4, <1>5
    <2> QED BY <1>1, <2>1, <2>2
  <1> QED BY <1>1, <1>5

\* The fold under SumFunction: iter[s] adds up f over s.
Adds(iter, f, S) ==
    iter = [s \in SUBSET S |-> IF s = {} THEN 0 ELSE f[CHOOSE x \in s : TRUE] + iter[s \ {CHOOSE x \in s : TRUE}]]

LEMMA AddsStep ==
    ASSUME NEW f, NEW S, NEW iter, Adds(iter, f, S)
    PROVE  /\ iter[{}] = 0
           /\ \A s \in SUBSET S : s # {} => \E x \in s : iter[s] = f[x] + iter[s \ {x}]
  <1>1. \A s \in SUBSET S : iter[s] = IF s = {} THEN 0 ELSE f[CHOOSE x \in s : TRUE] + iter[s \ {CHOOSE x \in s : TRUE}]
    BY DEF Adds
  <1>2. \A s : s # {} => (CHOOSE x \in s : TRUE) \in s OBVIOUS
  <1> QED BY <1>1, <1>2

LEMMA AddsExists ==
    ASSUME NEW S, IsFiniteSet(S), NEW f
    PROVE  \E iter : Adds(iter, f, S)
  <1> DEFINE Upto(n) == {s \in SUBSET S : Cardinality(s) <= n}
             c(s) == CHOOSE x \in s : TRUE
             Ok(g, n) == g = [s \in Upto(n) |-> IF s = {} THEN 0 ELSE f[c(s)] + g[s \ {c(s)}]]
             Bad == {n \in Nat : ~ \E g : Ok(g, n)}
  <1>1. \A s \in SUBSET S : IsFiniteSet(s) /\ Cardinality(s) \in Nat /\ (s # {} => c(s) \in s)
    BY FS_Subset, FS_CardinalityType
  <1>2. \A s \in SUBSET S : s # {} => s \ {c(s)} \in SUBSET S /\ Cardinality(s \ {c(s)}) = Cardinality(s) - 1
    BY <1>1, FS_RemoveElement
  <1>3. \A s \in SUBSET S : Cardinality(s) = 0 <=> s = {} BY <1>1, FS_EmptySet
  <1>4. Bad = {}
    <2> SUFFICES ASSUME Bad # {} PROVE FALSE OBVIOUS
    <2>1. PICK n \in Bad : \A m \in Bad : n <= m
      <3>1. Bad \subseteq Nat OBVIOUS
      <3> HIDE DEF Bad
      <3> QED BY <3>1, LeastNat
    <2>2. CASE n = 0
      <3> DEFINE g == [s \in Upto(0) |-> 0]
      <3>1. \A s \in Upto(0) : s = {} BY <1>1, <1>3
      <3>2. Ok(g, 0) BY <3>1
      <3> QED BY <2>1, <2>2, <3>2
    <2>3. CASE n # 0
      <3>0. n \in Nat /\ n - 1 \in Nat /\ ~ (n <= n - 1) BY <2>1, <2>3
      <3>1. n - 1 \in Nat /\ n - 1 \notin Bad
        <4> HIDE DEF Bad
        <4> QED BY <2>1, <3>0
      <3>2. PICK g : Ok(g, n - 1) BY <3>1
      <3> DEFINE h == [s \in Upto(n) |-> IF s = {} THEN 0 ELSE f[c(s)] + g[s \ {c(s)}]]
      <3>3. \A s \in Upto(n) : s # {} => s \ {c(s)} \in Upto(n - 1) BY <1>1, <1>2, <3>1
      <3>4. \A s \in Upto(n - 1) : s \in Upto(n) BY <1>1, <3>1
      <3>5. ASSUME NEW s \in Upto(n - 1) PROVE h[s] = g[s]
        <4>1. g[s] = IF s = {} THEN 0 ELSE f[c(s)] + g[s \ {c(s)}] BY <3>2
        <4>2. h[s] = IF s = {} THEN 0 ELSE f[c(s)] + g[s \ {c(s)}] BY <3>4
        <4> QED BY <4>1, <4>2
      <3>6. \A s \in Upto(n) : s # {} => g[s \ {c(s)}] = h[s \ {c(s)}] BY <3>3, <3>5
      <3>7. Ok(h, n)
        <4> DEFINE next(k) == [s \in Upto(n) |-> IF s = {} THEN 0 ELSE f[c(s)] + k[s \ {c(s)}]]
        <4>1. next(g) = next(h)
          <5> HIDE DEF h, Upto, c
          <5> QED BY <3>6
        <4> QED BY <4>1
      <3> QED BY <2>1, <3>7
    <2> QED BY <2>2, <2>3
  <1>5. Cardinality(S) \in Nat BY FS_CardinalityType
  <1>6. PICK g : Ok(g, Cardinality(S)) BY <1>4, <1>5
  <1>7. Upto(Cardinality(S)) = SUBSET S BY FS_Subset
  <1>8. Adds(g, f, S) BY <1>6, <1>7 DEF Adds
  <1> QED BY <1>8

LEMMA AddsInt ==
    ASSUME NEW S, IsFiniteSet(S), NEW f, \A x \in S : f[x] \in Int, NEW iter, Adds(iter, f, S), NEW s \in SUBSET S
    PROVE  iter[s] \in Int
  <1> DEFINE Bad == {t \in SUBSET S : iter[t] \notin Int}
  <1>1. CASE Bad # {}
    <2>1. PICK t \in Bad : \A x \in t : t \ {x} \notin Bad BY <1>1, SmallestSet
    <2>0. iter[{}] = 0 BY AddsStep
    <2>2. t # {} BY <2>0, <2>1
    <2>3. PICK x \in t : iter[t] = f[x] + iter[t \ {x}] BY <2>1, <2>2, AddsStep
    <2>4. iter[t \ {x}] \in Int /\ f[x] \in Int BY <2>1
    <2> QED BY <2>1, <2>3, <2>4
  <1> QED BY <1>1

\* Folds over two sets agree on a subset of both where the functions do.
LEMMA AddsSame ==
    ASSUME NEW S, NEW f, NEW i, Adds(i, f, S), NEW T, NEW g, NEW j, Adds(j, g, T),
           NEW U, IsFiniteSet(U), U \subseteq S, U \subseteq T, \A x \in U : f[x] = g[x]
    PROVE  i[U] = j[U]
  <1> DEFINE Bad == {t \in SUBSET U : i[t] # j[t]}
             c(s) == CHOOSE x \in s : TRUE
  <1>1. CASE Bad # {}
    <2>1. PICK t \in Bad : \A x \in t : t \ {x} \notin Bad BY <1>1, SmallestSet
    <2>2. t # {} BY <2>1, AddsStep
    <2>3. c(t) \in t /\ t \in SUBSET S /\ t \in SUBSET T BY <2>2
    <2>4. i[t] = f[c(t)] + i[t \ {c(t)}] BY <2>2, <2>3 DEF Adds
    <2>5. j[t] = g[c(t)] + j[t \ {c(t)}] BY <2>2, <2>3 DEF Adds
    <2>6. i[t \ {c(t)}] = j[t \ {c(t)}] /\ f[c(t)] = g[c(t)] BY <2>1, <2>3
    <2> QED BY <2>1, <2>4, <2>5, <2>6
  <1> QED BY <1>1

\* In whatever order.
LEMMA AddsAny ==
    ASSUME NEW S, IsFiniteSet(S), NEW f, \A x \in S : f[x] \in Int, NEW iter, Adds(iter, f, S), NEW s \in SUBSET S, NEW x \in s
    PROVE  iter[s] = f[x] + iter[s \ {x}]
  <1> DEFINE Bad == {t \in SUBSET S : \E y \in t : iter[t] # f[y] + iter[t \ {y}]}
  <1>1. CASE Bad # {}
    <2>1. PICK t \in Bad : \A y \in t : t \ {y} \notin Bad BY <1>1, SmallestSet
    <2>2. PICK y \in t : iter[t] # f[y] + iter[t \ {y}] BY <2>1
    <2>3. PICK z \in t : iter[t] = f[z] + iter[t \ {z}] BY <2>1, <2>2, AddsStep
    <2>4. y # z BY <2>2, <2>3
    <2>5. iter[t \ {z}] = f[y] + iter[(t \ {z}) \ {y}] BY <2>1, <2>4
    <2>6. iter[t \ {y}] = f[z] + iter[(t \ {y}) \ {z}] BY <2>1, <2>4
    <2>7. (t \ {y}) \ {z} = (t \ {z}) \ {y} OBVIOUS
    <2>8. iter[(t \ {z}) \ {y}] \in Int /\ f[y] \in Int /\ f[z] \in Int
      <3> DEFINE u == (t \ {z}) \ {y}
      <3>1. u \in SUBSET S /\ y \in S /\ z \in S BY <2>1
      <3> HIDE DEF Bad, u
      <3>2. iter[u] \in Int BY <3>1, AddsInt
      <3> QED BY <3>1, <3>2 DEF u
    <2> DEFINE u == iter[(t \ {z}) \ {y}]
    <2>9. iter[t] = f[z] + (f[y] + u) /\ f[y] + iter[t \ {y}] = f[y] + (f[z] + u) BY <2>3, <2>5, <2>6, <2>7
    <2>10. u \in Int BY <2>8
    <2> HIDE DEF u
    <2>11. f[z] + (f[y] + u) = f[y] + (f[z] + u) BY <2>8, <2>10
    <2> QED BY <2>2, <2>9, <2>11
  <1> QED BY <1>1

LEMMA SumIter ==
    ASSUME NEW S, IsFiniteSet(S), NEW f, DOMAIN f = S
    PROVE  \E iter : Adds(iter, f, S) /\ SumFunction(f) = iter[S]
  <1>1. SumFunction(f) = (CHOOSE iter : Adds(iter, f, S))[S]
    BY DEF SumFunction, SumFunctionOnSet, FoldFunctionOnSet, MapThenFoldSet, Adds
  <1> QED BY <1>1, AddsExists

\* What a sum is: nothing over the empty set, else any element and the rest.
LEMMA SumFacts ==
    ASSUME NEW S, IsFiniteSet(S), NEW f \in [S -> Int]
    PROVE  /\ SumFunction(f) \in Int
           /\ S = {} => SumFunction(f) = 0
           /\ \A x \in S : SumFunction(f) = f[x] + SumFunction([y \in S \ {x} |-> f[y]])
  <1>1. PICK iter : Adds(iter, f, S) /\ SumFunction(f) = iter[S] BY SumIter
  <1>2. SumFunction(f) \in Int BY <1>1, AddsInt
  <1>3. S = {} => SumFunction(f) = 0 BY <1>1, AddsStep
  <1>4. ASSUME NEW x \in S PROVE SumFunction(f) = f[x] + SumFunction([y \in S \ {x} |-> f[y]])
    <2> DEFINE R == S \ {x}
               g == [y \in R |-> f[y]]
    <2>1. IsFiniteSet(R) /\ R \subseteq S BY FS_Subset
    <2>2. DOMAIN g = R /\ \A y \in R : f[y] = g[y] OBVIOUS
    <2> HIDE DEF R, g
    <2>3. PICK j : Adds(j, g, R) /\ SumFunction(g) = j[R] BY <2>1, <2>2, SumIter
    <2>4. iter[R] = j[R] BY <1>1, <2>1, <2>2, <2>3, AddsSame
    <2>5. iter[S] = f[x] + iter[S \ {x}] BY <1>1, AddsAny
    <2> QED BY <1>1, <2>3, <2>4, <2>5 DEF R, g
  <1> QED BY <1>2, <1>3, <1>4

LEMMA SumNat ==
    ASSUME NEW S, IsFiniteSet(S), NEW f \in [S -> Nat]
    PROVE  SumFunction(f) \in Nat
  <1> DEFINE of(s) == [x \in s |-> f[x]]
             Bad == {s \in SUBSET S : SumFunction(of(s)) \notin Nat}
  <1>1. \A s \in SUBSET S : of(s) \in [s -> Int] OBVIOUS
  <1>2. CASE Bad # {}
    <2>1. PICK s \in Bad : IsFiniteSet(s) /\ \A x \in s : s \ {x} \notin Bad BY <1>2, SmallestSet
    <2>2. of(s) \in [s -> Int] BY <2>1, <1>1
    <2>3. s # {} BY <2>1, <2>2, SumFacts
    <2>4. PICK x \in s : TRUE BY <2>3
    <2>5. SumFunction(of(s)) = of(s)[x] + SumFunction([y \in s \ {x} |-> of(s)[y]])
      <3> HIDE DEF of
      <3> QED BY <2>1, <2>2, SumFacts
    <2>6. [y \in s \ {x} |-> of(s)[y]] = of(s \ {x}) /\ of(s)[x] = f[x] OBVIOUS
    <2>7. SumFunction(of(s \ {x})) \in Nat /\ f[x] \in Nat BY <2>1
    <2> HIDE DEF of
    <2> QED BY <2>1, <2>5, <2>6, <2>7
  <1>3. f = of(S) OBVIOUS
  <1> QED BY <1>2, <1>3

\* The sum of f over a part of its domain.
SumOver(s, f) == SumFunction([x \in s |-> f[x]])

LEMMA SumRest ==
    ASSUME NEW S, IsFiniteSet(S), NEW f \in [S -> Nat]
    PROVE  /\ SumFunction(f) \in Nat /\ SumFunction(f) = SumOver(S, f)
           /\ S = {} => SumFunction(f) = 0
           /\ \A x \in S : SumFunction(f) = f[x] + SumOver(S \ {x}, f)
  <1>1. f \in [S -> Int] /\ f = [x \in S |-> f[x]] OBVIOUS
  <1> QED BY <1>1, SumFacts, SumNat DEF SumOver

LEMMA SumStep ==
    ASSUME NEW S, IsFiniteSet(S), NEW f \in [S -> Nat], NEW s \in SUBSET S
    PROVE  /\ SumOver(s, f) \in Nat
           /\ s = {} => SumOver(s, f) = 0
           /\ \A x \in s : SumOver(s, f) = f[x] + SumOver(s \ {x}, f)
  <1> DEFINE g == [y \in s |-> f[y]]
  <1>1. IsFiniteSet(s) BY FS_Subset
  <1>2. g \in [s -> Nat] /\ \A x \in s : g[x] = f[x] OBVIOUS
  <1>3. \A x \in s : [y \in s \ {x} |-> g[y]] = [y \in s \ {x} |-> f[y]] OBVIOUS
  <1>4. SumOver(s, f) = SumFunction(g) BY DEF SumOver
  <1>5. \A x \in s : SumOver(s \ {x}, g) = SumOver(s \ {x}, f) BY <1>3 DEF SumOver
  <1> HIDE DEF g
  <1>6. /\ SumFunction(g) \in Nat
        /\ s = {} => SumFunction(g) = 0
        /\ \A x \in s : SumFunction(g) = g[x] + SumOver(s \ {x}, g)
    BY <1>1, <1>2, SumRest
  <1>7. \A x \in s : SumOver(s, f) = f[x] + SumOver(s \ {x}, f) BY <1>2, <1>4, <1>5, <1>6
  <1> QED BY <1>4, <1>6, <1>7

\* A sum whose terms are each below a term of their own in another is below it.
LEMMA SumWithin ==
    ASSUME NEW S, IsFiniteSet(S), NEW f \in [S -> Nat], NEW T, IsFiniteSet(T), NEW g \in [T -> Nat],
           NEW h \in [S -> T], \A x, y \in S : h[x] = h[y] => x = y, \A x \in S : f[x] <= g[h[x]]
    PROVE  SumFunction(f) <= SumFunction(g)
  <1> DEFINE Bad == {s \in SUBSET S : \E t \in SUBSET T : {h[x] : x \in s} \subseteq t /\ ~ (SumOver(s, f) <= SumOver(t, g))}
  <1>1. ASSUME Bad # {} PROVE FALSE
    <2>1. PICK s \in Bad : IsFiniteSet(s) /\ \A x \in s : s \ {x} \notin Bad BY <1>1, SmallestSet
    <2>2. PICK t \in SUBSET T : {h[x] : x \in s} \subseteq t /\ ~ (SumOver(s, f) <= SumOver(t, g)) BY <2>1
    <2>3. s \in SUBSET S /\ SumOver(s, f) \in Nat /\ SumOver(t, g) \in Nat BY <2>1, SumStep
    <2>4. s # {} BY <2>2, <2>3, SumStep
    <2>5. PICK x \in s : TRUE BY <2>4
    <2> DEFINE z == h[x]
    <2>6. z \in t /\ x \in S /\ f[x] \in Nat /\ g[z] \in Nat /\ f[x] <= g[z] BY <2>2, <2>3
    <2>7. {h[y] : y \in s \ {x}} \subseteq t \ {z} BY <2>2, <2>3
    <2>8. s \ {x} \in SUBSET S /\ t \ {z} \in SUBSET T BY <2>3
    <2>9. SumOver(s \ {x}, f) <= SumOver(t \ {z}, g) BY <2>1, <2>7, <2>8
    <2> HIDE DEF z, Bad
    <2>10. SumOver(s, f) = f[x] + SumOver(s \ {x}, f) BY <2>3, SumStep
    <2>11. SumOver(t, g) = g[z] + SumOver(t \ {z}, g) BY <2>6, SumStep
    <2>12. SumOver(s \ {x}, f) \in Nat /\ SumOver(t \ {z}, g) \in Nat BY <2>8, SumStep
    <2> QED BY <2>2, <2>3, <2>6, <2>9, <2>10, <2>11, <2>12
  <1>2. S \notin Bad BY <1>1
  <1>3. {h[x] : x \in S} \subseteq T OBVIOUS
  <1>4. SumOver(S, f) <= SumOver(T, g) BY <1>2, <1>3
  <1> QED BY <1>4, SumRest

\* Terms that correspond one to one have the same sum.
LEMMA SumSame ==
    ASSUME NEW S, IsFiniteSet(S), NEW f \in [S -> Nat], NEW T, IsFiniteSet(T), NEW g \in [T -> Nat],
           NEW h \in [S -> T], \A x, y \in S : h[x] = h[y] => x = y, \A t \in T : \E x \in S : h[x] = t,
           \A x \in S : f[x] = g[h[x]]
    PROVE  SumFunction(f) = SumFunction(g)
  <1> DEFINE k == [t \in T |-> CHOOSE x \in S : h[x] = t]
  <1>1. \A x \in S : f[x] \in Nat /\ g[h[x]] \in Nat /\ f[x] <= g[h[x]] OBVIOUS
  <1>2. SumFunction(f) <= SumFunction(g) BY <1>1, SumWithin
  <1>3. \A t \in T : k[t] \in S /\ h[k[t]] = t OBVIOUS
  <1>4. k \in [T -> S] BY <1>3
  <1> HIDE DEF k
  <1>5. \A x, y \in T : k[x] = k[y] => x = y BY <1>3
  <1>6. \A t \in T : g[t] <= f[k[t]] BY <1>1, <1>3
  <1>7. SumFunction(g) <= SumFunction(f) BY <1>4, <1>5, <1>6, SumWithin
  <1>8. SumFunction(f) \in Nat /\ SumFunction(g) \in Nat BY SumNat
  <1> QED BY <1>2, <1>7, <1>8

\* Over two sets apart from each other.
LEMMA SumUnion ==
    ASSUME NEW S, IsFiniteSet(S), NEW f \in [S -> Nat], NEW A \in SUBSET S, NEW B \in SUBSET S, A \cap B = {}
    PROVE  SumOver(A \cup B, f) = SumOver(A, f) + SumOver(B, f)
  <1> DEFINE Bad == {s \in SUBSET S : s \cap B = {} /\ SumOver(s \cup B, f) # SumOver(s, f) + SumOver(B, f)}
  <1>1. ASSUME Bad # {} PROVE FALSE
    <2>1. PICK s \in Bad : \A x \in s : s \ {x} \notin Bad BY <1>1, SmallestSet
    <2>2. s \in SUBSET S /\ s \cap B = {} /\ SumOver(s \cup B, f) # SumOver(s, f) + SumOver(B, f) BY <2>1
    <2>3. SumOver(B, f) \in Nat /\ SumOver(s, f) \in Nat BY <2>2, SumStep
    <2>4. s # {}
      <3> SUFFICES ASSUME s = {} PROVE FALSE OBVIOUS
      <3>1. SumOver(s, f) = 0 /\ s \cup B = B BY <2>2, SumStep
      <3> QED BY <2>2, <2>3, <3>1
    <2>5. PICK x \in s : TRUE BY <2>4
    <2>6. PICK r : r = s \ {x} OBVIOUS
    <2>7. r \in SUBSET S /\ r \cap B = {} /\ s \cup B \in SUBSET S /\ x \in s \cup B /\ (s \cup B) \ {x} = r \cup B
      BY <2>2, <2>6
    <2>8. SumOver(r \cup B, f) = SumOver(r, f) + SumOver(B, f) BY <2>1, <2>6, <2>7
    <2>9. SumOver(r, f) \in Nat /\ f[x] \in Nat BY <2>2, <2>7, SumStep
    <2>10. SumOver(s, f) = f[x] + SumOver(r, f) BY <2>2, <2>6, SumStep
    <2>11. SumOver(s \cup B, f) = f[x] + SumOver(r \cup B, f) BY <2>7, SumStep
    <2> QED BY <2>2, <2>3, <2>8, <2>9, <2>10, <2>11
  <1>2. A \notin Bad BY <1>1
  <1> QED BY <1>2

\* Part by part, of parts that share nothing and leave nothing out.
LEMMA SumParts ==
    ASSUME NEW S, IsFiniteSet(S), NEW f \in [S -> Nat], NEW R, IsFiniteSet(R), NEW part \in [R -> SUBSET S],
           \A x \in S : \E r \in R : x \in part[r],
           \A q, r \in R : q # r => part[q] \cap part[r] = {}
    PROVE  SumFunction(f) = SumFunction([r \in R |-> SumOver(part[r], f)])
  <1> DEFINE per == [r \in R |-> SumOver(part[r], f)]
             all(q) == UNION {part[r] : r \in q}
             Bad == {q \in SUBSET R : SumOver(all(q), f) # SumOver(q, per)}
  <1>1. per \in [R -> Nat]
    <2>1. \A r \in R : part[r] \in SUBSET S OBVIOUS
    <2> QED BY <2>1, SumStep
  <1>2. \A q \in SUBSET R : all(q) \in SUBSET S OBVIOUS
  <1>3. ASSUME Bad # {} PROVE FALSE
    <2>1. PICK q \in Bad : \A r \in q : q \ {r} \notin Bad BY <1>3, SmallestSet
    <2>2. q \in SUBSET R /\ SumOver(all(q), f) # SumOver(q, per) BY <2>1
    <2>3. q # {}
      <3> SUFFICES ASSUME q = {} PROVE FALSE OBVIOUS
      <3>1. all(q) = {} /\ {} \in SUBSET S /\ {} \in SUBSET R OBVIOUS
      <3> HIDE DEF per, all, Bad
      <3>2. SumOver({}, f) = 0 /\ SumOver({}, per) = 0 BY <1>1, <3>1, SumStep
      <3> QED BY <2>2, <3>1, <3>2
    <2>4. PICK r \in q : TRUE BY <2>3
    <2>5. PICK p : p = q \ {r} OBVIOUS
    <2>6. p \in SUBSET R /\ p \notin Bad BY <2>1, <2>2, <2>5
    <2>7. SumOver(all(p), f) = SumOver(p, per) BY <2>6
    <2>8. all(q) = part[r] \cup all(p) BY <2>4, <2>5
    <2>9. part[r] \cap all(p) = {} BY <2>2, <2>4, <2>5
    <2>10. per[r] = SumOver(part[r], f) /\ part[r] \in SUBSET S BY <2>2, <2>4
    <2>11. all(p) \in SUBSET S BY <1>2, <2>6
    <2> HIDE DEF per, all, Bad
    <2>12. SumOver(all(q), f) = SumOver(part[r], f) + SumOver(all(p), f) BY <2>8, <2>9, <2>10, <2>11, SumUnion
    <2>13. SumOver(q, per) = per[r] + SumOver(p, per) BY <1>1, <2>2, <2>4, <2>5, SumStep
    <2> QED BY <2>2, <2>7, <2>10, <2>12, <2>13
  <1>4. SumOver(all(R), f) = SumOver(R, per)
    <2>1. R \notin Bad BY <1>3
    <2> QED BY <2>1
  <1>5. all(R) = S OBVIOUS
  <1> HIDE DEF per, all
  <1>6. SumFunction(f) = SumOver(S, f) /\ SumFunction(per) = SumOver(R, per) BY <1>1, SumRest
  <1> QED BY <1>4, <1>5, <1>6 DEF per

LEMMA FiniteImage ==
    ASSUME NEW S, IsFiniteSet(S), NEW h, DOMAIN h = S
    PROVE  IsFiniteSet({h[x] : x \in S})
  <1>1. [x \in S |-> h[x]] \in Surjection(S, {h[x] : x \in S}) BY DEF Surjection
  <1> QED BY <1>1, FS_Surjection

-----------------------------------------------------------------------------
(* What the queries answer, and the realized loss *)

\* The points of a family that a query of one bucket is about.
Kept(store, metric, filters, range) ==
    {p \in store.points : /\ p.name = metric /\ MatchFilters(p.labels, filters)
                          /\ IF metric \in GaugeFamilies THEN p.at < range.to ELSE InRange(p.at, range)}

\* Those a key's row adds up.
Added(store, metric, filters, range, by, k) ==
    Reduced({p \in Kept(store, metric, filters, range) : GroupKey(p.labels, by) = k},
            range.from, range.to, metric \in GaugeFamilies)

\* One row for every key, at the sum of the points its bucket is made of.
AnswersMetric(rows, store, metric, filters, by, range) ==
    /\ IsFiniteSet(rows)
    /\ {s.labels : s \in rows} = {GroupKey(p.labels, by) : p \in Kept(store, metric, filters, range)}
    /\ \A s, t \in rows : s.labels = t.labels => s = t
    /\ \A s \in rows : LevelOf(s) = SumFunction([p \in Added(store, metric, filters, range, by, s.labels) |-> p.value])

\* What a query of one bucket answers.
LEMMA MetricAnswer ==
    ASSUME NEW store, store.caps.metrics, "metrics" \notin store.down, IsFiniteSet(store.points),
           NEW metric, \A p \in store.points : p.name = metric => p.value \in Nat,
           NEW filters, NEW by, NEW range, range.from \in Nat, range.to \in Nat
    PROVE  \E rows : /\ Counter(store, metric, filters, by, range, 0) = {rows}
                     /\ AnswersMetric(rows, store, metric, filters, by, range)
  <1> DEFINE gauge == metric \in GaugeFamilies
             kept == Kept(store, metric, filters, range)
             of(k) == {p \in kept : GroupKey(p.labels, by) = k}
             terms(k) == [p \in Reduced(of(k), range.from, range.to, gauge) |-> p.value]
             qy == [metric |-> metric, agg |-> "sum", filters |-> filters, groupBy |-> by, range |-> range, step |-> 0]
             keys == {GroupKey(p.labels, by) : p \in kept}
             row(k) == [labels |-> k, points |-> BucketPoints(of(k), qy, gauge)]
             rows == {row(k) : k \in keys}
  <1>1. /\ qy.metric = metric /\ qy.agg = "sum" /\ qy.filters = filters /\ qy.groupBy = by /\ qy.range = range
        /\ qy.step = 0
    OBVIOUS
  <1>2. Counter(store, metric, filters, by, range, 0) = {rows}
    <2>1. MatchingPoints(store, qy) = kept BY <1>1 DEF MatchingPoints, Kept
    <2>2. Counter(store, metric, filters, by, range, 0) = QueryMetric(store, qy) BY DEF Counter
    <2> HIDE DEF qy, kept
    <2> DEFINE group(k) == {p \in kept : GroupKey(p.labels, qy.groupBy) = k}
               entry(k) == [labels |-> k, points |-> BucketPoints(group(k), qy, qy.metric \in GaugeFamilies)]
               named == {GroupKey(p.labels, qy.groupBy) : p \in kept}
    <2>3. QueryMetric(store, qy) = {{entry(k) : k \in named}} BY <2>1 DEF QueryMetric
    <2>4. \A k : group(k) = of(k) BY <1>1
    <2>5. named = keys BY <1>1
    <2> HIDE DEF of, group
    <2>6. \A k : entry(k) = row(k) BY <1>1, <2>4
    <2> HIDE DEF entry, row, named, keys
    <2> QED BY <2>2, <2>3, <2>5, <2>6
  <1>3. \A k : /\ IsFiniteSet(Reduced(of(k), range.from, range.to, gauge))
               /\ \A p \in Reduced(of(k), range.from, range.to, gauge) : p.value \in Nat
    <2> SUFFICES ASSUME NEW k
                 PROVE  /\ IsFiniteSet(Reduced(of(k), range.from, range.to, gauge))
                        /\ \A p \in Reduced(of(k), range.from, range.to, gauge) : p.value \in Nat
      OBVIOUS
    <2>1. Reduced(of(k), range.from, range.to, gauge) \subseteq of(k) BY DEF Reduced, Levels
    <2>2. \A p \in of(k) : p \in store.points /\ p.name = metric BY DEF Kept
    <2> HIDE DEF of
    <2>3. Reduced(of(k), range.from, range.to, gauge) \subseteq store.points BY <2>1, <2>2
    <2> QED BY <2>1, <2>2, <2>3, FS_Subset
  <1>4. ASSUME NEW k PROVE LevelOf(row(k)) = SumFunction(terms(k))
    <2> DEFINE red == Reduced(of(k), range.from, range.to, gauge)
               points == BucketPoints(of(k), qy, gauge)
    <2>1. terms(k) = [p \in red |-> p.value] OBVIOUS
    <2>2. points = {[at |-> range.from, value |-> v] : v \in Aggregate(of(k), range.from, range.to, "sum", gauge)}
      <3> HIDE DEF of, gauge
      <3> QED BY DEF BucketPoints
    <2>3. Aggregate(of(k), range.from, range.to, "sum", gauge) = IF red = {} THEN {} ELSE {SumFunction(terms(k))}
      BY DEF Aggregate
    <2>4. LevelOf(row(k)) = SumFunction([p \in points |-> p.value]) BY DEF LevelOf
    <2>5. IsFiniteSet(red) /\ terms(k) \in [red -> Nat] BY <1>3
    <2>6. terms(k) \in [red -> Int] BY <2>5
    <2> HIDE DEF red, points, terms
    <2>7. CASE red = {}
      <3>1. points = {} BY <2>2, <2>3, <2>7
      <3>2. [p \in points |-> p.value] \in [{} -> Int] BY <3>1
      <3>3. SumFunction([p \in points |-> p.value]) = 0 BY <3>1, <3>2, FS_EmptySet, SumFacts
      <3>4. SumFunction(terms(k)) = 0 BY <2>5, <2>6, <2>7, SumFacts
      <3> QED BY <2>4, <3>3, <3>4
    <2>8. CASE red # {}
      <3> DEFINE v == SumFunction(terms(k))
                 x == [at |-> range.from, value |-> v]
      <3>1. v \in Int BY <2>5, <2>6, SumFacts
      <3>2. points = {x} BY <2>2, <2>3, <2>8
      <3>3. x.value = v OBVIOUS
      <3> HIDE DEF x, v
      <3> DEFINE g == [p \in points |-> p.value]
      <3>4. g \in [points -> Int] /\ IsFiniteSet(points) /\ g[x] = v BY <3>1, <3>2, <3>3, FS_Singleton
      <3>5. [y \in points \ {x} |-> g[y]] \in [{} -> Int] BY <3>2
      <3>6. points \ {x} = {} BY <3>2
      <3> HIDE DEF g
      <3>7. SumFunction([y \in points \ {x} |-> g[y]]) = 0 BY <3>5, <3>6, FS_EmptySet, SumFacts
      <3>8. SumFunction(g) = g[x] + SumFunction([y \in points \ {x} |-> g[y]]) BY <3>2, <3>4, SumFacts
      <3>9. SumFunction(g) = v BY <3>1, <3>4, <3>7, <3>8
      <3> QED BY <2>4, <3>9 DEF g, v
    <2> QED BY <2>7, <2>8
  <1>5. \A k : row(k).labels = k OBVIOUS
  <1>9. IsFiniteSet(rows)
    <2> DEFINE r == [p \in kept |-> row(GroupKey(p.labels, by))]
    <2>1. IsFiniteSet(kept) BY FS_Subset DEF Kept
    <2>2. DOMAIN r = kept /\ rows = {r[p] : p \in kept}
      <3> HIDE DEF row, kept
      <3> QED OBVIOUS
    <2> HIDE DEF r, rows, kept
    <2> QED BY <2>1, <2>2, FiniteImage
  <1> HIDE DEF row, terms
  <1>6. {s.labels : s \in rows} = keys BY <1>5
  <1>7. \A s, t \in rows : s.labels = t.labels => s = t BY <1>5
  <1>8. \A s \in rows : LevelOf(s) = SumFunction(terms(s.labels)) BY <1>4, <1>5
  <1> HIDE DEF rows
  <1>10. \A s \in rows : LevelOf(s) = SumFunction([p \in Added(store, metric, filters, range, by, s.labels) |-> p.value])
    BY <1>8 DEF Added, terms
  <1>11. AnswersMetric(rows, store, metric, filters, by, range) BY <1>6, <1>7, <1>9, <1>10 DEF AnswersMetric
  <1> QED BY <1>2, <1>11

EventsAsked(store, filters, range) == {e \in store.events : InRange(e.at, range) /\ MatchFilters(e.labels, filters)}

EventsKeyed(store, filters, range, by, k) == {e \in EventsAsked(store, filters, range) : GroupKey(e.labels, by) = k}

\* One row for every key, of the events that have it.
AnswersEvents(rows, store, filters, by, range, agg) ==
    LET of(k) == EventsKeyed(store, filters, range, by, k)
    IN  /\ IsFiniteSet(rows)
        /\ {g.key : g \in rows} = {GroupKey(e.labels, by) : e \in EventsAsked(store, filters, range)}
        /\ \A g, h \in rows : g.key = h.key => g = h
        /\ \A g \in rows : g.sum = SumFunction([e \in of(g.key) |-> e.amount])
        /\ agg = "max_per_group" => \A g \in rows : g.max = Max({e.amount : e \in of(g.key)})

\* What a query of the events answers.
LEMMA EventAnswer ==
    ASSUME NEW store, store.caps.events, "events" \notin store.down, IsFiniteSet(store.events),
           NEW filters, NEW by, "currency" \in by, NEW range, NEW agg
    PROVE  \E rows : /\ QueryEvents(store, [filters |-> filters, groupBy |-> by, range |-> range, agg |-> agg]) = {rows}
                     /\ AnswersEvents(rows, store, filters, by, range, agg)
  <1> DEFINE qy == [filters |-> filters, groupBy |-> by, range |-> range, agg |-> agg]
             matched == EventsAsked(store, filters, range)
             of(k) == EventsKeyed(store, filters, range, by, k)
             keys == {GroupKey(e.labels, by) : e \in matched}
             row(k) == Group(k, of(k), agg)
             rows == {row(k) : k \in keys}
  <1>1. qy.filters = filters /\ qy.groupBy = by /\ qy.range = range /\ qy.agg = agg OBVIOUS
  <1>2. QueryEvents(store, qy) = {rows}
    <2>1. MatchingEvents(store, qy) = matched BY <1>1 DEF MatchingEvents, EventsAsked
    <2>2. CurrencyInvariant(qy) BY <1>1 DEF CurrencyInvariant
    <2> HIDE DEF qy, matched
    <2> QED BY <1>1, <2>1, <2>2 DEF QueryEvents, EventsKeyed, matched
  <1>3. \A k : /\ row(k).key = k /\ row(k).sum = SumFunction([e \in of(k) |-> e.amount])
               /\ agg = "max_per_group" => row(k).max = Max({e.amount : e \in of(k)})
    <2> HIDE DEF of
    <2> QED BY DEF Group
  <1> HIDE DEF row
  <1>6. IsFiniteSet(rows)
    <2> DEFINE r == [e \in matched |-> row(GroupKey(e.labels, by))]
    <2>1. IsFiniteSet(matched) BY FS_Subset DEF EventsAsked
    <2>2. DOMAIN r = matched /\ rows = {r[e] : e \in matched}
      <3> HIDE DEF matched
      <3> QED OBVIOUS
    <2> HIDE DEF r, rows, matched
    <2> QED BY <2>1, <2>2, FiniteImage
  <1>4. {g.key : g \in rows} = keys BY <1>3
  <1>5. /\ \A g, h \in rows : g.key = h.key => g = h
        /\ \A g \in rows : g.sum = SumFunction([e \in of(g.key) |-> e.amount])
        /\ agg = "max_per_group" => \A g \in rows : g.max = Max({e.amount : e \in of(g.key)})
    <2> HIDE DEF of, keys
    <2> QED BY <1>3
  <1> HIDE DEF rows
  <1>7. AnswersEvents(rows, store, filters, by, range, agg) BY <1>4, <1>5, <1>6 DEF AnswersEvents
  <1> QED BY <1>2, <1>7

\* Queries that each have one answer have one answer together.
LEMMA GatherOne ==
    ASSUME NEW answers, NEW rows, \A i \in DOMAIN answers : answers[i] = {rows[i]} /\ IsFiniteSet(rows[i]),
           IsFiniteSet(DOMAIN answers)
    PROVE  \A all \in Gather(answers) :
             /\ IsFiniteSet(all)
             /\ \A x \in all : x.query \in DOMAIN answers /\ x.row \in rows[x.query]
             /\ \A i \in DOMAIN answers : \A r \in rows[i] : \E x \in all : x.query = i /\ x.row = r
             /\ \A x, y \in all : x.query = y.query /\ x.row = y.row => x = y
  <1> DEFINE tag(i, r) == [query |-> i, row |-> r]
             part(i) == {tag(i, r) : r \in rows[i]}
             parts == {part(i) : i \in DOMAIN answers}
  <1>1. \A i \in DOMAIN answers : answers[i] # {} /\ UNION answers[i] = rows[i] OBVIOUS
  <1>2. Gather(answers) = {UNION {{tag(i, r) : r \in UNION answers[i]} : i \in DOMAIN answers}}
    BY <1>1 DEF Gather, None, Some
  <1>3. UNION {{tag(i, r) : r \in UNION answers[i]} : i \in DOMAIN answers} = UNION parts
    <2> HIDE DEF tag
    <2> QED BY <1>1
  <1>4. \A i, r : tag(i, r).query = i /\ tag(i, r).row = r OBVIOUS
  <1> HIDE DEF tag
  <1>5. \A i \in DOMAIN answers : IsFiniteSet(part(i))
    <2> SUFFICES ASSUME NEW i \in DOMAIN answers PROVE IsFiniteSet(part(i)) OBVIOUS
    <2> DEFINE h == [r \in rows[i] |-> tag(i, r)]
    <2>1. DOMAIN h = rows[i] /\ part(i) = {h[r] : r \in rows[i]} OBVIOUS
    <2> HIDE DEF h, part
    <2> QED BY <2>1, FiniteImage
  <1>6. IsFiniteSet(parts)
    <2> DEFINE h == [i \in DOMAIN answers |-> part(i)]
    <2>1. DOMAIN h = DOMAIN answers /\ parts = {h[i] : i \in DOMAIN answers}
      <3> HIDE DEF part
      <3> QED OBVIOUS
    <2> HIDE DEF h, parts
    <2> QED BY <2>1, FiniteImage
  <1>7. IsFiniteSet(UNION parts)
    <2>1. \A p \in parts : IsFiniteSet(p) BY <1>5
    <2> HIDE DEF parts
    <2> QED BY <1>6, <2>1, FS_UNION
  <1>8. \A x \in UNION parts : \E i \in DOMAIN answers : \E r \in rows[i] : x = tag(i, r) OBVIOUS
  <1>9. \A i \in DOMAIN answers : \A r \in rows[i] : tag(i, r) \in UNION parts OBVIOUS
  <1>10. \A all \in Gather(answers) : all = UNION parts BY <1>2, <1>3
  <1> HIDE DEF parts
  <1>11. \A x \in UNION parts : x.query \in DOMAIN answers /\ x.row \in rows[x.query] BY <1>4, <1>8
  <1>12. \A i \in DOMAIN answers : \A r \in rows[i] : \E x \in UNION parts : x.query = i /\ x.row = r BY <1>4, <1>9
  <1>13. \A x, y \in UNION parts : x.query = y.query /\ x.row = y.row => x = y BY <1>4, <1>8
  <1> SUFFICES ASSUME NEW all \in Gather(answers)
               PROVE  /\ IsFiniteSet(all)
                      /\ \A x \in all : x.query \in DOMAIN answers /\ x.row \in rows[x.query]
                      /\ \A i \in DOMAIN answers : \A r \in rows[i] : \E x \in all : x.query = i /\ x.row = r
                      /\ \A x, y \in all : x.query = y.query /\ x.row = y.row => x = y
    OBVIOUS
  <1>14. all = UNION parts BY <1>10
  <1> QED BY <1>7, <1>11, <1>12, <1>13, <1>14

-----------------------------------------------------------------------------
(* What was recorded, as the stores have it *)

\* What arrived is finite, and the samples are of the gauges.
StoredInv ==
    /\ IsFiniteSet(sent) /\ IsFiniteSet(samples) /\ IsFiniteSet(live)
    /\ \A s \in samples : s.name \in GaugeFamilies

\* What a Publish adds.
Sample(name, c, value) == [n |-> Len(published), name |-> name, labels |-> c, at |-> now, value |-> value]

LEMMA Published ==
    ASSUME Publish
    PROVE  LET full == {Combo(p) : p \in InFlight}
               in(c) == {p \in InFlight : Combo(p) = c}
           IN  samples' = samples
                 \cup {Sample("biz_inflight_value", c, SumFunction([p \in in(c) |-> AmountOf[p]])) : c \in full \cup Retired}
                 \cup {Sample("biz_inflight_count", c, Cardinality(in(c))) : c \in full \cup Retired}
  BY DEF Publish, Sample

LEMMA StoredStep == StoredInv /\ [Next]_vars => StoredInv'
  <1> SUFFICES ASSUME StoredInv, [Next]_vars PROVE StoredInv' OBVIOUS
  <1>1. ASSUME NEW q, NEW p, NEW stage, NEW outcome, Record(q, p, stage, outcome) PROVE IsFiniteSet(sent')
    <2>1. sent' = sent \/ \E r : sent' = sent \cup {r} BY <1>1 DEF Record
    <2> QED BY <2>1, FS_AddElement DEF StoredInv
  <1>2. ASSUME samples' = samples, live' = live, IsFiniteSet(sent') PROVE StoredInv'
    BY <1>2 DEF StoredInv
  <1>3. ASSUME NEW p \in Payments, Settle(p) \/ Decline(p) \/ Postpone(p) \/ \E o : Enter(p, o) PROVE StoredInv'
    <2>1. samples' = samples /\ live' = live BY <1>3 DEF Settle, Decline, Postpone, Enter, tracker
    <2>2. \E stage, outcome : Record(1, p, stage, outcome) BY <1>3 DEF Settle, Decline, Postpone, Enter
    <2> QED BY <1>1, <1>2, <2>1, <2>2
  <1>4. ASSUME NEW r \in sent, Redeliver(r) PROVE StoredInv' BY <1>1, <1>2, <1>4 DEF Redeliver, tracker
  <1>5. CASE Publish
    <2> DEFINE full == {Combo(p) : p \in InFlight}
               in(c) == {p \in InFlight : Combo(p) = c}
               value(c) == Sample("biz_inflight_value", c, SumFunction([p \in in(c) |-> AmountOf[p]]))
               count(c) == Sample("biz_inflight_count", c, Cardinality(in(c)))
               combos == full \cup Retired
               more(s) == {s[c] : c \in combos}
    <2>1. samples' = samples \cup {value(c) : c \in combos} \cup {count(c) : c \in combos} BY <1>5, Published
    <2>2. live' = full /\ sent' = sent BY <1>5 DEF Publish
    <2>3. IsFiniteSet(full)
      <3>1. IsFiniteSet(InFlight) BY MoneyPathAssumption, FS_Subset DEF InFlight
      <3> DEFINE h == [p \in InFlight |-> Combo(p)]
      <3>2. DOMAIN h = InFlight /\ {h[p] : p \in InFlight} = full OBVIOUS
      <3> HIDE DEF h, full
      <3> QED BY <3>1, <3>2, FiniteImage
    <2>4. IsFiniteSet(combos)
      <3>1. IsFiniteSet(Retired) BY FS_Subset DEF Retired, StoredInv
      <3> HIDE DEF full
      <3> QED BY <2>3, <3>1, FS_Union
    <2>5. \A c : value(c).name \in GaugeFamilies /\ count(c).name \in GaugeFamilies BY DEF Sample, GaugeFamilies
    <2> HIDE DEF value, count, combos, full
    <2>6. IsFiniteSet({value(c) : c \in combos}) /\ IsFiniteSet({count(c) : c \in combos})
      <3> DEFINE v == [c \in combos |-> value(c)]
                 k == [c \in combos |-> count(c)]
      <3>1. DOMAIN v = combos /\ {v[c] : c \in combos} = {value(c) : c \in combos} OBVIOUS
      <3>2. DOMAIN k = combos /\ {k[c] : c \in combos} = {count(c) : c \in combos} OBVIOUS
      <3> HIDE DEF v, k
      <3>3. IsFiniteSet({v[c] : c \in combos}) /\ IsFiniteSet({k[c] : c \in combos}) BY <2>4, <3>1, <3>2, FiniteImage
      <3> QED BY <3>1, <3>2, <3>3
    <2>7. IsFiniteSet(samples') BY <2>1, <2>6, FS_Union DEF StoredInv
    <2>8. \A s \in samples' : s.name \in GaugeFamilies BY <2>1, <2>5 DEF StoredInv
    <2> QED BY <2>2, <2>3, <2>7, <2>8 DEF StoredInv
  <1>6. CASE Tick \/ Page \/ PageFails \/ UNCHANGED vars
    BY <1>2, <1>6 DEF Tick, Page, PageFails, vars, tracker, StoredInv
  <1> QED BY <1>3, <1>4, <1>5, <1>6 DEF Next

EventOf(r) ==
    [n |-> r, at |-> r.at, amount |-> AmountOf[r.payment],
     labels |-> [flow |-> FlowOf[r.payment], stage |-> r.stage, outcome |-> r.outcome, currency |-> CurrencyOf[r.payment],
                 entity |-> r.payment, customer |-> CustomerOf[r.payment]]]

ValuePoint(r) ==
    [n |-> r, name |-> "biz_value_total", labels |-> Labels(r), at |-> r.at, value |-> AmountOf[r.payment]]

CounterLabels == {"flow", "stage", "outcome", "currency"}

\* Counters and events of a record agree on the labels they share.
LEMMA SameLabels ==
    ASSUME NEW r, NEW filters, DOMAIN filters \subseteq CounterLabels
    PROVE  MatchFilters(EventOf(r).labels, filters) <=> MatchFilters(Labels(r), filters)
  <1> DEFINE l == EventOf(r).labels
             m == Labels(r)
  <1>2. /\ CounterLabels \subseteq DOMAIN l
        /\ l["flow"] = FlowOf[r.payment] /\ l["stage"] = r.stage /\ l["outcome"] = r.outcome
        /\ l["currency"] = CurrencyOf[r.payment]
    BY DEF EventOf, CounterLabels
  <1>3. /\ CounterLabels \subseteq DOMAIN m
        /\ m["flow"] = FlowOf[r.payment] /\ m["stage"] = r.stage /\ m["outcome"] = r.outcome
        /\ m["currency"] = CurrencyOf[r.payment]
    BY DEF Labels, CounterLabels
  <1> HIDE DEF l, m
  <1>1. \A k \in CounterLabels : Label(l, k) = Label(m, k) BY <1>2, <1>3 DEF Label, CounterLabels
  <1> QED BY <1>1 DEF MatchFilters, l, m

Healthy == Store(TRUE, TRUE, {})

LEMMA HealthyFacts ==
    /\ Healthy.caps.metrics /\ Healthy.caps.events /\ Healthy.down = {}
    /\ Healthy.points = Points \cup samples /\ Healthy.events = {EventOf(r) : r \in {x \in sent : x.event}}
  BY DEF Healthy, Store, Combine, Backend, Events, EventOf

LEMMA HealthyPoints ==
    ASSUME StoredInv, MoneyInv
    PROVE  /\ IsFiniteSet(Healthy.points)
           /\ \A p : (p \in Healthy.points /\ p.name = "biz_value_total")
                       <=> \E r \in sent : p = ValuePoint(r) /\ r.points /\ r.payment \notin Estimated
           /\ \A p \in Healthy.points : p.name = "biz_txn_total" => p.value \in Nat
  <1> DEFINE one(r) == [n |-> r, name |-> "biz_txn_total", labels |-> Labels(r), at |-> r.at, value |-> 1]
             counted == {x \in sent : x.points}
             valued == {x \in sent : x.points /\ x.payment \notin Estimated}
  <1>1. Points = {one(r) : r \in counted} \cup {ValuePoint(r) : r \in valued} BY DEF Points, ValuePoint
  <1>2. IsFiniteSet(counted) /\ IsFiniteSet(valued) BY FS_Subset DEF StoredInv
  <1>3. \A r : one(r).name = "biz_txn_total" /\ one(r).value = 1 /\ ValuePoint(r).name = "biz_value_total" BY DEF ValuePoint
  <1>4. Healthy.points = Points \cup samples /\ IsFiniteSet(samples) BY HealthyFacts DEF StoredInv
  <1>5. \A s \in samples : s.name \notin {"biz_value_total", "biz_txn_total"} BY DEF StoredInv, GaugeFamilies
  <1> HIDE DEF one
  <1>6. IsFiniteSet({one(r) : r \in counted}) /\ IsFiniteSet({ValuePoint(r) : r \in valued})
    <2> DEFINE o == [r \in counted |-> one(r)]
               v == [r \in valued |-> ValuePoint(r)]
    <2>1. DOMAIN o = counted /\ {o[r] : r \in counted} = {one(r) : r \in counted} OBVIOUS
    <2>2. DOMAIN v = valued /\ {v[r] : r \in valued} = {ValuePoint(r) : r \in valued} OBVIOUS
    <2> HIDE DEF o, v, counted, valued
    <2>3. IsFiniteSet({o[r] : r \in counted}) /\ IsFiniteSet({v[r] : r \in valued}) BY <1>2, <2>1, <2>2, FiniteImage
    <2> QED BY <2>1, <2>2, <2>3
  <1>7. IsFiniteSet(Healthy.points)
    <2> HIDE DEF counted, valued
    <2> QED BY <1>1, <1>4, <1>6, FS_Union
  <1>8. \A p : (p \in Healthy.points /\ p.name = "biz_value_total") <=> \E r \in valued : p = ValuePoint(r)
    BY <1>1, <1>3, <1>4, <1>5
  <1>9. \A p \in Healthy.points : p.name = "biz_txn_total" => p.value \in Nat BY <1>1, <1>3, <1>4, <1>5
  <1> QED BY <1>7, <1>8, <1>9

\* Each query of a plain request is about a flow of its own, or it is the one.
LEMMA InflightFacts ==
    ASSUME NEW req \in Requests, Plain(req)
    PROVE  LET filters == InflightFilters(req)
           IN  /\ IsFiniteSet(DOMAIN filters)
               /\ \A i \in DOMAIN filters : DOMAIN filters[i] \subseteq CounterLabels
               /\ \A i, j \in DOMAIN filters : i # j =>
                    "flow" \in DOMAIN filters[i] \cap DOMAIN filters[j] /\ filters[i]["flow"] # filters[j]["flow"]
  <1> DEFINE filters == InflightFilters(req)
  <1>1. /\ req.flows \in Seq(STRING) /\ \A i, j \in DOMAIN req.flows : req.flows[i] = req.flows[j] => i = j
        /\ DOMAIN req.scope \subseteq CounterLabels
    BY MoneyPathAssumption DEF Plain, Distinct, CounterLabels
  <1>2. CASE req.flows = <<>>
    <2>1. filters = <<req.scope>> BY <1>2 DEF InflightFilters
    <2>2. DOMAIN filters = {1} /\ filters[1] = req.scope BY <2>1
    <2> HIDE DEF filters
    <2>3. PICK one : one = 1 OBVIOUS
    <2>4. IsFiniteSet(DOMAIN filters) BY <2>2, <2>3, FS_Singleton
    <2> QED BY <1>1, <2>2, <2>4 DEF filters
  <1>3. CASE req.flows # <<>>
    <2>1. filters = [i \in DOMAIN req.flows |-> With(req.scope, "flow", req.flows[i])] BY <1>3 DEF InflightFilters
    <2>2. DOMAIN filters = DOMAIN req.flows /\ \A i \in DOMAIN req.flows : filters[i] = With(req.scope, "flow", req.flows[i])
      BY <2>1
    <2> HIDE DEF filters
    <2>3. \A i \in DOMAIN req.flows : DOMAIN filters[i] = DOMAIN req.scope \cup {"flow"} /\ filters[i]["flow"] = req.flows[i]
      BY <2>2 DEF With
    <2>4. DOMAIN req.flows = 1 .. Len(req.flows) /\ Len(req.flows) \in Nat BY <1>1
    <2>5. IsFiniteSet(DOMAIN filters)
      <3>1. IsFiniteSet(1 .. Len(req.flows)) BY <2>4, FS_Interval
      <3> QED BY <2>2, <2>4, <3>1
    <2>6. \A i \in DOMAIN filters : DOMAIN filters[i] \subseteq CounterLabels
      BY <1>1, <2>2, <2>3 DEF CounterLabels
    <2>7. \A i, j \in DOMAIN filters : i # j =>
            "flow" \in DOMAIN filters[i] \cap DOMAIN filters[j] /\ filters[i]["flow"] # filters[j]["flow"]
      BY <1>1, <2>2, <2>3
    <2> QED BY <2>5, <2>6, <2>7 DEF filters
  <1> QED BY <1>2, <1>3

LEMMA FilterFacts ==
    ASSUME NEW req \in Requests, Plain(req), NEW outcome
    PROVE  LET filters == FlowFilters(req, outcome)
           IN  /\ IsFiniteSet(DOMAIN filters)
               /\ \A i \in DOMAIN filters : /\ DOMAIN filters[i] \subseteq CounterLabels
                                            /\ "outcome" \in DOMAIN filters[i] /\ filters[i]["outcome"] = outcome
               /\ \A l, m : {"flow"} \subseteq DOMAIN l \cap DOMAIN m /\ l["flow"] = m["flow"] =>
                    \A i, j \in DOMAIN filters : MatchFilters(l, filters[i]) /\ MatchFilters(m, filters[j]) => i = j
  <1> DEFINE filters == FlowFilters(req, outcome)
             inflight == InflightFilters(req)
  <1>1. DOMAIN filters = DOMAIN inflight /\ \A i \in DOMAIN inflight : filters[i] = With(inflight[i], "outcome", outcome)
    BY DEF FlowFilters
  <1>2. /\ IsFiniteSet(DOMAIN inflight)
        /\ \A i \in DOMAIN inflight : DOMAIN inflight[i] \subseteq CounterLabels
        /\ \A i, j \in DOMAIN inflight : i # j =>
             "flow" \in DOMAIN inflight[i] \cap DOMAIN inflight[j] /\ inflight[i]["flow"] # inflight[j]["flow"]
    BY InflightFacts
  <1> HIDE DEF filters, inflight
  <1>3. ASSUME NEW i \in DOMAIN filters
        PROVE  /\ DOMAIN filters[i] = DOMAIN inflight[i] \cup {"outcome"}
               /\ filters[i]["outcome"] = outcome
               /\ "flow" \in DOMAIN inflight[i] => filters[i]["flow"] = inflight[i]["flow"]
    <2>1. "flow" # "outcome" /\ filters[i] = With(inflight[i], "outcome", outcome) BY <1>1
    <2> QED BY <2>1 DEF With
  <1>4. ASSUME NEW l, NEW m, {"flow"} \subseteq DOMAIN l \cap DOMAIN m, l["flow"] = m["flow"],
               NEW i \in DOMAIN filters, NEW j \in DOMAIN filters,
               MatchFilters(l, filters[i]), MatchFilters(m, filters[j]), i # j
        PROVE  FALSE
    <2>3. i \in DOMAIN inflight /\ j \in DOMAIN inflight BY <1>1
    <2>4. "flow" \in DOMAIN inflight[i] \cap DOMAIN inflight[j] /\ inflight[i]["flow"] # inflight[j]["flow"]
      BY <1>2, <1>4, <2>3
    <2>1. /\ "flow" \in DOMAIN filters[i] /\ "flow" \in DOMAIN filters[j]
          /\ filters[i]["flow"] # filters[j]["flow"]
      BY <1>3, <2>4
    <2>2. l["flow"] = filters[i]["flow"] /\ m["flow"] = filters[j]["flow"] BY <1>4, <2>1 DEF MatchFilters, Label
    <2> QED BY <1>4, <2>1, <2>2
  <1>5. \A i \in DOMAIN filters : DOMAIN filters[i] \subseteq CounterLabels
    <2> SUFFICES ASSUME NEW i \in DOMAIN filters PROVE DOMAIN filters[i] \subseteq CounterLabels OBVIOUS
    <2>1. DOMAIN inflight[i] \subseteq CounterLabels BY <1>1, <1>2
    <2>2. "outcome" \in CounterLabels BY DEF CounterLabels
    <2> QED BY <1>3, <2>1, <2>2
  <1>6. IsFiniteSet(DOMAIN filters) BY <1>1, <1>2
  <1>7. \A i \in DOMAIN filters : "outcome" \in DOMAIN filters[i] /\ filters[i]["outcome"] = outcome BY <1>3
  <1> QED BY <1>4, <1>5, <1>6, <1>7 DEF filters

-----------------------------------------------------------------------------
(* Realized loss *)

FailFilters(req) == FlowFilters(req, "failed")

FailedRecords(req) == {r \in sent : r.outcome = "failed" /\ Inside(r, req)}

\* Every failure of the window arrived, at its amount.
Intact(req) == \A r \in FailedRecords(req) : r.points /\ r.event /\ r.payment \notin Estimated

\* The failures a query of the request is about.
Asks(req, i) == {r \in FailedRecords(req) : MatchFilters(Labels(r), FailFilters(req)[i])}

AmountsOf(records) == SumFunction([r \in records |-> AmountOf[r.payment]])

\* A filter on the outcome matches only records that have it.
LEMMA OutcomeAsked ==
    ASSUME NEW req \in Requests, Plain(req), NEW i \in DOMAIN FailFilters(req), NEW r, MatchFilters(Labels(r), FailFilters(req)[i])
    PROVE  r.outcome = "failed"
  <1> DEFINE filters == FailFilters(req)[i]
  <1>1. "outcome" \in DOMAIN filters /\ filters["outcome"] = "failed" BY FilterFacts DEF FailFilters
  <1> HIDE DEF filters
  <1>2. Label(Labels(r), "outcome") = "failed" BY <1>1 DEF MatchFilters, filters
  <1>3. Label(Labels(r), "outcome") = r.outcome BY DEF Label, Labels
  <1> QED BY <1>2, <1>3

\* The failures a row is about.
OfRow(req, by, x) == {r \in Asks(req, x.query) : GroupKey(EventOf(r).labels, by) = x.row.key}

\* One row for every key of the failures the queries are about.
RowsOf(rows, req, by, agg) ==
    /\ IsFiniteSet(rows)
    /\ \A x \in rows : /\ x.query \in DOMAIN FailFilters(req) /\ OfRow(req, by, x) # {}
                       /\ x.row.sum = AmountsOf(OfRow(req, by, x))
                       /\ agg = "max_per_group" => x.row.max = Max({AmountOf[r.payment] : r \in OfRow(req, by, x)})
    /\ \A x, y \in rows : x.query = y.query /\ x.row.key = y.row.key => x = y
    /\ \A i \in DOMAIN FailFilters(req) : \A r \in Asks(req, i) : \E x \in rows : x.query = i /\ r \in OfRow(req, by, x)

LEMMA FailureRows ==
    ASSUME StoredInv, MoneyInv, NEW req \in Requests, Plain(req), Intact(req), NEW by, "currency" \in by, NEW agg
    PROVE  \A rows \in EventsPerFlow(Healthy, req, "failed", by, agg) : RowsOf(rows, req, by, agg)
  <1> DEFINE F == FailFilters(req)
             answer(i) == QueryEvents(Healthy, [filters |-> F[i], groupBy |-> by, range |-> req.window, agg |-> agg])
             answers == [i \in DOMAIN F |-> answer(i)]
             matched(i) == EventsAsked(Healthy, F[i], req.window)
             keyed(i, k) == EventsKeyed(Healthy, F[i], req.window, by, k)
             asked(i, k) == {r \in Asks(req, i) : GroupKey(EventOf(r).labels, by) = k}
             Is(R, i) == answer(i) = {R} /\ AnswersEvents(R, Healthy, F[i], by, req.window, agg)
             rows0 == [i \in DOMAIN F |-> CHOOSE R : Is(R, i)]
  <1>1. ASSUME NEW i \in DOMAIN F PROVE Is(rows0[i], i)
    <2>1. IsFiniteSet(Healthy.events)
      <3> DEFINE h == [r \in {x \in sent : x.event} |-> EventOf(r)]
      <3>1. DOMAIN h = {x \in sent : x.event} /\ {h[r] : r \in {x \in sent : x.event}} = Healthy.events BY HealthyFacts
      <3>2. IsFiniteSet({x \in sent : x.event}) BY FS_Subset DEF StoredInv
      <3> HIDE DEF h
      <3> QED BY <3>1, <3>2, FiniteImage
    <2>2. Healthy.caps.events /\ "events" \notin Healthy.down BY HealthyFacts
    <2>3. \E R : Is(R, i)
      <3> HIDE DEF F
      <3> QED BY <2>1, <2>2, EventAnswer
    <2> HIDE DEF Is
    <2> QED BY <2>3
  <1>2. ASSUME NEW i \in DOMAIN F
        PROVE  /\ \A e \in matched(i) : \E r \in Asks(req, i) : e = EventOf(r)
               /\ \A r \in Asks(req, i) : EventOf(r) \in matched(i)
    <2>1. DOMAIN F[i] \subseteq CounterLabels BY FilterFacts DEF FailFilters
    <2>2. \A r : EventOf(r).at = r.at BY DEF EventOf
    <2>3. \A r : MatchFilters(EventOf(r).labels, F[i]) <=> MatchFilters(Labels(r), F[i]) BY <2>1, SameLabels
    <2>4. \A r : MatchFilters(Labels(r), F[i]) => r.outcome = "failed" BY OutcomeAsked
    <2>5. Healthy.events = {EventOf(r) : r \in {x \in sent : x.event}} BY HealthyFacts
    <2> HIDE DEF F
    <2>6. \A e \in matched(i) : \E r \in Asks(req, i) : e = EventOf(r)
      BY <2>2, <2>3, <2>4, <2>5 DEF Asks, FailedRecords, Inside, EventsAsked, F
    <2>7. \A r \in Asks(req, i) : EventOf(r) \in matched(i)
      BY <2>2, <2>3, <2>5 DEF Asks, FailedRecords, Inside, Intact, EventsAsked, F
    <2> QED BY <2>6, <2>7
  <1>3. \A r, q : EventOf(r) = EventOf(q) => r = q
    <2>1. \A r : EventOf(r).n = r BY DEF EventOf
    <2> QED BY <2>1
  <1>4. \A r : EventOf(r).amount = AmountOf[r.payment] BY DEF EventOf
  <1>5. ASSUME NEW i \in DOMAIN F, NEW k
        PROVE  /\ SumFunction([e \in keyed(i, k) |-> e.amount]) = AmountsOf(asked(i, k))
               /\ {e.amount : e \in keyed(i, k)} = {AmountOf[r.payment] : r \in asked(i, k)}
    <2> DEFINE S == asked(i, k)
               T == keyed(i, k)
               f == [r \in S |-> AmountOf[r.payment]]
               g == [e \in T |-> e.amount]
               h == [r \in S |-> EventOf(r)]
    <2>1. /\ \A e \in T : \E r \in S : e = EventOf(r)
          /\ \A r \in S : EventOf(r) \in T
      BY <1>2 DEF EventsKeyed
    <2>2. \A r \in S : r \in sent /\ r.payment \in Payments BY DEF Asks, FailedRecords, MoneyInv
    <2> HIDE DEF S, T
    <2>3. IsFiniteSet(S)
      <3>1. S \subseteq sent BY <2>2
      <3> QED BY <3>1, FS_Subset DEF StoredInv
    <2>4. f \in [S -> Nat] BY <2>2, MoneyPathAssumption
    <2>5. h \in [S -> T] /\ (\A x, y \in S : h[x] = h[y] => x = y) /\ (\A t \in T : \E x \in S : h[x] = t)
      BY <1>3, <2>1
    <2>6. IsFiniteSet(T)
      <3>1. h \in Surjection(S, T) BY <2>5 DEF Surjection
      <3> QED BY <2>3, <3>1, FS_Surjection
    <2>7. g \in [T -> Nat] /\ \A x \in S : f[x] = g[h[x]]
      <3>1. \A x \in S : f[x] = g[h[x]] BY <1>4, <2>5
      <3>2. \A t \in T : g[t] \in Nat
        <4> HIDE DEF f, g, h
        <4> QED BY <2>4, <2>5, <3>1
      <3> QED BY <3>1, <3>2
    <2>8. {e.amount : e \in T} = {AmountOf[r.payment] : r \in S} BY <1>4, <2>1
    <2> HIDE DEF f, g, h
    <2>9. SumFunction(f) = SumFunction(g) BY <2>3, <2>4, <2>5, <2>6, <2>7, SumSame
    <2> QED BY <2>8, <2>9 DEF AmountsOf, f, g, S, T
  <1>6. /\ DOMAIN answers = DOMAIN F /\ IsFiniteSet(DOMAIN F)
        /\ \A i \in DOMAIN answers : answers[i] = {rows0[i]} /\ IsFiniteSet(rows0[i])
    <2>1. IsFiniteSet(DOMAIN F) BY FilterFacts DEF FailFilters
    <2>2. \A i \in DOMAIN F : answer(i) = {rows0[i]} /\ IsFiniteSet(rows0[i])
      <3> SUFFICES ASSUME NEW i \in DOMAIN F PROVE answer(i) = {rows0[i]} /\ IsFiniteSet(rows0[i]) OBVIOUS
      <3>1. Is(rows0[i], i) BY <1>1
      <3> HIDE DEF rows0, answer
      <3> QED BY <3>1 DEF AnswersEvents
    <2> HIDE DEF rows0, F, answer
    <2> QED BY <2>1, <2>2
  <1>7. EventsPerFlow(Healthy, req, "failed", by, agg) = Gather(answers) BY DEF EventsPerFlow, FailFilters
  <1> SUFFICES ASSUME NEW rows \in Gather(answers) PROVE RowsOf(rows, req, by, agg)
    BY <1>7
  <1>8. /\ IsFiniteSet(rows)
        /\ \A x \in rows : x.query \in DOMAIN F /\ x.row \in rows0[x.query]
        /\ \A i \in DOMAIN F : \A r \in rows0[i] : \E x \in rows : x.query = i /\ x.row = r
        /\ \A x, y \in rows : x.query = y.query /\ x.row = y.row => x = y
    <2> HIDE DEF rows0, answers, F
    <2> QED BY <1>6, GatherOne
  <1> HIDE DEF rows0, answers, F, answer
  <1>12. \A x : OfRow(req, by, x) = asked(x.query, x.row.key) BY DEF OfRow
  <1>9. ASSUME NEW x \in rows
        PROVE  /\ OfRow(req, by, x) # {}
               /\ x.row.sum = AmountsOf(OfRow(req, by, x))
               /\ agg = "max_per_group" => x.row.max = Max({AmountOf[r.payment] : r \in OfRow(req, by, x)})
    <2> DEFINE i == x.query
               k == x.row.key
    <2>1. i \in DOMAIN F /\ x.row \in rows0[i] BY <1>8
    <2>2. AnswersEvents(rows0[i], Healthy, FailFilters(req)[i], by, req.window, agg) BY <1>1, <2>1 DEF F
    <2>3. k \in {GroupKey(e.labels, by) : e \in matched(i)} BY <2>1, <2>2 DEF AnswersEvents, F
    <2>4. PICK e \in matched(i) : k = GroupKey(e.labels, by) BY <2>3
    <2>5. PICK r \in Asks(req, i) : e = EventOf(r) BY <1>2, <2>1
    <2>6. r \in asked(i, k) BY <2>4, <2>5
    <2>7. x.row.sum = SumFunction([d \in keyed(i, k) |-> d.amount]) BY <2>1, <2>2 DEF AnswersEvents, F
    <2>8. agg = "max_per_group" => x.row.max = Max({d.amount : d \in keyed(i, k)}) BY <2>1, <2>2 DEF AnswersEvents, F
    <2> HIDE DEF keyed, asked, matched, Is
    <2> QED BY <1>5, <1>12, <2>1, <2>6, <2>7, <2>8
  <1>10. ASSUME NEW x \in rows, NEW y \in rows, x.query = y.query, x.row.key = y.row.key PROVE x = y
    <2>1. AnswersEvents(rows0[x.query], Healthy, F[x.query], by, req.window, agg) /\ x.row \in rows0[x.query] /\ y.row \in rows0[x.query] BY <1>1, <1>8, <1>10
    <2>2. x.row = y.row BY <1>10, <2>1 DEF AnswersEvents
    <2> QED BY <1>8, <1>10, <2>2
  <1>11. ASSUME NEW i \in DOMAIN F, NEW r \in Asks(req, i)
         PROVE  \E x \in rows : x.query = i /\ r \in OfRow(req, by, x)
    <2>1. EventOf(r) \in matched(i) BY <1>2
    <2>2. AnswersEvents(rows0[i], Healthy, F[i], by, req.window, agg) BY <1>1
    <2>3. PICK g \in rows0[i] : g.key = GroupKey(EventOf(r).labels, by) BY <2>1, <2>2 DEF AnswersEvents
    <2>4. PICK x \in rows : x.query = i /\ x.row = g BY <1>8
    <2> QED BY <1>12, <2>3, <2>4
  <1> HIDE DEF asked
  <1> QED BY <1>8, <1>9, <1>10, <1>11 DEF RowsOf, F

\* The failures a row of the counters is about.
OfSeries(req, by, x) == {r \in Asks(req, x.query) : GroupKey(Labels(r), by) = x.row.labels}

\* The rows of the counters of value: the same, over the points.
LEMMA ValueRows ==
    ASSUME StoredInv, MoneyInv, NEW req \in Requests, Plain(req), Intact(req), NEW by
    PROVE  LET F == FailFilters(req)
               of(x) == OfSeries(req, by, x)
           IN  \A rows \in Gather([i \in DOMAIN F |-> Counter(Healthy, "biz_value_total", F[i], by, req.window, 0)]) :
                 /\ IsFiniteSet(rows)
                 /\ \A x \in rows : /\ x.query \in DOMAIN F /\ of(x) # {}
                                    /\ LevelOf(x.row) = AmountsOf(of(x))
                 /\ \A x, y \in rows : x.query = y.query /\ x.row.labels = y.row.labels => x = y
                 /\ \A i \in DOMAIN F : \A r \in Asks(req, i) : \E x \in rows : x.query = i /\ r \in of(x)
  <1> DEFINE F == FailFilters(req)
             metric == "biz_value_total"
             answer(i) == Counter(Healthy, metric, F[i], by, req.window, 0)
             answers == [i \in DOMAIN F |-> answer(i)]
             kept(i) == Kept(Healthy, metric, F[i], req.window)
             added(i, k) == Added(Healthy, metric, F[i], req.window, by, k)
             asked(i, k) == {r \in Asks(req, i) : GroupKey(Labels(r), by) = k}
             Is(R, i) == answer(i) = {R} /\ AnswersMetric(R, Healthy, metric, F[i], by, req.window)
             rows0 == [i \in DOMAIN F |-> CHOOSE R : Is(R, i)]
  <1>0. metric \notin GaugeFamilies BY DEF GaugeFamilies
  <1>1. ASSUME NEW i \in DOMAIN F PROVE Is(rows0[i], i)
    <2>1. Healthy.caps.metrics /\ "metrics" \notin Healthy.down BY HealthyFacts
    <2>2. req.window.from \in Nat /\ req.window.to \in Nat BY MoneyPathAssumption
    <2>3. IsFiniteSet(Healthy.points) /\ \A p \in Healthy.points : p.name = metric => p.value \in Nat
      <3>1. \A r \in sent : ValuePoint(r).value \in Nat BY MoneyPathAssumption DEF ValuePoint, MoneyInv
      <3> QED BY <3>1, HealthyPoints
    <2>4. \E R : Is(R, i)
      <3> HIDE DEF F, metric
      <3> QED BY <2>1, <2>2, <2>3, MetricAnswer
    <2> HIDE DEF Is
    <2> QED BY <2>4
  <1>2. ASSUME NEW i \in DOMAIN F
        PROVE  /\ \A p \in kept(i) : \E r \in Asks(req, i) : p = ValuePoint(r)
               /\ \A r \in Asks(req, i) : ValuePoint(r) \in kept(i)
    <2>1. \A r : ValuePoint(r).at = r.at /\ ValuePoint(r).labels = Labels(r) BY DEF ValuePoint
    <2>2. \A r : MatchFilters(Labels(r), F[i]) => r.outcome = "failed" BY OutcomeAsked
    <2>3. \A p : p \in kept(i) <=>
             /\ p \in Healthy.points /\ p.name = metric
             /\ MatchFilters(p.labels, F[i]) /\ InRange(p.at, req.window)
      BY <1>0 DEF Kept
    <2> HIDE DEF F, kept
    <2>4. \A p : p \in kept(i) => \E r \in Asks(req, i) : p = ValuePoint(r)
      BY <2>1, <2>2, <2>3, HealthyPoints DEF Asks, FailedRecords, Inside, F
    <2>5. \A r \in Asks(req, i) : ValuePoint(r) \in kept(i)
      <3> SUFFICES ASSUME NEW r \in Asks(req, i) PROVE ValuePoint(r) \in kept(i) OBVIOUS
      <3>1. r \in FailedRecords(req) /\ MatchFilters(Labels(r), F[i]) BY DEF Asks, F
      <3>2. r \in sent /\ InRange(r.at, req.window) /\ r.points /\ r.payment \notin Estimated
        BY <3>1 DEF FailedRecords, Inside, Intact
      <3>3. ValuePoint(r) \in Healthy.points /\ ValuePoint(r).name = metric BY <3>2, HealthyPoints
      <3> HIDE DEF metric
      <3> QED BY <2>1, <2>3, <3>1, <3>2, <3>3
    <2> QED BY <2>4, <2>5
  <1>3. \A r, q : ValuePoint(r) = ValuePoint(q) => r = q
    <2>1. \A r : ValuePoint(r).n = r BY DEF ValuePoint
    <2> QED BY <2>1
  <1>4. \A r : ValuePoint(r).value = AmountOf[r.payment] /\ ValuePoint(r).labels = Labels(r) BY DEF ValuePoint
  <1>5. ASSUME NEW i \in DOMAIN F, NEW k
        PROVE  SumFunction([p \in added(i, k) |-> p.value]) = AmountsOf(asked(i, k))
    <2> DEFINE S == asked(i, k)
               T == added(i, k)
               f == [r \in S |-> AmountOf[r.payment]]
               g == [p \in T |-> p.value]
               h == [r \in S |-> ValuePoint(r)]
    <2>0. \A p : p \in T <=> p \in kept(i) /\ GroupKey(p.labels, by) = k
      BY <1>0 DEF Added, Reduced, Kept, InRange
    <2>1. /\ \A p \in T : \E r \in S : p = ValuePoint(r)
          /\ \A r \in S : ValuePoint(r) \in T
      <3> HIDE DEF T, kept
      <3> QED BY <1>2, <1>4, <2>0
    <2>2. \A r \in S : r \in sent /\ r.payment \in Payments BY DEF Asks, FailedRecords, MoneyInv
    <2> HIDE DEF S, T
    <2>3. IsFiniteSet(S)
      <3>1. S \subseteq sent BY <2>2
      <3> QED BY <3>1, FS_Subset DEF StoredInv
    <2>4. f \in [S -> Nat] BY <2>2, MoneyPathAssumption
    <2>5. h \in [S -> T] /\ (\A x, y \in S : h[x] = h[y] => x = y) /\ (\A t \in T : \E x \in S : h[x] = t)
      BY <1>3, <2>1
    <2>6. IsFiniteSet(T)
      <3>1. h \in Surjection(S, T) BY <2>5 DEF Surjection
      <3> QED BY <2>3, <3>1, FS_Surjection
    <2>7. g \in [T -> Nat] /\ \A x \in S : f[x] = g[h[x]]
      <3>1. \A x \in S : f[x] = g[h[x]] BY <1>4, <2>5
      <3>2. \A t \in T : g[t] \in Nat
        <4> HIDE DEF f, g, h
        <4> QED BY <2>4, <2>5, <3>1
      <3> QED BY <3>1, <3>2
    <2> HIDE DEF f, g, h
    <2>8. SumFunction(f) = SumFunction(g) BY <2>3, <2>4, <2>5, <2>6, <2>7, SumSame
    <2> QED BY <2>8 DEF AmountsOf, f, g, S, T
  <1>6. /\ DOMAIN answers = DOMAIN F /\ IsFiniteSet(DOMAIN F)
        /\ \A i \in DOMAIN answers : answers[i] = {rows0[i]} /\ IsFiniteSet(rows0[i])
    <2>1. IsFiniteSet(DOMAIN F) BY FilterFacts DEF FailFilters
    <2>2. \A i \in DOMAIN F : answer(i) = {rows0[i]} /\ IsFiniteSet(rows0[i])
      <3> SUFFICES ASSUME NEW i \in DOMAIN F PROVE answer(i) = {rows0[i]} /\ IsFiniteSet(rows0[i]) OBVIOUS
      <3>1. Is(rows0[i], i) BY <1>1
      <3> HIDE DEF rows0, answer
      <3> QED BY <3>1 DEF AnswersMetric
    <2> HIDE DEF rows0, F, answer
    <2> QED BY <2>1, <2>2
  <1> SUFFICES ASSUME NEW rows \in Gather(answers)
               PROVE  /\ IsFiniteSet(rows)
                      /\ \A x \in rows : /\ x.query \in DOMAIN F /\ OfSeries(req, by, x) # {}
                                         /\ LevelOf(x.row) = AmountsOf(OfSeries(req, by, x))
                      /\ \A x, y \in rows : x.query = y.query /\ x.row.labels = y.row.labels => x = y
                      /\ \A i \in DOMAIN F : \A r \in Asks(req, i) : \E x \in rows : x.query = i /\ r \in OfSeries(req, by, x)
    OBVIOUS
  <1>7. /\ IsFiniteSet(rows)
        /\ \A x \in rows : x.query \in DOMAIN F /\ x.row \in rows0[x.query]
        /\ \A i \in DOMAIN F : \A r \in rows0[i] : \E x \in rows : x.query = i /\ x.row = r
        /\ \A x, y \in rows : x.query = y.query /\ x.row = y.row => x = y
    <2> HIDE DEF rows0, answers, F
    <2> QED BY <1>6, GatherOne
  <1> HIDE DEF rows0, answers, F, answer
  <1>8. \A x : OfSeries(req, by, x) = asked(x.query, x.row.labels) BY DEF OfSeries
  <1>9. ASSUME NEW x \in rows
        PROVE  OfSeries(req, by, x) # {} /\ LevelOf(x.row) = AmountsOf(OfSeries(req, by, x))
    <2> DEFINE i == x.query
               k == x.row.labels
    <2>1. i \in DOMAIN F /\ x.row \in rows0[i] BY <1>7
    <2>2. AnswersMetric(rows0[i], Healthy, metric, F[i], by, req.window) BY <1>1, <2>1
    <2>3. k \in {GroupKey(p.labels, by) : p \in kept(i)} BY <2>1, <2>2 DEF AnswersMetric
    <2>4. PICK p \in kept(i) : k = GroupKey(p.labels, by) BY <2>3
    <2>5. PICK r \in Asks(req, i) : p = ValuePoint(r) BY <1>2, <2>1
    <2>6. r \in asked(i, k) BY <1>4, <2>4, <2>5
    <2>7. LevelOf(x.row) = SumFunction([q \in added(i, k) |-> q.value]) BY <2>1, <2>2 DEF AnswersMetric
    <2> HIDE DEF added, asked, kept, Is
    <2> QED BY <1>5, <1>8, <2>1, <2>6, <2>7
  <1>10. ASSUME NEW x \in rows, NEW y \in rows, x.query = y.query, x.row.labels = y.row.labels PROVE x = y
    <2>1. AnswersMetric(rows0[x.query], Healthy, metric, F[x.query], by, req.window)
          /\ x.row \in rows0[x.query] /\ y.row \in rows0[x.query]
      BY <1>1, <1>7, <1>10
    <2>2. x.row = y.row BY <1>10, <2>1 DEF AnswersMetric
    <2> QED BY <1>7, <1>10, <2>2
  <1>11. ASSUME NEW i \in DOMAIN F, NEW r \in Asks(req, i)
         PROVE  \E x \in rows : x.query = i /\ r \in OfSeries(req, by, x)
    <2>1. ValuePoint(r) \in kept(i) BY <1>2
    <2>2. AnswersMetric(rows0[i], Healthy, metric, F[i], by, req.window) BY <1>1
    <2>3. PICK s \in rows0[i] : s.labels = GroupKey(ValuePoint(r).labels, by) BY <2>1, <2>2 DEF AnswersMetric
    <2>4. PICK x \in rows : x.query = i /\ x.row = s BY <1>7
    <2> QED BY <1>4, <1>8, <2>3, <2>4
  <1> HIDE DEF asked
  <1> QED BY <1>7, <1>9, <1>10, <1>11

\* The failures the queries are about, in a currency, and their amounts.
Hits(req, c) ==
    {n \in (DOMAIN FailFilters(req)) \X FailedRecords(req) : n[2] \in Asks(req, n[1]) /\ CurrencyOf[n[2].payment] = c}

Due(req, c) == [n \in Hits(req, c) |-> AmountOf[n[2].payment]]

LEMMA HitFacts ==
    ASSUME StoredInv, MoneyInv, NEW req \in Requests, Plain(req), NEW c
    PROVE  /\ IsFiniteSet(FailedRecords(req)) /\ IsFiniteSet(Hits(req, c)) /\ Due(req, c) \in [Hits(req, c) -> Nat]
           /\ \A r \in FailedRecords(req) : r.payment \in Payments /\ AmountOf[r.payment] \in Nat
  <1>1. IsFiniteSet(FailedRecords(req)) BY FS_Subset DEF FailedRecords, StoredInv
  <1>2. IsFiniteSet(DOMAIN FailFilters(req)) BY FilterFacts DEF FailFilters
  <1>3. IsFiniteSet((DOMAIN FailFilters(req)) \X FailedRecords(req)) BY <1>1, <1>2, FS_Product
  <1>4. IsFiniteSet(Hits(req, c)) BY <1>3, FS_Subset DEF Hits
  <1>5. \A r \in FailedRecords(req) : r.payment \in Payments /\ AmountOf[r.payment] \in Nat
    BY MoneyPathAssumption DEF FailedRecords, MoneyInv
  <1>6. \A n \in Hits(req, c) : n[2] \in FailedRecords(req) BY DEF Hits
  <1>7. Due(req, c) \in [Hits(req, c) -> Nat] BY <1>5, <1>6 DEF Due
  <1> QED BY <1>1, <1>4, <1>5, <1>7

\* Rows that have every hit once add up to what is due.
LEMMA RowsAddUp ==
    ASSUME StoredInv, MoneyInv, NEW req \in Requests, Plain(req), NEW c,
           NEW R, IsFiniteSet(R), NEW query \in [R -> DOMAIN FailFilters(req)], NEW of \in [R -> SUBSET FailedRecords(req)],
           \A x \in R : \A r \in of[x] : r \in Asks(req, query[x]) /\ CurrencyOf[r.payment] = c,
           \A x, y \in R : query[x] = query[y] /\ of[x] \cap of[y] # {} => x = y,
           \A n \in Hits(req, c) : \E x \in R : query[x] = n[1] /\ n[2] \in of[x]
    PROVE  SumFunction(Due(req, c)) = SumFunction([x \in R |-> AmountsOf(of[x])])
  <1> DEFINE S == Hits(req, c)
             f == Due(req, c)
             part == [x \in R |-> {n \in S : n[1] = query[x] /\ n[2] \in of[x]}]
  <1>1. IsFiniteSet(S) /\ f \in [S -> Nat] BY HitFacts
  <1>2. part \in [R -> SUBSET S] OBVIOUS
  <1>3. \A n \in S : \E x \in R : n \in part[x] OBVIOUS
  <1>4. \A x, y \in R : x # y => part[x] \cap part[y] = {}
    <2>1. \A x, y \in R : \A n \in part[x] \cap part[y] : x = y OBVIOUS
    <2> HIDE DEF part
    <2> QED BY <2>1
  <1>5. SumFunction(f) = SumFunction([x \in R |-> SumOver(part[x], f)])
    <2> HIDE DEF S, f, part
    <2> QED BY <1>1, <1>2, <1>3, <1>4, SumParts
  <1>6. ASSUME NEW x \in R PROVE SumOver(part[x], f) = AmountsOf(of[x])
    <2> DEFINE T == part[x]
               U == of[x]
               a == [r \in U |-> AmountOf[r.payment]]
               b == [n \in T |-> f[n]]
               h == [r \in U |-> <<query[x], r>>]
    <2>1. \A n \in T : n \in S /\ n[1] = query[x] /\ n[2] \in U /\ n = <<query[x], n[2]>> BY DEF Hits
    <2>2. \A r \in U : <<query[x], r>> \in T BY DEF Hits
    <2>3. \A n \in S : f[n] = AmountOf[n[2].payment] BY DEF Due
    <2>4. IsFiniteSet(U) /\ IsFiniteSet(T)
      <3>1. U \subseteq FailedRecords(req) OBVIOUS
      <3> QED BY <1>1, <1>2, <3>1, HitFacts, FS_Subset
    <2>5. a \in [U -> Nat] BY HitFacts
    <2> HIDE DEF T, U, f, S
    <2>6. b \in [T -> Nat] BY <1>1, <2>1
    <2>7. h \in [U -> T] /\ (\A r, q \in U : h[r] = h[q] => r = q) /\ (\A n \in T : \E r \in U : h[r] = n)
      BY <2>1, <2>2
    <2>8. \A r \in U : a[r] = b[h[r]] BY <2>1, <2>2, <2>3
    <2> HIDE DEF a, b, h
    <2>9. SumFunction(a) = SumFunction(b) BY <2>4, <2>5, <2>6, <2>7, <2>8, SumSame
    <2> QED BY <2>9 DEF AmountsOf, SumOver, a, b, T, U
  <1>7. [x \in R |-> SumOver(part[x], f)] = [x \in R |-> AmountsOf(of[x])] BY <1>6
  <1> QED BY <1>5, <1>7

\* A sum by currency, read for one.
LEMMA NothingAdded == SumFunction([x \in {} |-> 0]) = 0 /\ \A f : DOMAIN f = {} => f = [x \in {} |-> 0]
  <1>1. [x \in {} |-> 0] \in [{} -> Int] OBVIOUS
  <1>2. SumFunction([x \in {} |-> 0]) = 0 BY <1>1, FS_EmptySet, SumFacts
  <1> QED BY <1>2

\* The metrics-only figure is all that is due.
LEMMA MostIsDue ==
    ASSUME StoredInv, MoneyInv, NEW req \in Requests, Plain(req), Intact(req),
           NEW most \in RealizedFromMetrics(Healthy, req), NEW c
    PROVE  Money(most.byCurrency, c) = SumFunction(Due(req, c))
  <1> DEFINE F == FailFilters(req)
             by == {"currency"}
             series == Gather([i \in DOMAIN F |-> Counter(Healthy, "biz_value_total", F[i], by, req.window, 0)])
  <1>1. PICK values \in series : most.byCurrency = Totals(values, LAMBDA s : s.row.labels["currency"], LAMBDA s : LevelOf(s.row))
    <2> DEFINE counts == Gather([i \in DOMAIN F |-> Counter(Healthy, "biz_txn_total", F[i], {}, req.window, 0)])
               total(v) == Totals(v, LAMBDA s : s.row.labels["currency"], LAMBDA s : LevelOf(s.row))
               leg(v, k) == [count |-> SumFunction([s \in k |-> LevelOf(s.row)]), byCurrency |-> total(v)]
    <2>1. RealizedFromMetrics(Healthy, req) = {leg(v, k) : v \in series, k \in counts} BY DEF RealizedFromMetrics, FailFilters
    <2>2. \A v, k : leg(v, k).byCurrency = total(v) OBVIOUS
    <2> HIDE DEF leg, total, series, counts
    <2>3. PICK v \in series, k \in counts : most = leg(v, k) BY <2>1
    <2>4. most.byCurrency = total(v) BY <2>2, <2>3
    <2> QED BY <2>4 DEF total
  <1>2. /\ IsFiniteSet(values)
        /\ \A x \in values : /\ x.query \in DOMAIN F /\ OfSeries(req, by, x) # {}
                             /\ LevelOf(x.row) = AmountsOf(OfSeries(req, by, x))
        /\ \A x, y \in values : x.query = y.query /\ x.row.labels = y.row.labels => x = y
        /\ \A i \in DOMAIN F : \A r \in Asks(req, i) : \E x \in values : x.query = i /\ r \in OfSeries(req, by, x)
    <2> HIDE DEF by
    <2> QED BY <1>1, ValueRows
  <1> DEFINE R == {x \in values : x.row.labels["currency"] = c}
             query == [x \in R |-> x.query]
             of == [x \in R |-> OfSeries(req, by, x)]
  <1>3. \A r : GroupKey(Labels(r), by) = [k \in by |-> CurrencyOf[r.payment]] BY DEF GroupKey, Label, Labels
  <1>4. \A x : \A r \in OfSeries(req, by, x) :
          /\ r \in Asks(req, x.query) /\ r \in FailedRecords(req)
          /\ x.row.labels = [k \in by |-> CurrencyOf[r.payment]]
    BY <1>3 DEF OfSeries, Asks
  <1>5. \A x \in values : \A r \in OfSeries(req, by, x) : x.row.labels["currency"] = CurrencyOf[r.payment]
    <2> SUFFICES ASSUME NEW x \in values, NEW r \in OfSeries(req, by, x)
                 PROVE  x.row.labels["currency"] = CurrencyOf[r.payment]
      OBVIOUS
    <2>1. x.row.labels = [k \in by |-> CurrencyOf[r.payment]] BY <1>4
    <2> QED BY <2>1
  <1>6. IsFiniteSet(R) BY <1>2, FS_Subset
  <1>7. query \in [R -> DOMAIN F] /\ of \in [R -> SUBSET FailedRecords(req)] BY <1>2, <1>4
  <1>8. \A x \in R : \A r \in of[x] : r \in Asks(req, query[x]) /\ CurrencyOf[r.payment] = c BY <1>4, <1>5
  <1>9. \A x, y \in R : query[x] = query[y] /\ of[x] \cap of[y] # {} => x = y
    <2> SUFFICES ASSUME NEW x \in R, NEW y \in R, query[x] = query[y], of[x] \cap of[y] # {} PROVE x = y OBVIOUS
    <2>1. PICK r : r \in OfSeries(req, by, x) /\ r \in OfSeries(req, by, y) OBVIOUS
    <2>2. x.row.labels = y.row.labels BY <1>4, <2>1
    <2> QED BY <1>2, <2>2
  <1>10. \A n \in Hits(req, c) : \E x \in R : query[x] = n[1] /\ n[2] \in of[x]
    <2> SUFFICES ASSUME NEW n \in Hits(req, c) PROVE \E x \in R : query[x] = n[1] /\ n[2] \in of[x] OBVIOUS
    <2>1. n[1] \in DOMAIN F /\ n[2] \in Asks(req, n[1]) /\ CurrencyOf[n[2].payment] = c BY DEF Hits
    <2>2. PICK x \in values : x.query = n[1] /\ n[2] \in OfSeries(req, by, x) BY <1>2, <2>1
    <2>3. x \in R BY <1>5, <2>1, <2>2
    <2> QED BY <2>2, <2>3
  <1>11. SumFunction(Due(req, c)) = SumFunction([x \in R |-> AmountsOf(of[x])])
    <2> HIDE DEF R, query, of, F
    <2> QED BY <1>6, <1>7, <1>8, <1>9, <1>10, RowsAddUp DEF F
  <1>12. [x \in R |-> AmountsOf(of[x])] = [x \in R |-> LevelOf(x.row)] BY <1>2
  <1>13. Money(most.byCurrency, c) = SumFunction([x \in R |-> LevelOf(x.row)])
    <2> DEFINE C == {x.row.labels["currency"] : x \in values}
               sum(d) == SumFunction([x \in {y \in values : y.row.labels["currency"] = d} |-> LevelOf(x.row)])
    <2>1. most.byCurrency = [d \in C |-> sum(d)] BY <1>1 DEF Totals
    <2>2. CASE c \in C BY <2>1, <2>2 DEF Money
    <2>3. CASE c \notin C
      <3>1. R = {} BY <2>3
      <3>2. DOMAIN [x \in R |-> LevelOf(x.row)] = {} BY <3>1
      <3>3. SumFunction([x \in R |-> LevelOf(x.row)]) = 0 BY <3>2, NothingAdded
      <3>4. c \notin DOMAIN most.byCurrency BY <2>1, <2>3
      <3> QED BY <3>3, <3>4 DEF Money
    <2> QED BY <2>2, <2>3
  <1> QED BY <1>11, <1>12, <1>13

LEMMA AmountsNat ==
    ASSUME StoredInv, MoneyInv, NEW req \in Requests, Plain(req), NEW records, records \subseteq FailedRecords(req)
    PROVE  AmountsOf(records) \in Nat
  <1>1. IsFiniteSet(FailedRecords(req)) /\ \A r \in FailedRecords(req) : AmountOf[r.payment] \in Nat BY HitFacts
  <1>2. IsFiniteSet(records) BY <1>1, FS_Subset
  <1>3. [r \in records |-> AmountOf[r.payment]] \in [records -> Nat] BY <1>1
  <1> QED BY <1>2, <1>3, SumNat DEF AmountsOf

\* What the customers hit add up to is all that is due.
LEMMA GrossIsDue ==
    ASSUME StoredInv, MoneyInv, NEW req \in Requests, Plain(req), Intact(req), NEW who \in Customers(Healthy, req), NEW c
    PROVE  SumFunction([id \in DOMAIN who.gross |-> Money(who.gross[id], c)]) = SumFunction(Due(req, c))
  <1> DEFINE F == FailFilters(req)
             by == {"currency", "customer", "segment"}
             answers == EventsPerFlow(Healthy, req, "failed", by, "groups")
             ids(rows) == {g.row.key["customer"] : g \in rows}
             totals(rows, id) == Totals({g \in rows : g.row.key["customer"] = id}, LAMBDA g : g.row.key["currency"], LAMBDA g : g.row.sum)
             total(rows) == [id \in ids(rows) |-> totals(rows, id)]
  <1>1. PICK rows \in answers : who.gross = total(rows)
    <2> DEFINE leg(rows) == [gross |-> total(rows), distinct |-> Cardinality(DOMAIN total(rows)), top |-> TopN(total(rows), DefaultTopN)]
    <2>1. Customers(Healthy, req) = {leg(rows) : rows \in answers} BY DEF Customers
    <2>2. \A rows : leg(rows).gross = total(rows) OBVIOUS
    <2> HIDE DEF leg, total, answers
    <2> QED BY <2>1, <2>2
  <1>2. /\ IsFiniteSet(rows)
        /\ \A x \in rows : x.query \in DOMAIN F /\ OfRow(req, by, x) # {} /\ x.row.sum = AmountsOf(OfRow(req, by, x))
        /\ \A x, y \in rows : x.query = y.query /\ x.row.key = y.row.key => x = y
        /\ \A i \in DOMAIN F : \A r \in Asks(req, i) : \E x \in rows : x.query = i /\ r \in OfRow(req, by, x)
    <2>1. "currency" \in by OBVIOUS
    <2>2. rows \in answers BY <1>1
    <2> HIDE DEF by
    <2>3. RowsOf(rows, req, by, "groups") BY <2>1, <2>2, FailureRows
    <2> QED BY <2>3 DEF RowsOf
  <1> DEFINE R == {x \in rows : x.row.key["currency"] = c}
             query == [x \in R |-> x.query]
             of == [x \in R |-> OfRow(req, by, x)]
             f == [x \in R |-> x.row.sum]
             part == [id \in ids(rows) |-> {x \in R : x.row.key["customer"] = id}]
  <1>3. \A r : GroupKey(EventOf(r).labels, by)["currency"] = CurrencyOf[r.payment] BY DEF GroupKey, Label, EventOf
  <1>4. \A x : \A r \in OfRow(req, by, x) :
          /\ r \in Asks(req, x.query) /\ r \in FailedRecords(req)
          /\ x.row.key = GroupKey(EventOf(r).labels, by)
    BY DEF OfRow, Asks
  <1>5. \A x : \A r \in OfRow(req, by, x) : x.row.key["currency"] = CurrencyOf[r.payment]
    <2> HIDE DEF by
    <2> QED BY <1>3, <1>4
  <1>6. IsFiniteSet(R) BY <1>2, FS_Subset
  <1>7. query \in [R -> DOMAIN F] /\ of \in [R -> SUBSET FailedRecords(req)] BY <1>2, <1>4
  <1>8. \A x \in R : \A r \in of[x] : r \in Asks(req, query[x]) /\ CurrencyOf[r.payment] = c BY <1>4, <1>5
  <1>9. \A x, y \in R : query[x] = query[y] /\ of[x] \cap of[y] # {} => x = y
    <2> SUFFICES ASSUME NEW x \in R, NEW y \in R, query[x] = query[y], of[x] \cap of[y] # {} PROVE x = y OBVIOUS
    <2>1. PICK r : r \in OfRow(req, by, x) /\ r \in OfRow(req, by, y) OBVIOUS
    <2>2. x.row.key = y.row.key BY <1>4, <2>1
    <2> QED BY <1>2, <2>2
  <1>10. \A n \in Hits(req, c) : \E x \in R : query[x] = n[1] /\ n[2] \in of[x]
    <2> SUFFICES ASSUME NEW n \in Hits(req, c) PROVE \E x \in R : query[x] = n[1] /\ n[2] \in of[x] OBVIOUS
    <2>1. n[1] \in DOMAIN F /\ n[2] \in Asks(req, n[1]) /\ CurrencyOf[n[2].payment] = c BY DEF Hits
    <2>2. PICK x \in rows : x.query = n[1] /\ n[2] \in OfRow(req, by, x) BY <1>2, <2>1
    <2>3. x \in R BY <1>5, <2>1, <2>2
    <2> QED BY <2>2, <2>3
  <1>11. SumFunction(Due(req, c)) = SumFunction([x \in R |-> AmountsOf(of[x])])
    <2> HIDE DEF R, query, of, F
    <2> QED BY <1>6, <1>7, <1>8, <1>9, <1>10, RowsAddUp DEF F
  <1>12. [x \in R |-> AmountsOf(of[x])] = f BY <1>2
  <1>13. f \in [R -> Nat]
    <2>1. \A x \in R : OfRow(req, by, x) \subseteq FailedRecords(req) BY <1>4
    <2>2. \A x \in R : AmountsOf(OfRow(req, by, x)) \in Nat
      <3> HIDE DEF R, by
      <3> QED BY <2>1, AmountsNat
    <2> QED BY <1>2, <2>2
  <1>14. IsFiniteSet(ids(rows))
    <2> DEFINE h == [g \in rows |-> g.row.key["customer"]]
    <2>1. DOMAIN h = rows /\ ids(rows) = {h[g] : g \in rows} OBVIOUS
    <2>2. IsFiniteSet(rows) BY <1>2
    <2> HIDE DEF h, ids
    <2> QED BY <2>1, <2>2, FiniteImage
  <1>15. SumFunction(f) = SumFunction([id \in ids(rows) |-> SumOver(part[id], f)])
    <2>1. part \in [ids(rows) -> SUBSET R] OBVIOUS
    <2>2. \A x \in R : \E id \in ids(rows) : x \in part[id] OBVIOUS
    <2>3. \A i, j \in ids(rows) : i # j => part[i] \cap part[j] = {} OBVIOUS
    <2> HIDE DEF R, f, part, ids
    <2> QED BY <1>6, <1>13, <1>14, <2>1, <2>2, <2>3, SumParts
  <1>16. ASSUME NEW id \in ids(rows) PROVE SumOver(part[id], f) = Money(who.gross[id], c)
    <2> DEFINE mine == {g \in rows : g.row.key["customer"] = id}
               C == {g.row.key["currency"] : g \in mine}
               sum(d) == SumFunction([g \in {y \in mine : y.row.key["currency"] = d} |-> g.row.sum])
    <2>1. who.gross[id] = [d \in C |-> sum(d)] BY <1>1 DEF Totals
    <2>2. part[id] = {y \in mine : y.row.key["currency"] = c} OBVIOUS
    <2>3. [x \in part[id] |-> f[x]] = [x \in part[id] |-> x.row.sum] OBVIOUS
    <2>4. SumOver(part[id], f) = SumFunction([x \in part[id] |-> x.row.sum]) BY <2>3 DEF SumOver
    <2> DEFINE P == part[id]
    <2>5. SumOver(part[id], f) = sum(c) BY <2>2, <2>4
    <2>6. CASE c \in C BY <2>1, <2>5, <2>6 DEF Money
    <2>7. CASE c \notin C
      <3>1. DOMAIN [x \in part[id] |-> x.row.sum] = {} BY <2>2, <2>7
      <3>2. SumFunction([x \in part[id] |-> x.row.sum]) = 0 BY <3>1, NothingAdded
      <3>3. c \notin DOMAIN who.gross[id] BY <2>1, <2>7
      <3> QED BY <2>4, <3>2, <3>3 DEF Money
    <2> QED BY <2>6, <2>7
  <1>17. DOMAIN who.gross = ids(rows) BY <1>1
  <1>18. [id \in ids(rows) |-> SumOver(part[id], f)] = [id \in DOMAIN who.gross |-> Money(who.gross[id], c)]
    BY <1>16, <1>17
  <1> QED BY <1>11, <1>12, <1>15, <1>18

\* The loss: each row is a payment of its own, hit at least once.
LEMMA NetIsWithin ==
    ASSUME StoredInv, MoneyInv, NEW req \in Requests, Plain(req), Intact(req),
           NEW net \in RealizedFromEvents(Healthy, req), NEW c
    PROVE  LET failing == {p \in Payments : CurrencyOf[p] = c /\ \E r \in FailedRecords(req) : r.payment = p}
           IN  /\ Money(net.byCurrency, c) <= SumFunction([p \in failing |-> AmountOf[p]])
               /\ Money(net.byCurrency, c) <= SumFunction(Due(req, c))
  <1> DEFINE F == FailFilters(req)
             by == {"currency", "entity"}
             failing == {p \in Payments : CurrencyOf[p] = c /\ \E r \in FailedRecords(req) : r.payment = p}
             answers == EventsPerFlow(Healthy, req, "failed", by, "max_per_group")
             money(lost) == Totals(lost, LAMBDA g : g.row.key["currency"], LossOf)
  <1>1. PICK rows \in answers : \E lost \in SUBSET rows : net.byCurrency = money(lost)
    <2> DEFINE won == EventsPerFlow(Healthy, req, "success", by, "groups")
               lost(w, f) == {g \in f : g.row.key["entity"] \notin {h.row.key["entity"] : h \in w}}
               leg(w, f) == [count |-> Cardinality(lost(w, f)), byCurrency |-> money(lost(w, f))]
    <2>1. RealizedFromEvents(Healthy, req) = {leg(w, f) : w \in won, f \in answers} BY DEF RealizedFromEvents
    <2>2. \A w, f : leg(w, f).byCurrency = money(lost(w, f)) /\ lost(w, f) \in SUBSET f OBVIOUS
    <2> HIDE DEF leg, lost, money, answers, won
    <2> QED BY <2>1, <2>2
  <1>2. PICK lost \in SUBSET rows : net.byCurrency = money(lost) BY <1>1
  <1>3. /\ IsFiniteSet(rows)
        /\ \A x \in rows : /\ x.query \in DOMAIN F /\ OfRow(req, by, x) # {}
                           /\ x.row.max = Max({AmountOf[r.payment] : r \in OfRow(req, by, x)})
        /\ \A x, y \in rows : x.query = y.query /\ x.row.key = y.row.key => x = y
    <2>1. "currency" \in by OBVIOUS
    <2> HIDE DEF by
    <2>2. RowsOf(rows, req, by, "max_per_group") BY <1>1, <2>1, FailureRows
    <2> QED BY <2>2 DEF RowsOf
  <1> DEFINE L == {x \in lost : x.row.key["currency"] = c}
             pick == [x \in L |-> CHOOSE r \in OfRow(req, by, x) : TRUE]
             f == [x \in L |-> x.row.max]
             g == [p \in failing |-> AmountOf[p]]
             who == [x \in L |-> pick[x].payment]
             hit == [x \in L |-> <<x.query, pick[x]>>]
  <1>4. \A r : GroupKey(EventOf(r).labels, by) = [k \in by |-> IF k = "currency" THEN CurrencyOf[r.payment] ELSE r.payment]
    BY DEF GroupKey, Label, EventOf
  <1>5. \A x : \A r \in OfRow(req, by, x) :
          /\ r \in Asks(req, x.query) /\ r \in FailedRecords(req) /\ r.payment \in Payments
          /\ x.row.key = [k \in by |-> IF k = "currency" THEN CurrencyOf[r.payment] ELSE r.payment]
    BY <1>4 DEF OfRow, Asks, FailedRecords, MoneyInv
  <1>6. \A x : \A r \in OfRow(req, by, x) : x.row.key["currency"] = CurrencyOf[r.payment] /\ x.row.key["entity"] = r.payment
    <2> SUFFICES ASSUME NEW x, NEW r \in OfRow(req, by, x)
                 PROVE  x.row.key["currency"] = CurrencyOf[r.payment] /\ x.row.key["entity"] = r.payment
      OBVIOUS
    <2>1. x.row.key = [k \in by |-> IF k = "currency" THEN CurrencyOf[r.payment] ELSE r.payment] BY <1>5
    <2> QED BY <2>1
  <1>7. \A x \in L : x \in rows /\ pick[x] \in OfRow(req, by, x) /\ x.row.key["currency"] = c BY <1>3
  <1> HIDE DEF pick, by
  <1>8. ASSUME NEW x \in L
        PROVE  /\ x.row.max = AmountOf[pick[x].payment] /\ x.row.max \in Nat
               /\ pick[x] \in FailedRecords(req) /\ pick[x] \in Asks(req, x.query) /\ CurrencyOf[pick[x].payment] = c
               /\ pick[x].payment \in Payments
    <2>1. pick[x] \in OfRow(req, by, x) BY <1>7
    <2>2. \A r \in OfRow(req, by, x) : r.payment = pick[x].payment BY <1>6, <2>1
    <2>3. {AmountOf[r.payment] : r \in OfRow(req, by, x)} = {AmountOf[pick[x].payment]} BY <2>1, <2>2
    <2>4. AmountOf[pick[x].payment] \in Nat BY <1>5, <2>1, MoneyPathAssumption
    <2>5. Max({AmountOf[pick[x].payment]}) = AmountOf[pick[x].payment] BY <2>4 DEF Max
    <2> QED BY <1>3, <1>5, <1>6, <1>7, <2>1, <2>3, <2>4, <2>5
  <1>13. \A x \in L : x.row.key = [k \in by |-> IF k = "currency" THEN c ELSE pick[x].payment]
    <2> SUFFICES ASSUME NEW x \in L PROVE x.row.key = [k \in by |-> IF k = "currency" THEN c ELSE pick[x].payment] OBVIOUS
    <2>1. x.row.key = [k \in by |-> IF k = "currency" THEN CurrencyOf[pick[x].payment] ELSE pick[x].payment] BY <1>5, <1>7
    <2> QED BY <1>8, <2>1
  <1>9. IsFiniteSet(L) /\ f \in [L -> Nat]
    <2>1. L \subseteq rows OBVIOUS
    <2> QED BY <1>3, <1>8, <2>1, FS_Subset
  <1>10. Money(net.byCurrency, c) = SumFunction(f)
    <2> DEFINE C == {x.row.key["currency"] : x \in lost}
               sum(d) == SumFunction([x \in {y \in lost : y.row.key["currency"] = d} |-> x.row.max])
    <2>1. net.byCurrency = [d \in C |-> sum(d)] BY <1>2 DEF Totals, LossOf
    <2>2. CASE c \in C BY <2>1, <2>2 DEF Money
    <2>3. CASE c \notin C
      <3>1. DOMAIN f = {} BY <2>3
      <3> HIDE DEF f
      <3>2. SumFunction(f) = 0 BY <3>1, NothingAdded
      <3>3. c \notin DOMAIN net.byCurrency BY <2>1, <2>3
      <3> QED BY <3>2, <3>3 DEF Money
    <2> QED BY <2>2, <2>3
  <1>11. SumFunction(f) <= SumFunction(Due(req, c))
    <2>1. hit \in [L -> Hits(req, c)] BY <1>3, <1>7, <1>8 DEF Hits
    <2>2. \A x, y \in L : hit[x] = hit[y] => x = y
      <3> SUFFICES ASSUME NEW x \in L, NEW y \in L, hit[x] = hit[y] PROVE x = y OBVIOUS
      <3>1. x.query = y.query /\ pick[x] = pick[y] OBVIOUS
      <3>3. pick[x].payment = pick[y].payment BY <3>1
      <3> DEFINE key(p) == [k \in by |-> IF k = "currency" THEN c ELSE p]
      <3>4. x.row.key = key(pick[x].payment) /\ y.row.key = key(pick[y].payment) BY <1>13
      <3> HIDE DEF key
      <3>2. x.row.key = y.row.key BY <3>3, <3>4
      <3> QED BY <1>3, <1>7, <3>1, <3>2
    <2>3. \A x \in L : f[x] <= Due(req, c)[hit[x]]
      <3> SUFFICES ASSUME NEW x \in L PROVE f[x] <= Due(req, c)[hit[x]] OBVIOUS
      <3>1. hit[x] \in Hits(req, c) /\ hit[x][2] = pick[x] BY <2>1
      <3>2. Due(req, c)[hit[x]] = AmountOf[pick[x].payment] BY <3>1 DEF Due
      <3>3. f[x] = AmountOf[pick[x].payment] /\ f[x] \in Nat BY <1>8
      <3> HIDE DEF f, hit
      <3> QED BY <3>2, <3>3
    <2>4. IsFiniteSet(Hits(req, c)) /\ Due(req, c) \in [Hits(req, c) -> Nat] BY HitFacts
    <2> HIDE DEF f, hit, L
    <2> QED BY <1>9, <2>1, <2>2, <2>3, <2>4, SumWithin
  <1>12. SumFunction(f) <= SumFunction(g)
    <2>1. who \in [L -> failing] BY <1>8
    <2>2. \A x, y \in L : who[x] = who[y] => x = y
      <3> SUFFICES ASSUME NEW x \in L, NEW y \in L, pick[x].payment = pick[y].payment PROVE x = y OBVIOUS
      <3> DEFINE key(p) == [k \in by |-> IF k = "currency" THEN c ELSE p]
      <3>6. x.row.key = key(pick[x].payment) /\ y.row.key = key(pick[y].payment) BY <1>13
      <3> HIDE DEF key
      <3>1. x.row.key = y.row.key BY <3>6
      <3> DEFINE l == Labels(pick[x])
                 m == Labels(pick[y])
      <3>2. {"flow"} \subseteq DOMAIN l \cap DOMAIN m /\ l["flow"] = m["flow"] BY DEF Labels
      <3>3. MatchFilters(l, F[x.query]) /\ MatchFilters(m, F[y.query]) BY <1>8 DEF Asks
      <3>4. x.query \in DOMAIN F /\ y.query \in DOMAIN F BY <1>3, <1>7
      <3> HIDE DEF l, m
      <3>5. x.query = y.query BY <3>2, <3>3, <3>4, FilterFacts DEF FailFilters
      <3> QED BY <1>3, <1>7, <3>1, <3>5
    <2>3. \A x \in L : f[x] <= g[who[x]]
      <3> SUFFICES ASSUME NEW x \in L PROVE f[x] <= g[who[x]] OBVIOUS
      <3>1. who[x] \in failing /\ who[x] = pick[x].payment BY <2>1
      <3>2. g[who[x]] = AmountOf[pick[x].payment] BY <3>1
      <3>3. f[x] = AmountOf[pick[x].payment] /\ f[x] \in Nat BY <1>8
      <3> HIDE DEF f, who, g
      <3> QED BY <3>2, <3>3
    <2>4. IsFiniteSet(failing) /\ g \in [failing -> Nat]
      <3>1. failing \subseteq Payments OBVIOUS
      <3> QED BY <3>1, MoneyPathAssumption, FS_Subset
    <2> HIDE DEF f, who, L, g, failing
    <2> QED BY <1>9, <2>1, <2>2, <2>3, <2>4, SumWithin
  <1> QED BY <1>10, <1>11, <1>12

LEMMA BoundsHold == StoredInv /\ MoneyInv => RealizedBounds
  <1> SUFFICES ASSUME StoredInv, MoneyInv PROVE RealizedBounds OBVIOUS
  <1> DEFINE failed(req) == {r \in sent : r.outcome = "failed" /\ Inside(r, req)}
             failing(req, c) == {p \in Payments : CurrencyOf[p] = c /\ \E r \in failed(req) : r.payment = p}
             bounds(req, net, most, who, c) ==
                /\ Money(net.byCurrency, c) <= SumFunction([p \in failing(req, c) |-> AmountOf[p]])
                /\ Money(net.byCurrency, c) <= Money(most.byCurrency, c)
                /\ Money(most.byCurrency, c) = SumFunction([id \in DOMAIN who.gross |-> Money(who.gross[id], c)])
  <1>1. ASSUME NEW req \in Asked, Plain(req), \A r \in failed(req) : r.points /\ r.event /\ r.payment \notin Estimated,
               NEW net \in RealizedFromEvents(Store(TRUE, TRUE, {}), req),
               NEW most \in RealizedFromMetrics(Store(TRUE, TRUE, {}), req),
               NEW who \in Customers(Store(TRUE, TRUE, {}), req), NEW c \in Currencies
        PROVE  bounds(req, net, most, who, c)
    <2>1. req \in Requests BY DEF Asked, Over
    <2>2. Intact(req) BY <1>1 DEF Intact, FailedRecords
    <2>3. /\ net \in RealizedFromEvents(Healthy, req) /\ most \in RealizedFromMetrics(Healthy, req)
          /\ who \in Customers(Healthy, req)
      BY DEF Healthy
    <2>4. Money(most.byCurrency, c) = SumFunction(Due(req, c)) BY <1>1, <2>1, <2>2, <2>3, MostIsDue
    <2>5. Money(net.byCurrency, c) <= SumFunction(Due(req, c)) BY <1>1, <2>1, <2>2, <2>3, NetIsWithin
    <2>6. Money(net.byCurrency, c) <= SumFunction([p \in failing(req, c) |-> AmountOf[p]])
      <3> DEFINE lost == {p \in Payments : CurrencyOf[p] = c /\ \E r \in FailedRecords(req) : r.payment = p}
      <3>1. Money(net.byCurrency, c) <= SumFunction([p \in lost |-> AmountOf[p]])
        BY <1>1, <2>1, <2>2, <2>3, NetIsWithin
      <3>2. lost = failing(req, c) BY DEF FailedRecords
      <3> HIDE DEF lost, failing
      <3> QED BY <3>1, <3>2
    <2>7. SumFunction([id \in DOMAIN who.gross |-> Money(who.gross[id], c)]) = SumFunction(Due(req, c))
      BY <1>1, <2>1, <2>2, <2>3, GrossIsDue
    <2> QED BY <2>4, <2>5, <2>6, <2>7
  <1>2. \A req \in Asked : Plain(req) /\ (\A r \in failed(req) : r.points /\ r.event /\ r.payment \notin Estimated) =>
           \A net \in RealizedFromEvents(Store(TRUE, TRUE, {}), req),
              most \in RealizedFromMetrics(Store(TRUE, TRUE, {}), req),
              who \in Customers(Store(TRUE, TRUE, {}), req) :
                 \A c \in Currencies : bounds(req, net, most, who, c)
    <2> HIDE DEF failed, bounds
    <2> QED BY <1>1
  <1> QED BY <1>2 DEF RealizedBounds

\* When telemetry has every failure, the loss counts no payment twice, is
\* within the metrics-only figure, and that is what the customers hit add up
\* to (realizedFromEvents, realizedFromMetrics, customersImpacted), for any
\* payments, amounts, requests and histories.
THEOREM LossIsBounded == Spec => []RealizedBounds
  <1>1. Init => StoredInv /\ MoneyInv
    <2>1. IsFiniteSet({}) BY FS_EmptySet
    <2> QED BY <2>1 DEF Init, MoneyInv, StoredInv
  <1>2. StoredInv /\ MoneyInv /\ [Next]_vars => StoredInv' /\ MoneyInv' BY StoredStep, MoneyStep
  <1> QED BY <1>1, <1>2, BoundsHold, PTL DEF Spec

-----------------------------------------------------------------------------
(* The level of the in-flight gauge *)

\* A combo of the payment, in some age bucket.
IsComboOf(l, p) ==
    \E b : l = [flow |-> FlowOf[p], stage |-> "capture", currency |-> CurrencyOf[p], age_bucket |-> b]

\* What a gauge of a family adds up for a payment.
Weight(name) == [p \in Payments |-> IF name = "biz_inflight_value" THEN AmountOf[p] ELSE 1]

\* Sample s of a Publish that put its payments under the labels of.
ShowsLevel(s, of) == s.value = SumOver({p \in DOMAIN of : of[p] = s.labels}, Weight(s.name))

\* The samples of the k-th Publish are what its payments add up to.
Shows(k, of) ==
    /\ of \in [published[k].payments -> {of[p] : p \in published[k].payments}]
    /\ \A p \in published[k].payments : IsComboOf(of[p], p)
    /\ \A s \in samples : s.n = k - 1 => ShowsLevel(s, of)
    /\ \A p \in published[k].payments, name \in GaugeFamilies :
         \E s \in samples : s.n = k - 1 /\ s.name = name /\ s.labels = of[p]

\* The Publishes in order, and their samples.
TimesInv ==
    /\ now \in Nat /\ published \in Seq([at : Nat, payments : SUBSET Payments])
    /\ \A i \in DOMAIN published : published[i].at <= now
    /\ \A i, j \in DOMAIN published : i < j => published[i].at < published[j].at

SamplesInv ==
    /\ \A c \in live : \E p \in Payments : IsComboOf(c, p)
    /\ \A s \in samples : /\ s.name \in GaugeFamilies /\ s.n \in Nat /\ s.n + 1 \in DOMAIN published
                          /\ s = [n |-> s.n, name |-> s.name, labels |-> s.labels, at |-> published[s.n + 1].at, value |-> s.value]
                          /\ \E p \in Payments : IsComboOf(s.labels, p)
    /\ \A s \in samples, name \in GaugeFamilies : \E t \in samples : t.n = s.n /\ t.name = name /\ t.labels = s.labels
    /\ \A k \in DOMAIN published : \E of : Shows(k, of)

\* A level that is not zero is published again.
AgainInv ==
    \A s \in samples : s.value # 0 =>
        IF s.n + 1 = Len(published) THEN s.labels \in live
        ELSE \E t \in samples : t.n = s.n + 1 /\ t.name = s.name /\ t.labels = s.labels

GaugeInv == TimesInv /\ SamplesInv /\ AgainInv

\* As many as there are is one for each.
LEMMA SumOnes ==
    ASSUME NEW S, IsFiniteSet(S), NEW f \in [S -> Nat], \A x \in S : f[x] = 1
    PROVE  \A s \in SUBSET S : SumOver(s, f) = Cardinality(s)
  <1> DEFINE Bad == {s \in SUBSET S : SumOver(s, f) # Cardinality(s)}
  <1>1. ASSUME Bad # {} PROVE FALSE
    <2>1. PICK s \in Bad : IsFiniteSet(s) /\ \A x \in s : s \ {x} \notin Bad BY <1>1, SmallestSet
    <2>2. s \in SUBSET S /\ SumOver(s, f) # Cardinality(s) BY <2>1
    <2>3. s # {} BY <2>2, SumStep, FS_EmptySet
    <2>4. PICK x \in s : TRUE BY <2>3
    <2>5. PICK r : r = s \ {x} OBVIOUS
    <2>6. SumOver(r, f) = Cardinality(r) BY <2>1, <2>2, <2>5
    <2>7. SumOver(s, f) = 1 + SumOver(r, f) BY <2>2, <2>4, <2>5, SumStep
    <2>8. Cardinality(r) = Cardinality(s) - 1 /\ Cardinality(s) \in Nat BY <2>1, <2>4, <2>5, FS_RemoveElement, FS_CardinalityType
    <2> QED BY <2>2, <2>6, <2>7, <2>8
  <1> QED BY <1>1

LEMMA WeightFacts ==
    ASSUME NEW name
    PROVE  /\ Weight(name) \in [Payments -> Nat] /\ \A p \in Payments : Weight(name)[p] > 0
           /\ \A s \in SUBSET Payments : s = {} => SumOver(s, Weight(name)) = 0
  <1>1. /\ Weight(name) \in [Payments -> Nat] /\ \A p \in Payments : Weight(name)[p] > 0
    BY MoneyPathAssumption DEF Weight
  <1>2. \A s \in SUBSET Payments : s = {} => SumOver(s, Weight(name)) = 0 BY <1>1, MoneyPathAssumption, SumStep
  <1> QED BY <1>1, <1>2

LEMMA ElementsOf ==
    ASSUME NEW E, NEW s \in Seq(E)
    PROVE  \A i \in DOMAIN s : s[i] \in E
  OBVIOUS

LEMMA InFlightPayments == InFlight \subseteq Payments
  BY DEF InFlight

LEMMA PublishGauges == GaugeInv /\ Publish => GaugeInv'
  <1> SUFFICES ASSUME GaugeInv, Publish PROVE GaugeInv' OBVIOUS
  <1> USE DEF GaugeInv
  <1> DEFINE N == Len(published)
             full == {Combo(p) : p \in InFlight}
             in(c) == {p \in InFlight : Combo(p) = c}
             combos == full \cup Retired
             value(c) == Sample("biz_inflight_value", c, SumFunction([p \in in(c) |-> AmountOf[p]]))
             count(c) == Sample("biz_inflight_count", c, Cardinality(in(c)))
             new == {value(c) : c \in combos} \cup {count(c) : c \in combos}
             of == [p \in InFlight |-> Combo(p)]
  <1>1. /\ samples' = samples \cup new
        /\ published' = Append(published, [at |-> now, payments |-> InFlight])
        /\ live' = full /\ now' = now
        /\ \A i \in DOMAIN published : published[i].at < now
    <2>1. samples' = samples \cup {value(c) : c \in combos} \cup {count(c) : c \in combos} BY Published
    <2> QED BY <2>1 DEF Publish
  <1>2. N \in Nat /\ DOMAIN published = 1 .. N BY DEF TimesInv
  <1>3. /\ DOMAIN published' = 1 .. N + 1 /\ Len(published') = N + 1
        /\ \A i \in 1 .. N : published'[i] = published[i]
        /\ published'[N + 1].at = now /\ published'[N + 1].payments = InFlight
        /\ published' \in Seq([at : Nat, payments : SUBSET Payments])
    <2> DEFINE e == [at |-> now, payments |-> InFlight]
    <2>1. e \in [at : Nat, payments : SUBSET Payments] /\ e.at = now /\ e.payments = InFlight
      BY InFlightPayments DEF TimesInv
    <2>2. published' = Append(published, e) BY <1>1
    <2> HIDE DEF e
    <2> QED BY <1>2, <2>1, <2>2 DEF TimesInv
  <1>4. TimesInv'
    <2>1. \A i \in DOMAIN published' : published'[i].at <= now BY <1>1, <1>2, <1>3 DEF TimesInv
    <2>2. \A i, j \in DOMAIN published' : i < j => published'[i].at < published'[j].at
      <3> SUFFICES ASSUME NEW i \in 1 .. N + 1, NEW j \in 1 .. N + 1, i < j PROVE published'[i].at < published'[j].at
        BY <1>3
      <3>1. i \in 1 .. N BY <1>2
      <3>2. CASE j = N + 1 BY <1>1, <1>2, <1>3, <3>1, <3>2
      <3>3. CASE j \in 1 .. N BY <1>2, <1>3, <3>1, <3>3 DEF TimesInv
      <3> QED BY <1>2, <3>2, <3>3
    <2> QED BY <1>1, <1>3, <2>1, <2>2 DEF TimesInv
  <1>5. \A p \in Payments : IsComboOf(Combo(p), p) BY DEF IsComboOf, Combo
  <1>6. \A c \in combos : \E p \in Payments : IsComboOf(c, p)
    BY <1>5, InFlightPayments DEF Retired, SamplesInv
  <1>7. \A c : in(c) \in SUBSET Payments /\ IsFiniteSet(in(c))
    <2>1. \A c : in(c) \in SUBSET Payments BY InFlightPayments
    <2> HIDE DEF in
    <2> QED BY <2>1, MoneyPathAssumption, FS_Subset
  <1>8. \A c : /\ SumFunction([p \in in(c) |-> AmountOf[p]]) = SumOver(in(c), Weight("biz_inflight_value"))
               /\ Cardinality(in(c)) = SumOver(in(c), Weight("biz_inflight_count"))
    <2> SUFFICES ASSUME NEW c
                 PROVE  /\ SumFunction([p \in in(c) |-> AmountOf[p]]) = SumOver(in(c), Weight("biz_inflight_value"))
                        /\ Cardinality(in(c)) = SumOver(in(c), Weight("biz_inflight_count"))
      OBVIOUS
    <2> DEFINE I == in(c)
    <2>1. I \in SUBSET Payments BY <1>7
    <2> HIDE DEF I
    <2>2. [p \in I |-> AmountOf[p]] = [p \in I |-> Weight("biz_inflight_value")[p]] BY <2>1 DEF Weight
    <2>3. \A p \in Payments : Weight("biz_inflight_count")[p] = 1 BY DEF Weight
    <2>4. Cardinality(I) = SumOver(I, Weight("biz_inflight_count"))
      <3>1. PICK w : w = Weight("biz_inflight_count") OBVIOUS
      <3>2. w \in [Payments -> Nat] /\ \A p \in Payments : w[p] = 1 BY <2>3, <3>1, WeightFacts
      <3>3. IsFiniteSet(Payments) BY MoneyPathAssumption
      <3>4. \A s \in SUBSET Payments : SumOver(s, w) = Cardinality(s) BY <3>2, <3>3, SumOnes
      <3> QED BY <2>1, <3>1, <3>4
    <2> QED BY <2>2, <2>4 DEF SumOver, I
  <1>9. ASSUME NEW s \in new
        PROVE  /\ s.n = N /\ s.labels \in combos /\ s.name \in GaugeFamilies
               /\ s = [n |-> s.n, name |-> s.name, labels |-> s.labels, at |-> now, value |-> s.value]
               /\ s.value = SumOver(in(s.labels), Weight(s.name))
    <2>1. PICK c \in combos : s = value(c) \/ s = count(c) OBVIOUS
    <2> HIDE DEF in
    <2>2. CASE s = value(c) BY <1>8, <2>1, <2>2 DEF Sample, GaugeFamilies
    <2>3. CASE s = count(c) BY <1>8, <2>1, <2>3 DEF Sample, GaugeFamilies
    <2> QED BY <2>1, <2>2, <2>3
  <1>10. \A c \in combos, name \in GaugeFamilies : \E s \in new : s.n = N /\ s.name = name /\ s.labels = c
    <2> SUFFICES ASSUME NEW c \in combos, NEW name \in GaugeFamilies PROVE \E s \in new : s.n = N /\ s.name = name /\ s.labels = c
      OBVIOUS
    <2>1. value(c) \in new /\ count(c) \in new OBVIOUS
    <2>2. /\ value(c).n = N /\ value(c).labels = c /\ value(c).name = "biz_inflight_value"
          /\ count(c).n = N /\ count(c).labels = c /\ count(c).name = "biz_inflight_count"
      BY DEF Sample
    <2> HIDE DEF new, value, count
    <2> QED BY <2>1, <2>2 DEF GaugeFamilies
  <1>11. \A s \in samples : s.n \in Nat /\ s.n + 1 \in 1 .. N BY <1>2 DEF SamplesInv
  <1> HIDE DEF new
  <1>12. AgainInv'
    <2> SUFFICES ASSUME NEW s \in samples', s.value # 0
                 PROVE  IF s.n + 1 = N + 1 THEN s.labels \in full
                        ELSE \E t \in samples' : t.n = s.n + 1 /\ t.name = s.name /\ t.labels = s.labels
      BY <1>1, <1>3 DEF AgainInv
    <2>1. CASE s \in new
      <3>1. s.n = N /\ s.labels \in combos /\ s.value = SumOver(in(s.labels), Weight(s.name)) BY <1>9, <2>1
      <3>2. in(s.labels) # {}
        <4> HIDE DEF in
        <4> QED BY <1>7, <3>1, WeightFacts
      <3>3. s.labels \in full BY <3>2
      <3> QED BY <3>1, <3>3
    <2>2. CASE s \in samples
      <3>1. s.n \in Nat /\ s.n + 1 \in 1 .. N /\ s.n + 1 # N + 1 BY <1>2, <1>11, <2>2
      <3>2. CASE s.n + 1 = N
        <4>1. s.labels \in live BY <2>2, <3>2 DEF AgainInv
        <4>2. s.labels \in combos BY <4>1 DEF Retired
        <4>3. s.name \in GaugeFamilies BY <2>2 DEF SamplesInv
        <4>4. PICK t \in new : t.n = N /\ t.name = s.name /\ t.labels = s.labels BY <1>10, <4>2, <4>3
        <4> QED BY <1>1, <3>1, <3>2, <4>4
      <3>3. CASE s.n + 1 # N
        <4>1. \E t \in samples : t.n = s.n + 1 /\ t.name = s.name /\ t.labels = s.labels BY <2>2, <3>3 DEF AgainInv
        <4> QED BY <1>1, <3>1, <4>1
      <3> QED BY <3>2, <3>3
    <2> QED BY <1>1, <2>1, <2>2
  <1>13. \A k \in DOMAIN published' : \E o : Shows(k, o)'
    <2> SUFFICES ASSUME NEW k \in 1 .. N + 1 PROVE \E o : Shows(k, o)' BY <1>3
    <2>1. CASE k \in 1 .. N
      <3>1. PICK o : Shows(k, o) BY <1>2, <2>1 DEF SamplesInv
      <3>2. published'[k].payments = published[k].payments BY <1>3, <2>1
      <3>3. ASSUME NEW s \in new PROVE s.n # k - 1
        <4>1. s.n = N BY <1>9
        <4> HIDE DEF N
        <4> QED BY <1>2, <2>1, <4>1
      <3>4. \A s \in samples' : s.n = k - 1 => ShowsLevel(s, o) BY <1>1, <3>1, <3>3 DEF Shows
      <3>5. \A p \in published[k].payments, name \in GaugeFamilies :
              \E s \in samples' : s.n = k - 1 /\ s.name = name /\ s.labels = o[p]
        BY <1>1, <3>1 DEF Shows
      <3>6. Shows(k, o)' BY <3>1, <3>2, <3>4, <3>5 DEF Shows, ShowsLevel
      <3> QED BY <3>6
    <2>2. CASE k = N + 1
      <3>1. published'[k].payments = InFlight /\ k - 1 = N BY <1>2, <1>3, <2>2
      <3>2. \A p \in InFlight : of[p] = Combo(p) /\ of[p] \in combos OBVIOUS
      <3>3. ASSUME NEW s \in samples', s.n = N PROVE ShowsLevel(s, of)
        <4>1. s \in new BY <1>1, <1>2, <1>11, <3>3
        <4>2. {p \in DOMAIN of : of[p] = s.labels} = in(s.labels) OBVIOUS
        <4> QED BY <1>9, <4>1, <4>2 DEF ShowsLevel
      <3>4. \A p \in InFlight, name \in GaugeFamilies : \E s \in samples' : s.n = N /\ s.name = name /\ s.labels = of[p]
        BY <1>1, <1>10, <3>2
      <3>5. \A p \in InFlight : IsComboOf(of[p], p) BY <1>5, <3>2, InFlightPayments
      <3>6. of \in [InFlight -> {of[p] : p \in InFlight}] OBVIOUS
      <3> HIDE DEF of
      <3>7. PICK o : o = of OBVIOUS
      <3>8. \A s \in samples' : s.n = k - 1 => s.value = SumOver({p \in DOMAIN o : o[p] = s.labels}, Weight(s.name))
        BY <3>1, <3>3, <3>7 DEF ShowsLevel
      <3>9. /\ o \in [published'[k].payments -> {o[p] : p \in published'[k].payments}]
            /\ \A p \in published'[k].payments : IsComboOf(o[p], p)
            /\ \A p \in published'[k].payments, name \in GaugeFamilies :
                 \E s \in samples' : s.n = k - 1 /\ s.name = name /\ s.labels = o[p]
        BY <3>1, <3>4, <3>5, <3>6, <3>7
      <3>10. Shows(k, o)' BY <3>8, <3>9 DEF Shows, ShowsLevel
      <3> QED BY <3>10
    <2> QED BY <1>2, <2>1, <2>2
  <1>14. SamplesInv'
    <2>1. \A c \in live' : \E p \in Payments : IsComboOf(c, p) BY <1>1, <1>6
    <2>2. ASSUME NEW s \in samples'
          PROVE  /\ s.name \in GaugeFamilies /\ s.n \in Nat /\ s.n + 1 \in DOMAIN published'
                 /\ s = [n |-> s.n, name |-> s.name, labels |-> s.labels, at |-> published'[s.n + 1].at, value |-> s.value]
                 /\ \E p \in Payments : IsComboOf(s.labels, p)
      <3>1. CASE s \in samples
        <4>1. /\ s.name \in GaugeFamilies /\ s.n \in Nat /\ s.n + 1 \in 1 .. N
              /\ s = [n |-> s.n, name |-> s.name, labels |-> s.labels, at |-> published[s.n + 1].at, value |-> s.value]
              /\ \E p \in Payments : IsComboOf(s.labels, p)
          BY <1>2, <3>1 DEF SamplesInv
        <4>2. published'[s.n + 1] = published[s.n + 1] BY <1>3, <4>1
        <4> QED BY <1>2, <1>3, <4>1, <4>2
      <3>2. CASE s \in new
        <4>1. /\ s.n = N /\ s.labels \in combos /\ s.name \in GaugeFamilies
              /\ s = [n |-> s.n, name |-> s.name, labels |-> s.labels, at |-> now, value |-> s.value]
          BY <1>9, <3>2
        <4>2. s.n + 1 = N + 1 /\ s.n \in Nat BY <1>2, <4>1
        <4>3. published'[s.n + 1].at = now /\ s.n + 1 \in DOMAIN published' BY <1>2, <1>3, <4>2
        <4>4. \E p \in Payments : IsComboOf(s.labels, p) BY <1>6, <4>1
        <4> HIDE DEF combos, N
        <4> QED BY <4>1, <4>2, <4>3, <4>4
      <3> QED BY <1>1, <3>1, <3>2
    <2>3. \A s \in samples', name \in GaugeFamilies : \E t \in samples' : t.n = s.n /\ t.name = name /\ t.labels = s.labels
      <3> SUFFICES ASSUME NEW s \in samples', NEW name \in GaugeFamilies
                   PROVE  \E t \in samples' : t.n = s.n /\ t.name = name /\ t.labels = s.labels
        OBVIOUS
      <3>1. CASE s \in samples BY <1>1, <3>1 DEF SamplesInv
      <3>2. CASE s \in new
        <4>1. s.n = N /\ s.labels \in combos BY <1>9, <3>2
        <4>2. PICK t \in new : t.n = N /\ t.name = name /\ t.labels = s.labels BY <1>10, <4>1
        <4> QED BY <1>1, <4>1, <4>2
      <3> QED BY <1>1, <3>1, <3>2
    <2> QED BY <1>13, <2>1, <2>2, <2>3 DEF SamplesInv
  <1> QED BY <1>4, <1>12, <1>14

LEMMA GaugeStep == GaugeInv /\ [Next]_vars => GaugeInv'
  <1> SUFFICES ASSUME GaugeInv, [Next]_vars PROVE GaugeInv' OBVIOUS
  <1> USE DEF GaugeInv
  <1>1. ASSUME samples' = samples, live' = live, published' = published, now' \in Nat, now <= now' PROVE GaugeInv'
    <2>1. \A i \in DOMAIN published : published[i].at \in Nat
      <3>1. \A i \in DOMAIN published : published[i] \in [at : Nat, payments : SUBSET Payments] BY ElementsOf DEF TimesInv
      <3> QED BY <3>1
    <2>2. TimesInv' BY <1>1, <2>1 DEF TimesInv
    <2>3. \A k, of : Shows(k, of) => Shows(k, of)' BY <1>1 DEF Shows, ShowsLevel
    <2>4. SamplesInv' BY <1>1, <2>3 DEF SamplesInv
    <2>5. AgainInv' BY <1>1 DEF AgainInv
    <2> QED BY <2>2, <2>4, <2>5
  <1>2. now \in Nat BY DEF TimesInv
  <1>3. CASE Tick
    <2> DEFINE T == {t \in Instants : t > now}
    <2>1. T # {} /\ now' = Min(T) /\ T \subseteq Nat BY <1>3, MoneyPathAssumption DEF Tick
    <2>2. Min(T) \in T
      <3> HIDE DEF T
      <3> QED BY <2>1, LeastOf
    <2>3. now' \in Nat /\ now <= now' BY <1>2, <2>1, <2>2
    <2> QED BY <1>1, <1>3, <2>3 DEF Tick, tracker
  <1>4. ASSUME now' = now, samples' = samples, live' = live, published' = published PROVE GaugeInv' BY <1>1, <1>2, <1>4
  <1>5. ASSUME NEW p \in Payments, Settle(p) \/ Decline(p) \/ Postpone(p) \/ \E o : Enter(p, o) PROVE GaugeInv'
    BY <1>4, <1>5 DEF Settle, Decline, Postpone, Enter, tracker
  <1>6. ASSUME NEW r \in sent, Redeliver(r) PROVE GaugeInv' BY <1>4, <1>6 DEF Redeliver, tracker
  <1>7. CASE Publish BY <1>7, PublishGauges
  <1>8. CASE Page \/ PageFails \/ UNCHANGED vars BY <1>4, <1>8 DEF Page, PageFails, vars, tracker
  <1> QED BY <1>3, <1>5, <1>6, <1>7, <1>8 DEF Next

LEMMA GaugeInit == Init => GaugeInv
  <1> SUFFICES ASSUME Init PROVE GaugeInv OBVIOUS
  <1>1. now = 0 /\ published = <<>> /\ DOMAIN published = {} /\ samples = {} /\ live = {} BY DEF Init
  <1>2. published \in Seq([at : Nat, payments : SUBSET Payments]) BY <1>1
  <1> QED BY <1>1, <1>2 DEF GaugeInv, TimesInv, SamplesInv, AgainInv

GaugeBy == {"flow", "stage", "age_bucket", "currency"}

\* What a request can filter a payment in flight on.
About(p) == [stage |-> "capture", flow |-> FlowOf[p], currency |-> CurrencyOf[p]]

LEMMA ComboLabels ==
    ASSUME NEW l, NEW p, IsComboOf(l, p)
    PROVE  /\ GroupKey(l, GaugeBy) = l
           /\ DOMAIN l = GaugeBy /\ l["flow"] = FlowOf[p] /\ l["currency"] = CurrencyOf[p]
           /\ l = [flow |-> l["flow"], stage |-> l["stage"], currency |-> l["currency"], age_bucket |-> l["age_bucket"]]
           /\ \A F : DOMAIN F \subseteq CounterLabels => (MatchFilters(l, F) <=> MatchFilters(About(p), F))
  <1>1. PICK b : l = [flow |-> FlowOf[p], stage |-> "capture", currency |-> CurrencyOf[p], age_bucket |-> b]
    BY DEF IsComboOf
  <1>2. /\ DOMAIN l = GaugeBy /\ l["flow"] = FlowOf[p] /\ l["stage"] = "capture" /\ l["currency"] = CurrencyOf[p]
        /\ l = [k \in GaugeBy |-> l[k]]
    BY <1>1 DEF GaugeBy
  <1>3. l = [flow |-> l["flow"], stage |-> l["stage"], currency |-> l["currency"], age_bucket |-> l["age_bucket"]]
    BY <1>1
  <1>4. GroupKey(l, GaugeBy) = l BY <1>2 DEF GroupKey, Label
  <1>5. \A k \in CounterLabels : Label(l, k) = Label(About(p), k)
    <2> DEFINE a == About(p)
    <2>1. /\ DOMAIN a = {"stage", "flow", "currency"} /\ a["flow"] = FlowOf[p] /\ a["stage"] = "capture"
          /\ a["currency"] = CurrencyOf[p]
      BY DEF About
    <2> HIDE DEF a
    <2>2. \A k \in CounterLabels : Label(l, k) = Label(a, k) BY <1>2, <2>1 DEF Label, CounterLabels, GaugeBy
    <2> QED BY <2>2 DEF a
  <1>6. \A F : DOMAIN F \subseteq CounterLabels => (MatchFilters(l, F) <=> MatchFilters(About(p), F))
    BY <1>5 DEF MatchFilters
  <1> QED BY <1>2, <1>3, <1>4, <1>6

LEMMA GreatestOf ==
    ASSUME NEW n \in Nat, NEW T, T \subseteq 0 .. n, T # {}
    PROVE  Max(T) \in T /\ \A x \in T : x <= Max(T)
  <1>0. \A x \in T : x \in Int /\ x <= n OBVIOUS
  <1>1. PICK d \in {n - x : x \in T} : \A e \in {n - x : x \in T} : d <= e
    <2>1. \A x \in T : n - x \in Nat BY <1>0
    <2>2. {n - x : x \in T} # {} OBVIOUS
    <2>3. {n - x : x \in T} \subseteq Nat BY <2>1
    <2> QED BY <2>2, <2>3, LeastNat
  <1>2. PICK x \in T : d = n - x BY <1>1
  <1>3. \A y \in T : x >= y
    <2>1. TAKE y \in T
    <2>2. d <= n - y BY <1>1
    <2>3. x \in Int /\ y \in Int BY <1>0
    <2> QED BY <1>2, <2>2, <2>3
  <1>4. \E z \in T : \A y \in T : z >= y BY <1>3
  <1>5. Max(T) \in T /\ \A y \in T : Max(T) >= y BY <1>4 DEF Max
  <1> QED BY <1>5

\* The k-th Publish is the last before to.
LastBefore(k, to) ==
    /\ k \in DOMAIN published /\ published[k].at < to
    /\ \A i \in DOMAIN published : published[i].at < to => i <= k

\* The samples of a series before an instant.
SeriesOf(name, l, to) == {s \in samples : s.name = name /\ s.labels = l /\ s.at < to}

\* The level of a series at an instant is what the last Publish before it had
\* under its labels: a series it left out is at zero.
LEMMA LevelShown ==
    ASSUME GaugeInv, NEW to \in Nat, NEW k, LastBefore(k, to), NEW of, Shows(k, of), NEW name \in GaugeFamilies, NEW l,
           SeriesOf(name, l, to) # {}
    PROVE  \E t \in SeriesOf(name, l, to) :
             /\ Levels(SeriesOf(name, l, to), to) = {t}
             /\ t.value = SumOver({p \in DOMAIN of : of[p] = l}, Weight(name))
  <1> USE DEF GaugeInv
  <1> DEFINE N == Len(published)
             S == {s \in samples : s.name = name /\ s.labels = l /\ s.at < to}
             part == {p \in DOMAIN of : of[p] = l}
  <1>1. N \in Nat /\ DOMAIN published = 1 .. N /\ \A i \in 1 .. N : published[i].at \in Nat /\ published[i].payments \subseteq Payments
    <2>1. \A i \in DOMAIN published : published[i] \in [at : Nat, payments : SUBSET Payments] BY ElementsOf DEF TimesInv
    <2>2. N \in Nat /\ DOMAIN published = 1 .. N BY DEF TimesInv
    <2> QED BY <2>1, <2>2
  <1>2. k \in 1 .. N /\ published[k].at < to /\ \A i \in 1 .. N : published[i].at < to => i <= k BY <1>1 DEF LastBefore
  <1>3. \A i, j \in 1 .. N : i < j => published[i].at < published[j].at BY <1>1 DEF TimesInv
  <1>4. \A s \in samples : /\ s.n \in Nat /\ s.n + 1 \in 1 .. N
                           /\ s = [n |-> s.n, name |-> s.name, labels |-> s.labels, at |-> published[s.n + 1].at, value |-> s.value]
    BY <1>1 DEF SamplesInv
  <1>5. \A s \in samples : s.at = published[s.n + 1].at /\ s.at \in Nat
    <2> SUFFICES ASSUME NEW s \in samples PROVE s.at = published[s.n + 1].at /\ s.at \in Nat OBVIOUS
    <2>1. s.at = published[s.n + 1].at BY <1>4
    <2> QED BY <1>1, <1>4, <2>1
  <1>6. \A s \in S : s \in samples /\ s.name = name /\ s.labels = l /\ s.n \in Nat /\ s.n + 1 <= k
    <2> SUFFICES ASSUME NEW s \in S PROVE s \in samples /\ s.name = name /\ s.labels = l /\ s.n \in Nat /\ s.n + 1 <= k OBVIOUS
    <2>1. s \in samples /\ s.name = name /\ s.labels = l /\ s.at < to OBVIOUS
    <2> QED BY <1>2, <1>4, <1>5, <2>1
  <1> DEFINE T == {s.n : s \in S}
  <1>17. S # {} BY DEF SeriesOf
  <1>7. PICK m : m = Max(T) OBVIOUS
  <1>8. m \in T /\ \A x \in T : x <= m
    <2>1. T \subseteq 0 .. k /\ T # {} BY <1>1, <1>2, <1>6, <1>17
    <2>2. k \in Nat BY <1>1, <1>2
    <2> HIDE DEF T
    <2> QED BY <1>7, <2>1, <2>2, GreatestOf
  <1>9. PICK t \in S : t.n = m BY <1>8
  <1>10. \A s \in S : s.n <= m BY <1>8
  <1> HIDE DEF T
  <1>11. t \in samples /\ t.name = name /\ t.labels = l /\ m \in Nat /\ m + 1 <= k BY <1>6, <1>9
  <1>12. ASSUME NEW s \in S, s.n = m PROVE s = t
    <2>1. m + 1 \in DOMAIN published BY <1>1, <1>2, <1>11
    <2>2. PICK o : Shows(m + 1, o) BY <2>1 DEF SamplesInv
    <2>3. s \in samples /\ s.name = name /\ s.labels = l BY <1>6
    <2>4. m = (m + 1) - 1 BY <1>11
    <2>5. ShowsLevel(s, o) /\ ShowsLevel(t, o) BY <1>9, <1>11, <1>12, <2>2, <2>3, <2>4 DEF Shows
    <2>6. s.value = t.value BY <1>11, <2>3, <2>5 DEF ShowsLevel
    <2> QED BY <1>4, <1>9, <1>11, <1>12, <2>3, <2>6
  <1>13. \A s \in S : s.n < m => s.at < t.at
    <2> SUFFICES ASSUME NEW s \in S, s.n < m PROVE s.at < t.at OBVIOUS
    <2>1. s \in samples /\ s.n \in Nat BY <1>6
    <2>2. s.n + 1 \in 1 .. N /\ t.n + 1 \in 1 .. N BY <1>4, <1>11, <2>1
    <2>3. s.n + 1 < t.n + 1 BY <1>9, <1>11, <2>1
    <2>4. published[s.n + 1].at < published[t.n + 1].at BY <1>3, <2>2, <2>3
    <2> QED BY <1>5, <1>11, <2>1, <2>4
  <1>14. \A s \in S : s.at < to /\ s.labels = l /\ s.at \in Nat /\ s.n \in Nat
    BY <1>5, <1>6
  <1>15. Levels(S, to) = {t}
    <2>1. Levels(S, to) = {p \in S : \A q \in S : q.at < p.at \/ (q.at = p.at /\ p.n <= q.n)}
      BY <1>14 DEF Levels
    <2>2. \A q \in S : q.at < t.at \/ (q.at = t.at /\ t.n <= q.n)
      <3> SUFFICES ASSUME NEW q \in S PROVE q.at < t.at \/ (q.at = t.at /\ t.n <= q.n) OBVIOUS
      <3>1. CASE q.n < m BY <1>13, <3>1
      <3>2. CASE q.n = m BY <1>9, <1>11, <1>12, <3>2
      <3> QED BY <1>10, <1>11, <1>14, <3>1, <3>2
    <2>3. ASSUME NEW p \in S, \A q \in S : q.at < p.at \/ (q.at = p.at /\ p.n <= q.n) PROVE p = t
      <3>1. t.at < p.at \/ t.at = p.at BY <2>3
      <3>2. ~ p.n < m BY <1>9, <1>13, <1>14, <3>1
      <3>3. p.n = m BY <1>10, <1>11, <1>14, <3>2
      <3> QED BY <1>12, <3>3
    <2> QED BY <2>1, <2>2, <2>3
  <1>16. t.value = SumOver(part, Weight(name))
    <2>1. CASE m + 1 = k
      <3>1. t.n = k - 1 BY <1>9, <1>11, <2>1
      <3>2. ShowsLevel(t, of) BY <1>11, <3>1 DEF Shows
      <3> QED BY <1>11, <3>2 DEF ShowsLevel
    <2>2. CASE m + 1 # k
      <3>4. k \in Nat /\ k <= N /\ m \in Nat /\ m + 1 <= k /\ N \in Nat BY <1>1, <1>2, <1>11
      <3> HIDE DEF N
      <3>0. m + 1 < k /\ m + 1 # N /\ m + 2 \in 1 .. N /\ m + 2 <= k BY <2>2, <3>4
      <3>1. ASSUME t.value # 0 PROVE FALSE
        <4>1. PICK u \in samples : u.n = t.n + 1 /\ u.name = t.name /\ u.labels = t.labels
          BY <1>9, <1>11, <3>0, <3>1 DEF AgainInv, N
        <4>2. u.at = published[m + 2].at
          <5>1. u.n + 1 = m + 2 BY <1>9, <1>11, <4>1
          <5> QED BY <1>5, <4>1, <5>1
        <4>3. published[m + 2].at < to
          <5>1. CASE m + 2 = k BY <1>2, <5>1
          <5>2. CASE m + 2 < k
            <6>1. published[m + 2].at < published[k].at BY <1>2, <1>3, <3>0, <5>2
            <6>2. published[m + 2].at \in Nat /\ published[k].at \in Nat BY <1>1, <1>2, <3>0
            <6> QED BY <1>2, <6>1, <6>2
          <5> QED BY <3>0, <3>4, <5>1, <5>2
        <4>4. u \in S BY <1>11, <4>1, <4>2, <4>3
        <4> QED BY <1>9, <1>10, <1>11, <4>1, <4>4
      <3>2. ASSUME NEW p \in part PROVE FALSE
        <4>1. p \in published[k].payments /\ of[p] = l BY DEF Shows
        <4>2. PICK s \in samples : s.n = k - 1 /\ s.name = name /\ s.labels = l BY <4>1 DEF Shows
        <4>3. s.n + 1 = k BY <1>1, <1>2, <4>2
        <4>4. s.at < to BY <1>2, <1>5, <4>2, <4>3
        <4>5. s \in S BY <4>2, <4>4
        <4>6. s.n <= m /\ s.n = k - 1 BY <1>10, <4>2, <4>5
        <4> QED BY <3>0, <3>4, <4>6
      <3>3. part = {} BY <3>2
      <3>5. part \subseteq Payments BY <3>3
      <3> HIDE DEF part
      <3> QED BY <3>1, <3>3, <3>5, WeightFacts
    <2> QED BY <2>1, <2>2
  <1> QED BY <1>15, <1>16 DEF SeriesOf

\* The payments a series is about, of those the last Publish had.
HeldAs(of, l) == {p \in DOMAIN of : of[p] = l}

\* One row for every series of a gauge that a query of the request matches, at
\* what the last Publish had under its labels.
GaugeRowsOf(rows, req, name, of) ==
    LET F == InflightFilters(req)
    IN  /\ IsFiniteSet(rows)
        /\ \A x \in rows : /\ x.query \in DOMAIN F /\ MatchFilters(x.row.labels, F[x.query])
                           /\ \E p \in Payments : IsComboOf(x.row.labels, p)
                           /\ LevelOf(x.row) = SumOver(HeldAs(of, x.row.labels), Weight(name))
        /\ \A x, y \in rows : x.query = y.query /\ x.row.labels = y.row.labels => x = y
        /\ \A i \in DOMAIN F, s \in samples :
             s.name = name /\ s.at < req.window.to /\ MatchFilters(s.labels, F[i])
               => \E x \in rows : x.query = i /\ x.row.labels = s.labels

\* A level is a number.
LEMMA LevelsNat ==
    ASSUME GaugeInv
    PROVE  \A s \in samples : s.value \in Nat
  <1> USE DEF GaugeInv
  <1> SUFFICES ASSUME NEW s \in samples PROVE s.value \in Nat OBVIOUS
  <1>1. s.n + 1 \in DOMAIN published /\ s.n = (s.n + 1) - 1 /\ DOMAIN published \subseteq Nat
    BY DEF SamplesInv, TimesInv
  <1>2. PICK o : Shows(s.n + 1, o) BY <1>1 DEF SamplesInv
  <1>3. published[s.n + 1].payments \subseteq Payments
    <2>1. \A i \in DOMAIN published : published[i] \in [at : Nat, payments : SUBSET Payments] BY ElementsOf DEF TimesInv
    <2> QED BY <1>1, <2>1
  <1> DEFINE part == {p \in DOMAIN o : o[p] = s.labels}
  <1>4. part \in SUBSET Payments BY <1>2, <1>3 DEF Shows
  <1>5. s.value = SumOver(part, Weight(s.name)) BY <1>1, <1>2 DEF Shows, ShowsLevel
  <1> HIDE DEF part
  <1>6. SumOver(part, Weight(s.name)) \in Nat BY <1>4, WeightFacts, MoneyPathAssumption, SumStep
  <1> QED BY <1>5, <1>6

LEMMA GaugeRows ==
    ASSUME StoredInv, GaugeInv, NEW req \in Requests, Plain(req), NEW k, LastBefore(k, req.window.to), NEW of, Shows(k, of),
           NEW name \in GaugeFamilies
    PROVE  \A rows \in InflightSeries(Healthy, req, name) : GaugeRowsOf(rows, req, name, of)
  <1> DEFINE F == InflightFilters(req)
             to == req.window.to
             answer(i) == Counter(Healthy, name, F[i], GaugeBy, req.window, 0)
             answers == [i \in DOMAIN F |-> answer(i)]
             kept(i) == Kept(Healthy, name, F[i], req.window)
             added(i, l) == Added(Healthy, name, F[i], req.window, GaugeBy, l)
             Is(R, i) == answer(i) = {R} /\ AnswersMetric(R, Healthy, name, F[i], GaugeBy, req.window)
             rows0 == [i \in DOMAIN F |-> CHOOSE R : Is(R, i)]
  <1>0. req.window.from \in Nat /\ req.window.to \in Nat BY MoneyPathAssumption
  <1>1. \A p : p \in Healthy.points /\ p.name = name <=> p \in samples /\ p.name = name
    <2>1. \A p \in Points : p.name \in {"biz_txn_total", "biz_value_total"} BY DEF Points
    <2>2. name \notin {"biz_txn_total", "biz_value_total"} BY DEF GaugeFamilies
    <2> QED BY <2>1, <2>2, HealthyFacts
  <1>2. IsFiniteSet(Healthy.points)
    <2>1. IsFiniteSet(Points)
      <3> DEFINE one(r) == [n |-> r, name |-> "biz_txn_total", labels |-> Labels(r), at |-> r.at, value |-> 1]
                 counted == {x \in sent : x.points}
                 valued == {x \in sent : x.points /\ x.payment \notin Estimated}
                 o == [r \in counted |-> one(r)]
                 v == [r \in valued |-> ValuePoint(r)]
      <3>1. Points = {one(r) : r \in counted} \cup {ValuePoint(r) : r \in valued} BY DEF Points, ValuePoint
      <3>2. IsFiniteSet(counted) /\ IsFiniteSet(valued) BY FS_Subset DEF StoredInv
      <3>3. DOMAIN o = counted /\ {o[r] : r \in counted} = {one(r) : r \in counted} OBVIOUS
      <3>4. DOMAIN v = valued /\ {v[r] : r \in valued} = {ValuePoint(r) : r \in valued} OBVIOUS
      <3> HIDE DEF o, v, counted, valued, one
      <3>5. IsFiniteSet({o[r] : r \in counted}) /\ IsFiniteSet({v[r] : r \in valued}) BY <3>2, <3>3, <3>4, FiniteImage
      <3> QED BY <3>1, <3>3, <3>4, <3>5, FS_Union
    <2> QED BY <2>1, HealthyFacts, FS_Union DEF StoredInv
  <1>3. ASSUME NEW i \in DOMAIN F PROVE Is(rows0[i], i)
    <2>1. Healthy.caps.metrics /\ "metrics" \notin Healthy.down BY HealthyFacts
    <2>2. \A p \in Healthy.points : p.name = name => p.value \in Nat BY <1>1, LevelsNat
    <2>3. \E R : Is(R, i)
      <3> HIDE DEF F
      <3> QED BY <1>0, <1>2, <2>1, <2>2, MetricAnswer
    <2> HIDE DEF Is
    <2> QED BY <2>3
  <1>4. \A i, p : p \in kept(i) <=> p \in samples /\ p.name = name /\ MatchFilters(p.labels, F[i]) /\ p.at < to
    <2> HIDE DEF F
    <2> QED BY <1>1 DEF Kept
  <1>5. \A p \in samples : GroupKey(p.labels, GaugeBy) = p.labels BY ComboLabels DEF GaugeInv, SamplesInv
  <1> HIDE DEF kept
  <1>6. ASSUME NEW i, NEW p \in kept(i)
        PROVE  SumFunction([q \in added(i, p.labels) |-> q.value]) = SumOver(HeldAs(of, p.labels), Weight(name))
    <2> DEFINE l == p.labels
               S == SeriesOf(name, l, to)
               same == {q \in kept(i) : GroupKey(q.labels, GaugeBy) = l}
    <2>1. same = S
      <3>1. MatchFilters(l, F[i]) BY <1>4
      <3> HIDE DEF F, l
      <3> QED BY <1>4, <1>5, <3>1 DEF SeriesOf
    <2>2. p \in S BY <1>4 DEF SeriesOf
    <2>3. added(i, l) = Levels(same, to) BY DEF Added, Reduced, kept
    <2> HIDE DEF S, same, l
    <2>4. PICK t \in S : Levels(S, to) = {t} /\ t.value = SumOver({q \in DOMAIN of : of[q] = l}, Weight(name))
      <3>1. \E t \in S : Levels(S, to) = {t} /\ t.value = SumOver({q \in DOMAIN of : of[q] = l}, Weight(name))
        <4>1. SeriesOf(name, l, to) # {} BY <2>2 DEF S
        <4> HIDE DEF to
        <4>2. to \in Nat /\ LastBefore(k, to) BY <1>0 DEF to
        <4> QED BY <4>1, <4>2, LevelShown DEF S
      <3> QED BY <3>1
    <2>5. t.value \in Nat BY LevelsNat DEF S, SeriesOf
    <2>6. SumFunction([q \in {t} |-> q.value]) = t.value
      <3> DEFINE g == [q \in {t} |-> q.value]
      <3>1. g \in [{t} -> Int] /\ g[t] = t.value
        <4>1. \A q \in {t} : q.value \in Int BY <2>5
        <4> QED BY <4>1
      <3>6. IsFiniteSet({t}) BY FS_Singleton
      <3>2. DOMAIN [y \in {t} \ {t} |-> g[y]] = {} OBVIOUS
      <3> HIDE DEF g
      <3>3. SumFunction([y \in {t} \ {t} |-> g[y]]) = 0 BY <3>2, NothingAdded
      <3>4. SumFunction(g) = g[t] + SumFunction([y \in {t} \ {t} |-> g[y]]) BY <3>1, <3>6, SumFacts
      <3>5. SumFunction(g) = t.value BY <2>5, <3>1, <3>3, <3>4
      <3> QED BY <3>5 DEF g
    <2>7. added(i, l) = {t} BY <2>1, <2>3, <2>4
    <2>8. SumFunction([q \in added(i, l) |-> q.value]) = SumOver({q \in DOMAIN of : of[q] = l}, Weight(name))
      <3> HIDE DEF added
      <3> QED BY <2>4, <2>6, <2>7
    <2> QED BY <2>8 DEF l, HeldAs
  <1>7. /\ DOMAIN answers = DOMAIN F /\ IsFiniteSet(DOMAIN F)
        /\ \A i \in DOMAIN answers : answers[i] = {rows0[i]} /\ IsFiniteSet(rows0[i])
    <2>1. IsFiniteSet(DOMAIN F) BY InflightFacts
    <2>2. \A i \in DOMAIN F : answer(i) = {rows0[i]} /\ IsFiniteSet(rows0[i])
      <3> SUFFICES ASSUME NEW i \in DOMAIN F PROVE answer(i) = {rows0[i]} /\ IsFiniteSet(rows0[i]) OBVIOUS
      <3>1. Is(rows0[i], i) BY <1>3
      <3> HIDE DEF rows0, answer
      <3> QED BY <3>1 DEF AnswersMetric
    <2> HIDE DEF rows0, F, answer
    <2> QED BY <2>1, <2>2
  <1>8. InflightSeries(Healthy, req, name) = Gather(answers) BY DEF InflightSeries, GaugeBy
  <1> SUFFICES ASSUME NEW rows \in Gather(answers) PROVE GaugeRowsOf(rows, req, name, of)
    BY <1>8
  <1>9. /\ IsFiniteSet(rows)
        /\ \A x \in rows : x.query \in DOMAIN F /\ x.row \in rows0[x.query]
        /\ \A i \in DOMAIN F : \A r \in rows0[i] : \E x \in rows : x.query = i /\ x.row = r
        /\ \A x, y \in rows : x.query = y.query /\ x.row = y.row => x = y
    <2> HIDE DEF rows0, answers, F
    <2> QED BY <1>7, GatherOne
  <1> HIDE DEF rows0, answers, F, answer
  <1>10. ASSUME NEW x \in rows
         PROVE  /\ MatchFilters(x.row.labels, F[x.query])
                /\ \E p \in Payments : IsComboOf(x.row.labels, p)
                /\ LevelOf(x.row) = SumOver(HeldAs(of, x.row.labels), Weight(name))
    <2>1. x.query \in DOMAIN F /\ x.row \in rows0[x.query] BY <1>9
    <2>2. AnswersMetric(rows0[x.query], Healthy, name, F[x.query], GaugeBy, req.window) BY <1>3, <2>1
    <2>3. x.row.labels \in {GroupKey(p.labels, GaugeBy) : p \in kept(x.query)} BY <2>1, <2>2 DEF AnswersMetric, kept
    <2>4. PICK p \in kept(x.query) : x.row.labels = GroupKey(p.labels, GaugeBy) BY <2>3
    <2>5. p \in samples /\ MatchFilters(p.labels, F[x.query]) BY <1>4
    <2>6. x.row.labels = p.labels BY <1>5, <2>4, <2>5
    <2>7. \E q \in Payments : IsComboOf(p.labels, q) BY <2>5 DEF GaugeInv, SamplesInv
    <2>8. LevelOf(x.row) = SumFunction([q \in added(x.query, x.row.labels) |-> q.value]) BY <2>1, <2>2 DEF AnswersMetric
    <2>9. SumFunction([q \in added(x.query, p.labels) |-> q.value]) = SumOver(HeldAs(of, p.labels), Weight(name)) BY <1>6
    <2> HIDE DEF added
    <2> QED BY <2>5, <2>6, <2>7, <2>8, <2>9
  <1>11. ASSUME NEW x \in rows, NEW y \in rows, x.query = y.query, x.row.labels = y.row.labels PROVE x = y
    <2>1. /\ AnswersMetric(rows0[x.query], Healthy, name, F[x.query], GaugeBy, req.window)
          /\ x.row \in rows0[x.query] /\ y.row \in rows0[x.query]
      BY <1>3, <1>9, <1>11
    <2>2. x.row = y.row BY <1>11, <2>1 DEF AnswersMetric
    <2> QED BY <1>9, <1>11, <2>2
  <1>12. ASSUME NEW i \in DOMAIN F, NEW s \in samples, s.name = name, s.at < to, MatchFilters(s.labels, F[i])
         PROVE  \E x \in rows : x.query = i /\ x.row.labels = s.labels
    <2>1. s \in kept(i) BY <1>4, <1>12
    <2>2. AnswersMetric(rows0[i], Healthy, name, F[i], GaugeBy, req.window) BY <1>3
    <2>3. PICK r \in rows0[i] : r.labels = GroupKey(s.labels, GaugeBy) BY <2>1, <2>2 DEF AnswersMetric, kept
    <2>4. PICK x \in rows : x.query = i /\ x.row = r BY <1>9
    <2> QED BY <1>5, <2>3, <2>4
  <1> QED BY <1>9, <1>10, <1>11, <1>12 DEF GaugeRowsOf, F

\* The payments of some currencies that the k-th Publish had and the request is about.
HeldIn(req, k, Cs) ==
    {p \in published[k].payments :
        /\ CurrencyOf[p] \in Cs
        /\ \E i \in DOMAIN InflightFilters(req) : MatchFilters(About(p), InflightFilters(req)[i])}

\* The labels a row of the gauge was made of.
LabelsOf(r) == [flow |-> r.flow, stage |-> r.stage, currency |-> r.currency, age_bucket |-> r.bucket]

LEMMA RowLabels ==
    ASSUME NEW x, NEW p, IsComboOf(x.row.labels, p)
    PROVE  /\ LabelsOf(GaugeRow(x)) = x.row.labels /\ GaugeRow(x).query = x.query
           /\ GaugeRow(x).minor = LevelOf(x.row) /\ GaugeRow(x).currency = CurrencyOf[p]
  <1> DEFINE l == x.row.labels
  <1>1. /\ l["currency"] = CurrencyOf[p]
        /\ l = [flow |-> l["flow"], stage |-> l["stage"], currency |-> l["currency"], age_bucket |-> l["age_bucket"]]
    BY ComboLabels
  <1>2. /\ GaugeRow(x).flow = l["flow"] /\ GaugeRow(x).stage = l["stage"] /\ GaugeRow(x).currency = l["currency"]
        /\ GaugeRow(x).bucket = l["age_bucket"] /\ GaugeRow(x).query = x.query /\ GaugeRow(x).minor = LevelOf(x.row)
    BY DEF GaugeRow
  <1> HIDE DEF l
  <1> QED BY <1>1, <1>2 DEF LabelsOf, l

\* The rows above zero add up to the payments held.
LEMMA GaugeAddsUp ==
    ASSUME StoredInv, GaugeInv, NEW req \in Requests, Plain(req), NEW k, LastBefore(k, req.window.to),
           NEW name \in GaugeFamilies, NEW rows \in InflightSeries(Healthy, req, name), NEW Cs
    PROVE  SumFunction([r \in {x \in NonZero(rows) : x.currency \in Cs} |-> r.minor]) = SumOver(HeldIn(req, k, Cs), Weight(name))
  <1> USE DEF GaugeInv
  <1> DEFINE F == InflightFilters(req)
             W == Weight(name)
             R == {x \in NonZero(rows) : x.currency \in Cs}
             H == HeldIn(req, k, Cs)
             f == [p \in H |-> W[p]]
  <1>1. /\ k \in DOMAIN published /\ DOMAIN published \subseteq Nat /\ published[k].payments \subseteq Payments
        /\ published[k].at < req.window.to
    <2>1. \A i \in DOMAIN published : published[i] \in [at : Nat, payments : SUBSET Payments] BY ElementsOf DEF TimesInv
    <2> QED BY <2>1 DEF LastBefore, TimesInv
  <1>2. PICK of : Shows(k, of) BY <1>1 DEF SamplesInv
  <1> DEFINE part == [r \in R |-> HeldAs(of, LabelsOf(r))]
  <1>3. GaugeRowsOf(rows, req, name, of) BY <1>2, GaugeRows
  <1>4. /\ IsFiniteSet(rows)
        /\ \A x \in rows : /\ x.query \in DOMAIN F /\ MatchFilters(x.row.labels, F[x.query])
                           /\ \E p \in Payments : IsComboOf(x.row.labels, p)
                           /\ LevelOf(x.row) = SumOver(HeldAs(of, x.row.labels), W)
        /\ \A x, y \in rows : x.query = y.query /\ x.row.labels = y.row.labels => x = y
        /\ \A i \in DOMAIN F, s \in samples :
             s.name = name /\ s.at < req.window.to /\ MatchFilters(s.labels, F[i])
               => \E x \in rows : x.query = i /\ x.row.labels = s.labels
    BY <1>3 DEF GaugeRowsOf
  <1>5. /\ \A i \in DOMAIN F : DOMAIN F[i] \subseteq CounterLabels
        /\ \A i, j \in DOMAIN F : i # j => "flow" \in DOMAIN F[i] \cap DOMAIN F[j] /\ F[i]["flow"] # F[j]["flow"]
    BY InflightFacts
  <1> HIDE DEF F
  <1>6. DOMAIN of = published[k].payments /\ \A p \in DOMAIN of : p \in Payments /\ IsComboOf(of[p], p)
    BY <1>1, <1>2 DEF Shows
  <1>7. \A p \in DOMAIN of : /\ of[p]["currency"] = CurrencyOf[p] /\ "flow" \in DOMAIN of[p]
                             /\ \A i \in DOMAIN F : MatchFilters(of[p], F[i]) <=> MatchFilters(About(p), F[i])
    <2> SUFFICES ASSUME NEW p \in DOMAIN of
                 PROVE  /\ of[p]["currency"] = CurrencyOf[p] /\ "flow" \in DOMAIN of[p]
                        /\ \A i \in DOMAIN F : MatchFilters(of[p], F[i]) <=> MatchFilters(About(p), F[i])
      OBVIOUS
    <2>1. IsComboOf(of[p], p) BY <1>6
    <2>2. "flow" \in GaugeBy BY DEF GaugeBy
    <2> QED BY <1>5, <2>1, <2>2, ComboLabels
  <1>8. ASSUME NEW x \in rows
        PROVE  /\ LabelsOf(GaugeRow(x)) = x.row.labels /\ GaugeRow(x).query = x.query
               /\ GaugeRow(x).minor = SumOver(HeldAs(of, x.row.labels), W)
               /\ GaugeRow(x).currency = x.row.labels["currency"]
    <2>1. PICK p \in Payments : IsComboOf(x.row.labels, p) BY <1>4
    <2>2. x.row.labels["currency"] = CurrencyOf[p] BY <2>1, ComboLabels
    <2> QED BY <1>4, <2>1, <2>2, RowLabels
  <1>9. ASSUME NEW r \in R
        PROVE  \E x \in rows : /\ r = GaugeRow(x) /\ LabelsOf(r) = x.row.labels /\ r.query = x.query
                               /\ r.minor = SumOver(HeldAs(of, x.row.labels), W) /\ x.row.labels["currency"] \in Cs
    <2>1. PICK x \in rows : r = GaugeRow(x) BY DEF NonZero
    <2> QED BY <1>8, <2>1
  <1>10. \A p : p \in H <=> p \in DOMAIN of /\ CurrencyOf[p] \in Cs /\ \E i \in DOMAIN F : MatchFilters(About(p), F[i])
    BY <1>6 DEF HeldIn, F
  <1> HIDE DEF H
  <1>11. H \subseteq Payments /\ IsFiniteSet(H) /\ f \in [H -> Nat]
    <2>1. H \subseteq Payments BY <1>6, <1>10
    <2>2. W \in [Payments -> Nat] BY WeightFacts
    <2> HIDE DEF W
    <2> QED BY <2>1, <2>2, MoneyPathAssumption, FS_Subset
  <1>12. ASSUME NEW r \in R PROVE HeldAs(of, LabelsOf(r)) \subseteq H
    <2>1. PICK x \in rows : LabelsOf(r) = x.row.labels /\ x.row.labels["currency"] \in Cs BY <1>9
    <2>2. ASSUME NEW p \in HeldAs(of, LabelsOf(r)) PROVE p \in H
      <3>1. p \in DOMAIN of /\ of[p] = x.row.labels BY <2>1 DEF HeldAs
      <3> QED BY <1>4, <1>7, <1>10, <2>1, <3>1
    <2> QED BY <2>2
  <1>13. IsFiniteSet(R)
    <2> DEFINE h == [x \in rows |-> GaugeRow(x)]
    <2>1. DOMAIN h = rows /\ {h[x] : x \in rows} = {GaugeRow(x) : x \in rows} OBVIOUS
    <2> HIDE DEF h
    <2>4. IsFiniteSet({h[x] : x \in rows}) BY <1>4, <2>1, FiniteImage
    <2>2. IsFiniteSet({GaugeRow(x) : x \in rows}) BY <2>1, <2>4
    <2>3. R \subseteq {GaugeRow(x) : x \in rows} BY DEF NonZero
    <2> HIDE DEF R
    <2> QED BY <2>2, <2>3, FS_Subset
  <1>14. ASSUME NEW p \in H PROVE \E r \in R : p \in HeldAs(of, LabelsOf(r))
    <2>1. PICK i \in DOMAIN F : MatchFilters(About(p), F[i]) BY <1>10
    <2>2. p \in DOMAIN of /\ CurrencyOf[p] \in Cs BY <1>10
    <2>3. PICK s \in samples : s.n = k - 1 /\ s.name = name /\ s.labels = of[p]
      <3>1. p \in published[k].payments BY <1>6, <2>2
      <3> QED BY <1>2, <3>1 DEF Shows
    <2>4. s.at < req.window.to
      <3>1. s.n + 1 = k BY <1>1, <2>3
      <3>2. s = [n |-> s.n, name |-> s.name, labels |-> s.labels, at |-> published[s.n + 1].at, value |-> s.value]
        BY DEF SamplesInv
      <3>3. s.at = published[s.n + 1].at BY <3>2
      <3> QED BY <1>1, <3>1, <3>3
    <2>5. PICK x \in rows : x.query = i /\ x.row.labels = of[p] BY <1>4, <1>7, <2>1, <2>2, <2>3, <2>4
    <2> DEFINE A == HeldAs(of, of[p])
    <2>6. p \in A /\ A \in SUBSET Payments BY <1>6, <2>2 DEF HeldAs
    <2>7. SumOver(A, W) # 0
      <3>1. W \in [Payments -> Nat] /\ W[p] > 0 BY <2>6, WeightFacts
      <3>2. IsFiniteSet(Payments) /\ A \ {p} \in SUBSET Payments BY <2>6, MoneyPathAssumption
      <3> HIDE DEF W, A
      <3>3. SumOver(A, W) = W[p] + SumOver(A \ {p}, W) BY <2>6, <3>1, <3>2, SumStep
      <3>4. SumOver(A \ {p}, W) \in Nat BY <3>1, <3>2, SumStep
      <3>5. W[p] \in Nat BY <2>6, <3>1
      <3> QED BY <3>1, <3>3, <3>4, <3>5
    <2>8. GaugeRow(x) \in R BY <1>7, <1>8, <2>2, <2>5, <2>7 DEF NonZero
    <2>9. p \in HeldAs(of, LabelsOf(GaugeRow(x))) BY <1>8, <2>5, <2>6
    <2> QED BY <2>8, <2>9
  <1>15. ASSUME NEW q \in R, NEW r \in R, NEW p, p \in HeldAs(of, LabelsOf(q)), p \in HeldAs(of, LabelsOf(r)) PROVE q = r
    <2>1. PICK x \in rows : q = GaugeRow(x) /\ LabelsOf(q) = x.row.labels BY <1>9
    <2>2. PICK y \in rows : r = GaugeRow(y) /\ LabelsOf(r) = y.row.labels BY <1>9
    <2>3. p \in DOMAIN of /\ of[p] = x.row.labels /\ of[p] = y.row.labels BY <1>15, <2>1, <2>2 DEF HeldAs
    <2>4. ASSUME x.query # y.query PROVE FALSE
      <3> DEFINE i == x.query
                 j == y.query
                 l == of[p]
      <3>1. i \in DOMAIN F /\ j \in DOMAIN F /\ MatchFilters(l, F[i]) /\ MatchFilters(l, F[j]) BY <1>4, <2>3
      <3>2. "flow" \in DOMAIN l BY <1>7, <2>3
      <3>5. i # j BY <2>4
      <3> HIDE DEF i, j, l
      <3>3. "flow" \in DOMAIN F[i] /\ "flow" \in DOMAIN F[j] /\ F[i]["flow"] # F[j]["flow"] BY <1>5, <3>1, <3>5
      <3>4. l["flow"] = F[i]["flow"] /\ l["flow"] = F[j]["flow"] BY <3>1, <3>2, <3>3 DEF MatchFilters, Label
      <3> QED BY <3>3, <3>4
    <2> QED BY <1>4, <2>1, <2>2, <2>3, <2>4
  <1> HIDE DEF R
  <1>16. SumFunction(f) = SumFunction([r \in R |-> SumOver(part[r], f)])
    <2>1. part \in [R -> SUBSET H] BY <1>12
    <2>2. \A p \in H : \E r \in R : p \in part[r] BY <1>14
    <2>3. \A q, r \in R : q # r => part[q] \cap part[r] = {} BY <1>15
    <2> HIDE DEF part, f
    <2> QED BY <1>11, <1>13, <2>1, <2>2, <2>3, SumParts
  <1>17. ASSUME NEW r \in R PROVE SumOver(part[r], f) = r.minor
    <2>1. PICK x \in rows : LabelsOf(r) = x.row.labels /\ r.minor = SumOver(HeldAs(of, x.row.labels), W) BY <1>9
    <2>2. part[r] = HeldAs(of, LabelsOf(r)) OBVIOUS
    <2>3. part[r] \subseteq H BY <1>12, <2>2
    <2>4. [p \in part[r] |-> f[p]] = [p \in part[r] |-> W[p]] BY <2>3
    <2> HIDE DEF part, f, W
    <2> QED BY <2>1, <2>2, <2>4 DEF SumOver
  <1>18. [r \in R |-> SumOver(part[r], f)] = [r \in R |-> r.minor] BY <1>17
  <1>19. SumOver(H, W) = SumFunction(f) BY DEF SumOver
  <1> QED BY <1>16, <1>18, <1>19 DEF R, H

LEMMA GaugeHolds == StoredInv /\ GaugeInv => GaugeSettles
  <1> SUFFICES ASSUME StoredInv, GaugeInv, NEW req \in Asked, NEW reg \in Registries, Plain(req),
                      NEW s \in samples, s.at < req.window.to,
                      NEW q \in DOMAIN InflightFilters(req), MatchFilters(s.labels, InflightFilters(req)[q]),
                      NEW leg \in Deferred(Healthy, reg, req)
               PROVE  LET before == {i \in DOMAIN published : published[i].at < req.window.to}
                          held(c) == {p \in published[Max(before)].payments :
                                        /\ CurrencyOf[p] = c
                                        /\ \E i \in DOMAIN InflightFilters(req) :
                                             MatchFilters([stage |-> "capture", flow |-> FlowOf[p], currency |-> c], InflightFilters(req)[i])}
                      IN  /\ \A c \in Currencies : Money(leg.byCurrency, c) = SumFunction([p \in held(c) |-> AmountOf[p]])
                          /\ leg.count = Cardinality(UNION {held(c) : c \in Currencies})
    BY DEF GaugeSettles, Healthy
  <1> USE DEF GaugeInv
  <1> DEFINE before == {i \in DOMAIN published : published[i].at < req.window.to}
             k == Max(before)
             held(c) == {p \in published[k].payments :
                           /\ CurrencyOf[p] = c
                           /\ \E i \in DOMAIN InflightFilters(req) :
                                MatchFilters([stage |-> "capture", flow |-> FlowOf[p], currency |-> c], InflightFilters(req)[i])}
  <1>1. req \in Requests BY DEF Asked, Over
  <1>2. LastBefore(k, req.window.to) /\ published[k].payments \subseteq Payments
    <2>1. Len(published) \in Nat /\ DOMAIN published = 1 .. Len(published) BY DEF TimesInv
    <2>2. s.n + 1 \in before
      <3>1. s = [n |-> s.n, name |-> s.name, labels |-> s.labels, at |-> published[s.n + 1].at, value |-> s.value]
            /\ s.n + 1 \in DOMAIN published
        BY DEF SamplesInv
      <3>2. s.at = published[s.n + 1].at BY <3>1
      <3> QED BY <3>1, <3>2
    <2>3. before \subseteq 0 .. Len(published) /\ before # {} BY <2>1, <2>2
    <2>4. k \in before /\ \A i \in before : i <= k
      <3> HIDE DEF before
      <3> QED BY <2>1, <2>3, GreatestOf
    <2>5. \A i \in DOMAIN published : published[i] \in [at : Nat, payments : SUBSET Payments] BY ElementsOf DEF TimesInv
    <2> QED BY <2>4, <2>5 DEF LastBefore
  <1> HIDE DEF k
  <1>3. \A c : held(c) = HeldIn(req, k, {c}) BY DEF HeldIn, About
  <1> DEFINE values == InflightSeries(Healthy, req, "biz_inflight_value")
             counts == InflightSeries(Healthy, req, "biz_inflight_count")
             answer(v, n) == [saw |-> v # {}, leg |-> GaugeLeg(reg, NonZero(v), NonZero(n))]
  <1>4. "biz_inflight_value" \in GaugeFamilies /\ "biz_inflight_count" \in GaugeFamilies BY DEF GaugeFamilies
  <1>5. PICK of : Shows(k, of) BY <1>2 DEF SamplesInv, LastBefore
  <1>6. \A v \in values : v # {}
    <2>1. PICK u \in samples : u.n = s.n /\ u.name = "biz_inflight_value" /\ u.labels = s.labels BY <1>4 DEF SamplesInv
    <2>2. u.at = s.at
      <3>1. /\ s = [n |-> s.n, name |-> s.name, labels |-> s.labels, at |-> published[s.n + 1].at, value |-> s.value]
            /\ u = [n |-> u.n, name |-> u.name, labels |-> u.labels, at |-> published[u.n + 1].at, value |-> u.value]
        BY DEF SamplesInv
      <3>2. s.at = published[s.n + 1].at /\ u.at = published[u.n + 1].at BY <3>1
      <3> QED BY <2>1, <3>2
    <2>3. ASSUME NEW v \in values PROVE v # {}
      <3>1. GaugeRowsOf(v, req, "biz_inflight_value", of) BY <1>1, <1>2, <1>4, <1>5, GaugeRows
      <3> QED BY <2>1, <2>2, <3>1 DEF GaugeRowsOf
    <2> QED BY <2>3
  <1>7. PICK v \in values, n \in counts : leg = GaugeLeg(reg, NonZero(v), NonZero(n))
    <2>1. DeferredFromGauge(Healthy, reg, req) = {answer(v, n) : v \in values, n \in counts} BY DEF DeferredFromGauge
    <2>2. PICK g \in DeferredFromGauge(Healthy, reg, req) :
            leg \in IF Authority(Healthy, g) THEN {g.leg} ELSE DeferredFromEvents(Healthy, reg, req)
      BY HealthyFacts DEF Deferred
    <2>3. PICK v \in values, n \in counts : g = answer(v, n) BY <2>1
    <2>4. g.saw /\ g.leg = GaugeLeg(reg, NonZero(v), NonZero(n)) BY <1>6, <2>3
    <2>5. leg = g.leg BY <2>2, <2>4 DEF Authority
    <2> QED BY <2>4, <2>5
  <1>8. ASSUME NEW Cs
        PROVE  /\ SumFunction([r \in {x \in NonZero(v) : x.currency \in Cs} |-> r.minor])
                    = SumOver(HeldIn(req, k, Cs), Weight("biz_inflight_value"))
               /\ SumFunction([r \in {x \in NonZero(n) : x.currency \in Cs} |-> r.minor])
                    = SumOver(HeldIn(req, k, Cs), Weight("biz_inflight_count"))
    BY <1>1, <1>2, <1>4, GaugeAddsUp
  <1> DEFINE rows == NonZero(v)
             total(c) == SumFunction([r \in {x \in rows : x.currency = c} |-> r.minor])
             C == {r.currency : r \in rows}
  <1>9. leg.byCurrency = [c \in C |-> total(c)] /\ leg.count = SumFunction([r \in NonZero(n) |-> r.minor])
    <2>1. leg = DeferredLeg(reg, rows, SumFunction([r \in NonZero(n) |-> r.minor]),
                           SumFunction([r \in BreachedRows(reg, NonZero(n)) |-> r.minor]))
      BY <1>7 DEF GaugeLeg
    <2>2. \A count, breaches : /\ DeferredLeg(reg, rows, count, breaches).byCurrency = [c \in C |-> total(c)]
                               /\ DeferredLeg(reg, rows, count, breaches).count = count
      <3> HIDE DEF rows
      <3> QED BY DEF DeferredLeg, Totals
    <2> HIDE DEF rows
    <2> QED BY <2>1, <2>2
  <1> HIDE DEF rows
  <1>10. ASSUME NEW c \in Currencies PROVE Money(leg.byCurrency, c) = SumFunction([p \in held(c) |-> AmountOf[p]])
    <2>1. Money(leg.byCurrency, c) = total(c)
      <3>1. CASE c \in C
        <4> HIDE DEF total
        <4> QED BY <1>9, <3>1 DEF Money
      <3>2. CASE c \notin C
        <4>1. DOMAIN [r \in {x \in rows : x.currency = c} |-> r.minor] = {} BY <3>2
        <4>2. total(c) = 0 BY <4>1, NothingAdded
        <4> HIDE DEF total
        <4> QED BY <1>9, <3>2, <4>2 DEF Money
      <3> QED BY <3>1, <3>2
    <2>2. {x \in rows : x.currency = c} = {x \in NonZero(v) : x.currency \in {c}} BY DEF rows
    <2>3. total(c) = SumOver(HeldIn(req, k, {c}), Weight("biz_inflight_value")) BY <1>8, <2>2
    <2> DEFINE H == held(c)
    <2>4. [p \in H |-> Weight("biz_inflight_value")[p]] = [p \in H |-> AmountOf[p]] BY <1>2 DEF Weight
    <2>5. H = HeldIn(req, k, {c}) BY <1>3
    <2> HIDE DEF H, total
    <2>6. SumFunction([p \in H |-> AmountOf[p]]) = total(c) BY <2>3, <2>4, <2>5 DEF SumOver
    <2> QED BY <2>1, <2>6 DEF H
  <1>11. leg.count = Cardinality(UNION {held(c) : c \in Currencies})
    <2> DEFINE H == HeldIn(req, k, Currencies)
               W == Weight("biz_inflight_count")
    <2>1. \A x \in NonZero(n) : x.currency \in Currencies
      <3> SUFFICES ASSUME NEW x \in NonZero(n) PROVE x.currency \in Currencies OBVIOUS
      <3>1. GaugeRowsOf(n, req, "biz_inflight_count", of) BY <1>1, <1>2, <1>4, <1>5, GaugeRows
      <3>2. PICK y \in n : x = GaugeRow(y) BY DEF NonZero
      <3>3. PICK p \in Payments : IsComboOf(y.row.labels, p) BY <3>1 DEF GaugeRowsOf
      <3> QED BY <3>2, <3>3, RowLabels DEF Currencies
    <2>2. {x \in NonZero(n) : x.currency \in Currencies} = NonZero(n) BY <2>1
    <2>3. leg.count = SumOver(H, W) BY <1>8, <1>9, <2>2
    <2>4. H \in SUBSET Payments BY <1>2 DEF HeldIn
    <2>5. SumOver(H, W) = Cardinality(H)
      <3>1. PICK w : w = W OBVIOUS
      <3>2. w \in [Payments -> Nat] /\ \A p \in Payments : w[p] = 1 BY <3>1, WeightFacts DEF Weight
      <3>3. IsFiniteSet(Payments) BY MoneyPathAssumption
      <3>4. \A t \in SUBSET Payments : SumOver(t, w) = Cardinality(t) BY <3>2, <3>3, SumOnes
      <3> HIDE DEF H, W
      <3> QED BY <2>4, <3>1, <3>4
    <2>6. UNION {held(c) : c \in Currencies} = H
      <3>1. \A p : p \in H <=> \E c \in Currencies : p \in HeldIn(req, k, {c}) BY DEF HeldIn
      <3> HIDE DEF H, held
      <3> QED BY <1>3, <3>1
    <2> QED BY <2>3, <2>5, <2>6
  <1> QED BY <1>10, <1>11 DEF k

\* Once the tracker has published for a request, the deferred leg is what the
\* tracker held at its last Publish of the window, in every currency and in
\* number (Deferred, deferredFromGauge: the gauge is the source), for any
\* payments, amounts, ages, requests and histories.
THEOREM GaugeIsTheSource == Spec => []GaugeSettles
  <1>1. Init => StoredInv
    <2>1. IsFiniteSet({}) BY FS_EmptySet
    <2> QED BY <2>1 DEF Init, StoredInv
  <1>2. StoredInv /\ GaugeInv /\ [Next]_vars => StoredInv' /\ GaugeInv' BY StoredStep, GaugeStep
  <1> QED BY <1>1, <1>2, GaugeInit, GaugeHolds, PTL DEF Spec

-----------------------------------------------------------------------------
(* What the walk has of the captures *)

\* A capture, as the process that made it recorded it.
IsCapture(r) == r.process = 1 /\ r.stage = "capture" /\ r.outcome = "success"

\* The emitter suppresses a repeat.
RepeatInv ==
    \A q, r \in sent :
        <<q.process, q.payment, q.stage, q.outcome>> = <<r.process, r.payment, r.stage, r.outcome>> => q = r

\* The provider's list has every payment it knows, and those that succeeded are
\* the recorded captures.
BooksInv ==
    /\ \A p \in Payments : intents[p].status # "none" => \E i \in DOMAIN created : created[i] = p
    /\ \A p \in Payments : intents[p].status = "succeeded" <=> \E r \in sent : IsCapture(r) /\ r.payment = p
    /\ \A r \in sent : r.at \in Nat

\* A walk has the captures of before it, and what it reads as one is one.
CaughtInv ==
    /\ now \in Nat /\ walk.began \in Nat /\ walk.began <= now
    /\ walk.phase \in {"paging", "done"} => \A r \in sent : IsCapture(r) /\ r.at < walk.began => r.payment \in walk.listed
    /\ \A i \in DOMAIN walk.read :
         /\ walk.read[i].as \in {None, {"success"}, {"deferred"}, {"failed"}}
         /\ walk.read[i].as = {"success"} => intents[walk.read[i].payment].status = "succeeded"
         /\ \A r \in sent : IsCapture(r) /\ r.payment = walk.read[i].payment /\ r.at < walk.began
                              => walk.read[i].as = {"success"}

CaptureInv == RepeatInv /\ BooksInv /\ CaughtInv

\* What a record adds.
LEMMA Recorded ==
    ASSUME NEW q, NEW p, NEW stage, NEW outcome, Record(q, p, stage, outcome)
    PROVE  \/ /\ sent' = sent
              /\ \E r \in sent : <<r.process, r.payment, r.stage, r.outcome>> = <<q, p, stage, outcome>>
           \/ /\ ~ \E r \in sent : <<r.process, r.payment, r.stage, r.outcome>> = <<q, p, stage, outcome>>
              /\ \E points, event \in BOOLEAN :
                   sent' = sent \cup {[process |-> q, payment |-> p, stage |-> stage, outcome |-> outcome,
                                       at |-> now, points |-> points, event |-> event]}
  BY DEF Record

\* A new record is of its instant, and the only one of its kind.
LEMMA RepeatStep ==
    ASSUME RepeatInv, NEW q, NEW p, NEW stage, NEW outcome, Record(q, p, stage, outcome)
    PROVE  /\ RepeatInv'
           /\ sent \subseteq sent'
           /\ \E r \in sent' : r.process = q /\ r.payment = p /\ r.stage = stage /\ r.outcome = outcome
           /\ \A r \in sent' \ sent : /\ r.process = q /\ r.payment = p /\ r.stage = stage /\ r.outcome = outcome
                                      /\ r.at = now
  <1>1. CASE /\ sent' = sent
             /\ \E r \in sent : <<r.process, r.payment, r.stage, r.outcome>> = <<q, p, stage, outcome>>
    BY <1>1 DEF RepeatInv
  <1>2. CASE /\ ~ \E r \in sent : <<r.process, r.payment, r.stage, r.outcome>> = <<q, p, stage, outcome>>
             /\ \E points, event \in BOOLEAN :
                  sent' = sent \cup {[process |-> q, payment |-> p, stage |-> stage, outcome |-> outcome,
                                      at |-> now, points |-> points, event |-> event]}
    <2>1. PICK points, event \in BOOLEAN :
            sent' = sent \cup {[process |-> q, payment |-> p, stage |-> stage, outcome |-> outcome,
                                at |-> now, points |-> points, event |-> event]}
      BY <1>2
    <2>2. PICK r : r = [process |-> q, payment |-> p, stage |-> stage, outcome |-> outcome,
                        at |-> now, points |-> points, event |-> event]
      OBVIOUS
    <2>3. r.at = now /\ r.process = q /\ r.payment = p /\ r.stage = stage /\ r.outcome = outcome BY <2>2
    <2>4. sent' = sent \cup {r} BY <2>1, <2>2
    <2> QED BY <1>2, <2>3, <2>4 DEF RepeatInv
  <1> QED BY <1>1, <1>2, Recorded

\* A record of a payment whose intent moves on with it.
LEMMA PaymentStep ==
    ASSUME ListInv, WalkInv, CaptureInv, NEW p \in Payments, NEW intent, NEW stage, NEW outcome,
           Record(1, p, stage, outcome), intents' = [intents EXCEPT ![p] = intent],
           intents[p].status # "succeeded",
           intent.status = "succeeded" <=> stage = "capture" /\ outcome = "success",
           \A i \in DOMAIN created : i \in DOMAIN created' /\ created'[i] = created[i],
           \E i \in DOMAIN created' : created'[i] = p,
           now' = now, walk' = walk
    PROVE  CaptureInv'
  <1>1. /\ RepeatInv' /\ sent \subseteq sent'
        /\ \E r \in sent' : r.process = 1 /\ r.payment = p /\ r.stage = stage /\ r.outcome = outcome
        /\ \A r \in sent' \ sent : /\ r.process = 1 /\ r.payment = p /\ r.stage = stage /\ r.outcome = outcome
                                   /\ r.at = now
    BY RepeatStep DEF CaptureInv
  <1>2. /\ DOMAIN intents = Payments /\ intents'[p] = intent
        /\ \A o \in Payments \ {p} : intents'[o] = intents[o]
    BY DEF ListInv
  <1>3. \A o \in Payments : intents'[o].status = "succeeded" <=> \E r \in sent' : IsCapture(r) /\ r.payment = o
    <2> SUFFICES ASSUME NEW o \in Payments
                 PROVE  intents'[o].status = "succeeded" <=> \E r \in sent' : IsCapture(r) /\ r.payment = o
      OBVIOUS
    <2>1. CASE o = p BY <1>1, <1>2, <2>1 DEF IsCapture, CaptureInv, BooksInv
    <2>2. CASE o # p BY <1>1, <1>2, <2>2 DEF IsCapture, CaptureInv, BooksInv
    <2> QED BY <2>1, <2>2
  <1>4. BooksInv'
    <2>1. \A r \in sent' : r.at \in Nat BY <1>1 DEF CaptureInv, BooksInv, CaughtInv
    <2>2. ASSUME NEW o \in Payments, intents'[o].status # "none" PROVE \E i \in DOMAIN created' : created'[i] = o
      <3>1. CASE o = p BY <3>1
      <3>2. CASE o # p BY <1>2, <2>2, <3>2 DEF CaptureInv, BooksInv
      <3> QED BY <3>1, <3>2
    <2> QED BY <1>3, <2>1, <2>2 DEF BooksInv
  <1>5. \A r \in sent' : r.at < walk.began => r \in sent BY <1>1 DEF CaptureInv, CaughtInv
  <1>6. ASSUME NEW i \in DOMAIN walk.read, intents[walk.read[i].payment].status = "succeeded"
        PROVE  intents'[walk.read[i].payment].status = "succeeded"
    <2>1. walk.read[i] \in Reading BY ElementsOf DEF WalkInv
    <2>2. walk.read[i].payment \in Payments BY <2>1 DEF Reading
    <2> QED BY <1>2, <1>6, <2>2
  <1>7. CaughtInv' BY <1>5, <1>6 DEF CaptureInv, CaughtInv
  <1> QED BY <1>1, <1>4, <1>7 DEF CaptureInv

\* A copy of a record is no capture.
LEMMA CopyStep ==
    ASSUME CaptureInv, NEW p, NEW stage, NEW outcome, Record(2, p, stage, outcome),
           intents' = intents, created' = created, now' = now, walk' = walk
    PROVE  CaptureInv'
  <1>1. /\ RepeatInv' /\ sent \subseteq sent' /\ \A r \in sent' \ sent : r.process = 2 /\ r.at = now
    BY RepeatStep DEF CaptureInv
  <1>2. \A r \in sent' : IsCapture(r) => r \in sent BY <1>1 DEF IsCapture
  <1>3. BooksInv' BY <1>1, <1>2 DEF CaptureInv, BooksInv, CaughtInv
  <1>4. CaughtInv' BY <1>1, <1>2 DEF CaptureInv, CaughtInv
  <1> QED BY <1>1, <1>3, <1>4 DEF CaptureInv

\* A page takes each of its intents for what it is.
LEMMA PageReads ==
    ASSUME ListInv, WalkInv, Page
    PROVE  \E read \in Seq(Reading) :
             /\ walk'.read = walk.read \o read
             /\ \A k \in DOMAIN read : read[k].as = Classify(intents[read[k].payment])
  <1>1. PICK n \in 0 .. Len(created), m \in Nat : AtPage(n, m) BY BeforePage
  <1> DEFINE page == ListPage(walk.cursor)
             read == [i \in DOMAIN page.intents |-> [payment |-> page.intents[i], as |-> Classify(intents[page.intents[i]])]]
  <1>2. page.intents \in Seq(Payments) BY <1>1, PageFacts
  <1>3. walk'.read = walk.read \o read BY DEF Page
  <1> HIDE DEF page
  <1>4. \A k \in DOMAIN read : read[k].as = Classify(intents[read[k].payment]) OBVIOUS
  <1>5. read \in Seq(Reading)
    <2> DEFINE c == Len(page.intents)
    <2>1. DOMAIN page.intents = 1 .. c /\ c \in Nat BY <1>2
    <2>2. \A k \in 1 .. c : page.intents[k] \in Payments BY <1>2
    <2>3. \A k \in 1 .. c : read[k] \in Reading BY <2>1, <2>2, ClassifyType DEF Reading
    <2>4. DOMAIN read = 1 .. c BY <2>1
    <2>5. read \in [1 .. c -> Reading]
      <3> HIDE DEF c
      <3> QED BY <2>1, <2>3
    <2> HIDE DEF c, read
    <2> QED BY <2>1, <2>5
  <1> QED BY <1>3, <1>4, <1>5

LEMMA ClassifyFacts ==
    ASSUME NEW intent
    PROVE  /\ Classify(intent) \in {None, {"success"}, {"deferred"}, {"failed"}}
           /\ Classify(intent) = {"success"} <=> intent.status = "succeeded"
  BY DEF Classify, None

LEMMA CaughtPage ==
    ASSUME ListInv, WalkInv, MoneyInv, CaptureInv, Page
    PROVE  CaptureInv'
  <1>1. intents' = intents /\ created' = created /\ sent' = sent /\ now' = now BY DEF Page, provider
  <1>2. PICK read \in Seq(Reading) :
          /\ walk'.read = walk.read \o read
          /\ \A k \in DOMAIN read : read[k].as = Classify(intents[read[k].payment])
    BY PageReads
  <1>3. /\ walk'.began = (IF walk.phase = "idle" THEN now ELSE walk.began)
        /\ walk'.listed = (IF walk.phase = "idle" THEN ToSet(created) ELSE walk.listed)
    BY DEF Page
  <1>4. \A r \in sent : IsCapture(r) /\ r.at < walk'.began => r.payment \in walk'.listed
    <2> SUFFICES ASSUME NEW r \in sent, IsCapture(r), r.at < walk'.began PROVE r.payment \in walk'.listed OBVIOUS
    <2>1. CASE walk.phase = "idle"
      <3>1. r.payment \in Payments BY DEF MoneyInv
      <3>2. PICK i \in DOMAIN created : created[i] = r.payment BY <3>1 DEF CaptureInv, BooksInv
      <3> QED BY <1>3, <2>1, <3>2 DEF ToSet
    <2>2. CASE walk.phase # "idle"
      <3>1. walk.phase = "paging" BY <2>2 DEF Page
      <3> QED BY <1>3, <2>2, <3>1 DEF CaptureInv, CaughtInv
    <2> QED BY <2>1, <2>2
  <1>5. ASSUME NEW i \in DOMAIN walk'.read
        PROVE  LET x == walk'.read[i]
               IN  /\ x.as \in {None, {"success"}, {"deferred"}, {"failed"}}
                   /\ x.as = {"success"} => intents[x.payment].status = "succeeded"
                   /\ \A r \in sent : IsCapture(r) /\ r.payment = x.payment /\ r.at < walk'.began => x.as = {"success"}
    <2>1. walk.read \in Seq(Reading) BY DEF WalkInv
    <2>2. \/ i \in DOMAIN walk.read /\ walk'.read[i] = walk.read[i]
          \/ \E k \in DOMAIN read : walk'.read[i] = read[k]
      <3> DEFINE m == Len(walk.read)
                 c == Len(read)
      <3>1. m \in Nat /\ c \in Nat /\ DOMAIN walk.read = 1 .. m /\ DOMAIN read = 1 .. c BY <2>1
      <3>2. /\ walk'.read \in Seq(Reading) /\ Len(walk'.read) = m + c
            /\ \A j \in 1 .. m : walk'.read[j] = walk.read[j]
            /\ \A k \in 1 .. c : walk'.read[m + k] = read[k]
        BY <1>2, <2>1, Joined
      <3> HIDE DEF m, c
      <3>3. i \in 1 .. m + c BY <3>1, <3>2
      <3>4. CASE i <= m BY <3>1, <3>2, <3>3, <3>4
      <3>5. CASE ~ (i <= m)
        <4>1. i - m \in 1 .. c /\ m + (i - m) = i BY <3>1, <3>3, <3>5
        <4>2. walk'.read[i] = read[i - m] BY <3>2, <4>1
        <4> QED BY <3>1, <4>1, <4>2
      <3> QED BY <3>4, <3>5
    <2>3. CASE i \in DOMAIN walk.read /\ walk'.read[i] = walk.read[i]
      <3>1. walk.phase # "idle" BY <2>3 DEF WalkInv
      <3>2. walk'.began = walk.began BY <1>3, <3>1
      <3> QED BY <2>3, <3>2 DEF CaptureInv, CaughtInv
    <2>4. CASE \E k \in DOMAIN read : walk'.read[i] = read[k]
      <3>1. PICK k \in DOMAIN read : walk'.read[i] = read[k] BY <2>4
      <3> DEFINE x == read[k]
      <3>2. x \in Reading BY <3>1, ElementsOf
      <3>3. x.payment \in Payments /\ x.as = Classify(intents[x.payment]) BY <1>2, <3>2 DEF Reading
      <3>4. \A r \in sent : IsCapture(r) /\ r.payment = x.payment => intents[x.payment].status = "succeeded"
        BY <3>3 DEF CaptureInv, BooksInv
      <3> HIDE DEF x
      <3> QED BY <3>1, <3>3, <3>4, ClassifyFacts DEF x
    <2> QED BY <2>2, <2>3, <2>4
  <1>6. RepeatInv' BY <1>1 DEF CaptureInv, RepeatInv
  <1>7. BooksInv' BY <1>1 DEF CaptureInv, BooksInv
  <1>8. now \in Nat /\ walk'.began \in Nat /\ walk'.began <= now BY <1>3 DEF CaptureInv, CaughtInv
  <1>9. CaughtInv' BY <1>1, <1>4, <1>5, <1>8 DEF CaughtInv
  <1> QED BY <1>6, <1>7, <1>9 DEF CaptureInv

LEMMA CaptureStep == ListInv /\ WalkInv /\ MoneyInv /\ CaptureInv /\ [Next]_vars => CaptureInv'
  <1> SUFFICES ASSUME ListInv, WalkInv, MoneyInv, CaptureInv, [Next]_vars PROVE CaptureInv' OBVIOUS
  <1>1. ASSUME NEW p \in Payments, Open(p) PROVE intents[p].status # "succeeded" /\ \E i \in DOMAIN created : created[i] = p
    BY <1>1 DEF Open, CaptureInv, BooksInv
  <1>2. CASE \E p \in Payments : Settle(p)
    <2>1. PICK p \in Payments : Settle(p) BY <1>2
    <2> QED BY <1>1, <2>1, PaymentStep DEF Settle
  <1>3. CASE \E p \in Payments : Decline(p)
    <2>1. PICK p \in Payments : Decline(p) BY <1>3
    <2> QED BY <1>1, <2>1, PaymentStep DEF Decline
  <1>4. CASE \E p \in Payments : Postpone(p)
    <2>1. PICK p \in Payments : Postpone(p) BY <1>4
    <2> QED BY <1>1, <2>1, PaymentStep DEF Postpone
  <1>5. CASE \E p \in Payments, o \in {"success", "failed"} : Enter(p, o)
    <2>1. PICK p \in Payments, o \in {"success", "failed"} : Enter(p, o) BY <1>5
    <2>2. /\ \A i \in DOMAIN created : i \in DOMAIN created' /\ created'[i] = created[i]
          /\ \E i \in DOMAIN created' : created'[i] = p
      <3>1. created' = Append(created, p) /\ created \in Seq(Payments) BY <2>1 DEF Enter, ListInv
      <3>2. Len(created) + 1 \in DOMAIN created' /\ created'[Len(created) + 1] = p BY <3>1
      <3> QED BY <3>1, <3>2
    <2> QED BY <2>1, <2>2, PaymentStep DEF Enter
  <1>6. CASE \E r \in sent : Redeliver(r) BY <1>6, CopyStep DEF Redeliver, provider
  <1>7. CASE Page BY <1>7, CaughtPage
  <1>8. CASE Tick
    <2>1. now' \in Nat /\ now' > now /\ intents' = intents /\ created' = created /\ sent' = sent /\ walk' = walk
      <3> DEFINE later == {t \in Instants : t > now}
      <3>1. later \subseteq Nat /\ later # {} /\ now' = Min(later) BY <1>8, MoneyPathAssumption DEF Tick
      <3>2. now' \in later
        <4> HIDE DEF later
        <4> QED BY <3>1, LeastOf
      <3> QED BY <1>8, <3>1, <3>2 DEF Tick, provider
    <2> QED BY <2>1 DEF CaptureInv, RepeatInv, BooksInv, CaughtInv
  <1>9. CASE PageFails BY <1>9 DEF PageFails, provider, CaptureInv, RepeatInv, BooksInv, CaughtInv
  <1>10. CASE Publish \/ UNCHANGED vars
    <2>1. UNCHANGED <<now, intents, created, sent, walk>> BY <1>10 DEF Publish, provider, vars
    <2> QED BY <2>1 DEF CaptureInv, RepeatInv, BooksInv, CaughtInv
  <1> QED BY <1>2, <1>3, <1>4, <1>5, <1>6, <1>7, <1>8, <1>9, <1>10 DEF Next

LEMMA CaptureInit == Init => CaptureInv
  BY DEF Init, CaptureInv, RepeatInv, BooksInv, CaughtInv

\* The same sum, as the ledger and as the coverage add it up.
LEMMA BookedSum ==
    ASSUME NEW S, IsFiniteSet(S)
    PROVE  MapThenSumSet(LAMBDA i : AmountOf[walk.read[i].payment], S)
             = SumFunction([i \in S |-> AmountOf[walk.read[i].payment]])
  <1> DEFINE f == [i \in S |-> AmountOf[walk.read[i].payment]]
             Folds(iter) == iter = [s \in SUBSET S |->
                              IF s = {} THEN 0
                              ELSE AmountOf[walk.read[CHOOSE i \in s : TRUE].payment] + iter[s \ {CHOOSE i \in s : TRUE}]]
  <1>1. MapThenSumSet(LAMBDA i : AmountOf[walk.read[i].payment], S) = (CHOOSE iter : Folds(iter))[S]
    BY DEF MapThenSumSet, MapThenFoldSet
  <1>2. SumFunction(f) = (CHOOSE iter : Adds(iter, f, S))[S]
    BY DEF SumFunction, SumFunctionOnSet, FoldFunctionOnSet, MapThenFoldSet, Adds
  <1>3. ASSUME NEW iter PROVE Folds(iter) <=> Adds(iter, f, S)
    <2>1. \A s \in SUBSET S : s # {} => (CHOOSE i \in s : TRUE) \in S
      <3>1. \A s : s # {} => (CHOOSE i \in s : TRUE) \in s OBVIOUS
      <3> QED BY <3>1
    <2>2. \A s \in SUBSET S : s # {} =>
            f[CHOOSE i \in s : TRUE] = AmountOf[walk.read[CHOOSE i \in s : TRUE].payment]
      BY <2>1
    <2> HIDE DEF f
    <2>3. [s \in SUBSET S |-> IF s = {} THEN 0
              ELSE AmountOf[walk.read[CHOOSE i \in s : TRUE].payment] + iter[s \ {CHOOSE i \in s : TRUE}]]
          = [s \in SUBSET S |-> IF s = {} THEN 0
              ELSE f[CHOOSE i \in s : TRUE] + iter[s \ {CHOOSE i \in s : TRUE}]]
      BY <2>2
    <2> QED BY <2>3 DEF Adds
  <1> HIDE DEF Folds, f
  <1>4. (CHOOSE iter : Folds(iter)) = (CHOOSE iter : Adds(iter, f, S)) BY <1>3
  <1> QED BY <1>1, <1>2, <1>4 DEF f

LEMMA RowsSum ==
    ASSUME NEW S, IsFiniteSet(S)
    PROVE  MapThenSumSet(LAMBDA r : r.amount, S) = SumFunction([r \in S |-> r.amount])
  <1> DEFINE f == [r \in S |-> r.amount]
             Folds(iter) == iter = [s \in SUBSET S |->
                              IF s = {} THEN 0
                              ELSE (CHOOSE r \in s : TRUE).amount + iter[s \ {CHOOSE r \in s : TRUE}]]
  <1>1. MapThenSumSet(LAMBDA r : r.amount, S) = (CHOOSE iter : Folds(iter))[S]
    BY DEF MapThenSumSet, MapThenFoldSet
  <1>2. SumFunction(f) = (CHOOSE iter : Adds(iter, f, S))[S]
    BY DEF SumFunction, SumFunctionOnSet, FoldFunctionOnSet, MapThenFoldSet, Adds
  <1>3. ASSUME NEW iter PROVE Folds(iter) <=> Adds(iter, f, S)
    <2>1. \A s \in SUBSET S : s # {} => (CHOOSE r \in s : TRUE) \in S
      <3>1. \A s : s # {} => (CHOOSE r \in s : TRUE) \in s OBVIOUS
      <3> QED BY <3>1
    <2>2. \A s \in SUBSET S : s # {} => f[CHOOSE r \in s : TRUE] = (CHOOSE r \in s : TRUE).amount
      BY <2>1
    <2> HIDE DEF f
    <2>3. [s \in SUBSET S |-> IF s = {} THEN 0
              ELSE (CHOOSE r \in s : TRUE).amount + iter[s \ {CHOOSE r \in s : TRUE}]]
          = [s \in SUBSET S |-> IF s = {} THEN 0
              ELSE f[CHOOSE r \in s : TRUE] + iter[s \ {CHOOSE r \in s : TRUE}]]
      BY <2>2
    <2> QED BY <2>3 DEF Adds
  <1> HIDE DEF Folds, f
  <1>4. (CHOOSE iter : Folds(iter)) = (CHOOSE iter : Adds(iter, f, S)) BY <1>3
  <1> QED BY <1>1, <1>2, <1>4 DEF f

-----------------------------------------------------------------------------
(* Ratios *)

LEMMA ProductMonotone ==
    ASSUME NEW a \in Nat, NEW b \in Nat, NEW c \in Nat, a <= b
    PROVE  a * c <= b * c
  <1>1. PICK d \in Nat : b = a + d
    <2>1. b - a \in Nat /\ b = a + (b - a) OBVIOUS
    <2> QED BY <2>1
  <1>2. (a + d) * c = a * c + d * c OBVIOUS
  <1>3. a * c \in Nat /\ d * c \in Nat OBVIOUS
  <1> QED BY <1>1, <1>2, <1>3

LEMMA ProductCancels ==
    ASSUME NEW a \in Nat, NEW b \in Nat, NEW c \in Nat \ {0}, a * c <= b * c
    PROVE  a <= b
  <1> SUFFICES ASSUME b < a PROVE FALSE OBVIOUS
  <1>1. PICK d \in Nat : a = b + 1 + d
    <2>1. a - b - 1 \in Nat /\ a = b + 1 + (a - b - 1) OBVIOUS
    <2> QED BY <2>1
  <1>2. (b + 1 + d) * c = b * c + c + d * c OBVIOUS
  <1>3. b * c \in Nat /\ d * c \in Nat OBVIOUS
  <1> QED BY <1>1, <1>2, <1>3

LEMMA LowerTransitive ==
    ASSUME NEW an \in Nat, NEW ad \in Nat \ {0}, NEW bn \in Nat, NEW bd \in Nat \ {0}, NEW cn \in Nat, NEW cd \in Nat \ {0},
           an * bd <= bn * ad, bn * cd <= cn * bd
    PROVE  an * cd <= cn * ad
  <1>1. (an * bd) * cd <= (bn * ad) * cd BY ProductMonotone
  <1>2. (bn * cd) * ad <= (cn * bd) * ad BY ProductMonotone
  <1>3. (an * bd) * cd = (an * cd) * bd /\ (bn * ad) * cd = (bn * cd) * ad /\ (cn * bd) * ad = (cn * ad) * bd
    OBVIOUS
  <1>4. an * cd \in Nat /\ cn * ad \in Nat /\ (an * cd) * bd \in Nat /\ (bn * cd) * ad \in Nat /\ (cn * ad) * bd \in Nat
    OBVIOUS
  <1>5. (an * cd) * bd <= (cn * ad) * bd
    <2> DEFINE x == (an * cd) * bd
               y == (bn * cd) * ad
               z == (cn * ad) * bd
    <2>1. x <= y /\ y <= z BY <1>1, <1>2, <1>3
    <2>2. x \in Nat /\ y \in Nat /\ z \in Nat BY <1>4
    <2> HIDE DEF x, y, z
    <2>3. x <= z BY <2>1, <2>2
    <2> QED BY <2>3 DEF x, z
  <1> QED BY <1>4, <1>5, ProductCancels

\* A ratio of naturals that is no more than one.
Ratios == {r \in [num : Nat, den : Nat \ {0}] : r.num <= r.den}

\* Of ratios one is the worst.
LEMMA WorstRatio ==
    ASSUME NEW R, IsFiniteSet(R), R # {}, R \subseteq Ratios
    PROVE  \E r \in R : \A o \in R : Lower2(r, o)
  <1> DEFINE Bad == {s \in SUBSET R : s # {} /\ ~ \E r \in s : \A o \in s : Lower2(r, o)}
  <1> SUFFICES ASSUME Bad # {} PROVE FALSE OBVIOUS
  <1>1. PICK s \in Bad : \A x \in s : s \ {x} \notin Bad
    <2>1. Bad \subseteq SUBSET R OBVIOUS
    <2> HIDE DEF Bad
    <2> QED BY <2>1, SmallestSet
  <1>2. s # {} /\ s \subseteq R /\ ~ \E r \in s : \A o \in s : Lower2(r, o) BY <1>1
  <1>3. PICK x \in s : TRUE BY <1>2
  <1>4. \A r \in R : r.num \in Nat /\ r.den \in Nat \ {0} BY DEF Ratios
  <1>5. \A r, o \in R : Lower2(r, o) \/ Lower2(o, r)
    <2> SUFFICES ASSUME NEW r \in R, NEW o \in R PROVE Lower2(r, o) \/ Lower2(o, r) OBVIOUS
    <2>1. PICK a, b : a = r.num * o.den /\ b = o.num * r.den OBVIOUS
    <2>2. a \in Nat /\ b \in Nat BY <1>4, <2>1
    <2> QED BY <2>1, <2>2 DEF Lower2
  <1>6. CASE s \ {x} = {}
    <2>1. \A o \in s : o = x BY <1>6
    <2>2. Lower2(x, x) BY <1>2, <1>3, <1>5
    <2> QED BY <1>2, <1>3, <2>1, <2>2
  <1>7. CASE s \ {x} # {}
    <2>1. PICK m \in s \ {x} : \A o \in s \ {x} : Lower2(m, o) BY <1>1, <1>2, <1>7
    <2>2. ~ Lower2(m, x) BY <1>2, <2>1
    <2>3. m \in R /\ x \in R BY <1>2, <1>3, <2>1
    <2>4. Lower2(x, m) BY <1>5, <2>2, <2>3
    <2>5. \A o \in s : Lower2(x, o)
      <3> SUFFICES ASSUME NEW o \in s PROVE Lower2(x, o) OBVIOUS
      <3>1. CASE o = x BY <1>5, <2>3, <3>1
      <3>2. CASE o # x
        <4>1. o \in R /\ Lower2(m, o) BY <1>2, <2>1, <3>2
        <4>2. x.num * m.den <= m.num * x.den /\ m.num * o.den <= o.num * m.den BY <2>4, <4>1 DEF Lower2
        <4>3. x.num * o.den <= o.num * x.den BY <1>4, <2>3, <4>1, <4>2, LowerTransitive
        <4> QED BY <4>3 DEF Lower2
      <3> QED BY <3>1, <3>2
    <2> QED BY <1>2, <1>3, <2>5
  <1> QED BY <1>6, <1>7

\* The worst is below one exactly when one is.
LEMMA WorstBelowOne ==
    ASSUME NEW R, R \subseteq Ratios, NEW r \in R, \A o \in R : Lower2(r, o)
    PROVE  r.num < r.den <=> \E o \in R : o.num < o.den
  <1>1. ASSUME NEW o \in R, o.num < o.den, ~ (r.num < r.den) PROVE FALSE
    <2>1. /\ r.num \in Nat /\ r.den \in Nat \ {0} /\ o.num \in Nat /\ o.den \in Nat \ {0} /\ r.num <= r.den BY DEF Ratios
    <2>2. r.num = r.den BY <1>1, <2>1
    <2>3. r.den * o.den <= o.num * r.den BY <2>2 DEF Lower2
    <2>4. o.den * r.den = r.den * o.den BY <2>1
    <2>5. o.den <= o.num BY <2>1, <2>3, <2>4, ProductCancels
    <2> QED BY <1>1, <2>1, <2>5
  <1> QED BY <1>1

-----------------------------------------------------------------------------
(* The ledger *)

\* The entries read as a capture of a flow and currency, and their amounts.
Books(id, c) ==
    {i \in DOMAIN walk.read : /\ walk.read[i].as = {"success"}
                              /\ FlowOf[walk.read[i].payment] = id /\ CurrencyOf[walk.read[i].payment] = c}

Booked(id, c) == SumFunction([i \in Books(id, c) |-> AmountOf[walk.read[i].payment]])

\* Every row is valid; a row of successes is the booked captures of its flow
\* and currency, and they have one.
LEMMA LedgerRows ==
    ASSUME WalkInv, CaptureInv
    PROVE  /\ \A r \in Ledger : LedgerRowValid(r)
           /\ \A r \in Ledger : r.outcome = "success" => Books(r.flow, r.currency) # {} /\ r.amount = Booked(r.flow, r.currency)
           /\ \A id, c : Books(id, c) # {} => \E r \in Ledger : r.outcome = "success" /\ r.flow = id /\ r.currency = c
           /\ \A q, r \in Ledger : q.outcome = r.outcome /\ q.flow = r.flow /\ q.currency = r.currency => q = r
  <1> DEFINE kept == {i \in DOMAIN walk.read : walk.read[i].as # None}
             key(i) == [flow |-> FlowOf[walk.read[i].payment], currency |-> CurrencyOf[walk.read[i].payment],
                        outcome |-> CHOOSE o \in walk.read[i].as : TRUE]
             of(k) == {i \in kept : key(i) = k}
             amounts(S) == SumFunction([i \in S |-> AmountOf[walk.read[i].payment]])
             row(k) == [flow |-> k.flow, currency |-> k.currency, outcome |-> k.outcome, count |-> Cardinality(of(k)),
                        amount |-> MapThenSumSet(LAMBDA i : AmountOf[walk.read[i].payment], of(k))]
  <1>1. Ledger = {row(k) : k \in {key(i) : i \in kept}} BY DEF Ledger
  <1>2. IsFiniteSet(DOMAIN walk.read) /\ \A i \in DOMAIN walk.read : walk.read[i].payment \in Payments
    <2>1. walk.read \in Seq(Reading) BY DEF WalkInv
    <2>2. DOMAIN walk.read = 1 .. Len(walk.read) /\ Len(walk.read) \in Nat BY <2>1
    <2>3. \A i \in DOMAIN walk.read : walk.read[i] \in Reading BY <2>1, ElementsOf
    <2>4. PICK n \in Nat : DOMAIN walk.read = 1 .. n BY <2>2
    <2>5. IsFiniteSet(1 .. n) BY <2>4, FS_Interval
    <2> QED BY <2>3, <2>4, <2>5 DEF Reading
  <1>3. ASSUME NEW k
        PROVE  /\ IsFiniteSet(of(k)) /\ Cardinality(of(k)) \in Nat /\ (Cardinality(of(k)) = 0 <=> of(k) = {})
               /\ row(k).amount = amounts(of(k)) /\ amounts(of(k)) \in Nat
    <2>1. of(k) \subseteq DOMAIN walk.read OBVIOUS
    <2> DEFINE S == of(k)
               f == [i \in S |-> AmountOf[walk.read[i].payment]]
    <2> HIDE DEF S
    <2>2. IsFiniteSet(S) BY <1>2, <2>1, FS_Subset DEF S
    <2>3. f \in [S -> Nat] BY <1>2, <2>1, MoneyPathAssumption DEF S
    <2>4. row(k).amount = MapThenSumSet(LAMBDA i : AmountOf[walk.read[i].payment], S) BY DEF S
    <2>5. MapThenSumSet(LAMBDA i : AmountOf[walk.read[i].payment], S) = SumFunction(f) BY <2>2, BookedSum
    <2>6. SumFunction(f) \in Nat
      <3> HIDE DEF f
      <3> QED BY <2>2, <2>3, SumNat
    <2>7. Cardinality(S) \in Nat /\ (Cardinality(S) = 0 <=> S = {}) BY <2>2, FS_CardinalityType, FS_EmptySet
    <2> QED BY <2>2, <2>4, <2>5, <2>6, <2>7 DEF S
  <1>4. ASSUME NEW i \in kept
        PROVE  /\ key(i).outcome \in {"success", "failed", "deferred"}
               /\ key(i).outcome = "success" <=> walk.read[i].as = {"success"}
    <2>1. walk.read[i].as \in {{"success"}, {"deferred"}, {"failed"}} BY DEF CaptureInv, CaughtInv, None
    <2>2. \A o : (CHOOSE x \in {o} : TRUE) = o OBVIOUS
    <2>3. (CHOOSE o \in walk.read[i].as : TRUE) \in walk.read[i].as BY <2>1
    <2> QED BY <2>1, <2>3
  <1>5. \A k : row(k).flow = k.flow /\ row(k).currency = k.currency /\ row(k).outcome = k.outcome /\ row(k).count = Cardinality(of(k))
    OBVIOUS
  <1>6. \A i : /\ key(i).flow = FlowOf[walk.read[i].payment] /\ key(i).currency = CurrencyOf[walk.read[i].payment]
               /\ key(i) = [flow |-> key(i).flow, currency |-> key(i).currency, outcome |-> key(i).outcome]
    OBVIOUS
  <1>7. ASSUME NEW i \in kept, key(i).outcome = "success" PROVE of(key(i)) = Books(key(i).flow, key(i).currency)
    <2> DEFINE k == key(i)
    <2>1. k = [flow |-> k.flow, currency |-> k.currency, outcome |-> "success"] BY <1>6, <1>7
    <2>2. \A j \in kept : key(j) = k <=> /\ key(j).flow = k.flow /\ key(j).currency = k.currency
                                        /\ key(j).outcome = "success"
      <3> HIDE DEF key
      <3> QED BY <1>6, <2>1
    <2>3. \A j \in DOMAIN walk.read : walk.read[j].as = {"success"} => j \in kept BY DEF None
    <2> HIDE DEF k, kept, key
    <2> QED BY <1>4, <1>6, <2>2, <2>3 DEF Books, k, kept
  <1> HIDE DEF row, key
  <1>8. ASSUME NEW r \in Ledger
        PROVE  \E i \in kept : /\ r = row(key(i)) /\ i \in of(key(i))
                               /\ r.flow = key(i).flow /\ r.currency = key(i).currency /\ r.outcome = key(i).outcome
                               /\ r.count = Cardinality(of(key(i))) /\ r.amount = amounts(of(key(i)))
    <2>1. PICK i \in kept : r = row(key(i)) BY <1>1
    <2> HIDE DEF kept
    <2> QED BY <1>3, <1>5, <2>1
  <1>9. ASSUME NEW r \in Ledger PROVE LedgerRowValid(r)
    <2>1. PICK i \in kept : /\ i \in of(key(i)) /\ r.outcome = key(i).outcome
                            /\ r.count = Cardinality(of(key(i))) /\ r.amount = amounts(of(key(i)))
      BY <1>8
    <2>2. r.count \in Nat /\ r.count # 0 /\ r.amount \in Nat
      <3> HIDE DEF of, amounts
      <3> QED BY <1>3, <2>1
    <2> QED BY <1>4, <2>1, <2>2 DEF LedgerRowValid
  <1>10. ASSUME NEW r \in Ledger, r.outcome = "success"
         PROVE  Books(r.flow, r.currency) # {} /\ r.amount = Booked(r.flow, r.currency)
    <2>1. PICK i \in kept : /\ i \in of(key(i)) /\ r.outcome = key(i).outcome /\ r.flow = key(i).flow
                            /\ r.currency = key(i).currency /\ r.amount = amounts(of(key(i)))
      BY <1>8
    <2>2. of(key(i)) = Books(r.flow, r.currency) BY <1>7, <1>10, <2>1
    <2> HIDE DEF of
    <2> QED BY <2>1, <2>2 DEF Booked
  <1>11. ASSUME NEW id, NEW c, Books(id, c) # {}
         PROVE  \E r \in Ledger : r.outcome = "success" /\ r.flow = id /\ r.currency = c
    <2>1. PICK i \in DOMAIN walk.read : /\ walk.read[i].as = {"success"}
                                        /\ FlowOf[walk.read[i].payment] = id /\ CurrencyOf[walk.read[i].payment] = c
      BY <1>11 DEF Books
    <2>2. i \in kept BY <2>1 DEF None
    <2>3. row(key(i)) \in Ledger BY <1>1, <2>2
    <2> QED BY <1>4, <1>5, <1>6, <2>1, <2>2, <2>3
  <1>12. ASSUME NEW q \in Ledger, NEW r \in Ledger, q.outcome = r.outcome, q.flow = r.flow, q.currency = r.currency
         PROVE  q = r
    <2>1. PICK i \in kept : q = row(key(i)) /\ q.flow = key(i).flow /\ q.currency = key(i).currency /\ q.outcome = key(i).outcome
      BY <1>8
    <2>2. PICK j \in kept : r = row(key(j)) /\ r.flow = key(j).flow /\ r.currency = key(j).currency /\ r.outcome = key(j).outcome
      BY <1>8
    <2>3. key(i) = key(j) BY <1>6, <1>12, <2>1, <2>2
    <2> QED BY <2>1, <2>2, <2>3
  <1> QED BY <1>9, <1>10, <1>11, <1>12

-----------------------------------------------------------------------------
(* Telemetry's captures *)

\* The captures of a flow and currency that the store has.
Told(req, metrics, id, c) ==
    {r \in sent : /\ r.stage = "capture" /\ r.outcome = "success" /\ Inside(r, req)
                  /\ FlowOf[r.payment] = id /\ CurrencyOf[r.payment] = c
                  /\ IF metrics THEN r.points /\ r.payment \notin Estimated ELSE r.event}

LEMMA PartFacts ==
    ASSUME NEW metrics \in BOOLEAN
    PROVE  LET store == Store(metrics, ~ metrics, {})
           IN  /\ store.caps.metrics = metrics /\ store.caps.events = ~ metrics /\ store.down = {}
               /\ store.points = Healthy.points /\ store.events = Healthy.events
  BY DEF Healthy, Store, Combine, Backend

LEMMA SumOne ==
    ASSUME NEW x, NEW n \in Int
    PROVE  SumFunction([y \in {x} |-> n]) = n
  <1> DEFINE f == [y \in {x} |-> n]
             g == [y \in {x} \ {x} |-> f[y]]
  <1>1. IsFiniteSet({x}) /\ f \in [{x} -> Int] BY FS_Singleton
  <1>2. SumFunction(f) = f[x] + SumFunction(g)
    <2> HIDE DEF f
    <2> QED BY <1>1, SumFacts
  <1>3. SumFunction(g) = 0
    <2>1. DOMAIN g = {} OBVIOUS
    <2> HIDE DEF g
    <2> QED BY <2>1, NothingAdded
  <1>4. f[x] = n OBVIOUS
  <1> HIDE DEF f, g
  <1>5. SumFunction(f) = n BY <1>2, <1>3, <1>4
  <1> QED BY <1>5 DEF f

\* Money by currency, of rows with a currency and an amount.
PerCurrency(rows, cur, minor) ==
    [c \in {cur[r] : r \in rows} |-> SumFunction([r \in {x \in rows : cur[x] = c} |-> minor[r]])]

\* Each row has a currency of its own.
LEMMA OneRowEach ==
    ASSUME NEW rows, NEW cur, NEW minor, \A r \in rows : minor[r] \in Int,
           \A q, r \in rows : cur[q] = cur[r] => q = r
    PROVE  /\ \A r \in rows : Money(PerCurrency(rows, cur, minor), cur[r]) = minor[r]
           /\ \A c : (\A r \in rows : cur[r] # c) => Money(PerCurrency(rows, cur, minor), c) = 0
  <1> DEFINE map == PerCurrency(rows, cur, minor)
  <1>1. ASSUME NEW r \in rows PROVE Money(map, cur[r]) = minor[r]
    <2>1. {x \in rows : cur[x] = cur[r]} = {r} OBVIOUS
    <2>2. [y \in {r} |-> minor[y]] = [y \in {r} |-> minor[r]] OBVIOUS
    <2>3. PICK n \in Int : n = minor[r] OBVIOUS
    <2>4. SumFunction([y \in {r} |-> n]) = n BY SumOne
    <2>5. SumFunction([y \in {x \in rows : cur[x] = cur[r]} |-> minor[y]]) = n BY <2>1, <2>2, <2>3, <2>4
    <2>6. cur[r] \in DOMAIN map /\ map[cur[r]] = SumFunction([y \in {x \in rows : cur[x] = cur[r]} |-> minor[y]])
      BY DEF PerCurrency
    <2> QED BY <2>3, <2>5, <2>6 DEF Money
  <1>2. ASSUME NEW c, \A r \in rows : cur[r] # c PROVE Money(map, c) = 0
    <2>1. c \notin DOMAIN map BY <1>2 DEF PerCurrency
    <2> QED BY <2>1 DEF Money
  <1> QED BY <1>1, <1>2

\* Records and what a store has of them add up to the same.
LEMMA ToldSum ==
    ASSUME StoredInv, MoneyInv, NEW S, S \subseteq sent, NEW T, NEW h \in [S -> T], NEW v,
           \A x, y \in S : h[x] = h[y] => x = y, \A t \in T : \E x \in S : h[x] = t,
           \A x \in S : v[h[x]] = AmountOf[x.payment]
    PROVE  SumFunction([t \in T |-> v[t]]) = AmountsOf(S) /\ AmountsOf(S) \in Nat
  <1> DEFINE f == [r \in S |-> AmountOf[r.payment]]
             g == [t \in T |-> v[t]]
  <1>1. IsFiniteSet(S) BY FS_Subset DEF StoredInv
  <1>2. f \in [S -> Nat]
    <2>1. \A r \in S : AmountOf[r.payment] \in Nat BY MoneyPathAssumption DEF MoneyInv
    <2> QED BY <2>1
  <1>3. IsFiniteSet(T)
    <2>1. h \in Surjection(S, T) BY DEF Surjection
    <2> QED BY <1>1, <2>1, FS_Surjection
  <1>4. \A x \in S : f[x] = g[h[x]] OBVIOUS
  <1>5. g \in [T -> Nat]
    <2>1. \A t \in T : g[t] \in Nat
      <3> HIDE DEF f, g
      <3> QED BY <1>2, <1>4
    <2> QED BY <2>1
  <1> HIDE DEF f, g
  <1>6. SumFunction(f) = SumFunction(g) BY <1>1, <1>2, <1>3, <1>4, <1>5, SumSame
  <1>7. SumFunction(f) \in Nat BY <1>1, <1>2, SumNat
  <1> QED BY <1>6, <1>7 DEF AmountsOf, f, g

LEMMA CaptureLabels ==
    ASSUME NEW r, NEW f, ValueStage(f).id = "capture"
    PROVE  LET matched == r.stage = "capture" /\ r.outcome = "success" /\ FlowOf[r.payment] = f.name.id
               key == [k \in {"currency"} |-> CurrencyOf[r.payment]]
           IN  /\ MatchFilters(Labels(r), SuccessFilters(f)) <=> matched
               /\ MatchFilters(EventOf(r).labels, SuccessFilters(f)) <=> matched
               /\ GroupKey(Labels(r), {"currency"}) = key /\ GroupKey(EventOf(r).labels, {"currency"}) = key
  <1> DEFINE F == SuccessFilters(f)
             l == Labels(r)
             e == EventOf(r).labels
  <1>1. /\ DOMAIN F = {"flow", "outcome", "stage"}
        /\ F["flow"] = f.name.id /\ F["outcome"] = "success" /\ F["stage"] = "capture"
    BY DEF SuccessFilters
  <1>2. /\ {"flow", "stage", "outcome", "currency"} \subseteq DOMAIN l
        /\ l["flow"] = FlowOf[r.payment] /\ l["stage"] = r.stage /\ l["outcome"] = r.outcome
        /\ l["currency"] = CurrencyOf[r.payment]
    BY DEF Labels
  <1>3. "currency" \in DOMAIN e /\ e["currency"] = CurrencyOf[r.payment] BY DEF EventOf
  <1>4. MatchFilters(e, F) <=> MatchFilters(l, F) BY <1>1, SameLabels DEF CounterLabels
  <1> HIDE DEF F, l, e
  <1>5. MatchFilters(l, F) <=> r.stage = "capture" /\ r.outcome = "success" /\ FlowOf[r.payment] = f.name.id
    BY <1>1, <1>2 DEF MatchFilters, Label
  <1>6. GroupKey(l, {"currency"}) = [k \in {"currency"} |-> CurrencyOf[r.payment]]
        /\ GroupKey(e, {"currency"}) = [k \in {"currency"} |-> CurrencyOf[r.payment]]
    BY <1>2, <1>3 DEF GroupKey, Label
  <1> QED BY <1>4, <1>5, <1>6 DEF F, l, e

\* What the counters of value have of the captures of a flow.
LEMMA MetricTold ==
    ASSUME StoredInv, MoneyInv, NEW req \in Requests, NEW f, ValueStage(f).id = "capture"
    PROVE  \E tel : /\ TelemetrySuccessValue(Store(TRUE, FALSE, {}), f, req.window) = {tel}
                    /\ \A c : Money(tel, c) = AmountsOf(Told(req, TRUE, f.name.id, c))
  <1> DEFINE store == Store(TRUE, FALSE, {})
             metric == "biz_value_total"
             F == SuccessFilters(f)
             by == {"currency"}
             told(c) == Told(req, TRUE, f.name.id, c)
             kept == Kept(store, metric, F, req.window)
             added(k) == Added(store, metric, F, req.window, by, k)
  <1>1. store.caps.metrics /\ store.down = {} /\ store.points = Healthy.points
    <2>1. TRUE \in BOOLEAN /\ ~ TRUE = FALSE OBVIOUS
    <2> QED BY <2>1, PartFacts
  <1>2. PICK rows : Counter(store, metric, F, by, req.window, 0) = {rows} /\ AnswersMetric(rows, store, metric, F, by, req.window)
    <2>1. req.window.from \in Nat /\ req.window.to \in Nat BY MoneyPathAssumption
    <2>2. IsFiniteSet(store.points) /\ \A p \in store.points : p.name = metric => p.value \in Nat
      <3>1. \A r \in sent : ValuePoint(r).value \in Nat BY MoneyPathAssumption DEF ValuePoint, MoneyInv
      <3> HIDE DEF store
      <3> QED BY <1>1, <3>1, HealthyPoints
    <2> HIDE DEF store, metric, F, by
    <2> QED BY <1>1, <2>1, <2>2, MetricAnswer
  <1>3. \A p : p \in kept <=> \E c : \E r \in told(c) : p = ValuePoint(r)
    <2>1. metric \notin GaugeFamilies BY DEF GaugeFamilies
    <2>2. \A p : p \in kept <=> /\ p \in Healthy.points /\ p.name = metric
                                /\ MatchFilters(p.labels, F) /\ InRange(p.at, req.window)
      <3> HIDE DEF store, metric, F
      <3> QED BY <1>1, <2>1 DEF Kept
    <2>3. \A r : ValuePoint(r).at = r.at /\ ValuePoint(r).labels = Labels(r) BY DEF ValuePoint
    <2>4. \A r : MatchFilters(Labels(r), F) <=> r.stage = "capture" /\ r.outcome = "success" /\ FlowOf[r.payment] = f.name.id
      BY CaptureLabels
    <2>5. \A p : (p \in Healthy.points /\ p.name = metric)
                   <=> \E r \in sent : p = ValuePoint(r) /\ r.points /\ r.payment \notin Estimated
      BY HealthyPoints
    <2> HIDE DEF kept, F, metric
    <2>6. ASSUME NEW p \in kept PROVE \E c : \E r \in told(c) : p = ValuePoint(r)
      <3>1. PICK r \in sent : p = ValuePoint(r) /\ r.points /\ r.payment \notin Estimated BY <2>2, <2>5
      <3>2. r \in told(CurrencyOf[r.payment]) BY <2>2, <2>3, <2>4, <3>1 DEF Told, Inside
      <3> QED BY <3>1, <3>2
    <2>7. ASSUME NEW c, NEW r \in told(c) PROVE ValuePoint(r) \in kept
      <3>1. /\ r \in sent /\ r.points /\ r.payment \notin Estimated /\ InRange(r.at, req.window)
            /\ r.stage = "capture" /\ r.outcome = "success" /\ FlowOf[r.payment] = f.name.id
        BY DEF Told, Inside
      <3> QED BY <2>2, <2>3, <2>4, <2>5, <3>1
    <2> QED BY <2>6, <2>7
  <1>4. ASSUME NEW c, NEW r \in told(c)
        PROVE  /\ ValuePoint(r).n = r /\ ValuePoint(r).value = AmountOf[r.payment]
               /\ GroupKey(ValuePoint(r).labels, by) = [k \in by |-> c]
    <2>1. ValuePoint(r).labels = Labels(r) /\ ValuePoint(r).n = r /\ ValuePoint(r).value = AmountOf[r.payment] BY DEF ValuePoint
    <2>2. CurrencyOf[r.payment] = c BY DEF Told
    <2>3. GroupKey(Labels(r), {"currency"}) = [k \in {"currency"} |-> CurrencyOf[r.payment]] BY CaptureLabels
    <2> QED BY <2>1, <2>2, <2>3
  <1>5. ASSUME NEW c PROVE SumFunction([p \in added([k \in by |-> c]) |-> p.value]) = AmountsOf(told(c)) /\ AmountsOf(told(c)) \in Nat
    <2> DEFINE S == told(c)
               T == added([k \in by |-> c])
               h == [r \in S |-> ValuePoint(r)]
               v == [p \in T |-> p.value]
    <2>1. metric \notin GaugeFamilies BY DEF GaugeFamilies
    <2>2. \A p : p \in T <=> p \in kept /\ GroupKey(p.labels, by) = [k \in by |-> c]
      BY <2>1 DEF Added, Reduced, Kept, InRange
    <2>3. \A p : p \in T <=> \E r \in S : p = ValuePoint(r)
      <3>1. ASSUME NEW p \in T PROVE \E r \in S : p = ValuePoint(r)
        <4>1. p \in kept /\ GroupKey(p.labels, by) = [k \in by |-> c] BY <2>2
        <4>2. PICK d : \E r \in told(d) : p = ValuePoint(r) BY <1>3, <4>1
        <4>3. PICK r \in told(d) : p = ValuePoint(r) BY <4>2
        <4>4. [k \in by |-> d] = [k \in by |-> c] BY <1>4, <4>1, <4>3
        <4>5. "currency" \in by OBVIOUS
        <4>6. c = d
          <5> HIDE DEF by
          <5> QED BY <4>4, <4>5
        <4> QED BY <4>3, <4>6
      <3>2. ASSUME NEW r \in S PROVE ValuePoint(r) \in T
        <4>1. ValuePoint(r) \in kept BY <1>3
        <4> HIDE DEF T, kept, by
        <4> QED BY <1>4, <2>2, <4>1
      <3> HIDE DEF S, T
      <3> QED BY <3>1, <3>2
    <2>4. S \subseteq sent BY DEF Told
    <2>5. \A x \in S : ValuePoint(x).n = x /\ ValuePoint(x).value = AmountOf[x.payment] BY <1>4
    <2> HIDE DEF S, T
    <2>6. h \in [S -> T] /\ (\A x, y \in S : h[x] = h[y] => x = y) /\ (\A t \in T : \E x \in S : h[x] = t)
      BY <2>3, <2>5
    <2>7. \A x \in S : v[h[x]] = AmountOf[x.payment] BY <2>3, <2>5
    <2>8. [p \in T |-> v[p]] = [p \in T |-> p.value] OBVIOUS
    <2> HIDE DEF h, v
    <2>9. SumFunction([p \in T |-> v[p]]) = AmountsOf(S) /\ AmountsOf(S) \in Nat BY <2>4, <2>6, <2>7, ToldSum
    <2> QED BY <2>8, <2>9 DEF S, T
  <1> DEFINE cur == [s \in rows |-> s.labels["currency"]]
             minor == [s \in rows |-> LevelOf(s)]
             tel == Totals(rows, LAMBDA s : s.labels["currency"], LevelOf)
  <1>6. \A s \in rows : \E c : s.labels = [k \in by |-> c] /\ cur[s] = c /\ told(c) # {}
    <2> SUFFICES ASSUME NEW s \in rows PROVE \E c : s.labels = [k \in by |-> c] /\ cur[s] = c /\ told(c) # {} OBVIOUS
    <2>1. PICK p \in kept : s.labels = GroupKey(p.labels, by) BY <1>2 DEF AnswersMetric
    <2>2. PICK c : \E r \in told(c) : p = ValuePoint(r)
      <3> HIDE DEF kept, told
      <3> QED BY <1>3, <2>1
    <2>3. PICK r \in told(c) : p = ValuePoint(r) BY <2>2
    <2>5. GroupKey(ValuePoint(r).labels, by) = [k \in by |-> c] BY <1>4
    <2>6. s.labels = [k \in by |-> c] /\ told(c) # {}
      <3> HIDE DEF told, by
      <3> QED BY <2>1, <2>3, <2>5
    <2>7. cur[s] = c BY <2>6
    <2> QED BY <2>6, <2>7
  <1>7. \A s \in rows : minor[s] = AmountsOf(told(cur[s])) /\ minor[s] \in Nat
    <2> SUFFICES ASSUME NEW s \in rows PROVE minor[s] = AmountsOf(told(cur[s])) /\ minor[s] \in Nat OBVIOUS
    <2>1. PICK c : s.labels = [k \in by |-> c] /\ cur[s] = c BY <1>6
    <2>2. LevelOf(s) = SumFunction([p \in added(s.labels) |-> p.value]) BY <1>2 DEF AnswersMetric
    <2>3. LevelOf(s) = AmountsOf(told(c)) /\ AmountsOf(told(c)) \in Nat BY <1>5, <2>1, <2>2
    <2>4. minor[s] = LevelOf(s) OBVIOUS
    <2> HIDE DEF cur, minor, told
    <2> QED BY <2>1, <2>3, <2>4
  <1>8. \A q, s \in rows : cur[q] = cur[s] => q = s
    <2> SUFFICES ASSUME NEW q \in rows, NEW s \in rows, cur[q] = cur[s] PROVE q = s OBVIOUS
    <2>1. q.labels = s.labels
      <3>1. PICK c : q.labels = [k \in by |-> c] /\ cur[q] = c BY <1>6
      <3>2. PICK d : s.labels = [k \in by |-> d] /\ cur[s] = d BY <1>6
      <3>3. c = d
        <4> HIDE DEF cur
        <4> QED BY <3>1, <3>2
      <3> QED BY <3>1, <3>2, <3>3
    <2> QED BY <1>2, <2>1 DEF AnswersMetric
  <1>9. \A c : told(c) # {} => \E s \in rows : cur[s] = c
    <2> SUFFICES ASSUME NEW c, told(c) # {} PROVE \E s \in rows : cur[s] = c OBVIOUS
    <2>1. PICK r \in told(c) : TRUE OBVIOUS
    <2>2. ValuePoint(r) \in kept BY <1>3
    <2>3. PICK s \in rows : s.labels = GroupKey(ValuePoint(r).labels, by) BY <1>2, <2>2 DEF AnswersMetric
    <2>4. s.labels = [k \in by |-> c]
      <3>1. GroupKey(ValuePoint(r).labels, by) = [k \in by |-> c] BY <1>4, <2>1
      <3> QED BY <2>3, <3>1
    <2> QED BY <2>3, <2>4
  <1>10. TelemetrySuccessValue(store, f, req.window) = {tel} BY <1>1, <1>2 DEF TelemetrySuccessValue
  <1>11. tel = PerCurrency(rows, cur, minor)
    <2>1. {cur[s] : s \in rows} = {s.labels["currency"] : s \in rows} OBVIOUS
    <2>2. \A c : {x \in rows : cur[x] = c} = {x \in rows : x.labels["currency"] = c} OBVIOUS
    <2>3. \A c : [s \in {x \in rows : cur[x] = c} |-> minor[s]] = [s \in {x \in rows : x.labels["currency"] = c} |-> LevelOf(s)]
      BY <2>2
    <2> HIDE DEF cur, minor
    <2> QED BY <2>1, <2>3 DEF Totals, PerCurrency
  <1>12. \A c : Money(tel, c) = AmountsOf(told(c))
    <2> HIDE DEF cur, minor, tel, told
    <2>1. \A s \in rows : minor[s] \in Int BY <1>7
    <2>2. /\ \A s \in rows : Money(tel, cur[s]) = minor[s]
          /\ \A c : (\A s \in rows : cur[s] # c) => Money(tel, c) = 0
      BY <1>8, <1>11, <2>1, OneRowEach
    <2> SUFFICES ASSUME NEW c PROVE Money(tel, c) = AmountsOf(told(c)) OBVIOUS
    <2>3. CASE \E s \in rows : cur[s] = c BY <1>7, <2>2, <2>3
    <2>4. CASE \A s \in rows : cur[s] # c
      <3>1. told(c) = {} BY <1>9, <2>4
      <3>2. AmountsOf({}) = 0
        <4>1. DOMAIN [r \in {} |-> AmountOf[r.payment]] = {} OBVIOUS
        <4> QED BY <4>1, NothingAdded DEF AmountsOf
      <3> QED BY <2>2, <2>4, <3>1, <3>2
    <2> QED BY <2>3, <2>4
  <1> QED BY <1>10, <1>12

\* What the events have of them.
LEMMA EventTold ==
    ASSUME StoredInv, MoneyInv, NEW req \in Requests, NEW f, ValueStage(f).id = "capture"
    PROVE  \E tel : /\ TelemetrySuccessValue(Store(FALSE, TRUE, {}), f, req.window) = {tel}
                    /\ \A c : Money(tel, c) = AmountsOf(Told(req, FALSE, f.name.id, c))
  <1> DEFINE store == Store(FALSE, TRUE, {})
             F == SuccessFilters(f)
             by == {"currency"}
             told(c) == Told(req, FALSE, f.name.id, c)
             asked == EventsAsked(store, F, req.window)
             keyed(k) == EventsKeyed(store, F, req.window, by, k)
  <1>1. store.caps.events /\ ~ store.caps.metrics /\ store.down = {} /\ store.events = Healthy.events
    <2>1. FALSE \in BOOLEAN /\ ~ FALSE = TRUE OBVIOUS
    <2> QED BY <2>1, PartFacts
  <1>2. PICK rows : /\ QueryEvents(store, [filters |-> F, groupBy |-> by, range |-> req.window, agg |-> "groups"]) = {rows}
                    /\ AnswersEvents(rows, store, F, by, req.window, "groups")
    <2>1. IsFiniteSet(store.events)
      <3> DEFINE h == [r \in {x \in sent : x.event} |-> EventOf(r)]
      <3>1. DOMAIN h = {x \in sent : x.event} /\ {h[r] : r \in {x \in sent : x.event}} = store.events BY <1>1, HealthyFacts
      <3>2. IsFiniteSet({x \in sent : x.event}) BY FS_Subset DEF StoredInv
      <3> HIDE DEF h, store
      <3> QED BY <3>1, <3>2, FiniteImage
    <2>2. "currency" \in by OBVIOUS
    <2> HIDE DEF store, F, by
    <2> QED BY <1>1, <2>1, <2>2, EventAnswer
  <1>3. \A e : e \in asked <=> \E c : \E r \in told(c) : e = EventOf(r)
    <2>1. \A e : e \in asked <=> e \in Healthy.events /\ MatchFilters(e.labels, F) /\ InRange(e.at, req.window)
      <3> HIDE DEF store, F
      <3> QED BY <1>1 DEF EventsAsked
    <2>2. \A r : EventOf(r).at = r.at BY DEF EventOf
    <2>3. \A r : MatchFilters(EventOf(r).labels, F)
                   <=> r.stage = "capture" /\ r.outcome = "success" /\ FlowOf[r.payment] = f.name.id
      BY CaptureLabels
    <2>4. \A e : e \in Healthy.events <=> \E r \in sent : e = EventOf(r) /\ r.event BY HealthyFacts
    <2> HIDE DEF asked, F
    <2>5. ASSUME NEW e \in asked PROVE \E c : \E r \in told(c) : e = EventOf(r)
      <3>1. PICK r \in sent : e = EventOf(r) /\ r.event BY <2>1, <2>4
      <3>2. r \in told(CurrencyOf[r.payment]) BY <2>1, <2>2, <2>3, <3>1 DEF Told, Inside
      <3> QED BY <3>1, <3>2
    <2>6. ASSUME NEW c, NEW r \in told(c) PROVE EventOf(r) \in asked
      <3>1. /\ r \in sent /\ r.event /\ InRange(r.at, req.window)
            /\ r.stage = "capture" /\ r.outcome = "success" /\ FlowOf[r.payment] = f.name.id
        BY DEF Told, Inside
      <3> QED BY <2>1, <2>2, <2>3, <2>4, <3>1
    <2> QED BY <2>5, <2>6
  <1>4. ASSUME NEW c, NEW r \in told(c)
        PROVE  /\ EventOf(r).n = r /\ EventOf(r).amount = AmountOf[r.payment]
               /\ GroupKey(EventOf(r).labels, by) = [k \in by |-> c]
    <2>1. EventOf(r).n = r /\ EventOf(r).amount = AmountOf[r.payment] BY DEF EventOf
    <2>2. CurrencyOf[r.payment] = c BY DEF Told
    <2>3. GroupKey(EventOf(r).labels, {"currency"}) = [k \in {"currency"} |-> CurrencyOf[r.payment]] BY CaptureLabels
    <2> QED BY <2>1, <2>2, <2>3
  <1>5. ASSUME NEW c PROVE SumFunction([e \in keyed([k \in by |-> c]) |-> e.amount]) = AmountsOf(told(c)) /\ AmountsOf(told(c)) \in Nat
    <2> DEFINE S == told(c)
               T == keyed([k \in by |-> c])
               h == [r \in S |-> EventOf(r)]
               v == [e \in T |-> e.amount]
    <2>1. \A e : e \in T <=> e \in asked /\ GroupKey(e.labels, by) = [k \in by |-> c] BY DEF EventsKeyed
    <2>2. \A e : e \in T <=> \E r \in S : e = EventOf(r)
      <3>1. ASSUME NEW e \in T PROVE \E r \in S : e = EventOf(r)
        <4>1. e \in asked /\ GroupKey(e.labels, by) = [k \in by |-> c] BY <2>1
        <4>2. PICK d : \E r \in told(d) : e = EventOf(r) BY <1>3, <4>1
        <4>3. PICK r \in told(d) : e = EventOf(r) BY <4>2
        <4>4. [k \in by |-> d] = [k \in by |-> c] BY <1>4, <4>1, <4>3
        <4>5. "currency" \in by OBVIOUS
        <4>6. c = d
          <5> HIDE DEF by
          <5> QED BY <4>4, <4>5
        <4> QED BY <4>3, <4>6
      <3>2. ASSUME NEW r \in S PROVE EventOf(r) \in T
        <4>1. EventOf(r) \in asked BY <1>3
        <4> HIDE DEF T, asked, by
        <4> QED BY <1>4, <2>1, <4>1
      <3> HIDE DEF S, T
      <3> QED BY <3>1, <3>2
    <2>3. S \subseteq sent BY DEF Told
    <2>4. \A x \in S : EventOf(x).n = x /\ EventOf(x).amount = AmountOf[x.payment] BY <1>4
    <2> HIDE DEF S, T
    <2>5. h \in [S -> T] /\ (\A x, y \in S : h[x] = h[y] => x = y) /\ (\A t \in T : \E x \in S : h[x] = t)
      BY <2>2, <2>4
    <2>6. \A x \in S : v[h[x]] = AmountOf[x.payment] BY <2>2, <2>4
    <2>7. [e \in T |-> v[e]] = [e \in T |-> e.amount] OBVIOUS
    <2> HIDE DEF h, v
    <2>8. SumFunction([e \in T |-> v[e]]) = AmountsOf(S) /\ AmountsOf(S) \in Nat BY <2>3, <2>5, <2>6, ToldSum
    <2> QED BY <2>7, <2>8 DEF S, T
  <1> DEFINE cur == [g \in rows |-> g.key["currency"]]
             minor == [g \in rows |-> g.sum]
             tel == Totals(rows, LAMBDA g : g.key["currency"], LAMBDA g : g.sum)
  <1>6. \A g \in rows : \E c : g.key = [k \in by |-> c] /\ cur[g] = c /\ told(c) # {}
    <2> SUFFICES ASSUME NEW g \in rows PROVE \E c : g.key = [k \in by |-> c] /\ cur[g] = c /\ told(c) # {} OBVIOUS
    <2>1. PICK e \in asked : g.key = GroupKey(e.labels, by) BY <1>2 DEF AnswersEvents
    <2>2. PICK c : \E r \in told(c) : e = EventOf(r)
      <3> HIDE DEF asked, told
      <3> QED BY <1>3, <2>1
    <2>3. PICK r \in told(c) : e = EventOf(r) BY <2>2
    <2>4. GroupKey(EventOf(r).labels, by) = [k \in by |-> c] BY <1>4
    <2>5. g.key = [k \in by |-> c] /\ told(c) # {}
      <3> HIDE DEF told, by
      <3> QED BY <2>1, <2>3, <2>4
    <2>6. cur[g] = c BY <2>5
    <2> QED BY <2>5, <2>6
  <1>7. \A g \in rows : minor[g] = AmountsOf(told(cur[g])) /\ minor[g] \in Nat
    <2> SUFFICES ASSUME NEW g \in rows PROVE minor[g] = AmountsOf(told(cur[g])) /\ minor[g] \in Nat OBVIOUS
    <2>1. PICK c : g.key = [k \in by |-> c] /\ cur[g] = c BY <1>6
    <2>2. g.sum = SumFunction([e \in keyed(g.key) |-> e.amount]) BY <1>2 DEF AnswersEvents
    <2>3. g.sum = AmountsOf(told(c)) /\ AmountsOf(told(c)) \in Nat BY <1>5, <2>1, <2>2
    <2>4. minor[g] = g.sum OBVIOUS
    <2> HIDE DEF cur, minor, told
    <2> QED BY <2>1, <2>3, <2>4
  <1>8. \A g, q \in rows : cur[g] = cur[q] => g = q
    <2> SUFFICES ASSUME NEW g \in rows, NEW q \in rows, cur[g] = cur[q] PROVE g = q OBVIOUS
    <2>1. g.key = q.key
      <3>1. PICK c : g.key = [k \in by |-> c] /\ cur[g] = c BY <1>6
      <3>2. PICK d : q.key = [k \in by |-> d] /\ cur[q] = d BY <1>6
      <3>3. c = d
        <4> HIDE DEF cur
        <4> QED BY <3>1, <3>2
      <3> QED BY <3>1, <3>2, <3>3
    <2> QED BY <1>2, <2>1 DEF AnswersEvents
  <1>9. \A c : told(c) # {} => \E g \in rows : cur[g] = c
    <2> SUFFICES ASSUME NEW c, told(c) # {} PROVE \E g \in rows : cur[g] = c OBVIOUS
    <2>1. PICK r \in told(c) : TRUE OBVIOUS
    <2>2. EventOf(r) \in asked BY <1>3
    <2>3. PICK g \in rows : g.key = GroupKey(EventOf(r).labels, by) BY <1>2, <2>2 DEF AnswersEvents
    <2>4. g.key = [k \in by |-> c]
      <3>1. GroupKey(EventOf(r).labels, by) = [k \in by |-> c] BY <1>4, <2>1
      <3> QED BY <2>3, <3>1
    <2> QED BY <2>3, <2>4
  <1>10. TelemetrySuccessValue(store, f, req.window) = {tel} BY <1>1, <1>2 DEF TelemetrySuccessValue
  <1>11. tel = PerCurrency(rows, cur, minor)
    <2>1. {cur[g] : g \in rows} = {g.key["currency"] : g \in rows} OBVIOUS
    <2>2. \A c : {x \in rows : cur[x] = c} = {x \in rows : x.key["currency"] = c} OBVIOUS
    <2>3. \A c : [g \in {x \in rows : cur[x] = c} |-> minor[g]] = [g \in {x \in rows : x.key["currency"] = c} |-> g.sum]
      BY <2>2
    <2> HIDE DEF cur, minor
    <2> QED BY <2>1, <2>3 DEF Totals, PerCurrency
  <1>12. \A c : Money(tel, c) = AmountsOf(told(c))
    <2> HIDE DEF cur, minor, tel, told
    <2>1. \A g \in rows : minor[g] \in Int BY <1>7
    <2>2. /\ \A g \in rows : Money(tel, cur[g]) = minor[g]
          /\ \A c : (\A g \in rows : cur[g] # c) => Money(tel, c) = 0
      BY <1>8, <1>11, <2>1, OneRowEach
    <2> SUFFICES ASSUME NEW c PROVE Money(tel, c) = AmountsOf(told(c)) OBVIOUS
    <2>3. CASE \E g \in rows : cur[g] = c BY <1>7, <2>2, <2>3
    <2>4. CASE \A g \in rows : cur[g] # c
      <3>1. told(c) = {} BY <1>9, <2>4
      <3>2. AmountsOf({}) = 0
        <4>1. DOMAIN [r \in {} |-> AmountOf[r.payment]] = {} OBVIOUS
        <4> QED BY <4>1, NothingAdded DEF AmountsOf
      <3> QED BY <2>2, <2>4, <3>1, <3>2
    <2> QED BY <2>3, <2>4
  <1> QED BY <1>10, <1>12

LEMMA Telemetry ==
    ASSUME StoredInv, MoneyInv, NEW req \in Requests, NEW f, ValueStage(f).id = "capture", NEW metrics \in BOOLEAN
    PROVE  \E tel : /\ TelemetrySuccessValue(Store(metrics, ~ metrics, {}), f, req.window) = {tel}
                    /\ \A c : Money(tel, c) = AmountsOf(Told(req, metrics, f.name.id, c))
  <1>1. CASE metrics = TRUE
    <2>1. ~ metrics = FALSE BY <1>1
    <2> QED BY <1>1, <2>1, MetricTold
  <1>2. CASE metrics = FALSE
    <2>1. ~ metrics = TRUE BY <1>2
    <2> QED BY <1>2, <2>1, EventTold
  <1> QED BY <1>1, <1>2

-----------------------------------------------------------------------------
(* The worst ratio *)

\* The captures of a flow and currency.
Caught(id, c) ==
    {r \in sent : /\ r.stage = "capture" /\ r.outcome = "success"
                  /\ FlowOf[r.payment] = id /\ CurrencyOf[r.payment] = c}

\* Books walked after the window, with no capture of the request outside it or
\* recorded twice.
BooksClosed(req) ==
    /\ walk.phase = "done" /\ walk.began >= req.window.to
    /\ \A r \in Captured(req) : Inside(r, req) /\ r.process = 1

\* The books of a flow of the request have its captures, each once.
LEMMA BookedIsCaught ==
    ASSUME ListInv, WalkInv, StoredInv, MoneyInv, CaptureInv,
           NEW req \in Requests, BooksClosed(req), NEW id, Names(req, id), NEW c
    PROVE  /\ Booked(id, c) = AmountsOf(Caught(id, c))
           /\ Books(id, c) = {} <=> Caught(id, c) = {}
  <1> DEFINE S == Caught(id, c)
             T == Books(id, c)
             h == [r \in S |-> CHOOSE i \in DOMAIN walk.read : walk.read[i].payment = r.payment]
             v == [i \in T |-> AmountOf[walk.read[i].payment]]
  <1>1. \A i, j \in DOMAIN walk.read : walk.read[i].payment = walk.read[j].payment => i = j
    <2> DEFINE f == [i \in DOMAIN walk.read |-> walk.read[i].payment]
    <2>1. Distinct(f) BY WalkCounts DEF WalkCountsOnce, BooksClosed
    <2>2. DOMAIN f = DOMAIN walk.read /\ \A i \in DOMAIN walk.read : f[i] = walk.read[i].payment OBVIOUS
    <2> HIDE DEF f
    <2> QED BY <2>1, <2>2 DEF Distinct
  <1>2. walk.listed = {walk.read[i].payment : i \in DOMAIN walk.read} BY WalkCounts DEF WalkCountsOnce, BooksClosed
  <1>3. ASSUME NEW r \in S
        PROVE  r \in sent /\ IsCapture(r) /\ \E i \in T : walk.read[i].payment = r.payment
    <2>1. /\ r \in sent /\ r.stage = "capture" /\ r.outcome = "success"
          /\ FlowOf[r.payment] = id /\ CurrencyOf[r.payment] = c
      BY DEF Caught
    <2>2. r \in Captured(req) BY <2>1 DEF Captured
    <2>3. r.process = 1 /\ r.at < req.window.to /\ req.window.to <= walk.began BY <2>2 DEF BooksClosed, Inside, InRange
    <2>4. IsCapture(r) BY <2>1, <2>3 DEF IsCapture
    <2>5. r.at < walk.began
      <3>1. r.at \in Nat /\ walk.began \in Nat /\ req.window.to \in Nat
        BY <2>1, MoneyPathAssumption DEF CaptureInv, BooksInv, CaughtInv
      <3> QED BY <2>3, <3>1
    <2>6. r.payment \in walk.listed BY <2>1, <2>4, <2>5 DEF CaptureInv, CaughtInv, BooksClosed
    <2>7. PICK i \in DOMAIN walk.read : walk.read[i].payment = r.payment BY <1>2, <2>6
    <2>8. walk.read[i].as = {"success"} BY <2>1, <2>4, <2>5, <2>7 DEF CaptureInv, CaughtInv
    <2>9. i \in T BY <2>1, <2>7, <2>8 DEF Books
    <2> QED BY <2>1, <2>4, <2>7, <2>9
  <1>4. ASSUME NEW i \in T
        PROVE  i \in DOMAIN walk.read /\ \E r \in S : r.payment = walk.read[i].payment
    <2>1. /\ i \in DOMAIN walk.read /\ walk.read[i].as = {"success"}
          /\ FlowOf[walk.read[i].payment] = id /\ CurrencyOf[walk.read[i].payment] = c
      BY DEF Books
    <2>2. walk.read[i].payment \in Payments
      <3>1. walk.read[i] \in Reading BY <2>1, ElementsOf DEF WalkInv
      <3> QED BY <3>1 DEF Reading
    <2>3. intents[walk.read[i].payment].status = "succeeded" BY <2>1 DEF CaptureInv, CaughtInv
    <2>4. PICK r \in sent : IsCapture(r) /\ r.payment = walk.read[i].payment BY <2>2, <2>3 DEF CaptureInv, BooksInv
    <2>5. r \in S BY <2>1, <2>4 DEF Caught, IsCapture
    <2> QED BY <2>1, <2>4, <2>5
  <1>5. S \subseteq sent BY DEF Caught
  <1>6. T \subseteq DOMAIN walk.read BY DEF Books
  <1>7. SumFunction([i \in T |-> AmountOf[walk.read[i].payment]]) = Booked(id, c) BY DEF Booked
  <1> HIDE DEF S, T
  <1>8. \A r \in S : h[r] \in T /\ walk.read[h[r]].payment = r.payment
    <2> SUFFICES ASSUME NEW r \in S PROVE h[r] \in T /\ walk.read[h[r]].payment = r.payment OBVIOUS
    <2>1. PICK i \in T : walk.read[i].payment = r.payment BY <1>3
    <2>2. h[r] \in DOMAIN walk.read /\ walk.read[h[r]].payment = r.payment BY <1>6, <2>1
    <2>3. h[r] = i BY <1>1, <1>6, <2>1, <2>2
    <2> QED BY <2>1, <2>3
  <1>9. h \in [S -> T] BY <1>8
  <1> HIDE DEF h
  <1>10. \A x, y \in S : h[x] = h[y] => x = y
    <2> SUFFICES ASSUME NEW x \in S, NEW y \in S, h[x] = h[y] PROVE x = y OBVIOUS
    <2>1. x.payment = y.payment BY <1>8
    <2> QED BY <1>3, <2>1 DEF IsCapture, CaptureInv, RepeatInv
  <1>11. \A t \in T : \E x \in S : h[x] = t
    <2> SUFFICES ASSUME NEW t \in T PROVE \E x \in S : h[x] = t OBVIOUS
    <2>1. PICK r \in S : r.payment = walk.read[t].payment BY <1>4
    <2>2. h[r] = t BY <1>1, <1>6, <1>8, <2>1
    <2> QED BY <2>2
  <1>12. \A x \in S : v[h[x]] = AmountOf[x.payment] BY <1>8
  <1>13. [t \in T |-> v[t]] = [i \in T |-> AmountOf[walk.read[i].payment]] OBVIOUS
  <1> HIDE DEF v
  <1>14. SumFunction([t \in T |-> v[t]]) = AmountsOf(S) BY <1>5, <1>9, <1>10, <1>11, <1>12, ToldSum
  <1> QED BY <1>3, <1>4, <1>7, <1>13, <1>14 DEF S, T

\* More records, more money.
LEMMA MoreRecords ==
    ASSUME StoredInv, MoneyInv, NEW S, S \subseteq sent, NEW T, T \subseteq S
    PROVE  /\ AmountsOf(S) \in Nat /\ AmountsOf(T) \in Nat /\ AmountsOf(T) <= AmountsOf(S)
           /\ AmountsOf(T) = AmountsOf(S) <=> T = S
  <1> DEFINE f == [r \in sent |-> AmountOf[r.payment]]
             D == S \ T
  <1>1. \A r \in sent : AmountOf[r.payment] \in Nat /\ AmountOf[r.payment] > 0 BY MoneyPathAssumption DEF MoneyInv
  <1>2. IsFiniteSet(sent) /\ f \in [sent -> Nat] BY <1>1 DEF StoredInv
  <1>3. \A A \in SUBSET sent : AmountsOf(A) = SumOver(A, f)
    <2> SUFFICES ASSUME NEW A \in SUBSET sent PROVE AmountsOf(A) = SumOver(A, f) OBVIOUS
    <2>1. [r \in A |-> AmountOf[r.payment]] = [r \in A |-> f[r]] OBVIOUS
    <2> HIDE DEF f
    <2> QED BY <2>1 DEF AmountsOf, SumOver
  <1>4. \A r \in sent : f[r] > 0 /\ f[r] \in Nat BY <1>1
  <1>5. S \in SUBSET sent /\ T \in SUBSET sent /\ D \in SUBSET sent /\ T \cap D = {} /\ T \cup D = S OBVIOUS
  <1> HIDE DEF f, D
  <1>6. SumOver(S, f) = SumOver(T, f) + SumOver(D, f)
    <2>1. SumOver(T \cup D, f) = SumOver(T, f) + SumOver(D, f) BY <1>2, <1>5, SumUnion
    <2> QED BY <1>5, <2>1
  <1>7. SumOver(S, f) \in Nat /\ SumOver(T, f) \in Nat /\ SumOver(D, f) \in Nat BY <1>2, <1>5, SumStep
  <1>8. ASSUME D # {} PROVE SumOver(D, f) > 0
    <2>1. PICK x \in D : TRUE BY <1>8
    <2>2. SumOver(D, f) = f[x] + SumOver(D \ {x}, f) BY <1>2, <1>5, <2>1, SumStep
    <2>3. D \ {x} \in SUBSET sent BY <1>5
    <2>4. SumOver(D \ {x}, f) \in Nat BY <1>2, <2>3, SumStep
    <2>5. f[x] > 0 /\ f[x] \in Nat BY <1>4, <1>5, <2>1
    <2> QED BY <2>2, <2>4, <2>5
  <1>9. ASSUME D = {} PROVE SumOver(D, f) = 0 BY <1>2, <1>5, <1>9, SumStep
  <1>10. D = {} <=> T = S BY <1>5 DEF D
  <1>11. AmountsOf(S) = SumOver(S, f) /\ AmountsOf(T) = SumOver(T, f) BY <1>3, <1>5
  <1> QED BY <1>6, <1>7, <1>8, <1>9, <1>10, <1>11

\* A row's sum.
LEMMA OneRowSum ==
    ASSUME NEW x, x.amount \in Int
    PROVE  MapThenSumSet(LAMBDA r : r.amount, {x}) = x.amount
  <1>1. MapThenSumSet(LAMBDA r : r.amount, {x}) = SumFunction([r \in {x} |-> r.amount]) BY FS_Singleton, RowsSum
  <1>2. PICK n \in Int : n = x.amount OBVIOUS
  <1>3. [r \in {x} |-> r.amount] = [r \in {x} |-> n] BY <1>2
  <1>4. SumFunction([r \in {x} |-> n]) = n BY SumOne
  <1> QED BY <1>1, <1>2, <1>3, <1>4

\* The rows of the successes of a flow, and what they are compared on.
SuccessRows(id) == {r \in Ledger : r.outcome = "success" /\ r.flow = id}

SliceOf(req, metrics, id, c) ==
    [flow |-> id, currency |-> c, tel |-> AmountsOf(Told(req, metrics, id, c)), led |-> AmountsOf(Caught(id, c))]

\* The slices of a flow, one for each currency its rows have.
FlowSlices(req, metrics, id) == {SliceOf(req, metrics, id, c) : c \in {r.currency : r \in SuccessRows(id)}}

BookedFlows(req) ==
    LET booked == {r.flow : r \in {x \in Ledger : x.outcome = "success"}}
    IN  IF req.flows = <<>> THEN booked ELSE ToSet(req.flows) \cap booked

Missing(metrics, r) == IF metrics THEN ~ r.points \/ r.payment \in Estimated ELSE ~ r.event

\* A flow's slices are of the currencies the ledger has a success in.
LEMMA SlicesOf ==
    ASSUME ListInv, WalkInv, StoredInv, MoneyInv, CaptureInv,
           NEW req \in Requests, BooksClosed(req), NEW metrics \in BOOLEAN,
           NEW f, ValueStage(f).id = "capture", Names(req, f.name.id)
    PROVE  Slices(Store(metrics, ~ metrics, {}), f, req.window, SuccessRows(f.name.id))
             = {FlowSlices(req, metrics, f.name.id)}
  <1> DEFINE id == f.name.id
             success == SuccessRows(id)
             rows(c) == {r \in success : r.currency = c}
             led(c)  == MapThenSumSet(LAMBDA r : r.amount, rows(c))
             slice(tel, c) == [flow |-> id, currency |-> c, tel |-> Money(tel, c), led |-> led(c)]
             curs == {r.currency : r \in success}
  <1>1. PICK tel : /\ TelemetrySuccessValue(Store(metrics, ~ metrics, {}), f, req.window) = {tel}
                   /\ \A c : Money(tel, c) = AmountsOf(Told(req, metrics, id, c))
    BY Telemetry
  <1>2. ASSUME NEW c \in curs PROVE led(c) = AmountsOf(Caught(id, c)) /\ led(c) > 0
    <2>1. PICK r \in success : r.currency = c OBVIOUS
    <2>2. r \in Ledger /\ r.outcome = "success" /\ r.flow = id BY <2>1 DEF SuccessRows
    <2>3. rows(c) = {r}
      <3>1. \A q \in success : q.currency = c => q = r BY <2>1, <2>2, LedgerRows DEF SuccessRows
      <3> QED BY <2>1, <3>1
    <2>4. Books(id, c) # {} /\ r.amount = Booked(id, c) BY <2>1, <2>2, LedgerRows
    <2>5. Booked(id, c) = AmountsOf(Caught(id, c)) /\ Caught(id, c) # {} BY <2>4, BookedIsCaught
    <2>6. Caught(id, c) \subseteq sent BY DEF Caught
    <2>7. AmountsOf(Caught(id, c)) \in Nat /\ AmountsOf(Caught(id, c)) > 0
      <3> DEFINE S == Caught(id, c)
      <3> HIDE DEF S
      <3>1. S \subseteq sent /\ S # {} BY <2>5, <2>6 DEF S
      <3>2. {} \subseteq S OBVIOUS
      <3>3. /\ AmountsOf(S) \in Nat /\ AmountsOf({}) \in Nat /\ AmountsOf({}) <= AmountsOf(S)
            /\ AmountsOf({}) = AmountsOf(S) <=> {} = S
        BY <3>1, <3>2, MoreRecords
      <3>4. AmountsOf(S) \in Nat /\ AmountsOf(S) > 0 BY <3>1, <3>3
      <3> QED BY <3>4 DEF S
    <2>8. r.amount \in Int BY <2>4, <2>5, <2>7
    <2>9. MapThenSumSet(LAMBDA x : x.amount, {r}) = r.amount BY <2>8, OneRowSum
    <2>10. led(c) = r.amount BY <2>3, <2>9
    <2> QED BY <2>4, <2>5, <2>7, <2>10
  <1>3. Slices(Store(metrics, ~ metrics, {}), f, req.window, success)
          = {{slice(t, c) : c \in {x \in curs : led(x) > 0}} : t \in {tel}}
    BY <1>1 DEF Slices
  <1>4. {x \in curs : led(x) > 0} = curs BY <1>2
  <1>5. \A c \in curs : slice(tel, c) = SliceOf(req, metrics, id, c) BY <1>1, <1>2 DEF SliceOf
  <1> HIDE DEF slice, curs, led, success, id
  <1>6. {slice(tel, c) : c \in curs} = {SliceOf(req, metrics, id, c) : c \in curs} BY <1>5
  <1>7. {{slice(t, c) : c \in {x \in curs : led(x) > 0}} : t \in {tel}} = {{slice(tel, c) : c \in curs}} BY <1>4
  <1> QED BY <1>3, <1>6, <1>7 DEF curs, success, id, FlowSlices

\* The request's flows in the ledger and their currencies are its captures'.
LEMMA BookedAreCaptured ==
    ASSUME ListInv, WalkInv, StoredInv, MoneyInv, CaptureInv,
           NEW req \in Requests, BooksClosed(req)
    PROVE  /\ \A id \in BookedFlows(req) : Names(req, id) /\ \E p \in Payments : id = FlowOf[p]
           /\ \A id \in BookedFlows(req) : \A c : c \in {r.currency : r \in SuccessRows(id)} =>
                \E r \in Captured(req) : FlowOf[r.payment] = id /\ CurrencyOf[r.payment] = c
           /\ \A r \in Captured(req) : /\ FlowOf[r.payment] \in BookedFlows(req)
                                       /\ CurrencyOf[r.payment] \in {x.currency : x \in SuccessRows(FlowOf[r.payment])}
  <1>1. \A id \in BookedFlows(req) : Names(req, id) BY DEF BookedFlows, Names
  <1>2. ASSUME NEW id \in BookedFlows(req), NEW r \in SuccessRows(id)
        PROVE  \E q \in Captured(req) : FlowOf[q.payment] = id /\ CurrencyOf[q.payment] = r.currency
    <2>1. r \in Ledger /\ r.outcome = "success" /\ r.flow = id BY DEF SuccessRows
    <2>2. Books(id, r.currency) # {} BY <2>1, LedgerRows
    <2>3. Caught(id, r.currency) # {} BY <1>1, <2>2, BookedIsCaught
    <2>4. PICK q \in sent : /\ q.stage = "capture" /\ q.outcome = "success"
                            /\ FlowOf[q.payment] = id /\ CurrencyOf[q.payment] = r.currency
      BY <2>3 DEF Caught
    <2>5. q \in Captured(req) BY <1>1, <2>4 DEF Captured
    <2> QED BY <2>4, <2>5
  <1>3. ASSUME NEW id \in BookedFlows(req) PROVE \E p \in Payments : id = FlowOf[p]
    <2>1. PICK r \in Ledger : r.outcome = "success" /\ r.flow = id BY DEF BookedFlows
    <2>2. r \in SuccessRows(id) BY <2>1 DEF SuccessRows
    <2>3. PICK q \in Captured(req) : FlowOf[q.payment] = id BY <1>2, <2>2
    <2>4. q \in sent BY DEF Captured
    <2>5. q.payment \in Payments BY <2>4 DEF MoneyInv
    <2> QED BY <2>3, <2>5
  <1>4. ASSUME NEW r \in Captured(req)
        PROVE  /\ FlowOf[r.payment] \in BookedFlows(req)
               /\ CurrencyOf[r.payment] \in {x.currency : x \in SuccessRows(FlowOf[r.payment])}
    <2> DEFINE id == FlowOf[r.payment]
               c == CurrencyOf[r.payment]
    <2>1. r \in Caught(id, c) /\ Names(req, id) BY DEF Captured, Caught
    <2> HIDE DEF id, c
    <2>2. Books(id, c) # {} BY <2>1, BookedIsCaught
    <2>3. PICK x \in Ledger : x.outcome = "success" /\ x.flow = id /\ x.currency = c BY <2>2, LedgerRows
    <2>4. id \in BookedFlows(req) BY <2>1, <2>3 DEF BookedFlows, Names
    <2>5. x \in SuccessRows(id) BY <2>3 DEF SuccessRows
    <2>6. c \in {y.currency : y \in SuccessRows(id)} BY <2>3, <2>5
    <2> QED BY <2>4, <2>6 DEF id, c
  <1> QED BY <1>1, <1>2, <1>3, <1>4

\* A slice is below one exactly when telemetry misses a capture of it.
LEMMA SliceFacts ==
    ASSUME ListInv, WalkInv, StoredInv, MoneyInv, CaptureInv,
           NEW req \in Requests, BooksClosed(req), NEW metrics \in BOOLEAN, NEW r \in Captured(req)
    PROVE  LET id == FlowOf[r.payment]
               c  == CurrencyOf[r.payment]
               s  == SliceOf(req, metrics, id, c)
           IN  /\ Ratio(s) \in Ratios
               /\ Ratio(s).num < Ratio(s).den <=> \E q \in Caught(id, c) : Missing(metrics, q)
               /\ r \in Caught(id, c) /\ Caught(id, c) \subseteq Captured(req)
  <1> DEFINE id == FlowOf[r.payment]
             c == CurrencyOf[r.payment]
             s == SliceOf(req, metrics, id, c)
             S == Caught(id, c)
             T == Told(req, metrics, id, c)
  <1>1. r \in S /\ Names(req, id) BY DEF Captured, Caught
  <1>2. s.tel = AmountsOf(T) /\ s.led = AmountsOf(S) BY DEF SliceOf
  <1> HIDE DEF id, c, s
  <1>3. S \subseteq sent /\ S \subseteq Captured(req) BY <1>1 DEF Caught, Captured, id
  <1>4. \A q \in S : Inside(q, req) BY <1>3 DEF BooksClosed
  <1>5. T \subseteq S /\ (T # S <=> \E q \in S : Missing(metrics, q)) BY <1>4 DEF Told, Caught, Missing
  <1> HIDE DEF S, T
  <1>6. /\ AmountsOf(S) \in Nat /\ AmountsOf(T) \in Nat /\ AmountsOf(T) <= AmountsOf(S)
        /\ AmountsOf(T) = AmountsOf(S) <=> T = S
    BY <1>3, <1>5, MoreRecords
  <1>7. AmountsOf(S) # 0
    <2>1. {} \subseteq S /\ S # {} BY <1>1
    <2>2. AmountsOf({}) \in Nat /\ AmountsOf({}) <= AmountsOf(S) /\ (AmountsOf({}) = AmountsOf(S) <=> {} = S)
      BY <1>3, <2>1, MoreRecords
    <2> QED BY <1>6, <2>1, <2>2
  <1>8. Ratio(s).num = Min({s.tel, s.led}) /\ Ratio(s).den = s.led
        /\ Ratio(s) = [num |-> Min({s.tel, s.led}), den |-> s.led]
    BY DEF Ratio
  <1>9. Min({s.tel, s.led}) = s.tel
    <2> DEFINE t == s.tel
               l == s.led
    <2>1. t \in Nat /\ l \in Nat /\ t <= l BY <1>2, <1>6
    <2> HIDE DEF t, l
    <2>2. Min({t, l}) = t BY <2>1, MinOfTwo
    <2> QED BY <2>2 DEF t, l
  <1>10. Ratio(s) \in Ratios
    <2>1. Ratio(s) = [num |-> AmountsOf(T), den |-> AmountsOf(S)] BY <1>2, <1>8, <1>9
    <2> QED BY <1>6, <1>7, <2>1 DEF Ratios
  <1>11. Ratio(s).num < Ratio(s).den <=> T # S BY <1>2, <1>6, <1>8, <1>9
  <1> QED BY <1>1, <1>3, <1>5, <1>10, <1>11 DEF S, id, c, s

\* The slices of a report are those of its captures.
SlicesOfCaptures(req, metrics) ==
    {SliceOf(req, metrics, FlowOf[r.payment], CurrencyOf[r.payment]) : r \in Captured(req)}

LEMMA CoverageIs ==
    ASSUME ListInv, WalkInv, StoredInv, MoneyInv, CaptureInv,
           NEW req \in Requests, BooksClosed(req), NEW metrics \in BOOLEAN, NEW reg \in Registries
    PROVE  LET slices == SlicesOfCaptures(req, metrics)
               ratios == {Ratio(s) : s \in slices}
           IN  Reconciled(Store(metrics, ~ metrics, {}), reg, req, Ledger)
                 = IF slices = {} THEN {[unavailable |-> TRUE]}
                   ELSE {[unavailable |-> FALSE, slices |-> slices,
                          ratio |-> CHOOSE r \in ratios : \A o \in ratios : Lower2(r, o)]}
  <1> DEFINE store == Store(metrics, ~ metrics, {})
             success == {r \in Ledger : r.outcome = "success"}
             booked == {r.flow : r \in success}
             flows == IF req.flows = <<>> THEN booked ELSE ToSet(req.flows) \cap booked
             of(id) == {r \in success : r.flow = id}
             curs(id) == {r.currency : r \in SuccessRows(id)}
             one(id) == FlowSlices(req, metrics, id)
             answer(id) == UNION {Slices(store, f, req.window, of(id)) : f \in FlowById(reg, id)}
             answers == [id \in flows |-> answer(id)]
             slices == UNION {UNION answers[id] : id \in flows}
             ratios == {Ratio(s) : s \in slices}
  <1>1. flows = BookedFlows(req) BY DEF BookedFlows
  <1>2. \A id : of(id) = SuccessRows(id) BY DEF SuccessRows
  <1>3. \A id \in flows : Names(req, id) /\ \E p \in Payments : id = FlowOf[p] BY <1>1, BookedAreCaptured
  <1>4. Reconciled(store, reg, req, Ledger) = Coverage(store, reg, req, Ledger) BY LedgerRows DEF Reconciled
  <1>5. Coverage(store, reg, req, Ledger)
          = IF \E id \in flows : answers[id] = None THEN None
            ELSE IF slices = {} THEN {[unavailable |-> TRUE]}
            ELSE {[unavailable |-> FALSE, slices |-> slices,
                   ratio |-> CHOOSE r \in ratios : \A o \in ratios : Lower2(r, o)]}
    BY DEF Coverage
  <1> HIDE DEF of, curs, flows, store
  <1>6. ASSUME NEW id \in flows PROVE answer(id) = {one(id)}
    <2>1. PICK p \in Payments : id = FlowOf[p] BY <1>3
    <2>2. FlowById(reg, id) # {} /\ \A f \in FlowById(reg, id) : ValueStage(f).id = "capture"
      BY <2>1, FlowsAssumption
    <2>3. ASSUME NEW f \in FlowById(reg, id) PROVE Slices(store, f, req.window, of(id)) = {one(id)}
      <3>1. f.name.id = id BY DEF FlowById
      <3>2. Names(req, f.name.id) BY <1>3, <3>1
      <3>3. Slices(Store(metrics, ~ metrics, {}), f, req.window, SuccessRows(f.name.id))
              = {FlowSlices(req, metrics, f.name.id)}
        BY <2>2, <3>2, SlicesOf
      <3> QED BY <1>2, <3>1, <3>3 DEF store
    <2>4. {Slices(store, f, req.window, of(id)) : f \in FlowById(reg, id)} = {{one(id)}} BY <2>2, <2>3
    <2> HIDE DEF one
    <2>5. UNION {{one(id)}} = {one(id)} OBVIOUS
    <2> QED BY <2>4, <2>5
  <1> HIDE DEF answer
  <1>7. \A id \in flows : answers[id] = {one(id)} BY <1>6
  <1>8. ~ \E id \in flows : answers[id] = None
    <2> HIDE DEF answers, one
    <2> QED BY <1>7 DEF None
  <1>9. slices = SlicesOfCaptures(req, metrics)
    <2>1. \A id \in flows : UNION answers[id] = one(id)
      <3> HIDE DEF answers, one
      <3> QED BY <1>7
    <2>2. \A s : s \in slices <=> \E id \in flows : \E c \in curs(id) : s = SliceOf(req, metrics, id, c)
      <3>1. \A s : s \in slices <=> \E id \in flows : s \in UNION answers[id] OBVIOUS
      <3>2. \A id, s : s \in one(id) <=> \E c \in curs(id) : s = SliceOf(req, metrics, id, c) BY DEF FlowSlices, curs
      <3> DEFINE all(id) == UNION answers[id]
      <3>3. \A s : s \in slices <=> \E id \in flows : s \in all(id) BY <3>1
      <3>4. \A id \in flows : all(id) = one(id) BY <2>1
      <3> HIDE DEF slices, answers, one, all
      <3>5. \A s : s \in slices <=> \E id \in flows : s \in one(id) BY <3>3, <3>4
      <3> QED BY <3>2, <3>5
    <2>3. \A id \in flows : \A c \in curs(id) :
            \E r \in Captured(req) : FlowOf[r.payment] = id /\ CurrencyOf[r.payment] = c
      BY <1>1, BookedAreCaptured DEF curs
    <2>4. \A r \in Captured(req) : FlowOf[r.payment] \in flows /\ CurrencyOf[r.payment] \in curs(FlowOf[r.payment])
      BY <1>1, BookedAreCaptured DEF curs
    <2> HIDE DEF slices
    <2>5. ASSUME NEW s \in slices PROVE s \in SlicesOfCaptures(req, metrics)
      <3>1. PICK id \in flows : \E c \in curs(id) : s = SliceOf(req, metrics, id, c) BY <2>2
      <3>2. PICK c \in curs(id) : s = SliceOf(req, metrics, id, c) BY <3>1
      <3>3. PICK r \in Captured(req) : FlowOf[r.payment] = id /\ CurrencyOf[r.payment] = c BY <2>3
      <3>4. s = SliceOf(req, metrics, FlowOf[r.payment], CurrencyOf[r.payment]) BY <3>2, <3>3
      <3> QED BY <3>4 DEF SlicesOfCaptures
    <2>6. ASSUME NEW s \in SlicesOfCaptures(req, metrics) PROVE s \in slices
      <3>1. PICK r \in Captured(req) : s = SliceOf(req, metrics, FlowOf[r.payment], CurrencyOf[r.payment])
        BY DEF SlicesOfCaptures
      <3> QED BY <2>2, <2>4, <3>1
    <2> QED BY <2>5, <2>6
  <1>10. ratios = {Ratio(s) : s \in SlicesOfCaptures(req, metrics)} BY <1>9
  <1> HIDE DEF slices, ratios, answers
  <1> QED BY <1>4, <1>5, <1>8, <1>9, <1>10 DEF store

LEMMA CoverageHolds == ListInv /\ WalkInv /\ StoredInv /\ MoneyInv /\ CaptureInv => LossLowersCoverage
  <1> SUFFICES ASSUME ListInv, WalkInv, StoredInv, MoneyInv, CaptureInv, walk.phase = "done",
                      NEW req \in Over, NEW reg \in Registries, NEW metrics \in BOOLEAN,
                      walk.began >= req.window.to, \A r \in Captured(req) : Inside(r, req) /\ r.process = 1
               PROVE  LET missing(r) == IF metrics THEN ~ r.points \/ r.payment \in Estimated ELSE ~ r.event
                          leg == Reconciled(Store(metrics, ~ metrics, {}), reg, req, Ledger)
                      IN  /\ leg # None
                          /\ \A l \in leg :
                               IF l.unavailable THEN Captured(req) = {}
                               ELSE (l.ratio.num < l.ratio.den) <=> (\E r \in Captured(req) : missing(r))
    BY DEF LossLowersCoverage
  <1> DEFINE leg == Reconciled(Store(metrics, ~ metrics, {}), reg, req, Ledger)
             slices == SlicesOfCaptures(req, metrics)
             ratios == {Ratio(s) : s \in slices}
             worst == CHOOSE r \in ratios : \A o \in ratios : Lower2(r, o)
  <1>1. req \in Requests /\ BooksClosed(req) BY DEF Over, BooksClosed
  <1>2. leg = IF slices = {} THEN {[unavailable |-> TRUE]}
              ELSE {[unavailable |-> FALSE, slices |-> slices, ratio |-> worst]}
    BY <1>1, CoverageIs
  <1>3. slices = {} <=> Captured(req) = {} BY DEF SlicesOfCaptures
  <1>4. ASSUME slices # {}
        PROVE  worst.num < worst.den <=> \E r \in Captured(req) : Missing(metrics, r)
    <2> DEFINE ratio(r) == Ratio(SliceOf(req, metrics, FlowOf[r.payment], CurrencyOf[r.payment]))
    <2>1. \A x : x \in ratios <=> \E r \in Captured(req) : x = ratio(r) BY DEF SlicesOfCaptures
    <2>2. \A r \in Captured(req) :
            /\ ratio(r) \in Ratios
            /\ ratio(r).num < ratio(r).den
                 <=> \E q \in Caught(FlowOf[r.payment], CurrencyOf[r.payment]) : Missing(metrics, q)
            /\ r \in Caught(FlowOf[r.payment], CurrencyOf[r.payment])
            /\ Caught(FlowOf[r.payment], CurrencyOf[r.payment]) \subseteq Captured(req)
      BY <1>1, SliceFacts
    <2>3. IsFiniteSet(ratios)
      <3>1. IsFiniteSet(Captured(req)) BY FS_Subset DEF Captured, StoredInv
      <3>2. ratios = {ratio(r) : r \in Captured(req)}
        <4> HIDE DEF ratios, ratio
        <4> QED BY <2>1
      <3> DEFINE C == Captured(req)
                 h == [r \in C |-> ratio(r)]
      <3>3. h \in [C -> ratios] /\ \A x \in ratios : \E r \in C : h[r] = x BY <3>2
      <3> HIDE DEF ratios, h, C
      <3>4. h \in Surjection(C, ratios) BY <3>3 DEF Surjection
      <3> QED BY <3>1, <3>4, FS_Surjection DEF C
    <2>4. ratios # {} BY <1>4
    <2> HIDE DEF ratios, ratio
    <2>5. ratios \subseteq Ratios BY <2>1, <2>2
    <2>6. \E r \in ratios : \A o \in ratios : Lower2(r, o) BY <2>3, <2>4, <2>5, WorstRatio
    <2>7. worst \in ratios /\ \A o \in ratios : Lower2(worst, o) BY <2>6
    <2> HIDE DEF worst
    <2>8. worst.num < worst.den <=> \E o \in ratios : o.num < o.den BY <2>5, <2>7, WorstBelowOne
    <2>9. (\E o \in ratios : o.num < o.den) <=> \E r \in Captured(req) : Missing(metrics, r) BY <2>1, <2>2
    <2> QED BY <2>8, <2>9
  <1> HIDE DEF leg, slices, worst
  <1>5. leg # None BY <1>2 DEF None
  <1>6. ASSUME NEW l \in leg
        PROVE  IF l.unavailable THEN Captured(req) = {}
               ELSE (l.ratio.num < l.ratio.den) <=> (\E r \in Captured(req) : Missing(metrics, r))
    <2>1. CASE slices = {} BY <1>2, <1>3, <1>6, <2>1
    <2>2. CASE slices # {}
      <3>1. l = [unavailable |-> FALSE, slices |-> slices, ratio |-> worst] BY <1>2, <1>6, <2>2
      <3>2. l.unavailable = FALSE /\ l.ratio = worst BY <3>1
      <3> QED BY <1>4, <2>2, <3>2
    <2> QED BY <2>1, <2>2
  <1> QED BY <1>5, <1>6 DEF leg, Missing

\* The ratio falls below one exactly when telemetry misses a capture
\* (LossLowersCoverage), whatever the payments, the walk and the losses.
THEOREM LossAlwaysLowersCoverage == Spec => []LossLowersCoverage
  <1>1. Init => ListInv /\ WalkInv /\ StoredInv /\ MoneyInv /\ CaptureInv
    <2> SUFFICES ASSUME Init PROVE ListInv /\ WalkInv /\ StoredInv /\ MoneyInv /\ CaptureInv OBVIOUS
    <2>1. intents \in [Payments -> Intent] BY DEF Init, Intent
    <2>2. created = <<>> /\ created \in Seq(Payments) /\ DOMAIN created = {} BY DEF Init
    <2>3. walk.phase = "idle" /\ walk.read = <<>> /\ walk.cursor = NoOne BY DEF Init
    <2>4. walk.read \in Seq(Reading) BY <2>3
    <2>5. ListInv /\ WalkInv BY <2>1, <2>2, <2>3, <2>4 DEF ListInv, WalkInv
    <2>6. StoredInv /\ MoneyInv BY FS_EmptySet DEF Init, StoredInv, MoneyInv
    <2> QED BY <2>5, <2>6, CaptureInit
  <1> QED BY <1>1, WalkStep, StoredStep, MoneyStep, CaptureStep, CoverageHolds, PTL DEF Spec
=============================================================================
