------------------------- MODULE PropagationProofs -------------------------
(***************************************************************************)
(* Proofs about ValuePropagation: what no host outside the allowlist may   *)
(* see, what every later hop must see, and the one value a message has,    *)
(* for every registry, hook, header, message and number of hops.           *)
(***************************************************************************)
EXTENDS ValuePropagation, FiniteSetTheorems, WellFoundedInduction, TLAPS

-----------------------------------------------------------------------------
(* Operators *)

\* A nonempty set of naturals has a least element.
LEMMA LeastOf ==
    ASSUME NEW T, T \subseteq Nat, T # {}
    PROVE  \E x \in T : \A y \in T : x <= y
<1>1. PICK x \in T : \A y \in T : ~ (<<y, x>> \in OpToRel(<, Nat))
  BY NatLessThanWellFounded, WFMin
<1>2. \A y \in T : y \in Nat
  OBVIOUS
<1>3. ASSUME NEW y \in T PROVE x <= y
  <2>1. x \in Nat /\ y \in Nat
    BY <1>2
  <2>2. ~ (y < x)
    BY <1>1, <2>1 DEF OpToRel
  <2> QED
    BY <2>1, <2>2
<1> QED
  BY <1>3

\* A nonempty set of positions has a last one.
LEMMA LastOf ==
    ASSUME NEW n \in Nat, NEW R, R \subseteq 1 .. n, R # {}
    PROVE  \E i \in R : \A j \in R : j <= i
<1> DEFINE T == {n - i : i \in R}
<1>1. T \subseteq Nat /\ T # {}
  <2>1. \A i \in R : i \in 1 .. n
    OBVIOUS
  <2>2. \A i \in R : n - i \in Nat
    BY <2>1
  <2> QED
    BY <2>2
<1>2. PICK x \in T : \A y \in T : x <= y
  BY <1>1, LeastOf
<1>3. PICK i \in R : x = n - i
  BY <1>2
<1>4. ASSUME NEW j \in R PROVE j <= i
  <2>1. n - j \in T
    OBVIOUS
  <2>2. i \in 1 .. n /\ j \in 1 .. n /\ n - i <= n - j
    BY <1>2, <1>3, <2>1
  <2> QED
    BY <2>2
<1> QED
  BY <1>3, <1>4

\* A nonempty set of positions has a first one.
LEMMA FirstOf ==
    ASSUME NEW n \in Nat, NEW R, R \subseteq 1 .. n, R # {}
    PROVE  \E i \in R : \A j \in R : i <= j
<1>1. R \subseteq Nat
  OBVIOUS
<1> QED
  BY <1>1, LeastOf

\* What two sequences hold together.
LEMMA ConcatElements ==
    ASSUME NEW S, NEW s \in Seq(S), NEW t \in Seq(S)
    PROVE  s \o t \in Seq(S) /\ ToSet(s \o t) = ToSet(s) \cup ToSet(t)
<1> DEFINE u == s \o t
<1>1. /\ u \in Seq(S) /\ Len(s) \in Nat /\ Len(t) \in Nat /\ Len(u) = Len(s) + Len(t)
      /\ \A i \in 1 .. Len(s) : u[i] = s[i]
      /\ \A i \in 1 .. Len(t) : u[Len(s) + i] = t[i]
      /\ DOMAIN s = 1 .. Len(s) /\ DOMAIN t = 1 .. Len(t) /\ DOMAIN u = 1 .. Len(u)
  OBVIOUS
<1> HIDE DEF u
<1>2. ASSUME NEW i \in DOMAIN u PROVE u[i] \in ToSet(s) \cup ToSet(t)
  <2>1. CASE i <= Len(s)
    BY <1>1, <2>1 DEF ToSet
  <2>2. CASE i > Len(s)
    <3>1. i - Len(s) \in 1 .. Len(t) /\ i = Len(s) + (i - Len(s))
      BY <1>1, <2>2
    <3> QED
      BY <1>1, <3>1 DEF ToSet
  <2> QED
    BY <1>1, <2>1, <2>2
<1>3. ASSUME NEW i \in DOMAIN s PROVE s[i] \in ToSet(u)
  BY <1>1 DEF ToSet
<1>4. ASSUME NEW i \in DOMAIN t PROVE t[i] \in ToSet(u)
  <2>1. Len(s) + i \in DOMAIN u
    BY <1>1
  <2> QED
    BY <1>1, <2>1 DEF ToSet
<1>5. ToSet(u) = ToSet(s) \cup ToSet(t)
  BY <1>2, <1>3, <1>4 DEF ToSet
<1> QED
  BY <1>1, <1>5 DEF u

\* Flattening a sequence of sequences keeps exactly their elements.
LEMMA FlattenFacts ==
    ASSUME NEW S, NEW ss \in Seq(Seq(S))
    PROVE  /\ FlattenSeq(ss) \in Seq(S)
           /\ ToSet(FlattenSeq(ss)) = UNION {ToSet(ss[i]) : i \in DOMAIN ss}
<1> DEFINE N == Len(ss)
           Joins(f, n) == f = [i \in 1 .. n |-> IF i = 1 THEN ss[i] ELSE f[i - 1] \o ss[i]]
<1>1. N \in Nat /\ DOMAIN ss = 1 .. N /\ \A i \in 1 .. N : ss[i] \in Seq(S)
  OBVIOUS
<1>2. \E f : Joins(f, N)
  <2> DEFINE T == {n \in Nat : n <= N /\ ~ \E f : Joins(f, n)}
  <2> SUFFICES ASSUME ~ \E f : Joins(f, N) PROVE FALSE
    OBVIOUS
  <2>0. N \in T /\ T \subseteq Nat
    <3> HIDE DEF Joins, N
    <3> QED
      BY <1>1
  <2>1. PICK n \in T : \A m \in T : n <= m
    BY <2>0, LeastOf
  <2>2. CASE n = 0
    <3> DEFINE e == [i \in 1 .. 0 |-> <<>>]
    <3>1. Joins(e, 0)
      OBVIOUS
    <3> QED
      BY <2>1, <2>2, <3>1
  <2>3. CASE n # 0
    <3>1. n - 1 \in Nat /\ n - 1 <= N /\ ~ (n <= n - 1)
      BY <1>1, <2>1, <2>3
    <3>2. PICK f : Joins(f, n - 1)
      BY <2>1, <3>1
    <3> DEFINE g == [i \in 1 .. n |-> IF i = 1 THEN ss[i] ELSE f[i - 1] \o ss[i]]
    <3>3. ASSUME NEW i \in 1 .. n - 1 PROVE g[i] = f[i]
      <4>1. f[i] = IF i = 1 THEN ss[i] ELSE f[i - 1] \o ss[i]
        BY <3>2
      <4>2. i \in 1 .. n
        BY <3>1
      <4>3. g[i] = IF i = 1 THEN ss[i] ELSE f[i - 1] \o ss[i]
        BY <4>2
      <4> QED
        BY <4>1, <4>3
    <3>4. \A i \in 1 .. n : i # 1 => i - 1 \in 1 .. n - 1
      BY <3>1
    <3>5. \A i \in 1 .. n : i # 1 => g[i - 1] = f[i - 1]
      BY <3>3, <3>4
    <3>6. Joins(g, n)
      BY <3>5
    <3> QED
      BY <2>1, <3>6
  <2> QED
    BY <2>2, <2>3
<1>3. ASSUME NEW f, Joins(f, N), NEW n \in 1 .. N
      PROVE  f[n] \in Seq(S) /\ ToSet(f[n]) = UNION {ToSet(ss[i]) : i \in 1 .. n}
  <2> DEFINE Good(i) == f[i] \in Seq(S) /\ ToSet(f[i]) = UNION {ToSet(ss[j]) : j \in 1 .. i}
             T == {i \in 1 .. N : ~ Good(i)}
  <2> SUFFICES ASSUME n \in T PROVE FALSE
    OBVIOUS
  <2>1. T \subseteq Nat
    BY <1>1
  <2>2. PICK k \in T : \A m \in T : k <= m
    BY <2>1, LeastOf
  <2>3. k \in 1 .. N /\ ss[k] \in Seq(S)
    BY <1>1, <2>2
  <2>4. CASE k = 1
    <3>1. f[1] = ss[1]
      BY <1>3, <2>3, <2>4
    <3>2. 1 .. 1 = {1}
      OBVIOUS
    <3>3. UNION {ToSet(ss[j]) : j \in 1 .. 1} = ToSet(ss[1])
      BY <3>2
    <3> QED
      BY <2>2, <2>3, <2>4, <3>1, <3>3
  <2>5. CASE k # 1
    <3>1. k - 1 \in 1 .. N /\ ~ (k <= k - 1)
      BY <1>1, <2>3, <2>5
    <3>2. Good(k - 1)
      BY <2>2, <3>1
    <3>3. f[k] = f[k - 1] \o ss[k]
      BY <1>3, <2>3, <2>5
    <3>4. f[k] \in Seq(S) /\ ToSet(f[k]) = ToSet(f[k - 1]) \cup ToSet(ss[k])
      BY <2>3, <3>2, <3>3, ConcatElements
    <3>5. 1 .. k = (1 .. k - 1) \cup {k}
      BY <1>1, <2>3
    <3>6. UNION {ToSet(ss[j]) : j \in 1 .. k} = (UNION {ToSet(ss[j]) : j \in 1 .. k - 1}) \cup ToSet(ss[k])
      BY <3>5
    <3> QED
      BY <2>2, <3>2, <3>4, <3>6
  <2> QED
    BY <2>4, <2>5
<1>4. CASE N = 0
  <2>1. FlattenSeq(ss) = <<>> /\ ss = <<>>
    BY <1>4 DEF FlattenSeq
  <2> QED
    BY <2>1 DEF ToSet
<1>5. CASE N # 0
  <2> DEFINE f == CHOOSE h : Joins(h, N)
  <2>1. Joins(f, N)
    BY <1>2
  <2>2. FlattenSeq(ss) = f[N]
    BY <1>5 DEF FlattenSeq
  <2>3. N \in 1 .. N
    BY <1>1, <1>5
  <2> HIDE DEF f
  <2>4. f[N] \in Seq(S) /\ ToSet(f[N]) = UNION {ToSet(ss[i]) : i \in 1 .. N}
    BY <1>3, <2>1, <2>3
  <2> QED
    BY <1>1, <2>2, <2>4
<1> QED
  BY <1>4, <1>5

\* What a function makes of a finite set.
LEMMA ImageFinite ==
    ASSUME NEW S, IsFiniteSet(S), NEW f, DOMAIN f = S
    PROVE  IsFiniteSet({f[x] : x \in S}) /\ Cardinality({f[x] : x \in S}) <= Cardinality(S)
<1> DEFINE T == {f[x] : x \in S}
           g == [x \in S |-> f[x]]
<1>1. g \in Surjection(S, T)
  BY DEF Surjection
<1> HIDE DEF T, g
<1>2. IsFiniteSet(T) /\ Cardinality(T) <= Cardinality(S)
  BY <1>1, FS_Surjection
<1> QED
  BY <1>2 DEF T

\* The elements of a sequence are finitely many.
LEMMA ElementsFinite ==
    ASSUME NEW S, NEW s \in Seq(S)
    PROVE  IsFiniteSet(ToSet(s))
<1>1. IsFiniteSet(1 .. Len(s)) /\ DOMAIN s = 1 .. Len(s)
  BY FS_Interval
<1> QED
  BY <1>1, ImageFinite DEF ToSet

\* SetToSeq orders the elements of a finite set.
LEMMA OrderedFacts ==
    ASSUME NEW S, IsFiniteSet(S)
    PROVE  SetToSeq(S) \in Seq(S) /\ ToSet(SetToSeq(S)) = S
<1> DEFINE n == Cardinality(S)
           f == SetToSeq(S)
<1>1. n \in Nat /\ ExistsBijection(1 .. n, S)
  BY FS_CardinalityType
<1>2. \E g \in [1 .. n -> S] : IsInjective(g)
  BY <1>1 DEF ExistsBijection, Bijection, Injection
<1>3. f \in [1 .. n -> S] /\ IsInjective(f)
  BY <1>2 DEF SetToSeq
<1>4. IsFiniteSet(1 .. n) /\ Cardinality(1 .. n) = n
  BY <1>1, FS_Interval
<1>5. f \in Injection(1 .. n, S)
  BY <1>3 DEF Injection
<1> HIDE DEF f
<1>6. f \in Surjection(1 .. n, S)
  BY <1>4, <1>5, FS_Injection
<1>7. f \in Seq(S)
  BY <1>1, <1>3
<1>8. ToSet(f) = S
  BY <1>3, <1>6 DEF ToSet, Surjection
<1> QED
  BY <1>7, <1>8 DEF f

-----------------------------------------------------------------------------
(* Lines and bags *)

IsLines(lines) == lines \in Seq(Seq(ItemsIn(lines)))

\* What the baggage parser reads.
Readable(lines) == {x \in ItemsIn(lines) : x.ok}

\* A bag has finitely many members, at most one per key.
IsBag(bag) ==
    /\ IsFiniteSet(bag)
    /\ \A m \in bag : m = [key |-> m.key, value |-> m.value]
    /\ \A m, n \in bag : m.key = n.key => m = n

Written(members) == {[key |-> m.key, value |-> m.value, ok |-> TRUE] : m \in members}

LEMMA LinesOver ==
    ASSUME NEW S, NEW lines \in Seq(Seq(S))
    PROVE  IsLines(lines) /\ ItemsIn(lines) \subseteq S
<1>1. \A i \in DOMAIN lines : lines[i] \in Seq(ItemsIn(lines))
  <2>1. ASSUME NEW i \in DOMAIN lines PROVE lines[i] \in Seq(ToSet(lines[i]))
    BY DEF ToSet
  <2>2. \A i \in DOMAIN lines : ToSet(lines[i]) \subseteq ItemsIn(lines)
    <3>1. \A i \in DOMAIN lines : lines[i] \in ToSet(lines)
      BY DEF ToSet
    <3> QED
      BY <3>1 DEF ItemsIn
  <2>3. ASSUME NEW i \in DOMAIN lines PROVE lines[i] \in Seq(ItemsIn(lines))
    BY <2>1, <2>2
  <2> QED
    BY <2>3
<1>2. IsLines(lines)
  BY <1>1 DEF IsLines
<1>3. \A i \in DOMAIN lines : ToSet(lines[i]) \subseteq S
  BY DEF ToSet
<1>4. ItemsIn(lines) \subseteq S
  BY <1>3 DEF ItemsIn, ToSet
<1> QED
  BY <1>2, <1>4

LEMMA FlattenLines ==
    ASSUME NEW lines, IsLines(lines)
    PROVE  FlattenSeq(lines) \in Seq(ItemsIn(lines)) /\ ToSet(FlattenSeq(lines)) = ItemsIn(lines)
<1>1. FlattenSeq(lines) \in Seq(ItemsIn(lines))
      /\ ToSet(FlattenSeq(lines)) = UNION {ToSet(lines[i]) : i \in DOMAIN lines}
  BY FlattenFacts DEF IsLines
<1>2. UNION {ToSet(lines[i]) : i \in DOMAIN lines} = ItemsIn(lines)
  <2>1. ToSet(lines) = {lines[i] : i \in DOMAIN lines}
    BY DEF ToSet
  <2>2. {ToSet(line) : line \in {lines[i] : i \in DOMAIN lines}} = {ToSet(lines[i]) : i \in DOMAIN lines}
    OBVIOUS
  <2> QED
    BY <2>1, <2>2 DEF ItemsIn
<1> QED
  BY <1>1, <1>2

\* The members recovered: one of the readable items for each of their keys.
LEMMA RecoverFacts ==
    ASSUME NEW lines, IsLines(lines)
    PROVE  /\ IsBag(RecoverMembers(lines))
           /\ \A m \in RecoverMembers(lines) :
                \E x \in Readable(lines) : m = [key |-> x.key, value |-> x.value]
           /\ \A x \in Readable(lines) : \E m \in RecoverMembers(lines) : m.key = x.key
<1> DEFINE items == FlattenSeq(lines)
           R(k) == {i \in DOMAIN items : items[i].ok /\ items[i].key = k}
           last(k) == CHOOSE i \in R(k) : \A j \in R(k) : j <= i
           K == {x.key : x \in {y \in ToSet(items) : y.ok}}
           val == [k \in K |-> items[last(k)].value]
           mem == [k \in K |-> [key |-> k, value |-> val[k]]]
           M == RecoverMembers(lines)
<1>1. items \in Seq(ItemsIn(lines)) /\ ToSet(items) = ItemsIn(lines)
  BY FlattenLines
<1>2. K = {x.key : x \in Readable(lines)}
  BY <1>1 DEF Readable
<1>3. M = {mem[k] : k \in K}
  <2>1. M = {[key |-> k, value |-> items[last(k)].value] : k \in K}
    BY DEF RecoverMembers
  <2>2. \A k \in K : mem[k] = [key |-> k, value |-> items[last(k)].value]
    OBVIOUS
  <2> HIDE DEF items, last, K, mem, M
  <2> QED
    BY <2>1, <2>2
<1>4. ASSUME NEW k \in K PROVE last(k) \in R(k)
  <2>1. R(k) # {} /\ R(k) \subseteq 1 .. Len(items) /\ Len(items) \in Nat
    BY <1>1 DEF ToSet
  <2>2. \E i \in R(k) : \A j \in R(k) : j <= i
    BY <2>1, LastOf
  <2> QED
    BY <2>2
<1>5. ASSUME NEW k \in K PROVE \E x \in Readable(lines) : x.key = k /\ x.value = val[k]
  <2> DEFINE i == last(k)
  <2>1. i \in DOMAIN items /\ items[i].ok /\ items[i].key = k
    BY <1>4
  <2>2. val[k] = items[i].value
    OBVIOUS
  <2> HIDE DEF i, val, items
  <2>3. items[i] \in Readable(lines)
    BY <1>1, <2>1 DEF Readable, ToSet
  <2> QED
    BY <2>1, <2>2, <2>3
<1> HIDE DEF items, last, K, M, val
<1>6. DOMAIN mem = K /\ \A k \in K : mem[k] = [key |-> k, value |-> val[k]]
  OBVIOUS
<1> HIDE DEF mem
<1>7. IsFiniteSet(M)
  <2>1. IsFiniteSet(Readable(lines))
    <3>1. IsFiniteSet(ItemsIn(lines))
      BY <1>1, ElementsFinite
    <3> QED
      BY <3>1, FS_Subset DEF Readable
  <2>2. IsFiniteSet(K)
    <3> DEFINE key == [x \in Readable(lines) |-> x.key]
    <3>1. K = {key[x] : x \in Readable(lines)}
      BY <1>2
    <3> QED
      BY <2>1, <3>1, ImageFinite
  <2> QED
    BY <1>3, <1>6, <2>2, ImageFinite
<1>8. ASSUME NEW m \in M PROVE m.key \in K /\ m = [key |-> m.key, value |-> val[m.key]]
  <2>1. PICK k \in K : m = mem[k]
    BY <1>3
  <2>2. m = [key |-> k, value |-> val[k]]
    BY <1>6, <2>1
  <2> QED
    BY <2>2
<1>9. \A k \in K : mem[k] \in M /\ mem[k].key = k
  BY <1>3, <1>6
<1>10. IsBag(M)
  <2>1. \A m \in M : m = [key |-> m.key, value |-> m.value]
    BY <1>8
  <2>2. \A m, n \in M : m.key = n.key => m = n
    BY <1>8
  <2> QED
    BY <1>7, <2>1, <2>2 DEF IsBag
<1>11. ASSUME NEW m \in M PROVE \E x \in Readable(lines) : m = [key |-> x.key, value |-> x.value]
  BY <1>5, <1>8
<1>12. ASSUME NEW x \in Readable(lines) PROVE \E m \in M : m.key = x.key
  BY <1>2, <1>9
<1> QED
  BY <1>10, <1>11, <1>12 DEF M

\* A bag written as one line.
LEMMA LineFacts ==
    ASSUME NEW M, IsFiniteSet(M)
    PROVE  IsLines(Line(M)) /\ ItemsIn(Line(M)) = Written(M)
<1> DEFINE w == [m \in M |-> [key |-> m.key, value |-> m.value, ok |-> TRUE]]
           line == SetToSeq(Written(M))
<1>1. Written(M) = {w[m] : m \in M}
  BY DEF Written
<1>2. IsFiniteSet(Written(M))
  <2>1. DOMAIN w = M
    OBVIOUS
  <2> HIDE DEF w
  <2> QED
    BY <1>1, <2>1, ImageFinite
<1>3. line \in Seq(Written(M)) /\ ToSet(line) = Written(M)
  BY <1>2, OrderedFacts
<1>4. Line(M) = <<line>>
  BY DEF Line, Written
<1> HIDE DEF line
<1>5. Line(M) \in Seq(Seq(Written(M))) /\ ToSet(Line(M)) = {line}
  BY <1>3, <1>4 DEF ToSet
<1>6. ItemsIn(Line(M)) = Written(M)
  BY <1>3, <1>5 DEF ItemsIn
<1> QED
  BY <1>5, <1>6 DEF IsLines

LEMMA WriteFacts ==
    ASSUME NEW M, IsFiniteSet(M)
    PROVE  /\ IsLines(WriteMembers(M))
           /\ ItemsIn(WriteMembers(M)) \subseteq Written(M)
           /\ Fits(M) => ItemsIn(WriteMembers(M)) = Written(M)
<1>1. CASE M = {} \/ ~ Fits(M)
  <2>1. WriteMembers(M) = <<>>
    BY <1>1 DEF WriteMembers
  <2>2. ItemsIn(<<>>) = {} /\ IsLines(<<>>)
    BY DEF ItemsIn, IsLines, ToSet
  <2>3. M = {} => Written(M) = {}
    BY DEF Written
  <2> QED
    BY <1>1, <2>1, <2>2, <2>3
<1>2. CASE M # {} /\ Fits(M)
  BY <1>2, LineFacts DEF WriteMembers
<1> QED
  BY <1>1, <1>2

\* Bags stay bags when a member is set or taken out.
LEMMA BagFacts ==
    ASSUME NEW bag, IsBag(bag), NEW k, NEW v
    PROVE  /\ IsBag(Without(bag, k)) /\ IsBag(SetMember(bag, k, v))
           /\ ValueOf(SetMember(bag, k, v), k) = {v}
<1>1. IsFiniteSet(Without(bag, k))
  BY FS_Subset DEF IsBag, Without
<1>2. IsBag(Without(bag, k))
  BY <1>1 DEF IsBag, Without
<1>3. IsFiniteSet(SetMember(bag, k, v))
  BY <1>1, FS_AddElement DEF SetMember
<1>4. \A m \in SetMember(bag, k, v) :
        m = [key |-> k, value |-> v] \/ (m \in bag /\ m.key # k)
  BY DEF SetMember, Without
<1>5. \A m \in SetMember(bag, k, v) : m = [key |-> m.key, value |-> m.value]
  BY <1>4 DEF IsBag
<1>6. \A m, n \in SetMember(bag, k, v) : m.key = n.key => m = n
  BY <1>4 DEF IsBag
<1>7. IsBag(SetMember(bag, k, v))
  BY <1>3, <1>5, <1>6 DEF IsBag
<1>8. [key |-> k, value |-> v] \in SetMember(bag, k, v)
  BY DEF SetMember
<1>9. ValueOf(SetMember(bag, k, v), k) = {v}
  BY <1>4, <1>8 DEF ValueOf
<1> QED
  BY <1>2, <1>7, <1>9

LEMMA NoMembers == IsBag({})
<1>1. IsFiniteSet({})
  BY FS_EmptySet
<1> QED
  BY <1>1 DEF IsBag

\* A value context has one wire form at most, and a wire form one reading.
LEMMA OneForm ==
    ASSUME NEW x
    PROVE  /\ EncodeVC(x) = {} \/ \E w : EncodeVC(x) = {w}
           /\ DecodeVC(x) = {} \/ \E vc : DecodeVC(x) = {vc}
  BY DEF EncodeVC, DecodeVC, None, Some

\* A message has one biz.vc after Set, the one that was set.
LEMMA KafkaFacts ==
    ASSUME NEW headers, headers \in Seq(ToSet(headers)), NEW key, NEW v
    PROVE  LET set == KafkaSet(headers, key, v) IN
           /\ set \in Seq(ToSet(set))
           /\ Get(set, key) = {v}
           /\ Cardinality(Holders(set, key)) <= 1
<1> DEFINE set == KafkaSet(headers, key, v)
           new == [key |-> key, value |-> v]
           U == ToSet(headers) \cup {new}
<1>1. headers \in Seq(U) /\ Len(headers) \in Nat /\ DOMAIN headers = 1 .. Len(headers)
  OBVIOUS
<1>2. ASSUME set \in Seq(U), NEW i \in DOMAIN set, set[i] = new,
             \A j \in DOMAIN set : j # i => set[j].key # key
      PROVE  /\ set \in Seq(ToSet(set))
             /\ Get(set, key) = {v}
             /\ Cardinality(Holders(set, key)) <= 1
  <2>1. Holders(set, key) = {i}
    BY <1>2 DEF Holders
  <2> HIDE DEF set
  <2>2. First(set, key) = i
    BY <1>2, <2>1 DEF First
  <2>3. Get(set, key) = {v}
    BY <1>2, <2>1, <2>2 DEF Get, Some
  <2>4. Cardinality(Holders(set, key)) = 1
    BY <2>1, FS_Singleton
  <2>5. set \in Seq(ToSet(set))
    BY <1>2 DEF ToSet
  <2> QED
    BY <2>3, <2>4, <2>5
<1>3. CASE Holders(headers, key) = {}
  <2>1. set = Append(headers, new)
    BY <1>3 DEF KafkaSet
  <2> HIDE DEF set
  <2>2. /\ set \in Seq(U) /\ Len(headers) + 1 \in DOMAIN set /\ set[Len(headers) + 1] = new
        /\ \A j \in DOMAIN set : j # Len(headers) + 1 => j \in DOMAIN headers /\ set[j] = headers[j]
    BY <1>1, <2>1
  <2>3. \A j \in DOMAIN headers : headers[j].key # key
    BY <1>3 DEF Holders
  <2> QED
    BY <1>2, <2>2, <2>3 DEF set
<1>4. CASE Holders(headers, key) # {}
  <2> DEFINE i == First(headers, key)
             before == SubSeq(headers, 1, i - 1)
             later == SubSeq(headers, i + 1, Len(headers))
             parts == [j \in DOMAIN later |-> IF later[j].key = key THEN <<>> ELSE <<later[j]>>]
             others == FlattenSeq(parts)
  <2>1. i \in Holders(headers, key) /\ \A j \in Holders(headers, key) : i <= j
    <3>1. Holders(headers, key) \subseteq 1 .. Len(headers)
      BY <1>1 DEF Holders
    <3>2. \E x \in Holders(headers, key) : \A j \in Holders(headers, key) : x <= j
      BY <1>1, <1>4, <3>1, FirstOf
    <3> QED
      BY <3>2 DEF First
  <2>2. i \in 1 .. Len(headers)
    BY <1>1, <2>1 DEF Holders
  <2>3. set = before \o <<new>> \o others
    BY <1>4 DEF KafkaSet
  <2> HIDE DEF i, set
  <2>4. /\ before \in Seq(U) /\ Len(before) = i - 1
        /\ \A j \in 1 .. i - 1 : before[j] = headers[j] /\ j \in DOMAIN headers
    BY <1>1, <2>2
  <2>5. \A j \in 1 .. i - 1 : before[j].key # key
    <3>1. \A j \in 1 .. i - 1 : ~ (i <= j)
      BY <2>2
    <3>2. \A j \in 1 .. i - 1 : j \notin Holders(headers, key)
      BY <2>1, <3>1
    <3> QED
      BY <2>4, <3>2 DEF Holders
  <2>6. later \in Seq(U)
    BY <1>1, <2>2
  <2> HIDE DEF before, later
  <2>7. parts \in Seq(Seq(U))
    <3>1. DOMAIN later = 1 .. Len(later) /\ Len(later) \in Nat /\ \A j \in DOMAIN later : later[j] \in U
      BY <2>6
    <3>2. ASSUME NEW j \in 1 .. Len(later) PROVE parts[j] \in Seq(U)
      <4>1. later[j] \in U
        BY <3>1
      <4> HIDE DEF U
      <4>2. <<>> \in Seq(U) /\ <<later[j]>> \in Seq(U)
        BY <4>1
      <4> QED
        BY <3>1, <4>2
    <3> QED
      BY <3>1, <3>2
  <2>8. others \in Seq(U) /\ ToSet(others) = UNION {ToSet(parts[j]) : j \in DOMAIN parts}
    BY <2>7, FlattenFacts
  <2>9. \A j \in DOMAIN parts : \A x \in ToSet(parts[j]) : x.key # key
    BY DEF ToSet
  <2>10. \A x \in ToSet(others) : x.key # key
    BY <2>8, <2>9
  <2> HIDE DEF others, parts, U, new
  <2>11. /\ set \in Seq(U) /\ Len(set) = i + Len(others) /\ Len(others) \in Nat
         /\ set[i] = new /\ i \in DOMAIN set
         /\ \A j \in 1 .. i - 1 : set[j] = before[j]
         /\ \A j \in 1 .. Len(others) : set[i + j] = others[j]
    <3>1. new \in U
      BY DEF U
    <3> DEFINE front == before \o <<new>>
    <3>2. /\ front \in Seq(U) /\ Len(front) = i /\ front[i] = new
          /\ \A j \in 1 .. i - 1 : front[j] = before[j]
      BY <2>2, <2>4, <3>1
    <3>3. set = front \o others
      BY <2>3
    <3> HIDE DEF front
    <3> QED
      BY <2>2, <2>8, <3>2, <3>3
  <2>12. ASSUME NEW j \in DOMAIN set, j # i PROVE set[j].key # key
    <3>1. j \in 1 .. i + Len(others) /\ DOMAIN others = 1 .. Len(others)
      BY <2>8, <2>11
    <3>2. CASE j < i
      BY <2>2, <2>5, <2>11, <3>1, <3>2
    <3>3. CASE j > i
      <4>1. j - i \in 1 .. Len(others) /\ j = i + (j - i)
        BY <2>2, <2>11, <3>1, <3>3
      <4>2. set[j] = others[j - i]
        BY <2>11, <4>1
      <4>3. set[j] \in ToSet(others)
        BY <3>1, <4>1, <4>2 DEF ToSet
      <4> QED
        BY <2>10, <4>3
    <3> QED
      BY <2>2, <2>12, <3>1, <3>2, <3>3
  <2> QED
    BY <1>2, <2>11, <2>12 DEF set, U, new
<1> QED
  BY <1>3, <1>4

-----------------------------------------------------------------------------
(* Hosts *)

\* A host that is allowed ends in the labels of a pattern, with one more at
\* least exactly when the pattern is a wildcard.
LEMMA AllowedHost ==
    ASSUME reg \in UNION {Parse(d) : d \in Documents}, NEW h \in Hosts, HostAllowed(reg, h)
    PROVE  \E p \in reg.hosts : LET cut == Len(h) - Len(p.labels) IN
             /\ SubSeq(Lower(h), cut + 1, Len(h)) = p.labels
             /\ IF p.wild THEN cut > 0 ELSE cut = 0
<1>1. \A p \in reg.hosts : p.labels \in Seq(ToSet(p.labels))
  <2>1. PICK d \in Documents : reg \in Parse(d)
    OBVIOUS
  <2>2. reg.hosts = ToSet(d.hosts)
    BY <2>1 DEF Parse, None, Some
  <2> QED
    BY <2>2, PropagationAssumption
<1> DEFINE low == Lower(h)
           U == {LowerLabel[l] : l \in DOMAIN LowerLabel}
<1>2. low \in Seq(U) /\ Len(low) = Len(h) /\ Len(h) \in Nat
  <2>1. h \in Seq(DOMAIN LowerLabel) /\ Len(h) \in Nat /\ DOMAIN h = 1 .. Len(h)
    BY PropagationAssumption
  <2>2. \A i \in 1 .. Len(h) : LowerLabel[h[i]] \in U
    BY <2>1
  <2>3. low = [i \in 1 .. Len(h) |-> LowerLabel[h[i]]]
    BY <2>1 DEF Lower
  <2> QED
    BY <2>1, <2>2, <2>3
<1>3. PICK p \in reg.hosts : Matches(low, p)
  BY DEF HostAllowed
<1> DEFINE n == Len(p.labels)
           cut == Len(h) - n
<1>4. p.labels \in Seq(ToSet(p.labels)) /\ n \in Nat
  BY <1>1
<1> HIDE DEF low, U
<1>5. CASE p.wild
  <2>1. IsSuffix(p.labels, low) /\ Len(low) > n
    BY <1>3, <1>5 DEF Matches
  <2> DEFINE a == Reverse(p.labels)
             b == Reverse(low)
  <2>2. /\ a \in Seq(ToSet(p.labels)) /\ Len(a) = n /\ \A i \in 1 .. n : a[i] = p.labels[n - i + 1]
        /\ b \in Seq(U) /\ Len(b) = Len(h) /\ \A i \in 1 .. Len(h) : b[i] = low[Len(h) - i + 1]
    BY <1>2, <1>4 DEF Reverse
  <2>3. SubSeq(a, 1, n) = SubSeq(b, 1, n)
    BY <2>1, <2>2 DEF IsSuffix, IsPrefix
  <2> HIDE DEF a, b
  <2>4. \A i \in 1 .. n : a[i] = b[i]
    <3>1. \A i \in 1 .. n : SubSeq(a, 1, n)[i] = a[i]
      BY <1>4, <2>2
    <3>2. \A i \in 1 .. n : SubSeq(b, 1, n)[i] = b[i]
      BY <1>2, <1>4, <2>1, <2>2
    <3> QED
      BY <2>3, <3>1, <3>2
  <2>5. ASSUME NEW i \in 1 .. n PROVE low[cut + i] = p.labels[i]
    <3>1. n - i + 1 \in 1 .. n /\ n - (n - i + 1) + 1 = i /\ Len(h) - (n - i + 1) + 1 = cut + i
      BY <1>2, <1>4
    <3>2. n - i + 1 \in 1 .. Len(h)
      BY <1>2, <1>4, <2>1, <3>1
    <3>3. a[n - i + 1] = p.labels[i] /\ b[n - i + 1] = low[cut + i]
      BY <2>2, <3>1, <3>2
    <3> QED
      BY <2>4, <3>1, <3>3
  <2> DEFINE tail == SubSeq(low, cut + 1, Len(h))
  <2>6. cut \in Nat /\ cut > 0 /\ cut + 1 \in 1 .. Len(h) + 1 /\ Len(h) - (cut + 1) + 1 = n
    <3>1. Len(h) \in Nat /\ n \in Nat /\ Len(h) > n
      BY <1>2, <1>4, <2>1
    <3> HIDE DEF n
    <3> QED
      BY <3>1
  <2> HIDE DEF cut, n
  <2>7. tail = [i \in 1 .. n |-> low[cut + i]]
    BY <1>2, <1>4, <2>6
  <2>8. p.labels = [i \in 1 .. n |-> p.labels[i]]
    BY <1>4 DEF n
  <2>9. tail = p.labels
    BY <2>5, <2>7, <2>8
  <2> QED
    BY <1>3, <1>5, <2>6, <2>9 DEF tail, low, cut, n
<1>6. CASE ~ p.wild
  <2>1. low = p.labels
    BY <1>3, <1>6 DEF Matches
  <2>2. cut = 0 /\ SubSeq(low, 1, Len(h)) = low
    BY <1>2, <1>4, <2>1
  <2> HIDE DEF cut, n
  <2>3. SubSeq(low, cut + 1, Len(h)) = p.labels
    BY <2>1, <2>2
  <2> QED
    BY <1>3, <1>6, <2>2, <2>3 DEF low, cut, n
<1> QED
  BY <1>5, <1>6

-----------------------------------------------------------------------------
(* What is on the wire and in a context, at any time *)

WireInv ==
    /\ reg \in UNION {Parse(d) : d \in Documents}
    /\ IsLines(header) /\ IsLines(request) /\ IsBag(context)
    /\ place \in {"client", "answered"} => host \in Hosts

MessageInv == Cardinality(Holders(message, MemberKey)) <= 1

Received == IF Fits(RecoverMembers(header)) THEN RecoverMembers(header) ELSE {}

LEMMA NoLines == IsLines(<<>>) /\ ItemsIn(<<>>) = {}
  BY DEF IsLines, ItemsIn, ToSet

LEMMA ReceivedBag == IsLines(header) => IsBag(Received)
  BY RecoverFacts, NoMembers DEF Received

\* A stamp sets the one member.
LEMMA StampFacts ==
    ASSUME NEW bag, IsBag(bag), NEW hook
    PROVE  \A b \in Stamps(bag, hook) : IsBag(b)
<1> SUFFICES ASSUME NEW b \in Stamps(bag, hook) PROVE IsBag(b)
  OBVIOUS
<1>1. PICK vc : b \in WithValueContext(bag, vc)
  BY DEF Stamps
<1>2. PICK w \in EncodeVC(vc) : b = SetMember(bag, MemberKey, w)
  BY <1>1 DEF WithValueContext
<1> QED
  BY <1>2, BagFacts

LEMMA FencedBag ==
    ASSUME NEW bag, IsBag(bag), NEW allowed
    PROVE  IsBag(Fenced(bag, allowed))
  BY BagFacts DEF Fenced

\* What a consumer makes of a message: nothing, or one member.
Extracted(headers) ==
    UNION UNION {WithValueContext({}, vc) : vc \in UNION {DecodeVC(w) : w \in Get(headers, MemberKey)}}

LEMMA ExtractedFacts ==
    ASSUME NEW headers
    PROVE  \/ Extracted(headers) = {}
           \/ \E w, vc, e : /\ Get(headers, MemberKey) = {w} /\ DecodeVC(w) = {vc} /\ EncodeVC(vc) = {e}
                            /\ Extracted(headers) = SetMember({}, MemberKey, e)
<1> DEFINE got == Get(headers, MemberKey)
           read == UNION {DecodeVC(w) : w \in got}
           bags == UNION {WithValueContext({}, vc) : vc \in read}
<1>1. got = {} \/ \E w : got = {w}
  BY DEF Get, None, Some
<1>2. Extracted(headers) = UNION bags
  BY DEF Extracted
<1>3. CASE got = {}
  <2>1. read = {}
    BY <1>3
  <2>2. bags = {}
    BY <2>1
  <2> QED
    BY <1>2, <2>2
<1>4. ASSUME NEW w, got = {w} PROVE Extracted(headers) = {} \/ \E vc, e :
        DecodeVC(w) = {vc} /\ EncodeVC(vc) = {e} /\ Extracted(headers) = SetMember({}, MemberKey, e)
  <2>1. read = DecodeVC(w)
    BY <1>4
  <2>2. CASE DecodeVC(w) = {}
    <3>1. bags = {}
      BY <2>1, <2>2
    <3> QED
      BY <1>2, <3>1
  <2>3. ASSUME NEW vc, DecodeVC(w) = {vc} PROVE Extracted(headers) = {} \/ \E e :
          EncodeVC(vc) = {e} /\ Extracted(headers) = SetMember({}, MemberKey, e)
    <3>1. bags = WithValueContext({}, vc)
      BY <2>1, <2>3
    <3>2. CASE EncodeVC(vc) = {}
      <4>1. bags = {}
        BY <3>1, <3>2 DEF WithValueContext
      <4> QED
        BY <1>2, <4>1
    <3>3. ASSUME NEW e, EncodeVC(vc) = {e} PROVE Extracted(headers) = SetMember({}, MemberKey, e)
      <4>1. bags = {SetMember({}, MemberKey, e)}
        BY <3>1, <3>3 DEF WithValueContext
      <4> QED
        BY <1>2, <4>1
    <3> QED
      BY <3>2, <3>3, OneForm
  <2> QED
    BY <2>2, <2>3, OneForm
<1> QED
  BY <1>1, <1>3, <1>4

LEMMA ExtractedBag == \A headers : IsBag(Extracted(headers))
<1> TAKE headers
<1>1. CASE Extracted(headers) = {}
  BY <1>1, NoMembers
<1>2. ASSUME NEW e, Extracted(headers) = SetMember({}, MemberKey, e) PROVE IsBag(Extracted(headers))
  BY <1>2, BagFacts, NoMembers
<1> QED
  BY <1>1, <1>2, ExtractedFacts

LEMMA StartWire == Init => WireInv /\ MessageInv
<1> SUFFICES ASSUME Init PROVE WireInv /\ MessageInv
  OBVIOUS
<1>1. IsLines(header)
  <2>1. header \in Seq(Seq(ItemsIn(header)))
    BY PropagationAssumption DEF Init
  <2> QED
    BY <2>1 DEF IsLines
<1>2. Holders(message, MemberKey) = {}
  BY DEF Init, Holders
<1>3. MessageInv
  BY <1>2, FS_EmptySet DEF MessageInv
<1> QED
  BY <1>1, <1>3, NoLines, NoMembers DEF Init, WireInv

LEMMA StepWire == WireInv /\ [Next]_vars => WireInv'
<1> SUFFICES ASSUME WireInv, [Next]_vars PROVE WireInv'
  OBVIOUS
<1> USE DEF WireInv
<1>1. ASSUME NEW hook \in Hooks, Middleware(hook) PROVE WireInv'
  <2>1. IsBag(Received)
    BY ReceivedBag
  <2>2. \A b \in Stamps(Received, hook) : IsBag(b)
    BY <2>1, StampFacts
  <2>3. context' = Received \/ context' \in Stamps(Received, hook)
    BY <1>1 DEF Middleware, Received, None
  <2> QED
    BY <1>1, <2>1, <2>2, <2>3 DEF Middleware
<1>2. ASSUME NEW o \in Outcomes, Record(o) PROVE WireInv'
  BY <1>2 DEF Record
<1>3. ASSUME NEW h \in Hosts, CallOut(h) PROVE WireInv'
  <2>1. IsLines(Line(context))
    BY LineFacts DEF IsBag
  <2> QED
    BY <1>3, <2>1, NoLines DEF CallOut
<1>4. ASSUME NEW h \in Hosts, Redirect(h) PROVE WireInv'
  BY <1>4 DEF Redirect
<1>5. CASE RoundTrip
  <2>1. IsBag(Fenced(RecoverMembers(request), HostAllowed(reg, host)))
    BY RecoverFacts, FencedBag
  <2>2. IsLines(header')
    BY <1>5, <2>1, WriteFacts DEF RoundTrip, IsBag
  <2> QED
    BY <1>5, <2>2 DEF RoundTrip
<1>6. ASSUME NEW lines \in ExtraLines, Arrive(lines) PROVE WireInv'
  <2> DEFINE S == ItemsIn(header) \cup ItemsIn(lines)
  <2>1. header \in Seq(Seq(S)) /\ lines \in Seq(Seq(S))
    <3>1. header \in Seq(Seq(ItemsIn(header))) /\ lines \in Seq(Seq(ItemsIn(lines)))
      BY PropagationAssumption DEF IsLines
    <3>2. Seq(ItemsIn(header)) \subseteq Seq(S) /\ Seq(ItemsIn(lines)) \subseteq Seq(S)
      OBVIOUS
    <3> HIDE DEF S
    <3> QED
      BY <3>1, <3>2
  <2> HIDE DEF S
  <2>2. header \o lines \in Seq(Seq(S))
    BY <2>1
  <2>3. IsLines(header')
    BY <1>6, <2>2, LinesOver DEF Arrive
  <2> QED
    BY <1>6, <2>3, NoLines, NoMembers DEF Arrive
<1>7. ASSUME NEW headers \in Messages, Inject(headers) PROVE WireInv'
  BY <1>7 DEF Inject
<1>8. CASE Extract
  <2>1. IsBag(context')
    BY <1>8, ExtractedBag DEF Extract, Extracted
  <2> QED
    BY <1>8, <2>1, NoLines DEF Extract
<1>9. CASE UNCHANGED vars
  BY <1>9 DEF vars
<1> QED
  BY <1>1, <1>2, <1>3, <1>4, <1>5, <1>6, <1>7, <1>8, <1>9 DEF Next

LEMMA WireAlways == Spec => []WireInv
<1>1. Init => WireInv
  BY StartWire
<1> QED
  BY <1>1, StepWire, PTL DEF Spec

-----------------------------------------------------------------------------
\* No host outside the allowlist ever gets a biz.vc through the Transport,
\* for any registry, handler, copied header, malformed item and redirect.
THEOREM NothingLeaksEver == Spec => []NothingLeaks
<1>1. Init => NothingLeaks
  BY DEF Init, NothingLeaks
<1>2. WireInv /\ NothingLeaks /\ [Next]_vars => NothingLeaks'
  <2> SUFFICES ASSUME WireInv, NothingLeaks, [Next]_vars PROVE NothingLeaks'
    OBVIOUS
  <2>1. ASSUME RoundTrip PROVE NothingLeaks'
    <3> DEFINE allowed == HostAllowed(reg, host)
               out == WriteMembers(Fenced(RecoverMembers(request), allowed))
               new == [host |-> host, lines |-> out]
    <3>1. sent' = sent \cup {new} /\ reg' = reg /\ host \in Hosts
      BY <2>1 DEF RoundTrip, WireInv
    <3>0. ASSUME \/ MemberKey \notin Reads(out)
                 \/ \E p \in reg.hosts : LET cut == Len(host) - Len(p.labels) IN
                      /\ SubSeq(Lower(host), cut + 1, Len(host)) = p.labels
                      /\ IF p.wild THEN cut > 0 ELSE cut = 0
          PROVE  NothingLeaks'
      <4> HIDE DEF out
      <4> SUFFICES ASSUME NEW s \in sent', MemberKey \in Reads(s.lines)
                   PROVE  \E p \in reg.hosts : LET cut == Len(s.host) - Len(p.labels) IN
                            /\ SubSeq(Lower(s.host), cut + 1, Len(s.host)) = p.labels
                            /\ IF p.wild THEN cut > 0 ELSE cut = 0
        BY <3>1 DEF NothingLeaks
      <4>1. CASE s \in sent
        BY <4>1 DEF NothingLeaks
      <4>2. CASE s = new
        <5>1. s.host = host /\ s.lines = out
          BY <4>2
        <5> QED
          BY <3>0, <5>1
      <4> QED
        BY <3>1, <4>1, <4>2
    <3>2. CASE allowed
      <4>1. \E p \in reg.hosts : LET cut == Len(host) - Len(p.labels) IN
              /\ SubSeq(Lower(host), cut + 1, Len(host)) = p.labels
              /\ IF p.wild THEN cut > 0 ELSE cut = 0
        BY <3>1, <3>2, AllowedHost DEF WireInv
      <4> QED
        BY <3>0, <4>1
    <3>3. CASE ~ allowed
      <4>1. IsBag(RecoverMembers(request))
        BY RecoverFacts DEF WireInv
      <4>2. Fenced(RecoverMembers(request), allowed) = Without(RecoverMembers(request), MemberKey)
        BY <3>3 DEF Fenced
      <4>3. ItemsIn(out) \subseteq Written(Without(RecoverMembers(request), MemberKey))
        BY <4>1, <4>2, BagFacts, WriteFacts DEF IsBag
      <4>4. \A x \in Written(Without(RecoverMembers(request), MemberKey)) : x.key # MemberKey
        BY DEF Written, Without
      <4>5. MemberKey \notin Reads(out)
        BY <4>3, <4>4 DEF Reads
      <4> QED
        BY <3>0, <4>5
    <3> QED
      BY <3>2, <3>3
  <2>2. CASE UNCHANGED <<reg, sent>>
    BY <2>2 DEF NothingLeaks
  <2> QED
    BY <2>1, <2>2 DEF Next, vars, Middleware, Record, CallOut, Redirect, Arrive, Inject, Extract
<1> QED
  BY <1>1, <1>2, WireAlways, PTL DEF Spec

\* However headers, messages and contexts are combined, a reader finds one
\* biz.vc at most, so that the first and the last of them are the same.
THEOREM OneValueEver == Spec => []MessageUnambiguous
<1>1. Init => MessageInv
  BY StartWire
<1>2. MessageInv /\ [Next]_vars => MessageInv'
  <2> SUFFICES ASSUME MessageInv, [Next]_vars PROVE MessageInv'
    OBVIOUS
  <2>1. ASSUME NEW headers \in Messages, Inject(headers) PROVE MessageInv'
    <3>1. PICK w : message' = KafkaSet(headers, MemberKey, w)
      BY <2>1 DEF Inject
    <3> QED
      BY <3>1, KafkaFacts, PropagationAssumption DEF MessageInv
  <2>2. CASE Extract
    <3>1. Holders(message', MemberKey) = {}
      BY <2>2 DEF Extract, Holders
    <3> QED
      BY <3>1, FS_EmptySet DEF MessageInv
  <2>3. CASE UNCHANGED message
    BY <2>3 DEF MessageInv
  <2> QED
    BY <2>1, <2>2, <2>3 DEF Next, vars, Middleware, Record, CallOut, Redirect, RoundTrip, Arrive
<1>3. WireInv /\ MessageInv => MessageUnambiguous
  <2> SUFFICES ASSUME WireInv, MessageInv PROVE MessageUnambiguous
    OBVIOUS
  <2> DEFINE own == {m \in context : m.key = MemberKey}
  <2>1. own = {} \/ \E m : own = {m}
    BY DEF WireInv, IsBag
  <2>2. Cardinality(own) <= 1
    <3>1. Cardinality({}) = 0 /\ \A m : Cardinality({m}) = 1
      BY FS_EmptySet, FS_Singleton
    <3> HIDE DEF own
    <3> QED
      BY <2>1, <3>1
  <2> QED
    BY <2>2 DEF MessageUnambiguous, MessageInv
<1> QED
  BY <1>1, <1>2, <1>3, WireAlways, PTL DEF Spec

-----------------------------------------------------------------------------
(* The value on its way *)

Whole(vc) == [vc EXCEPT !.deadline = IF @ = NoDeadline THEN @ ELSE (@ \div TicksPerSecond) * TicksPerSecond]

Carried == {Whole(vc) : vc \in stamp}

\* Every biz.vc in the lines that can be read has the value of the first handler.
CarriedBy(lines) == \E w \in {x.value : x \in Readable(lines)} :
    /\ \E x \in Readable(lines) : x.key = MemberKey
    /\ \A x \in Readable(lines) : x.key = MemberKey => x.value = w
    /\ DecodeVC(w) = Carried

KnownMember(m) == m.key \in KnownKeys /\ (m.key = MemberKey => Genuine(m.value))

CarryInv ==
    /\ stamp = {} \/ \E vc \in stamp : stamp = {vc} /\ IsValueContext(vc)
    /\ \A m \in context : KnownMember(m)
    /\ \A x \in ItemsIn(header) \cup ItemsIn(request) : KnownMember(x)
    /\ place \in {"handler", "client", "answered"} => FromContext(context) = Carried
    /\ (place = "wire" \/ (place = "answered" /\ HostAllowed(reg, host))) /\ stamp # {} => CarriedBy(header)
    /\ place = "queued" => \E w \in Get(message, MemberKey) : Genuine(w) /\ DecodeVC(w) = Carried
    /\ \A o \in log : o.vc \in Carried

\* Only the deadline changes on the wire.
LEMMA DeadlineSet ==
    ASSUME NEW vc, IsValueContext(vc), NEW d \in Int \cup {NoDeadline}, NEW seconds,
           NEW set, set = [vc EXCEPT !.deadline = d]
    PROVE  /\ IsValueContext(set) /\ set.deadline = d
           /\ EncodedSize(set, seconds) = EncodedSize(vc, seconds)
<1>1. set = [flow |-> vc.flow, entity |-> vc.entity, customer |-> vc.customer, segment |-> vc.segment,
             kind |-> vc.kind, money |-> vc.money, estimated |-> vc.estimated, deadline |-> d]
  BY DEF IsValueContext
<1>2. IsValueContext(set) /\ set.deadline = d
  BY <1>1 DEF IsValueContext
<1>3. /\ set.flow = vc.flow /\ set.entity = vc.entity /\ set.customer = vc.customer
      /\ set.segment = vc.segment /\ set.kind = vc.kind /\ set.money = vc.money
  BY <1>1
<1>4. EncodedSize(set, seconds) = EncodedSize(vc, seconds)
  BY <1>3 DEF EncodedSize
<1> QED
  BY <1>2, <1>4

LEMMA WholeSeconds ==
    ASSUME NEW t \in Nat \ {0}, NEW d \in Nat
    PROVE  d * t \in Int /\ (d * t) \div t = d /\ (d > 0 => d * t # 0)
<1>1. d * t \in Int
  OBVIOUS
<1>2. (d * t) \div t = d
  BY SMTT(30)
<1> QED
  BY <1>1, <1>2

\* What is encoded can be read, and is the same but for a fraction of a second.
LEMMA EncodeReads ==
    ASSUME NEW vc, IsValueContext(vc), NEW w \in EncodeVC(vc)
    PROVE  DecodeVC(w) = {Whole(vc)} /\ Genuine(w)
<1> DEFINE D == WireDeadline(vc)
<1>1. /\ w = [form |-> "1", vc |-> vc, deadline |-> D, size |-> EncodedSize(vc, D)]
      /\ Encodable(vc) /\ EncodedSize(vc, D) <= MaxEncodedBytes
  BY DEF EncodeVC, None, Some
<1>2. /\ w.form = "1" /\ w.vc = vc /\ w.deadline = D /\ w.size = EncodedSize(vc, D)
  BY <1>1
<1>3. CASE vc.deadline = NoDeadline
  <2>1. D = 0 /\ D \in 0 .. MaxDeadline
    BY <1>3, PropagationAssumption DEF WireDeadline
  <2> HIDE DEF D
  <2>2. DecodeVC(w) = {[vc EXCEPT !.deadline = NoDeadline]}
    BY <1>1, <1>2, <2>1 DEF DecodeVC, Some
  <2>3. Whole(vc) = [vc EXCEPT !.deadline = NoDeadline]
    BY <1>3 DEF Whole
  <2> QED
    BY <1>2, <2>2, <2>3 DEF Genuine
<1>4. CASE vc.deadline # NoDeadline
  <2>1. D = vc.deadline \div TicksPerSecond /\ D \in 1 .. MaxDeadline
    BY <1>1, <1>4 DEF WireDeadline, Encodable
  <2>2. D > 0 /\ D \in 0 .. MaxDeadline
    BY <2>1, PropagationAssumption
  <2> HIDE DEF D
  <2>3. DecodeVC(w) = {[vc EXCEPT !.deadline = D * TicksPerSecond]}
    BY <1>1, <1>2, <2>2 DEF DecodeVC, Some
  <2>4. Whole(vc) = [vc EXCEPT !.deadline = D * TicksPerSecond]
    BY <1>4, <2>1 DEF Whole
  <2> QED
    BY <1>2, <2>3, <2>4 DEF Genuine
<1> QED
  BY <1>3, <1>4

\* What was read is encoded again, and reads the same ever after.
LEMMA GenuineReads ==
    ASSUME NEW w, Genuine(w), NEW vc \in DecodeVC(w)
    PROVE  /\ DecodeVC(w) = {vc} /\ IsValueContext(vc) /\ Whole(vc) = vc
           /\ \E e : EncodeVC(vc) = {e} /\ DecodeVC(e) = {vc} /\ Genuine(e)
<1> DEFINE s == w.deadline
           d == IF s > 0 THEN s * TicksPerSecond ELSE NoDeadline
<1>1. /\ vc = [w.vc EXCEPT !.deadline = d] /\ DecodeVC(w) = {vc}
      /\ w.size <= MaxEncodedBytes /\ s \in 0 .. MaxDeadline
  BY DEF DecodeVC, None, Some
<1>2. IsValueContext(w.vc) /\ w.size = EncodedSize(w.vc, s)
  BY DEF Genuine
<1>3. s \in Nat /\ s * TicksPerSecond \in Int /\ (s * TicksPerSecond) \div TicksPerSecond = s
      /\ TicksPerSecond \in Nat \ {0} /\ NoDeadline \notin Int
  <2>1. s \in Nat /\ TicksPerSecond \in Nat \ {0} /\ NoDeadline \notin Int
    BY <1>1, PropagationAssumption
  <2> HIDE DEF s
  <2> QED
    BY <2>1, WholeSeconds
<1>4. d \in Int \cup {NoDeadline}
  BY <1>3
<1>5. /\ IsValueContext(vc) /\ vc.deadline = d /\ EncodedSize(vc, s) = EncodedSize(w.vc, s)
  <2> HIDE DEF d, s
  <2> QED
    BY <1>1, <1>2, <1>4, DeadlineSet
<1>6. WireDeadline(vc) = s
  <2>1. CASE s > 0
    BY <1>3, <1>5, <2>1 DEF WireDeadline
  <2>2. CASE s = 0
    BY <1>5, <2>2 DEF WireDeadline
  <2> QED
    BY <1>3, <2>1, <2>2
<1>7. Encodable(vc)
  <2>1. CASE s > 0
    <3>1. s \in 1 .. MaxDeadline
      BY <1>1, <2>1, PropagationAssumption
    <3> QED
      BY <1>6, <3>1 DEF Encodable
  <2>2. CASE s = 0
    BY <1>5, <2>2 DEF Encodable
  <2> QED
    BY <1>3, <2>1, <2>2
<1>8. Whole(vc) = vc
  <2>1. [vc EXCEPT !.deadline = vc.deadline] = vc
    BY <1>5 DEF IsValueContext
  <2>2. CASE s > 0
    <3>1. vc.deadline # NoDeadline /\ (vc.deadline \div TicksPerSecond) * TicksPerSecond = vc.deadline
      BY <1>3, <1>5, <2>2
    <3> QED
      BY <2>1, <3>1 DEF Whole
  <2>3. CASE s = 0
    <3>1. vc.deadline = NoDeadline
      BY <1>5, <2>3
    <3> QED
      BY <2>1, <3>1 DEF Whole
  <2> QED
    BY <1>3, <2>2, <2>3
<1> HIDE DEF s, d
<1>9. \E e : EncodeVC(vc) = {e}
  BY <1>1, <1>2, <1>5, <1>6, <1>7 DEF EncodeVC, Some
<1>10. PICK e : EncodeVC(vc) = {e}
  BY <1>9
<1>11. DecodeVC(e) = {vc} /\ Genuine(e)
  BY <1>5, <1>8, <1>10, EncodeReads
<1> QED
  BY <1>1, <1>5, <1>8, <1>10, <1>11

-----------------------------------------------------------------------------
(* What a reader finds *)

\* The value of a bag with one biz.vc.
LEMMA ValueFacts ==
    ASSUME NEW bag, IsBag(bag), NEW m \in bag, m.key = MemberKey
    PROVE  ValueOf(bag, MemberKey) = {m.value} /\ FromContext(bag) = DecodeVC(m.value)
<1>1. {n \in bag : n.key = MemberKey} = {m}
  BY DEF IsBag
<1>2. ValueOf(bag, MemberKey) = {m.value}
  BY <1>1 DEF ValueOf
<1> QED
  BY <1>2 DEF FromContext

LEMMA SetReads ==
    ASSUME NEW bag, IsBag(bag), NEW w
    PROVE  FromContext(SetMember(bag, MemberKey, w)) = DecodeVC(w)
<1>1. ValueOf(SetMember(bag, MemberKey, w), MemberKey) = {w}
  BY BagFacts
<1> QED
  BY <1>1 DEF FromContext

\* A context that carries a value has it in one genuine member.
LEMMA ContextReads ==
    ASSUME NEW bag, IsBag(bag), \A m \in bag : KnownMember(m), NEW vc \in FromContext(bag)
    PROVE  \E w : Genuine(w) /\ DecodeVC(w) = {vc} /\ FromContext(bag) = {vc}
<1>1. PICK m \in bag : m.key = MemberKey /\ vc \in DecodeVC(m.value)
  BY DEF FromContext, ValueOf
<1>2. Genuine(m.value)
  BY <1>1 DEF KnownMember
<1>3. DecodeVC(m.value) = {vc}
  BY <1>1, <1>2, GenuineReads
<1>4. FromContext(bag) = {vc}
  BY <1>1, <1>3, ValueFacts
<1> QED
  BY <1>2, <1>3, <1>4

\* What is recovered from known items is known, and fits.
LEMMA KnownFits ==
    ASSUME Outside, NEW bag, IsBag(bag), \A m \in bag : KnownMember(m)
    PROVE  Fits(bag)
<1> DEFINE key == [m \in bag |-> m.key]
<1>1. key \in Injection(bag, KnownKeys)
  BY DEF IsBag, KnownMember, Injection, IsInjective
<1>2. IsFiniteSet(KnownKeys) /\ Cardinality(KnownKeys) <= MaxMembers
  BY DEF Outside
<1> HIDE DEF key
<1>3. Cardinality(bag) <= Cardinality(KnownKeys)
  BY <1>1, <1>2, FS_Injection
<1>4. Cardinality(bag) \in Nat /\ Cardinality(KnownKeys) \in Nat
  BY <1>2, FS_CardinalityType DEF IsBag
<1> QED
  BY <1>2, <1>3, <1>4, PropagationAssumption DEF Fits

LEMMA RecoverKnown ==
    ASSUME NEW lines, IsLines(lines), \A x \in ItemsIn(lines) : KnownMember(x)
    PROVE  \A m \in RecoverMembers(lines) : KnownMember(m)
<1> SUFFICES ASSUME NEW m \in RecoverMembers(lines) PROVE KnownMember(m)
  OBVIOUS
<1>1. PICK x \in Readable(lines) : m = [key |-> x.key, value |-> x.value]
  BY RecoverFacts
<1>2. m.key = x.key /\ m.value = x.value /\ x \in ItemsIn(lines)
  BY <1>1 DEF Readable
<1> QED
  BY <1>2 DEF KnownMember

\* The value carried by lines is the value recovered from them.
LEMMA CarriedReads ==
    ASSUME NEW lines, IsLines(lines), CarriedBy(lines)
    PROVE  FromContext(RecoverMembers(lines)) = Carried
<1>1. PICK w : /\ \E x \in Readable(lines) : x.key = MemberKey
               /\ \A x \in Readable(lines) : x.key = MemberKey => x.value = w
               /\ DecodeVC(w) = Carried
  BY DEF CarriedBy
<1>2. PICK m \in RecoverMembers(lines) : m.key = MemberKey
  BY <1>1, RecoverFacts
<1>3. m.value = w
  <2>1. PICK x \in Readable(lines) : m = [key |-> x.key, value |-> x.value]
    BY RecoverFacts
  <2>2. x.key = MemberKey /\ m.value = x.value
    BY <1>2, <2>1
  <2> QED
    BY <1>1, <2>2
<1>4. IsBag(RecoverMembers(lines))
  BY RecoverFacts
<1> QED
  BY <1>1, <1>2, <1>3, <1>4, ValueFacts

LEMMA WrittenFacts ==
    ASSUME NEW M, IsBag(M)
    PROVE  /\ \A x \in Written(M) : \E m \in M : x.key = m.key /\ x.value = m.value /\ x.ok
           /\ \A m \in M : \E x \in Written(M) : x.key = m.key /\ x.value = m.value /\ x.ok
           /\ (\A m \in M : KnownMember(m)) => \A x \in Written(M) : KnownMember(x)
<1>1. \A x \in Written(M) : \E m \in M : x.key = m.key /\ x.value = m.value /\ x.ok
  BY DEF Written
<1>2. ASSUME NEW m \in M PROVE \E x \in Written(M) : x.key = m.key /\ x.value = m.value /\ x.ok
  <2> DEFINE x == [key |-> m.key, value |-> m.value, ok |-> TRUE]
  <2>1. x \in Written(M) /\ x.key = m.key /\ x.value = m.value /\ x.ok
    BY DEF Written
  <2> QED
    BY <2>1
<1> QED
  BY <1>1, <1>2 DEF KnownMember

LEMMA EstimateShape ==
    ASSUME NEW vc, IsValueContext(vc)
    PROVE  IsValueContext(Estimate(vc))
<1>1. ASSUME NEW m PROVE IsValueContext([vc EXCEPT !.money = m])
  <2>1. [vc EXCEPT !.money = m]
          = [flow |-> vc.flow, entity |-> vc.entity, customer |-> vc.customer, segment |-> vc.segment,
             kind |-> vc.kind, money |-> m, estimated |-> vc.estimated, deadline |-> vc.deadline]
    BY DEF IsValueContext
  <2> QED
    BY <2>1 DEF IsValueContext
<1> QED
  BY <1>1 DEF Estimate

-----------------------------------------------------------------------------
(* The value arrives *)

LEMMA StartCarry == ASSUME Outside PROVE Init => CarryInv
<1> SUFFICES ASSUME Init PROVE CarryInv
  OBVIOUS
<1>1. ASSUME NEW x \in ItemsIn(header) PROVE KnownMember(x)
  BY <1>1 DEF Init, KnownMember, KnownKeys, Reads, Outside
<1>2. place = "wire" /\ stamp = {} /\ context = {} /\ log = {} /\ ItemsIn(request) = {}
  BY NoLines DEF Init, None
<1> QED
  BY <1>1, <1>2 DEF CarryInv

\* A first hop stamps the value it found or the one of its hook, a later one
\* hands on what it found.
LEMMA MiddlewareCarries ==
    ASSUME Outside, WireInv, CarryInv, NEW hook \in Hooks, Middleware(hook)
    PROVE  CarryInv'
<1>1. IsBag(Received) /\ \A m \in Received : KnownMember(m)
  BY RecoverFacts, RecoverKnown, NoMembers DEF Received, WireInv, CarryInv
<1>2. Received = RecoverMembers(header)
  BY RecoverFacts, RecoverKnown, KnownFits DEF Received, WireInv, CarryInv
<1>3. /\ place = "wire" /\ place' = "handler"
      /\ header' = header /\ request' = request /\ message' = message /\ log' = log
  BY DEF Middleware
<1>4. stamp # {} => FromContext(Received) = Carried
  BY <1>2, <1>3, CarriedReads DEF CarryInv, WireInv
<1>5. stamp # {} => Carried # {}
  BY DEF Carried
<1>6. ASSUME stamp' = {} \/ \E vc \in stamp' : stamp' = {vc} /\ IsValueContext(vc),
             \A m \in context' : KnownMember(m), FromContext(context') = Carried',
             \A o \in log : o.vc \in Carried'
      PROVE  CarryInv'
  BY <1>3, <1>6 DEF CarryInv
<1>7. stamp = {} => log = {}
  BY DEF CarryInv, Carried
<1>8. CASE FromContext(Received) # {}
  <2>1. context' = Received /\ stamp' = IF stamp = {} THEN FromContext(Received) ELSE stamp
    BY <1>8 DEF Middleware, Received, None
  <2>2. CASE stamp = {}
    <3>1. PICK vc : vc \in FromContext(Received)
      BY <1>8
    <3>2. PICK w : Genuine(w) /\ DecodeVC(w) = {vc} /\ FromContext(Received) = {vc}
      BY <1>1, <3>1, ContextReads
    <3>3. IsValueContext(vc) /\ Whole(vc) = vc
      BY <3>2, GenuineReads
    <3>4. stamp' = {vc} /\ Carried' = {vc}
      BY <2>1, <2>2, <3>2, <3>3 DEF Carried
    <3> QED
      BY <1>1, <1>6, <1>7, <2>1, <2>2, <3>2, <3>3, <3>4
  <2>3. CASE stamp # {}
    <3>1. stamp' = stamp /\ Carried' = Carried
      BY <2>1, <2>3 DEF Carried
    <3> QED
      BY <1>1, <1>4, <1>6, <2>1, <2>3, <3>1 DEF CarryInv
  <2> QED
    BY <2>2, <2>3
<1>9. CASE FromContext(Received) = {}
  <2>1. stamp = {} /\ log = {}
    BY <1>4, <1>5, <1>7, <1>9
  <2>2. /\ context' = (IF Stamps(Received, hook) = {} THEN Received ELSE CHOOSE b \in Stamps(Received, hook) : TRUE)
        /\ stamp' = IF Stamps(Received, hook) # {} THEN {Estimate(h) : h \in hook} ELSE {}
    BY <1>9, <2>1 DEF Middleware, Received, None
  <2>3. CASE Stamps(Received, hook) = {}
    <3>1. context' = Received /\ stamp' = {} /\ Carried' = {}
      BY <2>2, <2>3 DEF Carried
    <3> QED
      BY <1>1, <1>6, <1>9, <2>1, <3>1
  <2>4. CASE Stamps(Received, hook) # {}
    <3>1. PICK h \in hook : hook = {h} /\ IsValueContext(h)
      BY <2>4, PropagationAssumption DEF Stamps, None
    <3> DEFINE vc == Estimate(h)
    <3>2. IsValueContext(vc) /\ {Estimate(x) : x \in hook} = {vc}
      BY <3>1, EstimateShape
    <3> HIDE DEF vc
    <3>3. Stamps(Received, hook) = WithValueContext(Received, vc)
      BY <2>4, <3>2 DEF Stamps
    <3>4. PICK e : EncodeVC(vc) = {e}
      BY <2>4, <3>3, OneForm DEF WithValueContext
    <3>5. Stamps(Received, hook) = {SetMember(Received, MemberKey, e)}
      BY <3>3, <3>4 DEF WithValueContext
    <3>6. context' = SetMember(Received, MemberKey, e)
      BY <2>2, <3>5
    <3>7. DecodeVC(e) = {Whole(vc)} /\ Genuine(e)
      BY <3>2, <3>4, EncodeReads
    <3>8. stamp' = {vc} /\ Carried' = {Whole(vc)}
      BY <2>2, <2>4, <3>2 DEF Carried
    <3>9. FromContext(context') = Carried'
      BY <1>1, <3>6, <3>7, <3>8, SetReads
    <3>10. \A m \in context' : KnownMember(m)
      BY <1>1, <3>6, <3>7 DEF SetMember, Without, KnownMember, KnownKeys
    <3> QED
      BY <1>6, <2>1, <3>2, <3>8, <3>9, <3>10
  <2> QED
    BY <2>3, <2>4
<1> QED
  BY <1>8, <1>9

\* A service of the estate gets the value of the context, whatever was in the
\* request; any other host gets no biz.vc.
LEMMA RoundTripCarries ==
    ASSUME Outside, WireInv, CarryInv, RoundTrip
    PROVE  CarryInv'
<1> DEFINE members == RecoverMembers(request)
           allowed == HostAllowed(reg, host)
           fenced == Fenced(members, allowed)
<1>1. /\ place = "client" /\ place' = "answered" /\ header' = WriteMembers(fenced)
      /\ UNCHANGED <<reg, host, context, request, message, log, stamp>>
  BY DEF RoundTrip
<1>2. FromContext(context) = Carried /\ Carried' = Carried
  BY <1>1 DEF CarryInv, Carried
<1>3. IsBag(members) /\ \A m \in members : KnownMember(m)
  BY RecoverFacts, RecoverKnown DEF WireInv, CarryInv
<1> HIDE DEF members, allowed
<1>4. \A m \in Without(members, MemberKey) : KnownMember(m)
  BY <1>3 DEF Without
<1>5. ASSUME NEW vc, Carried = {vc}
      PROVE  \E e : EncodeVC(vc) = {e} /\ DecodeVC(e) = {vc} /\ Genuine(e)
  <2>1. PICK w : Genuine(w) /\ DecodeVC(w) = {vc}
    BY <1>2, <1>5, ContextReads DEF WireInv, CarryInv
  <2> QED
    BY <2>1, GenuineReads
<1>6. Carried = {} \/ \E vc : Carried = {vc}
  BY DEF CarryInv, Carried
<1>7. /\ IsBag(fenced) /\ \A m \in fenced : KnownMember(m)
      /\ allowed /\ Carried # {} => \E e \in fenced : e.key = MemberKey /\ DecodeVC(e.value) = Carried
  <2>1. IsBag(fenced)
    BY <1>3, FencedBag
  <2>2. CASE ~ allowed
    BY <1>4, <2>1, <2>2 DEF Fenced
  <2>3. CASE allowed /\ Carried = {}
    <3>1. fenced = members
      BY <1>2, <2>3 DEF Fenced, None
    <3> QED
      BY <1>3, <2>1, <2>3, <3>1
  <2>4. ASSUME allowed, NEW vc, Carried = {vc}
        PROVE  /\ \A m \in fenced : KnownMember(m)
               /\ \E e \in fenced : e.key = MemberKey /\ DecodeVC(e.value) = Carried
    <3>1. PICK e : EncodeVC(vc) = {e} /\ DecodeVC(e) = {vc} /\ Genuine(e)
      BY <1>5, <2>4
    <3>2. fenced = SetMember(members, MemberKey, e)
      BY <1>2, <2>4, <3>1 DEF Fenced, None
    <3>3. \A m \in fenced : KnownMember(m)
      BY <1>4, <3>1, <3>2 DEF SetMember, KnownMember, KnownKeys
    <3>4. [key |-> MemberKey, value |-> e] \in fenced
      BY <3>2 DEF SetMember
    <3> QED
      BY <2>4, <3>1, <3>3, <3>4
  <2> QED
    BY <1>6, <2>1, <2>2, <2>3, <2>4
<1> HIDE DEF fenced
<1>8. ItemsIn(header') = Written(fenced)
  BY <1>1, <1>7, KnownFits, WriteFacts DEF IsBag
<1>9. \A x \in ItemsIn(header') : KnownMember(x)
  BY <1>7, <1>8, WrittenFacts
<1>10. ASSUME allowed, stamp # {} PROVE CarriedBy(header)'
  <2>1. Carried # {}
    BY <1>10 DEF Carried
  <2>2. PICK m \in fenced : m.key = MemberKey /\ DecodeVC(m.value) = Carried
    BY <1>7, <1>10, <2>1
  <2>3. PICK x \in Written(fenced) : x.key = MemberKey /\ x.value = m.value /\ x.ok
    BY <1>7, <2>2, WrittenFacts
  <2>4. x \in Readable(header')
    BY <1>8, <2>3 DEF Readable
  <2>5. \A y \in Readable(header') : y.key = MemberKey => y.value = m.value
    <3> SUFFICES ASSUME NEW y \in Written(fenced), y.key = MemberKey PROVE y.value = m.value
      BY <1>8 DEF Readable
    <3>1. PICK n \in fenced : y.key = n.key /\ y.value = n.value
      BY <1>7, WrittenFacts
    <3> QED
      BY <1>7, <2>2, <3>1 DEF IsBag
  <2> QED
    BY <1>2, <2>2, <2>3, <2>4, <2>5 DEF CarriedBy
<1> QED
  BY <1>1, <1>2, <1>9, <1>10 DEF CarryInv, allowed

LEMMA StepCarry == ASSUME Outside PROVE WireInv /\ CarryInv /\ [Next]_vars => CarryInv'
<1> SUFFICES ASSUME WireInv, CarryInv, [Next]_vars PROVE CarryInv'
  OBVIOUS
<1>1. ASSUME NEW o \in Outcomes, Record(o) PROVE CarryInv'
  <2>1. PICK vc \in FromContext(context) : log' \subseteq log \cup {[o EXCEPT !.vc = vc]}
    BY <1>1 DEF Record
  <2>2. [o EXCEPT !.vc = vc].vc = vc
    BY PropagationAssumption
  <2>3. FromContext(context) = Carried /\ Carried' = Carried
    BY <1>1 DEF Record, CarryInv, Carried
  <2>4. \A x \in log' : x.vc \in Carried'
    BY <2>1, <2>2, <2>3 DEF CarryInv
  <2> QED
    BY <1>1, <2>3, <2>4 DEF Record, CarryInv
<1>2. ASSUME NEW h \in Hosts, CallOut(h) PROVE CarryInv'
  <2>1. IsBag(context) /\ \A m \in context : KnownMember(m)
    BY DEF WireInv, CarryInv
  <2>2. \A x \in ItemsIn(Line(context)) : KnownMember(x)
    BY <2>1, LineFacts, WrittenFacts DEF IsBag
  <2>3. \A x \in ItemsIn(request') : KnownMember(x)
    BY <1>2, <2>2, NoLines DEF CallOut, CarryInv
  <2>4. Carried' = Carried
    BY <1>2 DEF CallOut, Carried
  <2> QED
    BY <1>2, <2>3, <2>4 DEF CallOut, CarryInv
<1>3. ASSUME NEW h \in Hosts, Redirect(h) PROVE CarryInv'
  <2>1. Carried' = Carried
    BY <1>3 DEF Redirect, Carried
  <2> QED
    BY <1>3, <2>1 DEF Redirect, CarryInv
<1>4. ASSUME NEW lines \in ExtraLines, Arrive(lines) PROVE CarryInv'
  <2>1. /\ header' = header \o lines /\ context' = {} /\ request' = <<>> /\ place' = "wire"
        /\ place = "answered" /\ HostAllowed(reg, host) /\ UNCHANGED <<log, stamp, message>>
    BY <1>4 DEF Arrive
  <2>2. ItemsIn(header') = ItemsIn(header) \cup ItemsIn(lines)
    <3>1. /\ header \in Seq(Seq(ItemsIn(header))) /\ lines \in Seq(Seq(ItemsIn(lines)))
      BY PropagationAssumption DEF WireInv, IsLines
    <3> DEFINE S == Seq(ItemsIn(header)) \cup Seq(ItemsIn(lines))
    <3>2. header \in Seq(S) /\ lines \in Seq(S)
      BY <3>1
    <3> HIDE DEF S
    <3>3. ToSet(header') = ToSet(header) \cup ToSet(lines)
      BY <2>1, <3>2, ConcatElements
    <3> QED
      BY <3>3 DEF ItemsIn
  <2>3. \A x \in ItemsIn(lines) : x.key \in KnownKeys /\ x.key # MemberKey
    BY DEF Outside, Reads, KnownKeys
  <2>4. \A x \in ItemsIn(header') : KnownMember(x)
    BY <2>2, <2>3 DEF CarryInv, KnownMember
  <2>5. Carried' = Carried
    BY <2>1 DEF Carried
  <2>6. ASSUME stamp # {} PROVE CarriedBy(header)'
    <3>1. CarriedBy(header)
      BY <2>1, <2>6 DEF CarryInv
    <3>2. \A x : x.key = MemberKey => (x \in Readable(header') <=> x \in Readable(header))
      BY <2>2, <2>3 DEF Readable
    <3>3. PICK w \in {x.value : x \in Readable(header)} :
            /\ \E x \in Readable(header) : x.key = MemberKey
            /\ \A x \in Readable(header) : x.key = MemberKey => x.value = w
            /\ DecodeVC(w) = Carried
      BY <3>1 DEF CarriedBy
    <3>4. PICK x \in Readable(header') : x.key = MemberKey /\ x.value = w
      BY <3>2, <3>3
    <3>5. \A y \in Readable(header') : y.key = MemberKey => y.value = w
      BY <3>2, <3>3
    <3> QED
      BY <2>5, <3>3, <3>4, <3>5 DEF CarriedBy
  <2> QED
    BY <2>1, <2>4, <2>5, <2>6, NoLines DEF CarryInv
<1>5. ASSUME NEW headers \in Messages, Inject(headers) PROVE CarryInv'
  <2>1. PICK vc \in FromContext(context) : \E e \in EncodeVC(vc) : message' = KafkaSet(headers, MemberKey, e)
    BY <1>5 DEF Inject
  <2> PICK e \in EncodeVC(vc) : message' = KafkaSet(headers, MemberKey, e)
    BY <2>1
  <2>2. PICK w : Genuine(w) /\ DecodeVC(w) = {vc} /\ FromContext(context) = {vc}
    BY ContextReads DEF WireInv, CarryInv
  <2>3. DecodeVC(e) = {vc} /\ Genuine(e)
    BY <2>2, GenuineReads
  <2>4. Get(message', MemberKey) = {e}
    BY KafkaFacts, PropagationAssumption
  <2>5. Carried = {vc} /\ Carried' = Carried
    BY <1>5, <2>2 DEF Inject, CarryInv, Carried
  <2> QED
    BY <1>5, <2>3, <2>4, <2>5 DEF Inject, CarryInv
<1>6. CASE Extract
  <2>1. PICK w \in Get(message, MemberKey) : Genuine(w) /\ DecodeVC(w) = Carried
    BY <1>6 DEF Extract, CarryInv
  <2>2. /\ context' = Extracted(message) /\ Carried' = Carried /\ header' = <<>>
        /\ place' = "handler" /\ UNCHANGED <<log, stamp, request>>
    BY <1>6 DEF Extract, Extracted, Carried
  <2>3. Get(message, MemberKey) = {w}
    BY <2>1 DEF Get, None, Some
  <2>4. FromContext(context') = Carried /\ \A m \in context' : KnownMember(m)
    <3>1. CASE Carried = {}
      <4>1. Extracted(message) = {}
        BY <2>1, <2>3, <3>1, ExtractedFacts
      <4> QED
        BY <2>2, <3>1, <4>1 DEF FromContext, ValueOf
    <3>2. ASSUME NEW vc, Carried = {vc}
          PROVE  FromContext(context') = Carried /\ \A m \in context' : KnownMember(m)
      <4>1. PICK e : EncodeVC(vc) = {e} /\ DecodeVC(e) = {vc} /\ Genuine(e)
        BY <2>1, <3>2, GenuineReads
      <4>2. Extracted(message) = SetMember({}, MemberKey, e)
        <5>1. UNION {DecodeVC(x) : x \in Get(message, MemberKey)} = {vc}
          BY <2>1, <2>3, <3>2
        <5>2. UNION {WithValueContext({}, x) : x \in {vc}} = {SetMember({}, MemberKey, e)}
          BY <4>1 DEF WithValueContext
        <5> QED
          BY <5>1, <5>2 DEF Extracted
      <4>3. FromContext(context') = {vc}
        BY <2>2, <4>1, <4>2, NoMembers, SetReads
      <4>4. \A m \in context' : m.key = MemberKey /\ m.value = e
        BY <2>2, <4>2 DEF SetMember, Without
      <4>5. \A m \in context' : KnownMember(m)
        BY <4>1, <4>4 DEF KnownMember, KnownKeys
      <4> QED
        BY <3>2, <4>3, <4>5
    <3> QED
      BY <3>1, <3>2 DEF CarryInv, Carried
  <2> QED
    BY <2>2, <2>4, NoLines DEF CarryInv
<1>7. CASE UNCHANGED vars
  <2>1. Carried' = Carried
    BY <1>7 DEF vars, Carried
  <2> QED
    BY <1>7, <2>1 DEF vars, CarryInv, CarriedBy
<1> QED
  BY <1>1, <1>2, <1>3, <1>4, <1>5, <1>6, <1>7, MiddlewareCarries, RoundTripCarries DEF Next

\* The value of the first handler is the value of every later one and of every
\* outcome, over any number of hops, redirects and messages.
THEOREM ValueArrivesAlways == ASSUME Outside PROVE Spec => []ValueArrives
<1>1. Init => CarryInv
  BY StartCarry
<1>2. WireInv /\ CarryInv /\ [Next]_vars => CarryInv'
  BY StepCarry
<1>3. CarryInv => ValueArrives
  BY DEF CarryInv, Carried, Whole, ValueArrives
<1> QED
  BY <1>1, <1>2, <1>3, WireAlways, PTL DEF Spec

-----------------------------------------------------------------------------
(* The stamp of a transaction the hook recognised *)

\* A flow of an accepted registry comes from a flow that keeps the rules.
LEMMA AcceptedFlow ==
    ASSUME reg \in UNION {Parse(d) : d \in Documents}, NEW f \in reg.flows
    PROVE  \E d \in Documents : \E fd \in d.flows :
             f = BuildFlow(fd) /\ EstimatorAccepted(fd, ToSet(d.segments))
<1>1. PICK d \in Documents : reg \in Parse(d)
  OBVIOUS
<1>2. Accepted(d) /\ reg.flows = {BuildFlow(fd) : fd \in d.flows}
  BY <1>1 DEF Parse, None, Some
<1>3. PICK fd \in d.flows : f = BuildFlow(fd)
  BY <1>2
<1>4. EstimatorAccepted(fd, ToSet(d.segments))
  BY <1>2 DEF Accepted, FlowAccepted
<1> QED
  BY <1>3, <1>4

\* Every estimator of an accepted registry has amounts above 0, at an exponent
\* money may have.
LEMMA EstimatorFacts ==
    ASSUME reg \in UNION {Parse(d) : d \in Documents}, NEW f \in reg.flows, NEW e \in f.estimator
    PROVE  /\ e.default \in Int /\ e.default > 0
           /\ \A b \in e.bySegment : b.minor \in Int /\ b.minor > 0
           /\ e.exponent \in 0..4
<1>0. PICK d \in Documents : \E fd \in d.flows : f = BuildFlow(fd) /\ EstimatorAccepted(fd, ToSet(d.segments))
  BY AcceptedFlow
<1>1. PICK fd \in d.flows : f = BuildFlow(fd) /\ EstimatorAccepted(fd, ToSet(d.segments))
  BY <1>0
<1>2. f.estimator = {[x EXCEPT !.exponent = IF @ = None THEN 2 ELSE CHOOSE n \in @ : TRUE] : x \in fd.estimator}
  BY <1>1 DEF BuildFlow
<1>3. PICK x \in fd.estimator : e = [x EXCEPT !.exponent = IF @ = None THEN 2 ELSE CHOOSE n \in @ : TRUE]
  BY <1>2
<1>4. /\ x = [default |-> x.default, exponent |-> x.exponent, bySegment |-> x.bySegment]
      /\ x.default \in Int /\ \A b \in x.bySegment : b.minor \in Int
  BY PropagationAssumption
<1>5. /\ x.default > 0 /\ x.exponent \subseteq 0..4
      /\ \A b \in x.bySegment : b.minor > 0
  BY <1>1 DEF EstimatorAccepted
<1> DEFINE n == IF x.exponent = None THEN 2 ELSE CHOOSE y \in x.exponent : TRUE
<1>6. n \in 0..4
  <2>1. CASE x.exponent = None
    BY <2>1
  <2>2. CASE x.exponent # None
    <3>1. (CHOOSE y \in x.exponent : TRUE) \in x.exponent
      BY <2>2 DEF None
    <3> QED
      BY <1>5, <2>2, <3>1
  <2> QED
    BY <2>1, <2>2
<1>7. e = [x EXCEPT !.exponent = n]
  BY <1>3
<1> HIDE DEF n
<1>8. e = [default |-> x.default, exponent |-> n, bySegment |-> x.bySegment]
  BY <1>4, <1>7
<1>9. e.default = x.default /\ e.exponent = n /\ e.bySegment = x.bySegment
  BY <1>8
<1> QED
  BY <1>4, <1>5, <1>6, <1>9

\* An estimate is above 0, in the currency asked for.
LEMMA EstimateFacts ==
    ASSUME reg \in UNION {Parse(d) : d \in Documents}, NEW f \in reg.flows, NEW segment, NEW currency
    PROVE  /\ \A m \in EstimateMoney(f, segment, currency) :
                /\ m.amount \in Int /\ m.amount > 0
                /\ m.currency = currency /\ m.exponent \in 0..4
           /\ f.estimator # None => EstimateMoney(f, segment, currency) # None
<1>1. ASSUME NEW a \in EstimateMinor(f, segment) PROVE a \in Int /\ a > 0
  <2>1. PICK e \in f.estimator :
          a = LET own == {b \in e.bySegment : b.segment = segment} IN
              IF own # {} THEN (CHOOSE b \in own : TRUE).minor ELSE e.default
    BY DEF EstimateMinor
  <2> DEFINE own == {b \in e.bySegment : b.segment = segment}
  <2>2. e.default \in Int /\ e.default > 0 /\ \A b \in e.bySegment : b.minor \in Int /\ b.minor > 0
    BY EstimatorFacts
  <2>3. CASE own = {}
    <3>1. a = e.default
      BY <2>1, <2>3
    <3> QED
      BY <2>2, <3>1
  <2>4. CASE own # {}
    <3>1. a = (CHOOSE b \in own : TRUE).minor
      BY <2>1, <2>4
    <3>2. (CHOOSE b \in own : TRUE) \in own
      BY <2>4
    <3>3. (CHOOSE b \in own : TRUE) \in e.bySegment
      BY <3>2
    <3> HIDE DEF own
    <3> QED
      BY <2>2, <3>1, <3>3
  <2> QED
    BY <2>3, <2>4
<1>2. ASSUME NEW m \in EstimateMoney(f, segment, currency)
      PROVE  /\ m.amount \in Int /\ m.amount > 0
             /\ m.currency = currency /\ m.exponent \in 0..4
  <2>1. PICK a \in EstimateMinor(f, segment), e \in f.estimator :
          m = [amount |-> a, currency |-> currency, exponent |-> e.exponent]
    BY DEF EstimateMoney
  <2>2. m.amount = a /\ m.currency = currency /\ m.exponent = e.exponent
    BY <2>1
  <2>3. e.exponent \in 0..4
    BY EstimatorFacts
  <2> QED
    BY <1>1, <2>2, <2>3
<1>3. ASSUME f.estimator # None PROVE EstimateMoney(f, segment, currency) # None
  <2>1. PICK e : e \in f.estimator
    BY <1>3 DEF None
  <2>2. PICK a : a \in EstimateMinor(f, segment)
    BY <2>1 DEF EstimateMinor
  <2>3. [amount |-> a, currency |-> currency, exponent |-> e.exponent] \in EstimateMoney(f, segment, currency)
    BY <2>1, <2>2 DEF EstimateMoney
  <2> QED
    BY <2>3 DEF None
<1> QED
  BY <1>2, <1>3

WantsEstimate(h) == h.estimated /\ h.money.amount = 0

\* What the registry's estimator makes of a valid value context is valid, and
\* above 0 where the flow has an estimator.
LEMMA EstimateValid ==
    ASSUME reg \in UNION {Parse(d) : d \in Documents}, NEW h, IsValueContext(h), Valid(h)
    PROVE  /\ Valid(Estimate(h)) /\ Estimate(h).entity = h.entity
           /\ (WantsEstimate(h) /\ \E f \in FlowNamed(reg, h.flow) : f.estimator # None)
                => Estimate(h).money.amount > 0
           /\ ~ WantsEstimate(h) => Estimate(h).money = h.money
<1> DEFINE filled == UNION {EstimateMoney(f, h.segment, h.money.currency) : f \in FlowNamed(reg, h.flow)}
<1>1. FlowNamed(reg, h.flow) \subseteq reg.flows
  BY DEF FlowNamed
<1>2. \A m \in filled : /\ m.amount \in Int /\ m.amount > 0
                        /\ m.currency = h.money.currency /\ m.exponent \in 0..4
  <2> SUFFICES ASSUME NEW f \in FlowNamed(reg, h.flow), NEW m \in EstimateMoney(f, h.segment, h.money.currency)
               PROVE  /\ m.amount \in Int /\ m.amount > 0
                      /\ m.currency = h.money.currency /\ m.exponent \in 0..4
    OBVIOUS
  <2> QED
    BY <1>1, EstimateFacts
<1>3. (\E f \in FlowNamed(reg, h.flow) : f.estimator # None) => filled # None
  <2> SUFFICES ASSUME NEW f \in FlowNamed(reg, h.flow), f.estimator # None PROVE filled # None
    OBVIOUS
  <2>1. EstimateMoney(f, h.segment, h.money.currency) # None
    BY <1>1, EstimateFacts
  <2> QED
    BY <2>1 DEF None
<1>4. Estimate(h) = IF WantsEstimate(h) /\ filled # None
                    THEN [h EXCEPT !.money = CHOOSE m \in filled : TRUE] ELSE h
  BY DEF Estimate, WantsEstimate
<1> HIDE DEF filled
<1>5. CASE WantsEstimate(h) /\ filled # None
  <2> DEFINE m == CHOOSE x \in filled : TRUE
  <2>1. m \in filled
    BY <1>5 DEF None
  <2>2. Estimate(h) = [h EXCEPT !.money = m]
    BY <1>4, <1>5
  <2> HIDE DEF m
  <2>3. Estimate(h) = [flow |-> h.flow, entity |-> h.entity, customer |-> h.customer, segment |-> h.segment,
                       kind |-> h.kind, money |-> m, estimated |-> h.estimated, deadline |-> h.deadline]
    BY <2>2 DEF IsValueContext
  <2>4. /\ Estimate(h).flow = h.flow /\ Estimate(h).entity = h.entity
        /\ Estimate(h).customer = h.customer /\ Estimate(h).segment = h.segment
        /\ Estimate(h).kind = h.kind /\ Estimate(h).money = m
    BY <2>3
  <2>5. m.amount \in Int /\ m.amount > 0 /\ m.currency = h.money.currency /\ m.exponent \in 0..4
    BY <1>2, <2>1
  <2>6. MoneyValid(m)
    <3>1. h.money.currency.len = 3 /\ h.money.currency.shape = "upper"
      BY DEF Valid, MoneyValid
    <3> QED
      BY <2>5, <3>1 DEF MoneyValid
  <2>7. Valid(Estimate(h))
    BY <2>4, <2>6 DEF Valid
  <2> QED
    BY <1>5, <2>4, <2>5, <2>7
<1>6. CASE ~ (WantsEstimate(h) /\ filled # None)
  <2>1. Estimate(h) = h
    BY <1>4, <1>6
  <2> QED
    BY <1>3, <1>6, <2>1
<1> QED
  BY <1>5, <1>6

\* While a hop works on what its hook answered, its context has the estimate of
\* that answer, if it is valid and fits.
Kept(h) == (Valid(h) /\ EncodeVC(Estimate(h)) # None) => FromContext(context) = {Whole(Estimate(h))}

HookInv == \A h \in asked : IsValueContext(h) /\ (place = "handler" => Kept(h))

\* The answer of a hook goes into the bag, whatever else the bag has.
LEMMA StampReads ==
    ASSUME reg \in UNION {Parse(d) : d \in Documents}, NEW bag, IsBag(bag),
           NEW h, IsValueContext(h), Valid(h), EncodeVC(Estimate(h)) # None
    PROVE  \E b : Stamps(bag, {h}) = {b} /\ FromContext(b) = {Whole(Estimate(h))}
<1>1. Valid(Estimate(h)) /\ IsValueContext(Estimate(h))
  BY EstimateValid, EstimateShape
<1> DEFINE vc == Estimate(h)
<1>2. {v \in {Estimate(x) : x \in {h}} : Valid(v)} = {vc}
  BY <1>1
<1>3. Stamps(bag, {h}) = WithValueContext(bag, vc)
  BY <1>2 DEF Stamps
<1> HIDE DEF vc
<1>4. PICK w : EncodeVC(vc) = {w}
  BY OneForm DEF vc, None
<1>5. WithValueContext(bag, vc) = {SetMember(bag, MemberKey, w)}
  BY <1>4 DEF WithValueContext
<1>6. FromContext(SetMember(bag, MemberKey, w)) = {Whole(vc)}
  <2>1. DecodeVC(w) = {Whole(vc)}
    BY <1>1, <1>4, EncodeReads DEF vc
  <2> QED
    BY <2>1, SetReads
<1> QED
  BY <1>3, <1>5, <1>6 DEF vc

LEMMA StepHook == WireInv /\ HookInv /\ [Next]_vars => HookInv'
<1> SUFFICES ASSUME WireInv, HookInv, [Next]_vars PROVE HookInv'
  OBVIOUS
<1>1. \A h : reg' = reg => Estimate(h)' = Estimate(h)
  BY DEF Estimate
<1>2. ASSUME NEW hook \in Hooks, Middleware(hook) PROVE HookInv'
  <2>1. CASE asked' = None
    BY <2>1 DEF HookInv, None
  <2>2. CASE asked' # None
    <3>1. /\ asked' = hook /\ reg' = reg
          /\ context' = IF Stamps(Received, hook) = {} THEN Received
                        ELSE CHOOSE b \in Stamps(Received, hook) : TRUE
      BY <1>2, <2>2 DEF Middleware, Received
    <3>2. PICK h \in hook : hook = {h} /\ IsValueContext(h)
      BY <2>2, <3>1, PropagationAssumption
    <3>3. ASSUME Valid(h), EncodeVC(Estimate(h)) # None PROVE FromContext(context') = {Whole(Estimate(h))}
      <4>1. IsBag(Received)
        BY ReceivedBag DEF WireInv
      <4>2. PICK b : Stamps(Received, hook) = {b} /\ FromContext(b) = {Whole(Estimate(h))}
        BY <3>2, <3>3, <4>1, StampReads DEF WireInv
      <4>3. (CHOOSE x \in {b} : TRUE) = b
        OBVIOUS
      <4>4. context' = b
        BY <3>1, <4>2, <4>3
      <4> QED
        BY <4>2, <4>4
    <3>4. Kept(h)'
      BY <1>1, <3>1, <3>3 DEF Kept
    <3> QED
      BY <3>1, <3>2, <3>4 DEF HookInv
  <2> QED
    BY <2>1, <2>2
<1>3. ASSUME UNCHANGED <<reg, context, asked>>, place' = "handler" => place = "handler" PROVE HookInv'
  <2>1. \A h : Kept(h)' <=> Kept(h)
    BY <1>1, <1>3 DEF Kept
  <2> QED
    BY <1>3, <2>1 DEF HookInv
<1>4. ASSUME NEW o \in Outcomes, Record(o) PROVE HookInv'
  BY <1>3, <1>4 DEF Record
<1>5. ASSUME NEW h \in Hosts, CallOut(h) \/ Redirect(h) PROVE HookInv'
  BY <1>3, <1>5 DEF CallOut, Redirect
<1>6. CASE RoundTrip
  BY <1>3, <1>6 DEF RoundTrip
<1>7. ASSUME NEW lines \in ExtraLines, Arrive(lines) PROVE HookInv'
  <2>1. place' = "wire" /\ asked' = asked
    BY <1>7 DEF Arrive
  <2> QED
    BY <2>1 DEF HookInv
<1>8. ASSUME NEW headers \in Messages, Inject(headers) PROVE HookInv'
  BY <1>3, <1>8 DEF Inject
<1>9. CASE Extract
  BY <1>9 DEF Extract, HookInv, None
<1>10. CASE UNCHANGED vars
  BY <1>3, <1>10 DEF vars
<1> QED
  BY <1>2, <1>4, <1>5, <1>6, <1>7, <1>8, <1>9, <1>10 DEF Next

\* No registry that Parse accepts, and no hook whose answer is valid and fits,
\* leaves a recognised transaction without a value: its handler has the entity
\* and the amount of the hook, or an estimate above 0.
THEOREM RecognisedIsStampedAlways == Spec => []RecognisedIsStamped
<1>1. Init => HookInv
  BY DEF Init, HookInv, None
<1>2. WireInv /\ HookInv => RecognisedIsStamped
  <2> SUFFICES ASSUME WireInv, HookInv, NEW h \in asked,
                      place = "handler", Valid(h), EncodeVC(Estimate(h)) # None
               PROVE  \E vc \in FromContext(context) :
                        /\ vc.entity = h.entity
                        /\ (WantsEstimate(h) /\ \E f \in FlowNamed(reg, h.flow) : f.estimator # None)
                             => vc.money.amount > 0
                        /\ ~ WantsEstimate(h) => vc.money = h.money
    BY DEF RecognisedIsStamped, WantsEstimate
  <2> DEFINE vc == Whole(Estimate(h))
  <2>1. IsValueContext(h) /\ FromContext(context) = {vc}
    BY DEF HookInv, Kept
  <2>2. vc.entity = Estimate(h).entity /\ vc.money = Estimate(h).money
    <3>1. IsValueContext(Estimate(h))
      BY <2>1, EstimateShape
    <3> QED
      BY <3>1 DEF Whole, IsValueContext
  <2> HIDE DEF vc
  <2>3. /\ Estimate(h).entity = h.entity
        /\ (WantsEstimate(h) /\ \E f \in FlowNamed(reg, h.flow) : f.estimator # None)
             => Estimate(h).money.amount > 0
        /\ ~ WantsEstimate(h) => Estimate(h).money = h.money
    BY <2>1, EstimateValid DEF WireInv
  <2> QED
    BY <2>1, <2>2, <2>3
<1> QED
  BY <1>1, <1>2, StepHook, WireAlways, PTL DEF Spec
=============================================================================
