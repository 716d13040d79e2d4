---------------------------- MODULE ValueContext ----------------------------
(***************************************************************************)
(* The business context of a transaction and its one-member wire form      *)
(* (package biz).  A text is a record of what the code asks of it: its     *)
(* length, how many of its bytes need an escape, the characters it is made *)
(* of and whether the PII net catches it.  A result that may fail is a set *)
(* with at most one element.                                               *)
(***************************************************************************)
EXTENDS Integers, FiniteSets

CONSTANTS
    MaxEncodedBytes,  \* cap of the encoded member
    TicksPerSecond,   \* resolution of the clock a deadline is read from
    MaxDeadline,      \* maxDeadlineUnix, in seconds
    NoDeadline        \* the zero time.Time

None == {}
Some(x) == {x}

NoText == [id |-> "", len |-> 0, escapes |-> 0, shape |-> "token", pii |-> FALSE]

Kinds   == {"gmv", "net_revenue", "fee", "take_rate"}
Results == {"success", "failed", "deferred", "abandoned", "unknown"}

LowerToken(s, max) == s.len \in 1..max /\ s.shape = "token"
IdToken(s, max)    == s.len <= max /\ s.shape # "other"
CheckPII(s)        == ~ s.pii

MoneyValid(m) ==
    /\ m.amount >= 0
    /\ m.currency.len = 3 /\ m.currency.shape = "upper"
    /\ m.exponent \in 0..4

Valid(vc) ==
    /\ LowerToken(vc.flow, 64)
    /\ vc.entity # NoText /\ IdToken(vc.entity, 128) /\ IdToken(vc.customer, 128)
    /\ (vc.segment = NoText \/ LowerToken(vc.segment, 32))
    /\ vc.kind \in Kinds
    /\ MoneyValid(vc.money)
    /\ CheckPII(vc.entity) /\ CheckPII(vc.customer)

OutcomeValid(o) ==
    /\ o.at # NoDeadline
    /\ LowerToken(o.stage, 32)
    /\ o.result \in Results
    /\ (o.source = NoText \/ (IdToken(o.source, 128) /\ CheckPII(o.source)))
    /\ o.err.len <= 512 /\ CheckPII(o.err)
    /\ Valid(o.vc)

-----------------------------------------------------------------------------
\* The characters of a number.
Digits(n) ==
    LET width(k) == CHOOSE d \in 1..19 : k < 10 ^ d /\ (d = 1 \/ k >= 10 ^ (d - 1))
    IN  IF n < 0 THEN 1 + width(-n) ELSE width(n)

KindLength == [gmv |-> 3, net_revenue |-> 11, fee |-> 3, take_rate |-> 9]

Escaped(s) == s.len + 2 * s.escapes

\* The bytes of the eleven fields and the ten bars between them.
EncodedSize(vc, seconds) ==
    10 + 1 + Escaped(vc.flow) + Escaped(vc.entity) + Escaped(vc.customer) + Escaped(vc.segment)
       + Digits(vc.money.amount) + Escaped(vc.money.currency) + Digits(vc.money.exponent)
       + KindLength[vc.kind] + 1 + Digits(seconds)

WireDeadline(vc) == IF vc.deadline = NoDeadline THEN 0 ELSE vc.deadline \div TicksPerSecond

\* Mutant of Encodable: a deadline that reads as none on the wire is sent.
EncodableSigned(vc) == vc.deadline # NoDeadline => WireDeadline(vc) \in 0..MaxDeadline
\* On the wire 0 stands for no deadline, and seconds have a ceiling.
Encodable(vc) == vc.deadline # NoDeadline => WireDeadline(vc) \in 1..MaxDeadline

\* The wire form; none for a context that has none or is too long.
EncodeVC(vc) ==
    LET size == EncodedSize(vc, WireDeadline(vc)) IN
    IF Encodable(vc) /\ size <= MaxEncodedBytes
    THEN Some([form |-> "1", vc |-> vc, deadline |-> WireDeadline(vc), size |-> size])
    ELSE None

\* Field count, version, escapes and numbers that do not parse are the form
\* "malformed".
DecodeVC(w) ==
    IF w.form = "1" /\ w.size <= MaxEncodedBytes /\ w.deadline \in 0..MaxDeadline
    THEN Some([w.vc EXCEPT !.deadline =
                 IF w.deadline > 0 THEN w.deadline * TicksPerSecond ELSE NoDeadline])
    ELSE None

-----------------------------------------------------------------------------
\* Baggage: a set of members, at most one per key.
MemberKey == "biz.vc"

Without(bag, key)          == {m \in bag : m.key # key}
SetMember(bag, key, value) == Without(bag, key) \cup {[key |-> key, value |-> value]}
ValueOf(bag, key)          == {m.value : m \in {n \in bag : n.key = key}}

WithValueContext(bag, vc) == {SetMember(bag, MemberKey, w) : w \in EncodeVC(vc)}

FromContext(bag) == UNION {DecodeVC(w) : w \in ValueOf(bag, MemberKey)}
=============================================================================
