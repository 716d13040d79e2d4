----------------------------- MODULE MCMoneyPath ----------------------------
(* Two flows, two currencies, a customer of two flows; an hour is two ticks  *)
(* and a week two hours, so a few payments of one flow and currency make     *)
(* unequal levels in two weeks.  Windows begin on and off an hour.           *)
EXTENDS MoneyPath

Word(id) == [id |-> id, len |-> 3, escapes |-> 0, shape |-> "token", pii |-> FALSE]
Upper(id) == [Word(id) EXCEPT !.shape = "upper"]
Stage(name) == [name |-> Word(name), signals |-> <<Word("signal")>>]
Seconds(n) == [prefix |-> TRUE, date |-> <<>>, time |-> {<<[unit |-> "S", n |-> n]>>}]

MCCheckout == [
    name |-> Word("checkout"), kind |-> "gmv", currencies |-> <<Upper("USD")>>,
    stages |-> <<Stage("auth"), Stage("capture")>>,
    sla |-> {[stage |-> Word("capture"), deadline |-> Seconds(2), onBreach |-> "lost"]},
    estimator |-> {[default |-> 3, exponent |-> None, bySegment |-> {}]},
    baseline |-> {[seasonality |-> "hour_of_week", weeks |-> 1]},
    recovery |-> {[model |-> "usage_loss_curve", fraction |-> 50, within |-> {Seconds(60)}]},
    reconcile |-> None]
MCRenewal == [MCCheckout EXCEPT !.name = Word("renewal"), !.baseline = None, !.recovery = None, !.estimator = None,
                                !.sla = {[stage |-> Word("capture"), deadline |-> Seconds(1), onBreach |-> "at_risk"]}]
Ladder(high, low) == <<[sev |-> Word("p1"), floor |-> high], [sev |-> Word("p2"), floor |-> low]>>
Document == [
    documents |-> 1, unknownFields |-> {}, version |-> 1, segments |-> <<Word("smb")>>, hosts |-> <<>>,
    severity |-> Ladder(2, 1), flows |-> {MCCheckout, MCRenewal}]
MCDocuments == {
    Document, [Document EXCEPT !.severity = Ladder(1, 2)],
    [Document EXCEPT !.flows = {[MCCheckout EXCEPT !.baseline = {[seasonality |-> "hour_of_week", weeks |-> 2]},
                                                   !.recovery = None], MCRenewal}]}

MCFlowOf     == [p \in Payments |-> IF p = 3 THEN "renewal" ELSE "checkout"]
MCCurrencyOf == [p \in Payments |-> IF p = 3 THEN "EUR" ELSE "USD"]
MCAmountOf   == [p \in Payments |-> <<4, 6, 5, 8>>[p]]
MCCustomerOf == [p \in Payments |-> IF p = 2 THEN "b" ELSE "a"]

Whole(from, to, flows) == [window |-> [from |-> from, to |-> to], scope |-> NoMoney, flows |-> flows]
MCRequests == {
    Whole(7, 10, <<"checkout">>), Whole(8, 10, <<"checkout", "renewal">>), Whole(0, 10, <<>>),
    [Whole(4, 10, <<"checkout">>) EXCEPT !.scope = [stage |-> "capture"]]}
MCBuckets == <<"young", "old">>
MCFloors  == <<0, 2>>
NoLabels  == [l \in {} |-> l]
=============================================================================
