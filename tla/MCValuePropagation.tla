------------------------- MODULE MCValuePropagation -------------------------
(* Three registries (one that must be refused), hooks with every reason a    *)
(* stamp may fail, hosts inside, outside and at the edge of the allowlist.   *)
EXTENDS ValuePropagation

CONSTANT NaN

T(id, shape)    == [id |-> id, len |-> 3, escapes |-> 0, shape |-> shape, pii |-> FALSE]
Word(id)        == T(id, "token")
LongId          == [T("long", "ascii") EXCEPT !.len = 90, !.escapes = 10]
CardNumber      == [T("card", "token") EXCEPT !.pii = TRUE]
USD             == T("USD", "upper")

Days(n)  == [prefix |-> TRUE, date |-> <<[unit |-> "D", n |-> n]>>, time |-> None]
Mixed    == [prefix |-> TRUE, date |-> <<>>, time |-> {<<[unit |-> "M", n |-> 5], [unit |-> "S", n |-> 1]>>}]
Unsorted == [Mixed EXCEPT !.time = {<<[unit |-> "S", n |-> 1], [unit |-> "M", n |-> 5]>>}]

Stage(name) == [name |-> name, signals |-> <<Word("signal")>>]
Checkout == [
    name |-> Word("checkout"), kind |-> "gmv", currencies |-> <<USD>>,
    stages |-> <<Stage(Word("auth")), Stage(Word("capture"))>>,
    sla |-> {[stage |-> Word("auth"), deadline |-> Mixed, onBreach |-> "lost"]},
    estimator |-> {[default |-> 5, exponent |-> None, bySegment |-> {[segment |-> Word("smb"), minor |-> 7]}]},
    baseline |-> {[seasonality |-> "hour_of_week", weeks |-> 4]},
    recovery |-> {[model |-> "usage_loss_curve", fraction |-> 40, within |-> {Days(1)}]},
    reconcile |-> {[scheme |-> "sql", stage |-> Word("capture")]}]
Renewal == [Checkout EXCEPT !.name = Word("renewal"), !.estimator = None, !.baseline = None,
                            !.recovery = None, !.reconcile = None, !.sla = {}]

Shop(wild) == [wild |-> wild, labels |-> <<"shop", "com">>]
Document == [
    documents |-> 1, unknownFields |-> {}, version |-> 1, segments |-> <<Word("smb"), Word("ent")>>,
    hosts |-> <<Shop(TRUE)>>, severity |-> <<[sev |-> Word("p1"), floor |-> 9], [sev |-> Word("p2"), floor |-> 3]>>,
    flows |-> {Checkout, Renewal}]
OfFlow(fd) == [Document EXCEPT !.flows = {fd}]
MCDocuments == {
    Document, [Document EXCEPT !.hosts = <<Shop(FALSE)>>], [Document EXCEPT !.version = 2],
    [Document EXCEPT !.hosts = <<[wild |-> TRUE, labels |-> <<>>]>>],
    [Document EXCEPT !.severity = <<[sev |-> Word("p2"), floor |-> 3], [sev |-> Word("p1"), floor |-> 3]>>],
    OfFlow([Checkout EXCEPT !.estimator = {[default |-> 5, exponent |-> {0}, bySegment |-> {[segment |-> Word("smb"), minor |-> -7]}]}]),
    OfFlow([Checkout EXCEPT !.estimator = {[default |-> 5, exponent |-> {5}, bySegment |-> {}]}]),
    OfFlow([Checkout EXCEPT !.recovery = {[model |-> "usage_loss_curve", fraction |-> NaN, within |-> None]}]),
    OfFlow([Checkout EXCEPT !.sla = {[stage |-> Word("auth"), deadline |-> Unsorted, onBreach |-> "lost"]}])}

VC(flow, amount, estimated) == [
    flow |-> flow, entity |-> Word("order"), customer |-> NoText, segment |-> Word("smb"), kind |-> "gmv",
    money |-> [amount |-> amount, currency |-> USD, exponent |-> 2], estimated |-> estimated, deadline |-> NoDeadline]
Known == VC(Word("checkout"), 12, FALSE)
MCHooks == {None} \cup {{vc} : vc \in {
    [Known EXCEPT !.deadline = 1001], VC(Word("checkout"), 0, TRUE), VC(Word("checkout"), 0, FALSE),
    VC(Word("renewal"), 0, TRUE), [Known EXCEPT !.deadline = 1], [Known EXCEPT !.deadline = -4],
    [Known EXCEPT !.entity = CardNumber], [Known EXCEPT !.entity = LongId]}}

Foreign          == [form |-> "foreign", size |-> 2]
Item(key, value) == [key |-> key, value |-> value, ok |-> TRUE]
Broken           == [key |-> "", value |-> Foreign, ok |-> FALSE]
Wire(vc)         == CHOOSE w \in EncodeVC(vc) : TRUE
Corrupt          == [form |-> "malformed", size |-> 9]
FarFuture        == [Wire(Known) EXCEPT !.deadline = MaxDeadline + 1]
Tenant           == Item("tenant", Foreign)
MCEntries == {
    <<>>, << <<Tenant, Broken>> >>, << <<Broken, Item(MemberKey, Wire(Known))>>, <<Tenant>> >>,
    << <<Item(MemberKey, Corrupt)>> >>, << <<Item(MemberKey, FarFuture), Tenant>> >>,
    << <<Item(MemberKey, Wire([Known EXCEPT !.entity = CardNumber]))>> >>}

MCHosts == {<<"shop", "com">>, <<"API", "shop", "com">>, <<"evil", "com">>, <<"api", "shop", "com", "">>}
MCLower == [l \in {"shop", "com", "API", "api", "evil", ""} |-> IF l = "API" THEN "api" ELSE l]

MCExtraLines     == {<<>>, << <<Item("region", Foreign), Broken>> >>}
MCMessages       == {<<>>, <<[key |-> MemberKey, value |-> Corrupt], [key |-> "tenant", value |-> Foreign],
                             [key |-> MemberKey, value |-> Corrupt]>>}
MCOutcomes       == {[at |-> 1, vc |-> None, stage |-> Word("auth"), result |-> "failed", source |-> NoText, err |-> e]
                       : e \in {NoText, CardNumber}}

\* This instance is one of those the value is claimed to arrive in.
ASSUME MCOutside == Outside
=============================================================================
