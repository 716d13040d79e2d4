---------------------------- MODULE MCLogQuerier ----------------------------
(* Outcomes on and off the ends of the windows, a broken one, a record of    *)
(* another program and a line of text; a second is four ticks.               *)
EXTENDS LogQuerier

Line(form, at, entity, amount) ==
    [form |-> form, at |-> at, amount |-> amount,
     labels |-> [flow |-> "checkout", currency |-> "USD", entity |-> entity]]

MCEntries == <<
    Line("outcome", 2, "a", 3), Line("outcome", 4, "a", 5), Line("outcome", 6, "b", 1),
    Line("mangled", 8, "c", 0), Line("text", 4, "", 0), Line("object", 6, "", 0)>>

Query(from, to, filters, by, agg) ==
    [range |-> [from |-> from, to |-> to], filters |-> filters, groupBy |-> by, agg |-> agg]

NoFilter == [l \in {} |-> l]
MCQueries == {
    Query(3, 7, [flow |-> "checkout"], {"currency", "entity"}, "max_per_group"),
    Query(2, 9, [currency |-> "USD"], {}, "groups"),
    Query(1, 5, [currency |-> "EUR"], {}, "groups"),
    Query(2, 8, [entity |-> "a"], {"currency", "region"}, "groups"),
    Query(2, 8, NoFilter, {"entity"}, "groups")}
=============================================================================
