-------------------------- MODULE MCPaymentImpact --------------------------
(* Small instances of PaymentImpact for TLC.                                *)
EXTENDS PaymentImpact, TLC

MCStageIndex == [auth |-> 0, capture |-> 1, settle |-> 2, dispute |-> -1]
MCDeadline   == [auth |-> 1, capture |-> 2]
MCLost       == {"capture"}
MCCustomerOf == [p \in Payments |-> p]
MCFloors     == <<0, 2>>
MCThresholds == <<3, 1>>

Symmetry == Permutations(Processes)
=============================================================================
