------------------------ MODULE MCCommerceLifecycle ------------------------
(***************************************************************************)
(* One learner, a subscription and a course bought individually, through   *)
(* every order in which the provider's notifications can arrive, mixed     *)
(* with reconciliation, cancellation, plan changes and a restore in        *)
(* flight.                                                                 *)
(***************************************************************************)
EXTENDS CommerceProps

CONSTANTS l1, course, plan

MCTxs == {course, plan}
MCRenewalOf == [t \in MCTxs |-> t]
MCAccounts == [t \in MCTxs |-> {l1}]
MCMaxRedemptions == <<>>
Restore(ts) == [kind |-> "restore", learner |-> l1, txs |-> ts,
                key |-> NoKey, coupon |-> NoCoupon]
MCCalls == {Restore({plan}), Restore({course})}
=============================================================================
