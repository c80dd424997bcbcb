------------------------- MODULE MCWebhookDelivery -------------------------
(***************************************************************************)
(* Instance of WebhookDelivery for TLC: two targets, whose events all have *)
(* subscribers.  Both clients may subscribe to the sale; one of them may   *)
(* prefer the listings, one in each ledger, which take two pages.          *)
(***************************************************************************)
EXTENDS WebhookDelivery, TLC

CONSTANTS w1, w2

MCTargets == <<[contract |-> "market", type |-> "sale"],
               [contract |-> "market", type |-> "listing"]>>

MCSale(tx) == [contract |-> "market", type |-> "sale", tx |-> tx, ledger |-> tx]
MCListing(tx) == [contract |-> "market", type |-> "listing", tx |-> tx, ledger |-> tx]

MCEvent == {MCSale(1), MCListing(1), MCListing(2)}

MCRequested == {<<w1, "sale">>, <<w1, "listing">>, <<w2, "sale">>}

\* Followed among the deliveries of the other client, of either kind.
MCFollowed == {<<w2, MCSale(1)>>}

=============================================================================
