----------------------------- MODULE MCBilling -----------------------------
EXTENDS Billing, TLC
CONSTANTS e1, e2, e3, h1, h2
MCEvents == {e1, e2, e3}
MCHandlers == {h1, h2}
(* A refusal, its repetition and a payment; a first purchase and what comes *)
(* around it; two charges of one subscription; a tenant who pays by hand.   *)
MCFeeds ==
    {e1 :> "failed" @@ e2 :> "failed" @@ e3 :> "paid",
     e1 :> "checkout" @@ e2 :> "paid" @@ e3 :> "cancelled",
     e1 :> "charged" @@ e2 :> "charged" @@ e3 :> "failed",
     e1 :> "rejected" @@ e2 :> "approved" @@ e3 :> "past_due"}
=============================================================================
