----------------------------- MODULE MCPayments -----------------------------
(* Small instances of Payments.                                            *)
EXTENDS Payments, TLC

CONSTANTS c1, c2, r1, r2, k1, k2

\* A cut-down rule list.  USD always has a route; INR only below 3; the
\* adapter of the last rule is not configured.
MCRules == << [currencies |-> {"USD"}, min |-> 0, max |-> 0, psp |-> "stripe"],
              [currencies |-> {"INR"}, min |-> 0, max |-> 2, psp |-> "razorpay"],
              [currencies |-> {}, min |-> 3, max |-> 0, psp |-> "other"] >>
MCAdapters == {"stripe", "razorpay"}
MCCurrencies == {"USD", "INR"}

\* Two creates that may share a key, with a route or without, or be invalid.
MCCreateInputs ==
    {[key |-> k, amount |-> 2, currency |-> "USD"] : k \in {k1, k2}}
    \cup {[key |-> k1, amount |-> 3, currency |-> "INR"],
          [key |-> k1, amount |-> 4, currency |-> "USD"]}

\* Refunds of either payment, in part or in full, or of too much, or in the
\* wrong currency, or invalid.
MCRefundInputs ==
    {[payment |-> p, key |-> k1, amount |-> 2, currency |-> "USD"] : p \in Creates}
    \cup {[payment |-> c1, key |-> k2, amount |-> 1, currency |-> "USD"],
          [payment |-> c1, key |-> k2, amount |-> 3, currency |-> "USD"],
          [payment |-> c1, key |-> k2, amount |-> 1, currency |-> "INR"],
          [payment |-> c1, key |-> k2, amount |-> 0, currency |-> "USD"]}
=============================================================================
