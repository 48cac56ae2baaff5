----------------------------- MODULE MCPipeline -----------------------------
(* A small instance of Pipeline.                                           *)
EXTENDS Pipeline, TLC

CONSTANTS p1, r1, k1, w1, w2

\* All the events of the ledger's payment and refund.
MCEvents == SettleEvents \cup RefundEvents

\* Behaviours in which the payment fails are those of a merchant without a
\* webhook URL.
MCNoURL == {e \in MCEvents : e.type = "failed"}
=============================================================================
