------------------------------- MODULE Router -------------------------------
(***************************************************************************)
(* The PSP router (internal/psp/router.go): an ordered list of rules, the  *)
(* first of which that matches the currency and the amount of a charge     *)
(* names the adapter that serves it.                                       *)
(*                                                                         *)
(* Currencies are already trimmed and upper-cased: the service does it     *)
(* before it stores the payment, and Select does it again.                 *)
(***************************************************************************)
EXTENDS Integers, Sequences

CONSTANTS
    Rules,      \* the ordered rules: [currencies, min, max, psp]
    Adapters    \* the names of the adapters the router was built with

\* What Select answers when no rule matches, or when the rule that matches
\* names an adapter the router does not have: an error in both cases.
NoRoute == "no_route"

ASSUME RouterAssumption == NoRoute \notin Adapters

\* A rule without currencies matches every currency; a rule whose max is 0
\* has no upper bound.
RuleMatches(rule, currency, amount) ==
    /\ amount >= rule.min
    /\ rule.max = 0 \/ amount <= rule.max
    /\ rule.currencies = {} \/ currency \in rule.currencies

\* The positions of the rules that match.
Matching(currency, amount) ==
    {i \in DOMAIN Rules : RuleMatches(Rules[i], currency, amount)}

\* The rule at the first matching position decides, even when its adapter is
\* missing: a later rule is not tried.
Select(currency, amount) ==
    LET matching == Matching(currency, amount)
        first    == CHOOSE i \in matching : \A j \in matching : i <= j
    IN  IF matching # {} /\ Rules[first].psp \in Adapters
          THEN Rules[first].psp
          ELSE NoRoute
=============================================================================
