----------------------------- MODULE Eligibility -----------------------------
(* app/monitoring/trade_eligibility.py: whether the measured evidence would   *)
(* let a signal be considered for paper automation.                           *)
(*                                                                            *)
(* What is known of a signal s: its action, confidence, risk and regime, the  *)
(* horizon that is preferred, the expected edge and the cost (0.0001 per      *)
(* cent), the blockers, the similar setups [status, label], the validation *)
(* [status, horizons] with a sequence of [horizon, samples, actionable,       *)
(* expectancy], and what Liquidity makes of the market. Unknown stands for    *)
(* None in each of them.                                                      *)
EXTENDS Liquidity

MinValidationSamples == 5

\* The default of a field when the record it is read from is missing.
Field(record, Of(_), default) == IF record = Unknown THEN default ELSE Of(record)

EvidenceOf(similar) ==
    IF similar = Unknown THEN "insufficient"
    ELSE IF similar.status = "insufficient_data" THEN "insufficient" ELSE similar.label

Confirmed(s) ==
    Field(s.liquidations, LAMBDA l : l.signal = "sweep_confirmation", FALSE)
MinimumConfidence(s) ==
    LET threshold == CASE EvidenceOf(s.similar) = "strong" -> 65
                       [] EvidenceOf(s.similar) = "promising" -> 70
                       [] EvidenceOf(s.similar) = "mixed" -> 75
                       [] OTHER -> 80
    IN IF Confirmed(s) THEN Max({60, threshold - 3}) ELSE threshold

\* An expectancy of zero counts like none at all.
Expected(m) == IF m.expectancy \in {Unknown, 0} THEN -99900 ELSE m.expectancy
\* The metric of the preferred horizon, or the first of the best.
SelectedHorizon(validation, preferred) ==
    LET metrics == validation.horizons
        matching == {i \in DOMAIN metrics : metrics[i].horizon = preferred}
        better(x, y) == \/ Expected(x) > Expected(y)
                        \/ Expected(x) = Expected(y) /\ x.samples > y.samples
        best == {i \in DOMAIN metrics :
                    \A j \in DOMAIN metrics : ~better(metrics[j], metrics[i])}
    IN IF validation = Unknown THEN Unknown
       ELSE IF metrics = <<>> THEN Unknown
       ELSE metrics[Min(IF matching # {} THEN matching ELSE best)]

InsufficientEvidence(s, metric) ==
    \/ Field(s.similar, LAMBDA r : r.status, "insufficient_data") = "insufficient_data"
    \/ Field(s.validation, LAMBDA r : r.status, "insufficient_data") = "insufficient_data"
    \/ Field(metric, LAMBDA m : m.actionable, 0) < MinValidationSamples
ExpectancyOf(metric) ==
    Field(metric, LAMBDA m : IF m.expectancy = Unknown THEN 0 ELSE m.expectancy, 0)

EdgeFailsCost(s) == Unknown \notin {s.edge, s.cost} /\ s.edge <= s.cost
BadRegime(s) ==
    \/ s.regime \in {"low_liquidity", "choppy", "high_volatility"}
    \/ s.action = "buy" /\ s.regime \in {"trending_down", "reversal_risk"}

\* The crowd, the trap, the cascade that stands against the action.
CrowdBlocks(s) ==
    Field(s.crowd, LAMBDA c :
        /\ c.strength = "high"
        /\ \/ s.action = "buy" /\ c.side = "long_crowded"
           \/ s.action = "sell_exit" /\ c.side = "short_crowded", FALSE)
LiquidityConflicts(s) ==
    Field(s.bias, LAMBDA b :
        /\ b.pressure = "high"
        /\ \/ s.action = "buy" /\ b.trap = "long_trap"
           \/ s.action = "sell_exit" /\ b.trap = "short_trap", FALSE)
WrongWayCascade(s) ==
    Field(s.liquidations, LAMBDA l :
        \/ s.action = "buy" /\ l.signal = "cascade_down"
        \/ s.action = "sell_exit" /\ l.signal = "cascade_up", FALSE)
ZonesBlock(s) ==
    Field(s.zones, LAMBDA z :
        \/ z.alignment = "stop_too_close_to_liquidity"
        \/ z.timing = "avoid_chop"
        \/ z.timing = "wait_for_sweep" /\ ~Confirmed(s), FALSE)
Chop(s) == Field(s.zones, LAMBDA z : z.timing = "avoid_chop", FALSE)

\* Mutant: the liquidity is looked at before the cost, the risk and the regime.
MarketVerdictWatchingFirst(s) ==
    IF s.blockers # {} THEN "not_eligible"
    ELSE IF CrowdBlocks(s) \/ ZonesBlock(s) \/ LiquidityConflicts(s) THEN "watch_only"
    ELSE IF EdgeFailsCost(s) \/ s.risk = "high" \/ BadRegime(s) THEN "not_eligible"
    ELSE "clear"

\* What the market alone says, before any evidence is asked for.
MarketVerdict(s) ==
    IF s.blockers # {} \/ EdgeFailsCost(s) \/ s.risk = "high" \/ BadRegime(s)
    THEN "not_eligible"
    ELSE IF CrowdBlocks(s) THEN "watch_only"
    ELSE IF WrongWayCascade(s) THEN "not_eligible"
    ELSE IF Field(s.liquidations, LAMBDA l : l.signal, "none") = "exhaustion"
    THEN "watch_only"
    ELSE IF ZonesBlock(s) THEN IF Chop(s) THEN "not_eligible" ELSE "watch_only"
    ELSE IF LiquidityConflicts(s) THEN "watch_only"
    ELSE "clear"

EligibilityStatus(s, metric) ==
    IF MarketVerdict(s) # "clear" THEN MarketVerdict(s)
    ELSE IF InsufficientEvidence(s, metric) THEN "insufficient_data"
    ELSE IF s.action \notin {"buy", "sell_exit"} THEN "watch_only"
    ELSE IF EvidenceOf(s.similar) = "weak" \/ ExpectancyOf(metric) <= 0 THEN "not_eligible"
    ELSE IF EvidenceOf(s.similar) = "mixed" \/ s.confidence < MinimumConfidence(s)
    THEN "watch_only" ELSE "eligible"

EvaluateEligibility(s) ==
    LET metric == SelectedHorizon(s.validation, s.horizon)
        status == EligibilityStatus(s, metric)
    IN [status |-> status, minimum |-> MinimumConfidence(s),
        evidence |-> IF status = "insufficient_data" THEN "insufficient"
                     ELSE EvidenceOf(s.similar)]
=============================================================================
