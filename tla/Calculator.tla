------------------------------ MODULE Calculator ------------------------------
(***************************************************************************)
(* The cost of gas, its rate and the profit of a pair of quotes:           *)
(* services/calculator/, services/gas/, services/prices/quoted.py and the  *)
(* models they build.  Amounts are integers in the smallest unit of their  *)
(* token; a rate [num, den] is units of the base token for one unit of the *)
(* cost of gas, so that a comparison is exact after multiplication by den. *)
(* (The code computes with 50 digits.)                                     *)
(***************************************************************************)
EXTENDS Quotes

\* ConversionRate.is_fresh(), GasPrice.is_fresh(), Fee.is_fresh().
IsFresh(item, now) == item.expires = None \/ now < item.expires

-------------------------------------------------------------------------------
(* Gas                                                                       *)

\* _total_gas_units() and _quoted_gas_price() of Level2Financials.
\* Mutant: a leg that states no gas costs none.
TotalGasUnitsStated(buy, sell) ==
    IF buy.units = None THEN sell.units
    ELSE IF sell.units = None THEN buy.units ELSE buy.units + sell.units
TotalGasUnits(buy, sell) ==
    IF None \in {buy.units, sell.units} THEN None ELSE buy.units + sell.units
QuotedGasPrice(buy, sell) == IF buy.wei # None THEN buy.wei ELSE sell.wei

\* GasEstimator.estimate(): price is a price found, or None.
Gas(units, price) ==
    IF units = None \/ price = None THEN [known |-> FALSE, cost |-> 0]
    ELSE [known |-> TRUE, cost |-> units * price]

\* _first_cost_usd() and gas_rate_from_quotes(): the first leg that states
\* dollars, divided by the cost of both legs.
FirstCostUsd(buy, sell) == IF buy.usd # None THEN buy.usd ELSE sell.usd
GasRateFromQuotes(gas, buy, sell, stable) ==
    LET usd == FirstCostUsd(buy, sell)
    IN  IF ~stable \/ ~gas.known \/ gas.cost = 0 \/ usd = None \/ usd = 0 THEN None
        ELSE [num |-> usd, den |-> gas.cost, expires |-> None]

-------------------------------------------------------------------------------
(* Profit                                                                    *)

\* RateBook: a rate that is not fresh is not there.
RateFor(rate, now) == IF rate # None /\ IsFresh(rate, now) THEN rate ELSE None

\* aggregate_costs(): the components that are not known.  A fee is a record
\* [leg, known, expires, inclusion, currency, amount, type].
Deducted(fee) == fee.known /\ fee.inclusion # "INCLUDED_IN_QUOTE"
Convertible(currency, rate) == currency = "base" \/ rate # None
UnknownComponents(fees, gas, native, rate, now) ==
    {fee \in fees : \/ ~fee.known \/ ~IsFresh(fee, now)
                    \/ Deducted(fee) /\ ~Convertible(fee.currency, rate)
                    \/ fee.inclusion = "UNKNOWN"}
    \cup {g \in {gas} : ~gas.known \/ ~Convertible(native, rate)}

\* Units of the base token times the den of the rate.
Scaled(amount, currency, rate) ==
    IF currency = "base" THEN amount * rate.den ELSE amount * rate.num
TotalCosts(fees, gas, native, rate, now) ==
    LET counted == {fee \in fees : Deducted(fee) /\ IsFresh(fee, now)}
        Signed(fee) == (IF fee.type = "REBATE" THEN -1 ELSE 1)
                       * Scaled(fee.amount, fee.currency, rate)
    IN  MapThenSumSet(Signed, counted) + Scaled(gas.cost, native, rate)

\* evaluate_threshold(): percents of the input, or for NET_PROFIT whole base
\* tokens, of unit smallest units.
EvaluateThreshold(metric, threshold, gross, costs, input, unit, den, unknown) ==
    /\ metric \in {"NET_ROI", "NET_PROFIT"} => ~unknown
    /\ CASE metric = "GROSS_ROI" -> 100 * gross >= threshold * input * den
         [] metric = "NET_ROI" -> 100 * (gross - costs) >= threshold * input * den
         [] metric = "NET_PROFIT" -> gross - costs >= threshold * unit * den

\* ProfitCalculator.calculate() for a pair that ends in the base token: the
\* status of the calculation, and whether the threshold is passed.
Calculate(data, now) ==
    LET rate == RateFor(data.rate, now)
        scale == IF rate = None THEN [num |-> 0, den |-> 1] ELSE rate
        unknown == UnknownComponents(data.fees, data.gas, data.native, rate, now) # {}
        gross == (data.sellOutput - data.input) * scale.den
        costs == IF unknown THEN 0
                 ELSE TotalCosts(data.fees, data.gas, data.native, scale, now)
    IN  IF data.buyOutput <= 0 \/ data.sellOutput <= 0
        THEN [status |-> "INVALID", passed |-> FALSE]
        ELSE [status |-> IF unknown THEN "PARTIAL" ELSE "COMPLETE",
              passed |-> EvaluateThreshold(data.metric, data.threshold, gross, costs,
                                           data.input, data.unit, scale.den, unknown)]

\* ProfitResult.is_profitable and _status_for() of the verifier.
IsProfitable(result) == result.status = "COMPLETE" /\ result.passed
StatusFor(result) ==
    CASE result.status = "COMPLETE" ->
            IF IsProfitable(result) THEN "VERIFIED_PROFITABLE" ELSE "VERIFIED_UNPROFITABLE"
      [] result.status = "INVALID" -> "FAILED"
      [] result.status = "PARTIAL" -> "UNKNOWN"
===============================================================================
