----------------------------- MODULE Verification -----------------------------
(***************************************************************************)
(* From an installation to a verdict: the configuration is loaded          *)
(* (config/), the application is assembled from it (app/container.py), and *)
(* Level 2 verifies the amounts of an opportunity (services/level2/) with  *)
(* quotes of the providers, the price of gas (services/gas/) and a rate    *)
(* (services/prices/), whatever the outside answers.  The job around the   *)
(* verification is Level2Jobs, requests are admitted by ResourceManager.   *)
(***************************************************************************)
EXTENDS Assembly, Calculator, Verdicts

CONSTANTS
    Installations,   \* documents with their environment
    Answers,         \* what a provider may answer
    RpcAnswers,      \* what a node may answer: None, an error, or prices
    HttpRates,       \* what the price api may answer
    MaxAttempts,     \* attempts of one request
    RateTtl,         \* ticks a rate stays fresh
    ProbeAmount,     \* native units sold to ask for a rate
    PriorityFee,     \* added to a base fee
    MaxClock         \* bound on time

ASSUME VerificationAssumption ==
    /\ MaxAttempts \in Nat \ {0} /\ RateTtl \in Nat \ {0}
    /\ ProbeAmount \in Nat \ {0} /\ PriorityFee \in Nat /\ MaxClock \in Nat

\* None is no value of the code; documents and answers are what their types admit.
ASSUME NoneAssumption == None \notin {"aggregator_quote", "http"}
ASSUME InstallationsAssumption == \A i \in Installations : Accepted(i) => Typed(Effective(i))
ASSUME AnswersAssumption ==
    /\ \A a \in Answers : AnswerTyped(a)
    /\ \A a \in RpcAnswers : a.legacy \in Int \cup {None} /\ a.base \in Int \cup {None}
    /\ \A a \in HttpRates : a.rate \in Int \cup {None}

VARIABLES
    installation,    \* what was loaded, or None
    phase,           \* of the application: see TypeOK
    opportunity,     \* [buy, sell, token] under verification, or None
    results,         \* statuses of the amounts already verified
    leg,             \* what the current amount waits for
    source,          \* index of the source of rates that is asked
    attempt,         \* of the current request
    answer,          \* received and not handled yet, or None
    buy, sell,       \* quotes of the current amount, or None
    gas,             \* its cost, or None before it is estimated
    rate,            \* its rate, or None
    cache,           \* ConversionService._cache, or None
    health,          \* last observation of each provider
    verdict,         \* status given to the opportunity, or None
    clock

amountVars == <<source, attempt, answer, buy, sell, gas, rate>>
appVars == <<installation, opportunity, verdict, clock>>
vars == <<appVars, phase, results, leg, amountVars, cache, health>>

Legs == {"buy", "sell", "gas", "rate", "ask", "calculate", "none"}
Phases == {"off", "rejected", "loaded", "refused", "probing", "running", "verifying", "done", "raised"}
Config == Effective(installation)
BaseUnit == PowerOfTen(BaseToken(Config).decimals)

\* The amounts of Level 2, and the one being verified.
Amounts == [i \in DOMAIN Config.scanner.amounts |->
               FromDecimal(Config.scanner.amounts[i], BaseToken(Config).decimals)]
Amount == Amounts[Len(results) + 1]

Init ==
    /\ installation = None /\ phase = "off" /\ opportunity = None
    /\ results = << >> /\ leg = "none" /\ source = 1 /\ attempt = 1
    /\ answer = None /\ buy = None /\ sell = None /\ gas = None /\ rate = None
    /\ cache = None /\ health = << >> /\ verdict = None /\ clock = 0

-------------------------------------------------------------------------------
(* The start                                                                 *)

\* load_configuration() and _load() of main.
LoadInstallation(i) ==
    /\ phase = "off"
    /\ installation' = i
    /\ phase' = IF Accepted(i) THEN "loaded" ELSE "rejected"
    /\ UNCHANGED <<opportunity, verdict, clock, results, leg, amountVars, cache, health>>

\* build_container().
Assemble ==
    /\ phase = "loaded"
    /\ phase' = IF Assembles(Config) THEN "probing" ELSE "refused"
    /\ health' = [id \in EnabledIds(Config) |-> "UNKNOWN"]
    /\ UNCHANGED <<appVars, results, leg, amountVars, cache>>

\* probe_providers(): every provider is asked in turn; Uniswap does not ask
\* without an address to quote for, and no client asks a url not permitted.
Unasked(id) ==
    \/ id = "uniswap" /\ Adapter(Config, id).swapper = None
    \/ ~Permitted(Config, BaseUrl(Adapter(Config, id)))
Unprobed == SelectSeq(Adapters(Config), LAMBDA id : health[id] = "UNKNOWN")
Probed(state) ==
    /\ health' = [health EXCEPT ![Head(Unprobed)] = state]
    /\ UNCHANGED <<appVars, phase, results, leg, amountVars, cache>>

ProbeUnasked == phase = "probing" /\ Unprobed # << >> /\ Unasked(Head(Unprobed)) /\ Probed("FAILING")
Probe(a) ==
    /\ phase = "probing" /\ Unprobed # << >> /\ ~Unasked(Head(Unprobed)) /\ HealthCheck(Head(Unprobed), a) # "CRASH"
    /\ Probed(HealthCheck(Head(Unprobed), a))

\* What is no MonikError ends the start.
ProbeCrashes(a) ==
    /\ phase = "probing" /\ Unprobed # << >> /\ ~Unasked(Head(Unprobed))
    /\ HealthCheck(Head(Unprobed), a) = "CRASH"
    /\ phase' = "raised"
    /\ UNCHANGED <<appVars, results, leg, amountVars, cache, health>>

StartLoop ==
    /\ phase = "probing" /\ Unprobed = << >>
    /\ phase' = "running"
    /\ UNCHANGED <<appVars, results, leg, amountVars, cache, health>>

\* Level 1 found a pair for a token and handed it over.
Found(pair, token) ==
    /\ phase = "running" /\ ScopeBuilds(Config)
    /\ pair \in Pairs(Config) /\ token \in ScanTokens(Config)
    /\ opportunity' = [buy |-> pair[1], sell |-> pair[2], token |-> token]
    /\ phase' = "verifying" /\ leg' = "buy"
    /\ UNCHANGED <<installation, verdict, clock, results, amountVars, cache, health>>

-------------------------------------------------------------------------------
(* A request for a quote (HealthTrackingAdapter around the adapter)           *)

\* ConversionService.rate(): the sources of rates in their order.
Source ==
    IF source \in DOMAIN PriceProviders(Config) THEN PriceProviders(Config)[source] ELSE None

AskingAdapter ==
    phase = "verifying" /\ (leg \in {"buy", "sell"} \/ (leg = "ask" /\ Source = "aggregator_quote"))

Request ==
    CASE leg = "buy" -> [provider |-> opportunity.buy, operation |-> "BUY", amount |-> Amount]
      [] leg = "sell" ->
            [provider |-> opportunity.sell, operation |-> "SELL", amount |-> buy.output]
      [] leg = "ask" ->
            [provider |-> Adapters(Config)[1], operation |-> "SELL", amount |-> ProbeAmount]

\* What stops a request before it is sent: the adapters support one network,
\* Uniswap needs an address to quote for, the url must be permitted.
SupportedNetworks == {"polygon"}
Refusal(id) ==
    CASE Config.scanner.network \notin SupportedNetworks -> "UNSUPPORTED"
      [] id = "uniswap" /\ Adapter(Config, id).swapper = None -> "CONFIGURATION"
      [] ~Permitted(Config, BaseUrl(Adapter(Config, id))) -> "VALIDATION"
      [] OTHER -> Fine

Receive(a) ==
    /\ AskingAdapter /\ answer = None /\ Refusal(Request.provider) = Fine
    /\ answer' = a
    /\ UNCHANGED <<appVars, phase, results, leg, source, attempt, buy, sell, gas, rate,
                   cache, health>>

Outcome ==
    IF answer = None THEN Raised(Refusal(Request.provider)) ELSE GetQuote(Request, answer)
Answered == AskingAdapter /\ (answer # None \/ Refusal(Request.provider) # Fine)

\* is_retryable(), the attempts counted by ResourceManager.
RetryDue == Outcome.error \in RetryableCategories /\ attempt < MaxAttempts

Retry ==
    /\ Answered /\ RetryDue
    /\ attempt' = attempt + 1 /\ answer' = None
    /\ UNCHANGED <<appVars, phase, results, leg, source, buy, sell, gas, rate, cache, health>>

\* HealthTrackingAdapter._observe(): an error that is no outage is no
\* observation.
Observe ==
    LET id == Request.provider
    IN  health' = IF Outcome.error = Fine THEN [health EXCEPT ![id] = "HEALTHY"]
                  ELSE IF Outcome.error \in AvailabilityFailures
                       THEN [health EXCEPT ![id] = "FAILING"]
                  ELSE health

\* RouteVerifier._check_quote(): the route is the one Level 1 fixed, and the
\* output is not zero.  The quote is always fresh: it is dated when it arrives.
Route(request) ==
    [provider |-> request.provider, operation |-> request.operation, mode |-> "CLASSIC"]
Reproduced ==
    Outcome.error = Fine /\ Matches(Outcome.quote, Route(Request)) /\ Outcome.quote.output > 0

\* The next amount, or the end of them.
AmountEnds(status) ==
    /\ results' = Append(results, status)
    /\ leg' = IF Len(results) + 1 = Len(Amounts) THEN "none" ELSE "buy"
    /\ source' = 1 /\ attempt' = 1 /\ answer' = None
    /\ buy' = None /\ sell' = None /\ gas' = None /\ rate' = None

\* A leg of the route is confirmed, or its error makes the route unavailable.
HandleLeg ==
    /\ Answered /\ ~RetryDue /\ leg \in {"buy", "sell"} /\ Outcome.error # "CRASH"
    /\ Observe
    /\ \/ /\ Reproduced
          /\ leg' = IF leg = "buy" THEN "sell" ELSE "gas"
          /\ buy' = IF leg = "buy" THEN Outcome.quote ELSE buy
          /\ sell' = IF leg = "sell" THEN Outcome.quote ELSE sell
          /\ attempt' = 1 /\ answer' = None
          /\ UNCHANGED <<results, source, gas, rate>>
       \/ ~Reproduced /\ AmountEnds("ROUTE_UNAVAILABLE")
    /\ UNCHANGED <<appVars, phase, cache>>

\* An exception that is no MonikError leaves the verification, and so does an
\* error of a node.
Leaves ==
    /\ phase' = "raised" /\ leg' = "none" /\ answer' = None
    /\ UNCHANGED <<appVars, results, source, attempt, buy, sell, gas, rate, cache, health>>

Crash == Answered /\ Outcome.error = "CRASH" /\ Leaves

-------------------------------------------------------------------------------
(* Gas (Level2Financials.evaluate, GasEstimator.estimate)                     *)

\* RpcGasPriceProvider.gas_price(): the base fee with a fee on top, else the
\* legacy price.
RpcGasPrice(a) ==
    IF a.legacy = None THEN None
    ELSE IF a.base = None THEN a.legacy ELSE a.base + PriorityFee

\* The price that needs no request: of the quotes, or of the configuration.
QuotedPrice == IF PreferQuotedPrice(Config) THEN QuotedGasPrice(buy, sell) ELSE None
StaticPrice ==
    IF "static" \in Elements(GasProviders(Config)) /\ Config.scanner.network \in DOMAIN Config.gas.static
    THEN Config.gas.static[Config.scanner.network] ELSE None
RpcAsked ==
    /\ TotalGasUnits(buy, sell) # None /\ QuotedPrice = None /\ StaticPrice = None
    /\ "rpc" \in Elements(GasProviders(Config))
    /\ \E n \in Elements(EnabledNetworks(Config)) : n.id = Config.scanner.network /\ n.rpc # None

Estimated(price) ==
    /\ gas' = Gas(TotalGasUnits(buy, sell), price)
    /\ leg' = "rate"
    /\ UNCHANGED <<appVars, phase, results, source, attempt, answer, buy, sell, rate, cache, health>>

EstimateGas ==
    /\ leg = "gas" /\ ~RpcAsked
    /\ Estimated(IF QuotedPrice # None THEN QuotedPrice ELSE StaticPrice)

EstimateGasByRpc(a) ==
    /\ leg = "gas" /\ RpcAsked /\ a.error = Fine
    /\ Estimated(RpcGasPrice(a))

RpcFails(a) == leg = "gas" /\ RpcAsked /\ a.error # Fine /\ Leaves

-------------------------------------------------------------------------------
(* The rate of gas (Level2Financials._gas_conversion_rate, ConversionService) *)

NativeToken == TokenAt(Config, Config.scanner.network, WrappedNative(Config, Config.scanner.network))
TargetToken == TokenAt(Config, Config.scanner.network, Config.scanner.token)
NativeCurrency == IF NativeToken = TargetToken THEN "base" ELSE "native"
RateNeeded == NativeToken # None /\ NativeCurrency = "native"
QuotedRate == GasRateFromQuotes(gas, buy, sell, TargetToken.stable)

Converted(found) ==
    /\ rate' = found /\ leg' = "calculate"
    /\ source' = 1 /\ attempt' = 1 /\ answer' = None
    /\ UNCHANGED <<appVars, phase, results, buy, sell, gas>>

\* Without a request: no conversion, the dollars of the quotes, the cache.
Convert ==
    /\ leg = "rate"
    /\ \/ ~RateNeeded /\ Converted(None)
       \/ RateNeeded /\ QuotedRate # None /\ Converted(QuotedRate)
       \/ RateNeeded /\ QuotedRate = None /\ RateFor(cache, clock) # None /\ Converted(cache)
    /\ UNCHANGED <<cache, health>>

AskSources ==
    /\ leg = "rate" /\ RateNeeded /\ QuotedRate = None /\ RateFor(cache, clock) = None
    /\ leg' = "ask"
    /\ UNCHANGED <<appVars, phase, results, amountVars, cache, health>>

NewRate(num, den) == [num |-> num, den |-> den, expires |-> clock + RateTtl]

\* Mutant: a source that has no rate is asked again.
NextSourceAgain ==
    /\ attempt' = 1 /\ answer' = None
    /\ UNCHANGED <<appVars, phase, results, leg, source, buy, sell, gas, rate, cache>>

\* The next source is asked when one has no rate.
NextSource ==
    /\ source' = source + 1 /\ attempt' = 1 /\ answer' = None
    /\ UNCHANGED <<appVars, phase, results, leg, buy, sell, gas, rate, cache>>

Remembered(found) == cache' = found /\ Converted(found)

\* AggregatorQuotePriceProvider.rate(): its errors are no rate.
HandleProbe ==
    /\ Answered /\ ~RetryDue /\ leg = "ask" /\ Outcome.error # "CRASH"
    /\ Observe
    /\ IF Outcome.error = Fine /\ Outcome.quote.output > 0
       THEN Remembered(NewRate(Outcome.quote.output, ProbeAmount))
       ELSE NextSource

\* HttpPriceProvider.rate(): its errors are no rate, but what Decimal() refuses
\* is no MonikError.
AskingHttp == phase = "verifying" /\ leg = "ask" /\ Source = "http"
HandleHttpRate(a) ==
    /\ AskingHttp /\ a.error # "CRASH"
    /\ UNCHANGED health
    /\ IF a.rate # None /\ Permitted(Config, Config.prices.endpoint)
       THEN Remembered(NewRate(a.rate, 1)) ELSE NextSource
HttpRateCrashes(a) ==
    /\ AskingHttp /\ a.error = "CRASH" /\ Permitted(Config, Config.prices.endpoint) /\ Leaves

NoRate ==
    /\ phase = "verifying" /\ leg = "ask" /\ Source = None
    /\ Converted(None) /\ UNCHANGED <<cache, health>>

-------------------------------------------------------------------------------
(* The verdict                                                               *)

\* The fees of the providers are included in their quotes.
IncludedFee(side) ==
    [leg |-> side, known |-> TRUE, expires |-> None, inclusion |-> "INCLUDED_IN_QUOTE",
     currency |-> "base", amount |-> 0, type |-> "AGGREGATOR"]
UnknownFee(side) == [IncludedFee(side) EXCEPT !.known = FALSE, !.inclusion = "UNKNOWN"]
FeesOf(id, side) == IF id \in FeePolicies(Config) THEN IncludedFee(side) ELSE UnknownFee(side)

CalculationInput ==
    [input |-> buy.input, buyOutput |-> buy.output, sellOutput |-> sell.output,
     fees |-> {FeesOf(buy.provider, "buy"), FeesOf(sell.provider, "sell")},
     gas |-> gas, native |-> NativeCurrency, rate |-> rate,
     threshold |-> Config.profitability.final, metric |-> Config.profitability.metric,
     unit |-> BaseUnit]

CalculateProfit ==
    /\ leg = "calculate"
    /\ AmountEnds(StatusFor(Calculate(CalculationInput, clock)))
    /\ UNCHANGED <<appVars, phase, cache, health>>

\* Level2Scanner._finish().
Finished(statuses) ==
    /\ phase' = "done" /\ leg' = "none" /\ results' = statuses
    /\ verdict' = OpportunityStatusFor(Elements(statuses))
    /\ source' = 1 /\ attempt' = 1 /\ answer' = None
    /\ buy' = None /\ sell' = None /\ gas' = None /\ rate' = None
    /\ UNCHANGED <<installation, opportunity, clock, cache, health>>

Finish == phase = "verifying" /\ leg = "none" /\ Finished(results)

\* The timeout of the confirmation: what was verified is thrown away.
TimeOut ==
    /\ phase = "verifying" /\ leg # "none"
    /\ Finished([i \in DOMAIN Amounts |-> "FAILED"])

Tick ==
    /\ phase = "verifying" /\ clock < MaxClock /\ clock' = clock + 1
    /\ UNCHANGED <<installation, opportunity, verdict, phase, results, leg, amountVars,
                   cache, health>>

-------------------------------------------------------------------------------

Step ==
    \/ Assemble \/ ProbeUnasked \/ StartLoop \/ Retry \/ HandleLeg \/ Crash
    \/ EstimateGas \/ Convert \/ AskSources \/ HandleProbe \/ NoRate
    \/ CalculateProfit \/ Finish
    \/ \E a \in Answers : Receive(a) \/ Probe(a) \/ ProbeCrashes(a)
    \/ \E a \in RpcAnswers : EstimateGasByRpc(a) \/ RpcFails(a)
    \/ \E a \in HttpRates : HandleHttpRate(a) \/ HttpRateCrashes(a)

Next ==
    \/ \E i \in Installations : LoadInstallation(i)
    \/ phase = "running" /\ \E pair \in Pairs(Config), token \in ScanTokens(Config) : Found(pair, token)
    \/ Step \/ TimeOut \/ Tick

\* A request ends by its own timeout, so an answer of some kind always comes.
Spec == Init /\ [][Next]_vars /\ WF_vars(Step)

-------------------------------------------------------------------------------
(* Properties                                                                *)

TypeOK ==
    /\ installation \in Installations \cup {None}
    /\ phase \in Phases /\ leg \in Legs
    /\ Elements(results) \subseteq AmountStatuses
    /\ attempt \in 1..MaxAttempts /\ source \in 1..3
    /\ answer \in Answers \cup {None}
    /\ verdict \in OpportunityVerdicts \cup {None}
    /\ clock \in 0..MaxClock
    /\ \A id \in DOMAIN health : health[id] \in {"UNKNOWN", "HEALTHY", "FAILING"}

Built == phase \in {"probing", "running", "verifying", "done", "raised"}

\* What was validated (config/), what is assembled (container.py) and what may
\* be contacted (safety.py) agree: every secret the parts ask for was found at
\* the start, no part is given a url its own client would refuse for not being
\* listed, and whatever pair Level 1 is given has adapters, limits and fees.
AssembledFinds ==
    /\ TypeOK
    /\ Built =>
        /\ \A name \in AskedSecrets(Config) :
               name \in Secrets(installation) /\ Available(FullEnviron(installation), name)
        /\ \A url \in Contacted(Config) : url.scheme = "https" /\ url.host \in AllowedHosts(Config)
        /\ \A pair \in Pairs(Config) :
               Elements(pair) \subseteq
                   Elements(Adapters(Config)) \cap FeePolicies(Config) \cap Limited(Config)
        /\ BaseToken(Config) # None /\ Elements(Amounts) \subseteq Nat \ {0}

\* An amount is judged only on what is known of both legs (amounts.py,
\* financials.py, costs.py): the quotes are of the providers and for the
\* amounts of the chain, both state their gas, gas has a price and a fresh
\* rate, and the verdict is that of the arithmetic.
Chained ==
    /\ buy.provider = opportunity.buy /\ sell.provider = opportunity.sell
    /\ buy.input = Amount /\ sell.input = buy.output /\ sell.output > 0
GasAccounted ==
    /\ buy.units # None /\ sell.units # None /\ gas.known
    /\ \/ NativeCurrency = "base"
       \/ rate # None /\ (rate.expires = None \/ clock < rate.expires)
Gain(num, den) == 100 * ((sell.output - Amount) * den - gas.cost * num)
                  >= Config.profitability.final * Amount * den
VerdictsRestOnKnown ==
    [][ \A status \in {"VERIFIED_PROFITABLE", "VERIFIED_UNPROFITABLE"} :
            Len(results') > Len(results) /\ results'[Len(results')] = status =>
                /\ Chained /\ GasAccounted
                /\ Config.profitability.metric = "NET_ROI" =>
                       (status = "VERIFIED_PROFITABLE" <=>
                           IF NativeCurrency = "base" THEN Gain(1, 1) ELSE Gain(rate.num, rate.den))
      ]_vars

\* What the health of a provider changes on (health_tracking.py with the
\* classification of errors): its own last answer.  It is held to fail only by
\* an outage that outlived the attempts, and to be healthy only by an answer
\* from which a quote could be read.
Outage(id, a) ==
    \/ a.kind \in {"timeout", "transport"}
    \/ a.kind = "response" /\ a.status \in {401, 403, 429} \cup 500..599
    \/ id = "uniswap" /\ a.kind = "response" /\ a.code = "UpstreamTimeoutError"
BlameIsFair ==
    [][ phase = "verifying" => \A id \in DOMAIN health :
            health'[id] # health[id] =>
                /\ id = Request.provider /\ answer # None
                /\ health'[id] = "FAILING" =>
                       Outage(id, answer) /\ (attempt = MaxAttempts \/ answer.status \in {401, 403})
                /\ health'[id] = "HEALTHY" =>
                       answer.status \in 200..299 /\ answer.body # None
      ]_vars

\* Every verification ends (scanner.py, routes.py): with a verdict, or with an
\* exception, whatever is answered and even without the timeout.
VerificationEnds == phase = "verifying" ~> phase \in {"done", "raised"}

\* Where both legs state the dollars of their gas, an amount that is found
\* profitable has paid both (quoted.py:72-75: one leg's dollars are enough).
GasChargedInFull ==
    [][ Len(results') > Len(results) /\ results'[Len(results')] = "VERIFIED_PROFITABLE"
        /\ rate # None /\ TargetToken.stable /\ buy.usd # None /\ sell.usd # None =>
            100 * (sell.output - Amount - buy.usd - sell.usd)
            >= Config.profitability.final * Amount
      ]_vars
===============================================================================
