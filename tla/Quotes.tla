-------------------------------- MODULE Quotes --------------------------------
(***************************************************************************)
(* What an answer of a provider becomes: infrastructure/http/client.py,    *)
(* infrastructure/providers/ and the four adapters.  An answer is a record *)
(*   kind     how the request ended, with a response or without            *)
(*   status   of a response; code: the reason its body gives, or None      *)
(*   body     the quote in it, or the way in which it is none              *)
(* A value of a body is None or [form, n].  The outcome of a request is    *)
(* [quote, error]: a quote, or the category of the error that is raised.   *)
(* The category CRASH is an exception that is no MonikError.               *)
(***************************************************************************)
EXTENDS Configuration

Fine == "fine"

Kinds == {"timeout", "redirects", "oversized", "transport", "response"}
Forms == {"digits", "dashes", "float", "malformed"}
AnswerTyped(a) ==
    /\ a.kind \in Kinds
    /\ a.body # None =>
        \A value \in {a.body.output, a.body.net, a.body.echo, a.body.gas, a.body.fee, a.body.usd} :
            value # None => value.form \in Forms /\ value.n \in Int

\* domain/errors/classification.py.
RetryableCategories == {"NETWORK", "TIMEOUT", "RATE_LIMIT", "PROVIDER"}
\* Mutant: data that cannot be read counts as an outage.
AvailabilityFailuresAndData ==
    {"NETWORK", "TIMEOUT", "RATE_LIMIT", "PROVIDER", "AUTHENTICATION", "DATA"}
AvailabilityFailures ==
    {"NETWORK", "TIMEOUT", "RATE_LIMIT", "PROVIDER", "AUTHENTICATION"}

Quoted(quote) == [quote |-> quote, error |-> Fine]
Raised(category) == [quote |-> None, error |-> category]

\* The first check that does not hold decides.
FirstError(checks) ==
    LET failed == {i \in DOMAIN checks : checks[i] # Fine}
    IN  IF failed = {} THEN Fine ELSE checks[Min(failed)]

-------------------------------------------------------------------------------
(* Values (normalization.py)                                                 *)

\* parse_base_units(): what int() refuses after the check of the digits
\* escapes as a ValueError.
ParseBaseUnits(value) ==
    CASE value.form = "digits" -> IF value.n >= 0 THEN Fine ELSE "DATA"
      [] value.form = "dashes" -> "CRASH"
      [] value.form \in {"float", "malformed"} -> "DATA"

RequireField(value) == IF value = None THEN "DATA" ELSE ParseBaseUnits(value)
OptionalField(value) == IF value = None THEN Fine ELSE ParseBaseUnits(value)

\* parse_optional_decimal(), and the field of the quote is not negative.
ParseOptionalDecimal(value) ==
    IF value = None \/ (value.form = "digits" /\ value.n >= 0) THEN Fine ELSE "DATA"

Number(value) == IF value = None THEN None ELSE value.n

\* build_quote(): the tokens, the network and the operation are those of the
\* request, whatever the body says of them.
BuildQuote(request, output, units, wei, usd, mode) ==
    [provider |-> request.provider, operation |-> request.operation,
     input |-> request.amount, output |-> output, units |-> units, wei |-> wei,
     usd |-> usd, mode |-> mode]

Normalized(checks, quote) ==
    IF FirstError(checks) = Fine THEN Quoted(quote) ELSE Raised(FirstError(checks))

-------------------------------------------------------------------------------
(* The adapters: the body of an accepted answer                              *)

IsObject(body) == IF body.form = "object" THEN Fine ELSE "DATA"
\* _verify_src_amount() of Velora and _verify_sell_amount() of 0x, the same test.
Echoes(request, value) ==
    IF value = None \/ value.n = request.amount THEN Fine ELSE "DATA"

\* ROUTING_MODES of Uniswap: two names mean the same mode.
RoutingModes == [CLASSIC |-> "CLASSIC", DUTCH_LIMIT |-> "DUTCH_V2", DUTCH_V2 |-> "DUTCH_V2",
                 DUTCH_V3 |-> "DUTCH_V3", PRIORITY |-> "PRIORITY"]

\* UniswapAdapter._to_quote(): the price of gas is its cost by its units.
UniswapQuote(request, body) ==
    LET units == Number(body.gas)
        priced == body.fee # None /\ units \notin {None, 0}
    IN  Normalized(
            <<IsObject(body), IF body.mode \in DOMAIN RoutingModes THEN Fine ELSE "DATA",
              RequireField(body.output), ParseOptionalDecimal(body.usd),
              OptionalField(body.gas), IF priced THEN ParseBaseUnits(body.fee) ELSE Fine>>,
            BuildQuote(request, Number(body.output), units,
                       IF priced THEN Number(body.fee) \div units ELSE None,
                       Number(body.usd), RoutingModes[body.mode]))

\* VeloraAdapter._to_quote(): the output after the fee where it is given.
VeloraQuote(request, body) ==
    LET output == IF body.net # None THEN body.net ELSE body.output
    IN  Normalized(
            <<IsObject(body), RequireField(output), OptionalField(body.echo),
              Echoes(request, body.echo), ParseOptionalDecimal(body.usd),
              OptionalField(body.gas)>>,
            BuildQuote(request, Number(output), Number(body.gas), None,
                       Number(body.usd), "CLASSIC"))

\* ZeroXAdapter._to_quote(): no liquidity is said in an accepted answer.
ZeroXQuote(request, body) ==
    Normalized(
        <<IsObject(body), IF body.liquid THEN Fine ELSE "NO_ROUTE",
          RequireField(body.output), OptionalField(body.echo),
          Echoes(request, body.echo), OptionalField(body.fee), OptionalField(body.gas)>>,
        BuildQuote(request, Number(body.output), Number(body.gas), Number(body.fee),
                   None, "CLASSIC"))

\* OneInchAdapter._to_quote(): what amount was quoted is not verified.
OneInchQuote(request, body) ==
    Normalized(
        <<IsObject(body), RequireField(body.output), OptionalField(body.gas),
          ParseOptionalDecimal(body.impact)>>,
        BuildQuote(request, Number(body.output), Number(body.gas), None, None, "CLASSIC"))

\* _to_quote() of the adapter that is registered for the provider.
ToQuote(request, body) ==
    CASE request.provider = "uniswap" -> UniswapQuote(request, body)
      [] request.provider = "velora" -> VeloraQuote(request, body)
      [] request.provider = "zero_x" -> ZeroXQuote(request, body)
      [] request.provider = "oneinch" -> OneInchQuote(request, body)

-------------------------------------------------------------------------------
(* The adapters: an answer that is no success                                *)

\* no_route_reason(), route_rejection_reason() and temporary_failure_reason();
\* 1inch has none of them.
UniswapRefusal(answer) ==
    CASE answer.status = 404 /\ answer.code = "NoRouteFoundError" -> "NO_ROUTE"
      [] answer.status = 404 /\ answer.code = "UpstreamTimeoutError" -> "PROVIDER"
      [] OTHER -> None
VeloraRefusal(answer) ==
    CASE answer.status = 404 /\ answer.code = "No routes found" -> "NO_ROUTE"
      [] answer.status = 400 /\ answer.code = "ESTIMATED_LOSS" -> "ROUTE_REJECTED"
      [] OTHER -> None
ZeroXRefusal(answer) ==
    IF answer.status = 400 /\ answer.code = "SWAP_VALIDATION_FAILED" THEN "NO_ROUTE" ELSE None

KnownRefusal(provider, answer) ==
    CASE provider = "uniswap" -> UniswapRefusal(answer)
      [] provider = "velora" -> VeloraRefusal(answer)
      [] provider = "zero_x" -> ZeroXRefusal(answer)
      [] OTHER -> None

\* classify_response(): a Retry-After that is no finite number overflows.
ClassifyResponse(answer) ==
    CASE answer.status \in 200..299 -> Fine
      [] answer.status = 429 -> IF answer.code = "inf" THEN "CRASH" ELSE "RATE_LIMIT"
      [] answer.status \in {401, 403} -> "AUTHENTICATION"
      [] answer.status \in 500..599 -> "PROVIDER"
      [] OTHER -> "DATA"

\* HttpxClient.send().
Send(answer) ==
    CASE answer.kind = "timeout" -> "TIMEOUT"
      [] answer.kind \in {"redirects", "oversized"} -> "DATA"
      [] answer.kind = "transport" -> "NETWORK"
      [] OTHER -> Fine

\* HttpProviderAdapter.request() and request_json(): the error of an answer; the
\* refusals an adapter knows come before the status.
RequestJson(provider, answer) ==
    LET refusal == KnownRefusal(provider, answer)
    IN  IF Send(answer) # Fine THEN Send(answer)
        ELSE IF answer.status \notin 200..299 /\ refusal # None THEN refusal
        ELSE IF ClassifyResponse(answer) # Fine THEN ClassifyResponse(answer)
        ELSE IF answer.body = None THEN "DATA" ELSE Fine

\* get_quote(), alike in the four adapters but for the conversion.
GetQuote(request, answer) ==
    LET error == RequestJson(request.provider, answer)
    IN  IF error = Fine THEN ToQuote(request, answer.body) ELSE Raised(error)

\* health_check(): an answer of the api that is JSON is enough, and every error
\* is the same.
HealthCheck(provider, answer) ==
    CASE RequestJson(provider, answer) = Fine -> "HEALTHY"
      [] RequestJson(provider, answer) = "CRASH" -> "CRASH"
      [] OTHER -> "FAILING"

\* The identity of a route: its liquidity is not compared.
Matches(quote, route) ==
    /\ quote.provider = route.provider
    /\ quote.operation = route.operation
    /\ quote.mode = route.mode
===============================================================================
