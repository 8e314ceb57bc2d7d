---------------------------- MODULE MCVerification ----------------------------
(***************************************************************************)
(* Two installations that are accepted, one for development and one for    *)
(* production, and the first with one thing changed at a time; everything  *)
(* the code tells apart in an answer of a provider, a node or the price    *)
(* api.                                                                    *)
(***************************************************************************)
EXTENDS Verification

Url(host) == [scheme |-> "https", host |-> host]
Plain(host) == [scheme |-> "http", host |-> host]
Token(address, decimals, rank) ==
    [network |-> "polygon", address |-> address, enabled |-> TRUE, decimals |-> decimals,
     stable |-> FALSE, rank |-> rank]
Provider(id, key) ==
    [id |-> id, enabled |-> TRUE, url |-> None, key |-> key, networks |-> {"polygon"},
     roundTrip |-> FALSE, swapper |-> "address"]
Units(n) == [value |-> n, digits |-> 0]

MCDevelopment ==
    [application |-> [production |-> FALSE, zone |-> "UTC", debug |-> TRUE],
     networks |-> <<[id |-> "polygon", enabled |-> TRUE, rpc |-> Url("node"), wrapped |-> "wpol"],
                    [id |-> "other", enabled |-> FALSE, rpc |-> None, wrapped |-> "weth"]>>,
     providers |-> <<Provider("velora", "PARTNER"), Provider("uniswap", "UNI_KEY")>>,
     tokens |-> <<[Token("usdt", 2, None) EXCEPT !.stable = TRUE], Token("wpol", 2, 2), Token("aave", 2, 1)>>,
     routes |-> [same |-> FALSE, pairs |-> << >>],
     scanner |-> [network |-> "polygon", token |-> "usdt", amounts |-> <<Units(1)>>],
     level1 |-> [timeout |-> 30, interval |-> 60, top |-> 1, amount |-> None],
     level2 |-> [timeout |-> 30, ttl |-> 60],
     profitability |-> [preliminary |-> 3, final |-> 5, metric |-> "NET_ROI"],
     gas |-> [sources |-> <<"rpc", "static">>, static |-> [polygon |-> 1]],
     prices |-> [sources |-> <<"aggregator_quote", "http">>, endpoint |-> Url("prices")],
     health |-> [degraded |-> 1, failure |-> 3],
     http |-> [redirects |-> FALSE, follow |-> TRUE, extra |-> {}],
     resources |-> [initialDelay |-> 1, maxDelay |-> 5],
     tasks |-> <<[mode |-> "interval", seconds |-> 60, time |-> None, zone |-> None, weekday |-> None]>>,
     database |-> [backups |-> TRUE, directory |-> "backups", path |-> <<"data", "monik.db">>,
                   integrity |-> TRUE],
     telegram |-> [enabled |-> TRUE, token |-> "TG_TOKEN", chat |-> "TG_CHAT",
                   url |-> Url("telegram")],
     notifications |-> [enabled |-> TRUE, initialDelay |-> 1, maxDelay |-> 5],
     unsafe |-> {}]

MCProduction ==
    [MCDevelopment EXCEPT
        !.application = [production |-> TRUE, zone |-> "UTC", debug |-> FALSE],
        !.providers = <<Provider("zero_x", "ZX_KEY"), Provider("oneinch", "INCH_KEY")>>,
        !.routes.pairs = <<<<"zero_x", "oneinch">>>>,
        !.scanner.amounts = <<Units(1), Units(2)>>,
        !.gas = [sources |-> <<"rpc">>, static |-> << >>],
        !.prices = [sources |-> <<"http">>, endpoint |-> Url("prices")],
        !.telegram.enabled = FALSE, !.notifications.enabled = FALSE]

\* Changes that are refused: by a section, by the document, by production.
D == MCDevelopment
MCRefusedDocuments ==
    {[D EXCEPT !.application.zone = "invalid"], [D EXCEPT !.unsafe = {"verify_tls"}],
     [D EXCEPT !.unsafe = {"treat_unknown_as_supported"}], [D EXCEPT !.unsafe = {"foreign_keys_enabled"}],
     [D EXCEPT !.unsafe = {"fees.treat_unknown_as_zero"}], [D EXCEPT !.unsafe = {"gas.treat_unknown_as_zero"}],
     [D EXCEPT !.unsafe = {"treat_unknown_cost_as_blocking"}], [D EXCEPT !.unsafe = {"respect_retry_after"}],
     [D EXCEPT !.unsafe = {"require_route_confirmation"}],
     [D EXCEPT !.database.directory = None], [D EXCEPT !.database.path = <<"..", "monik.db">>],
     [D EXCEPT !.gas.sources = << >>], [D EXCEPT !.gas.static = << >>],
     [D EXCEPT !.prices.endpoint = None], [D EXCEPT !.prices.endpoint = Plain("prices")],
     [D EXCEPT !.health.degraded = 4], [D EXCEPT !.http = [redirects |-> TRUE, follow |-> FALSE, extra |-> {}]],
     [D EXCEPT !.profitability.preliminary = 6], [D EXCEPT !.level1.timeout = 61],
     [D EXCEPT !.level2.timeout = 61], [D EXCEPT !.scanner.amounts = <<Units(0)>>],
     [D EXCEPT !.scanner.amounts = <<[value |-> 1, digits |-> 3]>>],
     [D EXCEPT !.scanner.token = "dai"], [D EXCEPT !.scanner.network = "other"],
     [D EXCEPT !.tasks[1].zone = "invalid"], [D EXCEPT !.tasks[1].seconds = None],
     [D EXCEPT !.telegram.chat = None], [D EXCEPT !.telegram.enabled = FALSE],
     [D EXCEPT !.providers = <<Provider("velora", None), Provider("velora", None)>>],
     [D EXCEPT !.routes.pairs = <<<<"uniswap", "zero_x">>>>],
     [D EXCEPT !.routes.pairs = <<<<"uniswap", "uniswap">>>>],
     [D EXCEPT !.providers[1].networks = {"polygon", "unknown"}],
     [D EXCEPT !.resources.initialDelay = 6], [D EXCEPT !.tokens = SubSeq(D.tokens, 1, 1)],
     [MCProduction EXCEPT !.application.debug = TRUE],
     [MCProduction EXCEPT !.providers[1].key = None]}

\* Changes that are accepted.
MCAcceptedDocuments ==
    {D, MCProduction,
     [D EXCEPT !.gas.sources = <<"quote", "static">>, !.tokens[1].stable = FALSE],
     [D EXCEPT !.gas.sources = <<"rpc">>, !.gas.static = << >>, !.networks[1].rpc = None],
     [D EXCEPT !.gas.static = [other |-> 1], !.networks[1].rpc = None],
     [D EXCEPT !.providers[1].url = Url("localhost")],
     [D EXCEPT !.providers[2].swapper = None],
     [D EXCEPT !.level1.amount = [value |-> 1, digits |-> 3]],
     [D EXCEPT !.networks[1].wrapped = "usdt", !.profitability.metric = "NET_PROFIT"],
     [D EXCEPT !.networks[1].wrapped = "none", !.profitability.metric = "GROSS_ROI"]}

MCEnviron == [UNI_KEY |-> "set", ZX_KEY |-> "set", TG_CHAT |-> "set"]
MCFiles == <<None, [PARTNER |-> "set", INCH_KEY |-> "set", TG_TOKEN |-> "set", UNI_KEY |-> "blank"]>>
Installed(d) == [document |-> d, environ |-> MCEnviron, files |-> MCFiles, override |-> None]

MCInstallations ==
    {Installed(d) : d \in MCRefusedDocuments \cup MCAcceptedDocuments}
    \cup {[Installed(D) EXCEPT !.files = <<[PARTNER |-> "blank"]>>],
          [Installed(D) EXCEPT !.override = [section |-> "gas", field |-> "sources", parts |-> <<"static">>]],
          [Installed(D) EXCEPT !.override = [section |-> "application", field |-> "zone", parts |-> <<"invalid">>]]}

-------------------------------------------------------------------------------
(* Answers                                                                   *)

Digits(n) == [form |-> "digits", n |-> n]
Body(output) ==
    [form |-> "object", output |-> Digits(output), net |-> None, echo |-> None, gas |-> Digits(2),
     fee |-> Digits(2), usd |-> None, mode |-> "CLASSIC", liquid |-> TRUE, impact |-> None]

Silence(kind) == [kind |-> kind, status |-> 0, code |-> None, body |-> None]
Status(status, code) == [kind |-> "response", status |-> status, code |-> code, body |-> None]
Answer(body) == [kind |-> "response", status |-> 200, code |-> None, body |-> body]

MCAnswers ==
    {Silence(kind) : kind \in {"timeout", "redirects", "transport"}}
    \cup {Status(429, None), Status(429, "inf"), Status(401, None), Status(302, None),
          Status(503, None), Status(404, "NoRouteFoundError"), Status(404, "UpstreamTimeoutError"),
          Status(400, "ESTIMATED_LOSS"), Status(400, "SWAP_VALIDATION_FAILED"), Status(200, None)}
    \cup {Answer(body) : body \in
            {Body(110), [Body(107) EXCEPT !.usd = Digits(2)], Body(0),
             [Body(110) EXCEPT !.net = Digits(100), !.liquid = FALSE],
             [Body(110) EXCEPT !.gas = None, !.echo = Digits(110)],
             [Body(110) EXCEPT !.output = [form |-> "dashes", n |-> 5]],
             [Body(110) EXCEPT !.output = [form |-> "float", n |-> 5]],
             [Body(110) EXCEPT !.mode = "DUTCH_LIMIT"], [Body(110) EXCEPT !.form = "list"]}}

MCRpcAnswers ==
    {[error |-> Fine, legacy |-> 1, base |-> None], [error |-> Fine, legacy |-> 1, base |-> 1],
     [error |-> Fine, legacy |-> None, base |-> None], [error |-> "NETWORK", legacy |-> None, base |-> None]}
MCHttpRates ==
    {[error |-> Fine, rate |-> 1], [error |-> Fine, rate |-> None],
     [error |-> "NETWORK", rate |-> None], [error |-> "CRASH", rate |-> None]}
===============================================================================
