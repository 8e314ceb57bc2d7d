------------------------------- MODULE Assembly -------------------------------
(***************************************************************************)
(* What an accepted configuration is assembled into: app/container.py, the *)
(* registries (services/registries/), the scope of a scan                  *)
(* (services/level1/scope.py) and the hosts that may be contacted          *)
(* (infrastructure/http/safety.py).  c is an accepted document.            *)
(***************************************************************************)
EXTENDS Configuration

\* Every adapter has a default url of its own.
BaseUrl(p) == IF p.url # None THEN p.url ELSE [scheme |-> "https", host |-> p.id]

Providers(c) == Elements(EnabledProviders(c))
RpcUrls(c) == {n.rpc : n \in Elements(EnabledNetworks(c))} \ {None}

\* Mutant: the urls of the nodes are forgotten.
AllowedHostsWithoutRpc(c) ==
    c.http.extra \cup
    {url.host : url \in {BaseUrl(p) : p \in Providers(c)} \cup ({c.prices.endpoint} \ {None})
                        \cup (IF c.telegram.enabled THEN {c.telegram.url} ELSE {})}

\* _allowed_hosts().
AllowedHosts(c) ==
    c.http.extra \cup
    {url.host : url \in {BaseUrl(p) : p \in Providers(c)} \cup RpcUrls(c)
                        \cup ({c.prices.endpoint} \ {None})
                        \cup (IF c.telegram.enabled THEN {c.telegram.url} ELSE {})}

\* UrlPolicy.validate(): loopback and private addresses never.
Permitted(c, url) ==
    url.scheme = "https" /\ url.host # "localhost" /\ url.host \in AllowedHosts(c)

\* _build_adapters() and _provider_secret(): in the order of the document.
Adapters(c) == [i \in DOMAIN EnabledProviders(c) |-> EnabledProviders(c)[i].id]
Adapter(c, id) == CHOOSE p \in Providers(c) : p.id = id

\* _fee_policies(), _register_provider_limits().
FeePolicies(c) == {p.id : p \in Providers(c)}
Limited(c) == EnabledIds(c)

\* _gas_providers(): the estimate of an adapter is no provider of prices.
GasProviders(c) ==
    (IF "static" \in Elements(c.gas.sources) /\ DOMAIN c.gas.static # {}
        THEN <<"static">> ELSE << >>) \o
    (IF "rpc" \in Elements(c.gas.sources) /\ RpcUrls(c) # {} THEN <<"rpc">> ELSE << >>)

PreferQuotedPrice(c) == "quote" \in Elements(c.gas.sources)

\* _price_providers(): the adapter that quotes is the first of the document.
PriceProviders(c) ==
    (IF "aggregator_quote" \in Elements(c.prices.sources) /\ Adapters(c) # << >>
        THEN <<"aggregator_quote">> ELSE << >>) \o
    (IF "http" \in Elements(c.prices.sources) /\ c.prices.endpoint # None
        THEN <<"http">> ELSE << >>)

\* build_container() raises ConfigurationError without a source of gas prices
\* or of rates.
Assembles(c) == GasProviders(c) # << >> /\ PriceProviders(c) # << >>

\* _build_telegram().
HasTelegram(c) == c.telegram.enabled /\ c.telegram.token # None /\ c.telegram.chat # None

\* The secrets build_container() asks the store for.
AskedSecrets(c) ==
    ({p.key : p \in Providers(c)} \cup
     (IF HasTelegram(c) THEN {c.telegram.token, c.telegram.chat} ELSE {})) \ {None}

\* The urls the assembled parts send requests to.
Contacted(c) ==
    {BaseUrl(p) : p \in Providers(c)}
    \cup (IF "rpc" \in Elements(GasProviders(c)) THEN RpcUrls(c) ELSE {})
    \cup (IF "http" \in Elements(PriceProviders(c)) THEN {c.prices.endpoint} ELSE {})
    \cup (IF HasTelegram(c) THEN {c.telegram.url} ELSE {})

-------------------------------------------------------------------------------
(* Registries                                                                *)

\* NetworkRegistry.wrapped_native_token().
WrappedNative(c, network) ==
    (CHOOSE n \in Elements(c.networks) : n.id = network).wrapped

\* TokenRegistry.get(): disabled tokens included; None for an unknown one.
TokenAt(c, network, address) ==
    LET found == {t \in Elements(c.tokens) : t.network = network /\ t.address = address}
    IN  IF found = {} THEN None ELSE CHOOSE t \in found : TRUE

\* TokenRegistry.scan_tokens(): ranked tokens first.
RanksBefore(a, b) ==
    \/ a.rank # None /\ b.rank = None
    \/ a.rank # None /\ b.rank # None /\ a.rank < b.rank

ScanTokens(c) ==
    LET Candidate(t) == t.enabled /\ t.network = c.scanner.network /\ t.address # c.scanner.token
        sorted == SortSeq(SelectSeq(c.tokens, Candidate), RanksBefore)
    IN  {sorted[i].address : i \in 1..Min({c.level1.top, Len(sorted)})}

\* ProviderRegistry.enabled(), declares_network() and pairs().
Declaring(c) == {p.id : p \in {q \in Providers(c) : c.scanner.network \in q.networks}}
Pairs(c) == {pair \in ProviderPairs(c) : Elements(pair) \subseteq Declaring(c)}

\* ScannerConfig.level1_amount.
Level1Amount(c) ==
    IF c.level1.amount # None THEN c.level1.amount
    ELSE CHOOSE a \in Elements(c.scanner.amounts) :
            \A b \in Elements(c.scanner.amounts) : FromDecimal(a, 3) <= FromDecimal(b, 3)

\* ScopeBuilder.build(): what Level 1 can scan; an amount of its own that the
\* base token cannot represent raises, as does a network nobody declares.
ScopeBuilds(c) ==
    /\ Declaring(c) # {} /\ ScanTokens(c) # {}
    /\ Representable(Level1Amount(c), BaseToken(c).decimals)
===============================================================================
