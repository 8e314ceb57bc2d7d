---------------------------- MODULE Configuration ----------------------------
(***************************************************************************)
(* Which documents become a configuration (config/): the environment file, *)
(* the MONIK__ overrides, the validation of each section and of the whole, *)
(* and the secrets that must be present.  A document is a record of        *)
(* sections; a value keeps what the validators tell apart.                 *)
(***************************************************************************)
EXTENDS Integers, FiniteSets, SequencesExt

CONSTANT None

Elements(s) == {s[i] : i \in DOMAIN s}
Unique(s, Key(_)) == \A i, j \in DOMAIN s : Key(s[i]) = Key(s[j]) => i = j

(* A url is [scheme, host] or None; an amount is [value, digits]: value units *)
(* of the last of its digits after the point.                               *)
Https(url) == url # None => url.scheme = "https"

Representable(amount, decimals) == amount.digits <= decimals
PowerOfTen(n) == LET power[k \in 0..n] == IF k = 0 THEN 1 ELSE 10 * power[k - 1] IN power[n]
FromDecimal(amount, decimals) == amount.value * PowerOfTen(decimals - amount.digits)

-------------------------------------------------------------------------------
(* The environment                                                           *)

\* load_env_file(): the first candidate that can be read is the only one
\* applied.
EnvFile(candidates) ==
    LET readable == {i \in DOMAIN candidates : candidates[i] # None}
    IN  IF readable = {} THEN << >> ELSE candidates[Min(readable)]

\* _apply(): what the process already has wins over the file.
WithFile(environ, file) ==
    [name \in DOMAIN environ \cup DOMAIN file |->
        IF name \in DOMAIN environ THEN environ[name] ELSE file[name]]

\* SecretResolver.resolve(): set, and not only blanks.
Available(environ, name) == name \in DOMAIN environ /\ environ[name] # "blank"

-------------------------------------------------------------------------------
(* Overrides: [section, field, parts], the parts between the commas          *)

\* _coerce_scalar(): only a comma makes a list.
CoerceScalar(o) == IF Len(o.parts) > 1 THEN o.parts ELSE o.parts[1]

\* A section that is a list cannot be descended into; a field of tuple type
\* does not take a scalar.
OverrideFits(d, o) ==
    /\ o.section \notin {"networks", "providers", "tokens"}
    /\ o.field \in {"sources", "amounts"} => Len(o.parts) > 1

\* _apply_env_overrides().
Overridden(d, o) == [d EXCEPT ![o.section][o.field] = CoerceScalar(o)]

-------------------------------------------------------------------------------
(* The sections.  d.unsafe: the switches set away from their only legal value *)

ApplicationValid(d) == d.application.zone # "invalid"
CapabilitiesValid(d) == "treat_unknown_as_supported" \notin d.unsafe

DatabaseValid(d) ==
    /\ "foreign_keys_enabled" \notin d.unsafe
    /\ d.database.backups => d.database.directory # None
    /\ ".." \notin Elements(d.database.path)

FeesValid(d) == "fees.treat_unknown_as_zero" \notin d.unsafe

GasValid(d) ==
    /\ "gas.treat_unknown_as_zero" \notin d.unsafe
    /\ d.gas.sources # << >> /\ IsInjective(d.gas.sources)
    /\ "static" \in Elements(d.gas.sources) => DOMAIN d.gas.static # {}
    /\ \A network \in DOMAIN d.gas.static : d.gas.static[network] > 0

PricesValid(d) ==
    /\ d.prices.sources # << >> /\ IsInjective(d.prices.sources)
    /\ "http" \in Elements(d.prices.sources) => d.prices.endpoint # None
    /\ Https(d.prices.endpoint)

HealthValid(d) == d.health.degraded <= d.health.failure

HttpValid(d) ==
    /\ "verify_tls" \notin d.unsafe
    /\ d.http.redirects => d.http.follow

NetworksValid(d) == \A n \in Elements(d.networks) : Https(n.rpc)

ProfitabilityValid(d) ==
    /\ "treat_unknown_cost_as_blocking" \notin d.unsafe
    /\ d.profitability.preliminary <= d.profitability.final

ProvidersValid(d) ==
    \A p \in Elements(d.providers) : Https(p.url) /\ (p.enabled => p.networks # {})
RoutesValid(d) ==
    /\ d.routes.same \/ \A pair \in Elements(d.routes.pairs) : pair[1] # pair[2]
    /\ IsInjective(d.routes.pairs)

ResourcesValid(d) ==
    /\ d.resources.initialDelay <= d.resources.maxDelay
    /\ "respect_retry_after" \notin d.unsafe

Level1Valid(d) == d.level1.timeout <= d.level1.interval

Level2Valid(d) ==
    /\ "require_route_confirmation" \notin d.unsafe
    /\ d.level2.timeout <= d.level2.ttl

ScannerValid(d) ==
    /\ d.scanner.amounts # << >> /\ IsInjective(d.scanner.amounts)
    /\ \A amount \in Elements(d.scanner.amounts) : amount.value > 0

\* TaskScheduleConfig: every mode has its own fields and no others.
TaskValid(t) ==
    /\ (t.mode = "interval") = (t.seconds # None)
    /\ (t.mode \in {"daily", "weekly"}) = (t.time # None)
    /\ t.mode \in {"daily", "weekly"} => t.zone # None
    /\ (t.mode = "weekly") = (t.weekday # None)
    /\ t.zone # "invalid"

SchedulerValid(d) == \A t \in Elements(d.tasks) : TaskValid(t)

TelegramValid(t) ==
    /\ Https(t.url)
    /\ t.enabled => t.token # None /\ t.chat # None

NotificationsValid(d) ==
    /\ TelegramValid(d.telegram)
    /\ d.notifications.initialDelay <= d.notifications.maxDelay
    /\ d.notifications.enabled => d.telegram.enabled

SectionsValid(d) ==
    /\ ApplicationValid(d) /\ CapabilitiesValid(d) /\ DatabaseValid(d) /\ FeesValid(d)
    /\ GasValid(d) /\ PricesValid(d) /\ HealthValid(d) /\ HttpValid(d) /\ NetworksValid(d)
    /\ ProfitabilityValid(d) /\ ProvidersValid(d) /\ RoutesValid(d) /\ ResourcesValid(d)
    /\ Level1Valid(d) /\ Level2Valid(d) /\ ScannerValid(d) /\ SchedulerValid(d)
    /\ NotificationsValid(d)

-------------------------------------------------------------------------------
(* The whole document (root.py)                                              *)

\* The enabled ones of some items, in their order.
OnlyEnabled(items) ==
    LET kept[n \in 0..Len(items)] ==
            IF n = 0 THEN << >>
            ELSE IF items[n].enabled THEN Append(kept[n - 1], items[n]) ELSE kept[n - 1]
    IN  kept[Len(items)]

EnabledNetworks(d) == OnlyEnabled(d.networks)
EnabledProviders(d) == OnlyEnabled(d.providers)
EnabledTokens(d) == OnlyEnabled(d.tokens)
EnabledIds(d) == {p.id : p \in Elements(EnabledProviders(d))}

UniqueIdentities(d) ==
    /\ Unique(d.networks, LAMBDA n : n.id)
    /\ Unique(d.providers, LAMBDA p : p.id)
    /\ Unique(d.tokens, LAMBDA t : <<t.network, t.address>>)

StartupRequirements(d) ==
    EnabledNetworks(d) # << >> /\ EnabledProviders(d) # << >> /\ EnabledTokens(d) # << >>

\* RoutePolicyConfig.is_allowed() and Configuration.provider_pairs().
PairAllowed(d, buy, sell) ==
    /\ buy = sell => d.routes.same
    /\ d.routes.pairs = << >> \/ <<buy, sell>> \in Elements(d.routes.pairs)

ProviderPairs(d) ==
    {<<pair[1].id, pair[2].id>> : pair \in
        {pair \in Elements(EnabledProviders(d)) \X Elements(EnabledProviders(d)) :
            /\ pair[1] = pair[2] => pair[1].roundTrip
            /\ PairAllowed(d, pair[1].id, pair[2].id)}}

CrossReferences(d) ==
    LET known == {n.id : n \in Elements(d.networks)}
        enabled == {n.id : n \in Elements(EnabledNetworks(d))}
    IN  /\ \A t \in Elements(EnabledTokens(d)) : t.network \in enabled
        /\ \A p \in Elements(EnabledProviders(d)) :
               p.networks \cap enabled # {} /\ p.networks \subseteq known
        /\ \A pair \in Elements(d.routes.pairs) : Elements(pair) \subseteq EnabledIds(d)
        /\ ProviderPairs(d) # {}

\* The enabled token of the scanner's network at address; None without one.
EnabledToken(d, address) ==
    LET found == {t \in Elements(EnabledTokens(d)) :
                     t.network = d.scanner.network /\ t.address = address}
    IN  IF found = {} THEN None ELSE CHOOSE t \in found : TRUE

BaseToken(d) == EnabledToken(d, d.scanner.token)

ScannerScope(d) ==
    /\ d.scanner.network \in {n.id : n \in Elements(EnabledNetworks(d))}
    /\ BaseToken(d) # None
    /\ \A amount \in Elements(d.scanner.amounts) : Representable(amount, BaseToken(d).decimals)
    /\ \E t \in Elements(EnabledTokens(d)) :
           t.network = d.scanner.network /\ t.address # d.scanner.token

ProductionSafety(d) ==
    d.application.production =>
        /\ ~d.application.debug /\ d.database.integrity
        /\ \A p \in Elements(EnabledProviders(d)) : p.key # None

DocumentValid(d) ==
    /\ SectionsValid(d) /\ UniqueIdentities(d) /\ StartupRequirements(d)
    /\ CrossReferences(d) /\ ScannerScope(d) /\ ProductionSafety(d)

\* What the types of the fields grant of an accepted document.
ProviderIds == {"uniswap", "velora", "zero_x", "oneinch"}
Typed(d) ==
    /\ d.networks \in Seq(Elements(d.networks))
    /\ d.providers \in Seq(Elements(d.providers))
    /\ \A p \in Elements(d.providers) : p.id \in ProviderIds
    /\ d.tokens \in Seq(Elements(d.tokens))
    /\ \A t \in Elements(d.tokens) : t.decimals \in Nat
    /\ d.scanner.amounts \in Seq(Elements(d.scanner.amounts))
    /\ \A a \in Elements(d.scanner.amounts) : a.value \in Int /\ a.digits \in Nat
    /\ \A network \in DOMAIN d.gas.static : d.gas.static[network] \in Int
    /\ d.telegram.url # None

-------------------------------------------------------------------------------
(* Loading                                                                   *)

\* _collect_secret_refs(): the variables an accepted document must find.
SecretRefs(d) ==
    ({p.key : p \in Elements(EnabledProviders(d))} \cup
     (IF d.telegram.enabled THEN {d.telegram.token, d.telegram.chat} ELSE {})) \ {None}

\* load_env_file() and parse_configuration(): an installation is a document,
\* the process environment, candidate files and an override or None.
FullEnviron(i) == WithFile(i.environ, EnvFile(i.files))
Effective(i) == IF i.override = None THEN i.document ELSE Overridden(i.document, i.override)
Accepted(i) ==
    /\ i.override # None => OverrideFits(i.document, i.override)
    /\ DocumentValid(Effective(i))
    /\ \A name \in SecretRefs(Effective(i)) : Available(FullEnviron(i), name)

\* SecretStore: the values the container may ask for.
Secrets(i) == SecretRefs(Effective(i))
===============================================================================
