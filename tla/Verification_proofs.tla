-------------------------- MODULE Verification_proofs --------------------------
(***************************************************************************)
(* What holds from an installation to a verdict, for every document that   *)
(* is accepted and whatever is answered.  Three kinds of facts are needed. *)
(* Of the configuration: what DocumentValid checks is what the assembly    *)
(* relies on (Sound).  Of the answers: an outcome that is a quote answers  *)
(* the request, and an error says which answer it came from.  Of the       *)
(* steps: each leg of an amount continues the one before (ChainInv), and   *)
(* what is counted are integers.                                           *)
(***************************************************************************)
EXTENDS Verification, NaturalsInduction, WellFoundedInduction, TLAPS

-------------------------------------------------------------------------------
(* Recursive functions.  A set of naturals has a least element, which does   *)
(* for them what induction would.                                            *)

\* Every set of naturals that is not empty has a least element.
LEMMA LeastNatural ==
    ASSUME NEW T, T \subseteq Nat, T # {}
    PROVE  \E x \in T : \A y \in T : x <= y
<1> DEFINE R == {ss \in Nat \X Nat : ss[1] < ss[2]}
<1>1. IsWellFoundedOn(R, Nat)  BY NatLessThanWellFounded DEF OpToRel
<1>2. \A x, y \in T : y < x => <<y, x>> \in R
  <2>1. SUFFICES ASSUME NEW x \in T, NEW y \in T, y < x PROVE <<y, x>> \in R  OBVIOUS
  <2>2. <<y, x>> \in Nat \X Nat  OBVIOUS
  <2>3. <<y, x>>[1] = y /\ <<y, x>>[2] = x  OBVIOUS
  <2>4. QED  BY <2>1, <2>2, <2>3, Zenon
<1> HIDE DEF R
<1>3. \E x \in T : \A y \in T : ~(<<y, x>> \in R)  BY <1>1, WFMin
<1>4. \E x \in T : \A y \in T : ~(y < x)  BY <1>2, <1>3, Zenon
<1>5. QED  BY <1>4

\* A set that has 0 and of every number the next has all of them.
LEMMA StepByStep ==
    ASSUME NEW n \in Nat, NEW S, 0 \in S, \A i \in 1..n : i - 1 \in S => i \in S
    PROVE  \A i \in 0..n : i \in S
<1> DEFINE Missing == {i \in 0..n : i \notin S}
<1>1. SUFFICES ASSUME Missing # {} PROVE FALSE  OBVIOUS
<1>2. Missing \subseteq Nat  OBVIOUS
<1> HIDE DEF Missing
<1>3. PICK least \in Missing : \A i \in Missing : least <= i  BY <1>1, <1>2, LeastNatural
<1>4. least \in 1..n /\ least \notin S  BY <1>3 DEF Missing
<1>5. least - 1 \in 0..n /\ least - 1 \notin Missing  BY <1>2, <1>3, <1>4
<1>6. QED  BY <1>4, <1>5 DEF Missing

\* A recurrence over 0..n has a solution.
Recurs(f, n, base, step) == f[0] = base /\ \A i \in 1..n : f[i] = step[i][f[i - 1]]

LEMMA Recurrence ==
    ASSUME NEW n \in Nat, NEW V, NEW base \in V, NEW step \in [1..n -> [V -> V]]
    PROVE  \E f \in [0..n -> V] : Recurs(f, n, base, step)
<1> DEFINE Solves(f, k) == f[0] = base /\ \A i \in 1..k : f[i] = step[i][f[i - 1]]
           Solved == {k \in 0..n : \E f \in [0..k -> V] : Solves(f, k)}
<1>1. 0 \in Solved
  <2> DEFINE f == [i \in 0..0 |-> base]
  <2>1. f \in [0..0 -> V] /\ f[0] = base  OBVIOUS
  <2>2. 1..0 = {}  OBVIOUS
  <2> HIDE DEF f
  <2>3. Solves(f, 0)  BY <2>1, <2>2
  <2>4. QED  BY <2>1, <2>3
<1>2. ASSUME NEW k \in 1..n, k - 1 \in Solved  PROVE k \in Solved
  <2>1. PICK f \in [0..(k - 1) -> V] : Solves(f, k - 1)  BY <1>2
  <2>2. f[k - 1] \in V /\ step[k][f[k - 1]] \in V  BY <2>1
  <2> DEFINE last == step[k][f[k - 1]]
             g == [i \in 0..k |-> IF i = k THEN last ELSE f[i]]
  <2> HIDE DEF last
  <2>3. g \in [0..k -> V]  BY <2>1, <2>2 DEF last
  <2>4. /\ 0 \in 0..k /\ k \in 0..k /\ k - 1 \in 0..k /\ k # 0 /\ k # k - 1
        /\ g[0] = f[0] /\ g[k] = last /\ g[k - 1] = f[k - 1]
        BY <1>2
  <2>5. ASSUME NEW i \in 1..(k - 1)  PROVE g[i] = step[i][g[i - 1]]
        BY <2>1
  <2> HIDE DEF g
  <2>6. g[k] = step[k][g[k - 1]]  BY <2>4 DEF last
  <2>7. Solves(g, k)  BY <2>1, <2>4, <2>5, <2>6
  <2> HIDE DEF Solves
  <2>8. k \in 0..n /\ \E h \in [0..k -> V] : Solves(h, k)  BY <2>3, <2>7
  <2>9. QED  BY <2>8
<1> HIDE DEF Solved
<1>3. \A k \in 0..n : k \in Solved  BY <1>1, <1>2, StepByStep
<1>4. n \in Solved  BY <1>3
<1>5. QED  BY <1>4 DEF Solved, Recurs

\* Decimal.scaleb() of an amount: a power of ten is a positive natural.
LEMMA PowersOfTen ==
    ASSUME NEW n \in Nat
    PROVE  PowerOfTen(n) \in Nat \ {0}
<1> DEFINE V == Nat \ {0}
           Is(p) == p = [k \in 0..n |-> IF k = 0 THEN 1 ELSE 10 * p[k - 1]]
           step == [i \in 1..n |-> [v \in V |-> 10 * v]]
           power == CHOOSE p : Is(p)
<1>1. step \in [1..n -> [V -> V]] /\ 1 \in V  OBVIOUS
<1>2. \A i \in 1..n : \A v \in V : step[i][v] = 10 * v  OBVIOUS
<1>3. \E p : Is(p)
  <2> HIDE DEF step, V
  <2>1. PICK f \in [0..n -> V] : Recurs(f, n, 1, step)  BY <1>1, Recurrence
  <2>2. ASSUME NEW i \in 1..n  PROVE f[i] = 10 * f[i - 1]
    <3>1. f[i - 1] \in V /\ f[i] = step[i][f[i - 1]]  BY <2>1 DEF Recurs
    <3>2. QED  BY <1>2, <3>1
  <2>3. Is(f)  BY <2>1, <2>2 DEF Recurs
  <2>4. QED  BY <2>3
<1>4. PowerOfTen(n) = power[n]  BY DEF PowerOfTen
<1>5. Is(power)  BY <1>3
<1> HIDE DEF power, step
<1>6. power[0] = 1 /\ \A i \in 1..n : power[i] = 10 * power[i - 1]  BY <1>5
<1> DEFINE S == {i \in 0..n : power[i] \in V}
<1>7. 0 \in S  BY <1>6
<1>8. \A i \in 1..n : i - 1 \in S => i \in S  BY <1>6
<1> HIDE DEF S
<1>9. \A i \in 0..n : i \in S  BY <1>7, <1>8, StepByStep
<1>10. QED  BY <1>4, <1>9 DEF S

\* A list keeps only enabled items when it is filtered (_enabled()).
LEMMA EnabledItems ==
    ASSUME NEW T, NEW items \in Seq(T)
    PROVE  OnlyEnabled(items) \in Seq({t \in Elements(items) : t.enabled})
<1> DEFINE n == Len(items)
           V == Seq({t \in Elements(items) : t.enabled})
           After(k, v) == IF items[k].enabled THEN Append(v, items[k]) ELSE v
           Is(p) == p = [k \in 0..n |-> IF k = 0 THEN << >> ELSE After(k, p[k - 1])]
           step == [i \in 1..n |-> [v \in V |-> After(i, v)]]
           kept == CHOOSE p : Is(p)
<1>0. n \in Nat /\ << >> \in V  OBVIOUS
<1>1. ASSUME NEW k \in 1..n, NEW v \in V  PROVE After(k, v) \in V
  <2>1. items[k] \in Elements(items)  BY DEF Elements
  <2>2. QED  BY <2>1
<1>2. OnlyEnabled(items) = kept[n]  BY DEF OnlyEnabled
<1> HIDE DEF After, V, n
<1>3. step \in [1..n -> [V -> V]]  BY <1>1
<1>4. \A i \in 1..n : \A v \in V : step[i][v] = After(i, v)  OBVIOUS
<1> HIDE DEF step
<1>5. \E p : Is(p)
  <2>1. PICK f \in [0..n -> V] : Recurs(f, n, << >>, step)  BY <1>0, <1>3, Recurrence
  <2>2. ASSUME NEW i \in 1..n  PROVE f[i] = After(i, f[i - 1])
    <3>1. f[i - 1] \in V /\ f[i] = step[i][f[i - 1]]  BY <1>0, <2>1 DEF Recurs
    <3>2. QED  BY <1>4, <3>1
  <2>3. Is(f)  BY <1>0, <2>1, <2>2 DEF Recurs
  <2>4. QED  BY <2>3
<1>6. Is(kept)  BY <1>5
<1> HIDE DEF kept
<1>7. kept[0] = << >> /\ \A i \in 1..n : kept[i] = After(i, kept[i - 1])  BY <1>0, <1>6
<1> DEFINE S == {i \in 0..n : kept[i] \in V}
<1>8. 0 \in S  BY <1>0, <1>7
<1>9. \A i \in 1..n : i - 1 \in S => i \in S  BY <1>0, <1>1, <1>7
<1> HIDE DEF S
<1>10. \A i \in 0..n : i \in S  BY <1>0, <1>8, <1>9, StepByStep
<1>11. QED  BY <1>0, <1>2, <1>10 DEF S, V

-------------------------------------------------------------------------------
(* The configuration (config/) and what is assembled from it (container.py). *)

\* What the start accepted, with the types its models give it.
Sound(d) == DocumentValid(d) /\ Typed(d)

\* _enabled(): what is enabled is listed.
LEMMA EnabledParts ==
    ASSUME NEW d, Sound(d)
    PROVE  /\ EnabledProviders(d) \in Seq(Elements(d.providers))
           /\ Len(EnabledProviders(d)) >= 1
           /\ Providers(d) \subseteq Elements(d.providers)
           /\ Elements(EnabledNetworks(d)) \subseteq Elements(d.networks)
           /\ Elements(EnabledTokens(d)) \subseteq Elements(d.tokens)
<1>1. ASSUME NEW items, items \in Seq(Elements(items))
      PROVE  /\ OnlyEnabled(items) \in Seq(Elements(items))
             /\ Elements(OnlyEnabled(items)) \subseteq Elements(items)
  <2> DEFINE E == Elements(items)
             F == {t \in E : t.enabled}
  <2>1. OnlyEnabled(items) \in Seq(F)  BY <1>1, EnabledItems
  <2>2. F \subseteq E  OBVIOUS
  <2> HIDE DEF E, F
  <2>3. OnlyEnabled(items) \in Seq(E)  BY <2>1, <2>2
  <2>4. \A i \in DOMAIN OnlyEnabled(items) : OnlyEnabled(items)[i] \in E  BY <2>3
  <2>5. QED  BY <2>3, <2>4 DEF E, Elements
<1>2. /\ d.providers \in Seq(Elements(d.providers))
      /\ d.networks \in Seq(Elements(d.networks))
      /\ d.tokens \in Seq(Elements(d.tokens))
      BY DEF Sound, Typed
<1>3. EnabledProviders(d) # << >>  BY DEF Sound, DocumentValid, StartupRequirements
<1>4. EnabledProviders(d) \in Seq(Elements(d.providers))  BY <1>1, <1>2 DEF EnabledProviders
<1>5. Len(EnabledProviders(d)) >= 1  BY <1>3, <1>4
<1>6. QED
      BY <1>1, <1>2, <1>4, <1>5 DEF EnabledProviders, EnabledNetworks, EnabledTokens, Providers

\* _price_providers(): at most two sources, and the api only with its address.
LEMMA PriceSources ==
    ASSUME NEW d
    PROVE  /\ PriceProviders(d) \in Seq({"aggregator_quote", "http"})
           /\ Len(PriceProviders(d)) <= 2
           /\ "http" \in Elements(PriceProviders(d)) => d.prices.endpoint # None
<1> DEFINE First == IF "aggregator_quote" \in Elements(d.prices.sources) /\ Adapters(d) # << >>
                    THEN <<"aggregator_quote">> ELSE << >>
           Second == IF "http" \in Elements(d.prices.sources) /\ d.prices.endpoint # None
                     THEN <<"http">> ELSE << >>
<1>1. PriceProviders(d) = First \o Second  BY DEF PriceProviders
<1>2. First \in {<< >>, <<"aggregator_quote">>}  OBVIOUS
<1>3. Second = << >> \/ (Second = <<"http">> /\ d.prices.endpoint # None)  OBVIOUS
<1> HIDE DEF First, Second
<1>4. PriceProviders(d) \in Seq({"aggregator_quote", "http"}) /\ Len(PriceProviders(d)) <= 2
  <2> DEFINE S == {"aggregator_quote", "http"}
  <2>a. << >> \in Seq(S) /\ Len(<< >>) = 0  OBVIOUS
  <2>b. ASSUME NEW x \in S  PROVE <<x>> \in Seq(S) /\ Len(<<x>>) = 1  OBVIOUS
  <2>c. "aggregator_quote" \in S /\ "http" \in S  OBVIOUS
  <2>1. First \in Seq(S) /\ Len(First) <= 1
    <3>1. CASE First = << >>  BY <3>1, <2>a
    <3>2. CASE First = <<"aggregator_quote">>  BY <3>2, <2>b, <2>c
    <3>3. QED  BY <1>2, <3>1, <3>2
  <2>2. Second \in Seq(S) /\ Len(Second) <= 1
    <3>1. CASE Second = << >>  BY <3>1, <2>a
    <3>2. CASE Second = <<"http">>  BY <3>2, <2>b, <2>c
    <3>3. QED  BY <1>3, <3>1, <3>2
  <2> HIDE DEF S
  <2>3. First \o Second \in Seq(S) /\ Len(First \o Second) = Len(First) + Len(Second)
        BY <2>1, <2>2
  <2>4. Len(First) \in Nat /\ Len(Second) \in Nat  BY <2>1, <2>2
  <2>5. QED  BY <1>1, <2>1, <2>2, <2>3, <2>4 DEF S
<1>5. ASSUME Second = << >>  PROVE "http" \notin Elements(PriceProviders(d))
  <2>1. PriceProviders(d) = First  BY <1>1, <1>2, <1>5
  <2>2. \A i \in DOMAIN First : First[i] = "aggregator_quote"  BY <1>2
  <2>3. QED  BY <2>1, <2>2 DEF Elements
<1>6. QED  BY <1>3, <1>4, <1>5

\* config/ with _allowed_hosts() and _build_*: whatever is contacted is listed.
LEMMA ContactsListed ==
    ASSUME NEW d, Sound(d), NEW url \in Contacted(d)
    PROVE  url.scheme = "https" /\ url.host \in AllowedHosts(d)
<1> DEFINE Urls == {BaseUrl(p) : p \in Providers(d)} \cup RpcUrls(d)
                   \cup ({d.prices.endpoint} \ {None})
                   \cup (IF d.telegram.enabled THEN {d.telegram.url} ELSE {})
<1>1. url \in Urls
  <2>1. "http" \in Elements(PriceProviders(d)) => d.prices.endpoint # None  BY PriceSources
  <2>2. HasTelegram(d) => d.telegram.enabled  BY DEF HasTelegram
  <2>3. QED  BY <2>1, <2>2 DEF Contacted
<1>2. url.host \in AllowedHosts(d)  BY <1>1 DEF AllowedHosts
<1>3. SectionsValid(d)  BY DEF Sound, DocumentValid
<1>4. CASE url \in {BaseUrl(p) : p \in Providers(d)}
  <2>1. PICK p \in Providers(d) : url = BaseUrl(p)  BY <1>4
  <2>2. Https(p.url)  BY <1>3, <2>1, EnabledParts DEF SectionsValid, ProvidersValid
  <2>3. QED  BY <1>2, <2>1, <2>2 DEF BaseUrl, Https
<1>5. CASE url \in RpcUrls(d)
  <2>1. PICK n \in Elements(EnabledNetworks(d)) : url = n.rpc /\ n.rpc # None
        BY <1>5 DEF RpcUrls
  <2>2. Https(n.rpc)  BY <1>3, <2>1, EnabledParts DEF SectionsValid, NetworksValid
  <2>3. QED  BY <1>2, <2>1, <2>2 DEF Https
<1>6. CASE url \in {d.prices.endpoint} \ {None}
      BY <1>2, <1>3, <1>6 DEF SectionsValid, PricesValid, Https
<1>7. CASE url = d.telegram.url
      BY <1>2, <1>3, <1>7 DEF SectionsValid, NotificationsValid, TelegramValid, Https, Sound, Typed
<1>8. QED  BY <1>1, <1>4, <1>5, <1>6, <1>7

\* _collect_secret_refs() with what the container asks for.
LEMMA SecretsCollected ==
    ASSUME NEW d PROVE AskedSecrets(d) \subseteq SecretRefs(d)
BY DEF AskedSecrets, SecretRefs, Providers, HasTelegram

\* Every pair has adapters, fee policies and limits.
LEMMA PairsServed ==
    ASSUME NEW d, Sound(d), NEW pair \in Pairs(d)
    PROVE  /\ pair[1] \in EnabledIds(d) /\ pair[2] \in EnabledIds(d)
           /\ Elements(pair) \subseteq Elements(Adapters(d)) \cap FeePolicies(d) \cap Limited(d)
<1>1. PICK both \in Providers(d) \X Providers(d) : pair = <<both[1].id, both[2].id>>
      BY DEF Pairs, ProviderPairs, Providers
<1>2. /\ both[1] \in Providers(d) /\ both[2] \in Providers(d)
      /\ Elements(pair) = {both[1].id, both[2].id}
      BY <1>1 DEF Elements
<1>3. ASSUME NEW p \in Providers(d)
      PROVE  /\ p.id \in Elements(Adapters(d)) \cap FeePolicies(d) \cap Limited(d)
             /\ p.id \in EnabledIds(d)
  <2>1. PICK i \in DOMAIN EnabledProviders(d) : p = EnabledProviders(d)[i]
        BY DEF Providers, Elements
  <2>2. i \in DOMAIN Adapters(d) /\ Adapters(d)[i] = p.id  BY <2>1 DEF Adapters
  <2>3. p.id \in Elements(Adapters(d))  BY <2>2 DEF Elements
  <2>4. QED  BY <2>3 DEF FeePolicies, Limited, EnabledIds, Providers
<1>4. QED  BY <1>1, <1>2, <1>3

\* The ids of enabled providers are those of the enumeration, and one is there.
LEMMA KnownIds ==
    ASSUME NEW d, Sound(d)
    PROVE  /\ EnabledIds(d) \subseteq ProviderIds
           /\ Adapters(d)[1] \in EnabledIds(d)
<1>1. \A p \in Providers(d) : p.id \in ProviderIds  BY EnabledParts DEF Sound, Typed
<1>2. EnabledIds(d) = {p.id : p \in Providers(d)}  BY DEF EnabledIds, Providers
<1>3. 1 \in DOMAIN EnabledProviders(d)  BY EnabledParts
<1>4. EnabledProviders(d)[1] \in Providers(d)  BY <1>3 DEF Providers, Elements
<1>5. Adapters(d)[1] = EnabledProviders(d)[1].id  BY <1>3 DEF Adapters
<1>6. QED  BY <1>1, <1>2, <1>4, <1>5

\* from_decimal(): the amounts of a sound document are positive integers.
LEMMA AmountsPositive ==
    ASSUME NEW d, Sound(d)
    PROVE  /\ BaseToken(d) # None
           /\ \A a \in Elements(d.scanner.amounts) :
                 FromDecimal(a, BaseToken(d).decimals) \in Nat \ {0}
<1>1. BaseToken(d) # None  BY DEF Sound, DocumentValid, ScannerScope
<1> DEFINE found == {t \in Elements(EnabledTokens(d)) :
                        t.network = d.scanner.network /\ t.address = d.scanner.token}
<1>2. BaseToken(d) \in found
  <2>1. BaseToken(d) = IF found = {} THEN None ELSE CHOOSE t \in found : TRUE
        BY DEF BaseToken, EnabledToken
  <2> HIDE DEF found
  <2>2. found # {}  BY <1>1, <2>1
  <2>3. QED  BY <2>1, <2>2
<1>3. BaseToken(d) \in Elements(d.tokens)  BY <1>2, EnabledParts
<1>4. BaseToken(d).decimals \in Nat  BY <1>3 DEF Sound, Typed
<1>5. ASSUME NEW a \in Elements(d.scanner.amounts)
      PROVE  FromDecimal(a, BaseToken(d).decimals) \in Nat \ {0}
  <2>1. a.value \in Int /\ a.digits \in Nat  BY DEF Sound, Typed
  <2>2. a.value > 0  BY DEF Sound, DocumentValid, SectionsValid, ScannerValid
  <2>3. a.digits <= BaseToken(d).decimals  BY DEF Sound, DocumentValid, ScannerScope, Representable
  <2> DEFINE n == BaseToken(d).decimals - a.digits
             p == PowerOfTen(n)
  <2>4. n \in Nat  BY <1>4, <2>1, <2>3
  <2>5. p \in Nat \ {0}  BY <2>4, PowersOfTen
  <2>6. FromDecimal(a, BaseToken(d).decimals) = a.value * p  BY DEF FromDecimal
  <2> HIDE DEF n, p
  <2>7. a.value * p \in Nat \ {0}  BY <2>1, <2>2, <2>5
  <2>8. QED  BY <2>6, <2>7
<1>6. QED  BY <1>1, <1>5

-------------------------------------------------------------------------------
(* The answers (infrastructure/http/, infrastructure/providers/).            *)

BodyErrors == {Fine, "DATA", "CRASH", "NO_ROUTE"}

\* What the numbers of a quote are, and whose quote it is.
QuoteTyped(quote) ==
    /\ quote.output \in Int
    /\ quote.units \in Int \cup {None}
    /\ quote.wei \in Int \cup {None}
    /\ quote.usd \in Int \cup {None}
AnswersRequest(quote, request) ==
    /\ QuoteTyped(quote)
    /\ quote.provider = request.provider /\ quote.input = request.amount

\* The first failed check is one of them; without one, all hold.
LEMMA FirstErrorIsOne ==
    ASSUME NEW S, NEW checks \in Seq(S)
    PROVE  /\ FirstError(checks) \in S \cup {Fine}
           /\ FirstError(checks) = Fine => \A i \in DOMAIN checks : checks[i] = Fine
<1> DEFINE failed == {i \in DOMAIN checks : checks[i] # Fine}
<1>1. FirstError(checks) = IF failed = {} THEN Fine ELSE checks[Min(failed)]
      BY DEF FirstError
<1>2. failed \subseteq DOMAIN checks /\ failed \subseteq Nat  OBVIOUS
<1> HIDE DEF failed
<1>3. failed # {} => Min(failed) \in failed
  <2>1. SUFFICES ASSUME failed # {} PROVE Min(failed) \in failed  OBVIOUS
  <2>2. \E x \in failed : \A y \in failed : x <= y  BY <1>2, <2>1, LeastNatural
  <2>3. QED  BY <2>2 DEF Min
<1>4. FirstError(checks) \in S \cup {Fine}  BY <1>1, <1>2, <1>3
<1>5. failed # {} => checks[Min(failed)] # Fine  BY <1>3 DEF failed
<1>6. QED  BY <1>1, <1>4, <1>5 DEF failed

\* normalization.py: how a value can be refused, and what one is that is not.
LEMMA ValueErrors ==
    ASSUME NEW value, value # None => value.form \in Forms /\ value.n \in Int
    PROVE  /\ RequireField(value) \in BodyErrors
           /\ OptionalField(value) \in BodyErrors
           /\ value # None => ParseBaseUnits(value) \in BodyErrors
           /\ RequireField(value) = Fine => Number(value) \in Int
           /\ Number(value) \in Int \cup {None}
           /\ OptionalField(value) = Fine => Number(value) = None \/ Number(value) >= 0
<1>1. value # None => ParseBaseUnits(value) \in BodyErrors
      BY DEF ParseBaseUnits, Forms, BodyErrors, Fine
<1>2. RequireField(value) = Fine => value # None  BY DEF RequireField, Fine
<1>3. Number(value) = IF value = None THEN None ELSE value.n  BY DEF Number
<1>4. value # None /\ ParseBaseUnits(value) = Fine => value.n >= 0
      BY DEF ParseBaseUnits, Forms, Fine
<1>5. OptionalField(value) = Fine => Number(value) = None \/ Number(value) >= 0
      BY <1>3, <1>4 DEF OptionalField
<1>6. QED  BY <1>1, <1>2, <1>3, <1>5 DEF RequireField, OptionalField, BodyErrors

\* A quote is what was read, and then every check held.
LEMMA NormalizedIs ==
    ASSUME NEW checks \in Seq(BodyErrors), NEW quote
    PROVE  /\ Normalized(checks, quote).error \in BodyErrors
           /\ Normalized(checks, quote).error = Fine =>
                 /\ Normalized(checks, quote).quote = quote
                 /\ \A i \in DOMAIN checks : checks[i] = Fine
<1>1. /\ FirstError(checks) \in BodyErrors
      /\ FirstError(checks) = Fine => \A i \in DOMAIN checks : checks[i] = Fine
      BY FirstErrorIsOne DEF BodyErrors
<1>2. Normalized(checks, quote) = IF FirstError(checks) = Fine THEN Quoted(quote)
                                  ELSE Raised(FirstError(checks))
      BY DEF Normalized
<1>3. CASE FirstError(checks) = Fine  BY <1>1, <1>2, <1>3 DEF Quoted, BodyErrors
<1>4. CASE FirstError(checks) # Fine  BY <1>1, <1>2, <1>4 DEF Raised
<1>5. QED  BY <1>3, <1>4

\* The checks that are about no number.
LEMMA OtherErrors ==
    ASSUME NEW body, NEW request, NEW value
    PROVE  /\ IsObject(body) \in BodyErrors /\ Echoes(request, value) \in BodyErrors
           /\ ParseOptionalDecimal(value) \in BodyErrors
BY DEF IsObject, Echoes, ParseOptionalDecimal, BodyErrors

\* build_quote(): it is the quote of the request.
LEMMA BuiltQuote ==
    ASSUME NEW request, NEW o \in Int, NEW u \in Int \cup {None}, NEW w \in Int \cup {None},
           NEW d \in Int \cup {None}, NEW m
    PROVE  AnswersRequest(BuildQuote(request, o, u, w, d, m), request)
BY DEF BuildQuote, AnswersRequest, QuoteTyped

\* The four adapters: a body is refused, or becomes a quote for the request.
LEMMA QuoteErrors ==
    ASSUME NEW request, request.provider \in ProviderIds, NEW a, AnswerTyped(a), a.body # None
    PROVE  LET q == ToQuote(request, a.body) IN
           /\ q.error \in BodyErrors
           /\ q.error = Fine => AnswersRequest(q.quote, request)
<1> DEFINE body == a.body
           q == ToQuote(request, body)
           Good == /\ q.error \in BodyErrors
                   /\ q.error = Fine => AnswersRequest(q.quote, request)
           Values == {body.output, body.net, body.echo, body.gas, body.fee, body.usd}
<1>0. ASSUME NEW value \in Values
      PROVE  value # None => value.form \in Forms /\ value.n \in Int
      BY DEF AnswerTyped
<1>1. ASSUME NEW value \in Values
      PROVE  /\ RequireField(value) \in BodyErrors
             /\ OptionalField(value) \in BodyErrors
             /\ value # None => ParseBaseUnits(value) \in BodyErrors
             /\ RequireField(value) = Fine => Number(value) \in Int
             /\ Number(value) \in Int \cup {None}
             /\ OptionalField(value) = Fine => Number(value) = None \/ Number(value) >= 0
      BY <1>0, ValueErrors
<1>2. Fine \in BodyErrors /\ "DATA" \in BodyErrors /\ "NO_ROUTE" \in BodyErrors  BY DEF BodyErrors
<1>3. CASE request.provider = "uniswap"
  <2> DEFINE units == Number(body.gas)
             priced == body.fee # None /\ units \notin {None, 0}
             mode == IF body.mode \in DOMAIN RoutingModes THEN Fine ELSE "DATA"
             fee == IF priced THEN ParseBaseUnits(body.fee) ELSE Fine
             checks == <<IsObject(body), mode, RequireField(body.output),
                         ParseOptionalDecimal(body.usd), OptionalField(body.gas), fee>>
             wei == IF priced THEN Number(body.fee) \div units ELSE None
             quote == BuildQuote(request, Number(body.output), units, wei,
                          Number(body.usd), RoutingModes[body.mode])
  <2>1. q = Normalized(checks, quote)  BY <1>3 DEF ToQuote, UniswapQuote
  <2>2. mode \in BodyErrors /\ fee \in BodyErrors  BY <1>1, <1>2
  <2>3. checks \in Seq(BodyErrors)  BY <1>1, <2>2, OtherErrors
  <2>4. ASSUME RequireField(body.output) = Fine, OptionalField(body.gas) = Fine
        PROVE  AnswersRequest(quote, request)
    <3>1. Number(body.output) \in Int  BY <1>1, <2>4
    <3>2. units \in Int \cup {None} /\ Number(body.usd) \in Int \cup {None}  BY <1>1
    <3>3. wei \in Int \cup {None}
      <4>1. CASE ~priced  BY <4>1
      <4>2. CASE priced
        <5>1. units \in Int /\ units > 0  BY <1>1, <2>4, <3>2, <4>2
        <5>2. Number(body.fee) \in Int
          <6>1. body.fee # None  BY <4>2
          <6>2. body.fee.n \in Int  BY <1>0, <6>1
          <6>3. QED  BY <6>1, <6>2 DEF Number
        <5>3. wei = Number(body.fee) \div units  BY <4>2
        <5> HIDE DEF wei, units, priced
        <5>4. QED  BY <5>1, <5>2, <5>3
      <4>3. QED  BY <4>1, <4>2
    <3> HIDE DEF wei, units, priced
    <3>4. QED  BY <3>1, <3>2, <3>3, BuiltQuote
  <2>5. checks[3] = RequireField(body.output) /\ checks[5] = OptionalField(body.gas)
        /\ 3 \in DOMAIN checks /\ 5 \in DOMAIN checks
        OBVIOUS
  <2> HIDE DEF checks, q, quote
  <2>6. q.error = Fine => q.quote = quote /\ checks[3] = Fine /\ checks[5] = Fine
        BY <2>1, <2>3, <2>5, NormalizedIs
  <2>7. q.error \in BodyErrors  BY <2>1, <2>3, NormalizedIs
  <2>8. q.error = Fine => AnswersRequest(q.quote, request)  BY <2>4, <2>5, <2>6
  <2>9. QED  BY <2>7, <2>8 DEF q
<1>4. CASE request.provider = "velora"
  <2> DEFINE output == IF body.net # None THEN body.net ELSE body.output
             checks == <<IsObject(body), RequireField(output), OptionalField(body.echo),
                         Echoes(request, body.echo), ParseOptionalDecimal(body.usd),
                         OptionalField(body.gas)>>
             quote == BuildQuote(request, Number(output), Number(body.gas), None,
                                 Number(body.usd), "CLASSIC")
  <2>1. q = Normalized(checks, quote)  BY <1>4 DEF ToQuote, VeloraQuote
  <2>2. output \in Values  OBVIOUS
  <2>3. checks \in Seq(BodyErrors)  BY <1>1, <2>2, OtherErrors
  <2>4. ASSUME RequireField(output) = Fine
        PROVE  AnswersRequest(quote, request)
    <3>1. Number(output) \in Int  BY <1>1, <2>4
    <3>2. /\ Number(body.gas) \in Int \cup {None} /\ Number(body.usd) \in Int \cup {None}
          /\ Number(body.fee) \in Int \cup {None} /\ None \in Int \cup {None}
          BY <1>1
    <3>3. QED  BY <3>1, <3>2, BuiltQuote
  <2>5. checks[2] = RequireField(output) /\ 2 \in DOMAIN checks  OBVIOUS
  <2> HIDE DEF checks, q, quote
  <2>6. q.error = Fine => q.quote = quote /\ checks[2] = Fine
        BY <2>1, <2>3, <2>5, NormalizedIs
  <2>7. q.error \in BodyErrors  BY <2>1, <2>3, NormalizedIs
  <2>8. q.error = Fine => AnswersRequest(q.quote, request)  BY <2>4, <2>5, <2>6
  <2>9. QED  BY <2>7, <2>8 DEF q
<1>5. CASE request.provider = "zero_x"
  <2> DEFINE liquid == IF body.liquid THEN Fine ELSE "NO_ROUTE"
             checks == <<IsObject(body), liquid, RequireField(body.output),
                         OptionalField(body.echo), Echoes(request, body.echo),
                         OptionalField(body.fee), OptionalField(body.gas)>>
             quote == BuildQuote(request, Number(body.output), Number(body.gas),
                                 Number(body.fee), None, "CLASSIC")
  <2>1. q = Normalized(checks, quote)  BY <1>5 DEF ToQuote, ZeroXQuote
  <2>2. liquid \in BodyErrors  BY <1>2
  <2>3. checks \in Seq(BodyErrors)  BY <1>1, <2>2, OtherErrors
  <2>4. ASSUME RequireField(body.output) = Fine
        PROVE  AnswersRequest(quote, request)
    <3>1. Number(body.output) \in Int  BY <1>1, <2>4
    <3>2. /\ Number(body.gas) \in Int \cup {None} /\ Number(body.usd) \in Int \cup {None}
          /\ Number(body.fee) \in Int \cup {None} /\ None \in Int \cup {None}
          BY <1>1
    <3>3. QED  BY <3>1, <3>2, BuiltQuote
  <2>5. checks[3] = RequireField(body.output) /\ 3 \in DOMAIN checks  OBVIOUS
  <2> HIDE DEF checks, q, quote
  <2>6. q.error = Fine => q.quote = quote /\ checks[3] = Fine
        BY <2>1, <2>3, <2>5, NormalizedIs
  <2>7. q.error \in BodyErrors  BY <2>1, <2>3, NormalizedIs
  <2>8. q.error = Fine => AnswersRequest(q.quote, request)  BY <2>4, <2>5, <2>6
  <2>9. QED  BY <2>7, <2>8 DEF q
<1>6. CASE request.provider = "oneinch"
  <2> DEFINE checks == <<IsObject(body), RequireField(body.output), OptionalField(body.gas),
                         ParseOptionalDecimal(body.impact)>>
             quote == BuildQuote(request, Number(body.output), Number(body.gas), None, None,
                                 "CLASSIC")
  <2>1. q = Normalized(checks, quote)  BY <1>6 DEF ToQuote, OneInchQuote
  <2>3. checks \in Seq(BodyErrors)  BY <1>1, OtherErrors
  <2>4. ASSUME RequireField(body.output) = Fine
        PROVE  AnswersRequest(quote, request)
    <3>1. Number(body.output) \in Int  BY <1>1, <2>4
    <3>2. /\ Number(body.gas) \in Int \cup {None} /\ Number(body.usd) \in Int \cup {None}
          /\ Number(body.fee) \in Int \cup {None} /\ None \in Int \cup {None}
          BY <1>1
    <3>3. QED  BY <3>1, <3>2, BuiltQuote
  <2>5. checks[2] = RequireField(body.output) /\ 2 \in DOMAIN checks  OBVIOUS
  <2> HIDE DEF checks, q, quote
  <2>6. q.error = Fine => q.quote = quote /\ checks[2] = Fine
        BY <2>1, <2>3, <2>5, NormalizedIs
  <2>7. q.error \in BodyErrors  BY <2>1, <2>3, NormalizedIs
  <2>8. q.error = Fine => AnswersRequest(q.quote, request)  BY <2>4, <2>5, <2>6
  <2>9. QED  BY <2>7, <2>8 DEF q
<1>7. QED  BY <1>3, <1>4, <1>5, <1>6 DEF ProviderIds

\* request_json(): which answer an error, or none, comes from.
LEMMA RequestErrors ==
    ASSUME NEW id, NEW a, AnswerTyped(a)
    PROVE  LET error == RequestJson(id, a) IN
           /\ error = Fine => a.status \in 200..299 /\ a.body # None
           /\ error \in AvailabilityFailures => Outage(id, a)
           /\ error = "AUTHENTICATION" => a.status \in {401, 403}
<1> DEFINE error == RequestJson(id, a)
           refusal == KnownRefusal(id, a)
<1>1. CASE Send(a) # Fine
  <2>1. error = Send(a)  BY <1>1 DEF RequestJson
  <2>2. QED  BY <1>1, <2>1 DEF Send, AvailabilityFailures, Outage, Fine
<1>2. CASE Send(a) = Fine /\ a.status \notin 200..299 /\ refusal # None
  <2>1. error = refusal  BY <1>2 DEF RequestJson
  <2>2. a.kind = "response"  BY <1>2 DEF Send, AnswerTyped, Kinds, Fine
  <2>3. \/ refusal \in {"NO_ROUTE", "ROUTE_REJECTED"}
        \/ refusal = "PROVIDER" /\ id = "uniswap" /\ a.code = "UpstreamTimeoutError"
        BY <1>2 DEF KnownRefusal, UniswapRefusal, VeloraRefusal, ZeroXRefusal
  <2> HIDE DEF error, refusal
  <2>4. QED  BY <2>1, <2>2, <2>3 DEF AvailabilityFailures, Outage, Fine, error
<1>3. CASE Send(a) = Fine /\ ~(a.status \notin 200..299 /\ refusal # None)
  <2>1. error = IF ClassifyResponse(a) # Fine THEN ClassifyResponse(a)
                ELSE IF a.body = None THEN "DATA" ELSE Fine
        BY <1>3 DEF RequestJson
  <2>2. a.kind = "response"  BY <1>3 DEF Send, AnswerTyped, Kinds, Fine
  <2>3. \/ ClassifyResponse(a) = Fine /\ a.status \in 200..299
        \/ ClassifyResponse(a) \in {"CRASH", "RATE_LIMIT"} /\ a.status = 429
        \/ ClassifyResponse(a) = "AUTHENTICATION" /\ a.status \in {401, 403}
        \/ ClassifyResponse(a) = "PROVIDER" /\ a.status \in 500..599
        \/ ClassifyResponse(a) = "DATA"
        BY DEF ClassifyResponse
  <2> HIDE DEF error, refusal
  <2>4. QED  BY <2>1, <2>2, <2>3 DEF AvailabilityFailures, Outage, Fine, error
<1>4. QED  BY <1>1, <1>2, <1>3

-------------------------------------------------------------------------------
(* The invariant.                                                            *)

HealthStates == {"UNKNOWN", "HEALTHY", "FAILING"}
TypeInv ==
    /\ TypeOK
    /\ results \in Seq(AmountStatuses)
    /\ health \in [DOMAIN health -> HealthStates]

\* What runs was accepted, ...
LoadedInv ==
    phase \notin {"off", "rejected"} => installation \in Installations /\ Accepted(installation)

\* ... what waits for an answer verifies a pair of it, ...
PhaseInv ==
    /\ leg # "none" => phase = "verifying"
    /\ phase = "verifying" =>
          opportunity.buy \in EnabledIds(Config) /\ opportunity.sell \in EnabledIds(Config)

\* ... and every leg of an amount continues the one before.
BuyConfirmed ==
    QuoteTyped(buy) /\ buy.provider = opportunity.buy /\ buy.input = Amount
SellConfirmed ==
    /\ QuoteTyped(sell) /\ sell.provider = opportunity.sell
    /\ sell.input = buy.output /\ sell.output > 0
GasFounded == gas.known => buy.units # None /\ sell.units # None /\ gas.cost \in Int
ChainInv ==
    /\ leg \in {"sell", "gas", "rate", "ask", "calculate"} => BuyConfirmed
    /\ leg \in {"gas", "rate", "ask", "calculate"} => SellConfirmed
    /\ leg \in {"rate", "ask", "calculate"} => GasFounded
    /\ leg = "ask" => RateNeeded
    /\ leg = "calculate" /\ ~RateNeeded => rate = None

\* A rate is one of integers, remembered or used.
RateTyped(found) == found # None => found.num \in Int /\ found.den \in Int
RatesInv == RateTyped(cache) /\ (leg = "calculate" => RateTyped(rate))

IInv == TypeInv /\ LoadedInv /\ PhaseInv /\ ChainInv /\ RatesInv

\* What runs is sound.
LEMMA SoundConfig ==
    ASSUME IInv, phase \notin {"off", "rejected"}
    PROVE  Sound(Config)
BY InstallationsAssumption DEF IInv, LoadedInv, Config, Accepted, Sound

\* What depends on the document alone.
LEMMA SameConfig ==
    ASSUME installation' = installation
    PROVE  /\ Config' = Config /\ Amounts' = Amounts
           /\ RateNeeded' = RateNeeded
           /\ results' = results => Amount' = Amount
BY DEF Config, Amounts, Amount, RateNeeded, NativeToken, TargetToken, NativeCurrency

\* A step that does not convert keeps the rates.
LEMMA RatesKept ==
    ASSUME IInv, cache' = cache, leg' # "calculate" \/ (leg' = leg /\ rate' = rate)
    PROVE  RatesInv'
BY DEF IInv, RatesInv, RateTyped

-------------------------------------------------------------------------------
(* The outcome of a request.                                                 *)

\* The errors of a request that is not sent.
LEMMA Refused ==
    ASSUME NEW id
    PROVE  Refusal(id) \in {"UNSUPPORTED", "CONFIGURATION", "VALIDATION", Fine}
BY DEF Refusal

\* The adapter that is asked is one of the four.
LEMMA RequestKnown ==
    ASSUME IInv, AskingAdapter
    PROVE  Request.provider \in ProviderIds
<1>1. phase = "verifying" /\ leg \in {"buy", "sell", "ask"}  BY DEF AskingAdapter
<1>2. Sound(Config)  BY <1>1, SoundConfig
<1>3. /\ EnabledIds(Config) \subseteq ProviderIds
      /\ Adapters(Config)[1] \in EnabledIds(Config)
      BY <1>2, KnownIds
<1>4. Request.provider \in {opportunity.buy, opportunity.sell, Adapters(Config)[1]}
      BY <1>1 DEF Request
<1>5. QED  BY <1>1, <1>3, <1>4 DEF IInv, PhaseInv

\* What the outcome of a request says of the answer.
LEMMA Outcomes ==
    ASSUME IInv, Answered
    PROVE  /\ Outcome.error = Fine =>
                 /\ answer # None /\ answer.status \in 200..299 /\ answer.body # None
                 /\ AnswersRequest(Outcome.quote, Request)
           /\ Outcome.error \in AvailabilityFailures =>
                 answer # None /\ Outage(Request.provider, answer)
           /\ Outcome.error = "AUTHENTICATION" => answer.status \in {401, 403}
<1>1. AskingAdapter  BY DEF Answered
<1>2. CASE answer = None
  <2>1. Refusal(Request.provider) \in {"UNSUPPORTED", "CONFIGURATION", "VALIDATION"}
        BY <1>2, Refused DEF Answered
  <2>2. Outcome.error = Refusal(Request.provider)  BY <1>2 DEF Outcome, Raised
  <2>3. QED  BY <2>1, <2>2 DEF AvailabilityFailures, Fine
<1>3. CASE answer # None
  <2>1. AnswerTyped(answer)  BY <1>3, AnswersAssumption DEF IInv, TypeInv, TypeOK
  <2>2. Outcome = GetQuote(Request, answer)  BY <1>3 DEF Outcome
  <2> DEFINE error == RequestJson(Request.provider, answer)
  <2>3. /\ error = Fine => answer.status \in 200..299 /\ answer.body # None
        /\ error \in AvailabilityFailures => Outage(Request.provider, answer)
        /\ error = "AUTHENTICATION" => answer.status \in {401, 403}
        BY <2>1, RequestErrors
  <2>4. Outcome = IF error = Fine THEN ToQuote(Request, answer.body) ELSE Raised(error)
        BY <2>2 DEF GetQuote
  <2>5. CASE error = Fine
    <3> DEFINE q == ToQuote(Request, answer.body)
    <3>1. /\ q.error \in BodyErrors
          /\ q.error = Fine => AnswersRequest(q.quote, Request)
          BY <1>1, <2>1, <2>3, <2>5, RequestKnown, QuoteErrors
    <3>2. Outcome = q  BY <2>4, <2>5
    <3> HIDE DEF q, error
    <3>3. QED  BY <1>3, <2>3, <2>5, <3>1, <3>2 DEF BodyErrors, AvailabilityFailures, Fine
  <2>6. CASE error # Fine
    <3>1. Outcome.error = error  BY <2>4, <2>6 DEF Raised
    <3> HIDE DEF error
    <3>2. QED  BY <1>3, <2>3, <2>6, <3>1
  <2>7. QED  BY <2>5, <2>6
<1>4. QED  BY <1>2, <1>3

-------------------------------------------------------------------------------
(* The steps.                                                                *)

\* The invariant at the start.
LEMMA InitInv == Init => IInv
<1> SUFFICES ASSUME Init PROVE IInv  OBVIOUS
<1> USE DEF Init
<1>1. TypeInv
  <2>1. results \in Seq(AmountStatuses) /\ Elements(results) = {}  BY DEF Elements
  <2>2. DOMAIN health = {} /\ health \in [DOMAIN health -> HealthStates]  OBVIOUS
  <2>3. 1 \in 1..MaxAttempts /\ 0 \in 0..MaxClock  BY VerificationAssumption
  <2>4. QED  BY <2>1, <2>2, <2>3 DEF TypeInv, TypeOK, Phases, Legs
<1>2. LoadedInv /\ PhaseInv /\ ChainInv /\ RatesInv
      BY DEF LoadedInv, PhaseInv, ChainInv, RatesInv, RateTyped
<1>3. QED  BY <1>1, <1>2 DEF IInv

\* The type of the state follows from that of what a step changes.
LEMMA TypeKept ==
    ASSUME IInv,
           installation' \in Installations \cup {None}, phase' \in Phases, leg' \in Legs,
           results' \in Seq(AmountStatuses), attempt' \in 1..MaxAttempts, source' \in 1..3,
           answer' \in Answers \cup {None}, verdict' \in OpportunityVerdicts \cup {None},
           clock' \in 0..MaxClock, health' \in [DOMAIN health' -> HealthStates]
    PROVE  TypeInv'
<1>1. Elements(results') \subseteq AmountStatuses  BY DEF Elements
<1>2. \A id \in DOMAIN health' : health'[id] \in HealthStates  OBVIOUS
<1>3. QED  BY <1>1, <1>2 DEF TypeInv, TypeOK, HealthStates

\* The types of the state, in the form the steps need.
LEMMA StateTyped ==
    ASSUME IInv
    PROVE  /\ installation \in Installations \cup {None} /\ phase \in Phases /\ leg \in Legs
           /\ results \in Seq(AmountStatuses) /\ attempt \in 1..MaxAttempts /\ source \in 1..3
           /\ answer \in Answers \cup {None} /\ verdict \in OpportunityVerdicts \cup {None}
           /\ clock \in 0..MaxClock /\ health \in [DOMAIN health -> HealthStates]
           /\ 1 \in 1..MaxAttempts /\ 1 \in 1..3
BY VerificationAssumption DEF IInv, TypeInv, TypeOK

\* The end of an amount.
LEMMA AmountEndsKeeps ==
    ASSUME IInv, phase = "verifying", NEW status \in AmountStatuses, AmountEnds(status),
           UNCHANGED <<appVars, phase, cache>>, health' \in [DOMAIN health' -> HealthStates]
    PROVE  IInv'
<1> USE DEF AmountEnds, appVars
<1>1. TypeInv'
  <2>1. results' \in Seq(AmountStatuses)  BY StateTyped
  <2>2. leg' \in Legs  BY DEF Legs
  <2>3. QED  BY <2>1, <2>2, StateTyped, TypeKept
<1>2. LoadedInv' /\ PhaseInv'
      BY SameConfig DEF IInv, LoadedInv, PhaseInv
<1>3. ChainInv' /\ RatesInv'  BY RatesKept DEF ChainInv
<1>4. QED  BY <1>1, <1>2, <1>3 DEF IInv

\* The end of the verification.
LEMMA FinishedKeeps ==
    ASSUME IInv, NEW statuses \in Seq(AmountStatuses), Finished(statuses), phase = "verifying"
    PROVE  IInv'
<1> USE DEF Finished
<1>1. TypeInv'
  <2>1. verdict' \in OpportunityVerdicts \cup {None}  BY DEF OpportunityStatusFor, OpportunityVerdicts
  <2>2. phase' \in Phases /\ leg' \in Legs  BY DEF Phases, Legs
  <2>3. QED  BY <2>1, <2>2, StateTyped, TypeKept
<1>2. LoadedInv' /\ PhaseInv' /\ ChainInv' /\ RatesInv'
      BY RatesKept DEF IInv, LoadedInv, PhaseInv, ChainInv
<1>3. QED  BY <1>1, <1>2 DEF IInv

\* An exception leaves the verification.
LEMMA LeavesKeeps ==
    ASSUME IInv, phase = "verifying", Leaves
    PROVE  IInv'
<1> USE DEF Leaves, appVars
<1>1. TypeInv'
  <2>1. phase' \in Phases /\ leg' \in Legs  BY DEF Phases, Legs
  <2>2. QED  BY <2>1, StateTyped, TypeKept
<1>2. LoadedInv' /\ PhaseInv' /\ ChainInv' /\ RatesInv'
      BY RatesKept DEF IInv, LoadedInv, PhaseInv, ChainInv
<1>3. QED  BY <1>1, <1>2 DEF IInv

\* Observe: the health of a provider is one of three.
LEMMA ObserveTyped ==
    ASSUME IInv, Observe
    PROVE  health' \in [DOMAIN health' -> HealthStates]
<1>1. health \in [DOMAIN health -> HealthStates]  BY StateTyped
<1>2. ASSUME NEW id, NEW state \in HealthStates, health' = [health EXCEPT ![id] = state]
      PROVE  health' \in [DOMAIN health' -> HealthStates]
      BY <1>1, <1>2
<1>3. "HEALTHY" \in HealthStates /\ "FAILING" \in HealthStates  BY DEF HealthStates
<1>4. QED  BY <1>1, <1>2, <1>3 DEF Observe

\* load_configuration(): what runs was accepted.
LEMMA LoadKeeps ==
    ASSUME IInv, NEW i \in Installations, LoadInstallation(i)
    PROVE  IInv'
<1> USE DEF LoadInstallation, amountVars
<1>1. leg' = "none"  BY DEF IInv, PhaseInv
<1>2. TypeInv'
  <2>1. phase' \in Phases  BY DEF Phases
  <2>2. QED  BY <2>1, StateTyped, TypeKept
<1>3. LoadedInv' /\ PhaseInv' /\ ChainInv' /\ RatesInv'
      BY <1>1, RatesKept DEF LoadedInv, PhaseInv, ChainInv
<1>4. QED  BY <1>2, <1>3 DEF IInv

\* The steps of the start, after the document was accepted.
StartStep ==
    /\ phase \in {"loaded", "probing"} /\ phase' \in {"refused", "probing", "running", "raised"}
    /\ health' \in [DOMAIN health' -> HealthStates]
    /\ UNCHANGED <<appVars, results, leg, amountVars, cache>>

\* The steps of the start keep the invariant ...
LEMMA StartKeeps ==
    ASSUME IInv, StartStep
    PROVE  IInv'
<1> USE DEF StartStep, appVars, amountVars
<1>1. leg' = "none"  BY DEF IInv, PhaseInv
<1>2. TypeInv'
  <2>1. phase' \in Phases  BY DEF Phases
  <2>2. QED  BY <2>1, StateTyped, TypeKept
<1>3. LoadedInv'  BY DEF IInv, LoadedInv
<1>4. PhaseInv' /\ ChainInv' /\ RatesInv'  BY <1>1, RatesKept DEF PhaseInv, ChainInv
<1>5. QED  BY <1>2, <1>3, <1>4 DEF IInv

\* ... and these are they.
LEMMA StartSteps ==
    ASSUME IInv,
           \/ Assemble \/ ProbeUnasked \/ StartLoop
           \/ \E a \in Answers : Probe(a) \/ ProbeCrashes(a)
    PROVE  StartStep
<1>1. health \in [DOMAIN health -> HealthStates]  BY StateTyped
<1>2. ASSUME NEW state \in {"HEALTHY", "FAILING"}, Probed(state)
      PROVE  health' \in [DOMAIN health' -> HealthStates]
      BY <1>1, <1>2 DEF Probed, HealthStates
<1>3. CASE Assemble
  <2>1. health' \in [DOMAIN health' -> HealthStates]  BY <1>3 DEF Assemble, HealthStates
  <2>2. QED  BY <1>3, <2>1 DEF Assemble, StartStep
<1>4. CASE ProbeUnasked
      BY <1>2, <1>4 DEF ProbeUnasked, Probed, StartStep, appVars
<1>5. CASE StartLoop  BY <1>1, <1>5 DEF StartLoop, StartStep
<1>6. ASSUME NEW a \in Answers, Probe(a)  PROVE StartStep
  <2> DEFINE state == HealthCheck(Head(Unprobed), a)
  <2>1. state \in {"HEALTHY", "FAILING"}  BY <1>6 DEF Probe, HealthCheck
  <2>2. Probed(state) /\ phase = "probing"  BY <1>6 DEF Probe
  <2> HIDE DEF state
  <2>3. QED  BY <1>2, <2>1, <2>2 DEF Probed, StartStep, appVars
<1>7. ASSUME NEW a \in Answers, ProbeCrashes(a)  PROVE StartStep
      BY <1>1, <1>7 DEF ProbeCrashes, StartStep
<1>8. QED  BY <1>3, <1>4, <1>5, <1>6, <1>7

\* Level 1 hands over a pair of enabled providers.
LEMMA FoundKeeps ==
    ASSUME IInv, NEW pair, NEW token, Found(pair, token)
    PROVE  IInv'
<1> USE DEF Found, amountVars
<1>1. Sound(Config)  BY SoundConfig
<1>2. pair[1] \in EnabledIds(Config) /\ pair[2] \in EnabledIds(Config)  BY <1>1, PairsServed
<1>3. TypeInv'
  <2>1. phase' \in Phases /\ leg' \in Legs  BY DEF Phases, Legs
  <2>2. QED  BY <2>1, StateTyped, TypeKept
<1>4. PhaseInv'  BY <1>2, SameConfig DEF PhaseInv
<1>5. LoadedInv'  BY DEF IInv, LoadedInv
<1>6. ChainInv' /\ RatesInv'  BY RatesKept DEF ChainInv
<1>7. QED  BY <1>3, <1>4, <1>5, <1>6 DEF IInv

\* A step of a request leaves the chain alone.
LEMMA RequestKeeps ==
    ASSUME IInv,
           UNCHANGED <<appVars, phase, results, leg, buy, sell, gas, rate, cache>>,
           attempt' \in 1..MaxAttempts, source' \in 1..3, answer' \in Answers \cup {None},
           health' \in [DOMAIN health' -> HealthStates]
    PROVE  IInv'
<1> USE DEF appVars
<1>1. TypeInv'  BY StateTyped, TypeKept
<1>2. LoadedInv' /\ PhaseInv'  BY SameConfig DEF IInv, LoadedInv, PhaseInv
<1>3. ChainInv' /\ RatesInv'
      BY SameConfig, RatesKept DEF IInv, ChainInv, BuyConfirmed, SellConfirmed, GasFounded
<1>4. QED  BY <1>1, <1>2, <1>3 DEF IInv

\* An answer arrives.
LEMMA ReceiveKeeps ==
    ASSUME IInv, NEW a \in Answers, Receive(a)
    PROVE  IInv'
BY StateTyped, RequestKeeps DEF Receive

\* Another attempt is within their number.
LEMMA RetryKeeps ==
    ASSUME IInv, Retry
    PROVE  IInv'
<1>1. attempt' \in 1..MaxAttempts
      BY StateTyped, VerificationAssumption DEF Retry, RetryDue
<1>2. QED  BY <1>1, StateTyped, RequestKeeps DEF Retry

\* A leg is confirmed: it continues the chain.
LEMMA HandleLegKeeps ==
    ASSUME IInv, HandleLeg
    PROVE  IInv'
<1>1. /\ phase = "verifying" /\ leg \in {"buy", "sell"} /\ Answered
      /\ UNCHANGED <<appVars, phase, cache>>
      BY DEF HandleLeg, Answered, AskingAdapter
<1>2. health' \in [DOMAIN health' -> HealthStates]  BY ObserveTyped DEF HandleLeg
<1>3. CASE AmountEnds("ROUTE_UNAVAILABLE")
  <2>1. "ROUTE_UNAVAILABLE" \in AmountStatuses  BY DEF AmountStatuses
  <2>2. QED  BY <1>1, <1>2, <1>3, <2>1, AmountEndsKeeps
<1>4. CASE ~AmountEnds("ROUTE_UNAVAILABLE")
  <2>1. /\ Reproduced
        /\ leg' = IF leg = "buy" THEN "sell" ELSE "gas"
        /\ buy' = IF leg = "buy" THEN Outcome.quote ELSE buy
        /\ sell' = IF leg = "sell" THEN Outcome.quote ELSE sell
        /\ attempt' = 1 /\ answer' = None
        /\ UNCHANGED <<results, source, gas, rate>>
        BY <1>4 DEF HandleLeg
  <2>2. /\ Outcome.quote.output > 0 /\ QuoteTyped(Outcome.quote)
        /\ Outcome.quote.provider = Request.provider
        /\ Outcome.quote.input = Request.amount
        BY <1>1, <2>1, Outcomes DEF Reproduced, AnswersRequest
  <2>3. TypeInv'
    <3>1. leg' \in Legs  BY <1>1, <2>1 DEF Legs
    <3>2. QED  BY <1>1, <1>2, <2>1, <3>1, StateTyped, TypeKept DEF appVars
  <2>4. installation' = installation /\ opportunity' = opportunity  BY <1>1 DEF appVars
  <2>5. LoadedInv' /\ PhaseInv'
        BY <1>1, <2>4, SameConfig DEF IInv, LoadedInv, PhaseInv
  <2>6. Amount' = Amount /\ RatesInv'
        BY <1>1, <2>1, <2>4, SameConfig, RatesKept
  <2>7. CASE leg = "buy"
    <3>1. Request.provider = opportunity.buy /\ Request.amount = Amount  BY <2>7 DEF Request
    <3>2. BuyConfirmed' /\ leg' = "sell"
          BY <2>1, <2>2, <2>4, <2>6, <2>7, <3>1 DEF BuyConfirmed
    <3>3. QED  BY <2>3, <2>5, <2>6, <3>2 DEF IInv, ChainInv
  <2>8. CASE leg = "sell"
    <3>1. Request.provider = opportunity.sell /\ Request.amount = buy.output
          BY <2>8 DEF Request
    <3>2. SellConfirmed' /\ leg' = "gas" /\ buy' = buy
          BY <2>1, <2>2, <2>4, <2>8, <3>1 DEF SellConfirmed
    <3>3. BuyConfirmed'
          BY <2>4, <2>6, <2>8, <3>2 DEF IInv, ChainInv, BuyConfirmed
    <3>4. QED  BY <2>3, <2>5, <2>6, <3>2, <3>3 DEF IInv, ChainInv
  <2>9. QED  BY <1>1, <2>7, <2>8
<1>5. QED  BY <1>3, <1>4

\* _total_gas_units(): gas is known only of two legs that state theirs.
LEMMA GasOfBoth ==
    ASSUME QuoteTyped(buy), QuoteTyped(sell), NEW price \in Int \cup {None},
           Gas(TotalGasUnits(buy, sell), price).known
    PROVE  /\ buy.units # None /\ sell.units # None
           /\ Gas(TotalGasUnits(buy, sell), price).cost \in Int
<1> DEFINE units == TotalGasUnits(buy, sell)
<1>1. units # None /\ price # None  BY DEF Gas
<1>2. None \notin {buy.units, sell.units}  BY <1>1 DEF TotalGasUnits
<1>3. units = buy.units + sell.units  BY <1>2 DEF TotalGasUnits
<1>4. buy.units \in Int /\ sell.units \in Int  BY <1>2 DEF QuoteTyped
<1>5. units \in Int  BY <1>3, <1>4
<1>6. Gas(units, price).cost = units * price  BY <1>1 DEF Gas
<1> HIDE DEF units
<1>7. units * price \in Int  BY <1>1, <1>5
<1>8. QED  BY <1>2, <1>6, <1>7 DEF units

\* What a price of gas can be: of the quotes, of the document or of a node.
LEMMA PricesTyped ==
    ASSUME IInv, leg = "gas"
    PROVE  /\ QuotedPrice \in Int \cup {None} /\ StaticPrice \in Int \cup {None}
           /\ \A a \in RpcAnswers : RpcGasPrice(a) \in Int \cup {None}
<1>1. QuoteTyped(buy) /\ QuoteTyped(sell)
      BY DEF IInv, ChainInv, BuyConfirmed, SellConfirmed
<1>2. QuotedPrice \in Int \cup {None}
      BY <1>1 DEF QuotedPrice, QuotedGasPrice, QuoteTyped
<1>3. phase = "verifying"  BY DEF IInv, PhaseInv
<1>4. Sound(Config)  BY <1>3, SoundConfig
<1>5. StaticPrice \in Int \cup {None}  BY <1>4 DEF StaticPrice, Sound, Typed
<1>6. ASSUME NEW a \in RpcAnswers  PROVE RpcGasPrice(a) \in Int \cup {None}
  <2>1. a.legacy \in Int \cup {None} /\ a.base \in Int \cup {None} /\ PriorityFee \in Int
        BY AnswersAssumption, VerificationAssumption
  <2>2. CASE a.legacy = None  BY <2>2 DEF RpcGasPrice
  <2>3. CASE a.legacy # None /\ a.base = None  BY <2>1, <2>3 DEF RpcGasPrice
  <2>4. CASE a.legacy # None /\ a.base # None
    <3>1. RpcGasPrice(a) = a.base + PriorityFee  BY <2>4 DEF RpcGasPrice
    <3>2. QED  BY <2>1, <2>4, <3>1
  <2>5. QED  BY <2>2, <2>3, <2>4
<1>7. QED  BY <1>2, <1>5, <1>6

\* GasEstimator.estimate().
LEMMA EstimatedKeeps ==
    ASSUME IInv, leg = "gas", NEW price \in Int \cup {None}, Estimated(price)
    PROVE  IInv'
<1> USE DEF Estimated, appVars
<1>1. TypeInv'
  <2>1. leg' \in Legs  BY DEF Legs
  <2>2. QED  BY <2>1, StateTyped, TypeKept
<1>2. LoadedInv' /\ PhaseInv'  BY SameConfig DEF IInv, LoadedInv, PhaseInv
<1>3. (GasFounded)'
  <2>1. QuoteTyped(buy) /\ QuoteTyped(sell)
        BY DEF IInv, ChainInv, BuyConfirmed, SellConfirmed
  <2>2. QED  BY <2>1, GasOfBoth DEF GasFounded
<1>4. BuyConfirmed' /\ SellConfirmed'
      BY SameConfig DEF IInv, ChainInv, BuyConfirmed, SellConfirmed
<1>5. RatesInv'  BY RatesKept
<1>6. QED  BY <1>1, <1>2, <1>3, <1>4, <1>5 DEF IInv, ChainInv

\* Both ways to a price of gas.
LEMMA EstimatesKeep ==
    ASSUME IInv, EstimateGas \/ \E a \in RpcAnswers : EstimateGasByRpc(a)
    PROVE  IInv'
<1>1. leg = "gas"  BY DEF EstimateGas, EstimateGasByRpc
<1>2. PICK price \in Int \cup {None} : Estimated(price)
      BY <1>1, PricesTyped DEF EstimateGas, EstimateGasByRpc
<1>3. QED  BY <1>1, <1>2, EstimatedKeeps

\* A rate is found, or there is none.
LEMMA ConvertedKeeps ==
    ASSUME IInv, leg \in {"rate", "ask"}, NEW found, Converted(found),
           RateNeeded \/ found = None, RateTyped(found), cache' \in {cache, found},
           health' \in [DOMAIN health' -> HealthStates]
    PROVE  IInv'
<1> USE DEF Converted, appVars
<1>1. TypeInv'
  <2>1. leg' \in Legs  BY DEF Legs
  <2>2. QED  BY <2>1, StateTyped, TypeKept
<1>2. LoadedInv' /\ PhaseInv'  BY SameConfig DEF IInv, LoadedInv, PhaseInv
<1>3. BuyConfirmed' /\ SellConfirmed' /\ GasFounded'
      BY SameConfig DEF IInv, ChainInv, BuyConfirmed, SellConfirmed, GasFounded
<1>4. ~RateNeeded' => rate' = None  BY SameConfig
<1>5. RatesInv'  BY DEF IInv, RatesInv, RateTyped
<1>6. QED  BY <1>1, <1>2, <1>3, <1>4, <1>5 DEF IInv, ChainInv

\* The sources of rates are asked only when one is needed.
LEMMA AskSourcesKeeps ==
    ASSUME IInv, AskSources
    PROVE  IInv'
<1> USE DEF AskSources, appVars, amountVars
<1>1. TypeInv'
  <2>1. leg' \in Legs  BY DEF Legs
  <2>2. QED  BY <2>1, StateTyped, TypeKept
<1>2. LoadedInv' /\ PhaseInv'  BY SameConfig DEF IInv, LoadedInv, PhaseInv
<1>3. BuyConfirmed' /\ SellConfirmed' /\ GasFounded' /\ RateNeeded'
      BY SameConfig DEF IInv, ChainInv, BuyConfirmed, SellConfirmed, GasFounded
<1>4. RatesInv'  BY RatesKept
<1>5. QED  BY <1>1, <1>2, <1>3, <1>4 DEF IInv, ChainInv

\* The next source: there are two at most.
LEMMA NextSourceKeeps ==
    ASSUME IInv, NextSource, Source # None, UNCHANGED appVars,
           health' \in [DOMAIN health' -> HealthStates]
    PROVE  IInv'
<1>1. source \in DOMAIN PriceProviders(Config)  BY DEF Source
<1>2. source \in 1..2  BY <1>1, PriceSources
<1>3. source' \in 1..3  BY <1>2 DEF NextSource
<1>4. QED  BY <1>3, StateTyped, RequestKeeps DEF NextSource

\* AggregatorQuotePriceProvider.rate().
LEMMA HandleProbeKeeps ==
    ASSUME IInv, HandleProbe
    PROVE  IInv'
<1>1. health' \in [DOMAIN health' -> HealthStates]  BY ObserveTyped DEF HandleProbe
<1>2. leg = "ask" /\ Source = "aggregator_quote" /\ Source # None
      BY NoneAssumption DEF HandleProbe, Answered, AskingAdapter
<1>3. RateNeeded  BY <1>2 DEF IInv, ChainInv
<1>4. CASE Outcome.error = Fine /\ Remembered(NewRate(Outcome.quote.output, ProbeAmount))
  <2> DEFINE found == NewRate(Outcome.quote.output, ProbeAmount)
  <2>1. Outcome.quote.output \in Int
        BY <1>4, Outcomes DEF HandleProbe, AnswersRequest, QuoteTyped
  <2>2. RateTyped(found)  BY <2>1, VerificationAssumption DEF NewRate, RateTyped
  <2>3. Converted(found) /\ cache' = found  BY <1>4 DEF Remembered
  <2> HIDE DEF found
  <2>4. QED  BY <1>1, <1>2, <1>3, <2>2, <2>3, ConvertedKeeps
<1>5. CASE NextSource  BY <1>1, <1>2, <1>5, NextSourceKeeps DEF NextSource
<1>6. QED  BY <1>4, <1>5 DEF HandleProbe

\* HttpPriceProvider.rate().
LEMMA HandleHttpRateKeeps ==
    ASSUME IInv, NEW a \in HttpRates, HandleHttpRate(a)
    PROVE  IInv'
<1>1. health' \in [DOMAIN health' -> HealthStates]  BY StateTyped DEF HandleHttpRate
<1>2. leg = "ask" /\ Source # None  BY NoneAssumption DEF HandleHttpRate, AskingHttp
<1>3. RateNeeded  BY <1>2 DEF IInv, ChainInv
<1>4. CASE a.rate # None /\ Remembered(NewRate(a.rate, 1))
  <2> DEFINE found == NewRate(a.rate, 1)
  <2>1. a.rate \in Int  BY <1>4, AnswersAssumption
  <2>2. RateTyped(found)  BY <2>1 DEF NewRate, RateTyped
  <2>3. Converted(found) /\ cache' = found  BY <1>4 DEF Remembered
  <2> HIDE DEF found
  <2>4. QED  BY <1>1, <1>2, <1>3, <2>2, <2>3, ConvertedKeeps
<1>5. CASE NextSource  BY <1>1, <1>2, <1>5, NextSourceKeeps DEF NextSource
<1>6. QED  BY <1>4, <1>5 DEF HandleHttpRate

\* gas_rate_from_quotes(): dollars by the cost of gas.
LEMMA QuotedRateTyped ==
    ASSUME IInv, leg = "rate"
    PROVE  RateTyped(QuotedRate)
<1>1. QuoteTyped(buy) /\ QuoteTyped(sell) /\ GasFounded
      BY DEF IInv, ChainInv, BuyConfirmed, SellConfirmed
<1>2. SUFFICES ASSUME QuotedRate # None PROVE QuotedRate.num \in Int /\ QuotedRate.den \in Int
      BY DEF RateTyped
<1> DEFINE usd == FirstCostUsd(buy, sell)
<1>3. /\ usd # None /\ gas.known
      /\ QuotedRate = [num |-> usd, den |-> gas.cost, expires |-> None]
      BY <1>2 DEF QuotedRate, GasRateFromQuotes
<1>4. usd \in Int  BY <1>1, <1>3 DEF FirstCostUsd, QuoteTyped
<1>5. gas.cost \in Int  BY <1>1, <1>3 DEF GasFounded
<1> HIDE DEF usd
<1>6. QED  BY <1>3, <1>4, <1>5

\* A rate without a request.
LEMMA ConvertKeeps ==
    ASSUME IInv, Convert
    PROVE  IInv'
<1>1. /\ leg = "rate" /\ cache' = cache
      /\ health' \in [DOMAIN health' -> HealthStates]
      BY StateTyped DEF Convert
<1>2. RateTyped(None) /\ RateTyped(QuotedRate) /\ RateTyped(cache)
      BY <1>1, QuotedRateTyped DEF IInv, RatesInv, RateTyped
<1>3. PICK found : Converted(found) /\ (RateNeeded \/ found = None) /\ RateTyped(found)
      BY <1>2 DEF Convert
<1>4. QED  BY <1>1, <1>3, ConvertedKeeps

\* No source has a rate.
LEMMA NoRateKeeps ==
    ASSUME IInv, NoRate
    PROVE  IInv'
<1>1. /\ leg = "ask" /\ Converted(None) /\ cache' = cache
      /\ health' \in [DOMAIN health' -> HealthStates]
      BY StateTyped DEF NoRate
<1>2. RateTyped(None)  BY DEF RateTyped
<1>3. QED  BY <1>1, <1>2, ConvertedKeeps

\* _status_for(): every calculation has a status.
LEMMA Judged ==
    ASSUME NEW data, NEW now
    PROVE  /\ Calculate(data, now).status \in {"INVALID", "PARTIAL", "COMPLETE"}
           /\ StatusFor(Calculate(data, now)) \in AmountStatuses
<1> DEFINE result == Calculate(data, now)
<1>1. result.status \in {"INVALID", "PARTIAL", "COMPLETE"}  BY DEF Calculate
<1> HIDE DEF result
<1>2. StatusFor(result) \in AmountStatuses  BY <1>1 DEF StatusFor, AmountStatuses
<1>3. QED  BY <1>1, <1>2 DEF result

\* The verdict ends the amount.
LEMMA CalculateProfitKeeps ==
    ASSUME IInv, CalculateProfit
    PROVE  IInv'
<1> DEFINE status == StatusFor(Calculate(CalculationInput, clock))
<1>1. phase = "verifying" /\ AmountEnds(status) /\ UNCHANGED <<appVars, phase, cache, health>>
      BY DEF CalculateProfit, IInv, PhaseInv
<1>2. status \in AmountStatuses  BY Judged
<1> HIDE DEF status
<1>3. health' \in [DOMAIN health' -> HealthStates]  BY <1>1, StateTyped
<1>4. QED  BY <1>1, <1>2, <1>3, AmountEndsKeeps

\* The amounts are as many as the document lists.
LEMMA AmountsListed ==
    ASSUME Sound(Config)
    PROVE  [i \in DOMAIN Amounts |-> "FAILED"] \in Seq({"FAILED"})
<1>1. DOMAIN Amounts = DOMAIN Config.scanner.amounts  BY DEF Amounts
<1>2. DOMAIN Config.scanner.amounts = 1..Len(Config.scanner.amounts)
      /\ Len(Config.scanner.amounts) \in Nat
      BY DEF Sound, Typed
<1>3. QED  BY <1>1, <1>2

\* Both ends of the verification.
LEMMA EndsKeep ==
    ASSUME IInv, Finish \/ TimeOut
    PROVE  IInv'
<1>1. CASE Finish
  <2>1. results \in Seq(AmountStatuses)  BY StateTyped
  <2>2. QED  BY <1>1, <2>1, FinishedKeeps DEF Finish
<1>2. CASE TimeOut
  <2>1. phase = "verifying" /\ Finished([i \in DOMAIN Amounts |-> "FAILED"])  BY <1>2 DEF TimeOut
  <2>2. [i \in DOMAIN Amounts |-> "FAILED"] \in Seq({"FAILED"})
        BY <2>1, SoundConfig, AmountsListed
  <2>3. [i \in DOMAIN Amounts |-> "FAILED"] \in Seq(AmountStatuses)
        BY <2>2 DEF AmountStatuses
  <2>4. QED  BY <2>1, <2>3, FinishedKeeps
<1>3. QED  BY <1>1, <1>2

\* Time passes.
LEMMA TickKeeps ==
    ASSUME IInv, Tick
    PROVE  IInv'
<1> USE DEF Tick, amountVars
<1>1. TypeInv'
  <2>1. clock' \in 0..MaxClock  BY StateTyped, VerificationAssumption
  <2>2. QED  BY <2>1, StateTyped, TypeKept
<1>2. LoadedInv' /\ PhaseInv'  BY SameConfig DEF IInv, LoadedInv, PhaseInv
<1>3. ChainInv' /\ RatesInv'
      BY SameConfig, RatesKept DEF IInv, ChainInv, BuyConfirmed, SellConfirmed, GasFounded
<1>4. QED  BY <1>1, <1>2, <1>3 DEF IInv

\* Nothing happens.
LEMMA StutterKeeps ==
    ASSUME IInv, UNCHANGED vars
    PROVE  IInv'
<1> USE DEF vars, amountVars
<1>1. QED  BY StateTyped, RequestKeeps DEF vars, amountVars

\* Every step of the program keeps the invariant.
LEMMA StepKeeps ==
    ASSUME IInv, Step
    PROVE  IInv'
<1>1. CASE \/ Assemble \/ ProbeUnasked \/ StartLoop
           \/ \E a \in Answers : Probe(a) \/ ProbeCrashes(a)
      BY <1>1, StartSteps, StartKeeps
<1>2. CASE Retry  BY <1>2, RetryKeeps
<1>3. CASE HandleLeg  BY <1>3, HandleLegKeeps
<1>4. CASE Crash  BY <1>4, LeavesKeeps DEF Crash, Answered, AskingAdapter
<1>5. CASE EstimateGas  BY <1>5, EstimatesKeep
<1>6. CASE Convert  BY <1>6, ConvertKeeps
<1>7. CASE AskSources  BY <1>7, AskSourcesKeeps
<1>8. CASE HandleProbe  BY <1>8, HandleProbeKeeps
<1>9. CASE NoRate  BY <1>9, NoRateKeeps
<1>10. CASE CalculateProfit  BY <1>10, CalculateProfitKeeps
<1>11. CASE Finish  BY <1>11, EndsKeep
<1>12. CASE \E a \in Answers : Receive(a)  BY <1>12, ReceiveKeeps
<1>13. ASSUME NEW a \in RpcAnswers, EstimateGasByRpc(a)  PROVE IInv'
       BY <1>13, EstimatesKeep
<1>14. ASSUME NEW a \in RpcAnswers, RpcFails(a)  PROVE IInv'
       BY <1>14, LeavesKeeps DEF RpcFails, IInv, PhaseInv
<1>15. ASSUME NEW a \in HttpRates, HandleHttpRate(a)  PROVE IInv'
       BY <1>15, HandleHttpRateKeeps
<1>16. ASSUME NEW a \in HttpRates, HttpRateCrashes(a)  PROVE IInv'
       BY <1>16, LeavesKeeps DEF HttpRateCrashes, AskingHttp
<1>17. QED
       BY <1>1, <1>2, <1>3, <1>4, <1>5, <1>6, <1>7, <1>8, <1>9, <1>10, <1>11, <1>12, <1>13,
          <1>14, <1>15, <1>16 DEF Step

\* Every step does.
LEMMA NextKeeps ==
    ASSUME IInv, [Next]_vars
    PROVE  IInv'
BY StepKeeps, LoadKeeps, FoundKeeps, EndsKeep, TickKeeps, StutterKeeps DEF Next

\* The invariant holds.
LEMMA Invariance == Spec => []IInv
BY InitInv, NextKeeps, PTL DEF Spec

-------------------------------------------------------------------------------
(* The theorems.                                                             *)

\* The type invariant: whatever is loaded, answered and timed out, the state of
\* the start, of the verification (level2/) and of the health stays in its types.
THEOREM VerificationTypeCorrect == Spec => []TypeOK
<1>1. IInv => TypeOK  BY DEF IInv, TypeInv
<1>2. QED  BY <1>1, Invariance, PTL

\* What the assembly asks for (container.py, safety.py) is what the validation
\* of the document (config/) checked: every secret is found, every url is https
\* and listed, every pair has adapters, fee policies and limits, and every
\* amount is a positive number of units of a base token that is there.
THEOREM EverythingIsFound == Spec => []AssembledFinds
<1>1. ASSUME IInv, Built
      PROVE  /\ \A name \in AskedSecrets(Config) :
                    name \in Secrets(installation) /\ Available(FullEnviron(installation), name)
             /\ \A url \in Contacted(Config) :
                    url.scheme = "https" /\ url.host \in AllowedHosts(Config)
             /\ \A pair \in Pairs(Config) :
                    Elements(pair) \subseteq
                        Elements(Adapters(Config)) \cap FeePolicies(Config) \cap Limited(Config)
             /\ BaseToken(Config) # None /\ Elements(Amounts) \subseteq Nat \ {0}
  <2>1. phase \notin {"off", "rejected"}  BY <1>1 DEF Built
  <2>2. Sound(Config)  BY <1>1, <2>1, SoundConfig
  <2>3. ASSUME NEW name \in AskedSecrets(Config)
        PROVE  name \in Secrets(installation) /\ Available(FullEnviron(installation), name)
    <3>1. name \in SecretRefs(Config)  BY SecretsCollected
    <3>2. Accepted(installation)  BY <1>1, <2>1 DEF IInv, LoadedInv
    <3>3. QED  BY <3>1, <3>2 DEF Accepted, Secrets, Config
  <2>4. ASSUME NEW a \in Elements(Amounts)  PROVE a \in Nat \ {0}
    <3>1. PICK i \in DOMAIN Config.scanner.amounts :
             a = FromDecimal(Config.scanner.amounts[i], BaseToken(Config).decimals)
          BY DEF Elements, Amounts
    <3>2. Config.scanner.amounts[i] \in Elements(Config.scanner.amounts)  BY DEF Elements
    <3>3. QED  BY <2>2, <3>1, <3>2, AmountsPositive
  <2>5. QED  BY <2>2, <2>3, <2>4, ContactsListed, PairsServed, AmountsPositive
<1>2. IInv => AssembledFinds  BY <1>1 DEF AssembledFinds, IInv, TypeInv
<1>3. QED  BY <1>2, Invariance, PTL

\* The health of a provider changes only where an outcome is handled.
LEMMA OnlyObserved ==
    ASSUME [Next]_vars, phase = "verifying", health' # health
    PROVE  (HandleLeg \/ HandleProbe) /\ Answered /\ ~RetryDue /\ Observe
<1>1. HandleLeg \/ HandleProbe
  <2>1. ~Step => UNCHANGED health
        BY DEF Next, LoadInstallation, Found, TimeOut, Finished, Tick, vars
  <2>2. /\ ~Assemble /\ ~ProbeUnasked /\ ~StartLoop
        /\ \A a \in Answers : ~Probe(a) /\ ~ProbeCrashes(a)
        BY DEF Assemble, ProbeUnasked, StartLoop, Probe, ProbeCrashes
  <2>3. /\ Retry => UNCHANGED health
        /\ Crash => UNCHANGED health
        /\ EstimateGas => UNCHANGED health
        /\ Convert => UNCHANGED health
        /\ AskSources => UNCHANGED health
        BY DEF Retry, Crash, Leaves, EstimateGas, Estimated, Convert, AskSources
  <2>4. /\ NoRate => UNCHANGED health
        /\ CalculateProfit => UNCHANGED health
        /\ Finish => UNCHANGED health
        /\ \A a \in Answers : Receive(a) => UNCHANGED health
        BY DEF NoRate, CalculateProfit, Finish, Finished, Receive
  <2>5. /\ \A a \in RpcAnswers : EstimateGasByRpc(a) \/ RpcFails(a) => UNCHANGED health
        /\ \A a \in HttpRates : HandleHttpRate(a) \/ HttpRateCrashes(a) => UNCHANGED health
        BY DEF EstimateGasByRpc, Estimated, RpcFails, Leaves, HandleHttpRate, HttpRateCrashes
  <2>6. QED  BY <2>1, <2>2, <2>3, <2>4, <2>5 DEF Step
<1>2. QED  BY <1>1 DEF HandleLeg, HandleProbe

\* health_tracking.py: the health of a provider changes only on its own last
\* answer, to failing only by an outage that outlived the attempts or a refusal
\* of the key, to healthy only by an answer with a body and a status of success.
THEOREM BlamesAreFair == Spec => BlameIsFair
<1>1. ASSUME IInv, [Next]_vars, phase = "verifying", NEW id \in DOMAIN health,
             health'[id] # health[id]
      PROVE  /\ id = Request.provider /\ answer # None
             /\ health'[id] = "FAILING" =>
                    Outage(id, answer) /\ (attempt = MaxAttempts \/ answer.status \in {401, 403})
             /\ health'[id] = "HEALTHY" =>
                    answer.status \in 200..299 /\ answer.body # None
  <2>1. Answered /\ ~RetryDue /\ Observe  BY <1>1, OnlyObserved
  <2>2. /\ id = Request.provider
        /\ \/ Outcome.error = Fine /\ health'[id] = "HEALTHY"
           \/ Outcome.error \in AvailabilityFailures /\ health'[id] = "FAILING"
    <3>1. health \in [DOMAIN health -> HealthStates]  BY <1>1, StateTyped
    <3>2. \/ Outcome.error = Fine /\ health' = [health EXCEPT ![Request.provider] = "HEALTHY"]
          \/ /\ Outcome.error \in AvailabilityFailures
             /\ health' = [health EXCEPT ![Request.provider] = "FAILING"]
          BY <1>1, <2>1 DEF Observe
    <3>3. QED  BY <1>1, <3>1, <3>2
  <2>3. CASE Outcome.error = Fine /\ health'[id] = "HEALTHY"
        BY <1>1, <2>1, <2>2, <2>3, Outcomes
  <2>4. CASE Outcome.error \in AvailabilityFailures /\ health'[id] = "FAILING"
    <3>1. answer # None /\ Outage(id, answer)  BY <1>1, <2>1, <2>2, <2>4, Outcomes
    <3>2. Outcome.error \in RetryableCategories \/ Outcome.error = "AUTHENTICATION"
          BY <2>4 DEF AvailabilityFailures, RetryableCategories
    <3>3. Outcome.error \in RetryableCategories => attempt = MaxAttempts
          BY <1>1, <2>1, StateTyped, VerificationAssumption DEF RetryDue
    <3>4. Outcome.error = "AUTHENTICATION" => answer.status \in {401, 403}
          BY <1>1, <2>1, Outcomes
    <3>5. QED  BY <2>2, <2>4, <3>1, <3>2, <3>3, <3>4
  <2>5. QED  BY <2>2, <2>3, <2>4
<1>2. IInv /\ [Next]_vars =>
        (phase = "verifying" => \A id \in DOMAIN health :
            health'[id] # health[id] =>
                /\ id = Request.provider /\ answer # None
                /\ health'[id] = "FAILING" =>
                       Outage(id, answer) /\ (attempt = MaxAttempts \/ answer.status \in {401, 403})
                /\ health'[id] = "HEALTHY" =>
                       answer.status \in 200..299 /\ answer.body # None)
      BY <1>1
<1>3. QED  BY <1>2, Invariance, PTL DEF Spec, BlameIsFair

-------------------------------------------------------------------------------

\* Only the calculation judges an amount.
LEMMA OnlyCalculated ==
    ASSUME IInv, [Next]_vars, Len(results') > Len(results),
           results'[Len(results')] \in {"VERIFIED_PROFITABLE", "VERIFIED_UNPROFITABLE"}
    PROVE  CalculateProfit
<1>1. results' # results  OBVIOUS
<1>2. results \in Seq(AmountStatuses) /\ Len(results) \in Nat  BY StateTyped
<1>3. ~HandleLeg
  <2>1. SUFFICES ASSUME AmountEnds("ROUTE_UNAVAILABLE") PROVE FALSE  BY <1>1 DEF HandleLeg
  <2>2. results' = Append(results, "ROUTE_UNAVAILABLE")  BY <2>1 DEF AmountEnds
  <2>3. results'[Len(results')] = "ROUTE_UNAVAILABLE"
        BY <1>2, <2>2 DEF AmountStatuses
  <2>4. QED  BY <2>3
<1>4. ~TimeOut
  <2>1. SUFFICES ASSUME TimeOut PROVE FALSE  OBVIOUS
  <2>2. results' = [i \in DOMAIN Amounts |-> "FAILED"] /\ phase = "verifying"
        BY <2>1 DEF TimeOut, Finished
  <2>3. results' \in Seq({"FAILED"})  BY <2>2, SoundConfig, AmountsListed
  <2>4. Len(results') \in 1..Len(results')  BY <1>2, <2>3
  <2>5. results'[Len(results')] = "FAILED"  BY <2>3, <2>4
  <2>6. QED  BY <2>5
<1>5. Step
      BY <1>1, <1>4 DEF Next, LoadInstallation, Found, Tick, vars
<1>6. /\ ~Assemble /\ ~ProbeUnasked /\ ~StartLoop
      /\ \A a \in Answers : ~Probe(a) /\ ~ProbeCrashes(a) /\ ~Receive(a)
      BY <1>1 DEF Assemble, ProbeUnasked, StartLoop, Probe, Probed, ProbeCrashes, Receive
<1>7. ~Retry /\ ~Crash /\ ~EstimateGas /\ ~Convert /\ ~AskSources
      BY <1>1 DEF Retry, Crash, Leaves, EstimateGas, Estimated, Convert, Converted, AskSources
<1>8. ~HandleProbe /\ ~NoRate /\ ~Finish
      BY <1>1 DEF HandleProbe, Remembered, Converted, NextSource, NoRate, Finish, Finished
<1>9. /\ \A a \in RpcAnswers : ~EstimateGasByRpc(a) /\ ~RpcFails(a)
      /\ \A a \in HttpRates : ~HandleHttpRate(a) /\ ~HttpRateCrashes(a)
      BY <1>1 DEF EstimateGasByRpc, Estimated, RpcFails, Leaves, HandleHttpRate, Remembered,
                  Converted, NextSource, HttpRateCrashes
<1>10. QED  BY <1>3, <1>5, <1>6, <1>7, <1>8, <1>9 DEF Step

\* aggregate_costs(): a calculation that is complete knows the gas and the fees,
\* so that no fee is deducted.
LEMMA CompleteKnows ==
    ASSUME NEW fees, NEW cost, NEW native, NEW found, NEW now,
           \A fee \in fees : fee.inclusion \in {"INCLUDED_IN_QUOTE", "UNKNOWN"},
           UnknownComponents(fees, cost, native, found, now) = {}
    PROVE  /\ cost.known /\ (native = "base" \/ found # None)
           /\ {fee \in fees : Deducted(fee) /\ IsFresh(fee, now)} = {}
<1> DEFINE U == {g \in {cost} : ~g.known \/ ~Convertible(native, found)}
           F == {fee \in fees : \/ ~fee.known \/ ~IsFresh(fee, now)
                                \/ Deducted(fee) /\ ~Convertible(fee.currency, found)
                                \/ fee.inclusion = "UNKNOWN"}
<1>1. U = {} /\ F = {}  BY DEF UnknownComponents
<1>2. cost.known /\ (native = "base" \/ found # None)  BY <1>1 DEF Convertible
<1>3. \A fee \in fees : fee.inclusion = "INCLUDED_IN_QUOTE"  BY <1>1
<1>4. \A fee \in fees : ~Deducted(fee)  BY <1>3 DEF Deducted
<1>5. QED  BY <1>2, <1>4

\* The costs are those of gas.
LEMMA CostsOfGas ==
    ASSUME NEW fees, NEW cost, NEW native, NEW scale, NEW now,
           {fee \in fees : Deducted(fee) /\ IsFresh(fee, now)} = {},
           Scaled(cost.cost, native, scale) \in Int
    PROVE  TotalCosts(fees, cost, native, scale, now) = Scaled(cost.cost, native, scale)
<1> DEFINE counted == {fee \in fees : Deducted(fee) /\ IsFresh(fee, now)}
           Signed(fee) == (IF fee.type = "REBATE" THEN -1 ELSE 1)
                          * Scaled(fee.amount, fee.currency, scale)
           sum == MapThenSumSet(Signed, counted)
           paid == Scaled(cost.cost, native, scale)
<1>1. TotalCosts(fees, cost, native, scale, now) = sum + paid  BY DEF TotalCosts
<1>2. counted = {}  OBVIOUS
<1> HIDE DEF counted, Signed
<1>3. sum = 0  BY <1>2 DEF MapThenSumSet, MapThenFoldSet
<1>4. paid \in Int  OBVIOUS
<1> HIDE DEF sum, paid
<1>5. sum + paid = paid  BY <1>3, <1>4
<1>6. QED  BY <1>1, <1>5 DEF paid

\* calculate(): what a verdict is computed from.
LEMMA VerdictOf ==
    ASSUME NEW data, NEW now, NEW status \in {"VERIFIED_PROFITABLE", "VERIFIED_UNPROFITABLE"},
           StatusFor(Calculate(data, now)) = status,
           \A fee \in data.fees : fee.inclusion \in {"INCLUDED_IN_QUOTE", "UNKNOWN"},
           data.gas.known => data.gas.cost \in Int,
           data.rate # None => data.rate.num \in Int /\ data.rate.den \in Int,
           data.native = "base" => data.rate = None
    PROVE  /\ data.gas.known
           /\ data.native = "base" \/ (data.rate # None /\ IsFresh(data.rate, now))
           /\ data.metric = "NET_ROI" =>
                (status = "VERIFIED_PROFITABLE" <=>
                   LET num == IF data.native = "base" THEN 1 ELSE data.rate.num
                       den == IF data.native = "base" THEN 1 ELSE data.rate.den
                   IN  100 * ((data.sellOutput - data.input) * den - data.gas.cost * num)
                       >= data.threshold * data.input * den)
<1> DEFINE found == RateFor(data.rate, now)
           scale == IF found = None THEN [num |-> 0, den |-> 1] ELSE found
           unknown == UnknownComponents(data.fees, data.gas, data.native, found, now) # {}
           gross == (data.sellOutput - data.input) * scale.den
           costs == IF unknown THEN 0
                    ELSE TotalCosts(data.fees, data.gas, data.native, scale, now)
           passed == EvaluateThreshold(data.metric, data.threshold, gross, costs,
                                       data.input, data.unit, scale.den, unknown)
           result == Calculate(data, now)
<1>1. result = IF data.buyOutput <= 0 \/ data.sellOutput <= 0
               THEN [status |-> "INVALID", passed |-> FALSE]
               ELSE [status |-> IF unknown THEN "PARTIAL" ELSE "COMPLETE", passed |-> passed]
      BY DEF Calculate
<1>2. result.status = "COMPLETE" /\ (status = "VERIFIED_PROFITABLE" <=> result.passed)
  <2>1. result.status \in {"INVALID", "PARTIAL", "COMPLETE"} /\ result.passed \in BOOLEAN
        BY <1>1 DEF EvaluateThreshold
  <2> HIDE DEF result
  <2>2. QED  BY <2>1 DEF StatusFor, IsProfitable, result
<1>3. ~unknown /\ result.passed = passed
  <2> HIDE DEF result, unknown, passed
  <2>1. ~(data.buyOutput <= 0 \/ data.sellOutput <= 0)  BY <1>1, <1>2
  <2>2. result.status = (IF unknown THEN "PARTIAL" ELSE "COMPLETE") /\ result.passed = passed
        BY <1>1, <2>1
  <2>3. QED  BY <1>2, <2>2
<1>4. /\ data.gas.known /\ (data.native = "base" \/ found # None)
      /\ {fee \in data.fees : Deducted(fee) /\ IsFresh(fee, now)} = {}
      BY <1>3, CompleteKnows
<1>5. found # None => found = data.rate /\ data.rate # None /\ IsFresh(data.rate, now)
      BY DEF RateFor
<1> DEFINE num == IF data.native = "base" THEN 1 ELSE data.rate.num
           den == IF data.native = "base" THEN 1 ELSE data.rate.den
<1>6. scale.den = den /\ Scaled(data.gas.cost, data.native, scale) = data.gas.cost * num
  <2>1. CASE data.native = "base"
    <3>1. found = None  BY <2>1 DEF RateFor
    <3>2. scale.den = 1  BY <3>1
    <3> HIDE DEF scale
    <3>3. QED  BY <2>1, <3>2 DEF Scaled
  <2>2. CASE data.native # "base"
    <3>1. scale = data.rate  BY <1>4, <1>5, <2>2
    <3> HIDE DEF scale
    <3>2. QED  BY <2>2, <3>1 DEF Scaled
  <2>3. QED  BY <2>1, <2>2
<1>7. data.gas.cost * num \in Int
  <2>1. data.gas.cost \in Int  BY <1>4
  <2>2. num \in Int  BY <1>4, <1>5
  <2> HIDE DEF num
  <2>3. QED  BY <2>1, <2>2
<1> HIDE DEF num, den, scale, found
<1>8. TotalCosts(data.fees, data.gas, data.native, scale, now) = data.gas.cost * num
      BY <1>4, <1>6, <1>7, CostsOfGas
<1>9. costs = data.gas.cost * num /\ gross = (data.sellOutput - data.input) * den
      BY <1>3, <1>6, <1>8
<1> HIDE DEF costs, gross, unknown
<1>10. data.metric = "NET_ROI" =>
          (passed <=> 100 * (gross - costs) >= data.threshold * data.input * den)
       BY <1>3, <1>6 DEF EvaluateThreshold
<1> HIDE DEF passed, result
<1>11. data.metric = "NET_ROI" =>
          (status = "VERIFIED_PROFITABLE" <=>
              (100 * ((data.sellOutput - data.input) * den - data.gas.cost * num)
               >= data.threshold * data.input * den))
       BY <1>2, <1>3, <1>9, <1>10
<1>12. QED  BY <1>4, <1>5, <1>11 DEF num, den

\* amounts.py, financials.py, costs.py and profit.py: an amount is found
\* profitable or not only on two quotes that continue each other, both of the
\* providers of the pair and with their gas, on gas that has a price and a fresh
\* rate, and by exactly the arithmetic of what is sold, bought and paid.
THEOREM AmountsJudgedOnKnown == Spec => VerdictsRestOnKnown
<1>1. ASSUME IInv, [Next]_vars,
             NEW status \in {"VERIFIED_PROFITABLE", "VERIFIED_UNPROFITABLE"},
             Len(results') > Len(results), results'[Len(results')] = status
      PROVE  /\ Chained /\ GasAccounted
             /\ Config.profitability.metric = "NET_ROI" =>
                    (status = "VERIFIED_PROFITABLE" <=>
                        IF NativeCurrency = "base" THEN Gain(1, 1) ELSE Gain(rate.num, rate.den))
  <2> DEFINE data == CalculationInput
  <2>1. CalculateProfit  BY <1>1, OnlyCalculated
  <2>2. leg = "calculate" /\ AmountEnds(StatusFor(Calculate(data, clock)))
        BY <2>1 DEF CalculateProfit
  <2>3. StatusFor(Calculate(data, clock)) = status
    <3>1. results \in Seq(AmountStatuses)  BY <1>1, StateTyped
    <3> DEFINE given == StatusFor(Calculate(data, clock))
    <3>2. results' = Append(results, given)  BY <2>2 DEF AmountEnds
    <3> HIDE DEF given
    <3>3. results'[Len(results')] = given  BY <3>1, <3>2
    <3>4. QED  BY <1>1, <3>3 DEF given
  <2>4. /\ BuyConfirmed /\ SellConfirmed /\ GasFounded /\ RateTyped(rate)
        /\ ~RateNeeded => rate = None
        BY <1>1, <2>2 DEF IInv, ChainInv, RatesInv
  <2>5. /\ data.input = Amount /\ data.sellOutput = sell.output /\ data.gas = gas
        /\ data.rate = rate /\ data.native = NativeCurrency
        /\ data.metric = Config.profitability.metric
        /\ data.threshold = Config.profitability.final
        BY <2>4 DEF CalculationInput, BuyConfirmed
  <2>6. \A fee \in data.fees : fee.inclusion \in {"INCLUDED_IN_QUOTE", "UNKNOWN"}
    <3>1. data.fees = {FeesOf(buy.provider, "buy"), FeesOf(sell.provider, "sell")}
          BY DEF CalculationInput
    <3>2. ASSUME NEW id, NEW side
          PROVE  FeesOf(id, side).inclusion \in {"INCLUDED_IN_QUOTE", "UNKNOWN"}
          BY DEF FeesOf, IncludedFee, UnknownFee
    <3> HIDE DEF data
    <3>3. QED  BY <3>1, <3>2
  <2>7. data.native = "base" => data.rate = None
        BY <2>4, <2>5 DEF RateNeeded
  <2>8. data.gas.known => data.gas.cost \in Int  BY <2>4, <2>5 DEF GasFounded
  <2>9. data.rate # None => data.rate.num \in Int /\ data.rate.den \in Int
        BY <2>4, <2>5 DEF RateTyped
  <2> HIDE DEF data
  <2>10. /\ data.gas.known
         /\ data.native = "base" \/ (data.rate # None /\ IsFresh(data.rate, clock))
         /\ data.metric = "NET_ROI" =>
              (status = "VERIFIED_PROFITABLE" <=>
                 LET num == IF data.native = "base" THEN 1 ELSE data.rate.num
                     den == IF data.native = "base" THEN 1 ELSE data.rate.den
                 IN  100 * ((data.sellOutput - data.input) * den - data.gas.cost * num)
                     >= data.threshold * data.input * den)
         BY <2>3, <2>6, <2>7, <2>8, <2>9, VerdictOf
  <2>11. Chained  BY <2>4 DEF Chained, BuyConfirmed, SellConfirmed
  <2>12. GasAccounted
         BY <2>4, <2>5, <2>10 DEF GasAccounted, GasFounded, IsFresh
  <2>13. Config.profitability.metric = "NET_ROI" =>
            (status = "VERIFIED_PROFITABLE" <=>
                IF NativeCurrency = "base" THEN Gain(1, 1) ELSE Gain(rate.num, rate.den))
    <3>1. CASE NativeCurrency = "base"  BY <2>5, <2>10, <3>1 DEF Gain
    <3>2. CASE NativeCurrency # "base"  BY <2>5, <2>10, <3>2 DEF Gain
    <3>3. QED  BY <3>1, <3>2
  <2>14. QED  BY <2>11, <2>12, <2>13
<1>2. IInv /\ [Next]_vars =>
        (\A status \in {"VERIFIED_PROFITABLE", "VERIFIED_UNPROFITABLE"} :
            Len(results') > Len(results) /\ results'[Len(results')] = status =>
                /\ Chained /\ GasAccounted
                /\ Config.profitability.metric = "NET_ROI" =>
                       (status = "VERIFIED_PROFITABLE" <=>
                           IF NativeCurrency = "base" THEN Gain(1, 1) ELSE Gain(rate.num, rate.den)))
      BY <1>1
<1>3. QED  BY <1>2, Invariance, PTL DEF Spec, VerdictsRestOnKnown
===============================================================================
