---------------------------- MODULE MCLevel1Scan ----------------------------
(* Two tokens and two providers that buy and sell for each other; one        *)
(* combination may have no route, the first provider sells neither token.   *)
EXTENDS Level1Scan
CONSTANTS t1, t2, p1, p2
MCTokens == {t1, t2}
MCProviders == {p1, p2}
MCPairs == {<<p1, p2>>, <<p2, p1>>}
MCOffered == {r \in Requests : IF r.operation = "SELL" THEN r.provider = p2
                                ELSE r.token = t1 \/ r.provider = p1}
MCIlliquid == {[token |-> t1, operation |-> "BUY", provider |-> p1]}
=============================================================================
