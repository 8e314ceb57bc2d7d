-------------------------- MODULE MCResourceManager --------------------------
(* Three resources: r1 and r2 ask one provider for quotes, behind the gates of *)
(* the provider, of its network and of the operation; r3 asks for the fees of  *)
(* the network, behind the first two; r4 asks a source without limits, which   *)
(* has the common ceiling only.  The provider, the network and the ceiling     *)
(* have fewer slots than requests that want them.                              *)
EXTENDS ResourceManager

CONSTANTS r1, r2, r3, r4, provider, network, operation, ceiling, quotes, fees, rpc

MCRequests == {r1, r2, r3, r4}
MCGates == {provider, network, operation, ceiling}
MCLimit == [g \in MCGates |-> IF g \in {provider, operation} THEN 2 ELSE 1]
MCDepth ==
    [g \in MCGates |-> CASE g = provider -> 1
                         [] g = network -> 2
                         [] g = operation -> 3
                         [] g = ceiling -> 4]
MCResources == {quotes, fees, rpc}
MCResource ==
    [r \in MCRequests |-> IF r = r3 THEN fees ELSE IF r = r4 THEN rpc ELSE quotes]
MCGatesFor ==
    [k \in MCResources |-> CASE k = quotes -> <<provider, network, operation>>
                             [] k = fees -> <<provider, network>>
                             [] k = rpc -> << >>]
==============================================================================
