--------------------------- MODULE MCProviderHealth ---------------------------
(* Two providers, so that one of them changes while the other is spoken of.  *)
EXTENDS ProviderHealth
CONSTANTS p1, p2
MCProviders == {p1, p2}
===============================================================================
