------------------------- MODULE MCMarketDiscovery -------------------------
(* MarketDiscovery with the two assets of the default configuration.        *)
EXTENDS MarketDiscovery

TwoAssets == <<"BTC", "ETH">>
=============================================================================
