--------------------------- MODULE MCRouteEnricher ---------------------------
(* The route enricher on a small instance: numbered callsigns. *)
EXTENDS RouteEnricher

MCCallsigns == {1, 2, 3}
MCUnavailable == {1}
=============================================================================
