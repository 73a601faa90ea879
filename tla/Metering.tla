------------------------------ MODULE Metering -------------------------------
(***************************************************************************)
(* From the response of a provider to the cost of an event: the end of a   *)
(* stream starts a lookup of the price, as Handler.ServeHTTP does          *)
(* (proxy/handler.go:96-116).                                              *)
(***************************************************************************)
EXTENDS TokenStream, PricingCache

vars == <<streamVars, priceVars>>

TypeOK == StreamTypeOK /\ PriceTypeOK

Init == StreamInit /\ PriceInit

\* Without usage the event has no cost, and no price is looked up.
Settle ==
    /\ StopScan
    /\ IF usage = NoUsage THEN UNCHANGED priceVars ELSE \E r \in Req : Lookup(r)

Next ==
    \/ Stream /\ UNCHANGED priceVars
    \/ Settle
    \/ PriceNext /\ UNCHANGED streamVars

Spec == Init /\ [][Next]_vars
=============================================================================
