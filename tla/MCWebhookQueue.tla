--------------------------- MODULE MCWebhookQueue ---------------------------
(* A small instance of WebhookQueue: two notices, either of one tenant and *)
(* two providers, with a property of the first provider only, or of two    *)
(* tenants that have one.                                                  *)
EXTENDS WebhookQueue

CONSTANTS t1, t2, p1, p2

SomeDestinations == {<<t1, p1>>, <<t1, p2>>, <<t2, p1>>}

TwoProviders ==
    [endpoint |-> [n \in Notices |-> [tenant |-> t1, provider |-> IF n = 1 THEN p1 ELSE p2]],
     portfolio |-> SomeDestinations \ {<<t1, p2>>}]

TwoTenants ==
    [endpoint |-> [n \in Notices |-> [tenant |-> IF n = 1 THEN t1 ELSE t2, provider |-> p1]],
     portfolio |-> SomeDestinations]

SomeOpenings == {TwoProviders, TwoTenants}
=============================================================================
