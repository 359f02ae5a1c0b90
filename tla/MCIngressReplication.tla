------------------------ MODULE MCIngressReplication ------------------------
(***************************************************************************)
(* Small instances of IngressReplication.  Two hosts with a managed domain *)
(* each, whose domains have different providers, and one without.          *)
(***************************************************************************)
EXTENDS IngressReplication

CONSTANTS
  shop, www, other, com, org, route53, clouddns,
  default, blog, cart,   \* a namespace and the names of two Ingresses
  certA, certB           \* secret names

MCDomainToDNSProvider ==
  [d \in Domain |-> IF d = com THEN route53 ELSE clouddns]
MCSuffixes ==
  [h \in Host |-> CASE h = shop -> {com} [] h = www -> {org} [] h = other -> {}]

Entry(host, secret) == [hosts |-> <<host>>, secretName |-> secret]

OneKey == {<<default, blog>>}
TwoKeys == {<<default, blog>>, <<default, cart>>}

\* One section; two with different providers; three with different copies: managed,
\* partly managed, without a managed host; two with two
\* secrets each and different providers.
OneTLS == {<<Entry(shop, certA)>>}
TwoProviders == {<<Entry(shop, certA)>>, <<Entry(www, certB)>>}
MixedTLS ==
  {<<Entry(shop, certA)>>, <<Entry(shop, certB), Entry(other, certA)>>,
   <<Entry(other, certA)>>}
LongTLS ==
  {<<Entry(shop, certA), Entry(shop, certB)>>, <<Entry(www, certA), Entry(www, certB)>>}

OneWorker == [a \in Actor |-> 1]
TwoWorkers == [a \in Actor |-> 2]
=============================================================================
