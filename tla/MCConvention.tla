---------------------------- MODULE MCConvention ----------------------------
(***************************************************************************)
(* Checks Convention on every input within the bounds.                     *)
(***************************************************************************)
EXTENDS Convention

CONSTANTS
  shop, www, eu, other,  \* hosts: of one domain each, of two, of none
  com, org, dev,         \* domains, the last one without a provider
  route53, clouddns      \* providers

\* Values of the constants: eu ends in two domains with different providers.
MCDomainToDNSProvider ==
  [d \in Domain |-> CASE d = com -> route53
                     [] d = org -> clouddns
                     [] d = dev -> NoProvider]
MCSuffixes ==
  [h \in Host |-> CASE h = shop -> {com}
                   [] h = www -> {dev}
                   [] h = eu -> {com, org}
                   [] h = other -> {}]

=============================================================================
