----------------------------- MODULE IngressTLS -----------------------------
(***************************************************************************)
(* What the ingress controller computes from the TLS section of a target   *)
(* Ingress (pkg/ingress/sync.go): the entries it may copy, the one DNS     *)
(* provider they need, and whether a control Ingress already holds them.   *)
(*                                                                         *)
(* A TLS section is a sequence of entries [hosts, secretName].  copyTLS    *)
(* ranges over the map of managed domains for every host and stops at the  *)
(* first domain the host ends in; Go fixes no order for that range, so     *)
(* each occurrence of a host is given any one of the domains it ends in,   *)
(* and CopyTLS is the set of the results copyTLS may have.                 *)
(***************************************************************************)
EXTENDS Naturals, Sequences, FiniteSets

CONSTANTS
  Host,                 \* hosts that appear in TLS sections
  Domain,               \* keys of the dns-providers flag
  Provider,             \* its values other than the empty string
  NoProvider,           \* the empty string
  DomainToDNSProvider,  \* the flag itself: Domain -> provider
  Suffixes              \* Suffixes[h]: the domains host h ends in

ASSUME TLSAssumption ==
  /\ NoProvider \notin Provider
  /\ DomainToDNSProvider \in [Domain -> Provider \cup {NoProvider}]
  /\ Suffixes \in [Host -> SUBSET Domain]

\* A TLS section whose secret names are taken from the given set.
TLSSection(secretNames) == Seq([hosts : Seq(Host), secretName : secretNames])

IsManaged(host) == Suffixes[host] # {}

\* The hosts of a section that some domain manages, by entry and place.
Occurrence(tls) ==
  {o \in (DOMAIN tls) \X UNION {DOMAIN tls[i].hosts : i \in DOMAIN tls} :
     o[2] \in DOMAIN tls[o[1]].hosts /\ IsManaged(tls[o[1]].hosts[o[2]])}

\* The order in which the nested loops come to them.
Before(o, p) == o[1] < p[1] \/ (o[1] = p[1] /\ o[2] < p[2])

\* The domain each occurrence is matched with, in some order of the map.
Matching(tls) ==
  {m \in [Occurrence(tls) -> Domain] :
     \A o \in Occurrence(tls) : m[o] \in Suffixes[tls[o[1]].hosts[o[2]]]}

\* "Configured domains must be managed by exactly one provider": the loop gives
\* up at the first occurrence whose provider differs from the last one found,
\* unless that was empty.
\* The mutant starts over with every entry.
ConflictWithinEntry(tls, matching) ==
  \E o, p \in Occurrence(tls) :
    /\ o[1] = p[1]
    /\ Before(o, p)
    /\ ~ \E q \in Occurrence(tls) : Before(o, q) /\ Before(q, p)
    /\ DomainToDNSProvider[matching[o]] # NoProvider
    /\ DomainToDNSProvider[matching[o]] # DomainToDNSProvider[matching[p]]

Conflict(tls, matching) ==
  \E o, p \in Occurrence(tls) :
    /\ Before(o, p)
    /\ ~ \E q \in Occurrence(tls) : Before(o, q) /\ Before(q, p)
    /\ DomainToDNSProvider[matching[o]] # NoProvider
    /\ DomainToDNSProvider[matching[o]] # DomainToDNSProvider[matching[p]]

\* The provider of the last occurrence, foundProvider when the loops end.
FoundProvider(tls, matching) ==
  LET last == {o \in Occurrence(tls) : \A p \in Occurrence(tls) : ~ Before(o, p)}
  IN  IF last = {} THEN NoProvider
      ELSE DomainToDNSProvider[matching[CHOOSE o \in last : TRUE]]

\* What a loop that appends s[i] for every i of positions has made at its end:
\* element n is the one that has n - 1 of the positions before it.
Subsequence(s, positions) ==
  LET Rank(i) == Cardinality({j \in positions : j <= i})
  IN  [n \in 1..Cardinality(positions) |-> s[CHOOSE i \in positions : Rank(i) = n]]

\* The managed hosts of an entry, and the entries that keep one.
ManagedPlaces(hosts) == {j \in DOMAIN hosts : IsManaged(hosts[j])}
ManagedHosts(hosts) == Subsequence(hosts, ManagedPlaces(hosts))
KeptPlaces(tls) == {i \in DOMAIN tls : ManagedPlaces(tls[i].hosts) # {}}

\* The entries that keep a managed host, without their other hosts.
ManagedEntries(tls) ==
  Subsequence([i \in DOMAIN tls |-> [tls[i] EXCEPT !.hosts = ManagedHosts(@)]],
              KeptPlaces(tls))

\* copyTLS: (nil, "") on a conflict, else the entries and the provider.
CopyWith(tls, matching) ==
  IF Conflict(tls, matching)
  THEN [tls |-> << >>, provider |-> NoProvider]
  ELSE [tls |-> ManagedEntries(tls), provider |-> FoundProvider(tls, matching)]

CopyTLS(tls) == {CopyWith(tls, m) : m \in Matching(tls)}

\* prefixWithNamespace: the control cluster's name of every secret.  The pair
\* stands for CreateNameForControlCluster(namespace, name) of module Naming.
PrefixWithNamespace(tls, namespace) ==
  [i \in DOMAIN tls |-> [tls[i] EXCEPT !.secretName = <<namespace, @>>]]

\* The mutant compares the sections as they are.
DeepEqualUnprefixed(tls, prefixedTLS, namespace) == tls = prefixedTLS

\* deepEqual: reflect.DeepEqual tells the empty copy, a slice of length 0, from
\* the nil slice the API server returns for an empty section.
DeepEqual(tls, prefixedTLS, namespace) ==
  /\ tls # << >>
  /\ PrefixWithNamespace(tls, namespace) = prefixedTLS
=============================================================================
