----------------------------- MODULE Convention -----------------------------
(***************************************************************************)
(* The pure parts of the broker on every input: the naming convention on   *)
(* pairs of resources, copyTLS on the TLS sections a user can type, which  *)
(* it runs on step by step (sync.go:211-242).                              *)
(***************************************************************************)
EXTENDS IngressTLS, Naming

CONSTANTS
  Secret,                \* names of secrets
  default,               \* the namespace of the Ingress
  MaxLabels,             \* bound: labels in a name
  MaxEntries, MaxHosts   \* bounds: entries of a section, hosts of an entry

ASSUME BoundsAssumption == {MaxLabels, MaxEntries, MaxHosts} \subseteq Nat

VARIABLES
  input,          \* [one, two]: two resources; [tls]: a TLS section
  pc,             \* of copyTLS: "idle", "loops" or "done"
  order,          \* the managed domain that the range for each host comes to first
  place,          \* the entry and the host at which the loops are
  foundProvider,
  copiedHosts,
  copiedTLS

loops == <<pc, order, place, foundProvider, copiedHosts, copiedTLS>>
vars == <<input, loops>>

Names == UNION {[1..n -> Label] : n \in 1..MaxLabels}

\* What the API server accepts as a resource: a namespace and a name.  A TLS
\* entry of an Ingress may leave its secret name empty, so EmptyString is one.
Resources ==
  [namespace : Namespace, name : {n \in Names : \A i \in DOMAIN n : n[i] # Empty}]
    \cup [namespace : Namespace, name : {EmptyString}]

Pairs == [one : Resources, two : Resources]
Section(tls) == [tls |-> tls]

ArePair == "one" \in DOMAIN input
IsSection == "tls" \in DOMAIN input

Init ==
  /\ input = Section(<< >>)
  /\ pc = "idle" /\ order = << >> /\ place = <<1, 1>>
  /\ foundProvider = NoProvider /\ copiedHosts = << >> /\ copiedTLS = << >>

AddEntry(secret) ==
  /\ IsSection /\ pc = "idle"
  /\ Len(input.tls) < MaxEntries
  /\ input' = Section(Append(input.tls, [hosts |-> << >>, secretName |-> secret]))
  /\ UNCHANGED loops

AddHost(host) ==
  /\ IsSection /\ pc = "idle"
  /\ \E i \in DOMAIN input.tls :
       /\ Len(input.tls[i].hosts) < MaxHosts
       /\ input' = [input EXCEPT !.tls[i].hosts = Append(@, host)]
  /\ UNCHANGED loops

PickPair ==
  /\ input = Section(<< >>) /\ pc = "idle"
  /\ input' \in Pairs
  /\ UNCHANGED loops

Clear ==
  /\ pc # "loops"
  /\ input' = Section(<< >>)
  /\ pc' = "idle" /\ order' = << >> /\ place' = <<1, 1>>
  /\ foundProvider' = NoProvider /\ copiedHosts' = << >> /\ copiedTLS' = << >>

-----------------------------------------------------------------------------
\* copyTLS.  Each range over the domain map has an order of its own and is left
\* at the first domain the host ends in; order holds that domain for each host.

Entry == input.tls[place[1]]
AtEntry == pc = "loops" /\ place[1] <= Len(input.tls)
AtHost == AtEntry /\ place[2] <= Len(Entry.hosts)
ThisHost == Entry.hosts[place[2]]
ThisProvider == DomainToDNSProvider[order[place]]
NextHost == place' = <<place[1], place[2] + 1>>

Call ==
  /\ IsSection /\ pc = "idle"
  /\ order' \in Matching(input.tls)
  /\ pc' = "loops"
  /\ UNCHANGED <<input, place, foundProvider, copiedHosts, copiedTLS>>

IgnoreHost ==
  /\ AtHost /\ ~ IsManaged(ThisHost)
  /\ NextHost
  /\ UNCHANGED <<input, pc, order, foundProvider, copiedHosts, copiedTLS>>

CopyHost ==
  /\ AtHost /\ IsManaged(ThisHost)
  /\ foundProvider \in {NoProvider, ThisProvider}
  /\ foundProvider' = ThisProvider
  /\ copiedHosts' = Append(copiedHosts, ThisHost)
  /\ NextHost
  /\ UNCHANGED <<input, pc, order, copiedTLS>>

\* return nil, "".
GiveUp ==
  /\ AtHost /\ IsManaged(ThisHost)
  /\ foundProvider \notin {NoProvider, ThisProvider}
  /\ foundProvider' = NoProvider
  /\ copiedTLS' = << >>
  /\ pc' = "done"
  /\ UNCHANGED <<input, order, place, copiedHosts>>

\* The mutant declares copiedHosts outside the loop.
EndEntryUnreset ==
  /\ AtEntry /\ ~ AtHost
  /\ copiedTLS' = IF copiedHosts = << >> THEN copiedTLS
                  ELSE Append(copiedTLS, [hosts |-> copiedHosts, secretName |-> Entry.secretName])
  /\ place' = <<place[1] + 1, 1>>
  /\ UNCHANGED <<input, pc, order, foundProvider, copiedHosts>>

EndEntry ==
  /\ AtEntry /\ ~ AtHost
  /\ copiedTLS' = IF copiedHosts = << >> THEN copiedTLS
                  ELSE Append(copiedTLS, [hosts |-> copiedHosts, secretName |-> Entry.secretName])
  /\ copiedHosts' = << >>
  /\ place' = <<place[1] + 1, 1>>
  /\ UNCHANGED <<input, pc, order, foundProvider>>

Return ==
  /\ pc = "loops" /\ ~ AtEntry
  /\ pc' = "done"
  /\ UNCHANGED <<input, order, place, foundProvider, copiedHosts, copiedTLS>>

Next ==
  \/ \E secret \in Secret : AddEntry(secret)
  \/ \E host \in Host : AddHost(host)
  \/ PickPair
  \/ Clear
  \/ Call
  \/ IgnoreHost
  \/ CopyHost
  \/ GiveUp
  \/ EndEntry
  \/ Return

Spec == Init /\ [][Next]_vars

-----------------------------------------------------------------------------
ControlName(r) == CreateNameForControlCluster(<<r.namespace>>, r.name)

\* Every controller that starts from an object of the control cluster (the
\* cleaner, the secret and the event controller) finds the target object again
\* by splitting the name, also when the target name itself contains dots.
NamesAreReversible ==
  ArePair => SplitNamespace(ControlName(input.one)) =
               [namespace |-> <<input.one.namespace>>, name |-> input.one.name]

\* "This is especially used to avoid name clashes in the control cluster"
\* (naming.go:75): two target objects never share a control object.
NamesDoNotClash ==
  ArePair /\ ControlName(input.one) = ControlName(input.two) => input.one = input.two

\* The informers of the cleaner and of the secret controller watch the namespace
\* ResourceNamespace of the control cluster, which is no part of the name.  Of the
\* objects the broker names, whatever namespace of the target cluster `two` lives in,
\* they pass those that live in the watched one and no others
\* (controller-helper.go:136-137, cleaner/controller.go:85).
FilterKeepsManaged ==
  ArePair =>
    LET lives == input.one.namespace
        two == input.two IN
    \A watched \in Namespace :
      FilterMethod(watched, lives, ControlName(two)) <=>
        two.name # EmptyString /\ lives = watched

-----------------------------------------------------------------------------
\* Whatever order the map has, the loops of copyTLS return what CopyWith says,
\* by which IngressReplication models them: all or nothing, the managed hosts
\* of all entries that have one, and the provider of the last of them.
CopyIsWhatTheLoopsDo ==
  pc = "done" =>
    [tls |-> copiedTLS, provider |-> foundProvider] = CopyWith(input.tls, order)

\* "Certificate cannot be requested because configured domains must be managed
\* by exactly one provider" (sync.go:221): when a section is copied, the one
\* provider that goes with it manages every host in it, entries of the flag
\* without a provider aside.
OneProviderManagesAll ==
  IsSection /\ pc = "idle" =>
  \A copy \in CopyTLS(input.tls) : \A i \in DOMAIN copy.tls :
    \A j \in DOMAIN copy.tls[i].hosts :
      \E d \in Suffixes[copy.tls[i].hosts[j]] :
        DomainToDNSProvider[d] \in {copy.provider, NoProvider}

\* "Update Ingress if TLS information has changed" (sync.go:136): what a sync
\* writes satisfies the next sync exactly when every entry has hosts, every
\* host is managed, and no conflict was met.  Otherwise each sync of the key
\* writes the control Ingress again.
WrittenIsUpToDate ==
  IsSection /\ pc = "idle" =>
  LET tls == input.tls IN
  \A copy \in CopyTLS(tls) :
    DeepEqual(tls, PrefixWithNamespace(copy.tls, default), default) <=>
      /\ tls # << >>
      /\ copy.tls # << >>
      /\ \A i \in DOMAIN tls :
           tls[i].hosts # << >> /\ \A j \in DOMAIN tls[i].hosts : IsManaged(tls[i].hosts[j])
=============================================================================
