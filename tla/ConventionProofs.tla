-------------------------- MODULE ConventionProofs --------------------------
(***************************************************************************)
(* The naming convention for names of any length over any set of labels,   *)
(* and copyTLS for sections of any length over any domains and providers.  *)
(***************************************************************************)
EXTENDS Convention, IngressTLSProofs, SequenceTheorems

\* A name made for the control cluster has the prefix and the namespace in
\* front of the name it was made from, and is long enough for SplitN to cut
\* into three parts unless the name is no string at all.
LEMMA ShapeOfControlName ==
  ASSUME NEW ns \in Label, NEW name \in String
  PROVE  LET c == CreateNameForControlCluster(<<ns>>, name) IN
         /\ c \in String
         /\ Len(c) >= NumOfTokens
         /\ c[1] = ManagedCert
         /\ c[2] = ns
         /\ SubSeq(c, NumOfTokens, Len(c)) = name
<1> DEFINE c == CreateNameForControlCluster(<<ns>>, name)
<1>1. /\ name \in Seq(Label)
      /\ Len(name) \in Nat
      /\ Len(name) >= 1
  BY DEF String
<1>2. /\ c \in Seq(Label)
      /\ Len(c) = Len(name) + 2
      /\ c[1] = ManagedCert
      /\ c[2] = ns
      /\ \A i \in 1..Len(name) : c[i + 2] = name[i]
  BY <1>1, LabelAssumption DEF CreateNameForControlCluster
<1> HIDE DEF c
<1>3. /\ c \in String
      /\ Len(c) >= NumOfTokens
  BY <1>1, <1>2 DEF String, NumOfTokens
<1>4. SubSeq(c, NumOfTokens, Len(c)) = name
  <2> DEFINE sub == SubSeq(c, NumOfTokens, Len(c))
  <2>1. /\ sub \in Seq(Label)
        /\ Len(sub) = Len(name)
        /\ \A i \in 1..Len(name) : sub[i] = c[i + 2]
    BY <1>1, <1>2 DEF NumOfTokens
  <2>2. \A i \in 1..Len(name) : sub[i] = name[i]
    BY <1>2, <2>1
  <2> HIDE DEF sub
  <2>3. sub = name
    BY <1>1, <2>1, <2>2, SeqEqual
  <2> QED
    BY <2>3 DEF sub
<1> QED
  BY <1>2, <1>3, <1>4 DEF c

\* A controller that splits the name of a control object gets back exactly the
\* namespace and the name of the target object, dots included
\* (CreateNameForControlCluster followed by SplitNamespace).
THEOREM SplitUndoesCreate ==
  ASSUME NEW ns \in Label, NEW name \in String
  PROVE  SplitNamespace(CreateNameForControlCluster(<<ns>>, name))
           = [namespace |-> <<ns>>, name |-> name]
<1> DEFINE c == CreateNameForControlCluster(<<ns>>, name)
<1>1. /\ c \in String
      /\ Len(c) >= NumOfTokens
      /\ c[2] = ns
      /\ SubSeq(c, NumOfTokens, Len(c)) = name
  BY ShapeOfControlName
<1> HIDE DEF c
<1>2. Parts(c) = <<<<c[1]>>, <<ns>>, name>>
  <2>1. Len(c) \in Nat /\ ~(Len(c) < NumOfTokens)
    BY <1>1 DEF String, NumOfTokens
  <2> QED
    BY <1>1, <2>1 DEF Parts
<1>3. /\ Len(Parts(c)) = NumOfTokens
      /\ Parts(c)[2] = <<ns>>
      /\ Parts(c)[3] = name
  BY <1>2 DEF NumOfTokens
<1>4. SplitNamespace(c) = [namespace |-> <<ns>>, name |-> name]
  BY <1>3 DEF SplitNamespace, NumOfTokens
<1> QED
  BY <1>4 DEF c

\* "To avoid name clashes in the control cluster": the names made for two
\* target objects are equal only if the objects are.
THEOREM ControlNamesDoNotClash ==
  ASSUME NEW ns1 \in Label, NEW name1 \in String,
         NEW ns2 \in Label, NEW name2 \in String,
         CreateNameForControlCluster(<<ns1>>, name1)
           = CreateNameForControlCluster(<<ns2>>, name2)
  PROVE  ns1 = ns2 /\ name1 = name2
<1>1. [namespace |-> <<ns1>>, name |-> name1]
        = [namespace |-> <<ns2>>, name |-> name2]
  BY SplitUndoesCreate
<1>2. <<ns1>> = <<ns2>> /\ name1 = name2
  BY <1>1
<1> QED
  BY <1>2

\* The informer filter of the cleaner and of the secret controller passes every
\* named object the broker creates in the watched namespace, and none of
\* another namespace.
THEOREM FilterPassesManaged ==
  ASSUME NEW ns \in Namespace, NEW name \in String, name # EmptyString,
         NEW watched, NEW namespace
  PROVE  FilterMethod(watched, namespace, CreateNameForControlCluster(<<ns>>, name))
           <=> namespace = watched
<1>1. ns \in Label /\ <<ns>> # EmptyString
  BY DEF Namespace, EmptyString
<1>2. SplitNamespace(CreateNameForControlCluster(<<ns>>, name))
        = [namespace |-> <<ns>>, name |-> name]
  BY <1>1, SplitUndoesCreate
<1> QED
  BY <1>1, <1>2 DEF FilterMethod

-----------------------------------------------------------------------------
\* The inputs of Convention are resources and TLS sections.

InputOK == input \in Pairs \/ \E tls \in TLSSection(Secret) : input = Section(tls)

LEMMA InputKinds ==
  ASSUME InputOK
  PROVE  /\ ArePair => input \in Pairs
         /\ IsSection => input.tls \in TLSSection(Secret) /\ input = Section(input.tls)
<1>1. CASE input \in Pairs
  BY <1>1 DEF Pairs, IsSection
<1>2. ASSUME NEW tls \in TLSSection(Secret), input = Section(tls)
      PROVE  ~ ArePair /\ input.tls \in TLSSection(Secret) /\ input = Section(input.tls)
  BY <1>2 DEF Section, ArePair
<1> QED
  BY <1>1, <1>2 DEF InputOK

LEMMA ResourceParts ==
  ASSUME NEW r \in Resources
  PROVE  /\ r.namespace \in Namespace /\ r.namespace \in Label
         /\ r.name \in String
         /\ r = [namespace |-> r.namespace, name |-> r.name]
<1>1. ASSUME NEW n \in Names PROVE n \in String
  <2>1. PICK l \in 1..MaxLabels : n \in [1..l -> Label]
    BY DEF Names
  <2>2. MaxLabels \in Nat
    BY BoundsAssumption
  <2>3. l \in Nat /\ l # 0
    BY <2>1, <2>2
  <2>4. n \in Seq(Label) /\ Len(n) = l
    BY <2>1, <2>3
  <2> QED
    BY <2>3, <2>4 DEF String
<1>2. EmptyString \in String
  BY LabelAssumption DEF EmptyString, String
<1> QED
  BY <1>1, <1>2 DEF Resources, Namespace

LEMMA AddEntryOK ==
  ASSUME InputOK, NEW secret \in Secret, AddEntry(secret)
  PROVE  InputOK'
<1> DEFINE entry == [hosts |-> << >>, secretName |-> secret]
<1>1. input.tls \in TLSSection(Secret)
  BY InputKinds DEF AddEntry
<1>2. entry \in [hosts : Seq(Host), secretName : Secret]
  OBVIOUS
<1>3. Append(input.tls, entry) \in TLSSection(Secret)
  <2> HIDE DEF entry
  <2> QED
    BY <1>1, <1>2 DEF TLSSection
<1> QED
  BY <1>3 DEF AddEntry, InputOK, Section

LEMMA AddHostOK ==
  ASSUME InputOK, NEW host \in Host, AddHost(host)
  PROVE  InputOK'
<1>1. input.tls \in TLSSection(Secret) /\ input = Section(input.tls)
  BY InputKinds DEF AddHost
<1>2. PICK i \in DOMAIN input.tls :
        input' = [input EXCEPT !.tls[i].hosts = Append(@, host)]
  BY DEF AddHost
<1> DEFINE tls == [input.tls EXCEPT ![i].hosts = Append(@, host)]
<1>3. input' = Section(tls)
  BY <1>1, <1>2 DEF Section
<1>4. tls \in TLSSection(Secret)
  <2> DEFINE E == [hosts : Seq(Host), secretName : Secret]
             entry == [input.tls[i] EXCEPT !.hosts = Append(@, host)]
  <2>1. input.tls[i] \in E /\ input.tls[i].hosts \in Seq(Host)
    BY <1>1, SectionParts
  <2>2. Append(input.tls[i].hosts, host) \in Seq(Host)
    BY <2>1
  <2>3. entry \in E
    BY <2>1, <2>2
  <2>4. tls = [input.tls EXCEPT ![i] = entry] /\ input.tls \in Seq(E)
    BY <1>1 DEF TLSSection
  <2> HIDE DEF tls, entry, E
  <2>5. tls \in Seq(E)
    BY <2>3, <2>4
  <2> QED
    BY <2>5 DEF TLSSection, E
<1> QED
  BY <1>3, <1>4 DEF InputOK

LEMMA InputsAreOK == Spec => []InputOK
<1>0. << >> \in TLSSection(Secret)
  BY DEF TLSSection
<1>1. Init => InputOK
  BY <1>0 DEF Init, InputOK
<1>2. InputOK /\ [Next]_vars => InputOK'
  <2> SUFFICES ASSUME InputOK, [Next]_vars PROVE InputOK'
    OBVIOUS
  <2>1. CASE PickPair
    BY <2>1 DEF PickPair, InputOK
  <2>2. CASE Clear
    BY <1>0, <2>2 DEF Clear, InputOK
  <2>3. CASE UNCHANGED input
    BY <2>3 DEF InputOK
  <2>4. CASE Call \/ IgnoreHost \/ CopyHost \/ GiveUp \/ EndEntry \/ Return
    BY <2>3, <2>4 DEF Call, IgnoreHost, CopyHost, GiveUp, EndEntry, Return
  <2> QED
    BY <2>1, <2>2, <2>3, <2>4, AddEntryOK, AddHostOK DEF Next, vars
<1> QED
  BY <1>1, <1>2, PTL DEF Spec

-----------------------------------------------------------------------------
\* The loops of copyTLS at place p: what they have copied and which provider
\* they have found, given the hosts they have passed.

HostsBefore(hosts, n) == Subsequence(hosts, Below(ManagedPlaces(hosts), n))
Trimmed(tls) == [i \in DOMAIN tls |-> [tls[i] EXCEPT !.hosts = ManagedHosts(@)]]
EntriesBefore(tls, n) == Subsequence(Trimmed(tls), Below(KeptPlaces(tls), n))

Passed(tls, p) == {o \in Occurrence(tls) : Before(o, p)}
Adjacent(tls, o, p) ==
  Before(o, p) /\ ~ \E q \in Occurrence(tls) : Before(o, q) /\ Before(q, p)
ProviderOf(m, o) == DomainToDNSProvider[m[o]]
IsFound(tls, m, p, found) ==
  \/ Passed(tls, p) = {} /\ found = NoProvider
  \/ \E o \in Passed(tls, p) : Adjacent(tls, o, p) /\ found = ProviderOf(m, o)
NoConflictBefore(tls, m, p) ==
  \A o, q \in Passed(tls, p) :
    Adjacent(tls, o, q) => ProviderOf(m, o) \in {NoProvider, ProviderOf(m, q)}

LEMMA HostsGrow ==
  ASSUME NEW hosts \in Seq(Host), NEW n \in Nat \ {0}
  PROVE  /\ HostsBefore(hosts, 1) = << >>
         /\ n <= Len(hosts) /\ IsManaged(hosts[n]) =>
              HostsBefore(hosts, n + 1) = Append(HostsBefore(hosts, n), hosts[n])
         /\ n <= Len(hosts) /\ ~ IsManaged(hosts[n]) =>
              HostsBefore(hosts, n + 1) = HostsBefore(hosts, n)
         /\ n > Len(hosts) => HostsBefore(hosts, n) = ManagedHosts(hosts)
<1> DEFINE P == ManagedPlaces(hosts)
<1>1. /\ P \in SUBSET (1..Len(hosts))
      /\ Len(hosts) \in Nat
      /\ \A j \in 1..Len(hosts) : j \in P <=> IsManaged(hosts[j])
  BY DomainOf DEF ManagedPlaces
<1>2. n <= Len(hosts) => n \in 1..Len(hosts)
  BY <1>1
<1> HIDE DEF P
<1>3. /\ Subsequence(hosts, Below(P, 1)) = << >>
      /\ n \in P => Subsequence(hosts, Below(P, n + 1)) =
                      Append(Subsequence(hosts, Below(P, n)), hosts[n])
      /\ n \notin P => Subsequence(hosts, Below(P, n + 1))
                        = Subsequence(hosts, Below(P, n))
      /\ n > Len(hosts) => Subsequence(hosts, Below(P, n)) = Subsequence(hosts, P)
  BY <1>1, LoopAppends
<1> QED
  BY <1>1, <1>2, <1>3 DEF HostsBefore, ManagedHosts, P

LEMMA EntriesGrow ==
  ASSUME NEW S, NEW tls \in TLSSection(S), NEW n \in Nat \ {0}
  PROVE  LET kept == ManagedHosts(tls[n].hosts) IN
         /\ EntriesBefore(tls, 1) = << >>
         /\ n <= Len(tls) /\ kept # << >> =>
              EntriesBefore(tls, n + 1) =
                Append(EntriesBefore(tls, n), [hosts |-> kept, secretName |-> tls[n].secretName])
         /\ n <= Len(tls) /\ kept = << >> =>
              EntriesBefore(tls, n + 1) = EntriesBefore(tls, n)
         /\ n > Len(tls) => EntriesBefore(tls, n) = ManagedEntries(tls)
<1> DEFINE P == KeptPlaces(tls)
           E == [hosts : Seq(Host), secretName : S]
           r == Trimmed(tls)
           kept == ManagedHosts(tls[n].hosts)
<1>1. /\ Len(tls) \in Nat
      /\ DOMAIN tls = 1..Len(tls)
      /\ \A i \in 1..Len(tls) : tls[i] \in E /\ tls[i].hosts \in Seq(Host)
  BY SectionParts
<1>2. P \in SUBSET (1..Len(tls)) /\ \A i \in P : i \in Nat /\ 1 <= i /\ i <= Len(tls)
  BY <1>1 DEF KeptPlaces
<1>3. \A i \in 1..Len(tls) : /\ ManagedHosts(tls[i].hosts) \in Seq(Host)
                             /\ ManagedHosts(tls[i].hosts) = << >> <=> i \notin P
  <2> SUFFICES ASSUME NEW i \in 1..Len(tls)
               PROVE  /\ ManagedHosts(tls[i].hosts) \in Seq(Host)
                      /\ ManagedHosts(tls[i].hosts) = << >> <=> i \notin P
    OBVIOUS
  <2> DEFINE hosts == tls[i].hosts
  <2>1. hosts \in Seq(Host) /\ ManagedPlaces(hosts) \in SUBSET (1..Len(hosts))
    BY <1>1, ManagedHostsOf
  <2>2. ManagedHosts(hosts) \in Seq(Host) /\ (ManagedHosts(hosts) = << >> <=> ManagedPlaces(hosts) = {})
    <3> HIDE DEF hosts
    <3> QED
      BY <2>1, SubsequenceOf DEF ManagedHosts
  <2> QED
    BY <1>1, <2>2 DEF KeptPlaces
<1>4. r \in Seq(E) /\ Len(r) = Len(tls)
  <2>1. \A i \in 1..Len(tls) : [tls[i] EXCEPT !.hosts = ManagedHosts(@)] \in E
    BY <1>1, <1>3
  <2> HIDE DEF E
  <2> QED
    BY <1>1, <2>1 DEF Trimmed
<1>5. n <= Len(tls) =>
        n \in 1..Len(tls) /\ r[n] = [hosts |-> kept, secretName |-> tls[n].secretName]
  BY <1>1 DEF Trimmed
<1> HIDE DEF P, E, r, kept
<1>6. P \in SUBSET (1..Len(r))
  BY <1>2, <1>4
<1>7. /\ Subsequence(r, Below(P, 1)) = << >>
      /\ n \in P => Subsequence(r, Below(P, n + 1))
                     = Append(Subsequence(r, Below(P, n)), r[n])
      /\ n \notin P => Subsequence(r, Below(P, n + 1))
                        = Subsequence(r, Below(P, n))
      /\ n > Len(r) => Subsequence(r, Below(P, n)) = Subsequence(r, P)
  BY <1>4, <1>6, LoopAppends
<1>8. Subsequence(r, P) = ManagedEntries(tls)
  BY DEF ManagedEntries, Trimmed, P, r
<1>9. \A l : EntriesBefore(tls, l) = Subsequence(r, Below(P, l))
  BY DEF EntriesBefore, P, r
<1>10. n <= Len(tls) => (kept = << >> <=> n \notin P)
  BY <1>3, <1>5 DEF kept
<1> QED
  BY <1>4, <1>5, <1>7, <1>8, <1>9, <1>10 DEF kept

\* The loops pass a host at a time, and an entry when its hosts are passed.
LEMMA HostIsPassed ==
  ASSUME NEW S, NEW tls \in TLSSection(S), NEW p \in Nat \X Nat, NEW o \in Occurrence(tls)
  PROVE  Before(o, <<p[1], p[2] + 1>>) <=> Before(o, p) \/ o = p
<1>1. /\ o = <<o[1], o[2]>> /\ o[1] \in Nat /\ o[2] \in Nat
      /\ p = <<p[1], p[2]>> /\ p[1] \in Nat /\ p[2] \in Nat
  BY OccurrenceOf
<1>2. o = p <=> o[1] = p[1] /\ o[2] = p[2]
  BY <1>1
<1> QED
  BY <1>1, <1>2 DEF Before

LEMMA EntryIsPassed ==
  ASSUME NEW S, NEW tls \in TLSSection(S), NEW p \in Nat \X Nat, NEW o \in Occurrence(tls),
         p[1] \in DOMAIN tls, p[2] > Len(tls[p[1]].hosts)
  PROVE  Before(o, <<p[1] + 1, 1>>) <=> Before(o, p)
<1>1. /\ o[1] \in Nat /\ o[2] \in Nat /\ o[2] <= Len(tls[o[1]].hosts)
      /\ o[2] \in ManagedPlaces(tls[o[1]].hosts) /\ o[1] \in DOMAIN tls
  BY OccurrenceOf
<1>2. DOMAIN tls[o[1]].hosts = 1..Len(tls[o[1]].hosts) /\ Len(tls[o[1]].hosts) \in Nat
  BY <1>1, SectionParts
<1>3. 1 <= o[2]
  BY <1>1, <1>2 DEF ManagedPlaces
<1>4. p[1] \in Nat /\ p[2] \in Nat
  OBVIOUS
<1>5. o[1] = p[1] => o[2] < p[2]
  BY <1>1, <1>2, <1>4
<1> QED
  BY <1>1, <1>3, <1>4, <1>5 DEF Before

\* Two places with the same hosts before them are the same to the loops.
LEMMA SamePassed ==
  ASSUME NEW tls, NEW m, NEW found, NEW p, NEW q,
         \A o \in Occurrence(tls) : Before(o, q) <=> Before(o, p),
         IsFound(tls, m, p, found), NoConflictBefore(tls, m, p)
  PROVE  IsFound(tls, m, q, found) /\ NoConflictBefore(tls, m, q)
<1>1. Passed(tls, q) = Passed(tls, p)
  BY DEF Passed
<1>2. \A o \in Occurrence(tls) : Adjacent(tls, o, q) <=> Adjacent(tls, o, p)
  BY DEF Adjacent
<1>3. Passed(tls, p) \subseteq Occurrence(tls)
  BY DEF Passed
<1> QED
  BY <1>1, <1>2, <1>3 DEF IsFound, NoConflictBefore

LEMMA CopiedIsPassed ==
  ASSUME NEW S, NEW tls \in TLSSection(S), NEW m, NEW found, NEW p \in Occurrence(tls), NEW q,
         \A o \in Occurrence(tls) : Before(o, q) <=> Before(o, p) \/ o = p,
         IsFound(tls, m, p, found), NoConflictBefore(tls, m, p),
         found \in {NoProvider, ProviderOf(m, p)}
  PROVE  IsFound(tls, m, q, ProviderOf(m, p)) /\ NoConflictBefore(tls, m, q)
<1> DEFINE Occ == Occurrence(tls)
<1>1. \A a, b \in Occ : /\ ~ Before(a, a)
                        /\ a = b \/ Before(a, b) \/ Before(b, a)
                        /\ \A c \in Occ : Before(a, b) /\ Before(b, c) => Before(a, c)
  BY BeforeIsTotal
<1>2. IsFound(tls, m, q, ProviderOf(m, p))
  <2>1. p \in Passed(tls, q)
    BY DEF Passed
  <2>2. Adjacent(tls, p, q)
    BY <1>1 DEF Adjacent
  <2> QED
    BY <2>1, <2>2 DEF IsFound
<1>3. ASSUME NEW a \in Passed(tls, q), NEW b \in Passed(tls, q), Adjacent(tls, a, b)
      PROVE  ProviderOf(m, a) \in {NoProvider, ProviderOf(m, b)}
  <2>1. a \in Occ /\ b \in Occ /\ Before(a, b) /\ (Before(b, p) \/ b = p)
    BY <1>3 DEF Passed, Adjacent
  <2>2. Before(a, p) /\ a \in Passed(tls, p)
    BY <1>1, <2>1 DEF Passed
  <2>3. CASE Before(b, p)
    <3>1. b \in Passed(tls, p)
      BY <2>1, <2>3 DEF Passed
    <3> QED
      BY <1>3, <2>2, <3>1 DEF NoConflictBefore
  <2>4. CASE b = p
    <3>1. PICK o \in Passed(tls, p) : Adjacent(tls, o, p) /\ found = ProviderOf(m, o)
      BY <2>2 DEF IsFound
    <3>2. o \in Occ /\ Before(o, p)
      BY <3>1 DEF Passed
    <3>3. a = o
      BY <1>1, <1>3, <2>1, <2>2, <2>4, <3>1, <3>2 DEF Adjacent
    <3> QED
      BY <2>4, <3>1, <3>3
  <2> QED
    BY <2>1, <2>3, <2>4
<1> QED
  BY <1>2, <1>3 DEF NoConflictBefore

LEMMA ConflictIsMet ==
  ASSUME NEW tls, NEW m, NEW found, NEW p \in Occurrence(tls),
         IsFound(tls, m, p, found), found \notin {NoProvider, ProviderOf(m, p)}
  PROVE  Conflict(tls, m)
<1>1. PICK o \in Passed(tls, p) : Adjacent(tls, o, p) /\ found = ProviderOf(m, o)
  BY DEF IsFound
<1>2. o \in Occurrence(tls)
  BY DEF Passed
<1> QED
  BY <1>1, <1>2 DEF Adjacent, ProviderOf, Conflict

LEMMA AllArePassed ==
  ASSUME NEW S, NEW tls \in TLSSection(S), NEW m, NEW found, NEW p \in Nat \X Nat,
         p[1] > Len(tls), IsFound(tls, m, p, found), NoConflictBefore(tls, m, p)
  PROVE  ~ Conflict(tls, m) /\ found = FoundProvider(tls, m)
<1>1. \A o \in Occurrence(tls) : Before(o, p)
  <2> SUFFICES ASSUME NEW o \in Occurrence(tls) PROVE Before(o, p)
    OBVIOUS
  <2>1. o[1] \in Nat /\ o[1] <= Len(tls) /\ Len(tls) \in Nat /\ p[1] \in Nat
    BY OccurrenceOf, SectionParts
  <2> QED
    BY <2>1 DEF Before
<1>2. Passed(tls, p) = Occurrence(tls)
  BY <1>1 DEF Passed
<1>3. ~ Conflict(tls, m)
  BY <1>2 DEF NoConflictBefore, Adjacent, ProviderOf, Conflict
<1>4. CASE Occurrence(tls) = {}
  <2>1. FoundProvider(tls, m) = NoProvider
    BY <1>4 DEF FoundProvider
  <2> QED
    BY <1>2, <1>3, <1>4, <2>1 DEF IsFound
<1>5. CASE Occurrence(tls) # {}
  <2>1. PICK o \in Occurrence(tls) : Adjacent(tls, o, p) /\ found = ProviderOf(m, o)
    BY <1>2, <1>5 DEF IsFound
  <2>2. \A q \in Occurrence(tls) : ~ Before(o, q)
    BY <1>1, <2>1 DEF Adjacent
  <2>3. FoundProvider(tls, m) = DomainToDNSProvider[m[o]]
    BY <2>2, FoundIsOfLast
  <2> QED
    BY <1>3, <2>1, <2>3 DEF ProviderOf
<1> QED
  BY <1>4, <1>5

IdleOK ==
  pc = "idle" => /\ place = <<1, 1>> /\ foundProvider = NoProvider
                 /\ copiedHosts = << >> /\ copiedTLS = << >>

LoopsOK ==
  pc = "loops" =>
    /\ IsSection
    /\ order \in Matching(input.tls)
    /\ place \in (Nat \ {0}) \X (Nat \ {0})
    /\ copiedTLS = EntriesBefore(input.tls, place[1])
    /\ AtEntry => copiedHosts = HostsBefore(Entry.hosts, place[2])
    /\ IsFound(input.tls, order, place, foundProvider)
    /\ NoConflictBefore(input.tls, order, place)

LoopsInv == InputOK /\ IdleOK /\ LoopsOK /\ CopyIsWhatTheLoopsDo

\* What is known at a host, and at the end of an entry.
LEMMA AtPlace ==
  ASSUME LoopsInv, pc = "loops"
  PROVE  /\ input.tls \in TLSSection(Secret)
         /\ place[1] \in Nat \ {0} /\ place[2] \in Nat \ {0} /\ place \in Nat \X Nat
         /\ place = <<place[1], place[2]>>
         /\ AtEntry => place[1] \in DOMAIN input.tls /\ Entry.hosts \in Seq(Host)
         /\ AtHost => place[2] \in DOMAIN Entry.hosts
         /\ AtHost => (place \in Occurrence(input.tls) <=> IsManaged(ThisHost))
<1> DEFINE tls == input.tls
<1>1. tls \in TLSSection(Secret) /\ place \in (Nat \ {0}) \X (Nat \ {0})
  BY InputKinds DEF LoopsInv, LoopsOK
<1>2. place[1] \in Nat \ {0} /\ place[2] \in Nat \ {0} /\ place = <<place[1], place[2]>>
  BY <1>1
<1>3. AtEntry => place[1] \in DOMAIN tls /\ Entry.hosts \in Seq(Host)
                 /\ DOMAIN Entry.hosts = 1..Len(Entry.hosts)
  BY <1>1, <1>2, SectionParts DEF AtEntry, Entry
<1>4. AtHost => place[2] \in DOMAIN Entry.hosts
  BY <1>2, <1>3 DEF AtHost
<1>5. ASSUME AtHost PROVE place \in Occurrence(tls) <=> IsManaged(ThisHost)
  <2>1. place[1] \in DOMAIN tls /\ place[2] \in DOMAIN tls[place[1]].hosts
    BY <1>3, <1>4, <1>5 DEF AtHost, Entry
  <2>2. place \in (DOMAIN tls) \X UNION {DOMAIN tls[i].hosts : i \in DOMAIN tls}
    BY <1>2, <2>1
  <2> QED
    BY <2>1, <2>2 DEF Occurrence, ThisHost, Entry
<1> QED
  BY <1>1, <1>2, <1>3, <1>4, <1>5

LEMMA CallKeeps ==
  ASSUME LoopsInv, Call PROVE LoopsOK'
<1> DEFINE tls == input.tls
<1>1. /\ IsSection /\ tls \in TLSSection(Secret) /\ input' = input
      /\ place' = <<1, 1>> /\ foundProvider' = NoProvider
      /\ copiedHosts' = << >> /\ copiedTLS' = << >>
      /\ order' \in Matching(tls)
  BY InputKinds DEF LoopsInv, IdleOK, Call
<1>2. EntriesBefore(tls, 1) = << >>
  <2>1. 1 \in Nat \ {0}
    OBVIOUS
  <2> HIDE DEF tls
  <2> QED
    BY <1>1, <2>1, EntriesGrow
<1>3. AtEntry' => HostsBefore(tls[1].hosts, 1) = << >>
  <2> SUFFICES ASSUME AtEntry' PROVE HostsBefore(tls[1].hosts, 1) = << >>
    OBVIOUS
  <2>1. tls[1].hosts \in Seq(Host)
    BY <1>1, SectionParts DEF AtEntry
  <2> QED
    BY <2>1, HostsGrow
<1>4. Passed(tls, <<1, 1>>) = {}
  <2> SUFFICES ASSUME NEW o \in Occurrence(tls) PROVE ~ Before(o, <<1, 1>>)
    BY DEF Passed
  <2>1. /\ o[1] \in DOMAIN tls /\ o[1] \in Nat /\ o[2] \in Nat
        /\ o[2] \in ManagedPlaces(tls[o[1]].hosts)
    BY <1>1, OccurrenceOf
  <2>2. /\ DOMAIN tls = 1..Len(tls)
        /\ DOMAIN tls[o[1]].hosts = 1..Len(tls[o[1]].hosts)
    BY <1>1, <2>1, SectionParts
  <2>3. 1 <= o[1] /\ 1 <= o[2]
    BY <2>1, <2>2 DEF ManagedPlaces
  <2> QED
    BY <2>1, <2>3 DEF Before
<1>5. /\ IsFound(tls, order', <<1, 1>>, NoProvider)
      /\ NoConflictBefore(tls, order', <<1, 1>>)
  BY <1>4 DEF IsFound, NoConflictBefore
<1>6. <<1, 1>> \in (Nat \ {0}) \X (Nat \ {0})
  OBVIOUS
<1> QED
  BY <1>1, <1>2, <1>3, <1>5, <1>6 DEF LoopsOK, IsSection, Entry

LEMMA IgnoreHostKeeps ==
  ASSUME LoopsInv, IgnoreHost PROVE LoopsOK'
<1> DEFINE tls == input.tls
           next == <<place[1], place[2] + 1>>
<1>1. /\ pc = "loops" /\ AtEntry /\ AtHost /\ ~ IsManaged(ThisHost)
      /\ place' = next
      /\ UNCHANGED <<input, pc, order, foundProvider, copiedHosts, copiedTLS>>
  BY DEF IgnoreHost, NextHost, AtHost, AtEntry
<1>2. /\ tls \in TLSSection(Secret)
      /\ place[1] \in Nat \ {0} /\ place[2] \in Nat \ {0} /\ place \in Nat \X Nat
      /\ Entry.hosts \in Seq(Host)
      /\ place \notin Occurrence(tls)
  BY <1>1, AtPlace
<1>3. \A o \in Occurrence(tls) : Before(o, next) <=> Before(o, place)
  BY <1>2, HostIsPassed
<1>4. /\ IsFound(tls, order, next, foundProvider)
      /\ NoConflictBefore(tls, order, next)
  <2>1. IsFound(tls, order, place, foundProvider) /\ NoConflictBefore(tls, order, place)
    BY <1>1 DEF LoopsInv, LoopsOK
  <2> HIDE DEF next, tls
  <2> QED
    BY <1>3, <2>1, SamePassed
<1>5. copiedHosts = HostsBefore(Entry.hosts, place[2] + 1)
  <2>1. copiedHosts = HostsBefore(Entry.hosts, place[2]) /\ place[2] <= Len(Entry.hosts)
    BY <1>1 DEF LoopsInv, LoopsOK, AtHost
  <2> QED
    BY <1>1, <1>2, <2>1, HostsGrow DEF ThisHost
<1>6. next[1] = place[1] /\ next[2] = place[2] + 1 /\ next \in (Nat \ {0}) \X (Nat \ {0})
  BY <1>2
<1> HIDE DEF next
<1>7. Entry' = Entry
  BY <1>1, <1>6 DEF Entry
<1> QED
  BY <1>1, <1>4, <1>5, <1>6, <1>7 DEF LoopsInv, LoopsOK, IsSection

LEMMA CopyHostKeeps ==
  ASSUME LoopsInv, CopyHost PROVE LoopsOK'
<1> DEFINE tls == input.tls
           next == <<place[1], place[2] + 1>>
<1>1. /\ pc = "loops" /\ AtEntry /\ AtHost /\ IsManaged(ThisHost)
      /\ foundProvider \in {NoProvider, ThisProvider}
      /\ foundProvider' = ThisProvider
      /\ copiedHosts' = Append(copiedHosts, ThisHost)
      /\ place' = next
      /\ UNCHANGED <<input, pc, order, copiedTLS>>
  BY DEF CopyHost, NextHost, AtHost, AtEntry
<1>2. /\ tls \in TLSSection(Secret)
      /\ place[1] \in Nat \ {0} /\ place[2] \in Nat \ {0} /\ place \in Nat \X Nat
      /\ Entry.hosts \in Seq(Host)
      /\ place \in Occurrence(tls)
  BY <1>1, AtPlace
<1>3. \A o \in Occurrence(tls) : Before(o, next) <=> Before(o, place) \/ o = place
  BY <1>2, HostIsPassed
<1>4. /\ IsFound(tls, order, next, ThisProvider)
      /\ NoConflictBefore(tls, order, next)
  <2>1. IsFound(tls, order, place, foundProvider) /\ NoConflictBefore(tls, order, place)
    BY <1>1 DEF LoopsInv, LoopsOK
  <2>2. ThisProvider = ProviderOf(order, place)
    BY DEF ThisProvider, ProviderOf
  <2> HIDE DEF next, tls
  <2> QED
    BY <1>1, <1>2, <1>3, <2>1, <2>2, CopiedIsPassed
<1>5. Append(copiedHosts, ThisHost) = HostsBefore(Entry.hosts, place[2] + 1)
  <2>1. copiedHosts = HostsBefore(Entry.hosts, place[2]) /\ place[2] <= Len(Entry.hosts)
    BY <1>1 DEF LoopsInv, LoopsOK, AtHost
  <2> QED
    BY <1>1, <1>2, <2>1, HostsGrow DEF ThisHost
<1>6. next[1] = place[1] /\ next[2] = place[2] + 1 /\ next \in (Nat \ {0}) \X (Nat \ {0})
  BY <1>2
<1> HIDE DEF next
<1>7. Entry' = Entry
  BY <1>1, <1>6 DEF Entry
<1> QED
  BY <1>1, <1>4, <1>5, <1>6, <1>7 DEF LoopsInv, LoopsOK, IsSection

LEMMA EndEntryKeeps ==
  ASSUME LoopsInv, EndEntry PROVE LoopsOK'
<1> DEFINE tls == input.tls
           next == <<place[1] + 1, 1>>
<1>1. /\ pc = "loops" /\ AtEntry /\ ~ AtHost
      /\ copiedTLS' = IF copiedHosts = << >> THEN copiedTLS
                      ELSE Append(copiedTLS, [hosts |-> copiedHosts, secretName |-> Entry.secretName])
      /\ copiedHosts' = << >>
      /\ place' = next
      /\ UNCHANGED <<input, pc, order, foundProvider>>
  BY DEF EndEntry, AtEntry
<1>2. /\ tls \in TLSSection(Secret)
      /\ place[1] \in Nat \ {0} /\ place[2] \in Nat \ {0} /\ place \in Nat \X Nat
      /\ place[1] \in DOMAIN tls /\ Entry.hosts \in Seq(Host)
  BY <1>1, AtPlace
<1>3. place[2] > Len(Entry.hosts) /\ place[1] <= Len(tls)
  BY <1>1, <1>2 DEF AtHost, AtEntry
<1>4. \A o \in Occurrence(tls) : Before(o, next) <=> Before(o, place)
  BY <1>2, <1>3, EntryIsPassed DEF Entry
<1>5. /\ IsFound(tls, order, next, foundProvider)
      /\ NoConflictBefore(tls, order, next)
  <2>1. IsFound(tls, order, place, foundProvider) /\ NoConflictBefore(tls, order, place)
    BY <1>1 DEF LoopsInv, LoopsOK
  <2> HIDE DEF next, tls
  <2> QED
    BY <1>4, <2>1, SamePassed
<1>6. copiedHosts = ManagedHosts(Entry.hosts)
  <2>1. copiedHosts = HostsBefore(Entry.hosts, place[2])
    BY <1>1 DEF LoopsInv, LoopsOK
  <2> QED
    BY <1>2, <1>3, <2>1, HostsGrow
<1>7. copiedTLS' = EntriesBefore(tls, place[1] + 1)
  <2>1. copiedTLS = EntriesBefore(tls, place[1])
    BY <1>1 DEF LoopsInv, LoopsOK
  <2>2. Entry = tls[place[1]]
    BY DEF Entry
  <2> QED
    BY <1>1, <1>2, <1>3, <1>6, <2>1, <2>2, EntriesGrow
<1>8. next[1] = place[1] + 1 /\ next[2] = 1 /\ next \in (Nat \ {0}) \X (Nat \ {0})
  BY <1>2
<1> HIDE DEF next
<1>9. AtEntry' => HostsBefore(Entry.hosts', 1) = << >>
  <2> SUFFICES ASSUME AtEntry' PROVE HostsBefore(Entry.hosts', 1) = << >>
    OBVIOUS
  <2>1. Entry.hosts' \in Seq(Host)
    <3>1. DOMAIN tls = 1..Len(tls) /\ \A i \in DOMAIN tls : tls[i].hosts \in Seq(Host)
      BY <1>2, SectionParts
    <3>2. place'[1] \in DOMAIN tls
      BY <1>1, <1>8, <3>1 DEF AtEntry
    <3> QED
      BY <1>1, <3>1, <3>2 DEF Entry
  <2> QED
    BY <2>1, HostsGrow
<1> QED
  BY <1>1, <1>5, <1>7, <1>8, <1>9 DEF LoopsInv, LoopsOK, IsSection

LEMMA GiveUpReturns ==
  ASSUME LoopsInv, GiveUp PROVE CopyIsWhatTheLoopsDo'
<1> DEFINE tls == input.tls
<1>1. /\ pc = "loops" /\ AtHost /\ IsManaged(ThisHost)
      /\ foundProvider \notin {NoProvider, ThisProvider}
      /\ foundProvider' = NoProvider /\ copiedTLS' = << >>
      /\ UNCHANGED <<input, order>>
  BY DEF GiveUp, AtHost, AtEntry
<1>2. place \in Occurrence(tls)
  BY <1>1, AtPlace
<1>3. IsFound(tls, order, place, foundProvider)
  BY <1>1 DEF LoopsInv, LoopsOK
<1>4. Conflict(tls, order)
  BY <1>1, <1>2, <1>3, ConflictIsMet DEF ThisProvider, ProviderOf
<1> QED
  BY <1>1, <1>4 DEF CopyIsWhatTheLoopsDo, CopyWith

LEMMA ReturnReturns ==
  ASSUME LoopsInv, Return PROVE CopyIsWhatTheLoopsDo'
<1> DEFINE tls == input.tls
<1>1. pc = "loops" /\ ~ AtEntry /\ UNCHANGED <<input, order, foundProvider, copiedTLS>>
  BY DEF Return
<1>2. /\ tls \in TLSSection(Secret)
      /\ place[1] \in Nat \ {0} /\ place \in Nat \X Nat
  BY <1>1, AtPlace
<1>3. place[1] > Len(tls)
  <2>1. Len(tls) \in Nat
    BY <1>2, SectionParts
  <2> QED
    BY <1>1, <1>2, <2>1 DEF AtEntry
<1>4. /\ copiedTLS = EntriesBefore(tls, place[1])
      /\ IsFound(tls, order, place, foundProvider)
      /\ NoConflictBefore(tls, order, place)
  BY <1>1 DEF LoopsInv, LoopsOK
<1>5. ~ Conflict(tls, order) /\ foundProvider = FoundProvider(tls, order)
  BY <1>2, <1>3, <1>4, AllArePassed
<1>6. copiedTLS = ManagedEntries(tls)
  BY <1>2, <1>3, <1>4, EntriesGrow
<1> QED
  BY <1>1, <1>5, <1>6 DEF CopyIsWhatTheLoopsDo, CopyWith

\* The loops of copyTLS (sync.go:211-242) return what CopyWith says, for sections
\* of any length, any domains and providers and any order of the map.
THEOREM LoopsDoCopy == Spec => []CopyIsWhatTheLoopsDo
<1>1. Init => IdleOK /\ LoopsOK /\ CopyIsWhatTheLoopsDo
  BY DEF Init, IdleOK, LoopsOK, CopyIsWhatTheLoopsDo
<1>2. LoopsInv /\ InputOK' /\ [Next]_vars => LoopsInv'
  <2> SUFFICES ASSUME LoopsInv, InputOK', [Next]_vars
               PROVE  IdleOK' /\ LoopsOK' /\ CopyIsWhatTheLoopsDo'
    BY DEF LoopsInv
  <2>1. ASSUME pc = "idle", pc' = "idle", UNCHANGED loops
        PROVE  IdleOK' /\ LoopsOK' /\ CopyIsWhatTheLoopsDo'
    BY <2>1 DEF LoopsInv, IdleOK, LoopsOK, CopyIsWhatTheLoopsDo, loops
  <2>2. CASE PickPair \/ (\E secret \in Secret : AddEntry(secret))
                      \/ \E host \in Host : AddHost(host)
    BY <2>1, <2>2 DEF PickPair, AddEntry, AddHost, loops
  <2>3. CASE Clear
    BY <2>3 DEF Clear, IdleOK, LoopsOK, CopyIsWhatTheLoopsDo
  <2>4. CASE Call
    <3>1. pc' = "loops"
      BY <2>4 DEF Call
    <3> QED
      BY <2>4, <3>1, CallKeeps DEF IdleOK, CopyIsWhatTheLoopsDo
  <2>5. CASE IgnoreHost \/ CopyHost \/ EndEntry
    <3>1. pc' = "loops"
      BY <2>5 DEF IgnoreHost, CopyHost, EndEntry, AtHost, AtEntry
    <3> QED
      BY <2>5, <3>1, IgnoreHostKeeps, CopyHostKeeps, EndEntryKeeps
      DEF IdleOK, CopyIsWhatTheLoopsDo
  <2>6. CASE GiveUp \/ Return
    <3>1. pc' = "done"
      BY <2>6 DEF GiveUp, Return
    <3> QED
      BY <2>6, <3>1, GiveUpReturns, ReturnReturns DEF IdleOK, LoopsOK
  <2>7. CASE UNCHANGED vars
    BY <2>7 DEF LoopsInv, IdleOK, LoopsOK, CopyIsWhatTheLoopsDo, vars, loops,
                IsSection, AtEntry, Entry
  <2> QED
    BY <2>2, <2>3, <2>4, <2>5, <2>6, <2>7 DEF Next
<1>3. LoopsInv => CopyIsWhatTheLoopsDo
  BY DEF LoopsInv
<1>4. InputOK /\ IdleOK /\ LoopsOK /\ CopyIsWhatTheLoopsDo => LoopsInv
  BY DEF LoopsInv
<1> QED
  BY <1>1, <1>2, <1>3, <1>4, InputsAreOK, PTL DEF Spec

-----------------------------------------------------------------------------
\* The properties of Convention, whatever the bounds.

\* Splitting the name of a control object gives back the namespace and the name
\* of the target object (pkg/utils/naming.go).
THEOREM NamesAreAlwaysReversible == Spec => []NamesAreReversible
<1>1. InputOK => NamesAreReversible
  <2> SUFFICES ASSUME InputOK, ArePair PROVE NamesAreReversible
    BY DEF NamesAreReversible
  <2>1. input.one \in Resources
    BY InputKinds DEF Pairs
  <2> QED
    BY <2>1, ResourceParts, SplitUndoesCreate DEF NamesAreReversible, ControlName
<1> QED
  BY <1>1, InputsAreOK, PTL

\* Two target objects never share a control object (naming.go:75).
THEOREM NamesNeverClash == Spec => []NamesDoNotClash
<1>1. InputOK => NamesDoNotClash
  <2> SUFFICES ASSUME InputOK, ArePair, ControlName(input.one) = ControlName(input.two)
               PROVE  input.one = input.two
    BY DEF NamesDoNotClash
  <2>1. input.one \in Resources /\ input.two \in Resources
    BY InputKinds DEF Pairs
  <2>2. input.one.namespace = input.two.namespace /\ input.one.name = input.two.name
    BY <2>1, ResourceParts, ControlNamesDoNotClash DEF ControlName
  <2> QED
    BY <2>1, <2>2, ResourceParts
<1> QED
  BY <1>1, InputsAreOK, PTL

\* The informer filters of the cleaner and the secret controller, whatever control
\* namespace they watch, let through what the broker made there, for a target in any
\* namespace, and nothing that lives elsewhere (controller-helper.go:121-139).
THEOREM FilterAlwaysKeepsManaged == Spec => []FilterKeepsManaged
<1>1. InputOK => FilterKeepsManaged
  <2> DEFINE lives == input.one.namespace
             two == input.two
  <2> SUFFICES ASSUME InputOK, ArePair, NEW watched \in Namespace
               PROVE  FilterMethod(watched, lives, ControlName(two)) <=>
                        two.name # EmptyString /\ lives = watched
    BY DEF FilterKeepsManaged
  <2>1. two.namespace \in Namespace /\ two.name \in String
    BY InputKinds, ResourceParts DEF Pairs
  <2>2. CASE two.name # EmptyString
    BY <2>1, <2>2, FilterPassesManaged DEF ControlName
  <2>3. CASE two.name = EmptyString
    <3>1. SplitNamespace(ControlName(two)).name = EmptyString
      <4>1. two.namespace \in Label
        BY <2>1 DEF Namespace
      <4>2. SplitNamespace(ControlName(two)) = [namespace |-> <<two.namespace>>, name |-> two.name]
        BY <2>1, <4>1, SplitUndoesCreate DEF ControlName
      <4> QED
        BY <2>3, <4>2
    <3> QED
      BY <2>3, <3>1 DEF FilterMethod
  <2> QED
    BY <2>2, <2>3
<1> QED
  BY <1>1, InputsAreOK, PTL

\* When copyTLS copies a section, the provider it returns manages every host it
\* copies, domains without a provider aside (sync.go:211-242).
THEOREM OneProviderAlwaysManagesAll == Spec => []OneProviderManagesAll
<1>1. InputOK => OneProviderManagesAll
  <2> SUFFICES ASSUME InputOK, IsSection,
                      NEW copy \in CopyTLS(input.tls), NEW i \in DOMAIN copy.tls,
                      NEW j \in DOMAIN copy.tls[i].hosts
               PROVE  \E d \in Suffixes[copy.tls[i].hosts[j]] :
                        DomainToDNSProvider[d] \in {copy.provider, NoProvider}
    BY DEF OneProviderManagesAll
  <2>1. input.tls \in TLSSection(Secret)
    BY InputKinds
  <2> QED
    BY <2>1, CopiedIsManaged
<1> QED
  BY <1>1, InputsAreOK, PTL

\* What a sync writes satisfies the next one exactly when it left nothing out
\* (sync.go:136, deepEqual).
THEOREM WrittenIsUpToDateWhenWhole == Spec => []WrittenIsUpToDate
<1>1. InputOK => WrittenIsUpToDate
  <2> SUFFICES ASSUME InputOK, IsSection PROVE WrittenIsUpToDate
    BY DEF WrittenIsUpToDate
  <2>1. input.tls \in TLSSection(Secret)
    BY InputKinds
  <2> QED
    BY <2>1, UpToDate DEF WrittenIsUpToDate
<1> QED
  BY <1>1, InputsAreOK, PTL
=============================================================================
