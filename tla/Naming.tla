------------------------------- MODULE Naming -------------------------------
(***************************************************************************)
(* The naming convention of the control cluster (pkg/utils/naming.go) and  *)
(* the filter the cleaner and the secret controller put on their informers *)
(* (pkg/utils/controller-helper.go).                                       *)
(*                                                                         *)
(* A Kubernetes name is a dot-separated string.  It is modelled by the     *)
(* sequence of its labels, so that strings.SplitN on "." with a limit is a *)
(* matter of sequences and "a" + "." + "b" is concatenation.  The empty    *)
(* string, which strings.Split turns into one empty label, is <<Empty>>.   *)
(***************************************************************************)
EXTENDS Naturals, Sequences

CONSTANTS
  Label,        \* the labels names are made of, ManagedCert and Empty included
  Empty,        \* the empty label
  ManagedCert   \* the prefix of every name the broker makes

ASSUME LabelAssumption == /\ Empty \in Label
                          /\ ManagedCert \in Label
                          /\ ManagedCert # Empty

\* numOfTokens: the limit SplitN is called with.
NumOfTokens == 3

\* A string: at least one label.  EmptyString is the Go value "".
String == Seq(Label) \ {<< >>}
EmptyString == <<Empty>>

\* A label that can be a namespace: not empty, and free of dots by its type.
Namespace == Label \ {Empty}

\* Mutant: strings.Split, without a limit.
PartsUnlimited(s) == [i \in 1..Len(s) |-> <<s[i]>>]

\* strings.SplitN(s, ".", numOfTokens): the third part keeps its dots.
Parts(s) ==
  IF Len(s) < NumOfTokens
  THEN [i \in 1..Len(s) |-> <<s[i]>>]
  ELSE <<<<s[1]>>, <<s[2]>>, SubSeq(s, NumOfTokens, Len(s))>>

\* SplitNamespace: a lone label is a name without a namespace, two labels are
\* nothing at all, and from three on the first label is dropped unread.
SplitNamespace(s) ==
  CASE Len(Parts(s)) = 1 ->
         [namespace |-> EmptyString, name |-> s]
    [] Len(Parts(s)) = NumOfTokens ->
         [namespace |-> Parts(s)[2], name |-> Parts(s)[3]]
    [] OTHER ->
         [namespace |-> EmptyString, name |-> EmptyString]

\* Mutant: the name of the target object alone.
CreateNameWithoutNamespace(namespace, name) == <<ManagedCert>> \o name

\* ManagedCert + "." + namespace + "." + name.
CreateNameForControlCluster(namespace, name) ==
  <<ManagedCert>> \o namespace \o name

\* Mutant: the namespace in the name is taken for that of the resource.
FilterTargetNamespace(watched, namespace, name) ==
  LET split == SplitNamespace(name) IN
  split.name # EmptyString /\ split.namespace = <<watched>>

\* ControlClusterResourceFilter{Namespace: watched}.FilterMethod() applied to a
\* resource of that name in that namespace.
FilterMethod(watched, namespace, name) ==
  LET split == SplitNamespace(name) IN
  /\ split.namespace # EmptyString
  /\ split.name # EmptyString
  /\ namespace = watched
=============================================================================
