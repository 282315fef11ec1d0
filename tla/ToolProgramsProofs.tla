-------------------------- MODULE ToolProgramsProofs --------------------------
(***************************************************************************)
(* What holds of the programs of all tools and prompts, and of the paths   *)
(* of their requests: the lemmas on which ClusterOperationsProofs rests.   *)
(*                                                                         *)
(* A step of a program is well made when its path is that of its kind, and *)
(* then the access control reads back from the path what the step is       *)
(* about.  A tool is honest when its programs keep what its hints say.     *)
(***************************************************************************)
EXTENDS ClusterOperations, TLAPS, SequenceTheorems

-----------------------------------------------------------------------------
(* The sets that steps are made of.                                        *)

Groups == {"kubevirt.io", "tekton.dev", "apps", "authorization.k8s.io",
           "no.such.group", "other"}

Subresources == {"scale", "log", "exec", "proxy", "guestosinfo",
                 "filesystemlist", "userlist", "interfacelist"}

Words == {"api", "apis", "v1", "namespaces", "ns", "name"}
            \cup Groups \cup Subresources

\* Kinds that handlers name, and those that a call can name.
NamedKinds ==
    {"Pod", "Service", "Secret", "Event", "Namespace", "Node", "PVC", "Route",
     "PodMetrics", "NodeMetrics", "Project", "ClusterOperator", "Deployment",
     "StatefulSet", "DaemonSet", "VM", "VMI", "VMClone", "DataSource",
     "ClusterPreference", "Preference", "ClusterInstancetype", "Instancetype",
     "GuestAgent", "Pipeline", "PipelineRun", "Task", "TaskRun", "Workspace",
     "Absent", "EULA", "Review"}

RealKinds == NamedKinds \cup {k \in STRING : IsKind(k)}

Kinds == RealKinds \cup {"Kiali"}

Methods == {"GET", "POST", "PUT", "PATCH", "DELETE", "ELICIT"}

StepValues ==
    {"all", "openshift-virtualization-os-images", "kubevirt-os-images", "same",
     "managed", "plain", "malformed", "Always", "Halted", "read", "manage",
     "accepted", "windows"} \cup STRING \cup {Empty}

Conditions ==
    {"always", "refused", "granted", "not-granted", "listed", "answered",
     "no-info", "managed", "routes", "managed-routes", "not-Always",
     "not-Halted", "completed", "not-running"}

Paths == Seq(Words \cup Kinds)

Steps == [method : Methods, kind : Kinds, sub : Subresources \cup {Empty},
          named : BOOLEAN, path : Paths, value : StepValues,
          args : VMArguments \cup {NoArguments}, must : BOOLEAN,
          when : Conditions]

\* The path says the kind, the name and the subresource; only a list is of
\* every namespace, and says so.
WellMade(step) ==
    /\ \E all \in BOOLEAN :
          /\ step.path = Path(step.kind, step.named \/ step.method = "PATCH",
                              step.sub, all)
          /\ all => step.value = "all"
    /\ step.sub # Empty => step.named
    /\ step.kind = "Namespace" => step.sub \in {Empty, "scale"}
    /\ step.method = "DELETE" => step.named /\ step.value = Empty
    /\ step.kind = "Kiali" => step.value \in {"read", "manage"}
    /\ step.method = "ELICIT" => step.kind = "EULA"

GoodSteps == {step \in Steps : WellMade(step)}

\* Steps that write nothing back that was read, of them those that delete
\* nothing, and of them those that write nothing.
FreshSteps   == {step \in GoodSteps :
                    ~(step.method = "PUT" /\ step.value = "same")}
KeepingSteps == {step \in FreshSteps : step.method # "DELETE"}
ReadingSteps == {step \in KeepingSteps : ~Writes(step)}

\* An object of the kind is held when the step is over, and the call is not.
Holds(step, k) ==
    /\ step.kind = k
    /\ step.must
    /\ \/ step.method = "GET" /\ step.named /\ step.when = "always"
       \/ step.method = "PUT"

\* What a program updates it holds.
Grounded(program) ==
    \A i \in 1..Len(program) : program[i].method = "PUT" =>
       i # 1 /\ Holds(program[i - 1], program[i].kind)

Honest(tool) ==
    /\ tool.hints.readOnly \in BOOLEAN
    /\ tool.hints.destructive \in BOOLEAN
    /\ tool.does \subseteq Seq(GoodSteps)
    /\ \A program \in tool.does : program \in Seq(FreshSteps) \/ Grounded(program)
    /\ ~tool.hints.destructive => tool.does \subseteq Seq(KeepingSteps)
    /\ tool.hints.readOnly => tool.does \subseteq Seq(ReadingSteps)

-----------------------------------------------------------------------------
(* Paths.                                                                  *)

\* The group of a kind: of the core it is left out of the path.
LEMMA GroupOfKind ==
    ASSUME NEW k
    PROVE  /\ k \in Core => Group(k) = Empty
           /\ k \notin Core => Group(k) \in Groups
<1>1. ASSUME k \in Core PROVE Group(k) = Empty
  BY <1>1 DEF Group, Core
<1>2. ASSUME k \notin Core PROVE Group(k) \in Groups
  BY <1>2, SMT DEF Group, Groups
<1>. QED  BY <1>1, <1>2

\* What is left out is none of the words.
LEMMA EmptyIsNoWord ==
    /\ Empty # "all" /\ Empty # "same" /\ Empty # "windows"
    /\ Empty # "name" /\ Empty # "ns"
    /\ Empty \notin Groups /\ Empty \notin Subresources
<1>1. Empty # "all" /\ Empty # "same" /\ Empty # "windows"
  BY Zenon DEF Empty
<1>2. Empty # "name" /\ Empty # "ns"
  BY Zenon DEF Empty
<1>3. Empty \notin Groups
  BY Zenon DEF Empty, Groups
<1>4. Empty \notin Subresources
  BY Zenon DEF Empty, Subresources
<1>. QED  BY <1>1, <1>2, <1>3, <1>4

\* A path is a sequence of words, the kind among them.
LEMMA PathType ==
    ASSUME NEW k \in Kinds, NEW named \in BOOLEAN,
           NEW sub \in Subresources \cup {Empty}, NEW all \in BOOLEAN
    PROVE  Path(k, named, sub, all) \in Paths
<1>. DEFINE All  == Words \cup Kinds
            root == IF Group(k) = Empty THEN <<"api", "v1">>
                                        ELSE <<"apis", Group(k), "v1">>
            in   == IF Namespaced(k) /\ ~all THEN <<"namespaces", "ns">> ELSE <<>>
            name == IF named THEN <<"name">> ELSE <<>>
            last == IF sub # Empty THEN <<sub>> ELSE <<>>
<1>1. {"api", "apis", "v1", "namespaces", "ns", "name"} \subseteq All
  BY DEF Words
<1>2. k \in All /\ Resource(k) \in All
  BY DEF Words, Resource
<1>3. Group(k) # Empty => Group(k) \in All
  BY GroupOfKind DEF Words
<1>4. sub # Empty => sub \in All
  BY DEF Words
<1>5. Paths = Seq(All)
  BY DEF Paths
<1>. HIDE DEF All
<1>6. root \in Seq(All)
  BY <1>1, <1>3
<1>7. /\ in \in Seq(All) /\ name \in Seq(All) /\ last \in Seq(All)
      /\ <<Resource(k)>> \in Seq(All)
  BY <1>1, <1>2, <1>4
<1>8. Path(k, named, sub, all) = root \o in \o <<Resource(k)>> \o name \o last
  BY DEF Path
<1>. HIDE DEF root, in, name, last
<1>. QED  BY <1>5, <1>6, <1>7, <1>8

\* Where the parts of a path are: where its root ends, where its resource is
\* and where the name ends.
RootEnd(k) == IF Group(k) = Empty THEN 2 ELSE 3
Placed(k, all) == Namespaced(k) /\ ~all
At(k, all) == RootEnd(k) + (IF Placed(k, all) THEN 3 ELSE 1)
NameEnd(k, named, all) == At(k, all) + (IF named THEN 1 ELSE 0)

PartsOf(path, k, named, sub, all) ==
    /\ Len(path) = NameEnd(k, named, all) + (IF sub # Empty THEN 1 ELSE 0)
    /\ path[1] = IF Group(k) = Empty THEN "api" ELSE "apis"
    /\ Group(k) # Empty => path[2] = Group(k)
    /\ Group(k) # Empty => path[3] = "v1"
    /\ Group(k) = Empty => path[2] = "v1"
    /\ Placed(k, all) => /\ path[RootEnd(k) + 1] = "namespaces"
                         /\ path[RootEnd(k) + 2] = "ns"
    /\ path[At(k, all)] = Resource(k)
    /\ named => path[At(k, all) + 1] = "name"
    /\ sub # Empty => path[NameEnd(k, named, all) + 1] = sub

\* The parts of a path are where they should be.
LEMMA PathParts ==
    ASSUME NEW k, NEW named \in BOOLEAN, NEW sub, NEW all \in BOOLEAN
    PROVE  PartsOf(Path(k, named, sub, all), k, named, sub, all)
<1>1. CASE Group(k) = Empty
  BY <1>1 DEF Path, PartsOf, RootEnd, Placed, At, NameEnd
<1>2. CASE Group(k) # Empty
  BY <1>2 DEF Path, PartsOf, RootEnd, Placed, At, NameEnd
<1>. QED  BY <1>1, <1>2

\* The prefix of the API server's URL is taken off as it was put on.
LEMMA StrippedPrefix ==
    ASSUME NEW P, NEW Q, NEW prefix \in Seq(P), NEW path \in Seq(Q)
    PROVE  StripAPIPathPrefix(prefix \o path, prefix) = path
<1>. DEFINE S == P \cup Q
<1>1. prefix \in Seq(S) /\ path \in Seq(S)
  OBVIOUS
<1>. HIDE DEF S
<1>2. IsPrefix(prefix, prefix \o path)
  BY <1>1 DEF IsPrefix
<1>3. SubSeq(prefix \o path, Len(prefix) + 1, Len(prefix \o path)) = path
  BY <1>1
<1>. QED  BY <1>2, <1>3 DEF StripAPIPathPrefix

\* What the access control reads in a path: its resource, and its names.  A
\* subresource of a namespace is the exception: it is taken for the resource.
Odd(k, sub) == k = "Namespace" /\ sub # Empty

ReadsResource(path, k, sub, all) ==
    /\ ParseURLToGVR(path).group = Group(k)
    /\ ParseURLToGVR(path).resource =
          IF Odd(k, sub) THEN "scale" ELSE Resource(k)
    /\ ~Odd(k, sub) => FindResourceTypeIndex(path) = At(k, all)

ReadsNames(path, k, named, all) ==
    /\ named => ParseURLToNamespaceAndName(path).name = "name"
    /\ Placed(k, all) => ParseURLToNamespaceAndName(path).namespace = "ns"
    /\ IsCollectionPath(path) <=> ~named

\* The access control reads the group and the resource of a path.
LEMMA ParsedPath ==
    ASSUME NEW k, k # "namespaces", NEW named \in BOOLEAN, NEW sub,
           NEW all \in BOOLEAN,
           sub # Empty => named,
           k = "Namespace" => sub \in {Empty, "scale"}
    PROVE  ReadsResource(Path(k, named, sub, all), k, sub, all)
<1>. SUFFICES ASSUME NEW path, PartsOf(path, k, named, sub, all)
              PROVE  ReadsResource(path, k, sub, all)
  BY PathParts
<1>1. Root(path) = RootEnd(k)
  BY DEF Root, PartsOf, RootEnd
<1>. USE DEF ReadsResource, Odd, ParseURLToGVR, FindResourceTypeIndex,
             Resource, Namespaced, PartsOf, RootEnd, Placed, At, NameEnd
<1>2. CASE Placed(k, all)
  BY <1>1, <1>2
<1>3. CASE ~Placed(k, all) /\ k # "Namespace"
  BY <1>1, <1>3
<1>4. CASE k = "Namespace"
  BY <1>1, <1>4
<1>. QED  BY <1>2, <1>3, <1>4

\* The access control reads the name and, of what is in a namespace, the
\* namespace, and a path without a name is one of a collection.
LEMMA ParsedNames ==
    ASSUME NEW k, k # "namespaces", NEW named \in BOOLEAN, NEW sub,
           NEW all \in BOOLEAN,
           sub # Empty => named,
           k = "Namespace" => sub = Empty
    PROVE  ReadsNames(Path(k, named, sub, all), k, named, all)
<1>. SUFFICES ASSUME NEW path, PartsOf(path, k, named, sub, all),
                     ReadsResource(path, k, sub, all)
              PROVE  ReadsNames(path, k, named, all)
  BY PathParts, ParsedPath
<1>1. FindResourceTypeIndex(path) = At(k, all)
  BY DEF ReadsResource, Odd
<1>2. IsCollectionPath(path) <=> ~named
  BY <1>1 DEF IsCollectionPath, PartsOf, NameEnd, At, RootEnd
<1>3. named => ParseURLToNamespaceAndName(path).name = "name"
  <2>1. ParseURLToNamespaceAndName(path).name =
           IF At(k, all) < Len(path) THEN path[At(k, all) + 1] ELSE Empty
    BY <1>1, Zenon DEF ParseURLToNamespaceAndName
  <2>2. named => At(k, all) < Len(path)
    BY DEF PartsOf, NameEnd, At, RootEnd
  <2>3. named => path[At(k, all) + 1] = "name"
    BY DEF PartsOf
  <2>. QED  BY <2>1, <2>2, <2>3, Zenon
<1>4. ASSUME Placed(k, all)
      PROVE  ParseURLToNamespaceAndName(path).namespace = "ns"
  <2>. DEFINE spaces == {i \in 1..Len(path) - 1 : path[i] = "namespaces"}
              least  == CHOOSE i \in spaces : \A j \in spaces : i <= j
  <2>1. RootEnd(k) + 1 \in spaces
    BY <1>4 DEF PartsOf, NameEnd, At, RootEnd
  <2>2. \A i \in spaces : RootEnd(k) + 1 <= i
    <3>1. path[1] # "namespaces" /\ path[RootEnd(k)] # "namespaces"
      BY DEF PartsOf, RootEnd
    <3>2. Group(k) # Empty => path[2] # "namespaces"
      BY GroupOfKind DEF PartsOf, Groups
    <3>3. \A i \in 1..RootEnd(k) : path[i] # "namespaces"
      BY <3>1, <3>2 DEF RootEnd
    <3>. QED  BY <3>3 DEF RootEnd
  <2>3. least \in spaces /\ \A j \in spaces : least <= j
    BY <2>1, <2>2
  <2>4. least = RootEnd(k) + 1
    BY <2>1, <2>2, <2>3 DEF RootEnd
  <2>5. ParseURLToNamespaceAndName(path).namespace = path[1 + least]
    BY <2>1, Zenon DEF ParseURLToNamespaceAndName
  <2>. HIDE DEF spaces, least
  <2>6. 1 + least = RootEnd(k) + 2
    BY <2>4 DEF RootEnd
  <2>7. path[RootEnd(k) + 2] = "ns"
    BY <1>4 DEF PartsOf
  <2>. QED  BY <2>5, <2>6, <2>7, Zenon
<1>. QED  BY <1>2, <1>3, <1>4 DEF ReadsNames

\* What the access control is asked about is what the step is about.
ReadsBack(req, step) ==
    /\ req.group = Group(step.kind)
    /\ req.kind = IF Odd(step.kind, step.sub) THEN "scale" ELSE step.kind
    /\ /\ ~Odd(step.kind, step.sub)
       /\ step.method # "ELICIT"
       /\ step.method = "PATCH" => step.named
       => /\ req.verb = Verb(step)
          /\ step.named => req.name = "name"
          /\ Namespaced(step.kind) /\ step.value # "all"
                => req.namespace = "ns"

\* The request that a step makes reads back as the step, with its value.
LEMMA ReadBack ==
    ASSUME NEW step \in GoodSteps, NEW request, NEW config,
           request.path = step.path, request.method = step.method,
           config.prefix \in Seq(STRING)
    PROVE  /\ ValidationRequest(request, config).value = request.value
           /\ ReadsBack(ValidationRequest(request, config), step)
<1>. DEFINE path  == step.path
            named == step.named \/ step.method = "PATCH"
            odd   == Odd(step.kind, step.sub)
            gvr   == ParseURLToGVR(path)
            id    == ParseURLToNamespaceAndName(path)
            req   == ValidationRequest(request, config)
<1>1. /\ step \in Steps /\ WellMade(step)
      /\ step.kind # "namespaces"
  <2>1. step \in Steps /\ WellMade(step)
    BY Zenon DEF GoodSteps
  <2>2. step.kind \in Kinds
    BY <2>1 DEF Steps
  <2>. QED  BY <2>1, <2>2 DEF Kinds, RealKinds, NamedKinds, IsKind
<1>2. PICK all \in BOOLEAN : /\ path = Path(step.kind, named, step.sub, all)
                             /\ all => step.value = "all"
  BY <1>1 DEF WellMade
<1>3. StripAPIPathPrefix(config.prefix \o path, config.prefix) = path
  <2>1. path \in Seq(Words \cup Kinds)
    BY <1>1 DEF Steps, Paths
  <2>. QED  BY <2>1, StrippedPrefix
<1>4. req = [group |-> gvr.group,
             kind |-> IF gvr.resource = "namespaces" THEN "Namespace"
                                                     ELSE gvr.resource,
             verb |-> HttpMethodToVerb(request.method, path),
             namespace |-> id.namespace, name |-> id.name,
             value |-> request.value]
  BY <1>3, Zenon DEF ValidationRequest
<1>5. /\ named \in BOOLEAN
      /\ step.sub # Empty => named
      /\ step.kind = "Namespace" => step.sub \in {Empty, "scale"}
  BY <1>1 DEF WellMade, Steps
<1>. HIDE DEF named, path
<1>6. ReadsResource(path, step.kind, step.sub, all)
  BY <1>1, <1>2, <1>5, ParsedPath
<1>7. ~odd => ReadsNames(path, step.kind, named, all)
  BY <1>1, <1>2, <1>5, ParsedNames DEF Odd
<1>. HIDE DEF odd
<1>8. req.value = request.value /\ req.group = Group(step.kind)
  BY <1>4, <1>6 DEF ReadsResource
<1>9. req.kind = IF odd THEN "scale" ELSE step.kind
  BY <1>1, <1>4, <1>6 DEF ReadsResource, Resource, odd
<1>10. ASSUME ~odd, step.method # "ELICIT", step.method = "PATCH" => step.named
       PROVE  /\ req.verb = Verb(step)
              /\ step.named => req.name = "name"
              /\ Namespaced(step.kind) /\ step.value # "all"
                    => req.namespace = "ns"
  <2>1. named <=> step.named
    BY <1>10 DEF named
  <2>2. req.verb = Verb(step)
    <3>1. step.method \in Methods /\ step.named \in BOOLEAN
      BY <1>1 DEF Steps
    <3>2. step.method = "DELETE" => step.named
      BY <1>1 DEF WellMade
    <3>3. req.verb = HttpMethodToVerb(step.method, path)
      BY <1>4
    <3>. QED  BY <1>7, <1>10, <2>1, <3>1, <3>2, <3>3
              DEF HttpMethodToVerb, Verb, Methods, ReadsNames
  <2>3. step.named => req.name = "name"
    BY <1>4, <1>7, <1>10, <2>1 DEF ReadsNames
  <2>4. Namespaced(step.kind) /\ step.value # "all" => req.namespace = "ns"
    BY <1>2, <1>4, <1>7, <1>10 DEF Placed, ReadsNames
  <2>. QED  BY <2>2, <2>3, <2>4
<1>. QED  BY <1>8, <1>9, <1>10 DEF odd, ReadsBack

-----------------------------------------------------------------------------
(* Steps.                                                                  *)

\* What a step is about.
Fields(step, method, k, named, sub) ==
    /\ step.method = method
    /\ step.kind = k
    /\ step.named = named
    /\ step.sub = sub

\* What a step has to be to be a good one.
LEMMA GoodStep ==
    ASSUME NEW method \in Methods, NEW k \in RealKinds, NEW named \in BOOLEAN,
           NEW sub \in Subresources \cup {Empty},
           NEW step \in Steps, Fields(step, method, k, named, sub),
           \E all \in BOOLEAN : /\ step.path = Path(k, named, sub, all)
                                /\ all => step.value = "all",
           sub # Empty => named,
           method = "PATCH" => named,
           k = "Namespace" => sub \in {Empty, "scale"},
           method = "DELETE" => named /\ step.value = Empty,
           method # "ELICIT"
    PROVE  step \in GoodSteps /\ step.kind # "Kiali"
<1>1. (step.named \/ step.method = "PATCH") = named
  BY DEF Fields
<1>2. k # "Kiali"
  BY DEF RealKinds, NamedKinds, IsKind
<1>3. WellMade(step)
  BY <1>1, <1>2 DEF WellMade, Fields
<1>. QED  BY <1>2, <1>3 DEF GoodSteps, Fields

\* A request as it comes.
LEMMA RequestStep ==
    ASSUME NEW method \in Methods, NEW k \in RealKinds, NEW named \in BOOLEAN,
           NEW sub \in Subresources \cup {Empty},
           sub # Empty => named,
           method = "PATCH" => named,
           k = "Namespace" => sub \in {Empty, "scale"},
           method = "DELETE" => named,
           method # "ELICIT"
    PROVE  /\ Request(method, k, named, sub) \in GoodSteps
           /\ Fields(Request(method, k, named, sub), method, k, named, sub)
<1>1. Path(k, named, sub, FALSE) \in Paths
  BY PathType DEF Kinds
<1>2. Request(method, k, named, sub) \in Steps
  BY <1>1 DEF Request, Steps, Kinds, StepValues, Conditions
<1>3. Fields(Request(method, k, named, sub), method, k, named, sub)
  BY DEF Request, Fields
<1>4. \E all \in BOOLEAN :
         /\ Request(method, k, named, sub).path = Path(k, named, sub, all)
         /\ all => Request(method, k, named, sub).value = "all"
  BY DEF Request
<1>5. Request(method, k, named, sub).value = Empty
  BY DEF Request
<1>. QED  BY <1>2, <1>3, <1>4, <1>5, GoodStep

\* A request that writes a value.
LEMMA ValueStep ==
    ASSUME NEW method \in Methods, NEW k \in RealKinds, NEW named \in BOOLEAN,
           NEW sub \in Subresources \cup {Empty}, NEW v \in StepValues,
           sub # Empty => named,
           method = "PATCH" => named,
           k = "Namespace" => sub \in {Empty, "scale"},
           method # "DELETE", method # "ELICIT"
    PROVE  LET step == [Request(method, k, named, sub) EXCEPT !.value = v]
           IN step \in GoodSteps /\ Fields(step, method, k, named, sub)
<1>1. Path(k, named, sub, FALSE) \in Paths
  BY PathType DEF Kinds
<1>2. [Request(method, k, named, sub) EXCEPT !.value = v] \in Steps
  BY <1>1 DEF Request, Steps, Kinds, StepValues, Conditions
<1>3. Fields([Request(method, k, named, sub) EXCEPT !.value = v],
             method, k, named, sub)
  BY DEF Request, Fields
<1>4. \E all \in BOOLEAN :
         /\ [Request(method, k, named, sub) EXCEPT !.value = v].path =
               Path(k, named, sub, all)
         /\ all => [Request(method, k, named, sub) EXCEPT !.value = v].value = "all"
  BY DEF Request
<1>. QED  BY <1>2, <1>3, <1>4, GoodStep

\* Marks leave a step what it is.
LEMMA MarkedStep ==
    ASSUME NEW S \in {GoodSteps, FreshSteps, KeepingSteps, ReadingSteps}, NEW step \in S,
           NEW cond \in Conditions
    PROVE  Try(step) \in S /\ When(cond, step) \in S
<1>1. step \in Steps /\ WellMade(step)
  BY DEF GoodSteps, FreshSteps, KeepingSteps, ReadingSteps
<1>2. ASSUME NEW marked \in {Try(step), When(cond, step)}
      PROVE  /\ marked \in Steps
             /\ marked.method = step.method /\ marked.kind = step.kind
             /\ marked.named = step.named /\ marked.sub = step.sub
             /\ marked.path = step.path /\ marked.value = step.value
  BY <1>1 DEF Steps, Try, When
<1>3. ASSUME NEW marked \in {Try(step), When(cond, step)}
      PROVE  marked \in S
  <2>1. WellMade(marked)
    BY <1>1, <1>2 DEF WellMade
  <2>. QED  BY <1>1, <1>2, <2>1 DEF GoodSteps, FreshSteps, KeepingSteps, ReadingSteps, Writes
<1>. QED  BY <1>3

\* Marks leave a step that reads one that reads.
LEMMA MarkedReader ==
    ASSUME NEW step \in ReadingSteps
    PROVE  /\ Try(step) \in ReadingSteps
           /\ \A cond \in Conditions : When(cond, step) \in ReadingSteps
<1>1. "always" \in Conditions
  BY DEF Conditions
<1>. QED  BY <1>1, MarkedStep

\* Steps that read.
LEMMA Readers ==
    ASSUME NEW k \in RealKinds
    PROVE  /\ Get(k) \in ReadingSteps
           /\ List(k) \in ReadingSteps
           /\ ListAll(k) \in ReadingSteps
<1>1. /\ Get(k) \in GoodSteps /\ Fields(Get(k), "GET", k, TRUE, Empty)
      /\ List(k) \in GoodSteps /\ Fields(List(k), "GET", k, FALSE, Empty)
  BY RequestStep DEF Get, List, Methods
<1>2. ListAll(k) \in GoodSteps /\ Fields(ListAll(k), "GET", k, FALSE, Empty)
  <2>1. Path(k, FALSE, Empty, TRUE) \in Paths /\ List(k) \in Steps
    BY <1>1, PathType DEF Kinds, GoodSteps
  <2>2. ListAll(k) \in Steps
    BY <2>1 DEF ListAll, Steps, StepValues
  <2>3. Fields(ListAll(k), "GET", k, FALSE, Empty)
    BY <1>1, <2>1 DEF ListAll, Fields, Steps
  <2>4. \E all \in BOOLEAN :
           /\ ListAll(k).path = Path(k, FALSE, Empty, all)
           /\ all => ListAll(k).value = "all"
    BY <2>1 DEF ListAll, Steps
  <2>. QED  BY <2>2, <2>3, <2>4, GoodStep DEF Methods
<1>. QED  BY <1>1, <1>2 DEF ReadingSteps, KeepingSteps, FreshSteps, Writes, Fields

\* Lists of the namespaces of images.
LEMMA NamespaceReaders ==
    ASSUME NEW k \in RealKinds, NEW ns \in StepValues
    PROVE  ListIn(k, ns) \in ReadingSteps
<1>1. /\ ListIn(k, ns) \in GoodSteps
      /\ Fields(ListIn(k, ns), "GET", k, FALSE, Empty)
  BY ValueStep DEF ListIn, List, Methods
<1>. QED  BY <1>1 DEF ReadingSteps, KeepingSteps, FreshSteps, Writes, Fields

\* Steps that read a subresource.
LEMMA SubresourceReaders ==
    ASSUME NEW k \in RealKinds, NEW sub \in Subresources,
           k = "Namespace" => sub = "scale"
    PROVE  GetSub(k, sub) \in ReadingSteps
<1>1. GetSub(k, sub) \in GoodSteps /\ Fields(GetSub(k, sub), "GET", k, TRUE, sub)
  BY RequestStep DEF GetSub, Methods
<1>. QED  BY <1>1 DEF ReadingSteps, KeepingSteps, FreshSteps, Writes, Fields

\* Steps that write.
LEMMA Writers ==
    ASSUME NEW k \in RealKinds, NEW v \in StepValues
    PROVE  /\ Create(k, v) \in KeepingSteps
           /\ Apply(k, v) \in KeepingSteps
<1>1. Create(k, v) \in GoodSteps /\ Fields(Create(k, v), "POST", k, FALSE, Empty)
  BY ValueStep DEF Create, Methods
<1>2. Apply(k, v) \in GoodSteps /\ Fields(Apply(k, v), "PATCH", k, TRUE, Empty)
  BY ValueStep DEF Apply, Methods
<1>. QED  BY <1>1, <1>2 DEF KeepingSteps, FreshSteps, Fields

\* Steps that update an object, or the subresource of one.
LEMMA Updaters ==
    ASSUME NEW k \in RealKinds, NEW v \in StepValues
    PROVE  /\ v # "same" => Update(k, v) \in KeepingSteps
           /\ UpdateSub(k, "scale", v) \in GoodSteps
<1>1. /\ Update(k, v) \in GoodSteps
      /\ Fields(Update(k, v), "PUT", k, TRUE, Empty)
  BY ValueStep DEF Update, Methods
<1>2. Update(k, v).value = v
  BY DEF Update, Request
<1>3. UpdateSub(k, "scale", v) \in GoodSteps
  BY ValueStep DEF UpdateSub, Methods, Subresources
<1>. QED  BY <1>1, <1>2, <1>3 DEF KeepingSteps, FreshSteps, Fields

\* Steps that delete.
LEMMA Deleters ==
    ASSUME NEW k \in RealKinds
    PROVE  Delete(k) \in FreshSteps
<1>1. /\ Delete(k) \in GoodSteps
      /\ Fields(Delete(k), "DELETE", k, TRUE, Empty)
  BY RequestStep DEF Delete, Methods
<1>. QED  BY <1>1 DEF FreshSteps, Fields

\* Steps that are no requests of the cluster, and the review.
LEMMA OtherSteps ==
    /\ Refuse \in ReadingSteps
    /\ AskForEULA \in ReadingSteps
    /\ Review \in ReadingSteps
    /\ Kiali("read") \in ReadingSteps
    /\ Kiali("manage") \in KeepingSteps
<1>1. Refuse \in ReadingSteps
  <2>1. Get("Absent") \in ReadingSteps /\ "refused" \in Conditions
    BY Readers DEF RealKinds, NamedKinds, Conditions
  <2>. QED  BY <2>1, MarkedStep DEF Refuse, When
<1>2. Review \in ReadingSteps
  <2>1. Review \in GoodSteps /\ Fields(Review, "POST", "Review", FALSE, Empty)
    BY RequestStep DEF Review, Methods, RealKinds, NamedKinds
  <2>. QED  BY <2>1 DEF ReadingSteps, KeepingSteps, FreshSteps, Writes, Fields
<1>3. AskForEULA \in ReadingSteps
  <2>1. Get("EULA") \in Steps /\ WellMade(Get("EULA"))
    BY Readers DEF RealKinds, NamedKinds, ReadingSteps, KeepingSteps, FreshSteps, GoodSteps
  <2>2. Fields(Get("EULA"), "GET", "EULA", TRUE, Empty)
    BY DEF Get, Request, Fields
  <2>3. /\ AskForEULA \in Steps
        /\ Fields(AskForEULA, "ELICIT", "EULA", TRUE, Empty)
        /\ AskForEULA.path = Get("EULA").path
        /\ AskForEULA.value = Get("EULA").value
    BY <2>1, <2>2 DEF AskForEULA, Steps, Fields, Methods
  <2>4. WellMade(AskForEULA)
    BY <2>1, <2>2, <2>3 DEF WellMade, Fields
  <2>. QED  BY <2>3, <2>4 DEF ReadingSteps, KeepingSteps, FreshSteps, GoodSteps, Writes, Fields
<1>4. ASSUME NEW what \in {"read", "manage"}
      PROVE  /\ Kiali(what) \in KeepingSteps
             /\ Kiali(what).value = what /\ Kiali(what).kind = "Kiali"
  <2>1. Path("Kiali", TRUE, Empty, FALSE) \in Paths
    BY PathType DEF Kinds
  <2>2. /\ Kiali(what) \in Steps
        /\ Fields(Kiali(what), "POST", "Kiali", TRUE, Empty)
        /\ Kiali(what).path = Path("Kiali", TRUE, Empty, FALSE)
        /\ Kiali(what).value = what
    BY <2>1 DEF Kiali, Get, Request, Steps, Fields, Methods, Kinds, StepValues,
                Conditions
  <2>3. WellMade(Kiali(what))
    BY <2>2 DEF WellMade, Fields
  <2>. QED  BY <2>2, <2>3 DEF KeepingSteps, FreshSteps, GoodSteps, Fields
<1>. QED  BY <1>1, <1>2, <1>3, <1>4 DEF ReadingSteps, Writes

\* Objects that are applied one after the other, named or not.
LEMMA ApplySteps ==
    ASSUME NEW objs \in Seq(RealKinds \X StepValues \X BOOLEAN)
    PROVE  resourcesCreateOrUpdate(objs) \in Seq(KeepingSteps)
<1>1. ASSUME NEW i \in 1..Len(objs)
      PROVE  [Apply(objs[i][1], objs[i][2]) EXCEPT !.named = objs[i][3]]
                \in KeepingSteps
  <2>. DEFINE k == objs[i][1]  v == objs[i][2]  named == objs[i][3]
              step == [Apply(k, v) EXCEPT !.named = named]
  <2>1. k \in RealKinds /\ v \in StepValues /\ named \in BOOLEAN
    OBVIOUS
  <2>. HIDE DEF k, v, named
  <2>2. Apply(k, v) \in KeepingSteps
    BY <2>1, Writers
  <2>3. Fields(Apply(k, v), "PATCH", k, TRUE, Empty)
    BY DEF Apply, Request, Fields
  <2>4. /\ step \in Steps
        /\ Fields(step, "PATCH", k, named, Empty)
        /\ step.path = Apply(k, v).path /\ step.value = Apply(k, v).value
    BY <2>1, <2>2, <2>3 DEF KeepingSteps, FreshSteps, GoodSteps, Steps, Fields
  <2>5. WellMade(step)
    BY <2>2, <2>3, <2>4 DEF KeepingSteps, FreshSteps, GoodSteps, WellMade, Fields
  <2>6. step \in KeepingSteps
    BY <2>4, <2>5 DEF KeepingSteps, FreshSteps, GoodSteps, Fields
  <2>. QED  BY <2>6 DEF k, v, named
<1>2. Len(objs) \in Nat
  OBVIOUS
<1>. QED  BY <1>1, <1>2 DEF resourcesCreateOrUpdate

-----------------------------------------------------------------------------
(* Programs and tools.                                                     *)

\* What only reads also keeps, and what keeps is good.
LEMMA ProgramsNest ==
    /\ Seq(ReadingSteps) \subseteq Seq(KeepingSteps)
    /\ Seq(KeepingSteps) \subseteq Seq(FreshSteps)
    /\ Seq(FreshSteps) \subseteq Seq(GoodSteps)
<1>1. /\ ReadingSteps \subseteq KeepingSteps /\ KeepingSteps \subseteq FreshSteps
      /\ FreshSteps \subseteq GoodSteps
  BY DEF ReadingSteps, KeepingSteps, FreshSteps
<1>. HIDE DEF ReadingSteps, KeepingSteps, FreshSteps
<1>. QED  BY <1>1

\* Programs that check their arguments first read no less.
LEMMA CheckedPrograms ==
    ASSUME NEW programs
    PROVE  /\ programs \subseteq Seq(GoodSteps)
                 => Checked(programs) \subseteq Seq(GoodSteps)
           /\ programs \subseteq Seq(FreshSteps)
                 => Checked(programs) \subseteq Seq(FreshSteps)
           /\ programs \subseteq Seq(KeepingSteps)
                 => Checked(programs) \subseteq Seq(KeepingSteps)
           /\ programs \subseteq Seq(ReadingSteps)
                 => Checked(programs) \subseteq Seq(ReadingSteps)
<1>1. <<Refuse>> \in Seq(ReadingSteps)
  BY OtherSteps
<1>. QED  BY <1>1, ProgramsNest DEF Checked

\* A program that only refuses updates nothing.
LEMMA RefusedProgram ==
    /\ Refuse.method = "GET"
    /\ Len(<<Refuse>>) = 1 /\ <<Refuse>>[1] = Refuse
    /\ Grounded(<<Refuse>>)
<1>1. Refuse.method = "GET"
  BY DEF Refuse, Get, Request
<1>. QED  BY <1>1 DEF Grounded

\* A tool is honest if its programs are of the sort that its hints say.
LEMMA HonestTool ==
    ASSUME NEW programs
    PROVE  /\ programs \subseteq Seq(ReadingSteps) => Honest(Tool(Reader, programs))
           /\ programs \subseteq Seq(KeepingSteps) => Honest(Tool(Additive, programs))
           /\ programs \subseteq Seq(FreshSteps) => Honest(Tool(Destructive, programs))
BY ProgramsNest DEF Honest, Tool, Reader, Additive, Destructive

\* Tools of a list that keep what their hints say.
HonestTools(tools) == \A t \in DOMAIN tools : Honest(tools[t])

\* Two lists of honest tools are one.
LEMMA HonestUnion ==
    ASSUME NEW f, NEW g, HonestTools(f), HonestTools(g)
    PROVE  HonestTools(f ++ g)
BY DEF HonestTools, ++

\* The programs of operations that only list.
LEMMA ListPrograms ==
    ASSUME NEW k \in RealKinds, NEW all \in BOOLEAN
    PROVE  ResourcesList(k, all) \in Seq(ReadingSteps)
<1>1. /\ List(k) \in ReadingSteps /\ ListAll(k) \in ReadingSteps
      /\ Review \in ReadingSteps
  BY Readers, OtherSteps
<1>2. /\ Try(Review) \in ReadingSteps
      /\ When("granted", ListAll(k)) \in ReadingSteps
      /\ When("not-granted", List(k)) \in ReadingSteps
  BY <1>1, MarkedStep DEF Conditions
<1>. QED  BY <1>1, <1>2 DEF ResourcesList

\* Kinds that calls name are kinds.
LEMMA TargetsAreKinds == Targets \subseteq RealKinds
BY KindsAssumption DEF RealKinds, IsKind

\* The program that scales: what it writes back it has read.
LEMMA ScaleProgram ==
    ASSUME NEW k \in Targets, NEW s \in BOOLEAN
    PROVE  /\ ResourcesScale(k, s) \in Seq(GoodSteps)
           /\ Grounded(ResourcesScale(k, s))
           /\ \A i \in 1..Len(ResourcesScale(k, s)) :
                 ResourcesScale(k, s)[i].method \in {"GET", "PUT"}
<1>. DEFINE get    == GetSub(k, "scale")
            update == UpdateSub(k, "scale", "same")
<1>1. /\ get.method = "GET" /\ get.kind = k /\ get.named = TRUE
      /\ get.must = TRUE /\ get.when = "always"
  BY DEF GetSub, Request
<1>2. update.method = "PUT" /\ update.kind = k
  BY DEF UpdateSub, Request
<1>3. get \in GoodSteps /\ update \in GoodSteps
  <2>1. k \in RealKinds /\ "scale" \in Subresources /\ "same" \in StepValues
    BY TargetsAreKinds DEF Subresources, StepValues
  <2>2. get \in ReadingSteps
    BY <2>1, SubresourceReaders
  <2>3. update \in GoodSteps
    BY <2>1, Updaters
  <2>. QED  BY <2>2, <2>3 DEF ReadingSteps, KeepingSteps, FreshSteps
<1>. HIDE DEF get, update
<1>4. CASE s
  <2>. DEFINE both == <<get>> \o <<update>>
  <2>1. ResourcesScale(k, s) = both
    BY <1>4, Zenon DEF ResourcesScale, get, update
  <2>2. /\ both \in Seq(GoodSteps) /\ Len(both) = 2
        /\ both[1] = get /\ both[2] = update
    BY <1>3
  <2>. HIDE DEF both
  <2>. QED  BY <1>1, <1>2, <2>1, <2>2 DEF Grounded, Holds
<1>5. CASE ~s
  <2>1. ResourcesScale(k, s) = <<get>> \o <<>>
    BY <1>5, Zenon DEF ResourcesScale, get, update
  <2>2. <<get>> \in Seq({get})
    OBVIOUS
  <2>3. <<get>> \o <<>> = <<get>>
    BY <2>2, ConcatEmptySeq
  <2>4. ResourcesScale(k, s) = <<get>>
    BY <2>1, <2>3, Zenon
  <2>. QED  BY <1>1, <1>3, <2>4 DEF Grounded
<1>. QED  BY <1>4, <1>5

\* The tools for pods.
LEMMA HonestPodsTools == HonestTools(PodsTools) /\ HonestTools(PodsMoreTools)
<1>. USE DEF RealKinds, NamedKinds, Conditions, Subresources
<1>1. /\ Get("Pod") \in ReadingSteps
      /\ List("Service") \in ReadingSteps /\ List("Route") \in ReadingSteps
      /\ Get("PodMetrics") \in ReadingSteps /\ List("PodMetrics") \in ReadingSteps
      /\ GetSub("Pod", "log") \in ReadingSteps
      /\ GetSub("Pod", "exec") \in ReadingSteps
  <2>1. {"Pod", "Service", "Route", "PodMetrics"} \subseteq RealKinds
    OBVIOUS
  <2>2. {"log", "exec"} \subseteq Subresources
    OBVIOUS
  <2>. HIDE DEF RealKinds, NamedKinds, Subresources
  <2>3. /\ GetSub("Pod", "log") \in ReadingSteps
        /\ GetSub("Pod", "exec") \in ReadingSteps
    BY <2>1, <2>2, SubresourceReaders
  <2>. QED  BY <2>1, <2>3, Readers
<1>2. ReadingSteps \subseteq FreshSteps
  BY DEF ReadingSteps, KeepingSteps
<1>. HIDE DEF RealKinds
<1>3. podsListInAllNamespaces \subseteq Seq(ReadingSteps)
  <2>1. PodsListInAllNamespaces \in Seq(ReadingSteps)
    BY ListPrograms DEF PodsListInAllNamespaces, RealKinds
  <2>. QED  BY <2>1, CheckedPrograms DEF podsListInAllNamespaces
<1>4. podsListInNamespace \subseteq Seq(ReadingSteps)
  <2>1. PodsListInNamespace \in Seq(ReadingSteps)
    BY ListPrograms DEF PodsListInNamespace, RealKinds
  <2>. QED  BY <2>1, CheckedPrograms DEF podsListInNamespace
<1>5. podsGet \subseteq Seq(ReadingSteps)
  <2>1. PodsGet \in Seq(ReadingSteps)
    BY <1>1 DEF PodsGet, ResourcesGet
  <2>. QED  BY <2>1, CheckedPrograms DEF podsGet
<1>6. podsDelete \subseteq Seq(FreshSteps)
  <2>1. /\ Delete("Service") \in FreshSteps /\ Delete("Route") \in FreshSteps
        /\ Delete("Pod") \in FreshSteps
    BY Deleters DEF RealKinds
  <2>2. /\ Try(List("Service")) \in FreshSteps /\ Try(List("Route")) \in FreshSteps
        /\ Try(Delete("Service")) \in FreshSteps
        /\ Try(Delete("Route")) \in FreshSteps
    BY <1>1, <1>2, <2>1, MarkedStep
  <2>3. /\ When("managed", Try(List("Service"))) \in FreshSteps
        /\ When("listed", Try(Delete("Service"))) \in FreshSteps
        /\ When("managed-routes", Try(List("Route"))) \in FreshSteps
        /\ When("listed", Try(Delete("Route"))) \in FreshSteps
    BY <2>2, MarkedStep
  <2>4. PodsDelete \in Seq(FreshSteps)
    BY <1>1, <1>2, <2>1, <2>3 DEF PodsDelete
  <2>. QED  BY <2>4, CheckedPrograms DEF podsDelete
<1>7. podsTop \subseteq Seq(ReadingSteps)
  <2>1. \A name \in BOOLEAN : PodsTop(name) \in Seq(ReadingSteps)
    BY <1>1 DEF PodsTop
  <2>. QED  BY <2>1, CheckedPrograms DEF podsTop
<1>8. podsExec \subseteq Seq(FreshSteps)
  <2>1. When("completed", Refuse) \in ReadingSteps
    BY OtherSteps, MarkedStep
  <2>2. PodsExec \in Seq(FreshSteps)
    BY <1>1, <1>2, <2>1 DEF PodsExec
  <2>. QED  BY <2>2, CheckedPrograms DEF podsExec
<1>9. podsLog \subseteq Seq(ReadingSteps)
  <2>1. \A c \in BOOLEAN : PodsLog(c) \in Seq(ReadingSteps)
    BY <1>1 DEF PodsLog
  <2>. QED  BY <2>1, CheckedPrograms DEF podsLog
<1>10. podsRun \subseteq Seq(KeepingSteps)
  <2>1. "managed" \in StepValues
    BY DEF StepValues
  <2>2. /\ Apply("Pod", "managed") \in KeepingSteps
        /\ Apply("Service", "managed") \in KeepingSteps
        /\ Apply("Route", "managed") \in KeepingSteps
    BY <2>1, Writers DEF RealKinds
  <2>3. When("routes", Apply("Route", "managed")) \in KeepingSteps
    BY <2>2, MarkedStep
  <2>4. \A port \in BOOLEAN : PodsRun(port) \in Seq(KeepingSteps)
    BY <2>2, <2>3 DEF PodsRun
  <2>. QED  BY <2>4, CheckedPrograms DEF podsRun
<1>. QED
  BY <1>3, <1>4, <1>5, <1>6, <1>7, <1>8, <1>9, <1>10, HonestTool
     DEF HonestTools, PodsTools, PodsMoreTools

\* The tools for resources.
LEMMA HonestResourcesTools ==
    HonestTools(ResourcesTools) /\ HonestTools(ResourcesMoreTools)
<1>1. resourcesList \subseteq Seq(ReadingSteps)
  <2>1. \A k \in Targets, all \in BOOLEAN :
           ResourcesList(k, all) \in Seq(ReadingSteps)
    BY TargetsAreKinds, ListPrograms
  <2>. QED  BY <2>1, CheckedPrograms DEF resourcesList
<1>2. resourcesGet \subseteq Seq(ReadingSteps)
  <2>1. \A k \in Targets : ResourcesGet(k) \in Seq(ReadingSteps)
    BY TargetsAreKinds, Readers DEF ResourcesGet
  <2>. QED  BY <2>1, CheckedPrograms DEF resourcesGet
<1>3. resourcesCreateOrUpdateTool \subseteq Seq(FreshSteps)
  <2>1. \A d \in Documents : d \in Seq(RealKinds \X StepValues \X BOOLEAN)
    <3>. SUFFICES ASSUME NEW d \in Documents
                  PROVE  d \in Seq(RealKinds \X StepValues \X BOOLEAN)
      OBVIOUS
    <3>1. /\ d \in Seq(STRING \X STRING \X BOOLEAN)
          /\ \A i \in 1..Len(d) : IsKind(d[i][1])
      BY KindsAssumption
    <3>2. ASSUME NEW i \in 1..Len(d)
          PROVE  d[i] \in RealKinds \X StepValues \X BOOLEAN
      <4>1. d[i] \in STRING \X STRING \X BOOLEAN /\ IsKind(d[i][1])
        BY <3>1
      <4>. QED  BY <4>1 DEF RealKinds, StepValues
    <3>. QED  BY <3>1, <3>2
  <2>2. \A d \in Documents : resourcesCreateOrUpdate(d) \in Seq(FreshSteps)
    BY <2>1, ApplySteps, ProgramsNest
  <2>. QED  BY <2>2, CheckedPrograms
            DEF resourcesCreateOrUpdateTool, ResourcesCreateOrUpdate
<1>4. resourcesDelete \subseteq Seq(FreshSteps)
  <2>1. \A k \in Targets : ResourcesDelete(k) \in Seq(FreshSteps)
    BY TargetsAreKinds, Deleters DEF ResourcesDelete
  <2>. QED  BY <2>1, CheckedPrograms DEF resourcesDelete
<1>5. Honest(Tool(Destructive, resourcesScale))
  <2>1. resourcesScale \subseteq Seq(GoodSteps)
    BY ScaleProgram, CheckedPrograms DEF resourcesScale
  <2>2. \A program \in resourcesScale : Grounded(program)
    BY ScaleProgram, RefusedProgram DEF resourcesScale, Checked
  <2>. QED  BY <2>1, <2>2 DEF Honest, Tool, Destructive
<1>. QED
  BY <1>1, <1>2, <1>3, <1>4, <1>5, HonestTool
     DEF HonestTools, ResourcesTools, ResourcesMoreTools

\* The tools for nodes, events and namespaces.
LEMMA HonestClusterTools ==
    /\ HonestTools(NodesTools)
    /\ HonestTools(EventsTools)
    /\ HonestTools(NamespacesTools)
<1>1. /\ {"Node", "NodeMetrics", "Event", "Namespace", "Project"} \subseteq RealKinds
      /\ "proxy" \in Subresources
  BY DEF RealKinds, NamedKinds, Subresources
<1>2. /\ Get("Node") \in ReadingSteps /\ List("Node") \in ReadingSteps
      /\ Get("NodeMetrics") \in ReadingSteps
      /\ List("NodeMetrics") \in ReadingSteps
  BY <1>1, Readers
<1>3. GetSub("Node", "proxy") \in ReadingSteps
  BY <1>1, SubresourceReaders
<1>4. nodesLog \subseteq Seq(ReadingSteps)
  <2>1. NodesLog \in Seq(ReadingSteps)
    BY <1>2, <1>3 DEF NodesLog
  <2>. QED  BY <2>1, CheckedPrograms DEF nodesLog
<1>5. nodesStatsSummary \subseteq Seq(ReadingSteps)
  <2>1. NodesStatsSummary \in Seq(ReadingSteps)
    BY <1>2, <1>3 DEF NodesStatsSummary
  <2>. QED  BY <2>1, CheckedPrograms DEF nodesStatsSummary
<1>6. nodesTop \subseteq Seq(ReadingSteps)
  BY <1>2 DEF nodesTop, NodesTop
<1>7. eventsList \subseteq Seq(ReadingSteps)
  <2>1. \A all \in BOOLEAN : EventsList(all) \in Seq(ReadingSteps)
    BY <1>1, ListPrograms DEF EventsList
  <2>. QED  BY <2>1, CheckedPrograms DEF eventsList
<1>8. namespacesList \subseteq Seq(ReadingSteps)
  <2>1. NamespacesList \in Seq(ReadingSteps)
    BY <1>1, ListPrograms DEF NamespacesList
  <2>. QED  BY <2>1, CheckedPrograms DEF namespacesList
<1>9. projectsList \subseteq Seq(ReadingSteps)
  <2>1. ProjectsList \in Seq(ReadingSteps)
    BY <1>1, ListPrograms DEF ProjectsList
  <2>. QED  BY <2>1 DEF projectsList
<1>. QED
  BY <1>4, <1>5, <1>6, <1>7, <1>8, <1>9, HonestTool
     DEF HonestTools, NodesTools, EventsTools, NamespacesTools

\* The tools of the kubevirt toolset.
LEMMA HonestKubevirtTools == HonestTools(KubevirtTools)
<1>1. /\ {"VM", "VMI", "VMClone", "DataSource", "ClusterPreference",
          "Preference", "ClusterInstancetype", "Instancetype",
          "GuestAgent"} \subseteq RealKinds
      /\ GuestInfo \subseteq Subresources
  BY DEF RealKinds, NamedKinds, Subresources, GuestInfo
<1>2. {"plain", "Always", "Halted", "openshift-virtualization-os-images",
       "kubevirt-os-images"} \subseteq StepValues
  BY DEF StepValues
<1>3. lifecycle \subseteq Seq(FreshSteps)
  <2>1. /\ GetVirtualMachine \in KeepingSteps
        /\ UpdateVirtualMachine("Always") \in KeepingSteps
        /\ UpdateVirtualMachine("Halted") \in KeepingSteps
    BY <1>1, <1>2, Readers, Updaters
       DEF GetVirtualMachine, UpdateVirtualMachine, ReadingSteps
  <2>2. /\ When("not-Always", UpdateVirtualMachine("Always")) \in KeepingSteps
        /\ When("not-Halted", UpdateVirtualMachine("Halted")) \in KeepingSteps
    BY <2>1, MarkedStep DEF Conditions
  <2>3. {StartVM, StopVM, RestartVM} \subseteq Seq(KeepingSteps)
    BY <2>1, <2>2 DEF StartVM, StopVM, RestartVM
  <2>. QED  BY <2>3, CheckedPrograms, ProgramsNest DEF lifecycle
<1>4. cloneVM \subseteq Seq(FreshSteps)
  <2>1. Create("VMClone", "plain") \in KeepingSteps
    BY <1>1, <1>2, Writers
  <2>2. CloneVM \in Seq(KeepingSteps)
    BY <2>1 DEF CloneVM
  <2>. QED  BY <2>2, CheckedPrograms, ProgramsNest DEF cloneVM
<1>5. createVM \subseteq Seq(FreshSteps)
  <2>1. collectDataSources \in Seq(KeepingSteps)
    <3>1. /\ ListIn("DataSource", "openshift-virtualization-os-images") \in ReadingSteps
          /\ ListIn("DataSource", "kubevirt-os-images") \in ReadingSteps
          /\ ListAll("DataSource") \in ReadingSteps
      BY <1>1, <1>2, NamespaceReaders, Readers
    <3>2. /\ Try(ListIn("DataSource", "openshift-virtualization-os-images"))
                \in ReadingSteps
          /\ Try(ListIn("DataSource", "kubevirt-os-images")) \in ReadingSteps
          /\ Try(ListAll("DataSource")) \in ReadingSteps
      BY <3>1, MarkedReader
    <3>3. collectDataSources \in Seq(ReadingSteps)
      BY <3>2 DEF collectDataSources
    <3>. QED  BY <3>3, ProgramsNest
  <2>2. SearchPreferences \in Seq(KeepingSteps)
    <3>1. /\ Try(List("ClusterPreference")) \in ReadingSteps
          /\ Try(List("Preference")) \in ReadingSteps
      BY <1>1, Readers, MarkedReader
    <3>2. SearchPreferences \in Seq(ReadingSteps)
      BY <3>1 DEF SearchPreferences
    <3>. QED  BY <3>2, ProgramsNest
  <2>3. SearchInstancetypes \in Seq(KeepingSteps)
    <3>1. /\ Try(List("ClusterInstancetype")) \in ReadingSteps
          /\ Try(List("Instancetype")) \in ReadingSteps
      BY <1>1, Readers, MarkedReader
    <3>2. SearchInstancetypes \in Seq(ReadingSteps)
      BY <3>1 DEF SearchInstancetypes
    <3>. QED  BY <3>2, ProgramsNest
  <2>4. ASSUME NEW args \in VMArguments, NEW v \in {"Always", "Halted"}
        PROVE  [Apply("VM", v) EXCEPT !.args = args] \in KeepingSteps
    <3>. DEFINE step == [Apply("VM", v) EXCEPT !.args = args]
    <3>1. Apply("VM", v) \in Steps /\ WellMade(Apply("VM", v))
      BY <1>1, <1>2, Writers DEF KeepingSteps, FreshSteps, GoodSteps
    <3>2. Fields(Apply("VM", v), "PATCH", "VM", TRUE, Empty)
      BY DEF Apply, Request, Fields
    <3>3. /\ step \in Steps /\ Fields(step, "PATCH", "VM", TRUE, Empty)
          /\ step.path = Apply("VM", v).path /\ step.value = Apply("VM", v).value
      BY <3>1, <3>2 DEF Steps, Fields
    <3>. HIDE DEF step
    <3>4. WellMade(step)
      BY <3>1, <3>2, <3>3 DEF WellMade, Fields
    <3>5. step \in KeepingSteps
      BY <3>3, <3>4 DEF KeepingSteps, FreshSteps, GoodSteps, Fields
    <3>. QED  BY <3>5 DEF step
  <2>5. \A args \in VMArguments, auto \in BOOLEAN :
           vmCreate(args, auto) \in Seq(KeepingSteps)
    <3>. SUFFICES ASSUME NEW args \in VMArguments, NEW auto \in BOOLEAN
                  PROVE  vmCreate(args, auto) \in Seq(KeepingSteps)
      OBVIOUS
    <3>. DEFINE v    == IF auto THEN "Always" ELSE "Halted"
                step == [Apply("VM", v) EXCEPT !.args = args]
    <3>1. step \in KeepingSteps
      BY <2>4
    <3>. HIDE DEF step
    <3>2. <<step>> \in Seq(KeepingSteps)
      BY <3>1
    <3>3. vmCreate(args, auto) = collectDataSources \o SearchPreferences
                                    \o SearchInstancetypes \o <<step>>
      BY DEF vmCreate, step
    <3>. QED  BY <2>1, <2>2, <2>3, <3>2, <3>3
  <2>. QED  BY <2>5, CheckedPrograms, ProgramsNest DEF createVM
<1>6. guestInfo \subseteq Seq(ReadingSteps)
  <2>1. \A sub \in GuestInfo : getVMISubresource(sub) \in ReadingSteps
    BY <1>1, SubresourceReaders DEF getVMISubresource
  <2>2. /\ When("no-info", Refuse) \in ReadingSteps
        /\ When("not-running", Refuse) \in ReadingSteps
        /\ Get("VMI") \in ReadingSteps
    BY <1>1, OtherSteps, MarkedReader, Readers DEF Conditions
  <2>3. validateVMI \in Seq(ReadingSteps)
    BY <2>2 DEF validateVMI
  <2>4. \A sub \in GuestInfo : Try(getVMISubresource(sub)) \in ReadingSteps
    BY <2>1, MarkedReader
  <2>5. GetAllGuestInfo \in Seq(ReadingSteps)
    BY <2>2, <2>4 DEF GetAllGuestInfo, GuestInfo
  <2>6. fetchGuestInfo \subseteq Seq(ReadingSteps)
    <3>1. \A sub \in GuestInfo : <<getVMISubresource(sub)>> \in Seq(ReadingSteps)
      BY <2>1
    <3>. QED  BY <2>5, <3>1 DEF fetchGuestInfo
  <2>7. \A fetch \in fetchGuestInfo : validateVMI \o fetch \in Seq(ReadingSteps)
    BY <2>3, <2>6
  <2>. QED  BY <2>7, CheckedPrograms DEF guestInfo
<1>7. /\ HonestTools(CloneTools) /\ HonestTools(CreateTools)
      /\ HonestTools(GuestagentTools) /\ HonestTools(LifecycleTools)
  BY <1>3, <1>4, <1>5, <1>6, HonestTool
     DEF HonestTools, CloneTools, CreateTools, GuestagentTools, LifecycleTools
<1>. QED  BY <1>7, HonestUnion DEF KubevirtTools

\* The tools of the helm toolset.
LEMMA HonestHelmTools == HonestTools(HelmTools)
<1>1. {"Secret", "Deployment"} \subseteq RealKinds
  BY DEF RealKinds, NamedKinds
<1>2. {"plain", "malformed"} \subseteq StepValues
  BY DEF StepValues
<1>3. /\ List("Secret") \in ReadingSteps /\ ListAll("Secret") \in ReadingSteps
      /\ Refuse \in ReadingSteps
      /\ Try(List("Secret")) \in ReadingSteps
      /\ When("listed", Refuse) \in ReadingSteps
  BY <1>1, Readers, OtherSteps, MarkedReader DEF Conditions
<1>4. /\ Create("Secret", "plain") \in KeepingSteps
      /\ Update("Secret", "plain") \in KeepingSteps
      /\ \A m \in {"plain", "malformed"} : Create("Deployment", m) \in KeepingSteps
  BY <1>1, <1>2, Writers, Updaters
<1>5. ReadingSteps \subseteq KeepingSteps /\ KeepingSteps \subseteq FreshSteps
  BY DEF ReadingSteps, KeepingSteps
<1>6. helmInstall \subseteq Seq(KeepingSteps)
  <2>1. \A m \in {"plain", "malformed"} : Install(m) \in Seq(KeepingSteps)
    BY <1>3, <1>4, <1>5 DEF Install
  <2>2. <<Refuse>> \in Seq(KeepingSteps)
    BY <1>3, <1>5
  <2>3. \A p \in helmInstall : \/ p = <<Refuse>>
                               \/ p = Install("plain")
                               \/ p = Install("malformed")
    <3>1. ASSUME NEW p \in helmInstall, p # <<Refuse>>
          PROVE  \E m \in {"plain", "malformed"} : p = Install(m)
      BY <3>1, SMT DEF helmInstall, Checked
    <3>. QED  BY <3>1
  <2>. QED  BY <2>1, <2>2, <2>3
<1>7. helmList \subseteq Seq(ReadingSteps)
  <2>1. /\ <<List("Secret")>> \in Seq(ReadingSteps)
        /\ <<ListAll("Secret")>> \in Seq(ReadingSteps)
    BY <1>3
  <2>. QED  BY <2>1, CheckedPrograms DEF helmList
<1>8. helmUninstall \subseteq Seq(FreshSteps)
  <2>1. Delete("Deployment") \in FreshSteps /\ Delete("Secret") \in FreshSteps
    BY <1>1, Deleters
  <2>2. /\ When("listed", Update("Secret", "plain")) \in FreshSteps
        /\ When("listed", Delete("Deployment")) \in FreshSteps
        /\ When("listed", Delete("Secret")) \in FreshSteps
    BY <1>4, <1>5, <2>1, MarkedStep DEF Conditions
  <2>3. Uninstall \in Seq(FreshSteps)
    BY <1>3, <1>5, <2>2 DEF Uninstall
  <2>. QED  BY <2>3, CheckedPrograms DEF helmUninstall
<1>. QED  BY <1>6, <1>7, <1>8, HonestTool DEF HonestTools, HelmTools

\* The tools of the tekton toolset.
LEMMA HonestTektonTools == HonestTools(TektonTools)
<1>1. {"Pipeline", "PipelineRun", "Task", "TaskRun", "Pod"} \subseteq RealKinds
  BY DEF RealKinds, NamedKinds
<1>2. {"plain", "same"} \subseteq StepValues /\ "log" \in Subresources
  BY DEF StepValues, Subresources
<1>3. ASSUME NEW k \in {"Pipeline", "PipelineRun", "Task", "TaskRun"}
      PROVE  Get(k) \in ReadingSteps /\ Get(k) \in KeepingSteps
  BY <1>1, Readers DEF ReadingSteps
<1>4. ASSUME NEW k \in {"PipelineRun", "TaskRun"}, NEW v \in {"plain", "same"}
      PROVE  Create(k, v) \in KeepingSteps
  BY <1>1, <1>2, Writers
<1>5. Refuse \in KeepingSteps
  BY OtherSteps DEF ReadingSteps
<1>6. ASSUME NEW d \in {"Pipeline", "Task"}, NEW run \in {"PipelineRun", "TaskRun"}
      PROVE  Start(d, run) \subseteq Seq(KeepingSteps)
  <2>1. /\ Get(d) \in KeepingSteps
        /\ Create(run, "plain") \in KeepingSteps
    BY <1>3, <1>4
  <2>. QED  BY <1>5, <2>1 DEF Start
<1>7. ASSUME NEW run \in {"PipelineRun", "TaskRun"}
      PROVE  Restart(run) \in Seq(KeepingSteps)
  <2>1. Get(run) \in KeepingSteps /\ Create(run, "same") \in KeepingSteps
    BY <1>3, <1>4
  <2>. QED  BY <2>1 DEF Restart
<1>8. /\ startPipeline \subseteq Seq(KeepingSteps)
      /\ startTask \subseteq Seq(KeepingSteps)
  BY <1>6, CheckedPrograms DEF startPipeline, startTask
<1>9. /\ restartPipelineRun \subseteq Seq(KeepingSteps)
      /\ restartTaskRun \subseteq Seq(KeepingSteps)
  BY <1>7, CheckedPrograms DEF restartPipelineRun, restartTaskRun
<1>10. getTaskRunLogs \subseteq Seq(ReadingSteps)
  <2>1. Try(GetSub("Pod", "log")) \in ReadingSteps
    BY <1>1, <1>2, SubresourceReaders, MarkedReader
  <2>2. /\ collectContainerLogs \in Seq(ReadingSteps)
        /\ <<Get("TaskRun")>> \in Seq(ReadingSteps)
    BY <1>3, <2>1 DEF collectContainerLogs
  <2>3. /\ <<Get("TaskRun")>> \o collectContainerLogs \in Seq(ReadingSteps)
        /\ <<Get("TaskRun")>> \o collectContainerLogs
              \o collectContainerLogs \in Seq(ReadingSteps)
    BY <2>2
  <2>. QED  BY <2>2, <2>3, CheckedPrograms DEF getTaskRunLogs
<1>. QED
  BY <1>8, <1>9, <1>10, HonestTool DEF HonestTools, TektonTools

\* The tools of the toolsets kiali, kcp and config.
LEMMA HonestOtherTools ==
    /\ HonestTools(KialiTools)
    /\ HonestTools(KcpTools)
    /\ HonestTools(ConfigurationTools)
<1>1. ExecuteRequest("read") \subseteq Seq(ReadingSteps)
  BY OtherSteps DEF ExecuteRequest
<1>2. ExecuteRequest("manage") \subseteq Seq(FreshSteps)
  <2>1. Kiali("manage") \in FreshSteps
    BY OtherSteps DEF KeepingSteps
  <2>. QED  BY <2>1 DEF ExecuteRequest
<1>3. /\ Honest(Tool(Reader, ExecuteRequest("read")))
      /\ Honest(Tool(Destructive, ExecuteRequest("manage")))
  BY <1>1, <1>2, HonestTool
<1>4. HonestTools(KialiTools)
  BY <1>3
     DEF HonestTools, KialiTools, workloadLogsHandler, getMeshStatusHandler,
         getMeshGraphHandler, resourceMetricsHandler, getPodPerformanceHandler,
         tracesHandler, listMeshClustersHandler, listOrGetResourcesHandler,
         listTracesHandler, istioConfigHandlerRead, istioConfigHandler
<1>5. HonestTools(KcpTools)
  <2>1. Get("Workspace") \in ReadingSteps /\ List("Workspace") \in ReadingSteps
    BY Readers DEF RealKinds, NamedKinds
  <2>2. /\ Try(List("Workspace")) \in ReadingSteps
        /\ When("listed", Try(List("Workspace"))) \in ReadingSteps
    BY <2>1, MarkedReader DEF Conditions
  <2>3. workspacesList \subseteq Seq(ReadingSteps)
    BY <2>2 DEF workspacesList, DiscoverWorkspacesRecursive
  <2>4. workspaceDescribe \subseteq Seq(ReadingSteps)
    <3>1. <<Get("Workspace")>> \in Seq(ReadingSteps)
      BY <2>1
    <3>. QED  BY <3>1, CheckedPrograms DEF workspaceDescribe
  <2>. QED  BY <2>3, <2>4, HonestTool DEF HonestTools, KcpTools
<1>6. HonestTools(ConfigurationTools)
  <2>1. <<>> \in Seq(ReadingSteps)
    OBVIOUS
  <2>2. /\ contextsList \subseteq Seq(ReadingSteps)
        /\ targetsList \subseteq Seq(ReadingSteps)
        /\ configurationView \subseteq Seq(ReadingSteps)
    BY <2>1, CheckedPrograms DEF contextsList, targetsList, configurationView
  <2>. QED  BY <2>2, HonestTool DEF HonestTools, ConfigurationTools
<1>. QED  BY <1>4, <1>5, <1>6

\* Every tool of the server keeps what its hints say.
THEOREM AllToolsAreHonest == HonestTools(Tools)
<1>1. HonestTools(CoreTools)
  BY HonestPodsTools, HonestResourcesTools, HonestClusterTools, HonestUnion
     DEF CoreTools
<1>2. HonestTools(CoreTools ++ KubevirtTools ++ HelmTools ++ TektonTools)
  BY <1>1, HonestKubevirtTools, HonestHelmTools, HonestTektonTools, HonestUnion
<1>. QED  BY <1>2, HonestOtherTools, HonestUnion DEF Tools

-----------------------------------------------------------------------------
(* Prompts.                                                                *)

HonestPrompts(prompts) ==
    \A t \in DOMAIN prompts : prompts[t] \subseteq Seq(ReadingSteps)

\* Two lists of prompts that only read are one.
LEMMA PromptsUnion ==
    ASSUME NEW f, NEW g, HonestPrompts(f), HonestPrompts(g)
    PROVE  HonestPrompts(f ++ g)
BY DEF HonestPrompts, ++

\* The prompt of the core toolset.
LEMMA HonestCorePrompts == HonestPrompts(CorePrompts)
<1>1. {"Node", "Pod", "Deployment", "StatefulSet", "DaemonSet", "PVC",
       "ClusterOperator", "Namespace", "Event"} \subseteq RealKinds
  BY DEF RealKinds, NamedKinds
<1>2. ASSUME NEW k \in RealKinds
      PROVE  /\ Try(List(k)) \in ReadingSteps
             /\ \A cluster \in BOOLEAN : InScope(k, cluster) \in ReadingSteps
  BY Readers, MarkedReader DEF InScope
<1>3. gatherClusterOperatorDiagnostics \in Seq(ReadingSteps)
  <2>. DEFINE lists == ResourcesList("ClusterOperator", TRUE)
  <2>1. lists \in Seq(ReadingSteps)
    BY <1>1, ListPrograms
  <2>. HIDE DEF lists
  <2>2. \A i \in 1..Len(lists) : Try(lists[i]) \in ReadingSteps
    BY <2>1, MarkedReader
  <2>3. Len(lists) \in Nat
    BY <2>1
  <2>4. [i \in 1..Len(lists) |-> Try(lists[i])] \in Seq(ReadingSteps)
    BY <2>2, <2>3
  <2>. QED  BY <2>4 DEF gatherClusterOperatorDiagnostics, lists
<1>4. \A cluster \in BOOLEAN :
         gatherEventDiagnostics(cluster) \in Seq(ReadingSteps)
  <2>1. Try(List("Namespace")) \in ReadingSteps /\ Try(List("Event")) \in ReadingSteps
    BY <1>1, <1>2
  <2>. QED  BY <2>1 DEF gatherEventDiagnostics
<1>5. ASSUME NEW cluster \in BOOLEAN, NEW events \in BOOLEAN
      PROVE  gatherClusterDiagnostics(cluster, events) \in Seq(ReadingSteps)
  <2>. DEFINE first == << Try(List("Node")), InScope("Pod", cluster),
                          InScope("Deployment", cluster),
                          InScope("StatefulSet", cluster),
                          InScope("DaemonSet", cluster),
                          InScope("PVC", cluster) >>
              more  == IF events THEN gatherEventDiagnostics(cluster) ELSE <<>>
              last  == << Try(List("Namespace")) >>
  <2>1. first \in Seq(ReadingSteps)
    <3>1. /\ Try(List("Node")) \in ReadingSteps
          /\ InScope("Pod", cluster) \in ReadingSteps
          /\ InScope("Deployment", cluster) \in ReadingSteps
          /\ InScope("StatefulSet", cluster) \in ReadingSteps
          /\ InScope("DaemonSet", cluster) \in ReadingSteps
          /\ InScope("PVC", cluster) \in ReadingSteps
      BY <1>1, <1>2
    <3>. QED  BY <3>1
  <2>2. more \in Seq(ReadingSteps)
    BY <1>4
  <2>3. last \in Seq(ReadingSteps)
    <3>1. Try(List("Namespace")) \in ReadingSteps
      BY <1>1, <1>2
    <3>. QED  BY <3>1
  <2>4. gatherClusterDiagnostics(cluster, events) =
           first \o gatherClusterOperatorDiagnostics \o more \o last
    BY DEF gatherClusterDiagnostics
  <2>. HIDE DEF first, more, last
  <2>. QED  BY <1>3, <2>1, <2>2, <2>3, <2>4
<1>6. <<Try(Get("Namespace"))>> \in Seq(ReadingSteps)
  <2>1. Try(Get("Namespace")) \in ReadingSteps
    BY <1>1, Readers, MarkedReader
  <2>. QED  BY <2>1
<1>7. clusterHealthCheck \subseteq Seq(ReadingSteps)
  <2>1. \A p \in Seq(ReadingSteps) :
           <<Try(Get("Namespace"))>> \o p \in Seq(ReadingSteps)
    BY <1>6
  <2>2. \A cluster \in BOOLEAN :
           {gatherClusterDiagnostics(cluster, events) : events \in BOOLEAN}
              \subseteq Seq(ReadingSteps)
    BY <1>5
  <2>. QED  BY <2>1, <2>2 DEF clusterHealthCheck
<1>. QED  BY <1>7 DEF HonestPrompts, CorePrompts

\* The prompts of the kiali toolset.
LEMMA HonestKialiPrompts == HonestPrompts(KialiPrompts)
<1>. DEFINE ask == Kiali("read")
<1>1. ask \in ReadingSteps /\ Try(ask) \in ReadingSteps
  BY OtherSteps, MarkedReader
<1>. HIDE DEF ask
<1>2. /\ fetchKialiData \in Seq(ReadingSteps)
      /\ <<ask>> \in Seq(ReadingSteps)
      /\ \A all \in BOOLEAN : resolveNamespaces(all) \in Seq(ReadingSteps)
  BY <1>1 DEF fetchKialiData, resolveNamespaces, ask
<1>3. /\ listIstioConfigHandler \subseteq Seq(ReadingSteps)
      /\ listResourceHandler \subseteq Seq(ReadingSteps)
      /\ meshHealthCheckHandler \subseteq Seq(ReadingSteps)
  BY <1>2 DEF listIstioConfigHandler, listResourceHandler,
              meshHealthCheckHandler, ask
<1>4. meshTopologyHandler \subseteq Seq(ReadingSteps)
  <2>1. resolveNamespaces(TRUE) \in Seq(ReadingSteps)
    BY <1>2
  <2>2. \A r \in Seq(ReadingSteps) :
           fetchKialiData \o r \o fetchKialiData \in Seq(ReadingSteps)
    BY <1>2
  <2>. QED  BY <2>1, <2>2 DEF meshTopologyHandler
<1>5. trafficTopologyHandler \subseteq Seq(ReadingSteps)
  <2>1. \A all \in BOOLEAN :
           resolveNamespaces(all) \o <<ask>> \in Seq(ReadingSteps)
    BY <1>2
  <2>2. \A p \in trafficTopologyHandler :
           \/ p = <<Refuse>>
           \/ \E all \in BOOLEAN : p = resolveNamespaces(all) \o <<ask>>
    BY SMT DEF trafficTopologyHandler, Checked, ask
  <2>3. <<Refuse>> \in Seq(ReadingSteps)
    BY OtherSteps
  <2>. QED  BY <2>1, <2>2, <2>3
<1>6. /\ serviceTroubleshootHandler \subseteq Seq(ReadingSteps)
      /\ istioConfigReviewHandler \subseteq Seq(ReadingSteps)
      /\ traceAnalysisHandler \subseteq Seq(ReadingSteps)
  <2>1. {fetchKialiData \o fetchKialiData} \subseteq Seq(ReadingSteps)
    BY <1>2
  <2>. QED  BY <2>1, CheckedPrograms
            DEF serviceTroubleshootHandler, istioConfigReviewHandler,
                traceAnalysisHandler
<1>. QED  BY <1>3, <1>4, <1>5, <1>6 DEF HonestPrompts, KialiPrompts

\* The prompts of the kubevirt toolset.
LEMMA HonestKubevirtPrompts ==
    HonestPrompts(VMTroubleshootPrompts) /\ HonestPrompts(GoldenImagePrompts)
<1>1. {"VM", "VMI", "Pod", "Event"} \subseteq RealKinds /\ "log" \in Subresources
  BY DEF RealKinds, NamedKinds, Subresources
<1>2. /\ Get("VM") \in ReadingSteps /\ Get("VMI") \in ReadingSteps
      /\ List("Pod") \in ReadingSteps /\ List("Event") \in ReadingSteps
      /\ Review \in ReadingSteps
  BY <1>1, Readers, OtherSteps
<1>3. GetSub("Pod", "log") \in ReadingSteps
  BY <1>1, SubresourceReaders
<1>4. /\ Try(Get("VM")) \in ReadingSteps /\ Try(Get("VMI")) \in ReadingSteps
      /\ Try(List("Pod")) \in ReadingSteps /\ Try(List("Event")) \in ReadingSteps
      /\ Try(Review) \in ReadingSteps
      /\ Try(GetSub("Pod", "log")) \in ReadingSteps
  BY <1>2, <1>3, MarkedReader
<1>5. /\ When("listed", Try(GetSub("Pod", "log"))) \in ReadingSteps
      /\ When("answered", Try(Review)) \in ReadingSteps
      /\ When("answered", Try(List("Event"))) \in ReadingSteps
  BY <1>4, MarkedReader DEF Conditions
<1>6. /\ fetchVirtualMachineStatus \in Seq(ReadingSteps)
      /\ fetchVirtualMachineInstanceStatus \in Seq(ReadingSteps)
      /\ fetchVirtLauncherPod \in Seq(ReadingSteps)
      /\ fetchVirtLauncherPodLogs \in Seq(ReadingSteps)
      /\ fetchEvents \in Seq(ReadingSteps)
  BY <1>4, <1>5
     DEF fetchVirtualMachineStatus, fetchVirtualMachineInstanceStatus,
         fetchVirtLauncherPod, fetchVirtLauncherPodLogs, fetchEvents
<1>7. fetchVirtualMachineStatus \o fetchVirtualMachineInstanceStatus
         \o fetchVirtLauncherPod \o fetchVirtLauncherPodLogs \o fetchEvents
            \in Seq(ReadingSteps)
  BY <1>6
<1>8. vmTroubleshootHandler \subseteq Seq(ReadingSteps)
  BY <1>7, CheckedPrograms DEF vmTroubleshootHandler
<1>9. windowsGoldenImageHandler \subseteq Seq(ReadingSteps)
  <2>1. <<AskForEULA>> \in Seq(ReadingSteps)
    BY OtherSteps
  <2>. QED  BY <2>1, CheckedPrograms DEF windowsGoldenImageHandler
<1>. QED  BY <1>8, <1>9 DEF HonestPrompts, VMTroubleshootPrompts, GoldenImagePrompts

\* Every prompt only reads.
THEOREM AllPromptsRead == HonestPrompts(Prompts)
<1>1. HonestPrompts(CorePrompts ++ KialiPrompts)
  BY HonestCorePrompts, HonestKialiPrompts, PromptsUnion
<1>. QED  BY <1>1, HonestKubevirtPrompts, PromptsUnion DEF Prompts

-----------------------------------------------------------------------------
(* Names.                                                                  *)

PromptNames ==
    {"cluster_health_check", "list_applications", "list_istio_config",
     "list_namespaces", "list_services", "list_workloads", "mesh_health_check",
     "mesh_topology", "traffic_topology", "service_troubleshoot",
     "trace_analysis", "istio_config_review", "vm_troubleshoot",
     "windows_golden_image"}

\* No prompt has the name of a tool.
LEMMA NoPromptIsATool == DOMAIN Tools \cap DOMAIN Prompts = {}
<1>1. DOMAIN Prompts = PromptNames
  <2>1. DOMAIN Prompts = DOMAIN CorePrompts \cup DOMAIN KialiPrompts
           \cup DOMAIN VMTroubleshootPrompts \cup DOMAIN GoldenImagePrompts
    BY DEF Prompts, ++
  <2>. QED  BY <2>1 DEF PromptNames, CorePrompts, KialiPrompts,
                        VMTroubleshootPrompts, GoldenImagePrompts
<1>2. DOMAIN CoreTools =
         DOMAIN PodsTools \cup DOMAIN PodsMoreTools \cup DOMAIN ResourcesTools
         \cup DOMAIN ResourcesMoreTools \cup DOMAIN NodesTools
         \cup DOMAIN EventsTools \cup DOMAIN NamespacesTools
  <2>. DEFINE first == PodsTools ++ PodsMoreTools ++ ResourcesTools
  <2>1. DOMAIN first = DOMAIN PodsTools \cup DOMAIN PodsMoreTools
                          \cup DOMAIN ResourcesTools
    BY DEF ++
  <2>2. CoreTools = first ++ ResourcesMoreTools ++ NodesTools ++ EventsTools
                       ++ NamespacesTools
    BY Zenon DEF CoreTools
  <2>. HIDE DEF first
  <2>3. DOMAIN CoreTools = DOMAIN first \cup DOMAIN ResourcesMoreTools
           \cup DOMAIN NodesTools \cup DOMAIN EventsTools
           \cup DOMAIN NamespacesTools
    BY <2>2 DEF ++
  <2>. QED  BY <2>1, <2>3
<1>3. DOMAIN KubevirtTools = DOMAIN CloneTools \cup DOMAIN CreateTools
         \cup DOMAIN GuestagentTools \cup DOMAIN LifecycleTools
  BY DEF KubevirtTools, ++
<1>4. DOMAIN Tools =
         DOMAIN CoreTools \cup DOMAIN KubevirtTools \cup DOMAIN HelmTools
         \cup DOMAIN TektonTools \cup DOMAIN KialiTools \cup DOMAIN KcpTools
         \cup DOMAIN ConfigurationTools
  BY DEF Tools, ++
<1>5. PromptNames \cap DOMAIN CoreTools = {}
  BY <1>2 DEF PromptNames, PodsTools, PodsMoreTools, ResourcesTools,
              ResourcesMoreTools, NodesTools, EventsTools, NamespacesTools
<1>6. PromptNames \cap DOMAIN KubevirtTools = {}
  BY <1>3 DEF PromptNames, CloneTools, CreateTools, GuestagentTools,
              LifecycleTools
<1>7. /\ PromptNames \cap DOMAIN HelmTools = {}
      /\ PromptNames \cap DOMAIN TektonTools = {}
      /\ PromptNames \cap DOMAIN KialiTools = {}
      /\ PromptNames \cap DOMAIN KcpTools = {}
      /\ PromptNames \cap DOMAIN ConfigurationTools = {}
  BY DEF PromptNames, HelmTools, TektonTools, KialiTools, KcpTools,
         ConfigurationTools
<1>. QED  BY <1>1, <1>4, <1>5, <1>6, <1>7

\* The tool that applies manifests.
LEMMA ApplyTool ==
    /\ "resources_create_or_update" \in DOMAIN Tools
    /\ Tools["resources_create_or_update"].hints = Destructive
<1>. DEFINE t == "resources_create_or_update"
<1>1. /\ t \in DOMAIN ResourcesTools /\ t \notin DOMAIN PodsTools
      /\ t \notin DOMAIN PodsMoreTools
  BY DEF ResourcesTools, PodsTools, PodsMoreTools
<1>2. ResourcesTools[t].hints = Destructive
  BY DEF ResourcesTools, Tool
<1>. HIDE DEF t
<1>3. t \in DOMAIN CoreTools /\ CoreTools[t] = ResourcesTools[t]
  <2>. DEFINE first == PodsTools ++ PodsMoreTools ++ ResourcesTools
  <2>1. t \in DOMAIN first /\ first[t] = ResourcesTools[t]
    BY <1>1 DEF ++
  <2>2. CoreTools = first ++ ResourcesMoreTools ++ NodesTools ++ EventsTools
                       ++ NamespacesTools
    BY Zenon DEF CoreTools
  <2>. HIDE DEF first
  <2>3. t \in DOMAIN CoreTools /\ CoreTools[t] = first[t]
    BY <2>1, <2>2 DEF ++
  <2>. QED  BY <2>1, <2>3
<1>4. t \in DOMAIN Tools /\ Tools[t] = CoreTools[t]
  BY <1>3 DEF Tools, ++
<1>. QED  BY <1>2, <1>3, <1>4 DEF t

\* The steps that a tool may take by its hints, and a prompt.
StepsOf(t) ==
    {step \in GoodSteps :
        /\ Writes(step) => /\ t \in DOMAIN Tools
                           /\ ~Tools[t].hints.readOnly
        /\ step.method = "DELETE" => /\ t \in DOMAIN Tools
                                     /\ Tools[t].hints.destructive}

\* The programs of tools and prompts are made of such steps.
THEOREM ProgramsKeepHints ==
    ASSUME NEW t \in DOMAIN Tools \cup DOMAIN Prompts,
           NEW program \in Programs(t)
    PROVE  program \in Seq(StepsOf(t))
<1>1. CASE t \in DOMAIN Tools
  <2>1. Honest(Tools[t]) /\ program \in Tools[t].does
    BY <1>1, AllToolsAreHonest DEF HonestTools, Programs
  <2>2. CASE Tools[t].hints.readOnly
    <3>1. program \in Seq(ReadingSteps)
      BY <2>1, <2>2 DEF Honest
    <3>2. ReadingSteps \subseteq StepsOf(t)
      BY DEF ReadingSteps, KeepingSteps, FreshSteps, StepsOf
    <3>. QED  BY <3>1, <3>2
  <2>3. CASE ~Tools[t].hints.readOnly /\ ~Tools[t].hints.destructive
    <3>1. program \in Seq(KeepingSteps)
      BY <2>1, <2>3 DEF Honest
    <3>2. KeepingSteps \subseteq StepsOf(t)
      BY <1>1, <2>3 DEF KeepingSteps, FreshSteps, StepsOf
    <3>. QED  BY <3>1, <3>2
  <2>4. CASE ~Tools[t].hints.readOnly /\ Tools[t].hints.destructive
    <3>1. program \in Seq(GoodSteps)
      BY <2>1 DEF Honest
    <3>2. GoodSteps \subseteq StepsOf(t)
      BY <1>1, <2>4 DEF StepsOf
    <3>. QED  BY <3>1, <3>2
  <2>. QED  BY <2>2, <2>3, <2>4
<1>2. CASE t \notin DOMAIN Tools
  <2>1. program \in Seq(ReadingSteps)
    BY <1>2, AllPromptsRead DEF HonestPrompts, Programs
  <2>2. ReadingSteps \subseteq StepsOf(t)
    BY DEF ReadingSteps, KeepingSteps, FreshSteps, StepsOf
  <2>. QED  BY <2>1, <2>2
<1>. QED  BY <1>1, <1>2

\* So is the program that the guide of the prompt asks for; what it applies
\* has no name.
LEMMA GuideKeepsHints ==
    ASSUME NEW accepted \in BOOLEAN
    PROVE  /\ FollowTheGuide(accepted) \in Seq(StepsOf("resources_create_or_update"))
           /\ FollowTheGuide(accepted) \in Seq(FreshSteps)
           /\ \A i \in 1..Len(FollowTheGuide(accepted)) :
                 /\ FollowTheGuide(accepted)[i].method = "PATCH"
                 /\ FollowTheGuide(accepted)[i].named = FALSE
<1>1. <<buildStaticPipelineRun(accepted)>>
         \in Seq(RealKinds \X StepValues \X BOOLEAN)
  <2>1. "PipelineRun" \in RealKinds /\ {"accepted", "windows"} \subseteq StepValues
    BY DEF RealKinds, NamedKinds, StepValues
  <2>2. buildStaticPipelineRun(accepted) \in RealKinds \X StepValues \X BOOLEAN
    BY <2>1 DEF buildStaticPipelineRun
  <2>. QED  BY <2>2
<1>2. FollowTheGuide(accepted) \in Seq(KeepingSteps)
  BY <1>1, ApplySteps DEF FollowTheGuide
<1>3. KeepingSteps \subseteq StepsOf("resources_create_or_update")
  BY ApplyTool DEF KeepingSteps, FreshSteps, StepsOf, Destructive
<1>4. /\ FollowTheGuide(accepted) \in Seq(StepsOf("resources_create_or_update"))
      /\ FollowTheGuide(accepted) \in Seq(FreshSteps)
  BY <1>2, <1>3, ProgramsNest
<1>5. \A i \in 1..Len(FollowTheGuide(accepted)) :
         /\ FollowTheGuide(accepted)[i].method = "PATCH"
         /\ FollowTheGuide(accepted)[i].named = FALSE
  <2>. DEFINE objs    == <<buildStaticPipelineRun(accepted)>>
              made(i) == [Apply(objs[i][1], objs[i][2]) EXCEPT !.named = objs[i][3]]
  <2>1. FollowTheGuide(accepted) = [i \in 1..Len(objs) |-> made(i)]
    BY Zenon DEF FollowTheGuide, resourcesCreateOrUpdate
  <2>2. Len(objs) = 1 /\ objs[1][3] = FALSE
    BY DEF buildStaticPipelineRun
  <2>3. made(1).method = "PATCH" /\ made(1).named = objs[1][3]
    BY DEF Apply, Request
  <2>. HIDE DEF objs, made
  <2>. QED  BY <2>1, <2>2, <2>3
<1>. QED  BY <1>4, <1>5

\* What programs write back they hold.
LEMMA ProgramsHold ==
    ASSUME NEW t \in DOMAIN Tools \cup DOMAIN Prompts,
           NEW program \in Programs(t)
    PROVE  program \in Seq(FreshSteps) \/ Grounded(program)
<1>1. CASE t \in DOMAIN Tools
  <2>1. Honest(Tools[t]) /\ program \in Tools[t].does
    BY <1>1, AllToolsAreHonest DEF HonestTools, Programs
  <2>. QED  BY <2>1 DEF Honest
<1>2. CASE t \notin DOMAIN Tools
  <2>1. program \in Seq(ReadingSteps)
    BY <1>2, AllPromptsRead DEF HonestPrompts, Programs
  <2>. QED  BY <2>1, ProgramsNest, Zenon
<1>. QED  BY <1>1, <1>2

-----------------------------------------------------------------------------
(* The two tools that change an object over what they have read of it.     *)

OverwritingTools == {"vm_lifecycle", "resources_scale"}

\* All they do is to get objects and to update the ones they hold.
Careful(program) ==
    /\ Grounded(program)
    /\ \A i \in 1..Len(program) : program[i].method \in {"GET", "PUT"}

\* The programs of the lifecycle are careful.
LEMMA LifecycleIsCareful == \A program \in lifecycle : Careful(program)
<1>. DEFINE get     == GetVirtualMachine
            put(v)  == UpdateVirtualMachine(v)
            some(cond, v) == When(cond, put(v))
<1>1. /\ get.method = "GET" /\ get.kind = "VM" /\ get.named = TRUE
      /\ get.must = TRUE /\ get.when = "always"
  BY DEF GetVirtualMachine, Get, Request
<1>2. \A v : put(v).method = "PUT" /\ put(v).kind = "VM" /\ put(v).must = TRUE
  BY DEF UpdateVirtualMachine, Update, Request
<1>3. \A v, cond : some(cond, v).method = "PUT" /\ some(cond, v).kind = "VM"
  BY DEF When, UpdateVirtualMachine, Update, Request
<1>4. /\ StartVM = <<get, some("not-Always", "Always")>>
      /\ StopVM = <<get, some("not-Halted", "Halted")>>
      /\ RestartVM = <<get, put("Halted"), put("Always")>>
  BY Zenon DEF StartVM, StopVM, RestartVM
<1>. HIDE DEF get, put, some
<1>5. Careful(StartVM) /\ Careful(StopVM)
  BY <1>1, <1>3, <1>4 DEF Careful, Grounded, Holds
<1>6. Careful(RestartVM)
  BY <1>1, <1>2, <1>4 DEF Careful, Grounded, Holds
<1>7. Careful(<<Refuse>>)
  BY RefusedProgram DEF Careful
<1>. QED  BY <1>5, <1>6, <1>7 DEF lifecycle, Checked

\* And so are those of the scale.
LEMMA ScaleIsCareful == \A program \in resourcesScale : Careful(program)
<1>1. Careful(<<Refuse>>)
  BY RefusedProgram DEF Careful
<1>2. \A k \in Targets, s \in BOOLEAN : Careful(ResourcesScale(k, s))
  BY ScaleProgram DEF Careful
<1>. QED  BY <1>1, <1>2 DEF resourcesScale, Checked

\* These are the programs of the two tools.
LEMMA OverwritingToolsAreCareful ==
    ASSUME NEW t \in OverwritingTools, NEW program \in Programs(t)
    PROVE  Careful(program)
<1>. DEFINE first == PodsTools ++ PodsMoreTools ++ ResourcesTools
            second == first ++ ResourcesMoreTools
<1>1. CoreTools = second ++ NodesTools ++ EventsTools ++ NamespacesTools
  BY Zenon DEF CoreTools
<1>2. DOMAIN first = DOMAIN PodsTools \cup DOMAIN PodsMoreTools
                        \cup DOMAIN ResourcesTools
  BY DEF ++
<1>3. /\ DOMAIN second = DOMAIN first \cup DOMAIN ResourcesMoreTools
      /\ \A x \in DOMAIN ResourcesMoreTools \ DOMAIN first :
            second[x] = ResourcesMoreTools[x]
  <2>. HIDE DEF first
  <2>. QED  BY DEF ++
<1>. HIDE DEF first, second
<1>4. /\ DOMAIN CoreTools = DOMAIN second \cup DOMAIN NodesTools
                \cup DOMAIN EventsTools \cup DOMAIN NamespacesTools
      /\ \A x \in DOMAIN second : CoreTools[x] = second[x]
  BY <1>1 DEF ++
<1>5. CASE t = "resources_scale"
  <2>1. /\ t \in DOMAIN ResourcesMoreTools /\ t \notin DOMAIN first
        /\ ResourcesMoreTools[t].does = resourcesScale
    BY <1>2, <1>5 DEF ResourcesMoreTools, PodsTools, PodsMoreTools,
                      ResourcesTools, Tool
  <2>2. t \in DOMAIN CoreTools /\ CoreTools[t] = ResourcesMoreTools[t]
    BY <1>3, <1>4, <2>1
  <2>3. t \in DOMAIN Tools /\ Tools[t] = CoreTools[t]
    BY <2>2 DEF Tools, ++
  <2>4. Programs(t) = resourcesScale
    BY <2>1, <2>2, <2>3 DEF Programs
  <2>. QED  BY <2>4, ScaleIsCareful
<1>6. CASE t = "vm_lifecycle"
  <2>1. t \notin DOMAIN CoreTools
    BY <1>2, <1>3, <1>4, <1>6
       DEF PodsTools, PodsMoreTools, ResourcesTools, ResourcesMoreTools,
           NodesTools, EventsTools, NamespacesTools
  <2>2. /\ t \in DOMAIN LifecycleTools /\ t \notin DOMAIN CloneTools
        /\ t \notin DOMAIN CreateTools /\ t \notin DOMAIN GuestagentTools
        /\ LifecycleTools[t].does = lifecycle
    BY <1>6 DEF LifecycleTools, CloneTools, CreateTools, GuestagentTools, Tool
  <2>3. t \in DOMAIN KubevirtTools /\ KubevirtTools[t] = LifecycleTools[t]
    BY <2>2 DEF KubevirtTools, ++
  <2>4. t \in DOMAIN Tools /\ Tools[t] = KubevirtTools[t]
    BY <2>1, <2>3 DEF Tools, ++
  <2>5. Programs(t) = lifecycle
    BY <2>2, <2>3, <2>4 DEF Programs
  <2>. QED  BY <2>5, LifecycleIsCareful
<1>. QED  BY <1>5, <1>6 DEF OverwritingTools
=============================================================================
