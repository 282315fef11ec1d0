---------------------------- MODULE VMResolution ----------------------------
(***************************************************************************)
(* How vm_create chooses the data source, the preference and the instance  *)
(* type of a virtual machine from what the cluster offers:                 *)
(* pkg/kubevirt/resources.go and buildTemplateParams of                    *)
(* pkg/toolsets/kubevirt/vm/create/tool.go.                                *)
(*                                                                         *)
(* Simplifications: names are in lower case, without spaces around them;   *)
(* Substrings says which hint is in which name, Families which performance *)
(* family a name starts with.                                              *)
(***************************************************************************)
EXTENDS KubeAPI

CONSTANTS
    Substrings,   \* pairs <<hint, name>>: the name contains the hint
    Families,     \* pairs <<family, name>>: the name starts with "family."
    Nothing       \* no data source, preference or instance type

Within(hint, name)   == <<hint, name>> \in Substrings
OfFamily(perf, name) == <<perf, name>> \in Families

\* What a loop over a list comes to first.
First(positions) == CHOOSE i \in positions : \A j \in positions : i <= j

\* The data sources that may be matched: any of the exact matches, or else
\* of the partial ones; which of them is the order of a Go map.
MatchDataSource(dataSources, workload) ==
    LET exact   == {d \in dataSources : d.name = workload}
        partial == {d \in dataSources : Within(workload, d.name)}
    IN IF exact # {} THEN exact
       ELSE IF partial # {} THEN partial
       ELSE {Nothing}

\* The positions of the instance types of a size.
FilterInstancetypesBySize(instancetypes, size) ==
    {i \in 1..Len(instancetypes) : Within(size, instancetypes[i].name)}

\* Mutant: the first of the size, whatever the performance.
MutantMatchInstancetypeBySize(instancetypes, size, perf) ==
    LET candidates == FilterInstancetypesBySize(instancetypes, size)
    IN IF candidates = {} THEN Empty ELSE instancetypes[First(candidates)].name

\* By the family in the name, by the class of the label, or the first.
MatchInstancetypeBySize(instancetypes, size, perf) ==
    LET candidates == FilterInstancetypesBySize(instancetypes, size)
        byName  == {i \in candidates : OfFamily(perf, instancetypes[i].name)}
        byLabel == {i \in candidates : instancetypes[i].class = perf}
        matched == IF byName # {} THEN byName
                   ELSE IF byLabel # {} THEN byLabel
                   ELSE candidates
    IN IF candidates = {} THEN Empty ELSE instancetypes[First(matched)].name

\* The first of this name; of the cluster's scope if it is not listed.
Named(infos, name) ==
    LET found == {i \in 1..Len(infos) : infos[i].name = name}
    IN IF found # {} THEN infos[First(found)]
       ELSE [name |-> name, namespace |-> Empty, class |-> Empty]

ResolvePreference(preferences, explicit, workload, dataSource) ==
    LET fitting == {i \in 1..Len(preferences) :
                       Within(workload, preferences[i].name)}
    IN IF explicit # Empty THEN Named(preferences, explicit)
       ELSE IF dataSource # Nothing /\ dataSource.preference # Empty
            THEN Named(preferences, dataSource.preference)
       ELSE IF fitting # {} THEN preferences[First(fitting)]
       ELSE Nothing

ResolveInstancetype(instancetypes, explicit, size, perf, dataSource) ==
    LET bySize == MatchInstancetypeBySize(instancetypes, size, perf)
    IN IF explicit # Empty THEN Named(instancetypes, explicit)
       ELSE IF /\ size = Empty
               /\ dataSource # Nothing /\ dataSource.instancetype # Empty
            THEN Named(instancetypes, dataSource.instancetype)
       ELSE IF size # Empty /\ bySize # Empty THEN Named(instancetypes, bySize)
       ELSE Nothing

\* The machine that is asked for: what it refers to.  A disk of a matched
\* data source, or a container image made from the workload's name.
buildTemplateParams(args, dataSource, instancetype, preference) ==
    [ instancetype |-> instancetype, preference |-> preference,
      disk |-> IF dataSource # Nothing THEN dataSource.name ELSE args.workload ]

\* create: what comes of the lists, as far as they could be had.
create(args, dataSources, preferences, instancetypes) ==
    {buildTemplateParams(args, d,
        ResolveInstancetype(instancetypes, args.instancetype, args.size,
                            args.performance, d),
        ResolvePreference(preferences, args.preference, args.workload, d))
       : d \in MatchDataSource(dataSources, args.workload)}
=============================================================================
