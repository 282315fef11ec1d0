----------------------------- MODULE CoreToolset -----------------------------
(***************************************************************************)
(* The tools and the prompt of the core toolset (pkg/toolsets/core) and    *)
(* the operations of pkg/kubernetes they are made of, as programs of       *)
(* requests.  Names that start with a small letter are handlers and tools, *)
(* the others operations of kubernetes.Core.                               *)
(***************************************************************************)
EXTENDS KubeAPI

CONSTANTS
    Targets,      \* kinds the resource tools are called for
    Documents     \* manifests: sequences of <<kind, value, it has a name>>

\* None of the words by which steps and paths mean something else.
IsKind(k) ==
    k \in STRING \ {"namespaces", "Absent", "EULA", "Kiali", "Review"}

ASSUME KindsAssumption ==
    /\ \A k \in Targets : IsKind(k)
    /\ \A d \in Documents :
          /\ d \in Seq(STRING \X STRING \X BOOLEAN)
          /\ \A i \in 1..Len(d) : IsKind(d[i][1])

-----------------------------------------------------------------------------
(* pkg/kubernetes/resources.go                                             *)

\* A list in every namespace is asked for only where a review grants it, and
\* made in the default namespace otherwise.  Errors of the review are no.
ResourcesList(k, all) ==
    IF ~Namespaced(k) THEN <<List(k)>>
    ELSE IF ~all THEN <<Try(Review), List(k)>>
    ELSE <<Try(Review), When("granted", ListAll(k)),
           When("not-granted", List(k))>>

ResourcesGet(k) == <<Get(k)>>

ResourcesDelete(k) == <<Delete(k)>>

\* The scale is written back as it was read, but for the replicas.
ResourcesScale(k, shouldScale) ==
    <<GetSub(k, "scale")>>
        \o (IF shouldScale THEN <<UpdateSub(k, "scale", "same")>> ELSE <<>>)

\* Server-side apply, by force, of one object after the other.
resourcesCreateOrUpdate(objs) ==
    [i \in 1..Len(objs) |->
        [Apply(objs[i][1], objs[i][2]) EXCEPT !.named = objs[i][3]]]

\* Every document is parsed before the first is applied.
ResourcesCreateOrUpdate ==
    Checked({resourcesCreateOrUpdate(d) : d \in Documents})

-----------------------------------------------------------------------------
(* pkg/kubernetes/pods.go                                                  *)

PodsListInAllNamespaces == ResourcesList("Pod", TRUE)
PodsListInNamespace     == ResourcesList("Pod", FALSE)
PodsGet                 == ResourcesGet("Pod")

\* What goes with a pod that this server has made, as the label says, is
\* removed before the pod, and errors of that do not matter.
PodsDelete ==
    << Get("Pod"),
       When("managed", Try(List("Service"))),
       When("listed", Try(Delete("Service"))),
       When("managed-routes", Try(List("Route"))),
       When("listed", Try(Delete("Route"))),
       Delete("Pod") >>

\* Without a container the pod says which.
PodsLog(container) ==
    (IF container THEN <<>> ELSE <<Get("Pod")>>) \o <<GetSub("Pod", "log")>>

\* A pod, and with a port a service, and a route where there are routes.
PodsRun(port) ==
    LET made(k, v) == Apply(k, v)
    IN IF port
       THEN << made("Pod", "managed"), made("Service", "managed"),
               When("routes", made("Route", "managed")) >>
       ELSE << made("Pod", "managed") >>

\* Fails where the metrics API is not served: an error of the request.
PodsTop(name) == IF name THEN <<Get("PodMetrics")>> ELSE <<List("PodMetrics")>>

\* Not in a completed pod.  The stream is opened by a GET.
PodsExec == << Get("Pod"), When("completed", Refuse), GetSub("Pod", "exec") >>

-----------------------------------------------------------------------------
(* pkg/kubernetes/nodes.go, events.go and namespaces.go                    *)

NodesLog          == << Get("Node"), GetSub("Node", "proxy") >>
NodesStatsSummary == << Get("Node"), GetSub("Node", "proxy") >>
NodesTop(name)    == IF name THEN <<Get("NodeMetrics")>>
                             ELSE <<List("NodeMetrics")>>
EventsList(all)   == ResourcesList("Event", all)
NamespacesList    == ResourcesList("Namespace", TRUE)
ProjectsList      == ResourcesList("Project", TRUE)

-----------------------------------------------------------------------------
(* Handlers: arguments are checked first.                                  *)

podsListInAllNamespaces == Checked({PodsListInAllNamespaces})
podsListInNamespace     == Checked({PodsListInNamespace})
podsGet                 == Checked({PodsGet})
podsDelete              == Checked({PodsDelete})
podsTop                 == Checked({PodsTop(name) : name \in BOOLEAN})
podsExec                == Checked({PodsExec})
podsLog                 == Checked({PodsLog(c) : c \in BOOLEAN})
podsRun                 == Checked({PodsRun(port) : port \in BOOLEAN})

resourcesList ==
    Checked({ResourcesList(k, all) : k \in Targets, all \in BOOLEAN})
resourcesGet    == Checked({ResourcesGet(k) : k \in Targets})
resourcesCreateOrUpdateTool == ResourcesCreateOrUpdate
resourcesDelete == Checked({ResourcesDelete(k) : k \in Targets})
resourcesScale  ==
    Checked({ResourcesScale(k, s) : k \in Targets, s \in BOOLEAN})

nodesLog          == Checked({NodesLog})
nodesStatsSummary == Checked({NodesStatsSummary})

\* The nodes are listed for what of them can be allocated.
nodesTop       == {NodesTop(name) \o <<List("Node")>> : name \in BOOLEAN}
eventsList     == Checked({EventsList(all) : all \in BOOLEAN})
namespacesList == Checked({NamespacesList})
projectsList   == {ProjectsList}

-----------------------------------------------------------------------------
(* The prompt cluster-health-check: a section that cannot be gathered is   *)
(* left out.  What the sections say is not modelled.                       *)

InScope(k, cluster) == Try(IF cluster THEN ListAll(k) ELSE List(k))

gatherEventDiagnostics(cluster) ==
    IF cluster
    THEN <<Try(List("Namespace")), Try(List("Event")), Try(List("Event"))>>
    ELSE <<Try(List("Event"))>>

gatherClusterOperatorDiagnostics ==
    [i \in 1..Len(ResourcesList("ClusterOperator", TRUE)) |->
        Try(ResourcesList("ClusterOperator", TRUE)[i])]

gatherClusterDiagnostics(cluster, checkEvents) ==
       << Try(List("Node")), InScope("Pod", cluster),
          InScope("Deployment", cluster), InScope("StatefulSet", cluster),
          InScope("DaemonSet", cluster), InScope("PVC", cluster) >>
    \o gatherClusterOperatorDiagnostics
    \o (IF checkEvents THEN gatherEventDiagnostics(cluster) ELSE <<>>)
    \o << Try(List("Namespace")) >>

\* A namespace that cannot be read: the whole cluster instead.
clusterHealthCheck ==
    LET diagnose(cluster) ==
            {gatherClusterDiagnostics(cluster, events) : events \in BOOLEAN}
    IN diagnose(TRUE)
         \cup {<<Try(Get("Namespace"))>> \o program
                  : program \in diagnose(TRUE) \cup diagnose(FALSE)}

-----------------------------------------------------------------------------
(* What the tools say of themselves.                                       *)

PodsTools ==
    [ pods_list              |-> Tool(Reader, podsListInAllNamespaces),
      pods_list_in_namespace |-> Tool(Reader, podsListInNamespace),
      pods_get               |-> Tool(Reader, podsGet),
      pods_delete            |-> Tool(Destructive, podsDelete) ]

PodsMoreTools ==
    [ pods_top  |-> Tool(Reader, podsTop),
      pods_exec |-> Tool(Destructive, podsExec),
      pods_log  |-> Tool(Reader, podsLog),
      pods_run  |-> Tool(Additive, podsRun) ]

ResourcesTools ==
    [ resources_list             |-> Tool(Reader, resourcesList),
      resources_get              |-> Tool(Reader, resourcesGet),
      resources_create_or_update |-> Tool(Destructive, resourcesCreateOrUpdateTool) ]

ResourcesMoreTools ==
    [ resources_delete |-> Tool(Destructive, resourcesDelete),
      resources_scale  |-> Tool(Destructive, resourcesScale) ]

NodesTools ==
    [ nodes_log           |-> Tool(Reader, nodesLog),
      nodes_stats_summary |-> Tool(Reader, nodesStatsSummary),
      nodes_top           |-> Tool(Reader, nodesTop) ]

EventsTools == [ events_list |-> Tool(Reader, eventsList) ]

NamespacesTools ==
    [ namespaces_list |-> Tool(Reader, namespacesList),
      projects_list   |-> Tool(Reader, projectsList) ]

CorePrompts == [ cluster_health_check |-> clusterHealthCheck ]
=============================================================================
