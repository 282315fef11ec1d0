---------------------------- MODULE PluginToolsets ----------------------------
(***************************************************************************)
(* The tools and prompts of the toolsets helm, tekton, kiali, kcp and      *)
(* config (pkg/toolsets/..., pkg/helm, pkg/kiali, pkg/kcp), as programs of *)
(* requests.                                                               *)
(*                                                                         *)
(* Simplifications.                                                        *)
(*   - The Helm library is external: a release is a secret, and a chart is *)
(*     one deployment.                                                     *)
(*   - Kiali is one service: what an endpoint computes is not modelled.    *)
(***************************************************************************)
EXTENDS KubeAPI

-----------------------------------------------------------------------------
(* pkg/helm                                                                *)

\* validateChartReference: by the scheme, "" a repository of this machine,
\* and with an allow list only what is on it.
ChartAllowed(scheme, listed, allowList) ==
    /\ scheme \in {Empty, "oci", "https"}
    /\ allowList => scheme # Empty /\ listed

\* The name is taken if there is a release of it.
Install(manifest) ==
    << Try(List("Secret")), When("listed", Refuse), Create("Secret", "plain"),
       Create("Deployment", manifest), Update("Secret", "plain") >>

\* The program of an install, or an error before any request.
helmInstall ==
    Checked({IF ChartAllowed(scheme, listed, allowList)
             THEN Install(manifest) ELSE <<Refuse>>
               : scheme \in {Empty, "oci", "https", "http", "file", "other"},
                 listed \in BOOLEAN, allowList \in BOOLEAN,
                 manifest \in {"plain", "malformed"}})

helmList == Checked({<<List("Secret")>>, <<ListAll("Secret")>>})

\* A release that is not there is no error.
Uninstall == << List("Secret"), When("listed", Update("Secret", "plain")),
                When("listed", Delete("Deployment")),
                When("listed", Delete("Secret")) >>

helmUninstall == Checked({Uninstall})

HelmTools ==
    [ helm_install   |-> Tool(Additive, helmInstall),
      helm_list      |-> Tool(Reader, helmList),
      helm_uninstall |-> Tool(Destructive, helmUninstall) ]

-----------------------------------------------------------------------------
(* pkg/toolsets/tekton                                                     *)

\* Parameters are parsed after the pipeline or task has been found.
Start(definition, run) ==
    { << Get(definition), Create(run, "plain") >>,
      << Get(definition), Refuse >> }

\* A run of its own name with the same specification.
Restart(run) == << Get(run), Create(run, "same") >>

startPipeline      == Checked(Start("Pipeline", "PipelineRun"))
startTask          == Checked(Start("Task", "TaskRun"))
restartPipelineRun == Checked({Restart("PipelineRun")})
restartTaskRun     == Checked({Restart("TaskRun")})

\* Of every step and sidecar; an error is part of the answer.
collectContainerLogs == << Try(GetSub("Pod", "log")) >>

getTaskRunLogs ==
    Checked({ << Get("TaskRun") >>,
              << Get("TaskRun") >> \o collectContainerLogs,
              << Get("TaskRun") >> \o collectContainerLogs
                                   \o collectContainerLogs })

TektonTools ==
    [ tekton_pipeline_start      |-> Tool(Additive, startPipeline),
      tekton_pipelinerun_restart |-> Tool(Additive, restartPipelineRun),
      tekton_task_start          |-> Tool(Additive, startTask),
      tekton_taskrun_restart     |-> Tool(Additive, restartTaskRun),
      tekton_taskrun_logs        |-> Tool(Reader, getTaskRunLogs) ]

-----------------------------------------------------------------------------
(* pkg/toolsets/kiali: every tool is one request, whatever its arguments.  *)

ExecuteRequest(what) == {<<Kiali(what)>>}

workloadLogsHandler        == ExecuteRequest("read")
getMeshStatusHandler       == ExecuteRequest("read")
getMeshGraphHandler        == ExecuteRequest("read")
resourceMetricsHandler     == ExecuteRequest("read")
getPodPerformanceHandler   == ExecuteRequest("read")
tracesHandler              == ExecuteRequest("read")
listMeshClustersHandler    == ExecuteRequest("read")
listOrGetResourcesHandler  == ExecuteRequest("read")
listTracesHandler          == ExecuteRequest("read")
istioConfigHandlerRead     == ExecuteRequest("read")
istioConfigHandler         == ExecuteRequest("manage")

KialiTools ==
    [ kiali_get_logs                 |-> Tool(Reader, workloadLogsHandler),
      kiali_get_mesh_status          |-> Tool(Reader, getMeshStatusHandler),
      kiali_get_mesh_traffic_graph   |-> Tool(Reader, getMeshGraphHandler),
      kiali_get_metrics              |-> Tool(Reader, resourceMetricsHandler),
      kiali_get_pod_performance      |-> Tool(Reader, getPodPerformanceHandler),
      kiali_get_trace_details        |-> Tool(Reader, tracesHandler),
      kiali_list_mesh_clusters       |-> Tool(Reader, listMeshClustersHandler),
      kiali_list_or_get_resources    |-> Tool(Reader, listOrGetResourcesHandler),
      kiali_list_traces              |-> Tool(Reader, listTracesHandler),
      kiali_manage_istio_config_read |-> Tool(Reader, istioConfigHandlerRead),
      kiali_manage_istio_config      |-> Tool(Destructive, istioConfigHandler) ]

\* An error is part of the guide.
fetchKialiData == << Try(Kiali("read")) >>

\* "all" is looked up, a list of namespaces is taken as it is.
resolveNamespaces(all) == IF all THEN <<Kiali("read")>> ELSE <<>>

listIstioConfigHandler == {<<Kiali("read")>>}
listResourceHandler    == {<<Kiali("read")>>}
meshHealthCheckHandler == {<<Kiali("read")>>}

meshTopologyHandler ==
    {fetchKialiData \o resolveNamespaces(TRUE) \o fetchKialiData}

trafficTopologyHandler ==
    Checked({resolveNamespaces(all) \o <<Kiali("read")>> : all \in BOOLEAN})

serviceTroubleshootHandler == Checked({fetchKialiData \o fetchKialiData})
istioConfigReviewHandler   == Checked({fetchKialiData \o fetchKialiData})
traceAnalysisHandler       == Checked({fetchKialiData \o fetchKialiData})

KialiPrompts ==
    [ list_applications    |-> listResourceHandler,
      list_istio_config    |-> listIstioConfigHandler,
      list_namespaces      |-> listResourceHandler,
      list_services        |-> listResourceHandler,
      list_workloads       |-> listResourceHandler,
      mesh_health_check    |-> meshHealthCheckHandler,
      mesh_topology        |-> meshTopologyHandler,
      traffic_topology     |-> trafficTopologyHandler,
      service_troubleshoot |-> serviceTroubleshootHandler,
      trace_analysis       |-> traceAnalysisHandler,
      istio_config_review  |-> istioConfigReviewHandler ]

-----------------------------------------------------------------------------
(* pkg/toolsets/kcp and pkg/toolsets/config                                *)

\* Down the tree of workspaces; what cannot be listed is skipped.
DiscoverWorkspacesRecursive ==
    << Try(List("Workspace")), When("listed", Try(List("Workspace"))) >>

workspacesList    == {DiscoverWorkspacesRecursive}
workspaceDescribe == Checked({<<Get("Workspace")>>})

KcpTools ==
    [ kcp_workspaces_list    |-> Tool(Reader, workspacesList),
      kcp_workspace_describe |-> Tool(Reader, workspaceDescribe) ]

\* The kubeconfig is in memory: no request.
contextsList      == {<<>>}
targetsList       == {<<>>}
configurationView == Checked({<<>>})

ConfigurationTools ==
    [ configuration_contexts_list |-> Tool(Reader, contextsList),
      targets_list                |-> Tool(Reader, targetsList),
      configuration_view          |-> Tool(Reader, configurationView) ]
=============================================================================
