------------------------- MODULE MCClusterOperations -------------------------
(***************************************************************************)
(* An instance of ClusterOperations: one call of any tool or prompt, next  *)
(* to one change by somebody else.                                         *)
(***************************************************************************)
EXTENDS ClusterOperations

CONSTANTS c1, nothing

MCCallers == {c1}
MCRepertoire == [c \in MCCallers |-> DOMAIN Tools \cup DOMAIN Prompts]

MCTargets == {"Pod", "Secret", "Deployment", "Namespace", "Typo"}
MCDocuments ==
    { <<<<"Deployment", "plain", TRUE>>>>,
      <<<<"PipelineRun", "windows", TRUE>>, <<"Secret", "plain", TRUE>>>> }
MCUnserved == {"Typo", "Project", "ClusterOperator", "scale"}

MCTracked == {"Pod", "VM", "PipelineRun", "Deployment"}
MCValues == [Pod |-> {"managed", "foreign"}, VM |-> {"Always", "Halted"},
             PipelineRun |-> {"windows", "plain"}, Deployment |-> {"plain"}]
MCBeginnings ==
    { [Pod |-> "managed", VM |-> "Always", PipelineRun |-> "windows",
       Deployment |-> "plain"],
      [Pod |-> "foreign", VM |-> "Halted", PipelineRun |-> "plain",
       Deployment |-> ""] }

Rule(verb, kind, name, namespace) ==
    [tool |-> "", destructive |-> "", verb |-> verb, kind |-> kind,
     group |-> "", name |-> name, namespace |-> namespace]

SomeRules == { Rule("list", "Pod", "", "ns"), Rule("delete", "", "name", ""),
               Rule("update", "", "", ""), Rule("create", "", "", "ns"),
               Rule("get", "Namespace", "", ""),
               [Rule("", "", "", "") EXCEPT !.destructive = "true"],
               [Rule("", "", "", "") EXCEPT !.tool = "pods_log"] }

Plain == [prefix |-> <<>>, denied |-> {}, rules |-> {}, fallback |-> "allow",
          validation |-> FALSE, client |-> "supports", readOnly |-> FALSE,
          disableDestructive |-> FALSE]
Guarded == [Plain EXCEPT !.prefix = <<"k8s", "east">>,
              !.denied = {[group |-> "", kind |-> "Secret"],
                          [group |-> "other", kind |-> ""]},
              !.rules = SomeRules, !.fallback = "deny", !.validation = TRUE]
MCSettings ==
    { Plain, Guarded,
      [Plain EXCEPT !.rules = SomeRules, !.client = "unsupported"],
      [Guarded EXCEPT !.client = "unsupported"],
      [Guarded EXCEPT !.client = "none"],
      [Plain EXCEPT !.readOnly = TRUE],
      [Plain EXCEPT !.disableDestructive = TRUE] }
MCRoles == { {}, { <<"update", "VM", "">>, <<"list", "Pod", "">>,
                   <<"get", "Deployment", "">>, <<"create", "PipelineRun", "">> } }

It(name, namespace, class) ==
    [name |-> name, namespace |-> namespace, class |-> class]
MCCatalogue ==
    [ DataSource |->
        << [name |-> "rhel", namespace |-> "openshift-virtualization-os-images",
            instancetype |-> "u1.medium", preference |-> "rhel"],
           [name |-> "rhel9", namespace |-> "ns",
            instancetype |-> "", preference |-> ""] >>,
      ClusterPreference |-> << It("rhel", "", "") >>,
      Preference |-> << It("rhel9", "ns", "") >>,
      ClusterInstancetype |-> << It("u1.medium", "", "general"),
                                 It("u1.large", "", "general") >>,
      Instancetype |-> << It("c1.large", "ns", "compute"),
                          It("u1.large", "ns", "memory") >> ]
MCSubstrings == { <<"large", "u1.large">>, <<"large", "c1.large">>,
                  <<"medium", "u1.medium">>, <<"rhel", "rhel">>,
                  <<"rhel", "rhel9">>, <<"rhel9", "rhel9">> }
MCFamilies == { <<"u1", "u1.large">>, <<"u1", "u1.medium">>,
                <<"c1", "c1.large">> }
MCVMArguments ==
    { [NoArguments EXCEPT !.workload = "rhel", !.size = "large",
                          !.performance = "c1"],
      [NoArguments EXCEPT !.workload = "rhel9", !.instancetype = "u1.large",
                          !.performance = "u1"],
      [NoArguments EXCEPT !.workload = "fedora", !.size = "medium",
                          !.performance = "c1"] }
=============================================================================
