---------------------------- MODULE AccessControl ----------------------------
(***************************************************************************)
(* What stands between a handler and the API server: the round tripper of  *)
(* pkg/kubernetes/accesscontrol_round_tripper.go, its validators and the   *)
(* confirmation rules of pkg/confirmation.                                 *)
(*                                                                         *)
(* A path is the sequence of its segments.  The settings are a record:     *)
(*   prefix      path of the API server's URL                              *)
(*   denied      set of [group, kind], kind "" for all of a group          *)
(*   rules       set of confirmation rules, "" for a field left empty,     *)
(*               destructive "true", "false" or ""                         *)
(*   fallback    "allow" or "deny"                                         *)
(*   validation  validation_enabled                                        *)
(*   client      "none" no session, "unsupported" cannot ask its user,     *)
(*               "supports" asks                                           *)
(*                                                                         *)
(* Simplifications: one version of every group; the REST mapper knows      *)
(* exactly what the API server serves, or cannot be had; the schema's      *)
(* cache of fifteen minutes is never stale.                                *)
(***************************************************************************)
EXTENDS KubeAPI, SequencesExt

-----------------------------------------------------------------------------
(* What the path says.                                                     *)

StripAPIPathPrefix(path, prefix) ==
    IF IsPrefix(prefix, path) THEN SubSeq(path, Len(prefix) + 1, Len(path))
                              ELSE path

\* Where the root ends: after the version.
Root(path) == IF path[1] = "api" THEN 2 ELSE 3

\* Mutant: what is in a namespace is taken for the namespace.
MutantFindResourceTypeIndex(path) == Root(path) + 1

\* A request about a namespace itself is told from one in a namespace by
\* what follows the namespace's name.
FindResourceTypeIndex(path) ==
    IF path[Root(path) + 1] = "namespaces" /\ Len(path) > Root(path) + 2
    THEN Root(path) + 3
    ELSE Root(path) + 1

ParseURLToGVR(path) ==
    [group    |-> IF path[1] = "api" THEN Empty ELSE path[2],
     resource |-> path[FindResourceTypeIndex(path)]]

ParseURLToNamespaceAndName(path) ==
    LET at == FindResourceTypeIndex(path)
        namespaces == {i \in 1..Len(path) - 1 : path[i] = "namespaces"}
    IN [namespace |-> IF namespaces = {} THEN Empty
                      ELSE path[1 + CHOOSE i \in namespaces :
                                  \A j \in namespaces : i <= j],
        name      |-> IF at < Len(path) THEN path[at + 1] ELSE Empty]

IsCollectionPath(path) == FindResourceTypeIndex(path) = Len(path)

HttpMethodToVerb(method, path) ==
    CASE method = "GET"    -> IF IsCollectionPath(path) THEN "list" ELSE "get"
      [] method = "POST"   -> "create"
      [] method = "PUT"    -> "update"
      [] method = "PATCH"  -> "patch"
      [] method = "DELETE" -> IF IsCollectionPath(path) THEN "deletecollection"
                                                        ELSE "delete"

\* What the validators are asked about.
ValidationRequest(request, settings) ==
    LET path == StripAPIPathPrefix(settings.prefix \o request.path,
                                   settings.prefix)
        gvr  == ParseURLToGVR(path)
        id   == ParseURLToNamespaceAndName(path)
    IN [group |-> gvr.group,
        kind  |-> IF gvr.resource = "namespaces" THEN "Namespace"
                                                 ELSE gvr.resource,
        verb  |-> HttpMethodToVerb(request.method, path),
        namespace |-> id.namespace, name |-> id.name, value |-> request.value]

-----------------------------------------------------------------------------
(* The list of what is denied.                                             *)

\* Mutant: a group is not denied as a whole.
MutantIsAllowed(req, denied) ==
    [group |-> req.group, kind |-> req.kind] \notin denied

IsAllowed(req, denied) ==
    /\ [group |-> req.group, kind |-> Empty] \notin denied
    /\ [group |-> req.group, kind |-> req.kind] \notin denied

-----------------------------------------------------------------------------
(* Confirmation.                                                           *)

IsToolLevel(rule) == rule.tool # Empty \/ rule.destructive # Empty

MatchToolLevelRules(rules, tool, destructive) ==
    {r \in rules : /\ IsToolLevel(r)
                   /\ r.tool \in {Empty, tool}
                   /\ r.destructive \in {Empty, destructive}}

MatchKubeLevelRules(rules, req) ==
    {r \in rules : /\ ~IsToolLevel(r)
                   /\ r.verb \in {Empty, req.verb}
                   /\ r.kind \in {Empty, req.kind}
                   /\ r.group \in {Empty, req.group}
                   /\ r.name \in {Empty, req.name}
                   /\ r.namespace \in {Empty, req.namespace}}

\* How a question ends: the request may pass, the user was asked.
Passes   == [pass |-> TRUE,  asked |-> FALSE]
Stops    == [pass |-> FALSE, asked |-> FALSE]
Accepted == [pass |-> TRUE,  asked |-> TRUE]
Declined == [pass |-> FALSE, asked |-> TRUE]

\* However many rules match, one question.
CheckConfirmation(settings) ==
    CASE settings.client = "none"        -> {Stops}
      [] settings.client = "unsupported" ->
            {IF settings.fallback = "deny" THEN Stops ELSE Passes}
      [] settings.client = "supports"    -> {Accepted, Declined}

CheckToolRules(settings, tool, destructive) ==
    IF MatchToolLevelRules(settings.rules, tool, destructive) = {}
    THEN {Passes} ELSE CheckConfirmation(settings)

ConfirmationValidator(req, settings) ==
    IF MatchKubeLevelRules(settings.rules, req) = {}
    THEN {Passes} ELSE CheckConfirmation(settings)

-----------------------------------------------------------------------------
(* The licence of Windows: a run of its installer's pipeline that does not *)
(* say that the licence is accepted.                                       *)

PromptForEULA(settings) ==
    IF settings.client = "supports" THEN {Accepted, Declined} ELSE {Stops}

\* Mutant: a server-side apply is overlooked.
MutantWindowsEULAValidator(req, settings) ==
    IF /\ req.verb \in {"create", "update"}
       /\ req.group = "tekton.dev" /\ req.kind = "PipelineRun"
       /\ req.value = "windows"
    THEN PromptForEULA(settings) ELSE {Passes}

WindowsEULAValidator(req, settings) ==
    IF /\ req.verb \in {"create", "update", "patch"}
       /\ req.group = "tekton.dev" /\ req.kind = "PipelineRun"
       /\ req.value = "windows"
    THEN PromptForEULA(settings) ELSE {Passes}

-----------------------------------------------------------------------------
(* Validation that is configured.  What the roles grant is a set of        *)
(* <<verb, kind, sub>> that are forbidden; the review does not name a      *)
(* subresource, and one that fails lets the request pass.                  *)

RBACValidator(req, forbidden) ==
    {Passes, IF <<req.verb, req.kind, Empty>> \in forbidden THEN Stops ELSE Passes}

\* A schema that cannot be had lets the request pass.
SchemaValidator(req) ==
    {Passes, IF req.verb \in {"create", "update"} /\ req.value = "malformed"
             THEN Stops ELSE Passes}

\* Mutant: the user is asked first.
MutantValidators(settings) ==
       (IF settings.rules # {} THEN <<"confirmation">> ELSE <<>>)
    \o (IF settings.validation THEN <<"rbac", "schema">> ELSE <<>>)
    \o <<"eula">>

\* In this order.
Validators(settings) ==
       (IF settings.validation THEN <<"rbac", "schema">> ELSE <<>>)
    \o (IF settings.rules # {} THEN <<"confirmation">> ELSE <<>>)
    \o <<"eula">>

Validate(validator, req, settings, forbidden) ==
    CASE validator = "rbac"         -> RBACValidator(req, forbidden)
      [] validator = "schema"       -> SchemaValidator(req)
      [] validator = "confirmation" -> ConfirmationValidator(req, settings)
      [] validator = "eula"         -> WindowsEULAValidator(req, settings)
=============================================================================
