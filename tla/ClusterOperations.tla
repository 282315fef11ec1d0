-------------------------- MODULE ClusterOperations --------------------------
(***************************************************************************)
(* Calls of tools and prompts against a cluster: the programs of the       *)
(* toolsets are carried out request by request through the access control  *)
(* of module AccessControl, while others change the cluster.               *)
(*                                                                         *)
(* A call picks a tool that its server offers and one of its programs.     *)
(* Every step of it is taken or skipped (When), is refused on the way, or  *)
(* is served by the API server, which may fail it.                         *)
(*                                                                         *)
(* Simplifications.                                                        *)
(*   - One object of every kind of Tracked is followed, with its resource  *)
(*     version; of the other kinds nothing is remembered.                  *)
(*   - A POST names its object anew and touches none that is followed.     *)
(*   - Arguments, answers and the wording of results are not modelled.     *)
(*   - The configuration does not change during a call: the round tripper  *)
(*     has the one the manager was made from.                              *)
(***************************************************************************)
EXTENDS KubevirtToolset, VMResolution, PluginToolsets, AccessControl

CONSTANTS
    Callers,      \* calls under way
    Repertoire,   \* [Callers -> set of tools and prompts]
    Settings,     \* settings of the server, see module AccessControl; and
                  \* readOnly, disableDestructive
    Roles,        \* sets of forbidden <<verb, kind, subresource>>
    Unserved,     \* kinds the API server does not serve
    Tracked,      \* kinds of which an object is followed
    Values,       \* [Tracked -> what an object of the kind may be]
    Beginnings,   \* [Tracked -> values], what there is at first
    Catalogue,    \* what vm_create can list: [kind -> sequence]
    MaxChanges    \* changes made by others

ASSUME SettingsAssumption ==
    \A s \in Settings :
       /\ s.prefix \in Seq(STRING)
       /\ s.client \in {"none", "unsupported", "supports"}

\* No core resource is named like a subresource of namespaces, whose path
\* reads as that of a resource of the name.
ASSUME SubresourcesAssumption == "scale" \in Unserved

VARIABLES
    settings,   \* what the server and its access control are configured with
    roles,      \* what the credentials may not do
    objects,    \* [Tracked -> [rev, value]], value Empty while it does not exist
    changes,    \* changes others have made
    calls       \* [Callers -> call]

vars == <<settings, roles, objects, changes, calls>>

-----------------------------------------------------------------------------
(* Tools that are offered.                                                 *)

CoreTools == PodsTools ++ PodsMoreTools ++ ResourcesTools ++ ResourcesMoreTools
                ++ NodesTools ++ EventsTools ++ NamespacesTools

KubevirtTools == CloneTools ++ CreateTools ++ GuestagentTools ++ LifecycleTools

Tools == CoreTools ++ KubevirtTools ++ HelmTools ++ TektonTools ++ KialiTools
            ++ KcpTools ++ ConfigurationTools

Prompts == CorePrompts ++ KialiPrompts ++ VMTroubleshootPrompts
              ++ GoldenImagePrompts

\* Mutant: the second option is not looked at.
MutantIsToolApplicable(tool) == settings.readOnly => tool.hints.readOnly

\* Hints decide which tools there are; prompts are always there.
IsToolApplicable(tool) ==
    /\ settings.readOnly => tool.hints.readOnly
    /\ settings.disableDestructive => ~tool.hints.destructive

Offered == {t \in DOMAIN Tools : IsToolApplicable(Tools[t])} \cup DOMAIN Prompts

DestructiveHint(t) == IF Tools[t].hints.destructive THEN "true" ELSE "false"

Programs(t) == IF t \in DOMAIN Tools THEN Tools[t].does ELSE Prompts[t]

\* What a step makes of an object that is followed is one of its values, or
\* what was read of it.
Fits(step) ==
    step.kind \in Tracked =>
       /\ step.method = "PATCH" /\ step.named => step.value \in Values[step.kind]
       /\ step.method = "PUT" => step.value \in Values[step.kind] \cup {"same"}

ASSUME ChangesAssumption == MaxChanges \in Nat

\* An object can be what it is at first, and whatever a program makes of it.
ASSUME ValuesAssumption ==
    /\ \A k \in Tracked :
          /\ "same" \notin Values[k]
          /\ \A start \in Beginnings : start[k] \in Values[k] \cup {Empty}
    /\ \A t \in DOMAIN Tools \cup DOMAIN Prompts :
          \A program \in Programs(t) :
             \A i \in 1..Len(program) : Fits(program[i])

\* An instance type that is listed has a name.
ASSUME CatalogueAssumption ==
    \A k \in DOMAIN Catalogue :
       /\ k \in {"DataSource", "ClusterPreference", "Preference",
                 "ClusterInstancetype", "Instancetype"}
       /\ Catalogue[k] \in Seq(ToSet(Catalogue[k]))
       /\ \A info \in ToSet(Catalogue[k]) : info # Nothing /\ info.name # Empty

-----------------------------------------------------------------------------
(* A call: the steps it still has, and what it remembers of the answers.   *)

NoObject == [kind |-> Empty, rev |-> 0, value |-> Empty]
NoOffer  == [dataSources |-> {}, preferences |-> <<>>, instancetypes |-> <<>>]

Idle == [tool |-> Empty, todo |-> <<>>, phase |-> "idle", outcome |-> Empty,
         checks |-> <<>>, asked |-> {}, unsure |-> FALSE,
         read |-> NoObject, listed |-> FALSE, granted |-> FALSE,
         answered |-> FALSE, info |-> FALSE, offer |-> NoOffer, vm |-> Nothing,
         confirmed |-> FALSE]

\* A tool is looked at by the rules of confirmation first, a prompt is not.
Begun(t, program) ==
    [Idle EXCEPT !.tool = t, !.todo = program,
                 !.phase = IF t \in DOMAIN Tools THEN "called" ELSE "next"]

Ended(call, outcome) == [Idle EXCEPT !.tool = call.tool, !.phase = "done",
                                     !.outcome = outcome]

Popped(call) == [call EXCEPT !.todo = Tail(@), !.phase = "next",
                             !.checks = <<>>, !.asked = {}, !.unsure = FALSE,
                             !.vm = Nothing]

\* The request of a call: "same" is what it has read.
Current(call) ==
    LET step == Head(call.todo)
    IN IF step.value = "same" THEN [step EXCEPT !.value = call.read.value]
                              ELSE step

IsList(step) == step.method = "GET" /\ ~step.named

\* An error ends the call, or the step.
Failed(call) ==
    LET step == Head(call.todo)
        on   == IF step.kind = "Review" THEN [call EXCEPT !.granted = FALSE]
                ELSE [call EXCEPT !.answered = FALSE,
                                  !.listed = @ /\ ~IsList(step)]
    IN IF step.must THEN Ended(call, "error") ELSE Popped(on)

-----------------------------------------------------------------------------

\* What the variables hold; validators that are run and that have asked are
\* those of the configuration.
TypeOK ==
    /\ settings \in Settings
    /\ roles \in Roles
    /\ changes \in 0..MaxChanges
    /\ \A k \in Tracked : /\ objects[k].rev \in Nat
                          /\ objects[k].value \in Values[k] \cup {Empty}
    /\ \A c \in Callers :
          /\ calls[c].tool \in Offered \cup {Empty}
          /\ calls[c].phase \in {"idle", "called", "next", "checking", "sent",
                                 "done"}
          /\ calls[c].outcome \in {Empty, "ok", "accepted", "windows", "error",
                                   "nameless"}
          /\ calls[c].phase \in {"checking", "sent"} => calls[c].todo # <<>>
          /\ ToSet(calls[c].checks) \subseteq ToSet(Validators(settings))
          /\ calls[c].asked \subseteq ToSet(Validators(settings))

Init ==
    /\ settings \in Settings
    /\ roles \in Roles
    /\ \E start \in Beginnings :
          objects = [k \in Tracked |-> [rev |-> 1, value |-> start[k]]]
    /\ changes = 0
    /\ calls = [c \in Callers |-> Idle]

Now(c, call) == calls' = [calls EXCEPT ![c] = call]

Call(c) ==
    /\ calls[c].phase = "idle"
    /\ \E t \in Offered \cap Repertoire[c] :
          \E program \in Programs(t) : Now(c, Begun(t, program))
    /\ UNCHANGED <<settings, roles, objects, changes>>

\* A refusal is the result of the call.
ConfirmTool(c) ==
    /\ calls[c].phase = "called"
    /\ \E answer \in CheckToolRules(settings, calls[c].tool,
                                    DestructiveHint(calls[c].tool)) :
          Now(c, IF ~answer.pass THEN Ended(calls[c], "error")
                 ELSE [calls[c] EXCEPT !.phase = "next",
                                       !.confirmed = answer.asked])
    /\ UNCHANGED <<settings, roles, objects, changes>>

\* Mutant: with a tool that is not offered.
MutantCallAsTheGuideSays(c) ==
    /\ calls[c].phase = "done"
    /\ calls[c].outcome \in {"accepted", "windows"}
    /\ Now(c, Begun("resources_create_or_update",
                    FollowTheGuide(calls[c].outcome = "accepted")))
    /\ UNCHANGED <<settings, roles, objects, changes>>

\* The user does what the guide of the prompt says.
CallAsTheGuideSays(c) ==
    /\ calls[c].phase = "done"
    /\ calls[c].outcome \in {"accepted", "windows"}
    /\ "resources_create_or_update" \in Offered
    /\ Now(c, Begun("resources_create_or_update",
                    FollowTheGuide(calls[c].outcome = "accepted")))
    /\ UNCHANGED <<settings, roles, objects, changes>>

-----------------------------------------------------------------------------
(* The handler.                                                            *)

\* Whether a step is taken; what a pod or a machine does besides what is
\* followed of it can be either.
Taken(call) ==
    LET cond == Head(call.todo).when
    IN CASE cond \in {"always", "refused"}   -> {TRUE}
         [] cond = "granted"                 -> {call.granted}
         [] cond = "not-granted"             -> {~call.granted}
         [] cond = "listed"                  -> {call.listed}
         [] cond = "answered"                -> {call.answered}
         [] cond = "no-info"                 -> {~call.info}
         [] cond = "managed"                 -> {call.read.value = "managed"}
         [] cond = "routes"                  -> {"Route" \notin Unserved}
         [] cond = "managed-routes"          ->
               {call.read.value = "managed" /\ "Route" \notin Unserved}
         [] cond = "not-Always"              -> {call.read.value # "Always"}
         [] cond = "not-Halted"              -> {call.read.value # "Halted"}
         [] cond \in {"completed", "not-running"} -> BOOLEAN

AtStep(c) == calls[c].phase = "next" /\ calls[c].todo # <<>>

Skip(c) ==
    /\ AtStep(c)
    /\ FALSE \in Taken(calls[c])
    /\ Now(c, [Popped(calls[c]) EXCEPT
                  !.listed = @ /\ ~IsList(Head(calls[c].todo))])
    /\ UNCHANGED <<settings, roles, objects, changes>>

Finish(c) ==
    /\ calls[c].phase = "next"
    /\ calls[c].todo = <<>>
    /\ Now(c, Ended(calls[c], "ok"))
    /\ UNCHANGED <<settings, roles, objects, changes>>

\* The handler returns an error of its own.
Reject(c) ==
    /\ AtStep(c)
    /\ TRUE \in Taken(calls[c])
    /\ Head(calls[c].todo).kind = "Absent"
    /\ Now(c, Ended(calls[c], "error"))
    /\ UNCHANGED <<settings, roles, objects, changes>>

\* The client library refuses to apply an object without a name.
RejectNameless(c) ==
    /\ AtStep(c)
    /\ Head(calls[c].todo).method = "PATCH"
    /\ ~Head(calls[c].todo).named
    /\ Now(c, Ended(calls[c], "nameless"))
    /\ UNCHANGED <<settings, roles, objects, changes>>

\* The prompt asks for the licence: what it answers is a guide, or that
\* nothing is made.  Without a session the error is the prompt's.
AskForTheLicence(c) ==
    /\ AtStep(c)
    /\ Head(calls[c].todo).kind = "EULA"
    /\ \E outcome \in CASE settings.client = "supports" -> {"accepted", "ok"}
                        [] settings.client = "unsupported" -> {"windows"}
                        [] settings.client = "none" -> {"error"} :
          Now(c, Ended(calls[c], outcome))
    /\ UNCHANGED <<settings, roles, objects, changes>>

\* vm_create chooses what the machine refers to when it has seen the lists.
Chosen(call) ==
    LET args == Head(call.todo).args
    IN IF args = NoArguments THEN {Nothing}
       ELSE create(args, call.offer.dataSources, call.offer.preferences,
                   call.offer.instancetypes)

-----------------------------------------------------------------------------
(* The round tripper.                                                      *)

\* What the path of a request names must be served and not be denied.
Send(c) ==
    LET call == calls[c]
        step == Current(call)
        req  == ValidationRequest(step, settings)
    IN /\ AtStep(c)
       /\ TRUE \in Taken(call)
       /\ step.kind \notin {"Absent", "EULA"}
       /\ step.method = "PATCH" => step.named
       /\ IF step.kind = "Kiali" THEN Now(c, [call EXCEPT !.phase = "sent"])
          ELSE IF req.kind \in Unserved \/ ~IsAllowed(req, settings.denied)
          THEN Now(c, Failed(call))
          ELSE IF step.kind = "Review" THEN Now(c, [call EXCEPT !.phase = "sent"])
          ELSE \E vm \in Chosen(call) :
                  Now(c, [call EXCEPT !.phase = "checking", !.vm = vm,
                                      !.checks = Validators(settings)])
       /\ UNCHANGED <<settings, roles, objects, changes>>

\* One validator after the other; one that asks waits for the user.
Check(c) ==
    LET call == calls[c]
        req  == ValidationRequest(Current(call), settings)
        v    == Head(call.checks)
    IN /\ call.phase = "checking"
       /\ call.checks # <<>>
       /\ \E answer \in Validate(v, req, settings, roles) :
             Now(c, IF ~answer.pass THEN Failed(call)
                    ELSE [call EXCEPT
                            !.checks = Tail(@),
                            !.asked  = IF answer.asked THEN @ \cup {v} ELSE @,
                            !.unsure = \/ @
                                       \/ /\ v = "rbac"
                                          /\ <<req.verb, req.kind, Empty>> \in roles])
       /\ UNCHANGED <<settings, roles, objects, changes>>

Delegate(c) ==
    /\ calls[c].phase = "checking"
    /\ calls[c].checks = <<>>
    /\ Now(c, [calls[c] EXCEPT !.phase = "sent"])
    /\ UNCHANGED <<settings, roles, objects, changes>>

-----------------------------------------------------------------------------
(* The API server.                                                         *)

\* What a request is to the roles.
Verb(step) ==
    CASE step.method = "GET"    -> IF step.named THEN "get" ELSE "list"
      [] step.method = "POST"   -> "create"
      [] step.method = "PUT"    -> "update"
      [] step.method = "PATCH"  -> "patch"
      [] step.method = "DELETE" -> "delete"

Permitted(step) == <<Verb(step), step.kind, step.sub>> \notin roles

Served(c) == calls[c].phase = "sent" /\ Permitted(Head(calls[c].todo))

Answered(call) == [Popped(call) EXCEPT !.answered = TRUE]

ServeFailure(c) ==
    /\ calls[c].phase = "sent"
    /\ Now(c, Failed(calls[c]))
    /\ UNCHANGED <<settings, roles, objects, changes>>

\* What a call remembers of an object.
AsRead(k, object) ==
    [kind |-> k, rev |-> object.rev, value |-> object.value]

ServeGet(c) ==
    LET call == calls[c]
        step == Current(call)
        k    == step.kind
    IN /\ Served(c) /\ step.method = "GET" /\ step.named
       /\ k \in Tracked => objects[k].value # Empty
       /\ Now(c, [Answered(call) EXCEPT
                    !.read = IF k \in Tracked THEN AsRead(k, objects[k])
                             ELSE @,
                    !.info = @ \/ k = "GuestAgent"])
       /\ UNCHANGED <<settings, roles, objects, changes>>

\* What the lists of vm_create find; of data sources those in a namespace.
Found(offer, step) ==
    LET found == Catalogue[step.kind]
    IN CASE step.kind = "DataSource" ->
              [offer EXCEPT !.dataSources = @ \cup
                 {d \in ToSet(found) : step.value \in {"all", d.namespace}}]
         [] step.kind \in {"ClusterPreference", "Preference"} ->
              [offer EXCEPT !.preferences = @ \o found]
         [] step.kind \in {"ClusterInstancetype", "Instancetype"} ->
              [offer EXCEPT !.instancetypes = @ \o found]

ServeList(c) ==
    LET call == calls[c]
        step == Current(call)
    IN /\ Served(c) /\ IsList(step)
       /\ \E some \in BOOLEAN :
             /\ step.kind \in DOMAIN Catalogue => some
             /\ Now(c, [Answered(call) EXCEPT
                          !.listed = some,
                          !.offer = IF step.kind \in DOMAIN Catalogue
                                    THEN Found(@, step) ELSE @])
       /\ UNCHANGED <<settings, roles, objects, changes>>

\* A review is answered, anything else gets a name of its own.
ServeCreate(c) ==
    LET call == calls[c]
        step == Current(call)
    IN /\ Served(c) /\ step.method = "POST"
       /\ IF step.kind = "Review"
          THEN \E granted \in BOOLEAN :
                  Now(c, [Popped(call) EXCEPT !.granted = granted])
          ELSE /\ step.value # "malformed"
               /\ Now(c, Answered(call))
       /\ UNCHANGED <<settings, roles, objects, changes>>

Stored(k, value) ==
    objects' = IF k \in Tracked
               THEN [objects EXCEPT ![k] = [rev |-> @.rev + 1, value |-> value]]
               ELSE objects

\* By force: whatever is there.
ServeApply(c) ==
    LET step == Current(calls[c])
    IN /\ Served(c) /\ step.method = "PATCH"
       /\ Stored(step.kind, step.value)
       /\ Now(c, Answered(calls[c]))
       /\ UNCHANGED <<settings, roles, changes>>

\* Only what has not changed since it was read.
ServeUpdate(c) ==
    LET call == calls[c]
        step == Current(call)
        k    == step.kind
    IN /\ Served(c) /\ step.method = "PUT"
       /\ k \in Tracked =>
             /\ objects[k].value # Empty
             /\ call.read.kind = k => call.read.rev = objects[k].rev
       /\ Stored(k, step.value)
       /\ Now(c, [Answered(call) EXCEPT
                    !.read = IF k \in Tracked THEN AsRead(k, objects'[k])
                             ELSE @])
       /\ UNCHANGED <<settings, roles, changes>>

ServeDelete(c) ==
    LET step == Current(calls[c])
    IN /\ Served(c) /\ step.method = "DELETE"
       /\ step.kind \in Tracked => objects[step.kind].value # Empty
       /\ Stored(step.kind, Empty)
       /\ Now(c, Answered(calls[c]))
       /\ UNCHANGED <<settings, roles, changes>>

Others(k) ==
    /\ changes < MaxChanges
    /\ \E v \in Values[k] \cup {Empty} :
          /\ v # objects[k].value
          /\ Stored(k, v)
    /\ changes' = changes + 1
    /\ UNCHANGED <<settings, roles, calls>>

\* Nothing more is asked of the server.
Terminated ==
    /\ \A c \in Callers : calls[c].phase = "done"
    /\ UNCHANGED vars

Next ==
    \/ \E c \in Callers :
          \/ Call(c) \/ ConfirmTool(c) \/ CallAsTheGuideSays(c)
          \/ Skip(c) \/ Finish(c) \/ Reject(c) \/ RejectNameless(c) \/ AskForTheLicence(c)
          \/ Send(c) \/ Check(c) \/ Delegate(c)
          \/ ServeFailure(c) \/ ServeGet(c) \/ ServeList(c) \/ ServeCreate(c)
          \/ ServeApply(c) \/ ServeUpdate(c) \/ ServeDelete(c)
    \/ \E k \in Tracked : Others(k)
    \/ Terminated

Spec == Init /\ [][Next]_vars

-----------------------------------------------------------------------------
(* What calls may do to a cluster.  In the phase "sent" the current        *)
(* request has passed the access control.                                  *)

Sent(c) == calls[c].phase = "sent"

\* A read-only server writes nothing, a server without destructive tools
\* deletes nothing, and neither does a tool that says it only reads, or a
\* prompt: whatever the handlers do with their arguments and answers.
HintsAreKept ==
    \A c \in Callers : Sent(c) =>
        LET step == Current(calls[c])
        IN /\ Writes(step) =>
                /\ ~settings.readOnly
                /\ calls[c].tool \notin DOMAIN Prompts
                /\ ~Tools[calls[c].tool].hints.readOnly
           /\ step.method = "DELETE" => ~settings.disableDestructive

\* No request about a denied kind, or a kind of a denied group, leaves the
\* server, however the kind is written in its path.
DeniedKindsAreUntouched ==
    \A c \in Callers : Sent(c) /\ Current(calls[c]).kind # "Kiali" =>
        LET step == Current(calls[c])
        IN \A kind \in {Empty, step.kind} :
              [group |-> Group(step.kind), kind |-> kind] \notin settings.denied

\* A rule is about what a request does, not about how it is written.
Concerns(rule, step) ==
    /\ ~IsToolLevel(rule)
    /\ rule.verb \in {Empty, Verb(step)}
    /\ rule.kind \in {Empty, step.kind}
    /\ rule.group \in {Empty, Group(step.kind)}
    /\ rule.name \in {Empty, IF step.named THEN "name" ELSE Empty}
    /\ rule.namespace \in {Empty, IF Namespaced(step.kind) /\ step.value # "all"
                               THEN "ns" ELSE Empty}

\* A tool that a rule concerns, and a request of the cluster that one does,
\* has been confirmed by the user, or the user cannot be asked and the
\* fallback allows it (docs/configuration.md:602-612).
MatchingRequestsWereConfirmed ==
    \A c \in Callers : Sent(c) =>
        LET request == Current(calls[c])
            tool    == calls[c].tool
            Confirmed(answer) ==
                \/ answer
                \/ settings.client = "unsupported" /\ settings.fallback # "deny"
        IN /\ /\ tool \in DOMAIN Tools
              /\ \E rule \in settings.rules :
                    /\ IsToolLevel(rule)
                    /\ rule.tool \in {Empty, tool}
                    /\ rule.destructive \in {Empty, DestructiveHint(tool)}
              => Confirmed(calls[c].confirmed)
           /\ /\ request.kind \notin {"Kiali", "Review"}
              /\ \E rule \in settings.rules : Concerns(rule, request)
              => Confirmed("confirmation" \in calls[c].asked)

\* With validation the user is not asked about a request that the roles
\* forbid, unless the review failed or does not see the subresource
\* (accesscontrol_round_tripper.go:64-65).
AskedOnlyForPermitted ==
    \A c \in Callers :
        /\ settings.validation
        /\ calls[c].asked # {}
        /\ ~calls[c].unsure
        /\ Current(calls[c]).sub = Empty
        => Permitted(Current(calls[c]))

\* No run of the Windows installer reaches the cluster, by whatever tool,
\* that neither says the licence is accepted nor was accepted by the user.
WindowsNeedsEULA ==
    \A c \in Callers : Sent(c) =>
        LET step == Current(calls[c])
        IN Writes(step) /\ step.kind = "PipelineRun" /\ step.value = "windows"
              => "eula" \in calls[c].asked

\* The lifecycle of a machine and the scale of a workload are written over
\* what was read: a change somebody else has made in between is not lost.
WritesOnlyWhatItRead ==
    [][\A c \in Callers, k \in Tracked :
          /\ calls[c].tool \in {"vm_lifecycle", "resources_scale"}
          /\ calls[c].phase = "sent" /\ calls'[c].phase # "sent"
          /\ objects'[k] # objects[k]
          => calls[c].read = AsRead(k, objects[k])]_vars

\* A machine is made with the instance type it was asked for: the name if
\* one is given, else of the size, and of the performance class if there is
\* one of both by name.
TheVMIsAsAskedFor ==
    \A c \in Callers : calls[c].vm # Nothing =>
        LET args   == Head(calls[c].todo).args
            made   == calls[c].vm.instancetype
            sized  == {it \in ToSet(calls[c].offer.instancetypes) :
                         Within(args.size, it.name)}
            fitting == {it \in sized : OfFamily(args.performance, it.name)}
        IN CASE args.instancetype # Empty -> made.name = args.instancetype
             [] args.size # Empty /\ args.instancetype = Empty ->
                   /\ sized # {} => /\ made # Nothing
                                    /\ Within(args.size, made.name)
                   /\ fitting # {} => OfFamily(args.performance, made.name)
             [] OTHER -> TRUE

\* Of a doc (windows_golden_image.go:292-294): the manifest of the guide can
\* be applied as the guide says.
GuideCanBeApplied == \A c \in Callers : calls[c].outcome # "nameless"
=============================================================================
