--------------------------- MODULE ToolsetReload ---------------------------
(***************************************************************************)
(* Reloading the toolsets of the MCP server: applyToolsets,                *)
(* ReloadConfiguration and reapplyToolsets of pkg/mcp/mcp.go.              *)
(*                                                                         *)
(* SIGHUP (ReloadConfiguration) and the watchers of the provider           *)
(* (reapplyToolsets) reload concurrently.  A reload holds reloadMu while   *)
(* it collects the applicable items, converts them and commits them to the *)
(* SDK server kind by kind and item by item, in full view of the clients;  *)
(* it then stores the configuration and the lists of enabled names.        *)
(*                                                                         *)
(* Simplifications.                                                        *)
(*   - What the provider answers while items are collected (targets,       *)
(*     default target, applicable GVKs) is one value of Worlds; each kind  *)
(*     reads it at a moment of its own.                                    *)
(*   - An item on offer is the pair of the configuration and the world it  *)
(*     was built from; the order of additions within a kind is arbitrary.  *)
(*   - Whether an item converts depends on the configuration alone.        *)
(*   - The locals of applyToolsets are variables: only the holder of       *)
(*     reloadMu uses them.                                                 *)
(***************************************************************************)
EXTENDS Naturals

CONSTANTS
    Configs,      \* the configurations that can be loaded
    Initial,      \* the one the server starts with
    Invalid,      \* those that Validate rejects
    Broken,       \* those with an item that does not convert
    Worlds,       \* what the provider can answer
    Names,        \* the names of the items
    KindOf,       \* 1 tool, 2 prompt, 3 resource, 4 resource template
    Applies,      \* the items that apply, by configuration and world
    Reloaders,    \* goroutines that reload
    Boot,         \* the one that runs NewServer
    Installed,    \* the nil configuration: re-apply what is installed
    Absent,       \* not on offer
    Free,         \* reloadMu is not held
    MaxChanges,   \* bound: changes of the provider
    MaxRequests   \* bound: configuration reloads

Kinds == 1..4

Acceptable == Configs \ (Invalid \cup Broken)

Versions == Configs \X Worlds

ASSUME ConstantsAssumption ==
    /\ Initial \in Acceptable
    /\ KindOf \in [Names -> Kinds]
    /\ Applies \in [Versions -> SUBSET Names]
    /\ Boot \in Reloaders
    /\ Installed \notin Configs
    /\ Absent \notin Versions
    /\ Free \notin Reloaders
    /\ MaxChanges \in Nat /\ MaxRequests \in Nat

VARIABLES
    world,          \* what the provider answers
    due,            \* a watcher is about to call reapplyToolsets
    booted,         \* NewServer has returned
    configuration,  \* s.configuration
    sdk,            \* the items of the SDK server
    enabled,        \* s.enabledTools, s.enabledPrompts, ...
    reloadMu,       \* who holds s.reloadMu
    pc,             \* where each reloader is
    caller,         \* who called: ReloadConfiguration or a watcher
    candidate,      \* its argument cfg
    cfg,            \* cfg of the reload under way
    items,          \* the items it collected
    kind,           \* the kind it is working on
    todo,           \* the names of that kind it has still to add
    changes, requests

calls  == <<caller, candidate>>
locals == <<cfg, items, kind, todo>>
shared == <<configuration, sdk, enabled>>
vars   == <<world, due, booted, shared, reloadMu, pc, calls, locals,
            changes, requests>>

Present(f) == {n \in Names : f[n] # Absent}

OfKind(k) == {n \in Names : KindOf[n] = k}

Nothing == [n \in Names |-> Absent]

-----------------------------------------------------------------------------

\* NewServer has stored the initial configuration and calls applyToolsets.
Init ==
    /\ world \in Worlds
    /\ due = FALSE
    /\ booted = FALSE
    /\ configuration = Initial
    /\ sdk = Nothing
    /\ enabled = {}
    /\ reloadMu = Free
    /\ pc = [r \in Reloaders |-> IF r = Boot THEN "waiting" ELSE "idle"]
    /\ caller = [r \in Reloaders |-> "reload"]
    /\ candidate = [r \in Reloaders |-> Initial]
    /\ cfg = Initial
    /\ items = Nothing
    /\ kind = 1
    /\ todo = {}
    /\ changes = 0 /\ requests = 0

Goto(r, label) == pc' = [pc EXCEPT ![r] = label]

\* The kubeconfig, the workspaces or the cluster change: the watchers of the
\* provider notice and will call reapplyToolsets.
ProviderChanges ==
    /\ changes < MaxChanges
    /\ changes' = changes + 1
    /\ world' \in Worlds \ {world}
    /\ due' = TRUE
    /\ UNCHANGED <<booted, shared, reloadMu, pc, calls, locals, requests>>

-----------------------------------------------------------------------------
\* Calls.

\* Mutant: the configuration is not validated again on a reload.
MutantRequestReload(r) ==
    /\ booted
    /\ pc[r] = "idle"
    /\ requests < MaxRequests
    /\ requests' = requests + 1
    /\ caller' = [caller EXCEPT ![r] = "reload"]
    /\ \E c \in Configs : candidate' = [candidate EXCEPT ![r] = c]
    /\ Goto(r, "waiting")
    /\ UNCHANGED <<world, due, booted, shared, reloadMu, locals, changes>>

\* ReloadConfiguration: a configuration that fails Validate is rejected
\* before anything else happens.
RequestReload(r) ==
    /\ booted
    /\ pc[r] = "idle"
    /\ requests < MaxRequests
    /\ requests' = requests + 1
    /\ caller' = [caller EXCEPT ![r] = "reload"]
    /\ \E c \in Configs \ Invalid : candidate' = [candidate EXCEPT ![r] = c]
    /\ Goto(r, "waiting")
    /\ UNCHANGED <<world, due, booted, shared, reloadMu, locals, changes>>

\* Mutant: the caller reads the configuration, before it waits for reloadMu.
MutantRequestReapply(r) ==
    /\ booted /\ due
    /\ pc[r] = "idle"
    /\ due' = FALSE
    /\ caller' = [caller EXCEPT ![r] = "watcher"]
    /\ candidate' = [candidate EXCEPT ![r] = configuration]
    /\ Goto(r, "waiting")
    /\ UNCHANGED <<world, booted, shared, reloadMu, locals, changes, requests>>

\* reapplyToolsets passes nil: the configuration is read under reloadMu.
RequestReapply(r) ==
    /\ booted /\ due
    /\ pc[r] = "idle"
    /\ due' = FALSE
    /\ caller' = [caller EXCEPT ![r] = "watcher"]
    /\ candidate' = [candidate EXCEPT ![r] = Installed]
    /\ Goto(r, "waiting")
    /\ UNCHANGED <<world, booted, shared, reloadMu, locals, changes, requests>>

-----------------------------------------------------------------------------
\* applyToolsets.

\* Mutant: a nil configuration is not replaced by the installed one.
MutantLock(r) ==
    /\ pc[r] = "waiting"
    /\ reloadMu = Free
    /\ reloadMu' = r
    /\ cfg' = candidate[r]
    /\ items' = Nothing
    /\ kind' = 1
    /\ Goto(r, "convert")
    /\ UNCHANGED <<world, due, booted, shared, calls, todo, changes, requests>>

\* reloadMu is taken and, for a re-apply, the installed configuration read.
Lock(r) ==
    /\ pc[r] = "waiting"
    /\ reloadMu = Free
    /\ reloadMu' = r
    /\ cfg' = IF candidate[r] = Installed THEN configuration ELSE candidate[r]
    /\ items' = Nothing
    /\ kind' = 1
    /\ Goto(r, "collect")
    /\ UNCHANGED <<world, due, booted, shared, calls, todo, changes, requests>>

\* collectApplicableX for one kind, against the provider as it is now.
Collect(r) ==
    /\ pc[r] = "collect"
    /\ items' = [n \in Names |->
                   IF KindOf[n] = kind /\ n \in Applies[<<cfg, world>>]
                     THEN <<cfg, world>> ELSE items[n]]
    /\ IF kind = 4 THEN kind' = 1 /\ Goto(r, "convert")
                   ELSE kind' = kind + 1 /\ UNCHANGED pc
    /\ UNCHANGED <<world, due, booted, shared, reloadMu, calls, cfg, todo,
                   changes, requests>>

\* Phase 1 fails: the reload returns the error and has changed nothing.
ConvertFails(r) ==
    /\ pc[r] = "convert"
    /\ cfg \in Broken
    /\ reloadMu' = Free
    /\ Goto(r, "idle")
    /\ UNCHANGED <<world, due, booted, shared, calls, locals, changes, requests>>

\* Phase 1 succeeds for the items of all kinds.
Convert(r) ==
    /\ pc[r] = "convert"
    /\ cfg \notin Broken
    /\ Goto(r, "remove")
    /\ UNCHANGED <<world, due, booted, shared, reloadMu, calls, locals,
                   changes, requests>>

\* commitItems for one kind: withdraw some items and go on to the additions.
CommitKind(r, withdrawn, added) ==
    /\ pc[r] = "remove"
    /\ sdk' = [n \in Names |-> IF n \in withdrawn THEN Absent ELSE sdk[n]]
    /\ todo' = added
    /\ Goto(r, "add")
    /\ UNCHANGED <<world, due, booted, configuration, enabled, reloadMu,
                   calls, cfg, items, kind, changes, requests>>

Collected == Present(items) \cap OfKind(kind)

Previous == enabled \cap OfKind(kind)

\* Mutant: nothing is removed.
MutantRemoveNothing(r) == CommitKind(r, {}, Collected)

\* Mutant: everything that was enabled is removed first.
MutantRemoveAll(r) == CommitKind(r, Previous, Collected)

\* Mutant: what is enabled already is not added again.
MutantKeepOld(r) == CommitKind(r, Previous \ Collected, Collected \ Previous)

\* What is enabled and has not been collected is removed.
Remove(r) == CommitKind(r, Previous \ Collected, Collected)

\* ... then add, or replace, what was collected, one at a time.
Add(r) ==
    /\ pc[r] = "add"
    /\ \E n \in todo : /\ sdk' = [sdk EXCEPT ![n] = items[n]]
                       /\ todo' = todo \ {n}
    /\ UNCHANGED <<world, due, booted, configuration, enabled, reloadMu, pc,
                   calls, cfg, items, kind, changes, requests>>

NextKind(r) ==
    /\ pc[r] = "add"
    /\ todo = {}
    /\ IF kind = 4 THEN kind' = 1 /\ Goto(r, "store")
                   ELSE kind' = kind + 1 /\ Goto(r, "remove")
    /\ UNCHANGED <<world, due, booted, shared, reloadMu, calls, cfg, items,
                   todo, changes, requests>>

\* s.configuration.Store(cfg).
Store(r) ==
    /\ pc[r] = "store"
    /\ configuration' = cfg
    /\ Goto(r, "publish")
    /\ UNCHANGED <<world, due, booted, sdk, enabled, reloadMu, calls,
                   locals, changes, requests>>

\* The lists of enabled names are replaced under s.mu.
Publish(r) ==
    /\ pc[r] = "publish"
    /\ enabled' = Present(items)
    /\ Goto(r, "watch")
    /\ UNCHANGED <<world, due, booted, configuration, sdk, reloadMu, calls,
                   locals, changes, requests>>

\* WatchTargets, then the deferred unlock.
Unlock(r) ==
    /\ pc[r] = "watch"
    /\ reloadMu' = Free
    /\ booted' = TRUE
    /\ Goto(r, "idle")
    /\ UNCHANGED <<world, due, shared, calls, locals, changes, requests>>

-----------------------------------------------------------------------------

Apply(r) ==
    \/ Lock(r) \/ Collect(r) \/ ConvertFails(r) \/ Convert(r) \/ Remove(r)
    \/ Add(r) \/ NextKind(r) \/ Store(r) \/ Publish(r) \/ Unlock(r)

Next ==
    \/ ProviderChanges
    \/ \E r \in Reloaders : RequestReload(r) \/ RequestReapply(r) \/ Apply(r)

Spec == Init /\ [][Next]_vars

\* A reload under way goes on, reloadMu is granted in the end (its queue is
\* first-come first-served once a waiter starves), and a watcher that has
\* noticed a change gets to call reapplyToolsets.
Fairness ==
    /\ \A r \in Reloaders : WF_vars(Apply(r)) /\ SF_vars(Lock(r))
    /\ WF_vars(\E r \in Reloaders : RequestReapply(r))

FairSpec == Spec /\ Fairness

-----------------------------------------------------------------------------
(***************************************************************************)
(* Properties.                                                             *)
(***************************************************************************)

Items == Versions \cup {Absent}

\* The type invariant.
TypeOK ==
    /\ world \in Worlds
    /\ due \in BOOLEAN /\ booted \in BOOLEAN
    /\ configuration \in Configs
    /\ sdk \in [Names -> Items]
    /\ enabled \in SUBSET Names
    /\ reloadMu \in Reloaders \cup {Free}
    /\ pc \in [Reloaders -> {"idle", "waiting", "collect", "convert", "remove",
                             "add", "store", "publish", "watch"}]
    /\ caller \in [Reloaders -> {"reload", "watcher"}]
    /\ candidate \in [Reloaders -> Configs \cup {Installed}]
    /\ cfg \in Configs
    /\ items \in [Names -> Items]
    /\ kind \in Kinds
    /\ todo \in SUBSET Names
    /\ changes \in Nat /\ requests \in Nat

\* Between reloads the SDK server, the enabled lists and the configuration
\* agree, after failed reloads too ("On error s.configuration, the SDK, and
\* the enabled-X bookkeeping all stay at their prior consistent values",
\* mcp.go:218): what is enabled is on offer and was built from the
\* configuration that is installed.
ConsistentBetweenReloads ==
    reloadMu = Free =>
        /\ Present(sdk) = enabled
        /\ \A n \in enabled : sdk[n][1] = configuration

\* "concurrent readers can never observe a new-but-rejected configuration"
\* (mcp.go:557): neither in s.configuration nor in an item on offer.
RejectedIsNeverSeen ==
    /\ configuration \in Acceptable
    /\ \A n \in Present(sdk) : sdk[n][1] \in Acceptable

\* A re-apply for a change of the cluster never takes back the configuration
\* that a concurrent ReloadConfiguration installed (mcp.go:197-200).
ReapplyKeepsTheConfiguration ==
    [][\A r \in Reloaders :
         Store(r) /\ caller[r] = "watcher" => configuration' = configuration]_vars

\* In the end every item on offer reflects the installed configuration and
\* the provider as it is: no interleaving of reloads leaves a change behind.
SurfaceCatchesUp ==
    <>[](\A n \in Names :
           sdk[n] = IF n \in Applies[<<configuration, world>>]
                      THEN <<configuration, world>> ELSE Absent)

\* A reload commits: it goes from the enabled items to those it collected.
Committing == \E r \in Reloaders : pc[r] \in {"remove", "add", "store"}

Surface == INSTANCE ToolSurface
             WITH live <- configuration, surface <- Present(sdk),
                  moving <- Committing,
                  goal <- IF Committing THEN Present(items) ELSE {}

\* A reload implements the transition that ToolSurface promises.
ImplementsToolSurface == Surface!Spec
=============================================================================
