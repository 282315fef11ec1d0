------------------------- MODULE ProviderStrategies -------------------------
(***************************************************************************)
(* The providers other than the one for kubeconfigs with many contexts,    *)
(* which module ClusterProvider has: the provider of a single cluster      *)
(* (strategy disabled) and the one of the workspaces of kcp.  Which of     *)
(* them is made is decided once.                                           *)
(*                                                                         *)
(* What a change is noticed by differs: the single provider watches the    *)
(* kubeconfig, the kcp provider polls the list of the children of its      *)
(* default workspace, and never looks at the kubeconfig for a change.      *)
(* The cluster state watcher of both reloads without a reset and is module *)
(* ClusterStateWatcher.                                                    *)
(*                                                                         *)
(* Simplifications.                                                        *)
(*   - The kubeconfig is edited in place: every edit is an event for the   *)
(*     watcher there is.  A watcher and its debounce timer are one flag    *)
(*     each; watchers that overlapping resets leave behind are left out,   *)
(*     they only add resets.                                               *)
(*   - In a cluster (strategy in-cluster) there is no kubeconfig and no    *)
(*     reset after the first one: not modelled.                            *)
(*   - The reload of the tools after a reset makes managers the way a call  *)
(*     of a tool does (Serve); it is module ToolsetReload.                 *)
(*   - All servers have the same workspaces, and each can be the default.  *)
(*   - The single provider reads the kubeconfig once: the manager keeps    *)
(*     what it has been made from.                                         *)
(***************************************************************************)
EXTENDS Integers, FiniteSets

CONSTANTS
    Strategies,    \* of which one is resolved
    Servers, Workspaces,
    Nested,        \* workspaces that are not children of the default one
    Files,         \* kubeconfigs: [readable, valid, server, workspace]
    Resets, Calls, \* callbacks that reset and calls of tools at one time
    Nil, Torn,     \* no manager; a string read while it is written
    MaxEdits, MaxTreeChanges, MaxFaults

\* The single provider's one target, and the workspace of a server that is
\* not one of kcp.
Unnamed == ""
Targets == Workspaces \cup {Unnamed}

\* valid: a client can be configured from it.
ASSUME FilesAssumption ==
    /\ \A f \in Files : /\ {f.readable, f.valid} \subseteq BOOLEAN
                        /\ f.server \in Servers /\ f.workspace \in Targets
    /\ Nested \subseteq Workspaces /\ Unnamed \notin Workspaces
    /\ Torn \notin Targets /\ Nil \notin Servers \cup Resets
    /\ Strategies \subseteq {"single", "kcp"}

ASSUME BoundsAssumption ==
    {MaxEdits, MaxTreeChanges, MaxFaults} \subseteq Nat

VARIABLES
    strategy,
    file,       \* the kubeconfig
    tree,       \* workspaces that exist
    base, default, rest,   \* fields of the provider that a reset assigns
    loaded,     \* its clientCmdConfig has read the kubeconfig
    targets,    \* keys of managers
    made,       \* [Targets -> server of the manager, or Nil]
    holder,     \* who has p.mu: a reset, or Nil
    resets,     \* [Resets -> [at, server]]
    watching,   \* a watcher runs
    known,      \* its lastKnownState
    armed,      \* its debounce timer
    calls,      \* [Calls -> [at, target, outcome, server, fresh]]
    budget,     \* [edits, changes, faults] that may still come
    failed,     \* history: the last reset that ended failed
    disturbed,  \* history: the kubeconfig changed between its two readings
    missed      \* history: a change nobody will notice

fields  == <<base, default, rest, loaded>>
map     == <<targets, made>>
watcher == <<watching, known, armed>>
history == <<failed, disturbed, missed>>
vars    == <<strategy, file, tree, fields, map, holder, resets, watcher, calls,
             budget, history>>

Direct == tree \ Nested

\* Not a default workspace of any kubeconfig.
Children == Workspaces \ {f.workspace : f \in Files}

-----------------------------------------------------------------------------

\* What the variables hold; the keys of managers are those of the strategy.
TypeOK ==
    /\ strategy \in Strategies
    /\ file \in Files /\ tree \subseteq Children
    /\ base \in Servers /\ default \in Targets /\ rest \in Servers \cup {Nil}
    /\ targets \subseteq Targets
    /\ strategy = "single" <=> Unnamed \in targets
    /\ \A t \in Targets : /\ made[t] \in Servers \cup {Nil}
                          /\ made[t] # Nil => t \in targets
    /\ holder \in Resets \cup {Nil}
    /\ \A r \in Resets :
          /\ resets[r].at \in {"idle", "begun", "loaded", "opened", "assigned",
                               "closed"}
          /\ resets[r].server \in Servers \cup {Nil}
    /\ {loaded, watching, armed, failed, disturbed, missed} \subseteq BOOLEAN
    /\ known \subseteq Children
    /\ \A c \in Calls : /\ calls[c].at \in {"idle", "resolved", "done"}
                        /\ calls[c].target \in Targets \cup {Torn}
                        /\ calls[c].outcome \in {"none", "served", "unknown",
                                                 "error", "crash"}

NoReset == [at |-> "idle", server |-> Nil]
NoCall  == [at |-> "idle", target |-> Unnamed, outcome |-> "none",
            server |-> Nil, fresh |-> TRUE]

\* The provider has been made: its first reset and WatchTargets are through.
Init ==
    /\ strategy \in Strategies
    /\ file \in {f \in Files : f.readable /\ f.valid /\ f.workspace # Unnamed}
    /\ tree \in SUBSET Children
    /\ base = file.server /\ rest = file.server /\ loaded = TRUE
    /\ default = IF strategy = "kcp" THEN file.workspace ELSE Unnamed
    /\ targets = IF strategy = "kcp" THEN tree \cup {default} ELSE {Unnamed}
    /\ made = [t \in Targets |-> IF t = default THEN file.server ELSE Nil]
    /\ holder = Nil
    /\ resets = [r \in Resets |-> NoReset]
    /\ watching = TRUE /\ armed = FALSE
    /\ known = IF strategy = "kcp" THEN Direct ELSE {}
    /\ calls = [c \in Calls |-> NoCall]
    /\ budget = [edits |-> MaxEdits, changes |-> MaxTreeChanges,
                 faults |-> MaxFaults]
    /\ failed = FALSE /\ disturbed = FALSE /\ missed = FALSE

At(r, place) == resets[r].at = place
Step(r, place) == resets' = [resets EXCEPT ![r].at = place]

-----------------------------------------------------------------------------
(* What is watched.                                                        *)

\* An edit that no watcher sees, or one whose timer a reset will stop, is
\* missed when the reset has read the kubeconfig before.
Edit ==
    /\ budget.edits > 0
    /\ budget' = [budget EXCEPT !.edits = @ - 1]
    /\ file' \in Files \ {file}
    /\ armed' = IF strategy = "single" THEN watching ELSE armed
    /\ missed' = \/ missed
                 \/ /\ strategy = "single"
                    /\ \E r \in Resets :
                          resets[r].at \in {"loaded", "assigned", "closed"}
    /\ disturbed' = \/ disturbed
                    \/ /\ strategy = "kcp"
                       /\ \E r \in Resets : At(r, "loaded")
    /\ UNCHANGED <<strategy, tree, fields, map, holder, resets, watching,
                   known, calls, failed>>

\* What is offered are these of the workspaces that a watcher can see.
Offers(children) == targets \ Nested = {default} \cup children

\* A change is missed between a reset's discovery and the new watcher's first
\* list, or when the list is again what the watcher has known before a reset
\* could follow.
TreeChanges ==
    /\ strategy = "kcp"
    /\ budget.changes > 0
    /\ budget' = [budget EXCEPT !.changes = @ - 1]
    /\ \E w \in Children : tree' = IF w \in tree THEN tree \ {w}
                                                   ELSE tree \cup {w}
    /\ missed' = \/ missed
                 \/ \E r \in Resets : At(r, "closed")
                 \/ Direct' = known /\ ~Offers(known)
    /\ UNCHANGED <<strategy, file, fields, map, holder, resets, watcher, calls,
                   failed, disturbed>>

\* A list of workspaces fails.
Fault == budget.faults > 0 /\ budget' = [budget EXCEPT !.faults = @ - 1]

\* A poll of the workspace watcher; a list that fails is an empty one.
Poll ==
    /\ strategy = "kcp" /\ watching
    /\ \/ /\ Direct # known
          /\ UNCHANGED budget
       \/ known # {} /\ Fault
    /\ armed' = TRUE
    /\ UNCHANGED <<strategy, file, tree, fields, map, holder, resets, watching,
                   known, calls, history>>

\* The debounce timer fires.
Fire(r) ==
    /\ armed
    /\ At(r, "idle")
    /\ armed' = FALSE
    /\ Step(r, "begun")
    /\ UNCHANGED <<strategy, file, tree, fields, map, holder, watching, known,
                   calls, budget, history>>

-----------------------------------------------------------------------------
(* A reset of the single provider, which no lock protects.                 *)

Single(r, place) == strategy = "single" /\ At(r, place)

\* NewKubeconfigManager: a manager, or an error.
SingleOpens(r) ==
    /\ Single(r, "begun")
    /\ \E server \in {IF file.readable /\ file.valid THEN file.server
                                                      ELSE Nil} :
          resets' = [resets EXCEPT ![r] = [at |-> "loaded",
                                           server |-> server]]
    /\ missed' = \E q \in Resets : At(q, "loaded")
    /\ UNCHANGED <<strategy, file, tree, fields, map, holder, watcher, calls,
                   budget, failed, disturbed>>

\* p.manager is assigned before the error is looked at; with another reset
\* under way the one that assigns last wins.
SingleAssigns(r) ==
    /\ Single(r, "loaded")
    /\ made' = [made EXCEPT ![Unnamed] = resets[r].server]
    /\ failed' = (resets[r].server = Nil)
    /\ resets' = [resets EXCEPT ![r] =
          IF failed' THEN NoReset ELSE [@ EXCEPT !.at = "assigned"]]
    /\ missed' = (missed \/ \E q \in Resets \ {r} : resets[q].at # "idle")
    /\ UNCHANGED <<strategy, file, tree, fields, targets, holder, watcher,
                   calls, budget, disturbed>>

SingleCloses(r) ==
    /\ Single(r, "assigned")
    /\ Step(r, "closed")
    /\ watching' = FALSE /\ armed' = FALSE
    /\ UNCHANGED <<strategy, file, tree, fields, map, holder, known, calls,
                   budget, history>>

\* Mutant: the new watcher is not started.
MutantSingleWatches(r) ==
    /\ Single(r, "closed")
    /\ resets' = [resets EXCEPT ![r] = NoReset]
    /\ UNCHANGED <<strategy, file, tree, fields, map, holder, watcher, calls,
                   budget, history>>

SingleWatches(r) ==
    /\ Single(r, "closed")
    /\ resets' = [resets EXCEPT ![r] = NoReset]
    /\ watching' = TRUE
    /\ UNCHANGED <<strategy, file, tree, fields, map, holder, known, armed,
                   calls, budget, history>>

-----------------------------------------------------------------------------
(* A reset of the kcp provider, under p.mu.                                *)

Kcp(r, place) == strategy = "kcp" /\ At(r, place)

Fails(r) ==
    /\ holder' = Nil
    /\ resets' = [resets EXCEPT ![r] = NoReset]
    /\ failed' = TRUE

\* ParseServerURL.
ParseServerURL(f) == [base |-> f.server, workspace |-> f.workspace]

\* The kubeconfig is loaded.  Fields are assigned before all of it has been
\* looked at: a reset that fails leaves some of the new ones behind.
KcpLoads(r) ==
    LET url == ParseServerURL(file)
    IN /\ Kcp(r, "begun")
       /\ holder = Nil
       /\ disturbed' = FALSE
       /\ loaded' = file.readable
       /\ IF ~file.readable
          THEN /\ Fails(r)
               /\ UNCHANGED <<base, default, rest, calls>>
          ELSE /\ base' = url.base /\ default' = url.workspace
               /\ calls' = [c \in Calls |->
                     [calls[c] EXCEPT !.fresh = @ /\ default' = default]]
               /\ IF default' = Unnamed THEN Fails(r) /\ UNCHANGED rest
                  ELSE IF ~file.valid THEN Fails(r) /\ rest' = Nil
                  ELSE /\ rest' = file.server
                       /\ holder' = r
                       /\ Step(r, "loaded")
                       /\ UNCHANGED failed
       /\ UNCHANGED <<strategy, file, tree, map, watcher, budget, missed>>

\* The base manager: the kubeconfig is read again.
KcpOpens(r) ==
    /\ Kcp(r, "loaded")
    /\ IF file.readable /\ file.valid
       THEN /\ resets' = [resets EXCEPT ![r] = [at |-> "opened",
                                                server |-> file.server]]
            /\ UNCHANGED <<holder, failed>>
       ELSE Fails(r)
    /\ UNCHANGED <<strategy, file, tree, fields, map, watcher, calls, budget,
                   disturbed, missed>>

\* Mutant: managers that there are already are kept.
MutantManagersFor(found, server) ==
    [t \in Targets |-> IF t = default THEN server
                       ELSE IF t \in found THEN made[t] ELSE Nil]

\* All managers are new; the default one is the base manager.
ManagersFor(found, server) == [t \in Targets |-> IF t = default THEN server
                                                                ELSE Nil]

\* DiscoverAllWorkspaces leaves out what it cannot list and never fails; the
\* managers are replaced, the watcher closed, p.mu released.
KcpDiscovers(r) ==
    /\ Kcp(r, "opened")
    /\ \/ /\ targets' = {default} \cup tree
          /\ missed' = FALSE
          /\ UNCHANGED budget
       \/ /\ targets' \in {{default}, {default} \cup Direct}
          /\ missed' = TRUE
          /\ Fault
    /\ made' = ManagersFor(targets', resets[r].server)
    /\ calls' = [c \in Calls |-> [calls[c] EXCEPT !.fresh = @ /\
                                     calls[c].target \in targets']]
    /\ failed' = FALSE
    /\ holder' = Nil
    /\ Step(r, "closed")
    /\ watching' = FALSE /\ armed' = FALSE
    /\ UNCHANGED <<strategy, file, tree, fields, known, disturbed>>

\* WatchTargets: the new watcher takes what it lists for known.
KcpWatches(r) ==
    /\ Kcp(r, "closed")
    /\ resets' = [resets EXCEPT ![r] = NoReset]
    /\ \/ known' = Direct /\ UNCHANGED budget
       \/ known' = {} /\ Fault
    /\ watching' = TRUE
    /\ UNCHANGED <<strategy, file, tree, fields, map, holder, armed, calls,
                   history>>

-----------------------------------------------------------------------------
(* A call of a tool: GetDerivedKubernetes.                                 *)

Answer(c, outcome, server) ==
    calls' = [calls EXCEPT ![c] = [NoCall EXCEPT !.at = "done",
                                                 !.outcome = outcome,
                                                 !.server = server]]

\* For a target that is offered, or for the default one: kcp reads that one
\* without p.mu, perhaps while a reset writes it.
Resolve(c) ==
    /\ calls[c].at # "resolved"
    /\ \E t \in IF strategy = "single" THEN {Unnamed}
                ELSE targets \cup {default} \cup
                     {Torn : r \in {q \in Resets : At(q, "begun")}} :
          calls' = [calls EXCEPT ![c] = [NoCall EXCEPT !.at = "resolved",
                                                       !.target = t]]
    /\ UNCHANGED <<strategy, file, tree, fields, map, holder, resets, watcher,
                   budget, history>>

\* Mutant: a workspace that is not there has a manager made as well.
MutantKnows(t) == t # Torn

\* The keys of managers decide what there is.
Knows(t) == t \in targets

\* A manager that is missing is made, with what the fields hold; a
\* clientCmdConfig that has not read the kubeconfig tries it again.  The
\* single provider's manager is dereferenced as it is.
Serve(c) ==
    LET t == calls[c].target
    IN /\ calls[c].at = "resolved"
       /\ holder = Nil
       /\ \/ /\ ~Knows(t)
             /\ Answer(c, "unknown", Nil)
             /\ UNCHANGED <<made, loaded>>
          \/ /\ Knows(t) /\ made[t] # Nil
             /\ Answer(c, "served", made[t])
             /\ UNCHANGED <<made, loaded>>
          \/ /\ Knows(t) /\ made[t] = Nil
             /\ IF strategy = "single" \/ rest = Nil
                THEN Answer(c, "crash", Nil) /\ UNCHANGED <<made, loaded>>
                ELSE IF ~loaded /\ ~file.readable
                THEN Answer(c, "error", Nil) /\ UNCHANGED <<made, loaded>>
                ELSE /\ made' = [made EXCEPT ![t] = base]
                     /\ loaded' = TRUE
                     /\ Answer(c, "served", base)
       /\ UNCHANGED <<strategy, file, tree, base, default, rest, targets,
                      holder, resets, watcher, budget, history>>

-----------------------------------------------------------------------------

ResetStep(r) ==
    \/ SingleOpens(r) \/ SingleAssigns(r)
    \/ SingleCloses(r) \/ SingleWatches(r)
    \/ KcpLoads(r) \/ KcpOpens(r) \/ KcpDiscovers(r) \/ KcpWatches(r)

Next ==
    \/ Edit \/ TreeChanges \/ Poll
    \/ \E r \in Resets : Fire(r) \/ ResetStep(r)
    \/ \E c \in Calls : Resolve(c) \/ Serve(c)

Spec == Init /\ [][Next]_vars

\* Go runs its goroutines, and the ticker and the timer fire.
FairSpec ==
    /\ Spec
    /\ WF_vars(Poll)
    /\ WF_vars(\E r \in Resets : Fire(r))
    /\ \A r \in Resets : WF_vars(ResetStep(r))

-----------------------------------------------------------------------------

\* The kubeconfig's server that the last reset has taken.
Loaded == IF strategy = "single" THEN made[Unnamed] ELSE base

\* Every target that is offered is served, by the one server of the last
\* reset, unless that reset failed or the kubeconfig changed between its two
\* readings; a call that resolved its target before the reset may not find
\* it.
ServedUnlessResetFailed ==
    [][\A c \in Calls :
          /\ calls[c].at = "resolved" /\ calls'[c].at = "done"
          /\ calls[c].fresh /\ calls[c].target # Torn
          /\ ~failed /\ ~disturbed
          => calls'[c].outcome = "served" /\ calls'[c].server = Loaded]_vars

\* The provider ends up with the kubeconfig, or with the workspaces, that
\* there are: also after resets that failed, overlapped or raced a change,
\* unless a change was missed.  A failed reset of kcp is tried again while
\* the list of workspaces differs from the one that was known.
FollowsItsSource ==
    []<>(\/ missed
         \/ ~file.readable \/ ~file.valid
         \/ strategy = "single" /\ made[Unnamed] = file.server
         \/ strategy = "kcp" /\ \/ file.workspace = Unnamed
                                \/ Offers(Direct)
                                \/ failed /\ Direct = known)
=============================================================================
