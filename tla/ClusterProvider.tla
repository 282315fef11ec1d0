-------------------------- MODULE ClusterProvider --------------------------
(***************************************************************************)
(* The kubeconfig cluster provider: pkg/kubernetes/provider_kubeconfig.go, *)
(* the context resolution of pkg/kubernetes/manager.go and the file        *)
(* watcher pkg/kubernetes/watcher/kubeconfig.go.                           *)
(*                                                                         *)
(* The provider keeps one manager (a Kubernetes client) per context of the *)
(* kubeconfig, made when it is first asked for.  A goroutine of the file   *)
(* watcher turns file events into a debounced callback; the callback       *)
(* resets the provider (new default manager, new map, old watchers closed, *)
(* new watchers), watches again and reloads the toolsets.  Reloads for     *)
(* other reasons, tool calls and the shutdown run at the same time.        *)
(*                                                                         *)
(* Simplifications.                                                        *)
(*   - A kubeconfig is a member of Files: its contexts and its current     *)
(*     context.  One that cannot be parsed has neither.                    *)
(*   - A critical section of w.mu is one action; p.mu is a variable, held  *)
(*     over the steps of a reset.                                          *)
(*   - Making a client for a context the kubeconfig defines never fails.   *)
(*   - A debounce timer may fire at any time while it is pending.          *)
(*   - The watcher of the cluster state, closed and remade along with the  *)
(*     file watcher, is module ClusterStateWatcher; a reload is reduced to *)
(*     what it reads of the provider, module ToolsetReload has the rest.   *)
(*   - GetTargetManagers sees one kubeconfig; it reads it per context.     *)
(*   - NewServer's second WatchTargets finds what the first one started.   *)
(***************************************************************************)
EXTENDS Naturals

CONSTANTS
    Contexts,        \* names of contexts
    Unset,           \* the empty context name
    Files,           \* what the kubeconfig can hold
    ContextsOf,      \* the contexts a kubeconfig defines
    CurrentOf,       \* its current-context
    Slots,           \* watcher instances; those out of use are used again
    Tasks,           \* goroutines: debounce callbacks and reloads
    Boot,            \* the one that runs NewServer
    Asked,           \* the targets tool calls ask for
    Nil,             \* nil: no manager made yet for a target, no value
    Missing,         \* not a target
    Free,            \* p.mu or reloadMu is not held
    MaxEdits,        \* bound: changes of the kubeconfig
    MaxReloads,      \* bound: SIGHUPs
    MaxWatchFaults   \* bound: fsnotify watchers that cannot be made

Targets == Contexts \cup {Unset}

Managers == [context : Contexts, from : Files]

ASSUME ConstantsAssumption ==
    /\ Unset \notin Contexts
    /\ ContextsOf \in [Files -> SUBSET Contexts]
    /\ CurrentOf \in [Files -> Targets]
    /\ Boot \in Tasks /\ Slots # {}
    /\ Asked \subseteq Targets
    /\ Nil \notin Managers \cup Slots \cup Files \cup Contexts
    /\ Missing \notin Managers \cup Targets /\ Nil # Missing
    /\ Free \notin Tasks
    /\ MaxEdits \in Nat /\ MaxReloads \in Nat /\ MaxWatchFaults \in Nat

VARIABLES
    file,            \* the kubeconfig on disk
    managers,        \* p.managers
    defaultContext,  \* p.defaultContext
    watcher,         \* p.kubeconfigWatcher
    surface,         \* the default target the toolsets were computed for
    mu,              \* who holds p.mu for writing
    reloadMu,        \* who holds s.reloadMu
    pc,              \* where each task is
    local,           \* the watcher it calls Watch on
    resolved,        \* resolvedContext of the reset under way
    raw,             \* rawConfig of the reset under way
    started,         \* per watcher: w.started
    stopCh,          \* w.stopCh is closed
    stoppedCh,       \* w.stoppedCh is closed
    loop,            \* its goroutine runs
    notified,        \* the file it was told to watch is still watched
    event,           \* it has an unread file event
    timer,           \* its debounce timer is pending
    shutdown,        \* "early" in NewServer, "no", "waiting" in Close, "done"
    closing,         \* the watcher it waits for
    lost,            \* the code may have overlooked an edit, or may from now on
    edits, reloads, watchFaults

provider == <<managers, defaultContext, watcher>>
locks    == <<mu, reloadMu>>
reset    == <<resolved, raw>>
channels == <<started, stopCh, stoppedCh>>
files    == <<notified, event>>
watchers == <<channels, loop, files, timer>>
ends     == <<shutdown, closing>>
budget   == <<lost, edits, reloads, watchFaults>>
vars     == <<file, provider, surface, locks, pc, local, reset, watchers,
              ends, budget>>

-----------------------------------------------------------------------------
\* Kubeconfigs.

\* resolveKubeconfigContext, when no context is asked for: the current one,
\* or the only one.
Resolves(f, c) ==
    \/ c # Unset /\ c = CurrentOf[f]
    \/ CurrentOf[f] = Unset /\ ContextsOf[f] = {c}

\* NewKubeconfigManager for the context k of the kubeconfig f targets c.
Opens(f, k, c) ==
    /\ IF k = Unset THEN Resolves(f, c) ELSE c = k
    /\ c \in ContextsOf[f]

Loadable(f) == \E c \in Contexts : Opens(f, Unset, c)

\* The default context a reset derives from the raw kubeconfig.
DefaultOf(f) ==
    IF \E c \in Contexts : Resolves(f, c)
      THEN CHOOSE c \in Contexts : Resolves(f, c) ELSE Unset

Made(k) == managers[k] \in Managers

Manager(c, f) == [context |-> c, from |-> f]

\* Mutant: the default manager is filed under the context it was opened for.
MutantFresh(c, f) ==
    [k \in Targets |-> IF k = c THEN Manager(c, f)
                       ELSE IF k \in ContextsOf[f] THEN Nil ELSE Missing]

\* The map a reset builds.
Fresh(c, f) ==
    [k \in Targets |-> IF k = DefaultOf(f) THEN Manager(c, f)
                       ELSE IF k \in ContextsOf[f] THEN Nil ELSE Missing]

-----------------------------------------------------------------------------

\* The provider has been made, NewServer computes the first toolsets.
Init ==
    /\ file \in {f \in Files : Loadable(f)}
    /\ defaultContext = DefaultOf(file)
    /\ managers = Fresh(defaultContext, file)
    /\ watcher = CHOOSE g \in Slots : TRUE
    /\ surface = Unset
    /\ mu = Free /\ reloadMu = Boot
    /\ pc = [t \in Tasks |-> IF t = Boot THEN "boot" ELSE "idle"]
    /\ local = [t \in Tasks |-> Nil]
    /\ resolved = Nil /\ raw = Nil
    /\ started = [g \in Slots |-> FALSE]
    /\ stopCh = [g \in Slots |-> FALSE]
    /\ stoppedCh = [g \in Slots |-> FALSE]
    /\ loop = [g \in Slots |-> FALSE]
    /\ notified = [g \in Slots |-> FALSE]
    /\ event = [g \in Slots |-> FALSE]
    /\ timer = [g \in Slots |-> FALSE]
    /\ shutdown = "early" /\ closing = Nil
    /\ lost = FALSE /\ edits = 0 /\ reloads = 0 /\ watchFaults = 0

Goto(t, label) == pc' = [pc EXCEPT ![t] = label]

-----------------------------------------------------------------------------
\* The environment.

\* From reading the kubeconfig to watching it, the code does not see edits.
Unseeing ==
    \E t \in Tasks :
      pc[t] \in {"boot", "load", "swap", "join", "install", "rewatch",
                 "start", "add"}

\* The kubeconfig changes, written in place or replaced by another file: the
\* kernel does not watch the new file.  An edit is overlooked while the code
\* is not seeing, and one that leaves nothing loadable where the watch is
\* gone makes the code overlook the next.
Edit ==
    /\ edits < MaxEdits
    /\ edits' = edits + 1
    /\ file' \in Files \ {file}
    /\ event' = [g \in Slots |-> event[g] \/ notified[g]]
    /\ \E replaced \in BOOLEAN :
         /\ notified' = [g \in Slots |-> notified[g] /\ ~replaced]
         /\ lost' = \/ lost
                    \/ Unseeing
                    \/ ~Loadable(file') /\ (replaced \/ ~notified[watcher])
    /\ UNCHANGED <<provider, surface, locks, pc, local, reset, channels, loop, timer,
                   ends, reloads, watchFaults>>

\* A debounce timer expires: its callback runs in a goroutine of its own.
Expire(g) ==
    /\ timer[g]
    /\ timer' = [timer EXCEPT ![g] = FALSE]
    /\ \E t \in Tasks : pc[t] = "idle" /\ Goto(t, "due")
    /\ UNCHANGED <<file, provider, surface, locks, local, reset, channels, loop, files,
                   ends, budget>>

\* SIGHUP, or the watcher of the cluster state.
RequestReload(t) ==
    /\ shutdown # "early"
    /\ pc[t] = "idle"
    /\ reloads < MaxReloads
    /\ reloads' = reloads + 1
    /\ Goto(t, "reload")
    /\ UNCHANGED <<file, provider, surface, locks, local, reset, watchers, ends,
                   lost, edits, watchFaults>>

-----------------------------------------------------------------------------
\* The goroutine of a file watcher.

\* case <-watcher.Events: the debounce timer is armed anew.
Notice(g) ==
    /\ loop[g] /\ event[g]
    /\ event' = [event EXCEPT ![g] = FALSE]
    /\ timer' = [timer EXCEPT ![g] = TRUE]
    /\ UNCHANGED <<file, provider, surface, locks, pc, local, reset, channels, loop,
                   notified, ends, budget>>

\* Mutant: stoppedCh is not closed.
MutantLoopStops(g) ==
    /\ loop[g] /\ stopCh[g]
    /\ loop' = [loop EXCEPT ![g] = FALSE]
    /\ notified' = [notified EXCEPT ![g] = FALSE]
    /\ event' = [event EXCEPT ![g] = FALSE]
    /\ UNCHANGED <<file, provider, surface, locks, pc, local, reset, channels,
                   timer, ends, budget>>

\* case <-w.stopCh: the fsnotify watcher and stoppedCh are closed.
LoopStops(g) ==
    /\ loop[g] /\ stopCh[g]
    /\ loop' = [loop EXCEPT ![g] = FALSE]
    /\ stoppedCh' = [stoppedCh EXCEPT ![g] = TRUE]
    /\ notified' = [notified EXCEPT ![g] = FALSE]
    /\ event' = [event EXCEPT ![g] = FALSE]
    /\ UNCHANGED <<file, provider, surface, locks, pc, local, reset, started, stopCh,
                   timer, ends, budget>>

\* Kubeconfig.Close, as far as the wait for the goroutine.
Stoppable(g) == started[g] /\ ~stopCh[g]

Stop(g) ==
    /\ timer' = [timer EXCEPT ![g] = FALSE]
    /\ stopCh' = [stopCh EXCEPT ![g] = @ \/ started[g]]

\* ... and after it: the channels are made anew for a restart.
Renew(g) ==
    /\ stoppedCh[g]
    /\ started' = [started EXCEPT ![g] = FALSE]
    /\ stopCh' = [stopCh EXCEPT ![g] = FALSE]
    /\ stoppedCh' = [stoppedCh EXCEPT ![g] = FALSE]

-----------------------------------------------------------------------------
\* reset, under p.mu.

\* Mutant: the current context is taken unseen.
MutantResolve(t) ==
    /\ pc[t] = "due"
    /\ mu = Free
    /\ mu' = t
    /\ resolved' = CurrentOf[file]
    /\ Goto(t, "load")
    /\ UNCHANGED <<file, provider, surface, reloadMu, local, raw, watchers, ends,
                   budget>>

\* p.mu is taken and the kubeconfig read a first time, to resolve the context.
Resolve(t) ==
    /\ pc[t] = "due"
    /\ mu = Free
    /\ mu' = t
    /\ \E c \in Contexts : Resolves(file, c) /\ resolved' = c
    /\ Goto(t, "load")
    /\ UNCHANGED <<file, provider, surface, reloadMu, local, raw, watchers, ends,
                   budget>>

\* It is read a second time by the deferred loading client config that makes
\* the client and that rawConfig comes from.
Load(t) ==
    /\ pc[t] = "load"
    /\ resolved \in ContextsOf[file]
    /\ raw' = file
    /\ Goto(t, "swap")
    /\ UNCHANGED <<file, provider, surface, locks, resolved, local, watchers,
                   ends, budget>>

ResetEnds == resolved' = Nil /\ raw' = Nil

ResetFailing(t) ==
    \/ pc[t] = "due" /\ mu = Free /\ ~ \E c \in Contexts : Resolves(file, c)
    \/ pc[t] = "load" /\ resolved \notin ContextsOf[file]

\* Mutant: the watchers are closed before it is known that the reset succeeds.
MutantResetFails(t) ==
    /\ ResetFailing(t)
    /\ mu' = Free /\ ResetEnds
    /\ Goto(t, "idle")
    /\ loop' = [loop EXCEPT ![watcher] = FALSE]
    /\ notified' = [notified EXCEPT ![watcher] = FALSE]
    /\ event' = [event EXCEPT ![watcher] = FALSE]
    /\ timer' = [timer EXCEPT ![watcher] = FALSE]
    /\ started' = [started EXCEPT ![watcher] = FALSE]
    /\ UNCHANGED <<file, provider, surface, reloadMu, local, stopCh, stoppedCh,
                   ends, budget>>

\* No manager can be made: everything stays, the watchers too.
ResetFails(t) ==
    /\ ResetFailing(t)
    /\ mu' = Free /\ ResetEnds
    /\ Goto(t, "idle")
    /\ UNCHANGED <<file, provider, surface, reloadMu, local, watchers, ends, budget>>

SwapWith(t, map) ==
    /\ pc[t] = "swap"
    /\ managers' = map
    /\ Stop(watcher)
    /\ Goto(t, IF Stoppable(watcher) THEN "join" ELSE "install")
    /\ UNCHANGED <<file, defaultContext, watcher, surface, locks, local, reset, started,
                   stoppedCh, loop, files, ends, budget>>

\* Mutant: managers of contexts that are still defined are kept.
MutantSwap(t) ==
    SwapWith(t, LET fresh == Fresh(resolved, raw)
                IN [k \in Targets |-> IF fresh[k] = Nil /\ Made(k)
                                        THEN managers[k] ELSE fresh[k]])

\* The managers are replaced, then the old watcher is closed.
Swap(t) == SwapWith(t, Fresh(resolved, raw))

\* The goroutine of the old watcher has stopped.
Join(t) ==
    /\ pc[t] = "join"
    /\ Renew(watcher)
    /\ Goto(t, "install")
    /\ UNCHANGED <<file, provider, surface, locks, local, reset, loop, files, timer,
                   ends, budget>>

\* A watcher nobody can reach any more, other than the current one.
OutOfUse(g) ==
    /\ g # watcher /\ g # closing
    /\ ~started[g] /\ ~timer[g]
    /\ \A t \in Tasks : local[t] # g

\* New watchers and the new default context; p.mu is released.
Install(t) ==
    /\ pc[t] = "install"
    /\ \E g \in Slots : OutOfUse(g)
    /\ watcher' = CHOOSE g \in Slots : OutOfUse(g)
    /\ defaultContext' = DefaultOf(raw)
    /\ mu' = Free /\ ResetEnds
    /\ Goto(t, "rewatch")
    /\ UNCHANGED <<file, managers, surface, reloadMu, local, watchers, ends, budget>>

-----------------------------------------------------------------------------
\* WatchTargets, without p.mu.

ReadWatcher(t) ==
    /\ pc[t] = "rewatch"
    /\ local' = [local EXCEPT ![t] = watcher]
    /\ Goto(t, "start")
    /\ UNCHANGED <<file, provider, surface, locks, resolved, raw, watchers, ends, budget>>

\* What follows WatchTargets: a callback reloads, a reload is over (and
\* NewServer returns).
Proceed(t) ==
    /\ local' = [local EXCEPT ![t] = Nil]
    /\ shutdown' = IF shutdown = "early" /\ t = Boot THEN "no" ELSE shutdown
    /\ IF reloadMu = t
         THEN reloadMu' = Free /\ Goto(t, "idle")
         ELSE Goto(t, "reload") /\ UNCHANGED reloadMu

\* Watch: nothing when the watcher has been started ...
Started(t) ==
    /\ pc[t] = "start"
    /\ started[local[t]]
    /\ Proceed(t)
    /\ UNCHANGED <<file, provider, surface, mu, reset, watchers, closing, budget>>

Start(t) ==
    /\ pc[t] = "start"
    /\ ~started[local[t]]
    /\ started' = [started EXCEPT ![local[t]] = TRUE]
    /\ Goto(t, "add")
    /\ UNCHANGED <<file, provider, surface, locks, local, reset, stopCh, stoppedCh,
                   loop, files, timer, ends, budget>>

\* ... else the kubeconfig is watched from here on by a new goroutine,
Add(t) ==
    /\ pc[t] = "add"
    /\ notified' = [notified EXCEPT ![local[t]] = TRUE]
    /\ loop' = [loop EXCEPT ![local[t]] = TRUE]
    /\ Proceed(t)
    /\ UNCHANGED <<file, provider, surface, mu, reset, channels, event, timer,
                   closing, budget>>

\* unless there is nothing to watch with: Watch returns without a goroutine.
AddFails(t) ==
    /\ pc[t] = "add"
    /\ watchFaults < MaxWatchFaults
    /\ watchFaults' = watchFaults + 1
    /\ lost' = TRUE
    /\ Proceed(t)
    /\ UNCHANGED <<file, provider, surface, mu, reset, watchers, closing,
                   edits, reloads>>

-----------------------------------------------------------------------------
\* The reload of the toolsets (applyToolsets), holding reloadMu.

TakeReloadMu(t) ==
    /\ pc[t] = "reload"
    /\ reloadMu = Free
    /\ reloadMu' = t
    /\ Goto(t, "collect")
    /\ UNCHANGED <<file, provider, surface, mu, local, reset, watchers, ends, budget>>

\* GetTargetManagers, holding p.mu: managers are made until one fails.
MakeManagers ==
    LET lacking == {k \in Targets : managers[k] = Nil}
        opened == {k \in lacking : \E c \in Contexts : Opens(file, k, c)}
    IN  \E made \in SUBSET opened :
          /\ opened = lacking => made = lacking
          /\ managers' = [k \in Targets |->
                            IF k \in made
                              THEN Manager(CHOOSE c \in Contexts : Opens(file, k, c), file)
                              ELSE managers[k]]

\* The applicable tools are collected; then WatchTargets.
Collect(t) ==
    /\ pc[t] \in {"boot", "collect"}
    /\ mu = Free
    /\ MakeManagers
    /\ surface' = defaultContext
    /\ Goto(t, "rewatch")
    /\ UNCHANGED <<file, defaultContext, watcher, locks, local, reset, watchers, ends, budget>>

-----------------------------------------------------------------------------
\* Tool calls: managerForContext, for a target without a manager.  What the
\* look-up under the read lock found is looked up again under the write lock.

MakeFor(k, key) ==
    /\ mu = Free
    /\ ~Made(k)
    /\ \E c \in Contexts : /\ Opens(file, key, c)
                           /\ managers' = [managers EXCEPT ![k] = Manager(c, file)]
    /\ UNCHANGED <<file, defaultContext, watcher, surface, locks, pc, local, reset,
                   watchers, ends, budget>>

\* Mutant: the manager is made for the context of the kubeconfig.
MutantMake(k) == MakeFor(k, Unset)

\* The manager is made, unless the kubeconfig lacks the context.
Make(k) == MakeFor(k, k)

-----------------------------------------------------------------------------
\* Provider.Close on shutdown, without p.mu.

Shutdown ==
    /\ shutdown = "no"
    /\ Stop(watcher)
    /\ IF Stoppable(watcher)
         THEN shutdown' = "waiting" /\ closing' = watcher
         ELSE shutdown' = "done" /\ UNCHANGED closing
    /\ UNCHANGED <<file, provider, surface, locks, pc, local, reset, started, stoppedCh,
                   loop, files, budget>>

ShutdownEnds ==
    /\ shutdown = "waiting"
    /\ Renew(closing)
    /\ shutdown' = "done" /\ closing' = Nil
    /\ UNCHANGED <<file, provider, surface, locks, pc, local, reset, loop, files, timer,
                   budget>>

-----------------------------------------------------------------------------

LoopStep(g) == Notice(g) \/ LoopStops(g)

TaskStep(t) ==
    \/ Resolve(t) \/ Load(t) \/ ResetFails(t) \/ Swap(t) \/ Join(t)
    \/ Install(t) \/ ReadWatcher(t) \/ Started(t) \/ Start(t) \/ Add(t)
    \/ AddFails(t) \/ TakeReloadMu(t) \/ Collect(t)

Next ==
    \/ Edit
    \/ \E g \in Slots : Expire(g) \/ LoopStep(g)
    \/ \E t \in Tasks : RequestReload(t) \/ TaskStep(t)
    \/ \E k \in Asked : Make(k)
    \/ Shutdown
    \/ ShutdownEnds

Spec == Init /\ [][Next]_vars

\* The goroutines run, timers fire, and a mutex is granted in the end (Go's
\* are first-come first-served once a waiter starves): a task is strongly
\* fair.  Nobody has to edit the kubeconfig, to send SIGHUP, to call a tool or
\* to stop the server.
Fairness ==
    /\ \A g \in Slots : WF_vars(LoopStep(g)) /\ WF_vars(Expire(g))
    /\ \A t \in Tasks : SF_vars(TaskStep(t))
    /\ WF_vars(ShutdownEnds)

FairSpec == Spec /\ Fairness

-----------------------------------------------------------------------------
(***************************************************************************)
(* Properties.                                                             *)
(***************************************************************************)

Flags == [Slots -> BOOLEAN]

\* The type invariant.
TypeOK ==
    /\ file \in Files
    /\ managers \in [Targets -> Managers \cup {Nil, Missing}]
    /\ defaultContext \in Targets /\ surface \in Targets
    /\ watcher \in Slots /\ closing \in Slots \cup {Nil}
    /\ mu \in Tasks \cup {Free} /\ reloadMu \in Tasks \cup {Free}
    /\ pc \in [Tasks -> {"idle", "boot", "due", "load", "swap", "join",
                         "install", "rewatch", "start", "add", "reload", "collect"}]
    /\ local \in [Tasks -> Slots \cup {Nil}]
    /\ resolved \in Contexts \cup {Nil} /\ raw \in Files \cup {Nil}
    /\ started \in Flags /\ stopCh \in Flags /\ stoppedCh \in Flags
    /\ loop \in Flags /\ notified \in Flags /\ event \in Flags /\ timer \in Flags
    /\ shutdown \in {"early", "no", "waiting", "done"}
    /\ lost \in BOOLEAN
    /\ edits \in Nat /\ reloads \in Nat /\ watchFaults \in Nat

\* Whoever gets hold of p.mu finds the default target's manager: neither
\* managerForContext (baseManager.config) nor a tool call without a target
\* meets a nil one, whatever the kubeconfig became between the two reads of a
\* reset.
DefaultIsServed == mu = Free => Made(defaultContext)

\* "GetDerivedKubernetes returns a Kubernetes client for the specified
\* target" (provider.go:25): the manager filed under a context was opened for
\* that context.
TargetIsWhatItSays ==
    mu = Free => \A c \in Contexts : Made(c) => managers[c].context = c

\* ... as long as no edit came when the code may overlook it.
TargetIsWhatItSaysUnlessLost == ~lost => TargetIsWhatItSays

Closed == shutdown \in {"waiting", "done"}

Quiet ==
    /\ \A t \in Tasks : pc[t] = "idle"
    /\ \A g \in Slots : ~event[g] /\ ~timer[g]

\* Once the code has dealt with what it noticed, no manager is left that was
\* made from an earlier kubeconfig, also where a tool call made one while the
\* provider was being reset.
NoStaleManager ==
    Quiet /\ ~lost /\ ~Closed /\ Loadable(file) =>
        \A k \in Targets : Made(k) => managers[k].from = file

\* The provider and the toolsets follow the kubeconfig, after resets that
\* failed too, unless an edit came when the code may overlook it.
KubeconfigIsLoaded ==
    <>[](\/ lost \/ Closed \/ ~Loadable(file)
         \/ /\ defaultContext = DefaultOf(file)
            /\ managers[defaultContext].from = file
            /\ surface = defaultContext)

Waiting == shutdown = "waiting" \/ \E t \in Tasks : pc[t] = "join"

\* Close of a watcher returns ("Close stops the kubeconfig watcher",
\* kubeconfig.go:114): a reset gives p.mu back and the shutdown ends.
CloseReturns == Waiting ~> ~Waiting

\* ... as long as every Watch gets to start its goroutine.
CloseReturnsWhereWatched == Waiting ~> (~Waiting \/ watchFaults > 0)
=============================================================================
