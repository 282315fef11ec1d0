------------------------ MODULE ClusterStateWatcher ------------------------
(***************************************************************************)
(* The cluster state watcher: pkg/kubernetes/watcher/cluster.go.           *)
(*                                                                         *)
(* A goroutine (the poll loop) wakes on a ticker, invalidates the shared   *)
(* discovery cache, captures the state of the cluster and, when it differs *)
(* from the last known one, (re)arms a debounce timer.  When the timer     *)
(* fires, its callback runs in a goroutine of its own: it reloads the      *)
(* toolsets and then records the state it captures at that moment as the   *)
(* last known one.  Close stops the timer and waits for the loop.          *)
(*                                                                         *)
(* Simplifications.                                                        *)
(*   - What captureState returns (API group names and the OpenShift flag)  *)
(*     is one value of States; its value on a discovery error is Unknown.  *)
(*   - A critical section of w.mu is one action.  The steps taken outside  *)
(*     w.mu (the cache invalidation, the reload, the wait of Close) are    *)
(*     actions of their own and interleave with everything.                *)
(*   - A reload is reduced to the discovery state it evaluates the tools   *)
(*     against; module ToolsetReload holds the rest of it.                 *)
(*   - Time is discrete: Elapse lets one unit pass for ticker and timer.   *)
(***************************************************************************)
EXTENDS Naturals

CONSTANTS
    States,           \* what discovery can say of the cluster
    Unknown,          \* what captureState makes of a discovery error
    Stale,            \* the discovery cache holds nothing valid
    Callbacks,        \* goroutines available to expired debounce timers
    Closers,          \* callers of Close
    PollInterval,     \* pollInterval, in time units
    DebounceWindow,   \* debounceWindow, in time units
    MaxChanges,       \* bound: changes of the cluster
    MaxFaults,        \* bound: failed discovery requests
    FaultAt,          \* whose discovery requests may fail
    MaxReloadErrors,  \* bound: reloads that return an error
    MaxApplies,       \* bound: reloads of the server other than the callbacks'
    Prompts           \* whether the code may be, or be not, prompt

Readers == {"poll", "reload", "capture", "watch"}

ASSUME ConstantsAssumption ==
    /\ Unknown \notin States
    /\ Stale \notin States \cup {Unknown}
    /\ PollInterval \in Nat /\ PollInterval > 0
    /\ DebounceWindow \in Nat /\ DebounceWindow > 0
    /\ MaxChanges \in Nat /\ MaxFaults \in Nat
    /\ MaxReloadErrors \in Nat /\ MaxApplies \in Nat
    /\ FaultAt \subseteq Readers
    /\ Prompts \subseteq BOOLEAN

VARIABLES
    cluster,     \* the state of the cluster itself
    cache,       \* the memory-cached discovery client
    loaded,      \* the view the tools in force were selected against
    lastKnown,   \* w.lastKnownState
    started,     \* w.started
    stopCh,      \* w.stopCh is closed
    stoppedCh,   \* w.stoppedCh is closed
    loop,        \* the poll loop: "none", "select" or "polled"
    untilTick,   \* time left to the next tick
    tick,        \* ticker.C holds a tick
    timer,       \* time left to the debounce timer; 0: not pending
    callback,    \* per goroutine: "idle", "due" or "reloaded"
    closer,      \* per caller of Close: "idle" or "waiting"
    server,      \* a reload of the server: "idle" or "applied"
    changes, faults, reloadErrors, applies,
    prompt       \* the code always outruns the clock, only polls fail, and
                 \* nothing but the watcher reloads once it is started

data     == <<cluster, cache, loaded, lastKnown>>
channels == <<started, stopCh, stoppedCh>>
clock    == <<untilTick, tick, timer>>
budget   == <<changes, faults, reloadErrors, applies>>
code     == <<data, channels, loop, clock, callback, closer, server, budget>>
vars     == <<code, prompt>>

-----------------------------------------------------------------------------

Init ==
    /\ cluster \in States
    /\ cache = Stale
    /\ loaded = Unknown
    /\ lastKnown = Unknown
    /\ started = FALSE /\ stopCh = FALSE /\ stoppedCh = FALSE
    /\ loop = "none"
    /\ untilTick = PollInterval /\ tick = FALSE /\ timer = 0
    /\ callback = [c \in Callbacks |-> "idle"]
    /\ closer = [k \in Closers |-> "idle"]
    /\ server = "idle"
    /\ changes = 0 /\ faults = 0 /\ reloadErrors = 0 /\ applies = 0
    /\ prompt \in Prompts

\* A read through the cached discovery client: from the cache when it is
\* valid, else a request whose answer is cached unless it fails.
Discover(who, view) ==
    \/ /\ cache # Stale
       /\ view = cache
       /\ UNCHANGED <<cache, faults>>
    \/ /\ cache = Stale
       /\ view = cluster
       /\ cache' = cluster
       /\ UNCHANGED faults
    \/ /\ cache = Stale
       /\ who \in FaultAt /\ (prompt => who = "poll")
       /\ faults < MaxFaults
       /\ view = Unknown
       /\ faults' = faults + 1
       /\ UNCHANGED cache

Views == States \cup {Unknown}

\* Close: the debounce timer is stopped in every case.  A callback the timer
\* has already started is not.
StopTimer == timer' = 0

\* Mutant: a change found while the timer is pending prolongs it.
MutantArmTimer == timer' = timer + DebounceWindow

ArmTimer == timer' = DebounceWindow

-----------------------------------------------------------------------------
\* The environment.

\* An API group appears or disappears.
ClusterChanges ==
    /\ changes < MaxChanges
    /\ changes' = changes + 1
    /\ cluster' \in States \ {cluster}
    /\ UNCHANGED <<prompt, cache, loaded, lastKnown, channels, loop, clock,
                   callback, closer, server, faults, reloadErrors, applies>>

\* Everything the code can do at this instant has been done.
Settled ==
    /\ loop # "polled" /\ ~tick
    /\ \A c \in Callbacks : callback[c] = "idle"
    /\ server = "idle"

\* One time unit.  The ticker drops a tick nobody has taken; an expired timer
\* starts its callback in a goroutine of its own.
Elapse ==
    /\ prompt => Settled
    /\ IF loop = "none"
         THEN UNCHANGED <<untilTick, tick>>
         ELSE /\ untilTick' = IF untilTick = 1 THEN PollInterval ELSE untilTick - 1
              /\ tick' = (tick \/ untilTick = 1)
    /\ IF timer = 1
         THEN \E c \in Callbacks : /\ callback[c] = "idle"
                                   /\ callback' = [callback EXCEPT ![c] = "due"]
         ELSE UNCHANGED callback
    /\ timer' = IF timer = 0 THEN 0 ELSE timer - 1
    /\ UNCHANGED <<prompt, data, channels, loop, closer, server, budget>>

-----------------------------------------------------------------------------
\* The server: applyToolsets evaluates the tools and ends with WatchTargets.

\* The applicability filters of a reload read discovery.
Apply ==
    /\ server = "idle"
    /\ prompt => ~started
    /\ applies < MaxApplies
    /\ applies' = applies + 1
    /\ server' = "applied"
    /\ \E view \in Views : Discover("reload", view) /\ loaded' = view
    /\ UNCHANGED <<prompt, cluster, lastKnown, channels, loop, clock,
                   callback, closer, changes, reloadErrors>>

\* Watch: nothing when the watcher is started, else the initial capture and
\* the poll loop.
Watch ==
    /\ server = "applied"
    /\ server' = "idle"
    /\ IF started
         THEN UNCHANGED <<cache, lastKnown, started, loop, untilTick, tick, faults>>
         ELSE /\ started' = TRUE
              /\ \E view \in Views : Discover("watch", view) /\ lastKnown' = view
              /\ loop' = "select"
              /\ untilTick' = PollInterval /\ tick' = FALSE
    /\ UNCHANGED <<prompt, cluster, loaded, stopCh, stoppedCh, timer,
                   callback, closer, changes, reloadErrors, applies>>

-----------------------------------------------------------------------------
\* The poll loop.

\* Mutant: the poll reads through a cache it has not invalidated.
MutantPollInvalidate ==
    /\ loop = "select" /\ tick
    /\ loop' = "polled"
    /\ tick' = FALSE
    /\ UNCHANGED <<prompt, data, channels, untilTick, timer, callback, closer,
                   server, budget>>

\* case <-ticker.C: the cache is invalidated before w.mu is taken.
PollInvalidate ==
    /\ loop = "select" /\ tick
    /\ loop' = "polled"
    /\ tick' = FALSE
    /\ cache' = Stale
    /\ UNCHANGED <<prompt, cluster, loaded, lastKnown, channels, untilTick,
                   timer, callback, closer, server, budget>>

\* The critical section of the poll: capture, compare, arm the timer.
PollCompare ==
    /\ loop = "polled"
    /\ loop' = "select"
    /\ \E current \in Views :
         /\ Discover("poll", current)
         /\ IF current # lastKnown THEN ArmTimer ELSE UNCHANGED timer
    /\ UNCHANGED <<prompt, cluster, loaded, lastKnown, channels, untilTick,
                   tick, callback, closer, server, changes, reloadErrors,
                   applies>>

\* Mutant: the goroutine returns without closing stoppedCh.
MutantLoopStops ==
    /\ loop = "select" /\ stopCh
    /\ loop' = "none"
    /\ UNCHANGED <<prompt, data, channels, clock, callback, closer, server,
                   budget>>

\* case <-w.stopCh: the goroutine returns and its defers run.
LoopStops ==
    /\ loop = "select" /\ stopCh
    /\ loop' = "none"
    /\ stoppedCh' = TRUE
    /\ UNCHANGED <<prompt, data, started, stopCh, clock, callback, closer,
                   server, budget>>

-----------------------------------------------------------------------------
\* The debounce callback.

\* onChange succeeds: the tools in force are now those the view selects.
Reload(c) ==
    /\ callback[c] = "due"
    /\ callback' = [callback EXCEPT ![c] = "reloaded"]
    /\ \E view \in Views : Discover("reload", view) /\ loaded' = view
    /\ UNCHANGED <<prompt, cluster, lastKnown, channels, loop, clock, closer,
                   server, changes, reloadErrors, applies>>

\* onChange fails: lastKnownState stays, so that the next poll arms again.
ReloadFails(c) ==
    /\ callback[c] = "due"
    /\ reloadErrors < MaxReloadErrors
    /\ reloadErrors' = reloadErrors + 1
    /\ callback' = [callback EXCEPT ![c] = "idle"]
    /\ UNCHANGED <<prompt, data, channels, loop, clock, closer, server,
                   changes, faults, applies>>

\* After a successful reload: w.lastKnownState = w.captureState().
Capture(c) ==
    /\ callback[c] = "reloaded"
    /\ callback' = [callback EXCEPT ![c] = "idle"]
    /\ \E view \in Views : Discover("capture", view) /\ lastKnown' = view
    /\ UNCHANGED <<prompt, cluster, loaded, channels, loop, clock, closer,
                   server, changes, reloadErrors, applies>>

-----------------------------------------------------------------------------
\* Close.

\* Not started, or another Close is under way: Close returns at once.
CloseReturns(k) ==
    /\ closer[k] = "idle"
    /\ ~started \/ stopCh
    /\ StopTimer
    /\ UNCHANGED <<prompt, data, channels, loop, untilTick, tick, callback,
                   closer, server, budget>>

CloseAndWait(k) ==
    /\ StopTimer
    /\ stopCh' = TRUE
    /\ closer' = [closer EXCEPT ![k] = "waiting"]
    /\ UNCHANGED <<prompt, data, started, stoppedCh, loop, untilTick, tick,
                   callback, server, budget>>

\* Mutant: Close does not ask whether the watcher was started.
MutantCloseStopsUnstarted(k) == closer[k] = "idle" /\ ~stopCh /\ CloseAndWait(k)

\* Mutant: Close does not ask whether another Close is under way.
MutantCloseStopsTwice(k) == closer[k] = "idle" /\ started /\ CloseAndWait(k)

\* Close closes stopCh, releases w.mu and waits on stoppedCh.
CloseStops(k) == closer[k] = "idle" /\ started /\ ~stopCh /\ CloseAndWait(k)

\* Mutant: Close does not wait for the loop.
MutantCloseEnds(k) ==
    /\ closer[k] = "waiting"
    /\ closer' = [closer EXCEPT ![k] = "idle"]
    /\ started' = FALSE /\ stopCh' = FALSE /\ stoppedCh' = FALSE
    /\ UNCHANGED <<prompt, data, loop, clock, callback, server, budget>>

\* The loop has stopped: the channels are made anew for a restart.
CloseEnds(k) ==
    /\ closer[k] = "waiting"
    /\ stoppedCh
    /\ closer' = [closer EXCEPT ![k] = "idle"]
    /\ started' = FALSE /\ stopCh' = FALSE /\ stoppedCh' = FALSE
    /\ UNCHANGED <<prompt, data, loop, clock, callback, server, budget>>

-----------------------------------------------------------------------------

CallbackStep(c) == Reload(c) \/ ReloadFails(c) \/ Capture(c)

CloseStep(k) == CloseReturns(k) \/ CloseStops(k) \/ CloseEnds(k)

Next ==
    \/ ClusterChanges
    \/ Elapse
    \/ Apply
    \/ Watch
    \/ PollInvalidate
    \/ PollCompare
    \/ LoopStops
    \/ \E c \in Callbacks : CallbackStep(c)
    \/ \E k \in Closers : CloseStep(k)

Spec == Init /\ [][Next]_vars

\* Time passes and the goroutines run.  Nobody has to change the cluster, to
\* reload or to call Close.  LoopStops is strongly fair: select picks among
\* the ready cases at random, so that a closed stopCh is not passed over for
\* ever in favour of the ticker.
Fairness ==
    /\ WF_code(Elapse)
    /\ WF_code(Watch)
    /\ WF_code(PollInvalidate)
    /\ WF_code(PollCompare)
    /\ SF_code(LoopStops)
    /\ \A c \in Callbacks : WF_code(CallbackStep(c))
    /\ \A k \in Closers : WF_code(CloseEnds(k))

FairSpec == Spec /\ Fairness

-----------------------------------------------------------------------------
(***************************************************************************)
(* Properties.                                                             *)
(***************************************************************************)

CountersTypeOK ==
    /\ untilTick \in 1..PollInterval
    /\ timer \in 0..DebounceWindow
    /\ changes \in 0..MaxChanges
    /\ faults \in 0..MaxFaults
    /\ reloadErrors \in 0..MaxReloadErrors
    /\ applies \in 0..MaxApplies

\* The type invariant.
TypeOK ==
    /\ cluster \in States
    /\ cache \in States \cup {Stale}
    /\ loaded \in Views /\ lastKnown \in Views
    /\ started \in BOOLEAN /\ stopCh \in BOOLEAN /\ stoppedCh \in BOOLEAN
    /\ loop \in {"none", "select", "polled"}
    /\ tick \in BOOLEAN
    /\ callback \in [Callbacks -> {"idle", "due", "reloaded"}]
    /\ closer \in [Closers -> {"idle", "waiting"}]
    /\ server \in {"idle", "applied"}
    /\ prompt \in BOOLEAN
    /\ CountersTypeOK

Waiting == {k \in Closers : closer[k] = "waiting"}

\* Who waits in Close has something to wait for: a loop that is still there to
\* close stoppedCh, or a stoppedCh that is closed.  Otherwise Close (and the
\* provider reset and the server shutdown that call it) would block for ever.
CloseHasALoopToWaitFor ==
    Waiting # {} => (loop # "none" \/ stoppedCh)

\* However Watch and Close calls interleave, at most one Close owns the
\* channels: a second one would close a closed channel, or recreate the
\* channels of a watcher that was restarted in between.
OneCloseOwnsTheChannels ==
    \A k, m \in Waiting : k = m

\* A watcher whose Close has returned has no goroutine left and fresh
\* channels, so that Watch can start it again.
ClosedIsClean ==
    ~started => loop = "none" /\ ~stopCh /\ ~stoppedCh

\* A loop is never started while another one runs: two loops would share
\* stoppedCh and the second exit would panic on closing it again.
NeverTwoLoops ==
    [][loop = "none" \/ ~(started' /\ ~started)]_vars

\* Nothing arms the debounce timer once Close has returned, until the next
\* Watch: what is left after Close is bounded by what was pending then.
ArmedOnlyWhileStarted ==
    [][timer' > timer => started]_vars

\* Every Close that waits returns.
CloseReturnsEventually ==
    \A k \in Closers : closer[k] = "waiting" ~> closer[k] = "idle"

Running == loop # "none" /\ ~stopCh

\* A running watcher does not leave the tools selected against an outdated
\* view of the cluster for ever: a change is reloaded, also after reloads that
\* failed.  ("ClusterState monitors cluster state changes and triggers
\* debounced reloads", cluster.go:31.)
ChangesAreReloaded ==
    []<>(Running => loaded = cluster)

\* Where the code always outruns the clock, so that no change falls between a
\* reload and the capture after it, every change is reloaded, also after a
\* poll or a reload that failed.
ChangesAreReloadedIfPrompt ==
    []<>(prompt /\ Running => loaded = cluster)
=============================================================================
