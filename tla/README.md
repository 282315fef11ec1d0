# kubernetes-mcp-server in TLA+

`kubernetes-mcp-server` is an MCP server in Go that offers tools, prompts and
resources for Kubernetes clusters to language-model clients, over stdio or HTTP.
Two parts of it are hard to get right and hard to test. One keeps the surface up to
date while clients use it: the configuration can be reloaded, the kubeconfig edited,
the cluster can gain or lose API groups, and every such event runs in a goroutine of
its own. The other stands between a request and the cluster: authorization, limits,
exchanged tokens, confirmation, denied kinds, and handlers of many requests of which
each may fail. This directory specifies both.

Paths below are relative to the repository.

## 1. Inventory

| Part | State | Operations | Hard behaviour | What makes it correct |
|---|---|---|---|---|
| Cluster state watcher (`pkg/kubernetes/watcher/cluster.go`) | `started`, `stopCh`, `stoppedCh`, `lastKnownState`, debounce timer, the shared discovery cache | `Watch`, its poll loop, the debounced callback, `Close` | poll, timer goroutines, `Close` and a restart interleave; reload or discovery fails | a change is reloaded; `Close` returns; one loop; channels closed once |
| Toolset reload (`pkg/mcp/mcp.go`) | `configuration` (atomic), SDK items, `enabledX`, `reloadMu` | `NewServer`, `ReloadConfiguration`, `reapplyToolsets`, all through `applyToolsets` | reloads race re-applies; conversion fails half-way; readers take no lock | configuration, items and bookkeeping agree; a rejected configuration is never seen; nothing is rolled back |
| Kubeconfig provider (`pkg/kubernetes/provider_kubeconfig.go`, `manager.go`) | `managers`, `defaultContext`, the two watchers, `p.mu` | `reset`, `managerForContext`, `GetTargetManagers`, `WatchTargets`, `Close` | two readings of the file in one reset; resets, tool calls and shutdown overlap; `p.mu` held while goroutines are waited for | the default target is served; a manager targets what it is filed under; no stale manager; nobody waits for ever |
| Kubeconfig watcher (`pkg/kubernetes/watcher/kubeconfig.go`) | `started`, channels, timer, inotify watches | `Watch`, its goroutine, `Close` | replaced files, lost watches, a failing `fsnotify.NewWatcher` | edits are noticed; `Close` returns |
| Single-cluster and kcp providers (`provider_single.go`, `pkg/kcp`) | one manager; workspaces, server URL, default workspace, their watchers | the same interface, discovery of workspaces | a failing reset leaves half of the new state; the single provider has no lock; lists that fail count as empty | what is offered is served, by the server of the last good reset; the provider follows its source |
| SIGHUP handler (`pkg/kubernetes-mcp-server/cmd/root.go`) | signal channel of capacity 1 | read, validate, apply, reload the log, publish configuration, remake the OIDC provider; stop | each step may fail after earlier ones took effect; stop during a reload | the parts follow one configuration; the last signal is not lost; stop waits |
| Configuration and OAuth state (`pkg/config/state.go`, `pkg/oauth/state.go`) | two atomic snapshots | `Load`, `Store` | they are read and written separately | a request does not decide on two generations |
| HTTP server and authorization (`pkg/http`) | - | per request decision; graceful shutdown | two snapshots per request | no unauthenticated request passes where the configuration requires OAuth |
| Rate limiter (`pkg/mcp/middleware.go`) | limiters per session, current limits | `Allow` per request, reset on new limits, reaper | configuration read before the mutex; reaper and request race | a session stays within its limit |
| Credentials of a call (`middleware.go`, `manager.go`, token exchange) | cached STS configuration with its key | choose the header, exchange, derive a client | four copies of the configuration are read one after the other | the cluster sees the identity that was verified, exchanged where that is configured |
| Access control (`accesscontrol_round_tripper.go`, validators, `pkg/confirmation`) | - | parse the path of a request, look up what is denied, run the validators | paths, verbs and scopes are inferred from URLs; order of validators; clients that cannot be asked | nothing passes that is denied or not confirmed |
| Toolsets, prompts and client operations (`pkg/toolsets`, `pkg/kubernetes`, `pkg/kubevirt`, `pkg/helm`, `pkg/kiali`) | - (the cluster) | a tool call is a sequence of requests | errors that are dropped, branches on what was read, reads followed by writes, a choice among what is listed | hints say the truth; nothing is overwritten unseen; what is made is what was asked for |
| Configuration files (`pkg/config/config.go`) | - | read, merge drop-ins, validate | order of merges | later files win, key by key |
| Logging sink (`pkg/logging/sink.go`) | writer, file | `Reload`, `Close`, `Write` | swap and close against writes; single reloader assumed | no write to a closed file |
| Output formats, telemetry, metrics, well-known endpoints | counters | format, count, proxy | - | (not modelled, section 6) |

How they interact. `NewServer` computes the first surface and calls
`WatchTargets`. The provider's watchers call back: the cluster state watcher calls
`reapplyToolsets`, the kubeconfig watcher first resets the provider, then watches
again and re-applies. SIGHUP calls `ReloadConfiguration` from its own goroutine.
All reloads end in `applyToolsets`, which reads the provider while it holds
`reloadMu` and calls `WatchTargets` at its end. Tool calls read the configuration
and ask the provider for a client without `reloadMu`. Locks are taken in the order
`reloadMu`, `p.mu`, `w.mu`; a reset waits for watcher goroutines while it holds
`p.mu`. Shutdown closes the provider without any of the outer locks.
A request over HTTP passes the authorization middleware, which chooses between two
headers on `cfgState` and `oauthState`, then the limiter, which reads the MCP
server's configuration; the call is confirmed, gets a client derived from its
target's manager with its own or an exchanged token, and its handler sends requests
through the round tripper, each of which is parsed, looked up and validated again.

`PROJECT.json` lists all components with their status, and the hazards of the
code line by line with the properties that cover each.

## 2. Plan

| Order | Module | Content | State |
|---|---|---|---|
| 1 | `ClusterStateWatcher` | the cluster state watcher | done, proofs done |
| 2 | `ToolSurface`, `ToolsetReload` | what a reload promises; the reload | done, proofs and refinement proof done |
| 3 | `ClusterProvider` | kubeconfig provider with its file watcher and context resolution | done, proofs done |
| 4 | `ConfigReload` | SIGHUP handler, the two snapshots, the requests that read them, log sink, stop | done, proofs done |
| 5 | `Serving` | a request from authorization through rate limiter and token exchange to its client, next to a reload | done, proofs done |
| 6 | `ProviderStrategies` | the single-cluster and the kcp provider with their failing resets | done, proofs done |
| 7 | `KubeAPI`, `CoreToolset`, `KubevirtToolset`, `VMResolution`, `PluginToolsets` | tools and prompts as programs of requests; the choice of `vm_create` | done, proofs done |
| 8 | `AccessControl`, `ClusterOperations` | round tripper, validators, confirmation; programs carried out against a cluster | done, proofs done |

`ToolsetReload` composes with the abstract `ToolSurface` by refinement.
`ClusterProvider` contains the reload reduced to what it reads of the provider and
the locks it holds, `ToolsetReload` contains the provider reduced to the view it
gives (`world`); the two together are the callback chain. `ConfigReload`
contains the reload as one step that succeeds or changes nothing, which is what
`ToolSurface` and the theorem `Refinement` justify. `Serving` contains `ConfigReload`
reduced to its three publications. `ClusterOperations` composes `AccessControl` and
the toolset modules, which have no state of their own.

What comes next. Every safety property of the passing runs has its theorem (section 5).
Model: the merge of drop-in files, as a fold over sorted names against "the last file
that sets a key wins".

## 3. Modules

### `ClusterStateWatcher`

One `ClusterState` value. `started`, `stopCh`, `stoppedCh` (closed or not),
`loop` (the goroutine of `Watch`: not there, in its `select`, or past the ticker
case), `timer` and the callbacks it starts are those of the code; `cluster` is the
real cluster, `cache` what the shared discovery client remembers, `loaded` what the
tools were last selected against. A critical section of `w.mu` is one action:
`Watch`, `PollInvalidate` (before the lock), `PollCompare`, `Capture`,
`CloseStops`, `CloseEnds`. A `Close` that is between `w.mu.Unlock` and the second
`Lock` is `"waiting"`. Time is counted in units, `Elapse` moves the ticker and the
timer; a ticker drops ticks nobody receives.

`prompt` is chosen from `Prompts` at the start and never changes. In a behaviour with
`prompt` the code outruns the clock: time elapses only in a `Settled` state. The
defaults justify it (a poll every 30 s, a debounce of 5 s, reloads in between that take
less). Behaviours without it assume nothing about speed. The safety properties are
checked for both, `ChangesAreReloadedIfPrompt` is about the former. A reload by SIGHUP
(`server`) selects the tools as well, but leaves `lastKnownState` alone; see the
hazards in `PROJECT.json` for what that may miss.

### `ToolSurface` and `ToolsetReload`

`ToolSurface` is the contract of a reload as a client sees it: a transition begins
with a goal, withdraws only what the goal lacks, offers only what the goal has, and
the live configuration changes when the surface is the goal.

`ToolsetReload` is `applyToolsets`. `sdk` maps a name to the version on offer, a
pair of the configuration and the provider state it was built from; `enabled` is the
union of the four `enabledX` lists; `kind` walks through tools, prompts, resources
and templates as the commit does, `todo` is the rest of the current loop. Each SDK
call (`RemoveTools`, `AddTool`, ...) is a step, since clients list the items in
between. `RequestReload` is `ReloadConfiguration` with its validation,
`RequestReapply` the callback of a watcher: it pins no configuration and `Collect`
reads the installed one under `reloadMu`. `Broken` configurations pass validation
and fail in conversion.

### `ClusterProvider`

The kubeconfig provider and its file watchers. `file` is the kubeconfig on disk.
A task (goroutine) runs `reset` as `Resolve`, `Load`, `Swap`, `Join`, `Install`:
the two readings of the file and the wait for the old watcher are steps of their
own, all under `mu`. `WatchTargets` is `ReadWatcher` (without the lock), `Started`
or `Start`, then `Add` or `AddFails`. Each reset makes a watcher: slots stand for
instances, and one that nothing references any more is used again.
`Make` is a tool call's `managerForContext`. `Edit` changes the file in place or by
replacement, after which the kernel watches an inode that has gone.

`lost` is a history variable: it becomes true when an edit falls where the code
does not look (between reading and watching the file), or may not look from now on
(a replacement that cannot be loaded, no inotify watch). Properties about following
the file hold up to then; the run `cluster_provider_misfiled` shows what happens
otherwise.

### `ConfigReload`

`handler` is where the goroutine of `setupSIGHUPHandler` is in its loop: `waiting`
for a signal, about to `read`, `apply`, reopen the `log`, `swap` it, `publish` or
look at `oauth`; each step has its failing twin where the code has an error branch
(`ReadFails`, `ApplyFails`, `LogFails`, `CreateFails`). `server` is the MCP server's
configuration, `cfg` and `oauth` are `cfgState` and `oauthState`. `signal` is the
channel of capacity 1: a signal that finds it full is dropped. `Stop` is
`signal.Stop` and `close`, `StopReturns` the wait for `done`, `CloseLog` the deferred
close of the sink. A request that verifies a token is between `Arrive`, where it
loads `cfgState`, and `Decide`, where it loads `oauthState`; of it only `seen`, the
configuration it read, is kept.

What is equal about two configurations matters, not what they say: an issuer stands
for the fields compared by `HasProviderConfigChanged`, `wellKnown` for those of
`HasWellKnownConfigChanged`, an option for all that the command line can set.
`ValidateAssumption` is what `config.Validate` guarantees of a configuration it lets
through; the properties about OAuth rest on it.

### `Serving`

A call goes through the phases `received`, `verifying`, `authorized`, `limiting`,
`taking`, `allowed`, `snapshot`, `configured`, `exchanging`, `deriving`, `served`; each
step reads what the code reads at that point. `startup` is the configuration managers
keep, `mcp` the MCP server's, `cfg` and `oauth` those of the HTTP side;
`ReloadConfiguration`, `StoreConfig` and `StoreOAuth` publish a new one in the order of
the SIGHUP handler. The limiter's map and its buckets are separate, as in Go: a call
may hold a bucket that the map has lost to the reaper or to new limits, and a bucket
nothing refers to is used again. `ideal` is a history variable: what a session that is
never reaped would have. `configs` and `issuers` of a call record what was published
while it was under way, so that properties can speak of "as configured" around a
reload.

The reaper is invisible only if a bucket is full again when it is reaped.
`ConfigsAssumption` says so of the limits; no check in the code guarantees it, and a
rate low enough to refill in more than the idle time gives a session tokens back by
being reaped. Two more things the code does and the model has: the managers keep the
`require_oauth` they were made with, so that a reload which starts or stops requiring
OAuth does not reach `Derived`; and an exchange with a client and an audience but
without a strategy is left out silently while there is no OIDC provider.

### `ProviderStrategies`

One module for the two providers, since what can go wrong is the same and `strategy`
decides once. `Edit` changes the kubeconfig, `TreeChanges` the workspaces of kcp.
The reset of the single provider (`SingleOpens`, `SingleAssigns`, `SingleCloses`,
`SingleWatches`) holds no lock: two of them and a call overlap step by step. The reset
of kcp (`KcpLoads`, `KcpOpens`, `KcpDiscovers`, `KcpWatches`) holds `p.mu` up to the end
of the discovery; each step has its error return, and what was assigned before it
stays. `Poll` and `Fire` are the workspace watcher or the file watcher with its timer.
`Resolve` and `Serve` are a call of a tool: the default workspace is read without the
lock (`Torn` while it is written), then a manager is looked up or made under it.

`failed`, `disturbed` and `missed` are history variables: the last reset failed; the
kubeconfig changed between its two readings; a change fell where no watcher looks.
The properties hold up to those. Two observations: the fallback to the kubeconfig
at `pkg/kcp/provider.go:109-115` is never reached, because the discovery drops its
errors and returns at least the default workspace; and a reset that ends at a URL
without a workspace has stored the new base URL next to the client configuration of
the old one, until the next good reset.

### `KubeAPI` and the toolset modules

`KubeAPI` is a small language. A handler is a sequence of steps, a step is a request
with its path and two marks: `must`, whether its error is the call's (`Try` for errors
the code drops), and `when`, a condition on what has been read. Optional arguments and
branches before the first request make a set of programs. `CoreToolset` has the
operations of `pkg/kubernetes` and the tools built from them, `KubevirtToolset` the life
cycle, clone, creation and troubleshooting of virtual machines and the golden image,
`PluginToolsets` helm, tekton, kiali, kcp and the configuration tools. A tool is the
record of its hints and its programs. `VMResolution` is the choice of data source,
preference and instance type: pure functions over what was listed.

### `AccessControl` and `ClusterOperations`

`AccessControl` translates the round tripper: the kind, verb, scope and name that are
read off a path, the denied kinds, the validators in their order, the rules of
confirmation and what happens with a client that cannot be asked. Each validator is
the set of its possible answers.

`ClusterOperations` carries programs out. `Call` chooses an offered tool, `ConfirmTool`
applies the rules on tools, `Send`, `Check` and `Delegate` are the round tripper, the
`Serve...` actions the API server with resource versions, forced applies, conflicts and
permissions, `ServeFailure` any error, `Others` a change by somebody else.
`CallAsTheGuideSays` is the user who follows a prompt from its question to the tool.

## 4. Runs

| Run | Result | What it shows |
|---|---|---|
| `cluster_watcher_lifecycle` | pass | two callers of `Close`, restarts, two timer goroutines, one failing reload, one failing discovery request in any step. No `Close` is stranded, no channel is closed twice, loops never overlap; with prompt code every change is reloaded, also after failures |
| `cluster_watcher_lost_update` | violation | without promptness a change between a reload and the capture after it is lost |
| `toolset_reload` | pass | reloads of valid, rejected and broken configurations against re-applies: consistency, no rollback, no rejected configuration seen, the surface catches up, refinement of `ToolSurface` |
| `cluster_provider` | pass | two edits, overlapping resets, a reload, tool calls, a failing watcher and the shutdown: the default target is served, managers are where they belong, none is stale, the file is loaded in the end, `Close` returns |
| `cluster_provider_misfiled` | violation | an edit between the two readings in a reset files a manager under a context it does not target |
| `cluster_provider_close_hangs` | violation | when `fsnotify.NewWatcher` fails, `Close` waits for a goroutine that was never started |
| `config_reload` | pass | edits, signals, failures of every step, two requests and the stop: one configuration in all parts, the OAuth snapshot follows it, the last signal counts, the stop returns and the log is closed last |
| `config_reload_flags` | violation | a reload reads the files without the flags: the command line no longer overrides them |
| `serving` | pass | two requests of one session through authorization, limiter and token exchange, next to a reload published in three steps: limits hold and the reaper is invisible, the cluster sees a verified identity, exchanges are those configured during the call |
| `provider_strategies` | pass | edits, workspaces that come and go, lists that fail, two resets at once and a call: what is offered is served by the server of the last good reset, and the provider ends up with what there is |
| `cluster_operations` | pass | every tool and prompt with each of its programs, in seven settings: hints, denied kinds, confirmations and the licence hold, nothing is overwritten unseen, machines are as asked for |
| `cluster_operations_guide` | violation | the manifest of the golden image prompt has no name and cannot be applied by the tool its guide names |

Bounds. The watcher: two cluster states, one or two changes, one fault of each
kind, two callers of `Close` and two callbacks are what it takes for every pair of
actors to overlap; intervals of two to three units let a tick come before, with and
after the timer. The reload: two reloaders, two requests, two provider changes, four
configurations (two good, one rejected, one broken) and four names over three of the
four kinds: a third reloader would wait for `reloadMu` like the second. The
provider: two tasks (two callbacks at once, or a callback and a reload), two edits,
two contexts, a kubeconfig without current context, one with, one unreadable; four
watcher slots, since a racing `WatchTargets` may restart an instance nobody closes
and three would stop the model there. The
configuration: seven configurations, one for each way in which two can differ, be
rejected or be refused; two edits, so that a failing one can be repaired; three
signals, one in work, one in the channel and one that is dropped; two faults, so that
the log and the provider can both fail in one reload; two descriptors, the one in use
and the one being opened. A request (`Serving`): two requests of one session are what
it takes for one to hold a bucket that the other, the reaper or a reload discards;
a second session would have a bucket of its own and share only the discarding, which
two requests show as well; five configurations, which differ in limits, issuer and kind
of exchange; one reload, of which each request can see any part. The other providers:
two resets, since the callbacks of one watcher and the next overlap but a third
waits for a timer that the second has stopped; two servers, a nested and a direct
workspace besides the default, five kubeconfigs, one for each error return of a reset;
two edits, so that a bad one can be repaired. Operations: one call at a time, since
calls share nothing but the cluster, and one change by somebody else, which stands for
the other call; settings with and without rules, denied kinds, validation, a path
prefix, and with each kind of client; objects of the four kinds whose values decide on
a branch or on a validator. Every bound is a constant of the module and
appears in the guard of one environment action only.

`CHECK_DEADLOCK FALSE` is set where the system comes to rest: the budget of the
environment is spent and nobody has to call again. The other runs check for
deadlock: in the watcher time always elapses, in the other providers a call can always
be made, in `Serving` too, and `ClusterOperations` has a `Terminated` of its own.
`SYMMETRY` is used in `serving` only, on the requests, which are alike; that run has no
liveness property.

### Fairness

Goroutines that can run do run: weak fairness of the poll loop, the callbacks and
the calls of `Close`. Strong fairness is used where Go guarantees more than that: a
mutex is granted in the end to a goroutine that waits for it (a starving waiter is
served first), and a `select` chooses at random among ready cases, so the stop
channel of a loop is seen even when ticks or events keep coming. The SIGHUP handler
is one goroutine whose steps nothing disables, so weak fairness is enough for it; its
request to an issuer is taken to be answered or to fail. In `ProviderStrategies` polls,
the timer and the steps of a reset are weakly fair; a poll that sees what is known
already is no step. Clusters,
operators, editors of the kubeconfig and clients owe nothing: no fairness is assumed
of their actions.

## 5. Proofs

`ClusterStateWatcherProofs` proves `TypeOK` and, from it, the life cycle for every
number of callers, callbacks, states and every bound. The inductive invariant
`Lifecycle` adds to the safety properties what they need: a watcher that is not
started has no loop and fresh channels (`ClosedIsClean`); `stopCh` is closed exactly
while a caller waits in `Close`; `stoppedCh` is closed exactly when the loop of a
started watcher has ended. Without these "there is a loop to wait for" is not
inductive: `CloseEnds` renews the channels, and only the uniqueness of the waiting
caller excludes that they are renewed under another.

`ToolsetReloadProofs` proves `TypeOK`, the inductive invariant `Progress` and from
it `ConsistentBetweenReloads`, `RejectedIsNeverSeen`, `ReapplyKeepsTheConfiguration`
and the refinement of `ToolSurface`. `Progress` says, for the reload that holds
`reloadMu`, which kinds are already those of the candidate, which are still those of
the last reload, and how far the current one has come; the finished reload then has
nothing left of the previous one. The refinement has one step per action: the SDK
calls map to `Withdraw` and `Offer`, `Store` and `Publish` to the end of the
transition, everything else to a stutter.

`ConfigReloadProofs` proves `TypeOK`, the three safety invariants of the run and one
more, `VerificationIsConfigured` (`NeverUnconfigured`): a request reaches the
verification of tokens only under a configuration that names an issuer.
`Published` says what has been handed out at each step of the handler: after `Apply`
the server has `new`, after `Publish` so has `cfg`. That the snapshot is right when
the handler keeps the provider needs one more fact, `oauth.provider = oauth.issuer`:
the code compares the issuers and carries the provider over. `LogOwned` says that the
open files are the sink's and the one the handler is about to swap in, and that the
sink is closed only after the handler has ended; waiting for `done` is what makes it
hold.

`ClusterProviderProofs` proves `TypeOK`, the three safety invariants of its run, and
that nobody waits in vain.
`Holding` says that a task is inside `reset` exactly when it holds `p.mu`, and which of
its two readings of the kubeconfig it has made. `DefaultIsServed` speaks only of states in
which the lock is free, so `Served` carries it through a reset: the map and the
default context fit except between the swap of the map and the assignment of the
default context, and there the new map has the new default. `ReadOnce` says that until
an edit is lost both readings see one file, which files every manager under its own
context. `NoStaleManager` is the one that took an argument about the watcher:
`Channels` relates the channels and flags of an instance, `Watched` says that the
current instance is watching, or is about to be started, or that its event or timer is
pending, and `FreshOrNoticed` that wherever a manager is of another kubeconfig than
the file, an event, a timer or a reset past its first reading is still under way. When
everything is quiet none of these is left, so all managers are fresh. A tool call that
makes a manager in the middle of a reset is covered, since it reads the file as it is.
`NobodyStranded` is the safety half of `CloseReturnsWhereWatched`: `Attended` says that
`stopCh` of an instance is closed exactly while one reset or the shutdown waits for its
goroutine, and that an instance which was started has a goroutine, or one that has
ended, or a `Watch` that is about to start it. So whoever waits, with or without
`p.mu`, has somebody to wait for, unless `fsnotify.NewWatcher` has failed, which is
what the run `cluster_provider_close_hangs` shows.

`ServingProofs` has two inductive invariants. `Limiting` is about the limiter: a bucket
belongs to at most one session and a call that holds one holds it for its own session
(`Own`), with the limits it has read (`Taking`); what it contains is what a bucket that
is never reaped would contain (`ReapingIsInvisible`), which is inductive only with
`Earned`: the tokens of a bucket are at least what its idle time has earned it. A
bucket that is idle for `IdleLimit` then is full, and being reaped and made anew
changes nothing. That the limiter always finds an unused bucket, where Go allocates
one, is counted: more buckets than sessions and calls can refer to (`FreeBucket`).
`Credentials` is about the token: what has been judged is the token of the header
(`Verified`), every issuer and configuration a call has used was published
while it ran (`Current`), and what it was exchanged for fits them (`Exchanged`);
`IdentityIsVerified` and `ExchangedAsConfigured` are read off the last step.

`ProviderStrategiesProofs` proves `TypeOK` and the action property
`ServedUnlessResetFailed`. `Locked`: a reset of kcp has `p.mu` exactly from the load of
the kubeconfig to the replacement of the managers, with every field assigned. `Complete`
says what a reset that did not fail leaves for whoever gets the lock (a default
workspace that is offered, a client configuration that has been read), and that a
call which resolved its target since then finds it; `OneServer` that base URL and
managers are of one server unless the file changed between its two readings. Between
resets each of the three outcomes of `Serve` other than "served" contradicts one of
these.

`ToolProgramsProofs` is about the programs of the toolsets, which are data, and holds
for all kinds, documents and arguments that a call can name. A step is *well made* when
its path is that of its kind; from such a path the round tripper reads back the group,
kind, verb, name and namespace the step is about, under every path prefix
(`KindsAssumption` keeps the kind of namespaces from being named by its plural).
A tool is *honest* when none of its programs writes if it is said to read only, or
deletes if it is not said to be destructive: one lemma for each operation of the
client, one for each handler, one for each list of tools (`AllToolsAreHonest`,
`AllPromptsRead`, `ProgramsKeepHints`).

`ClusterOperationsProofs` carries that over to calls, with three inductive invariants.
`CallInvariant`: what a call has still to do consists of steps its hints allow
(`StepsOf`); its tool was confirmed if a rule is about it; and a request under way is
well made, not denied, and has passed what is said of the validators run so far
(`Validated`), with what is left of them in their order. When the request is sent no
validator is left, and `DeniedKindsAreUntouched`, `HintsAreKept`,
`MatchingRequestsWereConfirmed`, `AskedOnlyForPermitted` and `WindowsNeedsEULA` follow.
`MatchingRequestsWereConfirmed` needs that a rule about what a request does is a rule
about what is read off its path; `AskedOnlyForPermitted` that the review of the roles
is the first validator or none, so that it was passed before anybody was asked.
`UpdateInvariant` relates calls and the store: what a call has read of an object is no
newer than the object, and is the object if the versions are the same (`ReadOK`);
whatever the two overwriting tools have still to update they have read, or get in the
step before, which must not be skipped or fail in silence (`Held`). An update is
refused when the versions differ, hence `WritesOnlyWhatItRead`; and since a call writes
either a value of its program or what it has read, objects keep their type. `VMInvariant` is
about the choice of `vm_create`: until the step it was made for is left, what has been
chosen fits the arguments and the lists that were seen. Under it are lemmas about the
resolution itself: a loop that stops at the first match returns a match
(`FirstPosition`, by well-founded induction on positions), and the name that
`MatchInstancetypeBySize` returns is found again by the search for that name.

The theorems assume only the named assumptions on the constants: the
`ConstantsAssumption` of each module, `ValidateAssumption`, `FilesAssumption`,
`BoundsAssumption`, of `Serving` `ConfigsAssumption`, and of the operations the six
below. `ConfigsAssumption` is a condition on the configuration
and not a fact about the code: that `burst` is at most the rate times the idle limit,
without which `ReapingIsInvisible` is false (see `Serving` above). The provider's
assumption that there is at least one watcher instance (`Slots # {}`) only says that
`NewProvider` has made one. Arithmetic on the time counters is kept in a lemma of its
own (`CountersTypeOK`).

| Assumption | What justifies it |
|---|---|
| `KindsAssumption` | a call names a kind, never a plural: `namespaces` is what a path calls the kind `Namespace`. The other four excluded names are steps of the model which are no kinds of the cluster |
| `SettingsAssumption` | the path of the cluster's URL is a list of segments, and a client supports elicitation, does not, or there is none |
| `SubresourcesAssumption` | there is no core resource `scale`: with one, a path that ends in `namespaces/ns/scale` would be both a subresource of a namespace and a resource in it |
| `ChangesAssumption` | a bound |
| `ValuesAssumption` | closes the set of values under what programs write: whatever they apply or update is a value an object can have |
| `CatalogueAssumption` | what is listed is an object with a name, and only the five kinds `vm_create` lists are in the catalogue |

Only model-checked: every liveness property (fairness and `ENABLED` are out of the
prover's reach; of two of them the safety half is proved, `CloseNeverStranded` and
`NobodyStranded`): `ChangesAreReloadedIfPrompt` and `CloseReturnsEventually` of the
watcher, `SurfaceCatchesUp` of the reload, `KubeconfigIsLoaded` and
`CloseReturnsWhereWatched` of the provider, `KeepsUp` and `StopWaitsNotForEver` of the
SIGHUP handler, `FollowsItsSource` of the other providers.

## 6. Not modelled

- The merge of drop-in files and the decoding of TOML: `ConfigReload` and `Serving` read
  the files as one value, constrained by what `Validate` guarantees. The merge is
  planned.
- The classification of findings in the cluster health check, log parsing, output
  formats, text of prompts: formatting of what was read.
- Telemetry, metrics and their flush at the end, well-known endpoints: no decision
  depends on them.
- HTTP clients: `require_tls`, which clients made before a reload do not learn of, the
  clients that exchangers reuse, their cached assertions and their requests.
- The graceful shutdown of the HTTP server. Its order relative to the handler is in
  `ConfigReload` as `Stop`.
- Managers in a cluster (no kubeconfig, nothing to reset for), the contexts made up
  for workspaces of kcp, and the life cycle of the workspace watcher, which is
  built like that of the cluster state watcher. In `ClusterProvider` making a client for a context
  that the kubeconfig defines always succeeds.
- Watchers that overlapping resets of the single provider leave behind: they only add
  resets to those `ProviderStrategies` has.
- The GVK filter, the registries that `init` functions fill before `main`, and the
  conversions between types of the SDK; the internals of the MCP SDK, client-go and
  fsnotify appear as the steps the code takes through them. The Helm and Kiali services
  are external and known by their requests.
