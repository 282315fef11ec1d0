---------------------------- MODULE ConfigReload ----------------------------
(***************************************************************************)
(* The reload of the configuration on SIGHUP: setupSIGHUPHandler of        *)
(* pkg/kubernetes-mcp-server/cmd/root.go, the states it publishes to       *)
(* (pkg/config/state.go, pkg/oauth/state.go), the log sink                 *)
(* (pkg/logging/sink.go) and the authorization of requests that reads the  *)
(* two states (pkg/http/authorization.go).                                 *)
(*                                                                         *)
(* A goroutine receives the signal, reads the configuration, applies it to *)
(* the MCP server, reopens the log, publishes the configuration and, where *)
(* it has changed, makes the OIDC provider anew.  Each of these can fail   *)
(* after the ones before have taken effect.  Requests are authorized at    *)
(* the same time, and the server may be stopped at any time.               *)
(*                                                                         *)
(* Simplifications.                                                        *)
(*   - The configuration files are one value that is read in one step.     *)
(*   - ReloadConfiguration is one step that succeeds or changes nothing:   *)
(*     that is what module ToolsetReload shows.                            *)
(*   - An issuer stands for the pair of authorization_url and              *)
(*     certificate_authority, wellKnown for the other fields of an OAuth   *)
(*     snapshot, option for what a command line flag can set.              *)
(*   - Of a request, only the two snapshots it decides on are kept.        *)
(***************************************************************************)
EXTENDS Naturals

CONSTANTS
    Configs,         \* contents of the configuration files
    Unreadable,      \* contents that config.Read rejects
    Invalid,         \* those that Validate rejects
    Unconvertible,   \* those with an item that applyToolsets cannot convert
    Startup,         \* the configuration the program is started with
    IssuerOf,        \* the issuer of a configuration
    NoIssuer,        \* authorization_url is not set; no OIDC provider
    RequiresOAuth,   \* configurations with require_oauth
    SkipsJWT,        \* configurations with skip_jwt_verification
    WellKnownOf,     \* what else the OAuth snapshot holds
    OptionOf,        \* the value of an option
    FlagOption,      \* its value on the command line
    Unset,           \* the flag is not given
    LogsToFile,      \* configurations that name a log file
    Descriptors,     \* file descriptors of log files
    Requests,        \* HTTP requests
    Nil,             \* no value
    MaxEdits,        \* bound: changes of the configuration files
    MaxSignals,      \* bound: signals
    MaxFaults        \* bound: log files and OIDC providers that cannot be made

Acceptable == Configs \ (Invalid \cup Unconvertible)

Options == {OptionOf[c] : c \in Configs} \cup {FlagOption}

StaticConfigs == [file : Configs, option : Options]

Issuers == {IssuerOf[c] : c \in Configs} \cup {NoIssuer}

ASSUME ConstantsAssumption ==
    /\ Unreadable \notin Configs
    /\ Invalid \subseteq Configs /\ Unconvertible \subseteq Configs
    /\ Startup \in Acceptable
    /\ LogsToFile \subseteq Configs /\ Descriptors # {}
    /\ Nil \notin Descriptors \cup Configs \cup StaticConfigs
    /\ MaxEdits \in Nat /\ MaxSignals \in Nat /\ MaxFaults \in Nat

\* validateSkipJWTVerification: a configuration that requires OAuth names an
\* issuer or opts out of the verification.  Validate rejects others, and
\* issuers without require_oauth.
ASSUME ValidateAssumption ==
    \A c \in Configs \ Invalid :
        /\ c \in RequiresOAuth => IssuerOf[c] # NoIssuer \/ c \in SkipsJWT
        /\ c \notin RequiresOAuth => IssuerOf[c] = NoIssuer

VARIABLES
    disk,       \* the configuration files
    signal,     \* the channel sigHupCh holds a signal
    stopped,    \* the channel is closed
    handler,    \* where the handler's goroutine is
    new,        \* newConfig
    opened,     \* the log file it has just opened
    server,     \* the configuration of the MCP server
    cfg,        \* cfgState
    oauth,      \* oauthState
    sink,       \* the descriptor the log is written to
    open,       \* the descriptors that are open
    seen,       \* per request that is being verified: its staticConfig
    exit,       \* how far the program's end has come
    failed,     \* the provider of the configuration could not be made
    announced,  \* a signal came since the last edit or failure
    edits, signals, faults

channel == <<signal, stopped>>
states  == <<server, cfg, oauth>>
log     == <<sink, open>>
budget  == <<edits, signals, faults>>
vars    == <<disk, channel, handler, new, opened, states, log, seen, exit,
             failed, announced, budget>>

-----------------------------------------------------------------------------

\* A configuration as read from the files.
Read(c) == [file |-> c, option |-> OptionOf[c]]

\* Complete: the flags of the command line override it.
WithFlags(conf) ==
    [conf EXCEPT !.option = IF FlagOption = Unset THEN @ ELSE FlagOption]

\* SnapshotFromConfig.
Snapshot(c, provider) ==
    [issuer |-> IssuerOf[c], wellKnown |-> WellKnownOf[c], provider |-> provider]

\* CreateOIDCProviderAndClient: no issuer, no provider.
ProviderOf(c) == IssuerOf[c]

Init ==
    /\ disk = Startup
    /\ signal = FALSE /\ stopped = FALSE
    /\ handler = "waiting"
    /\ new = Nil
    /\ opened = Nil
    /\ server = WithFlags(Read(Startup))
    /\ cfg = WithFlags(Read(Startup))
    /\ oauth = Snapshot(Startup, ProviderOf(Startup))
    /\ sink = IF Startup \in LogsToFile THEN CHOOSE d \in Descriptors : TRUE ELSE Nil
    /\ open = {sink} \ {Nil}
    /\ seen = [q \in Requests |-> Nil]
    /\ exit = "serving"
    /\ failed = FALSE
    /\ announced = FALSE
    /\ edits = 0 /\ signals = 0 /\ faults = 0

-----------------------------------------------------------------------------
\* The operator.

Edit ==
    /\ edits < MaxEdits
    /\ edits' = edits + 1
    /\ disk' \in (Configs \cup {Unreadable}) \ {disk}
    /\ announced' = FALSE
    /\ UNCHANGED <<channel, handler, new, opened, states, log, seen, exit, failed,
                   signals, faults>>

\* Mutant: the channel has no buffer.
MutantSignal ==
    /\ ~stopped
    /\ signals < MaxSignals
    /\ signals' = signals + 1
    /\ signal' = (signal \/ handler = "waiting")
    /\ announced' = TRUE
    /\ UNCHANGED <<disk, stopped, handler, new, opened, states, log, seen, exit,
                   failed, edits, faults>>

\* SIGHUP: os/signal does not wait for room in the channel, which has one.
Signal ==
    /\ ~stopped
    /\ signals < MaxSignals
    /\ signals' = signals + 1
    /\ signal' = TRUE
    /\ announced' = TRUE
    /\ UNCHANGED <<disk, stopped, handler, new, opened, states, log, seen, exit,
                   failed, edits, faults>>

-----------------------------------------------------------------------------
\* The handler.

\* for range sigHupCh: a signal that is buffered is handled, also when the
\* channel has been closed since.
Receive ==
    /\ handler = "waiting"
    /\ signal
    /\ signal' = FALSE
    /\ handler' = "read"
    /\ UNCHANGED <<disk, stopped, new, opened, states, log, seen, exit, failed,
                   announced, budget>>

HandlerEnds ==
    /\ handler = "waiting"
    /\ stopped /\ ~signal
    /\ handler' = "ended"
    /\ UNCHANGED <<disk, channel, new, opened, states, log, seen, exit, failed,
                   announced, budget>>

\* continue: the handler gives up on this signal.
GiveUp == handler' = "waiting" /\ new' = Nil

\* Mutant: the handler goes on without a configuration.
MutantReadFails ==
    /\ handler = "read"
    /\ disk = Unreadable
    /\ handler' = "apply"
    /\ UNCHANGED <<disk, channel, new, opened, states, log, seen, exit, failed,
                   announced, budget>>

ReadFails ==
    /\ handler = "read"
    /\ disk = Unreadable
    /\ GiveUp
    /\ UNCHANGED <<disk, channel, opened, states, log, seen, exit, failed, announced,
                   budget>>

\* config.Read, without the flags.
ReadFiles ==
    /\ handler = "read"
    /\ disk # Unreadable
    /\ new' = Read(disk)
    /\ handler' = "apply"
    /\ UNCHANGED <<disk, channel, opened, states, log, seen, exit, failed, announced,
                   budget>>

\* ReloadConfiguration rejects it, or finds it cannot apply it.
ApplyFails ==
    /\ handler = "apply"
    /\ new.file \notin Acceptable
    /\ GiveUp
    /\ UNCHANGED <<disk, channel, opened, states, log, seen, exit, failed, announced,
                   budget>>

Apply ==
    /\ handler = "apply"
    /\ new.file \in Acceptable
    /\ server' = new
    /\ handler' = "log"
    /\ UNCHANGED <<disk, channel, new, opened, cfg, oauth, log, seen, exit, failed,
                   announced, budget>>

\* logSink.Reload opens the log file, if there is one, outside its lock ...
OpenLog ==
    /\ handler = "log"
    /\ IF new.file \in LogsToFile
         THEN /\ opened' \in Descriptors \ open
              /\ open' = open \cup {opened'}
         ELSE opened' = Nil /\ UNCHANGED open
    /\ handler' = "swap"
    /\ UNCHANGED <<disk, channel, new, states, sink, seen, exit, failed, announced,
                   budget>>

\* ... and switches to it and closes the previous one under the lock.
SwapLog ==
    /\ handler = "swap"
    /\ sink' = opened
    /\ open' = open \ {sink}
    /\ opened' = Nil
    /\ handler' = "publish"
    /\ UNCHANGED <<disk, channel, new, states, seen, exit, failed, announced, budget>>

OpenFails ==
    /\ handler = "log"
    /\ new.file \in LogsToFile
    /\ faults < MaxFaults
    /\ faults' = faults + 1

\* Mutant: the reload ends there.
MutantLogFails ==
    /\ OpenFails
    /\ GiveUp
    /\ UNCHANGED <<disk, channel, opened, states, log, seen, exit, failed, announced,
                   edits, signals>>

\* The log goes on to where it went, and so does the reload.
LogFails ==
    /\ OpenFails
    /\ handler' = "publish"
    /\ UNCHANGED <<disk, channel, new, opened, states, log, seen, exit, failed,
                   announced, edits, signals>>

\* cfgState.Store: from here on requests see the configuration.
Publish ==
    /\ handler = "publish"
    /\ cfg' = new
    /\ handler' = "oauth"
    /\ UNCHANGED <<disk, channel, new, opened, server, oauth, log, seen, exit, failed,
                   announced, budget>>

\* HasProviderConfigChanged and, where that is not so,
\* HasWellKnownConfigChanged of the snapshot in use and of the new one.
ProviderConfigChanged == oauth.issuer # IssuerOf[new.file]

\* Mutant: nothing but the provider counts.
MutantWellKnownChanged == FALSE

WellKnownChanged == oauth.wellKnown # WellKnownOf[new.file]

\* The provider stays.
KeepProvider ==
    /\ handler = "oauth"
    /\ ~ProviderConfigChanged
    /\ oauth' = IF WellKnownChanged THEN Snapshot(new.file, oauth.provider) ELSE oauth
    /\ failed' = FALSE
    /\ GiveUp
    /\ UNCHANGED <<disk, channel, opened, server, cfg, log, seen, exit, announced,
                   budget>>

CreateProvider ==
    /\ handler = "oauth"
    /\ ProviderConfigChanged
    /\ oauth' = Snapshot(new.file, ProviderOf(new.file))
    /\ failed' = FALSE
    /\ GiveUp
    /\ UNCHANGED <<disk, channel, opened, server, cfg, log, seen, exit, announced,
                   budget>>

\* The issuer cannot be reached: the snapshot stays.
CreateFails ==
    /\ handler = "oauth"
    /\ ProviderConfigChanged
    /\ IssuerOf[new.file] # NoIssuer
    /\ faults < MaxFaults
    /\ faults' = faults + 1
    /\ failed' = TRUE
    /\ announced' = FALSE
    /\ GiveUp
    /\ UNCHANGED <<disk, channel, opened, states, log, seen, exit, edits, signals>>

-----------------------------------------------------------------------------
\* The authorization of a request: it loads the configuration ...

\* ... which decides unless a token is to be verified,
Arrive(q) ==
    /\ exit = "serving"
    /\ seen[q] = Nil
    /\ cfg.file \in RequiresOAuth
    /\ ~(cfg.file \in SkipsJWT /\ IssuerOf[cfg.file] = NoIssuer)
    /\ seen' = [seen EXCEPT ![q] = cfg.file]
    /\ UNCHANGED <<disk, channel, handler, new, opened, states, log, exit, failed,
                   announced, budget>>

\* and later the OAuth snapshot: the token is verified with its provider, if
\* there is one, and refused otherwise.
Decide(q) ==
    /\ seen[q] # Nil
    /\ seen' = [seen EXCEPT ![q] = Nil]
    /\ UNCHANGED <<disk, channel, handler, new, opened, states, log, exit, failed,
                   announced, budget>>

-----------------------------------------------------------------------------
\* The end of the program.

\* Mutant: the channel is not closed.
MutantStop ==
    /\ exit = "serving"
    /\ exit' = "stopping"
    /\ UNCHANGED <<disk, channel, handler, new, opened, states, log, seen, failed,
                   announced, budget>>

\* Run returns; stopSIGHUP unregisters and closes the channel ...
Stop ==
    /\ exit = "serving"
    /\ stopped' = TRUE
    /\ exit' = "stopping"
    /\ UNCHANGED <<disk, signal, handler, new, opened, states, log, seen, failed,
                   announced, budget>>

\* Mutant: it does not wait.
MutantStopReturns ==
    /\ exit = "stopping"
    /\ exit' = "stopped"
    /\ UNCHANGED <<disk, channel, handler, new, opened, states, log, seen, failed,
                   announced, budget>>

\* ... and waits for the handler.
StopReturns ==
    /\ exit = "stopping"
    /\ handler = "ended"
    /\ exit' = "stopped"
    /\ UNCHANGED <<disk, channel, handler, new, opened, states, log, seen, failed,
                   announced, budget>>

\* The deferred logSink.Close of the command.
CloseLog ==
    /\ exit = "stopped"
    /\ sink' = Nil
    /\ open' = open \ {sink}
    /\ exit' = "closed"
    /\ UNCHANGED <<disk, channel, handler, new, opened, states, seen, failed,
                   announced, budget>>

-----------------------------------------------------------------------------

HandlerStep ==
    \/ Receive \/ HandlerEnds \/ ReadFails \/ ReadFiles \/ ApplyFails \/ Apply
    \/ OpenLog \/ SwapLog \/ LogFails \/ Publish \/ KeepProvider
    \/ CreateProvider \/ CreateFails

Next ==
    \/ Edit \/ Signal
    \/ HandlerStep
    \/ \E q \in Requests : Arrive(q) \/ Decide(q)
    \/ Stop \/ StopReturns \/ CloseLog

Spec == Init /\ [][Next]_vars

\* The handler runs, its requests to the issuer are answered or fail, and Run
\* goes on once it returns.  Nobody has to edit, to signal, to send requests
\* or to stop the program.
Fairness ==
    /\ WF_vars(HandlerStep)
    /\ WF_vars(StopReturns)
    /\ WF_vars(CloseLog)

FairSpec == Spec /\ Fairness

-----------------------------------------------------------------------------
(***************************************************************************)
(* Properties.                                                             *)
(***************************************************************************)

Snapshots ==
    [issuer : Issuers, wellKnown : {WellKnownOf[c] : c \in Configs}, provider : Issuers]

\* The type invariant.
TypeOK ==
    /\ disk \in Configs \cup {Unreadable}
    /\ signal \in BOOLEAN /\ stopped \in BOOLEAN
    /\ handler \in {"waiting", "read", "apply", "log", "swap", "publish", "oauth", "ended"}
    /\ new \in StaticConfigs \cup {Nil}
    /\ new = Nil <=> handler \in {"waiting", "read", "ended"}
    /\ opened \in Descriptors \cup {Nil}
    /\ server \in StaticConfigs /\ cfg \in StaticConfigs
    /\ oauth \in Snapshots
    /\ sink \in Descriptors \cup {Nil}
    /\ open \in SUBSET Descriptors
    /\ seen \in [Requests -> Configs \cup {Nil}]
    /\ exit \in {"serving", "stopping", "stopped", "closed"}
    /\ failed \in BOOLEAN /\ announced \in BOOLEAN
    /\ edits \in Nat /\ signals \in Nat /\ faults \in Nat

\* Except while a reload that the MCP server has accepted is being published,
\* the MCP server and the HTTP middleware use one configuration, whatever
\* failed ("if this fails, we skip the OAuth state and config state updates
\* to avoid inconsistent state", root.go:440).
OneConfiguration ==
    handler \notin {"log", "swap", "publish"} => cfg = server

\* Except while that is going on, or after the provider could not be made,
\* the OAuth snapshot is that of the configuration, provider included.
OAuthFollows ==
    handler # "oauth" /\ ~failed =>
        oauth = Snapshot(cfg.file, ProviderOf(cfg.file))

\* A request that verifies a token was told by its configuration whom to ask:
\* the answer 500, "JWT verification not configured", is never given
\* (authorization.go:150-158), whatever the files held meanwhile.
VerificationIsConfigured ==
    \A q \in Requests : seen[q] # Nil => IssuerOf[seen[q]] # NoIssuer

\* When the program has closed its log, no log file is left open and the
\* handler opens none any more ("the goroutine accesses m.logSink, which the
\* deferred Close would otherwise race with", root.go:395).
LogIsClosedLast ==
    exit = "closed" => open = {} /\ opened = Nil

\* The last signal counts, though signals coalesce and reloads fail: when
\* one has come since the last edit and the last failure, the configuration
\* on disk, if it is acceptable, ends up in all three places.
KeepsUp ==
    <>[](announced /\ disk \in Acceptable /\ exit = "serving" =>
           /\ server.file = disk /\ cfg.file = disk
           /\ oauth = Snapshot(disk, ProviderOf(disk)))

\* stopSIGHUP returns, also when signals are waiting and reloads fail.
StopWaitsNotForEver ==
    exit = "stopping" ~> exit = "stopped"

\* "CLI arguments override TOML configuration values"
\* (docs/configuration.md:715).
CommandLineWins ==
    FlagOption # Unset => server.option = FlagOption /\ cfg.option = FlagOption
=============================================================================
