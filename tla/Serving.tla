------------------------------ MODULE Serving ------------------------------
(***************************************************************************)
(* A request over HTTP from the authorization middleware to the client of  *)
(* the cluster it is served with, while SIGHUP publishes configurations:   *)
(* pkg/http/authorization.go, the rate limiter of pkg/mcp/middleware.go,   *)
(* the token exchange of pkg/kubernetes and Manager.Derived.               *)
(*                                                                         *)
(* Four copies of the configuration are read on the way: the one of the    *)
(* start, which managers keep; the MCP server's; the one of the HTTP side  *)
(* and the token exchange; and the OAuth snapshot, of which the issuer of  *)
(* its provider is followed, "" for no provider.  Module ConfigReload has  *)
(* the publisher in detail.  A configuration is a record:                  *)
(*   rate, burst    rate_limit_rps, 0 for none, per unit of time, and      *)
(*                  rate_limit_burst                                       *)
(*   requireOAuth, issuer ("" for no authorization_url)                    *)
(*   mode           cluster_auth_mode, resolved                            *)
(*   exchange       "none", "sts" (client and audience without a           *)
(*                  strategy) or "strategy"                                *)
(*   params         all other fields an exchange depends on                *)
(*                                                                         *)
(* Simplifications.                                                        *)
(*   - The unit of time is the reaper's period.  Time stands still between *)
(*     the limiter's critical section and the Allow that follows it.       *)
(*   - A token is verified or not, an exchange succeeds or fails, at will. *)
(*   - Over STDIO there is no middleware and no token: not modelled.       *)
(***************************************************************************)
EXTENDS Integers, FiniteSets

CONSTANTS
    Calls, Sessions, Configs,
    DefaultRateLimitBurst,
    IdleLimit,     \* units after which the reaper takes a session for stale
    MaxReloads     \* bound on reloads

NoSession == "no session"

\* What Validate guarantees, and that a bucket is full again when it is
\* reaped, which no check of the code guarantees.
ConfigsAssumption ==
    \A config \in Configs :
        /\ config.rate \in Nat /\ config.burst \in Nat
        /\ config.mode \in {"passthrough", "kubeconfig"}
        /\ config.exchange \in {"none", "sts", "strategy"}
        /\ config.issuer # "" => config.requireOAuth
        /\ config.mode = "kubeconfig" => /\ ~config.requireOAuth
                                         /\ config.exchange = "none"
        /\ config.exchange # "none" => config.requireOAuth
        /\ config.rate > 0 => /\ config.burst <= config.rate * IdleLimit
                              /\ DefaultRateLimitBurst
                                    <= config.rate * IdleLimit

ASSUME ConfigsAssumption
ASSUME BoundsAssumption ==
    /\ IdleLimit \in Nat /\ MaxReloads \in Nat
    /\ DefaultRateLimitBurst \in Nat \ {0}
    /\ IsFiniteSet(Calls) /\ IsFiniteSet(Sessions) /\ NoSession \notin Sessions

VARIABLES
    startup, mcp, cfg, oauth,  \* the copies of the configuration
    reload,     \* [step, new, left]: the publisher
    current,    \* the limits the limiter has seen last
    limiters,   \* [Sessions -> bucket or 0]
    buckets,    \* the limiters' objects: [Buckets -> [limits, tokens, idle]]
    due,        \* the reaper's ticker has fired
    ideal,      \* history: [Sessions -> tokens of a bucket never reaped]
    sts,        \* the cached configuration of exchanges, with its key
    calls       \* [Calls -> call]; configs and issuers are a history, what
                \* was published during the call

configs == <<startup, mcp, cfg, oauth, reload>>
limiter == <<current, limiters, buckets, due, ideal>>
vars    == <<configs, limiter, sts, calls>>

-----------------------------------------------------------------------------

Burst(config) == IF config.burst = 0 THEN DefaultRateLimitBurst
                                     ELSE config.burst
Limits(config) == [rate |-> config.rate, burst |-> Burst(config)]

NoLimits == [rate |-> 0, burst |-> 0]

Buckets == 1..Cardinality(Calls) + Cardinality(Sessions)
Full(limits) == [limits |-> limits, tokens |-> limits.burst, idle |-> 0]
Unused == Full(NoLimits)

NoSts == [key |-> <<"", "">>, made |-> <<"", "">>]

\* The fields that a phase does not use have the values of Idle.
Idle == [phase |-> "idle", header |-> "none", session |-> NoSession,
         limits |-> NoLimits, bucket |-> 0, token |-> "own", issuer |-> "",
         config |-> startup, sts |-> NoSts, outcome |-> "",
         with |-> <<"", "">>,
         configs |-> {}, issuers |-> {}]

Begun(call) == [Idle EXCEPT !.configs = call.configs, !.issuers = call.issuers]
Allowed(call) == [Begun(call) EXCEPT !.phase = "allowed", !.token = call.token]

Now(c, call) == calls' = [calls EXCEPT ![c] = call]

Phases == {"idle", "received", "verifying", "authorized", "limiting", "taking",
           "allowed", "snapshot", "configured", "exchanging", "deriving",
           "served"}

Outcomes == {"", "own", "bearer", "custom", "exchanged"}

\* What the variables hold; a stale session is seen by the reaper before it
\* is idle for longer than one more period.
TypeOK ==
    /\ {startup, mcp, cfg} \subseteq Configs
    /\ oauth \in {config.issuer : config \in Configs}
    /\ reload.step \in {"none", "mcp", "cfg"} /\ reload.new \in Configs
    /\ reload.left \in 0..MaxReloads
    /\ current \in {Limits(config) : config \in Configs} \cup {NoLimits}
    /\ due \in BOOLEAN
    /\ \A s \in Sessions :
          /\ limiters[s] \in Buckets \cup {0}
          /\ ideal[s] \in 0..current.burst
          /\ limiters[s] # 0 => buckets[limiters[s]].limits = current
    /\ \A b \in Buckets :
          /\ buckets[b].tokens \in 0..buckets[b].limits.burst
          /\ buckets[b].idle \in 0..IdleLimit + 1
    /\ \A c \in Calls :
          /\ calls[c].phase \in Phases /\ calls[c].outcome \in Outcomes
          /\ calls[c].phase = "taking" => calls[c].bucket # 0
          /\ calls[c].configs \subseteq Configs

Init ==
    /\ startup \in Configs
    /\ mcp = startup /\ cfg = startup /\ oauth = startup.issuer
    /\ reload = [step |-> "none", new |-> startup, left |-> MaxReloads]
    /\ current = NoLimits
    /\ limiters = [s \in Sessions |-> 0]
    /\ buckets = [b \in Buckets |-> Unused]
    /\ due = FALSE
    /\ ideal = [s \in Sessions |-> 0]
    /\ sts = NoSts
    /\ calls = [c \in Calls |-> Idle]

-----------------------------------------------------------------------------
(* The handler of SIGHUP publishes a configuration that is valid.          *)

Active(c) == calls[c].phase \notin {"idle", "served"}

\* The MCP server has taken it.
ReloadConfiguration ==
    /\ reload.step = "none" /\ reload.left > 0
    /\ \E new \in Configs \ {cfg} :
          /\ mcp' = new
          /\ reload' = [step |-> "mcp", new |-> new, left |-> reload.left - 1]
    /\ UNCHANGED <<startup, cfg, oauth, limiter, sts, calls>>

StoreConfig ==
    /\ reload.step = "mcp"
    /\ cfg' = reload.new
    /\ reload' = [reload EXCEPT !.step = "cfg"]
    /\ calls' = [c \in Calls |->
          IF Active(c) THEN [calls[c] EXCEPT !.configs = @ \cup {cfg'}]
                       ELSE calls[c]]
    /\ UNCHANGED <<startup, mcp, oauth, limiter, sts>>

\* A provider is made for another issuer, or cannot be made; without an
\* issuer there is none.
StoreOAuth ==
    /\ reload.step = "cfg"
    /\ oauth' \in IF reload.new.issuer = "" THEN {""}
                  ELSE {oauth, reload.new.issuer}
    /\ reload' = [reload EXCEPT !.step = "none"]
    /\ calls' = [c \in Calls |->
          IF Active(c) THEN [calls[c] EXCEPT !.issuers = @ \cup {oauth'}]
                       ELSE calls[c]]
    /\ UNCHANGED <<startup, mcp, cfg, limiter, sts>>

-----------------------------------------------------------------------------
(* The HTTP side.                                                          *)

Headers == {"none", "bearer", "custom", "both"}

Receive(c) ==
    /\ ~Active(c)
    /\ \E header \in Headers, session \in Sessions \cup {NoSession} :
          Now(c, [Idle EXCEPT !.phase = "received", !.header = header,
                              !.session = session,
                              !.configs = {cfg}, !.issuers = {oauth}])
    /\ UNCHANGED <<configs, limiter, sts>>

HasBearer(header) == header \in {"bearer", "both"}

\* Mutant: the header of old comes first.
MutantCredential(header) ==
    CASE header \in {"custom", "both"} -> "custom"
      [] header = "bearer"             -> "bearer"
      [] header = "none"               -> "own"

\* The header that counts for the cluster: the standard one, else the one
\* of old.
Credential(header) ==
    CASE HasBearer(header)   -> "bearer"
      [] header = "custom"   -> "custom"
      [] header = "none"     -> "own"

Passed(call) == [call EXCEPT !.phase = "authorized", !.header = "none",
                             !.token = Credential(call.header)]

\* The configuration is loaded: without an issuer the cluster is the one to
\* judge the token.
Authorize(c) ==
    LET call == calls[c]
    IN /\ call.phase = "received"
       /\ Now(c, IF ~cfg.requireOAuth THEN Passed(call)
                 ELSE IF ~HasBearer(call.header) THEN Idle
                 ELSE IF cfg.issuer = "" THEN Passed(call)
                 ELSE [call EXCEPT !.phase = "verifying"])
       /\ UNCHANGED <<configs, limiter, sts>>

\* The OAuth snapshot is loaded after that.
Verify(c) ==
    LET call == calls[c]
    IN /\ call.phase = "verifying"
       /\ \/ oauth # "" /\ Now(c, Passed(call))
          \/ Now(c, Idle)
       /\ UNCHANGED <<configs, limiter, sts>>

-----------------------------------------------------------------------------
(* The rate limiter.                                                       *)

\* Go keeps what the map or a call refers to.
Kept(objects, map, callers) ==
    [b \in Buckets |->
        IF \/ \E s \in Sessions : map[s] = b
           \/ \E c \in Calls : callers[c].bucket = b
        THEN objects[b] ELSE Unused]

\* configFn reads the MCP server's configuration before mu is taken.
ReadLimits(c) ==
    LET call == calls[c]
    IN /\ call.phase = "authorized"
       /\ Now(c, IF mcp.rate = 0 \/ call.session = NoSession
                 THEN Allowed(call)
                 ELSE [call EXCEPT !.phase = "limiting",
                                   !.limits = Limits(mcp)])
       /\ UNCHANGED <<configs, limiter, sts>>

\* Limits that differ from those seen last discard everything.
Surviving(limits) == IF limits = current THEN limiters
                                         ELSE [s \in Sessions |-> 0]

\* Mutant: lastSeen stays what it was when the limiter was made.
MutantSeen(bucket) == buckets

Seen(bucket) == [buckets EXCEPT ![bucket].idle = 0]

\* Under mu.
FindLimiter(c) ==
    LET call    == calls[c]
        s       == call.session
        map     == Surviving(call.limits)
        free    == {b \in Buckets : /\ \A t \in Sessions : map[t] # b
                                    /\ \A d \in Calls : calls[d].bucket # b}
        bucket  == IF map[s] # 0 THEN map[s]
                   ELSE CHOOSE b \in free : TRUE
        objects == IF map[s] # 0 THEN Seen(bucket)
                   ELSE [buckets EXCEPT ![bucket] = Full(call.limits)]
    IN /\ call.phase = "limiting"
       /\ current' = call.limits
       /\ limiters' = [map EXCEPT ![s] = bucket]
       /\ ideal' = IF call.limits = current THEN ideal
                   ELSE [t \in Sessions |-> call.limits.burst]
       /\ Now(c, [call EXCEPT !.phase = "taking", !.bucket = bucket])
       /\ buckets' = Kept(objects, limiters', calls')
       /\ UNCHANGED <<configs, due, sts>>

\* Allow, outside mu.
Allow(c) ==
    LET call   == calls[c]
        bucket == call.bucket
        some   == buckets[bucket].tokens > 0
    IN /\ call.phase = "taking"
       /\ Now(c, IF some THEN Allowed(call) ELSE Idle)
       /\ buckets' = Kept(IF some
                          THEN [buckets EXCEPT ![bucket].tokens = @ - 1]
                          ELSE buckets, limiters, calls')
       /\ ideal' = IF some /\ limiters[call.session] = bucket
                   THEN [ideal EXCEPT ![call.session] = @ - 1] ELSE ideal
       /\ UNCHANGED <<configs, current, limiters, due, sts>>

\* What is in a bucket after a unit of time.
Refilled(tokens, limits) ==
    IF tokens + limits.rate > limits.burst THEN limits.burst
                                           ELSE tokens + limits.rate

\* A unit of time: buckets fill up, the reaper's ticker fires.
Elapse ==
    /\ \A c \in Calls : calls[c].phase # "taking"
    /\ ~due
    /\ due' = TRUE
    /\ buckets' = [b \in Buckets |->
          LET old == buckets[b]
          IN [old EXCEPT !.tokens = Refilled(@, old.limits),
                         !.idle = IF old = Unused THEN 0 ELSE @ + 1]]
    /\ ideal' = [s \in Sessions |-> Refilled(ideal[s], current)]
    /\ UNCHANGED <<configs, current, limiters, sts, calls>>

\* Mutant: nothing is deleted.
MutantReap == due /\ due' = FALSE
                  /\ UNCHANGED <<configs, current, limiters, buckets, ideal,
                                 sts, calls>>

\* The reaper's critical section.
Reap ==
    /\ due
    /\ due' = FALSE
    /\ limiters' = [s \in Sessions |->
          IF limiters[s] # 0 /\ buckets[limiters[s]].idle > IdleLimit
          THEN 0 ELSE limiters[s]]
    /\ buckets' = Kept(buckets, limiters', calls)
    /\ UNCHANGED <<configs, current, ideal, sts, calls>>

-----------------------------------------------------------------------------
(* The credentials.                                                        *)

LoadSnapshot(c) ==
    /\ calls[c].phase = "allowed"
    /\ Now(c, [calls[c] EXCEPT !.phase = "snapshot", !.issuer = oauth])
    /\ UNCHANGED <<configs, limiter, sts>>

LoadConfig(c) ==
    /\ calls[c].phase = "snapshot"
    /\ Now(c, [calls[c] EXCEPT !.phase = "configured", !.config = cfg])
    /\ UNCHANGED <<configs, limiter, sts>>

\* Mutant: the token URL is not in the key.
MutantStsConfigKey(issuer, config) == <<"", config.params>>

StsConfigKey(issuer, config) == <<issuer, config.params>>

\* Under stsConfigMu; without a strategy or a token URL there is none.
GetOrBuildStsConfig(c) ==
    LET call  == calls[c]
        key   == StsConfigKey(call.issuer, call.config)
        found == IF sts # NoSts /\ sts.key = key THEN sts
                 ELSE [key  |-> key,
                       made |-> <<call.issuer, call.config.params>>]
        any   == call.config.exchange = "strategy" /\ call.issuer # ""
    IN /\ call.phase = "configured"
       /\ sts' = IF any THEN found ELSE sts
       /\ Now(c, [call EXCEPT !.phase = "exchanging",
                              !.sts = IF any THEN found ELSE NoSts])
       /\ UNCHANGED <<configs, limiter>>

\* A strategy needs a token URL; the exchange built in is left out without
\* a provider; what the issuer answers is up to it.
Exchange(c) ==
    LET call  == calls[c]
        Keeps(outcome, with) ==
            Now(c, [Begun(call) EXCEPT !.phase = "deriving",
                                       !.outcome = outcome, !.with = with])
    IN /\ call.phase = "exchanging"
       /\ IF call.token = "own" THEN Keeps("own", <<"", "">>)
          ELSE IF call.config.mode = "kubeconfig" THEN Keeps("own", <<"", "">>)
          ELSE IF \/ call.config.exchange = "none"
                  \/ call.config.exchange = "sts" /\ call.issuer = ""
          THEN Keeps(call.token, <<"", "">>)
          ELSE \/ /\ call.issuer # ""
                  /\ Keeps("exchanged",
                           IF call.config.exchange = "strategy"
                           THEN call.sts.made
                           ELSE <<call.issuer, call.config.params>>)
               \/ Now(c, Idle)
       /\ UNCHANGED <<configs, limiter, sts>>

\* The managers' configuration is that of the start.
Derived(c) ==
    LET call == calls[c]
    IN /\ call.phase = "deriving"
       /\ Now(c, IF call.outcome = "own" /\ startup.requireOAuth
                 THEN Idle ELSE [Idle EXCEPT !.phase = "served"])
       /\ UNCHANGED <<configs, limiter, sts>>

-----------------------------------------------------------------------------

Next ==
    \/ ReloadConfiguration \/ StoreConfig \/ StoreOAuth
    \/ Elapse \/ Reap
    \/ \E c \in Calls :
          \/ Receive(c) \/ Authorize(c) \/ Verify(c)
          \/ ReadLimits(c) \/ FindLimiter(c) \/ Allow(c)
          \/ LoadSnapshot(c) \/ LoadConfig(c) \/ GetOrBuildStsConfig(c)
          \/ Exchange(c) \/ Derived(c)

Spec == Init /\ [][Next]_vars

-----------------------------------------------------------------------------

ReapingIsInvisible ==
    \A s \in Sessions :
        ideal[s] = IF limiters[s] = 0 THEN current.burst
                   ELSE buckets[limiters[s]].tokens

LimitedByItsOwnLimits ==
    \A c \in Calls : calls[c].phase = "taking" =>
        buckets[calls[c].bucket].limits = calls[c].limits

\* A session's bucket has what one that is never reaped would have, so that
\* a session neither gains nor loses by the reaper, however its requests
\* interleave with it and with a reload (middleware.go:331-341); and a
\* request is counted by the limits it has read, also when requests with
\* other limits discard the buckets between its steps.
SessionLimitsHold == ReapingIsInvisible /\ LimitedByItsOwnLimits

\* The step of a call that reaches the cluster, with these credentials.
Reaches(c) == calls[c].phase = "deriving" /\ calls'[c].phase = "served"

\* While OAuth is required, during all of a call, the cluster sees the token
\* of the header that was judged, or one exchanged for it: neither the
\* server's own credentials nor the token of another header.
IdentityIsVerified ==
    [][\A c \in Calls :
          /\ Reaches(c)
          /\ \A config \in calls[c].configs : config.requireOAuth
          => calls[c].outcome \in {"bearer", "exchanged"}]_vars

\* While exchanges are configured and there is a provider, during all of a
\* call, the cluster never sees the token of the user; and an exchange is
\* with an issuer and parameters that were published during the call, not
\* with some that are cached from before.
ExchangedAsConfigured ==
    [][\A c \in Calls : Reaches(c) =>
          /\ /\ \A config \in calls[c].configs : config.exchange # "none"
             /\ "" \notin calls[c].issuers
             => calls[c].outcome = "exchanged"
          /\ calls[c].outcome = "exchanged" =>
                \E issuer \in calls[c].issuers, config \in calls[c].configs :
                   calls[c].with = <<issuer, config.params>>]_vars
=============================================================================
