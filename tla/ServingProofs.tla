--------------------------- MODULE ServingProofs ---------------------------
(***************************************************************************)
(* What holds of Serving for all requests, sessions, configurations and    *)
(* bounds.                                                                 *)
(*                                                                         *)
(* There are two arguments.  The limiter's: a session's bucket is its own, *)
(* has earned its tokens while it was idle, and is not idle while a        *)
(* request takes a token from it, so that the reaper drops full buckets    *)
(* only.  The credentials': of all that a request reads of the             *)
(* configuration, what it has read was published while it ran.             *)
(***************************************************************************)
EXTENDS Serving, FiniteSetTheorems, TLAPS

LimitSet  == {Limits(config) : config \in Configs} \cup {NoLimits}
Published == {config.issuer : config \in Configs}
Issuers   == Published \cup {""}
Params    == {config.params : config \in Configs} \cup {""}
Pairs     == Issuers \X Params
StsSet    == [key : Pairs, made : Pairs]
Tokens    == {"own", "bearer", "custom"}

Call == [phase : Phases, header : Headers, session : Sessions \cup {NoSession},
         limits : LimitSet, bucket : Buckets \cup {0}, token : Tokens,
         issuer : Issuers, config : Configs, sts : StsSet,
         outcome : Outcomes, with : Pairs,
         configs : SUBSET Configs, issuers : SUBSET Issuers]

Bucket == [limits : LimitSet, tokens : Nat, idle : Nat]

\* The types of all variables.
Typed ==
    /\ startup \in Configs /\ mcp \in Configs /\ cfg \in Configs
    /\ oauth \in Published
    /\ reload \in [step : {"none", "mcp", "cfg"}, new : Configs,
                   left : 0..MaxReloads]
    /\ current \in LimitSet
    /\ limiters \in [Sessions -> Buckets \cup {0}]
    /\ buckets \in [Buckets -> Bucket]
    /\ due \in BOOLEAN
    /\ ideal \in [Sessions -> Nat]
    /\ sts \in StsSet
    /\ calls \in [Calls -> Call]

-----------------------------------------------------------------------------

\* Full again after so many units of time without a request.
Earns(limits) == limits.burst <= limits.rate * IdleLimit

\* A bucket has what it has earned since it was last seen.
Earned(b) ==
    /\ b.tokens <= b.limits.burst
    /\ b.tokens = b.limits.burst \/ b.tokens >= b.limits.rate * b.idle

\* A session's bucket is its own, and has the limits in force.
Own ==
    \A s \in Sessions : limiters[s] # 0 =>
        /\ buckets[limiters[s]].limits = current
        /\ \A t \in Sessions : limiters[t] = limiters[s] => t = s

\* A request that takes a token does so from its session's bucket or from one
\* that is discarded, and the bucket has just been seen.
Taking ==
    \A c \in Calls :
        /\ calls[c].phase = "taking" <=> calls[c].bucket # 0
        /\ calls[c].phase \in {"limiting", "taking"} =>
              calls[c].session \in Sessions /\ Earns(calls[c].limits)
        /\ calls[c].phase = "taking" =>
              /\ buckets[calls[c].bucket].limits = calls[c].limits
              /\ buckets[calls[c].bucket].idle = 0
              /\ \A s \in Sessions : limiters[s] = calls[c].bucket =>
                    s = calls[c].session

\* The limiter's invariant.
Limiting ==
    /\ Earns(current)
    /\ \A b \in Buckets : Earned(buckets[b])
    /\ \A b \in Buckets :
          \/ buckets[b].idle <= IdleLimit
          \/ due /\ buckets[b].idle = IdleLimit + 1
    /\ \A s \in Sessions : ideal[s] <= current.burst
    /\ Own /\ Taking
    /\ ReapingIsInvisible

-----------------------------------------------------------------------------

\* Phases by what is known of the request in them.
Judged  == {"authorized", "limiting", "taking", "allowed", "snapshot",
            "configured", "exchanging"}
Reading == {"snapshot", "configured", "exchanging"}

\* While all that was published requires OAuth, a request goes by the bearer
\* token.
Verified(call) ==
    (\A config \in call.configs : config.requireOAuth) =>
        /\ call.phase = "verifying" => HasBearer(call.header)
        /\ call.phase \in Judged => call.token = "bearer"
        /\ call.phase = "deriving" => call.outcome \in {"bearer", "exchanged"}

\* What a request has read was published while it ran.
Current(call) ==
    /\ call.phase \in Reading => call.issuer \in call.issuers
    /\ call.phase \in {"configured", "exchanging"} =>
          call.config \in call.configs
    /\ /\ call.phase = "exchanging"
       /\ call.config.exchange = "strategy" /\ call.issuer # ""
       => call.sts.made = <<call.issuer, call.config.params>>

\* What ExchangedAsConfigured says of a call that is about to reach the
\* cluster.
Exchanged(call) ==
    call.phase = "deriving" =>
        /\ /\ \A config \in call.configs : config.exchange # "none"
           /\ "" \notin call.issuers
           => call.outcome = "exchanged"
        /\ call.outcome = "exchanged" =>
              \E issuer \in call.issuers, config \in call.configs :
                 call.with = <<issuer, config.params>>

\* What is published now is published during all calls.
Sound(call) ==
    /\ call.phase \notin {"idle", "served"} =>
          cfg \in call.configs /\ oauth \in call.issuers
    /\ Verified(call) /\ Current(call) /\ Exchanged(call)

\* The credentials' invariant.
Credentials ==
    /\ sts.made = sts.key
    /\ \A c \in Calls : Sound(calls[c])

-----------------------------------------------------------------------------
(* Types.                                                                  *)

\* Buckets are counted from 1.
LEMMA BucketsType ==
  /\ Cardinality(Calls) \in Nat /\ Cardinality(Sessions) \in Nat
  /\ Buckets \subseteq Nat /\ 0 \notin Buckets
  <1>1. Cardinality(Calls) \in Nat /\ Cardinality(Sessions) \in Nat
    BY BoundsAssumption, FS_CardinalityType DEF BoundsAssumption
  <1> QED
    BY <1>1 DEF Buckets

\* The limits of a configuration, and of none.
LEMMA LimitsType ==
  /\ NoLimits \in LimitSet
  /\ \A config \in Configs : Limits(config) \in LimitSet
  /\ \A limits \in LimitSet : limits.rate \in Nat /\ limits.burst \in Nat
  /\ \A limits \in LimitSet :
        limits = [rate |-> limits.rate, burst |-> limits.burst]
  <1>1. \A config \in Configs : config.rate \in Nat /\ Burst(config) \in Nat
    BY ConfigsAssumption, BoundsAssumption
       DEF ConfigsAssumption, BoundsAssumption, Burst
  <1> QED
    BY <1>1 DEF LimitSet, NoLimits, Limits

\* The limits a request is counted by are earned back while it is idle.
LEMMA LimitsEarn ==
  /\ Earns(NoLimits)
  /\ \A config \in Configs : config.rate > 0 => Earns(Limits(config))
  <1>1. Earns(NoLimits)
    BY BoundsAssumption DEF BoundsAssumption, Earns, NoLimits
  <1> QED
    BY <1>1, ConfigsAssumption DEF ConfigsAssumption, Earns, Limits, Burst

\* Before a request.
LEMMA IdleType ==
  ASSUME startup \in Configs
  PROVE  Idle \in Call /\ NoSts \in StsSet
  <1>1. /\ NoLimits \in LimitSet /\ "" \in Issuers
        /\ NoSts \in StsSet /\ <<"", "">> \in Pairs
    BY LimitsType DEF Issuers, NoSts, StsSet, Pairs, Params
  <1> QED
    BY <1>1 DEF Idle, Call, Phases, Headers, Tokens, Outcomes

\* What the phases of a request make of it.
LEMMA CallTypes ==
  ASSUME startup \in Configs, NEW call \in Call
  PROVE  /\ Idle \in Call /\ [Idle EXCEPT !.phase = "served"] \in Call
         /\ Begun(call) \in Call /\ Allowed(call) \in Call
         /\ Passed(call) \in Call
  <1>1. Idle \in Call
    BY IdleType
  <1>2. Begun(call) \in Call /\ Allowed(call) \in Call
    BY <1>1 DEF Begun, Allowed, Call, Phases
  <1>3. Credential(call.header) \in Tokens
    BY DEF Call, Headers, Credential, HasBearer, Tokens
  <1>4. Passed(call) \in Call
    BY <1>3 DEF Passed, Call, Phases, Headers
  <1> QED
    BY <1>1, <1>2, <1>4 DEF Call, Phases

\* A step sets the phase of a call, and one more field.
LEMMA CallUpdates ==
  ASSUME NEW call \in Call, NEW phase \in Phases
  PROVE  /\ [call EXCEPT !.phase = phase] \in Call
         /\ \A limits \in LimitSet :
               [call EXCEPT !.phase = phase, !.limits = limits] \in Call
         /\ \A bucket \in Buckets :
               [call EXCEPT !.phase = phase, !.bucket = bucket] \in Call
         /\ \A issuer \in Issuers :
               [call EXCEPT !.phase = phase, !.issuer = issuer] \in Call
         /\ \A config \in Configs :
               [call EXCEPT !.phase = phase, !.config = config] \in Call
         /\ \A found \in StsSet :
               [call EXCEPT !.phase = phase, !.sts = found] \in Call
         /\ \A outcome \in Outcomes, with \in Pairs :
               [call EXCEPT !.phase = phase, !.outcome = outcome,
                            !.with = with] \in Call
  <1>1. [call EXCEPT !.phase = phase] \in Call
    BY DEF Call
  <1>2. \A limits \in LimitSet :
           [call EXCEPT !.phase = phase, !.limits = limits] \in Call
    BY DEF Call
  <1>3. \A bucket \in Buckets :
           [call EXCEPT !.phase = phase, !.bucket = bucket] \in Call
    BY DEF Call
  <1>4. \A issuer \in Issuers :
           [call EXCEPT !.phase = phase, !.issuer = issuer] \in Call
    BY DEF Call
  <1>5. \A config \in Configs :
           [call EXCEPT !.phase = phase, !.config = config] \in Call
    BY DEF Call
  <1>6. \A found \in StsSet :
           [call EXCEPT !.phase = phase, !.sts = found] \in Call
    BY DEF Call
  <1>7. \A outcome \in Outcomes, with \in Pairs :
           [call EXCEPT !.phase = phase, !.outcome = outcome,
                        !.with = with] \in Call
    BY DEF Call
  <1> QED
    BY <1>1, <1>2, <1>3, <1>4, <1>5, <1>6, <1>7

\* The record of a request that has come in.
LEMMA CallReceived ==
  ASSUME NEW call \in Call, NEW phase \in Phases, NEW header \in Headers,
         NEW session \in Sessions \cup {NoSession}, NEW config \in Configs,
         NEW issuer \in Issuers
  PROVE  [call EXCEPT !.phase = phase, !.header = header, !.session = session,
                      !.configs = {config}, !.issuers = {issuer}] \in Call
  BY DEF Call

\* A publication adds to what is published during the call.
LEMMA CallPublications ==
  ASSUME NEW call \in Call
  PROVE  /\ \A config \in Configs :
               [call EXCEPT !.configs = @ \cup {config}] \in Call
         /\ \A issuer \in Issuers :
               [call EXCEPT !.issuers = @ \cup {issuer}] \in Call
  <1>1. \A config \in Configs :
           [call EXCEPT !.configs = @ \cup {config}] \in Call
    BY DEF Call
  <1>2. \A issuer \in Issuers :
           [call EXCEPT !.issuers = @ \cup {issuer}] \in Call
    BY DEF Call
  <1> QED
    BY <1>1, <1>2

\* A bucket is kept as it is, or unused.
LEMMA KeptType ==
  ASSUME NEW objects \in [Buckets -> Bucket], NEW map, NEW callers
  PROVE  /\ Unused \in Bucket
         /\ Kept(objects, map, callers) \in [Buckets -> Bucket]
         /\ \A b \in Buckets :
               /\ Kept(objects, map, callers)[b] \in {objects[b], Unused}
               /\ (\E s \in Sessions : map[s] = b)
                     \/ (\E c \in Calls : callers[c].bucket = b)
                  => Kept(objects, map, callers)[b] = objects[b]
  <1>1. Unused \in Bucket
    BY LimitsType DEF Unused, Full, NoLimits, Bucket
  <1> HIDE DEF Unused
  <1> QED
    BY <1>1 DEF Kept

\* There is a bucket that neither the map nor a request refers to.
LEMMA FreeBucket ==
  ASSUME Typed, Taking, NEW c \in Calls, calls[c].phase = "limiting",
         NEW map \in [Sessions -> Buckets \cup {0}], NEW s \in Sessions,
         map[s] = 0
  PROVE  \E b \in Buckets : /\ \A t \in Sessions : map[t] # b
                            /\ \A d \in Calls : calls[d].bucket # b
  <1> DEFINE others  == [d \in Calls \ {c} |-> calls[d].bucket]
             held    == {others[d] : d \in Calls \ {c}}
             named   == [t \in Sessions \ {s} |-> map[t]]
             mapped  == {named[t] : t \in Sessions \ {s}}
             used    == held \cup mapped
  <1>1. IsFiniteSet(Calls) /\ IsFiniteSet(Sessions)
    BY BoundsAssumption DEF BoundsAssumption
  <1>2. /\ IsFiniteSet(Calls \ {c})
        /\ Cardinality(Calls \ {c}) = Cardinality(Calls) - 1
        /\ IsFiniteSet(Sessions \ {s})
        /\ Cardinality(Sessions \ {s}) = Cardinality(Sessions) - 1
    BY <1>1, FS_RemoveElement
  <1>3. others \in Surjection(Calls \ {c}, held)
    BY DEF Surjection
  <1>4. named \in Surjection(Sessions \ {s}, mapped)
    BY DEF Surjection
  <1>5. /\ IsFiniteSet(held) /\ Cardinality(held) <= Cardinality(Calls \ {c})
        /\ IsFiniteSet(mapped)
        /\ Cardinality(mapped) <= Cardinality(Sessions \ {s})
    BY <1>2, <1>3, <1>4, FS_Surjection
  <1> HIDE DEF held, mapped
  <1>6. /\ IsFiniteSet(used)
        /\ Cardinality(used) <= Cardinality(held) + Cardinality(mapped)
    <2>1. IsFiniteSet(held \cap mapped)
      BY <1>5, FS_Subset
    <2>2. Cardinality(held \cap mapped) \in Nat /\ Cardinality(held) \in Nat
          /\ Cardinality(mapped) \in Nat
      BY <1>5, <2>1, FS_CardinalityType
    <2>3. /\ IsFiniteSet(held \cup mapped)
          /\ Cardinality(held \cup mapped)
                = Cardinality(held) + Cardinality(mapped)
                  - Cardinality(held \cap mapped)
      BY <1>5, FS_Union, Zenon
    <2> QED
      BY <2>2, <2>3
  <1>7. IsFiniteSet(Buckets)
        /\ Cardinality(Buckets) = Cardinality(Calls) + Cardinality(Sessions)
    <2>1. ASSUME NEW n \in Nat PROVE IsFiniteSet(1..n) /\ Cardinality(1..n) = n
      <3>1. /\ IsFiniteSet(1..n)
            /\ Cardinality(1..n) = IF 1 > n THEN 0 ELSE n - 1 + 1
        BY FS_Interval
      <3> QED
        BY <3>1
    <2> QED
      BY <2>1, BucketsType DEF Buckets
  <1>8. ~(Buckets \subseteq used)
    <2> SUFFICES ASSUME Buckets \subseteq used PROVE FALSE
      OBVIOUS
    <2>1. Cardinality(Buckets) <= Cardinality(used)
      BY <1>6, FS_Subset
    <2>2. /\ Cardinality(used) \in Nat
          /\ Cardinality(held) \in Nat /\ Cardinality(mapped) \in Nat
      BY <1>5, <1>6, FS_CardinalityType
    <2> QED
      BY <1>2, <1>5, <1>6, <1>7, <2>1, <2>2, BucketsType
  <1>9. PICK b \in Buckets : b \notin used
    BY <1>8
  <1>10. \A t \in Sessions : map[t] # b
    <2>1. \A t \in Sessions \ {s} : map[t] \in mapped
      BY DEF mapped
    <2> QED
      BY <1>9, <2>1, BucketsType
  <1>11. \A d \in Calls : calls[d].bucket # b
    <2>1. \A d \in Calls \ {c} : calls[d].bucket \in held
      BY DEF held
    <2>2. calls[c].bucket = 0
      BY DEF Taking, Typed, Call
    <2> QED
      BY <1>9, <2>1, <2>2, BucketsType
  <1> QED
    BY <1>10, <1>11

\* The limiters that survive the limits of a request.
LEMMA SurvivingType ==
  ASSUME Typed, NEW limits
  PROVE  /\ Surviving(limits) \in [Sessions -> Buckets \cup {0}]
         /\ \A s \in Sessions : Surviving(limits)[s] \in {limiters[s], 0}
         /\ limits # current => \A s \in Sessions : Surviving(limits)[s] = 0
         /\ limits = current => Surviving(limits) = limiters
  BY DEF Surviving, Typed

\* The limiter goes on with the session's bucket or with one that nothing
\* refers to.
GoesOn(c, bucket, objects) ==
    LET s   == calls[c].session
        map == Surviving(calls[c].limits)
    IN  /\ \/ /\ map[s] = bucket
              /\ objects = [buckets EXCEPT ![bucket].idle = 0]
           \/ /\ map[s] = 0
              /\ \A t \in Sessions : map[t] # bucket
              /\ \A d \in Calls : calls[d].bucket # bucket
              /\ objects = [buckets EXCEPT ![bucket] = Full(calls[c].limits)]
        /\ limiters' = [map EXCEPT ![s] = bucket]
        /\ calls' = [calls EXCEPT ![c] = [calls[c] EXCEPT !.phase = "taking",
                                                          !.bucket = bucket]]
        /\ buckets' = Kept(objects, limiters', calls')

\* It does so with one of the buckets.
LEMMA Found ==
  ASSUME Typed, Taking, NEW c \in Calls, FindLimiter(c)
  PROVE  \E bucket \in Buckets, objects \in [Buckets -> Bucket] :
            GoesOn(c, bucket, objects)
  <1> DEFINE s   == calls[c].session
             map == Surviving(calls[c].limits)
  <1>1. /\ calls[c].phase = "limiting" /\ s \in Sessions
        /\ calls[c].limits \in LimitSet
    BY DEF FindLimiter, Taking, Typed, Call
  <1>2. map \in [Sessions -> Buckets \cup {0}]
    BY SurvivingType
  <1> DEFINE free   == {b \in Buckets : /\ \A t \in Sessions : map[t] # b
                                        /\ \A d \in Calls : calls[d].bucket # b}
             bucket == IF map[s] # 0 THEN map[s] ELSE CHOOSE b \in free : TRUE
             objects == IF map[s] # 0 THEN Seen(bucket)
                        ELSE [buckets EXCEPT ![bucket] = Full(calls[c].limits)]
  <1>3. /\ limiters' = [map EXCEPT ![s] = bucket]
        /\ calls' = [calls EXCEPT ![c] = [calls[c] EXCEPT !.phase = "taking",
                                                          !.bucket = bucket]]
        /\ buckets' = Kept(objects, limiters', calls')
    BY DEF FindLimiter, Now
  <1>4. map[s] = 0 => bucket \in free
    BY <1>1, <1>2, FreeBucket
  <1>5. bucket \in Buckets
    BY <1>1, <1>2, <1>4
  <1>6. Full(calls[c].limits) \in Bucket
    BY <1>1, LimitsType DEF Full, Bucket
  <1>7. Seen(bucket) \in [Buckets -> Bucket]
    <2>1. \A b \in Bucket : [b EXCEPT !.idle = 0] \in Bucket
      BY DEF Bucket
    <2> HIDE DEF bucket
    <2> QED
      BY <1>5, <2>1 DEF Seen, Typed
  <1>8. objects \in [Buckets -> Bucket]
    BY <1>6, <1>7 DEF Typed
  <1>9. /\ map[s] # 0 => /\ map[s] = bucket
                         /\ objects = [buckets EXCEPT ![bucket].idle = 0]
        /\ map[s] = 0 => objects = [buckets EXCEPT ![bucket]
                                                       = Full(calls[c].limits)]
    BY DEF Seen
  <1>10. map[s] = 0 => /\ \A t \in Sessions : map[t] # bucket
                       /\ \A d \in Calls : calls[d].bucket # bucket
    BY <1>4
  <1>11. GoesOn(c, bucket, objects)
    <2> HIDE DEF bucket, objects, map
    <2>1. \/ map[s] = bucket /\ objects = [buckets EXCEPT ![bucket].idle = 0]
          \/ /\ map[s] = 0
             /\ \A t \in Sessions : map[t] # bucket
             /\ \A d \in Calls : calls[d].bucket # bucket
             /\ objects = [buckets EXCEPT ![bucket] = Full(calls[c].limits)]
      BY <1>9, <1>10
    <2> USE DEF map
    <2> QED
      BY <1>3, <2>1 DEF GoesOn
  <1> HIDE DEF bucket, objects
  <1> QED
    BY <1>5, <1>8, <1>11

\* Types are kept.
LEMMA TypedStep ==
  ASSUME Typed, Limiting, [Next]_vars
  PROVE  Typed'
  <1> USE DEF Typed, configs, limiter
  <1>1. \A call \in Call :
           /\ Idle \in Call /\ [Idle EXCEPT !.phase = "served"] \in Call
           /\ Begun(call) \in Call /\ Allowed(call) \in Call
           /\ Passed(call) \in Call
    BY CallTypes
  <1>0. /\ \A c \in Calls : calls[c] \in Call
         /\ {"received", "verifying", "limiting", "taking", "snapshot",
             "configured", "exchanging", "deriving"} \subseteq Phases
    BY DEF Phases
  <1>2. CASE ReloadConfiguration
    BY <1>2, BoundsAssumption DEF ReloadConfiguration, BoundsAssumption
  <1>3. CASE StoreConfig
    <2>1. cfg' \in Configs
      BY <1>3 DEF StoreConfig
    <2>2. calls' \in [Calls -> Call]
      BY <1>3, <2>1, CallPublications DEF StoreConfig
    <2> QED
      BY <1>3, <2>2 DEF StoreConfig
  <1>4. CASE StoreOAuth
    <2>1. oauth' \in Published
      BY <1>4 DEF StoreOAuth, Published
    <2>2. oauth' \in Issuers
      BY <2>1 DEF Issuers
    <2>3. calls' \in [Calls -> Call]
      BY <1>4, <2>2, CallPublications DEF StoreOAuth
    <2> QED
      BY <1>4, <2>1, <2>3 DEF StoreOAuth
  <1>5. CASE Elapse
    <2>1. \A limits \in LimitSet, n \in Nat : Refilled(n, limits) \in Nat
      BY LimitsType DEF Refilled
    <2>2. ASSUME NEW old \in Bucket
          PROVE  [old EXCEPT !.tokens = Refilled(@, old.limits),
                             !.idle = IF old = Unused THEN 0 ELSE @ + 1]
                    \in Bucket
      <3>1. Refilled(old.tokens, old.limits) \in Nat
        BY <2>1 DEF Bucket
      <3>2. (IF old = Unused THEN 0 ELSE old.idle + 1) \in Nat
        BY DEF Bucket
      <3>3. \A tokens \in Nat, idle \in Nat :
               [old EXCEPT !.tokens = tokens, !.idle = idle] \in Bucket
        BY DEF Bucket
      <3> QED
        BY <3>1, <3>2, <3>3
    <2>3. buckets' \in [Buckets -> Bucket]
      BY <1>5, <2>2 DEF Elapse
    <2>4. ideal' \in [Sessions -> Nat]
      BY <1>5, <2>1 DEF Elapse
    <2> QED
      BY <1>5, <2>3, <2>4 DEF Elapse
  <1>6. CASE Reap
    <2>1. limiters' \in [Sessions -> Buckets \cup {0}]
      BY <1>6 DEF Reap
    <2>2. buckets' \in [Buckets -> Bucket]
      BY <1>6, KeptType DEF Reap
    <2> QED
      BY <1>6, <2>1, <2>2 DEF Reap
  <1>7. ASSUME NEW c \in Calls, Receive(c) PROVE Typed'
    <2>1. ASSUME NEW header \in Headers,
                 NEW session \in Sessions \cup {NoSession}
          PROVE  [Idle EXCEPT !.phase = "received", !.header = header,
                              !.session = session, !.configs = {cfg},
                              !.issuers = {oauth}] \in Call
      <3>1. "received" \in Phases /\ oauth \in Issuers /\ cfg \in Configs
        BY <1>0 DEF Issuers
      <3>2. Idle \in Call
        BY IdleType
      <3> HIDE DEF Typed
      <3> QED
        BY <3>1, <3>2, CallReceived
    <2> QED
      BY <1>7, <2>1 DEF Receive, Now
  <1>8. ASSUME NEW c \in Calls, Authorize(c) \/ Verify(c) \/ ReadLimits(c)
        PROVE  Typed'
    <2>1. [calls[c] EXCEPT !.phase = "verifying"] \in Call
      BY <1>0, CallUpdates
    <2>2. [calls[c] EXCEPT !.phase = "limiting", !.limits = Limits(mcp)] \in Call
      BY <1>0, LimitsType, CallUpdates
    <2>3. \E new \in Call : Now(c, new)
      <3>1. CASE Authorize(c)
        BY <1>1, <2>1, <3>1 DEF Authorize
      <3>2. CASE Verify(c)
        BY <1>1, <3>2 DEF Verify
      <3>3. CASE ReadLimits(c)
        BY <1>1, <2>2, <3>3 DEF ReadLimits
      <3> QED
        BY <1>8, <3>1, <3>2, <3>3
    <2>4. calls' \in [Calls -> Call]
      BY <2>3 DEF Now
    <2> QED
      BY <1>8, <2>4 DEF Authorize, Verify, ReadLimits
  <1>9. ASSUME NEW c \in Calls, FindLimiter(c) PROVE Typed'
    <2> DEFINE s == calls[c].session
               map == Surviving(calls[c].limits)
    <2>1. PICK bucket \in Buckets, objects \in [Buckets -> Bucket] :
             GoesOn(c, bucket, objects)
      BY <1>9, Found DEF Limiting
    <2>2. map \in [Sessions -> Buckets \cup {0}]
      BY SurvivingType
    <2>3. limiters' \in [Sessions -> Buckets \cup {0}]
      BY <2>1, <2>2 DEF GoesOn
    <2>4. buckets' \in [Buckets -> Bucket]
      BY <2>1, KeptType DEF GoesOn
    <2>5. calls' \in [Calls -> Call]
      <3>1. [calls[c] EXCEPT !.phase = "taking", !.bucket = bucket] \in Call
        BY <1>0, CallUpdates
      <3> QED
        BY <2>1, <3>1 DEF GoesOn
    <2>6. /\ UNCHANGED <<startup, mcp, cfg, oauth, reload, due, sts>>
          /\ current' = calls[c].limits /\ current' \in LimitSet
      BY <1>9 DEF FindLimiter, Call
    <2>7. ideal' \in [Sessions -> Nat]
      BY <1>9, LimitsType DEF FindLimiter, Call
    <2> QED
      BY <2>3, <2>4, <2>5, <2>6, <2>7
  <1>10. ASSUME NEW c \in Calls, Allow(c) PROVE Typed'
    <2> DEFINE bucket == calls[c].bucket
               some   == buckets[bucket].tokens > 0
               objects == IF some THEN [buckets EXCEPT ![bucket].tokens = @ - 1]
                                  ELSE buckets
    <2>1. bucket \in Buckets /\ calls[c].session \in Sessions
      BY <1>10 DEF Allow, Limiting, Taking, Call
    <2>2. objects \in [Buckets -> Bucket]
      BY <2>1 DEF Bucket
    <2>3. buckets' \in [Buckets -> Bucket]
      <3>1. buckets' = Kept(objects, limiters, calls')
        BY <1>10 DEF Allow
      <3> QED
        BY <2>2, <3>1, KeptType
    <2>4. ideal' \in [Sessions -> Nat]
      <3>1. some /\ limiters[calls[c].session] = bucket
               => ideal[calls[c].session] \in Nat \ {0}
        BY <2>1, BucketsType DEF Limiting, ReapingIsInvisible, Bucket
      <3> QED
        BY <1>10, <2>1, <3>1 DEF Allow
    <2>5. calls' \in [Calls -> Call]
      BY <1>1, <1>10 DEF Allow, Now
    <2> QED
      BY <1>10, <2>3, <2>4, <2>5 DEF Allow
  <1>11. ASSUME NEW c \in Calls, LoadSnapshot(c) \/ LoadConfig(c) PROVE Typed'
    <2>1. [calls[c] EXCEPT !.phase = "snapshot", !.issuer = oauth] \in Call
      <3>1. oauth \in Issuers
        BY DEF Issuers
      <3> QED
        BY <1>0, <3>1, CallUpdates
    <2>2. [calls[c] EXCEPT !.phase = "configured", !.config = cfg] \in Call
      BY <1>0, CallUpdates
    <2> QED
      BY <1>11, <2>1, <2>2 DEF LoadSnapshot, LoadConfig, Now
  <1>12. ASSUME NEW c \in Calls, GetOrBuildStsConfig(c) PROVE Typed'
    <2> DEFINE pair == <<calls[c].issuer, calls[c].config.params>>
               built == [key |-> pair, made |-> pair]
    <2>1. built \in StsSet
      BY DEF Call, StsSet, Pairs, Params
    <2>2. \E found \in StsSet :
             /\ sts' = found
             /\ \/ calls' = [calls EXCEPT ![c] = [calls[c] EXCEPT
                                !.phase = "exchanging", !.sts = found]]
                \/ calls' = [calls EXCEPT ![c] = [calls[c] EXCEPT
                                !.phase = "exchanging", !.sts = NoSts]]
      BY <1>12, <2>1 DEF GetOrBuildStsConfig, StsConfigKey, Now
    <2>3. NoSts \in StsSet
      BY DEF NoSts, StsSet, Pairs, Params, Issuers
    <2>4. \A found \in StsSet :
             [calls[c] EXCEPT !.phase = "exchanging", !.sts = found] \in Call
      BY <1>0, CallUpdates
    <2>5. calls' \in [Calls -> Call] /\ sts' \in StsSet
      BY <2>2, <2>3, <2>4
    <2> QED
      BY <1>12, <2>5 DEF GetOrBuildStsConfig
  <1>13. ASSUME NEW c \in Calls, Exchange(c) PROVE Typed'
    <2>1. ASSUME NEW outcome \in Outcomes, NEW with \in Pairs
          PROVE  [Begun(calls[c]) EXCEPT !.phase = "deriving",
                                         !.outcome = outcome,
                                         !.with = with] \in Call
      BY <1>1, <1>0, CallUpdates
    <2>2. /\ <<"", "">> \in Pairs /\ calls[c].sts.made \in Pairs
          /\ <<calls[c].issuer, calls[c].config.params>> \in Pairs
      BY DEF Pairs, Issuers, Params, Call, StsSet
    <2>3. /\ "own" \in Outcomes /\ "exchanged" \in Outcomes
          /\ calls[c].token \in Outcomes
      BY DEF Call, Tokens, Outcomes
    <2>4. \E new \in Call : Now(c, new)
      BY <1>1, <1>13, <2>1, <2>2, <2>3 DEF Exchange
    <2>5. calls' \in [Calls -> Call]
      BY <2>4 DEF Now
    <2> QED
      BY <1>13, <2>5 DEF Exchange
  <1>14. ASSUME NEW c \in Calls, Derived(c) PROVE Typed'
    BY <1>1, <1>14 DEF Derived, Now
  <1>15. CASE UNCHANGED vars
    BY <1>15 DEF vars
  <1> QED
    BY <1>2, <1>3, <1>4, <1>5, <1>6, <1>7, <1>8, <1>9, <1>10, <1>11, <1>12,
       <1>13, <1>14, <1>15 DEF Next

-----------------------------------------------------------------------------
(* The limiter.                                                            *)

\* What is done to a bucket leaves it with what it has earned.
LEMMA Earning ==
  /\ Earned(Unused)
  /\ \A limits \in LimitSet : Earned(Full(limits))
  /\ \A b \in Bucket : Earned(b) =>
        /\ Earned([b EXCEPT !.idle = 0])
        /\ b.idle = 0 /\ b.tokens > 0 => Earned([b EXCEPT !.tokens = @ - 1])
        /\ \A n \in {0, b.idle + 1} :
              Earned([b EXCEPT !.tokens = Refilled(@, b.limits), !.idle = n])
  <1>1. \A limits \in LimitSet : Earned(Full(limits))
    BY LimitsType DEF Earned, Full
  <1>2. Earned(Unused)
    BY <1>1, LimitsType DEF Unused
  <1>3. ASSUME NEW b \in Bucket, Earned(b)
        PROVE  /\ Earned([b EXCEPT !.idle = 0])
               /\ b.idle = 0 /\ b.tokens > 0
                     => Earned([b EXCEPT !.tokens = @ - 1])
               /\ \A n \in {0, b.idle + 1} :
                     Earned([b EXCEPT !.tokens = Refilled(@, b.limits),
                                      !.idle = n])
    <2> DEFINE rate == b.limits.rate
               burst == b.limits.burst
    <2>1. /\ rate \in Nat /\ burst \in Nat
          /\ b.tokens \in Nat /\ b.idle \in Nat
      BY LimitsType DEF Bucket
    <2>2. b.tokens <= burst /\ (b.tokens = burst \/ b.tokens >= rate * b.idle)
      BY <1>3 DEF Earned
    <2> HIDE DEF rate, burst
    <2>3. rate * 0 = 0 /\ rate * (b.idle + 1) = rate * b.idle + rate
      BY <2>1
    <2>4. Earned([b EXCEPT !.idle = 0])
      <3> DEFINE new == [b EXCEPT !.idle = 0]
      <3>1. new.tokens = b.tokens /\ new.idle = 0 /\ new.limits = b.limits
        BY DEF Bucket
      <3> QED
        BY <2>1, <2>2, <2>3, <3>1 DEF Earned, rate, burst
    <2>5. b.idle = 0 /\ b.tokens > 0 => Earned([b EXCEPT !.tokens = @ - 1])
      <3> DEFINE new == [b EXCEPT !.tokens = @ - 1]
      <3>1. new.tokens = b.tokens - 1 /\ new.idle = b.idle /\ new.limits = b.limits
        BY DEF Bucket
      <3> QED
        BY <2>1, <2>2, <2>3, <3>1 DEF Earned, rate, burst
    <2>6. ASSUME NEW n \in {0, b.idle + 1}
          PROVE  Earned([b EXCEPT !.tokens = Refilled(@, b.limits), !.idle = n])
      <3> DEFINE new == [b EXCEPT !.tokens = Refilled(@, b.limits), !.idle = n]
      <3>1. /\ new.tokens = Refilled(b.tokens, b.limits)
            /\ new.idle = n /\ new.limits = b.limits
        BY DEF Bucket
      <3>2. /\ new.tokens <= burst
            /\ new.tokens = burst \/ new.tokens = b.tokens + rate
        BY <2>1, <2>2, <3>1 DEF Refilled, rate, burst
      <3>3. b.tokens = burst => new.tokens = burst
        BY <2>1, <3>1 DEF Refilled, rate, burst
      <3>4. new.tokens = burst \/ new.tokens >= rate * n
        BY <2>1, <2>2, <2>3, <3>2, <3>3
      <3> HIDE DEF new
      <3> QED
        BY <3>1, <3>2, <3>4 DEF Earned, rate, burst
    <2> QED
      BY <2>4, <2>5, <2>6
  <1> QED
    BY <1>1, <1>2, <1>3

\* What the reaper takes for stale is full.
LEMMA StaleIsFull ==
  ASSUME NEW b \in Bucket, Earned(b), Earns(b.limits), b.idle > IdleLimit
  PROVE  b.tokens = b.limits.burst
  <1> DEFINE rate == b.limits.rate
             burst == b.limits.burst
  <1>1. /\ rate \in Nat /\ burst \in Nat /\ IdleLimit \in Nat
        /\ b.tokens \in Nat /\ b.idle \in Nat
    BY LimitsType, BoundsAssumption DEF Bucket, BoundsAssumption
  <1>2. /\ b.tokens <= burst
        /\ b.tokens = burst \/ b.tokens >= rate * b.idle
        /\ burst <= rate * IdleLimit
    BY DEF Earned, Earns
  <1> HIDE DEF rate, burst
  <1>3. PICK more \in Nat : b.idle = IdleLimit + more
    <2>1. b.idle - IdleLimit \in Nat /\ b.idle = IdleLimit + (b.idle - IdleLimit)
      BY <1>1
    <2> QED
      BY <2>1
  <1>4. rate * (IdleLimit + more) = rate * IdleLimit + rate * more
    BY <1>1
  <1>5. rate * more \in Nat /\ rate * IdleLimit \in Nat
    BY <1>1
  <1>6. b.tokens >= rate * b.idle => b.tokens >= burst
    BY <1>1, <1>2, <1>3, <1>4, <1>5
  <1> QED
    BY <1>1, <1>2, <1>6 DEF burst

\* Steps elsewhere: a request stays where it is, is not at the limiter, or
\* comes to it.
Elsewhere(old, new) ==
    \/ /\ new.phase = old.phase /\ new.bucket = old.bucket
       /\ new.session = old.session /\ new.limits = old.limits
    \/ new.phase \notin {"limiting", "taking"} /\ new.bucket = 0
    \/ /\ new.phase = "limiting" /\ new.bucket = 0
       /\ new.session \in Sessions /\ Earns(new.limits)

\* A step that leaves the limiter alone keeps what it has promised.
LEMMA LimitingUnchanged ==
  ASSUME Limiting, UNCHANGED limiter,
         \A c \in Calls : Elsewhere(calls[c], calls'[c])
  PROVE  Limiting'
  <1>1. Taking'
    BY DEF Limiting, Taking, Elsewhere, limiter
  <1>2. Own'
    BY DEF Limiting, Own, limiter
  <1>3. ReapingIsInvisible'
    BY DEF Limiting, ReapingIsInvisible, limiter
  <1> QED
    BY <1>1, <1>2, <1>3 DEF Limiting, limiter

\* ... by one request.
LEMMA LimitingElsewhere ==
  ASSUME Typed, Limiting, UNCHANGED limiter, NEW c \in Calls, NEW new,
         Now(c, new), Elsewhere(calls[c], new)
  PROVE  Limiting'
  <1>1. calls' = [calls EXCEPT ![c] = new]
    BY DEF Now
  <1>2. \A d \in Calls : Elsewhere(calls[d], calls'[d])
    BY <1>1 DEF Typed, Elsewhere
  <1> QED
    BY <1>2, LimitingUnchanged

\* The limiter's step with a bucket.
LEMMA LimitingFind ==
  ASSUME Typed, Limiting, NEW c \in Calls, FindLimiter(c)
  PROVE  Limiting'
  <1> DEFINE s == calls[c].session
             limits == calls[c].limits
             map == Surviving(limits)
  <1>1. PICK B \in Buckets, objects \in [Buckets -> Bucket] :
           GoesOn(c, B, objects)
    BY Found DEF Limiting
  <1>2. /\ s \in Sessions /\ limits \in LimitSet /\ Earns(limits)
        /\ B # 0 /\ calls[c].bucket = 0
        /\ calls[c] \in Call
    BY BucketsType DEF FindLimiter, Limiting, Taking, Typed, Call
  <1>3. /\ map \in [Sessions -> Buckets \cup {0}]
        /\ \A t \in Sessions : map[t] # 0 => map = limiters /\ limits = current
    BY SurvivingType
  <1>4. /\ limiters' = [map EXCEPT ![s] = B]
        /\ buckets' = Kept(objects, limiters', calls')
        /\ \A b \in Buckets \ {B} : objects[b] = buckets[b]
    BY <1>1 DEF GoesOn, Typed
  <1>5. /\ calls'[c].phase = "taking" /\ calls'[c].bucket = B
        /\ calls'[c].session = s /\ calls'[c].limits = limits
        /\ \A d \in Calls \ {c} : calls'[d] = calls[d]
    BY <1>1, <1>2 DEF GoesOn, Typed, Call
  <1>6. /\ current' = limits /\ due' = due
        /\ limits = current => ideal' = ideal
        /\ limits # current => ideal' = [t \in Sessions |-> limits.burst]
    BY DEF FindLimiter
  <1>7. \/ map[s] = B /\ objects = [buckets EXCEPT ![B].idle = 0]
        \/ /\ map[s] = 0
           /\ \A t \in Sessions : map[t] # B
           /\ \A d \in Calls : calls[d].bucket # B
           /\ objects = [buckets EXCEPT ![B] = Full(limits)]
    BY <1>1 DEF GoesOn
  <1> HIDE DEF map, limits, s
  <1>8. /\ buckets'[B] = objects[B]
        /\ \A b \in Buckets : buckets'[b] \in {objects[b], Unused}
        /\ \A t \in Sessions : limiters'[t] # 0
              => buckets'[limiters'[t]] = objects[limiters'[t]]
        /\ \A d \in Calls : calls'[d].bucket \in Buckets
              => buckets'[calls'[d].bucket] = objects[calls'[d].bucket]
    <2>1. \A b \in Buckets :
             /\ buckets'[b] \in {objects[b], Unused}
             /\ (\E t \in Sessions : limiters'[t] = b)
                   \/ (\E d \in Calls : calls'[d].bucket = b)
                => buckets'[b] = objects[b]
      <3> HIDE DEF Unused
      <3> QED
        BY <1>4 DEF Kept
    <2>2. \A t \in Sessions : limiters'[t] # 0 => limiters'[t] \in Buckets
      BY <1>3, <1>4
    <2> QED
      BY <1>5, <2>1, <2>2
  <1>9. /\ objects[B].limits = limits /\ objects[B].idle = 0
        /\ Earned(objects[B])
        /\ objects[B].tokens = IF map[s] = 0 THEN limits.burst
                                             ELSE buckets[B].tokens
    <2>1. CASE map[s] = B /\ objects = [buckets EXCEPT ![B].idle = 0]
      <3>1. buckets[B].limits = limits
        BY <1>2, <1>3, <2>1 DEF Limiting, Own
      <3>2. objects[B] = [buckets[B] EXCEPT !.idle = 0] /\ buckets[B] \in Bucket
        BY <2>1 DEF Typed
      <3>3. Earned(objects[B])
        BY <3>2, Earning DEF Limiting
      <3> QED
        BY <1>2, <2>1, <3>1, <3>2, <3>3 DEF Bucket
    <2>2. CASE map[s] = 0 /\ objects = [buckets EXCEPT ![B] = Full(limits)]
      <3>1. objects[B] = Full(limits)
        BY <2>2 DEF Typed
      <3> QED
        BY <1>2, <2>2, <3>1, Earning DEF Full
    <2> QED
      BY <1>7, <2>1, <2>2
  <1>10. \A b \in Buckets : Earned(buckets'[b])
    BY <1>4, <1>8, <1>9, Earning DEF Limiting
  <1>11. \A b \in Buckets : \/ buckets'[b].idle <= IdleLimit
                            \/ due' /\ buckets'[b].idle = IdleLimit + 1
    <2>1. Unused.idle = 0 /\ 0 <= IdleLimit
      BY BoundsAssumption DEF Unused, Full, BoundsAssumption
    <2>2. objects[B].idle <= IdleLimit
      BY <1>9, <2>1
    <2>3. Unused.idle <= IdleLimit
      BY <2>1
    <2> HIDE DEF Unused
    <2>4. \A b \in Buckets :
             \/ objects[b].idle <= IdleLimit
             \/ due' /\ objects[b].idle = IdleLimit + 1
      <3>1. \A b \in Buckets :
               \/ buckets[b].idle <= IdleLimit
               \/ due /\ buckets[b].idle = IdleLimit + 1
        BY DEF Limiting
      <3>2. due => due'
        BY <1>6
      <3> QED
        BY <1>4, <2>2, <3>1, <3>2
    <2> QED
      BY <1>8, <2>3, <2>4
  <1>12. \A t \in Sessions : ideal'[t] <= current'.burst
    <2>1. limits.burst <= limits.burst
      BY <1>2, LimitsType
    <2> QED
      BY <1>6, <2>1 DEF Limiting
  <1>13. \A t \in Sessions : limiters'[t] = B => t = s
    BY <1>2, <1>3, <1>4, <1>7 DEF Limiting, Own
  <1>14. Own'
    <2> SUFFICES ASSUME NEW t \in Sessions, limiters'[t] # 0
                 PROVE  /\ buckets'[limiters'[t]].limits = current'
                        /\ \A u \in Sessions : limiters'[u] = limiters'[t]
                              => u = t
      BY DEF Own
    <2>1. CASE t = s
      BY <1>2, <1>3, <1>4, <1>6, <1>8, <1>9, <1>13, <2>1
    <2>2. CASE t # s
      <3>1. /\ limiters'[t] = limiters[t] /\ limits = current
            /\ limiters'[t] # B /\ limiters'[t] \in Buckets
            /\ map = limiters
        <4>1. limiters'[t] = map[t] /\ map[t] # 0
          BY <1>3, <1>4, <2>2
        <4>2. map = limiters /\ limits = current
          BY <1>3, <4>1
        <4> QED
          BY <1>3, <1>13, <2>2, <4>1, <4>2
      <3>2. buckets'[limiters'[t]] = buckets[limiters[t]]
        BY <1>4, <1>8, <3>1
      <3>3. ASSUME NEW u \in Sessions, limiters'[u] = limiters'[t] PROVE u = t
        <4>1. u # s
          BY <1>2, <1>3, <1>4, <3>1, <3>3
        <4> QED
          BY <1>3, <1>4, <3>1, <3>3, <4>1 DEF Limiting, Own
      <3> QED
        BY <1>6, <3>1, <3>2, <3>3 DEF Limiting, Own
    <2> QED
      BY <2>1, <2>2
  <1>15. Taking'
    <2> SUFFICES ASSUME NEW d \in Calls
                 PROVE  /\ calls'[d].phase = "taking" <=> calls'[d].bucket # 0
                        /\ calls'[d].phase \in {"limiting", "taking"} =>
                              /\ calls'[d].session \in Sessions
                              /\ Earns(calls'[d].limits)
                        /\ calls'[d].phase = "taking" =>
                              /\ buckets'[calls'[d].bucket].limits
                                    = calls'[d].limits
                              /\ buckets'[calls'[d].bucket].idle = 0
                              /\ \A t \in Sessions :
                                    limiters'[t] = calls'[d].bucket
                                       => t = calls'[d].session
      BY DEF Taking, Earns
    <2>1. CASE d = c
      BY <1>2, <1>5, <1>8, <1>9, <1>13, <2>1
    <2>2. CASE d # c
      <3> DEFINE b == calls[d].bucket
      <3>1. /\ calls'[d] = calls[d]
            /\ calls[d].phase = "taking" <=> b # 0
            /\ calls[d].phase \in {"limiting", "taking"} =>
                  calls[d].session \in Sessions /\ Earns(calls[d].limits)
        BY <1>5, <2>2 DEF Limiting, Taking
      <3>2. CASE b = B
        <4>1. /\ calls[d].phase = "taking" /\ map[s] = B
              /\ objects[B].limits = limits
          BY <1>2, <1>7, <1>9, <3>1, <3>2
        <4>2. buckets[B].limits = limits /\ s = calls[d].session
          BY <1>2, <1>3, <3>2, <4>1 DEF Limiting, Taking, Own
        <4>3. buckets[B].limits = calls[d].limits
          BY <3>2, <4>1 DEF Limiting, Taking
        <4> QED
          BY <1>8, <1>9, <1>13, <3>1, <3>2, <4>1, <4>2, <4>3
      <3>3. CASE b # B /\ calls[d].phase = "taking"
        <4>1. b \in Buckets
          BY <3>1, <3>3 DEF Typed, Call
        <4>2. buckets'[b] = buckets[b]
          <5>1. calls'[d].bucket = b /\ b \in Buckets \ {B}
            BY <3>1, <3>3, <4>1
          <5> HIDE DEF b
          <5> QED
            BY <1>4, <1>8, <5>1
        <4>3. \A t \in Sessions : limiters'[t] = b => limiters[t] = b
          BY <1>3, <1>4, <3>1, <3>3
        <4> QED
          BY <3>1, <3>3, <4>2, <4>3 DEF Limiting, Taking
      <3> QED
        BY <3>1, <3>2, <3>3
    <2> QED
      BY <2>1, <2>2
  <1>16. ReapingIsInvisible'
    <2> SUFFICES ASSUME NEW t \in Sessions
                 PROVE  ideal'[t] = IF limiters'[t] = 0 THEN current'.burst
                                    ELSE buckets'[limiters'[t]].tokens
      BY DEF ReapingIsInvisible
    <2>1. limits # current => ideal'[t] = current'.burst /\ map[t] = 0
      BY <1>6, SurvivingType DEF map
    <2>2. limits = current => ideal'[t] = ideal[t] /\ map = limiters
      BY <1>6, SurvivingType DEF map
    <2>3. CASE t = s
      <3>1. limiters'[t] = B /\ buckets'[B].tokens = objects[B].tokens
        BY <1>2, <1>3, <1>4, <1>8, <2>3
      <3>2. map[s] # 0 => /\ map[s] = B /\ map = limiters
                          /\ limits = current
        BY <1>2, <1>3, <1>7
      <3>3. ideal[s] = IF limiters[s] = 0 THEN current.burst
                       ELSE buckets[limiters[s]].tokens
        BY <1>2 DEF Limiting, ReapingIsInvisible
      <3> QED
        BY <1>2, <1>6, <1>9, <2>1, <2>2, <2>3, <3>1, <3>2, <3>3
    <2>4. CASE t # s
      <3>1. limiters'[t] = map[t] /\ map[t] # B
        BY <1>3, <1>4, <1>13, <2>4
      <3>2. map[t] # 0 => buckets'[map[t]] = buckets[map[t]]
        BY <1>3, <1>4, <1>8, <3>1
      <3> QED
        BY <1>6, <2>1, <2>2, <3>1, <3>2 DEF Limiting, ReapingIsInvisible
    <2> QED
      BY <2>3, <2>4
  <1> QED
    BY <1>2, <1>6, <1>10, <1>11, <1>12, <1>14, <1>15, <1>16 DEF Limiting, Earns, Earned

\* A bucket that is referred to is kept as it is.
LEMMA KeptWhileNeeded ==
  ASSUME NEW objects, NEW map, NEW callers, NEW b \in Buckets
  PROVE  /\ Kept(objects, map, callers)[b] \in {objects[b], Unused}
         /\ \A s \in Sessions : map[s] = b
               => Kept(objects, map, callers)[b] = objects[b]
         /\ \A c \in Calls : callers[c].bucket = b
               => Kept(objects, map, callers)[b] = objects[b]
  <1> HIDE DEF Unused
  <1> QED
    BY DEF Kept

\* A bucket nothing refers to is not idle.
LEMMA UnusedIdle == Unused.idle = 0 /\ Unused.idle <= IdleLimit
  BY BoundsAssumption DEF Unused, Full, BoundsAssumption

\* A request takes a token, or does not get one.
LEMMA LimitingAllow ==
  ASSUME Typed, Limiting, NEW c \in Calls, Allow(c)
  PROVE  Limiting'
  <1> DEFINE s == calls[c].session
             B == calls[c].bucket
             some == buckets[B].tokens > 0
             objects == IF some THEN [buckets EXCEPT ![B].tokens = @ - 1]
                                ELSE buckets
  <1>1. /\ s \in Sessions /\ B \in Buckets /\ B # 0
        /\ calls[c].phase = "taking" /\ buckets[B].idle = 0
        /\ \A t \in Sessions : limiters[t] = B => t = s
    BY BucketsType DEF Allow, Limiting, Taking, Typed, Call
  <1>2. /\ UNCHANGED <<current, limiters, due>>
        /\ buckets' = Kept(objects, limiters, calls')
        /\ ideal' = IF some /\ limiters[s] = B
                    THEN [ideal EXCEPT ![s] = @ - 1] ELSE ideal
    BY DEF Allow
  <1>3. /\ calls'[c].phase \in {"allowed", "idle"} /\ calls'[c].bucket = 0
        /\ \A d \in Calls \ {c} : calls'[d] = calls[d]
    <2>1. Idle.bucket = 0 /\ Idle.phase = "idle"
      BY DEF Idle
    <2>2. Allowed(calls[c]).bucket = 0 /\ Allowed(calls[c]).phase = "allowed"
      BY DEF Allowed, Begun, Idle
    <2>3. calls' = [calls EXCEPT ![c] = Allowed(calls[c])]
          \/ calls' = [calls EXCEPT ![c] = Idle]
      BY DEF Allow, Now
    <2> QED
      BY <2>1, <2>2, <2>3 DEF Typed
  <1>4. \A b \in Buckets : buckets[b] \in Bucket /\ Earned(buckets[b])
    BY DEF Typed, Limiting
  <1>5. /\ objects[B] = IF some THEN [buckets[B] EXCEPT !.tokens = @ - 1]
                                ELSE buckets[B]
        /\ \A b \in Buckets \ {B} : objects[b] = buckets[b]
    BY <1>1 DEF Typed
  <1> HIDE DEF s, B, objects
  <1>6. /\ \A b \in Buckets : /\ objects[b].limits = buckets[b].limits
                              /\ objects[b].idle = buckets[b].idle
                              /\ Earned(objects[b])
        /\ objects[B].tokens = IF some THEN buckets[B].tokens - 1
                                       ELSE buckets[B].tokens
    <2>1. /\ objects[B].limits = buckets[B].limits
          /\ objects[B].idle = buckets[B].idle
          /\ objects[B].tokens = IF some THEN buckets[B].tokens - 1
                                         ELSE buckets[B].tokens
      BY <1>1, <1>4, <1>5 DEF Bucket
    <2>2. Earned(objects[B])
      BY <1>1, <1>4, <1>5, Earning
    <2> QED
      BY <1>4, <1>5, <2>1, <2>2
  <1> HIDE DEF some
  <1>7. /\ \A b \in Buckets : buckets'[b] \in {objects[b], Unused}
        /\ \A t \in Sessions : limiters[t] # 0
              => /\ limiters[t] \in Buckets
                 /\ buckets'[limiters[t]] = objects[limiters[t]]
        /\ \A d \in Calls \ {c} : calls[d].bucket \in Buckets
              => buckets'[calls[d].bucket] = objects[calls[d].bucket]
    BY <1>2, <1>3, KeptWhileNeeded DEF Typed
  <1>8. \A b \in Buckets : Earned(buckets'[b])
    BY <1>6, <1>7, Earning
  <1>9. \A b \in Buckets :
           \/ buckets'[b].idle <= IdleLimit
           \/ due' /\ buckets'[b].idle = IdleLimit + 1
    <2>1. due => due'
      BY <1>2
    <2>2. \A b \in Buckets :
             \/ objects[b].idle <= IdleLimit
             \/ due /\ objects[b].idle = IdleLimit + 1
      BY <1>6 DEF Limiting
    <2> QED
      BY <1>7, <2>1, <2>2, UnusedIdle
  <1>10. /\ some /\ limiters[s] = B
               => ideal'[s] = ideal[s] - 1 /\ ideal[s] = buckets[B].tokens
         /\ \A t \in Sessions : ~(some /\ t = s /\ limiters[s] = B)
               => ideal'[t] = ideal[t]
    BY <1>1, <1>2 DEF Limiting, ReapingIsInvisible, Typed
  <1>11. \A t \in Sessions : ideal'[t] <= current'.burst
    <2>1. /\ current.burst \in Nat
          /\ \A t \in Sessions : ideal[t] \in Nat /\ ideal[t] <= current.burst
      BY LimitsType DEF Limiting, Typed
    <2> QED
      BY <1>1, <1>2, <1>10, <2>1
  <1>12. Own'
    BY <1>2, <1>6, <1>7 DEF Limiting, Own
  <1>13. Taking'
    <2> SUFFICES ASSUME NEW d \in Calls
                 PROVE  /\ calls'[d].phase = "taking" <=> calls'[d].bucket # 0
                        /\ calls'[d].phase \in {"limiting", "taking"} =>
                              /\ calls'[d].session \in Sessions
                              /\ Earns(calls'[d].limits)
                        /\ calls'[d].phase = "taking" =>
                              /\ buckets'[calls'[d].bucket].limits
                                    = calls'[d].limits
                              /\ buckets'[calls'[d].bucket].idle = 0
                              /\ \A t \in Sessions :
                                    limiters'[t] = calls'[d].bucket
                                       => t = calls'[d].session
      BY DEF Taking, Earns
    <2>1. calls[d].phase = "taking" => calls[d].bucket \in Buckets
      BY DEF Limiting, Taking, Typed, Call
    <2> QED
      BY <1>2, <1>3, <1>6, <1>7, <2>1 DEF Limiting, Taking
  <1>14. ReapingIsInvisible'
    <2> SUFFICES ASSUME NEW t \in Sessions
                 PROVE  ideal'[t] = IF limiters[t] = 0 THEN current.burst
                                    ELSE buckets'[limiters[t]].tokens
      BY <1>2 DEF ReapingIsInvisible
    <2>1. ideal[t] = IF limiters[t] = 0 THEN current.burst
                     ELSE buckets[limiters[t]].tokens
      BY DEF Limiting, ReapingIsInvisible
    <2>2. CASE limiters[t] = B
      BY <1>1, <1>6, <1>7, <1>10, <2>1, <2>2
    <2>3. CASE limiters[t] # B
      BY <1>1, <1>5, <1>7, <1>10, <2>1, <2>3
    <2> QED
      BY <2>2, <2>3
  <1> QED
    BY <1>2, <1>8, <1>9, <1>11, <1>12, <1>13, <1>14 DEF Limiting, Earns, Earned

\* Time passes.
LEMMA LimitingElapse ==
  ASSUME Typed, Limiting, Elapse
  PROVE  Limiting'
  <1>1. /\ UNCHANGED <<current, limiters, calls>>
        /\ ~due /\ due' /\ \A c \in Calls : calls[c].phase # "taking"
    BY DEF Elapse
  <1>2. \A b \in Buckets : buckets[b] \in Bucket /\ Earned(buckets[b])
    BY DEF Typed, Limiting
  <1>3. ASSUME NEW b \in Buckets
        PROVE  /\ buckets'[b].limits = buckets[b].limits
               /\ buckets'[b].tokens
                     = Refilled(buckets[b].tokens, buckets[b].limits)
               /\ buckets'[b].idle \in {0, buckets[b].idle + 1}
               /\ Earned(buckets'[b])
    <2> DEFINE n == IF buckets[b] = Unused THEN 0 ELSE buckets[b].idle + 1
    <2>1. buckets'[b] = [buckets[b] EXCEPT
                            !.tokens = Refilled(@, buckets[b].limits),
                            !.idle = n]
      BY DEF Elapse
    <2>2. n \in {0, buckets[b].idle + 1}
      OBVIOUS
    <2> HIDE DEF n
    <2>3. Earned(buckets'[b])
      BY <1>2, <2>1, <2>2, Earning
    <2> QED
      BY <1>2, <2>1, <2>2, <2>3 DEF Bucket
  <1>4. \A b \in Buckets : buckets'[b].idle <= IdleLimit + 1
                           /\ buckets'[b].idle \in Nat
    <2>1. \A b \in Buckets : buckets[b].idle \in Nat
                             /\ buckets[b].idle <= IdleLimit
      BY <1>1, <1>2 DEF Limiting, Bucket
    <2> QED
      BY <1>3, <2>1, BoundsAssumption DEF BoundsAssumption
  <1>5. \A b \in Buckets :
           \/ buckets'[b].idle <= IdleLimit
           \/ due' /\ buckets'[b].idle = IdleLimit + 1
    BY <1>1, <1>4, BoundsAssumption DEF BoundsAssumption
  <1>6. /\ current.burst \in Nat /\ current.rate \in Nat
        /\ Refilled(current.burst, current) = current.burst
        /\ \A n \in Nat : Refilled(n, current) <= current.burst
    BY LimitsType DEF Typed, Refilled
  <1>7. \A s \in Sessions : /\ ideal'[s] = Refilled(ideal[s], current)
                            /\ ideal[s] \in Nat
    BY DEF Elapse, Typed
  <1>8. Own'
    BY <1>1, <1>3 DEF Limiting, Own, Typed
  <1>9. Taking'
    BY <1>1 DEF Limiting, Taking
  <1>10. ReapingIsInvisible'
    <2> SUFFICES ASSUME NEW t \in Sessions
                 PROVE  ideal'[t] = IF limiters[t] = 0 THEN current.burst
                                    ELSE buckets'[limiters[t]].tokens
      BY <1>1 DEF ReapingIsInvisible
    <2>1. ideal[t] = IF limiters[t] = 0 THEN current.burst
                     ELSE buckets[limiters[t]].tokens
      BY DEF Limiting, ReapingIsInvisible
    <2>2. limiters[t] # 0 => /\ limiters[t] \in Buckets
                             /\ buckets[limiters[t]].limits = current
      BY DEF Limiting, Own, Typed
    <2> QED
      BY <1>3, <1>6, <1>7, <2>1, <2>2
  <1> QED
    BY <1>1, <1>3, <1>5, <1>6, <1>7, <1>8, <1>9, <1>10
       DEF Limiting, Earns, Earned

\* The reaper drops what is full.
LEMMA LimitingReap ==
  ASSUME Typed, Limiting, Reap
  PROVE  Limiting'
  <1>1. /\ UNCHANGED <<current, ideal, calls>> /\ ~due'
        /\ limiters' = [s \in Sessions |->
              IF limiters[s] # 0 /\ buckets[limiters[s]].idle > IdleLimit
              THEN 0 ELSE limiters[s]]
        /\ buckets' = Kept(buckets, limiters', calls)
    BY DEF Reap
  <1>2. \A b \in Buckets : buckets[b] \in Bucket /\ Earned(buckets[b])
    BY DEF Typed, Limiting
  <1>3. /\ \A s \in Sessions :
              /\ limiters[s] \in Buckets \cup {0}
              /\ limiters'[s] \in {limiters[s], 0}
              /\ limiters'[s] # 0 => ~(buckets[limiters[s]].idle > IdleLimit)
              /\ limiters'[s] = 0 => \/ limiters[s] = 0
                                     \/ buckets[limiters[s]].idle > IdleLimit
    BY <1>1 DEF Typed
  <1>4. /\ \A b \in Buckets : buckets'[b] \in {buckets[b], Unused}
        /\ \A s \in Sessions : limiters'[s] # 0
              => buckets'[limiters'[s]] = buckets[limiters'[s]]
        /\ \A c \in Calls : calls[c].bucket \in Buckets
              => buckets'[calls[c].bucket] = buckets[calls[c].bucket]
    BY <1>1, <1>3, KeptWhileNeeded
  <1>5. \A b \in Buckets : Earned(buckets'[b])
    BY <1>2, <1>4, Earning
  <1>6. \A b \in Buckets : buckets'[b].idle <= IdleLimit
    <2> SUFFICES ASSUME NEW b \in Buckets PROVE buckets'[b].idle <= IdleLimit
      OBVIOUS
    <2>1. buckets[b].idle \in Nat /\ IdleLimit \in Nat
      BY <1>2, BoundsAssumption DEF Bucket, BoundsAssumption
    <2>2. CASE \E s \in Sessions : limiters'[s] = b
      BY <1>3, <1>4, <2>1, <2>2, BucketsType
    <2>3. CASE \E c \in Calls : calls[c].bucket = b
      <3>1. buckets[b].idle = 0
        BY <2>3, BucketsType DEF Limiting, Taking
      <3> QED
        BY <1>4, <2>1, <3>1, UnusedIdle
    <2>4. CASE /\ ~ \E s \in Sessions : limiters'[s] = b
               /\ ~ \E c \in Calls : calls[c].bucket = b
      <3>1. buckets'[b] = Unused
        <4> HIDE DEF Unused
        <4> QED
          BY <1>1, <2>4 DEF Kept
      <3> QED
        BY <3>1, UnusedIdle
    <2> QED
      BY <2>2, <2>3, <2>4
  <1>7. Own'
    BY <1>1, <1>3, <1>4 DEF Limiting, Own
  <1>8. Taking'
    <2>1. \A c \in Calls : calls[c].phase = "taking" => calls[c].bucket \in Buckets
      BY DEF Limiting, Taking, Typed, Call
    <2>2. \A s \in Sessions, c \in Calls :
             limiters'[s] = calls[c].bucket /\ calls[c].bucket # 0
                => limiters[s] = calls[c].bucket
      BY <1>3
    <2> QED
      BY <1>1, <1>4, <2>1, <2>2 DEF Limiting, Taking
  <1>9. ReapingIsInvisible'
    <2> SUFFICES ASSUME NEW t \in Sessions
                 PROVE  ideal[t] = IF limiters'[t] = 0 THEN current.burst
                                   ELSE buckets'[limiters'[t]].tokens
      BY <1>1 DEF ReapingIsInvisible
    <2>1. ideal[t] = IF limiters[t] = 0 THEN current.burst
                     ELSE buckets[limiters[t]].tokens
      BY DEF Limiting, ReapingIsInvisible
    <2>2. CASE limiters'[t] = 0 /\ limiters[t] # 0
      <3>1. /\ limiters[t] \in Buckets
            /\ buckets[limiters[t]].idle > IdleLimit
            /\ buckets[limiters[t]].limits = current /\ Earns(current)
        BY <1>3, <2>2 DEF Limiting, Own
      <3>2. buckets[limiters[t]].tokens = current.burst
        BY <1>2, <3>1, StaleIsFull
      <3> QED
        BY <2>1, <2>2, <3>2
    <2>3. CASE limiters'[t] = limiters[t]
      BY <1>4, <2>1, <2>3
    <2> QED
      BY <1>3, <2>2, <2>3
  <1> QED
    BY <1>1, <1>5, <1>6, <1>7, <1>8, <1>9 DEF Limiting, Earns, Earned

\* The records that are made at the start of a request are not at the limiter.
LEMMA NotLimiting ==
  ASSUME NEW call
  PROVE  /\ Idle.phase = "idle" /\ Idle.bucket = 0
         /\ Begun(call).phase = "idle" /\ Begun(call).bucket = 0
         /\ Allowed(call).phase = "allowed" /\ Allowed(call).bucket = 0
  BY DEF Idle, Begun, Allowed

\* The limiter's invariant is kept by all steps.
LEMMA LimitingStep ==
  ASSUME Typed, Limiting, [Next]_vars
  PROVE  Limiting'
  <1>1. \A c \in Calls : /\ calls[c] \in Call
                         /\ calls[c].phase # "taking" => calls[c].bucket = 0
    BY DEF Typed, Limiting, Taking
  <1>2. CASE ReloadConfiguration
    BY <1>2, LimitingUnchanged DEF ReloadConfiguration, Elsewhere
  <1>3. CASE StoreConfig \/ StoreOAuth
    <2>1. ASSUME NEW c \in Calls PROVE Elsewhere(calls[c], calls'[c])
      <3>1. \/ calls'[c] = calls[c]
            \/ calls'[c] = [calls[c] EXCEPT !.configs = @ \cup {cfg'}]
            \/ calls'[c] = [calls[c] EXCEPT !.issuers = @ \cup {oauth'}]
        BY <1>3 DEF StoreConfig, StoreOAuth
      <3> QED
        BY <1>1, <3>1 DEF Elsewhere, Call
    <2> QED
      BY <1>3, <2>1, LimitingUnchanged DEF StoreConfig, StoreOAuth
  <1>4. ASSUME NEW c \in Calls, NEW new, Now(c, new), UNCHANGED limiter,
               new.phase \notin {"limiting", "taking"}, new.bucket = 0
        PROVE  Limiting'
    <2>1. Elsewhere(calls[c], new)
      BY <1>4 DEF Elsewhere
    <2> QED
      BY <1>4, <2>1, LimitingElsewhere
  <1>5. ASSUME NEW c \in Calls, Receive(c) PROVE Limiting'
    <2>1. PICK header \in Headers, session \in Sessions \cup {NoSession} :
             Now(c, [Idle EXCEPT !.phase = "received", !.header = header,
                                 !.session = session,
                                 !.configs = {cfg}, !.issuers = {oauth}])
      BY <1>5 DEF Receive
    <2> DEFINE new == [Idle EXCEPT !.phase = "received", !.header = header,
                                   !.session = session,
                                   !.configs = {cfg}, !.issuers = {oauth}]
    <2>2. new.phase = "received" /\ new.bucket = 0
      BY DEF Idle
    <2>3. UNCHANGED limiter /\ Now(c, new)
      BY <1>5, <2>1 DEF Receive
    <2> HIDE DEF new
    <2> QED
      BY <1>4, <2>2, <2>3
  <1>6. ASSUME NEW c \in Calls, calls[c].phase # "taking"
        PROVE  /\ \A new \in {Passed(calls[c]),
                              [calls[c] EXCEPT !.phase = "verifying"],
                              [calls[c] EXCEPT !.phase = "snapshot",
                                               !.issuer = oauth],
                              [calls[c] EXCEPT !.phase = "configured",
                                               !.config = cfg]} :
                     /\ new.phase \notin {"limiting", "taking"}
                     /\ new.bucket = 0
               /\ \A built : [calls[c] EXCEPT !.phase = "exchanging",
                                              !.sts = built].phase
                                \notin {"limiting", "taking"}
               /\ \A built : [calls[c] EXCEPT !.phase = "exchanging",
                                              !.sts = built].bucket = 0
    BY <1>1, <1>6 DEF Call, Passed
  <1>7. ASSUME NEW c \in Calls, Authorize(c) \/ Verify(c) PROVE Limiting'
    <2>1. /\ calls[c].phase # "taking" /\ UNCHANGED limiter
          /\ \/ Now(c, Passed(calls[c])) \/ Now(c, Idle)
             \/ Now(c, [calls[c] EXCEPT !.phase = "verifying"])
      BY <1>7 DEF Authorize, Verify
    <2>2. CASE Now(c, Idle)
      BY <1>4, <2>1, <2>2, NotLimiting
    <2> QED
      BY <1>4, <1>6, <2>1, <2>2
  <1>8. ASSUME NEW c \in Calls, ReadLimits(c) PROVE Limiting'
    <2> DEFINE new == [calls[c] EXCEPT !.phase = "limiting",
                                       !.limits = Limits(mcp)]
    <2>1. calls[c].phase = "authorized" /\ UNCHANGED limiter
      BY <1>8 DEF ReadLimits
    <2>2. CASE Now(c, Allowed(calls[c]))
      BY <1>4, <2>1, <2>2, NotLimiting
    <2>3. CASE Now(c, new) /\ ~(mcp.rate = 0 \/ calls[c].session = NoSession)
      <3>1. /\ new.phase = "limiting" /\ new.bucket = 0
            /\ new.session = calls[c].session /\ new.limits = Limits(mcp)
        BY <1>1, <2>1 DEF Call
      <3>2. calls[c].session \in Sessions /\ mcp \in Configs
        BY <1>1, <2>3 DEF Call, Typed
      <3>3. mcp.rate > 0
        <4>1. mcp.rate \in Nat
          BY <3>2, ConfigsAssumption DEF ConfigsAssumption
        <4>2. mcp.rate # 0
          BY <2>3
        <4> QED
          BY <4>1, <4>2
      <3>4. Earns(Limits(mcp))
        BY <3>2, <3>3, LimitsEarn
      <3> HIDE DEF new
      <3>5. Elsewhere(calls[c], new)
        BY <3>1, <3>2, <3>4 DEF Elsewhere
      <3> QED
        BY <2>1, <2>3, <3>5, LimitingElsewhere
    <2> QED
      BY <1>8, <2>2, <2>3 DEF ReadLimits
  <1>9. ASSUME NEW c \in Calls,
               LoadSnapshot(c) \/ LoadConfig(c)
        PROVE  Limiting'
    <2>1. /\ calls[c].phase # "taking" /\ UNCHANGED limiter
          /\ \/ Now(c, [calls[c] EXCEPT !.phase = "snapshot", !.issuer = oauth])
             \/ Now(c, [calls[c] EXCEPT !.phase = "configured", !.config = cfg])
      BY <1>9 DEF LoadSnapshot, LoadConfig
    <2> QED
      BY <1>4, <1>6, <2>1
  <1>10. ASSUME NEW c \in Calls, GetOrBuildStsConfig(c) PROVE Limiting'
    <2>1. /\ calls[c].phase # "taking" /\ UNCHANGED limiter
          /\ \E built : Now(c, [calls[c] EXCEPT !.phase = "exchanging",
                                                !.sts = built])
      BY <1>10 DEF GetOrBuildStsConfig
    <2> QED
      BY <1>4, <1>6, <2>1
  <1>11. ASSUME NEW c \in Calls, Exchange(c) PROVE Limiting'
    <2>1. /\ UNCHANGED limiter
          /\ \/ Now(c, Idle)
             \/ \E outcome, with :
                   Now(c, [Begun(calls[c]) EXCEPT !.phase = "deriving",
                                                  !.outcome = outcome,
                                                  !.with = with])
      BY <1>11 DEF Exchange
    <2>2. \A outcome, with :
             LET new == [Begun(calls[c]) EXCEPT !.phase = "deriving",
                                                !.outcome = outcome,
                                                !.with = with]
             IN  new.phase \notin {"limiting", "taking"} /\ new.bucket = 0
      BY DEF Begun, Idle
    <2>3. CASE Now(c, Idle)
      BY <1>4, <2>1, <2>3, NotLimiting
    <2> QED
      BY <1>4, <2>1, <2>2, <2>3
  <1>12. ASSUME NEW c \in Calls, Derived(c) PROVE Limiting'
    <2>1. /\ UNCHANGED limiter
          /\ Now(c, Idle) \/ Now(c, [Idle EXCEPT !.phase = "served"])
      BY <1>12 DEF Derived
    <2>2. LET new == [Idle EXCEPT !.phase = "served"]
          IN  new.phase \notin {"limiting", "taking"} /\ new.bucket = 0
      BY DEF Idle
    <2>3. CASE Now(c, Idle)
      BY <1>4, <2>1, <2>3, NotLimiting
    <2> QED
      BY <1>4, <2>1, <2>2, <2>3
  <1>13. CASE UNCHANGED vars
    BY <1>13, LimitingUnchanged DEF vars, Elsewhere
  <1> QED
    BY <1>2, <1>3, <1>5, <1>7, <1>8, <1>9, <1>10, <1>11, <1>12, <1>13,
       LimitingFind, LimitingAllow, LimitingElapse, LimitingReap DEF Next

\* The type invariant and the limiter's are inductive together.
THEOREM LimiterInvariant == Spec => [](Typed /\ Limiting)
  <1>1. Init => Typed
    <2>1. Init => startup \in Configs
      BY DEF Init
    <2>2. ASSUME Init PROVE Idle \in Call /\ Unused \in Bucket /\ NoSts \in StsSet
      <3>1. Unused \in Bucket
        BY LimitsType DEF Unused, Full, NoLimits, Bucket
      <3> QED
        BY <2>1, <2>2, <3>1, IdleType
    <2>3. ASSUME Init
          PROVE  /\ oauth \in Published
                 /\ reload \in [step : {"none", "mcp", "cfg"}, new : Configs,
                                left : 0..MaxReloads]
      BY <2>1, <2>3, BoundsAssumption DEF Init, Published, BoundsAssumption
    <2>4. ASSUME Init
          PROVE  /\ current \in LimitSet
                 /\ limiters \in [Sessions -> Buckets \cup {0}]
                 /\ buckets \in [Buckets -> Bucket]
                 /\ ideal \in [Sessions -> Nat]
                 /\ sts \in StsSet
                 /\ calls \in [Calls -> Call]
      <3> HIDE DEF Idle, Unused, NoSts
      <3> QED
        BY <2>2, <2>4, LimitsType DEF Init
    <2> QED
      BY <2>3, <2>4 DEF Init, Typed
  <1>2. Init => Limiting
    <2> SUFFICES ASSUME Init PROVE Limiting
      OBVIOUS
    <2>1. \A c \in Calls : calls[c].phase = "idle" /\ calls[c].bucket = 0
      BY DEF Init, Idle
    <2>2. \A b \in Buckets : Earned(buckets[b]) /\ buckets[b].idle <= IdleLimit
      <3> HIDE DEF Unused
      <3> QED
        BY Earning, UnusedIdle DEF Init
    <2>3. \A s \in Sessions : limiters[s] = 0 /\ ideal[s] = current.burst
      BY DEF Init, NoLimits
    <2>4. Earns(current) /\ current.burst <= current.burst
      BY LimitsEarn DEF Init, NoLimits
    <2> QED
      BY <2>1, <2>2, <2>3, <2>4 DEF Limiting, Own, Taking, ReapingIsInvisible
  <1>3. Typed /\ Limiting /\ [Next]_vars => (Typed /\ Limiting)'
    BY TypedStep, LimitingStep
  <1> QED
    BY <1>1, <1>2, <1>3, PTL DEF Spec

\* What the variables hold, the bounds of buckets and of their idleness too.
THEOREM TypeCorrect == Spec => []TypeOK
  <1>1. Typed /\ Limiting => TypeOK
    <2> SUFFICES ASSUME Typed, Limiting PROVE TypeOK
      OBVIOUS
    <2>1. /\ {startup, mcp, cfg} \subseteq Configs
          /\ oauth \in {config.issuer : config \in Configs}
          /\ reload.step \in {"none", "mcp", "cfg"} /\ reload.new \in Configs
          /\ reload.left \in 0..MaxReloads
          /\ current \in {Limits(config) : config \in Configs} \cup {NoLimits}
          /\ due \in BOOLEAN
      BY DEF Typed, Published, LimitSet
    <2>2. \A s \in Sessions :
             /\ limiters[s] \in Buckets \cup {0}
             /\ ideal[s] \in 0..current.burst
             /\ limiters[s] # 0 => buckets[limiters[s]].limits = current
      BY LimitsType DEF Typed, Limiting, Own
    <2>3. \A b \in Buckets : buckets[b].tokens \in 0..buckets[b].limits.burst
      BY LimitsType DEF Typed, Limiting, Bucket, Earned
    <2>4. \A b \in Buckets : buckets[b].idle \in 0..IdleLimit + 1
      BY BoundsAssumption DEF Typed, Limiting, Bucket, BoundsAssumption
    <2>5. \A c \in Calls :
             /\ calls[c].phase \in Phases /\ calls[c].outcome \in Outcomes
             /\ calls[c].phase = "taking" => calls[c].bucket # 0
             /\ calls[c].configs \subseteq Configs
      BY DEF Typed, Limiting, Taking, Call
    <2> QED
      BY <2>1, <2>2, <2>3, <2>4, <2>5 DEF TypeOK
  <1> QED
    BY <1>1, LimiterInvariant, PTL

\* A session neither gains nor loses by the reaper, and a request is counted
\* by the limits it has read.
THEOREM LimitsHold == Spec => []SessionLimitsHold
  <1>1. Limiting => SessionLimitsHold
    BY DEF Limiting, Taking, SessionLimitsHold, LimitedByItsOwnLimits
  <1> QED
    BY <1>1, LimiterInvariant, PTL

-----------------------------------------------------------------------------
(* The credentials.                                                        *)

\* Nothing is known of a request before its start and after its end.
LEMMA SoundOutside ==
  ASSUME NEW call, call.phase \in {"idle", "served"}
  PROVE  Sound(call)
  BY DEF Sound, Verified, Current, Exchanged, Judged, Reading

\* A step of one request.
LEMMA CredentialsOne ==
  ASSUME Typed, Credentials, UNCHANGED <<cfg, oauth, sts>>,
         NEW c \in Calls, NEW new, Now(c, new), Sound(new)
  PROVE  Credentials'
  <1>1. \A d \in Calls : calls'[d] = IF d = c THEN new ELSE calls[d]
    BY DEF Now, Typed
  <1>2. \A d \in Calls : Sound(calls'[d])
    BY <1>1 DEF Credentials
  <1>3. ASSUME NEW d \in Calls PROVE Sound(calls[d])'
    <2>1. Sound(calls'[d])
      BY <1>2
    <2> QED
      BY <2>1 DEF Sound, Verified, Current, Exchanged
  <1> QED
    BY <1>3 DEF Credentials

\* Whoever is judged by a bearer token goes on with it.
LEMMA SoundPassed ==
  ASSUME NEW call \in Call, Sound(call), call.phase \in {"received", "verifying"},
         \/ call.phase = "verifying" \/ HasBearer(call.header)
         \/ ~cfg.requireOAuth
  PROVE  Sound(Passed(call))
  <1> DEFINE new == Passed(call)
  <1>1. /\ new.phase = "authorized" /\ new.token = Credential(call.header)
        /\ new.configs = call.configs /\ new.issuers = call.issuers
    BY DEF Passed, Call
  <1>2. HasBearer(call.header) => Credential(call.header) = "bearer"
    BY DEF Credential, HasBearer, Call, Headers
  <1>3. (\A config \in call.configs : config.requireOAuth)
           => HasBearer(call.header)
    BY DEF Sound, Verified
  <1> HIDE DEF new
  <1>4. Verified(new) /\ Current(new) /\ Exchanged(new)
    BY <1>1, <1>2, <1>3 DEF Verified, Current, Exchanged, Judged, Reading
  <1> QED
    BY <1>1, <1>4 DEF Sound, new

\* A request that has been judged goes on towards the cluster.
LEMMA SoundOnward ==
  ASSUME NEW call, Sound(call), call.phase \in Judged,
         NEW new, new.phase \in Judged \ Reading, new.token = call.token,
         new.configs = call.configs, new.issuers = call.issuers
  PROVE  Sound(new)
  <1>1. Verified(new)
    BY DEF Sound, Verified, Judged, Reading
  <1>2. Current(new) /\ Exchanged(new)
    BY DEF Current, Exchanged, Judged, Reading
  <1> QED
    BY <1>1, <1>2 DEF Sound, Judged

\* What is published during a call is added to what it may have read.
LEMMA SoundPublished ==
  ASSUME Typed, Credentials, UNCHANGED sts,
         \A c \in Calls :
            \/ calls'[c] = calls[c] /\ ~Active(c)
            \/ /\ \/ calls'[c] = [calls[c] EXCEPT !.configs = @ \cup {cfg'}]
                     /\ UNCHANGED oauth
                  \/ calls'[c] = [calls[c] EXCEPT !.issuers = @ \cup {oauth'}]
                     /\ UNCHANGED cfg
               /\ Active(c)
  PROVE  Credentials'
  <1> SUFFICES ASSUME NEW c \in Calls PROVE Sound(calls[c])'
    BY DEF Credentials
  <1> DEFINE old == calls[c]
             new == calls'[c]
  <1>1. old \in Call /\ Sound(old)
    BY DEF Typed, Credentials
  <1>2. CASE new = old /\ ~Active(c)
    BY <1>2 DEF Active, Sound, Verified, Current, Exchanged, Judged, Reading
  <1>3. CASE /\ \/ new = [old EXCEPT !.configs = @ \cup {cfg'}]
                   /\ UNCHANGED oauth
                \/ new = [old EXCEPT !.issuers = @ \cup {oauth'}]
                   /\ UNCHANGED cfg
             /\ Active(c)
    <2>1. /\ new.phase = old.phase /\ new.header = old.header
          /\ new.token = old.token /\ new.outcome = old.outcome
          /\ new.with = old.with /\ new.issuer = old.issuer
          /\ new.config = old.config /\ new.sts = old.sts
          /\ old.configs \subseteq new.configs
          /\ old.issuers \subseteq new.issuers
      BY <1>1, <1>3 DEF Call
    <2>2. cfg' \in new.configs /\ oauth' \in new.issuers
      BY <1>1, <1>3 DEF Call, Sound, Active
    <2> HIDE DEF old, new
    <2>3. Verified(new)
      BY <1>1, <2>1 DEF Sound, Verified
    <2>4. Current(new)
      BY <1>1, <2>1 DEF Sound, Current
    <2>5. Exchanged(new)
      BY <1>1, <2>1 DEF Sound, Exchanged
    <2> QED
      BY <2>2, <2>3, <2>4, <2>5
         DEF Sound, Verified, Current, Exchanged, new
  <1> QED
    BY <1>2, <1>3

\* What the exchange makes of a request is as configured.
LEMMA SoundExchange ==
  ASSUME Typed, Credentials, NEW c \in Calls, Exchange(c)
  PROVE  \E new : Now(c, new) /\ Sound(new)
  <1> DEFINE call == calls[c]
  <1>1. /\ call \in Call /\ Sound(call) /\ call.phase = "exchanging"
        /\ call.config \in Configs
    BY DEF Exchange, Typed, Credentials, Call
  <1>2. /\ call.config \in call.configs /\ call.issuer \in call.issuers
        /\ cfg \in call.configs /\ oauth \in call.issuers
        /\ call.config.exchange = "strategy" /\ call.issuer # ""
              => call.sts.made = <<call.issuer, call.config.params>>
        /\ (\A config \in call.configs : config.requireOAuth)
              => call.token = "bearer"
    BY <1>1 DEF Sound, Current, Verified, Judged, Reading
  <1>3. /\ call.config.mode = "kubeconfig" => /\ ~call.config.requireOAuth
                                              /\ call.config.exchange = "none"
        /\ call.config.exchange \in {"none", "sts", "strategy"}
        /\ \A config \in Configs : config.exchange # "none" => config.requireOAuth
    BY <1>1, ConfigsAssumption DEF ConfigsAssumption
  <1>4. \A config \in call.configs : config \in Configs
    BY <1>1 DEF Call
  <1>5. ASSUME NEW outcome, NEW with
        PROVE  LET new == [Begun(call) EXCEPT !.phase = "deriving",
                                              !.outcome = outcome, !.with = with]
               IN  /\ new.phase = "deriving" /\ new.outcome = outcome
                   /\ new.with = with
                   /\ new.configs = call.configs /\ new.issuers = call.issuers
    BY DEF Begun, Idle
  <1>6. ASSUME NEW outcome, NEW with,
               (\A config \in call.configs : config.requireOAuth)
                  => outcome \in {"bearer", "exchanged"},
               /\ \A config \in call.configs : config.exchange # "none"
               /\ "" \notin call.issuers
               => outcome = "exchanged",
               outcome = "exchanged" =>
                  with = <<call.issuer, call.config.params>>
        PROVE  Sound([Begun(call) EXCEPT !.phase = "deriving",
                                         !.outcome = outcome, !.with = with])
    <2> DEFINE new == [Begun(call) EXCEPT !.phase = "deriving",
                                          !.outcome = outcome, !.with = with]
    <2>1. /\ new.phase = "deriving" /\ new.outcome = outcome /\ new.with = with
          /\ new.configs = call.configs /\ new.issuers = call.issuers
      BY <1>5
    <2> HIDE DEF new, call
    <2>2. Verified(new) /\ Current(new)
      BY <1>6, <2>1 DEF Verified, Current, Judged, Reading
    <2>3. Exchanged(new)
      BY <1>2, <1>6, <2>1 DEF Exchanged
    <2>4. Sound(new)
      BY <1>2, <2>1, <2>2, <2>3 DEF Sound
    <2> QED
      BY <2>4 DEF new
  <1>7. CASE call.token = "own" \/ call.config.mode = "kubeconfig"
    <2>1. Now(c, [Begun(call) EXCEPT !.phase = "deriving", !.outcome = "own",
                                     !.with = <<"", "">>])
      BY <1>7 DEF Exchange
    <2>2. ~ \A config \in call.configs : config.requireOAuth
      BY <1>2, <1>3, <1>7
    <2>3. ~ \A config \in call.configs : config.exchange # "none"
      BY <1>3, <1>4, <2>2
    <2> QED
      BY <1>6, <2>1, <2>2, <2>3
  <1>8. CASE /\ ~(call.token = "own" \/ call.config.mode = "kubeconfig")
             /\ \/ call.config.exchange = "none"
                \/ call.config.exchange = "sts" /\ call.issuer = ""
    <2>1. Now(c, [Begun(call) EXCEPT !.phase = "deriving",
                                     !.outcome = call.token,
                                     !.with = <<"", "">>])
      BY <1>8 DEF Exchange
    <2>2. \/ ~ \A config \in call.configs : config.exchange # "none"
          \/ "" \in call.issuers
      BY <1>2, <1>8
    <2>3. call.token # "exchanged"
      BY <1>1 DEF Call, Tokens
    <2> QED
      BY <1>2, <1>6, <2>1, <2>2, <2>3
  <1>9. CASE /\ ~(call.token = "own" \/ call.config.mode = "kubeconfig")
             /\ ~ \/ call.config.exchange = "none"
                  \/ call.config.exchange = "sts" /\ call.issuer = ""
    <2>1. \/ Now(c, Idle)
          \/ /\ call.issuer # ""
             /\ Now(c, [Begun(call) EXCEPT
                           !.phase = "deriving", !.outcome = "exchanged",
                           !.with = IF call.config.exchange = "strategy"
                                    THEN call.sts.made
                                    ELSE <<call.issuer, call.config.params>>])
      BY <1>9 DEF Exchange
    <2>2. Sound(Idle)
      BY SoundOutside, NotLimiting
    <2>3. call.issuer # "" => (IF call.config.exchange = "strategy"
                               THEN call.sts.made
                               ELSE <<call.issuer, call.config.params>>)
                              = <<call.issuer, call.config.params>>
      BY <1>2
    <2> QED
      BY <1>6, <2>1, <2>2, <2>3
  <1> QED
    BY <1>7, <1>8, <1>9

\* What is looked up or built in the cache is for the issuer and the
\* configuration that the request has read.
LEMMA CredentialsSts ==
  ASSUME Typed, Credentials, NEW c \in Calls, GetOrBuildStsConfig(c)
  PROVE  Credentials'
  <1> DEFINE call == calls[c]
             pair == <<call.issuer, call.config.params>>
             found == IF sts # NoSts /\ sts.key = pair THEN sts
                      ELSE [key |-> pair, made |-> pair]
             any == call.config.exchange = "strategy" /\ call.issuer # ""
             built == IF any THEN found ELSE NoSts
             new == [call EXCEPT !.phase = "exchanging", !.sts = built]
  <1>1. /\ call \in Call /\ Sound(call) /\ call.phase = "configured"
        /\ sts.made = sts.key
    BY DEF GetOrBuildStsConfig, Typed, Credentials
  <1>2. /\ sts' = IF any THEN found ELSE sts
        /\ calls' = [calls EXCEPT ![c] = new]
        /\ UNCHANGED <<cfg, oauth>>
    BY DEF GetOrBuildStsConfig, StsConfigKey, Now, configs
  <1>3. found.made = found.key /\ found.made = pair
    BY <1>1
  <1>4. sts'.made = sts'.key
    BY <1>1, <1>2, <1>3
  <1>5. /\ new.phase = "exchanging" /\ new.token = call.token
        /\ new.configs = call.configs /\ new.issuers = call.issuers
        /\ new.config = call.config /\ new.issuer = call.issuer
        /\ new.sts = built
    BY <1>1 DEF Call
  <1>6. any => built.made = pair
    BY <1>3
  <1> HIDE DEF new, found, built
  <1>7. Verified(new) /\ Exchanged(new)
    BY <1>1, <1>5 DEF Sound, Verified, Exchanged, Judged
  <1>8. Current(new)
    BY <1>1, <1>5, <1>6 DEF Sound, Current, Reading
  <1>9. Sound(new)
    BY <1>1, <1>5, <1>7, <1>8 DEF Sound
  <1>10. \A d \in Calls : Sound(calls'[d])
    BY <1>2, <1>9 DEF Credentials, Typed
  <1>11. ASSUME NEW d \in Calls PROVE Sound(calls[d])'
    <2>1. Sound(calls'[d])
      BY <1>10
    <2> QED
      BY <1>2, <2>1 DEF Sound, Verified, Current, Exchanged
  <1> QED
    BY <1>4, <1>11 DEF Credentials

\* The credentials' invariant is kept by all steps.
LEMMA CredentialsStep ==
  ASSUME Typed, Credentials, [Next]_vars
  PROVE  Credentials'
  <1> USE DEF configs
  <1>1. \A c \in Calls : calls[c] \in Call /\ Sound(calls[c])
    BY DEF Typed, Credentials
  <1>2. CASE UNCHANGED <<cfg, oauth, sts, calls>>
    BY <1>2 DEF Credentials, Sound, Verified, Current, Exchanged
  <1>3. CASE ReloadConfiguration \/ Elapse \/ Reap \/ UNCHANGED vars
    BY <1>2, <1>3 DEF ReloadConfiguration, Elapse, Reap, vars
  <1>4. CASE StoreConfig \/ StoreOAuth
    BY <1>4, SoundPublished DEF StoreConfig, StoreOAuth
  <1>5. ASSUME NEW c \in Calls, NEW new, Now(c, new), Sound(new),
               UNCHANGED <<cfg, oauth, sts>>
        PROVE  Credentials'
    BY <1>5, CredentialsOne
  <1>6. Sound(Idle)
    BY SoundOutside, NotLimiting
  <1>7. ASSUME NEW c \in Calls, Receive(c) PROVE Credentials'
    <2>1. PICK header \in Headers, session \in Sessions \cup {NoSession} :
             Now(c, [Idle EXCEPT !.phase = "received", !.header = header,
                                 !.session = session,
                                 !.configs = {cfg}, !.issuers = {oauth}])
      BY <1>7 DEF Receive
    <2> DEFINE new == [Idle EXCEPT !.phase = "received", !.header = header,
                                   !.session = session,
                                   !.configs = {cfg}, !.issuers = {oauth}]
    <2>2. new.phase = "received" /\ new.configs = {cfg} /\ new.issuers = {oauth}
      BY DEF Idle
    <2>3. UNCHANGED <<cfg, oauth, sts>> /\ Now(c, new)
      BY <1>7, <2>1 DEF Receive
    <2> HIDE DEF new
    <2>4. Sound(new)
      BY <2>2 DEF Sound, Verified, Current, Exchanged, Judged, Reading
    <2> QED
      BY <1>5, <2>3, <2>4
  <1>8. ASSUME NEW c \in Calls, Authorize(c) \/ Verify(c) PROVE Credentials'
    <2> DEFINE call == calls[c]
               new == [call EXCEPT !.phase = "verifying"]
    <2>1. /\ call.phase \in {"received", "verifying"}
          /\ UNCHANGED <<cfg, oauth, sts>>
          /\ \/ Now(c, Idle)
             \/ /\ Now(c, Passed(call))
                /\ \/ call.phase = "verifying" \/ HasBearer(call.header)
                   \/ ~cfg.requireOAuth
             \/ /\ Now(c, new) /\ HasBearer(call.header)
      BY <1>8 DEF Authorize, Verify
    <2>2. CASE Now(c, Idle)
      BY <1>5, <1>6, <2>1, <2>2
    <2>3. CASE /\ Now(c, Passed(call))
               /\ \/ call.phase = "verifying" \/ HasBearer(call.header)
                  \/ ~cfg.requireOAuth
      BY <1>1, <1>5, <2>1, <2>3, SoundPassed
    <2>4. CASE Now(c, new) /\ HasBearer(call.header)
      <3>1. /\ new.phase = "verifying" /\ new.header = call.header
            /\ new.configs = call.configs /\ new.issuers = call.issuers
        BY <1>1 DEF Call
      <3>2. cfg \in call.configs /\ oauth \in call.issuers
        BY <1>1, <2>1 DEF Sound
      <3> HIDE DEF new
      <3>3. Sound(new)
        BY <2>4, <3>1, <3>2
           DEF Sound, Verified, Current, Exchanged, Judged, Reading
      <3> QED
        BY <1>5, <2>1, <2>4, <3>3
    <2> QED
      BY <2>1, <2>2, <2>3, <2>4
  <1>9. ASSUME NEW c \in Calls, NEW new, Now(c, new), calls[c].phase \in Judged,
               new.phase \in Judged \ Reading, new.token = calls[c].token,
               new.configs = calls[c].configs, new.issuers = calls[c].issuers,
               UNCHANGED <<cfg, oauth, sts>>
        PROVE  Credentials'
    <2>1. Sound(new)
      BY <1>1, <1>9, SoundOnward
    <2> QED
      BY <1>5, <1>9, <2>1
  <1>10. \A call : /\ Allowed(call).phase = "allowed"
                   /\ Allowed(call).token = call.token
                   /\ Allowed(call).configs = call.configs
                   /\ Allowed(call).issuers = call.issuers
    BY DEF Allowed, Begun, Idle
  <1>11. ASSUME NEW c \in Calls, ReadLimits(c) PROVE Credentials'
    <2> DEFINE new == [calls[c] EXCEPT !.phase = "limiting",
                                       !.limits = Limits(mcp)]
    <2>1. /\ calls[c].phase = "authorized" /\ UNCHANGED <<cfg, oauth, sts>>
          /\ Now(c, Allowed(calls[c])) \/ Now(c, new)
      BY <1>11 DEF ReadLimits
    <2>2. /\ new.phase = "limiting" /\ new.token = calls[c].token
          /\ new.configs = calls[c].configs /\ new.issuers = calls[c].issuers
      BY <1>1 DEF Call
    <2> HIDE DEF new
    <2> QED
      BY <1>9, <1>10, <2>1, <2>2 DEF Judged, Reading
  <1>12. ASSUME NEW c \in Calls, FindLimiter(c) PROVE Credentials'
    <2>1. PICK bucket : Now(c, [calls[c] EXCEPT !.phase = "taking",
                                                !.bucket = bucket])
      BY <1>12 DEF FindLimiter
    <2> DEFINE new == [calls[c] EXCEPT !.phase = "taking", !.bucket = bucket]
    <2>2. calls[c].phase = "limiting" /\ UNCHANGED <<cfg, oauth, sts>>
      BY <1>12 DEF FindLimiter
    <2>3. /\ new.phase = "taking" /\ new.token = calls[c].token
          /\ new.configs = calls[c].configs /\ new.issuers = calls[c].issuers
      BY <1>1 DEF Call
    <2>4. Now(c, new)
      BY <2>1
    <2> HIDE DEF new
    <2> QED
      BY <1>9, <2>2, <2>3, <2>4 DEF Judged, Reading
  <1>13. ASSUME NEW c \in Calls, Allow(c) PROVE Credentials'
    <2>1. /\ calls[c].phase = "taking" /\ UNCHANGED <<cfg, oauth, sts>>
          /\ Now(c, Allowed(calls[c])) \/ Now(c, Idle)
      BY <1>13 DEF Allow
    <2>2. CASE Now(c, Idle)
      BY <1>5, <1>6, <2>1, <2>2
    <2> QED
      BY <1>9, <1>10, <2>1, <2>2 DEF Judged, Reading
  <1>14. ASSUME NEW c \in Calls, LoadSnapshot(c) \/ LoadConfig(c)
         PROVE  Credentials'
    <2> DEFINE call == calls[c]
    <2>1. PICK new : /\ Now(c, new)
                     /\ \/ /\ call.phase = "allowed"
                           /\ new = [call EXCEPT !.phase = "snapshot",
                                                 !.issuer = oauth]
                        \/ /\ call.phase = "snapshot"
                           /\ new = [call EXCEPT !.phase = "configured",
                                                 !.config = cfg]
      BY <1>14 DEF LoadSnapshot, LoadConfig
    <2>2. /\ new.token = call.token
          /\ new.configs = call.configs /\ new.issuers = call.issuers
          /\ \/ /\ call.phase = "allowed" /\ new.phase = "snapshot"
                /\ new.issuer = oauth
             \/ /\ call.phase = "snapshot" /\ new.phase = "configured"
                /\ new.config = cfg /\ new.issuer = call.issuer
      BY <1>1, <2>1 DEF Call
    <2>3. Sound(call)
      BY <1>1
    <2> HIDE DEF call
    <2>4. cfg \in call.configs /\ oauth \in call.issuers
      BY <2>2, <2>3 DEF Sound
    <2>5. Verified(new)
      BY <2>2, <2>3 DEF Sound, Verified, Judged
    <2>6. Current(new) /\ Exchanged(new)
      BY <2>2, <2>3, <2>4 DEF Sound, Current, Exchanged, Reading
    <2>7. Sound(new)
      BY <2>2, <2>4, <2>5, <2>6 DEF Sound
    <2>8. UNCHANGED <<cfg, oauth, sts>>
      BY <1>14 DEF LoadSnapshot, LoadConfig
    <2> QED
      BY <1>5, <2>1, <2>7, <2>8
  <1>15. ASSUME NEW c \in Calls, Exchange(c) PROVE Credentials'
    <2>1. UNCHANGED <<cfg, oauth, sts>>
      BY <1>15 DEF Exchange
    <2> QED
      BY <1>5, <1>15, <2>1, SoundExchange
  <1>16. ASSUME NEW c \in Calls, Derived(c) PROVE Credentials'
    <2>1. /\ UNCHANGED <<cfg, oauth, sts>>
          /\ Now(c, Idle) \/ Now(c, [Idle EXCEPT !.phase = "served"])
      BY <1>16 DEF Derived
    <2>2. Sound([Idle EXCEPT !.phase = "served"])
      <3> DEFINE new == [Idle EXCEPT !.phase = "served"]
      <3>1. new.phase = "served"
        BY DEF Idle
      <3> HIDE DEF new
      <3>2. Sound(new)
        BY <3>1, SoundOutside
      <3> QED
        BY <3>2 DEF new
    <2> QED
      BY <1>5, <1>6, <2>1, <2>2
  <1> QED
    BY <1>3, <1>4, <1>7, <1>8, <1>11, <1>12, <1>13, <1>14, <1>15, <1>16,
       CredentialsSts DEF Next

\* What a request goes by is what was judged and what was published while it
\* ran.
THEOREM CredentialsInvariant == Spec => []Credentials
  <1>1. Init => Credentials
    <2> SUFFICES ASSUME Init PROVE Credentials
      OBVIOUS
    <2>1. \A c \in Calls : calls[c].phase = "idle"
      BY DEF Init, Idle
    <2>2. sts.made = sts.key
      BY DEF Init, NoSts
    <2> QED
      BY <2>1, <2>2, SoundOutside DEF Credentials
  <1>2. Typed /\ Credentials /\ [Next]_vars => Credentials'
    BY CredentialsStep
  <1> QED
    BY <1>1, <1>2, LimiterInvariant, PTL DEF Spec

\* While OAuth is required, the cluster sees the token of the header that was
\* judged, or one exchanged for it.
THEOREM IdentityHolds == Spec => IdentityIsVerified
  <1>1. Credentials =>
           [\A c \in Calls :
              /\ Reaches(c)
              /\ \A config \in calls[c].configs : config.requireOAuth
              => calls[c].outcome \in {"bearer", "exchanged"}]_vars
    BY DEF Credentials, Sound, Verified, Reaches
  <1> QED
    BY <1>1, CredentialsInvariant, PTL DEF IdentityIsVerified

\* Exchanges take place where they are configured, with what was published
\* during the call.
THEOREM ExchangesHold == Spec => ExchangedAsConfigured
  <1>1. Credentials =>
           [\A c \in Calls : Reaches(c) =>
              /\ /\ \A config \in calls[c].configs : config.exchange # "none"
                 /\ "" \notin calls[c].issuers
                 => calls[c].outcome = "exchanged"
              /\ calls[c].outcome = "exchanged" =>
                    \E issuer \in calls[c].issuers,
                       config \in calls[c].configs :
                          calls[c].with = <<issuer, config.params>>]_vars
    BY DEF Credentials, Sound, Exchanged, Reaches
  <1> QED
    BY <1>1, CredentialsInvariant, PTL DEF ExchangedAsConfigured
=============================================================================
