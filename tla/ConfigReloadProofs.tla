------------------------- MODULE ConfigReloadProofs -------------------------
(***************************************************************************)
(* What holds of ConfigReload for all configurations, requests, log files  *)
(* and bounds.                                                             *)
(*                                                                         *)
(* That the configuration, the OAuth snapshot and the log agree once the   *)
(* handler waits again is not inductive: it rests on how far the handler   *)
(* has come, and on the snapshot that compares with itself.  Published and *)
(* LogOwned say so.                                                        *)
(***************************************************************************)
EXTENDS ConfigReload, TLAPS

\* What the handler has handed out so far; only acceptable configurations,
\* and never a provider of another issuer than the snapshot's.
Published ==
    /\ OneConfiguration
    /\ OAuthFollows
    /\ VerificationIsConfigured
    /\ handler \in {"log", "swap", "publish", "oauth"} => server = new
    /\ handler = "oauth" => cfg = new
    /\ server.file \in Acceptable /\ cfg.file \in Acceptable
    /\ oauth.provider = oauth.issuer

\* The sink and the handler own the open log files; who closes the sink
\* follows the handler's end.
LogOwned ==
    /\ open = {sink, opened} \ {Nil}
    /\ opened # Nil => handler = "swap" /\ opened # sink
    /\ exit \in {"stopped", "closed"} => handler = "ended"
    /\ exit = "closed" => sink = Nil

\* A configuration that has been read is a static configuration.
LEMMA ReadType ==
  ASSUME NEW c \in Configs
  PROVE  Read(c) \in StaticConfigs /\ WithFlags(Read(c)) \in StaticConfigs
  BY DEF Read, WithFlags, StaticConfigs, Options

\* A snapshot of a configuration has its type, whichever provider it keeps.
LEMMA SnapshotType ==
  ASSUME NEW c \in Configs
  PROVE  /\ \A p \in Issuers : Snapshot(c, p) \in Snapshots
         /\ Snapshot(c, ProviderOf(c)) \in Snapshots
  BY DEF Snapshot, Snapshots, Issuers, ProviderOf

-----------------------------------------------------------------------------

\* Type correctness.
THEOREM TypeCorrect == Spec => []TypeOK
  <1>1. Init => TypeOK
    <2> SUFFICES ASSUME Init PROVE TypeOK
      OBVIOUS
    <2>1. Startup \in Configs
      BY ConstantsAssumption DEF ConstantsAssumption, Acceptable
    <2>2. server \in StaticConfigs /\ cfg \in StaticConfigs
      BY <2>1, ReadType DEF Init
    <2>3. oauth \in Snapshots
      BY <2>1, SnapshotType DEF Init
    <2>4. sink \in Descriptors \cup {Nil} /\ open \in SUBSET Descriptors
      BY ConstantsAssumption DEF ConstantsAssumption, Init
    <2> QED
      BY <2>1, <2>2, <2>3, <2>4 DEF Init, TypeOK
  <1>2. TypeOK /\ [Next]_vars => TypeOK'
    <2> SUFFICES ASSUME TypeOK, [Next]_vars PROVE TypeOK'
      OBVIOUS
    <2>0. new # Nil => new \in StaticConfigs /\ new.file \in Configs
      BY DEF TypeOK, StaticConfigs
    <2> USE DEF TypeOK, channel, states, log, budget
    <2>1. CASE Edit
      <3>1. edits' \in Nat
        BY <2>1 DEF Edit
      <3>2. announced' \in BOOLEAN
        BY <2>1, Zenon DEF Edit
      <3> QED
        BY <2>1, <3>1, <3>2 DEF Edit
    <2>2. CASE Signal
      BY <2>2 DEF Signal
    <2>3. CASE Receive \/ HandlerEnds \/ ReadFails \/ ApplyFails
      BY <2>3 DEF Receive, HandlerEnds, ReadFails, ApplyFails, GiveUp
    <2>4. CASE ReadFiles
      <3>1. Read(disk) \in StaticConfigs
        BY <2>4, ReadType DEF ReadFiles
      <3>2. Read(disk) # Nil
        BY <3>1, ConstantsAssumption DEF ConstantsAssumption
      <3> QED
        BY <2>4, <3>1, <3>2 DEF ReadFiles
    <2>5. CASE Apply
      BY <2>0, <2>5 DEF Apply
    <2>6. CASE OpenLog
      BY <2>6 DEF OpenLog
    <2>7. CASE SwapLog \/ LogFails
      BY <2>7 DEF SwapLog, LogFails, OpenFails
    <2>8. CASE Publish
      BY <2>0, <2>8 DEF Publish
    <2>9. CASE KeepProvider
      <3>1. oauth.provider \in Issuers
        BY DEF Snapshots
      <3>2. oauth' \in Snapshots
        BY <2>0, <2>9, <3>1, SnapshotType DEF KeepProvider
      <3> QED
        BY <2>9, <3>2 DEF KeepProvider, GiveUp
    <2>10. CASE CreateProvider
      <3>1. oauth' \in Snapshots
        BY <2>0, <2>10, SnapshotType DEF CreateProvider
      <3> QED
        BY <2>10, <3>1 DEF CreateProvider, GiveUp
    <2>11. CASE CreateFails
      <3>1. faults' \in Nat
        BY <2>11 DEF CreateFails
      <3>2. failed' \in BOOLEAN /\ announced' \in BOOLEAN
        BY <2>11, Zenon DEF CreateFails
      <3> QED
        BY <2>11, <3>1, <3>2 DEF CreateFails, GiveUp
    <2>12. ASSUME NEW q \in Requests, Arrive(q) \/ Decide(q) PROVE TypeOK'
      <3>1. cfg.file \in Configs
        BY DEF StaticConfigs
      <3> QED
        BY <2>12, <3>1 DEF Arrive, Decide
    <2>13. CASE Stop \/ StopReturns \/ CloseLog
      BY <2>13 DEF Stop, StopReturns, CloseLog
    <2>14. CASE UNCHANGED vars
      BY <2>14 DEF vars
    <2> QED
      BY <2>1, <2>2, <2>3, <2>4, <2>5, <2>6, <2>7, <2>8, <2>9, <2>10, <2>11,
         <2>12, <2>13, <2>14 DEF Next, HandlerStep
  <1> QED
    BY <1>1, <1>2, PTL DEF Spec

-----------------------------------------------------------------------------

\* The inductive invariant of what the handler hands out.
THEOREM PublishedInvariant == Spec => []Published
  <1> USE DEF Published, OneConfiguration, OAuthFollows, VerificationIsConfigured
  <1>1. Init => Published
    <2> SUFFICES ASSUME Init PROVE Published
      OBVIOUS
    <2>1. server.file = Startup /\ cfg.file = Startup
      BY DEF Init, WithFlags, Read
    <2>2. oauth.provider = oauth.issuer
      BY DEF Init, Snapshot, ProviderOf
    <2> QED
      BY <2>1, <2>2, ConstantsAssumption DEF Init, ConstantsAssumption
  <1>2. TypeOK /\ Published /\ [Next]_vars => Published'
    <2> SUFFICES ASSUME TypeOK, Published, [Next]_vars PROVE Published'
      OBVIOUS
    <2> USE DEF channel, states, log, budget
    <2>1. CASE Edit \/ Signal
      BY <2>1 DEF Edit, Signal
    <2>2. CASE Receive \/ HandlerEnds \/ ReadFails \/ ApplyFails
      BY <2>2 DEF Receive, HandlerEnds, ReadFails, ApplyFails, GiveUp
    <2>3. CASE ReadFiles \/ Apply
      BY <2>3 DEF ReadFiles, Apply
    <2>4. CASE OpenLog \/ SwapLog \/ LogFails
      BY <2>4 DEF OpenLog, SwapLog, LogFails, OpenFails
    <2>5. CASE Publish
      BY <2>5 DEF Publish
    <2>6. CASE KeepProvider
      <3>1. oauth.issuer = IssuerOf[new.file] /\ oauth.provider = ProviderOf(new.file)
        BY <2>6 DEF KeepProvider, ProviderConfigChanged, ProviderOf
      <3>2. ~WellKnownChanged => oauth = Snapshot(new.file, ProviderOf(new.file))
        BY <3>1 DEF WellKnownChanged, Snapshot, TypeOK, Snapshots
      <3>3. oauth' = Snapshot(new.file, ProviderOf(new.file))
        BY <2>6, <3>1, <3>2 DEF KeepProvider
      <3>4. oauth'.provider = oauth'.issuer
        BY <3>3 DEF Snapshot, ProviderOf
      <3> QED
        BY <2>6, <3>3, <3>4 DEF KeepProvider, GiveUp
    <2>7. CASE CreateProvider
      <3>1. oauth'.provider = oauth'.issuer
        BY <2>7 DEF CreateProvider, Snapshot, ProviderOf
      <3> QED
        BY <2>7, <3>1 DEF CreateProvider, GiveUp
    <2>8. CASE CreateFails
      BY <2>8 DEF CreateFails, GiveUp
    <2>9. ASSUME NEW q \in Requests, Arrive(q) PROVE Published'
      <3>1. IssuerOf[cfg.file] # NoIssuer
        BY <2>9, ValidateAssumption DEF Arrive, Acceptable
      <3>2. \A r \in Requests : seen'[r] # Nil => IssuerOf[seen'[r]] # NoIssuer
        BY <2>9, <3>1 DEF Arrive, TypeOK
      <3> QED
        BY <2>9, <3>2 DEF Arrive
    <2>10. ASSUME NEW q \in Requests, Decide(q) PROVE Published'
      <3>1. \A r \in Requests : seen'[r] # Nil => IssuerOf[seen'[r]] # NoIssuer
        BY <2>10 DEF Decide, TypeOK
      <3> QED
        BY <2>10, <3>1 DEF Decide
    <2>11. CASE Stop \/ StopReturns \/ CloseLog
      BY <2>11 DEF Stop, StopReturns, CloseLog
    <2>12. CASE UNCHANGED vars
      BY <2>12 DEF vars
    <2> QED
      BY <2>1, <2>2, <2>3, <2>4, <2>5, <2>6, <2>7, <2>8, <2>9, <2>10, <2>11,
         <2>12 DEF Next, HandlerStep
  <1> QED
    BY <1>1, <1>2, TypeCorrect, PTL DEF Spec

\* The MCP server and the HTTP middleware share one configuration, unless it
\* is being published.
THEOREM PartsAgree == Spec => []OneConfiguration
  <1>1. Published => OneConfiguration
    BY DEF Published
  <1> QED
    BY <1>1, PublishedInvariant, PTL

\* The OAuth snapshot is that of the configuration, unless its provider is
\* being made or could not be.
THEOREM SnapshotFollows == Spec => []OAuthFollows
  <1>1. Published => OAuthFollows
    BY DEF Published
  <1> QED
    BY <1>1, PublishedInvariant, PTL

\* No request reaches the verification without an issuer.
THEOREM NeverUnconfigured == Spec => []VerificationIsConfigured
  <1>1. Published => VerificationIsConfigured
    BY DEF Published
  <1> QED
    BY <1>1, PublishedInvariant, PTL

-----------------------------------------------------------------------------

\* No log file is left open, nor opened, once the sink has been closed.
THEOREM LogClosedLast == Spec => []LogIsClosedLast
  <1> USE DEF LogOwned
  <1>1. Init => LogOwned
    BY ConstantsAssumption DEF ConstantsAssumption, Init
  <1>2. TypeOK /\ LogOwned /\ [Next]_vars => LogOwned'
    <2> SUFFICES ASSUME TypeOK, LogOwned, [Next]_vars PROVE LogOwned'
      OBVIOUS
    <2> USE DEF channel, states, log, budget
    <2>1. CASE Edit \/ Signal
      BY <2>1 DEF Edit, Signal
    <2>2. CASE Receive \/ HandlerEnds \/ ReadFails \/ ReadFiles \/ ApplyFails
      BY <2>2 DEF Receive, HandlerEnds, ReadFails, ReadFiles, ApplyFails, GiveUp
    <2>3. CASE Apply \/ LogFails \/ Publish
      BY <2>3 DEF Apply, LogFails, OpenFails, Publish
    <2>4. CASE OpenLog
      BY <2>4, ConstantsAssumption DEF OpenLog, ConstantsAssumption, TypeOK
    <2>5. CASE SwapLog
      BY <2>5 DEF SwapLog
    <2>6. CASE KeepProvider \/ CreateProvider \/ CreateFails
      BY <2>6 DEF KeepProvider, CreateProvider, CreateFails, GiveUp
    <2>7. ASSUME NEW q \in Requests, Arrive(q) \/ Decide(q) PROVE LogOwned'
      BY <2>7 DEF Arrive, Decide
    <2>8. CASE Stop \/ StopReturns
      BY <2>8 DEF Stop, StopReturns
    <2>9. CASE CloseLog
      BY <2>9 DEF CloseLog
    <2>10. CASE UNCHANGED vars
      BY <2>10 DEF vars
    <2> QED
      BY <2>1, <2>2, <2>3, <2>4, <2>5, <2>6, <2>7, <2>8, <2>9, <2>10
         DEF Next, HandlerStep
  <1>3. LogOwned => LogIsClosedLast
    BY DEF LogIsClosedLast
  <1> QED
    BY <1>1, <1>2, <1>3, TypeCorrect, PTL DEF Spec
=============================================================================
