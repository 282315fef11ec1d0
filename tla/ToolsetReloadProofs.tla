------------------------ MODULE ToolsetReloadProofs ------------------------
(***************************************************************************)
(* What holds of ToolsetReload for all configurations, items, providers    *)
(* and any number of reloaders.                                            *)
(*                                                                         *)
(* The consistency of configuration, SDK server and enabled lists is not   *)
(* inductive: it fails in the middle of every commit.  The inductive       *)
(* invariant Progress says how far the one reload that holds reloadMu has  *)
(* come: which kinds of the SDK server are already those it collected and  *)
(* which are still the enabled ones.                                       *)
(***************************************************************************)
EXTENDS ToolsetReload, TLAPS

Busy == {"collect", "convert", "remove", "add", "store", "publish", "watch"}

\* A reloader is inside applyToolsets exactly when it holds reloadMu.
Exclusive == \A r \in Reloaders : pc[r] \in Busy <=> reloadMu = r

\* What a name has on the SDK server is what the previous reload enabled.
AsEnabled(n) == sdk[n] # Absent <=> n \in enabled

\* What only acceptable configurations can reach.
Accepted ==
    /\ configuration \in Acceptable
    /\ \A n \in Names : sdk[n] # Absent => sdk[n][1] \in Acceptable
    /\ \A r \in Reloaders : candidate[r] \in (Configs \ Invalid) \cup {Installed}

\* The items belong to the reload under way.
Collecting(r) ==
    /\ cfg \in Configs \ Invalid
    /\ \A n \in Names : items[n] # Absent => items[n][1] = cfg
    /\ caller[r] = "watcher" => cfg = configuration

\* Nothing has been committed yet, or all of it.
Consistent ==
    /\ \A n \in Names : AsEnabled(n)
    /\ \A n \in Names : sdk[n] # Absent => sdk[n][1] = configuration

\* The enabled items of the kinds still to be committed, the collected ones of
\* the kinds that are.
Upto(k) ==
    /\ \A n \in Names : KindOf[n] < k => sdk[n] = items[n]
    /\ \A n \in Names : KindOf[n] > k => AsEnabled(n)

\* How far reloader r has come.
Stage(r) ==
    /\ caller[r] = "watcher" /\ pc[r] # "idle" => candidate[r] = Installed
    /\ pc[r] \in Busy => Collecting(r)
    /\ pc[r] \in {"collect", "convert"} => Consistent
    /\ pc[r] = "convert" => kind = 1
    /\ pc[r] \in {"remove", "add", "store", "publish", "watch"} => cfg \in Acceptable
    /\ pc[r] = "remove" =>
         /\ Upto(kind)
         /\ \A n \in Names : KindOf[n] = kind => AsEnabled(n)
    /\ pc[r] = "add" =>
         /\ Upto(kind)
         /\ \A n \in Names : KindOf[n] = kind /\ n \notin todo => sdk[n] = items[n]
         /\ \A n \in todo : KindOf[n] = kind /\ items[n] # Absent
    /\ pc[r] \in {"store", "publish", "watch"} => sdk = items
    /\ pc[r] \in {"publish", "watch"} => configuration = cfg
    /\ pc[r] = "watch" => enabled = Present(items)

Progress ==
    /\ Exclusive
    /\ Accepted
    /\ reloadMu = Free => Consistent
    /\ \A r \in Reloaders : Stage(r)

-----------------------------------------------------------------------------

\* A version is a configuration and a world.
LEMMA VersionParts ==
  /\ \A v \in Versions : v[1] \in Configs
  /\ \A c \in Configs, w \in Worlds : <<c, w>> \in Versions /\ <<c, w>>[1] = c
  BY DEF Versions

\* The kinds are done in order, 4 is the last one.
LEMMA NextKindType == 1 \in Kinds /\ \A k \in Kinds : k # 4 => k + 1 \in Kinds
  BY DEF Kinds

\* Type correctness.
THEOREM TypeCorrect == Spec => []TypeOK
  <1>1. Init => TypeOK
    <2> SUFFICES ASSUME Init PROVE TypeOK
      OBVIOUS
    <2>1. Initial \in Configs
      BY ConstantsAssumption DEF ConstantsAssumption, Acceptable
    <2>2. kind \in Kinds /\ changes \in Nat /\ requests \in Nat
      BY DEF Init, Kinds
    <2> QED
      BY <2>1, <2>2 DEF Init, TypeOK, Items, Nothing
  <1>2. TypeOK /\ [Next]_vars => TypeOK'
    <2> SUFFICES ASSUME TypeOK, [Next]_vars PROVE TypeOK'
      OBVIOUS
    <2> USE DEF TypeOK, Items
    <2>1. CASE ProviderChanges
      BY <2>1 DEF ProviderChanges, shared, calls, locals
    <2>2. ASSUME NEW r \in Reloaders, RequestReload(r) PROVE TypeOK'
      BY <2>2 DEF RequestReload, Goto, shared, locals
    <2>3. ASSUME NEW r \in Reloaders, RequestReapply(r) PROVE TypeOK'
      BY <2>3 DEF RequestReapply, Goto, shared, locals
    <2>4. ASSUME NEW r \in Reloaders, Lock(r) PROVE TypeOK'
      <3>1. cfg' \in Configs
        BY <2>4 DEF Lock
      <3>2. items' \in [Names -> Items] /\ kind' \in Kinds
        BY <2>4 DEF Lock, Nothing, Kinds
      <3> QED
        BY <2>4, <3>1, <3>2 DEF Lock, Goto, shared, calls
    <2>5. ASSUME NEW r \in Reloaders, Collect(r) PROVE TypeOK'
      <3>1. items' \in [Names -> Items]
        BY <2>5, VersionParts DEF Collect
      <3>2. kind' \in Kinds
        BY <2>5, NextKindType DEF Collect
      <3>3. pc' \in [Reloaders -> {"idle", "waiting", "collect", "convert", "remove",
                                   "add", "store", "publish", "watch"}]
        BY <2>5 DEF Collect, Goto
      <3> QED
        BY <2>5, <3>1, <3>2, <3>3 DEF Collect, shared, calls
    <2>6. ASSUME NEW r \in Reloaders, ConvertFails(r) \/ Convert(r) PROVE TypeOK'
      BY <2>6 DEF ConvertFails, Convert, Goto, shared, calls, locals
    <2>7. ASSUME NEW r \in Reloaders, Remove(r) PROVE TypeOK'
      <3>1. sdk' \in [Names -> Items]
        BY <2>7 DEF Remove, CommitKind
      <3>2. todo' \in SUBSET Names
        BY <2>7 DEF Remove, CommitKind, Collected, Present, OfKind
      <3> QED
        BY <2>7, <3>1, <3>2 DEF Remove, CommitKind, Goto, calls
    <2>8. ASSUME NEW r \in Reloaders, Add(r) PROVE TypeOK'
      BY <2>8 DEF Add, calls
    <2>9. ASSUME NEW r \in Reloaders, NextKind(r) PROVE TypeOK'
      <3>1. kind' \in Kinds
        BY <2>9, NextKindType DEF NextKind
      <3>2. pc' \in [Reloaders -> {"idle", "waiting", "collect", "convert", "remove",
                                   "add", "store", "publish", "watch"}]
        BY <2>9 DEF NextKind, Goto
      <3> QED
        BY <2>9, <3>1, <3>2 DEF NextKind, shared, calls
    <2>10. ASSUME NEW r \in Reloaders, Store(r) PROVE TypeOK'
      BY <2>10 DEF Store, Goto, calls, locals
    <2>11. ASSUME NEW r \in Reloaders, Publish(r) PROVE TypeOK'
      BY <2>11 DEF Publish, Present, Goto, calls, locals
    <2>12. ASSUME NEW r \in Reloaders, Unlock(r) PROVE TypeOK'
      BY <2>12 DEF Unlock, Goto, shared, calls, locals
    <2>13. CASE UNCHANGED vars
      BY <2>13 DEF vars, shared, calls, locals
    <2> QED
      BY <2>1, <2>2, <2>3, <2>4, <2>5, <2>6, <2>7, <2>8, <2>9, <2>10, <2>11,
         <2>12, <2>13 DEF Next, Apply
  <1> QED
    BY <1>1, <1>2, PTL DEF Spec

-----------------------------------------------------------------------------

\* A reloader that is not inside applyToolsets has no stage to be at.
LEMMA OthersStage ==
  ASSUME TypeOK, Progress, NEW r \in Reloaders, NEW q \in Reloaders, q # r,
         reloadMu \in {r, Free}, pc'[q] = pc[q], caller'[q] = caller[q],
         candidate'[q] = candidate[q]
  PROVE  Stage(q)'
  <1>1. pc[q] \notin Busy
    BY ConstantsAssumption DEF ConstantsAssumption, Progress, Exclusive
  <1>2. caller[q] = "watcher" /\ pc[q] # "idle" => candidate[q] = Installed
    BY DEF Progress, Stage
  <1> QED
    BY <1>1, <1>2 DEF Stage, Busy

\* A step outside applyToolsets disturbs no stage.
LEMMA CallsFrame ==
  ASSUME Progress, NEW r \in Reloaders, pc[r] \notin Busy, pc'[r] \notin Busy,
         caller'[r] = "watcher" => candidate'[r] = Installed,
         candidate'[r] \in (Configs \ Invalid) \cup {Installed},
         \A q \in Reloaders \ {r} : /\ pc'[q] = pc[q]
                                    /\ caller'[q] = caller[q]
                                    /\ candidate'[q] = candidate[q],
         UNCHANGED <<shared, reloadMu, locals>>
  PROVE  Progress'
  <1> USE DEF shared, locals
  <1>1. Exclusive'
    BY DEF Progress, Exclusive
  <1>2. Accepted'
    BY DEF Progress, Accepted
  <1>3. Consistent <=> Consistent'
    BY DEF Consistent, AsEnabled
  <1>4. Stage(r)'
    BY DEF Stage, Busy
  <1>5. ASSUME NEW q \in Reloaders, q # r PROVE Stage(q)'
    <2>1. Stage(q)
      BY DEF Progress
    <2> QED
      BY <1>3, <1>5, <2>1 DEF Stage, Collecting, Upto, AsEnabled, Present
  <1> QED
    BY <1>1, <1>2, <1>3, <1>4, <1>5 DEF Progress

\* No reload has begun.
LEMMA ProgressInit == Init => Progress
  <1> SUFFICES ASSUME Init PROVE Progress
    OBVIOUS
  <1> USE ConstantsAssumption DEF ConstantsAssumption
  <1>1. Exclusive
    BY DEF Init, Exclusive, Busy
  <1>2. Accepted
    BY DEF Init, Accepted, Nothing, Acceptable
  <1>3. Consistent
    BY DEF Init, Consistent, AsEnabled, Nothing
  <1>4. ASSUME NEW r \in Reloaders PROVE Stage(r)
    BY DEF Init, Stage, Busy
  <1> QED
    BY <1>1, <1>2, <1>3, <1>4 DEF Progress

\* Steps of the reload that holds reloadMu.
LEMMA ProgressApply ==
  ASSUME TypeOK, Progress, NEW r \in Reloaders, Apply(r)
  PROVE  Progress'
  <1> USE ConstantsAssumption DEF ConstantsAssumption
  <1>0. Stage(r) /\ Exclusive /\ Accepted
    BY DEF Progress
  <1>1. CASE Lock(r)
    <2>1. Consistent /\ Consistent'
      BY <1>1 DEF Lock, Progress, Consistent, AsEnabled, shared
    <2>2. Exclusive'
      BY <1>1, <1>0 DEF Lock, Goto, Exclusive, Busy, TypeOK
    <2>3. Accepted'
      BY <1>1, <1>0 DEF Lock, Accepted, shared, calls
    <2>4. pc'[r] = "collect" /\ reloadMu' = r
      BY <1>1 DEF Lock, Goto, TypeOK
    <2>5. Collecting(r)'
      <3>1. cfg' \in Configs \ Invalid
        BY <1>1, <1>0 DEF Lock, Accepted, Acceptable
      <3>2. \A n \in Names : items'[n] = Absent
        BY <1>1 DEF Lock, Nothing
      <3>3. caller'[r] = "watcher" => cfg' = configuration'
        BY <1>1, <1>0 DEF Lock, Stage, shared, calls
      <3> QED
        BY <3>1, <3>2, <3>3 DEF Collecting
    <2>6. Stage(r)'
      BY <1>1, <1>0, <2>1, <2>4, <2>5 DEF Lock, Stage, calls, Busy
    <2>7. ASSUME NEW q \in Reloaders, q # r PROVE Stage(q)'
      BY <1>1, <2>7, OthersStage DEF Lock, Goto, calls, TypeOK
    <2> QED
      BY <2>2, <2>3, <2>4, <2>6, <2>7 DEF Progress
  <1>2. CASE pc[r] \in Busy
    <2>1. reloadMu = r /\ r # Free
      BY <1>0, <1>2 DEF Exclusive
    <2>2. \A q \in Reloaders \ {r} : /\ pc'[q] = pc[q]
                                     /\ caller'[q] = caller[q]
                                     /\ candidate'[q] = candidate[q]
      BY <1>2 DEF Apply, Lock, Collect, ConvertFails, Convert, Remove, CommitKind, Add,
                  NextKind, Store, Publish, Unlock, Goto, calls, TypeOK, Busy
    <2>3. ASSUME NEW q \in Reloaders, q # r PROVE Stage(q)'
      BY <2>1, <2>2, <2>3, OthersStage
    <2>4. \A q \in Reloaders \ {r} : pc'[q] \notin Busy
      BY <1>0, <2>1, <2>2 DEF Exclusive
    <2>5. caller' = caller /\ candidate' = candidate
      BY <1>2 DEF Apply, Lock, Collect, ConvertFails, Convert, Remove, CommitKind, Add,
                  NextKind, Store, Publish, Unlock, calls
    <2>6. Collecting(r)
      BY <1>0, <1>2 DEF Stage
    <2>7. CASE Collect(r)
      <3>1. pc'[r] \in {"collect", "convert"} /\ reloadMu' = r
        BY <2>1, <2>7 DEF Collect, Goto, TypeOK
      <3>2. Consistent'
        BY <2>7, <1>0 DEF Collect, Stage, Consistent, AsEnabled, shared
      <3>3. Collecting(r)'
        BY <2>5, <2>6, <2>7, VersionParts DEF Collect, Collecting, shared, TypeOK
      <3>4. Exclusive'
        BY <2>4, <3>1, <2>1 DEF Exclusive, Busy
      <3>5. Accepted'
        BY <1>0, <2>5, <2>7 DEF Collect, Accepted, shared
      <3>6. pc'[r] = "convert" => kind' = 1
        BY <2>1, <2>7 DEF Collect, Goto, TypeOK
      <3>7. Stage(r)'
        BY <1>0, <2>5, <3>1, <3>2, <3>3, <3>6, <1>2 DEF Stage, Busy
      <3> QED
        BY <2>1, <2>3, <3>1, <3>4, <3>5, <3>7 DEF Progress
    <2>8. CASE ConvertFails(r)
      <3>1. pc'[r] = "idle" /\ reloadMu' = Free
        BY <2>8 DEF ConvertFails, Goto, TypeOK
      <3>2. Consistent'
        BY <2>8, <1>0 DEF ConvertFails, Stage, Consistent, AsEnabled, shared
      <3>3. Exclusive'
        BY <2>4, <3>1 DEF Exclusive, Busy
      <3>4. Accepted'
        BY <1>0, <2>5, <2>8 DEF ConvertFails, Accepted, shared
      <3>5. Stage(r)'
        BY <3>1 DEF Stage, Busy
      <3> QED
        BY <2>3, <3>2, <3>3, <3>4, <3>5 DEF Progress
    <2>9. CASE Convert(r)
      <3>1. pc'[r] = "remove" /\ reloadMu' = r
        BY <2>1, <2>9 DEF Convert, Goto, TypeOK
      <3>2. \A n \in Names : AsEnabled(n)'
        BY <2>9, <1>0 DEF Convert, Stage, Consistent, AsEnabled, shared
      <3>3. Collecting(r)' /\ cfg' \in Acceptable
        BY <2>5, <2>6, <2>9 DEF Convert, Collecting, Acceptable, shared, locals
      <3>4. Exclusive'
        BY <2>4, <3>1, <2>1 DEF Exclusive, Busy
      <3>5. Accepted'
        BY <1>0, <2>5, <2>9 DEF Convert, Accepted, shared
      <3>6. Upto(kind)'
        <4>1. kind' = 1
          BY <1>0, <2>9 DEF Convert, Stage, locals
        <4>2. \A n \in Names : KindOf[n] \in 1..4
          BY DEF Kinds
        <4> QED
          BY <3>2, <4>1, <4>2 DEF Upto
      <3>7. Stage(r)'
        BY <1>0, <2>5, <3>1, <3>2, <3>3, <3>6, <1>2 DEF Stage, Busy
      <3> QED
        BY <2>1, <2>3, <3>1, <3>4, <3>5, <3>7 DEF Progress
    <2>10. CASE Remove(r)
      <3>1. pc[r] = "remove" /\ pc'[r] = "add" /\ reloadMu' = r
        BY <2>1, <2>10 DEF Remove, CommitKind, Goto, TypeOK
      <3>2. Upto(kind) /\ \A n \in Names : KindOf[n] = kind => AsEnabled(n)
        BY <1>0, <3>1 DEF Stage
      <3>3. \A n \in Names : sdk'[n] = IF n \in Previous \ Collected THEN Absent ELSE sdk[n]
        BY <2>10 DEF Remove, CommitKind
      <3>4. /\ items' = items /\ kind' = kind /\ enabled' = enabled
            /\ configuration' = configuration /\ cfg' = cfg /\ todo' = Collected
        BY <2>10 DEF Remove, CommitKind
      <3>5. \A n \in Names : KindOf[n] # kind => sdk'[n] = sdk[n]
        BY <3>3 DEF Previous, OfKind
      <3>6. \A n \in Names : KindOf[n] \in Nat /\ kind \in Nat
        BY DEF TypeOK, Kinds
      <3>7. Upto(kind)'
        BY <3>2, <3>4, <3>5, <3>6 DEF Upto, AsEnabled
      <3>8. \A n \in Names : KindOf[n] = kind /\ n \notin Collected => sdk'[n] = items[n]
        BY <3>2, <3>3 DEF Previous, Collected, OfKind, Present, AsEnabled
      <3>9. \A n \in Collected : KindOf[n] = kind /\ items[n] # Absent
        BY DEF Collected, OfKind, Present
      <3>10. Collecting(r)' /\ cfg' \in Acceptable
        BY <1>0, <2>5, <2>6, <3>1, <3>4 DEF Collecting, Stage
      <3>11. Exclusive'
        BY <2>4, <3>1, <2>1 DEF Exclusive, Busy
      <3>12. Accepted'
        BY <1>0, <2>5, <3>3, <3>4 DEF Accepted
      <3>13. Stage(r)'
        BY <1>0, <2>5, <3>1, <3>4, <3>7, <3>8, <3>9, <3>10 DEF Stage, Busy
      <3> QED
        BY <2>1, <2>3, <3>1, <3>11, <3>12, <3>13 DEF Progress
    <2>11. CASE Add(r)
      <3>1. pc[r] = "add" /\ pc' = pc /\ reloadMu' = r
        BY <2>1, <2>11 DEF Add
      <3>2. /\ Upto(kind)
            /\ \A n \in Names : KindOf[n] = kind /\ n \notin todo => sdk[n] = items[n]
            /\ \A n \in todo : KindOf[n] = kind /\ items[n] # Absent
        BY <1>0, <3>1 DEF Stage
      <3>3. PICK m \in todo : sdk' = [sdk EXCEPT ![m] = items[m]] /\ todo' = todo \ {m}
        BY <2>11 DEF Add
      <3>4. m \in Names /\ KindOf[m] = kind
        BY <3>2, <3>3 DEF TypeOK
      <3>5. /\ \A n \in Names \ {m} : sdk'[n] = sdk[n]
            /\ sdk'[m] = items[m]
        BY <3>3, <3>4 DEF TypeOK
      <3>6. /\ items' = items /\ kind' = kind /\ enabled' = enabled
            /\ configuration' = configuration /\ cfg' = cfg
        BY <2>11 DEF Add
      <3>7. \A n \in Names : KindOf[n] \in Nat /\ kind \in Nat
        BY DEF TypeOK, Kinds
      <3>8. Upto(kind)'
        BY <3>2, <3>4, <3>5, <3>6, <3>7 DEF Upto, AsEnabled
      <3>9. \A n \in Names : KindOf[n] = kind /\ n \notin todo' => sdk'[n] = items[n]
        BY <3>2, <3>3, <3>5
      <3>10. \A n \in todo' : KindOf[n] = kind /\ items[n] # Absent
        BY <3>2, <3>3
      <3>11. Collecting(r)' /\ cfg' \in Acceptable
        BY <1>0, <2>5, <2>6, <3>1, <3>6 DEF Collecting, Stage
      <3>12. Exclusive'
        BY <2>4, <3>1, <2>1 DEF Exclusive, Busy
      <3>13. Accepted'
        BY <1>0, <2>5, <2>6, <3>4, <3>5, <3>6, <3>11 DEF Accepted, Collecting
      <3>14. Stage(r)'
        BY <1>0, <2>5, <3>1, <3>6, <3>8, <3>9, <3>10, <3>11 DEF Stage, Busy
      <3> QED
        BY <2>1, <2>3, <3>1, <3>12, <3>13, <3>14 DEF Progress
    <2>12. CASE NextKind(r)
      <3>1. pc[r] = "add" /\ todo = {} /\ todo' = {} /\ reloadMu' = r
        BY <2>1, <2>12 DEF NextKind
      <3>2. Upto(kind) /\ \A n \in Names : KindOf[n] = kind => sdk[n] = items[n]
        BY <1>0, <3>1 DEF Stage
      <3>3. /\ items' = items /\ enabled' = enabled /\ cfg' = cfg /\ sdk' = sdk
            /\ configuration' = configuration
        BY <2>12 DEF NextKind, shared
      <3>4. \A n \in Names : KindOf[n] \in 1..4 /\ kind \in 1..4
        BY DEF TypeOK, Kinds
      <3>5. Collecting(r)' /\ cfg' \in Acceptable
        BY <1>0, <2>5, <2>6, <3>1, <3>3 DEF Collecting, Stage
      <3>6. Accepted'
        BY <1>0, <2>5, <3>3 DEF Accepted
      <3>7. CASE kind = 4
        <4>1. pc'[r] = "store"
          BY <2>12, <3>7 DEF NextKind, Goto, TypeOK
        <4>2. sdk' = items'
          BY <3>2, <3>3, <3>4, <3>7 DEF Upto, TypeOK
        <4>3. Exclusive'
          BY <2>4, <3>1, <4>1, <2>1 DEF Exclusive, Busy
        <4>4. Stage(r)'
          BY <1>0, <2>5, <3>1, <3>5, <4>1, <4>2 DEF Stage, Busy
        <4> QED
          BY <2>1, <2>3, <3>1, <3>6, <4>3, <4>4 DEF Progress
      <3>8. CASE kind # 4
        <4>1. pc'[r] = "remove" /\ kind' = kind + 1
          BY <2>12, <3>8 DEF NextKind, Goto, TypeOK
        <4>2. Upto(kind)'
          BY <3>2, <3>3, <3>4, <4>1 DEF Upto, AsEnabled
        <4>3. \A n \in Names : KindOf[n] = kind' => AsEnabled(n)'
          BY <3>2, <3>3, <3>4, <4>1 DEF Upto, AsEnabled
        <4>4. Exclusive'
          BY <2>4, <3>1, <4>1, <2>1 DEF Exclusive, Busy
        <4>5. Stage(r)'
          BY <1>0, <2>5, <3>1, <3>5, <4>1, <4>2, <4>3 DEF Stage, Busy
        <4> QED
          BY <2>1, <2>3, <3>1, <3>6, <4>4, <4>5 DEF Progress
      <3> QED
        BY <3>7, <3>8
    <2>13. CASE Store(r)
      <3>1. pc[r] = "store" /\ pc'[r] = "publish" /\ reloadMu' = r /\ configuration' = cfg
        BY <2>1, <2>13 DEF Store, Goto, TypeOK
      <3>2. sdk = items /\ cfg \in Acceptable
        BY <1>0, <3>1 DEF Stage
      <3>3. sdk' = sdk /\ items' = items /\ cfg' = cfg /\ enabled' = enabled
        BY <2>13 DEF Store, locals
      <3>4. Collecting(r)'
        BY <2>6, <3>1, <3>3 DEF Collecting
      <3>5. Exclusive'
        BY <2>4, <3>1, <2>1 DEF Exclusive, Busy
      <3>6. Accepted'
        BY <1>0, <2>5, <3>1, <3>2, <3>3 DEF Accepted
      <3>7. Stage(r)'
        BY <1>0, <2>5, <3>1, <3>2, <3>3, <3>4 DEF Stage, Busy
      <3> QED
        BY <2>1, <2>3, <3>1, <3>5, <3>6, <3>7 DEF Progress
    <2>14. CASE Publish(r)
      <3>1. /\ pc[r] = "publish" /\ pc'[r] = "watch" /\ reloadMu' = r
            /\ enabled' = Present(items) /\ items' = items
        BY <2>1, <2>14 DEF Publish, Goto, locals, TypeOK
      <3>2. sdk = items /\ cfg \in Acceptable /\ configuration = cfg
        BY <1>0, <3>1 DEF Stage
      <3>3. sdk' = sdk /\ cfg' = cfg /\ configuration' = configuration
        BY <2>14 DEF Publish, locals
      <3>4. Collecting(r)'
        BY <2>6, <3>1, <3>2, <3>3 DEF Collecting
      <3>5. Exclusive'
        BY <2>4, <3>1, <2>1 DEF Exclusive, Busy
      <3>6. Accepted'
        BY <1>0, <2>5, <3>3 DEF Accepted
      <3>7. Stage(r)'
        BY <1>0, <2>5, <3>1, <3>2, <3>3, <3>4 DEF Stage, Busy, Present
      <3> QED
        BY <2>1, <2>3, <3>1, <3>5, <3>6, <3>7 DEF Progress
    <2>15. CASE Unlock(r)
      <3>1. pc[r] = "watch" /\ pc'[r] = "idle" /\ reloadMu' = Free
        BY <2>15 DEF Unlock, Goto, TypeOK
      <3>2. sdk = items /\ configuration = cfg /\ enabled = Present(items)
        BY <1>0, <3>1 DEF Stage
      <3>3. /\ sdk' = sdk /\ configuration' = configuration /\ enabled' = enabled
        BY <2>15 DEF Unlock, shared
      <3>4. Consistent'
        BY <2>6, <3>2, <3>3 DEF Consistent, AsEnabled, Present, Collecting
      <3>5. Exclusive'
        BY <2>4, <3>1 DEF Exclusive, Busy
      <3>6. Accepted'
        BY <1>0, <2>5, <3>3 DEF Accepted
      <3>7. Stage(r)'
        BY <3>1 DEF Stage, Busy
      <3> QED
        BY <2>3, <3>4, <3>5, <3>6, <3>7 DEF Progress
    <2>16. ~Lock(r)
      BY <1>2 DEF Lock, Busy
    <2> QED
      BY <2>7, <2>8, <2>9, <2>10, <2>11, <2>12, <2>13, <2>14, <2>15, <2>16 DEF Apply
  <1>3. Lock(r) \/ pc[r] \in Busy
    BY DEF Apply, Collect, ConvertFails, Convert, Remove, CommitKind, Add, NextKind,
           Store, Publish, Unlock, Busy
  <1> QED
    BY <1>1, <1>2, <1>3

\* A step that leaves the reloaders alone.
LEMMA ProviderFrame ==
  ASSUME Progress, UNCHANGED <<shared, reloadMu, pc, calls, locals>>
  PROVE  Progress'
  <1> USE DEF shared, calls, locals
  <1>1. Exclusive' /\ Accepted' /\ (Consistent' <=> Consistent)
    BY DEF Progress, Exclusive, Accepted, Consistent, AsEnabled
  <1>2. ASSUME NEW q \in Reloaders PROVE Stage(q)'
    <2>1. Stage(q)
      BY DEF Progress
    <2> QED
      BY <1>1, <2>1 DEF Stage, Collecting, Upto, AsEnabled, Present
  <1> QED
    BY <1>1, <1>2 DEF Progress

\* The inductive invariant.
THEOREM ProgressInvariant == Spec => []Progress
  <1>1. TypeOK /\ Progress /\ [Next]_vars => Progress'
    <2> SUFFICES ASSUME TypeOK, Progress, [Next]_vars PROVE Progress'
      OBVIOUS
    <2>1. CASE ProviderChanges
      BY <2>1, ProviderFrame DEF ProviderChanges
    <2>2. ASSUME NEW r \in Reloaders, RequestReload(r) PROVE Progress'
      <3>1. /\ pc[r] \notin Busy /\ pc'[r] \notin Busy
            /\ caller'[r] = "reload" /\ candidate'[r] \in Configs \ Invalid
        BY <2>2 DEF RequestReload, Goto, TypeOK, Busy
      <3>2. \A q \in Reloaders \ {r} : /\ pc'[q] = pc[q]
                                       /\ caller'[q] = caller[q]
                                       /\ candidate'[q] = candidate[q]
        BY <2>2 DEF RequestReload, Goto, TypeOK
      <3> QED
        BY <2>2, <3>1, <3>2, CallsFrame DEF RequestReload
    <2>3. ASSUME NEW r \in Reloaders, RequestReapply(r) PROVE Progress'
      <3>1. /\ pc[r] \notin Busy /\ pc'[r] \notin Busy
            /\ candidate'[r] = Installed
        BY <2>3 DEF RequestReapply, Goto, TypeOK, Busy
      <3>2. \A q \in Reloaders \ {r} : /\ pc'[q] = pc[q]
                                       /\ caller'[q] = caller[q]
                                       /\ candidate'[q] = candidate[q]
        BY <2>3 DEF RequestReapply, Goto, TypeOK
      <3> QED
        BY <2>3, <3>1, <3>2, CallsFrame DEF RequestReapply
    <2>4. ASSUME NEW r \in Reloaders, Apply(r) PROVE Progress'
      BY <2>4, ProgressApply
    <2>5. CASE UNCHANGED vars
      BY <2>5, ProviderFrame DEF vars
    <2> QED
      BY <2>1, <2>2, <2>3, <2>4, <2>5 DEF Next
  <1> QED
    BY <1>1, ProgressInit, TypeCorrect, PTL DEF Spec

\* Between reloads, failed ones included, the configuration, the SDK server
\* and the enabled lists agree (the guarantee of applyToolsets, mcp.go:218).
THEOREM ReloadsAreConsistent == Spec => []ConsistentBetweenReloads
  <1>1. TypeOK /\ Progress => ConsistentBetweenReloads
    BY DEF Progress, ConsistentBetweenReloads, Consistent, AsEnabled, Present, TypeOK
  <1> QED
    BY <1>1, ProgressInvariant, TypeCorrect, PTL

\* No reader of the configuration and no client meets a rejected one.
THEOREM RejectedStaysHidden == Spec => []RejectedIsNeverSeen
  <1>1. Progress => RejectedIsNeverSeen
    BY DEF Progress, Accepted, RejectedIsNeverSeen, Present
  <1> QED
    BY <1>1, ProgressInvariant, PTL

\* A re-apply stores the configuration that is installed already.
THEOREM NoRollback == Spec => ReapplyKeepsTheConfiguration
  <1>1. Progress /\ [Next]_vars =>
          [\A r \in Reloaders :
             Store(r) /\ caller[r] = "watcher" => configuration' = configuration]_vars
    <2> SUFFICES ASSUME Progress, NEW r \in Reloaders, Store(r), caller[r] = "watcher"
                 PROVE  configuration' = configuration
      OBVIOUS
    <2>1. Collecting(r)
      BY DEF Progress, Stage, Store, Busy
    <2> QED
      BY <2>1 DEF Collecting, Store
  <1> QED
    BY <1>1, ProgressInvariant, PTL DEF Spec, ReapplyKeepsTheConfiguration

-----------------------------------------------------------------------------

Phases == {"remove", "add", "store"}

\* Only the reload that holds reloadMu can be committing.
LEMMA CommittingIs ==
  ASSUME Exclusive, NEW r \in Reloaders, reloadMu = r
  PROVE  Committing <=> pc[r] \in Phases
  BY DEF Exclusive, Committing, Phases, Busy

\* Nobody commits while the lock of the reload is free.
LEMMA NotCommitting ==
  ASSUME Exclusive, reloadMu = Free
  PROVE  ~Committing
  BY ConstantsAssumption DEF ConstantsAssumption, Exclusive, Committing, Busy

\* A step of the clients and watchers changes nothing of the surface.
LEMMA RefinementFrame ==
  ASSUME UNCHANGED <<shared, items>>,
         Committing' <=> Committing
  PROVE  UNCHANGED Surface!vars
  BY DEF Surface!vars, shared, Present

\* What a reload collects does not show before it commits.
LEMMA RefinementIdle ==
  ASSUME ~Committing, ~Committing', UNCHANGED <<configuration, sdk>>
  PROVE  UNCHANGED Surface!vars
  <1>1. Present(sdk)' = Present(sdk)
    BY DEF Present
  <1>2. Committing' = Committing
    BY DEF Committing
  <1>3. (IF Committing THEN Present(items) ELSE {}) = {}
    OBVIOUS
  <1>4. (IF Committing THEN Present(items) ELSE {})' = {}
    OBVIOUS
  <1> QED
    BY <1>1, <1>2, <1>3, <1>4 DEF Surface!vars

\* A call of the reload is not a step of the surface.
LEMMA RefinementCalls ==
  ASSUME TypeOK, NEW r \in Reloaders, pc[r] = "idle",
         pc' = [pc EXCEPT ![r] = "waiting"], UNCHANGED <<shared, items>>
  PROVE  UNCHANGED Surface!vars
  <1>1. Committing' <=> Committing
    BY DEF Committing, TypeOK
  <1> QED
    BY <1>1, RefinementFrame

\* Every step of a reload is a step of ToolSurface or changes nothing there.
LEMMA RefinementApply ==
  ASSUME TypeOK, Progress, Progress', NEW r \in Reloaders, Apply(r)
  PROVE  [Surface!Next]_(Surface!vars)
  <1>0. Stage(r) /\ Exclusive /\ Exclusive'
    BY DEF Progress
  <1>1. CASE Lock(r)
    <2>1. ~Committing
      BY <1>0, <1>1, NotCommitting DEF Lock
    <2>2. pc'[r] = "collect" /\ reloadMu' = r
      BY <1>1 DEF Lock, Goto, TypeOK
    <2>3. ~Committing'
      BY <1>0, <2>2 DEF Exclusive, Committing, Busy
    <2> QED
      BY <1>1, <2>1, <2>3, RefinementIdle DEF Lock, shared
  <1>2. CASE pc[r] \in Busy
    <2>1. reloadMu = r
      BY <1>0, <1>2 DEF Exclusive
    <2>2. Committing <=> pc[r] \in Phases
      BY <1>0, <2>1, CommittingIs
    <2>3. \A q \in Reloaders \ {r} : pc'[q] = pc[q]
      BY <1>2 DEF Apply, Lock, Collect, ConvertFails, Convert, Remove, CommitKind, Add,
                  NextKind, Store, Publish, Unlock, Goto, TypeOK, Busy
    <2>4. Committing' <=> pc'[r] \in Phases
      BY <1>0, <2>1, <2>3 DEF Exclusive, Committing, Phases, Busy
    <2>5. CASE Collect(r) \/ ConvertFails(r) \/ Publish(r) \/ Unlock(r)
      <3>1. pc[r] \notin Phases /\ pc'[r] \notin Phases
        BY <2>5 DEF Collect, ConvertFails, Publish, Unlock, Goto, TypeOK, Phases
      <3>2. configuration' = configuration /\ sdk' = sdk
        BY <2>5 DEF Collect, ConvertFails, Publish, Unlock, shared
      <3> QED
        BY <2>2, <2>4, <3>1, <3>2, RefinementIdle
    <2>6. CASE Convert(r)
      <3>1. ~Committing /\ Committing'
        BY <2>2, <2>4, <2>6 DEF Convert, Goto, TypeOK, Phases
      <3>2. /\ configuration' = configuration /\ sdk' = sdk
            /\ Present(items)' \in SUBSET Names
        BY <2>6 DEF Convert, shared, Present
      <3>3. Surface!Begin
        BY <3>1, <3>2 DEF Surface!Begin, Present
      <3> QED
        BY <3>3 DEF Surface!Next
    <2>7. CASE Remove(r)
      <3>1. Committing /\ Committing'
        BY <2>2, <2>4, <2>7 DEF Remove, CommitKind, Goto, TypeOK, Phases
      <3>2. configuration' = configuration /\ items' = items
        BY <2>7 DEF Remove, CommitKind
      <3>3. \A n \in Names : sdk'[n] = IF n \in Previous \ Collected THEN Absent ELSE sdk[n]
        BY <2>7 DEF Remove, CommitKind
      <3>4. Present(sdk)' \in SUBSET Present(sdk)
        BY <3>3 DEF Present
      <3>5. Present(sdk) \cap Present(items) \subseteq Present(sdk)'
        BY <3>3 DEF Present, Previous, Collected, OfKind
      <3> QED
        BY <3>1, <3>2, <3>4, <3>5 DEF Surface!Next, Surface!Withdraw, Present
    <2>8. CASE Add(r)
      <3>1. Committing /\ Committing'
        BY <2>2, <2>4, <2>8 DEF Add, Phases
      <3>2. configuration' = configuration /\ items' = items
        BY <2>8 DEF Add
      <3>3. PICK m \in todo : sdk' = [sdk EXCEPT ![m] = items[m]]
        BY <2>8 DEF Add
      <3>4. m \in Names /\ m \in Present(items)
        BY <1>0, <2>8, <3>3 DEF Add, Stage, TypeOK, Present
      <3>5. Present(sdk)' = Present(sdk) \cup {m}
        BY <3>3, <3>4 DEF Present, TypeOK
      <3> QED
        BY <3>1, <3>2, <3>4, <3>5 DEF Surface!Next, Surface!Offer
    <2>9. CASE NextKind(r)
      <3>1. Committing /\ Committing'
        BY <2>2, <2>4, <2>9 DEF NextKind, Goto, TypeOK, Phases
      <3> QED
        BY <2>9, <3>1, RefinementFrame DEF NextKind
    <2>10. CASE Store(r)
      <3>1. Committing /\ ~Committing'
        BY <2>2, <2>4, <2>10 DEF Store, Goto, TypeOK, Phases
      <3>2. sdk' = sdk /\ configuration' = cfg
        BY <2>10 DEF Store
      <3>3. sdk = items /\ cfg \in Acceptable
        BY <1>0, <2>10 DEF Store, Stage
      <3> QED
        BY <3>1, <3>2, <3>3 DEF Surface!Next, Surface!Finish, Present
    <2> QED
      BY <1>2, <2>5, <2>6, <2>7, <2>8, <2>9, <2>10 DEF Apply, Lock, Busy
  <1> QED
    BY <1>1, <1>2 DEF Apply, Collect, ConvertFails, Convert, Remove, CommitKind, Add,
                      NextKind, Store, Publish, Unlock, Busy

\* A reload, seen by a client, is a transition of ToolSurface: only what the
\* next surface lacks disappears, only what it has appears, and the live
\* configuration changes when it is complete.
THEOREM Refinement == Spec => ImplementsToolSurface
  <1>1. Init => Surface!Init
    <2> SUFFICES ASSUME Init PROVE Surface!Init
      OBVIOUS
    <2>1. ~Committing
      BY DEF Init, Committing
    <2> QED
      BY <2>1 DEF Init, Surface!Init, Present, Nothing
  <1>2. TypeOK /\ Progress /\ Progress' /\ [Next]_vars => [Surface!Next]_(Surface!vars)
    <2> SUFFICES ASSUME TypeOK, Progress, Progress', [Next]_vars
                 PROVE  [Surface!Next]_(Surface!vars)
      OBVIOUS
    <2>1. CASE ProviderChanges
      BY <2>1, RefinementFrame DEF ProviderChanges, locals, Committing
    <2>2. ASSUME NEW r \in Reloaders, RequestReload(r) \/ RequestReapply(r)
          PROVE  UNCHANGED Surface!vars
      BY <2>2, RefinementCalls DEF RequestReload, RequestReapply, Goto, locals
    <2>3. ASSUME NEW r \in Reloaders, Apply(r) PROVE [Surface!Next]_(Surface!vars)
      BY <2>3, RefinementApply
    <2>4. CASE UNCHANGED vars
      BY <2>4, RefinementFrame DEF vars, locals, Committing
    <2> QED
      BY <2>1, <2>2, <2>3, <2>4 DEF Next
  <1>3. Spec => [](TypeOK /\ Progress)
    BY TypeCorrect, ProgressInvariant, PTL
  <1> QED
    BY <1>1, <1>2, <1>3, PTL DEF Spec, ImplementsToolSurface, Surface!Spec
=============================================================================
