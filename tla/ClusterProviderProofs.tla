----------------------- MODULE ClusterProviderProofs -----------------------
(***************************************************************************)
(* What holds of ClusterProvider for all kubeconfigs, contexts, tasks,     *)
(* watchers and bounds.                                                    *)
(*                                                                         *)
(* That the default target is served is not inductive: a reset releases    *)
(* p.mu on its error paths and at its end, between them the map and the    *)
(* default context do not fit.  Served says how far the reset that holds   *)
(* p.mu has come.  That no stale manager is left rests on the watcher:     *)
(* Watched says why an edit that is not lost will be noticed, and Fresh-   *)
(* OrNoticed what is still under way wherever a manager is stale.          *)
(* Attended says whose goroutine a reset or the shutdown waits for.        *)
(***************************************************************************)
EXTENDS ClusterProvider, TLAPS

Labels == {"idle", "boot", "due", "load", "swap", "join", "install",
           "rewatch", "start", "add", "reload", "collect"}

Resetting == {"load", "swap", "join", "install"}

\* A task is inside reset exactly when it holds p.mu.
Exclusive == \A t \in Tasks : pc[t] \in Resetting <=> mu = t

\* ... and has got there through both of its readings.
Holding ==
    /\ Exclusive
    /\ \A t \in Tasks :
          /\ pc[t] \in Resetting => resolved \in Contexts
          /\ pc[t] \in Resetting \ {"load"} => raw \in Files

Between == {"join", "install"}

\* The default context and the map fit, but from the swap of the map to the
\* assignment of the default context.
Served ==
    /\ (\A t \in Tasks : pc[t] \notin Between) => Made(defaultContext)
    /\ \A t \in Tasks :
          pc[t] \in Between => managers[DefaultOf(raw)] \in Managers

\* No manager is filed under a context it does not target.
Filed == \A c \in Contexts : Made(c) => managers[c].context = c

\* Until an edit is lost, both readings of a reset see the same kubeconfig.
ReadOnce ==
    ~lost =>
       /\ Filed
       /\ \A t \in Tasks :
             /\ pc[t] = "load" => Resolves(file, resolved)
             /\ pc[t] = "swap" => raw = file /\ Resolves(file, resolved)

\* The channels and flags of watchers.
Channels ==
    /\ \A g \in Slots : /\ stopCh[g] => started[g]
                        /\ notified[g] \/ event[g] => loop[g]
    /\ stopCh[watcher] => Closed \/ \E t \in Tasks : pc[t] = "join"

\* A reset or WatchTargets is about to start the watcher.
ToBeStarted ==
    \/ \E t \in Tasks : pc[t] \in {"swap", "join", "install"}
    \/ \E t \in Tasks : pc[t] = "add" /\ local[t] = watcher
    \/ /\ ~started[watcher]
       /\ \E t \in Tasks : \/ pc[t] \in {"boot", "rewatch"}
                           \/ pc[t] = "start" /\ local[t] = watcher

\* The current watcher's event or timer, or a reset that will read the file.
ToBeRead ==
    \/ event[watcher] \/ timer[watcher]
    \/ \E t \in Tasks : pc[t] \in {"due", "load"}

\* The kubeconfig is watched, or will be.
Watched ==
    ~lost /\ ~Closed =>
        \/ notified[watcher]
        \/ ToBeStarted
        \/ Loadable(file) /\ ToBeRead

AllFresh == \A k \in Targets : Made(k) => managers[k].from = file

\* Managers are of the kubeconfig there is, or it will be read.
FreshOrNoticed ==
    ~lost =>
        /\ ~Closed => \/ AllFresh
                      \/ ~Loadable(file)
                      \/ ToBeRead
                      \/ \E t \in Tasks : pc[t] = "swap"
        /\ (\E t \in Tasks : pc[t] \in Between) => AllFresh

Following == Channels /\ Watched /\ FreshOrNoticed

\* The shutdown, or a reset, waits for the goroutine of a watcher.
Awaited(g) == closing = g \/ (g = watcher /\ \E t \in Tasks : pc[t] = "join")

\* A Watch that has set started and has its goroutine still to start.
Adding(t, g) == pc[t] = "add" /\ local[t] = g

\* A watcher is told to stop by the one who waits for it.  One that was
\* started has a goroutine, or had one, or gets it.
Attended ==
    /\ closing # Nil <=> shutdown = "waiting"
    /\ \A t \in Tasks : pc[t] \in {"start", "add"} => local[t] \in Slots
    /\ \A g \in Slots :
          /\ stopCh[g] <=> Awaited(g)
          /\ stopCh[g] \/ loop[g] => started[g]
          /\ stoppedCh[g] => stopCh[g] /\ ~loop[g]
          /\ closing = g /\ g = watcher => \A t \in Tasks : pc[t] # "join"
          /\ \A t \in Tasks : Adding(t, g) =>
                /\ started[g] /\ ~loop[g] /\ ~stoppedCh[g]
                /\ \A u \in Tasks : Adding(u, g) => u = t
          /\ started[g] /\ watchFaults = 0 =>
                loop[g] \/ stoppedCh[g] \/ \E t \in Tasks : Adding(t, g)

\* Nobody waits for a goroutine that is not there: it has ended, or it runs
\* and has been told to stop, or the Watch under way starts it.  And no two
\* wait for the same one, whose channels the first would make anew.
NobodyWaitsInVain ==
    \A g \in Slots : Awaited(g) =>
       /\ stopCh[g]
       /\ closing = g => ~(g = watcher /\ \E t \in Tasks : pc[t] = "join")
       /\ watchFaults = 0 =>
             loop[g] \/ stoppedCh[g] \/ \E t \in Tasks : Adding(t, g)

-----------------------------------------------------------------------------
(* Kubeconfigs.                                                            *)

\* A kubeconfig resolves to one context at most.
LEMMA ResolvesOnce ==
  ASSUME NEW f \in Files, NEW c \in Contexts, NEW d \in Contexts,
         Resolves(f, c), Resolves(f, d)
  PROVE  c = d
  BY DEF Resolves

\* ... which a reset then takes for the default one.
LEMMA DefaultResolves ==
  ASSUME NEW f \in Files, NEW c \in Contexts, Resolves(f, c)
  PROVE  DefaultOf(f) = c
  <1>1. Resolves(f, CHOOSE d \in Contexts : Resolves(f, d))
    OBVIOUS
  <1>2. (CHOOSE d \in Contexts : Resolves(f, d)) \in Contexts
    OBVIOUS
  <1> QED
    BY <1>1, <1>2, ResolvesOnce DEF DefaultOf

\* The default context is a target.
LEMMA DefaultType ==
  ASSUME NEW f \in Files
  PROVE  DefaultOf(f) \in Targets
  BY DEF DefaultOf, Targets

\* A context that a manager is opened for is that of the kubeconfig.
LEMMA OpensDefault ==
  ASSUME NEW f \in Files, NEW c \in Contexts, Opens(f, Unset, c)
  PROVE  Resolves(f, c)
  BY DEF Opens

\* The map of a reset has the default manager, and managers or nil.
LEMMA FreshType ==
  ASSUME NEW f \in Files, NEW c \in Contexts
  PROVE  /\ Fresh(c, f) \in [Targets -> Managers \cup {Nil, Missing}]
         /\ Fresh(c, f)[DefaultOf(f)] = Manager(c, f)
         /\ Manager(c, f) \in Managers
         /\ \A k \in Targets : Fresh(c, f)[k] \in Managers
               => k = DefaultOf(f) /\ Fresh(c, f)[k] = Manager(c, f)
  <1>1. Manager(c, f) \in Managers
    BY DEF Manager, Managers
  <1>2. Nil \notin Managers /\ Missing \notin Managers
    BY ConstantsAssumption DEF ConstantsAssumption
  <1> QED
    BY <1>1, <1>2, DefaultType DEF Fresh

\* A reload or a tool call makes managers of the kubeconfig as it is, each
\* for the context it is filed under, and leaves the others alone.
LEMMA MadeManagers ==
  ASSUME TypeOK, MakeManagers \/ \E k \in Asked : Make(k)
  PROVE  /\ managers' \in [Targets -> Managers \cup {Nil, Missing}]
         /\ \A k \in Targets :
               \/ managers'[k] = managers[k]
               \/ /\ managers'[k] \in Managers
                  /\ managers'[k].from = file
                  /\ k \in Contexts => managers'[k].context = k
         /\ \A k \in Targets : Made(k) => managers'[k] = managers[k]
  <1>1. ASSUME NEW k \in Targets, NEW c \in Contexts, Opens(file, k, c)
        PROVE  /\ Manager(c, file) \in Managers
               /\ Manager(c, file).from = file
               /\ k \in Contexts => Manager(c, file).context = k
    BY <1>1, ConstantsAssumption
       DEF Manager, Managers, Opens, TypeOK, ConstantsAssumption
  <1>2. Nil \notin Managers
    BY ConstantsAssumption DEF ConstantsAssumption
  <1>3. CASE MakeManagers
    <2> DEFINE lacking == {k \in Targets : managers[k] = Nil}
               opened == {k \in lacking : \E c \in Contexts : Opens(file, k, c)}
               made(k) == CHOOSE c \in Contexts : Opens(file, k, c)
    <2>1. PICK some \in SUBSET opened :
             managers' = [k \in Targets |-> IF k \in some
                                              THEN Manager(made(k), file)
                                              ELSE managers[k]]
      BY <1>3 DEF MakeManagers
    <2>2. \A k \in opened : made(k) \in Contexts /\ Opens(file, k, made(k))
      OBVIOUS
    <2>3. \A k \in some : /\ Manager(made(k), file) \in Managers
                          /\ Manager(made(k), file).from = file
                          /\ k \in Contexts =>
                                Manager(made(k), file).context = k
      BY <1>1, <2>2
    <2> HIDE DEF made
    <2> QED
      BY <1>2, <2>1, <2>3 DEF TypeOK, Made
  <1>4. ASSUME NEW k \in Asked, Make(k)
        PROVE  /\ managers' \in [Targets -> Managers \cup {Nil, Missing}]
               /\ \A j \in Targets :
                     \/ managers'[j] = managers[j]
                     \/ /\ managers'[j] \in Managers
                        /\ managers'[j].from = file
                        /\ j \in Contexts => managers'[j].context = j
               /\ \A j \in Targets : Made(j) => managers'[j] = managers[j]
    <2>1. k \in Targets
      BY ConstantsAssumption DEF ConstantsAssumption
    <2>2. PICK c \in Contexts :
             /\ Opens(file, k, c)
             /\ managers' = [managers EXCEPT ![k] = Manager(c, file)]
      BY <1>4 DEF Make, MakeFor
    <2>3. ~Made(k)
      BY <1>4 DEF Make, MakeFor
    <2> QED
      BY <1>1, <2>1, <2>2, <2>3 DEF TypeOK, Made
  <1> QED
    BY <1>3, <1>4

-----------------------------------------------------------------------------

\* What a task does after WatchTargets.
LEMMA ProceedType ==
  ASSUME TypeOK, NEW t \in Tasks, Proceed(t)
  PROVE  /\ local' = [local EXCEPT ![t] = Nil]
         /\ shutdown' \in {"early", "no", "waiting", "done"}
         /\ reloadMu' \in Tasks \cup {Free}
         /\ \/ pc' = [pc EXCEPT ![t] = "idle"]
            \/ pc' = [pc EXCEPT ![t] = "reload"]
         /\ Closed' <=> Closed
  BY DEF Proceed, TypeOK, Goto, Closed

\* The lock is held over the steps of a reset and by nobody else, and a reset
\* knows what its readings gave.
LEMMA HoldingStep ==
  ASSUME TypeOK, Holding, [Next]_vars
  PROVE  Holding'
  <1> USE DEF Holding, Exclusive, Resetting, TypeOK, provider, locks, reset,
              budget, Goto
  <1>1. ASSUME NEW t \in Tasks, Resolve(t) \/ ResetFails(t) PROVE Holding'
    BY <1>1, ConstantsAssumption
       DEF Resolve, ResetFails, ResetFailing, ResetEnds, ConstantsAssumption
  <1>2. ASSUME NEW t \in Tasks, Load(t) PROVE Holding'
    BY <1>2 DEF Load
  <1>3. ASSUME NEW t \in Tasks, Swap(t) \/ Join(t) PROVE Holding'
    BY <1>3 DEF Swap, SwapWith, Join
  <1>4. ASSUME NEW t \in Tasks, Install(t) PROVE Holding'
    BY <1>4, ConstantsAssumption DEF Install, ResetEnds, ConstantsAssumption
  <1>5. ASSUME NEW t \in Tasks, ReadWatcher(t) \/ Start(t) \/ TakeReloadMu(t)
        PROVE  Holding'
    BY <1>5 DEF ReadWatcher, Start, TakeReloadMu
  <1>6. ASSUME NEW t \in Tasks, Started(t) \/ Add(t) \/ AddFails(t)
        PROVE  Holding'
    <2>1. pc[t] \in {"start", "add"} /\ UNCHANGED <<mu, resolved, raw>>
      BY <1>6 DEF Started, Add, AddFails
    <2>2. pc' = [pc EXCEPT ![t] = "idle"] \/ pc' = [pc EXCEPT ![t] = "reload"]
      BY <1>6, ProceedType DEF Started, Add, AddFails
    <2> QED
      BY <2>1, <2>2
  <1>7. ASSUME NEW t \in Tasks, Collect(t) \/ RequestReload(t) PROVE Holding'
    BY <1>7 DEF Collect, RequestReload
  <1>8. ASSUME NEW g \in Slots, Expire(g) PROVE Holding'
    BY <1>8 DEF Expire
  <1>9. CASE UNCHANGED <<mu, pc, resolved, raw>>
    BY <1>9
  <1>10. CASE Edit \/ Shutdown \/ ShutdownEnds \/ UNCHANGED vars
    BY <1>9, <1>10 DEF Edit, Shutdown, ShutdownEnds, vars
  <1>11. ASSUME NEW g \in Slots, LoopStep(g) PROVE Holding'
    BY <1>9, <1>11 DEF LoopStep, Notice, LoopStops
  <1>12. ASSUME NEW k \in Asked, Make(k) PROVE Holding'
    BY <1>9, <1>12 DEF Make, MakeFor
  <1> QED
    BY <1>1, <1>2, <1>3, <1>4, <1>5, <1>6, <1>7, <1>8, <1>10, <1>11, <1>12
       DEF Next, TaskStep

\* The type invariant is inductive with it: a map is made of both readings.
THEOREM TypeInvariant == Spec => [](TypeOK /\ Holding)
  <1>1. Init => TypeOK /\ Holding
    <2> SUFFICES ASSUME Init PROVE TypeOK /\ Holding
      OBVIOUS
    <2>1. PICK c \in Contexts : Resolves(file, c)
      BY OpensDefault DEF Init, Loadable
    <2>2. defaultContext \in Contexts
      BY <2>1, DefaultResolves DEF Init
    <2>3. managers \in [Targets -> Managers \cup {Nil, Missing}]
      BY <2>2, FreshType DEF Init
    <2>4. watcher \in Slots
      BY ConstantsAssumption DEF ConstantsAssumption, Init
    <2>5. TypeOK
      BY <2>2, <2>3, <2>4, ConstantsAssumption
         DEF ConstantsAssumption, Init, TypeOK, Targets, Flags
    <2>6. Holding
      BY ConstantsAssumption
         DEF ConstantsAssumption, Init, Holding, Exclusive, Resetting
    <2> QED
      BY <2>5, <2>6
  <1>2. TypeOK /\ Holding /\ [Next]_vars => (TypeOK /\ Holding)'
    <2> SUFFICES ASSUME TypeOK, Holding, [Next]_vars PROVE TypeOK'
      BY HoldingStep
    <2> USE DEF TypeOK, Flags, provider, locks, reset, channels, files,
                watchers, ends, budget, Goto
    <2>1. CASE Edit
      <3>1. event' \in Flags /\ notified' \in Flags
        <4>1. \A g \in Slots : (event[g] \/ notified[g]) \in BOOLEAN
          OBVIOUS
        <4>2. \A r \in BOOLEAN, g \in Slots : (notified[g] /\ ~r) \in BOOLEAN
          OBVIOUS
        <4> QED
          BY <2>1, <4>1, <4>2 DEF Edit
      <3>2. lost' \in BOOLEAN
        BY <2>1, Zenon DEF Edit
      <3> QED
        BY <2>1, <3>1, <3>2 DEF Edit
    <2>2. ASSUME NEW g \in Slots, Expire(g) PROVE TypeOK'
      BY <2>2 DEF Expire
    <2>3. ASSUME NEW g \in Slots, LoopStep(g) PROVE TypeOK'
      BY <2>3 DEF LoopStep, Notice, LoopStops
    <2>4. ASSUME NEW t \in Tasks, RequestReload(t) PROVE TypeOK'
      BY <2>4 DEF RequestReload
    <2>5. ASSUME NEW t \in Tasks, Resolve(t) \/ Load(t) \/ ResetFails(t)
          PROVE  TypeOK'
      BY <2>5 DEF Resolve, Load, ResetFails, ResetEnds
    <2>6. ASSUME NEW t \in Tasks, Swap(t) PROVE TypeOK'
      <3>1. managers' \in [Targets -> Managers \cup {Nil, Missing}]
        BY <2>6, FreshType DEF Swap, SwapWith, Holding, Resetting
      <3>2. stopCh' \in Flags
        <4>1. (stopCh[watcher] \/ started[watcher]) \in BOOLEAN
          OBVIOUS
        <4> QED
          BY <2>6, <4>1 DEF Swap, SwapWith, Stop
      <3> QED
        BY <2>6, <3>1, <3>2 DEF Swap, SwapWith, Stop
    <2>7. ASSUME NEW t \in Tasks, Join(t) PROVE TypeOK'
      BY <2>7 DEF Join, Renew
    <2>8. ASSUME NEW t \in Tasks, Install(t) PROVE TypeOK'
      <3>1. raw \in Files
        BY <2>8 DEF Install, Holding, Resetting
      <3>2. watcher' \in Slots
        BY <2>8 DEF Install
      <3> QED
        BY <2>8, <3>1, <3>2, DefaultType DEF Install, ResetEnds
    <2>9. ASSUME NEW t \in Tasks, ReadWatcher(t) \/ Start(t) PROVE TypeOK'
      BY <2>9 DEF ReadWatcher, Start
    <2>10. ASSUME NEW t \in Tasks, Started(t) \/ Add(t) \/ AddFails(t)
           PROVE  TypeOK'
      <3>1. Proceed(t)
        BY <2>10 DEF Started, Add, AddFails
      <3>2. /\ local' \in [Tasks -> Slots \cup {Nil}]
            /\ shutdown' \in {"early", "no", "waiting", "done"}
            /\ reloadMu' \in Tasks \cup {Free}
            /\ pc' \in [Tasks -> Labels]
        BY <3>1, ProceedType DEF Labels
      <3>3. CASE Started(t)
        BY <3>2, <3>3 DEF Started, Labels
      <3>4. CASE Add(t)
        BY <3>2, <3>4 DEF Add, Labels
      <3>5. CASE AddFails(t)
        BY <3>2, <3>5 DEF AddFails, Labels
      <3> QED
        BY <2>10, <3>3, <3>4, <3>5
    <2>11. ASSUME NEW t \in Tasks, TakeReloadMu(t) PROVE TypeOK'
      BY <2>11 DEF TakeReloadMu
    <2>12. ASSUME NEW t \in Tasks, Collect(t) PROVE TypeOK'
      BY <2>12, MadeManagers DEF Collect
    <2>13. ASSUME NEW k \in Asked, Make(k) PROVE TypeOK'
      BY <2>13, MadeManagers DEF Make, MakeFor
    <2>14. CASE Shutdown \/ ShutdownEnds
      BY <2>14 DEF Shutdown, ShutdownEnds, Stop, Renew
    <2>15. CASE UNCHANGED vars
      BY <2>15 DEF vars
    <2> QED
      BY <2>1, <2>2, <2>3, <2>4, <2>5, <2>6, <2>7, <2>8, <2>9, <2>10, <2>11,
         <2>12, <2>13, <2>14, <2>15 DEF Next, TaskStep
  <1> QED
    BY <1>1, <1>2, PTL DEF Spec

\* Type correctness.
THEOREM TypeCorrect == Spec => []TypeOK
  BY TypeInvariant, PTL

-----------------------------------------------------------------------------

\* Steps that leave alone what the managers depend on.
LEMMA ServedUnchanged ==
  ASSUME TypeOK, Served,
         UNCHANGED <<managers, defaultContext, raw>>,
         \A t \in Tasks : pc'[t] \in Between <=> pc[t] \in Between
  PROVE  Served'
  BY DEF Served, Made

\* The inductive invariant of the default target.
LEMMA ServedStep ==
  ASSUME TypeOK, Holding, Served, [Next]_vars
  PROVE  Served'
  <1> USE DEF TypeOK, provider, locks, reset, budget, Goto, Between
  <1>1. ASSUME NEW t \in Tasks, Resolve(t) PROVE Served'
    BY <1>1 DEF Resolve, Served, Made, Holding, Exclusive, Resetting
  <1>2. ASSUME NEW t \in Tasks, ResetFails(t) PROVE Served'
    <2>1. \A u \in Tasks : pc[u] \notin Between
      BY <1>2, ConstantsAssumption DEF ResetFails, ResetFailing, Holding,
         Exclusive, Resetting, ConstantsAssumption
    <2> QED
      BY <1>2, <2>1 DEF ResetFails, Served, Made
  <1>3. ASSUME NEW t \in Tasks, Load(t) PROVE Served'
    BY <1>3 DEF Load, Served, Made, Holding, Exclusive, Resetting
  <1>4. ASSUME NEW t \in Tasks, Swap(t) PROVE Served'
    <2>1. resolved \in Contexts /\ raw \in Files
      BY <1>4 DEF Swap, SwapWith, Holding, Resetting
    <2>2. managers'[DefaultOf(raw)] \in Managers
      BY <1>4, <2>1, FreshType DEF Swap, SwapWith
    <2> QED
      BY <1>4, <2>2 DEF Swap, SwapWith, Served
  <1>5. ASSUME NEW t \in Tasks, Join(t) PROVE Served'
    BY <1>5, ServedUnchanged DEF Join
  <1>6. ASSUME NEW t \in Tasks, Install(t) PROVE Served'
    <2>1. Made(defaultContext)'
      BY <1>6 DEF Install, Served, Made
    <2>2. \A u \in Tasks : pc'[u] \notin Between
      BY <1>6 DEF Install, Holding, Exclusive, Resetting
    <2> QED
      BY <2>1, <2>2 DEF Served
  <1>7. ASSUME NEW t \in Tasks,
               \/ ReadWatcher(t) \/ Start(t) \/ TakeReloadMu(t)
               \/ RequestReload(t)
        PROVE  Served'
    BY <1>7, ServedUnchanged DEF ReadWatcher, Start, TakeReloadMu, RequestReload
  <1>8. ASSUME NEW t \in Tasks, Started(t) \/ Add(t) \/ AddFails(t)
        PROVE  Served'
    <2>1. Proceed(t) /\ pc[t] \in {"start", "add"} /\ UNCHANGED <<provider, raw>>
      BY <1>8 DEF Started, Add, AddFails
    <2>2. pc' = [pc EXCEPT ![t] = "idle"] \/ pc' = [pc EXCEPT ![t] = "reload"]
      BY <2>1, ProceedType
    <2> QED
      BY <2>1, <2>2, ServedUnchanged
  <1>9. ASSUME UNCHANGED <<defaultContext, raw>>, mu = Free,
               MakeManagers \/ \E k \in Asked : Make(k),
               \A t \in Tasks : pc'[t] \notin Between
        PROVE  Served'
    <2>1. Made(defaultContext)
      BY <1>9, ConstantsAssumption
         DEF Served, Holding, Exclusive, Resetting, ConstantsAssumption
    <2>2. Made(defaultContext)'
      BY <1>9, <2>1, MadeManagers DEF Made
    <2> QED
      BY <1>9, <2>2 DEF Served
  <1>10. \A t \in Tasks : mu = Free => pc[t] \notin Between
    BY ConstantsAssumption
       DEF Holding, Exclusive, Resetting, ConstantsAssumption
  <1>11. ASSUME NEW t \in Tasks, Collect(t) PROVE Served'
    BY <1>9, <1>10, <1>11 DEF Collect
  <1>12. ASSUME NEW k \in Asked, Make(k) PROVE Served'
    BY <1>9, <1>10, <1>12 DEF Make, MakeFor
  <1>13. ASSUME NEW g \in Slots, Expire(g) \/ LoopStep(g) PROVE Served'
    BY <1>13, ServedUnchanged DEF Expire, LoopStep, Notice, LoopStops
  <1>14. CASE Edit \/ Shutdown \/ ShutdownEnds \/ UNCHANGED vars
    BY <1>14, ServedUnchanged DEF Edit, Shutdown, ShutdownEnds, vars
  <1> QED
    BY <1>1, <1>2, <1>3, <1>4, <1>5, <1>6, <1>7, <1>8, <1>11, <1>12, <1>13,
       <1>14 DEF Next, TaskStep

\* The provider starts with its default context made.
LEMMA ServedInit ==
  ASSUME Init
  PROVE  /\ file \in Files
         /\ Made(defaultContext)
         /\ Filed /\ AllFresh
         /\ Resolves(file, defaultContext)
  <1>1. file \in Files
    BY DEF Init
  <1>2. PICK c \in Contexts : Resolves(file, c)
    BY OpensDefault DEF Init, Loadable
  <1>3. defaultContext = c
    BY <1>1, <1>2, DefaultResolves DEF Init
  <1>4. \A k \in Targets : Made(k) => /\ k = defaultContext
                                      /\ managers[k] = Manager(c, file)
    BY <1>1, <1>3, FreshType DEF Init, Made
  <1>5. Made(defaultContext)
    BY <1>1, <1>3, FreshType DEF Init, Made
  <1> QED
    BY <1>1, <1>2, <1>3, <1>4, <1>5 DEF Filed, AllFresh, Manager, Targets

\* Whoever gets hold of p.mu finds the default target's manager.
THEOREM DefaultAlwaysServed == Spec => []DefaultIsServed
  <1>1. Init => Served
    BY ServedInit DEF Init, Served, Between
  <1>2. TypeOK /\ Holding /\ Served /\ [Next]_vars => Served'
    BY ServedStep
  <1>3. Holding /\ Served => DefaultIsServed
    BY ConstantsAssumption
       DEF Holding, Exclusive, Resetting, Served, Between, DefaultIsServed,
           ConstantsAssumption
  <1> QED
    BY <1>1, <1>2, <1>3, TypeInvariant, PTL DEF Spec

-----------------------------------------------------------------------------

\* Steps that leave alone what the readings are about.
LEMMA ReadOnceUnchanged ==
  ASSUME TypeOK, ReadOnce,
         UNCHANGED <<file, managers, resolved, raw, lost>>,
         \A t \in Tasks : pc'[t] \in {"load", "swap"} => pc'[t] = pc[t]
  PROVE  ReadOnce'
  BY DEF ReadOnce, Filed, Made, Resolves

\* Until an edit is lost, the two readings agree.
LEMMA ReadOnceStep ==
  ASSUME TypeOK, Holding, ReadOnce, [Next]_vars
  PROVE  ReadOnce'
  <1> USE DEF TypeOK, provider, locks, reset, Goto
  <1>1. ASSUME NEW t \in Tasks, Resolve(t) PROVE ReadOnce'
    <2>1. \A u \in Tasks : pc'[u] \in {"load", "swap"} => u = t
      BY <1>1, ConstantsAssumption DEF Resolve, Holding, Exclusive, Resetting,
         ConstantsAssumption
    <2>2. Resolves(file, resolved)' /\ UNCHANGED <<file, managers, lost>>
      BY <1>1 DEF Resolve, budget, Resolves
    <2>3. pc'[t] = "load"
      BY <1>1 DEF Resolve
    <2> QED
      BY <2>1, <2>2, <2>3 DEF ReadOnce, Filed, Made
  <1>2. ASSUME NEW t \in Tasks, ResetFails(t) PROVE ReadOnce'
    <2>1. \A u \in Tasks : pc'[u] \notin {"load", "swap"}
      BY <1>2, ConstantsAssumption DEF ResetFails, ResetFailing, Holding,
         Exclusive, Resetting, ConstantsAssumption
    <2>2. UNCHANGED <<file, managers, lost>>
      BY <1>2 DEF ResetFails, budget
    <2> QED
      BY <2>1, <2>2 DEF ReadOnce, Filed, Made
  <1>3. ASSUME NEW t \in Tasks, Load(t) PROVE ReadOnce'
    <2>1. \A u \in Tasks : pc'[u] \in {"load", "swap"} => u = t
      BY <1>3 DEF Load, Holding, Exclusive, Resetting
    <2>2. UNCHANGED <<file, managers, resolved, lost>> /\ raw' = file
      BY <1>3 DEF Load, budget
    <2>3. pc[t] = "load" /\ pc'[t] = "swap"
      BY <1>3 DEF Load
    <2> QED
      BY <2>1, <2>2, <2>3 DEF ReadOnce, Filed, Made, Resolves
  <1>4. ASSUME NEW t \in Tasks, Swap(t) PROVE ReadOnce'
    <2>1. resolved \in Contexts /\ raw \in Files
      BY <1>4 DEF Swap, SwapWith, Holding, Resetting
    <2>2. \A u \in Tasks : pc'[u] \notin {"load", "swap"}
      BY <1>4 DEF Swap, SwapWith, Holding, Exclusive, Resetting
    <2>3. managers' = Fresh(resolved, raw) /\ lost' = lost
      BY <1>4 DEF Swap, SwapWith, budget
    <2>4. ~lost => DefaultOf(raw) = resolved
      BY <1>4, <2>1, DefaultResolves DEF Swap, SwapWith, ReadOnce
    <2>5. ASSUME NEW c \in Contexts, ~lost, managers'[c] \in Managers
          PROVE  managers'[c].context = c
      <3>1. /\ c = DefaultOf(raw)
            /\ Fresh(resolved, raw)[c] = Manager(resolved, raw)
        BY <2>1, <2>3, <2>5, FreshType DEF Targets
      <3> QED
        BY <2>3, <2>4, <2>5, <3>1 DEF Manager
    <2>6. ~lost => Filed'
      BY <2>5 DEF Filed, Made
    <2> QED
      BY <2>2, <2>3, <2>6 DEF ReadOnce
  <1>5. ASSUME NEW t \in Tasks, Join(t) \/ ReadWatcher(t) \/ Start(t)
               \/ TakeReloadMu(t) \/ RequestReload(t)
        PROVE  ReadOnce'
    BY <1>5, ReadOnceUnchanged
       DEF Join, ReadWatcher, Start, TakeReloadMu, RequestReload, budget
  <1>6. ASSUME NEW t \in Tasks, Install(t) PROVE ReadOnce'
    <2>1. \A u \in Tasks : pc'[u] \notin {"load", "swap"}
      BY <1>6 DEF Install, Holding, Exclusive, Resetting
    <2> QED
      BY <1>6, <2>1 DEF Install, ReadOnce, Filed, Made, budget
  <1>7. ASSUME NEW t \in Tasks, Started(t) \/ Add(t) PROVE ReadOnce'
    <2>1. Proceed(t) /\ UNCHANGED <<file, managers, resolved, raw, lost>>
      BY <1>7 DEF Started, Add, budget
    <2>2. pc' = [pc EXCEPT ![t] = "idle"] \/ pc' = [pc EXCEPT ![t] = "reload"]
      BY <2>1, ProceedType
    <2> QED
      BY <2>1, <2>2, ReadOnceUnchanged
  <1>14. ASSUME NEW t \in Tasks, AddFails(t) PROVE ReadOnce'
    BY <1>14 DEF AddFails, ReadOnce
  <1>8. ASSUME UNCHANGED <<file, resolved, raw, lost>>,
               MakeManagers \/ \E k \in Asked : Make(k),
               \A t \in Tasks : pc'[t] \in {"load", "swap"} => pc'[t] = pc[t]
        PROVE  ReadOnce'
    <2>1. Filed => Filed'
      BY <1>8, MadeManagers DEF Filed, Made, Targets
    <2> QED
      BY <1>8, <2>1 DEF ReadOnce, Resolves
  <1>9. ASSUME NEW t \in Tasks, Collect(t) PROVE ReadOnce'
    BY <1>8, <1>9 DEF Collect, budget
  <1>10. ASSUME NEW k \in Asked, Make(k) PROVE ReadOnce'
    BY <1>8, <1>10 DEF Make, MakeFor, budget
  <1>11. ASSUME NEW g \in Slots, Expire(g) \/ LoopStep(g) PROVE ReadOnce'
    BY <1>11, ReadOnceUnchanged DEF Expire, LoopStep, Notice, LoopStops, budget
  <1>12. CASE Edit
    <2>1. lost' \/ \A t \in Tasks : pc[t] \notin {"load", "swap"}
      BY <1>12 DEF Edit, Unseeing
    <2>2. ~lost' => ~lost
      BY <1>12 DEF Edit
    <2>3. UNCHANGED <<managers, pc>>
      BY <1>12 DEF Edit
    <2>4. ~lost' => Filed'
      BY <2>2, <2>3 DEF ReadOnce, Filed, Made
    <2> QED
      BY <2>1, <2>3, <2>4 DEF ReadOnce
  <1>13. CASE Shutdown \/ ShutdownEnds \/ UNCHANGED vars
    BY <1>13, ReadOnceUnchanged DEF Shutdown, ShutdownEnds, vars, budget
  <1> QED
    BY <1>1, <1>2, <1>3, <1>4, <1>5, <1>6, <1>7, <1>9, <1>10, <1>11, <1>12,
       <1>13, <1>14 DEF Next, TaskStep

\* A manager targets the context it is filed under, until an edit is lost.
THEOREM TargetsAreRight == Spec => []TargetIsWhatItSaysUnlessLost
  <1>1. Init => ReadOnce
    BY ServedInit DEF Init, ReadOnce
  <1>2. TypeOK /\ Holding /\ ReadOnce /\ [Next]_vars => ReadOnce'
    BY ReadOnceStep
  <1>3. ReadOnce => TargetIsWhatItSaysUnlessLost
    BY DEF ReadOnce, Filed, TargetIsWhatItSaysUnlessLost, TargetIsWhatItSays
  <1> QED
    BY <1>1, <1>2, <1>3, TypeInvariant, PTL DEF Spec

-----------------------------------------------------------------------------

\* A step ends the shutdown's hold on nothing: closed stays closed.
LEMMA ClosedStays ==
  ASSUME TypeOK, [Next]_vars
  PROVE  /\ Closed => Closed'
         /\ Closed' /\ ~Closed => Shutdown
  <1> USE DEF Closed, ends, provider, locks, reset, channels, files, watchers, budget
  <1>1. ASSUME NEW t \in Tasks, Started(t) \/ Add(t) \/ AddFails(t)
        PROVE  Closed' <=> Closed
    BY <1>1, ProceedType DEF Started, Add, AddFails
  <1>2. CASE UNCHANGED shutdown
    BY <1>2
  <1>3. CASE Shutdown \/ ShutdownEnds
    BY <1>3 DEF Shutdown, ShutdownEnds
  <1>4. ASSUME NEW t \in Tasks,
               \/ Resolve(t) \/ Load(t) \/ ResetFails(t) \/ Swap(t) \/ Join(t)
               \/ Install(t) \/ ReadWatcher(t) \/ Start(t) \/ TakeReloadMu(t)
               \/ Collect(t) \/ RequestReload(t)
        PROVE  UNCHANGED shutdown
    BY <1>4 DEF Resolve, Load, ResetFails, Swap, SwapWith, Join, Install,
                ReadWatcher, Start, TakeReloadMu, Collect, RequestReload
  <1>5. ASSUME NEW g \in Slots, Expire(g) \/ LoopStep(g) PROVE UNCHANGED shutdown
    BY <1>5 DEF Expire, LoopStep, Notice, LoopStops
  <1>6. ASSUME NEW k \in Asked, Make(k) PROVE UNCHANGED shutdown
    BY <1>6 DEF Make, MakeFor
  <1>7. CASE Edit \/ UNCHANGED vars
    BY <1>7 DEF Edit, vars
  <1> QED
    BY <1>1, <1>2, <1>3, <1>4, <1>5, <1>6, <1>7 DEF Next, TaskStep

\* Once lost, always lost.
LEMMA LostStays ==
  ASSUME [Next]_vars
  PROVE  ~lost' => ~lost
  <1> USE DEF budget, provider, locks, reset, channels, files, watchers, ends
  <1>1. ASSUME NEW t \in Tasks, TaskStep(t) \/ RequestReload(t)
        PROVE  ~lost' => ~lost
    BY <1>1 DEF TaskStep, Resolve, Load, ResetFails, Swap, SwapWith, Join,
       Install, ReadWatcher, Start, TakeReloadMu, Collect, RequestReload,
       Started, Add, AddFails
  <1>2. ASSUME NEW g \in Slots, Expire(g) \/ LoopStep(g) PROVE ~lost' => ~lost
    BY <1>2 DEF Expire, LoopStep, Notice, LoopStops
  <1>3. ASSUME NEW k \in Asked, Make(k) PROVE ~lost' => ~lost
    BY <1>3 DEF Make, MakeFor
  <1>4. CASE Edit \/ Shutdown \/ ShutdownEnds \/ UNCHANGED vars
    BY <1>4 DEF Edit, Shutdown, ShutdownEnds, vars
  <1> QED
    BY <1>1, <1>2, <1>3, <1>4 DEF Next

\* Until an edit is lost, a reset fails only on what cannot be loaded.
LEMMA FailsForAReason ==
  ASSUME TypeOK, ReadOnce, NEW t \in Tasks, ResetFailing(t), ~lost
  PROVE  ~Loadable(file)
  <1>1. CASE ~ \E c \in Contexts : Resolves(file, c)
    BY <1>1, OpensDefault DEF Loadable, TypeOK
  <1>2. CASE pc[t] = "load" /\ resolved \notin ContextsOf[file]
    <2>1. Resolves(file, resolved)
      BY <1>2 DEF ReadOnce
    <2>2. \A c \in Contexts : Resolves(file, c) => c = resolved
      BY <2>1 DEF Resolves
    <2> QED
      BY <1>2, <2>2, OpensDefault DEF Loadable, TypeOK, Opens
  <1> QED
    BY <1>1, <1>2 DEF ResetFailing

-----------------------------------------------------------------------------

\* Steps that leave the channels alone.
LEMMA ChannelsUnchanged ==
  ASSUME Channels, UNCHANGED <<watcher, started, stopCh>>, Closed => Closed',
         \A g \in Slots : notified'[g] \/ event'[g] => loop'[g],
         \A t \in Tasks : pc[t] = "join" => pc'[t] = "join"
  PROVE  Channels'
  BY DEF Channels

\* A closed stopCh belongs to a watcher that was started, and the current
\* one's is closed during a reset or after the shutdown only.
LEMMA ChannelsStep ==
  ASSUME TypeOK, Holding, Channels, [Next]_vars
  PROVE  Channels'
  <1> USE DEF TypeOK, Flags, provider, locks, reset, channels, files, watchers,
              ends, budget, Goto
  <1>1. Closed => Closed'
    BY ClosedStays
  <1>2. CASE Edit
    <2>1. \A g \in Slots : notified'[g] \/ event'[g] => loop'[g]
      BY <1>2 DEF Edit, Channels
    <2> QED
      BY <1>1, <1>2, <2>1, ChannelsUnchanged DEF Edit
  <1>3. ASSUME NEW g \in Slots, Expire(g) PROVE Channels'
    BY <1>1, <1>3, ChannelsUnchanged DEF Expire, Channels
  <1>4. ASSUME NEW g \in Slots, LoopStep(g) PROVE Channels'
    BY <1>1, <1>4, ChannelsUnchanged DEF LoopStep, Notice, LoopStops, Channels
  <1>5. ASSUME NEW t \in Tasks,
               \/ RequestReload(t) \/ Resolve(t) \/ Load(t) \/ ResetFails(t)
               \/ ReadWatcher(t) \/ TakeReloadMu(t) \/ Collect(t)
        PROVE  Channels'
    <2>1. UNCHANGED <<watcher, started, stopCh, notified, event, loop>>
      BY <1>5 DEF RequestReload, Resolve, Load, ResetFails, ReadWatcher,
                  TakeReloadMu, Collect
    <2>2. \A u \in Tasks : pc[u] = "join" => pc'[u] = "join"
      BY <1>5 DEF RequestReload, Resolve, Load, ResetFails, ResetFailing,
                  ReadWatcher, TakeReloadMu, Collect
    <2> QED
      BY <1>1, <2>1, <2>2, ChannelsUnchanged DEF Channels
  <1>6. ASSUME NEW t \in Tasks, Swap(t) PROVE Channels'
    <2>1. pc[t] = "swap" /\ \A u \in Tasks : pc[u] # "join"
      BY <1>6 DEF Swap, SwapWith, Holding, Exclusive, Resetting
    <2>2. /\ \A g \in Slots : stopCh'[g] => stopCh[g] \/ started[g]
          /\ stopCh'[watcher] => stopCh[watcher] \/ pc'[t] = "join"
      BY <1>6 DEF Swap, SwapWith, Stop, Stoppable
    <2>3. UNCHANGED <<watcher, started, notified, event, loop>>
      BY <1>6 DEF Swap, SwapWith
    <2> QED
      BY <1>1, <2>1, <2>2, <2>3 DEF Channels
  <1>7. ASSUME NEW t \in Tasks, Join(t) PROVE Channels'
    BY <1>7 DEF Join, Renew, Channels
  <1>8. ASSUME NEW t \in Tasks, Install(t) PROVE Channels'
    <2>1. OutOfUse(watcher') /\ watcher' \in Slots
      BY <1>8 DEF Install
    <2>2. UNCHANGED watchers
      BY <1>8 DEF Install
    <2> QED
      BY <2>1, <2>2 DEF Channels, OutOfUse
  <1>9. ASSUME NEW t \in Tasks, Start(t) PROVE Channels'
    BY <1>1, <1>9 DEF Start, Channels
  <1>10. ASSUME NEW t \in Tasks, Started(t) \/ Add(t) \/ AddFails(t)
         PROVE  Channels'
    <2>1. Proceed(t) /\ pc[t] # "join" /\ UNCHANGED <<watcher, started, stopCh>>
      BY <1>10 DEF Started, Add, AddFails
    <2>2. \A u \in Tasks : pc[u] = "join" => pc'[u] = "join"
      BY <2>1, ProceedType
    <2>3. \A g \in Slots : notified'[g] \/ event'[g] => loop'[g]
      BY <1>10 DEF Started, Add, AddFails, Channels
    <2> QED
      BY <1>1, <2>1, <2>2, <2>3, ChannelsUnchanged
  <1>11. ASSUME NEW k \in Asked, Make(k) PROVE Channels'
    BY <1>1, <1>11, ChannelsUnchanged DEF Make, MakeFor, Channels
  <1>12. CASE Shutdown
    <2>1. Closed'
      BY <1>12 DEF Shutdown, Closed
    <2>2. \A g \in Slots : stopCh'[g] => stopCh[g] \/ started[g]
      BY <1>12 DEF Shutdown, Stop
    <2> QED
      BY <1>12, <2>1, <2>2 DEF Shutdown, Channels
  <1>13. CASE ShutdownEnds
    <2>1. Closed'
      BY <1>13 DEF ShutdownEnds, Closed
    <2> QED
      BY <1>13, <2>1 DEF ShutdownEnds, Renew, Channels
  <1>14. CASE UNCHANGED vars
    BY <1>1, <1>14, ChannelsUnchanged DEF vars, Channels
  <1> QED
    BY <1>2, <1>3, <1>4, <1>5, <1>6, <1>7, <1>8, <1>9, <1>10, <1>11, <1>12,
       <1>13, <1>14 DEF Next, TaskStep

-----------------------------------------------------------------------------

\* What makes the kubeconfig watched stays.
LEMMA WatchedUnchanged ==
  ASSUME TypeOK, Watched, UNCHANGED <<file, watcher>>,
         ~lost' => ~lost, Closed => Closed',
         notified[watcher] => notified'[watcher],
         ToBeStarted => notified'[watcher] \/ ToBeStarted' \/ Closed',
         ToBeRead /\ Loadable(file) => ToBeRead'
  PROVE  Watched'
  <1>1. Loadable(file)' <=> Loadable(file)
    BY DEF Loadable, Opens, Resolves
  <1> QED
    BY <1>1 DEF Watched

\* A watcher is watching, is about to be started, or its reading is due.
LEMMA WatchedStep ==
  ASSUME TypeOK, Holding, ReadOnce, Channels, Watched, [Next]_vars
  PROVE  Watched'
  <1> USE DEF TypeOK, Flags, provider, locks, reset, channels, files, watchers,
              ends, Goto
  <1>1. Closed => Closed'
    BY ClosedStays
  <1>2. ~lost' => ~lost
    BY LostStays
  <1>3. CASE Edit
    <2> SUFFICES ASSUME ~lost', ~Closed' PROVE Watched'
      BY DEF Watched
    <2>1. ~Unseeing /\ ~lost /\ UNCHANGED <<pc, local, watcher, timer>>
      BY <1>3 DEF Edit
    <2>2. ~ToBeStarted
      BY <2>1 DEF Unseeing, ToBeStarted
    <2>3. /\ notified[watcher] => event'[watcher]
          /\ event[watcher] => event'[watcher]
      BY <1>3 DEF Edit
    <2>4. notified[watcher] \/ ToBeRead
      BY <1>1, <2>1, <2>2 DEF Watched
    <2>5. ToBeRead'
      BY <2>1, <2>3, <2>4 DEF ToBeRead
    <2>6. Loadable(file)' \/ notified'[watcher]
      BY <1>3 DEF Edit, Loadable, Opens, Resolves
    <2>7. notified'[watcher'] \/ (Loadable(file)' /\ ToBeRead')
      BY <2>1, <2>5, <2>6
    <2> HIDE DEF TypeOK, Flags
    <2> QED
      BY <2>7 DEF Watched
  <1>4. ASSUME NEW g \in Slots, Expire(g) PROVE Watched'
    <2>1. ToBeStarted => ToBeStarted'
      BY <1>4 DEF Expire, ToBeStarted
    <2>2. ToBeRead => ToBeRead'
      BY <1>4 DEF Expire, ToBeRead
    <2> QED
      BY <1>1, <1>2, <1>4, <2>1, <2>2, WatchedUnchanged DEF Expire
  <1>5. ASSUME NEW g \in Slots, Notice(g) PROVE Watched'
    <2>1. ToBeStarted => ToBeStarted'
      BY <1>5 DEF Notice, ToBeStarted
    <2>2. ToBeRead => ToBeRead'
      BY <1>5 DEF Notice, ToBeRead
    <2> QED
      BY <1>1, <1>2, <1>5, <2>1, <2>2, WatchedUnchanged DEF Notice
  <1>6. ASSUME NEW g \in Slots, LoopStops(g) PROVE Watched'
    <2>1. ToBeStarted => ToBeStarted'
      BY <1>6 DEF LoopStops, ToBeStarted
    <2>2. CASE g = watcher
      <3>1. Closed \/ ToBeStarted
        BY <1>6, <2>2 DEF LoopStops, Channels, ToBeStarted
      <3> QED
        BY <1>1, <2>1, <3>1 DEF Watched
    <2>3. CASE g # watcher
      <3>1. ToBeRead => ToBeRead'
        BY <1>6, <2>3 DEF LoopStops, ToBeRead
      <3> QED
        BY <1>1, <1>2, <1>6, <2>1, <2>3, <3>1, WatchedUnchanged DEF LoopStops
    <2> QED
      BY <2>2, <2>3
  <1>7. ASSUME NEW t \in Tasks, RequestReload(t) \/ TakeReloadMu(t) \/ Collect(t)
        PROVE  Watched'
    <2>1. UNCHANGED <<file, watcher, local, started, notified, event, timer>>
      BY <1>7 DEF RequestReload, TakeReloadMu, Collect
    <2>2. ToBeStarted => ToBeStarted'
      BY <1>7, <2>1 DEF RequestReload, TakeReloadMu, Collect, ToBeStarted
    <2>3. ToBeRead => ToBeRead'
      BY <1>7, <2>1 DEF RequestReload, TakeReloadMu, Collect, ToBeRead
    <2> QED
      BY <1>1, <1>2, <2>1, <2>2, <2>3, WatchedUnchanged
  <1>8. ASSUME NEW t \in Tasks, Resolve(t) PROVE Watched'
    <2>1. ToBeStarted => ToBeStarted'
      BY <1>8 DEF Resolve, ToBeStarted
    <2>2. ToBeRead'
      BY <1>8 DEF Resolve, ToBeRead
    <2> QED
      BY <1>1, <1>2, <1>8, <2>1, <2>2, WatchedUnchanged DEF Resolve
  <1>9. ASSUME NEW t \in Tasks, Load(t) \/ Swap(t) \/ Join(t) PROVE Watched'
    <2>1. pc'[t] \in {"swap", "join", "install"}
      BY <1>9 DEF Load, Swap, SwapWith, Join
    <2> QED
      BY <2>1 DEF Watched, ToBeStarted
  <1>10. ASSUME NEW t \in Tasks, ResetFails(t) PROVE Watched'
    <2>1. ToBeStarted => ToBeStarted'
      BY <1>10 DEF ResetFails, ResetFailing, ToBeStarted
    <2>2. ~lost => ~Loadable(file)
      BY <1>10, FailsForAReason DEF ResetFails
    <2>3. CASE lost
      BY <1>2, <2>3 DEF Watched
    <2> QED
      BY <1>1, <1>2, <1>10, <2>1, <2>2, <2>3, WatchedUnchanged DEF ResetFails
  <1>11. ASSUME NEW t \in Tasks, Install(t) PROVE Watched'
    <2>1. pc'[t] = "rewatch" /\ ~started'[watcher']
      BY <1>11 DEF Install, OutOfUse
    <2> QED
      BY <2>1 DEF Watched, ToBeStarted
  <1>12. ASSUME NEW t \in Tasks, ReadWatcher(t) \/ Start(t) PROVE Watched'
    <2>1. ToBeStarted => ToBeStarted'
      <3>1. CASE ReadWatcher(t)
        BY <3>1 DEF ReadWatcher, ToBeStarted
      <3>2. CASE Start(t)
        BY <3>2 DEF Start, ToBeStarted
      <3> QED
        BY <1>12, <3>1, <3>2
    <2>2. ToBeRead => ToBeRead'
      BY <1>12 DEF ReadWatcher, Start, ToBeRead
    <2> QED
      BY <1>1, <1>2, <1>12, <2>1, <2>2, WatchedUnchanged DEF ReadWatcher, Start
  <1>13. ASSUME NEW t \in Tasks, Started(t) \/ Add(t) PROVE Watched'
    <2>1. /\ Proceed(t) /\ pc[t] \in {"start", "add"}
          /\ UNCHANGED <<file, watcher, started, event, timer>>
          /\ notified[watcher] => notified'[watcher]
      BY <1>13 DEF Started, Add
    <2>2. /\ local' = [local EXCEPT ![t] = Nil]
          /\ pc'[t] \in {"idle", "reload"}
          /\ \A u \in Tasks \ {t} : pc'[u] = pc[u]
      BY <2>1, ProceedType
    <2>3. ToBeStarted => notified'[watcher] \/ ToBeStarted'
      <3>1. CASE local[t] = watcher /\ Add(t)
        BY <3>1 DEF Add
      <3>2. CASE local[t] = watcher /\ Started(t)
        BY <2>1, <2>2, <3>2 DEF Started, ToBeStarted
      <3>3. CASE local[t] # watcher
        BY <2>1, <2>2, <3>3 DEF ToBeStarted
      <3> QED
        BY <1>13, <3>1, <3>2, <3>3
    <2>4. ToBeRead => ToBeRead'
      BY <2>1, <2>2 DEF ToBeRead
    <2> QED
      BY <1>1, <1>2, <2>1, <2>3, <2>4, WatchedUnchanged
  <1>14. ASSUME NEW t \in Tasks, AddFails(t) PROVE Watched'
    BY <1>14 DEF AddFails, Watched
  <1>15. ASSUME NEW k \in Asked, Make(k) PROVE Watched'
    BY <1>1, <1>2, <1>15, WatchedUnchanged DEF Make, MakeFor, ToBeStarted, ToBeRead
  <1>16. CASE Shutdown \/ ShutdownEnds
    BY <1>16 DEF Shutdown, ShutdownEnds, Watched, Closed
  <1>17. CASE UNCHANGED vars
    BY <1>1, <1>2, <1>17, WatchedUnchanged DEF vars, ToBeStarted, ToBeRead
  <1> QED
    BY <1>3, <1>4, <1>5, <1>6, <1>7, <1>8, <1>9, <1>10, <1>11, <1>12, <1>13,
       <1>14, <1>15, <1>16, <1>17 DEF Next, TaskStep, LoopStep

-----------------------------------------------------------------------------

\* What keeps managers fresh, or what notices that they are not, stays.
LEMMA FreshUnchanged ==
  ASSUME TypeOK, FreshOrNoticed, UNCHANGED file,
         ~lost' => ~lost, Closed => Closed',
         AllFresh => AllFresh',
         ToBeRead => ToBeRead' \/ AllFresh' \/ Closed',
         \A t \in Tasks : pc[t] = "swap" <=> pc'[t] = "swap",
         \A t \in Tasks : pc'[t] \in Between => pc[t] \in Between
  PROVE  FreshOrNoticed'
  <1>1. Loadable(file)' <=> Loadable(file)
    BY DEF Loadable, Opens, Resolves
  <1> QED
    BY <1>1 DEF FreshOrNoticed

\* Wherever a manager is stale, a reading of the kubeconfig is still to come.
LEMMA FreshStep ==
  ASSUME TypeOK, Holding, ReadOnce, Following, [Next]_vars
  PROVE  FreshOrNoticed'
  <1> USE DEF TypeOK, Flags, provider, locks, reset, channels, files, watchers,
              ends, Goto, Between
  <1>1. Closed => Closed'
    BY ClosedStays
  <1>2. ~lost' => ~lost
    BY LostStays
  <1>3. UNCHANGED <<file, managers>> => AllFresh' = AllFresh
    BY DEF AllFresh, Made
  <1>4. CASE Edit
    <2> SUFFICES ASSUME ~lost' PROVE FreshOrNoticed'
      BY DEF FreshOrNoticed
    <2>1. ~Unseeing /\ ~lost /\ UNCHANGED <<pc, local, watcher, timer>>
      BY <1>4 DEF Edit
    <2>2. ~ToBeStarted /\ \A t \in Tasks : pc'[t] \notin Between
      BY <2>1 DEF Unseeing, ToBeStarted
    <2>3. notified[watcher] \/ event[watcher] => event'[watcher]
      BY <1>4 DEF Edit
    <2>4. ~Closed => notified[watcher] \/ ToBeRead
      BY <2>1, <2>2 DEF Following, Watched
    <2>5. ~Closed => ToBeRead'
      BY <2>1, <2>3, <2>4 DEF ToBeRead
    <2> QED
      BY <1>1, <2>2, <2>5 DEF FreshOrNoticed
  <1>5. ASSUME NEW g \in Slots, Expire(g) \/ Notice(g) PROVE FreshOrNoticed'
    <2>1. ToBeRead => ToBeRead'
      BY <1>5 DEF Expire, Notice, ToBeRead
    <2>2. UNCHANGED <<file, managers>>
      BY <1>5 DEF Expire, Notice
    <2>3. /\ \A t \in Tasks : pc[t] = "swap" <=> pc'[t] = "swap"
          /\ \A t \in Tasks : pc'[t] \in Between => pc[t] \in Between
      BY <1>5 DEF Expire, Notice
    <2> QED
      BY <1>1, <1>2, <1>3, <2>1, <2>2, <2>3, FreshUnchanged DEF Following
  <1>6. ASSUME NEW g \in Slots, LoopStops(g) PROVE FreshOrNoticed'
    <2>1. UNCHANGED <<file, managers, pc, watcher, timer>>
      BY <1>6 DEF LoopStops
    <2>2. ToBeRead => ToBeRead' \/ AllFresh' \/ Closed' \/ lost'
      <3>1. CASE g = watcher
        <4>1. Closed \/ \E t \in Tasks : pc[t] = "join"
          BY <1>6, <3>1 DEF LoopStops, Following, Channels
        <4>2. Closed \/ lost \/ AllFresh
          BY <4>1 DEF Following, FreshOrNoticed
        <4> QED
          BY <1>1, <1>2, <1>3, <2>1, <4>2
      <3>2. CASE g # watcher
        BY <1>6, <2>1, <3>2 DEF LoopStops, ToBeRead
      <3> QED
        BY <3>1, <3>2
    <2>3. CASE lost'
      BY <2>3 DEF FreshOrNoticed
    <2> QED
      BY <1>1, <1>2, <1>3, <2>1, <2>2, <2>3, FreshUnchanged DEF Following
  <1>7. ASSUME NEW t \in Tasks,
               \/ RequestReload(t) \/ TakeReloadMu(t) \/ Join(t)
               \/ ReadWatcher(t) \/ Start(t)
        PROVE  FreshOrNoticed'
    <2>1. /\ UNCHANGED <<file, managers, watcher, event, timer>>
          /\ pc[t] \in {"idle", "reload", "join", "rewatch", "start"}
          /\ \/ pc'[t] \in {"reload", "collect", "start", "add"}
             \/ pc[t] = "join" /\ pc'[t] = "install"
          /\ \A u \in Tasks \ {t} : pc'[u] = pc[u]
      BY <1>7 DEF RequestReload, TakeReloadMu, Join, ReadWatcher, Start
    <2>2. ToBeRead => ToBeRead'
      BY <2>1 DEF ToBeRead
    <2> QED
      BY <1>1, <1>2, <1>3, <2>1, <2>2, FreshUnchanged DEF Following
  <1>8. ASSUME NEW t \in Tasks, Resolve(t) PROVE FreshOrNoticed'
    <2>1. ToBeRead'
      BY <1>8 DEF Resolve, ToBeRead
    <2>2. UNCHANGED <<file, managers>>
      BY <1>8 DEF Resolve
    <2>3. \A u \in Tasks : pc'[u] \in Between => pc[u] \in Between
      BY <1>8 DEF Resolve
    <2> QED
      BY <1>2, <1>3, <2>1, <2>2, <2>3 DEF Following, FreshOrNoticed
  <1>9. ASSUME NEW t \in Tasks, Load(t) PROVE FreshOrNoticed'
    <2>1. pc'[t] = "swap" /\ UNCHANGED <<file, managers>>
      BY <1>9 DEF Load
    <2>2. \A u \in Tasks : pc'[u] \in Between => pc[u] \in Between
      BY <1>9 DEF Load
    <2> QED
      BY <1>2, <1>3, <2>1, <2>2 DEF Following, FreshOrNoticed
  <1>10. ASSUME NEW t \in Tasks, ResetFails(t) PROVE FreshOrNoticed'
    <2>1. UNCHANGED <<file, managers>>
      BY <1>10 DEF ResetFails
    <2>2. \A u \in Tasks : pc'[u] \in Between => pc[u] \in Between
      BY <1>10 DEF ResetFails
    <2>3. ~lost => ~Loadable(file)'
      BY <1>10, <2>1, FailsForAReason DEF ResetFails, Loadable, Opens, Resolves
    <2> QED
      BY <1>2, <1>3, <2>1, <2>2, <2>3 DEF Following, FreshOrNoticed
  <1>11. ASSUME NEW t \in Tasks, Swap(t) PROVE FreshOrNoticed'
    <2> SUFFICES ASSUME ~lost PROVE AllFresh'
      BY <1>2 DEF FreshOrNoticed
    <2>1. resolved \in Contexts /\ raw \in Files /\ raw = file
      BY <1>11 DEF Swap, SwapWith, Holding, Resetting, ReadOnce
    <2>2. UNCHANGED file /\ managers' = Fresh(resolved, raw)
      BY <1>11 DEF Swap, SwapWith
    <2>3. ASSUME NEW k \in Targets, managers'[k] \in Managers
          PROVE  managers'[k].from = file
      <3>1. managers'[k] = Manager(resolved, raw)
        BY <2>1, <2>2, <2>3, FreshType
      <3> QED
        BY <2>1, <3>1 DEF Manager
    <2> QED
      BY <2>2, <2>3 DEF AllFresh, Made
  <1>12. ASSUME NEW t \in Tasks, Install(t) PROVE FreshOrNoticed'
    <2>1. pc[t] = "install" /\ UNCHANGED <<file, managers>>
      BY <1>12 DEF Install
    <2>2. lost \/ AllFresh
      BY <2>1 DEF Following, FreshOrNoticed
    <2> QED
      BY <1>2, <1>3, <2>1, <2>2 DEF FreshOrNoticed
  <1>13. ASSUME NEW t \in Tasks, Started(t) \/ Add(t) PROVE FreshOrNoticed'
    <2>1. /\ Proceed(t) /\ pc[t] \in {"start", "add"}
          /\ UNCHANGED <<file, managers, watcher, event, timer>>
      BY <1>13 DEF Started, Add
    <2>2. /\ pc'[t] \in {"idle", "reload"}
          /\ \A u \in Tasks \ {t} : pc'[u] = pc[u]
      BY <2>1, ProceedType
    <2>3. ToBeRead => ToBeRead'
      BY <2>1, <2>2 DEF ToBeRead
    <2> QED
      BY <1>1, <1>2, <1>3, <2>1, <2>2, <2>3, FreshUnchanged DEF Following
  <1>14. ASSUME NEW t \in Tasks, AddFails(t) PROVE FreshOrNoticed'
    BY <1>14 DEF AddFails, FreshOrNoticed
  <1>15. ASSUME MakeManagers \/ \E k \in Asked : Make(k), UNCHANGED file
         PROVE  AllFresh => AllFresh'
    BY <1>15, MadeManagers DEF AllFresh, Made
  <1>16. ASSUME NEW t \in Tasks, Collect(t) PROVE FreshOrNoticed'
    <2>1. /\ MakeManagers /\ UNCHANGED <<file, watcher, event, timer>>
          /\ pc[t] \in {"boot", "collect"} /\ pc'[t] = "rewatch"
          /\ \A u \in Tasks \ {t} : pc'[u] = pc[u]
      BY <1>16 DEF Collect
    <2>2. ToBeRead => ToBeRead'
      BY <2>1 DEF ToBeRead
    <2> QED
      BY <1>1, <1>2, <1>15, <2>1, <2>2, FreshUnchanged DEF Following
  <1>17. ASSUME NEW k \in Asked, Make(k) PROVE FreshOrNoticed'
    <2>1. UNCHANGED <<file, watcher, event, timer, pc>>
      BY <1>17 DEF Make, MakeFor
    <2>2. ToBeRead => ToBeRead'
      BY <2>1 DEF ToBeRead
    <2> QED
      BY <1>1, <1>2, <1>15, <1>17, <2>1, <2>2, FreshUnchanged DEF Following
  <1>18. CASE Shutdown \/ ShutdownEnds
    <2>1. Closed' /\ UNCHANGED <<file, managers, pc>>
      BY <1>18 DEF Shutdown, ShutdownEnds, Closed
    <2> QED
      BY <1>2, <1>3, <2>1 DEF Following, FreshOrNoticed
  <1>19. CASE UNCHANGED vars
    <2>1. UNCHANGED <<file, managers, watcher, event, timer, pc>>
      BY <1>19 DEF vars
    <2> QED
      BY <1>1, <1>2, <1>3, <2>1, FreshUnchanged DEF Following, ToBeRead
  <1> QED
    BY <1>4, <1>5, <1>6, <1>7, <1>8, <1>9, <1>10, <1>11, <1>12, <1>13, <1>14,
       <1>16, <1>17, <1>18, <1>19 DEF Next, TaskStep, LoopStep

\* No stale manager is left, until an edit is lost.
THEOREM NothingStale == Spec => []NoStaleManager
  <1>1. Init => ReadOnce /\ Following
    <2> SUFFICES ASSUME Init PROVE ReadOnce /\ Following
      OBVIOUS
    <2>1. watcher \in Slots
      BY ConstantsAssumption DEF ConstantsAssumption, Init
    <2>2. Channels
      BY <2>1 DEF Init, Channels
    <2>3. ToBeStarted
      BY <2>1, ConstantsAssumption DEF Init, ToBeStarted, ConstantsAssumption
    <2> QED
      BY <2>2, <2>3, ServedInit
         DEF Init, ReadOnce, Following, Watched, FreshOrNoticed
  <1>2. /\ TypeOK /\ Holding /\ ReadOnce /\ Following /\ [Next]_vars
        => (ReadOnce /\ Following)'
    BY ReadOnceStep, ChannelsStep, WatchedStep, FreshStep DEF Following
  <1>3. TypeOK /\ Following => NoStaleManager
    BY DEF TypeOK, Following, FreshOrNoticed, NoStaleManager, Quiet, ToBeRead,
           AllFresh
  <1> QED
    BY <1>1, <1>2, <1>3, TypeInvariant, PTL DEF Spec

-----------------------------------------------------------------------------
(* Those who wait for a goroutine.                                         *)

\* Steps that leave watchers alone, and those who start and stop them.
LEMMA AttendedUnchanged ==
  ASSUME Attended,
         UNCHANGED <<watcher, closing, started, stopCh, stoppedCh, loop,
                     watchFaults>>,
         shutdown' = "waiting" <=> shutdown = "waiting",
         \A t \in Tasks : /\ pc'[t] = "join" <=> pc[t] = "join"
                          /\ pc'[t] = "add" <=> pc[t] = "add"
                          /\ pc[t] = "add" => local'[t] = local[t]
                          /\ pc'[t] = "start" => local'[t] \in Slots
  PROVE  Attended'
  <1>1. \A g \in Slots : Awaited(g)' <=> Awaited(g)
    BY DEF Awaited
  <1>2. \A t \in Tasks, g \in Slots : Adding(t, g)' <=> Adding(t, g)
    BY DEF Adding
  <1> QED
    BY <1>1, <1>2 DEF Attended

\* Whoever starts, stops or waits for a watcher keeps the invariant.
LEMMA AttendedStep ==
  ASSUME TypeOK, Holding, Attended, [Next]_vars
  PROVE  Attended'
  <1> USE DEF TypeOK, Flags, provider, locks, reset, channels, files, watchers,
              ends, budget, Goto
  <1>1. CASE Edit
    BY <1>1, AttendedUnchanged DEF Edit, Attended
  <1>2. ASSUME NEW g \in Slots, Expire(g) PROVE Attended'
    BY <1>2, AttendedUnchanged DEF Expire, Attended
  <1>3. ASSUME NEW g \in Slots, Notice(g) PROVE Attended'
    BY <1>3, AttendedUnchanged DEF Notice, Attended
  <1>4. ASSUME NEW g \in Slots, LoopStops(g) PROVE Attended'
    <2>1. /\ \A h \in Slots : Awaited(h)' <=> Awaited(h)
          /\ \A t \in Tasks, h \in Slots : Adding(t, h)' <=> Adding(t, h)
      BY <1>4 DEF LoopStops, Awaited, Adding
    <2> QED
      BY <1>4, <2>1 DEF LoopStops, Attended
  <1>5. ASSUME NEW t \in Tasks,
               \/ RequestReload(t) \/ Resolve(t) \/ Load(t) \/ ResetFails(t)
               \/ TakeReloadMu(t) \/ Collect(t) \/ ReadWatcher(t)
        PROVE  Attended'
    <2>1. /\ UNCHANGED <<watcher, closing, started, stopCh, stoppedCh, loop,
                         watchFaults, shutdown>>
          /\ pc[t] \notin {"join", "start", "add"}
          /\ pc'[t] \notin {"join", "add"}
          /\ \A u \in Tasks \ {t} : pc'[u] = pc[u] /\ local'[u] = local[u]
          /\ pc'[t] = "start" => local'[t] \in Slots
      BY <1>5 DEF RequestReload, Resolve, Load, ResetFails, ResetFailing,
                  TakeReloadMu, Collect, ReadWatcher
    <2>2. \A u \in Tasks : /\ pc'[u] = "join" <=> pc[u] = "join"
                           /\ pc'[u] = "add" <=> pc[u] = "add"
                           /\ pc[u] = "add" => local'[u] = local[u]
                           /\ pc'[u] = "start" => local'[u] \in Slots
      BY <2>1 DEF Attended
    <2> QED
      BY <2>1, <2>2, AttendedUnchanged
  <1>6. ASSUME NEW t \in Tasks, Swap(t) PROVE Attended'
    <2>1. pc[t] = "swap" /\ \A u \in Tasks : pc[u] # "join"
      BY <1>6 DEF Swap, SwapWith, Holding, Exclusive, Resetting
    <2>2. /\ UNCHANGED <<watcher, closing, started, stoppedCh, loop, watchFaults,
                         shutdown, local>>
          /\ stopCh' = [stopCh EXCEPT ![watcher] = @ \/ started[watcher]]
          /\ pc' = [pc EXCEPT ![t] = IF Stoppable(watcher) THEN "join"
                                                           ELSE "install"]
      BY <1>6 DEF Swap, SwapWith, Stop
    <2>3. \A g \in Slots :
             Awaited(g)' <=> Awaited(g) \/ (g = watcher /\ Stoppable(watcher))
      BY <2>1, <2>2 DEF Awaited
    <2>4. \A u \in Tasks, g \in Slots : Adding(u, g)' <=> Adding(u, g)
      BY <2>1, <2>2 DEF Adding
    <2>5. Stoppable(watcher) => closing # watcher
      BY DEF Stoppable, Attended, Awaited
    <2> QED
      BY <2>1, <2>2, <2>3, <2>4, <2>5 DEF Attended, Stoppable
  <1>7. ASSUME NEW t \in Tasks, Join(t) PROVE Attended'
    <2>1. pc[t] = "join" /\ \A u \in Tasks : pc[u] = "join" => u = t
      BY <1>7 DEF Join, Holding, Exclusive, Resetting
    <2>2. /\ UNCHANGED <<watcher, closing, loop, watchFaults, shutdown, local>>
          /\ stoppedCh[watcher]
          /\ started' = [started EXCEPT ![watcher] = FALSE]
          /\ stopCh' = [stopCh EXCEPT ![watcher] = FALSE]
          /\ stoppedCh' = [stoppedCh EXCEPT ![watcher] = FALSE]
          /\ pc' = [pc EXCEPT ![t] = "install"]
      BY <1>7 DEF Join, Renew
    <2>3. \A g \in Slots : Awaited(g)' <=> closing = g
      BY <2>1, <2>2 DEF Awaited
    <2>4. \A u \in Tasks, g \in Slots : Adding(u, g)' <=> Adding(u, g)
      BY <2>1, <2>2 DEF Adding
    <2>5. closing # watcher
      BY <2>1 DEF Attended
    <2> QED
      BY <2>1, <2>2, <2>3, <2>4, <2>5 DEF Attended, Awaited
  <1>8. ASSUME NEW t \in Tasks, Install(t) PROVE Attended'
    <2>1. pc[t] = "install" /\ \A u \in Tasks : pc[u] # "join"
      BY <1>8 DEF Install, Holding, Exclusive, Resetting
    <2>2. /\ UNCHANGED <<closing, started, stopCh, stoppedCh, loop, watchFaults,
                         shutdown, local>>
          /\ pc' = [pc EXCEPT ![t] = "rewatch"]
      BY <1>8 DEF Install
    <2>3. \A g \in Slots : Awaited(g)' <=> Awaited(g)
      BY <2>1, <2>2 DEF Awaited
    <2>4. \A u \in Tasks, g \in Slots : Adding(u, g)' <=> Adding(u, g)
      BY <2>1, <2>2 DEF Adding
    <2> QED
      BY <2>1, <2>2, <2>3, <2>4 DEF Attended
  <1>9. ASSUME NEW t \in Tasks, Start(t) PROVE Attended'
    <2>1. /\ pc[t] = "start" /\ local[t] \in Slots /\ ~started[local[t]]
          /\ UNCHANGED <<watcher, closing, stopCh, stoppedCh, loop, watchFaults,
                         shutdown, local>>
          /\ started' = [started EXCEPT ![local[t]] = TRUE]
          /\ pc' = [pc EXCEPT ![t] = "add"]
      BY <1>9 DEF Start, Attended
    <2>2. \A g \in Slots : Awaited(g)' <=> Awaited(g)
      BY <2>1 DEF Awaited
    <2>3. \A u \in Tasks, g \in Slots :
             Adding(u, g)' <=> Adding(u, g) \/ (u = t /\ g = local[t])
      BY <2>1 DEF Adding
    <2>4. \A u \in Tasks : ~Adding(u, local[t])
      BY <2>1 DEF Attended
    <2> QED
      BY <2>1, <2>2, <2>3, <2>4 DEF Attended
  <1>10. ASSUME NEW t \in Tasks, Started(t) \/ Add(t) \/ AddFails(t)
         PROVE  Attended'
    <2>1. /\ pc[t] \in {"start", "add"} /\ local[t] \in Slots
          /\ UNCHANGED <<watcher, closing, started, stopCh, stoppedCh>>
          /\ local' = [local EXCEPT ![t] = Nil]
          /\ Proceed(t)
      BY <1>10 DEF Started, Add, AddFails, Proceed, Attended
    <2>2. /\ \A u \in Tasks \ {t} : pc'[u] = pc[u]
          /\ pc'[t] \in {"idle", "reload"}
          /\ shutdown' = "waiting" <=> shutdown = "waiting"
      BY <2>1 DEF Proceed
    <2>3. \A g \in Slots : Awaited(g)' <=> Awaited(g)
      BY <2>1, <2>2 DEF Awaited
    <2>4. \A u \in Tasks, g \in Slots : Adding(u, g)' <=> Adding(u, g) /\ u # t
      BY <2>1, <2>2 DEF Adding
    <2>5. CASE Started(t)
      <3>1. pc[t] = "start" /\ UNCHANGED <<loop, watchFaults>>
        BY <2>5 DEF Started
      <3>2. \A g \in Slots : ~Adding(t, g)
        BY <3>1 DEF Adding
      <3> QED
        BY <2>1, <2>2, <2>3, <2>4, <3>1, <3>2 DEF Attended
    <2>6. CASE Add(t)
      <3>1. /\ Adding(t, local[t]) /\ UNCHANGED watchFaults
            /\ loop' = [loop EXCEPT ![local[t]] = TRUE]
        BY <2>6 DEF Add, Adding
      <3>2. \A g \in Slots : Adding(t, g) => g = local[t]
        BY DEF Adding
      <3> QED
        BY <2>1, <2>2, <2>3, <2>4, <3>1, <3>2 DEF Attended
    <2>7. CASE AddFails(t)
      <3>1. UNCHANGED loop /\ watchFaults' # 0
        BY <2>7 DEF AddFails
      <3> QED
        BY <2>1, <2>2, <2>3, <2>4, <3>1 DEF Attended
    <2> QED
      BY <1>10, <2>5, <2>6, <2>7
  <1>11. ASSUME NEW k \in Asked, Make(k) PROVE Attended'
    BY <1>11, AttendedUnchanged DEF Make, MakeFor, Attended
  <1>12. CASE Shutdown
    <2>1. /\ UNCHANGED <<watcher, started, stoppedCh, loop, watchFaults, local, pc>>
          /\ stopCh' = [stopCh EXCEPT ![watcher] = @ \/ started[watcher]]
          /\ closing = Nil
          /\ IF Stoppable(watcher)
             THEN shutdown' = "waiting" /\ closing' = watcher
             ELSE shutdown' = "done" /\ UNCHANGED closing
      BY <1>12 DEF Shutdown, Stop, Attended
    <2>2. watcher # Nil
      BY ConstantsAssumption DEF ConstantsAssumption
    <2>3. \A g \in Slots :
             Awaited(g)' <=> Awaited(g) \/ (g = watcher /\ Stoppable(watcher))
      BY <2>1, <2>2, ConstantsAssumption DEF Awaited, ConstantsAssumption
    <2>4. \A u \in Tasks, g \in Slots : Adding(u, g)' <=> Adding(u, g)
      BY <2>1 DEF Adding
    <2>5. Stoppable(watcher) => \A t \in Tasks : pc[t] # "join"
      BY DEF Stoppable, Attended, Awaited
    <2> QED
      BY <2>1, <2>2, <2>3, <2>4, <2>5 DEF Attended, Stoppable
  <1>13. CASE ShutdownEnds
    <2>1. /\ UNCHANGED <<watcher, loop, watchFaults, local, pc>>
          /\ shutdown = "waiting" /\ stoppedCh[closing] /\ closing' = Nil
          /\ shutdown' = "done"
          /\ started' = [started EXCEPT ![closing] = FALSE]
          /\ stopCh' = [stopCh EXCEPT ![closing] = FALSE]
          /\ stoppedCh' = [stoppedCh EXCEPT ![closing] = FALSE]
      BY <1>13 DEF ShutdownEnds, Renew
    <2>2. closing \in Slots
      BY <2>1 DEF Attended
    <2>3. \A g \in Slots : Awaited(g)' <=> Awaited(g) /\ g # closing
      BY <2>1, <2>2, ConstantsAssumption DEF Awaited, Attended, ConstantsAssumption
    <2>4. \A u \in Tasks, g \in Slots : Adding(u, g)' <=> Adding(u, g)
      BY <2>1 DEF Adding
    <2> QED
      BY <2>1, <2>2, <2>3, <2>4, ConstantsAssumption
         DEF Attended, ConstantsAssumption
  <1>14. CASE UNCHANGED vars
    BY <1>14, AttendedUnchanged DEF vars, Attended
  <1> QED
    BY <1>1, <1>2, <1>3, <1>4, <1>5, <1>6, <1>7, <1>8, <1>9, <1>10, <1>11,
       <1>12, <1>13, <1>14 DEF Next, TaskStep, LoopStep

\* A reset, which holds p.mu, and the shutdown never wait for a goroutine that
\* nobody has started and nobody will, however resets, restarts of a watcher
\* and the shutdown overlap, unless fsnotify.NewWatcher has failed.
THEOREM NobodyStranded == Spec => []NobodyWaitsInVain
  <1>1. Init => Attended
    <2> SUFFICES ASSUME Init PROVE Attended
      OBVIOUS
    <2>1. \A g \in Slots : closing # g
      BY ConstantsAssumption DEF Init, ConstantsAssumption
    <2> QED
      BY <2>1 DEF Init, Attended, Awaited, Adding
  <1>2. TypeOK /\ Holding /\ Attended /\ [Next]_vars => Attended'
    BY AttendedStep
  <1>3. Attended => NobodyWaitsInVain
    BY DEF Attended, NobodyWaitsInVain, Awaited
  <1> QED
    BY <1>1, <1>2, <1>3, TypeInvariant, PTL DEF Spec

=============================================================================
