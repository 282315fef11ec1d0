--------------------- MODULE ClusterStateWatcherProofs ---------------------
(***************************************************************************)
(* What holds of ClusterStateWatcher for every number of callbacks and     *)
(* callers of Close, every interval and every bound.                       *)
(*                                                                         *)
(* The lifecycle properties are not inductive by themselves: that a        *)
(* waiting Close has a loop to wait for rests on who closed which channel. *)
(* Lifecycle spells that out: the two channels, the started flag, the loop *)
(* and the callers of Close determine each other.                          *)
(***************************************************************************)
EXTENDS ClusterStateWatcher, TLAPS

\* stopCh is closed by the one Close that is waiting; stoppedCh by the loop
\* that ended; both are fresh again before the watcher counts as stopped.
Lifecycle ==
    /\ ClosedIsClean
    /\ started => (loop = "none" <=> stoppedCh)
    /\ stoppedCh => stopCh
    /\ stopCh <=> Waiting # {}
    /\ stopCh => started
    /\ OneCloseOwnsTheChannels

\* Discover keeps the cache in its type and the failed requests in bounds.
LEMMA DiscoverType ==
  ASSUME TypeOK, NEW who, NEW view, Discover(who, view)
  PROVE  /\ cache' \in States \cup {Stale}
         /\ faults' \in 0..MaxFaults
         /\ view \in Views
  BY ConstantsAssumption DEF ConstantsAssumption, TypeOK, CountersTypeOK, Discover, Views

\* The clock and the bounded counters stay in their ranges.
LEMMA CountersStep == TypeOK /\ [Next]_vars => CountersTypeOK'
  <1> SUFFICES ASSUME TypeOK, [Next]_vars PROVE CountersTypeOK'
    OBVIOUS
  <1> USE ConstantsAssumption DEF ConstantsAssumption, CountersTypeOK
  <1>0. CountersTypeOK
    BY DEF TypeOK
  <1>1. CASE ClusterChanges
    BY <1>0, <1>1 DEF ClusterChanges, clock
  <1>2. CASE Elapse
    BY <1>0, <1>2 DEF Elapse, budget
  <1>3. CASE Apply
    BY <1>0, <1>3, DiscoverType DEF Apply, clock
  <1>4. CASE Watch
    BY <1>0, <1>4, DiscoverType DEF Watch
  <1>5. CASE PollInvalidate
    BY <1>0, <1>5 DEF PollInvalidate, budget
  <1>6. CASE PollCompare
    BY <1>0, <1>6, DiscoverType DEF PollCompare, ArmTimer
  <1>7. CASE LoopStops
    BY <1>0, <1>7 DEF LoopStops, clock, budget
  <1>8. ASSUME NEW c \in Callbacks, CallbackStep(c) PROVE CountersTypeOK'
    <2>1. CASE Reload(c)
      BY <1>0, <2>1, DiscoverType DEF Reload, clock
    <2>2. CASE ReloadFails(c)
      BY <1>0, <2>2 DEF ReloadFails, clock
    <2>3. CASE Capture(c)
      BY <1>0, <2>3, DiscoverType DEF Capture, clock
    <2> QED
      BY <1>8, <2>1, <2>2, <2>3 DEF CallbackStep
  <1>9. ASSUME NEW k \in Closers, CloseStep(k) PROVE CountersTypeOK'
    BY <1>0, <1>9 DEF CloseStep, CloseReturns, CloseStops, CloseAndWait, CloseEnds,
                      StopTimer, clock, budget
  <1>10. CASE UNCHANGED vars
    BY <1>0, <1>10 DEF vars, code, clock, budget
  <1> QED
    BY <1>1, <1>2, <1>3, <1>4, <1>5, <1>6, <1>7, <1>8, <1>9, <1>10 DEF Next

\* Type correctness: every step keeps every variable in its type.
THEOREM TypeCorrect == Spec => []TypeOK
  <1>1. Init => TypeOK
    <2>1. Init => CountersTypeOK
      BY ConstantsAssumption DEF ConstantsAssumption, Init, CountersTypeOK
    <2>2. Init => prompt \in BOOLEAN
      BY ConstantsAssumption DEF ConstantsAssumption, Init
    <2> QED
      BY <2>1, <2>2 DEF Init, TypeOK, Views
  <1>2. TypeOK /\ [Next]_vars => TypeOK'
    <2> SUFFICES ASSUME TypeOK, [Next]_vars PROVE TypeOK'
      OBVIOUS
    <2>0. CountersTypeOK'
      BY CountersStep
    <2>1. CASE ClusterChanges
      BY <2>0, <2>1 DEF ClusterChanges, TypeOK, channels, clock
    <2>2. CASE Elapse
      BY <2>0, <2>2 DEF Elapse, TypeOK, data, channels
    <2>3. CASE Apply
      BY <2>0, <2>3, DiscoverType DEF Apply, TypeOK, channels, clock
    <2>4. CASE Watch
      BY <2>0, <2>4, DiscoverType DEF Watch, TypeOK
    <2>5. CASE PollInvalidate
      BY <2>0, <2>5 DEF PollInvalidate, TypeOK, channels
    <2>6. CASE PollCompare
      BY <2>0, <2>6, DiscoverType DEF PollCompare, TypeOK, channels
    <2>7. CASE LoopStops
      BY <2>0, <2>7 DEF LoopStops, TypeOK, data, clock
    <2>8. ASSUME NEW c \in Callbacks, Reload(c) PROVE TypeOK'
      BY <2>0, <2>8, DiscoverType DEF Reload, TypeOK, channels, clock
    <2>9. ASSUME NEW c \in Callbacks, ReloadFails(c) PROVE TypeOK'
      BY <2>0, <2>9 DEF ReloadFails, TypeOK, data, channels, clock
    <2>10. ASSUME NEW c \in Callbacks, Capture(c) PROVE TypeOK'
      BY <2>0, <2>10, DiscoverType DEF Capture, TypeOK, channels, clock
    <2>11. ASSUME NEW k \in Closers, CloseStep(k) PROVE TypeOK'
      BY <2>0, <2>11 DEF CloseStep, CloseReturns, CloseStops, CloseAndWait, CloseEnds,
                         TypeOK, data, channels, clock
    <2>12. CASE UNCHANGED vars
      BY <2>0, <2>12 DEF vars, code, data, channels, clock, TypeOK
    <2> QED
      BY <2>1, <2>2, <2>3, <2>4, <2>5, <2>6, <2>7, <2>8, <2>9, <2>10, <2>11, <2>12
         DEF Next, CallbackStep
  <1> QED
    BY <1>1, <1>2, PTL DEF Spec

\* A step that leaves the lifecycle variables alone leaves Lifecycle alone.
LEMMA LifecycleFrame ==
  ASSUME Lifecycle, UNCHANGED <<started, stopCh, stoppedCh, loop, closer>>
  PROVE  Lifecycle'
  BY DEF Lifecycle, ClosedIsClean, OneCloseOwnsTheChannels, Waiting

\* The inductive invariant, and with it the safety of Close.
THEOREM LifecycleInvariant == Spec => []Lifecycle
  <1>1. Init => Lifecycle
    BY DEF Init, Lifecycle, ClosedIsClean, OneCloseOwnsTheChannels, Waiting
  <1>2. TypeOK /\ Lifecycle /\ [Next]_vars => Lifecycle'
    <2> SUFFICES ASSUME TypeOK, Lifecycle, [Next]_vars PROVE Lifecycle'
      OBVIOUS
    <2>1. CASE ClusterChanges
      BY <2>1, LifecycleFrame DEF ClusterChanges, channels
    <2>2. CASE Elapse
      BY <2>2, LifecycleFrame DEF Elapse, channels
    <2>3. CASE Apply
      BY <2>3, LifecycleFrame DEF Apply, channels
    <2>4. CASE Watch
      BY <2>4 DEF Watch, Lifecycle, ClosedIsClean, OneCloseOwnsTheChannels, Waiting
    <2>5. CASE PollInvalidate
      BY <2>5 DEF PollInvalidate, channels, Lifecycle, ClosedIsClean,
                  OneCloseOwnsTheChannels, Waiting
    <2>6. CASE PollCompare
      BY <2>6 DEF PollCompare, channels, Lifecycle, ClosedIsClean,
                  OneCloseOwnsTheChannels, Waiting
    <2>7. CASE LoopStops
      BY <2>7 DEF LoopStops, Lifecycle, ClosedIsClean, OneCloseOwnsTheChannels, Waiting
    <2>8. ASSUME NEW c \in Callbacks, CallbackStep(c) PROVE Lifecycle'
      BY <2>8, LifecycleFrame DEF CallbackStep, Reload, ReloadFails, Capture, channels
    <2>9. ASSUME NEW k \in Closers, CloseReturns(k) PROVE Lifecycle'
      BY <2>9, LifecycleFrame DEF CloseReturns, channels
    <2>10. ASSUME NEW k \in Closers, CloseStops(k) PROVE Lifecycle'
      <3>1. Waiting = {} /\ Waiting' = {k}
        BY <2>10 DEF CloseStops, CloseAndWait, Lifecycle, Waiting, TypeOK
      <3>2. started /\ started' /\ stopCh' /\ ~stoppedCh /\ ~stoppedCh'
        BY <2>10 DEF CloseStops, CloseAndWait, Lifecycle
      <3> QED
        BY <2>10, <3>1, <3>2 DEF CloseStops, CloseAndWait, Lifecycle, ClosedIsClean,
                                 OneCloseOwnsTheChannels
    <2>11. ASSUME NEW k \in Closers, CloseEnds(k) PROVE Lifecycle'
      <3>1. Waiting = {k} /\ Waiting' = {}
        BY <2>11 DEF CloseEnds, Lifecycle, OneCloseOwnsTheChannels, Waiting, TypeOK
      <3>2. loop' = "none" /\ ~started' /\ ~stopCh' /\ ~stoppedCh'
        BY <2>11 DEF CloseEnds, Lifecycle, ClosedIsClean
      <3> QED
        BY <3>1, <3>2 DEF Lifecycle, ClosedIsClean, OneCloseOwnsTheChannels
    <2>12. CASE UNCHANGED vars
      BY <2>12, LifecycleFrame DEF vars, code, channels
    <2> QED
      BY <2>1, <2>2, <2>3, <2>4, <2>5, <2>6, <2>7, <2>8, <2>9, <2>10, <2>11, <2>12
         DEF Next, CloseStep
  <1> QED
    BY <1>1, <1>2, TypeCorrect, PTL DEF Spec

\* Close never waits on a stoppedCh that nobody is left to close
\* (ClusterState.Close, the receive from stoppedCh).
THEOREM CloseNeverStranded == Spec => []CloseHasALoopToWaitFor
  <1>1. Lifecycle => CloseHasALoopToWaitFor
    BY DEF Lifecycle, CloseHasALoopToWaitFor
  <1> QED
    BY <1>1, LifecycleInvariant, PTL

\* At most one Close closes and recreates the channels at a time.
THEOREM OneCloseAtATime == Spec => []OneCloseOwnsTheChannels
  <1>1. Lifecycle => OneCloseOwnsTheChannels
    BY DEF Lifecycle
  <1> QED
    BY <1>1, LifecycleInvariant, PTL

\* A poll loop is started only when none runs.
THEOREM SingleLoop == Spec => NeverTwoLoops
  <1>1. Lifecycle /\ [Next]_vars => [loop = "none" \/ ~(started' /\ ~started)]_vars
    BY DEF Lifecycle, ClosedIsClean
  <1> QED
    BY <1>1, LifecycleInvariant, PTL DEF Spec, NeverTwoLoops

\* The debounce timer is armed by the loop, and a closed watcher has none.
THEOREM ArmingNeedsStarted == Spec => ArmedOnlyWhileStarted
  <1>1. TypeOK /\ Lifecycle /\ [Next]_vars => [timer' > timer => started]_vars
    <2> SUFFICES ASSUME TypeOK, Lifecycle, [Next]_vars, ~started
                 PROVE  ~(timer' > timer)
      OBVIOUS
    <2>1. loop = "none" /\ Waiting = {}
      BY DEF Lifecycle, ClosedIsClean
    <2>2. timer \in Nat
      BY ConstantsAssumption DEF ConstantsAssumption, TypeOK, CountersTypeOK
    <2>3. timer' = timer \/ timer' = 0 \/ timer' = timer - 1
      BY <2>1 DEF Next, ClusterChanges, Elapse, Apply, Watch, PollInvalidate, PollCompare,
                  LoopStops, CallbackStep, Reload, ReloadFails, Capture, CloseStep,
                  CloseReturns, CloseStops, CloseAndWait, CloseEnds, StopTimer, vars, code, clock
    <2> QED
      BY <2>2, <2>3
  <1> QED
    BY <1>1, TypeCorrect, LifecycleInvariant, PTL DEF Spec, ArmedOnlyWhileStarted
=============================================================================
