---------------------- MODULE ProviderStrategiesProofs ----------------------
(***************************************************************************)
(* What holds of ProviderStrategies for all kubeconfigs, workspaces,       *)
(* resets, calls and bounds.                                               *)
(*                                                                         *)
(* That a call is served by the server of the last reset is a property of  *)
(* steps; it follows from an invariant of the states a call is answered    *)
(* in.  Such a state is one without a holder of p.mu, and what is left     *)
(* there depends on how the last reset ended: Complete says what a reset   *)
(* that did not fail leaves, OneServer why the managers have the server    *)
(* of the fields, and Locked carries both through a reset under way.       *)
(***************************************************************************)
EXTENDS ProviderStrategies, TLAPS

Places == {"idle", "begun", "loaded", "opened", "assigned", "closed"}

CallStates == {"idle", "resolved", "done"}

Outcomes == {"none", "served", "unknown", "error", "crash"}

\* The functions and records behind TypeOK.
Shapes ==
    /\ made \in [Targets -> Servers \cup {Nil}]
    /\ resets \in [Resets -> [at : Places, server : Servers \cup {Nil}]]
    /\ calls \in [Calls -> [at : CallStates, target : Targets \cup {Torn},
                            outcome : Outcomes,
                            server : Servers \cup {Nil}, fresh : BOOLEAN]]

Typed == TypeOK /\ Shapes

Locking == {"loaded", "opened"}

\* A reset of kcp has p.mu from the load of the kubeconfig to the replacement
\* of the managers, and has assigned all the fields.
Locked ==
    /\ strategy = "single" => holder = Nil /\ targets = {Unnamed}
    /\ strategy = "kcp" =>
          /\ \A r \in Resets : resets[r].at \in Locking <=> holder = r
          /\ holder # Nil => default # Unnamed /\ rest # Nil /\ loaded

\* Calls that resolved their target after the last reset.
Recent(c) ==
    calls[c].at = "resolved" /\ calls[c].fresh /\ calls[c].target # Torn

\* What a reset that did not fail leaves.
Complete ==
    ~failed =>
        /\ strategy = "single" => made[Unnamed] # Nil
        /\ strategy = "kcp" /\ holder = Nil =>
              default \in targets /\ rest # Nil /\ loaded
        /\ holder = Nil => \A c \in Calls : Recent(c) =>
                                               calls[c].target \in targets

\* Both readings of the kubeconfig saw one server, and so have all managers.
OneServer ==
    strategy = "kcp" /\ ~disturbed =>
        /\ \A r \in Resets : /\ At(r, "loaded") => base = file.server
                             /\ At(r, "opened") => resets[r].server = base
        /\ ~failed /\ holder = Nil =>
              \A t \in Targets : made[t] \in {Nil, base}

\* A call of the single provider has the one target.
Sole == strategy = "single" => \A c \in Calls : calls[c].target = Unnamed

Consistent == Complete /\ OneServer /\ Sole
-----------------------------------------------------------------------------
(* Types and p.mu.                                                         *)

\* Children are workspaces, and no name of a workspace is empty.
LEMMA ChildrenType == Children \subseteq Workspaces /\ Unnamed \notin Children
  BY FilesAssumption DEF Children

\* At the start all is as a reset that did not fail leaves it.
LEMMA InitTyped == Init => Typed /\ Locked
  <1> SUFFICES ASSUME Init PROVE Typed /\ Locked
    OBVIOUS
  <1> USE FilesAssumption, BoundsAssumption
  <1>1. default \in Targets /\ default \in targets
    BY ChildrenType DEF Init, Targets
  <1>2. TypeOK
    BY <1>1, ChildrenType DEF Init, TypeOK, NoReset, NoCall, Targets, Direct
  <1>3. Shapes
    BY DEF Init, Shapes, NoReset, NoCall, Targets, Places, CallStates, Outcomes
  <1>4. Locked
    BY <1>1, ChildrenType DEF Init, Locked, NoReset, Locking
  <1> QED
    BY <1>2, <1>3, <1>4 DEF Typed

ResetRecords == [at : Places, server : Servers \cup {Nil}]

\* A step of a reset moves that one.
LEMMA StepType ==
  ASSUME Shapes, NEW r \in Resets, NEW place \in Places, Step(r, place)
  PROVE  /\ resets' \in [Resets -> ResetRecords]
         /\ resets'[r] = [at |-> place, server |-> resets[r].server]
         /\ resets'[r].at = place
         /\ \A q \in Resets \ {r} : resets'[q] = resets[q]
  <1>1. resets \in [Resets -> ResetRecords]
    BY DEF Shapes, ResetRecords
  <1>2. resets' = [resets EXCEPT ![r] = [@ EXCEPT !.at = place]]
    BY DEF Step
  <1>3. resets[r] \in ResetRecords
    BY <1>1
  <1>4. [resets[r] EXCEPT !.at = place]
           = [at |-> place, server |-> resets[r].server]
    BY <1>3 DEF ResetRecords
  <1>5. [at |-> place, server |-> resets[r].server] \in ResetRecords
    BY <1>3 DEF ResetRecords
  <1> QED
    BY <1>1, <1>2, <1>4, <1>5

\* ... and so does one that leaves a new record for it.
LEMMA RecordType ==
  ASSUME Shapes, NEW r \in Resets, NEW x \in ResetRecords,
         resets' = [resets EXCEPT ![r] = x]
  PROVE  /\ resets' \in [Resets -> ResetRecords]
         /\ resets'[r] = x
         /\ \A q \in Resets \ {r} : resets'[q] = resets[q]
  BY DEF Shapes, ResetRecords

\* A reset that has ended leaves a record of the type.
LEMMA NoResetType == NoReset \in ResetRecords
  BY DEF NoReset, ResetRecords, Places

CallRecords ==
    [at : CallStates, target : Targets \cup {Torn}, outcome : Outcomes,
     server : Servers \cup {Nil}, fresh : BOOLEAN]

\* A reset of kcp makes calls stale, and does nothing else to them.
LEMMA StaleType ==
  ASSUME Shapes,
         \/ calls' = [c \in Calls |->
               [calls[c] EXCEPT !.fresh = @ /\ default' = default]]
         \/ calls' = [c \in Calls |->
               [calls[c] EXCEPT !.fresh = @ /\ calls[c].target \in targets']]
  PROVE  /\ calls' \in [Calls -> CallRecords]
         /\ \A c \in Calls : /\ calls'[c].at = calls[c].at
                             /\ calls'[c].target = calls[c].target
                             /\ calls'[c].fresh => calls[c].fresh
  <1>1. ASSUME NEW c \in Calls
        PROVE  /\ calls'[c] \in CallRecords
               /\ calls'[c].at = calls[c].at
               /\ calls'[c].target = calls[c].target
               /\ calls'[c].fresh => calls[c].fresh
    <2>1. calls[c] \in CallRecords
      BY DEF Shapes, CallRecords
    <2>2. PICK kept \in BOOLEAN : calls'[c] =
             [calls[c] EXCEPT !.fresh = calls[c].fresh /\ kept]
      OBVIOUS
    <2>3. (calls[c].fresh /\ kept) \in BOOLEAN
      OBVIOUS
    <2> QED
      BY <2>1, <2>2, <2>3 DEF CallRecords
  <1>2. calls' \in [Calls -> CallRecords]
    BY <1>1
  <1> QED
    BY <1>1, <1>2

\* A call is answered, or resolves its target.
LEMMA CallType ==
  ASSUME Shapes, NEW c \in Calls, NEW x \in CallRecords,
         calls' = [calls EXCEPT ![c] = x]
  PROVE  /\ calls' \in [Calls -> CallRecords]
         /\ calls'[c] = x
         /\ \A d \in Calls \ {c} : calls'[d] = calls[d]
  BY DEF Shapes, CallRecords

\* An answer leaves no target.
LEMMA AnswerType ==
  ASSUME Shapes, NEW c \in Calls, NEW outcome \in Outcomes,
         NEW server \in Servers \cup {Nil}, Answer(c, outcome, server)
  PROVE  /\ calls' \in [Calls -> CallRecords]
         /\ calls'[c].at = "done" /\ calls'[c].target = Unnamed
         /\ calls'[c].outcome = outcome
         /\ calls'[c].server = server
         /\ \A d \in Calls \ {c} : calls'[d] = calls[d]
  <1> DEFINE x == [NoCall EXCEPT !.at = "done", !.outcome = outcome,
                                 !.server = server]
  <1>1. calls' = [calls EXCEPT ![c] = x]
    BY DEF Answer
  <1>2. x \in CallRecords /\ x.at = "done" /\ x.target = Unnamed
           /\ x.outcome = outcome /\ x.server = server
    BY DEF NoCall, CallRecords, CallStates, Targets
  <1> QED
    BY <1>1, <1>2, CallType

\* A call that has resolved its target has that one.
LEMMA ResolveType ==
  ASSUME Shapes, NEW c \in Calls, NEW t \in Targets \cup {Torn},
         calls' = [calls EXCEPT ![c] = [NoCall EXCEPT !.at = "resolved",
                                                      !.target = t]]
  PROVE  /\ calls' \in [Calls -> CallRecords]
         /\ calls'[c].at = "resolved"
         /\ calls'[c].target = t
         /\ \A d \in Calls \ {c} : calls'[d] = calls[d]
  <1> DEFINE x == [NoCall EXCEPT !.at = "resolved", !.target = t]
  <1>1. calls' = [calls EXCEPT ![c] = x]
    OBVIOUS
  <1>2. x \in CallRecords /\ x.at = "resolved" /\ x.target = t
    BY DEF NoCall, CallRecords, CallStates, Outcomes
  <1> QED
    BY <1>1, <1>2, CallType

\* Every step keeps the types and who has p.mu.
LEMMA NextTyped == Typed /\ Locked /\ [Next]_vars => Typed' /\ Locked'
  <1> SUFFICES ASSUME Typed, Locked, [Next]_vars
               PROVE  Typed' /\ Locked'
    OBVIOUS
  <1> USE FilesAssumption, BoundsAssumption, ChildrenType
          DEF Typed, TypeOK, Shapes, Places, CallStates, Outcomes, Locked,
              Locking, fields, map, watcher, history, At, Fault, ResetRecords,
              CallRecords
  <1>1. CASE Edit
    BY <1>1 DEF Edit, Direct
  <1>2. CASE TreeChanges
    BY <1>2 DEF TreeChanges, Direct
  <1>3. CASE Poll
    BY <1>3 DEF Poll, Direct
  <1>4. ASSUME NEW r \in Resets, Fire(r)
        PROVE  Typed' /\ Locked'
    <2>1. Step(r, "begun")
      BY <1>4 DEF Fire
    <2>2. /\ resets' \in [Resets -> ResetRecords]
          /\ resets'[r] = [at |-> "begun", server |-> resets[r].server]
          /\ \A q \in Resets \ {r} : resets'[q] = resets[q]
      BY <2>1, StepType
    <2>3. TypeOK'
      BY <1>4, <2>2 DEF Fire, Single
    <2>4. Shapes'
      BY <1>4, <2>2 DEF Fire, Single
    <2>5. Locked'
      BY <1>4, <2>2 DEF Fire, Single
    <2> QED
      BY <2>3, <2>4, <2>5 DEF Fire, Single
  <1>5. ASSUME NEW r \in Resets, SingleOpens(r)
        PROVE  Typed' /\ Locked'
    <2>1. PICK server \in {IF file.readable /\ file.valid THEN file.server
                                                          ELSE Nil} :
             resets' = [resets EXCEPT ![r] = [at |-> "loaded",
                                              server |-> server]]
      BY <1>5 DEF SingleOpens
    <2>2. [at |-> "loaded", server |-> server] \in ResetRecords
      OBVIOUS
    <2>3. /\ resets' \in [Resets -> ResetRecords]
          /\ resets'[r] = [at |-> "loaded", server |-> server]
          /\ \A q \in Resets \ {r} : resets'[q] = resets[q]
      BY <2>1, <2>2, RecordType
    <2> QED
      BY <1>5, <2>3 DEF SingleOpens, Single
  <1>6. ASSUME NEW r \in Resets, SingleAssigns(r)
        PROVE  Typed' /\ Locked'
    <2> DEFINE x == IF failed' THEN NoReset
                    ELSE [resets[r] EXCEPT !.at = "assigned"]
    <2>1. resets' = [resets EXCEPT ![r] = x]
      BY <1>6 DEF SingleAssigns
    <2>2. x \in ResetRecords /\ x.at \in {"idle", "assigned"}
      BY NoResetType DEF NoReset
    <2> HIDE DEF x
    <2>3. /\ resets' \in [Resets -> ResetRecords]
          /\ resets'[r] = x
          /\ \A q \in Resets \ {r} : resets'[q] = resets[q]
      BY <2>1, <2>2, RecordType
    <2>4. /\ made' \in [Targets -> Servers \cup {Nil}]
          /\ \A t \in Targets : made'[t] # Nil => t \in targets
      BY <1>6 DEF SingleAssigns, Single, Targets
    <2> QED
      BY <1>6, <2>2, <2>3, <2>4 DEF SingleAssigns, Single
  <1>7. ASSUME NEW r \in Resets, SingleCloses(r)
        PROVE  Typed' /\ Locked'
    <2>1. Step(r, "closed")
      BY <1>7 DEF SingleCloses
    <2>2. /\ resets' \in [Resets -> ResetRecords]
          /\ resets'[r] = [at |-> "closed", server |-> resets[r].server]
          /\ \A q \in Resets \ {r} : resets'[q] = resets[q]
      BY <2>1, StepType
    <2> QED
      BY <1>7, <2>2 DEF SingleCloses, Single
  <1>8. ASSUME NEW r \in Resets, SingleWatches(r)
        PROVE  Typed' /\ Locked'
    <2>1. /\ resets' \in [Resets -> ResetRecords]
          /\ resets'[r] = NoReset
          /\ \A q \in Resets \ {r} : resets'[q] = resets[q]
      BY <1>8, RecordType, NoResetType DEF SingleWatches
    <2> QED
      BY <1>8, <2>1 DEF SingleWatches, Single, Kcp, NoReset, Direct
  <1>9. ASSUME NEW r \in Resets, KcpLoads(r)
        PROVE  Typed' /\ Locked'
    <2>1. calls' \in [Calls -> CallRecords]
      <3>1. CASE UNCHANGED calls
        BY <3>1
      <3>2. CASE ~UNCHANGED calls
        BY <1>9, <3>2, StaleType DEF KcpLoads
      <3> QED
        BY <3>1, <3>2
    <2>4. /\ strategy = "kcp" /\ At(r, "begun") /\ holder = Nil
          /\ {base', rest'} \subseteq Servers \cup {Nil} /\ base' # Nil
          /\ default' \in Targets /\ loaded' \in BOOLEAN
          /\ {disturbed', failed'} \subseteq BOOLEAN
          /\ UNCHANGED <<strategy, file, tree, map, watcher, missed>>
      <3>1. /\ strategy = "kcp" /\ At(r, "begun") /\ holder = Nil
            /\ disturbed' \in BOOLEAN
            /\ UNCHANGED <<strategy, file, tree, map, watcher, missed>>
        BY <1>9 DEF KcpLoads, Kcp
      <3>2. loaded' \in BOOLEAN
        BY <1>9 DEF KcpLoads
      <3>3. /\ {base', rest'} \subseteq Servers \cup {Nil} /\ base' # Nil
            /\ default' \in Targets
        BY <1>9 DEF KcpLoads, Fails, ParseServerURL
      <3>4. failed' \in BOOLEAN
        BY <1>9 DEF KcpLoads, Fails
      <3> QED
        BY <3>1, <3>2, <3>3, <3>4
    <2>2. CASE Fails(r)
      <3>1. /\ resets' \in [Resets -> ResetRecords]
            /\ resets'[r] = NoReset
            /\ \A q \in Resets \ {r} : resets'[q] = resets[q]
        BY <2>2, RecordType, NoResetType DEF Fails
      <3> QED
        BY <2>1, <2>2, <2>4, <3>1 DEF Fails, NoReset
    <2>3. CASE Step(r, "loaded") /\ holder' = r
      <3>1. /\ resets' \in [Resets -> ResetRecords]
            /\ resets'[r] = [at |-> "loaded", server |-> resets[r].server]
            /\ \A q \in Resets \ {r} : resets'[q] = resets[q]
        BY <2>3, StepType
      <3>2. default' # Unnamed /\ rest' # Nil /\ loaded'
        BY <1>9, <2>3 DEF KcpLoads, Fails, ParseServerURL
      <3> QED
        BY <2>1, <2>3, <2>4, <3>1, <3>2
    <2> QED
      BY <1>9, <2>2, <2>3 DEF KcpLoads
  <1>10. ASSUME NEW r \in Resets, KcpOpens(r)
        PROVE  Typed' /\ Locked'
    <2>1. CASE Fails(r)
      <3>1. /\ resets' \in [Resets -> ResetRecords]
            /\ resets'[r] = NoReset
            /\ \A q \in Resets \ {r} : resets'[q] = resets[q]
        BY <2>1, RecordType, NoResetType DEF Fails
      <3> QED
        BY <1>10, <2>1, <3>1 DEF KcpOpens, Kcp, Fails, NoReset
    <2>2. CASE ~Fails(r)
      <3>1. resets' = [resets EXCEPT ![r] = [at |-> "opened",
                                             server |-> file.server]]
        BY <1>10, <2>2 DEF KcpOpens
      <3>2. [at |-> "opened", server |-> file.server] \in ResetRecords
        OBVIOUS
      <3>3. /\ resets' \in [Resets -> ResetRecords]
            /\ resets'[r] = [at |-> "opened", server |-> file.server]
            /\ \A q \in Resets \ {r} : resets'[q] = resets[q]
        BY <3>1, <3>2, RecordType
      <3> QED
        BY <1>10, <2>2, <3>3 DEF KcpOpens, Kcp
    <2> QED
      BY <2>1, <2>2
  <1>11. ASSUME NEW r \in Resets, KcpDiscovers(r)
        PROVE  Typed' /\ Locked'
    <2>1. Step(r, "closed")
      BY <1>11 DEF KcpDiscovers
    <2>2. /\ resets' \in [Resets -> ResetRecords]
          /\ resets'[r] = [at |-> "closed", server |-> resets[r].server]
          /\ \A q \in Resets \ {r} : resets'[q] = resets[q]
      BY <2>1, StepType
    <2>3. calls' \in [Calls -> CallRecords]
      BY <1>11, StaleType DEF KcpDiscovers
    <2>4. holder = r /\ default # Unnamed /\ default \in Targets
      BY <1>11 DEF KcpDiscovers, Kcp
    <2>5. /\ targets' \subseteq Targets /\ Unnamed \notin targets'
          /\ default \in targets'
      BY <1>11, <2>4 DEF KcpDiscovers, Fault, Direct, Targets
    <2>6. /\ made' \in [Targets -> Servers \cup {Nil}]
          /\ \A t \in Targets : made'[t] # Nil => t \in targets'
      BY <1>11, <2>5 DEF KcpDiscovers, ManagersFor
    <2>7. /\ strategy = "kcp" /\ missed' \in BOOLEAN /\ holder' = Nil
          /\ {failed', watching', armed'} \subseteq BOOLEAN
          /\ UNCHANGED <<strategy, file, tree, fields, known, disturbed>>
      <3>1. missed' \in BOOLEAN
        BY <1>11 DEF KcpDiscovers
      <3> QED
        BY <1>11, <3>1 DEF KcpDiscovers, Kcp
    <2>8. Typed'
      BY <2>2, <2>3, <2>4, <2>5, <2>6, <2>7
    <2>9. Locked'
      BY <2>2, <2>4, <2>5, <2>7
    <2> QED
      BY <2>8, <2>9
  <1>12. ASSUME NEW r \in Resets, KcpWatches(r)
        PROVE  Typed' /\ Locked'
    <2>1. /\ resets' \in [Resets -> ResetRecords]
          /\ resets'[r] = NoReset
          /\ \A q \in Resets \ {r} : resets'[q] = resets[q]
      BY <1>12, RecordType, NoResetType DEF KcpWatches
    <2> QED
      BY <1>12, <2>1 DEF KcpWatches, Single, Kcp, NoReset, Direct
  <1>13. ASSUME NEW c \in Calls, Resolve(c)
        PROVE  Typed' /\ Locked'
    <2>1. PICK t \in Targets \cup {Torn} :
             calls' = [calls EXCEPT ![c] = [NoCall EXCEPT !.at = "resolved",
                                                          !.target = t]]
      <3>1. PICK t \in IF strategy = "single" THEN {Unnamed}
                       ELSE targets \cup {default} \cup
                            {Torn : q \in {q \in Resets : At(q, "begun")}} :
               calls' = [calls EXCEPT ![c] = [NoCall EXCEPT !.at = "resolved",
                                                            !.target = t]]
        BY <1>13 DEF Resolve
      <3>2. t \in Targets \cup {Torn}
        BY <3>1 DEF Targets
      <3> QED
        BY <3>1, <3>2
    <2>2. calls' \in [Calls -> CallRecords]
      BY <2>1, ResolveType
    <2> QED
      BY <1>13, <2>2 DEF Resolve
  <1>14. ASSUME NEW c \in Calls, Serve(c)
        PROVE  Typed' /\ Locked'
    <2>1. PICK outcome \in Outcomes, server \in Servers \cup {Nil} :
             Answer(c, outcome, server)
      BY <1>14 DEF Serve, Knows
    <2>2. calls' \in [Calls -> CallRecords]
      BY <2>1, AnswerType
    <2>3. /\ made' \in [Targets -> Servers \cup {Nil}]
          /\ \A t \in Targets : made'[t] # Nil => t \in targets
      BY <1>14 DEF Serve, Knows
    <2>4. loaded' \in BOOLEAN
      BY <1>14 DEF Serve
    <2>5. /\ holder = Nil
          /\ UNCHANGED <<strategy, file, tree, base, default, rest, targets,
                         holder, resets, watcher, history>>
      BY <1>14, Zenon DEF Serve
    <2> QED
      BY <2>2, <2>3, <2>4, <2>5
  <1>15. CASE UNCHANGED vars
    BY <1>15 DEF vars
  <1> QED
    BY <1>1, <1>2, <1>3, <1>4, <1>5, <1>6, <1>7, <1>8, <1>9, <1>10,
       <1>11, <1>12, <1>13, <1>14, <1>15 DEF Next, ResetStep

\* The types, and p.mu to one reset of kcp.
THEOREM TypeInvariant == Spec => [](Typed /\ Locked)
  <1> QED
    BY InitTyped, NextTyped, PTL DEF Spec

\* What every variable holds, and that the managers are those of targets.
THEOREM TypeCorrect == Spec => []TypeOK
  <1>1. Typed => TypeOK
    BY DEF Typed
  <1> QED
    BY <1>1, TypeInvariant, PTL
-----------------------------------------------------------------------------
(* What a reset leaves.                                                    *)

\* The first reset did not fail.
LEMMA InitConsistent == Init => Consistent
  <1> SUFFICES ASSUME Init PROVE Consistent
    OBVIOUS
  <1> USE FilesAssumption DEF Init
  <1>1. default \in Targets /\ default \in targets
    BY ChildrenType DEF Targets
  <1>2. Complete
    BY <1>1 DEF Complete, Recent, NoCall
  <1>3. OneServer
    BY <1>1 DEF OneServer, At, NoReset
  <1>4. Sole
    BY DEF Sole, NoCall
  <1> QED
    BY <1>2, <1>3, <1>4 DEF Consistent

\* Steps of no reset of kcp that make or replace no manager, and answer or
\* resolve no call.
LEMMA Undisturbed ==
  ASSUME Typed, Consistent,
         UNCHANGED <<strategy, file, fields, map, holder, calls, failed,
                     disturbed>>,
         \A q \in Resets : \/ resets'[q] = resets[q]
                           \/ resets'[q].at \notin Locking
  PROVE  Consistent'
  <1>1. Complete'
    BY DEF Consistent, Complete, Recent, fields, map
  <1>2. OneServer'
    BY DEF Consistent, OneServer, At, Locking, fields, map
  <1>3. Sole'
    BY DEF Consistent, Sole
  <1> QED
    BY <1>1, <1>2, <1>3 DEF Consistent

\* Every step of every reset and call keeps it.
LEMMA NextConsistent ==
  ASSUME Typed, Locked, Consistent, [Next]_vars
  PROVE  Consistent'
  <1> USE FilesAssumption DEF At
  <1>1. CASE Edit
    <2>1. Complete' /\ Sole'
      BY <1>1 DEF Edit, Consistent, Complete, Recent, Sole, fields, map
    <2>2. OneServer'
      BY <1>1 DEF Edit, Consistent, OneServer, fields, map, Typed, TypeOK
    <2> QED
      BY <2>1, <2>2 DEF Consistent
  <1>2. CASE TreeChanges \/ Poll
    BY <1>2, Undisturbed DEF TreeChanges, Poll, history, fields, map
  <1>3. ASSUME NEW r \in Resets, Fire(r)
        PROVE  Consistent'
    <2>1. Step(r, "begun")
      BY <1>3 DEF Fire
    <2>2. \A q \in Resets : \/ resets'[q] = resets[q]
                            \/ resets'[q].at \notin Locking
      BY <2>1, StepType DEF Typed, Places, Locking
    <2>3. UNCHANGED <<strategy, file, fields, map, holder, calls, failed,
                      disturbed>>
      BY <1>3 DEF Fire, history
    <2> QED
      BY <2>2, <2>3, Undisturbed
  <1>4. ASSUME NEW r \in Resets, \/ SingleOpens(r) \/ SingleCloses(r)
                                 \/ SingleWatches(r)
        PROVE  Consistent'
    <2>1. /\ strategy = "single"
          /\ UNCHANGED <<strategy, fields, map, holder, calls, failed>>
      BY <1>4 DEF SingleOpens, SingleCloses, SingleWatches, Single, history
    <2>2. Complete' /\ OneServer' /\ Sole'
      BY <2>1 DEF Consistent, Complete, Recent, OneServer, Sole, fields, map
    <2> QED
      BY <2>2 DEF Consistent
  <1>5. ASSUME NEW r \in Resets, SingleAssigns(r)
        PROVE  Consistent'
    <2>1. /\ strategy = "single" /\ targets = {Unnamed} /\ holder = Nil
          /\ UNCHANGED <<strategy, fields, targets, holder, calls>>
      BY <1>5 DEF SingleAssigns, Single, Locked
    <2>2. ~failed' => made'[Unnamed] # Nil
      BY <1>5 DEF SingleAssigns, Typed, Shapes, Targets
    <2>3. Complete' /\ OneServer' /\ Sole'
      BY <2>1, <2>2 DEF Consistent, Complete, Recent, OneServer, Sole
    <2> QED
      BY <2>3 DEF Consistent
  <1>6. ASSUME NEW r \in Resets, KcpLoads(r)
        PROVE  Consistent'
    <2>1. /\ strategy = "kcp" /\ strategy' = "kcp" /\ holder = Nil
          /\ UNCHANGED <<file, map>>
      BY <1>6 DEF KcpLoads, Kcp
    <2>2. CASE Fails(r)
      <3>1. failed'
        BY <2>2 DEF Fails
      <3>2. /\ resets'[r] = NoReset
            /\ \A q \in Resets \ {r} : resets'[q] = resets[q]
        BY <2>2, RecordType, NoResetType DEF Fails, Typed
      <3>3. \A q \in Resets : resets'[q].at \notin Locking
        BY <2>1, <3>2 DEF Locked, NoReset, Locking
      <3> QED
        BY <2>1, <3>1, <3>3 DEF Consistent, Complete, OneServer, Sole, Locking
    <2>3. CASE Step(r, "loaded") /\ holder' = r
      <3>1. /\ resets'[r].at = "loaded"
            /\ \A q \in Resets \ {r} : resets'[q] = resets[q]
        BY <2>3, StepType DEF Typed, Places
      <3>2. \A q \in Resets \ {r} : resets'[q].at \notin Locking
        BY <2>1, <3>1 DEF Locked
      <3>3. base' = file.server /\ holder' # Nil
        BY <1>6, <2>3 DEF KcpLoads, Fails, ParseServerURL
      <3> QED
        BY <2>1, <3>1, <3>2, <3>3 DEF Consistent, Complete, OneServer, Sole,
           Locking
    <2> QED
      BY <1>6, <2>2, <2>3 DEF KcpLoads
  <1>7. ASSUME NEW r \in Resets, KcpOpens(r)
        PROVE  Consistent'
    <2>1. /\ strategy = "kcp" /\ holder = r /\ resets[r].at = "loaded"
          /\ UNCHANGED <<strategy, file, fields, map, calls, disturbed>>
      BY <1>7 DEF KcpOpens, Kcp, Locked, Locking
    <2>2. CASE Fails(r)
      <3>1. failed'
        BY <2>2 DEF Fails
      <3>2. /\ resets'[r] = NoReset
            /\ \A q \in Resets \ {r} : resets'[q] = resets[q]
        BY <2>2, RecordType, NoResetType DEF Fails, Typed
      <3>3. \A q \in Resets : resets'[q].at \notin Locking
        BY <2>1, <3>2 DEF Locked, NoReset, Locking
      <3> QED
        BY <2>1, <3>1, <3>3 DEF Consistent, Complete, OneServer, Sole, Locking
    <2>3. CASE ~Fails(r)
      <3> DEFINE x == [at |-> "opened", server |-> file.server]
      <3>1. /\ resets' = [resets EXCEPT ![r] = x] /\ UNCHANGED holder
        BY <1>7, <2>3 DEF KcpOpens
      <3>2. x \in ResetRecords
        BY DEF ResetRecords, Typed, TypeOK, Places
      <3>3. /\ resets'[r] = x
            /\ \A q \in Resets \ {r} : resets'[q] = resets[q]
        BY <3>1, <3>2, RecordType DEF Typed
      <3>4. \A q \in Resets \ {r} : resets'[q].at \notin Locking
        BY <2>1, <3>3 DEF Locked
      <3>5. ~disturbed => base = file.server
        BY <2>1 DEF Consistent, OneServer
      <3> QED
        BY <2>1, <3>1, <3>3, <3>4, <3>5 DEF Consistent, Complete, OneServer,
           Sole, Locking, fields, Typed, TypeOK
    <2> QED
      BY <2>2, <2>3
  <1>8. ASSUME NEW r \in Resets, KcpDiscovers(r)
        PROVE  Consistent'
    <2>1. /\ strategy = "kcp" /\ holder = r /\ resets[r].at = "opened"
          /\ UNCHANGED <<strategy, file, fields, disturbed>>
      BY <1>8 DEF KcpDiscovers, Kcp, Locked, Locking
    <2>2. rest # Nil /\ loaded /\ default \in targets'
      BY <1>8, <2>1 DEF KcpDiscovers, Locked, Typed, TypeOK
    <2>3. ASSUME NEW c \in Calls, Recent(c)'
          PROVE  calls'[c].target \in targets'
      <3> DEFINE y == calls[c].fresh /\ calls[c].target \in targets'
      <3>1. calls'[c] = [calls[c] EXCEPT !.fresh = y]
        BY <1>8 DEF KcpDiscovers
      <3>2. calls[c] \in CallRecords
        BY DEF Typed, Shapes, CallRecords
      <3>3. y => calls[c].target \in targets'
        OBVIOUS
      <3> HIDE DEF y
      <3> QED
        BY <2>3, <3>1, <3>2, <3>3 DEF Recent, CallRecords
    <2>4. \A q \in Resets : resets'[q].at \notin Locking
      <3>1. /\ resets'[r].at = "closed"
            /\ \A q \in Resets \ {r} : resets'[q] = resets[q]
        BY <1>8, StepType DEF KcpDiscovers, Typed, Places
      <3> QED
        BY <2>1, <3>1 DEF Locked, Locking
    <2>5. ~disturbed => \A t \in Targets : made'[t] \in {Nil, base}
      BY <1>8, <2>1 DEF KcpDiscovers, ManagersFor, Consistent, OneServer
    <2> QED
      BY <2>1, <2>2, <2>3, <2>4, <2>5 DEF Consistent, Complete, OneServer,
         Sole, Locking, fields
  <1>9. ASSUME NEW r \in Resets, KcpWatches(r)
        PROVE  Consistent'
    <2>1. \A q \in Resets : \/ resets'[q] = resets[q]
                            \/ resets'[q].at \notin Locking
      BY <1>9, RecordType, NoResetType DEF KcpWatches, Typed, NoReset, Locking
    <2>2. UNCHANGED <<strategy, file, fields, map, holder, calls, failed,
                      disturbed>>
      BY <1>9 DEF KcpWatches, history
    <2> QED
      BY <2>1, <2>2, Undisturbed
  <1>10. ASSUME NEW c \in Calls, Resolve(c)
        PROVE  Consistent'
    <2>1. PICK t \in IF strategy = "single" THEN {Unnamed}
                     ELSE targets \cup {default} \cup
                          {Torn : q \in {q \in Resets : At(q, "begun")}} :
             calls' = [calls EXCEPT ![c] = [NoCall EXCEPT !.at = "resolved",
                                                          !.target = t]]
      BY <1>10 DEF Resolve
    <2>2. t \in Targets \cup {Torn}
      BY <2>1 DEF Targets, Typed, TypeOK
    <2>3. /\ calls'[c].target = t
          /\ \A d \in Calls \ {c} : calls'[d] = calls[d]
      BY <2>1, <2>2, ResolveType DEF Typed
    <2>4. UNCHANGED <<strategy, file, fields, map, holder, resets, failed,
                      disturbed>>
      BY <1>10 DEF Resolve, history
    <2>5. Complete'
      BY <2>1, <2>3, <2>4 DEF Consistent, Complete, Recent, Locked, Typed,
         TypeOK, fields, map
    <2>6. OneServer' /\ Sole'
      BY <2>1, <2>3, <2>4 DEF Consistent, OneServer, Sole, fields, map
    <2> QED
      BY <2>5, <2>6 DEF Consistent
  <1>11. ASSUME NEW c \in Calls, Serve(c)
        PROVE  Consistent'
    <2>1. PICK outcome \in Outcomes, server \in Servers \cup {Nil} :
             Answer(c, outcome, server)
      BY <1>11 DEF Serve, Knows, Outcomes, Typed, TypeOK
    <2>2. /\ calls'[c].at = "done" /\ calls'[c].target = Unnamed
          /\ \A d \in Calls \ {c} : calls'[d] = calls[d]
      BY <2>1, AnswerType DEF Typed
    <2>3. /\ holder = Nil
          /\ UNCHANGED <<strategy, file, base, default, rest, targets,
                         holder, resets, failed, disturbed>>
      BY <1>11, Zenon DEF Serve, history
    <2>4. UNCHANGED <<made, loaded>> \/ (loaded' /\ strategy = "kcp" /\
             \E t \in Targets : made' = [made EXCEPT ![t] = base])
      BY <1>11 DEF Serve, Knows, Typed, TypeOK
    <2>5. Complete'
      BY <2>2, <2>3, <2>4 DEF Consistent, Complete, Recent
    <2>6. OneServer' /\ Sole'
      BY <2>2, <2>3, <2>4 DEF Consistent, OneServer, Sole, Typed, Shapes
    <2> QED
      BY <2>5, <2>6 DEF Consistent
  <1>12. CASE UNCHANGED vars
    BY <1>12, Undisturbed DEF vars, history, fields, map
  <1> QED
    BY <1>1, <1>2, <1>3, <1>4, <1>5, <1>6, <1>7, <1>8, <1>9, <1>10, <1>11,
       <1>12 DEF Next, ResetStep

\* A call that is answered is answered by Serve, while no reset has p.mu: a
\* recent one has a target that is offered, whose manager is there or can be
\* made.
LEMMA ServedStep ==
  ASSUME Typed, Locked, Consistent, [Next]_vars,
         NEW c \in Calls,
         calls[c].at = "resolved", calls'[c].at = "done",
         calls[c].fresh, calls[c].target # Torn, ~failed, ~disturbed
  PROVE  calls'[c].outcome = "served" /\ calls'[c].server = Loaded
  <1> DEFINE t == calls[c].target
  <1>1. Serve(c)
    <2>1. CASE UNCHANGED calls
      BY <2>1
    <2>2. ASSUME NEW r \in Resets, KcpLoads(r) \/ KcpDiscovers(r)
          PROVE  FALSE
      <3>1. CASE UNCHANGED calls
        BY <3>1
      <3>2. CASE ~UNCHANGED calls
        BY <2>2, <3>2, StaleType DEF KcpLoads, KcpDiscovers, Typed
      <3> QED
        BY <3>1, <3>2
    <2>3. ASSUME NEW d \in Calls, Resolve(d)
          PROVE  FALSE
      <3>1. PICK u \in Targets \cup {Torn} :
               calls' = [calls EXCEPT ![d] = [NoCall EXCEPT !.at = "resolved",
                                                            !.target = u]]
        BY <2>3 DEF Resolve, Targets, Typed, TypeOK
      <3> QED
        BY <3>1, ResolveType DEF Typed
    <2>4. ASSUME NEW d \in Calls, Serve(d)
          PROVE  Serve(c)
      <3>1. PICK outcome \in Outcomes, server \in Servers \cup {Nil} :
               Answer(d, outcome, server)
        BY <2>4 DEF Serve, Knows, Outcomes, Typed, TypeOK
      <3>2. \A e \in Calls \ {d} : calls'[e] = calls[e]
        BY <3>1, AnswerType DEF Typed
      <3> QED
        BY <2>4, <3>2
    <2> QED
      BY <2>1, <2>2, <2>3, <2>4 DEF Next, ResetStep, vars, Edit, TreeChanges,
         Poll, Fire, SingleOpens, SingleAssigns, SingleCloses, SingleWatches,
         KcpOpens, KcpWatches
  <1>2. holder = Nil /\ t \in targets /\ t \in Targets
    BY <1>1 DEF Serve, Consistent, Complete, Recent, Typed, TypeOK
  <1>3. strategy \in {"single", "kcp"}
    BY FilesAssumption DEF Typed, TypeOK
  <1>4. made[t] # Nil => made[t] = Loaded
    <2>1. CASE strategy = "single"
      BY <1>2, <2>1 DEF Locked, Loaded
    <2>2. CASE strategy = "kcp"
      BY <1>2, <2>2 DEF Consistent, OneServer, Loaded
    <2> QED
      BY <1>3, <2>1, <2>2
  <1>5. made[t] = Nil => strategy = "kcp" /\ rest # Nil /\ loaded
    <2>1. CASE strategy = "single"
      BY <1>2, <2>1 DEF Locked, Consistent, Complete
    <2>2. CASE strategy = "kcp"
      BY <1>2, <2>2 DEF Consistent, Complete
    <2> QED
      BY <1>3, <2>1, <2>2
  <1>6. PICK server \in Servers : /\ Answer(c, "served", server)
                                  /\ server = Loaded
    BY <1>1, <1>2, <1>4, <1>5 DEF Serve, Knows, Loaded, Typed, TypeOK
  <1> QED
    BY <1>6, AnswerType DEF Typed, Outcomes

\* Every target that is offered is served by the one server of the last
\* reset, unless that reset failed or the kubeconfig changed between its two
\* readings.
THEOREM RecentCallsServed == Spec => ServedUnlessResetFailed
  <1>1. Typed /\ Locked /\ Consistent /\ [Next]_vars => Consistent'
    BY NextConsistent
  <1>2. Typed /\ Locked /\ Consistent /\ [Next]_vars =>
           [\A c \in Calls :
              /\ calls[c].at = "resolved" /\ calls'[c].at = "done"
              /\ calls[c].fresh /\ calls[c].target # Torn
              /\ ~failed /\ ~disturbed
              => calls'[c].outcome = "served" /\ calls'[c].server = Loaded]_vars
    BY ServedStep
  <1> QED
    BY <1>1, <1>2, InitConsistent, TypeInvariant, PTL
       DEF Spec, ServedUnlessResetFailed
=============================================================================
