----------------------- MODULE ClusterOperationsProofs -----------------------
(***************************************************************************)
(* What calls may do to a cluster, for all callers, settings, roles and    *)
(* arguments, and however the requests of calls, the answers of validators *)
(* and the changes of others interleave.                                   *)
(*                                                                         *)
(* The settings and the roles never change, so the inductive invariants    *)
(* can be stated of every call by itself, and of the store:                *)
(*   - CallInvariant: what steps a call may still take, that its tool was  *)
(*     confirmed, and, while a request is under way, what the access       *)
(*     control has found out about it so far;                              *)
(*   - UpdateInvariant: what a call has read is of the object as it is or  *)
(*     was, and what it has still to update it will have read;             *)
(*   - VMInvariant: the machine of vm_create is as it is asked for.        *)
(***************************************************************************)
EXTENDS ToolProgramsProofs, WellFoundedInduction

-----------------------------------------------------------------------------
(* The invariant of a call.                                                *)

CallFields ==
    {"tool", "todo", "phase", "outcome", "checks", "asked", "unsure", "read",
     "listed", "granted", "answered", "info", "offer", "vm", "confirmed"}

Phases == {"idle", "called", "next", "checking", "sent", "done"}

Outcomes == {Empty, "ok", "accepted", "windows", "error", "nameless"}

\* A call has its fields.
IsCall(call) == call = [f \in CallFields |-> call[f]]

\* The user said yes, or cannot be asked and need not be.
Confirmed(config, answer) ==
    \/ answer
    \/ config.client = "unsupported" /\ config.fallback # "deny"

\* A tool that rules are about was confirmed before its handler began.
ToolConfirmed(call, config) ==
    /\ call.phase \in {"next", "checking", "sent"}
    /\ call.tool \in DOMAIN Tools
    /\ MatchToolLevelRules(config.rules, call.tool,
                           DestructiveHint(call.tool)) # {}
    => Confirmed(config, call.confirmed)

Has(sequence, x) == \E i \in 1..Len(sequence) : sequence[i] = x

\* A validator that is still to be run.
Waits(call, validator) == Has(call.checks, validator)

\* What the validators that were run have found out about the request, and
\* that the review of the roles comes first.
Validated(call, req, config, forbidden) ==
    /\ call.checks \in Seq(ToSet(Validators(config)))
    /\ call.asked \subseteq ToSet(Validators(config))
    /\ call.phase = "sent" => call.checks = <<>>
    /\ \A i \in 2..Len(call.checks) : call.checks[i] # "rbac"
    /\ Waits(call, "rbac") => call.asked = {}
    /\ config.validation => \/ Waits(call, "rbac")
                            \/ call.unsure
                            \/ <<req.verb, req.kind, Empty>> \notin forbidden
    /\ MatchKubeLevelRules(config.rules, req) # {} =>
          \/ Waits(call, "confirmation")
          \/ Confirmed(config, "confirmation" \in call.asked)
    /\ /\ req.verb \in {"create", "update", "patch"}
       /\ req.group = "tekton.dev" /\ req.kind = "PipelineRun"
       /\ req.value = "windows"
       => Waits(call, "eula") \/ "eula" \in call.asked

\* The request that a call has under way.
RequestOK(call, config, forbidden) ==
    LET step == Head(call.todo)
        req  == ValidationRequest(Current(call), config)
    IN /\ call.todo # <<>>
       /\ step.kind \notin {"Absent", "EULA"}
       /\ step.method = "PATCH" => step.named
       /\ step.kind # "Kiali" => /\ req.kind \notin Unserved
                                 /\ IsAllowed(req, config.denied)
       /\ step.kind \in {"Kiali", "Review"} =>
             call.phase = "sent" /\ call.checks = <<>> /\ call.asked = {}
       /\ step.kind \notin {"Kiali", "Review"} =>
             Validated(call, req, config, forbidden)

CallOK(call, config, forbidden, offered) ==
    /\ IsCall(call)
    /\ call.phase \in Phases
    /\ call.outcome \in Outcomes
    /\ call.tool \in offered \cup {Empty}
    /\ call.phase # "idle" => call.tool \in offered
    /\ call.todo \in Seq(StepsOf(call.tool))
    /\ call.confirmed \in BOOLEAN
    /\ call.unsure \in BOOLEAN
    /\ ToolConfirmed(call, config)
    /\ call.phase \notin {"checking", "sent"} =>
          call.checks = <<>> /\ call.asked = {}
    /\ call.phase \in {"checking", "sent"} =>
          RequestOK(call, config, forbidden)

CallInvariant ==
    /\ settings \in Settings
    /\ roles \in Roles
    /\ calls = [c \in Callers |-> calls[c]]
    /\ \A c \in Callers : CallOK(calls[c], settings, roles, Offered)

-----------------------------------------------------------------------------
(* What happens to a call.                                                 *)

\* A call that has no request under way.
LEMMA NoRequest ==
    ASSUME NEW config, NEW forbidden, NEW offered, NEW call,
           IsCall(call),
           call.phase \in {"idle", "called", "next", "done"},
           call.outcome \in Outcomes,
           call.tool \in offered \/ (call.phase = "idle" /\ call.tool = Empty),
           call.todo \in Seq(StepsOf(call.tool)),
           call.confirmed \in BOOLEAN, call.unsure \in BOOLEAN,
           call.phase = "next" => ToolConfirmed(call, config),
           call.checks = <<>>, call.asked = {}
    PROVE  CallOK(call, config, forbidden, offered)
<1>1. call.phase \in Phases /\ call.phase \notin {"checking", "sent"}
  BY DEF Phases
<1>2. call.tool \in offered \cup {Empty}
  OBVIOUS
<1>3. ToolConfirmed(call, config)
  BY DEF ToolConfirmed
<1>. QED  BY <1>1, <1>2, <1>3 DEF CallOK

\* A call that has not begun.
LEMMA IdleCall ==
    ASSUME NEW config, NEW forbidden, NEW offered
    PROVE  CallOK(Idle, config, forbidden, offered)
<1>1. /\ IsCall(Idle) /\ Idle.tool = Empty /\ Idle.phase = "idle"
      /\ Idle.outcome = Empty /\ Idle.todo = <<>> /\ Idle.checks = <<>>
      /\ Idle.asked = {} /\ Idle.unsure = FALSE /\ Idle.confirmed = FALSE
  BY DEF IsCall, CallFields, Idle
<1>2. Idle.todo \in Seq(StepsOf(Idle.tool)) /\ Idle.outcome \in Outcomes
  BY <1>1 DEF Outcomes
<1>. QED  BY <1>1, <1>2, NoRequest

\* A call ends.
LEMMA EndedCall ==
    ASSUME NEW config, NEW forbidden, NEW offered, NEW call,
           CallOK(call, config, forbidden, offered), call.phase # "idle",
           NEW outcome \in Outcomes
    PROVE  CallOK(Ended(call, outcome), config, forbidden, offered)
<1>. DEFINE over == Ended(call, outcome)
<1>1. /\ IsCall(over) /\ over.tool = call.tool /\ over.phase = "done"
      /\ over.outcome = outcome /\ over.todo = <<>> /\ over.checks = <<>>
      /\ over.asked = {} /\ over.unsure = FALSE /\ over.confirmed = FALSE
  BY DEF IsCall, CallFields, Ended, Idle
<1>2. call.tool \in offered
  BY DEF CallOK
<1>. HIDE DEF over
<1>3. over.todo \in Seq(StepsOf(over.tool)) /\ over.outcome \in Outcomes
  BY <1>1
<1>. QED  BY <1>1, <1>2, <1>3, NoRequest DEF over

\* What is remembered of answers can change with a step.
Remembers(after, before) ==
    /\ IsCall(after)
    /\ \A f \in {"tool", "outcome", "confirmed"} : after[f] = before[f]

\* A call goes on to its next step.
LEMMA NextStep ==
    ASSUME NEW config, NEW forbidden, NEW offered, NEW call, NEW after,
           CallOK(call, config, forbidden, offered),
           call.phase \in {"next", "checking", "sent"}, call.todo # <<>>,
           Remembers(after, call),
           after.todo = Tail(call.todo), after.phase = "next",
           after.checks = <<>>, after.asked = {}, after.unsure = FALSE
    PROVE  CallOK(after, config, forbidden, offered)
<1>1. /\ call.tool \in offered /\ call.todo \in Seq(StepsOf(call.tool))
      /\ call.outcome \in Outcomes /\ call.confirmed \in BOOLEAN
      /\ ToolConfirmed(call, config)
  BY DEF CallOK
<1>2. /\ after.tool = call.tool /\ after.confirmed = call.confirmed
      /\ after.outcome = call.outcome /\ IsCall(after)
  BY DEF Remembers
<1>3. after.todo \in Seq(StepsOf(after.tool))
  <2>. DEFINE S == StepsOf(call.tool)
  <2>1. call.todo \in Seq(S)
    BY <1>1
  <2>. HIDE DEF S
  <2>2. Tail(call.todo) \in Seq(S)
    BY <2>1
  <2>. QED  BY <1>2, <2>2 DEF S
<1>4. ToolConfirmed(after, config)
  BY <1>1, <1>2 DEF ToolConfirmed
<1>. QED  BY <1>1, <1>2, <1>3, <1>4, NoRequest

\* The step is left.
LEMMA PoppedCall ==
    ASSUME NEW call, IsCall(call)
    PROVE  /\ Remembers(Popped(call), call)
           /\ Popped(call).todo = Tail(call.todo)
           /\ Popped(call).phase = "next"
           /\ Popped(call).checks = <<>>
           /\ Popped(call).asked = {}
           /\ Popped(call).unsure = FALSE
BY DEF Remembers, IsCall, CallFields, Popped

\* A step that fails ends the call or is left.
LEMMA FailedCall ==
    ASSUME NEW config, NEW forbidden, NEW offered, NEW call,
           CallOK(call, config, forbidden, offered),
           call.phase \in {"next", "checking", "sent"}, call.todo # <<>>
    PROVE  CallOK(Failed(call), config, forbidden, offered)
<1>. DEFINE step == Head(call.todo)
            on   == IF step.kind = "Review" THEN [call EXCEPT !.granted = FALSE]
                    ELSE [call EXCEPT !.answered = FALSE,
                                      !.listed = @ /\ ~IsList(step)]
<1>1. CASE step.must
  <2>1. Failed(call) = Ended(call, "error")
    BY <1>1 DEF Failed
  <2>. QED  BY <2>1, EndedCall DEF Outcomes
<1>2. CASE ~step.must
  <2>1. Failed(call) = Popped(on)
    BY <1>2, Zenon DEF Failed
  <2>2. /\ Remembers(on, call) /\ on.todo = call.todo
    BY DEF CallOK, IsCall, CallFields, Remembers
  <2>. HIDE DEF on
  <2>3. /\ Remembers(Popped(on), on)
        /\ Popped(on).todo = Tail(call.todo)
        /\ Popped(on).phase = "next" /\ Popped(on).checks = <<>>
        /\ Popped(on).asked = {} /\ Popped(on).unsure = FALSE
    BY <2>2, PoppedCall DEF Remembers
  <2>4. Remembers(Popped(on), call)
    BY <2>2, <2>3 DEF Remembers
  <2>. QED  BY <2>1, <2>3, <2>4, NextStep
<1>. QED  BY <1>1, <1>2

-----------------------------------------------------------------------------
(* The request that a call makes.                                          *)

SameRequest(request, step) ==
    /\ \A f \in {"method", "kind", "sub", "named", "path", "args", "must",
                 "when"} : request[f] = step[f]
    /\ step.value # "same" => request.value = step.value
    /\ Writes(request) <=> Writes(step)

\* What a step writes is filled in, and nothing else of it changes.
LEMMA CurrentStep ==
    ASSUME NEW call, Head(call.todo) \in GoodSteps
    PROVE  SameRequest(Current(call), Head(call.todo))
<1>. DEFINE step == Head(call.todo)
            now  == [step EXCEPT !.value = call.read.value]
<1>1. Current(call) = IF step.value = "same" THEN now ELSE step
  BY Zenon DEF Current
<1>2. step \in Steps /\ WellMade(step)
  BY Zenon DEF GoodSteps
<1>3. step.kind = "Kiali" => step.value # "same"
  BY <1>2 DEF WellMade
<1>. HIDE DEF step
<1>4. SameRequest(step, step)
  BY DEF SameRequest
<1>5. /\ now.method = step.method /\ now.kind = step.kind
      /\ now.sub = step.sub /\ now.named = step.named
      /\ now.path = step.path /\ now.args = step.args
      /\ now.must = step.must /\ now.when = step.when
  BY <1>2 DEF Steps
<1>. HIDE DEF now
<1>6. step.value = "same" => SameRequest(now, step)
  <2>1. step.value = "same" => (Writes(now) <=> Writes(step))
    BY <1>3, <1>5 DEF Writes
  <2>. QED  BY <1>5, <2>1 DEF SameRequest
<1>7. CASE step.value = "same"
  BY <1>1, <1>6, <1>7 DEF step
<1>8. CASE step.value # "same"
  BY <1>1, <1>4, <1>8 DEF step
<1>. QED  BY <1>7, <1>8

\* The access control is asked about the request that is made.
LEMMA CurrentReadBack ==
    ASSUME NEW call, Head(call.todo) \in GoodSteps, NEW config \in Settings
    PROVE  /\ ValidationRequest(Current(call), config).value = Current(call).value
           /\ ReadsBack(ValidationRequest(Current(call), config), Head(call.todo))
<1>1. /\ Current(call).path = Head(call.todo).path
      /\ Current(call).method = Head(call.todo).method
  BY CurrentStep DEF SameRequest
<1>2. config.prefix \in Seq(STRING)
  BY SettingsAssumption
<1>. QED  BY <1>1, <1>2, ReadBack

-----------------------------------------------------------------------------
(* The validators.                                                         *)

AllValidators == {"rbac", "schema", "confirmation", "eula"}

\* The elements of a sequence are in it.
LEMMA SequenceOfElements ==
    ASSUME NEW S, NEW s \in Seq(S)
    PROVE  /\ s \in Seq(ToSet(s))
           /\ \A i \in 1..Len(s) : s[i] \in ToSet(s)
<1>1. DOMAIN s = 1..Len(s) /\ Len(s) \in Nat /\ s = [i \in 1..Len(s) |-> s[i]]
  OBVIOUS
<1>2. \A i \in 1..Len(s) : s[i] \in ToSet(s)
  BY <1>1 DEF ToSet
<1>3. [i \in 1..Len(s) |-> s[i]] \in Seq(ToSet(s))
  BY <1>1, <1>2, IsASeq
<1>. QED  BY <1>1, <1>2, <1>3, Zenon

Ordered(sequence, config) ==
    /\ sequence # <<>>
    /\ sequence \in Seq(AllValidators)
    /\ \A i \in 2..Len(sequence) : sequence[i] # "rbac"
    /\ config.validation => Has(sequence, "rbac")
    /\ config.rules # {} => Has(sequence, "confirmation")
    /\ Has(sequence, "eula")

\* Which validators there are; the review of the roles is first.
LEMMA ValidatorsOrdered ==
    ASSUME NEW config
    PROVE  Ordered(Validators(config), config)
<1>. DEFINE V      == Validators(config)
            review == <<"rbac", "schema">>
            ask    == <<"confirmation">>
            eula   == <<"eula">>
<1>0. /\ review \in Seq(AllValidators) /\ ask \in Seq(AllValidators)
      /\ eula \in Seq(AllValidators) /\ <<>> \in Seq(AllValidators)
  BY DEF AllValidators
<1>1. CASE config.validation /\ config.rules # {}
  <2>1. V = review \o ask \o eula
    BY <1>1, Zenon DEF Validators
  <2>. HIDE DEF V
  <2>2. /\ V \in Seq(AllValidators) /\ Len(V) = 4
        /\ V[1] = "rbac" /\ V[2] = "schema"
        /\ V[3] = "confirmation" /\ V[4] = "eula"
    BY <1>0, <2>1
  <2>3. \A i \in 2..Len(V) : V[i] # "rbac"
    BY <2>2
  <2>4. Has(V, "rbac") /\ Has(V, "confirmation") /\ Has(V, "eula")
    BY <2>2 DEF Has
  <2>5. V # <<>>
    BY <2>2
  <2>. QED  BY <2>2, <2>3, <2>4, <2>5 DEF Ordered, V
<1>2. CASE config.validation /\ config.rules = {}
  <2>1. V = review \o eula
    <3>1. V = review \o <<>> \o eula
      BY <1>2, Zenon DEF Validators
    <3>. HIDE DEF review, ask, eula
    <3>. QED  BY <1>0, <3>1, ConcatEmptySeq, Zenon
  <2>. HIDE DEF V
  <2>2. /\ V \in Seq(AllValidators) /\ Len(V) = 3
        /\ V[1] = "rbac" /\ V[2] = "schema"
        /\ V[3] = "eula"
    BY <1>0, <2>1
  <2>3. \A i \in 2..Len(V) : V[i] # "rbac"
    BY <2>2
  <2>. QED  BY <1>2, <2>2, <2>3 DEF Ordered, Has, V
<1>3. CASE ~config.validation /\ config.rules # {}
  <2>1. V = ask \o eula
    <3>1. V = <<>> \o ask \o eula
      BY <1>3, Zenon DEF Validators
    <3>. HIDE DEF review, ask, eula
    <3>. QED  BY <1>0, <3>1, ConcatEmptySeq, Zenon
  <2>. HIDE DEF V
  <2>2. /\ V \in Seq(AllValidators) /\ Len(V) = 2
        /\ V[1] = "confirmation" /\ V[2] = "eula"
    BY <1>0, <2>1
  <2>3. \A i \in 2..Len(V) : V[i] # "rbac"
    BY <2>2
  <2>. QED  BY <1>3, <2>2, <2>3 DEF Ordered, Has, V
<1>4. CASE ~config.validation /\ config.rules = {}
  <2>1. V = <<>> \o <<>> \o eula
    BY <1>4, Zenon DEF Validators
  <2>. HIDE DEF V
  <2>2. /\ V \in Seq(AllValidators) /\ Len(V) = 1
        /\ V[1] = "eula"
    BY <1>0, <2>1
  <2>3. \A i \in 2..Len(V) : V[i] # "rbac"
    BY <2>2
  <2>. QED  BY <1>4, <2>2, <2>3 DEF Ordered, Has, V
<1>. QED  BY <1>1, <1>2, <1>3, <1>4

-----------------------------------------------------------------------------
(* The access control at work.                                             *)

\* A call stays what it is but for its request.
Proceeds(after, call) ==
    /\ IsCall(after)
    /\ \A f \in {"tool", "todo", "outcome", "confirmed", "read"} :
          after[f] = call[f]

\* A call has a request under way.
LEMMA UnderWay ==
    ASSUME NEW config, NEW forbidden, NEW offered, NEW call, NEW after,
           CallOK(call, config, forbidden, offered),
           call.phase \in {"next", "checking", "sent"},
           Proceeds(after, call), after.unsure \in BOOLEAN,
           after.phase \in {"checking", "sent"},
           RequestOK(after, config, forbidden)
    PROVE  CallOK(after, config, forbidden, offered)
<1>1. /\ call.tool \in offered /\ call.todo \in Seq(StepsOf(call.tool))
      /\ call.outcome \in Outcomes /\ call.confirmed \in BOOLEAN
      /\ ToolConfirmed(call, config)
  BY DEF CallOK
<1>2. /\ after.tool = call.tool /\ after.todo = call.todo
      /\ after.outcome = call.outcome /\ after.confirmed = call.confirmed
      /\ IsCall(after)
  BY DEF Proceeds
<1>3. ToolConfirmed(after, config)
  BY <1>1, <1>2 DEF ToolConfirmed
<1>4. after.phase \in Phases /\ after.tool \in offered \cup {Empty}
  BY <1>1, <1>2 DEF Phases
<1>. QED  BY <1>1, <1>2, <1>3, <1>4 DEF CallOK

\* The current request is of the step and of what was read.
LEMMA SameCurrent ==
    ASSUME NEW call, NEW after, Proceeds(after, call)
    PROVE  Current(after) = Current(call)
<1>1. after.todo = call.todo /\ after.read = call.read
  BY DEF Proceeds
<1>. QED  BY <1>1, Zenon DEF Current

\* What the path must say for a request to be sent.
Admitted(call, config) ==
    LET step == Head(call.todo)
        req  == ValidationRequest(Current(call), config)
    IN /\ call.todo # <<>>
       /\ step.kind \notin {"Absent", "EULA"}
       /\ step.method = "PATCH" => step.named
       /\ step.kind # "Kiali" => /\ req.kind \notin Unserved
                                 /\ IsAllowed(req, config.denied)

\* The validators begin.
LEMMA BegunChecks ==
    ASSUME NEW config, NEW forbidden, NEW call,
           Admitted(call, config), call.phase = "checking",
           Head(call.todo).kind \notin {"Kiali", "Review"},
           call.checks = Validators(config), call.asked = {}
    PROVE  RequestOK(call, config, forbidden)
<1>. DEFINE req == ValidationRequest(Current(call), config)
<1>1. Ordered(call.checks, config)
  BY ValidatorsOrdered
<1>2. call.checks \in Seq(ToSet(Validators(config)))
  BY <1>1, SequenceOfElements DEF Ordered
<1>3. MatchKubeLevelRules(config.rules, req) # {} => config.rules # {}
  BY DEF MatchKubeLevelRules
<1>. HIDE DEF req
<1>4. Validated(call, req, config, forbidden)
  BY <1>1, <1>2, <1>3 DEF Validated, Ordered, Waits
<1>. QED  BY <1>4, Zenon DEF RequestOK, Admitted, req

\* The request is sent.
LEMMA ChecksDone ==
    ASSUME NEW config, NEW forbidden, NEW call, NEW after,
           RequestOK(call, config, forbidden), Proceeds(after, call),
           after.phase = "sent", call.phase = "checking",
           call.checks = <<>>, after.checks = <<>>,
           after.asked = call.asked, after.unsure = call.unsure
    PROVE  RequestOK(after, config, forbidden)
<1>. DEFINE req == ValidationRequest(Current(call), config)
<1>1. Current(after) = Current(call) /\ after.todo = call.todo
  BY SameCurrent DEF Proceeds
<1>2. Head(call.todo).kind \notin {"Kiali", "Review"}
  BY DEF RequestOK
<1>3. Validated(call, req, config, forbidden)
  BY <1>2, Zenon DEF RequestOK
<1>. HIDE DEF req
<1>4. Validated(after, req, config, forbidden)
  BY <1>3 DEF Validated, Waits
<1>. QED  BY <1>1, <1>2, <1>4, Zenon DEF RequestOK, req

\* How a confirmation that lets something pass ends.
LEMMA PassedConfirmation ==
    ASSUME NEW config \in Settings, NEW answer \in CheckConfirmation(config),
           answer.pass
    PROVE  Confirmed(config, answer.asked)
<1>1. config.client \in {"none", "unsupported", "supports"}
  BY SettingsAssumption
<1>2. CASE config.client = "none"
  <2>1. answer = Stops
    BY <1>2, Zenon DEF CheckConfirmation
  <2>. QED  BY <2>1 DEF Stops
<1>3. CASE config.client = "unsupported"
  <2>1. answer = IF config.fallback = "deny" THEN Stops ELSE Passes
    BY <1>3 DEF CheckConfirmation
  <2>. QED  BY <1>3, <2>1 DEF Stops, Confirmed
<1>4. CASE config.client = "supports"
  <2>1. answer \in {Accepted, Declined}
    BY <1>4 DEF CheckConfirmation
  <2>. QED  BY <2>1 DEF Accepted, Declined, Confirmed
<1>. QED  BY <1>1, <1>2, <1>3, <1>4

\* What an answer shows that lets a request pass.
Shows(validator, answer, req, config, forbidden) ==
    /\ answer.asked \in BOOLEAN
    /\ validator = "rbac" => answer.asked = FALSE
    /\ /\ validator = "confirmation"
       /\ MatchKubeLevelRules(config.rules, req) # {}
       => Confirmed(config, answer.asked)
    /\ /\ validator = "eula"
       /\ req.verb \in {"create", "update", "patch"}
       /\ req.group = "tekton.dev" /\ req.kind = "PipelineRun"
       /\ req.value = "windows"
       => answer.asked

\* A validator that lets a request pass has found out what it is for.
LEMMA PassedValidator ==
    ASSUME NEW config \in Settings, NEW forbidden, NEW req,
           NEW validator \in AllValidators,
           NEW answer \in Validate(validator, req, config, forbidden),
           answer.pass
    PROVE  Shows(validator, answer, req, config, forbidden)
<1>1. /\ Passes.asked = FALSE /\ Stops.asked = FALSE /\ Stops.pass = FALSE
      /\ Accepted.asked = TRUE /\ Declined.asked = TRUE
      /\ Declined.pass = FALSE
  BY DEF Passes, Stops, Accepted, Declined
<1>2. CASE validator = "rbac"
  <2>1. answer \in {Passes, Stops}
    BY <1>2 DEF Validate, RBACValidator
  <2>. QED  BY <1>1, <1>2, <2>1 DEF Shows
<1>3. CASE validator = "schema"
  <2>1. answer \in {Passes, Stops}
    BY <1>3 DEF Validate, SchemaValidator
  <2>. QED  BY <1>1, <1>3, <2>1 DEF Shows
<1>4. CASE validator = "confirmation"
  <2>1. answer \in ConfirmationValidator(req, config)
    BY <1>4 DEF Validate
  <2>2. CASE MatchKubeLevelRules(config.rules, req) = {}
    <3>1. answer = Passes
      BY <2>1, <2>2 DEF ConfirmationValidator
    <3>. QED  BY <1>1, <1>4, <2>2, <3>1 DEF Shows
  <2>3. CASE MatchKubeLevelRules(config.rules, req) # {}
    <3>1. answer \in CheckConfirmation(config)
      BY <2>1, <2>3 DEF ConfirmationValidator
    <3>2. Confirmed(config, answer.asked)
      BY <3>1, PassedConfirmation
    <3>3. answer \in {Stops, Passes, Accepted, Declined}
      BY <3>1, SettingsAssumption DEF CheckConfirmation
    <3>. QED  BY <1>1, <1>4, <3>2, <3>3 DEF Shows
  <2>. QED  BY <2>2, <2>3
<1>5. CASE validator = "eula"
  <2>. DEFINE installs == /\ req.verb \in {"create", "update", "patch"}
                          /\ req.group = "tekton.dev"
                          /\ req.kind = "PipelineRun"
                          /\ req.value = "windows"
  <2>1. answer \in WindowsEULAValidator(req, config)
    BY <1>5 DEF Validate
  <2>2. CASE installs
    <3>1. answer \in {Accepted, Declined, Stops}
      BY <2>1, <2>2 DEF WindowsEULAValidator, PromptForEULA
    <3>. QED  BY <1>1, <1>5, <3>1 DEF Shows
  <2>3. CASE ~installs
    <3>1. answer = Passes
      BY <2>1, <2>3 DEF WindowsEULAValidator
    <3>. QED  BY <1>1, <1>5, <2>3, <3>1 DEF Shows
  <2>. QED  BY <2>2, <2>3
<1>. QED  BY <1>2, <1>3, <1>4, <1>5 DEF AllValidators

\* What is in a sequence is its head or in its rest.
LEMMA HeadOrRest ==
    ASSUME NEW S, NEW s \in Seq(S), s # <<>>, NEW x
    PROVE  /\ Has(s, x) => x = Head(s) \/ Has(Tail(s), x)
           /\ (\A i \in 2..Len(s) : s[i] # x) => ~Has(Tail(s), x)
<1>1. /\ Len(s) \in Nat /\ Len(s) > 0 /\ Head(s) = s[1]
      /\ Len(Tail(s)) = Len(s) - 1
      /\ \A i \in 1..Len(Tail(s)) : Tail(s)[i] = s[i + 1]
  BY HeadTailProperties
<1>2. ASSUME NEW i \in 1..Len(s), s[i] = x, x # Head(s)
      PROVE  Has(Tail(s), x)
  <2>1. i - 1 \in 1..Len(Tail(s)) /\ Tail(s)[i - 1] = x
    BY <1>1, <1>2
  <2>. QED  BY <2>1 DEF Has
<1>3. ASSUME \A i \in 2..Len(s) : s[i] # x
      PROVE  ~Has(Tail(s), x)
  <2>1. \A i \in 1..Len(Tail(s)) : i + 1 \in 2..Len(s)
    BY <1>1
  <2>. QED  BY <1>1, <1>3, <2>1 DEF Has
<1>. QED  BY <1>2, <1>3 DEF Has

\* A validator lets the request pass.
LEMMA CheckedOne ==
    ASSUME NEW config \in Settings, NEW forbidden, NEW call, NEW after,
           RequestOK(call, config, forbidden), Proceeds(after, call),
           call.phase = "checking", after.phase = "checking",
           call.checks # <<>>, after.checks = Tail(call.checks),
           NEW req, req = ValidationRequest(Current(call), config),
           NEW validator, validator = Head(call.checks),
           NEW answer \in Validate(validator, req, config, forbidden),
           answer.pass,
           after.asked = IF answer.asked THEN call.asked \cup {validator}
                                         ELSE call.asked,
           call.unsure => after.unsure,
           validator = "rbac" /\ <<req.verb, req.kind, Empty>> \in forbidden
              => after.unsure
    PROVE  RequestOK(after, config, forbidden)
<1>. DEFINE V == ToSet(Validators(config))
<1>1. Head(call.todo).kind \notin {"Kiali", "Review"}
  BY DEF RequestOK
<1>2. Validated(call, req, config, forbidden)
  BY <1>1, Zenon DEF RequestOK
<1>3. call.checks \in Seq(V) /\ call.asked \subseteq V
  BY <1>2 DEF Validated
<1>4. V \subseteq AllValidators
  BY ValidatorsOrdered DEF Ordered, ToSet
<1>. HIDE DEF V
<1>5. validator \in V /\ after.checks \in Seq(V)
  BY <1>3, HeadTailProperties
<1>6. Shows(validator, answer, req, config, forbidden)
  BY <1>4, <1>5, PassedValidator
<1>7. \A x : Has(call.checks, x) => x = validator \/ Has(after.checks, x)
  BY <1>3, HeadOrRest
<1>8. ~Has(after.checks, "rbac") /\ \A i \in 2..Len(after.checks) : after.checks[i] # "rbac"
  <2>1. ~Has(after.checks, "rbac")
    BY <1>2, <1>3, HeadOrRest DEF Validated
  <2>2. \A i \in 2..Len(after.checks) : i \in 1..Len(after.checks)
    BY <1>5
  <2>. QED  BY <2>1, <2>2 DEF Has
<1>9. after.asked \subseteq V /\ call.asked \subseteq after.asked
      /\ (answer.asked => validator \in after.asked)
  BY <1>3, <1>5
<1>10. config.validation => \/ after.unsure
                            \/ <<req.verb, req.kind, Empty>> \notin forbidden
  BY <1>2, <1>7, <1>8 DEF Validated, Waits
<1>11. MatchKubeLevelRules(config.rules, req) # {} =>
          \/ Has(after.checks, "confirmation")
          \/ Confirmed(config, "confirmation" \in after.asked)
  <2>1. \/ MatchKubeLevelRules(config.rules, req) = {}
        \/ Has(call.checks, "confirmation")
        \/ Confirmed(config, "confirmation" \in call.asked)
    BY <1>2 DEF Validated, Waits
  <2>2. Confirmed(config, "confirmation" \in call.asked) =>
           Confirmed(config, "confirmation" \in after.asked)
    BY <1>9 DEF Confirmed
  <2>3. /\ validator = "confirmation"
        /\ MatchKubeLevelRules(config.rules, req) # {}
        => Confirmed(config, "confirmation" \in after.asked)
    BY <1>6, <1>9 DEF Shows, Confirmed
  <2>. QED  BY <1>7, <2>1, <2>2, <2>3
<1>12. /\ req.verb \in {"create", "update", "patch"}
       /\ req.group = "tekton.dev" /\ req.kind = "PipelineRun"
       /\ req.value = "windows"
       => Has(after.checks, "eula") \/ "eula" \in after.asked
  BY <1>2, <1>6, <1>7, <1>9 DEF Validated, Waits, Shows
<1>13. Validated(after, req, config, forbidden)
  BY <1>5, <1>8, <1>9, <1>10, <1>11, <1>12 DEF Validated, Waits, V
<1>14. Current(after) = Current(call) /\ after.todo = call.todo
  BY SameCurrent DEF Proceeds
<1>. QED  BY <1>1, <1>13, <1>14, Zenon DEF RequestOK

-----------------------------------------------------------------------------
(* The steps of the system.                                                *)

\* What holds of the call of a caller that takes a step.
LEMMA CallOf ==
    ASSUME CallInvariant, NEW c \in Callers
    PROVE  /\ settings \in Settings
           /\ IsCall(calls[c])
           /\ CallOK(calls[c], settings, roles, Offered)
           /\ calls[c].phase # "idle" => calls[c].tool \in Offered
           /\ calls[c].todo \in Seq(StepsOf(calls[c].tool))
           /\ calls[c].phase \in {"checking", "sent"} =>
                 RequestOK(calls[c], settings, roles) /\ calls[c].todo # <<>>
           /\ calls[c].phase \notin {"checking", "sent"} =>
                 calls[c].checks = <<>> /\ calls[c].asked = {}
           /\ calls[c].outcome \in Outcomes
           /\ calls[c].unsure \in BOOLEAN /\ calls[c].confirmed \in BOOLEAN
           /\ calls[c].todo # <<>> => Head(calls[c].todo) \in GoodSteps
<1>1. CallOK(calls[c], settings, roles, Offered) /\ settings \in Settings
  BY DEF CallInvariant
<1>2. calls[c].phase \in {"checking", "sent"} =>
         RequestOK(calls[c], settings, roles) /\ calls[c].todo # <<>>
  BY <1>1 DEF CallOK, RequestOK
<1>3. calls[c].todo \in Seq(StepsOf(calls[c].tool))
  BY <1>1 DEF CallOK
<1>4. calls[c].todo # <<>> => Head(calls[c].todo) \in GoodSteps
  <2>1. calls[c].todo # <<>> => Head(calls[c].todo) \in StepsOf(calls[c].tool)
    BY <1>3, HeadTailProperties, Zenon
  <2>. QED  BY <2>1 DEF StepsOf
<1>. QED  BY <1>1, <1>2, <1>3, <1>4 DEF CallOK

\* A step of one caller keeps the invariant when it keeps that of its call.
LEMMA OneCall ==
    ASSUME CallInvariant, UNCHANGED <<settings, roles>>,
           NEW c \in Callers, NEW call, Now(c, call),
           CallOK(call, settings, roles, Offered)
    PROVE  CallInvariant'
<1>1. Offered' = Offered
  BY Zenon DEF Offered, IsToolApplicable
<1>2. calls = [d \in Callers |-> calls[d]] /\ calls' = [calls EXCEPT ![c] = call]
  BY DEF CallInvariant, Now
<1>3. /\ calls' = [d \in Callers |-> calls'[d]]
      /\ \A d \in Callers : calls'[d] = IF d = c THEN call ELSE calls[d]
  BY <1>2
<1>4. \A d \in Callers : CallOK(calls'[d], settings, roles, Offered)
  BY <1>3 DEF CallInvariant
<1>5. settings' \in Settings /\ roles' \in Roles
  BY DEF CallInvariant
<1>. QED  BY <1>1, <1>3, <1>4, <1>5 DEF CallInvariant

\* A step that leaves the calls alone keeps it.
LEMMA NoCall ==
    ASSUME CallInvariant, UNCHANGED <<settings, roles, calls>>
    PROVE  CallInvariant'
<1>1. Offered' = Offered
  BY Zenon DEF Offered, IsToolApplicable
<1>. QED  BY <1>1 DEF CallInvariant

\* A program begins.
LEMMA BegunCall ==
    ASSUME NEW config, NEW forbidden, NEW offered, NEW t \in offered,
           NEW program \in Seq(StepsOf(t))
    PROVE  CallOK(Begun(t, program), config, forbidden, offered)
<1>. DEFINE call == Begun(t, program)
<1>1. /\ IsCall(call) /\ call.tool = t /\ call.todo = program
      /\ call.phase = IF t \in DOMAIN Tools THEN "called" ELSE "next"
      /\ call.outcome = Empty /\ call.checks = <<>> /\ call.asked = {}
      /\ call.unsure = FALSE /\ call.confirmed = FALSE
  BY DEF IsCall, CallFields, Begun, Idle
<1>. HIDE DEF call
<1>2. /\ call.outcome \in Outcomes /\ call.phase \in {"called", "next"}
      /\ call.todo \in Seq(StepsOf(call.tool))
  BY <1>1 DEF Outcomes
<1>3. call.phase = "next" => ToolConfirmed(call, config)
  BY <1>1 DEF ToolConfirmed
<1>. QED  BY <1>1, <1>2, <1>3, NoRequest DEF call

\* A call begins with a program of its tool.
LEMMA CallStep ==
    ASSUME CallInvariant, NEW c \in Callers, Call(c)
    PROVE  CallInvariant'
<1>1. PICK t \in Offered \cap Repertoire[c] :
         \E program \in Programs(t) : Now(c, Begun(t, program))
  BY Zenon DEF Call
<1>2. PICK program \in Programs(t) : Now(c, Begun(t, program))
  BY <1>1
<1>3. t \in DOMAIN Tools \cup DOMAIN Prompts
  BY <1>1 DEF Offered
<1>4. program \in Seq(StepsOf(t))
  BY <1>2, <1>3, ProgramsKeepHints
<1>5. CallOK(Begun(t, program), settings, roles, Offered)
  BY <1>1, <1>4, BegunCall
<1>6. UNCHANGED <<settings, roles>>
  BY Zenon DEF Call
<1>. QED  BY <1>2, <1>5, <1>6, OneCall

\* A call begins as the guide says.
LEMMA GuideStep ==
    ASSUME CallInvariant, NEW c \in Callers, CallAsTheGuideSays(c)
    PROVE  CallInvariant'
<1>. DEFINE t       == "resources_create_or_update"
            program == FollowTheGuide(calls[c].outcome = "accepted")
<1>1. /\ t \in Offered /\ Now(c, Begun(t, program))
      /\ UNCHANGED <<settings, roles>>
  BY Zenon DEF CallAsTheGuideSays
<1>2. program \in Seq(StepsOf(t))
  <2>1. (calls[c].outcome = "accepted") \in BOOLEAN
    OBVIOUS
  <2>. QED  BY <2>1, GuideKeepsHints, Zenon
<1>. HIDE DEF t, program
<1>3. CallOK(Begun(t, program), settings, roles, Offered)
  BY <1>1, <1>2, BegunCall
<1>. QED  BY <1>1, <1>3, OneCall

\* The rules of confirmation are asked about a tool.
LEMMA ConfirmToolStep ==
    ASSUME CallInvariant, NEW c \in Callers, ConfirmTool(c)
    PROVE  CallInvariant'
<1>. DEFINE call == calls[c]
            hint == DestructiveHint(call.tool)
<1>1. call.phase = "called" /\ UNCHANGED <<settings, roles>>
  BY Zenon DEF ConfirmTool
<1>2. PICK answer \in CheckToolRules(settings, call.tool, hint) :
         Now(c, IF ~answer.pass THEN Ended(call, "error")
                ELSE [call EXCEPT !.phase = "next", !.confirmed = answer.asked])
  BY Zenon DEF ConfirmTool
<1>3. CASE ~answer.pass
  <2>1. Now(c, Ended(call, "error"))
    BY <1>2, <1>3, Zenon
  <2>2. CallOK(Ended(call, "error"), settings, roles, Offered)
    BY <1>1, CallOf, EndedCall DEF Outcomes
  <2>. QED  BY <1>1, <2>1, <2>2, OneCall
<1>4. CASE answer.pass
  <2>. DEFINE after == [call EXCEPT !.phase = "next", !.confirmed = answer.asked]
  <2>1. Now(c, after)
    BY <1>2, <1>4, Zenon
  <2>2. IsCall(call)
    BY CallOf
  <2>3. /\ IsCall(after) /\ after.tool = call.tool /\ after.todo = call.todo
        /\ after.phase = "next" /\ after.outcome = call.outcome
        /\ after.checks = call.checks /\ after.asked = call.asked
        /\ after.unsure = call.unsure /\ after.confirmed = answer.asked
    BY <2>2 DEF IsCall, CallFields
  <2>. HIDE DEF after
  <2>4. /\ answer.asked \in BOOLEAN
        /\ MatchToolLevelRules(settings.rules, call.tool, hint) # {} =>
              Confirmed(settings, answer.asked)
    <3>1. CASE MatchToolLevelRules(settings.rules, call.tool, hint) = {}
      <4>1. answer = Passes
        BY <1>2, <3>1 DEF CheckToolRules
      <4>. QED  BY <3>1, <4>1 DEF Passes
    <3>2. CASE MatchToolLevelRules(settings.rules, call.tool, hint) # {}
      <4>1. answer \in CheckConfirmation(settings) /\ settings \in Settings
        BY <1>2, <3>2, CallOf DEF CheckToolRules
      <4>2. answer \in {Stops, Passes, Accepted, Declined}
        BY <4>1, SettingsAssumption DEF CheckConfirmation
      <4>3. answer.asked \in BOOLEAN
        <5>1. /\ Stops.asked = FALSE /\ Passes.asked = FALSE
              /\ Accepted.asked = TRUE /\ Declined.asked = TRUE
          BY DEF Stops, Passes, Accepted, Declined
        <5>. QED  BY <4>2, <5>1
      <4>. QED  BY <1>4, <4>1, <4>3, PassedConfirmation
    <3>. QED  BY <3>1, <3>2
  <2>5. ToolConfirmed(after, settings)
    BY <2>3, <2>4 DEF ToolConfirmed
  <2>6. CallOK(after, settings, roles, Offered)
    BY <1>1, <2>3, <2>4, <2>5, CallOf, NoRequest
  <2>. QED  BY <1>1, <2>1, <2>6, OneCall
<1>. QED  BY <1>3, <1>4

\* A call ends at a step, or when no step is left.
LEMMA EndSteps ==
    ASSUME CallInvariant, NEW c \in Callers,
           \/ Finish(c) \/ Reject(c) \/ RejectNameless(c) \/ AskForTheLicence(c)
    PROVE  CallInvariant'
<1>1. /\ calls[c].phase = "next" /\ UNCHANGED <<settings, roles>>
      /\ \E outcome \in Outcomes : Now(c, Ended(calls[c], outcome))
  <2>1. CASE Finish(c)
    BY <2>1 DEF Finish, Outcomes
  <2>2. CASE Reject(c)
    BY <2>2 DEF Reject, AtStep, Outcomes
  <2>3. CASE RejectNameless(c)
    BY <2>3 DEF RejectNameless, AtStep, Outcomes
  <2>4. CASE AskForTheLicence(c)
    <3>1. settings.client \in {"none", "unsupported", "supports"}
      BY SettingsAssumption DEF CallInvariant
    <3>2. CASE settings.client = "supports"
      BY <2>4, <3>2 DEF AskForTheLicence, AtStep, Outcomes
    <3>3. CASE settings.client = "unsupported"
      BY <2>4, <3>3 DEF AskForTheLicence, AtStep, Outcomes
    <3>4. CASE settings.client = "none"
      BY <2>4, <3>4 DEF AskForTheLicence, AtStep, Outcomes
    <3>. QED  BY <3>1, <3>2, <3>3, <3>4
  <2>. QED  BY <2>1, <2>2, <2>3, <2>4
<1>2. PICK outcome \in Outcomes : Now(c, Ended(calls[c], outcome))
  BY <1>1
<1>3. CallOK(Ended(calls[c], outcome), settings, roles, Offered)
  BY <1>1, CallOf, EndedCall
<1>. QED  BY <1>1, <1>2, <1>3, OneCall

\* A step is left, whatever the call remembers of it.
Leaves(after, call) ==
    /\ Remembers(after, call)
    /\ after.todo = Tail(call.todo) /\ after.phase = "next"
    /\ after.checks = <<>> /\ after.asked = {} /\ after.unsure = FALSE

\* The answers that are remembered.
LEMMA AnsweredCall ==
    ASSUME NEW call, IsCall(call), NEW x, NEW y
    PROVE  /\ Leaves(Popped(call), call)
           /\ Leaves(Answered(call), call)
           /\ Leaves([Popped(call) EXCEPT !.listed = x], call)
           /\ Leaves([Popped(call) EXCEPT !.granted = x], call)
           /\ Leaves([Answered(call) EXCEPT !.read = x], call)
           /\ Leaves([Answered(call) EXCEPT !.read = x, !.info = y], call)
           /\ Leaves([Answered(call) EXCEPT !.listed = x, !.offer = y], call)
<1>. USE DEF Leaves, Remembers, IsCall, CallFields, Popped, Answered
<1>1. Leaves(Popped(call), call) /\ Leaves(Answered(call), call)
  OBVIOUS
<1>2. Leaves([Popped(call) EXCEPT !.listed = x], call)
  OBVIOUS
<1>3. Leaves([Popped(call) EXCEPT !.granted = x], call)
  OBVIOUS
<1>4. Leaves([Answered(call) EXCEPT !.read = x], call)
  OBVIOUS
<1>5. Leaves([Answered(call) EXCEPT !.read = x, !.info = y], call)
  OBVIOUS
<1>6. Leaves([Answered(call) EXCEPT !.listed = x, !.offer = y], call)
  OBVIOUS
<1>. QED  BY <1>1, <1>2, <1>3, <1>4, <1>5, <1>6

\* A step that is left keeps the invariant.
LEMMA LeavingStep ==
    ASSUME CallInvariant, UNCHANGED <<settings, roles>>,
           NEW c \in Callers, NEW after, Now(c, after),
           calls[c].phase \in {"next", "sent"}, calls[c].todo # <<>>,
           Leaves(after, calls[c])
    PROVE  CallInvariant'
<1>1. CallOK(after, settings, roles, Offered)
  BY CallOf, NextStep DEF Leaves
<1>. QED  BY <1>1, OneCall

\* A step is skipped.
LEMMA SkipStep ==
    ASSUME CallInvariant, NEW c \in Callers, Skip(c)
    PROVE  CallInvariant'
<1>1. /\ calls[c].phase = "next" /\ calls[c].todo # <<>>
      /\ UNCHANGED <<settings, roles>>
  BY Zenon DEF Skip, AtStep
<1>2. \E x : Now(c, [Popped(calls[c]) EXCEPT !.listed = x])
  <2>1. Now(c, [Popped(calls[c]) EXCEPT
                   !.listed = @ /\ ~IsList(Head(calls[c].todo))])
    BY Zenon DEF Skip
  <2>. QED  BY <2>1, Zenon
<1>3. PICK x : Now(c, [Popped(calls[c]) EXCEPT !.listed = x])
  BY <1>2
<1>4. Leaves([Popped(calls[c]) EXCEPT !.listed = x], calls[c])
  BY CallOf, AnsweredCall
<1>. QED  BY <1>1, <1>3, <1>4, LeavingStep

\* A call whose request is under way fails.
LEMMA FailureStep ==
    ASSUME CallInvariant, NEW c \in Callers,
           calls[c].phase \in {"next", "checking", "sent"},
           calls[c].todo # <<>>, Now(c, Failed(calls[c])),
           UNCHANGED <<settings, roles>>
    PROVE  CallInvariant'
<1>1. CallOK(Failed(calls[c]), settings, roles, Offered)
  BY CallOf, FailedCall
<1>. QED  BY <1>1, OneCall

\* The API server answers.
LEMMA ServeSteps ==
    ASSUME CallInvariant, NEW c \in Callers,
           \/ ServeFailure(c) \/ ServeGet(c) \/ ServeList(c) \/ ServeCreate(c)
           \/ ServeApply(c) \/ ServeUpdate(c) \/ ServeDelete(c)
    PROVE  CallInvariant'
<1>. DEFINE call == calls[c]
<1>1. call.phase = "sent" /\ UNCHANGED <<settings, roles>>
  BY Zenon DEF ServeFailure, ServeGet, ServeList, ServeCreate, ServeApply,
               ServeUpdate, ServeDelete, Served
<1>2. IsCall(call) /\ call.todo # <<>>
  BY <1>1, CallOf
<1>3. CASE ServeFailure(c)
  <2>1. Now(c, Failed(call))
    BY <1>3, Zenon DEF ServeFailure
  <2>. QED  BY <1>1, <1>2, <2>1, FailureStep
<1>4. ASSUME NEW after, Now(c, after), Leaves(after, call)
      PROVE  CallInvariant'
  BY <1>1, <1>2, <1>4, LeavingStep
<1>5. CASE ServeGet(c)
  <2>1. \E x, y : Now(c, [Answered(call) EXCEPT !.read = x, !.info = y])
    BY <1>5, Zenon DEF ServeGet
  <2>. QED  BY <1>2, <1>4, <2>1, AnsweredCall
<1>6. CASE ServeList(c)
  <2>1. \E x, y : Now(c, [Answered(call) EXCEPT !.listed = x, !.offer = y])
    BY <1>6, Zenon DEF ServeList
  <2>. QED  BY <1>2, <1>4, <2>1, AnsweredCall
<1>7. CASE ServeCreate(c)
  <2>1. \/ \E x : Now(c, [Popped(call) EXCEPT !.granted = x])
        \/ Now(c, Answered(call))
    BY <1>7, Zenon DEF ServeCreate
  <2>. QED  BY <1>2, <1>4, <2>1, AnsweredCall
<1>8. CASE ServeApply(c) \/ ServeDelete(c)
  <2>1. Now(c, Answered(call))
    BY <1>8, Zenon DEF ServeApply, ServeDelete
  <2>. QED  BY <1>2, <1>4, <2>1, AnsweredCall
<1>9. CASE ServeUpdate(c)
  <2>1. \E x : Now(c, [Answered(call) EXCEPT !.read = x])
    BY <1>9, Zenon DEF ServeUpdate
  <2>. QED  BY <1>2, <1>4, <2>1, AnsweredCall
<1>. QED  BY <1>3, <1>5, <1>6, <1>7, <1>8, <1>9

\* A step of a call that stays at its step.
LEMMA StayingStep ==
    ASSUME CallInvariant, UNCHANGED <<settings, roles>>,
           NEW c \in Callers, NEW after, Now(c, after),
           calls[c].phase \in {"next", "checking"},
           Proceeds(after, calls[c]), after.unsure \in BOOLEAN,
           after.phase \in {"checking", "sent"},
           RequestOK(after, settings, roles)
    PROVE  CallInvariant'
<1>1. CallOK(after, settings, roles, Offered)
  BY CallOf, UnderWay
<1>. QED  BY <1>1, OneCall

\* A request is let through by the lists, or is refused.
LEMMA SendStep ==
    ASSUME CallInvariant, NEW c \in Callers, Send(c)
    PROVE  CallInvariant'
<1>. DEFINE call == calls[c]
            step == Current(call)
            req  == ValidationRequest(step, settings)
            refused == req.kind \in Unserved \/ ~IsAllowed(req, settings.denied)
            sent == [call EXCEPT !.phase = "sent"]
            begun(vm) == [call EXCEPT !.phase = "checking", !.vm = vm,
                                      !.checks = Validators(settings)]
<1>1. /\ call.phase = "next" /\ call.todo # <<>>
      /\ step.kind \notin {"Absent", "EULA"}
      /\ step.method = "PATCH" => step.named
      /\ UNCHANGED <<settings, roles>>
  BY Zenon DEF Send, AtStep
<1>2. \/ step.kind = "Kiali" /\ Now(c, sent)
      \/ step.kind # "Kiali" /\ refused /\ Now(c, Failed(call))
      \/ step.kind = "Review" /\ ~refused /\ Now(c, sent)
      \/ /\ step.kind \notin {"Kiali", "Review"} /\ ~refused
         /\ \E vm : Now(c, begun(vm))
  BY Zenon DEF Send
<1>3. /\ IsCall(call) /\ call.asked = {} /\ call.checks = <<>>
      /\ call.unsure \in BOOLEAN
      /\ Head(call.todo) \in GoodSteps
  BY <1>1, CallOf
<1>4. /\ step.kind = Head(call.todo).kind
      /\ step.method = Head(call.todo).method
      /\ step.named = Head(call.todo).named
  BY <1>3, CurrentStep DEF SameRequest
<1>5. ASSUME step.kind # "Kiali" => ~refused
      PROVE  Admitted(call, settings)
  BY <1>1, <1>4, <1>5, Zenon DEF Admitted
<1>6. /\ Proceeds(sent, call) /\ sent.phase = "sent"
      /\ sent.checks = <<>> /\ sent.asked = {} /\ sent.unsure = call.unsure
  BY <1>3 DEF Proceeds, IsCall, CallFields
<1>7. \A vm : /\ Proceeds(begun(vm), call) /\ begun(vm).phase = "checking"
              /\ begun(vm).checks = Validators(settings)
              /\ begun(vm).asked = {} /\ begun(vm).unsure = call.unsure
  BY <1>3 DEF Proceeds, IsCall, CallFields
<1>. HIDE DEF sent, begun, refused
<1>8. ASSUME NEW after, Proceeds(after, call), Admitted(call, settings)
      PROVE  /\ Admitted(after, settings)
             /\ Head(after.todo).kind = step.kind
             /\ after.todo = call.todo
  <2>1. Current(after) = step /\ after.todo = call.todo
    BY <1>8, SameCurrent DEF Proceeds
  <2>. QED  BY <1>4, <1>8, <2>1, Zenon DEF Admitted
<1>9. ASSUME Now(c, sent), Admitted(call, settings), step.kind \in {"Kiali", "Review"}
      PROVE  CallInvariant'
  <2>1. Admitted(sent, settings) /\ Head(sent.todo).kind = step.kind
    BY <1>6, <1>8, <1>9
  <2>2. RequestOK(sent, settings, roles)
    BY <1>6, <1>9, <2>1, Zenon DEF RequestOK, Admitted
  <2>. QED  BY <1>1, <1>3, <1>6, <1>9, <2>2, StayingStep
<1>10. ASSUME NEW vm, Now(c, begun(vm)), Admitted(call, settings),
              step.kind \notin {"Kiali", "Review"}
       PROVE  CallInvariant'
  <2>1. Admitted(begun(vm), settings) /\ Head(begun(vm).todo).kind = step.kind
    BY <1>7, <1>8, <1>10
  <2>2. RequestOK(begun(vm), settings, roles)
    BY <1>7, <1>10, <2>1, BegunChecks
  <2>. QED  BY <1>1, <1>3, <1>7, <1>10, <2>2, StayingStep
<1>11. CASE step.kind = "Kiali" /\ Now(c, sent)
  BY <1>5, <1>9, <1>11
<1>12. CASE step.kind # "Kiali" /\ refused /\ Now(c, Failed(call))
  BY <1>1, <1>12, FailureStep
<1>13. CASE step.kind = "Review" /\ ~refused /\ Now(c, sent)
  BY <1>5, <1>9, <1>13
<1>14. CASE /\ step.kind \notin {"Kiali", "Review"} /\ ~refused
            /\ \E vm : Now(c, begun(vm))
  BY <1>5, <1>10, <1>14
<1>. QED  BY <1>2, <1>11, <1>12, <1>13, <1>14, Zenon

\* A validator is run.
LEMMA CheckStep ==
    ASSUME CallInvariant, NEW c \in Callers, Check(c)
    PROVE  CallInvariant'
<1>. DEFINE call == calls[c]
            req  == ValidationRequest(Current(call), settings)
            v    == Head(call.checks)
            hidden == v = "rbac" /\ <<req.verb, req.kind, Empty>> \in roles
            after(answer) ==
               [call EXCEPT !.checks = Tail(@),
                            !.asked  = IF answer.asked THEN @ \cup {v} ELSE @,
                            !.unsure = \/ @
                                       \/ /\ v = "rbac"
                                          /\ <<req.verb, req.kind, Empty>> \in roles]
<1>1. /\ call.phase = "checking" /\ call.checks # <<>>
      /\ UNCHANGED <<settings, roles>>
  BY Zenon DEF Check
<1>2. PICK answer \in Validate(v, req, settings, roles) :
         Now(c, IF ~answer.pass THEN Failed(call) ELSE after(answer))
  BY Zenon DEF Check
<1>3. /\ IsCall(call) /\ settings \in Settings /\ call.todo # <<>>
      /\ call.unsure \in BOOLEAN
      /\ RequestOK(call, settings, roles)
  BY <1>1, CallOf
<1>4. CASE ~answer.pass
  <2>1. Now(c, Failed(call))
    BY <1>2, <1>4, Zenon
  <2>. QED  BY <1>1, <1>3, <2>1, FailureStep
<1>5. CASE answer.pass
  <2>. DEFINE next == after(answer)
              asked == IF answer.asked THEN call.asked \cup {v} ELSE call.asked
              unsure == \/ call.unsure
                        \/ v = "rbac" /\ <<req.verb, req.kind, Empty>> \in roles
  <2>1. Now(c, next)
    BY <1>2, <1>5, Zenon
  <2>2. next = [call EXCEPT !.checks = Tail(@), !.asked = asked, !.unsure = unsure]
    BY Zenon
  <2>3. /\ unsure \in BOOLEAN
        /\ call.unsure => unsure
        /\ hidden => unsure
    BY <1>3
  <2>. HIDE DEF unsure, asked, next
  <2>4. /\ Proceeds(next, call) /\ next.phase = "checking"
        /\ next.checks = Tail(call.checks)
        /\ next.asked = asked /\ next.unsure = unsure
    BY <1>1, <1>3, <2>2 DEF Proceeds, IsCall, CallFields
  <2>5. RequestOK(next, settings, roles)
    BY <1>1, <1>2, <1>3, <1>5, <2>3, <2>4, CheckedOne DEF asked
  <2>. QED  BY <1>1, <2>1, <2>3, <2>4, <2>5, StayingStep
<1>. QED  BY <1>4, <1>5

\* The validators are done.
LEMMA DelegateStep ==
    ASSUME CallInvariant, NEW c \in Callers, Delegate(c)
    PROVE  CallInvariant'
<1>. DEFINE call == calls[c]
            sent == [call EXCEPT !.phase = "sent"]
<1>1. /\ call.phase = "checking" /\ call.checks = <<>>
      /\ Now(c, sent) /\ UNCHANGED <<settings, roles>>
  BY Zenon DEF Delegate
<1>2. /\ IsCall(call) /\ RequestOK(call, settings, roles)
      /\ call.unsure \in BOOLEAN
  BY <1>1, CallOf
<1>3. /\ Proceeds(sent, call) /\ sent.phase = "sent"
      /\ sent.checks = call.checks /\ sent.asked = call.asked
      /\ sent.unsure = call.unsure
  BY <1>2 DEF Proceeds, IsCall, CallFields
<1>. HIDE DEF sent
<1>4. RequestOK(sent, settings, roles)
  BY <1>1, <1>2, <1>3, ChecksDone
<1>. QED  BY <1>1, <1>2, <1>3, <1>4, StayingStep

\* The invariant is inductive.
THEOREM CallsKeepTheirInvariant == Spec => []CallInvariant
<1>1. ASSUME Init PROVE CallInvariant
  <2>1. /\ settings \in Settings /\ roles \in Roles
        /\ calls = [c \in Callers |-> Idle]
    BY <1>1, Zenon DEF Init
  <2>2. \A c \in Callers : CallOK(calls[c], settings, roles, Offered)
    BY <2>1, IdleCall
  <2>. QED  BY <2>1, <2>2 DEF CallInvariant
<1>2. ASSUME CallInvariant, [Next]_vars PROVE CallInvariant'
  <2>1. ASSUME NEW c \in Callers,
               \/ Call(c) \/ ConfirmTool(c) \/ CallAsTheGuideSays(c)
               \/ Skip(c) \/ Finish(c) \/ Reject(c) \/ RejectNameless(c)
               \/ AskForTheLicence(c)
               \/ Send(c) \/ Check(c) \/ Delegate(c)
               \/ ServeFailure(c) \/ ServeGet(c) \/ ServeList(c)
               \/ ServeCreate(c) \/ ServeApply(c) \/ ServeUpdate(c)
               \/ ServeDelete(c)
        PROVE  CallInvariant'
    BY <1>2, <2>1, CallStep, ConfirmToolStep, GuideStep, SkipStep, EndSteps,
       SendStep, CheckStep, DelegateStep, ServeSteps, Zenon
  <2>2. ASSUME NEW k \in Tracked, Others(k) PROVE CallInvariant'
    BY <1>2, <2>2, NoCall DEF Others
  <2>3. ASSUME UNCHANGED vars PROVE CallInvariant'
    BY <1>2, <2>3, NoCall DEF vars
  <2>. QED  BY <1>2, <2>1, <2>2, <2>3, Zenon DEF Next, Terminated
<1>. QED  BY <1>1, <1>2, PTL DEF Spec

-----------------------------------------------------------------------------
(* What follows.                                                           *)

\* The access control was asked about the request of a call as it is.
LEMMA AskedAsItIs ==
    ASSUME CallInvariant, NEW c \in Callers,
           calls[c].phase \in {"checking", "sent"}
    PROVE  LET step == Head(calls[c].todo)
               req  == ValidationRequest(Current(calls[c]), settings)
           IN /\ step \in GoodSteps
              /\ SameRequest(Current(calls[c]), step)
              /\ req.value = Current(calls[c]).value
              /\ step.kind # "Kiali" =>
                    /\ IsAllowed(req, settings.denied)
                    /\ req.group = Group(step.kind) /\ req.kind = step.kind
                    /\ req.verb = Verb(step)
                    /\ step.named => req.name = "name"
                    /\ Namespaced(step.kind) /\ step.value # "all"
                          => req.namespace = "ns"
              /\ step.kind \in {"Kiali", "Review"} => calls[c].asked = {}
              /\ step.kind \notin {"Kiali", "Review"} =>
                    Validated(calls[c], req, settings, roles)
<1>. DEFINE call == calls[c]
            step == Head(call.todo)
            req  == ValidationRequest(Current(call), settings)
<1>1. /\ step \in GoodSteps /\ RequestOK(call, settings, roles)
      /\ settings \in Settings
  BY CallOf
<1>2. /\ SameRequest(Current(call), step)
      /\ req.value = Current(call).value /\ ReadsBack(req, step)
  BY <1>1, CurrentStep, CurrentReadBack
<1>3. /\ step.kind \notin {"Absent", "EULA"}
      /\ step.method = "PATCH" => step.named
      /\ step.kind # "Kiali" => /\ req.kind \notin Unserved
                                /\ IsAllowed(req, settings.denied)
      /\ step.kind \in {"Kiali", "Review"} => call.asked = {}
      /\ step.kind \notin {"Kiali", "Review"} =>
            Validated(call, req, settings, roles)
  BY <1>1, Zenon DEF RequestOK
<1>4. step.method # "ELICIT"
  BY <1>1, <1>3 DEF GoodSteps, WellMade
<1>. HIDE DEF req, step
<1>5. step.kind # "Kiali" => ~Odd(step.kind, step.sub)
  BY <1>2, <1>3, SubresourcesAssumption DEF ReadsBack
<1>. QED  BY <1>1, <1>2, <1>3, <1>4, <1>5, Zenon DEF ReadsBack, req, step

\* No denied kind is touched, of whatever group, name or subresource, and
\* however the API server's URL begins.
THEOREM DeniedKindsStayUntouched == Spec => []DeniedKindsAreUntouched
<1>1. CallInvariant => DeniedKindsAreUntouched
  <2>. SUFFICES ASSUME CallInvariant, NEW c \in Callers, Sent(c),
                       Current(calls[c]).kind # "Kiali",
                       NEW kind \in {Empty, Current(calls[c]).kind}
                PROVE  [group |-> Group(Current(calls[c]).kind), kind |-> kind]
                          \notin settings.denied
    BY Zenon DEF DeniedKindsAreUntouched
  <2>. DEFINE step == Head(calls[c].todo)
              req  == ValidationRequest(Current(calls[c]), settings)
  <2>1. calls[c].phase = "sent"
    BY DEF Sent
  <2>2. Current(calls[c]).kind = step.kind
    BY <2>1, AskedAsItIs DEF SameRequest
  <2>3. /\ IsAllowed(req, settings.denied)
        /\ req.group = Group(step.kind) /\ req.kind = step.kind
    BY <2>1, <2>2, AskedAsItIs
  <2>. HIDE DEF step, req
  <2>. QED  BY <2>2, <2>3 DEF IsAllowed
<1>. QED  BY <1>1, CallsKeepTheirInvariant, PTL

\* Hints are kept by all tools and prompts on all servers.
THEOREM HintsAreAlwaysKept == Spec => []HintsAreKept
<1>1. CallInvariant => HintsAreKept
  <2>. SUFFICES ASSUME CallInvariant, NEW c \in Callers, Sent(c)
                PROVE  /\ Writes(Current(calls[c])) =>
                             /\ ~settings.readOnly
                             /\ calls[c].tool \notin DOMAIN Prompts
                             /\ ~Tools[calls[c].tool].hints.readOnly
                       /\ Current(calls[c]).method = "DELETE" =>
                             ~settings.disableDestructive
    BY Zenon DEF HintsAreKept
  <2>. DEFINE call == calls[c]
              step == Head(call.todo)
  <2>1. call.phase = "sent"
    BY DEF Sent
  <2>2. /\ Writes(Current(call)) <=> Writes(step)
        /\ Current(call).method = step.method
    BY <2>1, AskedAsItIs DEF SameRequest
  <2>3. /\ call.tool \in Offered /\ call.todo \in Seq(StepsOf(call.tool))
        /\ call.todo # <<>>
    BY <2>1, CallOf
  <2>4. step \in StepsOf(call.tool)
    BY <2>3, HeadTailProperties, Zenon
  <2>5. /\ Writes(step) => /\ call.tool \in DOMAIN Tools
                           /\ ~Tools[call.tool].hints.readOnly
        /\ step.method = "DELETE" => /\ call.tool \in DOMAIN Tools
                                     /\ Tools[call.tool].hints.destructive
    BY <2>4, Zenon DEF StepsOf
  <2>6. call.tool \in DOMAIN Tools =>
           /\ call.tool \notin DOMAIN Prompts
           /\ IsToolApplicable(Tools[call.tool])
    BY <2>3, NoPromptIsATool, Zenon DEF Offered
  <2>. QED  BY <2>2, <2>5, <2>6, Zenon DEF IsToolApplicable
<1>. QED  BY <1>1, CallsKeepTheirInvariant, PTL

\* The user, or the fallback, has allowed what the rules are about.
THEOREM MatchingRequestsAreConfirmed == Spec => []MatchingRequestsWereConfirmed
<1>1. CallInvariant => MatchingRequestsWereConfirmed
  <2>. SUFFICES ASSUME CallInvariant, NEW c \in Callers, Sent(c)
                PROVE  /\ /\ calls[c].tool \in DOMAIN Tools
                          /\ \E rule \in settings.rules :
                                /\ IsToolLevel(rule)
                                /\ rule.tool \in {Empty, calls[c].tool}
                                /\ rule.destructive \in
                                      {Empty, DestructiveHint(calls[c].tool)}
                          => Confirmed(settings, calls[c].confirmed)
                       /\ /\ Current(calls[c]).kind \notin {"Kiali", "Review"}
                          /\ \E rule \in settings.rules :
                                Concerns(rule, Current(calls[c]))
                          => Confirmed(settings, "confirmation" \in calls[c].asked)
    BY Zenon DEF MatchingRequestsWereConfirmed, Confirmed
  <2>. DEFINE call == calls[c]
              step == Head(call.todo)
              now  == Current(call)
              req  == ValidationRequest(now, settings)
  <2>1. call.phase = "sent"
    BY DEF Sent
  <2>2. ASSUME call.tool \in DOMAIN Tools,
               NEW rule \in settings.rules, IsToolLevel(rule),
               rule.tool \in {Empty, call.tool},
               rule.destructive \in {Empty, DestructiveHint(call.tool)}
        PROVE  Confirmed(settings, call.confirmed)
    <3>1. rule \in MatchToolLevelRules(settings.rules, call.tool,
                                       DestructiveHint(call.tool))
      BY <2>2, Zenon DEF MatchToolLevelRules
    <3>2. ToolConfirmed(call, settings)
      BY CallOf DEF CallOK
    <3>. QED  BY <2>1, <2>2, <3>1, <3>2 DEF ToolConfirmed
  <2>3. ASSUME now.kind \notin {"Kiali", "Review"},
               NEW rule \in settings.rules, Concerns(rule, now)
        PROVE  Confirmed(settings, "confirmation" \in call.asked)
    <3>1. /\ SameRequest(now, step)
          /\ now.kind = step.kind /\ now.named = step.named
          /\ now.method = step.method
      BY <2>1, AskedAsItIs DEF SameRequest
    <3>2. /\ req.group = Group(step.kind) /\ req.kind = step.kind
          /\ req.verb = Verb(step)
          /\ step.named => req.name = "name"
          /\ Namespaced(step.kind) /\ step.value # "all" => req.namespace = "ns"
          /\ Validated(call, req, settings, roles)
      BY <2>1, <2>3, <3>1, AskedAsItIs
    <3>3. Verb(now) = Verb(step)
      BY <3>1, Zenon DEF Verb
    <3>4. step.value = "all" => now.value = "all"
      BY <3>1 DEF SameRequest
    <3>. HIDE DEF step, now, req
    <3>5. rule.verb \in {Empty, req.verb} /\ rule.kind \in {Empty, req.kind}
          /\ rule.group \in {Empty, req.group} /\ ~IsToolLevel(rule)
      BY <2>3, <3>1, <3>2, <3>3, Zenon DEF Concerns
    <3>6. rule.name \in {Empty, req.name}
      BY <2>3, <3>1, <3>2 DEF Concerns
    <3>7. rule.namespace \in {Empty, req.namespace}
      BY <2>3, <3>1, <3>2, <3>4 DEF Concerns
    <3>8. rule \in MatchKubeLevelRules(settings.rules, req)
      BY <2>3, <3>5, <3>6, <3>7, Zenon DEF MatchKubeLevelRules
    <3>9. call.checks = <<>>
      BY <2>1, <3>2 DEF Validated
    <3>10. ~Waits(call, "confirmation")
      BY <3>9 DEF Waits, Has
    <3>. QED  BY <3>2, <3>8, <3>10, Zenon DEF Validated
  <2>. QED  BY <2>2, <2>3
<1>. QED  BY <1>1, CallsKeepTheirInvariant, PTL

\* Nobody is asked in vain, as far as a review of the roles can tell.
THEOREM OnlyPermittedIsAsked == Spec => []AskedOnlyForPermitted
<1>1. CallInvariant => AskedOnlyForPermitted
  <2>. SUFFICES ASSUME CallInvariant, NEW c \in Callers,
                       settings.validation, calls[c].asked # {},
                       ~calls[c].unsure, Current(calls[c]).sub = Empty
                PROVE  Permitted(Current(calls[c]))
    BY Zenon DEF AskedOnlyForPermitted
  <2>. DEFINE call == calls[c]
              step == Head(call.todo)
              now  == Current(call)
              req  == ValidationRequest(now, settings)
  <2>1. call.phase \in {"checking", "sent"}
    BY CallOf
  <2>2. /\ now.kind = step.kind /\ now.named = step.named
        /\ now.method = step.method
    BY <2>1, AskedAsItIs DEF SameRequest
  <2>3. step.kind \notin {"Kiali", "Review"}
    BY <2>1, AskedAsItIs
  <2>4. /\ req.kind = step.kind /\ req.verb = Verb(step)
        /\ Validated(call, req, settings, roles)
    BY <2>1, <2>3, AskedAsItIs
  <2>5. Verb(now) = Verb(step)
    BY <2>2, Zenon DEF Verb
  <2>. HIDE DEF step, now, req
  <2>6. <<req.verb, req.kind, Empty>> \notin roles
    BY <2>4 DEF Validated
  <2>7. <<Verb(now), now.kind, Empty>> \notin roles
    BY <2>2, <2>4, <2>5, <2>6, Zenon
  <2>. QED  BY <2>7, Zenon DEF Permitted, now
<1>. QED  BY <1>1, CallsKeepTheirInvariant, PTL

\* No tool gets around the licence, by whatever verb it writes.
THEOREM TheLicenceIsAsked == Spec => []WindowsNeedsEULA
<1>1. CallInvariant => WindowsNeedsEULA
  <2>. SUFFICES ASSUME CallInvariant, NEW c \in Callers, Sent(c),
                       Writes(Current(calls[c])),
                       Current(calls[c]).kind = "PipelineRun",
                       Current(calls[c]).value = "windows"
                PROVE  "eula" \in calls[c].asked
    BY Zenon DEF WindowsNeedsEULA
  <2>. DEFINE call == calls[c]
              step == Head(call.todo)
              now  == Current(call)
              req  == ValidationRequest(now, settings)
  <2>1. call.phase = "sent"
    BY DEF Sent
  <2>2. /\ step \in GoodSteps /\ SameRequest(now, step)
        /\ req.value = now.value
    BY <2>1, AskedAsItIs
  <2>3. /\ now.kind = step.kind /\ now.named = step.named
        /\ now.method = step.method
        /\ step.value # "same" => now.value = step.value
    BY <2>2 DEF SameRequest
  <2>4. /\ req.kind = step.kind /\ req.group = Group(step.kind)
        /\ req.verb = Verb(step)
        /\ Validated(call, req, settings, roles)
    BY <2>1, <2>3, AskedAsItIs
  <2>5. step.method = "DELETE" => step.value = Empty
    BY <2>2 DEF GoodSteps, WellMade
  <2>. HIDE DEF step, now, req
  <2>6. step.method \in {"POST", "PUT", "PATCH"}
    <3>1. step.method \in {"POST", "PUT", "PATCH", "DELETE"}
      BY <2>3 DEF Writes, now
    <3>2. step.method # "DELETE"
      BY <2>3, <2>5, EmptyIsNoWord DEF now
    <3>. QED  BY <3>1, <3>2
  <2>7. req.verb \in {"create", "update", "patch"}
    BY <2>4, <2>6 DEF Verb
  <2>8. req.group = "tekton.dev" /\ req.kind = "PipelineRun" /\ req.value = "windows"
    <3>1. Group("PipelineRun") = "tekton.dev"
      BY DEF Group, Core
    <3>. QED  BY <2>2, <2>3, <2>4, <3>1 DEF now
  <2>9. ~Waits(call, "eula")
    <3>1. call.checks = <<>>
      BY <2>1, <2>4 DEF Validated
    <3>. QED  BY <3>1 DEF Waits, Has
  <2>. QED  BY <2>4, <2>7, <2>8, <2>9 DEF Validated
<1>. QED  BY <1>1, CallsKeepTheirInvariant, PTL

-----------------------------------------------------------------------------
(* The invariant of what is read and written.                              *)

\* Objects that exist or do not, with the values they can have.
StoreOK ==
    /\ objects = [k \in Tracked |-> objects[k]]
    /\ \A k \in Tracked : /\ objects[k].rev \in Nat \ {0}
                          /\ objects[k].value \in Values[k] \cup {Empty}

\* What a call has read is no newer than the object, and of the same version
\* it is the object.
ReadOK(read, store) ==
    /\ read = [kind |-> read.kind, rev |-> read.rev, value |-> read.value]
    /\ read.rev \in Nat
    /\ \A k \in Tracked : read.kind = k =>
          /\ read.value \in Values[k] \cup {Empty}
          /\ read.rev <= store[k].rev
          /\ read.rev = store[k].rev => read.value = store[k].value

\* What a call has still to update it holds, or will hold.
Held(call) ==
    \A i \in 1..Len(call.todo), k \in Tracked :
       call.todo[i].method = "PUT" /\ call.todo[i].kind = k =>
          IF i = 1 THEN call.read.kind = k ELSE Holds(call.todo[i - 1], k)

TodoOK(call) ==
    /\ \A i \in 1..Len(call.todo) : Fits(call.todo[i])
    /\ call.todo \in Seq(FreshSteps) \/ Held(call)
    /\ call.tool \in OverwritingTools =>
          /\ Held(call)
          /\ \A i \in 1..Len(call.todo) : call.todo[i].method \in {"GET", "PUT"}

UpdateInvariant ==
    /\ StoreOK
    /\ changes \in 0..MaxChanges
    /\ \A c \in Callers : ReadOK(calls[c].read, objects) /\ TodoOK(calls[c])

\* The objects change by one version at a time.
Grows ==
    /\ objects' = [k \in Tracked |-> objects'[k]]
    /\ \A k \in Tracked :
          \/ objects'[k] = objects[k]
          \/ /\ objects'[k].rev = objects[k].rev + 1
             /\ objects'[k].value \in Values[k] \cup {Empty}

\* What is stored is one version more of one object.
LEMMA StoredGrows ==
    ASSUME StoreOK, NEW k, NEW value, Stored(k, value),
           k \in Tracked => value \in Values[k] \cup {Empty}
    PROVE  /\ Grows
           /\ k \in Tracked => objects'[k].value = value
<1>1. CASE k \in Tracked
  <2>1. objects' = [objects EXCEPT ![k] = [rev |-> @.rev + 1, value |-> value]]
    BY <1>1, Zenon DEF Stored
  <2>2. objects = [j \in Tracked |-> objects[j]]
    BY DEF StoreOK
  <2>. QED  BY <1>1, <2>1, <2>2 DEF Grows
<1>2. CASE k \notin Tracked
  <2>1. objects' = objects
    BY <1>2, Zenon DEF Stored
  <2>. QED  BY <1>2, <2>1 DEF Grows, StoreOK
<1>. QED  BY <1>1, <1>2

\* Nothing is stored.
LEMMA NothingStored ==
    ASSUME StoreOK, UNCHANGED objects
    PROVE  Grows
BY DEF StoreOK, Grows

\* Objects stay objects, and what was read of them is what was read.
LEMMA GrownStore ==
    ASSUME StoreOK, Grows
    PROVE  /\ StoreOK'
           /\ \A read : ReadOK(read, objects) => ReadOK(read, objects')
<1>1. \A k \in Tracked :
         /\ objects[k].rev \in Nat \ {0} /\ objects'[k].rev \in Nat \ {0}
         /\ objects'[k].value \in Values[k] \cup {Empty}
         /\ \/ objects'[k] = objects[k]
            \/ objects'[k].rev = objects[k].rev + 1
  BY DEF StoreOK, Grows
<1>2. StoreOK'
  BY <1>1 DEF StoreOK, Grows
<1>3. ASSUME NEW read, ReadOK(read, objects)
      PROVE  ReadOK(read, objects')
  <2>1. \A k \in Tracked : read.kind = k =>
           /\ read.value \in Values[k] \cup {Empty}
           /\ read.rev <= objects'[k].rev
           /\ read.rev = objects'[k].rev => read.value = objects'[k].value
    <3>. SUFFICES ASSUME NEW k \in Tracked, read.kind = k
                  PROVE  /\ read.value \in Values[k] \cup {Empty}
                         /\ read.rev <= objects'[k].rev
                         /\ read.rev = objects'[k].rev =>
                               read.value = objects'[k].value
      OBVIOUS
    <3>1. /\ read.value \in Values[k] \cup {Empty} /\ read.rev \in Nat
          /\ read.rev <= objects[k].rev
          /\ read.rev = objects[k].rev => read.value = objects[k].value
      BY <1>3 DEF ReadOK
    <3>. QED  BY <1>1, <3>1
  <2>. QED  BY <1>3, <2>1 DEF ReadOK
<1>. QED  BY <1>2, <1>3

\* What is read now of an object is as it should be.
LEMMA JustRead ==
    ASSUME NEW store, NEW k \in Tracked, store[k].rev \in Nat,
           store[k].value \in Values[k] \cup {Empty}
    PROVE  ReadOK(AsRead(k, store[k]), store) /\ AsRead(k, store[k]).kind = k
<1>. DEFINE read == AsRead(k, store[k])
<1>1. /\ read = [kind |-> read.kind, rev |-> read.rev, value |-> read.value]
      /\ read.kind = k /\ read.rev = store[k].rev /\ read.value = store[k].value
  BY DEF AsRead
<1>. HIDE DEF read
<1>2. ReadOK(read, store)
  BY <1>1 DEF ReadOK
<1>. QED  BY <1>1, <1>2 DEF read

\* Nothing has been read, and nothing is to be done.
LEMMA NothingRead ==
    ASSUME StoreOK
    PROVE  ReadOK(NoObject, objects)
<1>. DEFINE read == NoObject
<1>1. /\ read = [kind |-> read.kind, rev |-> read.rev, value |-> read.value]
      /\ read.rev = 0 /\ read.value = Empty
  BY DEF NoObject
<1>. HIDE DEF read
<1>2. \A k \in Tracked : objects[k].rev \in Nat \ {0}
  BY DEF StoreOK
<1>3. ReadOK(read, objects)
  BY <1>1, <1>2 DEF ReadOK
<1>. QED  BY <1>3 DEF read

\* A call without steps has nothing to update.
LEMMA NothingToDo ==
    ASSUME NEW call, call.todo = <<>>
    PROVE  TodoOK(call)
BY DEF TodoOK, Held

\* What is held when a step is left.
KeepsHold(after, call) ==
    \A k \in Tracked :
       /\ Holds(Head(call.todo), k)
       /\ Head(call.todo).method = "PUT" => call.read.kind = k
       => after.read.kind = k

\* The rest of a program is held too.
LEMMA RestOfProgram ==
    ASSUME NEW S, NEW call, NEW after, TodoOK(call), call.todo \in Seq(S),
           call.todo # <<>>, after.tool = call.tool,
           after.todo = Tail(call.todo), KeepsHold(after, call)
    PROVE  TodoOK(after)
<1>. DEFINE todo == call.todo
            rest == after.todo
<1>1. /\ Len(todo) \in Nat /\ Len(todo) > 0 /\ Head(todo) = todo[1]
      /\ Len(rest) = Len(todo) - 1
      /\ \A i \in 1..Len(rest) : rest[i] = todo[i + 1] /\ i + 1 \in 1..Len(todo)
  BY HeadTailProperties
<1>2. Held(call) => Held(after)
  <2>. SUFFICES ASSUME Held(call), NEW i \in 1..Len(rest), NEW k \in Tracked,
                       rest[i].method = "PUT", rest[i].kind = k
                PROVE  IF i = 1 THEN after.read.kind = k ELSE Holds(rest[i - 1], k)
    BY Zenon DEF Held
  <2>1. /\ i + 1 \in 1..Len(todo) /\ i + 1 # 1 /\ (i + 1) - 1 = i
        /\ todo[i + 1] = rest[i]
    BY <1>1
  <2>2. Holds(todo[i], k)
    BY <2>1 DEF Held
  <2>3. CASE i = 1
    <3>1. Head(todo).method = "PUT" => call.read.kind = k
      <4>1. todo[1].kind = k /\ 1 \in 1..Len(todo)
        BY <1>1, <2>2, <2>3 DEF Holds
      <4>. QED  BY <1>1, <4>1 DEF Held
    <3>2. Holds(Head(todo), k)
      BY <1>1, <2>2, <2>3
    <3>. QED  BY <2>3, <3>1, <3>2 DEF KeepsHold
  <2>4. CASE i # 1
    <3>1. i - 1 \in 1..Len(rest) /\ (i - 1) + 1 = i
      BY <1>1, <2>4
    <3>. QED  BY <1>1, <2>2, <2>4, <3>1
  <2>. QED  BY <2>3, <2>4
<1>3. todo \in Seq(FreshSteps) => rest \in Seq(FreshSteps)
  <2>. HIDE DEF todo
  <2>. QED  BY <1>1, HeadTailProperties DEF todo
<1>4. \A i \in 1..Len(rest) : Fits(rest[i])
  BY <1>1 DEF TodoOK
<1>5. after.tool \in OverwritingTools =>
         \A i \in 1..Len(rest) : rest[i].method \in {"GET", "PUT"}
  BY <1>1 DEF TodoOK
<1>. QED  BY <1>2, <1>3, <1>4, <1>5 DEF TodoOK

-----------------------------------------------------------------------------
(* The steps of the system and the store.                                  *)

\* A step of one caller keeps the invariant when its call keeps it.
LEMMA OneUpdate ==
    ASSUME CallInvariant, UpdateInvariant, Grows, UNCHANGED changes,
           NEW c \in Callers, NEW after, Now(c, after),
           ReadOK(after.read, objects'), TodoOK(after)
    PROVE  UpdateInvariant'
<1>1. \A d \in Callers : calls'[d] = IF d = c THEN after ELSE calls[d]
  <2>1. calls = [d \in Callers |-> calls[d]] /\ calls' = [calls EXCEPT ![c] = after]
    BY DEF CallInvariant, Now
  <2>. QED  BY <2>1
<1>2. /\ StoreOK'
      /\ \A read : ReadOK(read, objects) => ReadOK(read, objects')
  BY GrownStore DEF UpdateInvariant
<1>3. \A d \in Callers : ReadOK(calls'[d].read, objects') /\ TodoOK(calls'[d])
  BY <1>1, <1>2 DEF UpdateInvariant
<1>. QED  BY <1>2, <1>3 DEF UpdateInvariant

\* It does when the call leaves a step and keeps what it holds.
LEMMA LeavingUpdate ==
    ASSUME CallInvariant, UpdateInvariant, Grows, UNCHANGED changes,
           NEW c \in Callers, NEW after, Now(c, after),
           calls[c].todo # <<>>, Leaves(after, calls[c]),
           ReadOK(after.read, objects'), KeepsHold(after, calls[c])
    PROVE  UpdateInvariant'
<1>1. after.tool = calls[c].tool /\ after.todo = Tail(calls[c].todo)
  BY DEF Leaves, Remembers
<1>2. calls[c].todo \in Seq(StepsOf(calls[c].tool)) /\ TodoOK(calls[c])
  BY CallOf DEF UpdateInvariant
<1>3. TodoOK(after)
  BY <1>1, <1>2, RestOfProgram
<1>. QED  BY <1>3, OneUpdate

\* Or stays at it.
LEMMA StayingUpdate ==
    ASSUME CallInvariant, UpdateInvariant, UNCHANGED <<objects, changes>>,
           NEW c \in Callers, NEW after, Now(c, after),
           after.tool = calls[c].tool, after.todo = calls[c].todo,
           after.read = calls[c].read
    PROVE  UpdateInvariant'
<1>1. TodoOK(calls[c]) /\ ReadOK(calls[c].read, objects')
  BY DEF UpdateInvariant
<1>2. TodoOK(after) /\ ReadOK(after.read, objects')
  BY <1>1, Zenon DEF TodoOK, Held
<1>3. Grows
  BY NothingStored DEF UpdateInvariant
<1>. QED  BY <1>2, <1>3, OneUpdate

\* Or ends.
LEMMA EndingUpdate ==
    ASSUME CallInvariant, UpdateInvariant, UNCHANGED <<objects, changes>>,
           NEW c \in Callers, NEW outcome, Now(c, Ended(calls[c], outcome))
    PROVE  UpdateInvariant'
<1>. DEFINE over == Ended(calls[c], outcome)
<1>1. over.todo = <<>> /\ over.read = NoObject
  BY DEF Ended, Idle
<1>. HIDE DEF over
<1>2. Grows
  BY NothingStored DEF UpdateInvariant
<1>3. ReadOK(over.read, objects')
  BY <1>1, NothingRead DEF UpdateInvariant
<1>4. TodoOK(over)
  BY <1>1, NothingToDo
<1>. QED  BY <1>2, <1>3, <1>4, OneUpdate DEF over

\* Or fails: a step that must not fail ends it, and no other holds anything.
LEMMA FailingUpdate ==
    ASSUME CallInvariant, UpdateInvariant, UNCHANGED <<objects, changes>>,
           NEW c \in Callers, calls[c].todo # <<>>, Now(c, Failed(calls[c]))
    PROVE  UpdateInvariant'
<1>. DEFINE call == calls[c]
            step == Head(call.todo)
            on   == IF step.kind = "Review" THEN [call EXCEPT !.granted = FALSE]
                    ELSE [call EXCEPT !.answered = FALSE,
                                      !.listed = @ /\ ~IsList(step)]
<1>1. CASE step.must
  <2>1. Failed(call) = Ended(call, "error")
    BY <1>1 DEF Failed
  <2>. QED  BY <2>1, EndingUpdate
<1>2. CASE ~step.must
  <2>1. Failed(call) = Popped(on)
    BY <1>2, Zenon DEF Failed
  <2>2. Remembers(on, call) /\ on.todo = call.todo /\ on.read = call.read
    BY CallOf DEF IsCall, CallFields, Remembers
  <2>. HIDE DEF on
  <2>3. /\ Popped(on).tool = call.tool /\ Popped(on).todo = Tail(call.todo)
        /\ Popped(on).read = call.read
    BY <2>2 DEF Remembers, IsCall, CallFields, Popped
  <2>4. KeepsHold(Popped(on), call)
    BY <1>2 DEF KeepsHold, Holds
  <2>5. call.todo \in Seq(StepsOf(call.tool)) /\ TodoOK(call)
    BY CallOf DEF UpdateInvariant
  <2>6. TodoOK(Popped(on))
    BY <2>3, <2>4, <2>5, RestOfProgram
  <2>7. Grows
    BY NothingStored DEF UpdateInvariant
  <2>8. ReadOK(Popped(on).read, objects')
    BY <2>3 DEF UpdateInvariant
  <2>. QED  BY <2>1, <2>6, <2>7, <2>8, OneUpdate
<1>. QED  BY <1>1, <1>2

\* A program begins: it has read nothing, and updates only what it will hold.
LEMMA BegunTodo ==
    ASSUME NEW t, NEW program,
           \A i \in 1..Len(program) : Fits(program[i]),
           program \in Seq(FreshSteps) \/ Grounded(program),
           t \in OverwritingTools => Careful(program)
    PROVE  TodoOK(Begun(t, program)) /\ Begun(t, program).read = NoObject
<1>. DEFINE call == Begun(t, program)
<1>1. call.tool = t /\ call.todo = program /\ call.read = NoObject
  BY DEF Begun, Idle
<1>. HIDE DEF call
<1>2. Grounded(program) => Held(call)
  BY <1>1 DEF Grounded, Held
<1>3. TodoOK(call)
  BY <1>1, <1>2 DEF TodoOK, Careful
<1>. QED  BY <1>1, <1>3 DEF call

\* A call begins, by itself or as the guide says.
LEMMA BeginningUpdate ==
    ASSUME CallInvariant, UpdateInvariant, NEW c \in Callers,
           Call(c) \/ CallAsTheGuideSays(c)
    PROVE  UpdateInvariant'
<1>1. ASSUME NEW t, NEW program, Now(c, Begun(t, program)),
             UNCHANGED <<objects, changes>>,
             \A i \in 1..Len(program) : Fits(program[i]),
             program \in Seq(FreshSteps) \/ Grounded(program),
             t \in OverwritingTools => Careful(program)
      PROVE  UpdateInvariant'
  <2>1. TodoOK(Begun(t, program)) /\ Begun(t, program).read = NoObject
    BY <1>1, BegunTodo
  <2>2. Grows
    BY <1>1, NothingStored DEF UpdateInvariant
  <2>3. ReadOK(NoObject, objects')
    BY <1>1, NothingRead DEF UpdateInvariant
  <2>. QED  BY <1>1, <2>1, <2>2, <2>3, OneUpdate
<1>2. CASE Call(c)
  <2>1. PICK t \in Offered \cap Repertoire[c] :
           \E program \in Programs(t) : Now(c, Begun(t, program))
    BY <1>2, Zenon DEF Call
  <2>2. PICK program \in Programs(t) : Now(c, Begun(t, program))
    BY <2>1
  <2>3. UNCHANGED <<objects, changes>>
    BY <1>2, Zenon DEF Call
  <2>4. t \in DOMAIN Tools \cup DOMAIN Prompts
    BY <2>1 DEF Offered
  <2>5. \A i \in 1..Len(program) : Fits(program[i])
    BY <2>2, <2>4, ValuesAssumption, Zenon
  <2>6. program \in Seq(FreshSteps) \/ Grounded(program)
    BY <2>2, <2>4, ProgramsHold
  <2>7. t \in OverwritingTools => Careful(program)
    BY <2>2, OverwritingToolsAreCareful
  <2>. QED  BY <1>1, <2>2, <2>3, <2>5, <2>6, <2>7
<1>3. CASE CallAsTheGuideSays(c)
  <2>. DEFINE t       == "resources_create_or_update"
              program == FollowTheGuide(calls[c].outcome = "accepted")
  <2>1. Now(c, Begun(t, program)) /\ UNCHANGED <<objects, changes>>
    BY <1>3, Zenon DEF CallAsTheGuideSays
  <2>2. /\ program \in Seq(FreshSteps)
        /\ \A i \in 1..Len(program) : /\ program[i].method = "PATCH"
                                      /\ program[i].named = FALSE
    <3>1. (calls[c].outcome = "accepted") \in BOOLEAN
      OBVIOUS
    <3>. QED  BY <3>1, GuideKeepsHints, Zenon
  <2>3. t \notin OverwritingTools
    BY DEF OverwritingTools
  <2>. HIDE DEF t, program
  <2>4. \A i \in 1..Len(program) : Fits(program[i])
    BY <2>2 DEF Fits
  <2>. QED  BY <1>1, <2>1, <2>2, <2>3, <2>4
<1>. QED  BY <1>2, <1>3

\* A call ends, or is confirmed, or passes the access control.
LEMMA ControlUpdate ==
    ASSUME CallInvariant, UpdateInvariant, NEW c \in Callers,
           \/ ConfirmTool(c) \/ Finish(c) \/ Reject(c) \/ RejectNameless(c)
           \/ AskForTheLicence(c) \/ Send(c) \/ Check(c) \/ Delegate(c)
    PROVE  UpdateInvariant'
<1>. DEFINE call == calls[c]
<1>1. UNCHANGED <<objects, changes>>
  BY Zenon DEF ConfirmTool, Finish, Reject, RejectNameless, AskForTheLicence,
               Send, Check, Delegate
<1>2. IsCall(call)
  BY CallOf
<1>3. ASSUME NEW outcome, Now(c, Ended(call, outcome))
      PROVE  UpdateInvariant'
  BY <1>1, <1>3, EndingUpdate
<1>4. ASSUME NEW after, Now(c, after), after.tool = call.tool,
             after.todo = call.todo, after.read = call.read
      PROVE  UpdateInvariant'
  BY <1>1, <1>4, StayingUpdate
<1>5. ASSUME Now(c, Failed(call)), call.todo # <<>>
      PROVE  UpdateInvariant'
  BY <1>1, <1>5, FailingUpdate
<1>6. CASE Finish(c) \/ Reject(c) \/ RejectNameless(c) \/ AskForTheLicence(c)
  <2>1. \E outcome : Now(c, Ended(call, outcome))
    BY <1>6, Zenon DEF Finish, Reject, RejectNameless, AskForTheLicence
  <2>. QED  BY <1>3, <2>1
<1>7. CASE ConfirmTool(c)
  <2>1. \/ Now(c, Ended(call, "error"))
        \/ \E x : Now(c, [call EXCEPT !.phase = "next", !.confirmed = x])
    BY <1>7, Zenon DEF ConfirmTool
  <2>2. ASSUME NEW x, Now(c, [call EXCEPT !.phase = "next", !.confirmed = x])
        PROVE  UpdateInvariant'
    <3>. DEFINE after == [call EXCEPT !.phase = "next", !.confirmed = x]
    <3>1. after.tool = call.tool /\ after.todo = call.todo /\ after.read = call.read
      BY <1>2 DEF IsCall, CallFields
    <3>. HIDE DEF after
    <3>. QED  BY <1>4, <2>2, <3>1 DEF after
  <2>. QED  BY <1>3, <2>1, <2>2
<1>8. CASE Delegate(c)
  <2>1. Now(c, [call EXCEPT !.phase = "sent"])
    BY <1>8, Zenon DEF Delegate
  <2>2. LET after == [call EXCEPT !.phase = "sent"]
        IN after.tool = call.tool /\ after.todo = call.todo /\ after.read = call.read
    BY <1>2 DEF IsCall, CallFields
  <2>. QED  BY <1>4, <2>1, <2>2
<1>9. CASE Send(c)
  <2>1. /\ call.todo # <<>>
        /\ \/ Now(c, [call EXCEPT !.phase = "sent"])
           \/ Now(c, Failed(call))
           \/ \E vm : Now(c, [call EXCEPT !.phase = "checking", !.vm = vm,
                                          !.checks = Validators(settings)])
    BY <1>9, Zenon DEF Send, AtStep
  <2>2. LET after == [call EXCEPT !.phase = "sent"]
        IN after.tool = call.tool /\ after.todo = call.todo /\ after.read = call.read
    BY <1>2 DEF IsCall, CallFields
  <2>3. ASSUME NEW vm, NEW checks,
               Now(c, [call EXCEPT !.phase = "checking", !.vm = vm,
                                   !.checks = checks])
        PROVE  UpdateInvariant'
    <3>. DEFINE after == [call EXCEPT !.phase = "checking", !.vm = vm,
                                      !.checks = checks]
    <3>1. after.tool = call.tool /\ after.todo = call.todo /\ after.read = call.read
      BY <1>2 DEF IsCall, CallFields
    <3>. HIDE DEF after
    <3>. QED  BY <1>4, <2>3, <3>1 DEF after
  <2>4. ASSUME Now(c, [call EXCEPT !.phase = "sent"])
        PROVE  UpdateInvariant'
    BY <1>4, <2>2, <2>4
  <2>. QED  BY <1>5, <2>1, <2>3, <2>4, Zenon
<1>10. CASE Check(c)
  <2>1. call.phase = "checking"
    BY <1>10, Zenon DEF Check
  <2>2. call.todo # <<>>
    BY <2>1, CallOf
  <2>3. \/ Now(c, Failed(call))
        \/ \E x, y, z : Now(c, [call EXCEPT !.checks = x, !.asked = y,
                                            !.unsure = z])
    BY <1>10, Zenon DEF Check
  <2>4. ASSUME NEW x, NEW y, NEW z,
               Now(c, [call EXCEPT !.checks = x, !.asked = y, !.unsure = z])
        PROVE  UpdateInvariant'
    <3>. DEFINE after == [call EXCEPT !.checks = x, !.asked = y, !.unsure = z]
    <3>1. after.tool = call.tool /\ after.todo = call.todo /\ after.read = call.read
      BY <1>2 DEF IsCall, CallFields
    <3>. HIDE DEF after
    <3>. QED  BY <1>4, <2>4, <3>1 DEF after
  <2>. QED  BY <1>5, <2>2, <2>3, <2>4, Zenon
<1>. QED  BY <1>6, <1>7, <1>8, <1>9, <1>10

\* A step is left, and read is what the call remembers of an object.
LeavesWith(after, call, read) == Leaves(after, call) /\ after.read = read

\* What is remembered of an answer and is read.
LEMMA ReadOfAnswer ==
    ASSUME NEW call, IsCall(call), NEW x, NEW y
    PROVE  /\ LeavesWith(Answered(call), call, call.read)
           /\ LeavesWith([Popped(call) EXCEPT !.listed = x], call, call.read)
           /\ LeavesWith([Popped(call) EXCEPT !.granted = x], call, call.read)
           /\ LeavesWith([Answered(call) EXCEPT !.read = x], call, x)
           /\ LeavesWith([Answered(call) EXCEPT !.read = x, !.info = y], call, x)
           /\ LeavesWith([Answered(call) EXCEPT !.listed = x, !.offer = y],
                         call, call.read)
<1>1. /\ Answered(call).read = call.read
      /\ [Popped(call) EXCEPT !.listed = x].read = call.read
      /\ [Popped(call) EXCEPT !.granted = x].read = call.read
  BY DEF IsCall, CallFields, Popped, Answered
<1>2. /\ [Answered(call) EXCEPT !.read = x].read = x
      /\ [Answered(call) EXCEPT !.read = x, !.info = y].read = x
  BY DEF IsCall, CallFields, Popped, Answered
<1>3. [Answered(call) EXCEPT !.listed = x, !.offer = y].read = call.read
  BY DEF IsCall, CallFields, Popped, Answered
<1>. QED  BY <1>1, <1>2, <1>3, AnsweredCall DEF LeavesWith

\* A step is skipped: one that gets what is to be held is never skipped.
LEMMA SkippingUpdate ==
    ASSUME CallInvariant, UpdateInvariant, NEW c \in Callers, Skip(c)
    PROVE  UpdateInvariant'
<1>. DEFINE call == calls[c]
            step == Head(call.todo)
<1>1. /\ call.todo # <<>> /\ FALSE \in Taken(call)
      /\ UNCHANGED <<objects, changes>>
      /\ IsCall(call)
  BY CallOf, Zenon DEF Skip, AtStep
<1>2. step.when # "always"
  <2>1. step.when = "always" => Taken(call) = {TRUE}
    BY Zenon DEF Taken
  <2>. HIDE DEF step
  <2>2. FALSE \notin {TRUE}
    OBVIOUS
  <2>. QED  BY <1>1, <2>1, <2>2, Zenon
<1>3. \E x : Now(c, [Popped(call) EXCEPT !.listed = x])
  <2>1. Now(c, [Popped(call) EXCEPT !.listed = @ /\ ~IsList(step)])
    BY Zenon DEF Skip
  <2>. QED  BY <2>1, Zenon
<1>4. PICK x : Now(c, [Popped(call) EXCEPT !.listed = x])
  BY <1>3
<1>. DEFINE after == [Popped(call) EXCEPT !.listed = x]
<1>5. Leaves(after, call) /\ after.read = call.read
  BY <1>1, ReadOfAnswer DEF LeavesWith
<1>. HIDE DEF after
<1>6. KeepsHold(after, call)
  BY <1>2, <1>5 DEF KeepsHold, Holds
<1>7. Grows /\ ReadOK(after.read, objects')
  BY <1>1, <1>5, NothingStored DEF UpdateInvariant
<1>. QED  BY <1>1, <1>4, <1>5, <1>6, <1>7, LeavingUpdate DEF after

\* The step that a call is at.
LEMMA StepAtHand ==
    ASSUME NEW S, NEW call, TodoOK(call), call.todo \in Seq(S), call.todo # <<>>
    PROVE  LET step == Head(call.todo)
           IN /\ Fits(step)
              /\ step \in FreshSteps \/ Held(call)
              /\ \A k \in Tracked : Held(call) /\ step.method = "PUT"
                                       /\ step.kind = k => call.read.kind = k
              /\ call.tool \in OverwritingTools => step.method \in {"GET", "PUT"}
<1>1. /\ 1 \in 1..Len(call.todo) /\ Head(call.todo) = call.todo[1]
      /\ call.todo \in Seq(FreshSteps) => Head(call.todo) \in FreshSteps
  BY HeadTailProperties
<1>2. \A k \in Tracked : Held(call) /\ Head(call.todo).method = "PUT"
                            /\ Head(call.todo).kind = k => call.read.kind = k
  BY <1>1 DEF Held
<1>. QED  BY <1>1, <1>2 DEF TodoOK

\* The request that is served, and what it makes of its object.
LEMMA ServedRequest ==
    ASSUME CallInvariant, UpdateInvariant, NEW c \in Callers, Served(c)
    PROVE  LET call == calls[c]
               step == Head(call.todo)
               now  == Current(call)
           IN /\ IsCall(call) /\ call.todo # <<>> /\ call.phase = "sent"
              /\ now.kind = step.kind /\ now.method = step.method
              /\ now.named = step.named
              /\ now.kind \in Tracked /\ now.method \in {"PATCH", "PUT"} =>
                    now.value \in Values[now.kind] \cup {Empty}
<1>. DEFINE call == calls[c]
            step == Head(call.todo)
            now  == Current(call)
<1>1. call.phase = "sent"
  BY DEF Served
<1>2. /\ IsCall(call) /\ call.todo # <<>> /\ step \in GoodSteps
      /\ call.todo \in Seq(StepsOf(call.tool))
      /\ step.method = "PATCH" => step.named
  BY <1>1, CallOf DEF RequestOK
<1>3. /\ now.kind = step.kind /\ now.method = step.method
      /\ now.named = step.named
      /\ step.value # "same" => now.value = step.value
  BY <1>2, CurrentStep DEF SameRequest
<1>4. step.value = "same" => now.value = call.read.value
  <2>1. step.value = "same" => now = [step EXCEPT !.value = call.read.value]
    BY Zenon DEF Current
  <2>2. step \in Steps
    BY <1>2, Zenon DEF GoodSteps
  <2>. HIDE DEF step, now, call
  <2>. QED  BY <2>1, <2>2 DEF Steps
<1>5. /\ Fits(step) /\ (step \in FreshSteps \/ Held(call))
      /\ \A k \in Tracked : Held(call) /\ step.method = "PUT"
                               /\ step.kind = k => call.read.kind = k
  BY <1>2, StepAtHand DEF UpdateInvariant
<1>6. ASSUME now.kind \in Tracked, now.method \in {"PATCH", "PUT"}
      PROVE  now.value \in Values[now.kind] \cup {Empty}
  <2>1. step.value # "same" => step.value \in Values[step.kind]
    BY <1>2, <1>3, <1>5, <1>6 DEF Fits
  <2>2. step.value = "same" => step.method = "PUT"
    BY <1>2, <1>3, <1>5, <1>6, ValuesAssumption DEF Fits
  <2>3. step.value = "same" => call.read.kind = step.kind
    BY <1>3, <1>5, <1>6, <2>2 DEF FreshSteps
  <2>4. step.value = "same" => call.read.value \in Values[step.kind] \cup {Empty}
    BY <1>3, <1>6, <2>3 DEF UpdateInvariant, ReadOK
  <2>. HIDE DEF step, now, call
  <2>. QED  BY <1>3, <1>4, <2>1, <2>4
<1>. QED  BY <1>1, <1>2, <1>3, <1>6

\* The API server answers.
LEMMA ServingUpdate ==
    ASSUME CallInvariant, UpdateInvariant, NEW c \in Callers,
           \/ ServeFailure(c) \/ ServeGet(c) \/ ServeList(c) \/ ServeCreate(c)
           \/ ServeApply(c) \/ ServeUpdate(c) \/ ServeDelete(c)
    PROVE  UpdateInvariant'
<1>. DEFINE call == calls[c]
            step == Head(call.todo)
            now  == Current(call)
            k    == now.kind
<1>1. CASE ServeFailure(c)
  <2>1. call.phase = "sent" /\ Now(c, Failed(call)) /\ UNCHANGED <<objects, changes>>
    BY <1>1, Zenon DEF ServeFailure
  <2>. QED  BY <2>1, CallOf, FailingUpdate
<1>2. CASE ~ServeFailure(c)
  <2>1. Served(c) /\ UNCHANGED changes
    BY <1>2, Zenon DEF ServeGet, ServeList, ServeCreate, ServeApply, ServeUpdate,
                       ServeDelete
  <2>2. /\ IsCall(call) /\ call.todo # <<>>
        /\ k = step.kind /\ now.method = step.method /\ now.named = step.named
        /\ k \in Tracked /\ now.method \in {"PATCH", "PUT"} =>
              now.value \in Values[k] \cup {Empty}
    BY <2>1, ServedRequest
  <2>3. StoreOK /\ ReadOK(call.read, objects)
    BY DEF UpdateInvariant
  <2>. HIDE DEF call, step, now, k
  <2>4. \A x, y :
           /\ LeavesWith([Answered(call) EXCEPT !.read = x], call, x)
           /\ LeavesWith([Answered(call) EXCEPT !.read = x, !.info = y], call, x)
           /\ LeavesWith([Answered(call) EXCEPT !.listed = x, !.offer = y],
                         call, call.read)
           /\ LeavesWith([Popped(call) EXCEPT !.granted = x], call, call.read)
           /\ LeavesWith(Answered(call), call, call.read)
    BY <2>2, ReadOfAnswer, Zenon
  <2>5. ASSUME NEW after, Now(c, after), LeavesWith(after, call, call.read),
               Grows, \A j : ~Holds(step, j)
        PROVE  UpdateInvariant'
    <3>1. ReadOK(after.read, objects')
      BY <2>3, <2>5, GrownStore DEF LeavesWith
    <3>2. KeepsHold(after, call)
      BY <2>5 DEF KeepsHold, step
    <3>. QED  BY <2>1, <2>2, <2>5, <3>1, <3>2, LeavingUpdate DEF call, LeavesWith
  <2>6. ASSUME NEW after, Now(c, after), NEW read, LeavesWith(after, call, read),
               Grows, read = IF k \in Tracked THEN AsRead(k, objects'[k])
                                               ELSE call.read
        PROVE  UpdateInvariant'
    <3>1. StoreOK' /\ ReadOK(call.read, objects')
      BY <2>3, <2>6, GrownStore
    <3>2. k \in Tracked => ReadOK(after.read, objects') /\ after.read.kind = k
      BY <2>6, <3>1, JustRead DEF StoreOK, LeavesWith
    <3>3. ReadOK(after.read, objects')
      BY <2>6, <3>1, <3>2 DEF LeavesWith
    <3>4. KeepsHold(after, call)
      BY <2>2, <3>2 DEF KeepsHold, Holds, step
    <3>. QED  BY <2>1, <2>2, <2>6, <3>3, <3>4, LeavingUpdate DEF call, LeavesWith
  <2>7. CASE ServeGet(c)
    <3>. DEFINE x == IF k \in Tracked THEN AsRead(k, objects[k]) ELSE call.read
    <3>1. UNCHANGED objects /\ \E y : Now(c, [Answered(call) EXCEPT !.read = x,
                                                                    !.info = y])
      <4>1. Now(c, [Answered(call) EXCEPT
                       !.read = IF k \in Tracked THEN AsRead(k, objects[k]) ELSE @,
                       !.info = @ \/ k = "GuestAgent"])
        BY <2>7, Zenon DEF ServeGet, call, now, k
      <4>2. Answered(call).read = call.read
        BY <2>4, Zenon DEF LeavesWith
      <4>3. Now(c, [Answered(call) EXCEPT !.read = x,
                                          !.info = @ \/ k = "GuestAgent"])
        BY <4>1, <4>2, Zenon
      <4>4. \E y : Now(c, [Answered(call) EXCEPT !.read = x, !.info = y])
        BY <4>3, Zenon
      <4>5. UNCHANGED objects
        BY <2>7, Zenon DEF ServeGet
      <4>. QED  BY <4>4, <4>5
    <3>2. x = IF k \in Tracked THEN AsRead(k, objects'[k]) ELSE call.read
      BY <3>1
    <3>. HIDE DEF x
    <3>3. PICK y : Now(c, [Answered(call) EXCEPT !.read = x, !.info = y])
      BY <3>1
    <3>. DEFINE after == [Answered(call) EXCEPT !.read = x, !.info = y]
    <3>4. LeavesWith(after, call, x)
      BY <2>4, Zenon
    <3>. HIDE DEF after
    <3>5. Grows
      BY <2>3, <3>1, NothingStored
    <3>. QED  BY <2>6, <3>2, <3>3, <3>4, <3>5 DEF after
  <2>8. CASE ServeList(c)
    <3>1. /\ UNCHANGED objects /\ now.method = "GET" /\ ~now.named
          /\ \E x, y : Now(c, [Answered(call) EXCEPT !.listed = x, !.offer = y])
      BY <2>8, Zenon DEF ServeList, IsList, call, now
    <3>2. Grows /\ \A j : ~Holds(step, j)
      BY <2>2, <2>3, <3>1, NothingStored DEF Holds
    <3>. QED  BY <2>4, <2>5, <3>1, <3>2, Zenon
  <2>9. CASE ServeCreate(c)
    <3>1. /\ UNCHANGED objects /\ now.method = "POST"
          /\ \/ \E x : Now(c, [Popped(call) EXCEPT !.granted = x])
             \/ Now(c, Answered(call))
      BY <2>9, Zenon DEF ServeCreate, call, now
    <3>2. Grows /\ \A j : ~Holds(step, j)
      BY <2>2, <2>3, <3>1, NothingStored DEF Holds
    <3>. QED  BY <2>4, <2>5, <3>1, <3>2, Zenon
  <2>10. CASE ServeApply(c)
    <3>1. Stored(k, now.value) /\ Now(c, Answered(call)) /\ now.method = "PATCH"
      BY <2>10, Zenon DEF ServeApply, call, now, k
    <3>2. Grows /\ \A j : ~Holds(step, j)
      BY <2>2, <2>3, <3>1, StoredGrows DEF Holds
    <3>. QED  BY <2>4, <2>5, <3>1, <3>2, Zenon
  <2>11. CASE ServeDelete(c)
    <3>1. Stored(k, Empty) /\ Now(c, Answered(call)) /\ now.method = "DELETE"
      BY <2>11, Zenon DEF ServeDelete, call, now, k
    <3>2. Grows /\ \A j : ~Holds(step, j)
      BY <2>2, <2>3, <3>1, StoredGrows DEF Holds
    <3>. QED  BY <2>4, <2>5, <3>1, <3>2, Zenon
  <2>12. CASE ServeUpdate(c)
    <3>. DEFINE x == IF k \in Tracked THEN AsRead(k, objects'[k]) ELSE call.read
    <3>1. /\ Stored(k, now.value) /\ now.method = "PUT"
          /\ Now(c, [Answered(call) EXCEPT
                        !.read = IF k \in Tracked THEN AsRead(k, objects'[k])
                                 ELSE @])
      BY <2>12, Zenon DEF ServeUpdate, call, now, k
    <3>2. Answered(call).read = call.read
      BY <2>4, Zenon DEF LeavesWith
    <3>3. Now(c, [Answered(call) EXCEPT !.read = x])
      BY <3>1, <3>2, Zenon
    <3>4. x = IF k \in Tracked THEN AsRead(k, objects'[k]) ELSE call.read
      OBVIOUS
    <3>. HIDE DEF x
    <3>. DEFINE after == [Answered(call) EXCEPT !.read = x]
    <3>5. LeavesWith(after, call, x)
      BY <2>4, Zenon
    <3>. HIDE DEF after
    <3>6. Grows
      BY <2>2, <2>3, <3>1, StoredGrows
    <3>. QED  BY <2>6, <3>3, <3>4, <3>5, <3>6 DEF after
  <2>. QED  BY <1>2, <2>7, <2>8, <2>9, <2>10, <2>11, <2>12
<1>. QED  BY <1>1, <1>2

\* Somebody else changes an object.
LEMMA OthersUpdate ==
    ASSUME UpdateInvariant, NEW k \in Tracked, Others(k)
    PROVE  UpdateInvariant'
<1>1. PICK v \in Values[k] \cup {Empty} : Stored(k, v)
  BY Zenon DEF Others
<1>2. /\ changes < MaxChanges /\ changes' = changes + 1 /\ UNCHANGED calls
  BY Zenon DEF Others
<1>3. Grows
  BY <1>1, StoredGrows DEF UpdateInvariant
<1>4. changes' \in 0..MaxChanges
  BY <1>2, ChangesAssumption DEF UpdateInvariant
<1>5. StoreOK' /\ \A c \in Callers : ReadOK(calls'[c].read, objects')
  BY <1>2, <1>3, GrownStore DEF UpdateInvariant
<1>. QED  BY <1>2, <1>4, <1>5 DEF UpdateInvariant

\* Both invariants are kept together: what is written is what the program of
\* a call says, of what the call has read.
THEOREM UpdatesKeepTheirInvariant == Spec => [](CallInvariant /\ UpdateInvariant)
<1>1. ASSUME Init PROVE UpdateInvariant
  <2>1. PICK start \in Beginnings :
           objects = [k \in Tracked |-> [rev |-> 1, value |-> start[k]]]
    BY <1>1, Zenon DEF Init
  <2>2. StoreOK
    BY <2>1, ValuesAssumption DEF StoreOK
  <2>3. changes \in 0..MaxChanges
    BY <1>1, ChangesAssumption DEF Init
  <2>4. Idle.todo = <<>> /\ Idle.read = NoObject
    BY DEF Idle
  <2>5. ReadOK(Idle.read, objects) /\ TodoOK(Idle)
    BY <2>2, <2>4, NothingRead, NothingToDo
  <2>6. \A c \in Callers : calls[c] = Idle
    BY <1>1, Zenon DEF Init
  <2>. QED  BY <2>2, <2>3, <2>5, <2>6 DEF UpdateInvariant
<1>2. ASSUME CallInvariant, UpdateInvariant, [Next]_vars PROVE UpdateInvariant'
  <2>1. ASSUME NEW c \in Callers,
               \/ Call(c) \/ ConfirmTool(c) \/ CallAsTheGuideSays(c)
               \/ Skip(c) \/ Finish(c) \/ Reject(c) \/ RejectNameless(c)
               \/ AskForTheLicence(c)
               \/ Send(c) \/ Check(c) \/ Delegate(c)
               \/ ServeFailure(c) \/ ServeGet(c) \/ ServeList(c)
               \/ ServeCreate(c) \/ ServeApply(c) \/ ServeUpdate(c)
               \/ ServeDelete(c)
        PROVE  UpdateInvariant'
    BY <1>2, <2>1, BeginningUpdate, ControlUpdate, SkippingUpdate,
       ServingUpdate, Zenon
  <2>2. ASSUME NEW k \in Tracked, Others(k) PROVE UpdateInvariant'
    BY <1>2, <2>2, OthersUpdate
  <2>3. ASSUME UNCHANGED vars PROVE UpdateInvariant'
    BY <1>2, <2>3 DEF vars, UpdateInvariant, StoreOK
  <2>. QED  BY <1>2, <2>1, <2>2, <2>3, Zenon DEF Next, Terminated
<1>. QED  BY <1>1, <1>2, CallsKeepTheirInvariant, PTL DEF Spec

\* The variables hold what they should: an object is never of a value that
\* no object of its kind can have, whoever wrote it.
THEOREM TypeCorrect == Spec => []TypeOK
<1>1. CallInvariant /\ UpdateInvariant => TypeOK
  <2>. SUFFICES ASSUME CallInvariant, UpdateInvariant
                PROVE  TypeOK
    OBVIOUS
  <2>1. /\ settings \in Settings /\ roles \in Roles
        /\ changes \in 0..MaxChanges
    BY DEF CallInvariant, UpdateInvariant
  <2>2. \A k \in Tracked : /\ objects[k].rev \in Nat
                           /\ objects[k].value \in Values[k] \cup {Empty}
    BY DEF UpdateInvariant, StoreOK
  <2>3. ASSUME NEW c \in Callers
        PROVE  /\ calls[c].tool \in Offered \cup {Empty}
               /\ calls[c].phase \in Phases /\ calls[c].outcome \in Outcomes
               /\ calls[c].phase \in {"checking", "sent"} => calls[c].todo # <<>>
               /\ ToSet(calls[c].checks) \subseteq ToSet(Validators(settings))
               /\ calls[c].asked \subseteq ToSet(Validators(settings))
    <3>. DEFINE call == calls[c]
                V    == ToSet(Validators(settings))
    <3>1. /\ call.tool \in Offered \cup {Empty} /\ call.phase \in Phases
          /\ call.outcome \in Outcomes
      BY CallOf, Zenon DEF CallOK
    <3>2. call.phase \in {"checking", "sent"} =>
             RequestOK(call, settings, roles) /\ call.todo # <<>>
      BY CallOf
    <3>3. call.checks = <<>> \/ call.checks \in Seq(V)
      BY <3>2, CallOf, Zenon DEF RequestOK, Validated
    <3>4. call.asked = {} \/ call.asked \subseteq V
      BY <3>2, CallOf, Zenon DEF RequestOK, Validated
    <3>. HIDE DEF V, call
    <3>5. ToSet(call.checks) \subseteq V
      BY <3>3 DEF ToSet
    <3>. QED  BY <3>1, <3>2, <3>4, <3>5 DEF V, call
  <2>. QED  BY <2>1, <2>2, <2>3 DEF TypeOK, Phases, Outcomes
<1>. QED  BY <1>1, UpdatesKeepTheirInvariant, PTL

\* No change of a machine or of a scale that somebody else has made since it
\* was read is overwritten, however many calls and others there are.
THEOREM NoChangeIsLost == Spec => WritesOnlyWhatItRead
<1>. DEFINE Overwrites ==
               \A c \in Callers, k \in Tracked :
                  /\ calls[c].tool \in {"vm_lifecycle", "resources_scale"}
                  /\ calls[c].phase = "sent" /\ calls'[c].phase # "sent"
                  /\ objects'[k] # objects[k]
                  => calls[c].read = AsRead(k, objects[k])
<1>1. ASSUME CallInvariant, UpdateInvariant, [Next]_vars
      PROVE  [Overwrites]_vars
  <2>. SUFFICES ASSUME Next,
                       NEW c \in Callers, NEW k \in Tracked,
                       calls[c].tool \in OverwritingTools,
                       calls[c].phase = "sent", calls'[c].phase # "sent",
                       objects'[k] # objects[k]
                PROVE  calls[c].read = AsRead(k, objects[k])
    BY <1>1, Zenon DEF OverwritingTools
  <2>. DEFINE call == calls[c]
              step == Head(call.todo)
              now  == Current(call)
  <2>1. PICK d \in Callers : ServeApply(d) \/ ServeUpdate(d) \/ ServeDelete(d)
    <3>1. ~UNCHANGED objects /\ ~UNCHANGED calls
      OBVIOUS
    <3>. QED  BY <3>1, Zenon
              DEF Next, Call, ConfirmTool, CallAsTheGuideSays, Skip, Finish,
                  Reject, RejectNameless, AskForTheLicence, Send, Check,
                  Delegate, ServeFailure, ServeGet, ServeList, ServeCreate,
                  Others, Terminated, vars
  <2>2. d = c
    <3>1. \E after : Now(d, after)
      BY <2>1, Zenon DEF ServeApply, ServeUpdate, ServeDelete
    <3>2. d # c => calls'[c] = calls[c]
      BY <3>1, <1>1 DEF Now, CallInvariant
    <3>. QED  BY <3>2
  <2>3. Served(c)
    BY <2>1, <2>2, Zenon DEF ServeApply, ServeUpdate, ServeDelete
  <2>4. /\ call.todo # <<>>
        /\ now.kind = step.kind /\ now.method = step.method
    BY <1>1, <2>3, ServedRequest
  <2>5. /\ step.method \in {"GET", "PUT"} /\ Held(call)
        /\ Held(call) /\ step.method = "PUT" /\ step.kind = k => call.read.kind = k
    BY <1>1, <2>4, CallOf, StepAtHand DEF UpdateInvariant, TodoOK
  <2>6. ServeUpdate(c)
    <3>1. ServeApply(c) => now.method = "PATCH"
      BY Zenon DEF ServeApply
    <3>2. ServeDelete(c) => now.method = "DELETE"
      BY Zenon DEF ServeDelete
    <3>. QED  BY <2>1, <2>2, <2>4, <2>5, <3>1, <3>2
  <2>7. /\ now.method = "PUT" /\ Stored(now.kind, now.value)
        /\ now.kind \in Tracked /\ call.read.kind = now.kind =>
              call.read.rev = objects[now.kind].rev
    BY <2>6, Zenon DEF ServeUpdate
  <2>8. now.kind = k
    BY <1>1, <2>7 DEF Stored, UpdateInvariant, StoreOK
  <2>. HIDE DEF now, step, call
  <2>9. call.read.kind = k /\ call.read.rev = objects[k].rev
    BY <2>4, <2>5, <2>7, <2>8
  <2>10. /\ call.read = [kind |-> call.read.kind, rev |-> call.read.rev,
                         value |-> call.read.value]
         /\ call.read.value = objects[k].value
    BY <1>1, <2>9 DEF UpdateInvariant, ReadOK, call
  <2>. QED  BY <2>9, <2>10, Zenon DEF AsRead, call
<1>. QED  BY <1>1, UpdatesKeepTheirInvariant, PTL DEF Spec, WritesOnlyWhatItRead

-----------------------------------------------------------------------------
(* The choice of vm_create.                                                *)

\* A loop that comes to something comes to a first.
LEMMA FirstPosition ==
    ASSUME NEW positions, positions \subseteq Nat, positions # {}
    PROVE  First(positions) \in positions
<1>. DEFINE before == {pair \in Nat \X Nat : pair[1] < pair[2]}
<1>1. IsWellFoundedOn(before, Nat)
  BY NatLessThanWellFounded DEF OpToRel
<1>2. PICK i \in positions : \A j \in positions : <<j, i>> \notin before
  <2>. HIDE DEF before
  <2>. QED  BY <1>1, WFMin
<1>3. ASSUME NEW j \in positions PROVE i <= j
  <2>1. i \in Nat /\ j \in Nat
    OBVIOUS
  <2>2. <<j, i>> \in Nat \X Nat /\ <<j, i>>[1] = j /\ <<j, i>>[2] = i
    BY <2>1
  <2>3. ~(j < i)
    BY <1>2, <2>2, Zenon
  <2>. QED  BY <2>1, <2>3
<1>. QED  BY <1>3 DEF First

\* What is named is of the name, and listed if the name is.
LEMMA NamedInfo ==
    ASSUME NEW S, NEW infos \in Seq(S), NEW name
    PROVE  /\ Named(infos, name).name = name
           /\ (\E i \in 1..Len(infos) : infos[i].name = name)
                 => Named(infos, name) \in S
<1>. DEFINE found == {i \in 1..Len(infos) : infos[i].name = name}
<1>1. Named(infos, name) =
         IF found # {} THEN infos[First(found)]
         ELSE [name |-> name, namespace |-> Empty, class |-> Empty]
  BY Zenon DEF Named
<1>2. found # {} => First(found) \in found
  <2>1. found \subseteq Nat
    OBVIOUS
  <2>. QED  BY <2>1, FirstPosition
<1>. QED  BY <1>1, <1>2

\* The instance types that clusters list.
Listed == UNION {ToSet(Catalogue[k]) : k \in DOMAIN Catalogue}

\* What is chosen by size is of the size, and of the performance if it can be.
LEMMA MatchedBySize ==
    ASSUME NEW infos \in Seq(Listed), NEW size, NEW perf
    PROVE  LET sized   == {i \in 1..Len(infos) : Within(size, infos[i].name)}
               fitting == {i \in sized : OfFamily(perf, infos[i].name)}
               name    == MatchInstancetypeBySize(infos, size, perf)
           IN sized # {} =>
                 /\ \E i \in 1..Len(infos) : infos[i].name = name
                 /\ Within(size, name)
                 /\ fitting # {} => OfFamily(perf, name)
<1>. DEFINE sized   == {i \in 1..Len(infos) : Within(size, infos[i].name)}
            fitting == {i \in sized : OfFamily(perf, infos[i].name)}
            labeled == {i \in sized : infos[i].class = perf}
            matched == IF fitting # {} THEN fitting
                       ELSE IF labeled # {} THEN labeled ELSE sized
            name    == MatchInstancetypeBySize(infos, size, perf)
<1>. SUFFICES ASSUME sized # {}
              PROVE  /\ \E i \in 1..Len(infos) : infos[i].name = name
                     /\ Within(size, name)
                     /\ fitting # {} => OfFamily(perf, name)
  OBVIOUS
<1>1. name = infos[First(matched)].name
  BY Zenon DEF MatchInstancetypeBySize, FilterInstancetypesBySize
<1>2. /\ matched \subseteq sized /\ matched # {}
      /\ fitting # {} => matched = fitting
      /\ sized \subseteq 1..Len(infos)
  OBVIOUS
<1>. HIDE DEF matched, name
<1>3. First(matched) \in matched
  <2>1. matched \subseteq Nat
    BY <1>2
  <2>. QED  BY <1>2, <2>1, FirstPosition
<1>. QED  BY <1>1, <1>2, <1>3

\* The instance type of a machine is the one that is asked for.
AsAskedFor(made, infos, args) ==
    LET sized   == {it \in ToSet(infos) : Within(args.size, it.name)}
        fitting == {it \in sized : OfFamily(args.performance, it.name)}
    IN /\ args.instancetype # Empty => made.name = args.instancetype
       /\ args.instancetype = Empty /\ args.size # Empty =>
             /\ sized # {} => made # Nothing /\ Within(args.size, made.name)
             /\ fitting # {} => OfFamily(args.performance, made.name)

\* So is the one that is resolved.
LEMMA ResolvedAsAskedFor ==
    ASSUME NEW infos \in Seq(Listed), NEW args, NEW d
    PROVE  AsAskedFor(ResolveInstancetype(infos, args.instancetype, args.size,
                                          args.performance, d), infos, args)
<1>. DEFINE made == ResolveInstancetype(infos, args.instancetype, args.size,
                                        args.performance, d)
            name == MatchInstancetypeBySize(infos, args.size, args.performance)
            positions == {i \in 1..Len(infos) : Within(args.size, infos[i].name)}
            fits == {i \in positions : OfFamily(args.performance, infos[i].name)}
            sized   == {it \in ToSet(infos) : Within(args.size, it.name)}
            fitting == {it \in sized : OfFamily(args.performance, it.name)}
<1>1. CASE args.instancetype # Empty
  <2>1. made = Named(infos, args.instancetype)
    BY <1>1, Zenon DEF ResolveInstancetype
  <2>2. made.name = args.instancetype
    BY <2>1, NamedInfo
  <2>. HIDE DEF made
  <2>. QED  BY <1>1, <2>2 DEF AsAskedFor, made
<1>2. CASE args.instancetype = Empty /\ args.size = Empty
  BY <1>2, Zenon DEF AsAskedFor
<1>3. CASE args.instancetype = Empty /\ args.size # Empty /\ sized # {}
  <2>1. ToSet(infos) = {infos[i] : i \in 1..Len(infos)}
    BY DEF ToSet
  <2>2. positions # {} /\ (fitting # {} => fits # {})
    BY <1>3, <2>1
  <2>3. /\ \E i \in 1..Len(infos) : infos[i].name = name
        /\ Within(args.size, name)
        /\ fits # {} => OfFamily(args.performance, name)
    BY <2>2, MatchedBySize
  <2>. HIDE DEF name
  <2>4. \A info \in Listed : info # Nothing /\ info.name # Empty
    BY CatalogueAssumption DEF Listed
  <2>5. name # Empty
    <3>1. PICK i \in 1..Len(infos) : infos[i].name = name
      BY <2>3
    <3>2. infos[i] \in Listed
      OBVIOUS
    <3>. QED  BY <2>4, <3>1, <3>2
  <2>6. made = Named(infos, name)
    BY <1>3, <2>5, Zenon DEF ResolveInstancetype, name
  <2>7. made.name = name /\ made \in Listed
    BY <2>3, <2>6, NamedInfo
  <2>8. made # Nothing /\ Within(args.size, made.name)
    BY <2>3, <2>4, <2>7
  <2>9. fitting # {} => OfFamily(args.performance, made.name)
    BY <2>2, <2>3, <2>7
  <2>. HIDE DEF made, sized, fitting
  <2>. QED  BY <1>3, <2>8, <2>9, Zenon DEF AsAskedFor, made, sized, fitting
<1>4. CASE args.instancetype = Empty /\ args.size # Empty /\ sized = {}
  <2>1. fitting = {}
    BY <1>4
  <2>. HIDE DEF made, sized, fitting
  <2>. QED  BY <1>4, <2>1, Zenon DEF AsAskedFor, made, sized, fitting
<1>. QED  BY <1>1, <1>2, <1>3, <1>4

\* What a call knows of the lists, and what it has chosen from them for the
\* step it is at.
VMOK(call) ==
    /\ call.offer = [dataSources   |-> call.offer.dataSources,
                     preferences   |-> call.offer.preferences,
                     instancetypes |-> call.offer.instancetypes]
    /\ call.offer.instancetypes \in Seq(Listed)
    /\ call.vm # Nothing =>
          AsAskedFor(call.vm.instancetype, call.offer.instancetypes,
                     Head(call.todo).args)

VMInvariant == \A c \in Callers : VMOK(calls[c])

\* A step of one caller keeps the invariant when its call keeps it.
LEMMA OneVM ==
    ASSUME CallInvariant, VMInvariant, NEW c \in Callers, NEW after,
           Now(c, after), VMOK(after)
    PROVE  VMInvariant'
<1>1. \A d \in Callers : calls'[d] = IF d = c THEN after ELSE calls[d]
  <2>1. calls = [d \in Callers |-> calls[d]] /\ calls' = [calls EXCEPT ![c] = after]
    BY DEF CallInvariant, Now
  <2>. QED  BY <2>1
<1>. QED  BY <1>1 DEF VMInvariant

\* A call that stays at its step keeps what it has chosen.
LEMMA StayingVM ==
    ASSUME CallInvariant, VMInvariant, NEW c \in Callers, NEW after,
           Now(c, after), after.todo = calls[c].todo,
           after.offer = calls[c].offer, after.vm = calls[c].vm
    PROVE  VMInvariant'
<1>1. VMOK(calls[c])
  BY DEF VMInvariant
<1>2. VMOK(after)
  BY <1>1, Zenon DEF VMOK
<1>. QED  BY <1>2, OneVM

\* Nothing is chosen yet for the step that comes next.
Unchosen(after, call) ==
    after.vm = Nothing /\ after.offer \in {call.offer, NoOffer}

\* Of a call that has seen no lists.
LEMMA NothingOffered ==
    ASSUME NEW call, call.offer = NoOffer, call.vm = Nothing
    PROVE  VMOK(call)
<1>1. /\ NoOffer = [dataSources   |-> NoOffer.dataSources,
                    preferences   |-> NoOffer.preferences,
                    instancetypes |-> NoOffer.instancetypes]
      /\ NoOffer.instancetypes \in Seq(Listed)
  BY DEF NoOffer
<1>. QED  BY <1>1, Zenon DEF VMOK

\* A call keeps the invariant when it chooses nothing.
LEMMA LeavingVM ==
    ASSUME CallInvariant, VMInvariant, NEW c \in Callers, NEW after,
           Now(c, after), Unchosen(after, calls[c])
    PROVE  VMInvariant'
<1>1. VMOK(calls[c])
  BY DEF VMInvariant
<1>2. VMOK(after)
  <2>1. CASE after.offer = calls[c].offer
    BY <1>1, <2>1, Zenon DEF VMOK, Unchosen
  <2>2. CASE after.offer = NoOffer
    BY <2>2, NothingOffered DEF Unchosen
  <2>. QED  BY <2>1, <2>2 DEF Unchosen
<1>. QED  BY <1>2, OneVM

\* What is left unchosen when a step is left, and a call ends or begins.
LEMMA UnchosenCalls ==
    ASSUME NEW call, IsCall(call), NEW x, NEW y
    PROVE  /\ Unchosen(Ended(call, x), call)
           /\ Unchosen(Begun(x, y), call)
           /\ Unchosen(Popped(call), call)
           /\ Unchosen(Answered(call), call)
           /\ Unchosen([Popped(call) EXCEPT !.listed = x], call)
           /\ Unchosen([Popped(call) EXCEPT !.granted = x], call)
           /\ Unchosen([Answered(call) EXCEPT !.read = x], call)
           /\ Unchosen([Answered(call) EXCEPT !.read = x, !.info = y], call)
<1>1. Unchosen(Ended(call, x), call) /\ Unchosen(Begun(x, y), call)
  <2>1. Ended(call, x).vm = Nothing /\ Ended(call, x).offer = NoOffer
    BY DEF Ended, Idle
  <2>2. Begun(x, y).vm = Nothing /\ Begun(x, y).offer = NoOffer
    BY DEF Begun, Idle
  <2>. QED  BY <2>1, <2>2, Zenon DEF Unchosen
<1>. USE DEF Unchosen, IsCall, CallFields, Popped, Answered
<1>2. Unchosen(Popped(call), call) /\ Unchosen(Answered(call), call)
  OBVIOUS
<1>3. /\ Unchosen([Popped(call) EXCEPT !.listed = x], call)
      /\ Unchosen([Popped(call) EXCEPT !.granted = x], call)
  OBVIOUS
<1>4. /\ Unchosen([Answered(call) EXCEPT !.read = x], call)
      /\ Unchosen([Answered(call) EXCEPT !.read = x, !.info = y], call)
  OBVIOUS
<1>. QED  BY <1>1, <1>2, <1>3, <1>4

\* A call that fails has chosen nothing.
LEMMA FailingVM ==
    ASSUME CallInvariant, VMInvariant, NEW c \in Callers, Now(c, Failed(calls[c]))
    PROVE  VMInvariant'
<1>. DEFINE call == calls[c]
            step == Head(call.todo)
            on   == IF step.kind = "Review" THEN [call EXCEPT !.granted = FALSE]
                    ELSE [call EXCEPT !.answered = FALSE,
                                      !.listed = @ /\ ~IsList(step)]
<1>1. IsCall(call)
  BY CallOf
<1>2. CASE step.must
  <2>1. Failed(call) = Ended(call, "error")
    BY <1>2 DEF Failed
  <2>2. \A x : Unchosen(Ended(call, x), call)
    BY <1>1, UnchosenCalls
  <2>. QED  BY <2>1, <2>2, LeavingVM
<1>3. CASE ~step.must
  <2>1. Failed(call) = Popped(on)
    BY <1>3, Zenon DEF Failed
  <2>2. on.offer = call.offer /\ IsCall(on)
    BY <1>1 DEF IsCall, CallFields
  <2>. HIDE DEF on
  <2>3. Unchosen(Popped(on), on)
    BY <2>2, UnchosenCalls
  <2>4. Unchosen(Failed(call), call)
    BY <2>1, <2>2, <2>3 DEF Unchosen
  <2>. QED  BY <2>4, LeavingVM
<1>. QED  BY <1>2, <1>3

\* What a list finds is kept with what was found before.
LEMMA FoundInfos ==
    ASSUME NEW offer, NEW step, step.kind \in DOMAIN Catalogue,
           offer = [dataSources   |-> offer.dataSources,
                    preferences   |-> offer.preferences,
                    instancetypes |-> offer.instancetypes],
           offer.instancetypes \in Seq(Listed)
    PROVE  LET after == Found(offer, step)
           IN /\ after = [dataSources   |-> after.dataSources,
                          preferences   |-> after.preferences,
                          instancetypes |-> after.instancetypes]
              /\ after.instancetypes \in Seq(Listed)
<1>. DEFINE found == Catalogue[step.kind]
            after == Found(offer, step)
<1>1. found \in Seq(Listed)
  <2>1. found \in Seq(ToSet(found))
    BY CatalogueAssumption, Zenon
  <2>2. ToSet(found) \subseteq Listed
    BY DEF Listed
  <2>. HIDE DEF found
  <2>. QED  BY <2>1, <2>2
<1>2. step.kind \in {"DataSource", "ClusterPreference", "Preference",
                     "ClusterInstancetype", "Instancetype"}
  BY CatalogueAssumption, Zenon
<1>3. \/ \E x : after = [offer EXCEPT !.dataSources = x]
      \/ \E x : after = [offer EXCEPT !.preferences = x]
      \/ after = [offer EXCEPT !.instancetypes = offer.instancetypes \o found]
  <2>1. CASE step.kind = "DataSource"
    BY <2>1, Zenon DEF Found
  <2>2. CASE step.kind \in {"ClusterPreference", "Preference"}
    BY <2>2, Zenon DEF Found
  <2>3. CASE step.kind \in {"ClusterInstancetype", "Instancetype"}
    BY <2>3, Zenon DEF Found
  <2>. QED  BY <1>2, <2>1, <2>2, <2>3, Zenon
<1>. HIDE DEF found, after
<1>4. offer.instancetypes \o found \in Seq(Listed)
  BY <1>1
<1>. QED  BY <1>3, <1>4 DEF after

\* The machine that is chosen is as it was asked for.
LEMMA ChosenAsAskedFor ==
    ASSUME NEW call, call.offer.instancetypes \in Seq(Listed),
           NEW vm \in Chosen(call), vm # Nothing
    PROVE  AsAskedFor(vm.instancetype, call.offer.instancetypes,
                      Head(call.todo).args)
<1>. DEFINE args  == Head(call.todo).args
            infos == call.offer.instancetypes
            it(d) == ResolveInstancetype(infos, args.instancetype, args.size,
                                         args.performance, d)
<1>1. \E d, p : vm = buildTemplateParams(args, d, it(d), p)
  BY Zenon DEF Chosen, create
<1>2. PICK d, p : vm = buildTemplateParams(args, d, it(d), p)
  BY <1>1
<1>. HIDE DEF it
<1>3. vm.instancetype = it(d)
  BY <1>2 DEF buildTemplateParams
<1>4. AsAskedFor(it(d), infos, args)
  BY ResolvedAsAskedFor DEF it
<1>. QED  BY <1>3, <1>4

\* A call begins, ends, is confirmed, or passes the access control: it chooses
\* a machine only when its request is let through by the lists.
LEMMA ControlVM ==
    ASSUME CallInvariant, VMInvariant, NEW c \in Callers,
           \/ Call(c) \/ CallAsTheGuideSays(c) \/ ConfirmTool(c) \/ Skip(c)
           \/ Finish(c) \/ Reject(c) \/ RejectNameless(c)
           \/ AskForTheLicence(c) \/ Send(c) \/ Check(c) \/ Delegate(c)
    PROVE  VMInvariant'
<1>. DEFINE call == calls[c]
<1>1. IsCall(call)
  BY CallOf
<1>2. ASSUME NEW after, Now(c, after), Unchosen(after, call)
      PROVE  VMInvariant'
  BY <1>2, LeavingVM
<1>3. ASSUME NEW after, Now(c, after), after.todo = call.todo,
             after.offer = call.offer, after.vm = call.vm
      PROVE  VMInvariant'
  BY <1>3, StayingVM
<1>4. ASSUME Now(c, Failed(call))
      PROVE  VMInvariant'
  BY <1>4, FailingVM
<1>5. \A x, y : /\ Unchosen(Ended(call, x), call)
                /\ Unchosen(Begun(x, y), call)
                /\ Unchosen([Popped(call) EXCEPT !.listed = x], call)
  BY <1>1, UnchosenCalls
<1>6. CASE Call(c) \/ CallAsTheGuideSays(c)
  <2>1. \E x, y : Now(c, Begun(x, y))
    BY <1>6, Zenon DEF Call, CallAsTheGuideSays
  <2>. QED  BY <1>2, <1>5, <2>1
<1>7. CASE Finish(c) \/ Reject(c) \/ RejectNameless(c) \/ AskForTheLicence(c)
  <2>1. \E x : Now(c, Ended(call, x))
    BY <1>7, Zenon DEF Finish, Reject, RejectNameless, AskForTheLicence
  <2>. QED  BY <1>2, <1>5, <2>1
<1>8. CASE Skip(c)
  <2>1. \E x : Now(c, [Popped(call) EXCEPT !.listed = x])
    <3>1. Now(c, [Popped(call) EXCEPT !.listed = @ /\ ~IsList(Head(call.todo))])
      BY <1>8, Zenon DEF Skip
    <3>. QED  BY <3>1, Zenon
  <2>. QED  BY <1>2, <1>5, <2>1
<1>9. CASE ConfirmTool(c)
  <2>1. \/ Now(c, Ended(call, "error"))
        \/ \E x : Now(c, [call EXCEPT !.phase = "next", !.confirmed = x])
    BY <1>9, Zenon DEF ConfirmTool
  <2>2. ASSUME NEW x, Now(c, [call EXCEPT !.phase = "next", !.confirmed = x])
        PROVE  VMInvariant'
    <3>. DEFINE after == [call EXCEPT !.phase = "next", !.confirmed = x]
    <3>1. /\ after.todo = call.todo /\ after.offer = call.offer
          /\ after.vm = call.vm
      BY <1>1 DEF IsCall, CallFields
    <3>. HIDE DEF after
    <3>. QED  BY <1>3, <2>2, <3>1 DEF after
  <2>. QED  BY <1>2, <1>5, <2>1, <2>2
<1>10. ASSUME Now(c, [call EXCEPT !.phase = "sent"])
       PROVE  VMInvariant'
  <2>. DEFINE after == [call EXCEPT !.phase = "sent"]
  <2>1. after.todo = call.todo /\ after.offer = call.offer /\ after.vm = call.vm
    BY <1>1 DEF IsCall, CallFields
  <2>. HIDE DEF after
  <2>. QED  BY <1>3, <1>10, <2>1 DEF after
<1>11. CASE Delegate(c)
  BY <1>10, <1>11, Zenon DEF Delegate
<1>12. CASE Check(c)
  <2>1. \/ Now(c, Failed(call))
        \/ \E x, y, z : Now(c, [call EXCEPT !.checks = x, !.asked = y,
                                            !.unsure = z])
    BY <1>12, Zenon DEF Check
  <2>2. ASSUME NEW x, NEW y, NEW z,
               Now(c, [call EXCEPT !.checks = x, !.asked = y, !.unsure = z])
        PROVE  VMInvariant'
    <3>. DEFINE after == [call EXCEPT !.checks = x, !.asked = y, !.unsure = z]
    <3>1. /\ after.todo = call.todo /\ after.offer = call.offer
          /\ after.vm = call.vm
      BY <1>1 DEF IsCall, CallFields
    <3>. HIDE DEF after
    <3>. QED  BY <1>3, <2>2, <3>1 DEF after
  <2>. QED  BY <1>4, <2>1, <2>2
<1>13. CASE Send(c)
  <2>1. \/ Now(c, [call EXCEPT !.phase = "sent"])
        \/ Now(c, Failed(call))
        \/ \E vm \in Chosen(call) :
              Now(c, [call EXCEPT !.phase = "checking", !.vm = vm,
                                  !.checks = Validators(settings)])
    BY <1>13, Zenon DEF Send
  <2>2. ASSUME NEW vm \in Chosen(call), NEW checks,
               Now(c, [call EXCEPT !.phase = "checking", !.vm = vm,
                                   !.checks = checks])
        PROVE  VMInvariant'
    <3>. DEFINE after == [call EXCEPT !.phase = "checking", !.vm = vm,
                                      !.checks = checks]
    <3>1. after.todo = call.todo /\ after.offer = call.offer /\ after.vm = vm
      BY <1>1 DEF IsCall, CallFields
    <3>. HIDE DEF after
    <3>2. VMOK(call)
      BY DEF VMInvariant
    <3>3. vm # Nothing => AsAskedFor(vm.instancetype, call.offer.instancetypes,
                                     Head(call.todo).args)
      BY <3>2, ChosenAsAskedFor DEF VMOK
    <3>4. VMOK(after)
      BY <3>1, <3>2, <3>3, Zenon DEF VMOK
    <3>. QED  BY <2>2, <3>4, OneVM DEF after
  <2>. QED  BY <1>4, <1>10, <2>1, <2>2
<1>. QED  BY <1>6, <1>7, <1>8, <1>9, <1>11, <1>12, <1>13

\* The API server answers.
LEMMA ServingVM ==
    ASSUME CallInvariant, VMInvariant, NEW c \in Callers,
           \/ ServeFailure(c) \/ ServeGet(c) \/ ServeList(c) \/ ServeCreate(c)
           \/ ServeApply(c) \/ ServeUpdate(c) \/ ServeDelete(c)
    PROVE  VMInvariant'
<1>. DEFINE call == calls[c]
            step == Current(call)
<1>1. IsCall(call)
  BY CallOf
<1>2. ASSUME NEW after, Now(c, after), Unchosen(after, call)
      PROVE  VMInvariant'
  BY <1>2, LeavingVM
<1>3. CASE ServeFailure(c)
  <2>1. Now(c, Failed(call))
    BY <1>3, Zenon DEF ServeFailure
  <2>. QED  BY <2>1, FailingVM
<1>4. CASE ServeGet(c)
  <2>1. \E x, y : Now(c, [Answered(call) EXCEPT !.read = x, !.info = y])
    BY <1>4, Zenon DEF ServeGet
  <2>. QED  BY <1>1, <1>2, <2>1, UnchosenCalls
<1>5. CASE ServeCreate(c)
  <2>1. \/ \E x : Now(c, [Popped(call) EXCEPT !.granted = x])
        \/ Now(c, Answered(call))
    BY <1>5, Zenon DEF ServeCreate
  <2>. QED  BY <1>1, <1>2, <2>1, UnchosenCalls
<1>6. CASE ServeApply(c) \/ ServeDelete(c)
  <2>1. Now(c, Answered(call))
    BY <1>6, Zenon DEF ServeApply, ServeDelete
  <2>. QED  BY <1>1, <1>2, <2>1, UnchosenCalls
<1>7. CASE ServeUpdate(c)
  <2>1. \E x : Now(c, [Answered(call) EXCEPT !.read = x])
    BY <1>7, Zenon DEF ServeUpdate
  <2>. QED  BY <1>1, <1>2, <2>1, UnchosenCalls
<1>8. CASE ServeList(c)
  <2>. DEFINE offer == IF step.kind \in DOMAIN Catalogue
                       THEN Found(call.offer, step) ELSE call.offer
  <2>1. \E x : Now(c, [Answered(call) EXCEPT !.listed = x, !.offer = offer])
    <3>1. Answered(call).offer = call.offer
      BY <1>1 DEF Answered, Popped, IsCall, CallFields
    <3>2. \E some : Now(c, [Answered(call) EXCEPT
                              !.listed = some,
                              !.offer = IF step.kind \in DOMAIN Catalogue
                                        THEN Found(@, step) ELSE @])
      BY <1>8, Zenon DEF ServeList
    <3>. QED  BY <3>1, <3>2, Zenon
  <2>2. VMOK(call)
    BY DEF VMInvariant
  <2>3. /\ offer = [dataSources   |-> offer.dataSources,
                    preferences   |-> offer.preferences,
                    instancetypes |-> offer.instancetypes]
        /\ offer.instancetypes \in Seq(Listed)
    <3>1. CASE step.kind \in DOMAIN Catalogue
      <4>1. offer = Found(call.offer, step)
        BY <3>1
      <4>. HIDE DEF offer, step
      <4>. QED  BY <2>2, <3>1, <4>1, FoundInfos, Zenon DEF VMOK
    <3>2. CASE step.kind \notin DOMAIN Catalogue
      BY <2>2, <3>2, Zenon DEF VMOK
    <3>. QED  BY <3>1, <3>2
  <2>. HIDE DEF offer
  <2>4. PICK x : Now(c, [Answered(call) EXCEPT !.listed = x, !.offer = offer])
    BY <2>1
  <2>. DEFINE after == [Answered(call) EXCEPT !.listed = x, !.offer = offer]
  <2>5. after.vm = Nothing /\ after.offer = offer
    BY <1>1 DEF Answered, Popped, IsCall, CallFields
  <2>. HIDE DEF after
  <2>6. VMOK(after)
    BY <2>3, <2>5, Zenon DEF VMOK
  <2>. QED  BY <2>4, <2>6, OneVM DEF after
<1>. QED  BY <1>3, <1>4, <1>5, <1>6, <1>7, <1>8

\* vm_create makes the machine it was asked for, whatever the cluster lists
\* and in whatever order, and whichever of the lists cannot be had.
THEOREM MachinesAreAsAskedFor == Spec => []TheVMIsAsAskedFor
<1>1. ASSUME Init PROVE VMInvariant
  <2>1. \A c \in Callers : calls[c] = Idle
    BY <1>1, Zenon DEF Init
  <2>2. Idle.offer = NoOffer /\ Idle.vm = Nothing
    BY DEF Idle
  <2>3. VMOK(Idle)
    BY <2>2, NothingOffered
  <2>. QED  BY <2>1, <2>3 DEF VMInvariant
<1>2. ASSUME CallInvariant, VMInvariant, [Next]_vars PROVE VMInvariant'
  <2>1. ASSUME NEW c \in Callers,
               \/ Call(c) \/ ConfirmTool(c) \/ CallAsTheGuideSays(c)
               \/ Skip(c) \/ Finish(c) \/ Reject(c) \/ RejectNameless(c)
               \/ AskForTheLicence(c)
               \/ Send(c) \/ Check(c) \/ Delegate(c)
               \/ ServeFailure(c) \/ ServeGet(c) \/ ServeList(c)
               \/ ServeCreate(c) \/ ServeApply(c) \/ ServeUpdate(c)
               \/ ServeDelete(c)
        PROVE  VMInvariant'
    BY <1>2, <2>1, ControlVM, ServingVM, Zenon
  <2>2. ASSUME NEW k \in Tracked, Others(k) PROVE VMInvariant'
    <3>1. UNCHANGED calls
      BY <2>2, Zenon DEF Others
    <3>. QED  BY <1>2, <3>1 DEF VMInvariant
  <2>3. ASSUME UNCHANGED vars PROVE VMInvariant'
    BY <1>2, <2>3 DEF vars, VMInvariant
  <2>. QED  BY <1>2, <2>1, <2>2, <2>3, Zenon DEF Next, Terminated
<1>3. ASSUME VMInvariant PROVE TheVMIsAsAskedFor
  <2>1. ASSUME NEW c \in Callers, calls[c].vm # Nothing
        PROVE  AsAskedFor(calls[c].vm.instancetype, calls[c].offer.instancetypes,
                          Head(calls[c].todo).args)
    BY <1>3, <2>1, Zenon DEF VMInvariant, VMOK
  <2>. QED  BY <2>1, Zenon DEF TheVMIsAsAskedFor, AsAskedFor
<1>. QED  BY <1>1, <1>2, <1>3, CallsKeepTheirInvariant, PTL DEF Spec

=============================================================================
