------------------------------- MODULE KubeAPI -------------------------------
(***************************************************************************)
(* The vocabulary in which the tools' handlers are written: what a request *)
(* to the API server is, and how a handler strings requests together.      *)
(*                                                                         *)
(* A handler is a program, a sequence of steps.  A step is a request with  *)
(* two marks: must, an error of it is the error of the tool call (in a     *)
(* step without it the code drops the error), and when, the condition on   *)
(* what has been read so far under which the step is taken.  What a        *)
(* handler does with optional arguments is a set of programs.              *)
(*                                                                         *)
(* Simplifications.                                                        *)
(*   - A kind stands for its objects of the name and namespace a call is   *)
(*     about, and the plural of a kind is the kind.                        *)
(*   - Requests of discovery pass the access control and change nothing:   *)
(*     they are left out.                                                  *)
(***************************************************************************)
EXTENDS Naturals, Sequences

\* What a handler leaves out: a field it does not set, a part a path has not.
Empty == ""

Core == {"Pod", "Service", "Secret", "Event", "Namespace", "Node", "PVC"}

Group(k) ==
    CASE k \in Core -> Empty
      [] k \in {"VM", "VMI"} -> "kubevirt.io"
      [] k \in {"Pipeline", "PipelineRun", "Task", "TaskRun"} -> "tekton.dev"
      [] k \in {"Deployment", "StatefulSet", "DaemonSet"} -> "apps"
      [] k = "Review" -> "authorization.k8s.io"
      [] k = "Absent" -> "no.such.group"
      [] OTHER -> "other"

Namespaced(k) == k \notin {"Node", "Namespace", "Project", "NodeMetrics",
                           "ClusterOperator", "Review", "ClusterPreference",
                           "ClusterInstancetype"}

Resource(k) == IF k = "Namespace" THEN "namespaces" ELSE k

\* The path that client-go makes of a request: the object is named or not,
\* sub is its subresource, all that the request is about every namespace.
Path(k, named, sub, all) ==
       (IF Group(k) = Empty THEN <<"api", "v1">> ELSE <<"apis", Group(k), "v1">>)
    \o (IF Namespaced(k) /\ ~all THEN <<"namespaces", "ns">> ELSE <<>>)
    \o <<Resource(k)>>
    \o (IF named THEN <<"name">> ELSE <<>>)
    \o (IF sub # Empty THEN <<sub>> ELSE <<>>)

-----------------------------------------------------------------------------
(* Steps.  A request writes value; "same" stands for what has been read.   *)
(* Of a list, value says in which namespace it is, "" for the call's own.  *)
(* args are what vm_create is asked for.                                   *)

NoArguments == [instancetype |-> Empty, preference |-> Empty, size |-> Empty,
                performance |-> Empty, workload |-> Empty]

Request(method, k, named, sub) ==
    [method |-> method, kind |-> k, sub |-> sub, named |-> named,
     path |-> Path(k, named, sub, FALSE), value |-> Empty,
     args |-> NoArguments, must |-> TRUE, when |-> "always"]

Get(k)            == Request("GET", k, TRUE, Empty)
GetSub(k, sub)    == Request("GET", k, TRUE, sub)
List(k)           == Request("GET", k, FALSE, Empty)
ListIn(k, ns)     == [List(k) EXCEPT !.value = ns]
ListAll(k)        == [List(k) EXCEPT !.path = Path(k, FALSE, Empty, TRUE),
                                      !.value = "all"]
Create(k, v)      == [Request("POST", k, FALSE, Empty) EXCEPT !.value = v]
Apply(k, v)       == [Request("PATCH", k, TRUE, Empty) EXCEPT !.value = v]
Update(k, v)      == [Request("PUT", k, TRUE, Empty) EXCEPT !.value = v]
UpdateSub(k, s, v) == [Request("PUT", k, TRUE, s) EXCEPT !.value = v]
Delete(k)         == Request("DELETE", k, TRUE, Empty)

\* The access review by which a handler asks what it may do.
Review == Request("POST", "Review", FALSE, Empty)

Try(step)        == [step EXCEPT !.must = FALSE]
When(cond, step) == [step EXCEPT !.when = cond]

\* The handler returns an error before its first request: an argument is
\* missing or malformed.
Refuse == [Get("Absent") EXCEPT !.when = "refused"]

\* The user is asked to accept the licence of Windows.
AskForEULA == [Get("EULA") EXCEPT !.method = "ELICIT"]

\* Kiali is asked through an HTTP client of its own, not through the client
\* of the cluster; it does what it is asked for itself.
Kiali(what) == [Get("Kiali") EXCEPT !.method = "POST", !.value = what]

\* A program that checks its arguments first.
Checked(programs) == programs \cup {<<Refuse>>}

Writes(request) ==
    /\ request.method \in {"POST", "PUT", "PATCH", "DELETE"}
    /\ request.kind # "Review"
    /\ request.kind = "Kiali" => request.value = "manage"

-----------------------------------------------------------------------------
(* Tools: what they say of themselves, and what they do.                   *)

Reader      == [readOnly |-> TRUE, destructive |-> FALSE]
Additive    == [readOnly |-> FALSE, destructive |-> FALSE]
Destructive == [readOnly |-> FALSE, destructive |-> TRUE]

Tool(hints, programs) == [hints |-> hints, does |-> programs]

\* The tools, or the prompts, of two lists under their names.
f ++ g == [x \in DOMAIN f \cup DOMAIN g |->
              IF x \in DOMAIN f THEN f[x] ELSE g[x]]
=============================================================================
