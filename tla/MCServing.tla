----------------------------- MODULE MCServing -----------------------------
(***************************************************************************)
(* An instance of Serving: two requests, one session, configurations that  *)
(* differ in their limits, in the issuer, and in how tokens are passed on. *)
(***************************************************************************)
EXTENDS Serving, TLC

\* Requests are alike; no property is about liveness.
Interchangeable == Permutations(Calls)

Open == [rate |-> 0, burst |-> 0, requireOAuth |-> FALSE, issuer |-> "",
         mode |-> "kubeconfig", exchange |-> "none", params |-> "none"]

MCConfigs ==
    { Open,
      [Open EXCEPT !.rate = 1, !.burst = 1, !.requireOAuth = TRUE,
                   !.mode = "passthrough"],
      [Open EXCEPT !.rate = 1, !.requireOAuth = TRUE, !.issuer = "a",
                   !.mode = "passthrough", !.exchange = "strategy",
                   !.params = "p"],
      [Open EXCEPT !.rate = 1, !.burst = 1, !.requireOAuth = TRUE,
                   !.issuer = "b", !.mode = "passthrough",
                   !.exchange = "strategy", !.params = "p"],
      [Open EXCEPT !.requireOAuth = TRUE, !.issuer = "b",
                   !.mode = "passthrough", !.exchange = "sts",
                   !.params = "q"] }
=============================================================================
