----------------------------- MODULE AdminService -----------------------------
(***************************************************************************)
(* src/admin.rs: the status of the answer to a request, which depends on   *)
(* the path, on the readiness flag and on whether the metrics encode.      *)
(***************************************************************************)
EXTENDS Naturals

Paths == {"/health", "/healthz", "/ready", "/readyz", "/metrics", "/"}

\* AdminService::new: the flag is created as FALSE and set at once.
NewReadiness == TRUE

ReadinessResponse(ready) == IF ready THEN 200 ELSE 503

\* Metrics::encode: the registry's mutex may be poisoned, and the encoder may fail.
Encode(poisoned, encoder_fails) == ~poisoned /\ ~encoder_fails

\* A failure is answered, not raised.
MetricsResponse(encoded) == IF encoded THEN 200 ELSE 500

HandleRequest(ready, path, encoded) ==
  CASE path \in {"/health", "/healthz"} -> 200
    [] path \in {"/ready", "/readyz"} -> ReadinessResponse(ready)
    [] path = "/metrics" -> MetricsResponse(encoded)
    [] OTHER -> 404
===============================================================================
