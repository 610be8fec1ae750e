------------------------------ MODULE Failures ------------------------------
(***************************************************************************)
(* What becomes of an upstream's answer: the outcome an OpenAI-compatible  *)
(* adapter reports of it, and the two classifiers.  The adapter's names    *)
(* the kind that is retried on and logged; the router's the kind that is   *)
(* cooled.                                                                 *)
(*                                                                         *)
(* An answer is a status, or none when the connection failed, and what its *)
(* body or the exception says, as far as a pattern tells it apart.         *)
(***************************************************************************)
EXTENDS Integers, TLC

NoStatus == 0

Answer == [status : Nat, says : {"plain", "abort", "dns", "context", "filter", "balance",
                                 "auth", "unreadable"}]

Retriable == {"rate_limited", "timeout", "network_error", "provider_unavailable",
              "invalid_response"}

ServerError(a) == 500 <= a.status /\ a.status < 600

KindOfStatus ==
    [s \in {400, 401, 402, 403, 404, 408, 413, 422, 429, 451} |->
        CASE s = 400 -> "bad_request"      [] s = 401 -> "auth_failure"
          [] s = 402 -> "balance_insufficient" [] s = 403 -> "forbidden"
          [] s = 404 -> "not_found"        [] s = 408 -> "timeout"
          [] s = 413 -> "context_overflow" [] s = 422 -> "unsupported_capability"
          [] s = 429 -> "rate_limited"     [] s = 451 -> "content_filter"]

(* Mutant: 500 itself is no server error.                                  *)
ProviderKindAbove500(a) ==
    IF a.status = NoStatus THEN IF a.says = "abort" THEN "timeout" ELSE "network_error"
    ELSE IF a.status \in DOMAIN KindOfStatus THEN KindOfStatus[a.status]
    ELSE IF ServerError(a) /\ a.status > 500 THEN "provider_unavailable" ELSE "unknown"

(* classifyProviderError.                                                  *)
ProviderKind(a) ==
    IF a.status = NoStatus THEN IF a.says = "abort" THEN "timeout" ELSE "network_error"
    ELSE IF a.status \in DOMAIN KindOfStatus THEN KindOfStatus[a.status]
    ELSE IF ServerError(a) THEN "provider_unavailable" ELSE "unknown"

RoutingOfStatus ==
    403 :> "forbidden" @@ 404 :> "not_found" @@ 408 :> "timeout" @@
    413 :> "context_overflow" @@ 425 :> "rate_limited" @@ 429 :> "rate_limited" @@
    451 :> "content_filter" @@ 402 :> "balance_insufficient"

RoutingOfText ==
    "context" :> "context_overflow" @@ "filter" :> "content_filter" @@
    "balance" :> "balance_insufficient"

(* classifyRoutingError: kind.                                             *)
RoutingKind(a) ==
    IF a.status = NoStatus THEN ProviderKind(a)
    ELSE IF a.status \in {400, 422} THEN
         IF a.says \in DOMAIN RoutingOfText THEN RoutingOfText[a.says] ELSE "bad_request"
    ELSE IF a.status = 401 THEN IF a.says = "auth" THEN "auth_failure" ELSE "unauthorized"
    ELSE IF a.status \in DOMAIN RoutingOfStatus THEN RoutingOfStatus[a.status]
    ELSE IF ServerError(a) THEN "provider_unavailable"
    ELSE IF 200 <= a.status /\ a.status < 300 /\ a.says = "unreadable" THEN "invalid_response"
    ELSE "unknown"

(* classifyRoutingError: retriable, and providerLevel.                     *)
RoutingRetriable(a) == RoutingKind(a) \in Retriable
BenchesProvider(a) ==
    \/ a.status = NoStatus /\ a.says = "dns"
    \/ RoutingKind(a) \in {"balance_insufficient", "auth_failure", "unauthorized"}
    \/ a.status = 503

-----------------------------------------------------------------------------
(* The adapter.  An outcome's kind is "none" when the call went well; an   *)
(* exception that reaches the executor is classified by the router.        *)

Outcome == [ok : BOOLEAN, thrown : BOOLEAN, status : Nat, kind : STRING]
Ok(s) == [ok |-> TRUE, thrown |-> FALSE, status |-> s, kind |-> "none"]
Bad(s, kind) == [ok |-> FALSE, thrown |-> FALSE, status |-> s, kind |-> kind]

Good(a) == 200 <= a.status /\ a.status < 300

(* complete, and embed: a body that cannot be read is a failure without a  *)
(* status, like a connection that failed or was aborted.                   *)
Complete(a) ==
    IF ~Good(a) THEN Bad(a.status, ProviderKind(a))
    ELSE IF a.says \in {"unreadable", "abort"}
         THEN Bad(NoStatus, ProviderKind([status |-> NoStatus, says |-> a.says]))
         ELSE Ok(a.status)

(* stream, up to the first chunk runStream waits for: a failing fetch      *)
(* throws, a torn first chunk is invalid_response, and a stream that ends  *)
(* without one went well.                                                  *)
Stream(a) ==
    IF a.status = NoStatus
    THEN [ok |-> FALSE, thrown |-> TRUE, status |-> NoStatus, kind |-> RoutingKind(a)]
    ELSE IF ~Good(a) THEN Bad(a.status, ProviderKind(a))
    ELSE IF a.says = "unreadable" THEN Bad(a.status, "invalid_response")
    ELSE IF a.says = "abort" THEN Bad(a.status, "timeout")
    ELSE Ok(a.status)
=============================================================================
