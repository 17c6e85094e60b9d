------------------------------- MODULE Requests -------------------------------
(* The requests that pass the rate limiter (RateLimiter) and the check of   *)
(* their idempotency key (Idempotency) before a handler runs, and what a    *)
(* missing value is.                                                        *)
CONSTANTS Request, None
=============================================================================
