--------------------------- MODULE MCRateLimiter ---------------------------
(***************************************************************************)
(* A small instance of RateLimiter: limits of two requests and one post,   *)
(* two minutes, and two requests in progress.                              *)
(***************************************************************************)
EXTENDS RateLimiter

MCMinutes == 0 .. 1
=============================================================================
