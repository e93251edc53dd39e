---------------------------- MODULE MCOnceGuard ----------------------------
(* Four callers, any number of which fail before one succeeds.             *)
EXTENDS OnceGuard
=============================================================================
