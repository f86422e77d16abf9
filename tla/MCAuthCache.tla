---------------------------- MODULE MCAuthCache -----------------------------
(* TLC's constants are the model values of AuthCache.cfg. *)
EXTENDS AuthCache

=============================================================================
