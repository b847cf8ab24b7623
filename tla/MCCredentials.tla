---------------------------- MODULE MCCredentials ----------------------------
(* The instance of Credentials for TLC: one channel, a consent for it or  *)
(* for another account, and two threads.                                   *)
EXTENDS Credentials
=============================================================================
