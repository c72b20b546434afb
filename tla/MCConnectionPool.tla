-------------------------- MODULE MCConnectionPool --------------------------
(* Constants for model checking ConnectionPool. *)
EXTENDS ConnectionPool, TLC

CONSTANTS o1, o2, s1, s2, s3, u1

\* The default settings with pools by credentials and a limit; without the probe; and with the limit
\* at one stream.
SettingsDef ==
  {[echo |-> TRUE,  dirty |-> 0, limit |-> 2, byAuth |-> TRUE,  uses |-> {"command", "auth", "close"}],
   [echo |-> TRUE,  dirty |-> 0, limit |-> 1, byAuth |-> FALSE, uses |-> {"command", "select"}],
   [echo |-> FALSE, dirty |-> 1, limit |-> 0, byAuth |-> FALSE, uses |-> {"command", "watch", "multi", "exec"}],
   [echo |-> FALSE, dirty |-> 2, limit |-> 2, byAuth |-> FALSE, uses |-> {"command", "multi", "pipeline", "exec"}]}

Symmetry == Permutations(Objects) \cup Permutations(Streams)
=============================================================================
