--------------------------- MODULE MCTunnelClient ---------------------------
(* TunnelClient for TLC: one refusal of each kind handshakeRejection tells    *)
(* apart, and the requests made interchangeable.                              *)
EXTENDS TunnelClient, TLC

\* A terminal and a retryable reason, and both kinds of answer without one.
MCRefusals == {[status |-> 403, reason |-> "not_staked"],
               [status |-> 503, reason |-> "staking_unavailable"],
               [status |-> 401, reason |-> ""],
               [status |-> 502, reason |-> ""]}

MCSymmetry == Permutations(Requests)
=============================================================================
