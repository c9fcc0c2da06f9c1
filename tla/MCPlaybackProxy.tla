--------------------------- MODULE MCPlaybackProxy ---------------------------
(***************************************************************************)
(* Small instances of the playback proxy: requests from one address, the   *)
(* first of a user, the others anonymous.                                  *)
(***************************************************************************)
EXTENDS PlaybackProxy, TLC

CONSTANTS n1, n2, q1, q2, q3, g1, g2    \* q1 is the request of a user

MCIpOf == [q \in Media |-> "ip"]
MCUserOf == [q \in Media |-> IF q = q1 THEN "user" ELSE "none"]

ProxySymmetry == Permutations(Nodes) \cup Permutations(Grants)
=============================================================================
