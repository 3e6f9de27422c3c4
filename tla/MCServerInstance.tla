-------------------------- MODULE MCServerInstance --------------------------
(* Instances of ServerInstance for TLC.                                    *)
EXTENDS ServerInstance, TLC

CONSTANTS s1, s2, s3, q1, q2

MCServer == {s1, s2, s3}
MCTwoServers == {s1, s2}
MCOneQuitter == {q1}
MCTwoQuitters == {q1, q2}
=============================================================================
