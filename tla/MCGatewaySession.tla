-------------------------- MODULE MCGatewaySession --------------------------
(* TLC instances of GatewaySession.                                        *)
EXTENDS GatewaySession, TLC

\* Sessions and connections are interchangeable names.
Names == Permutations(Sessions) \cup Permutations(Conns)
=============================================================================
