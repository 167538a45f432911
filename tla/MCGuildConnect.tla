--------------------------- MODULE MCGuildConnect ---------------------------
(* TLC instances of GuildConnect.                                          *)
EXTENDS GuildConnect, TLC
=============================================================================
