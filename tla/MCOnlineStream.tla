--------------------------- MODULE MCOnlineStream ---------------------------
(* One ONLINE stream with a few START commands and audio messages for TLC. *)
EXTENDS OnlineStream

=============================================================================
