------------------------- MODULE MCRealtimeSession -------------------------
(* The realtime session on a few short messages. *)
EXTENDS RealtimeSession

\* Message lengths: one window of the VAD, and one that leaves a rest.
MCSizes == {2, 3}
=============================================================================
