--------------------------- MODULE MCSegmentPool ---------------------------
(* Two recognitions of up to three segments over two models. *)
EXTENDS SegmentPool

CONSTANTS r1, r2, m1, m2
MCRecognitions == {r1, r2}
MCModels == {m1, m2}
=============================================================================
