---------------------------- MODULE MCOfflineResult ----------------------------
(* What the VAD and the speaker model may return.                          *)
EXTENDS OfflineResult

\* Nothing, one segment, neighbours whose windows overlap, out of order, and
\* with segments that lie before and behind the audio.
MCVad == {<<>>, <<Interval(1, 3)>>, <<Interval(3, 4), Interval(0, 2)>>,
          <<Interval(-1, 1), Interval(2, 3), Interval(Duration + 2, Duration + 3)>>}

By(a, b, s) == [start |-> a, end |-> b, spk |-> s]

\* Alternating speakers, gaps, overlaps, out of order, and an invalid segment.
MCDiarizations ==
    {<<By(2, 2, 1)>>,
     <<By(0, 2, 1), By(2, 4, 2)>>,
     <<By(3, 4, 1), By(0, 1, 2)>>,
     <<By(0, 3, 1), By(1, 2, 2), By(2, 4, 1)>>,
     <<By(1, 2, 1), By(2, 3, 1), By(3, 3, 2), By(4, 5, 2)>>}
=============================================================================
