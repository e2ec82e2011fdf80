------------------------------- MODULE MCWire -------------------------------
(* Values of the constants of Wire that a configuration file cannot hold. *)
EXTENDS Wire

\* One track of each codec, and two tracks with and without the old form
MCSetups == {
    [video |-> <<"h264">>, audio |-> 1, hdr |-> FALSE],
    [video |-> <<"h264", "hevc">>, audio |-> 2, hdr |-> TRUE],
    [video |-> <<"av1", "h264">>, audio |-> 2, hdr |-> TRUE]}

MCStartDts == -3

(* No step, a tick, two milliseconds, and as many milliseconds as the time
   field of a chunk header cannot hold *)
MCFrameSteps == {0, 1, 4, 2 * Int24Max, 20000 * TicksPerMs}

=============================================================================
