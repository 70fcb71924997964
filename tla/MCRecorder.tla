----------------------------- MODULE MCRecorder -----------------------------
\* A stream for model checking: each way a payload can be cut, parameter sets
\* of either length, and slices before and behind SEI and parameter sets.
EXTENDS Recorder

MCPayloads == {
  <<"SPS">>, <<"SPS28">>, <<"PPS">>, <<"PPS28", "SEI">>, <<"SPS", "PPS", "SLICE">>,
  <<"SEI">>, <<"SLICE">>, <<"SEI", "SLICE", "SLICE">>, <<"SLICE", "SEI", "SLICE">>,
  <<"SLICE", "SPS28", "PPS">>}

\* One NAL unit per payload, for several sessions.
MCFewPayloads == {<<"SPS">>, <<"PPS">>, <<"SLICE">>}
=============================================================================
