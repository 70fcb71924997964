------------------------------ MODULE MCStartup ------------------------------
\* A file of every kind prepare and the first frames can meet.
EXTENDS Startup

MCInputs ==
  {Missing, Empty, <<>>, <<"SLICE", "SLICE", "SLICE">>, <<"SPS">>, <<"SPS", "SLICE", "PPS">>,
   <<"PPS", "SPS", "SLICE">>, <<"SPS", "PPS">>, <<"SPS", "PPS", "SLICE">>,
   <<"SPS", "PPS", "SLICE", "SLICE">>, <<"SPS", "PPS", "SLICE", "HUGE">>}
=============================================================================
