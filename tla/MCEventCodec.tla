---------------------------- MODULE MCEventCodec ----------------------------
EXTENDS EventCodec

\* Short payloads: empty, one byte at each end of the range, and one long
\* enough to hold a seq number.
MCPayloads == {<<>>, <<0>>, <<255, 1>>, <<0, 0, 0, 1, 7>>}
=============================================================================
