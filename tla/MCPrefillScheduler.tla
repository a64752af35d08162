------------------------- MODULE MCPrefillScheduler -------------------------
EXTENDS PrefillScheduler, TLC

CONSTANTS longReq, midReq, shortReq  \* model values

\* A prompt of three chunks, one of two, and one the bypass lets past.
MCReqs   == {longReq, midReq, shortReq}
MCTokens == (longReq :> 5) @@ (midReq :> 3) @@ (shortReq :> 1)
=============================================================================
