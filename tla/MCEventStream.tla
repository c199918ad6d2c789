--------------------------- MODULE MCEventStream ---------------------------
EXTENDS EventStream

\* Three events, the second longer than the buffer may be, and between the last
\* two a part without a code, as a heartbeat is.
MCFlow == <<"boundary", "code", "data",
            "boundary", "code", "data", "data",
            "boundary", "data",
            "boundary", "code", "data", "boundary">>
=============================================================================
