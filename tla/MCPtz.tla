------------------------------- MODULE MCPtz -------------------------------
\* A patrol over both presets, which may be edited to the second alone.
EXTENDS Ptz

AllOrOne == {{1, 2}, {2}}
OrdersOfTwo == {<<1, 2>>, <<2>>}
=============================================================================
