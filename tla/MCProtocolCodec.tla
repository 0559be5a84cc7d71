--------------------------- MODULE MCProtocolCodec ---------------------------
EXTENDS ProtocolCodec

\* Small, wider than a byte, and negative.
Counted == {1, 300, -70000}
=============================================================================
