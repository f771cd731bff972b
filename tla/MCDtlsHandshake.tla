--------------------------- MODULE MCDtlsHandshake ---------------------------
EXTENDS DtlsHandshake
=============================================================================
