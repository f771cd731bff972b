---------------------------- MODULE MCDtlsRecord ----------------------------
EXTENDS DtlsRecord
=============================================================================
