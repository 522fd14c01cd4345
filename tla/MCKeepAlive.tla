---------------------------- MODULE MCKeepAlive ----------------------------
EXTENDS KeepAlive
=============================================================================
