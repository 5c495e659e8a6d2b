------------------------------- MODULE MCSock -------------------------------
EXTENDS Sock
=============================================================================
