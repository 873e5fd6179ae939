------------------------------- MODULE MCLog --------------------------------
EXTENDS Log, TLC
=============================================================================
