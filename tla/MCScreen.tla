------------------------------ MODULE MCScreen ------------------------------
EXTENDS Screen
=============================================================================
