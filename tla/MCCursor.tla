------------------------------ MODULE MCCursor ------------------------------
EXTENDS Cursor
=============================================================================
