------------------------------ MODULE MCServer ------------------------------
EXTENDS Server

CONSTANT c1
=============================================================================
