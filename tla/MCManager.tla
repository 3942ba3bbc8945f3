------------------------------ MODULE MCManager ------------------------------
EXTENDS Manager
=============================================================================
