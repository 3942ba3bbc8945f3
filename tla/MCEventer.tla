------------------------------ MODULE MCEventer ------------------------------
EXTENDS Eventer
=============================================================================
