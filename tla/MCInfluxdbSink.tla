---------------------------- MODULE MCInfluxdbSink ---------------------------
EXTENDS InfluxdbSink
=============================================================================
