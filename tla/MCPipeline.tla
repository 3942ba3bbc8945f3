----------------------------- MODULE MCPipeline ------------------------------
EXTENDS Pipeline
=============================================================================
