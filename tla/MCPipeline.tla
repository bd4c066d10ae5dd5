---- MODULE MCPipeline ----
EXTENDS Pipeline
====
