---- MODULE MCSPSCQueue ----
EXTENDS SPSCQueue
====
