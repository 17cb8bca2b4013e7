---- MODULE MCMcpSession ----
\* Instance for TLC: two sessions of a project with one server, and two calls.  There is no
\* symmetry set: the run has a liveness property.
EXTENDS McpSession
====
