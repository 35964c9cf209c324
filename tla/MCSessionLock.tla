------------------------------ MODULE MCSessionLock ------------------------------
\* SessionLock with a few sessions.
EXTENDS SessionLock

CONSTANTS a, b, c
================================================================================
