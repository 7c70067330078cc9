----------------------------- MODULE MCWaitExit -----------------------------
EXTENDS WaitExit
============================================================================
