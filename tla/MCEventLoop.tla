------------------------------ MODULE MCEventLoop ------------------------------
EXTENDS EventLoop
=============================================================================
