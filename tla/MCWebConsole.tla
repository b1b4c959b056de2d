---------------------------- MODULE MCWebConsole ----------------------------
EXTENDS WebConsole
=============================================================================
