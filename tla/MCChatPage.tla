---------------------------- MODULE MCChatPage ----------------------------
EXTENDS ChatPage

Spec == PageInit(0, 0) /\ [][PageNext]_pvars
===========================================================================
