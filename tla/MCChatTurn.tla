----------------------------- MODULE MCChatTurn -----------------------------
EXTENDS ChatTurn, TLC
==============================================================================
