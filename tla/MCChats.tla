------------------------------- MODULE MCChats -------------------------------
EXTENDS ChatsSync
=============================================================================
