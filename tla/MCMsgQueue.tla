---- MODULE MCMsgQueue ----
EXTENDS MsgQueue
====
