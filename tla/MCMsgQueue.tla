------------------------------ MODULE MCMsgQueue ------------------------------
(* Small instances of the message queues.                                  *)
EXTENDS MsgQueueProperties

\* Of the last call only whose it was.
View == <<procVars, queueVars, fault, reply.to>>
=============================================================================
