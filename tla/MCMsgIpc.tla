------------------------------ MODULE MCMsgIpc ------------------------------
(* An instance of MsgIpc: the processes core and web of msg_ipc_init.      *)
EXTENDS MsgIpc

CONSTANTS core, web, a, b

CoreAndWeb == {core, web}
(* Both messages go to the same queue, which they fill.                    *)
FromCore == [m \in Messages |-> core]
=============================================================================
