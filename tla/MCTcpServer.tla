---------------------------- MODULE MCTcpServer ----------------------------
(***************************************************************************)
(* TcpServer with small constants for TLC. The accept socket lies between  *)
(* the descriptors accept() can return, as it does once a lower one has    *)
(* been closed and is handed out again.                                    *)
(***************************************************************************)
EXTENDS TcpServer

MCClientFd == {3, 5}
MCListenFd == 4
=============================================================================
