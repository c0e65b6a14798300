---------------------------- MODULE MCZmqService ----------------------------
(***************************************************************************)
(* ZmqService with small constants for TLC: two pods, batches of two, all  *)
(* lines of up to three words and marks, the documented ones, the form of  *)
(* "sub" that ConvStackMain's loop does understand, and for inproc-stack a *)
(* number out of range, one after a blank, and none.                       *)
(***************************************************************************)
EXTENDS ZmqService

MCService == {"zmq-stack", "conv-stack", "net-stack", "zmq-proxy", "inproc-stack"}
MCConvStack == {"conv-stack"}
MCNumbered == {"zmq-stack", "net-stack"}
MCLines ==
  SeqOf({"sub", "unsub", "send", "t", Bar, Blank, Colon}, 3)
  \cup {d.line : d \in ZmqStackDoc \cup ConvStackDoc \cup ConvStackSubDoc \cup InprocStackDoc}
  \cup {<<"sub", Blank, "t", Colon, "u", Bar, "m">>, <<"9", Bar, "t", Bar, "m">>,
        <<Blank, "0", Bar, "sub", Bar, "t">>, <<"t", Bar, "sub", Bar, "t">>}
=============================================================================
