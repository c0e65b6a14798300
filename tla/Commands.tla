------------------------------ MODULE Commands ------------------------------
(***************************************************************************)
(* What the interactive loops of the main functions make of a line: split  *)
(* of common/Util.h, and for each service the call a line comes to.        *)
(*                                                                         *)
(* A line is a sequence of words, bars, blanks and colons. Words that meet *)
(* without one of those in between stay a sequence, and are no known word. *)
(***************************************************************************)
EXTENDS Naturals, Sequences, SequencesExt, FiniteSetsExt

Bar == "|"
Blank == " "
Colon == ":"

(* Where a line is split; the mutant stops at the first delimiter. *)
Cuts_First(line, delim) ==
  {i \in DOMAIN line : line[i] = delim /\ \A j \in 1 .. i - 1 : line[j] # delim}

Cuts(line, delim) == {i \in DOMAIN line : line[i] = delim}

(* The pieces between the cuts: what has the same number of cuts before it. *)
Pieces(line, cuts) ==
  [k \in 1 .. Cardinality(cuts) + 1 |->
     LET piece == {i \in DOMAIN line \ cuts :
                     Cardinality({j \in cuts : j < i}) = k - 1} IN
       [i \in 1 .. Cardinality(piece) |-> line[Min(piece) + i - 1]]]

(* split: std::getline gives no piece after the last delimiter if nothing  *)
(* follows it.                                                             *)
Split(line, delim) ==
  LET ps == Pieces(line, Cuts(line, delim)) IN IF Last(ps) = <<>> THEN Front(ps) ELSE ps

(* The call a line comes to: Quit and Nothing are no calls of the stack;   *)
(* Undefined is a read past the end of a vector, Abort an exception nobody *)
(* catches.                                                                *)
Call(op, topics, data) == [op |-> op, topics |-> topics, data |-> data]
Simple(op) == Call(op, <<>>, <<>>)
Quit == Simple("quit")
Nothing == Simple("nothing")
Undefined == Simple("undefined")
Abort == Simple("abort")

ZmqStackCommand(line) ==
  LET parse == Split(line, Bar)
      cmds  == Split(parse[1], Blank) IN
    IF line = <<"quit">> THEN Quit
    ELSE IF line = <<"list">> THEN Simple("Subscriptions")
    ELSE IF Len(parse) # 2 \/ cmds = <<>> THEN Nothing
    ELSE CASE cmds[1] = <<"sub">>   -> Call("Subscribe", <<>>, parse[2])
           [] cmds[1] = <<"unsub">> -> Call("Unsubscribe", <<>>, parse[2])
           [] cmds[1] = <<"send">>  -> Call("Send", <<>>, parse[2])
           [] OTHER                 -> Call("Publish", cmds, parse[2])

ConvStackCommand(line) ==
  LET parse == Split(line, Bar)
      cmds  == Split(parse[1], Blank)
      topic == Split(cmds[2], Colon) IN
    IF line = <<"quit">> THEN Quit
    ELSE IF line = <<"list">> THEN Simple("Subscriptions")
    ELSE IF Len(parse) # 2 \/ cmds = <<>> THEN Nothing
    ELSE CASE cmds[1] = <<"sub">> /\ (Len(cmds) < 2 \/ Len(topic) < 2) -> Undefined
           [] cmds[1] = <<"sub">>   -> Call("AddConversion", Split(topic[2], Blank), topic[1])
           [] cmds[1] = <<"unsub">> -> Call("RemoveConversion", <<>>, parse[2])
           [] OTHER                 -> Nothing

(* The loop of inproc-stack, whose lines begin with the number of a stack: *)
(* std::stoi skips blanks, takes the digits that follow and throws if there *)
(* are none; a number out of range, here 9, is ignored.                    *)
InprocStackCommand(line) ==
  LET parse  == Split(line, Bar)
      digits == {i \in DOMAIN parse[1] : parse[1][i] # Blank}
      cmds   == Split(parse[2], Blank)
      stack  == <<parse[1][Min(digits)]>> IN
    IF line = <<"quit">> THEN Quit
    ELSE IF Len(parse) # 3 THEN Nothing
    ELSE IF digits = {} \/ stack \notin {<<"0">>, <<"9">>} THEN Abort
    ELSE IF stack = <<"9">> \/ cmds = <<>> THEN Nothing
    ELSE CASE cmds[1] = <<"sub">>   -> Call("Subscribe", stack, parse[3])
           [] cmds[1] = <<"unsub">> -> Call("Unsubscribe", stack, parse[3])
           [] OTHER                 -> Call("Publish", <<stack>> \o cmds, parse[3])

Interpret(service, line) ==
  CASE service = "zmq-stack"  -> ZmqStackCommand(line)
    [] service = "conv-stack" -> ConvStackCommand(line)
    [] OTHER                  -> InprocStackCommand(line)

-----------------------------------------------------------------------------
(***************************************************************************)
(* The commands each main describes when its loop begins, for topics t and *)
(* u and the message m: the line, and the call it stands for.              *)
(***************************************************************************)
Doc(line, call) == [line |-> line, call |-> call]
QuitDoc == Doc(<<"quit">>, Quit)
DocTopic == {"t", "u"}
DocMsg == <<"m">>

ZmqStackDoc ==
  {QuitDoc, Doc(<<"list">>, Simple("Subscriptions")),
   Doc(<<"send", Bar, "m">>, Call("Send", <<>>, DocMsg)),
   Doc(<<"t", Blank, "u", Bar, "m">>, Call("Publish", << <<"t">>, <<"u">> >>, DocMsg))}
  \cup UNION {{Doc(<<t, Bar, "m">>, Call("Publish", << <<t>> >>, DocMsg)),
              Doc(<<"sub", Bar, t>>, Call("Subscribe", <<>>, <<t>>)),
              Doc(<<"unsub", Bar, t>>, Call("Unsubscribe", <<>>, <<t>>))} : t \in DocTopic}

ConvStackDoc ==
  {QuitDoc} \cup {Doc(<<"unsub", Bar, t>>, Call("RemoveConversion", <<>>, <<t>>)) : t \in DocTopic}

(* "sub|<topic>:<topic> <topic>..." *)
ConvStackSubDoc ==
  {Doc(<<"sub", Bar, "t", Colon, "u">>, Call("AddConversion", << <<"u">> >>, <<"t">>)),
   Doc(<<"sub", Bar, "t", Colon, "t", Blank, "u">>,
       Call("AddConversion", << <<"t">>, <<"u">> >>, <<"t">>))}

InprocStackDoc ==
  {QuitDoc, Doc(<<"0", Bar, "t", Blank, "u", Bar, "m">>,
                Call("Publish", << <<"0">>, <<"t">>, <<"u">> >>, DocMsg))}
  \cup UNION {{Doc(<<"0", Bar, t, Bar, "m">>, Call("Publish", << <<"0">>, <<t>> >>, DocMsg)),
              Doc(<<"0", Bar, "sub", Bar, t>>, Call("Subscribe", <<"0">>, <<t>>)),
              Doc(<<"0", Bar, "unsub", Bar, t>>, Call("Unsubscribe", <<"0">>, <<t>>))} : t \in DocTopic}

Documented(service) ==
  CASE service = "zmq-stack"  -> ZmqStackDoc
    [] service = "conv-stack" -> ConvStackDoc
    [] OTHER                  -> InprocStackDoc
=============================================================================
