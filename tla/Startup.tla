------------------------------ MODULE Startup ------------------------------
(***************************************************************************)
(* How the main functions of the services come to their settings: from     *)
(* defaults, the options of the command line, then the keys of a YAML      *)
(* file, which are read one after the other in one try block.              *)
(*                                                                         *)
(* The values of a text are sequences of its parts, so that a name and an  *)
(* instance number, or a name and "ingress", can be put together.          *)
(***************************************************************************)
EXTENDS Integers, Sequences, SequencesExt, FiniteSets

CONSTANTS
  Service,    \* the services looked at, of those named in Options
  MaxArgs,    \* bound: options given
  MaxGiven    \* bound: options given and keys the file has, together

(* Numbers of ports are uint16_t. *)
PORTS == 65536

Junk == -1            \* an argument that is no number

(* The defaults of main's variables, most of them the same in all mains. A *)
(* main reads only the ones of its own.                                    *)
Common ==
  [name |-> <<"zmqStack">>, configFile |-> <<>>, logLevel |-> 0,
   pubEndpoints |-> <<>>, pubEndpoint |-> <<"pub">>, subEndpoint |-> <<"sub">>,
   receiverEndpoint |-> <<>>, senderEndpoint |-> <<>>, pubTopics |-> <<>>,
   subTopics |-> <<>>, conversions |-> <<>>, interactive |-> FALSE,
   healthPort |-> 6000, metricsPort |-> 6001, listenPort |-> 7000,
   xpubPort |-> 9200, xsubPort |-> 9210, ctrlEndpoint |-> <<"ctrl">>,
   threads |-> 2, statisticsInterval |-> 60]

DefaultOf(s) ==
  [Common EXCEPT
     !.configFile = <<s>>,
     !.name = IF s = "net-stack" THEN <<"netStack">> ELSE @,
     !.receiverEndpoint = IF s = "conv-stack" THEN <<"rcv">> ELSE @,
     !.pubEndpoint = IF s = "inproc-stack" THEN <<"inproc">> \o @ ELSE @,
     !.subEndpoint = IF s = "inproc-stack" THEN <<"inproc">> \o @ ELSE @]

Setting == DOMAIN Common
Port  == {"healthPort", "metricsPort", "listenPort", "xpubPort", "xsubPort"}
Number == {"logLevel", "threads", "statisticsInterval"}
Topics == {"pubTopics", "subTopics"}
List  == Topics \cup {"pubEndpoints"}
Text  == {"name", "configFile", "subEndpoint", "receiverEndpoint", "senderEndpoint",
          "ctrlEndpoint"}

(* The options each main takes; any other one prints the usage. *)
ZmqStackOptions ==
  [f |-> "configFile", n |-> "name", l |-> "logLevel", p |-> "pubEndpoints",
   s |-> "subEndpoint", P |-> "pubTopics", S |-> "subTopics",
   i |-> "interactive", h |-> "healthPort", m |-> "metricsPort"]
ConvStackOptions ==
  [f |-> "configFile", n |-> "name", l |-> "logLevel", p |-> "pubEndpoints",
   s |-> "subEndpoint", P |-> "conversions", S |-> "subTopics",
   i |-> "interactive", h |-> "healthPort", m |-> "metricsPort"]
NetStackOptions ==
  [f |-> "configFile", n |-> "name", l |-> "logLevel", p |-> "pubEndpoints",
   s |-> "subEndpoint", P |-> "pubTopics", S |-> "subTopics",
   L |-> "listenPort", h |-> "healthPort", m |-> "metricsPort"]
ProxyOptions ==
  [f |-> "configFile", l |-> "logLevel", p |-> "xpubPort", s |-> "xsubPort",
   c |-> "ctrlEndpoint", t |-> "threads", i |-> "statisticsInterval",
   h |-> "healthPort", m |-> "metricsPort"]
InprocStackOptions ==
  [l |-> "logLevel", p |-> "pubEndpoints", s |-> "subEndpoint",
   i |-> "interactive", m |-> "metricsPort"]

(* The keys of the configuration files, in the order they are read. *)
ZmqStackKeys ==
  <<"logLevel", "healthPort", "metricsPort", "receiverEndpoint",
    "senderEndpoint", "name", "pubEndpoints", "subEndpoint", "subTopics",
    "pubTopics">>
ConvStackKeys ==
  <<"logLevel", "healthPort", "metricsPort", "name", "pubEndpoints",
    "subEndpoint", "receiverEndpoint", "subTopics", "conversions">>
NetStackKeys ==
  <<"logLevel", "healthPort", "metricsPort", "listenPort", "name",
    "pubEndpoints", "subEndpoint", "subTopics", "pubTopics">>
ProxyKeys ==
  <<"logLevel", "xpubPort", "xsubPort", "healthPort", "metricsPort",
    "ctrlEndpoint", "threads">>

OptionsOf(s) == CASE s = "zmq-stack"  -> ZmqStackOptions
                  [] s = "conv-stack" -> ConvStackOptions
                  [] s = "net-stack"  -> NetStackOptions
                  [] s = "zmq-proxy"  -> ProxyOptions
                  [] OTHER            -> InprocStackOptions
KeysOf(s) == CASE s = "zmq-stack"  -> ZmqStackKeys
               [] s = "conv-stack" -> ConvStackKeys
               [] s = "net-stack"  -> NetStackKeys
               [] s = "zmq-proxy"  -> ProxyKeys
               [] OTHER            -> <<>>

(* The services whose pods have a number and topics named after them. *)
Numbered(s) == s \in {"zmq-stack", "net-stack"}

(* The arguments an option is given here. The text of a -P of conv-stack   *)
(* is split at its bar, if it has one.                                     *)
Argument(x) ==
  CASE x \in Port          -> {80, PORTS + 80, Junk}
    [] x \in Number        -> {1, Junk}
    [] x = "interactive"   -> {TRUE}
    [] x = "conversions"   -> {<<"t1", "t2">>, <<"t3", "t2">>, <<"t1">>}
    [] OTHER               -> {<<"opt1">>, <<"opt2">>}

(* A key of the file has a value the code can convert, or one it throws an *)
(* exception for; where the code tests the type, one of another type is    *)
(* skipped; of a map of conversions some may be good.                      *)
Value(x) ==
  CASE x \in Port          -> 81
    [] x \in Number        -> 2
    [] x = "conversions"   -> [t \in {"t1"} |-> "t4"]
    [] x \in List          -> << <<"file">> >>
    [] OTHER               -> <<"file">>

Shape(x) ==
  {"good", "wrong"} \cup
  (IF x \in Topics \cup {"conversions"} THEN {"skipped"} ELSE {}) \cup
  (IF x = "conversions" THEN {"partial"} ELSE {})

VARIABLES
  service,    \* the program
  phase,      \* how far main is
  args,       \* the options processed: sequence of <<setting, argument>>
  file,       \* the configuration file: keys it has -> their shapes
  next,       \* the number of the next key to look up
  instance,   \* getContainerInstance()
  settings    \* main's variables

startVars == <<args, file, next, instance, settings>>

Default == DefaultOf(service)

NoFile == [x \in {} |-> 0]

StartInit ==
  /\ service \in Service /\ phase = "start"
  /\ args = <<>> /\ file = NoFile /\ next = 1 /\ instance = "0"
  /\ settings = Default

Put(x, v) == settings' = [settings EXCEPT ![x] = v]

(* Conversions assigned over others, entry by entry. (f @@ g of TLC, which *)
(* the provers do not know.)                                               *)
Over(f, g) ==
  [t \in DOMAIN f \cup DOMAIN g |-> IF t \in DOMAIN f THEN f[t] ELSE g[t]]

(* getContainerInstance: the number at the end of HOSTNAME, 0 if it has no *)
(* such number. Without the variable a string is made of a null pointer.   *)
Begin ==
  /\ phase = "start"
  /\ \/ Numbered(service) /\ instance' \in {"0", "1"} /\ phase' = "options"
     \/ Numbered(service) /\ phase' = "aborted" /\ UNCHANGED instance
     \/ ~Numbered(service) /\ phase' = "options" /\ UNCHANGED instance
  /\ UNCHANGED <<service, args, file, next, settings>>

(* One turn of the option loop. std::stoi and std::stoul throw, and nobody *)
(* catches it, for text that is no number; a port is cast to its width. A  *)
(* conversion without bar reads split1[1] past its end. A -p also sets     *)
(* pubEndpoint, which only inproc-stack reads, for its proxy (zmq-stack    *)
(* has no such variable).                                                  *)
TakeOption(x, a) ==
  /\ phase = "options" /\ Len(args) < MaxArgs
  /\ args' = Append(args, <<x, a>>)
  /\ \/ x \in Port \cup Number /\ a = Junk /\ phase' = "aborted" /\ UNCHANGED settings
     \/ x \in Port /\ a # Junk /\ Put(x, a % PORTS) /\ UNCHANGED phase
     \/ x \in Number /\ a # Junk /\ Put(x, a) /\ UNCHANGED phase
     \/ /\ x \in List /\ UNCHANGED phase
        /\ settings' = [settings EXCEPT ![x] = Append(@, a),
                          !.pubEndpoint = IF x = "pubEndpoints" THEN a ELSE @]
     \/ x \in Text \cup {"interactive"} /\ Put(x, a) /\ UNCHANGED phase
     \/ /\ x = "conversions" /\ Len(a) = 2
        /\ Put(x, Over([t \in {a[1]} |-> a[2]], settings[x])) /\ UNCHANGED phase
     \/ x = "conversions" /\ Len(a) = 1 /\ phase' = "undefined" /\ UNCHANGED settings
  /\ UNCHANGED <<service, file, next, instance>>

(* An option that is not known: usage() and exit(1). *)
UnknownOption ==
  /\ phase = "options" /\ phase' = "usage"
  /\ UNCHANGED <<service, startVars>>

(* The options are over; the file, if it can be read and parsed, has some  *)
(* of the keys.                                                            *)
OpenConfig ==
  /\ phase = "options" /\ phase' = "config"
  /\ \E ks \in SUBSET ToSet(KeysOf(service)) :
       /\ Len(args) + Cardinality(ks) <= MaxGiven
       /\ file' \in [ks -> UNION {Shape(x) : x \in ks}]
       /\ \A x \in ks : file'[x] \in Shape(x)
  /\ UNCHANGED <<service, args, next, instance, settings>>

(* What reading key x makes of its setting: the file's value in place of   *)
(* the options', or the file's conversions on top of theirs.               *)
(* Mutant: a list of the file comes after the options'.                    *)
ReadValue_Appends(x) ==
  IF x \in List THEN settings[x] \o Value(x)
  ELSE IF x = "conversions" THEN Over(Value(x), settings[x]) ELSE Value(x)

ReadValue(x) == IF x = "conversions" THEN Over(Value(x), settings[x]) ELSE Value(x)

Present(i) == KeysOf(service)[i] \in DOMAIN file

(* The next key the file has is read. An exception ends the try block, and *)
(* with it the reading of the file.                                        *)
ReadKey ==
  /\ phase = "config"
  /\ \E i \in next .. Len(KeysOf(service)) :
       LET x == KeysOf(service)[i] IN
         /\ Present(i) /\ \A j \in next .. i - 1 : ~Present(j)
         /\ next' = i + 1
         /\ IF file[x] \in {"good", "partial"} THEN Put(x, ReadValue(x))
            ELSE UNCHANGED settings
         /\ IF file[x] \in {"wrong", "partial"} THEN phase' = "parsed"
            ELSE UNCHANGED phase
  /\ UNCHANGED <<service, args, file, instance>>

EndConfig ==
  /\ phase = "config" /\ phase' = "parsed"
  /\ \A j \in next .. Len(KeysOf(service)) : ~Present(j)
  /\ UNCHANGED <<service, startVars>>

(* A numbered service gets its number in its name, and instead of whatever *)
(* topics were given the two that are named after it.                      *)
NameTopics ==
  /\ phase = "parsed" /\ phase' = "ready"
  /\ settings' =
       IF ~Numbered(service) THEN settings
       ELSE LET n == Append(settings.name, instance) IN
              [settings EXCEPT !.name = n,
                               !.pubTopics = << Append(n, "ingress") >>,
                               !.subTopics = << Append(n, "egress") >>]
  /\ UNCHANGED <<service, args, file, next, instance>>

Startup ==
  \/ Begin \/ UnknownOption \/ OpenConfig \/ ReadKey \/ EndConfig \/ NameTopics
  \/ \E o \in DOMAIN OptionsOf(service) :
       \E a \in Argument(OptionsOf(service)[o]) : TakeOption(OptionsOf(service)[o], a)
-----------------------------------------------------------------------------
(* The setting whose option gives x its values, the places in args of such *)
(* options, and the k-th of some places.                                   *)
Option(x) == IF x = "pubEndpoint" THEN "pubEndpoints" ELSE x

Given(x) == {i \in DOMAIN args : args[i][1] = Option(x)}

Nth(places, k) ==
  CHOOSE i \in {p \in places : Cardinality({q \in places : q <= p}) = k} : TRUE

(* The file gives x a value, and nothing it has before x is wrong. *)
FromFile(x) ==
  \E i \in DOMAIN KeysOf(service) :
    /\ KeysOf(service)[i] = x /\ Present(i) /\ file[x] \in {"good", "partial"}
    /\ \A j \in 1 .. i - 1 : Present(j) => file[KeysOf(service)[j]] \notin {"wrong", "partial"}

(* What the options alone make of x: all values of a list, in their order; *)
(* for each topic the last conversion; else the last value.                *)
FromOptions(x) ==
  LET g == Given(x)
      value(i) == args[i][2] IN
    IF x \in List THEN [k \in 1 .. Cardinality(g) |-> value(Nth(g, k))]
    ELSE IF x = "conversions" THEN
      [t \in {value(i)[1] : i \in g} |-> value(Max({i \in g : value(i)[1] = t}))[2]]
    ELSE IF g = {} THEN Default[x]
    ELSE IF x \in Port THEN value(Max(g)) % PORTS ELSE value(Max(g))

(* What x should be: the value of the file, conversions on top of those of *)
(* the options; or what the options say.                                   *)
FromKey(x) == IF x = "conversions" THEN Over(Value(x), FromOptions(x)) ELSE Value(x)

Explained(x) == IF FromFile(x) THEN FromKey(x) ELSE FromOptions(x)

(* The settings a service comes up with, said without the order in which   *)
(* main reads them: a value of the file counts if all the file has before  *)
(* it is good (one wrong value keeps those after it out, and the service   *)
(* starts all the same); else all the options' values of a list, or the    *)
(* last of another setting; conversions add up, the file's on top. The     *)
(* name of a numbered service gets its number. (Its topics:                *)
(* TopicsConfigurable.)                                                    *)
SettingsExplained ==
  phase = "ready" =>
    LET renamed == IF Numbered(service) THEN Topics \cup {"name"} ELSE {} IN
      /\ \A x \in Setting \ renamed : settings[x] = Explained(x)
      /\ Numbered(service) => settings.name = Append(Explained("name"), instance)

(* zmq-stack and net-stack use "a configurable set of ZMQ topics"          *)
(* (src/README.md:8, :10): the topics that options or the file give are    *)
(* the ones they come up with. (They are read, and replaced by two made    *)
(* of the name, ZmqStackMain.cpp:144: MCTopics.cfg.)                       *)
TopicsConfigurable ==
  phase = "ready" /\ Numbered(service) =>
    \A x \in Topics : Explained(x) # <<>> => settings[x] = Explained(x)
=============================================================================
