---------------------------- MODULE ServerMainProofs ----------------------------
(***************************************************************************)
(* Proofs about ServerMain and ListenSocket, for every size of adcdev[],   *)
(* every command line and every list of addresses.                         *)
(***************************************************************************)
EXTENDS ServerMain, SequenceTheorems, TLAPS

USE MainAssumption, AddrsAssumption

-----------------------------------------------------------------------------
(* The inductive invariant.                                                 *)

\* The addresses from the second to the n-th cannot be bound.
NoneUpTo(n) == \A a \in 2 .. n : a <= Len(addrs) => addrs[a] # "ok"

\* Where get_tcp_listen_socket_t stands in its walk: which addresses it has
\* tried, and what is open.
Walk ==
    /\ lpc = "start" => open = {} /\ bound = {} /\ result = 0
    /\ lpc = "loop" => open = {} /\ bound = {} /\ addr # 0 /\ NoneUpTo(addr)
    /\ lpc = "try" => /\ open = {} /\ bound = {}
                      /\ NoneUpTo(IF addr = 0 THEN Len(addrs) ELSE addr - 1)
    /\ lpc = "bind" => /\ addr # 0 /\ listenfd = addr /\ open = {addr} /\ bound = {}
                       /\ NoneUpTo(addr - 1)
    /\ lpc \in {"got", "listen"} =>
           listenfd # 0 /\ open = {listenfd} /\ bound = {listenfd}
    /\ SocketIsSound
    /\ FindsLaterAddress

\* While main is not in adc_server_conn it has no socket, and before the call
\* the walk has not begun.
BeforeConn == {"options", "channels", "check", "quit", "daemonize", "alloc", "pid"}
NoSocket ==
    /\ pc \in BeforeConn => lpc = "start"
    /\ pc \notin {"serve", "fault"} => open = {}

\* The channels whose entry of adcdev[] is v.
Entries(v) == {c \in Channel : adcdev[c] = v}

\* What has become of the operands.
Marks ==
    /\ pc \in {"options", "channels", "check", "quit", "daemonize"} => i = 0 /\ handles = {}
    /\ pc = "options" => /\ argv.chans = given.chans
                         /\ \A c \in Channel : adcdev[c] = "null"
    /\ pc \in {"channels", "check", "quit", "daemonize"} => Entries("handle") = {}
    /\ pc = "channels" => Chosen = Entries("mark") \cup (ToSet(argv.chans) \cap Channel)
    /\ pc = "check" /\ options \cap {"error", "h"} = {} => Chosen = Entries("mark")
    /\ pc = "daemonize" => Chosen = Entries("mark")

\* What has become of the marks.
Devices ==
    /\ pc = "alloc" => /\ \A c \in Channel :
                              adcdev[c] = IF c \notin Chosen THEN "null"
                                          ELSE IF c < i THEN "handle" ELSE "mark"
                       /\ handles = {c \in Chosen : c < i}
    /\ pc \in {"pid", "serve"} =>
           /\ \A c \in Channel : adcdev[c] = IF c \in Chosen THEN "handle" ELSE "null"
           /\ handles = Chosen
    /\ pc = "free" => /\ {c \in Channel : c >= i /\ adcdev[c] = "handle"} = handles
                      /\ \A c \in Entries("mark") :
                             \E d \in Chosen : d < c /\ adcdev[d] = "null"
    /\ pc = "exit" => handles = {}

\* The options that are parsed.
Parsed == 1 .. Len(given.opts) - Len(argv.opts)
IsPath(o) == o \in {"P abs", "P rel"}

\* Of the options parsed, the last -P is in pidpath, though not always in
\* options.
Remembered ==
    /\ pidpath = "none" => \A k \in Parsed : ~ IsPath(given.opts[k])
    /\ pidpath # "none" =>
           \E k \in Parsed : /\ given.opts[k] = IF pidpath = "abs" THEN "P abs" ELSE "P rel"
                             /\ \A l \in Parsed : l > k => ~ IsPath(given.opts[l])
    /\ pidpath # "none" =>
           \/ "P" \in options
           \/ "x" \in options /\ \E k, l \in Parsed :
                  k < l /\ IsPath(given.opts[k]) /\ given.opts[l] = "x"
    /\ pidpath # "wild"

\* What has become of the options, which only a write behind adcdev[] loses.
Paths ==
    /\ Len(argv.opts) <= Len(given.opts)
    /\ \A k \in 1 .. Len(argv.opts) :
           argv.opts[k] = given.opts[Len(given.opts) - Len(argv.opts) + k]
    /\ pc # "options" => argv.opts = <<>>
    /\ ~ smashed => Remembered
    /\ pc = "options" => ~ smashed
    /\ "P" \in options => pidpath # "none"
    /\ pc \in {"options", "channels", "check", "quit", "daemonize"} => cwd = "start"
    /\ pc = "daemonize" \/ cwd = "root" => "f" \notin options
    /\ pc \in BeforeConn => pidfile = NoPidFile

IInv ==
    /\ TypeOK
    /\ Walk
    /\ NoSocket
    /\ Marks
    /\ Devices
    /\ Paths
    /\ FaultsOnlyAfterFailure
    /\ FileAsNamed

-----------------------------------------------------------------------------
(* Sequences of bounded length.                                             *)

\* A sequence of at most n elements is a sequence, and conversely.
LEMMA SeqOfIsSeq ==
    ASSUME NEW S, NEW n \in Nat, NEW s
    PROVE  s \in SeqOf(S, n) <=> s \in Seq(S) /\ Len(s) <= n
  <1>1. ASSUME s \in SeqOf(S, n) PROVE s \in Seq(S) /\ Len(s) <= n
    <2>1. PICK m \in 0 .. n : s \in [1 .. m -> S]
      BY <1>1 DEF SeqOf
    <2>2. s \in Seq(S) /\ Len(s) = m
      BY <2>1
    <2>. QED  BY <2>2
  <1>2. ASSUME s \in Seq(S), Len(s) <= n PROVE s \in SeqOf(S, n)
    <2>1. s \in [1 .. Len(s) -> S] /\ Len(s) \in 0 .. n
      BY <1>2
    <2>. QED  BY <2>1 DEF SeqOf
  <1>. QED  BY <1>1, <1>2

\* What is left of a command line when its next word is taken.
LEMMA TakeNext ==
    ASSUME NEW S, NEW n \in Nat, NEW s \in SeqOf(S, n), s # <<>>
    PROVE  /\ Head(s) \in S /\ Head(s) = s[1]
           /\ Tail(s) \in SeqOf(S, n)
           /\ Len(s) \in Nat \ {0} /\ Len(Tail(s)) = Len(s) - 1
           /\ \A k \in 1 .. Len(s) - 1 : Tail(s)[k] = s[k + 1]
           /\ ToSet(s) = {Head(s)} \cup ToSet(Tail(s))
  <1>1. s \in Seq(S) /\ Len(s) <= n
    BY SeqOfIsSeq
  <1>2. /\ Head(s) \in S /\ Head(s) = s[1]
        /\ Tail(s) \in Seq(S)
        /\ Len(s) \in Nat \ {0} /\ Len(Tail(s)) = Len(s) - 1
        /\ \A k \in 1 .. Len(s) - 1 : Tail(s)[k] = s[k + 1]
    BY <1>1
  <1>3. Tail(s) \in SeqOf(S, n)
    <2>1. Tail(s) \in Seq(S) /\ Len(Tail(s)) <= n
      BY <1>1, <1>2
    <2>. DEFINE t == Tail(s)
    <2>. HIDE DEF t
    <2>2. t \in Seq(S) /\ Len(t) <= n => t \in SeqOf(S, n)
      BY SeqOfIsSeq
    <2>. QED  BY <2>1, <2>2 DEF t
  <1>4. ToSet(s) = {Head(s)} \cup ToSet(Tail(s))
    <2>1. DOMAIN s = 1 .. Len(s) /\ DOMAIN Tail(s) = 1 .. Len(s) - 1
      BY <1>1, <1>2
    <2>2. ASSUME NEW x \in ToSet(s) PROVE x \in {Head(s)} \cup ToSet(Tail(s))
      <3>1. PICK k \in 1 .. Len(s) : x = s[k]
        BY <2>1, <2>2 DEF ToSet
      <3>2. CASE k = 1
        BY <3>1, <3>2, <1>2
      <3>3. CASE k # 1
        <4>1. k - 1 \in 1 .. Len(s) - 1 /\ (k - 1) + 1 = k
          BY <3>3, <1>2
        <4>2. x = Tail(s)[k - 1]
          BY <4>1, <3>1, <1>2
        <4>. QED  BY <4>1, <4>2, <2>1 DEF ToSet
      <3>. QED  BY <3>2, <3>3
    <2>3. ASSUME NEW x \in ToSet(Tail(s)) PROVE x \in ToSet(s)
      <3>1. PICK k \in 1 .. Len(s) - 1 : x = Tail(s)[k]
        BY <2>1, <2>3 DEF ToSet
      <3>2. k + 1 \in 1 .. Len(s) /\ x = s[k + 1]
        BY <3>1, <1>2
      <3>. QED  BY <3>2, <2>1 DEF ToSet
    <2>4. Head(s) \in ToSet(s)
      BY <1>2, <2>1 DEF ToSet
    <2>. QED  BY <2>2, <2>3, <2>4
  <1>. QED  BY <1>2, <1>3, <1>4

\* The sequence without elements.
LEMMA NothingLeft ==
    ASSUME NEW S, NEW n \in Nat, NEW s \in SeqOf(S, n)
    PROVE  /\ Len(s) \in Nat
           /\ s = <<>> <=> Len(s) = 0
           /\ s = <<>> => ToSet(s) = {}
  <1>1. s \in Seq(S)
    BY SeqOfIsSeq
  <1>2. Len(s) \in Nat /\ DOMAIN s = 1 .. Len(s)
    BY <1>1
  <1>3. s = <<>> <=> Len(s) = 0
    BY <1>1, EmptySeq
  <1>. QED  BY <1>2, <1>3 DEF ToSet

-----------------------------------------------------------------------------
(* The listening socket.                                                    *)

\* The walk stays in its list.
LEMMA ListenType ==
    ASSUME ListenTypeOK, Walk, ListenNext
    PROVE  ListenTypeOK'
  <1>. USE DEF ListenTypeOK, Position, ReturnFd
  <1>0. Len(addrs) \in 0 .. MaxAddrs
    BY SeqOfIsSeq, NothingLeft
  <1>1. CASE GetAddrInfo
    <2>1. CASE ReturnFd(0) /\ UNCHANGED <<addrs, addr>>
      BY <1>1, <2>1 DEF GetAddrInfo
    <2>2. CASE /\ addrs' \in SeqOf(Answer, MaxAddrs) \ {<<>>}
               /\ lpc' = "loop" /\ addr' = 1 /\ UNCHANGED result
      <3>1. Len(addrs') \in Nat \ {0}
        BY <2>2, NothingLeft
      <3>. QED  BY <1>1, <2>2, <3>1 DEF GetAddrInfo
    <2>. QED  BY <1>1, <2>1, <2>2 DEF GetAddrInfo
  <1>2. CASE NextAddr
    BY <1>0, <1>2 DEF NextAddr
  <1>3. CASE NullAddrFaults \/ SocketFails
    BY <1>3 DEF NullAddrFaults, SocketFails
  <1>4. CASE Socket
    <2>1. addr \in 0 .. MaxAddrs
      BY <1>0
    <2>. QED  BY <1>4, <2>1 DEF Socket
  <1>5. CASE Bind
    <2>1. addr \in 0 .. MaxAddrs
      BY <1>0
    <2>. QED  BY <1>5, <2>1 DEF Bind
  <1>6. CASE BindFails
    BY <1>6 DEF BindFails
  <1>7. CASE SetNonblocking
    <2>1. CASE CloseAndReturn
      BY <1>7, <2>1 DEF SetNonblocking, CloseAndReturn
    <2>2. CASE UNCHANGED <<open, bound, result>>
      BY <1>7, <2>2 DEF SetNonblocking, CloseAndReturn
    <2>. QED  BY <1>7, <2>1, <2>2 DEF SetNonblocking
  <1>8. CASE Listen
    <2>1. CASE CloseAndReturn
      BY <1>8, <2>1 DEF Listen, CloseAndReturn
    <2>2. CASE ReturnFd(listenfd) /\ UNCHANGED <<open, bound>>
      BY <1>8, <2>2 DEF Listen, CloseAndReturn
    <2>. QED  BY <1>8, <2>1, <2>2 DEF Listen
  <1>. QED  BY <1>1, <1>2, <1>3, <1>4, <1>5, <1>6, <1>7, <1>8 DEF ListenNext

\* Each step of the walk leaves behind only addresses that cannot be bound,
\* and has no socket open but the one it works at.
LEMMA WalkStep ==
    ASSUME ListenTypeOK, Walk, ListenNext
    PROVE  Walk'
  <1>. USE DEF Walk, NoneUpTo, SocketIsSound, FindsLaterAddress, ReturnFd
  <1>0. Len(addrs) \in 0 .. MaxAddrs /\ addr \in 0 .. Len(addrs)
    BY SeqOfIsSeq, NothingLeft DEF ListenTypeOK
  <1>1. CASE GetAddrInfo
    <2>1. CASE ReturnFd(0) /\ UNCHANGED <<addrs, addr>>
      BY <1>1, <2>1 DEF GetAddrInfo
    <2>2. CASE /\ addrs' \in SeqOf(Answer, MaxAddrs) \ {<<>>}
               /\ lpc' = "loop" /\ addr' = 1 /\ UNCHANGED result
      BY <1>1, <2>2 DEF GetAddrInfo
    <2>. QED  BY <1>1, <2>1, <2>2 DEF GetAddrInfo
  <1>2. CASE NextAddr
    BY <1>0, <1>2 DEF NextAddr
  <1>3. CASE NullAddrFaults
    BY <1>0, <1>3 DEF NullAddrFaults
  <1>4. CASE SocketFails
    <2>1. /\ lpc' = "loop" /\ addr # 0 /\ NoneUpTo(addr - 1) /\ addrs[addr] # "ok"
          /\ UNCHANGED <<addrs, addr, listenfd, open, bound, result>>
      BY <1>4 DEF SocketFails
    <2>2. NoneUpTo(addr)
      BY <1>0, <2>1
    <2>. QED  BY <1>0, <1>4, <2>1, <2>2 DEF SocketFails
  <1>5. CASE Socket
    BY <1>0, <1>5 DEF Socket
  <1>6. CASE Bind
    BY <1>0, <1>6 DEF Bind
  <1>7. CASE BindFails
    BY <1>0, <1>7 DEF BindFails
  <1>8. CASE SetNonblocking
    BY <1>0, <1>8 DEF SetNonblocking, CloseAndReturn
  <1>9. CASE Listen
    BY <1>0, <1>9 DEF Listen, CloseAndReturn
  <1>. QED  BY <1>1, <1>2, <1>3, <1>4, <1>5, <1>6, <1>7, <1>8, <1>9 DEF ListenNext

-----------------------------------------------------------------------------
(* main.                                                                    *)

PidFiles == {PidFile(p, d) : p \in {"default", "abs", "rel"}, d \in {"start", "root"}}

\* The types of main's own variables.
MainTypeOK ==
    /\ given \in CommandLine /\ argv \in CommandLine
    /\ options \subseteq {"f", "P", "x", "h", "error"}
    /\ pidpath \in {"none", "abs", "rel", "wild"}
    /\ cwd \in {"start", "root"}
    /\ pidfile \in {NoPidFile} \cup PidFiles
    /\ adcdev \in [Channel -> {"null", "mark", "handle"}]
    /\ handles \subseteq Channel
    /\ smashed \in BOOLEAN
    /\ pc \in {"options", "channels", "check", "daemonize", "alloc", "pid", "serve",
               "quit", "free", "fault", "exit"}
    /\ i \in 0 .. MaxAdc
    /\ retVal \in {0, 1, Unset}

LEMMA TypeParts == TypeOK <=> MainTypeOK /\ ListenTypeOK
  BY DEF TypeOK, MainTypeOK, PidFiles

\* The pid file is the default one, or one of the last -P, or none is named.
LEMMA PidFileType ==
    ASSUME MainTypeOK, "P" \in options => pidpath # "none", UsePidFile
    PROVE  pidfile' \in {NoPidFile} \cup PidFiles
  <1>1. PidPath \in {"default", "abs", "rel", "wild"}
    BY DEF MainTypeOK, PidPath
  <1>2. cwd \in {"start", "root"}
    BY DEF MainTypeOK
  <1>. QED  BY <1>1, <1>2 DEF UsePidFile, PidFiles

\* Each step of main keeps the types.
LEMMA MainType ==
    ASSUME MainTypeOK, "P" \in options => pidpath # "none", MainStep
    PROVE  MainTypeOK'
  <1>. USE DEF MainTypeOK, paths
  <1>0. 0 \in Channel /\ 0 \in 0 .. MaxAdc
    BY DEF Channel
  <1>1. CASE ParseOption
    <2>1. /\ argv.opts \in SeqOf(Option, MaxOptions)
          /\ argv.chans \in SeqOf(Operand, MaxOperands)
      BY DEF CommandLine
    <2>2. Head(argv.opts) \in Option /\ Tail(argv.opts) \in SeqOf(Option, MaxOptions)
      BY <1>1, <2>1, TakeNext DEF ParseOption
    <2>3. argv' \in CommandLine
      BY <1>1, <2>1, <2>2 DEF ParseOption, CommandLine
    <2>4. options' \subseteq {"f", "P", "x", "h", "error"}
      BY <1>1, <2>2 DEF ParseOption, WithOption, Option
    <2>5. pidpath' \in {"none", "abs", "rel", "wild"}
      BY <1>1, <2>2 DEF ParseOption, PathOf, Option
    <2>. QED  BY <1>1, <2>3, <2>4, <2>5 DEF ParseOption
  <1>2. CASE OptionsEnd
    BY <1>0, <1>2 DEF OptionsEnd
  <1>3. CASE InvalidOperand
    BY <1>3 DEF InvalidOperand, Parsing
  <1>4. CASE MarkChannel \/ MarkPastEnd
    <2>1. /\ argv.opts \in SeqOf(Option, MaxOptions)
          /\ argv.chans \in SeqOf(Operand, MaxOperands)
      BY DEF CommandLine
    <2>2. argv.chans # <<>> /\ NextOperand
      BY <1>4 DEF MarkChannel, MarkPastEnd, Parsing
    <2>3. Tail(argv.chans) \in SeqOf(Operand, MaxOperands)
      BY <2>1, <2>2, TakeNext
    <2>4. argv' \in CommandLine
      BY <2>1, <2>2, <2>3 DEF NextOperand, CommandLine
    <2>5. CASE MarkChannel
      BY <2>4, <2>5 DEF MarkChannel
    <2>6. CASE MarkPastEnd
      BY <2>4, <2>6 DEF MarkPastEnd, Unset
    <2>. QED  BY <1>4, <2>5, <2>6
  <1>5. CASE OperandsEnd
    BY <1>5 DEF OperandsEnd
  <1>6. CASE CheckOptions
    BY <1>6 DEF CheckOptions, Returns, Unset
  <1>7. CASE QuitOther
    BY <1>7, PidFileType DEF QuitOther, Returns, Unset
  <1>8. CASE Daemonize
    BY <1>8 DEF Daemonize
  <1>9. CASE AllocDevice
    <2>1. i \in Channel /\ i + 1 \in 0 .. MaxAdc
      BY <1>9 DEF AllocDevice, Channel
    <2>. QED  BY <1>9, <2>1 DEF AllocDevice
  <1>10. CASE AllocFails
    BY <1>0, <1>10 DEF AllocFails
  <1>11. CASE AllocSkips \/ FreeSkips
    <2>1. i < MaxAdc /\ i' = i + 1
      BY <1>11 DEF AllocSkips, FreeSkips
    <2>2. i' \in 0 .. MaxAdc
      BY <2>1
    <2>. QED  BY <1>11, <2>2 DEF AllocSkips, FreeSkips
  <1>12. CASE AllocEnd \/ FreeMarkFaults \/ FreeEnd
    BY <1>12 DEF AllocEnd, FreeMarkFaults, FreeEnd
  <1>13. CASE WritePid
    BY <1>0, <1>13, PidFileType DEF WritePid, Unset
  <1>14. CASE FreeDevice
    BY <1>14 DEF FreeDevice
  <1>15. CASE SmashedFaults
    BY <1>15 DEF SmashedFaults
  <1>. QED
    BY <1>1, <1>2, <1>3, <1>4, <1>5, <1>6, <1>7, <1>8, <1>9, <1>10, <1>11, <1>12, <1>13,
       <1>14, <1>15
    DEF MainStep

\* Every step keeps the types.
LEMMA TypeStep ==
    ASSUME IInv, [Next]_vars
    PROVE  TypeOK'
  <1>. USE DEF paths
  <1>0. MainTypeOK /\ ListenTypeOK /\ Walk /\ ("P" \in options => pidpath # "none")
    BY TypeParts DEF IInv, Paths
  <1>1. CASE UNCHANGED vars
    <2>1. MainTypeOK'
      BY <1>0, <1>1 DEF vars, MainTypeOK
    <2>2. ListenTypeOK'
      BY <1>0, <1>1 DEF vars, ListenVars, ListenTypeOK
    <2>. QED  BY <2>1, <2>2 DEF TypeOK, MainTypeOK, PidFiles
  <1>2. CASE MainStep /\ UNCHANGED ListenVars
    <2>1. MainTypeOK'
      BY <1>0, <1>2, MainType
    <2>2. ListenTypeOK'
      BY <1>0, <1>2 DEF ListenTypeOK, ListenVars
    <2>. QED  BY <2>1, <2>2 DEF TypeOK, MainTypeOK, PidFiles
  <1>3. CASE Listening
    <2>1. ListenTypeOK'
      BY <1>0, <1>3, ListenType DEF Listening
    <2>2. MainTypeOK'
      BY <1>0, <1>3 DEF Listening, MainTypeOK
    <2>. QED  BY <2>1, <2>2 DEF TypeOK, MainTypeOK, PidFiles
  <1>4. CASE ListenFaults
    <2>1. ListenTypeOK'
      BY <1>0, <1>4 DEF ListenFaults, ListenTypeOK, ListenVars
    <2>2. MainTypeOK'
      BY <1>0, <1>4 DEF ListenFaults, MainTypeOK
    <2>. QED  BY <2>1, <2>2 DEF TypeOK, MainTypeOK, PidFiles
  <1>5. CASE ServeEnds
    <2>1. ListenTypeOK'
      BY <1>0, <1>5 DEF ServeEnds, ListenTypeOK, Position
    <2>2. MainTypeOK'
      BY <1>0, <1>5 DEF ServeEnds, MainTypeOK, Unset
    <2>. QED  BY <2>1, <2>2 DEF TypeOK, MainTypeOK, PidFiles
  <1>. QED  BY <1>1, <1>2, <1>3, <1>4, <1>5 DEF Next

\* Every step of the server keeps the walk's invariant: main lets go of the
\* socket that the walk has returned.
LEMMA WalkKept ==
    ASSUME IInv, [Next]_vars
    PROVE  Walk'
  <1>0. ListenTypeOK /\ Walk
    BY DEF IInv, TypeOK
  <1>1. CASE UNCHANGED ListenVars
    BY <1>0, <1>1 DEF Walk, ListenVars, NoneUpTo, SocketIsSound, FindsLaterAddress
  <1>2. CASE Listening
    BY <1>0, <1>2, WalkStep DEF Listening
  <1>3. CASE ServeEnds
    BY <1>0, <1>3 DEF ServeEnds, Walk, SocketIsSound, FindsLaterAddress
  <1>. QED  BY <1>1, <1>2, <1>3 DEF Next, ListenFaults, vars

\* No socket is open outside of adc_server_conn.
LEMMA NoSocketKept ==
    ASSUME IInv, [Next]_vars
    PROVE  NoSocket'
  <1>. USE DEF NoSocket, BeforeConn
  <1>0. NoSocket /\ SocketIsSound /\ MainTypeOK
    BY TypeParts DEF IInv, Walk
  <1>1. CASE UNCHANGED vars
    BY <1>0, <1>1 DEF vars, ListenVars
  <1>2. CASE MainStep /\ UNCHANGED ListenVars
    <2>1. /\ pc' \in BeforeConn => pc \in BeforeConn
          /\ pc # "fault" /\ (pc = "serve" => pc' = "fault")
      BY <1>0, <1>2 DEF MainStep, MainTypeOK, ParseOption, OptionsEnd, InvalidOperand,
         MarkChannel, MarkPastEnd, SmashedFaults, OperandsEnd, CheckOptions, QuitOther, Daemonize,
         AllocDevice, AllocFails, AllocSkips, AllocEnd, WritePid, FreeDevice, FreeSkips,
         FreeMarkFaults, FreeEnd, Returns, Parsing
    <2>2. UNCHANGED <<lpc, open>>
      BY <1>2 DEF ListenVars
    <2>. QED  BY <1>0, <2>1, <2>2
  <1>3. CASE Listening
    BY <1>0, <1>3 DEF Listening
  <1>4. CASE ListenFaults
    BY <1>0, <1>4 DEF ListenFaults
  <1>5. CASE ServeEnds
    BY <1>0, <1>5 DEF ServeEnds, SocketIsSound
  <1>. QED  BY <1>1, <1>2, <1>3, <1>4, <1>5 DEF Next

\* The operands taken so far are the marks, whatever their order.
LEMMA MarksKept ==
    ASSUME IInv, [Next]_vars
    PROVE  Marks'
  <1>. DEFINE Early == {"options", "channels", "check", "quit", "daemonize"}
  <1>. USE DEF paths
  <1>0. MainTypeOK /\ Marks
    BY TypeParts DEF IInv
  <1>1. /\ argv.chans \in SeqOf(Operand, MaxOperands)
        /\ adcdev \in [Channel -> {"null", "mark", "handle"}]
        /\ 0 \in Channel
    BY <1>0 DEF MainTypeOK, CommandLine, Channel
  <1>2. Chosen' = Chosen
    <2>1. given' = given
      BY DEF Next, vars, MainStep, ParseOption, OptionsEnd, InvalidOperand,
         MarkChannel, MarkPastEnd, SmashedFaults, OperandsEnd, CheckOptions, QuitOther,
         Daemonize, AllocDevice, AllocFails, AllocSkips, AllocEnd, WritePid, FreeDevice,
         FreeSkips, FreeMarkFaults, FreeEnd, Listening, ListenFaults, ServeEnds
    <2>. QED  BY <2>1 DEF Chosen
  <1>3. ASSUME pc' \notin Early PROVE Marks'
    BY <1>3 DEF Marks
  <1>4. CASE UNCHANGED vars
    BY <1>0, <1>2, <1>4 DEF vars, Marks, Entries
  <1>5. CASE ParseOption
    BY <1>0, <1>2, <1>5 DEF ParseOption, Marks, CommandLine, MainTypeOK
  <1>6. CASE OptionsEnd
    <2>1. /\ pc' = "channels" /\ i' = 0 /\ handles' = {}
          /\ argv' = argv /\ argv.chans = given.chans
          /\ \A c \in Channel : adcdev[c] = "null"
      BY <1>0, <1>6 DEF OptionsEnd, Marks
    <2>2. CASE argv.chans = <<>>
      <3>1. adcdev' = [adcdev EXCEPT ![0] = "mark"]
        BY <1>6, <2>2 DEF OptionsEnd
      <3>2. Entries("mark")' = {0} /\ Entries("handle")' = {}
        BY <1>1, <2>1, <3>1 DEF Entries
      <3>3. Chosen = {0} /\ ToSet(argv.chans) = {}
        BY <1>1, <2>1, <2>2, NothingLeft DEF Chosen
      <3>. QED  BY <1>2, <2>1, <3>2, <3>3 DEF Marks
    <2>3. CASE argv.chans # <<>>
      <3>1. adcdev' = adcdev
        BY <1>6, <2>3 DEF OptionsEnd
      <3>2. Entries("mark")' = {} /\ Entries("handle")' = {}
        BY <2>1, <3>1 DEF Entries
      <3>3. Chosen = ToSet(argv.chans) \cap Channel
        BY <2>1, <2>3 DEF Chosen
      <3>. QED  BY <1>2, <2>1, <3>2, <3>3 DEF Marks
    <2>. QED  BY <2>2, <2>3
  <1>7. CASE InvalidOperand
    BY <1>0, <1>2, <1>7 DEF InvalidOperand, Parsing, Marks, Entries
  <1>8. CASE MarkChannel
    <2>1. /\ pc = "channels" /\ argv.chans # <<>> /\ Head(argv.chans) \in Channel
          /\ adcdev' = [adcdev EXCEPT ![Head(argv.chans)] = "mark"]
          /\ argv'.chans = Tail(argv.chans)
          /\ UNCHANGED <<options, handles, pc, i>>
      BY <1>0, <1>8 DEF MarkChannel, Parsing, NextOperand, MainTypeOK, CommandLine
    <2>2. ToSet(argv.chans) = {Head(argv.chans)} \cup ToSet(Tail(argv.chans))
      BY <1>1, <2>1, TakeNext
    <2>3. /\ Entries("mark")' = Entries("mark") \cup {Head(argv.chans)}
          /\ Entries("handle") = {} => Entries("handle")' = {}
      BY <1>1, <2>1 DEF Entries
    <2>. QED  BY <1>0, <1>2, <2>1, <2>2, <2>3 DEF Marks
  <1>9. CASE MarkPastEnd
    <2>1. /\ pc = "channels" /\ argv.chans # <<>> /\ Head(argv.chans) \notin Channel
          /\ argv'.chans = Tail(argv.chans)
          /\ UNCHANGED <<handles, adcdev, i, pc>>
      <3>1. /\ pc = "channels" /\ argv.chans # <<>> /\ Head(argv.chans) = MaxAdc
            /\ NextOperand /\ UNCHANGED <<handles, adcdev, i, pc>>
        BY <1>9 DEF MarkPastEnd, Parsing
      <3>2. MaxAdc \notin Channel
        BY DEF Channel
      <3>3. argv'.chans = Tail(argv.chans)
        BY <1>0, <3>1 DEF NextOperand, MainTypeOK, CommandLine
      <3>. QED  BY <3>1, <3>2, <3>3
    <2>2. ToSet(argv.chans) = {Head(argv.chans)} \cup ToSet(Tail(argv.chans))
      BY <1>1, <2>1, TakeNext
    <2>3. Entries("mark")' = Entries("mark") /\ Entries("handle")' = Entries("handle")
      BY <2>1 DEF Entries
    <2>. QED  BY <1>0, <1>2, <2>1, <2>2, <2>3 DEF Marks
  <1>10. CASE OperandsEnd
    <2>1. /\ pc = "channels" /\ pc' = "check"
          /\ UNCHANGED <<options, handles, adcdev, i>>
          /\ options \cap {"error", "h"} = {} => argv.chans = <<>>
      BY <1>10 DEF OperandsEnd, Parsing
    <2>2. Entries("mark")' = Entries("mark") /\ Entries("handle")' = Entries("handle")
      BY <2>1 DEF Entries
    <2>3. argv.chans = <<>> => ToSet(argv.chans) = {}
      BY <1>1, NothingLeft
    <2>. QED  BY <1>0, <1>2, <2>1, <2>2, <2>3 DEF Marks
  <1>11. CASE CheckOptions
    <2>1. /\ pc = "check" /\ UNCHANGED <<adcdev, handles, options>>
          /\ \/ pc' \in {"exit", "alloc"}
             \/ pc' = "quit" /\ i' = i
             \/ pc' = "daemonize" /\ i' = i /\ options \cap {"error", "h"} = {}
      BY <1>11 DEF CheckOptions, Returns
    <2>2. Entries("mark")' = Entries("mark") /\ Entries("handle")' = Entries("handle")
      BY <2>1 DEF Entries
    <2>. QED  BY <1>0, <1>2, <2>1, <2>2 DEF Marks
  <1>12. CASE \/ QuitOther \/ Daemonize
              \/ AllocDevice \/ AllocFails \/ AllocSkips \/ AllocEnd \/ WritePid
              \/ FreeDevice \/ FreeSkips \/ FreeMarkFaults \/ FreeEnd
              \/ Listening \/ ListenFaults \/ ServeEnds \/ SmashedFaults
    <2>1. pc' \notin Early
      BY <1>12 DEF SmashedFaults, QuitOther, Daemonize, Returns, AllocDevice, AllocFails, AllocSkips, AllocEnd,
         WritePid, FreeDevice, FreeSkips, FreeMarkFaults, FreeEnd, Listening, ListenFaults, ServeEnds
    <2>. QED  BY <1>3, <2>1
  <1>. QED  BY <1>4, <1>5, <1>6, <1>7, <1>8, <1>9, <1>10, <1>11, <1>12 DEF Next, MainStep

\* What is done to a marked channel is done to no other.
LEMMA DevicesKept ==
    ASSUME IInv, [Next]_vars
    PROVE  Devices'
  <1>. USE DEF paths
  <1>0. MainTypeOK /\ Marks /\ Devices
    BY TypeParts DEF IInv
  <1>1. /\ adcdev \in [Channel -> {"null", "mark", "handle"}] /\ i \in 0 .. MaxAdc
        /\ Chosen \subseteq Channel /\ Channel = 0 .. MaxAdc - 1
    BY <1>0 DEF MainTypeOK, Chosen, Channel
  <1>2. Chosen' = Chosen
    <2>1. given' = given
      BY DEF Next, vars, MainStep, ParseOption, OptionsEnd, InvalidOperand,
         MarkChannel, MarkPastEnd, SmashedFaults, OperandsEnd, CheckOptions, QuitOther,
         Daemonize, AllocDevice, AllocFails, AllocSkips, AllocEnd, WritePid, FreeDevice,
         FreeSkips, FreeMarkFaults, FreeEnd, Listening, ListenFaults, ServeEnds
    <2>. QED  BY <2>1 DEF Chosen
  <1>3. ASSUME pc' \notin {"alloc", "pid", "serve", "free", "exit"} PROVE Devices'
    BY <1>3 DEF Devices
  <1>4. CASE UNCHANGED vars
    BY <1>0, <1>2, <1>4 DEF vars, Devices, Entries
  <1>5. CASE \/ ParseOption \/ OptionsEnd \/ InvalidOperand \/ MarkChannel \/ MarkPastEnd
             \/ OperandsEnd \/ FreeMarkFaults \/ ListenFaults \/ SmashedFaults
    <2>1. pc' \notin {"alloc", "pid", "serve", "free", "exit"}
      BY <1>5 DEF ParseOption, OptionsEnd, InvalidOperand, MarkChannel, MarkPastEnd,
         OperandsEnd, FreeMarkFaults, ListenFaults, SmashedFaults, Parsing
    <2>. QED  BY <1>3, <2>1
  <1>6. ASSUME pc' = "alloc", i' = i, UNCHANGED <<adcdev, handles>>,
               i = 0, handles = {}, Chosen = Entries("mark"), Entries("handle") = {}
        PROVE  Devices'
    BY <1>1, <1>2, <1>6 DEF Devices, Entries
  <1>7. CASE CheckOptions
    <2>1. /\ pc = "check" /\ UNCHANGED <<adcdev, handles>>
          /\ \/ pc' \in {"exit", "quit", "daemonize"}
             \/ pc' = "alloc" /\ i' = i /\ options \cap {"error", "h"} = {}
      BY <1>7 DEF CheckOptions, Returns
    <2>2. CASE pc' = "alloc"
      BY <1>0, <1>6, <2>1, <2>2 DEF Marks
    <2>3. CASE pc' # "alloc"
      BY <1>0, <2>1, <2>3 DEF Devices, Marks
    <2>. QED  BY <2>2, <2>3
  <1>8. CASE QuitOther
    BY <1>0, <1>8 DEF QuitOther, Returns, Devices, Marks
  <1>9. CASE Daemonize
    BY <1>0, <1>6, <1>9 DEF Daemonize, Marks
  <1>10. CASE AllocDevice
    <2>1. /\ pc = "alloc" /\ pc' = "alloc" /\ i' = i + 1 /\ i < MaxAdc /\ handles' = handles \cup {i}
          /\ adcdev[i] # "null" /\ adcdev' = [adcdev EXCEPT ![i] = "handle"]
      BY <1>10 DEF AllocDevice
    <2>2. /\ \A c \in Channel : adcdev[c] = IF c \notin Chosen THEN "null"
                                            ELSE IF c < i THEN "handle" ELSE "mark"
          /\ handles = {c \in Chosen : c < i}
      BY <1>0, <2>1 DEF Devices
    <2>3. i \in Channel /\ i \in Chosen
      BY <1>1, <2>1, <2>2
    <2>4. \A c \in Channel : adcdev'[c] = IF c \notin Chosen THEN "null"
                                           ELSE IF c < i + 1 THEN "handle" ELSE "mark"
      BY <1>1, <2>1, <2>2, <2>3
    <2>5. \A c \in Channel : c < i + 1 <=> c < i \/ c = i
      BY <1>1
    <2>6. handles' = {c \in Chosen : c < i + 1}
      <3>1. \A c \in Chosen : c \in Channel
        BY <1>1
      <3>. QED  BY <2>1, <2>2, <2>3, <2>5, <3>1
    <2>. QED  BY <1>2, <2>1, <2>4, <2>6 DEF Devices
  <1>11. CASE AllocFails
    <2>1. /\ pc = "alloc" /\ pc' = "free" /\ i' = 0 /\ i < MaxAdc /\ handles' = handles
          /\ adcdev[i] # "null" /\ adcdev' = [adcdev EXCEPT ![i] = "null"]
      BY <1>11 DEF AllocFails
    <2>2. /\ \A c \in Channel : adcdev[c] = IF c \notin Chosen THEN "null"
                                            ELSE IF c < i THEN "handle" ELSE "mark"
          /\ handles = {c \in Chosen : c < i}
      BY <1>0, <2>1 DEF Devices
    <2>3. i \in Channel /\ i \in Chosen /\ adcdev'[i] = "null"
      BY <1>1, <2>1, <2>2
    <2>4. {c \in Channel : c >= 0 /\ adcdev'[c] = "handle"} = handles
      <3>1. \A c \in Channel : c >= 0 /\ (adcdev'[c] = "handle" <=> c \in handles)
        BY <1>1, <2>1, <2>2
      <3>2. \A c \in handles : c \in Channel
        BY <1>1, <2>2
      <3>. QED  BY <3>1, <3>2
    <2>5. \A c \in Channel : adcdev'[c] = "mark" => i < c
      BY <1>1, <2>1, <2>2
    <2>. QED  BY <1>2, <2>1, <2>3, <2>4, <2>5 DEF Devices, Entries
  <1>12. CASE AllocSkips
    <2>1. /\ pc = "alloc" /\ pc' = "alloc" /\ i' = i + 1 /\ i < MaxAdc
          /\ adcdev[i] = "null" /\ UNCHANGED <<adcdev, handles>>
      BY <1>12 DEF AllocSkips
    <2>2. /\ \A c \in Channel : adcdev[c] = IF c \notin Chosen THEN "null"
                                            ELSE IF c < i THEN "handle" ELSE "mark"
          /\ handles = {c \in Chosen : c < i}
      BY <1>0, <2>1 DEF Devices
    <2>3. i \in Channel /\ i \notin Chosen
      BY <1>1, <2>1, <2>2
    <2>4. \A c \in Channel : adcdev[c] = IF c \notin Chosen THEN "null"
                                           ELSE IF c < i + 1 THEN "handle" ELSE "mark"
      BY <1>1, <2>2, <2>3
    <2>5. handles = {c \in Chosen : c < i + 1}
      <3>1. \A c \in Channel : c < i + 1 <=> c < i \/ c = i
        BY <1>1
      <3>2. \A c \in Chosen : c \in Channel
        BY <1>1
      <3>. QED  BY <2>2, <2>3, <3>1, <3>2
    <2>. QED  BY <1>2, <2>1, <2>4, <2>5 DEF Devices
  <1>13. CASE AllocEnd
    <2>1. pc = "alloc" /\ pc' = "pid" /\ i = MaxAdc /\ UNCHANGED <<adcdev, handles>>
      BY <1>13 DEF AllocEnd
    <2>2. /\ \A c \in Channel : adcdev[c] = IF c \in Chosen THEN "handle" ELSE "null"
          /\ handles = Chosen
      <3>1. \A c \in Channel : c < i
        BY <1>1, <2>1
      <3>2. /\ \A c \in Channel : adcdev[c] = IF c \notin Chosen THEN "null"
                                              ELSE IF c < i THEN "handle" ELSE "mark"
            /\ handles = {c \in Chosen : c < i}
        BY <1>0, <2>1 DEF Devices
      <3>3. \A c \in Chosen : c < i
        BY <1>1, <3>1
      <3>. QED  BY <3>1, <3>2, <3>3
    <2>. QED  BY <1>2, <2>1, <2>2 DEF Devices
  <1>14. ASSUME pc' = "free", i' = 0, UNCHANGED <<adcdev, handles>>, handles = Chosen,
                \A c \in Channel : adcdev[c] = IF c \in Chosen THEN "handle" ELSE "null"
         PROVE  Devices'
    <2>1. \A c \in Channel : c >= 0 /\ (adcdev[c] = "handle" <=> c \in handles)
      BY <1>1, <1>14
    <2>2. {c \in Channel : c >= 0 /\ adcdev[c] = "handle"} = handles
      <3>1. \A c \in handles : c \in Channel
        BY <1>1, <1>14
      <3>. QED  BY <2>1, <3>1
    <2>3. Entries("mark")' = {}
      BY <1>14 DEF Entries
    <2>. QED  BY <1>14, <2>2, <2>3 DEF Devices
  <1>15. CASE WritePid
    <2>1. /\ pc = "pid" /\ UNCHANGED <<adcdev, handles>>
          /\ (pc' = "serve" \/ pc' = "fault" \/ (pc' = "free" /\ i' = 0))
      BY <1>15 DEF WritePid
    <2>2. /\ \A c \in Channel : adcdev[c] = IF c \in Chosen THEN "handle" ELSE "null"
          /\ handles = Chosen
      BY <1>0, <2>1 DEF Devices
    <2>3. CASE pc' = "serve"
      BY <1>2, <2>1, <2>2, <2>3 DEF Devices
    <2>4. CASE pc' = "free" /\ i' = 0
      BY <1>14, <2>1, <2>2, <2>4
    <2>5. CASE pc' = "fault"
      BY <1>3, <2>5
    <2>. QED  BY <2>1, <2>3, <2>4, <2>5
  <1>16. CASE Listening
    BY <1>0, <1>2, <1>16 DEF Listening, Devices
  <1>17. CASE ServeEnds
    <2>1. pc = "serve" /\ pc' = "free" /\ i' = 0 /\ UNCHANGED <<adcdev, handles>>
      BY <1>17 DEF ServeEnds
    <2>2. /\ \A c \in Channel : adcdev[c] = IF c \in Chosen THEN "handle" ELSE "null"
          /\ handles = Chosen
      BY <1>0, <2>1 DEF Devices
    <2>. QED  BY <1>14, <2>1, <2>2
  <1>18. CASE FreeDevice \/ FreeSkips
    <2>1. /\ pc = "free" /\ pc' = "free" /\ i < MaxAdc /\ i' = i + 1 /\ adcdev' = adcdev
          /\ \/ adcdev[i] = "handle" /\ handles' = handles \ {i}
             \/ adcdev[i] = "null" /\ handles' = handles
      BY <1>18 DEF FreeDevice, FreeSkips
    <2>2. {c \in Channel : c >= i /\ adcdev[c] = "handle"} = handles
      BY <1>0, <2>1 DEF Devices
    <2>3. {c \in Channel : c >= i + 1 /\ adcdev[c] = "handle"} = handles'
      BY <1>1, <2>1, <2>2
    <2>. QED  BY <1>0, <1>2, <2>1, <2>3 DEF Devices, Entries
  <1>19. CASE FreeEnd
    <2>1. pc = "free" /\ pc' = "exit" /\ i = MaxAdc /\ UNCHANGED <<adcdev, handles>>
      BY <1>19 DEF FreeEnd
    <2>2. {c \in Channel : c >= i /\ adcdev[c] = "handle"} = handles
      BY <1>0, <2>1 DEF Devices
    <2>3. handles = {}
      BY <1>1, <2>1, <2>2
    <2>. QED  BY <2>1, <2>3 DEF Devices
  <1>. QED
    BY <1>4, <1>5, <1>7, <1>8, <1>9, <1>10, <1>11, <1>12, <1>13, <1>15, <1>16, <1>17,
       <1>18, <1>19 DEF Next, MainStep

\* The options taken so far are the beginning of the command line, and of them
\* the last -P is remembered in pidpath, though not always in options.
LEMMA OptionKept ==
    ASSUME MainTypeOK, Paths, ParseOption
    PROVE  Paths'
  <1>. DEFINE m == Len(given.opts)
              n == Len(argv.opts)
              o == Head(argv.opts)
  <1>1. /\ argv.opts \in SeqOf(Option, MaxOptions) /\ given.opts \in SeqOf(Option, MaxOptions)
        /\ argv.opts # <<>> /\ pc = "options" /\ UNCHANGED <<given, cwd, pidfile, smashed, pc>>
        /\ options' = WithOption(o) /\ pidpath' = PathOf(o) /\ argv'.opts = Tail(argv.opts)
    BY DEF ParseOption, MainTypeOK, CommandLine
  <1>2. /\ o \in Option /\ o = argv.opts[1] /\ n \in Nat \ {0} /\ m \in Nat
        /\ Len(argv'.opts) = n - 1
        /\ \A k \in 1 .. n - 1 : argv'.opts[k] = argv.opts[k + 1]
    BY <1>1, TakeNext, NothingLeft
  <1>3. /\ n <= m /\ \A k \in 1 .. n : argv.opts[k] = given.opts[m - n + k]
        /\ given'.opts = given.opts /\ Len(given'.opts) = m
    BY <1>1 DEF Paths
  <1>. DEFINE p == m - n + 1
  <1>. HIDE DEF m, n, o
  <1>4. /\ p \in Nat /\ p = m - (n - 1) /\ given.opts[p] = o
        /\ 1 .. m - (n - 1) = (1 .. m - n) \cup {p} /\ \A k \in 1 .. m - n : k < p
    <2>1. 1 \in 1 .. n
      BY <1>2
    <2>2. given.opts[p] = o
      BY <1>2, <1>3, <2>1
    <2>3. m - n \in Nat /\ m - (n - 1) = (m - n) + 1
      BY <1>2, <1>3
    <2>. QED  BY <2>2, <2>3
  <1>5. \A k \in 1 .. n - 1 : argv'.opts[k] = given.opts[m - (n - 1) + k]
    <2>1. ASSUME NEW k \in 1 .. n - 1 PROVE argv'.opts[k] = given.opts[m - (n - 1) + k]
      <3>1. k + 1 \in 1 .. n /\ m - n + (k + 1) = m - (n - 1) + k
        BY <1>2
      <3>. QED  BY <1>2, <1>3, <3>1
    <2>. QED  BY <2>1
  <1>6. Parsed = 1 .. m - n /\ Parsed' = Parsed \cup {p}
    <2>1. Parsed = 1 .. m - n
      BY DEF Parsed, m, n
    <2>2. Parsed' = 1 .. m - (n - 1)
      BY <1>2, <1>3 DEF Parsed
    <2>. QED  BY <1>4, <2>1, <2>2
  <1>. HIDE DEF p
  <1>7. \A k \in Parsed : k < p /\ k # p /\ ~ (p < k)
    BY <1>2, <1>4, <1>6
  <1>8. ~ (p < p)
    BY <1>4
  <1>9. /\ pidpath = "none" => \A k \in Parsed : ~ IsPath(given.opts[k])
        /\ pidpath # "none" =>
               \E k \in Parsed : /\ given.opts[k] = IF pidpath = "abs" THEN "P abs" ELSE "P rel"
                                 /\ \A l \in Parsed : l > k => ~ IsPath(given.opts[l])
        /\ "P" \in options => pidpath # "none"
        /\ pidpath # "none" =>
               \/ "P" \in options
               \/ "x" \in options /\ \E k, l \in Parsed :
                      k < l /\ IsPath(given.opts[k]) /\ given.opts[l] = "x"
        /\ pidpath # "wild"
    BY <1>1 DEF Paths, Remembered
  <1>10. /\ pidpath' = "none" => \A k \in Parsed' : ~ IsPath(given.opts[k])
         /\ pidpath' # "none" =>
               \E k \in Parsed' : /\ given.opts[k] = IF pidpath' = "abs" THEN "P abs" ELSE "P rel"
                                  /\ \A l \in Parsed' : l > k => ~ IsPath(given.opts[l])
    <2>1. CASE IsPath(o)
      <3>1. pidpath' # "none" /\ o = IF pidpath' = "abs" THEN "P abs" ELSE "P rel"
        BY <1>1, <2>1 DEF PathOf, IsPath
      <3>2. \A l \in Parsed' : ~ (l > p)
        BY <1>4, <1>6, <1>7
      <3>3. /\ p \in Parsed'
            /\ given.opts[p] = IF pidpath' = "abs" THEN "P abs" ELSE "P rel"
            /\ \A l \in Parsed' : l > p => ~ IsPath(given.opts[l])
        BY <1>4, <1>6, <3>1, <3>2
      <3>. QED  BY <3>1, <3>3
    <2>2. CASE ~ IsPath(o)
      <3>1. pidpath' = pidpath
        BY <1>1, <2>2 DEF PathOf, IsPath
      <3>. QED  BY <1>4, <1>6, <1>9, <2>2, <3>1
    <2>. QED  BY <2>1, <2>2
  <1>11. /\ "P" \in options' => pidpath' # "none"
         /\ pidpath' # "none" =>
               \/ "P" \in options'
               \/ "x" \in options' /\ \E k, l \in Parsed' :
                      k < l /\ IsPath(given.opts[k]) /\ given.opts[l] = "x"
    <2>1. CASE IsPath(o)
      BY <1>1, <2>1 DEF WithOption, PathOf, IsPath
    <2>2. CASE o = "x"
      <3>1. options' = {"x"} /\ pidpath' = pidpath
        BY <1>1, <2>2 DEF WithOption, PathOf
      <3>2. pidpath # "none" => \E k \in Parsed : IsPath(given.opts[k])
        BY <1>9 DEF IsPath
      <3>. QED  BY <1>4, <1>6, <1>7, <2>2, <3>1, <3>2
    <2>3. CASE ~ IsPath(o) /\ o # "x"
      <3>1. /\ pidpath' = pidpath
            /\ \/ options' = options \cup {o} /\ o # "P"
               \/ options' = options \cup {"error"}
        BY <1>1, <1>2, <2>3 DEF WithOption, PathOf, IsPath, Option
      <3>. QED  BY <1>6, <1>9, <3>1
    <2>. QED  BY <2>1, <2>2, <2>3
  <1>12. /\ cwd' = "start" /\ pidfile' = NoPidFile /\ pc' = "options" /\ ~ smashed'
         /\ pidpath' # "wild"
    BY <1>1, <1>9 DEF Paths, BeforeConn, PathOf
  <1>13. n - 1 <= m
    BY <1>2, <1>3
  <1>. QED
    BY <1>1, <1>2, <1>3, <1>5, <1>10, <1>11, <1>12, <1>13 DEF Paths, Remembered

\* Behind the options, main reads them and changes its directory once.
LEMMA PathsKept ==
    ASSUME IInv, [Next]_vars
    PROVE  Paths'
  <1>. USE DEF paths
  <1>0. MainTypeOK /\ Paths
    BY TypeParts DEF IInv
  <1>1. CASE ParseOption
    BY <1>0, <1>1, OptionKept
  <1>2. ASSUME UNCHANGED <<given, argv.opts, pidpath, smashed>>,
               options' \in {options, options \cup {"error"}},
               pc = "options" => pc' = "options" \/ argv.opts = <<>>,
               pc' = "options" => pc = "options",
               \/ UNCHANGED <<cwd, pidfile>> /\ (pc' \in BeforeConn => pc \in BeforeConn)
               \/ cwd' = cwd /\ pc' \notin BeforeConn
               \/ pidfile' = pidfile /\ pc = "daemonize" /\ pc' = "alloc",
               pc' \in {"channels", "check", "quit"} =>
                   pc \in {"options", "channels", "check", "quit"},
               pc' = "daemonize" =>
                   pc = "daemonize" \/ (pc = "check" /\ "f" \notin options)
        PROVE  Paths'
    <2>1. Parsed' = Parsed
      BY <1>2 DEF Parsed
    <2>2. /\ Len(argv'.opts) <= Len(given'.opts)
          /\ \A k \in 1 .. Len(argv'.opts) :
                 argv'.opts[k] = given'.opts[Len(given'.opts) - Len(argv'.opts) + k]
          /\ pc' # "options" => argv'.opts = <<>>
      BY <1>0, <1>2 DEF Paths
    <2>3. ~ smashed' => Remembered'
      BY <1>0, <1>2, <2>1 DEF Paths, Remembered
    <2>4. /\ "P" \in options' => pidpath' # "none"
          /\ pc' = "options" => ~ smashed'
      BY <1>0, <1>2 DEF Paths
    <2>5. /\ pc' \in {"options", "channels", "check", "quit", "daemonize"} => cwd' = "start"
          /\ pc' = "daemonize" \/ cwd' = "root" => "f" \notin options'
          /\ pc' \in BeforeConn => pidfile' = NoPidFile
      BY <1>0, <1>2 DEF Paths, BeforeConn, MainTypeOK
    <2>. QED  BY <2>2, <2>3, <2>4, <2>5 DEF Paths
  <1>3. CASE UNCHANGED vars
    BY <1>2, <1>3 DEF vars
  <1>4. CASE OptionsEnd \/ InvalidOperand \/ OperandsEnd
    BY <1>2, <1>4 DEF OptionsEnd, InvalidOperand, OperandsEnd, Parsing, BeforeConn
  <1>5. CASE MarkChannel
    <2>1. argv'.opts = argv.opts
      BY <1>0, <1>5 DEF MarkChannel, NextOperand, MainTypeOK, CommandLine
    <2>. QED  BY <1>2, <1>5, <2>1 DEF MarkChannel, Parsing, BeforeConn
  <1>10. CASE MarkPastEnd
    <2>1. argv'.opts = argv.opts
      BY <1>0, <1>10 DEF MarkPastEnd, NextOperand, MainTypeOK, CommandLine
    <2>2. /\ pc = "channels" /\ pc' = "channels" /\ smashed'
          /\ UNCHANGED <<given, cwd, pidfile>>
          /\ \/ options' = {"f"} /\ pidpath' = pidpath
             \/ options' = options /\ pidpath' \in {pidpath, "wild"}
      BY <1>10 DEF MarkPastEnd, Parsing
    <2>. QED  BY <1>0, <2>1, <2>2 DEF Paths, BeforeConn
  <1>6. CASE CheckOptions
    BY <1>2, <1>6 DEF CheckOptions, Returns, BeforeConn
  <1>7. CASE QuitOther \/ WritePid
    BY <1>2, <1>7 DEF QuitOther, WritePid, Returns, BeforeConn
  <1>8. CASE Daemonize
    BY <1>2, <1>8 DEF Daemonize
  <1>9. CASE \/ AllocDevice \/ AllocFails \/ AllocSkips \/ AllocEnd
             \/ FreeDevice \/ FreeSkips \/ FreeMarkFaults \/ FreeEnd
             \/ Listening \/ ListenFaults \/ ServeEnds \/ SmashedFaults
    BY <1>2, <1>9 DEF SmashedFaults, AllocDevice, AllocFails, AllocSkips, AllocEnd, FreeDevice, FreeSkips,
       FreeMarkFaults, FreeEnd, Listening, ListenFaults, ServeEnds, BeforeConn
  <1>. QED
    BY <1>1, <1>3, <1>4, <1>5, <1>6, <1>7, <1>8, <1>9, <1>10 DEF Next, MainStep

\* main dies of a mark only behind a channel whose device it could not open.
LEMMA FaultKept ==
    ASSUME IInv, [Next]_vars
    PROVE  FaultsOnlyAfterFailure'
  <1>. USE DEF FaultsOnlyAfterFailure, paths
  <1>0. MainTypeOK /\ Devices /\ Paths /\ FaultsOnlyAfterFailure /\ FindsLaterAddress
    BY TypeParts DEF IInv, Walk
  <1>1. CASE UNCHANGED vars
    BY <1>0, <1>1 DEF vars, ListenVars, Chosen, FindsLaterAddress
  <1>2. CASE FreeMarkFaults /\ UNCHANGED ListenVars
    <2>1. /\ pc = "free" /\ i < MaxAdc /\ adcdev[i] = "mark"
          /\ UNCHANGED <<given, adcdev, i>>
      BY <1>2 DEF FreeMarkFaults
    <2>2. i \in Entries("mark")
      BY <1>0, <2>1 DEF Entries, MainTypeOK, Channel
    <2>3. \E d \in Chosen : d < i /\ adcdev[d] = "null"
      BY <1>0, <2>1, <2>2 DEF Devices
    <2>4. Chosen' = Chosen
      BY <2>1 DEF Chosen
    <2>. QED  BY <2>1, <2>3, <2>4
  <1>3. CASE MarkPastEnd \/ SmashedFaults
    BY <1>3 DEF MarkPastEnd, SmashedFaults
  <1>8. CASE WritePid /\ pc' = "fault"
    <2>1. PidPath = "wild"
      BY <1>8 DEF WritePid
    <2>2. smashed /\ smashed' = smashed
      BY <1>0, <1>8, <2>1 DEF PidPath, WritePid, Paths, Remembered
    <2>. QED  BY <2>2
  <1>4. CASE ListenFaults
    BY <1>0, <1>4 DEF ListenFaults, ListenVars, FindsLaterAddress
  <1>5. CASE Listening
    BY <1>5 DEF Listening
  <1>6. CASE ServeEnds
    BY <1>6 DEF ServeEnds
  <1>7. ASSUME MainStep, ~ FreeMarkFaults, ~ MarkPastEnd, ~ SmashedFaults,
               ~ (WritePid /\ pc' = "fault")
        PROVE  pc' # "fault"
    BY <1>7 DEF MainStep, ParseOption, OptionsEnd, InvalidOperand,
       MarkChannel, OperandsEnd, CheckOptions, QuitOther, Daemonize, Parsing,
       AllocDevice, AllocFails, AllocSkips, AllocEnd, WritePid, FreeDevice, FreeSkips,
       FreeEnd, Returns
  <1>. QED  BY <1>1, <1>2, <1>3, <1>4, <1>5, <1>6, <1>7, <1>8 DEF Next

\* The position of the last of the options of a set is the greatest.
LEMMA Greatest ==
    ASSUME NEW S, S \subseteq Nat, NEW k \in S, \A l \in S : ~ (l > k)
    PROVE  Max(S) = k
  <1>1. \A y \in S : k >= y
    OBVIOUS
  <1>2. Max(S) \in S /\ \A y \in S : Max(S) >= y
    BY <1>1 DEF Max
  <1>3. Max(S) >= k /\ k >= Max(S) /\ Max(S) \in Nat /\ k \in Nat
    BY <1>1, <1>2
  <1>. QED  BY <1>3

\* What pidpath holds when the options are parsed.
LEMMA PathIsGiven ==
    ASSUME MainTypeOK, Paths, pc # "options", ~ smashed
    PROVE  /\ pidpath = "none" => GivenPath = "default"
           /\ pidpath # "none" => GivenPath = pidpath
           /\ pidpath # "none" /\ "P" \notin options =>
                  "x" \in options /\ \E o \in {"P abs", "P rel"} : Before(o, "x")
  <1>. DEFINE pathOpts == {k \in DOMAIN given.opts : given.opts[k] \in {"P abs", "P rel"}}
  <1>1. /\ given.opts \in SeqOf(Option, MaxOptions)
        /\ pidpath \in {"none", "abs", "rel"}
    BY DEF MainTypeOK, CommandLine, Paths, Remembered
  <1>2. Len(given.opts) \in Nat /\ DOMAIN given.opts = 1 .. Len(given.opts)
    BY <1>1, SeqOfIsSeq
  <1>3. argv.opts = <<>> /\ Len(argv.opts) = 0
    BY EmptySeq DEF Paths
  <1>4. Parsed = DOMAIN given.opts
    BY <1>2, <1>3 DEF Parsed
  <1>5. /\ pathOpts = {} => GivenPath = "default"
        /\ pathOpts # {} /\ given.opts[Max(pathOpts)] = "P abs" => GivenPath = "abs"
        /\ pathOpts # {} /\ given.opts[Max(pathOpts)] # "P abs" => GivenPath = "rel"
    BY DEF GivenPath
  <1>6. ASSUME pidpath = "none" PROVE GivenPath = "default"
    <2>1. pathOpts = {}
      BY <1>4, <1>6 DEF Paths, Remembered, IsPath
    <2>. QED  BY <1>5, <2>1
  <1>7. ASSUME pidpath # "none" PROVE GivenPath = pidpath
    <2>1. PICK k \in Parsed : /\ given.opts[k] = IF pidpath = "abs" THEN "P abs" ELSE "P rel"
                              /\ \A l \in Parsed : l > k => ~ IsPath(given.opts[l])
      BY <1>7 DEF Paths, Remembered
    <2>2. k \in pathOpts /\ \A l \in pathOpts : ~ (l > k)
      BY <1>4, <2>1 DEF IsPath
    <2>3. pathOpts \subseteq Nat
      <3>1. 1 .. Len(given.opts) \subseteq Nat
        BY <1>2
      <3>2. DOMAIN given.opts \subseteq Nat
        BY <1>2, <3>1
      <3>. QED  BY Zenon, <3>2
    <2>. HIDE DEF pathOpts
    <2>4. Max(pathOpts) = k
      BY <2>2, <2>3, Greatest
    <2>5. pathOpts # {} /\ given.opts[Max(pathOpts)] = given.opts[k]
      BY Zenon, <2>2, <2>4
    <2>6. CASE pidpath = "abs"
      BY <1>5, <2>1, <2>5, <2>6
    <2>7. CASE pidpath = "rel"
      <3>1. given.opts[Max(pathOpts)] # "P abs"
        BY <2>1, <2>5, <2>7
      <3>. QED  BY <1>5, <2>5, <2>7, <3>1
    <2>. QED  BY <1>1, <1>7, <2>6, <2>7
  <1>8. ASSUME pidpath # "none", "P" \notin options
        PROVE  "x" \in options /\ \E o \in {"P abs", "P rel"} : Before(o, "x")
    BY <1>4, <1>8 DEF Paths, Remembered, IsPath, Before
  <1>. QED  BY <1>6, <1>7, <1>8

\* Whoever names the pid file names the one of the command line, with the
\* exceptions that FileAsNamed lists.
LEMMA FileKept ==
    ASSUME IInv, [Next]_vars
    PROVE  FileAsNamed'
  <1>. USE DEF paths
  <1>0. MainTypeOK /\ Paths /\ FileAsNamed
    BY TypeParts DEF IInv
  <1>1. ASSUME UNCHANGED <<given, options, pidpath, cwd, pidfile, smashed>>
        PROVE  FileAsNamed'
    BY <1>0, <1>1 DEF FileAsNamed, GivenPath, Before
  <1>2. ASSUME pidfile' = NoPidFile PROVE FileAsNamed'
    BY <1>2 DEF FileAsNamed
  <1>3. ASSUME UsePidFile, pc # "options", UNCHANGED <<given, options, pidpath, cwd, smashed>>
        PROVE  FileAsNamed'
    <2>. USE PathIsGiven DEF UsePidFile, PidPath, FileAsNamed
    <2>0. /\ GivenPath' = GivenPath
          /\ \A o : Before(o, "x") => Before(o, "x")'
      BY <1>3 DEF GivenPath, Before
    <2>. SUFFICES ASSUME ~ smashed PROVE FileAsNamed'
      BY <1>3
    <2>4. pidpath # "wild"
      BY <1>0 DEF Paths, Remembered
    <2>1. CASE pidpath = "none"
      <3>1. "P" \notin options /\ GivenPath = "default"
        BY <1>0, <1>3, <2>1 DEF Paths
      <3>2. pidfile' = PidFile("default", "start")
        BY <1>3, <3>1 DEF PidFile
      <3>. QED  BY <2>0, <3>1, <3>2
    <2>2. CASE pidpath # "none" /\ "P" \notin options
      BY <1>0, <1>3, <2>0, <2>2
    <2>3. CASE pidpath # "none" /\ "P" \in options
      <3>1. GivenPath = pidpath /\ pidfile' = PidFile(pidpath, cwd)
        BY <1>0, <1>3, <2>3, <2>4
      <3>2. CASE pidpath # "rel" \/ cwd = "start"
        <4>1. PidFile(pidpath, cwd) = PidFile(pidpath, "start")
          BY <3>2 DEF PidFile
        <4>. QED  BY <2>0, <3>1, <4>1
      <3>3. CASE pidpath = "rel" /\ cwd # "start"
        <4>1. cwd = "root" /\ "f" \notin options
          BY <1>0, <3>3 DEF MainTypeOK, Paths
        <4>. QED  BY <1>3, <3>3, <4>1
      <3>. QED  BY <3>2, <3>3
    <2>. QED  BY <2>1, <2>2, <2>3
  <1>4. CASE UNCHANGED vars
    BY <1>1, <1>4 DEF vars
  <1>5. CASE \/ ParseOption \/ OptionsEnd \/ InvalidOperand \/ MarkChannel \/ MarkPastEnd
             \/ OperandsEnd \/ Daemonize
    <2>1. pidfile = NoPidFile /\ pidfile' = pidfile
      BY <1>0, <1>5 DEF ParseOption, OptionsEnd, InvalidOperand, MarkChannel, MarkPastEnd,
         OperandsEnd, Daemonize, Parsing, Paths, BeforeConn
    <2>. QED  BY <1>2, <2>1
  <1>6. CASE QuitOther \/ WritePid
    BY <1>3, <1>6 DEF QuitOther, WritePid, Returns
  <1>7. CASE \/ CheckOptions \/ AllocDevice \/ AllocFails \/ AllocSkips \/ AllocEnd
             \/ FreeDevice \/ FreeSkips \/ FreeMarkFaults \/ FreeEnd
             \/ Listening \/ ListenFaults \/ ServeEnds \/ SmashedFaults
    BY <1>1, <1>7 DEF SmashedFaults, CheckOptions, AllocDevice, AllocFails, AllocSkips, AllocEnd, FreeDevice,
       FreeSkips, FreeMarkFaults, FreeEnd, Listening, ListenFaults, ServeEnds
  <1>. QED  BY <1>4, <1>5, <1>6, <1>7 DEF Next, MainStep

-----------------------------------------------------------------------------
(* The theorems.                                                            *)

\* The invariant holds when the program is started.
LEMMA InitInv == Init => IInv
  <1>. SUFFICES ASSUME Init PROVE IInv
    OBVIOUS
  <1>1. /\ given.chans \in SeqOf(Operand, MaxOperands) /\ given.opts \in SeqOf(Option, MaxOptions)
        /\ given \in CommandLine /\ argv = given
    BY DEF Init, CommandLine
  <1>2. ListenTypeOK
    <2>1. <<>> \in SeqOf(Answer, MaxAddrs) /\ Len(<<>>) = 0
      <3>1. <<>> \in Seq(Answer) /\ Len(<<>>) = 0
        BY EmptySeq
      <3>. DEFINE none == <<>>
      <3>. HIDE DEF none
      <3>2. none \in Seq(Answer) /\ Len(none) <= MaxAddrs => none \in SeqOf(Answer, MaxAddrs)
        BY SeqOfIsSeq
      <3>. QED  BY <3>1, <3>2 DEF none
    <2>2. addrs = <<>> /\ addr = 0 /\ Len(addrs) = 0 /\ listenfd = 0 /\ result = 0
      BY <2>1 DEF Init, ListenInit
    <2>. QED  BY <2>1, <2>2 DEF Init, ListenInit, ListenTypeOK, Position
  <1>3. MainTypeOK
    <2>1. [c \in Channel |-> "null"] \in [Channel -> {"null", "mark", "handle"}]
      OBVIOUS
    <2>2. 0 \in 0 .. MaxAdc
      OBVIOUS
    <2>. QED  BY <1>1, <2>1, <2>2 DEF Init, MainTypeOK, Unset
  <1>4. Walk
    BY DEF Init, ListenInit, Walk, SocketIsSound, FindsLaterAddress
  <1>5. NoSocket
    BY DEF Init, ListenInit, NoSocket
  <1>6. Marks
    BY DEF Init, Marks, Channel
  <1>7. Devices
    BY DEF Init, Devices
  <1>8. Paths
    <2>1. Len(given.opts) \in Nat
      BY <1>1, NothingLeft
    <2>2. Parsed = {}
      BY <1>1, <2>1 DEF Parsed
    <2>. QED  BY <1>1, <2>1, <2>2 DEF Init, Paths, Remembered
  <1>9. FaultsOnlyAfterFailure /\ FileAsNamed
    BY DEF Init, FaultsOnlyAfterFailure, FileAsNamed
  <1>. QED  BY <1>2, <1>3, <1>4, <1>5, <1>6, <1>7, <1>8, <1>9, TypeParts DEF IInv

\* The inductive invariant of the program, of which the properties are parts or
\* consequences.
THEOREM Invariant == Spec => []IInv
  <1>1. IInv /\ [Next]_vars => IInv'
    <2>. SUFFICES ASSUME IInv, [Next]_vars PROVE IInv'
      OBVIOUS
    <2>. QED
      BY TypeStep, WalkKept, NoSocketKept, MarksKept, DevicesKept, PathsKept, FaultKept,
         FileKept DEF IInv
  <1>. QED  BY InitInv, <1>1, PTL DEF Spec

\* Every variable of main and of the walk keeps its type, so that main indexes
\* adcdev[] within its bounds except where it is told of the channel behind it.
THEOREM TypeCorrect == Spec => []TypeOK
  <1>1. IInv => TypeOK
    BY DEF IInv
  <1>. QED  BY Invariant, <1>1, PTL

\* When adc_server_conn is called the table holds an open handle for every
\* channel asked for and NULL for every other, for every table size and every
\* list of operands.
THEOREM ServesAsAsked == Spec => []ServesChosen
  <1>1. IInv => ServesChosen
    BY DEF IInv, Devices, ServesChosen
  <1>. QED  BY Invariant, <1>1, PTL

\* Every way on which main returns closes the devices and the socket.
THEOREM NothingLeftOpen == Spec => []HandlesReturned
  <1>1. IInv => HandlesReturned
    BY DEF IInv, Devices, NoSocket, HandlesReturned
  <1>. QED  BY Invariant, <1>1, PTL

\* The three ways in which main dies are the only ones.
THEOREM FaultsAreNamed == Spec => []FaultsOnlyAfterFailure
  <1>1. IInv => FaultsOnlyAfterFailure
    BY DEF IInv
  <1>. QED  BY Invariant, <1>1, PTL

\* The socket that the walk over the addresses returns is bound, and no other
\* is left open, for every list of addresses.
THEOREM SocketReturned == Spec => []SocketIsSound
  <1>1. IInv => SocketIsSound
    BY DEF IInv, Walk
  <1>. QED  BY Invariant, <1>1, PTL

\* The walk runs off its list only when no address behind the first could be
\* bound.
THEOREM WalkFindsAddress == Spec => []FindsLaterAddress
  <1>1. IInv => FindsLaterAddress
    BY DEF IInv, Walk
  <1>. QED  BY Invariant, <1>1, PTL

\* The pid file is the one that the command line names, or -x has made main
\* forget a -P, or the server went to the background with a relative path.
THEOREM PidFileAsNamed == Spec => []FileAsNamed
  <1>1. IInv => FileAsNamed
    BY DEF IInv
  <1>. QED  BY Invariant, <1>1, PTL
=============================================================================
