------------------------------ MODULE ServerMain ------------------------------
(***************************************************************************)
(* One run of the adcserver program: main of server/src/main.c with        *)
(* s3cadc_alloc and s3cadc_destroy of libs3cadc/s3cadc.c,                  *)
(* adc_server_daemonize of server/src/adcdaemonize.c, and ListenSocket for *)
(* the start of adc_server_conn.                                           *)
(*                                                                         *)
(* While main parses its operands it marks the channels to open with the   *)
(* pointer value 1, and replaces each mark by the handle of the device;    *)
(* on its way out it destroys whatever is not NULL.  In the background it  *)
(* works in "/", where a relative -P leads elsewhere.  What happens to      *)
(* other processes and to the pid file is ServerInstance's, what the       *)
(* server does between its first and last event AdcServer's.               *)
(***************************************************************************)
EXTENDS Integers, ListenSocket

CONSTANTS
    MaxAdc,        \* MAXADC, the size of adcdev[]
    MaxOptions,    \* bound: options of a command line
    MaxOperands    \* bound: channels of a command line

ASSUME MainAssumption ==
    MaxAdc \in Nat \ {0} /\ MaxOptions \in Nat /\ MaxOperands \in Nat

VARIABLES
    argv,      \* the options and operands that are left to parse
    given,     \* the whole command line
    options,   \* the bits of options
    pidpath,   \* what the last -P gave: "abs" or "rel"ative; "none" at first,
               \* "wild" if the pointer was overwritten with 1
    cwd,       \* the working directory: where it was started, or the root
    pidfile,   \* the pid file that was created or read, NoPidFile before
    adcdev,    \* adcdev[c]: "null", "mark" or "handle"
    handles,   \* channels whose device this process has open
    smashed,   \* a write went past the end of adcdev[]
    pc,
    i,         \* the loops' counter
    retVal     \* what main returns: 0, 1, or Unset

paths == <<pidpath, cwd, pidfile>>
vars == <<argv, given, options, paths, adcdev, handles, smashed, pc, i, retVal, ListenVars>>

\* -P with an absolute and with a relative path; -p sets the port only.
Option == {"f", "P abs", "P rel", "x", "h", "other"}
NotDigits == -1                       \* an operand with another character
Operand == NotDigits .. MaxAdc + 1
Unset == -1                           \* ret_val is not initialised
Channel == 0 .. MaxAdc - 1

NoPidFile == <<"none", "none">>
\* A file, with the directory its name starts from.
PidFile(path, dir) == <<path, IF path = "rel" THEN dir ELSE "any">>

CommandLine == [opts : SeqOf(Option, MaxOptions), chans : SeqOf(Operand, MaxOperands)]

TypeOK ==
    /\ given \in CommandLine /\ argv \in CommandLine
    /\ ListenTypeOK
    /\ options \subseteq {"f", "P", "x", "h", "error"}
    /\ pidpath \in {"none", "abs", "rel", "wild"}
    /\ cwd \in {"start", "root"}
    /\ pidfile \in {NoPidFile} \cup
           {PidFile(p, d) : p \in {"default", "abs", "rel"}, d \in {"start", "root"}}
    /\ adcdev \in [Channel -> {"null", "mark", "handle"}]
    /\ handles \subseteq Channel
    /\ smashed \in BOOLEAN
    /\ pc \in {"options", "channels", "check", "daemonize", "alloc", "pid", "serve",
               "quit", "free", "fault", "exit"}
    /\ i \in 0 .. MaxAdc
    /\ retVal \in {0, 1, Unset}

Init ==
    /\ given \in CommandLine /\ argv = given
    /\ ListenInit
    /\ options = {}
    /\ pidpath = "none" /\ cwd = "start" /\ pidfile = NoPidFile
    /\ adcdev = [c \in Channel |-> "null"]
    /\ handles = {} /\ smashed = FALSE
    /\ pc = "options" /\ i = 0 /\ retVal = Unset

-----------------------------------------------------------------------------
(* The command line.                                                        *)

\* -x assigns options where the others add to it.
WithOption(o) ==
    CASE o = "x" -> {"x"}
      [] o \in {"P abs", "P rel"} -> options \cup {"P"}
      [] o = "other" -> options \cup {"error"}
      [] OTHER -> options \cup {o}

PathOf_FirstWins(o) ==
    CASE pidpath # "none" -> pidpath
      [] o = "P abs" -> "abs"
      [] o = "P rel" -> "rel"
      [] OTHER -> pidpath

\* optarg of -P.
PathOf(o) ==
    CASE o = "P abs" -> "abs"
      [] o = "P rel" -> "rel"
      [] OTHER -> pidpath

ParseOption ==
    /\ pc = "options" /\ argv.opts # <<>>
    /\ options' = WithOption(Head(argv.opts))
    /\ pidpath' = PathOf(Head(argv.opts))
    /\ argv' = [argv EXCEPT !.opts = Tail(@)]
    /\ UNCHANGED <<cwd, pidfile, given, adcdev, handles, smashed, pc, i, retVal>>

\* Without an operand channel 0 is marked.
OptionsEnd ==
    /\ pc = "options" /\ argv.opts = <<>>
    /\ adcdev' = IF argv.chans = <<>> THEN [adcdev EXCEPT ![0] = "mark"] ELSE adcdev
    /\ pc' = "channels"
    /\ UNCHANGED <<paths, argv, given, options, handles, smashed, i, retVal>>

Parsing == pc = "channels" /\ argv.chans # <<>> /\ options \cap {"error", "h"} = {}

InvalidOperand ==
    /\ Parsing /\ (Head(argv.chans) = NotDigits \/ Head(argv.chans) > MaxAdc)
    /\ options' = options \cup {"error"}
    /\ pc' = "check"
    /\ UNCHANGED <<paths, argv, given, adcdev, handles, smashed, i, retVal>>

NextOperand == argv' = [argv EXCEPT !.chans = Tail(@)]

MarkChannel_Last ==
    /\ Parsing /\ Head(argv.chans) \in Channel
    /\ adcdev' = [c \in Channel |-> IF c = Head(argv.chans) THEN "mark" ELSE "null"]
    /\ NextOperand
    /\ UNCHANGED <<paths, given, options, handles, smashed, pc, i, retVal>>

MarkChannel ==
    /\ Parsing /\ Head(argv.chans) \in Channel
    /\ adcdev' = [adcdev EXCEPT ![Head(argv.chans)] = "mark"]
    /\ NextOperand
    /\ UNCHANGED <<paths, given, options, handles, smashed, pc, i, retVal>>

\* ch_num = MAXADC passes the check, and a 1 is written to the word behind the
\* array.  The Makefile does not optimise: the parameters lie below the locals,
\* out of reach, and what can lie behind adcdev[] is a local that is dead here
\* or is set before its next use (opt, ch_num, ch_c, ch_tmp, i), options
\* (where 1 is OPTFOREGROUND), pidpath, ret_val, or port and main's frame, of
\* which it dies later.
MarkPastEnd ==
    /\ Parsing /\ Head(argv.chans) = MaxAdc
    /\ smashed' = TRUE
    /\ \E hit \in {"dead local", "options", "pidpath", "ret_val"} :
          /\ options' = IF hit = "options" THEN {"f"} ELSE options
          /\ pidpath' = IF hit = "pidpath" THEN "wild" ELSE pidpath
          /\ retVal' = IF hit = "ret_val" THEN 1 ELSE retVal
    /\ NextOperand
    /\ UNCHANGED <<cwd, pidfile, given, adcdev, handles, pc, i>>

\* getaddrinfo reads port, or main returns through what was its frame.
SmashedFaults ==
    /\ smashed
    /\ \/ pc = "serve" /\ lpc = "start"
       \/ pc = "exit"
    /\ pc' = "fault"
    /\ UNCHANGED <<paths, argv, given, options, adcdev, handles, smashed, i, retVal>>

OperandsEnd ==
    /\ pc = "channels" /\ ~Parsing
    /\ pc' = "check"
    /\ UNCHANGED <<paths, argv, given, options, adcdev, handles, smashed, i, retVal>>

Returns(ret) == pc' = "exit" /\ retVal' = ret /\ UNCHANGED i

CheckOptions ==
    /\ pc = "check"
    /\ \/ "error" \in options /\ Returns(1)
       \/ "error" \notin options /\ "h" \in options /\ Returns(0)
       \/ options \cap {"error", "h"} = {} /\ "x" \in options
             /\ pc' = "quit" /\ UNCHANGED <<i, retVal>>
       \/ options \cap {"error", "h", "x"} = {}
             /\ pc' = (IF "f" \in options THEN "alloc" ELSE "daemonize")
             /\ UNCHANGED <<i, retVal>>
    /\ UNCHANGED <<paths, argv, given, options, adcdev, handles, smashed>>

\* pidpath is the default unless OPTPIDPATH is set.
PidPath == IF "P" \in options THEN pidpath ELSE "default"

\* A path at address 1 names no file: access and open fail.
UsePidFile ==
    pidfile' = IF PidPath = "wild" THEN NoPidFile ELSE PidFile(PidPath, cwd)

\* adc_server_exit(pidpath).
QuitOther ==
    /\ pc = "quit" /\ Returns(0)
    /\ UsePidFile
    /\ UNCHANGED <<pidpath, cwd, argv, given, options, adcdev, handles, smashed>>

-----------------------------------------------------------------------------
(* The server.                                                              *)

\* adc_server_daemonize, in the child that goes on; the launcher has exited
\* with 0.  Whether a call before chdir or behind it fails, main only warns.
Daemonize ==
    /\ pc = "daemonize"
    /\ cwd' \in {cwd, "root"}
    /\ pc' = "alloc"
    /\ UNCHANGED <<pidpath, pidfile, argv, given, options, adcdev, handles, smashed, i, retVal>>

AllocDevice_CountsFromOne ==
    /\ pc = "alloc" /\ i < MaxAdc /\ adcdev[i] # "null"
    /\ adcdev' = [adcdev EXCEPT ![i] = "handle"]
    /\ handles' = handles \cup {i + 1}
    /\ i' = i + 1
    /\ UNCHANGED <<paths, argv, given, options, smashed, pc, retVal>>

AllocDevice ==
    /\ pc = "alloc" /\ i < MaxAdc /\ adcdev[i] # "null"
    /\ adcdev' = [adcdev EXCEPT ![i] = "handle"]
    /\ handles' = handles \cup {i}
    /\ i' = i + 1
    /\ UNCHANGED <<paths, argv, given, options, smashed, pc, retVal>>

\* s3cadc_alloc returns NULL; main leaves without setting ret_val.
AllocFails ==
    /\ pc = "alloc" /\ i < MaxAdc /\ adcdev[i] # "null"
    /\ adcdev' = [adcdev EXCEPT ![i] = "null"]
    /\ pc' = "free" /\ i' = 0
    /\ UNCHANGED <<paths, argv, given, options, handles, smashed, retVal>>

AllocSkips ==
    /\ pc = "alloc" /\ i < MaxAdc /\ adcdev[i] = "null"
    /\ i' = i + 1
    /\ UNCHANGED <<paths, argv, given, options, adcdev, handles, smashed, pc, retVal>>

AllocEnd_OneEarly ==
    /\ pc = "alloc" /\ i = MaxAdc - 1
    /\ pc' = "pid"
    /\ UNCHANGED <<paths, argv, given, options, adcdev, handles, smashed, i, retVal>>

AllocEnd ==
    /\ pc = "alloc" /\ i = MaxAdc
    /\ pc' = "pid"
    /\ UNCHANGED <<paths, argv, given, options, adcdev, handles, smashed, i, retVal>>

\* A path at address 1 is also printed by nq_debug, if that is compiled in.
WritePid ==
    /\ pc = "pid"
    /\ \/ PidPath # "wild" /\ pc' = "serve" /\ UNCHANGED <<i, retVal>>
       \/ PidPath = "wild" /\ pc' = "fault" /\ UNCHANGED <<i, retVal>>
       \/ pc' = "free" /\ i' = 0 /\ retVal' = 1
    /\ UsePidFile
    /\ UNCHANGED <<pidpath, cwd, argv, given, options, adcdev, handles, smashed>>

\* adc_server_conn: get_tcp_listen_socket_t is at work ...
Listening ==
    /\ pc = "serve"
    /\ ListenNext
    /\ UNCHANGED <<argv, given, options, paths, adcdev, handles, smashed, pc, i, retVal>>

\* ... and dies,
ListenFaults ==
    /\ pc = "serve" /\ lpc = "fault"
    /\ pc' = "fault"
    /\ UNCHANGED <<argv, given, options, paths, adcdev, handles, smashed, i, retVal, ListenVars>>

\* or gives a socket, with which the server serves or fails to, and which it
\* closes; remove_pid runs.
ServeEnds ==
    /\ pc = "serve" /\ lpc = "returned"
    /\ retVal' \in IF result = 0 THEN {1} ELSE {0, 1}
    /\ open' = open \ {result} /\ bound' = bound \ {result} /\ result' = 0
    /\ pc' = "free" /\ i' = 0
    /\ UNCHANGED <<argv, given, options, paths, adcdev, handles, smashed>>
    /\ UNCHANGED <<addrs, addr, listenfd, lpc>>

FreeDevice_NotClosed ==
    /\ pc = "free" /\ i < MaxAdc /\ adcdev[i] = "handle"
    /\ i' = i + 1
    /\ UNCHANGED <<paths, argv, given, options, adcdev, handles, smashed, pc, retVal>>

FreeDevice ==
    /\ pc = "free" /\ i < MaxAdc /\ adcdev[i] = "handle"
    /\ handles' = handles \ {i}
    /\ i' = i + 1
    /\ UNCHANGED <<paths, argv, given, options, adcdev, smashed, pc, retVal>>

FreeSkips ==
    /\ pc = "free" /\ i < MaxAdc /\ adcdev[i] = "null"
    /\ i' = i + 1
    /\ UNCHANGED <<paths, argv, given, options, adcdev, handles, smashed, pc, retVal>>

\* s3cadc_destroy of a mark reads devfd through the pointer value 1.
FreeMarkFaults ==
    /\ pc = "free" /\ i < MaxAdc /\ adcdev[i] = "mark"
    /\ pc' = "fault"
    /\ UNCHANGED <<paths, argv, given, options, adcdev, handles, smashed, i, retVal>>

FreeEnd ==
    /\ pc = "free" /\ i = MaxAdc
    /\ pc' = "exit"
    /\ UNCHANGED <<paths, argv, given, options, adcdev, handles, smashed, i, retVal>>

\* The steps of main itself.
MainStep ==
    \/ ParseOption \/ OptionsEnd
    \/ InvalidOperand \/ MarkChannel \/ MarkPastEnd \/ SmashedFaults \/ OperandsEnd
    \/ CheckOptions \/ QuitOther \/ Daemonize
    \/ AllocDevice \/ AllocFails \/ AllocSkips \/ AllocEnd \/ WritePid
    \/ FreeDevice \/ FreeSkips \/ FreeMarkFaults \/ FreeEnd

Next ==
    \/ MainStep /\ UNCHANGED ListenVars
    \/ Listening \/ ListenFaults \/ ServeEnds

Spec == Init /\ [][Next]_vars

-----------------------------------------------------------------------------
(* Properties.                                                              *)

Chosen == IF given.chans = <<>> THEN {0} ELSE ToSet(given.chans) \cap Channel

\* adc_server_conn takes every entry that is not NULL for a device it can
\* read: when it is called, the entries of the channels asked for are open
\* handles and all others are NULL, whatever the order and repetition of the
\* operands, and also when one of them was written behind the array.
ServesChosen ==
    pc = "serve" => /\ \A c \in Channel :
                          adcdev[c] = IF c \in Chosen THEN "handle" ELSE "null"
                    /\ handles = Chosen

\* Every path on which main returns closes each device it has opened once,
\* and the listening socket.
HandlesReturned ==
    /\ pc \in {"free", "exit"} => open = {}
    /\ pc = "exit" => handles = {}
    /\ pc = "free" => {c \in Channel : c >= i /\ adcdev[c] = "handle"} = handles

\* Before remove_pid main dies only if it was given the channel number behind
\* the last, if a device could not be opened while channels behind it were
\* marked (a mark, the pointer value 1, is destroyed as if it were a handle),
\* or if no address behind the first could be bound.
FaultsOnlyAfterFailure ==
    pc = "fault" => \/ smashed
                    \/ \E c \in Chosen : c < i /\ adcdev[c] = "null"
                    \/ lpc = "fault" /\ FindsLaterAddress

\* The path that the last -P of the command line gives.
GivenPath ==
    LET pathOpts == {k \in DOMAIN given.opts : given.opts[k] \in {"P abs", "P rel"}}
    IN  CASE pathOpts = {} -> "default"
          [] pathOpts # {} /\ given.opts[Max(pathOpts)] = "P abs" -> "abs"
          [] OTHER -> "rel"

Before(o, p) == \E k, l \in DOMAIN given.opts : k < l /\ given.opts[k] = o /\ given.opts[l] = p

\* The pid file that a server creates and that -x reads is the one that the
\* command line names in the directory it was given in, so that the same -P
\* finds the server again; but a -P before -x is forgotten, and a relative
\* one leads a server in the background elsewhere, and a channel number behind
\* the last may overwrite what the command line said.
FileAsNamed ==
    \/ smashed
    \/ pidfile \in {NoPidFile, PidFile(GivenPath, "start")}
    \/ "x" \in options /\ \E o \in {"P abs", "P rel"} : Before(o, "x")
    \/ "f" \notin options /\ pidpath = "rel" /\ cwd = "root"
=============================================================================
