---------------------------- MODULE ServerInstance ----------------------------
(***************************************************************************)
(* The processes of the adcserver on one host and their pid file:          *)
(* write_pid and remove_pid (server/src/adcdaemonize.c), the signal        *)
(* handler and the order of main (server/src/main.c), and "adcserver -x"   *)
(* (server/src/adcserverexit.h), which signals the process the file names. *)
(*                                                                         *)
(* Every system call on the file or a process is an action, since any      *)
(* process may run between two of them, and a process may die between any  *)
(* two.  A process creates at most one pid file, so a file is named by its *)
(* creator; a pid is not reused within a behaviour.                        *)
(***************************************************************************)
EXTENDS Naturals, FiniteSets

CONSTANTS
    Server,        \* server processes
    Quitter,       \* runs of "adcserver -x"
    None,          \* no file, no process
    CleanStack,    \* no digit follows what -x reads into strpid[], by luck
    MayFailListen  \* get_tcp_listen_socket may fail

ASSUME NoneAssumption == None \notin Server
ASSUME FlagAssumption == CleanStack \in BOOLEAN /\ MayFailListen \in BOOLEAN

VARIABLES
    pidFile,   \* the file at pidpath: its creator, or None
    written,   \* written[p]: the file that p created holds p's pid
    server,    \* what a server process does
    action,    \* its disposition of SIGUSR1
    ended,     \* how it ended
    failed,    \* ret_val of main: adc_server_conn returned -1
    quitter,   \* what a run of -x does
    target,    \* the pid it has read
    sent       \* servers that a run of -x has signalled after they were up

vars == <<pidFile, written, server, action, ended, failed, quitter, target, sent>>

ServerState == {"off", "created", "named", "busy", "waiting", "leaving", "unlinking", "gone"}

TypeOK ==
    /\ pidFile \in Server \cup {None}
    /\ written \in [Server -> BOOLEAN]
    /\ server \in [Server -> ServerState]
    /\ action \in [Server -> {"default", "handler", "ignore"}]
    /\ ended \in [Server -> {"no", "refused", "unnamed", "killed", "exit", "fault", "crash"}]
    /\ failed \in [Server -> BOOLEAN]
    /\ quitter \in [Quitter -> {"off", "read", "stale", "done"}]
    /\ target \in [Quitter -> Server \cup {None}]
    /\ sent \in SUBSET Server

Init ==
    /\ pidFile = None
    /\ written = [p \in Server |-> FALSE]
    /\ server = [p \in Server |-> "off"]
    /\ action = [p \in Server |-> "default"]
    /\ ended = [p \in Server |-> "no"]
    /\ failed = [p \in Server |-> FALSE]
    /\ quitter = [q \in Quitter |-> "off"]
    /\ target = [q \in Quitter |-> None]
    /\ sent = {}

Alive(p) == server[p] \notin {"off", "gone"}

Goes(p, from, to) == server[p] = from /\ server' = [server EXCEPT ![p] = to]
Ends(p, how) ==
    /\ server' = [server EXCEPT ![p] = "gone"]
    /\ ended' = [ended EXCEPT ![p] = how]

-----------------------------------------------------------------------------
(* adc_server_write_pid and the start of the server.                        *)

CreatePid_NotExclusive(p) ==
    /\ Goes(p, "off", "created")
    /\ pidFile' = p
    /\ UNCHANGED <<written, action, ended, failed, quitter, target, sent>>

\* open with O_EXCL | O_CREAT.
CreatePid(p) ==
    /\ pidFile = None
    /\ Goes(p, "off", "created")
    /\ pidFile' = p
    /\ UNCHANGED <<written, action, ended, failed, quitter, target, sent>>

\* EEXIST: main returns and leaves the file alone.
CreatePidFails(p) ==
    /\ server[p] = "off" /\ pidFile # None
    /\ Ends(p, "refused")
    /\ UNCHANGED <<pidFile, written, action, failed, quitter, target, sent>>

WritePid(p) ==
    /\ Goes(p, "created", "named")
    /\ written' = [written EXCEPT ![p] = TRUE]
    /\ UNCHANGED <<pidFile, action, ended, failed, quitter, target, sent>>

\* write fails: main returns and leaves the empty file.
WritePidFails(p) ==
    /\ server[p] = "created"
    /\ Ends(p, "unnamed")
    /\ UNCHANGED <<pidFile, written, action, failed, quitter, target, sent>>

InstallHandler(p) ==
    /\ Goes(p, "named", "busy")
    /\ action' = [action EXCEPT ![p] = "handler"]
    /\ UNCHANGED <<pidFile, written, ended, failed, quitter, target, sent>>

\* adc_server_conn returns -1 before its loop, or from it with an error.
ListenFails(p) ==
    /\ MayFailListen
    /\ Goes(p, "busy", "leaving")
    /\ failed' = [failed EXCEPT ![p] = TRUE]
    /\ UNCHANGED <<pidFile, written, action, ended, quitter, target, sent>>

EnterWait(p) ==
    /\ Goes(p, "busy", "waiting")
    /\ UNCHANGED <<pidFile, written, action, ended, failed, quitter, target, sent>>

\* epoll_wait returns events to handle.
LeaveWait(p) ==
    /\ Goes(p, "waiting", "busy")
    /\ UNCHANGED <<pidFile, written, action, ended, failed, quitter, target, sent>>

-----------------------------------------------------------------------------
(* adc_server_remove_pid.                                                   *)

\* fopen and fscanf.  The pid read from an empty file is uninitialised: it
\* may equal getpid() or not.
ReadOwnPid(p) ==
    /\ server[p] = "leaving" /\ pidFile # None
    /\ \/ /\ written[pidFile] /\ pidFile # p
          /\ Ends(p, "exit")
       \/ /\ ~written[pidFile]
          /\ Ends(p, "exit")
       \/ /\ written[pidFile] => pidFile = p
          /\ Goes(p, "leaving", "unlinking")
          /\ UNCHANGED ended
    /\ UNCHANGED <<pidFile, written, action, failed, quitter, target, sent>>

\* fopen fails with ENOENT, not with the EEXIST the code looks for: fscanf
\* of a NULL stream faults.
ReadOwnPidFaults(p) ==
    /\ server[p] = "leaving" /\ pidFile = None
    /\ Ends(p, "fault")
    /\ UNCHANGED <<pidFile, written, action, failed, quitter, target, sent>>

UnlinkOwnPid_Skipped(p) ==
    /\ server[p] = "unlinking"
    /\ Ends(p, "exit")
    /\ UNCHANGED <<pidFile, written, action, failed, quitter, target, sent>>

UnlinkOwnPid(p) ==
    /\ server[p] = "unlinking"
    /\ pidFile' = None
    /\ Ends(p, "exit")
    /\ UNCHANGED <<written, action, failed, quitter, target, sent>>

\* SIGKILL, a fault elsewhere, a power cut.
Crash(p) ==
    /\ Alive(p)
    /\ Ends(p, "crash")
    /\ UNCHANGED <<pidFile, written, action, failed, quitter, target, sent>>

-----------------------------------------------------------------------------
(* adcserver -x.                                                            *)

\* access or open fails: there is nothing to quit.
FindNoFile(q) ==
    /\ quitter[q] = "off" /\ pidFile = None
    /\ quitter' = [quitter EXCEPT ![q] = "done"]
    /\ UNCHANGED <<pidFile, written, server, action, ended, failed, target, sent>>

\* read and atoi.  strpid is not terminated: with other digits behind the
\* ones read, or in place of an empty file's, atoi yields some other number.
ReadPid(q) ==
    /\ quitter[q] = "off" /\ pidFile # None
    /\ quitter' = [quitter EXCEPT ![q] = "read"]
    /\ \E t \in Server \cup {None} :
          /\ CleanStack => t = IF written[pidFile] THEN pidFile ELSE None
          /\ target' = [target EXCEPT ![q] = t]
    /\ UNCHANGED <<pidFile, written, server, action, ended, failed, sent>>

\* SIGUSR1 reaches p: by default it dies.  The handler sets SIG_IGN and
\* interrupts epoll_wait if it is there; elsewhere nothing notices.
KillsServer(p) ==
    IF action[p] = "default"
    THEN Ends(p, "killed") /\ UNCHANGED action
    ELSE /\ action' = [action EXCEPT ![p] = "ignore"]
         /\ server' = [server EXCEPT ![p] =
                          IF action[p] = "handler" /\ @ = "waiting" THEN "leaving" ELSE @]
         /\ UNCHANGED ended

Kill(q) ==
    /\ quitter[q] = "read" /\ target[q] \in Server /\ Alive(target[q])
    /\ KillsServer(target[q])
    /\ quitter' = [quitter EXCEPT ![q] = "done"]
    /\ sent' = sent \cup {target[q]}
    /\ UNCHANGED <<pidFile, written, failed, target>>

KillFindsNobody_AnyError(q) ==
    /\ quitter[q] = "read"
    /\ quitter' = [quitter EXCEPT ![q] = "stale"]
    /\ UNCHANGED <<pidFile, written, server, action, ended, failed, target, sent>>

\* ESRCH: the file is stale, or was when it was read.
KillFindsNobody(q) ==
    /\ quitter[q] = "read"
    /\ IF target[q] = None THEN ~CleanStack ELSE ~Alive(target[q])
    /\ quitter' = [quitter EXCEPT ![q] = "stale"]
    /\ UNCHANGED <<pidFile, written, server, action, ended, failed, target, sent>>

\* The number is a pid of another program, of the caller's own group (0), or
\* of a process that may not be signalled: the file stays.
KillHitsAnother(q) ==
    /\ quitter[q] = "read" /\ target[q] = None
    /\ quitter' = [quitter EXCEPT ![q] = "done"]
    /\ UNCHANGED <<pidFile, written, server, action, ended, failed, target, sent>>

UnlinkStale(q) ==
    /\ quitter[q] = "stale"
    /\ quitter' = [quitter EXCEPT ![q] = "done"]
    /\ pidFile' = None
    /\ UNCHANGED <<written, server, action, ended, failed, target, sent>>

ServerStep(p) ==
    \/ CreatePid(p) \/ CreatePidFails(p) \/ WritePid(p) \/ InstallHandler(p)
    \/ EnterWait(p) \/ LeaveWait(p)
    \/ ReadOwnPid(p) \/ ReadOwnPidFaults(p) \/ UnlinkOwnPid(p)

ServerFault(p) == WritePidFails(p) \/ ListenFails(p) \/ Crash(p)

QuitterStep(q) ==
    \/ FindNoFile(q) \/ ReadPid(q) \/ Kill(q)
    \/ KillFindsNobody(q) \/ KillHitsAnother(q) \/ UnlinkStale(q)

Next ==
    \/ \E p \in Server : ServerStep(p) \/ ServerFault(p)
    \/ \E q \in Quitter : QuitterStep(q)

Spec == Init /\ [][Next]_vars

\* A server that has started runs, and returns to epoll_wait after each
\* batch; a run of -x that has read the file goes on.
Fairness ==
    /\ \A p \in Server :
          /\ WF_vars(WritePid(p) \/ InstallHandler(p))
          /\ WF_vars(EnterWait(p))
          /\ WF_vars(ReadOwnPid(p) \/ ReadOwnPidFaults(p) \/ UnlinkOwnPid(p))
    /\ \A q \in Quitter : WF_vars(Kill(q) \/ KillFindsNobody(q) \/ UnlinkStale(q))

FairSpec == Spec /\ Fairness

-----------------------------------------------------------------------------
(* Properties.                                                              *)

\* Past write_pid and not yet past remove_pid.
InService(p) == server[p] \in {"named", "busy", "waiting", "leaving", "unlinking"}

\* At most one run of -x has been started, it reads the pid as written, and no
\* server ended by an error of its own: a second run of -x, or one that reads
\* the pid of a server that is about to remove its file, can unlink the file
\* of the server that starts next.
Undisturbed ==
    /\ CleanStack
    /\ \A p \in Server : ~failed[p]
    /\ \A a, b \in Quitter : quitter[a] # "off" /\ quitter[b] # "off" => a = b

\* O_EXCL on the pid file keeps a second server from starting, through any
\* crashes, restarts and the removal of stale files.
OneServer ==
    Undisturbed => \A p, q \in Server : InService(p) /\ InService(q) => p = q

\* While a server is in service the file is there and names it, so that -x
\* can find it and remove_pid does not fault on a file that is not there.
FileNamesServer ==
    Undisturbed => \A p \in Server : InService(p) => pidFile = p /\ written[p]

\* A pid file outlives its server only if the server crashed, died of a
\* SIGUSR1 that came before its handler, or failed to write the file: a
\* server that returns from main never leaves its file, even when runs of -x
\* and other servers meddle with it.
StaleOnlyAfterCrash ==
    pidFile # None /\ server[pidFile] = "gone" =>
        ended[pidFile] \in {"crash", "killed", "unnamed"}

\* A server that -x signalled in epoll_wait ends and takes its file with it,
\* unless it crashes first.
QuitFromWaitCleansUp ==
    \A p \in Server :
        server[p] = "leaving" ~> server[p] = "gone" /\ (pidFile # p \/ ended[p] = "crash")

\* server/README:22, main.c:65: -x quits the running server.
QuitEndsServer ==
    \A p \in Server : p \in sent ~> server[p] = "gone"
=============================================================================
