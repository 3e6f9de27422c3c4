------------------------- MODULE ServerInstanceProofs -------------------------
(***************************************************************************)
(* Proofs about ServerInstance, for any number of servers and, where a     *)
(* theorem does not say otherwise, of concurrent runs of -x.               *)
(***************************************************************************)
EXTENDS ServerInstance, TLAPS

-----------------------------------------------------------------------------
(* Type correctness.                                                        *)

LEMMA TypeInductive == TypeOK /\ [Next]_vars => TypeOK'
<1> SUFFICES ASSUME TypeOK, [Next]_vars PROVE TypeOK'
  OBVIOUS
<1> USE NoneAssumption DEF TypeOK, ServerState
<1>1. CASE UNCHANGED vars
  BY <1>1 DEF vars
<1>2. ASSUME NEW p \in Server, ServerStep(p) PROVE TypeOK'
  <2>1. CASE CreatePid(p) \/ WritePid(p) \/ InstallHandler(p) \/ EnterWait(p) \/ LeaveWait(p)
    BY <2>1 DEF CreatePid, WritePid, InstallHandler, EnterWait, LeaveWait, Goes
  <2>2. CASE CreatePidFails(p)
    BY <2>2 DEF CreatePidFails, Ends
  <2>3. CASE ReadOwnPid(p)
    BY <2>3 DEF ReadOwnPid, Ends, Goes
  <2>4. CASE ReadOwnPidFaults(p) \/ UnlinkOwnPid(p)
    BY <2>4 DEF ReadOwnPidFaults, UnlinkOwnPid, Ends
  <2> QED BY <1>2, <2>1, <2>2, <2>3, <2>4 DEF ServerStep
<1>3. ASSUME NEW p \in Server, ServerFault(p) PROVE TypeOK'
  BY <1>3 DEF ServerFault, WritePidFails, ListenFails, Crash, Goes, Ends
<1>4. ASSUME NEW q \in Quitter, QuitterStep(q) PROVE TypeOK'
  <2>1. CASE ReadPid(q)
    BY <2>1 DEF ReadPid
  <2>2. CASE Kill(q)
    BY <2>2 DEF Kill, KillsServer, Ends
  <2>3. CASE FindNoFile(q) \/ KillFindsNobody(q) \/ KillHitsAnother(q) \/ UnlinkStale(q)
    BY <2>3 DEF FindNoFile, KillFindsNobody, KillHitsAnother, UnlinkStale
  <2> QED BY <1>4, <2>1, <2>2, <2>3 DEF QuitterStep
<1> QED BY <1>1, <1>2, <1>3, <1>4 DEF Next

\* The variables of the processes and the file keep their types.
THEOREM TypeCorrect == Spec => []TypeOK
<1>1. Init => TypeOK
  BY DEF Init, TypeOK, ServerState
<1> QED BY <1>1, TypeInductive, PTL DEF Spec

-----------------------------------------------------------------------------
(* Who leaves a file behind.                                                *)

\* What StaleOnlyAfterCrash rests on: only a process that created the file
\* can be the one it names, and one that is to remove it has written it.
Traces ==
    \A p \in Server :
        /\ InService(p) => written[p]
        /\ server[p] = "off" => pidFile # p
        /\ server[p] = "gone" =>
              \/ ended[p] \in {"crash", "killed", "unnamed"}
              \/ pidFile # p

LEMMA TracesInductive == TypeOK /\ Traces /\ [Next]_vars => Traces'
<1> SUFFICES ASSUME TypeOK, Traces, [Next]_vars PROVE Traces'
  OBVIOUS
<1> USE NoneAssumption DEF TypeOK, ServerState, Traces, InService
<1>1. CASE UNCHANGED vars
  BY <1>1 DEF vars
<1>2. ASSUME NEW p \in Server, ServerStep(p) PROVE Traces'
  <2>1. CASE CreatePid(p)
    BY <2>1 DEF CreatePid, Goes
  <2>2. CASE WritePid(p) \/ InstallHandler(p) \/ EnterWait(p) \/ LeaveWait(p)
    BY <2>2 DEF WritePid, InstallHandler, EnterWait, LeaveWait, Goes
  <2>3. CASE CreatePidFails(p)
    BY <2>3 DEF CreatePidFails, Ends
  <2>4. CASE ReadOwnPid(p)
    BY <2>4 DEF ReadOwnPid, Ends, Goes
  <2>5. CASE ReadOwnPidFaults(p) \/ UnlinkOwnPid(p)
    BY <2>5 DEF ReadOwnPidFaults, UnlinkOwnPid, Ends
  <2> QED BY <1>2, <2>1, <2>2, <2>3, <2>4, <2>5 DEF ServerStep
<1>3. ASSUME NEW p \in Server, ServerFault(p) PROVE Traces'
  BY <1>3 DEF ServerFault, WritePidFails, ListenFails, Crash, Goes, Ends
<1>4. ASSUME NEW q \in Quitter, QuitterStep(q) PROVE Traces'
  <2>1. CASE Kill(q)
    BY <2>1 DEF Kill, KillsServer, Ends, Alive
  <2>2. CASE FindNoFile(q) \/ ReadPid(q) \/ KillFindsNobody(q) \/ KillHitsAnother(q)
    BY <2>2 DEF FindNoFile, ReadPid, KillFindsNobody, KillHitsAnother
  <2>3. CASE UnlinkStale(q)
    BY <2>3 DEF UnlinkStale
  <2> QED BY <1>4, <2>1, <2>2, <2>3 DEF QuitterStep
<1> QED BY <1>1, <1>2, <1>3, <1>4 DEF Next

\* A server that returns from main leaves no pid file of its own, however
\* many servers and runs of -x work on the path at the same time.
THEOREM StaleFilesExplained == Spec => []StaleOnlyAfterCrash
<1>1. Init => Traces
  BY NoneAssumption DEF Init, Traces, InService
<1>2. TypeOK /\ Traces => StaleOnlyAfterCrash
  BY DEF TypeOK, Traces, StaleOnlyAfterCrash
<1> QED BY <1>1, <1>2, TypeCorrect, TracesInductive, PTL DEF Spec

-----------------------------------------------------------------------------
(* One server, while nothing disturbs the pid file.                         *)

\* The file belongs to whoever is alive; -x holds the pid of its owner, and
\* takes the file away only when that owner is gone.
Ownership ==
    /\ \A p \in Server :
          /\ Alive(p) => pidFile = p
          /\ server[p] = "off" => pidFile # p
          /\ InService(p) => written[p]
          /\ server[p] \in {"leaving", "unlinking"} => \A q \in Quitter : quitter[q] \in {"off", "done"}
          /\ server[p] \in {"leaving", "unlinking"} => \E q \in Quitter : quitter[q] = "done"
    /\ \A q \in Quitter :
          /\ quitter[q] \in {"read", "stale"} /\ target[q] # None => pidFile = target[q]
          /\ quitter[q] = "stale" => target[q] # None /\ server[target[q]] = "gone"

LEMMA OwnershipInductive ==
    TypeOK /\ Undisturbed /\ Undisturbed' /\ Ownership /\ [Next]_vars => Ownership'
<1> SUFFICES ASSUME TypeOK, Undisturbed, Undisturbed', Ownership, [Next]_vars PROVE Ownership'
  OBVIOUS
<1> USE NoneAssumption DEF Undisturbed, TypeOK, ServerState, Ownership, InService, Alive
<1>1. CASE UNCHANGED vars
  BY <1>1 DEF vars
<1>2. ASSUME NEW p \in Server, ServerStep(p) PROVE Ownership'
  <2>1. CASE CreatePid(p)
    BY <2>1 DEF CreatePid, Goes
  <2>2. CASE WritePid(p) \/ InstallHandler(p) \/ EnterWait(p) \/ LeaveWait(p)
    BY <2>2 DEF WritePid, InstallHandler, EnterWait, LeaveWait, Goes
  <2>3. CASE CreatePidFails(p)
    BY <2>3 DEF CreatePidFails, Ends
  <2>4. CASE ReadOwnPid(p)
    BY <2>4 DEF ReadOwnPid, Ends, Goes
  <2>5. CASE ReadOwnPidFaults(p) \/ UnlinkOwnPid(p)
    BY <2>5 DEF ReadOwnPidFaults, UnlinkOwnPid, Ends
  <2> QED BY <1>2, <2>1, <2>2, <2>3, <2>4, <2>5 DEF ServerStep
<1>3. ASSUME NEW p \in Server, ServerFault(p) PROVE Ownership'
  BY <1>3 DEF ServerFault, WritePidFails, ListenFails, Crash, Goes, Ends
<1>4. ASSUME NEW q \in Quitter, QuitterStep(q) PROVE Ownership'
  <2>1. CASE Kill(q)
    BY <2>1 DEF Kill, KillsServer, Ends
  <2>2. CASE ReadPid(q)
    BY <2>2 DEF ReadPid
  <2>3. CASE FindNoFile(q) \/ KillHitsAnother(q)
    BY <2>3 DEF FindNoFile, KillHitsAnother
  <2>4. CASE KillFindsNobody(q)
    BY <2>4 DEF KillFindsNobody
  <2>5. CASE UnlinkStale(q)
    BY <2>5 DEF UnlinkStale
  <2> QED BY <1>4, <2>1, <2>2, <2>3, <2>4, <2>5 DEF QuitterStep
<1> QED BY <1>1, <1>2, <1>3, <1>4 DEF Next

\* Once disturbed, always disturbed: a run of -x is never undone.
LEMMA DisturbedForGood == TypeOK /\ [Next]_vars /\ Undisturbed' => Undisturbed
<1> SUFFICES ASSUME TypeOK, [Next]_vars, Undisturbed' PROVE Undisturbed
  OBVIOUS
<1>1. \A p \in Server : failed[p] => failed'[p]
  BY DEF TypeOK, Next, vars, ServerStep, ServerFault, QuitterStep, CreatePid, CreatePidFails,
         WritePid, WritePidFails, InstallHandler, ListenFails, EnterWait, LeaveWait, ReadOwnPid,
         ReadOwnPidFaults, UnlinkOwnPid, Crash, FindNoFile, ReadPid, Kill, KillFindsNobody,
         KillHitsAnother, UnlinkStale
<1>2. \A q \in Quitter : quitter[q] # "off" => quitter'[q] # "off"
  BY DEF TypeOK, Next, vars, ServerStep, ServerFault, QuitterStep, CreatePid, CreatePidFails,
         WritePid, WritePidFails, InstallHandler, ListenFails, EnterWait, LeaveWait, ReadOwnPid,
         ReadOwnPidFaults, UnlinkOwnPid, Crash, FindNoFile, ReadPid, Kill, KillFindsNobody,
         KillHitsAnother, UnlinkStale
<1> QED BY <1>1, <1>2 DEF Undisturbed

LEMMA OwnershipHolds == Spec => [](Undisturbed => Ownership)
<1>1. Init => Ownership
  BY NoneAssumption DEF Init, Ownership, InService, Alive
<1>2. TypeOK /\ (Undisturbed => Ownership) /\ [Next]_vars => (Undisturbed => Ownership)'
  BY OwnershipInductive, DisturbedForGood
<1> QED BY <1>1, <1>2, TypeCorrect, PTL DEF Spec

\* The pid file keeps a second server out, as long as at most one -x is run
\* and servers end only by it or by a crash.
THEOREM SingleServer == Spec => []OneServer
<1>1. (Undisturbed => Ownership) => OneServer
  BY DEF Ownership, OneServer, InService, Alive
<1> QED BY <1>1, OwnershipHolds, PTL

\* Under the same conditions the pid file names the server in service.
THEOREM FileCorrect == Spec => []FileNamesServer
<1>1. (Undisturbed => Ownership) => FileNamesServer
  BY DEF Ownership, FileNamesServer, InService, Alive
<1> QED BY <1>1, OwnershipHolds, PTL
=============================================================================
