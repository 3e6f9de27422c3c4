--------------------------- MODULE AdcModuleProofs ---------------------------
(***************************************************************************)
(* Proofs about AdcModule, for every set of channels and files and every   *)
(* number of loads: what AdcDriverProofs shows of the file operations is   *)
(* kept across loading and unloading, and the stages of init and exit      *)
(* leave nothing behind.                                                   *)
(***************************************************************************)
EXTENDS AdcModule, AdcDriverProofs, WellFoundedInduction

\* Between exit and the end of the next load no file is open.
FilesClosed ==
    mod \notin {"counters", "live"} => \A f \in File : fstate[f] = "closed"

\* What is held while loading ...
Holds ==
    /\ mod = "unloaded" => held = {}
    /\ mod = "class" => held = {"region"}
    /\ mod \in {"devices", "driver"} => held = {"region", "class"}
    /\ mod \in {"probing", "counters", "live"} => held = {"region", "class", "driver"}

\* ... and with what is left to take down.
Unwinds ==
    mod = "unwinding" =>
        \/ todo = ExitOrder /\ held = {"class", "driver", "region"}
        \/ /\ todo = <<"devices", "class", "region">> /\ held = {"class", "region"}
           /\ cdevs = {} /\ nodes = {}
        \/ /\ devices = {}
           /\ \/ todo = <<"class", "driver", "region">> /\ held = {"class", "driver", "region"}
              \/ todo = <<"class", "region">> /\ held = {"class", "region"}
              \/ todo = <<"driver", "region">> /\ held = {"driver", "region"}
              \/ todo = <<"region">> /\ held = {"region"}
              \/ todo = <<>> /\ held = {}

\* What can be opened is a registered device, and devices are registered in
\* the order of their minors.
Devices ==
    /\ cdevs \cup nodes \cup toProbe \subseteq devices
    /\ toProbe # {} => mod = "probing"
    /\ mod \in {"unloaded", "class"} => devices = {}
    /\ mod \in {"devices", "driver"} => cdevs = {} /\ nodes = {}
    /\ mod = "devices" => \A c \in devices, d \in Channel : d <= c => d \in devices

\* An opener that died keeps the module loaded.
Pinned == stuck # {} => mod \in {"probing", "counters", "live"}

\* A loaded module has yet to leave its client behind.
Leaks == \A c \in Channel : leaked[c] + (IF mod = "unloaded" THEN 0 ELSE 1) <= loads

StageInv == ModuleTypeOK /\ Holds /\ Unwinds /\ Devices /\ Pinned /\ Leaks

ModuleInv == IInv /\ FilesClosed /\ StageInv

\* A set of natural numbers that is not empty has a least element, so that a
\* CHOOSE for it names one.
LEMMA SmallestPosition ==
    ASSUME NEW S, S \subseteq Nat, S # {}
    PROVE  \E k \in S : \A j \in S : k <= j
<1> DEFINE R == OpToRel(<, Nat)
<1>1. \E k \in S : \A j \in S : ~ (<<j, k>> \in R)
  <2> HIDE DEF R
  <2>1. IsWellFoundedOn(R, Nat)
    BY NatLessThanWellFounded DEF R
  <2> QED BY <2>1, WFMin
<1>2. ASSUME NEW j \in Nat, NEW k \in Nat, ~ (<<j, k>> \in R)
      PROVE  k <= j
  BY <1>2 DEF OpToRel
<1> QED BY <1>1, <1>2

\* init registers the least minor that has no device.
LEMMA NextDeviceFacts ==
    ASSUME ModuleTypeOK, devices # Channel
    PROVE  /\ NextDevice \in Channel \ devices
           /\ \A d \in Channel \ devices : NextDevice <= d
<1> DEFINE S == Channel \ devices
<1>1. S \subseteq Nat /\ S # {}
  BY LoadsAssumption DEF ModuleTypeOK
<1>2. \E k \in S : \A j \in S : k <= j
  <2> HIDE DEF S
  <2> QED BY <1>1, SmallestPosition
<1> QED BY <1>2 DEF NextDevice

\* A registration that fails takes back all that were made before it.
LEMMA TakesAllBack ==
    ASSUME StageInv, mod = "devices", devices # Channel
    PROVE  UnregisterBelow(NextDevice) = {}
<1>1. NextDevice \in Channel \ devices
  BY NextDeviceFacts DEF StageInv
<1>2. ASSUME NEW c \in devices PROVE c \in 0 .. NextDevice - 1
  <2>1. c \in Nat /\ NextDevice \in Nat
    BY <1>1, LoadsAssumption DEF StageInv, ModuleTypeOK
  <2>2. ~ (NextDevice <= c)
    BY <1>1, <1>2 DEF StageInv, Devices
  <2> QED BY <2>1, <2>2
<1> QED BY <1>2 DEF UnregisterBelow

\* The files' side of a step: one of AdcDriver, or one of the module's three.
LEMMA DriverStep ==
    ModuleTypeOK /\ [ModuleNext]_ModuleVars =>
        \/ [Next]_vars
        \/ ResetCounters
        \/ Unloaded
<1> SUFFICES ASSUME ModuleTypeOK, [ModuleNext]_ModuleVars
             PROVE  [Next]_vars \/ ResetCounters \/ Unloaded
  OBVIOUS
<1>1. CASE UNCHANGED ModuleVars
  BY <1>1 DEF ModuleVars
<1>2. CASE AllocRegion \/ CreateClass \/ RegisterDevice \/ DevicesDone
  BY <1>2 DEF AllocRegion, CreateClass, RegisterDevice, DevicesDone
<1>3. CASE RegisterDriver \/ InitMutex \/ Exit
  BY <1>3 DEF RegisterDriver, InitMutex, Exit
<1>4. CASE DeleteCdev \/ DestroyNode \/ UnregisterDevice \/ NextPart
  BY <1>4 DEF DeleteCdev, DestroyNode, UnregisterDevice, NextPart
<1>5. ASSUME NEW c \in Channel, AddCdev(c) \/ CreateNode(c) PROVE UNCHANGED vars
  BY <1>5 DEF AddCdev, CreateNode
<1>6. ASSUME NEW f \in File, OpenDies(f) PROVE UNCHANGED vars
  BY <1>6 DEF OpenDies
<1>7. ASSUME NEW f \in File, UseFile(f) PROVE Next
  <2>1. CASE \E c \in cdevs : Open(f, c)
    BY <2>1 DEF ModuleTypeOK, Next
  <2> QED BY <1>7, <2>1 DEF UseFile, Next
<1> QED BY <1>1, <1>2, <1>3, <1>4, <1>5, <1>6, <1>7 DEF ModuleNext

LEMMA FilesInductive == ModuleInv /\ [ModuleNext]_ModuleVars => FilesClosed'
<1> SUFFICES ASSUME ModuleInv, [ModuleNext]_ModuleVars PROVE FilesClosed'
  OBVIOUS
<1> USE DEF ModuleInv, FilesClosed, vars
<1>1. CASE UNCHANGED ModuleVars
  BY <1>1 DEF ModuleVars, stages
<1>2. CASE AllocRegion \/ CreateClass \/ RegisterDevice \/ DevicesDone
  BY <1>2 DEF AllocRegion, CreateClass, RegisterDevice, DevicesDone, Unwind
<1>3. CASE RegisterDriver \/ InitMutex \/ ResetCounters \/ Exit
  BY <1>3 DEF RegisterDriver, InitMutex, ResetCounters, Exit, Unwind
<1>4. CASE DeleteCdev \/ DestroyNode \/ UnregisterDevice \/ NextPart \/ Unloaded
  BY <1>4 DEF DeleteCdev, DestroyNode, UnregisterDevice, NextPart, Unloaded, Unwinding
<1>5. ASSUME NEW c \in Channel, AddCdev(c) \/ CreateNode(c) PROVE FilesClosed'
  BY <1>5 DEF AddCdev, CreateNode
<1>6. ASSUME NEW f \in File, OpenDies(f) PROVE FilesClosed'
  BY <1>6 DEF OpenDies, stages
<1>7. ASSUME NEW f \in File, UseFile(f) PROVE FilesClosed'
  BY <1>7 DEF UseFile, stages
<1> QED BY <1>1, <1>2, <1>3, <1>4, <1>5, <1>6, <1>7 DEF ModuleNext

\* Resetting the counters under open files, and taking the tables away when
\* none is open, keep the invariant of the driver.
LEMMA DriverInductive == ModuleInv /\ [ModuleNext]_ModuleVars => IInv'
<1> SUFFICES ASSUME ModuleInv, [ModuleNext]_ModuleVars PROVE IInv'
  OBVIOUS
<1>1. CASE [Next]_vars
  BY <1>1, TypeInductive, TablesInductive, MutexInductive, SoleUserInductive
     DEF ModuleInv, IInv
<1>2. CASE ResetCounters
  BY <1>2 DEF ModuleInv, ResetCounters, IInv, TypeOK, RefImpliesClient, PointerTracksCore,
              ReaderOwnsMutex, ReadKeepsClient, SoleUser, SoleUserHasClient,
              SoleUserFaultsOnlyMisdirected
<1>3. CASE Unloaded
  <2>1. \A f \in File : fstate[f] = "closed"
    BY <1>3 DEF Unloaded, ModuleInv, FilesClosed
  <2> QED BY <1>3, <2>1 DEF ModuleInv, Unloaded, IInv, TypeOK, RefImpliesClient,
              PointerTracksCore, ReaderOwnsMutex, ReadKeepsClient, SoleUser,
              SoleUserHasClient, SoleUserFaultsOnlyMisdirected
<1> QED BY <1>1, <1>2, <1>3, DriverStep DEF ModuleInv, StageInv

\* One step per action of init, of the openers and of exit.
LEMMA StagesInductive ==
    ModuleInv /\ IInv' /\ [ModuleNext]_ModuleVars => StageInv'
<1> SUFFICES ASSUME ModuleInv, IInv', [ModuleNext]_ModuleVars PROVE StageInv'
  OBVIOUS
<1> USE LoadsAssumption DEF ModuleInv, IInv, StageInv, ModuleTypeOK, Holds, Unwinds,
        Devices, Pinned, Leaks, Parts, ExitOrder
<1>1. CASE UNCHANGED ModuleVars
  BY <1>1 DEF ModuleVars, stages
<1>2. CASE AllocRegion
  <2>1. CASE mod' = "class" /\ held' = {"region"}
    <3>1. loads' \in 0 .. MaxLoads /\ loads' = loads + 1
      BY <1>2 DEF AllocRegion
    <3>2. Leaks'
      BY <1>2, <2>1, <3>1 DEF AllocRegion
    <3> QED BY <1>2, <2>1, <3>1, <3>2 DEF AllocRegion
  <2>2. CASE UNCHANGED <<mod, held>>
    <3>1. loads' \in 0 .. MaxLoads /\ loads' = loads + 1
      BY <1>2 DEF AllocRegion
    <3>2. Leaks'
      BY <1>2, <2>2, <3>1 DEF AllocRegion
    <3> QED BY <1>2, <2>2, <3>1, <3>2 DEF AllocRegion
  <2> QED BY <1>2, <2>1, <2>2 DEF AllocRegion
<1>3. CASE CreateClass
  <2>1. CASE mod' = "devices" /\ held' = held \cup {"class"} /\ UNCHANGED todo
    BY <1>3, <2>1 DEF CreateClass
  <2>2. CASE Unwind(<<"region">>) /\ UNCHANGED held
    <3>1. todo' \in Seq(Parts)
      BY <2>2 DEF Unwind
    <3> QED BY <1>3, <2>2, <3>1 DEF CreateClass, Unwind
  <2> QED BY <1>3, <2>1, <2>2 DEF CreateClass
<1>4. CASE RegisterDevice
  <2>1. /\ NextDevice \in Channel \ devices
        /\ \A d \in Channel \ devices : NextDevice <= d
    BY <1>4, NextDeviceFacts DEF RegisterDevice
  <2>2. CASE devices' = devices \cup {NextDevice} /\ UNCHANGED <<mod, todo>>
    BY <1>4, <2>1, <2>2 DEF RegisterDevice
  <2>3. CASE devices' = UnregisterBelow(NextDevice) /\ Unwind(<<"class", "region">>)
    <3>1. devices' = {}
      BY <1>4, <2>3, TakesAllBack DEF RegisterDevice
    <3> QED BY <1>4, <2>3, <3>1 DEF RegisterDevice, Unwind
  <2> QED BY <1>4, <2>2, <2>3 DEF RegisterDevice
<1>5. CASE DevicesDone
  BY <1>5 DEF DevicesDone
<1>6. CASE RegisterDriver
  <2>1. CASE mod' = "probing" /\ held' = held \cup {"driver"}
    BY <1>6, <2>1 DEF RegisterDriver, Unwind
  <2>2. CASE Unwind(<<"devices", "class", "region">>) /\ UNCHANGED <<held, toProbe>>
    <3>1. todo' \in Seq(Parts)
      BY <2>2 DEF Unwind
    <3>2. toProbe = {} /\ cdevs = {} /\ nodes = {} /\ held = {"class", "region"}
      BY <1>6 DEF RegisterDriver
    <3> QED BY <1>6, <2>2, <3>1, <3>2 DEF RegisterDriver, Unwind
  <2> QED BY <1>6, <2>1, <2>2 DEF RegisterDriver
<1>7. ASSUME NEW c \in Channel, AddCdev(c) PROVE StageInv'
  BY <1>7 DEF AddCdev
<1>8. ASSUME NEW c \in Channel, CreateNode(c) PROVE StageInv'
  BY <1>8 DEF CreateNode
<1>9. CASE InitMutex
  BY <1>9 DEF InitMutex
<1>10. CASE ResetCounters
  BY <1>10 DEF ResetCounters
<1>11. ASSUME NEW f \in File, OpenDies(f) PROVE StageInv'
  BY <1>11 DEF OpenDies, stages
<1>12. ASSUME NEW f \in File, UseFile(f) PROVE StageInv'
  BY <1>12 DEF UseFile, stages
<1>13. CASE Exit
  BY <1>13 DEF Exit, Unwind
<1>14. CASE DeleteCdev
  BY <1>14 DEF DeleteCdev, Unwinding
<1>15. CASE DestroyNode
  BY <1>15 DEF DestroyNode, Unwinding
<1>16. CASE UnregisterDevice
  BY <1>16 DEF UnregisterDevice, Unwinding
<1>17. CASE NextPart
  <2>1. devices = {} /\ cdevs = {} /\ nodes = {} /\ toProbe = {}
    <3>1. devices = {}
      BY <1>17 DEF NextPart
    <3> QED BY <3>1
  <2>2. Tail(todo) \in Seq(Parts)
    BY <1>17 DEF NextPart
  <2>3. Unwinds'
    <3>1. CASE todo = <<"devices", "class", "driver", "region">>
      <4>1. Head(todo) = "devices" /\ Tail(todo) = <<"class", "driver", "region">>
        BY <3>1
      <4> QED BY <1>17, <2>1, <3>1, <4>1 DEF NextPart
    <3>2. CASE todo = <<"devices", "class", "region">>
      <4>1. Head(todo) = "devices" /\ Tail(todo) = <<"class", "region">>
        BY <3>2
      <4> QED BY <1>17, <2>1, <3>2, <4>1 DEF NextPart
    <3>3. CASE todo = <<"class", "driver", "region">>
      <4>1. Head(todo) = "class" /\ Tail(todo) = <<"driver", "region">>
        BY <3>3
      <4> QED BY <1>17, <2>1, <3>3, <4>1 DEF NextPart
    <3>4. CASE todo = <<"class", "region">>
      <4>1. Head(todo) = "class" /\ Tail(todo) = <<"region">>
        BY <3>4
      <4> QED BY <1>17, <2>1, <3>4, <4>1 DEF NextPart
    <3>5. CASE todo = <<"driver", "region">>
      <4>1. Head(todo) = "driver" /\ Tail(todo) = <<"region">>
        BY <3>5
      <4> QED BY <1>17, <2>1, <3>5, <4>1 DEF NextPart
    <3>6. CASE todo = <<"region">>
      <4>1. Head(todo) = "region" /\ Tail(todo) = <<>>
        BY <3>6
      <4> QED BY <1>17, <2>1, <3>6, <4>1 DEF NextPart
    <3> QED BY <1>17, <3>1, <3>2, <3>3, <3>4, <3>5, <3>6 DEF NextPart
  <2> QED BY <1>17, <2>1, <2>2, <2>3 DEF NextPart
<1>18. CASE Unloaded
  BY <1>18 DEF Unloaded, PointerTracksCore
<1> QED BY <1>1, <1>2, <1>3, <1>4, <1>5, <1>6, <1>7, <1>8, <1>9, <1>10, <1>11, <1>12,
           <1>13, <1>14, <1>15, <1>16, <1>17, <1>18 DEF ModuleNext

LEMMA ModuleInvariant == ModuleSpec => []ModuleInv
<1>1. ModuleInit => ModuleInv
  <2> SUFFICES ASSUME ModuleInit PROVE ModuleInv
    OBVIOUS
  <2>1. IInv /\ FilesClosed
    BY ChannelAssumption, FileAssumption
       DEF ModuleInit, FilesClosed, Init, IInv, TypeOK, FState, RefImpliesClient,
           PointerTracksCore, ReaderOwnsMutex, ReadKeepsClient, SoleUser,
           SoleUserHasClient, SoleUserFaultsOnlyMisdirected
  <2>2. StageInv
    BY <2>1, LoadsAssumption
       DEF ModuleInit, IInv, StageInv, ModuleTypeOK, Holds, Unwinds, Devices, Pinned, Leaks,
           Parts
  <2> QED BY <2>1, <2>2 DEF ModuleInv
<1>2. ModuleInv /\ [ModuleNext]_ModuleVars => ModuleInv'
  BY FilesInductive, DriverInductive, StagesInductive DEF ModuleInv
<1> QED BY <1>1, <1>2, PTL DEF ModuleSpec

\* Types of what the module registers, and of the driver's tables across loads.
THEOREM ModuleTypeCorrect == ModuleSpec => []ModuleTypeOK
<1>1. ModuleInv => ModuleTypeOK
  BY DEF ModuleInv, StageInv
<1> QED BY <1>1, ModuleInvariant, PTL

\* For every number of minors: what can be opened is backed, wherever init
\* fails and in every step of exit.
THEOREM NodesCorrect == ModuleSpec => []NodesBacked
<1>1. ModuleInv => NodesBacked
  BY DEF ModuleInv, StageInv, ModuleTypeOK, Holds, Unwinds, Devices, NodesBacked, Parts,
         ExitOrder
<1> QED BY <1>1, ModuleInvariant, PTL

\* Every way out of init, and exit, takes back all that was registered.
THEOREM UnloadCorrect == ModuleSpec => []NothingLeft
<1>1. ModuleInv => NothingLeft
  <2> SUFFICES ASSUME ModuleInv, mod = "unloaded" PROVE NothingLeft
    BY DEF NothingLeft
  <2>1. \A c \in Channel : leaked[c] <= loads
    BY DEF ModuleInv, StageInv, ModuleTypeOK, Leaks
  <2> QED BY <2>1 DEF ModuleInv, FilesClosed, StageInv, Holds, Devices, Pinned, NothingLeft
<1> QED BY <1>1, ModuleInvariant, PTL

\* The driver's tables stay consistent although openers can come before their
\* counters are set, and from one load to the next.
THEOREM TablesCorrect ==
    ModuleSpec => [](RefImpliesClient /\ PointerTracksCore /\ ReadKeepsClient)
<1>1. ModuleInv => RefImpliesClient /\ PointerTracksCore /\ ReadKeepsClient
  BY DEF ModuleInv, IInv
<1> QED BY <1>1, ModuleInvariant, PTL

\* One user per channel finds a client, also where its count was reset.
THEOREM SoleUserKept == ModuleSpec => []SoleUserHasClient
<1>1. ModuleInv => SoleUserHasClient
  BY DEF ModuleInv, IInv
<1> QED BY <1>1, ModuleInvariant, PTL
=============================================================================
