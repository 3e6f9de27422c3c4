------------------------------ MODULE AdcModule ------------------------------
(***************************************************************************)
(* The life of the fl2440adc module (drivers/fl2440adcdri.c and            *)
(* fl2440adcdev.c) around the file operations of AdcDriver: fl2440adc_init *)
(* with its stages and their unwinding, probe and remove of a device, and  *)
(* fl2440adc_exit.                                                         *)
(*                                                                         *)
(* cdev_add makes a device openable at once, while init has still to set   *)
(* up the mutex and the counters.  An opener that locks the zeroed mutex   *)
(* oopses in mutex_lock: its open never returns, and keeps the module in   *)
(* use for good.                                                           *)
(***************************************************************************)
EXTENDS AdcDriver, Sequences

CONSTANT MaxLoads    \* bound: how often the module is loaded

ASSUME LoadsAssumption == MaxLoads \in Nat /\ Channel \subseteq Nat

VARIABLES
    mod,       \* where init or exit stands
    todo,      \* what is left to take down while mod = "unwinding"
    held,      \* what the module has registered beside its devices
    devices,   \* minors whose platform device is registered
    toProbe,   \* devices that platform_driver_register has yet to probe
    cdevs,     \* minors whose cdev is added: they can be opened
    nodes,     \* minors whose class device is created: they have a /dev node
    stuck,     \* files whose open died in mutex_lock
    leaked,    \* clients of c that unloaded modules left with s3c-adc
    loads      \* how often init has run

stages == <<mod, todo, held, devices, toProbe, cdevs, nodes>>
ModuleVars == <<vars, stages, stuck, leaked, loads>>

Parts == {"class", "devices", "driver", "region"}

ModuleTypeOK ==
    /\ TypeOK
    /\ mod \in {"unloaded", "class", "devices", "driver", "probing", "counters",
                "live", "unwinding"}
    /\ todo \in Seq(Parts)
    /\ held \subseteq Parts \ {"devices"}
    /\ devices \subseteq Channel /\ toProbe \subseteq Channel
    /\ cdevs \subseteq Channel /\ nodes \subseteq Channel
    /\ stuck \subseteq File
    /\ leaked \in [Channel -> Nat]
    /\ loads \in 0 .. MaxLoads

ModuleInit ==
    /\ Init
    /\ mod = "unloaded" /\ todo = <<>> /\ held = {}
    /\ devices = {} /\ toProbe = {} /\ cdevs = {} /\ nodes = {}
    /\ stuck = {} /\ leaked = [c \in Channel |-> 0] /\ loads = 0

-----------------------------------------------------------------------------
(* fl2440adc_init.                                                          *)

Unwind(parts) == mod' = "unwinding" /\ todo' = parts

\* alloc_chrdev_region, which init may fail at.
AllocRegion ==
    /\ mod = "unloaded" /\ loads < MaxLoads
    /\ loads' = loads + 1
    /\ \/ mod' = "class" /\ held' = {"region"}
       \/ UNCHANGED <<mod, held>>
    /\ UNCHANGED <<vars, todo, devices, toProbe, cdevs, nodes, stuck, leaked>>

CreateClass ==
    /\ mod = "class"
    /\ \/ mod' = "devices" /\ held' = held \cup {"class"} /\ UNCHANGED todo
       \/ Unwind(<<"region">>) /\ UNCHANGED held
    /\ UNCHANGED <<vars, devices, toProbe, cdevs, nodes, stuck, leaked, loads>>

NextDevice == CHOOSE c \in Channel \ devices : \A d \in Channel \ devices : c <= d

UnregisterBelow_ButFirst(k) == devices \ (1 .. k - 1)

\* The loop of fl2440adc_register_device that takes back what it registered.
UnregisterBelow(k) == devices \ (0 .. k - 1)

\* The registered device loses its parent (dev.parent = NULL), so that taking
\* it back leaves it in the list of the platform bus's children; that list is
\* the driver core's and is not modelled.
RegisterDevice ==
    /\ mod = "devices" /\ devices # Channel
    /\ \/ devices' = devices \cup {NextDevice} /\ UNCHANGED <<mod, todo>>
       \/ /\ devices' = UnregisterBelow(NextDevice)
          /\ Unwind(<<"class", "region">>)
    /\ UNCHANGED <<vars, held, toProbe, cdevs, nodes, stuck, leaked, loads>>

DevicesDone ==
    /\ mod = "devices" /\ devices = Channel
    /\ mod' = "driver"
    /\ UNCHANGED <<vars, todo, held, devices, toProbe, cdevs, nodes, stuck, leaked, loads>>

\* platform_driver_register; it fails before it probes.
RegisterDriver ==
    /\ mod = "driver"
    /\ \/ mod' = "probing" /\ held' = held \cup {"driver"} /\ toProbe' = devices
          /\ UNCHANGED todo
       \/ Unwind(<<"devices", "class", "region">>) /\ UNCHANGED <<held, toProbe>>
    /\ UNCHANGED <<vars, devices, cdevs, nodes, stuck, leaked, loads>>

\* fl2440adc_probe: cdev_add, which may fail.  A device that is not probed
\* stays registered without a node, and init does not hear of it.
AddCdev(c) ==
    /\ mod = "probing" /\ c \in toProbe /\ cdevs = nodes
    /\ toProbe' = toProbe \ {c}
    /\ cdevs' \in {cdevs, cdevs \cup {c}}
    /\ UNCHANGED <<vars, mod, todo, held, devices, nodes, stuck, leaked, loads>>

\* ... and device_create; without it the cdev is deleted.
CreateNode(c) ==
    /\ mod = "probing" /\ c \in cdevs \ nodes
    /\ \/ nodes' = nodes \cup {c} /\ UNCHANGED cdevs
       \/ cdevs' = cdevs \ {c} /\ UNCHANGED nodes
    /\ UNCHANGED <<vars, mod, todo, held, devices, toProbe, stuck, leaked, loads>>

InitMutex ==
    /\ mod = "probing" /\ toProbe = {} /\ cdevs = nodes
    /\ mod' = "counters"
    /\ UNCHANGED <<vars, todo, held, devices, toProbe, cdevs, nodes, stuck, leaked, loads>>

\* The loop of atomic_set, over counters that an open may have counted up.
ResetCounters ==
    /\ mod = "counters"
    /\ clientRef' = [c \in Channel |-> 0]
    /\ mod' = "live"
    /\ UNCHANGED <<client, registered, fstate, minor, privateData, mutex>>
    /\ UNCHANGED <<todo, held, devices, toProbe, cdevs, nodes, stuck, leaked, loads>>

-----------------------------------------------------------------------------
(* Processes that use the devices.                                          *)

OpenDies(f) ==
    /\ mod = "probing" /\ cdevs # {}
    /\ fstate[f] = "closed"
    /\ stuck' = stuck \cup {f}
    /\ UNCHANGED <<vars, stages, leaked, loads>>

UseFile(f) ==
    /\ mod \in {"counters", "live"}
    /\ f \notin stuck
    /\ \/ \E c \in cdevs : Open(f, c)
       \/ ReadBegin(f) \/ ReadEnd(f) \/ Release(f)
    /\ UNCHANGED <<stages, stuck, leaked, loads>>

-----------------------------------------------------------------------------
(* fl2440adc_exit, and the labels of fl2440adc_init.                        *)

ExitOrder_ClassFirst == <<"class", "devices", "driver", "region">>

ExitOrder == <<"devices", "class", "driver", "region">>

\* rmmod is refused while a file of the module is open, or being opened.
Exit ==
    /\ mod = "live"
    /\ stuck = {} /\ \A f \in File : fstate[f] = "closed"
    /\ Unwind(ExitOrder)
    /\ UNCHANGED <<vars, held, devices, toProbe, cdevs, nodes, stuck, leaked, loads>>

Unwinding(part) == mod = "unwinding" /\ todo # <<>> /\ Head(todo) = part

FirstDevice == CHOOSE c \in devices : \A d \in devices : c <= d

\* fl2440adc_remove, for a device that a probe succeeded on.
DeleteCdev ==
    /\ Unwinding("devices") /\ devices # {} /\ FirstDevice \in cdevs
    /\ cdevs' = cdevs \ {FirstDevice}
    /\ UNCHANGED <<vars, mod, todo, held, devices, toProbe, nodes, stuck, leaked, loads>>

DestroyNode ==
    /\ Unwinding("devices") /\ devices # {} /\ FirstDevice \in nodes \ cdevs
    /\ nodes' = nodes \ {FirstDevice}
    /\ UNCHANGED <<vars, mod, todo, held, devices, toProbe, cdevs, stuck, leaked, loads>>

UnregisterDevice ==
    /\ Unwinding("devices") /\ devices # {} /\ FirstDevice \notin cdevs \cup nodes
    /\ devices' = devices \ {FirstDevice}
    /\ UNCHANGED <<vars, mod, todo, held, toProbe, cdevs, nodes, stuck, leaked, loads>>

NextPart ==
    /\ mod = "unwinding" /\ todo # <<>>
    /\ Head(todo) = "devices" => devices = {}
    /\ held' = held \ {Head(todo)}
    /\ todo' = Tail(todo)
    /\ UNCHANGED <<vars, mod, devices, toProbe, cdevs, nodes, stuck, leaked, loads>>

\* The tables go with the module; clients that no close released stay.
Unloaded ==
    /\ mod = "unwinding" /\ todo = <<>>
    /\ mod' = "unloaded"
    /\ leaked' = [c \in Channel |-> leaked[c] + registered[c]]
    /\ client' = [c \in Channel |-> FALSE]
    /\ registered' = [c \in Channel |-> 0]
    /\ clientRef' = [c \in Channel |-> 0]
    /\ UNCHANGED <<fstate, minor, privateData, mutex>>
    /\ UNCHANGED <<todo, held, devices, toProbe, cdevs, nodes, stuck, loads>>

ModuleNext ==
    \/ AllocRegion \/ CreateClass \/ RegisterDevice \/ DevicesDone
    \/ RegisterDriver \/ InitMutex \/ ResetCounters
    \/ \E c \in Channel : AddCdev(c) \/ CreateNode(c)
    \/ \E f \in File : OpenDies(f) \/ UseFile(f)
    \/ Exit \/ DeleteCdev \/ DestroyNode \/ UnregisterDevice
    \/ NextPart \/ Unloaded

ModuleSpec == ModuleInit /\ [][ModuleNext]_ModuleVars

-----------------------------------------------------------------------------
(* Properties.                                                              *)

\* A device that can be opened, or has a node, is backed by all that it needs:
\* its platform device, the driver, the class and the region of numbers, at
\* every step of loading, of a failed load, and of unloading.
NodesBacked ==
    /\ cdevs \cup nodes # {} => held = Parts \ {"devices"}
    /\ cdevs \cup nodes \subseteq devices

\* Wherever init fails, and after exit, the module holds no region, class,
\* driver, device, cdev or node and no file is open; of the clients it
\* registered, which exit does not release, each load leaves at most one on
\* each channel.
NothingLeft ==
    mod = "unloaded" =>
        /\ held = {} /\ devices = {} /\ cdevs = {} /\ nodes = {}
        /\ stuck = {} /\ \A f \in File : fstate[f] = "closed"
        /\ \A c \in Channel : leaked[c] <= loads
=============================================================================
