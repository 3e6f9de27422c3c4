------------------------------ MODULE AdcDriver ------------------------------
(***************************************************************************)
(* The file operations of the fl2440adc character driver                   *)
(* (drivers/fl2440adcdri.c): open, read and release of /dev/fl2440adc<n>   *)
(* by any number of processes, on the module-wide tables client[] and      *)
(* client_ref[] that adc_dev.mutex protects.                               *)
(*                                                                         *)
(* Every handler runs its table accesses inside one critical section, so   *)
(* open and release are one action each.  A read sleeps in s3c_adc_read    *)
(* with the mutex held and is two actions.  Calls that fail before they    *)
(* touch a table (O_NONBLOCK, s3c_adc_register failing) leave every        *)
(* variable alone: they are stuttering steps.                              *)
(***************************************************************************)
EXTENDS Naturals, FiniteSets

CONSTANTS
    Channel,   \* the minors, 0 .. ADCNUM-1
    File,      \* the struct file objects that can exist at a time
    NoFile,    \* owner of the unlocked mutex
    MaxOpen    \* bound: files open on each channel at a time

ASSUME ChannelAssumption == 0 \in Channel
ASSUME FileAssumption == IsFiniteSet(File) /\ NoFile \notin File
ASSUME MaxOpenAssumption == MaxOpen \in [Channel -> Nat]

VARIABLES
    client,        \* client[c]: the driver's client pointer of c is not NULL
    clientRef,     \* client_ref[c]
    registered,    \* clients of c that s3c-adc holds (registered - released)
    fstate,        \* what the process of a file does in the driver
    minor,         \* MINOR(inode->i_rdev) of an open file
    privateData,   \* filp->private_data, 0 (NULL) in a fresh struct file
    mutex          \* owner of adc_dev.mutex

vars == <<client, clientRef, registered, fstate, minor, privateData, mutex>>

FState == {"closed", "idle", "reading", "faulted"}

TypeOK ==
    /\ client \in [Channel -> BOOLEAN]
    /\ clientRef \in [Channel -> Nat]
    /\ registered \in [Channel -> Nat]
    /\ fstate \in [File -> FState]
    /\ minor \in [File -> Channel]
    /\ privateData \in [File -> Channel]
    /\ mutex \in File \cup {NoFile}

\* fl2440adc_init: memset of adc_dev, mutex_init, atomic_set of the counters.
Init ==
    /\ client = [c \in Channel |-> FALSE]
    /\ clientRef = [c \in Channel |-> 0]
    /\ registered = [c \in Channel |-> 0]
    /\ fstate = [f \in File |-> "closed"]
    /\ minor = [f \in File |-> 0]
    /\ privateData = [f \in File |-> 0]
    /\ mutex = NoFile

OpenOn(c) == {f \in File : fstate[f] # "closed" /\ minor[f] = c}

-----------------------------------------------------------------------------
(* The handlers.  Names with an underscore are the mutants of the action    *)
(* or helper they precede.                                                  *)

MutexFree == mutex = NoFile

\* A further opener returns before private_data and client_ref are set.
OpenShared(f, c) ==
    /\ client[c]
    /\ UNCHANGED <<client, clientRef, registered, privateData>>

OpenFirst_RefBeforeRegister(f, c) ==
    /\ ~client[c]
    /\ clientRef' = [clientRef EXCEPT ![c] = @ + 1]
    /\ UNCHANGED <<client, registered, privateData>>

OpenFirst_RegisterUnchecked(f, c) ==
    /\ ~client[c]
    /\ clientRef' = [clientRef EXCEPT ![c] = @ + 1]
    /\ privateData' = [privateData EXCEPT ![f] = c]
    /\ UNCHANGED <<client, registered>>

OpenFirst(f, c) ==
    /\ ~client[c]
    /\ client' = [client EXCEPT ![c] = TRUE]
    /\ registered' = [registered EXCEPT ![c] = @ + 1]
    /\ clientRef' = [clientRef EXCEPT ![c] = @ + 1]
    /\ privateData' = [privateData EXCEPT ![f] = c]

Open(f, c) ==
    /\ fstate[f] = "closed"
    /\ Cardinality(OpenOn(c)) < MaxOpen[c]
    /\ MutexFree
    /\ OpenShared(f, c) \/ OpenFirst(f, c)
    /\ fstate' = [fstate EXCEPT ![f] = "idle"]
    /\ minor' = [minor EXCEPT ![f] = c]
    /\ UNCHANGED mutex

ReadBegin_UnlockedRead(f) ==
    /\ fstate[f] = "idle"
    /\ MutexFree
    /\ fstate' = [fstate EXCEPT ![f] = IF client[privateData[f]]
                                       THEN "reading" ELSE "faulted"]
    /\ UNCHANGED <<client, clientRef, registered, minor, privateData, mutex>>

\* mutex_lock, then s3c_adc_read of client[private_data]: it sleeps for the
\* conversion, or faults on a NULL client with the mutex held for good.
ReadBegin(f) ==
    /\ fstate[f] = "idle"
    /\ MutexFree
    /\ mutex' = f
    /\ fstate' = [fstate EXCEPT ![f] = IF client[privateData[f]]
                                       THEN "reading" ELSE "faulted"]
    /\ UNCHANGED <<client, clientRef, registered, minor, privateData>>

\* The conversion ends or times out; the value or the error is returned.
ReadEnd(f) ==
    /\ fstate[f] = "reading"
    /\ mutex' = NoFile
    /\ fstate' = [fstate EXCEPT ![f] = "idle"]
    /\ UNCHANGED <<client, clientRef, registered, minor, privateData>>

DropRef_Unguarded(c) ==
    /\ clientRef' = [clientRef EXCEPT ![c] = @ - 1]
    /\ UNCHANGED <<client, registered>>

\* atomic_add_unless(&client_ref, -1, 0) succeeded: the client stays.
DropRef(c) ==
    /\ clientRef[c] # 0
    /\ clientRef' = [clientRef EXCEPT ![c] = @ - 1]
    /\ UNCHANGED <<client, registered>>

DropClient_KeepsPointer(c) ==
    /\ clientRef[c] = 0
    /\ registered' = [registered EXCEPT ![c] = IF client[c] THEN @ - 1 ELSE @]
    /\ UNCHANGED <<client, clientRef>>

\* s3c_adc_release of a NULL client releases nothing.
DropClient(c) ==
    /\ clientRef[c] = 0
    /\ registered' = [registered EXCEPT ![c] = IF client[c] THEN @ - 1 ELSE @]
    /\ client' = [client EXCEPT ![c] = FALSE]
    /\ UNCHANGED clientRef

\* The last reference to the struct file is dropped; the file is freed.
Release(f) ==
    /\ fstate[f] = "idle"
    /\ MutexFree
    /\ DropRef(minor[f]) \/ DropClient(minor[f])
    /\ fstate' = [fstate EXCEPT ![f] = "closed"]
    /\ minor' = [minor EXCEPT ![f] = 0]
    /\ privateData' = [privateData EXCEPT ![f] = 0]
    /\ UNCHANGED mutex

Next ==
    \E f \in File :
        \/ \E c \in Channel : Open(f, c)
        \/ ReadBegin(f)
        \/ ReadEnd(f)
        \/ Release(f)

Spec == Init /\ [][Next]_vars

-----------------------------------------------------------------------------
(* Properties.                                                              *)

\* The counter never exceeds one, and while it is one the client it counts
\* is registered: open counts a client only together with registering it,
\* and release drops the client only when the counter is already zero.
RefImpliesClient ==
    \A c \in Channel : clientRef[c] \in {0, 1} /\ (clientRef[c] = 1 => client[c])

\* The pointer table and the s3c-adc core agree at all times: a non-NULL
\* pointer has exactly one live client behind it (no use after release) and
\* a NULL pointer has none (no lost registration).
PointerTracksCore ==
    \A c \in Channel : registered[c] = IF client[c] THEN 1 ELSE 0

\* A release by another process cannot free the client of a conversion that
\* sleeps in s3c_adc_read: the mutex is held across the sleep.
ReadKeepsClient ==
    \A f \in File : fstate[f] = "reading" => client[privateData[f]]

\* On a channel that one process uses at a time, an open file always has a
\* client, although the first close leaves the client registered and the next
\* open finds it without counting it, whatever happens on other channels.
SoleUserHasClient ==
    \A f \in File :
        fstate[f] # "closed" /\ MaxOpen[minor[f]] = 1 => client[minor[f]]

\* On such a channel, the only read that can fault on a NULL client is one
\* whose private_data was left at channel 0.
SoleUserFaultsOnlyMisdirected ==
    \A f \in File :
        fstate[f] = "faulted" /\ MaxOpen[minor[f]] = 1 => privateData[f] # minor[f]

\* libs3cadc/README:13-14: the channel number given at open selects the ADC
\* that the handle reads.
ReadsOwnChannel ==
    \A f \in File :
        fstate[f] \in {"reading", "faulted"} => privateData[f] = minor[f]

\* fl2440adcdri.c:82: several processes may have the device open in the same
\* period of time; each of them then has a client to read from.
OpenFileHasClient ==
    \A f \in File : fstate[f] # "closed" => client[minor[f]]
=============================================================================
