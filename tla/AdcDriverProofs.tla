--------------------------- MODULE AdcDriverProofs ---------------------------
(***************************************************************************)
(* Proofs of the properties of AdcDriver, for every set of channels and    *)
(* files.                                                                  *)
(***************************************************************************)
EXTENDS AdcDriver, TLAPS, FiniteSetTheorems

\* A conversion, or the fault that ended one, keeps adc_dev.mutex.
ReaderOwnsMutex ==
    \A f \in File : fstate[f] \in {"reading", "faulted"} => mutex = f

\* MaxOpen bounds the files open on a channel to one.
SoleUser ==
    \A f, g \in File :
        /\ MaxOpen[minor[f]] = 1
        /\ fstate[f] # "closed" /\ fstate[g] # "closed" /\ minor[f] = minor[g]
        => f = g

IInv ==
    /\ TypeOK
    /\ RefImpliesClient
    /\ PointerTracksCore
    /\ ReaderOwnsMutex
    /\ ReadKeepsClient
    /\ SoleUser
    /\ SoleUserHasClient
    /\ SoleUserFaultsOnlyMisdirected

\* The bound of Open on a channel of one user: no file is open on the channel yet.
LEMMA FirstOpener ==
    ASSUME NEW c \in Channel, MaxOpen[c] = 1, Cardinality(OpenOn(c)) < MaxOpen[c]
    PROVE  OpenOn(c) = {}
<1>1. IsFiniteSet(OpenOn(c))
  BY FileAssumption, FS_Subset DEF OpenOn
<1>2. Cardinality(OpenOn(c)) \in Nat
  BY <1>1, FS_CardinalityType
<1>3. Cardinality(OpenOn(c)) = 0
  BY <1>2
<1> QED BY <1>1, <1>3, FS_EmptySet

\* The tables, counters and pointers keep their types.
LEMMA TypeInductive == TypeOK /\ PointerTracksCore /\ [Next]_vars => TypeOK'
<1> SUFFICES ASSUME TypeOK, PointerTracksCore, [Next]_vars PROVE TypeOK'
  OBVIOUS
<1> USE ChannelAssumption, FileAssumption DEF TypeOK, FState
<1>1. CASE UNCHANGED vars
  BY <1>1 DEF vars
<1>2. ASSUME NEW f \in File, NEW c \in Channel, Open(f, c) PROVE TypeOK'
  <2>1. CASE OpenShared(f, c)
    BY <1>2, <2>1 DEF Open, OpenShared
  <2>2. CASE OpenFirst(f, c)
    <3>1. client' \in [Channel -> BOOLEAN]
      BY <2>2 DEF OpenFirst
    <3> QED BY <1>2, <2>2, <3>1 DEF Open, OpenFirst
  <2> QED BY <1>2, <2>1, <2>2 DEF Open
<1>3. ASSUME NEW f \in File, ReadBegin(f) PROVE TypeOK'
  BY <1>3 DEF ReadBegin
<1>4. ASSUME NEW f \in File, ReadEnd(f) PROVE TypeOK'
  BY <1>4 DEF ReadEnd
<1>5. ASSUME NEW f \in File, Release(f) PROVE TypeOK'
  <2> DEFINE c == minor[f]
  <2>1. c \in Channel
    OBVIOUS
  <2>2. CASE DropRef(c)
    <3>1. clientRef[c] - 1 \in Nat
      BY <2>1, <2>2 DEF DropRef
    <3> QED BY <1>5, <2>1, <2>2, <3>1 DEF Release, DropRef
  <2>3. CASE DropClient(c)
    <3>1. client[c] => registered[c] - 1 \in Nat
      BY <2>1 DEF PointerTracksCore
    <3> QED BY <1>5, <2>1, <2>3, <3>1 DEF Release, DropClient
  <2> QED BY <1>5, <2>2, <2>3 DEF Release
<1> QED BY <1>1, <1>2, <1>3, <1>4, <1>5 DEF Next

\* The tables' own invariants, preserved by open and release.
LEMMA TablesInductive ==
    IInv /\ [Next]_vars => RefImpliesClient' /\ PointerTracksCore'
<1> SUFFICES ASSUME IInv, [Next]_vars
             PROVE  RefImpliesClient' /\ PointerTracksCore'
  OBVIOUS
<1> USE ChannelAssumption DEF IInv, TypeOK, FState, RefImpliesClient, PointerTracksCore
<1>1. CASE UNCHANGED vars
  BY <1>1 DEF vars
<1>2. ASSUME NEW f \in File, NEW c \in Channel, Open(f, c)
      PROVE  RefImpliesClient' /\ PointerTracksCore'
  BY <1>2 DEF Open, OpenShared, OpenFirst
<1>3. ASSUME NEW f \in File, ReadBegin(f) \/ ReadEnd(f)
      PROVE  RefImpliesClient' /\ PointerTracksCore'
  BY <1>3 DEF ReadBegin, ReadEnd
<1>4. ASSUME NEW f \in File, Release(f)
      PROVE  RefImpliesClient' /\ PointerTracksCore'
  <2>1. minor[f] \in Channel
    OBVIOUS
  <2>2. CASE DropRef(minor[f])
    BY <2>1, <2>2 DEF DropRef
  <2>3. CASE DropClient(minor[f])
    BY <2>1, <2>3 DEF DropClient
  <2> QED BY <1>4, <2>2, <2>3 DEF Release
<1> QED BY <1>1, <1>2, <1>3, <1>4 DEF Next

\* The mutex is held across the sleep, so that no release runs meanwhile.
LEMMA MutexInductive ==
    IInv /\ [Next]_vars => ReaderOwnsMutex' /\ ReadKeepsClient'
<1> SUFFICES ASSUME IInv, [Next]_vars
             PROVE  ReaderOwnsMutex' /\ ReadKeepsClient'
  OBVIOUS
<1> USE FileAssumption DEF IInv, TypeOK, FState, ReaderOwnsMutex, ReadKeepsClient, MutexFree
<1>1. CASE UNCHANGED vars
  BY <1>1 DEF vars
<1>2. ASSUME NEW f \in File, NEW c \in Channel, Open(f, c)
      PROVE  ReaderOwnsMutex' /\ ReadKeepsClient'
  BY <1>2 DEF Open, OpenShared, OpenFirst
<1>3. ASSUME NEW f \in File, ReadBegin(f)
      PROVE  ReaderOwnsMutex' /\ ReadKeepsClient'
  BY <1>3 DEF ReadBegin
<1>4. ASSUME NEW f \in File, ReadEnd(f)
      PROVE  ReaderOwnsMutex' /\ ReadKeepsClient'
  BY <1>4 DEF ReadEnd
<1>5. ASSUME NEW f \in File, Release(f)
      PROVE  ReaderOwnsMutex' /\ ReadKeepsClient'
  BY <1>5 DEF Release, DropRef, DropClient
<1> QED BY <1>1, <1>2, <1>3, <1>4, <1>5 DEF Next

\* One file per channel: who releases the client leaves nobody behind.
LEMMA SoleUserInductive ==
    IInv /\ [Next]_vars =>
        SoleUser' /\ SoleUserHasClient' /\ SoleUserFaultsOnlyMisdirected'
<1> DEFINE Goal == SoleUser /\ SoleUserHasClient /\ SoleUserFaultsOnlyMisdirected
<1> SUFFICES ASSUME IInv, [Next]_vars PROVE Goal'
  OBVIOUS
<1> USE ChannelAssumption, FileAssumption
     DEF IInv, TypeOK, FState, SoleUser, SoleUserHasClient, SoleUserFaultsOnlyMisdirected
<1>1. CASE UNCHANGED vars
  BY <1>1 DEF vars
<1>2. ASSUME NEW f \in File, NEW c \in Channel, Open(f, c) PROVE Goal'
  <2>1. MaxOpen[c] = 1 => OpenOn(c) = {}
    BY <1>2, FirstOpener DEF Open
  <2>2. MaxOpen[c] = 1 => \A g \in File : fstate[g] # "closed" => minor[g] # c
    BY <2>1 DEF OpenOn
  <2> QED BY <1>2, <2>2 DEF Open, OpenShared, OpenFirst
<1>3. ASSUME NEW f \in File, ReadBegin(f) PROVE Goal'
  BY <1>3 DEF ReadBegin
<1>4. ASSUME NEW f \in File, ReadEnd(f) PROVE Goal'
  BY <1>4 DEF ReadEnd
<1>5. ASSUME NEW f \in File, Release(f) PROVE Goal'
  BY <1>5 DEF Release, DropRef, DropClient
<1> QED BY <1>1, <1>2, <1>3, <1>4, <1>5 DEF Next

LEMMA Invariant == Spec => []IInv
<1>1. Init => IInv
  BY ChannelAssumption, FileAssumption
     DEF Init, IInv, TypeOK, FState, RefImpliesClient, PointerTracksCore, ReaderOwnsMutex,
         ReadKeepsClient, SoleUser, SoleUserHasClient, SoleUserFaultsOnlyMisdirected
<1>2. IInv /\ [Next]_vars => IInv'
  BY TypeInductive, TablesInductive, MutexInductive, SoleUserInductive DEF IInv
<1> QED BY <1>1, <1>2, PTL DEF Spec

\* Type correctness of the driver's tables: in particular neither client_ref
\* nor the number of registered clients is ever decremented below zero.
THEOREM TypeCorrect == Spec => []TypeOK
<1>1. IInv => TypeOK
  BY DEF IInv
<1> QED BY <1>1, Invariant, PTL

\* client_ref counts at most one user, and only of a registered client.
THEOREM RefCorrect == Spec => []RefImpliesClient
<1>1. IInv => RefImpliesClient
  BY DEF IInv
<1> QED BY <1>1, Invariant, PTL

\* The client table and the s3c-adc core agree: no double registration, no
\* leak and no use after release, whatever the processes do.
THEOREM PointersCorrect == Spec => []PointerTracksCore
<1>1. IInv => PointerTracksCore
  BY DEF IInv
<1> QED BY <1>1, Invariant, PTL

\* No release frees the client of a conversion in progress.
THEOREM ReadSafe == Spec => []ReadKeepsClient
<1>1. IInv => ReadKeepsClient
  BY DEF IInv
<1> QED BY <1>1, Invariant, PTL

\* One user per channel always finds a client, session after session.
THEOREM SoleUserServed == Spec => []SoleUserHasClient
<1>1. IInv => SoleUserHasClient
  BY DEF IInv
<1> QED BY <1>1, Invariant, PTL

\* One user per channel faults at most on the NULL private_data of a shared
\* open, never on the channel it opened.
THEOREM SoleUserFault == Spec => []SoleUserFaultsOnlyMisdirected
<1>1. IInv => SoleUserFaultsOnlyMisdirected
  BY DEF IInv
<1> QED BY <1>1, Invariant, PTL
=============================================================================
