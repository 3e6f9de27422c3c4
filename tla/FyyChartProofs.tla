---------------------------- MODULE FyyChartProofs ----------------------------
(***************************************************************************)
(* Proofs about FyyChart, for every size of the list, every window and     *)
(* every length of the day, and about FyyScope: it implements FyyChart, so *)
(* that what is proved of a chart holds of a chart whose slots are called  *)
(* by a source, its indicator and the refresh period.                      *)
(***************************************************************************)
EXTENDS FyyScope, WellFoundedInduction, TLAPS

Time == 0 .. MaxTime

LEMMA NewestFacts ==
    ASSUME NEW s \in Seq(Time), NEW n \in 0 .. Len(s)
    PROVE  /\ Newest(s, n) \in Seq(Time)
           /\ Len(Newest(s, n)) = n
           /\ \A i \in 1 .. n : Newest(s, n)[i] = s[i]
<1>1. /\ Len(Newest(s, n)) = n
      /\ \A i \in 1 .. n : Newest(s, n)[i] = s[i]
  BY DEF Newest
<1>2. \A i \in 1 .. n : s[i] \in Time
  OBVIOUS
<1>3. Newest(s, n) \in Seq(Time)
  BY <1>2 DEF Newest
<1> QED BY <1>1, <1>3

\* A set of natural numbers that is not empty has a least element, so that a
\* CHOOSE for it names one.
LEMMA SmallestPosition ==
    ASSUME NEW S, S \subseteq Nat, S # {}
    PROVE  \E k \in S : \A j \in S : k <= j
<1> DEFINE R == OpToRel(<, Nat)
<1>1. \E k \in S : \A j \in S : ~ (<<j, k>> \in R)
  <2> HIDE DEF R
  <2>1. IsWellFoundedOn(R, Nat)
    BY NatLessThanWellFounded DEF R
  <2> QED BY <2>1, WFMin
<1>2. ASSUME NEW j \in Nat, NEW k \in Nat, ~ (<<j, k>> \in R)
      PROVE  k <= j
  BY <1>2 DEF OpToRel
<1> QED BY <1>1, <1>2

\* Drawing keeps the newest samples: a beginning of the list.
LEMMA InWindowPrefix ==
    ASSUME NEW s \in Seq(Time)
    PROVE  \E n \in 0 .. Len(s) : InWindow(s) = Newest(s, n)
<1> DEFINE old == {k \in DOMAIN s : ~Shown(s[k])}
           first == CHOOSE k \in old : \A j \in old : k <= j
<1>1. CASE old = {}
  <2>1. s = Newest(s, Len(s))
    BY DEF Newest
  <2> QED BY <1>1, <2>1 DEF InWindow
<1>2. CASE old # {}
  <2>0. old \subseteq 1 .. Len(s)
    OBVIOUS
  <2>1. \E k \in old : \A j \in old : k <= j
    <3> HIDE DEF old
    <3>1. old \subseteq Nat /\ old # {}
      BY <1>2, <2>0
    <3> QED BY <3>1, SmallestPosition
  <2>2. first \in old
    <3> HIDE DEF old
    <3> QED BY <2>1
  <2>3. InWindow(s) = Newest(s, first - 1)
    BY <1>2 DEF InWindow
  <2>4. first - 1 \in 0 .. Len(s)
    <3> HIDE DEF old, first
    <3> QED BY <2>2, <2>0
  <2> QED BY <2>3, <2>4
<1> QED BY <1>1, <1>2

\* The list after a sample came in: the sample, and then a beginning of the
\* list, one sample shorter than the list may be.
LEMMA TrimPrefix ==
    ASSUME NEW s \in Seq(Time), Len(s) <= MaxDots
    PROVE  \E n \in 0 .. Len(s) : Trim(s) = Newest(s, n) /\ n < MaxDots
<1> USE BoundAssumption
<1>1. CASE Len(s) >= MaxDots
  <2>1. MaxDots - 1 \in 0 .. Len(s)
    BY <1>1
  <2> QED BY <1>1, <2>1 DEF Trim
<1>2. CASE Len(s) < MaxDots
  <2>1. s = Newest(s, Len(s))
    BY DEF Newest
  <2>2. Trim(s) = s
    BY <1>2 DEF Trim
  <2> QED BY <1>2, <2>1, <2>2
<1> QED BY <1>1, <1>2

-----------------------------------------------------------------------------
(* The list.                                                                *)

\* What the list needs of itself: no sample is of the future.
ListInv(s) ==
    /\ s \in Seq(Time) /\ Len(s) <= MaxDots
    /\ \A i, j \in DOMAIN s : i <= j => s[i] >= s[j]
    /\ \A i \in DOMAIN s : s[i] <= now

LEMMA NewestKeeps ==
    ASSUME NEW s, ListInv(s), NEW n \in 0 .. Len(s)
    PROVE  ListInv(Newest(s, n))
<1>1. /\ Newest(s, n) \in Seq(Time)
      /\ Len(Newest(s, n)) = n
      /\ \A i \in 1 .. n : Newest(s, n)[i] = s[i]
  BY NewestFacts DEF ListInv
<1>2. DOMAIN Newest(s, n) = 1 .. n /\ DOMAIN s = 1 .. Len(s) /\ n <= Len(s)
  BY <1>1 DEF ListInv
<1>3. n <= MaxDots
  BY BoundAssumption, <1>2 DEF ListInv
<1> QED BY <1>1, <1>2, <1>3 DEF ListInv

LEMMA PushKeeps ==
    ASSUME NEW s, ListInv(s), Len(s) < MaxDots, now \in Time
    PROVE  ListInv(Push(s))
<1> USE BoundAssumption
<1>1. s \in Seq(Time)
  BY DEF ListInv
<1>2. /\ Push(s) \in Seq(Time)
      /\ Len(Push(s)) = Len(s) + 1
      /\ Push(s)[1] = now
      /\ \A i \in 1 .. Len(s) : Push(s)[i + 1] = s[i]
  BY <1>1 DEF Push
<1>3. \A k \in DOMAIN Push(s) : k = 1 \/ (k - 1 \in 1 .. Len(s) /\ Push(s)[k] = s[k - 1])
  <2> TAKE k \in DOMAIN Push(s)
  <2>1. k \in 1 .. Len(s) + 1
    BY <1>2
  <2>2. CASE k = 1
    BY <2>2
  <2>3. CASE k # 1
    <3>1. k - 1 \in 1 .. Len(s) /\ (k - 1) + 1 = k
      BY <1>1, <2>1, <2>3
    <3> QED BY <1>2, <3>1
  <2> QED BY <2>2, <2>3
<1>4. \A k \in DOMAIN Push(s) : Push(s)[k] <= now
  <2> TAKE k \in DOMAIN Push(s)
  <2>1. CASE k = 1
    BY <1>2, <2>1 DEF Time
  <2>2. CASE k # 1
    BY <1>1, <1>3, <2>2 DEF ListInv
  <2> QED BY <2>1, <2>2
<1>5. \A i, j \in DOMAIN Push(s) : i <= j => Push(s)[i] >= Push(s)[j]
  <2> SUFFICES ASSUME NEW i \in DOMAIN Push(s), NEW j \in DOMAIN Push(s), i <= j
               PROVE  Push(s)[i] >= Push(s)[j]
    OBVIOUS
  <2>0. i \in 1 .. Len(s) + 1 /\ j \in 1 .. Len(s) + 1 /\ Push(s)[j] \in Time
    BY <1>2
  <2>1. CASE i = 1
    BY <1>2, <1>4, <2>1, <2>0 DEF Time
  <2>2. CASE i # 1
    <3>1. /\ i - 1 \in 1 .. Len(s) /\ j - 1 \in 1 .. Len(s) /\ i - 1 <= j - 1
          /\ Push(s)[i] = s[i - 1] /\ Push(s)[j] = s[j - 1]
      BY <1>1, <1>3, <2>0, <2>2
    <3> QED BY <1>1, <3>1 DEF ListInv
  <2> QED BY <2>1, <2>2
<1>6. Len(Push(s)) <= MaxDots
  BY <1>1, <1>2
<1> QED BY <1>2, <1>4, <1>5, <1>6 DEF ListInv

-----------------------------------------------------------------------------
(* The inductive invariant.                                                 *)

IInv ==
    /\ TypeOK
    /\ ListInv(sampleData)
    /\ DiagramIsLive

LEMMA MyDrawKeeps ==
    ASSUME IInv, NEW ty \in ChartType, MyDraw(ty), now' = now
    PROVE  /\ ListInv(sampleData)'
           /\ picture' \in [style : Drawn, dots : Seq(0 .. MaxTime)]
<1>1. sampleData \in Seq(Time)
  BY DEF IInv, ListInv
<1>2. PICK n \in 0 .. Len(sampleData) : InWindow(sampleData) = Newest(sampleData, n)
  BY <1>1, InWindowPrefix
<1>3. ListInv(InWindow(sampleData))
  BY <1>2, NewestKeeps DEF IInv
<1>4. sampleData' = InWindow(sampleData)
  BY DEF MyDraw
<1>5. ListInv(sampleData)'
  BY <1>3, <1>4 DEF ListInv
<1>6. InWindow(sampleData) \in Seq(0 .. MaxTime)
  BY <1>3 DEF ListInv, Time
<1>7. Style(ty) \in Drawn
  BY DEF Style, Drawn
<1>8. picture' = [style |-> Style(ty), dots |-> InWindow(sampleData)]
  BY DEF MyDraw
<1> QED BY <1>5, <1>6, <1>7, <1>8

LEMMA Inductive == IInv /\ [Next]_vars => IInv'
<1> SUFFICES ASSUME IInv, [Next]_vars PROVE IInv'
  OBVIOUS
<1> USE DEF IInv, DiagramIsLive
<1>0. now \in Time /\ type \in ChartType
  BY DEF TypeOK, Time
<1>t. ListInv(sampleData)' => sampleData' \in Seq(0 .. MaxTime)
  BY DEF ListInv, Time
<1>u. ASSUME now' = now, sampleData' = sampleData PROVE ListInv(sampleData)'
  BY <1>u DEF ListInv
<1>1. CASE AddData
  <2>1. Len(sampleData) <= MaxDots /\ sampleData \in Seq(Time)
    BY DEF ListInv
  <2>2. PICK n \in 0 .. Len(sampleData) :
            Trim(sampleData) = Newest(sampleData, n) /\ n < MaxDots
    BY <2>1, TrimPrefix
  <2>3. ListInv(Trim(sampleData)) /\ Len(Trim(sampleData)) < MaxDots
    BY <2>1, <2>2, NewestKeeps, NewestFacts
  <2>4. ListInv(Push(Trim(sampleData)))
    BY <1>0, <2>3, PushKeeps
  <2>5. ListInv(sampleData)'
    BY <1>1, <2>4 DEF AddData, ListInv
  <2>6. DiagramIsLive' /\ visible' \in BOOLEAN /\ isIdle' \in BOOLEAN /\ timer' \in BOOLEAN
    BY <1>1 DEF AddData, SetIdle, TypeOK, Drawn
  <2> QED BY <1>1, <1>t, <2>5, <2>6 DEF AddData, TypeOK
<1>2. CASE Jiffies
  <2>1. ListInv(sampleData)' /\ picture' \in [style : Drawn, dots : Seq(0 .. MaxTime)]
    BY <1>0, <1>2, MyDrawKeeps DEF Jiffies
  <2> QED BY <1>2, <1>t, <2>1 DEF Jiffies, TypeOK
<1>3. CASE ColorChanged
  <2>1. ListInv(sampleData)' /\ picture' \in [style : Drawn, dots : Seq(0 .. MaxTime)]
    BY <1>0, <1>3, MyDrawKeeps DEF ColorChanged
  <2> QED BY <1>3, <1>t, <2>1 DEF ColorChanged, TypeOK
<1>4. CASE DataSrcOn
  BY <1>4, <1>u DEF DataSrcOn, SetIdle, TypeOK
<1>5. CASE DataSrcOff
  BY <1>5, <1>u DEF DataSrcOff, SetIdle, TypeOK
<1>6. ASSUME NEW ty \in ChartType, SelectDrawn(ty) PROVE IInv'
  <2>1. ListInv(sampleData)' /\ picture' \in [style : Drawn, dots : Seq(0 .. MaxTime)]
    BY <1>6, MyDrawKeeps DEF SelectDrawn
  <2>2. DiagramIsLive' /\ visible' \in BOOLEAN /\ isIdle' \in BOOLEAN /\ timer' \in BOOLEAN
    BY <1>6 DEF SelectDrawn, SetIdle, TypeOK
  <2> QED BY <1>6, <1>t, <2>1, <2>2 DEF SelectDrawn, TypeOK
<1>7. ASSUME NEW ty \in ChartType, SelectUndrawn(ty) PROVE IInv'
  BY <1>7, <1>u DEF SelectUndrawn, TypeOK
<1>8. CASE SetUpdateCycle
  BY <1>8, <1>u DEF SetUpdateCycle, TypeOK
<1>9. CASE Tick
  <2>1. ListInv(sampleData)'
    <3>1. sampleData \in Seq(Time) /\ sampleData' = sampleData /\ now' = now + 1
      BY <1>9 DEF Tick, ListInv
    <3>2. \A i \in DOMAIN sampleData : sampleData[i] <= now + 1
      <4> TAKE i \in DOMAIN sampleData
      <4>1. sampleData[i] \in Time /\ sampleData[i] <= now
        BY <3>1 DEF ListInv
      <4> QED BY <4>1, <1>0 DEF Time
    <3> QED BY <3>1, <3>2 DEF ListInv
  <2> QED BY <1>9, <2>1, BoundAssumption DEF Tick, TypeOK
<1>10. CASE UNCHANGED vars
  BY <1>10, <1>u DEF vars, TypeOK
<1> QED BY <1>1, <1>2, <1>3, <1>4, <1>5, <1>6, <1>7, <1>8, <1>9, <1>10 DEF Next

LEMMA Initial == Init => IInv
<1> SUFFICES ASSUME Init PROVE IInv
  OBVIOUS
<1>1. <<>> \in Seq(Time) /\ <<>> \in Seq(0 .. MaxTime) /\ DOMAIN <<>> = {} /\ Len(<<>>) = 0
  OBVIOUS
<1>2. ListInv(sampleData)
  BY <1>1, BoundAssumption DEF Init, ListInv
<1>3. picture \in [style : Drawn, dots : Seq(0 .. MaxTime)]
  BY <1>1 DEF Init, Drawn
<1>4. TypeOK
  <2>1. now \in 0 .. MaxTime
    BY BoundAssumption DEF Init
  <2>2. sampleData \in Seq(0 .. MaxTime)
    BY <1>1 DEF Init
  <2>3. type \in ChartType
    BY DEF Init, ChartType, Drawn
  <2>4. isIdle \in BOOLEAN /\ visible \in BOOLEAN /\ timer \in BOOLEAN
    BY DEF Init
  <2> QED BY <1>3, <2>1, <2>2, <2>3, <2>4 DEF TypeOK
<1>5. DiagramIsLive
  BY DEF Init, DiagramIsLive
<1> QED BY <1>2, <1>4, <1>5 DEF IInv

LEMMA Invariant == Spec => []IInv
BY Initial, Inductive, PTL DEF Spec

\* Every variable keeps its type.
THEOREM TypeCorrect == Spec => []TypeOK
<1>1. IInv => TypeOK
  BY DEF IInv
<1> QED BY <1>1, Invariant, PTL

\* addData never lets the list outgrow maxDots.
THEOREM SizeCorrect == Spec => []WithinMaxDots
<1>1. IInv => WithinMaxDots
  BY DEF IInv, ListInv, WithinMaxDots
<1> QED BY <1>1, Invariant, PTL

\* The list stays in the order on which the drawing loops rely.
THEOREM OrderCorrect == Spec => []NewestFirst
<1>1. IInv => NewestFirst
  BY DEF IInv, ListInv, NewestFirst
<1> QED BY <1>1, Invariant, PTL

\* No order of the slots leaves a diagram hidden or without an active timer.
THEOREM LiveCorrect == Spec => []DiagramIsLive
<1>1. IInv => DiagramIsLive
  BY DEF IInv
<1> QED BY <1>1, Invariant, PTL

\* Within a day the time of day is the time.
LEMMA SameDay ==
    ASSUME MaxTime < Day, NEW t \in Time
    PROVE  TimeOfDay(t) = t
<1>1. t \in Nat /\ t < Day /\ Day \in Nat \ {0}
  BY BoundAssumption DEF Time
<1> QED BY <1>1 DEF TimeOfDay

\* Where the order of the list is that of its times, the loops stop at the
\* border between the samples of the window and the old ones.
LEMMA DrawsTheWindow ==
    ASSUME MaxTime < Day, now \in Time, NEW s, ListInv(s)
    PROVE  \E n \in 0 .. Len(s) :
               /\ InWindow(s) = Newest(s, n)
               /\ \A k \in DOMAIN s : now - s[k] <= Window <=> k <= n
<1> DEFINE old == {k \in DOMAIN s : ~Shown(s[k])}
           first == CHOOSE k \in old : \A j \in old : k <= j
<1>1. s \in Seq(Time) /\ DOMAIN s = 1 .. Len(s)
  BY DEF ListInv
<1>2. \A k \in DOMAIN s : Shown(s[k]) <=> now - s[k] <= Window
  <2> TAKE k \in DOMAIN s
  <2>1. s[k] \in Time
    BY <1>1
  <2>2. TimeOfDay(s[k]) = s[k] /\ TimeOfDay(now) = now
    BY <2>1, SameDay
  <2> QED BY <2>2 DEF Shown, Age
<1>3. CASE old = {}
  <2>1. s = Newest(s, Len(s))
    BY <1>1 DEF Newest
  <2>2. \A k \in DOMAIN s : now - s[k] <= Window /\ k <= Len(s)
    BY <1>1, <1>2, <1>3
  <2> QED BY <1>1, <1>3, <2>1, <2>2 DEF InWindow
<1>4. CASE old # {}
  <2>1. /\ first \in old /\ \A j \in old : first <= j
        /\ old \subseteq 1 .. Len(s)
    <3>1. old \subseteq 1 .. Len(s) /\ old \subseteq Nat
      BY <1>1
    <3> HIDE DEF old
    <3>2. \E k \in old : \A j \in old : k <= j
      BY <1>4, <3>1, SmallestPosition
    <3> QED BY <3>1, <3>2
  <2>2. InWindow(s) = Newest(s, first - 1)
    BY <1>4 DEF InWindow
  <2>3. \A k \in DOMAIN s : k <= first - 1 => now - s[k] <= Window
    <3> SUFFICES ASSUME NEW k \in DOMAIN s, k <= first - 1 PROVE now - s[k] <= Window
      OBVIOUS
    <3>1. k \notin old
      <4> HIDE DEF old, first
      <4> QED BY <1>1, <2>1
    <3> QED BY <1>2, <3>1
  <2>4. \A k \in DOMAIN s : k >= first => ~ (now - s[k] <= Window)
    <3> SUFFICES ASSUME NEW k \in DOMAIN s, k >= first PROVE ~ (now - s[k] <= Window)
      OBVIOUS
    <3>1. first \in DOMAIN s /\ ~ (now - s[first] <= Window)
      <4>1. first \in DOMAIN s /\ ~Shown(s[first])
        BY Zenon, <2>1
      <4> HIDE DEF first
      <4> QED BY <1>2, <4>1
    <3> HIDE DEF old, first
    <3>2. s[first] >= s[k] /\ s[first] \in Time /\ s[k] \in Time
      BY <1>1, <3>1 DEF ListInv
    <3> QED BY <3>1, <3>2, BoundAssumption DEF Time
  <2> HIDE DEF old, first
  <2>5. first - 1 \in 0 .. Len(s) /\ \A k \in DOMAIN s : k <= first - 1 \/ k >= first
    BY <1>1, <2>1
  <2>6. \A k \in DOMAIN s : k <= first - 1 => ~ (k >= first)
    BY <1>1, <2>1
  <2> QED BY <2>2, <2>3, <2>4, <2>5, <2>6
<1> QED BY <1>3, <1>4

\* Within a day, drawing takes off the list what is out of the window, and
\* nothing else: the list is in order whenever a drawing loop runs, which stops
\* at the first old sample.
THEOREM DrawingCorrect ==
    ASSUME MaxTime < Day
    PROVE  Spec => RemovesExactlyOld
<1>1. IInv /\ [Next]_vars =>
          [Jiffies \/ ColorChanged =>
              \E n \in 0 .. Len(sampleData) :
                  /\ sampleData' = Newest(sampleData, n)
                  /\ \A k \in DOMAIN sampleData : now - sampleData[k] <= Window <=> k <= n]_vars
  <2> SUFFICES ASSUME IInv, Jiffies \/ ColorChanged
               PROVE  \E n \in 0 .. Len(sampleData) :
                          /\ sampleData' = Newest(sampleData, n)
                          /\ \A k \in DOMAIN sampleData : now - sampleData[k] <= Window <=> k <= n
    OBVIOUS
  <2>1. sampleData' = InWindow(sampleData)
    BY DEF Jiffies, ColorChanged, MyDraw
  <2>2. ListInv(sampleData) /\ now \in Time
    BY DEF IInv, TypeOK, Time
  <2> QED BY <2>1, <2>2, DrawsTheWindow
<1> QED BY <1>1, Invariant, PTL DEF Spec, RemovesExactlyOld

-----------------------------------------------------------------------------
(* The chart among the widgets of its source.                               *)

\* Every step of the widgets is a slot of the chart, or does not touch it.
LEMMA StepOfChart == [ScopeNext]_ScopeVars => [Next]_vars
<1> SUFFICES ASSUME [ScopeNext]_ScopeVars PROVE [Next]_vars
  OBVIOUS
<1>1. CASE UNCHANGED ScopeVars
  BY <1>1 DEF ScopeVars, vars
<1>2. CASE SourceOn
  BY <1>2 DEF SourceOn, Next
<1>3. CASE SourceOff \/ SourceBlinks
  BY <1>3 DEF SourceOff, SourceBlinks, Next
<1>4. CASE SourceFails \/ InvalidDatagram
  BY <1>4 DEF SourceFails, InvalidDatagram
<1>5. CASE SampleComes
  BY <1>5 DEF SampleComes, Next
<1>6. ASSUME NEW p \in Period, TypeRefresh(p) PROVE [Next]_vars
  BY <1>6 DEF TypeRefresh
<1>7. CASE JitterTimeout
  BY <1>7 DEF JitterTimeout, Next
<1>8. CASE Redraw
  BY <1>8 DEF Redraw, Next
<1>9. CASE ChartOnly
  BY <1>9 DEF ChartOnly, Next
<1> QED BY <1>1, <1>2, <1>3, <1>4, <1>5, <1>6, <1>7, <1>8, <1>9 DEF ScopeNext

\* A chart among the widgets of its source behaves as FyyChart says.
THEOREM ImplementsChart == ScopeSpec => Spec
<1>1. ScopeInit => Init
  BY DEF ScopeInit
<1> QED BY <1>1, StepOfChart, PTL DEF ScopeSpec, Spec

ScopeInv == ScopeTypeOK /\ ScreenTellsSource

LEMMA ScopeInductive ==
    TypeOK' /\ ScopeInv /\ [ScopeNext]_ScopeVars => ScopeInv'
<1> SUFFICES ASSUME TypeOK', ScopeInv, [ScopeNext]_ScopeVars PROVE ScopeInv'
  OBVIOUS
<1> USE DEF ScopeInv, ScopeTypeOK, ScreenTellsSource, WhileUp, WhileDown, refresh
<1>1. CASE UNCHANGED ScopeVars
  BY <1>1 DEF ScopeVars, vars
<1>2. CASE SourceOn
  BY <1>2 DEF SourceOn, DataSrcOn, SetIdle
<1>3. CASE SourceOff
  BY <1>3 DEF SourceOff, DataSrcOff, SetIdle
<1>4. CASE SourceBlinks
  BY <1>4 DEF SourceBlinks, DataSrcOff, SetIdle
<1>5. CASE SourceFails \/ InvalidDatagram
  <2>1. CASE SourceFails
    BY <2>1 DEF SourceFails, vars
  <2>2. CASE InvalidDatagram
    BY <2>2 DEF InvalidDatagram, vars
  <2> QED BY <1>5, <2>1, <2>2
<1>6. CASE SampleComes
  BY <1>6 DEF SampleComes, AddData, SetIdle
<1>7. ASSUME NEW p \in Period, TypeRefresh(p) PROVE ScopeInv'
  BY <1>7 DEF TypeRefresh, vars
<1>8. CASE JitterTimeout
  BY <1>8 DEF JitterTimeout, SetUpdateCycle
<1>9. CASE Redraw
  BY <1>9 DEF Redraw, Jiffies
<1>10. CASE ChartOnly
  <2>1. isIdle' = isIdle
    <3>1. CASE ColorChanged \/ Tick
      BY <3>1 DEF ColorChanged, Tick
    <3>2. ASSUME NEW ty \in ChartType, SelectDrawn(ty) \/ SelectUndrawn(ty)
          PROVE  isIdle' = isIdle
      BY <3>2 DEF SelectDrawn, SelectUndrawn, SetIdle
    <3> QED BY <1>10, <3>1, <3>2 DEF ChartOnly
  <2> QED BY <1>10, <2>1 DEF ChartOnly
<1> QED BY <1>1, <1>2, <1>3, <1>4, <1>5, <1>6, <1>7, <1>8, <1>9, <1>10 DEF ScopeNext


\* The invariant of the chart and of the widgets around it.
LEMMA ScopeInvariant == ScopeSpec => []ScopeInv
<1>1. ScopeInit /\ TypeOK => ScopeInv
  BY DEF ScopeInit, Init, ScopeInv, ScopeTypeOK, ScreenTellsSource, WhileUp, WhileDown, Period
<1>2. ScopeSpec => []TypeOK
  BY ImplementsChart, TypeCorrect, PTL
<1> QED BY <1>1, <1>2, ScopeInductive, PTL DEF ScopeSpec

\* Types of the chart, the board and the refresh period.
THEOREM ScopeTypeCorrect == ScopeSpec => []ScopeTypeOK
<1>1. ScopeInv => ScopeTypeOK
  BY DEF ScopeInv
<1> QED BY <1>1, ScopeInvariant, PTL

\* For every order of signals, selections and refresh periods, the chart is
\* idle exactly while the source is down, and the board says so.
THEOREM ScreenCorrect == ScopeSpec => []ScreenTellsSource
<1>1. ScopeInv => ScreenTellsSource
  BY DEF ScopeInv
<1> QED BY <1>1, ScopeInvariant, PTL

\* The list keeps its bound and its order, and every diagram an active timer, whatever
\* the source, the indicator and the refresh period do.
THEOREM ChartCorrect == ScopeSpec => [](WithinMaxDots /\ NewestFirst /\ DiagramIsLive)
BY ImplementsChart, SizeCorrect, OrderCorrect, LiveCorrect, PTL

\* So does the drawing within a day, whoever asks for it.
THEOREM RedrawCorrect ==
    ASSUME MaxTime < Day
    PROVE  ScopeSpec => RemovesExactlyOld
BY ImplementsChart, DrawingCorrect, PTL
=============================================================================
