------------------------------- MODULE FyyChart -------------------------------
(***************************************************************************)
(* A chart of the oscillometer: class dataChart of                         *)
(* client/fyyoscillometer/src/fyymon.cc, with the slots that its channel,  *)
(* its indicator and FyyMon call.  All run on the GUI thread, one at a     *)
(* time.                                                                   *)
(*                                                                         *)
(* sampleData holds the samples newest first, each with the time of day at *)
(* which it came.  The age of a sample is QTime's: the difference of two   *)
(* times of day, which is negative for a sample of the day before.  Time   *)
(* passes in ticks; a tick is also the unit of the window, the width of    *)
(* the chart in time.                                                      *)
(***************************************************************************)
EXTENDS Integers, Sequences

CONSTANTS
    MaxDots,   \* maxDots: samples a chart holds
    Window,    \* width() / msecondSpace: the time the chart shows
    Day,       \* ticks of a day
    MaxTime    \* bound: ticks of a behaviour

ASSUME BoundAssumption ==
    /\ MaxDots \in Nat \ {0} /\ Window \in Nat /\ Day \in Nat \ {0} /\ MaxTime \in Nat
    /\ Window < Day

VARIABLES
    now,          \* ticks since a midnight
    sampleData,   \* arrival times of the samples, newest first
    type,         \* ChartType
    isIdle,
    visible,      \* isVisible() of the widget
    timer,        \* timer->isActive()
    picture       \* paintPicture: [style, dots]

vars == <<now, sampleData, type, isIdle, visible, timer, picture>>

\* The types the indicator can select: meterType is not offered.
Drawn == {"dot", "line", "pillar"}
ChartType == Drawn \cup {"freeze", "hide"}

TypeOK ==
    /\ now \in 0 .. MaxTime
    /\ sampleData \in Seq(0 .. MaxTime)
    /\ type \in ChartType
    /\ isIdle \in BOOLEAN /\ visible \in BOOLEAN /\ timer \in BOOLEAN
    /\ picture \in [style : Drawn, dots : Seq(0 .. MaxTime)]

\* dataChart::init, then FyyMon::connectChart.
Init ==
    /\ now = 0 /\ sampleData = <<>> /\ type = "dot"
    /\ isIdle = TRUE /\ visible = FALSE /\ timer = FALSE
    /\ picture = [style |-> "dot", dots |-> <<>>]

-----------------------------------------------------------------------------
(* Drawing.                                                                 *)

TimeOfDay(t) == t % Day
Age(t) == TimeOfDay(now) - TimeOfDay(t)      \* QTime::msecsTo
Shown(t) == Age(t) <= Window

Newest(s, n) == SubSeq(s, 1, n)

\* The loops of drawDot, drawLine and drawPillar stop at the first sample
\* that is out of the window and take it and all behind it off the list.
InWindow_OneMore(s) ==
    LET old == {k \in DOMAIN s : ~Shown(s[k])}
    IN  IF old = {} THEN s
        ELSE Newest(s, CHOOSE k \in old : \A j \in old : k <= j)

InWindow(s) ==
    LET old == {k \in DOMAIN s : ~Shown(s[k])}
    IN  IF old = {} THEN s
        ELSE Newest(s, (CHOOSE k \in old : \A j \in old : k <= j) - 1)

Style_NoDefault(ty) == ty

\* A chart that is frozen or hidden falls into the default of the switch.
Style(ty) == IF ty \in Drawn THEN ty ELSE "dot"

MyDraw(ty) ==
    /\ sampleData' = InWindow(sampleData)
    /\ picture' = [style |-> Style(ty), dots |-> InWindow(sampleData)]

SetIdle(on) ==
    /\ visible' = ~on
    /\ isIdle' = on
    /\ timer' = ~on

-----------------------------------------------------------------------------
(* The slots.                                                               *)

Trim_OneLate(s) == IF Len(s) > MaxDots THEN Newest(s, MaxDots) ELSE s

\* addData removes samples from the end until it has room for one more.
Trim(s) == IF Len(s) >= MaxDots THEN Newest(s, MaxDots - 1) ELSE s

Push_Back(s) == Append(s, now)

Push(s) == <<now>> \o s

AddData ==
    /\ sampleData' = Push(Trim(sampleData))
    /\ IF isIdle /\ type # "freeze"
       THEN SetIdle(FALSE)
       ELSE UNCHANGED <<visible, isIdle, timer>>
    /\ UNCHANGED <<now, type, picture>>

\* The timer's timeout.  The result of addMSecs is not used: the times stay.
Jiffies ==
    /\ timer
    /\ MyDraw(type)
    /\ UNCHANGED <<now, type, isIdle, visible, timer>>

ColorChanged ==
    /\ MyDraw(type)
    /\ UNCHANGED <<now, type, isIdle, visible, timer>>

DataSrcOn ==
    /\ SetIdle(FALSE)
    /\ UNCHANGED <<now, sampleData, type, picture>>

\* Also disconnectChart.
DataSrcOff ==
    /\ SetIdle(TRUE)
    /\ UNCHANGED <<now, sampleData, type, picture>>

SelectDrawn_NoRestart(ty) ==
    /\ ty \in Drawn \ {type}
    /\ type' = ty
    /\ MyDraw(ty)
    /\ UNCHANGED <<now, visible, isIdle, timer>>

\* chartTypeChanged; the combo box tells of changes only.
SelectDrawn(ty) ==
    /\ ty \in Drawn \ {type}
    /\ type' = ty
    /\ MyDraw(ty)
    /\ IF isIdle THEN UNCHANGED <<visible, isIdle, timer>> ELSE SetIdle(FALSE)
    /\ UNCHANGED now

\* hideChart falls through to freezeChart.
SelectUndrawn(ty) ==
    /\ ty \in ChartType \ (Drawn \cup {type})
    /\ type' = ty
    /\ visible' = (visible /\ ty # "hide")
    /\ timer' = FALSE
    /\ UNCHANGED <<now, sampleData, isIdle, picture>>

\* FyyMon::setFramePeriod starts the timer of every chart.
SetUpdateCycle ==
    /\ timer' = TRUE
    /\ UNCHANGED <<now, sampleData, type, isIdle, visible, picture>>

Tick ==
    /\ now < MaxTime /\ now' = now + 1
    /\ UNCHANGED <<sampleData, type, isIdle, visible, timer, picture>>

Next ==
    \/ AddData \/ Jiffies \/ ColorChanged \/ DataSrcOn \/ DataSrcOff
    \/ \E ty \in ChartType : SelectDrawn(ty) \/ SelectUndrawn(ty)
    \/ SetUpdateCycle \/ Tick

Spec == Init /\ [][Next]_vars

-----------------------------------------------------------------------------
(* Properties.                                                              *)

\* addData never lets the list grow past maxDots.
WithinMaxDots == Len(sampleData) <= MaxDots

\* The list is in order, newest first: the drawing loops, which stop at the
\* first old sample, rely on it.
NewestFirst ==
    \A i, j \in DOMAIN sampleData : i <= j => sampleData[i] >= sampleData[j]

\* fyymon.cc:129, 172, 203: drawing removes the items that are not within
\* the time range, and only those.
RemovesExactlyOld ==
    [][Jiffies \/ ColorChanged =>
          \E n \in 0 .. Len(sampleData) :
              /\ sampleData' = Newest(sampleData, n)
              /\ \A k \in DOMAIN sampleData : now - sampleData[k] <= Window <=> k <= n]_vars

\* A chart whose source is off is never on the screen, and one that shows a
\* type of diagram while its source is on is on the screen with a timer that
\* isActive(), whatever the order of freezing, hiding, disconnecting and new
\* refresh periods.  An active timer fires unless its period is negative: a
\* diagram that stands still for that reason is not seen here.
DiagramIsLive ==
    /\ visible => ~isIdle
    /\ type \in Drawn /\ ~isIdle => visible /\ timer
=============================================================================
