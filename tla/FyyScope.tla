------------------------------- MODULE FyyScope -------------------------------
(***************************************************************************)
(* The widgets that FyyOscimeter binds to one signal source               *)
(* (client/fyyoscillometer/src/fyyosimeter.cc): its chart, its state board *)
(* (fyystateboard.cc), and the refresh period that FyyMon sets for all     *)
(* charts.  The source appears by its signals; that dataSrcReady and       *)
(* dataSrcUnReady tell whether its socket is up is SignalsTellState of     *)
(* FyyChannel.                                                             *)
(*                                                                         *)
(* A connection that is wanted no more when it is made emits connected()   *)
(* and disconnected() in a row (SourceBlinks).  syncUpdateFrame only       *)
(* shifts the phase of timers that run and is not shown.                   *)
(***************************************************************************)
EXTENDS FyyChart

VARIABLES
    up,       \* the socket of the source is connected
    board,    \* stateLabel of the state board
    period,   \* updateCycle of the charts: whether it is negative
    typed,    \* the same of the number in refreshConf
    jitter    \* jitterTimer.isActive()

refresh == <<period, typed, jitter>>
ScopeVars == <<vars, up, board, refresh>>

\* QIntValidator has no bounds: it lets a minus sign pass.  A period of zero,
\* which is also that of an empty text, redraws all the time.
Period == {"negative", "not negative"}

WhileUp == {"Connected", "Sampling", "invalid datagram"}
WhileDown == {"Offline", "Connection closed", "error"}

ScopeTypeOK ==
    /\ TypeOK
    /\ up \in BOOLEAN /\ board \in WhileUp \cup WhileDown
    /\ period \in Period /\ typed \in Period /\ jitter \in BOOLEAN

ScopeInit ==
    /\ Init
    /\ up = FALSE /\ board = "Offline"
    /\ period = "not negative" /\ typed = "not negative" /\ jitter = FALSE

-----------------------------------------------------------------------------
(* Signals of the source.                                                   *)

SourceOn ==
    /\ ~up /\ up' = TRUE
    /\ board' = "Connected"
    /\ DataSrcOn
    /\ UNCHANGED refresh

SourceOff_BoardUntold ==
    /\ up /\ up' = FALSE
    /\ DataSrcOff
    /\ UNCHANGED <<board, refresh>>

\* disConnectedState, then netUnReady.
SourceOff ==
    /\ up /\ up' = FALSE
    /\ board' = "Connection closed"
    /\ DataSrcOff
    /\ UNCHANGED refresh

\* dataSrcOn and dataSrcOff of the chart in one step.
SourceBlinks ==
    /\ ~up
    /\ board' = "Connection closed"
    /\ DataSrcOff
    /\ UNCHANGED <<up, refresh>>

SourceFails ==
    /\ ~up
    /\ board' = "error"
    /\ UNCHANGED <<vars, up, refresh>>

SampleComes ==
    /\ up
    /\ board' = "Sampling"
    /\ AddData
    /\ UNCHANGED <<up, refresh>>

InvalidDatagram ==
    /\ up
    /\ board' = "invalid datagram"
    /\ UNCHANGED <<vars, up, refresh>>

-----------------------------------------------------------------------------
(* FyyMon, the indicator, and time.                                         *)

\* refreshConfChanged starts the jitter timer anew.
TypeRefresh(p) ==
    /\ typed' = p /\ jitter' = TRUE
    /\ UNCHANGED <<vars, up, board, period>>

\* updateRefreshPeriod, when nothing was typed for a while.
JitterTimeout ==
    /\ jitter /\ jitter' = FALSE
    /\ period' = typed
    /\ SetUpdateCycle
    /\ UNCHANGED <<typed, up, board>>

\* A timer that was started with a negative interval never fires.
Redraw ==
    /\ period # "negative"
    /\ Jiffies
    /\ UNCHANGED <<up, board, refresh>>

ChartOnly ==
    /\ \/ ColorChanged \/ Tick
       \/ \E ty \in ChartType : SelectDrawn(ty) \/ SelectUndrawn(ty)
    /\ UNCHANGED <<up, board, refresh>>

ScopeNext ==
    \/ SourceOn \/ SourceOff \/ SourceBlinks \/ SourceFails
    \/ SampleComes \/ InvalidDatagram
    \/ \E p \in Period : TypeRefresh(p)
    \/ JitterTimeout \/ Redraw \/ ChartOnly

ScopeSpec == ScopeInit /\ [][ScopeNext]_ScopeVars

\* A timer that runs fires in the end.
FairScope == ScopeSpec /\ WF_ScopeVars(Redraw)

-----------------------------------------------------------------------------
(* Properties.                                                              *)

\* The chart and the state board agree with the source and with each other
\* after any order of its signals: the chart is idle exactly while the source
\* is down, and the board shows a state of a connection exactly while it is up.
ScreenTellsSource ==
    /\ isIdle = ~up
    /\ board \in WhileUp <=> up

Stale == picture.dots # InWindow(sampleData)

\* A diagram of a source that is on is brought up to date again and again,
\* whatever was selected, typed and received before, unless the period that
\* was typed is negative: the timers then count as active and never fire.
DiagramRedraws ==
    (type \in Drawn /\ ~isIdle /\ Stale)
        ~> (~Stale \/ type \notin Drawn \/ isIdle \/ period = "negative")
=============================================================================
