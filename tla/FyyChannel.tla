------------------------------ MODULE FyyChannel ------------------------------
(***************************************************************************)
(* A signal source of the oscillometer: class FyyCH with the dialog that   *)
(* configures it (client/fyyoscillometer/src/fyych.cc) and its socket,     *)
(* class FyyNet (fyynet.cc).  All slots run on the GUI thread.             *)
(*                                                                         *)
(* mouseReleaseEvent runs the dialog in an event loop of its own: the      *)
(* slots of the socket and of the timer run while it is open.  The OK      *)
(* button's setConf stores the settings and asks that loop to end; what    *)
(* mouseReleaseEvent does with them is a later step (Apply).  Whether the  *)
(* loop still delivers an event in between depends on the event dispatcher *)
(* of the Qt build: WindowEvents.                                          *)
(*                                                                         *)
(* QTcpSocket is external: the record net holds its state, and the         *)
(* operators on it say what the calls of fyynet.cc do.  A datagram is      *)
(* never split: framing is not a subject of this module.                   *)
(***************************************************************************)
EXTENDS Integers, Sequences

CONSTANTS
    Host,          \* addresses (with their ports) the user may enter
    FirstHost,     \* QHostAddress::LocalHost, SERVPORT
    ChannelText,   \* numbers the user may enter as channel
    Channels,      \* values of a quint8
    WindowEvents,  \* events are delivered between setConf and Apply
    MaxBuf         \* bound: datagrams in a buffer

ASSUME ChannelAssumption ==
    /\ FirstHost \in Host
    /\ ChannelText \subseteq Nat /\ 0 \in ChannelText
    /\ Channels \in Nat \ {0}
    /\ WindowEvents \in BOOLEAN
    /\ MaxBuf \in Nat

VARIABLES
    net,            \* the socket
    dialog,         \* "none", "open", "accepted": OK was pressed
    targetHost,
    targetHostCh,
    allowConnect,
    reConnect,
    sampleTimer,    \* sampleTimer->isActive()
    srcOn,          \* dataSrcReady was emitted after the last dataSrcUnReady
    shown           \* the sample dataReady carried in this step, if any

vars == <<net, dialog, targetHost, targetHostCh, allowConnect, reConnect,
          sampleTimer, srcOn, shown>>

Ch == 0 .. Channels - 1
Reply == [ch : Ch, valid : BOOLEAN]
Sample == [host : Host, ch : Ch]

Net == [state : {"unconnected", "connecting", "connected", "closing"},
        peer : Host,              \* whom it connects to
        pendingClose : BOOLEAN,   \* disconnectFromHost while connecting
        wbuf : Seq(Ch),           \* requests that are written, not sent
        asked : Seq(Ch),          \* requests that the server has to answer
        rbuf : Seq(Reply)]        \* replies that are received, not read

TypeOK ==
    /\ net \in Net
    /\ dialog \in {"none", "open", "accepted"}
    /\ targetHost \in Host /\ targetHostCh \in Ch
    /\ allowConnect \in BOOLEAN /\ reConnect \in BOOLEAN
    /\ sampleTimer \in BOOLEAN /\ srcOn \in BOOLEAN
    /\ shown \subseteq Sample

\* FyyCH::init.
Init ==
    /\ net = [state |-> "unconnected", peer |-> FirstHost, pendingClose |-> FALSE,
              wbuf |-> <<>>, asked |-> <<>>, rbuf |-> <<>>]
    /\ dialog = "none"
    /\ targetHost = FirstHost /\ targetHostCh = 0
    /\ allowConnect = FALSE /\ reConnect = TRUE
    /\ sampleTimer = FALSE /\ srcOn = FALSE /\ shown = {}

-----------------------------------------------------------------------------
(* The calls of the socket.                                                 *)

IsUp(n) == n.state \in {"connected", "closing"}

Reset(n, state, peer) ==
    [state |-> state, peer |-> peer, pendingClose |-> FALSE,
     wbuf |-> <<>>, asked |-> <<>>, rbuf |-> <<>>]

Abort(n) == Reset(n, "unconnected", n.peer)

\* disconnectFromHost: waits for the connection, then for what is written.
DisconnectFromHost(n) ==
    CASE n.state = "unconnected" -> n
      [] n.state = "connecting"  -> [n EXCEPT !.pendingClose = TRUE]
      [] IsUp(n) /\ n.wbuf # <<>> -> [n EXCEPT !.state = "closing"]
      [] OTHER -> Abort(n)

\* disconnected() is emitted when a connection goes down, by itself or to make
\* room for the next.
GoesDown(n, m) == IsUp(n) /\ ~IsUp(m)

\* netUnReady sets the flag and emits dataSrcUnReady.
UnReady(n, m) ==
    /\ reConnect' = (reConnect \/ GoesDown(n, m))
    /\ srcOn' = (srcOn /\ ~GoesDown(n, m))

-----------------------------------------------------------------------------
(* The dialog.                                                              *)

OpenDialog ==
    /\ dialog = "none" /\ dialog' = "open"
    /\ shown' = {}
    /\ UNCHANGED <<net, targetHost, targetHostCh, allowConnect, reConnect, sampleTimer, srcOn>>

Reject ==
    /\ dialog = "open" /\ dialog' = "none"
    /\ shown' = {}
    /\ UNCHANGED <<net, targetHost, targetHostCh, allowConnect, reConnect, sampleTimer, srcOn>>

SetConf_NoFlag(h, text, allow) ==
    /\ dialog = "open" /\ dialog' = "accepted"
    /\ targetHost' = h
    /\ targetHostCh' = text % Channels
    /\ allowConnect' = allow
    /\ shown' = {}
    /\ UNCHANGED <<net, reConnect, sampleTimer, srcOn>>

SetConf_WideChannel(h, text, allow) ==
    /\ dialog = "open" /\ dialog' = "accepted"
    /\ targetHost' = h
    /\ reConnect' = (reConnect \/ h # targetHost)
    /\ targetHostCh' = text
    /\ allowConnect' = allow
    /\ shown' = {}
    /\ UNCHANGED <<net, sampleTimer, srcOn>>

\* setConf with texts that are valid, and the setters of FyyCH it calls.  The
\* number of the channel is cut to a quint8.
SetConf(h, text, allow) ==
    /\ dialog = "open" /\ dialog' = "accepted"
    /\ targetHost' = h
    /\ reConnect' = (reConnect \/ h # targetHost)
    /\ targetHostCh' = text % Channels
    /\ allowConnect' = allow
    /\ shown' = {}
    /\ UNCHANGED <<net, sampleTimer, srcOn>>

Apply_NoDisconnect ==
    /\ dialog = "accepted" /\ dialog' = "none"
    /\ IF allowConnect /\ reConnect
       THEN net' = Reset(net, "connecting", targetHost)
       ELSE net' = net
    /\ UnReady(net, net')
    /\ shown' = {}
    /\ UNCHANGED <<targetHost, targetHostCh, allowConnect, sampleTimer>>

\* mouseReleaseEvent after exec: updateAddressPort disconnects, reConnectNet
\* aborts what that left and connects.
Apply ==
    /\ dialog = "accepted" /\ dialog' = "none"
    /\ \/ /\ allowConnect /\ reConnect
          /\ net' = Reset(net, "connecting", targetHost)
       \/ /\ allowConnect /\ ~reConnect
          /\ net' = net
       \/ /\ ~allowConnect
          /\ net' = DisconnectFromHost(net)
    /\ UnReady(net, net')
    /\ shown' = {}
    /\ UNCHANGED <<targetHost, targetHostCh, allowConnect, sampleTimer>>

-----------------------------------------------------------------------------
(* Events of the socket and of the timer.                                   *)

Delivered == dialog = "accepted" => WindowEvents

\* connected(): netReady, and then the disconnectFromHost that was asked for
\* while connecting.
Connected ==
    /\ Delivered /\ net.state = "connecting"
    /\ IF net.pendingClose
       THEN net' = Abort(net) /\ reConnect' = TRUE /\ srcOn' = FALSE
       ELSE net' = [net EXCEPT !.state = "connected"] /\ reConnect' = FALSE /\ srcOn' = TRUE
    /\ sampleTimer' = TRUE
    /\ shown' = {}
    /\ UNCHANGED <<dialog, targetHost, targetHostCh, allowConnect>>

ConnectFails ==
    /\ Delivered /\ net.state = "connecting"
    /\ net' = Abort(net)
    /\ shown' = {}
    /\ UNCHANGED <<dialog, targetHost, targetHostCh, allowConnect, reConnect, sampleTimer, srcOn>>

RemoteClose_Unseen ==
    /\ Delivered /\ IsUp(net)
    /\ net' = Abort(net)
    /\ shown' = {}
    /\ UNCHANGED <<dialog, targetHost, targetHostCh, allowConnect, reConnect, sampleTimer, srcOn>>

RemoteClose ==
    /\ Delivered /\ IsUp(net)
    /\ net' = Abort(net)
    /\ UnReady(net, net')
    /\ shown' = {}
    /\ UNCHANGED <<dialog, targetHost, targetHostCh, allowConnect, sampleTimer>>

\* getData; the timer is never stopped, and a socket that is not connected
\* ignores it.
SampleTimeout ==
    /\ Delivered /\ sampleTimer
    /\ net.state = "connected" /\ Len(net.wbuf) < MaxBuf
    /\ net' = [net EXCEPT !.wbuf = Append(@, targetHostCh)]
    /\ shown' = {}
    /\ UNCHANGED <<dialog, targetHost, targetHostCh, allowConnect, reConnect, sampleTimer, srcOn>>

Sent(n) == [n EXCEPT !.wbuf = Tail(@), !.asked = Append(@, Head(n.wbuf))]

\* The socket sends a request; a closing one goes down after the last.
Flush ==
    /\ Delivered /\ IsUp(net) /\ net.wbuf # <<>> /\ Len(net.asked) < MaxBuf
    /\ net' = IF net.state = "closing" THEN DisconnectFromHost(Sent(net)) ELSE Sent(net)
    /\ UnReady(net, net')
    /\ shown' = {}
    /\ UNCHANGED <<dialog, targetHost, targetHostCh, allowConnect, sampleTimer>>

Emitted_AnyChannel(r) ==
    {s \in {[host |-> net.peer, ch |-> r.ch]} : r.valid}

\* processData.
Emitted(r) ==
    {s \in {[host |-> net.peer, ch |-> r.ch]} : r.valid /\ r.ch = targetHostCh}

\* n replies come in before the socket looks: one readyRead, and readData reads
\* one datagram.  The server echoes the channel and tells if the data is valid.
Arrive(n, valid) ==
    /\ Delivered /\ net.state = "connected" /\ n <= Len(net.asked)
    /\ Len(net.rbuf) < MaxBuf
    /\ LET rbuf == net.rbuf \o [i \in 1 .. n |-> [ch |-> net.asked[i], valid |-> valid]]
       IN  /\ net' = [net EXCEPT !.rbuf = Tail(rbuf),
                                 !.asked = SubSeq(@, n + 1, Len(@))]
           /\ shown' = Emitted(Head(rbuf))
    /\ UNCHANGED <<dialog, targetHost, targetHostCh, allowConnect, reConnect, sampleTimer, srcOn>>

-----------------------------------------------------------------------------
Next ==
    \/ OpenDialog \/ Reject \/ Apply
    \/ \E h \in Host, text \in ChannelText, allow \in BOOLEAN : SetConf(h, text, allow)
    \/ Connected \/ ConnectFails \/ RemoteClose
    \/ SampleTimeout \/ Flush
    \/ \E n \in 1 .. MaxBuf, valid \in BOOLEAN : Arrive(n, valid)

Spec == Init /\ [][Next]_vars

\* A connection attempt ends, what is written is sent or the connection breaks
\* (TCP's timeouts), and the event loop ends after the OK button.
FairSpec ==
    /\ Spec
    /\ WF_vars(Connected \/ ConnectFails)
    /\ WF_vars(net.state = "closing" /\ (Flush \/ RemoteClose))
    /\ WF_vars(Apply)

-----------------------------------------------------------------------------
(* Properties.                                                              *)

\* A signal source that is down can always be connected again from the dialog:
\* the flag that makes Apply connect is FALSE only over a connection.
DownCanReconnect == ~reConnect => IsUp(net)

\* The last of the signals dataSrcReady and dataSrcUnReady tells whether the
\* socket is up, whoever brought it down: the peer, the dialog, a new host, or
\* a close that waited for the last request.  Chart and state board know the
\* socket by these signals only.
SignalsTellState == srcOn <=> IsUp(net)

\* A source the user disallowed has no connection left, or one that is on its
\* way down: no order of clicks and events of the socket revives it.
DisallowedGoesDown ==
    ~allowConnect /\ dialog # "accepted" =>
        \/ net.state \in {"unconnected", "closing"}
        \/ net.state = "connecting" /\ net.pendingClose

\* Once the settings are applied, the source is connected to no other host
\* than the one they name.
ConnectedToConfigured ==
    net.state = "connected" /\ dialog # "accepted" => net.peer = targetHost

\* A sample that reaches the chart is one of the host and of the channel that
\* are configured when it does, whatever requests of earlier settings are
\* still on their way.
ShowsConfigured ==
    [][shown' \subseteq {[host |-> targetHost, ch |-> targetHostCh]}]_vars

\* A source the user disallowed ends without a connection.
DisallowedEnds ==
    (~allowConnect /\ dialog = "none")
        ~> (net.state = "unconnected" \/ allowConnect \/ dialog # "none")
=============================================================================
