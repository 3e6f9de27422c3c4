--------------------------- MODULE FyyChannelProofs ---------------------------
(***************************************************************************)
(* Proofs about FyyChannel, for every set of hosts and channels and every  *)
(* size of the buffers.  The flag and the disconnection are proved for     *)
(* both kinds of event dispatcher; the host only for those that deliver    *)
(* nothing between OK and Apply.                                           *)
(***************************************************************************)
EXTENDS FyyChannel, TLAPS

USE ChannelAssumption

LEMMA ResetType ==
    ASSUME NEW n \in Net, NEW h \in Host,
           NEW state \in {"unconnected", "connecting", "connected", "closing"}
    PROVE  Reset(n, state, h) \in Net
BY DEF Reset, Net

LEMMA AbortType == ASSUME NEW n \in Net PROVE Abort(n) \in Net
BY ResetType DEF Abort, Net

LEMMA DisconnectType == ASSUME NEW n \in Net PROVE DisconnectFromHost(n) \in Net
BY AbortType DEF DisconnectFromHost, Net

\* Where a call to disconnect can leave the socket.
LEMMA DisconnectState ==
    ASSUME NEW n \in Net
    PROVE  LET m == DisconnectFromHost(n)
           IN  /\ m.peer = n.peer
               /\ \/ m.state \in {"unconnected", "closing"}
                  \/ m.state = "connecting" /\ m.pendingClose
               /\ IsUp(n) => m.state \in {"unconnected", "closing"}
               /\ m.state = "closing" => IsUp(n)
BY DEF DisconnectFromHost, Abort, Reset, IsUp, Net

LEMMA SentType ==
    ASSUME NEW n \in Net, n.wbuf # <<>>
    PROVE  /\ Sent(n) \in Net
           /\ Sent(n).state = n.state /\ Sent(n).peer = n.peer
<1>1. n.wbuf \in Seq(Ch) /\ n.asked \in Seq(Ch)
  BY DEF Net
<1>2. Head(n.wbuf) \in Ch /\ Tail(n.wbuf) \in Seq(Ch)
  BY <1>1
<1>3. Append(n.asked, Head(n.wbuf)) \in Seq(Ch)
  BY <1>1, <1>2
<1> QED BY <1>2, <1>3 DEF Sent, Net

\* The buffers after n replies came in and one was read.
LEMMA ArriveType ==
    ASSUME NEW r \in Seq(Reply), NEW q \in Seq(Ch), NEW n \in 1 .. Len(q),
           NEW valid \in BOOLEAN
    PROVE  LET rbuf == r \o [i \in 1 .. n |-> [ch |-> q[i], valid |-> valid]]
           IN  /\ Tail(rbuf) \in Seq(Reply)
               /\ Head(rbuf) \in Reply
               /\ SubSeq(q, n + 1, Len(q)) \in Seq(Ch)
<1> DEFINE new == [i \in 1 .. n |-> [ch |-> q[i], valid |-> valid]]
           rbuf == r \o new
<1>1. new \in Seq(Reply) /\ Len(new) = n
  <2>1. \A i \in 1 .. n : q[i] \in Ch
    OBVIOUS
  <2>2. \A i \in 1 .. n : [ch |-> q[i], valid |-> valid] \in Reply
    BY <2>1 DEF Reply
  <2>3. n \in Nat
    OBVIOUS
  <2>4. new \in [1 .. n -> Reply]
    BY <2>2
  <2> QED BY <2>3, <2>4
<1>2. rbuf \in Seq(Reply) /\ Len(rbuf) > 0
  <2> HIDE DEF new
  <2> QED BY <1>1
<1>3. Tail(rbuf) \in Seq(Reply) /\ Head(rbuf) \in Reply
  <2> HIDE DEF rbuf
  <2> QED BY <1>2
<1>4. SubSeq(q, n + 1, Len(q)) \in Seq(Ch)
  OBVIOUS
<1> QED BY <1>3, <1>4

LEMMA ChCut == ASSUME NEW text \in ChannelText PROVE text % Channels \in Ch
BY DEF Ch

LEMMA UnReadyType ==
    ASSUME TypeOK, UnReady(net, net')
    PROVE  reConnect' \in BOOLEAN /\ srcOn' \in BOOLEAN
BY Zenon DEF TypeOK, UnReady

LEMMA TypeInductive == TypeOK /\ [Next]_vars => TypeOK'
<1> SUFFICES ASSUME TypeOK, [Next]_vars PROVE TypeOK'
  OBVIOUS
<1> USE DEF TypeOK
<1>1. CASE OpenDialog
  BY <1>1 DEF OpenDialog
<1>2. CASE Reject
  BY <1>2 DEF Reject
<1>3. CASE Apply
  <2>1. net' \in Net
    BY <1>3, ResetType, DisconnectType DEF Apply
  <2>2. reConnect' \in BOOLEAN /\ srcOn' \in BOOLEAN
    BY <1>3, UnReadyType DEF Apply
  <2> QED BY <1>3, <2>1, <2>2 DEF Apply
<1>4. ASSUME NEW h \in Host, NEW text \in ChannelText, NEW allow \in BOOLEAN,
             SetConf(h, text, allow)
      PROVE  TypeOK'
  BY <1>4, ChCut DEF SetConf
<1>5. CASE Connected
  <2>1. net' \in Net
    BY <1>5, AbortType DEF Connected, Net
  <2> QED BY <1>5, <2>1 DEF Connected
<1>6. CASE ConnectFails
  BY <1>6, AbortType DEF ConnectFails
<1>7. CASE RemoteClose
  <2>1. reConnect' \in BOOLEAN /\ srcOn' \in BOOLEAN
    BY <1>7, UnReadyType DEF RemoteClose
  <2> QED BY <1>7, <2>1, AbortType DEF RemoteClose
<1>8. CASE SampleTimeout
  <2>1. net' \in Net
    <3>1. net.wbuf \in Seq(Ch)
      BY DEF Net
    <3>2. Append(net.wbuf, targetHostCh) \in Seq(Ch)
      BY <3>1
    <3> QED BY <1>8, <3>2 DEF SampleTimeout, Net
  <2> QED BY <1>8, <2>1 DEF SampleTimeout
<1>9. CASE Flush
  <2>1. net' \in Net
    BY <1>9, SentType, DisconnectType DEF Flush
  <2>2. reConnect' \in BOOLEAN /\ srcOn' \in BOOLEAN
    BY <1>9, UnReadyType DEF Flush
  <2> QED BY <1>9, <2>1, <2>2 DEF Flush
<1>10. ASSUME NEW n \in 1 .. MaxBuf, NEW valid \in BOOLEAN, Arrive(n, valid)
       PROVE  TypeOK'
  <2> DEFINE rbuf == net.rbuf \o [i \in 1 .. n |-> [ch |-> net.asked[i], valid |-> valid]]
             rest == SubSeq(net.asked, n + 1, Len(net.asked))
  <2>1. net.rbuf \in Seq(Reply) /\ net.asked \in Seq(Ch) /\ n \in 1 .. Len(net.asked)
    BY <1>10 DEF Arrive, Net
  <2>2. Tail(rbuf) \in Seq(Reply) /\ Head(rbuf) \in Reply /\ rest \in Seq(Ch)
    BY <2>1, ArriveType
  <2>3. /\ net' = [net EXCEPT !.rbuf = Tail(rbuf), !.asked = rest]
        /\ shown' = Emitted(Head(rbuf))
    BY <1>10 DEF Arrive
  <2> HIDE DEF rbuf, rest
  <2>4. net' \in Net
    BY <2>2, <2>3 DEF Net
  <2>5. shown' \subseteq Sample
    BY <2>2, <2>3 DEF Emitted, Reply, Sample, Net
  <2> QED BY <1>10, <2>4, <2>5 DEF Arrive
<1>11. CASE UNCHANGED vars
  BY <1>11 DEF vars
<1> QED BY <1>1, <1>2, <1>3, <1>4, <1>5, <1>6, <1>7, <1>8, <1>9, <1>10, <1>11 DEF Next

LEMMA TypeInit == Init => TypeOK
<1> SUFFICES ASSUME Init PROVE TypeOK
  OBVIOUS
<1>1. <<>> \in Seq(Ch) /\ <<>> \in Seq(Reply) /\ 0 \in Ch
  BY DEF Ch
<1>2. net \in Net
  BY <1>1 DEF Init, Net
<1> QED BY <1>1, <1>2 DEF Init, TypeOK

\* Every variable keeps its type, and the channel stays a quint8.
THEOREM TypeCorrect == Spec => []TypeOK
BY TypeInit, TypeInductive, PTL DEF Spec

-----------------------------------------------------------------------------
(* The flag and the disconnection.                                          *)

\* netUnReady keeps the flag true to the connection that goes down.
LEMMA UnReadyFlag ==
    ASSUME TypeOK, DownCanReconnect, UnReady(net, net')
    PROVE  DownCanReconnect'
<1>1. reConnect' = (reConnect \/ (IsUp(net) /\ ~IsUp(net')))
  BY DEF UnReady, GoesDown
<1>2. IsUp(net)' <=> IsUp(net')
  BY DEF IsUp
<1> QED BY <1>1, <1>2, Zenon DEF DownCanReconnect

LEMMA FlagInductive ==
    TypeOK /\ DownCanReconnect /\ [Next]_vars => DownCanReconnect'
<1> SUFFICES ASSUME TypeOK, DownCanReconnect, [Next]_vars PROVE DownCanReconnect'
  OBVIOUS
<1> USE DEF DownCanReconnect
<1>0. net \in Net
  BY DEF TypeOK
<1>1. CASE OpenDialog \/ Reject \/ UNCHANGED vars
  BY <1>1 DEF OpenDialog, Reject, vars, IsUp
<1>2. CASE Apply
  <2>1. CASE allowConnect /\ reConnect
    BY <1>2, <2>1, Zenon DEF Apply, UnReady
  <2>2. CASE allowConnect /\ ~reConnect
    BY <1>2, UnReadyFlag DEF Apply
  <2>3. CASE ~allowConnect
    <3>1. UnReady(net, net')
      BY <1>2 DEF Apply
    <3> QED BY <3>1, UnReadyFlag
  <2> QED BY <2>1, <2>2, <2>3
<1>3. ASSUME NEW h \in Host, NEW text \in ChannelText, NEW allow \in BOOLEAN,
             SetConf(h, text, allow)
      PROVE  DownCanReconnect'
  BY <1>3 DEF SetConf, IsUp
<1>4. CASE Connected
  BY <1>4, <1>0 DEF Connected, IsUp, Net
<1>5. CASE ConnectFails
  BY <1>5 DEF ConnectFails, IsUp
<1>6. CASE RemoteClose
  BY <1>6, UnReadyFlag DEF RemoteClose
<1>7. CASE SampleTimeout
  BY <1>7, <1>0 DEF SampleTimeout, IsUp, Net
<1>8. CASE Flush
  BY <1>8, UnReadyFlag DEF Flush
<1>9. ASSUME NEW n \in 1 .. MaxBuf, NEW valid \in BOOLEAN, Arrive(n, valid)
      PROVE  DownCanReconnect'
  <2>1. net'.state = net.state /\ reConnect' = reConnect
    BY <1>9, <1>0 DEF Arrive, Net
  <2> QED BY <2>1 DEF IsUp
<1> QED BY <1>1, <1>2, <1>3, <1>4, <1>5, <1>6, <1>7, <1>8, <1>9 DEF Next

LEMMA DisallowedInductive ==
    TypeOK /\ DisallowedGoesDown /\ [Next]_vars => DisallowedGoesDown'
<1> SUFFICES ASSUME TypeOK, DisallowedGoesDown, [Next]_vars PROVE DisallowedGoesDown'
  OBVIOUS
<1> USE DEF DisallowedGoesDown
<1>0. net \in Net
  BY DEF TypeOK
<1>1. CASE OpenDialog \/ Reject \/ UNCHANGED vars
  BY <1>1 DEF OpenDialog, Reject, vars
<1>2. CASE Apply
  BY <1>2, <1>0, DisconnectState DEF Apply
<1>3. ASSUME NEW h \in Host, NEW text \in ChannelText, NEW allow \in BOOLEAN,
             SetConf(h, text, allow)
      PROVE  DisallowedGoesDown'
  BY <1>3 DEF SetConf
<1>4. CASE Connected
  BY <1>4, <1>0 DEF Connected, Abort, Reset, Net
<1>5. CASE ConnectFails
  BY <1>5 DEF ConnectFails, Abort, Reset
<1>6. CASE RemoteClose
  BY <1>6 DEF RemoteClose, Abort, Reset
<1>7. CASE SampleTimeout
  BY <1>7, <1>0 DEF SampleTimeout, Net
<1>8. CASE Flush
  <2>1. Sent(net) \in Net /\ Sent(net).state = net.state
    BY <1>8, <1>0, SentType DEF Flush
  <2> QED BY <1>8, <2>1, DisconnectState DEF Flush, IsUp
<1>9. ASSUME NEW n \in 1 .. MaxBuf, NEW valid \in BOOLEAN, Arrive(n, valid)
      PROVE  DisallowedGoesDown'
  BY <1>9, <1>0 DEF Arrive, Net
<1> QED BY <1>1, <1>2, <1>3, <1>4, <1>5, <1>6, <1>7, <1>8, <1>9 DEF Next

LEMMA UnReadySignals ==
    ASSUME TypeOK, SignalsTellState, UnReady(net, net'), IsUp(net') => IsUp(net)
    PROVE  SignalsTellState'
<1>1. srcOn' = (srcOn /\ ~(IsUp(net) /\ ~IsUp(net')))
  BY DEF UnReady, GoesDown
<1>2. IsUp(net)' <=> IsUp(net')
  BY DEF IsUp
<1>3. srcOn <=> IsUp(net)
  BY DEF SignalsTellState
<1>4. srcOn' <=> IsUp(net')
  BY <1>1, <1>3, Zenon
<1> QED BY <1>2, <1>4 DEF SignalsTellState

LEMMA SignalsInductive ==
    TypeOK /\ SignalsTellState /\ [Next]_vars => SignalsTellState'
<1> SUFFICES ASSUME TypeOK, SignalsTellState, [Next]_vars PROVE SignalsTellState'
  OBVIOUS
<1>0. net \in Net
  BY DEF TypeOK
<1>1. CASE OpenDialog \/ Reject \/ UNCHANGED vars
  BY <1>1 DEF OpenDialog, Reject, vars, SignalsTellState, IsUp
<1>2. CASE Apply
  <2>1. IsUp(net') => IsUp(net)
    BY <1>2, <1>0, DisconnectState DEF Apply, Reset, IsUp
  <2> QED BY <1>2, <2>1, UnReadySignals DEF Apply
<1>3. ASSUME NEW h \in Host, NEW text \in ChannelText, NEW allow \in BOOLEAN,
             SetConf(h, text, allow)
      PROVE  SignalsTellState'
  BY <1>3 DEF SetConf, SignalsTellState, IsUp
<1>4. CASE Connected
  <2>1. CASE net.pendingClose
    <3>1. net'.state = "unconnected" /\ srcOn' = FALSE
      BY <1>4, <2>1 DEF Connected, Abort, Reset
    <3> QED BY <3>1 DEF SignalsTellState, IsUp
  <2>2. CASE ~net.pendingClose
    <3>1. net'.state = "connected" /\ srcOn' = TRUE
      BY <1>4, <2>2, <1>0 DEF Connected, Net
    <3> QED BY <3>1 DEF SignalsTellState, IsUp
  <2> QED BY <2>1, <2>2
<1>5. CASE ConnectFails
  BY <1>5 DEF ConnectFails, SignalsTellState, IsUp, Abort, Reset
<1>6. CASE RemoteClose
  BY <1>6, UnReadySignals DEF RemoteClose
<1>7. CASE SampleTimeout
  BY <1>7, <1>0 DEF SampleTimeout, SignalsTellState, IsUp, Net
<1>8. CASE Flush
  BY <1>8, UnReadySignals DEF Flush
<1>9. ASSUME NEW n \in 1 .. MaxBuf, NEW valid \in BOOLEAN, Arrive(n, valid)
      PROVE  SignalsTellState'
  BY <1>9, <1>0 DEF Arrive, SignalsTellState, IsUp, Net
<1> QED BY <1>1, <1>2, <1>3, <1>4, <1>5, <1>6, <1>7, <1>8, <1>9 DEF Next

\* Whatever the dispatcher delivers between OK and Apply, a source that is down
\* has the flag that lets the dialog connect it again.
THEOREM FlagCorrect == Spec => []DownCanReconnect
<1>1. Init => DownCanReconnect
  BY DEF Init, DownCanReconnect
<1> QED BY <1>1, TypeCorrect, FlagInductive, PTL DEF Spec

\* For both dispatchers, the last of the signals the chart and the board get
\* tells whether the socket is up.
THEOREM SignalsCorrect == Spec => []SignalsTellState
<1>1. Init => SignalsTellState
  BY DEF Init, SignalsTellState, IsUp
<1> QED BY <1>1, TypeCorrect, SignalsInductive, PTL DEF Spec

\* A source the user disallowed is down or goes down.
THEOREM DisallowedCorrect == Spec => []DisallowedGoesDown
<1>1. Init => DisallowedGoesDown
  BY DEF Init, DisallowedGoesDown
<1> QED BY <1>1, TypeCorrect, DisallowedInductive, PTL DEF Spec

-----------------------------------------------------------------------------
(* The host, when no event comes between OK and Apply.                      *)

\* The strengthening: a clear flag vouches for the host, and outside the
\* dialog's OK an attempt that is not to be closed, or a connection, does too.
HostInv ==
    /\ ~reConnect => net.peer = targetHost
    /\ dialog # "accepted" =>
          /\ net.state = "connecting" /\ ~net.pendingClose => net.peer = targetHost
          /\ net.state = "connected" => ~reConnect

LEMMA HostInductive ==
    ASSUME ~WindowEvents
    PROVE  TypeOK /\ DownCanReconnect /\ HostInv /\ [Next]_vars => HostInv'
<1> SUFFICES ASSUME TypeOK, DownCanReconnect, HostInv, [Next]_vars PROVE HostInv'
  OBVIOUS
<1> USE DEF HostInv
<1>0. net \in Net
  BY DEF TypeOK
<1>1. CASE OpenDialog \/ Reject \/ UNCHANGED vars
  BY <1>1 DEF OpenDialog, Reject, vars
<1>2. CASE Apply
  <2>1. CASE allowConnect /\ reConnect
    BY <1>2, <2>1 DEF Apply, UnReady, Reset
  <2>2. CASE allowConnect /\ ~reConnect
    BY <1>2, <2>2 DEF Apply, UnReady, GoesDown, IsUp, DownCanReconnect
  <2>3. CASE ~allowConnect
    <3>1. net' = DisconnectFromHost(net) /\ UnReady(net, net')
      BY <1>2, <2>3 DEF Apply
    <3>2. ~reConnect' => ~reConnect
      BY <3>1, Zenon DEF UnReady
    <3> QED BY <1>2, <3>1, <3>2, <1>0, DisconnectState DEF Apply
  <2> QED BY <2>1, <2>2, <2>3
<1>3. ASSUME NEW h \in Host, NEW text \in ChannelText, NEW allow \in BOOLEAN,
             SetConf(h, text, allow)
      PROVE  HostInv'
  BY <1>3 DEF SetConf
<1>4. CASE Connected
  BY <1>4, <1>0 DEF Connected, Delivered, Abort, Reset, Net
<1>5. CASE ConnectFails
  BY <1>5 DEF ConnectFails, Abort, Reset
<1>6. CASE RemoteClose
  BY <1>6 DEF RemoteClose, UnReady, GoesDown, Abort, Reset
<1>7. CASE SampleTimeout
  BY <1>7, <1>0 DEF SampleTimeout, Net
<1>8. CASE Flush
  <2>1. Sent(net) \in Net /\ Sent(net).state = net.state /\ Sent(net).peer = net.peer
    BY <1>8, <1>0, SentType DEF Flush
  <2>2. /\ net'.peer = net.peer
        /\ net'.state = "connected" => net.state = "connected" /\ net' = Sent(net)
        /\ net'.state # "connecting"
    BY <1>8, <2>1, DisconnectState DEF Flush, IsUp
  <2>3. ~reConnect' => ~reConnect
    BY <1>8, Zenon DEF Flush, UnReady
  <2>4. net'.state = "connected" => reConnect' = reConnect
    <3>1. UnReady(net, net') /\ reConnect \in BOOLEAN
      BY <1>8 DEF Flush, TypeOK
    <3>2. net'.state = "connected" => IsUp(net')
      BY DEF IsUp
    <3> QED BY <3>1, <3>2, Zenon DEF UnReady, GoesDown
  <2>5. UNCHANGED <<dialog, targetHost>>
    BY <1>8 DEF Flush
  <2> QED BY <2>2, <2>3, <2>4, <2>5
<1>9. ASSUME NEW n \in 1 .. MaxBuf, NEW valid \in BOOLEAN, Arrive(n, valid)
      PROVE  HostInv'
  <2>1. net'.state = net.state /\ net'.peer = net.peer /\ net'.pendingClose = net.pendingClose
    BY <1>9, <1>0 DEF Arrive, Net
  <2>2. UNCHANGED <<dialog, targetHost, reConnect>>
    BY <1>9 DEF Arrive
  <2> QED BY <2>1, <2>2
<1> QED BY <1>1, <1>2, <1>3, <1>4, <1>5, <1>6, <1>7, <1>8, <1>9 DEF Next

LEMMA HostInit == Init => HostInv
BY DEF Init, HostInv

\* With a dispatcher that ends the dialog's loop at once, a source is connected
\* to no other host than the configured one.
THEOREM HostCorrect == ASSUME ~WindowEvents PROVE Spec => []ConnectedToConfigured
<1>1. HostInv => ConnectedToConfigured
  BY DEF HostInv, ConnectedToConfigured
<1> QED BY <1>1, HostInit, HostInductive, TypeCorrect, FlagCorrect, PTL DEF Spec

LEMMA ShowsStep ==
    ASSUME ~WindowEvents, TypeOK, HostInv, [Next]_vars
    PROVE  [shown' \subseteq {[host |-> targetHost, ch |-> targetHostCh]}]_vars
<1> DEFINE Configured == {[host |-> targetHost, ch |-> targetHostCh]}
<1>1. ASSUME NEW n \in 1 .. MaxBuf, NEW valid \in BOOLEAN, Arrive(n, valid)
      PROVE  shown' \subseteq Configured
  <2>1. net.peer = targetHost
    BY <1>1 DEF Arrive, Delivered, HostInv
  <2>2. \E r : shown' = Emitted(r)
    BY <1>1 DEF Arrive
  <2> QED BY <2>1, <2>2 DEF Emitted
<1>2. ASSUME NEW h \in Host, NEW text \in ChannelText, NEW allow \in BOOLEAN,
             SetConf(h, text, allow)
      PROVE  shown' \subseteq Configured
  BY <1>2 DEF SetConf
<1>3. CASE OpenDialog \/ Reject \/ Apply \/ Connected \/ ConnectFails \/ RemoteClose
           \/ SampleTimeout \/ Flush
  <2>1. shown' = {}
    BY <1>3 DEF OpenDialog, Reject, Apply, Connected, ConnectFails, RemoteClose,
                SampleTimeout, Flush
  <2> QED BY <2>1
<1> QED BY <1>1, <1>2, <1>3 DEF Next

\* With such a dispatcher every sample that reaches the chart is one of the
\* configured host and channel.
THEOREM ShowsCorrect == ASSUME ~WindowEvents PROVE Spec => ShowsConfigured
<1>1. TypeOK /\ HostInv /\ [Next]_vars
          => [shown' \subseteq {[host |-> targetHost, ch |-> targetHostCh]}]_vars
  BY ShowsStep
<1> QED BY <1>1, HostInit, HostInductive, TypeCorrect, FlagCorrect, PTL
        DEF Spec, ShowsConfigured
=============================================================================
