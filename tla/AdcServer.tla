------------------------------ MODULE AdcServer ------------------------------
(***************************************************************************)
(* The event loop of the adcserver, adc_server_conn in                     *)
(* server/src/adcnetwork.c: one thread, edge-triggered epoll, non-blocking *)
(* connections, one datagram read and one datagram written per event.      *)
(*                                                                         *)
(* Sockets and epoll are the kernel's and are modelled by what they do to  *)
(* this program: an arrival puts the file on the ready list if it is not   *)
(* there (ready, first in first out), epoll_wait takes at most MaxEvents   *)
(* items off it.  A batch holds at most one event of a file and a file is  *)
(* closed only by its own event, so an event names its connection and fd   *)
(* numbers are left out.  A datagram travels whole; its fields are the     *)
(* type, the channel, valid, and data, which is the channel of the device  *)
(* that was read.  Error events of the listening socket are left out:      *)
(* nothing here shuts it down.                                             *)
(***************************************************************************)
EXTENDS Naturals, Sequences, SequencesExt

CONSTANTS
    Conn, Request, Sampled, NoData,   \* as in SampleService
    Listener,    \* the listening socket, an item of the epoll set
    MaxEvents,   \* MAXEPOLLEVENTS
    SndBuf,      \* datagrams the kernel holds for a client that reads nothing
    MaxReq,      \* bound: requests a client sends
    Window,      \* bound: requests a client leaves unanswered
    MaxFail,     \* bound: failures of accept, fcntl or epoll_ctl
    MaySignal    \* whether SIGUSR1 can interrupt epoll_wait

ASSUME ListenerAssumption == Listener \notin Conn
ASSUME BoundAssumption ==
    /\ MaxEvents \in Nat \ {0} /\ SndBuf \in Nat \ {0}
    /\ MaxReq \in Nat /\ Window \in Nat /\ MaxFail \in Nat /\ MaySignal \in BOOLEAN
ASSUME RequestAssumption ==
    Request \subseteq [type : {"UNTYPE", "GETTIME", "GETDATA"}, channel : Nat, valid : BOOLEAN]
ASSUME SampledAssumption == Sampled \subseteq Nat /\ NoData \notin Sampled

VARIABLES
    phase,     \* "off", "backlog", "open" or "closed" by the server
    peer,      \* the client's end: "up", "fin" (closed), "finw" (closed, then
               \* written to: a reset is on its way), "finrst" (that reset has
               \* arrived), "rst" (closed with answers unread: reset at once)
    rcv, snd,  \* datagrams in the socket's buffers
    asked, got,   \* requests sent and replies taken by the client
    backlog,   \* connections not accepted yet
    ready,     \* the epoll ready list
    fails,     \* failures so far
    pc,        \* "wait", "loop", "accept", "adc", "write", "returned", "dead"
    batch,     \* epl_evs[i .. nfds-1]
    hand       \* [conn, req, dg]: the datagram at work; req is what was read

net == <<phase, peer, rcv, snd, asked, got, backlog, ready, fails>>
vars == <<net, pc, batch, hand>>

Item == Conn \cup {Listener}
Reply == [type : {"UNTYPE", "GETTIME", "GETDATA"}, channel : Nat,
          valid : BOOLEAN, data : Sampled \cup {NoData}]
Busy == pc \in {"adc", "write"}

TypeOK ==
    /\ phase \in [Conn -> {"off", "backlog", "open", "closed"}]
    /\ peer \in [Conn -> {"up", "fin", "finw", "finrst", "rst"}]
    /\ rcv \in [Conn -> Seq(Request)]
    /\ snd \in [Conn -> Seq(Reply)]
    /\ asked \in [Conn -> 0 .. MaxReq] /\ got \in [Conn -> 0 .. MaxReq]
    /\ backlog \in Seq(Conn)
    /\ ready \in Seq(Item)
    /\ fails \in 0 .. MaxFail
    /\ pc \in {"wait", "loop", "accept", "adc", "write", "returned", "dead"}
    /\ batch \in Seq([item : Item, ev : {"in", "err"}])
    /\ Busy => hand \in [conn : Conn, req : Request, dg : Reply]

Init ==
    /\ phase = [c \in Conn |-> "off"]
    /\ peer = [c \in Conn |-> "up"]
    /\ rcv = [c \in Conn |-> <<>>] /\ snd = [c \in Conn |-> <<>>]
    /\ asked = [c \in Conn |-> 0] /\ got = [c \in Conn |-> 0]
    /\ backlog = <<>> /\ ready = <<>> /\ fails = 0
    /\ pc = "wait" /\ batch = <<>> /\ hand = NoData

-----------------------------------------------------------------------------
(* epoll.                                                                   *)

Readable(c) == rcv[c] # <<>> \/ peer[c] # "up"
Pollable(i) == IF i = Listener THEN backlog # <<>> ELSE Readable(i)
Event(i) == IF i # Listener /\ peer[i] \in {"rst", "finrst"} THEN "err" ELSE "in"

Wake(i, list) == IF \E k \in DOMAIN list : list[k] = i THEN list ELSE Append(list, i)
Registered(c) == phase[c] = "open"

\* The kernel goes along the list until it has MaxEvents events or the list is
\* at its end; what it has passed, with an event or not, leaves the list.
EpollWait ==
    /\ pc = "wait"
    /\ \E n \in 1 .. MaxEvents, seen \in DOMAIN ready : \E at \in [1 .. n -> 1 .. seen] :
          /\ \A j, k \in 1 .. n : j < k => at[j] < at[k]
          /\ {at[k] : k \in 1 .. n} = {k \in 1 .. seen : Pollable(ready[k])}
          /\ IF n = MaxEvents THEN at[n] = seen ELSE seen = Len(ready)
          /\ batch' = [k \in 1 .. n |-> [item |-> ready[at[k]], ev |-> Event(ready[at[k]])]]
          /\ ready' = SubSeq(ready, seen + 1, Len(ready))
    /\ pc' = "loop"
    /\ UNCHANGED <<phase, peer, rcv, snd, asked, got, backlog, fails, hand>>

\* EINTR: adc_server_conn closes its files and returns 0.
EpollInterrupted ==
    /\ MaySignal /\ pc = "wait"
    /\ pc' = "returned"
    /\ UNCHANGED <<net, batch, hand>>

LoopEnd ==
    /\ pc = "loop" /\ batch = <<>>
    /\ pc' = "wait"
    /\ UNCHANGED <<net, batch, hand>>

NextEvent(item, ev) ==
    pc = "loop" /\ batch # <<>> /\ Head(batch) = [item |-> item, ev |-> ev]
Done == pc' = "loop" /\ batch' = Tail(batch)

\* close(fd): the kernel takes the file off the epoll set, where it is listed
\* at most once, and frees its buffers.
CloseConn(c) ==
    /\ phase' = [phase EXCEPT ![c] = "closed"]
    /\ ready' = RemoveFirst(ready, c)
    /\ rcv' = [rcv EXCEPT ![c] = <<>>]
    /\ snd' = [snd EXCEPT ![c] = <<>>]

\* EPOLLERR or EPOLLHUP on a connection.
HandleError(c) ==
    /\ NextEvent(c, "err")
    /\ CloseConn(c) /\ Done
    /\ UNCHANGED <<peer, asked, got, backlog, fails, hand>>

-----------------------------------------------------------------------------
(* The listener's event: accept until it fails.                             *)

HandleListener ==
    /\ NextEvent(Listener, "in")
    /\ pc' = "accept"
    /\ UNCHANGED <<net, batch, hand>>

Register_NextEdgeOnly(c) == UNCHANGED ready

\* EPOLL_CTL_ADD puts a file on the ready list if it is readable already.
Register(c) == ready' = IF Readable(c) THEN Wake(c, ready) ELSE ready

AcceptOne_Once ==
    /\ pc = "accept" /\ backlog # <<>>
    /\ phase' = [phase EXCEPT ![Head(backlog)] = "open"]
    /\ Register(Head(backlog))
    /\ backlog' = Tail(backlog)
    /\ Done
    /\ UNCHANGED <<peer, rcv, snd, asked, got, fails, hand>>

AcceptOne ==
    /\ pc = "accept" /\ backlog # <<>>
    /\ phase' = [phase EXCEPT ![Head(backlog)] = "open"]
    /\ Register(Head(backlog))
    /\ backlog' = Tail(backlog)
    /\ UNCHANGED <<peer, rcv, snd, asked, got, fails, pc, batch, hand>>

\* EAGAIN.
AcceptNoMore ==
    /\ pc = "accept" /\ backlog = <<>>
    /\ Done
    /\ UNCHANGED <<net, hand>>

AcceptFails_EvictsAnother ==
    /\ pc = "accept" /\ backlog # <<>>
    /\ fails < MaxFail /\ fails' = fails + 1
    /\ \E c \in Conn : Registered(c) /\ CloseConn(c)
    /\ Done
    /\ UNCHANGED <<peer, asked, got, backlog, hand>>

\* accept fails with connections waiting (EMFILE): they stay in the backlog.
AcceptFails ==
    /\ pc = "accept" /\ backlog # <<>>
    /\ fails < MaxFail /\ fails' = fails + 1
    /\ Done
    /\ UNCHANGED <<phase, peer, rcv, snd, asked, got, backlog, ready, hand>>

\* nq_set_fd_nonblocking or epoll_ctl fails: the connection is closed, and
\* the loop left although others may be waiting.
RegisterFails ==
    /\ pc = "accept" /\ backlog # <<>>
    /\ fails < MaxFail /\ fails' = fails + 1
    /\ CloseConn(Head(backlog))
    /\ backlog' = Tail(backlog)
    /\ Done
    /\ UNCHANGED <<peer, asked, got, hand>>

-----------------------------------------------------------------------------
(* A connection's event: one read, the work of the request, one write.      *)

HandleEnd_NotClosed(c) ==
    /\ NextEvent(c, "in") /\ rcv[c] = <<>>
    /\ Done
    /\ UNCHANGED <<net, hand>>

HandleEnd_Answered(c) ==
    /\ NextEvent(c, "in") /\ rcv[c] = <<>>
    /\ LET r == CHOOSE r \in Request : r.type = "UNTYPE"
       IN  hand' = [conn |-> c, req |-> r,
                    dg |-> [type |-> r.type, channel |-> 0, valid |-> FALSE, data |-> NoData]]
    /\ pc' = "write"
    /\ UNCHANGED <<net, batch>>

\* read returns 0.
HandleEnd(c) ==
    /\ NextEvent(c, "in") /\ rcv[c] = <<>>
    /\ CloseConn(c) /\ Done
    /\ UNCHANGED <<peer, asked, got, backlog, fails, hand>>

NoChannel_Unchecked(r) == FALSE

NoChannel(r) == r.channel \notin Sampled

HandleInvalidChannel(c) ==
    /\ NextEvent(c, "in") /\ rcv[c] # <<>>
    /\ Head(rcv[c]).type = "GETDATA" /\ NoChannel(Head(rcv[c]))
    /\ CloseConn(c) /\ Done
    /\ UNCHANGED <<peer, asked, got, backlog, fails, hand>>

\* The datagram as read, with its fields; the client's data field is zero.
Datagram(r) == [type |-> r.type, channel |-> r.channel, valid |-> r.valid, data |-> NoData]

TakeRequest(c, dg) ==
    /\ hand' = [conn |-> c, req |-> Head(rcv[c]), dg |-> dg]
    /\ rcv' = [rcv EXCEPT ![c] = Tail(@)]
    /\ UNCHANGED <<phase, peer, snd, asked, got, backlog, ready, fails, batch>>

HandleUnknown(c) ==
    /\ NextEvent(c, "in") /\ rcv[c] # <<>>
    /\ Head(rcv[c]).type = "UNTYPE"
    /\ TakeRequest(c, [Datagram(Head(rcv[c])) EXCEPT !.valid = FALSE])
    /\ pc' = "write"

\* get_time: valid says whether time() succeeded.
HandleGetTime(c) ==
    /\ NextEvent(c, "in") /\ rcv[c] # <<>>
    /\ Head(rcv[c]).type = "GETTIME"
    /\ \E ok \in BOOLEAN : TakeRequest(c, [Datagram(Head(rcv[c])) EXCEPT !.valid = ok])
    /\ pc' = "write"

HandleGetData(c) ==
    /\ NextEvent(c, "in") /\ rcv[c] # <<>>
    /\ Head(rcv[c]).type = "GETDATA" /\ ~NoChannel(Head(rcv[c]))
    /\ TakeRequest(c, Datagram(Head(rcv[c])))
    /\ pc' = "adc"

\* s3cadc_get_adc blocks until the conversion is over, then get_time runs.
\* data names the handle that is read, not the channel whose voltage the
\* driver returns for it: AdcDriver says when they differ.
ReadAdc ==
    /\ pc = "adc"
    /\ \E ok \in BOOLEAN :
          hand' = [hand EXCEPT !.dg.valid = ok, !.dg.data = hand.dg.channel]
    /\ pc' = "write"
    /\ UNCHANGED <<net, batch>>

ReadAdcFails_ValidKept ==
    /\ pc = "adc"
    /\ pc' = "write"
    /\ UNCHANGED <<net, batch, hand>>

ReadAdcFails ==
    /\ pc = "adc"
    /\ hand' = [hand EXCEPT !.dg.valid = FALSE]
    /\ pc' = "write"
    /\ UNCHANGED <<net, batch>>

\* write: while the buffer is full it returns EAGAIN and is tried again, so
\* that the server stays here.
Write ==
    /\ pc = "write"
    /\ peer[hand.conn] = "up" /\ Len(snd[hand.conn]) < SndBuf
    /\ snd' = [snd EXCEPT ![hand.conn] = Append(@, hand.dg)]
    /\ Done
    /\ UNCHANGED <<phase, peer, rcv, asked, got, backlog, ready, fails, hand>>

\* The client has closed: its kernel answers the datagram with a reset.
WriteToClosed ==
    /\ pc = "write"
    /\ peer[hand.conn] \in {"fin", "finw"}
    /\ peer' = [peer EXCEPT ![hand.conn] = "finw"]
    /\ Done
    /\ UNCHANGED <<phase, rcv, snd, asked, got, backlog, ready, fails, hand>>

\* ECONNRESET ends the do-while.
WriteFails ==
    /\ pc = "write"
    /\ peer[hand.conn] = "rst"
    /\ Done
    /\ UNCHANGED <<net, hand>>

\* EPIPE comes with SIGPIPE, which nobody handles: the process ends.
WriteKills ==
    /\ pc = "write"
    /\ peer[hand.conn] = "finrst"
    /\ pc' = "dead"
    /\ UNCHANGED <<net, batch, hand>>

-----------------------------------------------------------------------------
(* The clients and the network, followed as long as the server lives.       *)

Running == pc \notin {"returned", "dead"}

Connect(c) ==
    /\ Running /\ phase[c] = "off"
    /\ phase' = [phase EXCEPT ![c] = "backlog"]
    /\ backlog' = Append(backlog, c)
    /\ ready' = Wake(Listener, ready)
    /\ UNCHANGED <<peer, rcv, snd, asked, got, fails, pc, batch, hand>>

Arrival(c) == ready' = IF Registered(c) THEN Wake(c, ready) ELSE ready

Send(c, r) ==
    /\ Running /\ phase[c] \in {"backlog", "open"} /\ peer[c] = "up"
    /\ asked[c] < MaxReq /\ asked[c] < got[c] + Window
    /\ asked' = [asked EXCEPT ![c] = @ + 1]
    /\ rcv' = [rcv EXCEPT ![c] = Append(@, r)]
    /\ Arrival(c)
    /\ UNCHANGED <<phase, peer, snd, got, backlog, fails, pc, batch, hand>>

Receive(c) ==
    /\ Running /\ peer[c] = "up" /\ snd[c] # <<>>
    /\ snd' = [snd EXCEPT ![c] = Tail(@)]
    /\ got' = [got EXCEPT ![c] = @ + 1]
    /\ UNCHANGED <<phase, peer, rcv, asked, backlog, ready, fails, pc, batch, hand>>

\* close by the client: a reset if answers are unread, else a FIN.
ClientClose(c) ==
    /\ Running /\ phase[c] \in {"backlog", "open"} /\ peer[c] = "up"
    /\ peer' = [peer EXCEPT ![c] = IF snd[c] # <<>> THEN "rst" ELSE "fin"]
    /\ snd' = [snd EXCEPT ![c] = <<>>]
    /\ Arrival(c)
    /\ UNCHANGED <<phase, rcv, asked, got, backlog, fails, pc, batch, hand>>

ResetArrives(c) ==
    /\ Running /\ phase[c] = "open" /\ peer[c] = "finw"
    /\ peer' = [peer EXCEPT ![c] = "finrst"]
    /\ Arrival(c)
    /\ UNCHANGED <<phase, rcv, snd, asked, got, backlog, fails, pc, batch, hand>>

HandleEvent(c) ==
    \/ HandleError(c) \/ HandleEnd(c) \/ HandleInvalidChannel(c)
    \/ HandleUnknown(c) \/ HandleGetTime(c) \/ HandleGetData(c)

ServerStep ==
    \/ EpollWait \/ LoopEnd
    \/ HandleListener \/ AcceptOne \/ AcceptNoMore
    \/ \E c \in Conn : HandleEvent(c)
    \/ ReadAdc \/ ReadAdcFails
    \/ Write \/ WriteToClosed \/ WriteFails \/ WriteKills

ServerFault == AcceptFails \/ RegisterFails \/ EpollInterrupted

ClientStep(c) ==
    \/ Connect(c) \/ (\E r \in Request : Send(c, r)) \/ Receive(c)
    \/ ClientClose(c) \/ ResetArrives(c)

Next == ServerStep \/ ServerFault \/ \E c \in Conn : ClientStep(c)

Spec == Init /\ [][Next]_vars

\* The server's only thread keeps running, the network delivers, and a
\* client takes the answers it is sent (the client's readyRead handler).
Fairness ==
    /\ WF_vars(ServerStep)
    /\ \A c \in Conn : WF_vars(Receive(c)) /\ WF_vars(ResetArrives(c))

FairSpec == Spec /\ Fairness

-----------------------------------------------------------------------------
(* Properties.                                                              *)

InHand(c) == IF Busy /\ hand.conn = c THEN <<hand.req>> ELSE <<>>

Service == INSTANCE SampleService WITH
    session <- [c \in Conn |-> CASE phase[c] = "off" -> "none"
                                 [] phase[c] = "backlog" -> "waiting"
                                 [] phase[c] = "open" -> "live"
                                 [] phase[c] = "closed" -> "over"],
    left <- [c \in Conn |-> peer[c] # "up"],
    pending <- [c \in Conn |-> InHand(c) \o rcv[c]],
    answers <- snd

\* Whatever the clients and the kernel do, the server is a SampleService.
ServesInOrder == Service!ServiceSafe

\* With clients that wait for an answer before they ask again, it is one
\* that keeps nobody waiting.
ServesEveryone == Service!ServiceLive

Scheduled(i) ==
    \/ \E k \in DOMAIN ready : ready[k] = i
    \/ \E k \in DOMAIN batch : batch[k].item = i

\* Edge-triggered epoll reports an arrival once.  With one request at a time
\* no arrival is lost: whatever waits to be read or closed has an event
\* coming, also what arrived before the connection was accepted.  A FIN that
\* shared its event with a request is the exception: the answer written to
\* the closed client brings a reset, which is a new edge.
NoLostEdge ==
    \A c \in Conn :
        phase[c] = "open" /\ Readable(c) => Scheduled(c) \/ peer[c] = "finw"

\* Connections that wait in the backlog lose their event only to a failure of
\* accept or of a registration, in the step that fails; and however often that
\* happens, the next client that connects brings the event back for all of
\* them.
NoLostConnection ==
    [][backlog' # <<>> /\ ~Scheduled(Listener)' =>
          \/ fails' > fails
          \/ backlog' = backlog /\ ~Scheduled(Listener)]_vars

\* An event about to be handled names a connection that is still open: its
\* fd cannot have been closed, and reused, since epoll_wait reported it.
EventsAreCurrent ==
    \A k \in DOMAIN batch : batch[k].item # Listener => phase[batch[k].item] = "open"

\* SIGPIPE ends the server only through a client that asked again before it
\* had its answer: a client that waits cannot do it, however it closes and
\* however the reset of its connection races the server's read and write.
OnlyPipelinersKill ==
    pc = "dead" => \E c \in Conn : peer[c] = "finrst" /\ asked[c] > got[c] + 1

\* A connection that its client closed or reset is closed by the server too
\* (no leaked fd), even if requests of it were never read.
ClosedIsReaped ==
    \A c \in Conn : phase[c] = "open" /\ peer[c] # "up" ~> phase[c] = "closed"

\* server/README:9-11: the server reads the ADC value or the time on the
\* client's request, then distributes it to the client.
EveryRequestAnswered ==
    \A c \in Conn : \A n \in 1 .. MaxReq :
        asked[c] >= n ~> got[c] >= n \/ peer[c] # "up" \/ phase[c] = "closed"
=============================================================================
