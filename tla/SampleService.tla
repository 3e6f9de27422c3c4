---------------------------- MODULE SampleService ----------------------------
(***************************************************************************)
(* What the adcserver promises a client, whatever epoll, the sockets and   *)
(* the ADC do underneath: the requests of a session are answered one for   *)
(* one and in order, every answer is one the request allows, and the       *)
(* server hangs up only on a client that has left or that asks for a       *)
(* channel the server does not sample.  server/src/adcnetwork.c (module    *)
(* AdcServer) implements it.                                               *)
(***************************************************************************)
EXTENDS Naturals, Sequences

CONSTANTS
    Conn,      \* client sessions
    Request,   \* datagrams a client may send: [type, channel, valid]
    Sampled,   \* channels the server samples
    NoData     \* the data field of a datagram that carries no sample

VARIABLES
    session,   \* "none", "waiting" (to be admitted), "live" or "over"
    left,      \* the client has closed its end
    pending,   \* requests not answered yet, oldest first
    answers    \* answers on their way to the client

svars == <<session, left, pending, answers>>

\* The server samples only the channels it was started with.
Refused(r) == r.type = "GETDATA" /\ r.channel \notin Sampled

\* An answer repeats type and channel.  It is valid only if it was produced
\* for the request: a sample of the device of the channel asked for, or the
\* time of day.  Which voltage that device returns is the driver's matter.
Answers(r) ==
    {p \in [type : {r.type}, channel : {r.channel},
            valid : BOOLEAN, data : Sampled \cup {NoData}] :
        /\ p.valid => p.type # "UNTYPE"
        /\ p.type = "GETDATA" /\ p.valid => p.data = r.channel
        /\ p.type # "GETDATA" => p.data = NoData}

ServiceInit ==
    /\ session = [c \in Conn |-> "none"]
    /\ left = [c \in Conn |-> FALSE]
    /\ pending = [c \in Conn |-> <<>>]
    /\ answers = [c \in Conn |-> <<>>]

Call(c) ==
    /\ session[c] = "none"
    /\ session' = [session EXCEPT ![c] = "waiting"]
    /\ UNCHANGED <<left, pending, answers>>

Admit(c) ==
    /\ session[c] = "waiting"
    /\ session' = [session EXCEPT ![c] = "live"]
    /\ UNCHANGED <<left, pending, answers>>

Ask(c, r) ==
    /\ session[c] \in {"waiting", "live"}
    /\ ~left[c]
    /\ pending' = [pending EXCEPT ![c] = Append(@, r)]
    /\ UNCHANGED <<session, left, answers>>

Answer(c) ==
    /\ session[c] = "live"
    /\ pending[c] # <<>>
    /\ ~left[c]
    /\ \E p \in Answers(Head(pending[c])) : answers' = [answers EXCEPT ![c] = Append(@, p)]
    /\ pending' = [pending EXCEPT ![c] = Tail(@)]
    /\ UNCHANGED <<session, left>>

\* An answer to a client that has left goes nowhere.
Discard(c) ==
    /\ session[c] = "live"
    /\ pending[c] # <<>>
    /\ left[c]
    /\ pending' = [pending EXCEPT ![c] = Tail(@)]
    /\ UNCHANGED <<session, left, answers>>

Deliver(c) ==
    /\ answers[c] # <<>>
    /\ answers' = [answers EXCEPT ![c] = Tail(@)]
    /\ UNCHANGED <<session, left, pending>>

Leave(c) ==
    /\ session[c] \in {"waiting", "live"}
    /\ ~left[c]
    /\ left' = [left EXCEPT ![c] = TRUE]
    /\ answers' = [answers EXCEPT ![c] = <<>>]
    /\ UNCHANGED <<session, pending>>

\* The server runs out of resources before it admits the session, hangs up
\* on a client that has left, or refuses the request whose turn it is.
End(c) ==
    /\ \/ session[c] = "waiting"
       \/ session[c] = "live" /\ left[c]
       \/ session[c] = "live" /\ pending[c] # <<>> /\ Refused(Head(pending[c]))
    /\ session' = [session EXCEPT ![c] = "over"]
    /\ pending' = [pending EXCEPT ![c] = <<>>]
    /\ answers' = [answers EXCEPT ![c] = <<>>]
    /\ UNCHANGED left

Serve(c) == Admit(c) \/ Answer(c) \/ Discard(c) \/ End(c)

ServiceNext ==
    \E c \in Conn :
        \/ Call(c)
        \/ \E r \in Request : Ask(c, r)
        \/ Deliver(c)
        \/ Leave(c)
        \/ Serve(c)

ServiceSafe == ServiceInit /\ [][ServiceNext]_svars

\* Nobody is kept waiting: admission, every answer and every hang-up come.
ServiceLive == ServiceSafe /\ \A c \in Conn : WF_svars(Serve(c))
=============================================================================
