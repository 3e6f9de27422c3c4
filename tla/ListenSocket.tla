----------------------------- MODULE ListenSocket -----------------------------
(***************************************************************************)
(* How the adcserver gets its listening socket: get_tcp_listen_socket_t of *)
(* server/src/adcnetwork.c, from the addresses that getaddrinfo returns to *)
(* the descriptor or -1 that the caller sees.                              *)
(*                                                                         *)
(* What the kernel answers for an address is fixed: whether it gives a     *)
(* socket of the family, and whether the socket can be bound.              *)
(***************************************************************************)
EXTENDS Naturals, Sequences, SequencesExt

CONSTANT MaxAddrs   \* bound: addresses getaddrinfo returns

ASSUME AddrsAssumption == MaxAddrs \in Nat \ {0}

VARIABLES
    addrs,     \* the list: what the kernel says to each address
    addr,      \* the position of addr in it, 0 for NULL
    listenfd,  \* the address of the socket in listenfd, 0 before the first
    open,      \* addresses with a socket that is open
    bound,     \* those of them that are bound
    lpc,       \* where get_tcp_listen_socket_t stands
    result     \* the address whose socket the caller holds, 0 for -1 or none

ListenVars == <<addrs, addr, listenfd, open, bound, lpc, result>>

Answer == {"no socket", "no bind", "ok"}
Position == 0 .. MaxAddrs

ListenTypeOK ==
    /\ addrs \in SeqOf(Answer, MaxAddrs)
    /\ addr \in 0 .. Len(addrs) /\ listenfd \in Position /\ result \in Position
    /\ open \subseteq Position /\ bound \subseteq Position
    /\ lpc \in {"start", "loop", "try", "bind", "got", "listen", "returned", "fault"}

ListenInit ==
    /\ addrs = <<>> /\ addr = 0 /\ listenfd = 0 /\ result = 0
    /\ open = {} /\ bound = {}
    /\ lpc = "start"

ReturnFd(r) == lpc' = "returned" /\ result' = r

\* getaddrinfo fails, or gives the list.
GetAddrInfo ==
    /\ lpc = "start"
    /\ \/ ReturnFd(0) /\ UNCHANGED <<addrs, addr>>
       \/ /\ addrs' \in SeqOf(Answer, MaxAddrs) \ {<<>>}
          /\ lpc' = "loop" /\ addr' = 1 /\ UNCHANGED result
    /\ UNCHANGED <<listenfd, open, bound>>

NextAddr_Twice ==
    /\ lpc = "loop"
    /\ addr' = IF addr + 1 < Len(addrs) THEN addr + 2 ELSE 0
    /\ lpc' = "try"
    /\ UNCHANGED <<addrs, listenfd, open, bound, result>>

\* The loop takes the next address before it looks at it: it skips the first,
\* and its test, like the one behind it, never sees a NULL addr.
NextAddr ==
    /\ lpc = "loop"
    /\ addr' = IF addr < Len(addrs) THEN addr + 1 ELSE 0
    /\ lpc' = "try"
    /\ UNCHANGED <<addrs, listenfd, open, bound, result>>

\* addr->ai_family of a NULL addr.
NullAddrFaults ==
    /\ lpc = "try" /\ addr = 0
    /\ lpc' = "fault"
    /\ UNCHANGED <<addrs, addr, listenfd, open, bound, result>>

SocketFails ==
    /\ lpc = "try" /\ addr # 0 /\ addrs[addr] = "no socket"
    /\ lpc' = "loop"
    /\ UNCHANGED <<addrs, addr, listenfd, open, bound, result>>

Socket ==
    /\ lpc = "try" /\ addr # 0 /\ addrs[addr] # "no socket"
    /\ listenfd' = addr
    /\ open' = open \cup {addr}
    /\ lpc' = "bind"
    /\ UNCHANGED <<addrs, addr, bound, result>>

Bind_Unchecked ==
    /\ lpc = "bind"
    /\ bound' = {a \in {addr} : addrs[a] = "ok"}
    /\ lpc' = "got"
    /\ UNCHANGED <<addrs, addr, listenfd, open, result>>

\* bind succeeds and the loop is left.
Bind ==
    /\ lpc = "bind" /\ addrs[addr] = "ok"
    /\ bound' = bound \cup {addr}
    /\ lpc' = "got"
    /\ UNCHANGED <<addrs, addr, listenfd, open, result>>

BindFails_NotClosed ==
    /\ lpc = "bind" /\ addrs[addr] # "ok"
    /\ lpc' = "loop"
    /\ UNCHANGED <<addrs, addr, listenfd, open, bound, result>>

BindFails ==
    /\ lpc = "bind" /\ addrs[addr] # "ok"
    /\ open' = open \ {listenfd}
    /\ lpc' = "loop"
    /\ UNCHANGED <<addrs, addr, listenfd, bound, result>>

CloseAndReturn ==
    /\ open' = open \ {listenfd} /\ bound' = bound \ {listenfd}
    /\ ReturnFd(0)

\* nq_set_fd_nonblocking.
SetNonblocking ==
    /\ lpc = "got"
    /\ \/ lpc' = "listen" /\ UNCHANGED <<open, bound, result>>
       \/ CloseAndReturn
    /\ UNCHANGED <<addrs, addr, listenfd>>

Listen ==
    /\ lpc = "listen"
    /\ \/ ReturnFd(listenfd) /\ UNCHANGED <<open, bound>>
       \/ CloseAndReturn
    /\ UNCHANGED <<addrs, addr, listenfd>>

ListenNext ==
    \/ GetAddrInfo \/ NextAddr \/ NullAddrFaults
    \/ SocketFails \/ Socket \/ Bind \/ BindFails
    \/ SetNonblocking \/ Listen

-----------------------------------------------------------------------------
(* Properties.                                                              *)

\* Whichever addresses and calls have failed, the socket that is returned is
\* bound and is the only one left open; after an error none is.
SocketIsSound ==
    lpc = "returned" => open = {result} \ {0} /\ open \subseteq bound

\* Where an address behind the first can be bound, the walk finds it before
\* it runs off the list into the NULL that the code does not test in time.
FindsLaterAddress ==
    lpc = "fault" => \A a \in 2 .. Len(addrs) : addrs[a] # "ok"
=============================================================================
