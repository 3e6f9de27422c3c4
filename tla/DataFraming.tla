----------------------------- MODULE DataFraming -----------------------------
(***************************************************************************)
(* One connection between a signal source and the adcserver as the stream  *)
(* of bytes it is: struct DataGram as each end lays it out, the read of    *)
(* the server (server/src/adcnetwork.c) and readData of the client         *)
(* (client/fyyoscillometer/src/fyynet.cc).                                 *)
(*                                                                         *)
(* The stream is cut at words, the unit of the fields.  Any number of the  *)
(* words on their way arrive before an end is told of them, and each end   *)
(* reads once when it is told.  A write is taken whole.                    *)
(***************************************************************************)
EXTENDS Naturals, Sequences, SequencesExt

CONSTANTS
    NAdc,          \* channels of the server, all of which are sampled
    Asked,         \* the channel of the source
    MaxRequests,   \* bound: requests of the source
    MaxCuts        \* bound: arrivals of a part of what is on its way

ASSUME FramingAssumption ==
    /\ NAdc \in Nat \ {0} /\ Asked \in 0 .. NAdc - 1
    /\ MaxRequests \in Nat /\ MaxCuts \in Nat

VARIABLES
    clientSize,   \* words of a datagram at the client
    junk,         \* what the members of sDataGram that nobody sets contain
    toServer,     \* words the server has not read
    atServer,     \* how many of them have arrived
    toClient,     \* words the client has not read
    atClient,
    requests,     \* requests written
    cuts,         \* arrivals of a part
    answers,      \* answers written
    closed,       \* the server has closed the connection
    lost,         \* words that readData took and discarded
    shown         \* the words of the sample shown in this step, or <<>>

FramingVars == <<clientSize, junk, toServer, atServer, toClient, atClient, requests,
                 cuts, answers, closed, lost, shown>>

\* time_t is a word on the 32-bit board, and two on a 64-bit host.
ServerSize == 5
Layout(size) ==
    IF size = ServerSize THEN <<"valid", "type", "sample_time", "data", "channel">>
    ELSE <<"valid", "type", "sample_time", "high", "data", "channel">>

GetTime == 1
GetData == 2
Clock == 9        \* a time: no other field has this value
Adc == {0, 2}     \* samples, one of them a number that other fields have

\* A word of the stream: its value, the answer it is of (0 for a request), and
\* its place in it.
Word == [val : Nat, of : Nat, at : Nat]

FramingTypeOK ==
    /\ clientSize \in {5, 6} /\ junk \in Adc
    /\ toServer \in Seq(Word) /\ atServer \in 0 .. Len(toServer)
    /\ toClient \in Seq(Word) /\ atClient \in 0 .. Len(toClient)
    /\ requests \in 0 .. MaxRequests /\ cuts \in 0 .. MaxCuts
    /\ answers \in Nat /\ lost \in Nat
    /\ closed \in BOOLEAN
    /\ shown \in Seq(Word)

FramingInit ==
    /\ clientSize \in {5, 6} /\ junk \in Adc
    /\ toServer = <<>> /\ atServer = 0 /\ toClient = <<>> /\ atClient = 0
    /\ requests = 0 /\ cuts = 0 /\ answers = 0 /\ closed = FALSE /\ lost = 0 /\ shown = <<>>

-----------------------------------------------------------------------------
Words(gram, size, n) ==
    [k \in 1 .. size |-> [val |-> gram[Layout(size)[k]], of |-> n, at |-> k]]

\* What a read of these words leaves in a datagram of zeroes.
Struct(words, size) ==
    [f \in ToSet(Layout(size)) |->
        LET k == CHOOSE k \in 1 .. size : Layout(size)[k] = f
        IN  IF k <= Len(words) THEN words[k].val ELSE 0]

\* n words of a stream of which k have arrived arrive: all there are, or a part.
Arrive(n, k, stream) ==
    /\ k + n <= Len(stream)
    /\ cuts' = IF k + n = Len(stream) THEN cuts ELSE cuts + 1
    /\ cuts' <= MaxCuts

Taken(stream, arrived, size) ==
    SubSeq(stream, 1, IF arrived < size THEN arrived ELSE size)

\* sendData with TYPE_GETDATA.
Request ==
    /\ ~closed /\ requests < MaxRequests
    /\ requests' = requests + 1
    /\ toServer' = toServer \o Words(
           [valid |-> 0, type |-> GetData, sample_time |-> junk, high |-> junk,
            data |-> junk, channel |-> Asked], clientSize, 0)
    /\ shown' = <<>>
    /\ UNCHANGED <<clientSize, junk, atServer, toClient, atClient, cuts, answers,
                   closed, lost>>

\* The switch: what may be written for a datagram, if the channel is valid.
AnswersTo(gram) ==
    CASE gram.type = GetData ->
             {[gram EXCEPT !.valid = 0]} \cup
             {[gram EXCEPT !.valid = 1, !.sample_time = Clock, !.data = d] : d \in Adc}
      [] gram.type = GetTime -> {[gram EXCEPT !.valid = 1, !.sample_time = Clock]}
      [] OTHER -> {[gram EXCEPT !.valid = 0]}

\* n words arrive at the server, and it reads once.
ServerReads(n) ==
    /\ ~closed /\ Arrive(n, atServer, toServer)
    /\ LET words == Taken(toServer, atServer + n, ServerSize)
           gram == Struct(words, ServerSize)
       IN  /\ toServer' = SubSeq(toServer, Len(words) + 1, Len(toServer))
           /\ atServer' = atServer + n - Len(words)
           /\ IF gram.type = GetData /\ gram.channel >= NAdc
              THEN closed' = TRUE /\ UNCHANGED <<toClient, answers>>
              ELSE /\ answers' = answers + 1
                   /\ \E a \in AnswersTo(gram) :
                          toClient' = toClient \o Words(a, ServerSize, answers')
                   /\ UNCHANGED closed
    /\ shown' = <<>>
    /\ UNCHANGED <<clientSize, junk, atClient, requests, lost>>

IsSample(gram) == gram.valid # 0 /\ gram.channel = Asked /\ gram.type = GetData

ClientReads_ShortToo(n) ==
    /\ Arrive(n, atClient, toClient)
    /\ LET words == Taken(toClient, atClient + n, clientSize)
       IN  /\ toClient' = SubSeq(toClient, Len(words) + 1, Len(toClient))
           /\ atClient' = atClient + n - Len(words)
           /\ shown' = IF IsSample(Struct(words, clientSize)) THEN words ELSE <<>>
    /\ UNCHANGED <<clientSize, junk, toServer, atServer, requests, answers, closed, lost>>

\* n words arrive at the client: one readyRead, one readData.  What a short
\* read took is discarded.
ClientReads(n) ==
    /\ Arrive(n, atClient, toClient)
    /\ LET words == Taken(toClient, atClient + n, clientSize)
           short == Len(words) < clientSize
       IN  /\ toClient' = SubSeq(toClient, Len(words) + 1, Len(toClient))
           /\ atClient' = atClient + n - Len(words)
           /\ lost' = IF short THEN lost + Len(words) ELSE lost
           /\ shown' = IF ~short /\ IsSample(Struct(words, clientSize)) THEN words ELSE <<>>
    /\ UNCHANGED <<clientSize, junk, toServer, atServer, requests, answers, closed>>

FramingNext ==
    \/ Request
    \/ \E n \in 1 .. Len(toServer) : ServerReads(n)
    \/ \E n \in 1 .. Len(toClient) : ClientReads(n)

FramingSpec == FramingInit /\ [][FramingNext]_FramingVars

-----------------------------------------------------------------------------
(* Properties.                                                              *)

\* The words are those of one answer, in their places.
Whole(words) ==
    Len(words) = ServerSize /\ \A k \in DOMAIN words : words[k] = [words[1] EXCEPT !.val = words[k].val, !.at = k]

\* However requests are cut and joined on their way to the server, and answers
\* on theirs to the client, a sample that is shown is an answer of the server
\* as long as both ends agree on the layout and no short read has discarded a
\* part of a datagram: fyynet.cc:131 discards the part, not the datagram, and
\* what is shown after it, until other short reads make up a datagram, is
\* taken from two of them.  Where the layouts differ no sample is an answer.
SamplesAreAnswers ==
    shown # <<>> =>
        (Whole(shown) <=> clientSize = ServerSize /\ lost % ServerSize = 0)
=============================================================================
