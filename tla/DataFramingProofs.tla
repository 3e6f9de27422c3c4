--------------------------- MODULE DataFramingProofs ---------------------------
(***************************************************************************)
(* A sample that is shown is an answer, however the stream was cut: proved *)
(* of DataFraming for every number of channels, requests and arrivals.     *)
(***************************************************************************)
EXTENDS DataFraming, SequenceTheorems, TLAPS

USE FramingAssumption

-----------------------------------------------------------------------------
(* The inductive invariant.                                                 *)

\* Word d from the end of a stream of whole answers, the last of which is
\* number n: its answer and its place in it.
InPlace(word, d, n) ==
    /\ word.at = ServerSize - (d % ServerSize)
    /\ word.of = n - (d \div ServerSize)

\* What is on its way to the client is the end of a row of whole answers.
RowOfAnswers ==
    \A k \in 1 .. Len(toClient) : InPlace(toClient[k], Len(toClient) - k, answers)

\* A client of the server's layout is as far out of step as the parts it has
\* discarded make it.
InStep == clientSize = ServerSize => (lost + Len(toClient)) % ServerSize = 0

IInv ==
    /\ FramingTypeOK
    /\ RowOfAnswers
    /\ InStep
    /\ SamplesAreAnswers

-----------------------------------------------------------------------------
(* Places in a row of answers.                                              *)

\* An answer more moves what is in front of it by one answer.
LEMMA OneAnswerMore ==
    ASSUME NEW d \in Nat
    PROVE  (d + 5) % 5 = d % 5 /\ (d + 5) \div 5 = (d \div 5) + 1
  OBVIOUS

\* The places within the last answer.
LEMMA LastAnswer ==
    ASSUME NEW k \in 1 .. 5
    PROVE  (5 - k) % 5 = 5 - k /\ (5 - k) \div 5 = 0
  OBVIOUS

\* A row that ends with whole answers begins with a whole one if and only if
\* its length is that of whole answers.
LEMMA FirstAnswer ==
    ASSUME NEW n \in Nat, n >= 5
    PROVE  /\ n % 5 = 0 =>
                  \A k \in 1 .. 5 : /\ 5 - ((n - k) % 5) = k
                                    /\ (n - k) \div 5 = (n - 1) \div 5
           /\ 5 - ((n - 1) % 5) = 1 => n % 5 = 0
  <1>1. ASSUME n % 5 = 0, NEW k \in 1 .. 5
        PROVE  5 - ((n - k) % 5) = k /\ (n - k) \div 5 = (n - 1) \div 5
    BY <1>1
  <1>2. ASSUME 5 - ((n - 1) % 5) = 1 PROVE n % 5 = 0
    BY <1>2
  <1>. QED  BY <1>1, <1>2

-----------------------------------------------------------------------------
(* Datagrams.                                                               *)

Field == {"valid", "type", "sample_time", "data", "channel"}
Gram == [Field -> Nat]

\* The five fields of the server's layout, each in one place.
LEMMA ServerLayout ==
    /\ ToSet(Layout(ServerSize)) = Field
    /\ \A k \in 1 .. ServerSize : Layout(ServerSize)[k] \in Field
    /\ \A f \in Field : \E k \in 1 .. ServerSize : Layout(ServerSize)[k] = f
  <1>. DEFINE l == <<"valid", "type", "sample_time", "data", "channel">>
  <1>1. Layout(ServerSize) = l
    BY DEF Layout
  <1>2. /\ l[1] = "valid" /\ l[2] = "type" /\ l[3] = "sample_time" /\ l[4] = "data"
        /\ l[5] = "channel" /\ DOMAIN l = 1 .. 5
    OBVIOUS
  <1>3. \A k \in 1 .. 5 : k = 1 \/ k = 2 \/ k = 3 \/ k = 4 \/ k = 5
    OBVIOUS
  <1>. HIDE DEF l
  <1>4. \A k \in 1 .. 5 : l[k] \in Field
    BY <1>2, <1>3 DEF Field
  <1>5. \A f \in Field : \E k \in 1 .. 5 : l[k] = f
    BY <1>2 DEF Field
  <1>6. ToSet(l) = Field
    BY <1>2, <1>4, <1>5 DEF ToSet
  <1>. QED  BY <1>1, <1>4, <1>5, <1>6 DEF ServerSize

\* What a read leaves in a datagram is a number in every field.
LEMMA StructType ==
    ASSUME NEW words \in Seq(Word)
    PROVE  Struct(words, ServerSize) \in Gram
  <1>. DEFINE place(f) == CHOOSE k \in 1 .. ServerSize : Layout(ServerSize)[k] = f
              value(f) == IF place(f) <= Len(words) THEN words[place(f)].val ELSE 0
  <1>1. ASSUME NEW f \in Field PROVE value(f) \in Nat
    <2>1. place(f) \in 1 .. ServerSize
      BY ServerLayout
    <2>. HIDE DEF place
    <2>2. CASE place(f) <= Len(words)
      <3>1. place(f) \in 1 .. Len(words)
        BY <2>1, <2>2 DEF ServerSize
      <3>2. words[place(f)] \in Word
        BY <3>1
      <3>. QED  BY <2>2, <3>2 DEF Word
    <2>3. CASE ~ (place(f) <= Len(words))
      BY <2>3
    <2>. QED  BY <2>2, <2>3
  <1>2. Struct(words, ServerSize) = [f \in Field |-> value(f)]
    BY ServerLayout DEF Struct
  <1>. HIDE DEF value
  <1>. QED  BY <1>1, <1>2 DEF Gram

\* What the switch writes for a datagram is one.
LEMMA AnswerType ==
    ASSUME NEW gram \in Gram, NEW a \in AnswersTo(gram)
    PROVE  a \in Gram
  <1>1. \A d \in Adc : d \in Nat
    BY DEF Adc
  <1>2. /\ [gram EXCEPT !.valid = 0] \in Gram
        /\ [gram EXCEPT !.valid = 1, !.sample_time = Clock] \in Gram
        /\ \A d \in Nat : [gram EXCEPT !.valid = 1, !.sample_time = Clock, !.data = d] \in Gram
    BY DEF Gram, Clock
  <1>3. \/ a = [gram EXCEPT !.valid = 0]
        \/ a = [gram EXCEPT !.valid = 1, !.sample_time = Clock]
        \/ \E d \in Adc : a = [gram EXCEPT !.valid = 1, !.sample_time = Clock, !.data = d]
    BY DEF AnswersTo, GetData, GetTime
  <1>. QED  BY <1>1, <1>2, <1>3

\* A datagram as words.
LEMMA WordsType ==
    ASSUME NEW gram, NEW size \in Nat, NEW n \in Nat,
           \A k \in 1 .. size : gram[Layout(size)[k]] \in Nat
    PROVE  /\ Words(gram, size, n) \in Seq(Word)
           /\ Len(Words(gram, size, n)) = size
           /\ \A k \in 1 .. size :
                  Words(gram, size, n)[k].of = n /\ Words(gram, size, n)[k].at = k
  <1>1. \A k \in 1 .. size : [val |-> gram[Layout(size)[k]], of |-> n, at |-> k] \in Word
    BY DEF Word
  <1>2. Words(gram, size, n) \in [1 .. size -> Word]
    BY <1>1 DEF Words
  <1>3. Words(gram, size, n) \in Seq(Word) /\ Len(Words(gram, size, n)) = size
    BY <1>2
  <1>. QED  BY <1>3 DEF Words

\* An answer as words.
LEMMA AnswerWords ==
    ASSUME NEW a \in Gram, NEW n \in Nat
    PROVE  /\ Words(a, ServerSize, n) \in Seq(Word)
           /\ Len(Words(a, ServerSize, n)) = 5
           /\ \A k \in 1 .. 5 :
                  Words(a, ServerSize, n)[k].of = n /\ Words(a, ServerSize, n)[k].at = k
  <1>1. \A k \in 1 .. ServerSize : a[Layout(ServerSize)[k]] \in Nat
    BY ServerLayout DEF Gram
  <1>2. ServerSize \in Nat
    BY DEF ServerSize
  <1>3. /\ Words(a, ServerSize, n) \in Seq(Word)
        /\ Len(Words(a, ServerSize, n)) = ServerSize
    BY Zenon, <1>1, <1>2, WordsType
  <1>4. \A k \in 1 .. ServerSize :
            Words(a, ServerSize, n)[k].of = n /\ Words(a, ServerSize, n)[k].at = k
    BY DEF Words
  <1>. QED  BY Zenon, <1>3, <1>4 DEF ServerSize

\* The words of a request, in the layout of either kind of client.
LEMMA RequestType ==
    ASSUME NEW j \in Nat, NEW size \in {5, 6}
    PROVE  Words([valid |-> 0, type |-> GetData, sample_time |-> j, high |-> j,
                  data |-> j, channel |-> Asked], size, 0) \in Seq(Word)
  <1>. DEFINE gram == [valid |-> 0, type |-> GetData, sample_time |-> j, high |-> j,
                       data |-> j, channel |-> Asked]
              six == <<"valid", "type", "sample_time", "high", "data", "channel">>
  <1>1. /\ gram["valid"] \in Nat /\ gram["type"] \in Nat /\ gram["sample_time"] \in Nat
        /\ gram["high"] \in Nat /\ gram["data"] \in Nat /\ gram["channel"] \in Nat
    BY DEF GetData
  <1>. HIDE DEF gram
  <1>2. CASE size = 5
    <2>1. \A k \in 1 .. 5 : gram[Layout(5)[k]] \in Nat
      BY <1>1, ServerLayout DEF Field, ServerSize
    <2>. QED  BY <1>2, <2>1, WordsType DEF gram
  <1>3. CASE size = 6
    <2>1. Layout(6) = six
      BY DEF Layout, ServerSize
    <2>2. /\ six[1] = "valid" /\ six[2] = "type" /\ six[3] = "sample_time"
          /\ six[4] = "high" /\ six[5] = "data" /\ six[6] = "channel"
      OBVIOUS
    <2>. HIDE DEF six
    <2>3. \A k \in 1 .. 6 : k = 1 \/ k = 2 \/ k = 3 \/ k = 4 \/ k = 5 \/ k = 6
      OBVIOUS
    <2>4. \A k \in 1 .. 6 : gram[six[k]] \in Nat
      BY <1>1, <2>2, <2>3
    <2>. QED  BY <1>3, <2>1, <2>4, WordsType DEF gram
  <1>. QED  BY <1>2, <1>3

\* What a read takes off a stream.
LEMMA TakenFacts ==
    ASSUME NEW stream \in Seq(Word), NEW arrived \in 0 .. Len(stream), NEW size \in Nat
    PROVE  /\ Taken(stream, arrived, size) \in Seq(Word)
           /\ Len(Taken(stream, arrived, size)) = IF arrived < size THEN arrived ELSE size
           /\ \A k \in 1 .. Len(Taken(stream, arrived, size)) :
                  Taken(stream, arrived, size)[k] = stream[k]
  <1>. DEFINE n == IF arrived < size THEN arrived ELSE size
  <1>1. n \in 0 .. Len(stream) /\ \A k \in 1 .. n : stream[k] \in Word
    OBVIOUS
  <1>2. Taken(stream, arrived, size) = SubSeq(stream, 1, n)
    BY DEF Taken
  <1>. HIDE DEF n
  <1>3. /\ SubSeq(stream, 1, n) \in Seq(Word)
        /\ Len(SubSeq(stream, 1, n)) = IF 1 <= n THEN n - 1 + 1 ELSE 0
        /\ \A k \in 1 .. n - 1 + 1 : SubSeq(stream, 1, n)[k] = stream[1 + k - 1]
    BY <1>1, SubSeqProperties
  <1>4. Len(SubSeq(stream, 1, n)) = n /\ \A k \in 1 .. n : SubSeq(stream, 1, n)[k] = stream[k]
    BY <1>1, <1>3
  <1>. QED  BY <1>2, <1>3, <1>4 DEF n

\* What it leaves.
LEMMA RestFacts ==
    ASSUME NEW stream \in Seq(Word), NEW n \in 0 .. Len(stream)
    PROVE  /\ SubSeq(stream, n + 1, Len(stream)) \in Seq(Word)
           /\ Len(SubSeq(stream, n + 1, Len(stream))) = Len(stream) - n
           /\ \A k \in 1 .. Len(stream) - n :
                  SubSeq(stream, n + 1, Len(stream))[k] = stream[k + n]
  <1>. DEFINE all == Len(stream)
              rest == SubSeq(stream, n + 1, all)
  <1>1. all \in Nat /\ n \in 0 .. all /\ \A k \in n + 1 .. all : stream[k] \in Word
    OBVIOUS
  <1>. HIDE DEF all
  <1>2. /\ rest \in Seq(Word)
        /\ Len(rest) = IF n + 1 <= all THEN all - (n + 1) + 1 ELSE 0
        /\ \A k \in 1 .. all - (n + 1) + 1 : rest[k] = stream[n + 1 + k - 1]
    BY <1>1, SubSeqProperties
  <1>. HIDE DEF rest
  <1>3. Len(rest) = all - n
    <2>1. CASE n + 1 <= all
      <3>1. all - (n + 1) + 1 = all - n
        BY <1>1
      <3>. QED  BY <1>2, <2>1, <3>1
    <2>2. CASE ~ (n + 1 <= all)
      <3>1. all - n = 0
        BY <1>1, <2>2
      <3>. QED  BY <1>2, <2>2, <3>1
    <2>. QED  BY <2>1, <2>2
  <1>4. ASSUME NEW k \in 1 .. all - n PROVE rest[k] = stream[k + n]
    <2>1. k \in 1 .. all - (n + 1) + 1 /\ n + 1 + k - 1 = k + n
      BY <1>1
    <2>. QED  BY <1>2, <2>1
  <1>. QED  BY Zenon, <1>2, <1>3, <1>4 DEF rest, all

-----------------------------------------------------------------------------
(* The steps.                                                               *)

\* A request is on its way to the server only.
LEMMA RequestKeeps ==
    ASSUME IInv, Request
    PROVE  IInv'
  <1>. DEFINE words == Words(
                  [valid |-> 0, type |-> GetData, sample_time |-> junk, high |-> junk,
                   data |-> junk, channel |-> Asked], clientSize, 0)
  <1>1. junk \in Nat /\ clientSize \in {5, 6} /\ toServer \in Seq(Word)
    BY DEF IInv, FramingTypeOK, Adc
  <1>2. words \in Seq(Word)
    BY <1>1, RequestType
  <1>3. toServer' = toServer \o words
    BY DEF Request
  <1>. HIDE DEF words
  <1>4. /\ toServer' \in Seq(Word) /\ Len(toServer') = Len(toServer) + Len(words)
        /\ Len(words) \in Nat
    BY <1>1, <1>2, <1>3
  <1>5. /\ requests' \in 0 .. MaxRequests /\ atServer' \in 0 .. Len(toServer')
        /\ shown' = <<>> /\ shown' \in Seq(Word)
        /\ UNCHANGED <<clientSize, junk, toClient, atClient, cuts, answers, closed, lost>>
    BY <1>1, <1>4 DEF Request, IInv, FramingTypeOK
  <1>6. FramingTypeOK'
    BY <1>4, <1>5 DEF IInv, FramingTypeOK
  <1>7. RowOfAnswers' /\ InStep' /\ SamplesAreAnswers'
    BY <1>5 DEF IInv, RowOfAnswers, InStep, SamplesAreAnswers
  <1>. QED  BY <1>6, <1>7 DEF IInv

\* An answer is put behind the others as a whole, whatever the server has read.
LEMMA AnswerKeepsRow ==
    ASSUME FramingTypeOK, RowOfAnswers, InStep,
           NEW a \in Gram, NEW m \in Nat, m = answers + 1, answers' = m,
           toClient' = toClient \o Words(a, ServerSize, m),
           UNCHANGED <<clientSize, lost>>
    PROVE  /\ toClient' \in Seq(Word) /\ Len(toClient') >= Len(toClient)
           /\ RowOfAnswers' /\ InStep'
  <1>. DEFINE words == Words(a, ServerSize, m)
              all == Len(toClient)
  <1>1. /\ answers \in Nat /\ m \in Nat /\ toClient \in Seq(Word)
        /\ all \in Nat /\ lost \in Nat
    BY DEF FramingTypeOK
  <1>2. /\ words \in Seq(Word) /\ Len(words) = 5
        /\ \A k \in 1 .. 5 : words[k].of = m /\ words[k].at = k
    BY AnswerWords
  <1>3. toClient' = toClient \o words
    OBVIOUS
  <1>. HIDE DEF words
  <1>4. /\ toClient' \in Seq(Word) /\ Len(toClient') = all + 5
        /\ \A k \in 1 .. all : toClient'[k] = toClient[k]
        /\ \A k \in 1 .. 5 : toClient'[all + k] = words[k]
    <2>1. /\ toClient \o words \in Seq(Word) /\ Len(toClient \o words) = all + Len(words)
          /\ \A k \in 1 .. all + Len(words) :
                 (toClient \o words)[k] = IF k <= all THEN toClient[k] ELSE words[k - all]
      BY <1>1, <1>2, ConcatProperties
    <2>. HIDE DEF all
    <2>2. \A k \in 1 .. all : k \in 1 .. all + 5 /\ k <= all
      BY <1>1
    <2>3. \A k \in 1 .. 5 : all + k \in 1 .. all + 5 /\ ~ (all + k <= all) /\ all + k - all = k
      BY <1>1
    <2>4. \A k \in 1 .. all : toClient'[k] = toClient[k]
      BY Zenon, <1>2, <1>3, <2>1, <2>2
    <2>5. \A k \in 1 .. 5 : toClient'[all + k] = words[k]
      <3>1. ASSUME NEW k \in 1 .. 5 PROVE (toClient \o words)[all + k] = words[k]
        <4>. DEFINE l == all + k
        <4>1. l \in 1 .. all + 5 /\ ~ (l <= all) /\ l - all = k
          BY <1>1
        <4>2. Len(words) = 5
          BY <1>2
        <4>. HIDE DEF l
        <4>3. l \in 1 .. all + Len(words)
          BY Zenon, <4>1, <4>2
        <4>4. (toClient \o words)[l] = words[l - all]
          BY Zenon, <2>1, <4>1, <4>3
        <4>. QED  BY Zenon, <4>1, <4>4 DEF l
      <3>. QED  BY Zenon, <1>3, <3>1
    <2>. QED  BY Zenon, <1>2, <1>3, <2>1, <2>4, <2>5
  <1>5. \A k \in 1 .. all : InPlace(toClient[k], all - k, answers)
    BY DEF RowOfAnswers
  <1>. HIDE DEF all
  <1>6. ASSUME NEW k \in 1 .. all + 5 PROVE InPlace(toClient'[k], all + 5 - k, m)
    <2>1. CASE k <= all
      <3>1. k \in 1 .. all /\ all - k \in Nat /\ all + 5 - k = (all - k) + 5
        BY <1>1, <2>1
      <3>2. ((all - k) + 5) % 5 = (all - k) % 5 /\ ((all - k) + 5) \div 5 = ((all - k) \div 5) + 1
        BY <3>1, OneAnswerMore
      <3>3. (all - k) \div 5 \in Nat
        BY <3>1
      <3>. DEFINE d == all - k
      <3>. HIDE DEF d
      <3>4. toClient'[k] = toClient[k] /\ InPlace(toClient[k], d, answers)
        BY <1>4, <1>5, <3>1 DEF d
      <3>5. /\ (d + 5) % 5 = d % 5 /\ (d + 5) \div 5 = (d \div 5) + 1 /\ d \div 5 \in Nat
            /\ all + 5 - k = d + 5
        BY <3>1, <3>2, <3>3 DEF d
      <3>6. m - ((d \div 5) + 1) = answers - (d \div 5)
        BY <1>1, <3>5
      <3>7. InPlace(toClient[k], d + 5, m)
        BY Zenon, <3>4, <3>5, <3>6 DEF InPlace, ServerSize
      <3>. QED  BY Zenon, <3>4, <3>5, <3>7
    <2>2. CASE k > all
      <3>1. PICK j \in 1 .. 5 : k = all + j
        <4>1. k - all \in 1 .. 5 /\ k = all + (k - all)
          BY <1>1, <2>2
        <4>. QED  BY <4>1
      <3>2. all + 5 - k = 5 - j
        BY <1>1, <3>1
      <3>3. toClient'[k].of = m /\ toClient'[k].at = j
        <4>1. toClient'[k] = words[j]
          BY Zenon, <1>4, <3>1
        <4>2. words[j].of = m /\ words[j].at = j
          BY Zenon, <1>2, <3>1
        <4>. QED  BY Zenon, <4>1, <4>2
      <3>4. (5 - j) % 5 = 5 - j /\ (5 - j) \div 5 = 0 /\ 5 - (5 - j) = j /\ m - 0 = m
        <4>1. 5 - (5 - j) = j /\ m - 0 = m
          BY <1>1
        <4>2. (5 - j) % 5 = 5 - j /\ (5 - j) \div 5 = 0
          BY Zenon, LastAnswer
        <4>. QED  BY Zenon, <4>1, <4>2
      <3>5. InPlace(toClient'[k], 5 - j, m)
        BY Zenon, <3>3, <3>4 DEF InPlace, ServerSize
      <3>. QED  BY Zenon, <3>2, <3>5
    <2>3. k <= all \/ k > all
      BY <1>1
    <2>. QED  BY Zenon, <2>1, <2>2, <2>3
  <1>7. RowOfAnswers'
    <2>1. ASSUME NEW k \in 1 .. Len(toClient')
          PROVE  InPlace(toClient'[k], Len(toClient') - k, m)
      <3>1. k \in 1 .. all + 5 /\ Len(toClient') - k = all + 5 - k
        BY <1>1, <1>4
      <3>2. InPlace(toClient'[k], all + 5 - k, m)
        BY Zenon, <1>6, <3>1
      <3>. QED  BY Zenon, <3>1, <3>2
    <2>. QED  BY Zenon, <2>1 DEF RowOfAnswers
  <1>8. InStep'
    <2>1. clientSize = 5 => (lost + all) % 5 = 0
      BY DEF InStep, ServerSize, all
    <2>2. ((lost + all) + 5) % 5 = (lost + all) % 5 /\ lost + (all + 5) = (lost + all) + 5
      BY <1>1, OneAnswerMore
    <2>. QED  BY <1>4, <2>1, <2>2 DEF InStep, ServerSize
  <1>. QED  BY <1>1, <1>4, <1>7, <1>8 DEF all

\* The server reads once: what it takes is gone, and it closes or answers.
LEMMA ServerReadsKeeps ==
    ASSUME IInv, NEW n \in 1 .. Len(toServer), ServerReads(n)
    PROVE  IInv'
  <1>. DEFINE words == Taken(toServer, atServer + n, ServerSize)
              gram == Struct(words, ServerSize)
              rest == SubSeq(toServer, Len(words) + 1, Len(toServer))
  <1>1. /\ toServer \in Seq(Word) /\ atServer \in 0 .. Len(toServer) /\ Len(toServer) \in Nat
        /\ cuts \in 0 .. MaxCuts
    BY DEF IInv, FramingTypeOK
  <1>2. atServer + n \in 0 .. Len(toServer) /\ cuts' \in 0 .. MaxCuts
    BY <1>1 DEF ServerReads, Arrive
  <1>3. /\ words \in Seq(Word) /\ rest \in Seq(Word)
        /\ Len(words) = IF atServer + n < ServerSize THEN atServer + n ELSE ServerSize
        /\ Len(rest) = Len(toServer) - Len(words)
    <2>1. ServerSize \in Nat
      BY DEF ServerSize
    <2>2. /\ words \in Seq(Word)
          /\ Len(words) = IF atServer + n < ServerSize THEN atServer + n ELSE ServerSize
      BY <1>1, <1>2, <2>1, TakenFacts
    <2>. HIDE DEF words
    <2>3. Len(words) \in 0 .. Len(toServer)
      BY <1>1, <1>2, <2>1, <2>2
    <2>. QED  BY <1>1, <2>2, <2>3, RestFacts
  <1>4. /\ toServer' = rest /\ atServer' = atServer + n - Len(words)
        /\ \/ UNCHANGED <<toClient, answers>> /\ closed' = TRUE
           \/ /\ answers' = answers + 1 /\ closed' = closed
              /\ \E a \in AnswersTo(gram) : toClient' = toClient \o Words(a, ServerSize, answers')
        /\ shown' = <<>>
        /\ UNCHANGED <<clientSize, junk, atClient, requests, lost>>
    BY DEF ServerReads
  <1>5. gram \in Gram
    BY <1>3, StructType
  <1>. HIDE DEF words, gram, rest
  <1>6. toServer' \in Seq(Word) /\ atServer' \in 0 .. Len(toServer')
    BY <1>1, <1>2, <1>3, <1>4 DEF ServerSize
  <1>7. /\ toClient' \in Seq(Word) /\ answers' \in Nat /\ atClient' \in 0 .. Len(toClient')
        /\ RowOfAnswers' /\ InStep' /\ closed' \in BOOLEAN
    <2>1. CASE UNCHANGED <<toClient, answers>> /\ closed' = TRUE
      BY <1>4, <2>1 DEF IInv, FramingTypeOK, RowOfAnswers, InStep
    <2>2. CASE /\ answers' = answers + 1 /\ closed' = closed
               /\ \E a \in AnswersTo(gram) : toClient' = toClient \o Words(a, ServerSize, answers')
      <3>1. PICK a \in AnswersTo(gram) : toClient' = toClient \o Words(a, ServerSize, answers')
        BY <2>2
      <3>2. a \in Gram
        BY <1>5, AnswerType
      <3>3. FramingTypeOK /\ RowOfAnswers /\ InStep
        BY DEF IInv
      <3>4. /\ toClient' \in Seq(Word) /\ Len(toClient') >= Len(toClient)
            /\ RowOfAnswers' /\ InStep'
        <4>1. PICK m \in Nat : m = answers + 1
          BY <3>3 DEF FramingTypeOK
        <4>2. answers' = m /\ toClient' = toClient \o Words(a, ServerSize, m)
          BY <2>2, <3>1, <4>1
        <4>. QED  BY <1>4, <3>2, <3>3, <4>1, <4>2, AnswerKeepsRow
      <3>. QED  BY <1>4, <2>2, <3>3, <3>4 DEF FramingTypeOK
    <2>. QED  BY <1>4, <2>1, <2>2
  <1>8. FramingTypeOK'
    BY <1>2, <1>4, <1>6, <1>7 DEF IInv, FramingTypeOK
  <1>. QED  BY <1>4, <1>7, <1>8 DEF IInv, SamplesAreAnswers

\* Five words in step are one answer, and out of step they are not.
LEMMA WholeInStep ==
    ASSUME FramingTypeOK, RowOfAnswers, InStep,
           NEW words \in Seq(Word), Len(words) <= Len(toClient),
           \A k \in 1 .. Len(words) : words[k] = toClient[k],
           Len(words) = clientSize
    PROVE  Whole(words) <=> clientSize = ServerSize /\ lost % ServerSize = 0
  <1>. DEFINE all == Len(toClient)
  <1>1. all \in Nat /\ lost \in Nat /\ answers \in Nat /\ toClient \in Seq(Word)
    BY DEF FramingTypeOK
  <1>2. CASE clientSize # 5
    BY <1>2 DEF Whole, ServerSize
  <1>3. CASE clientSize = 5
    <2>1. /\ all >= 5 /\ DOMAIN words = 1 .. 5 /\ Len(words) = 5
          /\ (lost + all) % 5 = 0
      BY <1>3 DEF InStep, ServerSize
    <2>2. \A k \in 1 .. 5 : /\ words[k] \in Word
                            /\ words[k].at = 5 - ((all - k) % 5)
                            /\ words[k].of = answers - ((all - k) \div 5)
      <3>1. \A k \in 1 .. 5 : k \in 1 .. all /\ k \in 1 .. Len(words) /\ toClient[k] = words[k]
        <4>1. \A k \in 1 .. 5 : k \in 1 .. Len(words) /\ toClient[k] = words[k]
          BY <2>1
        <4>. HIDE DEF all
        <4>2. \A k \in 1 .. 5 : k \in 1 .. all
          BY <1>1, <2>1
        <4>. QED  BY <4>1, <4>2
      <3>2. \A k \in 1 .. all : InPlace(toClient[k], all - k, answers)
        BY DEF RowOfAnswers
      <3>3. \A k \in 1 .. 5 : words[k] \in Word
        <4>1. \A k \in 1 .. Len(words) : words[k] \in Word
          OBVIOUS
        <4>. QED  BY <2>1, <4>1
      <3>. HIDE DEF all
      <3>. QED  BY Zenon, <3>1, <3>2, <3>3 DEF InPlace, ServerSize
    <2>. HIDE DEF all
    <2>3. all % 5 = 0 <=> lost % 5 = 0
      BY <1>1, <2>1
    <2>4. ASSUME Whole(words) PROVE all % 5 = 0
      <3>1. words[1] = [words[1] EXCEPT !.val = words[1].val, !.at = 1]
        BY <2>1, <2>4 DEF Whole
      <3>2. words[1] \in Word
        BY <2>2
      <3>3. words[1].at = 1
        BY <3>1, <3>2 DEF Word
      <3>4. 5 - ((all - 1) % 5) = 1
        <4>1. 1 \in 1 .. 5
          OBVIOUS
        <4>. QED  BY Zenon, <2>2, <3>3, <4>1
      <3>. QED  BY Zenon, <1>1, <2>1, <3>4, FirstAnswer
    <2>5. ASSUME all % 5 = 0 PROVE Whole(words)
      <3>1. \A k \in 1 .. 5 : words[k].at = k /\ words[k].of = words[1].of
        <4>1. \A k \in 1 .. 5 : 5 - ((all - k) % 5) = k /\ (all - k) \div 5 = (all - 1) \div 5
          BY Zenon, <1>1, <2>1, <2>5, FirstAnswer
        <4>2. 1 \in 1 .. 5
          OBVIOUS
        <4>3. ASSUME NEW k \in 1 .. 5
              PROVE  words[k].at = k /\ words[k].of = words[1].of
          <5>1. /\ words[k].at = 5 - ((all - k) % 5)
                /\ words[k].of = answers - ((all - k) \div 5)
                /\ words[1].of = answers - ((all - 1) \div 5)
            BY Zenon, <2>2, <4>2
          <5>2. 5 - ((all - k) % 5) = k /\ (all - k) \div 5 = (all - 1) \div 5
            BY Zenon, <4>1
          <5>. QED  BY Zenon, <5>1, <5>2
        <4>. QED  BY Zenon, <4>3
      <3>2. ASSUME NEW k \in 1 .. 5
            PROVE  words[k] = [words[1] EXCEPT !.val = words[k].val, !.at = k]
        <4>1. words[k] \in Word /\ words[1] \in Word
          BY <2>2
        <4>2. words[k].at = k /\ words[k].of = words[1].of
          BY <3>1
        <4>. QED  BY <4>1, <4>2 DEF Word
      <3>. QED  BY <2>1, <3>2 DEF Whole, ServerSize
    <2>. QED  BY <1>3, <2>3, <2>4, <2>5 DEF ServerSize
  <1>. QED  BY <1>2, <1>3

\* The client reads once: it shows, passes over or discards.
LEMMA ClientReadsKeeps ==
    ASSUME IInv, NEW n \in 1 .. Len(toClient), ClientReads(n)
    PROVE  IInv'
  <1>. DEFINE words == Taken(toClient, atClient + n, clientSize)
              rest == SubSeq(toClient, Len(words) + 1, Len(toClient))
              all == Len(toClient)
              w == Len(words)
  <1>1. /\ toClient \in Seq(Word) /\ atClient \in 0 .. all /\ all \in Nat
        /\ cuts \in 0 .. MaxCuts /\ clientSize \in {5, 6} /\ lost \in Nat /\ answers \in Nat
    BY DEF IInv, FramingTypeOK
  <1>2. atClient + n \in 0 .. all /\ cuts' \in 0 .. MaxCuts
    BY <1>1 DEF ClientReads, Arrive
  <1>3. /\ words \in Seq(Word) /\ rest \in Seq(Word)
        /\ w = IF atClient + n < clientSize THEN atClient + n ELSE clientSize
        /\ \A k \in 1 .. w : words[k] = toClient[k]
        /\ Len(rest) = all - w
        /\ \A k \in 1 .. all - w : rest[k] = toClient[k + w]
    <2>1. /\ words \in Seq(Word)
          /\ w = IF atClient + n < clientSize THEN atClient + n ELSE clientSize
          /\ \A k \in 1 .. w : words[k] = toClient[k]
      <3>1. clientSize \in Nat
        BY <1>1
      <3>. QED  BY <1>1, <1>2, <3>1, TakenFacts
    <2>. HIDE DEF words
    <2>2. w \in 0 .. all
      BY <1>1, <1>2, <2>1
    <2>3. /\ rest \in Seq(Word) /\ Len(rest) = all - w
          /\ \A k \in 1 .. all - w : rest[k] = toClient[k + w]
      BY <1>1, <2>2, RestFacts
    <2>. QED  BY <2>1, <2>3
  <1>4. /\ toClient' = rest /\ atClient' = atClient + n - w
        /\ lost' = IF w < clientSize THEN lost + w ELSE lost
        /\ shown' \in {words, <<>>}
        /\ shown' # <<>> => ~ (w < clientSize) /\ shown' = words
        /\ UNCHANGED <<clientSize, junk, toServer, atServer, requests, answers, closed>>
    BY DEF ClientReads
  <1>. HIDE DEF words, rest, w
  <1>5. w \in 0 .. all /\ w <= clientSize
    BY <1>1, <1>2, <1>3
  <1>6. /\ toClient' \in Seq(Word) /\ Len(toClient') = all - w
        /\ atClient' \in 0 .. Len(toClient') /\ lost' \in Nat /\ shown' \in Seq(Word)
    <2>1. <<>> \in Seq(Word)
      OBVIOUS
    <2>2. atClient + n - w \in 0 .. all - w
      <3>. DEFINE there == atClient + n
      <3>1. there \in 0 .. all
        BY <1>2
      <3>2. w = IF there < clientSize THEN there ELSE clientSize
        BY Zenon, <1>3
      <3>. HIDE DEF there, all
      <3>3. there - w \in 0 .. all - w
        BY <1>1, <3>1, <3>2
      <3>4. atClient + n - w = there - w
        BY <1>1, <1>5 DEF there
      <3>. QED  BY Zenon, <3>3, <3>4
    <2>3. lost' \in Nat
      <3>. HIDE DEF all
      <3>1. w \in Nat /\ lost + w \in Nat
        BY <1>1, <1>5
      <3>. QED  BY Zenon, <1>1, <1>4, <3>1
    <2>4. shown' \in Seq(Word)
      BY Zenon, <1>3, <1>4, <2>1
    <2>5. toClient' \in Seq(Word) /\ Len(toClient') = all - w
      BY Zenon, <1>3, <1>4
    <2>6. atClient' \in 0 .. Len(toClient')
      BY Zenon, <1>4, <2>2, <2>5
    <2>. QED  BY Zenon, <2>3, <2>4, <2>5, <2>6
  <1>7. FramingTypeOK'
    BY <1>2, <1>4, <1>6 DEF IInv, FramingTypeOK
  <1>8. RowOfAnswers'
    <2>1. \A k \in 1 .. all : InPlace(toClient[k], all - k, answers)
      BY DEF IInv, RowOfAnswers
    <2>. HIDE DEF all
    <2>2. ASSUME NEW k \in 1 .. all - w PROVE InPlace(rest[k], (all - w) - k, answers)
      <3>1. k + w \in 1 .. all /\ all - (k + w) = (all - w) - k
        BY <1>1, <1>5
      <3>2. rest[k] = toClient[k + w]
        BY <1>3
      <3>. QED  BY <2>1, <3>1, <3>2
    <2>. QED  BY <1>4, <1>6, <2>2 DEF RowOfAnswers
  <1>9. InStep'
    <2>1. clientSize = 5 => (lost + all) % 5 = 0
      BY DEF IInv, InStep, ServerSize
    <2>. HIDE DEF all
    <2>2. CASE w < clientSize
      <3>1. lost' + (all - w) = lost + all
        BY <1>1, <1>4, <1>5, <2>2
      <3>. QED  BY <1>4, <1>6, <2>1, <3>1 DEF InStep, ServerSize
    <2>3. CASE ~ (w < clientSize)
      <3>1. w = clientSize /\ lost' = lost
        BY <1>1, <1>4, <1>5, <2>3
      <3>2. ASSUME clientSize = 5 PROVE (lost + (all - 5)) % 5 = 0
        <4>1. lost + (all - 5) \in Nat /\ (lost + (all - 5)) + 5 = lost + all
          BY <1>1, <1>5, <3>1, <3>2
        <4>. QED  BY <2>1, <3>2, <4>1, OneAnswerMore
      <3>. QED  BY <1>4, <1>6, <3>1, <3>2 DEF InStep, ServerSize
    <2>. QED  BY <2>2, <2>3
  <1>10. SamplesAreAnswers'
    <2>. SUFFICES ASSUME shown' # <<>>
                  PROVE  Whole(words) <=> clientSize = ServerSize /\ lost % ServerSize = 0
      <3>1. shown' # <<>> => shown' = words /\ lost' = lost /\ clientSize' = clientSize
        BY <1>4
      <3>. QED  BY <3>1 DEF SamplesAreAnswers, Whole
    <2>1. w = clientSize
      BY <1>1, <1>4, <1>5
    <2>2. FramingTypeOK /\ RowOfAnswers /\ InStep
      BY DEF IInv
    <2>. QED  BY <1>3, <1>5, <2>1, <2>2, WholeInStep DEF w, all
  <1>. QED  BY <1>7, <1>8, <1>9, <1>10 DEF IInv

\* The invariant holds before the first request.
LEMMA InitInv == FramingInit => IInv
  <1>. SUFFICES ASSUME FramingInit PROVE IInv
    OBVIOUS
  <1>1. <<>> \in Seq(Word) /\ Len(<<>>) = 0
    OBVIOUS
  <1>2. FramingTypeOK
    <2>1. /\ 0 \in 0 .. Len(<<>>) /\ 0 \in 0 .. MaxRequests /\ 0 \in 0 .. MaxCuts
          /\ 0 \in Nat /\ FALSE \in BOOLEAN
      BY <1>1
    <2>. QED  BY Zenon, <1>1, <2>1 DEF FramingInit, FramingTypeOK
  <1>3. RowOfAnswers /\ SamplesAreAnswers
    BY <1>1 DEF FramingInit, RowOfAnswers, SamplesAreAnswers
  <1>4. InStep
    BY <1>1 DEF FramingInit, InStep, ServerSize
  <1>. QED  BY <1>2, <1>3, <1>4 DEF IInv

-----------------------------------------------------------------------------
(* The theorems.                                                            *)

\* What is on its way to the client is a row of answers whose beginning only
\* the client's own reads can cut.
THEOREM Invariant == FramingSpec => []IInv
  <1>1. IInv /\ [FramingNext]_FramingVars => IInv'
    <2>. SUFFICES ASSUME IInv, [FramingNext]_FramingVars PROVE IInv'
      OBVIOUS
    <2>1. CASE UNCHANGED FramingVars
      BY <2>1 DEF FramingVars, IInv, FramingTypeOK, RowOfAnswers, InStep, SamplesAreAnswers, Whole
    <2>. QED  BY <2>1, RequestKeeps, ServerReadsKeeps, ClientReadsKeeps DEF FramingNext
  <1>. QED  BY InitInv, <1>1, PTL DEF FramingSpec

\* A sample that readData shows is an answer of the server as long as both ends
\* agree on the layout and the words that short reads have discarded make up
\* whole datagrams, and is none otherwise, for every number of requests and
\* every way in which the network cuts the stream.
THEOREM SamplesCorrect == FramingSpec => []SamplesAreAnswers
  <1>1. IInv => SamplesAreAnswers
    BY DEF IInv
  <1>. QED  BY Invariant, <1>1, PTL
=============================================================================
