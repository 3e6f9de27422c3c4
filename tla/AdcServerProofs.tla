--------------------------- MODULE AdcServerProofs ---------------------------
(***************************************************************************)
(* Theorems about the event loop of the adcserver (AdcServer), for every   *)
(* number of clients, every batch size and every bound: types, events that *)
(* are about open connections, no lost connection, no lost edge, and that  *)
(* the server implements SampleService.                                    *)
(***************************************************************************)
EXTENDS AdcServer, SequenceTheorems, TLAPS

-----------------------------------------------------------------------------
(* Sequences, and those without repetitions.                                *)

Has(s, x) == \E k \in DOMAIN s : s[k] = x
Once(s) == \A j, k \in DOMAIN s : s[j] = s[k] => j = k

\* epoll lists a file once, however often it is woken.
LEMMA WakeFacts ==
    ASSUME NEW S, NEW s \in Seq(S), NEW i \in S, Once(s)
    PROVE  /\ Wake(i, s) \in Seq(S)
           /\ Once(Wake(i, s))
           /\ \A x : Has(Wake(i, s), x) <=> Has(s, x) \/ x = i
  <1>1. CASE Has(s, i)
    BY <1>1 DEF Wake, Has
  <1>2. CASE ~Has(s, i)
    <2>1. Wake(i, s) = Append(s, i)
      BY <1>2 DEF Wake, Has
    <2>. DEFINE t == Append(s, i)
    <2>2. /\ t \in Seq(S) /\ DOMAIN t = 1 .. Len(s) + 1 /\ DOMAIN s = 1 .. Len(s)
          /\ t[Len(s) + 1] = i /\ Len(s) \in Nat
          /\ \A k \in 1 .. Len(s) : t[k] = s[k]
      OBVIOUS
    <2>3. \A x : Has(t, x) <=> Has(s, x) \/ x = i
      BY <2>2 DEF Has
    <2>4. Once(t)
      BY <2>2, <1>2 DEF Has, Once
    <2>. QED  BY <2>1, <2>2, <2>3, <2>4
  <1>. QED  BY <1>1, <1>2

\* A sequence without repetitions loses its head to Tail, and nothing else.
LEMMA TailFacts ==
    ASSUME NEW S, NEW s \in Seq(S), s # <<>>, Once(s)
    PROVE  /\ Tail(s) \in Seq(S) /\ Head(s) \in S
           /\ Once(Tail(s)) /\ Has(s, Head(s))
           /\ \A x : Has(Tail(s), x) <=> Has(s, x) /\ x # Head(s)
  <1>1. /\ Tail(s) \in Seq(S) /\ Head(s) = s[1] /\ Len(s) \in Nat \ {0} /\ Head(s) \in S
        /\ DOMAIN s = 1 .. Len(s) /\ DOMAIN Tail(s) = 1 .. Len(s) - 1
        /\ \A k \in 1 .. Len(s) - 1 : Tail(s)[k] = s[k + 1]
    BY HeadTailProperties, LenProperties, EmptySeq
  <1>2. Once(Tail(s))
    BY <1>1 DEF Once
  <1>3. ASSUME NEW x, Has(Tail(s), x)  PROVE  Has(s, x) /\ x # Head(s)
    BY <1>1, <1>3 DEF Has, Once
  <1>4. ASSUME NEW x, Has(s, x), x # Head(s)  PROVE  Has(Tail(s), x)
    <2>1. PICK k \in 1 .. Len(s) : s[k] = x
      BY <1>1, <1>4 DEF Has
    <2>2. k - 1 \in 1 .. Len(s) - 1 /\ Tail(s)[k - 1] = x
      BY <2>1, <1>1, <1>4
    <2>. QED  BY <2>2, <1>1 DEF Has
  <1>. QED  BY <1>1, <1>2, <1>3, <1>4 DEF Has

\* What RemoveAt leaves, position by position.
LEMMA RemoveAtFacts ==
    ASSUME NEW S, NEW s \in Seq(S), NEW p \in 1 .. Len(s)
    PROVE  /\ RemoveAt(s, p) \in Seq(S)
           /\ DOMAIN RemoveAt(s, p) = 1 .. Len(s) - 1
           /\ \A k \in 1 .. Len(s) - 1 :
                  RemoveAt(s, p)[k] = IF k < p THEN s[k] ELSE s[k + 1]
  <1>. DEFINE u == SubSeq(s, 1, p - 1)
              v == SubSeq(s, p + 1, Len(s))
              t == u \o v
  <1>1. Len(s) \in Nat /\ p \in Nat /\ 1 <= p /\ p <= Len(s)
    OBVIOUS
  <1>2. \A k \in 1 .. Len(s) : s[k] \in S
    BY ElementOfSeq
  <1>3. u \in Seq(S) /\ Len(u) = p - 1 /\ \A k \in 1 .. p - 1 : u[k] = s[k]
    <2>1. 1 \in Int /\ p - 1 \in Int /\ \A k \in 1 .. p - 1 : s[k] \in S
      BY <1>1, <1>2
    <2>2. /\ u \in Seq(S) /\ Len(u) = IF 1 <= p - 1 THEN (p - 1) - 1 + 1 ELSE 0
          /\ \A k \in 1 .. (p - 1) - 1 + 1 : u[k] = s[1 + k - 1]
      BY <2>1, SubSeqProperties
    <2>. HIDE DEF u
    <2>. QED  BY <2>2, <1>1
  <1>4. v \in Seq(S) /\ Len(v) = Len(s) - p /\ \A k \in 1 .. Len(s) - p : v[k] = s[p + k]
    <2>1. p + 1 \in Int /\ Len(s) \in Int /\ \A k \in p + 1 .. Len(s) : s[k] \in S
      BY <1>1, <1>2
    <2>2. /\ v \in Seq(S)
          /\ Len(v) = IF p + 1 <= Len(s) THEN Len(s) - (p + 1) + 1 ELSE 0
          /\ \A k \in 1 .. Len(s) - (p + 1) + 1 : v[k] = s[(p + 1) + k - 1]
      BY <2>1, SubSeqProperties
    <2>3. \A k \in 1 .. Len(s) - p : (p + 1) + k - 1 = p + k /\ k \in 1 .. Len(s) - (p + 1) + 1
      BY <1>1
    <2>. HIDE DEF v
    <2>. QED  BY <2>2, <2>3, <1>1
  <1>5. RemoveAt(s, p) = t
    BY DEF RemoveAt
  <1>. HIDE DEF u, v
  <1>6. /\ t \in Seq(S) /\ Len(t) = Len(u) + Len(v)
        /\ \A k \in 1 .. Len(u) + Len(v) : t[k] = IF k <= Len(u) THEN u[k] ELSE v[k - Len(u)]
    BY <1>3, <1>4, ConcatProperties
  <1>. HIDE DEF t
  <1>7. Len(t) = Len(s) - 1 /\ DOMAIN t = 1 .. Len(s) - 1
    BY <1>1, <1>3, <1>4, <1>6, LenProperties
  <1>8. ASSUME NEW k \in 1 .. Len(s) - 1, k < p  PROVE  t[k] = s[k]
    <2>1. k \in 1 .. Len(u) + Len(v) /\ k <= Len(u) /\ k \in 1 .. p - 1
      BY <1>1, <1>3, <1>4, <1>8
    <2>. QED  BY <2>1, <1>3, <1>6
  <1>9. ASSUME NEW k \in 1 .. Len(s) - 1, ~(k < p)  PROVE  t[k] = s[k + 1]
    <2>1. /\ k \in 1 .. Len(u) + Len(v) /\ ~(k <= Len(u))
          /\ k - Len(u) \in 1 .. Len(s) - p /\ p + (k - Len(u)) = k + 1
      BY <1>1, <1>3, <1>4, <1>9
    <2>. QED  BY <2>1, <1>4, <1>6
  <1>. QED  BY <1>5, <1>6, <1>7, <1>8, <1>9

\* RemoveFirst takes an element that is there once off the sequence.
LEMMA RemoveFirstFacts ==
    ASSUME NEW S, NEW s \in Seq(S), NEW e, Once(s)
    PROVE  /\ RemoveFirst(s, e) \in Seq(S)
           /\ Once(RemoveFirst(s, e))
           /\ \A x : Has(RemoveFirst(s, e), x) <=> Has(s, x) /\ x # e
  <1>1. DOMAIN s = 1 .. Len(s) /\ Len(s) \in Nat
    OBVIOUS
  <1>2. CASE ~Has(s, e)
    BY <1>1, <1>2 DEF RemoveFirst, Has
  <1>3. CASE Has(s, e)
    <2>1. PICK p \in 1 .. Len(s) : s[p] = e
      BY <1>1, <1>3 DEF Has
    <2>2. {k \in 1 .. Len(s) : s[k] = e} = {p}
      BY <2>1, <1>1 DEF Once
    <2>3. Min({p}) = p
      BY <2>1 DEF Min
    <2>4. SelectInSeq(s, LAMBDA v : v = e) = p
      BY <2>2, <2>3 DEF SelectInSeq
    <2>. DEFINE t == RemoveAt(s, p)
    <2>5. RemoveFirst(s, e) = t
      BY <2>1, <2>4, <1>1 DEF RemoveFirst
    <2>6. /\ t \in Seq(S) /\ DOMAIN t = 1 .. Len(s) - 1
          /\ \A k \in 1 .. Len(s) - 1 : t[k] = IF k < p THEN s[k] ELSE s[k + 1]
      BY <2>1, RemoveAtFacts
    <2>. HIDE DEF t
    <2>7. Once(t)
      <3>. DEFINE at(k) == IF k < p THEN k ELSE k + 1
      <3>1. \A k \in 1 .. Len(s) - 1 : t[k] = s[at(k)] /\ at(k) \in DOMAIN s
        BY <2>6, <2>1, <1>1
      <3>2. \A j, k \in 1 .. Len(s) - 1 : at(j) = at(k) => j = k
        BY <1>1, <2>1
      <3>. HIDE DEF at
      <3>. QED  BY <3>1, <3>2, <2>6 DEF Once
    <2>8. ASSUME NEW x, Has(t, x)  PROVE  Has(s, x) /\ x # e
      <3>1. PICK k \in 1 .. Len(s) - 1 : t[k] = x
        BY <2>6, <2>8 DEF Has
      <3>2. CASE k < p
        BY <3>1, <3>2, <2>6, <2>1, <1>1 DEF Has, Once
      <3>3. CASE k >= p
        BY <3>1, <3>3, <2>6, <2>1, <1>1 DEF Has, Once
      <3>. QED  BY <3>2, <3>3, <2>1
    <2>9. ASSUME NEW x, Has(s, x), x # e  PROVE  Has(t, x)
      <3>1. PICK k \in 1 .. Len(s) : s[k] = x
        BY <1>1, <2>9 DEF Has
      <3>2. k # p
        BY <3>1, <2>1, <2>9
      <3>3. CASE k < p
        <4>1. k \in 1 .. Len(s) - 1 /\ t[k] = x
          BY <3>1, <3>3, <2>6, <2>1, <1>1
        <4>. QED  BY <4>1, <2>6 DEF Has
      <3>4. CASE k > p
        <4>1. k - 1 \in 1 .. Len(s) - 1 /\ t[k - 1] = x
          BY <3>1, <3>4, <2>6, <2>1, <1>1
        <4>. QED  BY <4>1, <2>6 DEF Has
      <3>. QED  BY <3>2, <3>3, <3>4, <2>1
    <2>. QED  BY <2>5, <2>6, <2>7, <2>8, <2>9
  <1>. QED  BY <1>2, <1>3

\* Head and tail, element by element.
LEMMA TailElements ==
    ASSUME NEW S, NEW s \in Seq(S), s # <<>>
    PROVE  /\ Tail(s) \in Seq(S) /\ Head(s) \in S /\ Head(s) = s[1] /\ 1 \in DOMAIN s
           /\ \A k \in DOMAIN Tail(s) :
                 k \in Nat \ {0} /\ k + 1 \in DOMAIN s /\ Tail(s)[k] = s[k + 1]
           /\ \A k \in DOMAIN s : k # 1 => k - 1 \in DOMAIN Tail(s) /\ Tail(s)[k - 1] = s[k]
  BY HeadTailProperties, LenProperties, EmptySeq

\* The rest of a sequence after position m.
LEMMA SuffixFacts ==
    ASSUME NEW S, NEW s \in Seq(S), NEW m \in DOMAIN s, Once(s)
    PROVE  LET t == SubSeq(s, m + 1, Len(s)) IN
           /\ t \in Seq(S) /\ Once(t)
           /\ \A x : Has(t, x) => Has(s, x)
           /\ \A k \in DOMAIN s : k > m => Has(t, s[k])
  <1>. DEFINE t == SubSeq(s, m + 1, Len(s))
  <1>1. Len(s) \in Nat /\ m \in 1 .. Len(s) /\ DOMAIN s = 1 .. Len(s)
    BY LenProperties
  <1>2. /\ t \in Seq(S)
        /\ Len(t) = IF m + 1 <= Len(s) THEN Len(s) - (m + 1) + 1 ELSE 0
        /\ \A k \in 1 .. Len(s) - (m + 1) + 1 : t[k] = s[(m + 1) + k - 1]
    <2>1. \A k \in m + 1 .. Len(s) : s[k] \in S
      BY <1>1, ElementOfSeq
    <2>2. m + 1 \in Int /\ Len(s) \in Int
      BY <1>1
    <2>. QED  BY <2>1, <2>2, SubSeqProperties
  <1>. HIDE DEF t
  <1>3. DOMAIN t = 1 .. Len(s) - m
    BY <1>1, <1>2, LenProperties
  <1>4. \A k \in DOMAIN t : k \in Nat /\ k + m \in DOMAIN s /\ t[k] = s[k + m]
    <2>1. \A k \in 1 .. Len(s) - m : /\ k \in 1 .. Len(s) - (m + 1) + 1
                                     /\ (m + 1) + k - 1 = k + m /\ k + m \in 1 .. Len(s)
      BY <1>1
    <2>. QED  BY <1>1, <1>2, <1>3, <2>1
  <1>5. Once(t)
    BY <1>1, <1>4 DEF Once
  <1>6. \A x : Has(t, x) => Has(s, x)
    BY <1>4 DEF Has
  <1>7. ASSUME NEW k \in DOMAIN s, k > m  PROVE  Has(t, s[k])
    <2>1. k - m \in DOMAIN t /\ (k - m) + m = k
      BY <1>1, <1>3, <1>7
    <2>. QED  BY <2>1, <1>4 DEF Has
  <1>. QED  BY <1>2, <1>5, <1>6, <1>7 DEF t

\* A sequence with an element put in front.
LEMMA ConsFacts ==
    ASSUME NEW S, NEW s \in Seq(S), NEW e \in S
    PROVE  /\ <<>> \o s = s
           /\ <<e>> \o s # <<>> /\ Head(<<e>> \o s) = e /\ Tail(<<e>> \o s) = s
           /\ s # <<>> => <<Head(s)>> \o Tail(s) = s
  <1>1. <<>> \o s = s
    BY ConcatEmptySeq
  <1>. DEFINE one == <<e>>
              t == one \o s
  <1>2. one \in Seq(S) /\ Len(one) = 1 /\ one[1] = e
    OBVIOUS
  <1>. HIDE DEF one
  <1>3. /\ t \in Seq(S) /\ Len(t) = 1 + Len(s) /\ Len(s) \in Nat
        /\ \A k \in 1 .. 1 + Len(s) : t[k] = IF k <= 1 THEN one[k] ELSE s[k - 1]
    <2>1. /\ t \in Seq(S) /\ Len(t) = Len(one) + Len(s)
          /\ \A k \in 1 .. Len(one) + Len(s) :
                t[k] = IF k <= Len(one) THEN one[k] ELSE s[k - Len(one)]
      BY <1>2, ConcatProperties
    <2>. HIDE DEF t
    <2>. QED  BY <2>1, <1>2, LenProperties
  <1>. HIDE DEF t
  <1>4. t # <<>> /\ t[1] = e
    BY <1>2, <1>3, EmptySeq
  <1>5. Tail(t) \in Seq(S) /\ Len(Tail(t)) = Len(s)
        /\ \A k \in 1 .. Len(Tail(t)) : Tail(t)[k] = t[k + 1]
    BY <1>3, <1>4, HeadTailProperties
  <1>6. \A k \in 1 .. Len(Tail(t)) : Tail(t)[k] = s[k]
    BY <1>3, <1>5
  <1>7. Tail(t) = s
    BY <1>5, <1>6, SeqEqual
  <1>8. Head(t) = e
    BY <1>4
  <1>9. ASSUME s # <<>>  PROVE  <<Head(s)>> \o Tail(s) = s
    <2>. DEFINE h == <<Head(s)>>
                u == Tail(s)
                v == h \o u
    <2>1. Head(s) = s[1] /\ Head(s) \in S /\ u \in Seq(S) /\ Len(u) = Len(s) - 1
          /\ (\A k \in 1 .. Len(u) : u[k] = s[k + 1])
      BY <1>9, HeadTailProperties
    <2>2. h \in Seq(S) /\ Len(h) = 1 /\ h[1] = s[1]
      BY <2>1
    <2>. HIDE DEF h, u
    <2>3. /\ v \in Seq(S) /\ Len(v) = 1 + Len(u)
          /\ \A k \in 1 .. 1 + Len(u) : v[k] = IF k <= 1 THEN h[k] ELSE u[k - 1]
      <3>1. /\ v \in Seq(S) /\ Len(v) = Len(h) + Len(u)
            /\ \A k \in 1 .. Len(h) + Len(u) :
                  v[k] = IF k <= Len(h) THEN h[k] ELSE u[k - Len(h)]
        <4>1. h \in Seq(S) /\ u \in Seq(S)
          BY <2>1, <2>2
        <4>. QED  BY <4>1, ConcatProperties
      <3>. HIDE DEF v
      <3>. QED  BY <3>1, <2>2
    <2>4. \A k \in 1 .. Len(v) : v[k] = s[k]
      BY <2>1, <2>2, <2>3, <1>3
    <2>. HIDE DEF v
    <2>5. v = s
      BY <2>1, <2>3, <2>4, <1>3, SeqEqual
    <2>. QED  BY <2>5 DEF v, h, u
  <1>. QED  BY <1>1, <1>4, <1>7, <1>8, <1>9 DEF t, one

\* Append to the second of two sequences that are put together.
LEMMA AppendConcat ==
    ASSUME NEW S, NEW t \in Seq(S), NEW s \in Seq(S), NEW e \in S
    PROVE  t \o Append(s, e) = Append(t \o s, e)
  <1>. DEFINE one == <<e>>
  <1>1. one \in Seq(S) /\ t \o s \in Seq(S)
    <2>1. one \in Seq(S)
      OBVIOUS
    <2>2. t \o s \in Seq(S)
      BY ConcatProperties
    <2>. QED  BY <2>1, <2>2
  <1>2. Append(s, e) = s \o one
    BY Zenon, AppendIsConcat
  <1>3. Append(t \o s, e) = (t \o s) \o one
    BY Zenon, <1>1, AppendIsConcat
  <1>. HIDE DEF one
  <1>4. (t \o s) \o one = t \o (s \o one)
    BY <1>1, ConcatAssociative
  <1>. QED  BY Zenon, <1>2, <1>3, <1>4

\* The arithmetic of Accounted: a step that moves no more than it is asked for.
LEMMA Balance ==
    ASSUME NEW g \in Nat, NEW s \in Nat, NEW r \in Nat, NEW w \in Nat, NEW a \in Nat,
           NEW g1 \in Nat, NEW s1 \in Nat, NEW r1 \in Nat, NEW a1 \in Nat,
           g + s + r + w <= a,
           g1 + s1 + r1 + a <= g + s + r + a1
    PROVE  g1 + s1 + r1 + w <= a1
  OBVIOUS

\* Sending adds to what is asked and buffered alike, and taking an answer
\* moves it from snd to got.
LEMMA AskedBalance ==
    ASSUME NEW g \in Nat, NEW s \in Nat, NEW r \in Nat, NEW a \in Nat
    PROVE  /\ g + s + (r + 1) + a <= g + s + r + (a + 1)
           /\ (g + 1) + (s - 1) + r + a <= g + s + r + a
  OBVIOUS

\* The request at work leaves at most one answer in snd.
LEMMA AnsweredBalance ==
    ASSUME NEW g \in Nat, NEW s \in Nat, NEW r \in Nat, NEW w \in Nat, NEW a \in Nat,
           NEW s1 \in Nat, g + s + r + w <= a, s1 <= s + w
    PROVE  g + s1 + r + 0 <= a
  OBVIOUS

-----------------------------------------------------------------------------
(* The inductive invariant.                                                 *)

\* The event in work is the first of the batch; outside a batch there is none.
Stage ==
    /\ pc = "wait" => batch = <<>>
    /\ pc = "accept" => batch # <<>> /\ Head(batch).item = Listener
    /\ Busy => batch # <<>> /\ Head(batch).item = hand.conn

\* epoll lists a file once, and a batch reports it once.
OncePerFile ==
    /\ Once(ready)
    /\ \A j, k \in DOMAIN batch : batch[j].item = batch[k].item => j = k

\* Only open connections are listed.
ListedAreOpen == \A c \in Conn : Has(ready, c) => phase[c] = "open"

\* An event not handled yet still has its cause: nothing but its own
\* handling consumes what it reports.
CauseLasts ==
    \A k \in DOMAIN batch :
        /\ batch[k].item = Listener => batch[k].ev = "in"
        /\ batch[k].item # Listener /\ batch[k].ev = "err" => peer[batch[k].item] # "up"
        /\ batch[k].item # Listener /\ batch[k].ev = "in" /\ ~(Busy /\ k = 1)
              => Readable(batch[k].item)

\* The backlog holds the connections not accepted yet, each once.
BacklogExact ==
    /\ \A c \in Conn : phase[c] = "backlog" <=> Has(backlog, c)
    /\ Once(backlog)

\* The datagram at work belongs to the request that was read.
HandFits ==
    /\ pc = "adc" => /\ hand.req.type = "GETDATA" /\ hand.req.channel \in Sampled
                     /\ hand.dg = Datagram(hand.req)
    /\ pc = "write" => hand.dg \in Service!Answers(hand.req)

\* Replies taken, replies on their way and requests not answered are no more
\* than the requests sent.
AtWork(c) == IF Busy /\ hand.conn = c THEN 1 ELSE 0
Accounted ==
    \A c \in Conn : got[c] + Len(snd[c]) + Len(rcv[c]) + AtWork(c) <= asked[c]

IInv ==
    /\ TypeOK /\ Stage /\ OncePerFile /\ ListedAreOpen /\ EventsAreCurrent
    /\ CauseLasts /\ BacklogExact /\ HandFits /\ Accounted

\* The invariant holds when adc_server_conn starts.
LEMMA InitIInv == Init => IInv
  <1>. SUFFICES ASSUME Init  PROVE IInv
    OBVIOUS
  <1>1. TypeOK
    BY BoundAssumption DEF Init, TypeOK, Busy
  <1>2. Stage /\ OncePerFile /\ ListedAreOpen /\ EventsAreCurrent /\ CauseLasts
    BY DEF Init, Stage, OncePerFile, ListedAreOpen, EventsAreCurrent, CauseLasts, Busy, Once, Has
  <1>3. BacklogExact /\ HandFits
    BY DEF Init, BacklogExact, HandFits, Once, Has
  <1>4. Accounted
    BY DEF Init, Accounted, AtWork, Busy
  <1>. QED  BY <1>1, <1>2, <1>3, <1>4 DEF IInv

\* A batch holds records of an item and an event.
LEMMA BatchElements ==
    ASSUME TypeOK, NEW k \in DOMAIN batch
    PROVE  batch[k] \in [item : Item, ev : {"in", "err"}]
  <1>. DEFINE E == [item : Item, ev : {"in", "err"}]
  <1>1. batch \in Seq(E)
    BY DEF TypeOK
  <1>. HIDE DEF E
  <1>2. batch[k] \in E
    BY <1>1, LenProperties, ElementOfSeq
  <1>. QED  BY <1>2 DEF E

\* A reply that has the fields an answer to r must have.
LEMMA AnswerFits ==
    ASSUME NEW r, NEW p \in Reply, p.type = r.type, p.channel = r.channel,
           p.valid => p.type # "UNTYPE",
           p.type = "GETDATA" /\ p.valid => p.data = r.channel,
           p.type # "GETDATA" => p.data = NoData
    PROVE  p \in Service!Answers(r)
  BY DEF Service!Answers, Reply

\* A reply whose valid field is set is a reply.
LEMMA SetValid ==
    ASSUME NEW p \in Reply, NEW b \in BOOLEAN
    PROVE  /\ [p EXCEPT !.valid = b] \in Reply
           /\ [p EXCEPT !.valid = b].type = p.type
           /\ [p EXCEPT !.valid = b].channel = p.channel
           /\ [p EXCEPT !.valid = b].valid = b
           /\ [p EXCEPT !.valid = b].data = p.data
  BY DEF Reply

\* So is the datagram at work when its valid field is set.
LEMMA SetInvalid ==
    ASSUME NEW h \in [conn : Conn, req : Request, dg : Reply], NEW b \in BOOLEAN,
           NEW g, g = [h EXCEPT !.dg.valid = b]
    PROVE
           /\ g \in [conn : Conn, req : Request, dg : Reply]
           /\ g.conn = h.conn /\ g.req = h.req
           /\ g.dg.type = h.dg.type /\ g.dg.channel = h.dg.channel
           /\ g.dg.valid = b /\ g.dg.data = h.dg.data
  BY DEF Reply

\* An event is done: it leaves the batch, and the others are not about its file.
LEMMA DoneFacts ==
    ASSUME TypeOK, OncePerFile, batch # <<>>, Done
    PROVE  /\ batch' \in Seq([item : Item, ev : {"in", "err"}])
           /\ 1 \in DOMAIN batch /\ batch[1] = Head(batch)
           /\ batch[1] \in [item : Item, ev : {"in", "err"}]
           /\ \A j, k \in DOMAIN batch' : batch'[j].item = batch'[k].item => j = k
           /\ \A k \in DOMAIN batch' :
                 /\ k \in Nat \ {0} /\ k + 1 \in DOMAIN batch /\ batch'[k] = batch[k + 1]
                 /\ batch'[k] \in [item : Item, ev : {"in", "err"}]
                 /\ batch'[k].item # batch[1].item
           /\ \A k \in DOMAIN batch :
                 k # 1 => k - 1 \in DOMAIN batch' /\ batch'[k - 1] = batch[k]
  <1>. DEFINE E == [item : Item, ev : {"in", "err"}]
  <1>1. /\ batch \in Seq(E) /\ batch' = Tail(batch)
        /\ \A j, k \in DOMAIN batch : batch[j].item = batch[k].item => j = k
    BY DEF TypeOK, OncePerFile, Done
  <1>. HIDE DEF E
  <1>2. /\ batch' \in Seq(E)
        /\ 1 \in DOMAIN batch /\ batch[1] = Head(batch) /\ batch[1] \in E
        /\ \A k \in DOMAIN batch' :
              k \in Nat \ {0} /\ k + 1 \in DOMAIN batch /\ batch'[k] = batch[k + 1]
        /\ \A k \in DOMAIN batch :
              k # 1 => k - 1 \in DOMAIN batch' /\ batch'[k - 1] = batch[k]
    BY <1>1, TailElements
  <1>3. ASSUME NEW j \in DOMAIN batch', NEW k \in DOMAIN batch',
               batch'[j].item = batch'[k].item
        PROVE  j = k
    <2>1. j + 1 = k + 1
      BY <1>1, <1>2, <1>3
    <2>. QED  BY <2>1, <1>2
  <1>4. ASSUME NEW k \in DOMAIN batch'
        PROVE  batch'[k] \in E /\ batch'[k].item # batch[1].item
    <2>1. batch'[k] \in E
      BY <1>2, LenProperties, ElementOfSeq
    <2>2. k + 1 # 1
      BY <1>2
    <2>. QED  BY <2>1, <2>2, <1>1, <1>2
  <1>. QED  BY <1>2, <1>3, <1>4 DEF E

\* The events that call close.
HangUp(c) == HandleError(c) \/ HandleEnd(c) \/ HandleInvalidChannel(c)

\* close keeps the invariant: the file leaves the ready list, and no
\* event of it is left in the batch.
LEMMA HangUpStep ==
    ASSUME IInv, NEW c \in Conn, HangUp(c)
    PROVE  IInv'
  <1>. USE ListenerAssumption DEF IInv
  <1>1. /\ pc = "loop" /\ batch # <<>> /\ Head(batch).item = c
        /\ CloseConn(c) /\ Done
        /\ UNCHANGED <<peer, asked, got, backlog, fails, hand>>
    BY DEF HangUp, HandleError, HandleEnd, HandleInvalidChannel, NextEvent
  <1>2. /\ batch' \in Seq([item : Item, ev : {"in", "err"}])
        /\ batch[1].item = c /\ 1 \in DOMAIN batch
        /\ \A j, k \in DOMAIN batch' : batch'[j].item = batch'[k].item => j = k
        /\ \A k \in DOMAIN batch' :
              k \in Nat \ {0} /\ k + 1 \in DOMAIN batch /\ batch'[k] = batch[k + 1]
        /\ \A k \in DOMAIN batch' : batch'[k].item # c
    BY <1>1, DoneFacts
  <1>4. /\ ready' \in Seq(Item) /\ Once(ready')
        /\ \A x : Has(ready', x) <=> Has(ready, x) /\ x # c
    BY <1>1, RemoveFirstFacts DEF TypeOK, OncePerFile, CloseConn
  <1>5. phase[c] = "open"
    BY <1>2 DEF EventsAreCurrent
  <1>6. /\ phase' = [phase EXCEPT ![c] = "closed"]
        /\ rcv' = [rcv EXCEPT ![c] = <<>>]
        /\ snd' = [snd EXCEPT ![c] = <<>>]
        /\ pc' = "loop"
    BY <1>1 DEF CloseConn, Done
  <1>7. TypeOK'
    BY <1>1, <1>2, <1>4, <1>6 DEF TypeOK, Busy
  <1>8. Stage' /\ OncePerFile' /\ HandFits'
    BY <1>2, <1>4, <1>6 DEF Stage, OncePerFile, HandFits, Busy
  <1>14. \A d \in Conn : d # c => phase'[d] = phase[d] /\ rcv'[d] = rcv[d]
    BY <1>6 DEF TypeOK
  <1>9. ListedAreOpen'
    BY <1>4, <1>14 DEF ListedAreOpen
  <1>10. EventsAreCurrent'
    <2>1. \A k \in DOMAIN batch' : batch'[k].item # Listener => phase[batch'[k].item] = "open"
      BY <1>2 DEF EventsAreCurrent
    <2>2. \A k \in DOMAIN batch' : batch'[k].item \in Item
      BY <1>1, DoneFacts
    <2>. QED  BY <1>2, <1>14, <2>1, <2>2 DEF EventsAreCurrent, Item
  <1>11. CauseLasts'
    <2>1. ~Busy /\ ~Busy'
      BY <1>1, <1>6 DEF Busy
    <2>2. \A d \in Conn : d # c => (Readable(d)' <=> Readable(d))
      BY <1>1, <1>14 DEF Readable
    <2>3. \A k \in DOMAIN batch' : batch'[k].item \in Item
      BY <1>1, DoneFacts
    <2>. QED  BY <1>1, <1>2, <2>1, <2>2, <2>3 DEF CauseLasts, Item
  <1>12. BacklogExact'
    BY <1>1, <1>5, <1>6 DEF BacklogExact, TypeOK
  <1>13. Accounted'
    BY <1>1, <1>6 DEF Accounted, AtWork, Busy, TypeOK
  <1>. QED  BY <1>7, <1>8, <1>9, <1>10, <1>11, <1>12, <1>13

\* The events that start the work of a request.
Begin(c) == HandleUnknown(c) \/ HandleGetTime(c) \/ HandleGetData(c)

\* Reading a request keeps the invariant: it moves from rcv to hand.
LEMMA BeginStep ==
    ASSUME IInv, NEW c \in Conn, Begin(c)
    PROVE  IInv'
  <1>. USE ListenerAssumption DEF IInv
  <1>1. /\ pc = "loop" /\ batch # <<>> /\ Head(batch).item = c /\ rcv[c] # <<>>
        /\ rcv' = [rcv EXCEPT ![c] = Tail(@)]
        /\ UNCHANGED <<phase, peer, snd, asked, got, backlog, ready, fails, batch>>
    BY DEF Begin, HandleUnknown, HandleGetTime, HandleGetData, NextEvent, TakeRequest
  <1>. DEFINE r == Head(rcv[c])
  <1>2. /\ r \in Request /\ Tail(rcv[c]) \in Seq(Request)
        /\ Len(Tail(rcv[c])) = Len(rcv[c]) - 1 /\ Len(rcv[c]) \in Nat
    BY <1>1, HeadTailProperties, EmptySeq DEF TypeOK
  <1>3. r \in [type : {"UNTYPE", "GETTIME", "GETDATA"}, channel : Nat, valid : BOOLEAN]
    BY <1>2, RequestAssumption
  <1>. HIDE DEF r
  <1>4. /\ pc' \in {"adc", "write"} /\ hand'.conn = c /\ hand'.req = r
        /\ hand' \in [conn : Conn, req : Request, dg : Reply]
        /\ HandFits'
    <2>1. Datagram(r) \in Reply /\ Datagram(r).type = r.type
          /\ Datagram(r).channel = r.channel /\ Datagram(r).data = NoData
      BY <1>3 DEF Datagram, Reply
    <2>2. CASE HandleUnknown(c) \/ HandleGetTime(c)
      <3>1. PICK ok \in BOOLEAN :
              /\ hand' = [conn |-> c, req |-> r, dg |-> [Datagram(r) EXCEPT !.valid = ok]]
              /\ r.type = "GETTIME" \/ (r.type = "UNTYPE" /\ ~ok)
              /\ pc' = "write"
        <4>1. CASE HandleUnknown(c)
          <5>1. /\ hand' = [conn |-> c, req |-> r, dg |-> [Datagram(r) EXCEPT !.valid = FALSE]]
                /\ r.type = "UNTYPE" /\ pc' = "write"
            BY <4>1 DEF HandleUnknown, TakeRequest, r
          <5>. QED  BY <5>1
        <4>2. CASE HandleGetTime(c)
          <5>1. PICK ok \in BOOLEAN :
                  TakeRequest(c, [Datagram(r) EXCEPT !.valid = ok])
            BY <4>2 DEF HandleGetTime, r
          <5>2. hand' = [conn |-> c, req |-> r, dg |-> [Datagram(r) EXCEPT !.valid = ok]]
            BY <5>1 DEF TakeRequest, r
          <5>3. r.type = "GETTIME" /\ pc' = "write"
            BY <4>2 DEF HandleGetTime, r
          <5>. QED  BY <5>2, <5>3
        <4>. QED  BY <4>1, <4>2, <2>2
      <3>. DEFINE p == [Datagram(r) EXCEPT !.valid = ok]
      <3>2. p \in Reply /\ p.type = r.type /\ p.channel = r.channel /\ p.valid = ok /\ p.data = NoData
        BY <2>1, SetValid
      <3>. HIDE DEF p
      <3>3. p \in Service!Answers(r)
        BY <3>1, <3>2, AnswerFits
      <3>4. hand' = [conn |-> c, req |-> r, dg |-> p]
        BY <3>1 DEF p
      <3>. QED  BY <3>1, <3>2, <3>3, <3>4, <1>2 DEF HandFits
    <2>3. CASE HandleGetData(c)
      <3>1. hand' = [conn |-> c, req |-> r, dg |-> Datagram(r)]
        BY <2>3 DEF HandleGetData, TakeRequest, r
      <3>2. r.type = "GETDATA" /\ r.channel \in Sampled /\ pc' = "adc"
        BY <2>3 DEF HandleGetData, NoChannel, r
      <3>. QED  BY <3>1, <3>2, <2>1, <1>2 DEF HandFits
    <2>. QED  BY <2>2, <2>3 DEF Begin
  <1>5. batch[1].item = c /\ 1 \in DOMAIN batch /\ c # Listener
    BY <1>1, TailElements DEF TypeOK
  <1>6. TypeOK'
    BY <1>1, <1>2, <1>4 DEF TypeOK, Busy
  <1>7. Stage' /\ OncePerFile' /\ ListedAreOpen' /\ EventsAreCurrent'
    BY <1>1, <1>4 DEF Stage, OncePerFile, ListedAreOpen, EventsAreCurrent, Busy
  <1>8. CauseLasts'
    <2>1. \A k \in DOMAIN batch : k # 1 => batch[k].item # c
      BY <1>5 DEF OncePerFile
    <2>2. \A d \in Conn : d # c => (Readable(d) <=> Readable(d)')
      BY <1>1 DEF Readable, TypeOK
    <2>3. \A k \in DOMAIN batch : batch[k].item \in Item
      BY BatchElements
    <2>4. Busy' /\ ~Busy
      BY <1>1, <1>4 DEF Busy
    <2>. QED  BY <2>1, <2>2, <2>3, <2>4, <1>1, <1>5 DEF CauseLasts, Item
  <1>9. BacklogExact'
    BY <1>1 DEF BacklogExact
  <1>10. Accounted'
    <2>1. ~Busy /\ Busy' /\ hand'.conn = c
      BY <1>1, <1>4 DEF Busy
    <2>2. \A d \in Conn : got[d] + Len(snd[d]) + Len(rcv[d]) + 0 <= asked[d]
      BY <2>1 DEF Accounted, AtWork
    <2>3. AtWork(c)' = 1 /\ \A d \in Conn : d # c => AtWork(d)' = 0 /\ rcv'[d] = rcv[d]
      BY <1>1, <2>1 DEF AtWork, TypeOK
    <2>4. got[c] + Len(snd[c]) + Len(rcv'[c]) + 1 <= asked[c]
      <3>1. Len(rcv'[c]) = Len(rcv[c]) - 1
        BY <1>1, <1>2 DEF TypeOK
      <3>2. /\ got[c] \in Nat /\ asked[c] \in Nat /\ Len(snd[c]) \in Nat
            /\ Len(rcv[c]) \in Nat
        BY DEF TypeOK
      <3>3. got[c] + Len(snd[c]) + Len(rcv[c]) + 0 <= asked[c]
        BY <2>2
      <3>. HIDE DEF IInv
      <3>. QED  BY <3>1, <3>2, <3>3
    <2>. QED  BY <1>1, <2>2, <2>3, <2>4 DEF Accounted
  <1>. QED  BY <1>4, <1>6, <1>7, <1>8, <1>9, <1>10

\* Steps that leave sockets and batch alone: the loop's own steps, the
\* conversion and the end of the process.
Inner ==
    \/ EpollInterrupted \/ LoopEnd \/ HandleListener
    \/ ReadAdc \/ ReadAdcFails \/ WriteKills

\* Those steps keep the invariant; ReadAdc makes the datagram an answer.
LEMMA InnerStep ==
    ASSUME IInv, Inner
    PROVE  IInv'
  <1>. USE ListenerAssumption DEF IInv
  <1>1. UNCHANGED <<net, batch>>
    BY DEF Inner, EpollInterrupted, LoopEnd, HandleListener, ReadAdc, ReadAdcFails, WriteKills, net
  <1>2. CASE EpollInterrupted \/ LoopEnd \/ HandleListener \/ WriteKills
    <2>1. UNCHANGED hand /\ ~Busy' /\ pc' \in {"returned", "wait", "accept", "dead"}
      BY <1>2 DEF EpollInterrupted, LoopEnd, HandleListener, WriteKills, Busy
    <2>2. Stage'
      BY <1>1, <1>2, <2>1 DEF Stage, EpollInterrupted, LoopEnd, HandleListener, WriteKills, NextEvent
    <2>3. TypeOK'
      BY <1>1, <2>1 DEF TypeOK, net
    <2>4. HandFits'
      BY <2>1 DEF HandFits
    <2>5. Accounted'
      BY <1>1, <2>1 DEF Accounted, AtWork, net, TypeOK
    <2>6. CauseLasts'
      <3>1. ~Busy \/ pc' = "dead"
        BY <1>2 DEF EpollInterrupted, LoopEnd, HandleListener, NextEvent, WriteKills, Busy
      <3>2. CASE ~Busy
        BY <1>1, <2>1, <3>2 DEF CauseLasts, Readable, net
      <3>3. CASE WriteKills
        <4>1. Readable(hand.conn) /\ batch[1].item = hand.conn
          <5>1. peer[hand.conn] = "finrst"
            BY <3>3 DEF WriteKills
          <5>2. batch # <<>> /\ Head(batch).item = hand.conn
            BY <3>3 DEF WriteKills, Stage, Busy
          <5>. QED  BY <5>1, <5>2, TailElements DEF Readable, TypeOK
        <4>. QED  BY <1>1, <2>1, <4>1 DEF CauseLasts, Readable, net
      <3>. QED  BY <3>1, <3>2, <3>3, <1>2 DEF EpollInterrupted, LoopEnd, HandleListener
    <2>. QED  BY <1>1, <2>2, <2>3, <2>4, <2>5, <2>6
              DEF net, OncePerFile, ListedAreOpen, EventsAreCurrent, BacklogExact
  <1>3. CASE ReadAdc \/ ReadAdcFails
    <2>1. /\ pc = "adc" /\ pc' = "write" /\ Busy /\ Busy'
          /\ hand \in [conn : Conn, req : Request, dg : Reply]
          /\ hand.req.type = "GETDATA" /\ hand.req.channel \in Sampled
          /\ hand.dg = Datagram(hand.req)
          /\ hand.req \in [type : {"UNTYPE", "GETTIME", "GETDATA"}, channel : Nat, valid : BOOLEAN]
      BY <1>3, RequestAssumption DEF ReadAdc, ReadAdcFails, Busy, HandFits, TypeOK
    <2>4. hand.dg.type = hand.req.type /\ hand.dg.channel = hand.req.channel
      BY <2>1 DEF Datagram
    <2>2. /\ hand' \in [conn : Conn, req : Request, dg : Reply]
          /\ hand'.conn = hand.conn /\ hand'.req = hand.req
          /\ hand'.dg \in Service!Answers(hand.req)
      <3>1. CASE ReadAdc
        <4>1. PICK ok \in BOOLEAN :
                hand' = [hand EXCEPT !.dg.valid = ok, !.dg.data = hand.dg.channel]
          BY <3>1 DEF ReadAdc
        <4>2. /\ hand' \in [conn : Conn, req : Request, dg : Reply]
              /\ hand'.conn = hand.conn /\ hand'.req = hand.req
              /\ hand'.dg.type = hand.req.type /\ hand'.dg.channel = hand.req.channel
              /\ hand'.dg.data = hand.req.channel
          <5>1. hand.dg.channel \in Sampled
            BY <2>1, <2>4
          <5>. QED  BY <4>1, <5>1, <2>1, <2>4 DEF Reply
        <4>3. hand'.dg \in Service!Answers(hand.req)
          BY <4>2, <2>1, AnswerFits
        <4>. QED  BY <4>2, <4>3
      <3>2. CASE ReadAdcFails
        <4>1. PICK ok \in BOOLEAN : ~ok /\ hand' = [hand EXCEPT !.dg.valid = ok]
          BY <3>2 DEF ReadAdcFails
        <4>2. /\ hand' \in [conn : Conn, req : Request, dg : Reply]
              /\ hand'.conn = hand.conn /\ hand'.req = hand.req
              /\ hand'.dg.type = hand.req.type /\ hand'.dg.channel = hand.req.channel
              /\ ~hand'.dg.valid
          BY <4>1, <2>1, <2>4, SetInvalid
        <4>3. hand'.dg \in Service!Answers(hand.req)
          BY <4>2, <2>1, AnswerFits
        <4>. QED  BY <4>2, <4>3
      <3>. QED  BY <3>1, <3>2, <1>3
    <2>3. TypeOK'
      BY <1>1, <2>1, <2>2 DEF TypeOK, net
    <2>5. HandFits'
      BY <2>1, <2>2 DEF HandFits, Service!Answers
    <2>6. Stage' /\ Accounted' /\ CauseLasts'
      BY <1>1, <2>1, <2>2 DEF net, Stage, Accounted, AtWork, CauseLasts, Readable
    <2>. QED  BY <1>1, <2>3, <2>5, <2>6
              DEF net, OncePerFile, ListedAreOpen, EventsAreCurrent, BacklogExact
  <1>. QED  BY <1>2, <1>3 DEF Inner

\* Steps that end an event and touch no more than one connection's buffers.
Finish == AcceptNoMore \/ AcceptFails \/ WriteFails \/ WriteToClosed \/ Write

\* Those steps keep the invariant: the event in work leaves the batch.
LEMMA FinishStep ==
    ASSUME IInv, Finish
    PROVE  IInv'
  <1>. USE ListenerAssumption DEF IInv
  <1>1. /\ Done /\ batch # <<>> /\ pc' = "loop" /\ ~Busy'
        /\ UNCHANGED <<phase, rcv, asked, got, backlog, ready, hand>>
    BY DEF Finish, AcceptNoMore, AcceptFails, WriteFails, WriteToClosed, Write, Done, Stage, Busy, net
  <1>2. /\ batch' \in Seq([item : Item, ev : {"in", "err"}]) /\ 1 \in DOMAIN batch
        /\ \A j, k \in DOMAIN batch' : batch'[j].item = batch'[k].item => j = k
        /\ \A k \in DOMAIN batch' :
              /\ k \in Nat \ {0} /\ k + 1 \in DOMAIN batch /\ batch'[k] = batch[k + 1]
              /\ batch'[k] \in [item : Item, ev : {"in", "err"}]
              /\ batch'[k].item # batch[1].item
    BY <1>1, DoneFacts
  <1>. USE DEF Finish
  <1>3. /\ peer' \in [Conn -> {"up", "fin", "finw", "finrst", "rst"}]
        /\ fails' \in 0 .. MaxFail
        /\ \A c \in Conn : peer'[c] = "up" <=> peer[c] = "up"
    <2>1. CASE UNCHANGED <<peer, fails>>
      BY <2>1 DEF TypeOK
    <2>2. CASE AcceptFails
      BY <2>2, BoundAssumption DEF TypeOK, AcceptFails
    <2>3. CASE WriteToClosed
      <3>1. /\ hand.conn \in Conn /\ peer[hand.conn] # "up"
            /\ peer' = [peer EXCEPT ![hand.conn] = "finw"] /\ UNCHANGED fails
        BY <2>3 DEF WriteToClosed, TypeOK, Busy
      <3>. QED  BY <3>1 DEF TypeOK
    <2>. QED  BY <2>1, <2>2, <2>3 DEF AcceptNoMore, WriteFails, Write, net
  <1>9. /\ snd' \in [Conn -> Seq(Reply)]
        /\ \A c \in Conn : Len(snd'[c]) <= Len(snd[c]) + AtWork(c)
    <2>1. \A c \in Conn : Len(snd[c]) \in Nat /\ AtWork(c) \in Nat
      BY DEF TypeOK, AtWork
    <2>2. CASE UNCHANGED snd
      BY <2>1, <2>2 DEF TypeOK
    <2>3. CASE Write
      <3>1. /\ hand \in [conn : Conn, req : Request, dg : Reply]
            /\ snd' = [snd EXCEPT ![hand.conn] = Append(@, hand.dg)] /\ Busy
        BY <2>3 DEF Write, TypeOK, Busy
      <3>2. /\ hand.conn \in Conn /\ Append(snd[hand.conn], hand.dg) \in Seq(Reply)
            /\ Len(Append(snd[hand.conn], hand.dg)) = Len(snd[hand.conn]) + 1
            /\ AtWork(hand.conn) = 1
        BY <3>1, AppendProperties DEF TypeOK, AtWork
      <3>3. snd' \in [Conn -> Seq(Reply)]
        BY <3>1, <3>2 DEF TypeOK
      <3>4. \A c \in Conn : snd'[c] = IF c = hand.conn THEN Append(snd[c], hand.dg) ELSE snd[c]
        BY <3>1 DEF TypeOK
      <3>5. ASSUME NEW c \in Conn  PROVE  Len(snd'[c]) <= Len(snd[c]) + AtWork(c)
        <4>1. Len(snd[c]) \in Nat /\ AtWork(c) \in Nat
          BY <2>1
        <4>2. CASE c = hand.conn
          <5>1. Len(snd'[c]) = Len(snd[c]) + 1 /\ AtWork(c) = 1
            BY <4>2, <3>2, <3>4
          <5>. QED  BY <4>1, <5>1
        <4>3. CASE c # hand.conn
          BY <4>1, <4>3, <3>4
        <4>. QED  BY <4>2, <4>3
      <3>. QED  BY <3>3, <3>5
    <2>. QED  BY <2>2, <2>3 DEF AcceptNoMore, AcceptFails, WriteFails, WriteToClosed, net
  <1>4. TypeOK'
    BY <1>1, <1>2, <1>3, <1>9 DEF TypeOK
  <1>5. Stage' /\ OncePerFile' /\ ListedAreOpen' /\ HandFits' /\ BacklogExact'
    BY <1>1, <1>2 DEF Stage, OncePerFile, ListedAreOpen, HandFits, BacklogExact
  <1>6. EventsAreCurrent'
    BY <1>1, <1>2 DEF EventsAreCurrent
  <1>7. CauseLasts'
    <2>1. \A k \in DOMAIN batch' : k + 1 # 1
      BY <1>2
    <2>2. \A c \in Conn :
             /\ Readable(c) <=> Readable(c)'
             /\ peer[c] # "up" <=> peer'[c] # "up"
      BY <1>1, <1>3 DEF Readable
    <2>3. ASSUME NEW k \in DOMAIN batch'
          PROVE  /\ batch[k + 1].item = Listener => batch[k + 1].ev = "in"
                 /\ batch[k + 1].item # Listener /\ batch[k + 1].ev = "err" => peer[batch[k + 1].item] # "up"
                 /\ batch[k + 1].item # Listener /\ batch[k + 1].ev = "in" => Readable(batch[k + 1].item)
      BY <1>2, <2>1 DEF CauseLasts
    <2>4. \A k \in DOMAIN batch' : batch'[k].item # Listener => batch'[k].item \in Conn
      BY <1>2 DEF Item
    <2>. QED  BY <1>1, <1>2, <2>2, <2>3, <2>4 DEF CauseLasts
  <1>8. Accounted'
    <2>. SUFFICES ASSUME NEW c \in Conn
                  PROVE  got'[c] + Len(snd'[c]) + Len(rcv'[c]) + AtWork(c)' <= asked'[c]
      BY DEF Accounted
    <2>1. /\ Len(snd[c]) \in Nat /\ AtWork(c) \in Nat /\ AtWork(c)' = 0
          /\ Len(snd'[c]) \in Nat /\ Len(rcv[c]) \in Nat
          /\ got[c] \in Nat /\ asked[c] \in Nat
      BY <1>1, <1>9 DEF TypeOK, AtWork
    <2>2. got[c] + Len(snd[c]) + Len(rcv[c]) + AtWork(c) <= asked[c]
      BY DEF Accounted
    <2>3. Len(snd'[c]) <= Len(snd[c]) + AtWork(c)
      BY <1>9
    <2>. HIDE DEF IInv, Finish
    <2>4. got[c] + Len(snd'[c]) + Len(rcv[c]) + 0 <= asked[c]
      BY <2>1, <2>2, <2>3, AnsweredBalance
    <2>. QED  BY <1>1, <2>1, <2>4
  <1>. QED  BY <1>4, <1>5, <1>6, <1>7, <1>8

\* The first of the backlog is the only one that leaves it.
LEMMA BacklogFacts ==
    ASSUME IInv, backlog # <<>>, backlog' = Tail(backlog)
    PROVE  /\ Head(backlog) \in Conn /\ phase[Head(backlog)] = "backlog"
           /\ backlog' \in Seq(Conn) /\ Once(backlog')
           /\ \A x : Has(backlog', x) <=> Has(backlog, x) /\ x # Head(backlog)
  BY TailFacts DEF IInv, TypeOK, BacklogExact

\* accept and epoll_ctl keep the invariant: a connection is listed only when
\* it is open.
LEMMA AcceptOneStep ==
    ASSUME IInv, AcceptOne
    PROVE  IInv'
  <1>. USE ListenerAssumption DEF IInv
  <1>. DEFINE b == Head(backlog)
  <1>1. /\ b \in Conn /\ phase[b] = "backlog" /\ pc = "accept"
        /\ backlog' \in Seq(Conn) /\ Once(backlog')
        /\ \A x : Has(backlog', x) <=> Has(backlog, x) /\ x # b
        /\ phase' = [phase EXCEPT ![b] = "open"]
        /\ ready' = IF Readable(b) THEN Wake(b, ready) ELSE ready
        /\ UNCHANGED <<peer, rcv, snd, asked, got, fails, pc, batch, hand>>
    BY BacklogFacts DEF AcceptOne, Register
  <1>. HIDE DEF b
  <1>2. /\ ready' \in Seq(Item) /\ Once(ready')
        /\ \A x : Has(ready', x) => Has(ready, x) \/ x = b
    BY <1>1, WakeFacts DEF TypeOK, OncePerFile, Item
  <1>3. TypeOK'
    BY <1>1, <1>2 DEF TypeOK, Busy
  <1>4. Stage' /\ OncePerFile' /\ HandFits' /\ Accounted'
    BY <1>1, <1>2 DEF Stage, OncePerFile, HandFits, Accounted, AtWork, Busy
  <1>5. ListedAreOpen' /\ EventsAreCurrent' /\ BacklogExact'
    <2>1. \A c \in Conn : phase'[c] = IF c = b THEN "open" ELSE phase[c]
      BY <1>1 DEF TypeOK
    <2>2. ListedAreOpen' /\ BacklogExact'
      BY <1>1, <1>2, <2>1 DEF ListedAreOpen, BacklogExact
    <2>3. \A k \in DOMAIN batch : batch[k].item \in Item
      BY BatchElements
    <2>. QED  BY <1>1, <2>1, <2>2, <2>3 DEF EventsAreCurrent, Item
  <1>6. CauseLasts'
    BY <1>1 DEF CauseLasts, Readable, Busy
  <1>. QED  BY <1>3, <1>4, <1>5, <1>6

\* A connection that cannot be registered keeps it too.
LEMMA RegisterFailsStep ==
    ASSUME IInv, RegisterFails
    PROVE  IInv'
  <1>. USE ListenerAssumption DEF IInv
  <1>. DEFINE b == Head(backlog)
  <1>1. /\ b \in Conn /\ phase[b] = "backlog" /\ pc = "accept"
        /\ backlog' \in Seq(Conn) /\ Once(backlog')
        /\ \A x : Has(backlog', x) <=> Has(backlog, x) /\ x # b
        /\ phase' = [phase EXCEPT ![b] = "closed"]
        /\ ready' = RemoveFirst(ready, b)
        /\ rcv' = [rcv EXCEPT ![b] = <<>>] /\ snd' = [snd EXCEPT ![b] = <<>>]
        /\ fails < MaxFail /\ fails' = fails + 1 /\ Done
        /\ UNCHANGED <<peer, asked, got, hand>>
    BY BacklogFacts DEF RegisterFails, CloseConn
  <1>. HIDE DEF b
  <1>2. /\ ready' \in Seq(Item) /\ Once(ready')
        /\ \A x : Has(ready', x) <=> Has(ready, x) /\ x # b
    BY <1>1, RemoveFirstFacts DEF TypeOK, OncePerFile
  <1>3. /\ batch' \in Seq([item : Item, ev : {"in", "err"}]) /\ 1 \in DOMAIN batch
        /\ \A j, k \in DOMAIN batch' : batch'[j].item = batch'[k].item => j = k
        /\ \A k \in DOMAIN batch' :
              /\ k \in Nat \ {0} /\ k + 1 \in DOMAIN batch /\ batch'[k] = batch[k + 1]
              /\ batch'[k] \in [item : Item, ev : {"in", "err"}]
        /\ pc' = "loop" /\ ~Busy' /\ ~Busy
    BY <1>1, DoneFacts DEF Stage, Done, Busy
  <1>4. \A c \in Conn : phase'[c] = IF c = b THEN "closed" ELSE phase[c]
    BY <1>1 DEF TypeOK
  <1>5. TypeOK'
    BY <1>1, <1>2, <1>3, BoundAssumption DEF TypeOK
  <1>6. Stage' /\ OncePerFile' /\ HandFits'
    BY <1>1, <1>2, <1>3 DEF Stage, OncePerFile, HandFits
  <1>7. ListedAreOpen' /\ BacklogExact'
    BY <1>1, <1>2, <1>4 DEF ListedAreOpen, BacklogExact
  <1>8. EventsAreCurrent' /\ \A k \in DOMAIN batch' : batch'[k].item # b
    BY <1>1, <1>3, <1>4 DEF EventsAreCurrent, Item
  <1>9. CauseLasts'
    <2>1. \A c \in Conn : c # b => (Readable(c) <=> Readable(c)')
      BY <1>1 DEF Readable, TypeOK
    <2>. QED  BY <1>1, <1>3, <1>8, <2>1 DEF CauseLasts, Item
  <1>10. Accounted'
    BY <1>1, <1>3 DEF Accounted, AtWork, TypeOK
  <1>. QED  BY <1>5, <1>6, <1>7, <1>8, <1>9, <1>10

\* epoll_wait keeps the invariant: it reports each file once, with its cause.
LEMMA EpollWaitStep ==
    ASSUME IInv, EpollWait
    PROVE  IInv'
  <1>. USE ListenerAssumption DEF IInv
  <1>1. PICK n \in 1 .. MaxEvents, seen \in DOMAIN ready : \E at \in [1 .. n -> 1 .. seen] :
          /\ \A j, k \in 1 .. n : j < k => at[j] < at[k]
          /\ {at[k] : k \in 1 .. n} = {k \in 1 .. seen : Pollable(ready[k])}
          /\ batch' = [k \in 1 .. n |-> [item |-> ready[at[k]], ev |-> Event(ready[at[k]])]]
          /\ ready' = SubSeq(ready, seen + 1, Len(ready))
    BY DEF EpollWait
  <1>2. PICK at \in [1 .. n -> 1 .. seen] :
          /\ \A j, k \in 1 .. n : j < k => at[j] < at[k]
          /\ {at[k] : k \in 1 .. n} = {k \in 1 .. seen : Pollable(ready[k])}
          /\ batch' = [k \in 1 .. n |-> [item |-> ready[at[k]], ev |-> Event(ready[at[k]])]]
          /\ ready' = SubSeq(ready, seen + 1, Len(ready))
    BY <1>1
  <1>3. /\ pc = "wait" /\ pc' = "loop" /\ ~Busy /\ ~Busy'
        /\ UNCHANGED <<phase, peer, rcv, snd, asked, got, backlog, fails, hand>>
    BY DEF EpollWait, Busy
  <1>4. n \in Nat /\ Len(ready) \in Nat /\ seen \in 1 .. Len(ready)
        /\ DOMAIN ready = 1 .. Len(ready) /\ \A k \in DOMAIN ready : ready[k] \in Item
    BY BoundAssumption, LenProperties, ElementOfSeq DEF TypeOK
  <1>5. \A k \in 1 .. n : /\ at[k] \in DOMAIN ready
                          /\ batch'[k].item = ready[at[k]]
                          /\ batch'[k].ev = Event(ready[at[k]])
                          /\ batch'[k] \in [item : Item, ev : {"in", "err"}]
                          /\ Pollable(ready[at[k]])
    <2>1. \A k \in 1 .. n : at[k] \in 1 .. seen /\ at[k] \in {at[j] : j \in 1 .. n}
      BY <1>2
    <2>2. \A k \in 1 .. n : at[k] \in DOMAIN ready /\ Pollable(ready[at[k]])
      <3>. DEFINE P == {k \in 1 .. seen : Pollable(ready[k])}
      <3>1. {at[k] : k \in 1 .. n} = P
        BY <1>2
      <3>2. \A k \in P : k \in DOMAIN ready /\ Pollable(ready[k])
        BY <1>4
      <3>. HIDE DEF P
      <3>. QED  BY <2>1, <3>1, <3>2
    <2>3. \A i : Event(i) \in {"in", "err"}
      BY DEF Event
    <2>4. \A k \in 1 .. n : batch'[k] = [item |-> ready[at[k]], ev |-> Event(ready[at[k]])]
      BY <1>2
    <2>5. ASSUME NEW k \in 1 .. n
          PROVE  /\ batch'[k].item = ready[at[k]] /\ batch'[k].ev = Event(ready[at[k]])
                 /\ batch'[k] \in [item : Item, ev : {"in", "err"}]
      <3>1. PICK i \in Item : i = ready[at[k]]
        BY <1>4, <2>2
      <3>2. PICK e \in {"in", "err"} : e = Event(i)
        BY <2>3
      <3>3. batch'[k] = [item |-> i, ev |-> e]
        BY <2>4, <3>1, <3>2
      <3>. QED  BY <3>1, <3>2, <3>3
    <2>. QED  BY <2>2, <2>5
  <1>6. \A j, k \in 1 .. n : at[j] = at[k] => j = k
    <2>1. \A j, k \in 1 .. n : at[j] \in Nat /\ at[k] \in Nat /\ (j < k \/ k < j \/ j = k)
      BY <1>2, <1>4
    <2>. QED  BY <1>2, <2>1
  <1>7. DOMAIN batch' = 1 .. n
    BY <1>2
  <1>16. batch' \in Seq([item : Item, ev : {"in", "err"}])
    <2>. DEFINE E == [item : Item, ev : {"in", "err"}]
                Entry(k) == [item |-> ready[at[k]], ev |-> Event(ready[at[k]])]
    <2>1. \A k \in 1 .. n : Entry(k) \in E
      BY <1>5
    <2>2. batch' = [k \in 1 .. n |-> Entry(k)]
      BY <1>2
    <2>. HIDE DEF E, Entry
    <2>3. batch' \in [1 .. n -> E]
      BY <2>1, <2>2
    <2>4. batch' \in Seq(E)
      BY <1>4, <2>3, SeqDef
    <2>. QED  BY <2>4 DEF E
  <1>8. /\ ready' \in Seq(Item) /\ Once(ready')
        /\ \A x : Has(ready', x) => Has(ready, x)
    BY <1>2, SuffixFacts DEF TypeOK, OncePerFile
  <1>9. TypeOK'
    BY <1>3, <1>8, <1>16 DEF TypeOK
  <1>10. Stage' /\ HandFits'
    BY <1>3 DEF Stage, HandFits, Busy
  <1>11. OncePerFile'
    BY <1>5, <1>6, <1>7, <1>8 DEF OncePerFile, Once
  <1>12. ListedAreOpen' /\ BacklogExact'
    BY <1>3, <1>8 DEF ListedAreOpen, BacklogExact
  <1>13. EventsAreCurrent'
    <2>1. \A k \in 1 .. n : batch'[k].item # Listener =>
             batch'[k].item \in Conn /\ Has(ready, batch'[k].item)
      <3>1. \A k \in 1 .. n : batch'[k].item = ready[at[k]] /\ at[k] \in DOMAIN ready
        BY <1>5
      <3>. QED  BY <1>4, <3>1 DEF Has, Item
    <2>2. \A k \in 1 .. n : batch'[k].item # Listener => phase[batch'[k].item] = "open"
      BY <2>1 DEF ListedAreOpen
    <2>. QED  BY <1>3, <1>7, <2>2 DEF EventsAreCurrent
  <1>14. CauseLasts'
    BY <1>3, <1>5, <1>7 DEF CauseLasts, Event, Pollable, Readable
  <1>15. Accounted'
    BY <1>3 DEF Accounted, AtWork, Busy
  <1>. QED  BY <1>9, <1>10, <1>11, <1>12, <1>13, <1>14, <1>15

\* An arrival lists the connection if it is registered, once.
LEMMA ArrivalFacts ==
    ASSUME IInv, NEW c \in Conn, Arrival(c)
    PROVE  /\ ready' \in Seq(Item) /\ Once(ready')
           /\ \A x : Has(ready', x) <=> Has(ready, x) \/ (x = c /\ phase[c] = "open")
  <1>1. /\ Wake(c, ready) \in Seq(Item) /\ Once(Wake(c, ready))
        /\ \A x : Has(Wake(c, ready), x) <=> Has(ready, x) \/ x = c
    BY WakeFacts DEF IInv, TypeOK, OncePerFile, Item
  <1>. QED  BY <1>1 DEF Arrival, Registered, IInv, TypeOK, OncePerFile

\* connect wakes the listener and keeps the invariant.
LEMMA ConnectStep ==
    ASSUME IInv, NEW c \in Conn, Connect(c)
    PROVE  IInv'
  <1>. USE ListenerAssumption DEF IInv
  <1>1. /\ phase[c] = "off" /\ phase' = [phase EXCEPT ![c] = "backlog"]
        /\ backlog' = Append(backlog, c) /\ ready' = Wake(Listener, ready)
        /\ UNCHANGED <<peer, rcv, snd, asked, got, fails, pc, batch, hand>>
    BY DEF Connect
  <1>2. /\ ready' \in Seq(Item) /\ Once(ready')
        /\ \A x : Has(ready', x) <=> Has(ready, x) \/ x = Listener
    <2>1. ready \in Seq(Item) /\ Once(ready) /\ Listener \in Item
      BY DEF TypeOK, OncePerFile, Item
    <2>. QED  BY <1>1, <2>1, WakeFacts
  <1>3. /\ backlog' \in Seq(Conn) /\ Once(backlog')
        /\ \A x : Has(backlog', x) <=> Has(backlog, x) \/ x = c
    <2>1. ~Has(backlog, c) /\ Wake(c, backlog) = Append(backlog, c)
      BY <1>1 DEF BacklogExact, Wake, Has
    <2>2. backlog \in Seq(Conn) /\ Once(backlog)
      BY DEF TypeOK, BacklogExact
    <2>3. /\ Wake(c, backlog) \in Seq(Conn) /\ Once(Wake(c, backlog))
          /\ \A x : Has(Wake(c, backlog), x) <=> Has(backlog, x) \/ x = c
      BY <2>2, WakeFacts
    <2>4. backlog' = Wake(c, backlog)
      BY <1>1, <2>1
    <2>. QED  BY <2>3, <2>4
  <1>4. \A d \in Conn : phase'[d] = IF d = c THEN "backlog" ELSE phase[d]
    BY <1>1 DEF TypeOK
  <1>5. TypeOK'
    BY <1>1, <1>2, <1>3 DEF TypeOK, Busy
  <1>6. Stage' /\ OncePerFile' /\ HandFits' /\ Accounted' /\ CauseLasts'
    BY <1>1, <1>2 DEF Stage, OncePerFile, HandFits, Accounted, AtWork, CauseLasts, Readable, Busy
  <1>7. ListedAreOpen' /\ BacklogExact'
    BY <1>1, <1>2, <1>3, <1>4 DEF ListedAreOpen, BacklogExact
  <1>8. EventsAreCurrent'
    <2>1. \A k \in DOMAIN batch : batch[k].item \in Item
      BY BatchElements
    <2>. QED  BY <1>1, <1>4, <2>1 DEF EventsAreCurrent, Item
  <1>. QED  BY <1>5, <1>6, <1>7, <1>8

\* Steps of a client that is connected, and of the network under it.
Talk(c) ==
    (\E r \in Request : Send(c, r)) \/ Receive(c) \/ ClientClose(c) \/ ResetArrives(c)

\* Those steps keep the invariant, whichever event of the connection waits.
LEMMA TalkStep ==
    ASSUME IInv, NEW c \in Conn, Talk(c)
    PROVE  IInv'
  <1>. USE ListenerAssumption DEF IInv
  <1>1. UNCHANGED <<phase, backlog, fails, pc, batch, hand>>
    BY DEF Talk, Send, Receive, ClientClose, ResetArrives
  <1>2. /\ ready' \in Seq(Item) /\ Once(ready')
        /\ \A x : Has(ready', x) => Has(ready, x) \/ (x = c /\ phase[c] = "open")
    <2>1. Arrival(c) \/ ready' = ready
      BY DEF Talk, Send, Receive, ClientClose, ResetArrives
    <2>. QED  BY <2>1, ArrivalFacts DEF TypeOK, OncePerFile
  <1>3. \A d \in Conn :
           /\ Len(snd[d]) \in Nat /\ Len(rcv[d]) \in Nat /\ AtWork(d) \in Nat
           /\ got[d] \in Nat /\ asked[d] \in Nat /\ AtWork(d)' = AtWork(d)
    BY <1>1 DEF TypeOK, AtWork, Busy
  <1>. DEFINE Buffers ==
         /\ peer' \in [Conn -> {"up", "fin", "finw", "finrst", "rst"}]
         /\ rcv' \in [Conn -> Seq(Request)] /\ snd' \in [Conn -> Seq(Reply)]
         /\ asked' \in [Conn -> 0 .. MaxReq] /\ got' \in [Conn -> 0 .. MaxReq]
       Lasting == \A d \in Conn :
         /\ peer[d] # "up" => peer'[d] # "up"
         /\ rcv[d] # <<>> => rcv'[d] # <<>>
       Fits(d) ==
         got'[d] + Len(snd'[d]) + Len(rcv'[d]) + asked[d]
            <= got[d] + Len(snd[d]) + Len(rcv[d]) + asked'[d]
       Same(d) ==
         /\ Len(snd'[d]) = Len(snd[d]) /\ Len(rcv'[d]) = Len(rcv[d])
         /\ got'[d] = got[d] /\ asked'[d] = asked[d]
       Balanced == \A d \in Conn : Fits(d)
  <1>13. ASSUME Fits(c), \A d \in Conn : d # c => Same(d)  PROVE  Balanced
    <2>1. ASSUME NEW d \in Conn, d # c  PROVE  Fits(d)
      <3>1. Same(d)
        BY <1>13, <2>1
      <3>. QED  BY <1>3, <3>1
    <2>. HIDE DEF Fits
    <2>. QED  BY <1>13, <2>1
  <1>4. ASSUME NEW r \in Request, Send(c, r)  PROVE  Buffers /\ Lasting /\ Balanced
    <2>1. /\ Append(rcv[c], r) \in Seq(Request) /\ Append(rcv[c], r) # <<>>
          /\ Len(Append(rcv[c], r)) = Len(rcv[c]) + 1
      <3>1. rcv[c] \in Seq(Request)
        BY DEF TypeOK
      <3>. QED  BY <3>1, AppendProperties
    <2>2. /\ asked[c] < MaxReq /\ asked' = [asked EXCEPT ![c] = @ + 1]
          /\ rcv' = [rcv EXCEPT ![c] = Append(@, r)]
          /\ UNCHANGED <<peer, snd, got>>
      BY <1>4 DEF Send
    <2>3. Buffers
      <3>1. asked[c] + 1 \in 0 .. MaxReq
        BY <1>3, <2>2, BoundAssumption
      <3>. QED  BY <2>1, <2>2, <3>1 DEF TypeOK
    <2>6. Lasting
      BY <2>1, <2>2 DEF TypeOK
    <2>4. \A d \in Conn : d # c => Same(d)
      BY <2>2 DEF TypeOK
    <2>5. Fits(c)
      <3>1. /\ Len(snd'[c]) = Len(snd[c]) /\ Len(rcv'[c]) = Len(rcv[c]) + 1
            /\ got'[c] = got[c] /\ asked'[c] = asked[c] + 1
        BY <2>1, <2>2 DEF TypeOK
      <3>2. Len(snd[c]) \in Nat /\ Len(rcv[c]) \in Nat /\ got[c] \in Nat /\ asked[c] \in Nat
        BY <1>3
      <3>. HIDE DEF IInv
      <3>. QED  BY <3>1, <3>2, AskedBalance
    <2>. HIDE DEF Fits, Same
    <2>. QED  BY <1>13, <2>3, <2>4, <2>5, <2>6
  <1>5. ASSUME Receive(c)  PROVE  Buffers /\ Lasting /\ Balanced
    <2>1. /\ snd[c] # <<>> /\ snd' = [snd EXCEPT ![c] = Tail(@)]
          /\ got' = [got EXCEPT ![c] = @ + 1]
          /\ UNCHANGED <<peer, rcv, asked>>
      BY <1>5 DEF Receive
    <2>2. Tail(snd[c]) \in Seq(Reply) /\ Len(Tail(snd[c])) = Len(snd[c]) - 1 /\ Len(snd[c]) > 0
      BY <2>1, HeadTailProperties, EmptySeq DEF TypeOK
    <2>3. got[c] + 1 \in 0 .. MaxReq
      BY <1>3, <2>2, BoundAssumption DEF Accounted, TypeOK
    <2>4. Buffers /\ Lasting
      BY <2>1, <2>2, <2>3 DEF TypeOK
    <2>5. \A d \in Conn : d # c => Same(d)
      BY <2>1 DEF TypeOK
    <2>6. Fits(c)
      <3>1. /\ Len(snd'[c]) = Len(snd[c]) - 1 /\ Len(rcv'[c]) = Len(rcv[c])
            /\ got'[c] = got[c] + 1 /\ asked'[c] = asked[c]
        BY <2>1, <2>2 DEF TypeOK
      <3>2. Len(snd[c]) \in Nat /\ Len(rcv[c]) \in Nat /\ got[c] \in Nat /\ asked[c] \in Nat
        BY <1>3
      <3>. HIDE DEF IInv
      <3>. QED  BY <3>1, <3>2, AskedBalance
    <2>. HIDE DEF Fits, Same
    <2>. QED  BY <1>13, <2>4, <2>5, <2>6
  <1>6. ASSUME ClientClose(c)  PROVE  Buffers /\ Lasting /\ Balanced
    <2>1. /\ peer' = [peer EXCEPT ![c] = IF snd[c] # <<>> THEN "rst" ELSE "fin"]
          /\ snd' = [snd EXCEPT ![c] = <<>>]
          /\ UNCHANGED <<rcv, asked, got>>
      BY <1>6 DEF ClientClose
    <2>2. Buffers /\ Lasting
      BY <2>1 DEF TypeOK
    <2>3. \A d \in Conn : d # c => Same(d)
      BY <2>1 DEF TypeOK
    <2>4. Fits(c)
      <3>1. /\ Len(snd'[c]) = 0 /\ Len(rcv'[c]) = Len(rcv[c])
            /\ got'[c] = got[c] /\ asked'[c] = asked[c]
        BY <2>1 DEF TypeOK
      <3>. QED  BY <1>3, <3>1
    <2>. HIDE DEF Fits, Same
    <2>. QED  BY <1>13, <2>2, <2>3, <2>4
  <1>7. ASSUME ResetArrives(c)  PROVE  Buffers /\ Lasting /\ Balanced
    <2>1. peer' = [peer EXCEPT ![c] = "finrst"] /\ UNCHANGED <<rcv, snd, asked, got>>
      BY <1>7 DEF ResetArrives
    <2>2. Buffers /\ Lasting
      BY <2>1 DEF TypeOK
    <2>3. \A d \in Conn : Same(d)
      BY <2>1
    <2>4. Fits(c)
      BY <1>3, <2>3
    <2>. HIDE DEF Fits, Same
    <2>. QED  BY <1>13, <2>2, <2>3, <2>4
  <1>. HIDE DEF Buffers, Lasting, Balanced, Fits
  <1>8. Buffers /\ Lasting /\ Balanced
    BY <1>4, <1>5, <1>6, <1>7 DEF Talk
  <1>9. TypeOK'
    BY <1>1, <1>2, <1>8 DEF TypeOK, Busy, Buffers
  <1>10. Stage' /\ OncePerFile' /\ EventsAreCurrent' /\ BacklogExact' /\ HandFits'
    BY <1>1, <1>2 DEF Stage, OncePerFile, EventsAreCurrent, BacklogExact, HandFits, Busy
  <1>11. ListedAreOpen'
    BY <1>1, <1>2 DEF ListedAreOpen
  <1>12. CauseLasts'
    <2>1. \A k \in DOMAIN batch : batch[k].item \in Item
      BY BatchElements
    <2>2. \A d \in Conn : Readable(d) => Readable(d)'
      BY <1>8 DEF Readable, Lasting
    <2>3. Busy' <=> Busy
      BY <1>1 DEF Busy
    <2>. QED  BY <1>1, <1>8, <2>1, <2>2, <2>3 DEF CauseLasts, Item, Lasting
  <1>14. Accounted'
    <2>1. \A d \in Conn :
             /\ Len(snd'[d]) \in Nat /\ Len(rcv'[d]) \in Nat
             /\ got'[d] \in Nat /\ asked'[d] \in Nat
      BY <1>8, BoundAssumption DEF Buffers
    <2>2. ASSUME NEW d \in Conn
          PROVE  got'[d] + Len(snd'[d]) + Len(rcv'[d]) + AtWork(d)' <= asked'[d]
      <3>1. got[d] + Len(snd[d]) + Len(rcv[d]) + AtWork(d) <= asked[d]
        BY DEF Accounted
      <3>2. Fits(d)
        BY <1>8 DEF Balanced
      <3>3. AtWork(d)' = AtWork(d)
        BY <1>3
      <3>4. /\ Len(snd'[d]) \in Nat /\ Len(rcv'[d]) \in Nat
            /\ got'[d] \in Nat /\ asked'[d] \in Nat
            /\ Len(snd[d]) \in Nat /\ Len(rcv[d]) \in Nat
            /\ got[d] \in Nat /\ asked[d] \in Nat /\ AtWork(d) \in Nat
        BY <1>3, <2>1
      <3>5. got'[d] + Len(snd'[d]) + Len(rcv'[d]) + AtWork(d) <= asked'[d]
        BY <3>1, <3>2, <3>4, Balance DEF Fits
      <3>. QED  BY <3>3, <3>5
    <2>. QED  BY <2>2 DEF Accounted
  <1>. QED  BY <1>9, <1>10, <1>11, <1>12, <1>14

\* Every step keeps the invariant.
LEMMA NextIInv == IInv /\ [Next]_vars => IInv'
  <1>. SUFFICES ASSUME IInv, [Next]_vars  PROVE IInv'
    OBVIOUS
  <1>1. CASE Next
    <2>1. CASE EpollWait
      BY <2>1, EpollWaitStep
    <2>2. CASE Inner
      BY <2>2, InnerStep
    <2>3. CASE AcceptOne
      BY <2>3, AcceptOneStep
    <2>4. CASE RegisterFails
      BY <2>4, RegisterFailsStep
    <2>5. CASE Finish
      BY <2>5, FinishStep
    <2>6. CASE \E c \in Conn : HandleEvent(c)
      BY <2>6, HangUpStep, BeginStep DEF HandleEvent, HangUp, Begin
    <2>7. CASE \E c \in Conn : ClientStep(c)
      BY <2>7, ConnectStep, TalkStep DEF ClientStep, Talk
    <2>. QED  BY <1>1, <2>1, <2>2, <2>3, <2>4, <2>5, <2>6, <2>7
              DEF Next, ServerStep, ServerFault, Inner, Finish
  <1>2. CASE UNCHANGED vars
    BY <1>2 DEF vars, net, IInv, TypeOK, Stage, OncePerFile, ListedAreOpen, EventsAreCurrent,
                CauseLasts, BacklogExact, HandFits, Accounted, AtWork, Readable, Busy
  <1>. QED  BY <1>1, <1>2

\* The inductive invariant holds of every behaviour of the server, its
\* clients and the kernel between them.
THEOREM Invariant == Spec => []IInv
  <1>1. Init => IInv
    BY InitIInv
  <1>2. IInv /\ [Next]_vars => IInv'
    BY NextIInv
  <1>. QED  BY <1>1, <1>2, PTL DEF Spec

-----------------------------------------------------------------------------
(* No lost wake-ups.                                                        *)

\* How an item can cease to be scheduled: its event is done, epoll finds
\* nothing to report about it, or it is closed.
LEMMA ScheduleStep ==
    ASSUME IInv, Next, NEW i \in Item, Scheduled(i), ~Scheduled(i)'
    PROVE  \/ EpollWait /\ ~Pollable(i)
           \/ i = Listener /\ (AcceptNoMore \/ AcceptFails \/ RegisterFails)
           \/ i = hand.conn /\ (Write \/ WriteToClosed \/ WriteFails)
           \/ i \in Conn /\ phase'[i] = "closed"
  <1>. USE ListenerAssumption DEF IInv
  <1>1. Has(ready, i) \/ \E k \in DOMAIN batch : batch[k].item = i
    BY DEF Scheduled, Has
  <1>2. ~Has(ready', i) /\ ~\E k \in DOMAIN batch' : batch'[k].item = i
    BY DEF Scheduled, Has
  <1>3. ASSUME Done, batch # <<>>, ~Has(ready, i)  PROVE  Head(batch).item = i
    <2>1. /\ batch[1] = Head(batch)
          /\ \A k \in DOMAIN batch :
                k # 1 => k - 1 \in DOMAIN batch' /\ batch'[k - 1] = batch[k]
      BY <1>3, DoneFacts
    <2>. QED  BY <1>1, <1>2, <1>3, <2>1
  <1>4. CASE EpollWait
    <2>7. PICK n \in 1 .. MaxEvents, seen \in DOMAIN ready : \E at \in [1 .. n -> 1 .. seen] :
            /\ {at[k] : k \in 1 .. n} = {k \in 1 .. seen : Pollable(ready[k])}
            /\ batch' = [k \in 1 .. n |-> [item |-> ready[at[k]], ev |-> Event(ready[at[k]])]]
            /\ ready' = SubSeq(ready, seen + 1, Len(ready))
      BY <1>4 DEF EpollWait
    <2>1. PICK at \in [1 .. n -> 1 .. seen] :
            /\ {at[k] : k \in 1 .. n} = {k \in 1 .. seen : Pollable(ready[k])}
            /\ batch' = [k \in 1 .. n |-> [item |-> ready[at[k]], ev |-> Event(ready[at[k]])]]
            /\ ready' = SubSeq(ready, seen + 1, Len(ready))
      BY <2>7
    <2>2. batch = <<>> /\ pc = "wait"
      BY <1>4 DEF EpollWait, Stage
    <2>3. PICK k \in DOMAIN ready : ready[k] = i
      BY <1>1, <2>2 DEF Has
    <2>4. Len(ready) \in Nat /\ DOMAIN ready = 1 .. Len(ready) /\ seen \in Nat /\ k \in Nat
      BY LenProperties DEF TypeOK
    <2>5. ~(k > seen)
      BY <2>1, <2>3, <1>2, SuffixFacts DEF TypeOK, OncePerFile
    <2>6. ASSUME Pollable(i)  PROVE  FALSE
      <3>1. k \in {at[j] : j \in 1 .. n}
        <4>1. k \in 1 .. seen
          BY <2>4, <2>5
        <4>. QED  BY <4>1, <2>1, <2>3, <2>6
      <3>2. PICK j \in 1 .. n : at[j] = k
        BY <3>1
      <3>3. j \in DOMAIN batch' /\ batch'[j].item = i
        BY <2>1, <2>3, <3>2
      <3>. QED  BY <3>3, <1>2
    <2>. QED  BY <1>4, <2>6
  <1>5. CASE Inner
    <2>1. UNCHANGED <<net, batch>>
      BY <1>5 DEF Inner, EpollInterrupted, LoopEnd, HandleListener, ReadAdc, ReadAdcFails,
                  WriteKills
    <2>. QED  BY <1>1, <1>2, <2>1 DEF net
  <1>6. CASE AcceptOne
    <2>1. UNCHANGED batch /\ (ready' = ready \/ ready' = Wake(Head(backlog), ready))
      BY <1>6 DEF AcceptOne, Register
    <2>2. Head(backlog) \in Item /\ ready \in Seq(Item) /\ Once(ready)
      BY <1>6, BacklogFacts DEF AcceptOne, TypeOK, OncePerFile, Item
    <2>3. Has(ready, i) => Has(Wake(Head(backlog), ready), i)
      BY <2>2, WakeFacts
    <2>. QED  BY <1>1, <1>2, <2>1, <2>3
  <1>7. CASE RegisterFails
    <2>1. /\ Head(backlog) \in Conn /\ phase'[Head(backlog)] = "closed"
          /\ ready' = RemoveFirst(ready, Head(backlog)) /\ Done /\ batch # <<>>
      BY <1>7, BacklogFacts DEF RegisterFails, CloseConn, TypeOK, Stage
    <2>2. \A x : Has(ready', x) <=> Has(ready, x) /\ x # Head(backlog)
      BY <2>1, RemoveFirstFacts DEF TypeOK, OncePerFile
    <2>3. Head(batch).item = Listener
      BY <1>7 DEF RegisterFails, Stage
    <2>4. CASE Has(ready, i)
      <3>1. i = Head(backlog)
        BY <1>2, <2>2, <2>4
      <3>. QED  BY <2>1, <3>1
    <2>5. CASE ~Has(ready, i)
      <3>1. i = Listener
        BY <1>3, <2>1, <2>3, <2>5
      <3>. QED  BY <1>7, <3>1
    <2>. QED  BY <2>4, <2>5
  <1>8. CASE Finish
    BY <1>2, <1>3, <1>8 DEF Finish, AcceptNoMore, AcceptFails, WriteFails, WriteToClosed, Write,
                            Stage, Busy, net
  <1>9. ASSUME NEW c \in Conn, HandleEvent(c)
        PROVE  i \in Conn /\ phase'[i] = "closed"
    <2>1. CASE HangUp(c)
      <3>1. /\ phase' = [phase EXCEPT ![c] = "closed"] /\ ready' = RemoveFirst(ready, c)
            /\ Done /\ batch # <<>> /\ Head(batch).item = c
        BY <2>1 DEF HangUp, HandleError, HandleEnd, HandleInvalidChannel, CloseConn, NextEvent
      <3>2. phase'[c] = "closed"
        BY <3>1 DEF TypeOK
      <3>3. \A x : Has(ready', x) <=> Has(ready, x) /\ x # c
        BY <3>1, RemoveFirstFacts DEF TypeOK, OncePerFile
      <3>. QED  BY <1>2, <1>3, <3>1, <3>2, <3>3
    <2>2. CASE Begin(c)
      BY <1>1, <1>2, <2>2 DEF Begin, HandleUnknown, HandleGetTime, HandleGetData, TakeRequest
    <2>. QED  BY <1>9, <2>1, <2>2 DEF HandleEvent, HangUp, Begin
  <1>10. ASSUME NEW c \in Conn, ClientStep(c)  PROVE  FALSE
    <2>1. CASE Connect(c)
      <3>1. ready' = Wake(Listener, ready) /\ UNCHANGED batch
        BY <2>1 DEF Connect
      <3>2. Listener \in Item /\ ready \in Seq(Item) /\ Once(ready)
        BY DEF TypeOK, OncePerFile, Item
      <3>3. \A x : Has(ready', x) <=> Has(ready, x) \/ x = Listener
        BY <3>1, <3>2, WakeFacts
      <3>. QED  BY <1>1, <1>2, <3>1, <3>3
    <2>2. CASE Talk(c)
      <3>1. UNCHANGED batch /\ (Arrival(c) \/ ready' = ready)
        BY <2>2 DEF Talk, Send, Receive, ClientClose, ResetArrives
      <3>2. Has(ready, i) => Has(ready', i)
        BY <3>1, ArrivalFacts
      <3>. QED  BY <1>1, <1>2, <3>1, <3>2
    <2>. QED  BY <1>10, <2>1, <2>2 DEF ClientStep, Talk
  <1>. QED  BY <1>4, <1>5, <1>6, <1>7, <1>8, <1>9, <1>10
            DEF Next, ServerStep, ServerFault, Inner, Finish

\* The backlog and the failures grow in few places.
LEMMA BacklogAndFails ==
    ASSUME IInv, Next
    PROVE  /\ backlog' = backlog \/ backlog # <<>> \/ \E c \in Conn : Connect(c)
           /\ fails \in Nat /\ fails' >= fails
  <1>1. fails \in Nat
    BY DEF IInv, TypeOK
  <1>2. Inner => UNCHANGED <<backlog, fails>>
    BY DEF Inner, EpollInterrupted, LoopEnd, HandleListener, ReadAdc, ReadAdcFails, WriteKills, net
  <1>7. EpollWait \/ AcceptNoMore \/ WriteFails \/ Write \/ WriteToClosed
            => UNCHANGED <<backlog, fails>>
    BY DEF EpollWait, AcceptNoMore, WriteFails, Write, WriteToClosed, net
  <1>3. CASE AcceptOne \/ AcceptFails \/ RegisterFails
    BY <1>1, <1>3 DEF AcceptOne, AcceptFails, RegisterFails
  <1>4. ASSUME NEW c \in Conn, HandleEvent(c)  PROVE  UNCHANGED <<backlog, fails>>
    BY <1>4 DEF HandleEvent, HandleError, HandleEnd, HandleInvalidChannel,
       HandleUnknown, HandleGetTime, HandleGetData, TakeRequest
  <1>5. ASSUME NEW c \in Conn, Talk(c)  PROVE  UNCHANGED <<backlog, fails>>
    BY <1>5 DEF Talk, Send, Receive, ClientClose, ResetArrives
  <1>6. ASSUME NEW c \in Conn, Connect(c)  PROVE  UNCHANGED fails
    BY <1>6 DEF Connect
  <1>. QED  BY <1>1, <1>2, <1>3, <1>4, <1>5, <1>6, <1>7
            DEF Next, ServerStep, ServerFault, ClientStep, Inner, Talk

\* Outside accept the backlog changes only by a connection that comes.
LEMMA BacklogMoves ==
    ASSUME IInv, Next, pc # "accept", \A c \in Conn : ~Connect(c)
    PROVE  backlog' = backlog
  <1>1. Inner \/ EpollWait \/ Finish => UNCHANGED backlog
    BY DEF Inner, EpollInterrupted, LoopEnd, HandleListener, ReadAdc, ReadAdcFails, WriteKills,
           EpollWait, Finish, AcceptNoMore, AcceptFails, WriteFails, Write, WriteToClosed, net
  <1>2. ~AcceptOne /\ ~RegisterFails
    BY DEF AcceptOne, RegisterFails
  <1>3. ASSUME NEW c \in Conn, HandleEvent(c)  PROVE  UNCHANGED backlog
    BY <1>3 DEF HandleEvent, HandleError, HandleEnd, HandleInvalidChannel,
       HandleUnknown, HandleGetTime, HandleGetData, TakeRequest
  <1>4. ASSUME NEW c \in Conn, Talk(c)  PROVE  UNCHANGED backlog
    BY <1>4 DEF Talk, Send, Receive, ClientClose, ResetArrives
  <1>. QED  BY <1>1, <1>2, <1>3, <1>4
            DEF Next, ServerStep, ServerFault, ClientStep, Inner, Finish, Talk

\* No step but a failure leaves a connection in the backlog without an event.
LEMMA StepsKeepConnections ==
    ASSUME IInv, Next, backlog' # <<>>, ~Scheduled(Listener)'
    PROVE  \/ fails' > fails
           \/ backlog' = backlog /\ ~Scheduled(Listener)
  <1>. USE ListenerAssumption DEF IInv
  <1>1. ASSUME NEW c \in Conn, Connect(c)  PROVE FALSE
    <2>1. Listener \in Item /\ ready \in Seq(Item) /\ Once(ready) /\ ready' = Wake(Listener, ready)
      BY <1>1 DEF Connect, TypeOK, OncePerFile, Item
    <2>2. Has(ready', Listener)
      BY <2>1, WakeFacts
    <2>. QED  BY <2>2 DEF Scheduled, Has
  <1>2. CASE Scheduled(Listener)
    <2>1. backlog # <<>>
      BY <1>1, BacklogAndFails
    <2>2. Listener \in Item
      BY DEF Item
    <2>3. CASE EpollWait /\ ~Pollable(Listener)
      BY <2>1, <2>3 DEF Pollable
    <2>4. CASE AcceptNoMore
      BY <2>1, <2>4 DEF AcceptNoMore
    <2>5. CASE AcceptFails \/ RegisterFails
      BY <2>5 DEF AcceptFails, RegisterFails, TypeOK
    <2>6. CASE Listener = hand.conn /\ (Write \/ WriteToClosed \/ WriteFails)
      BY <2>6 DEF Write, WriteToClosed, WriteFails, TypeOK, Busy
    <2>. QED  BY <1>2, <2>2, <2>3, <2>4, <2>5, <2>6, ScheduleStep
  <1>3. CASE ~Scheduled(Listener)
    <2>1. pc # "accept"
      <3>1. SUFFICES ASSUME pc = "accept"  PROVE FALSE
        OBVIOUS
      <3>2. batch # <<>> /\ Head(batch).item = Listener
        BY <3>1 DEF Stage
      <3>3. 1 \in DOMAIN batch /\ batch[1] = Head(batch)
        BY <3>2, TailElements DEF TypeOK
      <3>. QED  BY <1>3, <3>2, <3>3 DEF Scheduled
    <2>2. backlog' = backlog
      BY <1>1, <2>1, BacklogMoves
    <2>. QED  BY <1>3, <2>2
  <1>. QED  BY <1>2, <1>3

\* Types: every buffer holds datagrams, at most MaxReq of a client are
\* counted, and the datagram at work is one.
THEOREM TypeCorrect == Spec => []TypeOK
  <1>1. IInv => TypeOK
    BY DEF IInv
  <1>. QED  BY <1>1, Invariant, PTL

\* No event outlives the file it names.
THEOREM EventsStayCurrent == Spec => []EventsAreCurrent
  <1>1. IInv => EventsAreCurrent
    BY DEF IInv
  <1>. QED  BY <1>1, Invariant, PTL

\* For any number of clients and of failures, a connection in the backlog is
\* left without an event only by the step of accept or of a registration that
\* fails, and the next client that connects brings the event back.
THEOREM NoConnectionLost == Spec => NoLostConnection
  <1>1. IInv /\ [Next]_vars =>
            [backlog' # <<>> /\ ~Scheduled(Listener)' =>
                \/ fails' > fails
                \/ backlog' = backlog /\ ~Scheduled(Listener)]_vars
    BY StepsKeepConnections
  <1>. QED  BY <1>1, Invariant, PTL DEF Spec, NoLostConnection

-----------------------------------------------------------------------------
(* No lost edges, for clients that wait for each answer.                    *)

\* A client that waits has at most one datagram on its way, at work or back,
\* so a client that left an answer unread has nothing else at the server.
OneAtATime ==
    \A c \in Conn :
        /\ asked[c] <= got[c] + Window
        /\ peer[c] = "rst" => Len(rcv[c]) + AtWork(c) = 0

\* The types of what Accounted counts.
LEMMA AtWorkFacts ==
    ASSUME IInv
    PROVE  \A c \in Conn :
              /\ Len(snd[c]) \in Nat /\ Len(rcv[c]) \in Nat /\ AtWork(c) \in Nat
              /\ got[c] \in Nat /\ asked[c] \in Nat
              /\ snd[c] # <<>> => Len(snd[c]) > 0
              /\ Len(rcv[c]) = 0 <=> rcv[c] = <<>>
  <1>. SUFFICES ASSUME NEW c \in Conn
                PROVE  /\ Len(snd[c]) \in Nat /\ Len(rcv[c]) \in Nat /\ AtWork(c) \in Nat
                       /\ got[c] \in Nat /\ asked[c] \in Nat
                       /\ snd[c] # <<>> => Len(snd[c]) > 0
                       /\ Len(rcv[c]) = 0 <=> rcv[c] = <<>>
    OBVIOUS
  <1>1. snd[c] \in Seq(Reply) /\ rcv[c] \in Seq(Request)
    BY DEF IInv, TypeOK
  <1>2. got[c] \in Nat /\ asked[c] \in Nat
    BY DEF IInv, TypeOK
  <1>. QED  BY <1>1, <1>2, EmptySeq, LenProperties DEF AtWork

\* No step gives a waiting client a second request on its way.
LEMMA NextOneAtATime ==
    ASSUME Window = 1, IInv, OneAtATime, Next
    PROVE  OneAtATime'
  <1>. USE ListenerAssumption
  <1>1. CASE Inner \/ Finish \/ EpollWait \/ AcceptOne
    <2>1. UNCHANGED <<asked, got, rcv>> /\ \A c \in Conn : peer'[c] = "rst" => peer[c] = "rst"
      BY <1>1 DEF Inner, EpollInterrupted, LoopEnd, HandleListener, ReadAdc, ReadAdcFails,
         WriteKills, Finish, AcceptNoMore, AcceptFails, WriteFails, WriteToClosed, Write,
         EpollWait, AcceptOne, net, IInv, TypeOK
    <2>2. \A c \in Conn : AtWork(c)' = 0 \/ AtWork(c)' = AtWork(c)
      <3>1. ~Busy' \/ (Busy' = Busy /\ hand'.conn = hand.conn)
        BY <1>1 DEF Inner, EpollInterrupted, LoopEnd, HandleListener, ReadAdc, ReadAdcFails,
           WriteKills, Finish, AcceptNoMore, AcceptFails, WriteFails, WriteToClosed, Write,
           EpollWait, AcceptOne, net, IInv, TypeOK, Done, Busy
      <3>. QED  BY <3>1 DEF AtWork
    <2>. QED  BY <2>1, <2>2, AtWorkFacts DEF OneAtATime
  <1>2. CASE RegisterFails
    <2>1. /\ UNCHANGED <<asked, got, peer, hand>> /\ ~Busy'
          /\ rcv' = [rcv EXCEPT ![Head(backlog)] = <<>>]
      BY <1>2 DEF RegisterFails, CloseConn, Done, Busy
    <2>2. \A c \in Conn : Len(rcv'[c]) = 0 \/ rcv'[c] = rcv[c]
      BY <2>1 DEF IInv, TypeOK
    <2>3. \A c \in Conn : AtWork(c)' = 0
      BY <2>1 DEF AtWork
    <2>. QED  BY <2>1, <2>2, <2>3, AtWorkFacts DEF OneAtATime
  <1>3. ASSUME NEW b \in Conn, HangUp(b)  PROVE  OneAtATime'
    <2>1. /\ UNCHANGED <<asked, got, peer, hand>> /\ ~Busy'
          /\ rcv' = [rcv EXCEPT ![b] = <<>>]
      BY <1>3 DEF HangUp, HandleError, HandleEnd, HandleInvalidChannel, CloseConn, Done, Busy
    <2>2. \A c \in Conn : Len(rcv'[c]) = 0 \/ rcv'[c] = rcv[c]
      BY <2>1 DEF IInv, TypeOK
    <2>3. \A c \in Conn : AtWork(c)' = 0
      BY <2>1 DEF AtWork
    <2>. QED  BY <2>1, <2>2, <2>3, AtWorkFacts DEF OneAtATime
  <1>4. ASSUME NEW b \in Conn, Begin(b)  PROVE  OneAtATime'
    <2>1. /\ UNCHANGED <<asked, got, peer>> /\ rcv[b] # <<>> /\ hand'.conn = b
          /\ rcv' = [rcv EXCEPT ![b] = Tail(@)]
      BY <1>4 DEF Begin, HandleUnknown, HandleGetTime, HandleGetData, TakeRequest
    <2>2. peer[b] # "rst"
      BY <2>1, AtWorkFacts DEF OneAtATime
    <2>3. \A c \in Conn : c # b => rcv'[c] = rcv[c] /\ AtWork(c)' = 0
      BY <2>1 DEF IInv, TypeOK, AtWork
    <2>. QED  BY <2>1, <2>2, <2>3, AtWorkFacts DEF OneAtATime
  <1>5. ASSUME NEW b \in Conn, Connect(b)  PROVE  OneAtATime'
    BY <1>5 DEF Connect, OneAtATime, AtWork, Busy
  <1>6. ASSUME NEW b \in Conn, Talk(b)  PROVE  OneAtATime'
    <2>1. UNCHANGED <<pc, hand>> /\ \A c \in Conn : AtWork(c)' = AtWork(c)
      BY <1>6 DEF Talk, Send, Receive, ClientClose, ResetArrives, AtWork, Busy
    <2>2. ASSUME NEW r \in Request, Send(b, r)  PROVE  OneAtATime'
      <3>1. /\ UNCHANGED <<peer, got>> /\ peer[b] = "up" /\ asked'[b] = asked[b] + 1
            /\ asked[b] < got[b] + Window
            /\ \A c \in Conn : c # b => asked'[c] = asked[c] /\ rcv'[c] = rcv[c]
        BY <2>2 DEF Send, IInv, TypeOK
      <3>. QED  BY <2>1, <3>1, AtWorkFacts DEF OneAtATime
    <2>3. CASE Receive(b)
      <3>1. /\ UNCHANGED <<peer, asked, rcv>> /\ got'[b] = got[b] + 1
            /\ \A c \in Conn : c # b => got'[c] = got[c]
        BY <2>3 DEF Receive, IInv, TypeOK
      <3>. QED  BY <2>1, <3>1, AtWorkFacts DEF OneAtATime
    <2>4. CASE ClientClose(b)
      <3>1. /\ UNCHANGED <<asked, got, rcv>>
            /\ peer'[b] = "rst" => Len(snd[b]) > 0
            /\ \A c \in Conn : c # b => peer'[c] = peer[c]
        BY <2>4, AtWorkFacts DEF ClientClose, IInv, TypeOK
      <3>2. ASSUME peer'[b] = "rst"  PROVE  Len(rcv[b]) + AtWork(b) = 0
        <4>1. /\ got[b] + Len(snd[b]) + Len(rcv[b]) + AtWork(b) <= asked[b]
              /\ asked[b] <= got[b] + 1 /\ Len(snd[b]) > 0
          BY <3>1, <3>2 DEF OneAtATime, IInv, Accounted
        <4>2. /\ Len(snd[b]) \in Nat /\ Len(rcv[b]) \in Nat /\ AtWork(b) \in Nat
              /\ got[b] \in Nat /\ asked[b] \in Nat
          BY AtWorkFacts
        <4>. QED  BY <4>1, <4>2
      <3>. QED  BY <2>1, <3>1, <3>2 DEF OneAtATime
    <2>5. CASE ResetArrives(b)
      <3>1. UNCHANGED <<asked, got, rcv>> /\ \A c \in Conn : peer'[c] = "rst" => peer[c] = "rst"
        BY <2>5 DEF ResetArrives, IInv, TypeOK
      <3>. QED  BY <2>1, <3>1 DEF OneAtATime
    <2>. QED  BY <1>6, <2>2, <2>3, <2>4, <2>5 DEF Talk
  <1>. QED  BY <1>1, <1>2, <1>3, <1>4, <1>5, <1>6
            DEF Next, ServerStep, ServerFault, ClientStep, HandleEvent, Inner, Finish,
                HangUp, Begin, Talk

\* Whatever makes an open connection readable puts it on the ready list.
LEMMA EdgeArrives ==
    ASSUME IInv, Next, NEW c \in Conn,
           phase'[c] = "open", Readable(c)', peer'[c] # "finw",
           ~(phase[c] = "open" /\ Readable(c) /\ peer[c] # "finw")
    PROVE  Has(ready', c)
  <1>. USE ListenerAssumption
  <1>1. CASE AcceptOne
    <2>1. UNCHANGED <<peer, rcv>> /\ phase' = [phase EXCEPT ![Head(backlog)] = "open"]
      BY <1>1 DEF AcceptOne
    <2>2. c = Head(backlog)
      BY <2>1 DEF Readable, IInv, TypeOK
    <2>3. ready' = Wake(c, ready) /\ ready \in Seq(Item) /\ Once(ready) /\ c \in Item
      BY <1>1, <2>1, <2>2 DEF AcceptOne, Register, Readable, IInv, TypeOK, OncePerFile, Item
    <2>. QED  BY <2>3, WakeFacts
  <1>2. CASE Inner \/ Finish \/ EpollWait
    <2>1. Inner => UNCHANGED <<phase, rcv, peer>>
      BY DEF Inner, EpollInterrupted, LoopEnd, HandleListener, ReadAdc, ReadAdcFails,
             WriteKills, net
    <2>2. EpollWait \/ AcceptNoMore \/ AcceptFails \/ WriteFails \/ Write
              => UNCHANGED <<phase, rcv, peer>>
      BY DEF EpollWait, AcceptNoMore, AcceptFails, WriteFails, Write, net
    <2>3. WriteToClosed => UNCHANGED <<phase, rcv>> /\ peer'[c] \in {"finw", peer[c]}
      BY DEF WriteToClosed, IInv, TypeOK
    <2>. QED  BY <1>2, <2>1, <2>2, <2>3 DEF Finish, Readable
  <1>3. CASE RegisterFails
    BY <1>3 DEF RegisterFails, CloseConn, Readable, IInv, TypeOK
  <1>4. ASSUME NEW b \in Conn, HangUp(b)  PROVE  Has(ready', c)
    BY <1>4 DEF HangUp, HandleError, HandleEnd, HandleInvalidChannel, CloseConn, Readable,
                IInv, TypeOK
  <1>5. ASSUME NEW b \in Conn, Begin(b)  PROVE  Has(ready', c)
    <2>1. UNCHANGED <<phase, peer>> /\ rcv[b] # <<>> /\ \A d \in Conn : d # b => rcv'[d] = rcv[d]
      BY <1>5 DEF Begin, HandleUnknown, HandleGetTime, HandleGetData, TakeRequest, IInv, TypeOK
    <2>. QED  BY <2>1 DEF Readable
  <1>6. ASSUME NEW b \in Conn, Connect(b)  PROVE  Has(ready', c)
    BY <1>6 DEF Connect, Readable, IInv, TypeOK
  <1>7. ASSUME NEW b \in Conn, Talk(b)  PROVE  Has(ready', c)
    <2>1. phase[c] = "open"
      BY <1>7 DEF Talk, Send, Receive, ClientClose, ResetArrives
    <2>2. c = b /\ Arrival(b)
      BY <1>7, <2>1 DEF Talk, Send, Receive, ClientClose, ResetArrives, Readable, IInv, TypeOK
    <2>. QED  BY <2>1, <2>2, ArrivalFacts
  <1>. QED  BY <1>1, <1>2, <1>3, <1>4, <1>5, <1>6, <1>7
            DEF Next, ServerStep, ServerFault, ClientStep, HandleEvent, Inner, Finish,
                HangUp, Begin, Talk

\* No step leaves a readable connection without an event.
LEMMA NextNoLostEdge ==
    ASSUME Window = 1, IInv, OneAtATime, NoLostEdge, Next
    PROVE  NoLostEdge'
  <1>. SUFFICES ASSUME NEW c \in Conn, phase'[c] = "open", Readable(c)', peer'[c] # "finw",
                       ~Scheduled(c)'
                PROVE  FALSE
    BY DEF NoLostEdge
  <1>. USE ListenerAssumption
  <1>1. ~Has(ready', c)
    BY DEF Scheduled, Has
  <1>2. phase[c] = "open" /\ Readable(c) /\ peer[c] # "finw"
    BY <1>1, EdgeArrives
  <1>3. Scheduled(c) /\ c \in Item /\ c # Listener
    BY <1>2 DEF NoLostEdge, Item
  <1>4. ASSUME Busy, hand.conn = c  PROVE  rcv[c] = <<>> /\ peer[c] # "rst"
    <2>1. /\ got[c] + Len(snd[c]) + Len(rcv[c]) + AtWork(c) <= asked[c]
          /\ asked[c] <= got[c] + 1 /\ AtWork(c) = 1
      BY <1>4 DEF OneAtATime, IInv, Accounted, AtWork
    <2>2. /\ Len(snd[c]) \in Nat /\ Len(rcv[c]) \in Nat
          /\ got[c] \in Nat /\ asked[c] \in Nat
      BY AtWorkFacts
    <2>3. Len(rcv[c]) = 0
      BY <2>1, <2>2
    <2>. QED  BY <2>1, <2>2, <2>3, AtWorkFacts DEF OneAtATime
  <1>5. CASE EpollWait /\ ~Pollable(c)
    BY <1>2, <1>3, <1>5 DEF Pollable
  <1>6. CASE c = hand.conn /\ (Write \/ WriteFails)
    <2>1. Busy
      BY <1>6 DEF Write, WriteFails, Busy
    <2>2. UNCHANGED <<rcv, peer>> /\ peer[c] \in {"up", "rst"}
      BY <1>6 DEF Write, WriteFails, net
    <2>. QED  BY <1>4, <1>6, <2>1, <2>2 DEF Readable
  <1>7. CASE c = hand.conn /\ WriteToClosed
    BY <1>7 DEF WriteToClosed, IInv, TypeOK
  <1>. QED  BY <1>3, <1>5, <1>6, <1>7, ScheduleStep

\* One request at a time, and no arrival at an open connection is lost: the
\* single read per event is enough, for every number of clients, and so is
\* the registration of a connection that was readable before.
THEOREM NoEdgeLost ==
    ASSUME Window = 1
    PROVE  Spec => []NoLostEdge
  <1>1. Init => OneAtATime /\ NoLostEdge
    BY EmptySeq DEF Init, OneAtATime, AtWork, Busy, NoLostEdge
  <1>2. IInv /\ OneAtATime /\ NoLostEdge /\ [Next]_vars => OneAtATime' /\ NoLostEdge'
    <2>1. CASE UNCHANGED vars
      BY <2>1 DEF vars, net, OneAtATime, AtWork, Busy, NoLostEdge, Readable, Scheduled
    <2>. QED  BY <2>1, NextOneAtATime, NextNoLostEdge
  <1>. QED  BY <1>1, <1>2, Invariant, PTL DEF Spec

-----------------------------------------------------------------------------
(* What can kill the server.                                                *)

\* Whoever has been written to after closing asked for more than it took,
\* by the answer that was discarded.
Discarded ==
    \A c \in Conn : peer[c] \in {"finw", "finrst"} =>
        got[c] + Len(rcv[c]) + AtWork(c) + 1 <= asked[c]

\* The arithmetic of Discarded: what is left to do for a client does not grow.
LEMMA StillDiscarded ==
    ASSUME NEW g \in Nat, NEW r \in Nat, NEW w \in Nat, NEW a \in Nat,
           NEW r1 \in Nat, NEW w1 \in Nat,
           g + r + w + 1 <= a, r1 + w1 <= r + w
    PROVE  g + r1 + w1 + 1 <= a
  OBVIOUS

\* What a step must leave alone to keep Discarded.
LEMMA KeepsDiscarded ==
    ASSUME IInv, IInv', Discarded, UNCHANGED <<asked, got>>,
           \A c \in Conn : peer'[c] \in {"finw", "finrst"} =>
               /\ peer[c] \in {"finw", "finrst"}
               /\ Len(rcv[c])' + AtWork(c)' <= Len(rcv[c]) + AtWork(c)
    PROVE  Discarded'
  <1>. SUFFICES ASSUME NEW c \in Conn, peer'[c] \in {"finw", "finrst"}
                PROVE  got[c] + Len(rcv[c])' + AtWork(c)' + 1 <= asked[c]
    BY DEF Discarded
  <1>1. /\ got[c] \in Nat /\ asked[c] \in Nat /\ Len(rcv[c]) \in Nat /\ AtWork(c) \in Nat
    BY AtWorkFacts
  <1>2. Len(rcv[c])' \in Nat /\ AtWork(c)' \in Nat
    <2>1. rcv'[c] \in Seq(Request)
      BY DEF IInv, TypeOK
    <2>. QED  BY <2>1, LenProperties DEF AtWork
  <1>3. got[c] + Len(rcv[c]) + AtWork(c) + 1 <= asked[c]
    BY DEF Discarded
  <1>. QED  BY <1>1, <1>2, <1>3, StillDiscarded

\* Only the write to a client that has closed discards an answer.
LEMMA NextDiscarded ==
    ASSUME IInv, IInv', Discarded, Next
    PROVE  Discarded'
  <1>. USE ListenerAssumption
  <1>1. CASE Inner \/ EpollWait \/ AcceptOne \/ AcceptNoMore \/ AcceptFails \/ WriteFails \/ Write
    <2>1. UNCHANGED <<asked, got, rcv, peer>>
      BY <1>1 DEF Inner, EpollInterrupted, LoopEnd, HandleListener, ReadAdc, ReadAdcFails,
         WriteKills, AcceptNoMore, AcceptFails, WriteFails, Write, EpollWait, AcceptOne, net
    <2>2. \A c \in Conn : AtWork(c)' = 0 \/ AtWork(c)' = AtWork(c)
      <3>1. ~Busy' \/ (Busy' = Busy /\ hand'.conn = hand.conn)
        BY <1>1 DEF Inner, EpollInterrupted, LoopEnd, HandleListener, ReadAdc, ReadAdcFails,
           WriteKills, AcceptNoMore, AcceptFails, WriteFails, Write,
           EpollWait, AcceptOne, net, IInv, TypeOK, Done, Busy
      <3>. QED  BY <3>1 DEF AtWork
    <2>3. \A c \in Conn : Len(rcv[c])' + AtWork(c)' <= Len(rcv[c]) + AtWork(c)
      BY <2>1, <2>2, AtWorkFacts
    <2>. QED  BY <2>1, <2>3, KeepsDiscarded
  <1>2. CASE WriteToClosed
    <2>1. /\ UNCHANGED <<asked, got, rcv>> /\ ~Busy' /\ pc = "write"
          /\ peer[hand.conn] \in {"fin", "finw"}
          /\ peer' = [peer EXCEPT ![hand.conn] = "finw"]
      BY <1>2 DEF WriteToClosed, Done, Busy
    <2>2. SUFFICES ASSUME NEW c \in Conn, peer'[c] \in {"finw", "finrst"}
                   PROVE  got[c] + Len(rcv[c]) + 0 + 1 <= asked[c]
      BY <2>1 DEF Discarded, AtWork
    <2>3. CASE c = hand.conn
      <3>1. AtWork(c) = 1
        BY <2>1, <2>3 DEF AtWork, Busy
      <3>2. got[c] + Len(snd[c]) + Len(rcv[c]) + AtWork(c) <= asked[c]
        BY DEF IInv, Accounted
      <3>. QED  BY <3>1, <3>2, AtWorkFacts
    <2>4. CASE c # hand.conn
      <3>1. peer[c] \in {"finw", "finrst"}
        BY <2>1, <2>2, <2>4 DEF IInv, TypeOK
      <3>. QED  BY <3>1, AtWorkFacts DEF Discarded
    <2>. QED  BY <2>3, <2>4
  <1>3. ASSUME NEW b \in Conn, HangUp(b) \/ (RegisterFails /\ b = Head(backlog))
        PROVE  Discarded'
    <2>1. /\ UNCHANGED <<asked, got, peer>> /\ ~Busy' /\ rcv' = [rcv EXCEPT ![b] = <<>>]
      BY <1>3 DEF HangUp, HandleError, HandleEnd, HandleInvalidChannel, RegisterFails,
                  CloseConn, Done, Busy
    <2>2. \A c \in Conn : (Len(rcv[c])' = 0 \/ Len(rcv[c])' = Len(rcv[c])) /\ AtWork(c)' = 0
      BY <2>1 DEF IInv, TypeOK, AtWork
    <2>3. \A c \in Conn : Len(rcv[c])' + AtWork(c)' <= Len(rcv[c]) + AtWork(c)
      BY <2>2, AtWorkFacts
    <2>. QED  BY <2>1, <2>3, KeepsDiscarded
  <1>4. ASSUME NEW b \in Conn, Begin(b)  PROVE  Discarded'
    <2>1. /\ UNCHANGED <<asked, got, peer>> /\ rcv[b] # <<>> /\ hand'.conn = b /\ ~Busy
          /\ rcv' = [rcv EXCEPT ![b] = Tail(@)]
      BY <1>4 DEF Begin, HandleUnknown, HandleGetTime, HandleGetData, TakeRequest,
                  NextEvent, Busy
    <2>2. \A c \in Conn : c # b => rcv'[c] = rcv[c] /\ AtWork(c)' = 0
      BY <2>1 DEF IInv, TypeOK, AtWork
    <2>3. Len(rcv[b])' = Len(rcv[b]) - 1 /\ Len(rcv[b]) \in Nat \ {0} /\ AtWork(b)' <= 1
      <3>1. rcv[b] \in Seq(Request)
        BY DEF IInv, TypeOK
      <3>2. rcv'[b] = Tail(rcv[b])
        BY <2>1 DEF IInv, TypeOK
      <3>3. Len(Tail(rcv[b])) = Len(rcv[b]) - 1
        BY <2>1, <3>1, HeadTailProperties
      <3>4. Len(rcv[b]) \in Nat \ {0}
        BY <2>1, <3>1, LenProperties, EmptySeq
      <3>. QED  BY <3>2, <3>3, <3>4 DEF AtWork
    <2>4. AtWork(b)' \in Nat
      BY DEF AtWork
    <2>5. \A c \in Conn : Len(rcv[c])' + AtWork(c)' <= Len(rcv[c]) + AtWork(c)
      BY <2>2, <2>3, <2>4, AtWorkFacts
    <2>. QED  BY <2>1, <2>5, KeepsDiscarded
  <1>5. ASSUME NEW b \in Conn, Connect(b)  PROVE  Discarded'
    BY <1>5 DEF Connect, Discarded, AtWork, Busy
  <1>6. ASSUME NEW b \in Conn, Talk(b)  PROVE  Discarded'
    <2>1. UNCHANGED <<pc, hand>> /\ \A c \in Conn : AtWork(c)' = AtWork(c)
      BY <1>6 DEF Talk, Send, Receive, ClientClose, ResetArrives, AtWork, Busy
    <2>2. ASSUME NEW r \in Request, Send(b, r)  PROVE  Discarded'
      <3>1. /\ UNCHANGED <<peer, got>> /\ peer[b] = "up"
            /\ \A c \in Conn : c # b => asked'[c] = asked[c] /\ rcv'[c] = rcv[c]
        BY <2>2 DEF Send, IInv, TypeOK
      <3>. QED  BY <2>1, <3>1 DEF Discarded
    <2>3. CASE Receive(b)
      <3>1. /\ UNCHANGED <<peer, asked, rcv>> /\ peer[b] = "up"
            /\ \A c \in Conn : c # b => got'[c] = got[c]
        BY <2>3 DEF Receive, IInv, TypeOK
      <3>. QED  BY <2>1, <3>1 DEF Discarded
    <2>4. CASE ClientClose(b) \/ ResetArrives(b)
      <3>1. /\ UNCHANGED <<asked, got, rcv>>
            /\ \A c \in Conn : peer'[c] \in {"finw", "finrst"} => peer[c] \in {"finw", "finrst"}
        BY <2>4 DEF ClientClose, ResetArrives, IInv, TypeOK
      <3>. QED  BY <2>1, <3>1 DEF Discarded
    <2>. QED  BY <1>6, <2>2, <2>3, <2>4 DEF Talk
  <1>7. CASE RegisterFails
    <2>1. PICK b \in Conn : b = Head(backlog)
      BY <1>7, BacklogFacts DEF RegisterFails
    <2>. QED  BY <1>3, <1>7, <2>1
  <1>. QED  BY <1>1, <1>2, <1>3, <1>4, <1>5, <1>6, <1>7
            DEF Next, ServerStep, ServerFault, ClientStep, HandleEvent, Inner,
                HangUp, Begin, Talk

\* Once the server is dead nothing moves, and it dies writing to a client
\* that has discarded an answer already and had the next one coming.
LEMMA NextOnlyPipelinersKill ==
    ASSUME IInv, Discarded, OnlyPipelinersKill, Next
    PROVE  OnlyPipelinersKill'
  <1>1. CASE WriteKills
    <2>1. PICK c \in Conn : c = hand.conn
      BY <1>1 DEF WriteKills, Busy, IInv, TypeOK
    <2>2. AtWork(c) = 1 /\ peer[c] = "finrst" /\ UNCHANGED <<peer, asked, got>>
      BY <1>1, <2>1 DEF WriteKills, AtWork, Busy, net
    <2>3. got[c] + Len(rcv[c]) + 1 + 1 <= asked[c]
      BY <2>2 DEF Discarded
    <2>4. asked[c] > got[c] + 1
      BY <2>3, AtWorkFacts
    <2>. QED  BY <2>2, <2>4 DEF OnlyPipelinersKill
  <1>2. CASE ~WriteKills
    <2>1. pc' # "dead"
      BY <1>2 DEF Next, ServerStep, ServerFault, ClientStep, HandleEvent, EpollWait,
         EpollInterrupted, LoopEnd, HandleListener, AcceptOne, AcceptNoMore, AcceptFails,
         RegisterFails, HandleError, HandleEnd, HandleInvalidChannel, HandleUnknown,
         HandleGetTime, HandleGetData, ReadAdc, ReadAdcFails, Write, WriteToClosed,
         WriteFails, Done, Connect, Send, Receive, ClientClose, ResetArrives, Running
    <2>. QED  BY <2>1 DEF OnlyPipelinersKill
  <1>. QED  BY <1>1, <1>2

\* SIGPIPE is a pipeliner's doing, for every number of clients and every
\* window: a client that waits for each answer never ends the server, whenever
\* it closes and whenever its reset arrives.
THEOREM OnlyPipelinersEnd == Spec => []OnlyPipelinersKill
  <1>1. Init => Discarded /\ OnlyPipelinersKill
    BY DEF Init, Discarded, OnlyPipelinersKill
  <1>2. IInv /\ IInv' /\ Discarded /\ OnlyPipelinersKill /\ [Next]_vars
            => Discarded' /\ OnlyPipelinersKill'
    <2>1. CASE UNCHANGED vars
      BY <2>1 DEF vars, net, Discarded, AtWork, Busy, OnlyPipelinersKill
    <2>. QED  BY <2>1, NextDiscarded, NextOnlyPipelinersKill
  <1>. QED  BY <1>1, <1>2, Invariant, PTL DEF Spec

-----------------------------------------------------------------------------
(* The server implements SampleService.                                     *)

\* The service's state, as the INSTANCE of AdcServer substitutes it.
Status(p) == CASE p = "off" -> "none" [] p = "backlog" -> "waiting"
               [] p = "open" -> "live" [] p = "closed" -> "over"
Session == [c \in Conn |-> Status(phase[c])]
Left == [c \in Conn |-> peer[c] # "up"]
Pending == [c \in Conn |-> InHand(c) \o rcv[c]]

\* How the service's state follows the phases, the clients and the requests.
LEMMA SessionFacts ==
    ASSUME TypeOK
    PROVE  /\ UNCHANGED phase => Session' = Session
           /\ \A c \in Conn :
                 /\ phase[c] = "off" => Session[c] = "none"
                 /\ phase[c] = "backlog" => Session[c] = "waiting"
                 /\ phase[c] = "open" => Session[c] = "live"
                 /\ phase' = [phase EXCEPT ![c] = "backlog"]
                       => Session' = [Session EXCEPT ![c] = "waiting"]
                 /\ phase' = [phase EXCEPT ![c] = "open"]
                       => Session' = [Session EXCEPT ![c] = "live"]
                 /\ phase' = [phase EXCEPT ![c] = "closed"]
                       => Session' = [Session EXCEPT ![c] = "over"]
  <1>1. /\ Status("off") = "none" /\ Status("backlog") = "waiting"
        /\ Status("open") = "live" /\ Status("closed") = "over"
    BY DEF Status
  <1>2. ASSUME NEW c \in Conn, NEW p, phase' = [phase EXCEPT ![c] = p]
        PROVE  Session' = [Session EXCEPT ![c] = Status(p)]
    <2>1. \A d \in Conn : phase'[d] = IF d = c THEN p ELSE phase[d]
      BY <1>2 DEF TypeOK
    <2>. QED  BY <2>1 DEF Session
  <1>. QED  BY <1>1, <1>2 DEF Session

\* How the pending requests follow the buffers while no request is at work.
LEMMA PendingFacts ==
    ASSUME IInv
    PROVE  /\ UNCHANGED <<Busy, hand, rcv>> => Pending' = Pending
           /\ ~Busy /\ ~Busy' /\ UNCHANGED rcv => Pending' = Pending
           /\ ~Busy /\ ~Busy' => \A c \in Conn :
                 rcv' = [rcv EXCEPT ![c] = <<>>] => Pending' = [Pending EXCEPT ![c] = <<>>]
           /\ ~Busy => \A c \in Conn : Pending[c] = rcv[c]
  <1>1. \A c \in Conn : rcv[c] \in Seq(Request) /\ <<>> \o rcv[c] = rcv[c] /\ <<>> \o <<>> = <<>>
    BY ConcatEmptySeq, EmptySeq DEF IInv, TypeOK
  <1>2. rcv \in [Conn -> Seq(Request)]
    BY DEF IInv, TypeOK
  <1>3. UNCHANGED <<Busy, hand, rcv>> => Pending' = Pending
    BY DEF Pending, InHand
  <1>4. ~Busy => Pending = [c \in Conn |-> rcv[c]]
    BY <1>1 DEF Pending, InHand
  <1>5. ~Busy' /\ UNCHANGED rcv => Pending' = [c \in Conn |-> rcv[c]]
    BY <1>1 DEF Pending, InHand
  <1>6. ASSUME ~Busy, ~Busy', NEW c \in Conn, rcv' = [rcv EXCEPT ![c] = <<>>]
        PROVE  Pending' = [Pending EXCEPT ![c] = <<>>]
    <2>1. Pending' = [d \in Conn |-> <<>> \o rcv'[d]]
      BY <1>6 DEF Pending, InHand
    <2>2. \A d \in Conn : <<>> \o rcv'[d] = IF d = c THEN <<>> ELSE rcv[d]
      BY <1>1, <1>2, <1>6
    <2>. QED  BY <2>1, <2>2, <1>4, <1>6
  <1>. QED  BY <1>3, <1>4, <1>5, <1>6

\* connect makes a session of the service that waits to be admitted.
LEMMA CallStep ==
    ASSUME IInv, NEW c \in Conn, Connect(c)
    PROVE  Service!Call(c)
  <1>1. /\ phase[c] = "off" /\ phase' = [phase EXCEPT ![c] = "backlog"]
        /\ UNCHANGED <<peer, rcv, snd, pc, hand>>
    BY DEF Connect
  <1>2. Session[c] = "none" /\ Session' = [Session EXCEPT ![c] = "waiting"]
    BY <1>1, SessionFacts DEF IInv
  <1>3. Left' = Left /\ Pending' = Pending
    BY <1>1, PendingFacts DEF Left, Busy
  <1>. QED  BY <1>1, <1>2, <1>3 DEF Service!Call, Session, Status, Left, Pending

\* accept admits the session that called first.
LEMMA AdmitStep ==
    ASSUME IInv, AcceptOne
    PROVE  \E c \in Conn : Service!Admit(c)
  <1>0. PICK c \in Conn : c = Head(backlog)
    BY BacklogFacts DEF AcceptOne
  <1>1. /\ c \in Conn /\ phase[c] = "backlog" /\ phase' = [phase EXCEPT ![c] = "open"]
        /\ UNCHANGED <<peer, rcv, snd, pc, hand>>
    BY <1>0, BacklogFacts DEF AcceptOne
  <1>2. Session[c] = "waiting" /\ Session' = [Session EXCEPT ![c] = "live"]
    BY <1>1, SessionFacts DEF IInv
  <1>3. Left' = Left /\ Pending' = Pending
    BY <1>1, PendingFacts DEF Left, Busy
  <1>4. Service!Admit(c)
    BY <1>1, <1>2, <1>3 DEF Service!Admit, Session, Status, Left, Pending
  <1>. QED  BY <1>1, <1>4

\* A request sent is pending behind the ones at work and in the buffer.
LEMMA AskStep ==
    ASSUME IInv, NEW c \in Conn, NEW r \in Request, Send(c, r)
    PROVE  Service!Ask(c, r)
  <1>1. /\ phase[c] \in {"backlog", "open"} /\ peer[c] = "up"
        /\ rcv' = [rcv EXCEPT ![c] = Append(@, r)]
        /\ UNCHANGED <<phase, peer, snd, pc, hand>>
    BY DEF Send
  <1>2. Session[c] \in {"waiting", "live"} /\ Session' = Session
    BY <1>1, SessionFacts DEF IInv
  <1>3. ~Left[c] /\ Left' = Left
    BY <1>1 DEF Left
  <1>4. \A d \in Conn : InHand(d)' = InHand(d) /\ InHand(d) \in Seq(Request) /\ rcv[d] \in Seq(Request)
    BY <1>1, EmptySeq DEF InHand, Busy, IInv, TypeOK
  <1>5. InHand(c) \o Append(rcv[c], r) = Append(InHand(c) \o rcv[c], r)
    BY <1>4, AppendConcat
  <1>6. Pending' = [Pending EXCEPT ![c] = Append(@, r)]
    <2>1. Pending' = [d \in Conn |-> InHand(d) \o rcv'[d]]
      BY <1>4 DEF Pending
    <2>2. \A d \in Conn : rcv'[d] = IF d = c THEN Append(rcv[c], r) ELSE rcv[d]
      BY <1>1 DEF IInv, TypeOK
    <2>. QED  BY <2>1, <2>2, <1>5 DEF Pending
  <1>. QED  BY <1>1, <1>2, <1>3, <1>6 DEF Service!Ask, Session, Status, Left, Pending

\* The client takes the oldest answer.
LEMMA DeliverStep ==
    ASSUME IInv, NEW c \in Conn, Receive(c)
    PROVE  Service!Deliver(c)
  <1>1. /\ snd[c] # <<>> /\ snd' = [snd EXCEPT ![c] = Tail(@)]
        /\ UNCHANGED <<phase, peer, rcv, pc, hand>>
    BY DEF Receive
  <1>2. Session' = Session /\ Left' = Left /\ Pending' = Pending
    BY <1>1, SessionFacts, PendingFacts DEF IInv, Left, Busy
  <1>. QED  BY <1>1, <1>2 DEF Service!Deliver, Session, Status, Left, Pending

\* The client closes: answers not taken are gone.
LEMMA LeaveStep ==
    ASSUME IInv, NEW c \in Conn, ClientClose(c)
    PROVE  Service!Leave(c)
  <1>1. /\ phase[c] \in {"backlog", "open"} /\ peer[c] = "up"
        /\ peer' = [peer EXCEPT ![c] = IF snd[c] # <<>> THEN "rst" ELSE "fin"]
        /\ snd' = [snd EXCEPT ![c] = <<>>]
        /\ UNCHANGED <<phase, rcv, pc, hand>>
    BY DEF ClientClose
  <1>2. Session[c] \in {"waiting", "live"} /\ Session' = Session /\ Pending' = Pending
    BY <1>1, SessionFacts, PendingFacts DEF IInv, Busy
  <1>3. ~Left[c] /\ Left' = [Left EXCEPT ![c] = TRUE]
    BY <1>1 DEF Left, IInv, TypeOK
  <1>. QED  BY <1>1, <1>2, <1>3 DEF Service!Leave, Session, Status, Left, Pending

\* The end of the work on a request takes it off the pending ones.
LEMMA WriteFacts ==
    ASSUME IInv, pc = "write", ~Busy', UNCHANGED <<phase, rcv>>
    PROVE  LET c == hand.conn IN
           /\ c \in Conn /\ Session[c] = "live" /\ Session' = Session
           /\ Pending[c] # <<>> /\ Head(Pending[c]) = hand.req
           /\ Pending' = [Pending EXCEPT ![c] = Tail(@)]
  <1>. DEFINE c == hand.conn
  <1>1. /\ Busy /\ c \in Conn /\ hand.req \in Request
        /\ \A d \in Conn : rcv[d] \in Seq(Request)
    BY DEF Busy, IInv, TypeOK
  <1>2. batch # <<>> /\ Head(batch).item = c
    BY <1>1 DEF IInv, Stage
  <1>3. 1 \in DOMAIN batch /\ batch[1] = Head(batch)
    BY <1>2, EmptySeq, LenProperties DEF IInv, TypeOK
  <1>4. phase[c] = "open"
    BY <1>1, <1>2, <1>3, ListenerAssumption DEF IInv, EventsAreCurrent
  <1>5. Session[c] = "live" /\ Session' = Session
    BY <1>1, <1>4, SessionFacts DEF IInv
  <1>. DEFINE q == <<hand.req>> \o rcv[c]
  <1>6. q # <<>> /\ Head(q) = hand.req /\ Tail(q) = rcv[c]
    <2>. HIDE DEF c
    <2>1. rcv[c] \in Seq(Request) /\ hand.req \in Request
      BY <1>1
    <2>2. /\ <<hand.req>> \o rcv[c] # <<>>
          /\ Head(<<hand.req>> \o rcv[c]) = hand.req
          /\ Tail(<<hand.req>> \o rcv[c]) = rcv[c]
      BY <2>1, ConsFacts
    <2>. QED  BY <2>2
  <1>7. Pending[c] = q
    BY <1>1 DEF Pending, InHand
  <1>. HIDE DEF q
  <1>8. Pending' = [d \in Conn |-> rcv[d]]
    <2>1. Pending' = [d \in Conn |-> <<>> \o rcv[d]]
      BY DEF Pending, InHand
    <2>2. \A d \in Conn : <<>> \o rcv[d] = rcv[d]
      BY <1>1, ConcatEmptySeq
    <2>. QED  BY <2>1, <2>2
  <1>9. \A d \in Conn : d # c => Pending[d] = rcv[d]
    <2>1. \A d \in Conn : <<>> \o rcv[d] = rcv[d]
      BY <1>1, ConcatEmptySeq
    <2>. QED  BY <2>1 DEF Pending, InHand
  <1>10. Pending' = [Pending EXCEPT ![c] = Tail(@)]
    <2>1. Pending = [d \in Conn |-> Pending[d]]
      BY DEF Pending
    <2>. QED  BY <2>1, <1>1, <1>6, <1>7, <1>8, <1>9
  <1>. QED  BY <1>1, <1>5, <1>6, <1>7, <1>10

\* write answers the request that was read, the oldest pending one.
LEMMA AnswerStep ==
    ASSUME IInv, Write
    PROVE  \E c \in Conn : Service!Answer(c)
  <1>0. PICK c \in Conn : c = hand.conn
    BY DEF Write, Busy, IInv, TypeOK
  <1>1. /\ pc = "write" /\ ~Busy' /\ peer[c] = "up" /\ UNCHANGED <<phase, peer, rcv>>
        /\ snd' = [snd EXCEPT ![c] = Append(@, hand.dg)]
    BY <1>0 DEF Write, Done, Busy
  <1>2. /\ c \in Conn /\ Session[c] = "live" /\ Session' = Session
        /\ Pending[c] # <<>> /\ Head(Pending[c]) = hand.req
        /\ Pending' = [Pending EXCEPT ![c] = Tail(@)]
    BY <1>0, <1>1, WriteFacts
  <1>3. hand.dg \in Service!Answers(Head(Pending[c]))
    BY <1>1, <1>2 DEF IInv, HandFits
  <1>4. ~Left[c] /\ Left' = Left
    BY <1>1, <1>2 DEF Left
  <1>5. \E p \in Service!Answers(Head(Pending[c])) : snd' = [snd EXCEPT ![c] = Append(@, p)]
    BY <1>1, <1>3
  <1>6. Service!Answer(c)
    BY <1>2, <1>4, <1>5 DEF Service!Answer, Session, Status, Left, Pending
  <1>. QED  BY <1>6

\* A write to a client that has left answers nobody.
LEMMA DiscardStep ==
    ASSUME IInv, WriteToClosed \/ WriteFails
    PROVE  \E c \in Conn : Service!Discard(c)
  <1>0. PICK c \in Conn : c = hand.conn
    BY DEF WriteToClosed, WriteFails, Busy, IInv, TypeOK
  <1>1. /\ pc = "write" /\ ~Busy' /\ peer[c] # "up" /\ UNCHANGED <<phase, rcv, snd>>
        /\ peer' = peer \/ peer' = [peer EXCEPT ![c] = "finw"]
    BY <1>0 DEF WriteToClosed, WriteFails, Done, Busy, net
  <1>2. /\ c \in Conn /\ Session[c] = "live" /\ Session' = Session
        /\ Pending[c] # <<>> /\ Head(Pending[c]) = hand.req
        /\ Pending' = [Pending EXCEPT ![c] = Tail(@)]
    BY <1>0, <1>1, WriteFacts
  <1>3. Left[c] /\ Left' = Left
    BY <1>1, <1>2 DEF Left, IInv, TypeOK
  <1>4. Service!Discard(c)
    BY <1>1, <1>2, <1>3 DEF Service!Discard, Session, Status, Left, Pending
  <1>. QED  BY <1>4

\* SIGPIPE: the answer to the client that has left goes nowhere either.
LEMMA KillStep ==
    ASSUME IInv, WriteKills
    PROVE  \E c \in Conn : Service!Discard(c)
  <1>0. PICK c \in Conn : c = hand.conn
    BY DEF WriteKills, Busy, IInv, TypeOK
  <1>1. /\ pc = "write" /\ ~Busy' /\ peer[c] # "up" /\ UNCHANGED <<phase, peer, rcv, snd>>
    BY <1>0 DEF WriteKills, Busy, net
  <1>2. /\ c \in Conn /\ Session[c] = "live" /\ Session' = Session
        /\ Pending[c] # <<>>
        /\ Pending' = [Pending EXCEPT ![c] = Tail(@)]
    BY <1>0, <1>1, WriteFacts
  <1>3. Left[c] /\ Left' = Left
    BY <1>1, <1>2 DEF Left
  <1>4. Service!Discard(c)
    BY <1>1, <1>2, <1>3 DEF Service!Discard, Session, Status, Left, Pending
  <1>. QED  BY <1>4

\* The server hangs up on a client that has left or asks for a channel that
\* is not sampled, and on a connection it could not register.
LEMMA EndStep ==
    ASSUME IInv, NEW c \in Conn, HangUp(c) \/ (RegisterFails /\ c = Head(backlog))
    PROVE  Service!End(c)
  <1>1. /\ CloseConn(c) /\ ~Busy /\ ~Busy' /\ UNCHANGED peer
    BY DEF HangUp, HandleError, HandleEnd, HandleInvalidChannel, RegisterFails, NextEvent,
           Done, Busy
  <1>2. Session' = [Session EXCEPT ![c] = "over"] /\ Left' = Left
    BY <1>1, SessionFacts DEF CloseConn, Left, IInv
  <1>3. Pending[c] = rcv[c] /\ Pending' = [Pending EXCEPT ![c] = <<>>]
    BY <1>1, PendingFacts DEF CloseConn
  <1>4. CASE RegisterFails /\ c = Head(backlog)
    <2>1. Session[c] = "waiting"
      BY <1>4, BacklogFacts, SessionFacts DEF RegisterFails, IInv
    <2>. QED  BY <1>1, <1>2, <1>3, <2>1 DEF Service!End, CloseConn, Session, Status, Left, Pending
  <1>5. CASE HangUp(c)
    <2>1. batch # <<>> /\ Head(batch).item = c /\ Head(batch).ev \in {"in", "err"}
      BY <1>5 DEF HangUp, HandleError, HandleEnd, HandleInvalidChannel, NextEvent
    <2>2. 1 \in DOMAIN batch /\ batch[1] = Head(batch)
      BY <2>1, EmptySeq, LenProperties DEF IInv, TypeOK
    <2>3. Session[c] = "live"
      <3>1. phase[c] = "open"
        BY <2>1, <2>2, ListenerAssumption DEF IInv, EventsAreCurrent
      <3>. QED  BY <3>1, SessionFacts DEF IInv
    <2>4. Left[c] \/ (Pending[c] # <<>> /\ Service!Refused(Head(Pending[c])))
      <3>1. CASE HandleError(c)
        <4>1. Head(batch).ev = "err"
          BY <3>1 DEF HandleError, NextEvent
        <4>. QED  BY <4>1, <2>1, <2>2, ListenerAssumption DEF IInv, CauseLasts, Left
      <3>2. CASE HandleEnd(c)
        <4>1. Head(batch).ev = "in" /\ rcv[c] = <<>>
          BY <3>2 DEF HandleEnd, NextEvent
        <4>2. Readable(c)
          BY <4>1, <1>1, <2>1, <2>2, ListenerAssumption DEF IInv, CauseLasts
        <4>. QED  BY <4>1, <4>2 DEF Readable, Left
      <3>3. CASE HandleInvalidChannel(c)
        BY <3>3, <1>3 DEF HandleInvalidChannel, NoChannel, Service!Refused
      <3>. QED  BY <1>5, <3>1, <3>2, <3>3 DEF HangUp
    <2>. QED  BY <1>1, <1>2, <1>3, <2>3, <2>4
              DEF Service!End, CloseConn, Session, Status, Left, Pending
  <1>. QED  BY <1>4, <1>5

\* Reading a request and all that happens inside the server leave the
\* service's state alone.
LEMMA HiddenStep ==
    ASSUME IInv,
           \/ EpollWait \/ EpollInterrupted \/ LoopEnd \/ HandleListener
           \/ AcceptNoMore \/ AcceptFails \/ ReadAdc \/ ReadAdcFails
           \/ \E c \in Conn : Begin(c)
           \/ \E c \in Conn : ResetArrives(c)
    PROVE  UNCHANGED Service!svars
  <1>. SUFFICES Session' = Session /\ Left' = Left /\ Pending' = Pending /\ snd' = snd
    BY DEF Service!svars, Session, Status, Left, Pending
  <1>1. CASE EpollWait \/ EpollInterrupted \/ LoopEnd \/ HandleListener
             \/ AcceptNoMore \/ AcceptFails
    <2>1. UNCHANGED <<phase, peer, rcv, snd>> /\ ~Busy /\ ~Busy'
      BY <1>1 DEF EpollWait, EpollInterrupted, LoopEnd, HandleListener, AcceptNoMore,
                  AcceptFails, NextEvent, Done, Busy, net
    <2>. QED  BY <2>1, SessionFacts, PendingFacts DEF IInv, Left
  <1>2. CASE ReadAdc \/ ReadAdcFails
    <2>1. UNCHANGED <<phase, peer, rcv, snd>> /\ pc = "adc" /\ pc' = "write"
      BY <1>2 DEF ReadAdc, ReadAdcFails, net
    <2>2. hand'.conn = hand.conn /\ hand'.req = hand.req
      <3>1. hand \in [conn : Conn, req : Request, dg : Reply]
        BY <2>1 DEF IInv, TypeOK, Busy
      <3>2. CASE ReadAdc
        BY <3>1, <3>2 DEF ReadAdc
      <3>3. CASE ReadAdcFails
        <4>1. PICK b \in BOOLEAN : hand' = [hand EXCEPT !.dg.valid = b]
          BY <3>3 DEF ReadAdcFails
        <4>. QED  BY <3>1, <4>1, SetInvalid
      <3>. QED  BY <1>2, <3>2, <3>3
    <2>3. Pending' = Pending
      BY <2>1, <2>2 DEF Pending, InHand, Busy
    <2>. QED  BY <2>1, <2>3, SessionFacts DEF IInv, Left
  <1>3. ASSUME NEW c \in Conn, Begin(c)
        PROVE  Session' = Session /\ Left' = Left /\ Pending' = Pending /\ snd' = snd
    <2>1. /\ rcv[c] # <<>> /\ ~Busy /\ Busy'
          /\ hand'.conn = c /\ hand'.req = Head(rcv[c])
          /\ rcv' = [rcv EXCEPT ![c] = Tail(@)]
          /\ UNCHANGED <<phase, peer, snd>>
      BY <1>3 DEF Begin, HandleUnknown, HandleGetTime, HandleGetData, NextEvent, TakeRequest, Busy
    <2>2. \A d \in Conn : rcv[d] \in Seq(Request)
      BY DEF IInv, TypeOK
    <2>3. <<Head(rcv[c])>> \o Tail(rcv[c]) = rcv[c]
      <3>1. rcv[c] \in Seq(Request) /\ Head(rcv[c]) \in Request
        BY <2>1, <2>2, HeadTailProperties
      <3>. QED  BY <2>1, <3>1, ConsFacts
    <2>4. \A d \in Conn : <<>> \o rcv[d] = rcv[d]
      BY <2>2, ConcatEmptySeq
    <2>5. \A d \in Conn : InHand(d) \o rcv[d] = rcv[d]
      BY <2>1, <2>4 DEF InHand
    <2>6. \A d \in Conn : InHand(d)' \o rcv'[d] = rcv[d]
      BY <2>1, <2>3, <2>4 DEF InHand, IInv, TypeOK
    <2>7. Pending' = Pending
      BY <2>5, <2>6 DEF Pending
    <2>. QED  BY <2>1, <2>7, SessionFacts DEF IInv, Left
  <1>4. ASSUME NEW c \in Conn, ResetArrives(c)
        PROVE  Session' = Session /\ Left' = Left /\ Pending' = Pending /\ snd' = snd
    <2>1. /\ UNCHANGED <<phase, rcv, snd, pc, hand>>
          /\ peer[c] = "finw" /\ peer' = [peer EXCEPT ![c] = "finrst"]
      BY <1>4 DEF ResetArrives
    <2>2. Left' = Left
      BY <2>1 DEF Left, IInv, TypeOK
    <2>. QED  BY <2>1, <2>2, SessionFacts, PendingFacts DEF IInv, Busy
  <1>. QED  BY <1>1, <1>2, <1>3, <1>4

\* Every step of the server, the network and the clients is a step of the
\* service or hidden from it.
LEMMA StepRefines ==
    IInv /\ [Next]_vars => [Service!ServiceNext]_Service!svars
  <1>. SUFFICES ASSUME IInv, [Next]_vars
                PROVE  Service!ServiceNext \/ UNCHANGED Service!svars
    OBVIOUS
  <1>1. CASE UNCHANGED vars
    BY <1>1 DEF vars, net, Service!svars, InHand, Busy
  <1>2. \A c \in Conn :
            Service!Call(c) \/ Service!Deliver(c) \/ Service!Leave(c)
            \/ Service!Admit(c) \/ Service!Answer(c) \/ Service!Discard(c) \/ Service!End(c)
            \/ (\E r \in Request : Service!Ask(c, r))
               => Service!ServiceNext
    BY DEF Service!ServiceNext, Service!Serve
  <1>3. CASE AcceptOne
    <2>1. PICK c \in Conn : Service!Admit(c)
      BY <1>3, AdmitStep
    <2>. QED  BY <1>2, <2>1
  <1>4. CASE RegisterFails
    <2>1. PICK c \in Conn : c = Head(backlog)
      BY <1>4, BacklogFacts DEF RegisterFails
    <2>. QED  BY <1>2, <1>4, <2>1, EndStep
  <1>5. CASE Write
    <2>1. PICK c \in Conn : Service!Answer(c)
      BY <1>5, AnswerStep
    <2>. QED  BY <1>2, <2>1
  <1>6. CASE WriteToClosed \/ WriteFails
    <2>1. PICK c \in Conn : Service!Discard(c)
      BY <1>6, DiscardStep
    <2>. QED  BY <1>2, <2>1
  <1>7. CASE WriteKills
    <2>1. PICK c \in Conn : Service!Discard(c)
      BY <1>7, KillStep
    <2>. QED  BY <1>2, <2>1
  <1>8. CASE EpollWait \/ EpollInterrupted \/ LoopEnd \/ HandleListener
             \/ AcceptNoMore \/ AcceptFails \/ ReadAdc \/ ReadAdcFails
    BY <1>8, HiddenStep
  <1>9. ASSUME NEW c \in Conn, HandleEvent(c)
        PROVE  Service!ServiceNext \/ UNCHANGED Service!svars
    <2>1. CASE HangUp(c)
      BY <1>2, <2>1, EndStep
    <2>2. CASE Begin(c)
      BY <2>2, HiddenStep
    <2>. QED  BY <1>9, <2>1, <2>2 DEF HandleEvent, HangUp, Begin
  <1>10. ASSUME NEW c \in Conn, ClientStep(c)
         PROVE  Service!ServiceNext \/ UNCHANGED Service!svars
    <2>1. CASE Connect(c)
      BY <1>2, <2>1, CallStep
    <2>2. ASSUME NEW r \in Request, Send(c, r)  PROVE Service!ServiceNext
      BY <1>2, <2>2, AskStep
    <2>3. CASE Receive(c)
      BY <1>2, <2>3, DeliverStep
    <2>4. CASE ClientClose(c)
      BY <1>2, <2>4, LeaveStep
    <2>5. CASE ResetArrives(c)
      BY <2>5, HiddenStep
    <2>. QED  BY <1>10, <2>1, <2>2, <2>3, <2>4, <2>5 DEF ClientStep
  <1>. QED  BY <1>1, <1>3, <1>4, <1>5, <1>6, <1>7, <1>8, <1>9, <1>10
            DEF Next, ServerStep, ServerFault

\* At the start no session of the service exists.
LEMMA InitRefines == Init => Service!ServiceInit
  <1>. SUFFICES ASSUME Init  PROVE  Service!ServiceInit
    OBVIOUS
  <1>1. \A c \in Conn : phase[c] = "off" /\ peer[c] = "up" /\ rcv[c] = <<>> /\ InHand(c) = <<>>
    BY DEF Init, InHand, Busy
  <1>2. <<>> \o <<>> = <<>>
    BY EmptySeq, ConcatEmptySeq
  <1>3. Session = [c \in Conn |-> "none"] /\ Left = [c \in Conn |-> FALSE]
    BY <1>1 DEF Session, Status, Left
  <1>4. Pending = [c \in Conn |-> <<>>]
    BY <1>1, <1>2 DEF Pending
  <1>. QED  BY <1>3, <1>4 DEF Init, Service!ServiceInit, Session, Status, Left, Pending

\* Whatever the clients send and however they leave, however epoll_wait
\* batches the events and whatever fails: the requests of a connection are
\* answered one for one and in order, with an answer they allow, and the
\* server hangs up only on clients that left or ask for a channel it does
\* not sample.
THEOREM Implements == Spec => ServesInOrder
  <1>1. Init => Service!ServiceInit
    BY InitRefines
  <1>2. IInv /\ [Next]_vars => [Service!ServiceNext]_Service!svars
    BY StepRefines
  <1>. QED  BY <1>1, <1>2, Invariant, PTL DEF Spec, ServesInOrder, Service!ServiceSafe
=============================================================================
