--------------------------- MODULE EventBusProofs ---------------------------
(***************************************************************************)
(* The event bus for any number of streams and publishers and any channel  *)
(* capacity: each operation keeps BusInv, and with it NoSendOnClosed and   *)
(* OfferedOnce.  The theorems about the server that uses the bus are in    *)
(* RequestsProofs.                                                         *)
(***************************************************************************)
EXTENDS EventBus, TLAPS

-----------------------------------------------------------------------------
(* Sequences without repetition, as the sets of their elements.            *)

\* The elements of a sequence are the values at its positions.
LEMMA RangeDef ==
    ASSUME NEW S, NEW seq \in Seq(S), NEW x
    PROVE  x \in Range(seq) <=> \E i \in 1 .. Len(seq) : seq[i] = x
  BY DEF Range

\* Taking the first element off removes it from the elements.
LEMMA TailElements ==
    ASSUME NEW S, NEW seq \in Seq(S), seq # <<>>, IsInjective(seq)
    PROVE  /\ Tail(seq) \in Seq(S) /\ Head(seq) \in S
           /\ IsInjective(Tail(seq))
           /\ Head(seq) \in Range(seq)
           /\ Range(Tail(seq)) = Range(seq) \ {Head(seq)}
  <1>1. Tail(seq) \in Seq(S) /\ Head(seq) \in S /\ Len(seq) \in Nat \ {0}
        /\ Len(Tail(seq)) = Len(seq) - 1 /\ Head(seq) = seq[1]
        /\ \A i \in 1 .. Len(Tail(seq)) : Tail(seq)[i] = seq[i + 1]
    OBVIOUS
  <1>2. \A i, k \in 1 .. Len(seq) : seq[i] = seq[k] => i = k
    BY DEF IsInjective
  <1>3. IsInjective(Tail(seq))
    BY <1>1, <1>2 DEF IsInjective
  <1>4. ASSUME NEW x PROVE x \in Range(Tail(seq)) <=> x \in Range(seq) \ {Head(seq)}
    <2>1. ASSUME NEW i \in 1 .. Len(Tail(seq)), x = Tail(seq)[i]
          PROVE  x \in Range(seq) /\ x # Head(seq)
      <3>1. i + 1 \in 1 .. Len(seq) /\ i + 1 # 1 /\ 1 \in 1 .. Len(seq) /\ x = seq[i + 1]
        BY <1>1, <2>1
      <3> QED
        BY <1>1, <1>2, <3>1, RangeDef
    <2>2. ASSUME NEW i \in 1 .. Len(seq), x = seq[i], x # Head(seq)
          PROVE  x \in Range(Tail(seq))
      <3>1. i - 1 \in 1 .. Len(Tail(seq)) /\ Tail(seq)[i - 1] = x
        BY <1>1, <2>2
      <3> QED
        BY <1>1, <3>1, RangeDef
    <2>3. x \in Range(Tail(seq)) <=> \E i \in 1 .. Len(Tail(seq)) : Tail(seq)[i] = x
      BY <1>1, RangeDef
    <2>4. x \in Range(seq) <=> \E i \in 1 .. Len(seq) : seq[i] = x
      BY RangeDef
    <2> QED
      BY <2>1, <2>2, <2>3, <2>4
  <1>5. Head(seq) \in Range(seq)
    BY <1>1, RangeDef
  <1> QED
    BY <1>1, <1>3, <1>4, <1>5

\* A new last element joins the elements.
LEMMA AppendElements ==
    ASSUME NEW S, NEW seq \in Seq(S), NEW e \in S, e \notin Range(seq), IsInjective(seq)
    PROVE  /\ Append(seq, e) \in Seq(S)
           /\ IsInjective(Append(seq, e))
           /\ Range(Append(seq, e)) = Range(seq) \cup {e}
  <1>1. /\ Append(seq, e) \in Seq(S) /\ Len(seq) \in Nat
        /\ Len(Append(seq, e)) = Len(seq) + 1
        /\ \A i \in 1 .. Len(seq) : Append(seq, e)[i] = seq[i]
        /\ Append(seq, e)[Len(seq) + 1] = e
    OBVIOUS
  <1>2. \A i \in 1 .. Len(seq) : seq[i] # e
    BY RangeDef
  <1>3. \A i, k \in 1 .. Len(seq) : seq[i] = seq[k] => i = k
    BY DEF IsInjective
  <1>4. ASSUME NEW i \in 1 .. Len(Append(seq, e)), NEW k \in 1 .. Len(Append(seq, e)),
               Append(seq, e)[i] = Append(seq, e)[k]
        PROVE  i = k
    BY <1>1, <1>2, <1>3, <1>4
  <1>5. DOMAIN Append(seq, e) = 1 .. Len(Append(seq, e))
    BY <1>1
  <1>6. IsInjective(Append(seq, e))
    BY <1>4, <1>5 DEF IsInjective
  <1>7. ASSUME NEW x PROVE x \in Range(Append(seq, e)) <=> x \in Range(seq) \cup {e}
    <2>1. x \in Range(Append(seq, e)) <=>
             \E i \in 1 .. Len(Append(seq, e)) : Append(seq, e)[i] = x
      BY <1>1, RangeDef
    <2>2. x \in Range(seq) <=> \E i \in 1 .. Len(seq) : seq[i] = x
      BY RangeDef
    <2> QED
      BY <1>1, <2>1, <2>2
  <1> QED
    BY <1>1, <1>6, <1>7

\* Two sequences without a common element, one after the other.
LEMMA ConcatElements ==
    ASSUME NEW S, NEW s \in Seq(S), NEW t \in Seq(S), IsInjective(s), IsInjective(t),
           Range(s) \cap Range(t) = {}
    PROVE  /\ s \o t \in Seq(S)
           /\ IsInjective(s \o t)
           /\ Range(s \o t) = Range(s) \cup Range(t)
  <1>1. /\ s \o t \in Seq(S) /\ Len(s) \in Nat /\ Len(t) \in Nat
        /\ Len(s \o t) = Len(s) + Len(t)
        /\ \A i \in 1 .. Len(s) + Len(t) :
              (s \o t)[i] = IF i <= Len(s) THEN s[i] ELSE t[i - Len(s)]
    OBVIOUS
  <1>2. /\ \A i, k \in 1 .. Len(s) : s[i] = s[k] => i = k
        /\ \A i, k \in 1 .. Len(t) : t[i] = t[k] => i = k
    BY DEF IsInjective
  <1>3. \A i \in 1 .. Len(s), k \in 1 .. Len(t) : s[i] # t[k]
    BY RangeDef
  <1>4. ASSUME NEW i \in 1 .. Len(s) + Len(t), NEW k \in 1 .. Len(s) + Len(t),
               (s \o t)[i] = (s \o t)[k]
        PROVE  i = k
    <2>1. CASE i <= Len(s) /\ k <= Len(s)
      BY <1>1, <1>2, <1>4, <2>1
    <2>2. CASE i > Len(s) /\ k > Len(s)
      <3>1. i - Len(s) \in 1 .. Len(t) /\ k - Len(s) \in 1 .. Len(t)
        BY <1>1, <2>2
      <3>2. t[i - Len(s)] = t[k - Len(s)]
        BY <1>1, <1>4, <2>2
      <3>3. i - Len(s) = k - Len(s)
        BY <1>2, <3>1, <3>2
      <3> QED
        BY <1>1, <3>3
    <2>3. CASE i <= Len(s) /\ k > Len(s)
      BY <1>1, <1>3, <1>4, <2>3
    <2>4. CASE i > Len(s) /\ k <= Len(s)
      BY <1>1, <1>3, <1>4, <2>4
    <2> QED
      BY <1>1, <2>1, <2>2, <2>3, <2>4
  <1>5. IsInjective(s \o t)
    BY <1>1, <1>4 DEF IsInjective
  <1>6. ASSUME NEW x PROVE x \in Range(s \o t) <=> x \in Range(s) \cup Range(t)
    <2>1. ASSUME NEW i \in 1 .. Len(s \o t), (s \o t)[i] = x
          PROVE  x \in Range(s) \cup Range(t)
      BY <1>1, <2>1, RangeDef
    <2>2. ASSUME NEW i \in 1 .. Len(s), s[i] = x PROVE x \in Range(s \o t)
      <3>1. i \in 1 .. Len(s \o t) /\ (s \o t)[i] = x
        BY <1>1, <2>2
      <3> QED
        BY <1>1, <3>1, RangeDef
    <2>3. ASSUME NEW i \in 1 .. Len(t), t[i] = x PROVE x \in Range(s \o t)
      <3>1. Len(s) + i \in 1 .. Len(s \o t) /\ (s \o t)[Len(s) + i] = x
        BY <1>1, <2>3
      <3> QED
        BY <1>1, <3>1, RangeDef
    <2>4. x \in Range(s \o t) <=> \E i \in 1 .. Len(s \o t) : (s \o t)[i] = x
      <3> DEFINE u == s \o t
      <3>1. u \in Seq(S)
        BY <1>1
      <3> HIDE DEF u
      <3>2. x \in Range(u) <=> \E i \in 1 .. Len(u) : u[i] = x
        BY <3>1, RangeDef
      <3> QED
        BY <3>2 DEF u
    <2>5. /\ x \in Range(s) <=> \E i \in 1 .. Len(s) : s[i] = x
          /\ x \in Range(t) <=> \E i \in 1 .. Len(t) : t[i] = x
      BY RangeDef
    <2> QED
      BY <2>1, <2>2, <2>3, <2>4, <2>5
  <1> QED
    BY <1>1, <1>5, <1>6

\* Unsubscribe's shift: the element at position i goes, the others stay.
LEMMA WithoutElements ==
    ASSUME NEW S, NEW seq \in Seq(S), IsInjective(seq), NEW i \in 1 .. Len(seq)
    PROVE  /\ Without(seq, i) \in Seq(S)
           /\ IsInjective(Without(seq, i))
           /\ Range(Without(seq, i)) = Range(seq) \ {seq[i]}
  <1> DEFINE s == SubSeq(seq, 1, i - 1)
             t == SubSeq(seq, i + 1, Len(seq))
  <1>1. Len(seq) \in Nat /\ i \in Nat /\ \A k \in 1 .. Len(seq) : seq[k] \in S
    OBVIOUS
  <1>2. /\ s \in Seq(S) /\ Len(s) = i - 1
        /\ \A k \in 1 .. i - 1 : s[k] = seq[k]
    BY <1>1
  <1>3. /\ t \in Seq(S) /\ Len(t) = Len(seq) - i
        /\ \A k \in 1 .. Len(seq) - i : t[k] = seq[i + k]
    BY <1>1
  <1>4. \A k, l \in 1 .. Len(seq) : seq[k] = seq[l] => k = l
    BY DEF IsInjective
  <1> HIDE DEF s, t
  <1>5. IsInjective(s)
    BY <1>1, <1>2, <1>4 DEF IsInjective
  <1>6. IsInjective(t)
    <2>1. ASSUME NEW k \in 1 .. Len(t), NEW l \in 1 .. Len(t), t[k] = t[l] PROVE k = l
      <3>1. i + k \in 1 .. Len(seq) /\ i + l \in 1 .. Len(seq) /\ seq[i + k] = seq[i + l]
        BY <1>1, <1>3, <2>1
      <3>2. i + k = i + l
        BY <1>4, <3>1
      <3> QED
        BY <1>1, <3>2
    <2> QED
      BY <1>3, <2>1 DEF IsInjective
  <1>7. ASSUME NEW x
        PROVE  /\ x \in Range(s) <=> \E k \in 1 .. Len(seq) : k < i /\ seq[k] = x
               /\ x \in Range(t) <=> \E k \in 1 .. Len(seq) : k > i /\ seq[k] = x
    <2>1. x \in Range(s) <=> \E k \in 1 .. i - 1 : s[k] = x
      BY <1>2, RangeDef
    <2>2. x \in Range(s) <=> \E k \in 1 .. Len(seq) : k < i /\ seq[k] = x
      BY <1>1, <1>2, <2>1
    <2>3. x \in Range(t) <=> \E k \in 1 .. Len(seq) - i : t[k] = x
      BY <1>3, RangeDef
    <2>4. ASSUME NEW k \in 1 .. Len(seq), k > i, seq[k] = x PROVE x \in Range(t)
      <3>1. k - i \in 1 .. Len(seq) - i /\ t[k - i] = x
        BY <1>1, <1>3, <2>4
      <3> QED
        BY <2>3, <3>1
    <2>5. ASSUME NEW k \in 1 .. Len(seq) - i, t[k] = x
          PROVE  \E l \in 1 .. Len(seq) : l > i /\ seq[l] = x
      <3>1. i + k \in 1 .. Len(seq) /\ i + k > i /\ seq[i + k] = x
        BY <1>1, <1>3, <2>5
      <3> QED
        BY <3>1
    <2> QED
      BY <2>2, <2>3, <2>4, <2>5
  <1>8. Range(s) \cap Range(t) = {}
    BY <1>1, <1>4, <1>7
  <1>9. Without(seq, i) = s \o t
    BY DEF Without, s, t
  <1>10. Range(s) \cup Range(t) = Range(seq) \ {seq[i]}
    BY <1>1, <1>4, <1>7, RangeDef
  <1> QED
    BY <1>2, <1>3, <1>5, <1>6, <1>8, <1>9, <1>10, ConcatElements

\* The empty sequence.
LEMMA EmptyElements == Range(<<>>) = {} /\ IsInjective(<<>>)
  BY DEF Range, IsInjective

-----------------------------------------------------------------------------
(* One lemma per operation of the bus.                                     *)

\* NewEventBus: no stream is listed, so nothing is owed or offered.
LEMMA BusInitially == BusInit => BusTypeOK /\ BusInv
  <1> SUFFICES ASSUME BusInit PROVE BusTypeOK /\ BusInv
    OBVIOUS
  <1>1. BusTypeOK
    BY DEF BusInit, BusTypeOK, NotSending, NoEvent
  <1>2. ListsExact /\ OwnEvents /\ NothingOwedYet /\ NoSendOnClosed /\ OfferedOnce
    BY EmptyElements
    DEF BusInit, ListsExact, OwnEvents, NothingOwedYet, NoSendOnClosed, OfferedOnce, NotSending
  <1> QED
    BY <1>1, <1>2 DEF BusInv

\* A stream that subscribes joins its topic's list; nobody is publishing.
LEMMA SubscribeKeeps ==
    ASSUME BusTypeOK, BusInv, NEW s \in Stream, Subscribe(s)
    PROVE  BusTypeOK' /\ BusInv'
  <1> DEFINE list == subscribers[TopicOf[s]]
  <1>1. TopicOf[s] \in Topic /\ list \in Seq(Stream)
    BY BusAssumption DEF BusTypeOK
  <1>2. IsInjective(list) /\ s \notin Range(list)
    BY <1>1 DEF BusInv, ListsExact, Subscribe
  <1> HIDE DEF list
  <1>3. /\ Append(list, s) \in Seq(Stream)
        /\ IsInjective(Append(list, s))
        /\ Range(Append(list, s)) = Range(list) \cup {s}
    BY <1>1, <1>2, AppendElements
  <1>4. /\ subscribers' = [subscribers EXCEPT ![TopicOf[s]] = Append(list, s)]
        /\ stream' = [stream EXCEPT ![s] = "open"]
        /\ UNCHANGED <<channel, sending, owed>>
    BY DEF Subscribe, list
  <1>5. BusTypeOK'
    BY <1>3, <1>4 DEF BusTypeOK
  <1>6. ListsExact'
    <2> SUFFICES ASSUME NEW t \in Topic
                 PROVE  /\ IsInjective(subscribers'[t])
                        /\ Range(subscribers'[t]) =
                              {x \in Stream : stream'[x] = "open" /\ TopicOf[x] = t}
      BY DEF ListsExact
    <2>1. CASE t = TopicOf[s]
      <3>1. subscribers'[t] = Append(list, s)
        BY <1>1, <1>4, <2>1 DEF BusTypeOK
      <3>2. Range(list) = {x \in Stream : stream[x] = "open" /\ TopicOf[x] = t}
        BY <1>1, <2>1 DEF BusInv, ListsExact, list
      <3> QED
        BY <1>3, <1>4, <2>1, <3>1, <3>2 DEF BusTypeOK
    <2>2. CASE t # TopicOf[s]
      <3>1. subscribers'[t] = subscribers[t]
        BY <1>1, <1>4, <2>2 DEF BusTypeOK
      <3> QED
        BY <1>4, <2>2, <3>1 DEF BusInv, ListsExact, BusTypeOK
    <2> QED
      BY <2>1, <2>2
  <1>7. \A p \in Publisher : sending[p].rest = <<>> /\ sending'[p] = sending[p]
    BY <1>4 DEF Subscribe, Unlocked
  <1>8. OwnEvents' /\ NoSendOnClosed'
    BY <1>7, EmptyElements DEF OwnEvents, NoSendOnClosed
  <1>9. NothingOwedYet'
    BY <1>4 DEF BusInv, NothingOwedYet, BusTypeOK
  <1>10. OfferedOnce'
    <2> SUFFICES ASSUME NEW x \in Stream, stream'[x] = "open"
                 PROVE  owed[x] = {} /\ \A p \in Publisher : sending[p].rest = <<>>
      BY <1>4, <1>7, EmptyElements DEF OfferedOnce
    <2>1. CASE x = s
      BY <1>7, <2>1 DEF BusInv, NothingOwedYet, Subscribe
    <2>2. CASE x # s
      BY <1>4, <1>7, <2>2, EmptyElements DEF BusInv, OfferedOnce, BusTypeOK
    <2> QED
      BY <2>1, <2>2
  <1> QED
    BY <1>5, <1>6, <1>8, <1>9, <1>10 DEF BusInv

\* A stream that leaves is taken out of its topic's list; nobody is publishing.
LEMMA UnsubscribeKeeps ==
    ASSUME BusTypeOK, BusInv, NEW s \in Stream, Unsubscribe(s)
    PROVE  BusTypeOK' /\ BusInv'
  <1> DEFINE list == subscribers[TopicOf[s]]
  <1>1. TopicOf[s] \in Topic /\ list \in Seq(Stream) /\ DOMAIN list = 1 .. Len(list)
    BY BusAssumption DEF BusTypeOK
  <1>2. IsInjective(list)
    BY <1>1 DEF BusInv, ListsExact
  <1>3. PICK i \in DOMAIN list :
          /\ list[i] = s
          /\ subscribers' = [subscribers EXCEPT ![TopicOf[s]] = Without(list, i)]
    BY DEF Unsubscribe
  <1> HIDE DEF list
  <1>4. /\ Without(list, i) \in Seq(Stream)
        /\ IsInjective(Without(list, i))
        /\ Range(Without(list, i)) = Range(list) \ {s}
    BY <1>1, <1>2, <1>3, WithoutElements
  <1>5. /\ stream' = [stream EXCEPT ![s] = "closed"]
        /\ channel' = [channel EXCEPT ![s] = <<>>]
        /\ UNCHANGED <<sending, owed>>
    BY DEF Unsubscribe
  <1>6. BusTypeOK'
    <2>1. <<>> \in Seq(Event)
      OBVIOUS
    <2>2. channel' \in [Stream -> Seq(Event)]
      BY <1>5, <2>1 DEF BusTypeOK
    <2>3. subscribers' \in [Topic -> Seq(Stream)]
      BY <1>1, <1>3, <1>4 DEF BusTypeOK
    <2> QED
      BY <1>5, <2>2, <2>3 DEF BusTypeOK
  <1>7. ListsExact'
    <2> SUFFICES ASSUME NEW t \in Topic
                 PROVE  /\ IsInjective(subscribers'[t])
                        /\ Range(subscribers'[t]) =
                              {x \in Stream : stream'[x] = "open" /\ TopicOf[x] = t}
      BY DEF ListsExact
    <2>1. CASE t = TopicOf[s]
      <3>1. subscribers'[t] = Without(list, i)
        BY <1>1, <1>3, <2>1 DEF BusTypeOK
      <3>2. Range(list) = {x \in Stream : stream[x] = "open" /\ TopicOf[x] = t}
        BY <1>1, <2>1 DEF BusInv, ListsExact, list
      <3> QED
        BY <1>4, <1>5, <2>1, <3>1, <3>2 DEF BusTypeOK
    <2>2. CASE t # TopicOf[s]
      <3>1. subscribers'[t] = subscribers[t]
        BY <1>1, <1>3, <2>2 DEF BusTypeOK
      <3> QED
        BY <1>5, <2>2, <3>1 DEF BusInv, ListsExact, BusTypeOK
    <2> QED
      BY <2>1, <2>2
  <1>8. \A p \in Publisher : sending[p].rest = <<>> /\ sending'[p] = sending[p]
    BY <1>5 DEF Unsubscribe, Unlocked
  <1>9. OwnEvents' /\ NoSendOnClosed'
    BY <1>8, EmptyElements DEF OwnEvents, NoSendOnClosed
  <1>10. NothingOwedYet'
    BY <1>5 DEF BusInv, NothingOwedYet, BusTypeOK
  <1>11. OfferedOnce'
    BY <1>5, <1>8, EmptyElements DEF BusInv, OfferedOnce, BusTypeOK
  <1> QED
    BY <1>6, <1>7, <1>9, <1>10, <1>11 DEF BusInv

\* Reading a stream's channel touches nothing else.
LEMMA ReceiveKeeps ==
    ASSUME BusTypeOK, BusInv, NEW s \in Stream, StreamReceive(s)
    PROVE  BusTypeOK' /\ BusInv'
  <1>1. Tail(channel[s]) \in Seq(Event)
    BY DEF StreamReceive, BusTypeOK
  <1>2. BusTypeOK'
    BY <1>1 DEF StreamReceive, BusTypeOK
  <1>3. BusInv'
    BY DEF StreamReceive, BusInv, ListsExact, OwnEvents, NothingOwedYet, NoSendOnClosed, OfferedOnce
  <1> QED
    BY <1>2, <1>3

\* What an event about a job is sent to: the open streams that asked for the
\* job or for every job, each once.
LEMMA TargetsExact ==
    ASSUME BusTypeOK, BusInv, NEW j \in JobID
    PROVE  /\ Targets(j) \in Seq(Stream)
           /\ IsInjective(Targets(j))
           /\ Range(Targets(j)) =
                 {s \in Stream : stream[s] = "open" /\ TopicOf[s] \in {j, Wildcard}}
  <1>1. j \in Topic /\ Wildcard \in Topic /\ j # Wildcard
    BY JobAssumption DEF Topic, Wildcard, NoID
  <1>2. /\ subscribers[j] \in Seq(Stream) /\ subscribers[Wildcard] \in Seq(Stream)
        /\ IsInjective(subscribers[j]) /\ IsInjective(subscribers[Wildcard])
        /\ Range(subscribers[j]) = {s \in Stream : stream[s] = "open" /\ TopicOf[s] = j}
        /\ Range(subscribers[Wildcard]) =
              {s \in Stream : stream[s] = "open" /\ TopicOf[s] = Wildcard}
    BY <1>1 DEF BusTypeOK, BusInv, ListsExact
  <1>3. Range(subscribers[j]) \cap Range(subscribers[Wildcard]) = {}
    BY <1>1, <1>2
  <1> QED
    BY <1>2, <1>3, ConcatElements DEF Targets

\* A Publish that takes the read lock: the streams in the lists are from now
\* on owed its event, and it has each of them ahead of it once.
LEMMA PublishBeginKeeps ==
    ASSUME BusTypeOK, BusInv, NEW p \in Publisher, NEW e \in Event, e.by = p, PublishBegin(p, e)
    PROVE  BusTypeOK' /\ BusInv'
  <1> DEFINE rest == Targets(e.job)
  <1>1. e.job \in JobID
    BY DEF Event
  <1>2. /\ rest \in Seq(Stream)
        /\ IsInjective(rest)
        /\ Range(rest) = {s \in Stream : stream[s] = "open" /\ TopicOf[s] \in {e.job, Wildcard}}
    BY <1>1, TargetsExact
  <1>3. /\ sending[p] = NotSending
        /\ sending' = [sending EXCEPT ![p] = [event |-> e, rest |-> rest]]
        /\ owed' = [s \in Stream |-> IF stream[s] = "open" /\ TopicOf[s] \in {e.job, Wildcard}
                                     THEN owed[s] \cup {e} ELSE owed[s]]
        /\ UNCHANGED <<subscribers, channel, stream>>
    BY DEF PublishBegin
  <1> HIDE DEF rest
  <1>4. BusTypeOK'
    BY <1>2, <1>3 DEF BusTypeOK
  <1>5. /\ sending'[p] = [event |-> e, rest |-> rest]
        /\ \A q \in Publisher \ {p} : sending'[q] = sending[q]
        /\ sending[p].rest = <<>>
    BY <1>3 DEF BusTypeOK, NotSending
  <1>6. ListsExact'
    BY <1>3 DEF BusInv, ListsExact
  <1>7. OwnEvents'
    BY <1>5 DEF BusInv, OwnEvents
  <1>8. NothingOwedYet'
    BY <1>3 DEF BusInv, NothingOwedYet
  <1>9. NoSendOnClosed'
    BY <1>2, <1>3, <1>5 DEF BusInv, NoSendOnClosed
  <1>10. OfferedOnce'
    <2> SUFFICES ASSUME NEW s \in Stream, stream[s] = "open"
                 PROVE  /\ owed'[s] = {sending'[q].event :
                                          q \in {x \in Publisher : s \in Range(sending'[x].rest)}}
                        /\ \A q \in Publisher : IsInjective(sending'[q].rest)
      BY <1>3 DEF OfferedOnce
    <2>1. /\ owed[s] = {sending[q].event : q \in {x \in Publisher : s \in Range(sending[x].rest)}}
          /\ \A q \in Publisher : IsInjective(sending[q].rest)
      BY DEF BusInv, OfferedOnce
    <2>2. s \notin Range(sending[p].rest)
      BY <1>5, EmptyElements
    <2>3. CASE s \in Range(rest)
      <3>1. owed'[s] = owed[s] \cup {e}
        BY <1>2, <1>3, <2>3
      <3> QED
        BY <1>2, <1>5, <2>1, <2>2, <2>3, <3>1
    <2>4. CASE s \notin Range(rest)
      <3>1. owed'[s] = owed[s]
        BY <1>2, <1>3, <2>4
      <3> QED
        BY <1>2, <1>5, <2>1, <2>2, <2>4, <3>1
    <2> QED
      BY <2>3, <2>4
  <1> QED
    BY <1>4, <1>6, <1>7, <1>8, <1>9, <1>10 DEF BusInv

\* A send serves the first stream of the rest and no other; the events of
\* other publishers that the stream is still owed are different ones.
LEMMA PublishSendKeeps ==
    ASSUME BusTypeOK, BusInv, NEW p \in Publisher, PublishSend(p)
    PROVE  BusTypeOK' /\ BusInv'
  <1> DEFINE rest == sending[p].rest
             e == sending[p].event
             h == Head(rest)
             tail == Tail(rest)
  <1>1. rest \in Seq(Stream) /\ rest # <<>> /\ e \in Event /\ e.by = p
    BY DEF BusTypeOK, PublishSend, BusInv, OwnEvents
  <1>2. /\ channel' = IF Len(channel[h]) >= Capacity THEN channel
                      ELSE [channel EXCEPT ![h] = Append(@, e)]
        /\ owed' = [owed EXCEPT ![h] = @ \ {e}]
        /\ sending' = [sending EXCEPT ![p].rest = Tail(rest)]
        /\ UNCHANGED <<subscribers, stream>>
    BY DEF PublishSend
  <1>3. h \in Stream /\ h \in Range(rest) /\ stream[h] = "open"
    <2>1. h \in Stream /\ 1 \in 1 .. Len(rest) /\ h = rest[1]
      BY <1>1
    <2>2. h \in Range(rest)
      BY <1>1, <2>1, RangeDef
    <2> QED
      BY <2>1, <2>2 DEF BusInv, NoSendOnClosed
  <1>4. IsInjective(rest)
    BY <1>3 DEF BusInv, OfferedOnce
  <1>5. /\ tail \in Seq(Stream)
        /\ IsInjective(tail)
        /\ Range(tail) = Range(rest) \ {h}
    BY <1>1, <1>4, TailElements
  <1>6. /\ sending'[p] = [event |-> e, rest |-> tail]
        /\ \A q \in Publisher \ {p} : sending'[q] = sending[q]
    BY <1>2 DEF BusTypeOK
  <1>7. BusTypeOK'
    <2>1. channel' \in [Stream -> Seq(Event)]
      BY <1>1, <1>2, <1>3 DEF BusTypeOK
    <2>2. sending' \in [Publisher -> [event : Event \cup {NoEvent}, rest : Seq(Stream)]]
      BY <1>2, <1>5 DEF BusTypeOK
    <2>3. owed' \in [Stream -> SUBSET Event]
      BY <1>2 DEF BusTypeOK
    <2> QED
      BY <1>2, <2>1, <2>2, <2>3 DEF BusTypeOK
  <1> HIDE DEF rest, e, h, tail
  <1>8. ListsExact'
    BY <1>2 DEF BusInv, ListsExact
  <1>9. OwnEvents'
    BY <1>1, <1>6 DEF BusInv, OwnEvents
  <1>10. NothingOwedYet'
    BY <1>2, <1>3 DEF BusInv, NothingOwedYet, BusTypeOK
  <1>11. NoSendOnClosed'
    <2> SUFFICES ASSUME NEW q \in Publisher, NEW s \in Range(sending'[q].rest)
                 PROVE  stream[s] = "open"
      BY <1>2 DEF NoSendOnClosed
    <2>1. s \in Range(sending[q].rest)
      BY <1>5, <1>6 DEF rest
    <2> QED
      BY <2>1 DEF BusInv, NoSendOnClosed
  <1>12. OfferedOnce'
    <2> SUFFICES ASSUME NEW s \in Stream, stream[s] = "open"
                 PROVE  /\ owed'[s] = {sending'[q].event :
                                          q \in {x \in Publisher : s \in Range(sending'[x].rest)}}
                        /\ \A q \in Publisher : IsInjective(sending'[q].rest)
      BY <1>2 DEF OfferedOnce
    <2> DEFINE ahead == {x \in Publisher : s \in Range(sending[x].rest)}
               aheadNow == {x \in Publisher : s \in Range(sending'[x].rest)}
    <2>1. /\ owed[s] = {sending[q].event : q \in ahead}
          /\ \A q \in Publisher : IsInjective(sending[q].rest)
      BY DEF BusInv, OfferedOnce
    <2>2. \A q \in Publisher : IsInjective(sending'[q].rest)
      BY <1>5, <1>6, <2>1
    <2>3. \A q \in Publisher : sending'[q].event = sending[q].event
      BY <1>6 DEF e
    <2>4. CASE s = h
      <3>1. owed'[s] = owed[s] \ {e}
        BY <1>2, <1>3, <2>4 DEF BusTypeOK
      <3>2. ASSUME NEW q \in Publisher \ {p}, s \in Range(sending[q].rest)
            PROVE  sending[q].event # e
        <4>1. sending[q].rest # <<>>
          BY <3>2, EmptyElements
        <4> QED
          BY <1>1, <4>1 DEF BusInv, OwnEvents
      <3>3. aheadNow = ahead \ {p} /\ p \in ahead
        BY <1>3, <1>5, <1>6, <2>4 DEF rest
      <3> HIDE DEF ahead, aheadNow
      <3>4. \A q \in ahead \ {p} : sending[q].event # e
        BY <3>2 DEF ahead
      <3>5. owed'[s] = {sending[q].event : q \in aheadNow}
        BY <2>1, <3>1, <3>3, <3>4 DEF e
      <3> QED
        BY <2>2, <2>3, <3>5 DEF aheadNow
    <2>5. CASE s # h
      <3>1. owed'[s] = owed[s]
        BY <1>2, <2>5 DEF BusTypeOK
      <3>2. aheadNow = ahead
        BY <1>5, <1>6, <2>5 DEF rest
      <3> QED
        BY <2>1, <2>2, <2>3, <3>1, <3>2
    <2> QED
      BY <2>4, <2>5
  <1> QED
    BY <1>7, <1>8, <1>9, <1>10, <1>11, <1>12 DEF BusInv

\* A Publish that is through.
LEMMA PublishEndKeeps ==
    ASSUME BusTypeOK, BusInv, NEW p \in Publisher, PublishEnd(p)
    PROVE  BusTypeOK' /\ BusInv'
  <1>1. /\ sending' = [sending EXCEPT ![p] = NotSending]
        /\ UNCHANGED <<subscribers, channel, stream, owed>>
    BY DEF PublishEnd
  <1>2. BusTypeOK'
    BY <1>1 DEF BusTypeOK, NotSending, NoEvent
  <1>3. /\ sending'[p].rest = <<>> /\ sending[p].rest = <<>>
        /\ \A q \in Publisher \ {p} : sending'[q] = sending[q]
    BY <1>1 DEF BusTypeOK, NotSending, PublishEnd
  <1>4. ListsExact' /\ OwnEvents' /\ NothingOwedYet' /\ NoSendOnClosed'
    BY <1>1, <1>3 DEF BusInv, ListsExact, OwnEvents, NothingOwedYet, NoSendOnClosed
  <1>5. OfferedOnce'
    <2> SUFFICES ASSUME NEW s \in Stream, stream[s] = "open"
                 PROVE  /\ owed[s] = {sending'[q].event :
                                         q \in {x \in Publisher : s \in Range(sending'[x].rest)}}
                        /\ \A q \in Publisher : IsInjective(sending'[q].rest)
      BY <1>1 DEF OfferedOnce
    <2>1. /\ owed[s] = {sending[q].event : q \in {x \in Publisher : s \in Range(sending[x].rest)}}
          /\ \A q \in Publisher : IsInjective(sending[q].rest)
      BY DEF BusInv, OfferedOnce
    <2>2. s \notin Range(sending[p].rest) /\ s \notin Range(sending'[p].rest)
      BY <1>3, EmptyElements
    <2> QED
      BY <1>3, <2>1, <2>2
  <1> QED
    BY <1>2, <1>4, <1>5 DEF BusInv

\* A step that leaves the bus alone.
LEMMA BusUntouched ==
    ASSUME BusTypeOK, BusInv, UNCHANGED busVars
    PROVE  BusTypeOK' /\ BusInv'
  BY DEF busVars, BusTypeOK, BusInv, ListsExact, OwnEvents, NothingOwedYet, NoSendOnClosed,
         OfferedOnce
=============================================================================
