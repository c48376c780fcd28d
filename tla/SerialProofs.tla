----------------------------- MODULE SerialProofs -----------------------------
(***************************************************************************)
(* For any requests, of any number of clients, and any bytes, a serial     *)
(* channel answers each packet once and in turn, loses no byte, forgets no *)
(* packet, and with CancelIoEx times out only what is timed.               *)
(***************************************************************************)
EXTENDS SerialProps, SequenceTheorems, TLAPS

Answer == [packet : Nat, nError : {"none", "failed", "aborted", "DEVICE_CLOSING"},
           data : Seq(Bytes)]

Queues ==
  /\ requests \in Seq(RequestType)
  /\ packets \in [Kinds -> Seq(Nat)]
  /\ \A k \in Kinds : \A n \in DOMAIN packets[k] :
       packets[k][n] \in DOMAIN requests /\ requests[packets[k][n]].kind = k
  /\ sPacket \in Nat /\ (sPacket # NoPacket => sPacket \in DOMAIN requests)
  /\ replies \in Seq(Answer)
  /\ \A i \in DOMAIN replies : replies[i].packet \in DOMAIN requests

Buffers ==
  /\ m_acReadBuffer \in Seq(Bytes) /\ input \in Seq(Bytes)
  /\ received \in Seq(Bytes) /\ delivered \in Seq(Bytes)

Events ==
  /\ queueEvent \in [Kinds -> BOOLEAN]
  /\ nError \in {"none", "failed", "aborted"}
  /\ overlapped \in [Kinds -> [event : BOOLEAN,
                               status : {"none", "pending", "done", "short", "aborted"}]]

Typed == Queues /\ Buffers /\ Events

\* ThreadProc is in its loop.
Serving == pc \notin {"closingRead", "closingWrite", "tellRead", "tellWrite",
                      "closed", "terminated"}

\* The destructor goes on only without the thread.
Joined == deletePc \in {"closing", "deleted"} => pc \in {"closed", "terminated"}

\* The first request queued.
FirstOf(k) == requests[Head(packets[k])]

\* The bytes read are for the first read, and no more than it asks for, until
\* it is taken to be answered with them.
Reading ==
  Serving /\ pc # "answerRead" =>
    IF packets["read"] = <<>> THEN m_acReadBuffer = <<>>
    ELSE Len(m_acReadBuffer) <= FirstOf("read").dwSize

\* A packet is in hand while it is answered.
Holding == pc \in Answering => sPacket # NoPacket

IInv == Typed /\ Joined /\ OneAnswerEach /\ Holding /\ Reading

-----------------------------------------------------------------------------
(* Queues and answers *)

\* ProcessData pushes a packet that comes after all others.
LEMMA PushKeeps ==
  ASSUME IInv, NEW request \in Requests, ProcessData(request)
  PROVE  Typed' /\ Joined' /\ OneAnswerEach'
<1> DEFINE k == request.kind
           new == Len(requests) + 1
<1>1. /\ deletePc \in {"none", "joining", "closing"} /\ deletePc' = deletePc /\ pc' = pc
      /\ requests' = Append(requests, request)
      /\ packets' = [packets EXCEPT ![k] = Append(packets[k], new)]
      /\ queueEvent' = [queueEvent EXCEPT ![k] = queueEvent[k] \/ packets[k] = <<>>]
      /\ UNCHANGED <<nError, m_acReadBuffer, input, received, delivered, overlapped, replies>>
      /\ sPacket' = sPacket
  BY DEF ProcessData, threadVars, portVars, deleteVars, answerVars, Typed, Queues, Events, IInv
<1>2. request \in RequestType /\ k \in Kinds
  BY SerialAssumption DEF RequestType
<1>3. /\ Len(requests) \in Nat /\ DOMAIN requests = 1 .. Len(requests)
      /\ requests' \in Seq(RequestType) /\ DOMAIN requests' = 1 .. new
      /\ \A p \in DOMAIN requests : requests'[p] = requests[p]
      /\ requests'[new] = request
  BY <1>1, <1>2, AppendProperties, LenProperties DEF IInv, Typed, Queues
<1>4. /\ packets[k] \in Seq(Nat) /\ Len(packets[k]) \in Nat
      /\ DOMAIN packets[k] = 1 .. Len(packets[k])
  BY <1>2, LenProperties DEF IInv, Typed, Queues
<1>5. /\ packets' \in [Kinds -> Seq(Nat)]
      /\ \A j \in Kinds \ {k} : packets'[j] = packets[j]
      /\ DOMAIN packets'[k] = 1 .. Len(packets[k]) + 1
      /\ \A n \in DOMAIN packets[k] : packets'[k][n] = packets[k][n]
      /\ packets'[k][Len(packets[k]) + 1] = new
  <2>1. new \in Nat
    BY <1>3
  <2>2. /\ Append(packets[k], new) \in Seq(Nat)
        /\ Len(Append(packets[k], new)) = Len(packets[k]) + 1
        /\ \A n \in 1 .. Len(packets[k]) : Append(packets[k], new)[n] = packets[k][n]
        /\ Append(packets[k], new)[Len(packets[k]) + 1] = new
    BY <1>4, <2>1, AppendProperties
  <2>3. packets'[k] = Append(packets[k], new)
    BY <1>1, <1>2 DEF IInv, Typed, Queues
  <2>4. packets' \in [Kinds -> Seq(Nat)] /\ \A j \in Kinds \ {k} : packets'[j] = packets[j]
    BY <1>1, <1>2, <2>2 DEF IInv, Typed, Queues
  <2> QED BY <1>4, <2>2, <2>3, <2>4, LenProperties
<1> HIDE DEF k, new
<1>6. new = Len(requests) + 1
  BY DEF new
<1>7. \A p \in DOMAIN requests' : p = new \/ p \in DOMAIN requests
  BY <1>3, <1>6
<1>8. \A j \in Kinds : \A n \in DOMAIN packets'[j] :
        \/ n \in DOMAIN packets[j] /\ packets'[j][n] = packets[j][n]
        \/ j = k /\ n = Len(packets[k]) + 1 /\ packets'[j][n] = new
  <2> SUFFICES ASSUME NEW j \in Kinds, NEW n \in DOMAIN packets'[j]
               PROVE  \/ n \in DOMAIN packets[j] /\ packets'[j][n] = packets[j][n]
                      \/ j = k /\ n = Len(packets[k]) + 1 /\ packets'[j][n] = new
    OBVIOUS
  <2>1. CASE j = k
    <3>1. n \in 1 .. Len(packets[k]) + 1
      BY <1>5, <2>1
    <3>2. n \in DOMAIN packets[k] \/ n = Len(packets[k]) + 1
      BY <1>4, <3>1
    <3> QED BY <1>5, <2>1, <3>2
  <2>2. CASE j # k
    BY <1>5, <2>2
  <2> QED BY <2>1, <2>2
<1>9. Typed'
  <2>1. \A j \in Kinds : \A n \in DOMAIN packets'[j] :
          packets'[j][n] \in DOMAIN requests' /\ requests'[packets'[j][n]].kind = j
    <3> SUFFICES ASSUME NEW j \in Kinds, NEW n \in DOMAIN packets'[j]
                 PROVE  /\ packets'[j][n] \in DOMAIN requests'
                        /\ requests'[packets'[j][n]].kind = j
      OBVIOUS
    <3>1. CASE n \in DOMAIN packets[j] /\ packets'[j][n] = packets[j][n]
      <4>1. packets[j][n] \in DOMAIN requests /\ requests[packets[j][n]].kind = j
        BY <3>1 DEF IInv, Typed, Queues
      <4> QED BY <1>3, <1>6, <3>1, <4>1
    <3>2. CASE j = k /\ packets'[j][n] = new
      BY <1>3, <1>6, <3>2 DEF k
    <3> QED BY <1>8, <3>1, <3>2
  <2>2. queueEvent' \in [Kinds -> BOOLEAN]
    BY <1>1 DEF IInv, Typed, Events
  <2>3. \A i \in DOMAIN replies' : replies'[i].packet \in DOMAIN requests'
    BY <1>1, <1>3, <1>6 DEF IInv, Typed, Queues
  <2> QED BY <1>1, <1>3, <1>5, <2>1, <2>2, <2>3 DEF IInv, Typed, Queues, Buffers, Events
<1>10. \A j \in Kinds : AnswersOf(j)' = AnswersOf(j)
  BY <1>1, <1>3 DEF AnswersOf, IInv, Typed, Queues
<1>13. \A j \in Kinds : InHand(j)' = InHand(j)
  BY <1>1, <1>3 DEF InHand, IInv, Typed, Queues
<1>11. ASSUME deletePc' # "deleted", NEW j \in Kinds
       PROVE  /\ {replies'[i].packet : i \in AnswersOf(j)} \cup InHand(j) \cup Range(packets'[j])
                   = {p \in DOMAIN requests' : requests'[p].kind = j}
              /\ \A i, l \in AnswersOf(j) : i < l => replies'[i].packet < replies'[l].packet
              /\ \A i \in AnswersOf(j) : \A p \in InHand(j) : replies'[i].packet < p
              /\ \A i \in AnswersOf(j), n \in DOMAIN packets'[j] :
                   replies'[i].packet < packets'[j][n]
              /\ \A p \in InHand(j), n \in DOMAIN packets'[j] : p < packets'[j][n]
              /\ \A m, n \in DOMAIN packets'[j] : m < n => packets'[j][m] < packets'[j][n]
  <2>1. /\ {replies[i].packet : i \in AnswersOf(j)} \cup InHand(j) \cup Range(packets[j])
             = {p \in DOMAIN requests : requests[p].kind = j}
        /\ \A i, l \in AnswersOf(j) : i < l => replies[i].packet < replies[l].packet
        /\ \A i \in AnswersOf(j) : \A p \in InHand(j) : replies[i].packet < p
        /\ \A i \in AnswersOf(j), n \in DOMAIN packets[j] : replies[i].packet < packets[j][n]
        /\ \A p \in InHand(j), n \in DOMAIN packets[j] : p < packets[j][n]
        /\ \A m, n \in DOMAIN packets[j] : m < n => packets[j][m] < packets[j][n]
    BY <1>1 DEF IInv, OneAnswerEach, InTurn
  <2>2. Range(packets'[j]) = Range(packets[j]) \cup (IF j = k THEN {new} ELSE {})
    <3>1. CASE j = k
      <4>1. DOMAIN packets'[j] = DOMAIN packets[j] \cup {Len(packets[j]) + 1}
        BY SMTT(30), <1>4, <1>5, <3>1
      <4> QED BY <1>5, <3>1, <4>1 DEF Range
    <3>2. CASE j # k
      BY <1>5, <3>2
    <3> QED BY <3>1, <3>2
  <2>3. {p \in DOMAIN requests' : requests'[p].kind = j}
          = {p \in DOMAIN requests : requests[p].kind = j} \cup (IF j = k THEN {new} ELSE {})
    BY <1>3, <1>6 DEF k
  <2>4. \A i \in DOMAIN replies : replies[i].packet < new
    BY <1>3, <1>6 DEF IInv, Typed, Queues
  <2>5. \A n \in DOMAIN packets[j] : packets[j][n] < new
    BY <1>3, <1>6 DEF IInv, Typed, Queues
  <2>6. AnswersOf(j) \subseteq DOMAIN replies
    BY DEF AnswersOf
  <2>7. ASSUME NEW m \in DOMAIN packets'[j], NEW n \in DOMAIN packets'[j], m < n
        PROVE  packets'[j][m] < packets'[j][n]
    <3>1. m \in DOMAIN packets[j] /\ packets'[j][m] = packets[j][m]
      BY <1>4, <1>5, <1>8, <2>7
    <3> QED BY <1>8, <2>1, <2>5, <2>7, <3>1
  <2>8. ASSUME NEW i \in AnswersOf(j), NEW n \in DOMAIN packets'[j]
        PROVE  replies[i].packet < packets'[j][n]
    BY <1>8, <2>1, <2>4, <2>6
  <2>9. ASSUME NEW p \in InHand(j), NEW n \in DOMAIN packets'[j]
        PROVE  p < packets'[j][n]
    <3>1. p \in DOMAIN requests
      BY DEF InHand, IInv, Typed, Queues
    <3>2. p < new
      BY <1>3, <1>6, <3>1
    <3> QED BY <1>8, <2>1, <2>9, <3>2
  <2>10. replies' = replies
    BY <1>1
  <2>11. {replies'[i].packet : i \in AnswersOf(j)} \cup InHand(j) \cup Range(packets'[j])
           = {p \in DOMAIN requests' : requests'[p].kind = j}
    BY <2>1, <2>2, <2>3, <2>10
  <2> QED BY <2>1, <2>7, <2>8, <2>9, <2>10, <2>11
<1>12. OneAnswerEach'
  <2>1. deletePc' # "deleted" => \A j \in Kinds : InTurn(j)'
    BY <1>10, <1>11, <1>13 DEF InTurn
  <2> QED BY <1>1, <2>1 DEF IInv, OneAnswerEach
<1> QED BY <1>1, <1>9, <1>12 DEF IInv, Joined

\* The first packet of a queue leaves it, and is in hand.
LEMMA TakeKeeps ==
  ASSUME IInv, NEW k \in Kinds, packets[k] # <<>>, deletePc' = deletePc,
         sPacket = NoPacket, sPacket' = Head(packets[k]), pc' \in Answering,
         packets' = [packets EXCEPT ![k] = Tail(packets[k])],
         UNCHANGED <<requests, replies>>
  PROVE  Queues' /\ OneAnswerEach' /\ sPacket' # NoPacket
<1>1. /\ packets[k] \in Seq(Nat) /\ Len(packets[k]) \in Nat
      /\ DOMAIN packets[k] = 1 .. Len(packets[k])
      /\ 1 \in DOMAIN packets[k] /\ Head(packets[k]) = packets[k][1]
  BY LenProperties, EmptySeq DEF IInv, Typed, Queues
<1>2. /\ packets' \in [Kinds -> Seq(Nat)]
      /\ \A j \in Kinds \ {k} : packets'[j] = packets[j]
      /\ DOMAIN packets'[k] = 1 .. Len(packets[k]) - 1
      /\ \A n \in DOMAIN packets'[k] :
           n + 1 \in DOMAIN packets[k] /\ packets'[k][n] = packets[k][n + 1]
  <2>1. /\ Tail(packets[k]) \in Seq(Nat) /\ Len(Tail(packets[k])) = Len(packets[k]) - 1
        /\ \A n \in 1 .. Len(Tail(packets[k])) : Tail(packets[k])[n] = packets[k][n + 1]
    BY <1>1, HeadTailProperties
  <2>2. packets'[k] = Tail(packets[k])
    BY DEF IInv, Typed, Queues
  <2>3. packets' \in [Kinds -> Seq(Nat)] /\ \A j \in Kinds \ {k} : packets'[j] = packets[j]
    BY <2>1 DEF IInv, Typed, Queues
  <2> QED BY <1>1, <2>1, <2>2, <2>3, LenProperties
<1>3. /\ sPacket' = packets[k][1] /\ packets[k][1] \in Nat
      /\ packets[k][1] \in DOMAIN requests /\ requests[packets[k][1]].kind = k
      /\ packets[k][1] # NoPacket
  <2>1. packets[k][1] \in DOMAIN requests /\ requests[packets[k][1]].kind = k
    BY <1>1 DEF IInv, Typed, Queues
  <2>2. DOMAIN requests = 1 .. Len(requests) /\ Len(requests) \in Nat
    BY LenProperties DEF IInv, Typed, Queues
  <2> QED BY <1>1, <2>1, <2>2 DEF NoPacket
<1>4. Queues'
  <2>1. ASSUME NEW j \in Kinds, NEW n \in DOMAIN packets'[j]
        PROVE  packets'[j][n] \in DOMAIN requests /\ requests[packets'[j][n]].kind = j
    BY <1>2 DEF IInv, Typed, Queues
  <2> QED BY <1>2, <1>3, <2>1 DEF IInv, Typed, Queues
<1>5. \A j \in Kinds : AnswersOf(j)' = AnswersOf(j)
  BY DEF AnswersOf
<1>6. \A j \in Kinds : InHand(j) = {} /\ InHand(j)' = IF j = k THEN {packets[k][1]} ELSE {}
  BY <1>3 DEF InHand
<1>7. Range(packets[k]) = {packets[k][1]} \cup Range(packets'[k])
  <2>1. ASSUME NEW n \in DOMAIN packets[k], n # 1
        PROVE  n - 1 \in DOMAIN packets'[k] /\ packets'[k][n - 1] = packets[k][n]
    <3>1. n - 1 \in DOMAIN packets'[k] /\ n - 1 + 1 = n
      BY <1>1, <1>2, <2>1
    <3> QED BY <1>2, <3>1
  <2>2. ASSUME NEW o \in Range(packets[k]) PROVE o \in {packets[k][1]} \cup Range(packets'[k])
    <3>1. PICK n \in DOMAIN packets[k] : packets[k][n] = o
      BY DEF Range
    <3>2. CASE n = 1
      BY <3>1, <3>2
    <3>3. CASE n # 1
      BY <2>1, <3>1, <3>3 DEF Range
    <3> QED BY <3>2, <3>3
  <2>3. {packets[k][1]} \cup Range(packets'[k]) \subseteq Range(packets[k])
    BY <1>1, <1>2 DEF Range
  <2> QED BY <2>2, <2>3
<1>8. ASSUME deletePc # "deleted", NEW j \in Kinds PROVE InTurn(j)'
  <2>1. InTurn(j)
    BY <1>8 DEF IInv, OneAnswerEach
  <2>2. CASE j # k
    <3>1. /\ packets'[j] = packets[j] /\ AnswersOf(j)' = AnswersOf(j)
          /\ InHand(j)' = {} /\ InHand(j) = {}
          /\ requests' = requests /\ replies' = replies
      BY <1>2, <1>5, <1>6, <2>2
    <3>2. /\ {replies'[i].packet : i \in AnswersOf(j)'} = {replies[i].packet : i \in AnswersOf(j)}
          /\ {p \in DOMAIN requests' : requests'[p].kind = j}
               = {p \in DOMAIN requests : requests[p].kind = j}
          /\ Range(packets'[j]) = Range(packets[j])
      BY <3>1
    <3>3. {replies'[i].packet : i \in AnswersOf(j)'} \cup InHand(j)' \cup Range(packets'[j])
            = {p \in DOMAIN requests' : requests'[p].kind = j}
      BY <2>1, <3>1, <3>2 DEF InTurn
    <3>4. \A i, l \in AnswersOf(j)' : i < l => replies'[i].packet < replies'[l].packet
      BY <2>1, <3>1 DEF InTurn
    <3>5. \A i \in AnswersOf(j)', n \in DOMAIN packets'[j] : replies'[i].packet < packets'[j][n]
      BY <2>1, <3>1 DEF InTurn
    <3>6. \A m, n \in DOMAIN packets'[j] : m < n => packets'[j][m] < packets'[j][n]
      BY <2>1, <3>1 DEF InTurn
    <3> QED BY <3>1, <3>3, <3>4, <3>5, <3>6 DEF InTurn
  <2>3. CASE j = k
    <3>1. \A n \in DOMAIN packets'[k] :
            /\ n + 1 \in DOMAIN packets[k] /\ packets'[k][n] = packets[k][n + 1]
            /\ 1 < n + 1
      BY <1>2
    <3>2. /\ {replies[i].packet : i \in AnswersOf(k)} \cup Range(packets[k])
               = {p \in DOMAIN requests : requests[p].kind = k}
          /\ \A i, l \in AnswersOf(k) : i < l => replies[i].packet < replies[l].packet
          /\ \A i \in AnswersOf(k), n \in DOMAIN packets[k] : replies[i].packet < packets[k][n]
          /\ \A m, n \in DOMAIN packets[k] : m < n => packets[k][m] < packets[k][n]
      BY <1>6, <2>1, <2>3 DEF InTurn
    <3>3. \A p \in InHand(k)', n \in DOMAIN packets'[k] : p < packets'[k][n]
      <4> SUFFICES ASSUME NEW n \in DOMAIN packets'[k] PROVE packets[k][1] < packets'[k][n]
        BY <1>6
      <4> QED BY <1>1, <3>1, <3>2
    <3>4. ASSUME NEW m \in DOMAIN packets'[k], NEW n \in DOMAIN packets'[k], m < n
          PROVE  packets'[k][m] < packets'[k][n]
      <4>1. m + 1 < n + 1
        BY <1>1, <1>2, <3>4
      <4> QED BY <3>1, <3>2, <4>1
    <3>5. \A i \in AnswersOf(k) : \A p \in InHand(k)' : replies[i].packet < p
      BY <1>1, <1>6, <3>2
    <3>6. \A i \in AnswersOf(k), n \in DOMAIN packets'[k] : replies[i].packet < packets'[k][n]
      BY <3>1, <3>2
    <3>7. {replies[i].packet : i \in AnswersOf(k)} \cup InHand(k)' \cup Range(packets'[k])
            = {p \in DOMAIN requests : requests[p].kind = k}
      BY <1>6, <1>7, <3>2
    <3> QED BY <1>5, <2>3, <3>2, <3>3, <3>4, <3>5, <3>6, <3>7 DEF InTurn
  <2> QED BY <2>2, <2>3
<1> QED BY <1>3, <1>4, <1>8 DEF OneAnswerEach

\* The packet in hand is answered, after all others.
LEMMA SendKeeps ==
  ASSUME IInv, sPacket # NoPacket, sPacket' = NoPacket, deletePc' = deletePc,
         NEW error \in {"none", "failed", "aborted", "DEVICE_CLOSING"}, NEW data \in Seq(Bytes),
         UNCHANGED <<requests, packets>>, Reply(sPacket, error, data)
  PROVE  Queues' /\ OneAnswerEach'
<1> DEFINE answer == [packet |-> sPacket, nError |-> error, data |-> data]
           last == Len(replies) + 1
<1>1. /\ answer \in Answer /\ answer.packet = sPacket
      /\ sPacket \in DOMAIN requests
  BY DEF IInv, Typed, Queues, Answer
<1> HIDE DEF answer
<1>2. /\ Len(replies) \in Nat /\ DOMAIN replies = 1 .. Len(replies)
      /\ replies' \in Seq(Answer) /\ DOMAIN replies' = 1 .. last
      /\ \A i \in DOMAIN replies : replies'[i] = replies[i]
      /\ replies'[last] = answer
  <2>1. replies' = Append(replies, answer)
    BY DEF Reply, answer
  <2> QED BY <1>1, <2>1, AppendProperties, LenProperties DEF IInv, Typed, Queues
<1> HIDE DEF last
<1>3. \A i \in DOMAIN replies' : i = last \/ i \in DOMAIN replies
  BY <1>2 DEF last
<1>4. last \in DOMAIN replies' /\ last \notin DOMAIN replies /\ DOMAIN replies \subseteq DOMAIN replies'
  BY <1>2 DEF last
<1>5. Queues'
  <2>1. \A i \in DOMAIN replies' : replies'[i].packet \in DOMAIN requests
    BY <1>1, <1>2, <1>3 DEF IInv, Typed, Queues
  <2> QED BY <1>2, <2>1 DEF IInv, Typed, Queues, NoPacket
<1>6. \A j \in Kinds : AnswersOf(j)' = AnswersOf(j) \cup (IF j = requests[sPacket].kind
                                                        THEN {last} ELSE {})
  <2> SUFFICES ASSUME NEW j \in Kinds
               PROVE  AnswersOf(j)' = AnswersOf(j) \cup (IF j = requests[sPacket].kind
                                                         THEN {last} ELSE {})
    OBVIOUS
  <2>1. \A i \in DOMAIN replies : i \in AnswersOf(j)' <=> i \in AnswersOf(j)
    BY <1>2, <1>4 DEF AnswersOf
  <2>2. last \in AnswersOf(j)' <=> j = requests[sPacket].kind
    BY <1>1, <1>2, <1>4 DEF AnswersOf
  <2> QED BY <1>3, <1>4, <2>1, <2>2 DEF AnswersOf
<1>7. \A j \in Kinds : /\ InHand(j) = IF j = requests[sPacket].kind THEN {sPacket} ELSE {}
                       /\ InHand(j)' = {}
  BY DEF InHand
<1>8. ASSUME deletePc # "deleted", NEW j \in Kinds PROVE InTurn(j)'
  <2>1. InTurn(j)
    BY <1>8 DEF IInv, OneAnswerEach
  <2>2. /\ AnswersOf(j) \subseteq DOMAIN replies
        /\ \A i \in AnswersOf(j) : replies'[i] = replies[i] /\ i < last /\ i # last
    BY <1>2 DEF AnswersOf, last
  <2>3. CASE j # requests[sPacket].kind
    <3>1. AnswersOf(j)' = AnswersOf(j) /\ InHand(j) = {} /\ InHand(j)' = {}
      BY <1>6, <1>7, <2>3
    <3>2. {replies'[i].packet : i \in AnswersOf(j)} = {replies[i].packet : i \in AnswersOf(j)}
      BY <2>2
    <3> QED BY <2>1, <2>2, <3>1, <3>2 DEF InTurn
  <2>4. CASE j = requests[sPacket].kind
    <3>1. AnswersOf(j)' = AnswersOf(j) \cup {last} /\ InHand(j) = {sPacket} /\ InHand(j)' = {}
      BY <1>6, <1>7, <2>4
    <3>2. replies'[last].packet = sPacket
      BY <1>1, <1>2
    <3>3. {replies'[i].packet : i \in AnswersOf(j)'}
            = {replies[i].packet : i \in AnswersOf(j)} \cup {sPacket}
      BY <2>2, <3>1, <3>2
    <3>4. ASSUME NEW i \in AnswersOf(j)', NEW l \in AnswersOf(j)', i < l
          PROVE  replies'[i].packet < replies'[l].packet
      <4>1. i \in AnswersOf(j)
        BY <1>2, <2>2, <3>1, <3>4 DEF last
      <4>2. CASE l = last
        BY <2>1, <2>2, <3>1, <3>2, <4>1, <4>2 DEF InTurn
      <4>3. CASE l # last
        BY <2>1, <2>2, <3>1, <4>1, <3>4, <4>3 DEF InTurn
      <4> QED BY <4>2, <4>3
    <3>5. ASSUME NEW i \in AnswersOf(j)', NEW n \in DOMAIN packets[j]
          PROVE  replies'[i].packet < packets[j][n]
      BY <2>1, <2>2, <3>1, <3>2 DEF InTurn
    <3>6. {replies'[i].packet : i \in AnswersOf(j)'} \cup Range(packets[j])
            = {p \in DOMAIN requests : requests[p].kind = j}
      BY <2>1, <3>1, <3>3 DEF InTurn
    <3>7. \A m, n \in DOMAIN packets[j] : m < n => packets[j][m] < packets[j][n]
      BY <2>1 DEF InTurn
    <3> QED BY <3>1, <3>4, <3>5, <3>6, <3>7 DEF InTurn
  <2> QED BY <2>3, <2>4
<1> QED BY <1>5, <1>8 DEF OneAnswerEach

\* The first request is one that was made.
LEMMA FrontTyped ==
  ASSUME Queues, NEW k \in Kinds, packets[k] # <<>>
  PROVE  /\ Head(packets[k]) \in DOMAIN requests
         /\ FirstOf(k) \in RequestType /\ FirstOf(k).dwSize \in Nat \ {0}
<1>1. 1 \in DOMAIN packets[k] /\ Head(packets[k]) = packets[k][1]
  BY LenProperties, EmptySeq DEF Queues
<1>2. Head(packets[k]) \in DOMAIN requests
  BY <1>1 DEF Queues
<1>3. FirstOf(k) \in RequestType
  BY <1>2, LenProperties, ElementOfSeq DEF Queues, FirstOf
<1> QED BY <1>2, <1>3 DEF RequestType

\* So it has a size.
LEMMA FrontSize == Queues /\ packets["read"] # <<>> => FirstOf("read").dwSize \in Nat
BY FrontTyped DEF Kinds

\* A packet pushed is first only in a queue that was empty.
LEMMA PushFront ==
  ASSUME IInv, NEW request \in Requests, ProcessData(request), NEW k \in Kinds, packets[k] # <<>>
  PROVE  packets'[k] # <<>> /\ FirstOf(k)' = FirstOf(k)
<1>1. /\ requests' = Append(requests, request)
      /\ packets' = [packets EXCEPT ![request.kind] =
                       Append(packets[request.kind], Len(requests) + 1)]
  BY DEF ProcessData, IInv, Typed, Queues
<1>2. packets[k] \in Seq(Nat) /\ Len(requests) + 1 \in Nat /\ request \in RequestType
  BY LenProperties, SerialAssumption DEF IInv, Typed, Queues
<1>3. packets'[k] # <<>> /\ Head(packets'[k]) = Head(packets[k])
  <2>1. packets'[k] \in {packets[k], Append(packets[k], Len(requests) + 1)}
    BY <1>1 DEF IInv, Typed, Queues
  <2> QED BY <1>2, <2>1, AppendProperties, HeadTailAppend
<1>4. Head(packets[k]) \in DOMAIN requests
  BY FrontTyped DEF IInv, Typed
<1>5. requests'[Head(packets[k])] = requests[Head(packets[k])]
  BY <1>1, <1>2, <1>4, AppendProperties, LenProperties DEF IInv, Typed, Queues
<1> QED BY <1>3, <1>5 DEF FirstOf

\* A step that leaves queues and answers alone.
LEMMA QueuesKept ==
  ASSUME IInv, UNCHANGED <<requests, packets, sPacket, replies>>,
         deletePc' # "deleted" => deletePc # "deleted",
         pc' = pc \/ pc \notin Answering \cup {"terminated"}
  PROVE  Queues' /\ OneAnswerEach'
<1>1. Queues'
  BY DEF IInv, Typed, Queues
<1>2. \A k \in Kinds : InTurn(k) => InTurn(k)'
  BY DEF AnswersOf, InHand, InTurn
<1> QED BY <1>1, <1>2 DEF IInv, OneAnswerEach

\* Bytes behind bytes behind bytes.
LEMMA Regroup ==
  ASSUME NEW a \in Seq(Bytes), NEW b \in Seq(Bytes), NEW c \in Seq(Bytes)
  PROVE  (a \o b) \o c = a \o (b \o c)
<1> DEFINE l == (a \o b) \o c
           r == a \o (b \o c)
<1>1. Len(a) \in Nat /\ Len(b) \in Nat /\ Len(c) \in Nat
  BY LenProperties
<1>2. /\ a \o b \in Seq(Bytes) /\ Len(a \o b) = Len(a) + Len(b)
      /\ \A i \in 1 .. Len(a) + Len(b) :
           (a \o b)[i] = IF i <= Len(a) THEN a[i] ELSE b[i - Len(a)]
      /\ b \o c \in Seq(Bytes) /\ Len(b \o c) = Len(b) + Len(c)
      /\ \A i \in 1 .. Len(b) + Len(c) :
           (b \o c)[i] = IF i <= Len(b) THEN b[i] ELSE c[i - Len(b)]
  BY ConcatProperties
<1>3. /\ l \in Seq(Bytes) /\ Len(l) = Len(a) + Len(b) + Len(c)
      /\ \A i \in 1 .. Len(a) + Len(b) + Len(c) :
           l[i] = IF i <= Len(a) + Len(b) THEN (a \o b)[i] ELSE c[i - (Len(a) + Len(b))]
  BY <1>1, <1>2, ConcatProperties
<1>4. /\ r \in Seq(Bytes) /\ Len(r) = Len(a) + (Len(b) + Len(c))
      /\ \A i \in 1 .. Len(a) + (Len(b) + Len(c)) :
           r[i] = IF i <= Len(a) THEN a[i] ELSE (b \o c)[i - Len(a)]
  BY <1>1, <1>2, ConcatProperties
<1> HIDE DEF l, r
<1>5. \A i \in 1 .. Len(a) + Len(b) + Len(c) : l[i] = r[i]
  <2> SUFFICES ASSUME NEW i \in 1 .. Len(a) + Len(b) + Len(c) PROVE l[i] = r[i]
    OBVIOUS
  <2>1. CASE i <= Len(a)
    BY <1>1, <1>2, <1>3, <1>4, <2>1
  <2>2. CASE i > Len(a) /\ i <= Len(a) + Len(b)
    <3>1. /\ i - Len(a) \in 1 .. Len(b) + Len(c) /\ i \in 1 .. Len(a) + Len(b)
          /\ i - Len(a) <= Len(b) /\ ~(i <= Len(a))
      BY <1>1, <2>2
    <3>2. l[i] = (a \o b)[i]
      BY <1>3, <2>2
    <3>4. r[i] = (b \o c)[i - Len(a)]
      BY <1>4, <3>1
    <3>3. (a \o b)[i] = b[i - Len(a)] /\ (b \o c)[i - Len(a)] = b[i - Len(a)]
      BY <1>2, <3>1
    <3> QED BY <3>2, <3>3, <3>4
  <2>3. CASE i > Len(a) + Len(b)
    <3>1. /\ i - Len(a) \in 1 .. Len(b) + Len(c) /\ ~(i - Len(a) <= Len(b)) /\ ~(i <= Len(a))
          /\ i - Len(a) - Len(b) = i - (Len(a) + Len(b))
      BY <1>1, <2>3
    <3>2. r[i] = (b \o c)[i - Len(a)] /\ l[i] = c[i - (Len(a) + Len(b))]
      BY <1>1, <1>3, <1>4, <2>3, <3>1
    <3>3. (b \o c)[i - Len(a)] = c[i - Len(a) - Len(b)]
      BY <1>2, <3>1
    <3> QED BY <3>1, <3>2, <3>3
  <2> QED BY <1>1, <2>1, <2>2, <2>3
<1>6. Len(l) = Len(r) /\ \A i \in 1 .. Len(l) : l[i] = r[i]
  BY <1>1, <1>3, <1>4, <1>5
<1>7. l = r
  BY <1>3, <1>4, <1>6, SeqEqual
<1> QED BY <1>7 DEF l, r

\* What ReadFile takes from the port is what it puts behind what was read.
LEMMA ReadFileMoves ==
  ASSUME IInv, pc = "comm", packets["read"] # <<>>, NEW lineError,
         ReadFile(FirstOf("read"), lineError)
  PROVE  /\ m_acReadBuffer' \in Seq(Bytes) /\ input' \in Seq(Bytes)
         /\ m_acReadBuffer' \o input' = m_acReadBuffer \o input
         /\ Len(m_acReadBuffer') <= FirstOf("read").dwSize
<1> DEFINE n == Available(FirstOf("read"))
           missing == FirstOf("read").dwSize - Len(m_acReadBuffer)
           read == SubSeq(input, 1, n)
           rest == SubSeq(input, n + 1, Len(input))
<1>1. /\ m_acReadBuffer \in Seq(Bytes) /\ input \in Seq(Bytes)
      /\ Len(m_acReadBuffer) \in Nat /\ Len(input) \in Nat
  BY LenProperties DEF IInv, Typed, Buffers
<1>2. FirstOf("read").dwSize \in Nat
  BY FrontTyped DEF IInv, Typed, Kinds
<1>3. missing \in Nat
  BY <1>1, <1>2 DEF IInv, Reading, Serving
<1>4. n \in 0 .. Len(input) /\ n <= missing
  BY <1>1, <1>3 DEF Available
<1>5. m_acReadBuffer' = m_acReadBuffer \o read /\ input' = rest
  BY DEF ReadFile
<1> HIDE DEF n
<1>6. read \in Seq(Bytes) /\ rest \in Seq(Bytes) /\ Len(read) = n
  <2>1. \A i \in 1 .. Len(input) : input[i] \in Bytes
    BY <1>1, ElementOfSeq
  <2> QED BY <1>1, <1>4, <2>1, SubSeqProperties
<1>7. read \o rest = input
  <2>1. SubSeq(input, 1, n) \o SubSeq(input, n + 1, Len(input)) = SubSeq(input, 1, Len(input))
    <3>1. 1 \in 1 .. Len(input) + 1 /\ n \in 1 - 1 .. Len(input) /\ Len(input) \in n .. Len(input)
      BY <1>1, <1>4
    <3> QED BY <1>1, <3>1, ConcatAdjacentSubSeq, Zenon
  <2> QED BY <1>1, <2>1, SubSeqFull
<1> HIDE DEF read, rest
<1>8. (m_acReadBuffer \o read) \o rest = m_acReadBuffer \o (read \o rest)
  BY <1>1, <1>6, Regroup
<1>9. m_acReadBuffer \o read \in Seq(Bytes) /\ Len(m_acReadBuffer \o read) = Len(m_acReadBuffer) + n
  BY <1>1, <1>6, ConcatProperties
<1> QED BY <1>1, <1>2, <1>4, <1>5, <1>6, <1>7, <1>8, <1>9

-----------------------------------------------------------------------------
(* Steps *)

\* A step that moves neither packet nor byte.
LEMMA QuietKeeps ==
  ASSUME IInv, UNCHANGED <<requests, packets, sPacket, replies>>,
         UNCHANGED <<m_acReadBuffer, input, received, delivered>>,
         deletePc' # "deleted" => deletePc # "deleted",
         pc' = pc \/ pc \notin Answering \cup {"terminated"},
         pc' \in Answering => pc' = pc, Serving' => Serving, Events', Joined'
  PROVE  IInv'
<1>1. Buffers'
  BY DEF IInv, Typed, Buffers
<1>2. Reading'
  BY DEF IInv, Reading, FirstOf, Answering
<1>3. Holding'
  BY DEF IInv, Holding
<1> QED BY <1>1, <1>2, <1>3, QueuesKept DEF IInv, Typed

\* An operation begins, or ends.
LEMMA SetTyped ==
  ASSUME Events, NEW k \in Kinds,
         NEW o \in [event : BOOLEAN, status : {"none", "pending", "done", "short", "aborted"}],
         SetOverlapped(k, o)
  PROVE  /\ overlapped' \in [Kinds -> [event : BOOLEAN,
              status : {"none", "pending", "done", "short", "aborted"}]]
         /\ overlapped'[k] = o
         /\ \A j \in Kinds \ {k} : overlapped'[j] = overlapped[j]
BY DEF Events, SetOverlapped

\* Waking moves nothing.
LEMMA WakeStep ==
  ASSUME IInv, WakeStop \/ \E k \in Kinds : WakeQueue(k) \/ WakeOverlapped(k)
  PROVE  IInv'
<1>1. /\ pc = "wait" /\ pc' \notin Answering /\ deletePc' = deletePc
      /\ UNCHANGED <<requests, packets, sPacket, replies>>
      /\ UNCHANGED <<m_acReadBuffer, input, received, delivered>>
  BY DEF WakeStop, WakeQueue, WakeOverlapped, Woken, queueVars, portVars, deleteVars,
     answerVars, Answering, Kinds
<1>2. Events'
  <2>1. /\ queueEvent' \in [Kinds -> BOOLEAN]
        /\ nError' = nError
    BY DEF WakeStop, WakeQueue, WakeOverlapped, queueVars, IInv, Typed, Events
  <2>2. overlapped' \in [Kinds -> [event : BOOLEAN,
                          status : {"none", "pending", "done", "short", "aborted"}]]
    <3>1. overlapped' = overlapped
            \/ \E k \in Kinds : overlapped' = [overlapped EXCEPT ![k].event = FALSE]
      BY DEF WakeStop, WakeQueue, WakeOverlapped
    <3> QED BY <3>1 DEF IInv, Typed, Events
  <2> QED BY <2>1, <2>2 DEF IInv, Typed, Events
<1>3. Joined'
  BY <1>1 DEF IInv, Joined
<1> QED BY <1>1, <1>2, <1>3, QuietKeeps DEF Serving, Answering

\* Nor does a timeout.
LEMMA TimeoutStep ==
  ASSUME IInv, NEW expired \in SUBSET Kinds, Timeout(expired)
  PROVE  IInv'
<1>1. /\ pc = "wait" /\ pc' = pc /\ deletePc' = deletePc
      /\ UNCHANGED <<requests, packets, sPacket, replies>>
      /\ UNCHANGED <<m_acReadBuffer, input, received, delivered>>
  BY DEF Timeout, queueVars, threadVars, deleteVars, answerVars
<1>2. Events'
  BY DEF Timeout, queueVars, threadVars, IInv, Typed, Events
<1>3. Joined'
  BY <1>1 DEF IInv, Joined
<1> QED BY <1>1, <1>2, <1>3, QuietKeeps DEF Serving, Answering

\* Nor do the steps of ThreadProc but those that read or answer.
LEMMA OperationStep ==
  ASSUME IInv, Write \/ Written \/ Read \/ Again \/ Check
  PROVE  IInv'
<1>1. /\ pc \in {"write", "written", "read", "again", "check"} /\ deletePc' = deletePc
      /\ pc' \notin Answering
      /\ UNCHANGED <<requests, packets, sPacket, replies>>
      /\ UNCHANGED <<m_acReadBuffer, input, received, delivered>>
  BY DEF Write, Written, Read, Again, Check, queueVars, portVars, deleteVars, answerVars,
     WriteFails, WriteCompletes, WritePends, Clear, WaitAgain, Answering
<1>2. Events'
  <2> USE DEF Kinds
  <2>1. queueEvent' = queueEvent
    BY DEF Write, Written, Read, Again, Check, queueVars
  <2>2. nError' \in {"none", "failed", "aborted"}
    BY DEF Write, Written, Read, Again, Check, IInv, Typed, Events, Clear, WaitAgain,
       ResultError, WriteFails, WriteCompletes, WritePends
  <2>3. \/ UNCHANGED overlapped
        \/ \E k \in Kinds, o \in {Begun, Ended("done"), Ended("short")} : SetOverlapped(k, o)
        \/ Check
    BY DEF Write, Written, Read, Again, WriteFails, WriteCompletes, WritePends,
       CommEventFails, CommEventAtOnce, CommEventPends
  <2>4. CASE Check
    <3>1. overlapped \in [Kinds -> [event : BOOLEAN,
                             status : {"none", "pending", "done", "short", "aborted"}]]
      BY DEF IInv, Typed, Events
    <3>2. overlapped' \in [Kinds -> [event : BOOLEAN,
                             status : {"none", "pending", "done", "short", "aborted"}]]
      <4>1. overlapped' = overlapped
            \/ \E v \in BOOLEAN : overlapped' = [overlapped EXCEPT !["read"].event = v]
        BY <2>4, <3>1 DEF Check
      <4> QED BY <3>1, <4>1
    <3> QED BY <2>1, <2>2, <3>2 DEF IInv, Typed, Events
  <2>5. CASE \E k \in Kinds, o \in {Begun, Ended("done"), Ended("short")} : SetOverlapped(k, o)
    BY <2>1, <2>2, <2>5, SetTyped DEF IInv, Typed, Events, Begun, Ended
  <2> QED BY <2>1, <2>2, <2>3, <2>4, <2>5 DEF IInv, Typed, Events
<1>3. Joined'
  BY <1>1 DEF IInv, Joined
<1> QED BY <1>1, <1>2, <1>3, QuietKeeps DEF Serving, Answering

\* A deletion begins; a write ends.
LEMMA BeginOrEndStep ==
  ASSUME IInv, DeleteBegin \/ \E full \in BOOLEAN : WriteEnds(full)
  PROVE  IInv'
<1>1. /\ UNCHANGED <<requests, packets, sPacket, replies, queueEvent, nError, pc>>
      /\ UNCHANGED <<m_acReadBuffer, input, received, delivered>>
  BY DEF DeleteBegin, WriteEnds, queueVars, threadVars, portVars, answerVars
<1>2. deletePc' = deletePc \/ (deletePc = "none" /\ deletePc' = "joining")
  BY DEF DeleteBegin, WriteEnds, deleteVars
<1>3. Events'
  <2>1. CASE DeleteBegin
    BY <1>1, <2>1 DEF DeleteBegin, IInv, Typed, Events
  <2>2. CASE \E full \in BOOLEAN : WriteEnds(full)
    BY <1>1, <2>2, SetTyped DEF WriteEnds, IInv, Typed, Events, Ended, Kinds
  <2> QED BY <2>1, <2>2
<1>4. Joined'
  BY <1>1, <1>2 DEF IInv, Joined
<1> QED BY <1>1, <1>2, <1>3, <1>4, QuietKeeps DEF Serving, Answering

\* A byte comes, behind all others.
LEMMA ReceiveStep ==
  ASSUME IInv, NEW b \in Bytes, Receive(b)
  PROVE  IInv'
<1>1. /\ UNCHANGED <<requests, packets, sPacket, replies, queueEvent, nError, pc, deletePc>>
      /\ UNCHANGED <<m_acReadBuffer, delivered>>
      /\ input' = Append(input, b) /\ received' = Append(received, b)
  BY DEF Receive, queueVars, threadVars, deleteVars, answerVars
<1>2. Buffers'
  BY <1>1, AppendProperties DEF IInv, Typed, Buffers
<1>3. Events'
  BY <1>1 DEF Receive, IInv, Typed, Events, Ended
<1>4. Reading' /\ Joined' /\ Holding'
  BY <1>1 DEF IInv, Reading, Joined, Serving, FirstOf, Holding
<1> QED BY <1>1, <1>2, <1>3, <1>4, QueuesKept DEF IInv, Typed

\* ReadFile moves bytes from the port to the buffer, or the case fails.
LEMMA CommStep ==
  ASSUME IInv, Comm
  PROVE  IInv'
<1>1. /\ pc = "comm" /\ pc' \notin Answering /\ deletePc' = deletePc
      /\ UNCHANGED <<requests, packets, sPacket, replies, queueEvent, received, delivered>>
      /\ \/ UNCHANGED <<m_acReadBuffer, input>>
         \/ /\ packets["read"] # <<>>
            /\ \E lineError \in BOOLEAN : ReadFile(FirstOf("read"), lineError)
  BY DEF Comm, ReadFile, Clear, queueVars, deleteVars, answerVars, FirstOf, Answering
<1>2. Joined' /\ Holding'
  BY <1>1 DEF IInv, Joined, Holding
<1>3. Events'
  <2>1. nError' \in {"none", "failed", "aborted"}
    BY DEF Comm, ReadFile, Clear, ResultError, IInv, Typed, Events
  <2>2. \/ UNCHANGED overlapped
        \/ \E o \in {Begun, Ended("done")} : SetOverlapped("read", o)
    BY DEF Comm, ReadFile
  <2>3. CASE \E o \in {Begun, Ended("done")} : SetOverlapped("read", o)
    BY <1>1, <2>1, <2>3, SetTyped DEF IInv, Typed, Events, Begun, Ended, Kinds
  <2> QED BY <1>1, <2>1, <2>2, <2>3 DEF IInv, Typed, Events
<1>4. Buffers' /\ Reading'
  <2>1. CASE UNCHANGED <<m_acReadBuffer, input>>
    BY <1>1, <2>1 DEF IInv, Typed, Buffers, Reading, Serving, FirstOf
  <2>2. CASE /\ packets["read"] # <<>>
             /\ \E lineError \in BOOLEAN : ReadFile(FirstOf("read"), lineError)
    BY <1>1, <2>2, ReadFileMoves DEF IInv, Typed, Buffers, Reading, FirstOf
  <2> QED BY <1>1, <2>1, <2>2
<1> QED BY <1>1, <1>2, <1>3, <1>4, QueuesKept DEF IInv, Typed, Answering

\* The first packet is taken, if there is one.
LEMMA ClearStep ==
  ASSUME IInv, ClearRead \/ ClearWrite
  PROVE  IInv'
<1> DEFINE k == IF pc = "clearRead" THEN "read" ELSE "write"
<1>1. /\ pc = (IF k = "read" THEN "clearRead" ELSE "clearWrite") /\ k \in Kinds
      /\ deletePc' = deletePc /\ Pop(k)
      /\ UNCHANGED <<overlapped, input, received, replies, delivered>>
      /\ \/ /\ packets[k] # <<>> /\ UNCHANGED <<nError, m_acReadBuffer>>
            /\ pc' = IF k = "read" THEN "answerRead" ELSE "answerWrite"
         \/ /\ packets[k] = <<>> /\ pc' = "wait" /\ nError' = "none"
            /\ m_acReadBuffer' = IF k = "read" THEN <<>> ELSE m_acReadBuffer
  BY DEF ClearRead, ClearWrite, ReadCleared, WriteCleared, WaitAgain, portVars, deleteVars,
     answerVars, Kinds
<1> HIDE DEF k
<1>2. /\ requests' = requests
      /\ queueEvent' = [queueEvent EXCEPT ![k] = queueEvent[k] \/ Len(packets[k]) > 1]
      /\ packets' = [packets EXCEPT ![k] = IF packets[k] = <<>> THEN packets[k]
                                           ELSE Tail(packets[k])]
      /\ sPacket' = IF packets[k] = <<>> THEN NoPacket ELSE Head(packets[k])
  BY <1>1 DEF Pop, Taken, IInv, Typed, Queues, Events
<1>3. sPacket = NoPacket
  BY <1>1 DEF IInv, OneAnswerEach, Answering
<1>4. Queues' /\ OneAnswerEach' /\ Holding'
  <2>1. CASE packets[k] = <<>>
    <3>1. packets' = packets /\ sPacket' = sPacket
      BY <1>1, <1>2, <1>3, <2>1 DEF IInv, Typed, Queues
    <3>2. Queues' /\ OneAnswerEach'
      BY <1>1, <1>2, <3>1, QueuesKept DEF Answering
    <3> QED BY <1>1, <2>1, <3>2 DEF Holding, Answering
  <2>2. CASE packets[k] # <<>>
    <3>1. pc' \in Answering
      BY <1>1, <2>2 DEF Answering
    <3>2. Queues' /\ OneAnswerEach' /\ sPacket' # NoPacket
      BY <1>1, <1>2, <1>3, <2>2, <3>1, TakeKeeps
    <3> QED BY <3>2 DEF Holding
  <2> QED BY <2>1, <2>2
<1>5. Events'
  BY <1>1, <1>2 DEF IInv, Typed, Events
<1>6. Buffers'
  <2>1. m_acReadBuffer' \in {m_acReadBuffer, <<>>}
    BY <1>1
  <2> QED BY <1>1, <2>1, EmptySeq DEF IInv, Typed, Buffers
<1>7. Joined'
  BY <1>1 DEF IInv, Joined
<1>8. Reading'
  <2>1. CASE k = "read" /\ packets[k] # <<>>
    BY <1>1, <2>1 DEF Reading
  <2>2. CASE k = "read" /\ packets[k] = <<>>
    <3>1. m_acReadBuffer' = <<>> /\ packets'[k] = <<>>
      BY <1>1, <1>2, <2>2 DEF IInv, Typed, Queues
    <3> QED BY <2>2, <3>1 DEF Reading
  <2>3. CASE k # "read"
    <3>1. packets'["read"] = packets["read"] /\ m_acReadBuffer' = m_acReadBuffer
          /\ Serving /\ pc # "answerRead"
      BY <1>1, <1>2, <2>3 DEF Serving, IInv, Typed, Queues, Kinds
    <3> QED BY <1>2, <3>1 DEF IInv, Reading, FirstOf
  <2> QED BY <2>1, <2>2, <2>3
<1> QED BY <1>4, <1>5, <1>6, <1>7, <1>8 DEF IInv, Typed

\* It is answered.
LEMMA AnswerStep ==
  ASSUME IInv, AnswerRead \/ AnswerWrite
  PROVE  IInv'
<1> DEFINE data == IF pc = "answerRead" THEN m_acReadBuffer ELSE <<>>
<1>1. /\ pc \in {"answerRead", "answerWrite"} /\ pc' = "wait" /\ nError' = "none"
      /\ deletePc' = deletePc /\ UNCHANGED <<overlapped, input, received, requests, packets,
                                            queueEvent>>
      /\ sPacket' = NoPacket /\ Reply(sPacket, nError, data)
      /\ m_acReadBuffer' = (IF pc = "answerRead" THEN <<>> ELSE m_acReadBuffer)
      /\ delivered' = (IF pc = "answerRead" THEN delivered \o m_acReadBuffer ELSE delivered)
  BY DEF AnswerRead, AnswerWrite, ReadCleared, WriteCleared, WaitAgain, queueVars, portVars,
     deleteVars
<1>2. /\ m_acReadBuffer \in Seq(Bytes) /\ delivered \in Seq(Bytes)
      /\ nError \in {"none", "failed", "aborted"} /\ data \in Seq(Bytes)
  BY EmptySeq DEF IInv, Typed, Buffers, Events
<1> HIDE DEF data
<1>3. Queues' /\ OneAnswerEach'
  <2>1. sPacket # NoPacket
    BY <1>1 DEF IInv, Holding, Answering
  <2> QED BY <1>1, <1>2, <2>1, SendKeeps
<1>4. Events'
  BY <1>1 DEF IInv, Typed, Events
<1>5. Buffers'
  <2>1. /\ delivered' \in {delivered, delivered \o m_acReadBuffer}
        /\ m_acReadBuffer' \in {m_acReadBuffer, <<>>}
    BY <1>1
  <2>2. delivered \o m_acReadBuffer \in Seq(Bytes) /\ <<>> \in Seq(Bytes)
    BY <1>2, EmptySeq, ConcatProperties
  <2> QED BY <1>1, <1>2, <2>1, <2>2 DEF IInv, Typed, Buffers
<1>6. Joined' /\ Holding'
  BY <1>1 DEF IInv, Joined, Holding, Answering
<1>7. Reading'
  <2>1. CASE pc = "answerRead"
    <3>1. m_acReadBuffer' = <<>> /\ Len(m_acReadBuffer') = 0
      BY <1>1, <2>1
    <3>2. packets'["read"] # <<>> => FirstOf("read")'.dwSize \in Nat
      <4>1. (Queues /\ packets["read"] # <<>> => FirstOf("read").dwSize \in Nat)'
        BY FrontSize, PTL
      <4> QED BY <1>3, <4>1
    <3> QED BY <3>1, <3>2 DEF Reading
  <2>2. CASE pc # "answerRead"
    <3>1. m_acReadBuffer' = m_acReadBuffer /\ Serving
      BY <1>1, <2>2 DEF Serving
    <3> QED BY <1>1, <2>2, <3>1 DEF IInv, Reading, FirstOf
  <2> QED BY <2>1, <2>2
<1> QED BY <1>3, <1>4, <1>5, <1>6, <1>7 DEF IInv, Typed

\* After the loop a packet left is taken ..
LEMMA ClosingStep ==
  ASSUME IInv, NEW k \in Kinds, Closing(k)
  PROVE  IInv'
<1>1. /\ pc \in {"closingRead", "closingWrite"} /\ deletePc' = deletePc
      /\ pc' \in {"closingRead", "closingWrite", "closed", "tellRead", "tellWrite"}
      /\ UNCHANGED <<requests, queueEvent, nError, overlapped, replies>>
      /\ UNCHANGED <<m_acReadBuffer, input, received, delivered>>
      /\ \/ /\ packets' = packets /\ sPacket' = NoPacket
            /\ pc' \in {"closingRead", "closingWrite", "closed"}
         \/ /\ packets[k] # <<>> /\ packets' = [packets EXCEPT ![k] = Tail(packets[k])]
            /\ sPacket' = Head(packets[k]) /\ pc' \in {"tellRead", "tellWrite"}
  BY DEF Closing, Taken, portVars, deleteVars, answerVars, IInv, Typed, Queues
<1>2. sPacket = NoPacket
  BY <1>1 DEF IInv, OneAnswerEach, Answering
<1>3. Queues' /\ OneAnswerEach' /\ Holding'
  <2>1. CASE /\ packets' = packets /\ sPacket' = NoPacket
             /\ pc' \in {"closingRead", "closingWrite", "closed"}
    <3>1. UNCHANGED <<packets, sPacket>>
      BY <1>2, <2>1
    <3>2. Queues' /\ OneAnswerEach'
      BY <1>1, <3>1, QueuesKept DEF Answering
    <3> QED BY <2>1, <3>2 DEF Holding, Answering
  <2>2. CASE /\ packets[k] # <<>> /\ packets' = [packets EXCEPT ![k] = Tail(packets[k])]
             /\ sPacket' = Head(packets[k]) /\ pc' \in {"tellRead", "tellWrite"}
    <3>1. pc' \in Answering
      BY <2>2 DEF Answering
    <3>2. Queues' /\ OneAnswerEach' /\ sPacket' # NoPacket
      BY <1>1, <1>2, <2>2, <3>1, TakeKeeps
    <3> QED BY <3>2 DEF Holding
  <2> QED BY <1>1, <2>1, <2>2
<1>4. Events' /\ Buffers'
  BY <1>1 DEF IInv, Typed, Events, Buffers
<1>5. Joined' /\ Reading'
  BY <1>1 DEF IInv, Joined, Reading, Serving
<1> QED BY <1>3, <1>4, <1>5 DEF IInv, Typed

\* .. and told.
LEMMA TellStep ==
  ASSUME IInv, NEW k \in Kinds, Tell(k)
  PROVE  IInv'
<1>1. /\ pc \in {"tellRead", "tellWrite"} /\ deletePc' = deletePc
      /\ pc' \in {"closingRead", "closingWrite"}
      /\ UNCHANGED <<requests, packets, queueEvent, nError, overlapped>>
      /\ UNCHANGED <<m_acReadBuffer, input, received, delivered>>
      /\ sPacket' = NoPacket /\ Reply(sPacket, "DEVICE_CLOSING", <<>>)
  BY DEF Tell, queueVars, portVars, deleteVars
<1>2. Queues' /\ OneAnswerEach'
  <2>1. sPacket # NoPacket /\ <<>> \in Seq(Bytes)
    BY <1>1, EmptySeq DEF IInv, Holding, Answering
  <2> QED BY <1>1, <2>1, SendKeeps
<1>3. Events' /\ Buffers'
  BY <1>1 DEF IInv, Typed, Events, Buffers
<1>4. Joined' /\ Reading' /\ Holding'
  BY <1>1 DEF IInv, Joined, Reading, Serving, Holding, Answering
<1> QED BY <1>2, <1>3, <1>4 DEF IInv, Typed

\* The thread has ended, and what was left is gone.
LEMMA DeleteStep ==
  ASSUME IInv, DeleteJoin \/ DeleteEnd
  PROVE  IInv'
<1>1. CASE DeleteJoin
  <2>1. /\ UNCHANGED <<requests, packets, sPacket, replies, queueEvent, nError, overlapped>>
        /\ UNCHANGED <<m_acReadBuffer, received, delivered>>
        /\ pc' = IF pc = "closed" THEN pc ELSE "terminated"
        /\ input' = <<>> /\ deletePc = "joining" /\ deletePc' = "closing"
        /\ pc' \in {"closed", "terminated"}
    BY <1>1 DEF DeleteJoin, queueVars, answerVars
  <2>2. Events' /\ Buffers'
    BY <2>1, EmptySeq DEF IInv, Typed, Events, Buffers
  <2>3. Joined' /\ Reading' /\ Holding'
    BY <2>1 DEF Joined, Reading, Serving, Holding, Answering
  <2>4. Queues'
    BY <2>1 DEF IInv, Typed, Queues
  <2>5. \A k \in Kinds : InTurn(k) => InTurn(k)'
    BY <2>1 DEF AnswersOf, InHand, InTurn
  <2>6. OneAnswerEach'
    BY <2>1, <2>5 DEF IInv, OneAnswerEach, Answering
  <2> QED BY <2>2, <2>3, <2>4, <2>6 DEF IInv, Typed
<1>2. CASE DeleteEnd
  <2>1. /\ UNCHANGED <<requests, sPacket, replies, queueEvent, nError, overlapped, pc>>
        /\ UNCHANGED <<m_acReadBuffer, input, received, delivered>>
        /\ packets' = [k \in Kinds |-> <<>>]
        /\ deletePc = "closing" /\ deletePc' = "deleted"
    BY <1>2 DEF DeleteEnd, Both, threadVars, portVars, answerVars
  <2>2. Queues'
    <3>1. packets' \in [Kinds -> Seq(Nat)] /\ \A k \in Kinds : DOMAIN packets'[k] = {}
      BY <2>1, EmptySeq
    <3> QED BY <2>1, <3>1 DEF IInv, Typed, Queues
  <2>3. Events' /\ Buffers'
    BY <2>1 DEF IInv, Typed, Events, Buffers
  <2>4. Joined' /\ Reading' /\ OneAnswerEach' /\ Holding'
    BY <2>1 DEF IInv, Joined, Reading, Serving, OneAnswerEach, Holding
  <2> QED BY <2>2, <2>3, <2>4 DEF IInv, Typed
<1> QED BY <1>1, <1>2

\* A packet is pushed.
LEMMA PushStep ==
  ASSUME IInv, NEW request \in Requests, ProcessData(request)
  PROVE  IInv'
<1>1. Typed' /\ Joined' /\ OneAnswerEach'
  BY PushKeeps
<1>2. pc' = pc /\ m_acReadBuffer' = m_acReadBuffer /\ sPacket' = sPacket
  BY DEF ProcessData, threadVars
<1>3. Reading'
  <2> SUFFICES ASSUME Serving, pc # "answerRead", packets'["read"] # <<>>
               PROVE  Len(m_acReadBuffer) <= FirstOf("read")'.dwSize
    <3>1. packets'["read"] = <<>> => packets["read"] = <<>>
      BY PushFront DEF Kinds
    <3> QED BY <1>2, <3>1 DEF IInv, Reading, Serving
  <2>1. CASE packets["read"] # <<>>
    BY <2>1, PushFront DEF IInv, Reading, Kinds
  <2>2. CASE packets["read"] = <<>>
    <3>1. Len(m_acReadBuffer) = 0
      BY <2>2 DEF IInv, Reading
    <3>2. (Queues /\ packets["read"] # <<>> => FirstOf("read").dwSize \in Nat)'
      BY FrontSize, PTL
    <3> QED BY <1>1, <3>1, <3>2 DEF Typed
  <2> QED BY <2>1, <2>2
<1>4. Holding'
  BY <1>2 DEF IInv, Holding
<1> QED BY <1>1, <1>3, <1>4 DEF IInv

\* The invariant in every reachable state.
LEMMA InvariantAlways == Spec => []IInv
<1>1. Init => IInv
  <2> SUFFICES ASSUME Init PROVE IInv
    OBVIOUS
  <2>1. /\ requests \in Seq(RequestType) /\ replies \in Seq(Answer)
        /\ packets \in [Kinds -> Seq(Nat)]
        /\ DOMAIN requests = {} /\ DOMAIN replies = {} /\ sPacket = NoPacket /\ NoPacket \in Nat
        /\ \A k \in Kinds : packets[k] = <<>> /\ DOMAIN packets[k] = {} /\ Range(packets[k]) = {}
    BY EmptySeq DEF Init, Both, Range, NoPacket
  <2>2. Queues
    BY <2>1 DEF Queues
  <2>3. Buffers
    BY EmptySeq DEF Init, Buffers
  <2>4. Events
    BY DEF Init, Events, Both
  <2>5. Reading /\ Joined /\ Holding
    BY <2>1 DEF Init, Reading, Joined, Kinds, Holding, Answering
  <2>6. OneAnswerEach
    BY <2>1 DEF OneAnswerEach, InTurn, InHand, AnswersOf
  <2> QED BY <2>2, <2>3, <2>4, <2>5, <2>6 DEF IInv, Typed
<1>2. IInv /\ [Next]_vars => IInv'
  <2> SUFFICES ASSUME IInv, [Next]_vars PROVE IInv'
    OBVIOUS
  <2>1. CASE \E request \in Requests : ProcessData(request)
    BY <2>1, PushStep
  <2>2. CASE ThreadProc
    BY <2>2, WakeStep, OperationStep, CommStep, ClearStep, AnswerStep, ClosingStep, TellStep
       DEF ThreadProc
  <2>3. CASE \E expired \in SUBSET Kinds : Timeout(expired)
    BY <2>3, TimeoutStep
  <2>4. CASE Delete
    BY <2>4, BeginOrEndStep, DeleteStep DEF Delete
  <2>5. CASE Port
    BY <2>5, ReceiveStep, BeginOrEndStep DEF Port
  <2>6. CASE UNCHANGED vars
    <3>1. /\ UNCHANGED <<requests, packets, sPacket, replies, deletePc, pc>>
          /\ UNCHANGED <<m_acReadBuffer, input, received, delivered>>
          /\ UNCHANGED <<queueEvent, nError, overlapped>>
      BY <2>6 DEF vars, queueVars, threadVars, portVars, deleteVars, answerVars
    <3>2. Events' /\ Joined'
      BY <3>1 DEF IInv, Typed, Events, Joined
    <3> QED BY <3>1, <3>2, QuietKeeps DEF Serving
  <2> QED BY <2>1, <2>2, <2>3, <2>4, <2>5, <2>6 DEF Next
<1> QED BY <1>1, <1>2, PTL DEF Spec

\* Packets are answered once each and in turn: OneAnswerEach, for any requests,
\* and whatever the port, the timeouts and the destructor do.
THEOREM AnsweredInTurn == Spec => []OneAnswerEach
BY InvariantAlways, PTL DEF IInv

-----------------------------------------------------------------------------
(* Bytes *)

\* Bytes are only moved on, from the port to the buffer and to the clients.
LEMMA NextKeepsBytes ==
  ASSUME IInv, NoByteLost, [Next]_vars
  PROVE  NoByteLost'
<1>1. /\ m_acReadBuffer \in Seq(Bytes) /\ input \in Seq(Bytes)
      /\ received \in Seq(Bytes) /\ delivered \in Seq(Bytes)
  BY DEF IInv, Typed, Buffers
<1>2. CASE /\ UNCHANGED <<m_acReadBuffer, input, received, delivered>>
           /\ Serving' => Serving
  BY <1>2 DEF NoByteLost, Serving
<1>3. CASE \E b \in Bytes : Receive(b)
  <2>1. PICK b \in Bytes : Receive(b)
    BY <1>3
  <2>2. /\ pc' = pc /\ UNCHANGED <<m_acReadBuffer, delivered>>
        /\ input' = Append(input, b) /\ received' = Append(received, b)
    BY <2>1 DEF Receive, threadVars, answerVars
  <2>3. /\ input' = input \o <<b>> /\ received' = received \o <<b>> /\ <<b>> \in Seq(Bytes)
    BY <1>1, <2>2, AppendIsConcat
  <2>4. delivered \o m_acReadBuffer \in Seq(Bytes)
    BY <1>1, ConcatProperties
  <2>5. ((delivered \o m_acReadBuffer) \o input) \o <<b>>
          = (delivered \o m_acReadBuffer) \o (input \o <<b>>)
    BY <1>1, <2>3, <2>4, Regroup
  <2> QED BY <2>2, <2>3, <2>5 DEF NoByteLost
<1>4. CASE Comm
  <2>1. /\ pc = "comm" /\ UNCHANGED <<received, delivered>>
        /\ \/ UNCHANGED <<m_acReadBuffer, input>>
           \/ /\ packets["read"] # <<>>
              /\ \E lineError \in BOOLEAN : ReadFile(FirstOf("read"), lineError)
    BY <1>4 DEF Comm, answerVars, FirstOf
  <2>2. /\ m_acReadBuffer' \in Seq(Bytes) /\ input' \in Seq(Bytes)
        /\ m_acReadBuffer' \o input' = m_acReadBuffer \o input
    BY <1>1, <2>1, ReadFileMoves
  <2>3. /\ (delivered \o m_acReadBuffer) \o input = delivered \o (m_acReadBuffer \o input)
        /\ (delivered \o m_acReadBuffer') \o input' = delivered \o (m_acReadBuffer' \o input')
    <3>1. (delivered \o m_acReadBuffer) \o input = delivered \o (m_acReadBuffer \o input)
      BY <1>1, Regroup
    <3>2. PICK x \in Seq(Bytes), y \in Seq(Bytes) : x = m_acReadBuffer' /\ y = input'
      BY <2>2
    <3>3. PICK z \in Seq(Bytes) : z = delivered
      BY <1>1
    <3>4. (z \o x) \o y = z \o (x \o y)
      BY Regroup, Zenon
    <3> QED BY <3>1, <3>2, <3>3, <3>4
  <2> QED BY <2>1, <2>2, <2>3 DEF NoByteLost
<1>5. CASE ClearRead \/ AnswerRead
  <2>1. /\ pc \in {"clearRead", "answerRead"} /\ UNCHANGED <<received, input>>
        /\ \/ UNCHANGED <<m_acReadBuffer, delivered>>
           \/ /\ pc = "clearRead" /\ packets["read"] = <<>>
              /\ m_acReadBuffer' = <<>> /\ delivered' = delivered
           \/ m_acReadBuffer' = <<>> /\ delivered' = delivered \o m_acReadBuffer
    BY <1>5 DEF ClearRead, AnswerRead, ReadCleared, answerVars, portVars
  <2>2. CASE UNCHANGED <<m_acReadBuffer, delivered>>
    BY <2>1, <2>2 DEF NoByteLost
  <2>3. CASE /\ pc = "clearRead" /\ packets["read"] = <<>>
             /\ m_acReadBuffer' = <<>> /\ delivered' = delivered
    BY <2>1, <2>3 DEF IInv, Reading, Serving, NoByteLost
  <2>4. CASE m_acReadBuffer' = <<>> /\ delivered' = delivered \o m_acReadBuffer
    <3>1. delivered' \o m_acReadBuffer' = delivered \o m_acReadBuffer
      BY <1>1, <2>4, ConcatEmptySeq, ConcatProperties
    <3> QED BY <2>1, <3>1 DEF NoByteLost
  <2> QED BY <2>1, <2>2, <2>3, <2>4
<1>6. CASE DeleteJoin
  BY <1>6 DEF DeleteJoin, NoByteLost
<1>7. CASE \E request \in Requests : ProcessData(request)
  BY <1>2, <1>7 DEF ProcessData, threadVars, portVars, answerVars, Serving
<1>8. CASE \/ WakeStop \/ \E k \in Kinds : WakeQueue(k) \/ WakeOverlapped(k)
           \/ \E k \in Kinds : Closing(k) \/ Tell(k)
  BY <1>2, <1>8
     DEF WakeStop, WakeQueue, WakeOverlapped, Woken, Closing, Tell, portVars, answerVars, Serving
<1>9. CASE Write \/ Written \/ Read \/ Again \/ Check \/ ClearWrite \/ AnswerWrite
  BY <1>2, <1>9
     DEF Write, Written, Read, Again, Check, ClearWrite, AnswerWrite, portVars, answerVars,
         Serving
<1>10. CASE \/ \E expired \in SUBSET Kinds : Timeout(expired)
            \/ \E full \in BOOLEAN : WriteEnds(full)
            \/ DeleteBegin \/ DeleteEnd \/ UNCHANGED vars
  BY <1>2, <1>10
     DEF Timeout, WriteEnds, DeleteBegin, DeleteEnd, vars, threadVars, portVars, answerVars, Serving
<1> QED BY <1>3, <1>4, <1>5, <1>6, <1>7, <1>8, <1>9, <1>10 DEF Next, ThreadProc, Delete, Port

\* Every byte received is with a client, in the buffer or in the port, in
\* order: NoByteLost, for any bytes, sizes and stop characters.
THEOREM BytesInOrder == Spec => []NoByteLost
<1>1. Init => NoByteLost
  <2> SUFFICES ASSUME Init PROVE NoByteLost
    OBVIOUS
  <2>1. <<>> \in Seq(Bytes)
    BY EmptySeq
  <2>2. <<>> \o <<>> = <<>>
    BY <2>1, ConcatEmptySeq
  <2> QED BY <2>2 DEF Init, NoByteLost
<1> QED BY <1>1, InvariantAlways, NextKeepsBytes, PTL DEF Spec

-----------------------------------------------------------------------------
(* Waking *)

\* Something will wake the thread for the packets of kind k.
Attended(k) ==
  \/ queueEvent[k] \/ overlapped[k].event
  \/ IF k = "write" THEN writes # <<>> ELSE commWait

\* The cases of the loop that serve packets of kind k.
Handling(k) == IF k = "write" THEN {"write", "written", "clearWrite"}
               ELSE {"read", "comm", "again", "check", "clearRead"}

Awake ==
  /\ writes \in Seq(Nat)
  /\ Serving => \A k \in Kinds :
       packets[k] # <<>> /\ pc \notin Handling(k) => Attended(k)
  /\ pc \in {"answerRead", "answerWrite"} => \A k \in Kinds :
       packets[k] # <<>> => Attended(k)
  /\ pc = "check" => commWait \/ overlapped["read"].event

\* One packet, taken, leaves none.
LEMMA OneLeft ==
  ASSUME NEW s \in Seq(Nat), s # <<>>, ~(Len(s) > 1)
  PROVE  Tail(s) = <<>>
<1>1. Len(s) \in Nat /\ Len(s) # 0 /\ Tail(s) \in Seq(Nat) /\ Len(Tail(s)) = Len(s) - 1
  BY LenProperties, EmptySeq, HeadTailProperties
<1>2. Len(Tail(s)) = 0
  BY <1>1
<1> QED BY <1>1, <1>2, EmptySeq

\* The first packet of t, put behind s.
LEMMA FirstAppended ==
  ASSUME NEW s \in Seq(Nat), NEW t \in Seq(Nat), t # <<>>
  PROVE  Append(s, Head(t)) # <<>>
<1>1. Head(t) \in Nat
  BY HeadTailProperties
<1> QED BY <1>1, AppendProperties

\* The port writes packets.
LEMMA WritesTyped ==
  ASSUME IInv, writes \in Seq(Nat), [Next]_vars
  PROVE  writes' \in Seq(Nat)
<1>1. CASE Write
  <2>1. packets["write"] # <<>> => Append(writes, Head(packets["write"])) \in Seq(Nat)
    BY HeadTailProperties, AppendProperties DEF IInv, Typed, Queues, Kinds
  <2> QED BY <1>1, <2>1 DEF Write, WriteFails, WriteCompletes, WritePends
<1>2. CASE \E full \in BOOLEAN : WriteEnds(full)
  BY <1>2, HeadTailProperties DEF WriteEnds
<1>3. CASE \/ \E request \in Requests : ProcessData(request)
           \/ WakeStop \/ \E k \in Kinds : WakeQueue(k) \/ WakeOverlapped(k)
           \/ \E k \in Kinds : Closing(k) \/ Tell(k)
           \/ Written \/ Read \/ Comm \/ Again \/ Check
           \/ ClearRead \/ AnswerRead \/ ClearWrite \/ AnswerWrite
  BY <1>3 DEF ProcessData, WakeStop, WakeQueue, WakeOverlapped, Closing, Tell, Written, Read,
     Comm, Again, Check, ClearRead, AnswerRead, ClearWrite, AnswerWrite, portVars
<1>4. CASE \/ \E expired \in SUBSET Kinds : Timeout(expired)
           \/ Delete \/ (\E b \in Bytes : Receive(b)) \/ UNCHANGED vars
  <2>1. writes' = writes \/ writes' = <<>>
    BY <1>4 DEF Timeout, Delete, DeleteBegin, DeleteJoin, DeleteEnd, Receive, vars, portVars
  <2> QED BY <2>1, EmptySeq
<1> QED BY <1>1, <1>2, <1>3, <1>4 DEF Next, ThreadProc, Port

\* Whatever ends the attention of one event begins that of another.
LEMMA NextKeepsAwake ==
  ASSUME IInv, Awake, [Next]_vars
  PROVE  Awake'
<1>0. /\ writes' \in Seq(Nat) /\ packets \in [Kinds -> Seq(Nat)]
      /\ queueEvent \in [Kinds -> BOOLEAN]
      /\ overlapped \in [Kinds -> [event : BOOLEAN,
                                  status : {"none", "pending", "done", "short", "aborted"}]]
  BY WritesTyped DEF Awake, IInv, Typed, Queues, Events
<1>01. packets["write"] \in Seq(Nat) /\ packets["read"] \in Seq(Nat) /\ writes \in Seq(Nat)
  BY <1>0 DEF Awake, Kinds
<1> USE <1>0 DEF Awake, Serving, Attended, Handling, Kinds
<1>1. CASE \E request \in Requests : ProcessData(request)
  <2>1. PICK request \in Requests : ProcessData(request)
    BY <1>1
  <2>2. request.kind \in Kinds
    BY SerialAssumption DEF RequestType
  <2>3. PICK k \in Kinds : k = request.kind
    BY <2>2
  <2>4. /\ \A j \in Kinds \ {k} : packets'[j] = packets[j]
        /\ queueEvent' = [queueEvent EXCEPT ![k] = queueEvent[k] \/ packets[k] = <<>>]
        /\ UNCHANGED <<pc, overlapped, writes, commWait>>
    BY <2>1, <2>3 DEF ProcessData, threadVars, portVars
  <2>5. \A j \in Kinds : packets'[j] # <<>> => packets[j] # <<>> \/ queueEvent'[j]
    BY <2>4
  <2>6. \A j \in Kinds : queueEvent[j] => queueEvent'[j]
    BY <2>4
  <2> QED BY <2>4, <2>5, <2>6
<1>2. CASE \/ WakeStop \/ \E k \in Kinds : WakeQueue(k) \/ WakeOverlapped(k)
           \/ \E k \in Kinds : Closing(k) \/ Tell(k)
  <2>1. CASE WakeStop
    BY <2>1 DEF WakeStop
  <2>2. ASSUME NEW k \in Kinds, WakeQueue(k) PROVE Awake'
    BY <2>2 DEF WakeQueue, Woken, portVars
  <2>3. ASSUME NEW k \in Kinds, WakeOverlapped(k) PROVE Awake'
    BY <2>3 DEF WakeOverlapped, Woken, queueVars, portVars
  <2>4. ASSUME NEW k \in Kinds, Closing(k) \/ Tell(k) PROVE Awake'
    BY <2>4 DEF Closing, Tell
  <2> QED BY <1>2, <2>1, <2>2, <2>3, <2>4
<1>3. CASE Write \/ Written
  <2>1. packets["write"] # <<>> => Append(writes, Head(packets["write"])) # <<>>
    BY <1>01, FirstAppended
  <2>2. CASE Written
    BY <2>2 DEF Written, Clear, queueVars, portVars
  <2>3. CASE Write
    <3>1. /\ UNCHANGED <<packets, queueEvent, commWait>> /\ pc = "write"
          /\ \/ pc' = "clearWrite"
             \/ /\ packets["write"] # <<>> /\ pc' = "wait"
                /\ writes' = Append(writes, Head(packets["write"]))
      BY <2>3 DEF Write, WriteFails, WriteCompletes, WritePends, Clear, WaitAgain, queueVars
    <3>2. overlapped'["read"] = overlapped["read"]
      BY <2>3 DEF Write, WriteFails, WriteCompletes, WritePends, SetOverlapped
    <3> QED BY <2>1, <3>1, <3>2
  <2> QED BY <1>3, <2>2, <2>3
<1>4. CASE Read \/ Again \/ Check
  <2>1. /\ UNCHANGED <<packets, queueEvent, writes>> /\ pc \in Handling("read")
        /\ \/ pc' = "clearRead"
           \/ pc' \in {"wait", "check"} /\ (commWait' \/ overlapped'["read"].event)
    <3>1. CASE Read
      BY <3>1 DEF Read, CommEventFails, CommEventAtOnce, CommEventPends, queueVars,
         SetOverlapped, Clear, WaitAgain, Begun, Ended
    <3>2. CASE Again
      BY <3>2 DEF Again, CommEventFails, CommEventAtOnce, CommEventPends, queueVars,
         SetOverlapped, Clear, WaitAgain, Begun, Ended
    <3>3. CASE Check
      BY <3>3 DEF Check, queueVars, portVars, Clear, WaitAgain
    <3> QED BY <1>4, <3>1, <3>2, <3>3
  <2>2. overlapped'["write"] = overlapped["write"]
    BY <1>4 DEF Read, Again, Check, CommEventFails, CommEventAtOnce, CommEventPends, SetOverlapped
  <2> QED BY <2>1, <2>2
<1>5. CASE Comm
  BY <1>5 DEF Comm, ReadFile, queueVars, SetOverlapped, Clear, Begun, Ended
<1>6. CASE ClearRead \/ ClearWrite
  <2> DEFINE k == IF pc = "clearRead" THEN "read" ELSE "write"
  <2>1. /\ pc \in Handling(k) /\ k \in Kinds /\ Pop(k)
        /\ pc' \in {"wait", "answerRead", "answerWrite"}
        /\ UNCHANGED <<overlapped, writes, commWait>>
    BY <1>6 DEF ClearRead, ClearWrite, ReadCleared, WriteCleared, WaitAgain, portVars
  <2> HIDE DEF k
  <2>2. /\ queueEvent' = [queueEvent EXCEPT ![k] = queueEvent[k] \/ Len(packets[k]) > 1]
        /\ packets' = [packets EXCEPT ![k] = IF packets[k] = <<>> THEN packets[k]
                                             ELSE Tail(packets[k])]
    BY <2>1 DEF Pop
  <2>3. packets[k] # <<>> /\ ~(Len(packets[k]) > 1) => Tail(packets[k]) = <<>>
    BY <1>01, <2>1, OneLeft
  <2>4. packets'[k] # <<>> => queueEvent'[k]
    BY <2>1, <2>2, <2>3
  <2>5. \A j \in Kinds \ {k} : packets'[j] = packets[j] /\ queueEvent'[j] = queueEvent[j]
    BY <2>2
  <2>6. \A j \in Kinds \ {k} : pc \notin Handling(j)
    BY <2>1
  <2>7. Serving
    BY <2>1
  <2> QED BY <2>1, <2>4, <2>5, <2>6, <2>7
<1>7. CASE \E expired \in SUBSET Kinds : Timeout(expired)
  <2>1. PICK expired \in SUBSET Kinds : Timeout(expired)
    BY <1>7
  <2>2. PICK aborted : aborted = {k \in Cancelled(expired) :
                                    IF k = "write" THEN writes # <<>> ELSE commWait}
    OBVIOUS
  <2>3. /\ UNCHANGED <<packets, queueEvent, pc>> /\ pc = "wait"
        /\ overlapped' = [k \in Kinds |->
             IF k \in aborted THEN [event |-> TRUE, status |-> "aborted"] ELSE overlapped[k]]
        /\ writes' = IF "write" \in aborted THEN <<>> ELSE writes
        /\ commWait' = (commWait /\ "read" \notin aborted)
    BY <2>1, <2>2 DEF Timeout, queueVars, threadVars
  <2> QED BY <2>3
<1>8. CASE Delete
  BY <1>8 DEF Delete, DeleteBegin, DeleteJoin, DeleteEnd, IInv, Joined, queueVars, threadVars, portVars
<1>9. CASE \E b \in Bytes : Receive(b)
  BY <1>9 DEF Receive, Ended, queueVars, threadVars
<1>10. CASE \E full \in BOOLEAN : WriteEnds(full)
  BY <1>10 DEF WriteEnds, SetOverlapped, Ended, queueVars, threadVars
<1>11. CASE UNCHANGED vars
  BY <1>11 DEF vars, queueVars, threadVars, portVars
<1>12. CASE AnswerRead \/ AnswerWrite
  BY <1>12 DEF AnswerRead, AnswerWrite, ReadCleared, WriteCleared, WaitAgain, queueVars, portVars
<1> QED BY <1>1, <1>2, <1>3, <1>4, <1>5, <1>6, <1>7, <1>8, <1>9, <1>10, <1>11,
        <1>12 DEF Next, ThreadProc, Port

\* With a packet queued the thread waits only for what will come: QueueNotForgotten,
\* however events, completions and the answers between them meet.
THEOREM QueueAttended == Spec => []QueueNotForgotten
<1>1. Init => Awake
  BY EmptySeq DEF Init, Awake, Both, Kinds
<1>2. Awake => QueueNotForgotten
  BY DEF Awake, QueueNotForgotten, Attended, Serving, Handling
<1> QED BY <1>1, <1>2, InvariantAlways, NextKeepsAwake, PTL DEF Spec

-----------------------------------------------------------------------------
(* Timeouts *)

\* The packet of kind k being served has a timeout.
Timed(k) == packets[k] # <<>> /\ FirstOf(k).dwTimeout

\* The operation of kind k was aborted, and its event still tells so.
Aborted(k) == overlapped[k].event /\ overlapped[k].status = "aborted"

\* The timeout of kind k runs: that of a packet still queued.
Timing(k) == duration[k] /\ pc # (IF k = "write" THEN "answerWrite" ELSE "answerRead")

\* Only a packet that is timed has its operation aborted, and no case takes
\* what it finds of an earlier one for that.
Abortions ==
  /\ duration \in [Kinds -> BOOLEAN]
  /\ Serving =>
       /\ \A k \in Kinds : Timing(k) \/ Aborted(k) => Timed(k)
       /\ pc = "written" /\ overlapped["write"].status = "aborted" => Timed("write")
       /\ pc = "comm" /\ overlapped["read"].status = "aborted" => Timed("read")
       /\ pc = "clearWrite" /\ nError = "aborted" => Timed("write")
       /\ pc = "clearRead" /\ nError = "aborted" => Timed("read")
       /\ pc \in {"written", "clearWrite"} => ~Aborted("write")
       /\ pc \in {"comm", "clearRead"} => ~Aborted("read")
       /\ pc \in {"again", "check"} => overlapped["read"].status # "aborted"
       /\ pc \in {"answerRead", "answerWrite"} /\ nError = "aborted" =>
            requests[sPacket].dwTimeout
  /\ AbortedOnlyIfTimed

\* A step that leaves the queues alone leaves what is timed.
LEMMA TimedKept ==
  ASSUME UNCHANGED <<requests, packets>>, NEW k \in Kinds
  PROVE  Timed(k)' <=> Timed(k)
BY DEF Timed, FirstOf

\* Answers stay, and the packets they are for.
LEMMA AnswersStay ==
  ASSUME AbortedOnlyIfTimed, UNCHANGED <<requests, replies>>
  PROVE  AbortedOnlyIfTimed'
BY DEF AbortedOnlyIfTimed

\* One answer more, with an error of its own or of what was timed.
LEMMA AnswerKeepsTimed ==
  ASSUME IInv, AbortedOnlyIfTimed, NEW error, NEW data, Queues', requests' = requests,
         Reply(sPacket, error, data), error = "aborted" => requests[sPacket].dwTimeout
  PROVE  AbortedOnlyIfTimed'
<1> DEFINE answer == [packet |-> sPacket, nError |-> error, data |-> data]
<1>1. replies \in Seq(Answer) /\ replies' = Append(replies, answer) /\ replies' \in Seq(Answer)
  BY DEF IInv, Typed, Queues, Reply
<1>2. answer.packet = sPacket /\ answer.nError = error
  OBVIOUS
<1>3. answer \in Answer
  <2>1. Len(replies') = Len(replies) + 1 /\ replies'[Len(replies) + 1] = answer
    BY <1>1
  <2>2. Len(replies) + 1 \in 1 .. Len(replies')
    BY <1>1, <2>1, LenProperties
  <2> QED BY <1>1, <2>1, <2>2, ElementOfSeq
<1> HIDE DEF answer
<1>4. /\ Len(replies) \in Nat /\ Len(replies') = Len(replies) + 1
      /\ \A i \in 1 .. Len(replies) : replies'[i] = replies[i]
      /\ replies'[Len(replies) + 1] = answer
  BY <1>1, <1>3, AppendProperties, LenProperties
<1>5. error = "aborted" => requests[sPacket].dwTimeout
  OBVIOUS
<1>6. ASSUME NEW i \in 1 .. Len(replies'), replies'[i].nError = "aborted"
      PROVE  requests[replies'[i].packet].dwTimeout
  <2>1. CASE i \in 1 .. Len(replies)
    BY <1>4, <1>6, <2>1 DEF AbortedOnlyIfTimed
  <2>2. CASE i = Len(replies) + 1
    BY <1>2, <1>4, <1>5, <1>6, <2>2
  <2> QED BY <1>4, <2>1, <2>2
<1> QED BY <1>6 DEF AbortedOnlyIfTimed

\* The steps of the thread's operations.
LEMMA OperationAborts ==
  ASSUME IInv, Abortions, Write \/ Written \/ Read \/ Comm \/ Again \/ Check
  PROVE  Abortions'
<1>1. /\ UNCHANGED <<requests, packets, replies>>
      /\ pc \in {"write", "written", "read", "comm", "again", "check"} /\ Serving
  BY DEF Write, Written, Read, Comm, Again, Check, queueVars, answerVars, Serving
<1>2. AbortedOnlyIfTimed' /\ \A k \in Kinds : Timed(k)' <=> Timed(k)
  BY <1>1, TimedKept, AnswersStay DEF Abortions
<1>3. overlapped \in [Kinds -> [event : BOOLEAN,
                        status : {"none", "pending", "done", "short", "aborted"}]]
  BY DEF IInv, Typed, Events
<1> USE DEF Kinds
<1>4. CASE Write
  <2>1. CASE packets["write"] = <<>>
    <3>1. /\ pc' = "clearWrite" /\ nError' = "none" /\ UNCHANGED <<overlapped, duration>>
      BY <1>4, <2>1 DEF Write, Clear
    <3>2. ~Timed("write")
      BY <2>1 DEF Timed
    <3> QED BY <1>1, <1>2, <3>1, <3>2 DEF Abortions, Aborted, Timing, Serving
  <2>2. CASE packets["write"] # <<>>
    <3>1. /\ \E o \in {Begun, Ended("done"), Ended("short")} : SetOverlapped("write", o)
          /\ \/ /\ pc' = "clearWrite" /\ nError' \in {"failed", "none"} /\ duration' = duration
             \/ /\ pc' = "wait"
                /\ duration' = [duration EXCEPT !["write"] = FirstOf("write").dwTimeout]
      BY <1>4, <2>2 DEF Write, WriteFails, WriteCompletes, WritePends, Clear, WaitAgain, FirstOf
    <3>2. ~Aborted("write")' /\ overlapped'["read"] = overlapped["read"]
      BY <1>3, <3>1 DEF SetOverlapped, Begun, Ended, Aborted
    <3>3. FirstOf("write").dwTimeout \in BOOLEAN
      BY <2>2, FrontTyped DEF IInv, Typed, RequestType
    <3>4. FirstOf("write").dwTimeout => Timed("write")
      BY <2>2 DEF Timed
    <3> QED BY <1>1, <1>2, <3>1, <3>2, <3>3, <3>4 DEF Abortions, Aborted, Timing, Serving
  <2> QED BY <2>1, <2>2
<1>5. CASE Written
  <2>1. /\ pc = "written" /\ pc' = "clearWrite" /\ UNCHANGED <<overlapped, duration>>
        /\ nError' = "aborted" => overlapped["write"].status = "aborted"
    BY <1>3, <1>5 DEF Written, Clear, ResultError
  <2> QED BY <1>1, <1>2, <2>1 DEF Abortions, Aborted, Timing, Serving
<1>6. CASE Read
  <2>1. CASE packets["read"] = <<>>
    <3>1. /\ pc' = "clearRead" /\ nError' = "none" /\ UNCHANGED <<overlapped, duration>>
      BY <1>6, <2>1 DEF Read, Clear
    <3>2. ~Timed("read")
      BY <2>1 DEF Timed
    <3> QED BY <1>1, <1>2, <3>1, <3>2 DEF Abortions, Aborted, Timing, Serving
  <2>2. CASE packets["read"] # <<>>
    <3>1. /\ \E o \in {Begun, Ended("done")} : SetOverlapped("read", o)
          /\ \/ /\ pc' = "clearRead" /\ nError' = "failed" /\ duration' = duration
             \/ /\ pc' = "wait"
                /\ duration' = [duration EXCEPT !["read"] = FirstOf("read").dwTimeout]
      BY <1>6, <2>2 DEF Read, CommEventFails, CommEventAtOnce, CommEventPends, StartTimer,
         Clear, WaitAgain, FirstOf
    <3>2. ~Aborted("read")' /\ overlapped'["write"] = overlapped["write"]
      BY <1>3, <3>1 DEF SetOverlapped, Begun, Ended, Aborted
    <3>3. FirstOf("read").dwTimeout \in BOOLEAN
      BY <2>2, FrontTyped DEF IInv, Typed, RequestType
    <3>4. FirstOf("read").dwTimeout => Timed("read")
      BY <2>2 DEF Timed
    <3> QED BY <1>1, <1>2, <3>1, <3>2, <3>3, <3>4 DEF Abortions, Aborted, Timing, Serving
  <2> QED BY <2>1, <2>2
<1>7. CASE Comm
  <2>1. /\ pc = "comm" /\ duration' = duration
        /\ \/ /\ pc' = "clearRead" /\ overlapped' = overlapped
              /\ nError' = "aborted" => overlapped["read"].status = "aborted"
           \/ /\ pc' \in {"clearRead", "again"}
              /\ \E o \in {Begun, Ended("done")} : SetOverlapped("read", o)
              /\ pc' = "clearRead" => nError' # "aborted"
    BY <1>3, <1>7 DEF Comm, ReadFile, Clear, ResultError
  <2>2. CASE /\ pc' = "clearRead" /\ overlapped' = overlapped
             /\ nError' = "aborted" => overlapped["read"].status = "aborted"
    BY <1>1, <1>2, <2>1, <2>2 DEF Abortions, Aborted, Timing, Serving
  <2>3. CASE /\ \E o \in {Begun, Ended("done")} : SetOverlapped("read", o)
             /\ pc' \in {"clearRead", "again"} /\ (pc' = "clearRead" => nError' # "aborted")
    <3>1. /\ overlapped'["read"].status # "aborted" /\ overlapped'["write"] = overlapped["write"]
      BY <1>3, <2>3 DEF SetOverlapped, Begun, Ended
    <3> QED BY <1>1, <1>2, <2>1, <2>3, <3>1 DEF Abortions, Aborted, Timing, Serving
  <2> QED BY <2>1, <2>2, <2>3
<1>8. CASE Again \/ Check
  <2>1. /\ pc \in {"again", "check"} /\ duration' = duration
        /\ pc' \in {"clearRead", "wait", "check"}
        /\ pc' = "clearRead" => nError' = "failed"
    BY <1>8 DEF Again, Check, Clear, WaitAgain
  <2>2. overlapped'["read"].status # "aborted" /\ overlapped'["write"] = overlapped["write"]
    <3>1. CASE Again
      BY <1>3, <3>1 DEF Again, CommEventFails, CommEventAtOnce, CommEventPends, SetOverlapped,
         Begun, Ended
    <3>2. CASE Check
      BY <1>1, <1>3, <3>2 DEF Check, Abortions
    <3> QED BY <1>8, <3>1, <3>2
  <2> QED BY <1>1, <1>2, <2>1, <2>2 DEF Abortions, Aborted, Timing, Serving
<1> QED BY <1>4, <1>5, <1>6, <1>7, <1>8

\* What wakes the thread is reset, and its case knows what it found.
LEMMA WakeAborts ==
  ASSUME IInv, Abortions, WakeStop \/ \E k \in Kinds : WakeQueue(k) \/ WakeOverlapped(k)
  PROVE  Abortions'
<1>1. /\ UNCHANGED <<requests, packets, replies, duration>> /\ pc = "wait" /\ Serving
  BY DEF WakeStop, WakeQueue, WakeOverlapped, Woken, queueVars, answerVars, Serving
<1>2. AbortedOnlyIfTimed' /\ \A k \in Kinds : Timed(k)' <=> Timed(k)
  BY <1>1, TimedKept, AnswersStay DEF Abortions
<1>3. overlapped \in [Kinds -> [event : BOOLEAN,
                        status : {"none", "pending", "done", "short", "aborted"}]]
  BY DEF IInv, Typed, Events
<1>4. CASE WakeStop
  BY <1>1, <1>2, <1>4 DEF WakeStop, Abortions, Serving
<1>5. CASE \E k \in Kinds : WakeQueue(k)
  <2>1. overlapped' = overlapped /\ pc' \in {"write", "read"}
    BY <1>5 DEF WakeQueue, Kinds
  <2> QED BY <1>1, <1>2, <2>1 DEF Abortions, Aborted, Timing, Serving
<1>6. CASE WakeOverlapped("write")
  <2>1. /\ overlapped["write"].event /\ pc' = "written"
        /\ overlapped' = [overlapped EXCEPT !["write"].event = FALSE]
    BY <1>6 DEF WakeOverlapped, Woken, ahEvents
  <2>2. /\ ~overlapped'["write"].event /\ overlapped'["read"] = overlapped["read"]
        /\ overlapped'["write"].status = overlapped["write"].status
    BY <1>3, <2>1 DEF Kinds
  <2> QED BY <1>1, <1>2, <2>1, <2>2 DEF Abortions, Aborted, Timing, Serving, Kinds
<1>7. CASE WakeOverlapped("read")
  <2>1. /\ overlapped["read"].event /\ pc' = "comm"
        /\ overlapped' = [overlapped EXCEPT !["read"].event = FALSE]
    BY <1>7 DEF WakeOverlapped, Woken, ahEvents
  <2>2. /\ ~overlapped'["read"].event /\ overlapped'["write"] = overlapped["write"]
        /\ overlapped'["read"].status = overlapped["read"].status
    BY <1>3, <2>1 DEF Kinds
  <2> QED BY <1>1, <1>2, <2>1, <2>2 DEF Abortions, Aborted, Timing, Serving, Kinds
<1> QED BY <1>4, <1>5, <1>6, <1>7 DEF Kinds

\* With CancelIoEx only what is timed is cancelled.
LEMMA TimeoutAborts ==
  ASSUME IInv, Abortions, HasCancelIoEx, NEW expired \in SUBSET Kinds, Timeout(expired)
  PROVE  Abortions'
<1>1. /\ UNCHANGED <<requests, packets, replies, duration, pc>> /\ pc = "wait" /\ Serving
  BY DEF Timeout, queueVars, threadVars, answerVars, Serving
<1>2. AbortedOnlyIfTimed' /\ \A k \in Kinds : Timed(k)' <=> Timed(k)
  BY <1>1, TimedKept, AnswersStay DEF Abortions
<1>3. PICK aborted : aborted = {k \in Cancelled(expired) :
                                  IF k = "write" THEN writes # <<>> ELSE commWait}
  OBVIOUS
<1>4. /\ aborted \subseteq expired /\ \A k \in expired : duration[k]
      /\ overlapped' = [k \in Kinds |->
           IF k \in aborted THEN [event |-> TRUE, status |-> "aborted"] ELSE overlapped[k]]
  BY <1>3 DEF Timeout, Cancelled
<1>5. \A k \in Kinds : Aborted(k)' => duration[k] \/ Aborted(k)
  BY <1>4 DEF Aborted
<1> QED BY <1>1, <1>2, <1>5 DEF Abortions, Timing, Serving, Kinds

\* A packet that is taken is no longer under way; its error goes with it.
LEMMA ClearAborts ==
  ASSUME IInv, Abortions, ClearRead \/ ClearWrite
  PROVE  Abortions'
<1>1. PICK k \in Kinds :
      /\ pc \in {"clearRead", "clearWrite"}
      /\ pc = "clearRead" => k = "read"
      /\ pc = "clearWrite" => k = "write"
      /\ requests' = requests /\ overlapped' = overlapped /\ replies' = replies
      /\ packets' = [packets EXCEPT ![k] = IF packets[k] = <<>> THEN packets[k]
                                           ELSE Tail(packets[k])]
      /\ \/ /\ packets[k] # <<>> /\ pc' = (IF k = "write" THEN "answerWrite" ELSE "answerRead")
            /\ sPacket' = Head(packets[k]) /\ duration' = duration /\ nError' = nError
         \/ pc' = "wait" /\ packets[k] = <<>>
            /\ duration' = [duration EXCEPT ![k] = FALSE]
  <2>1. CASE ClearRead
    BY <2>1 DEF ClearRead, ReadCleared, Kinds, WaitAgain, Pop, Taken, answerVars
  <2>2. CASE ClearWrite
    BY <2>2 DEF ClearWrite, WriteCleared, Kinds, WaitAgain, Pop, Taken, answerVars
  <2> QED BY <2>1, <2>2
<1>2. ~Aborted(k) /\ (nError = "aborted" => Timed(k)) /\ Serving
  BY <1>1 DEF Abortions, Serving
<1>3. AbortedOnlyIfTimed'
  BY <1>1, AnswersStay DEF Abortions
<1>4. \A j \in Kinds \ {k} : /\ Timed(j)' <=> Timed(j)
                             /\ duration'[j] = duration[j]
  <2>1. \A j \in Kinds \ {k} : packets'[j] = packets[j]
    BY <1>1
  <2>2. \A j \in Kinds \ {k} : duration'[j] = duration[j]
    BY <1>1 DEF Abortions
  <2> QED BY <1>1, <2>1, <2>2 DEF Timed, FirstOf
<1>5. \A j \in Kinds : Aborted(j)' <=> Aborted(j)
  BY <1>1 DEF Aborted
<1>6. ~Timing(k)' /\ ~Aborted(k)'
  BY <1>1, <1>2, <1>5 DEF Timing, Abortions
<1>7. \A j \in Kinds \ {k} : Timing(j)' => Timing(j)
  BY <1>1, <1>4 DEF Timing, Kinds
<1>8. \A j \in Kinds : Timing(j)' \/ Aborted(j)' => Timed(j)'
  BY <1>2, <1>4, <1>5, <1>6, <1>7 DEF Abortions
<1>9. pc' \in {"answerRead", "answerWrite"} /\ nError' = "aborted" => requests'[sPacket'].dwTimeout
  BY <1>1, <1>2 DEF Timed, FirstOf
<1>10. duration' \in [Kinds -> BOOLEAN] /\ pc' \in {"wait", "answerRead", "answerWrite"}
  BY <1>1 DEF Abortions
<1> QED BY <1>3, <1>8, <1>9, <1>10 DEF Abortions

\* Its answer tells an abortion only of what was timed.
LEMMA AnswerAborts ==
  ASSUME IInv, Abortions, AnswerRead \/ AnswerWrite
  PROVE  Abortions'
<1> DEFINE k == IF pc = "answerRead" THEN "read" ELSE "write"
<1>1. /\ pc \in {"answerRead", "answerWrite"} /\ k \in Kinds /\ pc' = "wait"
      /\ pc = (IF k = "write" THEN "answerWrite" ELSE "answerRead")
      /\ UNCHANGED <<requests, packets, overlapped>>
      /\ duration' = [duration EXCEPT ![k] = FALSE]
      /\ \E data : Reply(sPacket, nError, data)
  BY DEF AnswerRead, AnswerWrite, ReadCleared, WriteCleared, WaitAgain, Kinds, queueVars
<1> HIDE DEF k
<1>2. Queues'
  BY AnswerStep DEF IInv, Typed
<1>3. Serving /\ (nError = "aborted" => requests[sPacket].dwTimeout)
  BY <1>1 DEF Abortions, Serving
<1>4. AbortedOnlyIfTimed'
  BY <1>1, <1>2, <1>3, AnswerKeepsTimed DEF Abortions
<1>5. \A j \in Kinds : (Timed(j)' <=> Timed(j)) /\ (Aborted(j)' <=> Aborted(j))
  BY <1>1, TimedKept DEF Aborted
<1>6. \A j \in Kinds : Timing(j)' => Timing(j)
  BY <1>1 DEF Timing, Kinds, Abortions
<1>7. \A j \in Kinds : Timing(j)' \/ Aborted(j)' => Timed(j)'
  BY <1>3, <1>5, <1>6 DEF Abortions
<1>8. duration' \in [Kinds -> BOOLEAN]
  BY <1>1 DEF Abortions
<1> QED BY <1>1, <1>4, <1>7, <1>8 DEF Abortions

\* What is left in the end is told of the closing.
LEMMA ClosingAborts ==
  ASSUME IInv, Abortions, NEW k \in Kinds, Closing(k)
  PROVE  Abortions'
<1>1. /\ UNCHANGED <<requests, replies, duration>>
      /\ pc' \in {"closingRead", "closingWrite", "tellRead", "tellWrite", "closed"}
  BY DEF Closing, answerVars
<1> QED BY <1>1, AnswersStay DEF Abortions, Serving

LEMMA TellAborts ==
  ASSUME IInv, Abortions, NEW k \in Kinds, Tell(k)
  PROVE  Abortions'
<1>1. /\ requests' = requests /\ duration' = duration
      /\ pc' \in {"closingRead", "closingWrite"}
      /\ Reply(sPacket, "DEVICE_CLOSING", <<>>)
  BY DEF Tell, queueVars
<1>2. Queues'
  BY TellStep DEF IInv, Typed
<1>3. AbortedOnlyIfTimed'
  <2>1. PICK error : error = "DEVICE_CLOSING"
    OBVIOUS
  <2>2. Reply(sPacket, error, <<>>) /\ (error = "aborted" => requests[sPacket].dwTimeout)
    BY <1>1, <2>1
  <2> QED BY <1>1, <1>2, <2>2, AnswerKeepsTimed DEF Abortions
<1> QED BY <1>1, <1>3 DEF Abortions, Serving

\* A packet pushed changes no first packet, and none that is answered.
LEMMA PushAborts ==
  ASSUME IInv, Abortions, NEW request \in Requests, ProcessData(request)
  PROVE  Abortions'
<1> DEFINE k == request.kind
           new == Len(requests) + 1
<1>1. /\ requests' = Append(requests, request)
      /\ packets' = [packets EXCEPT ![k] = Append(packets[k], new)]
      /\ UNCHANGED <<replies, overlapped, pc, duration, nError, sPacket>>
  BY DEF ProcessData, threadVars, answerVars
<1>2. request \in RequestType /\ k \in Kinds
  BY SerialAssumption DEF RequestType
<1>3. \A p \in DOMAIN requests : requests'[p] = requests[p]
  BY <1>1, <1>2, AppendProperties, LenProperties DEF IInv, Typed, Queues
<1>4. \A j \in Kinds : packets[j] # <<>> =>
        packets'[j] # <<>> /\ Head(packets'[j]) = Head(packets[j])
              /\ Head(packets[j]) \in DOMAIN requests
  <2> SUFFICES ASSUME NEW j \in Kinds, packets[j] # <<>>
               PROVE  /\ packets'[j] # <<>> /\ Head(packets'[j]) = Head(packets[j])
                      /\ Head(packets[j]) \in DOMAIN requests
    OBVIOUS
  <2>1. packets[j] \in Seq(Nat) /\ new \in Nat /\ packets \in [Kinds -> Seq(Nat)]
    BY LenProperties DEF IInv, Typed, Queues
  <2> HIDE DEF new, k
  <2>2. Head(packets[j]) \in DOMAIN requests
    BY <2>1, HeadTailProperties, LenProperties, EmptySeq DEF IInv, Typed, Queues
  <2>3. packets'[j] = packets[j] \/ packets'[j] = Append(packets[j], new)
    BY <1>1, <2>1
  <2>4. Append(packets[j], new) # <<>> /\ Head(Append(packets[j], new)) = Head(packets[j])
    BY <2>1, HeadTailAppend, AppendProperties, EmptySeq
  <2> QED BY <2>2, <2>3, <2>4
<1>5. \A j \in Kinds : Timed(j) => Timed(j)'
  BY <1>3, <1>4 DEF Timed, FirstOf
<1>6. AbortedOnlyIfTimed'
  <2>1. \A i \in 1 .. Len(replies) : replies[i].packet \in DOMAIN requests
    BY LenProperties DEF IInv, Typed, Queues
  <2> QED BY <1>1, <1>3, <2>1 DEF Abortions, AbortedOnlyIfTimed
<1>7. \A j \in Kinds : Aborted(j)' <=> Aborted(j)
  BY <1>1 DEF Aborted
<1>8. /\ \A j \in Kinds : Timing(j)' <=> Timing(j)
      /\ Serving' <=> Serving
  BY <1>1 DEF Timing, Serving
<1>9. sPacket # NoPacket => requests'[sPacket] = requests[sPacket]
  BY <1>3 DEF IInv, Typed, Queues
<1>10. pc \in {"answerRead", "answerWrite"} => sPacket # NoPacket
  BY DEF IInv, Holding, Answering
<1> HIDE DEF k, new
<1> QED BY <1>1, <1>5, <1>6, <1>7, <1>8, <1>9, <1>10 DEF Abortions, Kinds

\* The port ends operations without aborting them.
LEMMA PortAborts ==
  ASSUME IInv, Abortions, Port
  PROVE  Abortions'
<1>1. UNCHANGED <<requests, packets, replies, duration, pc, nError, sPacket>>
  BY DEF Port, Receive, WriteEnds, queueVars, threadVars, answerVars
<1>2. AbortedOnlyIfTimed' /\ \A k \in Kinds : Timed(k)' <=> Timed(k)
  BY <1>1, TimedKept, AnswersStay DEF Abortions
<1>3. overlapped \in [Kinds -> [event : BOOLEAN,
                        status : {"none", "pending", "done", "short", "aborted"}]]
  BY DEF IInv, Typed, Events
<1>4. \A k \in Kinds : overlapped'[k] = overlapped[k] \/ overlapped'[k].status # "aborted"
  <2>1. CASE \E b \in Bytes : Receive(b)
    BY <1>3, <2>1 DEF Receive, Ended, Kinds
  <2>2. CASE \E full \in BOOLEAN : WriteEnds(full)
    BY <1>3, <2>2 DEF WriteEnds, SetOverlapped, Ended, Kinds
  <2> QED BY <2>1, <2>2 DEF Port
<1> QED BY <1>1, <1>2, <1>4 DEF Abortions, Aborted, Timing, Serving, Kinds

\* The destructor waits for the thread before it drops anything.
LEMMA DeleteAborts ==
  ASSUME IInv, Abortions, Delete
  PROVE  Abortions'
<1>1. UNCHANGED <<requests, replies, duration, overlapped, nError, sPacket>>
  BY DEF Delete, DeleteBegin, DeleteJoin, DeleteEnd, queueVars, threadVars, answerVars
<1>2. AbortedOnlyIfTimed'
  BY <1>1, AnswersStay DEF Abortions
<1>3. CASE DeleteBegin
  <2>1. UNCHANGED <<packets, pc>>
    BY <1>3 DEF DeleteBegin, queueVars, threadVars
  <2> QED BY <1>1, <1>2, <2>1, TimedKept DEF Abortions, Aborted, Timing, Serving, Kinds
<1>4. CASE DeleteJoin
  BY <1>1, <1>2, <1>4 DEF DeleteJoin, Abortions, Serving
<1>5. CASE DeleteEnd
  BY <1>1, <1>2, <1>5 DEF DeleteEnd, Abortions, Serving, IInv, Joined, threadVars
<1> QED BY <1>3, <1>4, <1>5 DEF Delete

LEMMA NextKeepsAbortions ==
  ASSUME IInv, Abortions, HasCancelIoEx, [Next]_vars
  PROVE  Abortions'
<1>1. CASE UNCHANGED vars
  <2>1. UNCHANGED <<requests, packets, replies, duration, pc, nError, overlapped, sPacket>>
    BY <1>1 DEF vars, queueVars, threadVars, answerVars
  <2> QED BY <2>1, TimedKept, AnswersStay DEF Abortions, Aborted, Timing, Serving, Kinds
<1>2. CASE \E request \in Requests : ProcessData(request)
  BY <1>2, PushAborts
<1>3. CASE ThreadProc
  BY <1>3, OperationAborts, WakeAborts, ClearAborts, AnswerAborts, ClosingAborts, TellAborts
     DEF ThreadProc
<1>4. CASE \E expired \in SUBSET Kinds : Timeout(expired)
  BY <1>4, TimeoutAborts
<1> QED BY <1>1, <1>2, <1>3, <1>4, DeleteAborts, PortAborts DEF Next

\* With CancelIoEx a packet without a timeout never ends by one: neither the
\* other operation's timeout nor one of an earlier packet can abort it.
THEOREM TimedOutIfTimed ==
  ASSUME HasCancelIoEx
  PROVE  Spec => []AbortedOnlyIfTimed
<1>1. Init => Abortions
  <2> SUFFICES ASSUME Init PROVE Abortions
    OBVIOUS
  <2>1. /\ duration = Both(FALSE) /\ pc = "wait" /\ replies = <<>>
        /\ overlapped = Both([event |-> FALSE, status |-> "none"])
    BY DEF Init
  <2>2. \A k \in Kinds : ~duration[k] /\ ~overlapped[k].event
    BY <2>1 DEF Both
  <2> QED BY <2>1, <2>2, EmptySeq DEF Abortions, Aborted, Timing, AbortedOnlyIfTimed, Both
<1>2. Abortions => AbortedOnlyIfTimed
  BY DEF Abortions
<1> QED BY <1>1, <1>2, InvariantAlways, NextKeepsAbortions, PTL DEF Spec
=============================================================================
