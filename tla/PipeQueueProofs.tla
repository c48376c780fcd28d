--------------------------- MODULE PipeQueueProofs ---------------------------
(***************************************************************************)
(* Nothing CPipeServer has accepted is lost, reported twice or slept over: *)
(* the buffers in its queues, the bytes counted for them, and the events   *)
(* its thread sleeps on.  With that it is the comm that Comm promises.     *)
(***************************************************************************)
EXTENDS PipeSessionProofs, FiniteSetTheorems, WellFoundedInduction

-----------------------------------------------------------------------------
(* Bytes: what the fold over a set of buffers computes *)

Pick(s) == CHOOSE x \in s : TRUE

\* f is the sum over every subset of S, as the fold works it out.
SumsUp(f, S) ==
  f = [s \in SUBSET S |-> IF s = {} THEN 0 ELSE Size[Pick(s)] + f[s \ {Pick(s)}]]
Summing(S) == CHOOSE f : SumsUp(f, S)

\* Every set of naturals has a least one.
LEMMA Least ==
  ASSUME NEW T \in SUBSET Nat, T # {}
  PROVE  \E n \in T : \A m \in T : n <= m
<1>1. PICK n \in T : \A m \in T : ~ (<<m, n>> \in OpToRel(<, Nat))
  BY WFMin, NatLessThanWellFounded
<1>2. ASSUME NEW m \in T PROVE n <= m
  <2>1. m \in Nat /\ n \in Nat
    OBVIOUS
  <2>2. m < n => <<m, n>> \in OpToRel(<, Nat)
    BY <2>1 DEF OpToRel
  <2>3. ~(m < n)
    BY <1>1, <2>2, Zenon
  <2> QED BY <2>1, <2>3
<1> QED BY <1>2

\* Bytes is such a sum.
LEMMA BytesIs ==
  ASSUME NEW B
  PROVE  Bytes(B) = Summing(B)[B]
BY DEF Bytes, MapThenSumSet, MapThenFoldSet, Summing, SumsUp, Pick

\* Pick takes a member, and one less is left.
LEMMA PickIs ==
  ASSUME NEW s, s # {}, IsFiniteSet(s)
  PROVE  /\ Pick(s) \in s /\ IsFiniteSet(s \ {Pick(s)})
         /\ Cardinality(s) \in Nat /\ Cardinality(s \ {Pick(s)}) = Cardinality(s) - 1
<1>1. Pick(s) \in s
  BY DEF Pick
<1> HIDE DEF Pick
<1> QED BY <1>1, FS_RemoveElement, FS_CardinalityType

\* Two sums agree wherever both are defined.
LEMMA SumsAgree ==
  ASSUME NEW S, IsFiniteSet(S), NEW T, NEW f, NEW g, SumsUp(f, S), SumsUp(g, T),
         NEW s \in SUBSET S, s \in SUBSET T
  PROVE  f[s] = g[s]
<1> DEFINE Differ == {Cardinality(t) : t \in {u \in SUBSET S : u \in SUBSET T /\ f[u] # g[u]}}
<1>1. \A t \in SUBSET S : IsFiniteSet(t) /\ Cardinality(t) \in Nat
  BY FS_Subset, FS_CardinalityType
<1> SUFFICES ASSUME f[s] # g[s] PROVE FALSE
  OBVIOUS
<1>2. Differ \in SUBSET Nat /\ Differ # {}
  BY <1>1
<1>3. PICK n \in Differ : \A m \in Differ : n <= m
  <2> HIDE DEF Differ
  <2> QED BY <1>2, Least
<1>4. PICK t \in SUBSET S : t \in SUBSET T /\ f[t] # g[t] /\ n = Cardinality(t)
  BY <1>3
<1>5. t # {}
  BY <1>4 DEF SumsUp
<1> DEFINE u == t \ {Pick(t)}
<1>6. u \in SUBSET S /\ u \in SUBSET T /\ Cardinality(u) < Cardinality(t)
  BY <1>1, <1>4, <1>5, PickIs
<1>7. f[t] = Size[Pick(t)] + f[u] /\ g[t] = Size[Pick(t)] + g[u]
  BY <1>4, <1>5 DEF SumsUp
<1>8. f[u] # g[u]
  BY <1>4, <1>7
<1>9. Cardinality(u) \in Differ
  BY <1>6, <1>8
<1>10. Cardinality(u) \in Nat /\ Cardinality(t) \in Nat
  BY <1>1, <1>6
<1> HIDE DEF Differ, u
<1> QED BY <1>3, <1>4, <1>6, <1>9, <1>10

\* There is such a sum for every finite set.
LEMMA SumExists ==
  ASSUME NEW S, IsFiniteSet(S)
  PROVE  SumsUp(Summing(S), S)
<1> DEFINE Lacking == {Cardinality(t) : t \in {u \in SUBSET S : ~SumsUp(Summing(u), u)}}
<1>1. \A t \in SUBSET S : IsFiniteSet(t) /\ Cardinality(t) \in Nat
  BY FS_Subset, FS_CardinalityType
<1> SUFFICES ASSUME ~SumsUp(Summing(S), S) PROVE FALSE
  OBVIOUS
<1>2. Lacking \in SUBSET Nat /\ Lacking # {}
  BY <1>1
<1>3. PICK n \in Lacking : \A m \in Lacking : n <= m
  <2> HIDE DEF Lacking
  <2> QED BY <1>2, Least
<1>4. PICK T \in SUBSET S : ~SumsUp(Summing(T), T) /\ n = Cardinality(T)
  BY <1>3
<1>5. ASSUME NEW t \in SUBSET T, t # T PROVE SumsUp(Summing(t), t)
  <2> SUFFICES ASSUME ~SumsUp(Summing(t), t) PROVE FALSE
    OBVIOUS
  <2>1. t \in SUBSET S /\ IsFiniteSet(T)
    BY <1>1
  <2>2. Cardinality(t) \in Lacking
    BY <2>1
  <2>3. Cardinality(t) < Cardinality(T)
    <3>1. Cardinality(t) <= Cardinality(T) /\ Cardinality(t) # Cardinality(T)
      BY <1>5, <2>1, FS_Subset
    <3> QED BY <1>1, <2>1, <3>1
  <2> HIDE DEF Lacking
  <2> QED BY <1>1, <1>3, <1>4, <2>1, <2>2, <2>3
<1> DEFINE f == [s \in SUBSET T |->
       IF s = {} THEN 0 ELSE Size[Pick(s)] + Summing(s \ {Pick(s)})[s \ {Pick(s)}]]
<1>6. ASSUME NEW s \in SUBSET T, s # {}
      PROVE  f[s \ {Pick(s)}] = Summing(s \ {Pick(s)})[s \ {Pick(s)}]
  <2> DEFINE t == s \ {Pick(s)}
  <2>1. t \in SUBSET T /\ t # T /\ IsFiniteSet(t)
    BY <1>1, <1>6, PickIs
  <2>2. SumsUp(Summing(t), t)
    BY <1>5, <2>1
  <2>3. CASE t = {}
    <3>1. f[t] = 0
      BY <2>1, <2>3
    <3>2. Summing(t)[t] = 0
      BY <2>2, <2>3 DEF SumsUp
    <3> QED BY <3>1, <3>2
  <2>4. CASE t # {}
    <3> DEFINE u == t \ {Pick(t)}
    <3>1. u \in SUBSET t /\ u # t /\ u \in SUBSET T /\ u # T /\ IsFiniteSet(u)
      BY <2>1, <2>4, PickIs
    <3>2. SumsUp(Summing(u), u)
      BY <1>5, <3>1
    <3>3. Summing(t)[t] = Size[Pick(t)] + Summing(t)[u]
      BY <2>2, <2>4 DEF SumsUp
    <3>4. Summing(t)[u] = Summing(u)[u]
      <4> HIDE DEF t, u
      <4> QED BY <2>1, <2>2, <3>1, <3>2, SumsAgree
    <3>5. f[t] = Size[Pick(t)] + Summing(u)[u]
      BY <2>1, <2>4
    <3> QED BY <3>3, <3>4, <3>5
  <2> QED BY <2>3, <2>4
<1>7. SumsUp(f, T)
  <2>1. f = [s \in SUBSET T |-> IF s = {} THEN 0 ELSE Size[Pick(s)] + f[s \ {Pick(s)}]]
    <3>1. ASSUME NEW s \in SUBSET T
          PROVE  f[s] = IF s = {} THEN 0 ELSE Size[Pick(s)] + f[s \ {Pick(s)}]
      BY <1>6
    <3>2. f = [s \in SUBSET T |-> f[s]]
      OBVIOUS
    <3> HIDE DEF f
    <3> QED BY <3>1, <3>2
  <2> HIDE DEF f
  <2> QED BY <2>1 DEF SumsUp
<1> HIDE DEF f
<1>8. SumsUp(Summing(T), T)
  BY <1>7 DEF Summing
<1> QED BY <1>4, <1>8

\* So the bytes of no buffers are none, and of others those of a picked one and
\* of the rest.
LEMMA BytesPicked ==
  ASSUME NEW B, IsFiniteSet(B)
  PROVE  Bytes(B) = IF B = {} THEN 0 ELSE Size[Pick(B)] + Bytes(B \ {Pick(B)})
<1>1. SumsUp(Summing(B), B)
  BY SumExists
<1>2. CASE B = {}
  BY <1>1, <1>2, BytesIs DEF SumsUp
<1>3. CASE B # {}
  <2> DEFINE C == B \ {Pick(B)}
  <2>1. C \in SUBSET B /\ IsFiniteSet(C)
    BY <1>3, PickIs
  <2>2. SumsUp(Summing(C), C)
    BY <2>1, SumExists
  <2>3. Summing(B)[B] = Size[Pick(B)] + Summing(B)[C]
    BY <1>1, <1>3 DEF SumsUp
  <2>4. Summing(B)[C] = Summing(C)[C]
    <3> HIDE DEF C
    <3> QED BY <1>1, <2>1, <2>2, SumsAgree
  <2> QED BY <1>3, <2>3, <2>4, BytesIs
<1> QED BY <1>2, <1>3

\* Bytes are a number.
LEMMA BytesType ==
  ASSUME NEW B \in SUBSET Buffers
  PROVE  Bytes(B) \in Nat
<1> DEFINE Bad == {Cardinality(t) : t \in {u \in SUBSET Buffers : Bytes(u) \notin Nat}}
<1>1. \A t \in SUBSET Buffers : IsFiniteSet(t) /\ Cardinality(t) \in Nat
  BY FS_Subset, FS_CardinalityType, PipeServerAssumption
<1> SUFFICES ASSUME Bytes(B) \notin Nat PROVE FALSE
  OBVIOUS
<1>2. Bad \in SUBSET Nat /\ Bad # {}
  BY <1>1
<1>3. PICK n \in Bad : \A m \in Bad : n <= m
  <2> HIDE DEF Bad
  <2> QED BY <1>2, Least
<1>4. PICK T \in SUBSET Buffers : Bytes(T) \notin Nat /\ n = Cardinality(T)
  BY <1>3
<1>5. T # {} /\ Bytes(T) = Size[Pick(T)] + Bytes(T \ {Pick(T)})
  BY <1>1, <1>4, BytesPicked
<1>6. /\ Pick(T) \in T /\ Cardinality(T \ {Pick(T)}) < Cardinality(T)
      /\ Cardinality(T \ {Pick(T)}) \in Nat
  BY <1>1, <1>5, PickIs
<1>7. Size[Pick(T)] \in Nat
  BY <1>6, PipeServerAssumption
<1>8. Bytes(T \ {Pick(T)}) \notin Nat
  BY <1>4, <1>5, <1>7
<1>9. Cardinality(T \ {Pick(T)}) \in Bad
  BY <1>8
<1> HIDE DEF Bad
<1> QED BY <1>1, <1>3, <1>4, <1>6, <1>9

\* Which one is picked does not matter.
LEMMA BytesAny ==
  ASSUME NEW B \in SUBSET Buffers, NEW x \in B
  PROVE  Bytes(B) = Size[x] + Bytes(B \ {x})
<1> DEFINE Holds(u) == \A y \in u : Bytes(u) = Size[y] + Bytes(u \ {y})
           Bad == {Cardinality(t) : t \in {u \in SUBSET Buffers : ~Holds(u)}}
<1>1. \A t \in SUBSET Buffers : IsFiniteSet(t) /\ Cardinality(t) \in Nat
  BY FS_Subset, FS_CardinalityType, PipeServerAssumption
<1>2. \A t \in SUBSET Buffers : Bytes(t) \in Nat
  BY BytesType
<1>3. \A y \in Buffers : Size[y] \in Nat
  BY PipeServerAssumption
<1> SUFFICES ASSUME ~Holds(B) PROVE FALSE
  OBVIOUS
<1>4. Bad \in SUBSET Nat /\ Bad # {}
  BY <1>1
<1>5. PICK n \in Bad : \A m \in Bad : n <= m
  <2> HIDE DEF Bad
  <2> QED BY <1>4, Least
<1>6. PICK T \in SUBSET Buffers : ~Holds(T) /\ n = Cardinality(T)
  BY <1>5
<1>7. PICK y \in T : Bytes(T) # Size[y] + Bytes(T \ {y})
  BY <1>6
<1>8. \A u \in SUBSET Buffers : Cardinality(u) < Cardinality(T) => Holds(u)
  <2> SUFFICES ASSUME NEW u \in SUBSET Buffers, Cardinality(u) < Cardinality(T), ~Holds(u)
               PROVE  FALSE
    OBVIOUS
  <2>1. Cardinality(u) \in Bad
    OBVIOUS
  <2> HIDE DEF Bad, Holds
  <2> QED BY <1>1, <1>5, <1>6, <2>1
<1> DEFINE z == Pick(T)
<1>9. /\ z \in T /\ Cardinality(T \ {z}) < Cardinality(T)
      /\ Bytes(T) = Size[z] + Bytes(T \ {z})
  <2>1. T # {}
    BY <1>7
  <2>2. Cardinality(T \ {z}) = Cardinality(T) - 1 /\ Cardinality(T) \in Nat /\ z \in T
    BY <1>1, <2>1, PickIs
  <2>3. Bytes(T) = Size[z] + Bytes(T \ {z})
    BY <1>1, <2>1, BytesPicked
  <2> QED BY <2>2, <2>3
<1> HIDE DEF z
<1>10. y # z
  BY <1>7, <1>9
<1>11. Bytes(T \ {z}) = Size[y] + Bytes((T \ {z}) \ {y})
  BY <1>8, <1>9, <1>10
<1>12. Cardinality(T \ {y}) < Cardinality(T)
  BY <1>1, FS_RemoveElement
<1>13. Bytes(T \ {y}) = Size[z] + Bytes((T \ {y}) \ {z})
  BY <1>8, <1>9, <1>10, <1>12
<1>14. (T \ {z}) \ {y} = (T \ {y}) \ {z}
  OBVIOUS
<1>15. /\ Size[y] \in Nat /\ Size[z] \in Nat /\ Bytes((T \ {y}) \ {z}) \in Nat
  BY <1>2, <1>3, <1>9
<1> DEFINE w == Bytes((T \ {y}) \ {z})
<1>16. Bytes(T) = Size[z] + (Size[y] + w) /\ Bytes(T \ {y}) = Size[z] + w
  BY <1>9, <1>11, <1>13, <1>14
<1>17. w \in Nat
  BY <1>15
<1> HIDE DEF w, Bad, Holds
<1>18. Size[z] + (Size[y] + w) = Size[y] + (Size[z] + w)
  BY <1>15, <1>17
<1> QED BY <1>7, <1>16, <1>18

\* One buffer more.
LEMMA BytesMore ==
  ASSUME NEW B \in SUBSET Buffers, NEW b \in Buffers \ B
  PROVE  Bytes(B \cup {b}) = Bytes(B) + Size[b]
<1>1. (B \cup {b}) \ {b} = B /\ b \in B \cup {b} /\ B \cup {b} \in SUBSET Buffers
  OBVIOUS
<1>2. Bytes(B \cup {b}) = Size[b] + Bytes(B)
  BY <1>1, BytesAny
<1> QED BY <1>2, BytesType, PipeServerAssumption

\* Any buffers less.
LEMMA BytesLess ==
  ASSUME NEW B \in SUBSET Buffers, NEW C \in SUBSET B
  PROVE  Bytes(B \ C) = Bytes(B) - Bytes(C)
<1> DEFINE Holds(u) == Bytes(B \ u) = Bytes(B) - Bytes(u)
           Bad == {Cardinality(t) : t \in {u \in SUBSET B : ~Holds(u)}}
<1>1. \A t \in SUBSET B : IsFiniteSet(t) /\ Cardinality(t) \in Nat
  BY FS_Subset, FS_CardinalityType, PipeServerAssumption
<1>2. \A t \in SUBSET Buffers : Bytes(t) \in Nat
  BY BytesType
<1> SUFFICES ASSUME ~Holds(C) PROVE FALSE
  OBVIOUS
<1>3. Bad \in SUBSET Nat /\ Bad # {}
  BY <1>1
<1>4. PICK n \in Bad : \A m \in Bad : n <= m
  <2> HIDE DEF Bad
  <2> QED BY <1>3, Least
<1>5. PICK T \in SUBSET B : ~Holds(T) /\ n = Cardinality(T)
  BY <1>4
<1>6. T # {}
  <2> SUFFICES ASSUME T = {} PROVE FALSE
    OBVIOUS
  <2>1. B \ T = B /\ Bytes(T) = 0
    BY <1>1, BytesPicked
  <2> QED BY <1>2, <1>5, <2>1
<1>7. PICK x \in T : TRUE
  BY <1>6
<1> DEFINE u == T \ {x}
<1>8. u \in SUBSET B /\ Cardinality(u) \in Nat /\ Cardinality(u) < Cardinality(T)
  BY <1>1, FS_RemoveElement
<1>9. Holds(u)
  <2> SUFFICES ASSUME ~Holds(u) PROVE FALSE
    OBVIOUS
  <2>1. Cardinality(u) \in Bad
    BY <1>8
  <2> HIDE DEF Bad, Holds, u
  <2> QED BY <1>1, <1>4, <1>5, <1>8, <2>1
<1>10. Bytes(T) = Size[x] + Bytes(u)
  BY BytesAny
<1>11. x \in B \ u /\ (B \ u) \ {x} = B \ T /\ B \ u \in SUBSET Buffers
  OBVIOUS
<1>12. Bytes(B \ u) = Size[x] + Bytes(B \ T)
  BY <1>11, BytesAny
<1>13. /\ Bytes(B) \in Nat /\ Bytes(T) \in Nat /\ Bytes(u) \in Nat
       /\ Bytes(B \ T) \in Nat /\ Size[x] \in Nat
  BY <1>2, PipeServerAssumption
<1>14. Bytes(B \ u) = Bytes(B) - Bytes(u) /\ Bytes(B \ T) # Bytes(B) - Bytes(T)
  BY <1>5, <1>9
<1> HIDE DEF u, Bad, Holds
<1> QED BY <1>10, <1>12, <1>13, <1>14

-----------------------------------------------------------------------------
(* Events: what the thread sleeps on *)

Writing(p) == pc = "onWrite" /\ Handling(p)
Reading(p) == pc \in {"onEvent", "process", "sending"} /\ Handling(p)

\* w and e say that the thread is about to see to the instance's queue and to
\* its connect or read.  What is queued is written or signalled or seen to, and
\* a pending operation neither signalled nor seen to.
Alert(r, o, w, e) ==
  /\ r.cWriteQueue # << >> => r.hWriteEvent \/ o.writeIo = "pending" \/ w
  /\ o.writeIo # "idle" => r.fWritePending /\ r.cWriteQueue # << >>
  /\ o.writeIo = "pending" => ~r.hWriteEvent /\ ~w
  /\ r.hEvent \/ o.readIo = "pending" \/ e
  /\ o.readIo = "pending" => r.fPending /\ ~r.hEvent /\ ~e

Awake(p) == os[p].link # "none" => Alert(res[p], os[p], Writing(p), Reading(p))
Events == \A p \in Pipes : Awake(p)

-----------------------------------------------------------------------------
(* Queues *)

Heads(p) == BuffersIn(res[p].cWriteQueue)
Held == {b \in Buffers : status[b] = "held"}

\* A buffer that is held is in one entry of one queue, there is nothing else in
\* the queues, and nothing at all in that of an instance without a handle.
OnceIn(q) == \A m, n \in DOMAIN q : q[m].pHead = q[n].pHead => m = n
Queues ==
  /\ \A p \in Pipes : OnceIn(res[p].cWriteQueue)
  /\ \A p \in Pipes : os[p].link = "none" => res[p].cWriteQueue = << >>
  /\ \A p, q \in Pipes : p # q => Heads(p) \cap Heads(q) = {}
  /\ Held = UNION {Heads(p) : p \in Pipes}

-----------------------------------------------------------------------------
(* Events: one lemma for each step that disturbs them *)

\* A step that is about one instance, and about what the thread does with it.
LEMMA OneAwake ==
  ASSUME IInv, Events, NEW p \in Pipes, NEW r, NEW o,
         res' = [res EXCEPT ![p] = r], os' = [os EXCEPT ![p] = o],
         o.link # "none" => Alert(r, o, Writing(p)', Reading(p)'),
         \A q \in Pipes : q # p /\ os[q].link # "none" =>
           (Writing(q)' <=> Writing(q)) /\ (Reading(q)' <=> Reading(q))
  PROVE  Events'
<1>1. res'[p] = r /\ os'[p] = o
  BY DEF IInv, TypeOK
<1>2. Awake(p)'
  BY <1>1 DEF Awake
<1>3. ASSUME NEW q \in Pipes, q # p PROVE Awake(q)'
  <2>1. res'[q] = res[q] /\ os'[q] = os[q] /\ Awake(q)
    BY <1>3 DEF IInv, TypeOK, Events
  <2>2. SUFFICES ASSUME os[q].link # "none"
                 PROVE  Alert(res[q], os[q], Writing(q)', Reading(q)')
    BY <2>1 DEF Awake
  <2>3. /\ Alert(res[q], os[q], Writing(q), Reading(q))
        /\ Writing(q)' <=> Writing(q)
        /\ Reading(q)' <=> Reading(q)
    BY <1>3, <2>1, <2>2 DEF Awake, Events
  <2> QED BY <2>3 DEF Alert
<1> QED BY <1>2, <1>3 DEF Events

\* The instance being handled, and no other, is seen to.
LEMMA HandledAwake ==
  ASSUME IInv, Events, pc \in {"onEvent", "onWrite", "process", "sending"}
  PROVE  /\ m_aPipes[cur] \in Pipes /\ os[m_aPipes[cur]].link # "none"
         /\ res[m_aPipes[cur]] \in SPipeResource /\ os[m_aPipes[cur]] \in Instance
         /\ Alert(res[m_aPipes[cur]], os[m_aPipes[cur]], pc = "onWrite", pc # "onWrite")
         /\ \A q \in Pipes : Handling(q) <=> q = m_aPipes[cur]
<1> DEFINE p == m_aPipes[cur]
<1>1. p \in Pipes /\ os[p].link # "none" /\ cur \in DOMAIN m_aPipes
  BY HandledPipe DEF IInv
<1>2. cur > 0
  BY <1>1, LenProperties DEF IInv, TypeOK
<1>3. Alert(res[p], os[p], Writing(p), Reading(p))
  BY <1>1 DEF Events, Awake
<1>4. (Writing(p) <=> pc = "onWrite") /\ (Reading(p) <=> pc # "onWrite")
  BY <1>2 DEF Writing, Reading, Handling
<1>5. Alert(res[p], os[p], pc = "onWrite", pc # "onWrite")
  BY <1>3, <1>4 DEF Alert
<1> QED BY <1>1, <1>2, <1>5 DEF Handling, IInv, TypeOK

\* After a handler the thread sees to nothing, or goes on with the same instance.
LEMMA ThreadMoves ==
  ASSUME IInv, Events, pc \in {"onEvent", "onWrite", "process", "sending"},
         NEW p \in Pipes, p = m_aPipes[cur],
         \/ NextIteration
         \/ /\ pc' \in {"onEvent", "onWrite", "process", "sending"}
            /\ cur' = cur /\ m_aPipes' = m_aPipes
  PROVE  /\ \A q \in Pipes : q # p /\ os[q].link # "none" =>
              (Writing(q)' <=> Writing(q)) /\ (Reading(q)' <=> Reading(q))
         /\ NextIteration => ~Writing(p)' /\ ~Reading(p)'
         /\ ~NextIteration => (Writing(p)' <=> pc' = "onWrite")
                             /\ (Reading(p)' <=> pc' # "onWrite")
<1>1. \A q \in Pipes : Handling(q) <=> q = p
  BY HandledAwake
<1>2. CASE NextIteration
  BY <1>1, <1>2 DEF NextIteration, GoTo, Writing, Reading, Handling
<1>3. CASE ~NextIteration
  <2>1. \A q \in Pipes : Handling(q)' <=> Handling(q)
    BY <1>3 DEF Handling
  <2> QED BY <1>1, <1>3, <2>1 DEF Writing, Reading
<1> QED BY <1>2, <1>3

\* The steps of others leave the thread where it is.
LEMMA ThreadStays ==
  ASSUME UNCHANGED <<pc, cur, m_aPipes>>
  PROVE  \A q : (Writing(q)' <=> Writing(q)) /\ (Reading(q)' <=> Reading(q))
BY DEF Writing, Reading, Handling

\* A reset instance is signalled, and a deleted one nobody's concern.
LEMMA DropAwake ==
  ASSUME IInv, Events, pc \in {"onEvent", "process"}, DropInstance(cur), NextIteration
  PROVE  Events'
<1>1. PICK p \in Pipes : /\ p = m_aPipes[cur] /\ os[p].link # "none"
                         /\ res[p] \in SPipeResource /\ Session(p)
  BY HandledAwake DEF IInv, Sessions
<1> DEFINE r == [ResetResource(res[p]) EXCEPT !.llId = m_llNextId,
                   !.cWriteQueue = IF res[p].eStatus = "kReading" THEN << >>
                                                         ELSE res[p].cWriteQueue]
<1>2. /\ \A q \in Pipes : q # p /\ os[q].link # "none" =>
           (Writing(q)' <=> Writing(q)) /\ (Reading(q)' <=> Reading(q))
      /\ ~Writing(p)' /\ ~Reading(p)'
  BY <1>1, ThreadMoves
<1>3. CASE ResetInstance(p)
  <2>1. r.hEvent /\ r.cWriteQueue = << >>
    BY <1>1 DEF ResetResource, SPipeResource, Session
  <2>2. Alert(r, Unlinked("off"), Writing(p)', Reading(p)')
    BY <1>2, <2>1 DEF Alert, Unlinked
  <2>3. res' = [res EXCEPT ![p] = r] /\ os' = [os EXCEPT ![p] = Unlinked("off")]
    BY <1>3 DEF ResetInstance, r
  <2> HIDE DEF r
  <2> QED BY <1>1, <1>2, <2>2, <2>3, OneAwake
<1>4. CASE DeleteInstance(cur)
  <2>1. /\ res' = [res EXCEPT ![p] = NewResource(0, FALSE)]
        /\ os' = [os EXCEPT ![p] = Unlinked("none")] /\ Unlinked("none").link = "none"
    BY <1>1, <1>4 DEF DeleteInstance, Unlinked
  <2> QED BY <1>1, <1>2, <2>1, OneAwake
<1> QED BY <1>1, <1>3, <1>4 DEF DropInstance

\* The first instance is listened on, or signalled.
LEMMA InitCommAwake ==
  ASSUME IInv, Events, NEW p \in Pipes, InitComm(p) PROVE Events'
<1> DEFINE r == NewResource(m_llNextId, FALSE)
           r1 == [r EXCEPT !.fPending = TRUE, !.eStatus = "kConnecting"]
           r2 == [r EXCEPT !.hEvent = TRUE, !.eStatus = "kConnecting"]
           r3 == [ResetResource(r) EXCEPT !.llId = m_llNextId + 1]
<1>1. PICK o \in FirstLink(nClients + 1) :
        \/ /\ o.link = "avail"
           /\ res' = [res EXCEPT ![p] = r1]
           /\ os' = [os EXCEPT ![p] = [o EXCEPT !.readIo = "pending"]]
        \/ /\ o.link = "open"
           /\ res' = [res EXCEPT ![p] = r2]
           /\ os' = [os EXCEPT ![p] = o]
        \/ /\ res' = [res EXCEPT ![p] = r3]
           /\ os' = [os EXCEPT ![p] = Unlinked("off")]
  BY DEF InitComm
<1>2. /\ \A q \in Pipes : os[q].link = "none"
      /\ cur' = 0 /\ ~Writing(p)' /\ ~Reading(p)'
  <2>1. OpenPipes = {}
    BY DEF InitComm, IInv, TypeOK, OpenPipes, Range
  <2> QED BY <2>1 DEF InitComm, IInv, TypeOK, Writing, Reading, Handling
<1>3. CASE o.link = "avail"
  <2> DEFINE o1 == [o EXCEPT !.readIo = "pending"]
  <2>1. o = Unlinked("avail")
    BY <1>1, <1>3 DEF FirstLink, Unlinked
  <2>2. Alert(r1, o1, Writing(p)', Reading(p)')
    BY <1>2, <2>1 DEF Alert, NewResource, Unlinked
  <2>3. Alert(r3, Unlinked("off"), Writing(p)', Reading(p)')
    BY <1>2 DEF Alert, NewResource, ResetResource, Unlinked
  <2>4. \/ res' = [res EXCEPT ![p] = r1] /\ os' = [os EXCEPT ![p] = o1]
        \/ res' = [res EXCEPT ![p] = r3] /\ os' = [os EXCEPT ![p] = Unlinked("off")]
    BY <1>1, <1>3
  <2> HIDE DEF r1, o1, r3
  <2> QED BY <1>2, <2>2, <2>3, <2>4, OneAwake
<1>4. CASE o.link # "avail"
  <2>1. o.readIo = "idle" /\ o.writeIo = "idle"
    BY <1>1 DEF FirstLink, Unlinked
  <2>2. Alert(r2, o, Writing(p)', Reading(p)')
    BY <1>2, <2>1 DEF Alert, NewResource
  <2>3. Alert(r3, Unlinked("off"), Writing(p)', Reading(p)')
    BY <1>2 DEF Alert, NewResource, ResetResource, Unlinked
  <2>4. \/ res' = [res EXCEPT ![p] = r2] /\ os' = [os EXCEPT ![p] = o]
        \/ res' = [res EXCEPT ![p] = r3] /\ os' = [os EXCEPT ![p] = Unlinked("off")]
    BY <1>1, <1>4
  <2> HIDE DEF r2, r3
  <2> QED BY <1>2, <2>2, <2>3, <2>4, OneAwake
<1> QED BY <1>3, <1>4

\* A further instance is signalled.
LEMMA AddInstanceAwake ==
  ASSUME IInv, Events, AddInstance PROVE Events'
<1>1. /\ cur = 0 /\ cur' = 0
      /\ \A q : ~Writing(q) /\ ~Reading(q) /\ ~Writing(q)' /\ ~Reading(q)'
  BY DEF AddInstance, GoTo, IInv, TypeOK, Writing, Reading, Handling
<1>2. CASE UNCHANGED <<res, os>>
  BY <1>1, <1>2 DEF Events, Awake, Alert
<1>3. ASSUME NEW p \in Pipes, res' = [res EXCEPT ![p] = NewResource(m_llNextId, TRUE)],
             os' = [os EXCEPT ![p] = Unlinked("avail")]
      PROVE  Events'
  <2>1. Alert(NewResource(m_llNextId, TRUE), Unlinked("avail"), Writing(p)', Reading(p)')
    BY <1>1 DEF Alert, NewResource, Unlinked
  <2> QED BY <1>1, <1>3, <2>1, OneAwake
<1> QED BY <1>2, <1>3 DEF AddInstance

\* Handling kCreated listens, or signals the client that is there already.
LEMMA OnCreatedAwake ==
  ASSUME IInv, Events, OnCreated PROVE Events'
<1>1. PICK p \in Pipes : /\ p = m_aPipes[cur] /\ os[p].link # "none"
                         /\ res[p] \in SPipeResource /\ os[p] \in Instance
                         /\ Alert(res[p], os[p], FALSE, TRUE)
  BY HandledAwake DEF OnCreated, Alert
<1> DEFINE r == [res[p] EXCEPT !.hEvent = FALSE]
           r1 == [r EXCEPT !.fPending = TRUE, !.eStatus = "kConnecting"]
           o1 == [os[p] EXCEPT !.link = "avail", !.readIo = "pending"]
           r2 == [r EXCEPT !.fPending = FALSE, !.hEvent = TRUE,
                           !.eStatus = "kConnecting"]
<1>2. /\ NextIteration
      /\ \A q \in Pipes : q # p /\ os[q].link # "none" =>
           (Writing(q)' <=> Writing(q)) /\ (Reading(q)' <=> Reading(q))
      /\ ~Writing(p)' /\ ~Reading(p)'
  BY <1>1, ThreadMoves DEF OnCreated
<1>3. CASE DropInstance(cur)
  BY <1>2, <1>3, DropAwake DEF OnCreated
<1>4. CASE res' = [res EXCEPT ![p] = r1] /\ os' = [os EXCEPT ![p] = o1]
  <2>1. Alert(r1, o1, Writing(p)', Reading(p)')
    BY <1>1, <1>2 DEF Alert, SPipeResource, Instance
  <2> HIDE DEF r1, o1
  <2> QED BY <1>2, <1>4, <2>1, OneAwake
<1>5. CASE res' = [res EXCEPT ![p] = r2] /\ UNCHANGED os
  <2>1. Alert(r2, os[p], Writing(p)', Reading(p)')
    BY <1>1, <1>2 DEF Alert, SPipeResource, Instance
  <2>2. os' = [os EXCEPT ![p] = os[p]]
    BY <1>5 DEF IInv, TypeOK
  <2> HIDE DEF r2
  <2> QED BY <1>2, <1>5, <2>1, <2>2, OneAwake
<1>6. os' = [os EXCEPT ![p].link = "avail", ![p].readIo = "pending"] =>
        os' = [os EXCEPT ![p] = o1]
  BY DEF IInv, TypeOK
<1> QED BY <1>1, <1>3, <1>4, <1>5, <1>6 DEF OnCreated

\* Handling kConnecting signals the new client's instance, to read from it.
LEMMA OnConnectingAwake ==
  ASSUME IInv, Events, OnConnecting PROVE Events'
<1>1. PICK p \in Pipes : /\ p = m_aPipes[cur] /\ os[p].link # "none"
                         /\ res[p] \in SPipeResource /\ os[p] \in Instance
                         /\ Alert(res[p], os[p], FALSE, TRUE)
  BY HandledAwake DEF OnConnecting, Alert
<1> DEFINE r == [res[p] EXCEPT !.hEvent = FALSE]
           r1 == [r EXCEPT !.fPending = FALSE, !.eStatus = "kReading",
                           !.hEvent = TRUE]
           o1 == [os[p] EXCEPT !.readIo = "idle"]
<1>2. /\ NextIteration
      /\ \A q \in Pipes : q # p /\ os[q].link # "none" =>
           (Writing(q)' <=> Writing(q)) /\ (Reading(q)' <=> Reading(q))
      /\ ~Writing(p)' /\ ~Reading(p)'
  BY <1>1, ThreadMoves DEF OnConnecting
<1>3. CASE DropInstance(cur)
  BY <1>2, <1>3, DropAwake DEF OnConnecting
<1>4. CASE res' = [res EXCEPT ![p] = r1] /\ os' = [os EXCEPT ![p] = o1]
  <2>1. Alert(r1, o1, Writing(p)', Reading(p)')
    BY <1>1, <1>2 DEF Alert, SPipeResource, Instance
  <2> HIDE DEF r1, o1
  <2> QED BY <1>2, <1>4, <2>1, OneAwake
<1> QED BY <1>1, <1>3, <1>4 DEF OnConnecting

\* ReadFile leaves the read under way, the instance signalled or its request
\* with ProcessData; r is the resource as the handler has left it so far.
LEMMA ReadNextAwake ==
  ASSUME IInv, Events, pc \in {"onEvent", "process"}, NEW p \in Pipes,
         p = m_aPipes[cur], NEW r \in SPipeResource, ReadNext(p, r),
         r.cWriteQueue = res[p].cWriteQueue, r.hWriteEvent = res[p].hWriteEvent,
         r.fWritePending = res[p].fWritePending
  PROVE  Events'
<1>1. os[p].link # "none" /\ os[p] \in Instance /\ Alert(res[p], os[p], FALSE, TRUE)
  BY HandledAwake DEF Alert
<1> DEFINE r1 == [r EXCEPT !.hEvent = TRUE]
           o1 == [os[p] EXCEPT !.inbox = Tail(os[p].inbox)]
           r2 == [r EXCEPT !.fPending = TRUE, !.hEvent = FALSE]
           o2 == [os[p] EXCEPT !.readIo = "pending"]
<1>2. CASE /\ res' = [res EXCEPT ![p] = r1] /\ os' = [os EXCEPT ![p] = o1]
           /\ CallProcessData(p) /\ m_aPipes' = m_aPipes
  <2>1. pc' = "process" /\ cur' = cur
    BY <1>2 DEF CallProcessData, GoTo
  <2>2. /\ \A q \in Pipes : q # p /\ os[q].link # "none" =>
             (Writing(q)' <=> Writing(q)) /\ (Reading(q)' <=> Reading(q))
        /\ ~Writing(p)'
    BY <1>2, <2>1, ThreadMoves DEF Writing
  <2>3. Alert(r1, o1, Writing(p)', Reading(p)')
    BY <1>1, <2>2 DEF Alert, SPipeResource, Instance
  <2> HIDE DEF r1, o1
  <2> QED BY <1>2, <2>2, <2>3, OneAwake
<1>3. CASE /\ res' = [res EXCEPT ![p] = r2] /\ os' = [os EXCEPT ![p] = o2]
           /\ NextIteration
  <2>1. /\ \A q \in Pipes : q # p /\ os[q].link # "none" =>
             (Writing(q)' <=> Writing(q)) /\ (Reading(q)' <=> Reading(q))
        /\ ~Writing(p)' /\ ~Reading(p)'
    BY <1>3, ThreadMoves
  <2>2. Alert(r2, o2, Writing(p)', Reading(p)')
    BY <1>1, <2>1 DEF Alert, SPipeResource, Instance
  <2> HIDE DEF r2, o2
  <2> QED BY <1>3, <2>1, <2>2, OneAwake
<1>4. CASE DropInstance(cur) /\ NextIteration
  BY <1>4, DropAwake
<1> QED BY <1>2, <1>3, <1>4 DEF ReadNext

\* Handling kReading, after a read has ended or to start one.
LEMMA OnReadingAwake ==
  ASSUME IInv, Events, OnReading PROVE Events'
<1>1. PICK p \in Pipes : /\ p = m_aPipes[cur] /\ os[p].link # "none"
                         /\ res[p] \in SPipeResource /\ os[p] \in Instance
                         /\ Alert(res[p], os[p], FALSE, TRUE)
  BY HandledAwake DEF OnReading, Alert
<1> DEFINE r == [res[p] EXCEPT !.hEvent = FALSE]
           o == [os[p] EXCEPT !.readIo = "idle"]
<1>2. /\ r \in SPipeResource /\ r.cWriteQueue = res[p].cWriteQueue
      /\ r.hWriteEvent = res[p].hWriteEvent /\ r.fWritePending = res[p].fWritePending
      /\ pc = "onEvent"
  BY <1>1 DEF SPipeResource, OnReading
<1>3. CASE /\ res' = [res EXCEPT ![p] = r] /\ os' = [os EXCEPT ![p] = o]
           /\ CallProcessData(p) /\ m_aPipes' = m_aPipes
  <2>1. pc' = "process" /\ cur' = cur
    BY <1>3 DEF CallProcessData, GoTo
  <2>2. /\ \A q \in Pipes : q # p /\ os[q].link # "none" =>
             (Writing(q)' <=> Writing(q)) /\ (Reading(q)' <=> Reading(q))
        /\ ~Writing(p)' /\ Reading(p)'
    BY <1>1, <1>2, <1>3, <2>1, ThreadMoves DEF NextIteration, GoTo
  <2>3. Alert(r, o, Writing(p)', Reading(p)')
    BY <1>1, <2>2 DEF Alert, SPipeResource, Instance
  <2> HIDE DEF r, o
  <2> QED BY <1>3, <2>2, <2>3, OneAwake
<1>4. CASE DropInstance(cur) /\ NextIteration
  BY <1>2, <1>4, DropAwake
<1>5. CASE ReadNext(p, r)
  <2> HIDE DEF r
  <2> QED BY <1>1, <1>2, <1>5, ReadNextAwake
<1> QED BY <1>1, <1>3, <1>4, <1>5 DEF OnReading

\* The return of ProcessData.
LEMMA ProcessReturnAwake ==
  ASSUME IInv, Events, ProcessReturn PROVE Events'
<1>1. PICK p \in Pipes : /\ p = m_aPipes[cur] /\ os[p].link # "none"
                         /\ res[p] \in SPipeResource /\ os[p] \in Instance
                         /\ Alert(res[p], os[p], FALSE, TRUE)
  BY HandledAwake DEF ProcessReturn, Alert
<1> DEFINE r == [res[p] EXCEPT !.fPending = FALSE]
           r1 == [res[p] EXCEPT !.hEvent = TRUE]
<1>2. /\ r \in SPipeResource /\ r.cWriteQueue = res[p].cWriteQueue
      /\ r.hWriteEvent = res[p].hWriteEvent /\ r.fWritePending = res[p].fWritePending
      /\ pc = "process"
  BY <1>1 DEF SPipeResource, ProcessReturn
<1>3. CASE res' = [res EXCEPT ![p].hEvent = TRUE] /\ NextIteration /\ UNCHANGED os
  <2>1. /\ \A q \in Pipes : q # p /\ os[q].link # "none" =>
             (Writing(q)' <=> Writing(q)) /\ (Reading(q)' <=> Reading(q))
        /\ ~Writing(p)' /\ ~Reading(p)'
    BY <1>1, <1>2, <1>3, ThreadMoves
  <2>2. Alert(r1, os[p], Writing(p)', Reading(p)')
    BY <1>1, <2>1 DEF Alert, SPipeResource, Instance
  <2>3. res' = [res EXCEPT ![p] = r1] /\ os' = [os EXCEPT ![p] = os[p]]
    BY <1>3 DEF IInv, TypeOK
  <2> HIDE DEF r1
  <2> QED BY <2>1, <2>2, <2>3, OneAwake
<1>4. CASE ReadNext(p, r)
  <2> HIDE DEF r
  <2> QED BY <1>1, <1>2, <1>4, ReadNextAwake
<1> QED BY <1>1, <1>3, <1>4 DEF ProcessReturn

\* What is left in a queue after a write keeps its event signalled.
LEMMA OnWriteAwake ==
  ASSUME IInv, Events, OnWrite PROVE Events'
<1>1. PICK p \in Pipes : /\ p = m_aPipes[cur] /\ os[p].link # "none"
                         /\ res[p] \in SPipeResource /\ os[p] \in Instance
                         /\ Alert(res[p], os[p], TRUE, FALSE)
  BY HandledAwake DEF OnWrite, Alert
<1> DEFINE r == [res[p] EXCEPT !.hWriteEvent = FALSE]
           w == [r EXCEPT !.hWriteEvent = TRUE]
           r1 == [r EXCEPT !.fWritePending = FALSE]
           r2 == [r EXCEPT !.fWritePending = TRUE]
           w1 == [w EXCEPT !.fWritePending = FALSE]
           oI == [os[p] EXCEPT !.writeIo = "idle"]
           oP == [os[p] EXCEPT !.writeIo = "pending"]
<1>2. /\ \A q \in Pipes : q # p /\ os[q].link # "none" =>
           (Writing(q)' <=> Writing(q)) /\ (Reading(q)' <=> Reading(q))
      /\ ~Writing(p)' /\ ~Reading(p)'
  BY <1>1, ThreadMoves DEF OnWrite
<1>3. UNCHANGED os => os' = [os EXCEPT ![p] = os[p]]
  BY DEF IInv, TypeOK
<1>4. ASSUME NEW s, NEW o, res' = [res EXCEPT ![p] = s], os' = [os EXCEPT ![p] = o],
             Alert(s, o, FALSE, FALSE)
      PROVE  Events'
  <2>1. Alert(s, o, Writing(p)', Reading(p)')
    BY <1>2, <1>4 DEF Alert
  <2> QED BY <1>2, <1>4, <2>1, OneAwake
<1>5. CASE /\ res[p].cWriteQueue = << >> /\ UNCHANGED os
           /\ res' = [res EXCEPT ![p] = r1]
  <2>1. Alert(r1, os[p], FALSE, FALSE)
    BY <1>1, <1>5 DEF Alert, SPipeResource
  <2> HIDE DEF r1
  <2> QED BY <1>3, <1>4, <1>5, <2>1
<1>6. CASE /\ res[p].cWriteQueue # << >> /\ ~res[p].fWritePending
           /\ res' = [res EXCEPT ![p] = r2] /\ os' = [os EXCEPT ![p] = oP]
  <2>1. Alert(r2, oP, FALSE, FALSE)
    BY <1>1, <1>6 DEF Alert, SPipeResource, Instance
  <2> HIDE DEF r2, oP
  <2> QED BY <1>4, <1>6, <2>1
<1>7. CASE /\ res' = [res EXCEPT ![p] = PopWritten(r1)]
           /\ os' = [os EXCEPT ![p] = oI]
  <2>1. Alert(PopWritten(r1), oI, FALSE, FALSE)
    BY <1>1 DEF Alert, PopWritten, SPipeResource, Instance
  <2> HIDE DEF r1, oI
  <2> QED BY <1>4, <1>7, <2>1
<1>8. CASE /\ res[p].cWriteQueue # << >> /\ ~res[p].fWritePending /\ UNCHANGED os
           /\ res' = [res EXCEPT ![p] = PopWritten(r1)]
  <2>1. Alert(PopWritten(r1), os[p], FALSE, FALSE)
    BY <1>1, <1>8 DEF Alert, PopWritten, SPipeResource, Instance
  <2> HIDE DEF r1
  <2> QED BY <1>3, <1>4, <1>8, <2>1
<1>9. CASE /\ res[p].cWriteQueue # << >> /\ ~res[p].fWritePending /\ UNCHANGED os
           /\ res' = [res EXCEPT ![p] = PopWritten(w1)]
  <2>1. Alert(PopWritten(w1), os[p], FALSE, FALSE)
    BY <1>1, <1>9 DEF Alert, PopWritten, SPipeResource, Instance
  <2> HIDE DEF w1
  <2> QED BY <1>3, <1>4, <1>9, <2>1
<1>10. r.cWriteQueue = res[p].cWriteQueue /\ r.fWritePending = res[p].fWritePending
  BY <1>1 DEF SPipeResource
<1> QED BY <1>1, <1>5, <1>6, <1>7, <1>8, <1>9, <1>10 DEF OnWrite

\* A reply to an empty queue signals it; the others wait behind it.
LEMMA SendAwake ==
  ASSUME IInv, Events, NEW b \in Buffers, NEW id \in Ids, SendData(b, id),
         \A q \in Pipes : (Writing(q)' <=> Writing(q)) /\ (Reading(q)' <=> Reading(q))
  PROVE  Events'
<1>1. CASE UNCHANGED res
  BY <1>1 DEF SendData, system, Events, Awake, Alert
<1>2. ASSUME NEW p \in Addressees(id),
             res' = [res EXCEPT ![p] = Push(@, [pHead |-> b, to |-> id])]
      PROVE  Events'
  <2> DEFINE r == Push(res[p], [pHead |-> b, to |-> id])
  <2>1. /\ p \in Pipes /\ os[p].link # "none" /\ res[p] \in SPipeResource
        /\ [pHead |-> b, to |-> id] \in SData
    BY DEF Addressees, OpenPipes, IInv, TypeOK, SData
  <2>2. /\ r.cWriteQueue # << >> /\ r.hEvent = res[p].hEvent
        /\ r.fWritePending = res[p].fWritePending /\ r.fPending = res[p].fPending
        /\ r.hWriteEvent = (res[p].hWriteEvent \/ res[p].cWriteQueue = << >>)
    <3>1. r.cWriteQueue # << >>
      BY <2>1, PushType
    <3> QED BY <2>1, <3>1 DEF Push, SPipeResource
  <2>3. Alert(res[p], os[p], Writing(p), Reading(p))
    BY <2>1 DEF Events, Awake
  <2>4. Alert(r, os[p], Writing(p)', Reading(p)')
    BY <2>1, <2>2, <2>3 DEF Alert
  <2>5. res' = [res EXCEPT ![p] = r] /\ os' = [os EXCEPT ![p] = os[p]]
    BY <1>2 DEF SendData, system, IInv, TypeOK
  <2> HIDE DEF r
  <2> QED BY <2>1, <2>4, <2>5, OneAwake
<1> QED BY <1>1, <1>2 DEF SendData

\* The sends of device threads and of ProcessData.
LEMMA DevicesAwake ==
  ASSUME IInv, Events, DeviceSend \/ ProcessSent PROVE Events'
<1>1. CASE DeviceSend
  <2>1. PICK b \in Buffers, id \in KnownIds : SendData(b, id)
    BY <1>1 DEF DeviceSend
  <2>2. id \in Ids
    BY DEF KnownIds, IInv, TypeOK
  <2>3. UNCHANGED <<pc, cur, m_aPipes>>
    BY <1>1, <2>1 DEF DeviceSend, SendData, control
  <2> QED BY <2>1, <2>2, <2>3, ThreadStays, SendAwake
<1>2. CASE ProcessSent
  <2>1. PICK p \in Pipes : p = m_aPipes[cur] /\ res[p].llId \in Ids
    BY <1>2, HandledAwake DEF ProcessSent, SPipeResource
  <2>2. /\ pc = "sending" /\ pc' = "process" /\ cur' = cur /\ m_aPipes' = m_aPipes
    BY <1>2 DEF ProcessSent, SendData, GoTo, resources
  <2>3. \A q : (Writing(q)' <=> Writing(q)) /\ (Reading(q)' <=> Reading(q))
    BY <2>2 DEF Writing, Reading, Handling
  <2>4. CASE UNCHANGED <<resources, system>>
    BY <2>3, <2>4 DEF resources, system, Events, Awake, Alert
  <2> QED BY <1>2, <2>1, <2>3, <2>4, SendAwake DEF ProcessSent
<1> QED BY <1>1, <1>2

\* The steps that leave the instances alone.
LEMMA PassiveAwake ==
  ASSUME IInv, Events,
         \/ InitCommFails \/ KeepInstances \/ WaitDone \/ WaitEvent
         \/ ProcessSends \/ CloseBegin \/ CloseBlocks \/ OtherComms \/ UNCHANGED vars
  PROVE  Events'
<1>1. UNCHANGED <<m_aPipes, res, os>>
  BY DEF InitCommFails, KeepInstances, WaitDone, WaitEvent, ProcessSends,
     CloseBegin, CloseBlocks, OtherComms, vars, resources, system
<1>2. CASE WaitEvent
  <2>1. PICK i \in DOMAIN m_aPipes :
          /\ Signalled(i) /\ cur' = i /\ i > 0
          /\ pc' = IF res[m_aPipes[i]].hEvent THEN "onEvent" ELSE "onWrite"
    BY <1>2, LenProperties DEF WaitEvent, GoTo, IInv, TypeOK
  <2>2. PICK p \in Pipes : p = m_aPipes[i] /\ \A q \in Pipes : Handling(q)' <=> q = p
    BY <1>1, <2>1 DEF Handling, IInv, TypeOK, OpenPipes, Range
  <2>3. /\ \A q : ~Writing(q) /\ ~Reading(q)
        /\ Signalled(i) => res[p].hEvent \/ res[p].hWriteEvent
    BY <1>2, <2>2 DEF WaitEvent, Writing, Reading, Signalled
  <2>4. ASSUME NEW q \in Pipes, os[q].link # "none",
               Alert(res[q], os[q], FALSE, FALSE)
        PROVE  Alert(res[q], os[q], Writing(q)', Reading(q)')
    BY <2>1, <2>2, <2>3, <2>4 DEF Alert, Writing, Reading
  <2>5. \A q \in Pipes : os[q].link # "none" => Alert(res[q], os[q], FALSE, FALSE)
    BY <2>3 DEF Events, Awake, Alert
  <2> QED BY <1>1, <2>4, <2>5 DEF Events, Awake
<1>3. CASE ~WaitEvent
  <2>1. \A q : (Writing(q)' <=> Writing(q)) /\ (Reading(q)' <=> Reading(q))
    BY <1>1, <1>3 DEF InitCommFails, KeepInstances, WaitDone, ProcessSends,
       CloseBegin, CloseBlocks, OtherComms, vars, control, GoTo, Writing, Reading, Handling
  <2> QED BY <1>1, <2>1 DEF Events, Awake, Alert
<1> QED BY <1>2, <1>3

\* A client or the system ends an operation together with signalling its event.
LEMMA OutsideAwake ==
  ASSUME IInv, Events, NEW p \in Pipes, NEW r, NEW o,
         res' = [res EXCEPT ![p] = r], os' = [os EXCEPT ![p] = o],
         os[p].link # "none", UNCHANGED <<pc, cur, m_aPipes>>,
         r.cWriteQueue = res[p].cWriteQueue, r.fWritePending = res[p].fWritePending,
         r.fPending = res[p].fPending,
         \/ o.readIo = os[p].readIo /\ r.hEvent = res[p].hEvent
         \/ o.readIo # "pending" /\ r.hEvent,
         \/ o.writeIo = os[p].writeIo /\ r.hWriteEvent = res[p].hWriteEvent
         \/ os[p].writeIo # "idle" /\ o.writeIo # "pending" /\ r.hWriteEvent
  PROVE  Events'
<1>1. Alert(res[p], os[p], Writing(p), Reading(p))
  BY DEF Events, Awake
<1>2. \A q : (Writing(q)' <=> Writing(q)) /\ (Reading(q)' <=> Reading(q))
  BY ThreadStays
<1>3. Alert(r, o, Writing(p)', Reading(p)')
  BY <1>1, <1>2 DEF Alert
<1> QED BY <1>2, <1>3, OneAwake

\* A client that connects ends the connect the instance is listening with.
LEMMA ConnectAwake ==
  ASSUME IInv, Events, NEW p \in Pipes, ClientConnect(p) PROVE Events'
<1> DEFINE listening == os[p].readIo = "pending"
           r == [res[p] EXCEPT !.hEvent = @ \/ listening]
           o == [os[p] EXCEPT !.link = "open", !.client = nClients + 1,
                              !.readIo = IF listening THEN "ok" ELSE @]
<1>1. res[p] \in SPipeResource /\ os[p] \in Instance /\ os[p].link = "avail"
  BY DEF IInv, TypeOK, ClientConnect
<1>2. /\ r.cWriteQueue = res[p].cWriteQueue /\ r.fWritePending = res[p].fWritePending
      /\ r.fPending = res[p].fPending /\ r.hWriteEvent = res[p].hWriteEvent
      /\ o.writeIo = os[p].writeIo
      /\ \/ o.readIo = os[p].readIo /\ r.hEvent = res[p].hEvent
         \/ o.readIo # "pending" /\ r.hEvent
  BY <1>1 DEF SPipeResource, Instance
<1>3. /\ res' = [res EXCEPT ![p] = r] /\ os' = [os EXCEPT ![p] = o]
      /\ UNCHANGED <<pc, cur, m_aPipes>>
  BY DEF ClientConnect, IInv, TypeOK, control
<1> HIDE DEF r, o
<1> QED BY <1>1, <1>2, <1>3, OutsideAwake

\* A client that writes ends the read the thread is waiting with.
LEMMA ClientWriteAwake ==
  ASSUME IInv, Events, NEW p \in Pipes, ClientWrite(p) PROVE Events'
<1> DEFINE r == [res[p] EXCEPT !.hEvent = TRUE]
           o1(io) == [os[p] EXCEPT !.readIo = io]
           o2(m) == [os[p] EXCEPT !.inbox = Append(os[p].inbox, m)]
<1>1. /\ res[p] \in SPipeResource /\ os[p] \in Instance /\ os[p].link = "open"
      /\ UNCHANGED <<pc, cur, m_aPipes>>
  BY DEF IInv, TypeOK, ClientWrite, control
<1>2. /\ r.cWriteQueue = res[p].cWriteQueue /\ r.fWritePending = res[p].fWritePending
      /\ r.fPending = res[p].fPending /\ r.hWriteEvent = res[p].hWriteEvent
      /\ r.hEvent
  BY <1>1 DEF SPipeResource
<1>3. ASSUME NEW x
      PROVE  /\ o1(x).writeIo = os[p].writeIo /\ o1(x).readIo = x
             /\ o2(x).writeIo = os[p].writeIo /\ o2(x).readIo = os[p].readIo
  BY <1>1 DEF Instance
<1>4. \/ \E io \in {"ok", "failed"} :
           res' = [res EXCEPT ![p] = r] /\ os' = [os EXCEPT ![p] = o1(io)]
      \/ \E m : res' = [res EXCEPT ![p] = res[p]] /\ os' = [os EXCEPT ![p] = o2(m)]
  BY DEF ClientWrite, IInv, TypeOK
<1> HIDE DEF r, o1, o2
<1>5. ASSUME NEW io \in {"ok", "failed"}, res' = [res EXCEPT ![p] = r],
             os' = [os EXCEPT ![p] = o1(io)]
      PROVE  Events'
  BY <1>1, <1>2, <1>3, <1>5, OutsideAwake
<1>6. ASSUME NEW m, res' = [res EXCEPT ![p] = res[p]], os' = [os EXCEPT ![p] = o2(m)]
      PROVE  Events'
  BY <1>1, <1>3, <1>6, OutsideAwake
<1> QED BY <1>4, <1>5, <1>6

\* A client that takes a reply ends the write that brought it.
LEMMA ClientReadAwake ==
  ASSUME IInv, Events, NEW p \in Pipes, ClientRead(p) PROVE Events'
<1> DEFINE r == [res[p] EXCEPT !.hWriteEvent = TRUE]
           o == [os[p] EXCEPT !.writeIo = "ok"]
<1>1. /\ res[p] \in SPipeResource /\ os[p] \in Instance /\ os[p].link = "open"
      /\ UNCHANGED <<pc, cur, m_aPipes>> /\ os[p].writeIo = "pending"
  BY DEF IInv, TypeOK, ClientRead, control
<1>2. /\ r.cWriteQueue = res[p].cWriteQueue /\ r.fWritePending = res[p].fWritePending
      /\ r.fPending = res[p].fPending /\ r.hEvent = res[p].hEvent /\ r.hWriteEvent
      /\ o.writeIo = "ok" /\ o.readIo = os[p].readIo
  BY <1>1 DEF SPipeResource, Instance
<1>3. res' = [res EXCEPT ![p] = r] /\ os' = [os EXCEPT ![p] = o]
  BY DEF ClientRead
<1> HIDE DEF r, o
<1> QED BY <1>1, <1>2, <1>3, OutsideAwake

\* A client that leaves ends every operation on its instance.
LEMMA ClientCloseAwake ==
  ASSUME IInv, Events, NEW p \in Pipes, ClientClose(p) PROVE Events'
<1> DEFINE r == [res[p] EXCEPT !.hEvent = @ \/ os[p].readIo = "pending",
                               !.hWriteEvent = @ \/ os[p].writeIo = "pending"]
           o == [os[p] EXCEPT !.link = "broken", !.readIo = Ended(@),
                              !.writeIo = Ended(@)]
<1>1. /\ res[p] \in SPipeResource /\ os[p] \in Instance /\ os[p].link = "open"
      /\ UNCHANGED <<pc, cur, m_aPipes>>
  BY DEF IInv, TypeOK, ClientClose, control
<1>2. /\ r.cWriteQueue = res[p].cWriteQueue /\ r.fWritePending = res[p].fWritePending
      /\ r.fPending = res[p].fPending
      /\ r.hEvent = (res[p].hEvent \/ os[p].readIo = "pending")
      /\ r.hWriteEvent = (res[p].hWriteEvent \/ os[p].writeIo = "pending")
      /\ o.readIo = Ended(os[p].readIo) /\ o.writeIo = Ended(os[p].writeIo)
  BY <1>1 DEF SPipeResource, Instance
<1>3. /\ res[p].hEvent \in BOOLEAN /\ res[p].hWriteEvent \in BOOLEAN
      /\ res' = [res EXCEPT ![p] = r] /\ os' = [os EXCEPT ![p] = o]
  BY <1>1 DEF ClientClose, SPipeResource, IInv, TypeOK
<1> HIDE DEF r, o
<1>4. \/ o.readIo = os[p].readIo /\ r.hEvent = res[p].hEvent
      \/ o.readIo # "pending" /\ r.hEvent
  <2>1. CASE os[p].readIo = "pending"
    BY <1>2, <2>1 DEF Ended
  <2>2. CASE os[p].readIo # "pending"
    BY <1>2, <1>3, <2>2 DEF Ended
  <2> QED BY <2>1, <2>2
<1>5. \/ o.writeIo = os[p].writeIo /\ r.hWriteEvent = res[p].hWriteEvent
      \/ os[p].writeIo # "idle" /\ o.writeIo # "pending" /\ r.hWriteEvent
  <2>1. CASE os[p].writeIo = "pending"
    BY <1>2, <2>1 DEF Ended
  <2>2. CASE os[p].writeIo # "pending"
    BY <1>2, <1>3, <2>2 DEF Ended
  <2> QED BY <2>1, <2>2
<1> QED BY <1>1, <1>2, <1>3, <1>4, <1>5, OutsideAwake

\* So does a connect that the system ends.
LEMMA ConnectFailsAwake ==
  ASSUME IInv, Events, NEW p \in Pipes, ConnectFails(p) PROVE Events'
<1> DEFINE r == [res[p] EXCEPT !.hEvent = TRUE]
           o == [os[p] EXCEPT !.readIo = "failed"]
<1>1. /\ res[p] \in SPipeResource /\ os[p] \in Instance /\ os[p].link = "avail"
      /\ UNCHANGED <<pc, cur, m_aPipes>>
  BY DEF IInv, TypeOK, ConnectFails, control
<1>2. /\ r.cWriteQueue = res[p].cWriteQueue /\ r.fWritePending = res[p].fWritePending
      /\ r.fPending = res[p].fPending /\ r.hEvent /\ r.hWriteEvent = res[p].hWriteEvent
      /\ o.readIo = "failed" /\ o.writeIo = os[p].writeIo
  BY <1>1 DEF SPipeResource, Instance
<1>3. res' = [res EXCEPT ![p] = r] /\ os' = [os EXCEPT ![p] = o]
  BY DEF ConnectFails
<1> HIDE DEF r, o
<1> QED BY <1>1, <1>2, <1>3, OutsideAwake

\* Every step keeps the events.
LEMMA NextEvents == IInv /\ Events /\ [Next]_vars => Events'
<1> SUFFICES ASSUME IInv, Events, [Next]_vars PROVE Events'
  OBVIOUS
<1>1. CASE \E p \in Pipes : InitComm(p)
  BY <1>1, InitCommAwake
<1>2. CASE InitCommFails \/ UNCHANGED vars
  BY <1>2, PassiveAwake
<1>3. CASE PipeThread
  BY <1>3, AddInstanceAwake, PassiveAwake, OnCreatedAwake, OnConnectingAwake,
     OnReadingAwake, OnWriteAwake, ProcessReturnAwake, DevicesAwake DEF PipeThread
<1>4. CASE DeviceSend
  BY <1>4, DevicesAwake
<1>5. CASE Closer
  <2>1. CloseEnd => \A p \in Pipes : os'[p].link = "none"
    BY DEF CloseEnd, Unlinked
  <2>2. CloseEnd => Events'
    BY <2>1 DEF Events, Awake
  <2> QED BY <1>5, <2>2, PassiveAwake
    DEF Closer, Closing, CloseJoined, CloseTimeout
<1>6. ASSUME NEW p \in Pipes, Client(p) \/ ConnectFails(p) PROVE Events'
  BY <1>6, ConnectAwake, ClientWriteAwake, ClientReadAwake, ClientCloseAwake,
     ConnectFailsAwake DEF Client
<1>7. CASE OtherComms
  BY <1>7, PassiveAwake
<1> QED BY <1>1, <1>2, <1>3, <1>4, <1>5, <1>6, <1>7 DEF Next

\* The events in every reachable state.
LEMMA EventsAlways == Spec => []Events
<1>1. Init => Events
  BY DEF Init, Events, Awake, Unlinked
<1> QED BY <1>1, NextEvents, Inductive, PTL DEF Spec

\* The pipe thread never goes to sleep over a queue it has still to write.
THEOREM NoWriteForgotten == Spec => []WriteNotForgotten
<1>1. IInv /\ Events => WriteNotForgotten
  BY DEF IInv, TypeOK, Events, Awake, Alert, Writing, WriteNotForgotten
<1> QED BY <1>1, Inductive, EventsAlways, PTL

\* Nor over an instance it neither listens on nor reads from.
THEOREM NoReadForgotten == Spec => []ReadNotForgotten
<1>1. IInv /\ Events => ReadNotForgotten
  BY DEF IInv, TypeOK, Events, Awake, Alert, Reading, ReadNotForgotten
<1> QED BY <1>1, Inductive, EventsAlways, PTL

\* And it takes an overlapped operation for finished only when it is, whichever
\* of its two meanings the write event was set for.
THEOREM OneOperationEach == Spec => []OverlappedInStep
<1>1. IInv /\ Events => OverlappedInStep
  BY DEF IInv, TypeOK, Events, Awake, Alert, Writing, Reading, OverlappedInStep
<1> QED BY <1>1, Inductive, EventsAlways, PTL

-----------------------------------------------------------------------------
(* Queues and their bytes: what the steps do to a queue *)

\* The buffers in a queue without its first entry.
LEMMA TailHeads ==
  ASSUME NEW q \in Seq(SData), q # << >>, OnceIn(q)
  PROVE  /\ OnceIn(Tail(q)) /\ Head(q).pHead \in BuffersIn(q)
         /\ BuffersIn(Tail(q)) = BuffersIn(q) \ {Head(q).pHead}
<1> DEFINE N == Len(q)
           t == Tail(q)
<1>1. DOMAIN q = 1 .. N /\ N \in Nat \ {0}
  BY LenProperties, EmptySeq
<1>2. /\ t \in Seq(SData) /\ Len(t) = N - 1 /\ Head(q) = q[1]
      /\ \A n \in 1 .. N - 1 : t[n] = q[n + 1]
  BY <1>1, HeadTailProperties
<1>3. DOMAIN t = 1 .. N - 1
  BY <1>2, LenProperties
<1> HIDE DEF N, t
<1>4. \A n \in DOMAIN t : n + 1 \in DOMAIN q /\ n + 1 # 1 /\ t[n] = q[n + 1]
  BY <1>1, <1>2, <1>3
<1>5. \A m \in DOMAIN q : m # 1 => m - 1 \in DOMAIN t /\ t[m - 1] = q[m]
  <2> SUFFICES ASSUME NEW m \in DOMAIN q, m # 1
               PROVE  m - 1 \in DOMAIN t /\ t[m - 1] = q[m]
    OBVIOUS
  <2>1. m - 1 \in 1 .. N - 1 /\ m - 1 + 1 = m
    BY <1>1
  <2>2. t[m - 1] = q[m - 1 + 1]
    BY <1>2, <2>1
  <2> QED BY <1>3, <2>1, <2>2
<1>6. OnceIn(t)
  <2> SUFFICES ASSUME NEW m \in DOMAIN t, NEW n \in DOMAIN t, t[m].pHead = t[n].pHead
               PROVE  m = n
    BY DEF OnceIn
  <2>1. m + 1 = n + 1
    BY <1>4 DEF OnceIn
  <2> QED BY <1>1, <1>3, <2>1
<1>7. \A n \in DOMAIN t : t[n].pHead \in BuffersIn(q) /\ t[n].pHead # q[1].pHead
  BY <1>1, <1>4 DEF OnceIn, BuffersIn
<1>8. \A m \in DOMAIN q : q[m].pHead # q[1].pHead => q[m].pHead \in BuffersIn(t)
  BY <1>5 DEF BuffersIn
<1>9. BuffersIn(t) = BuffersIn(q) \ {q[1].pHead}
  BY <1>7, <1>8 DEF BuffersIn
<1>10. q[1].pHead \in BuffersIn(q)
  BY <1>1 DEF BuffersIn
<1> QED BY <1>2, <1>6, <1>9, <1>10 DEF t

\* And with a further one.
LEMMA AppendHeads ==
  ASSUME NEW q \in Seq(SData), OnceIn(q), NEW d \in SData, d.pHead \notin BuffersIn(q)
  PROVE  /\ OnceIn(Append(q, d))
         /\ BuffersIn(Append(q, d)) = BuffersIn(q) \cup {d.pHead}
<1> DEFINE N == Len(q)
           t == Append(q, d)
<1>1. DOMAIN q = 1 .. N /\ N \in Nat
  BY LenProperties
<1>2. /\ t \in Seq(SData) /\ Len(t) = N + 1 /\ t[N + 1] = d
      /\ \A n \in 1 .. N : t[n] = q[n]
  BY <1>1, AppendProperties
<1>3. DOMAIN t = 1 .. N + 1
  BY <1>2, LenProperties
<1>4. \A n \in 1 .. N + 1 : n = N + 1 \/ n \in 1 .. N
  BY <1>1
<1>5. N + 1 \in 1 .. N + 1 /\ \A n \in 1 .. N : n \in 1 .. N + 1
  BY <1>1
<1> HIDE DEF N, t
<1>6. \A n \in 1 .. N : t[n].pHead # d.pHead
  BY <1>1, <1>2 DEF BuffersIn
<1>7. OnceIn(t)
  BY <1>1, <1>2, <1>3, <1>4, <1>6 DEF OnceIn
<1>8. BuffersIn(t) = BuffersIn(q) \cup {d.pHead}
  BY <1>1, <1>2, <1>3, <1>4, <1>5 DEF BuffersIn
<1> QED BY <1>7, <1>8 DEF t

\* The buffers of every queue are held, and of the held ones there are no more.
LEMMA HeldInQueues ==
  ASSUME IInv, Queues
  PROVE  /\ Held \in SUBSET Buffers
         /\ \A p \in Pipes : Heads(p) \in SUBSET Held
         /\ \A p \in Pipes : res[p].cWriteQueue \in Seq(SData)
  BY DEF IInv, TypeOK, SPipeResource, Queues, Held

\* A step that changes one queue.
LEMMA OneQueue ==
  ASSUME IInv, Queues, NEW p \in Pipes, NEW r, NEW o,
         res' = [res EXCEPT ![p] = r], os' = [os EXCEPT ![p] = o],
         o.link = "none" => r.cWriteQueue = << >>,
         OnceIn(r.cWriteQueue),
         \A q \in Pipes : q # p => BuffersIn(r.cWriteQueue) \cap Heads(q) = {},
         Held' = (Held \ Heads(p)) \cup BuffersIn(r.cWriteQueue)
  PROVE  Queues'
<1>1. res'[p] = r /\ os'[p] = o /\ Heads(p)' = BuffersIn(r.cWriteQueue)
  BY DEF IInv, TypeOK, Heads
<1>2. \A q \in Pipes : q # p => res'[q] = res[q] /\ os'[q] = os[q] /\ Heads(q)' = Heads(q)
  BY DEF IInv, TypeOK, Heads
<1>3. Held' = UNION {Heads(q)' : q \in Pipes}
  <2>1. \A b \in Held' : \E q \in Pipes : b \in Heads(q)'
    BY <1>1, <1>2 DEF Queues
  <2>2. \A q \in Pipes : \A b \in Heads(q)' : b \in Held'
    BY <1>1, <1>2 DEF Queues
  <2> QED BY <2>1, <2>2
<1>4. \A q \in Pipes : OnceIn(res'[q].cWriteQueue)
  BY <1>1, <1>2 DEF Queues
<1>5. \A q \in Pipes : os'[q].link = "none" => res'[q].cWriteQueue = << >>
  BY <1>1, <1>2 DEF Queues
<1>6. \A x, y \in Pipes : x # y => Heads(x)' \cap Heads(y)' = {}
  BY <1>1, <1>2 DEF Queues
<1> QED BY <1>3, <1>4, <1>5, <1>6 DEF Queues

Accounts == Queues /\ BytesAccounted /\ elsewhere \in Nat

\* A step that changes none, and tells no device anything about its buffers.
LEMMA SameQueues ==
  ASSUME Accounts, UNCHANGED <<elsewhere, status, s_llQueueBytes>>,
         \A p \in Pipes : /\ res'[p].cWriteQueue = res[p].cWriteQueue
                          /\ os'[p].link = "none" => os[p].link = "none"
  PROVE  Accounts'
<1>1. \A p \in Pipes : Heads(p)' = Heads(p)
  BY DEF Heads
<1>2. Held' = Held /\ BytesAccounted' /\ elsewhere' \in Nat
  BY DEF Held, Accounts, BytesAccounted
<1> QED BY <1>1, <1>2 DEF Accounts, Queues

\* Buffers that leave a queue are told of and no longer counted.
LEMMA QueueShrinks ==
  ASSUME IInv, Accounts, UNCHANGED elsewhere, NEW p \in Pipes, NEW r, NEW o, NEW G \in SUBSET Heads(p),
         NEW bPass \in BOOLEAN, Result(G, bPass), DecreaseQueue(G),
         res' = [res EXCEPT ![p] = r], os' = [os EXCEPT ![p] = o],
         o.link = "none" => r.cWriteQueue = << >>,
         OnceIn(r.cWriteQueue), BuffersIn(r.cWriteQueue) = Heads(p) \ G
  PROVE  Accounts'
<1>1. /\ Held \in SUBSET Buffers /\ Heads(p) \in SUBSET Held /\ G \in SUBSET Held
      /\ Queues
  BY HeldInQueues DEF Accounts
<1>2. Held' = Held \ G
  <2>1. \A b \in Buffers : status'[b] = "held" <=> status[b] = "held" /\ b \notin G
    BY DEF Result
  <2> QED BY <2>1 DEF Held
<1>3. \A q \in Pipes : q # p => BuffersIn(r.cWriteQueue) \cap Heads(q) = {}
  BY <1>1 DEF Queues
<1>4. Held' = (Held \ Heads(p)) \cup BuffersIn(r.cWriteQueue)
  BY <1>1, <1>2
<1>5. Queues'
  BY <1>1, <1>3, <1>4, OneQueue
<1>6. BytesAccounted'
  <2>1. Bytes(Held \ G) = Bytes(Held) - Bytes(G) /\ Bytes(Held) \in Nat /\ Bytes(G) \in Nat
    BY <1>1, BytesLess, BytesType
  <2>2. /\ s_llQueueBytes = IF Limited THEN Bytes(Held) + elsewhere ELSE 0
        /\ Limited => s_llQueueBytes <= MaxQueueBytes
    BY DEF Accounts, BytesAccounted, Held
  <2>3. s_llQueueBytes' = IF Limited THEN Bytes(Held') + elsewhere' ELSE 0
    BY <1>2, <2>1, <2>2 DEF DecreaseQueue, Accounts
  <2>4. Limited => s_llQueueBytes' <= MaxQueueBytes
    <3>1. MaxQueueBytes \in Int /\ elsewhere \in Nat
      BY PipeServerAssumption DEF Accounts
    <3> QED BY <1>2, <2>1, <2>2, <2>3, <3>1
  <2> QED BY <2>3, <2>4 DEF BytesAccounted, Held, Limited
<1> QED BY <1>5, <1>6 DEF Accounts

-----------------------------------------------------------------------------
(* Queues and their bytes: one lemma for each step that disturbs them *)

\* A dropped instance gives up what it has queued.
LEMMA DropAccounts ==
  ASSUME IInv, Accounts, UNCHANGED elsewhere, NEW p \in Pipes, os[p].link # "none",
         NEW i \in DOMAIN m_aPipes, p = m_aPipes[i], DropInstance(i)
  PROVE  Accounts'
<1>1. res[p] \in SPipeResource /\ Session(p)
  BY DEF IInv, TypeOK, Sessions
<1>2. OnceIn(<< >>) /\ BuffersIn(<< >>) = {}
  BY DEF OnceIn, BuffersIn
<1>3. CASE ResetInstance(p)
  <2> DEFINE r == [ResetResource(res[p]) EXCEPT !.llId = m_llNextId,
                     !.cWriteQueue = IF res[p].eStatus = "kReading" THEN << >>
                                                           ELSE res[p].cWriteQueue]
             G == Cleared(res[p])
  <2>1. r.cWriteQueue = << >>
    BY <1>1 DEF ResetResource, SPipeResource, Session
  <2>2. G = Heads(p)
    BY <1>1, <1>2 DEF Cleared, Heads, Session
  <2>3. /\ res' = [res EXCEPT ![p] = r] /\ os' = [os EXCEPT ![p] = Unlinked("off")]
        /\ Result(G, FALSE) /\ DecreaseQueue(G)
    BY <1>3 DEF ResetInstance, r
  <2>4. BuffersIn(r.cWriteQueue) = Heads(p) \ G /\ OnceIn(r.cWriteQueue)
    BY <1>2, <2>1, <2>2
  <2>5. Unlinked("off").link = "none" => r.cWriteQueue = << >>
    BY <2>1
  <2> HIDE DEF r, G
  <2> QED BY <2>2, <2>3, <2>4, <2>5, QueueShrinks
<1>4. CASE DeleteInstance(i)
  <2> DEFINE r == NewResource(0, FALSE)
             G == BuffersIn(res[p].cWriteQueue)
  <2>1. r.cWriteQueue = << >> /\ G = Heads(p)
    BY DEF NewResource, Heads
  <2>2. /\ res' = [res EXCEPT ![p] = r] /\ os' = [os EXCEPT ![p] = Unlinked("none")]
        /\ Result(G, FALSE) /\ DecreaseQueue(G)
    BY <1>4 DEF DeleteInstance
  <2>3. BuffersIn(r.cWriteQueue) = Heads(p) \ G /\ OnceIn(r.cWriteQueue)
    BY <1>2, <2>1
  <2>4. Unlinked("none").link = "none" => r.cWriteQueue = << >>
    BY <2>1
  <2> HIDE DEF r, G
  <2> QED BY <2>1, <2>2, <2>3, <2>4, QueueShrinks
<1> QED BY <1>3, <1>4 DEF DropInstance

\* A new instance has an empty queue, as had the handle it takes.
LEMMA OpensAccounts ==
  ASSUME IInv, Accounts, UNCHANGED elsewhere, (\E p \in Pipes : InitComm(p)) \/ AddInstance
  PROVE  Accounts'
<1>1. UNCHANGED <<status, s_llQueueBytes>>
  BY DEF InitComm, AddInstance
<1>2. ASSUME NEW p \in Pipes, os[p].link = "none", OpeningOf(p)
      PROVE  Accounts'
  <2>1. \A q \in Pipes : /\ res'[q].cWriteQueue = res[q].cWriteQueue
                         /\ os'[q].link = "none" => os[q].link = "none"
    BY <1>2 DEF OpeningOf, Fresh, Accounts, Queues, IInv, TypeOK
  <2> QED BY <1>1, <2>1, SameQueues
<1>3. CASE UNCHANGED <<res, os>>
  BY <1>1, <1>3, SameQueues
<1>4. \A p \in Pipes : InitComm(p) => os[p].link = "none"
  BY DEF InitComm
<1> QED BY <1>2, <1>3, <1>4, InitCommOpens, AddInstanceOpens DEF IInv

\* The handlers of hEvent that do not drop the instance only move its session on,
\* and tell no device anything.
LEMMA HandlersAdvance ==
  ASSUME IInv, OnCreated \/ OnConnecting \/ OnReading \/ ProcessReturn, ~Dropped
  PROVE  AdvanceOf(m_aPipes[cur]) /\ UNCHANGED <<status, s_llQueueBytes>>
<1>1. PICK p \in Pipes : /\ p = m_aPipes[cur] /\ Session(p) /\ os[p].link # "none"
  BY HandledPipe DEF OnCreated, OnConnecting, OnReading, ProcessReturn, IInv, Sessions
<1>2. ProcessReturn => res[p].eStatus = "kReading"
  BY <1>1 DEF ProcessReturn, IInv, ThreadServed, Handled, Session
<1>3. AdvanceOf(p)
  BY <1>1, <1>2, OnCreatedAdvances, OnConnectingAdvances, OnReadingAdvances,
     ProcessReturnAdvances DEF IInv
<1>4. OnCreated => UNCHANGED <<status, s_llQueueBytes>>
  BY DEF OnCreated, Dropped, history
<1>5. OnConnecting => UNCHANGED <<status, s_llQueueBytes>>
  BY DEF OnConnecting, Dropped
<1>6. ASSUME NEW r, ReadNext(p, r) PROVE UNCHANGED <<status, s_llQueueBytes>>
  BY <1>6 DEF ReadNext, Dropped
<1>7. OnReading => UNCHANGED <<status, s_llQueueBytes>>
  BY <1>1, <1>6 DEF OnReading, Dropped
<1>8. ProcessReturn => UNCHANGED <<status, s_llQueueBytes>>
  BY <1>1, <1>6 DEF ProcessReturn
<1> QED BY <1>1, <1>3, <1>4, <1>5, <1>7, <1>8

\* The handlers of hEvent leave the queue alone, unless they drop the instance.
LEMMA HandlersAccount ==
  ASSUME IInv, Accounts, UNCHANGED elsewhere, OnCreated \/ OnConnecting \/ OnReading \/ ProcessReturn
  PROVE  Accounts'
<1>1. PICK p \in Pipes : /\ p = m_aPipes[cur] /\ os[p].link # "none"
                         /\ cur \in DOMAIN m_aPipes
  BY HandledPipe DEF OnCreated, OnConnecting, OnReading, ProcessReturn, IInv, Sessions
<1>2. CASE Dropped
  BY <1>1, <1>2, DropAccounts DEF Dropped
<1>3. CASE ~Dropped
  <2>1. AdvanceOf(p) /\ UNCHANGED <<status, s_llQueueBytes>>
    BY <1>1, <1>3, HandlersAdvance
  <2>2. \A q \in Pipes : /\ res'[q].cWriteQueue = res[q].cWriteQueue
                         /\ os'[q].link = "none" => os[q].link = "none"
    BY <2>1 DEF AdvanceOf, Advanced, IInv, TypeOK
  <2> QED BY <2>1, <2>2, SameQueues
<1> QED BY <1>2, <1>3

\* A write that has ended takes the first entry from the queue.
LEMMA WriteAccounts ==
  ASSUME IInv, Accounts, UNCHANGED elsewhere, OnWrite PROVE Accounts'
<1>1. PICK p \in Pipes : /\ p = m_aPipes[cur] /\ os[p].link # "none"
                         /\ res[p] \in SPipeResource /\ os[p] \in Instance
  BY HandledPipe DEF OnWrite, IInv, TypeOK
<1> DEFINE r == [res[p] EXCEPT !.hWriteEvent = FALSE]
           w == [r EXCEPT !.hWriteEvent = TRUE]
           Ready(s) == [s EXCEPT !.fWritePending = FALSE]
           r2 == [r EXCEPT !.fWritePending = TRUE]
           d == Head(res[p].cWriteQueue)
           oI == [os[p] EXCEPT !.writeIo = "idle"]
           oP == [os[p] EXCEPT !.writeIo = "pending"]
<1>2. /\ r.cWriteQueue = res[p].cWriteQueue /\ Ready(r).cWriteQueue = res[p].cWriteQueue
      /\ r2.cWriteQueue = res[p].cWriteQueue /\ Ready(w).cWriteQueue = res[p].cWriteQueue
      /\ PopWritten(Ready(r)).cWriteQueue = Tail(res[p].cWriteQueue)
      /\ PopWritten(Ready(w)).cWriteQueue = Tail(res[p].cWriteQueue)
  BY <1>1 DEF SPipeResource, PopWritten
<1>3. os[p].link = oI.link /\ oP.link = os[p].link
  BY <1>1 DEF Instance
<1>4. UNCHANGED os => os' = [os EXCEPT ![p] = os[p]]
  BY DEF IInv, TypeOK
<1>5. ASSUME UNCHANGED <<status, s_llQueueBytes>>, NEW s, NEW o,
             res' = [res EXCEPT ![p] = s], s.cWriteQueue = res[p].cWriteQueue,
             os' = [os EXCEPT ![p] = o], o.link = os[p].link
      PROVE  Accounts'
  <2>1. \A q \in Pipes : /\ res'[q].cWriteQueue = res[q].cWriteQueue
                         /\ os'[q].link = "none" => os[q].link = "none"
    BY <1>5 DEF IInv, TypeOK
  <2> QED BY <1>5, <2>1, SameQueues
<1>6. ASSUME res[p].cWriteQueue # << >>, NEW bPass \in BOOLEAN,
             Result({d.pHead}, bPass), DecreaseQueue({d.pHead}), NEW s, NEW o,
             res' = [res EXCEPT ![p] = s], s.cWriteQueue = Tail(res[p].cWriteQueue),
             os' = [os EXCEPT ![p] = o], o.link = os[p].link
      PROVE  Accounts'
  <2>1. res[p].cWriteQueue \in Seq(SData) /\ OnceIn(res[p].cWriteQueue)
    BY HeldInQueues DEF Accounts, Queues
  <2>2. /\ OnceIn(s.cWriteQueue) /\ {d.pHead} \in SUBSET Heads(p)
        /\ BuffersIn(s.cWriteQueue) = Heads(p) \ {d.pHead}
    BY <1>6, <2>1, TailHeads DEF Heads
  <2>3. o.link # "none"
    BY <1>1, <1>6
  <2> HIDE DEF d
  <2> QED BY <1>6, <2>2, <2>3, QueueShrinks
<1>7. WritePassed(p) \in BOOLEAN
  BY DEF WritePassed
<1>8. \/ /\ UNCHANGED <<status, s_llQueueBytes>> /\ UNCHANGED os
         /\ res' = [res EXCEPT ![p] = Ready(r)]
      \/ /\ UNCHANGED <<status, s_llQueueBytes>> /\ os' = [os EXCEPT ![p] = oP]
         /\ res' = [res EXCEPT ![p] = r2]
      \/ /\ res[p].cWriteQueue # << >> /\ os' = [os EXCEPT ![p] = oI]
         /\ res' = [res EXCEPT ![p] = PopWritten(Ready(r))]
         /\ Result({d.pHead}, WritePassed(p)) /\ DecreaseQueue({d.pHead})
      \/ /\ res[p].cWriteQueue # << >> /\ UNCHANGED os
         /\ \/ /\ res' = [res EXCEPT ![p] = PopWritten(Ready(w))]
               /\ Result({d.pHead}, TRUE)
            \/ /\ res' = [res EXCEPT ![p] = PopWritten(Ready(r))]
               /\ Result({d.pHead}, FALSE)
         /\ DecreaseQueue({d.pHead})
  BY <1>1, <1>2 DEF OnWrite
<1> DEFINE rr == Ready(r)
           pr == PopWritten(Ready(r))
           pw == PopWritten(Ready(w))
<1>9. /\ rr.cWriteQueue = res[p].cWriteQueue
      /\ pr.cWriteQueue = Tail(res[p].cWriteQueue)
      /\ pw.cWriteQueue = Tail(res[p].cWriteQueue)
  BY <1>2
<1>10. /\ Ready(r) = rr /\ PopWritten(Ready(r)) = pr /\ PopWritten(Ready(w)) = pw
  OBVIOUS
<1> HIDE DEF r, w, r2, d, oI, oP, Ready, rr, pr, pw
<1> QED BY <1>2, <1>3, <1>4, <1>5, <1>6, <1>7, <1>8, <1>9, <1>10

\* SendData takes a buffer nobody holds to the end of one queue, if it fits.
LEMMA SendAccounts ==
  ASSUME IInv, Accounts, UNCHANGED elsewhere, NEW b \in Buffers, NEW id \in Ids, SendData(b, id)
  PROVE  Accounts'
<1>1. /\ b \in Buffers \ Held /\ Held \in SUBSET Buffers /\ Queues /\ BytesAccounted
      /\ UNCHANGED os
  BY HeldInQueues DEF SendData, DeviceOwned, Held, Accounts, system
<1>2. CASE UNCHANGED <<res, s_llQueueBytes>> /\ status' = [status EXCEPT ![b] = "refused"]
  <2>1. Held' = Held
    BY <1>1, <1>2 DEF Held, IInv, TypeOK
  <2>2. \A p \in Pipes : Heads(p)' = Heads(p)
    BY <1>2 DEF Heads
  <2>3. BytesAccounted'
    BY <1>1, <1>2, <2>1 DEF BytesAccounted, Held
  <2> QED BY <1>1, <1>2, <2>1, <2>2, <2>3 DEF Accounts, Queues
<1>3. ASSUME NEW p \in Addressees(id), Room(b),
             res' = [res EXCEPT ![p] = Push(@, [pHead |-> b, to |-> id])],
             s_llQueueBytes' =
               IF Limited THEN s_llQueueBytes + Size[b] ELSE s_llQueueBytes,
             status' = [status EXCEPT ![b] = "held"]
      PROVE  Accounts'
  <2> DEFINE d == [pHead |-> b, to |-> id]
             r == Push(res[p], d)
  <2>1. /\ p \in Pipes /\ os[p].link # "none" /\ res[p] \in SPipeResource
        /\ d \in SData /\ d.pHead = b
    BY DEF Addressees, OpenPipes, IInv, TypeOK, SData
  <2>2. res[p].cWriteQueue \in Seq(SData) /\ b \notin Heads(p) /\ OnceIn(res[p].cWriteQueue)
    BY <1>1, <2>1, HeldInQueues DEF Queues
  <2>3. r.cWriteQueue = Append(res[p].cWriteQueue, d)
    BY <2>1 DEF Push, SPipeResource
  <2>4. res' = [res EXCEPT ![p] = r] /\ os' = [os EXCEPT ![p] = os[p]]
    BY <1>1, <1>3 DEF IInv, TypeOK
  <2> HIDE DEF d, r
  <2>5. OnceIn(r.cWriteQueue) /\ BuffersIn(r.cWriteQueue) = Heads(p) \cup {b}
    BY <2>1, <2>2, <2>3, AppendHeads DEF Heads
  <2>6. Held' = Held \cup {b}
    BY <1>3 DEF Held, IInv, TypeOK
  <2>7. \A q \in Pipes : q # p => BuffersIn(r.cWriteQueue) \cap Heads(q) = {}
    BY <1>1, <2>1, <2>5, HeldInQueues DEF Queues
  <2>8. Held' = (Held \ Heads(p)) \cup BuffersIn(r.cWriteQueue)
    BY <1>1, <2>1, <2>5, <2>6, HeldInQueues
  <2>9. Queues'
    BY <1>1, <2>1, <2>4, <2>5, <2>7, <2>8, OneQueue
  <2>10. BytesAccounted'
    <3>1. Bytes(Held \cup {b}) = Bytes(Held) + Size[b]
      BY <1>1, BytesMore
    <3>2. /\ s_llQueueBytes = IF Limited THEN Bytes(Held) + elsewhere ELSE 0
      BY <1>1 DEF BytesAccounted, Held
    <3>3. s_llQueueBytes' = IF Limited THEN Bytes(Held') + elsewhere' ELSE 0
      <4>1. Bytes(Held) \in Nat /\ Size[b] \in Nat /\ elsewhere \in Nat
        BY <1>1, BytesType, PipeServerAssumption DEF Accounts
      <4> QED BY <1>3, <2>6, <3>1, <3>2, <4>1
    <3>4. Limited => s_llQueueBytes' <= MaxQueueBytes
      BY <1>3 DEF Room
    <3> QED BY <3>3, <3>4 DEF BytesAccounted, Held, Limited
  <2> QED BY <2>9, <2>10 DEF Accounts
<1> QED BY <1>2, <1>3 DEF SendData

\* The sends of device threads and of ProcessData.
LEMMA DevicesAccount ==
  ASSUME IInv, Accounts, UNCHANGED elsewhere, DeviceSend \/ ProcessSent PROVE Accounts'
<1>1. CASE DeviceSend
  <2>1. PICK b \in Buffers, id \in KnownIds : SendData(b, id)
    BY <1>1 DEF DeviceSend
  <2>2. id \in Ids
    BY DEF KnownIds, IInv, TypeOK
  <2> QED BY <2>1, <2>2, SendAccounts
<1>2. CASE ProcessSent
  <2>1. m_aPipes[cur] \in Pipes /\ res[m_aPipes[cur]].llId \in Ids
    BY <1>2, HandledPipe DEF ProcessSent, IInv, TypeOK, SPipeResource
  <2>2. CASE UNCHANGED <<resources, system, s_llQueueBytes, status, history>>
    BY <2>2, SameQueues DEF resources, system
  <2> QED BY <1>2, <2>1, <2>2, SendAccounts DEF ProcessSent
<1> QED BY <1>1, <1>2

\* Close gives up everything.
LEMMA CloseAccounts ==
  ASSUME IInv, Accounts, UNCHANGED elsewhere, CloseEnd PROVE Accounts'
<1>1. Held \in SUBSET Buffers /\ Queues
  BY HeldInQueues DEF Accounts
<1>2. StillQueued = Held
  <2>1. \A p \in Pipes : p \notin Range(m_aPipes) => Heads(p) = {}
    BY <1>1 DEF IInv, TypeOK, OpenPipes, Queues, Heads, BuffersIn
  <2>2. \A p \in Range(m_aPipes) : p \in Pipes
    BY DEF IInv, TypeOK, OpenPipes
  <2>3. StillQueued \subseteq Held
    BY <1>1, <2>2 DEF StillQueued, Queues, Heads
  <2>4. Held \subseteq StillQueued
    BY <1>1, <2>1 DEF StillQueued, Queues, Heads
  <2> QED BY <2>3, <2>4
<1>3. Held' = {}
  BY <1>2 DEF CloseEnd, Result, Held
<1>4. \A p \in Pipes : res'[p].cWriteQueue = << >>
  BY DEF CloseEnd, NewResource
<1>5. Queues'
  BY <1>3, <1>4 DEF Queues, Heads, BuffersIn, OnceIn
<1>6. BytesAccounted'
  <2>1. Bytes({}) = 0
    BY FS_EmptySet, BytesPicked
  <2>2. s_llQueueBytes = IF Limited THEN Bytes(Held) + elsewhere ELSE 0
    BY DEF Accounts, BytesAccounted, Held
  <2>3. s_llQueueBytes' = IF Limited THEN s_llQueueBytes - Bytes(Held) ELSE s_llQueueBytes
    BY <1>2 DEF CloseEnd, DecreaseQueue
  <2>4. Bytes(Held) \in Nat
    BY <1>1, BytesType
  <2>5. /\ s_llQueueBytes' = IF Limited THEN 0 + elsewhere' ELSE 0
        /\ Limited => s_llQueueBytes' <= s_llQueueBytes
    BY <2>2, <2>3, <2>4 DEF Accounts
  <2>6. Limited => s_llQueueBytes' <= MaxQueueBytes
    <3>1. Limited => s_llQueueBytes <= MaxQueueBytes /\ s_llQueueBytes \in Int
      BY <2>2, <2>4 DEF Accounts, BytesAccounted
    <3> QED BY <2>4, <2>3, <3>1, PipeServerAssumption
  <2>7. {b \in Buffers : status'[b] = "held"} = {}
    BY <1>3 DEF Held
  <2> QED BY <2>1, <2>5, <2>6, <2>7 DEF BytesAccounted, Limited
<1> QED BY <1>5, <1>6 DEF Accounts

\* Clients and the system open no handle and close none.
LEMMA SameLinks ==
  ASSUME IInv, NEW p \in Pipes, Client(p) \/ ConnectFails(p)
  PROVE  \A q \in Pipes : os'[q].link = "none" => os[q].link = "none"
<1>1. os[p] \in Instance /\ os[p].link # "none"
  BY DEF Client, ClientConnect, ClientWrite, ClientRead, ClientClose, ConnectFails,
     IInv, TypeOK
<1>2. \A q \in Pipes : q # p => os'[q] = os[q]
  BY DEF Client, ClientConnect, ClientWrite, ClientRead, ClientClose,
     ConnectFails, IInv, TypeOK
<1>3. os'[p].link # "none"
  <2>1. CASE ClientConnect(p) \/ ClientClose(p)
    BY <1>1, <2>1 DEF ClientConnect, ClientClose, IInv, TypeOK, Instance
  <2>2. CASE ClientWrite(p) \/ ClientRead(p) \/ ConnectFails(p)
    BY <1>1, <2>2 DEF ClientWrite, ClientRead, ConnectFails, IInv, TypeOK, Instance
  <2> QED BY <2>1, <2>2 DEF Client
<1> QED BY <1>1, <1>2, <1>3

\* Nor do they touch anything of an instance but its events.
LEMMA OutsideResource ==
  ASSUME IInv, NEW p \in Pipes, Client(p) \/ ConnectFails(p)
  PROVE  \E r : /\ res' = [res EXCEPT ![p] = r]
               /\ r.cWriteQueue = res[p].cWriteQueue
               /\ r.eStatus = res[p].eStatus /\ r.llId = res[p].llId
<1> DEFINE Only(r) == /\ r.cWriteQueue = res[p].cWriteQueue
                       /\ r.eStatus = res[p].eStatus /\ r.llId = res[p].llId
           E(v) == [res[p] EXCEPT !.hEvent = v]
           W(v) == [res[p] EXCEPT !.hWriteEvent = v]
           EW(v, x) == [res[p] EXCEPT !.hEvent = v, !.hWriteEvent = x]
<1>1. res[p] \in SPipeResource
  BY DEF IInv, TypeOK
<1>2. \A v, x : Only(E(v)) /\ Only(W(v)) /\ Only(EW(v, x)) /\ Only(res[p])
  BY <1>1 DEF SPipeResource
<1>3. res' = [res EXCEPT ![p] = res[p]] <=> UNCHANGED res
  BY DEF IInv, TypeOK
<1>4. ClientConnect(p) => \E v : res' = [res EXCEPT ![p] = E(v)]
  BY DEF ClientConnect
<1>5. ClientWrite(p) => UNCHANGED res \/ res' = [res EXCEPT ![p] = E(TRUE)]
  BY DEF ClientWrite
<1>6. ClientRead(p) => res' = [res EXCEPT ![p] = W(TRUE)]
  BY DEF ClientRead
<1>7. ClientClose(p) => \E v, x : res' = [res EXCEPT ![p] = EW(v, x)]
  <2>1. SUFFICES ASSUME ClientClose(p)
                 PROVE  res' = [res EXCEPT ![p] = EW(
                           res[p].hEvent \/ os[p].readIo = "pending",
                           res[p].hWriteEvent \/ os[p].writeIo = "pending")]
    OBVIOUS
  <2> QED BY <2>1 DEF ClientClose, IInv, TypeOK
<1>8. ConnectFails(p) => res' = [res EXCEPT ![p] = E(TRUE)]
  BY DEF ConnectFails
<1> HIDE DEF Only, E, W, EW
<1>9. \E r : res' = [res EXCEPT ![p] = r] /\ Only(r)
  BY <1>2, <1>3, <1>4, <1>5, <1>6, <1>7, <1>8 DEF Client
<1> QED BY <1>9 DEF Only

\* What clients and the system do to an instance leaves the queue alone.
LEMMA OutsideAccounts ==
  ASSUME IInv, Accounts, UNCHANGED elsewhere, NEW p \in Pipes, Client(p) \/ ConnectFails(p)
  PROVE  Accounts'
<1>1. UNCHANGED <<status, s_llQueueBytes>>
  BY DEF Client, ClientConnect, ClientWrite, ClientRead, ClientClose, ConnectFails
<1>2. \A q \in Pipes : res'[q].cWriteQueue = res[q].cWriteQueue
  BY OutsideResource DEF IInv, TypeOK
<1> QED BY <1>1, <1>2, SameLinks, SameQueues

\* Every step keeps the queues and their account.
LEMMA NextAccounts == IInv /\ Accounts /\ [Next]_vars => Accounts'
<1> SUFFICES ASSUME IInv, Accounts, [Next]_vars PROVE Accounts'
  OBVIOUS
<1>1. CASE \E p \in Pipes : InitComm(p)
  BY <1>1, OpensAccounts DEF InitComm, others
<1>2. ASSUME \/ InitCommFails \/ KeepInstances \/ WaitDone \/ WaitEvent
             \/ ProcessSends \/ CloseBegin \/ CloseBlocks \/ UNCHANGED vars,
             UNCHANGED elsewhere
      PROVE  Accounts'
  <2>1. UNCHANGED <<res, os, status, s_llQueueBytes>>
    BY <1>2 DEF InitCommFails, KeepInstances, WaitDone, WaitEvent, ProcessSends,
       CloseBegin, CloseBlocks, vars, resources, system
  <2> QED BY <1>2, <2>1, SameQueues
<1>3. CASE PipeThread
  BY <1>2, <1>3, OpensAccounts, HandlersAccount, WriteAccounts, DevicesAccount
  DEF PipeThread
<1>4. CASE DeviceSend
  BY <1>4, DevicesAccount DEF DeviceSend
<1>5. CASE Closer
  BY <1>2, <1>5, CloseAccounts
  DEF Closer, Closing, CloseJoined, CloseTimeout, others
<1>6. ASSUME NEW p \in Pipes, Client(p) \/ ConnectFails(p) PROVE Accounts'
  BY <1>6, OutsideAccounts DEF Client, ConnectFails, others
<1>7. CASE OtherComms
  <2>1. UNCHANGED <<res, os, status>> /\ elsewhere' \in Nat
    BY <1>7, PipeServerAssumption DEF OtherComms, resources, system
  <2>2. Held' = Held /\ \A p \in Pipes : Heads(p)' = Heads(p)
    BY <2>1 DEF Held, Heads
  <2>3. Held \in SUBSET Buffers /\ Bytes(Held) \in Nat
    BY BytesType DEF Held
  <2>4. BytesAccounted'
    <3>1. /\ s_llQueueBytes' = s_llQueueBytes - elsewhere + elsewhere'
          /\ elsewhere' > elsewhere => s_llQueueBytes' <= MaxQueueBytes
          /\ s_llQueueBytes = Bytes(Held) + elsewhere
          /\ s_llQueueBytes <= MaxQueueBytes /\ elsewhere \in Nat /\ MaxQueueBytes \in Int
      BY <1>7, PipeServerAssumption DEF OtherComms, Accounts, BytesAccounted, Held
    <3>2. s_llQueueBytes' = Bytes(Held') + elsewhere'
      BY <2>1, <2>2, <2>3, <3>1
    <3>3. s_llQueueBytes' <= MaxQueueBytes
      BY <2>1, <2>3, <3>1
    <3> QED BY <1>7, <3>2, <3>3 DEF OtherComms, BytesAccounted, Held, Limited
  <2> QED BY <2>1, <2>2, <2>4 DEF Accounts, Queues
<1>8. CASE InitCommFails \/ UNCHANGED vars
  BY <1>2, <1>8 DEF InitCommFails, vars, others
<1> QED BY <1>1, <1>3, <1>4, <1>5, <1>6, <1>7, <1>8 DEF Next

\* The account in every reachable state.
LEMMA AccountsAlways == Spec => []Accounts
<1>1. Init => Accounts
  <2> SUFFICES ASSUME Init PROVE Accounts
    OBVIOUS
  <2>1. Held = {} /\ \A p \in Pipes : res[p].cWriteQueue = << >>
    BY DEF Init, Held, NewResource
  <2>2. Queues
    BY <2>1 DEF Queues, Heads, BuffersIn, OnceIn
  <2>3. Bytes({}) = 0
    BY FS_EmptySet, BytesPicked
  <2>4. BytesAccounted
    <3>1. s_llQueueBytes = 0 /\ Bytes(Held) + elsewhere = 0
      BY <2>1, <2>3 DEF Init
    <3>2. Limited => 0 <= MaxQueueBytes
      BY PipeServerAssumption DEF Limited
    <3> QED BY <3>1, <3>2 DEF BytesAccounted, Held, Limited
  <2>5. elsewhere \in Nat
    BY DEF Init
  <2> QED BY <2>2, <2>4, <2>5 DEF Accounts
<1> QED BY <1>1, NextAccounts, Inductive, PTL DEF Spec

\* Every buffer the comm has accepted and not reported on is in one entry of one
\* queue of an open instance, and the queues hold no other: no reply is lost or
\* reported twice.
THEOREM NoReplyLost == Spec => []HeldOnce
<1>1. ASSUME IInv, Accounts PROVE HeldOnce
  <2>1. Queues /\ \A p \in OpenPipes : p \in Pipes
    BY <1>1 DEF Accounts, IInv, TypeOK
  <2>2. \A a : a \in Positions <=>
          \E p \in OpenPipes : \E n \in DOMAIN res[p].cWriteQueue : a = <<p, n>>
    BY DEF Positions
  <2>3. \A p : \A n : Queued(<<p, n>>) = res[p].cWriteQueue[n].pHead
    BY DEF Queued
  <2>4. ASSUME NEW a \in Positions, NEW b \in Positions, Queued(a) = Queued(b)
        PROVE  a = b
    <3>1. PICK p \in OpenPipes : \E m \in DOMAIN res[p].cWriteQueue : a = <<p, m>>
      BY <2>2
    <3>2. PICK m \in DOMAIN res[p].cWriteQueue : a = <<p, m>>
      BY <3>1
    <3>3. PICK q \in OpenPipes : \E n \in DOMAIN res[q].cWriteQueue : b = <<q, n>>
      BY <2>2
    <3>4. PICK n \in DOMAIN res[q].cWriteQueue : b = <<q, n>>
      BY <3>3
    <3>5. res[p].cWriteQueue[m].pHead = res[q].cWriteQueue[n].pHead
      BY <2>3, <2>4, <3>2, <3>4
    <3>6. p = q
      BY <2>1, <3>5 DEF Queues, Heads, BuffersIn
    <3>7. m = n
      BY <2>1, <3>5, <3>6 DEF Queues, OnceIn
    <3> QED BY <3>2, <3>4, <3>6, <3>7
  <2>5. \A p \in Pipes : p \notin OpenPipes => Heads(p) = {}
    BY <1>1, <2>1 DEF IInv, TypeOK, Queues, Heads, BuffersIn
  <2>6. \A a \in Positions : Queued(a) \in Held
    BY <2>1, <2>2, <2>3 DEF Queues, Heads, BuffersIn
  <2>7. ASSUME NEW b \in Held PROVE \E a \in Positions : Queued(a) = b
    <3>1. PICK p \in OpenPipes : b \in Heads(p)
      BY <2>1, <2>5 DEF Queues
    <3>2. PICK n \in DOMAIN res[p].cWriteQueue : b = res[p].cWriteQueue[n].pHead
      BY <3>1 DEF Heads, BuffersIn
    <3> QED BY <2>2, <2>3, <3>2
  <2> QED BY <2>4, <2>6, <2>7 DEF HeldOnce, Held
<1> QED BY <1>1, Inductive, AccountsAlways, PTL

\* The bytes counted are those of the buffers held here and of those the
\* process's other comms hold, however they came and went, and never more than
\* the limit.
THEOREM BytesCounted == Spec => []BytesAccounted
<1>1. Accounts => BytesAccounted
  BY DEF Accounts
<1> QED BY <1>1, AccountsAlways, PTL

-----------------------------------------------------------------------------
(* The comm between Close and Init *)

\* The thread's own steps take a thread, and leave it to others to open or close.
LEMMA ThreadRuns ==
  PipeThread => pc # "none" /\ UNCHANGED <<m_bWorking, closePc, elsewhere>>
<1> SUFFICES ASSUME PipeThread 
                       PROVE  pc # "none" /\ UNCHANGED <<m_bWorking, closePc, elsewhere>>
  OBVIOUS
<1>0. UNCHANGED elsewhere
  BY DEF PipeThread
<1>1. CASE AddInstance \/ KeepInstances \/ WaitDone \/ WaitEvent
  BY <1>0, <1>1 DEF AddInstance, KeepInstances, WaitDone, WaitEvent, GoTo
<1>2. \A p, r : ReadNext(p, r) => UNCHANGED <<m_bWorking, closePc>>
  BY DEF ReadNext, CallProcessData, NextIteration, GoTo
<1>3. CASE OnCreated \/ OnConnecting \/ OnReading \/ ProcessReturn
  BY <1>0, <1>2, <1>3 DEF OnCreated, OnConnecting, OnReading, ProcessReturn,
     CallProcessData, NextIteration, GoTo
<1>4. CASE OnWrite \/ ProcessSends \/ ProcessSent
  BY <1>0, <1>4 DEF OnWrite, ProcessSends, ProcessSent, NextIteration, GoTo
<1> QED BY <1>1, <1>3, <1>4 DEF PipeThread

\* There is a thread from Init to Close.
ThreadLives == ~m_bWorking /\ closePc = "idle" => pc = "none"

\* Only the end of Close makes the comm idle without a thread working.
LEMMA ThreadLivesAlways == Spec => []ThreadLives
<1>1. Init => ThreadLives
  BY DEF Init, ThreadLives
<1>2. ThreadLives /\ [Next]_vars => ThreadLives'
  <2> SUFFICES ASSUME ThreadLives, [Next]_vars PROVE ThreadLives'
    OBVIOUS
  <2> USE DEF ThreadLives
  <2>1. CASE (\E p \in Pipes : InitComm(p)) \/ Closer
    BY <2>1 DEF InitComm, Closer, Closing, CloseBegin, CloseJoined, CloseTimeout,
       CloseEnd, CloseBlocks
  <2>2. CASE InitCommFails \/ DeviceSend \/ OtherComms \/ UNCHANGED vars
    BY <2>2 DEF InitCommFails, DeviceSend, OtherComms, vars, control
  <2>3. CASE PipeThread
    <3>1. pc # "none" /\ UNCHANGED <<m_bWorking, closePc>>
      BY <2>3, ThreadRuns
    <3> QED BY <3>1
  <2>4. ASSUME NEW p \in Pipes, Client(p) \/ ConnectFails(p) PROVE ThreadLives'
    BY <2>4 DEF Client, ClientConnect, ClientWrite, ClientRead, ClientClose,
       ConnectFails, control
  <2> QED BY <2>1, <2>2, <2>3, <2>4 DEF Next
<1> QED BY <1>1, <1>2, PTL DEF Spec

\* A comm that has been closed has no thread, no instance, nothing queued and no
\* buffer of a device.
THEOREM CloseCleansUp == Spec => []ClosedIsClean
<1>1. ASSUME IInv, Accounts, ThreadLives, ~m_bWorking, closePc = "idle"
      PROVE  /\ pc = "none" /\ m_aPipes = << >>
             /\ Limited => s_llQueueBytes = elsewhere
             /\ \A b \in Buffers : status[b] # "held"
  <2>1. pc = "none" /\ m_aPipes = << >> /\ Queues
    BY <1>1 DEF ThreadLives, IInv, TypeOK, Accounts
  <2>2. \A p \in Pipes : os[p].link = "none"
    BY <1>1, <2>1 DEF IInv, TypeOK, OpenPipes, Range
  <2>3. Held = {}
    BY <2>1, <2>2 DEF Queues, Heads, BuffersIn
  <2>4. Bytes({}) = 0
    BY FS_EmptySet, BytesPicked
  <2>5. Limited => s_llQueueBytes = Bytes(Held) + elsewhere /\ elsewhere \in Nat
    BY <1>1 DEF Accounts, BytesAccounted, Held
  <2> QED BY <2>1, <2>3, <2>4, <2>5 DEF Held
<1>2. IInv /\ Accounts /\ ThreadLives => ClosedIsClean
  BY <1>1 DEF ClosedIsClean
<1> QED BY <1>2, Inductive, AccountsAlways, ThreadLivesAlways, PTL

-----------------------------------------------------------------------------
(* The next client *)

Readers == {p \in OpenPipes : res[p].eStatus = "kReading"}

\* m_nConnected counts the instances with a client, of at most m_nMaxPipes.
Counted ==
  /\ Len(m_aPipes) <= MaxPipes
  /\ MaxPipes > 1 /\ pc # "none" => m_nConnected = Cardinality(Readers)

\* A sleeping thread has an instance to spare, or may not have another.
OneMore ==
  MaxPipes > 1 /\ pc = "wait" =>
    bError \/ Len(m_aPipes) = MaxPipes \/ OpenPipes \ Readers # {}

Instances == Counted /\ OneMore

\* m_aPipes lists each open instance once.
LEMMA ListCounts ==
  ASSUME IInv
  PROVE  /\ IsFiniteSet(OpenPipes) /\ Cardinality(OpenPipes) = Len(m_aPipes)
         /\ IsFiniteSet(Readers) /\ Cardinality(Readers) \in Nat
         /\ Len(m_aPipes) \in Nat /\ OpenPipes \in SUBSET Pipes
         /\ \A p \in Pipes : p \in OpenPipes <=> os[p].link # "none"
<1> DEFINE N == Len(m_aPipes)
<1>1. N \in Nat /\ DOMAIN m_aPipes = 1 .. N /\ m_aPipes \in [1 .. N -> Pipes]
  BY LenProperties DEF IInv, TypeOK
<1>2. /\ m_aPipes \in [1 .. N -> OpenPipes]
      /\ \A m, n \in 1 .. N : m_aPipes[m] = m_aPipes[n] => m = n
      /\ \A p \in OpenPipes : \E n \in 1 .. N : m_aPipes[n] = p
  BY <1>1 DEF OpenPipes, Range, IInv, TypeOK, IsInjective
<1>3. ExistsBijection(1 .. N, OpenPipes)
  BY <1>2 DEF ExistsBijection, Bijection, Injection, Surjection, IsInjective
<1>4. IsFiniteSet(OpenPipes) /\ Cardinality(OpenPipes) = N
  BY <1>1, <1>3, FS_NatBijection, FS_CountingElements
<1>5. IsFiniteSet(Readers) /\ Cardinality(Readers) \in Nat
  <2>1. Readers \in SUBSET OpenPipes
    BY DEF Readers
  <2> QED BY <1>4, <2>1, FS_Subset, FS_CardinalityType
<1> QED BY <1>1, <1>4, <1>5 DEF IInv, TypeOK

\* A step that neither adds nor ends an instance, nor accepts a client.
LEMMA SameInstances ==
  ASSUME IInv, Instances, UNCHANGED <<m_aPipes, m_nConnected>>,
         \A p \in Pipes : (res'[p].eStatus = "kReading") <=> (res[p].eStatus = "kReading"),
         pc' # "none" => pc # "none",
         pc' = "wait" => pc = "wait" /\ bError' = bError
  PROVE  Instances'
<1>1. OpenPipes' = OpenPipes /\ OpenPipes \in SUBSET Pipes
  BY ListCounts DEF OpenPipes
<1>2. Readers' = Readers
  BY <1>1 DEF Readers
<1> QED BY <1>1, <1>2 DEF Instances, Counted, OneMore

\* Init starts with one instance, for the first client.
LEMMA InitInstances ==
  ASSUME IInv, Instances, NEW p \in Pipes, InitComm(p) PROVE Instances'
<1>1. /\ m_aPipes' = <<p>> /\ m_nConnected' = 0 /\ pc' = "top"
      /\ res'[p].eStatus # "kReading"
  <2>1. /\ m_aPipes' = <<p>> /\ m_nConnected' = 0 /\ pc' = "top"
        /\ \/ res' = [res EXCEPT ![p] = [NewResource(m_llNextId, FALSE) EXCEPT
                        !.fPending = TRUE, !.eStatus = "kConnecting"]]
           \/ res' = [res EXCEPT ![p] = [NewResource(m_llNextId, FALSE) EXCEPT
                        !.hEvent = TRUE, !.eStatus = "kConnecting"]]
           \/ res' = [res EXCEPT ![p] =
                [ResetResource(NewResource(m_llNextId, FALSE)) EXCEPT
                   !.llId = m_llNextId + 1]]
    BY DEF InitComm
  <2> QED BY <2>1 DEF NewResource, ResetResource, IInv, TypeOK
<1>2. Len(m_aPipes') = 1 /\ OpenPipes' = {p}
  BY <1>1 DEF OpenPipes, Range
<1>3. Readers' = {}
  BY <1>1, <1>2 DEF Readers
<1>4. 1 <= MaxPipes
  BY PipeServerAssumption
<1> QED BY <1>1, <1>2, <1>3, <1>4, FS_EmptySet DEF Instances, Counted, OneMore

\* When every instance has a client, another is created.
LEMMA AddInstances ==
  ASSUME IInv, Instances, AddInstance PROVE Instances'
<1>1. /\ pc = "top" /\ pc' = "wait" /\ m_nConnected' = m_nConnected
      /\ Len(m_aPipes) < MaxPipes /\ MaxPipes \in Nat
  BY PipeServerAssumption DEF AddInstance, GoTo
<1>2. CASE bError' /\ UNCHANGED <<m_aPipes, res>>
  BY <1>1, <1>2 DEF Instances, Counted, OneMore, Readers, OpenPipes
<1>3. ASSUME NEW p \in Pipes, os[p].link = "none",
             res' = [res EXCEPT ![p] = NewResource(m_llNextId, TRUE)],
             m_aPipes' = Append(m_aPipes, p)
      PROVE  Instances'
  <2>1. p \notin OpenPipes
    BY <1>3, ListCounts
  <2>2. /\ OpenPipes' = OpenPipes \cup {p}
        /\ Len(m_aPipes') = Len(m_aPipes) + 1 /\ Len(m_aPipes) \in Nat
    BY <1>3, <2>1, AppendPreserves, AppendProperties, ListCounts
       DEF OpenPipes, IInv, TypeOK
  <2>3. /\ res'[p].eStatus # "kReading"
        /\ \A q \in Pipes : q # p => res'[q] = res[q]
    BY <1>3 DEF NewResource, IInv, TypeOK
  <2>4. Readers' = Readers
    BY <2>1, <2>2, <2>3, ListCounts DEF Readers
  <2>5. p \in OpenPipes' \ Readers'
    BY <2>1, <2>2, <2>4 DEF Readers
  <2>6. Len(m_aPipes') <= MaxPipes
    BY <1>1, <2>2
  <2> QED BY <1>1, <2>4, <2>5, <2>6 DEF Instances, Counted, OneMore
<1> QED BY <1>2, <1>3 DEF AddInstance

\* When none is, one is free, the maximum is reached or creating one has failed.
LEMMA KeepsInstances ==
  ASSUME IInv, Instances, KeepInstances PROVE Instances'
<1>1. /\ pc = "top" /\ UNCHANGED <<m_aPipes, res, m_nConnected, bError>>
      /\ ~(m_nConnected = Len(m_aPipes) /\ Len(m_aPipes) < MaxPipes /\ ~bError)
  BY DEF KeepInstances, resources
<1>2. Readers' = Readers /\ OpenPipes' = OpenPipes
  BY <1>1 DEF Readers, OpenPipes
<1>3. ASSUME MaxPipes > 1, ~bError, Len(m_aPipes) # MaxPipes
      PROVE  OpenPipes \ Readers # {}
  <2>1. Len(m_aPipes) \in Nat /\ MaxPipes \in Nat /\ Len(m_aPipes) <= MaxPipes
    BY ListCounts, PipeServerAssumption DEF Instances, Counted
  <2>2. m_nConnected # Len(m_aPipes)
    BY <1>1, <1>3, <2>1
  <2>3. Cardinality(Readers) # Cardinality(OpenPipes)
    BY <1>1, <1>3, <2>2, ListCounts DEF Instances, Counted
  <2> QED BY <2>3 DEF Readers
<1> QED BY <1>1, <1>2, <1>3 DEF Instances, Counted, OneMore

\* Dropping an instance that had a client takes it off the count.
LEMMA DropCounts ==
  ASSUME IInv, Instances, pc # "none", NEW i \in DOMAIN m_aPipes, DropInstance(i)
  PROVE  Counted'
<1>1. /\ MaxPipes \in Nat /\ Len(m_aPipes) \in Nat /\ Len(m_aPipes) <= MaxPipes
      /\ DOMAIN m_aPipes = 1 .. Len(m_aPipes)
  BY PipeServerAssumption, ListCounts, LenProperties DEF Instances, Counted, IInv, TypeOK
<1>2. CASE ResetInstance(m_aPipes[i])
  BY <1>1, <1>2 DEF ResetInstance, Counted
<1>3. CASE DeleteInstance(i)
  <2>1. PICK p \in OpenPipes : p = m_aPipes[i]
    BY DEF OpenPipes, Range
  <2>2. OpenPipes' = OpenPipes \ {p}
    BY <1>3, <2>1, ErasePreserves DEF DeleteInstance, OpenPipes, IInv, TypeOK
  <2>3. Len(m_aPipes') = Len(m_aPipes) - 1
    BY <1>1, <1>3, RemoveAtProperties DEF DeleteInstance, Erase, IInv, TypeOK
  <2>4. \A q \in Pipes : q # p => res'[q] = res[q]
    BY <1>3, <2>1 DEF DeleteInstance, IInv, TypeOK
  <2>5. Readers' = Readers \ {p}
    BY <2>2, <2>4, ListCounts DEF Readers
  <2>6. Cardinality(Readers') =
          IF p \in Readers THEN Cardinality(Readers) - 1 ELSE Cardinality(Readers)
    BY <2>5, ListCounts, FS_RemoveElement
  <2>7. m_nConnected' = IF p \in Readers THEN m_nConnected - 1 ELSE m_nConnected
    BY <1>3, <2>1 DEF DeleteInstance, ConnectedAfter, Readers
  <2>8. MaxPipes > 1 => m_nConnected = Cardinality(Readers)
    BY DEF Instances, Counted
  <2>9. Len(m_aPipes') <= MaxPipes
    BY <1>1, <2>3
  <2> QED BY <2>6, <2>7, <2>8, <2>9 DEF Counted
<1> QED BY <1>2, <1>3 DEF DropInstance

\* A handler of hEvent drops the instance it handles, or takes it from one
\* state to the next; only kConnecting leads to a client.
LEMMA HandlersCount ==
  ASSUME IInv, Instances, OnCreated \/ OnConnecting \/ OnReading \/ ProcessReturn
  PROVE  Instances'
<1>1. PICK p \in Pipes : /\ p = m_aPipes[cur] /\ os[p].link # "none" /\ Session(p)
                         /\ cur \in DOMAIN m_aPipes /\ p \in OpenPipes
                         /\ res[p] \in SPipeResource
  BY HandledPipe DEF OnCreated, OnConnecting, OnReading, ProcessReturn, IInv, Sessions,
     OpenPipes, Range, TypeOK
<1>2. pc # "none" /\ pc' # "wait"
  <2>1. \A r : ReadNext(p, r) => pc' # "wait"
    BY DEF ReadNext, CallProcessData, NextIteration, GoTo
  <2> QED BY <1>1, <2>1 DEF OnCreated, OnConnecting, OnReading, ProcessReturn,
             CallProcessData, NextIteration, GoTo
<1>3. Counted' => Instances'
  BY <1>2 DEF Instances, OneMore
<1>4. CASE Dropped
  BY <1>1, <1>2, <1>3, <1>4, DropCounts DEF Dropped
<1>5. CASE ~Dropped /\ OnCreated
  <2>1. UNCHANGED <<m_aPipes, m_nConnected>>
    BY <1>5 DEF OnCreated, Dropped, history
  <2>2. \E r : res' = [res EXCEPT ![p] = r] /\ r.eStatus = "kConnecting"
    <3> DEFINE r1 == [[res[p] EXCEPT !.hEvent = FALSE] EXCEPT !.fPending = TRUE,
                        !.eStatus = "kConnecting"]
               r2 == [[res[p] EXCEPT !.hEvent = FALSE] EXCEPT !.fPending = FALSE,
                        !.hEvent = TRUE, !.eStatus = "kConnecting"]
    <3>1. r1.eStatus = "kConnecting" /\ r2.eStatus = "kConnecting"
      BY <1>1 DEF SPipeResource
    <3>2. res' = [res EXCEPT ![p] = r1] \/ res' = [res EXCEPT ![p] = r2]
      BY <1>1, <1>5 DEF OnCreated, Dropped, history
    <3> HIDE DEF r1, r2
    <3> QED BY <3>1, <3>2
  <2>3. res[p].eStatus = "kCreated"
    BY <1>1, <1>5 DEF OnCreated, SPipeResource
  <2> QED BY <1>2, <2>1, <2>2, <2>3, SameInstances DEF IInv, TypeOK
<1>6. CASE ~Dropped /\ OnConnecting
  <2>1. /\ m_aPipes' = m_aPipes /\ m_nConnected' = m_nConnected + 1
        /\ res' = [res EXCEPT ![p] = [[res[p] EXCEPT !.hEvent = FALSE] EXCEPT
             !.fPending = FALSE, !.eStatus = "kReading", !.hEvent = TRUE]]
    BY <1>1, <1>6 DEF OnConnecting, Dropped
  <2>2. res'[p].eStatus = "kReading" /\ \A q \in Pipes : q # p => res'[q] = res[q]
    BY <1>1, <2>1 DEF IInv, TypeOK, SPipeResource
  <2>3. p \notin Readers
    BY <1>1, <1>6 DEF OnConnecting, SPipeResource, Readers
  <2>4. OpenPipes' = OpenPipes /\ Readers' = Readers \cup {p}
    BY <1>1, <2>1, <2>2, ListCounts DEF OpenPipes, Readers
  <2>5. Cardinality(Readers') = Cardinality(Readers) + 1
    BY <2>3, <2>4, ListCounts, FS_AddElement
  <2> QED BY <1>2, <1>3, <2>1, <2>5 DEF Instances, Counted
<1>7. CASE ~Dropped /\ (OnReading \/ ProcessReturn)
  <2>1. /\ ProcessReturn => res[p].eStatus = "kReading"
        /\ OnReading => res[p].eStatus = "kReading"
    <3>1. ProcessReturn => res[p].eStatus = "kReading"
      BY <1>1 DEF ProcessReturn, IInv, ThreadServed, Handled, Session
    <3> QED BY <1>1, <3>1 DEF OnReading, SPipeResource
  <2>2. AdvanceOf(p)
    BY <1>1, <1>7, <2>1, OnReadingAdvances, ProcessReturnAdvances DEF IInv
  <2>3. UNCHANGED m_nConnected
    <3>1. ASSUME NEW r, ReadNext(p, r) PROVE UNCHANGED m_nConnected
      BY <1>7, <3>1 DEF ReadNext, Dropped
    <3>2. OnReading => UNCHANGED m_nConnected
      BY <1>1, <1>7, <3>1 DEF OnReading, Dropped
    <3>3. ProcessReturn => UNCHANGED m_nConnected
      BY <1>1, <3>1 DEF ProcessReturn
    <3> QED BY <1>7, <3>2, <3>3
  <2>4. \A q \in Pipes : (res'[q].eStatus = "kReading") <=> (res[q].eStatus = "kReading")
    BY <1>7, <2>1, <2>2 DEF AdvanceOf, Advanced, IInv, TypeOK
  <2> QED BY <1>2, <2>2, <2>3, <2>4, SameInstances DEF AdvanceOf
<1> QED BY <1>4, <1>5, <1>6, <1>7

\* A write is about the queue only.
LEMMA WriteCounts ==
  ASSUME IInv, Instances, OnWrite PROVE Instances'
<1>1. PICK p \in Pipes : p = m_aPipes[cur] /\ res[p] \in SPipeResource
  BY HandledPipe DEF OnWrite, IInv, TypeOK
<1> DEFINE Same(r) == r.eStatus = res[p].eStatus
           r0 == [res[p] EXCEPT !.hWriteEvent = FALSE]
           r1 == [r0 EXCEPT !.fWritePending = FALSE]
           r2 == [r0 EXCEPT !.fWritePending = TRUE]
           r3 == PopWritten([r0 EXCEPT !.fWritePending = FALSE])
           r4 == PopWritten([[r0 EXCEPT !.hWriteEvent = TRUE] EXCEPT
                               !.fWritePending = FALSE])
<1>2. Same(r1) /\ Same(r2) /\ Same(r3) /\ Same(r4)
  BY <1>1 DEF SPipeResource, PopWritten
<1>3. \/ res' = [res EXCEPT ![p] = r1] \/ res' = [res EXCEPT ![p] = r2]
      \/ res' = [res EXCEPT ![p] = r3] \/ res' = [res EXCEPT ![p] = r4]
  BY <1>1 DEF OnWrite
<1> HIDE DEF r1, r2, r3, r4
<1>4. \A q \in Pipes : res'[q].eStatus = res[q].eStatus
  BY <1>1, <1>2, <1>3 DEF IInv, TypeOK
<1>5. UNCHANGED <<m_aPipes, m_nConnected>> /\ pc # "none" /\ pc' = "top"
  BY DEF OnWrite, NextIteration, GoTo
<1> QED BY <1>4, <1>5, SameInstances

\* So is a reply.
LEMMA SendCounts ==
  ASSUME IInv, NEW b \in Buffers, NEW id \in Ids, SendData(b, id)
  PROVE  /\ UNCHANGED <<m_aPipes, m_nConnected, bError>>
         /\ \A q \in Pipes : res'[q].eStatus = res[q].eStatus
<1>1. UNCHANGED <<m_aPipes, m_nConnected, bError>>
  BY DEF SendData
<1>2. CASE UNCHANGED res
  BY <1>2, <1>1
<1>3. ASSUME NEW p \in Addressees(id),
             res' = [res EXCEPT ![p] = Push(@, [pHead |-> b, to |-> id])]
      PROVE  \A q \in Pipes : res'[q].eStatus = res[q].eStatus
  <2>1. p \in Pipes /\ res[p] \in SPipeResource
    BY DEF Addressees, OpenPipes, IInv, TypeOK
  <2>2. Push(res[p], [pHead |-> b, to |-> id]).eStatus = res[p].eStatus
    BY <2>1 DEF Push, SPipeResource
  <2> QED BY <1>3, <2>1, <2>2 DEF IInv, TypeOK
<1> QED BY <1>1, <1>2, <1>3 DEF SendData

\* The sends of device threads and of ProcessData.
LEMMA DevicesCount ==
  ASSUME IInv, Instances, DeviceSend \/ ProcessSent PROVE Instances'
<1>1. CASE DeviceSend
  <2>1. PICK b \in Buffers, id \in KnownIds : SendData(b, id)
    BY <1>1 DEF DeviceSend
  <2>2. id \in Ids
    BY DEF KnownIds, IInv, TypeOK
  <2>3. UNCHANGED pc
    BY <1>1 DEF DeviceSend, control
  <2> QED BY <2>1, <2>2, <2>3, SendCounts, SameInstances
<1>2. CASE ProcessSent
  <2>1. m_aPipes[cur] \in Pipes /\ res[m_aPipes[cur]].llId \in Ids
    BY <1>2, HandledPipe DEF ProcessSent, IInv, TypeOK, SPipeResource
  <2>2. pc # "none" /\ pc' = "process"
    BY <1>2 DEF ProcessSent, GoTo
  <2>3. CASE UNCHANGED <<resources, system, s_llQueueBytes, status, history>>
    BY <2>2, <2>3, SameInstances DEF resources
  <2> QED BY <1>2, <2>1, <2>2, <2>3, SendCounts, SameInstances DEF ProcessSent
<1> QED BY <1>1, <1>2

\* Every step keeps the count and the spare instance.
LEMMA NextInstances == IInv /\ Instances /\ [Next]_vars => Instances'
<1> SUFFICES ASSUME IInv, Instances, [Next]_vars PROVE Instances'
  OBVIOUS
<1>1. CASE \/ InitCommFails \/ WaitDone \/ WaitEvent \/ ProcessSends \/ CloseBegin
           \/ CloseBlocks \/ OtherComms \/ UNCHANGED vars
  <2>1. UNCHANGED <<m_aPipes, res, m_nConnected>>
    BY <1>1 DEF InitCommFails, WaitDone, WaitEvent, ProcessSends, CloseBegin, CloseBlocks,
       OtherComms, vars, resources
  <2>2. /\ pc' # "none" => pc # "none"
        /\ pc' = "wait" => pc = "wait" /\ bError' = bError
    BY <1>1 DEF InitCommFails, WaitDone, WaitEvent, ProcessSends, CloseBegin, CloseBlocks,
       OtherComms, vars, resources, control, GoTo
  <2> QED BY <2>1, <2>2, SameInstances
<1>2. CASE PipeThread
  BY <1>1, <1>2, AddInstances, KeepsInstances, HandlersCount, WriteCounts, DevicesCount
  DEF PipeThread
<1>3. CASE CloseEnd
  <2>1. Len(m_aPipes') = 0 /\ pc' = "none" /\ 0 <= MaxPipes
    BY <1>3, PipeServerAssumption DEF CloseEnd
  <2> QED BY <2>1 DEF Instances, Counted, OneMore
<1>4. ASSUME NEW p \in Pipes, Client(p) \/ ConnectFails(p) PROVE Instances'
  <2>1. UNCHANGED <<m_aPipes, m_nConnected, bError, pc>>
    BY <1>4 DEF Client, ClientConnect, ClientWrite, ClientRead, ClientClose,
       ConnectFails, control
  <2>2. \A q \in Pipes : res'[q].eStatus = res[q].eStatus
    BY <1>4, OutsideResource DEF IInv, TypeOK
  <2> QED BY <2>1, <2>2, SameInstances
<1> QED BY <1>1, <1>2, <1>3, <1>4, InitInstances, DevicesCount
        DEF Next, Closer, Closing, CloseJoined, CloseTimeout

\* Unless creating one has failed or the maximum is reached, a thread that waits
\* has an instance open that the next client can connect to.
THEOREM RoomForTheNext == Spec => []NextClientCanConnect
<1>1. Init => Instances
  BY PipeServerAssumption DEF Init, Instances, Counted, OneMore
<1>2. Spec => []Instances
  BY <1>1, NextInstances, Inductive, PTL DEF Spec
<1>3. Instances => NextClientCanConnect
  BY DEF Instances, Counted, OneMore, Readers, NextClientCanConnect
<1> QED BY <1>2, <1>3, PTL

-----------------------------------------------------------------------------
(* The comm of "base classses.h": what an instance is to a session of Comm *)

\* Outbox, Sent and User hold one session for each open instance, which is found
\* by its id, and no other.
Mapped ==
  /\ DOMAIN Outbox = LiveIds /\ DOMAIN Sent = LiveIds /\ DOMAIN User = LiveIds
  /\ \A p \in OpenPipes :
       /\ res[p].llId \in LiveIds
       /\ Outbox[res[p].llId] = Order(res[p].cWriteQueue)
       /\ Sent[res[p].llId] = Received(os[p])
       /\ User[res[p].llId] = Presence(os[p].link)
  /\ \A id \in LiveIds : \E p \in OpenPipes : id = res[p].llId

\* It is so because no two open instances have the same id.
LEMMA MappedIs == IInv => Mapped
<1> SUFFICES ASSUME IInv PROVE Mapped
  OBVIOUS
<1>1. ASSUME NEW p \in OpenPipes
      PROVE  PipeOf(res[p].llId) = p /\ res[p].llId \in LiveIds
  <2>1. \A q \in OpenPipes : res[q].llId = res[p].llId => q = p
    BY DEF IInv, TypeOK, Sessions, IdsDistinct
  <2> QED BY <2>1 DEF PipeOf, LiveIds
<1>2. \A id \in LiveIds : \E p \in OpenPipes : id = res[p].llId
  BY DEF LiveIds
<1>3. ASSUME NEW p \in OpenPipes
      PROVE  /\ Outbox[res[p].llId] = Order(res[p].cWriteQueue)
             /\ Sent[res[p].llId] = Received(os[p])
             /\ User[res[p].llId] = Presence(os[p].link)
  BY <1>1 DEF Outbox, Sent, User
<1> QED BY <1>1, <1>2, <1>3 DEF Mapped, Outbox, Sent, User

LEMMA MappedNext == IInv' => Mapped'
BY MappedIs, PTL

\* What the ids of the open instances are.
LEMMA OpenIds ==
  ASSUME IInv
  PROVE  /\ m_llNextId \in Nat
         /\ \A p \in OpenPipes : /\ p \in Pipes /\ os[p].link # "none"
                                 /\ res[p].llId \in Nat /\ res[p].llId < m_llNextId
                                 /\ res[p].cWriteQueue \in Seq(SData)
BY DEF IInv, TypeOK, Sessions, Session, Ids, SPipeResource

\* A step that is about one instance leaves every other session as it is.
LEMMA SessionStays ==
  ASSUME IInv, IInv', NEW p \in OpenPipes, UNCHANGED m_aPipes,
         \A q \in OpenPipes : q # p => res'[q] = res[q] /\ os'[q] = os[q],
         res'[p].llId = res[p].llId
  PROVE  /\ LiveIds' = LiveIds
         /\ Outbox' = [Outbox EXCEPT ![res[p].llId] = Order(res'[p].cWriteQueue)]
         /\ Sent' = [Sent EXCEPT ![res[p].llId] = Received(os'[p])]
         /\ User' = [User EXCEPT ![res[p].llId] = Presence(os'[p].link)]
<1>1. Mapped /\ Mapped'
  BY MappedIs, MappedNext
<1>2. OpenPipes' = OpenPipes
  BY DEF OpenPipes
<1>3. \A q \in OpenPipes : res'[q].llId = res[q].llId
  OBVIOUS
<1>4. LiveIds' = LiveIds
  BY <1>2, <1>3 DEF LiveIds
<1>5. \A q \in OpenPipes : q # p => res[q].llId # res[p].llId
  BY OpenIds DEF IInv, Sessions, IdsDistinct
<1>6. ASSUME NEW id \in LiveIds
      PROVE  /\ Outbox'[id] = IF id = res[p].llId THEN Order(res'[p].cWriteQueue) ELSE Outbox[id]
             /\ Sent'[id] = IF id = res[p].llId THEN Received(os'[p]) ELSE Sent[id]
             /\ User'[id] = IF id = res[p].llId THEN Presence(os'[p].link) ELSE User[id]
  <2>1. PICK q \in OpenPipes : id = res[q].llId
    BY <1>1 DEF Mapped
  <2>2. /\ Outbox[id] = Order(res[q].cWriteQueue) /\ Sent[id] = Received(os[q])
        /\ User[id] = Presence(os[q].link)
    BY <1>1, <2>1 DEF Mapped
  <2>3. /\ Outbox'[id] = Order(res'[q].cWriteQueue) /\ Sent'[id] = Received(os'[q])
        /\ User'[id] = Presence(os'[q].link)
    BY <1>1, <1>2, <1>3, <2>1 DEF Mapped
  <2>4. CASE q = p
    BY <2>1, <2>3, <2>4
  <2>5. CASE q # p
    BY <1>5, <2>1, <2>2, <2>3, <2>5
  <2> QED BY <2>4, <2>5
<1>7. /\ Outbox' = [id \in LiveIds |-> Outbox'[id]] /\ Outbox = [id \in LiveIds |-> Outbox[id]]
      /\ Sent' = [id \in LiveIds |-> Sent'[id]] /\ Sent = [id \in LiveIds |-> Sent[id]]
      /\ User' = [id \in LiveIds |-> User'[id]] /\ User = [id \in LiveIds |-> User[id]]
  BY <1>4 DEF Outbox, Sent, User
<1>8. Outbox' = [Outbox EXCEPT ![res[p].llId] = Order(res'[p].cWriteQueue)]
  BY <1>6, <1>7
<1>9. Sent' = [Sent EXCEPT ![res[p].llId] = Received(os'[p])]
  BY <1>6, <1>7
<1>10. User' = [User EXCEPT ![res[p].llId] = Presence(os'[p].link)]
  BY <1>6, <1>7
<1> QED BY <1>4, <1>8, <1>9, <1>10

\* A step that leaves all of it leaves the sessions.
LEMMA SessionsStay ==
  UNCHANGED <<res, os, m_aPipes>> => UNCHANGED <<Outbox, Sent, User>>
BY DEF Outbox, Sent, User, LiveIds, PipeOf, OpenPipes

\* Instances that go end their sessions and give up what they have queued, those
\* that come begin one each.
LEMMA PipesTurn ==
  ASSUME IInv, IInv', UNCHANGED others, NEW E \in SUBSET OpenPipes, NEW B \in SUBSET Pipes,
         OpenPipes' = (OpenPipes \ E) \cup B, B \cap (OpenPipes \ E) = {},
         \A q \in OpenPipes \ E : res'[q] = res[q] /\ os'[q] = os[q],
         m_llNextId' \in m_llNextId .. m_llNextId + 2,
         \A q \in B : /\ res'[q].llId \in m_llNextId .. m_llNextId' - 1
                      /\ res'[q].cWriteQueue = << >> /\ os'[q].writeIo = "idle"
                      /\ os'[q].link \in {"avail", "off", "open"},
         status' = [b \in Buffers |-> IF \E p \in E : b \in Heads(p)
                                      THEN "failed" ELSE status[b]]
  PROVE  Promise!Turnover
<1> DEFINE ended == {res[p].llId : p \in E}
           begun == {res'[q].llId : q \in B}
           first == [id \in begun |-> User'[id]]
<1>1. Mapped /\ Mapped'
  BY MappedIs, MappedNext
<1>2. /\ m_llNextId \in Nat /\ m_llNextId' \in Nat
      /\ \A id \in LiveIds : id \in Nat /\ id < m_llNextId
      /\ \A id \in begun : id \in m_llNextId .. m_llNextId' - 1 /\ id \notin LiveIds
  <2>1. m_llNextId \in Nat /\ m_llNextId' \in Nat
    BY OpenIds
  <2>2. \A id \in LiveIds : id \in Nat /\ id < m_llNextId
    BY OpenIds DEF LiveIds
  <2>3. \A id \in begun : id \in m_llNextId .. m_llNextId' - 1
    OBVIOUS
  <2> HIDE DEF begun
  <2>4. \A id \in begun : id \notin LiveIds
    BY <2>1, <2>2, <2>3
  <2> QED BY <2>1, <2>2, <2>3, <2>4
<1>3. \A p, q \in OpenPipes : res[p].llId = res[q].llId => p = q
  BY OpenIds DEF IInv, Sessions, IdsDistinct
<1>4. LiveIds' = (LiveIds \ ended) \cup begun
  <2>1. \A id \in LiveIds' : id \in (LiveIds \ ended) \cup begun
    <3> SUFFICES ASSUME NEW id \in LiveIds' PROVE id \in (LiveIds \ ended) \cup begun
      OBVIOUS
    <3>1. PICK q \in OpenPipes' : id = res'[q].llId
      BY <1>1 DEF Mapped
    <3>2. CASE q \in B
      BY <3>1, <3>2
    <3>3. CASE q \in OpenPipes \ E
      <4>1. id = res[q].llId /\ id \in LiveIds
        BY <1>1, <3>1, <3>3 DEF Mapped
      <4>2. id \notin ended
        BY <1>3, <3>3, <4>1
      <4> QED BY <4>1, <4>2
    <3> QED BY <3>1, <3>2, <3>3
  <2>2. \A id \in begun : id \in LiveIds'
    BY <1>1 DEF Mapped
  <2>3. ASSUME NEW id \in LiveIds, id \notin ended PROVE id \in LiveIds'
    <3>1. PICK q \in OpenPipes : id = res[q].llId
      BY <1>1 DEF Mapped
    <3>2. q \in OpenPipes \ E
      BY <2>3, <3>1
    <3> QED BY <1>1, <3>1, <3>2 DEF Mapped
  <2> QED BY <2>1, <2>2, <2>3
<1>5. ASSUME NEW id \in LiveIds, id \notin ended
      PROVE  Outbox'[id] = Outbox[id] /\ Sent'[id] = Sent[id] /\ User'[id] = User[id]
  <2>1. PICK q \in OpenPipes : id = res[q].llId
    BY <1>1 DEF Mapped
  <2>2. q \in OpenPipes \ E /\ q \in OpenPipes'
    BY <1>5, <2>1
  <2>3. res'[q] = res[q] /\ os'[q] = os[q]
    BY <2>2
  <2> QED BY <1>1, <2>1, <2>2, <2>3 DEF Mapped
<1>6. ASSUME NEW id \in begun
      PROVE  Outbox'[id] = << >> /\ Sent'[id] = FALSE /\ User'[id] \in {"awaited", "online"}
  <2>1. PICK q \in B : id = res'[q].llId
    OBVIOUS
  <2>2. /\ Outbox'[id] = Order(res'[q].cWriteQueue) /\ Sent'[id] = Received(os'[q])
        /\ User'[id] = Presence(os'[q].link)
    BY <1>1, <2>1 DEF Mapped
  <2>3. Order(<< >>) = << >>
    BY DEF Order
  <2>4. /\ res'[q].cWriteQueue = << >> /\ os'[q].writeIo = "idle"
        /\ os'[q].link \in {"avail", "off", "open"}
    BY <2>1
  <2> QED BY <2>2, <2>3, <2>4 DEF Presence, Received
<1>7. \A b : (\E id \in ended : b \in Range(Outbox[id])) <=> (\E p \in E : b \in Heads(p))
  <2>1. \A p \in OpenPipes : Range(Outbox[res[p].llId]) = Heads(p)
    <3>1. \A q : Range(Order(q)) = BuffersIn(q)
      BY DEF Range, Order, BuffersIn
    <3> QED BY <1>1, <3>1 DEF Mapped, Heads
  <2> QED BY <2>1
<1>8. /\ Outbox' = [id \in (LiveIds \ ended) \cup begun |->
                       IF id \in LiveIds THEN Outbox[id] ELSE << >>]
      /\ Sent' = [id \in (LiveIds \ ended) \cup begun |->
                     IF id \in LiveIds THEN Sent[id] ELSE FALSE]
      /\ User' = [id \in (LiveIds \ ended) \cup begun |->
                     IF id \in LiveIds THEN User[id] ELSE first[id]]
  <2>1. /\ Outbox' = [id \in LiveIds' |-> Outbox'[id]]
        /\ Sent' = [id \in LiveIds' |-> Sent'[id]]
        /\ User' = [id \in LiveIds' |-> User'[id]]
    BY DEF Outbox, Sent, User
  <2>2. \A id \in begun : first[id] = User'[id] /\ id \notin LiveIds
    BY <1>2
  <2> HIDE DEF ended, begun, first
  <2>3. \A id \in LiveIds' : id \notin LiveIds => id \in begun
    BY <1>4
  <2>4. \A id \in LiveIds' : id \in LiveIds => id \notin ended
    BY <1>4, <2>2
  <2>5. Outbox' = [id \in (LiveIds \ ended) \cup begun |->
                     IF id \in LiveIds THEN Outbox[id] ELSE << >>]
    BY <1>4, <1>5, <1>6, <2>1, <2>3, <2>4
  <2>6. Sent' = [id \in (LiveIds \ ended) \cup begun |->
                   IF id \in LiveIds THEN Sent[id] ELSE FALSE]
    BY <1>4, <1>5, <1>6, <2>1, <2>3, <2>4
  <2>7. User' = [id \in (LiveIds \ ended) \cup begun |->
                   IF id \in LiveIds THEN User[id] ELSE first[id]]
    BY <1>4, <1>5, <2>1, <2>2, <2>3, <2>4
  <2> QED BY <2>5, <2>6, <2>7
<1>9. /\ ended \in SUBSET LiveIds /\ begun \in SUBSET (m_llNextId .. m_llNextId' - 1)
      /\ first \in [begun -> {"awaited", "online"}]
  <2>1. ended \in SUBSET LiveIds
    BY <1>1 DEF Mapped
  <2>2. begun \in SUBSET (m_llNextId .. m_llNextId' - 1)
    BY <1>2
  <2> QED BY <1>6, <2>1, <2>2
<1>10. status' = [b \in Buffers |-> IF \E id \in ended : b \in Range(Outbox[id])
                                     THEN "failed" ELSE status[b]]
  BY <1>7
<1>11. DOMAIN Outbox = LiveIds
  BY <1>1 DEF Mapped
<1> HIDE DEF ended, begun, first
<1> DEFINE Turned(e, n, u) ==
             /\ m_llNextId' = n
             /\ Outbox' = [id \in (DOMAIN Outbox \ e) \cup u |->
                             IF id \in DOMAIN Outbox THEN Outbox[id] ELSE << >>]
             /\ Sent' = [id \in (DOMAIN Outbox \ e) \cup u |->
                           IF id \in DOMAIN Outbox THEN Sent[id] ELSE FALSE]
             /\ \E f \in [u -> {"awaited", "online"}] :
                  User' = [id \in (DOMAIN Outbox \ e) \cup u |->
                             IF id \in DOMAIN Outbox THEN User[id] ELSE f[id]]
             /\ status' = [b \in Buffers |-> IF \E id \in e : b \in Range(Outbox[id])
                                             THEN "failed" ELSE status[b]]
             /\ elsewhere' = elsewhere /\ refusedFor' = refusedFor
<1>12. Turned(ended, m_llNextId', begun)
  <2>1. elsewhere' = elsewhere /\ refusedFor' = refusedFor
    BY DEF others
  <2> QED BY <1>8, <1>9, <1>10, <1>11, <2>1
<1>13. SUFFICES \E e \in SUBSET DOMAIN Outbox, n \in m_llNextId .. m_llNextId + 2 :
                  \E u \in SUBSET (m_llNextId .. n - 1) : Turned(e, n, u)
  BY DEF Promise!Turnover, Promise!Live, Promise!Range, Range
<1> HIDE DEF Turned
<1> QED BY <1>9, <1>11, <1>12

\* What the comm promises of a step.
Promised == [Promise!Next]_(Promise!vars)

\* A session begins on an instance, in the place of the one it had, if any.
LEMMA OpeningTurns ==
  ASSUME IInv, IInv', UNCHANGED others, NEW p \in Pipes, OpeningOf(p),
         OpenPipes' = OpenPipes \cup {p},
         m_llNextId' \in {m_llNextId + 1, m_llNextId + 2},
         status' = [b \in Buffers |->
           IF os[p].link # "none" /\ b \in Heads(p) THEN "failed" ELSE status[b]]
  PROVE  Promise!Turnover
<1>1. PICK r, o : /\ res' = [res EXCEPT ![p] = r] /\ os' = [os EXCEPT ![p] = o]
                  /\ Fresh(r, o)
  BY DEF OpeningOf
<1>2. res'[p] = r /\ os'[p] = o
  BY <1>1 DEF IInv, TypeOK
<1>3. \A q \in Pipes : q # p => res'[q] = res[q] /\ os'[q] = os[q]
  BY <1>1 DEF IInv, TypeOK
<1> DEFINE E == {q \in OpenPipes : q = p}
           B == {p}
<1>4. /\ E \in SUBSET OpenPipes /\ B \in SUBSET Pipes
      /\ OpenPipes' = (OpenPipes \ E) \cup B /\ B \cap (OpenPipes \ E) = {}
  OBVIOUS
<1>5. \A q \in OpenPipes \ E : res'[q] = res[q] /\ os'[q] = os[q]
  BY <1>3, OpenIds
<1>6. m_llNextId' \in m_llNextId .. m_llNextId + 2
  BY OpenIds
<1>7. \A q \in B : /\ res'[q].llId \in m_llNextId .. m_llNextId' - 1
                   /\ res'[q].cWriteQueue = << >> /\ os'[q].writeIo = "idle"
                   /\ os'[q].link \in {"avail", "off", "open"}
  BY <1>1, <1>2 DEF Fresh
<1>8. status' = [b \in Buffers |-> IF \E q \in E : b \in Heads(q)
                                   THEN "failed" ELSE status[b]]
  <2>1. \A b : (\E q \in E : b \in Heads(q)) <=> os[p].link # "none" /\ b \in Heads(p)
    BY DEF IInv, TypeOK
  <2> QED BY <2>1
<1> HIDE DEF E, B
<1> QED BY <1>4, <1>5, <1>6, <1>7, <1>8, PipesTurn

\* InitCommunication opens a comm that has no session.
LEMMA InitCommOpen ==
  ASSUME IInv, IInv', NEW p \in Pipes, InitComm(p) PROVE Promise!Open
<1>1. OpeningOf(p) /\ os[p].link = "none"
  BY InitCommOpens DEF IInv, InitComm
<1>2. /\ ~m_bWorking /\ m_bWorking' = TRUE /\ status' = status
      /\ m_aPipes = << >> /\ m_aPipes' = <<p>>
      /\ m_llNextId' \in {m_llNextId + 1, m_llNextId + 2}
  BY DEF InitComm, IInv, TypeOK, IdTaken
<1>3. OpenPipes = {} /\ OpenPipes' = OpenPipes \cup {p}
  BY <1>2 DEF OpenPipes, Range
<1>4. status' = [b \in Buffers |->
           IF os[p].link # "none" /\ b \in Heads(p) THEN "failed" ELSE status[b]]
  BY <1>1, <1>2 DEF IInv, TypeOK
<1>5. Promise!Turnover
  BY <1>1, <1>2, <1>3, <1>4, OpeningTurns DEF InitComm
<1>6. DOMAIN Outbox = {}
  BY <1>3 DEF Outbox, LiveIds
<1> QED BY <1>2, <1>5, <1>6 DEF Promise!Open, Promise!Live

\* When it fails it may have used up an id.
LEMMA InitCommFailed ==
  ASSUME IInv, IInv', InitCommFails PROVE Promised
<1>1. UNCHANGED <<m_aPipes, res, os, status, m_bWorking>>
  BY DEF InitCommFails, control
<1>2. m_llNextId' \in m_llNextId .. m_llNextId + 2
  BY OpenIds DEF InitCommFails
<1>3. OpenPipes' = OpenPipes
  BY <1>1 DEF OpenPipes
<1>4. status' = [b \in Buffers |-> IF \E q \in {} : b \in Heads(q)
                                   THEN "failed" ELSE status[b]]
  BY <1>1 DEF IInv, TypeOK
<1> DEFINE N == {q \in Pipes : FALSE}
<1>5. /\ N \in SUBSET OpenPipes /\ N \in SUBSET Pipes
      /\ OpenPipes' = (OpenPipes \ N) \cup N /\ N \cap (OpenPipes \ N) = {}
      /\ \A q \in OpenPipes \ N : res'[q] = res[q] /\ os'[q] = os[q]
      /\ \A q \in N : /\ res'[q].llId \in m_llNextId .. m_llNextId' - 1
                      /\ res'[q].cWriteQueue = << >> /\ os'[q].writeIo = "idle"
                      /\ os'[q].link \in {"avail", "off", "open"}
      /\ status' = [b \in Buffers |-> IF \E q \in N : b \in Heads(q)
                                      THEN "failed" ELSE status[b]]
  BY <1>1, <1>3, <1>4
<1> HIDE DEF N
<1>6. Promise!Turnover
  BY <1>2, <1>5, PipesTurn DEF InitCommFails
<1> QED BY <1>1, <1>6 DEF Promised, Promise!Next

\* The thread opens another session, or cannot.
LEMMA AddInstancePromised ==
  ASSUME IInv, IInv', UNCHANGED others, AddInstance PROVE Promised
<1>1. UNCHANGED <<status, m_bWorking>>
  BY DEF AddInstance, GoTo
<1>2. CASE UNCHANGED <<m_aPipes, res, os, m_llNextId>>
  BY <1>1, <1>2, SessionsStay DEF Promised, Promise!vars, others
<1>3. CASE ~UNCHANGED <<m_aPipes, res, os, m_llNextId>>
  <2>1. PICK p \in Pipes : /\ os[p].link = "none" /\ m_aPipes' = Append(m_aPipes, p)
                           /\ OpeningOf(p)
    BY <1>3, AddInstanceOpens DEF IInv
  <2>2. m_llNextId' = m_llNextId + 1
    BY <1>3 DEF AddInstance, IdTaken
  <2>3. OpenPipes' = OpenPipes \cup {p}
    BY <2>1, AppendPreserves DEF OpenPipes, IInv, TypeOK
  <2>4. status' = [b \in Buffers |->
           IF os[p].link # "none" /\ b \in Heads(p) THEN "failed" ELSE status[b]]
    BY <1>1, <2>1 DEF IInv, TypeOK
  <2>5. Promise!Turnover
    BY <2>1, <2>2, <2>3, <2>4, OpeningTurns
  <2> QED BY <1>1, <2>5 DEF Promised, Promise!Next
<1> QED BY <1>2, <1>3

\* A dropped instance ends its session, with another in its place or none.
LEMMA DropTurns ==
  ASSUME IInv, IInv', UNCHANGED others, NEW i \in DOMAIN m_aPipes, DropInstance(i)
  PROVE  Promise!Turnover
<1>1. PICK p \in Pipes : p = m_aPipes[i]
  BY DEF IInv, TypeOK
<1>2. p \in OpenPipes /\ os[p].link # "none" /\ Session(p)
  BY <1>1, OpenIds DEF OpenPipes, Range, IInv, Sessions
<1>3. CASE ResetInstance(p)
  <2>1. OpeningOf(p) /\ UNCHANGED m_aPipes
    BY <1>2, <1>3, ResetOpens DEF IInv, Session
  <2>2. OpenPipes' = OpenPipes \cup {p}
    BY <1>2, <2>1 DEF OpenPipes
  <2>3. m_llNextId' = m_llNextId + 1
    BY <1>3 DEF ResetInstance, IdTaken
  <2>4. Cleared(res[p]) = Heads(p)
    BY <1>2 DEF Session, Cleared, Heads, BuffersIn
  <2>5. status' = [b \in Buffers |->
           IF os[p].link # "none" /\ b \in Heads(p) THEN "failed" ELSE status[b]]
    BY <1>2, <1>3, <2>4 DEF ResetInstance, Result
  <2> QED BY <2>1, <2>2, <2>3, <2>5, OpeningTurns
<1>4. CASE DeleteInstance(i)
  <2> DEFINE E == {p}
             B == {q \in Pipes : FALSE}
  <2>1. m_aPipes' = Erase(i) /\ m_llNextId' = m_llNextId
    BY <1>4 DEF DeleteInstance
  <2>2. OpenPipes' = OpenPipes \ {p}
    BY <1>1, <2>1, ErasePreserves DEF OpenPipes, IInv, TypeOK
  <2>3. status' = [b \in Buffers |-> IF \E q \in E : b \in Heads(q)
                                     THEN "failed" ELSE status[b]]
    BY <1>1, <1>4 DEF DeleteInstance, Result, Heads
  <2>4. \A q \in Pipes : q # p => res'[q] = res[q] /\ os'[q] = os[q]
    BY <1>1, <1>4 DEF DeleteInstance, IInv, TypeOK
  <2>5. /\ E \in SUBSET OpenPipes /\ B \in SUBSET Pipes
        /\ OpenPipes' = (OpenPipes \ E) \cup B /\ B \cap (OpenPipes \ E) = {}
        /\ m_llNextId' \in m_llNextId .. m_llNextId + 2
        /\ \A q \in OpenPipes \ E : res'[q] = res[q] /\ os'[q] = os[q]
        /\ \A q \in B : /\ res'[q].llId \in m_llNextId .. m_llNextId' - 1
                        /\ res'[q].cWriteQueue = << >> /\ os'[q].writeIo = "idle"
                        /\ os'[q].link \in {"avail", "off", "open"}
    BY <1>2, <2>1, <2>2, <2>4, OpenIds
  <2> HIDE DEF E, B
  <2> QED BY <2>3, <2>5, PipesTurn
<1> QED BY <1>1, <1>3, <1>4 DEF DropInstance

\* A step that leaves the queue of the instance, whether the user is there and
\* whether the user has the first entry, shows nothing.
LEMMA Unseen ==
  ASSUME IInv, IInv', UNCHANGED others, NEW p \in OpenPipes, NEW r, NEW o,
         res' = [res EXCEPT ![p] = r], os' = [os EXCEPT ![p] = o],
         UNCHANGED <<m_aPipes, m_llNextId, m_bWorking, status>>,
         r.llId = res[p].llId, r.cWriteQueue = res[p].cWriteQueue,
         (o.writeIo = "ok") <=> (os[p].writeIo = "ok"),
         \A l \in {"open", "broken"} : (o.link = l) <=> (os[p].link = l)
  PROVE  UNCHANGED Promise!vars
<1>1. Mapped /\ UNCHANGED m_aPipes /\ p \in Pipes
  BY MappedIs, OpenIds
<1>2. /\ res'[p] = r /\ os'[p] = o
      /\ \A q \in OpenPipes : q # p => res'[q] = res[q] /\ os'[q] = os[q]
  BY <1>1, OpenIds DEF IInv, TypeOK
<1>3. /\ res'[p].llId = res[p].llId /\ Order(res'[p].cWriteQueue) = Order(res[p].cWriteQueue)
      /\ Received(os'[p]) = Received(os[p]) /\ Presence(os'[p].link) = Presence(os[p].link)
  BY <1>2 DEF Received, Presence
<1>4. /\ Outbox = [id \in LiveIds |-> Outbox[id]]
      /\ Sent = [id \in LiveIds |-> Sent[id]]
      /\ User = [id \in LiveIds |-> User[id]]
  BY DEF Outbox, Sent, User
<1>5. Outbox' = Outbox
  BY <1>1, <1>2, <1>3, <1>4, SessionStays DEF Mapped
<1>6. Sent' = Sent
  BY <1>1, <1>2, <1>3, <1>4, SessionStays DEF Mapped
<1>7. User' = User
  BY <1>1, <1>2, <1>3, <1>4, SessionStays DEF Mapped
<1> QED BY <1>5, <1>6, <1>7 DEF Promise!vars, others

\* The handlers of hEvent show nothing, unless they drop the instance.
LEMMA HandlersPromised ==
  ASSUME IInv, IInv', UNCHANGED others, OnCreated \/ OnConnecting \/ OnReading \/ ProcessReturn
  PROVE  Promised
<1>1. PICK p \in Pipes : /\ p = m_aPipes[cur] /\ os[p].link # "none" /\ Session(p)
                         /\ cur \in DOMAIN m_aPipes
  BY HandledPipe DEF OnCreated, OnConnecting, OnReading, ProcessReturn, IInv, Sessions
<1>2. m_bWorking' = m_bWorking
  <2>1. \A q, r : ReadNext(q, r) => UNCHANGED m_bWorking
    BY DEF ReadNext, CallProcessData, NextIteration, GoTo
  <2> QED BY <2>1 DEF OnCreated, OnConnecting, OnReading, ProcessReturn,
     CallProcessData, NextIteration, GoTo
<1>3. CASE Dropped
  BY <1>1, <1>2, <1>3, DropTurns DEF Dropped, Promised, Promise!Next
<1>4. CASE ~Dropped
  <2>1. AdvanceOf(p) /\ UNCHANGED status
    BY <1>1, <1>4, HandlersAdvance
  <2>2. p \in OpenPipes
    BY <1>1 DEF IInv, TypeOK
  <2>3. PICK r, o : /\ res' = [res EXCEPT ![p] = r] /\ os' = [os EXCEPT ![p] = o]
                    /\ Advanced(p, r, o) /\ UNCHANGED <<m_aPipes, m_llNextId>>
    BY <2>1 DEF AdvanceOf
  <2>4. UNCHANGED Promise!vars
    BY <1>2, <2>1, <2>2, <2>3, Unseen DEF Advanced
  <2> QED BY <2>4 DEF Promised
<1> QED BY <1>3, <1>4

\* The buffers of a queue, in order, when the first entry leaves it or one comes.
LEMMA OrderTail ==
  ASSUME NEW q \in Seq(SData), q # << >>
  PROVE  Order(q) # << >> /\ Head(Order(q)) = Head(q).pHead /\ Order(Tail(q)) = Tail(Order(q))
<1>1. Len(q) \in Nat /\ DOMAIN q = 1 .. Len(q) /\ Len(q) # 0
  BY LenProperties, EmptySeq
<1>2. /\ Tail(q) \in Seq(SData) /\ Len(Tail(q)) = Len(q) - 1
      /\ \A n \in 1 .. Len(q) - 1 : Tail(q)[n] = q[n + 1]
      /\ Head(q) = q[1]
  BY HeadTailProperties
<1>3. \A n \in DOMAIN q : q[n].pHead \in Buffers
  <2>1. \A n \in 1 .. Len(q) : q[n] \in SData
    BY ElementOfSeq
  <2> QED BY <1>1, <2>1 DEF SData
<1>4. Order(q) \in Seq(Buffers) /\ Len(Order(q)) = Len(q)
  BY <1>1, <1>3 DEF Order
<1>5. Order(q) # << >> /\ Head(Order(q)) = Order(q)[1]
  BY <1>1, <1>4, EmptySeq, HeadTailProperties
<1>6. DOMAIN Tail(q) = 1 .. Len(q) - 1
  BY <1>2, LenProperties
<1>7. \A n \in DOMAIN Tail(q) : Tail(q)[n].pHead \in Buffers
  BY <1>1, <1>2, <1>3, <1>6
<1>8. Order(Tail(q)) \in Seq(Buffers) /\ Len(Order(Tail(q))) = Len(q) - 1
  BY <1>1, <1>2, <1>6, <1>7 DEF Order
<1>9. /\ Tail(Order(q)) \in Seq(Buffers) /\ Len(Tail(Order(q))) = Len(q) - 1
      /\ \A n \in 1 .. Len(q) - 1 : Tail(Order(q))[n] = Order(q)[n + 1]
  BY <1>4, <1>5, HeadTailProperties
<1>10. \A n \in 1 .. Len(q) - 1 : Order(Tail(q))[n] = Order(q)[n + 1]
  BY <1>1, <1>2, <1>6 DEF Order
<1>11. Order(Tail(q)) = Tail(Order(q))
  BY <1>8, <1>9, <1>10, SeqEqual
<1>12. Order(q)[1] = Head(q).pHead
  BY <1>1, <1>2 DEF Order
<1> QED BY <1>5, <1>11, <1>12

LEMMA OrderAppend ==
  ASSUME NEW q \in Seq(SData), NEW d \in SData
  PROVE  Order(Append(q, d)) = Append(Order(q), d.pHead)
<1>1. Len(q) \in Nat /\ DOMAIN q = 1 .. Len(q) /\ d.pHead \in Buffers
  BY LenProperties DEF SData
<1>2. /\ Append(q, d) \in Seq(SData) /\ Len(Append(q, d)) = Len(q) + 1
      /\ \A n \in 1 .. Len(q) : Append(q, d)[n] = q[n]
      /\ Append(q, d)[Len(q) + 1] = d
  BY AppendProperties
<1>3. DOMAIN Append(q, d) = 1 .. Len(q) + 1
  BY <1>2, LenProperties
<1>4. \A n \in DOMAIN q : q[n].pHead \in Buffers
  <2>1. \A n \in 1 .. Len(q) : q[n] \in SData
    BY ElementOfSeq
  <2> QED BY <1>1, <2>1 DEF SData
<1>5. Order(q) \in Seq(Buffers) /\ Len(Order(q)) = Len(q)
  BY <1>1, <1>4 DEF Order
<1>6. \A n \in 1 .. Len(q) + 1 :
        Append(q, d)[n].pHead = IF n = Len(q) + 1 THEN d.pHead ELSE q[n].pHead
  BY <1>1, <1>2
<1>7. \A n \in 1 .. Len(q) + 1 : Append(q, d)[n].pHead \in Buffers
  BY <1>1, <1>4, <1>6
<1>8. Order(Append(q, d)) \in Seq(Buffers) /\ Len(Order(Append(q, d))) = Len(q) + 1
  BY <1>1, <1>3, <1>7 DEF Order
<1>9. /\ Append(Order(q), d.pHead) \in Seq(Buffers)
      /\ Len(Append(Order(q), d.pHead)) = Len(q) + 1
      /\ \A n \in 1 .. Len(q) : Append(Order(q), d.pHead)[n] = Order(q)[n]
      /\ Append(Order(q), d.pHead)[Len(q) + 1] = d.pHead
  BY <1>1, <1>5, AppendProperties
<1>10. \A n \in 1 .. Len(q) + 1 : Order(Append(q, d))[n] = Append(Order(q), d.pHead)[n]
  BY <1>1, <1>3, <1>6, <1>9 DEF Order
<1> QED BY <1>8, <1>9, <1>10, SeqEqual

\* The step is about the session of p and no other.
Alone(p) ==
  /\ m_aPipes' = m_aPipes /\ res'[p].llId = res[p].llId
  /\ \A q \in OpenPipes : q # p => res'[q] = res[q] /\ os'[q] = os[q]

LEMMA AloneIs ==
  ASSUME IInv, NEW p \in OpenPipes, NEW r, NEW o,
         res' = [res EXCEPT ![p] = r], os' = [os EXCEPT ![p] = o],
         m_aPipes' = m_aPipes, r.llId = res[p].llId
  PROVE  Alone(p) /\ res'[p] = r /\ os'[p] = o
BY OpenIds DEF IInv, TypeOK, Alone

\* The first entry leaves the queue, and its device is told.
LEMMA LeavePromised ==
  ASSUME IInv, IInv', UNCHANGED others, NEW p \in OpenPipes, Alone(p), res[p].cWriteQueue # << >>,
         res'[p].cWriteQueue = Tail(res[p].cWriteQueue),
         os'[p].link = os[p].link, os'[p].writeIo # "ok", NEW message,
         status' = [status EXCEPT ![Head(res[p].cWriteQueue).pHead] = message],
         UNCHANGED <<m_llNextId, m_bWorking>>
  PROVE  Promise!Leave(res[p].llId, message)
<1> DEFINE id == res[p].llId
<1>1. Mapped /\ p \in Pipes /\ res[p].cWriteQueue \in Seq(SData)
  BY MappedIs, OpenIds
<1>2. /\ Outbox' = [Outbox EXCEPT ![id] = Order(res'[p].cWriteQueue)]
      /\ Sent' = [Sent EXCEPT ![id] = Received(os'[p])]
      /\ User' = [User EXCEPT ![id] = Presence(os'[p].link)]
  BY SessionStays DEF Alone
<1>3. /\ Outbox[id] = Order(res[p].cWriteQueue) /\ User[id] = Presence(os[p].link)
      /\ id \in LiveIds
  BY <1>1 DEF Mapped
<1>4. Outbox[id] # << >> /\ Head(Outbox[id]) = Head(res[p].cWriteQueue).pHead
  BY <1>1, <1>3, OrderTail
<1>5. Outbox' = [Outbox EXCEPT ![id] = Tail(Outbox[id])]
  BY <1>1, <1>2, <1>3, OrderTail
<1>6. Sent' = [Sent EXCEPT ![id] = FALSE]
  BY <1>2 DEF Received
<1>7. User' = User
  <2>1. User = [x \in LiveIds |-> User[x]]
    BY DEF User
  <2> QED BY <1>2, <1>3, <2>1
<1>8. status' = [status EXCEPT ![Head(Outbox[id])] = message]
  BY <1>4
<1> HIDE DEF id
<1> QED BY <1>4, <1>5, <1>6, <1>7, <1>8 DEF Promise!Leave, id, others

\* Result on one buffer.
LEMMA ToldOne ==
  ASSUME IInv, NEW b, NEW bPass, Result({b}, bPass)
  PROVE  status' = [status EXCEPT ![b] = IF bPass THEN "passed" ELSE "failed"]
BY DEF Result, IInv, TypeOK

\* A write that has ended reports on the first entry, TRUE when the user got it.
LEMMA OnWritePromised ==
  ASSUME IInv, IInv', UNCHANGED others, OnWrite PROVE Promised
<1>1. PICK p \in Pipes : /\ p = m_aPipes[cur] /\ os[p].link # "none"
                         /\ res[p] \in SPipeResource /\ os[p] \in Instance
  BY HandledPipe DEF OnWrite, IInv, TypeOK
<1>2. /\ p \in OpenPipes /\ Session(p) /\ m_bWorking' = m_bWorking
      /\ m_aPipes' = m_aPipes /\ m_llNextId' = m_llNextId
  BY <1>1 DEF OnWrite, IInv, TypeOK, Sessions, NextIteration, GoTo
<1> DEFINE r == [res[p] EXCEPT !.hWriteEvent = FALSE]
           w == [r EXCEPT !.hWriteEvent = TRUE]
           rr == [r EXCEPT !.fWritePending = FALSE]
           r2 == [r EXCEPT !.fWritePending = TRUE]
           pr == PopWritten([r EXCEPT !.fWritePending = FALSE])
           pw == PopWritten([w EXCEPT !.fWritePending = FALSE])
           b == Head(res[p].cWriteQueue).pHead
           oI == [os[p] EXCEPT !.writeIo = "idle"]
           oP == [os[p] EXCEPT !.writeIo = "pending"]
           id == res[p].llId
<1>3. /\ rr.cWriteQueue = res[p].cWriteQueue /\ r2.cWriteQueue = res[p].cWriteQueue
      /\ pr.cWriteQueue = Tail(res[p].cWriteQueue)
      /\ pw.cWriteQueue = Tail(res[p].cWriteQueue)
      /\ rr.llId = id /\ r2.llId = id /\ pr.llId = id /\ pw.llId = id
  BY <1>1 DEF SPipeResource, PopWritten
<1>4. /\ oI.link = os[p].link /\ oP.link = os[p].link
      /\ oI.writeIo = "idle" /\ oP.writeIo = "pending"
  BY <1>1 DEF Instance
<1>5. UNCHANGED os => os' = [os EXCEPT ![p] = os[p]]
  BY DEF IInv, TypeOK
<1>6. ~res[p].fWritePending => os[p].writeIo = "idle"
  BY <1>1, <1>2 DEF Session
<1>7. \/ UNCHANGED status /\ UNCHANGED os /\ res' = [res EXCEPT ![p] = rr]
      \/ /\ UNCHANGED status /\ os' = [os EXCEPT ![p] = oP] /\ ~res[p].fWritePending
         /\ res' = [res EXCEPT ![p] = r2]
      \/ /\ res[p].cWriteQueue # << >> /\ os' = [os EXCEPT ![p] = oI]
         /\ res' = [res EXCEPT ![p] = pr] /\ Result({b}, WritePassed(p))
      \/ /\ res[p].cWriteQueue # << >> /\ UNCHANGED os /\ ~res[p].fWritePending
         /\ os[p].link = "open" /\ res' = [res EXCEPT ![p] = pw] /\ Result({b}, TRUE)
      \/ /\ res[p].cWriteQueue # << >> /\ UNCHANGED os /\ ~res[p].fWritePending
         /\ res' = [res EXCEPT ![p] = pr] /\ Result({b}, FALSE)
  BY <1>1, <1>3 DEF OnWrite, SPipeResource
<1>8. /\ id \in LiveIds /\ DOMAIN Outbox = LiveIds /\ Sent[id] = Received(os[p])
      /\ User[id] = Presence(os[p].link)
  BY <1>2, MappedIs DEF Mapped
<1>9. ASSUME NEW s, NEW o, res' = [res EXCEPT ![p] = s], os' = [os EXCEPT ![p] = o],
             s.llId = id, s.cWriteQueue = res[p].cWriteQueue, o.link = os[p].link,
             (o.writeIo = "ok") <=> (os[p].writeIo = "ok"), UNCHANGED status
      PROVE  Promised
  <2>1. \A l \in {"open", "broken"} : (o.link = l) <=> (os[p].link = l)
    BY <1>9
  <2>2. UNCHANGED <<m_aPipes, m_llNextId, m_bWorking, status>>
    BY <1>2, <1>9
  <2>3. UNCHANGED Promise!vars
    BY <1>2, <1>9, <2>1, <2>2, Unseen
  <2> QED BY <2>3 DEF Promised
<1>10. ASSUME NEW s, NEW o, res' = [res EXCEPT ![p] = s], os' = [os EXCEPT ![p] = o],
              s.llId = id, s.cWriteQueue = Tail(res[p].cWriteQueue),
              o.link = os[p].link, o.writeIo = "idle", res[p].cWriteQueue # << >>,
              NEW message, status' = [status EXCEPT ![b] = message]
       PROVE  Promise!Leave(id, message)
  <2>1. Alone(p) /\ res'[p] = s /\ os'[p] = o
    BY <1>2, <1>10, AloneIs
  <2> QED BY <1>2, <1>10, <2>1, LeavePromised
<1> HIDE DEF r, w, rr, r2, pr, pw, b, oI, oP, id
<1>11. CASE UNCHANGED status /\ UNCHANGED os /\ res' = [res EXCEPT ![p] = rr]
  BY <1>3, <1>5, <1>9, <1>11
<1>12. CASE /\ UNCHANGED status /\ os' = [os EXCEPT ![p] = oP] /\ ~res[p].fWritePending
            /\ res' = [res EXCEPT ![p] = r2]
  BY <1>3, <1>4, <1>6, <1>9, <1>12
<1>13. ASSUME \/ Promise!Complete(id) \/ Promise!Fail(id) PROVE Promised
  BY <1>8, <1>13 DEF Promised, Promise!Next, Promise!Live
<1>14. CASE /\ res[p].cWriteQueue # << >> /\ os' = [os EXCEPT ![p] = oI]
            /\ res' = [res EXCEPT ![p] = pr] /\ Result({b}, WritePassed(p))
  <2>1. CASE os[p].writeIo = "ok"
    <3>1. status' = [status EXCEPT ![b] = "passed"]
      BY <1>14, <2>1, ToldOne DEF WritePassed
    <3>2. Promise!Leave(id, "passed")
      BY <1>3, <1>4, <1>10, <1>14, <3>1
    <3>3. Sent[id]
      BY <1>8, <2>1 DEF Received
    <3> QED BY <1>13, <3>2, <3>3 DEF Promise!Complete
  <2>2. CASE os[p].writeIo # "ok"
    <3>1. status' = [status EXCEPT ![b] = "failed"]
      BY <1>14, <2>2, ToldOne DEF WritePassed
    <3>2. Promise!Leave(id, "failed")
      BY <1>3, <1>4, <1>10, <1>14, <3>1
    <3>3. ~Sent[id]
      BY <1>8, <2>2 DEF Received
    <3> QED BY <1>13, <3>2, <3>3 DEF Promise!Fail
  <2> QED BY <2>1, <2>2
<1>15. CASE /\ res[p].cWriteQueue # << >> /\ UNCHANGED os /\ ~res[p].fWritePending
            /\ os[p].link = "open" /\ res' = [res EXCEPT ![p] = pw] /\ Result({b}, TRUE)
  <2>1. status' = [status EXCEPT ![b] = "passed"]
    BY <1>15, ToldOne
  <2>2. Promise!Leave(id, "passed")
    BY <1>3, <1>5, <1>6, <1>10, <1>15, <2>1
  <2>3. User[id] = "online"
    BY <1>8, <1>15 DEF Presence
  <2> QED BY <1>13, <2>2, <2>3 DEF Promise!Complete
<1>16. CASE /\ res[p].cWriteQueue # << >> /\ UNCHANGED os /\ ~res[p].fWritePending
            /\ res' = [res EXCEPT ![p] = pr] /\ Result({b}, FALSE)
  <2>1. status' = [status EXCEPT ![b] = "failed"]
    BY <1>16, ToldOne
  <2>2. Promise!Leave(id, "failed")
    BY <1>3, <1>5, <1>6, <1>10, <1>16, <2>1
  <2>3. ~Sent[id]
    BY <1>6, <1>8, <1>16 DEF Received
  <2> QED BY <1>13, <2>2, <2>3 DEF Promise!Fail
<1> QED BY <1>7, <1>11, <1>12, <1>14, <1>15, <1>16

\* There is room for a buffer in the account when there is in the outboxes.
LEMMA RoomIsFit ==
  ASSUME IInv, Accounts, NEW b \in Buffers, status[b] # "held"
  PROVE  Promise!Fits(b) <=> Room(b)
<1>1. Held \in SUBSET Buffers /\ b \in Buffers \ Held
  BY DEF Held
<1>2. Bytes(Held \cup {b}) = Bytes(Held) + Size[b]
  BY <1>1, BytesMore
<1>3. Limited => s_llQueueBytes = Bytes(Held) + elsewhere
  BY DEF Accounts, BytesAccounted, Held
<1>6. Bytes(Held) \in Int /\ elsewhere \in Int /\ Size[b] \in Int
  BY <1>1, BytesType, PipeServerAssumption DEF Accounts
<1>4. Promise!Held = Held
  BY DEF Promise!Held, Held
<1>5. Promise!Fits(b) <=> (MaxQueueBytes >= 0 => Bytes(Held \cup {b}) + elsewhere <= MaxQueueBytes)
  BY <1>4 DEF Promise!Fits, Bytes, Promise!MapThenSumSet, Promise!MapThenFoldSet,
     MapThenSumSet, MapThenFoldSet
<1> QED BY <1>2, <1>3, <1>5, <1>6 DEF Room, Limited

\* SendData accepts a buffer for a session that is there, or refuses it.
LEMMA SendPromised ==
  ASSUME IInv, IInv', Accounts, UNCHANGED elsewhere, NEW b \in Buffers, NEW id \in Nat, id < m_llNextId,
         SendData(b, id), m_bWorking' = m_bWorking
  PROVE  Promised
<1>1. /\ status[b] # "held" /\ UNCHANGED os
      /\ UNCHANGED <<m_aPipes, m_llNextId, m_bWorking>>
  BY DEF SendData, DeviceOwned, system
<1>2. Promise!Fits(b) <=> Room(b)
  BY <1>1, RoomIsFit
<1>3. Mapped
  BY MappedIs
<1>4. ASSUME NEW p \in Addressees(id), m_bWorking, Room(b),
             res' = [res EXCEPT ![p] = Push(@, [pHead |-> b, to |-> id])],
             status' = [status EXCEPT ![b] = "held"],
             refusedFor' = [refusedFor EXCEPT ![b] = -1]
      PROVE  Promised
  <2> DEFINE d == [pHead |-> b, to |-> id]
             r == Push(res[p], d)
  <2>1. /\ p \in Pipes /\ p \in OpenPipes /\ res[p] \in SPipeResource /\ d \in SData
        /\ d.pHead = b /\ res[p].llId = id /\ res[p].cWriteQueue \in Seq(SData)
    BY OpenIds DEF Addressees, OpenPipes, IInv, TypeOK, SData, Ids
  <2>2. r.cWriteQueue = Append(res[p].cWriteQueue, d) /\ r.llId = id
    BY <2>1 DEF Push, SPipeResource
  <2>3. res' = [res EXCEPT ![p] = r] /\ os' = [os EXCEPT ![p] = os[p]]
    BY <1>1, <1>4 DEF IInv, TypeOK
  <2> HIDE DEF d, r
  <2>4. Alone(p) /\ res'[p] = r /\ os'[p] = os[p]
    BY <1>1, <2>1, <2>2, <2>3, AloneIs
  <2>5. /\ Outbox' = [Outbox EXCEPT ![id] = Order(r.cWriteQueue)]
        /\ Sent' = [Sent EXCEPT ![id] = Received(os[p])]
        /\ User' = [User EXCEPT ![id] = Presence(os[p].link)]
    BY <2>1, <2>4, SessionStays DEF Alone
  <2>6. /\ Outbox[id] = Order(res[p].cWriteQueue) /\ Sent[id] = Received(os[p])
        /\ User[id] = Presence(os[p].link) /\ id \in LiveIds /\ DOMAIN Outbox = LiveIds
    BY <1>3, <2>1 DEF Mapped
  <2>7. Outbox' = [Outbox EXCEPT ![id] = Append(Outbox[id], b)]
    BY <2>1, <2>2, <2>5, <2>6, OrderAppend
  <2>8. Sent' = Sent /\ User' = User
    <3>1. Sent = [x \in LiveIds |-> Sent[x]] /\ User = [x \in LiveIds |-> User[x]]
      BY DEF Sent, User
    <3>2. Sent' = Sent
      BY <2>5, <2>6, <3>1
    <3>3. User' = User
      BY <2>5, <2>6, <3>1
    <3> QED BY <3>2, <3>3
  <2>9. Promise!Accept(id, b)
    BY <1>1, <1>2, <1>4, <2>7, <2>8 DEF Promise!Accept
  <2> QED BY <2>6, <2>9 DEF Promised, Promise!Next, Promise!Live
<1>5. ASSUME ~m_bWorking \/ Addressees(id) = {} \/ ~Room(b),
             status' = [status EXCEPT ![b] = "refused"], UNCHANGED res,
             refusedFor' = [refusedFor EXCEPT ![b] = id]
      PROVE  Promised
  <2>1. UNCHANGED <<Outbox, Sent, User>>
    BY <1>1, <1>5, SessionsStay
  <2>2. /\ Addressees(id) = {} => id \notin DOMAIN Outbox
        /\ id \in 0 .. m_llNextId - 1
    <3>1. m_llNextId \in Nat
      BY OpenIds
    <3>2. Addressees(id) = {} => id \notin LiveIds
      BY DEF LiveIds, Addressees, OpenPipes
    <3> QED BY <1>3, <3>1, <3>2 DEF Mapped
  <2>3. Promise!Refuse(id, b)
    BY <1>1, <1>2, <1>5, <2>1, <2>2 DEF Promise!Refuse, Promise!Live
  <2> QED BY <2>2, <2>3 DEF Promised, Promise!Next
<1> QED BY <1>4, <1>5 DEF SendData

\* From whichever thread it is called.
LEMMA DevicesPromised ==
  ASSUME IInv, IInv', Accounts, UNCHANGED elsewhere, DeviceSend \/ ProcessSent PROVE Promised
<1>1. CASE DeviceSend
  <2>1. PICK b \in Buffers, id \in KnownIds : SendData(b, id)
    BY <1>1 DEF DeviceSend
  <2>2. id \in Nat /\ id < m_llNextId /\ m_bWorking' = m_bWorking
    BY <1>1 DEF DeviceSend, control, KnownIds, IInv, TypeOK, Ids, Sessions, ServedBefore
  <2> QED BY <2>1, <2>2, SendPromised
<1>2. CASE ProcessSent
  <2>1. m_bWorking' = m_bWorking
    BY <1>2 DEF ProcessSent, GoTo
  <2>2. CASE UNCHANGED <<resources, system, s_llQueueBytes, status, history, refusedFor>>
    <3>1. UNCHANGED <<m_aPipes, res, os, m_llNextId, m_bWorking, status>>
      BY <2>1, <2>2 DEF resources, system
    <3>2. UNCHANGED refusedFor
      BY <2>2
    <3> QED BY <3>1, <3>2, SessionsStay DEF Promised, Promise!vars
  <2>3. CASE \E b \in Buffers : SendData(b, res[m_aPipes[cur]].llId)
    <3>1. PICK b \in Buffers : SendData(b, res[m_aPipes[cur]].llId)
      BY <2>3
    <3>2. m_aPipes[cur] \in OpenPipes
      BY <1>2 DEF ProcessSent, IInv, TypeOK, OpenPipes, Range
    <3>3. res[m_aPipes[cur]].llId \in Nat /\ res[m_aPipes[cur]].llId < m_llNextId
      BY <3>2, OpenIds
    <3> QED BY <2>1, <3>1, <3>3, SendPromised
  <2> QED BY <1>2, <2>2, <2>3 DEF ProcessSent
<1> QED BY <1>1, <1>2

\* Close first makes the comm refuse, then ends every session.
CloseRefuses == closePc = "waiting" => ~m_bWorking

\* Only Init makes the comm work again, and it waits for Close.
LEMMA CloseRefusesAlways == Spec => []CloseRefuses
<1>1. Init => CloseRefuses
  BY DEF Init, CloseRefuses
<1>2. CloseRefuses /\ [Next]_vars => CloseRefuses'
  <2> SUFFICES ASSUME CloseRefuses, [Next]_vars PROVE CloseRefuses'
    OBVIOUS
  <2> USE DEF CloseRefuses
  <2>1. CASE (\E p \in Pipes : InitComm(p)) \/ Closer
    BY <2>1 DEF InitComm, Closer, Closing, CloseBegin, CloseJoined, CloseTimeout,
       CloseEnd, CloseBlocks
  <2>2. CASE InitCommFails \/ DeviceSend \/ OtherComms \/ UNCHANGED vars
    BY <2>2 DEF InitCommFails, DeviceSend, OtherComms, vars, control
  <2>3. CASE PipeThread
    BY <2>3, ThreadRuns
  <2>4. ASSUME NEW p \in Pipes, Client(p) \/ ConnectFails(p) PROVE CloseRefuses'
    BY <2>4 DEF Client, ClientConnect, ClientWrite, ClientRead, ClientClose,
       ConnectFails, control
  <2> QED BY <2>1, <2>2, <2>3, <2>4 DEF Next
<1> QED BY <1>1, <1>2, PTL DEF Spec

LEMMA ClosePromised ==
  ASSUME IInv, IInv', CloseRefuses, Closer PROVE Promised
<1>0. UNCHANGED others
  BY DEF Closer
<1>1. CASE CloseBegin
  <2>1. UNCHANGED <<m_aPipes, res, os, m_llNextId, status>> /\ m_bWorking' = FALSE
    BY <1>1 DEF CloseBegin, resources, system
  <2>2. UNCHANGED <<Outbox, Sent, User>>
    BY <2>1, SessionsStay
  <2>3. CASE m_bWorking
    BY <1>0, <2>1, <2>2, <2>3 DEF Promised, Promise!Next, Promise!Shut, others
  <2>4. CASE ~m_bWorking
    BY <1>0, <2>1, <2>2, <2>4 DEF Promised, Promise!vars, IInv, TypeOK, others
  <2> QED BY <2>3, <2>4
<1>2. CASE CloseEnd
  <2> DEFINE N == {q \in Pipes : FALSE}
             E == OpenPipes
  <2>1. /\ m_aPipes' = << >> /\ UNCHANGED <<m_llNextId, m_bWorking>> /\ ~m_bWorking
        /\ Result(StillQueued, FALSE)
    BY <1>2 DEF CloseEnd, CloseRefuses
  <2>2. OpenPipes' = {}
    BY <2>1 DEF OpenPipes, Range
  <2>3. status' = [b \in Buffers |-> IF \E q \in E : b \in Heads(q)
                                     THEN "failed" ELSE status[b]]
    BY <2>1 DEF Result, StillQueued, Heads, OpenPipes
  <2>4. /\ E \in SUBSET OpenPipes /\ N \in SUBSET Pipes
        /\ OpenPipes' = (OpenPipes \ E) \cup N /\ N \cap (OpenPipes \ E) = {}
        /\ m_llNextId' \in m_llNextId .. m_llNextId + 2
        /\ \A q \in OpenPipes \ E : res'[q] = res[q] /\ os'[q] = os[q]
        /\ \A q \in N : /\ res'[q].llId \in m_llNextId .. m_llNextId' - 1
                        /\ res'[q].cWriteQueue = << >> /\ os'[q].writeIo = "idle"
                        /\ os'[q].link \in {"avail", "off", "open"}
    BY <2>1, <2>2, OpenIds
  <2> HIDE DEF N, E
  <2>5. Promise!Turnover
    BY <1>0, <2>3, <2>4, PipesTurn
  <2>6. DOMAIN Outbox' = {}
    BY <2>2 DEF Outbox, LiveIds
  <2>7. Promise!Ended
    BY <2>1, <2>5, <2>6 DEF Promise!Ended, Promise!Live
  <2> QED BY <2>7 DEF Promised, Promise!Next
<1>3. CASE CloseBlocks
  <2>1. UNCHANGED <<m_aPipes, res, os, m_llNextId, m_bWorking, status>>
    BY <1>3 DEF CloseBlocks, resources, system
  <2> QED BY <1>0, <2>1, SessionsStay DEF Promised, Promise!vars, others
<1> QED BY <1>1, <1>2, <1>3 DEF Closer, Closing, CloseJoined, CloseTimeout

\* Nothing is new where the value is the same.
LEMMA SameAt ==
  ASSUME NEW S, NEW f, f = [x \in S |-> f[x]], NEW i, NEW v, f[i] = v
  PROVE  [f EXCEPT ![i] = v] = f
OBVIOUS

\* A user comes, takes the first entry, or leaves; nothing else is seen of them.
LEMMA OutsidePromised ==
  ASSUME IInv, IInv', NEW p \in Pipes, Client(p) \/ ConnectFails(p) PROVE Promised
<1> DEFINE id == res[p].llId
<1>1. /\ os[p] \in Instance /\ os[p].link # "none" /\ p \in OpenPipes /\ Session(p)
      /\ res[p].cWriteQueue \in Seq(SData)
  BY OpenIds DEF Client, ClientConnect, ClientWrite, ClientRead, ClientClose, ConnectFails,
     IInv, TypeOK, Sessions
<1>2. UNCHANGED <<m_aPipes, m_llNextId, m_bWorking, status, others>>
  BY DEF Client, ClientConnect, ClientWrite, ClientRead, ClientClose, ConnectFails, control
<1>3. PICK r : /\ res' = [res EXCEPT ![p] = r]
               /\ r.cWriteQueue = res[p].cWriteQueue /\ r.llId = res[p].llId
  BY OutsideResource
<1>4. /\ id \in LiveIds /\ DOMAIN Outbox = LiveIds /\ Sent[id] = Received(os[p])
      /\ User[id] = Presence(os[p].link) /\ Outbox[id] = Order(res[p].cWriteQueue)
  BY <1>1, MappedIs DEF Mapped
<1>5. /\ Outbox = [x \in LiveIds |-> Outbox[x]] /\ Sent = [x \in LiveIds |-> Sent[x]]
      /\ User = [x \in LiveIds |-> User[x]]
  BY DEF Outbox, Sent, User
<1>6. ASSUME NEW o, os' = [os EXCEPT ![p] = o]
      PROVE  /\ Outbox' = Outbox
             /\ Sent' = [Sent EXCEPT ![id] = Received(o)]
             /\ User' = [User EXCEPT ![id] = Presence(o.link)]
  <2>1. Alone(p) /\ res'[p] = r /\ os'[p] = o
    BY <1>1, <1>2, <1>3, <1>6, AloneIs
  <2>2. /\ Outbox' = [Outbox EXCEPT ![id] = Order(res'[p].cWriteQueue)]
        /\ Sent' = [Sent EXCEPT ![id] = Received(o)]
        /\ User' = [User EXCEPT ![id] = Presence(o.link)]
    BY <1>1, <2>1, SessionStays DEF Alone
  <2>3. Outbox[id] = Order(res'[p].cWriteQueue)
    BY <1>3, <1>4, <2>1
  <2>4. Outbox' = Outbox
    BY <1>5, <2>2, <2>3, SameAt
  <2> QED BY <2>2, <2>4
<1>7. ASSUME NEW o, os' = [os EXCEPT ![p] = o], o.link = os[p].link,
             o.writeIo = os[p].writeIo
      PROVE  Promised
  <2>1. UNCHANGED Promise!vars
    BY <1>1, <1>2, <1>3, <1>7, Unseen
  <2> QED BY <2>1 DEF Promised
<1>8. CASE ClientConnect(p)
  <2>1. PICK o : /\ os' = [os EXCEPT ![p] = o] /\ o.link = "open"
                 /\ o.writeIo = os[p].writeIo
    <3> DEFINE listening == os[p].readIo = "pending"
               n == [os[p] EXCEPT !.link = "open", !.client = nClients + 1,
                                  !.readIo = IF listening THEN "ok" ELSE @]
    <3>1. os' = [os EXCEPT ![p] = n]
      BY <1>8 DEF ClientConnect, IInv, TypeOK
    <3>2. n.link = "open" /\ n.writeIo = os[p].writeIo
      BY <1>1 DEF Instance
    <3> HIDE DEF n
    <3> QED BY <3>1, <3>2
  <2>2. User[id] = "awaited" /\ Presence(o.link) = "online" /\ Received(o) = Received(os[p])
    BY <1>4, <1>8, <2>1 DEF ClientConnect, Presence, Received
  <2>3. Outbox' = Outbox /\ Sent' = Sent /\ User' = [User EXCEPT ![id] = "online"]
    <3>1. Sent[id] = Received(o)
      BY <1>4, <2>2
    <3>2. [Sent EXCEPT ![id] = Received(o)] = Sent
      BY <1>5, <3>1, SameAt
    <3> QED BY <1>6, <2>1, <2>2, <3>2
  <2>4. Promise!UserComes(id)
    BY <1>2, <2>2, <2>3 DEF others, Promise!UserComes
  <2> QED BY <1>4, <2>4 DEF Promised, Promise!Next, Promise!Live
<1>9. CASE ClientRead(p)
  <2>1. PICK o : /\ os' = [os EXCEPT ![p] = o] /\ o.link = os[p].link
                 /\ o.writeIo = "ok"
    <3> DEFINE n == [os[p] EXCEPT !.writeIo = "ok"]
    <3>1. os' = [os EXCEPT ![p] = n] /\ n.link = os[p].link /\ n.writeIo = "ok"
      BY <1>1, <1>9 DEF ClientRead, Instance
    <3> HIDE DEF n
    <3> QED BY <3>1
  <2>2. /\ Outbox[id] # << >> /\ ~Sent[id] /\ User[id] = "online"
        /\ Received(o) = TRUE /\ Presence(o.link) = User[id]
    <3>1. res[p].cWriteQueue # << >>
      BY <1>1, <1>9 DEF ClientRead, Session
    <3>2. Outbox[id] # << >>
      BY <1>1, <1>4, <3>1, OrderTail
    <3> QED BY <1>4, <1>9, <2>1, <3>2 DEF ClientRead, Presence, Received
  <2>3. Outbox' = Outbox /\ Sent' = [Sent EXCEPT ![id] = TRUE] /\ User' = User
    <3>1. [User EXCEPT ![id] = Presence(o.link)] = User
      BY <1>5, <2>2, SameAt
    <3> QED BY <1>6, <2>1, <2>2, <3>1
  <2>4. Promise!Transmit(id)
    BY <1>2, <2>2, <2>3 DEF others, Promise!Transmit
  <2> QED BY <1>4, <2>4 DEF Promised, Promise!Next, Promise!Live
<1>10. CASE ClientClose(p)
  <2>1. PICK o : /\ os' = [os EXCEPT ![p] = o] /\ o.link = "broken"
                 /\ o.writeIo = Ended(os[p].writeIo)
    <3> DEFINE n == [os[p] EXCEPT !.link = "broken", !.readIo = Ended(os[p].readIo),
                                  !.writeIo = Ended(os[p].writeIo)]
    <3>1. os' = [os EXCEPT ![p] = n]
      BY <1>10 DEF ClientClose, IInv, TypeOK
    <3>2. n.link = "broken" /\ n.writeIo = Ended(os[p].writeIo)
      BY <1>1 DEF Instance
    <3> HIDE DEF n
    <3> QED BY <3>1, <3>2
  <2>2. User[id] = "online" /\ Presence(o.link) = "left" /\ Received(o) = Received(os[p])
    BY <1>4, <1>10, <2>1 DEF ClientClose, Presence, Received, Ended
  <2>3. Outbox' = Outbox /\ Sent' = Sent /\ User' = [User EXCEPT ![id] = "left"]
    <3>1. Sent[id] = Received(o)
      BY <1>4, <2>2
    <3>2. [Sent EXCEPT ![id] = Received(o)] = Sent
      BY <1>5, <3>1, SameAt
    <3> QED BY <1>6, <2>1, <2>2, <3>2
  <2>4. Promise!UserLeaves(id)
    BY <1>2, <2>2, <2>3 DEF others, Promise!UserLeaves
  <2> QED BY <1>4, <2>4 DEF Promised, Promise!Next, Promise!Live
<1>11. CASE ClientWrite(p) \/ ConnectFails(p)
  <2>1. PICK o : /\ os' = [os EXCEPT ![p] = o] /\ o.link = os[p].link
                 /\ o.writeIo = os[p].writeIo
    <3> DEFINE R(x) == [os[p] EXCEPT !.readIo = x]
               I(x) == [os[p] EXCEPT !.inbox = x]
    <3>1. \A x : /\ R(x).link = os[p].link /\ R(x).writeIo = os[p].writeIo
                 /\ I(x).link = os[p].link /\ I(x).writeIo = os[p].writeIo
      BY <1>1 DEF Instance
    <3>2. \E x : os' = [os EXCEPT ![p] = R(x)] \/ os' = [os EXCEPT ![p] = I(x)]
      BY <1>11 DEF ClientWrite, ConnectFails
    <3> HIDE DEF R, I
    <3> QED BY <3>1, <3>2
  <2> QED BY <1>7, <2>1
<1> QED BY <1>8, <1>9, <1>10, <1>11 DEF Client

-----------------------------------------------------------------------------
(* The refinement *)

\* Every step is one Comm allows, or shows nothing.
LEMMA NextPromised ==
  ASSUME IInv, IInv', Accounts, CloseRefuses, [Next]_vars PROVE Promised
<1>1. CASE \E p \in Pipes : InitComm(p)
  BY <1>1, InitCommOpen DEF Promised, Promise!Next
<1>2. ASSUME KeepInstances \/ WaitDone \/ WaitEvent \/ ProcessSends \/ UNCHANGED vars,
             UNCHANGED others
      PROVE  Promised
  <2>1. UNCHANGED <<m_aPipes, res, os, m_llNextId, m_bWorking, status>>
    BY <1>2 DEF KeepInstances, WaitDone, WaitEvent, ProcessSends, GoTo,
       vars, resources, system, control
  <2> QED BY <1>2, <2>1, SessionsStay DEF Promised, Promise!vars, others
<1>3. CASE InitCommFails
  BY <1>3, InitCommFailed
<1>4. CASE PipeThread
  BY <1>2, <1>4, AddInstancePromised, HandlersPromised, OnWritePromised, DevicesPromised
  DEF PipeThread, others
<1>5. CASE DeviceSend
  BY <1>5, DevicesPromised DEF DeviceSend
<1>6. CASE Closer
  BY <1>6, ClosePromised
<1>7. ASSUME NEW p \in Pipes, Client(p) \/ ConnectFails(p) PROVE Promised
  BY <1>7, OutsidePromised
<1>8. CASE OtherComms
  <2>1. UNCHANGED <<m_aPipes, res, os, m_llNextId, m_bWorking, status, refusedFor>>
    BY <1>8 DEF OtherComms, resources, system, control
  <2>2. elsewhere' \in Nat
    BY <1>8, PipeServerAssumption DEF OtherComms
  <2>3. UNCHANGED <<Outbox, Sent, User>>
    BY <2>1, SessionsStay
  <2>4. Promise!Others
    BY <2>1, <2>2, <2>3 DEF Promise!Others
  <2> QED BY <2>4 DEF Promised, Promise!Next
<1>9. CASE UNCHANGED vars
  BY <1>2, <1>9 DEF vars
<1> QED BY <1>1, <1>3, <1>4, <1>5, <1>6, <1>7, <1>8, <1>9 DEF Next

\* A comm that has not been opened has no session.
LEMMA InitPromised == Init => Promise!Init
<1> SUFFICES ASSUME Init PROVE Promise!Init
  OBVIOUS
<1>1. LiveIds = {}
  BY DEF Init, LiveIds, OpenPipes, Range
<1>2. ASSUME NEW f, DOMAIN f = {}, f = [x \in {} |-> f[x]] PROVE f = << >>
  BY <1>2
<1>3. Outbox = << >> /\ Sent = << >> /\ User = << >>
  BY <1>1 DEF Outbox, Sent, User
<1> QED BY <1>3 DEF Init, Promise!Init

\* CPipeServer is the comm its devices count on ("base classses.h"): the replies of a
\* session are written in the order they were sent and reported on in that order,
\* TRUE when the client got them, each once; ids are never taken up again; SendData
\* fails only if the session it was called for is gone, the comm is closed, or the
\* bytes queued here and by the process's other comms leave no room.
THEOREM CommKept == Spec => ImplementsComm
<1>1. IInv /\ IInv' /\ Accounts /\ CloseRefuses /\ [Next]_vars
        => [Promise!Next]_(Promise!vars)
  BY NextPromised DEF Promised
<1> QED BY <1>1, InitPromised, Inductive, AccountsAlways, CloseRefusesAlways, PTL
        DEF Spec, ImplementsComm, Promise!Spec
=============================================================================
