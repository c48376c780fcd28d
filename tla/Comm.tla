-------------------------------- MODULE Comm --------------------------------
(***************************************************************************)
(* What a CComm ("base classses.h") promises the devices that use it,      *)
(* without saying how: each user that connects is a session with a fresh   *)
(* id and an outbox; buffers handed to SendData leave the outbox in order, *)
(* and Result is called on each exactly once.                              *)
(***************************************************************************)
EXTENDS Integers, Sequences, SequencesExt, FiniteSets, FiniteSetsExt

CONSTANTS Buffers, Size, MaxQueueBytes

VARIABLES
  outbox,   \* outbox[id]: buffers accepted for the live session id
  sent,     \* sent[id]: the first of them has been received by the user
  user,     \* user[id]: the session's user has yet to come, is there, has left
  nextId,   \* every session so far has a smaller id
  working,  \* between Init and Close
  status,   \* what each buffer's device was last told
  elsewhere,  \* bytes other comms have queued, which count for the limit too
  refusedFor  \* the session a buffer was refused for

vars == <<outbox, sent, user, nextId, working, status, elsewhere, refusedFor>>

Live == DOMAIN outbox
Held == {b \in Buffers : status[b] = "held"}
Fits(b) ==
  MaxQueueBytes >= 0 =>
    MapThenSumSet(LAMBDA x : Size[x], Held \cup {b}) + elsewhere <= MaxQueueBytes

Init ==
  /\ outbox = << >> /\ sent = << >> /\ user = << >>
  /\ nextId = 0 /\ working = FALSE
  /\ status = [b \in Buffers |-> "idle"]
  /\ elsewhere = 0 /\ refusedFor = [b \in Buffers |-> -1]

Accept(id, b) ==
  /\ working /\ status[b] # "held" /\ Fits(b)
  /\ outbox' = [outbox EXCEPT ![id] = Append(@, b)]
  /\ status' = [status EXCEPT ![b] = "held"]
  /\ refusedFor' = [refusedFor EXCEPT ![b] = -1]
  /\ UNCHANGED <<sent, user, nextId, working, elsewhere>>

\* SendData fails: the session has ended, there is no room, or Close was called.
Refuse(id, b) ==
  /\ status[b] # "held"
  /\ ~working \/ ~Fits(b) \/ id \notin Live
  /\ status' = [status EXCEPT ![b] = "refused"]
  /\ refusedFor' = [refusedFor EXCEPT ![b] = id]
  /\ UNCHANGED <<outbox, sent, user, nextId, working, elsewhere>>

\* The other comms send, and are done with what they sent.
Others ==
  /\ elsewhere' \in Nat
  /\ UNCHANGED <<outbox, sent, user, nextId, working, status, refusedFor>>

UserComes(id) ==
  /\ user[id] = "awaited" /\ user' = [user EXCEPT ![id] = "online"]
  /\ UNCHANGED <<outbox, sent, nextId, working, status, elsewhere, refusedFor>>

UserLeaves(id) ==
  /\ user[id] = "online" /\ user' = [user EXCEPT ![id] = "left"]
  /\ UNCHANGED <<outbox, sent, nextId, working, status, elsewhere, refusedFor>>

Transmit(id) ==
  /\ user[id] = "online" /\ outbox[id] # << >> /\ ~sent[id]
  /\ sent' = [sent EXCEPT ![id] = TRUE]
  /\ UNCHANGED <<outbox, user, nextId, working, status, elsewhere, refusedFor>>

Leave(id, result) ==
  /\ outbox[id] # << >>
  /\ outbox' = [outbox EXCEPT ![id] = Tail(@)]
  /\ sent' = [sent EXCEPT ![id] = FALSE]
  /\ status' = [status EXCEPT ![Head(outbox[id])] = result]
  /\ UNCHANGED <<user, nextId, working, elsewhere, refusedFor>>

\* Result(pHead, TRUE) for a buffer the user has (or gets at that moment),
\* Result(pHead, FALSE) for one that could not be written.
Complete(id) == (sent[id] \/ user[id] = "online") /\ Leave(id, "passed")
Fail(id) == ~sent[id] /\ Leave(id, "failed")

\* Sessions end, with Result(.., FALSE) on all that is still in their
\* outboxes, and new ones begin with ids never used before.
Turnover ==
  \E ended \in SUBSET Live, n \in nextId .. nextId + 2 :
    \E begun \in SUBSET (nextId .. n - 1) :
      /\ nextId' = n
      /\ outbox' = [id \in (Live \ ended) \cup begun |->
                      IF id \in Live THEN outbox[id] ELSE << >>]
      /\ sent' = [id \in (Live \ ended) \cup begun |->
                    IF id \in Live THEN sent[id] ELSE FALSE]
      /\ \E first \in [begun -> {"awaited", "online"}] :
           user' = [id \in (Live \ ended) \cup begun |->
                      IF id \in Live THEN user[id] ELSE first[id]]
      /\ status' = [b \in Buffers |->
                      IF \E id \in ended : b \in Range(outbox[id])
                      THEN "failed" ELSE status[b]]
      /\ UNCHANGED <<elsewhere, refusedFor>>

Open == ~working /\ Live = {} /\ working' = TRUE /\ Turnover

\* Close first refuses further data, then ends every session.
Shut ==
  /\ working /\ working' = FALSE
  /\ UNCHANGED <<outbox, sent, user, nextId, status, elsewhere, refusedFor>>
Ended == ~working /\ Live' = {} /\ Turnover /\ UNCHANGED <<working, nextId>>

Next ==
  \/ \E id \in Live :
       \/ \E b \in Buffers : Accept(id, b)
       \/ UserComes(id) \/ UserLeaves(id)
       \/ Transmit(id) \/ Complete(id) \/ Fail(id)
  \/ \E id \in 0 .. nextId - 1, b \in Buffers : Refuse(id, b)
  \/ Others
  \/ Turnover /\ UNCHANGED working
  \/ Open \/ Shut \/ Ended

Spec == Init /\ [][Next]_vars
=============================================================================
