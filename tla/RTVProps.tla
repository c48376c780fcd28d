------------------------------ MODULE RTVProps ------------------------------
(***************************************************************************)
(* What must hold of a CChannelRTV, and what its comments say of it.       *)
(***************************************************************************)
EXTENDS RTV

Told == {"nothing", "active", "activeLost", "closing", "closingLost"}

\* Each variable of the channel, its threads and its comm has its type.
TypeOK ==
  /\ bLossless \in BOOLEAN /\ m_bActive \in BOOLEAN /\ m_bSent \in BOOLEAN
  /\ m_llId \in Ids \cup {-1} /\ m_pLastSent \in Buffers \cup {NULL}
  /\ pc \in {"idle", "closing", "respond", "exited", "killedHolding"}
  /\ request \in [llId : Ids \cup {-1},
                  eType : {"none", "eActivate", "eInactivate"},
                  nError : {"none", "ALREADY_OPEN", "DRIVER_ERROR"}]
  /\ framePc \in {"idle", "read", "send"}
  /\ pFrame \in Buffers \cup {NULL} /\ frameId \in Ids \cup {-1}
  /\ deletePc \in {"none", "joining", "clearing", "deleted"}
  /\ nextId \in 0 .. MaxSessions
  /\ DOMAIN outbox \subseteq 0 .. nextId - 1
  /\ outbox \in [DOMAIN outbox -> Seq(Buffers)]
  /\ content \in [Buffers -> {"free", "lost", "frame", "response"}]
  /\ nFaults \in Nat
  /\ fresh \subseteq Buffers
  /\ told \in [Ids -> Told]

\* A channel that is not lossless has at most one frame under way at a time,
\* counted from its activation, though answers that complete meanwhile also
\* come to Result, and an earlier activation's frame may complete late.
OneFrameAtATime == ~bLossless => \A b, c \in fresh : b = c

\* A step that hands a frame to the session id.
FrameQueued(id) ==
  /\ framePc = "send" /\ framePc' = "idle"
  /\ frameId = id /\ id \in DOMAIN outbox

\* "don't exit earlier so this massege is first response": a client hears that
\* it is active before it gets the first frame of its activation, or would have
\* if a full queue had not refused the answer; and once told that the channel
\* closes it gets no further frame but those taken before.
AnswerBeforeFrames ==
  [][\A id \in Ids : FrameQueued(id) /\ pFrame \in fresh =>
       told[id] \in {"active", "activeLost"}]_vars

\* "The pipe that initially activated it, will also get a response saying that
\* the device is closing", whoever inactivated it: it has been sent
\* unless a full queue refused it.
ActivatorTold ==
  pc = "idle" /\ ~m_bActive =>
    \A id \in DOMAIN outbox : told[id] \notin {"active", "activeLost"}

\* SendData has refused the frame the channel waits for: its session was gone or
\* the queue full, and no Result will ever come for it.
Lost == m_pLastSent # NULL /\ content[m_pLastSent] = "lost"

\* The stream does not stall: the frame a channel waits for completes, unless it
\* was lost, or the pipe thread is never done with requests or ends.
StreamContinues == <>[](pc = "idle") => (m_bSent ~> ~m_bSent \/ Lost)

-----------------------------------------------------------------------------
(* What comments and documents say, and the code does not do *)

\* Close "stops all communication with this comm, terminates all threads and
\* returns it to its original state": so the destructor that calls it ends.
DeletionEnds == deletePc = "joining" ~> deletePc = "deleted"
=============================================================================
