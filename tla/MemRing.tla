------------------------------ MODULE MemRing ------------------------------
(***************************************************************************)
(* CMemRing ("mem pool.cpp"): blocks that are handed out again once nobody *)
(* claims them.  nCount is the sequence of the blocks' counts of claims;   *)
(* an index is one more than the code's.  Each call holds m_hMemSafe.      *)
(***************************************************************************)
EXTENDS Integers, Sequences

CONSTANTS m_nMinElems, m_nMaxElems

ASSUME RingAssumption ==
  m_nMinElems \in Nat /\ m_nMaxElems \in Nat \ {0} /\ m_nMinElems <= m_nMaxElems

NewRing == [i \in 1 .. m_nMinElems |-> 0]

Unclaimed(nCount) == {i \in DOMAIN nCount : nCount[i] = 0}

\* The block GetFree finds or creates, 0 when there is none.  Whoever gets it
\* has no claim yet.
\* Mutant: with none free, the first block is handed out.
AnyBlock(nCount) ==
  IF Unclaimed(nCount) # {}
  THEN CHOOSE i \in Unclaimed(nCount) : \A j \in Unclaimed(nCount) : i <= j
  ELSE IF Len(nCount) < m_nMaxElems THEN Len(nCount) + 1 ELSE 1
GetFree(nCount) ==
  IF Unclaimed(nCount) # {}
  THEN CHOOSE i \in Unclaimed(nCount) : \A j \in Unclaimed(nCount) : i <= j
  ELSE IF Len(nCount) < m_nMaxElems THEN Len(nCount) + 1 ELSE 0

\* The ring after GetFree returned the block i.
Grown(nCount, i) == IF i > Len(nCount) THEN Append(nCount, 0) ELSE nCount

\* GetIndexMemory, called n times.
Claimed(nCount, i, n) ==
  IF i \in DOMAIN nCount THEN [nCount EXCEPT ![i] = @ + n] ELSE nCount

ReleaseIndex(nCount, i) ==
  IF i \in DOMAIN nCount THEN [nCount EXCEPT ![i] = @ - 1] ELSE nCount
=============================================================================
