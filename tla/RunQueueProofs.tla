---------------------------- MODULE RunQueueProofs ----------------------------
(***************************************************************************)
(* The run-queue specification keeps its apps in table order, for every   *)
(* size of the table: what was admitted, retired apps first, is strictly   *)
(* increasing and within the entries scanned so far.                       *)
(***************************************************************************)
EXTENDS RunQueue, ConcatLemmas

(* InOrder with the types a step needs; the table size is a natural      *)
(* number.                                                                 *)
IInv == N \in Nat /\ TypeOK /\ InOrder

-----------------------------------------------------------------------------
(* The initial state satisfies the inductive invariant.                    *)
LEMMA InitIInv == N \in Nat /\ Init => IInv
BY DEF Init, IInv, TypeOK, InOrder, History

(* Every step keeps the inductive invariant.                               *)
LEMMA NextIInv == IInv /\ [Next]_vars => IInv'
<1> SUFFICES ASSUME IInv, [Next]_vars PROVE IInv'
  OBVIOUS
<1>0. /\ N \in Nat
      /\ queue \in Seq(1..N) /\ retired \in Seq(1..N) /\ seen \in 0..N
      /\ History \in Seq(1..N)
  BY ConcatProperties DEF IInv, TypeOK, History
<1>1. CASE Admit
  <2>1. seen + 1 \in 1..N
    BY <1>0, <1>1 DEF Admit
  <2>2. History' = Append(History, seen + 1)
    BY <1>0, <1>1, <2>1, ConcatAppend DEF Admit, History
  <2>3. /\ Len(History') = Len(History) + 1
        /\ \A i \in 1..Len(History) : History'[i] = History[i]
        /\ History'[Len(History) + 1] = seen + 1
    BY <1>0, <2>1, <2>2, AppendProperties
  <2>4. TypeOK'
    BY <1>0, <1>1, <2>1, AppendProperties DEF Admit, TypeOK, IInv
  <2>5. \A i \in 1..Len(History) : History[i] \in 1..seen
    BY DEF IInv, InOrder
  <2>6. Len(History) \in Nat /\ seen \in Nat
    BY <1>0, LenProperties
  <2>7. \A i, j \in 1..Len(History') : i < j => History'[i] < History'[j]
    <3> SUFFICES ASSUME NEW i \in 1..Len(History'), NEW j \in 1..Len(History'), i < j
                 PROVE  History'[i] < History'[j]
      OBVIOUS
    <3>1. i \in 1..Len(History) /\ History'[i] = History[i]
      BY <2>3, <2>6
    <3>2. History[i] \in 1..seen
      BY <2>5, <3>1
    <3>3. CASE j = Len(History) + 1
      BY <2>3, <2>6, <3>1, <3>2, <3>3
    <3>4. CASE j \in 1..Len(History)
      <4>1. History[i] < History[j]
        BY <3>1, <3>4 DEF IInv, InOrder
      <4>. QED
        BY <2>3, <3>1, <3>4, <4>1
    <3>. QED
      BY <2>3, <2>6, <3>3, <3>4
  <2>9. \A i \in 1..Len(History') : History'[i] \in 1..seen'
    <3> SUFFICES ASSUME NEW i \in 1..Len(History') PROVE History'[i] \in 1..seen'
      OBVIOUS
    <3>1. seen' = seen + 1
      BY <1>1 DEF Admit
    <3>2. CASE i = Len(History) + 1
      BY <2>3, <2>6, <3>1, <3>2
    <3>3. CASE i \in 1..Len(History)
      BY <2>3, <2>5, <2>6, <3>1, <3>3
    <3>. QED
      BY <2>3, <2>6, <3>2, <3>3
  <2>8. InOrder'
    BY <2>7, <2>9 DEF InOrder
  <2>. QED
    BY <2>4, <2>8 DEF IInv
<1>2. CASE Retire
  <2>1. History' = History
    BY <1>0, <1>2, ConcatMoveHead DEF Retire, History
  <2>2. TypeOK'
    BY <1>0, <1>2, HeadTailProperties, AppendProperties DEF Retire, TypeOK, IInv
  <2>3. InOrder'
    BY <1>2, <2>1 DEF Retire, InOrder, IInv
  <2>. QED
    BY <2>2, <2>3 DEF IInv
<1>3. CASE Skip \/ Abort
  <2>1. History' = History /\ seen' = seen + 1 /\ seen < N
    BY <1>3 DEF Skip, Abort, History
  <2>. QED
    BY <1>0, <1>3, <2>1 DEF Skip, Abort, IInv, TypeOK, InOrder
<1>4. CASE Close \/ Finish \/ UNCHANGED vars
  <2>1. History' = History /\ seen' = seen
    BY <1>4 DEF Close, Finish, vars, History
  <2>. QED
    BY <1>0, <1>4, <2>1 DEF Close, Finish, vars, IInv, TypeOK, InOrder
<1>. QED
  BY <1>1, <1>2, <1>3, <1>4 DEF Next

(* Whatever apps the scan admits, skips or stops at, the run queue hands  *)
(* them out in table order, each once, and only after scanning them, for *)
(* a table of any size.                                                    *)
THEOREM InOrderInvariant == N \in Nat => (SafeSpec => []InOrder)
<1> SUFFICES ASSUME N \in Nat PROVE SafeSpec => []InOrder
  OBVIOUS
<1>1. Init => IInv
  BY InitIInv
<1>2. IInv /\ [Next]_vars => IInv'
  BY NextIInv
<1>3. IInv => InOrder
  BY DEF IInv
<1>. QED
  BY <1>1, <1>2, <1>3, PTL DEF SafeSpec

=============================================================================
