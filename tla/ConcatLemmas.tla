----------------------------- MODULE ConcatLemmas -----------------------------
(***************************************************************************)
(* Facts about a history kept as two concatenated sequences, the part     *)
(* consumed and the part pending: the run queue (retired \o queue) and    *)
(* the UART's receive side (got \o rx) of the SBI monitor.                 *)
(***************************************************************************)
EXTENDS Sequences, SequenceTheorems, TLAPS

(* Appending e to the second of two concatenated sequences appends it to  *)
(* their concatenation.                                                     *)
LEMMA ConcatAppend ==
    ASSUME NEW S, NEW r \in Seq(S), NEW q \in Seq(S), NEW e \in S
    PROVE  r \o Append(q, e) = Append(r \o q, e)
<1>1. Append(q, e) = q \o << e >>
  BY AppendIsConcat
<1>2. r \o q \in Seq(S)
  BY ConcatProperties
<1>3. Append(r \o q, e) = (r \o q) \o << e >>
  BY <1>2, AppendIsConcat
<1>4. << e >> \in Seq(S)
  OBVIOUS
<1>. QED
  BY <1>1, <1>3, <1>4, ConcatAssociative

(* Moving the head of the second sequence to the end of the first leaves  *)
(* their concatenation as it was.                                          *)
LEMMA ConcatMoveHead ==
    ASSUME NEW S, NEW r \in Seq(S), NEW q \in Seq(S), q # << >>
    PROVE  Append(r, Head(q)) \o Tail(q) = r \o q
<1>1. Head(q) \in S /\ Tail(q) \in Seq(S)
      /\ Len(Tail(q)) = Len(q) - 1
      /\ \A i \in 1..Len(Tail(q)) : Tail(q)[i] = q[i + 1]
  BY HeadTailProperties
<1>2. Append(r, Head(q)) \in Seq(S)
      /\ Len(Append(r, Head(q))) = Len(r) + 1
      /\ \A i \in 1..Len(r) : Append(r, Head(q))[i] = r[i]
      /\ Append(r, Head(q))[Len(r) + 1] = Head(q)
  BY <1>1, AppendProperties
<1>3. /\ Append(r, Head(q)) \o Tail(q) \in Seq(S)
      /\ Len(Append(r, Head(q)) \o Tail(q)) = Len(r) + Len(q)
      /\ \A i \in 1..(Len(r) + Len(q)) :
            (Append(r, Head(q)) \o Tail(q))[i] =
               IF i <= Len(r) + 1 THEN Append(r, Head(q))[i]
               ELSE Tail(q)[i - (Len(r) + 1)]
  BY <1>1, <1>2, ConcatProperties
<1>4. /\ r \o q \in Seq(S)
      /\ Len(r \o q) = Len(r) + Len(q)
      /\ \A i \in 1..(Len(r) + Len(q)) :
            (r \o q)[i] = IF i <= Len(r) THEN r[i] ELSE q[i - Len(r)]
  BY ConcatProperties
<1>5. \A i \in 1..(Len(r) + Len(q)) :
         (Append(r, Head(q)) \o Tail(q))[i] = (r \o q)[i]
  BY <1>1, <1>2, <1>3, <1>4
<1>. QED
  BY <1>3, <1>4, <1>5, SeqEqual

=============================================================================
