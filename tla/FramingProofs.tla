---------------------------- MODULE FramingProofs ----------------------------
(***************************************************************************)
(* What ReadBytes and ReadFrame make of any sequence of bytes.  The lemmas *)
(* are about the first line, wherever its LF is, and about a prefix that   *)
(* has none; StreamsProofs applies them to the frames of a server.         *)
(***************************************************************************)
EXTENDS Framing, SequenceTheorems, TLAPS

(* A prefix keeps the elements. *)
LEMMA Prefix ==
  ASSUME NEW S, NEW w \in Seq(S), NEW n \in 0..Len(w)
  PROVE  /\ SubSeq(w, 1, n) \in Seq(S) /\ Len(SubSeq(w, 1, n)) = n
         /\ \A k \in 1..n : SubSeq(w, 1, n)[k] = w[k]
<1>1. \A k \in 1..n : w[k] \in S BY ElementOfSeq
<1>2. n \in Int /\ 1 \in Int /\ n - 1 + 1 = n OBVIOUS
<1> QED BY <1>1, <1>2, SubSeqProperties

(* ReadBytes stops right after the first LF. *)
LEMMA FirstLine ==
  ASSUME NEW w \in Seq(Bytes), NEW n \in 1..Len(w), w[n].c = "LF",
         \A k \in 1..(n - 1) : w[k].c # "LF"
  PROVE  /\ HasLine(w)
         /\ ReadBytes(w) = SubSeq(w, 1, n)
         /\ Rest(w) = SubSeq(w, n + 1, Len(w))
<1>1. n \in LineEnds(w) BY DEF LineEnds
<1>2. \A j \in LineEnds(w) : j \in Nat /\ n <= j BY DEF LineEnds
<1> DEFINE First(i) == i \in LineEnds(w) /\ \A j \in LineEnds(w) : i <= j
<1>3. First(n) BY <1>1, <1>2
<1>4. \A i : First(i) => i = n BY <1>1, <1>2
<1> HIDE DEF First
<1>5. (CHOOSE i : First(i)) = n BY <1>3, <1>4
<1>6. HasLine(w) BY <1>1 DEF HasLine
<1>7. (CHOOSE i \in LineEnds(w) : \A j \in LineEnds(w) : i <= j) = n BY <1>5 DEF First
<1>8. ReadBytes(w) = SubSeq(w, 1, n) BY <1>6, <1>7 DEF ReadBytes
<1>9. Len(ReadBytes(w)) = n BY <1>8
<1> QED BY <1>6, <1>8, <1>9 DEF Rest

(* Without an LF it returns all there is. *)
LEMMA NoLine ==
  ASSUME NEW w \in Seq(Bytes), \A k \in 1..Len(w) : w[k].c # "LF"
  PROVE  ~HasLine(w) /\ ReadBytes(w) = w
BY DEF HasLine, LineEnds, ReadBytes
=============================================================================
