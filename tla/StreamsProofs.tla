---------------------------- MODULE StreamsProofs ----------------------------
(***************************************************************************)
(* Theorems about Streams, for every script of the server, every frame     *)
(* size and limit, every number of consumers and senders and every size of *)
(* their buffers.  They follow from StreamsInv of StreamsInductive.        *)
(***************************************************************************)
EXTENDS StreamsInductive, FramingProofs

USE DEF serverVars, wireVars, readerVars, subVars, clientVars, Goto

-----------------------------------------------------------------------------
(* A frame as bytes *)

LEMMA LineShape ==
  ASSUME NEW i \in Nat, NEW f \in Frames
  PROVE  /\ Line(i, f) \in Seq(Bytes)
         /\ Len(Line(i, f)) = LineLen(f)
         /\ LineLen(f) \in Nat \ {0}
         /\ \A k \in 1..LineLen(f) : Line(i, f)[k].n = i /\ (Line(i, f)[k].c = "LF" <=> k = LineLen(f))
         /\ \A k \in 1..f.size : Line(i, f)[k].c # "CR" /\ (Line(i, f)[k].c = "rbrace" => k = f.size)
         /\ f.size > 0 => (Line(i, f)[1].c = "lbrace" <=> f.kind # "array")
         /\ f.size > 1 => Line(i, f)[f.size].c = "rbrace"
         /\ f.cr => Line(i, f)[f.size + 1].c = "CR"
<1>1. f.size \in Nat /\ f.cr \in BOOLEAN BY DEF Frames
<1>2. LineLen(f) \in Nat \ {0} BY <1>1 DEF LineLen
<1>3. Line(i, f) \in [1..LineLen(f) -> Bytes]
  <2> SUFFICES ASSUME NEW k \in 1..LineLen(f) PROVE Line(i, f)[k] \in Bytes
    BY DEF Line
  <2>1. CASE k = LineLen(f) BY <1>1, <2>1 DEF Line, LineLen, Bytes
  <2>2. CASE f.size < k /\ k < LineLen(f) BY <1>1, <2>2 DEF Line, LineLen, Bytes
  <2>3. CASE k <= f.size BY <1>1, <2>3 DEF Line, LineLen, Bytes
  <2> QED BY <1>1, <1>2, <2>1, <2>2, <2>3
<1>4. Line(i, f) \in Seq(Bytes) /\ Len(Line(i, f)) = LineLen(f)
  <2>1. Line(i, f) \in Seq(Bytes) BY <1>2, <1>3, SeqDef
  <2> QED BY <1>2, <1>3, <2>1, LenProperties
<1>5. ASSUME NEW k \in 1..LineLen(f) PROVE Line(i, f)[k].n = i BY DEF Line
<1>6. ASSUME NEW k \in 1..LineLen(f) PROVE Line(i, f)[k].c = "LF" <=> k = LineLen(f)
  <2>1. CASE k = LineLen(f) BY <1>1, <2>1 DEF Line, LineLen
  <2>2. CASE f.size < k /\ k < LineLen(f) BY <1>1, <2>2 DEF Line, LineLen
  <2>3. CASE k <= f.size BY <1>1, <2>3 DEF Line, LineLen
  <2> QED BY <1>1, <1>2, <2>1, <2>2, <2>3
<1>7. ASSUME NEW k \in 1..f.size
      PROVE  Line(i, f)[k].c = IF k = 1 THEN (IF f.kind = "array" THEN "lbracket" ELSE "lbrace")
                               ELSE IF k = f.size THEN "rbrace" ELSE "x"
  BY <1>1 DEF Line, LineLen
<1>8. ASSUME f.cr PROVE Line(i, f)[f.size + 1].c = "CR"
  <2>1. LineLen(f) = f.size + 2 BY <1>8 DEF LineLen
  <2> QED BY <1>1, <2>1 DEF Line
<1>9. f.size > 0 => (Line(i, f)[1].c = "lbrace" <=> f.kind # "array") BY <1>1, <1>7
<1>10. f.size > 1 => Line(i, f)[f.size].c = "rbrace" BY <1>1, <1>7
<1>11. \A k \in 1..f.size : Line(i, f)[k].c # "CR" /\ (Line(i, f)[k].c = "rbrace" => k = f.size) BY <1>7
<1> QED BY <1>2, <1>4, <1>5, <1>6, <1>8, <1>9, <1>10, <1>11

(* The text of a frame that has lost its LF, and then its CR. *)
LEMMA TrimLine ==
  ASSUME NEW i \in Nat, NEW f \in Frames, NEW b \in Seq(Bytes), Len(b) = LineLen(f),
         \A k \in 1..Len(b) : b[k] = Line(i, f)[k]
  PROVE  LET line == TrimSuffix(TrimSuffix(b, "LF"), "CR")
         IN  line \in Seq(Bytes) /\ Len(line) = f.size /\ \A k \in 1..f.size : line[k] = b[k]
<1>1. f.size \in Nat /\ f.cr \in BOOLEAN BY DEF Frames
<1> DEFINE t == TrimSuffix(b, "LF")
           n == Len(b) - 1
<1>2. b # <<>> /\ b[Len(b)].c = "LF" BY LineShape
<1>3. t = SubSeq(b, 1, n) BY <1>2 DEF TrimSuffix
<1>4. n \in Nat /\ n = f.size + IF f.cr THEN 1 ELSE 0 BY <1>1 DEF LineLen
<1>5. t \in Seq(Bytes) /\ Len(t) = n /\ \A k \in 1..n : t[k] = b[k]
  <2>1. n \in 0..Len(b) BY <1>4
  <2> HIDE DEF t, n
  <2> QED BY <1>3, <2>1, Prefix
<1> HIDE DEF t, n
<1>6. CASE f.cr
  <2>1. n = f.size + 1 BY <1>4, <1>6
  <2>2. b[n] = Line(i, f)[n] BY <1>1, <2>1, <1>6 DEF LineLen
  <2>3. Line(i, f)[f.size + 1].c = "CR" BY <1>6, LineShape
  <2>6. t # <<>> /\ t[n].c = "CR" BY <1>1, <1>5, <2>1, <2>2, <2>3
  <2>4. TrimSuffix(t, "CR") = SubSeq(t, 1, f.size) BY <1>5, <2>1, <2>6, <1>1 DEF TrimSuffix
  <2>5. f.size \in 0..Len(t) BY <1>1, <1>5, <2>1
  <2>7. SubSeq(t, 1, f.size) \in Seq(Bytes) /\ Len(SubSeq(t, 1, f.size)) = f.size
        /\ \A k \in 1..f.size : SubSeq(t, 1, f.size)[k] = t[k]
    BY <1>5, <2>5, Prefix
  <2>8. \A k \in 1..f.size : t[k] = b[k] BY <1>1, <1>5, <2>1
  <2> QED BY <2>4, <2>7, <2>8 DEF t
<1>7. CASE ~f.cr
  <2>1. n = f.size BY <1>4, <1>7, <1>1
  <2>2. TrimSuffix(t, "CR") = t
    <3>1. CASE n = 0
      <4>1. t = <<>> BY <1>5, <3>1
      <4> QED BY <4>1 DEF TrimSuffix
    <3>2. CASE n # 0
      <4>1. n \in 1..f.size /\ n \in 1..Len(b) BY <1>1, <1>4, <2>1, <3>2 DEF n
      <4>2. Line(i, f)[n].c # "CR" BY <4>1, LineShape
      <4>3. t[n].c # "CR" BY <1>5, <4>1, <4>2, <1>4, <3>2
      <4> QED BY <1>5, <4>3 DEF TrimSuffix
    <3> QED BY <3>1, <3>2
  <2> QED BY <1>5, <2>1, <2>2 DEF t
<1> QED BY <1>1, <1>6, <1>7

(* A whole frame is accepted exactly when it is acceptable, whatever the    *)
(* state of the connection.                                                 *)
LEMMA WholeFrame ==
  ASSUME NEW i \in Nat, NEW f \in Frames, NEW b \in Seq(Bytes), Len(b) = LineLen(f),
         \A k \in 1..Len(b) : b[k] = Line(i, f)[k], NEW e
  PROVE  /\ HasLine(b)
         /\ ReadStatus(b, e) = "frame" => ReadFrame(b)[1].n = i
         /\ ReadStatus(b, e) = "frame" /\ Decodes(f) <=> Acceptable(f)
         /\ ReadStatus(b, e) \in {"frame", "too_large", "malformed"}
<1>1. f.size \in Nat /\ f.cr \in BOOLEAN BY DEF Frames
<1> DEFINE L == LineLen(f)
<1>2. L \in Nat \ {0} /\ b[L].c = "LF" /\ \A k \in 1..(L - 1) : b[k].c # "LF"
  <2>1. L \in Nat \ {0} BY LineShape
  <2>2. \A k \in 1..L : b[k].c = "LF" <=> k = L BY LineShape
  <2> QED BY <2>1, <2>2
<1>3. HasLine(b) /\ ReadBytes(b) = SubSeq(b, 1, L) BY <1>2, FirstLine
<1>4. ReadBytes(b) = b BY <1>2, <1>3
<1> DEFINE line == ReadFrame(b)
<1>5. line \in Seq(Bytes) /\ Len(line) = f.size /\ \A k \in 1..f.size : line[k] = b[k]
  BY <1>4, TrimLine DEF ReadFrame
<1>6. \A k \in 1..f.size : line[k] = Line(i, f)[k] BY <1>1, <1>5 DEF LineLen
<1>7. f.size > 0 => line[1].n = i /\ (line[1].c = "lbrace" <=> f.kind # "array")
  BY <1>1, <1>2, <1>6, LineShape DEF LineLen
<1>8. f.size > 1 => line[f.size].c = "rbrace"
  <2>1. f.size > 1 => Line(i, f)[f.size].c = "rbrace" BY LineShape
  <2> QED BY <1>1, <1>6, <2>1
<1>9. IsObject(line) <=> f.size > 1 /\ f.kind # "array"
  BY <1>1, <1>5, <1>7, <1>8 DEF IsObject
<1>10. LineTooLong(b) <=> MaxSize > 0 /\ f.size + (IF f.cr THEN 1 ELSE 0) > MaxSize
  BY <1>1, <1>4, MaxSizeAssumption DEF LineTooLong, Exceeds, LineLen
<1>11. b # <<>> /\ (line = <<>> <=> f.size = 0) BY <1>1, <1>2, <1>5
<1>12. ReadStatus(b, e) = IF LineTooLong(b) THEN "too_large"
                          ELSE IF line = <<>> THEN "malformed"
                          ELSE IF Exceeds(Len(line), MaxSize) THEN "too_large"
                          ELSE IF IsObject(line) THEN "frame" ELSE "malformed"
  BY <1>3, <1>11 DEF ReadStatus
<1> HIDE DEF L, line
<1>13. ReadStatus(b, e) = "frame" <=>
         f.size > 1 /\ f.kind # "array" /\ (MaxSize > 0 => f.size + (IF f.cr THEN 1 ELSE 0) <= MaxSize)
  BY <1>1, <1>5, <1>9, <1>10, <1>11, <1>12, MaxSizeAssumption DEF Exceeds
<1>14. ReadStatus(b, e) = "frame" /\ Decodes(f) <=> Acceptable(f)
  BY <1>1, <1>13, MaxSizeAssumption DEF Decodes, Acceptable
<1>15. ReadStatus(b, e) \in {"frame", "too_large", "malformed"} BY <1>12
<1> QED BY <1>1, <1>3, <1>7, <1>13, <1>14, <1>15 DEF line

(* A frame that was cut off is accepted only if all of its text is there,   *)
(* and within the limit.                                                    *)
LEMMA CutFrame ==
  ASSUME NEW i \in Nat, NEW f \in Frames, NEW b \in Seq(Bytes), Len(b) < LineLen(f),
         \A k \in 1..Len(b) : b[k] = Line(i, f)[k], NEW e
  PROVE  /\ ~HasLine(b)
         /\ ReadStatus(b, e) = "frame" =>
              /\ ReadFrame(b)[1].n = i
              /\ f.size > 1 /\ f.kind # "array" /\ (MaxSize > 0 => f.size <= MaxSize)
<1>1. f.size \in Nat /\ f.cr \in BOOLEAN BY DEF Frames
<1>2. \A k \in 1..Len(b) : b[k].c # "LF" /\ b[k].n = i BY LineShape
<1>3. ~HasLine(b) /\ ReadBytes(b) = b BY <1>2, NoLine
<1> SUFFICES ASSUME ReadStatus(b, e) = "frame"
             PROVE  /\ ReadFrame(b)[1].n = i
                    /\ f.size > 1 /\ f.kind # "array" /\ (MaxSize > 0 => f.size <= MaxSize)
  BY <1>3
<1> DEFINE line == ReadFrame(b)
<1>4. TrimSuffix(b, "LF") = b BY <1>2 DEF TrimSuffix
<1>5. line = TrimSuffix(b, "CR") BY <1>3, <1>4 DEF ReadFrame
<1>6. line \in Seq(Bytes) /\ Len(line) <= Len(b) /\ \A k \in 1..Len(line) : line[k] = b[k]
  BY <1>5 DEF TrimSuffix
<1> HIDE DEF line
<1>7. IsObject(line) /\ ~Exceeds(Len(line), MaxSize) BY DEF ReadStatus, line
<1>8. Len(line) >= 2 /\ line[1].c = "lbrace" /\ line[Len(line)].c = "rbrace" BY <1>7 DEF IsObject
<1>9. \A k \in 1..Len(line) : line[k] = Line(i, f)[k] BY <1>6
<1>10. line[1].n = i BY <1>2, <1>6, <1>8
<1>11. Len(line) <= f.size
  <2>1. SUFFICES ASSUME Len(line) > f.size PROVE FALSE
    BY <1>1, <1>6
  <2>2. f.cr /\ Len(line) = f.size + 1 BY <1>1, <1>6, <2>1 DEF LineLen
  <2>3. Line(i, f)[f.size + 1].c = "CR" BY <2>2, LineShape
  <2>4. line[Len(line)].c = "CR" BY <1>6, <1>8, <1>9, <2>2, <2>3
  <2> QED BY <1>8, <2>4
<1>12. 1 \in 1..f.size /\ Len(line) \in 1..f.size BY <1>1, <1>6, <1>8, <1>11
<1>13. Line(i, f)[1].c = "lbrace" /\ Line(i, f)[Len(line)].c = "rbrace" BY <1>6, <1>8, <1>9
<1>14. f.kind # "array" BY <1>12, <1>13, LineShape
<1>15. Len(line) = f.size BY <1>8, <1>12, <1>13, LineShape
<1> QED BY <1>1, <1>7, <1>8, <1>10, <1>14, <1>15, MaxSizeAssumption DEF Exceeds, line

-----------------------------------------------------------------------------
(* The wire *)

(* What ReadBytes returns is nothing, the next frame of the server or, when *)
(* the connection has ended, a part of that frame.                          *)
LEMMA Reading ==
  ASSUME TypeOK, WireInv, NEW bytes \in Arriving
  PROVE  \/ bytes = <<>> /\ end # "open"
         \/ /\ read + 1 \in Indices /\ wire # <<>> /\ bytes \in Seq(Bytes)
            /\ \A k \in 1..Len(bytes) : bytes[k] = Line(read + 1, sent[read + 1])[k]
            /\ \/ /\ Len(bytes) = LineLen(sent[read + 1])
                  /\ Rest(wire) = SubSeq(wire, Len(bytes) + 1, Len(wire))
               \/ Len(bytes) < LineLen(sent[read + 1]) /\ end # "open"
<1>1. wire \in Seq(Bytes) /\ sent \in Seq(Frames) /\ read \in Nat BY DEF TypeOK
<1>2. CASE wire = <<>>
  <2>1. ~HasLine(wire) /\ ReadBytes(wire) = wire BY <1>2 DEF HasLine, LineEnds, ReadBytes
  <2>2. end # "open" BY <2>1 DEF Arriving
  <2>3. PICK k \in 0..Len(ReadBytes(wire)) : bytes = SubSeq(wire, 1, k) BY <2>2 DEF Arriving
  <2>4. k = 0 BY <1>2, <2>1, <2>3
  <2> QED BY <2>2, <2>3, <2>4, SubSeqEmpty
<1>3. CASE wire # <<>>
  <2> DEFINE f == sent[read + 1]
             L == LineLen(f)
  <2>1. wire[1].n \in (read + 1)..Len(sent) BY <1>1, <1>3 DEF WireInv
  <2>2. read + 1 \in Indices /\ f \in Frames BY <1>1, <2>1 DEF Indices
  <2>3. read + 1 \in (read + 1)..Len(sent) BY <1>1, <2>2 DEF Indices
  <2>4. PICK a \in 0..Len(wire) : FrameAt(read + 1, a) BY <1>3, <2>3 DEF WireInv
  <2>5. /\ Len(Line(read + 1, f)) = L /\ L \in Nat \ {0}
        /\ \A k \in 1..L : Line(read + 1, f)[k].c = "LF" <=> k = L
    <3>1. PICK i \in Nat, g \in Frames : i = read + 1 /\ g = f BY <1>1, <2>2
    <3>2. /\ Len(Line(i, g)) = LineLen(g) /\ LineLen(g) \in Nat \ {0}
          /\ \A k \in 1..LineLen(g) : Line(i, g)[k].c = "LF" <=> k = LineLen(g)
      BY ONLY LineShape, i \in Nat, g \in Frames
    <3> QED BY <3>1, <3>2
  <2>6. L <= Len(wire) /\ \A k \in 1..L : wire[k] = Line(read + 1, f)[k]
    <3>1. a = 0 BY <2>4 DEF FrameAt
    <3> QED BY <2>4, <2>5, <3>1 DEF FrameAt
  <2> HIDE DEF f, L
  <2>7. L \in 1..Len(wire) /\ wire[L].c = "LF" /\ \A k \in 1..(L - 1) : wire[k].c # "LF"
    <3>1. L \in 1..Len(wire) BY <1>1, <2>5, <2>6
    <3>2. \A k \in 1..L : wire[k].c = "LF" <=> k = L BY <2>5, <2>6
    <3> QED BY <2>5, <3>1, <3>2
  <2>8. /\ HasLine(wire) /\ ReadBytes(wire) = SubSeq(wire, 1, L)
        /\ Rest(wire) = SubSeq(wire, L + 1, Len(wire))
    BY <1>1, <2>7, FirstLine
  <2>9. Len(SubSeq(wire, 1, L)) = L BY <1>1, <2>7, Prefix
  <2>10. PICK k \in 0..L : bytes = SubSeq(wire, 1, k) /\ (k = L \/ end # "open")
    BY <1>1, <2>5, <2>8, <2>9 DEF Arriving
  <2>11. k \in 0..Len(wire) BY <1>1, <2>7
  <2>12. bytes \in Seq(Bytes) /\ Len(bytes) = k /\ \A j \in 1..k : bytes[j] = wire[j]
    BY <1>1, <2>10, <2>11, Prefix
  <2>13. \A j \in 1..k : bytes[j] = Line(read + 1, f)[j] BY <2>5, <2>6, <2>12
  <2>14. k = L \/ (k < L /\ end # "open") BY <2>5, <2>10
  <2> QED BY <1>3, <2>2, <2>8, <2>12, <2>13, <2>14 DEF f, L
<1> QED BY <1>2, <1>3

(* A frame that was read leaves the others where they were.                 *)
LEMMA RestKeepsWire ==
  ASSUME TypeOK, WireInv, wire # <<>>, read + 1 \in Indices,
         NEW L, L = LineLen(sent[read + 1]),
         wire' = SubSeq(wire, L + 1, Len(wire)), read' = read + 1, UNCHANGED <<sent, end>>
  PROVE  WireInv' /\ wire' \in Seq(Bytes)
<1> DEFINE N == Len(wire)
           M == Len(sent)
<1>1. wire \in Seq(Bytes) /\ sent \in Seq(Frames) /\ read \in Nat /\ N \in Nat /\ M \in Nat
  BY DEF TypeOK
<1>2. \A k \in 1..N : wire[k].n \in (read + 1)..M BY DEF WireInv
<1>3. wire[N].n = M BY DEF WireInv
<1>4. \A i \in (read + 1)..M : \E a \in 0..N : FrameAt(i, a) BY DEF WireInv
<1>5. read + 1 \in 1..M BY DEF Indices
<1>6. ASSUME NEW i \in 1..M
      PROVE  /\ Len(Line(i, sent[i])) = LineLen(sent[i]) /\ LineLen(sent[i]) \in Nat \ {0}
             /\ \A k \in 1..LineLen(sent[i]) : Line(i, sent[i])[k].n = i
  <2>1. i \in Nat /\ sent[i] \in Frames BY <1>1, ElementOfSeq
  <2> QED BY <2>1, LineShape
<1>7. L \in Nat \ {0} BY <1>5, <1>6
<1>8. PICK b \in 0..N : FrameAt(read + 1, b) BY <1>1, <1>4, <1>5
<1>9. b = 0 /\ Len(Line(read + 1, sent[read + 1])) = L BY <1>5, <1>6, <1>8 DEF FrameAt
<1>10. L <= N BY <1>1, <1>7, <1>8, <1>9 DEF FrameAt
<1>11. \A k \in 1..L : wire[k].n = read + 1
  <2>1. \A k \in 1..L : wire[0 + k] = Line(read + 1, sent[read + 1])[k] BY <1>8, <1>9 DEF FrameAt
  <2>2. \A k \in 1..L : 0 + k = k BY <1>7
  <2>3. \A k \in 1..L : Line(read + 1, sent[read + 1])[k].n = read + 1 BY <1>5, <1>6
  <2> QED BY <2>1, <2>2, <2>3
<1>12. \A k \in 1..N : wire[k].n = read + 1 => k <= 0 + L BY <1>8, <1>9 DEF FrameAt
<1>13. wire' \in Seq(Bytes) /\ Len(wire') = N - L
  <2>1. \A k \in (L + 1)..N : wire[k] \in Bytes
    <3>1. \A k \in (L + 1)..N : k \in 1..N BY <1>1, <1>7
    <3> QED BY <1>1, <3>1, ElementOfSeq
  <2>2. L + 1 \in Int /\ N \in Int BY <1>1, <1>7
  <2> HIDE DEF N, M
  <2>3. /\ SubSeq(wire, L + 1, N) \in Seq(Bytes)
        /\ Len(SubSeq(wire, L + 1, N)) = IF L + 1 <= N THEN N - (L + 1) + 1 ELSE 0
    BY <2>1, <2>2, SubSeqProperties
  <2>4. (IF L + 1 <= N THEN N - (L + 1) + 1 ELSE 0) = N - L BY <1>1, <1>7, <1>10
  <2>5. wire' = SubSeq(wire, L + 1, N) BY DEF N
  <2> QED BY <2>3, <2>4, <2>5
<1>14. \A k \in 1..(N - L) : wire'[k] = wire[L + k]
  <2>1. \A k \in (L + 1)..N : wire[k] \in Bytes
    <3>1. \A k \in (L + 1)..N : k \in 1..N BY <1>1, <1>7
    <3> QED BY <1>1, <3>1, ElementOfSeq
  <2>2. L + 1 \in Int /\ N \in Int BY <1>1, <1>7
  <2> HIDE DEF N, M
  <2>3. \A k \in 1..(N - (L + 1) + 1) : SubSeq(wire, L + 1, N)[k] = wire[(L + 1) + k - 1]
    BY <2>1, <2>2, SubSeqProperties
  <2>4. N - (L + 1) + 1 = N - L BY <1>1, <1>7
  <2>5. \A k \in 1..(N - L) : (L + 1) + k - 1 = L + k BY <1>1, <1>7
  <2>6. wire' = SubSeq(wire, L + 1, N) BY DEF N
  <2> QED BY <2>3, <2>4, <2>5, <2>6
<1>15. read' + 1 = read + 2 BY <1>1
<1> HIDE DEF N, M
<1>16. \A k \in 1..(N - L) : L + k \in 1..N /\ L + k > L BY <1>1, <1>7
<1>17. \A k \in 1..(N - L) : wire'[k].n \in (read + 2)..M
  <2> SUFFICES ASSUME NEW k \in 1..(N - L) PROVE wire'[k].n \in (read + 2)..M
    OBVIOUS
  <2>1. wire[L + k].n \in (read + 1)..M BY <1>2, <1>16
  <2>2. wire[L + k].n # read + 1 BY <1>7, <1>12, <1>16
  <2> DEFINE m == wire[L + k].n
  <2>3. m \in (read + 1)..M /\ m # read + 1 BY <2>1, <2>2
  <2> HIDE DEF m
  <2>4. m \in (read + 2)..M BY <1>1, <2>3
  <2> QED BY <1>14, <2>4 DEF m
<1>18. wire' # <<>> => wire'[N - L].n = M
  <2> SUFFICES ASSUME wire' # <<>> PROVE wire'[N - L].n = M
    OBVIOUS
  <2>1. N - L \in 1..(N - L) BY <1>1, <1>7, <1>10, <1>13, EmptySeq
  <2>2. L + (N - L) = N BY <1>1, <1>7
  <2> QED BY <1>3, <1>14, <2>1, <2>2
<1>19. ASSUME NEW i \in (read + 2)..M
       PROVE  \E a \in 0..(N - L) : FrameAt(i, a)'
  <2>1. i \in (read + 1)..M /\ i \in 1..M /\ i # read + 1 /\ i \in Nat BY <1>1
  <2>2. PICK c \in 0..N : FrameAt(i, c) BY <1>4, <2>1
  <2> DEFINE l == Line(i, sent[i])
             K == Len(l)
  <2>3. K \in Nat \ {0} /\ \A k \in 1..K : l[k].n = i BY <1>6, <2>1
  <2>4. c + K <= N BY <2>2 DEF FrameAt, N
  <2>5. \A k \in 1..K : wire[c + k] = l[k] BY <2>2 DEF FrameAt
  <2>6. \A k \in 1..N : wire[k].n = i => k > c /\ k <= c + K BY <2>2 DEF FrameAt, N
  <2>7. c # 0 /\ wire[c].n = i - 1 BY <2>1, <2>2 DEF FrameAt
  <2> HIDE DEF l, K
  <2>8. wire[c + 1].n = i
    <3>1. 1 \in 1..K BY <2>3
    <3> QED BY <2>3, <2>5, <3>1
  <2>9. c >= L
    <3>1. SUFFICES ASSUME c < L PROVE FALSE BY <1>7
    <3>2. c + 1 \in 1..L BY <1>7, <3>1
    <3> QED BY <1>11, <2>1, <2>8, <3>2
  <2>10. c \in 1..N BY <2>7
  <2>11. c = L <=> i = read + 2
    <3>1. ASSUME c = L PROVE i = read + 2
      <4>1. L \in 1..L BY <1>7
      <4>2. wire[c].n = read + 1 BY <1>11, <3>1, <4>1
      <4>3. i - 1 = read + 1 BY <2>7, <4>2
      <4> QED BY <1>1, <2>1, <4>3
    <3>2. ASSUME i = read + 2 PROVE c = L
      <4>1. i - 1 = read + 1 BY <1>1, <3>2
      <4>2. c <= 0 + L BY <1>12, <2>7, <2>10, <4>1
      <4> QED BY <1>7, <2>9, <2>10, <4>2
    <3> QED BY <3>1, <3>2
  <2> DEFINE a == c - L
  <2>12. a \in 0..(N - L) BY <1>1, <1>7, <2>9
  <2>13. a + K <= N - L BY <1>1, <1>7, <2>3, <2>4
  <2>14. \A k \in 1..K : wire'[a + k] = l[k]
    <3> SUFFICES ASSUME NEW k \in 1..K PROVE wire'[a + k] = l[k]
      OBVIOUS
    <3>1. a \in Nat /\ a + K <= N - L /\ L + a = c BY <1>7, <2>12, <2>13, <2>9
    <3> HIDE DEF a
    <3>2. a + k \in 1..(N - L) BY <1>1, <1>7, <2>3, <3>1
    <3>3. k \in Int /\ L \in Int /\ a \in Int /\ c \in Int BY <1>1, <1>7, <2>3, <3>1
    <3>4. L + (a + k) = c + k
      <4>1. L + (a + k) = (L + a) + k BY <3>3
      <4> QED BY <3>1, <4>1
    <3> QED BY <1>14, <2>5, <3>2, <3>4
  <2>15. \A k \in 1..(N - L) : wire'[k].n = i => k > a /\ k <= a + K
    <3> SUFFICES ASSUME NEW k \in 1..(N - L), wire'[k].n = i PROVE k > a /\ k <= a + K
      OBVIOUS
    <3>1. L + k \in 1..N /\ wire[L + k].n = i BY <1>14, <1>16
    <3>2. L + k > c /\ L + k <= c + K BY <2>6, <3>1
    <3>3. k \in Int /\ L \in Int /\ c \in Int /\ K \in Int BY <1>7, <2>3
    <3> QED BY <3>2, <3>3
  <2>16. a = 0 <=> i = read + 2 BY <1>7, <2>11
  <2>17. a # 0 => wire'[a].n = i - 1
    <3> SUFFICES ASSUME a # 0 PROVE wire'[a].n = i - 1
      OBVIOUS
    <3>1. a \in 1..(N - L) /\ L + a = c BY <1>1, <1>7, <2>9
    <3> QED BY <1>14, <2>7, <3>1
  <2> HIDE DEF a
  <2>18. FrameAt(i, a)'
    BY <1>13, <1>15, <2>13, <2>14, <2>15, <2>16, <2>17 DEF FrameAt, l, K
  <2> QED BY <2>12, <2>18
<1> QED BY <1>13, <1>15, <1>17, <1>18, <1>19 DEF WireInv, M

(* A frame that the server sends goes behind the others.                    *)
LEMMA EmitKeepsWire ==
  ASSUME TypeOK, WireInv, NEW f \in Frames, Emit(f), UNCHANGED read
  PROVE  WireInv' /\ wire' \in Seq(Bytes) /\ sent' \in Seq(Frames) /\ Len(sent') = Len(sent) + 1
         /\ \A i \in Indices : sent'[i] = sent[i]
<1> DEFINE N == Len(wire)
           M == Len(sent)
           l == Line(M + 1, f)
           K == Len(l)
<1>1. wire \in Seq(Bytes) /\ sent \in Seq(Frames) /\ read \in Nat /\ N \in Nat /\ M \in Nat /\ read <= M
  BY DEF TypeOK
<1>2. end = "open" /\ sent' = Append(sent, f) /\ wire' = wire \o l BY DEF Emit
<1>3. l \in Seq(Bytes) /\ K \in Nat \ {0} /\ \A k \in 1..K : l[k].n = M + 1
  <2>1. PICK i \in Nat : i = M + 1 BY <1>1
  <2>2. /\ Line(i, f) \in Seq(Bytes) /\ Len(Line(i, f)) = LineLen(f) /\ LineLen(f) \in Nat \ {0}
        /\ \A k \in 1..LineLen(f) : Line(i, f)[k].n = i
    BY ONLY LineShape, i \in Nat, f \in Frames
  <2> QED BY <2>1, <2>2
<1>4. sent' \in Seq(Frames) /\ Len(sent') = M + 1 /\ sent'[M + 1] = f /\ \A i \in 1..M : sent'[i] = sent[i]
  BY <1>1, <1>2
<1>5. \A k \in 1..N : wire[k].n \in (read + 1)..M BY <1>2 DEF WireInv
<1>6. wire # <<>> => wire[N].n = M BY <1>2 DEF WireInv
<1>7. \A i \in (read + 1)..M : \E a \in 0..N : FrameAt(i, a) BY <1>2 DEF WireInv
<1>8. N = 0 <=> read = M
  <2>1. ASSUME N # 0 PROVE read # M
    <3>1. 1 \in 1..N BY <1>1, <2>1
    <3> HIDE DEF N, M
    <3>2. PICK m \in (read + 1)..M : TRUE BY <1>5, <3>1
    <3> QED BY <1>1, <3>2
  <2>2. ASSUME read # M PROVE N # 0
    <3>1. read + 1 \in (read + 1)..M /\ read + 1 \in 1..M BY <1>1, <2>2
    <3>2. PICK a \in 0..N : FrameAt(read + 1, a) BY <1>7, <3>1
    <3>3. read + 1 \in Nat /\ sent[read + 1] \in Frames BY <1>1, <3>1, ElementOfSeq
    <3>4. Len(Line(read + 1, sent[read + 1])) \in Nat \ {0} BY <3>3, LineShape
    <3> QED BY <1>1, <3>2, <3>4 DEF FrameAt
  <2> QED BY <2>1, <2>2
<1>9. wire' \in Seq(Bytes) /\ Len(wire') = N + K BY <1>1, <1>2, <1>3, ConcatProperties
<1>10. \A k \in 1..N : wire'[k] = wire[k]
  BY <1>1, <1>2, <1>3, ConcatProperties
<1>11. \A k \in 1..K : wire'[N + k] = l[k]
  <2>1. \A k \in 1..(N + K) : wire'[k] = IF k <= N THEN wire[k] ELSE l[k - N]
    BY <1>1, <1>2, <1>3, ConcatProperties
  <2> HIDE DEF N, K, l
  <2> SUFFICES ASSUME NEW k \in 1..K PROVE wire'[N + k] = l[k]
    OBVIOUS
  <2>2. N + k \in 1..(N + K) /\ ~(N + k <= N) /\ (N + k) - N = k BY <1>1, <1>3
  <2> QED BY <2>1, <2>2
<1> HIDE DEF N, M, K
<1>12. \A k \in 1..(N + K) : k \in 1..N \/ (k - N \in 1..K /\ N + (k - N) = k) BY <1>1, <1>3
<1>13. \A k \in 1..(N + K) : wire'[k].n \in (read + 1)..(M + 1)
  <2> SUFFICES ASSUME NEW k \in 1..(N + K) PROVE wire'[k].n \in (read + 1)..(M + 1)
    OBVIOUS
  <2>1. CASE k \in 1..N
    <3>1. wire'[k].n \in (read + 1)..M BY <1>5, <1>10, <2>1
    <3> QED BY <1>1, <3>1
  <2>2. CASE k - N \in 1..K /\ N + (k - N) = k
    <3>1. wire'[k].n = M + 1 BY <1>3, <1>11, <2>2
    <3> QED BY <1>1, <3>1
  <2> QED BY <1>12, <2>1, <2>2
<1>14. wire'[N + K].n = M + 1
  <2>1. K \in 1..K BY <1>3
  <2> QED BY <1>3, <1>11, <2>1
<1>15. ASSUME NEW i \in (read + 1)..(M + 1) PROVE \E a \in 0..(N + K) : FrameAt(i, a)'
  <2>1. CASE i = M + 1
    <3>1. \A k \in 1..(N + K) : wire'[k].n = M + 1 => k > N /\ k <= N + K
      <4> SUFFICES ASSUME NEW k \in 1..(N + K), wire'[k].n = M + 1 PROVE k > N /\ k <= N + K
        OBVIOUS
      <4>1. k \notin 1..N
        <5>1. SUFFICES ASSUME k \in 1..N PROVE FALSE OBVIOUS
        <5>2. M + 1 \in (read + 1)..M BY <1>5, <1>10, <5>1
        <5> QED BY <1>1, <5>2
      <4> QED BY <1>1, <1>3, <4>1
    <3>2. N = 0 <=> M + 1 = read + 1 BY <1>1, <1>8
    <3>3. N # 0 => wire'[N].n = (M + 1) - 1
      <4>1. SUFFICES ASSUME N # 0 PROVE wire'[N].n = M BY <1>1
      <4>2. N \in 1..N /\ wire # <<>> BY <1>1, <4>1 DEF N
      <4> QED BY <1>6, <1>10, <4>2
    <3>4. N + K <= Len(wire') /\ N \in 0..(N + K) BY <1>1, <1>3, <1>9
    <3>5. PICK a \in 0..(N + K) : a = N BY <3>4
    <3>6. sent'[i] = f BY <1>4, <2>1
    <3>7. FrameAt(i, a)' BY <1>9, <1>11, <2>1, <3>1, <3>2, <3>3, <3>4, <3>5, <3>6 DEF FrameAt, K
    <3> QED BY <3>5, <3>7
  <2>2. CASE i \in (read + 1)..M
    <3>1. PICK a \in 0..N : FrameAt(i, a) BY <1>7, <2>2
    <3> DEFINE j == Line(i, sent[i])
    <3>2. i \in 1..M /\ i # M + 1 /\ i \in Nat BY <1>1, <2>2
    <3>3. sent[i] \in Frames /\ sent'[i] = sent[i] BY <1>1, <1>4, <3>2, ElementOfSeq DEF M
    <3>4. Len(j) \in Nat BY <3>2, <3>3, LineShape
    <3>5. a + Len(j) <= N /\ (\A k \in 1..Len(j) : wire[a + k] = j[k])
      BY <3>1 DEF FrameAt, N
    <3>6. \A k \in 1..N : wire[k].n = i => k > a /\ k <= a + Len(j)
      BY <3>1 DEF FrameAt, N
    <3>7. (a = 0 <=> i = read + 1) /\ (a # 0 => wire[a].n = i - 1)
      BY <3>1 DEF FrameAt
    <3> HIDE DEF j
    <3>8. a + Len(j) <= N + K /\ a \in 0..(N + K) BY <1>1, <1>3, <3>4, <3>5
    <3>9. \A k \in 1..Len(j) : wire'[a + k] = j[k]
      <4> SUFFICES ASSUME NEW k \in 1..Len(j) PROVE wire'[a + k] = j[k]
        OBVIOUS
      <4>1. a + k \in 1..N BY <1>1, <3>4, <3>5
      <4> QED BY <1>10, <3>5, <4>1
    <3>10. \A k \in 1..(N + K) : wire'[k].n = i => k > a /\ k <= a + Len(j)
      <4> SUFFICES ASSUME NEW k \in 1..(N + K), wire'[k].n = i PROVE k > a /\ k <= a + Len(j)
        OBVIOUS
      <4>1. k \in 1..N BY <1>3, <1>11, <1>12, <3>2
      <4> QED BY <1>10, <3>6, <4>1
    <3>11. a # 0 => wire'[a].n = i - 1
      <4>1. a # 0 => a \in 1..N BY <1>1
      <4> QED BY <1>10, <3>7, <4>1
    <3>12. FrameAt(i, a)' BY <1>9, <3>3, <3>7, <3>8, <3>9, <3>10, <3>11 DEF FrameAt, j
    <3> QED BY <3>8, <3>12
  <2>3. i = M + 1 \/ i \in (read + 1)..M BY <1>1
  <2> QED BY <2>1, <2>2, <2>3
<1>16. WireInv' BY <1>4, <1>9, <1>13, <1>14, <1>15 DEF WireInv
<1> QED BY <1>4, <1>9, <1>16 DEF Indices, M

-----------------------------------------------------------------------------
(* The subscriptions *)

(* The part of the invariant that the operations on subscriptions touch.    *)
SubsType ==
  /\ log \in Seq(Indices)
  /\ subs \subseteq Subs /\ turns \subseteq Consumers /\ errors \subseteq Subs
  /\ shut \subseteq Subs /\ quit \subseteq Subs
  /\ events \in [Subs -> Seq(Indices)] /\ \A s \in Subs : Len(events[s]) <= Capacity(s)
  /\ got \in [Subs -> Seq(Indices)] /\ from \in [Subs -> -1..Len(log)]
  /\ cause \in [Subs -> Causes \cup {None}] /\ result \in [Subs -> Causes \cup {None}]

SubsInv == SubsType /\ RegistryInv /\ StreamsContiguous /\ NextTellsCause

(* A subscription starts empty, at the end of the log. *)
LEMMA RegisterKeeps ==
  ASSUME SubsInv, NEW s \in Subs, from[s] = -1, Register(s),
         turns' = turns \/ (s \in Consumers /\ turns' = turns \cup {s}), UNCHANGED <<log, sent>>
  PROVE  SubsInv'
<1> USE DEF Register
<1>0. SubsType /\ RegistryInv /\ StreamsContiguous /\ NextTellsCause BY DEF SubsInv
<1>1. Len(log) \in Nat BY <1>0 DEF SubsType
<1>2. /\ events[s] = <<>> /\ got[s] = <<>> /\ s \notin subs /\ s \notin shut
      /\ cause[s] = None /\ result[s] = None
  BY <1>0 DEF RegistryInv
<1>3. /\ \A r \in Subs : r # s => from'[r] = from[r] /\ cause'[r] = cause[r] /\ Capacity(r)' = Capacity(r)
      /\ \A r \in Subs : r # s => (r \in subs' <=> r \in subs) /\ (r \in shut' <=> r \in shut)
      /\ from'[s] = Len(log) /\ UNCHANGED <<events, errors, got, result, quit>>
  BY <1>0 DEF SubsType, Capacity
<1>4. \/ s \in subs' /\ s \notin shut' /\ cause'[s] = None
      \/ s \notin subs' /\ s \in shut' /\ cause'[s] = "closed"
  BY <1>0, <1>2 DEF SubsType
<1>5. SubsType'
  <2>1. \A r \in Subs : Len(events'[r]) <= Capacity(r)'
    BY <1>0, <1>3, EventBufferAssumption DEF SubsType, Capacity
  <2>2. from' \in [Subs -> -1..Len(log')] BY <1>0, <1>1 DEF SubsType
  <2>3. cause' \in [Subs -> Causes \cup {None}] BY <1>0 DEF SubsType, Causes
  <2> QED BY <1>0, <1>3, <2>1, <2>2, <2>3 DEF SubsType, Indices
<1>6. RegistryInv'
  <2> SUFFICES ASSUME NEW r \in Subs
               PROVE  /\ from'[r] = -1 => /\ r \notin subs' /\ r \notin shut' /\ cause'[r] = None /\ result'[r] = None
                                          /\ events'[r] = <<>> /\ got'[r] = <<>>
                      /\ from'[r] # -1 => r \in subs' \/ r \in shut'
                      /\ r \in subs' => r \notin shut' /\ cause'[r] = None
                      /\ r \in errors' => r \in shut' /\ cause'[r] # None
                      /\ r \in shut' /\ r \notin quit' => cause'[r] # None
                      /\ cause'[r] = "overflow" => Len(got'[r]) + Len(events'[r]) >= Capacity(r)'
    BY DEF RegistryInv
  <2>1. CASE r # s BY <1>0, <1>3, <2>1 DEF RegistryInv
  <2>2. CASE r = s
    <3>1. s \notin errors BY <1>0, <1>2 DEF RegistryInv
    <3>2. from'[r] # -1 /\ r \notin errors' /\ cause'[r] # "overflow" BY <1>1, <1>3, <1>4, <2>2, <3>1 DEF None
    <3> QED BY <1>4, <2>2, <3>2 DEF None
  <2> QED BY <2>1, <2>2
<1>7. StreamsContiguous'
  <2> SUFFICES ASSUME NEW r \in Subs, from'[r] # -1
               PROVE  LET held == got'[r] \o events'[r]
                      IN  /\ Len(held) <= Len(log') - from'[r]
                          /\ held = SubSeq(log', from'[r] + 1, from'[r] + Len(held))
                          /\ r \in subs' => r \notin shut' /\ Len(held) = Len(log') - from'[r]
    BY DEF StreamsContiguous
  <2>1. CASE r # s BY <1>0, <1>3, <2>1 DEF StreamsContiguous
  <2>2. CASE r = s
    <3>1. got'[r] \o events'[r] = <<>> BY <1>2, <1>3, <2>2
    <3>2. SubSeq(log, Len(log) + 1, Len(log) + 0) = <<>> BY <1>1, SubSeqEmpty
    <3> QED BY <1>1, <1>3, <1>4, <2>2, <3>1, <3>2
  <2> QED BY <2>1, <2>2
<1>8. NextTellsCause'
  <2>1. \A r \in Subs : r # s => r \in Subs /\ result'[r] = result[r] /\ (r \in shut => r \in shut')
    BY <1>3
  <2>2. result'[s] = None BY <1>2, <1>3
  <2> QED BY <1>0, <1>3, <2>1, <2>2 DEF NextTellsCause, None
<1> QED BY <1>5, <1>6, <1>7, <1>8 DEF SubsInv

(* Subscriptions that are closed keep their events, and the cause of the    *)
(* first close.                                                             *)
LEMMA CloseSubscribersKeeps ==
  ASSUME SubsInv, NEW which \in SUBSET subs, NEW err \in Causes \cup {None},
         CloseSubscribers(which, err), quit \subseteq quit', quit' \subseteq Subs,
         err = None => which \subseteq quit', err # "overflow",
         UNCHANGED <<turns, events, from, got, result, log, sent>>
  PROVE  SubsInv'
<1> USE DEF CloseSubscribers
<1>0. SubsType /\ RegistryInv /\ StreamsContiguous /\ NextTellsCause BY DEF SubsInv
<1>1. \A s \in which : s \in Subs /\ s \notin shut /\ cause[s] = None
  BY <1>0 DEF SubsType, RegistryInv
<1>2. /\ \A s \in Subs : cause'[s] = IF s \in which THEN err ELSE cause[s]
      /\ errors' \subseteq errors \cup which /\ (err = None => errors' = errors)
      /\ subs' = subs \ which /\ shut' = shut \cup which
  BY <1>1
<1>3. \A s \in Subs : Capacity(s)' = Capacity(s) BY DEF Capacity
<1>4. SubsType'
  <2>1. cause' \in [Subs -> Causes \cup {None}] BY <1>0, <1>2 DEF SubsType
  <2> QED BY <1>0, <1>1, <1>2, <1>3, <2>1 DEF SubsType, Indices
<1>5. RegistryInv' BY <1>0, <1>1, <1>2, <1>3 DEF RegistryInv, None
<1>6. StreamsContiguous' BY <1>0, <1>2 DEF StreamsContiguous
<1>7. NextTellsCause'
  <2> SUFFICES ASSUME NEW s \in Subs
               PROVE  /\ result'[s] # None /\ s \notin quit' => s \in shut' /\ result'[s] = cause'[s] /\ cause'[s] # None
                      /\ result'[s] = "overflow" => Len(got'[s]) + Len(events'[s]) >= Capacity(s)'
    BY DEF NextTellsCause
  <2>1. result'[s] # None /\ s \notin quit' => s \in shut /\ s \notin which /\ result[s] = cause[s] /\ cause[s] # None
    BY <1>0, <1>1 DEF NextTellsCause
  <2> QED BY <1>0, <1>2, <1>3, <2>1 DEF NextTellsCause
<1> QED BY <1>4, <1>5, <1>6, <1>7 DEF SubsInv

(* Next moves the head of the buffer to what was delivered. *)
LEMMA MoveHead ==
  ASSUME NEW S, NEW g \in Seq(S), NEW e \in Seq(S), e # <<>>
  PROVE  /\ Append(g, Head(e)) \in Seq(S) /\ Tail(e) \in Seq(S)
         /\ Append(g, Head(e)) \o Tail(e) = g \o e
         /\ Len(Append(g, Head(e))) + Len(Tail(e)) = Len(g) + Len(e)
         /\ Len(Tail(e)) <= Len(e)
<1> DEFINE n == Len(g)
           m == Len(e)
<1>1. n \in Nat /\ m \in Nat \ {0} BY EmptySeq
<1> DEFINE g2 == Append(g, Head(e))
           e2 == Tail(e)
<1>2. Head(e) \in S /\ Head(e) = e[1] OBVIOUS
<1>3. g2 \in Seq(S) /\ Len(g2) = n + 1 /\ g2[n + 1] = e[1] /\ \A k \in 1..n : g2[k] = g[k]
  BY <1>2
<1>4. e2 \in Seq(S) /\ Len(e2) = m - 1 /\ \A k \in 1..(m - 1) : e2[k] = e[k + 1]
  BY HeadTailProperties
<1>5. /\ g \o e \in Seq(S) /\ Len(g \o e) = n + m
      /\ \A k \in 1..(n + m) : (g \o e)[k] = IF k <= n THEN g[k] ELSE e[k - n]
  BY ConcatProperties
<1> HIDE DEF g2, e2, n, m
<1>6. /\ g2 \o e2 \in Seq(S) /\ Len(g2 \o e2) = (n + 1) + (m - 1)
      /\ \A k \in 1..((n + 1) + (m - 1)) : (g2 \o e2)[k] = IF k <= n + 1 THEN g2[k] ELSE e2[k - (n + 1)]
  <2>1. /\ g2 \o e2 \in Seq(S) /\ Len(g2 \o e2) = Len(g2) + Len(e2)
        /\ \A k \in 1..(Len(g2) + Len(e2)) :
             (g2 \o e2)[k] = IF k <= Len(g2) THEN g2[k] ELSE e2[k - Len(g2)]
    BY <1>3, <1>4, ConcatProperties
  <2>2. Len(g2) = n + 1 /\ Len(e2) = m - 1 BY <1>3, <1>4
  <2> QED BY <2>1, <2>2
<1>7. (n + 1) + (m - 1) = n + m BY <1>1
<1>8. ASSUME NEW k \in 1..(n + m) PROVE (g2 \o e2)[k] = (g \o e)[k]
  <2>1. CASE k <= n
    <3>1. k \in 1..n /\ k <= n + 1 BY <1>1, <2>1
    <3> QED BY <1>3, <1>5, <1>6, <1>7, <2>1, <3>1
  <2>2. CASE k = n + 1
    <3>1. ~(k <= n) /\ k - n = 1 /\ k <= n + 1 BY <1>1, <2>2
    <3> QED BY <1>3, <1>5, <1>6, <1>7, <2>2, <3>1
  <2>3. CASE k > n + 1
    <3>1. ~(k <= n) /\ ~(k <= n + 1) /\ k - (n + 1) \in 1..(m - 1) /\ (k - (n + 1)) + 1 = k - n BY <1>1, <2>3
    <3> QED BY <1>4, <1>5, <1>6, <1>7, <3>1
  <2>4. k <= n \/ k = n + 1 \/ k > n + 1 BY <1>1
  <2> QED BY <2>1, <2>2, <2>3, <2>4
<1>9. g2 \o e2 = g \o e BY <1>5, <1>6, <1>7, <1>8, SeqEqual
<1>10. Len(g2) + Len(e2) = n + m /\ Len(e2) <= m BY <1>1, <1>3, <1>4
<1> QED BY <1>3, <1>4, <1>9, <1>10 DEF g2, e2, n, m

(* A longer log has the same part. *)
LEMMA SubSeqOfLonger ==
  ASSUME NEW S, NEW l \in Seq(S), NEW x \in S, NEW a \in Nat, NEW b \in Nat, a >= 1, b <= Len(l)
  PROVE  SubSeq(Append(l, x), a, b) = SubSeq(l, a, b)
<1> DEFINE l2 == Append(l, x)
<1>1. Len(l) \in Nat /\ \A k \in 1..Len(l) : l2[k] = l[k] /\ l[k] \in S OBVIOUS
<1> HIDE DEF l2
<1>2. \A k \in a..b : k \in 1..Len(l) BY <1>1
<1>3. \A k \in a..b : l2[k] \in S /\ l[k] \in S BY <1>1, <1>2
<1>4. /\ SubSeq(l2, a, b) \in Seq(S)
      /\ Len(SubSeq(l2, a, b)) = IF a <= b THEN b - a + 1 ELSE 0
      /\ \A i \in 1..(b - a + 1) : SubSeq(l2, a, b)[i] = l2[a + i - 1]
  BY <1>3, SubSeqProperties
<1>5. /\ SubSeq(l, a, b) \in Seq(S)
      /\ Len(SubSeq(l, a, b)) = IF a <= b THEN b - a + 1 ELSE 0
      /\ \A i \in 1..(b - a + 1) : SubSeq(l, a, b)[i] = l[a + i - 1]
  BY <1>3, SubSeqProperties
<1>6. \A i \in 1..(b - a + 1) : a + i - 1 \in a..b OBVIOUS
<1>7. \A i \in 1..(b - a + 1) : SubSeq(l2, a, b)[i] = SubSeq(l, a, b)[i] BY <1>1, <1>2, <1>4, <1>5, <1>6
<1>8. (IF a <= b THEN b - a + 1 ELSE 0) = b - a + 1 \/ Len(SubSeq(l, a, b)) = 0 BY <1>5
<1>9. \A i \in 1..Len(SubSeq(l, a, b)) : i \in 1..(b - a + 1) BY <1>5, <1>8
<1> QED BY <1>4, <1>5, <1>7, <1>9, SeqEqual DEF l2

LEMMA ConcatAppend ==
  ASSUME NEW S, NEW g \in Seq(S), NEW e \in Seq(S), NEW x \in S
  PROVE  g \o Append(e, x) = Append(g \o e, x)
<1>1. <<x>> \in Seq(S) /\ g \o e \in Seq(S) BY ConcatProperties
<1>2. Append(e, x) = e \o <<x>> /\ Append(g \o e, x) = (g \o e) \o <<x>> BY <1>1, AppendIsConcat
<1>3. PICK y \in Seq(S) : y = <<x>> BY <1>1
<1>4. (g \o e) \o y = g \o (e \o y) BY ConcatAssociative
<1> QED BY <1>2, <1>3, <1>4

(* One event more, in the log and in what a subscription holds.             *)
LEMMA AppendHeld ==
  ASSUME NEW S, NEW l \in Seq(S), NEW x \in S, NEW h \in Seq(S),
         NEW a \in Nat, a + Len(h) = Len(l), h = SubSeq(l, a + 1, Len(l))
  PROVE  /\ Len(Append(h, x)) = Len(Append(l, x)) - a
         /\ Append(h, x) = SubSeq(Append(l, x), a + 1, Len(Append(l, x)))
<1> DEFINE n == Len(l)
           l2 == Append(l, x)
<1>1. Len(h) \in Nat /\ n \in Nat /\ a <= n /\ a + Len(h) = n OBVIOUS
<1>2. l2 \in Seq(S) /\ Len(l2) = n + 1 /\ l2[n + 1] = x OBVIOUS
<1>3. SubSeq(l2, a + 1, n + 1) = SubSeq(l2, a + 1, n) \o <<l2[n + 1]>>
  <2>1. a + 1 \in 1..Len(l2) /\ n + 1 \in (a + 1)..Len(l2) /\ (n + 1) - 1 = n BY <1>1, <1>2
  <2> HIDE DEF l2, n
  <2> QED BY <1>2, <2>1, SubSeqRecursiveSecond
<1>4. SubSeq(l2, a + 1, n) = h BY <1>1, SubSeqOfLonger
<1>5. h \o <<x>> = Append(h, x) /\ Len(Append(h, x)) = Len(h) + 1
  BY AppendIsConcat, AppendProperties
<1> HIDE DEF l2, n
<1>6. SubSeq(l2, a + 1, n + 1) = Append(h, x) BY <1>2, <1>3, <1>4, <1>5
<1>7. Len(h) + 1 = (n + 1) - a BY <1>1
<1> QED BY <1>2, <1>5, <1>6, <1>7 DEF l2

(* What a subscription holds stays a part of the log: a registered one gets *)
(* the next event, another one keeps what it has.                           *)
LEMMA HeldGrows ==
  ASSUME NEW S, NEW l \in Seq(S), NEW x \in S, NEW g \in Seq(S), NEW v \in Seq(S), NEW a \in Nat,
         Len(g \o v) = Len(l) - a, g \o v = SubSeq(l, a + 1, a + Len(g \o v))
  PROVE  /\ Len(g \o Append(v, x)) = Len(Append(l, x)) - a
         /\ g \o Append(v, x) = SubSeq(Append(l, x), a + 1, a + Len(g \o Append(v, x)))
<1>1. PICK h \in Seq(S) : h = g \o v BY ConcatProperties
<1>2. g \o Append(v, x) = Append(h, x) BY <1>1, ConcatAppend
<1>3. Len(h) = Len(l) - a /\ h = SubSeq(l, a + 1, a + Len(h)) BY <1>1
<1>4. PICK n \in Nat : n = Len(l) OBVIOUS
<1>5. PICK m \in Nat : m = Len(h) OBVIOUS
<1>6. a + m = n BY <1>3, <1>4, <1>5
<1>7. a + Len(h) = Len(l) BY <1>4, <1>5, <1>6
<1>8. h = SubSeq(l, a + 1, Len(l)) BY <1>3, <1>7
<1>9. /\ Len(Append(h, x)) = Len(Append(l, x)) - a
      /\ Append(h, x) = SubSeq(Append(l, x), a + 1, Len(Append(l, x)))
  BY <1>7, <1>8, AppendHeld
<1>10. PICK k \in Nat : k = Len(Append(l, x)) BY AppendProperties
<1>11. a + Len(Append(h, x)) = Len(Append(l, x))
  <2>1. a + (k - a) = k OBVIOUS
  <2> QED BY <1>9, <1>10, <2>1
<1> QED BY <1>2, <1>9, <1>11

LEMMA HeldStays ==
  ASSUME NEW S, NEW l \in Seq(S), NEW x \in S, NEW h \in Seq(S), NEW a \in Nat,
         Len(h) <= Len(l) - a, h = SubSeq(l, a + 1, a + Len(h))
  PROVE  /\ Len(h) <= Len(Append(l, x)) - a
         /\ h = SubSeq(Append(l, x), a + 1, a + Len(h))
<1>1. PICK n \in Nat : n = Len(l) OBVIOUS
<1>2. PICK m \in Nat : m = Len(h) BY LenProperties, Zenon
<1>3. a + m \in Nat /\ a + 1 \in Nat /\ a + 1 >= 1 /\ a + m <= n /\ m <= (n + 1) - a BY <1>1, <1>2
<1>4. Len(Append(l, x)) = n + 1 BY <1>1, AppendProperties
<1>5. SubSeq(Append(l, x), a + 1, a + m) = SubSeq(l, a + 1, a + m) BY <1>1, <1>3, SubSeqOfLonger
<1> QED BY <1>2, <1>3, <1>4, <1>5

(* Next delivers the head of the buffer. *)
LEMMA NextEventKeeps ==
  ASSUME SubsInv, NEW s \in Subs, from[s] # -1, NextEvent(s),
         UNCHANGED <<subs, turns, shut, cause, from, quit, log, sent>>
  PROVE  SubsInv'
<1> USE DEF NextEvent
<1>0. SubsType /\ RegistryInv /\ StreamsContiguous /\ NextTellsCause BY DEF SubsInv
<1>1. \A r \in Subs : Capacity(r)' = Capacity(r) BY DEF Capacity
<1>2. got[s] \in Seq(Indices) /\ events[s] \in Seq(Indices) /\ events[s] # <<>> BY <1>0 DEF SubsType
<1>3. /\ got'[s] = Append(got[s], Head(events[s])) /\ events'[s] = Tail(events[s])
      /\ \A r \in Subs : r # s => got'[r] = got[r] /\ events'[r] = events[r]
      /\ UNCHANGED <<errors, result>>
  <2>1. DOMAIN got = Subs /\ DOMAIN events = Subs BY <1>0 DEF SubsType
  <2> QED BY <2>1
<1>4. /\ got'[s] \in Seq(Indices) /\ events'[s] \in Seq(Indices)
      /\ got'[s] \o events'[s] = got[s] \o events[s]
      /\ Len(got'[s]) + Len(events'[s]) = Len(got[s]) + Len(events[s])
      /\ Len(events'[s]) <= Len(events[s])
  <2> DEFINE g2 == Append(got[s], Head(events[s]))
             e2 == Tail(events[s])
  <2>1. /\ g2 \in Seq(Indices) /\ e2 \in Seq(Indices)
        /\ g2 \o e2 = got[s] \o events[s]
        /\ Len(g2) + Len(e2) = Len(got[s]) + Len(events[s])
        /\ Len(e2) <= Len(events[s])
    BY <1>2, MoveHead
  <2>2. got'[s] = g2 /\ events'[s] = e2 BY <1>3
  <2> HIDE DEF g2, e2, NextEvent
  <2> QED BY <2>1, <2>2
<1>5. /\ \A r \in Subs : got'[r] \o events'[r] = got[r] \o events[r]
      /\ \A r \in Subs : Len(got'[r]) + Len(events'[r]) = Len(got[r]) + Len(events[r])
  BY <1>3, <1>4
<1>6. SubsType'
  <2>1. got' \in [Subs -> Seq(Indices)] BY <1>0, <1>3, <1>4 DEF SubsType
  <2>2. events' \in [Subs -> Seq(Indices)] BY <1>0, <1>3, <1>4 DEF SubsType
  <2>3. \A r \in Subs : Len(events'[r]) <= Capacity(r)
    <3>1. Len(events[s]) \in Nat /\ Len(events'[s]) \in Nat /\ Capacity(s) \in Nat
      BY <1>2, <1>4, EventBufferAssumption DEF Capacity
    <3> QED BY <1>0, <1>3, <1>4, <3>1 DEF SubsType
  <2>4. Indices' = Indices BY DEF Indices
  <2> QED BY <1>0, <1>1, <1>3, <2>1, <2>2, <2>3, <2>4 DEF SubsType
<1>7. RegistryInv' BY <1>0, <1>1, <1>3, <1>5 DEF RegistryInv
<1>8. StreamsContiguous' BY <1>0, <1>5 DEF StreamsContiguous
<1>9. NextTellsCause' BY <1>0, <1>1, <1>3, <1>5 DEF NextTellsCause
<1> QED BY <1>6, <1>7, <1>8, <1>9 DEF SubsInv

(* ... or the error the subscription was closed with: only an owner that    *)
(* has closed it gets another one.                                          *)
LEMMA NextErrorKeeps ==
  ASSUME SubsInv, NEW s \in Subs, from[s] # -1, NextError(s),
         UNCHANGED <<subs, turns, shut, cause, from, quit, log, sent>>
  PROVE  SubsInv'
<1>0. SubsType /\ RegistryInv /\ StreamsContiguous /\ NextTellsCause BY DEF SubsInv
<1>1. \A r \in Subs : Capacity(r)' = Capacity(r) BY DEF Capacity
<1>2. UNCHANGED <<got, events>> /\ errors' \subseteq errors BY DEF NextError
<1>3. result' = [result EXCEPT ![s] = result'[s]] /\ result'[s] \in Causes \cup {None} /\ s \in shut
  BY <1>0 DEF SubsType, RegistryInv, NextError, SubscriptionError, Causes
<1>4. s \notin quit => result'[s] = cause[s] /\ cause[s] # None
  BY <1>0 DEF SubsType, RegistryInv, NextError, SubscriptionError
<1>5. result'[s] = "overflow" => cause[s] = "overflow"
  BY <1>0 DEF SubsType, NextError, SubscriptionError
<1>6. SubsType'
  <2>1. result' \in [Subs -> Causes \cup {None}] BY <1>0, <1>3 DEF SubsType
  <2>2. Indices' = Indices BY DEF Indices
  <2> QED BY <1>0, <1>1, <1>2, <2>1, <2>2 DEF SubsType
<1>7. \A r \in Subs : r # s => result'[r] = result[r] BY <1>0, <1>3 DEF SubsType
<1>8. RegistryInv' BY <1>0, <1>1, <1>2, <1>7 DEF RegistryInv
<1>9. StreamsContiguous' BY <1>0, <1>2 DEF StreamsContiguous
<1>10. NextTellsCause' BY <1>0, <1>1, <1>2, <1>3, <1>4, <1>5, <1>7 DEF RegistryInv, NextTellsCause
<1> QED BY <1>6, <1>8, <1>9, <1>10 DEF SubsInv

(* The fan-out gives an event to every registered subscription with room    *)
(* for it and closes the others, under subsMu.                              *)
LEMMA FanOutKeeps ==
  ASSUME SubsInv, NEW e \in Indices, FanOut(e), log' = Append(log, e),
         UNCHANGED <<turns, from, got, result, quit, sent>>
  PROVE  SubsInv'
<1>0. SubsType /\ RegistryInv /\ StreamsContiguous /\ NextTellsCause BY DEF SubsInv
<1> DEFINE full == {s \in subs : Len(events[s]) >= Capacity(s)}
<1>1. /\ events' = [s \in Subs |-> IF s \in subs \ full THEN Append(events[s], e) ELSE events[s]]
      /\ CloseSubscribers(full, "overflow")
  BY DEF FanOut
<1>2. full \subseteq subs /\ \A s \in full : s \in Subs /\ s \notin shut
  BY <1>0 DEF SubsType, RegistryInv
<1>3. /\ \A s \in Subs : cause'[s] = IF s \in full THEN "overflow" ELSE cause[s]
      /\ errors' = errors \cup full /\ subs' = subs \ full /\ shut' = shut \cup full
      /\ cause' \in [Subs -> Causes \cup {None}]
  BY <1>0, <1>1, <1>2 DEF CloseSubscribers, None, Causes, SubsType
<1>4. \A s \in Subs : Capacity(s)' = Capacity(s) /\ Capacity(s) \in Nat
  BY EventBufferAssumption DEF Capacity
<1>5. \A s \in full : Len(events[s]) >= Capacity(s) OBVIOUS
<1>6. \A s \in subs : s \notin full => Len(events[s]) < Capacity(s)
  BY <1>0, <1>4 DEF SubsType
<1> HIDE DEF full
<1>7. \A s \in Subs : events[s] \in Seq(Indices) /\ got[s] \in Seq(Indices) /\ from[s] \in -1..Len(log)
  BY <1>0 DEF SubsType
<1>8. log \in Seq(Indices) /\ Len(log) \in Nat /\ log' \in Seq(Indices) /\ Len(log') = Len(log) + 1
  BY <1>0, AppendProperties DEF SubsType
<1>9. \A s \in Subs : events'[s] = IF s \in subs' THEN Append(events[s], e) ELSE events[s]
  BY <1>1, <1>3
<1>10. \A s \in Subs : Len(events[s]) \in Nat /\ Len(Append(events[s], e)) = Len(events[s]) + 1
                       /\ Append(events[s], e) \in Seq(Indices)
  BY <1>7, AppendProperties
<1>11. SubsType'
  <2>1. events' \in [Subs -> Seq(Indices)] BY <1>1, <1>7, <1>10
  <2>2. \A s \in Subs : Len(events'[s]) <= Capacity(s)
    <3> SUFFICES ASSUME NEW s \in Subs PROVE Len(events'[s]) <= Capacity(s)
      OBVIOUS
    <3>1. PICK n \in Nat : n = Len(events[s]) BY <1>10
    <3>2. PICK c \in Nat : c = Capacity(s) BY <1>4
    <3>3. n <= c BY <1>0, <3>1, <3>2 DEF SubsType
    <3>4. CASE s \in subs'
      <4>1. s \in subs /\ s \notin full BY <1>3, <3>4
      <4>2. n < c BY <1>6, <3>1, <3>2, <4>1
      <4>3. Len(events'[s]) = n + 1 BY <1>9, <1>10, <3>1, <3>4
      <4> QED BY <3>2, <4>2, <4>3
    <3>5. CASE s \notin subs' BY <1>9, <3>1, <3>2, <3>3, <3>5
    <3> QED BY <3>4, <3>5
  <2>3. from' \in [Subs -> -1..Len(log')] BY <1>0, <1>8 DEF SubsType
  <2>4. Indices' = Indices BY DEF Indices
  <2>5. subs' \subseteq Subs /\ errors' \subseteq Subs /\ shut' \subseteq Subs BY <1>0, <1>2, <1>3 DEF SubsType
  <2> QED BY <1>0, <1>3, <1>4, <1>8, <2>1, <2>2, <2>3, <2>4, <2>5 DEF SubsType
<1>12. RegistryInv'
  <2> SUFFICES ASSUME NEW r \in Subs
               PROVE  /\ from'[r] = -1 => /\ r \notin subs' /\ r \notin shut' /\ cause'[r] = None /\ result'[r] = None
                                          /\ events'[r] = <<>> /\ got'[r] = <<>>
                      /\ from'[r] # -1 => r \in subs' \/ r \in shut'
                      /\ r \in subs' => r \notin shut' /\ cause'[r] = None
                      /\ r \in errors' => r \in shut' /\ cause'[r] # None
                      /\ r \in shut' /\ r \notin quit' => cause'[r] # None
                      /\ cause'[r] = "overflow" => Len(got'[r]) + Len(events'[r]) >= Capacity(r)'
    BY DEF RegistryInv
  <2>1. CASE r \in full
    <3>1. r \notin subs' /\ r \in shut' /\ cause'[r] = "overflow" /\ events'[r] = events[r] BY <1>3, <1>9, <2>1
    <3>2. from[r] # -1 BY <1>0, <1>2, <2>1 DEF RegistryInv
    <3>3. Len(got[r]) \in Nat /\ Len(events[r]) >= Capacity(r) BY <1>5, <1>7, <2>1
    <3>4. Len(got'[r]) + Len(events'[r]) >= Capacity(r)'
      <4>1. PICK n \in Nat : n = Len(events[r]) BY <1>10
      <4>2. PICK m \in Nat : m = Len(got[r]) BY <3>3
      <4>3. PICK c \in Nat : c = Capacity(r) /\ c = Capacity(r)' BY <1>4
      <4>5. n >= c BY <3>3, <4>1, <4>3
      <4>4. m + n >= c BY <4>5
      <4> QED BY <3>1, <4>1, <4>2, <4>3, <4>4
    <3> QED BY <3>1, <3>2, <3>4 DEF None
  <2>2. CASE r \notin full
    <3>1. cause'[r] = cause[r] /\ (r \in errors' <=> r \in errors) /\ (r \in subs' <=> r \in subs)
          /\ (r \in shut' <=> r \in shut)
      BY <1>3, <2>2
    <3>2. r \notin subs => events'[r] = events[r] BY <1>9, <3>1
    <3>3. r \in subs => cause[r] # "overflow" BY <1>0 DEF RegistryInv, None
    <3> QED BY <1>0, <1>4, <3>1, <3>2, <3>3 DEF RegistryInv
  <2> QED BY <2>1, <2>2
<1>13. StreamsContiguous'
  <2> SUFFICES ASSUME NEW r \in Subs, from[r] # -1
               PROVE  LET held == got[r] \o events'[r]
                      IN  /\ Len(held) <= Len(log') - from[r]
                          /\ held = SubSeq(log', from[r] + 1, from[r] + Len(held))
                          /\ r \in subs' => r \notin shut' /\ Len(held) = Len(log') - from[r]
    BY DEF StreamsContiguous
  <2>1. PICK h \in Seq(Indices) : h = got[r] \o events[r]
    <3>1. got[r] \in Seq(Indices) /\ events[r] \in Seq(Indices) BY <1>7
    <3> QED BY <3>1, ConcatProperties
  <2>2. PICK a \in Nat : a = from[r] BY <1>7, <1>8
  <2>3. /\ Len(h) <= Len(log) - a /\ h = SubSeq(log, a + 1, a + Len(h))
        /\ r \in subs => r \notin shut /\ Len(h) = Len(log) - a
    BY <1>0, <2>1, <2>2 DEF StreamsContiguous
  <2>4. CASE r \in subs'
    <3>1. r \in subs /\ r \notin full /\ r \notin shut' BY <1>3, <2>3, <2>4
    <3>2. PICK g \in Seq(Indices), v \in Seq(Indices) : g = got[r] /\ v = events[r] BY <1>7
    <3>3. Len(g \o v) = Len(log) - a /\ g \o v = SubSeq(log, a + 1, a + Len(g \o v))
      BY <2>1, <2>3, <3>1, <3>2
    <3>4. /\ Len(g \o Append(v, e)) = Len(Append(log, e)) - a
          /\ g \o Append(v, e) = SubSeq(Append(log, e), a + 1, a + Len(g \o Append(v, e)))
      <4>1. PICK l \in Seq(Indices) : l = log BY <1>8
      <4>2. Len(g \o v) = Len(l) - a /\ g \o v = SubSeq(l, a + 1, a + Len(g \o v)) BY <3>3, <4>1
      <4>3. /\ Len(g \o Append(v, e)) = Len(Append(l, e)) - a
            /\ g \o Append(v, e) = SubSeq(Append(l, e), a + 1, a + Len(g \o Append(v, e)))
        BY ONLY <4>2, HeldGrows, g \in Seq(Indices), v \in Seq(Indices), a \in Nat, l \in Seq(Indices), e \in Indices
      <4> QED BY <4>1, <4>3
    <3>5. g \o Append(v, e) = got[r] \o events'[r] BY <1>9, <2>4, <3>2
    <3>6. Len(log') - a <= Len(log') - a BY <1>8
    <3> QED BY <2>2, <3>1, <3>4, <3>5, <3>6
  <2>5. CASE r \notin subs'
    <3>1. got[r] \o events'[r] = h BY <1>9, <2>1, <2>5
    <3>2. Len(h) <= Len(Append(log, e)) - a /\ h = SubSeq(Append(log, e), a + 1, a + Len(h))
      BY <1>8, <2>3, HeldStays
    <3> QED BY <2>2, <2>5, <3>1, <3>2
  <2> QED BY <2>4, <2>5
<1>14. NextTellsCause'
  <2> SUFFICES ASSUME NEW r \in Subs
               PROVE  /\ result[r] # None /\ r \notin quit => r \in shut' /\ result[r] = cause'[r] /\ cause'[r] # None
                      /\ result[r] = "overflow" => Len(got[r]) + Len(events'[r]) >= Capacity(r)
    BY <1>4 DEF NextTellsCause
  <2>1. result[r] # None /\ r \notin quit => r \in shut /\ r \notin full /\ result[r] = cause[r] /\ cause[r] # None
    BY <1>0, <1>2 DEF NextTellsCause
  <2>2. PICK m \in Nat, n \in Nat, c \in Nat : m = Len(got[r]) /\ n = Len(events[r]) /\ c = Capacity(r)
    <3>1. got[r] \in Seq(Indices) BY <1>7
    <3> QED BY <1>4, <1>10, <3>1, LenProperties
  <2>3. Len(events'[r]) = n \/ Len(events'[r]) = n + 1 BY <1>9, <1>10, <2>2
  <2>4. result[r] = "overflow" => Len(got[r]) + Len(events'[r]) >= Capacity(r)
    <3>1. result[r] = "overflow" => m + n >= c BY <1>0, <2>2 DEF NextTellsCause
    <3>2. result[r] = "overflow" => m + (n + 1) >= c BY <3>1
    <3> QED BY <2>2, <2>3, <3>1, <3>2
  <2> QED BY <1>3, <2>1, <2>4
<1> QED BY <1>11, <1>12, <1>13, <1>14 DEF SubsInv

-----------------------------------------------------------------------------
(* The parts that most steps leave alone *)

CoreType ==
  /\ script \in Seq(Frames) /\ sent \in Seq(Frames)
  /\ asked \subseteq Senders /\ answer \in [Senders -> 0..Len(sent)]
  /\ wire \in Seq(Bytes) /\ end \in {"open", "eof", "reset"} /\ local \in BOOLEAN
  /\ read \in 0..Len(sent)
  /\ fault \in Fatal \cup {"eof", "reset", None}
  /\ state \in {"connected", "disconnected", "closing", "closed"}
  /\ closed \in BOOLEAN /\ mu \in BOOLEAN
  /\ pc \in [Procs -> {"idle", "read", "lock", "fail", "stopped", "notify", "write",
                       "wait", "close", "done", "signal", "last"}]
  /\ ret \in [Senders -> Causes \cup {None, "option", "written", "write_error", "accepted",
                                      "rejected", "context"}]

LEMMA Parts ==
  StreamsInv <=> CoreType /\ WireInv /\ WireFaithful /\ SubsInv /\ SendInv /\ ControlInv
<1>1. TypeOK <=> CoreType /\ SubsType BY DEF TypeOK, CoreType, SubsType
<1> QED BY <1>1 DEF StreamsInv, SubsInv

LEMMA ProcFacts ==
  /\ "reader" \in Procs /\ "closer" \in Procs /\ Senders \subseteq Procs /\ Senders \subseteq Subs
  /\ Consumers \subseteq Subs /\ \A d \in Senders : d # "reader" /\ d # "closer" /\ d \notin Consumers
BY ProcsAssumption DEF Procs, Subs

(* Nothing happens to the bytes, unless the connection ends. *)
LEMMA WireStays ==
  ASSUME WireInv, WireFaithful, UNCHANGED <<wire, read, sent, log, fault>>, end' = end \/ end' # "open"
  PROVE  WireInv' /\ WireFaithful'
<1>1. \A i, a : FrameAt(i, a)' <=> FrameAt(i, a) BY DEF FrameAt
<1>2. WireInv' BY <1>1 DEF WireInv
<1>3. WireFaithful' BY DEF WireFaithful, Indices
<1> QED BY <1>2, <1>3

LEMMA SubsStay ==
  ASSUME SubsInv, UNCHANGED <<subVars, log, sent>>
  PROVE  SubsInv'
<1>1. SubsType' BY DEF SubsInv, SubsType, Capacity, Indices
<1>2. RegistryInv' BY DEF SubsInv, RegistryInv, Capacity
<1>3. StreamsContiguous' BY DEF SubsInv, StreamsContiguous
<1>4. NextTellsCause' BY DEF SubsInv, NextTellsCause, Capacity
<1> QED BY <1>1, <1>2, <1>3, <1>4 DEF SubsInv

(* A Send moves on, or not at all, and what it was sent and has taken stay. *)
LEMMA SendStays ==
  ASSUME SubsInv, SendInv, answer \in [Senders -> 0..Len(sent)], sent \in Seq(Frames),
         UNCHANGED <<asked, answer>>,
         \A d \in Senders : from'[d] = from[d] /\ got'[d] = got[d],
         \A k \in 1..Len(log) : log'[k] = log[k],
         \A i \in Indices : sent'[i] = sent[i],
         \A d \in Senders : \/ pc'[d] = pc[d] \/ pc'[d] \in {"lock", "fail", "close", "done"}
                            \/ pc[d] = "idle" /\ pc'[d] = "notify"
                            \/ pc[d] = "notify" /\ pc'[d] = "write"
  PROVE  SendInv'
<1> SUFFICES ASSUME NEW d \in Senders
             PROVE  /\ pc'[d] = "idle" => from'[d] = -1 /\ d \notin asked'
                    /\ d \notin asked' => answer'[d] = 0
                    /\ pc'[d] = "wait" =>
                         /\ from'[d] # -1
                         /\ \A i \in 1..Len(got'[d]) : sent'[got'[d][i]].kind # "message_accepted"
                    /\ pc'[d] \in {"notify", "write"} => got'[d] = <<>>
                    /\ answer'[d] # 0 => /\ sent'[answer'[d]].kind = "message_accepted"
                                         /\ \A k \in 1..from'[d] : log'[k] < answer'[d]
  BY DEF SendInv
<1>1. d \in Subs /\ SubsType /\ RegistryInv BY ProcFacts DEF SubsInv
<1>2. from'[d] = from[d] /\ got'[d] = got[d] /\ got[d] \in Seq(Indices) BY <1>1 DEF SubsType
<1>3. \A i \in 1..Len(got[d]) : sent'[got[d][i]] = sent[got[d][i]] BY <1>2, ElementOfSeq
<1>4. \A k \in 1..from[d] : log'[k] = log[k]
  <2>1. from[d] \in -1..Len(log) /\ Len(log) \in Nat BY <1>1 DEF SubsType
  <2> QED BY <2>1
<1>5. answer[d] # 0 => sent'[answer[d]] = sent[answer[d]] BY DEF Indices
<1>6. pc[d] = "idle" => got[d] = <<>> BY <1>1 DEF SendInv, RegistryInv
<1>7. pc'[d] = "idle" => pc[d] = "idle" OBVIOUS
<1>8. pc'[d] = "wait" => pc[d] = "wait" OBVIOUS
<1>9. pc'[d] \in {"notify", "write"} => pc[d] \in {"idle", "notify", "write"} OBVIOUS
<1>10. pc'[d] = "wait" =>
         /\ from'[d] # -1
         /\ \A i \in 1..Len(got'[d]) : sent'[got'[d][i]].kind # "message_accepted"
  BY <1>2, <1>3, <1>8 DEF SendInv
<1>11. answer'[d] # 0 => /\ sent'[answer'[d]].kind = "message_accepted"
                         /\ \A k \in 1..from'[d] : log'[k] < answer'[d]
  BY <1>2, <1>4, <1>5 DEF SendInv
<1>12. pc'[d] \in {"notify", "write"} => got'[d] = <<>> BY <1>2, <1>6, <1>9 DEF SendInv
<1> QED BY <1>2, <1>7, <1>10, <1>11, <1>12 DEF SendInv

(* The reader and the closer do nothing; a Send comes to its write only     *)
(* while the client is connected.                                           *)
LEMMA ControlStays ==
  ASSUME ControlInv, UNCHANGED <<closed, state, fault>>, closed => subs' = {},
         pc'["reader"] = pc["reader"], pc'["closer"] = pc["closer"],
         \A p \in Procs : pc'[p] = "fail" => pc[p] = "fail",
         \A d \in Senders : pc'[d] \in {"write", "wait"} /\ d \in subs' =>
           (pc[d] \in {"write", "wait"} /\ d \in subs) \/ state = "connected"
  PROVE  ControlInv'
BY DEF ControlInv

-----------------------------------------------------------------------------
(* The server and the network *)

(* A new frame is in no log and no buffer yet. *)
LEMMA EmitKeeps ==
  ASSUME StreamsInv, NEW f \in Frames, Emit(f)
  PROVE  /\ WireInv' /\ WireFaithful' /\ SubsInv' /\ ControlInv'
         /\ sent' \in Seq(Frames) /\ Len(sent') = Len(sent) + 1 /\ Len(sent) \in Nat
         /\ sent'[Len(sent) + 1] = f /\ \A i \in Indices : sent'[i] = sent[i]
         /\ wire' \in Seq(Bytes) /\ read' \in 0..Len(sent')
         /\ UNCHANGED <<asked, end, local, readerVars, subVars, clientVars, pc, ret>>
<1>0. CoreType /\ WireInv /\ WireFaithful /\ SubsInv /\ SendInv /\ ControlInv BY Parts
<1>1. UNCHANGED <<asked, end, local, readerVars, subVars, clientVars, pc, ret>> /\ end = "open" /\ sent' = Append(sent, f)
  BY DEF Emit
<1> DEFINE M == Len(sent)
<1>2. WireInv' /\ wire' \in Seq(Bytes) /\ sent' \in Seq(Frames) /\ Len(sent') = M + 1
      /\ \A i \in Indices : sent'[i] = sent[i]
  <2>1. TypeOK /\ UNCHANGED read BY <1>1 DEF StreamsInv
  <2> QED BY <1>0, <2>1, EmitKeepsWire
<1>3. M \in Nat /\ read \in 0..M /\ Indices = 1..M /\ Indices' = 1..(M + 1) /\ sent'[M + 1] = f
  BY <1>0, <1>1, <1>2 DEF CoreType, Indices
<1> HIDE DEF M
<1>4. Indices \subseteq Indices' /\ read' \in 0..(M + 1) BY <1>1, <1>3
<1>5. SubsInv'
  <2>1. SubsType /\ RegistryInv /\ StreamsContiguous /\ NextTellsCause BY <1>0 DEF SubsInv
  <2>2. Seq(Indices) \subseteq Seq(Indices') BY <1>4, SeqMonotonic
  <2>3. log' \in Seq(Indices)' BY <1>1, <2>1, <2>2 DEF SubsType
  <2>4. events' \in [Subs -> Seq(Indices')] /\ got' \in [Subs -> Seq(Indices')] BY <1>1, <2>1, <2>2 DEF SubsType
  <2>5. SubsType' BY <1>1, <2>1, <2>3, <2>4 DEF SubsType, Capacity
  <2>6. RegistryInv' BY <1>1, <2>1 DEF RegistryInv, Capacity
  <2>7. StreamsContiguous' BY <1>1, <2>1 DEF StreamsContiguous
  <2>8. NextTellsCause' BY <1>1, <2>1 DEF NextTellsCause, Capacity
  <2> QED BY <2>5, <2>6, <2>7, <2>8 DEF SubsInv
<1>6. WireFaithful'
  <2>1. \A i \in 1..read : sent'[i] = sent[i] BY <1>2, <1>3
  <2>2. \A i \in 1..read' : Acceptable(sent'[i]) \/ (sent'[i].cr /\ sent'[i].size = MaxSize /\ end' # "open")
    BY <1>0, <1>1, <2>1 DEF WireFaithful
  <2>3. ASSUME NEW i \in Indices'
        PROVE  (\E k \in 1..Len(log') : log'[k] = i) <=> i <= read' /\ sent'[i].kind # "reply"
    <3>1. CASE i \in Indices BY <1>0, <1>1, <1>2, <3>1 DEF WireFaithful
    <3>2. CASE i = M + 1
      <4>1. \A k \in 1..Len(log) : log[k] \in 1..M
        <5>1. log \in Seq(Indices) BY <1>0 DEF SubsInv, SubsType
        <5> QED BY <1>3, <5>1, ElementOfSeq
      <4>2. \A k \in 1..Len(log) : log[k] # M + 1 BY <1>3, <4>1
      <4>3. ~(M + 1 <= read) BY <1>3
      <4> QED BY <1>1, <3>2, <4>2, <4>3
    <3> QED BY <1>3, <3>1, <3>2
  <2>4. \A j, k \in 1..Len(log') : j < k => log'[j] < log'[k] BY <1>0, <1>1 DEF WireFaithful
  <2>5. fault' \in Fatal => read' < Len(sent') /\ ~Acceptable(sent'[read' + 1])
    <3> SUFFICES ASSUME fault \in Fatal PROVE read < M + 1 /\ ~Acceptable(sent'[read + 1])
      BY <1>1, <1>2
    <3>1. read < M /\ ~Acceptable(sent[read + 1]) BY <1>0, <1>1 DEF WireFaithful, M
    <3>2. read + 1 \in Indices BY <1>3, <3>1
    <3> QED BY <1>2, <1>3, <3>1, <3>2
  <2> QED BY <2>2, <2>3, <2>4, <2>5 DEF WireFaithful
<1>7. ControlInv' BY <1>0, <1>1, ControlStays DEF ControlInv
<1> QED BY <1>1, <1>2, <1>3, <1>4, <1>5, <1>6, <1>7 DEF M

LEMMA ServerSendsKeeps ==
  ASSUME StreamsInv, ServerSends
  PROVE  StreamsInv'
<1>0. CoreType /\ SubsInv /\ SendInv BY Parts
<1>1. script \in Seq(Frames) /\ script # <<>> BY <1>0 DEF CoreType, ServerSends
<1>2. Head(script) \in Frames /\ Tail(script) \in Seq(Frames) BY <1>1
<1>3. Emit(Head(script)) /\ script' = Tail(script) /\ UNCHANGED answer BY DEF ServerSends
<1>4. /\ WireInv' /\ WireFaithful' /\ SubsInv' /\ ControlInv'
      /\ sent' \in Seq(Frames) /\ Len(sent') = Len(sent) + 1 /\ Len(sent) \in Nat
      /\ \A i \in Indices : sent'[i] = sent[i]
      /\ wire' \in Seq(Bytes) /\ read' \in 0..Len(sent')
      /\ UNCHANGED <<asked, end, local, readerVars, subVars, clientVars, pc, ret>>
  BY <1>2, <1>3, EmitKeeps
<1>5. answer' \in [Senders -> 0..Len(sent')] BY <1>0, <1>3, <1>4 DEF CoreType
<1>6. CoreType' BY <1>0, <1>2, <1>3, <1>4, <1>5 DEF CoreType
<1>7. SendInv' BY <1>0, <1>3, <1>4, SendStays DEF CoreType
<1> QED BY <1>4, <1>6, <1>7, Parts, PTL

(* An acceptance is sent after every event that the subscription missed.    *)
LEMMA ServerAcceptsKeeps ==
  ASSUME StreamsInv, NEW d \in Senders, ServerAccepts(d)
  PROVE  StreamsInv'
<1>0. CoreType /\ SubsInv /\ SendInv BY Parts
<1>1. Acceptance \in Frames /\ Acceptance.kind = "message_accepted" BY ScriptsAssumption
<1>2. /\ Emit(Acceptance) /\ answer' = [answer EXCEPT ![d] = Len(sent) + 1] /\ UNCHANGED script
      /\ d \in asked /\ answer[d] = 0
  BY DEF ServerAccepts
<1>3. /\ WireInv' /\ WireFaithful' /\ SubsInv' /\ ControlInv'
      /\ sent' \in Seq(Frames) /\ Len(sent') = Len(sent) + 1 /\ Len(sent) \in Nat
      /\ sent'[Len(sent) + 1] = Acceptance /\ \A i \in Indices : sent'[i] = sent[i]
      /\ wire' \in Seq(Bytes) /\ read' \in 0..Len(sent')
      /\ UNCHANGED <<asked, end, local, readerVars, subVars, clientVars, pc, ret>>
  BY <1>1, <1>2, EmitKeeps
<1>4. answer' \in [Senders -> 0..Len(sent')] BY <1>0, <1>2, <1>3 DEF CoreType
<1>5. CoreType' BY <1>0, <1>2, <1>3, <1>4 DEF CoreType
<1>6. SendInv'
  <2> SUFFICES ASSUME NEW r \in Senders
               PROVE  /\ pc[r] = "idle" => from[r] = -1 /\ r \notin asked
                      /\ r \notin asked => answer'[r] = 0
                      /\ pc[r] = "wait" =>
                           /\ from[r] # -1
                           /\ \A i \in 1..Len(got[r]) : sent'[got[r][i]].kind # "message_accepted"
                      /\ pc[r] \in {"notify", "write"} => got[r] = <<>>
                      /\ answer'[r] # 0 => /\ sent'[answer'[r]].kind = "message_accepted"
                                           /\ \A k \in 1..from[r] : log[k] < answer'[r]
    BY <1>3 DEF SendInv
  <2>1. r \in Subs /\ SubsType BY <1>0, ProcFacts DEF SubsInv
  <2>2. got[r] \in Seq(Indices) /\ from[r] \in -1..Len(log) /\ log \in Seq(Indices) BY <2>1 DEF SubsType
  <2>3. \A i \in 1..Len(got[r]) : sent'[got[r][i]] = sent[got[r][i]] BY <1>3, <2>2, ElementOfSeq
  <2>4. r \notin asked => answer'[r] = 0 BY <1>0, <1>2 DEF SendInv, CoreType
  <2>5. CASE r = d
    <3>1. answer'[r] = Len(sent) + 1 BY <1>0, <1>2, <2>5 DEF CoreType
    <3>2. \A k \in 1..from[r] : log[k] \in 1..Len(sent)
      <4>1. Len(log) \in Nat BY <2>2
      <4>2. \A k \in 1..from[r] : k \in 1..Len(log) BY <2>2, <4>1
      <4> QED BY <2>2, <4>2, ElementOfSeq DEF Indices
    <3>3. \A k \in 1..from[r] : log[k] < Len(sent) + 1 BY <1>3, <3>2
    <3> QED BY <1>0, <1>1, <1>3, <2>3, <2>4, <3>1, <3>3 DEF SendInv
  <2>6. CASE r # d
    <3>1. answer'[r] = answer[r] BY <1>0, <1>2, <2>6 DEF CoreType
    <3>2. answer[r] # 0 => answer[r] \in Indices BY <1>0 DEF CoreType, Indices
    <3>3. answer[r] # 0 => sent'[answer[r]] = sent[answer[r]] BY <1>3, <3>2
    <3> QED BY <1>0, <2>3, <2>4, <3>1, <3>3 DEF SendInv
  <2> QED BY <2>5, <2>6
<1> QED BY <1>3, <1>5, <1>6, Parts, PTL

LEMMA NetworkEndsKeeps ==
  ASSUME StreamsInv, NetworkEnds
  PROVE  StreamsInv'
<1>0. CoreType /\ WireInv /\ WireFaithful /\ SubsInv /\ SendInv /\ ControlInv BY Parts
<1>1. /\ UNCHANGED <<wire, local, serverVars, readerVars, subVars, clientVars, pc, ret>>
      /\ end' \in {"eof", "reset"}
  BY DEF NetworkEnds
<1>2. CoreType' BY <1>0, <1>1 DEF CoreType
<1>3. WireInv' /\ WireFaithful' BY <1>0, <1>1, WireStays
<1>4. SubsInv' BY <1>0, <1>1, SubsStay
<1>5. SendInv' BY <1>0, <1>1, SendStays DEF CoreType
<1>6. ControlInv' BY <1>0, <1>1, ControlStays DEF ControlInv
<1> QED BY <1>2, <1>3, <1>4, <1>5, <1>6, Parts, PTL

-----------------------------------------------------------------------------
(* The reader *)

(* There is nothing to read any more. *)
LEMMA EmptyRead ==
  ASSUME NEW e
  PROVE  ~HasLine(<<>>) /\ ReadStatus(<<>>, e) \in {"reset", "eof"}
<1>1. ~HasLine(<<>>) /\ ReadBytes(<<>>) = <<>> BY DEF HasLine, LineEnds, ReadBytes
<1>2. ~LineTooLong(<<>>) BY <1>1, MaxSizeAssumption DEF LineTooLong, Exceeds
<1> QED BY <1>1, <1>2 DEF ReadStatus

(* What a frame is read as: the next frame of the server, which is          *)
(* acceptable, or lost its CR and LF when the connection ended.             *)
LEMMA FrameRead ==
  ASSUME TypeOK, WireInv, NEW bytes \in Arriving, ReadStatus(bytes, end) = "frame",
         Decodes(sent[ReadFrame(bytes)[1].n])
  PROVE  /\ ReadFrame(bytes)[1].n = read + 1 /\ read + 1 \in Indices
         /\ LET f == sent[read + 1]
            IN  Acceptable(f) \/ (f.cr /\ f.size = MaxSize /\ end # "open")
         /\ \/ HasLine(bytes) /\ wire # <<>> /\ Rest(wire) = SubSeq(wire, LineLen(sent[read + 1]) + 1, Len(wire))
            \/ ~HasLine(bytes) /\ end # "open"
<1>1. bytes # <<>> BY EmptyRead
<1>2. /\ read + 1 \in Indices /\ wire # <<>> /\ bytes \in Seq(Bytes)
      /\ \A k \in 1..Len(bytes) : bytes[k] = Line(read + 1, sent[read + 1])[k]
      /\ \/ /\ Len(bytes) = LineLen(sent[read + 1])
            /\ Rest(wire) = SubSeq(wire, Len(bytes) + 1, Len(wire))
         \/ Len(bytes) < LineLen(sent[read + 1]) /\ end # "open"
  BY <1>1, Reading
<1>3. PICK f \in Frames, i \in Nat : f = sent[read + 1] /\ i = read + 1
  <2>1. sent \in Seq(Frames) /\ read + 1 \in 1..Len(sent) /\ read \in Nat BY <1>2 DEF TypeOK, Indices
  <2>2. sent[read + 1] \in Frames BY <2>1, ElementOfSeq
  <2> QED BY <2>1, <2>2
<1>4. \A k \in 1..Len(bytes) : bytes[k] = Line(i, f)[k] BY <1>2, <1>3
<1>5. CASE Len(bytes) = LineLen(f) /\ Rest(wire) = SubSeq(wire, Len(bytes) + 1, Len(wire))
  <2>1. HasLine(bytes) /\ ReadFrame(bytes)[1].n = i BY <1>2, <1>4, <1>5, WholeFrame
  <2>2. Decodes(f) BY <1>3, <2>1
  <2>3. Acceptable(f) BY <1>2, <1>4, <1>5, <2>2, WholeFrame
  <2> QED BY <1>2, <1>3, <1>5, <2>1, <2>3
<1>6. CASE Len(bytes) < LineLen(f) /\ end # "open"
  <2>1. /\ ~HasLine(bytes) /\ ReadFrame(bytes)[1].n = i
        /\ f.size > 1 /\ f.kind # "array" /\ (MaxSize > 0 => f.size <= MaxSize)
    BY <1>2, <1>4, <1>6, CutFrame
  <2>2. f.kind # "untagged" BY <1>3, <2>1 DEF Decodes
  <2>3. f.size \in Nat BY DEF Frames
  <2>4. Acceptable(f) \/ (f.cr /\ f.size = MaxSize) BY <2>1, <2>2, <2>3, MaxSizeAssumption DEF Acceptable
  <2> QED BY <1>2, <1>3, <1>6, <2>1, <2>4
<1> QED BY <1>2, <1>3, <1>5, <1>6

(* The log takes the next frame, if it is an event. *)
LEMMA LogFollows ==
  ASSUME NEW i \in Nat, read \in Nat, sent \in Seq(Frames), log \in Seq(Indices), WireFaithful,
         i = read + 1, i \in Indices, read' = i, UNCHANGED sent,
         \/ sent[i].kind = "reply" /\ log' = log
         \/ sent[i].kind # "reply" /\ log' = Append(log, i)
  PROVE  /\ \A j \in Indices : (\E k \in 1..Len(log') : log'[k] = j) <=> j <= read' /\ sent[j].kind # "reply"
         /\ \A j, k \in 1..Len(log') : j < k => log'[j] < log'[k]
<1>1. /\ \A j \in Indices : (\E k \in 1..Len(log) : log[k] = j) <=> j <= read /\ sent[j].kind # "reply"
      /\ \A j, k \in 1..Len(log) : j < k => log[j] < log[k]
  BY DEF WireFaithful
<1>2. PICK n \in Nat : n = Len(log) OBVIOUS
<1>3. \A k \in 1..n : log[k] \in Indices /\ log[k] \in Nat BY <1>2, ElementOfSeq DEF Indices
<1>4. \A k \in 1..n : log[k] <= read BY <1>1, <1>2, <1>3
<1>5. \A j \in Indices : j \in Nat BY DEF Indices
<1>6. \A j \in Indices : j <= i <=> j <= read \/ j = i BY <1>5
<1>7. CASE sent[i].kind = "reply" /\ log' = log
  <2>1. \A j \in Indices : j <= i /\ sent[j].kind # "reply" <=> j <= read /\ sent[j].kind # "reply" BY <1>6, <1>7
  <2> QED BY <1>1, <1>7, <2>1
<1>8. CASE sent[i].kind # "reply" /\ log' = Append(log, i)
  <2>1. Len(log') = n + 1 /\ log'[n + 1] = i /\ \A k \in 1..n : log'[k] = log[k]
    BY <1>2, <1>8, AppendProperties
  <2>2. ASSUME NEW j \in Indices
        PROVE  (\E k \in 1..(n + 1) : log'[k] = j) <=> j <= i /\ sent[j].kind # "reply"
    <3>1. (\E k \in 1..(n + 1) : log'[k] = j) <=> (\E k \in 1..n : log[k] = j) \/ j = i
      <4>1. \A k \in 1..(n + 1) : k \in 1..n \/ k = n + 1 OBVIOUS
      <4>2. n + 1 \in 1..(n + 1) /\ \A k \in 1..n : k \in 1..(n + 1) OBVIOUS
      <4> QED BY <2>1, <4>1, <4>2
    <3>2. (\E k \in 1..n : log[k] = j) <=> j <= read /\ sent[j].kind # "reply" BY <1>1, <1>2
    <3> QED BY <1>6, <1>8, <3>1, <3>2
  <2>3. ASSUME NEW j \in 1..(n + 1), NEW k \in 1..(n + 1), j < k PROVE log'[j] < log'[k]
    <3>1. j \in 1..n BY <2>3
    <3>2. CASE k \in 1..n BY <1>1, <1>2, <2>1, <2>3, <3>1, <3>2
    <3>3. CASE k = n + 1
      <4>1. log[j] <= read /\ log[j] \in Nat BY <1>3, <1>4, <3>1
      <4>2. log[j] < i BY <4>1
      <4> QED BY <2>1, <3>1, <3>3, <4>2
    <3> QED BY <3>2, <3>3
  <2> QED BY <2>1, <2>2, <2>3
<1> QED BY <1>7, <1>8

(* One frame from the wire to the subscriptions. *)
LEMMA ReadEventKeeps ==
  ASSUME StreamsInv, ReadEvent
  PROVE  StreamsInv'
<1>0. CoreType /\ WireInv /\ WireFaithful /\ SubsInv /\ SendInv /\ ControlInv BY Parts
<1> DEFINE M == Len(sent)
<1>1. read \in 0..M /\ M \in Nat /\ sent \in Seq(Frames) /\ log \in Seq(Indices) /\ Indices = 1..M
  BY <1>0 DEF CoreType, SubsInv, SubsType, Indices
<1>2. PICK bytes \in Arriving :
        LET e == ReadFrame(bytes)[1].n
        IN  /\ pc["reader"] = "read"
            /\ ReadStatus(bytes, end) = "frame"
            /\ Decodes(sent[e])
            /\ wire' = IF HasLine(bytes) THEN Rest(wire) ELSE <<>>
            /\ read' = read + 1
            /\ IF sent[e].kind = "reply"
               THEN UNCHANGED <<log, subs, events, errors, shut, cause>>
               ELSE log' = Append(log, e) /\ FanOut(e)
            /\ UNCHANGED <<end, local, fault, serverVars, turns, from, got, result, quit, clientVars, pc, ret>>
  BY DEF ReadEvent
<1>3. PICK i \in Nat : i = read + 1 BY <1>1
<1>4. /\ ReadFrame(bytes)[1].n = i /\ i \in Indices
      /\ Acceptable(sent[i]) \/ (sent[i].cr /\ sent[i].size = MaxSize /\ end # "open")
      /\ \/ HasLine(bytes) /\ wire # <<>> /\ Rest(wire) = SubSeq(wire, LineLen(sent[i]) + 1, Len(wire))
         \/ ~HasLine(bytes) /\ end # "open"
  <2>1. TypeOK BY DEF StreamsInv
  <2> QED BY <1>0, <1>2, <1>3, <2>1, FrameRead
<1>5. /\ read' = i
      /\ \/ sent[i].kind = "reply" /\ UNCHANGED <<log, subs, events, errors, shut, cause>>
         \/ sent[i].kind # "reply" /\ log' = Append(log, i) /\ FanOut(i)
      /\ UNCHANGED <<end, local, fault, serverVars, turns, from, got, result, quit, clientVars, pc, ret>>
      /\ pc["reader"] = "read"
  BY <1>2, <1>3, <1>4
<1>6. WireInv' /\ wire' \in Seq(Bytes)
  <2>1. CASE HasLine(bytes) /\ wire # <<>> /\ Rest(wire) = SubSeq(wire, LineLen(sent[i]) + 1, Len(wire))
    <3>1. TypeOK /\ wire' = SubSeq(wire, LineLen(sent[read + 1]) + 1, Len(wire)) BY <1>2, <1>3, <2>1 DEF StreamsInv
    <3>2. PICK L : L = LineLen(sent[read + 1]) OBVIOUS
    <3> QED BY <1>0, <1>3, <1>4, <1>5, <2>1, <3>1, <3>2, RestKeepsWire
  <2>2. CASE ~HasLine(bytes) /\ end # "open" BY <1>2, <1>5, <2>2 DEF WireInv
  <2> QED BY <1>4, <2>1, <2>2
<1>7. WireFaithful'
  <2>1. \A j \in 1..read' : Acceptable(sent[j]) \/ (sent[j].cr /\ sent[j].size = MaxSize /\ end # "open")
    <3>1. \A j \in 1..read' : j \in 1..read \/ j = i BY <1>1, <1>3, <1>5
    <3> QED BY <1>0, <1>4, <3>1 DEF WireFaithful
  <2>2. /\ \A j \in Indices : (\E k \in 1..Len(log') : log'[k] = j) <=> j <= read' /\ sent[j].kind # "reply"
        /\ \A j, k \in 1..Len(log') : j < k => log'[j] < log'[k]
    <3>1. read \in Nat /\ UNCHANGED sent BY <1>1, <1>5
    <3> QED BY <1>0, <1>1, <1>3, <1>4, <1>5, <3>1, LogFollows
  <2>3. fault' \notin Fatal BY <1>0, <1>5 DEF ControlInv, None, Fatal
  <2>4. UNCHANGED <<sent, end>> /\ Indices' = Indices BY <1>5 DEF Indices
  <2> QED BY <2>1, <2>2, <2>3, <2>4 DEF WireFaithful
<1>8. SubsInv'
  <2>1. CASE sent[i].kind = "reply" /\ UNCHANGED <<log, subs, events, errors, shut, cause>>
    BY <1>0, <1>5, <2>1, SubsStay
  <2>2. CASE log' = Append(log, i) /\ FanOut(i) BY <1>0, <1>4, <1>5, <2>2, FanOutKeeps
  <2> QED BY <1>5, <2>1, <2>2
<1>9. \A k \in 1..Len(log) : log'[k] = log[k]
  <2>1. CASE log' = log BY <2>1
  <2>2. CASE log' = Append(log, i)
    <3>1. \A k \in 1..Len(log) : Append(log, i)[k] = log[k] BY ONLY <1>1, <1>4, AppendProperties
    <3> QED BY <2>2, <3>1
  <2> QED BY <1>5, <2>1, <2>2
<1>10. SendInv' BY <1>0, <1>5, <1>9, SendStays DEF CoreType
<1>11. ControlInv'
  <2>1. subs' \subseteq subs BY <1>5 DEF FanOut, CloseSubscribers
  <2> QED BY <1>0, <1>5, <2>1, ControlStays DEF ControlInv
<1>12. CoreType'
  <2>1. read' \in 0..Len(sent') BY <1>1, <1>4, <1>5
  <2> QED BY <1>0, <1>5, <1>6, <2>1 DEF CoreType
<1> QED BY <1>6, <1>7, <1>8, <1>10, <1>11, <1>12, Parts, PTL

(* Why it stops: a fatal error comes from a frame that is not acceptable,   *)
(* or from one that was cut off.                                            *)
LEMMA ReadFailsKeeps ==
  ASSUME StreamsInv, ReadFails
  PROVE  StreamsInv'
<1>0. CoreType /\ WireInv /\ WireFaithful /\ SubsInv /\ SendInv /\ ControlInv BY Parts
<1>1. PICK bytes \in Arriving :
        LET status == ReadStatus(bytes, end)
        IN  /\ pc["reader"] = "read"
            /\ IF status = "frame"
               THEN /\ ~Decodes(sent[ReadFrame(bytes)[1].n])
                    /\ fault' = "invalid" /\ Goto("reader", "lock")
               ELSE /\ fault' = status
                    /\ Goto("reader", IF state \in {"closing", "closed"} THEN "stopped" ELSE "lock")
            /\ wire' = IF HasLine(bytes) THEN wire ELSE <<>>
            /\ UNCHANGED <<read, log, end, local, serverVars, subVars, clientVars, ret>>
  BY DEF ReadFails
<1>2. UNCHANGED <<read, log, end, local, serverVars, subVars, clientVars, ret>> BY <1>1
<1>3. /\ fault' \in Fatal \cup {"eof", "reset"}
      /\ \/ pc' = [pc EXCEPT !["reader"] = "lock"]
         \/ state \in {"closing", "closed"} /\ pc' = [pc EXCEPT !["reader"] = "stopped"]
  BY <1>1 DEF ReadStatus, Fatal
<1>4. \/ HasLine(bytes) /\ wire' = wire /\ read < Len(sent) /\ ~Acceptable(sent[read + 1])
      \/ end # "open" /\ wire' = <<>>
  <2>1. CASE bytes = <<>> /\ end # "open" BY <1>1, <2>1, EmptyRead
  <2>2. CASE /\ read + 1 \in Indices /\ wire # <<>> /\ bytes \in Seq(Bytes)
             /\ \A k \in 1..Len(bytes) : bytes[k] = Line(read + 1, sent[read + 1])[k]
             /\ \/ /\ Len(bytes) = LineLen(sent[read + 1])
                   /\ Rest(wire) = SubSeq(wire, Len(bytes) + 1, Len(wire))
                \/ Len(bytes) < LineLen(sent[read + 1]) /\ end # "open"
    <3>1. sent \in Seq(Frames) /\ read + 1 \in 1..Len(sent) /\ read \in Nat BY <1>0, <2>2 DEF CoreType, Indices
    <3>2. sent[read + 1] \in Frames BY <3>1, ElementOfSeq
    <3>3. PICK f \in Frames, i \in Nat : f = sent[read + 1] /\ i = read + 1 BY <3>1, <3>2
    <3>4. bytes \in Seq(Bytes) /\ \A k \in 1..Len(bytes) : bytes[k] = Line(i, f)[k] BY <2>2, <3>3
    <3>5. CASE Len(bytes) = LineLen(f)
      <4>1. /\ HasLine(bytes)
            /\ ReadStatus(bytes, end) = "frame" => ReadFrame(bytes)[1].n = i
            /\ ReadStatus(bytes, end) = "frame" /\ Decodes(f) <=> Acceptable(f)
        BY <3>4, <3>5, WholeFrame
      <4>2. ~Acceptable(f) BY <1>1, <3>3, <4>1
      <4>3. read < Len(sent) BY <3>1
      <4> QED BY <1>1, <3>3, <4>1, <4>2, <4>3
    <3>6. CASE Len(bytes) < LineLen(f) /\ end # "open"
      <4>1. ~HasLine(bytes) BY <3>4, <3>6, CutFrame
      <4> QED BY <1>1, <3>6, <4>1
    <3> QED BY <2>2, <3>3, <3>5, <3>6
  <2>3. TypeOK BY DEF StreamsInv
  <2> QED BY <1>0, <2>1, <2>2, <2>3, Reading
<1>5. WireInv'
  <2>1. CASE wire' = wire
    <3>1. \A i, a : FrameAt(i, a)' <=> FrameAt(i, a) BY <1>2, <2>1 DEF FrameAt
    <3> QED BY <1>0, <1>2, <2>1, <3>1 DEF WireInv
  <2>2. CASE end # "open" /\ wire' = <<>> BY <1>2, <2>2 DEF WireInv
  <2> QED BY <1>4, <2>1, <2>2
<1>6. WireFaithful' BY <1>0, <1>2, <1>4 DEF WireFaithful, Indices
<1>7. SubsInv' BY <1>0, <1>2, SubsStay
<1>8. /\ \A p \in Procs : p # "reader" => pc'[p] = pc[p]
      /\ pc'["reader"] = "lock" \/ (state \in {"closing", "closed"} /\ pc'["reader"] = "stopped")
  BY <1>0, <1>3, ProcFacts DEF CoreType
<1>9. SendInv'
  <2>1. \A d \in Senders : pc'[d] = pc[d] BY <1>8, ProcFacts
  <2> QED BY <1>0, <1>2, <2>1, SendStays DEF CoreType
<1>10. ControlInv'
  <2>1. fault' # None BY <1>3 DEF Fatal, None
  <2>2. pc'["reader"] # "read" /\ pc'["closer"] = pc["closer"] BY <1>8, ProcFacts
  <2>3. \A p \in Procs : pc'[p] = "fail" => state # "connected" BY <1>0, <1>8 DEF ControlInv
  <2>4. pc'["reader"] = "stopped" /\ state # "closing" => state # "connected" /\ subs = {}
    BY <1>0, <1>8 DEF ControlInv
  <2> QED BY <1>0, <1>2, <2>1, <2>2, <2>3, <2>4 DEF ControlInv
<1>11. CoreType'
  <2>1. wire' \in Seq(Bytes)
    <3>1. <<>> \in Seq(Bytes) OBVIOUS
    <3> QED BY <1>0, <1>4, <3>1 DEF CoreType
  <2>2. pc' \in [Procs -> {"idle", "read", "lock", "fail", "stopped", "notify", "write",
                           "wait", "close", "done", "signal", "last"}]
    BY <1>0, <1>3 DEF CoreType
  <2> QED BY <1>0, <1>2, <1>3, <2>1, <2>2 DEF CoreType
<1> QED BY <1>5, <1>6, <1>7, <1>9, <1>10, <1>11, Parts, PTL

-----------------------------------------------------------------------------
(* disconnect *)

LEMMA DisconnectKeeps ==
  ASSUME StreamsInv, NEW p \in Procs, Disconnect(p)
  PROVE  StreamsInv'
<1>0. CoreType /\ WireInv /\ WireFaithful /\ SubsInv /\ SendInv /\ ControlInv BY Parts
<1>1. UNCHANGED <<closed, serverVars, readerVars, subVars, ret, wire>> /\ (end' = end \/ end' # "open") /\ pc[p] = "lock"
  BY DEF Disconnect, CloseTransport
<1>2. \/ /\ state \in {"closing", "closed"} \/ (state = "disconnected" /\ ~Terminal(p))
         /\ pc' = [pc EXCEPT ![p] = AfterDisconnect(p)] /\ UNCHANGED <<state, mu, local, end>>
      \/ /\ ~(state \in {"closing", "closed"})
         /\ state' = "disconnected" /\ mu' = TRUE /\ local' = TRUE /\ end' \in {end, "reset"}
         /\ pc' = [pc EXCEPT ![p] = "fail"]
  BY DEF Disconnect, CloseTransport
<1>3. AfterDisconnect(p) \in {"stopped", "close"} /\ (p # "reader" => AfterDisconnect(p) = "close")
  BY DEF AfterDisconnect
<1>4. \A q \in Procs : q # p => pc'[q] = pc[q] BY <1>0, <1>2 DEF CoreType
<1>5. pc'[p] \in {"fail", AfterDisconnect(p)} BY <1>0, <1>2 DEF CoreType
<1>6. WireInv' /\ WireFaithful' BY <1>0, <1>1, WireStays
<1>7. SubsInv' BY <1>0, <1>1, SubsStay
<1>8. SendInv'
  <2>1. \A d \in Senders : pc'[d] = pc[d] \/ pc'[d] \in {"fail", "close"} BY <1>3, <1>4, <1>5, ProcFacts
  <2> QED BY <1>0, <1>1, <2>1, SendStays DEF CoreType
<1>9. \A d \in Senders : pc'[d] \in {"write", "wait"} => pc[d] \in {"write", "wait"}
  BY <1>3, <1>4, <1>5, ProcFacts
<1>10. ControlInv'
  <2>2. pc'["closer"] = "last" => pc["closer"] = "last" BY <1>3, <1>4, <1>5, ProcFacts
  <2>3. pc'["reader"] = "read" <=> pc["reader"] = "read" BY <1>1, <1>3, <1>4, <1>5, ProcFacts
  <2>4. CASE /\ state \in {"closing", "closed"} \/ (state = "disconnected" /\ ~Terminal(p))
             /\ pc' = [pc EXCEPT ![p] = AfterDisconnect(p)] /\ UNCHANGED <<state, mu, local, end>>
    <3>1. \A q \in Procs : pc'[q] = "fail" => pc[q] = "fail" BY <1>0, <1>3, <2>4 DEF CoreType
    <3>2. fault \in Fatal /\ pc'["reader"] = "stopped" /\ state # "closing" =>
            state = "closed" \/ pc["reader"] = "stopped"
      <4>1. p = "reader" /\ fault \in Fatal => Terminal(p) BY DEF Terminal
      <4>2. p # "reader" => pc'["reader"] = pc["reader"] BY <1>4, ProcFacts
      <4> QED BY <2>4, <4>1, <4>2
    <3>3. state = "closed" => subs = {} BY <1>0 DEF ControlInv
    <3> QED BY <1>0, <1>1, <1>9, <2>2, <2>3, <2>4, <3>1, <3>2, <3>3 DEF ControlInv
  <2>5. CASE /\ ~(state \in {"closing", "closed"})
             /\ state' = "disconnected" /\ pc' = [pc EXCEPT ![p] = "fail"]
    <3>1. pc'["reader"] = "stopped" => pc["reader"] = "stopped" BY <1>0, <2>5, ProcFacts DEF CoreType
    <3> QED BY <1>0, <1>1, <1>9, <2>2, <2>3, <2>5, <3>1 DEF ControlInv
  <2> QED BY <1>2, <2>4, <2>5
<1>11. CoreType'
  <2>1. pc' \in [Procs -> {"idle", "read", "lock", "fail", "stopped", "notify", "write",
                           "wait", "close", "done", "signal", "last"}]
    BY <1>0, <1>2, <1>3 DEF CoreType
  <2>2. local' \in BOOLEAN /\ mu' \in BOOLEAN BY <1>0, <1>2 DEF CoreType
  <2>3. end' \in {"open", "eof", "reset"} BY <1>0, <1>2 DEF CoreType
  <2>4. state' \in {"connected", "disconnected", "closing", "closed"} BY <1>0, <1>2 DEF CoreType
  <2> QED BY <1>0, <1>1, <2>1, <2>2, <2>3, <2>4 DEF CoreType
<1> QED BY <1>6, <1>7, <1>8, <1>10, <1>11, Parts, PTL

(* A fatal error leaves no subscription registered. *)
LEMMA DisconnectEndsKeeps ==
  ASSUME StreamsInv, NEW p \in Procs, DisconnectEnds(p)
  PROVE  StreamsInv'
<1>0. CoreType /\ WireInv /\ WireFaithful /\ SubsInv /\ SendInv /\ ControlInv BY Parts
<1>1. /\ UNCHANGED <<state, closed, serverVars, wireVars, readerVars, turns, events, from, got, result, quit, ret>>
      /\ pc[p] = "fail" /\ pc' = [pc EXCEPT ![p] = AfterDisconnect(p)] /\ mu' = FALSE
  BY DEF DisconnectEnds
<1>2. AfterDisconnect(p) \in {"stopped", "close"} /\ (p # "reader" => AfterDisconnect(p) = "close")
  BY DEF AfterDisconnect
<1>3. PICK which \in SUBSET subs, err \in Causes \cup {None} :
        /\ CloseSubscribers(which, err) /\ err # None /\ err # "overflow"
        /\ Terminal(p) => which = subs
  <2>1. CASE Terminal(p)
    <3>1. CloseSubscribers(subs, fault) BY <2>1 DEF DisconnectEnds, FailSubscribers
    <3>2. fault \in Causes \cup {None} /\ fault # None /\ fault # "overflow" BY <2>1 DEF Terminal, Fatal, Causes, None
    <3> QED BY <3>1, <3>2
  <2>2. CASE ~Terminal(p)
    <3>1. CloseSubscribers(turns \cap subs, "disconnected") BY <2>2 DEF DisconnectEnds, FailSubscribers
    <3>2. "disconnected" \in Causes \cup {None} /\ "disconnected" # None BY DEF Causes, None
    <3> QED BY <2>2, <3>1, <3>2
  <2> QED BY <2>1, <2>2
<1>4. SubsInv'
  <2>1. quit' = quit /\ quit \subseteq Subs BY <1>0, <1>1 DEF SubsInv, SubsType
  <2> QED BY <1>0, <1>1, <1>3, <2>1, CloseSubscribersKeeps
<1>5. WireInv' /\ WireFaithful' BY <1>0, <1>1, WireStays
<1>6. \A q \in Procs : (q # p => pc'[q] = pc[q]) /\ (q = p => pc'[q] = AfterDisconnect(p))
  BY <1>0, <1>1 DEF CoreType
<1>7. SendInv'
  <2>1. \A d \in Senders : pc'[d] = pc[d] \/ pc'[d] \in {"fail", "close"} BY <1>2, <1>6, ProcFacts
  <2> QED BY <1>0, <1>1, <2>1, SendStays DEF CoreType
<1>8. ControlInv'
  <2>1. subs' \subseteq subs /\ (Terminal(p) => subs' = {}) BY <1>3 DEF CloseSubscribers
  <2>2. pc'["closer"] = "last" => pc["closer"] = "last" BY <1>2, <1>6, ProcFacts
  <2>3. pc'["reader"] = "read" <=> pc["reader"] = "read" BY <1>1, <1>2, <1>6, ProcFacts
  <2>4. \A q \in Procs : pc'[q] = "fail" => pc[q] = "fail" BY <1>2, <1>6
  <2>5. \A d \in Senders : pc'[d] \in {"write", "wait"} => pc[d] \in {"write", "wait"}
    BY <1>2, <1>6, ProcFacts
  <2>6. CASE p = "reader" /\ fault \in Fatal
    <3>1. subs' = {} BY <2>1, <2>6 DEF Terminal
    <3>2. state # "connected" BY <1>0, <1>1 DEF ControlInv
    <3> QED BY <1>0, <1>1, <2>2, <2>3, <2>4, <3>1, <3>2 DEF ControlInv
  <2>7. CASE ~(p = "reader" /\ fault \in Fatal)
    <3>1. fault \in Fatal => pc'["reader"] = pc["reader"] BY <1>6, <2>7, ProcFacts
    <3> QED BY <1>0, <1>1, <2>1, <2>2, <2>3, <2>4, <2>5, <3>1 DEF ControlInv
  <2> QED BY <2>6, <2>7
<1>9. CoreType'
  <2>1. pc' \in [Procs -> {"idle", "read", "lock", "fail", "stopped", "notify", "write",
                           "wait", "close", "done", "signal", "last"}]
    BY <1>0, <1>1, <1>2 DEF CoreType
  <2>2. mu' \in BOOLEAN BY <1>1
  <2> QED BY <1>0, <1>1, <2>1, <2>2 DEF CoreType
<1> QED BY <1>4, <1>5, <1>7, <1>8, <1>9, Parts, PTL

-----------------------------------------------------------------------------
(* The consumers *)

LEMMA SubscribeKeeps ==
  ASSUME StreamsInv, NEW s \in Consumers, Subscribe(s)
  PROVE  StreamsInv'
<1>0. CoreType /\ WireInv /\ WireFaithful /\ SubsInv /\ SendInv /\ ControlInv BY Parts
<1>1. /\ from[s] = -1 /\ Register(s) /\ (turns' = turns \/ turns' = turns \cup {s})
      /\ UNCHANGED <<serverVars, wireVars, readerVars, clientVars, pc, ret>>
  BY DEF Subscribe
<1>2. s \in Subs BY ProcFacts
<1>3. SubsInv' BY <1>0, <1>1, <1>2, RegisterKeeps
<1>4. CoreType' BY <1>0, <1>1 DEF CoreType
<1>5. WireInv' /\ WireFaithful' BY <1>0, <1>1, WireStays
<1>6. \A d \in Senders : from'[d] = from[d] /\ got'[d] = got[d]
  BY <1>0, <1>1, ProcFacts DEF Register, SubsInv, SubsType
<1>7. SendInv' BY <1>0, <1>1, <1>6, SendStays DEF CoreType
<1>8. ControlInv'
  <2>1. (closed => subs' = subs) /\ \A d \in Senders : d \in subs' => d \in subs BY <1>1, ProcFacts DEF Register
  <2> QED BY <1>0, <1>1, <2>1, ControlStays DEF ControlInv
<1> QED BY <1>3, <1>4, <1>5, <1>7, <1>8, Parts, PTL

LEMMA SubscriptionNextKeeps ==
  ASSUME StreamsInv, NEW s \in Consumers, SubscriptionNext(s)
  PROVE  StreamsInv'
<1>0. CoreType /\ WireInv /\ WireFaithful /\ SubsInv /\ SendInv /\ ControlInv BY Parts
<1>1. /\ from[s] # -1 /\ (NextEvent(s) \/ NextError(s))
      /\ UNCHANGED <<serverVars, wireVars, readerVars, subs, turns, shut, cause, from, quit, clientVars, pc, ret>>
  BY DEF SubscriptionNext
<1>2. s \in Subs BY ProcFacts
<1>3. SubsInv' BY <1>0, <1>1, <1>2, NextEventKeeps, NextErrorKeeps
<1>4. CoreType' BY <1>0, <1>1 DEF CoreType
<1>5. WireInv' /\ WireFaithful' BY <1>0, <1>1, WireStays
<1>6. \A d \in Senders : got'[d] = got[d]
  BY <1>0, <1>1, ProcFacts DEF NextEvent, NextError, SubsInv, SubsType
<1>7. SendInv' BY <1>0, <1>1, <1>6, SendStays DEF CoreType
<1>8. ControlInv' BY <1>0, <1>1, ControlStays DEF ControlInv
<1> QED BY <1>3, <1>4, <1>5, <1>7, <1>8, Parts, PTL

LEMMA UnsubscribeKeeps ==
  ASSUME SubsInv, NEW s \in Subs, Unsubscribe(s), UNCHANGED <<events, result, log, sent>>
  PROVE  SubsInv' /\ subs' \subseteq subs
<1>1. /\ CloseSubscribers({s} \cap subs, None) /\ quit' = quit \cup {s} /\ UNCHANGED <<turns, from, got>>
      /\ None \in Causes \cup {None} /\ None # "overflow"
  BY DEF Unsubscribe, None
<1>2. quit \subseteq quit' /\ quit' \subseteq Subs /\ {s} \cap subs \subseteq quit' BY <1>1 DEF SubsInv, SubsType
<1>3. PICK which \in SUBSET subs : which = {s} \cap subs OBVIOUS
<1>4. SubsInv' BY <1>1, <1>2, <1>3, CloseSubscribersKeeps
<1> QED BY <1>1, <1>4 DEF CloseSubscribers

LEMMA CloseSubscriptionKeeps ==
  ASSUME StreamsInv, NEW s \in Consumers, CloseSubscription(s)
  PROVE  StreamsInv'
<1>0. CoreType /\ WireInv /\ WireFaithful /\ SubsInv /\ SendInv /\ ControlInv BY Parts
<1>1. /\ Unsubscribe(s)
      /\ UNCHANGED <<serverVars, wireVars, readerVars, events, result, clientVars, pc, ret>>
  BY DEF CloseSubscription
<1>2. s \in Subs BY ProcFacts
<1>3. SubsInv' /\ subs' \subseteq subs BY <1>0, <1>1, <1>2, UnsubscribeKeeps
<1>4. CoreType' BY <1>0, <1>1 DEF CoreType
<1>5. WireInv' /\ WireFaithful' BY <1>0, <1>1, WireStays
<1>6. UNCHANGED <<from, got>> BY <1>1 DEF Unsubscribe
<1>7. SendInv' BY <1>0, <1>1, <1>6, SendStays DEF CoreType
<1>8. ControlInv' BY <1>0, <1>1, <1>3, ControlStays DEF ControlInv
<1> QED BY <1>3, <1>4, <1>5, <1>7, <1>8, Parts, PTL

-----------------------------------------------------------------------------
(* Send *)

Labels == {"idle", "read", "lock", "fail", "stopped", "notify", "write",
           "wait", "close", "done", "signal", "last"}
Returned == Causes \cup {None, "option", "written", "write_error", "accepted", "rejected", "context"}

(* A step of a Send that leaves the server's side, the bytes, the reader    *)
(* and the client alone.                                                    *)
LEMMA SenderMoves ==
  ASSUME CoreType, NEW d \in Senders, NEW label \in Labels, NEW value \in Returned,
         pc' = [pc EXCEPT ![d] = label], ret' = ret \/ ret' = [ret EXCEPT ![d] = value],
         asked' \subseteq Senders,
         UNCHANGED <<script, sent, answer, wireVars, read, fault, clientVars>>
  PROVE  /\ CoreType' /\ pc'[d] = label
         /\ \A p \in Procs : p # d => pc'[p] = pc[p]
         /\ pc'["reader"] = pc["reader"] /\ pc'["closer"] = pc["closer"]
<1>1. d \in Procs /\ pc \in [Procs -> Labels] /\ ret \in [Senders -> Returned]
  BY ProcFacts DEF CoreType, Labels, Returned
<1>2. pc' \in [Procs -> Labels] /\ pc'[d] = label BY <1>1
<1>3. \A p \in Procs : p # d => pc'[p] = pc[p] BY <1>1
<1>4. ret' \in [Senders -> Returned] BY <1>1
<1>5. CoreType' BY <1>2, <1>4 DEF CoreType, Labels, Returned
<1> QED BY <1>2, <1>3, <1>5, ProcFacts

(* The steps that do nothing to the subscriptions. *)
LEMMA SenderStepKeeps ==
  ASSUME StreamsInv, NEW d \in Senders, NEW label \in Labels, NEW value \in Returned,
         pc' = [pc EXCEPT ![d] = label], ret' = ret \/ ret' = [ret EXCEPT ![d] = value],
         UNCHANGED <<serverVars, wireVars, readerVars, subVars, clientVars>>,
         \/ label \in {"lock", "close", "done"}
         \/ pc[d] = "idle" /\ label = "notify"
         \/ pc[d] = "notify" /\ label = "write" /\ state = "connected"
  PROVE  StreamsInv'
<1>0. CoreType /\ WireInv /\ WireFaithful /\ SubsInv /\ SendInv /\ ControlInv BY Parts
<1>1. /\ CoreType' /\ pc'[d] = label
      /\ \A p \in Procs : p # d => pc'[p] = pc[p]
      /\ pc'["reader"] = pc["reader"] /\ pc'["closer"] = pc["closer"]
  <2>1. asked' \subseteq Senders BY <1>0 DEF CoreType
  <2> QED BY <1>0, <2>1, SenderMoves
<1>2. WireInv' /\ WireFaithful' BY <1>0, WireStays
<1>3. SubsInv' BY <1>0, SubsStay
<1>4. \A r \in Senders : \/ pc'[r] = pc[r] \/ pc'[r] \in {"lock", "fail", "close", "done"}
                         \/ pc[r] = "idle" /\ pc'[r] = "notify"
                         \/ pc[r] = "notify" /\ pc'[r] = "write"
  BY <1>1, ProcFacts
<1>5. SendInv' BY <1>0, <1>4, SendStays DEF CoreType
<1>6. \A p \in Procs : pc'[p] = "fail" => pc[p] = "fail" BY <1>1
<1>7. \A r \in Senders : pc'[r] \in {"write", "wait"} => pc[r] \in {"write", "wait"} \/ state = "connected"
  BY <1>1, ProcFacts
<1>8. ControlInv' BY <1>0, <1>1, <1>6, <1>7, ControlStays DEF ControlInv
<1> QED BY <1>1, <1>2, <1>3, <1>5, <1>8, Parts, PTL

LEMMA SendRefusedKeeps ==
  ASSUME StreamsInv, NEW d \in Senders, SendRefused(d)
  PROVE  StreamsInv'
<1>1. "done" \in Labels /\ "option" \in Returned BY DEF Labels, Returned
<1> QED BY <1>1, SenderStepKeeps DEF SendRefused, Returns

LEMMA SendNoReplyKeeps ==
  ASSUME StreamsInv, NEW d \in Senders, SendNoReply(d)
  PROVE  StreamsInv'
<1>1. "notify" \in Labels /\ "option" \in Returned BY DEF Labels, Returned
<1> QED BY <1>1, SenderStepKeeps DEF SendNoReply

LEMMA NotifyKeeps ==
  ASSUME StreamsInv, NEW d \in Senders, Notify(d)
  PROVE  StreamsInv'
<1>1. /\ "write" \in Labels /\ "close" \in Labels /\ "closed" \in Returned /\ "disconnected" \in Returned
  BY DEF Labels, Returned, Causes
<1>2. UNCHANGED <<serverVars, wireVars, readerVars, subVars, clientVars>> /\ pc[d] = "notify" BY DEF Notify
<1>3. CASE state = "connected" /\ ~closed
  <2>1. pc' = [pc EXCEPT ![d] = "write"] /\ ret' = ret BY <1>3 DEF Notify
  <2> QED BY <1>1, <1>2, <1>3, <2>1, SenderStepKeeps
<1>4. CASE ~(state = "connected" /\ ~closed)
  <2>1. PICK value \in Returned : ret' = [ret EXCEPT ![d] = value] BY <1>1, <1>4 DEF Notify, Returns
  <2>2. pc' = [pc EXCEPT ![d] = "close"] BY <1>4 DEF Notify
  <2> QED BY <1>1, <1>2, <2>1, <2>2, SenderStepKeeps
<1> QED BY <1>3, <1>4

LEMMA WriteFailsKeeps ==
  ASSUME StreamsInv, NEW d \in Senders, WriteFails(d)
  PROVE  StreamsInv'
<1>1. "lock" \in Labels /\ "write_error" \in Returned BY DEF Labels, Returned
<1> QED BY <1>1, SenderStepKeeps DEF WriteFails, Returns

LEMMA SendContextEndsKeeps ==
  ASSUME StreamsInv, NEW d \in Senders, SendContextEnds(d)
  PROVE  StreamsInv'
<1>1. "close" \in Labels /\ "context" \in Returned BY DEF Labels, Returned
<1> QED BY <1>1, SenderStepKeeps DEF SendContextEnds, Returns

LEMMA SendKeeps ==
  ASSUME StreamsInv, NEW d \in Senders, Send(d)
  PROVE  StreamsInv'
<1>0. CoreType /\ WireInv /\ WireFaithful /\ SubsInv /\ SendInv /\ ControlInv BY Parts
<1>1. /\ pc[d] = "idle" /\ Register(d) /\ pc' = [pc EXCEPT ![d] = "notify"]
      /\ UNCHANGED <<turns, serverVars, wireVars, readerVars, clientVars, ret>>
  BY DEF Send
<1>2. d \in Subs /\ from[d] = -1 /\ d \notin asked /\ answer[d] = 0 BY <1>0, <1>1, ProcFacts DEF SendInv
<1>3. SubsInv' BY <1>0, <1>1, <1>2, RegisterKeeps
<1>4. /\ CoreType' /\ pc'[d] = "notify"
      /\ \A p \in Procs : p # d => pc'[p] = pc[p]
      /\ pc'["reader"] = pc["reader"] /\ pc'["closer"] = pc["closer"]
  <2>1. asked' \subseteq Senders /\ "notify" \in Labels /\ "option" \in Returned
    BY <1>0, <1>1 DEF CoreType, Labels, Returned
  <2> QED BY <1>0, <1>1, <2>1, SenderMoves
<1>5. WireInv' /\ WireFaithful' BY <1>0, <1>1, WireStays
<1>6. SendInv'
  <2>1. got[d] = <<>> BY <1>0, <1>2 DEF SubsInv, RegistryInv
  <2>2. got' = got /\ \A r \in Senders : r # d => from'[r] = from[r]
    BY <1>0, <1>1, ProcFacts DEF Register, SubsInv, SubsType
  <2>3. \A r \in Senders : r # d => pc'[r] = pc[r] BY <1>4, ProcFacts
  <2> QED BY <1>0, <1>1, <1>2, <1>4, <2>1, <2>2, <2>3 DEF SendInv
<1>7. ControlInv'
  <2>1. (closed => subs' = subs) /\ \A r \in Senders : r # d /\ r \in subs' => r \in subs BY <1>1 DEF Register
  <2>2. \A r \in Senders : r # d => pc'[r] = pc[r] BY <1>4, ProcFacts
  <2>3. \A p \in Procs : pc'[p] = "fail" => pc[p] = "fail" BY <1>4
  <2>4. \A r \in Senders : pc'[r] \in {"write", "wait"} /\ r \in subs' => pc[r] \in {"write", "wait"} /\ r \in subs
    BY <1>4, <2>1, <2>2
  <2> QED BY <1>0, <1>1, <1>4, <2>1, <2>3, <2>4, ControlStays DEF ControlInv
<1> QED BY <1>3, <1>4, <1>5, <1>6, <1>7, Parts, PTL

LEMMA WriteKeeps ==
  ASSUME StreamsInv, NEW d \in Senders, Write(d)
  PROVE  StreamsInv'
<1>0. CoreType /\ WireInv /\ WireFaithful /\ SubsInv /\ SendInv /\ ControlInv BY Parts
<1>1. PICK label \in Labels, value \in Returned :
        /\ pc' = [pc EXCEPT ![d] = label] /\ (ret' = ret \/ ret' = [ret EXCEPT ![d] = value])
        /\ label = "done" \/ (label = "wait" /\ from[d] # -1)
  BY DEF Write, Returns, Labels, Returned
<1>2. /\ pc[d] = "write" /\ asked' = asked \cup {d}
      /\ UNCHANGED <<script, sent, answer, wireVars, readerVars, subVars, clientVars>>
  BY DEF Write
<1>3. /\ CoreType' /\ pc'[d] = label
      /\ \A p \in Procs : p # d => pc'[p] = pc[p]
      /\ pc'["reader"] = pc["reader"] /\ pc'["closer"] = pc["closer"]
  <2>1. asked' \subseteq Senders BY <1>0, <1>2 DEF CoreType
  <2> QED BY <1>0, <1>1, <1>2, <2>1, SenderMoves
<1>4. WireInv' /\ WireFaithful' BY <1>0, <1>2, WireStays
<1>5. SubsInv' BY <1>0, <1>2, SubsStay
<1>6. \A r \in Senders : r # d => pc'[r] = pc[r] BY <1>3, ProcFacts
<1>7. SendInv'
  <2>1. got[d] = <<>> BY <1>0, <1>2 DEF SendInv
  <2>2. \A i \in 1..Len(got[d]) : FALSE BY <2>1
  <2> QED BY <1>0, <1>1, <1>2, <1>3, <1>6, <2>2 DEF SendInv
<1>8. ControlInv'
  <2>1. \A p \in Procs : pc'[p] = "fail" => pc[p] = "fail" BY <1>1, <1>3
  <2>2. \A r \in Senders : pc'[r] \in {"write", "wait"} => pc[r] \in {"write", "wait"} BY <1>2, <1>6
  <2> QED BY <1>0, <1>2, <1>3, <2>1, <2>2, ControlStays DEF ControlInv
<1> QED BY <1>3, <1>4, <1>5, <1>7, <1>8, Parts, PTL

(* Send goes on waiting only after an event that is no acceptance. *)
LEMMA SendNextKeeps ==
  ASSUME StreamsInv, NEW d \in Senders, SendNext(d)
  PROVE  StreamsInv'
<1>0. CoreType /\ WireInv /\ WireFaithful /\ SubsInv /\ SendInv /\ ControlInv BY Parts
<1>1. /\ pc[d] = "wait"
      /\ UNCHANGED <<serverVars, wireVars, readerVars, subs, turns, shut, cause, from, quit, clientVars>>
  BY DEF SendNext
<1>2. d \in Subs /\ from[d] # -1 BY <1>0, <1>1, ProcFacts DEF SendInv
<1>3. NextEvent(d) \/ NextError(d) BY DEF SendNext
<1>4. SubsInv' BY <1>0, <1>1, <1>2, <1>3, NextEventKeeps, NextErrorKeeps
<1>5. pc = [pc EXCEPT ![d] = "wait"] BY <1>0, <1>1 DEF CoreType
<1>6. NextError(d) => result'[d] \in Returned
  BY <1>2, <1>4 DEF SubsInv, SubsType, Returned
<1>7. PICK label \in Labels, value \in Returned :
        /\ pc' = [pc EXCEPT ![d] = label] /\ (ret' = ret \/ ret' = [ret EXCEPT ![d] = value])
        /\ \/ label = "close"
           \/ label = "wait" /\ NextEvent(d) /\ sent[Head(events[d])].kind # "message_accepted"
  <2>1. "close" \in Labels /\ "wait" \in Labels /\ "accepted" \in Returned /\ "rejected" \in Returned
    BY DEF Labels, Returned
  <2>2. CASE NextError(d) /\ pc' = [pc EXCEPT ![d] = "close"] /\ ret' = [ret EXCEPT ![d] = result'[d]]
    BY <1>6, <2>1, <2>2
  <2>3. CASE /\ NextEvent(d)
             /\ LET kind == sent[Head(events[d])].kind
                IN  IF kind = "message_accepted" THEN Goto(d, "close") /\ Returns(d, "accepted")
                    ELSE IF kind = "error" THEN Goto(d, "close") /\ Returns(d, "rejected")
                    ELSE UNCHANGED <<pc, ret>>
    BY <1>5, <2>1, <2>3 DEF Returns
  <2> QED BY <2>2, <2>3 DEF SendNext, Returns
<1>8. /\ CoreType' /\ pc'[d] = label
      /\ \A p \in Procs : p # d => pc'[p] = pc[p]
      /\ pc'["reader"] = pc["reader"] /\ pc'["closer"] = pc["closer"]
  <2>1. asked' \subseteq Senders BY <1>0, <1>1 DEF CoreType
  <2> QED BY <1>0, <1>1, <1>7, <2>1, SenderMoves
<1>9. WireInv' /\ WireFaithful' BY <1>0, <1>1, WireStays
<1>10. \A r \in Senders : r # d => pc'[r] = pc[r] BY <1>8, ProcFacts
<1>11. SendInv'
  <2>1. \A r \in Senders : r # d => got'[r] = got[r]
    BY <1>0, <1>3, ProcFacts DEF NextEvent, NextError, SubsInv, SubsType
  <2>2. pc'[d] = "wait" => \A i \in 1..Len(got'[d]) : sent[got'[d][i]].kind # "message_accepted"
    <3> SUFFICES ASSUME label = "wait" PROVE \A i \in 1..Len(got'[d]) : sent[got'[d][i]].kind # "message_accepted"
      BY <1>8
    <3>1. NextEvent(d) /\ sent[Head(events[d])].kind # "message_accepted" BY <1>7
    <3>2. got[d] \in Seq(Indices) /\ events[d] \in Seq(Indices) /\ events[d] # <<>>
      BY <1>0, <1>2, <3>1 DEF SubsInv, SubsType, NextEvent
    <3>3. PICK x \in Indices : x = Head(events[d]) BY <3>2, HeadTailProperties
    <3>4. got'[d] = Append(got[d], x) BY <1>0, <1>2, <3>1, <3>3 DEF SubsInv, SubsType, NextEvent
    <3>5. PICK n \in Nat : n = Len(got[d]) BY <3>2
    <3>6. Len(got'[d]) = n + 1 /\ got'[d][n + 1] = x /\ \A i \in 1..n : got'[d][i] = got[d][i]
      BY <3>2, <3>4, <3>5, AppendProperties
    <3>7. \A i \in 1..n : sent[got[d][i]].kind # "message_accepted" BY <1>0, <1>1, <3>5 DEF SendInv
    <3>8. \A i \in 1..(n + 1) : i \in 1..n \/ i = n + 1 OBVIOUS
    <3> QED BY <3>1, <3>3, <3>6, <3>7, <3>8
  <2>3. pc'[d] \in {"close", "wait"} BY <1>7, <1>8
  <2> QED BY <1>0, <1>1, <1>2, <1>10, <2>1, <2>2, <2>3 DEF SendInv
<1>12. ControlInv'
  <2>1. \A p \in Procs : pc'[p] = "fail" => pc[p] = "fail" BY <1>7, <1>8
  <2>2. \A r \in Senders : pc'[r] \in {"write", "wait"} => pc[r] \in {"write", "wait"} BY <1>1, <1>10
  <2> QED BY <1>0, <1>1, <1>8, <2>1, <2>2, ControlStays DEF ControlInv
<1> QED BY <1>4, <1>8, <1>9, <1>11, <1>12, Parts, PTL

LEMMA SendEndsKeeps ==
  ASSUME StreamsInv, NEW d \in Senders, SendEnds(d)
  PROVE  StreamsInv'
<1>0. CoreType /\ WireInv /\ WireFaithful /\ SubsInv /\ SendInv /\ ControlInv BY Parts
<1>1. /\ Unsubscribe(d) /\ pc' = [pc EXCEPT ![d] = "done"]
      /\ UNCHANGED <<serverVars, wireVars, readerVars, events, result, clientVars, ret>>
  BY DEF SendEnds
<1>2. d \in Subs BY ProcFacts
<1>3. SubsInv' /\ subs' \subseteq subs BY <1>0, <1>1, <1>2, UnsubscribeKeeps
<1>4. /\ CoreType' /\ pc'[d] = "done"
      /\ \A p \in Procs : p # d => pc'[p] = pc[p]
      /\ pc'["reader"] = pc["reader"] /\ pc'["closer"] = pc["closer"]
  <2>1. asked' \subseteq Senders /\ "done" \in Labels /\ "option" \in Returned
    BY <1>0, <1>1 DEF CoreType, Labels, Returned
  <2> QED BY <1>0, <1>1, <2>1, SenderMoves
<1>5. WireInv' /\ WireFaithful' BY <1>0, <1>1, WireStays
<1>6. UNCHANGED <<from, got>> BY <1>1 DEF Unsubscribe
<1>7. \A r \in Senders : pc'[r] = pc[r] \/ pc'[r] = "done" BY <1>4, ProcFacts
<1>8. SendInv' BY <1>0, <1>1, <1>6, <1>7, SendStays DEF CoreType
<1>9. ControlInv'
  <2>1. \A p \in Procs : pc'[p] = "fail" => pc[p] = "fail" BY <1>4
  <2>2. \A r \in Senders : pc'[r] \in {"write", "wait"} => pc[r] \in {"write", "wait"} BY <1>7
  <2> QED BY <1>0, <1>1, <1>3, <1>4, <2>1, <2>2, ControlStays DEF ControlInv
<1> QED BY <1>3, <1>4, <1>5, <1>8, <1>9, Parts, PTL

-----------------------------------------------------------------------------
(* closeWith *)

LEMMA CloserMoves ==
  ASSUME CoreType, NEW label \in Labels, pc' = [pc EXCEPT !["closer"] = label]
  PROVE  /\ pc' \in [Procs -> Labels] /\ pc'["closer"] = label /\ pc'["reader"] = pc["reader"]
         /\ \A p \in Procs : p # "closer" => pc'[p] = pc[p]
         /\ \A d \in Senders : pc'[d] = pc[d]
<1>1. pc \in [Procs -> Labels] /\ "closer" \in Procs BY ProcFacts DEF CoreType, Labels
<1>2. \A p \in Procs : p # "closer" => pc'[p] = pc[p] BY <1>1
<1> QED BY <1>1, <1>2, ProcFacts

LEMMA CloseBeginsKeeps ==
  ASSUME StreamsInv, CloseBegins
  PROVE  StreamsInv'
<1>0. CoreType /\ WireInv /\ WireFaithful /\ SubsInv /\ SendInv /\ ControlInv BY Parts
<1>1. /\ state' = "closing" /\ pc' = [pc EXCEPT !["closer"] = "signal"]
      /\ UNCHANGED <<closed, mu, serverVars, wireVars, readerVars, subVars, ret>>
  BY DEF CloseBegins
<1>2. /\ pc' \in [Procs -> Labels] /\ pc'["closer"] = "signal" /\ pc'["reader"] = pc["reader"]
      /\ \A p \in Procs : p # "closer" => pc'[p] = pc[p]
      /\ \A d \in Senders : pc'[d] = pc[d]
  <2>1. "signal" \in Labels BY DEF Labels
  <2> QED BY <1>0, <1>1, <2>1, CloserMoves
<1>3. CoreType' BY <1>0, <1>1, <1>2 DEF CoreType, Labels
<1>4. WireInv' /\ WireFaithful' BY <1>0, <1>1, WireStays
<1>5. SubsInv' BY <1>0, <1>1, SubsStay
<1>6. SendInv' BY <1>0, <1>1, <1>2, SendStays DEF CoreType
<1>7. ControlInv' BY <1>0, <1>1, <1>2 DEF ControlInv
<1> QED BY <1>3, <1>4, <1>5, <1>6, <1>7, Parts, PTL

LEMMA CloseSignalKeeps ==
  ASSUME StreamsInv, CloseSignal
  PROVE  StreamsInv'
<1>0. CoreType /\ WireInv /\ WireFaithful /\ SubsInv /\ SendInv /\ ControlInv BY Parts
<1>1. /\ closed' = TRUE /\ CloseSubscribers(subs, "closed") /\ pc' = [pc EXCEPT !["closer"] = "last"]
      /\ local' = TRUE /\ end' \in {end, "reset"} /\ UNCHANGED wire
      /\ UNCHANGED <<state, mu, serverVars, readerVars, turns, events, from, got, result, quit, ret>>
  BY DEF CloseSignal, CloseTransport
<1>2. /\ pc' \in [Procs -> Labels] /\ pc'["closer"] = "last" /\ pc'["reader"] = pc["reader"]
      /\ \A p \in Procs : p # "closer" => pc'[p] = pc[p]
      /\ \A d \in Senders : pc'[d] = pc[d]
  <2>1. "last" \in Labels BY DEF Labels
  <2> QED BY <1>0, <1>1, <2>1, CloserMoves
<1>3. CoreType'
  <2>1. closed' \in BOOLEAN /\ local' \in BOOLEAN BY <1>1
  <2>2. end' \in {"open", "eof", "reset"} BY <1>0, <1>1 DEF CoreType
  <2> QED BY <1>0, <1>1, <1>2, <2>1, <2>2 DEF CoreType, Labels
<1>4. WireInv' /\ WireFaithful' BY <1>0, <1>1, WireStays
<1>5. SubsInv'
  <2>1. quit' = quit /\ quit \subseteq Subs BY <1>0, <1>1 DEF SubsInv, SubsType
  <2>2. "closed" \in Causes \cup {None} /\ "closed" # None BY DEF Causes, None
  <2> QED BY <1>0, <1>1, <2>1, <2>2, CloseSubscribersKeeps
<1>6. SendInv' BY <1>0, <1>1, <1>2, SendStays DEF CoreType
<1>7. ControlInv'
  <2>1. subs' = {} BY <1>1 DEF CloseSubscribers
  <2>2. \A p \in Procs : pc'[p] = "fail" => pc[p] = "fail" BY <1>2
  <2> QED BY <1>0, <1>1, <1>2, <2>1, <2>2 DEF ControlInv
<1> QED BY <1>3, <1>4, <1>5, <1>6, <1>7, Parts, PTL

LEMMA CloseLastKeeps ==
  ASSUME StreamsInv, CloseLast
  PROVE  StreamsInv'
<1>0. CoreType /\ WireInv /\ WireFaithful /\ SubsInv /\ SendInv /\ ControlInv BY Parts
<1>1. /\ pc["closer"] = "last" /\ state' = "closed" /\ pc' = [pc EXCEPT !["closer"] = "done"]
      /\ UNCHANGED <<closed, mu, serverVars, wireVars, readerVars, subVars, ret>>
  BY DEF CloseLast
<1>2. /\ pc' \in [Procs -> Labels] /\ pc'["closer"] = "done" /\ pc'["reader"] = pc["reader"]
      /\ \A p \in Procs : p # "closer" => pc'[p] = pc[p]
      /\ \A d \in Senders : pc'[d] = pc[d]
  <2>1. "done" \in Labels BY DEF Labels
  <2> QED BY <1>0, <1>1, <2>1, CloserMoves
<1>3. CoreType' BY <1>0, <1>1, <1>2 DEF CoreType, Labels
<1>4. WireInv' /\ WireFaithful' BY <1>0, <1>1, WireStays
<1>5. SubsInv' BY <1>0, <1>1, SubsStay
<1>6. SendInv' BY <1>0, <1>1, <1>2, SendStays DEF CoreType
<1>7. ControlInv'
  <2>1. closed /\ subs = {} BY <1>0, <1>1 DEF ControlInv
  <2> QED BY <1>0, <1>1, <1>2, <2>1 DEF ControlInv
<1> QED BY <1>3, <1>4, <1>5, <1>6, <1>7, Parts, PTL

-----------------------------------------------------------------------------
(* The theorems *)

LEMMA InitInv == Init => StreamsInv
<1> SUFFICES ASSUME Init PROVE StreamsInv
  OBVIOUS
<1> USE DEF Init
<1>1. Len(sent) = 0 /\ Len(log) = 0 /\ Len(wire) = 0 /\ \A s \in Subs : events[s] = <<>> /\ got[s] = <<>> OBVIOUS
<1>2. CoreType
  <2>1. script \in Seq(Frames) BY ScriptsAssumption
  <2>2. answer \in [Senders -> 0..Len(sent)] /\ read \in 0..Len(sent) BY <1>1
  <2>3. local \in BOOLEAN /\ closed \in BOOLEAN /\ mu \in BOOLEAN OBVIOUS
  <2>4. wire \in Seq(Bytes) /\ sent \in Seq(Frames) OBVIOUS
  <2> QED BY <2>1, <2>2, <2>3, <2>4 DEF CoreType
<1>3. SubsType
  <2>1. events \in [Subs -> Seq(Indices)] /\ got \in [Subs -> Seq(Indices)] /\ log \in Seq(Indices) OBVIOUS
  <2>2. \A s \in Subs : Len(events[s]) <= Capacity(s) BY <1>1, EventBufferAssumption DEF Capacity
  <2>3. from \in [Subs -> -1..Len(log)] BY <1>1
  <2> QED BY <2>1, <2>2, <2>3 DEF SubsType
<1>4. RegistryInv BY <1>1 DEF RegistryInv, None
<1>5. StreamsContiguous BY DEF StreamsContiguous
<1>6. NextTellsCause BY DEF NextTellsCause, None
<1>7. WireInv BY <1>1 DEF WireInv
<1>8. WireFaithful BY <1>1 DEF WireFaithful, Indices, None, Fatal
<1>9. \A d \in Senders : pc[d] = "idle" /\ from[d] = -1 BY ProcFacts
<1>10. SendInv BY <1>9 DEF SendInv
<1>11. ControlInv BY <1>9, ProcFacts DEF ControlInv, None, Fatal
<1> QED BY <1>2, <1>3, <1>4, <1>5, <1>6, <1>7, <1>8, <1>10, <1>11, Parts DEF SubsInv

LEMMA StutterInv ==
  ASSUME StreamsInv, UNCHANGED vars
  PROVE  StreamsInv'
<1>0. CoreType /\ WireInv /\ WireFaithful /\ SubsInv /\ SendInv /\ ControlInv BY Parts
<1>1. UNCHANGED <<serverVars, wireVars, readerVars, subVars, clientVars, pc, ret>> BY DEF vars
<1>2. CoreType' BY <1>0, <1>1 DEF CoreType
<1>3. WireInv' /\ WireFaithful' BY <1>0, <1>1, WireStays
<1>4. SubsInv' BY <1>0, <1>1, SubsStay
<1>5. SendInv' BY <1>0, <1>1, SendStays DEF CoreType
<1>6. ControlInv' BY <1>0, <1>1, ControlStays DEF ControlInv
<1> QED BY <1>2, <1>3, <1>4, <1>5, <1>6, Parts, PTL

LEMMA NextInv == StreamsInv /\ [Next]_vars => StreamsInv'
<1> SUFFICES ASSUME StreamsInv, [Next]_vars PROVE StreamsInv'
  OBVIOUS
<1>1. CASE Peer
  BY <1>1, ServerSendsKeeps, ServerAcceptsKeeps, NetworkEndsKeeps DEF Peer
<1>2. CASE Reader BY <1>2, ReadEventKeeps, ReadFailsKeeps DEF Reader
<1>3. ASSUME NEW p \in Procs, Disconnect(p) \/ DisconnectEnds(p) PROVE StreamsInv'
  BY <1>3, DisconnectKeeps, DisconnectEndsKeeps
<1>4. ASSUME NEW s \in Consumers, Consumer(s) PROVE StreamsInv'
  BY <1>4, SubscribeKeeps, SubscriptionNextKeeps, CloseSubscriptionKeeps DEF Consumer
<1>5. ASSUME NEW d \in Senders, SendRefused(d) \/ SendNoReply(d) \/ Send(d) \/ SendContextEnds(d) PROVE StreamsInv'
  BY <1>5, SendRefusedKeeps, SendNoReplyKeeps, SendKeeps, SendContextEndsKeeps
<1>6. ASSUME NEW d \in Senders, Sending(d) PROVE StreamsInv'
  BY <1>6, NotifyKeeps, WriteKeeps, WriteFailsKeeps, SendNextKeeps, SendEndsKeeps DEF Sending
<1>7. CASE CloseBegins BY <1>7, CloseBeginsKeeps
<1>8. CASE Closing BY <1>8, CloseSignalKeeps, CloseLastKeeps DEF Closing
<1>9. CASE UNCHANGED vars BY <1>9, StutterInv
<1> QED BY <1>1, <1>2, <1>3, <1>4, <1>5, <1>6, <1>7, <1>8, <1>9 DEF Next

(* What is on the wire, in the log, in the buffers and in the registry fits *)
(* together after every step of client.go and session.go.                   *)
THEOREM StreamsInvInvariant == Spec => []StreamsInv
<1>1. Init => StreamsInv BY InitInv
<1>2. StreamsInv /\ [Next]_vars => StreamsInv' BY NextInv
<1> QED BY <1>1, <1>2, PTL DEF Spec

(* No channel of a subscription ever holds more than its capacity, and      *)
(* every variable stays in its domain.                                      *)
THEOREM StreamTypes == Spec => []TypeOK
<1>1. StreamsInv => TypeOK BY DEF StreamsInv
<1> QED BY <1>1, StreamsInvInvariant, PTL

(* The fan-out of readLoop costs no subscription an event because of        *)
(* another one, and never sends on a closed channel.                        *)
THEOREM NoGaps == Spec => []StreamsContiguous
<1>1. StreamsInv => StreamsContiguous BY DEF StreamsInv
<1> QED BY <1>1, StreamsInvInvariant, PTL

(* Decoder.ReadFrame and readLoop deliver what the server sent, frame by    *)
(* frame, and stop with a fatal error only for a reason.                    *)
THEOREM WireIsFaithful == Spec => []WireFaithful
<1>1. StreamsInv => WireFaithful BY DEF StreamsInv
<1> QED BY <1>1, StreamsInvInvariant, PTL

(* Subscription.Next reports the cause that closed the subscription.        *)
THEOREM CauseIsTold == Spec => []NextTellsCause
<1>1. StreamsInv => NextTellsCause BY DEF StreamsInv
<1> QED BY <1>1, StreamsInvInvariant, PTL

(* An event was delivered, or is in the buffer. *)
Held(delivered, buffer, x) ==
  (\E i \in 1..Len(delivered) : delivered[i] = x) \/ (\E i \in 1..Len(buffer) : buffer[i] = x)

(* What the log has after the position of a subscription, it holds.         *)
LEMMA InBuffer ==
  ASSUME NEW S, NEW l \in Seq(S), NEW g \in Seq(S), NEW v \in Seq(S), NEW a \in Nat,
         NEW h, h = g \o v, Len(h) = Len(l) - a, h = SubSeq(l, a + 1, a + Len(h))
  PROVE  \A k \in 1..Len(l) : k > a => Held(g, v, l[k])
<1> SUFFICES ASSUME NEW k \in 1..Len(l), k > a PROVE Held(g, v, l[k])
  OBVIOUS
<1>1. PICK n \in Nat, m \in Nat, b \in Nat : n = Len(g) /\ m = Len(v) /\ b = Len(l) BY LenProperties
<1>3. /\ h \in Seq(S) /\ Len(h) = n + m
      /\ \A i \in 1..(n + m) : h[i] = IF i <= n THEN g[i] ELSE v[i - n]
  BY ONLY <1>1, ConcatProperties, h = g \o v, g \in Seq(S), v \in Seq(S)
<1>4. n + m = b - a /\ a + (n + m) = b BY <1>1, <1>3
<1>5. \A i \in (a + 1)..b : l[i] \in S
  <2>1. \A i \in (a + 1)..b : i \in 1..b OBVIOUS
  <2> QED BY ONLY <1>1, <2>1, ElementOfSeq, l \in Seq(S)
<1>6. h = SubSeq(l, a + 1, b) BY <1>1, <1>3, <1>4
<1>7. \A i \in 1..(b - (a + 1) + 1) : SubSeq(l, a + 1, b)[i] = l[(a + 1) + i - 1]
  BY ONLY <1>5, SubSeqProperties, a \in Nat, b \in Nat
<1>8. k - a \in 1..(n + m) /\ k - a \in 1..(b - (a + 1) + 1) /\ (a + 1) + (k - a) - 1 = k BY <1>1, <1>4
<1>9. h[k - a] = l[k] BY <1>6, <1>7, <1>8
<1>10. CASE k - a <= n
  <2>1. k - a \in 1..n BY <1>8, <1>10
  <2>2. g[k - a] = l[k] BY <1>3, <1>8, <1>9, <1>10
  <2> QED BY <1>1, <2>1, <2>2 DEF Held
<1>11. CASE ~(k - a <= n)
  <2>1. (k - a) - n \in 1..m BY <1>8, <1>11
  <2>2. v[(k - a) - n] = l[k] BY <1>3, <1>8, <1>9, <1>11
  <2> QED BY <1>1, <2>1, <2>2 DEF Held
<1> QED BY <1>10, <1>11

(* Session.Send subscribes before it writes: the acceptance of its message  *)
(* reaches it, and no Send waits on a closed or broken client.              *)
THEOREM SendIsNotStranded == Spec => []SendNotStranded
<1>1. StreamsInv => SendNotStranded
  <2> SUFFICES ASSUME StreamsInv, NEW d \in Senders, pc[d] = "wait", d \notin shut
               PROVE  /\ answer[d] \in 1..read => \E i \in 1..Len(events[d]) : events[d][i] = answer[d]
                      /\ ~closed /\ ~(fault \in Fatal /\ pc["reader"] = "stopped" /\ state # "closing")
    BY DEF SendNotStranded
  <2>0. CoreType /\ WireFaithful /\ SubsInv /\ SendInv /\ ControlInv BY Parts
  <2>1. d \in Subs /\ from[d] # -1 BY <2>0, ProcFacts DEF SendInv
  <2>2. d \in subs BY <2>0, <2>1 DEF SubsInv, RegistryInv
  <2>3. ~closed /\ ~(fault \in Fatal /\ pc["reader"] = "stopped" /\ state # "closing")
    BY <2>0, <2>2 DEF ControlInv
  <2>4. ASSUME answer[d] \in 1..read PROVE \E i \in 1..Len(events[d]) : events[d][i] = answer[d]
    <3>1. read \in 0..Len(sent) /\ Len(sent) \in Nat /\ log \in Seq(Indices)
      BY <2>0 DEF CoreType, SubsInv, SubsType
    <3>2. PICK x \in Nat : x = answer[d] /\ x \in Indices /\ x <= read /\ x # 0 BY <2>4, <3>1 DEF Indices
    <3>3. sent[x].kind = "message_accepted" /\ \A k \in 1..from[d] : log[k] < x BY <2>0, <3>2 DEF SendInv
    <3>4. PICK k \in 1..Len(log) : log[k] = x BY <2>0, <3>2, <3>3 DEF WireFaithful
    <3>5. PICK a \in Nat : a = from[d]
      <4>1. from[d] \in -1..Len(log) /\ Len(log) \in Nat BY <2>0, <2>1, <3>1 DEF SubsInv, SubsType
      <4> QED BY <2>1, <4>1
    <3>6. k > a
      <4>1. SUFFICES ASSUME k <= a PROVE FALSE BY <3>1
      <4>2. k \in 1..from[d] BY <3>1, <3>5, <4>1
      <4>3. log[k] < x BY <3>3, <4>2
      <4> QED BY <3>2, <3>4, <4>3
    <3>7. PICK g \in Seq(Indices), v \in Seq(Indices), l \in Seq(Indices) : g = got[d] /\ v = events[d] /\ l = log
      BY <2>0, <2>1, <3>1 DEF SubsInv, SubsType
    <3>8. Len(g \o v) = Len(l) - a /\ g \o v = SubSeq(l, a + 1, a + Len(g \o v))
      BY <2>0, <2>1, <2>2, <3>5, <3>7 DEF SubsInv, StreamsContiguous
    <3>9. k \in 1..Len(l) /\ l[k] = x BY <3>4, <3>7
    <3>10. Held(g, v, x)
      <4>1. \A j \in 1..Len(l) : j > a => Held(g, v, l[j])
        <5>1. PICK h : h = g \o v OBVIOUS
        <5>2. Len(h) = Len(l) - a BY <3>8, <5>1
        <5>3. h = SubSeq(l, a + 1, a + Len(h)) BY <3>8, <5>1
        <5> QED BY ONLY <5>1, <5>2, <5>3, InBuffer, l \in Seq(Indices), g \in Seq(Indices), v \in Seq(Indices), a \in Nat
      <4> QED BY <3>6, <3>9, <4>1
    <3>11. ~(\E i \in 1..Len(g) : g[i] = x) BY <2>0, <3>3, <3>7 DEF SendInv
    <3> QED BY <3>2, <3>7, <3>10, <3>11 DEF Held
  <2> QED BY <2>3, <2>4
<1> QED BY <1>1, StreamsInvInvariant, PTL
=============================================================================
