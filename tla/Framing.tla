------------------------------ MODULE Framing -------------------------------
(***************************************************************************)
(* NDJSON frames (protocol/framing.go): what Decoder.ReadFrame makes of the *)
(* bytes that arrive.                                                      *)
(*                                                                         *)
(* A byte is a record: c is what the framing can tell apart (the braces    *)
(* "lbrace" and "rbrace", "lbracket", any other "x", "CR", "LF") and n the *)
(* frame it belongs to, which stands for its content.                      *)
(***************************************************************************)
EXTENDS Integers, Sequences

CONSTANT MaxSize    \* of the Decoder and the Encoder, no limit if it is not positive; a client keeps
                    \* the default of 1 MiB unless Options.MaxFrameSize is positive

ASSUME MaxSizeAssumption == MaxSize \in Int

Bytes == [c : {"lbrace", "rbrace", "lbracket", "x", "CR", "LF"}, n : Nat]

LineEnds(wire) == {i \in 1..Len(wire) : wire[i].c = "LF"}
HasLine(wire) == LineEnds(wire) # {}

(* bufio.Reader.ReadBytes: up to the first LF, or all there is at an error. *)
ReadBytes(wire) ==
  IF HasLine(wire)
  THEN SubSeq(wire, 1, CHOOSE i \in LineEnds(wire) : \A j \in LineEnds(wire) : i <= j)
  ELSE wire

TrimSuffix(line, c) ==
  IF line # <<>> /\ line[Len(line)].c = c THEN SubSeq(line, 1, Len(line) - 1) ELSE line

(* json.Unmarshal into a map, with an object as its result: a frame cut     *)
(* short is no object.                                                      *)
IsObject(line) == Len(line) >= 2 /\ line[1].c = "lbrace" /\ line[Len(line)].c = "rbrace"

Exceeds(size, limit) == MaxSize > 0 /\ size > limit

-----------------------------------------------------------------------------
(* The bytes of the frame, and what the reader has left after it. *)
ReadFrame(wire) == TrimSuffix(TrimSuffix(ReadBytes(wire), "LF"), "CR")
Rest(wire) == SubSeq(wire, Len(ReadBytes(wire)) + 1, Len(wire))

(* A mutation of LineTooLong: the line ending is counted as content. *)
LineTooLongStrict(wire) == Exceeds(Len(ReadBytes(wire)), MaxSize)

(* The first comparison, before the error of the read is looked at and the  *)
(* line ending trimmed.                                                     *)
LineTooLong(wire) == Exceeds(Len(ReadBytes(wire)), MaxSize + 1)

(* How ReadFrame returns. *)
ReadStatus(wire, end) ==
  LET line == ReadFrame(wire)
  IN  IF LineTooLong(wire) THEN "too_large"
      ELSE IF ~HasLine(wire) /\ end = "reset" THEN "reset"
      ELSE IF wire = <<>> THEN "eof"
      ELSE IF line = <<>> THEN "malformed"
      ELSE IF Exceeds(Len(line), MaxSize) THEN "too_large"
      ELSE IF IsObject(line) THEN "frame" ELSE "malformed"
=============================================================================
