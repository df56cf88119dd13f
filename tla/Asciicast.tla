----------------------------- MODULE Asciicast -----------------------------
(***************************************************************************)
(* A recording as an asciicast: what asciicast() of asciicast.py does with *)
(* the events of a recording, and what the cast must say of them.          *)
(*                                                                         *)
(* Bytes are told apart as far as a decoder does: one that is a character, *)
(* the first half of one, and its second half.  Layout and the header are  *)
(* left out, and so are resizes: the recorder of this package writes none. *)
(***************************************************************************)
EXTENDS Integers, SequencesExt

Byte == {"a", "lead", "rest"}

\* What is shown: a character, the one of two bytes, and one that stands for
\* bytes that are none.
Char == {"a", "e", "?"}

\* CODES, without the resize.
Kind == {"out", "in"}

\* An event: what kind, its bytes, and when, in microseconds.
Event == [kind : Kind, bytes : Seq(Byte), time : Nat]

-----------------------------------------------------------------------------
(* The incremental decoder: `held` is whether it keeps a first half.       *)

Decode(held, byte) ==
  CASE byte = "lead" -> [text |-> IF held THEN <<"?">> ELSE <<>>, held |-> TRUE]
    [] byte = "rest" -> [text |-> IF held THEN <<"e">> ELSE <<"?">>, held |-> FALSE]
    [] byte = "a"    -> [text |-> IF held THEN <<"?", "a">> ELSE <<"a">>, held |-> FALSE]

\* One byte more: what the decoder has told so far, and what it holds.
Feeds(decoder, byte) ==
  LET one == Decode(decoder.held, byte) IN
    [text |-> decoder.text \o one.text, held |-> one.held]

Decoding(held, bytes) ==
  LET after[n \in 0..Len(bytes)] ==
        IF n = 0 THEN [text |-> <<>>, held |-> held]
        ELSE Feeds(after[n - 1], bytes[n])
  IN after

DecodePiece(held, bytes) == Decoding(held, bytes)[Len(bytes)]

\* mutation: one decoder for both directions
TheOnly(kind) == Kind

\* Whose decoder a piece of a kind goes through.
TheDecoderOf(kind) == {kind}

-----------------------------------------------------------------------------
(* The lines.                                                              *)

\* round(seconds * 1000): to the nearest, and from a half to the even one.
Millis(micros) ==
  LET q == micros \div 1000
      r == micros % 1000
  IN IF r > 500 \/ (r = 500 /\ q % 2 = 1) THEN q + 1 ELSE q

\* Only a line does: version 3 counts from the line before.
MovesOn(text) == text # <<>>

\* One turn of the loop: the decoder, and a line if there is text.
Line(cast, event) ==
  LET piece == DecodePiece(cast.held[event.kind], event.bytes)
      now == Millis(event.time)
  IN [held |-> [k \in Kind |-> IF k \in TheDecoderOf(event.kind)
                                 THEN piece.held ELSE cast.held[k]],
      previous |-> IF MovesOn(piece.text) THEN now ELSE cast.previous,
      lines |-> IF piece.text = <<>> THEN cast.lines
                ELSE Append(cast.lines,
                            [time2 |-> now, time3 |-> now - cast.previous,
                             kind |-> event.kind, text |-> piece.text])]

NewCast == [held |-> [k \in Kind |-> FALSE], previous |-> 0, lines |-> <<>>]

Casting(events) ==
  LET after[n \in 0..Len(events)] ==
        IF n = 0 THEN NewCast ELSE Line(after[n - 1], events[n])
  IN after

Cast(events) == Casting(events)[Len(events)].lines

-----------------------------------------------------------------------------
(* What a cast says.                                                       *)

TextOf(lines, kind) ==
  FlattenSeq([i \in 1..Len(lines) |->
                IF lines[i].kind = kind THEN lines[i].text ELSE <<>>])

BytesOf(events, kind) ==
  FlattenSeq([i \in 1..Len(events) |->
                IF events[i].kind = kind THEN events[i].bytes ELSE <<>>])

\* The text of bytes that are all there, wherever reads cut them: each byte
\* tells with its neighbour what it stands for.  A first half at the very end
\* stands for nothing yet.
TextAt(bytes, i) ==
  LET before == i > 1 /\ bytes[i - 1] = "lead"
      after  == IF i < Len(bytes) THEN bytes[i + 1] ELSE "none"
  IN CASE bytes[i] = "a"    -> <<"a">>
       [] bytes[i] = "lead" -> IF after = "rest" THEN <<"e">>
                               ELSE IF after = "none" THEN <<>> ELSE <<"?">>
       [] bytes[i] = "rest" -> IF before THEN <<>> ELSE <<"?">>

WholeText(bytes) == FlattenSeq([i \in 1..Len(bytes) |-> TextAt(bytes, i)])

\* Where a player of version 3 is after each line.
Played(lines) ==
  LET after[n \in 0..Len(lines)] ==
        IF n = 0 THEN 0 ELSE after[n - 1] + lines[n].time3
  IN after

\* A player of either version is at the same time at each line, and that is
\* when it happened, to the millisecond.
TimesAgree(lines) ==
  \A n \in 1..Len(lines) : Played(lines)[n] = lines[n].time2
=============================================================================
