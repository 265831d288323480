---------------------------- MODULE StringReader ----------------------------
(***************************************************************************)
(* common/string_reader.h: a reader over a string view, as operators from  *)
(* the text that is left to the text that is left afterwards.  A text is a *)
(* sequence of characters; the classes of characters the functions tell    *)
(* apart are enough, and "http" stands for the four letters together.      *)
(***************************************************************************)
EXTENDS Naturals, SequencesExt

Space == {"space", "lf", "cr"}

Skip(s, n) == SubSeq(s, n + 1, Len(s))
SkipOne(s) == Skip(s, 1)

Offset(s, ch) == SelectInSeq(s, LAMBDA c : c = ch)      \* 0: npos

SkipSpaces(s) ==
  LET i == SelectInSeq(s, LAMBDA c : c \notin Space)
  IN  IF i = 0 THEN << >> ELSE Skip(s, i - 1)

SkipUntil(s, ch) == IF Offset(s, ch) = 0 THEN << >> ELSE Skip(s, Offset(s, ch) - 1)
SkipAfter(s, ch) == SkipOne(SkipUntil(s, ch))

(* SkipLine skips a CR that follows the LF, and no CR that precedes it *)
SkipLine(s) ==
  LET rest == SkipAfter(s, "lf")
  IN  IF rest /= << >> /\ Head(rest) = "cr" THEN SkipOne(rest) ELSE rest

(* a faulty ReadUntil, for testing the properties *)
ReadAhead(s, ch) ==
  LET i == SelectLastInSeq(s, LAMBDA c : c = ch)
  IN  IF i = 0 THEN [text |-> << >>, rest |-> << >>]
      ELSE [text |-> SubSeq(s, 1, i - 1), rest |-> Skip(s, i - 1)]

(* what is read, and what is left; without the delimiter all is skipped   *)
(* and nothing is read                                                     *)
ReadUntil(s, ch) ==
  LET i == Offset(s, ch)
  IN  IF i = 0 THEN [text |-> << >>, rest |-> << >>]
      ELSE [text |-> SubSeq(s, 1, i - 1), rest |-> Skip(s, i - 1)]

ReadToEndLine(s) ==
  LET read == ReadUntil(s, "lf") IN [read EXCEPT !.rest = SkipLine(@)]
=============================================================================
