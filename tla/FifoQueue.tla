----------------------------- MODULE FifoQueue -----------------------------
(***************************************************************************)
(* What concurrency/lockfree/queue.h promises: a queue whose operations    *)
(* take effect at one instant each.  out is what the calls of Take have    *)
(* returned, Empty for nullopt.                                            *)
(***************************************************************************)
EXTENDS Sequences

CONSTANTS Value, Empty

VARIABLES contents, out

Init == contents = <<>> /\ out = <<>>

Put(v) == contents' = Append(contents, v) /\ UNCHANGED out

Take ==
  /\ contents /= <<>>
  /\ out' = Append(out, Head(contents))
  /\ contents' = Tail(contents)

TakeEmpty ==
  /\ contents = <<>>
  /\ out' = Append(out, Empty)
  /\ UNCHANGED contents

Next == (\E v \in Value : Put(v)) \/ Take \/ TakeEmpty

Spec == Init /\ [][Next]_<<contents, out>>
=============================================================================
