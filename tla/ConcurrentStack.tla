-------------------------- MODULE ConcurrentStack --------------------------
(***************************************************************************)
(* What concurrency/lockfree/stack.h promises: a stack whose operations    *)
(* take effect at one instant each.  got[t] is what thread t has received: *)
(* the values popped or consumed, in order, and Empty for a TryPop that    *)
(* returned nullopt.                                                       *)
(***************************************************************************)
EXTENDS Sequences

CONSTANTS Thread, Value, Empty

VARIABLES contents, got

Init == contents = <<>> /\ got = [t \in Thread |-> <<>>]

Receive(t, s) == got' = [got EXCEPT ![t] = @ \o s]

Push(v) == contents' = <<v>> \o contents /\ UNCHANGED got

Pop(t) ==
  /\ contents /= <<>>
  /\ Receive(t, <<Head(contents)>>)
  /\ contents' = Tail(contents)

PopEmpty(t) ==
  /\ contents = <<>>
  /\ Receive(t, <<Empty>>)
  /\ UNCHANGED contents

ConsumeAll(t) == Receive(t, contents) /\ contents' = <<>>

(* the destructor throws the rest away *)
Destroy == contents' = <<>> /\ UNCHANGED got

Next ==
  \/ \E v \in Value : Push(v)
  \/ \E t \in Thread : Pop(t) \/ PopEmpty(t) \/ ConsumeAll(t)
  \/ Destroy

Spec == Init /\ [][Next]_<<contents, got>>
=============================================================================
