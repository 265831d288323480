--------------------------- MODULE SequenceFacts ---------------------------
(* What pushing, popping, joining and reversing lists of distinct elements *)
(* does to the sets of their elements.  Cited by the proofs about queues.  *)
EXTENDS SequencesExt, SequenceTheorems, TLAPS

(* The empty list holds nothing. *)
LEMMA EmptyFacts ==
  /\ ToSet(<<>>) = {}
  /\ IsInjective(<<>>)
BY DEF ToSet, IsInjective

(* What a list holds is what it is a list of. *)
LEMMA ToSetMember ==
  ASSUME NEW S, NEW s \in Seq(S), NEW x \in ToSet(s)
  PROVE  x \in S
<1>1. DOMAIN s = 1..Len(s)
  BY LenProperties
<1>2. QED BY <1>1, ElementOfSeq DEF ToSet

(* A list is empty exactly when it holds nothing. *)
LEMMA EmptyIffNone ==
  ASSUME NEW S, NEW s \in Seq(S)
  PROVE  ToSet(s) = {} <=> s = <<>>
<1>1. CASE s = <<>>
  BY <1>1, EmptyFacts
<1>2. CASE s /= <<>>
  <2>1. 1 \in DOMAIN s
    BY <1>2, LenProperties, EmptySeq
  <2>2. QED BY <1>2, <2>1 DEF ToSet
<1>3. QED BY <1>1, <1>2

(* Pushing a new element in front (MPSCLockFreeIntrusiveStack::Push). *)
LEMMA PushFacts ==
  ASSUME NEW S, NEW s \in Seq(S), NEW x \in S
  PROVE  /\ <<x>> \o s \in Seq(S)
         /\ <<x>> \o s /= <<>>
         /\ ToSet(<<x>> \o s) = {x} \cup ToSet(s)
         /\ IsInjective(s) /\ x \notin ToSet(s) => IsInjective(<<x>> \o s)
<1> DEFINE q == <<x>> \o s
<1>1. /\ <<x>> \in Seq(S) /\ Len(<<x>>) = 1 /\ <<x>>[1] = x
      /\ Len(s) \in Nat /\ DOMAIN s = 1..Len(s)
  BY LenProperties
<1>2. /\ q \in Seq(S)
      /\ Len(q) = 1 + Len(s)
      /\ q[1] = x
      /\ \A i \in 1..Len(s) : q[i + 1] = s[i]
  BY <1>1, ConcatProperties
<1>3. DOMAIN q = 1..(1 + Len(s))
  BY <1>2, LenProperties
<1>4. \A i \in 2..(1 + Len(s)) : i - 1 \in 1..Len(s) /\ q[i] = s[i - 1]
  BY <1>1, <1>2
<1>5. \A i \in 1..(1 + Len(s)) : i = 1 \/ i \in 2..(1 + Len(s))
  BY <1>1
<1>6. ToSet(q) = {x} \cup ToSet(s)
  <2>1. ToSet(q) \subseteq {x} \cup ToSet(s)
    BY <1>1, <1>2, <1>3, <1>4, <1>5 DEF ToSet
  <2>2. \A i \in 1..Len(s) : i + 1 \in DOMAIN q
    BY <1>1, <1>3
  <2>3. ToSet(s) \subseteq ToSet(q)
    BY <1>1, <1>2, <2>2 DEF ToSet
  <2>4. x \in ToSet(q)
    BY <1>1, <1>2, <1>3 DEF ToSet
  <2>5. QED BY <2>1, <2>3, <2>4
<1>7. ASSUME IsInjective(s), x \notin ToSet(s)
      PROVE  IsInjective(q)
  <2> SUFFICES ASSUME NEW i \in DOMAIN q, NEW j \in DOMAIN q, q[i] = q[j]
               PROVE  i = j
    BY DEF IsInjective
  <2>1. CASE i = 1 /\ j /= 1
    BY <1>1, <1>2, <1>3, <1>4, <1>5, <1>7, <2>1 DEF ToSet
  <2>2. CASE i /= 1 /\ j = 1
    BY <1>1, <1>2, <1>3, <1>4, <1>5, <1>7, <2>2 DEF ToSet
  <2>3. CASE i /= 1 /\ j /= 1
    <3>1. i - 1 = j - 1
      BY <1>1, <1>3, <1>4, <1>5, <1>7, <2>3 DEF IsInjective
    <3>2. QED BY <1>1, <1>3, <3>1
  <2>4. QED BY <2>1, <2>2, <2>3
<1>8. q /= <<>>
  BY <1>1, <1>2, EmptySeq
<1>9. QED BY <1>2, <1>6, <1>7, <1>8

(* Adding a new element at the end (IntrusiveForwardList::PushBack). *)
LEMMA AppendFacts ==
  ASSUME NEW S, NEW s \in Seq(S), NEW x \in S
  PROVE  /\ Append(s, x) \in Seq(S)
         /\ ToSet(Append(s, x)) = ToSet(s) \cup {x}
         /\ IsInjective(s) /\ x \notin ToSet(s) => IsInjective(Append(s, x))
<1> DEFINE q == Append(s, x)
<1>1. /\ Len(s) \in Nat /\ DOMAIN s = 1..Len(s)
      /\ q \in Seq(S) /\ Len(q) = Len(s) + 1
      /\ \A i \in 1..Len(s) : q[i] = s[i]
      /\ q[Len(s) + 1] = x
  BY AppendProperties, LenProperties
<1>2. DOMAIN q = 1..(Len(s) + 1)
  BY <1>1, LenProperties
<1>3. \A i \in 1..(Len(s) + 1) : i = Len(s) + 1 \/ i \in 1..Len(s)
  BY <1>1
<1>4. ToSet(q) = ToSet(s) \cup {x}
  <2>1. ToSet(q) \subseteq ToSet(s) \cup {x}
    BY <1>1, <1>2, <1>3 DEF ToSet
  <2>2. \A i \in 1..Len(s) : i \in DOMAIN q
    BY <1>1, <1>2
  <2>3. ToSet(s) \subseteq ToSet(q)
    BY <1>1, <2>2 DEF ToSet
  <2>4. x \in ToSet(q)
    BY <1>1, <1>2 DEF ToSet
  <2>5. QED BY <2>1, <2>3, <2>4
<1>5. ASSUME IsInjective(s), x \notin ToSet(s)
      PROVE  IsInjective(q)
  <2> SUFFICES ASSUME NEW i \in DOMAIN q, NEW j \in DOMAIN q, q[i] = q[j]
               PROVE  i = j
    BY DEF IsInjective
  <2>1. \A k \in 1..Len(s) : s[k] /= x
    BY <1>1, <1>5 DEF ToSet
  <2>2. CASE i \in 1..Len(s) /\ j \in 1..Len(s)
    BY <1>1, <1>5, <2>2 DEF IsInjective
  <2>3. QED BY <1>1, <1>2, <1>3, <2>1, <2>2
<1>6. QED BY <1>1, <1>4, <1>5

(* Taking the first element (IntrusiveForwardList::PopFront). *)
LEMMA PopFacts ==
  ASSUME NEW S, NEW s \in Seq(S), s /= <<>>
  PROVE  /\ Head(s) \in S
         /\ Tail(s) \in Seq(S)
         /\ ToSet(s) = {Head(s)} \cup ToSet(Tail(s))
         /\ IsInjective(s) => /\ IsInjective(Tail(s))
                              /\ Head(s) \notin ToSet(Tail(s))
<1>1. /\ Len(s) \in Nat /\ Len(s) >= 1 /\ DOMAIN s = 1..Len(s)
      /\ Head(s) = s[1] /\ Head(s) \in S
      /\ Tail(s) \in Seq(S) /\ Len(Tail(s)) = Len(s) - 1
      /\ DOMAIN Tail(s) = 1..(Len(s) - 1)
      /\ \A i \in 1..(Len(s) - 1) : Tail(s)[i] = s[i + 1]
  BY HeadTailProperties, LenProperties, EmptySeq
<1>2. \A i \in 2..Len(s) : i - 1 \in 1..(Len(s) - 1) /\ s[i] = Tail(s)[i - 1]
  BY <1>1
<1>3. \A i \in 1..Len(s) : i = 1 \/ i \in 2..Len(s)
  BY <1>1
<1>4. ToSet(s) = {Head(s)} \cup ToSet(Tail(s))
  <2>1. ASSUME NEW i \in 1..Len(s)
        PROVE  s[i] \in {Head(s)} \cup ToSet(Tail(s))
    <3>1. CASE i = 1
      BY <1>1, <3>1
    <3>2. CASE i \in 2..Len(s)
      BY <1>1, <1>2, <3>2 DEF ToSet
    <3>3. QED BY <1>3, <3>1, <3>2
  <2>2. \A i \in 1..(Len(s) - 1) : i + 1 \in 1..Len(s)
    BY <1>1
  <2>3. ToSet(Tail(s)) \subseteq ToSet(s)
    BY <1>1, <2>2 DEF ToSet
  <2>4. Head(s) \in ToSet(s)
    BY <1>1 DEF ToSet
  <2>5. QED BY <1>1, <2>1, <2>3, <2>4 DEF ToSet
<1>5. ASSUME IsInjective(s)
      PROVE  IsInjective(Tail(s)) /\ Head(s) \notin ToSet(Tail(s))
  <2>1. \A i \in 1..(Len(s) - 1) : i + 1 \in 1..Len(s) /\ i + 1 /= 1
    BY <1>1
  <2>2. Head(s) \notin ToSet(Tail(s))
    BY <1>1, <1>5, <2>1 DEF ToSet, IsInjective
  <2>3. \A i, j \in 1..(Len(s) - 1) : i + 1 = j + 1 => i = j
    BY <1>1
  <2>4. IsInjective(Tail(s))
    BY <1>1, <1>5, <2>1, <2>3 DEF IsInjective
  <2>5. QED BY <2>2, <2>4
<1>6. QED BY <1>1, <1>4, <1>5

(* Reversing (MPSCLockFreeIntrusiveQueue::TakeAll). *)
LEMMA ReverseFacts ==
  ASSUME NEW S, NEW s \in Seq(S)
  PROVE  /\ Reverse(s) \in Seq(S)
         /\ ToSet(Reverse(s)) = ToSet(s)
         /\ IsInjective(s) => IsInjective(Reverse(s))
<1> DEFINE r == Reverse(s)
<1>1. Len(s) \in Nat /\ DOMAIN s = 1..Len(s) /\ \A i \in 1..Len(s) : s[i] \in S
  BY LenProperties, ElementOfSeq
<1>2. DOMAIN r = 1..Len(s) /\ \A i \in 1..Len(s) : r[i] = s[(Len(s) - i) + 1]
  BY DEF Reverse
<1>3. \A i \in 1..Len(s) : (Len(s) - i) + 1 \in 1..Len(s)
  BY <1>1
<1>4. r \in Seq(S)
  <2>1. r \in [1..Len(s) -> S]
    BY <1>1, <1>3 DEF Reverse
  <2>2. QED BY <1>1, <2>1, IsASeq
<1>5. \A i \in 1..Len(s) : (Len(s) - ((Len(s) - i) + 1)) + 1 = i
  BY <1>1
<1>6. ToSet(r) \subseteq ToSet(s)
  BY <1>1, <1>2, <1>3 DEF ToSet
<1>7. \A i \in 1..Len(s) : s[i] = r[(Len(s) - i) + 1]
  BY <1>1, <1>2, <1>3, <1>5
<1>8. ToSet(s) \subseteq ToSet(r)
  BY <1>1, <1>2, <1>3, <1>7 DEF ToSet
<1>9. ASSUME IsInjective(s)
      PROVE  IsInjective(r)
  <2>1. \A i, j \in 1..Len(s) : (Len(s) - i) + 1 = (Len(s) - j) + 1 => i = j
    BY <1>1
  <2>2. QED BY <1>1, <1>2, <1>3, <1>9, <2>1 DEF IsInjective
<1>10. QED BY <1>4, <1>6, <1>8, <1>9

(* Taking the last element (StackAllocator: pool_.pop_back). *)
LEMMA FrontFacts ==
  ASSUME NEW S, NEW s \in Seq(S), s /= <<>>
  PROVE  LET t == SubSeq(s, 1, Len(s) - 1)
             x == s[Len(s)]
         IN /\ t \in Seq(S) /\ x \in S
            /\ ToSet(s) = ToSet(t) \cup {x}
            /\ IsInjective(s) => IsInjective(t) /\ x \notin ToSet(t)
<1> DEFINE t == SubSeq(s, 1, Len(s) - 1)
           x == s[Len(s)]
<1> DEFINE n == Len(s)
<1>1. n \in Nat /\ n >= 1 /\ DOMAIN s = 1..n
  BY LenProperties, EmptySeq
<1>2. /\ t \in Seq(S) /\ Len(t) = n - 1
      /\ \A i \in 1..(n - 1) : t[i] = s[i]
  <2>1. 1 \in 1..(n + 1) /\ n - 1 \in (1 - 1)..n
    BY <1>1
  <2>2. t \in Seq(S) /\ Len(t) = n - 1
    BY <1>1, <2>1, SubSeqProperties, Z3
  <2>3. \A i \in 1..(n - 1) : t[i] = s[i]
    BY <1>1, <2>1, SubSeqProperties, Z3
  <2>4. QED BY <2>2, <2>3
<1>3. DOMAIN t = 1..(n - 1)
  BY <1>1, <1>2, LenProperties
<1>6. x \in S /\ x = s[n]
  BY <1>1, ElementOfSeq
<1> HIDE DEF n, t, x
<1>4. \A i \in 1..n : i = n \/ i \in 1..(n - 1)
  BY <1>1
<1>5. n \in 1..n /\ \A i \in 1..(n - 1) : i \in 1..n /\ i /= n
  BY <1>1
<1>7. ToSet(s) = ToSet(t) \cup {x}
  <2>1. ToSet(s) \subseteq ToSet(t) \cup {x}
    BY <1>1, <1>2, <1>3, <1>4, <1>6 DEF ToSet
  <2>2. ToSet(t) \cup {x} \subseteq ToSet(s)
    BY <1>1, <1>2, <1>3, <1>5, <1>6 DEF ToSet
  <2>3. QED BY <2>1, <2>2
<1>8. ASSUME IsInjective(s)
      PROVE  IsInjective(t) /\ x \notin ToSet(t)
  BY <1>1, <1>2, <1>3, <1>5, <1>6, <1>8 DEF ToSet, IsInjective
<1>9. QED BY <1>2, <1>6, <1>7, <1>8 DEF n, t, x

(* Joining two lists without common elements. *)
LEMMA ConcatFacts ==
  ASSUME NEW S, NEW s \in Seq(S), NEW t \in Seq(S)
  PROVE  /\ s \o t \in Seq(S)
         /\ ToSet(s \o t) = ToSet(s) \cup ToSet(t)
         /\ IsInjective(s) /\ IsInjective(t) /\ ToSet(s) \cap ToSet(t) = {}
              => IsInjective(s \o t)
<1> DEFINE q == s \o t
           m == Len(s)
           n == Len(t)
<1>1. /\ m \in Nat /\ DOMAIN s = 1..m
      /\ n \in Nat /\ DOMAIN t = 1..n
  BY LenProperties
<1>2. /\ q \in Seq(S) /\ Len(q) = m + n
      /\ \A i \in 1..(m + n) : q[i] = IF i <= m THEN s[i] ELSE t[i - m]
  BY ConcatProperties
<1>3. DOMAIN q = 1..(m + n)
  BY <1>2, LenProperties
<1>4. /\ \A i \in 1..m : i \in 1..(m + n) /\ q[i] = s[i]
      /\ \A i \in 1..n : m + i \in 1..(m + n) /\ q[m + i] = t[i]
  <2>1. \A i \in 1..m : i \in 1..(m + n) /\ i <= m
    BY <1>1
  <2>2. \A i \in 1..n : m + i \in 1..(m + n) /\ ~(m + i <= m) /\ (m + i) - m = i
    BY <1>1
  <2> HIDE DEF q, m, n
  <2>3. QED BY <1>2, <2>1, <2>2
<1>5. \A i \in 1..(m + n) : i \in 1..m \/ \E j \in 1..n : i = m + j
  <2>1. \A i \in 1..(m + n) : i \in 1..m \/ (i - m \in 1..n /\ i = m + (i - m))
    BY <1>1
  <2>2. QED BY <2>1
<1> HIDE DEF q, m, n
<1>6. ToSet(q) = ToSet(s) \cup ToSet(t)
  <2>1. ToSet(q) \subseteq ToSet(s) \cup ToSet(t)
    <3> SUFFICES ASSUME NEW i \in 1..(m + n)
                 PROVE  q[i] \in ToSet(s) \cup ToSet(t)
      BY <1>3 DEF ToSet
    <3>1. CASE i \in 1..m
      BY <1>1, <1>4, <3>1 DEF ToSet
    <3>2. CASE \E j \in 1..n : i = m + j
      BY <1>1, <1>4, <3>2 DEF ToSet
    <3>3. QED BY <1>5, <3>1, <3>2
  <2>2. ToSet(s) \subseteq ToSet(q)
    BY <1>1, <1>3, <1>4 DEF ToSet
  <2>3. ToSet(t) \subseteq ToSet(q)
    BY <1>1, <1>3, <1>4 DEF ToSet
  <2>4. QED BY <2>1, <2>2, <2>3
<1>7. ASSUME IsInjective(s), IsInjective(t), ToSet(s) \cap ToSet(t) = {}
      PROVE  IsInjective(q)
  <2> SUFFICES ASSUME NEW i \in DOMAIN q, NEW j \in DOMAIN q, q[i] = q[j]
               PROVE  i = j
    BY DEF IsInjective
  <2>1. \A k \in 1..m, l \in 1..n : s[k] /= t[l]
    BY <1>1, <1>7 DEF ToSet
  <2>2. CASE i \in 1..m /\ j \in 1..m
    BY <1>1, <1>4, <1>7, <2>2 DEF IsInjective
  <2>3. CASE i \in 1..m /\ \E l \in 1..n : j = m + l
    BY <1>4, <2>1, <2>3
  <2>4. CASE j \in 1..m /\ \E k \in 1..n : i = m + k
    BY <1>4, <2>1, <2>4
  <2>5. CASE (\E k \in 1..n : i = m + k) /\ \E l \in 1..n : j = m + l
    <3>1. PICK k \in 1..n, l \in 1..n : i = m + k /\ j = m + l
      BY <2>5
    <3>2. t[k] = t[l]
      BY <1>4, <3>1
    <3>3. k = l
      BY <1>1, <1>7, <3>2 DEF IsInjective
    <3>4. QED BY <3>1, <3>3
  <2>6. QED BY <1>3, <1>5, <2>2, <2>3, <2>4, <2>5
<1>8. QED BY <1>2, <1>6, <1>7 DEF q

(* An empty list reversed, and a pushed element after the reversal: it     *)
(* comes last.                                                             *)
LEMMA ReverseEmpty == Reverse(<<>>) = <<>>
BY DEF Reverse

LEMMA ReversePush ==
  ASSUME NEW S, NEW s \in Seq(S), NEW x \in S
  PROVE  Reverse(<<x>> \o s) = Append(Reverse(s), x)
<1> DEFINE p == <<x>> \o s
           l == Reverse(p)
           r == Append(Reverse(s), x)
<1>1. <<x>> \in Seq(S) /\ Len(<<x>>) = 1 /\ <<x>>[1] = x
  OBVIOUS
<1>2. Len(s) \in Nat
  BY LenProperties
<1>3. /\ p \in Seq(S) /\ Len(p) = 1 + Len(s)
      /\ \A i \in 1..(1 + Len(s)) : p[i] = IF i <= 1 THEN x ELSE s[i - 1]
  BY <1>1, ConcatProperties
<1>4. Reverse(s) \in Seq(S) /\ l \in Seq(S)
  BY <1>3, ReverseFacts
<1>5. /\ DOMAIN Reverse(s) = 1..Len(s)
      /\ \A i \in 1..Len(s) : Reverse(s)[i] = s[(Len(s) - i) + 1]
  BY DEF Reverse
<1>6. /\ DOMAIN l = 1..Len(p)
      /\ \A i \in 1..Len(p) : l[i] = p[(Len(p) - i) + 1]
  BY DEF Reverse
<1>7. Len(Reverse(s)) = Len(s) /\ Len(l) = Len(s) + 1
  BY <1>2, <1>3, <1>4, <1>5, <1>6, LenProperties
<1>8. /\ r \in Seq(S) /\ Len(r) = Len(s) + 1
      /\ \A i \in 1..Len(s) : r[i] = Reverse(s)[i]
      /\ r[Len(s) + 1] = x
  BY <1>4, <1>7, AppendProperties
<1> HIDE DEF l, r, p
<1>9. ASSUME NEW i \in 1..Len(l)
      PROVE  l[i] = r[i]
  <2>1. CASE i = Len(s) + 1
    <3>1. l[i] = p[1] /\ p[1] = x
      BY <1>2, <1>3, <1>6, <1>7, <2>1
    <3>2. QED BY <1>8, <2>1, <3>1
  <2>2. CASE i \in 1..Len(s)
    <3>1. (Len(p) - i) + 1 = (Len(s) - i) + 2 /\ (Len(s) - i) + 2 \in 2..(1 + Len(s))
      BY <1>2, <1>3, <2>2
    <3>2. l[i] = s[((Len(s) - i) + 2) - 1]
      BY <1>2, <1>3, <1>6, <2>2, <3>1
    <3>3. ((Len(s) - i) + 2) - 1 = (Len(s) - i) + 1
      BY <1>2, <2>2
    <3>4. QED BY <1>5, <1>8, <2>2, <3>2, <3>3
  <2>3. QED BY <1>2, <1>7, <2>1, <2>2
<1>10. QED BY <1>4, <1>7, <1>8, <1>9, SeqEqual DEF l, r, p

(* Taking the first element of two lists in a row, and adding one at the   *)
(* end of the second                                                       *)
LEMMA ConcatHeadTail ==
  ASSUME NEW S, NEW s \in Seq(S), NEW t \in Seq(S), s /= <<>>
  PROVE  /\ s \o t /= <<>>
         /\ Head(s \o t) = Head(s)
         /\ Tail(s \o t) = Tail(s) \o t
<1> DEFINE c == s \o t
           d == Tail(s) \o t
<1>1. Len(s) \in Nat /\ Len(s) > 0 /\ Len(t) \in Nat
  BY LenProperties, EmptySeq
<1>2. /\ c \in Seq(S) /\ Len(c) = Len(s) + Len(t)
      /\ \A i \in 1..(Len(s) + Len(t)) : c[i] = IF i <= Len(s) THEN s[i] ELSE t[i - Len(s)]
  BY ConcatProperties
<1>3. /\ Head(s) = s[1] /\ Tail(s) \in Seq(S) /\ Len(Tail(s)) = Len(s) - 1
      /\ \A i \in 1..(Len(s) - 1) : Tail(s)[i] = s[i + 1]
  BY HeadTailProperties
<1>4. c /= <<>>
  BY <1>1, <1>2
<1>5. /\ Head(c) = c[1] /\ Tail(c) \in Seq(S) /\ Len(Tail(c)) = Len(c) - 1
      /\ \A i \in 1..(Len(c) - 1) : Tail(c)[i] = c[i + 1]
  BY <1>2, <1>4, HeadTailProperties
<1>6. /\ d \in Seq(S) /\ Len(d) = (Len(s) - 1) + Len(t)
      /\ \A i \in 1..((Len(s) - 1) + Len(t)) :
           d[i] = IF i <= Len(s) - 1 THEN Tail(s)[i] ELSE t[i - (Len(s) - 1)]
  BY <1>3, ConcatProperties
<1> HIDE DEF c, d
<1>7. Head(c) = Head(s)
  BY <1>1, <1>2, <1>3, <1>5
<1>8. Len(Tail(c)) = Len(d)
  BY <1>1, <1>2, <1>5, <1>6
<1>9. ASSUME NEW i \in 1..Len(d)
      PROVE  Tail(c)[i] = d[i]
  <2>1. i \in 1..((Len(s) + Len(t)) - 1) /\ i + 1 \in 1..(Len(s) + Len(t))
    BY <1>1, <1>6
  <2>2. Tail(c)[i] = c[i + 1]
    BY <1>2, <1>5, <2>1
  <2>3. CASE i <= Len(s) - 1
    BY <1>1, <1>2, <1>3, <1>6, <2>1, <2>2, <2>3
  <2>4. CASE ~(i <= Len(s) - 1)
    <3>1. c[i + 1] = t[(i + 1) - Len(s)] /\ d[i] = t[i - (Len(s) - 1)]
      BY <1>1, <1>2, <1>6, <2>1, <2>4
    <3>2. (i + 1) - Len(s) = i - (Len(s) - 1)
      BY <1>1
    <3>3. QED BY <2>2, <3>1, <3>2
  <2>5. QED BY <2>3, <2>4
<1>10. Tail(c) = d
  BY <1>5, <1>6, <1>8, <1>9, SeqEqual
<1>11. QED BY <1>4, <1>7, <1>10 DEF c, d

LEMMA ConcatAppend ==
  ASSUME NEW S, NEW s \in Seq(S), NEW t \in Seq(S), NEW x \in S
  PROVE  s \o Append(t, x) = Append(s \o t, x)
<1>1. Append(t, x) = t \o <<x>>
  BY AppendIsConcat
<1>2. s \o t \in Seq(S)
  BY ConcatProperties
<1>3. Append(s \o t, x) = (s \o t) \o <<x>>
  BY <1>2, AppendIsConcat
<1>4. <<x>> \in Seq(S)
  OBVIOUS
<1>5. (s \o t) \o <<x>> = s \o (t \o <<x>>)
  BY <1>4, ConcatAssociative
<1>6. QED BY <1>1, <1>3, <1>5
=============================================================================
