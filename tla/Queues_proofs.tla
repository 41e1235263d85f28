----------------------------- MODULE Queues_proofs ----------------------------
(***************************************************************************)
(* What a selection from a queue keeps, and what a concatenation holds.    *)
(* Induction over the naturals is by a least counterexample: the theorem   *)
(* of the library that says so in terms of sets needs no operator as its   *)
(* parameter.                                                              *)
(***************************************************************************)
EXTENDS Queues, SequenceTheorems, WellFoundedInduction, TLAPS

\* Every nonempty set of naturals has a least element.
LEMMA LeastOf ==
    ASSUME NEW T, T \subseteq Nat, T # {}
    PROVE  \E least \in T : \A n \in T : least <= n
<1>1. PICK m \in T : \A n \in T : ~ (<<n, m>> \in OpToRel(<, Nat))
  BY NatLessThanWellFounded, WFMin
<1>2. ASSUME NEW n \in T, n < m PROVE FALSE
  <2>1. <<n, m>> \in {ss \in Nat \X Nat : ss[1] < ss[2]}
    BY <1>2
  <2>2. <<n, m>> \in OpToRel(<, Nat)
    BY <2>1, Zenon DEF OpToRel
  <2> QED
    BY <1>1, <2>2
<1> QED
  BY <1>2

\* The function that Kept chooses is the one that it describes.
LEMMA KeptEquation ==
    ASSUME NEW S, NEW Q, NEW queue \in Seq(Q)
    PROVE  Kept(S, queue) =
             [n \in 0 .. Len(queue) |->
                IF n = 0 THEN <<>>
                ELSE IF queue[n] \in S THEN Append(Kept(S, queue)[n - 1], queue[n])
                ELSE Kept(S, queue)[n - 1]]
<1> DEFINE Next(g, n) == IF n = 0 THEN <<>>
                         ELSE IF queue[n] \in S THEN Append(g[n - 1], queue[n])
                         ELSE g[n - 1]
           UpTo(m) == \E g : g = [n \in 0 .. m |-> Next(g, n)]
           T == {m \in 0 .. Len(queue) : ~UpTo(m)}
<1>1. T = {}
  <2> SUFFICES ASSUME T # {} PROVE FALSE
    OBVIOUS
  <2>1. PICK m \in T : \A n \in T : m <= n
    <3>1. T \subseteq Nat
      OBVIOUS
    <3> HIDE DEF T
    <3> QED
      BY <3>1, LeastOf
  <2>2. CASE m = 0
    <3> DEFINE g == [n \in 0 .. 0 |-> <<>>]
    <3>1. g = [n \in 0 .. 0 |-> Next(g, n)]
      OBVIOUS
    <3>2. UpTo(0)
      BY <3>1
    <3> HIDE DEF UpTo
    <3> QED
      BY <2>1, <2>2, <3>2
  <2>3. CASE m # 0
    <3>1. m - 1 \in 0 .. Len(queue) /\ m - 1 \notin T /\ m \in Nat
      <4>1. m \in 0 .. Len(queue) /\ Len(queue) \in Nat
        BY <2>1
      <4> HIDE DEF T
      <4> QED
        BY <2>1, <2>3, <4>1
    <3>2. PICK f : f = [n \in 0 .. m - 1 |-> Next(f, n)]
      <4>1. UpTo(m - 1)
        <5> HIDE DEF UpTo
        <5> QED
          BY <3>1
      <4> QED
        BY <4>1, Zenon
    <3> DEFINE g == [n \in 0 .. m |-> IF n = m THEN Next(f, m) ELSE f[n]]
    <3>3. ASSUME NEW n \in 0 .. m PROVE g[n] = Next(g, n)
      <4>1. CASE n = m
        <5>1. g[m - 1] = f[m - 1]
          BY <3>1
        <5> QED
          BY <4>1, <5>1, <2>3
      <4>2. CASE n # m
        <5>1. n \in 0 .. m - 1 /\ (n # 0 => n - 1 \in 0 .. m - 1)
          BY <4>2, <3>1
        <5>2. g[n] = f[n] /\ (n # 0 => g[n - 1] = f[n - 1])
          BY <5>1, <3>1, <4>2
        <5>3. f[n] = Next(f, n)
          <6> HIDE DEF Next
          <6> QED
            BY <5>1, <3>2
        <5> QED
          BY <5>2, <5>3
      <4> QED
        BY <4>1, <4>2
    <3>4. g = [n \in 0 .. m |-> Next(g, n)]
      BY <3>3
    <3>5. UpTo(m)
      <4> HIDE DEF Next, g
      <4> QED
        BY <3>4
    <3> HIDE DEF UpTo
    <3> QED
      BY <2>1, <3>5
  <2> QED
    BY <2>2, <2>3
<1>2. UpTo(Len(queue))
  BY <1>1
<1>3. Kept(S, queue) = CHOOSE g : g = [n \in 0 .. Len(queue) |-> Next(g, n)]
  BY DEF Kept
<1> QED
  BY <1>2, <1>3

\* Appending, concatenating and taking the head off, in terms of who is there.
LEMMA InAppend ==
    ASSUME NEW Q, NEW queue \in Seq(Q), NEW e \in Q
    PROVE  /\ \A i : Contains(Append(queue, e), i) <=> Contains(queue, i) \/ i = e
           /\ \A i : Once(i, Append(queue, e)) <=> Once(i, queue) /\ ~(Contains(queue, i) /\ i = e)
<1>1. /\ Len(Append(queue, e)) = Len(queue) + 1 /\ Len(queue) \in Nat
      /\ \A k \in 1 .. Len(queue) : Append(queue, e)[k] = queue[k]
      /\ Append(queue, e)[Len(queue) + 1] = e
  OBVIOUS
<1> DEFINE q == Append(queue, e)
<1> HIDE DEF q
<1>2. /\ Len(q) = Len(queue) + 1 /\ Len(queue) \in Nat
      /\ \A k \in 1 .. Len(queue) : q[k] = queue[k]
      /\ q[Len(queue) + 1] = e
  BY <1>1 DEF q
<1>3. ASSUME NEW i PROVE Contains(q, i) <=> Contains(queue, i) \/ i = e
  BY <1>2 DEF Contains
<1>4. ASSUME NEW i PROVE Once(i, q) <=> Once(i, queue) /\ ~(Contains(queue, i) /\ i = e)
  <2>1. ASSUME Once(i, q) PROVE Once(i, queue) /\ ~(Contains(queue, i) /\ i = e)
    BY <1>2, <2>1 DEF Contains, Once
  <2>2. ASSUME Once(i, queue), ~(Contains(queue, i) /\ i = e) PROVE Once(i, q)
    <3> SUFFICES ASSUME NEW j \in 1 .. Len(q), NEW k \in 1 .. Len(q), q[j] = i, q[k] = i
                 PROVE  j = k
      BY DEF Once
    <3>1. CASE j \in 1 .. Len(queue) /\ k \in 1 .. Len(queue)
      BY <3>1, <1>2, <2>2 DEF Once
    <3>2. CASE ~(j \in 1 .. Len(queue) /\ k \in 1 .. Len(queue))
      BY <3>2, <1>2, <2>2 DEF Contains
    <3> QED
      BY <3>1, <3>2
  <2> QED
    BY <2>1, <2>2
<1> QED
  BY <1>3, <1>4 DEF q

LEMMA InConcat ==
    ASSUME NEW Q, NEW a \in Seq(Q), NEW b \in Seq(Q)
    PROVE  /\ \A i : Contains(a \o b, i) <=> Contains(a, i) \/ Contains(b, i)
           /\ \A i : Once(i, a \o b) <=>
                        Once(i, a) /\ Once(i, b) /\ ~(Contains(a, i) /\ Contains(b, i))
<1> DEFINE q == a \o b
           n == Len(a)
<1>1. /\ Len(q) = n + Len(b) /\ n \in Nat /\ Len(b) \in Nat
      /\ \A k \in 1 .. n : q[k] = a[k]
      /\ \A k \in 1 .. Len(b) : q[n + k] = b[k]
      /\ \A k \in n + 1 .. Len(q) : k - n \in 1 .. Len(b) /\ q[k] = b[k - n]
  OBVIOUS
<1> HIDE DEF q, n
<1>2. /\ 1 .. n \subseteq 1 .. Len(q)
      /\ \A k \in 1 .. Len(b) : n + k \in 1 .. Len(q)
      /\ \A k \in 1 .. Len(q) : k \in 1 .. n \/ k \in n + 1 .. Len(q)
  BY <1>1
<1>3. ASSUME NEW i PROVE Contains(q, i) <=> Contains(a, i) \/ Contains(b, i)
  <2>1. Contains(a, i) \/ Contains(b, i) => Contains(q, i)
    BY <1>1, <1>2 DEF Contains, n
  <2>2. Contains(q, i) => Contains(a, i) \/ Contains(b, i)
    BY <1>1, <1>2 DEF Contains, n
  <2> QED
    BY <2>1, <2>2
<1>4. ASSUME NEW i, Once(i, q)
      PROVE  Once(i, a) /\ Once(i, b) /\ ~(Contains(a, i) /\ Contains(b, i))
  <2>1. Once(i, a)
    BY <1>1, <1>2, <1>4 DEF Once, n
  <2>2. Once(i, b)
    <3> SUFFICES ASSUME NEW j \in 1 .. Len(b), NEW k \in 1 .. Len(b), b[j] = i, b[k] = i
                 PROVE  j = k
      BY DEF Once
    <3>0. /\ n + j \in 1 .. Len(q) /\ n + k \in 1 .. Len(q)
          /\ q[n + j] = b[j] /\ q[n + k] = b[k]
      BY <1>1, <1>2
    <3>1. n + j = n + k
      BY <1>4, <3>0 DEF Once
    <3> QED
      BY <1>1, <3>1
  <2>3. ASSUME Contains(a, i), Contains(b, i) PROVE FALSE
    <3>1. PICK j \in 1 .. n, k \in 1 .. Len(b) : a[j] = i /\ b[k] = i
      BY <2>3 DEF Contains, n
    <3>2. j = n + k
      BY <1>1, <1>2, <1>4, <3>1 DEF Once
    <3> QED
      BY <1>1, <3>2
  <2> QED
    BY <2>1, <2>2, <2>3
<1>5. ASSUME NEW i, Once(i, a), Once(i, b), ~(Contains(a, i) /\ Contains(b, i))
      PROVE  Once(i, q)
  <2> SUFFICES ASSUME NEW j \in 1 .. Len(q), NEW k \in 1 .. Len(q), q[j] = i, q[k] = i
               PROVE  j = k
    BY DEF Once
  <2>1. CASE j \in 1 .. n /\ k \in 1 .. n
    BY <2>1, <1>1, <1>5 DEF Once, n
  <2>2. CASE j \in n + 1 .. Len(q) /\ k \in n + 1 .. Len(q)
    <3>1. j - n = k - n
      BY <2>2, <1>1, <1>5, ZenonT(60) DEF Once
    <3> QED
      BY <1>1, <3>1
  <2>3. CASE j \in 1 .. n /\ k \in n + 1 .. Len(q)
    BY <2>3, <1>1, <1>5 DEF Contains, n
  <2>4. CASE k \in 1 .. n /\ j \in n + 1 .. Len(q)
    BY <2>4, <1>1, <1>5 DEF Contains, n
  <2> QED
    BY <1>2, <2>1, <2>2, <2>3, <2>4
<1> QED
  BY <1>3, <1>4, <1>5 DEF q

LEMMA InTail ==
    ASSUME NEW Q, NEW queue \in Seq(Q), queue # <<>>
    PROVE  /\ Head(queue) \in Q /\ Tail(queue) \in Seq(Q)
           /\ \A i : Contains(queue, i) <=> i = Head(queue) \/ Contains(Tail(queue), i)
           /\ \A i : Once(i, queue) <=>
                        Once(i, Tail(queue)) /\ ~(i = Head(queue) /\ Contains(Tail(queue), i))
<1>1. /\ <<Head(queue)>> \in Seq(Q) /\ Tail(queue) \in Seq(Q)
      /\ queue = <<Head(queue)>> \o Tail(queue)
  OBVIOUS
<1>2. \A i : (Contains(<<Head(queue)>>, i) <=> i = Head(queue)) /\ Once(i, <<Head(queue)>>)
  BY DEF Contains, Once
<1>3. /\ \A i : Contains(queue, i) <=> Contains(<<Head(queue)>>, i) \/ Contains(Tail(queue), i)
      /\ \A i : Once(i, queue) <=> /\ Once(i, <<Head(queue)>>) /\ Once(i, Tail(queue))
                                   /\ ~(Contains(<<Head(queue)>>, i) /\ Contains(Tail(queue), i))
  <2> PICK h, t : h = <<Head(queue)>> /\ t = Tail(queue)
    OBVIOUS
  <2>1. h \in Seq(Q) /\ t \in Seq(Q) /\ queue = h \o t
    BY <1>1
  <2>2. /\ \A i : Contains(h \o t, i) <=> Contains(h, i) \/ Contains(t, i)
        /\ \A i : Once(i, h \o t) <=> Once(i, h) /\ Once(i, t) /\ ~(Contains(h, i) /\ Contains(t, i))
    BY <2>1, InConcat
  <2> QED
    BY <2>1, <2>2
<1> QED
  BY <1>1, <1>2, <1>3

LEMMA InOne ==
    ASSUME NEW e
    PROVE  \A i : (Contains(<<e>>, i) <=> i = e) /\ Once(i, <<e>>)
  BY DEF Contains, Once

LEMMA InNone == \A i : ~Contains(<<>>, i) /\ Once(i, <<>>)
  BY DEF Contains, Once

-----------------------------------------------------------------------------
(* Selections.                                                             *)

\* What is selected, item by item.
LEMMA KeptSteps ==
    ASSUME NEW S, NEW Q, NEW queue \in Seq(Q)
    PROVE  /\ Len(queue) \in Nat
           /\ Kept(S, queue)[0] = <<>>
           /\ \A n \in 1 .. Len(queue) :
                 Kept(S, queue)[n] = IF queue[n] \in S
                                     THEN Append(Kept(S, queue)[n - 1], queue[n])
                                     ELSE Kept(S, queue)[n - 1]
<1> DEFINE kept == Kept(S, queue)
<1>1. kept = [n \in 0 .. Len(queue) |->
                IF n = 0 THEN <<>>
                ELSE IF queue[n] \in S THEN Append(kept[n - 1], queue[n])
                ELSE kept[n - 1]]
  BY KeptEquation
<1>2. Len(queue) \in Nat
  OBVIOUS
<1> HIDE DEF kept
<1>3. kept[0] = <<>>
  BY <1>1, <1>2
<1>4. ASSUME NEW n \in 1 .. Len(queue)
      PROVE  kept[n] = IF queue[n] \in S THEN Append(kept[n - 1], queue[n])
                       ELSE kept[n - 1]
  <2>1. n \in 0 .. Len(queue) /\ n # 0
    BY <1>2
  <2> QED
    BY <1>1, <2>1
<1> QED
  BY <1>2, <1>3, <1>4 DEF kept

\* What is selected of a queue is of the kind that was asked for, is there if it was in
\* the queue, and is there once if it was.
LEMMA OnlySelects ==
    ASSUME NEW S, NEW Q, NEW queue \in Seq(Q)
    PROVE  /\ Only(S, queue) \in Seq(S \cap Q)
           /\ \A i : Contains(Only(S, queue), i) <=> i \in S /\ Contains(queue, i)
           /\ \A i : Once(i, queue) => Once(i, Only(S, queue))
<1> DEFINE kept == Kept(S, queue)
           InFirst(i, n) == \E k \in 1 .. n : queue[k] = i
           Good(n) == /\ kept[n] \in Seq(S \cap Q)
                      /\ \A i : Contains(kept[n], i) <=> i \in S /\ InFirst(i, n)
                      /\ \A i : Once(i, queue) => Once(i, kept[n])
           T == {n \in 0 .. Len(queue) : ~Good(n)}
<1>1. /\ Len(queue) \in Nat
      /\ kept[0] = <<>>
      /\ \A n \in 1 .. Len(queue) :
            kept[n] = IF queue[n] \in S THEN Append(kept[n - 1], queue[n]) ELSE kept[n - 1]
  BY KeptSteps
<1> HIDE DEF kept
<1>2. Good(0)
  BY <1>1, InNone
<1>3. ASSUME NEW n \in 1 .. Len(queue), Good(n - 1) PROVE Good(n)
  <2>1. queue[n] \in Q /\ n \in Nat /\ n - 1 \in Nat
    BY <1>1
  <2>2. \A i : InFirst(i, n) <=> InFirst(i, n - 1) \/ i = queue[n]
    BY <2>1
  <2>3. \A i : Once(i, queue) => ~(InFirst(i, n - 1) /\ i = queue[n])
    <3> SUFFICES ASSUME NEW i, Once(i, queue), NEW k \in 1 .. n - 1, queue[k] = i, i = queue[n]
                 PROVE  FALSE
      OBVIOUS
    <3>1. k \in 1 .. Len(queue) /\ k # n
      BY <2>1
    <3> QED
      BY <3>1 DEF Once
  <2> HIDE DEF InFirst
  <2>4. CASE queue[n] \notin S
    BY <1>1, <1>3, <2>2, <2>4
  <2>5. CASE queue[n] \in S
    <3>1. kept[n] = Append(kept[n - 1], queue[n])
      BY <1>1, <2>5
    <3>2. kept[n - 1] \in Seq(S \cap Q) /\ queue[n] \in S \cap Q
      BY <1>3, <2>1, <2>5
    <3>3. kept[n] \in Seq(S \cap Q)
      BY <3>1, <3>2
    <3>4. /\ \A i : Contains(kept[n], i) <=> Contains(kept[n - 1], i) \/ i = queue[n]
          /\ \A i : Once(i, kept[n]) <=>
                      Once(i, kept[n - 1]) /\ ~(Contains(kept[n - 1], i) /\ i = queue[n])
      BY <3>1, <3>2, InAppend
    <3>5. /\ \A i : Contains(kept[n - 1], i) <=> i \in S /\ InFirst(i, n - 1)
          /\ \A i : Once(i, queue) => Once(i, kept[n - 1])
      BY <1>3
    <3>6. \A i : Contains(kept[n], i) <=> i \in S /\ InFirst(i, n)
      BY <2>2, <2>5, <3>4, <3>5
    <3>7. \A i : Once(i, queue) => Once(i, kept[n])
      BY <2>3, <3>4, <3>5
    <3> QED
      BY <3>3, <3>6, <3>7
  <2> QED
    BY <2>4, <2>5
<1>4. T = {}
  <2> SUFFICES ASSUME T # {} PROVE FALSE
    OBVIOUS
  <2>1. T \subseteq Nat /\ \A n \in T : n \in 0 .. Len(queue) /\ ~Good(n)
    BY <1>1
  <2>2. \A n \in 0 .. Len(queue) : n \notin T => Good(n)
    OBVIOUS
  <2> HIDE DEF T, Good
  <2>3. PICK n \in T : \A m \in T : n <= m
    BY <2>1, LeastOf
  <2>4. n # 0
    BY <1>2, <2>1
  <2>5. n \in 1 .. Len(queue) /\ n - 1 \in 0 .. Len(queue) /\ n - 1 \notin T
    BY <1>1, <2>1, <2>3, <2>4
  <2> QED
    BY <1>3, <2>1, <2>2, <2>5
<1>5. Good(Len(queue))
  <2>1. Len(queue) \in 0 .. Len(queue)
    BY <1>1
  <2> HIDE DEF Good
  <2> QED
    BY <1>4, <2>1
<1>6. \A i : InFirst(i, Len(queue)) <=> Contains(queue, i)
  BY DEF Contains
<1> QED
  BY <1>5, <1>6 DEF Only, kept

\* An item that is at the head of a queue or not in it is so in a selection, too.
LEMMA OnlyKeepsHead ==
    ASSUME NEW S, NEW Q, NEW queue \in Seq(Q), NEW e,
           \A k \in 1 .. Len(queue) : queue[k] = e => k = 1
    PROVE  \A k \in 1 .. Len(Only(S, queue)) : Only(S, queue)[k] = e => k = 1
<1> DEFINE kept == Kept(S, queue)
           Good(n) == /\ kept[n] \in Seq(Q) /\ Len(kept[n]) <= n
                      /\ \A k \in 1 .. Len(kept[n]) : kept[n][k] = e => k = 1
           T == {n \in 0 .. Len(queue) : ~Good(n)}
<1>1. /\ Len(queue) \in Nat
      /\ kept[0] = <<>>
      /\ \A n \in 1 .. Len(queue) :
            kept[n] = IF queue[n] \in S THEN Append(kept[n - 1], queue[n]) ELSE kept[n - 1]
  BY KeptSteps
<1> HIDE DEF kept
<1>2. Good(0)
  BY <1>1
<1>3. ASSUME NEW n \in 1 .. Len(queue), Good(n - 1) PROVE Good(n)
  <2>1. CASE queue[n] \notin S
    BY <1>1, <1>3, <2>1
  <2>2. CASE queue[n] \in S
    <3> PICK q : q = kept[n - 1]
      OBVIOUS
    <3>1. kept[n] = Append(q, queue[n])
      BY <1>1, <2>2
    <3>2. q \in Seq(Q) /\ queue[n] \in Q /\ Len(q) <= n - 1 /\ Len(q) \in Nat
      BY <1>1, <1>3
    <3>3. /\ Append(q, queue[n]) \in Seq(Q) /\ Len(Append(q, queue[n])) = Len(q) + 1
          /\ \A k \in 1 .. Len(q) : Append(q, queue[n])[k] = q[k]
          /\ Append(q, queue[n])[Len(q) + 1] = queue[n]
      BY <3>2
    <3>4. \A k \in 1 .. Len(q) : q[k] = e => k = 1
      BY <1>3
    <3>5. queue[n] = e => Len(q) + 1 = 1
      BY <3>2
    <3> QED
      BY <3>1, <3>2, <3>3, <3>4, <3>5
  <2> QED
    BY <2>1, <2>2
<1>4. T = {}
  <2> SUFFICES ASSUME T # {} PROVE FALSE
    OBVIOUS
  <2>1. T \subseteq Nat /\ \A n \in T : n \in 0 .. Len(queue) /\ ~Good(n)
    BY <1>1
  <2>2. \A n \in 0 .. Len(queue) : n \notin T => Good(n)
    OBVIOUS
  <2> HIDE DEF T, Good
  <2>3. PICK n \in T : \A m \in T : n <= m
    BY <2>1, LeastOf
  <2>4. n # 0
    BY <1>2, <2>1
  <2>5. n \in 1 .. Len(queue) /\ n - 1 \in 0 .. Len(queue) /\ n - 1 \notin T
    BY <1>1, <2>1, <2>3, <2>4
  <2> QED
    BY <1>3, <2>1, <2>2, <2>5
<1>5. Good(Len(queue))
  <2>1. Len(queue) \in 0 .. Len(queue)
    BY <1>1
  <2> HIDE DEF Good
  <2> QED
    BY <1>4, <2>1
<1> QED
  BY <1>5 DEF Only, kept

\* Induction up to n, in terms of a set: what fails somewhere fails somewhere first.
LEMMA NoneFails ==
    ASSUME NEW n \in Nat, NEW T, T \subseteq 0 .. n, 0 \notin T,
           \A k \in 1 .. n : k - 1 \notin T => k \notin T
    PROVE  T = {}
<1> SUFFICES ASSUME T # {} PROVE FALSE
  OBVIOUS
<1>1. T \subseteq Nat
  OBVIOUS
<1>2. PICK least \in T : \A k \in T : least <= k
  BY <1>1, LeastOf
<1>3. least \in 1 .. n /\ least - 1 \in Nat
  BY <1>2
<1> QED
  BY <1>2, <1>3

\* Two selections that agree on what is in the queue.
LEMMA OnlyAlike ==
    ASSUME NEW S, NEW R, NEW Q, NEW queue \in Seq(Q),
           \A k \in 1 .. Len(queue) : queue[k] \in S <=> queue[k] \in R
    PROVE  Only(S, queue) = Only(R, queue)
<1> DEFINE a == Kept(S, queue)
           b == Kept(R, queue)
           T == {n \in 0 .. Len(queue) : a[n] # b[n]}
<1>1. /\ Len(queue) \in Nat /\ a[0] = <<>> /\ b[0] = <<>>
      /\ \A n \in 1 .. Len(queue) :
            a[n] = IF queue[n] \in S THEN Append(a[n - 1], queue[n]) ELSE a[n - 1]
      /\ \A n \in 1 .. Len(queue) :
            b[n] = IF queue[n] \in R THEN Append(b[n - 1], queue[n]) ELSE b[n - 1]
  BY KeptSteps
<1> HIDE DEF a, b
<1>2. \A n \in 1 .. Len(queue) : n - 1 \in 0 .. Len(queue)
  BY <1>1
<1>3. \A n \in 1 .. Len(queue) : n - 1 \notin T => n \notin T
  BY <1>1, <1>2
<1>4. 0 \notin T /\ T \subseteq 0 .. Len(queue)
  BY <1>1
<1>5. T = {}
  <2> HIDE DEF T
  <2> QED
    BY <1>1, <1>3, <1>4, NoneFails
<1>6. a[Len(queue)] = b[Len(queue)]
  BY <1>1, <1>5
<1> QED
  BY <1>6 DEF Only, a, b

\* All of a queue is selected.
LEMMA OnlyAll ==
    ASSUME NEW S, NEW queue \in Seq(S)
    PROVE  Only(S, queue) = queue
<1> DEFINE kept == Kept(S, queue)
           T == {n \in 0 .. Len(queue) : kept[n] # SubSeq(queue, 1, n)}
<1>1. /\ Len(queue) \in Nat /\ kept[0] = <<>>
      /\ \A n \in 1 .. Len(queue) :
            kept[n] = IF queue[n] \in S THEN Append(kept[n - 1], queue[n]) ELSE kept[n - 1]
  BY KeptSteps
<1> HIDE DEF kept
<1>2. \A n \in 1 .. Len(queue) :
         /\ n - 1 \in 0 .. Len(queue) /\ queue[n] \in S
         /\ Append(SubSeq(queue, 1, n - 1), queue[n]) = SubSeq(queue, 1, n)
  BY <1>1
<1>3. \A n \in 1 .. Len(queue) : n - 1 \notin T => n \notin T
  BY <1>1, <1>2
<1>4. SubSeq(queue, 1, 0) = <<>> /\ SubSeq(queue, 1, Len(queue)) = queue
  OBVIOUS
<1>5. 0 \notin T /\ T \subseteq 0 .. Len(queue)
  BY <1>1, <1>4
<1>6. T = {}
  <2> HIDE DEF T
  <2> QED
    BY <1>1, <1>3, <1>5, NoneFails
<1>7. kept[Len(queue)] = queue
  <2>1. Len(queue) \in 0 .. Len(queue)
    BY <1>1
  <2>2. kept[Len(queue)] = SubSeq(queue, 1, Len(queue))
    BY <1>6, <2>1
  <2> QED
    BY <1>4, <2>2
<1> QED
  BY <1>7 DEF Only, kept

\* What is selected is in the order of the queue: where[k] is the place of the k-th.
LEMMA OnlyInOrder ==
    ASSUME NEW S, NEW Q, NEW queue \in Seq(Q)
    PROVE  \E where \in [1 .. Len(Only(S, queue)) -> 1 .. Len(queue)] :
              /\ \A j, k \in 1 .. Len(Only(S, queue)) : j < k => where[j] < where[k]
              /\ \A k \in 1 .. Len(Only(S, queue)) : Only(S, queue)[k] = queue[where[k]]
              /\ \A j \in 1 .. Len(queue) :
                    queue[j] \in S <=> \E k \in 1 .. Len(Only(S, queue)) : where[k] = j
<1> DEFINE kept == Kept(S, queue)
           Places(where, n) ==
              /\ \A j, k \in 1 .. Len(kept[n]) : j < k => where[j] < where[k]
              /\ \A k \in 1 .. Len(kept[n]) : kept[n][k] = queue[where[k]]
              /\ \A j \in 1 .. n :
                    queue[j] \in S <=> \E k \in 1 .. Len(kept[n]) : where[k] = j
           Good(n) == kept[n] \in Seq(Q) /\ \E where \in [1 .. Len(kept[n]) -> 1 .. n] : Places(where, n)
           T == {n \in 0 .. Len(queue) : ~Good(n)}
<1>1. /\ Len(queue) \in Nat /\ kept[0] = <<>>
      /\ \A n \in 1 .. Len(queue) :
            kept[n] = IF queue[n] \in S THEN Append(kept[n - 1], queue[n]) ELSE kept[n - 1]
  BY KeptSteps
<1> HIDE DEF kept
<1>2. Good(0)
  <2>1. [k \in 1 .. 0 |-> 0] \in [1 .. Len(kept[0]) -> 1 .. 0]
    BY <1>1
  <2>2. Places([k \in 1 .. 0 |-> 0], 0)
    BY <1>1
  <2>3. kept[0] \in Seq(Q)
    BY <1>1
  <2> HIDE DEF Places
  <2> QED
    BY <2>1, <2>2, <2>3
<1>3. ASSUME NEW n \in 1 .. Len(queue), Good(n - 1) PROVE Good(n)
  <2>1. PICK where \in [1 .. Len(kept[n - 1]) -> 1 .. n - 1] : Places(where, n - 1)
    BY <1>3
  <2>2. n \in Nat /\ n - 1 \in Nat /\ kept[n - 1] \in Seq(Q) /\ queue[n] \in Q
    BY <1>1, <1>3
  <2>3. CASE queue[n] \notin S
    <3>1. kept[n] = kept[n - 1]
      BY <1>1, <2>3
    <3>2. where \in [1 .. Len(kept[n]) -> 1 .. n]
      BY <2>1, <2>2, <3>1
    <3>3. ASSUME NEW j \in 1 .. n
          PROVE  queue[j] \in S <=> \E k \in 1 .. Len(kept[n]) : where[k] = j
      <4>1. CASE j = n
        BY <2>1, <2>2, <2>3, <3>1, <4>1
      <4>2. CASE j \in 1 .. n - 1
        BY <2>1, <3>1, <4>2
      <4> QED
        BY <2>2, <4>1, <4>2
    <3>4. Places(where, n)
      BY <2>1, <3>1, <3>3
    <3> QED
      BY <2>2, <3>1, <3>2, <3>4
  <2>4. CASE queue[n] \in S
    <3> DEFINE m == Len(kept[n - 1])
               longer == [k \in 1 .. m + 1 |-> IF k <= m THEN where[k] ELSE n]
    <3>1. kept[n] = Append(kept[n - 1], queue[n])
      BY <1>1, <2>4
    <3>2. /\ m \in Nat /\ kept[n] \in Seq(Q) /\ Len(kept[n]) = m + 1
          /\ \A k \in 1 .. m : kept[n][k] = kept[n - 1][k]
          /\ kept[n][m + 1] = queue[n]
      BY <2>2, <3>1
    <3> HIDE DEF m
    <3>3. where \in [1 .. m -> 1 .. n - 1] /\ Places(where, n - 1)
      BY <2>1 DEF m
    <3>4. longer \in [1 .. m + 1 -> 1 .. n] /\ longer[m + 1] = n
          /\ \A k \in 1 .. m : longer[k] = where[k] /\ longer[k] \in 1 .. n - 1
      BY <2>2, <3>2, <3>3
    <3> HIDE DEF longer
    <3>5. \A j, k \in 1 .. m + 1 : j < k => longer[j] < longer[k]
      <4> SUFFICES ASSUME NEW j \in 1 .. m + 1, NEW k \in 1 .. m + 1, j < k
                   PROVE  longer[j] < longer[k]
        OBVIOUS
      <4>1. j \in 1 .. m
        BY <3>2
      <4>2. CASE k \in 1 .. m
        BY <3>3, <3>4, <4>1, <4>2 DEF m
      <4>3. CASE k = m + 1
        BY <2>2, <3>4, <4>1, <4>3
      <4> QED
        BY <3>2, <4>2, <4>3
    <3>6. \A k \in 1 .. m + 1 : kept[n][k] = queue[longer[k]]
      <4> SUFFICES ASSUME NEW k \in 1 .. m + 1 PROVE kept[n][k] = queue[longer[k]]
        OBVIOUS
      <4>1. CASE k \in 1 .. m
        BY <3>2, <3>3, <3>4, <4>1 DEF m
      <4>2. CASE k = m + 1
        BY <3>2, <3>4, <4>2
      <4> QED
        BY <3>2, <4>1, <4>2
    <3>7. ASSUME NEW j \in 1 .. n
          PROVE  queue[j] \in S <=> \E k \in 1 .. m + 1 : longer[k] = j
      <4>1. CASE j = n
        BY <2>4, <3>2, <3>4, <4>1
      <4>2. CASE j \in 1 .. n - 1
        <5>1. queue[j] \in S <=> \E k \in 1 .. m : where[k] = j
          BY <3>3, <4>2 DEF m
        <5>2. ASSUME NEW k \in 1 .. m + 1, longer[k] = j PROVE k \in 1 .. m
          BY <2>2, <3>2, <3>4, <4>2, <5>2
        <5> QED
          BY <3>2, <3>4, <5>1, <5>2
      <4> QED
        BY <2>2, <4>1, <4>2
    <3>8. Places(longer, n)
      BY <3>2, <3>5, <3>6, <3>7
    <3>9. longer \in [1 .. Len(kept[n]) -> 1 .. n]
      BY <3>2, <3>4
    <3> HIDE DEF Places
    <3> QED
      BY <3>2, <3>8, <3>9
  <2> QED
    BY <2>3, <2>4
<1> HIDE DEF Good
<1>4. T = {}
  <2>1. T \subseteq 0 .. Len(queue) /\ 0 \notin T
    BY <1>2
  <2>2. \A n \in 1 .. Len(queue) : n - 1 \notin T => n \notin T
    <3> SUFFICES ASSUME NEW n \in 1 .. Len(queue), n - 1 \notin T PROVE n \notin T
      OBVIOUS
    <3>1. n - 1 \in 0 .. Len(queue)
      BY <1>1
    <3> QED
      BY <1>3, <3>1
  <2> HIDE DEF T
  <2> QED
    BY <1>1, <2>1, <2>2, NoneFails
<1>5. Good(Len(queue)) /\ kept[Len(queue)] = Only(S, queue)
  <2>1. Len(queue) \in 0 .. Len(queue)
    BY <1>1
  <2> QED
    BY <1>4, <2>1 DEF kept, Only
<1>6. PICK where \in [1 .. Len(Only(S, queue)) -> 1 .. Len(queue)] : Places(where, Len(queue))
  BY <1>5 DEF Good
<1> QED
  BY <1>5, <1>6

\* The selection from a queue that another one follows.
LEMMA KeptOfFirst ==
    ASSUME NEW S, NEW Q, NEW a \in Seq(Q), NEW b \in Seq(Q)
    PROVE  Kept(S, a \o b)[Len(a)] = Only(S, a)
<1> DEFINE q == a \o b
           kept == Kept(S, q)
           first == Kept(S, a)
           T == {n \in 0 .. Len(a) : kept[n] # first[n]}
<1>1. q \in Seq(Q) /\ Len(q) = Len(a) + Len(b) /\ Len(a) \in Nat /\ Len(b) \in Nat
      /\ \A n \in 1 .. Len(a) : q[n] = a[n]
  OBVIOUS
<1> HIDE DEF q
<1>2. /\ kept[0] = <<>> /\ first[0] = <<>>
      /\ \A n \in 1 .. Len(q) :
            kept[n] = IF q[n] \in S THEN Append(kept[n - 1], q[n]) ELSE kept[n - 1]
      /\ \A n \in 1 .. Len(a) :
            first[n] = IF a[n] \in S THEN Append(first[n - 1], a[n]) ELSE first[n - 1]
  <2>1. /\ first[0] = <<>>
        /\ \A n \in 1 .. Len(a) :
              first[n] = IF a[n] \in S THEN Append(first[n - 1], a[n]) ELSE first[n - 1]
    BY KeptSteps
  <2>2. /\ kept[0] = <<>>
        /\ \A n \in 1 .. Len(q) :
              kept[n] = IF q[n] \in S THEN Append(kept[n - 1], q[n]) ELSE kept[n - 1]
    BY <1>1, KeptSteps
  <2> QED
    BY <2>1, <2>2
<1> HIDE DEF kept, first
<1>3. \A n \in 1 .. Len(a) : n - 1 \in 0 .. Len(a) /\ n \in 1 .. Len(q)
  BY <1>1
<1>4. \A n \in 1 .. Len(a) : n - 1 \notin T => n \notin T
  BY <1>1, <1>2, <1>3
<1>5. 0 \notin T /\ T \subseteq 0 .. Len(a)
  BY <1>2
<1>6. T = {}
  <2> HIDE DEF T
  <2> QED
    BY <1>1, <1>4, <1>5, NoneFails
<1>7. kept[Len(a)] = first[Len(a)]
  BY <1>1, <1>6
<1> QED
  BY <1>7 DEF Only, kept, first, q

LEMMA AppendToConcat ==
    \A Q : \A a, b \in Seq(Q) : \A e \in Q :
        Append(a \o b, e) = a \o Append(b, e) /\ Append(b, e) \in Seq(Q)
  OBVIOUS

\* The selection from two queues in a row.
LEMMA OnlyConcat ==
    ASSUME NEW S, NEW Q, NEW a \in Seq(Q), NEW b \in Seq(Q)
    PROVE  Only(S, a \o b) = Only(S, a) \o Only(S, b)
<1> DEFINE q == a \o b
           kept == Kept(S, q)
           rest == Kept(S, b)
           head == Only(S, a)
           m == Len(a)
           T == {n \in 0 .. Len(b) : ~(rest[n] \in Seq(Q) /\ kept[m + n] = head \o rest[n])}
<1>1. /\ q \in Seq(Q) /\ Len(q) = m + Len(b) /\ m \in Nat /\ Len(b) \in Nat
      /\ \A n \in 1 .. Len(b) : q[m + n] = b[n] /\ b[n] \in Q
  OBVIOUS
<1>2. kept[m] = head
  BY KeptOfFirst
<1>3. head \in Seq(Q)
  <2>1. head \in Seq(S \cap Q) /\ S \cap Q \subseteq Q
    BY OnlySelects
  <2> HIDE DEF head
  <2> QED
    BY <2>1
<1> HIDE DEF q, m, head
<1>4. /\ rest[0] = <<>>
      /\ \A n \in 1 .. Len(q) :
            kept[n] = IF q[n] \in S THEN Append(kept[n - 1], q[n]) ELSE kept[n - 1]
      /\ \A n \in 1 .. Len(b) :
            rest[n] = IF b[n] \in S THEN Append(rest[n - 1], b[n]) ELSE rest[n - 1]
  BY <1>1, KeptSteps
<1> HIDE DEF kept, rest
<1>5. ASSUME NEW n \in 1 .. Len(b), n - 1 \notin T PROVE n \notin T
  <2>1. /\ n - 1 \in 0 .. Len(b) /\ m + n \in 1 .. Len(q) /\ m + n - 1 = m + (n - 1)
        /\ q[m + n] = b[n] /\ b[n] \in Q
    BY <1>1
  <2>2. rest[n - 1] \in Seq(Q) /\ kept[m + n - 1] = head \o rest[n - 1]
    BY <1>5, <2>1
  <2>3. kept[m + n] = IF b[n] \in S THEN Append(kept[m + n - 1], b[n]) ELSE kept[m + n - 1]
    <3> PICK k : k = m + n
      OBVIOUS
    <3>1. k \in 1 .. Len(q) /\ q[k] = b[n]
      BY <2>1
    <3>2. kept[k] = IF q[k] \in S THEN Append(kept[k - 1], q[k]) ELSE kept[k - 1]
      BY <1>4, <3>1
    <3>3. k - 1 = m + n - 1
      BY <1>1
    <3> QED
      BY <3>1, <3>2, <3>3
  <2>4. rest[n] = IF b[n] \in S THEN Append(rest[n - 1], b[n]) ELSE rest[n - 1]
    BY <1>4
  <2>5. /\ Append(head \o rest[n - 1], b[n]) = head \o Append(rest[n - 1], b[n])
        /\ Append(rest[n - 1], b[n]) \in Seq(Q)
    <3>1. head \in Seq(Q) /\ rest[n - 1] \in Seq(Q) /\ b[n] \in Q
      BY <1>3, <2>1, <2>2
    <3> QED
      BY <3>1, AppendToConcat, Zenon
  <2>6. rest[n] \in Seq(Q) /\ kept[m + n] = head \o rest[n]
    BY <2>2, <2>3, <2>4, <2>5
  <2> QED
    BY <2>6
<1>6. 0 \notin T /\ T \subseteq 0 .. Len(b)
  <2>1. m + 0 = m /\ head \o <<>> = head /\ <<>> \in Seq(Q)
    BY <1>1, <1>3
  <2> QED
    BY <1>2, <1>4, <2>1
<1>7. T = {}
  <2>1. \A n \in 1 .. Len(b) : n - 1 \notin T => n \notin T
    BY <1>5
  <2> HIDE DEF T
  <2> QED
    BY <1>1, <1>6, <2>1, NoneFails
<1>8. kept[m + Len(b)] = head \o rest[Len(b)]
  BY <1>1, <1>7, SMTT(30)
<1> QED
  BY <1>1, <1>8 DEF Only, kept, rest, head, q

LEMMA OnlyNone == \A S : Only(S, <<>>) = <<>>
<1> TAKE S
<1>1. \A queue : queue \in Seq({}) => Only(S, queue) \in Seq(S \cap {})
  BY OnlySelects
<1>2. <<>> \in Seq({}) /\ S \cap {} = {} /\ \A q \in Seq({}) : q = <<>>
  OBVIOUS
<1> QED
  BY <1>1, <1>2

LEMMA OnlyOne ==
    ASSUME NEW S, NEW e
    PROVE  Only(S, <<e>>) = IF e \in S THEN <<e>> ELSE <<>>
<1>1. CASE e \in S
  <2>1. <<e>> \in Seq(S)
    BY <1>1
  <2> QED
    BY <1>1, <2>1, OnlyAll
<1>2. CASE e \notin S
  <2>1. <<e>> \in Seq({e}) /\ S \cap {e} = {} /\ \A q \in Seq({}) : q = <<>>
    BY <1>2
  <2>2. Only(S, <<e>>) \in Seq(S \cap {e})
    BY <2>1, OnlySelects
  <2> QED
    BY <1>2, <2>1, <2>2
<1> QED
  BY <1>1, <1>2

LEMMA OnlyAppend ==
    ASSUME NEW S, NEW Q, NEW x \in Seq(Q), NEW e \in Q
    PROVE  Only(S, Append(x, e)) = IF e \in S THEN Append(Only(S, x), e) ELSE Only(S, x)
<1>1. Append(x, e) = x \o <<e>> /\ <<e>> \in Seq(Q)
  OBVIOUS
<1>2. Only(S, x \o <<e>>) = Only(S, x) \o Only(S, <<e>>)
  BY <1>1, OnlyConcat
<1>3. Only(S, x) \in Seq(S \cap Q)
  BY OnlySelects
<1>4. /\ Only(S, x) \o <<e>> = Append(Only(S, x), e)
      /\ Only(S, x) \o <<>> = Only(S, x)
  BY <1>3
<1> QED
  BY <1>1, <1>2, <1>4, OnlyOne

\* A selection from a selection.
LEMMA OnlyTwice ==
    ASSUME NEW S, NEW R, NEW Q, NEW queue \in Seq(Q)
    PROVE  Only(S, Only(R, queue)) = Only(S \cap R, queue)
<1> DEFINE once == Kept(R, queue)
           both == Kept(S \cap R, queue)
           T == {n \in 0 .. Len(queue) : ~(once[n] \in Seq(Q) /\ Only(S, once[n]) = both[n])}
<1>1. /\ Len(queue) \in Nat /\ once[0] = <<>> /\ both[0] = <<>>
      /\ \A n \in 1 .. Len(queue) :
            once[n] = IF queue[n] \in R THEN Append(once[n - 1], queue[n]) ELSE once[n - 1]
      /\ \A n \in 1 .. Len(queue) :
            both[n] = IF queue[n] \in S \cap R THEN Append(both[n - 1], queue[n])
                      ELSE both[n - 1]
  BY KeptSteps
<1> HIDE DEF once, both
<1>2. Only(S, <<>>) = <<>>
  BY OnlyNone
<1>3. \A x \in Seq(Q), e \in Q :
         Only(S, Append(x, e)) = IF e \in S THEN Append(Only(S, x), e) ELSE Only(S, x)
  BY OnlyAppend
<1>4. ASSUME NEW n \in 1 .. Len(queue), n - 1 \notin T PROVE n \notin T
  <2>1. n - 1 \in 0 .. Len(queue) /\ queue[n] \in Q
    BY <1>1
  <2>2. once[n - 1] \in Seq(Q) /\ Only(S, once[n - 1]) = both[n - 1]
    BY <1>4, <2>1
  <2>3. once[n] \in Seq(Q)
    <3>1. Append(once[n - 1], queue[n]) \in Seq(Q)
      BY <2>1, <2>2
    <3>2. once[n] \in {once[n - 1], Append(once[n - 1], queue[n])}
      BY <1>1
    <3> QED
      BY <2>2, <3>1, <3>2
  <2>4. Only(S, once[n]) = both[n]
    <3>1. CASE queue[n] \in R
      BY <1>1, <1>3, <2>1, <2>2, <3>1
    <3>2. CASE queue[n] \notin R
      BY <1>1, <2>2, <3>2
    <3> QED
      BY <3>1, <3>2
  <2> QED
    BY <2>3, <2>4
<1>5. 0 \notin T /\ T \subseteq 0 .. Len(queue)
  <2>1. <<>> \in Seq(Q)
    OBVIOUS
  <2>2. once[0] \in Seq(Q) /\ Only(S, once[0]) = both[0]
    BY <1>1, <1>2, <2>1
  <2> QED
    BY <2>2
<1>6. T = {}
  <2>1. \A n \in 1 .. Len(queue) : n - 1 \notin T => n \notin T
    BY <1>4
  <2> HIDE DEF T
  <2> QED
    BY <1>1, <1>5, <2>1, NoneFails
<1>7. Only(S, once[Len(queue)]) = both[Len(queue)]
  BY <1>1, <1>6
<1> QED
  BY <1>7 DEF Only, once, both

===============================================================================
