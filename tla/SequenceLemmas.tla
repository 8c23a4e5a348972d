--------------------------- MODULE SequenceLemmas ---------------------------
(***************************************************************************)
(* Facts about queues and lists that the proofs share: what adding or      *)
(* removing an element does to the elements of a sequence, and that it     *)
(* keeps a sequence free of repetitions.                                   *)
(***************************************************************************)
EXTENDS Sequences, Functions, TLAPS, SequenceTheorems, WellFoundedInduction

\* Appending an element adds it to the elements, and keeps the sequence free of
\* repetitions if it was not among them.
LEMMA AppendRange ==
    ASSUME NEW S, NEW s \in Seq(S), NEW x \in S
    PROVE  /\ Append(s, x) \in Seq(S)
           /\ Len(Append(s, x)) = Len(s) + 1
           /\ Range(Append(s, x)) = Range(s) \cup {x}
           /\ IsInjective(s) /\ x \notin Range(s) => IsInjective(Append(s, x))
<1> DEFINE t == Append(s, x)
<1>1. /\ t \in Seq(S) /\ Len(t) = Len(s) + 1
      /\ \A i \in 1 .. Len(s) : t[i] = s[i]
      /\ t[Len(s) + 1] = x
  BY AppendProperties
<1>2. DOMAIN s = 1 .. Len(s) /\ DOMAIN t = 1 .. (Len(s) + 1) /\ Len(s) \in Nat
  BY <1>1, LenProperties
<1>3. Range(t) = Range(s) \cup {x}
  <2>1. ASSUME NEW y \in Range(t) PROVE y \in Range(s) \cup {x}
    <3>1. PICK i \in 1 .. (Len(s) + 1) : y = t[i]  BY <1>2, <2>1 DEF Range
    <3>2. CASE i = Len(s) + 1  BY <1>1, <3>1, <3>2
    <3>3. CASE i \in 1 .. Len(s)  BY <1>1, <1>2, <3>1, <3>3 DEF Range
    <3> QED BY <1>2, <3>1, <3>2, <3>3
  <2>2. ASSUME NEW y \in Range(s) PROVE y \in Range(t)
    <3>1. PICK i \in 1 .. Len(s) : y = s[i]  BY <1>2, <2>2 DEF Range
    <3>2. i \in DOMAIN t /\ y = t[i]  BY <1>1, <1>2, <3>1
    <3> QED BY <3>2 DEF Range
  <2>3. Len(s) + 1 \in DOMAIN t  BY <1>2
  <2>4. x \in Range(t)  BY <1>1, <2>3 DEF Range
  <2> QED BY <2>1, <2>2, <2>4
<1>4. ASSUME IsInjective(s), x \notin Range(s) PROVE IsInjective(t)
  <2>1. \A i \in 1 .. Len(s) : s[i] # x  BY <1>2, <1>4 DEF Range
  <2>2. \A i, k \in 1 .. Len(s) : s[i] = s[k] => i = k  BY <1>2, <1>4 DEF IsInjective
  <2>3. \A i, k \in 1 .. (Len(s) + 1) : t[i] = t[k] => i = k
    BY <1>1, <1>2, <2>1, <2>2
  <2> QED BY <1>2, <2>3 DEF IsInjective
<1> QED BY <1>1, <1>3, <1>4

\* Removing the head of a sequence without repetitions removes exactly that
\* element from its range.
LEMMA TailRange ==
    ASSUME NEW S, NEW s \in Seq(S), s # <<>>
    PROVE  /\ Head(s) \in S
           /\ Tail(s) \in Seq(S)
           /\ Len(Tail(s)) = Len(s) - 1
           /\ Range(s) = Range(Tail(s)) \cup {Head(s)}
           /\ IsInjective(s) => /\ IsInjective(Tail(s))
                                /\ Head(s) \notin Range(Tail(s))
<1> DEFINE t == Tail(s)
<1>1. /\ Head(s) \in S /\ t \in Seq(S) /\ Len(t) = Len(s) - 1
      /\ \A i \in 1 .. Len(t) : t[i] = s[i + 1]
  BY HeadTailProperties
<1>2. /\ DOMAIN s = 1 .. Len(s) /\ DOMAIN t = 1 .. (Len(s) - 1)
      /\ Len(s) \in Nat /\ Len(s) # 0
  BY <1>1, LenProperties, EmptySeq
<1>3. Head(s) = s[1]  OBVIOUS
<1>4. Range(s) = Range(t) \cup {Head(s)}
  <2>1. ASSUME NEW y \in Range(s) PROVE y \in Range(t) \cup {Head(s)}
    <3>1. PICK i \in 1 .. Len(s) : y = s[i]  BY <1>2, <2>1 DEF Range
    <3>2. CASE i = 1  BY <1>3, <3>1, <3>2
    <3>3. CASE i # 1
      <4>1. i - 1 \in DOMAIN t /\ t[i - 1] = s[i]  BY <1>1, <1>2, <3>1, <3>3
      <4> QED BY <3>1, <4>1 DEF Range
    <3> QED BY <3>2, <3>3
  <2>2. ASSUME NEW y \in Range(t) PROVE y \in Range(s)
    <3>1. PICK i \in 1 .. (Len(s) - 1) : y = t[i]  BY <1>2, <2>2 DEF Range
    <3>2. i + 1 \in DOMAIN s /\ y = s[i + 1]  BY <1>1, <1>2, <3>1
    <3> QED BY <3>2 DEF Range
  <2>3. Head(s) \in Range(s)
    <3>1. 1 \in DOMAIN s  BY <1>2
    <3> QED BY <1>3, <3>1 DEF Range
  <2> QED BY <2>1, <2>2, <2>3
<1>5. ASSUME IsInjective(s) PROVE IsInjective(t) /\ Head(s) \notin Range(t)
  <2>1. \A i, k \in 1 .. Len(s) : s[i] = s[k] => i = k  BY <1>2, <1>5 DEF IsInjective
  <2>2. \A i, k \in 1 .. (Len(s) - 1) : t[i] = t[k] => i = k
    BY <1>1, <1>2, <2>1
  <2>3. \A i \in 1 .. (Len(s) - 1) : t[i] # s[1]  BY <1>1, <1>2, <2>1
  <2>4. IsInjective(t)  BY <1>2, <2>2 DEF IsInjective
  <2>5. Head(s) \notin Range(t)  BY <1>2, <1>3, <2>3 DEF Range
  <2> QED BY <2>4, <2>5
<1> QED BY <1>1, <1>4, <1>5

\* Adding an element at the front.
LEMMA ConsRange ==
    ASSUME NEW S, NEW s \in Seq(S), NEW x \in S
    PROVE  /\ <<x>> \o s \in Seq(S)
           /\ Range(<<x>> \o s) = Range(s) \cup {x}
           /\ IsInjective(s) /\ x \notin Range(s) => IsInjective(<<x>> \o s)
<1> DEFINE t == <<x>> \o s
<1>1. /\ t \in Seq(S) /\ Len(t) = 1 + Len(s)
      /\ \A i \in 1 .. (1 + Len(s)) : t[i] = IF i <= 1 THEN <<x>>[i] ELSE s[i - 1]
  <2>1. <<x>> \in Seq(S) /\ Len(<<x>>) = 1  OBVIOUS
  <2> QED BY <2>1, ConcatProperties
<1>2. DOMAIN s = 1 .. Len(s) /\ DOMAIN t = 1 .. (Len(s) + 1) /\ Len(s) \in Nat
  BY <1>1, LenProperties
<1>3. t[1] = x /\ \A i \in 1 .. Len(s) : t[i + 1] = s[i]
  BY <1>1, <1>2
<1>4. Range(t) = Range(s) \cup {x}
  <2>1. ASSUME NEW y \in Range(t) PROVE y \in Range(s) \cup {x}
    <3>1. PICK i \in 1 .. (Len(s) + 1) : y = t[i]  BY <1>2, <2>1 DEF Range
    <3>2. CASE i = 1  BY <1>3, <3>1, <3>2
    <3>3. CASE i # 1
      <4>1. i - 1 \in DOMAIN s /\ y = s[i - 1]
        BY <1>1, <1>2, <3>1, <3>3
      <4> QED BY <4>1 DEF Range
    <3> QED BY <3>2, <3>3
  <2>2. ASSUME NEW y \in Range(s) PROVE y \in Range(t)
    <3>1. PICK i \in 1 .. Len(s) : y = s[i]  BY <1>2, <2>2 DEF Range
    <3>2. i + 1 \in DOMAIN t /\ y = t[i + 1]  BY <1>2, <1>3, <3>1
    <3> QED BY <3>2 DEF Range
  <2>3. 1 \in DOMAIN t  BY <1>2
  <2>4. x \in Range(t)  BY <1>3, <2>3 DEF Range
  <2> QED BY <2>1, <2>2, <2>4
<1>5. ASSUME IsInjective(s), x \notin Range(s) PROVE IsInjective(t)
  <2>1. \A i \in 1 .. Len(s) : s[i] # x  BY <1>2, <1>5 DEF Range
  <2>2. \A i, k \in 1 .. Len(s) : s[i] = s[k] => i = k  BY <1>2, <1>5 DEF IsInjective
  <2>3. \A i \in 2 .. (Len(s) + 1) : t[i] = s[i - 1] /\ i - 1 \in 1 .. Len(s)
    BY <1>1, <1>2
  <2>4. \A i, k \in 1 .. (Len(s) + 1) : t[i] = t[k] => i = k
    BY <1>2, <1>3, <2>1, <2>2, <2>3
  <2> QED BY <1>2, <2>4 DEF IsInjective
<1> QED BY <1>1, <1>4, <1>5

-----------------------------------------------------------------------------
(* Loops over the positions of a sequence.  What holds at every position   *)
(* is a set of numbers, and what a turn of a loop does is a function, as   *)
(* a lemma cannot be about every operator.                                 *)

\* Sets of natural numbers have a least element.
LEMMA Least ==
    ASSUME NEW S \in SUBSET Nat, S # {}
    PROVE  \E m \in S : \A k \in S : m <= k
<1>1. PICK m \in S : \A k \in S : <<k, m>> \notin OpToRel(<, Nat)
  BY NatLessThanWellFounded, WFMin
<1>2. ASSUME NEW k \in S PROVE ~(k < m)
  <2>1. <<k, m>> \notin OpToRel(<, Nat)
    BY <1>1, Zenon
  <2> QED BY <2>1, Zenon DEF OpToRel
<1>3. \A k \in S : m <= k
  BY <1>2
<1> QED BY <1>3

\* What holds at the start of a loop and is kept by every turn holds all along.
LEMMA EveryTurn ==
    ASSUME NEW S, NEW n \in Nat, 0 \in S, \A i \in 1 .. n : i - 1 \in S => i \in S
    PROVE  0 .. n \subseteq S
<1> DEFINE T == {i \in 0 .. n : i \notin S}
<1> SUFFICES ASSUME T # {} PROVE FALSE
  OBVIOUS
<1>1. PICK m \in T : \A y \in T : m <= y
  <2>1. T \in SUBSET Nat  OBVIOUS
  <2> QED BY <2>1, Least
<1>2. m \in 1 .. n /\ m \notin S  OBVIOUS
<1>3. m - 1 \in S  BY <1>1, <1>2
<1> QED BY <1>2, <1>3

\* The same for a loop that runs backwards.
LEMMA EveryTurnBack ==
    ASSUME NEW S, NEW n \in Nat, n + 1 \in S, \A i \in 1 .. n : i + 1 \in S => i \in S
    PROVE  1 .. (n + 1) \subseteq S
<1> DEFINE T == {k \in 0 .. n : n + 1 - k \in S}
<1>1. 0 \in T  OBVIOUS
<1>2. ASSUME NEW k \in 1 .. n, k - 1 \in T PROVE k \in T
  <2>1. n + 1 - k \in 1 .. n /\ (n + 1 - k) + 1 = n + 1 - (k - 1)  OBVIOUS
  <2>2. (n + 1 - k) + 1 \in S  BY <1>2, <2>1
  <2> QED BY <2>1, <2>2
<1>3. 0 .. n \subseteq T  BY <1>1, <1>2, EveryTurn
<1> SUFFICES ASSUME NEW i \in 1 .. (n + 1) PROVE i \in S
  OBVIOUS
<1>4. n + 1 - i \in 0 .. n /\ n + 1 - (n + 1 - i) = i  OBVIOUS
<1>5. n + 1 - i \in T  BY <1>3, <1>4
<1> QED BY <1>4, <1>5

\* What a turn of a loop makes of the loop's variable, and the values of the variable
\* after each turn; those of a loop that runs backwards.
Turns(n, D) == [(1 .. n) \X D -> D]
Loop(f, n, D, first, turn) ==
    f \in [0 .. n -> D] /\ f[0] = first /\ \A i \in 1 .. n : f[i] = turn[<<i, f[i - 1]>>]
LoopBack(f, n, D, last, turn) ==
    f \in [1 .. (n + 1) -> D] /\ f[n + 1] = last /\ \A i \in 1 .. n : f[i] = turn[<<i, f[i + 1]>>]

\* A loop has values after every turn.
LEMMA LoopExists ==
    ASSUME NEW D, NEW b \in D, NEW n \in Nat, NEW turn \in Turns(n, D)
    PROVE  \E f : Loop(f, n, D, b, turn)
<1> USE DEF Turns
<1> DEFINE After(m, f) == f[0] = b /\ \A i \in 1 .. m : f[i] = turn[<<i, f[i - 1]>>]
           S == {m \in 0 .. n : \E f \in [0 .. m -> D] : After(m, f)}
<1>1. 0 \in S
  <2> DEFINE f == [i \in 0 .. 0 |-> b]
  <2>1. f \in [0 .. 0 -> D] /\ After(0, f)  OBVIOUS
  <2> HIDE DEF f
  <2>2. \E h \in [0 .. 0 -> D] : After(0, h)  BY <2>1
  <2> QED BY <2>2
<1>2. ASSUME NEW m \in 1 .. n, m - 1 \in S PROVE m \in S
  <2>1. PICK g \in [0 .. (m - 1) -> D] : After(m - 1, g)  BY <1>2
  <2> DEFINE f == [i \in 0 .. m |-> IF i = m THEN turn[<<m, g[m - 1]>>] ELSE g[i]]
  <2>2. g[m - 1] \in D /\ <<m, g[m - 1]>> \in (1 .. n) \X D  OBVIOUS
  <2>3. turn[<<m, g[m - 1]>>] \in D  BY <2>2
  <2>4. f \in [0 .. m -> D]  BY <2>3
  <2>5. \A i \in 0 .. (m - 1) : f[i] = g[i]  OBVIOUS
  <2>6. After(m, f)
    <3>1. f[0] = b  BY <2>1, <2>5
    <3>2. ASSUME NEW i \in 1 .. m PROVE f[i] = turn[<<i, f[i - 1]>>]
      <4>1. CASE i = m
        <5>1. f[i] = turn[<<m, g[m - 1]>>] /\ f[i - 1] = g[m - 1]  BY <2>5, <4>1
        <5> QED BY <4>1, <5>1
      <4>2. CASE i # m
        <5>1. i \in 1 .. (m - 1) /\ i - 1 \in 0 .. (m - 1)  BY <4>2
        <5>2. f[i] = g[i] /\ f[i - 1] = g[i - 1]  BY <2>5, <5>1
        <5> QED BY <2>1, <5>1, <5>2
      <4> QED BY <4>1, <4>2
    <3> QED BY <3>1, <3>2
  <2> HIDE DEF f
  <2>7. \E h \in [0 .. m -> D] : After(m, h)  BY <2>4, <2>6
  <2> QED BY <2>7
<1> HIDE DEF S
<1>3. 0 .. n \subseteq S  BY <1>1, <1>2, EveryTurn
<1>4. n \in S  BY <1>3
<1> USE DEF S
<1>5. PICK f \in [0 .. n -> D] : After(n, f)  BY <1>4
<1> QED BY <1>5 DEF Loop

\* The same for a loop that runs backwards.
LEMMA LoopBackExists ==
    ASSUME NEW D, NEW b \in D, NEW n \in Nat, NEW step \in Turns(n, D)
    PROVE  \E f : LoopBack(f, n, D, b, step)
<1>1. PICK back : back = [p \in (1 .. n) \X D |-> step[<<n + 1 - p[1], p[2]>>]]
  OBVIOUS
<1>2. back \in Turns(n, D)
  <2>1. ASSUME NEW p \in (1 .. n) \X D PROVE step[<<n + 1 - p[1], p[2]>>] \in D
    <3>1. <<n + 1 - p[1], p[2]>> \in (1 .. n) \X D  OBVIOUS
    <3> QED BY <3>1 DEF Turns
  <2> QED BY <1>1, <2>1 DEF Turns
<1>3. \E g : Loop(g, n, D, b, back)  BY <1>2, LoopExists
<1>4. PICK g \in [0 .. n -> D] : g[0] = b /\ \A i \in 1 .. n : g[i] = back[<<i, g[i - 1]>>]
  BY <1>3 DEF Loop
<1> DEFINE f == [i \in 1 .. (n + 1) |-> g[n + 1 - i]]
<1>5. f \in [1 .. (n + 1) -> D] /\ f[n + 1] = b  BY <1>4
<1>6. ASSUME NEW i \in 1 .. n PROVE f[i] = step[<<i, f[i + 1]>>]
  <2> DEFINE k == n + 1 - i
  <2>1. k \in 1 .. n /\ k - 1 = n + 1 - (i + 1) /\ n + 1 - k = i  OBVIOUS
  <2>2. f[i] = g[k] /\ f[i + 1] = g[k - 1] /\ g[k - 1] \in D  BY <2>1
  <2>3. g[k] = step[<<n + 1 - k, g[k - 1]>>]
    <3>1. g[k] = back[<<k, g[k - 1]>>]  BY <1>4, <2>1
    <3>2. <<k, g[k - 1]>> \in (1 .. n) \X D  BY <2>1, <2>2
    <3> QED BY <1>1, <3>1, <3>2
  <2> QED BY <2>1, <2>2, <2>3
<1> QED BY <1>5, <1>6 DEF LoopBack
=============================================================================
