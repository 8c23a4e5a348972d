------------------------ MODULE SystemConfig_proofs ------------------------
(***************************************************************************)
(* Proofs about SystemConfig: that a request has an answer that the        *)
(* settings of its moments explain, that one rule of a list of hosts       *)
(* decides as it says but for two departures, and that a list of proxies   *)
(* reaches the client whole where its uris fit into their room. They are   *)
(* for any settings, symbols, widths of an address, sizes of a buffer and  *)
(* lengths of a list, under what the end of SystemConfig says of a desktop *)
(* and its user.                                                           *)
(*                                                                         *)
(* First the operators that the model is built from: what the recursion of *)
(* str_wildcard_match and the loops over lists compute. Each is a function *)
(* defined by its own values, so that it has to be shown that such a       *)
(* function exists (LoopExists) before anything can be said of it, and     *)
(* what holds after each turn is an induction over a set of turns          *)
(* (EveryTurn).                                                            *)
(*                                                                         *)
(* Then the request. Stage says what its reads have brought by each step:  *)
(* what settings gave that were seen at moments in the order of the reads. *)
(* A change of the settings adds a moment and leaves those before it as    *)
(* they are (SeenStays), so that Stage stays true however many there are.  *)
(***************************************************************************)
EXTENDS SystemConfig, SequenceLemmas

-----------------------------------------------------------------------------
(* str_wildcard_match.                                                     *)

\* The turn for position j of the pattern, if the rest of it matches from these positions.
MatchesFrom(str, pattern, j, rest) ==
    {i \in 1 .. Len(str) + 1 :
        CASE i > Len(str) -> j > Len(pattern) \/ pattern[j] = "*"
          [] i <= Len(str) /\ j > Len(pattern) -> FALSE
          [] i <= Len(str) /\ j <= Len(pattern) /\ pattern[j] = "*" ->
                j = Len(pattern) \/ \E k \in i .. Len(str) : k \in rest
          [] OTHER -> str[i] = pattern[j] /\ i + 1 \in rest}

\* The recursion of str_wildcard_match is well defined.
LEMMA WildcardLoop ==
    ASSUME NEW S, NEW str \in Seq(S), NEW pattern \in Seq(S)
    PROVE  \E match : /\ WildcardMatch(str, pattern) <=> 1 \in match[1]
                      /\ \A j \in 1 .. Len(pattern) + 1 :
                            match[j] = MatchesFrom(str, pattern, j, match[j + 1])
<1> DEFINE n == Len(pattern)
           D == SUBSET (1 .. Len(str) + 1)
           turn == [p \in (1 .. n) \X D |-> MatchesFrom(str, pattern, p[1], p[2])]
           last == MatchesFrom(str, pattern, n + 1, {})
<1>1. n \in Nat /\ Len(str) \in Nat  OBVIOUS
<1>2. ASSUME NEW x PROVE MatchesFrom(str, pattern, n + 1, x) = last
  BY <1>1 DEF MatchesFrom
<1>3. last \in D /\ turn \in Turns(n, D)  BY DEF MatchesFrom, Turns
<1> HIDE DEF turn, last
<1>4. PICK f : LoopBack(f, n, D, last, turn)  BY <1>1, <1>3, LoopBackExists
<1>5. f = [j \in 1 .. Len(pattern) + 1 |-> MatchesFrom(str, pattern, j, f[j + 1])]
  <2>1. f \in [1 .. (n + 1) -> D]  BY <1>4 DEF LoopBack
  <2>2. ASSUME NEW j \in 1 .. (n + 1) PROVE f[j] = MatchesFrom(str, pattern, j, f[j + 1])
    <3>1. CASE j = n + 1  BY <1>2, <1>4, <3>1 DEF LoopBack
    <3>2. CASE j # n + 1
      <4>1. j \in 1 .. n /\ j + 1 \in 1 .. (n + 1)  BY <1>1, <3>2
      <4>2. <<j, f[j + 1]>> \in (1 .. n) \X D  BY <2>1, <4>1
      <4> QED BY <1>4, <4>1, <4>2 DEF turn, LoopBack
    <3> QED BY <3>1, <3>2
  <2> QED BY <1>1, <2>1, <2>2
<1> DEFINE m == CHOOSE g : g = [j \in 1 .. Len(pattern) + 1 |->
                                    MatchesFrom(str, pattern, j, g[j + 1])]
<1>6. m = [j \in 1 .. Len(pattern) + 1 |-> MatchesFrom(str, pattern, j, m[j + 1])]
  BY <1>5
<1>7. WildcardMatch(str, pattern) <=> 1 \in m[1]
  BY DEF WildcardMatch, MatchesFrom
<1> HIDE DEF m
<1>8. \A j \in 1 .. Len(pattern) + 1 : m[j] = MatchesFrom(str, pattern, j, m[j + 1])
  BY <1>6
<1> QED BY <1>7, <1>8

\* The symbols j to n of the pattern cover the text from position i on.
Cuts(str, pattern, i, j, n, cut) ==
    /\ cut \in [j .. n + 1 -> 0 .. Len(str)]
    /\ cut[j] = i - 1 /\ cut[n + 1] = Len(str)
    /\ \A m \in j .. n :
          IF pattern[m] = "*" THEN cut[m] <= cut[m + 1]
          ELSE cut[m + 1] = cut[m] + 1 /\ str[cut[m + 1]] = pattern[m]

\* The same for some way to cut the text.
Covers(str, pattern, i, j, n) ==
    \E cut : Cuts(str, pattern, i, j, n, cut)

\* The text from position i on is of the form of the pattern from position j on.
RestMatches(str, pattern, i, j) ==
    \E n \in j - 1 .. Len(pattern) :
        /\ n < Len(pattern) => pattern[n + 1] = "*" /\ (n = j - 1 \/ pattern[n] # "*")
        /\ Covers(str, pattern, i, j, n)

\* No symbols cover no text.
LEMMA CoversNothing ==
    ASSUME NEW S, NEW str \in Seq(S), NEW pattern,
           NEW i \in 1 .. Len(str) + 1, NEW j \in Nat \ {0}
    PROVE  Covers(str, pattern, i, j, j - 1) <=> i = Len(str) + 1
<1>1. Len(str) \in Nat  OBVIOUS
<1>2. ASSUME i = Len(str) + 1 PROVE Covers(str, pattern, i, j, j - 1)
  <2> DEFINE cut == [m \in j .. (j - 1) + 1 |-> Len(str)]
  <2>1. Cuts(str, pattern, i, j, j - 1, cut)  BY <1>1, <1>2 DEF Cuts
  <2> QED BY <2>1 DEF Covers
<1>3. ASSUME Covers(str, pattern, i, j, j - 1) PROVE i = Len(str) + 1
  BY <1>1, <1>3 DEF Covers, Cuts
<1> QED BY <1>2, <1>3

\* The first symbol covers a stretch, and the others the rest.
LEMMA CoversStep ==
    ASSUME NEW S, NEW str \in Seq(S), NEW pattern,
           NEW i \in 1 .. Len(str) + 1, NEW j \in Nat \ {0}, NEW n \in Nat, j <= n
    PROVE  Covers(str, pattern, i, j, n) <=>
              \E k \in 1 .. Len(str) + 1 :
                  /\ IF pattern[j] = "*" THEN i <= k ELSE k = i + 1 /\ str[i] = pattern[j]
                  /\ Covers(str, pattern, k, j + 1, n)
<1>1. Len(str) \in Nat  OBVIOUS
<1>2. ASSUME NEW cut, Cuts(str, pattern, i, j, n, cut)
      PROVE  \E k \in 1 .. Len(str) + 1 :
                  /\ IF pattern[j] = "*" THEN i <= k ELSE k = i + 1 /\ str[i] = pattern[j]
                  /\ Covers(str, pattern, k, j + 1, n)
  <2> DEFINE k == cut[j + 1] + 1
             rest == [m \in j + 1 .. n + 1 |-> cut[m]]
  <2>1. /\ cut \in [j .. n + 1 -> 0 .. Len(str)]
        /\ cut[j] = i - 1 /\ cut[n + 1] = Len(str)
        /\ \A m \in j .. n :
              IF pattern[m] = "*" THEN cut[m] <= cut[m + 1]
              ELSE cut[m + 1] = cut[m] + 1 /\ str[cut[m + 1]] = pattern[m]
    BY <1>2 DEF Cuts
  <2>2. j + 1 \in j .. n + 1 /\ j \in j .. n  OBVIOUS
  <2>3. k \in 1 .. Len(str) + 1  BY <1>1, <2>1, <2>2
  <2>4. IF pattern[j] = "*" THEN i <= k ELSE k = i + 1 /\ str[i] = pattern[j]
    BY <1>1, <2>1, <2>2
  <2>5. Cuts(str, pattern, k, j + 1, n, rest)
    <3>1. rest \in [j + 1 .. n + 1 -> 0 .. Len(str)]  BY <2>1
    <3>2. rest[j + 1] = k - 1 /\ rest[n + 1] = Len(str)  BY <1>1, <2>1, <2>2
    <3>3. \A m \in j + 1 .. n : rest[m] = cut[m] /\ rest[m + 1] = cut[m + 1]  OBVIOUS
    <3> HIDE DEF rest, k
    <3>4. ASSUME NEW m \in j + 1 .. n
          PROVE  IF pattern[m] = "*" THEN rest[m] <= rest[m + 1]
                 ELSE rest[m + 1] = rest[m] + 1 /\ str[rest[m + 1]] = pattern[m]
      <4>1. m \in j .. n  OBVIOUS
      <4> QED BY <2>1, <3>3, <4>1
    <3> QED BY <3>1, <3>2, <3>4 DEF Cuts
  <2>6. Covers(str, pattern, k, j + 1, n)  BY <2>5 DEF Covers
  <2> QED BY <2>3, <2>4, <2>6
<1>3. ASSUME NEW k \in 1 .. Len(str) + 1,
             IF pattern[j] = "*" THEN i <= k ELSE k = i + 1 /\ str[i] = pattern[j],
             NEW rest, Cuts(str, pattern, k, j + 1, n, rest)
      PROVE  Covers(str, pattern, i, j, n)
  <2> DEFINE cut == [m \in j .. n + 1 |-> IF m = j THEN i - 1 ELSE rest[m]]
  <2>1. /\ rest \in [j + 1 .. n + 1 -> 0 .. Len(str)]
        /\ rest[j + 1] = k - 1 /\ rest[n + 1] = Len(str)
        /\ \A m \in j + 1 .. n :
              IF pattern[m] = "*" THEN rest[m] <= rest[m + 1]
              ELSE rest[m + 1] = rest[m] + 1 /\ str[rest[m + 1]] = pattern[m]
    BY <1>3 DEF Cuts
  <2>2. cut \in [j .. n + 1 -> 0 .. Len(str)]  BY <1>1, <2>1
  <2>3. /\ cut[j] = i - 1 /\ cut[j + 1] = k - 1
        /\ \A m \in j + 1 .. n + 1 : cut[m] = rest[m]
    BY <2>1
  <2> HIDE DEF cut
  <2>4. ASSUME NEW m \in j .. n
        PROVE  IF pattern[m] = "*" THEN cut[m] <= cut[m + 1]
               ELSE cut[m + 1] = cut[m] + 1 /\ str[cut[m + 1]] = pattern[m]
    <3>1. CASE m = j  BY <1>3, <2>3, <3>1
    <3>2. CASE m # j
      <4>1. m \in j + 1 .. n /\ m + 1 \in j + 1 .. n + 1 /\ m \in j + 1 .. n + 1  BY <3>2
      <4> QED BY <2>1, <2>3, <4>1
    <3> QED BY <3>1, <3>2
  <2>5. Cuts(str, pattern, i, j, n, cut)
    <3>1. cut[n + 1] = Len(str)  BY <2>1, <2>3
    <3> QED BY <2>2, <2>3, <2>4, <3>1 DEF Cuts
  <2> QED BY <2>5 DEF Covers
<1> QED BY <1>2, <1>3 DEF Covers

\* Where nothing of the text is left, only stars cover it.
LEMMA OnlyStars ==
    ASSUME NEW S, NEW str \in Seq(S), NEW pattern, NEW j \in Nat \ {0}, NEW n \in Nat, j <= n
    PROVE  /\ Covers(str, pattern, Len(str) + 1, j, n) => \A m \in j .. n : pattern[m] = "*"
           /\ (\A m \in j .. n : pattern[m] = "*") =>
                 \A i \in 1 .. Len(str) + 1 : Covers(str, pattern, i, j, n)
<1>1. Len(str) \in Nat  OBVIOUS
<1>2. ASSUME NEW cut, Cuts(str, pattern, Len(str) + 1, j, n, cut), NEW m \in j .. n
      PROVE  pattern[m] = "*"
  <2>1. /\ cut \in [j .. n + 1 -> 0 .. Len(str)]
        /\ cut[j] = Len(str)
        /\ \A k \in j .. n :
              IF pattern[k] = "*" THEN cut[k] <= cut[k + 1] ELSE cut[k + 1] = cut[k] + 1
    BY <1>1, <1>2 DEF Cuts
  <2> DEFINE T == {d \in 0 .. n - j : cut[j + d] = Len(str)}
  <2>2. 0 \in T  BY <2>1
  <2>3. ASSUME NEW d \in 1 .. n - j, d - 1 \in T PROVE d \in T
    <3>1. /\ j + (d - 1) \in j .. n /\ j + (d - 1) + 1 = j + d
          /\ j + d \in j .. n + 1 /\ cut[j + (d - 1)] = Len(str)
      BY <2>3
    <3>2. cut[j + d] \in 0 .. Len(str)  BY <2>1, <3>1
    <3>3. cut[j + (d - 1)] <= cut[j + d]
      <4>1. PICK k \in j .. n : k = j + (d - 1)  BY <3>1
      <4>2. k + 1 = j + d /\ k \in j .. n + 1  BY <4>1
      <4>3. cut[k] \in 0 .. Len(str) /\ cut[k + 1] \in 0 .. Len(str)  BY <2>1, <3>2, <4>2
      <4>4. cut[k] <= cut[k + 1]  BY <1>1, <2>1, <4>3
      <4> QED BY <4>1, <4>2, <4>4
    <3> QED BY <1>1, <3>1, <3>2, <3>3
  <2>4. n - j \in Nat  OBVIOUS
  <2> HIDE DEF T
  <2>5. 0 .. n - j \subseteq T  BY <2>2, <2>3, <2>4, EveryTurn
  <2>6. m - j \in 0 .. n - j /\ j + (m - j) = m  OBVIOUS
  <2>7. cut[m] = Len(str)  BY <2>5, <2>6 DEF T
  <2>8. cut[m + 1] \in 0 .. Len(str)  BY <2>1
  <2> QED BY <1>1, <2>1, <2>7, <2>8
<1>3. ASSUME \A m \in j .. n : pattern[m] = "*", NEW i \in 1 .. Len(str) + 1
      PROVE  Covers(str, pattern, i, j, n)
  <2> DEFINE cut == [m \in j .. n + 1 |-> IF m = j THEN i - 1 ELSE Len(str)]
  <2>1. Cuts(str, pattern, i, j, n, cut)  BY <1>1, <1>3 DEF Cuts
  <2> QED BY <2>1 DEF Covers
<1> QED BY <1>2, <1>3 DEF Covers

\* One turn of str_wildcard_match is right if the rest is.
LEMMA RestMatchesTurn ==
    ASSUME NEW S, NEW str \in Seq(S), NEW pattern \in Seq(S),
           NEW j \in 1 .. Len(pattern), NEW i \in 1 .. Len(str) + 1
    PROVE  RestMatches(str, pattern, i, j) <=>
              i \in MatchesFrom(str, pattern, j,
                                {k \in 1 .. Len(str) + 1 : RestMatches(str, pattern, k, j + 1)})
<1> DEFINE rest == {k \in 1 .. Len(str) + 1 : RestMatches(str, pattern, k, j + 1)}
           Fits(n) == n < Len(pattern) => pattern[n + 1] = "*" /\ (n = j - 1 \/ pattern[n] # "*")
           Goal == i \in MatchesFrom(str, pattern, j, rest)
<1>1. Len(str) \in Nat /\ Len(pattern) \in Nat  OBVIOUS
<1>2. CASE i = Len(str) + 1
  <2>1. Goal <=> pattern[j] = "*"  BY <1>1, <1>2 DEF MatchesFrom
  <2>2. ASSUME pattern[j] = "*" PROVE RestMatches(str, pattern, i, j)
    <3>1. Covers(str, pattern, i, j, j - 1)  BY <1>2, CoversNothing
    <3> QED BY <1>1, <2>2, <3>1 DEF RestMatches
  <2>3. ASSUME NEW n \in j - 1 .. Len(pattern), Fits(n), Covers(str, pattern, i, j, n)
        PROVE  pattern[j] = "*"
    <3>1. CASE n = j - 1  BY <1>1, <2>3, <3>1
    <3>2. CASE n # j - 1
      <4>1. n \in Nat /\ j <= n /\ j \in Nat \ {0}  BY <1>1, <3>2
      <4>2. \A m \in j .. n : pattern[m] = "*"  BY <1>2, <2>3, <4>1, OnlyStars
      <4> QED BY <4>1, <4>2
    <3> QED BY <3>1, <3>2
  <2> QED BY <2>1, <2>2, <2>3 DEF RestMatches
<1>3. CASE i # Len(str) + 1
  <2>1. i \in 1 .. Len(str)  BY <1>1, <1>3
  <2>2. ASSUME NEW n \in j - 1 .. Len(pattern), Covers(str, pattern, i, j, n)
        PROVE  n \in j .. Len(pattern) /\ n \in Nat
    <3>1. j \in Nat \ {0}  OBVIOUS
    <3>2. ~ Covers(str, pattern, i, j, j - 1)  BY <1>3, <3>1, CoversNothing
    <3>3. n # j - 1  BY <2>2, <3>2
    <3> QED BY <1>1, <3>3
  <2>3. ASSUME NEW n \in j .. Len(pattern), NEW k \in 1 .. Len(str),
               Covers(str, pattern, k, j + 1, n)
        PROVE  n \in j + 1 .. Len(pattern)
    <3>1. j + 1 \in Nat \ {0} /\ (j + 1) - 1 = j /\ k \in 1 .. Len(str) + 1  BY <1>1
    <3>2. k # Len(str) + 1  BY <1>1
    <3>3. ~ Covers(str, pattern, k, j + 1, (j + 1) - 1)  BY <3>1, <3>2, CoversNothing
    <3>4. n # j  BY <2>3, <3>1, <3>3
    <3> QED BY <3>4
  <2>4. CASE pattern[j] = "*"
    <3>1. Goal <=> j = Len(pattern) \/ \E k \in i .. Len(str) : k \in rest
      BY <1>1, <2>1, <2>4 DEF MatchesFrom
    <3>2. ASSUME NEW n \in j - 1 .. Len(pattern), Fits(n), Covers(str, pattern, i, j, n)
          PROVE  j = Len(pattern) \/ \E k \in i .. Len(str) : k \in rest
      <4>1. n \in j .. Len(pattern) /\ n \in Nat /\ j \in Nat \ {0}  BY <2>2, <3>2
      <4>2. PICK k \in 1 .. Len(str) + 1 : i <= k /\ Covers(str, pattern, k, j + 1, n)
        BY <2>4, <3>2, <4>1, CoversStep
      <4>3. CASE k \in 1 .. Len(str)
        <5>1. n \in j + 1 .. Len(pattern)  BY <2>3, <4>1, <4>2, <4>3
        <5>2. n < Len(pattern) => pattern[n + 1] = "*" /\ pattern[n] # "*"
          BY <3>2, <5>1
        <5>3. RestMatches(str, pattern, k, j + 1)
          BY <1>1, <4>2, <5>1, <5>2 DEF RestMatches
        <5> QED BY <4>2, <4>3, <5>3
      <4>4. CASE k = Len(str) + 1
        <5>1. CASE n = j  BY <1>1, <2>4, <3>2, <5>1
        <5>2. CASE n # j
          <6>1. n \in j + 1 .. Len(pattern) /\ j + 1 \in Nat \ {0} /\ j + 1 <= n
            BY <4>1, <5>2
          <6>2. \A m \in j + 1 .. n : pattern[m] = "*"
            BY <4>1, <4>2, <4>4, <6>1, OnlyStars
          <6>3. n = Len(pattern)  BY <1>1, <3>2, <6>1, <6>2
          <6>4. Covers(str, pattern, i, j + 1, n)  BY <4>1, <6>1, <6>2, OnlyStars
          <6>5. RestMatches(str, pattern, i, j + 1)
            BY <1>1, <6>1, <6>3, <6>4 DEF RestMatches
          <6> QED BY <2>1, <6>5
        <5> QED BY <5>1, <5>2
      <4> QED BY <1>1, <4>3, <4>4
    <3>3. ASSUME j = Len(pattern) PROVE RestMatches(str, pattern, i, j)
      <4>1. j \in Nat \ {0} /\ j \in Nat /\ j <= j  OBVIOUS
      <4>2. \A m \in j .. j : pattern[m] = "*"  BY <2>4
      <4>3. Covers(str, pattern, i, j, j)  BY <4>1, <4>2, OnlyStars
      <4> QED BY <1>1, <3>3, <4>3 DEF RestMatches
    <3>4. ASSUME NEW k \in i .. Len(str), k \in rest PROVE RestMatches(str, pattern, i, j)
      <4>1. k \in 1 .. Len(str)  BY <2>1
      <4>2. PICK n \in (j + 1) - 1 .. Len(pattern) :
                /\ n < Len(pattern) =>
                      pattern[n + 1] = "*" /\ (n = (j + 1) - 1 \/ pattern[n] # "*")
                /\ Covers(str, pattern, k, j + 1, n)
        BY <3>4 DEF RestMatches
      <4>3. n \in j + 1 .. Len(pattern)  BY <2>3, <4>1, <4>2
      <4>4. Covers(str, pattern, i, j, n)
        <5>1. k \in 1 .. Len(str) + 1 /\ i <= k /\ j \in Nat \ {0} /\ n \in Nat /\ j <= n
          BY <4>1, <4>3
        <5> QED BY <2>4, <4>2, <5>1, CoversStep
      <4> QED BY <1>1, <4>2, <4>3, <4>4 DEF RestMatches
    <3> QED BY <3>1, <3>2, <3>3, <3>4 DEF RestMatches
  <2>5. CASE pattern[j] # "*"
    <3>1. Goal <=> str[i] = pattern[j] /\ i + 1 \in rest
      BY <1>1, <2>1, <2>5 DEF MatchesFrom
    <3>2. ASSUME NEW n \in j .. Len(pattern)
          PROVE  Covers(str, pattern, i, j, n) <=>
                    str[i] = pattern[j] /\ Covers(str, pattern, i + 1, j + 1, n)
      <4>1. i + 1 \in 1 .. Len(str) + 1 /\ j \in Nat \ {0} /\ n \in Nat /\ j <= n
        BY <2>1
      <4> QED BY <2>5, <4>1, CoversStep
    <3>3. ASSUME NEW n \in j - 1 .. Len(pattern), Fits(n), Covers(str, pattern, i, j, n)
          PROVE  str[i] = pattern[j] /\ i + 1 \in rest
      <4>1. n \in j .. Len(pattern)  BY <2>2, <3>3
      <4>2. str[i] = pattern[j] /\ Covers(str, pattern, i + 1, j + 1, n)
        BY <3>2, <3>3, <4>1
      <4>3. RestMatches(str, pattern, i + 1, j + 1)
        BY <1>1, <3>3, <4>1, <4>2 DEF RestMatches
      <4> QED BY <2>1, <4>2, <4>3
    <3>4. ASSUME str[i] = pattern[j], i + 1 \in rest PROVE RestMatches(str, pattern, i, j)
      <4>1. PICK n \in (j + 1) - 1 .. Len(pattern) :
                /\ n < Len(pattern) =>
                      pattern[n + 1] = "*" /\ (n = (j + 1) - 1 \/ pattern[n] # "*")
                /\ Covers(str, pattern, i + 1, j + 1, n)
        BY <3>4 DEF RestMatches
      <4>2. n \in j .. Len(pattern) /\ n \in j - 1 .. Len(pattern)  OBVIOUS
      <4>3. Covers(str, pattern, i, j, n)  BY <3>2, <3>4, <4>1, <4>2
      <4>4. n < Len(pattern) => pattern[n + 1] = "*" /\ pattern[n] # "*"
        BY <2>5, <4>1, <4>2
      <4> QED BY <4>2, <4>3, <4>4 DEF RestMatches
    <3> QED BY <3>1, <3>3, <3>4 DEF RestMatches
  <2> QED BY <2>4, <2>5
<1> QED BY <1>2, <1>3

\* A sequence up to each position.
LEMMA PrefixUpTo ==
    ASSUME NEW S, NEW s \in Seq(S)
    PROVE  /\ SubSeq(s, 1, 0) = <<>> /\ SubSeq(s, 1, Len(s)) = s
           /\ \A i \in 1 .. Len(s) : Append(SubSeq(s, 1, i - 1), s[i]) = SubSeq(s, 1, i)
<1>1. Len(s) \in Nat  BY LenProperties
<1>2. SubSeq(s, 1, 0) = <<>>
  <2>1. SubSeq(s, 1, 0) \in Seq(S) /\ Len(SubSeq(s, 1, 0)) = 0  BY SubSeqProperties
  <2> QED BY <2>1, EmptySeq
<1>3. SubSeq(s, 1, Len(s)) = s
  <2> DEFINE t == SubSeq(s, 1, Len(s))
  <2>1. /\ t \in Seq(S) /\ Len(t) = Len(s)
        /\ \A i \in 1 .. Len(s) : t[i] = s[i]
    BY <1>1, SubSeqProperties
  <2> HIDE DEF t
  <2> QED BY <2>1, SeqEqual
<1>4. ASSUME NEW i \in 1 .. Len(s) PROVE Append(SubSeq(s, 1, i - 1), s[i]) = SubSeq(s, 1, i)
  <2> DEFINE t == SubSeq(s, 1, i - 1)
             u == SubSeq(s, 1, i)
  <2>1. /\ t \in Seq(S) /\ Len(t) = i - 1
        /\ \A k \in 1 .. i - 1 : t[k] = s[k]
    BY <1>1, SubSeqProperties
  <2>2. /\ u \in Seq(S) /\ Len(u) = i
        /\ \A k \in 1 .. i : u[k] = s[k]
    BY <1>1, SubSeqProperties
  <2>3. s[i] \in S  BY ElementOfSeq
  <2> HIDE DEF t, u
  <2>4. /\ Append(t, s[i]) \in Seq(S) /\ Len(Append(t, s[i])) = Len(t) + 1
        /\ \A k \in 1 .. Len(t) : Append(t, s[i])[k] = t[k]
        /\ Append(t, s[i])[Len(t) + 1] = s[i]
    BY <2>1, <2>3, AppendProperties
  <2>5. Len(t) + 1 = i  BY <2>1
  <2>6. \A k \in 1 .. i : Append(t, s[i])[k] = u[k]
    <3>1. ASSUME NEW k \in 1 .. i PROVE Append(t, s[i])[k] = u[k]
      <4>1. CASE k = i  BY <2>2, <2>4, <2>5, <4>1
      <4>2. CASE k # i
        <5>1. k \in 1 .. i - 1 /\ k \in 1 .. Len(t)  BY <2>1, <4>2
        <5> QED BY <2>1, <2>2, <2>4, <5>1
      <4> QED BY <4>1, <4>2
    <3> QED BY <3>1
  <2> QED BY <2>2, <2>4, <2>5, <2>6, SeqEqual
<1> QED BY <1>2, <1>3, <1>4

\* The text is of the form of the pattern, or of what comes before a '*' of it.
MatchesPattern(text, pattern) ==
    \E n \in 0 .. Len(pattern) :
        /\ n < Len(pattern) => pattern[n + 1] = "*" /\ (n = 0 \/ pattern[n] # "*")
        /\ OfForm(text, SubSeq(pattern, 1, n))

\* str_wildcard_match finds that out.
LEMMA WildcardForm ==
    ASSUME NEW S, NEW str \in Seq(S), NEW pattern \in Seq(S)
    PROVE  WildcardMatch(str, pattern) <=> MatchesPattern(str, pattern)
<1>1. Len(str) \in Nat /\ Len(pattern) \in Nat  OBVIOUS
<1>2. PICK match : /\ WildcardMatch(str, pattern) <=> 1 \in match[1]
                   /\ \A j \in 1 .. Len(pattern) + 1 :
                         match[j] = MatchesFrom(str, pattern, j, match[j + 1])
  BY WildcardLoop
<1> DEFINE R(j) == {i \in 1 .. Len(str) + 1 : RestMatches(str, pattern, i, j)}
           T == {j \in 1 .. Len(pattern) + 1 : match[j] = R(j)}
<1>3. Len(pattern) + 1 \in T
  <2> DEFINE j == Len(pattern) + 1
  <2>1. ASSUME NEW i \in 1 .. Len(str) + 1
        PROVE  RestMatches(str, pattern, i, j) <=> i = Len(str) + 1
    <3>1. j \in Nat \ {0} /\ j - 1 .. Len(pattern) = {Len(pattern)} /\ j - 1 = Len(pattern)
      BY <1>1
    <3>2. Covers(str, pattern, i, j, j - 1) <=> i = Len(str) + 1  BY <3>1, CoversNothing
    <3> QED BY <1>1, <3>1, <3>2 DEF RestMatches
  <2>2. \A i \in 1 .. Len(str) + 1 :
            i \in MatchesFrom(str, pattern, j, match[j + 1]) <=> i = Len(str) + 1
    BY <1>1 DEF MatchesFrom
  <2>3. match[j] = MatchesFrom(str, pattern, j, match[j + 1])  BY <1>1, <1>2
  <2>4. MatchesFrom(str, pattern, j, match[j + 1]) \subseteq 1 .. Len(str) + 1
    BY DEF MatchesFrom
  <2>5. match[j] = R(j)  BY <2>1, <2>2, <2>3, <2>4
  <2> QED BY <1>1, <2>5
<1>4. ASSUME NEW j \in 1 .. Len(pattern), j + 1 \in T PROVE j \in T
  <2>1. match[j + 1] = R(j + 1)  BY <1>4
  <2>2. match[j] = MatchesFrom(str, pattern, j, match[j + 1])  BY <1>1, <1>2
  <2> HIDE DEF R
  <2>3. match[j] = MatchesFrom(str, pattern, j, R(j + 1))  BY <2>1, <2>2
  <2> USE DEF R
  <2>4. \A i \in 1 .. Len(str) + 1 :
            RestMatches(str, pattern, i, j) <=> i \in MatchesFrom(str, pattern, j, R(j + 1))
    BY RestMatchesTurn
  <2>5. MatchesFrom(str, pattern, j, R(j + 1)) \subseteq 1 .. Len(str) + 1
    BY DEF MatchesFrom
  <2>6. match[j] = R(j)  BY <2>3, <2>4, <2>5
  <2> QED BY <2>6
<1> HIDE DEF T
<1>5. 1 .. (Len(pattern) + 1) \subseteq T  BY <1>1, <1>3, <1>4, EveryTurnBack
<1>6. WildcardMatch(str, pattern) <=> RestMatches(str, pattern, 1, 1)
  BY <1>1, <1>2, <1>5 DEF T
<1>7. ASSUME NEW n \in 0 .. Len(pattern)
      PROVE  Covers(str, pattern, 1, 1, n) <=> OfForm(str, SubSeq(pattern, 1, n))
  <2> DEFINE q == SubSeq(pattern, 1, n)
  <2>1. Len(q) = n /\ DOMAIN q = 1 .. n /\ \A k \in 1 .. n : q[k] = pattern[k]
    BY <1>1
  <2> HIDE DEF q
  <2>2. ASSUME NEW cut
        PROVE  Cuts(str, pattern, 1, 1, n, cut) <=>
                  /\ cut \in [1 .. Len(q) + 1 -> 0 .. Len(str)]
                  /\ cut[1] = 0 /\ cut[Len(q) + 1] = Len(str)
                  /\ \A k \in DOMAIN q :
                        IF q[k] = "*" THEN cut[k] <= cut[k + 1]
                        ELSE cut[k + 1] = cut[k] + 1 /\ str[cut[k + 1]] = q[k]
    <3>1. n \in Nat /\ Len(q) + 1 = n + 1 /\ 1 - 1 = 0  BY <2>1
    <3>2. (\A k \in 1 .. n : IF pattern[k] = "*" THEN cut[k] <= cut[k + 1]
                             ELSE cut[k + 1] = cut[k] + 1 /\ str[cut[k + 1]] = pattern[k])
          <=> (\A k \in DOMAIN q : IF q[k] = "*" THEN cut[k] <= cut[k + 1]
                                   ELSE cut[k + 1] = cut[k] + 1 /\ str[cut[k + 1]] = q[k])
      BY <2>1
    <3> QED BY <3>1, <3>2 DEF Cuts
  <2>3. Covers(str, pattern, 1, 1, n) <=> OfForm(str, q)
    BY <2>2 DEF Covers, OfForm
  <2> QED BY <2>3 DEF q
<1>8. RestMatches(str, pattern, 1, 1) <=> MatchesPattern(str, pattern)
  <2>1. \A n : n \in 1 - 1 .. Len(pattern) <=> n \in 0 .. Len(pattern)  OBVIOUS
  <2> QED BY <1>7, <2>1 DEF RestMatches, MatchesPattern
<1> QED BY <1>6, <1>8

\* str_wildcard_match finds out whether the text is of the form of the pattern, or ends
\* where a '*' of the pattern begins; the second is where it departs from what a wildcard
\* means.
THEOREM WildcardCorrect ==
    ASSUME NEW S, NEW str \in Seq(S), NEW pattern \in Seq(S)
    PROVE  WildcardMatch(str, pattern) <=> OfForm(str, pattern) \/ EndsEarly(str, pattern)
<1> DEFINE upTo(n) == OfForm(str, SubSeq(pattern, 1, n))
<1>1. Len(pattern) \in Nat /\ SubSeq(pattern, 1, Len(pattern)) = pattern
  BY PrefixUpTo
<1>2. upTo(Len(pattern)) <=> OfForm(str, pattern)  BY <1>1
<1>3. ASSUME NEW n \in 0 .. Len(pattern)
      PROVE  n < Len(pattern) <=> n \in 0 .. Len(pattern) - 1
  BY <1>1
<1>4. \A n \in 0 .. Len(pattern) : n < Len(pattern) \/ n = Len(pattern)
  <2>1. Len(pattern) \in Nat  OBVIOUS
  <2> QED BY <2>1
<1>5. Len(pattern) \in 0 .. Len(pattern) /\ ~(Len(pattern) < Len(pattern))
      /\ 0 .. Len(pattern) - 1 \subseteq 0 .. Len(pattern)
  BY <1>1
<1> HIDE DEF upTo
<1>6. MatchesPattern(str, pattern) <=> upTo(Len(pattern)) \/ EndsEarly(str, pattern)
  BY <1>3, <1>4, <1>5 DEF MatchesPattern, EndsEarly, upTo
<1> QED BY <1>2, <1>6, WildcardForm

-----------------------------------------------------------------------------
(* The lists of proxies.                                                   *)

\* The sums are those of a loop that adds one number in each turn.
LEMMA SumsOf ==
    ASSUME NEW numbers \in Seq(Nat)
    PROVE  LET sum == Sums(numbers)
           IN  /\ sum \in [0 .. Len(numbers) -> Nat]
               /\ sum[0] = 0 /\ \A i \in 1 .. Len(numbers) : sum[i] = sum[i - 1] + numbers[i]
<1> DEFINE n == Len(numbers)
           add == [p \in (1 .. n) \X Nat |-> p[2] + numbers[p[1]]]
<1>1. n \in Nat /\ \A i \in 1 .. n : numbers[i] \in Nat  OBVIOUS
<1>2. add \in Turns(n, Nat)  BY <1>1 DEF Turns
<1> HIDE DEF add
<1>3. PICK f : Loop(f, n, Nat, 0, add)  BY <1>1, <1>2, LoopExists
<1>4. f = [i \in 0 .. Len(numbers) |-> IF i = 0 THEN 0 ELSE f[i - 1] + numbers[i]]
  <2>1. f \in [0 .. n -> Nat]  BY <1>3 DEF Loop
  <2>2. ASSUME NEW i \in 0 .. n PROVE f[i] = IF i = 0 THEN 0 ELSE f[i - 1] + numbers[i]
    <3>1. CASE i = 0  BY <1>3, <3>1 DEF Loop
    <3>2. CASE i # 0
      <4>1. i \in 1 .. n /\ i - 1 \in 0 .. n  BY <1>1, <3>2
      <4>2. <<i, f[i - 1]>> \in (1 .. n) \X Nat  BY <2>1, <4>1
      <4>3. f[i] = add[<<i, f[i - 1]>>]  BY <1>3, <4>1 DEF Loop
      <4> QED BY <3>2, <4>2, <4>3 DEF add
    <3> QED BY <3>1, <3>2
  <2> QED BY <2>1, <2>2
<1> DEFINE g == CHOOSE h : h = [i \in 0 .. Len(numbers) |->
                                    IF i = 0 THEN 0 ELSE h[i - 1] + numbers[i]]
<1>5. g = [i \in 0 .. Len(numbers) |-> IF i = 0 THEN 0 ELSE g[i - 1] + numbers[i]]
  BY <1>4
<1>6. Sums(numbers) = g  BY DEF Sums
<1> HIDE DEF g
<1>7. g[0] = 0 /\ \A i \in 1 .. n : g[i] = g[i - 1] + numbers[i]
  <2>1. g[0] = 0  BY <1>1, <1>5
  <2>2. ASSUME NEW i \in 1 .. n PROVE g[i] = g[i - 1] + numbers[i]
    <3>1. i \in 0 .. n /\ i # 0  OBVIOUS
    <3> QED BY <1>5, <3>1
  <2> QED BY <2>1, <2>2
<1>8. ASSUME NEW i \in 0 .. n PROVE g[i] \in Nat
  <2> DEFINE T == {k \in 0 .. n : g[k] \in Nat}
  <2>1. 0 \in T  BY <1>1, <1>7
  <2>2. ASSUME NEW k \in 1 .. n, k - 1 \in T PROVE k \in T  BY <1>1, <1>7, <2>2
  <2> HIDE DEF T
  <2>3. 0 .. n \subseteq T  BY <1>1, <2>1, <2>2, EveryTurn
  <2> QED BY <2>3 DEF T
<1> QED BY <1>5, <1>6, <1>7, <1>8

\* The sums of natural numbers grow.
LEMMA Growing ==
    ASSUME NEW n \in Nat, NEW f \in [0 .. n -> Nat], \A k \in 1 .. n : f[k - 1] <= f[k],
           NEW i \in 0 .. n, NEW m \in i .. n
    PROVE  f[i] <= f[m]
<1> DEFINE T == {k \in 0 .. n : k < i \/ f[i] <= f[k]}
<1>1. 0 \in T  OBVIOUS
<1>2. ASSUME NEW k \in 1 .. n, k - 1 \in T PROVE k \in T
  <2>1. k - 1 \in 0 .. n /\ k \in 0 .. n  OBVIOUS
  <2>2. f[k - 1] \in Nat /\ f[k] \in Nat /\ f[i] \in Nat  BY <2>1
  <2>3. f[k - 1] <= f[k]  OBVIOUS
  <2>4. CASE i <= k - 1  BY <1>2, <2>1, <2>2, <2>3, <2>4
  <2>5. CASE i = k  BY <2>1, <2>2, <2>5
  <2>6. CASE i > k  BY <2>1, <2>6
  <2> QED BY <2>4, <2>5, <2>6
<1> HIDE DEF T
<1>3. 0 .. n \subseteq T  BY <1>1, <1>2, EveryTurn
<1>4. m \in T  BY <1>3
<1> QED BY <1>4 DEF T

\* Where no number is greater than the other one at its place, the sums are not either.
LEMMA SumsBelow ==
    ASSUME NEW a \in Seq(Nat), NEW b \in Seq(Nat), Len(a) = Len(b),
           \A i \in 1 .. Len(a) : a[i] <= b[i]
    PROVE  Total(a) <= Total(b)
<1> DEFINE n == Len(a)
           A == Sums(a)
           B == Sums(b)
           T == {i \in 0 .. n : A[i] <= B[i]}
<1>1. n \in Nat /\ \A i \in 1 .. n : a[i] \in Nat /\ b[i] \in Nat  OBVIOUS
<1>2. A \in [0 .. n -> Nat] /\ A[0] = 0 /\ \A i \in 1 .. n : A[i] = A[i - 1] + a[i]
  BY SumsOf
<1>3. B \in [0 .. n -> Nat] /\ B[0] = 0 /\ \A i \in 1 .. n : B[i] = B[i - 1] + b[i]
  BY SumsOf
<1> HIDE DEF A, B
<1>4. 0 \in T  BY <1>1, <1>2, <1>3
<1>5. ASSUME NEW i \in 1 .. n, i - 1 \in T PROVE i \in T
  <2>1. i \in 0 .. n /\ i - 1 \in 0 .. n  BY <1>1
  <2>2. A[i - 1] \in Nat /\ B[i - 1] \in Nat /\ A[i - 1] <= B[i - 1]  BY <1>2, <1>3, <1>5, <2>1
  <2>3. A[i] = A[i - 1] + a[i] /\ B[i] = B[i - 1] + b[i]  BY <1>2, <1>3
  <2>4. a[i] \in Nat /\ b[i] \in Nat /\ a[i] <= b[i]  BY <1>1
  <2> QED BY <2>1, <2>2, <2>3, <2>4
<1> HIDE DEF T
<1>6. 0 .. n \subseteq T  BY <1>1, <1>4, <1>5, EveryTurn
<1>7. A[n] <= B[n]
  <2>1. n \in T  BY <1>1, <1>6
  <2> QED BY <2>1 DEF T
<1> QED BY <1>7 DEF A, B, Total

\* The lengths of the parts of a uri.
UriLengths == [scheme : Nat, mark : Nat, host : Nat, comma : Nat]

\* What is counted for each uri is at least its length.
LEMMA CountedUris ==
    ASSUME NEW uris \in Seq(UriLengths), NEW times \in {1, 2}
    PROVE  LET counted == Counted(uris, times)
               lengths == [i \in DOMAIN uris |-> LengthOf(uris[i])]
           IN  /\ counted \in Seq(Nat) /\ Len(counted) = Len(uris)
               /\ lengths \in Seq(Nat) /\ Len(lengths) = Len(uris)
               /\ times = 1 => counted = lengths
               /\ \A i \in 1 .. Len(uris) :
                     /\ lengths[i] <= counted[i]
                     /\ uris[i].scheme + uris[i].mark <= counted[i]
                     /\ uris[i].comma <= counted[i]
<1> DEFINE n == Len(uris)
           counted == Counted(uris, times)
           lengths == [i \in DOMAIN uris |-> LengthOf(uris[i])]
<1>1. n \in Nat /\ DOMAIN uris = 1 .. n /\ \A i \in 1 .. n : uris[i] \in UriLengths
  OBVIOUS
<1>2. ASSUME NEW i \in 1 .. n
      PROVE  /\ lengths[i] \in Nat /\ counted[i] \in Nat
             /\ times = 1 => counted[i] = lengths[i]
             /\ lengths[i] <= counted[i]
             /\ uris[i].scheme + uris[i].mark <= counted[i]
             /\ uris[i].comma <= counted[i]
  <2> DEFINE s == uris[i].scheme
             m == uris[i].mark
             h == uris[i].host
             c == uris[i].comma
  <2>1. s \in Nat /\ m \in Nat /\ h \in Nat /\ c \in Nat  BY <1>1 DEF UriLengths
  <2>2. lengths[i] = s + m + h + c  BY <1>1 DEF LengthOf
  <2>3. counted[i] = (s + m + h + c) + (times - 1) * s  BY <1>1 DEF Counted, LengthOf
  <2> HIDE DEF s, m, h, c, counted, lengths
  <2>4. CASE times = 1
    <3>1. (times - 1) * s = 0  BY <2>1, <2>4
    <3>2. counted[i] = s + m + h + c  BY <2>1, <2>3, <3>1
    <3> QED BY <2>1, <2>2, <3>2 DEF s, m, c
  <2>5. CASE times = 2
    <3>1. (times - 1) * s = s  BY <2>1, <2>5
    <3>2. counted[i] = s + m + h + c + s  BY <2>1, <2>3, <3>1
    <3> QED BY <2>1, <2>2, <2>5, <3>2 DEF s, m, c
  <2> QED BY <2>4, <2>5
<1>3. DOMAIN counted = 1 .. n /\ DOMAIN lengths = 1 .. n  BY <1>1 DEF Counted
<1>4. counted \in Seq(Nat) /\ Len(counted) = n
  <2>1. counted = [i \in 1 .. n |-> counted[i]]  BY <1>1 DEF Counted
  <2> HIDE DEF counted, n
  <2>2. counted \in [1 .. n -> Nat]  BY <1>2, <2>1
  <2> QED BY <1>1, <1>3, <2>2
<1>5. lengths \in Seq(Nat) /\ Len(lengths) = n
  <2>1. lengths = [i \in 1 .. n |-> lengths[i]]  BY <1>1
  <2> HIDE DEF lengths, n
  <2>2. lengths \in [1 .. n -> Nat]  BY <1>2, <2>1
  <2> QED BY <1>1, <1>3, <2>2
<1>6. ASSUME times = 1 PROVE counted = lengths
  <2>1. \A i \in 1 .. n : counted[i] = lengths[i]  BY <1>2, <1>6
  <2>2. counted = [i \in 1 .. n |-> counted[i]] /\ lengths = [i \in 1 .. n |-> lengths[i]]
    BY <1>1 DEF Counted
  <2> HIDE DEF counted, lengths
  <2> QED BY <2>1, <2>2
<1> QED BY <1>2, <1>4, <1>5, <1>6

\* What is written is whole where what is counted is less than the room.
LEMMA WrittenWhole ==
    ASSUME NEW uris \in Seq(UriLengths), NEW times \in {1, 2}, NEW max \in Int,
           Total(Counted(uris, times)) < max
    PROVE  Written(uris, max, times) = [uris |-> uris, overrun |-> FALSE]
<1> DEFINE n == Len(uris)
           counted == Counted(uris, times)
           lengths == [i \in DOMAIN uris |-> LengthOf(uris[i])]
           C == Sums(counted)
           kept(i) == [uris[i] EXCEPT
                          !.scheme = IF times = 1 THEN @ ELSE Kept(@, max, C[i - 1]),
                          !.mark = Kept(@, max, C[i - 1] + uris[i].scheme),
                          !.comma = Kept(@, max, C[(i + 1) - 1] - @)]
<1>1. n \in Nat /\ DOMAIN uris = 1 .. n /\ \A i \in 1 .. n : uris[i] \in UriLengths
  OBVIOUS
<1>2. /\ counted \in Seq(Nat) /\ Len(counted) = n
      /\ lengths \in Seq(Nat) /\ Len(lengths) = n
      /\ \A i \in 1 .. n : /\ lengths[i] <= counted[i]
                           /\ uris[i].scheme + uris[i].mark <= counted[i]
                           /\ uris[i].comma <= counted[i]
  BY CountedUris
<1> DEFINE text == [i \in DOMAIN uris |-> kept(i)]
<1>13. Written(uris, max, times)
         = [uris |-> text, overrun |-> Total([i \in DOMAIN uris |-> LengthOf(text[i])]) >= max]
  BY DEF Written
<1> HIDE DEF counted, lengths, text
<1>14. \A i \in 1 .. n : counted[i] \in Nat  BY <1>1, <1>2
<1>3. C \in [0 .. n -> Nat] /\ C[0] = 0 /\ \A i \in 1 .. n : C[i] = C[i - 1] + counted[i]
  BY <1>2, SumsOf
<1>4. C[n] < max  BY <1>2 DEF Total, counted
<1> HIDE DEF C
<1>5. ASSUME NEW i \in 1 .. n
      PROVE  /\ C[i - 1] \in Nat /\ C[i] \in Nat /\ counted[i] \in Nat
             /\ C[i] = C[i - 1] + counted[i] /\ C[i] < max
  <2>1. i - 1 \in 0 .. n /\ i \in 0 .. n /\ n \in i .. n /\ n \in 0 .. n  BY <1>1
  <2>2. ASSUME NEW k \in 1 .. n PROVE C[k - 1] <= C[k]
    <3>1. k - 1 \in 0 .. n /\ k \in 0 .. n  BY <1>1
    <3>2. C[k - 1] \in Nat /\ C[k] = C[k - 1] + counted[k] /\ counted[k] \in Nat
      BY <1>3, <1>14, <3>1
    <3> QED BY <3>2
  <2>3. C[i] <= C[n]  BY <1>1, <1>3, <2>1, <2>2, Growing
  <2>4. C[i - 1] \in Nat /\ C[i] \in Nat /\ C[n] \in Nat /\ counted[i] \in Nat
    BY <1>3, <1>14, <2>1
  <2>5. C[i] < max  BY <1>4, <2>3, <2>4
  <2> QED BY <1>3, <2>4, <2>5
<1>6. ASSUME NEW i \in 1 .. n PROVE kept(i) = uris[i]
  <2> DEFINE u == uris[i]
             s == u.scheme
             m == u.mark
             c == u.comma
             before == C[i - 1]
             after == C[i]
  <2>1. u \in UriLengths /\ s \in Nat /\ m \in Nat /\ c \in Nat  BY <1>1 DEF UriLengths
  <2>2. before \in Nat /\ after \in Nat /\ before + (s + m) <= after /\ c <= after /\ after < max
    <3>1. /\ before \in Nat /\ after \in Nat /\ counted[i] \in Nat
          /\ after = before + counted[i] /\ after < max
      BY <1>5
    <3>2. s + m <= counted[i] /\ c <= counted[i]  BY <1>2
    <3> HIDE DEF before, after, s, m, c
    <3> QED BY <2>1, <3>1, <3>2
  <2>3. (i + 1) - 1 = i  OBVIOUS
  <2>4. kept(i) = [u EXCEPT !.scheme = IF times = 1 THEN s ELSE Kept(s, max, before),
                            !.mark = Kept(m, max, before + s), !.comma = Kept(c, max, after - c)]
    BY <2>3
  <2> HIDE DEF u, before, after, kept
  <2>5. Kept(s, max, before) = s /\ Kept(m, max, before + s) = m /\ Kept(c, max, after - c) = c
    <3> HIDE DEF s, m, c
    <3> QED BY <2>1, <2>2 DEF Kept
  <2>6. kept(i) = [u EXCEPT !.scheme = s, !.mark = m, !.comma = c]  BY <2>4, <2>5
  <2>7. [u EXCEPT !.scheme = s, !.mark = m, !.comma = c] = u  BY <2>1 DEF UriLengths
  <2> QED BY <2>6, <2>7 DEF u
<1> HIDE DEF kept
<1>7. [i \in DOMAIN uris |-> kept(i)] = uris
  <2>1. uris = [i \in 1 .. n |-> uris[i]]  BY <1>1
  <2>2. [i \in DOMAIN uris |-> kept(i)] = [i \in 1 .. n |-> uris[i]]  BY <1>1, <1>6
  <2> QED BY <2>1, <2>2
<1>8. text = uris  BY <1>7 DEF text
<1>9. Written(uris, max, times) = [uris |-> uris, overrun |-> Total(lengths) >= max]
  BY <1>8, <1>13, Zenon DEF lengths
<1>10. ~(Total(lengths) >= max)
  <2>1. Total(lengths) <= Total(counted)  BY <1>2, SumsBelow
  <2>2. Total(lengths) \in Nat
    <3>1. Sums(lengths) \in [0 .. n -> Nat]  BY <1>2, SumsOf
    <3> QED BY <1>1, <1>2, <3>1 DEF Total
  <2>3. Total(counted) \in Nat /\ Total(counted) < max
    <3>1. Total(counted) = C[n]  BY <1>2 DEF Total, C
    <3> QED BY <1>1, <1>3, <1>4, <3>1
  <2> QED BY <2>1, <2>2, <2>3
<1>11. (Total(lengths) >= max) = FALSE  BY <1>10
<1> QED BY <1>9, <1>11, Zenon

\* Where each part is counted once, that is the only way for it to be whole.
LEMMA WholeFits ==
    ASSUME NEW uris \in Seq(UriLengths), NEW max \in Int,
           Written(uris, max, 1) = [uris |-> uris, overrun |-> FALSE]
    PROVE  Total(Counted(uris, 1)) < max
<1> DEFINE w == Written(uris, max, 1)
           lengths == [i \in DOMAIN uris |-> LengthOf(uris[i])]
<1>1. w.overrun = (Total([i \in DOMAIN uris |-> LengthOf(w.uris[i])]) >= max)
  BY DEF Written
<1>2. w.uris = uris /\ w.overrun = FALSE  OBVIOUS
<1> HIDE DEF w
<1>3. ~(Total(lengths) >= max)  BY <1>1, <1>2
<1>4. 1 \in {1, 2}  OBVIOUS
<1>5. Counted(uris, 1) = lengths /\ lengths \in Seq(Nat)  BY <1>4, CountedUris
<1> HIDE DEF lengths
<1>6. Total(lengths) \in Nat
  <2>1. Sums(lengths) \in [0 .. Len(lengths) -> Nat] /\ Len(lengths) \in Nat  BY <1>5, SumsOf
  <2> QED BY <2>1 DEF Total
<1> QED BY <1>3, <1>5, <1>6

\* The room is a number.
LEMMA RoomTyped ==
    ASSUME NEW lengths \in Seq(Nat), Spare \in Nat
    PROVE  Spare + TextLength(lengths) \in Int
<1> DEFINE t == Sums(lengths)[Len(lengths)]
<1>1. Len(lengths) \in Nat /\ Sums(lengths) \in [0 .. Len(lengths) -> Nat]  BY SumsOf
<1>2. t \in Nat /\ TextLength(lengths) = t + Len(lengths) - 1  BY <1>1 DEF TextLength
<1> HIDE DEF t
<1> QED BY <1>1, <1>2

ScriptEntries == [type : DOMAIN Types \cup {""}, port : Nat, length : Nat]
WinEntries == [type : DOMAIN SchemeLength \cup {""}, port : Nat, length : Nat]

\* The uris of a list have parts of some length, if their schemes are known.
LEMMA UrisTyped ==
    ASSUME NEW E, NEW list \in Seq(E), NEW schemes,
           \A i \in 1 .. Len(list) : list[i].length \in Nat /\ schemes[i] \in DOMAIN SchemeLength
    PROVE  UrisOf(list, schemes) \in Seq(UriLengths)
<1> DEFINE n == Len(list)
           uris == UrisOf(list, schemes)
<1>1. n \in Nat /\ DOMAIN list = 1 .. n  OBVIOUS
<1>2. \A s \in DOMAIN SchemeLength : SchemeLength[s] \in Nat  BY DEF SchemeLength
<1>3. ASSUME NEW i \in 1 .. n PROVE UriOf(list[i], schemes[i], i = n) \in UriLengths
  <2>1. SchemeLength[schemes[i]] \in Nat /\ list[i].length \in Nat  BY <1>2
  <2>2. (IF i = n THEN 0 ELSE 1) \in Nat /\ 3 \in Nat  OBVIOUS
  <2> QED BY <2>1, <2>2 DEF UriOf, UriLengths
<1>4. uris = [i \in 1 .. n |-> UriOf(list[i], schemes[i], i = n)]  BY <1>1 DEF UrisOf
<1> HIDE DEF n, uris
<1>5. uris \in [1 .. n -> UriLengths]  BY <1>3, <1>4
<1>6. uris \in Seq(UriLengths)  BY <1>1, <1>5
<1> QED BY <1>6 DEF uris

\* The schemes of a script's list are known, if that of the url is.
LEMMA SchemeKnown ==
    ASSUME NEW default \in DOMAIN SchemeLength, NEW entry \in ScriptEntries
    PROVE  SchemeOf(entry, default) \in DOMAIN SchemeLength /\ Keyword(entry.type).length \in Nat
<1> DEFINE k == Keyword(entry.type)
<1>1. entry.type \in DOMAIN Types \cup {""}  BY DEF ScriptEntries
<1>2. k.length \in Nat /\ (k.scheme = NoScheme \/ k.scheme \in DOMAIN SchemeLength)
  <2>1. /\ DOMAIN Types = {"PROXY", "DIRECT", "HTTP", "HTTPS", "SOCKS", "SOCKS4", "SOCKS5"}
        /\ DOMAIN SchemeLength = {"http", "https", "socks", "socks4", "socks5", "direct", "ftp"}
    BY DEF Types, SchemeLength
  <2>2. /\ Types["PROXY"].length = 6 /\ Types["PROXY"].scheme = NoScheme
        /\ Types["DIRECT"].length = 6 /\ Types["DIRECT"].scheme = "direct"
        /\ Types["HTTP"].length = 5 /\ Types["HTTP"].scheme = "http"
        /\ Types["HTTPS"].length = 6 /\ Types["HTTPS"].scheme = "https"
        /\ Types["SOCKS"].length = 6 /\ Types["SOCKS"].scheme = "socks"
        /\ Types["SOCKS4"].length = 7 /\ Types["SOCKS4"].scheme = "socks4"
        /\ Types["SOCKS5"].length = 7 /\ Types["SOCKS5"].scheme = "socks5"
    BY DEF Types
  <2>3. CASE entry.type \notin DOMAIN Types  BY <2>3 DEF Keyword
  <2>4. CASE entry.type \in DOMAIN Types
    <3>1. k = Types[entry.type]  BY <2>4 DEF Keyword
    <3> QED BY <2>1, <2>2, <2>4, <3>1
  <2> QED BY <2>3, <2>4
<1>3. SchemeOf(entry, default) \in DOMAIN SchemeLength
  <2>1. CASE k.scheme # NoScheme  BY <1>2, <2>1 DEF SchemeOf
  <2>2. CASE k.scheme = NoScheme /\ default # NoScheme  BY <2>2 DEF SchemeOf
  <2>3. CASE k.scheme = NoScheme /\ default = NoScheme
    <3>1. SchemeOf(entry, default) = PortScheme(IF entry.port = 0 THEN 80 ELSE entry.port, "http")
      BY <2>3 DEF SchemeOf
    <3>2. \A p : PortScheme(p, "http") \in {"http", "https", "socks", "ftp"}  BY DEF PortScheme
    <3>3. {"http", "https", "socks", "ftp"} \subseteq DOMAIN SchemeLength  BY DEF SchemeLength
    <3> QED BY <3>1, <3>2, <3>3
  <2> QED BY <2>1, <2>2, <2>3
<1> QED BY <1>2, <1>3

\* convert_proxy_list_to_uri_list.
LEMMA ScriptListWritten ==
    ASSUME NEW list \in Seq(ScriptEntries), NEW default \in DOMAIN SchemeLength, Spare \in Nat
    PROVE  LET uris == UrisOf(list, ScriptSchemes(list, default))
           IN  Total(Counted(uris, 2)) < ScriptRoom(list)
                  => UriList(list, default) = [uris |-> uris, overrun |-> FALSE]
<1> DEFINE n == Len(list)
           schemes == ScriptSchemes(list, default)
           uris == UrisOf(list, schemes)
           length(i) == Keyword(list[i].type).length + list[i].length
<1>1. n \in Nat /\ DOMAIN list = 1 .. n /\ \A i \in 1 .. n : list[i] \in ScriptEntries
  OBVIOUS
<1>2. ASSUME NEW i \in 1 .. n
      PROVE  schemes[i] \in DOMAIN SchemeLength /\ list[i].length \in Nat /\ length(i) \in Nat
  <2>1. list[i].length \in Nat  BY <1>1 DEF ScriptEntries
  <2>2. SchemeOf(list[i], default) \in DOMAIN SchemeLength /\ Keyword(list[i].type).length \in Nat
    BY <1>1, SchemeKnown
  <2> QED BY <1>1, <2>1, <2>2 DEF ScriptSchemes
<1>3. uris \in Seq(UriLengths)  BY <1>2, UrisTyped
<1>4. ScriptRoom(list) \in Int
  <2> DEFINE lengths == [i \in 1 .. n |-> length(i)]
  <2> HIDE DEF n, length
  <2>2. lengths \in Seq(Nat)  BY <1>1, <1>2
  <2>1. Spare + TextLength(lengths) \in Int  BY <2>2, RoomTyped
  <2> QED BY <1>1, <2>1 DEF ScriptRoom, length
<1>5. 2 \in {1, 2}  OBVIOUS
<1> HIDE DEF uris
<1>6. Total(Counted(uris, 2)) < ScriptRoom(list)
        => Written(uris, ScriptRoom(list), 2) = [uris |-> uris, overrun |-> FALSE]
  BY <1>3, <1>4, <1>5, WrittenWhole
<1> QED BY <1>6 DEF UriList, uris

\* convert_winhttp_proxy_list_to_uri_list.
LEMMA WinListWritten ==
    ASSUME NEW list \in Seq(WinEntries), Spare \in Nat
    PROVE  LET uris == UrisOf(list, WinSchemes(list))
           IN  Total(Counted(uris, 1)) < WinRoom(list)
                  <=> WinUriList(list) = [uris |-> uris, overrun |-> FALSE]
<1> DEFINE n == Len(list)
           schemes == WinSchemes(list)
           uris == UrisOf(list, schemes)
           length(i) == (IF list[i].type = "" THEN 0 ELSE SchemeLength[list[i].type] + 1)
                        + list[i].length
<1>1. n \in Nat /\ DOMAIN list = 1 .. n /\ \A i \in 1 .. n : list[i] \in WinEntries
  OBVIOUS
<1>2. ASSUME NEW i \in 1 .. n
      PROVE  schemes[i] \in DOMAIN SchemeLength /\ list[i].length \in Nat /\ length(i) \in Nat
  <2>1. list[i].length \in Nat /\ list[i].type \in DOMAIN SchemeLength \cup {""}
    BY <1>1 DEF WinEntries
  <2>2. "http" \in DOMAIN SchemeLength /\ \A s \in DOMAIN SchemeLength : SchemeLength[s] \in Nat
    BY DEF SchemeLength
  <2>3. schemes[i] = (IF list[i].type = "" THEN "http" ELSE list[i].type)  BY <1>1 DEF WinSchemes
  <2>4. CASE list[i].type = ""
    <3>1. length(i) = 0 + list[i].length  BY <2>4
    <3> DEFINE h == list[i].length
    <3>2. h \in Nat  BY <2>1
    <3> HIDE DEF h
    <3>3. 0 + h = h  BY <3>2
    <3>4. length(i) \in Nat  BY <3>1, <3>2, <3>3 DEF h
    <3> QED BY <2>1, <2>2, <2>3, <2>4, <3>4
  <2>5. CASE list[i].type # ""
    <3>1. SchemeLength[list[i].type] \in Nat  BY <2>1, <2>2, <2>5
    <3>2. schemes[i] = list[i].type /\ length(i) = SchemeLength[list[i].type] + 1 + list[i].length
      BY <2>3, <2>5
    <3> DEFINE l == SchemeLength[list[i].type]
               h == list[i].length
    <3>3. l \in Nat /\ h \in Nat /\ length(i) = l + 1 + h  BY <2>1, <3>1, <3>2
    <3> HIDE DEF l, h, length
    <3>4. length(i) \in Nat  BY <3>3
    <3> QED BY <2>1, <2>5, <3>2, <3>4
  <2> QED BY <2>4, <2>5
<1>3. uris \in Seq(UriLengths)  BY <1>2, UrisTyped
<1>4. WinRoom(list) \in Int
  <2> DEFINE lengths == [i \in 1 .. n |-> length(i)]
  <2> HIDE DEF n, length
  <2>2. lengths \in Seq(Nat)  BY <1>1, <1>2
  <2>1. Spare + TextLength(lengths) \in Int  BY <2>2, RoomTyped
  <2> QED BY <1>1, <2>1 DEF WinRoom, length
<1>5. 1 \in {1, 2}  OBVIOUS
<1> HIDE DEF uris
<1>6. Total(Counted(uris, 1)) < WinRoom(list)
        <=> Written(uris, WinRoom(list), 1) = [uris |-> uris, overrun |-> FALSE]
  BY <1>3, <1>4, <1>5, WrittenWhole, WholeFits
<1> QED BY <1>6 DEF WinUriList, uris

\* A list of proxies of any length reaches the client whole where its uris fit into the
\* room allocated for them, with every scheme counted twice where a script made it:
\* convert_proxy_list_to_uri_list and its counterpart for WinHTTP.
THEOREM UriListsWhole ==
    ASSUME ListsTyped
    PROVE  Spec => []UriListWhole
<1> DEFINE Inv == session \in Sessions /\ UriListWhole
<1>1. Init => Inv
  BY DEF Init, NotYet, UriListWhole
<1>2. ASSUME Inv, [Next]_vars PROVE Inv'
  <2>1. session' = session  BY <1>2 DEF Next, vars, Change, OverriddenUrl, UrlMode, UrlKey, Url,
      OverriddenProxy, ProxyMode, SameKey, HostKey, PortKey, GetProxy, OverriddenList, ListMode,
      IgnoreKey, List, Detect, Script, WinScript, Keep, constant
  <2>2. Spare \in Nat  BY DEF ListsTyped
  <2>3. CASE Script
    <3>1. PICK list \in Lists("linux") :
              answer' = [kind |-> "list", of |-> list, text |-> UriList(list, session.url.scheme)]
      BY <2>3 DEF Script, Finish
    <3>2. list \in Seq(ScriptEntries) /\ session.url.scheme \in DOMAIN SchemeLength
      BY <1>2 DEF ListsTyped, ScriptEntries
    <3>3. session.system = "linux"  BY <2>3 DEF Script
    <3>4. /\ answer'.of = list /\ answer'.text = UriList(list, session.url.scheme)
          /\ session' = session
      BY <2>1, <3>1
    <3>5. UriListWhole'  BY <2>2, <3>2, <3>3, <3>4, ScriptListWritten DEF UriListWhole
    <3> QED BY <1>2, <2>1, <3>5
  <2>4. CASE WinScript
    <3>1. PICK list \in Lists("windows") :
              answer' = [kind |-> "list", of |-> list, text |-> WinUriList(list)]
      BY <2>4 DEF WinScript, Finish
    <3>2. list \in Seq(WinEntries)  BY DEF ListsTyped, WinEntries
    <3>3. session.system # "linux"  BY <2>4 DEF WinScript
    <3>4. answer'.of = list /\ answer'.text = WinUriList(list) /\ session' = session
      BY <2>1, <3>1
    <3>5. UriListWhole'  BY <2>2, <3>2, <3>3, <3>4, WinListWritten DEF UriListWhole
    <3> QED BY <1>2, <2>1, <3>5
  <2>5. CASE ~Script /\ ~WinScript
    <3>1. answer' = answer \/ answer'.kind # "list"
      BY <1>2, <2>5 DEF Next, vars, Change, OverriddenUrl, UrlMode, UrlKey, Url,
        OverriddenProxy, ProxyMode, SameKey, HostKey, PortKey, GetProxy, OverriddenList, ListMode,
        IgnoreKey, List, Detect, Found, Decide, NeedScript, GoOn, Finish, Evaluate, Direct, Through
    <3>2. UriListWhole'  BY <1>2, <2>1, <3>1 DEF UriListWhole
    <3> QED BY <1>2, <2>1, <3>2
  <2> QED BY <2>3, <2>4, <2>5
<1>3. Inv => UriListWhole  OBVIOUS
<1> QED BY <1>1, <1>2, <1>3, PTL DEF Spec

-----------------------------------------------------------------------------
(* should_bypass_proxy.                                                    *)

\* is_ipv4_in_cidr_range compares the leading bits.
LEMMA LeadingBits4 ==
    ASSUME NEW A, NEW B, NEW p \in 0 .. Bits4
    PROVE  LET all == 1 .. Bits4
               mask == IF p >= Bits4 THEN all ELSE all \ ShiftRight(all, p, Bits4)
           IN  A \cap mask = B \cap mask <=> SameNetwork(A, B, Bits4, p)
<1> DEFINE all == 1 .. Bits4
           mask == IF p >= Bits4 THEN all ELSE all \ ShiftRight(all, p, Bits4)
<1>1. Bits4 \in Nat  BY BypassRulesAssumption
<1>2. mask = 1 .. p
  <2>1. CASE p >= Bits4  BY <1>1, <2>1
  <2>2. CASE ~(p >= Bits4)
    <3>1. \A i \in all : i \in ShiftRight(all, p, Bits4) <=> i > p
      BY <1>1 DEF ShiftRight
    <3>2. mask = all \ ShiftRight(all, p, Bits4)  BY <2>2
    <3> HIDE DEF mask
    <3> QED BY <1>1, <2>2, <3>1, <3>2
  <2> QED BY <2>1, <2>2
<1> HIDE DEF mask
<1>3. A \cap (1 .. p) = B \cap (1 .. p) <=> \A i \in 1 .. p : i \in A <=> i \in B
  OBVIOUS
<1> QED BY <1>2, <1>3 DEF SameNetwork, mask

\* Division by the width of a byte, and the byte that a bit belongs to.
LEMMA Division ==
    ASSUME NEW w \in Nat \ {0}, NEW p \in Nat
    PROVE  p \div w \in Nat /\ p % w \in 0 .. w - 1 /\ p = w * (p \div w) + (p % w)
<1>1. p \div w \in Nat  OBVIOUS
<1>2. p % w \in 0 .. w - 1  OBVIOUS
<1>3. p = w * (p \div w) + (p % w)  OBVIOUS
<1> QED BY <1>1, <1>2, <1>3

\* Every bit is a bit of some byte.
LEMMA BitInByte ==
    ASSUME NEW w \in Nat \ {0}, NEW i \in Nat \ {0}
    PROVE  \E k \in Nat : \E j \in 1 .. w : i = w * k + j
<1> DEFINE k == (i - 1) \div w
           r == (i - 1) % w
<1>1. k \in Nat /\ r \in 0 .. w - 1 /\ i - 1 = w * k + r
  <2>1. i - 1 \in Nat  OBVIOUS
  <2> QED BY <2>1, Division
<1> HIDE DEF k, r
<1>2. w * k \in Nat /\ r + 1 \in 1 .. w  BY <1>1
<1>3. i = w * k + (r + 1)  BY <1>1, <1>2
<1> QED BY <1>1, <1>2, <1>3

\* A bit before the end of these bytes and these bits is in one of the bytes, or in
\* the bits.
LEMMA BitBefore ==
    ASSUME NEW w \in Nat \ {0}, NEW q \in Nat, NEW r \in 0 .. w - 1, NEW k \in Nat, NEW j \in 1 .. w
    PROVE  w * k + j <= w * q + r <=> k < q \/ (k = q /\ j <= r)
<1>1. CASE k < q
  <2>1. PICK d \in Nat : q = k + 1 + d
    <3>1. q - k - 1 \in Nat /\ q = k + 1 + (q - k - 1)  BY <1>1
    <3> QED BY <3>1
  <2>2. w * q = w * k + w + w * d  BY <2>1
  <2>3. w * d \in Nat /\ w * k \in Nat  OBVIOUS
  <2> QED BY <1>1, <2>2, <2>3
<1>2. CASE k = q  BY <1>2
<1>3. CASE k > q
  <2>1. PICK d \in Nat : k = q + 1 + d
    <3>1. k - q - 1 \in Nat /\ k = q + 1 + (k - q - 1)  BY <1>3
    <3> QED BY <3>1
  <2>2. w * k = w * q + w + w * d  BY <2>1
  <2>3. w * d \in Nat /\ w * q \in Nat  OBVIOUS
  <2> QED BY <1>3, <2>2, <2>3
<1> QED BY <1>1, <1>2, <1>3

\* is_ipv6_in_cidr_range compares the leading bits.
LEMMA LeadingBits6 ==
    ASSUME NEW A, NEW B, NEW p \in 0 .. Bits6
    PROVE  LET checkBytes == p \div ByteBits
               checkBits == p % ByteBits
               mask == ShiftLeft(1 .. ByteBits, ByteBits - checkBits, ByteBits)
           IN  (/\ \A k \in 0 .. checkBytes - 1 : Byte(A, k) = Byte(B, k)
                /\ checkBits # 0 => SymDiff(Byte(A, checkBytes), Byte(B, checkBytes)) \cap mask = {})
               <=> SameNetwork(A, B, Bits6, p)
<1> DEFINE w == ByteBits
           q == p \div ByteBits
           r == p % ByteBits
           mask == ShiftLeft(1 .. ByteBits, ByteBits - r, ByteBits)
           bytes == \A k \in 0 .. q - 1 : Byte(A, k) = Byte(B, k)
           bits == r # 0 => SymDiff(Byte(A, q), Byte(B, q)) \cap mask = {}
           same(i) == i \in A <=> i \in B
<1>1. Bits6 \in Nat /\ w \in Nat \ {0}  BY BypassRulesAssumption
<1>2. p \in Nat  BY <1>1
<1>3. q \in Nat /\ r \in 0 .. w - 1 /\ p = w * q + r  BY <1>1, <1>2, Division
<1> HIDE DEF w, q, r
<1>4. ASSUME NEW k \in Nat, NEW j \in 1 .. w
      PROVE  /\ j \in Byte(A, k) <=> w * k + j \in A
             /\ j \in Byte(B, k) <=> w * k + j \in B
  BY DEF Byte, w
<1>5. mask = 1 .. r
  <2>1. mask = {j \in 1 .. w : j + (w - r) \in 1 .. w}  BY DEF ShiftLeft, w
  <2> HIDE DEF mask
  <2>2. \A j \in 1 .. w : j + (w - r) \in 1 .. w <=> j <= r  BY <1>1, <1>3
  <2> QED BY <1>1, <1>3, <2>1, <2>2
<1> HIDE DEF mask
<1>6. bytes <=> \A k \in 0 .. q - 1 : \A j \in 1 .. w : same(w * k + j)
  <2>1. ASSUME NEW k \in 0 .. q - 1
        PROVE  Byte(A, k) = Byte(B, k) <=> \A j \in 1 .. w : same(w * k + j)
    <3>1. k \in Nat  BY <1>3
    <3>2. Byte(A, k) \subseteq 1 .. w /\ Byte(B, k) \subseteq 1 .. w  BY DEF Byte, w
    <3> QED BY <1>4, <3>1, <3>2
  <2> QED BY <2>1
<1>7. bits <=> \A j \in 1 .. r : same(w * q + j)
  <2>1. \A j \in 1 .. r : j \in 1 .. w  BY <1>1, <1>3
  <2>2. SymDiff(Byte(A, q), Byte(B, q)) \cap (1 .. r) = {}
          <=> \A j \in 1 .. r : j \in Byte(A, q) <=> j \in Byte(B, q)
    BY DEF SymDiff
  <2>3. \A j \in 1 .. r : (j \in Byte(A, q) <=> j \in Byte(B, q)) <=> same(w * q + j)
    BY <1>3, <1>4, <2>1
  <2>4. r = 0 => \A j \in 1 .. r : same(w * q + j)  OBVIOUS
  <2> QED BY <1>5, <2>2, <2>3, <2>4
<1>8. ASSUME bytes, bits, NEW i \in 1 .. p PROVE same(i)
  <2>1. PICK k \in Nat : \E j \in 1 .. w : i = w * k + j
    <3>1. i \in Nat \ {0}  BY <1>2
    <3> QED BY <1>1, <3>1, BitInByte
  <2>2. PICK j \in 1 .. w : i = w * k + j  BY <2>1
  <2>3. k < q \/ (k = q /\ j <= r)
    <3>1. w * k + j <= w * q + r  BY <1>3, <2>2
    <3> QED BY <1>1, <1>3, <3>1, BitBefore
  <2>4. CASE k < q
    <3>1. k \in 0 .. q - 1  BY <1>3, <2>4
    <3> QED BY <1>6, <1>8, <2>2, <3>1
  <2>5. CASE k = q /\ j <= r
    <3>1. j \in 1 .. r  BY <1>3, <2>5
    <3> QED BY <1>7, <1>8, <2>2, <2>5, <3>1
  <2> QED BY <2>3, <2>4, <2>5
<1>9. ASSUME \A i \in 1 .. p : same(i) PROVE bytes /\ bits
  <2>1. ASSUME NEW k \in Nat, NEW j \in 1 .. w, k < q \/ (k = q /\ j <= r) PROVE same(w * k + j)
    <3>1. w * k + j <= p  BY <1>1, <1>3, <2>1, BitBefore
    <3>2. w * k + j \in Nat \ {0}
      <4>1. w * k \in Nat  BY <1>1
      <4> QED BY <4>1
    <3>3. w * k + j \in 1 .. p  BY <1>2, <3>1, <3>2
    <3> QED BY <1>9, <3>3
  <2>2. bytes
    <3>1. \A k \in 0 .. q - 1 : k \in Nat /\ k < q  BY <1>3
    <3> QED BY <1>6, <2>1, <3>1
  <2>3. bits
    <3>1. \A j \in 1 .. r : j \in 1 .. w /\ j <= r  BY <1>1, <1>3
    <3> QED BY <1>3, <1>7, <2>1, <3>1
  <2> QED BY <2>2, <2>3
<1>10. SameNetwork(A, B, Bits6, p) <=> \A i \in 1 .. p : same(i)  BY DEF SameNetwork
<1>11. bytes /\ bits <=> SameNetwork(A, B, Bits6, p)
  <2> HIDE DEF bytes, bits
  <2> QED BY <1>8, <1>9, <1>10
<1> QED BY <1>11 DEF q, r, mask

-----------------------------------------------------------------------------
\* Some symbol of these is the first one in a text.
LEMMA FirstPosition ==
    ASSUME NEW S, NEW text \in Seq(S), NEW symbols, Has(text, symbols)
    PROVE  /\ FirstOf(text, symbols) \in 1 .. Len(text)
           /\ text[FirstOf(text, symbols)] \in symbols
           /\ \A k \in 1 .. Len(text) : text[k] \in symbols => FirstOf(text, symbols) <= k
<1> DEFINE P == Positions(text, symbols)
<1>1. DOMAIN text = 1 .. Len(text) /\ Len(text) \in Nat  BY LenProperties
<1>2. P \in SUBSET Nat /\ P # {}  BY <1>1 DEF Has, Positions
<1>3. \E i \in P : \A k \in P : i <= k  BY <1>2, Least
<1>4. FirstOf(text, symbols) \in P /\ \A k \in P : FirstOf(text, symbols) <= k
  BY <1>3 DEF FirstOf
<1> QED BY <1>1, <1>4 DEF Positions

\* strip_host_port leaves the text up to some position.
LEMMA StripPortText ==
    ASSUME NEW S, NEW text \in Seq(S)
    PROVE  \/ StripPort(text).text = text
           \/ \E i \in 1 .. Len(text) : StripPort(text).text = SubSeq(text, 1, i - 1)
<1> DEFINE bracketed == text # <<>> /\ text[1] = "["
           closed == {i \in Positions(text, DOMAIN PortOf) : i > 1 /\ text[i - 1] = "]"}
           at == CHOOSE i \in closed : \A k \in closed : i <= k
           cut(i) == [text |-> SubSeq(text, 1, i - 1),
                      port |-> IF text[i] \in DOMAIN PortOf THEN PortOf[text[i]] ELSE 0]
<1>1. DOMAIN text = 1 .. Len(text) /\ Len(text) \in Nat  BY LenProperties
<1>2. closed \in SUBSET Nat /\ closed \subseteq 1 .. Len(text)  BY <1>1 DEF Positions
<1>3. StripPort(text) =
          CASE bracketed /\ closed # {} -> cut(at)
            [] ~bracketed /\ Has(text, Colons) -> cut(FirstOf(text, Colons))
            [] OTHER -> [text |-> text, port |-> 0]
  BY DEF StripPort
<1>4. closed # {} => at \in 1 .. Len(text)
  <2>1. SUFFICES ASSUME closed # {} PROVE at \in closed
    BY <1>2
  <2> HIDE DEF closed
  <2>2. \E i \in closed : \A k \in closed : i <= k  BY <1>2, <2>1, Least
  <2> QED BY <2>2
<1>5. Has(text, Colons) => FirstOf(text, Colons) \in 1 .. Len(text)  BY FirstPosition
<1> HIDE DEF bracketed, closed, at
<1>6. CASE bracketed /\ closed # {}  BY <1>3, <1>4, <1>6
<1>7. CASE ~bracketed /\ Has(text, Colons)  BY <1>3, <1>5, <1>7
<1>8. CASE ~(bracketed /\ closed # {}) /\ ~(~bracketed /\ Has(text, Colons))  BY <1>3, <1>8
<1> QED BY <1>6, <1>7, <1>8

\* strip_host_port leaves symbols of the text.
LEMMA StripPortKeeps ==
    ASSUME NEW S, NEW text \in Seq(S)
    PROVE  StripPort(text).text \in Seq(S)
<1>1. CASE StripPort(text).text = text  BY <1>1
<1>2. ASSUME NEW i \in 1 .. Len(text), StripPort(text).text = SubSeq(text, 1, i - 1)
      PROVE  StripPort(text).text \in Seq(S)
  <2>1. SubSeq(text, 1, i - 1) \in Seq(S)  BY SubSeqProperties
  <2> QED BY <1>2, <2>1
<1> QED BY <1>1, <1>2, StripPortText

\* A name in angle brackets has no port.
LEMMA SpecialBare ==
    ASSUME NEW name \in SpecialRules
    PROVE  /\ StripPort(<<name>>) = [text |-> <<name>>, port |-> 0]
           /\ ~Has(<<name>>, DOMAIN PrefixOf)
<1>1. name \notin Colons /\ name \notin DOMAIN PrefixOf /\ name \notin DOMAIN PortOf
  BY BypassRulesAssumption DEF Colons
<1>2. <<name>> \in Seq({name}) /\ Len(<<name>>) = 1 /\ <<name>>[1] = name /\ DOMAIN <<name>> = {1}
  OBVIOUS
<1>3. name # "["  BY DEF SpecialRules
<1>4. ~Has(<<name>>, Colons) /\ ~Has(<<name>>, DOMAIN PrefixOf)
  BY <1>1, <1>2 DEF Has, Positions
<1> QED BY <1>2, <1>3, <1>4 DEF StripPort

\* A sequence of one text whose last text gets longer.
LEMMA LastReplaced ==
    ASSUME NEW s, NEW x
    PROVE  [<<s>> EXCEPT ![1] = Append(@, x)] = << Append(s, x) >>
OBVIOUS

\* A list of rules without a comma.
OneRule(list) == ~Has(list, {","})

\* A turn of the loop over a list of rules.
RulesTurn(list, f, i) ==
    CASE i = 0 -> << <<>> >>
      [] i > 0 /\ list[i] = "," -> Append(f[i - 1], <<>>)
      [] OTHER -> [f[i - 1] EXCEPT ![Len(f[i - 1])] = Append(@, list[i])]

\* The pieces of a list without a comma are the list.
LEMMA RulesOfOne ==
    ASSUME NEW S, NEW list \in Seq(S), OneRule(list)
    PROVE  Rules(list) = <<list>>
<1> DEFINE n == Len(list)
           f == [i \in 0 .. n |-> << SubSeq(list, 1, i) >>]
           m == CHOOSE g : g = [i \in 0 .. n |-> RulesTurn(list, g, i)]
<1>1. n \in Nat /\ DOMAIN list = 1 .. n  BY LenProperties
<1>2. \A i \in 1 .. n : list[i] # ","  BY <1>1, Zenon DEF OneRule, Has, Positions
<1>3. /\ SubSeq(list, 1, 0) = <<>> /\ SubSeq(list, 1, n) = list
       /\ \A i \in 1 .. n : Append(SubSeq(list, 1, i - 1), list[i]) = SubSeq(list, 1, i)
  BY PrefixUpTo
<1> HIDE DEF n
<1>4. ASSUME NEW g, NEW i \in 1 .. n, g[i - 1] = << SubSeq(list, 1, i - 1) >>
      PROVE  RulesTurn(list, g, i) = << SubSeq(list, 1, i) >>
  <2>1. RulesTurn(list, g, i) = [g[i - 1] EXCEPT ![Len(g[i - 1])] = Append(@, list[i])]
    <3>1. i # 0  BY <1>1
    <3>2. list[i] # ","  BY <1>2
    <3> QED BY <3>1, <3>2, Zenon DEF RulesTurn
  <2> DEFINE s == SubSeq(list, 1, i - 1)
  <2>2. g[i - 1] = <<s>> /\ Len(<<s>>) = 1  BY <1>4
  <2> HIDE DEF s
  <2>3. [<<s>> EXCEPT ![1] = Append(@, list[i])] = << Append(s, list[i]) >>  BY LastReplaced
  <2>4. RulesTurn(list, g, i) = << Append(s, list[i]) >>  BY <2>1, <2>2, <2>3
  <2> QED BY <1>3, <2>4 DEF s
<1>5. ASSUME NEW g PROVE RulesTurn(list, g, 0) = << <<>> >>
  <2>1. ~(0 > 0)  OBVIOUS
  <2> QED BY <2>1, Zenon DEF RulesTurn
<1>6. f = [i \in 0 .. n |-> RulesTurn(list, f, i)]
  <2>1. ASSUME NEW i \in 0 .. n PROVE RulesTurn(list, f, i) = << SubSeq(list, 1, i) >>
    <3>1. CASE i = 0  BY <1>5, <1>3, <3>1
    <3>2. CASE i # 0
      <4>1. i \in 1 .. n /\ i - 1 \in 0 .. n  BY <1>1, <3>2
      <4>2. f[i - 1] = << SubSeq(list, 1, i - 1) >>  BY <4>1
      <4> HIDE DEF f
      <4> QED BY <1>4, <4>1, <4>2
    <3> QED BY <3>1, <3>2
  <2> QED BY <2>1
<1>7. m = [i \in 0 .. n |-> RulesTurn(list, m, i)]
  <2> HIDE DEF f
  <2> QED BY <1>6
<1>8. Rules(list) = m[n]  BY Zenon DEF Rules, RulesTurn, m, n
<1> HIDE DEF m
<1> DEFINE T == {i \in 0 .. n : m[i] = << SubSeq(list, 1, i) >>}
<1>9. 0 \in T
  <2>1. 0 \in 0 .. n  BY <1>1
  <2>2. m[0] = RulesTurn(list, m, 0)  BY <1>7, <2>1
  <2> QED BY <1>5, <1>3, <2>1, <2>2
<1>10. ASSUME NEW i \in 1 .. n, i - 1 \in T PROVE i \in T
  <2>1. i \in 0 .. n  BY <1>1
  <2>2. m[i] = RulesTurn(list, m, i)  BY <1>7, <2>1
  <2>3. m[i - 1] = << SubSeq(list, 1, i - 1) >>  BY <1>10
  <2> QED BY <1>4, <2>2, <2>3, <2>1
<1> HIDE DEF T
<1>11. n \in T
  <2>1. 0 .. n \subseteq T  BY <1>1, <1>9, <1>10, EveryTurn
  <2> QED BY <1>1, <2>1
<1> QED BY <1>8, <1>11, <1>3 DEF T

\* should_bypass_proxy with one rule takes one turn.
LEMMA OneTurn ==
    ASSUME NEW S, NEW list \in Seq(S), OneRule(list), list # NoList, NEW url
    PROVE  LET turned == ApplyRule(url, Before(url), list)
           IN  Bypasses(url, list) = IF turned.overrun THEN BOOLEAN ELSE {turned.should_bypass}
<1> DEFINE rules == Rules(list)
           start == Before(url)
           end == ApplyRule(url, start, list)
           f == [i \in 0 .. Len(rules) |-> IF i = 0 THEN start ELSE end]
           m == CHOOSE g : g = [i \in 0 .. Len(rules) |->
                                    IF i = 0 THEN start ELSE ApplyRule(url, g[i - 1], rules[i])]
<1>1. rules = <<list>>  BY RulesOfOne
<1>2. Len(rules) = 1 /\ rules[1] = list
  <2> HIDE DEF rules
  <2> QED BY <1>1
<1>3. Bypasses(url, list) = IF m[Len(rules)].overrun THEN BOOLEAN
                            ELSE {m[Len(rules)].should_bypass}
  BY Zenon DEF Bypasses
<1> HIDE DEF rules, start
<1>4. f = [i \in 0 .. Len(rules) |-> IF i = 0 THEN start ELSE ApplyRule(url, f[i - 1], rules[i])]
  <2>1. ASSUME NEW i \in 0 .. Len(rules)
        PROVE  f[i] = IF i = 0 THEN start ELSE ApplyRule(url, f[i - 1], rules[i])
    <3>1. CASE i = 0  BY <1>2, <3>1
    <3>2. CASE i # 0
      <4>1. i = 1 /\ i - 1 = 0  BY <1>2, <3>2
      <4>2. f[i - 1] = start /\ f[i] = end  BY <1>2, <4>1
      <4> HIDE DEF f
      <4> QED BY <1>2, <3>2, <4>1, <4>2
    <3> QED BY <3>1, <3>2
  <2> QED BY <2>1
<1>5. m = [i \in 0 .. Len(rules) |-> IF i = 0 THEN start ELSE ApplyRule(url, m[i - 1], rules[i])]
  <2> HIDE DEF f
  <2> QED BY <1>4
<1> HIDE DEF f, m, end
<1>6. m[0] = start /\ m[1] = ApplyRule(url, m[0], rules[1])
  <2>1. 0 \in 0 .. 1 /\ 1 \in 0 .. 1 /\ 1 # 0 /\ 1 - 1 = 0  OBVIOUS
  <2> QED BY <1>2, <1>5, <2>1
<1> QED BY <1>2, <1>3, <1>6 DEF start

\* The rule as should_bypass_proxy has it in its buffer.
Buffer(rule) == IF rule # <<>> /\ rule[1] = "." THEN <<"*">> \o rule ELSE rule

\* The buffer holds a text.
LEMMA Buffered ==
    ASSUME NEW S, NEW rule \in Seq(S)
    PROVE  /\ Buffer(rule) \in Seq(S \cup {"*"})
           /\ <<>> \o (IF rule # <<>> /\ rule[1] = "." THEN <<"*">> ELSE <<>>) \o rule = Buffer(rule)
<1>1. rule \in Seq(S \cup {"*"}) /\ <<"*">> \in Seq(S \cup {"*"})  OBVIOUS
<1>2. <<>> \o <<"*">> = <<"*">> /\ <<>> \o <<>> = <<>> /\ <<>> \o rule = rule
  BY <1>1, ConcatEmptySeq, EmptySeq
<1>3. <<"*">> \o rule \in Seq(S \cup {"*"})  BY <1>1, ConcatProperties
<1>4. CASE rule # <<>> /\ rule[1] = "."  BY <1>2, <1>3, <1>4 DEF Buffer
<1>5. CASE ~(rule # <<>> /\ rule[1] = ".")  BY <1>1, <1>2, <1>5 DEF Buffer
<1> QED BY <1>4, <1>5

\* A rule that fits into the buffer is copied whole, with what is put before it.
LEMMA BufferFits ==
    ASSUME NEW S, NEW rule \in Seq(S), FitsBuffer(rule)
    PROVE  /\ Copied(rule) = rule /\ 0 < HostMax - 1
           /\ ~(Len(Buffer(rule)) >= HostMax)
<1>1. HostMax \in Nat /\ HostMax > 2  BY BypassRulesAssumption
<1>2. Len(rule) \in Nat  OBVIOUS
<1>3. CASE rule # <<>> /\ rule[1] = "."
  <2>1. rule \in Seq(S \cup {"*"}) /\ <<"*">> \in Seq(S \cup {"*"}) /\ Len(<<"*">>) = 1
    OBVIOUS
  <2>2. Len(<<"*">> \o rule) = Len(<<"*">>) + Len(rule)  BY <2>1, ConcatProperties
  <2>3. Len(Buffer(rule)) = 1 + Len(rule)  BY <1>2, <1>3, <2>1, <2>2 DEF Buffer
  <2>4. Len(rule) + 1 < HostMax  BY <1>3 DEF FitsBuffer
  <2> QED BY <1>1, <1>2, <2>3, <2>4 DEF Copied
<1>4. CASE ~(rule # <<>> /\ rule[1] = ".")
  <2>1. Len(rule) + 0 < HostMax  BY <1>4, Zenon DEF FitsBuffer
  <2>2. Buffer(rule) = rule  BY <1>4, Zenon DEF Buffer
  <2> QED BY <1>1, <1>2, <2>1, <2>2 DEF Copied
<1> QED BY <1>3, <1>4

\* What a rule makes of should_bypass, by what the buffer has in it.
LEMMA RuleTurn ==
    ASSUME NEW S, NEW rule \in Seq(S), NEW url, FitsBuffer(rule)
    PROVE  LET h == StripPort(url.host)
               bare == StripPort(Buffer(rule))
               address == StripBrackets(h.text)
               isLocal == h.text \in Loopback
               turned == ApplyRule(url, Before(url), rule).should_bypass
               matched == IF WildcardMatch(h.text, bare.text)
                          THEN bare.port = 0 \/ bare.port = UrlPort(url) ELSE isLocal
           IN  /\ ~ApplyRule(url, Before(url), rule).overrun
               /\ Has(Buffer(rule), DOMAIN PrefixOf) =>
                    (turned <=> isLocal \/ InRange4(address, Buffer(rule))
                                        \/ InRange6(address, Buffer(rule)))
               /\ ~Has(Buffer(rule), DOMAIN PrefixOf) =>
                    (turned <=> CASE isLocal /\ bare.text = <<"<-loopback>">> -> FALSE
                                  [] ~Has(h.text, Dots) /\ bare.text = <<"<local>">> -> TRUE
                                  [] OTHER -> matched)
<1> DEFINE h == StripPort(url.host)
           bare == StripPort(Buffer(rule))
           address == StripBrackets(h.text)
           isLocal == h.text \in Loopback
           turned == ApplyRule(url, Before(url), rule)
           v == Before(url)
           buffer == Buffer(rule)
           ranged == [v EXCEPT !.bypass_rule = buffer, !.host = address,
                               !.should_bypass = @ \/ InRange4(address, buffer) \/ InRange6(address, buffer)]
           w == [v EXCEPT !.bypass_rule = bare.text]
           judged == IF WildcardMatch(v.host, bare.text) THEN Judge(url, w, bare.port) ELSE w
           last(j) == [j EXCEPT !.overrun = @ \/ Len(buffer) >= HostMax, !.should_bypass =
                          CASE isLocal /\ j.bypass_rule = <<"<-loopback>">> -> FALSE
                            [] ~Has(h.text, Dots) /\ j.bypass_rule = <<"<local>">> -> TRUE
                            [] OTHER -> @]
<1>1. v = [host |-> h.text, host_port |-> h.port, bypass_rule |-> <<>>, should_bypass |-> isLocal,
           overrun |-> FALSE]
  BY DEF Before
<1>2. v.bypass_rule \o (IF rule # <<>> /\ rule[1] = "." /\ Len(v.bypass_rule) < HostMax - 1
                        THEN <<"*">> ELSE <<>>) \o Copied(rule) = buffer
  <2>1. v.bypass_rule = <<>> /\ Len(v.bypass_rule) = 0  BY <1>1
  <2> HIDE DEF v, buffer
  <2>2. <<>> \o (IF rule # <<>> /\ rule[1] = "." THEN <<"*">> ELSE <<>>) \o rule = buffer
    BY Buffered DEF buffer
  <2>3. Copied(rule) = rule /\ Len(v.bypass_rule) < HostMax - 1  BY <2>1, BufferFits
  <2> QED BY <2>1, <2>2, <2>3
<1>3. turned = last(IF Has(buffer, DOMAIN PrefixOf) THEN ranged ELSE judged)
  <2>1. v.host = h.text  BY <1>1
  <2> QED BY <1>2, <2>1 DEF ApplyRule
<1> HIDE DEF last, ranged, judged, turned, w
<1>4. ASSUME Has(buffer, DOMAIN PrefixOf)
      PROVE  /\ ~turned.overrun
             /\ turned.should_bypass
                  <=> isLocal \/ InRange4(address, buffer) \/ InRange6(address, buffer)
  <2>1. turned = last(ranged)  BY <1>3, <1>4
  <2>2. buffer # <<"<-loopback>">> /\ buffer # <<"<local>">>
    BY <1>4, SpecialBare DEF SpecialRules
  <2>3. ranged = [host |-> address, host_port |-> h.port, bypass_rule |-> buffer,
                  should_bypass |-> isLocal \/ InRange4(address, buffer) \/ InRange6(address, buffer),
                  overrun |-> FALSE]
    <3> DEFINE x == v.should_bypass \/ InRange4(address, buffer) \/ InRange6(address, buffer)
    <3>1. ranged = [v EXCEPT !.bypass_rule = buffer, !.host = address, !.should_bypass = x]
      BY Zenon DEF ranged
    <3> HIDE DEF h, address, isLocal, buffer, v
    <3>2. v.should_bypass = isLocal  BY <1>1
    <3>3. x = (isLocal \/ InRange4(address, buffer) \/ InRange6(address, buffer))
      BY <3>2, Zenon
    <3> HIDE DEF x
    <3>4. ranged = [host |-> address, host_port |-> h.port, bypass_rule |-> buffer,
                    should_bypass |-> x, overrun |-> FALSE]
      BY <1>1, <3>1
    <3> QED BY <3>3, <3>4, Zenon
  <2>4. ~(Len(buffer) >= HostMax)  BY BufferFits
  <2> HIDE DEF h, address, isLocal, buffer
  <2>5. last(ranged).should_bypass = ranged.should_bypass  BY <2>2, <2>3 DEF last
  <2>6. ~last(ranged).overrun  BY <2>3, <2>4 DEF last
  <2> QED BY <2>1, <2>3, <2>5, <2>6
<1>5. ASSUME ~Has(buffer, DOMAIN PrefixOf)
      PROVE  /\ ~turned.overrun
             /\ turned.should_bypass
                  <=> CASE isLocal /\ bare.text = <<"<-loopback>">> -> FALSE
                        [] ~Has(h.text, Dots) /\ bare.text = <<"<local>">> -> TRUE
                        [] OTHER -> (IF WildcardMatch(h.text, bare.text)
                                     THEN bare.port = 0 \/ bare.port = UrlPort(url) ELSE isLocal)
  <2>1. turned = last(judged)  BY <1>3, <1>5
  <2>2. w = [host |-> h.text, host_port |-> h.port, bypass_rule |-> bare.text,
             should_bypass |-> isLocal, overrun |-> FALSE]
    <3>1. w = [v EXCEPT !.bypass_rule = bare.text]  BY Zenon DEF w
    <3> HIDE DEF h, bare, isLocal, v, buffer, address
    <3> QED BY <1>1, <3>1
  <2>3. UrlPort(url) = IF h.port = 0 THEN DefaultPort(url.scheme) ELSE h.port  BY DEF UrlPort
  <2>4. v.host = h.text  BY <1>1
  <2> HIDE DEF h, bare, isLocal, v
  <2>5. Judge(url, w, bare.port)
          = [host |-> h.text, bypass_rule |-> bare.text,
             host_port |-> IF bare.port # 0 /\ h.port = 0 THEN DefaultPort(url.scheme) ELSE h.port,
             should_bypass |-> bare.port = 0 \/ bare.port = UrlPort(url), overrun |-> FALSE]
    <3>1. bare.port # 0 =>
            UrlPort(url) = IF bare.port # 0 /\ h.port = 0 THEN DefaultPort(url.scheme) ELSE h.port
      BY <2>3
    <3> DEFINE inferred == IF bare.port # 0 /\ w.host_port = 0 THEN DefaultPort(url.scheme)
                           ELSE w.host_port
    <3>2. Judge(url, w, bare.port)
            = [w EXCEPT !.host_port = inferred, !.should_bypass = (bare.port = 0 \/ bare.port = inferred)]
      BY DEF Judge
    <3>3. inferred = IF bare.port # 0 /\ h.port = 0 THEN DefaultPort(url.scheme) ELSE h.port
      BY <2>2
    <3>4. (bare.port = 0 \/ bare.port = inferred) = (bare.port = 0 \/ bare.port = UrlPort(url))
      BY <3>1, <3>3
    <3> HIDE DEF inferred
    <3> QED BY <2>2, <3>2, <3>3, <3>4
  <2> DEFINE matched == IF WildcardMatch(h.text, bare.text)
                        THEN bare.port = 0 \/ bare.port = UrlPort(url) ELSE isLocal
             c == CASE isLocal /\ bare.text = <<"<-loopback>">> -> FALSE
                    [] ~Has(h.text, Dots) /\ bare.text = <<"<local>">> -> TRUE
                    [] OTHER -> matched
  <2>6. judged.bypass_rule = bare.text /\ judged.should_bypass = matched /\ ~judged.overrun
    BY <2>2, <2>4, <2>5 DEF judged
  <2>7. judged = [host |-> judged.host, host_port |-> judged.host_port,
                  bypass_rule |-> judged.bypass_rule, should_bypass |-> judged.should_bypass,
                  overrun |-> judged.overrun]
    <3>1. CASE WildcardMatch(h.text, bare.text)
      <4>1. judged = Judge(url, w, bare.port)  BY <2>4, <3>1 DEF judged
      <4> HIDE DEF judged
      <4> QED BY <2>5, <4>1
    <3>2. CASE ~WildcardMatch(h.text, bare.text)
      <4>1. judged = w  BY <2>4, <3>2 DEF judged
      <4> HIDE DEF judged
      <4> QED BY <2>2, <4>1
    <3> QED BY <3>1, <3>2
  <2>8. ~(Len(buffer) >= HostMax)  BY BufferFits
  <2> HIDE DEF matched, judged, buffer
  <2>9. last(judged) = [judged EXCEPT !.overrun = @ \/ Len(buffer) >= HostMax, !.should_bypass = c]
    BY <2>6, Zenon DEF last
  <2> HIDE DEF c, last
  <2>10. last(judged).should_bypass = c /\ ~last(judged).overrun
    BY <2>6, <2>7, <2>8, <2>9
  <2>11. turned.should_bypass = c /\ ~turned.overrun  BY <2>1, <2>10
  <2> QED BY <2>11 DEF c, matched
<1> QED BY <1>4, <1>5 DEF turned

\* A text that begins with another symbol is no network.
LEMMA NoNetwork ==
    ASSUME NEW S, NEW text \in Seq(S), Has(text, DOMAIN PrefixOf), text # <<>>,
           text[1] \notin DOMAIN PrefixOf, NEW family, text[1] \notin DOMAIN family
    PROVE  ~IsAddress(Cidr(text).ip, family)
<1> DEFINE at == FirstOf(text, DOMAIN PrefixOf)
           ip == SubSeq(text, 1, at - 1)
<1>1. at \in 1 .. Len(text) /\ text[at] \in DOMAIN PrefixOf  BY FirstPosition
<1>2. Cidr(text).ip = ip  BY DEF Cidr
<1> HIDE DEF at
<1>3. at # 1  BY <1>1
<1>4. Len(text) \in Nat  BY LenProperties
<1>5. ip[1] = text[1]
  <2>1. at - 1 \in 1 .. Len(text) /\ 1 \in 1 .. at - 1  BY <1>1, <1>3, <1>4
  <2> QED BY <2>1, SubSeqProperties
<1> QED BY <1>2, <1>5 DEF IsAddress

\* is_ipv4_in_cidr_range.
LEMMA InRange4Says ==
    ASSUME NEW address, NEW rule
    PROVE  InRange4(address, rule)
             <=> /\ IsAddress(address, Ipv4) /\ IsAddress(Cidr(rule).ip, Ipv4)
                 /\ SameNetwork(Ipv4[address[1]], Ipv4[Cidr(rule).ip[1]], Bits4, Cidr(rule).prefix)
<1> DEFINE p == Cidr(rule).prefix
           A == Ipv4[address[1]]
           B == Ipv4[Cidr(rule).ip[1]]
<1>1. CASE p \in 0 .. Bits4
  <2>1. (A \cap (IF p >= Bits4 THEN 1 .. Bits4 ELSE (1 .. Bits4) \ ShiftRight(1 .. Bits4, p, Bits4))
            = B \cap (IF p >= Bits4 THEN 1 .. Bits4
                      ELSE (1 .. Bits4) \ ShiftRight(1 .. Bits4, p, Bits4)))
           <=> SameNetwork(A, B, Bits4, p)
    <3> HIDE DEF p, A, B
    <3> QED BY <1>1, LeadingBits4
  <2> QED BY <1>1, <2>1, Zenon DEF InRange4
<1>2. CASE p \notin 0 .. Bits4
  BY <1>2, Zenon DEF InRange4, SameNetwork
<1> QED BY <1>1, <1>2

\* is_ipv6_in_cidr_range.
LEMMA InRange6Says ==
    ASSUME NEW address, NEW rule
    PROVE  InRange6(address, rule)
             <=> /\ IsAddress(address, Ipv6) /\ IsAddress(Cidr(rule).ip, Ipv6)
                 /\ SameNetwork(Ipv6[address[1]], Ipv6[Cidr(rule).ip[1]], Bits6, Cidr(rule).prefix)
<1> DEFINE p == Cidr(rule).prefix
           A == Ipv6[address[1]]
           B == Ipv6[Cidr(rule).ip[1]]
           q == p \div ByteBits
           r == p % ByteBits
           equal == /\ \A k \in 0 .. q - 1 : Byte(A, k) = Byte(B, k)
                    /\ r # 0 => SymDiff(Byte(A, q), Byte(B, q))
                                  \cap ShiftLeft(1 .. ByteBits, ByteBits - r, ByteBits) = {}
<1>1. CASE p \in 0 .. Bits6
  <2>1. equal <=> SameNetwork(A, B, Bits6, p)
    <3> HIDE DEF p, A, B
    <3> QED BY <1>1, LeadingBits6
  <2>2. InRange6(address, rule)
          <=> IsAddress(address, Ipv6) /\ IsAddress(Cidr(rule).ip, Ipv6) /\ equal
    BY <1>1, Zenon DEF InRange6
  <2> HIDE DEF equal
  <2> QED BY <2>1, <2>2
<1>2. CASE p \notin 0 .. Bits6
  BY <1>2, Zenon DEF InRange6, SameNetwork
<1> QED BY <1>1, <1>2

\* What a range says of an address, in the notation of RuleSays.
Inside(rule, address) ==
    \E family \in {[of |-> Ipv4, bits |-> Bits4], [of |-> Ipv6, bits |-> Bits6]} :
        /\ IsAddress(address, family.of) /\ IsAddress(Cidr(rule).ip, family.of)
        /\ SameNetwork(family.of[address[1]], family.of[Cidr(rule).ip[1]],
                       family.bits, Cidr(rule).prefix)

\* The buffer of a rule in CIDR notation is in the range that the rule names.
LEMMA InsideSays ==
    ASSUME NEW S, NEW rule \in Seq(S), NEW address
    PROVE  /\ Has(Buffer(rule), DOMAIN PrefixOf) <=> Has(rule, DOMAIN PrefixOf)
           /\ Has(rule, DOMAIN PrefixOf) =>
                (InRange4(address, Buffer(rule)) \/ InRange6(address, Buffer(rule))
                   <=> Inside(rule, address))
<1> DEFINE in(family, bits) ==
               /\ IsAddress(address, family) /\ IsAddress(Cidr(rule).ip, family)
               /\ SameNetwork(family[address[1]], family[Cidr(rule).ip[1]], bits, Cidr(rule).prefix)
<1>1. Inside(rule, address) <=> in(Ipv4, Bits4) \/ in(Ipv6, Bits6)
  <2> DEFINE four == [of |-> Ipv4, bits |-> Bits4]
             six == [of |-> Ipv6, bits |-> Bits6]
  <2>1. /\ four.of = Ipv4 /\ four.bits = Bits4
        /\ six.of = Ipv6 /\ six.bits = Bits6
    OBVIOUS
  <2>2. Inside(rule, address) <=> in(four.of, four.bits) \/ in(six.of, six.bits)
    <3> HIDE DEF four, six
    <3> QED BY Zenon DEF Inside, four, six
  <2> HIDE DEF four, six
  <2> QED BY <2>1, <2>2
<1>2. CASE Buffer(rule) = rule
  BY <1>1, <1>2, InRange4Says, InRange6Says
<1>3. CASE Buffer(rule) # rule
  <2>1. rule # <<>> /\ rule[1] = "." /\ Buffer(rule) = <<"*">> \o rule  BY <1>3 DEF Buffer
  <2>2. /\ "*" \notin DOMAIN PrefixOf /\ "*" \notin DOMAIN Ipv4 /\ "*" \notin DOMAIN Ipv6
        /\ "." \notin DOMAIN PrefixOf /\ "." \notin DOMAIN Ipv4 /\ "." \notin DOMAIN Ipv6
    BY BypassRulesAssumption, Zenon
  <2>3. /\ Len(Buffer(rule)) = 1 + Len(rule) /\ Buffer(rule)[1] = "*"
        /\ \A i \in 1 .. Len(rule) : Buffer(rule)[i + 1] = rule[i]
        /\ Buffer(rule) \in Seq(S \cup {"*"}) /\ Len(rule) \in Nat
    <3>1. rule \in Seq(S \cup {"*"}) /\ <<"*">> \in Seq(S \cup {"*"}) /\ Len(<<"*">>) = 1
      OBVIOUS
    <3>2. Len(rule) \in Nat  BY LenProperties
    <3> QED BY <2>1, <3>1, <3>2, ConcatProperties
  <2>4. Has(Buffer(rule), DOMAIN PrefixOf) <=> Has(rule, DOMAIN PrefixOf)
    <3>1. DOMAIN rule = 1 .. Len(rule) /\ DOMAIN Buffer(rule) = 1 .. 1 + Len(rule)
      BY <2>3, LenProperties
    <3>2. ASSUME NEW i \in 1 .. Len(rule), rule[i] \in DOMAIN PrefixOf
          PROVE  i + 1 \in DOMAIN Buffer(rule) /\ Buffer(rule)[i + 1] \in DOMAIN PrefixOf
      BY <2>3, <3>1, <3>2
    <3>3. ASSUME NEW i \in 1 .. 1 + Len(rule), Buffer(rule)[i] \in DOMAIN PrefixOf
          PROVE  i - 1 \in DOMAIN rule /\ rule[i - 1] \in DOMAIN PrefixOf
      <4>1. i # 1  BY <2>2, <2>3, <3>3
      <4>2. i - 1 \in 1 .. Len(rule) /\ (i - 1) + 1 = i  BY <2>3, <4>1
      <4> QED BY <2>3, <3>1, <3>3, <4>2
    <3> QED BY <3>1, <3>2, <3>3 DEF Has, Positions
  <2>5. ASSUME Has(rule, DOMAIN PrefixOf)
        PROVE  ~InRange4(address, Buffer(rule)) /\ ~InRange6(address, Buffer(rule))
               /\ ~in(Ipv4, Bits4) /\ ~in(Ipv6, Bits6)
    <3>1. Buffer(rule) # <<>>  BY <2>3
    <3>2. ~IsAddress(Cidr(rule).ip, Ipv4) /\ ~IsAddress(Cidr(rule).ip, Ipv6)
      BY <2>1, <2>2, <2>5, NoNetwork
    <3>3. ~IsAddress(Cidr(Buffer(rule)).ip, Ipv4) /\ ~IsAddress(Cidr(Buffer(rule)).ip, Ipv6)
      BY <2>2, <2>3, <2>4, <2>5, <3>1, NoNetwork
    <3> QED BY <3>2, <3>3, InRange4Says, InRange6Says
  <2> HIDE DEF in
  <2> QED BY <1>1, <2>4, <2>5
<1> QED BY <1>2, <1>3

\* A host without a name in angle brackets is not of the form of one.
LEMMA PlainHost ==
    ASSUME NEW H, NEW host \in Seq(H), NEW name \in SpecialRules, name \notin H
    PROVE  ~WildcardMatch(host, <<name>>)
<1> DEFINE pattern == <<name>>
<1>1. host \in Seq(H \cup {name}) /\ pattern \in Seq(H \cup {name})
      /\ Len(pattern) = 1 /\ pattern[1] = name /\ DOMAIN pattern = {1}
  OBVIOUS
<1>2. name # "*"  BY DEF SpecialRules
<1> HIDE DEF pattern
<1>3. SUFFICES ASSUME MatchesPattern(host, pattern) PROVE FALSE
  BY <1>1, WildcardForm DEF pattern
<1>4. PICK n \in 0 .. Len(pattern) :
          /\ n < Len(pattern) => pattern[n + 1] = "*" /\ (n = 0 \/ pattern[n] # "*")
          /\ OfForm(host, SubSeq(pattern, 1, n))
  BY <1>3 DEF MatchesPattern
<1>5. n = 1  BY <1>1, <1>2, <1>4
<1>6. SubSeq(pattern, 1, n) = pattern  BY <1>1, <1>5, PrefixUpTo
<1>7. PICK cut \in [1 .. Len(pattern) + 1 -> 0 .. Len(host)] :
          /\ cut[1] = 0 /\ cut[Len(pattern) + 1] = Len(host)
          /\ \A j \in DOMAIN pattern :
                IF pattern[j] = "*" THEN cut[j] <= cut[j + 1]
                ELSE cut[j + 1] = cut[j] + 1 /\ host[cut[j + 1]] = pattern[j]
  <2>1. OfForm(host, pattern)  BY <1>4, <1>6
  <2> QED BY <2>1 DEF OfForm
<1>8. cut[2] = 1 /\ host[cut[2]] = name /\ cut[2] = Len(host)  BY <1>1, <1>2, <1>7
<1>9. host[1] \in H  BY <1>8, ElementOfSeq
<1> QED BY <1>8, <1>9

\* A rule by itself, or without a name in angle brackets.
ByItself(rule) == \A i \in DOMAIN rule : rule[i] \in SpecialRules => Len(rule) = 1

\* A rule without its port is a name in angle brackets only if the rule is.
LEMMA BareRule ==
    ASSUME NEW S, NEW rule \in Seq(S), ByItself(rule), NEW name \in SpecialRules
    PROVE  StripPort(Buffer(rule)).text = <<name>> <=> rule = <<name>>
<1> DEFINE buffer == Buffer(rule)
           bare == StripPort(buffer).text
<1>1. name # "." /\ name # "*"  BY DEF SpecialRules
<1>2. ASSUME rule = <<name>> PROVE bare = <<name>>
  <2>1. buffer = rule
    <3>1. rule[1] = name  BY <1>2
    <3> QED BY <1>1, <3>1 DEF Buffer
  <2>2. bare = StripPort(<<name>>).text  BY <1>2, <2>1
  <2>3. StripPort(<<name>>).text = <<name>>
    <3>1. StripPort(<<name>>) = [text |-> <<name>>, port |-> 0]  BY SpecialBare
    <3> HIDE DEF bare, buffer
    <3> QED BY ONLY <3>1
  <2> QED BY <2>2, <2>3
<1>3. ASSUME bare = <<name>> PROVE rule = <<name>>
  <2>1. buffer \in Seq(S \cup {"*"})  BY Buffered
  <2>2. Len(bare) = 1 /\ bare[1] = name  BY <1>3
  <2>3. Len(buffer) \in Nat /\ Len(rule) \in Nat /\ DOMAIN rule = 1 .. Len(rule)
    BY <2>1, LenProperties
  <2>4. Len(buffer) >= 1 /\ buffer[1] = name
    <3>1. CASE bare = buffer
      <4> HIDE DEF bare, buffer
      <4>1. Len(buffer) = 1 /\ buffer[1] = name  BY <2>2, <3>1
      <4>2. 1 >= 1  OBVIOUS
      <4> QED BY <4>1, <4>2
    <3>2. ASSUME NEW i \in 1 .. Len(buffer), bare = SubSeq(buffer, 1, i - 1)
          PROVE  Len(buffer) >= 1 /\ buffer[1] = name
      <4> HIDE DEF bare, buffer
      <4>1. Len(bare) = i - 1 /\ bare[1] = buffer[1]
        <5>1. /\ Len(SubSeq(buffer, 1, i - 1)) = IF 1 <= i - 1 THEN i - 1 - 1 + 1 ELSE 0
              /\ \A k \in 1 .. i - 1 - 1 + 1 : SubSeq(buffer, 1, i - 1)[k] = buffer[1 + k - 1]
          BY <2>1, <2>3, SubSeqProperties
        <5>2. i = 2  BY <2>2, <2>3, <3>2, <5>1
        <5> QED BY <3>2, <5>1, <5>2
      <4> QED BY <2>2, <2>3, <4>1
    <3> QED BY <2>1, <3>1, <3>2, StripPortText
  <2>5. rule # <<>>
    <3>1. SUFFICES ASSUME rule = <<>> PROVE FALSE
      OBVIOUS
    <3>2. buffer = <<>>  BY <3>1 DEF Buffer
    <3> QED BY <2>4, <3>2
  <2>6. rule[1] = name /\ Len(rule) >= 1
    <3>1. Len(rule) >= 1  BY <2>3, <2>5, EmptySeq
    <3>2. CASE rule[1] = "."
      <4>1. buffer = <<"*">> \o rule  BY <2>5, <3>2 DEF Buffer
      <4>2. buffer[1] = "*"
        <5>1. rule \in Seq(S \cup {"*"}) /\ <<"*">> \in Seq(S \cup {"*"}) /\ Len(<<"*">>) = 1
          OBVIOUS
        <5> HIDE DEF buffer
        <5> QED BY <2>3, <4>1, <5>1, ConcatProperties
      <4> QED BY <1>1, <2>4, <4>2
    <3>3. CASE rule[1] # "."
      <4>1. buffer = rule  BY <3>3 DEF Buffer
      <4> QED BY <2>4, <3>1, <4>1
    <3> QED BY <3>2, <3>3
  <2>7. Len(rule) = 1
    <3>1. 1 \in DOMAIN rule  BY <2>3, <2>6
    <3> QED BY <2>6, <3>1 DEF ByItself
  <2> QED BY <2>6, <2>7
<1> QED BY <1>2, <1>3

\* should_bypass_proxy decides by a list of one rule, if it fits into the buffer, as the
\* rule says of the url: the pattern, the range or the name in angle brackets, for any
\* host and any rule.  The two departures are those that Departs names.
THEOREM RuleDecided ==
    ASSUME NEW H, SpecialRules \cap H = {}, NEW url, url.host \in Seq(H),
           NEW S, NEW rule \in Seq(S), OneRule(rule), ByItself(rule), rule # NoList,
           FitsBuffer(rule)
    PROVE  \E bypass : /\ Bypasses(url, rule) = {bypass}
                       /\ \/ bypass <=> Verdict(RuleSays(rule, url), url)
                          \/ Departs(rule, url)
<1> DEFINE h == StripPort(url.host)
           bare == StripPort(Buffer(rule))
           address == StripBrackets(h.text)
           isLocal == h.text \in Loopback
           local == rule = <<"<local>">>
           loopback == rule = <<"<-loopback>">>
           dotted == Has(h.text, Dots)
           form == OfForm(h.text, bare.text)
           early == EndsEarly(h.text, bare.text)
           says == RuleSays(rule, url)
           turned == ApplyRule(url, Before(url), rule).should_bypass
<1>1. Bypasses(url, rule) = {turned}
  <2>1. ~ApplyRule(url, Before(url), rule).overrun  BY RuleTurn
  <2> QED BY <2>1, OneTurn
<1> SUFFICES (turned <=> Verdict(says, url)) \/ Departs(rule, url)
  <2> HIDE DEF turned, says
  <2> QED BY <1>1 DEF says
<1>2. Verdict(says, url) <=> says = "bypass" \/ (says = "nothing" /\ isLocal)
  BY DEF Verdict
<1>3. says = CASE Has(rule, DOMAIN PrefixOf) -> IF Inside(rule, address) THEN "bypass" ELSE "nothing"
               [] local -> IF dotted \/ IsLiteral6(h.text) THEN "nothing" ELSE "bypass"
               [] loopback -> IF isLocal THEN "proxy" ELSE "nothing"
               [] OTHER -> IF ~form THEN "nothing"
                           ELSE IF bare.port \in {0, UrlPort(url)} THEN "bypass" ELSE "proxy"
  BY Zenon DEF RuleSays, Inside, PatternOf, Buffer
<1>4. h.text \in Seq(H) /\ bare.text \in Seq(S \cup {"*"})  BY StripPortKeeps, Buffered
<1>5. WildcardMatch(h.text, bare.text) <=> form \/ early
  <2>1. h.text \in Seq(H \cup S \cup {"*"}) /\ bare.text \in Seq(H \cup S \cup {"*"})
    <3> HIDE DEF h, bare
    <3> QED BY <1>4
  <2> QED BY <2>1, WildcardCorrect
<1>6. /\ bare.text = <<"<local>">> <=> local
      /\ bare.text = <<"<-loopback>">> <=> loopback
  BY BareRule DEF SpecialRules
<1>7. local \/ loopback => ~WildcardMatch(h.text, bare.text) /\ ~Has(rule, DOMAIN PrefixOf)
  <2>1. SUFFICES ASSUME NEW name \in SpecialRules, rule = <<name>>
                 PROVE  ~WildcardMatch(h.text, bare.text) /\ ~Has(rule, DOMAIN PrefixOf)
    BY DEF SpecialRules
  <2>2. bare.text = <<name>>  BY <2>1, BareRule
  <2>3. name \notin H  OBVIOUS
  <2>4. ~WildcardMatch(h.text, <<name>>)  BY <1>4, <2>3, PlainHost
  <2> QED BY <2>1, <2>2, <2>4, SpecialBare
<1>8. /\ Has(Buffer(rule), DOMAIN PrefixOf) <=> Has(rule, DOMAIN PrefixOf)
      /\ Has(rule, DOMAIN PrefixOf) =>
           (InRange4(address, Buffer(rule)) \/ InRange6(address, Buffer(rule)) <=> Inside(rule, address))
  BY InsideSays
<1>9. ~(local /\ loopback)
  <2>1. <<"<local>">>[1] # <<"<-loopback>">>[1]  OBVIOUS
  <2> QED BY <2>1
<1>10. /\ Has(Buffer(rule), DOMAIN PrefixOf) =>
            (turned <=> isLocal \/ InRange4(address, Buffer(rule)) \/ InRange6(address, Buffer(rule)))
       /\ ~Has(Buffer(rule), DOMAIN PrefixOf) =>
            (turned <=> CASE isLocal /\ bare.text = <<"<-loopback>">> -> FALSE
                          [] ~dotted /\ bare.text = <<"<local>">> -> TRUE
                          [] OTHER -> IF WildcardMatch(h.text, bare.text)
                                      THEN bare.port = 0 \/ bare.port = UrlPort(url) ELSE isLocal)
  BY RuleTurn
<1>11. CASE Has(rule, DOMAIN PrefixOf)
  <2>1. says = IF Inside(rule, address) THEN "bypass" ELSE "nothing"
    BY <1>3, <1>7, <1>11, Zenon
  <2> HIDE DEF says, turned, address, isLocal
  <2>2. turned <=> isLocal \/ Inside(rule, address)  BY <1>8, <1>10, <1>11, Zenon
  <2>3. (says = "bypass" \/ (says = "nothing" /\ isLocal)) <=> isLocal \/ Inside(rule, address)
    <3>1. CASE Inside(rule, address)  BY <2>1, <3>1
    <3>2. CASE ~Inside(rule, address)  BY <2>1, <3>2
    <3> QED BY <3>1, <3>2
  <2> QED BY <1>2, <2>2, <2>3, Zenon
<1>12. CASE local
  <2> DEFINE literal == IsLiteral6(h.text)
  <2>1. says = IF dotted \/ literal THEN "nothing" ELSE "bypass"
    BY <1>3, <1>7, <1>9, <1>12, Zenon
  <2>2. says = "nothing" /\ literal => Departs(rule, url)  BY <1>12, Zenon DEF Departs
  <2>3. turned <=> IF dotted THEN isLocal ELSE TRUE
    <3> HIDE DEF turned, isLocal, dotted, local, loopback, h, bare
    <3> QED BY <1>6, <1>7, <1>8, <1>9, <1>10, <1>12
  <2> HIDE DEF says, turned, isLocal, dotted, literal
  <2>4. \/ (says = "bypass" \/ (says = "nothing" /\ isLocal)) <=> IF dotted THEN isLocal ELSE TRUE
        \/ Departs(rule, url)
    <3>1. CASE dotted  BY <2>1, <3>1
    <3>2. CASE ~dotted /\ ~literal  BY <2>1, <3>2
    <3>3. CASE literal  BY <2>1, <2>2, <3>3
    <3> QED BY <3>1, <3>2, <3>3
  <2> QED BY <1>2, <2>3, <2>4, Zenon
<1>13. CASE loopback
  <2>1. says = IF isLocal THEN "proxy" ELSE "nothing"  BY <1>3, <1>7, <1>9, <1>13, Zenon
  <2>2. ~turned
    <3> HIDE DEF turned, isLocal, dotted, local, loopback, h, bare
    <3> QED BY <1>6, <1>7, <1>8, <1>9, <1>10, <1>13
  <2> HIDE DEF says, turned, isLocal, dotted
  <2>3. ~(says = "bypass" \/ (says = "nothing" /\ isLocal))
    <3>1. CASE isLocal  BY <2>1, <3>1
    <3>2. CASE ~isLocal  BY <2>1, <3>2
    <3> QED BY <3>1, <3>2
  <2> QED BY <1>2, <2>2, <2>3, Zenon
<1>14. CASE ~Has(rule, DOMAIN PrefixOf) /\ ~local /\ ~loopback
  <2>1. says = IF ~form THEN "nothing"
               ELSE IF bare.port \in {0, UrlPort(url)} THEN "bypass" ELSE "proxy"
    BY <1>3, <1>14, Zenon
  <2>2. says = "nothing" /\ early => Departs(rule, url)
    BY <1>14, Zenon DEF Departs, PatternOf, Buffer
  <2>3. turned <=> IF form \/ early THEN bare.port = 0 \/ bare.port = UrlPort(url) ELSE isLocal
    <3> HIDE DEF turned, isLocal, dotted, local, loopback, h, bare
    <3> QED BY <1>5, <1>6, <1>8, <1>10, <1>14
  <2> HIDE DEF says, turned, isLocal, dotted, bare, form, early
  <2> DEFINE onPort == bare.port = 0 \/ bare.port = UrlPort(url)
  <2>4. bare.port \in {0, UrlPort(url)} <=> onPort  OBVIOUS
  <2>5. \/ (says = "bypass" \/ (says = "nothing" /\ isLocal))
             <=> IF form \/ early THEN onPort ELSE isLocal
        \/ Departs(rule, url)
    <3> HIDE DEF onPort
    <3>1. CASE ~form
      <4>1. says = "nothing"  BY <2>1, <3>1, Zenon
      <4> QED BY <2>2, <3>1, <4>1
    <3>2. CASE form /\ onPort
      <4>1. says = "bypass"  BY <2>1, <2>4, <3>2
      <4> QED BY <3>2, <4>1
    <3>3. CASE form /\ ~onPort
      <4>1. says = "proxy"  BY <2>1, <2>4, <3>3
      <4> QED BY <3>3, <4>1
    <3> QED BY <3>1, <3>2, <3>3
  <2> QED BY <1>2, <2>3, <2>5, Zenon
<1> QED BY <1>11, <1>12, <1>13, <1>14

-----------------------------------------------------------------------------
(* The texts of lists.                                                     *)

\* The comma of a list.
Comma == ","

\* A turn of the loop of Separated.
SeparatedTurn(texts, sep, i) == IF i = 0 THEN <<>> ELSE sep[i - 1] \o Append(texts[i], Comma)

\* The texts before the last one are separated as a sequence by itself.
LEMMA SeparatedEnds ==
    ASSUME NEW S, NEW texts \in Seq(Seq(S)), texts # <<>>
    PROVE  \E front \in Seq(S \cup {Comma}) :
               /\ Separated(texts) = Append(front \o texts[Len(texts)], Comma)
               /\ Len(texts) = 1 => front = <<>>
               /\ Len(texts) > 1 => Positions(front, {Comma}) # {}
<1> DEFINE n == Len(texts)
           T == Seq(S \cup {Comma})
           turn == [p \in (1 .. n) \X T |-> p[2] \o Append(texts[p[1]], Comma)]
           sep == CHOOSE g : g = [i \in 0 .. n |-> SeparatedTurn(texts, g, i)]
<1>1. n \in Nat /\ n > 0 /\ \A i \in 1 .. n : texts[i] \in Seq(S)
  OBVIOUS
<1>2. Separated(texts) = sep[n]
  BY Zenon DEF Separated, SeparatedTurn, Comma
<1>3. ASSUME NEW i \in 1 .. n PROVE Append(texts[i], Comma) \in T /\ texts[i] \in T
  <2>1. texts[i] \in Seq(S \cup {Comma})  BY <1>1
  <2> QED BY <2>1
<1> HIDE DEF n
<1>4. turn \in Turns(n, T)
  <2>1. ASSUME NEW p \in (1 .. n) \X T PROVE p[2] \o Append(texts[p[1]], Comma) \in T
    BY <1>3
  <2> QED BY <2>1 DEF Turns
<1>5. ASSUME NEW s \in T, NEW i \in 1 .. n
      PROVE  /\ s \o Append(texts[i], Comma) \in T
             /\ s \o Append(texts[i], Comma) = Append(s \o texts[i], Comma)
             /\ Positions(Append(s \o texts[i], Comma), {Comma}) # {}
  <2>1. PICK b : b = texts[i]  OBVIOUS
  <2>2. b \in T  BY <1>3, <2>1
  <2>3. s \o Append(b, Comma) = Append(s \o b, Comma) /\ s \o b \in T  BY <2>2
  <2>4. PICK text : text = s \o b  OBVIOUS
  <2>5. /\ Append(text, Comma)[Len(text) + 1] = Comma
        /\ Len(text) + 1 \in DOMAIN Append(text, Comma) /\ Append(text, Comma) \in T
    BY <2>3, <2>4
  <2> HIDE DEF T
  <2> QED BY <2>1, <2>3, <2>4, <2>5 DEF Positions
<1>6. <<>> \in T  OBVIOUS
<1> HIDE DEF T
<1>7. PICK f : Loop(f, n, T, <<>>, turn)
  <2> HIDE DEF turn
  <2> QED BY <1>1, <1>4, <1>6, LoopExists
<1>8. f = [i \in 0 .. n |-> SeparatedTurn(texts, f, i)]
  <2>1. f \in [0 .. n -> T] /\ f[0] = <<>>  BY <1>7 DEF Loop
  <2>2. ASSUME NEW i \in 0 .. n PROVE f[i] = SeparatedTurn(texts, f, i)
    <3>1. CASE i = 0  BY <2>1, <3>1 DEF SeparatedTurn
    <3>2. CASE i # 0
      <4>1. i \in 1 .. n /\ i - 1 \in 0 .. n  BY <1>1, <3>2
      <4>2. f[i] = turn[<<i, f[i - 1]>>]  BY <1>7, <4>1 DEF Loop
      <4>3. <<i, f[i - 1]>> \in (1 .. n) \X T  BY <2>1, <4>1
      <4>4. turn[<<i, f[i - 1]>>] = f[i - 1] \o Append(texts[i], Comma)  BY <4>3
      <4> QED BY <3>2, <4>2, <4>4, Zenon DEF SeparatedTurn
    <3> QED BY <3>1, <3>2
  <2> HIDE DEF turn
  <2> QED BY <2>1, <2>2
<1>9. sep = [i \in 0 .. n |-> SeparatedTurn(texts, sep, i)]
  BY <1>8
<1> HIDE DEF sep
<1>10. \A i \in 0 .. n : sep[i] = SeparatedTurn(texts, sep, i)  BY <1>9, Zenon
<1>11. /\ sep[0] = <<>>
       /\ \A i \in 1 .. n : i - 1 \in 0 .. n /\ sep[i] = sep[i - 1] \o Append(texts[i], Comma)
  <2>1. 0 \in 0 .. n  BY <1>1
  <2>2. sep[0] = SeparatedTurn(texts, sep, 0)  BY <1>10, <2>1
  <2>3. ASSUME NEW i \in 1 .. n PROVE i - 1 \in 0 .. n /\ i \in 0 .. n /\ i # 0
    BY <1>1
  <2> QED BY <1>10, <2>2, <2>3, Zenon DEF SeparatedTurn
<1> DEFINE W == {i \in 0 .. n : sep[i] \in T}
<1>12. 0 .. n \subseteq W
  <2>1. 0 \in W  BY <1>1, <1>6, <1>11
  <2>2. ASSUME NEW i \in 1 .. n, i - 1 \in W PROVE i \in W
    <3>1. sep[i - 1] \in T  BY <2>2
    <3>2. sep[i] \in T  BY <1>5, <1>11, <3>1, Zenon
    <3> QED BY <3>2
  <2> HIDE DEF W
  <2> QED BY <1>1, <2>1, <2>2, EveryTurn
<1>13. ASSUME NEW i \in 1 .. n
       PROVE  /\ sep[i - 1] \in T /\ sep[i] = Append(sep[i - 1] \o texts[i], Comma)
              /\ Positions(sep[i], {Comma}) # {}
  <2>1. sep[i - 1] \in T
    <3>1. i - 1 \in W  BY <1>1, <1>12
    <3> QED BY <3>1
  <2> QED BY <1>5, <1>11, <2>1
<1>14. n \in 1 .. n /\ (n > 1 => n - 1 \in 1 .. n)  BY <1>1
<1> DEFINE front == sep[n - 1]
<1>15. /\ sep[n] = Append(front \o texts[n], Comma) /\ front \in T
       /\ n > 1 => Positions(front, {Comma}) # {}
  BY <1>13, <1>14, Zenon
<1>16. n = 1 => front = <<>>
  <2>1. n = 1 => n - 1 = 0  BY <1>1
  <2> QED BY <1>11, <2>1
<1> HIDE DEF front
<1> QED BY <1>2, <1>15, <1>16 DEF n, T

\* What str_trim_end and the cut of the last character leave of a text that ends in one
\* of another kind.
LEMMA LastTrimmed ==
    ASSUME NEW S, NEW c, c \notin S, NEW front \in Seq(S \cup {c}), NEW last \in Seq(S), last # <<>>
    PROVE  LET list == front \o last
           IN  /\ list \in Seq(S \cup {c}) /\ list # <<>>
               /\ Front(Append(list, c)) = list
               /\ TrimEnd(Append(list, c), c) = list
               /\ Positions(front, {c}) \subseteq Positions(list, {c})
<1> DEFINE list == front \o last
<1>1. PICK k : k = Len(last)  OBVIOUS
<1>2. last \in Seq(S \cup {c})  OBVIOUS
<1>3. k \in Nat /\ k > 0 /\ last[k] \in S  BY <1>1
<1>4. list \in Seq(S \cup {c}) /\ Len(list) = Len(front) + k /\ Len(front) \in Nat
  BY <1>1, <1>2
<1>5. list[Len(front) + k] = last[k]
  BY <1>1, <1>2, <1>3
<1>6. \A i \in 1 .. Len(front) : list[i] = front[i]
  BY <1>1, <1>2
<1>7. DOMAIN front = 1 .. Len(front) /\ DOMAIN list = 1 .. Len(list)
  BY <1>4, LenProperties
<1> HIDE DEF list
<1>8. Front(Append(list, c)) = list  BY <1>4 DEF Front
<1>9. TrimEnd(Append(list, c), c) = list
  <2> DEFINE text == Append(list, c)
             kept == {0} \cup {i \in DOMAIN text : text[i] # c}
             m == Len(list)
  <2>1. m \in Nat /\ m > 0 /\ list[m] \in S  BY <1>3, <1>4, <1>5
  <2>2. /\ text \in Seq(S \cup {c}) /\ Len(text) = m + 1 /\ text[m + 1] = c
        /\ text[m] = list[m] /\ SubSeq(text, 1, m) = list
    BY <1>4, <2>1
  <2>3. DOMAIN text = 1 .. m + 1  BY <2>2, LenProperties
  <2> HIDE DEF text, m
  <2>4. kept \in SUBSET Nat /\ m \in kept  BY <2>1, <2>2, <2>3
  <2>5. ASSUME NEW i \in kept PROVE i <= m  BY <2>1, <2>2, <2>3
  <2> HIDE DEF kept
  <2>6. \A x : (x \in kept /\ \A y \in kept : x >= y) => x = m  BY <2>1, <2>4, <2>5
  <2>7. m \in kept /\ \A y \in kept : m >= y  BY <2>1, <2>4, <2>5
  <2>8. Max(kept) = m  BY <2>6, <2>7 DEF Max
  <2>9. TrimEnd(text, c) = SubSeq(text, 1, Max(kept))  BY DEF TrimEnd, kept
  <2> QED BY <2>2, <2>8, <2>9 DEF text
<1>10. list # <<>>  BY <1>3, <1>4
<1>11. Positions(front, {c}) \subseteq Positions(list, {c})
  BY <1>3, <1>4, <1>6, <1>7 DEF Positions
<1> QED BY <1>4, <1>8, <1>9, <1>10, <1>11 DEF list

\* A list of texts that are not empty, without the comma behind the last one.
LEMMA FrontOfSeparated ==
    ASSUME NEW S, Comma \notin S, NEW texts \in Seq(Seq(S)), texts # <<>>,
           \A i \in DOMAIN texts : texts[i] # <<>>
    PROVE  LET list == Front(Separated(texts))
           IN  /\ list \in Seq(S \cup {Comma}) /\ list # <<>>
               /\ Separated(texts) = Append(list, Comma)
               /\ TrimEnd(Separated(texts), Comma) = list
               /\ Positions(list, {Comma}) = {} => Len(texts) = 1 /\ list = texts[1]
<1> DEFINE n == Len(texts)
           last == texts[n]
<1>1. n \in Nat /\ n > 0 /\ last \in Seq(S) /\ last # <<>>  OBVIOUS
<1>2. PICK front \in Seq(S \cup {Comma}) :
          /\ Separated(texts) = Append(front \o last, Comma)
          /\ n = 1 => front = <<>>
          /\ n > 1 => Positions(front, {Comma}) # {}
  BY SeparatedEnds
<1> DEFINE list == front \o last
<1> HIDE DEF n, last
<1>3. /\ list \in Seq(S \cup {Comma}) /\ list # <<>>
      /\ Front(Append(list, Comma)) = list
      /\ TrimEnd(Append(list, Comma), Comma) = list
      /\ Positions(front, {Comma}) \subseteq Positions(list, {Comma})
  BY <1>1, LastTrimmed
<1>4. front = <<>> => list = last  BY <1>1
<1> HIDE DEF list
<1>5. Separated(texts) = Append(list, Comma)  BY <1>2 DEF list
<1>6. ASSUME Positions(list, {Comma}) = {} PROVE n = 1 /\ list = texts[1]
  <2>1. Positions(front, {Comma}) = {}  BY <1>3, <1>6
  <2>2. ~(n > 1)  BY <1>2, <2>1
  <2>3. n = 1  BY <1>1, <2>2
  <2> QED BY <1>2, <1>4, <2>3 DEF last
<1> QED BY <1>3, <1>5, <1>6 DEF n

\* A turn of the loop of NonEmpty.
NonEmptyTurn(texts, kept, i) ==
    CASE i = 0 -> <<>>
      [] i > 0 /\ texts[i] = <<>> -> kept[i - 1]
      [] OTHER -> Append(kept[i - 1], texts[i])

\* NonEmpty leaves texts that are not empty, and all of them.
LEMMA NonEmptyTexts ==
    ASSUME NEW D, NEW texts \in Seq(D)
    PROVE  /\ NonEmpty(texts) \in Seq(D) /\ \A i \in DOMAIN NonEmpty(texts) : NonEmpty(texts)[i] # <<>>
           /\ (\A i \in DOMAIN texts : texts[i] # <<>>) => NonEmpty(texts) = texts
<1> DEFINE n == Len(texts)
           N == D \ {<<>>}
           T == Seq(N)
           turn == [p \in (1 .. n) \X T |-> IF texts[p[1]] = <<>> THEN p[2] ELSE Append(p[2], texts[p[1]])]
           kept == CHOOSE g : g = [i \in 0 .. n |-> NonEmptyTurn(texts, g, i)]
<1>1. n \in Nat /\ DOMAIN texts = 1 .. n /\ \A i \in 1 .. n : texts[i] \in D
  OBVIOUS
<1>2. NonEmpty(texts) = kept[n]
  BY Zenon DEF NonEmpty, NonEmptyTurn
<1>3. /\ SubSeq(texts, 1, 0) = <<>> /\ SubSeq(texts, 1, n) = texts
      /\ \A i \in 1 .. n : Append(SubSeq(texts, 1, i - 1), texts[i]) = SubSeq(texts, 1, i)
  BY PrefixUpTo
<1> HIDE DEF n, N
<1>4. turn \in Turns(n, T)
  <2>1. ASSUME NEW p \in (1 .. n) \X T
        PROVE  (IF texts[p[1]] = <<>> THEN p[2] ELSE Append(p[2], texts[p[1]])) \in T
    <3>1. p[1] \in 1 .. n /\ p[2] \in T  OBVIOUS
    <3>2. CASE texts[p[1]] = <<>>  BY <3>1, <3>2
    <3>3. CASE texts[p[1]] # <<>>
      <4>1. texts[p[1]] \in N  BY <1>1, <3>1, <3>3 DEF N
      <4>2. Append(p[2], texts[p[1]]) \in T  BY <3>1, <4>1
      <4> QED BY <3>3, <4>2
    <3> QED BY <3>2, <3>3
  <2> QED BY <2>1 DEF Turns
<1>5. <<>> \in T  OBVIOUS
<1> HIDE DEF T
<1>6. PICK f : Loop(f, n, T, <<>>, turn)
  <2> HIDE DEF turn
  <2> QED BY <1>1, <1>4, <1>5, LoopExists
<1>7. ASSUME NEW g PROVE NonEmptyTurn(texts, g, 0) = <<>>
  <2>1. ~(0 > 0)  OBVIOUS
  <2> QED BY <2>1, Zenon DEF NonEmptyTurn
<1>8. ASSUME NEW g, NEW i \in 1 .. n
      PROVE  NonEmptyTurn(texts, g, i) = IF texts[i] = <<>> THEN g[i - 1] ELSE Append(g[i - 1], texts[i])
  <2>1. i # 0 /\ i > 0  BY <1>1
  <2> QED BY <2>1, Zenon DEF NonEmptyTurn
<1>9. f = [i \in 0 .. n |-> NonEmptyTurn(texts, f, i)]
  <2>1. f \in [0 .. n -> T] /\ f[0] = <<>>  BY <1>6 DEF Loop
  <2>2. ASSUME NEW i \in 0 .. n PROVE f[i] = NonEmptyTurn(texts, f, i)
    <3>1. CASE i = 0  BY <1>7, <2>1, <3>1
    <3>2. CASE i # 0
      <4>1. i \in 1 .. n /\ i - 1 \in 0 .. n  BY <1>1, <3>2
      <4>2. f[i] = turn[<<i, f[i - 1]>>]  BY <1>6, <4>1 DEF Loop
      <4>3. <<i, f[i - 1]>> \in (1 .. n) \X T  BY <2>1, <4>1
      <4>4. turn[<<i, f[i - 1]>>] = IF texts[i] = <<>> THEN f[i - 1] ELSE Append(f[i - 1], texts[i])
        BY <4>3
      <4> HIDE DEF turn
      <4> QED BY <1>8, <4>1, <4>2, <4>4
    <3> QED BY <3>1, <3>2
  <2> HIDE DEF turn
  <2> QED BY <2>1, <2>2
<1>10. kept = [i \in 0 .. n |-> NonEmptyTurn(texts, kept, i)]
  BY <1>9
<1> HIDE DEF kept
<1>11. \A i \in 0 .. n : kept[i] = NonEmptyTurn(texts, kept, i)  BY <1>10, Zenon
<1>12. kept[0] = <<>>
  <2>1. 0 \in 0 .. n  BY <1>1
  <2> QED BY <1>7, <1>11, <2>1
<1>13. ASSUME NEW i \in 1 .. n
       PROVE  kept[i] = IF texts[i] = <<>> THEN kept[i - 1] ELSE Append(kept[i - 1], texts[i])
  <2>1. i \in 0 .. n  BY <1>1
  <2> QED BY <1>8, <1>11, <2>1
<1>14. kept[n] \in T
  <2> DEFINE W == {i \in 0 .. n : kept[i] \in T}
  <2>1. 0 \in W  BY <1>1, <1>5, <1>12
  <2>2. ASSUME NEW i \in 1 .. n, i - 1 \in W PROVE i \in W
    <3>1. kept[i - 1] \in T /\ i \in 0 .. n  BY <1>1, <2>2
    <3>2. CASE texts[i] = <<>>  BY <1>13, <3>1, <3>2
    <3>3. CASE texts[i] # <<>>
      <4>1. texts[i] \in N  BY <1>1, <3>3 DEF N
      <4>2. Append(kept[i - 1], texts[i]) \in T  BY <3>1, <4>1 DEF T
      <4> QED BY <1>13, <3>1, <3>3, <4>2
    <3> QED BY <3>2, <3>3
  <2> HIDE DEF W
  <2>3. 0 .. n \subseteq W  BY <1>1, <2>1, <2>2, EveryTurn
  <2>4. n \in W  BY <1>1, <2>3
  <2> QED BY <2>4 DEF W
<1>15. ASSUME \A i \in 1 .. n : texts[i] # <<>> PROVE kept[n] = texts
  <2> DEFINE W == {i \in 0 .. n : kept[i] = SubSeq(texts, 1, i)}
  <2>1. 0 \in W
    <3>1. 0 \in 0 .. n  BY <1>1
    <3>2. kept[0] = SubSeq(texts, 1, 0)  BY <1>3, <1>12, Zenon
    <3> QED BY <3>1, <3>2
  <2>2. ASSUME NEW i \in 1 .. n, i - 1 \in W PROVE i \in W
    <3>1. kept[i - 1] = SubSeq(texts, 1, i - 1) /\ i \in 0 .. n  BY <1>1, <2>2
    <3> QED BY <1>3, <1>13, <1>15, <3>1
  <2> HIDE DEF W
  <2>3. 0 .. n \subseteq W  BY <1>1, <2>1, <2>2, EveryTurn
  <2>4. n \in W  BY <1>1, <2>3
  <2> QED BY <1>3, <2>4 DEF W
<1>16. kept[n] \in Seq(D) /\ \A i \in DOMAIN kept[n] : kept[n][i] # <<>>
  <2>1. PICK x : x = kept[n]  OBVIOUS
  <2>2. x \in Seq(N)  BY <1>14, <2>1 DEF T
  <2>3. \A i \in DOMAIN x : x[i] \in N  BY <2>2
  <2>4. x \in Seq(D)  BY <2>2 DEF N
  <2>5. \A i \in DOMAIN x : x[i] # <<>>  BY <2>3 DEF N
  <2> QED BY <2>1, <2>4, <2>5
<1> QED BY <1>1, <1>2, <1>15, <1>16

\* The lists of the getters that write one, of texts that are not empty.
LEMMA ListsOfGetters ==
    ASSUME NEW S, Comma \notin S, NEW hosts \in Seq(Seq(S)), \A i \in DOMAIN hosts : hosts[i] # <<>>,
           hosts # <<>>
    PROVE  /\ Gnome3Ignored(hosts) = Front(Separated(hosts))
           /\ TrimEnd(Separated(hosts), ",") = Front(Separated(hosts))
           /\ Front(Separated(hosts)) # <<>>
<1> DEFINE list == Front(Separated(hosts))
           text == Separated(hosts)
           empty == {i \in DOMAIN hosts : hosts[i] = <<>>}
           n == IF empty = {} THEN Len(hosts) ELSE Min(empty) - 1
           max == Len(Separated(SubSeq(hosts, 1, n))) + n
<1>1. /\ list \in Seq(S \cup {Comma}) /\ list # <<>>
      /\ text = Append(list, Comma)
      /\ TrimEnd(text, Comma) = list
  BY FrontOfSeparated
<1>2. SubSeq(hosts, 1, n) = hosts /\ n \in Nat /\ n > 0
  <2>1. n = Len(hosts)  OBVIOUS
  <2> QED BY <2>1
<1>3. Gnome3Ignored(hosts) = IF max = 0 THEN NoList
                             ELSE TrimEnd(SubSeq(text, 1, Min({max - 1, Len(text)})), ",")
  BY Zenon DEF Gnome3Ignored
<1> HIDE DEF list, n
<1>4. max = Len(text) + n  BY <1>2
<1> HIDE DEF text
<1>5. Len(text) \in Nat /\ text \in Seq(S \cup {Comma})  BY <1>1
<1>6. max # 0 /\ Min({max - 1, Len(text)}) = Len(text)
  <2> HIDE DEF max
  <2>1. PICK m : m = Len(text)  OBVIOUS
  <2>2. max \in Nat /\ max > 0 /\ m <= max - 1 /\ m \in Nat  BY <1>2, <1>4, <1>5, <2>1
  <2>3. \A x : (x \in {max - 1, m} /\ \A y \in {max - 1, m} : x <= y) => x = m  BY <2>2
  <2>4. m \in {max - 1, m} /\ \A y \in {max - 1, m} : m <= y  BY <2>2
  <2>5. Min({max - 1, m}) = m  BY <2>3, <2>4 DEF Min
  <2> QED BY <2>1, <2>2, <2>5
<1>7. SubSeq(text, 1, Len(text)) = text  BY <1>5
<1>8. Gnome3Ignored(hosts) = TrimEnd(text, ",")  BY <1>3, <1>6, <1>7, Zenon
<1> QED BY <1>1, <1>8, Zenon DEF text, list, Comma

\* RulesOf without an override.
LEMMA RulesOfSays ==
    ASSUME NEW s, session.override.list = NoList,
           NEW local, local = (IF interface = "mac" /\ s.simple THEN << <<"<local>">> >> ELSE <<>>),
           NEW rules, rules = local \o NonEmpty(s.ignore)
    PROVE  RulesOf(s) = IF rules = <<>> \/ (interface \in Gnome \cup {"win"} /\ "manual" \notin s.ways)
                        THEN NoList ELSE Front(Separated(rules))
<1> DEFINE off == rules = <<>> \/ (interface \in Gnome \cup {"win"} /\ "manual" \notin s.ways)
<1>1. CASE off  BY <1>1, Zenon DEF RulesOf
<1>2. CASE ~off  BY <1>2, Zenon DEF RulesOf
<1> QED BY <1>1, <1>2

\* What the loops make of an empty list.
LEMMA NothingListed ==
    /\ Separated(<<>>) = <<>> /\ \A c : TrimEnd(<<>>, c) = <<>>
    /\ Gnome3Ignored(<<>>) = NoList
<1> DEFINE sep == CHOOSE g : g = [i \in 0 .. 0 |-> SeparatedTurn(<<>>, g, i)]
           f == [i \in 0 .. 0 |-> <<>>]
<1>1. Len(<<>>) = 0 /\ SubSeq(<<>>, 1, 0) = <<>> /\ 0 \in 0 .. 0 /\ DOMAIN <<>> = {}
  OBVIOUS
<1>2. Separated(<<>>) = sep[0]
  <2>1. Separated(<<>>) =
            (CHOOSE g : g = [i \in 0 .. Len(<<>>) |-> SeparatedTurn(<<>>, g, i)])[Len(<<>>)]
    BY Zenon DEF Separated, SeparatedTurn, Comma
  <2> QED BY <1>1, <2>1, Zenon
<1>3. f = [i \in 0 .. 0 |-> SeparatedTurn(<<>>, f, i)]
  <2>1. ASSUME NEW i \in 0 .. 0 PROVE SeparatedTurn(<<>>, f, i) = <<>>
    <3>1. i = 0  OBVIOUS
    <3> QED BY <3>1, Zenon DEF SeparatedTurn
  <2> QED BY <2>1
<1>4. sep = [i \in 0 .. 0 |-> SeparatedTurn(<<>>, sep, i)]
  <2> HIDE DEF f
  <2> QED BY <1>3
<1> HIDE DEF sep
<1>5. sep[0] = SeparatedTurn(<<>>, sep, 0)  BY <1>1, <1>4, Zenon
<1>6. Separated(<<>>) = <<>>  BY <1>2, <1>5, Zenon DEF SeparatedTurn
<1>7. ASSUME NEW c PROVE TrimEnd(<<>>, c) = <<>>
  <2> DEFINE kept == {0} \cup {i \in DOMAIN <<>> : <<>>[i] # c}
  <2>1. kept = {0}  BY <1>1
  <2>2. Max({0}) = 0
    <3>1. \A x : (x \in {0} /\ \A y \in {0} : x >= y) => x = 0  OBVIOUS
    <3>2. 0 \in {0} /\ \A y \in {0} : 0 >= y  OBVIOUS
    <3> QED BY <3>1, <3>2 DEF Max
  <2>3. TrimEnd(<<>>, c) = SubSeq(<<>>, 1, Max(kept))  BY Zenon DEF TrimEnd
  <2> QED BY <1>1, <2>1, <2>2, <2>3, Zenon
<1>8. Gnome3Ignored(<<>>) = NoList
  <2> DEFINE empty == {i \in DOMAIN <<>> : <<>>[i] = <<>>}
             n == IF empty = {} THEN Len(<<>>) ELSE Min(empty) - 1
             max == Len(Separated(SubSeq(<<>>, 1, n))) + n
  <2>1. empty = {}  BY <1>1
  <2>2. n = 0  BY <1>1, <2>1, Zenon
  <2> HIDE DEF n
  <2>3. Len(Separated(SubSeq(<<>>, 1, n))) = 0  BY <1>1, <1>6, <2>2, Zenon
  <2>4. max = 0  BY <2>2, <2>3
  <2> HIDE DEF max
  <2>5. Gnome3Ignored(<<>>) = IF max = 0 THEN NoList
            ELSE TrimEnd(SubSeq(Separated(<<>>), 1, Min({max - 1, Len(Separated(<<>>))})), ",")
    BY Zenon DEF Gnome3Ignored, max, n
  <2> QED BY <2>4, <2>5, Zenon
<1> QED BY <1>6, <1>7, <1>8

\* The getters of the interfaces write the list that the settings mean.
LEMMA RulesRead ==
    ASSUME NEW S, Comma \notin S, "<local>" \in S, NEW s, s.ignore \in Seq(Seq(S)),
           interface = "gnome2" \/ \A i \in DOMAIN s.ignore : s.ignore[i] # <<>>,
           session.override.list = NoList
    PROVE  /\ interface \in Gnome /\ "manual" \notin s.ways => RulesOf(s) = NoList
           /\ interface = "gnome2" /\ "manual" \in s.ways => RulesOf(s) = Gnome2Ignored(s.ignore)
           /\ interface = "gnome3" /\ "manual" \in s.ways => RulesOf(s) = Gnome3Ignored(s.ignore)
           /\ interface = "win" => RulesOf(s) = WinIgnored(s)
           /\ interface = "mac" => RulesOf(s) = MacIgnored(s)
           /\ interface = "env" => RulesOf(s) = EnvIgnored(s)
<1> DEFINE local == IF interface = "mac" /\ s.simple THEN << <<"<local>">> >> ELSE <<>>
           kept == NonEmpty(s.ignore)
           rules == local \o kept
<1>1. /\ kept \in Seq(Seq(S)) /\ \A i \in DOMAIN kept : kept[i] # <<>>
      /\ interface # "gnome2" => kept = s.ignore
  BY NonEmptyTexts
<1>2. RulesOf(s) = IF rules = <<>> \/ (interface \in Gnome \cup {"win"} /\ "manual" \notin s.ways)
                   THEN NoList ELSE Front(Separated(rules))
  <2>1. ASSUME NEW l, l = local, NEW r, r = l \o NonEmpty(s.ignore)
        PROVE  RulesOf(s) = IF r = <<>> \/ (interface \in Gnome \cup {"win"} /\ "manual" \notin s.ways)
                            THEN NoList ELSE Front(Separated(r))
    BY <2>1, RulesOfSays, Zenon
  <2>2. PICK l : l = local  OBVIOUS
  <2>3. PICK r : r = rules  OBVIOUS
  <2>4. r = l \o NonEmpty(s.ignore)  BY <2>2, <2>3
  <2>5. RulesOf(s) = IF r = <<>> \/ (interface \in Gnome \cup {"win"} /\ "manual" \notin s.ways)
                     THEN NoList ELSE Front(Separated(r))
    BY <2>1, <2>2, <2>4
  <2> QED BY <2>3, <2>5
<1>3. interface # "mac" => rules = kept  BY <1>1
<1>4. kept # <<>> => /\ Gnome3Ignored(kept) = Front(Separated(kept))
                     /\ TrimEnd(Separated(kept), ",") = Front(Separated(kept))
  BY <1>1, ListsOfGetters, Zenon
<1>5. CASE interface = "gnome2"
  <2>1. Gnome2Ignored(s.ignore) = IF kept = <<>> THEN NoList ELSE TrimEnd(Separated(kept), ",")
    BY Zenon DEF Gnome2Ignored
  <2> HIDE DEF rules, kept, local
  <2>2. interface \in Gnome  BY <1>5 DEF Gnome
  <2>3. interface # "mac" /\ interface # "win" /\ interface # "env" /\ interface # "gnome3"  BY <1>5
  <2>4. "manual" \notin s.ways => RulesOf(s) = NoList  BY <1>2, <2>2, Zenon
  <2>5. CASE kept = <<>>  BY <1>2, <1>3, <2>1, <2>3, <2>4, <2>5, Zenon
  <2>6. CASE kept # <<>>  BY <1>2, <1>3, <1>4, <2>1, <2>3, <2>4, <2>6, Zenon
  <2> QED BY <2>5, <2>6
<1>6. CASE interface = "gnome3"
  <2> HIDE DEF rules, local
  <2>1. interface # "mac" /\ interface # "win" /\ interface # "env" /\ interface # "gnome2"  BY <1>6
  <2>2. interface \in Gnome  BY <1>6 DEF Gnome
  <2>3. "manual" \notin s.ways => RulesOf(s) = NoList  BY <1>2, <2>2, Zenon
  <2>4. CASE kept = <<>>
    BY <1>1, <1>2, <1>3, <2>1, <2>3, <2>4, NothingListed, Zenon
  <2>5. CASE kept # <<>>
    <3>1. Gnome \cup {"win"} = Gnome \cup {"win"}  OBVIOUS
    <3>2. "manual" \in s.ways => RulesOf(s) = Front(Separated(kept))
      BY <1>2, <1>3, <2>1, <2>5, Zenon
    <3> QED BY <1>1, <1>4, <2>1, <2>3, <2>5, <3>2, Zenon
  <2> QED BY <2>4, <2>5
<1>7. CASE interface = "win"
  <2>1. WinIgnored(s) = IF "manual" \in s.ways /\ s.ignore # <<>>
                        THEN Front(Separated(s.ignore)) ELSE NoList
    BY Zenon DEF WinIgnored
  <2>2. interface \notin Gnome /\ interface # "mac" /\ interface # "env"  BY <1>7 DEF Gnome
  <2> HIDE DEF rules, local
  <2>3. RulesOf(s) = IF kept = <<>> \/ "manual" \notin s.ways THEN NoList ELSE Front(Separated(kept))
    BY <1>2, <1>3, <1>7, <2>2
  <2>4. CASE kept = <<>> \/ "manual" \notin s.ways  BY <1>1, <1>7, <2>1, <2>2, <2>3, <2>4, Zenon
  <2>5. CASE kept # <<>> /\ "manual" \in s.ways  BY <1>1, <1>7, <2>1, <2>2, <2>3, <2>5, Zenon
  <2> QED BY <2>4, <2>5
<1>8. CASE interface = "mac"
  <2>1. interface \notin Gnome \cup {"win", "env"}  BY <1>8 DEF Gnome
  <2>2. MacIgnored(s) = IF TrimEnd(Separated(rules), ",") = <<>> THEN NoList
                        ELSE TrimEnd(Separated(rules), ",")
    <3>1. kept = s.ignore  BY <1>1, <1>8
    <3>2. rules = (IF s.simple THEN << <<"<local>">> >> ELSE <<>>) \o s.ignore  BY <1>8, <3>1
    <3> HIDE DEF rules
    <3> QED BY <3>2, Zenon DEF MacIgnored
  <2>3. rules \in Seq(Seq(S)) /\ \A i \in DOMAIN rules : rules[i] # <<>>
    <3>1. local \in Seq(Seq(S)) /\ \A i \in DOMAIN local : local[i] # <<>>
      <4>1. PICK name : name = <<"<local>">>  OBVIOUS
      <4>2. name \in Seq(S) /\ Len(name) = 1  BY <4>1
      <4>3. <<name>> \in Seq(Seq(S)) /\ \A i \in DOMAIN <<name>> : <<name>>[i] # <<>>
        <5>1. PICK D : D = Seq(S)  OBVIOUS
        <5>2. name \in D  BY <4>2, <5>1, Zenon
        <5>3. Len(<<>>) # 1  OBVIOUS
        <5>4. name # <<>>  BY <4>2, <5>3, Zenon
        <5>5. <<name>> \in Seq(D) /\ \A i \in DOMAIN <<name>> : <<name>>[i] # <<>>
          BY <5>2, <5>4
        <5> QED BY <5>1, <5>5
      <4>4. <<>> \in Seq(Seq(S)) /\ \A i \in DOMAIN <<>> : <<>>[i] # <<>>  OBVIOUS
      <4>5. local = <<name>> \/ local = <<>>  BY <4>1
      <4> HIDE DEF local
      <4> QED BY <4>3, <4>4, <4>5
    <3> HIDE DEF local, kept
    <3>2. local \o kept \in Seq(Seq(S))  BY <1>1, <3>1
    <3>3. \A i \in DOMAIN (local \o kept) : (local \o kept)[i] # <<>>  BY <1>1, <3>1
    <3> QED BY <3>2, <3>3
  <2>4. RulesOf(s) = IF rules = <<>> THEN NoList ELSE Front(Separated(rules))
    <3> HIDE DEF rules
    <3> QED BY <1>2, <2>1, Zenon
  <2> HIDE DEF rules
  <2>5. CASE rules = <<>>  BY <2>1, <2>2, <2>4, <2>5, <1>8, NothingListed, Zenon
  <2>6. CASE rules # <<>>
    <3>1. /\ TrimEnd(Separated(rules), ",") = Front(Separated(rules))
          /\ Front(Separated(rules)) # <<>>
      BY <2>3, <2>6, ListsOfGetters, Zenon
    <3> QED BY <1>8, <2>1, <2>2, <2>4, <2>6, <3>1, Zenon
  <2> QED BY <2>5, <2>6
<1>9. CASE interface = "env"
  <2>1. EnvIgnored(s) = IF s.ignore = <<>> THEN NoList ELSE TrimEnd(Separated(s.ignore), ",")
    BY Zenon DEF EnvIgnored
  <2>2. interface \notin Gnome \cup {"win"} /\ interface # "mac"  BY <1>9 DEF Gnome
  <2> HIDE DEF rules, local
  <2>3. RulesOf(s) = IF kept = <<>> THEN NoList ELSE Front(Separated(kept))
    BY <1>2, <1>3, <1>9, <2>2, Zenon
  <2>4. CASE kept = <<>>  BY <1>1, <1>9, <2>1, <2>2, <2>3, <2>4, Zenon
  <2>5. CASE kept # <<>>  BY <1>1, <1>4, <1>9, <2>1, <2>2, <2>3, <2>5, Zenon
  <2> QED BY <2>4, <2>5
<1>10. CASE interface \notin {"gnome2", "gnome3", "win", "mac", "env"}
  <2>1. interface \notin Gnome  BY <1>10 DEF Gnome
  <2> QED BY <1>10, <2>1
<1> QED BY <1>5, <1>6, <1>7, <1>8, <1>9, <1>10

-----------------------------------------------------------------------------
(* What the getters return is what the settings mean.                      *)

\* Line i belongs to section h only.
LEMMA LastHeader ==
    ASSUME NEW f, NEW h \in Nat \ {0}, NEW i \in Nat \ {0}, InSection(f, h, i)
    PROVE  LET headers == {k \in 1 .. i - 1 : f[k].section # <<>>}
           IN  headers # {} /\ Max(headers) = h
<1> DEFINE headers == {k \in 1 .. i - 1 : f[k].section # <<>>}
<1>1. h \in 1 .. i - 1 /\ f[h].section # <<>> /\ \A k \in h + 1 .. i : f[k].section = <<>>
  BY DEF InSection
<1>2. h \in headers /\ headers \subseteq Nat  BY <1>1
<1>3. ASSUME NEW k \in headers PROVE k <= h
  <2>1. k \in 1 .. i - 1 /\ f[k].section # <<>>  OBVIOUS
  <2>2. k \notin h + 1 .. i  BY <1>1, <2>1
  <2> QED BY <1>1, <2>1, <2>2
<1> HIDE DEF headers
<1>4. \A x : (x \in headers /\ \A y \in headers : x >= y) => x = h  BY <1>2, <1>3
<1>5. h \in headers /\ \A y \in headers : h >= y  BY <1>2, <1>3
<1>6. Max(headers) = h  BY <1>4, <1>5 DEF Max
<1> QED BY <1>2, <1>6 DEF headers

\* get_config_value finds the line of the section of the proxy.
LEMMA KdeLineFound ==
    ASSUME NEW f, Len(f) \in Nat, DOMAIN f = 1 .. Len(f), NEW S, NEW key \in Seq(S), NEW value,
           KdeLine(f, key, value)
    PROVE  Kde(f, key) = value
<1> DEFINE name == <<"Proxy", "Settings">>
           hit(k) == f[k].key # NoValue /\ IsPrefix(f[k].key, key) /\ f[k].value # NoValue
           headers(k) == {j \in 1 .. k - 1 : f[j].section # <<>>}
           within(k) == headers(k) = {} \/ IsPrefix(f[Max(headers(k))].section, name)
           hits == {k \in DOMAIN f : hit(k) /\ within(k)}
<1>1. PICK h \in DOMAIN f, i \in DOMAIN f :
          /\ InSection(f, h, i) /\ f[h].section = name
          /\ f[i] = Entry(key, value) /\ key # NoValue
          /\ \A k \in DOMAIN f \ {i} :
                hit(k) => \E g \in DOMAIN f : InSection(f, g, k) /\ ~IsPrefix(f[g].section, name)
  BY Zenon DEF KdeLine
<1>2. DOMAIN f \subseteq Nat \ {0}  OBVIOUS
<1>3. f[i].key = key /\ f[i].value = value  BY <1>1 DEF Entry
<1>4. IsPrefix(key, key) /\ IsPrefix(name, name)  BY DEF IsPrefix
<1> HIDE DEF name
<1>5. within(i)
  <2>1. Max(headers(i)) = h  BY <1>1, <1>2, LastHeader
  <2> QED BY <1>1, <1>4, <2>1
<1>6. hit(i) <=> value # NoValue  BY <1>1, <1>3, <1>4
<1>7. ASSUME NEW k \in DOMAIN f \ {i}, hit(k) PROVE ~within(k)
  <2>1. PICK g \in DOMAIN f : InSection(f, g, k) /\ ~IsPrefix(f[g].section, name)
    BY <1>1, <1>7
  <2>2. headers(k) # {} /\ Max(headers(k)) = g  BY <1>2, <2>1, LastHeader
  <2> QED BY <2>1, <2>2
<1>8. hits = IF value = NoValue THEN {} ELSE {i}
  <2> HIDE DEF within, hit
  <2> QED BY <1>5, <1>6, <1>7
<1>9. Kde(f, key) = IF hits = {} THEN NoValue ELSE f[Min(hits)].value
  BY Zenon DEF Kde, ConfigValue, name
<1> HIDE DEF hits
<1>10. Min({i}) = i
  <2>1. i \in Nat  BY <1>2
  <2>2. \A x : (x \in {i} /\ \A y \in {i} : x <= y) => x = i  OBVIOUS
  <2>3. i \in {i} /\ \A y \in {i} : i <= y  BY <2>1
  <2> QED BY <2>2, <2>3 DEF Min
<1> QED BY <1>3, <1>8, <1>9, <1>10

\* The system of a session, and the interface that it leads to.
Place ==
    /\ session \in Sessions /\ file = KdeFile(session.settings)
    /\ \/ session.system = "linux" /\ interface = Interface(session.env, file)
       \/ session.system = "windows" /\ interface = "win"
       \/ session.system = "mac" /\ interface = "mac"

\* Linux has four interfaces.
LEMMA InterfaceOfLinux ==
    ASSUME NEW e, NEW f
    PROVE  Interface(e, f) \in {"gnome3", "gnome2", "kde", "env"}
<1> DEFINE desktop == DesktopEnv(e)
           named == desktop \in {"kde3", "kde4", "kde5"} /\ e.loads /\ ~KdeType(f, "env")
           n3 == desktop = "gnome3" /\ e.loads
           n2 == desktop = "gnome2" /\ e.gconf /\ e.loads
<1>1. Interface(e, f) = CASE n3 -> "gnome3" [] n2 -> "gnome2" [] named -> "kde" [] OTHER -> "env"
  BY Zenon DEF Interface
<1> HIDE DEF n3, n2, named
<1>2. CASE ~n3 /\ ~n2 /\ ~named  BY <1>1, <1>2
<1>3. CASE n3 \/ n2 \/ named  BY <1>1, <1>3
<1> QED BY <1>2, <1>3

\* The lines of a file of KDE have the settings.
LEMMA KdeFileRead ==
    ASSUME KdeFilesRecord, Place, interface = "kde"
    PROVE  LET s == session.settings
               scheme == session.url.scheme
               type == CASE "manual" \in s.ways -> "fixed" [] "script" \in s.ways -> "pac"
                         [] "detect" \in s.ways -> "wpad" [] "env" \in s.ways -> "env"
                         [] OTHER -> "none"
           IN  /\ Kde(file, <<"Proxy", "Type">>) = type
               /\ Kde(file, <<"Proxy", "Config", "Script">>) = s.url
               /\ Kde(file, KeyOf(scheme)) = IF s.host[scheme] = NoHost THEN NoValue ELSE ProxyOf(s, scheme)
               /\ Kde(file, <<"NoProxyFor">>) =
                      IF s.ignore = <<>> THEN NoValue ELSE Front(Separated(s.ignore))
               /\ ProxyOf(s, scheme) # NoValue /\ Front(Separated(s.ignore)) # NoValue
               /\ NoUrl = NoValue
<1> DEFINE s == session.settings
           scheme == session.url.scheme
           type == CASE "manual" \in s.ways -> "fixed" [] "script" \in s.ways -> "pac"
                     [] "detect" \in s.ways -> "wpad" [] "env" \in s.ways -> "env"
                     [] OTHER -> "none"
<1>1. session \in Sessions /\ file = KdeFile(s)
  BY Zenon DEF Place
<1>2. session.system = "linux" /\ Interface(session.env, file) = "kde"
  BY DEF Place
<1>3. /\ NoUrl = NoValue
      /\ Len(file) \in Nat /\ DOMAIN file = 1 .. Len(file)
      /\ KdeLine(file, <<"Proxy", "Type">>, type)
      /\ KdeLine(file, <<"Proxy", "Config", "Script">>, s.url)
      /\ KdeLine(file, KeyOf(scheme), IF s.host[scheme] = NoHost THEN NoValue ELSE ProxyOf(s, scheme))
      /\ KdeLine(file, <<"NoProxyFor">>, IF s.ignore = <<>> THEN NoValue ELSE Front(Separated(s.ignore)))
      /\ ProxyOf(s, scheme) # NoValue /\ Front(Separated(s.ignore)) # NoValue
  BY <1>1, <1>2, Zenon DEF KdeFilesRecord
<1> DEFINE words == {"Proxy", "Type", "Config", "Script", "NoProxyFor", "http", "s", scheme}
<1>4. /\ <<"Proxy", "Type">> \in Seq(words) /\ <<"Proxy", "Config", "Script">> \in Seq(words)
      /\ KeyOf(scheme) \in Seq(words) /\ <<"NoProxyFor">> \in Seq(words)
  <2>1. <<"Proxy", "Type">> \in Seq(words)  OBVIOUS
  <2>2. <<"Proxy", "Config", "Script">> \in Seq(words)  OBVIOUS
  <2>3. <<"NoProxyFor">> \in Seq(words)  OBVIOUS
  <2>4. <<"http", "s", "Proxy">> \in Seq(words) /\ <<scheme, "Proxy">> \in Seq(words)
    <3>1. PICK x : x = scheme  OBVIOUS
    <3>2. x \in words  BY <3>1
    <3>3. {"http", "s", "Proxy", x} \subseteq words  BY <3>2
    <3> HIDE DEF words
    <3>4. <<"http", "s", "Proxy">> \in Seq(words)  BY <3>3
    <3>5. <<x, "Proxy">> \in Seq(words)  BY <3>3
    <3> QED BY <3>1, <3>4, <3>5
  <2> HIDE DEF words
  <2>5. KeyOf(scheme) \in Seq(words)
    <3>1. CASE scheme = "https"  BY <2>4, <3>1, Zenon DEF KeyOf
    <3>2. CASE scheme # "https"  BY <2>4, <3>2, Zenon DEF KeyOf
    <3> QED BY <3>1, <3>2
  <2> QED BY <2>1, <2>2, <2>3, <2>5
<1> HIDE DEF type, words, s, scheme
<1>5. Kde(file, <<"Proxy", "Type">>) = type  BY <1>3, <1>4, KdeLineFound, Zenon
<1>6. Kde(file, <<"Proxy", "Config", "Script">>) = s.url  BY <1>3, <1>4, KdeLineFound, Zenon
<1>7. Kde(file, KeyOf(scheme)) = IF s.host[scheme] = NoHost THEN NoValue ELSE ProxyOf(s, scheme)
  BY <1>3, <1>4, KdeLineFound, Zenon
<1>8. Kde(file, <<"NoProxyFor">>) = IF s.ignore = <<>> THEN NoValue ELSE Front(Separated(s.ignore))
  BY <1>3, <1>4, KdeLineFound, Zenon
<1> QED BY <1>3, <1>5, <1>6, <1>7, <1>8, Zenon DEF type, s, scheme

\* The settings of a session, as far as a request reads them.
SettingsTyped(s) ==
    /\ session.url.scheme # "any" /\ {session.url.scheme, "http", "any"} \subseteq DOMAIN s.host
    /\ s.host["any"] # NoHost => \A k \in DOMAIN s.host \ {"any"} : s.host[k] = NoHost
    /\ interface \notin {"win", "mac"} => \A v, w \in s.ways : v = w

\* What the settings say.
LEMMA SettingsAreTyped ==
    ASSUME Place, NEW s \in SettingsOf(session)
    PROVE  SettingsTyped(s)
<1>1. session \in Sessions  BY DEF Place
<1>2. interface \notin {"win", "mac"} => session.system = "linux"
  BY DEF Place
<1>3. /\ session.url.scheme # "any" /\ {session.url.scheme, "http", "any"} \subseteq DOMAIN s.host
      /\ s.host["any"] # NoHost => \A k \in DOMAIN s.host \ {"any"} : s.host[k] = NoHost
      /\ session.system = "linux" => \A v, w \in s.ways : v = w
  BY <1>1, SystemConfigAssumption, Zenon
<1> QED BY <1>2, <1>3, Zenon DEF SettingsTyped

\* The key that the proxy for a url is read from.
KeyFor(s) == IF interface = "gnome3" /\ s.same THEN "http" ELSE session.url.scheme

\* Elsewhere than on Windows the proxy used is the one that the settings mean.
LEMMA ProxyUsedSays ==
    ASSUME NEW s
    PROVE  ProxyUsed(s) = IF NotListed(s) THEN TheWholeList ELSE ProxyFor(s)
BY Zenon DEF ProxyUsed

\* The proxy by interface.
LEMMA ProxyRead ==
    ASSUME NEW s, interface = "win" => SettingsTyped(s), session.override.proxy = NoProxy
    PROVE  LET scheme == session.url.scheme
           IN  /\ interface \in Gnome /\ "manual" \notin s.ways => ProxyUsed(s) = NoProxy
               /\ interface \in Gnome /\ "manual" \in s.ways => ProxyUsed(s) = ProxyOf(s, KeyFor(s))
               /\ interface = "win" => ProxyUsed(s) = WinProxy(s, scheme)
               /\ interface = "mac" => ProxyUsed(s) = MacProxy(s, scheme)
               /\ interface = "env" => ProxyUsed(s) = EnvProxy(s, scheme)
               /\ interface = "kde" =>
                    ProxyUsed(s) = IF "manual" \in s.ways THEN ProxyOf(s, scheme) ELSE NoProxy
<1> DEFINE scheme == session.url.scheme
           manual == "manual" \in s.ways
           listed == {k \in DOMAIN s.host : s.host[k] # NoHost}
<1>1. interface = "mac" => ProxyFor(s) = ProxyOf(s, scheme)
  BY Zenon DEF ProxyFor
<1>2. interface = "env" => ProxyFor(s) = IF scheme = "http" /\ scheme \in s.caps THEN NoProxy
                                         ELSE ProxyOf(s, scheme)
  <2>1. interface = "env" => interface # "mac"  OBVIOUS
  <2> QED BY <2>1, Zenon DEF ProxyFor
<1>3. interface # "mac" /\ interface # "env" /\ ~manual => ProxyFor(s) = NoProxy
  BY Zenon DEF ProxyFor
<1>4. interface = "gnome3" /\ manual => ProxyFor(s) = ProxyOf(s, KeyFor(s))
  <2>1. interface = "gnome3" => interface # "mac" /\ interface # "env" /\ interface # "win"  OBVIOUS
  <2>2. CASE s.same  BY <2>1, <2>2, Zenon DEF ProxyFor, KeyFor
  <2>3. CASE ~s.same  BY <2>1, <2>3, Zenon DEF ProxyFor, KeyFor
  <2> QED BY <2>2, <2>3
<1>5. interface \in {"gnome2", "kde"} /\ manual => ProxyFor(s) = ProxyOf(s, scheme)
  <2>1. interface \in {"gnome2", "kde"} =>
            interface # "mac" /\ interface # "env" /\ interface # "win" /\ interface # "gnome3"
    OBVIOUS
  <2> QED BY <2>1, Zenon DEF ProxyFor
<1>6. interface = "gnome2" => KeyFor(s) = scheme  BY DEF KeyFor
<1>7. NotListed(s) <=> interface = "win" /\ manual /\ listed # {} /\ listed \cap {scheme, "any"} = {}
  BY Zenon DEF NotListed
<1>8. interface # "win" => ProxyUsed(s) = ProxyFor(s)  BY <1>7, ProxyUsedSays
<1>9. interface = "win" /\ manual => ProxyUsed(s) = WinListed(s, scheme)
  <2> SUFFICES ASSUME interface = "win", manual PROVE ProxyUsed(s) = WinListed(s, scheme)
    OBVIOUS
  <2>1. interface # "mac" /\ interface # "env" /\ interface # "gnome3"  OBVIOUS
  <2>2. /\ scheme \in DOMAIN s.host /\ "any" \in DOMAIN s.host /\ scheme # "any"
        /\ s.host["any"] # NoHost => \A k \in DOMAIN s.host \ {"any"} : s.host[k] = NoHost
    BY DEF SettingsTyped
  <2>3. WinListed(s, scheme) = CASE scheme \in listed -> ProxyOf(s, scheme)
                                 [] listed = {} -> NoProxy
                                 [] listed = {"any"} -> ProxyOf(s, "any")
                                 [] OTHER -> TheWholeList
    BY Zenon DEF WinListed, TheWholeList
  <2>4. s.host[scheme] = NoHost => ProxyFor(s) = ProxyOf(s, "any")
    BY <2>1, Zenon DEF ProxyFor
  <2>5. CASE s.host[scheme] # NoHost
    <3>1. scheme \in listed  BY <2>2, <2>5
    <3>2. listed # {}  BY <3>1
    <3>3. listed # {"any"}  BY <2>2, <3>1
    <3>4. WinListed(s, scheme) = ProxyOf(s, scheme)  BY <2>3, <3>1, <3>2, <3>3, Zenon
    <3>5. ProxyFor(s) = ProxyOf(s, scheme)  BY <2>1, <2>5, Zenon DEF ProxyFor
    <3>6. ~NotListed(s)  BY <1>7, <3>1
    <3> QED BY <3>4, <3>5, <3>6, ProxyUsedSays, Zenon
  <2>6. CASE s.host[scheme] = NoHost /\ s.host["any"] # NoHost
    <3>1. scheme \notin listed /\ listed = {"any"}  BY <2>2, <2>6
    <3>2. listed # {}  BY <3>1
    <3>3. WinListed(s, scheme) = ProxyOf(s, "any")  BY <2>3, <3>1, <3>2, Zenon
    <3>4. ~NotListed(s)  BY <1>7, <3>1
    <3> QED BY <2>4, <2>6, <3>3, <3>4, ProxyUsedSays, Zenon
  <2>7. CASE s.host[scheme] = NoHost /\ s.host["any"] = NoHost /\ listed # {}
    <3>1. scheme \notin listed /\ listed # {"any"}  BY <2>2, <2>7
    <3>2. "any" \notin listed  BY <2>7
    <3>3. WinListed(s, scheme) = TheWholeList  BY <2>3, <2>7, <3>1, Zenon
    <3>4. NotListed(s)  BY <1>7, <2>7, <3>1, <3>2
    <3> QED BY <3>3, <3>4, ProxyUsedSays, Zenon
  <2>8. CASE s.host[scheme] = NoHost /\ s.host["any"] = NoHost /\ listed = {}
    <3>1. scheme \notin listed /\ listed # {"any"}  BY <2>8
    <3>2. WinListed(s, scheme) = NoProxy  BY <2>3, <2>8, <3>1, Zenon
    <3>3. ProxyOf(s, "any") = NoProxy  BY <2>8, Zenon DEF ProxyOf
    <3>4. ~NotListed(s)  BY <1>7, <2>8
    <3> QED BY <2>4, <2>8, <3>2, <3>3, <3>4, ProxyUsedSays, Zenon
  <2> QED BY <2>5, <2>6, <2>7, <2>8
<1>10. ~manual => ~NotListed(s)  BY <1>7
<1> HIDE DEF manual, scheme, listed
<1>11. interface = "win" => ProxyUsed(s) = WinProxy(s, scheme)
  <2>1. interface = "win" => interface # "mac" /\ interface # "env"  OBVIOUS
  <2> QED BY <1>3, <1>9, <1>10, <2>1, ProxyUsedSays, Zenon DEF WinProxy, manual
<1>12. interface = "mac" => ProxyFor(s) = MacProxy(s, scheme)  BY <1>1, Zenon DEF MacProxy
<1>13. interface = "env" => ProxyFor(s) = EnvProxy(s, scheme)
  BY <1>2, Zenon DEF EnvProxy
<1>14. interface \in Gnome => (interface = "gnome2" \/ interface = "gnome3")
                              /\ interface # "mac" /\ interface # "env" /\ interface # "win"
  BY DEF Gnome
<1>15. interface = "kde" => interface # "mac" /\ interface # "env" /\ interface # "win"  OBVIOUS
<1>16. interface \in {"mac", "env"} => interface # "win"  OBVIOUS
<1> QED BY <1>3, <1>4, <1>5, <1>6, <1>8, <1>11, <1>12, <1>13, <1>14, <1>15, <1>16 DEF manual, scheme

\* A proxy that the settings mean is the one used.
LEMMA MeantIsUsed ==
    ASSUME NEW s, SettingsTyped(s), ProxyFor(s) # NoProxy
    PROVE  ProxyUsed(s) = ProxyFor(s)
<1> DEFINE scheme == session.url.scheme
           listed == {k \in DOMAIN s.host : s.host[k] # NoHost}
<1>1. SUFFICES ASSUME NotListed(s) PROVE FALSE
  BY ProxyUsedSays
<1>2. /\ interface = "win" /\ session.override.proxy = NoProxy /\ "manual" \in s.ways
      /\ listed \cap {scheme, "any"} = {}
  BY <1>1, Zenon DEF NotListed
<1>3. s.host[scheme] = NoHost /\ s.host["any"] = NoHost
  BY <1>2 DEF SettingsTyped
<1>4. interface # "mac" /\ interface # "env" /\ interface # "gnome3"  BY <1>2
<1>5. ProxyFor(s) = ProxyOf(s, "any")  BY <1>2, <1>3, <1>4, Zenon DEF ProxyFor
<1>6. ProxyOf(s, "any") = NoProxy  BY <1>3, Zenon DEF ProxyOf
<1> QED BY <1>5, <1>6

\* The settings that an answer is about: the file of KDE has those of the initialization.
Basis(s) == IF interface = "kde" THEN session.settings ELSE s

\* The interfaces, and those that take what a getter needs at once.
LEMMA InterfaceChosen ==
    ASSUME Place
    PROVE  /\ interface \in {"gnome2", "gnome3", "kde", "env", "win", "mac"}
           /\ interface \notin Gnome => interface \in {"kde", "env", "win", "mac"}
<1>1. session.system = "linux" => interface \in {"gnome3", "gnome2", "kde", "env"}
  BY InterfaceOfLinux DEF Place
<1>2. interface \in {"gnome2", "gnome3", "kde", "env", "win", "mac"}
  BY <1>1 DEF Place
<1> QED BY <1>2 DEF Gnome

\* The settings of the session are among those it may have.
LEMMA FirstSettings == session.settings \in SettingsOf(session)
BY DEF SettingsOf

\* The type in the file of KDE.
LEMMA KdeTypeRead ==
    ASSUME KdeFilesRecord, Place, interface = "kde"
    PROVE  LET s == session.settings
           IN  /\ KdeType(file, "fixed") <=> "manual" \in s.ways
               /\ KdeType(file, "pac") <=> "script" \in s.ways
               /\ KdeType(file, "wpad") <=> "detect" \in s.ways
<1> DEFINE s == session.settings
           type == CASE "manual" \in s.ways -> "fixed" [] "script" \in s.ways -> "pac"
                     [] "detect" \in s.ways -> "wpad" [] "env" \in s.ways -> "env"
                     [] OTHER -> "none"
<1>1. \A t : KdeType(file, t) <=> type = t
  <2>1. Kde(file, <<"Proxy", "Type">>) = type  BY KdeFileRead
  <2> HIDE DEF type
  <2> QED BY <2>1, Zenon DEF KdeType
<1>2. \A v, w \in s.ways : v = w
  <2>1. SettingsTyped(s)  BY FirstSettings, SettingsAreTyped
  <2> QED BY <2>1 DEF SettingsTyped
<1>3. CASE "manual" \in s.ways
  <2>1. "script" \notin s.ways /\ "detect" \notin s.ways /\ "env" \notin s.ways  BY <1>2, <1>3
  <2>2. type = "fixed"  BY <1>3, <2>1, Zenon
  <2> HIDE DEF type
  <2> QED BY <1>1, <1>3, <2>1, <2>2
<1>4. CASE "script" \in s.ways
  <2>1. "manual" \notin s.ways /\ "detect" \notin s.ways /\ "env" \notin s.ways  BY <1>2, <1>4
  <2>2. type = "pac"  BY <1>4, <2>1, Zenon
  <2> HIDE DEF type
  <2> QED BY <1>1, <1>4, <2>1, <2>2
<1>5. CASE "detect" \in s.ways
  <2>1. "script" \notin s.ways /\ "manual" \notin s.ways /\ "env" \notin s.ways  BY <1>2, <1>5
  <2>2. type = "wpad"  BY <1>5, <2>1, Zenon
  <2> HIDE DEF type
  <2> QED BY <1>1, <1>5, <2>1, <2>2
<1>6. CASE "manual" \notin s.ways /\ "script" \notin s.ways /\ "detect" \notin s.ways
  <2>1. type = IF "env" \in s.ways THEN "env" ELSE "none"  BY <1>6, Zenon
  <2>2. type \notin {"fixed", "pac", "wpad"}
    <3> HIDE DEF type
    <3> QED BY <2>1
  <2> HIDE DEF type
  <2> QED BY <1>1, <1>6, <2>2
<1> QED BY <1>3, <1>4, <1>5, <1>6

\* The auto-config url.
LEMMA UrlIsRead ==
    ASSUME KdeFilesRecord, Place, interface \notin Gnome, NEW s
    PROVE  AutoConfigUrl(interface, s, file) # NoUrl <=> NamesScript(Basis(s))
<1>1. NamesScript(Basis(s)) <=> Basis(s).url # NoUrl /\ "script" \in Basis(s).ways /\ interface # "env"
  BY Zenon DEF NamesScript
<1>2. CASE interface = "win"
  <2>1. AutoConfigUrl(interface, s, file) = IF "script" \in s.ways THEN s.url ELSE NoUrl
    BY <1>2, Zenon DEF AutoConfigUrl, WinUrl
  <2> QED BY <1>1, <1>2, <2>1 DEF Basis
<1>3. CASE interface = "mac"
  <2>1. AutoConfigUrl(interface, s, file) = MacUrl(s)
    <3>1. interface # "win"  BY <1>3
    <3> QED BY <1>3, <3>1, Zenon DEF AutoConfigUrl
  <2> QED BY <1>1, <1>3, <2>1 DEF Basis, MacUrl
<1>4. CASE interface = "env"
  <2>1. AutoConfigUrl(interface, s, file) = NoUrl
    <3>1. interface # "win" /\ interface # "mac" /\ interface # "kde"  BY <1>4
    <3> QED BY <1>4, <3>1, Zenon DEF AutoConfigUrl
  <2> QED BY <1>1, <1>4, <2>1
<1>5. CASE interface = "kde"
  <2>1. AutoConfigUrl(interface, s, file) = KdeUrl(file)
    <3>1. interface # "win" /\ interface # "mac"  BY <1>5
    <3> QED BY <1>5, <3>1, Zenon DEF AutoConfigUrl
  <2>2. Kde(file, <<"Proxy", "Config", "Script">>) = session.settings.url /\ NoUrl = NoValue
    BY <1>5, KdeFileRead, Zenon
  <2>3. KdeType(file, "pac") <=> "script" \in session.settings.ways
    BY <1>5, KdeTypeRead, Zenon
  <2>4. KdeUrl(file) = IF KdeType(file, "pac") /\ session.settings.url # NoValue
                       THEN session.settings.url ELSE NoUrl
    BY <2>2, Zenon DEF KdeUrl
  <2>5. KdeUrl(file) # NoUrl <=> "script" \in session.settings.ways /\ session.settings.url # NoUrl
    <3>1. CASE "script" \in session.settings.ways  BY <2>2, <2>3, <2>4, <3>1, Zenon
    <3>2. CASE "script" \notin session.settings.ways  BY <2>2, <2>3, <2>4, <3>2, Zenon
    <3> QED BY <3>1, <3>2
  <2>6. Basis(s) = session.settings /\ interface # "env"  BY <1>5 DEF Basis
  <2> QED BY <1>1, <2>1, <2>5, <2>6, Zenon
<1> QED BY <1>2, <1>3, <1>4, <1>5, InterfaceChosen

\* The proxy.
LEMMA ProxyIsRead ==
    ASSUME KdeFilesRecord, Place, interface \notin Gnome, NEW s \in SettingsOf(session),
           session.override.proxy = NoProxy
    PROVE  Proxy(interface, s, file, session.url.scheme) = ProxyUsed(Basis(s))
<1> DEFINE scheme == session.url.scheme
           base == session.settings
<1>1. SettingsTyped(s)  BY SettingsAreTyped
<1>2. CASE interface = "win"
  <2>1. Proxy(interface, s, file, scheme) = WinProxy(s, scheme)  BY <1>2, Zenon DEF Proxy
  <2>2. Basis(s) = s  BY <1>2 DEF Basis
  <2> QED BY <1>1, <1>2, <2>1, <2>2, ProxyRead, Zenon
<1>3. CASE interface = "mac"
  <2>1. Proxy(interface, s, file, scheme) = MacProxy(s, scheme)
    <3>1. interface # "win"  BY <1>3
    <3> QED BY <1>3, <3>1, Zenon DEF Proxy
  <2>2. Basis(s) = s  BY <1>3 DEF Basis
  <2> QED BY <1>1, <1>3, <2>1, <2>2, ProxyRead, Zenon
<1>4. CASE interface = "env"
  <2>1. Proxy(interface, s, file, scheme) = EnvProxy(s, scheme)
    <3>1. interface # "win" /\ interface # "mac" /\ interface # "kde"  BY <1>4
    <3> QED BY <1>4, <3>1, Zenon DEF Proxy
  <2>2. Basis(s) = s  BY <1>4 DEF Basis
  <2> QED BY <1>1, <1>4, <2>1, <2>2, ProxyRead, Zenon
<1>5. CASE interface = "kde"
  <2>1. Proxy(interface, s, file, scheme) = KdeProxy(file, scheme)
    <3>1. interface # "win" /\ interface # "mac" /\ interface # "env"  BY <1>5
    <3> QED BY <1>5, <3>1, Zenon DEF Proxy
  <2>2. /\ Kde(file, KeyOf(scheme)) = IF base.host[scheme] = NoHost THEN NoValue ELSE ProxyOf(base, scheme)
        /\ ProxyOf(base, scheme) # NoValue
    BY <1>5, KdeFileRead, Zenon
  <2>3. KdeType(file, "fixed") <=> "manual" \in base.ways
    BY <1>5, KdeTypeRead, Zenon
  <2>4. KdeProxy(file, scheme) = IF KdeType(file, "fixed") /\ Kde(file, KeyOf(scheme)) # NoValue
                                 THEN Kde(file, KeyOf(scheme)) ELSE NoProxy
    BY Zenon DEF KdeProxy
  <2>5. base.host[scheme] = NoHost => ProxyOf(base, scheme) = NoProxy  BY Zenon DEF ProxyOf
  <2>6. SettingsTyped(base)  BY FirstSettings, SettingsAreTyped
  <2>7. ProxyUsed(base) = IF "manual" \in base.ways THEN ProxyOf(base, scheme) ELSE NoProxy
    BY <1>5, <2>6, ProxyRead, Zenon
  <2>8. Basis(s) = base  BY <1>5 DEF Basis
  <2>9. KdeProxy(file, scheme) = ProxyUsed(base)
    <3>1. CASE "manual" \notin base.ways  BY <2>3, <2>4, <2>7, <3>1, Zenon
    <3>2. CASE "manual" \in base.ways /\ base.host[scheme] = NoHost
      BY <2>2, <2>4, <2>5, <2>7, <3>2, Zenon
    <3>3. CASE "manual" \in base.ways /\ base.host[scheme] # NoHost
      BY <2>2, <2>3, <2>4, <2>7, <3>3, Zenon
    <3> QED BY <3>1, <3>2, <3>3
  <2> QED BY <2>1, <2>8, <2>9, Zenon
<1> QED BY <1>2, <1>3, <1>4, <1>5, InterfaceChosen

\* Whether discovery is switched on.
LEMMA DetectIsRead ==
    ASSUME KdeFilesRecord, Place, NEW s
    PROVE  AutoDiscover(interface, s, file) <=> interface # "env" /\ "detect" \in Basis(s).ways
<1>1. CASE interface = "env"  BY <1>1, Zenon DEF AutoDiscover
<1>2. CASE interface = "kde"
  <2>1. interface # "env"  BY <1>2
  <2>2. AutoDiscover(interface, s, file) <=> KdeType(file, "wpad")
    BY <1>2, <2>1, Zenon DEF AutoDiscover
  <2>3. KdeType(file, "wpad") <=> "detect" \in session.settings.ways  BY <1>2, KdeTypeRead, Zenon
  <2>4. Basis(s) = session.settings  BY <1>2 DEF Basis
  <2> QED BY <2>1, <2>2, <2>3, <2>4, Zenon
<1>3. CASE interface # "env" /\ interface # "kde"
  <2>1. AutoDiscover(interface, s, file) <=> "detect" \in s.ways  BY <1>3, Zenon DEF AutoDiscover
  <2>2. Basis(s) = s  BY <1>3 DEF Basis
  <2> QED BY <1>3, <2>1, <2>2, Zenon
<1> QED BY <1>1, <1>2, <1>3

\* The hosts to ignore are lists of texts without a comma.
LEMMA IgnoreTyped ==
    ASSUME NEW symbols, HostsListed(symbols), Place, NEW s \in SettingsOf(session)
    PROVE  LET S == symbols \cup SpecialRules
           IN  /\ Comma \notin S /\ "<local>" \in S /\ s.ignore \in Seq(Seq(S))
               /\ interface = "gnome2" \/ \A i \in DOMAIN s.ignore : s.ignore[i] # <<>>
<1> DEFINE S == symbols \cup SpecialRules
<1>1. session \in Sessions  BY DEF Place
<1>2. /\ "," \notin symbols /\ s.ignore \in Seq(Seq(symbols))
      /\ \/ session.system = "linux" /\ Interface(session.env, KdeFile(session.settings)) = "gnome2"
         \/ \A i \in DOMAIN s.ignore : s.ignore[i] # <<>>
  BY <1>1, Zenon DEF HostsListed
<1>3. Comma \notin SpecialRules  BY Zenon DEF Comma, SpecialRules
<1>4. Comma \notin S  BY <1>2, <1>3, Zenon DEF Comma
<1>5. Comma \notin symbols  BY <1>2, Zenon DEF Comma
<1>6. s.ignore \in Seq(Seq(symbols))  BY <1>2, Zenon
<1>7. s.ignore \in Seq(Seq(S))
  <2>1. \A t \in Seq(symbols) : t \in Seq(S)  OBVIOUS
  <2>2. PICK D, E : D = Seq(symbols) /\ E = Seq(S)  OBVIOUS
  <2>3. D \subseteq E  BY <2>1, <2>2
  <2>4. s.ignore \in Seq(D)  BY <1>6, <2>2
  <2>5. s.ignore \in Seq(E)  BY <2>3, <2>4
  <2> QED BY <2>2, <2>5
<1>8. "<local>" \in S  BY DEF SpecialRules
<1>9. interface = "gnome2" \/ \A i \in DOMAIN s.ignore : s.ignore[i] # <<>>
  <2>1. session.system = "linux" /\ Interface(session.env, KdeFile(session.settings)) = "gnome2"
        => interface = "gnome2"
    BY DEF Place
  <2> QED BY <1>2, <2>1, Zenon
<1> QED BY <1>4, <1>7, <1>8, <1>9, Zenon

\* The list of rules.
LEMMA ListIsRead ==
    ASSUME NEW symbols, HostsListed(symbols), KdeFilesRecord, Place, NEW s \in SettingsOf(session),
           interface \notin Gnome, session.override.list = NoList
    PROVE  BypassList(interface, s, file) = RulesOf(Basis(s))
<1> DEFINE base == session.settings
<1>1. CASE interface = "win"
  <2>1. BypassList(interface, s, file) = WinIgnored(s)  BY <1>1, Zenon DEF BypassList
  <2>2. Basis(s) = s  BY <1>1 DEF Basis
  <2>3. RulesOf(s) = WinIgnored(s)  BY <1>1, IgnoreTyped, RulesRead, Zenon
  <2> QED BY <2>1, <2>2, <2>3, Zenon
<1>2. CASE interface = "mac"
  <2>1. BypassList(interface, s, file) = MacIgnored(s)
    <3>1. interface # "win"  BY <1>2
    <3> QED BY <1>2, <3>1, Zenon DEF BypassList
  <2>2. Basis(s) = s  BY <1>2 DEF Basis
  <2>3. RulesOf(s) = MacIgnored(s)  BY <1>2, IgnoreTyped, RulesRead, Zenon
  <2> QED BY <2>1, <2>2, <2>3, Zenon
<1>3. CASE interface = "env"
  <2>1. BypassList(interface, s, file) = EnvIgnored(s)
    <3>1. interface # "win" /\ interface # "mac" /\ interface # "kde"  BY <1>3
    <3> QED BY <1>3, <3>1, Zenon DEF BypassList
  <2>2. Basis(s) = s  BY <1>3 DEF Basis
  <2>3. RulesOf(s) = EnvIgnored(s)  BY <1>3, IgnoreTyped, RulesRead, Zenon
  <2> QED BY <2>1, <2>2, <2>3, Zenon
<1>4. CASE interface = "kde"
  <2>1. BypassList(interface, s, file) = KdeIgnored(file)
    <3>1. interface # "win" /\ interface # "mac" /\ interface # "env"  BY <1>4
    <3> QED BY <1>4, <3>1, Zenon DEF BypassList
  <2>2. /\ Kde(file, <<"NoProxyFor">>) =
               IF base.ignore = <<>> THEN NoValue ELSE Front(Separated(base.ignore))
        /\ Front(Separated(base.ignore)) # NoValue
    BY <1>4, KdeFileRead, Zenon
  <2>3. KdeIgnored(file) = IF base.ignore = <<>> THEN NoList ELSE Front(Separated(base.ignore))
    <3>1. KdeIgnored(file) = IF Kde(file, <<"NoProxyFor">>) = NoValue THEN NoList
                             ELSE Kde(file, <<"NoProxyFor">>)
      BY Zenon DEF KdeIgnored
    <3>2. CASE base.ignore = <<>>  BY <2>2, <3>1, <3>2, Zenon
    <3>3. CASE base.ignore # <<>>  BY <2>2, <3>1, <3>3, Zenon
    <3> QED BY <3>2, <3>3
  <2>4. NonEmpty(base.ignore) = base.ignore
    <3>1. PICK D : D = Seq(symbols \cup SpecialRules)  OBVIOUS
    <3>2. base.ignore \in Seq(D) /\ \A i \in DOMAIN base.ignore : base.ignore[i] # <<>>
      BY <1>4, <3>1, FirstSettings, IgnoreTyped
    <3> QED BY <3>2, NonEmptyTexts
  <2>5. <<>> \o base.ignore = base.ignore
    <3>1. PICK D : D = Seq(symbols \cup SpecialRules)  OBVIOUS
    <3>2. base.ignore \in Seq(D)  BY <3>1, FirstSettings, IgnoreTyped
    <3> QED BY <3>2
  <2>6. RulesOf(base) = IF base.ignore = <<>> \/ (interface \in Gnome \cup {"win"} /\ "manual" \notin base.ways)
                        THEN NoList ELSE Front(Separated(base.ignore))
    <3>1. PICK local : local = (IF interface = "mac" /\ base.simple THEN << <<"<local>">> >> ELSE <<>>)
      OBVIOUS
    <3>2. local = <<>>  BY <1>4, <3>1
    <3>3. base.ignore = local \o NonEmpty(base.ignore)  BY <2>4, <2>5, <3>2
    <3> QED BY <3>1, <3>3, RulesOfSays, Zenon
  <2>7. interface \notin Gnome \cup {"win"} /\ Basis(s) = base  BY <1>4 DEF Gnome, Basis
  <2>8. RulesOf(base) = KdeIgnored(file)
    <3>1. CASE base.ignore = <<>>  BY <2>3, <2>6, <3>1, Zenon
    <3>2. CASE base.ignore # <<>>  BY <2>3, <2>6, <2>7, <3>2, Zenon
    <3> QED BY <3>1, <3>2
  <2> QED BY <2>1, <2>7, <2>8, Zenon
<1> QED BY <1>1, <1>2, <1>3, <1>4, InterfaceChosen

-----------------------------------------------------------------------------
(* The moments of a request.                                               *)

\* The invariant of the past: it goes from the settings of the session to the present ones.
PastIs ==
    /\ past \in Seq(SettingsOf(session)) /\ past # <<>>
    /\ past[1] = session.settings /\ past[Len(past)] = settings

\* The present is the last moment.
LEMMA Moments ==
    ASSUME PastIs
    PROVE  /\ Len(past) \in Nat \ {0} /\ DOMAIN past = 1 .. Len(past)
           /\ Len(past) \in DOMAIN past /\ \A k \in DOMAIN past : k <= Len(past)
           /\ settings \in SettingsOf(session) /\ past[Len(past)] = settings
<1> DEFINE D == SettingsOf(session)
<1>1. past \in Seq(D) /\ past # <<>> /\ past[Len(past)] = settings  BY DEF PastIs
<1> HIDE DEF D
<1>2. Len(past) \in Nat \ {0} /\ DOMAIN past = 1 .. Len(past)  BY <1>1
<1>3. past[Len(past)] \in D  BY <1>1, <1>2
<1> QED BY <1>1, <1>2, <1>3 DEF D

\* The settings that GNOME was asked for at these moments.
Torn(a, b, c, d) ==
    [ways |-> past[a].ways, url |-> past[b].url, same |-> past[b].same, ignore |-> past[b].ignore,
     host |-> past[c].host, port |-> past[d].port]

\* Moments in order give what GNOME may have read.
LEMMA SeenGnome ==
    ASSUME interface \in Gnome, NEW i \in Nat, NEW k \in Nat,
           NEW a \in i .. k, NEW b \in a .. k, NEW c \in b .. k, NEW d \in c .. k
    PROVE  Torn(a, b, c, d) \in Seen(i, k)
<1> DEFINE reads == {m \in [1 .. 4 -> i .. k] : \A x, y \in 1 .. 4 : x <= y => m[x] <= m[y]}
           m == [x \in 1 .. 4 |-> CASE x = 1 -> a [] x = 2 -> b [] x = 3 -> c [] OTHER -> d]
           torn(r) == [ways |-> past[r[1]].ways, url |-> past[r[2]].url, same |-> past[r[2]].same,
                       ignore |-> past[r[2]].ignore, host |-> past[r[3]].host,
                       port |-> past[r[4]].port]
<1>1. interface # "kde"  BY DEF Gnome
<1>2. Seen(i, k) = {torn(r) : r \in reads}  BY <1>1, Zenon DEF Seen
<1>3. m[1] = a /\ m[2] = b /\ m[3] = c /\ m[4] = d  OBVIOUS
<1>4. m \in reads
  <2>1. \A x \in 1 .. 4 : x = 1 \/ x = 2 \/ x = 3 \/ x = 4  OBVIOUS
  <2>2. a <= b /\ b <= c /\ c <= d /\ a \in i .. k /\ b \in i .. k /\ c \in i .. k /\ d \in i .. k
    OBVIOUS
  <2>3. m \in [1 .. 4 -> i .. k]  BY <2>2
  <2> HIDE DEF m
  <2>4. ASSUME NEW x \in 1 .. 4, NEW y \in 1 .. 4, x <= y PROVE m[x] <= m[y]
    BY <1>3, <2>1, <2>2, <2>4
  <2> QED BY <2>3, <2>4
<1> HIDE DEF m, reads
<1>5. torn(m) = Torn(a, b, c, d)  BY <1>3 DEF Torn
<1> QED BY <1>2, <1>4, <1>5

\* The other interfaces read the settings of one moment, or the file of KDE.
LEMMA SeenOther ==
    ASSUME interface \notin Gnome, NEW i, NEW k, NEW m \in i .. k
    PROVE  Basis(past[m]) \in Seen(i, k)
<1>1. CASE interface = "kde"  BY <1>1, Zenon DEF Seen, Basis
<1>2. CASE interface # "kde"  BY <1>2, Zenon DEF Seen, Basis
<1> QED BY <1>1, <1>2

\* What is read at present.
Now == IF interface \in Gnome THEN Torn(Len(past), Len(past), Len(past), Len(past))
       ELSE Basis(settings)

LEMMA NowSeen ==
    ASSUME PastIs, NEW i \in DOMAIN past
    PROVE  Now \in Seen(i, Len(past)) /\ Now.ways = Basis(settings).ways
<1>1. /\ Len(past) \in Nat /\ Len(past) \in i .. Len(past) /\ i \in Nat
      /\ Len(past) \in Len(past) .. Len(past) /\ past[Len(past)] = settings
  BY Moments
<1>2. CASE interface \in Gnome
  <2>1. Now = Torn(Len(past), Len(past), Len(past), Len(past))  BY <1>2 DEF Now
  <2>2. Basis(settings) = settings  BY <1>2 DEF Basis, Gnome
  <2>3. Now.ways = past[Len(past)].ways  BY <2>1 DEF Torn
  <2> QED BY <1>1, <1>2, <2>1, <2>2, <2>3, SeenGnome
<1>3. CASE interface \notin Gnome
  <2>1. Now = Basis(settings)  BY <1>3 DEF Now
  <2> QED BY <1>1, <1>3, <2>1, SeenOther
<1> QED BY <1>2, <1>3

\* Where no override and no settings that were seen by moment i name a script; and where
\* a proxy was the one used by settings seen after that.
NoneNamed(i) == session.override.url = NoUrl /\ \E u \in Seen(1, i) : ~NamesScript(u)
ProxySeen(i, j, proxy) == \E p \in Seen(i, j) : ProxyUsed(p) = proxy

\* A proxy is looked for in the keys of GNOME, of which the mode was read at moment a.
ByHand == interface \in Gnome /\ session.override.proxy = NoProxy
Manual(a) == "manual" \in past[a].ways

\* Nothing was read.
Unread == [key |-> session.url.scheme, proxy |-> NoProxy]

\* What the reads of a request have brought by the time it is to read p next: g, at
\* moments that follow each other.
Stage(p, g) ==
    /\ p \in {"url", "autoconfig"} => g = Unread
    /\ p = "autoconfig" => /\ interface \in Gnome /\ session.override.url = NoUrl
                           /\ \E a \in DOMAIN past : "detect" \in past[a].ways
    /\ p = "proxy" => g = Unread /\ \E i \in DOMAIN past : NoneNamed(i)
    /\ p = "same" => /\ g = Unread /\ ByHand /\ interface = "gnome3"
                     /\ \E i, a \in DOMAIN past : i <= a /\ NoneNamed(i) /\ Manual(a)
    /\ p = "host" => /\ ByHand
                     /\ \E i, a, b \in DOMAIN past :
                           /\ i <= a /\ a <= b /\ NoneNamed(i) /\ Manual(a)
                           /\ g = [key |-> KeyFor(past[b]), proxy |-> NoProxy]
    /\ p = "port" => /\ ByHand
                     /\ \E i, a, b, c \in DOMAIN past :
                           /\ i <= a /\ a <= b /\ b <= c /\ NoneNamed(i) /\ Manual(a)
                           /\ past[c].host[KeyFor(past[b])] # NoHost
                           /\ g = [key |-> KeyFor(past[b]),
                                   proxy |-> [host |-> past[c].host[KeyFor(past[b])], port |-> 0]]
    /\ p = "list" => /\ g.proxy # NoProxy
                     /\ \E i, j \in DOMAIN past :
                           i <= j /\ NoneNamed(i) /\ ProxySeen(i, j, g.proxy)
    /\ p = "ignore" => /\ g.proxy # NoProxy /\ interface \in Gnome /\ session.override.list = NoList
                       /\ \E i, j, a \in DOMAIN past :
                             /\ i <= j /\ j <= a /\ NoneNamed(i) /\ ProxySeen(i, j, g.proxy)
                             /\ Manual(a)
    /\ p = "detect" => \E i, j \in DOMAIN past :
                           i <= j /\ NoneNamed(i) /\ ProxySeen(i, j, NoProxy)

\* The answer is one that ConfigExplained allows.
Explained(a) ==
    \E i, j \in DOMAIN past :
        /\ i <= j
        /\ \E u \in Seen(1, i), p \in Seen(i, j), l \in Seen(j, Len(past)) :
              a \in Answers(u, ProxyUsed(p), l)
Answered(a) == a.kind \in {"evaluate", "direct", "proxy"} => Explained(a)

\* Answers by cases.
LEMMA AnswerSays ==
    ASSUME NEW u, NEW proxy, NEW l
    PROVE  LET named == session.override.url # NoUrl \/ NamesScript(u)
           IN  /\ named => Answers(u, proxy, l) = {Evaluate}
               /\ ~named /\ proxy # NoProxy =>
                     Answers(u, proxy, l) = {IF bypass THEN Direct ELSE Through(proxy) :
                                                bypass \in Bypasses(session.url, RulesOf(l))}
               /\ ~named /\ proxy = NoProxy =>
                     Answers(u, proxy, l) = {IF interface # "env" /\ "detect" \in l.ways THEN Evaluate
                                             ELSE Direct}
<1> DEFINE named == session.override.url # NoUrl \/ NamesScript(u)
<1>1. CASE named  BY <1>1, Zenon DEF Answers
<1>2. CASE ~named /\ proxy # NoProxy  BY <1>2, Zenon DEF Answers
<1>3. CASE ~named /\ proxy = NoProxy
  <2>1. CASE interface # "env" /\ "detect" \in l.ways  BY <1>3, <2>1, Zenon DEF Answers
  <2>2. CASE ~(interface # "env" /\ "detect" \in l.ways)  BY <1>3, <2>2, Zenon DEF Answers
  <2> QED BY <2>1, <2>2
<1> QED BY <1>1, <1>2, <1>3

\* What the steps of a request take for granted, and where they lead.
Reading ==
    /\ KdeFilesRecord /\ Place /\ PastIs /\ Stage(pc, got) /\ Answered(answer)
    /\ pc \notin {"script", "done"} => answer = NotYet
Goes == Stage(pc', got') /\ Answered(answer')

\* The modes of GNOME exclude each other.
LEMMA ModeIs ==
    ASSUME Place, interface \in Gnome, settings \in SettingsOf(session), NEW mode
    PROVE  /\ IsMode(mode) <=> mode \in settings.ways
           /\ Basis(settings) = settings /\ interface # "env"
<1>1. SettingsTyped(settings)  BY SettingsAreTyped
<1>2. interface \notin {"win", "mac", "kde", "env"}  BY DEF Gnome
<1>3. \A v, w \in settings.ways : v = w  BY <1>1, <1>2 DEF SettingsTyped
<1>4. IsMode(mode) <=> mode \in settings.ways  BY <1>3 DEF IsMode
<1> QED BY <1>2, <1>4 DEF Basis

\* A script is asked for.
LEMMA ScriptNamed ==
    ASSUME PastIs, NEW u \in Seen(1, Len(past)),
           session.override.url # NoUrl \/ NamesScript(u)
    PROVE  Explained(Evaluate)
<1> DEFINE n == Len(past)
<1>1. n \in DOMAIN past /\ n <= n  BY Moments
<1>2. Now \in Seen(n, n)  BY <1>1, NowSeen
<1>3. Evaluate \in Answers(u, ProxyUsed(Now), Now)  BY AnswerSays
<1> QED BY <1>1, <1>2, <1>3 DEF Explained

\* A proxy was found, and a list decides.
LEMMA ProxyDecided ==
    ASSUME PastIs, NEW i \in DOMAIN past, NEW j \in DOMAIN past, i <= j, NoneNamed(i),
           NEW proxy, proxy # NoProxy, ProxySeen(i, j, proxy),
           NEW l \in Seen(j, Len(past)), NEW bypass \in Bypasses(session.url, RulesOf(l))
    PROVE  Explained(IF bypass THEN Direct ELSE Through(proxy))
<1>1. PICK u \in Seen(1, i) : session.override.url = NoUrl /\ ~NamesScript(u)
  BY DEF NoneNamed
<1>2. PICK p \in Seen(i, j) : ProxyUsed(p) = proxy  BY DEF ProxySeen
<1> DEFINE decided(b) == IF b THEN Direct ELSE Through(proxy)
<1>3. Answers(u, proxy, l) = {decided(b) : b \in Bypasses(session.url, RulesOf(l))}
  BY <1>1, AnswerSays, Zenon
<1> HIDE DEF decided
<1>4. decided(bypass) \in Answers(u, ProxyUsed(p), l)
  BY <1>2, <1>3
<1> QED BY <1>4 DEF Explained, decided

\* No proxy was found.
LEMMA NoProxyDecided ==
    ASSUME PastIs, NEW i \in DOMAIN past, NEW j \in DOMAIN past, i <= j, NoneNamed(i),
           ProxySeen(i, j, NoProxy), NEW l \in Seen(j, Len(past))
    PROVE  Explained(IF interface # "env" /\ "detect" \in l.ways THEN Evaluate ELSE Direct)
<1>1. PICK u \in Seen(1, i) : session.override.url = NoUrl /\ ~NamesScript(u)
  BY DEF NoneNamed
<1>2. PICK p \in Seen(i, j) : ProxyUsed(p) = NoProxy  BY DEF ProxySeen
<1>3. Answers(u, NoProxy, l) = {IF interface # "env" /\ "detect" \in l.ways THEN Evaluate ELSE Direct}
  BY <1>1, AnswerSays, Zenon
<1>4. (IF interface # "env" /\ "detect" \in l.ways THEN Evaluate ELSE Direct)
        \in Answers(u, ProxyUsed(p), l)
  BY <1>2, <1>3
<1> QED BY <1>4, Zenon DEF Explained

\* The reads of proxy_config_get_auto_config_url.
LEMMA UrlSteps ==
    ASSUME Reading, OverriddenUrl \/ UrlMode \/ UrlKey \/ Url
    PROVE  Goes
<1> DEFINE n == Len(past)
<1>1. /\ KdeFilesRecord /\ Place /\ PastIs /\ Stage(pc, got) /\ Answered(answer)
      /\ (pc \notin {"script", "done"} => answer = NotYet)
  BY Zenon DEF Reading
<1>2. /\ n \in Nat \ {0} /\ DOMAIN past = 1 .. n /\ n \in DOMAIN past /\ n <= n
      /\ 1 \in DOMAIN past /\ past[n] = settings /\ settings \in SettingsOf(session)
  BY <1>1, Moments
<1>3. Now \in Seen(1, n) /\ Now.ways = Basis(settings).ways  BY <1>1, <1>2, NowSeen
<1>4. ASSUME NEW u \in Seen(1, n), ~NamesScript(u), session.override.url = NoUrl,
             pc' = "proxy", got' = Unread
      PROVE  Stage(pc', got')
  <2>1. NoneNamed(n)  BY <1>4 DEF NoneNamed
  <2>2. \E i \in DOMAIN past : NoneNamed(i)  BY <1>2, <2>1
  <2> QED BY <1>4, <2>2 DEF Stage
<1>5. ASSUME NEW u \in Seen(1, n), session.override.url # NoUrl \/ NamesScript(u),
             pc' = "script", answer' = Evaluate
      PROVE  Goes
  <2>1. Explained(answer')  BY <1>1, <1>5, ScriptNamed
  <2>2. Stage(pc', got')  BY <1>5 DEF Stage
  <2> QED BY <2>1, <2>2 DEF Goes, Answered
<1>6. ASSUME answer' = answer, pc \notin {"script", "done"} PROVE Answered(answer')
  BY <1>1, <1>6 DEF Answered
<1>7. CASE OverriddenUrl
  <2>1. pc' = "script" /\ answer' = Evaluate /\ session.override.url # NoUrl
    BY <1>7 DEF OverriddenUrl, NeedScript
  <2> QED BY <1>3, <1>5, <2>1
<1>8. CASE UrlMode
  <2>1. /\ pc = "url" /\ session.override.url = NoUrl /\ interface \in Gnome
        /\ got' = got /\ answer' = answer
        /\ pc' = IF IsMode("detect") THEN "autoconfig" ELSE "proxy"
    BY <1>8 DEF UrlMode, GoOn
  <2>2. got' = Unread  BY <1>1, <2>1 DEF Stage
  <2>3. (IsMode("detect") <=> "detect" \in settings.ways) /\ Now.ways = settings.ways
    BY <1>1, <1>2, <1>3, <2>1, ModeIs
  <2>4. CASE IsMode("detect")
    <3>1. \E a \in DOMAIN past : "detect" \in past[a].ways  BY <1>2, <2>3, <2>4
    <3>2. Stage(pc', got')  BY <2>1, <2>2, <2>4, <3>1 DEF Stage
    <3> QED BY <1>6, <2>1, <3>2 DEF Goes
  <2>5. CASE ~IsMode("detect")
    <3>1. ~NamesScript(Now)  BY <2>1, <2>3, <2>5, Zenon DEF NamesScript
    <3> QED BY <1>3, <1>4, <1>6, <2>1, <2>2, <2>5, <3>1 DEF Goes
  <2> QED BY <2>4, <2>5
<1>9. CASE UrlKey
  <2>1. /\ pc = "autoconfig" /\ got' = got
        /\ IF settings.url # NoUrl THEN pc' = "script" /\ answer' = Evaluate
                                   ELSE pc' = "proxy" /\ answer' = answer
    BY <1>9 DEF UrlKey, NeedScript, GoOn
  <2>2. /\ got' = Unread /\ interface \in Gnome /\ session.override.url = NoUrl
        /\ \E a \in DOMAIN past : "detect" \in past[a].ways
    BY <1>1, <2>1 DEF Stage
  <2>3. PICK a \in DOMAIN past : "detect" \in past[a].ways  BY <2>2
  <2> DEFINE u == Torn(a, n, n, n)
  <2>4. u.url = settings.url /\ u.ways = past[a].ways  BY <1>2 DEF Torn
  <2>5. u \in Seen(1, n)
    <3>1. 1 \in Nat /\ n \in Nat /\ a \in 1 .. n /\ n \in a .. n /\ n \in n .. n  BY <1>2
    <3> QED BY <2>2, <3>1, SeenGnome
  <2> HIDE DEF u
  <2>6. interface # "env"  BY <2>2 DEF Gnome
  <2>7. NamesScript(u) <=> settings.url # NoUrl
    BY <2>2, <2>3, <2>4, <2>6, Zenon DEF NamesScript
  <2>8. CASE settings.url # NoUrl  BY <1>5, <2>1, <2>5, <2>7, <2>8
  <2>9. CASE settings.url = NoUrl  BY <1>4, <1>6, <2>1, <2>2, <2>5, <2>7, <2>9 DEF Goes
  <2> QED BY <2>8, <2>9
<1>10. CASE Url
  <2>1. /\ pc = "url" /\ session.override.url = NoUrl /\ interface \notin Gnome /\ got' = got
        /\ IF AutoConfigUrl(interface, settings, file) # NoUrl
           THEN pc' = "script" /\ answer' = Evaluate ELSE pc' = "proxy" /\ answer' = answer
    BY <1>10 DEF Url, NeedScript, GoOn
  <2>2. got' = Unread  BY <1>1, <2>1 DEF Stage
  <2>3. Now = Basis(settings)  BY <2>1 DEF Now
  <2>4. AutoConfigUrl(interface, settings, file) # NoUrl <=> NamesScript(Now)
    BY <1>1, <2>1, <2>3, UrlIsRead
  <2>5. CASE NamesScript(Now)  BY <1>3, <1>5, <2>1, <2>4, <2>5
  <2>6. CASE ~NamesScript(Now)  BY <1>3, <1>4, <1>6, <2>1, <2>2, <2>4, <2>6 DEF Goes
  <2> QED BY <2>5, <2>6
<1> QED BY <1>7, <1>8, <1>9, <1>10

\* An override is the proxy that is used.
LEMMA OverrideUsed ==
    ASSUME session.override.proxy # NoProxy, NEW s
    PROVE  ProxyUsed(s) = session.override.proxy
<1>1. ~NotListed(s)  BY Zenon DEF NotListed
<1>2. ProxyFor(s) = session.override.proxy  BY Zenon DEF ProxyFor
<1> QED BY <1>1, <1>2, ProxyUsedSays

\* What the keys of GNOME give, read at these moments.
LEMMA KeysRead ==
    ASSUME PastIs, ByHand, NEW i \in DOMAIN past, NEW a \in DOMAIN past, NEW b \in DOMAIN past,
           NEW c \in DOMAIN past, i <= a, a <= b, b <= c, Manual(a)
    PROVE  ProxySeen(i, Len(past),
                     IF past[c].host[KeyFor(past[b])] = NoHost THEN NoProxy
                     ELSE [host |-> past[c].host[KeyFor(past[b])],
                           port |-> settings.port[KeyFor(past[b])]])
<1> DEFINE n == Len(past)
           p == Torn(a, b, c, n)
           key == KeyFor(past[b])
<1>1. /\ n \in Nat \ {0} /\ DOMAIN past = 1 .. n /\ past[n] = settings
  BY Moments
<1>2. p \in Seen(i, n)
  <2>1. i \in Nat /\ n \in Nat /\ a \in i .. n /\ b \in a .. n /\ c \in b .. n /\ n \in c .. n
    BY <1>1
  <2> QED BY <2>1, SeenGnome DEF ByHand
<1>3. /\ p.ways = past[a].ways /\ p.same = past[b].same /\ p.host = past[c].host
      /\ p.port = settings.port
  BY <1>1 DEF Torn
<1> HIDE DEF p
<1>4. KeyFor(p) = key  BY <1>3, Zenon DEF KeyFor
<1>5. ProxyUsed(p) = ProxyOf(p, key)
  <2>1. interface # "win" /\ interface \in Gnome /\ session.override.proxy = NoProxy
    BY DEF ByHand, Gnome
  <2>2. "manual" \in p.ways  BY <1>3 DEF Manual
  <2> HIDE DEF key
  <2> QED BY <1>4, <2>1, <2>2, ProxyRead
<1> HIDE DEF key
<1>6. ProxyOf(p, key) = IF past[c].host[key] = NoHost THEN NoProxy
                        ELSE [host |-> past[c].host[key], port |-> settings.port[key]]
  BY <1>3, Zenon DEF ProxyOf
<1> QED BY <1>2, <1>5, <1>6 DEF ProxySeen, key

\* The reads of proxy_config_get_proxy.
LEMMA ProxySteps ==
    ASSUME Reading,
           OverriddenProxy \/ ProxyMode \/ SameKey \/ HostKey \/ PortKey \/ GetProxy
    PROVE  Goes
<1> DEFINE n == Len(past)
<1>1. /\ KdeFilesRecord /\ Place /\ PastIs /\ Stage(pc, got) /\ Answered(answer)
      /\ (pc \notin {"script", "done"} => answer = NotYet)
  BY Zenon DEF Reading
<1>2. /\ n \in Nat \ {0} /\ DOMAIN past = 1 .. n /\ n \in DOMAIN past /\ n <= n
      /\ past[n] = settings /\ settings \in SettingsOf(session)
      /\ \A k \in DOMAIN past : k <= n
  BY <1>1, Moments
<1>3. ASSUME answer' = answer, pc \notin {"script", "done"} PROVE Answered(answer')
  BY <1>1, <1>3 DEF Answered
<1>4. ASSUME NEW i \in DOMAIN past, NoneNamed(i), NEW proxy, ProxySeen(i, n, proxy),
             got'.proxy = proxy, pc' = IF proxy # NoProxy THEN "list" ELSE "detect"
      PROVE  Stage(pc', got')
  <2>1. \E k, j \in DOMAIN past : k <= j /\ NoneNamed(k) /\ ProxySeen(k, j, proxy)
    BY <1>2, <1>4
  <2>2. CASE proxy # NoProxy  BY <1>4, <2>1, <2>2 DEF Stage
  <2>3. CASE proxy = NoProxy  BY <1>4, <2>1, <2>3 DEF Stage
  <2> QED BY <2>2, <2>3
<1>5. CASE OverriddenProxy
  <2> DEFINE proxy == session.override.proxy
  <2>1. /\ pc = "proxy" /\ proxy # NoProxy /\ got' = [got EXCEPT !.proxy = proxy]
        /\ pc' = (IF proxy # NoProxy THEN "list" ELSE "detect") /\ answer' = answer
    BY <1>5 DEF OverriddenProxy, Found, GoOn
  <2>2. got = Unread /\ \E i \in DOMAIN past : NoneNamed(i)  BY <1>1, <2>1 DEF Stage
  <2>3. PICK i \in DOMAIN past : NoneNamed(i)  BY <2>2
  <2> HIDE DEF proxy
  <2>4. got'.proxy = proxy  BY <2>1, <2>2 DEF Unread
  <2>5. ProxySeen(i, n, proxy)  BY <1>1, <2>1, NowSeen, OverrideUsed DEF ProxySeen, proxy
  <2>6. Stage(pc', got')  BY <1>4, <2>1, <2>3, <2>4, <2>5
  <2> QED BY <1>3, <2>1, <2>6 DEF Goes
<1>6. CASE ProxyMode
  <2>1. /\ pc = "proxy" /\ session.override.proxy = NoProxy /\ interface \in Gnome
        /\ got' = got /\ answer' = answer
        /\ pc' = CASE ~IsMode("manual") -> "detect"
                   [] IsMode("manual") /\ interface = "gnome3" -> "same"
                   [] IsMode("manual") /\ interface = "gnome2" -> "host"
    BY <1>6, Zenon DEF ProxyMode, GoOn
  <2>2. got' = Unread /\ \E i \in DOMAIN past : NoneNamed(i)  BY <1>1, <2>1 DEF Stage
  <2>3. PICK i \in DOMAIN past : NoneNamed(i)  BY <2>2
  <2>4. (IsMode("manual") <=> "manual" \in settings.ways) /\ Basis(settings) = settings
    BY <1>1, <1>2, <2>1, ModeIs
  <2>5. i <= n  BY <1>2
  <2>6. CASE ~IsMode("manual")
    <3>1. pc' = "detect"  BY <2>1, <2>6
    <3>2. Now \in Seen(i, n) /\ "manual" \notin Now.ways  BY <1>1, <2>4, <2>6, NowSeen
    <3>3. interface # "win"  BY <2>1 DEF Gnome
    <3>4. ProxyUsed(Now) = NoProxy  BY <2>1, <3>2, <3>3, ProxyRead
    <3>5. \E k, j \in DOMAIN past : k <= j /\ NoneNamed(k) /\ ProxySeen(k, j, NoProxy)
      BY <1>2, <2>3, <2>5, <3>2, <3>4 DEF ProxySeen
    <3>6. Stage(pc', got')  BY <3>1, <3>5 DEF Stage
    <3> QED BY <1>3, <2>1, <3>6 DEF Goes
  <2>7. CASE IsMode("manual") /\ interface = "gnome3"
    <3>1. pc' = "same"  BY <2>1, <2>7
    <3>2. Manual(n)  BY <1>2, <2>4, <2>7 DEF Manual
    <3>3. \E k, a \in DOMAIN past : k <= a /\ NoneNamed(k) /\ Manual(a)
      BY <1>2, <2>3, <2>5, <3>2
    <3>4. ByHand  BY <2>1 DEF ByHand
    <3>5. Stage(pc', got')  BY <2>2, <2>7, <3>1, <3>3, <3>4 DEF Stage
    <3> QED BY <1>3, <2>1, <3>5 DEF Goes
  <2>8. CASE IsMode("manual") /\ interface = "gnome2"
    <3>1. pc' = "host"  BY <2>1, <2>8
    <3>2. Manual(n)  BY <1>2, <2>4, <2>8 DEF Manual
    <3>3. KeyFor(past[n]) = session.url.scheme  BY <2>8 DEF KeyFor
    <3>4. \E k, a, b \in DOMAIN past :
              /\ k <= a /\ a <= b /\ NoneNamed(k) /\ Manual(a)
              /\ got' = [key |-> KeyFor(past[b]), proxy |-> NoProxy]
      BY <1>2, <2>2, <2>3, <2>5, <3>2, <3>3 DEF Unread
    <3>5. ByHand  BY <2>1 DEF ByHand
    <3>6. Stage(pc', got')  BY <3>1, <3>4, <3>5 DEF Stage
    <3> QED BY <1>3, <2>1, <3>6 DEF Goes
  <2> QED BY <2>1, <2>6, <2>7, <2>8 DEF Gnome
<1>7. CASE SameKey
  <2>1. /\ pc = "same" /\ pc' = "host" /\ answer' = answer
        /\ got' = [got EXCEPT !.key = IF settings.same THEN "http" ELSE @]
    BY <1>7 DEF SameKey, GoOn
  <2>2. /\ got = Unread /\ ByHand /\ interface = "gnome3"
        /\ \E i, a \in DOMAIN past : i <= a /\ NoneNamed(i) /\ Manual(a)
    BY <1>1, <2>1 DEF Stage
  <2>3. KeyFor(past[n]) = IF settings.same THEN "http" ELSE session.url.scheme
    BY <1>2, <2>2, Zenon DEF KeyFor
  <2>4. got' = [key |-> KeyFor(past[n]), proxy |-> NoProxy]
    BY <2>1, <2>2, <2>3 DEF Unread
  <2>5. \E i, a, b \in DOMAIN past :
            /\ i <= a /\ a <= b /\ NoneNamed(i) /\ Manual(a)
            /\ got' = [key |-> KeyFor(past[b]), proxy |-> NoProxy]
    BY <1>2, <2>2, <2>4
  <2>6. Stage(pc', got')  BY <2>1, <2>2, <2>5 DEF Stage
  <2> QED BY <1>3, <2>1, <2>6 DEF Goes
<1>8. CASE HostKey
  <2>1. /\ pc = "host" /\ answer' = answer
        /\ got' = [got EXCEPT !.proxy.host = settings.host[got.key]]
        /\ pc' = IF settings.host[got.key] # NoHost THEN "port" ELSE "detect"
    BY <1>8 DEF HostKey, GoOn
  <2>2. /\ ByHand
        /\ \E i, a, b \in DOMAIN past :
              /\ i <= a /\ a <= b /\ NoneNamed(i) /\ Manual(a)
              /\ got = [key |-> KeyFor(past[b]), proxy |-> NoProxy]
    BY <1>1, <2>1 DEF Stage
  <2>3. PICK i \in DOMAIN past, a \in DOMAIN past, b \in DOMAIN past :
            /\ i <= a /\ a <= b /\ NoneNamed(i) /\ Manual(a)
            /\ got = [key |-> KeyFor(past[b]), proxy |-> NoProxy]
    BY <2>2
  <2> DEFINE key == KeyFor(past[b])
             host == settings.host[key]
  <2>4. got = [key |-> key, proxy |-> [host |-> NoHost, port |-> 0]]  BY <2>3 DEF NoProxy
  <2> HIDE DEF key
  <2>5. got.key = key  BY <2>4
  <2>6. got' = [key |-> key, proxy |-> [host |-> host, port |-> 0]]
    <3>1. got' = [got EXCEPT !.proxy.host = host]  BY <2>1, <2>5
    <3> HIDE DEF host
    <3> QED BY <2>4, <3>1
  <2>7. CASE host # NoHost
    <3>1. pc' = "port"  BY <2>1, <2>5, <2>7
    <3>2. past[n].host[KeyFor(past[b])] = host  BY <1>2 DEF key
    <3>3. \E k, x, y, c \in DOMAIN past :
              /\ k <= x /\ x <= y /\ y <= c /\ NoneNamed(k) /\ Manual(x)
              /\ past[c].host[KeyFor(past[y])] # NoHost
              /\ got' = [key |-> KeyFor(past[y]),
                         proxy |-> [host |-> past[c].host[KeyFor(past[y])], port |-> 0]]
      <4>1. b <= n /\ n \in DOMAIN past  BY <1>2
      <4>2. got' = [key |-> KeyFor(past[b]),
                    proxy |-> [host |-> past[n].host[KeyFor(past[b])], port |-> 0]]
        BY <2>6, <3>2 DEF key
      <4> HIDE DEF host
      <4> QED BY <2>3, <2>7, <3>2, <4>1, <4>2
    <3>4. Stage(pc', got')  BY <2>2, <3>1, <3>3 DEF Stage
    <3> QED BY <1>3, <2>1, <3>4 DEF Goes
  <2>8. CASE host = NoHost
    <3>1. pc' = "detect"  BY <2>1, <2>5, <2>8
    <3>2. past[n].host[KeyFor(past[b])] = NoHost  BY <1>2, <2>8 DEF key
    <3>3. ProxySeen(i, n, NoProxy)
      <4>1. b <= n  BY <1>2
      <4> QED BY <1>1, <1>2, <2>2, <2>3, <3>2, <4>1, KeysRead
    <3>4. \E k, j \in DOMAIN past : k <= j /\ NoneNamed(k) /\ ProxySeen(k, j, NoProxy)
      BY <1>2, <2>3, <3>3
    <3>5. Stage(pc', got')  BY <3>1, <3>4 DEF Stage
    <3> QED BY <1>3, <2>1, <3>5 DEF Goes
  <2> QED BY <2>7, <2>8
<1>9. CASE PortKey
  <2>1. /\ pc = "port" /\ pc' = "list" /\ answer' = answer
        /\ got' = [got EXCEPT !.proxy.port = settings.port[got.key]]
    BY <1>9 DEF PortKey, GoOn
  <2>2. /\ ByHand
        /\ \E i, a, b, c \in DOMAIN past :
              /\ i <= a /\ a <= b /\ b <= c /\ NoneNamed(i) /\ Manual(a)
              /\ past[c].host[KeyFor(past[b])] # NoHost
              /\ got = [key |-> KeyFor(past[b]),
                        proxy |-> [host |-> past[c].host[KeyFor(past[b])], port |-> 0]]
    BY <1>1, <2>1 DEF Stage
  <2>3. PICK i \in DOMAIN past, a \in DOMAIN past, b \in DOMAIN past, c \in DOMAIN past :
            /\ i <= a /\ a <= b /\ b <= c /\ NoneNamed(i) /\ Manual(a)
            /\ past[c].host[KeyFor(past[b])] # NoHost
            /\ got = [key |-> KeyFor(past[b]),
                      proxy |-> [host |-> past[c].host[KeyFor(past[b])], port |-> 0]]
    BY <2>2
  <2> DEFINE key == KeyFor(past[b])
             host == past[c].host[key]
             proxy == [host |-> host, port |-> settings.port[key]]
  <2>4. ProxySeen(i, n, proxy)  BY <1>1, <2>2, <2>3, KeysRead
  <2> HIDE DEF key, host
  <2>5. got = [key |-> key, proxy |-> [host |-> host, port |-> 0]] /\ host # NoHost
    BY <2>3 DEF key, host
  <2>6. got'.proxy = proxy  BY <2>1, <2>5
  <2>7. proxy # NoProxy  BY <2>5 DEF NoProxy
  <2> HIDE DEF proxy
  <2>8. Stage(pc', got')  BY <1>4, <2>1, <2>3, <2>4, <2>6, <2>7
  <2> QED BY <1>3, <2>1, <2>8 DEF Goes
<1>10. CASE GetProxy
  <2> DEFINE proxy == Proxy(interface, settings, file, session.url.scheme)
  <2>1. /\ pc = "proxy" /\ session.override.proxy = NoProxy /\ interface \notin Gnome
        /\ got' = [got EXCEPT !.proxy = proxy]
        /\ pc' = (IF proxy # NoProxy THEN "list" ELSE "detect") /\ answer' = answer
    BY <1>10 DEF GetProxy, Found, GoOn
  <2>2. got = Unread /\ \E i \in DOMAIN past : NoneNamed(i)  BY <1>1, <2>1 DEF Stage
  <2>3. PICK i \in DOMAIN past : NoneNamed(i)  BY <2>2
  <2>4. proxy = ProxyUsed(Now)  BY <1>1, <1>2, <2>1, ProxyIsRead DEF Now
  <2> HIDE DEF proxy
  <2>5. got'.proxy = proxy  BY <2>1, <2>2 DEF Unread
  <2>6. ProxySeen(i, n, proxy)  BY <1>1, <2>4, NowSeen DEF ProxySeen
  <2>7. Stage(pc', got')  BY <1>4, <2>1, <2>3, <2>5, <2>6
  <2> QED BY <1>3, <2>1, <2>7 DEF Goes
<1> QED BY <1>5, <1>6, <1>7, <1>8, <1>9, <1>10

\* The list that is read at present.
LEMMA ListNow ==
    ASSUME NEW symbols, HostsListed(symbols), KdeFilesRecord, Place, PastIs,
           session.override.list = NoList
    PROVE  /\ interface \notin Gnome => RulesOf(Now) = BypassList(interface, settings, file)
           /\ interface \in Gnome /\ "manual" \notin settings.ways => RulesOf(Now) = NoList
<1>1. settings \in SettingsOf(session) /\ past[Len(past)] = settings  BY Moments
<1>2. CASE interface \notin Gnome
  <2>1. Now = Basis(settings)  BY <1>2 DEF Now
  <2> QED BY <1>1, <1>2, <2>1, ListIsRead
<1>3. CASE interface \in Gnome
  <2>1. Now.ways = settings.ways  BY <1>1, <1>3 DEF Now, Torn
  <2>2. CASE "manual" \notin settings.ways
    <3>1. PICK local : local = (IF interface = "mac" /\ Now.simple THEN << <<"<local>">> >> ELSE <<>>)
      OBVIOUS
    <3>2. PICK rules : rules = local \o NonEmpty(Now.ignore)  OBVIOUS
    <3>3. RulesOf(Now) = NoList  BY <1>3, <2>1, <2>2, <3>1, <3>2, RulesOfSays
    <3> QED BY <1>3, <3>3
  <2>3. CASE "manual" \in settings.ways  BY <1>3, <2>3
  <2> QED BY <2>2, <2>3
<1> QED BY <1>2, <1>3

\* The hosts that GNOME ignores, with the mode of moment a.
LEMMA IgnoreRead ==
    ASSUME NEW symbols, HostsListed(symbols), Place, PastIs, interface \in Gnome,
           session.override.list = NoList,
           NEW j \in DOMAIN past, NEW a \in DOMAIN past, j <= a, Manual(a)
    PROVE  \E l \in Seen(j, Len(past)) :
               RulesOf(l) = IF interface = "gnome3" THEN Gnome3Ignored(settings.ignore)
                            ELSE Gnome2Ignored(settings.ignore)
<1> DEFINE n == Len(past)
           l == Torn(a, n, n, n)
<1>1. /\ n \in Nat \ {0} /\ DOMAIN past = 1 .. n /\ past[n] = settings
      /\ settings \in SettingsOf(session)
  BY Moments
<1>2. l \in Seen(j, n)
  <2>1. j \in Nat /\ n \in Nat /\ a \in j .. n /\ n \in a .. n /\ n \in n .. n  BY <1>1
  <2> QED BY <2>1, SeenGnome
<1>3. l.ways = past[a].ways /\ l.ignore = settings.ignore  BY <1>1 DEF Torn
<1> HIDE DEF l
<1>4. "manual" \in l.ways  BY <1>3 DEF Manual
<1> DEFINE S == symbols \cup SpecialRules
<1>5. /\ Comma \notin S /\ "<local>" \in S /\ l.ignore \in Seq(Seq(S))
      /\ interface = "gnome2" \/ \A i \in DOMAIN l.ignore : l.ignore[i] # <<>>
  BY <1>1, <1>3, IgnoreTyped
<1> HIDE DEF S
<1>6. /\ interface = "gnome2" => RulesOf(l) = Gnome2Ignored(l.ignore)
      /\ interface = "gnome3" => RulesOf(l) = Gnome3Ignored(l.ignore)
  BY <1>4, <1>5, RulesRead
<1>7. interface = "gnome2" \/ interface = "gnome3"  BY DEF Gnome
<1> QED BY <1>2, <1>3, <1>6, <1>7

\* An override is the list that is used.
LEMMA OverrideListed ==
    ASSUME session.override.list # NoList, NEW s
    PROVE  RulesOf(s) = session.override.list
BY Zenon DEF RulesOf

\* The reads of proxy_config_get_bypass_list and of proxy_config_get_auto_discover, and the
\* list of a script.
LEMMA LastSteps ==
    ASSUME NEW symbols, HostsListed(symbols), Reading,
           OverriddenList \/ ListMode \/ IgnoreKey \/ List \/ Detect \/ Script \/ WinScript
    PROVE  Goes
<1> DEFINE n == Len(past)
<1>1. /\ KdeFilesRecord /\ Place /\ PastIs /\ Stage(pc, got) /\ Answered(answer)
      /\ (pc \notin {"script", "done"} => answer = NotYet)
  BY Zenon DEF Reading
<1>2. /\ n \in Nat \ {0} /\ DOMAIN past = 1 .. n /\ n \in DOMAIN past /\ n <= n
      /\ past[n] = settings /\ settings \in SettingsOf(session)
      /\ \A k \in DOMAIN past : k <= n
  BY <1>1, Moments
<1>3. pc' = "done" => Stage(pc', got')  BY DEF Stage
<1>4. ASSUME NEW list, Decide(list), NEW i \in DOMAIN past, NEW j \in DOMAIN past, i <= j,
             NoneNamed(i), got.proxy # NoProxy, ProxySeen(i, j, got.proxy),
             NEW l \in Seen(j, n), RulesOf(l) = list
      PROVE  Goes
  <2>1. PICK bypass \in Bypasses(session.url, list) :
            pc' = "done" /\ answer' = IF bypass THEN Direct ELSE Through(got.proxy)
    BY <1>4, Zenon DEF Decide, Finish
  <2>2. bypass \in Bypasses(session.url, RulesOf(l))  BY <1>4, <2>1
  <2>3. Explained(IF bypass THEN Direct ELSE Through(got.proxy))
    BY <1>1, <1>4, <2>2, ProxyDecided
  <2> QED BY <1>3, <2>1, <2>3, Zenon DEF Goes, Answered
<1>5. pc = "list" => /\ got.proxy # NoProxy
                     /\ \E i, j \in DOMAIN past :
                           i <= j /\ NoneNamed(i) /\ ProxySeen(i, j, got.proxy)
  BY <1>1 DEF Stage
<1>6. CASE OverriddenList
  <2>1. pc = "list" /\ session.override.list # NoList /\ Decide(session.override.list)
    BY <1>6 DEF OverriddenList
  <2>2. PICK i \in DOMAIN past, j \in DOMAIN past :
            i <= j /\ NoneNamed(i) /\ ProxySeen(i, j, got.proxy)
    BY <1>5, <2>1
  <2>3. Now \in Seen(j, n)  BY <1>1, NowSeen
  <2>4. RulesOf(Now) = session.override.list  BY <2>1, OverrideListed
  <2> QED BY <1>4, <1>5, <2>1, <2>2, <2>3, <2>4
<1>7. CASE ListMode
  <2>1. /\ pc = "list" /\ session.override.list = NoList /\ interface \in Gnome
        /\ IF IsMode("manual") THEN pc' = "ignore" /\ answer' = answer /\ got' = got
           ELSE Decide(NoList)
    BY <1>7, Zenon DEF ListMode, GoOn
  <2>2. PICK i \in DOMAIN past, j \in DOMAIN past :
            i <= j /\ NoneNamed(i) /\ ProxySeen(i, j, got.proxy)
    BY <1>5, <2>1
  <2>3. IsMode("manual") <=> "manual" \in settings.ways  BY <1>1, <1>2, <2>1, ModeIs
  <2>4. CASE IsMode("manual")
    <3>1. Manual(n)  BY <1>2, <2>3, <2>4 DEF Manual
    <3>2. \E k, x, a \in DOMAIN past :
              /\ k <= x /\ x <= a /\ NoneNamed(k) /\ ProxySeen(k, x, got'.proxy) /\ Manual(a)
      BY <1>2, <2>1, <2>2, <2>4, <3>1
    <3>3. Stage(pc', got')  BY <1>5, <2>1, <2>4, <3>2 DEF Stage
    <3>4. Answered(answer')  BY <1>1, <2>1, <2>4 DEF Answered
    <3> QED BY <3>3, <3>4 DEF Goes
  <2>5. CASE ~IsMode("manual")
    <3>1. Now \in Seen(j, n) /\ RulesOf(Now) = NoList
      BY <1>1, <2>1, <2>3, <2>5, NowSeen, ListNow
    <3> QED BY <1>4, <1>5, <2>1, <2>2, <2>5, <3>1
  <2> QED BY <2>4, <2>5
<1>8. CASE IgnoreKey
  <2> DEFINE list == IF interface = "gnome3" THEN Gnome3Ignored(settings.ignore)
                     ELSE Gnome2Ignored(settings.ignore)
  <2>1. pc = "ignore" /\ Decide(list)  BY <1>8, Zenon DEF IgnoreKey
  <2>2. /\ got.proxy # NoProxy /\ interface \in Gnome /\ session.override.list = NoList
        /\ \E i, j, a \in DOMAIN past :
              /\ i <= j /\ j <= a /\ NoneNamed(i) /\ ProxySeen(i, j, got.proxy) /\ Manual(a)
    BY <1>1, <2>1 DEF Stage
  <2>3. PICK i \in DOMAIN past, j \in DOMAIN past, a \in DOMAIN past :
            /\ i <= j /\ j <= a /\ NoneNamed(i) /\ ProxySeen(i, j, got.proxy) /\ Manual(a)
    BY <2>2
  <2>4. PICK l \in Seen(j, n) : RulesOf(l) = list
    BY <1>1, <2>2, <2>3, IgnoreRead
  <2> HIDE DEF list
  <2> QED BY <1>4, <2>1, <2>2, <2>3, <2>4
<1>9. CASE List
  <2> DEFINE list == BypassList(interface, settings, file)
  <2>1. /\ pc = "list" /\ session.override.list = NoList /\ interface \notin Gnome
        /\ Decide(list)
    BY <1>9, Zenon DEF List
  <2>2. PICK i \in DOMAIN past, j \in DOMAIN past :
            i <= j /\ NoneNamed(i) /\ ProxySeen(i, j, got.proxy)
    BY <1>5, <2>1
  <2>3. Now \in Seen(j, n) /\ RulesOf(Now) = list
    BY <1>1, <2>1, NowSeen, ListNow
  <2> HIDE DEF list
  <2> QED BY <1>4, <1>5, <2>1, <2>2, <2>3
<1>10. CASE Detect
  <2>1. /\ pc = "detect"
        /\ pc' = "done" \/ pc' = "script"
        /\ answer' = IF AutoDiscover(interface, settings, file) THEN Evaluate ELSE Direct
    BY <1>10 DEF Detect, NeedScript, Finish
  <2>2. pc = "detect"  BY <1>10 DEF Detect
  <2>3. PICK i \in DOMAIN past, j \in DOMAIN past :
            i <= j /\ NoneNamed(i) /\ ProxySeen(i, j, NoProxy)
    BY <1>1, <2>2 DEF Stage
  <2>4. Now \in Seen(j, n) /\ Now.ways = Basis(settings).ways  BY <1>1, NowSeen
  <2>5. AutoDiscover(interface, settings, file) <=> interface # "env" /\ "detect" \in Now.ways
    BY <1>1, <2>4, DetectIsRead
  <2>6. Explained(IF interface # "env" /\ "detect" \in Now.ways THEN Evaluate ELSE Direct)
    BY <1>1, <2>3, <2>4, NoProxyDecided
  <2>7. Explained(answer')  BY <2>1, <2>5, <2>6
  <2>8. Stage(pc', got')  BY <2>1 DEF Stage
  <2> QED BY <2>7, <2>8 DEF Goes, Answered
<1>11. CASE Script \/ WinScript
  <2>1. PICK list, text : pc' = "done" /\ answer' = [kind |-> "list", of |-> list, text |-> text]
    BY <1>11, Zenon DEF Script, WinScript, Finish
  <2>2. answer'.kind = "list"  BY <2>1
  <2> QED BY <1>3, <2>1, <2>2 DEF Goes, Answered
<1> QED BY <1>6, <1>7, <1>8, <1>9, <1>10, <1>11

-----------------------------------------------------------------------------
(* A request reads on, asks a script, or is answered.                      *)

\* The reads of a request.
Reads == {"url", "autoconfig", "proxy", "same", "host", "port", "list", "ignore", "detect"}

\* The steps of a request.
Request ==
    \/ OverriddenUrl \/ UrlMode \/ UrlKey \/ Url
    \/ OverriddenProxy \/ ProxyMode \/ SameKey \/ HostKey \/ PortKey \/ GetProxy
    \/ OverriddenList \/ ListMode \/ IgnoreKey \/ List
    \/ Detect \/ Script \/ WinScript

\* A request reads on, asks a script, or is answered.
LEMMA RequestGoesOn ==
    ASSUME Request
    PROVE  /\ session' = session /\ interface' = interface /\ file' = file
           /\ settings' = settings /\ past' = past
           /\ \/ pc \in Reads /\ pc' \in Reads /\ answer' = answer
              \/ pc \in Reads /\ pc' = "script" /\ answer' = Evaluate
              \/ pc' = "done" /\ answer'.kind \in {"direct", "proxy", "list"}
<1> DEFINE on == pc \in Reads /\ pc' \in Reads /\ answer' = answer
           asks == pc \in Reads /\ pc' = "script" /\ answer' = Evaluate
           answered == pc' = "done" /\ answer'.kind \in {"direct", "proxy", "list"}
           moved == on \/ asks \/ answered
<1>1. Keep
  BY Zenon DEF Request, OverriddenUrl, UrlMode, UrlKey, Url, OverriddenProxy, ProxyMode, SameKey,
               HostKey, PortKey, GetProxy, OverriddenList, ListMode, IgnoreKey, List, Detect, Script,
               WinScript
<1>2. ASSUME NEW next \in Reads, pc \in Reads, GoOn(next) PROVE on
  BY <1>2 DEF GoOn
<1>3. ASSUME pc \in Reads, NeedScript PROVE asks
  BY <1>3 DEF NeedScript
<1>4. ASSUME NEW a, a.kind \in {"direct", "proxy", "list"}, Finish(a) PROVE answered
  BY <1>4 DEF Finish
<1>5. ASSUME NEW list, Decide(list) PROVE answered
  <2>1. PICK bypass : Finish(IF bypass THEN Direct ELSE Through(got.proxy))
    BY <1>5, Zenon DEF Decide
  <2>2. CASE bypass
    <3>1. Finish(Direct)  BY <2>1, <2>2, Zenon
    <3> QED BY <1>4, <3>1 DEF Direct
  <2>3. CASE ~bypass
    <3>1. Finish(Through(got.proxy))  BY <2>1, <2>3, Zenon
    <3> QED BY <1>4, <3>1 DEF Through
  <2> QED BY <2>2, <2>3
<1>6. ASSUME NEW proxy, pc \in Reads, Found(proxy) PROVE on
  <2>1. GoOn(IF proxy # NoProxy THEN "list" ELSE "detect")  BY <1>6, Zenon DEF Found
  <2> QED BY <1>6, <2>1 DEF GoOn, Reads
<1> HIDE DEF on, asks, answered
<1>7. {"url", "autoconfig", "proxy", "same", "host", "port", "list", "ignore", "detect"} = Reads
  BY DEF Reads
<1>8. ASSUME OverriddenUrl \/ UrlMode \/ UrlKey \/ Url PROVE moved
  <2>1. pc \in Reads  BY <1>7, <1>8 DEF OverriddenUrl, UrlMode, UrlKey, Url
  <2>2. NeedScript \/ GoOn("autoconfig") \/ GoOn("proxy")
    BY <1>8, Zenon DEF OverriddenUrl, UrlMode, UrlKey, Url
  <2> QED BY <1>2, <1>3, <1>7, <2>1, <2>2
<1>9. ASSUME OverriddenProxy \/ GetProxy PROVE moved
  <2>1. pc \in Reads  BY <1>7, <1>9 DEF OverriddenProxy, GetProxy
  <2>2. \E proxy : Found(proxy)  BY <1>9, Zenon DEF OverriddenProxy, GetProxy
  <2> QED BY <1>6, <2>1, <2>2
<1>10. ASSUME ProxyMode \/ SameKey \/ HostKey \/ PortKey PROVE moved
  <2>1. pc \in Reads  BY <1>7, <1>10 DEF ProxyMode, SameKey, HostKey, PortKey
  <2>2. GoOn("detect") \/ GoOn("same") \/ GoOn("host") \/ GoOn("port") \/ GoOn("list")
    <3>1. CASE SameKey \/ HostKey \/ PortKey  BY <3>1, Zenon DEF SameKey, HostKey, PortKey
    <3>2. CASE ProxyMode
      <4>1. /\ interface \in Gnome
            /\ GoOn(CASE ~IsMode("manual") -> "detect"
                      [] IsMode("manual") /\ interface = "gnome3" -> "same"
                      [] IsMode("manual") /\ interface = "gnome2" -> "host")
        BY <3>2, Zenon DEF ProxyMode
      <4>2. CASE ~IsMode("manual")  BY <4>1, <4>2, Zenon
      <4>3. CASE IsMode("manual") /\ interface = "gnome3"
        <5>1. interface # "gnome2"  BY <4>3
        <5> QED BY <4>1, <4>3, <5>1, Zenon
      <4>4. CASE IsMode("manual") /\ interface = "gnome2"
        <5>1. interface # "gnome3"  BY <4>4
        <5> QED BY <4>1, <4>4, <5>1, Zenon
      <4> QED BY <4>1, <4>2, <4>3, <4>4 DEF Gnome
    <3> QED BY <1>10, <3>1, <3>2
  <2> QED BY <1>2, <1>7, <2>1, <2>2
<1>11. ASSUME OverriddenList \/ IgnoreKey \/ List PROVE moved
  <2>1. \E list : Decide(list)  BY <1>11, Zenon DEF OverriddenList, IgnoreKey, List
  <2> QED BY <1>5, <2>1
<1>12. ASSUME ListMode PROVE moved
  <2>1. pc = "list" /\ IF IsMode("manual") THEN GoOn("ignore") /\ UNCHANGED got ELSE Decide(NoList)
    BY <1>12, Zenon DEF ListMode
  <2>2. CASE IsMode("manual")  BY <1>2, <1>7, <2>1, <2>2
  <2>3. CASE ~IsMode("manual")  BY <1>5, <2>1, <2>3
  <2> QED BY <2>2, <2>3
<1>13. ASSUME Detect PROVE moved
  <2>1. pc = "detect" /\ (NeedScript \/ Finish(Direct))  BY <1>13, Zenon DEF Detect
  <2>2. pc \in Reads /\ Direct.kind = "direct"  BY <1>7, <2>1 DEF Direct
  <2> QED BY <1>3, <1>4, <2>1, <2>2
<1>14. ASSUME Script PROVE moved
  <2>1. PICK list :
            Finish([kind |-> "list", of |-> list, text |-> UriList(list, session.url.scheme)])
    BY <1>14, Zenon DEF Script
  <2> QED BY <1>4, <2>1
<1>15. ASSUME WinScript PROVE moved
  <2>1. PICK list : Finish([kind |-> "list", of |-> list, text |-> WinUriList(list)])
    BY <1>15, Zenon DEF WinScript
  <2> QED BY <1>4, <2>1
<1>16. moved
  BY <1>8, <1>9, <1>10, <1>11, <1>12, <1>13, <1>14, <1>15, Zenon DEF Request
<1> QED BY <1>1, <1>16 DEF Keep, constant, on, asks, answered

-----------------------------------------------------------------------------
(* The invariant.                                                          *)

\* The invariant: what a request has read so far it read at moments that follow each
\* other, and its answer is explained by such moments.
ConfigInv ==
    /\ TypeOK /\ Place /\ PastIs
    /\ pc \in Reads => answer = NotYet
    /\ Stage(pc, got) /\ Answered(answer)

\* The invariant holds before the first read.
LEMMA ConfigInvAtFirst == Init => ConfigInv
<1> SUFFICES ASSUME Init PROVE ConfigInv
  OBVIOUS
<1>1. /\ session \in Sessions /\ settings = session.settings /\ file = KdeFile(session.settings)
      /\ past = <<settings>> /\ pc = "url"
      /\ got = [key |-> session.url.scheme, proxy |-> NoProxy] /\ answer = NotYet
      /\ interface = CASE session.system = "linux" -> Interface(session.env, file)
                       [] session.system = "windows" -> "win"
                       [] session.system = "mac" -> "mac"
  BY Zenon DEF Init
<1>2. Place
  <2>1. session.system \in {"linux", "windows", "mac"}
    BY <1>1, SystemConfigAssumption DEF Systems
  <2>2. CASE session.system = "linux"
    <3>1. session.system # "windows" /\ session.system # "mac"  BY <2>2
    <3> QED BY <1>1, <2>2, <3>1, Zenon DEF Place
  <2>3. CASE session.system = "windows"
    <3>1. session.system # "linux" /\ session.system # "mac"  BY <2>3
    <3> QED BY <1>1, <2>3, <3>1, Zenon DEF Place
  <2>4. CASE session.system = "mac"
    <3>1. session.system # "linux" /\ session.system # "windows"  BY <2>4
    <3> QED BY <1>1, <2>4, <3>1, Zenon DEF Place
  <2> QED BY <2>1, <2>2, <2>3, <2>4
<1>3. past # <<>> /\ past[1] = settings /\ Len(past) = 1  BY <1>1
<1>4. TypeOK  BY <1>1, <1>2, <1>3, InterfaceChosen DEF TypeOK, NotYet, Gnome
<1>5. PastIs
  <2>1. <<settings>> \in Seq(SettingsOf(session))
    <3>1. settings \in SettingsOf(session)  BY <1>1, FirstSettings
    <3> QED BY <3>1
  <2> QED BY <1>1, <1>3, <2>1 DEF PastIs
<1>6. Stage(pc, got)  BY <1>1 DEF Stage, Unread
<1>7. Answered(answer)  BY <1>1 DEF Answered, NotYet
<1> QED BY <1>1, <1>2, <1>4, <1>5, <1>6, <1>7 DEF ConfigInv

\* What the meaning of settings depends on does not change.
LEMMA MeaningStays ==
    ASSUME session' = session, interface' = interface
    PROVE  /\ \A s : (NamesScript(s)' <=> NamesScript(s)) /\ ProxyUsed(s)' = ProxyUsed(s)
                     /\ RulesOf(s)' = RulesOf(s) /\ KeyFor(s)' = KeyFor(s)
           /\ \A u, proxy, l : Answers(u, proxy, l)' = Answers(u, proxy, l)
<1>1. ASSUME NEW s
      PROVE  /\ NamesScript(s)' <=> NamesScript(s)
             /\ RulesOf(s)' = RulesOf(s) /\ KeyFor(s)' = KeyFor(s)
  <2>1. NamesScript(s)' <=> NamesScript(s)  BY Zenon DEF NamesScript
  <2>2. RulesOf(s)' = RulesOf(s)  BY Zenon DEF RulesOf
  <2>3. KeyFor(s)' = KeyFor(s)  BY Zenon DEF KeyFor
  <2> QED BY <2>1, <2>2, <2>3
<1>2. ASSUME NEW s PROVE ProxyUsed(s)' = ProxyUsed(s)
  <2>1. ProxyFor(s)' = ProxyFor(s)  BY Zenon DEF ProxyFor
  <2>2. NotListed(s)' <=> NotListed(s)  BY Zenon DEF NotListed
  <2> QED BY <2>1, <2>2, Zenon DEF ProxyUsed, TheWholeList
<1>3. ASSUME NEW u, NEW proxy, NEW l PROVE Answers(u, proxy, l)' = Answers(u, proxy, l)
  BY <1>1, Zenon DEF Answers, Evaluate, Direct, Through
<1> QED BY <1>1, <1>2, <1>3

\* What was seen between two moments remains so when the user changes the settings.
LEMMA SeenStays ==
    ASSUME PastIs, session' = session, interface' = interface,
           \A k \in DOMAIN past : past'[k] = past[k],
           NEW i \in DOMAIN past, NEW k \in DOMAIN past
    PROVE  Seen(i, k)' = Seen(i, k)
<1>1. Len(past) \in Nat /\ DOMAIN past = 1 .. Len(past)  BY Moments
<1>2. \A m \in i .. k : past'[m] = past[m]  BY <1>1
<1>3. CASE interface = "kde"
  <2>1. interface \notin Gnome  BY <1>3 DEF Gnome
  <2> QED BY <1>3, <2>1, Zenon DEF Seen
<1>4. CASE interface \in Gnome
  <2> DEFINE reads == {m \in [1 .. 4 -> i .. k] : \A x, y \in 1 .. 4 : x <= y => m[x] <= m[y]}
             then(m) == [ways |-> past'[m[1]].ways, url |-> past'[m[2]].url,
                         same |-> past'[m[2]].same, ignore |-> past'[m[2]].ignore,
                         host |-> past'[m[3]].host, port |-> past'[m[4]].port]
             now(m) == [ways |-> past[m[1]].ways, url |-> past[m[2]].url,
                        same |-> past[m[2]].same, ignore |-> past[m[2]].ignore,
                        host |-> past[m[3]].host, port |-> past[m[4]].port]
  <2>1. interface # "kde"  BY <1>4 DEF Gnome
  <2>2. Seen(i, k) = {now(m) : m \in reads}  BY <1>4, <2>1, Zenon DEF Seen
  <2>3. Seen(i, k)' = {then(m) : m \in reads}  BY <1>4, <2>1, Zenon DEF Seen
  <2>4. ASSUME NEW m \in reads PROVE then(m) = now(m)
    <3>1. m[1] \in i .. k /\ m[2] \in i .. k /\ m[3] \in i .. k /\ m[4] \in i .. k  OBVIOUS
    <3> QED BY <1>2, <3>1
  <2> HIDE DEF reads, then, now
  <2> QED BY <2>2, <2>3, <2>4
<1>5. CASE interface # "kde" /\ interface \notin Gnome
  <2>1. Seen(i, k) = {past[m] : m \in i .. k}  BY <1>5, Zenon DEF Seen
  <2>2. Seen(i, k)' = {past'[m] : m \in i .. k}  BY <1>5, Zenon DEF Seen
  <2> QED BY <1>2, <2>1, <2>2
<1> QED BY <1>3, <1>4, <1>5

\* What the reads have brought remains so.
LEMMA StageStays ==
    ASSUME PastIs, session' = session, interface' = interface,
           \A k \in DOMAIN past : k \in DOMAIN past' /\ past'[k] = past[k],
           Stage(pc', got')
    PROVE  Stage(pc, got)'
<1>1. 1 \in DOMAIN past /\ past' = past'
  <2>1. Len(past) \in Nat \ {0} /\ DOMAIN past = 1 .. Len(past)  BY Moments
  <2> QED BY <2>1
<1>2. ASSUME NEW i \in DOMAIN past PROVE NoneNamed(i) => NoneNamed(i)'
  <2>1. Seen(1, i)' = Seen(1, i)  BY <1>1, SeenStays
  <2>2. \A u : NamesScript(u)' <=> NamesScript(u)  BY MeaningStays
  <2> QED BY <2>1, <2>2 DEF NoneNamed
<1>3. ASSUME NEW i \in DOMAIN past, NEW j \in DOMAIN past
      PROVE  /\ ProxySeen(i, j, got'.proxy) => ProxySeen(i, j, got.proxy)'
             /\ ProxySeen(i, j, NoProxy) => ProxySeen(i, j, NoProxy)'
  <2>1. Seen(i, j)' = Seen(i, j)  BY SeenStays
  <2>2. \A p : ProxyUsed(p)' = ProxyUsed(p)  BY MeaningStays
  <2>3. NoProxy' = NoProxy  BY DEF NoProxy
  <2> QED BY <2>1, <2>2, <2>3 DEF ProxySeen
<1>4. ASSUME NEW a \in DOMAIN past PROVE Manual(a) => Manual(a)'  BY DEF Manual
<1>5. \A s : KeyFor(s)' = KeyFor(s)  BY MeaningStays
<1>6. Unread' = Unread /\ (ByHand' <=> ByHand)  BY DEF Unread, ByHand
<1>7. ASSUME pc' \in {"url", "autoconfig"} PROVE Stage(pc, got)'
  <2>1. got' = Unread /\ (pc' = "autoconfig" =>
            /\ interface \in Gnome /\ session.override.url = NoUrl
            /\ \E a \in DOMAIN past : "detect" \in past[a].ways)
    BY <1>7 DEF Stage
  <2>2. pc' = "autoconfig" => \E a \in DOMAIN past' : "detect" \in past'[a].ways
    BY <2>1
  <2> QED BY <1>6, <1>7, <2>1, <2>2 DEF Stage
<1>8. ASSUME pc' = "proxy" PROVE Stage(pc, got)'
  <2>1. got' = Unread /\ \E i \in DOMAIN past : NoneNamed(i)  BY <1>8 DEF Stage
  <2>2. \E i \in DOMAIN past' : NoneNamed(i)'  BY <1>2, <2>1
  <2> QED BY <1>6, <1>8, <2>1, <2>2 DEF Stage
<1>9. ASSUME pc' = "same" PROVE Stage(pc, got)'
  <2>1. /\ got' = Unread /\ ByHand /\ interface = "gnome3"
        /\ \E i, a \in DOMAIN past : i <= a /\ NoneNamed(i) /\ Manual(a)
    BY <1>9 DEF Stage
  <2>2. \E i, a \in DOMAIN past' : i <= a /\ NoneNamed(i)' /\ Manual(a)'
    BY <1>2, <1>4, <2>1
  <2> QED BY <1>6, <1>9, <2>1, <2>2 DEF Stage
<1>10. ASSUME pc' = "host" PROVE Stage(pc, got)'
  <2>1. /\ ByHand
        /\ \E i, a, b \in DOMAIN past :
              /\ i <= a /\ a <= b /\ NoneNamed(i) /\ Manual(a)
              /\ got' = [key |-> KeyFor(past[b]), proxy |-> NoProxy]
    BY <1>10 DEF Stage
  <2>2. PICK i \in DOMAIN past, a \in DOMAIN past, b \in DOMAIN past :
            /\ i <= a /\ a <= b /\ NoneNamed(i) /\ Manual(a)
            /\ got' = [key |-> KeyFor(past[b]), proxy |-> NoProxy]
    BY <2>1
  <2>3. KeyFor(past[b])' = KeyFor(past[b])
    <3>1. past'[b] = past[b]  OBVIOUS
    <3> QED BY <3>1 DEF KeyFor
  <2>4. \E k, x, y \in DOMAIN past' :
            /\ k <= x /\ x <= y /\ NoneNamed(k)' /\ Manual(x)'
            /\ got' = [key |-> KeyFor(past[y])', proxy |-> NoProxy]
    BY <1>2, <1>4, <2>2, <2>3
  <2> QED BY <1>6, <1>10, <2>1, <2>4 DEF Stage, NoProxy
<1>11. ASSUME pc' = "port" PROVE Stage(pc, got)'
  <2>1. /\ ByHand
        /\ \E i, a, b, c \in DOMAIN past :
              /\ i <= a /\ a <= b /\ b <= c /\ NoneNamed(i) /\ Manual(a)
              /\ past[c].host[KeyFor(past[b])] # NoHost
              /\ got' = [key |-> KeyFor(past[b]),
                         proxy |-> [host |-> past[c].host[KeyFor(past[b])], port |-> 0]]
    BY <1>11 DEF Stage
  <2>2. PICK i \in DOMAIN past, a \in DOMAIN past, b \in DOMAIN past, c \in DOMAIN past :
            /\ i <= a /\ a <= b /\ b <= c /\ NoneNamed(i) /\ Manual(a)
            /\ past[c].host[KeyFor(past[b])] # NoHost
            /\ got' = [key |-> KeyFor(past[b]),
                       proxy |-> [host |-> past[c].host[KeyFor(past[b])], port |-> 0]]
    BY <2>1
  <2>3. KeyFor(past[b])' = KeyFor(past[b])
    <3>1. past'[b] = past[b]  OBVIOUS
    <3> QED BY <3>1 DEF KeyFor
  <2>4. \E k, x, y, z \in DOMAIN past' :
            /\ k <= x /\ x <= y /\ y <= z /\ NoneNamed(k)' /\ Manual(x)'
            /\ past'[z].host[KeyFor(past[y])'] # NoHost
            /\ got' = [key |-> KeyFor(past[y])',
                       proxy |-> [host |-> past'[z].host[KeyFor(past[y])'], port |-> 0]]
    BY <1>2, <1>4, <2>2, <2>3
  <2> QED BY <1>6, <1>11, <2>1, <2>4 DEF Stage
<1>12. ASSUME pc' = "list" PROVE Stage(pc, got)'
  <2>1. /\ got'.proxy # NoProxy
        /\ \E i, j \in DOMAIN past : i <= j /\ NoneNamed(i) /\ ProxySeen(i, j, got'.proxy)
    BY <1>12 DEF Stage
  <2>2. \E i, j \in DOMAIN past' : i <= j /\ NoneNamed(i)' /\ ProxySeen(i, j, got.proxy)'
    BY <1>2, <1>3, <2>1
  <2> QED BY <1>12, <2>1, <2>2 DEF Stage, NoProxy
<1>13. ASSUME pc' = "ignore" PROVE Stage(pc, got)'
  <2>1. /\ got'.proxy # NoProxy /\ interface \in Gnome /\ session.override.list = NoList
        /\ \E i, j, a \in DOMAIN past :
              /\ i <= j /\ j <= a /\ NoneNamed(i) /\ ProxySeen(i, j, got'.proxy) /\ Manual(a)
    BY <1>13 DEF Stage
  <2>2. \E i, j, a \in DOMAIN past' :
            /\ i <= j /\ j <= a /\ NoneNamed(i)' /\ ProxySeen(i, j, got.proxy)' /\ Manual(a)'
    BY <1>2, <1>3, <1>4, <2>1
  <2> QED BY <1>13, <2>1, <2>2 DEF Stage, NoProxy
<1>14. ASSUME pc' = "detect" PROVE Stage(pc, got)'
  <2>1. \E i, j \in DOMAIN past : i <= j /\ NoneNamed(i) /\ ProxySeen(i, j, NoProxy)
    BY <1>14 DEF Stage
  <2>2. \E i, j \in DOMAIN past' : i <= j /\ NoneNamed(i)' /\ ProxySeen(i, j, NoProxy)'
    BY <1>2, <1>3, <2>1
  <2> QED BY <1>14, <2>2 DEF Stage
<1>15. ASSUME pc' \notin Reads PROVE Stage(pc, got)'
  BY <1>15 DEF Stage, Reads
<1> QED BY <1>7, <1>8, <1>9, <1>10, <1>11, <1>12, <1>13, <1>14, <1>15 DEF Reads

\* An answer remains explained.
LEMMA AnsweredStays ==
    ASSUME session' = session, interface' = interface, past' = past, Answered(answer')
    PROVE  Answered(answer)'
<1>1. \A i, k : Seen(i, k)' = Seen(i, k)
  <2>1. ASSUME NEW i, NEW k PROVE Seen(i, k)' = Seen(i, k)  BY Zenon DEF Seen
  <2> QED BY <2>1
<1>2. \A p : ProxyUsed(p)' = ProxyUsed(p)  BY MeaningStays
<1>3. \A s : (NamesScript(s)' <=> NamesScript(s)) /\ RulesOf(s)' = RulesOf(s)
  BY MeaningStays
<1>4. Explained(answer') => Explained(answer)'
  <2>1. SUFFICES ASSUME Explained(answer') PROVE Explained(answer)'
    OBVIOUS
  <2>2. PICK i \in DOMAIN past, j \in DOMAIN past :
            /\ i <= j
            /\ \E u \in Seen(1, i), p \in Seen(i, j), l \in Seen(j, Len(past)) :
                  answer' \in Answers(u, ProxyUsed(p), l)
    BY <2>1 DEF Explained
  <2>3. PICK u \in Seen(1, i), p \in Seen(i, j), l \in Seen(j, Len(past)) :
            answer' \in Answers(u, ProxyUsed(p), l)
    BY <2>2
  <2>4. u \in Seen(1, i)' /\ p \in Seen(i, j)' /\ l \in Seen(j, Len(past))'
    BY <1>1, <2>3 DEF Seen
  <2>5. answer' \in Answers(u, ProxyUsed(p), l)'
    <3>1. Answers(u, ProxyUsed(p), l)' = Answers(u, ProxyUsed(p), l)
      <4>1. (NamesScript(u)' <=> NamesScript(u)) /\ RulesOf(l)' = RulesOf(l)  BY <1>3
      <4>2. ProxyUsed(p)' = ProxyUsed(p)  BY <1>2
      <4>3. CASE session.override.url # NoUrl \/ NamesScript(u)
        BY <4>1, <4>3, Zenon DEF Answers, Evaluate
      <4>4. CASE ~(session.override.url # NoUrl \/ NamesScript(u))
        <5>1. CASE ProxyUsed(p) # NoProxy
          BY <4>1, <4>2, <4>4, <5>1 DEF Answers, Direct, Through, NoProxy
        <5>2. CASE ProxyUsed(p) = NoProxy
          BY <4>1, <4>2, <4>4, <5>2, Zenon DEF Answers, Direct, Evaluate, NoProxy
        <5> QED BY <5>1, <5>2
      <4> QED BY <4>3, <4>4
    <3> QED BY <2>3, <3>1
  <2> QED BY <2>2, <2>4, <2>5 DEF Explained
<1> QED BY <1>4 DEF Answered

\* The user changes the settings: the moments so far remain.
LEMMA ConfigInvChange ==
    ASSUME ConfigInv, Change
    PROVE  ConfigInv'
<1> DEFINE D == SettingsOf(session)
           n == Len(past)
<1>1. /\ pc \notin {"script", "done"}
      /\ settings' \in Changed(session) /\ past' = Append(past, settings')
      /\ session' = session /\ interface' = interface /\ file' = file /\ pc' = pc /\ got' = got
      /\ answer' = answer
  BY DEF Change
<1>2. TypeOK /\ Place /\ PastIs /\ Stage(pc, got) /\ (pc \in Reads => answer = NotYet)
  BY Zenon DEF ConfigInv
<1>3. answer' = NotYet  BY <1>1, <1>2 DEF TypeOK, Reads
<1>4. settings' \in D  BY <1>1 DEF SettingsOf
<1>5. past \in Seq(D) /\ past[1] = session.settings /\ n \in Nat \ {0} /\ DOMAIN past = 1 .. n
  BY <1>2, Moments DEF PastIs
<1>6. D' = D  BY <1>1 DEF SettingsOf
<1> HIDE DEF D
<1>7. /\ past' \in Seq(D) /\ past' # <<>> /\ past'[1] = session.settings
      /\ past'[Len(past')] = settings'
      /\ \A k \in DOMAIN past : k \in DOMAIN past' /\ past'[k] = past[k]
  BY <1>1, <1>4, <1>5
<1>8. PastIs'  BY <1>1, <1>6, <1>7 DEF PastIs, D
<1>9. Place'  BY <1>1, <1>2, Zenon DEF Place
<1>10. TypeOK'  BY <1>1, <1>2, <1>7 DEF TypeOK
<1>11. Stage(pc, got)'
  <2>1. Stage(pc', got')  BY <1>1, <1>2
  <2> QED BY <1>1, <1>2, <1>7, <2>1, StageStays
<1>12. Answered(answer)'  BY <1>3 DEF Answered, NotYet
<1>13. (pc \in Reads => answer = NotYet)'  BY <1>3 DEF NotYet
<1> QED BY <1>8, <1>9, <1>10, <1>11, <1>12, <1>13 DEF ConfigInv

\* A step that leaves the past as it is.
LEMMA ConfigInvStep ==
    ASSUME ConfigInv, Goes, session' = session, interface' = interface, file' = file,
           settings' = settings, past' = past,
           \/ pc \in Reads /\ pc' \in Reads /\ answer' = answer
           \/ pc \in Reads /\ pc' = "script" /\ answer' = Evaluate
           \/ pc' = "done" /\ answer'.kind \in {"direct", "proxy", "list"}
           \/ pc' = pc /\ answer' = answer
    PROVE  ConfigInv'
<1>1. TypeOK /\ Place /\ PastIs /\ (pc \in Reads => answer = NotYet)
  BY Zenon DEF ConfigInv
<1>2. TypeOK'  BY <1>1 DEF TypeOK, Reads, Evaluate
<1>3. Place'  BY <1>1, Zenon DEF Place
<1>4. PastIs'  BY <1>1, Zenon DEF PastIs, SettingsOf
<1>5. (pc \in Reads => answer = NotYet)'
  <2>1. pc' \in Reads => answer' = NotYet  BY <1>1 DEF Reads
  <2> QED BY <2>1 DEF NotYet, Reads
<1>6. Stage(pc, got)'  BY <1>1, StageStays DEF Goes
<1>7. Answered(answer)'  BY AnsweredStays DEF Goes
<1> QED BY <1>2, <1>3, <1>4, <1>5, <1>6, <1>7 DEF ConfigInv

\* The invariant is one of SystemConfig.
LEMMA ConfigInvHolds ==
    ASSUME NEW symbols, HostsListed(symbols), KdeFilesRecord
    PROVE  Spec => []ConfigInv
<1>1. ASSUME ConfigInv, Request PROVE ConfigInv'
  <2>1. Reading  BY <1>1 DEF ConfigInv, Reading, TypeOK, Reads
  <2>2. Goes
    <3>1. CASE OverriddenUrl \/ UrlMode \/ UrlKey \/ Url  BY <2>1, <3>1, UrlSteps
    <3>2. CASE OverriddenProxy \/ ProxyMode \/ SameKey \/ HostKey \/ PortKey \/ GetProxy
      BY <2>1, <3>2, ProxySteps
    <3>3. CASE OverriddenList \/ ListMode \/ IgnoreKey \/ List \/ Detect \/ Script \/ WinScript
      BY <2>1, <3>3, LastSteps
    <3> QED BY <1>1, <3>1, <3>2, <3>3 DEF Request
  <2> QED BY <1>1, <2>2, RequestGoesOn, ConfigInvStep
<1>2. ASSUME ConfigInv, UNCHANGED vars PROVE ConfigInv'
  <2>1. /\ session' = session /\ interface' = interface /\ file' = file /\ settings' = settings
        /\ past' = past /\ pc' = pc /\ got' = got /\ answer' = answer
    BY <1>2 DEF vars
  <2>2. Goes  BY <1>2, <2>1, Zenon DEF ConfigInv, Goes
  <2> QED BY <1>2, <2>1, <2>2, ConfigInvStep
<1>3. ConfigInv /\ [Next]_vars => ConfigInv'
  <2>1. Next => Change \/ Request  BY Zenon DEF Next, Request
  <2> QED BY <1>1, <1>2, <2>1, ConfigInvChange, Zenon
<1> QED BY <1>3, ConfigInvAtFirst, PTL DEF Spec

\* A request that the user's settings answer has an answer that they give, whatever the
\* interface of the desktop and however often any of the settings change while src/config.c
\* reads them: the url of a script is as it was set by some moment, the proxy as it was set
\* then or later, and its list of hosts, or the discovery, as set then or later still.
THEOREM ConfigCorrect ==
    ASSUME NEW symbols, HostsListed(symbols), KdeFilesRecord
    PROVE  Spec => []ConfigExplained
<1>1. ConfigInv => ConfigExplained
  BY Zenon DEF ConfigInv, ConfigExplained, Answered, Explained
<1> QED BY <1>1, ConfigInvHolds, PTL

-----------------------------------------------------------------------------
(* A list of one rule.                                                     *)

\* The list of rules of settings, if it has one rule.
LEMMA RuleText ==
    ASSUME NEW symbols, HostsListed(symbols), RulesWritten(symbols), Place,
           NEW s \in SettingsOf(session), RulesOf(s) # NoList, OneRule(RulesOf(s))
    PROVE  RulesOf(s) \in Seq(symbols \cup SpecialRules) /\ ByItself(RulesOf(s))
<1> DEFINE S == symbols \cup SpecialRules
           D == {rule \in Seq(S) : ByItself(rule)}
<1>1. session \in Sessions  BY DEF Place
<1>2. /\ session.override.list # NoList /\ OneRule(session.override.list) =>
            session.override.list \in Seq(symbols) /\ ByItself(session.override.list)
      /\ \A i \in DOMAIN s.ignore : s.ignore[i] \in Seq(symbols) /\ ByItself(s.ignore[i])
  BY <1>1, Zenon DEF RulesWritten, OneRule, ByItself
<1>3. CASE session.override.list # NoList
  <2>1. RulesOf(s) = session.override.list  BY <1>3, Zenon DEF RulesOf
  <2>2. session.override.list \in Seq(symbols) /\ ByItself(session.override.list)
    BY <1>2, <1>3, <2>1, Zenon
  <2>3. Seq(symbols) \subseteq Seq(S)  OBVIOUS
  <2> QED BY <2>1, <2>2, <2>3, Zenon
<1>4. CASE session.override.list = NoList
  <2>1. PICK local : local = (IF interface = "mac" /\ s.simple THEN << <<"<local>">> >> ELSE <<>>)
    OBVIOUS
  <2>2. PICK rules : rules = local \o NonEmpty(s.ignore)  OBVIOUS
  <2>3. RulesOf(s) = IF rules = <<>> \/ (interface \in Gnome \cup {"win"} /\ "manual" \notin s.ways)
                     THEN NoList ELSE Front(Separated(rules))
    BY <1>4, <2>1, <2>2, RulesOfSays, Zenon
  <2>4. rules # <<>> /\ RulesOf(s) = Front(Separated(rules))  BY <2>3, Zenon
  <2>5. Comma \notin S /\ "<local>" \in S /\ s.ignore \in Seq(Seq(S))  BY IgnoreTyped
  <2>6. s.ignore \in Seq(D)
    <3>1. PICK E : E = Seq(S)  OBVIOUS
    <3>2. s.ignore \in Seq(E)  BY <2>5, <3>1
    <3>3. \A i \in DOMAIN s.ignore : s.ignore[i] \in E  BY <3>2
    <3>4. \A i \in DOMAIN s.ignore : s.ignore[i] \in D  BY <1>2, <3>1, <3>3
    <3> HIDE DEF D
    <3> QED BY <3>2, <3>4, SeqDef
  <2>7. <<"<local>">> \in D
    <3>1. <<"<local>">> \in Seq(S) /\ Len(<<"<local>">>) = 1  BY <2>5
    <3> QED BY <3>1 DEF ByItself
  <2> HIDE DEF D
  <2>8. NonEmpty(s.ignore) \in Seq(D) /\ \A i \in DOMAIN NonEmpty(s.ignore) : NonEmpty(s.ignore)[i] # <<>>
    BY <2>6, NonEmptyTexts
  <2>9. local \in Seq(D) /\ \A i \in DOMAIN local : local[i] # <<>>
    <3>1. PICK one : one = <<"<local>">>  OBVIOUS
    <3>2. one \in D /\ one # <<>>  BY <2>7, <3>1
    <3>3. local = IF interface = "mac" /\ s.simple THEN <<one>> ELSE <<>>  BY <2>1, <3>1
    <3> QED BY <3>2, <3>3
  <2>10. rules \in Seq(D) /\ \A i \in DOMAIN rules : rules[i] # <<>>
    <3>1. PICK rest : rest = NonEmpty(s.ignore)  OBVIOUS
    <3> QED BY <2>2, <2>8, <2>9, <3>1
  <2>11. rules \in Seq(Seq(S))
    <3>1. PICK E : E = Seq(S)  OBVIOUS
    <3>2. D \subseteq E  BY <3>1 DEF D
    <3>3. rules \in Seq(E)  BY <2>10, <3>2
    <3> QED BY <3>1, <3>3
  <2>12. Positions(RulesOf(s), {Comma}) = {}  BY Zenon DEF OneRule, Has, Comma
  <2>13. Len(rules) = 1 /\ RulesOf(s) = rules[1]
    BY <2>4, <2>5, <2>10, <2>11, <2>12, FrontOfSeparated
  <2>14. RulesOf(s) \in D  BY <2>10, <2>13
  <2> QED BY <2>14 DEF D
<1> QED BY <1>3, <1>4

\* Before any change there is one moment, at which what the settings mean is seen.
LEMMA SeenOnce ==
    ASSUME Place, past[1] = settings, settings = session.settings, NEW s \in Seen(1, 1)
    PROVE  ProxyUsed(s) = ProxyUsed(settings) /\ RulesOf(s) = RulesOf(settings)
<1>1. CASE interface = "kde"
  <2>1. interface \notin Gnome  BY <1>1 DEF Gnome
  <2> QED BY <1>1, <2>1, Zenon DEF Seen
<1>2. CASE interface \notin Gnome /\ interface # "kde"
  <2>1. Seen(1, 1) = {past[m] : m \in 1 .. 1}  BY <1>2, Zenon DEF Seen
  <2>2. s = settings  BY <2>1
  <2> QED BY <2>2
<1>3. CASE interface \in Gnome
  <2> DEFINE reads == {m \in [1 .. 4 -> 1 .. 1] : \A x, y \in 1 .. 4 : x <= y => m[x] <= m[y]}
             torn(m) == [ways |-> past[m[1]].ways, url |-> past[m[2]].url,
                         same |-> past[m[2]].same, ignore |-> past[m[2]].ignore,
                         host |-> past[m[3]].host, port |-> past[m[4]].port]
  <2>1. /\ interface # "kde" /\ interface # "win" /\ interface # "mac" /\ interface # "env"
        /\ interface \notin {"mac"} /\ interface \in Gnome \cup {"win"}
    BY <1>3 DEF Gnome
  <2>2. Seen(1, 1) = {torn(m) : m \in reads}  BY <1>3, <2>1, Zenon DEF Seen
  <2>3. PICK m \in reads : s = torn(m)  BY <2>2
  <2>4. m[1] = 1 /\ m[2] = 1 /\ m[3] = 1 /\ m[4] = 1
    <3>1. m \in [1 .. 4 -> 1 .. 1] /\ 1 .. 1 = {1}  OBVIOUS
    <3> QED BY <3>1
  <2>5. /\ s.ways = settings.ways /\ s.same = settings.same /\ s.host = settings.host
        /\ s.port = settings.port /\ s.ignore = settings.ignore
    BY <2>3, <2>4
  <2> HIDE DEF reads, torn
  <2>6. RulesOf(s) = RulesOf(settings)
    <3>1. (interface = "mac" /\ s.simple) <=> (interface = "mac" /\ settings.simple)  BY <2>1
    <3> QED BY <2>5, <3>1 DEF RulesOf
  <2>7. ProxyUsed(s) = ProxyUsed(settings)
    <3>1. \A k : ProxyOf(s, k) = ProxyOf(settings, k)  BY <2>5, Zenon DEF ProxyOf
    <3>2. CASE session.override.proxy # NoProxy  BY <3>2, OverrideUsed
    <3>3. CASE session.override.proxy = NoProxy
      <4>1. KeyFor(s) = KeyFor(settings)  BY <2>5, Zenon DEF KeyFor
      <4>2. interface # "win" => TRUE  OBVIOUS
      <4> QED BY <1>3, <2>1, <2>5, <3>1, <3>3, <4>1, ProxyRead
    <3> QED BY <3>2, <3>3
  <2> QED BY <2>6, <2>7
<1> QED BY <1>1, <1>2, <1>3

\* should_bypass_proxy decides by a list of one rule that fits into its buffer as the rule
\* says, but for the two departures, in the answers of every interface to settings that stay
\* as they are.
THEOREM RulesDecide ==
    ASSUME NEW symbols, HostsListed(symbols), KdeFilesRecord, RulesWritten(symbols)
    PROVE  Spec => []RuleDecides
<1>1. ASSUME ConfigInv PROVE RuleDecides
  <2> DEFINE rule == RulesOf(settings)
             url == session.url
             proxy == ProxyFor(settings)
  <2>1. SUFFICES ASSUME Len(past) = 1, answer.kind \in {"direct", "proxy"},
                        proxy # NoProxy, rule # NoList, OneRule(rule), FitsBuffer(rule)
                 PROVE  (answer = Direct <=> Verdict(RuleSays(rule, url), url)) \/ Departs(rule, url)
    BY Zenon DEF RuleDecides, OneRule
  <2>2. TypeOK /\ Place /\ PastIs /\ Answered(answer)  BY <1>1 DEF ConfigInv
  <2>3. DOMAIN past = {1} /\ past[1] = settings /\ settings \in SettingsOf(session)
    <3>1. DOMAIN past = 1 .. Len(past) /\ past[Len(past)] = settings
          /\ settings \in SettingsOf(session)
      BY <2>2, Moments
    <3> QED BY <2>1, <3>1
  <2>4. settings = session.settings  BY <2>2, <2>3 DEF PastIs
  <2>5. Explained(answer)  BY <2>1, <2>2 DEF Answered
  <2>6. PICK u \in Seen(1, 1), p \in Seen(1, 1), l \in Seen(1, 1) :
            answer \in Answers(u, ProxyUsed(p), l)
    BY <2>1, <2>3, <2>5 DEF Explained
  <2>7. ProxyUsed(p) = proxy
    <3>1. SettingsTyped(settings)  BY <2>2, <2>3, SettingsAreTyped
    <3>2. ProxyUsed(settings) = proxy  BY <2>1, <3>1, MeantIsUsed
    <3> QED BY <2>2, <2>3, <2>4, <2>6, <3>2, SeenOnce
  <2>8. RulesOf(l) = rule  BY <2>2, <2>3, <2>4, <2>6, SeenOnce
  <2>9. answer # Evaluate  BY <2>1 DEF Evaluate
  <2>10. PICK bypass \in Bypasses(url, rule) : answer = IF bypass THEN Direct ELSE Through(proxy)
    <3> DEFINE named == session.override.url # NoUrl \/ NamesScript(u)
    <3>1. named => Answers(u, proxy, l) = {Evaluate}  BY AnswerSays, Zenon
    <3>2. ~named => Answers(u, proxy, l) = {IF b THEN Direct ELSE Through(proxy) :
                                               b \in Bypasses(url, rule)}
      BY <2>1, <2>8, AnswerSays, Zenon
    <3> HIDE DEF named, proxy, rule, url
    <3> QED BY <2>6, <2>7, <2>9, <3>1, <3>2
  <2>11. answer = Direct <=> bypass
    <3>1. Through(proxy) # Direct  BY DEF Through, Direct
    <3> QED BY <2>10, <3>1, Zenon
  <2>12. rule \in Seq(symbols \cup SpecialRules) /\ ByItself(rule)
    BY <2>1, <2>2, <2>3, RuleText
  <2>13. url.host \in Seq(symbols \ SpecialRules)
    BY <2>2, Zenon DEF Place, RulesWritten
  <2>14. SpecialRules \cap (symbols \ SpecialRules) = {}  OBVIOUS
  <2>15. \E b : Bypasses(url, rule) = {b}
                /\ ((b <=> Verdict(RuleSays(rule, url), url)) \/ Departs(rule, url))
    BY <2>1, <2>12, <2>13, <2>14, RuleDecided
  <2>16. (bypass <=> Verdict(RuleSays(rule, url), url)) \/ Departs(rule, url)
    <3> HIDE DEF rule, url
    <3> QED BY <2>10, <2>15
  <2> QED BY <2>11, <2>16, Zenon
<1> QED BY <1>1, ConfigInvHolds, PTL
=============================================================================
