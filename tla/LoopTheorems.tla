---------------------------- MODULE LoopTheorems ----------------------------
(***************************************************************************)
(* A loop of the code over the elements of a sequence is a recursive       *)
(* function in the model: its value at 0 is what the loop starts from, and *)
(* its value at i what the i-th turn makes of that at i - 1.  LoopExists   *)
(* says that there is such a function, LoopKeeps that what holds at one    *)
(* turn and is kept by each later one holds from there on.                 *)
(***************************************************************************)
EXTENDS Integers, SequencesExt, Dicts, WellFoundedInduction, TLAPS

\* A set of naturals that is not empty has a smallest element.
LEMMA Smallest ==
    ASSUME NEW S \in SUBSET Nat, S # {}
    PROVE  \E m \in S : \A n \in S : m <= n
<1>1. PICK m \in S : \A n \in S : ~ (<<n, m>> \in OpToRel(<, Nat))
  BY WFMin, NatLessThanWellFounded
<1>2. \A n \in S : ~ (n < m) BY <1>1 DEF OpToRel
<1> QED BY <1>2

\* A list of numbers has a largest one.
LEMMA LargestAt ==
    ASSUME NEW n \in Nat, n # 0, NEW f \in [1..n -> Nat]
    PROVE  \E i \in 1..n : \A j \in 1..n : f[j] <= f[i]
<1> DEFINE Larger(k) == \A i \in 1..k : \E j \in 1..k : f[i] < f[j]
           Bad == {k \in 1..n : Larger(k)}
<1>1. ASSUME Bad = {} PROVE \E i \in 1..n : \A j \in 1..n : f[j] <= f[i]
  <2>1. n \in 1..n OBVIOUS
  <2>2. PICK i \in 1..n : \A j \in 1..n : ~ (f[i] < f[j]) BY <1>1, <2>1
  <2>3. ASSUME NEW j \in 1..n PROVE f[j] <= f[i]
    <3>1. f[i] \in Nat /\ f[j] \in Nat /\ ~ (f[i] < f[j]) BY <2>2
    <3> QED BY <3>1
  <2> QED BY <2>3
<1>2. ASSUME Bad # {} PROVE FALSE
  <2>1. PICK m \in Bad : \A k \in Bad : m <= k BY <1>2, Smallest, Bad \in SUBSET Nat
  <2>2. m # 1
    <3> SUFFICES ASSUME m = 1 PROVE FALSE OBVIOUS
    <3>1. PICK j \in 1..1 : f[1] < f[j] BY <2>1
    <3> QED BY <3>1
  <2>3. m - 1 \in 1..n /\ ~Larger(m - 1)
    <3>1. m \in 1..n /\ m - 1 \in 1..n /\ ~ (m <= m - 1) BY <2>2
    <3> HIDE DEF Larger
    <3> QED BY <2>1, <3>1
  <2>4. PICK i \in 1..(m-1) : \A j \in 1..(m-1) : ~ (f[i] < f[j]) BY <2>3
  <2>5. m \in 1..n /\ i \in 1..m BY <2>4
  <2>6. PICK j \in 1..m : f[i] < f[j] BY <2>1, <2>5
  <2>7. j = m BY <2>4, <2>6
  <2>8. PICK l \in 1..m : f[m] < f[l] BY <2>1, <2>5
  <2>9. l # m /\ l \in 1..(m-1) BY <2>5, <2>8
  <2>10. ~ (f[i] < f[l]) BY <2>4, <2>9
  <2>11. f[i] \in Nat /\ f[m] \in Nat /\ f[l] \in Nat BY <2>5, <2>9
  <2> QED BY <2>6, <2>7, <2>8, <2>10, <2>11
<1> QED BY <1>1, <1>2

\* From turn k on, loop is in what S has for the turn.
Holds(loop, S, k, n) == \A i \in k..n : loop[i] \in S[i]

\* What holds at turn k and is kept by each later one holds from k on.
LEMMA LoopKeeps ==
    ASSUME NEW n \in Nat, NEW k \in 0..n, NEW f, NEW S, f[k] \in S[k],
           \A i \in 1..n : k < i /\ f[i-1] \in S[i-1] => f[i] \in S[i]
    PROVE  Holds(f, S, k, n)
<1> DEFINE Bad == {i \in k..n : f[i] \notin S[i]}
<1>1. SUFFICES ASSUME Bad # {} PROVE FALSE BY DEF Holds
<1>2. PICK m \in Bad : \A i \in Bad : m <= i BY <1>1, Smallest, Bad \in SUBSET Nat
<1>3. m # k /\ m \in 1..n /\ k < m OBVIOUS
<1>4. m - 1 \in k..n /\ m - 1 \notin Bad BY <1>2, <1>3
<1> QED BY <1>3, <1>4

\* The results of n turns, from init on.
Results(S, init, n, turn) ==
    {g \in [0..n -> S] : g[0] = init /\ \A i \in 1..n : g[i] = turn[i][g[i-1]]}

\* A loop has results.
LEMMA LoopExists ==
    ASSUME NEW S, NEW init \in S, NEW n \in Nat, NEW turn \in [1..n -> [S -> S]]
    PROVE  Results(S, init, n, turn) # {}
<1> DEFINE Runs(k) == Results(S, init, k, turn)
           Bad == {k \in 0..n : Runs(k) = {}}
<1>1. SUFFICES ASSUME Bad # {} PROVE FALSE
  <2>1. n \in 0..n OBVIOUS
  <2> QED BY <2>1
<1>2. PICK m \in Bad : \A k \in Bad : m <= k BY <1>1, Smallest, Bad \in SUBSET Nat
<1>3. m # 0
  <2>1. [i \in 0..0 |-> init] \in Runs(0) BY DEF Results
  <2> QED BY <2>1
<1>4. m \in 1..n /\ m - 1 \in 0..n /\ m - 1 \notin Bad
  <2> HIDE DEF Runs
  <2>1. m \in 1..n /\ m - 1 \in 0..n /\ ~ (m <= m - 1) BY <1>3
  <2> QED BY <2>1, <1>2
<1>5. PICK g \in [0..(m-1) -> S] :
        g[0] = init /\ \A i \in 1..(m-1) : g[i] = turn[i][g[i-1]]
  BY <1>4 DEF Results
<1> DEFINE h == [i \in 0..m |-> IF i = m THEN turn[m][g[m-1]] ELSE g[i]]
<1>6. turn[m] \in [S -> S] /\ g[m-1] \in S BY <1>4, <1>5
<1>7. h \in [0..m -> S] BY <1>4, <1>5, <1>6
<1>8. h[0] = init BY <1>4, <1>5
<1>9. ASSUME NEW i \in 1..m PROVE h[i] = turn[i][h[i-1]]
  <2>1. h[i-1] = g[i-1] BY <1>4
  <2>2. CASE i = m BY <2>1, <2>2, <1>4
  <2>3. CASE i # m
    <3>1. i \in 1..(m-1) BY <2>3, <1>4
    <3>2. h[i] = g[i] BY <2>3, <1>4
    <3> QED BY <2>1, <3>1, <3>2, <1>5
  <2> QED BY <2>2, <2>3
<1>10. h \in Runs(m) BY <1>7, <1>8, <1>9 DEF Results
<1> QED BY <1>10

(***************************************************************************)
(* Among.                                                                  *)
(***************************************************************************)

\* A sequence is one over any set that has its elements.
LEMMA SeqOver ==
    ASSUME NEW R, NEW s \in Seq(R), NEW S, ToSet(s) \subseteq S
    PROVE  s \in Seq(S)
<1>1. Len(s) \in Nat /\ DOMAIN s = 1..Len(s) /\ s = [i \in 1..Len(s) |-> s[i]] OBVIOUS
<1>2. \A i \in 1..Len(s) : s[i] \in S BY <1>1 DEF ToSet
<1> QED BY <1>1, <1>2

\* The values of the loop after each of its turns.
AmongTurns(a, s, S) ==
    /\ a[0] = <<>> /\ a[Len(s)] = Among(s, S)
    /\ \A i \in 1..Len(s) : a[i] = IF s[i] \in S THEN Append(a[i-1], s[i]) ELSE a[i-1]

LEMMA AmongRuns ==
    ASSUME NEW R, NEW s \in Seq(R), NEW S
    PROVE  \E a : AmongTurns(a, s, S)
<1> DEFINE n == Len(s)
           Turn(i, q) == IF s[i] \in S THEN Append(q, s[i]) ELSE q
           turn == [i \in 1..n |-> [q \in Seq(R) |-> Turn(i, q)]]
           Body(f) == [i \in 0..n |->
               IF i = 0 THEN <<>>
               ELSE IF s[i] \in S THEN Append(f[i-1], s[i]) ELSE f[i-1]]
           among == CHOOSE f : f = Body(f)
<1>1. n \in Nat /\ <<>> \in Seq(R) OBVIOUS
<1>2. ASSUME NEW i \in 1..n, NEW q \in Seq(R) PROVE Turn(i, q) \in Seq(R) OBVIOUS
<1>3. turn \in [1..n -> [Seq(R) -> Seq(R)]] BY <1>2
<1> HIDE DEF n
<1>4. \E f : f = Body(f)
  <2>1. PICK g \in [0..n -> Seq(R)] : g[0] = <<>> /\ \A i \in 1..n : g[i] = turn[i][g[i-1]]
    <3>1. Results(Seq(R), <<>>, n, turn) # {}
      <4> HIDE DEF turn, among, Body
      <4> QED BY <1>1, <1>3, LoopExists
    <3> HIDE DEF turn
    <3> QED BY <3>1 DEF Results
  <2>2. ASSUME NEW i \in 0..n PROVE g[i] = Body(g)[i]
    <3>1. CASE i = 0 BY <2>1, <3>1
    <3>2. CASE i # 0
      <4>1. i \in 1..n /\ i - 1 \in 0..n BY <3>2, <1>1
      <4>2. g[i] = Turn(i, g[i-1]) BY <2>1, <4>1
      <4> QED BY <3>2, <4>2
    <3> QED BY <3>1, <3>2
  <2> QED BY <2>1, <2>2
<1>5. among = Body(among) BY <1>4
<1> HIDE DEF among
<1>6. among[0] = <<>>
  <2>1. 0 \in 0..n BY <1>1
  <2> QED BY <2>1, <1>5
<1>7. ASSUME NEW i \in 1..n
      PROVE  among[i] = IF s[i] \in S THEN Append(among[i-1], s[i]) ELSE among[i-1]
  <2>1. i \in 0..n /\ i # 0 BY <1>1
  <2> QED BY <2>1, <1>5
<1>8. among[n] = Among(s, S) BY DEF among, n, Among
<1>9. AmongTurns(among, s, S)
  <2> HIDE DEF Body
  <2> QED BY <1>6, <1>7, <1>8 DEF AmongTurns, n
<1> QED BY <1>9

\* Sequences are their elements.
LEMMA SameSeq ==
    ASSUME NEW R, NEW x \in Seq(R), NEW y \in Seq(R), Len(x) = Len(y),
           \A j \in 1..Len(x) : x[j] = y[j]
    PROVE  x = y
OBVIOUS

\* The loop picks the elements of s that are in S, and none twice that is in s
\* once.
LEMMA AmongIs ==
    ASSUME NEW R, NEW s \in Seq(R), NEW S
    PROVE  /\ Among(s, S) \in Seq(R) /\ ToSet(Among(s, S)) = ToSet(s) \cap S
           /\ IsInjective(s) => IsInjective(Among(s, S))
<1> DEFINE n == Len(s)
<1>1. n \in Nat /\ <<>> \in Seq(R) OBVIOUS
<1>2. PICK among : AmongTurns(among, s, S) BY AmongRuns
<1>3. /\ among[0] = <<>> /\ among[n] = Among(s, S)
      /\ \A i \in 1..n : among[i] = IF s[i] \in S THEN Append(among[i-1], s[i]) ELSE among[i-1]
  BY <1>2 DEF AmongTurns
<1> HIDE DEF n
<1> DEFINE Seen(i) == {s[j] : j \in 1..i} \cap S
           Fits(q, i) == ToSet(q) = Seen(i) /\ (IsInjective(s) => IsInjective(q))
           Kept == [i \in 0..n |-> {q \in Seq(R) : Fits(q, i)}]
<1>4. among[0] \in Kept[0] BY <1>1, <1>3 DEF ToSet, IsInjective
<1>5. ASSUME NEW i \in 1..n, among[i-1] \in Kept[i-1] PROVE among[i] \in Kept[i]
  <2>1. i \in 0..n /\ i - 1 \in 0..n /\ i # 0 BY <1>1
  <2>2. s[i] \in R BY DEF n
  <2>3. PICK q \in Seq(R) : q = among[i-1] /\ Fits(q, i-1) BY <1>5, <2>1
  <2>4. CASE s[i] \in S
    <3>1. among[i] = Append(q, s[i]) BY <1>3, <2>3, <2>4
    <3>2. ToSet(Append(q, s[i])) = ToSet(q) \cup {s[i]}
      <4>1. DOMAIN Append(q, s[i]) = DOMAIN q \cup {Len(q) + 1} BY <2>2
      <4>2. \A j \in DOMAIN q : Append(q, s[i])[j] = q[j] BY <2>2
      <4>3. Append(q, s[i])[Len(q) + 1] = s[i] BY <2>2
      <4> QED BY <4>1, <4>2, <4>3 DEF ToSet
    <3>3. Seen(i) = Seen(i-1) \cup {s[i]} BY <2>1, <2>4
    <3>4. Append(q, s[i]) \in Seq(R) BY <2>2
    <3>5. ASSUME IsInjective(s) PROVE IsInjective(Append(q, s[i]))
      <4>1. IsInjective(q) /\ ToSet(q) = Seen(i-1) BY <2>3, <3>5
      <4>2. s[i] \notin Seen(i-1)
        <5>1. DOMAIN s = 1..n BY DEF n
        <5>2. \A j \in 1..(i-1) : j \in DOMAIN s /\ i \in DOMAIN s /\ j # i BY <1>1, <5>1
        <5> QED BY <3>5, <5>2 DEF IsInjective
      <4>3. DOMAIN Append(q, s[i]) = DOMAIN q \cup {Len(q) + 1} BY <2>2
      <4>4. \A j \in DOMAIN q : Append(q, s[i])[j] = q[j] /\ q[j] # s[i]
        <5>1. \A j \in DOMAIN q : q[j] \in Seen(i-1) BY <4>1 DEF ToSet
        <5>2. \A j \in DOMAIN q : Append(q, s[i])[j] = q[j] BY <2>2
        <5> HIDE DEF Seen
        <5> QED BY <4>2, <5>1, <5>2
      <4>5. Append(q, s[i])[Len(q) + 1] = s[i] BY <2>2
      <4> QED BY <4>1, <4>3, <4>4, <4>5 DEF IsInjective
    <3> HIDE DEF Seen
    <3>6. Fits(Append(q, s[i]), i) BY <2>3, <3>2, <3>3, <3>5
    <3> HIDE DEF Fits
    <3> QED BY <2>1, <3>1, <3>4, <3>6
  <2>5. CASE s[i] \notin S
    <3>1. among[i] = q BY <1>3, <2>3, <2>5
    <3>2. Seen(i) = Seen(i-1) BY <2>1, <2>5
    <3> HIDE DEF Seen
    <3>3. Fits(q, i) BY <2>3, <3>2
    <3> HIDE DEF Fits
    <3> QED BY <2>1, <3>1, <3>3
  <2> QED BY <2>4, <2>5
<1>6. Holds(among, Kept, 0, n)
  <2>1. 0 \in 0..n BY <1>1
  <2> HIDE DEF Kept
  <2> QED BY <1>1, <2>1, <1>4, <1>5, LoopKeeps
<1>7. among[n] \in Kept[n]
  <2> HIDE DEF Kept
  <2> QED BY <1>1, <1>6 DEF Holds
<1>8. Seen(n) = ToSet(s) \cap S BY DEF ToSet, n
<1>9. /\ among[n] \in Seq(R) /\ ToSet(among[n]) = ToSet(s) \cap S
      /\ IsInjective(s) => IsInjective(among[n])
  <2>1. Kept[n] = {q \in Seq(R) : Fits(q, n)} BY <1>1
  <2>2. Fits(among[n], n) /\ among[n] \in Seq(R)
    <3> HIDE DEF Kept, Fits
    <3> QED BY <2>1, <1>7
  <2> HIDE DEF Kept, Seen
  <2> QED BY <2>2, <1>8
<1> HIDE DEF Kept, Seen, Fits
<1> QED BY <1>3, <1>9

\* What f makes of the elements of a sequence.
Mapped(f, q) == [i \in DOMAIN q |-> f[q[i]]]

\* f takes t to s, what is in T to what is in S.
Takes(f, t, T, s, S) ==
    \A i \in 1..Len(s) : f[t[i]] = s[i] /\ (s[i] \in S <=> t[i] \in T)

\* Then a loop over t picks what one over s does.
LEMMA AmongMapped ==
    ASSUME NEW R, NEW s \in Seq(R), NEW S, NEW Q, NEW t \in Seq(Q), NEW T, NEW f \in [Q -> R],
           Len(t) = Len(s), Takes(f, t, T, s, S)
    PROVE  Among(s, S) = Mapped(f, Among(t, T))
<1> DEFINE n == Len(s)
           Image(q) == [i \in DOMAIN q |-> f[q[i]]]
<1>1. n \in Nat /\ <<>> \in Seq(R) /\ <<>> \in Seq(Q) OBVIOUS
<1>2. PICK a : AmongTurns(a, s, S) BY AmongRuns
<1>3. PICK b : AmongTurns(b, t, T) BY AmongRuns
<1>4. /\ a[0] = <<>> /\ b[0] = <<>> /\ a[n] = Among(s, S) /\ b[n] = Among(t, T)
      /\ \A i \in 1..n : a[i] = IF s[i] \in S THEN Append(a[i-1], s[i]) ELSE a[i-1]
      /\ \A i \in 1..n : b[i] = IF t[i] \in T THEN Append(b[i-1], t[i]) ELSE b[i-1]
  BY <1>2, <1>3 DEF AmongTurns
<1> DEFINE pair == [i \in 0..n |-> <<a[i], b[i]>>]
           Alike == {p \in Seq(R) \X Seq(Q) : p[1] = Image(p[2])}
           Kept == [i \in 0..n |-> Alike]
<1>5. pair[0] \in Kept[0]
  <2>1. pair[0] = <<<<>>, <<>>>> /\ Kept[0] = Alike BY <1>1, <1>4
  <2>2. <<>> = Image(<<>>) OBVIOUS
  <2> QED BY <1>1, <2>1, <2>2
<1>6. ASSUME NEW i \in 1..n, pair[i-1] \in Kept[i-1] PROVE pair[i] \in Kept[i]
  <2>1. i \in 0..n /\ i - 1 \in 0..n BY <1>1
  <2>2. a[i-1] \in Seq(R) /\ b[i-1] \in Seq(Q) /\ a[i-1] = Image(b[i-1]) BY <2>1, <1>6
  <2>3. s[i] \in R /\ t[i] \in Q /\ f[t[i]] = s[i] /\ (s[i] \in S <=> t[i] \in T) BY DEF Takes
  <2>4. pair[i] = <<a[i], b[i]>> /\ Kept[i] = Alike BY <2>1
  <2>5. CASE s[i] \notin S
    <3>1. a[i] = a[i-1] /\ b[i] = b[i-1] BY <1>4, <2>3, <2>5
    <3> HIDE DEF pair, Kept, Image
    <3> QED BY <2>2, <2>4, <3>1
  <2>6. CASE s[i] \in S
    <3>1. a[i] = Append(a[i-1], s[i]) /\ b[i] = Append(b[i-1], t[i]) BY <1>4, <2>3, <2>6
    <3>2. ASSUME NEW q \in Seq(Q) PROVE Append(Image(q), s[i]) = Image(Append(q, t[i]))
      <4>1. Image(q) \in Seq(R) /\ Len(Image(q)) = Len(q)
        <5>1. q \in [1..Len(q) -> Q] /\ Len(q) \in Nat /\ DOMAIN q = 1..Len(q) OBVIOUS
        <5>2. Image(q) \in [1..Len(q) -> R] BY <5>1
        <5> HIDE DEF Image
        <5> QED BY <5>1, <5>2
      <4>2. Append(q, t[i]) \in Seq(Q) /\ Len(Append(q, t[i])) = Len(q) + 1 BY <2>3
      <4>3. /\ Append(Image(q), s[i]) \in Seq(R) /\ Image(Append(q, t[i])) \in Seq(R)
            /\ Len(Append(Image(q), s[i])) = Len(q) + 1
            /\ Len(Image(Append(q, t[i]))) = Len(q) + 1
        BY <2>3, <4>1, <4>2
      <4>4. ASSUME NEW j \in 1..(Len(q) + 1)
            PROVE  Append(Image(q), s[i])[j] = Image(Append(q, t[i]))[j]
        <5>1. CASE j = Len(q) + 1 BY <2>3, <4>1, <4>2, <5>1
        <5>2. CASE j \in 1..Len(q) BY <2>3, <4>1, <4>2, <5>2
        <5> QED BY <5>1, <5>2
      <4> DEFINE x == Append(Image(q), s[i])
                 y == Image(Append(q, t[i]))
      <4>5. x \in Seq(R) /\ y \in Seq(R) /\ Len(x) = Len(y) /\ Len(x) = Len(q) + 1 BY <4>3
      <4>6. \A j \in 1..Len(x) : x[j] = y[j] BY <4>4, <4>5
      <4> HIDE DEF x, y, Image
      <4>7. x = y BY <4>5, <4>6, SameSeq
      <4> QED BY <4>7 DEF x, y
    <3>3. a[i] \in Seq(R) /\ b[i] \in Seq(Q)
      <4> HIDE DEF pair, Kept
      <4> QED BY <2>2, <2>3, <3>1
    <3>4. a[i] = Image(b[i])
      <4> HIDE DEF pair, Kept, Image
      <4> QED BY <2>2, <3>1, <3>2
    <3> HIDE DEF pair, Kept, Image
    <3> QED BY <2>4, <3>3, <3>4
  <2> QED BY <2>5, <2>6
<1>7. Holds(pair, Kept, 0, n)
  <2>1. 0 \in 0..n BY <1>1
  <2> HIDE DEF pair, Kept
  <2> QED BY <1>1, <2>1, <1>5, <1>6, LoopKeeps
<1>8. pair[n] \in Alike
  <2>1. n \in 0..n BY <1>1
  <2>2. pair[n] \in Kept[n]
    <3> HIDE DEF pair, Kept
    <3> QED BY <2>1, <1>7 DEF Holds
  <2> QED BY <2>1, <2>2
<1>9. a[n] = Image(b[n])
  <2>1. n \in 0..n BY <1>1
  <2> HIDE DEF Image
  <2> QED BY <2>1, <1>8
<1> QED BY <1>4, <1>9 DEF Mapped
=============================================================================
