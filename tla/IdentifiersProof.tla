-------------------------- MODULE IdentifiersProof --------------------------
(***************************************************************************)
(* A number finds exactly the accounts that have it, and a login is        *)
(* counted exactly with those that try the same identifier: for all texts, *)
(* sets of characters, and lengths of numbers and of their keys.           *)
(***************************************************************************)
EXTENDS Identifiers, FiniteSetTheorems, SequenceTheorems, TLAPS

-----------------------------------------------------------------------------
(* Induction over numbers. *)

LEMMA NatSetInduction ==
    ASSUME NEW S, 0 \in S, \A n \in Nat : n \in S => n + 1 \in S
    PROVE  Nat \subseteq S
<1> SUFFICES ASSUME NEW x \in Nat, x \notin S PROVE FALSE
  OBVIOUS
<1> DEFINE T == {i \in 0..x : i \notin S}
           f == [i \in T |-> i - 1]
<1>1. IsFiniteSet(T)
  <2>1. IsFiniteSet(0..x) /\ T \subseteq 0..x
    BY FS_Interval
  <2> QED
    BY <2>1, FS_Subset
<1>2. \A i \in T : i - 1 \in T
  <2> SUFFICES ASSUME NEW i \in T PROVE i - 1 \in T
    OBVIOUS
  <2>1. i \in Nat /\ i # 0 /\ i - 1 \in Nat /\ i - 1 \in 0..x /\ (i - 1) + 1 = i
    OBVIOUS
  <2> QED
    BY <2>1
<1>3. f \in Injection(T, T)
  <2>1. f \in [T -> T]
    BY <1>2
  <2>2. \A a, b \in T : f[a] = f[b] => a = b
    OBVIOUS
  <2> QED
    BY <2>1, <2>2, Zenon DEF Injection, IsInjective
<1>4. f \in Surjection(T, T)
  BY <1>1, <1>3, FS_Injection
<1>5. x \in T
  OBVIOUS
<1>6. PICK i \in T : f[i] = x
  BY <1>4, <1>5, Zenon DEF Surjection
<1> QED
  BY <1>6

-----------------------------------------------------------------------------
(* What kept returns. *)

(* The function inside kept. *)
Picks(g, t, chars) ==
    \A i \in 0..Len(t) :
        g[i] = IF i = 0 THEN <<>>
               ELSE IF t[i] \in chars THEN Append(g[i - 1], t[i]) ELSE g[i - 1]

LEMMA KeptIsDefined ==
    ASSUME NEW t, NEW chars, Len(t) \in Nat
    PROVE  \E g : Picks(g, t, chars) /\ kept(t, chars) = g[Len(t)]
<1> DEFINE Pick1(i, kt) == IF t[i] \in chars THEN Append(kt, t[i]) ELSE kt
           Defines(g, n) ==
             g = [i \in 0..n |-> IF i = 0 THEN <<>> ELSE
                                 IF t[i] \in chars THEN Append(g[i - 1], t[i]) ELSE g[i - 1]]
           S == {n \in Nat : \E g : Defines(g, n)}
<1>1. 0 \in S
  <2> DEFINE g == [i \in 0..0 |-> <<>>]
  <2>1. Defines(g, 0)
    OBVIOUS
  <2> QED
    BY <2>1
<1>2. \A n \in Nat : n \in S => n + 1 \in S
  <2> SUFFICES ASSUME NEW n \in Nat, n \in S PROVE n + 1 \in S
    OBVIOUS
  <2>1. PICK g : Defines(g, n)
    OBVIOUS
  <2> DEFINE h == [i \in 0..n + 1 |-> IF i = n + 1 THEN Pick1(n + 1, g[n]) ELSE g[i]]
  <2>2. \A i \in 0..n + 1 : h[i] = IF i = 0 THEN <<>> ELSE Pick1(i, h[i - 1])
    <3> SUFFICES ASSUME NEW i \in 0..n + 1
                 PROVE  h[i] = IF i = 0 THEN <<>> ELSE Pick1(i, h[i - 1])
      OBVIOUS
    <3>1. CASE i = n + 1
      <4>1. i # 0 /\ i - 1 = n /\ n \in 0..n + 1 /\ n # n + 1
        BY <3>1
      <4>2. h[i] = Pick1(n + 1, g[n]) /\ h[n] = g[n]
        BY <3>1, <4>1
      <4> QED
        BY <3>1, <4>1, <4>2
    <3>2. CASE i # n + 1
      <4>1. i \in 0..n /\ (i # 0 => i - 1 \in 0..n + 1 /\ i - 1 # n + 1)
        BY <3>2
      <4>2. h[i] = g[i] /\ (i # 0 => h[i - 1] = g[i - 1])
        BY <3>2, <4>1
      <4>3. g[i] = IF i = 0 THEN <<>> ELSE Pick1(i, g[i - 1])
        BY <2>1, <4>1
      <4> QED
        BY <4>2, <4>3
    <3> QED
      BY <3>1, <3>2
  <2> HIDE DEF h
  <2>3. Defines(h, n + 1)
    BY <2>2 DEF h
  <2> QED
    BY <2>3
<1>3. PICK g : Defines(g, Len(t))
  BY <1>1, <1>2, NatSetInduction
<1> DEFINE upTo == CHOOSE h : Defines(h, Len(t))
<1>4. Defines(upTo, Len(t))
  BY <1>3
<1>5. kept(t, chars) = upTo[Len(t)]
  BY DEF kept
<1> HIDE DEF upTo
<1>6. Picks(upTo, t, chars)
  BY <1>4 DEF Picks
<1> QED
  BY <1>5, <1>6

LEMMA PicksNext ==
    ASSUME NEW g, NEW t, NEW chars, Picks(g, t, chars), Len(t) \in Nat
    PROVE  /\ g[0] = <<>>
           /\ \A n \in Nat : n + 1 <= Len(t) =>
                /\ t[n + 1] \in chars => g[n + 1] = Append(g[n], t[n + 1])
                /\ t[n + 1] \notin chars => g[n + 1] = g[n]
<1>1. g[0] = <<>>
  BY DEF Picks
<1>2. ASSUME NEW n \in Nat, n + 1 <= Len(t)
      PROVE  /\ t[n + 1] \in chars => g[n + 1] = Append(g[n], t[n + 1])
             /\ t[n + 1] \notin chars => g[n + 1] = g[n]
  <2>1. n + 1 \in 0..Len(t) /\ n + 1 # 0 /\ (n + 1) - 1 = n
    BY <1>2
  <2> QED
    BY <2>1 DEF Picks
<1> QED
  BY <1>1, <1>2

(* What is kept is of the set, and all of a text that is of the set. *)
LEMMA KeptTyped ==
    ASSUME NEW t, NEW chars, Len(t) \in Nat
    PROVE  /\ kept(t, chars) \in Seq(chars)
           /\ (\A i \in 1..Len(t) : t[i] \in chars) => Len(kept(t, chars)) = Len(t)
<1>1. PICK g : Picks(g, t, chars) /\ kept(t, chars) = g[Len(t)]
  BY KeptIsDefined
<1> DEFINE all == \A i \in 1..Len(t) : t[i] \in chars
           S == {n \in Nat : n <= Len(t) => g[n] \in Seq(chars) /\ (all => Len(g[n]) = n)}
<1>2. 0 \in S
  <2>1. g[0] = <<>>
    BY <1>1, PicksNext
  <2>2. g[0] \in Seq(chars) /\ Len(g[0]) = 0
    BY <2>1
  <2> HIDE DEF all
  <2> QED
    BY <2>2
<1>3. \A n \in Nat : n \in S => n + 1 \in S
  <2> SUFFICES ASSUME NEW n \in Nat, n \in S, n + 1 <= Len(t)
               PROVE  g[n + 1] \in Seq(chars) /\ (all => Len(g[n + 1]) = n + 1)
    OBVIOUS
  <2>1. n <= Len(t) /\ n + 1 \in 1..Len(t)
    OBVIOUS
  <2>2. g[n] \in Seq(chars) /\ (all => Len(g[n]) = n)
    BY <2>1
  <2>3. CASE t[n + 1] \in chars
    <3>1. g[n + 1] = Append(g[n], t[n + 1])
      BY <1>1, <2>3, PicksNext
    <3> HIDE DEF all
    <3> QED
      BY <2>2, <2>3, <3>1
  <2>4. CASE t[n + 1] \notin chars
    <3>1. g[n + 1] = g[n] /\ ~all
      BY <1>1, <2>1, <2>4, PicksNext
    <3> HIDE DEF all
    <3> QED
      BY <2>2, <3>1
  <2> QED
    BY <2>3, <2>4
<1>4. Nat \subseteq S
  BY <1>2, <1>3, NatSetInduction
<1>5. Len(t) \in S /\ Len(t) <= Len(t)
  BY <1>4
<1> QED
  BY <1>1, <1>5

(* Texts that differ only in what is not kept. *)
LEMMA KeptAlike ==
    ASSUME NEW t, NEW u, NEW A, NEW B, Len(t) \in Nat, Len(u) = Len(t),
           \A i \in 1..Len(t) : \/ t[i] \in A /\ u[i] \in B /\ u[i] = t[i]
                                \/ t[i] \notin A /\ u[i] \notin B
    PROVE  kept(t, A) = kept(u, B)
<1>1. PICK g : Picks(g, t, A) /\ kept(t, A) = g[Len(t)]
  BY KeptIsDefined
<1>2. PICK h : Picks(h, u, B) /\ kept(u, B) = h[Len(u)]
  BY KeptIsDefined
<1>g. /\ g[0] = <<>>
      /\ \A n \in Nat : n + 1 <= Len(t) =>
           /\ t[n + 1] \in A => g[n + 1] = Append(g[n], t[n + 1])
           /\ t[n + 1] \notin A => g[n + 1] = g[n]
  BY <1>1, PicksNext
<1>h. /\ h[0] = <<>>
      /\ \A n \in Nat : n + 1 <= Len(t) =>
           /\ u[n + 1] \in B => h[n + 1] = Append(h[n], u[n + 1])
           /\ u[n + 1] \notin B => h[n + 1] = h[n]
  BY <1>2, PicksNext
<1> DEFINE S == {n \in Nat : n <= Len(t) => g[n] = h[n]}
<1>3. 0 \in S
  BY <1>g, <1>h
<1>4. \A n \in Nat : n \in S => n + 1 \in S
  <2> SUFFICES ASSUME NEW n \in Nat, n \in S, n + 1 <= Len(t)
               PROVE  g[n + 1] = h[n + 1]
    OBVIOUS
  <2>1. n <= Len(t) /\ n + 1 \in 1..Len(t)
    OBVIOUS
  <2>2. g[n] = h[n]
    BY <2>1
  <2>3. CASE t[n + 1] \in A /\ u[n + 1] \in B /\ u[n + 1] = t[n + 1]
    BY <1>g, <1>h, <2>2, <2>3
  <2>4. CASE t[n + 1] \notin A /\ u[n + 1] \notin B
    BY <1>g, <1>h, <2>2, <2>4
  <2> QED
    BY <2>1, <2>3, <2>4
<1>5. Nat \subseteq S
  BY <1>3, <1>4, NatSetInduction
<1>6. Len(t) \in S /\ Len(t) <= Len(t)
  BY <1>5
<1> QED
  BY <1>1, <1>2, <1>6

(* What is cut off at both ends is not kept. *)
LEMMA KeptWithin ==
    ASSUME NEW C, NEW t \in Seq(C), NEW chars, NEW p \in 1..Len(t), NEW q \in p..Len(t),
           \A i \in 1..Len(t) : i < p \/ i > q => t[i] \notin chars
    PROVE  kept(SubSeq(t, p, q), chars) = kept(t, chars)
<1> DEFINE u == SubSeq(t, p, q)
           m == p - 1
<1>0. /\ Len(t) \in Nat /\ m \in Nat /\ q \in Nat /\ m + 1 = p /\ Len(u) \in Nat
      /\ m + Len(u) = q /\ q <= Len(t) /\ m <= q
      /\ \A i \in Nat : i + 1 <= Len(u) => u[i + 1] = t[m + (i + 1)]
  <2>1. Len(u) = (q - p) + 1 /\ \A i \in 1..(q - p) + 1 : u[i] = t[(p + i) - 1]
    BY SubSeqProperties
  <2>2. ASSUME NEW i \in Nat, i + 1 <= Len(u) PROVE u[i + 1] = t[m + (i + 1)]
    <3>1. i + 1 \in 1..(q - p) + 1 /\ (p + (i + 1)) - 1 = m + (i + 1)
      BY <2>1, <2>2
    <3> QED
      BY <2>1, <3>1
  <2> HIDE DEF u
  <2> QED
    BY <2>1, <2>2
<1> HIDE DEF u, m
<1>1. PICK g : Picks(g, t, chars) /\ kept(t, chars) = g[Len(t)]
  BY <1>0, KeptIsDefined
<1>2. PICK h : Picks(h, u, chars) /\ kept(u, chars) = h[Len(u)]
  BY <1>0, KeptIsDefined
<1>g. /\ g[0] = <<>>
      /\ \A n \in Nat : n + 1 <= Len(t) =>
           /\ t[n + 1] \in chars => g[n + 1] = Append(g[n], t[n + 1])
           /\ t[n + 1] \notin chars => g[n + 1] = g[n]
  BY <1>0, <1>1, PicksNext
<1>h. /\ h[0] = <<>>
      /\ \A n \in Nat : n + 1 <= Len(u) =>
           /\ u[n + 1] \in chars => h[n + 1] = Append(h[n], u[n + 1])
           /\ u[n + 1] \notin chars => h[n + 1] = h[n]
  BY <1>0, <1>2, PicksNext
<1>3. g[m] = <<>>
  <2> DEFINE S == {n \in Nat : n <= m => g[n] = <<>>}
  <2>1. 0 \in S
    BY <1>g
  <2>2. \A n \in Nat : n \in S => n + 1 \in S
    <3> SUFFICES ASSUME NEW n \in Nat, n \in S, n + 1 <= m PROVE g[n + 1] = <<>>
      OBVIOUS
    <3>1. n <= m /\ n + 1 \in 1..Len(t) /\ n + 1 < p /\ n + 1 <= Len(t)
      BY <1>0
    <3>2. t[n + 1] \notin chars
      BY <3>1
    <3> QED
      BY <1>g, <3>1, <3>2
  <2>3. Nat \subseteq S
    BY <2>1, <2>2, NatSetInduction
  <2>4. m \in S /\ m <= m
    BY <1>0, <2>3
  <2> QED
    BY <2>4
<1>4. g[q] = h[Len(u)]
  <2> DEFINE S == {n \in Nat : n <= Len(u) => g[m + n] = h[n]}
  <2>1. 0 \in S
    BY <1>0, <1>3, <1>h
  <2>2. \A n \in Nat : n \in S => n + 1 \in S
    <3> SUFFICES ASSUME NEW n \in Nat, n \in S, n + 1 <= Len(u) PROVE g[m + (n + 1)] = h[n + 1]
      OBVIOUS
    <3>1. n <= Len(u) /\ (m + n) + 1 = m + (n + 1) /\ m + n \in Nat /\ (m + n) + 1 <= Len(t)
      BY <1>0
    <3>2. g[m + n] = h[n] /\ u[n + 1] = t[(m + n) + 1]
      BY <1>0, <3>1
    <3>3. CASE u[n + 1] \in chars
      BY <1>g, <1>h, <3>1, <3>2, <3>3
    <3>4. CASE u[n + 1] \notin chars
      BY <1>g, <1>h, <3>1, <3>2, <3>4
    <3> QED
      BY <3>3, <3>4
  <2>3. Nat \subseteq S
    BY <2>1, <2>2, NatSetInduction
  <2>4. Len(u) \in S /\ Len(u) <= Len(u)
    BY <1>0, <2>3
  <2> QED
    BY <1>0, <2>4
<1>5. g[Len(t)] = g[q]
  <2> DEFINE S == {n \in Nat : q + n <= Len(t) => g[q + n] = g[q]}
  <2>1. 0 \in S
    BY <1>0
  <2>2. \A n \in Nat : n \in S => n + 1 \in S
    <3> SUFFICES ASSUME NEW n \in Nat, n \in S, q + (n + 1) <= Len(t)
                 PROVE  g[q + (n + 1)] = g[q]
      OBVIOUS
    <3>1. /\ q + n <= Len(t) /\ (q + n) + 1 = q + (n + 1) /\ q + n \in Nat
          /\ (q + n) + 1 \in 1..Len(t) /\ (q + n) + 1 > q /\ (q + n) + 1 <= Len(t)
      BY <1>0
    <3>2. t[(q + n) + 1] \notin chars
      BY <3>1
    <3> QED
      BY <1>g, <3>1, <3>2
  <2>3. Len(t) - q \in Nat /\ q + (Len(t) - q) = Len(t)
    BY <1>0
  <2>4. Nat \subseteq S
    BY <2>1, <2>2, NatSetInduction
  <2>5. Len(t) - q \in S
    BY <2>3, <2>4
  <2>6. q + (Len(t) - q) <= Len(t)
    BY <1>0
  <2>7. g[q + (Len(t) - q)] = g[q]
    BY <2>5, <2>6
  <2> QED
    BY <2>3, <2>7
<1> QED
  BY <1>1, <1>2, <1>4, <1>5 DEF u

-----------------------------------------------------------------------------
(* Numbers. *)

(* What is taken from the right, counted from the right. *)
LEMMA RightCounts ==
    ASSUME NEW C, NEW d \in Seq(C), NEW n \in Nat
    PROVE  /\ Right(d, n) \in Seq(C)
           /\ Len(Right(d, n)) = IF Len(d) > n THEN n ELSE Len(d)
           /\ \A i \in Nat : i < Len(Right(d, n)) =>
                Right(d, n)[Len(Right(d, n)) - i] = d[Len(d) - i]
<1> DEFINE first == IF Len(d) > n THEN Len(d) - n + 1 ELSE 1
           m == IF Len(d) > n THEN n ELSE Len(d)
<1>1. first \in Nat /\ Len(d) \in Nat /\ m \in Nat /\ Right(d, n) = SubSeq(d, first, Len(d))
  BY DEF Right
<1>2. first >= 1 /\ first + m = Len(d) + 1
  OBVIOUS
<1> HIDE DEF first, m
<1>3. \A i \in first..Len(d) : d[i] \in C
  BY <1>1, <1>2
<1>4. /\ Right(d, n) \in Seq(C)
      /\ Len(Right(d, n)) = IF first <= Len(d) THEN Len(d) - first + 1 ELSE 0
      /\ \A i \in 1..Len(d) - first + 1 : Right(d, n)[i] = d[first + i - 1]
  BY <1>1, <1>3, SubSeqProperties
<1>5. Len(Right(d, n)) = m
  BY <1>1, <1>2, <1>4
<1>6. ASSUME NEW i \in Nat, i < m PROVE Right(d, n)[m - i] = d[Len(d) - i]
  <2>1. m - i \in 1..Len(d) - first + 1 /\ first + (m - i) - 1 = Len(d) - i
    BY <1>1, <1>2, <1>6
  <2> QED
    BY <1>4, <2>1
<1> QED
  BY <1>4, <1>5, <1>6 DEF m

(* The ends of two texts are equal if they are of the same length and      *)
(* agree from the right.                                                   *)
LEMMA RightsAgree ==
    ASSUME NEW C, NEW d \in Seq(C), NEW e \in Seq(C), NEW n \in Nat
    PROVE  Right(d, n) = Right(e, n)
           <=> \A i \in 0..n - 1 : /\ i < Len(d) <=> i < Len(e)
                                   /\ i < Len(d) => d[Len(d) - i] = e[Len(e) - i]
<1> DEFINE rd == Right(d, n)
           re == Right(e, n)
<1>1. /\ rd \in Seq(C)
      /\ Len(rd) = IF Len(d) > n THEN n ELSE Len(d)
      /\ \A i \in Nat : i < Len(rd) => rd[Len(rd) - i] = d[Len(d) - i]
  BY RightCounts
<1>2. /\ re \in Seq(C)
      /\ Len(re) = IF Len(e) > n THEN n ELSE Len(e)
      /\ \A i \in Nat : i < Len(re) => re[Len(re) - i] = e[Len(e) - i]
  BY RightCounts
<1>0. Len(d) \in Nat /\ Len(e) \in Nat /\ Len(rd) \in Nat /\ Len(re) \in Nat
  BY <1>1, <1>2
<1> HIDE DEF rd, re
<1>3. ASSUME rd = re, NEW i \in 0..n - 1
      PROVE  /\ i < Len(d) <=> i < Len(e)
             /\ i < Len(d) => d[Len(d) - i] = e[Len(e) - i]
  <2>1. i \in Nat /\ i < n /\ (i < Len(d) <=> i < Len(rd)) /\ (i < Len(e) <=> i < Len(re))
    BY <1>0, <1>1, <1>2
  <2> QED
    BY <1>1, <1>2, <1>3, <2>1
<1>4. ASSUME \A i \in 0..n - 1 : /\ i < Len(d) <=> i < Len(e)
                                 /\ i < Len(d) => d[Len(d) - i] = e[Len(e) - i]
      PROVE  rd = re
  <2>1. Len(rd) = Len(re)
    <3>1. ASSUME Len(rd) < Len(re) PROVE FALSE
      <4>1. Len(rd) \in 0..n - 1 /\ Len(rd) < Len(e) /\ ~(Len(rd) < Len(d))
        BY <1>0, <1>1, <1>2, <3>1
      <4> QED
        BY <1>4, <4>1
    <3>2. ASSUME Len(re) < Len(rd) PROVE FALSE
      <4>1. Len(re) \in 0..n - 1 /\ Len(re) < Len(d) /\ ~(Len(re) < Len(e))
        BY <1>0, <1>1, <1>2, <3>2
      <4> QED
        BY <1>4, <4>1
    <3> QED
      BY <1>0, <3>1, <3>2
  <2>2. ASSUME NEW j \in 1..Len(rd) PROVE rd[j] = re[j]
    <3> DEFINE i == Len(rd) - j
    <3>1. i \in Nat /\ i \in 0..n - 1 /\ i < Len(rd) /\ i < Len(d) /\ Len(rd) - i = j
      BY <1>0, <1>1
    <3> HIDE DEF i
    <3>2. rd[j] = d[Len(d) - i]
      BY <1>1, <3>1
    <3>3. re[j] = e[Len(e) - i]
      BY <1>2, <2>1, <3>1
    <3>4. d[Len(d) - i] = e[Len(e) - i]
      BY <1>4, <3>1
    <3> QED
      BY <3>2, <3>3, <3>4
  <2> QED
    BY <1>1, <1>2, <2>1, <2>2, SeqEqual
<1> QED
  BY <1>3, <1>4 DEF rd, re

LEMMA DigitsTyped ==
    ASSUME NEW C, NEW t \in Seq(C)
    PROVE  digits(t) \in Seq(Digits) /\ Len(digits(t)) \in Nat
  BY KeptTyped DEF digits

LEMMA KeyTyped ==
    ASSUME NEW C, NEW t \in Seq(C)
    PROVE  /\ normalizePhone(t) = Absent <=> Len(digits(t)) < MIN_DIGITS
           /\ Right(digits(t), PHONE_KEY_LENGTH) \in Seq(Digits)
<1>1. Right(digits(t), PHONE_KEY_LENGTH) \in Seq(Digits)
  BY DigitsTyped, RightCounts, IdentifierAssumption
<1>2. Right(digits(t), PHONE_KEY_LENGTH) # Absent
  <2>1. Seq(Digits) \subseteq Seq(Characters)
    BY IdentifierAssumption
  <2> QED
    BY <1>1, <2>1, IdentifierAssumption
<1> QED
  BY <1>1, <1>2 DEF normalizePhone

(* Two numbers have the same key exactly if they are the same number. *)
LEMMA KeysAgree ==
    ASSUME NEW C, NEW t \in Seq(C), NEW u \in Seq(C)
    PROVE  SameNumber(t, u) <=> /\ normalizePhone(t) # Absent /\ normalizePhone(u) # Absent
                                /\ normalizePhone(t) = normalizePhone(u)
<1> DEFINE d == digits(t)
           e == digits(u)
           n == PHONE_KEY_LENGTH
<1>1. /\ d \in Seq(Digits) /\ Len(d) \in Nat /\ e \in Seq(Digits) /\ Len(e) \in Nat
      /\ n \in Nat /\ MIN_DIGITS \in Nat
  BY DigitsTyped, IdentifierAssumption
<1>2. /\ normalizePhone(t) = Absent <=> Len(d) < MIN_DIGITS
      /\ normalizePhone(u) = Absent <=> Len(e) < MIN_DIGITS
  BY KeyTyped
<1>3. /\ normalizePhone(t) # Absent => normalizePhone(t) = Right(d, n)
      /\ normalizePhone(u) # Absent => normalizePhone(u) = Right(e, n)
  BY DEF normalizePhone
<1>4. SameNumber(t, u) <=>
        /\ Len(d) >= MIN_DIGITS /\ Len(e) >= MIN_DIGITS
        /\ \A i \in 0..n - 1 : /\ i < Len(d) <=> i < Len(e)
                               /\ i < Len(d) => d[Len(d) - i] = e[Len(e) - i]
  BY DEF SameNumber
<1> HIDE DEF d, e, n
<1>5. Right(d, n) = Right(e, n)
      <=> \A i \in 0..n - 1 : /\ i < Len(d) <=> i < Len(e)
                              /\ i < Len(d) => d[Len(d) - i] = e[Len(e) - i]
  BY <1>1, RightsAgree
<1>6. /\ Len(d) >= MIN_DIGITS <=> ~(Len(d) < MIN_DIGITS)
      /\ Len(e) >= MIN_DIGITS <=> ~(Len(e) < MIN_DIGITS)
  BY <1>1
<1> QED
  BY <1>2, <1>3, <1>4, <1>5, <1>6

(* The SQL keeps the digits of a text that has nothing else but what it    *)
(* removes.                                                                *)
LEMMA CleanedIsDigits ==
    ASSUME NEW C, NEW t \in Seq(C), ToSet(t) \subseteq Digits \cup Separators
    PROVE  cleanPhone(t) = digits(t)
<1>1. Len(t) \in Nat /\ \A i \in 1..Len(t) : t[i] \in ToSet(t)
  BY DEF ToSet
<1>2. \A c \in ToSet(t) : c \in ToSet(t) \ Separators <=> c \in Digits
  BY IdentifierAssumption
<1>3. kept(t, ToSet(t) \ Separators) = kept(t, Digits)
  BY <1>1, <1>2, KeptAlike
<1> QED
  BY <1>3 DEF cleanPhone, digits

LEMMA NumbersAreFound ==
    ASSUME text \in Seq(Characters)
    PROVE  NumbersAgree
<1> SUFFICES ASSUME text # <<>>, ToSet(text) \subseteq Digits \cup Separators,
                    NEW typed \in PlainNumbers
             PROVE  foundByPhone(text, typed) <=> SameNumber(text, typed)
  BY DEF NumbersAgree
<1>1. typed \in Seq(Characters)
  <2>1. typed \in Seq(Digits)
    BY DEF PlainNumbers, SeqOf
  <2> QED
    BY <2>1, IdentifierAssumption
<1>2. SameNumber(text, typed) <=>
        /\ normalizePhone(text) # Absent /\ normalizePhone(typed) # Absent
        /\ normalizePhone(text) = normalizePhone(typed)
  BY <1>1, KeysAgree
<1>3. cleanPhone(text) = digits(text)
  BY CleanedIsDigits
<1>4. normalizePhone(text) # Absent =>
        normalizePhone(text) = Right(digits(text), PHONE_KEY_LENGTH)
  BY DEF normalizePhone
<1> QED
  BY <1>2, <1>3, <1>4 DEF foundByPhone

-----------------------------------------------------------------------------
(* Texts without the blanks around them, and in lower case. *)

LEMMA LeastIsMin ==
    ASSUME NEW n \in Nat, NEW S \in SUBSET (1..n), S # {}
    PROVE  Min(S) \in S /\ \A y \in S : Min(S) <= y
<1>1. \E x \in S : \A y \in S : x <= y
  <2> SUFFICES ASSUME \A x \in S : \E y \in S : ~(x <= y) PROVE FALSE
    OBVIOUS
  <2> DEFINE T == {k \in Nat : \A y \in S : k < y}
  <2>1. 0 \in T
    OBVIOUS
  <2>2. \A k \in Nat : k \in T => k + 1 \in T
    <3> SUFFICES ASSUME NEW k \in Nat, k \in T, NEW y \in S PROVE k + 1 < y
      OBVIOUS
    <3>1. k < y /\ y \in Nat
      OBVIOUS
    <3>2. PICK z \in S : ~(y <= z)
      OBVIOUS
    <3>3. k < z /\ z \in Nat
      OBVIOUS
    <3> QED
      BY <3>1, <3>2, <3>3
  <2>3. Nat \subseteq T
    BY <2>1, <2>2, NatSetInduction
  <2>4. PICK y \in S : TRUE
    OBVIOUS
  <2>5. y \in Nat /\ y \in T
    BY <2>3
  <2> QED
    BY <2>5
<1> QED
  BY <1>1 DEF Min

LEMMA GreatestIsMax ==
    ASSUME NEW n \in Nat, NEW S \in SUBSET (1..n), S # {}
    PROVE  Max(S) \in S /\ \A y \in S : Max(S) >= y
<1>1. \E x \in S : \A y \in S : x >= y
  <2> DEFINE T == {n + 1 - y : y \in S}
  <2>1. T \in SUBSET (1..n) /\ T # {}
    <3>1. \A y \in S : y \in 1..n
      OBVIOUS
    <3>2. \A y \in 1..n : n + 1 - y \in 1..n
      OBVIOUS
    <3>3. PICK y \in S : TRUE
      OBVIOUS
    <3>4. n + 1 - y \in T
      OBVIOUS
    <3>5. T \subseteq 1..n
      BY <3>1, <3>2
    <3> QED
      BY <3>4, <3>5
  <2>2. Min(T) \in T /\ \A z \in T : Min(T) <= z
    BY <2>1, LeastIsMin
  <2>3. PICK x \in S : Min(T) = n + 1 - x
    BY <2>2
  <2>4. ASSUME NEW y \in S PROVE x >= y
    <3>1. n + 1 - x <= n + 1 - y
      BY <2>2, <2>3
    <3>2. x \in Nat /\ y \in Nat
      OBVIOUS
    <3> QED
      BY <3>1, <3>2
  <2> QED
    BY <2>4
<1> QED
  BY <1>1 DEF Max

LEMMA TrimIsWithin ==
    ASSUME NEW C, NEW t \in Seq(C), trim(t) # <<>>
    PROVE  \E p, q \in 1..Len(t) :
             /\ p <= q
             /\ trim(t) = SubSeq(t, p, q)
             /\ t[p] # Space /\ t[q] # Space
             /\ \A i \in 1..Len(t) : i < p \/ i > q => t[i] = Space
<1> DEFINE inner == {i \in DOMAIN t : t[i] # Space}
<1>1. inner \in SUBSET (1..Len(t)) /\ Len(t) \in Nat
  OBVIOUS
<1>2. inner # {} /\ trim(t) = SubSeq(t, Min(inner), Max(inner))
  BY DEF trim
<1>3. /\ Min(inner) \in inner /\ \A i \in inner : Min(inner) <= i
      /\ Max(inner) \in inner /\ \A i \in inner : Max(inner) >= i
  BY <1>1, <1>2, LeastIsMin, GreatestIsMax
<1>r. PICK p, q : p = Min(inner) /\ q = Max(inner)
  OBVIOUS
<1>4. /\ p \in 1..Len(t) /\ q \in 1..Len(t) /\ p <= q
      /\ t[p] # Space /\ t[q] # Space
  BY <1>1, <1>3, <1>r
<1>6. ASSUME NEW i \in 1..Len(t), i < p \/ i > q PROVE t[i] = Space
  <2>1. \A j \in inner : p <= j /\ q >= j
    BY <1>3, <1>r
  <2>2. p \in Nat /\ q \in Nat /\ i \in Nat
    BY <1>4
  <2>3. i \notin inner
    BY <1>6, <2>1, <2>2
  <2> QED
    BY <2>3
<1> QED
  BY <1>2, <1>4, <1>6, <1>r

LEMMA TrimTyped ==
    ASSUME NEW C, NEW t \in Seq(C)
    PROVE  trim(t) \in Seq(C)
<1>1. CASE trim(t) = <<>>
  BY <1>1
<1>2. CASE trim(t) # <<>>
  <2>1. PICK p, q \in 1..Len(t) : p <= q /\ trim(t) = SubSeq(t, p, q)
    BY <1>2, TrimIsWithin
  <2>2. \A i \in p..q : t[i] \in C
    OBVIOUS
  <2> QED
    BY <2>1, <2>2, SubSeqProperties
<1> QED
  BY <1>1, <1>2

(* Nothing is left to be cut off. *)
LEMMA TrimTwice ==
    ASSUME NEW C, NEW t \in Seq(C), trim(t) # <<>>
    PROVE  trim(trim(t)) = trim(t)
<1>1. PICK p, q \in 1..Len(t) :
        p <= q /\ trim(t) = SubSeq(t, p, q) /\ t[p] # Space /\ t[q] # Space
  BY TrimIsWithin
<1> DEFINE u == trim(t)
           inner == {i \in DOMAIN u : u[i] # Space}
<1>0. u \in Seq(C) /\ Len(u) \in Nat /\ DOMAIN u = 1..Len(u)
  BY TrimTyped
<1>2. Len(u) = q - p + 1 /\ \A i \in 1..q - p + 1 : u[i] = t[p + i - 1]
  <2>1. \A i \in p..q : t[i] \in C
    OBVIOUS
  <2> QED
    BY <1>1, <2>1, SubSeqProperties
<1>3. Len(u) >= 1 /\ u[1] # Space /\ u[Len(u)] # Space
  <2>1. /\ 1 \in 1..q - p + 1 /\ p + 1 - 1 = p
        /\ q - p + 1 \in 1..q - p + 1 /\ p + (q - p + 1) - 1 = q /\ q - p + 1 >= 1
    BY <1>1
  <2> HIDE DEF u
  <2> QED
    BY <1>1, <1>2, <2>1
<1> HIDE DEF u
<1>4. 1 \in inner /\ Len(u) \in inner /\ inner \in SUBSET (1..Len(u))
  BY <1>0, <1>3
<1>5. /\ Min(inner) \in inner /\ Min(inner) <= 1
      /\ Max(inner) \in inner /\ Max(inner) >= Len(u)
  BY <1>0, <1>4, LeastIsMin, GreatestIsMax
<1>6. Min(inner) = 1 /\ Max(inner) = Len(u)
  BY <1>0, <1>4, <1>5
<1>7. trim(u) = SubSeq(u, 1, Len(u))
  BY <1>4, <1>6 DEF trim
<1>8. SubSeq(u, 1, Len(u)) = u
  BY <1>0, <1>3
<1> QED
  BY <1>7, <1>8 DEF u

LEMMA TrimKeeps ==
    ASSUME NEW C, NEW t \in Seq(C), trim(t) # <<>>
    PROVE  /\ digits(trim(t)) = digits(t)
           /\ looksLikeEmail(trim(t)) <=> looksLikeEmail(t)
<1>1. PICK p, q \in 1..Len(t) :
        /\ p <= q
        /\ trim(t) = SubSeq(t, p, q)
        /\ \A i \in 1..Len(t) : i < p \/ i > q => t[i] = Space
  BY TrimIsWithin
<1>2. digits(trim(t)) = digits(t)
  <2>1. \A i \in 1..Len(t) : i < p \/ i > q => t[i] \notin Digits
    BY <1>1, IdentifierAssumption
  <2>2. q \in p..Len(t)
    BY <1>1
  <2>3. kept(SubSeq(t, p, q), Digits) = kept(t, Digits)
    BY <2>1, <2>2, KeptWithin
  <2> QED
    BY <1>1, <2>3 DEF digits
<1>3. looksLikeEmail(trim(t)) <=> looksLikeEmail(t)
  <2> DEFINE u == trim(t)
  <2>1. /\ Len(u) = q - p + 1 /\ u \in Seq(C)
        /\ \A i \in 1..q - p + 1 : u[i] = t[p + i - 1]
    <3>1. \A i \in p..q : t[i] \in C
      OBVIOUS
    <3> QED
      BY <1>1, <3>1, SubSeqProperties
  <2> HIDE DEF u
  <2>2. ASSUME NEW i \in 1..Len(u), u[i] = At PROVE \E j \in 1..Len(t) : t[j] = At
    <3>1. i \in 1..q - p + 1 /\ p + i - 1 \in 1..Len(t)
      BY <2>1
    <3> QED
      BY <2>1, <2>2, <3>1
  <2>3. ASSUME NEW j \in 1..Len(t), t[j] = At PROVE \E i \in 1..Len(u) : u[i] = At
    <3>1. ~(j < p) /\ ~(j > q)
      BY <1>1, <2>3, IdentifierAssumption
    <3>2. j - p + 1 \in 1..q - p + 1 /\ p + (j - p + 1) - 1 = j
      BY <3>1
    <3> QED
      BY <2>1, <2>3, <3>2
  <2>4. DOMAIN u = 1..Len(u) /\ DOMAIN t = 1..Len(t)
    BY <2>1
  <2>5. looksLikeEmail(u) <=> looksLikeEmail(t)
    BY <2>2, <2>3, <2>4 DEF looksLikeEmail, ToSet
  <2> QED
    BY <2>5 DEF u
<1> QED
  BY <1>2, <1>3

(* Case is neither of digits nor of the sign of an address. *)
LEMMA LowerKeeps ==
    ASSUME NEW C, NEW t \in Seq(C)
    PROVE  /\ digits(toLowerCase(t)) = digits(t)
           /\ looksLikeEmail(toLowerCase(t)) <=> looksLikeEmail(t)
           /\ Len(toLowerCase(t)) = Len(t)
           /\ (\A i \in 1..Len(t) : toLowerCase(t)[i] \in Digits)
              => \A i \in 1..Len(t) : t[i] \in Digits
<1> DEFINE u == toLowerCase(t)
<1>0. Len(t) \in Nat /\ DOMAIN t = 1..Len(t)
  OBVIOUS
<1>1. /\ u = [i \in 1..Len(t) |-> IF t[i] \in DOMAIN Lower THEN Lower[t[i]] ELSE t[i]]
      /\ DOMAIN u = 1..Len(t)
  BY <1>0 DEF toLowerCase
<1>2. Len(u) = Len(t)
  <2>1. u \in Seq({u[i] : i \in 1..Len(t)})
    BY <1>0, <1>1
  <2> HIDE DEF u
  <2> QED
    BY <1>0, <1>1, <2>1
<1>3. ASSUME NEW i \in 1..Len(t)
      PROVE  /\ \/ t[i] \in Digits /\ u[i] \in Digits /\ t[i] = u[i]
                \/ t[i] \notin Digits /\ u[i] \notin Digits
             /\ u[i] = At <=> t[i] = At
  <2>1. CASE t[i] \in DOMAIN Lower
    <3>1. u[i] = Lower[t[i]]
      BY <1>1, <2>1
    <3> QED
      BY <2>1, <3>1, IdentifierAssumption
  <2>2. CASE t[i] \notin DOMAIN Lower
    <3>1. u[i] = t[i]
      BY <1>1, <2>2
    <3> QED
      BY <3>1
  <2> QED
    BY <2>1, <2>2
<1> HIDE DEF u
<1>4. kept(u, Digits) = kept(t, Digits)
  BY <1>0, <1>2, <1>3, KeptAlike
<1>5. looksLikeEmail(u) <=> looksLikeEmail(t)
  BY <1>0, <1>1, <1>3 DEF looksLikeEmail, ToSet
<1> QED
  BY <1>2, <1>3, <1>4, <1>5 DEF u, digits

-----------------------------------------------------------------------------
(* The key under which an identifier is counted. *)

KeyOf(t) ==
    IF looksLikeEmail(t) \/ normalizePhone(t) = Absent THEN toLowerCase(t)
    ELSE normalizePhone(t)

(* A number is counted as no text that is not one: it is of digits, and    *)
(* longer than what is too short for a number.                             *)
LEMMA NumberIsNoText ==
    ASSUME NEW C, NEW t \in Seq(C), NEW u \in Seq(C), normalizePhone(t) # Absent,
           looksLikeEmail(u) \/ normalizePhone(u) = Absent
    PROVE  normalizePhone(t) # toLowerCase(u)
<1> SUFFICES ASSUME normalizePhone(t) = toLowerCase(u) PROVE FALSE
  OBVIOUS
<1> DEFINE d == digits(t)
           key == Right(d, PHONE_KEY_LENGTH)
<1>0. MIN_DIGITS \in Nat /\ PHONE_KEY_LENGTH \in Nat /\ MIN_DIGITS <= PHONE_KEY_LENGTH
  BY IdentifierAssumption
<1>1. d \in Seq(Digits) /\ Len(d) \in Nat /\ ~(Len(d) < MIN_DIGITS)
  BY DigitsTyped, KeyTyped
<1>2. toLowerCase(u) = key
  BY DEF normalizePhone
<1> HIDE DEF d
<1>3. key \in Seq(Digits) /\ Len(key) = IF Len(d) > PHONE_KEY_LENGTH THEN PHONE_KEY_LENGTH ELSE Len(d)
  BY <1>0, <1>1, RightCounts
<1>4. Len(key) \in Nat /\ ~(Len(key) < MIN_DIGITS)
  BY <1>0, <1>1, <1>3
<1> HIDE DEF key
<1>5. Len(key) = Len(u) /\ Len(u) \in Nat /\ DOMAIN u = 1..Len(u)
  BY <1>2, LowerKeeps
<1>6. \A i \in 1..Len(u) : u[i] \in Digits
  <2>1. \A i \in 1..Len(u) : toLowerCase(u)[i] \in Digits
    BY <1>2, <1>3, <1>5
  <2> QED
    BY <2>1, LowerKeeps
<1>7. CASE looksLikeEmail(u)
  BY <1>5, <1>6, <1>7, IdentifierAssumption DEF looksLikeEmail, ToSet
<1>8. CASE normalizePhone(u) = Absent
  <2>1. Len(digits(u)) = Len(u)
    BY <1>5, <1>6, KeptTyped DEF digits
  <2> QED
    BY <1>4, <1>5, <1>8, <2>1, KeyTyped
<1> QED
  BY <1>7, <1>8

(* Two texts have one key exactly if they are the same identifier. *)
LEMMA KeysTellIdentifiers ==
    ASSUME NEW C, NEW t \in Seq(C), NEW u \in Seq(C), trim(t) # <<>>, trim(u) # <<>>
    PROVE  KeyOf(trim(t)) = KeyOf(trim(u)) <=> SameIdentifier(t, u)
<1>r. PICK a, b : a = trim(t) /\ b = trim(u)
  OBVIOUS
<1>0. a \in Seq(C) /\ b \in Seq(C)
  BY <1>r, TrimTyped
<1>1. /\ digits(a) = digits(t) /\ (looksLikeEmail(a) <=> looksLikeEmail(t))
      /\ digits(b) = digits(u) /\ (looksLikeEmail(b) <=> looksLikeEmail(u))
  BY <1>r, TrimKeeps
<1>2. SameNumber(t, u) <=> SameNumber(a, b)
  BY <1>1 DEF SameNumber
<1>3. SameNumber(a, b) <=> /\ normalizePhone(a) # Absent /\ normalizePhone(b) # Absent
                           /\ normalizePhone(a) = normalizePhone(b)
  BY <1>0, KeysAgree
<1>4. SameIdentifier(t, u) <=>
        /\ looksLikeEmail(a) <=> looksLikeEmail(b)
        /\ \/ ~looksLikeEmail(a) /\ SameNumber(a, b)
           \/ toLowerCase(a) = toLowerCase(b)
  BY <1>1, <1>2, <1>r DEF SameIdentifier
<1>5. /\ digits(toLowerCase(a)) = digits(a)
      /\ looksLikeEmail(toLowerCase(a)) <=> looksLikeEmail(a)
      /\ digits(toLowerCase(b)) = digits(b)
      /\ looksLikeEmail(toLowerCase(b)) <=> looksLikeEmail(b)
  BY <1>0, LowerKeeps
(* Texts that differ in case only are both addresses, or numbers, or not. *)
<1>6. ASSUME toLowerCase(a) = toLowerCase(b)
      PROVE  /\ looksLikeEmail(a) <=> looksLikeEmail(b)
             /\ normalizePhone(a) = normalizePhone(b)
  BY <1>5, <1>6 DEF normalizePhone
<1> DEFINE IsText(x) == looksLikeEmail(x) \/ normalizePhone(x) = Absent
<1>7. CASE IsText(a) /\ IsText(b)
  <2>1. KeyOf(a) = toLowerCase(a) /\ KeyOf(b) = toLowerCase(b)
    BY <1>7 DEF KeyOf
  <2> QED
    BY <1>3, <1>4, <1>6, <1>7, <1>r, <2>1
<1>8. CASE IsText(a) /\ ~IsText(b)
  <2>1. KeyOf(a) = toLowerCase(a) /\ KeyOf(b) = normalizePhone(b)
    BY <1>8 DEF KeyOf
  <2>2. KeyOf(a) # KeyOf(b)
    BY <1>0, <1>8, <2>1, NumberIsNoText
  <2> QED
    BY <1>3, <1>4, <1>6, <1>8, <1>r, <2>2
<1>9. CASE ~IsText(a) /\ IsText(b)
  <2>1. KeyOf(a) = normalizePhone(a) /\ KeyOf(b) = toLowerCase(b)
    BY <1>9 DEF KeyOf
  <2>2. KeyOf(a) # KeyOf(b)
    BY <1>0, <1>9, <2>1, NumberIsNoText
  <2> QED
    BY <1>3, <1>4, <1>6, <1>9, <1>r, <2>2
<1>10. CASE ~IsText(a) /\ ~IsText(b)
  <2>1. KeyOf(a) = normalizePhone(a) /\ KeyOf(b) = normalizePhone(b)
    BY <1>10 DEF KeyOf
  <2> QED
    BY <1>3, <1>4, <1>6, <1>10, <1>r, <2>1
<1> QED
  BY <1>7, <1>8, <1>9, <1>10

LEMMA LoginsAreCounted ==
    ASSUME text \in Seq(Characters)
    PROVE  CountedWhereItTries
<1> SUFFICES ASSUME trim(text) # <<>>, NEW body \in Bodies, loginIdentifier(body) # Absent
             PROVE  accountKey(body) = accountKey(Just(text))
                    <=> SameIdentifier(loginIdentifier(body), text)
  BY DEF CountedWhereItTries
<1> DEFINE fields == <<"identifier", "email", "phone">>
           given(b) == {i \in DOMAIN fields : /\ b[fields[i]] # Absent
                                              /\ trim(b[fields[i]]) # <<>>}
<1>1. /\ DOMAIN fields = 1..3 /\ 3 \in Nat
      /\ \A i \in 1..3 : fields[i] \in Fields
      /\ fields[1] = "identifier" /\ fields[2] = "email" /\ fields[3] = "phone"
  BY DEF Fields
<1>2. \A b : /\ loginIdentifier(b) = firstOf(b, fields)
             /\ accountKey(b) = IF firstOf(b, fields) = Absent THEN Absent
                                ELSE KeyOf(firstOf(b, fields))
  BY DEF loginIdentifier, accountKey, accountFields, KeyOf
<1>3. \A b : firstOf(b, fields) = IF given(b) = {} THEN Absent
                                  ELSE trim(b[fields[Min(given(b))]])
  BY DEF firstOf
<1> HIDE DEF fields
(* The text by itself is put in the first field. *)
<1>4. firstOf(Just(text), fields) = trim(text) /\ trim(text) # Absent
  <2>1. trim(text) # Absent /\ text # Absent
    BY TrimTyped, IdentifierAssumption
  <2>2. /\ Just(text)[fields[1]] = text
        /\ Just(text)[fields[2]] = Absent /\ Just(text)[fields[3]] = Absent
    BY <1>1 DEF Just, Fields
  <2>3. given(Just(text)) = {1}
    BY <1>1, <2>1, <2>2
  <2>4. Min({1}) = 1
    <3>1. {1} \in SUBSET (1..1) /\ {1} # {} /\ 1 \in Nat
      OBVIOUS
    <3>2. Min({1}) \in {1}
      BY <3>1, LeastIsMin
    <3> QED
      BY <3>2
  <2> QED
    BY <1>3, <2>1, <2>2, <2>3, <2>4
<1>5. PICK v \in Seq(Characters) : /\ trim(v) # <<>> /\ trim(v) # Absent
                                   /\ firstOf(body, fields) = trim(v)
  <2>1. given(body) # {}
    BY <1>2, <1>3
  <2>2. given(body) \in SUBSET (1..3)
    BY <1>1
  <2>3. Min(given(body)) \in given(body)
    BY <1>1, <2>1, <2>2, LeastIsMin
  <2>r. PICK i \in 1..3 : i = Min(given(body))
    BY <2>2, <2>3
  <2>4. body[fields[i]] # Absent /\ trim(body[fields[i]]) # <<>>
    BY <2>3, <2>r
  <2>5. body[fields[i]] \in Seq(Characters)
    BY <1>1, <2>4, IdentifierAssumption DEF Bodies
  <2>6. firstOf(body, fields) = trim(body[fields[i]])
    BY <1>3, <2>1, <2>r
  <2>7. trim(body[fields[i]]) # Absent
    BY <2>5, TrimTyped, IdentifierAssumption
  <2> QED
    BY <2>4, <2>5, <2>6, <2>7
<1>6. /\ loginIdentifier(body) = trim(v) /\ accountKey(body) = KeyOf(trim(v))
      /\ accountKey(Just(text)) = KeyOf(trim(text))
  BY <1>2, <1>4, <1>5
<1>7. trim(v) \in Seq(Characters) /\ trim(trim(v)) = trim(v)
  BY <1>5, TrimTyped, TrimTwice
<1>8. KeyOf(trim(trim(v))) = KeyOf(trim(text)) <=> SameIdentifier(trim(v), text)
  BY <1>5, <1>7, KeysTellIdentifiers
<1> QED
  BY <1>6, <1>7, <1>8

-----------------------------------------------------------------------------
(* Whatever is typed. *)

LEMMA TextTyped == TextSpec => [](text \in Seq(Characters))
<1>1. TextInit => text \in Seq(Characters)
  BY DEF TextInit
<1>2. text \in Seq(Characters) /\ [Type]_text => (text \in Seq(Characters))'
  BY DEF Type
<1> QED
  BY <1>1, <1>2, PTL DEF TextSpec

(* A number finds the accounts that have it, and no others, with or        *)
(* without a country code and a trunk 0, however the stored one is         *)
(* written with the separators that CLEAN_PHONE_SQL removes: for all       *)
(* texts, and whatever the length of the key and the least number of       *)
(* digits (findAllByPhone of UserRepository.ts).                           *)
THEOREM NumbersFindTheirAccounts == TextSpec => []NumbersAgree
  BY TextTyped, NumbersAreFound, PTL

(* Whatever is put in the three fields of a login, the limiter counts it   *)
(* with those that try the same identifier, up to case, blanks around it   *)
(* and the writing of a number, and with no others: for all texts, as long *)
(* as a text with too few digits for a number is shorter than a key        *)
(* (accountKey of rateLimiter.ts, loginIdentifier of AuthController.ts).   *)
THEOREM LoginsAreCountedWhereTheyTry == TextSpec => []CountedWhereItTries
  BY TextTyped, LoginsAreCounted, PTL
=============================================================================
