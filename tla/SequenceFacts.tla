---------------------------- MODULE SequenceFacts ----------------------------
(* Facts about numbers and sequences that the proofs of this project cite. *)
EXTENDS Naturals, Sequences, SequencesExt, SequenceTheorems,
        WellFoundedInduction, TLAPS

(* A set of natural numbers has a least one, ...                           *)
LEMMA LeastNumber ==
  ASSUME NEW T, T \subseteq Nat, T # {}
  PROVE  \E n \in T : \A m \in T : n <= m
<1> DEFINE R == OpToRel(<, Nat)
<1>1. IsWellFoundedOn(R, Nat)
  BY NatLessThanWellFounded
<1>2. \A m, n \in Nat : m < n => <<m, n>> \in R
  BY DEF OpToRel
<1> HIDE DEF R
<1>3. PICK n \in T : \A m \in T : ~(<<m, n>> \in R)
  BY <1>1, WFMin
<1>4. ASSUME NEW m \in T PROVE n <= m
  <2>1. n \in Nat /\ m \in Nat
    OBVIOUS
  <2>2. ~(m < n)
    BY <2>1, <1>2, <1>3
  <2>3. QED
    BY ONLY <2>1, <2>2
<1>5. QED
  BY <1>4

(* ... and, if it has a bound, a greatest one.                             *)
LEMMA GreatestNumber ==
  ASSUME NEW bound \in Nat, NEW T, T \subseteq 0..bound, T # {}
  PROVE  \E n \in T : \A m \in T : m <= n
<1> DEFINE U == {bound - n : n \in T}
<1>1. U \subseteq Nat /\ U # {}
  <2>1. \A n \in T : n \in 0..bound
    OBVIOUS
  <2>2. \A n \in 0..bound : bound - n \in Nat
    OBVIOUS
  <2>3. QED
    BY <2>1, <2>2
<1>2. PICK u \in U : \A v \in U : u <= v
  <2> HIDE DEF U
  <2>1. QED
    BY <1>1, LeastNumber
<1>3. PICK n \in T : u = bound - n
  OBVIOUS
<1>4. ASSUME NEW m \in T PROVE m <= n
  <2>1. bound - n <= bound - m
    BY <1>2, <1>3
  <2>2. m \in 0..bound /\ n \in 0..bound
    OBVIOUS
  <2>3. QED
    BY <2>1, <2>2
<1>5. QED
  BY <1>4

(* Min and Max of the community modules are what they say.                 *)
LEMMA MinFacts ==
  ASSUME NEW T, T \subseteq Nat, T # {}
  PROVE  Min(T) \in T /\ \A m \in T : Min(T) <= m
BY LeastNumber DEF Min

LEMMA MaxFacts ==
  ASSUME NEW bound \in Nat, NEW T, T \subseteq 0..bound, T # {}
  PROVE  Max(T) \in T /\ \A m \in T : m <= Max(T)
<1>1. PICK n \in T : \A m \in T : m <= n
  BY GreatestNumber
<1>2. \A m \in T : n >= m
  BY <1>1
<1>3. Max(T) \in T /\ \A m \in T : Max(T) >= m
  BY <1>2 DEF Max
<1>4. QED
  BY <1>3

(* Induction: a set that has 0, and n + 1 with every n, has every number.  *)
LEMMA Induction ==
  ASSUME NEW T, 0 \in T, \A n \in Nat : n \in T => n + 1 \in T
  PROVE  Nat \subseteq T
<1> DEFINE Missing == Nat \ T
<1>1. SUFFICES ASSUME Missing # {} PROVE FALSE
  OBVIOUS
<1>2. PICK n \in Missing : \A m \in Missing : n <= m
  <2>1. Missing \subseteq Nat
    OBVIOUS
  <2> HIDE DEF Missing
  <2>2. QED
    BY <1>1, <2>1, LeastNumber
<1>3. n # 0 /\ n - 1 \in Nat /\ n - 1 \in T
  BY <1>2
<1>4. (n - 1) + 1 \in T
  BY <1>3
<1>5. QED
  BY <1>2, <1>4

(* f goes from base in steps, in S.                                        *)
GoesInSteps(f, n, S, base, step) ==
  /\ f \in [0..n -> S]
  /\ f[0] = base
  /\ \A i \in 1..n : f[i] = step[i][f[i - 1]]

(* A function is defined by its value at 0 and by steps from each value to *)
(* the next one.                                                           *)
LEMMA Recursion ==
  ASSUME NEW n \in Nat, NEW S, NEW base \in S, NEW step \in [1..n -> [S -> S]]
  PROVE  \E f : GoesInSteps(f, n, S, base, step)
<1> DEFINE Upto(k) ==
             \E f \in [0..k -> S] :
               f[0] = base /\ \A i \in 1..k : f[i] = step[i][f[i - 1]]
           T == {k \in Nat : k <= n => Upto(k)}
<1>1. Upto(0)
  <2>1. /\ [i \in 0..0 |-> base] \in [0..0 -> S]
        /\ [i \in 0..0 |-> base][0] = base
        /\ \A i \in 1..0 : FALSE
    OBVIOUS
  <2>2. QED
    BY <2>1
<1>2. ASSUME NEW k \in Nat, k + 1 <= n, Upto(k) PROVE Upto(k + 1)
  <2>1. PICK f \in [0..k -> S] :
          f[0] = base /\ \A i \in 1..k : f[i] = step[i][f[i - 1]]
    BY <1>2
  <2> DEFINE g == [i \in 0..k + 1 |-> IF i = k + 1 THEN step[k + 1][f[k]] ELSE f[i]]
  <2>2. step[k + 1][f[k]] \in S
    BY <1>2
  <2>3. g \in [0..k + 1 -> S]
    <3>1. \A i \in 0..k + 1 : i # k + 1 => i \in 0..k
      OBVIOUS
    <3>2. QED
      BY <2>2, <3>1
  <2>4. g[0] = base
    BY <2>1
  <2>5. ASSUME NEW i \in 1..k + 1 PROVE g[i] = step[i][g[i - 1]]
    <3>1. i - 1 \in 0..k + 1 /\ i - 1 # k + 1 /\ g[i - 1] = f[i - 1]
      OBVIOUS
    <3>2. CASE i = k + 1
      BY <3>1, <3>2
    <3>3. CASE i # k + 1
      <4>1. i \in 1..k /\ g[i] = f[i]
        BY <3>3
      <4>2. QED
        BY <2>1, <3>1, <4>1
    <3>4. QED
      BY <3>2, <3>3
  <2> HIDE DEF g
  <2>6. QED
    BY <2>3, <2>4, <2>5
<1>3. Nat \subseteq T
  <2>1. 0 \in T
    BY <1>1
  <2>2. ASSUME NEW k \in Nat, k \in T PROVE k + 1 \in T
    <3>1. SUFFICES ASSUME k + 1 <= n PROVE Upto(k + 1)
      OBVIOUS
    <3>2. Upto(k)
      BY <2>2, <3>1
    <3> HIDE DEF Upto
    <3>3. QED
      BY <1>2, <3>1, <3>2
  <2> HIDE DEF T
  <2>3. QED
    BY <2>1, <2>2, Induction
<1>4. Upto(n)
  BY <1>3
<1>5. QED
  BY <1>4 DEF GoesInSteps

(* What Append does to the length and to the elements.                     *)
LEMMA AppendFacts ==
  ASSUME NEW S, NEW s \in Seq(S), NEW e \in S
  PROVE  /\ Append(s, e) \in Seq(S)
         /\ Len(Append(s, e)) = Len(s) + 1
         /\ Append(s, e)[Len(s) + 1] = e
         /\ \A i \in 1..Len(s) : Append(s, e)[i] = s[i]
<1>1. \A i \in 1..Len(s) : Append(s, e)[i] = s[i]
  OBVIOUS
<1>2. QED
  BY <1>1

(* What Head and Tail take from a sequence.                                *)
LEMMA TailFacts ==
  ASSUME NEW S, NEW s \in Seq(S), s # <<>>
  PROVE  /\ Head(s) \in S /\ Head(s) = s[1]
         /\ Tail(s) \in Seq(S)
         /\ Len(s) >= 1 /\ Len(Tail(s)) = Len(s) - 1
         /\ \A i \in 1..Len(Tail(s)) : Tail(s)[i] = s[i + 1]
<1>1. Len(s) >= 1
  OBVIOUS
<1>2. \A i \in 1..Len(Tail(s)) : Tail(s)[i] = s[i + 1]
  BY <1>1
<1>3. QED
  BY <1>1, <1>2

(* What RemoveAt leaves: what was behind the removed element moves up.     *)
LEMMA RemoveAtFacts ==
  ASSUME NEW S, NEW s \in Seq(S), NEW k \in 1..Len(s)
  PROVE  /\ RemoveAt(s, k) \in Seq(S)
         /\ Len(RemoveAt(s, k)) = Len(s) - 1
         /\ \A i \in 1..Len(s) - 1 :
              RemoveAt(s, k)[i] = IF i < k THEN s[i] ELSE s[i + 1]
<1> DEFINE front == SubSeq(s, 1, k - 1)
           back  == SubSeq(s, k + 1, Len(s))
<1>0. k \in Nat /\ 1 <= k /\ k <= Len(s) /\ Len(s) \in Nat
  BY LenProperties
<1>1. /\ front \in Seq(S)
      /\ Len(front) = k - 1
      /\ \A i \in 1..k - 1 : front[i] = s[i]
  <2>1. \A i \in 1..k - 1 : s[i] \in S
    BY <1>0, ElementOfSeq
  <2>2. /\ front \in Seq(S)
        /\ Len(front) = IF 1 <= k - 1 THEN k - 1 - 1 + 1 ELSE 0
        /\ \A i \in 1..k - 1 - 1 + 1 : front[i] = s[1 + i - 1]
    BY <1>0, <2>1, SubSeqProperties
  <2> HIDE DEF front
  <2>3. QED
    BY <1>0, <2>2
<1>2. /\ back \in Seq(S)
      /\ Len(back) = Len(s) - k
      /\ \A i \in 1..Len(s) - k : back[i] = s[k + i]
  <2>1. \A i \in k + 1..Len(s) : s[i] \in S
    BY <1>0, ElementOfSeq
  <2>2. /\ back \in Seq(S)
        /\ Len(back) = IF k + 1 <= Len(s) THEN Len(s) - (k + 1) + 1 ELSE 0
        /\ \A i \in 1..Len(s) - (k + 1) + 1 : back[i] = s[k + 1 + i - 1]
    BY <1>0, <2>1, SubSeqProperties
  <2> HIDE DEF back
  <2>3. QED
    BY <1>0, <2>2
<1>3. RemoveAt(s, k) = front \o back
  BY DEF RemoveAt
<1> HIDE DEF front, back
<1>4. /\ front \o back \in Seq(S)
      /\ Len(front \o back) = Len(front) + Len(back)
      /\ \A i \in 1..Len(front) + Len(back) :
           (front \o back)[i] = IF i <= Len(front) THEN front[i]
                                ELSE back[i - Len(front)]
  BY <1>1, <1>2, ConcatProperties
<1>5. QED
  BY <1>0, <1>1, <1>2, <1>3, <1>4

(* The elements of a sequence, by their places.                            *)
LEMMA ToSetFacts ==
  ASSUME NEW S, NEW s \in Seq(S)
  PROVE  /\ ToSet(s) \subseteq S
         /\ \A x : x \in ToSet(s) <=> \E i \in 1..Len(s) : s[i] = x
BY LenProperties, ElementOfSeq DEF ToSet

(* The elements after appending and after concatenating.                   *)
LEMMA ToSetJoined ==
  ASSUME NEW S, NEW s \in Seq(S), NEW t \in Seq(S), NEW e \in S
  PROVE  /\ ToSet(<<>>) = {}
         /\ ToSet(Append(s, e)) = ToSet(s) \cup {e}
         /\ ToSet(s \o t) = ToSet(s) \cup ToSet(t)
<1>1. ToSet(<<>>) = {}
  BY DEF ToSet
<1>2. ToSet(Append(s, e)) = ToSet(s) \cup {e}
  <2>1. /\ Append(s, e) \in Seq(S) /\ Len(s) \in Nat
        /\ Len(Append(s, e)) = Len(s) + 1
        /\ Append(s, e)[Len(s) + 1] = e
        /\ \A i \in 1..Len(s) : Append(s, e)[i] = s[i]
    BY AppendFacts, LenProperties
  <2>2. \A x : x \in ToSet(Append(s, e)) <=>
                 \E i \in 1..Len(s) + 1 : Append(s, e)[i] = x
    <3> DEFINE longer == Append(s, e)
    <3>1. longer \in Seq(S) /\ Len(longer) = Len(s) + 1
      BY <2>1
    <3> HIDE DEF longer
    <3>2. \A x : x \in ToSet(longer) <=> \E i \in 1..Len(longer) : longer[i] = x
      BY <3>1, ToSetFacts
    <3>3. QED
      BY <3>1, <3>2 DEF longer
  <2>3. \A x : x \in ToSet(s) <=> \E i \in 1..Len(s) : s[i] = x
    BY ToSetFacts
  <2>4. \A i \in 1..Len(s) + 1 : i \in 1..Len(s) \/ i = Len(s) + 1
    BY <2>1
  <2>5. 1..Len(s) \subseteq 1..Len(s) + 1 /\ Len(s) + 1 \in 1..Len(s) + 1
    BY <2>1
  <2>6. QED
    BY <2>1, <2>2, <2>3, <2>4, <2>5
<1>3. ToSet(s \o t) = ToSet(s) \cup ToSet(t)
  <2>1. ToSet(s) = Range(s) /\ ToSet(t) = Range(t)
    BY DEF ToSet, Range
  <2>2. ToSet(s \o t) = Range(s \o t)
    BY DEF ToSet, Range
  <2>3. QED
    BY <2>1, <2>2, RangeConcatenation
<1>4. QED
  BY <1>1, <1>2, <1>3

(* The elements after removing one that occurs once.                       *)
LEMMA ToSetRemoved ==
  ASSUME NEW S, NEW s \in Seq(S), NEW k \in 1..Len(s),
         \A i, j \in 1..Len(s) : s[i] = s[j] => i = j
  PROVE  /\ ToSet(RemoveAt(s, k)) = ToSet(s) \ {s[k]}
         /\ k = 1 => ToSet(Tail(s)) = ToSet(s) \ {s[1]}
<1>0. /\ Len(s) \in Nat /\ k \in Nat /\ 1 <= k /\ k <= Len(s)
      /\ \A x : x \in ToSet(s) <=> \E i \in 1..Len(s) : s[i] = x
  BY LenProperties, ToSetFacts
<1>1. ToSet(RemoveAt(s, k)) = ToSet(s) \ {s[k]}
  <2>1. /\ RemoveAt(s, k) \in Seq(S)
        /\ Len(RemoveAt(s, k)) = Len(s) - 1
        /\ \A i \in 1..Len(s) - 1 :
             RemoveAt(s, k)[i] = IF i < k THEN s[i] ELSE s[i + 1]
    BY RemoveAtFacts
  <2>2. \A x : x \in ToSet(RemoveAt(s, k)) <=>
                 \E i \in 1..Len(s) - 1 : RemoveAt(s, k)[i] = x
    BY <2>1, ToSetFacts
  <2>3. ASSUME NEW x, x \in ToSet(RemoveAt(s, k))
        PROVE  x \in ToSet(s) \ {s[k]}
    <3>1. PICK i \in 1..Len(s) - 1 : RemoveAt(s, k)[i] = x
      BY <2>2, <2>3
    <3>2. CASE i < k
      BY <1>0, <2>1, <3>1, <3>2
    <3>3. CASE ~(i < k)
      <4>1. i + 1 \in 1..Len(s) /\ i + 1 # k /\ x = s[i + 1]
        BY <1>0, <2>1, <3>1, <3>3
      <4>2. QED
        BY <1>0, <4>1
    <3>4. QED
      BY <3>2, <3>3
  <2>4. ASSUME NEW x, x \in ToSet(s) \ {s[k]}
        PROVE  x \in ToSet(RemoveAt(s, k))
    <3>1. PICK i \in 1..Len(s) : s[i] = x
      BY <1>0, <2>4
    <3>2. i # k
      BY <2>4, <3>1
    <3>3. CASE i < k
      <4>1. i \in 1..Len(s) - 1 /\ RemoveAt(s, k)[i] = x
        BY <1>0, <2>1, <3>1, <3>3
      <4>2. QED
        BY <2>2, <4>1
    <3>4. CASE i > k
      <4>1. i - 1 \in 1..Len(s) - 1 /\ ~(i - 1 < k) /\ i - 1 + 1 = i
        BY <1>0, <3>1, <3>4
      <4>2. RemoveAt(s, k)[i - 1] = x
        BY <2>1, <3>1, <4>1
      <4>3. QED
        BY <2>2, <4>1, <4>2
    <3>5. QED
      BY <1>0, <3>1, <3>2, <3>3, <3>4
  <2>5. QED
    BY <2>3, <2>4
<1>2. ASSUME k = 1 PROVE ToSet(Tail(s)) = ToSet(s) \ {s[1]}
  <2>1. s # <<>>
    BY <1>0
  <2>2. RemoveAt(s, 1) = Tail(s)
    <3>1. /\ Tail(s) \in Seq(S) /\ Len(Tail(s)) = Len(s) - 1
          /\ \A i \in 1..Len(Tail(s)) : Tail(s)[i] = s[i + 1]
      BY <2>1, TailFacts
    <3>2. /\ RemoveAt(s, 1) \in Seq(S)
          /\ Len(RemoveAt(s, 1)) = Len(s) - 1
          /\ \A i \in 1..Len(s) - 1 :
               RemoveAt(s, 1)[i] = IF i < 1 THEN s[i] ELSE s[i + 1]
      BY <1>2, RemoveAtFacts
    <3>3. \A i \in 1..Len(s) - 1 : RemoveAt(s, 1)[i] = Tail(s)[i]
      BY <1>0, <3>1, <3>2
    <3>4. QED
      BY <3>1, <3>2, <3>3, SeqEqual
  <2>3. QED
    BY <1>1, <1>2, <2>2
<1>3. QED
  BY <1>1, <1>2

(* The part of a sequence behind its first j elements, up to the k-th.     *)
LEMMA PartElements ==
  ASSUME NEW S, NEW s \in Seq(S), NEW j \in Nat, NEW k \in Nat, k <= Len(s)
  PROVE  /\ SubSeq(s, j + 1, k) \in Seq(S)
         /\ Len(SubSeq(s, j + 1, k)) = IF j < k THEN k - j ELSE 0
         /\ \A i \in 1..k - j : SubSeq(s, j + 1, k)[i] = s[j + i]
<1>1. \A i \in j + 1..k : s[i] \in S
  <2>1. \A i \in j + 1..k : i \in 1..Len(s)
    BY LenProperties
  <2>2. QED
    BY <2>1, ElementOfSeq
<1> DEFINE m == j + 1
<1>2. m \in Int /\ k \in Int /\ k - m + 1 = k - j /\ (m <= k <=> j < k)
  OBVIOUS
<1>3. \A i \in 1..k - j : m + i - 1 = j + i
  OBVIOUS
<1>4. \A i \in m..k : s[i] \in S
  BY <1>1
<1> HIDE DEF m
<1>5. /\ SubSeq(s, m, k) \in Seq(S)
      /\ Len(SubSeq(s, m, k)) = IF m <= k THEN k - m + 1 ELSE 0
      /\ \A i \in 1..k - m + 1 : SubSeq(s, m, k)[i] = s[m + i - 1]
  BY <1>2, <1>4, SubSeqProperties
<1>6. \A i \in 1..k - j : SubSeq(s, m, k)[i] = s[j + i]
  BY <1>2, <1>3, <1>5
<1>7. QED
  BY <1>2, <1>5, <1>6 DEF m

(* A part of a sequence, and what it is after the sequence has grown: the  *)
(* same, or longer by the new element if it reached to the end.            *)
LEMMA PartOfLonger ==
  ASSUME NEW S, NEW s \in Seq(S), NEW e \in S, NEW j \in Nat
  PROVE  /\ \A k \in Nat : k <= Len(s) =>
              SubSeq(Append(s, e), j + 1, k) = SubSeq(s, j + 1, k)
         /\ j <= Len(s) =>
              SubSeq(Append(s, e), j + 1, Len(s) + 1)
                = Append(SubSeq(s, j + 1, Len(s)), e)
<1> DEFINE longer == Append(s, e)
<1>1. /\ Len(s) \in Nat
      /\ longer \in Seq(S) /\ Len(longer) = Len(s) + 1
      /\ longer[Len(s) + 1] = e
      /\ \A i \in 1..Len(s) : longer[i] = s[i]
  BY AppendFacts, LenProperties
<1> HIDE DEF longer
<1>2. ASSUME NEW k \in Nat, k <= Len(s)
      PROVE  SubSeq(longer, j + 1, k) = SubSeq(s, j + 1, k)
  <2> DEFINE part == SubSeq(s, j + 1, k)
             same == SubSeq(longer, j + 1, k)
  <2>1. /\ part \in Seq(S) /\ Len(part) = IF j < k THEN k - j ELSE 0
        /\ \A i \in 1..k - j : part[i] = s[j + i]
    BY <1>2, PartElements
  <2>2. k <= Len(longer)
    BY <1>1, <1>2
  <2>3. /\ same \in Seq(S) /\ Len(same) = IF j < k THEN k - j ELSE 0
        /\ \A i \in 1..k - j : same[i] = longer[j + i]
    BY <1>1, <2>2, PartElements
  <2> HIDE DEF part, same
  <2>4. ASSUME NEW i \in 1..Len(part) PROVE part[i] = same[i]
    <3>1. i \in 1..k - j /\ j + i \in 1..Len(s)
      BY <1>1, <1>2, <2>1
    <3>2. QED
      BY <1>1, <2>1, <2>3, <3>1
  <2>5. part = same
    BY <2>1, <2>3, <2>4, SeqEqual
  <2>6. QED
    BY <2>5 DEF part, same
<1>3. ASSUME j <= Len(s)
      PROVE  SubSeq(longer, j + 1, Len(s) + 1) = Append(SubSeq(s, j + 1, Len(s)), e)
  <2> DEFINE part == SubSeq(s, j + 1, Len(s))
             more == SubSeq(longer, j + 1, Len(s) + 1)
  <2>1. /\ part \in Seq(S) /\ Len(part) = Len(s) - j
        /\ \A i \in 1..Len(s) - j : part[i] = s[j + i]
    BY <1>1, <1>3, PartElements
  <2>2. /\ more \in Seq(S) /\ Len(more) = Len(s) + 1 - j
        /\ \A i \in 1..Len(s) + 1 - j : more[i] = longer[j + i]
    BY <1>1, <1>3, PartElements
  <2> HIDE DEF part, more
  <2>3. /\ Append(part, e) \in Seq(S) /\ Len(Append(part, e)) = Len(part) + 1
        /\ Append(part, e)[Len(part) + 1] = e
        /\ \A i \in 1..Len(part) : Append(part, e)[i] = part[i]
    BY <2>1, AppendFacts
  <2>4. ASSUME NEW i \in 1..Len(more) PROVE more[i] = Append(part, e)[i]
    <3>1. CASE i = Len(s) - j + 1
      <4>1. j + i = Len(s) + 1 /\ i \in 1..Len(s) + 1 - j /\ i = Len(part) + 1
        BY <1>1, <1>3, <2>1, <3>1
      <4>2. QED
        BY <1>1, <2>2, <2>3, <4>1
    <3>2. CASE i # Len(s) - j + 1
      <4>1. /\ i \in 1..Len(s) - j /\ i \in 1..Len(s) + 1 - j
            /\ j + i \in 1..Len(s)
        BY <1>1, <1>3, <2>2, <3>2
      <4>2. Append(part, e)[i] = s[j + i]
        BY <2>1, <2>3, <4>1
      <4>3. more[i] = s[j + i]
        BY <1>1, <2>2, <4>1
      <4>4. QED
        BY <4>2, <4>3
    <3>3. QED
      BY <3>1, <3>2
  <2>5. Len(more) = Len(Append(part, e))
    BY <1>1, <1>3, <2>1, <2>2, <2>3
  <2>6. more = Append(part, e)
    BY <2>2, <2>3, <2>4, <2>5, SeqEqual
  <2>7. QED
    BY <2>6 DEF part, more
<1>4. QED
  BY <1>2, <1>3 DEF longer
===============================================================================
