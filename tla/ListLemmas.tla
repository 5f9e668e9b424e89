------------------------------ MODULE ListLemmas ------------------------------
(***************************************************************************)
(* Facts about container/list as the models have it, a sequence: what is   *)
(* left when the entry at one place is removed, and what an entry at the   *)
(* end adds.  And induction over the places of a list, for what is defined *)
(* by recursion over them.                                                 *)
(***************************************************************************)
EXTENDS Integers, Sequences, FiniteSets, SequencesExt, TLAPS, SequenceTheorems,
        FiniteSetTheorems, WellFoundedInduction

\* Removing the entry at i moves those behind it one place forward.
LEMMA RemoveAtProperties ==
    ASSUME NEW S, NEW s \in Seq(S), NEW i \in DOMAIN s
    PROVE  /\ RemoveAt(s, i) \in Seq(S)
           /\ Len(RemoveAt(s, i)) = Len(s) - 1
           /\ DOMAIN RemoveAt(s, i) = 1..(Len(s) - 1)
           /\ \A j \in 1..(Len(s) - 1) :
                 RemoveAt(s, i)[j] = IF j < i THEN s[j] ELSE s[j + 1]
<1>1. Len(s) \in Nat /\ i \in 1..Len(s) /\ \A j \in 1..Len(s) : s[j] \in S
    BY LenProperties, ElementOfSeq
<1> DEFINE front == SubSeq(s, 1, i - 1)
           back == SubSeq(s, i + 1, Len(s))
           rest == front \o back
<1>2. /\ front \in Seq(S) /\ Len(front) = i - 1
      /\ \A j \in 1..(i - 1) : front[j] = s[j]
    <2>1. \A j \in 1..(i - 1) : s[j] \in S
        BY <1>1
    <2>2. /\ front \in Seq(S)
          /\ Len(front) = IF 1 <= i - 1 THEN i - 1 - 1 + 1 ELSE 0
          /\ \A j \in 1..(i - 1 - 1 + 1) : front[j] = s[1 + j - 1]
        BY <1>1, <2>1, SubSeqProperties
    <2> QED  BY <1>1, <2>2
<1>3. /\ back \in Seq(S) /\ Len(back) = Len(s) - i
      /\ \A j \in 1..(Len(s) - i) : back[j] = s[i + j]
    <2>1. \A j \in (i + 1)..Len(s) : s[j] \in S
        BY <1>1
    <2>2. /\ back \in Seq(S)
          /\ Len(back) = IF i + 1 <= Len(s) THEN Len(s) - (i + 1) + 1 ELSE 0
          /\ \A j \in 1..(Len(s) - (i + 1) + 1) : back[j] = s[i + 1 + j - 1]
        BY <1>1, <2>1, SubSeqProperties
    <2> HIDE DEF back
    <2>3. ASSUME NEW j \in 1..(Len(s) - i)
          PROVE  back[j] = s[i + j]
        <3>1. j \in 1..(Len(s) - (i + 1) + 1) /\ i + 1 + j - 1 = i + j
            BY <1>1
        <3>2. back[j] = s[i + 1 + j - 1]
            BY <2>2, <3>1
        <3> QED  BY <3>1, <3>2
    <2>4. Len(back) = Len(s) - i
        BY <1>1, <2>2
    <2> QED  BY <2>2, <2>3, <2>4
<1>4. RemoveAt(s, i) = rest
    BY DEF RemoveAt
<1> HIDE DEF front, back
<1>5. /\ rest \in Seq(S) /\ Len(rest) = Len(front) + Len(back)
      /\ \A j \in 1..(Len(front) + Len(back)) :
            rest[j] = IF j <= Len(front) THEN front[j] ELSE back[j - Len(front)]
    BY <1>2, <1>3, ConcatProperties
<1>6. Len(rest) = Len(s) - 1
    BY <1>1, <1>2, <1>3, <1>5
<1>7. ASSUME NEW j \in 1..(Len(s) - 1)
      PROVE  rest[j] = IF j < i THEN s[j] ELSE s[j + 1]
    <2>1. CASE j < i
        <3>1. j \in 1..(i - 1) /\ j \in 1..(Len(front) + Len(back)) /\ j <= Len(front)
            BY <2>1, <1>1, <1>2, <1>3
        <3> QED  BY <3>1, <2>1, <1>2, <1>5
    <2>2. CASE ~(j < i)
        <3>1. /\ j \in 1..(Len(front) + Len(back)) /\ ~(j <= Len(front))
              /\ j - Len(front) \in 1..(Len(s) - i) /\ i + (j - Len(front)) = j + 1
            BY SMTT(30), <2>2, <1>1, <1>2, <1>3
        <3>2. rest[j] = back[j - Len(front)]
            BY <3>1, <1>5
        <3>3. back[j - Len(front)] = s[i + (j - Len(front))]
            BY <3>1, <1>3
        <3> QED  BY <2>2, <3>1, <3>2, <3>3
    <2> QED  BY <2>1, <2>2
<1>8. DOMAIN rest = 1..(Len(s) - 1)
    BY <1>5, <1>6, LenProperties
<1> QED  BY <1>4, <1>5, <1>6, <1>7, <1>8

\* Whatever was elsewhere in the list is still there, and nothing is new.
LEMMA RemoveAtElements ==
    ASSUME NEW S, NEW s \in Seq(S), NEW i \in DOMAIN s
    PROVE  /\ ToSet(RemoveAt(s, i)) \subseteq ToSet(s)
           /\ \A x \in ToSet(s) : x # s[i] => x \in ToSet(RemoveAt(s, i))
<1> DEFINE rest == RemoveAt(s, i)
<1>1. /\ DOMAIN rest = 1..(Len(s) - 1)
      /\ \A j \in 1..(Len(s) - 1) : rest[j] = IF j < i THEN s[j] ELSE s[j + 1]
    BY RemoveAtProperties
<1>2. Len(s) \in Nat /\ DOMAIN s = 1..Len(s) /\ i \in 1..Len(s)
    BY LenProperties
<1> HIDE DEF rest
<1>3. ToSet(rest) \subseteq ToSet(s)
    BY <1>1, <1>2 DEF ToSet
<1>4. ASSUME NEW x \in ToSet(s), x # s[i]
      PROVE  x \in ToSet(rest)
    <2>1. PICK j \in 1..Len(s) : s[j] = x
        BY <1>2 DEF ToSet
    <2>2. CASE j < i
        BY <2>1, <2>2, <1>1, <1>2 DEF ToSet
    <2>3. CASE j > i
        <3>1. j - 1 \in 1..(Len(s) - 1) /\ rest[j - 1] = s[j]
            BY <2>3, <1>1, <1>2
        <3> QED  BY <3>1, <2>1, <1>1 DEF ToSet
    <2> QED  BY <2>1, <2>2, <2>3, <1>2, <1>4
<1> QED  BY <1>3, <1>4 DEF rest

\* From a list without duplicates it removes the entry for good.
LEMMA RemoveAtInjective ==
    ASSUME NEW S, NEW s \in Seq(S), NEW i \in DOMAIN s, IsInjective(s)
    PROVE  /\ IsInjective(RemoveAt(s, i))
           /\ ToSet(RemoveAt(s, i)) = ToSet(s) \ {s[i]}
<1> DEFINE rest == RemoveAt(s, i)
<1>1. /\ DOMAIN rest = 1..(Len(s) - 1)
      /\ \A j \in 1..(Len(s) - 1) : rest[j] = IF j < i THEN s[j] ELSE s[j + 1]
    BY RemoveAtProperties
<1>2. Len(s) \in Nat /\ DOMAIN s = 1..Len(s) /\ i \in 1..Len(s)
    BY LenProperties
<1>3. /\ ToSet(rest) \subseteq ToSet(s)
      /\ \A x \in ToSet(s) : x # s[i] => x \in ToSet(rest)
    BY RemoveAtElements
<1> HIDE DEF rest
<1>4. \A a, b \in 1..Len(s) : s[a] = s[b] => a = b
    BY <1>2 DEF IsInjective
<1>5. ASSUME NEW a \in 1..(Len(s) - 1), NEW b \in 1..(Len(s) - 1), rest[a] = rest[b]
      PROVE  a = b
    BY <1>1, <1>2, <1>4, <1>5
<1>6. s[i] \notin ToSet(rest)
    <2> SUFFICES ASSUME NEW j \in 1..(Len(s) - 1), rest[j] = s[i]
                 PROVE  FALSE
        BY <1>1 DEF ToSet
    <2> QED  BY <1>1, <1>2, <1>4
<1> QED  BY <1>1, <1>3, <1>5, <1>6 DEF rest, IsInjective

LEMMA AppendElements ==
    ASSUME NEW S, NEW s \in Seq(S), NEW x \in S
    PROVE  /\ Append(s, x) \in Seq(S) /\ Len(Append(s, x)) = Len(s) + 1
           /\ ToSet(Append(s, x)) = ToSet(s) \cup {x}
           /\ IsInjective(s) /\ x \notin ToSet(s) => IsInjective(Append(s, x))
<1> DEFINE t == Append(s, x)
<1>1. /\ t \in Seq(S) /\ Len(t) = Len(s) + 1
      /\ \A j \in 1..Len(s) : t[j] = s[j]
      /\ t[Len(s) + 1] = x
    BY AppendProperties
<1>2. Len(s) \in Nat /\ DOMAIN s = 1..Len(s) /\ DOMAIN t = 1..(Len(s) + 1)
    BY <1>1, LenProperties
<1> HIDE DEF t
<1>3. \A j \in 1..(Len(s) + 1) : j \in 1..Len(s) \/ j = Len(s) + 1
    BY <1>2
<1>4. ToSet(t) = ToSet(s) \cup {x}
    BY <1>1, <1>2, <1>3 DEF ToSet
<1>5. ASSUME IsInjective(s), x \notin ToSet(s)
      PROVE  IsInjective(t)
    BY <1>1, <1>2, <1>3, <1>5 DEF IsInjective, ToSet
<1> QED  BY <1>1, <1>4, <1>5 DEF t

LEMMA ElementsOfSeq ==
    ASSUME NEW S, NEW s \in Seq(S)
    PROVE  ToSet(s) \subseteq S
BY LenProperties, ElementOfSeq DEF ToSet

\* What is behind the entry at k was in the list.
LEMMA SuffixElements ==
    ASSUME NEW S, NEW s \in Seq(S), NEW k \in 1..Len(s)
    PROVE  /\ SubSeq(s, k + 1, Len(s)) \in Seq(S)
           /\ ToSet(SubSeq(s, k + 1, Len(s))) \subseteq ToSet(s)
<1>1. Len(s) \in Nat /\ DOMAIN s = 1..Len(s) /\ \A i \in 1..Len(s) : s[i] \in S
    BY LenProperties, ElementOfSeq
<1> DEFINE t == SubSeq(s, k + 1, Len(s))
<1>2. \A i \in (k + 1)..Len(s) : s[i] \in S
    BY <1>1
<1>3. /\ t \in Seq(S)
      /\ Len(t) = IF k + 1 <= Len(s) THEN Len(s) - (k + 1) + 1 ELSE 0
      /\ \A j \in 1..(Len(s) - (k + 1) + 1) : t[j] = s[k + 1 + j - 1]
    BY <1>1, <1>2, SubSeqProperties
<1> HIDE DEF t
<1>4. DOMAIN t = 1..Len(t)
    BY <1>3, LenProperties
<1>5. ASSUME NEW j \in DOMAIN t
      PROVE  t[j] \in ToSet(s)
    <2>1. j \in 1..(Len(s) - (k + 1) + 1)
        <3>1. CASE k + 1 <= Len(s)
            BY <3>1, <1>1, <1>3, <1>4
        <3>2. CASE ~(k + 1 <= Len(s))
            BY <3>2, <1>1, <1>3, <1>4
        <3> QED  BY <3>1, <3>2
    <2>2. k + 1 + j - 1 \in 1..Len(s)
        BY <2>1, <1>1
    <2>3. t[j] = s[k + 1 + j - 1]
        BY <2>1, <1>3
    <2> QED  BY <2>2, <2>3, <1>1 DEF ToSet
<1>6. ToSet(t) \subseteq ToSet(s)
    BY <1>5 DEF ToSet
<1> QED  BY <1>3, <1>6 DEF t

LEMMA EmptyHasNoElements == ToSet(<<>>) = {} /\ IsInjective(<<>>)
BY DEF ToSet, IsInjective

LEMMA HeadTailElements ==
    ASSUME NEW S, NEW s \in Seq(S), s # <<>>
    PROVE  /\ Head(s) \in S /\ Head(s) \in ToSet(s)
           /\ Tail(s) \in Seq(S) /\ Len(Tail(s)) = Len(s) - 1
           /\ ToSet(s) = {Head(s)} \cup ToSet(Tail(s))
<1>1. /\ Head(s) \in S /\ Tail(s) \in Seq(S) /\ Len(Tail(s)) = Len(s) - 1
      /\ \A j \in 1..Len(Tail(s)) : Tail(s)[j] = s[j + 1]
    BY HeadTailProperties
<1>2. Len(s) \in Nat /\ Len(s) # 0 /\ DOMAIN s = 1..Len(s) /\ DOMAIN Tail(s) = 1..(Len(s) - 1)
    BY <1>1, LenProperties, EmptySeq
<1>3. Head(s) = s[1]
    BY HeadTailProperties
<1> DEFINE t == Tail(s)
<1> HIDE DEF t
<1>4. \A j \in 1..(Len(s) - 1) : t[j] = s[j + 1]
    BY <1>1, <1>2 DEF t
<1>5. ASSUME NEW j \in 1..Len(s), j # 1
      PROVE  j - 1 \in 1..(Len(s) - 1) /\ t[j - 1] = s[j]
    <2>1. j - 1 \in 1..(Len(s) - 1) /\ j - 1 + 1 = j
        BY <1>2, <1>5
    <2>2. t[j - 1] = s[j - 1 + 1]
        BY <1>4, <2>1
    <2> QED  BY <2>1, <2>2
<1>6. 1 \in 1..Len(s) /\ \A j \in 1..(Len(s) - 1) : j + 1 \in 1..Len(s)
    BY <1>2
<1>7. DOMAIN t = 1..(Len(s) - 1)
    BY <1>2 DEF t
<1>8. ToSet(s) = {s[1]} \cup ToSet(t)
    <2>1. \A y \in ToSet(s) : y = s[1] \/ y \in ToSet(t)
        BY <1>2, <1>5, <1>7 DEF ToSet
    <2>2. \A y \in ToSet(t) : y \in ToSet(s)
        BY <1>2, <1>4, <1>6, <1>7 DEF ToSet
    <2>3. s[1] \in ToSet(s)
        BY <1>2, <1>6 DEF ToSet
    <2> QED  BY <2>1, <2>2, <2>3
<1> QED  BY <1>1, <1>3, <1>6, <1>8 DEF t

\* Among places in a list one is the first.  (The library's minimum of a set of
\* numbers is stated with an operator; the initial segments have one as well.)
LEMMA FirstPlace ==
    ASSUME NEW T \in SUBSET Nat, T # {}
    PROVE  \E i \in T : \A j \in T : i <= j
<1> DEFINE Segments == {1..i : i \in T}
           R == StrictSubsetOrdering(Nat)
<1>1. \A i \in T : 1..i \in FiniteSubsetsOf(Nat) /\ 1..i \subseteq Nat
    <2> TAKE i \in T
    <2>1. 1 \in Int /\ i \in Int
        OBVIOUS
    <2> QED  BY <2>1, FS_Interval DEF FiniteSubsetsOf
<1>2. Segments \subseteq FiniteSubsetsOf(Nat) /\ Segments # {}
    BY <1>1
<1>3. PICK A \in Segments : \A B \in Segments : ~(<<B, A>> \in R)
    BY <1>2, FS_StrictSubsetOrderingWellFounded, WFMin
<1>4. PICK i \in T : A = 1..i
    BY <1>3
<1>5. ASSUME NEW j \in T, j < i
      PROVE  FALSE
    <2>1. 1..j \subseteq 1..i /\ i \in 1..i /\ i \notin 1..j
        BY <1>5
    <2>2. <<1..j, 1..i>> \in R
        BY <1>1, <2>1 DEF StrictSubsetOrdering
    <2> QED  BY <1>3, <1>4, <2>2
<1> QED  BY <1>5

-----------------------------------------------------------------------------
(* Induction and recursion over the places of a list.  The library states  *)
(* them with operators; here a set and a function take their place.        *)

LEMMA PlaceInduction ==
    ASSUME NEW N \in Nat, NEW T, 0 \in T,
           \A n \in 1..N : n - 1 \in T => n \in T
    PROVE  \A n \in 0..N : n \in T
<1> DEFINE Bad == {n \in 0..N : n \notin T}
<1>1. SUFFICES ASSUME Bad # {} PROVE FALSE
    OBVIOUS
<1>2. Bad \in SUBSET Nat
    OBVIOUS
<1>3. PICK n \in Bad : \A j \in Bad : n <= j
    BY <1>1, <1>2, FirstPlace
<1>4. n # 0 /\ n \in 1..N
    BY <1>3
<1>5. n - 1 \notin Bad /\ n - 1 \in 0..N
    BY <1>3, <1>4
<1> QED  BY <1>3, <1>4, <1>5

\* f begins with a and goes on by G.
Follows(f, N, V, a, G) ==
    /\ f \in [0..N -> V] /\ f[0] = a
    /\ \A n \in 1..N : f[n] = G[<<n, f[n - 1]>>]

\* What a recursive definition over places asks for exists.
LEMMA PlaceRecursion ==
    ASSUME NEW N \in Nat, NEW V, NEW a \in V, NEW G \in [(1..N) \X V -> V]
    PROVE  \E f : Follows(f, N, V, a, G)
<1> DEFINE Upto(n, f) == Follows(f, n, V, a, G)
           T == {n \in 0..N : \E f : Upto(n, f)}
<1>1. 0 \in T
    <2>1. Upto(0, [i \in 0..0 |-> a])
        BY DEF Follows
    <2> QED  BY <2>1
<1>2. ASSUME NEW n \in 1..N, n - 1 \in T
      PROVE  n \in T
    <2>1. PICK f : Upto(n - 1, f)
        BY <1>2
    <2> DEFINE v == G[<<n, f[n - 1]>>]
               g == [i \in 0..n |-> IF i = n THEN v ELSE f[i]]
    <2>2. f[n - 1] \in V /\ v \in V
        BY <2>1 DEF Follows
    <2> HIDE DEF v
    <2>3. g \in [0..n -> V] /\ g[0] = a
        BY <2>1, <2>2 DEF Follows
    <2>4. ASSUME NEW i \in 1..n
          PROVE  g[i] = G[<<i, g[i - 1]>>]
        <3>1. g[i - 1] = f[i - 1]
            OBVIOUS
        <3>2. CASE i = n
            BY <3>1, <3>2 DEF v
        <3>3. CASE i # n
            BY <3>1, <3>3, <2>1 DEF Follows
        <3> QED  BY <3>2, <3>3
    <2>5. Upto(n, g)
        BY <2>3, <2>4 DEF Follows
    <2> HIDE DEF g
    <2> QED  BY <2>5
<1> HIDE DEF T
<1>3. N \in T
    BY <1>1, <1>2, PlaceInduction
<1> QED  BY <1>3 DEF T

\* The two parts of a stream, when it is cut in two ways.
LEMMA CutStream ==
    ASSUME NEW S, NEW b \in Seq(S), NEW w \in Seq(S), NEW x \in Seq(S), NEW y \in Seq(S),
           b \o w = x \o y, Len(x) <= Len(b)
    PROVE  /\ SubSeq(b, 1, Len(x)) = x
           /\ SubSeq(b, Len(x) + 1, Len(b)) \o w = y
<1> DEFINE r == SubSeq(b, Len(x) + 1, Len(b))
<1>1. /\ Len(b) \in Nat /\ Len(w) \in Nat /\ Len(x) \in Nat /\ Len(y) \in Nat
      /\ Len(b) + Len(w) = Len(x) + Len(y)
    BY ConcatProperties, LenProperties
<1>2. /\ \A i \in 1..Len(b) : (b \o w)[i] = b[i]
      /\ \A i \in 1..Len(w) : (b \o w)[Len(b) + i] = w[i]
    <2>1. \A i \in 1..(Len(b) + Len(w)) : (b \o w)[i] = IF i <= Len(b) THEN b[i] ELSE w[i - Len(b)]
        BY ConcatProperties
    <2>2. ASSUME NEW i \in 1..Len(b) PROVE (b \o w)[i] = b[i]
        BY <1>1, <2>1
    <2>3. ASSUME NEW i \in 1..Len(w) PROVE (b \o w)[Len(b) + i] = w[i]
        BY <1>1, <2>1
    <2> QED  BY <2>2, <2>3
<1>3. /\ \A i \in 1..Len(x) : (b \o w)[i] = x[i]
      /\ \A i \in 1..Len(y) : (b \o w)[Len(x) + i] = y[i]
    <2>1. \A i \in 1..(Len(x) + Len(y)) : (x \o y)[i] = IF i <= Len(x) THEN x[i] ELSE y[i - Len(x)]
        BY ConcatProperties
    <2> QED  BY <1>1, <2>1
<1>4. SubSeq(b, 1, Len(x)) = x
    <2>1. \A i \in 1..Len(x) : b[i] \in S
        BY <1>1, ElementOfSeq
    <2>2. /\ SubSeq(b, 1, Len(x)) \in Seq(S) /\ Len(SubSeq(b, 1, Len(x))) = Len(x)
          /\ \A i \in 1..Len(x) : SubSeq(b, 1, Len(x))[i] = b[i]
        <3>1. Len(x) - 1 + 1 = Len(x) /\ \A i \in 1..Len(x) : 1 + i - 1 = i
            BY <1>1
        <3> QED  BY <1>1, <2>1, <3>1, SubSeqProperties
    <2>3. \A i \in 1..Len(x) : SubSeq(b, 1, Len(x))[i] = x[i]
        BY <1>1, <1>2, <1>3, <2>2
    <2> QED  BY <2>2, <2>3, SeqEqual
<1>5. /\ r \in Seq(S) /\ Len(r) = Len(b) - Len(x)
      /\ \A i \in 1..(Len(b) - Len(x)) : r[i] = b[Len(x) + i]
    <2>1. \A i \in (Len(x) + 1)..Len(b) : b[i] \in S
        BY <1>1, ElementOfSeq
    <2>2. /\ r \in Seq(S)
          /\ Len(r) = IF Len(x) + 1 <= Len(b) THEN Len(b) - (Len(x) + 1) + 1 ELSE 0
          /\ \A i \in 1..(Len(b) - (Len(x) + 1) + 1) : r[i] = b[Len(x) + 1 + i - 1]
        BY <1>1, <2>1, SubSeqProperties
    <2> HIDE DEF r
    <2> QED  BY <1>1, <2>2
<1> HIDE DEF r
<1>6. /\ r \o w \in Seq(S) /\ Len(r \o w) = Len(y)
      /\ \A i \in 1..Len(y) : (r \o w)[i] = IF i <= Len(r) THEN r[i] ELSE w[i - Len(r)]
    <2>1. Len(r) + Len(w) = Len(y)
        BY <1>1, <1>5
    <2>2. /\ r \o w \in Seq(S) /\ Len(r \o w) = Len(r) + Len(w)
          /\ \A i \in 1..(Len(r) + Len(w)) : (r \o w)[i] = IF i <= Len(r) THEN r[i] ELSE w[i - Len(r)]
        BY <1>5, ConcatProperties
    <2> QED  BY <2>1, <2>2
<1>7. ASSUME NEW i \in 1..Len(y)
      PROVE  (r \o w)[i] = y[i]
    <2>1. (b \o w)[Len(x) + i] = y[i]
        BY <1>3
    <2>2. CASE i <= Len(r)
        <3>1. i \in 1..(Len(b) - Len(x)) /\ Len(x) + i \in 1..Len(b)
            BY <1>1, <1>5, <2>2
        <3> QED  BY <1>2, <1>5, <1>6, <2>1, <2>2, <3>1
    <2>3. CASE ~(i <= Len(r))
        <3>1. i - Len(r) \in 1..Len(w) /\ Len(x) + i = Len(b) + (i - Len(r))
            BY <1>1, <1>5, <2>3
        <3>2. (b \o w)[Len(x) + i] = w[i - Len(r)]
            BY <1>2, <3>1
        <3> QED  BY <1>6, <2>1, <2>3, <3>2
    <2> QED  BY <2>2, <2>3
<1>8. r \o w = y
    BY <1>6, <1>7, SeqEqual
<1> QED  BY <1>4, <1>8 DEF r

\* A longer beginning of a list has one entry more.
LEMMA SubSeqGrows ==
    ASSUME NEW S, NEW s \in Seq(S), NEW n \in 1..Len(s)
    PROVE  SubSeq(s, 1, n) = Append(SubSeq(s, 1, n - 1), s[n])
<1>1. Len(s) \in Nat /\ 1 \in 1..Len(s) /\ \A i \in 1..(n - 1) : s[i] \in S
    BY LenProperties, ElementOfSeq
<1>2. SubSeq(s, 1, n) = SubSeq(s, 1, n - 1) \o <<s[n]>>
    BY <1>1, SubSeqRecursiveSecond
<1>3. SubSeq(s, 1, n - 1) \in Seq(S) /\ s[n] \in S
    BY <1>1, SubSeqProperties, ElementOfSeq
<1> QED  BY <1>2, <1>3, AppendIsConcat

\* An entry at the end leaves the beginning as it was.
LEMMA BeginningKept ==
    ASSUME NEW S, NEW s \in Seq(S), NEW e \in S, NEW k \in 0..Len(s)
    PROVE  SubSeq(Append(s, e), 1, k) = SubSeq(s, 1, k)
<1> DEFINE t == Append(s, e)
<1>1. Len(s) \in Nat /\ \A i \in 1..Len(s) : s[i] \in S
    BY LenProperties, ElementOfSeq
<1>2. \A i \in 1..Len(s) : t[i] = s[i]
    BY AppendProperties
<1> HIDE DEF t
<1>3. 1 \in Int /\ k \in Int /\ k - 1 + 1 = k /\ \A i \in 1..k : s[i] \in S /\ t[i] \in S /\ 1 + i - 1 = i
    BY <1>1, <1>2
<1>4. /\ SubSeq(s, 1, k) \in Seq(S) /\ Len(SubSeq(s, 1, k)) = IF 1 <= k THEN k ELSE 0
      /\ \A i \in 1..k : SubSeq(s, 1, k)[i] = s[i]
    BY <1>3, SubSeqProperties
<1>5. /\ SubSeq(t, 1, k) \in Seq(S) /\ Len(SubSeq(t, 1, k)) = IF 1 <= k THEN k ELSE 0
      /\ \A i \in 1..k : SubSeq(t, 1, k)[i] = t[i]
    BY <1>3, SubSeqProperties
<1>6. \A i \in 1..Len(SubSeq(t, 1, k)) : i \in 1..k /\ i \in 1..Len(s)
    BY <1>1, <1>5
<1>7. SubSeq(t, 1, k) = SubSeq(s, 1, k)
    BY <1>2, <1>4, <1>5, <1>6, SeqEqual
<1> QED  BY <1>7 DEF t

\* A list is its first entry and the rest.
LEMMA HeadThenTail ==
    ASSUME NEW S, NEW s \in Seq(S), s # <<>>
    PROVE  s = <<Head(s)>> \o Tail(s)
<1>1. Len(s) \in Nat /\ Len(s) > 0
    BY LenProperties, EmptySeq
<1>2. SubSeq(s, 1, 1) = <<Head(s)>>
    <2>1. Head(s) = s[1] /\ SubSeq(s, 1, 1) = Append(SubSeq(s, 1, 0), s[1])
        BY <1>1, SubSeqGrows
    <2>2. SubSeq(s, 1, 0) = <<>>
        BY SubSeqEmpty
    <2>3. Append(<<>>, s[1]) = <<s[1]>>
        OBVIOUS
    <2> QED  BY <2>1, <2>2, <2>3
<1>3. Tail(s) = SubSeq(s, 1 + 1, Len(s))
    BY TailIsSubSeq
<1>4. 1 \in 1..(Len(s) + 1) /\ 1 \in (1 - 1)..Len(s) /\ Len(s) \in 1..Len(s)
    BY <1>1
<1>5. SubSeq(s, 1, 1) \o SubSeq(s, 1 + 1, Len(s)) = SubSeq(s, 1, Len(s))
    BY <1>4, ConcatAdjacentSubSeq
<1> QED  BY <1>2, <1>3, <1>5, SubSeqFull
=============================================================================
