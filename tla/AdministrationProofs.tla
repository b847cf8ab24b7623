------------------------- MODULE AdministrationProofs -------------------------
(***************************************************************************)
(* Theorems about Administration, for every set of channels, events,       *)
(* spellings, files, packs and jobs: what the editors of the vocabulary    *)
(* show is what a run uses, adopting the default lexicon changes nothing,  *)
(* and a channel or event is renamed or deleted only while nobody works in *)
(* it.                                                                     *)
(***************************************************************************)
EXTENDS Administration, WellFoundedInduction, SequenceTheorems, TLAPS

----------------------------------------------------------------------------
(* Induction and recursion *)

\* The principle of induction, for a set of numbers.
LEMMA NatSetInduction ==
  ASSUME NEW T, 0 \in T, \A n \in Nat : n \in T => n + 1 \in T
  PROVE  Nat \subseteq T
<1> SUFFICES ASSUME Nat \ T # {} PROVE FALSE
  OBVIOUS
<1>1. PICK n \in Nat \ T : \A m \in Nat \ T : n <= m
  <2> DEFINE rest == Nat \ T
             R == OpToRel(<, Nat)
  <2>1. rest \subseteq Nat /\ rest # {}
    OBVIOUS
  <2>2. PICK n \in rest : \A m \in rest : ~ (<<m, n>> \in R)
    <3> HIDE DEF rest
    <3> QED BY <2>1, WFMin, NatLessThanWellFounded, Zenon
  <2>3. \A m \in rest : ~ (m < n)
    BY <2>2 DEF OpToRel
  <2> QED BY <2>3
<1>2. n # 0 /\ n - 1 \in Nat
  BY <1>1
<1>3. n - 1 \in T
  BY <1>1, <1>2
<1> QED BY <1>1, <1>2, <1>3

\* The same up to a bound.
LEMMA UpTo ==
  ASSUME NEW N \in Nat, NEW T, 0 \in T, \A n \in 1..N : n - 1 \in T => n \in T
  PROVE  0..N \subseteq T
<1> DEFINE S == {n \in Nat : n <= N => n \in T}
<1>1. 0 \in S
  OBVIOUS
<1>2. ASSUME NEW n \in Nat, n \in S PROVE n + 1 \in S
  <2>1. (n + 1) - 1 = n
    OBVIOUS
  <2>2. ASSUME n + 1 <= N PROVE n \in T /\ n + 1 \in 1..N
    BY <1>2, <2>2
  <2> QED BY <2>1, <2>2
<1>3. \A n \in 0..N : n \in Nat /\ n <= N
  OBVIOUS
<1> HIDE DEF S
<1>4. Nat \subseteq S
  BY <1>1, <1>2, NatSetInduction
<1> QED BY <1>3, <1>4 DEF S

\* f goes up from its base one step at a time, and every value is a good one.
GoesUp(f, N, base, step, Good) ==
  /\ f = [n \in 0..N |-> f[n]]
  /\ f[0] = base
  /\ \A n \in 1..N : f[n] = step[<<f[n - 1], n>>]
  /\ \A n \in 0..N : f[n] \in Good[n]

\* There is such a function wherever a step from a good value leads to one.
LEMMA Recursion ==
  ASSUME NEW N \in Nat, NEW Good, NEW base, NEW step, base \in Good[0],
         \A n \in 1..N : \A x \in Good[n - 1] : step[<<x, n>>] \in Good[n]
  PROVE  \E f : GoesUp(f, N, base, step, Good)
<1> DEFINE T == {n \in 0..N : \E f : GoesUp(f, n, base, step, Good)}
<1>1. 0 \in T
  <2> DEFINE f == [i \in 0..0 |-> base]
  <2>1. f[0] = base /\ (\A n \in 0..0 : n = 0) /\ 1..0 = {} /\ 0 \in 0..N
    OBVIOUS
  <2>2. f = [i \in 0..0 |-> f[i]]
    OBVIOUS
  <2> HIDE DEF f
  <2> QED BY <2>1, <2>2 DEF GoesUp
<1>2. ASSUME NEW m \in 1..N, m - 1 \in T PROVE m \in T
  <2> DEFINE n == m - 1
  <2>1. n \in Nat /\ n \in 0..n /\ m \in 0..N
    OBVIOUS
  <2>2. PICK f : GoesUp(f, n, base, step, Good)
    BY <1>2
  <2> DEFINE g == [i \in 0..m |-> IF i <= n THEN f[i] ELSE step[<<f[n], m>>]]
  <2>3. \A i \in 0..n : g[i] = f[i]
    BY <2>1
  <2>4. g[m] = step[<<g[m - 1], m>>]
    BY <2>1
  <2>5. g = [i \in 0..m |-> g[i]]
    OBVIOUS
  <2>6. /\ \A i \in 0..m : i \in 0..n \/ i = m
        /\ \A i \in 1..m : (i \in 1..n /\ i \in 0..n /\ i - 1 \in 0..n) \/ i = m
    BY <2>1
  <2> HIDE DEF g
  <2>7. g[0] = base /\ \A i \in 1..m : g[i] = step[<<g[i - 1], i>>]
    BY <2>1, <2>2, <2>3, <2>4, <2>6 DEF GoesUp
  <2>8. \A i \in 0..m : g[i] \in Good[i]
    <3>1. g[m - 1] \in Good[m - 1]
      BY <2>1, <2>2, <2>3 DEF GoesUp
    <3>2. g[m] \in Good[m]
      BY <2>4, <3>1
    <3> HIDE DEF n
    <3> QED BY <2>2, <2>3, <2>6, <3>2 DEF GoesUp
  <2>9. GoesUp(g, m, base, step, Good)
    BY <2>5, <2>7, <2>8 DEF GoesUp
  <2> QED BY <2>1, <2>9
<1>3. 0..N \subseteq T /\ N \in 0..N
  <2> HIDE DEF T
  <2> QED BY <1>1, <1>2, UpTo
<1> QED BY <1>3

SomeOf(n) == {S \in SUBSET (1..n) : S # {}}

\* A set of some of the numbers up to N has a largest one.
LEMMA Largest ==
  ASSUME NEW N \in Nat, NEW S, S \subseteq 1..N, S # {}
  PROVE  Max(S) \in S /\ \A i \in S : i <= Max(S)
<1> DEFINE T == {n \in 0..N : (\E i \in S : i <= n) =>
                   \E x \in S : x <= n /\ \A y \in S : y <= n => x >= y}
<1>1. 0 \in T
  OBVIOUS
<1>2. ASSUME NEW n \in 1..N, n - 1 \in T PROVE n \in T
  <2>1. CASE n \in S
    BY <2>1
  <2>2. CASE n \notin S
    <3>1. \A i \in S : i <= n <=> i <= n - 1
      BY <2>2
    <3> QED BY <1>2, <3>1
  <2> QED BY <2>1, <2>2
<1>3. N \in T
  <2> HIDE DEF T
  <2>1. 0..N \subseteq T
    BY <1>1, <1>2, UpTo
  <2> QED BY <2>1
<1>4. \E x \in S : \A y \in S : x >= y
  <2>1. \A i \in S : i <= N
    OBVIOUS
  <2> QED BY <1>3, <2>1
<1>5. Max(S) \in S /\ \A y \in S : Max(S) >= y
  BY <1>4, Zenon DEF Max
<1>6. S \subseteq Int
  OBVIOUS
<1> QED BY <1>5, <1>6

\* The same for a smallest one.
LEMMA Smallest ==
  ASSUME NEW N \in Nat, NEW S, S \subseteq 1..N, S # {}
  PROVE  \E x \in S : \A y \in S : x <= y
<1> DEFINE R == OpToRel(<, Nat)
<1>1. S \subseteq Nat
  OBVIOUS
<1>2. PICK x \in S : \A y \in S : ~ (<<y, x>> \in R)
  BY <1>1, WFMin, NatLessThanWellFounded, Zenon
<1>3. \A y \in S : ~ (y < x)
  BY <1>1, <1>2 DEF OpToRel
<1> QED BY <1>1, <1>3

\* f places m things among n, in their order.
Places(f, m, n) ==
  /\ f \in [1..m -> 1..n]
  /\ \A i, j \in 1..m : i < j => f[i] < f[j]
Placed(f, S) == {f[i] : i \in S}

\* Where an increasing function takes a set, its largest member goes first.
LEMMA SameWinner ==
  ASSUME NEW m \in Nat, NEW n \in Nat, NEW f, Places(f, m, n),
         NEW few \in SomeOf(m), NEW many, many = Placed(f, few)
  PROVE  Max(few) \in few /\ Max(many) = f[Max(few)]
<1>0. /\ f \in [1..m -> 1..n]
      /\ \A i, j \in 1..m : i < j => f[i] < f[j]
      /\ many = {f[i] : i \in few}
      /\ few \subseteq 1..m /\ few # {}
  BY DEF Places, Placed, SomeOf
<1>1. Max(few) \in few /\ \A i \in few : i <= Max(few)
  BY <1>0, Largest
<1>2. many \subseteq 1..n /\ many # {}
  BY <1>0
<1>3. Max(many) \in many /\ \A i \in many : i <= Max(many)
  BY <1>2, Largest
<1>4. PICK i \in few : Max(many) = f[i]
  BY <1>0, <1>3
<1>5. f[Max(few)] \in many
  BY <1>0, <1>1
<1>6. f[Max(few)] <= f[i]
  BY <1>3, <1>4, <1>5
<1>7. i <= Max(few) /\ i \in 1..m /\ Max(few) \in 1..m
  BY <1>0, <1>1
<1>8. f[i] \in Int /\ f[Max(few)] \in Int
  BY <1>0, <1>7
<1>9. i = Max(few)
  BY <1>0, <1>6, <1>7, <1>8
<1> QED BY <1>1, <1>4, <1>9

----------------------------------------------------------------------------
(* Picking *)

\* x has the elements of s at those of its first n places that are in places.
Picks(pos, x, s, places, n) ==
  /\ Places(pos, Len(x), n)
  /\ \A i \in 1..Len(x) : x[i] = s[pos[i]]
  /\ \A p \in 1..n : p \in places <=> \E i \in 1..Len(x) : pos[i] = p

LEMMA PickOne ==
  ASSUME NEW S, NEW s \in Seq(S), NEW places, NEW n \in 1..Len(s),
         NEW x \in Seq(S), NEW pos, Picks(pos, x, s, places, n - 1)
  PROVE  \E q : Picks(q, IF n \in places THEN Append(x, s[n]) ELSE x, s, places, n)
<1> DEFINE k == Len(x)
<1>1. k \in Nat /\ n \in Nat /\ n >= 1
  OBVIOUS
<1>2. /\ pos \in [1..k -> 1..(n - 1)]
      /\ \A i, j \in 1..k : i < j => pos[i] < pos[j]
      /\ \A i \in 1..k : x[i] = s[pos[i]]
      /\ \A p \in 1..(n - 1) : p \in places <=> \E i \in 1..k : pos[i] = p
  BY DEF Picks, Places
<1>3. \A p \in 1..n : p \in 1..(n - 1) \/ p = n
  BY <1>1
<1>4. \A i \in 1..k : pos[i] \in 1..n /\ pos[i] < n
  BY <1>1, <1>2
<1>5. CASE n \notin places
  <2>1. pos \in [1..k -> 1..n]
    BY <1>2, <1>4
  <2>2. \A p \in 1..n : p \in places <=> \E i \in 1..k : pos[i] = p
    <3>1. \A i \in 1..k : pos[i] # n
      BY <1>4
    <3> QED BY <1>2, <1>3, <1>5, <3>1
  <2> QED BY <1>2, <1>5, <2>1, <2>2 DEF Picks, Places
<1>6. CASE n \in places
  <2> DEFINE q == [i \in 1..(k + 1) |-> IF i <= k THEN pos[i] ELSE n]
             y == Append(x, s[n])
  <2>1. /\ Len(y) = k + 1
        /\ \A i \in 1..k : y[i] = x[i]
        /\ y[k + 1] = s[n]
    BY AppendProperties
  <2>2. /\ \A i \in 1..(k + 1) : i \in 1..k \/ i = k + 1
        /\ \A i \in 1..k : i \in 1..(k + 1) /\ q[i] = pos[i]
        /\ k + 1 \in 1..(k + 1) /\ q[k + 1] = n
    BY <1>1
  <2>3. DOMAIN q = 1..(k + 1) /\ q = [i \in 1..(k + 1) |-> q[i]]
    OBVIOUS
  <2> HIDE DEF q, y
  <2>4. q \in [1..(k + 1) -> 1..n]
    <3>1. \A i \in 1..(k + 1) : q[i] \in 1..n
      BY <1>1, <1>4, <2>2
    <3> QED BY <2>3, <3>1
  <2>5. \A i, j \in 1..(k + 1) : i < j => q[i] < q[j]
    <3> SUFFICES ASSUME NEW i \in 1..(k + 1), NEW j \in 1..(k + 1), i < j PROVE q[i] < q[j]
      OBVIOUS
    <3>1. i \in 1..k
      BY <1>1
    <3>2. CASE j \in 1..k
      BY <1>2, <2>2, <3>1, <3>2
    <3>3. CASE j = k + 1
      BY <1>4, <2>2, <3>1, <3>3
    <3> QED BY <2>2, <3>2, <3>3
  <2>6. \A i \in 1..(k + 1) : y[i] = s[q[i]]
    BY <1>2, <2>1, <2>2
  <2>7. \A p \in 1..n : p \in places <=> \E i \in 1..(k + 1) : q[i] = p
    <3> SUFFICES ASSUME NEW p \in 1..n PROVE p \in places <=> \E i \in 1..(k + 1) : q[i] = p
      OBVIOUS
    <3>1. CASE p = n
      BY <1>6, <2>2, <3>1
    <3>2. CASE p \in 1..(n - 1)
      <4>1. (\E i \in 1..(k + 1) : q[i] = p) <=> \E i \in 1..k : pos[i] = p
        <5>1. q[k + 1] # p
          BY <1>1, <2>2, <3>2
        <5> QED BY <2>2, <5>1
      <4> QED BY <1>2, <3>2, <4>1
    <3> QED BY <1>3, <3>1, <3>2
  <2>8. Picks(q, y, s, places, n)
    BY <2>1, <2>4, <2>5, <2>6, <2>7 DEF Picks, Places
  <2> QED BY <1>6, <2>8 DEF y
<1> QED BY <1>5, <1>6

\* Pick takes the elements at the places, and no others, in their order.
LEMMA PickPlaces ==
  ASSUME NEW S, NEW s \in Seq(S), NEW places
  PROVE  /\ Pick(s, places) \in Seq(S)
         /\ \E pos : Picks(pos, Pick(s, places), s, places, Len(s))
<1> DEFINE Add(x, n) == IF n \in places THEN Append(x, s[n]) ELSE x
           picked[n \in 0..Len(s)] ==
             IF n = 0 THEN <<>>
             ELSE IF n \in places THEN Append(picked[n - 1], s[n]) ELSE picked[n - 1]
           N == Len(s)
           Good == [n \in 0..N |-> {x \in Seq(S) : \E pos : Picks(pos, x, s, places, n)}]
           step == [p \in Seq(S) \X (1..N) |-> Add(p[1], p[2])]
<1> HIDE DEF picked
<1>1. N \in Nat /\ \A n \in 1..N : n - 1 \in 0..N /\ n \in 0..N
  OBVIOUS
<1>2. \A n \in 0..N : \A x :
        x \in Good[n] <=> x \in Seq(S) /\ \E pos : Picks(pos, x, s, places, n)
  OBVIOUS
<1>3. <<>> \in Good[0]
  <2>1. Len(<<>>) = 0 /\ 1..0 = {} /\ <<>> \in Seq(S)
    OBVIOUS
  <2>2. \E pos : Picks(pos, <<>>, s, places, 0)
    <3> DEFINE pos == [i \in 1..0 |-> 0]
    <3>1. pos \in [1..0 -> 1..0]
      BY <2>1
    <3>2. Picks(pos, <<>>, s, places, 0)
      BY <2>1, <3>1 DEF Picks, Places
    <3> QED BY <3>2
  <2>3. 0 \in 0..N
    BY <1>1
  <2> HIDE DEF Good
  <2> QED BY <1>2, <2>1, <2>2, <2>3
<1> HIDE DEF Good
<1>4. \A n \in 1..N : \A x \in Good[n - 1] :
        step[<<x, n>>] = Add(x, n) /\ step[<<x, n>>] \in Good[n]
  <2> SUFFICES ASSUME NEW n \in 1..N, NEW x \in Good[n - 1]
               PROVE  step[<<x, n>>] = Add(x, n) /\ step[<<x, n>>] \in Good[n]
    OBVIOUS
  <2>1. x \in Seq(S) /\ \E pos : Picks(pos, x, s, places, n - 1)
    BY <1>1, <1>2
  <2>2. \E q : Picks(q, Add(x, n), s, places, n)
    BY <2>1, PickOne
  <2>3. Add(x, n) \in Seq(S)
    BY <2>1, AppendProperties
  <2>4. step[<<x, n>>] = Add(x, n)
    <3> HIDE DEF Add, N
    <3> QED BY <2>1
  <2> HIDE DEF Add, N, step
  <2> QED BY <1>1, <1>2, <2>2, <2>3, <2>4
<1>5. PICK f : GoesUp(f, N, <<>>, step, Good)
  <2> HIDE DEF N, step
  <2> QED BY <1>1, <1>3, <1>4, Recursion
<1> HIDE DEF step
<1>6. f = [n \in 0..N |-> IF n = 0 THEN <<>> ELSE Add(f[n - 1], n)]
  <2>1. ASSUME NEW n \in 1..N PROVE f[n] = Add(f[n - 1], n)
    <3>1. f[n - 1] \in Good[n - 1]
      BY <1>1, <1>5 DEF GoesUp
    <3> HIDE DEF Add
    <3> QED BY <1>4, <1>5, <3>1 DEF GoesUp
  <2>2. \A n \in 0..N : n = 0 \/ n \in 1..N
    BY <1>1
  <2> HIDE DEF N, Add
  <2> QED BY <1>5, <2>1, <2>2 DEF GoesUp
<1>7. picked = [n \in 0..N |-> IF n = 0 THEN <<>> ELSE Add(picked[n - 1], n)]
  BY <1>6, Zenon DEF picked
<1>8. N \in {n \in 0..N : picked[n] = f[n]}
  <2> DEFINE T == {n \in 0..N : picked[n] = f[n]}
  <2> HIDE DEF Add
  <2>1. 0 \in T /\ \A n \in 1..N : n - 1 \in T => n \in T
    BY <1>1, <1>6, <1>7
  <2> HIDE DEF T, N
  <2>2. 0..N \subseteq T
    BY <1>1, <2>1, UpTo
  <2>3. N \in T
    BY <1>1, <2>2
  <2> QED BY <2>3 DEF T
<1>9. Pick(s, places) = picked[N]
  BY DEF Pick, picked
<1>10. picked[N] \in Good[N] /\ N \in 0..N
  <2> HIDE DEF N
  <2> QED BY <1>1, <1>5, <1>8 DEF GoesUp
<1> QED BY <1>2, <1>9, <1>10

----------------------------------------------------------------------------
(* Layers *)

\* Of two sequences of layers one may leave out what is empty in the other: the
\* same entries are there, and each comes from the same layer.
Matches(f, few, many) ==
  /\ Places(f, Len(few), Len(many))
  /\ \A i \in 1..Len(few) : DOMAIN few[i] = DOMAIN many[f[i]]
  /\ \A n \in 1..Len(many) : n \in Placed(f, 1..Len(few)) \/ DOMAIN many[n] = {}

LEMMA MergedAlike ==
  ASSUME NEW few, NEW many, NEW f, Matches(f, few, many),
         Len(few) \in Nat, DOMAIN few = 1..Len(few),
         Len(many) \in Nat, DOMAIN many = 1..Len(many)
  PROVE  /\ DOMAIN OverAll(few) = DOMAIN OverAll(many)
         /\ \A k \in DOMAIN OverAll(few) :
              \E i \in 1..Len(few) :
                /\ k \in DOMAIN few[i]
                /\ \A j \in 1..Len(few) : k \in DOMAIN few[j] => j <= i
                /\ OverAll(few)[k] = few[i][k]
                /\ OverAll(many)[k] = many[f[i]][k]
<1> DEFINE sayingFew(k) == {i \in DOMAIN few : k \in DOMAIN few[i]}
           sayingMany(k) == {i \in DOMAIN many : k \in DOMAIN many[i]}
<1>1. /\ DOMAIN OverAll(few) = UNION {DOMAIN few[i] : i \in DOMAIN few}
      /\ \A k \in DOMAIN OverAll(few) : OverAll(few)[k] = few[Max(sayingFew(k))][k]
  BY DEF OverAll
<1>2. /\ DOMAIN OverAll(many) = UNION {DOMAIN many[i] : i \in DOMAIN many}
      /\ \A k \in DOMAIN OverAll(many) : OverAll(many)[k] = many[Max(sayingMany(k))][k]
  BY DEF OverAll
<1> DEFINE m == Len(few)
           n == Len(many)
<1>5. /\ Places(f, m, n)
      /\ f \in [1..m -> 1..n]
      /\ \A i \in 1..m : DOMAIN few[i] = DOMAIN many[f[i]]
      /\ \A x \in 1..n : (\E i \in 1..m : f[i] = x) \/ DOMAIN many[x] = {}
  BY DEF Matches, Places, Placed
<1>6. m \in Nat /\ n \in Nat /\ DOMAIN few = 1..m /\ DOMAIN many = 1..n
  OBVIOUS
<1> HIDE DEF m, n
<1>3. DOMAIN OverAll(few) = DOMAIN OverAll(many)
  <2>1. \A k : k \in DOMAIN OverAll(few) <=> \E i \in 1..m : k \in DOMAIN few[i]
    BY <1>1, <1>6
  <2>2. \A k : k \in DOMAIN OverAll(many) <=> \E i \in 1..n : k \in DOMAIN many[i]
    BY <1>2, <1>6
  <2>3. \A k : (\E i \in 1..m : k \in DOMAIN few[i]) <=> (\E i \in 1..n : k \in DOMAIN many[i])
    BY <1>5
  <2>4. \A k : k \in DOMAIN OverAll(few) <=> k \in DOMAIN OverAll(many)
    BY <2>1, <2>2, <2>3
  <2> QED BY <2>4
<1>4. ASSUME NEW k \in DOMAIN OverAll(few)
      PROVE  \E i \in 1..Len(few) :
                /\ k \in DOMAIN few[i]
                /\ \A j \in 1..Len(few) : k \in DOMAIN few[j] => j <= i
                /\ OverAll(few)[k] = few[i][k]
                /\ OverAll(many)[k] = many[f[i]][k]
  <2> DEFINE A == sayingFew(k)
             B == sayingMany(k)
  <2>1. A \in SomeOf(m)
    BY <1>1, <1>6 DEF SomeOf
  <2>2. B = Placed(f, A)
    <3>1. \A x : x \in B <=> x \in 1..n /\ k \in DOMAIN many[x]
      BY <1>6
    <3>2. \A x : x \in A <=> x \in 1..m /\ k \in DOMAIN few[x]
      BY <1>6
    <3> HIDE DEF A, B
    <3>3. \A x : x \in B <=> \E i \in A : x = f[i]
      BY <1>5, <3>1, <3>2
    <3> QED BY <3>3 DEF Placed
  <2>3. \A i \in A : i \in 1..m /\ k \in DOMAIN few[i]
    BY <1>6
  <2>6. \A i \in 1..m : k \in DOMAIN few[i] => i \in A
    BY <1>6
  <2>4. OverAll(few)[k] = few[Max(A)][k] /\ OverAll(many)[k] = many[Max(B)][k]
    BY <1>1, <1>2, <1>3
  <2> HIDE DEF A, B
  <2>5. Max(A) \in A /\ Max(B) = f[Max(A)]
    BY <1>5, <1>6, <2>1, <2>2, SameWinner
  <2>7. \A i \in A : i <= Max(A)
    BY <1>6, <2>1, Largest DEF SomeOf
  <2> QED BY <2>3, <2>4, <2>5, <2>6, <2>7 DEF m
<1> QED BY <1>3, <1>4

\* few has the layers of many but for some that are empty.
Sparse(f, few, many, empty) ==
  /\ Places(f, Len(few), Len(many))
  /\ \A i \in 1..Len(few) : few[i] = many[f[i]]
  /\ \A n \in 1..Len(many) : n \in Placed(f, 1..Len(few)) \/ many[n] = empty

\* The same with other layers before them.
LEMMA SparseBehind ==
  ASSUME NEW S, NEW head \in Seq(S), NEW few \in Seq(S), NEW many \in Seq(S),
         NEW f, NEW empty, Sparse(f, few, many, empty)
  PROVE  \E g : Sparse(g, head \o few, head \o many, empty)
<1> DEFINE h == Len(head)
           m == Len(few)
           n == Len(many)
           g == [i \in 1..(h + m) |-> IF i <= h THEN i ELSE h + f[i - h]]
           less == head \o few
           more == head \o many
<1>1. h \in Nat /\ m \in Nat /\ n \in Nat
  OBVIOUS
<1>2. /\ Len(less) = h + m
      /\ \A i \in 1..(h + m) : less[i] = IF i <= h THEN head[i] ELSE few[i - h]
  BY ConcatProperties
<1>3. /\ Len(more) = h + n
      /\ \A i \in 1..(h + n) : more[i] = IF i <= h THEN head[i] ELSE many[i - h]
  BY ConcatProperties
<1>4. /\ f \in [1..m -> 1..n]
      /\ \A i, j \in 1..m : i < j => f[i] < f[j]
      /\ \A i \in 1..m : few[i] = many[f[i]]
      /\ \A x \in 1..n : (\E i \in 1..m : f[i] = x) \/ many[x] = empty
  BY DEF Sparse, Places, Placed
<1>5. /\ DOMAIN g = 1..(h + m)
      /\ \A i \in 1..(h + m) : g[i] = IF i <= h THEN i ELSE h + f[i - h]
  OBVIOUS
<1> HIDE DEF g, less, more, h, m, n
<1>6. \A i \in 1..(h + m) : \/ i <= h /\ i \in 1..h
                            \/ ~(i <= h) /\ i - h \in 1..m /\ f[i - h] \in 1..n
  <2> SUFFICES ASSUME NEW i \in 1..(h + m)
               PROVE  \/ i <= h /\ i \in 1..h
                      \/ ~(i <= h) /\ i - h \in 1..m /\ f[i - h] \in 1..n
    OBVIOUS
  <2>1. (i <= h /\ i \in 1..h) \/ (~(i <= h) /\ i - h \in 1..m)
    BY <1>1
  <2>2. ASSUME i - h \in 1..m PROVE f[i - h] \in 1..n
    BY <1>4, <2>2
  <2> QED BY <2>1, <2>2
<1>7. ASSUME NEW i \in 1..(h + m) PROVE g[i] \in 1..(h + n)
  <2>1. CASE i <= h
    BY <1>1, <1>5, <2>1
  <2>2. CASE ~(i <= h)
    <3>1. f[i - h] \in 1..n /\ g[i] = h + f[i - h]
      BY <1>5, <1>6, <2>2
    <3> QED BY <1>1, <3>1
  <2> QED BY <2>1, <2>2
<1>8. g \in [1..(h + m) -> 1..(h + n)]
  <2>1. g = [i \in 1..(h + m) |-> g[i]]
    BY <1>5 DEF g
  <2> QED BY <1>7, <2>1
<1>9. ASSUME NEW i \in 1..(h + m), NEW j \in 1..(h + m), i < j PROVE g[i] < g[j]
  <2>1. CASE j <= h
    BY <1>1, <1>5, <1>9, <2>1
  <2>2. CASE i <= h /\ ~(j <= h)
    <3>1. f[j - h] \in 1..n
      BY <1>6, <2>2
    <3>2. g[i] = i /\ g[j] = h + f[j - h]
      BY <1>5, <2>2
    <3> QED BY <1>1, <2>2, <3>1, <3>2
  <2>3. CASE ~(i <= h)
    <3>1. ~(j <= h)
      BY <1>1, <1>9, <2>3
    <3>2. i - h \in 1..m /\ j - h \in 1..m /\ i - h < j - h
      BY <1>1, <1>6, <1>9, <2>3, <3>1
    <3>3. f[i - h] < f[j - h] /\ f[i - h] \in 1..n /\ f[j - h] \in 1..n
      BY <1>4, <3>2
    <3>4. g[i] = h + f[i - h] /\ g[j] = h + f[j - h]
      BY <1>5, <2>3, <3>1
    <3> QED BY <1>1, <3>3, <3>4
  <2> QED BY <2>1, <2>2, <2>3
<1>10. ASSUME NEW i \in 1..(h + m) PROVE less[i] = more[g[i]]
  <2>1. CASE i <= h
    <3>1. i \in 1..(h + n)
      BY <1>1, <2>1
    <3> QED BY <1>2, <1>3, <1>5, <2>1, <3>1
  <2>2. CASE ~(i <= h)
    <3>1. i - h \in 1..m /\ f[i - h] \in 1..n /\ g[i] = h + f[i - h]
      BY <1>5, <1>6, <2>2
    <3>2. g[i] \in 1..(h + n) /\ ~(g[i] <= h) /\ g[i] - h = f[i - h]
      BY <1>1, <3>1
    <3> QED BY <1>2, <1>3, <1>4, <2>2, <3>1, <3>2
  <2> QED BY <2>1, <2>2
<1>11. ASSUME NEW x \in 1..(h + n) PROVE (\E i \in 1..(h + m) : g[i] = x) \/ more[x] = empty
  <2>1. CASE x <= h
    <3>1. x \in 1..(h + m)
      BY <1>1, <2>1
    <3> QED BY <1>5, <2>1, <3>1
  <2>2. CASE ~(x <= h)
    <3>1. x - h \in 1..n /\ more[x] = many[x - h]
      BY <1>1, <1>3, <2>2
    <3>2. ASSUME NEW i \in 1..m, f[i] = x - h PROVE \E j \in 1..(h + m) : g[j] = x
      <4>1. h + i \in 1..(h + m) /\ ~(h + i <= h) /\ (h + i) - h = i
        BY <1>1
      <4>2. g[h + i] = h + f[i]
        BY <1>5, <4>1
      <4>3. g[h + i] = x
        BY <1>1, <3>2, <4>2
      <4> QED BY <4>1, <4>3
    <3> QED BY <1>4, <3>1, <3>2
  <2> QED BY <2>1, <2>2
<1>12. Sparse(g, less, more, empty)
  BY <1>2, <1>3, <1>8, <1>9, <1>10, <1>11 DEF Sparse, Places, Placed
<1> QED BY <1>12 DEF less, more

\* What is picked, against all of it with something empty in the other places.
LEMMA PickedIsSparse ==
  ASSUME NEW U, NEW scopes \in Seq(U), NEW places, NEW F, NEW empty,
         NEW few, few = [i \in DOMAIN Pick(scopes, places) |-> F[Pick(scopes, places)[i]]],
         NEW many, many = [i \in DOMAIN scopes |-> IF i \in places THEN F[scopes[i]] ELSE empty]
  PROVE  \E f : Sparse(f, few, many, empty)
<1> DEFINE x == Pick(scopes, places)
<1>1. x \in Seq(U) /\ \E pos : Picks(pos, x, scopes, places, Len(scopes))
  BY PickPlaces
<1> HIDE DEF x
<1>2. PICK pos : Picks(pos, x, scopes, places, Len(scopes))
  BY <1>1
<1>3. few = [i \in 1..Len(x) |-> F[x[i]]] /\ Len(few) = Len(x) /\ Len(x) \in Nat
  BY <1>1 DEF x
<1>4. /\ many = [i \in 1..Len(scopes) |-> IF i \in places THEN F[scopes[i]] ELSE empty]
      /\ Len(many) = Len(scopes) /\ Len(scopes) \in Nat
  OBVIOUS
<1>5. \A i \in 1..Len(x) : pos[i] \in 1..Len(scopes) /\ x[i] = scopes[pos[i]] /\ pos[i] \in places
  BY <1>2 DEF Picks, Places
<1>6. ASSUME NEW i \in 1..Len(few) PROVE few[i] = many[pos[i]]
  <2>1. i \in 1..Len(x) /\ few[i] = F[x[i]]
    BY <1>3
  <2>2. pos[i] \in 1..Len(scopes) /\ x[i] = scopes[pos[i]] /\ pos[i] \in places
    BY <1>5, <2>1
  <2>3. many[pos[i]] = F[scopes[pos[i]]]
    BY <1>4, <2>2
  <2> QED BY <2>1, <2>2, <2>3
<1>7. \A n \in 1..Len(many) : n \in Placed(pos, 1..Len(few)) \/ many[n] = empty
  <2>1. \A n \in 1..Len(scopes) : n \in places <=> \E i \in 1..Len(x) : pos[i] = n
    BY <1>2 DEF Picks
  <2> QED BY <1>3, <1>4, <2>1 DEF Placed
<1>8. Sparse(pos, few, many, empty)
  BY <1>2, <1>3, <1>4, <1>6, <1>7 DEF Sparse, Picks
<1> QED BY <1>8

\* The scopes that apply at an event.
LEMMA ScopesOfAnEvent ==
  ASSUME NEW s \in EventScopes
  PROVE  /\ Len(s) = 2 /\ s \in Scopes /\ <<>> \in Scopes
         /\ Upto(s) \in Seq(Scopes) /\ Len(Upto(s)) = 3 /\ DOMAIN Upto(s) = 1..3
         /\ Upto(s)[1] = <<>> /\ Upto(s)[2] = <<s[1]>> /\ Upto(s)[3] = s
         /\ \A i \in 1..3 : Len(Upto(s)[i]) = i - 1
<1>1. PICK c \in Channels, e \in Events : s = <<c, e>>
  BY DEF EventScopes
<1>2. Len(s) = 2 /\ s[1] = c /\ s[2] = e
  BY <1>1
<1>3. /\ SubSeq(s, 1, 0) = <<>>
      /\ SubSeq(s, 1, 1) = <<c>>
      /\ SubSeq(s, 1, 2) = s
  <2>1. s \in Seq({c, e})
    BY <1>1
  <2>2. SubSeq(s, 1, 0) \in Seq({c, e}) /\ Len(SubSeq(s, 1, 0)) = 0
    BY <1>2, <2>1, SubSeqProperties
  <2>3. /\ SubSeq(s, 1, 1) \in Seq({c, e}) /\ Len(SubSeq(s, 1, 1)) = 1
        /\ SubSeq(s, 1, 1)[1] = c
    BY <1>2, <2>1, SubSeqProperties
  <2>4. /\ SubSeq(s, 1, 2) \in Seq({c, e}) /\ Len(SubSeq(s, 1, 2)) = 2
        /\ SubSeq(s, 1, 2)[1] = c /\ SubSeq(s, 1, 2)[2] = e
    BY <1>2, <2>1, SubSeqProperties
  <2>5. <<c>> \in Seq({c, e}) /\ Len(<<c>>) = 1 /\ <<c>>[1] = c
    OBVIOUS
  <2>6. SubSeq(s, 1, 0) = <<>>
    BY SubSeqEmpty
  <2>7. \A i \in 1..1 : i = 1
    OBVIOUS
  <2>8. \A i \in 1..2 : i = 1 \/ i = 2
    OBVIOUS
  <2>9. SubSeq(s, 1, 1) = <<c>>
    BY <2>3, <2>5, <2>7, SeqEqual
  <2>10. SubSeq(s, 1, 2) = s
    BY <1>2, <2>1, <2>4, <2>8, SeqEqual
  <2> QED BY <2>6, <2>9, <2>10
<1>4. Upto(s) = [i \in 1..3 |-> SubSeq(s, 1, i - 1)]
  BY <1>2 DEF Upto
<1>5. Upto(s)[1] = <<>> /\ Upto(s)[2] = <<c>> /\ Upto(s)[3] = s
  BY <1>3, <1>4
<1>6. <<>> \in Scopes /\ <<c>> \in Scopes /\ s \in Scopes
  BY DEF Scopes, ChannelScopes
<1>7. \A i \in 1..3 : i = 1 \/ i = 2 \/ i = 3
  OBVIOUS
<1>8. \A i \in 1..3 : Upto(s)[i] \in Scopes
  BY <1>5, <1>6, <1>7
<1>9. Upto(s) \in Seq(Scopes) /\ Len(Upto(s)) = 3 /\ DOMAIN Upto(s) = 1..3
  BY <1>4, <1>8
<1>10. \A i \in 1..3 : Len(Upto(s)[i]) = i - 1
  <2>1. Len(<<>>) = 0 /\ Len(<<c>>) = 1
    OBVIOUS
  <2>2. Len(Upto(s)[1]) = 1 - 1 /\ Len(Upto(s)[2]) = 2 - 1 /\ Len(Upto(s)[3]) = 3 - 1
    BY <1>2, <1>5, <2>1
  <2> QED BY <1>7, <2>2
<1> QED BY <1>2, <1>5, <1>6, <1>9, <1>10

\* Merged, layers say the same with and without the empty ones.
LEMMA SparseMatches ==
  ASSUME NEW few, NEW many, NEW f, Sparse(f, few, many, <<>>),
         NEW shown, Len(shown) = Len(many),
         \A n \in 1..Len(many) : DOMAIN shown[n] = DOMAIN many[n]
  PROVE  Matches(f, few, shown)
<1>1. DOMAIN <<>> = {}
  OBVIOUS
<1>2. \A i \in 1..Len(few) : f[i] \in 1..Len(many)
  BY DEF Sparse, Places
<1> QED BY <1>1, <1>2 DEF Sparse, Matches

----------------------------------------------------------------------------
(* The lexicon *)

\* What a run merges, and what the editor does.
LoadedMarkers(s) ==
  LET scopes == Upto(s)
      there  == Pick(scopes, {i \in DOMAIN scopes : /\ moments[scopes[i]] # Absent
                                                   /\ ~MomentsAreBroken(scopes[i])})
  IN  <<DefaultMarkers>> \o [i \in DOMAIN there |-> NormalMarkers(moments[there[i]])]
MarkerLayers(s) ==
  <<DefaultMarkers>> \o [i \in DOMAIN Upto(s) |-> MarkersAt(Upto(s)[i])]

LEMMA LoadedMarkersAreSparse ==
  ASSUME NEW s \in EventScopes
  PROVE  /\ \E f : Sparse(f, LoadedMarkers(s), MarkerLayers(s), <<>>)
         /\ Len(LoadedMarkers(s)) \in Nat /\ DOMAIN LoadedMarkers(s) = 1..Len(LoadedMarkers(s))
         /\ Len(MarkerLayers(s)) \in Nat /\ DOMAIN MarkerLayers(s) = 1..Len(MarkerLayers(s))
<1> DEFINE scopes == Upto(s)
           F == [u \in Scopes |-> NormalMarkers(moments[u])]
           places == {i \in DOMAIN scopes : /\ moments[scopes[i]] # Absent
                                            /\ ~MomentsAreBroken(scopes[i])}
           there == Pick(scopes, places)
           S == {DefaultMarkers, <<>>} \cup {F[u] : u \in Scopes}
           few == [i \in DOMAIN there |-> F[there[i]]]
           many == [i \in DOMAIN scopes |-> IF i \in places THEN F[scopes[i]] ELSE <<>>]
<1>1. scopes \in Seq(Scopes)
  BY ScopesOfAnEvent
<1>2. there \in Seq(Scopes)
  BY <1>1, PickPlaces
<1>3. few \in Seq(S) /\ many \in Seq(S) /\ <<DefaultMarkers>> \in Seq(S)
  <2>1. \A u \in Scopes : F[u] \in S
    OBVIOUS
  <2> HIDE DEF F, places, scopes, there
  <2> QED BY <1>1, <1>2, <2>1
<1>4. \E f : Sparse(f, few, many, <<>>)
  <2> HIDE DEF places, F, scopes
  <2> QED BY <1>1, PickedIsSparse
<1>5. [i \in DOMAIN there |-> NormalMarkers(moments[there[i]])] = few
  <2>1. \A i \in DOMAIN there : there[i] \in Scopes
    BY <1>2
  <2> HIDE DEF there
  <2> QED BY <2>1
<1>6. [i \in DOMAIN scopes |-> MarkersAt(scopes[i])] = many
  <2>1. \A i \in DOMAIN scopes : scopes[i] \in Scopes
    BY <1>1
  <2>2. \A i \in DOMAIN scopes : MarkersAt(scopes[i]) = IF i \in places THEN F[scopes[i]] ELSE <<>>
    <3> HIDE DEF scopes
    <3> QED BY <2>1 DEF MarkersAt
  <2> HIDE DEF scopes, places, F
  <2> QED BY <2>2
<1>7. LoadedMarkers(s) = <<DefaultMarkers>> \o few /\ MarkerLayers(s) = <<DefaultMarkers>> \o many
  BY <1>5, <1>6, Zenon DEF LoadedMarkers, MarkerLayers
<1> HIDE DEF few, many, S
<1>8. \E f : Sparse(f, <<DefaultMarkers>> \o few, <<DefaultMarkers>> \o many, <<>>)
  BY <1>3, <1>4, SparseBehind
<1>9. LoadedMarkers(s) \in Seq(S) /\ MarkerLayers(s) \in Seq(S)
  BY <1>3, <1>7, ConcatProperties
<1> QED BY <1>7, <1>8, <1>9

\* A run's lexicon is all the layers', merged.
LEMMA ScoringMergesLayers ==
  ASSUME NEW s \in EventScopes
  PROVE  OverAll(LoadedMarkers(s)) = OverAll(MarkerLayers(s))
<1> DEFINE few == LoadedMarkers(s)
           many == MarkerLayers(s)
<1>1. /\ Len(few) \in Nat /\ DOMAIN few = 1..Len(few)
      /\ Len(many) \in Nat /\ DOMAIN many = 1..Len(many)
      /\ \E f : Sparse(f, few, many, <<>>)
  BY LoadedMarkersAreSparse
<1> HIDE DEF few, many
<1>2. PICK f : Sparse(f, few, many, <<>>)
  BY <1>1
<1>3. Matches(f, few, many)
  BY <1>2, SparseMatches
<1>4. \A i \in 1..Len(few) : few[i] = many[f[i]]
  BY <1>2 DEF Sparse
<1>5. /\ DOMAIN OverAll(few) = DOMAIN OverAll(many)
      /\ \A k \in DOMAIN OverAll(few) :
           \E i \in 1..Len(few) :
             k \in DOMAIN few[i] /\ OverAll(few)[k] = few[i][k]
                                 /\ OverAll(many)[k] = many[f[i]][k]
  BY <1>1, <1>3, MergedAlike
<1>6. \A k \in DOMAIN OverAll(few) : OverAll(few)[k] = OverAll(many)[k]
  BY <1>4, <1>5
<1>7. /\ OverAll(few) = [k \in DOMAIN OverAll(few) |-> OverAll(few)[k]]
      /\ OverAll(many) = [k \in DOMAIN OverAll(many) |-> OverAll(many)[k]]
  BY DEF OverAll
<1> QED BY <1>5, <1>6, <1>7 DEF few, many

\* The lexicon's editor shows each marker of the merge with its weight.
LEMMA LexiconEditorShowsWeights ==
  ASSUME NEW s \in EventScopes
  PROVE  LET shown == ReadLexicon(s).effective IN
         [k \in DOMAIN shown |-> shown[k].weight] = OverAll(LoadedMarkers(s))
<1> DEFINE few == LoadedMarkers(s)
           many == MarkerLayers(s)
           sources == <<"default">> \o Levels
           marked == [i \in DOMAIN many |->
                        [k \in DOMAIN many[i] |-> [weight |-> many[i][k], source |-> sources[i]]]]
           shown == ReadLexicon(s).effective
<1>1. shown = OverAll(marked)
  <2>1. ReadLexicon(s).effective =
          LET src == <<"default">> \o Levels
              layers  == <<DefaultMarkers>> \o [i \in DOMAIN Upto(s) |-> MarkersAt(Upto(s)[i])]
          IN OverAll([i \in DOMAIN layers |->
                       [k \in DOMAIN layers[i] |-> [weight |-> layers[i][k], source |-> src[i]]]])
    BY DEF ReadLexicon
  <2> QED BY <2>1, Zenon DEF MarkerLayers
<1>2. /\ Len(few) \in Nat /\ DOMAIN few = 1..Len(few)
      /\ Len(many) \in Nat /\ DOMAIN many = 1..Len(many)
      /\ \E f : Sparse(f, few, many, <<>>)
  BY LoadedMarkersAreSparse
<1> HIDE DEF few, many, sources, shown
<1>3. /\ Len(marked) = Len(many) /\ DOMAIN marked = 1..Len(marked)
      /\ \A n \in 1..Len(many) : DOMAIN marked[n] = DOMAIN many[n]
  BY <1>2
<1>4. \A n \in 1..Len(many) : \A k \in DOMAIN many[n] : marked[n][k].weight = many[n][k]
  BY <1>2
<1> HIDE DEF marked
<1>5. PICK f : Sparse(f, few, many, <<>>)
  BY <1>2
<1>6. Matches(f, few, marked)
  BY <1>3, <1>5, SparseMatches
<1>7. \A i \in 1..Len(few) : few[i] = many[f[i]] /\ f[i] \in 1..Len(many)
  BY <1>5 DEF Sparse, Places
<1>8. /\ DOMAIN OverAll(few) = DOMAIN OverAll(marked)
      /\ \A k \in DOMAIN OverAll(few) :
           \E i \in 1..Len(few) :
             k \in DOMAIN few[i] /\ OverAll(few)[k] = few[i][k]
                                 /\ OverAll(marked)[k] = marked[f[i]][k]
  BY <1>2, <1>3, <1>6, MergedAlike
<1>9. \A k \in DOMAIN OverAll(few) : OverAll(few)[k] = OverAll(marked)[k].weight
  BY <1>4, <1>7, <1>8
<1>10. OverAll(few) = [k \in DOMAIN OverAll(few) |-> OverAll(few)[k]]
  BY DEF OverAll
<1>11. [k \in DOMAIN shown |-> shown[k].weight] = OverAll(few)
  BY <1>1, <1>8, <1>9, <1>10
<1> QED BY <1>11 DEF few, shown

----------------------------------------------------------------------------
(* Adopting the default *)

\* Files hold what requests may send and hands may write.
VocabularyTypeOK ==
  /\ moments = [u \in Scopes |-> moments[u]]
  /\ \A u \in Scopes : moments[u] \in {Absent, Unreadable} \/ IsMarkerFile(moments[u])
  /\ glossaries = [u \in Scopes |-> glossaries[u]]
  /\ \A u \in Scopes :
       glossaries[u] \in {Absent, Unreadable} \/ glossaries[u].terms \in Seq(Terms)

\* A layer of markers is spelled in keys, with weights that are allowed.
IsLayer(m) ==
  /\ IsMarkerFile(m)
  /\ \A k \in DOMAIN m : Key[k] = k /\ m[k] \in 0..MaxWeight

LEMMA NormalMarkersAreALayer ==
  ASSUME NEW raw, IsMarkerFile(raw), ValidMarkers(raw)
  PROVE  IsLayer(NormalMarkers(raw))
<1> DEFINE m == NormalMarkers(raw)
<1>1. DOMAIN m = KeysOf(DOMAIN raw) /\ \A k \in DOMAIN m : m[k] = raw[SpellingOf(k, DOMAIN raw)]
  BY DEF NormalMarkers
<1>2. m = [k \in DOMAIN m |-> m[k]]
  BY DEF NormalMarkers
<1> HIDE DEF m
<1>3. ASSUME NEW k \in DOMAIN m
      PROVE  k \in Spellings /\ Key[k] = k /\ m[k] \in 0..MaxWeight
  <2>1. PICK x \in DOMAIN raw : Key[x] = k
    BY <1>1 DEF KeysOf
  <2>2. SpellingOf(k, DOMAIN raw) \in DOMAIN raw
    BY <2>1 DEF SpellingOf
  <2>3. m[k] \in 0..MaxWeight
    BY <1>1, <2>2 DEF ValidMarkers
  <2>4. x \in Spellings
    BY DEF IsMarkerFile
  <2> QED BY <2>1, <2>3, <2>4, VocabularyAssumption
<1>4. \A k \in DOMAIN m : m[k] \in Int
  BY <1>3, VocabularyAssumption
<1>5. m \in [DOMAIN m -> Int]
  BY <1>2, <1>4
<1>6. DOMAIN m \subseteq Spellings
  BY <1>3
<1> QED BY <1>3, <1>5, <1>6 DEF IsLayer, IsMarkerFile, m

\* What is spelled in keys already is left as it is.
LEMMA LayersStayNormal ==
  ASSUME NEW m, IsLayer(m)
  PROVE  NormalMarkers(m) = m /\ ValidMarkers(m)
<1>1. /\ m = [k \in DOMAIN m |-> m[k]]
      /\ \A k \in DOMAIN m : Key[k] = k /\ m[k] \in 0..MaxWeight
  BY DEF IsLayer, IsMarkerFile
<1>2. KeysOf(DOMAIN m) = DOMAIN m
  BY <1>1 DEF KeysOf
<1>3. \A k \in DOMAIN m : SpellingOf(k, DOMAIN m) = k
  BY <1>1 DEF SpellingOf
<1>4. NormalMarkers(m) = m
  <2>1. NormalMarkers(m) = [k \in DOMAIN m |-> m[SpellingOf(k, DOMAIN m)]]
    BY <1>2 DEF NormalMarkers
  <2>2. \A k \in DOMAIN m : NormalMarkers(m)[k] = m[k]
    BY <1>3, <2>1
  <2>3. NormalMarkers(m) = [k \in DOMAIN m |-> NormalMarkers(m)[k]]
    BY <2>1
  <2> QED BY <1>1, <2>2, <2>3
<1> QED BY <1>1, <1>4 DEF ValidMarkers, KeysDiffer

LEMMA LayersMergeToALayer ==
  ASSUME NEW a, NEW b, IsLayer(a), IsLayer(b)
  PROVE  IsLayer(Over(a, b)) /\ Over(a, b) \notin {Absent, Unreadable}
<1> DEFINE m == Over(a, b)
<1>1. /\ DOMAIN m = DOMAIN a \cup DOMAIN b
      /\ m = [k \in DOMAIN m |-> m[k]]
      /\ \A k \in DOMAIN m : m[k] = IF k \in DOMAIN a THEN a[k] ELSE b[k]
  BY DEF Over
<1> HIDE DEF m
<1>2. \A k \in DOMAIN m : Key[k] = k /\ m[k] \in 0..MaxWeight
  BY <1>1 DEF IsLayer
<1>3. DOMAIN m \subseteq Spellings
  BY <1>1 DEF IsLayer, IsMarkerFile
<1>4. \A k \in DOMAIN m : m[k] \in Int
  BY <1>2, VocabularyAssumption
<1>5. m \in [DOMAIN m -> Int]
  BY <1>1, <1>4
<1>6. m \notin {Absent, Unreadable}
  <2>1. {Absent, Unreadable} \cap [DOMAIN m -> Int] = {}
    BY <1>3, VocabularyAssumption
  <2> QED BY <1>5, <2>1
<1> QED BY <1>2, <1>3, <1>5, <1>6 DEF IsLayer, IsMarkerFile, m

LEMMA MarkersAtAreALayer ==
  ASSUME VocabularyTypeOK, NEW u \in Scopes
  PROVE  IsLayer(MarkersAt(u))
<1>1. CASE moments[u] = Absent \/ MomentsAreBroken(u)
  <2>1. DOMAIN <<>> = {} /\ <<>> \in [{} -> Int]
    OBVIOUS
  <2>2. MarkersAt(u) = <<>>
    BY <1>1 DEF MarkersAt
  <2> QED BY <2>1, <2>2 DEF IsLayer, IsMarkerFile
<1>2. CASE moments[u] # Absent /\ ~MomentsAreBroken(u)
  <2>1. ValidMarkers(moments[u]) /\ IsMarkerFile(moments[u])
    BY <1>2 DEF MomentsAreBroken, VocabularyTypeOK
  <2> QED BY <1>2, <2>1, NormalMarkersAreALayer DEF MarkersAt
<1> QED BY <1>1, <1>2

\* Of four layers the last that has an entry says what it is.
LEMMA MergeOfFour ==
  ASSUME NEW a, NEW b, NEW c, NEW d
  PROVE  OverAll(<<a, b, c, d>>) =
           [k \in DOMAIN a \cup DOMAIN b \cup DOMAIN c \cup DOMAIN d |->
              IF k \in DOMAIN d THEN d[k]
              ELSE IF k \in DOMAIN c THEN c[k] ELSE IF k \in DOMAIN b THEN b[k] ELSE a[k]]
<1> DEFINE s == <<a, b, c, d>>
           keys == DOMAIN a \cup DOMAIN b \cup DOMAIN c \cup DOMAIN d
           value(k) == IF k \in DOMAIN d THEN d[k]
                       ELSE IF k \in DOMAIN c THEN c[k] ELSE IF k \in DOMAIN b THEN b[k] ELSE a[k]
<1>1. /\ DOMAIN s = 1..4 /\ s[1] = a /\ s[2] = b /\ s[3] = c /\ s[4] = d
      /\ \A i \in 1..4 : i = 1 \/ i = 2 \/ i = 3 \/ i = 4
  OBVIOUS
<1> HIDE DEF s
<1>2. UNION {DOMAIN s[i] : i \in DOMAIN s} = keys
  <2>1. 1 \in 1..4 /\ 2 \in 1..4 /\ 3 \in 1..4 /\ 4 \in 1..4
    OBVIOUS
  <2>2. \A k : (\E i \in 1..4 : k \in DOMAIN s[i]) <=> k \in keys
    BY <1>1, <2>1
  <2>3. \A k : k \in UNION {DOMAIN s[i] : i \in DOMAIN s} <=> \E i \in 1..4 : k \in DOMAIN s[i]
    BY <1>1
  <2> HIDE DEF keys
  <2>4. \A k : k \in UNION {DOMAIN s[i] : i \in DOMAIN s} <=> k \in keys
    BY <2>2, <2>3
  <2> QED BY <2>4
<1>3. ASSUME NEW k \in keys
      PROVE  s[Max({i \in DOMAIN s : k \in DOMAIN s[i]})][k] = value(k)
  <2> DEFINE saying == {i \in DOMAIN s : k \in DOMAIN s[i]}
             x == Max(saying)
  <2>0. \A i \in 1..4 : i \in saying <=> k \in DOMAIN s[i]
    BY <1>1
  <2>1. saying \subseteq 1..4 /\ saying # {}
    <3>1. 1 \in saying \/ 2 \in saying \/ 3 \in saying \/ 4 \in saying
      BY <1>1
    <3> QED BY <1>1, <3>1
  <2> HIDE DEF saying
  <2>2. x \in saying /\ \A i \in saying : i <= x
    BY <2>1, Largest
  <2> HIDE DEF x
  <2>3. x \in 1..4
    BY <2>1, <2>2
  <2>4. CASE k \in DOMAIN d
    <3>1. 4 \in saying
      BY <1>1, <2>0, <2>4
    <3>2. x = 4
      BY <2>2, <2>3, <3>1
    <3> QED BY <1>1, <2>4, <3>2 DEF x, saying
  <2>5. CASE k \notin DOMAIN d /\ k \in DOMAIN c
    <3>1. 3 \in saying /\ 4 \notin saying
      BY <1>1, <2>0, <2>5
    <3>2. x # 4 /\ 3 <= x
      BY <2>2, <3>1
    <3>3. x = 3
      BY <2>3, <3>2
    <3> QED BY <1>1, <2>5, <3>3 DEF x, saying
  <2>6. CASE k \notin DOMAIN d /\ k \notin DOMAIN c /\ k \in DOMAIN b
    <3>1. 2 \in saying /\ 3 \notin saying /\ 4 \notin saying
      BY <1>1, <2>0, <2>6
    <3>2. x # 4 /\ x # 3 /\ 2 <= x
      BY <2>2, <3>1
    <3>3. x = 2
      BY <2>3, <3>2
    <3> QED BY <1>1, <2>6, <3>3 DEF x, saying
  <2>7. CASE k \notin DOMAIN d /\ k \notin DOMAIN c /\ k \notin DOMAIN b
    <3>1. 2 \notin saying /\ 3 \notin saying /\ 4 \notin saying
      BY <1>1, <2>0, <2>7
    <3>2. x # 4 /\ x # 3 /\ x # 2
      BY <2>2, <3>1
    <3>3. x = 1
      BY <2>3, <3>2
    <3> QED BY <1>1, <2>7, <3>3 DEF x, saying
  <2> QED BY <2>4, <2>5, <2>6, <2>7
<1>4. OverAll(s) = [k \in UNION {DOMAIN s[i] : i \in DOMAIN s} |->
                      s[Max({i \in DOMAIN s : k \in DOMAIN s[i]})][k]]
  BY Zenon DEF OverAll
<1> HIDE DEF keys, value
<1>5. OverAll(s) = [k \in keys |-> value(k)]
  BY <1>2, <1>3, <1>4
<1> QED BY <1>5 DEF s, keys, value

\* The default under what was written of one's own changes nothing above it.
LEMMA AdoptedMergesAlike ==
  ASSUME NEW d, NEW w, NEW c, NEW e
  PROVE  OverAll(<<d, Over(w, d), c, e>>) = OverAll(<<d, w, c, e>>)
<1> DEFINE o == Over(w, d)
           adopted(k) == IF k \in DOMAIN e THEN e[k] ELSE IF k \in DOMAIN c THEN c[k]
                         ELSE IF k \in DOMAIN o THEN o[k] ELSE d[k]
           before(k) == IF k \in DOMAIN e THEN e[k] ELSE IF k \in DOMAIN c THEN c[k]
                        ELSE IF k \in DOMAIN w THEN w[k] ELSE d[k]
           A == DOMAIN d \cup DOMAIN o \cup DOMAIN c \cup DOMAIN e
           B == DOMAIN d \cup DOMAIN w \cup DOMAIN c \cup DOMAIN e
<1>1. /\ DOMAIN o = DOMAIN w \cup DOMAIN d
      /\ \A k \in DOMAIN o : o[k] = IF k \in DOMAIN w THEN w[k] ELSE d[k]
  BY DEF Over
<1> HIDE DEF o
<1>2. A = B
  BY <1>1
<1>3. \A k \in A : adopted(k) = before(k)
  BY <1>1
<1>4. OverAll(<<d, o, c, e>>) = [k \in A |-> adopted(k)]
  BY MergeOfFour
<1>5. OverAll(<<d, w, c, e>>) = [k \in B |-> before(k)]
  BY MergeOfFour
<1> HIDE DEF A, B, adopted, before
<1>6. OverAll(<<d, o, c, e>>) = OverAll(<<d, w, c, e>>)
  BY <1>2, <1>3, <1>4, <1>5
<1> QED BY <1>6 DEF o

LEMMA LayersOfAnEvent ==
  ASSUME NEW s \in EventScopes
  PROVE  MarkerLayers(s) =
           <<DefaultMarkers, MarkersAt(<<>>), MarkersAt(<<s[1]>>), MarkersAt(s)>>
<1> DEFINE tail == [i \in DOMAIN Upto(s) |-> MarkersAt(Upto(s)[i])]
           S == {DefaultMarkers, MarkersAt(<<>>), MarkersAt(<<s[1]>>), MarkersAt(s)}
           four == <<DefaultMarkers, MarkersAt(<<>>), MarkersAt(<<s[1]>>), MarkersAt(s)>>
<1>1. /\ DOMAIN Upto(s) = 1..3
      /\ Upto(s)[1] = <<>> /\ Upto(s)[2] = <<s[1]>> /\ Upto(s)[3] = s
  BY ScopesOfAnEvent
<1>2. /\ tail = [i \in 1..3 |-> tail[i]] /\ tail[1] = MarkersAt(<<>>)
      /\ tail[2] = MarkersAt(<<s[1]>>) /\ tail[3] = MarkersAt(s)
  BY <1>1
<1>3. \A i \in 1..3 : i = 1 \/ i = 2 \/ i = 3
  OBVIOUS
<1>4. \A i \in 1..4 : i = 1 \/ i = 2 \/ i = 3 \/ i = 4
  OBVIOUS
<1>5. MarkerLayers(s) = <<DefaultMarkers>> \o tail
  BY Zenon DEF MarkerLayers
<1> HIDE DEF tail
<1>6. tail \in Seq(S) /\ Len(tail) = 3
  <2>1. \A i \in 1..3 : tail[i] \in S
    BY <1>2, <1>3
  <2> HIDE DEF S
  <2> QED BY <1>2, <2>1
<1>7. <<DefaultMarkers>> \in Seq(S) /\ Len(<<DefaultMarkers>>) = 1 /\ <<DefaultMarkers>>[1] = DefaultMarkers
  OBVIOUS
<1>8. /\ four \in Seq(S) /\ Len(four) = 4 /\ four[1] = DefaultMarkers
      /\ four[2] = MarkersAt(<<>>) /\ four[3] = MarkersAt(<<s[1]>>) /\ four[4] = MarkersAt(s)
  OBVIOUS
<1> HIDE DEF S, four
<1> DEFINE all == <<DefaultMarkers>> \o tail
<1>9. /\ all \in Seq(S) /\ Len(all) = 4
      /\ \A i \in 1..4 : all[i] = IF i <= 1 THEN <<DefaultMarkers>>[i] ELSE tail[i - 1]
  BY <1>6, <1>7, ConcatProperties
<1> HIDE DEF all
<1>10. /\ all[1] = DefaultMarkers /\ all[2] = MarkersAt(<<>>)
       /\ all[3] = MarkersAt(<<s[1]>>) /\ all[4] = MarkersAt(s)
  BY <1>2, <1>7, <1>9
<1>11. \A i \in 1..4 : all[i] = four[i]
  BY <1>4, <1>8, <1>10
<1>12. all = four
  BY <1>8, <1>9, <1>11, SeqEqual
<1> QED BY <1>5, <1>12 DEF all, four

\* What scores an event's clips, layer by layer.
ScoringIsByLayer ==
  \A s \in EventScopes :
    ScoringMarkers(s) = SwitchedOn(OverAll(<<DefaultMarkers, MarkersAt(<<>>),
                                             MarkersAt(<<s[1]>>), MarkersAt(s)>>))

LEMMA ScoringOfAnEvent == ScoringIsByLayer
<1> SUFFICES ASSUME NEW s \in EventScopes
             PROVE  ScoringMarkers(s) = SwitchedOn(OverAll(<<DefaultMarkers, MarkersAt(<<>>),
                                                            MarkersAt(<<s[1]>>), MarkersAt(s)>>))
  BY DEF ScoringIsByLayer
<1>1. ScoringMarkers(s) = SwitchedOn(OverAll(LoadedMarkers(s)))
  BY Zenon DEF ScoringMarkers, MergeLexicons, LoadedMarkers
<1> QED BY <1>1, ScoringMergesLayers, LayersOfAnEvent

LEMMA DefaultIsALayer == IsLayer(DefaultMarkers)
BY VocabularyAssumption DEF IsLayer

\* What the operator had of their own stays, and the default is below it.
LEMMA AdoptedMarkers ==
  ASSUME VocabularyTypeOK, AdoptDefault
  PROVE  /\ VocabularyTypeOK'
         /\ MarkersAt(<<>>)' = Over(MarkersAt(<<>>), DefaultMarkers)
         /\ \A u \in Scopes \ {<<>>} : MarkersAt(u)' = MarkersAt(u)
<1> DEFINE o == Over(MarkersAt(<<>>), DefaultMarkers)
<1>1. <<>> \in Scopes
  BY DEF Scopes
<1>2. IsLayer(o) /\ o \notin {Absent, Unreadable}
  BY <1>1, MarkersAtAreALayer, DefaultIsALayer, LayersMergeToALayer
<1>3. moments' = [moments EXCEPT ![<<>>] = o] /\ glossaries' = glossaries
  BY DEF AdoptDefault
<1> HIDE DEF o
<1>4. /\ moments' = [u \in Scopes |-> moments'[u]]
      /\ moments'[<<>>] = o
      /\ \A u \in Scopes \ {<<>>} : moments'[u] = moments[u]
  BY <1>1, <1>3 DEF VocabularyTypeOK
<1>5. VocabularyTypeOK'
  <2>1. IsMarkerFile(moments'[<<>>])
    BY <1>2, <1>4 DEF IsLayer
  <2>2. \A u \in Scopes : moments'[u] \in {Absent, Unreadable} \/ IsMarkerFile(moments'[u])
    BY <1>4, <2>1 DEF VocabularyTypeOK
  <2> QED BY <1>3, <1>4, <2>2 DEF VocabularyTypeOK
<1>6. MarkersAt(<<>>)' = o
  <2>1. NormalMarkers(o) = o /\ ValidMarkers(o)
    BY <1>2, LayersStayNormal
  <2> QED BY <1>2, <1>4, <2>1 DEF MarkersAt, MomentsAreBroken
<1>7. \A u \in Scopes \ {<<>>} : MarkersAt(u)' = MarkersAt(u)
  BY <1>4 DEF MarkersAt, MomentsAreBroken
<1> QED BY <1>5, <1>6, <1>7 DEF o

\* Adopting the default changes no lexicon of an event.
LEMMA AdoptKeepsScoring ==
  ASSUME VocabularyTypeOK, AdoptDefault, NEW s \in EventScopes
  PROVE  ScoringMarkers(s)' = ScoringMarkers(s)
<1> DEFINE c == <<s[1]>>
<1>1. ScoringMarkers(s) =
        SwitchedOn(OverAll(<<DefaultMarkers, MarkersAt(<<>>), MarkersAt(c), MarkersAt(s)>>))
  BY ScoringOfAnEvent DEF ScoringIsByLayer
<1>2. ScoringMarkers(s)' =
        SwitchedOn(OverAll(<<DefaultMarkers, MarkersAt(<<>>)', MarkersAt(c)', MarkersAt(s)'>>))
  <2>1. ScoringIsByLayer'
    BY ScoringOfAnEvent, PTL
  <2> QED BY <2>1 DEF ScoringIsByLayer
<1>3. c \in Scopes \ {<<>>} /\ s \in Scopes \ {<<>>}
  <2>1. PICK x \in Channels, e \in Events : s = <<x, e>>
    BY DEF EventScopes
  <2>2. c = <<x>> /\ c # <<>> /\ s # <<>>
    BY <2>1
  <2> QED BY <2>2 DEF Scopes, ChannelScopes
<1> HIDE DEF c
<1>4. /\ MarkersAt(<<>>)' = Over(MarkersAt(<<>>), DefaultMarkers)
      /\ MarkersAt(c)' = MarkersAt(c) /\ MarkersAt(s)' = MarkersAt(s)
  BY <1>3, AdoptedMarkers
<1>5. OverAll(<<DefaultMarkers, Over(MarkersAt(<<>>), DefaultMarkers), MarkersAt(c), MarkersAt(s)>>)
        = OverAll(<<DefaultMarkers, MarkersAt(<<>>), MarkersAt(c), MarkersAt(s)>>)
  BY AdoptedMergesAlike
<1> QED BY <1>1, <1>2, <1>4, <1>5, Zenon

----------------------------------------------------------------------------
(* The terms of all layers *)

\* The terms come from the first n layers, all of them, the last layer first.
Laid(lay, terms, layers, n) ==
  /\ lay \in [1..Len(terms) -> 1..n]
  /\ \A i, j \in 1..Len(terms) : i < j => lay[i] >= lay[j]
  /\ \A i \in 1..Len(terms) :
       \E x \in DOMAIN layers[lay[i]].terms : terms[i] = layers[lay[i]].terms[x]
  /\ \A l \in 1..n : \A x \in DOMAIN layers[l].terms :
       \E i \in 1..Len(terms) : lay[i] = l /\ terms[i] = layers[l].terms[x]

LEMMA LayOne ==
  ASSUME NEW S, NEW layers, NEW n \in Nat, n >= 1, layers[n].terms \in Seq(S),
         NEW terms \in Seq(S), NEW lay, Laid(lay, terms, layers, n - 1)
  PROVE  \E q : Laid(q, layers[n].terms \o terms, layers, n)
<1> DEFINE first == layers[n].terms
           h == Len(first)
           k == Len(terms)
           all == first \o terms
           q == [i \in 1..(h + k) |-> IF i <= h THEN n ELSE lay[i - h]]
<1>1. h \in Nat /\ k \in Nat /\ DOMAIN first = 1..h /\ DOMAIN terms = 1..k
  OBVIOUS
<1>2. /\ Len(all) = h + k
      /\ \A i \in 1..(h + k) : all[i] = IF i <= h THEN first[i] ELSE terms[i - h]
  BY ConcatProperties
<1>3. /\ lay \in [1..k -> 1..(n - 1)]
      /\ \A i, j \in 1..k : i < j => lay[i] >= lay[j]
      /\ \A i \in 1..k : \E x \in DOMAIN layers[lay[i]].terms : terms[i] = layers[lay[i]].terms[x]
      /\ \A l \in 1..(n - 1) : \A x \in DOMAIN layers[l].terms :
           \E i \in 1..k : lay[i] = l /\ terms[i] = layers[l].terms[x]
  BY DEF Laid
<1>4. DOMAIN q = 1..(h + k) /\ \A i \in 1..(h + k) : q[i] = IF i <= h THEN n ELSE lay[i - h]
  OBVIOUS
<1>5. q = [i \in 1..(h + k) |-> q[i]]
  OBVIOUS
<1> HIDE DEF q, all, h, k
<1>6. ASSUME NEW i \in 1..(h + k), ~(i <= h) PROVE i - h \in 1..k
  BY <1>1, <1>6
<1>7. \A i \in 1..k : lay[i] \in 1..(n - 1) /\ lay[i] \in 1..n /\ lay[i] < n
  BY <1>3
<1>8. ASSUME NEW i \in 1..(h + k) PROVE q[i] \in 1..n
  <2>1. CASE i <= h
    BY <1>4, <2>1
  <2>2. CASE ~(i <= h)
    BY <1>4, <1>6, <1>7, <2>2
  <2> QED BY <2>1, <2>2
<1>9. q \in [1..(h + k) -> 1..n]
  BY <1>5, <1>8
<1>10. ASSUME NEW i \in 1..(h + k), NEW j \in 1..(h + k), i < j PROVE q[i] >= q[j]
  <2>1. CASE j <= h
    <3>1. i <= h
      BY <1>1, <1>10, <2>1
    <3> QED BY <1>4, <2>1, <3>1
  <2>2. CASE i <= h /\ ~(j <= h)
    <3>1. lay[j - h] < n /\ lay[j - h] \in 1..n
      BY <1>6, <1>7, <2>2
    <3> QED BY <1>4, <2>2, <3>1
  <2>3. CASE ~(i <= h)
    <3>1. ~(j <= h)
      BY <1>1, <1>10, <2>3
    <3>2. i - h \in 1..k /\ j - h \in 1..k /\ i - h < j - h
      BY <1>1, <1>6, <1>10, <2>3, <3>1
    <3>3. lay[i - h] >= lay[j - h]
      BY <1>3, <3>2
    <3> QED BY <1>4, <2>3, <3>1, <3>3
  <2> QED BY <2>1, <2>2, <2>3
<1>11. ASSUME NEW i \in 1..(h + k)
       PROVE  \E x \in DOMAIN layers[q[i]].terms : all[i] = layers[q[i]].terms[x]
  <2>1. CASE i <= h
    <3>1. i \in 1..h
      BY <1>1, <2>1
    <3> QED BY <1>1, <1>2, <1>4, <2>1, <3>1
  <2>2. CASE ~(i <= h)
    <3>1. i - h \in 1..k /\ all[i] = terms[i - h] /\ q[i] = lay[i - h]
      BY <1>2, <1>4, <1>6, <2>2
    <3> QED BY <1>3, <3>1
  <2> QED BY <2>1, <2>2
<1>12. ASSUME NEW l \in 1..n, NEW x \in DOMAIN layers[l].terms
       PROVE  \E i \in 1..(h + k) : q[i] = l /\ all[i] = layers[l].terms[x]
  <2>1. CASE l = n
    <3>1. x \in 1..h
      BY <1>1, <2>1
    <3>2. x \in 1..(h + k) /\ x <= h
      BY <1>1, <3>1
    <3> QED BY <1>2, <1>4, <2>1, <3>2
  <2>2. CASE l # n
    <3>1. l \in 1..(n - 1)
      BY <2>2
    <3>2. PICK i \in 1..k : lay[i] = l /\ terms[i] = layers[l].terms[x]
      BY <1>3, <3>1
    <3>3. h + i \in 1..(h + k) /\ ~(h + i <= h) /\ (h + i) - h = i
      BY <1>1
    <3>4. q[h + i] = lay[i] /\ all[h + i] = terms[i]
      BY <1>2, <1>4, <3>3
    <3> QED BY <3>2, <3>3, <3>4
  <2> QED BY <2>1, <2>2
<1>13. Laid(q, all, layers, n)
  BY <1>2, <1>9, <1>10, <1>11, <1>12 DEF Laid
<1> QED BY <1>13 DEF all

\* MostSpecificFirst has every term of every layer, from the last to the first.
LEMMA MostSpecificFirstLays ==
  ASSUME NEW S, NEW layers, Len(layers) \in Nat,
         \A n \in 1..Len(layers) : layers[n].terms \in Seq(S)
  PROVE  /\ MostSpecificFirst(layers) \in Seq(S)
         /\ \E lay : Laid(lay, MostSpecificFirst(layers), layers, Len(layers))
<1> DEFINE Add(x, n) == layers[n].terms \o x
           all[n \in 0..Len(layers)] ==
             IF n = 0 THEN <<>> ELSE layers[n].terms \o all[n - 1]
           N == Len(layers)
           Good == [n \in 0..N |-> {x \in Seq(S) : \E lay : Laid(lay, x, layers, n)}]
           step == [p \in Seq(S) \X (1..N) |-> Add(p[1], p[2])]
<1> HIDE DEF all
<1>1. N \in Nat /\ \A n \in 1..N : n - 1 \in 0..N /\ n \in 0..N /\ n \in Nat /\ n >= 1
  OBVIOUS
<1>2. \A n \in 0..N : \A x :
        x \in Good[n] <=> x \in Seq(S) /\ \E lay : Laid(lay, x, layers, n)
  OBVIOUS
<1>3. <<>> \in Good[0]
  <2>1. Len(<<>>) = 0 /\ 1..0 = {} /\ <<>> \in Seq(S)
    OBVIOUS
  <2>2. \E lay : Laid(lay, <<>>, layers, 0)
    <3> DEFINE lay == [i \in 1..0 |-> 0]
    <3>1. lay \in [1..0 -> 1..0]
      BY <2>1
    <3>2. Laid(lay, <<>>, layers, 0)
      BY <2>1, <3>1 DEF Laid
    <3> QED BY <3>2
  <2>3. 0 \in 0..N
    BY <1>1
  <2> HIDE DEF Good
  <2> QED BY <1>2, <2>1, <2>2, <2>3
<1> HIDE DEF Good
<1>4. \A n \in 1..N : \A x \in Good[n - 1] :
        step[<<x, n>>] = Add(x, n) /\ step[<<x, n>>] \in Good[n]
  <2> SUFFICES ASSUME NEW n \in 1..N, NEW x \in Good[n - 1]
               PROVE  step[<<x, n>>] = Add(x, n) /\ step[<<x, n>>] \in Good[n]
    OBVIOUS
  <2>1. x \in Seq(S) /\ \E lay : Laid(lay, x, layers, n - 1)
    BY <1>1, <1>2
  <2>2. \E q : Laid(q, Add(x, n), layers, n)
    BY <1>1, <2>1, LayOne
  <2>3. Add(x, n) \in Seq(S)
    BY <2>1, ConcatProperties
  <2>4. step[<<x, n>>] = Add(x, n)
    <3> HIDE DEF Add, N
    <3> QED BY <2>1
  <2> HIDE DEF Add, N, step
  <2> QED BY <1>1, <1>2, <2>2, <2>3, <2>4
<1>5. PICK f : GoesUp(f, N, <<>>, step, Good)
  <2> HIDE DEF N, step
  <2> QED BY <1>1, <1>3, <1>4, Recursion
<1> HIDE DEF step
<1>6. f = [n \in 0..N |-> IF n = 0 THEN <<>> ELSE Add(f[n - 1], n)]
  <2>1. ASSUME NEW n \in 1..N PROVE f[n] = Add(f[n - 1], n)
    <3>1. f[n - 1] \in Good[n - 1]
      BY <1>1, <1>5 DEF GoesUp
    <3> HIDE DEF Add
    <3> QED BY <1>4, <1>5, <3>1 DEF GoesUp
  <2>2. \A n \in 0..N : n = 0 \/ n \in 1..N
    BY <1>1
  <2> HIDE DEF N, Add
  <2> QED BY <1>5, <2>1, <2>2 DEF GoesUp
<1>7. all = [n \in 0..N |-> IF n = 0 THEN <<>> ELSE Add(all[n - 1], n)]
  BY <1>6, Zenon DEF all
<1>8. N \in {n \in 0..N : all[n] = f[n]}
  <2> DEFINE T == {n \in 0..N : all[n] = f[n]}
  <2> HIDE DEF Add
  <2>1. 0 \in T /\ \A n \in 1..N : n - 1 \in T => n \in T
    BY <1>1, <1>6, <1>7
  <2> HIDE DEF T, N
  <2>2. 0..N \subseteq T
    BY <1>1, <2>1, UpTo
  <2>3. N \in T
    BY <1>1, <2>2
  <2> QED BY <2>3 DEF T
<1>9. MostSpecificFirst(layers) = all[N]
  BY DEF MostSpecificFirst, all
<1>10. all[N] \in Good[N] /\ N \in 0..N
  <2> HIDE DEF N
  <2> QED BY <1>1, <1>5, <1>8 DEF GoesUp
<1> QED BY <1>2, <1>9, <1>10

HasKey(layer, k) == \E x \in DOMAIN layer.terms : layer.terms[x].key = k

\* The first term of its key is from the last layer that has the key, and every
\* key has a first term.
LEMMA WinnersAreFromTheLast ==
  ASSUME NEW S, NEW layers, NEW N \in Nat, NEW terms \in Seq(S), NEW lay,
         Laid(lay, terms, layers, N)
  PROVE  /\ \A i \in 1..Len(terms) : Wins(terms, i) =>
              \A l \in 1..N : HasKey(layers[l], terms[i].key) => l <= lay[i]
         /\ \A l \in 1..N : \A k : HasKey(layers[l], k) =>
              \E i \in 1..Len(terms) : Wins(terms, i) /\ terms[i].key = k
<1> DEFINE m == Len(terms)
<1>1. m \in Nat
  OBVIOUS
<1>2. /\ lay \in [1..m -> 1..N]
      /\ \A i, j \in 1..m : i < j => lay[i] >= lay[j]
      /\ \A l \in 1..N : \A x \in DOMAIN layers[l].terms :
           \E i \in 1..m : lay[i] = l /\ terms[i] = layers[l].terms[x]
  BY DEF Laid
<1> HIDE DEF m
<1>3. ASSUME NEW l \in 1..N, NEW k, HasKey(layers[l], k)
      PROVE  \E i \in 1..m : lay[i] = l /\ terms[i].key = k
  BY <1>2, <1>3 DEF HasKey
<1>4. ASSUME NEW i \in 1..m, Wins(terms, i), NEW l \in 1..N, HasKey(layers[l], terms[i].key)
      PROVE  l <= lay[i]
  <2>1. PICK j \in 1..m : lay[j] = l /\ terms[j].key = terms[i].key
    BY <1>3, <1>4
  <2>2. ~(j < i)
    <3>1. j \in 1..i - 1 => terms[j].key # terms[i].key
      BY <1>4 DEF Wins
    <3>2. j < i => j \in 1..i - 1
      BY <1>1
    <3> QED BY <2>1, <3>1, <3>2
  <2>3. CASE i < j
    BY <1>2, <2>1, <2>3
  <2>4. CASE i = j
    BY <2>1, <2>4
  <2>5. i < j \/ i = j
    BY <2>2
  <2> QED BY <2>3, <2>4, <2>5
<1>5. ASSUME NEW l \in 1..N, NEW k, HasKey(layers[l], k)
      PROVE  \E i \in 1..m : Wins(terms, i) /\ terms[i].key = k
  <2> DEFINE T == {i \in 1..m : terms[i].key = k}
  <2>1. T \subseteq 1..m /\ T # {}
    BY <1>3, <1>5
  <2> HIDE DEF T
  <2>2. PICK i \in T : \A j \in T : i <= j
    BY <1>1, <2>1, Smallest
  <2>3. i \in 1..m /\ terms[i].key = k
    BY <2>1 DEF T
  <2>4. \A j \in 1..i - 1 : j \notin T /\ j \in 1..m
    BY <1>1, <2>2, <2>3
  <2>5. Wins(terms, i)
    BY <2>3, <2>4 DEF Wins, T
  <2> QED BY <2>3, <2>5
<1> QED BY <1>4, <1>5 DEF m

----------------------------------------------------------------------------
(* The layers of a glossary *)

\* A layer's terms have each its own key, which is its spelling's.
TermEntries == [key : Spellings, spelling : Spellings, enabled : BOOLEAN]
GlossaryLayer(l) ==
  /\ l.terms \in Seq(TermEntries)
  /\ \A i \in DOMAIN l.terms : l.terms[i].key = Key[l.terms[i].spelling]
  /\ \A i, j \in DOMAIN l.terms : l.terms[i].key = l.terms[j].key => i = j

LEMMA ParsedIsALayer ==
  ASSUME NEW p, p.terms \in Seq(Terms), ValidGlossary(p)
  PROVE  GlossaryLayer(ParseLayer(p))
<1> DEFINE t == ParseLayer(p).terms
<1>1. t = [i \in DOMAIN p.terms |->
             [key |-> Key[p.terms[i].spelling], spelling |-> p.terms[i].spelling,
              enabled |-> p.terms[i].enabled]]
  BY DEF ParseLayer
<1> HIDE DEF t
<1>2. DOMAIN p.terms = 1..Len(p.terms) /\ Len(p.terms) \in Nat
  OBVIOUS
<1>3. \A i \in DOMAIN p.terms : p.terms[i].spelling \in Spellings /\ p.terms[i].enabled \in BOOLEAN
  <2>1. \A i \in DOMAIN p.terms : p.terms[i] \in Terms
    OBVIOUS
  <2> QED BY <2>1 DEF Terms
<1>4. \A i \in DOMAIN p.terms : Key[p.terms[i].spelling] \in Spellings
  BY <1>3, VocabularyAssumption
<1>5. \A i \in DOMAIN p.terms : t[i] \in TermEntries
  BY <1>1, <1>3, <1>4 DEF TermEntries
<1>6. t \in Seq(TermEntries) /\ DOMAIN t = DOMAIN p.terms
  <2>1. DOMAIN t = 1..Len(p.terms) /\ t = [i \in 1..Len(p.terms) |-> t[i]]
    BY <1>1, <1>2
  <2> QED BY <1>2, <1>5, <2>1
<1>7. \A i \in DOMAIN t : t[i].key = Key[p.terms[i].spelling] /\ t[i].spelling = p.terms[i].spelling
  BY <1>1
<1>8. \A i, j \in DOMAIN t : t[i].key = t[j].key => i = j
  BY <1>6, <1>7 DEF ValidGlossary
<1> QED BY <1>6, <1>7, <1>8 DEF GlossaryLayer, t

LEMMA EmptyIsALayer == GlossaryLayer(EmptyLayer)
<1>1. EmptyLayer.terms = <<>> /\ DOMAIN <<>> = {} /\ <<>> \in Seq(TermEntries)
  BY DEF EmptyLayer
<1> QED BY <1>1 DEF GlossaryLayer

LEMMA LayerAtIsALayer ==
  ASSUME VocabularyTypeOK, NEW u \in Scopes
  PROVE  GlossaryLayer(LayerAt(u))
<1>1. CASE glossaries[u] = Absent \/ GlossaryIsBroken(u)
  BY <1>1, EmptyIsALayer DEF LayerAt
<1>2. CASE glossaries[u] # Absent /\ ~GlossaryIsBroken(u)
  <2>1. glossaries[u].terms \in Seq(Terms) /\ ValidGlossary(glossaries[u])
    BY <1>2 DEF GlossaryIsBroken, VocabularyTypeOK
  <2> QED BY <1>2, <2>1, ParsedIsALayer DEF LayerAt
<1> QED BY <1>1, <1>2

\* At most one pack is used, and it is a layer.
LEMMA PackIsALayer ==
  ASSUME NEW track
  PROVE  /\ PackOf(track) = <<>> \/ \E l : PackOf(track) = <<l>> /\ GlossaryLayer(l)
         /\ Len(PackOf(track)) \in {0, 1}
         /\ \A S : (\A l : GlossaryLayer(l) => l \in S) => PackOf(track) \in Seq(S)
         /\ \A i \in 1..Len(PackOf(track)) : GlossaryLayer(PackOf(track)[i])
<1>1. CASE track # None /\ KnownTrack(track)
  <2> DEFINE l == ParseLayer(Packs[track])
  <2>1. PackOf(track) = <<l>>
    BY <1>1 DEF PackOf
  <2>2. GlossaryLayer(l)
    <3>1. Packs[track] \in Range(Packs) /\ track \in DOMAIN Packs
      BY <1>1 DEF KnownTrack, Range
    <3>2. Packs[track].terms \in Seq(Terms) /\ ValidGlossary(Packs[track])
      BY <3>1, VocabularyAssumption, PackAssumption
    <3> QED BY <3>2, ParsedIsALayer
  <2> HIDE DEF l
  <2>3. /\ Len(<<l>>) = 1 /\ <<l>>[1] = l /\ \A i \in 1..1 : i = 1
        /\ \A S : l \in S => <<l>> \in Seq(S)
    OBVIOUS
  <2> QED BY <2>1, <2>2, <2>3
<1>2. CASE ~(track # None /\ KnownTrack(track))
  <2>1. PackOf(track) = <<>>
    BY <1>2 DEF PackOf
  <2>2. Len(<<>>) = 0 /\ 1..0 = {} /\ \A S : <<>> \in Seq(S)
    OBVIOUS
  <2> QED BY <2>1, <2>2
<1> QED BY <1>1, <1>2

\* What is picked is what is at the places.
LEMMA PickRange ==
  ASSUME NEW S, NEW s \in Seq(S), NEW places
  PROVE  Range(Pick(s, places)) = {s[i] : i \in places \cap DOMAIN s}
<1> DEFINE x == Pick(s, places)
<1>1. x \in Seq(S) /\ \E pos : Picks(pos, x, s, places, Len(s))
  BY PickPlaces
<1> HIDE DEF x
<1>2. PICK pos : Picks(pos, x, s, places, Len(s))
  BY <1>1
<1>3. DOMAIN x = 1..Len(x) /\ DOMAIN s = 1..Len(s)
  BY <1>1
<1>4. /\ pos \in [1..Len(x) -> 1..Len(s)]
      /\ \A i \in 1..Len(x) : x[i] = s[pos[i]]
      /\ \A p \in 1..Len(s) : p \in places <=> \E i \in 1..Len(x) : pos[i] = p
  BY <1>2 DEF Picks, Places
<1>5. \A e : e \in Range(x) <=> \E i \in 1..Len(x) : e = x[i]
  BY <1>3 DEF Range
<1>6. \A e : (\E i \in 1..Len(x) : e = x[i]) <=> \E p \in 1..Len(s) : p \in places /\ e = s[p]
  BY <1>4
<1>7. \A e : e \in {s[i] : i \in places \cap DOMAIN s} <=> \E p \in 1..Len(s) : p \in places /\ e = s[p]
  BY <1>3
<1> QED BY <1>5, <1>6, <1>7 DEF x

\* The files a run reads are those that are there and can be read.
LEMMA WhatIsReadable ==
  ASSUME NEW s \in EventScopes
  PROVE  /\ ReadableGlossaries(s) \in Seq(Scopes)
         /\ Range(ReadableGlossaries(s)) =
              {u \in Range(Upto(s)) : glossaries[u] # Absent /\ ~GlossaryIsBroken(u)}
<1> DEFINE scopes == Upto(s)
           places == {i \in DOMAIN scopes : /\ glossaries[scopes[i]] # Absent
                                            /\ ~GlossaryIsBroken(scopes[i])}
<1>1. scopes \in Seq(Scopes)
  BY ScopesOfAnEvent
<1>2. ReadableGlossaries(s) = Pick(scopes, places)
  BY DEF ReadableGlossaries
<1>3. Pick(scopes, places) \in Seq(Scopes)
  BY <1>1, PickPlaces
<1>4. Range(Pick(scopes, places)) = {scopes[i] : i \in places \cap DOMAIN scopes}
  BY <1>1, PickRange
<1>5. {scopes[i] : i \in places \cap DOMAIN scopes}
        = {u \in Range(scopes) : glossaries[u] # Absent /\ ~GlossaryIsBroken(u)}
  <2> HIDE DEF scopes
  <2> QED BY DEF Range
<1> QED BY <1>2, <1>3, <1>4, <1>5

\* The track that a run uses is the one the editor takes the event's file to name.
LEMMA OneTrack ==
  ASSUME NEW s \in EventScopes
  PROVE  (IF s \in Range(ReadableGlossaries(s)) THEN glossaries[s].track ELSE None)
           = LayerAt(s).track
<1>1. s \in Range(Upto(s))
  <2>1. DOMAIN Upto(s) = 1..3 /\ Upto(s)[3] = s /\ 3 \in 1..3
    BY ScopesOfAnEvent
  <2> QED BY <2>1 DEF Range
<1>2. s \in Range(ReadableGlossaries(s)) <=> glossaries[s] # Absent /\ ~GlossaryIsBroken(s)
  BY <1>1, WhatIsReadable
<1>3. EmptyLayer.track = None
  BY DEF EmptyLayer
<1>4. ParseLayer(glossaries[s]).track = glossaries[s].track
  BY DEF ParseLayer
<1> QED BY <1>2, <1>3, <1>4 DEF LayerAt

\* What a run merges, and what the editor does.
LoadedGlossaries(s) ==
  LET loaded == ReadableGlossaries(s)
      parsed == [i \in DOMAIN loaded |-> ParseLayer(glossaries[loaded[i]])]
      track  == IF s \in Range(loaded) THEN glossaries[s].track ELSE None
  IN  <<EmptyLayer>> \o PackOf(track) \o parsed
ShownLayers(s) ==
  <<EmptyLayer>> \o PackOf(LayerAt(s).track) \o [i \in DOMAIN Upto(s) |-> LayerAt(Upto(s)[i])]

LEMMA LoadedGlossariesAreSparse ==
  ASSUME VocabularyTypeOK, NEW s \in EventScopes
  PROVE  /\ \E f : Sparse(f, LoadedGlossaries(s), ShownLayers(s), EmptyLayer)
         /\ Len(LoadedGlossaries(s)) \in Nat
         /\ DOMAIN LoadedGlossaries(s) = 1..Len(LoadedGlossaries(s))
         /\ \A i \in 1..Len(LoadedGlossaries(s)) : GlossaryLayer(LoadedGlossaries(s)[i])
<1> DEFINE scopes == Upto(s)
           F == [u \in Scopes |-> ParseLayer(glossaries[u])]
           places == {i \in DOMAIN scopes : /\ glossaries[scopes[i]] # Absent
                                            /\ ~GlossaryIsBroken(scopes[i])}
           there == Pick(scopes, places)
           pack == PackOf(LayerAt(s).track)
           few == [i \in DOMAIN there |-> F[there[i]]]
           many == [i \in DOMAIN scopes |-> IF i \in places THEN F[scopes[i]] ELSE EmptyLayer]
           S == {EmptyLayer} \cup {F[u] : u \in Scopes} \cup Range(pack)
           head == <<EmptyLayer>> \o pack
<1>1. scopes \in Seq(Scopes)
  BY ScopesOfAnEvent
<1>2. there \in Seq(Scopes) /\ there = ReadableGlossaries(s)
  BY <1>1, PickPlaces DEF ReadableGlossaries
<1>3. pack \in Seq(S)
  <2>1. pack \in Seq(Range(pack))
    <3>1. pack = <<>> \/ \E l : pack = <<l>>
      BY PackIsALayer
    <3> HIDE DEF pack
    <3>2. ASSUME NEW l, pack = <<l>> PROVE pack \in Seq(Range(pack))
      <4>1. DOMAIN <<l>> = 1..1 /\ <<l>>[1] = l /\ 1 \in 1..1
        OBVIOUS
      <4>2. l \in Range(pack)
        BY <3>2, <4>1 DEF Range
      <4> QED BY <3>2, <4>2
    <3>3. ASSUME pack = <<>> PROVE pack \in Seq(Range(pack))
      BY <3>3
    <3> QED BY <3>1, <3>2, <3>3
  <2> HIDE DEF pack, F
  <2> QED BY <2>1
<1>4. few \in Seq(S) /\ many \in Seq(S) /\ <<EmptyLayer>> \in Seq(S)
  <2>1. \A u \in Scopes : F[u] \in S
    OBVIOUS
  <2>2. EmptyLayer \in S
    OBVIOUS
  <2> HIDE DEF F, places, scopes, there, S
  <2> QED BY <1>1, <1>2, <2>1, <2>2
<1>5. \E f : Sparse(f, few, many, EmptyLayer)
  <2> HIDE DEF places, F, scopes
  <2> QED BY <1>1, PickedIsSparse
<1>6. [i \in DOMAIN there |-> ParseLayer(glossaries[there[i]])] = few
  <2>1. \A i \in DOMAIN there : there[i] \in Scopes
    BY <1>2
  <2> HIDE DEF there
  <2> QED BY <2>1
<1>7. [i \in DOMAIN scopes |-> LayerAt(scopes[i])] = many
  <2>1. \A i \in DOMAIN scopes : scopes[i] \in Scopes
    BY <1>1
  <2>2. \A i \in DOMAIN scopes : LayerAt(scopes[i]) = IF i \in places THEN F[scopes[i]] ELSE EmptyLayer
    <3> HIDE DEF scopes
    <3> QED BY <2>1 DEF LayerAt
  <2> HIDE DEF scopes, places, F
  <2> QED BY <2>2
<1>8. LoadedGlossaries(s) = head \o few
  <2>1. LoadedGlossaries(s) =
          <<EmptyLayer>>
            \o PackOf(IF s \in Range(ReadableGlossaries(s)) THEN glossaries[s].track ELSE None)
            \o [i \in DOMAIN ReadableGlossaries(s) |-> ParseLayer(glossaries[ReadableGlossaries(s)[i]])]
    BY Zenon DEF LoadedGlossaries
  <2> HIDE DEF there, few
  <2> QED BY <1>2, <1>6, <2>1, OneTrack
<1>9. ShownLayers(s) = head \o many
  BY <1>7, Zenon DEF ShownLayers
<1> HIDE DEF few, many, head
<1>10. head \in Seq(S)
  <2> HIDE DEF S, pack
  <2> QED BY <1>3, <1>4, ConcatProperties DEF head
<1>11. \E f : Sparse(f, head \o few, head \o many, EmptyLayer)
  <2> HIDE DEF S
  <2> QED BY <1>4, <1>5, <1>10, SparseBehind
<1>12. LoadedGlossaries(s) \in Seq(S) /\ ShownLayers(s) \in Seq(S)
  <2> HIDE DEF S
  <2> QED BY <1>4, <1>8, <1>9, <1>10, ConcatProperties
<1>13. \A i \in 1..Len(LoadedGlossaries(s)) : GlossaryLayer(LoadedGlossaries(s)[i])
  <2> DEFINE T == {EmptyLayer} \cup {LayerAt(u) : u \in Scopes} \cup Range(pack)
  <2>1. \A l \in T : GlossaryLayer(l)
    <3>1. \A l \in Range(pack) : GlossaryLayer(l)
      <4>1. \A i \in 1..Len(pack) : GlossaryLayer(pack[i])
        BY PackIsALayer
      <4>2. DOMAIN pack = 1..Len(pack)
        <5> HIDE DEF pack, S
        <5> QED BY <1>3
      <4> HIDE DEF pack
      <4> QED BY <4>1, <4>2 DEF Range
    <3> HIDE DEF pack
    <3> QED BY <3>1, EmptyIsALayer, LayerAtIsALayer
  <2>2. many \in Seq(T)
    <3>1. \A i \in DOMAIN scopes : LayerAt(scopes[i]) \in T
      BY <1>1
    <3> HIDE DEF T, scopes
    <3>2. [i \in DOMAIN scopes |-> LayerAt(scopes[i])] \in Seq(T)
      BY <1>1, <3>1
    <3> QED BY <1>7, <3>2
  <2>3. pack \in Seq(T)
    <3>1. DOMAIN pack = 1..Len(pack) /\ Len(pack) \in Nat /\ pack = [i \in 1..Len(pack) |-> pack[i]]
      <4> HIDE DEF pack, S
      <4> QED BY <1>3
    <3>2. \A i \in DOMAIN pack : pack[i] \in T
      <4> HIDE DEF pack
      <4> QED BY DEF Range
    <3> HIDE DEF pack, T
    <3> QED BY <3>1, <3>2
  <2>4. <<EmptyLayer>> \in Seq(T)
    OBVIOUS
  <2> HIDE DEF T, pack
  <2>5. head \in Seq(T)
    BY <2>3, <2>4, ConcatProperties DEF head
  <2>6. ShownLayers(s) \in Seq(T)
    BY <1>9, <2>2, <2>5, ConcatProperties
  <2>7. \A n \in 1..Len(ShownLayers(s)) : GlossaryLayer(ShownLayers(s)[n])
    BY <2>1, <2>6
  <2>8. PICK f : Sparse(f, LoadedGlossaries(s), ShownLayers(s), EmptyLayer)
    BY <1>8, <1>9, <1>11
  <2>9. \A i \in 1..Len(LoadedGlossaries(s)) :
          /\ f[i] \in 1..Len(ShownLayers(s))
          /\ LoadedGlossaries(s)[i] = ShownLayers(s)[f[i]]
    BY <2>8 DEF Sparse, Places
  <2> QED BY <2>7, <2>9
<1> QED BY <1>8, <1>9, <1>11, <1>12, <1>13

\* Three sequences in a row: the first of one element.
LEMMA InARow ==
  ASSUME NEW S, NEW a \in S, NEW b \in Seq(S), NEW c \in Seq(S)
  PROVE  LET all == <<a>> \o b \o c
             h   == 1 + Len(b)
         IN  /\ all \in Seq(S) /\ Len(all) = h + Len(c) /\ DOMAIN all = 1..Len(all)
             /\ \A n \in 1..Len(all) :
                  /\ n = 1 => all[n] = a
                  /\ n \in 2..h => n - 1 \in 1..Len(b) /\ all[n] = b[n - 1]
                  /\ n > h => n - h \in 1..Len(c) /\ all[n] = c[n - h]
<1> DEFINE ab == <<a>> \o b
           all == ab \o c
           p == Len(b)
           q == Len(c)
<1>1. p \in Nat /\ q \in Nat
  OBVIOUS
<1>2. <<a>> \in Seq(S) /\ Len(<<a>>) = 1 /\ <<a>>[1] = a
  OBVIOUS
<1>3. /\ ab \in Seq(S) /\ Len(ab) = 1 + p
      /\ \A i \in 1..1 + p : ab[i] = IF i <= 1 THEN <<a>>[i] ELSE b[i - 1]
  BY <1>2, ConcatProperties
<1> HIDE DEF ab
<1>4. /\ all \in Seq(S) /\ Len(all) = (1 + p) + q
      /\ \A i \in 1..(1 + p) + q : all[i] = IF i <= 1 + p THEN ab[i] ELSE c[i - (1 + p)]
  <2>1. /\ all \in Seq(S) /\ Len(all) = Len(ab) + Len(c)
        /\ \A i \in 1..Len(ab) + Len(c) : all[i] = IF i <= Len(ab) THEN ab[i] ELSE c[i - Len(ab)]
    BY <1>3, ConcatProperties
  <2> HIDE DEF all
  <2> QED BY <1>3, <2>1
<1>5. DOMAIN all = 1..Len(all)
  <2> HIDE DEF all
  <2> QED BY <1>4
<1> HIDE DEF all, p, q
<1>6. ASSUME NEW n \in 1..Len(all)
      PROVE  /\ n = 1 => all[n] = a
             /\ n \in 2..1 + p => n - 1 \in 1..p /\ all[n] = b[n - 1]
             /\ n > 1 + p => n - (1 + p) \in 1..q /\ all[n] = c[n - (1 + p)]
  <2>1. n \in Nat /\ n \in 1..(1 + p) + q
    BY <1>1, <1>4
  <2>2. CASE n = 1
    <3>1. n <= 1 + p /\ n \in 1..1 + p
      BY <1>1, <2>2
    <3> QED BY <1>1, <1>2, <1>3, <1>4, <2>1, <2>2, <3>1
  <2>3. CASE n \in 2..1 + p
    <3>1. n <= 1 + p /\ n \in 1..1 + p /\ ~(n <= 1) /\ n - 1 \in 1..p
      BY <1>1, <2>3
    <3> QED BY <1>1, <1>3, <1>4, <2>1, <3>1
  <2>4. CASE n > 1 + p
    <3>1. ~(n <= 1 + p) /\ n - (1 + p) \in 1..q /\ n # 1 /\ n \notin 2..1 + p
      BY <1>1, <2>1, <2>4
    <3> QED BY <1>4, <2>1, <3>1
  <2>5. n = 1 \/ n \in 2..1 + p \/ n > 1 + p
    BY <1>1, <2>1
  <2> QED BY <2>2, <2>3, <2>4, <2>5
<1> QED BY <1>4, <1>5, <1>6 DEF all, ab, p, q

\* The editor's layers are those a run would merge if no file were left out,
\* each with a source of its own.
LEMMA EditorWalksTheLayers ==
  ASSUME NEW s \in EventScopes
  PROVE  /\ Len(LayersAt(s)) = Len(ShownLayers(s)) /\ Len(LayersAt(s)) \in Nat
         /\ DOMAIN LayersAt(s) = 1..Len(LayersAt(s))
         /\ \A n \in 1..Len(LayersAt(s)) : LayersAt(s)[n].layer = ShownLayers(s)[n]
         /\ \A m, n \in 1..Len(LayersAt(s)) : LayersAt(s)[m].source = LayersAt(s)[n].source => m = n
<1> DEFINE pack == PackOf(LayerAt(s).track)
           own == [i \in DOMAIN Upto(s) |-> LayerAt(Upto(s)[i])]
           shown == ShownLayers(s)
           a == [source |-> "default", layer |-> EmptyLayer]
           b == [i \in DOMAIN pack |-> [source |-> "track", layer |-> pack[i]]]
           c == [i \in DOMAIN Upto(s) |-> [source |-> Levels[i], layer |-> LayerAt(Upto(s)[i])]]
           walk == LayersAt(s)
           p == Len(pack)
           h == 1 + p
<1>1. Len(s) = 2 /\ DOMAIN Upto(s) = 1..3
  BY ScopesOfAnEvent
<1>2. walk = <<a>> \o b \o c
  BY <1>1 DEF LayersAt
<1>3. shown = <<EmptyLayer>> \o pack \o own
  BY Zenon DEF ShownLayers
<1>4. p \in {0, 1} /\ p \in Nat /\ DOMAIN pack = 1..p /\ pack \in Seq(Range(pack))
  <2>1. p \in {0, 1} /\ (pack = <<>> \/ \E l : pack = <<l>>)
    BY PackIsALayer
  <2> HIDE DEF pack
  <2>2. CASE pack = <<>>
    BY <2>1, <2>2
  <2>3. ASSUME NEW l, pack = <<l>> PROVE p = 1 /\ DOMAIN pack = 1..p /\ pack \in Seq(Range(pack))
    <3>1. DOMAIN <<l>> = 1..1 /\ <<l>>[1] = l /\ 1 \in 1..1 /\ Len(<<l>>) = 1
      OBVIOUS
    <3>2. l \in Range(pack)
      BY <2>3, <3>1 DEF Range
    <3> QED BY <2>3, <3>1, <3>2
  <2> QED BY <2>1, <2>2, <2>3
<1> HIDE DEF pack, walk, shown
<1>5. /\ own = [i \in 1..3 |-> LayerAt(Upto(s)[i])] /\ Len(own) = 3
      /\ b = [i \in 1..p |-> [source |-> "track", layer |-> pack[i]]] /\ Len(b) = p
      /\ c = [i \in 1..3 |-> [source |-> Levels[i], layer |-> LayerAt(Upto(s)[i])]] /\ Len(c) = 3
  <2> HIDE DEF p
  <2> QED BY <1>1, <1>4
<1>6. /\ Len(shown) = h + 3
      /\ \A n \in 1..h + 3 :
           /\ n = 1 => shown[n] = EmptyLayer
           /\ n \in 2..h => n - 1 \in 1..p /\ shown[n] = pack[n - 1]
           /\ n > h => n - h \in 1..3 /\ shown[n] = own[n - h]
  <2> DEFINE S == {EmptyLayer} \cup Range(pack) \cup {LayerAt(Upto(s)[i]) : i \in 1..3}
  <2>1. EmptyLayer \in S /\ Range(pack) \subseteq S /\ \A i \in 1..3 : LayerAt(Upto(s)[i]) \in S
    OBVIOUS
  <2> HIDE DEF S
  <2>2. own \in Seq(S) /\ pack \in Seq(S)
    BY <1>4, <1>5, <2>1
  <2> HIDE DEF own
  <2> QED BY <1>3, <1>5, <2>1, <2>2, InARow
<1>7. /\ Len(walk) = h + 3 /\ DOMAIN walk = 1..h + 3
      /\ \A n \in 1..h + 3 :
           /\ n = 1 => walk[n] = a
           /\ n \in 2..h => n - 1 \in 1..p /\ walk[n] = b[n - 1]
           /\ n > h => n - h \in 1..3 /\ walk[n] = c[n - h]
  <2> DEFINE S == {a} \cup {[source |-> "track", layer |-> pack[i]] : i \in 1..p}
                      \cup {[source |-> Levels[i], layer |-> LayerAt(Upto(s)[i])] : i \in 1..3}
  <2>1. /\ a \in S /\ \A i \in 1..p : [source |-> "track", layer |-> pack[i]] \in S
        /\ \A i \in 1..3 : [source |-> Levels[i], layer |-> LayerAt(Upto(s)[i])] \in S
    OBVIOUS
  <2> HIDE DEF S
  <2>2. b \in Seq(S) /\ c \in Seq(S)
    <3> HIDE DEF p
    <3> QED BY <1>4, <1>5, <2>1
  <2> HIDE DEF a, b, c
  <2> QED BY <1>2, <1>5, <2>1, <2>2, InARow
<1>8. \A n \in 1..h + 3 : n = 1 \/ n \in 2..h \/ n > h
  BY <1>4
<1>9. ASSUME NEW n \in 1..h + 3
      PROVE  /\ n = 1 => walk[n].layer = shown[n] /\ walk[n].source = "default"
             /\ n \in 2..h => walk[n].layer = shown[n] /\ walk[n].source = "track"
             /\ n > h => walk[n].layer = shown[n] /\ n - h \in 1..3 /\ walk[n].source = Levels[n - h]
  <2>1. CASE n = 1
    <3>1. a.layer = EmptyLayer /\ a.source = "default"
      OBVIOUS
    <3>2. n \notin 2..h /\ ~(n > h)
      BY <1>4, <2>1
    <3> HIDE DEF a, h
    <3> QED BY <1>6, <1>7, <2>1, <3>1, <3>2
  <2>2. CASE n \in 2..h
    <3>1. n # 1 /\ ~(n > h) /\ n - 1 \in 1..p
      BY <1>4, <2>2
    <3>2. b[n - 1].layer = pack[n - 1] /\ b[n - 1].source = "track"
      BY <1>5, <3>1
    <3> HIDE DEF b, h
    <3> QED BY <1>6, <1>7, <2>2, <3>1, <3>2
  <2>3. CASE n > h
    <3>1. n # 1 /\ n \notin 2..h
      BY <1>4, <2>3
    <3>2. n - h \in 1..3
      BY <1>7, <2>3
    <3>3. c[n - h].layer = own[n - h] /\ c[n - h].source = Levels[n - h]
      BY <1>5, <3>2
    <3> HIDE DEF c, own, h
    <3> QED BY <1>6, <1>7, <2>3, <3>1, <3>2, <3>3
  <2> QED BY <1>8, <2>1, <2>2, <2>3
<1>10. ASSUME NEW m \in 1..h + 3, NEW n \in 1..h + 3, walk[m].source = walk[n].source
       PROVE  m = n
  <2>1. /\ Levels[1] = "workspace" /\ Levels[2] = "channel" /\ Levels[3] = "event"
        /\ \A i \in 1..3 : i = 1 \/ i = 2 \/ i = 3
    BY DEF Levels
  <2>2. \A i \in 1..3 : Levels[i] # "default" /\ Levels[i] # "track"
    BY <2>1
  <2>3. \A i, j \in 1..3 : Levels[i] = Levels[j] => i = j
    BY <2>1
  <2>4. \A x \in 2..h : x = 2
    <3> HIDE DEF p
    <3> QED BY <1>4
  <2>5. CASE m = 1
    BY <1>8, <1>9, <1>10, <2>2, <2>5
  <2>6. CASE m \in 2..h
    BY <1>8, <1>9, <1>10, <2>2, <2>4, <2>6
  <2>7. CASE m > h
    <3>1. n > h
      BY <1>8, <1>9, <1>10, <2>2, <2>7
    <3>2. m - h = n - h
      BY <1>9, <1>10, <2>3, <2>7, <3>1
    <3> QED BY <1>4, <3>2
  <2> QED BY <1>8, <2>5, <2>6, <2>7
<1>11. \A n \in 1..h + 3 : walk[n].layer = shown[n]
  BY <1>8, <1>9
<1>12. h + 3 \in Nat
  BY <1>4
<1> QED BY <1>6, <1>7, <1>10, <1>11, <1>12 DEF walk, shown

----------------------------------------------------------------------------
(* What the glossary's editor shows *)

\* It warns of the files that a run is refused for.
LEMMA GlossaryProblemsAreShown ==
  ASSUME NEW s \in EventScopes
  PROVE  ReadGlossary(s).problems = GlossaryProblems(s)
<1> DEFINE R == Range(Upto(s))
           naming == {u \in Range(ReadableGlossaries(s)) : glossaries[u].track # None}
<1>1. ReadGlossary(s).problems = {u \in R : GlossaryIsBroken(u)} \cup TrackProblems(s)
  BY DEF ReadGlossary
<1>2. GlossaryProblems(s) = {u \in R : GlossaryIsBroken(u)}
                              \cup {u \in naming : u # s \/ ~KnownTrack(glossaries[u].track)}
  BY DEF GlossaryProblems
<1>3. ASSUME NEW u \in R PROVE u # s <=> Len(u) < 2
  <2>1. /\ DOMAIN Upto(s) = 1..3 /\ Upto(s)[3] = s /\ Len(s) = 2
        /\ \A i \in 1..3 : Len(Upto(s)[i]) = i - 1
    BY ScopesOfAnEvent
  <2>2. PICK i \in 1..3 : u = Upto(s)[i]
    BY <2>1 DEF Range
  <2>3. i = 3 \/ i - 1 < 2
    OBVIOUS
  <2> QED BY <2>1, <2>2, <2>3
<1>4. Range(ReadableGlossaries(s)) = {u \in R : glossaries[u] # Absent /\ ~GlossaryIsBroken(u)}
  BY WhatIsReadable
<1> HIDE DEF R
<1>5. ASSUME NEW u \in R
      PROVE  LayerAt(u).track = IF glossaries[u] = Absent \/ GlossaryIsBroken(u)
                                THEN None ELSE glossaries[u].track
  <2>1. EmptyLayer.track = None /\ ParseLayer(glossaries[u]).track = glossaries[u].track
    BY DEF EmptyLayer, ParseLayer
  <2> QED BY <2>1 DEF LayerAt
<1>6. \A u : u \in TrackProblems(s) <=>
        /\ u \in R /\ LayerAt(u).track # None
        /\ (Len(u) < 2 \/ ~KnownTrack(LayerAt(u).track))
  BY DEF TrackProblems, R
<1>7. ASSUME NEW u
      PROVE  u \in TrackProblems(s) <=> u \in {v \in naming : v # s \/ ~KnownTrack(glossaries[v].track)}
  BY <1>3, <1>4, <1>5, <1>6
<1> QED BY <1>1, <1>2, <1>7

\* The layers that a run merges among those of the editor.
LEMMA RunsMergeWhatIsWalked ==
  ASSUME VocabularyTypeOK, NEW s \in EventScopes
  PROVE  LET few  == LoadedGlossaries(s)
             walk == LayersAt(s)
         IN  /\ Len(few) \in Nat /\ DOMAIN few = 1..Len(few)
             /\ Len(walk) \in Nat /\ DOMAIN walk = 1..Len(walk)
             /\ \A i \in 1..Len(few) : GlossaryLayer(few[i])
             /\ \A m, n \in 1..Len(walk) : walk[m].source = walk[n].source => m = n
             /\ \E f : /\ Places(f, Len(few), Len(walk))
                       /\ \A i \in 1..Len(few) : f[i] \in 1..Len(walk) /\ few[i] = walk[f[i]].layer
                       /\ \A n \in 1..Len(walk) :
                            n \in Placed(f, 1..Len(few)) \/ walk[n].layer = EmptyLayer
<1> DEFINE few == LoadedGlossaries(s)
           walk == LayersAt(s)
           shown == ShownLayers(s)
<1>1. /\ Len(few) \in Nat /\ DOMAIN few = 1..Len(few)
      /\ \A i \in 1..Len(few) : GlossaryLayer(few[i])
      /\ \E f : Sparse(f, few, shown, EmptyLayer)
  BY LoadedGlossariesAreSparse
<1>2. /\ Len(walk) = Len(shown) /\ Len(walk) \in Nat
      /\ DOMAIN walk = 1..Len(walk)
      /\ \A n \in 1..Len(walk) : walk[n].layer = shown[n]
      /\ \A m, n \in 1..Len(walk) : walk[m].source = walk[n].source => m = n
  BY EditorWalksTheLayers
<1> HIDE DEF few, walk, shown
<1>3. PICK f : Sparse(f, few, shown, EmptyLayer)
  BY <1>1
<1>4. Places(f, Len(few), Len(walk))
  BY <1>2, <1>3 DEF Sparse
<1>5. \A i \in 1..Len(few) : f[i] \in 1..Len(walk) /\ few[i] = walk[f[i]].layer
  BY <1>2, <1>3 DEF Sparse, Places
<1>6. \A n \in 1..Len(walk) : n \in Placed(f, 1..Len(few)) \/ walk[n].layer = EmptyLayer
  BY <1>2, <1>3 DEF Sparse
<1> QED BY <1>1, <1>2, <1>4, <1>5, <1>6 DEF few, walk

\* It shows the replacements that are used, and those that are switched off.
LEMMA ReplacementsAreShown ==
  ASSUME VocabularyTypeOK, NEW s \in EventScopes
  PROVE  {<<r.raw, r.text>> : r \in {e \in Range(ReadGlossary(s).replacements) : e.text # Off}}
           = {<<r.raw, r.text>> : r \in Range(UsedGlossary(s).replacements)}
<1> DEFINE few == LoadedGlossaries(s)
           walk == LayersAt(s)
           ours == [i \in DOMAIN few |-> few[i].replacements]
           theirs == [n \in DOMAIN walk |->
                        [k \in DOMAIN walk[n].layer.replacements |->
                           [raw |-> walk[n].layer.replacements[k].raw,
                            text |-> walk[n].layer.replacements[k].text,
                            source |-> walk[n].source]]]
<1>1. UsedGlossary(s).replacements = InUse(OverAll(ours))
  BY Zenon DEF UsedGlossary, MergeGlossaries, LoadedGlossaries
<1>2. ReadGlossary(s).replacements = OverAll(theirs)
  BY DEF ReadGlossary
<1>3. /\ Len(few) \in Nat /\ DOMAIN few = 1..Len(few)
      /\ Len(walk) \in Nat /\ DOMAIN walk = 1..Len(walk)
      /\ \E f : /\ Places(f, Len(few), Len(walk))
                /\ \A i \in 1..Len(few) : f[i] \in 1..Len(walk) /\ few[i] = walk[f[i]].layer
                /\ \A n \in 1..Len(walk) :
                     n \in Placed(f, 1..Len(few)) \/ walk[n].layer = EmptyLayer
  BY RunsMergeWhatIsWalked
<1> HIDE DEF few, walk
<1>4. PICK f : /\ Places(f, Len(few), Len(walk))
               /\ \A i \in 1..Len(few) : f[i] \in 1..Len(walk) /\ few[i] = walk[f[i]].layer
               /\ \A n \in 1..Len(walk) :
                    n \in Placed(f, 1..Len(few)) \/ walk[n].layer = EmptyLayer
  BY <1>3
<1>5. /\ Len(ours) = Len(few) /\ DOMAIN ours = 1..Len(few)
      /\ \A i \in 1..Len(few) : ours[i] = few[i].replacements
  BY <1>3
<1>6. /\ Len(theirs) = Len(walk) /\ DOMAIN theirs = 1..Len(walk)
      /\ \A n \in 1..Len(walk) :
           /\ DOMAIN theirs[n] = DOMAIN walk[n].layer.replacements
           /\ \A k \in DOMAIN theirs[n] :
                /\ theirs[n][k].raw = walk[n].layer.replacements[k].raw
                /\ theirs[n][k].text = walk[n].layer.replacements[k].text
  BY <1>3
<1> HIDE DEF ours, theirs
<1>7. Matches(f, ours, theirs)
  <2>1. DOMAIN EmptyLayer.replacements = {}
    BY DEF EmptyLayer
  <2> QED BY <1>4, <1>5, <1>6, <2>1 DEF Matches
<1>8. /\ DOMAIN OverAll(ours) = DOMAIN OverAll(theirs)
      /\ \A k \in DOMAIN OverAll(ours) :
           \E i \in 1..Len(ours) :
             /\ k \in DOMAIN ours[i]
             /\ OverAll(ours)[k] = ours[i][k]
             /\ OverAll(theirs)[k] = theirs[f[i]][k]
  BY <1>3, <1>5, <1>6, <1>7, MergedAlike
<1>9. \A k \in DOMAIN OverAll(ours) :
        /\ OverAll(theirs)[k].raw = OverAll(ours)[k].raw
        /\ OverAll(theirs)[k].text = OverAll(ours)[k].text
  <2> SUFFICES ASSUME NEW k \in DOMAIN OverAll(ours)
               PROVE  /\ OverAll(theirs)[k].raw = OverAll(ours)[k].raw
                      /\ OverAll(theirs)[k].text = OverAll(ours)[k].text
    OBVIOUS
  <2>1. PICK i \in 1..Len(few) : /\ k \in DOMAIN ours[i]
                                 /\ OverAll(ours)[k] = ours[i][k]
                                 /\ OverAll(theirs)[k] = theirs[f[i]][k]
    BY <1>5, <1>8
  <2>2. f[i] \in 1..Len(walk) /\ ours[i] = walk[f[i]].layer.replacements
    BY <1>4, <1>5
  <2> QED BY <1>6, <2>1, <2>2
<1> DEFINE A == OverAll(ours)
           B == OverAll(theirs)
<1>10. DOMAIN A = DOMAIN B /\ \A k \in DOMAIN A : B[k].raw = A[k].raw /\ B[k].text = A[k].text
  BY <1>8, <1>9
<1>11. /\ DOMAIN InUse(A) = {k \in DOMAIN A : A[k].text # Off}
       /\ \A k \in DOMAIN InUse(A) : InUse(A)[k] = A[k]
  BY DEF InUse
<1> HIDE DEF A, B
<1>12. \A x : x \in {<<r.raw, r.text>> : r \in {e \in Range(B) : e.text # Off}} <=>
              \E k \in DOMAIN A : A[k].text # Off /\ x = <<A[k].raw, A[k].text>>
  BY <1>10 DEF Range
<1>13. \A x : x \in {<<r.raw, r.text>> : r \in Range(InUse(A))} <=>
              \E k \in DOMAIN A : A[k].text # Off /\ x = <<A[k].raw, A[k].text>>
  BY <1>11 DEF Range
<1>14. {<<r.raw, r.text>> : r \in {e \in Range(B) : e.text # Off}}
         = {<<r.raw, r.text>> : r \in Range(InUse(A))}
  BY <1>12, <1>13
<1> QED BY <1>1, <1>2, <1>14 DEF A, B

\* A layer has one term of a key.
LEMMA OneTermPerKey ==
  ASSUME NEW l, GlossaryLayer(l), NEW x \in DOMAIN l.terms
  PROVE  (CHOOSE e \in Range(l.terms) : e.key = l.terms[x].key) = l.terms[x]
<1> DEFINE e == CHOOSE e \in Range(l.terms) : e.key = l.terms[x].key
<1>1. l.terms[x] \in Range(l.terms)
  BY DEF Range
<1>2. e \in Range(l.terms) /\ e.key = l.terms[x].key
  BY <1>1
<1> HIDE DEF e
<1>3. PICK y \in DOMAIN l.terms : e = l.terms[y]
  BY <1>2 DEF Range
<1>4. y = x
  BY <1>2, <1>3 DEF GlossaryLayer
<1> QED BY <1>3, <1>4 DEF e

\* The terms of a glossary in use, one after the other: the editor shows each
\* first one of its key as it is, with the layer it is from; and no others.
ShownAs(terms, lay, f, s) ==
  LET shown == ReadGlossary(s).terms
      walk  == LayersAt(s)
  IN  /\ \A p \in 1..Len(terms) : terms[p].key = Key[terms[p].spelling]
      /\ \A p \in 1..Len(terms) : Wins(terms, p) =>
           /\ terms[p].key \in DOMAIN shown
           /\ shown[terms[p].key].term = terms[p].spelling
           /\ shown[terms[p].key].enabled = terms[p].enabled
           /\ shown[terms[p].key].source = walk[f[lay[p]]].source
      /\ \A k \in DOMAIN shown : \E p \in 1..Len(terms) : Wins(terms, p) /\ terms[p].key = k

LEMMA FirstTermsAreShown ==
  ASSUME VocabularyTypeOK, NEW s \in EventScopes
  PROVE  LET few   == LoadedGlossaries(s)
             terms == MostSpecificFirst(few)
         IN  /\ terms \in Seq(TermEntries)
             /\ Len(few) \in Nat
             /\ \E lay, f : /\ Laid(lay, terms, few, Len(few))
                            /\ Places(f, Len(few), Len(LayersAt(s)))
                            /\ ShownAs(terms, lay, f, s)
<1> DEFINE few == LoadedGlossaries(s)
           walk == LayersAt(s)
           terms == MostSpecificFirst(few)
           shown == ReadGlossary(s).terms
           Keys(l) == {l.terms[i].key : i \in DOMAIN l.terms}
           ours == [i \in DOMAIN few |-> [k \in Keys(few[i]) |-> 0]]
           Entry(l, k) == CHOOSE e \in Range(l.terms) : e.key = k
           theirs == [n \in DOMAIN walk |->
                        [k \in Keys(walk[n].layer) |->
                           [term |-> Entry(walk[n].layer, k).spelling,
                            enabled |-> Entry(walk[n].layer, k).enabled,
                            source |-> walk[n].source]]]
<1>1. shown = OverAll(theirs)
  BY DEF ReadGlossary
<1>2. /\ Len(few) \in Nat /\ DOMAIN few = 1..Len(few)
      /\ Len(walk) \in Nat /\ DOMAIN walk = 1..Len(walk)
      /\ \A i \in 1..Len(few) : GlossaryLayer(few[i])
      /\ \E f : /\ Places(f, Len(few), Len(walk))
                /\ \A i \in 1..Len(few) : f[i] \in 1..Len(walk) /\ few[i] = walk[f[i]].layer
                /\ \A n \in 1..Len(walk) :
                     n \in Placed(f, 1..Len(few)) \/ walk[n].layer = EmptyLayer
  BY RunsMergeWhatIsWalked
<1> HIDE DEF few, walk, shown
<1>3. PICK f : /\ Places(f, Len(few), Len(walk))
               /\ \A i \in 1..Len(few) : f[i] \in 1..Len(walk) /\ few[i] = walk[f[i]].layer
               /\ \A n \in 1..Len(walk) :
                    n \in Placed(f, 1..Len(few)) \/ walk[n].layer = EmptyLayer
  BY <1>2
<1>4. /\ Len(ours) = Len(few) /\ DOMAIN ours = 1..Len(few)
      /\ \A i \in 1..Len(few) : DOMAIN ours[i] = Keys(few[i])
  BY <1>2
<1>5. /\ Len(theirs) = Len(walk) /\ DOMAIN theirs = 1..Len(walk)
      /\ \A n \in 1..Len(walk) :
           /\ DOMAIN theirs[n] = Keys(walk[n].layer)
           /\ \A k \in DOMAIN theirs[n] :
                /\ theirs[n][k].term = Entry(walk[n].layer, k).spelling
                /\ theirs[n][k].enabled = Entry(walk[n].layer, k).enabled
                /\ theirs[n][k].source = walk[n].source
  <2> HIDE DEF Keys, Entry
  <2> QED BY <1>2
<1> HIDE DEF ours, theirs
<1>6. Matches(f, ours, theirs)
  <2>1. Keys(EmptyLayer) = {}
    BY DEF EmptyLayer
  <2> HIDE DEF Keys
  <2> QED BY <1>3, <1>4, <1>5, <2>1 DEF Matches
<1>7. /\ DOMAIN OverAll(ours) = DOMAIN OverAll(theirs)
      /\ \A k \in DOMAIN OverAll(ours) :
           \E i \in 1..Len(ours) :
             /\ k \in DOMAIN ours[i]
             /\ \A j \in 1..Len(ours) : k \in DOMAIN ours[j] => j <= i
             /\ OverAll(theirs)[k] = theirs[f[i]][k]
  <2> HIDE DEF Keys
  <2> QED BY <1>2, <1>4, <1>5, <1>6, MergedAlike
<1>8. DOMAIN shown = UNION {DOMAIN ours[i] : i \in DOMAIN ours}
  BY <1>1, <1>7 DEF OverAll
<1>9. \A i \in 1..Len(few) : \A k : k \in DOMAIN ours[i] <=> HasKey(few[i], k)
  BY <1>4 DEF HasKey
<1>10. \A i \in 1..Len(few) : few[i].terms \in Seq(TermEntries)
  BY <1>2 DEF GlossaryLayer
<1>11. terms \in Seq(TermEntries) /\ \E lay : Laid(lay, terms, few, Len(few))
  BY <1>2, <1>10, MostSpecificFirstLays
<1> HIDE DEF terms
<1>12. PICK lay : Laid(lay, terms, few, Len(few))
  BY <1>11
<1>13. /\ \A i \in 1..Len(terms) : Wins(terms, i) =>
            \A l \in 1..Len(few) : HasKey(few[l], terms[i].key) => l <= lay[i]
       /\ \A l \in 1..Len(few) : \A k : HasKey(few[l], k) =>
            \E i \in 1..Len(terms) : Wins(terms, i) /\ terms[i].key = k
  <2> DEFINE N == Len(few)
             T == TermEntries
  <2>1. N \in Nat /\ terms \in Seq(T) /\ Laid(lay, terms, few, N)
    BY <1>2, <1>11, <1>12
  <2> HIDE DEF N, T
  <2>2. \A i \in 1..Len(terms) : Wins(terms, i) =>
          \A l \in 1..N : HasKey(few[l], terms[i].key) => l <= lay[i]
    BY <2>1, WinnersAreFromTheLast
  <2>3. \A l \in 1..N : \A k : HasKey(few[l], k) =>
          \E i \in 1..Len(terms) : Wins(terms, i) /\ terms[i].key = k
    BY <2>1, WinnersAreFromTheLast
  <2> QED BY <2>2, <2>3 DEF N
<1>14. \A p \in 1..Len(terms) :
         /\ lay[p] \in 1..Len(few)
         /\ \E x \in DOMAIN few[lay[p]].terms : terms[p] = few[lay[p]].terms[x]
  BY <1>12 DEF Laid
<1>15. ASSUME NEW p \in 1..Len(terms)
       PROVE  /\ terms[p].key = Key[terms[p].spelling]
              /\ terms[p].key \in DOMAIN shown
              /\ terms[p].key \in DOMAIN ours[lay[p]]
              /\ Entry(few[lay[p]], terms[p].key) = terms[p]
  <2>1. PICK x \in DOMAIN few[lay[p]].terms : terms[p] = few[lay[p]].terms[x]
    BY <1>14
  <2>2. lay[p] \in 1..Len(few) /\ GlossaryLayer(few[lay[p]])
    BY <1>2, <1>14
  <2>3. HasKey(few[lay[p]], terms[p].key)
    BY <2>1 DEF HasKey
  <2>4. terms[p].key \in DOMAIN ours[lay[p]] /\ lay[p] \in DOMAIN ours
    BY <1>4, <1>9, <2>2, <2>3
  <2>5. terms[p].key \in DOMAIN shown
    BY <1>8, <2>4
  <2>6. Entry(few[lay[p]], terms[p].key) = terms[p]
    BY <2>1, <2>2, OneTermPerKey
  <2>7. terms[p].key = Key[terms[p].spelling]
    BY <2>1, <2>2 DEF GlossaryLayer
  <2> QED BY <2>4, <2>5, <2>6, <2>7
<1>16. ASSUME NEW p \in 1..Len(terms), Wins(terms, p)
       PROVE  /\ shown[terms[p].key].term = terms[p].spelling
              /\ shown[terms[p].key].enabled = terms[p].enabled
              /\ shown[terms[p].key].source = walk[f[lay[p]]].source
  <2> DEFINE k == terms[p].key
  <2>1. PICK i \in 1..Len(few) :
          /\ k \in DOMAIN ours[i]
          /\ \A j \in 1..Len(few) : k \in DOMAIN ours[j] => j <= i
          /\ OverAll(theirs)[k] = theirs[f[i]][k]
    BY <1>1, <1>4, <1>7, <1>15
  <2>2. lay[p] <= i /\ lay[p] \in 1..Len(few)
    BY <1>14, <1>15, <2>1
  <2>3. i <= lay[p]
    BY <1>9, <1>13, <1>16, <2>1
  <2>4. i = lay[p]
    BY <2>2, <2>3
  <2>5. f[i] \in 1..Len(walk) /\ few[i] = walk[f[i]].layer
    BY <1>3
  <2>6. k \in DOMAIN theirs[f[i]]
    <3> HIDE DEF Keys
    <3> QED BY <1>4, <1>5, <2>1, <2>5
  <2>7. Entry(walk[f[i]].layer, k) = terms[p]
    BY <1>15, <2>4, <2>5
  <2> HIDE DEF Entry, Keys
  <2> QED BY <1>1, <1>5, <2>1, <2>4, <2>5, <2>6, <2>7
<1>17. ASSUME NEW k \in DOMAIN shown
       PROVE  \E p \in 1..Len(terms) : Wins(terms, p) /\ terms[p].key = k
  BY <1>4, <1>8, <1>9, <1>13
<1>18. ShownAs(terms, lay, f, s)
  BY <1>15, <1>16, <1>17 DEF ShownAs, shown, walk
<1> QED BY <1>2, <1>3, <1>11, <1>12, <1>18 DEF few, terms, walk

\* The terms that the editor shows as enabled are those in use, and those in use
\* are in the order of the layers the editor shows them with.
LEMMA TermsAreShown ==
  ASSUME VocabularyTypeOK, NEW s \in EventScopes
  PROVE  LET shown   == ReadGlossary(s).terms
             used    == UsedGlossary(s).terms
             sources == [n \in DOMAIN LayersAt(s) |-> LayersAt(s)[n].source]
             rank(t) == CHOOSE n \in DOMAIN sources : sources[n] = shown[Key[t]].source
         IN  /\ {t.term : t \in {e \in Range(shown) : e.enabled}} = Range(used)
             /\ \A i, j \in DOMAIN used : i < j => rank(used[i]) >= rank(used[j])
<1> DEFINE few == LoadedGlossaries(s)
           terms == MostSpecificFirst(few)
           places == {i \in DOMAIN terms : Wins(terms, i) /\ terms[i].enabled}
           picked == Pick(terms, places)
           shown == ReadGlossary(s).terms
           used == UsedGlossary(s).terms
           walk == LayersAt(s)
           sources == [n \in DOMAIN walk |-> walk[n].source]
           rank(t) == CHOOSE n \in DOMAIN sources : sources[n] = shown[Key[t]].source
<1>1. used = SpellingsOf(picked)
  BY Zenon DEF UsedGlossary, MergeGlossaries, LoadedGlossaries
<1>2. /\ terms \in Seq(TermEntries) /\ Len(few) \in Nat
      /\ \E lay, f : /\ Laid(lay, terms, few, Len(few))
                     /\ Places(f, Len(few), Len(walk))
                     /\ ShownAs(terms, lay, f, s)
  BY FirstTermsAreShown
<1>3. /\ Len(walk) \in Nat /\ DOMAIN walk = 1..Len(walk)
      /\ \A m, n \in 1..Len(walk) : walk[m].source = walk[n].source => m = n
  BY EditorWalksTheLayers
<1> HIDE DEF few, terms, shown, used, walk
<1>4. PICK lay, f : /\ Laid(lay, terms, few, Len(few))
                    /\ Places(f, Len(few), Len(walk))
                    /\ ShownAs(terms, lay, f, s)
  BY <1>2
<1>5. picked \in Seq(TermEntries) /\ \E pos : Picks(pos, picked, terms, places, Len(terms))
  BY <1>2, PickPlaces
<1> HIDE DEF picked
<1>6. PICK pos : Picks(pos, picked, terms, places, Len(terms))
  BY <1>5
<1>7. /\ DOMAIN terms = 1..Len(terms) /\ Len(terms) \in Nat
      /\ DOMAIN picked = 1..Len(picked) /\ Len(picked) \in Nat
  BY <1>2, <1>5
<1>8. /\ \A i \in 1..Len(picked) :
           /\ pos[i] \in 1..Len(terms) /\ picked[i] = terms[pos[i]]
           /\ Wins(terms, pos[i]) /\ terms[pos[i]].enabled
      /\ \A i, j \in 1..Len(picked) : i < j => pos[i] < pos[j]
      /\ \A p \in 1..Len(terms) : Wins(terms, p) /\ terms[p].enabled =>
           \E i \in 1..Len(picked) : pos[i] = p
  BY <1>6, <1>7 DEF Picks, Places
<1>9. DOMAIN used = 1..Len(picked) /\ \A i \in 1..Len(picked) : used[i] = terms[pos[i]].spelling
  BY <1>1, <1>7, <1>8 DEF SpellingsOf
<1>10. /\ \A p \in 1..Len(terms) : terms[p].key = Key[terms[p].spelling]
       /\ \A p \in 1..Len(terms) : Wins(terms, p) =>
            /\ terms[p].key \in DOMAIN shown
            /\ shown[terms[p].key].term = terms[p].spelling
            /\ shown[terms[p].key].enabled = terms[p].enabled
            /\ shown[terms[p].key].source = walk[f[lay[p]]].source
       /\ \A k \in DOMAIN shown : \E p \in 1..Len(terms) : Wins(terms, p) /\ terms[p].key = k
  BY <1>4 DEF ShownAs, shown, walk
<1>11. {t.term : t \in {e \in Range(shown) : e.enabled}} = Range(used)
  <2>1. ASSUME NEW x
        PROVE  x \in {t.term : t \in {e \in Range(shown) : e.enabled}} <=>
                 \E k \in DOMAIN shown : shown[k].enabled /\ x = shown[k].term
    BY DEF Range
  <2>2. ASSUME NEW x
        PROVE  (\E k \in DOMAIN shown : shown[k].enabled /\ x = shown[k].term) <=>
                 \E p \in 1..Len(terms) : Wins(terms, p) /\ terms[p].enabled /\ x = terms[p].spelling
    BY <1>10
  <2>3. ASSUME NEW x
        PROVE  (\E p \in 1..Len(terms) : Wins(terms, p) /\ terms[p].enabled /\ x = terms[p].spelling) <=>
                 \E i \in 1..Len(picked) : x = used[i]
    BY <1>8, <1>9
  <2>4. ASSUME NEW x PROVE x \in Range(used) <=> \E i \in 1..Len(picked) : x = used[i]
    BY <1>9 DEF Range
  <2> DEFINE A == {t.term : t \in {e \in Range(shown) : e.enabled}}
  <2>5. ASSUME NEW x PROVE x \in A <=> x \in Range(used)
    <3> DEFINE InShown == \E k \in DOMAIN shown : shown[k].enabled /\ x = shown[k].term
               InTerms == \E p \in 1..Len(terms) :
                            Wins(terms, p) /\ terms[p].enabled /\ x = terms[p].spelling
               InUsed  == \E i \in 1..Len(picked) : x = used[i]
    <3>1. x \in A <=> InShown
      BY <2>1
    <3>2. InShown <=> InTerms
      BY <2>2
    <3>3. InTerms <=> InUsed
      BY <2>3
    <3>4. x \in Range(used) <=> InUsed
      BY <2>4
    <3> HIDE DEF InShown, InTerms, InUsed, A
    <3> QED BY <3>1, <3>2, <3>3, <3>4
  <2> HIDE DEF A
  <2>6. A = Range(used)
    BY <2>5
  <2> QED BY <2>6 DEF A
<1>12. ASSUME NEW i \in 1..Len(picked)
       PROVE  /\ rank(used[i]) = f[lay[pos[i]]]
              /\ lay[pos[i]] \in 1..Len(few) /\ f[lay[pos[i]]] \in 1..Len(walk)
  <2> DEFINE p == pos[i]
             n == f[lay[p]]
  <2>1. p \in 1..Len(terms) /\ Wins(terms, p) /\ used[i] = terms[p].spelling
    BY <1>8, <1>9
  <2>2. lay[p] \in 1..Len(few) /\ n \in 1..Len(walk)
    BY <1>4, <2>1 DEF Laid, Places
  <2>3. shown[Key[used[i]]].source = walk[n].source
    <3>1. terms[p].key = Key[used[i]]
      BY <1>10, <2>1
    <3>2. shown[terms[p].key].source = walk[n].source
      BY <1>10, <2>1
    <3> QED BY <3>1, <3>2
  <2>4. \A m \in DOMAIN sources : sources[m] = shown[Key[used[i]]].source <=> m = n
    BY <1>3, <2>2, <2>3
  <2>5. n \in DOMAIN sources
    BY <1>3, <2>2
  <2> HIDE DEF n, sources
  <2>6. rank(used[i]) = n
    BY <2>4, <2>5
  <2> QED BY <2>2, <2>6 DEF n
<1>13. ASSUME NEW i \in 1..Len(picked), NEW j \in 1..Len(picked), i < j
       PROVE  f[lay[pos[i]]] >= f[lay[pos[j]]]
  <2> DEFINE a == lay[pos[i]]
             b == lay[pos[j]]
  <2>1. pos[i] < pos[j] /\ pos[i] \in 1..Len(terms) /\ pos[j] \in 1..Len(terms)
    BY <1>8, <1>13
  <2>2. a >= b
    BY <1>4, <2>1 DEF Laid
  <2>3. a \in 1..Len(few) /\ b \in 1..Len(few) /\ f[a] \in 1..Len(walk) /\ f[b] \in 1..Len(walk)
    BY <1>12
  <2> HIDE DEF a, b
  <2>4. b < a => f[b] < f[a]
    BY <1>4, <2>3 DEF Places
  <2>5. b < a \/ b = a
    BY <1>2, <2>2, <2>3
  <2>6. f[a] >= f[b]
    BY <1>3, <2>3, <2>4, <2>5
  <2> QED BY <2>6 DEF a, b
<1> HIDE DEF sources, rank
<1>14. \A i, j \in DOMAIN used : i < j => rank(used[i]) >= rank(used[j])
  BY <1>9, <1>12, <1>13
<1> QED BY <1>11, <1>14 DEF shown, used, rank, sources, walk

----------------------------------------------------------------------------
(* The editors *)

LEMMA EditorsShowIt == VocabularyTypeOK => EditorsShowWhatIsUsed
<1> SUFFICES ASSUME VocabularyTypeOK, NEW s \in EventScopes
             PROVE  LET lexicon  == ReadLexicon(s)
                        glossary == ReadGlossary(s)
                        used     == UsedGlossary(s)
                        sources  == [n \in DOMAIN LayersAt(s) |-> LayersAt(s)[n].source]
                        rank(t)  == CHOOSE n \in DOMAIN sources : sources[n] = glossary.terms[Key[t]].source
                    IN  /\ lexicon.problems = LexiconProblems(s)
                        /\ SwitchedOn([k \in DOMAIN lexicon.effective |-> lexicon.effective[k].weight])
                             = ScoringMarkers(s)
                        /\ glossary.problems = GlossaryProblems(s)
                        /\ {t.term : t \in {e \in Range(glossary.terms) : e.enabled}} = Range(used.terms)
                        /\ {<<r.raw, r.text>> : r \in {e \in Range(glossary.replacements) : e.text # Off}}
                             = {<<r.raw, r.text>> : r \in Range(used.replacements)}
                        /\ \A i, j \in DOMAIN used.terms :
                             i < j => rank(used.terms[i]) >= rank(used.terms[j])
  BY Zenon DEF EditorsShowWhatIsUsed
<1>1. ReadLexicon(s).problems = LexiconProblems(s)
  BY DEF ReadLexicon, LexiconProblems
<1>2. ScoringMarkers(s) = SwitchedOn(OverAll(LoadedMarkers(s)))
  BY Zenon DEF ScoringMarkers, MergeLexicons, LoadedMarkers
<1>3. SwitchedOn([k \in DOMAIN ReadLexicon(s).effective |-> ReadLexicon(s).effective[k].weight])
        = ScoringMarkers(s)
  BY <1>2, LexiconEditorShowsWeights
<1> QED BY <1>1, <1>3, GlossaryProblemsAreShown, ReplacementsAreShown, TermsAreShown, Zenon

----------------------------------------------------------------------------
(* The files of the vocabulary *)

\* Files are first there as hands have written them.
LEMMA VocabularyInitTypeOK == AdministrationInit => VocabularyTypeOK
<1> SUFFICES ASSUME AdministrationInit PROVE VocabularyTypeOK
  OBVIOUS
<1>1. /\ moments \in [Scopes -> Files(MarkerPayloads) \cup {Absent}]
      /\ glossaries \in [Scopes -> Files(GlossaryPayloads) \cup {Absent}]
  BY DEF AdministrationInit, VocabularyInit
<1>2. \A f \in Files(MarkerPayloads) \cup {Absent} : f \in {Absent, Unreadable} \/ IsMarkerFile(f)
  BY VocabularyAssumption DEF Files
<1>3. \A f \in Files(GlossaryPayloads) \cup {Absent} :
        f \in {Absent, Unreadable} \/ f.terms \in Seq(Terms)
  BY VocabularyAssumption DEF Files
<1> QED BY <1>1, <1>2, <1>3 DEF VocabularyTypeOK

\* A lexicon is written in keys.
LEMMA LexiconKeepsTypeOK ==
  ASSUME VocabularyTypeOK, NEW s \in Scopes, NEW raw \in MarkerPayloads, UpdateLexicon(s, raw)
  PROVE  VocabularyTypeOK'
<1> DEFINE m == NormalMarkers(raw)
<1>1. ValidMarkers(raw) /\ moments' = [moments EXCEPT ![s] = m] /\ glossaries' = glossaries
  BY DEF UpdateLexicon
<1>2. IsMarkerFile(m)
  BY <1>1, NormalMarkersAreALayer, VocabularyAssumption DEF IsLayer
<1> HIDE DEF m
<1>3. /\ moments' = [u \in Scopes |-> moments'[u]]
      /\ \A u \in Scopes : moments'[u] = IF u = s THEN m ELSE moments[u]
  BY <1>1 DEF VocabularyTypeOK
<1>4. \A u \in Scopes : moments'[u] \in {Absent, Unreadable} \/ IsMarkerFile(moments'[u])
  BY <1>2, <1>3 DEF VocabularyTypeOK
<1> QED BY <1>1, <1>3, <1>4 DEF VocabularyTypeOK

\* A glossary is written as it was spelled.
LEMMA GlossaryKeepsTypeOK ==
  ASSUME VocabularyTypeOK, NEW channel, NEW event, NEW p \in GlossaryPayloads,
         UpdateGlossary(channel, event, p)
  PROVE  VocabularyTypeOK'
<1> DEFINE s == Resolved(channel, event)
           l == ParseLayer(p)
           o == OwnShape(l)
<1>1. ValidGlossary(p) /\ glossaries' = [glossaries EXCEPT ![s] = o] /\ moments' = moments
  BY DEF UpdateGlossary, SaveLayer
<1>2. l.terms \in Seq(TermEntries)
  <2>1. p.terms \in Seq(Terms)
    BY VocabularyAssumption
  <2> QED BY <1>1, <2>1, ParsedIsALayer DEF GlossaryLayer
<1> HIDE DEF l
<1>3. o.terms \in Seq(Terms)
  <2> DEFINE t == o.terms
  <2>1. t = [i \in DOMAIN l.terms |->
               [spelling |-> l.terms[i].spelling, enabled |-> l.terms[i].enabled]]
    BY DEF OwnShape
  <2>2. DOMAIN l.terms = 1..Len(l.terms) /\ Len(l.terms) \in Nat
    BY <1>2
  <2>3. \A i \in 1..Len(l.terms) : l.terms[i] \in TermEntries
    BY <1>2, <2>2
  <2> HIDE DEF t, o
  <2>4. \A i \in 1..Len(l.terms) : t[i] \in Terms
    BY <2>1, <2>2, <2>3 DEF TermEntries, Terms
  <2>5. t = [i \in 1..Len(l.terms) |-> t[i]]
    BY <2>1, <2>2
  <2>6. t \in Seq(Terms)
    BY <2>2, <2>4, <2>5
  <2> QED BY <2>6 DEF t
<1> HIDE DEF o, s
<1>4. /\ glossaries' = [u \in Scopes |-> glossaries'[u]]
      /\ \A u \in Scopes : glossaries'[u] = IF u = s THEN o ELSE glossaries[u]
  BY <1>1 DEF VocabularyTypeOK
<1>5. \A u \in Scopes : glossaries'[u] \in {Absent, Unreadable} \/ glossaries'[u].terms \in Seq(Terms)
  BY <1>3, <1>4 DEF VocabularyTypeOK
<1> QED BY <1>1, <1>4, <1>5 DEF VocabularyTypeOK

----------------------------------------------------------------------------
(* The directories: the inductive invariant *)

\* What the request in progress is about, until the directories have moved or gone.
RequestIsCurrent ==
  admin.step \in {"locking", "moving", "emptying", "removing"} =>
    /\ admin.paths \subseteq events
    /\ admin.held \subseteq admin.paths
    /\ admin.step # "locking" => admin.held = admin.paths
    /\ admin.step = "moving" => Renaming
    /\ admin.step \in {"emptying", "removing"} => ~Renaming
    /\ admin.does = "rename_channel" =>
         /\ admin.paths = EventsIn(admin.to[1])
         /\ admin.to[2] \in ChannelNames \ channels
    /\ admin.does = "delete_channel" => admin.paths = EventsIn(admin.to[1])
    /\ admin.does = "rename_event" => admin.to \in (channels \X EventNames) \ events

\* Where a rename has come from there is nothing, and all is where it went.
DirectoriesHaveMoved ==
  admin.step = "unlocking" => admin.paths \subseteq events /\ admin.held \cap events = {}

\* The paths whose locks the request in progress is to give back.
Locked ==
  CASE admin = NoRequest          -> {}
    [] admin.step = "unlocking"   -> admin.paths
    [] OTHER                      -> admin.held

\* A lock is a working job's or the request's, but where an OSError left it; one
\* that a rename moved under a job of a spoiled directory is given back with the others.
LocksHaveHolders ==
  \A p \in Paths \ left :
    /\ lock[p] = Admin => p \in Locked
    /\ lock[p] \in Jobs =>
         /\ p \in events
         /\ \/ job[lock[p]] = p
            \/ admin.step = "unlocking" /\ p \in admin.paths

\* The request keeps the locks it took, but where a directory is spoiled.
RequestKeepsItsLocks ==
  /\ admin.step \in {"locking", "moving", "emptying", "unlocking"} =>
       \A p \in Locked : lock[p] = Admin \/ p \in spoiled
  /\ admin.step = "removing" =>
       \A j \in Jobs : job[j] \in admin.held => job[j] \in spoiled

DirectoryInv ==
  /\ DirectoryTypeOK
  /\ RequestIsCurrent
  /\ DirectoriesHaveMoved
  /\ LocksHaveHolders
  /\ RequestKeepsItsLocks
  /\ WorkKeepsItsEvent

----------------------------------------------------------------------------
(* The directories: every step keeps it *)

\* A workspace at rest: nothing is locked and nobody works.
LEMMA DirectoryInitHolds == DirectoryInit => DirectoryInv
BY DirectoryAssumption
DEF DirectoryInit, DirectoryInv, DirectoryTypeOK, RequestIsCurrent, DirectoriesHaveMoved, LocksHaveHolders,
    RequestKeepsItsLocks, WorkKeepsItsEvent, NoRequest

\* What works in no spoiled directory works at no path a request is about to unlock.
LEMMA WorkIsNotLocked ==
  ASSUME DirectoryInv, NEW j \in Jobs, job[j] # NoWork, job[j] \notin spoiled
  PROVE  /\ job[j] \in Paths /\ job[j] \in events /\ lock[job[j]] = j
         /\ job[j] \notin Locked
         /\ admin.step = "unlocking" => job[j] \notin admin.held
<1>1. job[j] \in Paths /\ job[j] \in events /\ lock[job[j]] = j
  BY DEF DirectoryInv, WorkKeepsItsEvent, DirectoryTypeOK
<1>2. job[j] \notin Locked
  BY <1>1, DirectoryAssumption DEF DirectoryInv, DirectoryTypeOK, RequestKeepsItsLocks, Locked
<1>3. admin.step = "unlocking" => job[j] \notin admin.held
  BY <1>1 DEF DirectoryInv, DirectoriesHaveMoved
<1> QED BY <1>1, <1>2, <1>3

\* A job that starts where rmtree has been spoils it.
LEMMA StartKeepsDirectoryInv ==
  ASSUME DirectoryInv, NEW j \in Jobs, NEW p \in Paths, StartsWork(j, p)
  PROVE  DirectoryInv'
<1>1. DirectoryTypeOK'
  BY DEF DirectoryInv, DirectoryTypeOK, StartsWork
<1>2. RequestIsCurrent'
  BY DEF DirectoryInv, RequestIsCurrent, EventsIn, Renaming, StartsWork
<1>3. DirectoriesHaveMoved'
  BY DEF DirectoryInv, DirectoriesHaveMoved, StartsWork
<1>4. LocksHaveHolders'
  BY DirectoryAssumption DEF DirectoryInv, DirectoryTypeOK, LocksHaveHolders, Locked, StartsWork, NoWork
<1>5. RequestKeepsItsLocks'
  BY DirectoryAssumption DEF DirectoryInv, RequestKeepsItsLocks, Locked, StartsWork
<1>6. WorkKeepsItsEvent'
  BY DirectoryAssumption DEF DirectoryInv, DirectoryTypeOK, WorkKeepsItsEvent, StartsWork
<1> QED BY <1>1, <1>2, <1>3, <1>4, <1>5, <1>6 DEF DirectoryInv

\* A job that ends frees its own lock, or one in a spoiled directory.
LEMMA EndKeepsDirectoryInv ==
  ASSUME DirectoryInv, NEW j \in Jobs, EndsWork(j)
  PROVE  DirectoryInv'
<1>1. DirectoryTypeOK'
  BY DEF DirectoryInv, DirectoryTypeOK, EndsWork
<1>2. RequestIsCurrent'
  BY DEF DirectoryInv, RequestIsCurrent, EventsIn, Renaming, EndsWork
<1>3. DirectoriesHaveMoved'
  BY DEF DirectoryInv, DirectoriesHaveMoved, EndsWork
<1>4. LocksHaveHolders'
  BY DirectoryAssumption DEF DirectoryInv, DirectoryTypeOK, LocksHaveHolders, Locked, EndsWork
<1>5. RequestKeepsItsLocks'
  <2>1. job[j] # NoWork /\ job[j] \in Paths
    BY DEF DirectoryInv, DirectoryTypeOK, EndsWork
  <2>2. /\ admin' = admin /\ Locked' = Locked
        /\ lock' = [lock EXCEPT ![job[j]] = Free] /\ job' = [job EXCEPT ![j] = NoWork]
        /\ admin # NoRequest => spoiled' = spoiled
    BY DEF EndsWork, Locked
  <2>3. job[j] \in Locked => job[j] \in spoiled
    BY <2>1, WorkIsNotLocked
  <2>4. admin.step \in {"locking", "moving", "emptying", "unlocking", "removing"} => admin # NoRequest
    BY DEF NoRequest
  <2>5. ASSUME admin.step \in {"locking", "moving", "emptying", "unlocking"}, NEW p \in Locked
        PROVE  lock'[p] = Admin \/ p \in spoiled'
    <3>1. lock[p] = Admin \/ p \in spoiled
      BY <2>5 DEF DirectoryInv, RequestKeepsItsLocks
    <3>2. p \in Paths
      BY <2>4 DEF DirectoryInv, DirectoryTypeOK, Locked
    <3> QED BY <2>2, <2>3, <2>4, <2>5, <3>1
  <2>6. ASSUME admin.step = "removing", NEW k \in Jobs, job'[k] \in admin.held
        PROVE  job'[k] \in spoiled'
    <3>1. admin.held \subseteq Paths /\ NoWork \notin Paths
      BY <2>6, <2>4 DEF DirectoryInv, DirectoryTypeOK, NoWork, Paths
    <3>2. k # j /\ job'[k] = job[k]
      BY <2>2, <2>6, <3>1 DEF DirectoryInv, DirectoryTypeOK
    <3> QED BY <2>2, <2>4, <2>6, <3>2 DEF DirectoryInv, RequestKeepsItsLocks
  <2> QED BY <2>2, <2>5, <2>6 DEF RequestKeepsItsLocks
<1>6. WorkKeepsItsEvent'
  BY DEF DirectoryInv, DirectoryTypeOK, WorkKeepsItsEvent, EndsWork
<1> QED BY <1>1, <1>2, <1>3, <1>4, <1>5, <1>6 DEF DirectoryInv

\* What is created is new.
LEMMA NewChannelKeepsDirectoryInv ==
  ASSUME DirectoryInv, NEW c \in ChannelNames, CreateChannel(c)
  PROVE  DirectoryInv'
<1>1. DirectoryTypeOK'
  BY DEF DirectoryInv, DirectoryTypeOK, CreateChannel
<1>2. RequestIsCurrent'
  BY DEF RequestIsCurrent, CreateChannel, NoRequest
<1>3. DirectoriesHaveMoved'
  BY DEF DirectoriesHaveMoved, CreateChannel, NoRequest
<1>4. LocksHaveHolders'
  BY DEF DirectoryInv, LocksHaveHolders, Locked, CreateChannel
<1>5. RequestKeepsItsLocks'
  BY DEF RequestKeepsItsLocks, CreateChannel, NoRequest
<1>6. WorkKeepsItsEvent'
  BY DEF DirectoryInv, WorkKeepsItsEvent, CreateChannel
<1> QED BY <1>1, <1>2, <1>3, <1>4, <1>5, <1>6 DEF DirectoryInv

\* A new event is nobody's yet.
LEMMA NewEventKeepsDirectoryInv ==
  ASSUME DirectoryInv, NEW c \in ChannelNames, NEW e \in EventNames, CreateEvent(c, e)
  PROVE  DirectoryInv'
<1>1. DirectoryTypeOK'
  BY DEF DirectoryInv, DirectoryTypeOK, CreateEvent
<1>2. RequestIsCurrent'
  BY DEF RequestIsCurrent, CreateEvent, NoRequest
<1>3. DirectoriesHaveMoved'
  BY DEF DirectoriesHaveMoved, CreateEvent, NoRequest
<1>4. LocksHaveHolders'
  BY DEF DirectoryInv, LocksHaveHolders, Locked, CreateEvent
<1>5. RequestKeepsItsLocks'
  BY DEF RequestKeepsItsLocks, CreateEvent, NoRequest
<1>6. WorkKeepsItsEvent'
  BY DEF DirectoryInv, WorkKeepsItsEvent, CreateEvent
<1> QED BY <1>1, <1>2, <1>3, <1>4, <1>5, <1>6 DEF DirectoryInv

\* A request begins without a lock, about directories there are.
LEMMA BeginningKeepsDirectoryInv ==
  ASSUME DirectoryInv, NEW does, NEW paths, NEW to, BeginsTo(does, paths, to),
         does \in {"rename_channel", "delete_channel", "rename_event", "delete_event"},
         paths \subseteq events,
         to \in (ChannelNames \X ChannelNames) \cup {<<c>> : c \in ChannelNames} \cup Paths,
         does = "rename_channel" => paths = EventsIn(to[1]) /\ to[2] \in ChannelNames \ channels,
         does = "delete_channel" => paths = EventsIn(to[1]),
         does = "rename_event" => to \in (channels \X EventNames) \ events
  PROVE  DirectoryInv'
<1>1. /\ admin' = [step |-> "locking", does |-> does, paths |-> paths, held |-> {}, to |-> to]
      /\ admin = NoRequest /\ admin' # NoRequest
      /\ UNCHANGED <<channels, events, lock, job, spoiled, left>>
  BY DEF BeginsTo, NoRequest
<1>2. DirectoryTypeOK'
  <2>1. events \subseteq Paths
    BY DEF DirectoryInv, DirectoryTypeOK, Paths
  <2> QED BY <1>1, <2>1 DEF DirectoryInv, DirectoryTypeOK
<1>3. RequestIsCurrent'
  BY <1>1 DEF RequestIsCurrent, EventsIn
<1>4. DirectoriesHaveMoved'
  BY <1>1 DEF DirectoriesHaveMoved
<1>5. Locked = {} /\ Locked' = {} /\ admin.step = "idle"
  BY <1>1 DEF Locked, NoRequest
<1>6. LocksHaveHolders'
  BY <1>1, <1>5 DEF DirectoryInv, LocksHaveHolders
<1>7. RequestKeepsItsLocks'
  BY <1>1, <1>5 DEF RequestKeepsItsLocks
<1>8. WorkKeepsItsEvent'
  BY <1>1 DEF DirectoryInv, WorkKeepsItsEvent
<1> QED BY <1>2, <1>3, <1>4, <1>6, <1>7, <1>8 DEF DirectoryInv

\* A request about a channel is about all its events.
LEMMA ChannelRequestKeepsDirectoryInv ==
  ASSUME DirectoryInv, NEW c \in ChannelNames, DeleteChannel(c) \/ \E d \in ChannelNames : RenameChannel(c, d)
  PROVE  DirectoryInv'
<1>1. EventsIn(c) \subseteq events
  BY DEF EventsIn
<1>2. CASE DeleteChannel(c)
  BY <1>1, <1>2, BeginningKeepsDirectoryInv DEF DeleteChannel
<1>3. ASSUME NEW d \in ChannelNames, RenameChannel(c, d)
      PROVE  DirectoryInv'
  BY <1>1, <1>3, BeginningKeepsDirectoryInv DEF RenameChannel
<1> QED BY <1>2, <1>3

\* A request about an event is about that event.
LEMMA EventRequestKeepsDirectoryInv ==
  ASSUME DirectoryInv, NEW c \in ChannelNames, NEW e \in EventNames,
         DeleteEvent(c, e) \/ \E f \in EventNames : RenameEvent(c, e, f)
  PROVE  DirectoryInv'
<1>1. CASE DeleteEvent(c, e)
  BY <1>1, BeginningKeepsDirectoryInv DEF DeleteEvent
<1>2. ASSUME NEW f \in EventNames, RenameEvent(c, e, f)
      PROVE  DirectoryInv'
  <2>1. <<c, f>> \in Paths /\ <<c, f>> \in (channels \X EventNames) \ events
    BY <1>2 DEF RenameEvent, Paths, DirectoryInv, DirectoryTypeOK
  <2> QED BY <1>2, <2>1, BeginningKeepsDirectoryInv DEF RenameEvent
<1> QED BY <1>1, <1>2

\* A lock is taken where it is free.
LEMMA TakingKeepsDirectoryInv ==
  ASSUME DirectoryInv, TakesALock
  PROVE  DirectoryInv'
<1>1. DirectoryTypeOK'
  BY DEF DirectoryInv, DirectoryTypeOK, TakesALock, NoRequest
<1>2. RequestIsCurrent'
  BY DEF DirectoryInv, RequestIsCurrent, EventsIn, TakesALock
<1>3. DirectoriesHaveMoved'
  BY DEF DirectoriesHaveMoved, TakesALock
<1>4. LocksHaveHolders'
  BY DirectoryAssumption DEF DirectoryInv, LocksHaveHolders, Locked, TakesALock, NoRequest
<1>5. RequestKeepsItsLocks'
  BY DEF DirectoryInv, DirectoryTypeOK, RequestKeepsItsLocks, Locked, TakesALock, NoRequest
<1>6. WorkKeepsItsEvent'
  BY DirectoryAssumption DEF DirectoryInv, WorkKeepsItsEvent, TakesALock
<1> QED BY <1>1, <1>2, <1>3, <1>4, <1>5, <1>6 DEF DirectoryInv

\* A request that is refused, or whose rename or acquire fails, keeps none of its
\* locks but those an OSError leaves.
LEMMA RefusalKeepsDirectoryInv ==
  ASSUME DirectoryInv, IsRefused \/ MoveFails \/ AcquireFails
  PROVE  DirectoryInv'
<1>1. /\ admin.step \in {"locking", "moving"} /\ admin # NoRequest /\ admin' = NoRequest
      /\ Locked = admin.held /\ admin.held \subseteq Paths /\ Locked' = {}
      /\ UNCHANGED <<channels, events, job, spoiled>>
  BY DEF IsRefused, MoveFails, AcquireFails, GivesBack, NoRequest, Locked, DirectoryInv, DirectoryTypeOK
<1>2. PICK kept \in SUBSET admin.held :
        /\ lock' = Unlocked(admin.held \ kept)
        /\ left' = left \cup {p \in kept : lock[p] # Free}
  <2>1. CASE IsRefused \/ MoveFails
    BY <2>1 DEF IsRefused, MoveFails, GivesBack
  <2>2. CASE AcquireFails
    <3>1. Unlocked(admin.held \ admin.held) = lock
      BY DEF Unlocked, DirectoryInv, DirectoryTypeOK
    <3> QED BY <2>2, <3>1 DEF AcquireFails
  <2> QED BY <2>1, <2>2
<1>3. DirectoryTypeOK'
  BY <1>1, <1>2 DEF DirectoryInv, DirectoryTypeOK, Unlocked
<1>4. RequestIsCurrent' /\ DirectoriesHaveMoved' /\ RequestKeepsItsLocks'
  BY <1>1 DEF RequestIsCurrent, DirectoriesHaveMoved, RequestKeepsItsLocks, NoRequest
<1>5. LocksHaveHolders'
  BY <1>1, <1>2, DirectoryAssumption DEF DirectoryInv, LocksHaveHolders, Unlocked
<1>6. WorkKeepsItsEvent'
  <2>1. ASSUME NEW j \in Jobs, job[j] # NoWork, job[j] \notin spoiled
        PROVE  job[j] \in events /\ lock'[job[j]] = j
    BY <1>1, <1>2, <2>1, WorkIsNotLocked DEF Unlocked
  <2> QED BY <1>1, <2>1 DEF WorkKeepsItsEvent
<1> QED BY <1>3, <1>4, <1>5, <1>6 DEF DirectoryInv

\* With all its locks a request goes on to move or to empty.
LEMMA AllLocksKeepInv ==
  ASSUME DirectoryInv, HasAllLocks
  PROVE  DirectoryInv'
<1>1. DirectoryTypeOK'
  BY DEF DirectoryInv, DirectoryTypeOK, HasAllLocks, NoRequest
<1>2. RequestIsCurrent'
  BY DEF DirectoryInv, RequestIsCurrent, EventsIn, Renaming, HasAllLocks
<1>3. DirectoriesHaveMoved'
  BY DEF DirectoriesHaveMoved, HasAllLocks
<1>4. LocksHaveHolders'
  BY DEF DirectoryInv, LocksHaveHolders, Locked, HasAllLocks, NoRequest
<1>5. RequestKeepsItsLocks'
  BY DEF DirectoryInv, RequestKeepsItsLocks, Locked, HasAllLocks, NoRequest
<1>6. WorkKeepsItsEvent'
  BY DEF DirectoryInv, WorkKeepsItsEvent, HasAllLocks
<1> QED BY <1>1, <1>2, <1>3, <1>4, <1>5, <1>6 DEF DirectoryInv

\* What a rename moves is what it locked, and where it goes there was nothing.
LEMMA MovedFacts ==
  ASSUME DirectoryInv, Moves, NEW T, T = {Target(p) : p \in admin.paths}
  PROVE  /\ admin.step = "moving" /\ admin.paths = admin.held
         /\ admin.paths \subseteq events
         /\ T \subseteq Paths \ events
         /\ channels' \subseteq ChannelNames
         /\ events' = (events \ admin.paths) \cup T
         /\ events' \subseteq channels' \X EventNames
         /\ admin' = [admin EXCEPT !.step = "unlocking", !.paths = T]
         /\ lock' \in [Paths -> Jobs \cup {Admin, Free}]
         /\ \A q \in T : \E p \in admin.paths : Target(p) = q /\ lock'[q] = lock[p]
         /\ \A q \in Paths \ T : lock'[q] = IF q \in admin.paths THEN Free ELSE lock[q]
         /\ spoiled' = spoiled \cup {Target(p) : p \in admin.paths \cap spoiled}
         /\ job' = job /\ left' = left
<1> DEFINE from(q) == CHOOSE p \in admin.paths : Target(p) = q
<1>1. /\ admin.step = "moving" /\ admin # NoRequest /\ admin.paths = admin.held
      /\ admin.does \in {"rename_channel", "rename_event"}
      /\ admin.paths \subseteq events /\ admin.paths \subseteq Paths
  BY DEF Moves, NoRequest, DirectoryInv, RequestIsCurrent, Renaming, DirectoryTypeOK
<1>2. admin.does = "rename_channel" =>
        admin.paths = EventsIn(admin.to[1]) /\ admin.to[2] \in ChannelNames \ channels
  BY <1>1 DEF DirectoryInv, RequestIsCurrent
<1>3. admin.does = "rename_event" => admin.to \in (channels \X EventNames) \ events
  BY <1>1 DEF DirectoryInv, RequestIsCurrent
<1>4. /\ channels' = IF admin.does = "rename_channel"
                     THEN (channels \ {admin.to[1]}) \cup {admin.to[2]} ELSE channels
      /\ events' = (events \ admin.paths) \cup T
      /\ lock' = [q \in Paths |-> IF q \in T THEN lock[from(q)]
                                  ELSE IF q \in admin.paths THEN Free ELSE lock[q]]
      /\ admin' = [admin EXCEPT !.step = "unlocking", !.paths = T]
      /\ spoiled' = spoiled \cup {Target(p) : p \in admin.paths \cap spoiled}
      /\ job' = job /\ left' = left
  <2>1. MovesAll(admin.paths)
    BY <1>2 DEF Moves
  <2> QED BY <2>1 DEF MovesAll
<1>5. T \subseteq Paths \ events /\ T \subseteq channels' \X EventNames
  <2>1. CASE admin.does = "rename_channel"
    BY <1>1, <1>2, <1>4, <2>1 DEF Target, Paths, DirectoryInv, DirectoryTypeOK
  <2>2. CASE admin.does = "rename_event"
    BY <1>3, <1>4, <2>2 DEF Target, Paths, DirectoryInv, DirectoryTypeOK
  <2> QED BY <1>1, <2>1, <2>2
<1>6. channels' \subseteq ChannelNames
  BY <1>2, <1>4 DEF DirectoryInv, DirectoryTypeOK
<1>7. events \ admin.paths \subseteq channels' \X EventNames
  BY <1>2, <1>4 DEF EventsIn, DirectoryInv, DirectoryTypeOK
<1>8. \A q \in T : from(q) \in admin.paths /\ Target(from(q)) = q
  OBVIOUS
<1>9. \A q \in T : lock'[q] = lock[from(q)]
  BY <1>4, <1>5
<1>10. lock' \in [Paths -> Jobs \cup {Admin, Free}]
  BY <1>1, <1>4 DEF DirectoryInv, DirectoryTypeOK
<1>11. \A q \in Paths \ T : lock'[q] = IF q \in admin.paths THEN Free ELSE lock[q]
  BY <1>4
<1> HIDE DEF from
<1> QED BY <1>1, <1>4, <1>5, <1>6, <1>7, <1>8, <1>10

\* The locks go with the directories, and the jobs at work are elsewhere.
LEMMA MoveKeepsDirectoryInv ==
  ASSUME DirectoryInv, Moves
  PROVE  DirectoryInv'
<1> DEFINE T == {Target(p) : p \in admin.paths}
<1>1. /\ admin.step = "moving" /\ admin.paths = admin.held
      /\ admin.paths \subseteq events
      /\ T \subseteq Paths \ events
      /\ channels' \subseteq ChannelNames
      /\ events' = (events \ admin.paths) \cup T
      /\ events' \subseteq channels' \X EventNames
      /\ admin' = [admin EXCEPT !.step = "unlocking", !.paths = T]
      /\ lock' \in [Paths -> Jobs \cup {Admin, Free}]
      /\ job' = job /\ left' = left
  BY MovedFacts
<1>2. \A q \in T : \E p \in admin.paths : Target(p) = q /\ lock'[q] = lock[p]
  BY MovedFacts
<1>3. \A q \in Paths \ T : lock'[q] = IF q \in admin.paths THEN Free ELSE lock[q]
  BY MovedFacts
<1>4. spoiled' = spoiled \cup {Target(p) : p \in admin.paths \cap spoiled}
  BY MovedFacts
<1> HIDE DEF T
<1>5. admin # NoRequest /\ Locked = admin.paths
  BY <1>1 DEF Locked, NoRequest
<1>6. admin' # NoRequest /\ admin'.step = "unlocking" /\ admin'.paths = T /\ admin'.held = admin.held
  BY <1>1, <1>5 DEF DirectoryInv, DirectoryTypeOK, NoRequest
<1>7. Locked' = T
  BY <1>6 DEF Locked, NoRequest
<1>8. DirectoryTypeOK'
  <2>1. admin.paths \subseteq Paths
    BY <1>5 DEF DirectoryInv, DirectoryTypeOK
  <2>2. spoiled' \subseteq Paths
    <3>1. \A p \in admin.paths : Target(p) \in T
      BY DEF T
    <3> QED BY <1>1, <1>4, <3>1 DEF DirectoryInv, DirectoryTypeOK
  <2> QED BY <1>1, <1>5, <2>2 DEF DirectoryInv, DirectoryTypeOK
<1>9. RequestIsCurrent'
  BY <1>6 DEF RequestIsCurrent
<1>10. DirectoriesHaveMoved'
  BY <1>1, <1>6 DEF DirectoriesHaveMoved
<1>11. LocksHaveHolders'
  BY <1>1, <1>3, <1>5, <1>7, DirectoryAssumption DEF DirectoryInv, LocksHaveHolders
<1>12. RequestKeepsItsLocks'
  <2>1. ASSUME NEW q \in T
        PROVE  lock'[q] = Admin \/ q \in spoiled'
    <3>1. PICK p \in admin.paths : Target(p) = q /\ lock'[q] = lock[p]
      BY <1>2
    <3>2. lock[p] = Admin \/ p \in spoiled
      BY <1>1, <1>5 DEF DirectoryInv, RequestKeepsItsLocks
    <3> QED BY <1>4, <3>1, <3>2
  <2> QED BY <1>6, <1>7, <2>1 DEF RequestKeepsItsLocks
<1>13. WorkKeepsItsEvent'
  <2>1. ASSUME NEW j \in Jobs, job[j] # NoWork, job[j] \notin spoiled
        PROVE  job[j] \in events' /\ lock'[job[j]] = j
    BY <1>1, <1>3, <1>5, <2>1, WorkIsNotLocked
  <2> QED BY <1>1, <1>4, <2>1 DEF WorkKeepsItsEvent
<1> QED BY <1>8, <1>9, <1>10, <1>11, <1>12, <1>13 DEF DirectoryInv

\* After a rename the locks are given back where they are now.
LEMMA UnlockKeepsDirectoryInv ==
  ASSUME DirectoryInv, Unlocks
  PROVE  DirectoryInv'
<1>1. /\ admin.step = "unlocking" /\ admin # NoRequest /\ admin' = NoRequest
      /\ Locked = admin.paths /\ admin.paths \cup admin.held \subseteq Paths /\ Locked' = {}
      /\ UNCHANGED <<channels, events, job, spoiled>>
  BY DEF Unlocks, GivesBack, NoRequest, Locked, DirectoryInv, DirectoryTypeOK
<1>2. PICK kept \in SUBSET (admin.paths \cup admin.held) :
        /\ lock' = Unlocked((admin.paths \cup admin.held) \ kept)
        /\ left' = left \cup {p \in kept : lock[p] # Free}
  BY DEF Unlocks, GivesBack
<1>3. DirectoryTypeOK'
  BY <1>1, <1>2 DEF DirectoryInv, DirectoryTypeOK, Unlocked
<1>4. RequestIsCurrent' /\ DirectoriesHaveMoved' /\ RequestKeepsItsLocks'
  BY <1>1 DEF RequestIsCurrent, DirectoriesHaveMoved, RequestKeepsItsLocks, NoRequest
<1>5. LocksHaveHolders'
  BY <1>1, <1>2, DirectoryAssumption DEF DirectoryInv, LocksHaveHolders, Unlocked
<1>6. WorkKeepsItsEvent'
  <2>1. ASSUME NEW j \in Jobs, job[j] # NoWork, job[j] \notin spoiled
        PROVE  job[j] \in events /\ lock'[job[j]] = j
    BY <1>1, <1>2, <2>1, WorkIsNotLocked DEF Unlocked
  <2> QED BY <1>1, <2>1 DEF WorkKeepsItsEvent
<1> QED BY <1>3, <1>4, <1>5, <1>6 DEF DirectoryInv

\* rmtree takes the lock files first; who works at those paths spoilt them before.
LEMMA EmptyingKeepsDirectoryInv ==
  ASSUME DirectoryInv, Empties
  PROVE  DirectoryInv'
<1>1. /\ admin.step = "emptying" /\ admin # NoRequest /\ Locked = admin.held
      /\ admin.held \subseteq Paths /\ NoWork \notin admin.held
      /\ admin' = [admin EXCEPT !.step = "removing"]
      /\ UNCHANGED <<channels, events, job, spoiled, left>>
  BY DEF DirectoryInv, DirectoryTypeOK, Empties, NoRequest, Locked, NoWork, Paths
<1>2. PICK emptied \in SUBSET admin.held : lock' = Unlocked(emptied)
  BY DEF Empties
<1>3. /\ admin'.step = "removing" /\ admin'.held = admin.held /\ admin' # NoRequest
      /\ Locked' = Locked
  BY <1>1 DEF DirectoryInv, DirectoryTypeOK, NoRequest, Locked
<1>4. DirectoryTypeOK'
  BY <1>1, <1>2 DEF DirectoryInv, DirectoryTypeOK, Unlocked, NoRequest
<1>5. RequestIsCurrent'
  BY DEF DirectoryInv, RequestIsCurrent, EventsIn, Renaming, Empties
<1>6. DirectoriesHaveMoved'
  BY <1>3 DEF DirectoriesHaveMoved
<1>7. LocksHaveHolders'
  BY <1>1, <1>2, <1>3, DirectoryAssumption DEF DirectoryInv, LocksHaveHolders, Unlocked
<1>8. RequestKeepsItsLocks'
  <2>1. ASSUME NEW j \in Jobs, job[j] \in admin.held
        PROVE  job[j] \in spoiled
    BY <1>1, <2>1, WorkIsNotLocked
  <2> QED BY <1>1, <1>3, <2>1 DEF RequestKeepsItsLocks
<1>9. WorkKeepsItsEvent'
  <2>1. ASSUME NEW j \in Jobs, job[j] # NoWork, job[j] \notin spoiled
        PROVE  job[j] \in events /\ lock'[job[j]] = j
    BY <1>1, <1>2, <2>1, WorkIsNotLocked DEF Unlocked
  <2> QED BY <1>1, <2>1 DEF WorkKeepsItsEvent
<1> QED BY <1>4, <1>5, <1>6, <1>7, <1>8, <1>9 DEF DirectoryInv

\* What is removed is what was locked, less what rmtree could not get rid of.
LEMMA RemovalKeepsDirectoryInv ==
  ASSUME DirectoryInv, Removes
  PROVE  DirectoryInv'
<1>1. /\ admin.step = "removing" /\ admin # NoRequest /\ admin' = NoRequest
      /\ admin.held \subseteq Paths /\ Locked = admin.held /\ Locked' = {}
      /\ UNCHANGED <<job, spoiled>>
  BY DEF Removes, GivesBack, NoRequest, Locked, DirectoryInv, DirectoryTypeOK
<1>2. PICK gone \in SUBSET admin.held :
        /\ \A p \in gone : lock[p] = Free
        /\ events' = events \ gone
        /\ \/ channels' = channels
           \/ /\ admin.does = "delete_channel" /\ gone = admin.held
              /\ channels' = channels \ {admin.to[1]}
  BY DEF Removes
<1>3. PICK kept \in SUBSET admin.held :
        /\ lock' = Unlocked(admin.held \ kept)
        /\ left' = left \cup {p \in kept : lock[p] # Free}
  BY DEF Removes, GivesBack
<1>4. DirectoryTypeOK'
  <2>1. channels' \subseteq ChannelNames /\ events' \subseteq channels' \X EventNames
    <3>1. CASE channels' = channels
      BY <1>2, <3>1 DEF DirectoryInv, DirectoryTypeOK
    <3>2. CASE /\ admin.does = "delete_channel" /\ gone = admin.held
               /\ channels' = channels \ {admin.to[1]}
      <4>1. admin.held = EventsIn(admin.to[1]) /\ events' = events \ admin.held
        BY <1>1, <1>2, <3>2 DEF DirectoryInv, RequestIsCurrent
      <4> QED BY <3>2, <4>1 DEF DirectoryInv, DirectoryTypeOK, EventsIn
    <3> QED BY <1>2, <3>1, <3>2
  <2>2. /\ lock' \in [Paths -> Jobs \cup {Admin, Free}]
        /\ left' \subseteq Paths
    BY <1>1, <1>3 DEF DirectoryInv, DirectoryTypeOK, Unlocked
  <2> QED BY <1>1, <2>1, <2>2 DEF DirectoryInv, DirectoryTypeOK
<1>5. RequestIsCurrent' /\ DirectoriesHaveMoved' /\ RequestKeepsItsLocks'
  BY <1>1 DEF RequestIsCurrent, DirectoriesHaveMoved, RequestKeepsItsLocks, NoRequest
<1>6. LocksHaveHolders'
  <2>1. ASSUME NEW p \in Paths \ left', lock'[p] # Free
        PROVE  p \in Paths \ left /\ p \notin admin.held /\ lock'[p] = lock[p]
    BY <1>1, <1>3, <2>1 DEF Unlocked
  <2>2. \A p \in Paths : lock'[p] \in Jobs \cup {Admin} => lock'[p] # Free
    BY DirectoryAssumption
  <2> QED BY <1>1, <1>2, <2>1, <2>2 DEF DirectoryInv, LocksHaveHolders
<1>7. WorkKeepsItsEvent'
  <2>1. ASSUME NEW j \in Jobs, job[j] # NoWork, job[j] \notin spoiled
        PROVE  job[j] \in events' /\ lock'[job[j]] = j
    BY <1>1, <1>2, <1>3, <2>1, WorkIsNotLocked DEF Unlocked
  <2> QED BY <1>1, <2>1 DEF WorkKeepsItsEvent
<1> QED BY <1>4, <1>5, <1>6, <1>7 DEF DirectoryInv

\* Every step, and no step, keeps the invariant.
LEMMA NextKeepsDirectoryInv == DirectoryInv /\ [DirectoryNext]_directoryVars => DirectoryInv'
<1> SUFFICES ASSUME DirectoryInv, [DirectoryNext]_directoryVars PROVE DirectoryInv'
  OBVIOUS
<1>1. CASE ChannelRequests
  BY <1>1, NewChannelKeepsDirectoryInv, ChannelRequestKeepsDirectoryInv DEF ChannelRequests
<1>2. CASE EventRequests
  BY <1>2, NewEventKeepsDirectoryInv, EventRequestKeepsDirectoryInv DEF EventRequests
<1>3. CASE TakesALock
  BY <1>3, TakingKeepsDirectoryInv
<1>4. CASE IsRefused \/ MoveFails \/ AcquireFails
  BY <1>4, RefusalKeepsDirectoryInv
<1>5. CASE HasAllLocks
  BY <1>5, AllLocksKeepInv
<1>6. CASE Moves
  BY <1>6, MoveKeepsDirectoryInv
<1>7. CASE Unlocks
  BY <1>7, UnlockKeepsDirectoryInv
<1>8. CASE Empties
  BY <1>8, EmptyingKeepsDirectoryInv
<1>9. CASE Removes
  BY <1>9, RemovalKeepsDirectoryInv
<1>10. CASE \E j \in Jobs : EndsWork(j) \/ \E p \in Paths : StartsWork(j, p)
  BY <1>10, StartKeepsDirectoryInv, EndKeepsDirectoryInv
<1>11. CASE UNCHANGED directoryVars
  BY <1>11
  DEF directoryVars, DirectoryInv, DirectoryTypeOK, RequestIsCurrent, EventsIn, Renaming,
      DirectoriesHaveMoved, LocksHaveHolders, RequestKeepsItsLocks, WorkKeepsItsEvent, Locked
<1> QED BY <1>1, <1>2, <1>3, <1>4, <1>5, <1>6, <1>7, <1>8, <1>9, <1>10, <1>11 DEF DirectoryNext

----------------------------------------------------------------------------
(* The administration *)

\* What the files of the vocabulary hold, and what a request on directories holds.
IInv == VocabularyTypeOK /\ DirectoryInv

LEMMA InitHolds == AdministrationInit => IInv
BY VocabularyInitTypeOK, DirectoryInitHolds DEF AdministrationInit, IInv

LEMMA NextKeepsInv == IInv /\ [AdministrationNext]_administrationVars => IInv'
<1> SUFFICES ASSUME IInv, [AdministrationNext]_administrationVars PROVE IInv'
  OBVIOUS
<1>1. VocabularyTypeOK /\ DirectoryInv
  BY DEF IInv
<1>2. VocabularyTypeOK'
  <2>1. CASE UNCHANGED vocabularyVars
    BY <1>1, <2>1 DEF vocabularyVars, VocabularyTypeOK
  <2>2. CASE LexiconRequests
    BY <1>1, <2>2, LexiconKeepsTypeOK, AdoptedMarkers DEF LexiconRequests
  <2>3. CASE GlossaryRequests
    BY <1>1, <2>3, GlossaryKeepsTypeOK DEF GlossaryRequests
  <2> QED BY <2>1, <2>2, <2>3 DEF AdministrationNext, administrationVars
<1>3. DirectoryInv'
  <2>1. [DirectoryNext]_directoryVars
    BY DEF AdministrationNext, administrationVars
  <2> QED BY <1>1, <2>1, NextKeepsDirectoryInv
<1> QED BY <1>2, <1>3 DEF IInv

----------------------------------------------------------------------------
(* The theorems *)

\* The inductive invariant: the files of the vocabulary hold what requests may send
\* and hands may write; a request on directories holds the locks it took, where the
\* directories are by then, and the other locks are working jobs' or what an OSError left.
THEOREM AdministrationInvariantHolds == Spec => []IInv
<1>1. AdministrationInit => IInv
  BY InitHolds
<1>2. IInv /\ [AdministrationNext]_administrationVars => IInv'
  BY NextKeepsInv
<1> QED BY <1>1, <1>2, PTL DEF Spec

\* The editors of lexicon_admin.read and glossary_admin.read show what
\* profile._load_lexicon and _load_glossary make a run use, whatever the files hold
\* and however many terms, replacements and packs there are.
THEOREM EditorsAlwaysShowWhatIsUsed == Spec => []EditorsShowWhatIsUsed
<1>1. IInv => EditorsShowWhatIsUsed
  BY EditorsShowIt DEF IInv
<1> QED BY <1>1, AdministrationInvariantHolds, PTL

\* Adopting the default lexicon changes no score of any event: lexicon_admin's
\* adopt_default writes the default below what the workspace had of its own.
THEOREM AdoptingNeverChangesScores == Spec => AdoptingChangesNothing
<1>1. IInv /\ [AdministrationNext]_administrationVars =>
        [AdoptDefault => \A s \in EventScopes : ScoringMarkers(s)' = ScoringMarkers(s)]_vocabularyVars
  BY AdoptKeepsScoring DEF IInv
<1> QED BY <1>1, AdministrationInvariantHolds, PTL DEF Spec, AdoptingChangesNothing

\* A job's event stays where it is, under the job's own lock, while it works there:
\* channel_admin._acquire_all_event_locks before a rename or a deletion.
THEOREM WorkAlwaysKeepsItsEvent == Spec => []WorkKeepsItsEvent
<1>1. IInv => WorkKeepsItsEvent
  BY DEF IInv, DirectoryInv
<1> QED BY <1>1, AdministrationInvariantHolds, PTL

\* Between requests a lock file is a working job's, and refuses no later run of the
\* event, but where an OSError made the request leave it (channel_admin, event_admin).
THEOREM NoLockIsEverLeftBehind == Spec => []NoLockIsLeftBehind
<1>1. IInv => NoLockIsLeftBehind
  <2> SUFFICES ASSUME IInv, admin = NoRequest, NEW p \in Paths \ left, lock[p] # Free
               PROVE  p \in events /\ \E j \in Jobs : lock[p] = j /\ job[j] = p
    BY DEF NoLockIsLeftBehind
  <2>1. lock[p] \in Jobs \cup {Admin} /\ Locked = {} /\ admin.step = "idle"
    BY DEF IInv, DirectoryInv, DirectoryTypeOK, Locked, NoRequest
  <2> QED BY <2>1 DEF IInv, DirectoryInv, LocksHaveHolders
<1> QED BY <1>1, AdministrationInvariantHolds, PTL

=============================================================================
