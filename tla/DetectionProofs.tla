--------------------------- MODULE DetectionProofs ---------------------------
(***************************************************************************)
(* What is proved of Detection and of the operators of Moments it is built *)
(* from.  Most of them go over a sequence one element at a time; the first *)
(* section shows that such a recursion has the value it should and that    *)
(* what holds of it can be shown by induction.                             *)
(***************************************************************************)
EXTENDS Detection, WellFoundedInduction, FiniteSetTheorems, SequenceTheorems, TLAPS

----------------------------------------------------------------------------
(* Induction and recursion *)

\* The principle of induction, for a set of numbers.
LEMMA NatSetInduction ==
  ASSUME NEW T, 0 \in T, \A n \in Nat : n \in T => n + 1 \in T
  PROVE  Nat \subseteq T
<1> SUFFICES ASSUME Nat \ T # {} PROVE FALSE
  OBVIOUS
<1>1. PICK n \in Nat \ T : \A m \in Nat \ T : n <= m
  <2> DEFINE rest == Nat \ T
             R == OpToRel(<, Nat)
  <2>1. rest \subseteq Nat /\ rest # {}
    OBVIOUS
  <2>2. PICK n \in rest : \A m \in rest : ~ (<<m, n>> \in R)
    <3> HIDE DEF rest
    <3> QED BY <2>1, WFMin, NatLessThanWellFounded, Zenon
  <2>3. \A m \in rest : ~ (m < n)
    BY <2>2 DEF OpToRel
  <2> QED BY <2>3
<1>2. n # 0 /\ n - 1 \in Nat
  BY <1>1
<1>3. n - 1 \in T
  BY <1>1, <1>2
<1> QED BY <1>1, <1>2, <1>3

\* The same up to a bound.
LEMMA UpTo ==
  ASSUME NEW N \in Nat, NEW T, 0 \in T, \A n \in 1..N : n - 1 \in T => n \in T
  PROVE  0..N \subseteq T
<1> DEFINE S == {n \in Nat : n <= N => n \in T}
<1>1. 0 \in S
  OBVIOUS
<1>2. ASSUME NEW n \in Nat, n \in S PROVE n + 1 \in S
  <2>1. (n + 1) - 1 = n
    OBVIOUS
  <2>2. ASSUME n + 1 <= N PROVE n \in T /\ n + 1 \in 1..N
    BY <1>2, <2>2
  <2> QED BY <2>1, <2>2
<1>3. \A n \in 0..N : n \in Nat /\ n <= N
  OBVIOUS
<1> HIDE DEF S
<1>4. Nat \subseteq S
  BY <1>1, <1>2, NatSetInduction
<1> QED BY <1>3, <1>4 DEF S

\* f goes up from its base one step at a time, and every value is a good one.
GoesUp(f, N, base, step, Good) ==
  /\ f = [n \in 0..N |-> f[n]]
  /\ f[0] = base
  /\ \A n \in 1..N : f[n] = step[<<f[n - 1], n>>]
  /\ \A n \in 0..N : f[n] \in Good[n]

\* There is such a function wherever a step from a good value leads to one.
LEMMA Recursion ==
  ASSUME NEW N \in Nat, NEW Good, NEW base, NEW step, base \in Good[0],
         \A n \in 1..N : \A x \in Good[n - 1] : step[<<x, n>>] \in Good[n]
  PROVE  \E f : GoesUp(f, N, base, step, Good)
<1> DEFINE T == {n \in 0..N : \E f : GoesUp(f, n, base, step, Good)}
<1>1. 0 \in T
  <2> DEFINE f == [i \in 0..0 |-> base]
  <2>1. f[0] = base /\ (\A n \in 0..0 : n = 0) /\ 1..0 = {} /\ 0 \in 0..N
    OBVIOUS
  <2>2. f = [i \in 0..0 |-> f[i]]
    OBVIOUS
  <2> HIDE DEF f
  <2> QED BY <2>1, <2>2 DEF GoesUp
<1>2. ASSUME NEW m \in 1..N, m - 1 \in T PROVE m \in T
  <2> DEFINE n == m - 1
  <2>1. n \in Nat /\ n \in 0..n /\ m \in 0..N
    OBVIOUS
  <2>2. PICK f : GoesUp(f, n, base, step, Good)
    BY <1>2
  <2> DEFINE g == [i \in 0..m |-> IF i <= n THEN f[i] ELSE step[<<f[n], m>>]]
  <2>3. \A i \in 0..n : g[i] = f[i]
    BY <2>1
  <2>4. g[m] = step[<<g[m - 1], m>>]
    BY <2>1
  <2>5. g = [i \in 0..m |-> g[i]]
    OBVIOUS
  <2>6. /\ \A i \in 0..m : i \in 0..n \/ i = m
        /\ \A i \in 1..m : (i \in 1..n /\ i \in 0..n /\ i - 1 \in 0..n) \/ i = m
    BY <2>1
  <2> HIDE DEF g
  <2>7. g[0] = base /\ \A i \in 1..m : g[i] = step[<<g[i - 1], i>>]
    BY <2>1, <2>2, <2>3, <2>4, <2>6 DEF GoesUp
  <2>8. \A i \in 0..m : g[i] \in Good[i]
    <3>1. g[m - 1] \in Good[m - 1]
      BY <2>1, <2>2, <2>3 DEF GoesUp
    <3>2. g[m] \in Good[m]
      BY <2>4, <3>1
    <3> HIDE DEF n
    <3> QED BY <2>2, <2>3, <2>6, <3>2 DEF GoesUp
  <2>9. GoesUp(g, m, base, step, Good)
    BY <2>5, <2>7, <2>8 DEF GoesUp
  <2> QED BY <2>1, <2>9
<1>3. 0..N \subseteq T /\ N \in 0..N
  <2> HIDE DEF T
  <2> QED BY <1>1, <1>2, UpTo
<1> QED BY <1>3

\* A set of some of the numbers up to N has a largest and a smallest one.
LEMMA Extremes ==
  ASSUME NEW N \in Nat, NEW S, S \subseteq 1..N, S # {}
  PROVE  /\ Max(S) \in S /\ \A i \in S : i <= Max(S)
         /\ Min(S) \in S /\ \A i \in S : Min(S) <= i
<1>1. \E x \in S : \A y \in S : x >= y
  <2> DEFINE T == {n \in 0..N : (\E i \in S : i <= n) =>
                     \E x \in S : x <= n /\ \A y \in S : y <= n => x >= y}
  <2>1. 0 \in T
    OBVIOUS
  <2>2. ASSUME NEW n \in 1..N, n - 1 \in T PROVE n \in T
    <3>1. CASE n \in S
      BY <3>1
    <3>2. CASE n \notin S
      <4>1. \A i \in S : i <= n <=> i <= n - 1
        BY <3>2
      <4> QED BY <2>2, <4>1
    <3> QED BY <3>1, <3>2
  <2>3. N \in T
    <3> HIDE DEF T
    <3>1. 0..N \subseteq T
      BY <2>1, <2>2, UpTo
    <3> QED BY <3>1
  <2>4. \A i \in S : i <= N
    OBVIOUS
  <2> QED BY <2>3, <2>4
<1>2. \E x \in S : \A y \in S : x <= y
  <2> DEFINE R == OpToRel(<, Nat)
  <2>1. S \subseteq Nat
    OBVIOUS
  <2>2. PICK x \in S : \A y \in S : ~ (<<y, x>> \in R)
    BY <2>1, WFMin, NatLessThanWellFounded, Zenon
  <2>3. \A y \in S : ~ (y < x)
    BY <2>1, <2>2 DEF OpToRel
  <2> QED BY <2>1, <2>3
<1>3. Max(S) \in S /\ \A y \in S : Max(S) >= y
  BY <1>1, Zenon DEF Max
<1>4. Min(S) \in S /\ \A y \in S : Min(S) <= y
  BY <1>2, Zenon DEF Min
<1>5. S \subseteq Int
  OBVIOUS
<1> QED BY <1>3, <1>4, <1>5

----------------------------------------------------------------------------
(* Lines and windows *)

WordOf(T) == [start : Int, end : Int, text : T]
LineOf(T) == [start : Int, end : Int, text : Seq(T)]

\* A line that is opened or made longer by the next word stays in order.
LEMMA AddWordInOrder ==
  ASSUME NEW T, NEW g \in Seq(LineOf(T)), NEW w \in WordOf(T), w.start <= w.end, InOrder(g),
         g # <<>> => Last(g).start <= w.start /\ Last(g).end <= w.end
  PROVE  /\ AddWord(g, w) \in Seq(LineOf(T))
         /\ AddWord(g, w) # <<>>
         /\ InOrder(AddWord(g, w))
         /\ Last(AddWord(g, w)).start <= w.start
         /\ Last(AddWord(g, w)).end = w.end
<1> DEFINE new == AddWord(g, w)
<1>1. CASE g = <<>> \/ w.end - Last(g).start > LineSeconds
  <2> DEFINE l == [start |-> w.start, end |-> w.end, text |-> <<w.text>>]
  <2>1. new = Append(g, l) /\ l \in LineOf(T) /\ l.start = w.start /\ l.end = w.end
    BY <1>1 DEF AddWord, LineOf, WordOf
  <2> HIDE DEF new, l
  <2>2. /\ new \in Seq(LineOf(T)) /\ Len(new) = Len(g) + 1 /\ Len(g) \in Nat
        /\ \A i \in 1..Len(g) : new[i] = g[i]
        /\ new[Len(g) + 1] = l
    BY <2>1
  <2>3. Last(new) = l
    BY <2>2 DEF Last
  <2>4. \A i \in 1..Len(g) : g[i] \in LineOf(T) /\ g[i].start <= w.start /\ g[i].end <= w.end
    <3> SUFFICES ASSUME NEW i \in 1..Len(g) PROVE g[i] \in LineOf(T) /\ g[i].start <= w.start /\ g[i].end <= w.end
      OBVIOUS
    <3>1. g # <<>> /\ Len(g) \in 1..Len(g) /\ i <= Len(g) /\ g[i] \in LineOf(T) /\ g[Len(g)] \in LineOf(T)
      OBVIOUS
    <3>2. g[i].start <= g[Len(g)].start /\ g[i].end <= g[Len(g)].end
      BY <3>1 DEF InOrder
    <3> QED BY <3>1, <3>2 DEF Last, LineOf, WordOf
  <2>5. InOrder(new)
    <3> SUFFICES ASSUME NEW i \in 1..(Len(g) + 1), NEW j \in 1..(Len(g) + 1)
                 PROVE  /\ new[i].start <= new[i].end
                        /\ i <= j => new[i].start <= new[j].start /\ new[i].end <= new[j].end
      BY <2>2 DEF InOrder
    <3>1. CASE i = Len(g) + 1
      BY <2>1, <2>2, <3>1 DEF LineOf
    <3>2. CASE i \in 1..Len(g) /\ j = Len(g) + 1
      BY <2>1, <2>2, <2>4, <3>2 DEF InOrder
    <3>3. CASE i \in 1..Len(g) /\ j \in 1..Len(g)
      BY <2>2, <3>3 DEF InOrder
    <3> QED BY <2>2, <3>1, <3>2, <3>3
  <2> QED BY <2>1, <2>2, <2>3, <2>5 DEF new, WordOf
<1>2. CASE ~ (g = <<>> \/ w.end - Last(g).start > LineSeconds)
  <2> DEFINE last == g[Len(g)]
             l == [last EXCEPT !.end = w.end, !.text = Append(last.text, w.text)]
  <2>1. Len(g) \in 1..Len(g) /\ last \in LineOf(T)
    BY <1>2
  <2>2. new = [g EXCEPT ![Len(g)] = l]
    BY <1>2 DEF AddWord, Last
  <2>3. l \in LineOf(T) /\ l.start = last.start /\ l.end = w.end
    <3>1. w.end \in Int /\ Append(last.text, w.text) \in Seq(T)
      BY <2>1 DEF LineOf, WordOf
    <3> HIDE DEF last
    <3> QED BY <2>1, <3>1 DEF LineOf
  <2>4. last.start <= w.start /\ last.end <= w.end /\ last.start <= last.end
    BY <1>2, <2>1 DEF Last, InOrder
  <2> HIDE DEF new, l
  <2>5. /\ new \in Seq(LineOf(T)) /\ Len(new) = Len(g)
        /\ \A i \in 1..Len(g) : new[i] = IF i = Len(g) THEN l ELSE g[i]
    BY <2>1, <2>2, <2>3
  <2>6. Last(new) = l
    BY <2>1, <2>5 DEF Last
  <2>7. InOrder(new)
    <3> SUFFICES ASSUME NEW i \in 1..Len(g), NEW j \in 1..Len(g)
                 PROVE  /\ new[i].start <= new[i].end
                        /\ i <= j => new[i].start <= new[j].start /\ new[i].end <= new[j].end
      BY <2>5 DEF InOrder
    <3>1. /\ g[i] \in LineOf(T) /\ g[i].start <= g[i].end
          /\ g[i].start <= last.start /\ g[i].end <= last.end
          /\ i <= j => g[i].start <= g[j].start /\ g[i].end <= g[j].end
      BY <2>1 DEF InOrder
    <3>2. /\ g[i].start \in Int /\ g[i].end \in Int /\ last.start \in Int /\ last.end \in Int
          /\ w.start \in Int /\ w.end \in Int
      <4>1. g[i] \in LineOf(T)
        OBVIOUS
      <4> HIDE DEF last
      <4> QED BY <2>1, <4>1 DEF LineOf, WordOf
    <3> HIDE DEF last
    <3>3. CASE i = Len(g)
      BY <2>3, <2>4, <2>5, <3>2, <3>3
    <3>4. CASE i # Len(g)
      BY <2>3, <2>4, <2>5, <3>1, <3>2, <3>4
    <3> QED BY <3>3, <3>4
  <2> QED BY <2>1, <2>3, <2>4, <2>5, <2>6, <2>7 DEF new, WordOf, LineOf
<1> QED BY <1>1, <1>2

\* group_lines makes lines that are in order of words that are.
LEMMA GroupLinesInOrder ==
  ASSUME NEW T, NEW words \in Seq(WordOf(T)), InOrder(words)
  PROVE  GroupLines(words) \in Seq(LineOf(T)) /\ InOrder(GroupLines(words))
<1> DEFINE grouped[n \in 0..Len(words)] ==
             IF n = 0 THEN <<>> ELSE AddWord(grouped[n - 1], words[n])
           N == Len(words)
           Grouped(n, g) ==
             /\ InOrder(g)
             /\ n = 0 => g = <<>>
             /\ n # 0 => Last(g).start <= words[n].start /\ Last(g).end = words[n].end
           Good == [n \in 0..N |-> {g \in Seq(LineOf(T)) : Grouped(n, g)}]
           step == [p \in Seq(LineOf(T)) \X (1..N) |-> AddWord(p[1], words[p[2]])]
<1> HIDE DEF grouped
<1>1. N \in Nat /\ \A n \in 1..N : n - 1 \in 0..N /\ n \in 0..N
  OBVIOUS
<1>2. <<>> \in Good[0]
  BY <1>1 DEF InOrder
<1>3. ASSUME NEW n \in 1..N, NEW g \in Seq(LineOf(T)), Grouped(n - 1, g)
      PROVE  /\ AddWord(g, words[n]) \in Seq(LineOf(T)) /\ Grouped(n, AddWord(g, words[n]))
  <2>1. words[n] \in WordOf(T) /\ words[n].start <= words[n].end
    BY DEF InOrder
  <2> HIDE DEF step, Good
  <2>2. g # <<>> => Last(g).start <= words[n].start /\ Last(g).end <= words[n].end
    <3> SUFFICES ASSUME g # <<>>
                 PROVE  Last(g).start <= words[n].start /\ Last(g).end <= words[n].end
      OBVIOUS
    <3>1. n - 1 \in 1..N /\ n - 1 # 0
      BY <1>3
    <3>2. /\ words[n - 1].start <= words[n].start /\ words[n - 1].end <= words[n].end
          /\ words[n - 1] \in WordOf(T)
      BY <3>1 DEF InOrder
    <3>3. Last(g) \in LineOf(T)
      BY DEF Last
    <3>4. Last(g).start <= words[n - 1].start /\ Last(g).end = words[n - 1].end
      BY <1>3, <3>1
    <3>5. /\ Last(g).start \in Int /\ Last(g).end \in Int
          /\ \A m \in {n - 1, n} : words[m].start \in Int /\ words[m].end \in Int
      BY <2>1, <3>2, <3>3 DEF WordOf, LineOf
    <3> QED BY <3>2, <3>4, <3>5
  <2> HIDE DEF N
  <2> QED BY <1>3, <2>1, <2>2, AddWordInOrder
<1>4. \A n \in 1..N : \A g \in Good[n - 1] :
        step[<<g, n>>] = AddWord(g, words[n]) /\ step[<<g, n>>] \in Good[n]
  BY <1>1, <1>3
<1>5. PICK f : GoesUp(f, N, <<>>, step, Good)
  <2> HIDE DEF N, Good, step
  <2> QED BY <1>1, <1>2, <1>4, Recursion
<1> HIDE DEF step
<1>6. f = [n \in 0..N |-> IF n = 0 THEN <<>> ELSE AddWord(f[n - 1], words[n])]
  <2>1. ASSUME NEW n \in 1..N PROVE f[n] = AddWord(f[n - 1], words[n])
    <3>1. f[n - 1] \in Good[n - 1]
      BY <1>1, <1>5 DEF GoesUp
    <3> HIDE DEF Good
    <3> QED BY <1>4, <1>5, <3>1 DEF GoesUp
  <2>2. \A n \in 0..N : n = 0 \/ n \in 1..N
    BY <1>1
  <2> HIDE DEF N
  <2> QED BY <1>5, <2>1, <2>2 DEF GoesUp
<1>7. grouped = [n \in 0..N |-> IF n = 0 THEN <<>> ELSE AddWord(grouped[n - 1], words[n])]
  BY <1>6, Zenon DEF grouped
<1>8. N \in {n \in 0..N : grouped[n] = f[n]}
  <2> DEFINE S == {n \in 0..N : grouped[n] = f[n]}
  <2>1. 0 \in S /\ \A n \in 1..N : n - 1 \in S => n \in S
    BY <1>1, <1>6, <1>7
  <2> HIDE DEF S, N
  <2>2. 0..N \subseteq S /\ N \in 0..N
    BY <1>1, <2>1, UpTo
  <2> QED BY <2>2 DEF S
<1>9. GroupLines(words) = grouped[N]
  BY DEF GroupLines, grouped
<1> QED BY <1>1, <1>5, <1>8, <1>9 DEF GoesUp

\* What is known of a whole quotient.
LEMMA Division ==
  ASSUME NEW x \in Int, NEW d \in Nat \ {0}
  PROVE  x \div d \in Int /\ (x \div d) * d <= x /\ x < (x \div d) * d + d
OBVIOUS

\* A cursor that goes from 0 to y in steps of d stops in every step on the way.
LEMMA CursorPasses ==
  ASSUME NEW x \in Nat, NEW y \in Nat, NEW d \in Nat \ {0}, x < y
  PROVE  (x \div d) + 1 \in 1..((y + d - 1) \div d)
<1> DEFINE k == x \div d
           m == (y + d - 1) \div d
<1>1. k \in Int /\ k * d <= x /\ x < k * d + d /\ m \in Int /\ y + d - 1 < m * d + d
  BY Division
<1> HIDE DEF k, m
<1>2. ASSUME NEW a \in Int, NEW b \in Int, a * d < b * d + d PROVE a <= b
  <2> SUFFICES ASSUME a >= b + 1 PROVE FALSE
    OBVIOUS
  <2>1. a * d >= (b + 1) * d
    OBVIOUS
  <2> QED BY <1>2, <2>1
<1>3. (k + 1) * d = k * d + d /\ 0 * d = 0
  BY <1>1
<1>4. k + 1 \in Int /\ (k + 1) * d < m * d + d /\ 0 * d < k * d + d
  BY <1>1, <1>3
<1>5. k + 1 <= m /\ 0 <= k
  BY <1>1, <1>2, <1>4
<1> QED BY <1>1, <1>5 DEF k, m

\* split_windows: a window holds lines of the transcript, and whatever could be
\* a moment is in one of them as a whole.
LEMMA WindowsHoldMoments ==
  ASSUME NEW T, NEW l \in Seq(LineOf(T)), InOrder(l)
  PROVE  /\ SplitWindows(l) \in Seq(SUBSET DOMAIN l)
         /\ \A i, j \in DOMAIN l :
              i <= j /\ Acceptable([first |-> i, last |-> j], l) =>
                \E w \in DOMAIN SplitWindows(l) : i..j \subseteq SplitWindows(l)[w]
<1>1. CASE l = <<>>
  BY <1>1 DEF SplitWindows, Windows
<1>2. CASE l # <<>>
  <2> DEFINE d == WindowSeconds - OverlapSeconds
             first == l[1].start
             moves == (Last(l).end - first + d - 1) \div d
             cursor(n) == first + (n - 1) * d
             chunk(n) == {i \in DOMAIN l : /\ cursor(n) <= l[i].start
                                           /\ l[i].start < cursor(n) + WindowSeconds}
             taken[n \in 0..moves] ==
               IF n = 0 THEN <<>>
               ELSE IF chunk(n) = {} THEN taken[n - 1] ELSE Append(taken[n - 1], chunk(n))
             Add(t, n) == IF chunk(n) = {} THEN t ELSE Append(t, chunk(n))
             X == Seq(SUBSET DOMAIN l)
             Taken(n, t) == \A m \in 1..n : chunk(m) # {} => \E w \in DOMAIN t : t[w] = chunk(m)
             Good == [n \in 0..moves |-> {t \in X : Taken(n, t)}]
             step == [p \in X \X (1..moves) |-> Add(p[1], p[2])]
  <2> HIDE DEF taken
  <2>1. /\ Len(l) \in Nat /\ Len(l) \in 1..Len(l) /\ 1 \in 1..Len(l) /\ DOMAIN l = 1..Len(l)
        /\ \A i \in 1..Len(l) : l[i].start \in Int /\ l[i].end \in Int
    <3>1. \A i \in 1..Len(l) : l[i] \in LineOf(T)
      OBVIOUS
    <3> QED BY <1>2, <3>1 DEF LineOf
  <2>2. d \in Nat \ {0} /\ WindowSeconds \in Nat /\ OverlapSeconds \in Nat
    BY MomentsAssumption
  <2>3. /\ first \in Int /\ Last(l).end \in Int
        /\ \A i \in 1..Len(l) : first <= l[i].start /\ l[i].end <= Last(l).end
        /\ first <= Last(l).end
    <3>1. \A i \in 1..Len(l) : first <= l[i].start /\ l[i].end <= l[Len(l)].end
      BY <2>1 DEF InOrder
    <3>2. first <= l[1].end
      BY <2>1 DEF InOrder
    <3> QED BY <2>1, <3>1, <3>2 DEF Last
  <2> HIDE DEF d
  <2>4. moves \in Nat
    <3>1. Last(l).end - first + d - 1 \in Nat
      BY <2>2, <2>3
    <3> HIDE DEF first
    <3> DEFINE x == Last(l).end - first + d - 1
    <3>2. x \in Nat /\ moves = x \div d
      BY <3>1
    <3> HIDE DEF moves, x
    <3>3. x \div d \in Int /\ x < (x \div d) * d + d
      BY <2>2, <3>2, Division
    <3>4. x \div d >= 0
      <4> SUFFICES ASSUME (x \div d) + 1 <= 0 PROVE FALSE
        BY <3>3
      <4>1. ((x \div d) + 1) * d = (x \div d) * d + d
        BY <2>2, <3>3
      <4>2. ((x \div d) + 1) * d <= 0
        BY <2>2, <3>3
      <4> QED BY <2>2, <3>2, <3>3, <4>1, <4>2
    <3> QED BY <3>2, <3>3, <3>4
  <2> HIDE DEF moves
  <2>5. \A n \in 1..moves : n \in 0..moves /\ n - 1 \in 0..moves /\ chunk(n) \in SUBSET DOMAIN l
    BY <2>4
  <2> HIDE DEF chunk
  <2>6. <<>> \in Good[0]
    BY <2>4
  <2>7. \A n \in 1..moves : \A t \in Good[n - 1] :
          step[<<t, n>>] = Add(t, n) /\ step[<<t, n>>] \in Good[n]
    <3> SUFFICES ASSUME NEW n \in 1..moves, NEW t \in Good[n - 1]
                 PROVE  step[<<t, n>>] = Add(t, n) /\ step[<<t, n>>] \in Good[n]
      OBVIOUS
    <3>0. t \in X /\ Taken(n - 1, t)
      BY <2>5
    <3> HIDE DEF Good, step
    <3>1. \A m \in 1..n : m \in 1..(n - 1) \/ m = n
      BY <2>4
    <3>2. ASSUME chunk(n) = {} PROVE Add(t, n) \in X /\ Taken(n, Add(t, n))
      BY <3>0, <3>1, <3>2
    <3>3. ASSUME chunk(n) # {} PROVE Add(t, n) \in X /\ Taken(n, Add(t, n))
      <4> DEFINE new == Append(t, chunk(n))
      <4>1. Add(t, n) = new /\ chunk(n) \in SUBSET DOMAIN l
        BY <2>5, <3>3
      <4>2. /\ new \in X /\ Len(new) = Len(t) + 1 /\ Len(t) \in Nat
            /\ \A w \in 1..Len(t) : new[w] = t[w]
            /\ new[Len(t) + 1] = chunk(n)
        BY <3>0, <4>1
      <4> HIDE DEF new
      <4>3. \A w \in DOMAIN t : w \in DOMAIN new /\ new[w] = t[w]
        BY <3>0, <4>2
      <4>4. Len(t) + 1 \in DOMAIN new
        BY <4>2
      <4>5. Taken(n, new)
        BY <3>0, <3>1, <4>2, <4>3, <4>4
      <4> QED BY <4>1, <4>2, <4>5
    <3> HIDE DEF Add, Taken, X
    <3> QED BY <2>5, <3>0, <3>2, <3>3 DEF Good, step
  <2>8. PICK f : GoesUp(f, moves, <<>>, step, Good)
    <3> HIDE DEF Good, step
    <3> QED BY <2>4, <2>6, <2>7, Recursion
  <2> HIDE DEF step
  <2>9. f = [n \in 0..moves |-> IF n = 0 THEN <<>> ELSE Add(f[n - 1], n)]
    <3>1. ASSUME NEW n \in 1..moves PROVE f[n] = Add(f[n - 1], n)
      <4>1. f[n - 1] \in Good[n - 1]
        BY <2>5, <2>8 DEF GoesUp
      <4> HIDE DEF Good, Add
      <4> QED BY <2>7, <2>8, <4>1 DEF GoesUp
    <3>2. \A n \in 0..moves : n = 0 \/ n \in 1..moves
      BY <2>4
    <3> HIDE DEF Add
    <3> QED BY <2>8, <3>1, <3>2 DEF GoesUp
  <2>10. taken = [n \in 0..moves |-> IF n = 0 THEN <<>> ELSE Add(taken[n - 1], n)]
    BY <2>9, Zenon DEF taken
  <2>11. moves \in {n \in 0..moves : taken[n] = f[n]}
    <3> DEFINE S == {n \in 0..moves : taken[n] = f[n]}
    <3> HIDE DEF Add
    <3>1. 0 \in S /\ \A n \in 1..moves : n - 1 \in S => n \in S
      BY <2>4, <2>5, <2>9, <2>10
    <3> HIDE DEF S
    <3>2. 0..moves \subseteq S /\ moves \in 0..moves
      BY <2>4, <3>1, UpTo
    <3> QED BY <3>2 DEF S
  <2>12. SplitWindows(l) = IF taken[moves] = <<>> THEN <<DOMAIN l>> ELSE taken[moves]
    BY <1>2 DEF SplitWindows, Windows, taken, moves, chunk, d
  <2>13. taken[moves] \in X /\ Taken(moves, taken[moves])
    <3>1. f[moves] \in Good[moves] /\ moves \in 0..moves
      BY <2>4, <2>8 DEF GoesUp
    <3> QED BY <2>11, <3>1
  <2>14. SplitWindows(l) \in X
    <3>1. <<DOMAIN l>> \in X
      OBVIOUS
    <3> HIDE DEF X
    <3> QED BY <2>12, <2>13, <3>1
  <2>15. ASSUME NEW i \in DOMAIN l, NEW j \in DOMAIN l, i <= j,
                Acceptable([first |-> i, last |-> j], l)
         PROVE  \E w \in DOMAIN SplitWindows(l) : i..j \subseteq SplitWindows(l)[w]
    <3> DEFINE x == l[i].start - first
               n == (x \div d) + 1
    <3>1. l[j].end - l[i].start \in MinSeconds..MaxSeconds /\ l[i].start < l[j].end
          /\ MaxSeconds <= OverlapSeconds
      BY <2>1, <2>15, MomentsAssumption DEF Acceptable
    <3>2. x \in Nat /\ Last(l).end - first \in Nat /\ x < Last(l).end - first
      BY <2>1, <2>3, <3>1
    <3>3. n \in 1..moves /\ (n - 1) * d <= x /\ x < (n - 1) * d + d /\ n - 1 \in Int
      <4> DEFINE y == Last(l).end - first
      <4>1. x \in Int /\ y \in Nat /\ x < y /\ moves = (y + d - 1) \div d
        BY <3>2 DEF moves
      <4> HIDE DEF x, y, first
      <4>2. x \div d \in Int /\ (x \div d) * d <= x /\ x < (x \div d) * d + d
        BY <2>2, <4>1, Division
      <4>3. (x \div d) + 1 \in 1..moves
        BY <2>2, <3>2, <4>1, CursorPasses
      <4>4. n - 1 = x \div d
        BY <4>2
      <4> HIDE DEF n
      <4> QED BY <4>2, <4>3, <4>4 DEF n
    <3> DEFINE c == (n - 1) * d
    <3> HIDE DEF n
    <3>4. c \in Int /\ c <= x /\ x < c + d
      BY <2>2, <3>3
    <3> HIDE DEF c
    <3>5. ASSUME NEW k \in i..j PROVE k \in chunk(n)
      <4>1. /\ k \in DOMAIN l /\ l[i].start <= l[k].start /\ l[k].start <= l[k].end
            /\ l[k].end <= l[j].end
        BY <2>1, <2>15 DEF InOrder
      <4>2. first + c <= l[k].start /\ l[k].start < first + c + WindowSeconds
        <5>1. /\ first \in Int /\ c \in Int /\ d \in Int /\ l[i].start \in Int
              /\ l[k].start \in Int /\ l[k].end \in Int /\ l[j].end \in Int
          BY <2>1, <2>2, <2>3, <3>4, <4>1
        <5>2. MaxSeconds \in Int /\ OverlapSeconds \in Int /\ WindowSeconds = d + OverlapSeconds
          BY MomentsAssumption DEF d
        <5>3. l[j].end <= l[i].start + OverlapSeconds
          <6>1. l[j].end - l[i].start <= MaxSeconds
            BY <3>1, <5>1, <5>2, MomentsAssumption
          <6> QED BY <3>1, <5>1, <5>2, <6>1
        <5>4. c <= l[i].start - first /\ l[i].start - first < c + d
          BY <3>4
        <5> HIDE DEF first
        <5> QED BY <4>1, <5>1, <5>2, <5>3, <5>4
      <4> QED BY <2>1, <4>1, <4>2 DEF chunk, c
    <3>6. PICK w \in DOMAIN taken[moves] : taken[moves][w] = chunk(n)
      <4>1. chunk(n) # {}
        BY <2>15, <3>5
      <4> QED BY <2>13, <3>3, <4>1
    <3>7. taken[moves] # <<>>
      BY <3>6
    <3> QED BY <2>12, <3>5, <3>6, <3>7
  <2> QED BY <2>14, <2>15
<1> QED BY <1>1, <1>2

----------------------------------------------------------------------------
(* What a window contributes *)

\* A validated moment takes time: it spans at least MIN_SECONDS.
Moment == {m \in [start : Int, end : Int, score : Nat] : m.start < m.end}

\* validate_moment only lets moments through, whatever the candidate is.
LEMMA ValidateMomentType ==
  ASSUME NEW T, NEW l \in Seq(LineOf(T)), NEW window \in SUBSET DOMAIN l, NEW raw
  PROVE  ValidateMoment(raw, window, l) \in Moment \cup {Nothing}
<1> DEFINE m == [start |-> l[raw.first].start, end |-> l[raw.last].end, score |-> raw.score]
<1> SUFFICES ASSUME raw.score \in 0..MaxScore, {raw.first, raw.last} \subseteq window,
                    Acceptable(raw, l)
             PROVE  m \in Moment
  BY DEF ValidateMoment
<1>1. l[raw.first] \in LineOf(T) /\ l[raw.last] \in LineOf(T)
  OBVIOUS
<1>2. l[raw.first].start \in Int /\ l[raw.last].end \in Int
  BY <1>1 DEF LineOf
<1>3. raw.score \in Nat
  BY MomentsAssumption
<1>4. MinSeconds <= l[raw.last].end - l[raw.first].start /\ MinSeconds \in Nat \ {0}
  BY MomentsAssumption DEF Acceptable
<1>5. l[raw.first].start < l[raw.last].end
  BY <1>2, <1>4
<1> QED BY <1>2, <1>3, <1>5 DEF Moment

\* scan keeps the candidates that are moments.
LEMMA ValidMomentsType ==
  ASSUME NEW T, NEW l \in Seq(LineOf(T)), NEW window \in SUBSET DOMAIN l,
         NEW C, NEW candidates \in Seq(C)
  PROVE  ValidMoments(candidates, window, l) \in Seq(Moment)
<1> DEFINE Valid(n) == ValidateMoment(candidates[n], window, l)
           Add(s, n) == IF Valid(n) = Nothing THEN s ELSE Append(s, Valid(n))
           valid[n \in 0..Len(candidates)] ==
             IF n = 0 THEN <<>>
             ELSE LET m == ValidateMoment(candidates[n], window, l)
                  IN  IF m = Nothing THEN valid[n - 1] ELSE Append(valid[n - 1], m)
           N == Len(candidates)
           Good == [n \in 0..N |-> Seq(Moment)]
           step == [p \in Seq(Moment) \X (1..N) |-> Add(p[1], p[2])]
<1> HIDE DEF valid
<1>1. N \in Nat /\ \A n \in 1..N : n - 1 \in 0..N /\ n \in 0..N
  OBVIOUS
<1>2. <<>> \in Good[0] /\ \A n \in 0..N : Good[n] = Seq(Moment)
  BY <1>1
<1>3. ASSUME NEW n \in 1..N, NEW s \in Seq(Moment) PROVE Add(s, n) \in Seq(Moment)
  <2>1. Valid(n) \in Moment \cup {Nothing}
    BY ValidateMomentType
  <2> HIDE DEF Valid
  <2> QED BY <2>1
<1> HIDE DEF Good
<1>4. \A n \in 1..N : \A s \in Good[n - 1] :
        step[<<s, n>>] = Add(s, n) /\ step[<<s, n>>] \in Good[n]
  <2> HIDE DEF Add, N
  <2> QED BY <1>1, <1>2, <1>3
<1>5. PICK f : GoesUp(f, N, <<>>, step, Good)
  <2> HIDE DEF N, step
  <2> QED BY <1>1, <1>2, <1>4, Recursion
<1> HIDE DEF step
<1>6. f = [n \in 0..N |-> IF n = 0 THEN <<>> ELSE Add(f[n - 1], n)]
  <2>1. ASSUME NEW n \in 1..N PROVE f[n] = Add(f[n - 1], n)
    <3>1. f[n - 1] \in Good[n - 1]
      BY <1>1, <1>5 DEF GoesUp
    <3> HIDE DEF Add
    <3> QED BY <1>4, <1>5, <3>1 DEF GoesUp
  <2>2. \A n \in 0..N : n = 0 \/ n \in 1..N
    BY <1>1
  <2> HIDE DEF N, Add
  <2> QED BY <1>5, <2>1, <2>2 DEF GoesUp
<1>7. valid = [n \in 0..N |-> IF n = 0 THEN <<>> ELSE Add(valid[n - 1], n)]
  BY <1>6, Zenon DEF valid
<1>8. N \in {n \in 0..N : valid[n] = f[n]}
  <2> DEFINE S == {n \in 0..N : valid[n] = f[n]}
  <2> HIDE DEF Add
  <2>1. 0 \in S /\ \A n \in 1..N : n - 1 \in S => n \in S
    BY <1>1, <1>6, <1>7
  <2> HIDE DEF S, N
  <2>2. 0..N \subseteq S /\ N \in 0..N
    BY <1>1, <2>1, UpTo
  <2> QED BY <2>2 DEF S
<1>9. ValidMoments(candidates, window, l) = valid[N]
  BY DEF ValidMoments, valid
<1> HIDE DEF N
<1> QED BY <1>1, <1>2, <1>5, <1>8, <1>9 DEF GoesUp

----------------------------------------------------------------------------
(* Sorting *)

Ordered(s, before) ==
  \A i, j \in DOMAIN s : i < j => <<s[j], s[i]>> \notin before
WeakOrder(before, M) ==
  /\ \A x, y \in M : <<x, y>> \in before => <<y, x>> \notin before
  /\ \A x, y, z \in M : <<x, y>> \notin before /\ <<y, z>> \notin before => <<x, z>> \notin before

\* Where an element is inserted.
LEMMA InsertPlaces ==
  ASSUME NEW M, NEW s \in Seq(M), NEW m \in M, NEW before
  PROVE  \E k \in 0..Len(s) :
           LET new == Insert(s, m, before) IN
           /\ new \in Seq(M) /\ Len(new) = Len(s) + 1
           /\ \A i \in 1..k : new[i] = s[i]
           /\ new[k + 1] = m
           /\ \A i \in (k + 2)..(Len(s) + 1) : new[i] = s[i - 1]
           /\ k # 0 => <<m, s[k]>> \notin before
           /\ \A i \in (k + 1)..Len(s) : <<m, s[i]>> \in before
<1> DEFINE ahead == {i \in DOMAIN s : <<m, s[i]>> \notin before}
           k == IF ahead = {} THEN 0 ELSE Max(ahead)
           new == Insert(s, m, before)
<1>1. Len(s) \in Nat /\ DOMAIN s = 1..Len(s) /\ ahead \subseteq 1..Len(s)
  OBVIOUS
<1>2. ahead # {} => Max(ahead) \in ahead /\ \A i \in ahead : i <= Max(ahead)
  <2> HIDE DEF ahead
  <2> QED BY <1>1, Extremes
<1>0. k \in 0..Len(s)
  BY <1>1, <1>2
<1>3. /\ k \in 0..Len(s)
      /\ k # 0 => k \in ahead
      /\ \A i \in (k + 1)..Len(s) : i \notin ahead
  <2>1. CASE ahead = {}
    BY <1>1, <2>1
  <2>2. CASE ahead # {}
    <3> HIDE DEF ahead
    <3>1. k \in ahead /\ \A i \in ahead : i <= k
      BY <1>2, <2>2
    <3> HIDE DEF k
    <3>2. k \in 1..Len(s)
      BY <1>1, <3>1
    <3>3. \A i \in (k + 1)..Len(s) : ~ (i <= k)
      BY <1>1, <3>2
    <3> QED BY <3>1, <3>2, <3>3, <1>1
  <2> QED BY <2>1, <2>2
<1>4. new = SubSeq(s, 1, k) \o <<m>> \o SubSeq(s, k + 1, Len(s))
  BY DEF Insert
<1>5. \A i \in 1..Len(s) : i \in ahead <=> <<m, s[i]>> \notin before
  BY <1>1
<1> HIDE DEF ahead, k, new
<1> DEFINE front == SubSeq(s, 1, k)
           back == SubSeq(s, k + 1, Len(s))
<1>6. front \in Seq(M) /\ Len(front) = k /\ \A i \in 1..k : front[i] = s[i]
  BY <1>1, <1>3
<1>7. /\ back \in Seq(M) /\ Len(back) = Len(s) - k
      /\ \A i \in 1..(Len(s) - k) : back[i] = s[k + i]
  <2>1. /\ k + 1 \in Int /\ Len(s) \in Int /\ Len(s) - (k + 1) + 1 = Len(s) - k
        /\ (IF k + 1 <= Len(s) THEN Len(s) - (k + 1) + 1 ELSE 0) = Len(s) - k
        /\ \A i \in 1..(Len(s) - k) : (k + 1) + i - 1 = k + i
    <3>1. Len(s) \in Nat
      OBVIOUS
    <3> QED BY <1>0, <3>1
  <2>2. \A i \in (k + 1)..Len(s) : s[i] \in M
    BY <1>1, <1>3
  <2>3. /\ back \in Seq(M)
        /\ Len(back) = IF k + 1 <= Len(s) THEN Len(s) - (k + 1) + 1 ELSE 0
        /\ \A i \in 1..(Len(s) - (k + 1) + 1) : back[i] = s[(k + 1) + i - 1]
    BY <2>1, <2>2, SubSeqProperties
  <2> HIDE DEF back
  <2> QED BY <2>1, <2>3
<1> HIDE DEF front, back
<1> DEFINE both == front \o <<m>>
<1>8. both \in Seq(M) /\ Len(both) = k + 1 /\ (\A i \in 1..k : both[i] = s[i]) /\ both[k + 1] = m
  BY <1>3, <1>6
<1> HIDE DEF both
<1>9. new = both \o back
  BY <1>4 DEF both, front, back
<1>10. /\ new \in Seq(M) /\ Len(new) = Len(s) + 1
       /\ \A i \in 1..(Len(s) + 1) : new[i] = IF i <= k + 1 THEN both[i] ELSE back[i - (k + 1)]
  <2>1. /\ Len(both) + Len(back) = Len(s) + 1 /\ Len(both) \in Nat /\ Len(back) \in Nat
        /\ Len(both) = k + 1
    BY <1>1, <1>3, <1>7, <1>8
  <2>2. both \in Seq(M) /\ back \in Seq(M)
    BY <1>7, <1>8
  <2>3. /\ new \in Seq(M) /\ Len(new) = Len(both) + Len(back)
        /\ \A i \in 1..(Len(both) + Len(back)) :
             new[i] = IF i <= Len(both) THEN both[i] ELSE back[i - Len(both)]
    BY <1>9, <2>2, ConcatProperties, Zenon
  <2> QED BY <2>1, <2>3
<1>11. \A i \in 1..k : new[i] = s[i]
  BY <1>1, <1>3, <1>8, <1>10
<1>12. new[k + 1] = m
  BY <1>1, <1>3, <1>8, <1>10
<1>13. ASSUME NEW i \in (k + 2)..(Len(s) + 1) PROVE new[i] = s[i - 1]
  <2>1. /\ i \in 1..(Len(s) + 1) /\ ~ (i <= k + 1) /\ i - (k + 1) \in 1..(Len(s) - k)
        /\ k + (i - (k + 1)) = i - 1
    BY <1>1, <1>3
  <2> QED BY <1>7, <1>10, <2>1
<1>14. /\ k # 0 => <<m, s[k]>> \notin before
       /\ \A i \in (k + 1)..Len(s) : <<m, s[i]>> \in before
  BY <1>1, <1>3, <1>5
<1>15. k \in 0..Len(s)
  BY <1>3
<1> QED BY <1>10, <1>11, <1>12, <1>13, <1>14, <1>15 DEF new

\* An element more, and the order stays.
LEMMA InsertInOrder ==
  ASSUME NEW M, NEW s \in Seq(M), NEW m \in M, NEW before
  PROVE  LET new == Insert(s, m, before) IN
         /\ new \in Seq(M) /\ Len(new) = Len(s) + 1
         /\ ToSet(new) = ToSet(s) \cup {m}
         /\ WeakOrder(before, M) /\ Ordered(s, before) => Ordered(new, before)
         /\ (\A i \in DOMAIN s : <<m, s[i]>> \notin before) => new = Append(s, m)
<1> DEFINE new == Insert(s, m, before)
<1>1. PICK k \in 0..Len(s) :
        /\ new \in Seq(M) /\ Len(new) = Len(s) + 1
        /\ \A i \in 1..k : new[i] = s[i]
        /\ new[k + 1] = m
        /\ \A i \in (k + 2)..(Len(s) + 1) : new[i] = s[i - 1]
        /\ k # 0 => <<m, s[k]>> \notin before
        /\ \A i \in (k + 1)..Len(s) : <<m, s[i]>> \in before
  BY InsertPlaces
<1> HIDE DEF new
<1>0. Len(s) \in Nat /\ k \in Nat /\ k <= Len(s)
  OBVIOUS
<1>2. Len(s) \in Nat /\ DOMAIN s = 1..Len(s) /\ DOMAIN new = 1..(Len(s) + 1) /\ k \in Nat /\ k <= Len(s)
  BY <1>1
<1>3. \A i \in 1..(Len(s) + 1) :
        \/ i \in 1..k \/ i = k + 1
        \/ i \in (k + 2)..(Len(s) + 1) /\ i - 1 \in (k + 1)..Len(s) /\ i - 1 \in 1..Len(s)
  BY <1>2
<1>4. /\ \A i \in 1..k : i \in 1..Len(s) /\ i \in 1..(Len(s) + 1)
      /\ \A i \in (k + 1)..Len(s) : i + 1 \in (k + 2)..(Len(s) + 1) /\ i + 1 \in 1..(Len(s) + 1)
                                    /\ (i + 1) - 1 = i
      /\ \A i \in 1..Len(s) : i \in 1..k \/ i \in (k + 1)..Len(s)
      /\ k + 1 \in 1..(Len(s) + 1)
  BY <1>2
<1>5. ToSet(new) = ToSet(s) \cup {m}
  <2>1. ASSUME NEW i \in DOMAIN new PROVE new[i] = m \/ \E j \in DOMAIN s : new[i] = s[j]
    BY <1>1, <1>2, <1>3, <1>4
  <2>2. ASSUME NEW j \in DOMAIN s PROVE \E i \in DOMAIN new : new[i] = s[j]
    BY <1>1, <1>2, <1>4
  <2>3. \E i \in DOMAIN new : new[i] = m
    BY <1>1, <1>2, <1>4
  <2> QED BY <2>1, <2>2, <2>3 DEF ToSet
<1>6. ASSUME WeakOrder(before, M), Ordered(s, before) PROVE Ordered(new, before)
  <2>1. ASSUME NEW i \in 1..k PROVE <<m, s[i]>> \notin before
    <3>1. k # 0 /\ k \in 1..Len(s) /\ i \in 1..Len(s) /\ (i < k \/ i = k) /\ s[k] \in M /\ s[i] \in M
      BY <1>2
    <3>2. i < k => <<s[k], s[i]>> \notin before
      BY <1>2, <1>6, <3>1 DEF Ordered
    <3> QED BY <1>1, <1>6, <3>1, <3>2 DEF WeakOrder
  <2>2. ASSUME NEW i \in (k + 1)..Len(s) PROVE <<s[i], m>> \notin before
    <3>1. s[i] \in M
      BY <1>2
    <3> QED BY <1>1, <1>6, <3>1 DEF WeakOrder
  <2>3. ASSUME NEW i \in DOMAIN new, NEW j \in DOMAIN new, i < j
        PROVE  <<new[j], new[i]>> \notin before
    <3>1. CASE i = k + 1
      <4>1. j \in (k + 2)..(Len(s) + 1) /\ j - 1 \in (k + 1)..Len(s)
        BY <1>2, <2>3, <3>1
      <4> QED BY <1>1, <2>2, <3>1, <4>1
    <3>2. CASE j = k + 1
      <4>1. i \in 1..k
        BY <1>2, <2>3, <3>2
      <4> QED BY <1>1, <2>1, <3>2, <4>1
    <3>3. CASE i # k + 1 /\ j # k + 1
      <4> DEFINE a == IF i <= k THEN i ELSE i - 1
                 b == IF j <= k THEN j ELSE j - 1
      <4>1. a \in 1..Len(s) /\ b \in 1..Len(s) /\ a < b
        BY <1>2, <2>3, <3>3
      <4>2. new[i] = s[a] /\ new[j] = s[b]
        BY <1>1, <1>2, <1>3, <3>3
      <4> HIDE DEF a, b
      <4> QED BY <1>2, <1>6, <4>1, <4>2 DEF Ordered
    <3> QED BY <3>1, <3>2, <3>3
  <2> QED BY <2>3 DEF Ordered
<1>7. ASSUME \A i \in DOMAIN s : <<m, s[i]>> \notin before PROVE new = Append(s, m)
  <2>1. k = Len(s)
    <3>1. CASE k = Len(s)
      BY <3>1
    <3>2. CASE k # Len(s)
      <4>2. k + 1 \in (k + 1)..Len(s) /\ k + 1 \in 1..Len(s)
        BY <1>0, <3>2
      <4> QED BY <1>1, <1>2, <1>7, <4>2
    <3> QED BY <3>1, <3>2
  <2>2. \A i \in 1..(Len(s) + 1) : new[i] = Append(s, m)[i]
    BY <1>1, <1>2, <2>1
  <2>3. new \in Seq(M) /\ Append(s, m) \in Seq(M) /\ Len(new) = Len(Append(s, m))
    BY <1>1
  <2>4. Len(new) = Len(s) + 1
    BY <1>1
  <2> QED BY <2>2, <2>3, <2>4, SeqEqual
<1> QED BY <1>1, <1>5, <1>6, <1>7 DEF new

\* sorted(): the same elements, in order, and nothing moves that is in order.
LEMMA SortedInOrder ==
  ASSUME NEW M, NEW s \in Seq(M), NEW before
  PROVE  /\ Sorted(s, before) \in Seq(M)
         /\ ToSet(Sorted(s, before)) = ToSet(s)
         /\ WeakOrder(before, M) => Ordered(Sorted(s, before), before)
         /\ Ordered(s, before) => Sorted(s, before) = s
<1> DEFINE sorted[n \in 0..Len(s)] ==
             IF n = 0 THEN <<>> ELSE Insert(sorted[n - 1], s[n], before)
           N == Len(s)
           Sorting(n, g) ==
             /\ Len(g) = n
             /\ ToSet(g) = {s[i] : i \in 1..n}
             /\ WeakOrder(before, M) => Ordered(g, before)
             /\ Ordered(s, before) => \A i \in 1..n : g[i] = s[i]
           Good == [n \in 0..N |-> {g \in Seq(M) : Sorting(n, g)}]
           step == [p \in Seq(M) \X (1..N) |-> Insert(p[1], s[p[2]], before)]
<1> HIDE DEF sorted
<1>1. N \in Nat /\ \A n \in 1..N : n - 1 \in 0..N /\ n \in 0..N /\ s[n] \in M
  OBVIOUS
<1>2. <<>> \in Good[0]
  <2>1. <<>> \in Seq(M) /\ Len(<<>>) = 0 /\ ToSet(<<>>) = {} /\ Ordered(<<>>, before) /\ 1..0 = {}
    BY DEF ToSet, Ordered
  <2>2. {s[i] : i \in 1..0} = {} /\ \A i \in 1..0 : FALSE
    BY <2>1
  <2> QED BY <1>1, <2>1, <2>2
<1>3. ASSUME NEW n \in 1..N, NEW g \in Seq(M), Sorting(n - 1, g)
      PROVE  LET new == Insert(g, s[n], before) IN new \in Seq(M) /\ Sorting(n, new)
  <2> DEFINE new == Insert(g, s[n], before)
  <2> HIDE DEF step, Good
  <2>1. /\ new \in Seq(M) /\ Len(new) = Len(g) + 1
        /\ ToSet(new) = ToSet(g) \cup {s[n]}
        /\ WeakOrder(before, M) /\ Ordered(g, before) => Ordered(new, before)
        /\ (\A i \in DOMAIN g : <<s[n], g[i]>> \notin before) => new = Append(g, s[n])
    BY <1>1, InsertInOrder
  <2> HIDE DEF new
  <2>2. Len(g) = n - 1 /\ Len(new) = n
    BY <1>1, <1>3, <2>1
  <2>3. ToSet(new) = {s[i] : i \in 1..n}
    <3>1. \A i \in 1..n : i \in 1..(n - 1) \/ i = n
      BY <1>1
    <3>2. (\A i \in 1..(n - 1) : i \in 1..n) /\ n \in 1..n
      BY <1>1
    <3> QED BY <1>3, <2>1, <3>1, <3>2
  <2>4. ASSUME Ordered(s, before) PROVE \A i \in 1..n : new[i] = s[i]
    <3>1. \A i \in 1..(n - 1) : g[i] = s[i]
      BY <1>3, <2>4
    <3>2. \A i \in 1..(n - 1) : i \in DOMAIN s /\ n \in DOMAIN s /\ i < n
      BY <1>1
    <3>3. \A i \in 1..(n - 1) : <<s[n], g[i]>> \notin before
      BY <2>4, <3>1, <3>2 DEF Ordered
    <3>4. DOMAIN g = 1..(n - 1)
      BY <2>2
    <3>5. new = Append(g, s[n])
      BY <2>1, <3>3, <3>4
    <3> QED BY <1>1, <2>2, <3>1, <3>5
  <2> QED BY <1>3, <2>1, <2>2, <2>3, <2>4 DEF new
<1>4. \A n \in 1..N : \A g \in Good[n - 1] :
        step[<<g, n>>] = Insert(g, s[n], before) /\ step[<<g, n>>] \in Good[n]
  <2> SUFFICES ASSUME NEW n \in 1..N, NEW g \in Good[n - 1]
               PROVE  step[<<g, n>>] = Insert(g, s[n], before) /\ step[<<g, n>>] \in Good[n]
    OBVIOUS
  <2> HIDE DEF Sorting
  <2>1. g \in Seq(M) /\ Sorting(n - 1, g)
    BY <1>1
  <2>2. Insert(g, s[n], before) \in Seq(M) /\ Sorting(n, Insert(g, s[n], before))
    BY <1>3, <2>1
  <2> HIDE DEF N
  <2> QED BY <1>1, <2>1, <2>2
<1>5. PICK f : GoesUp(f, N, <<>>, step, Good)
  <2> HIDE DEF N, Good, step
  <2> QED BY <1>1, <1>2, <1>4, Recursion
<1> HIDE DEF step
<1>6. f = [n \in 0..N |-> IF n = 0 THEN <<>> ELSE Insert(f[n - 1], s[n], before)]
  <2>1. ASSUME NEW n \in 1..N PROVE f[n] = Insert(f[n - 1], s[n], before)
    <3>1. f[n - 1] \in Good[n - 1]
      BY <1>1, <1>5 DEF GoesUp
    <3> HIDE DEF Good
    <3> QED BY <1>4, <1>5, <3>1 DEF GoesUp
  <2>2. \A n \in 0..N : n = 0 \/ n \in 1..N
    BY <1>1
  <2> HIDE DEF N
  <2> QED BY <1>5, <2>1, <2>2 DEF GoesUp
<1>7. sorted = [n \in 0..N |-> IF n = 0 THEN <<>> ELSE Insert(sorted[n - 1], s[n], before)]
  BY <1>6, Zenon DEF sorted
<1>8. N \in {n \in 0..N : sorted[n] = f[n]}
  <2> DEFINE S == {n \in 0..N : sorted[n] = f[n]}
  <2>1. 0 \in S /\ \A n \in 1..N : n - 1 \in S => n \in S
    BY <1>1, <1>6, <1>7
  <2>2. 0..N \subseteq S
    <3> HIDE DEF S, N
    <3> QED BY <1>1, <2>1, UpTo
  <2>3. N \in 0..N
    BY <1>1
  <2> QED BY <2>2, <2>3
<1>9. Sorted(s, before) = sorted[N]
  BY DEF Sorted, sorted
<1>10. Sorted(s, before) \in Seq(M) /\ Sorting(N, Sorted(s, before))
  <2>1. Sorted(s, before) \in Good[N] /\ N \in 0..N
    BY <1>1, <1>5, <1>8, <1>9 DEF GoesUp
  <2> HIDE DEF Sorting, N
  <2> QED BY <2>1
<1>11. ToSet(s) = {s[i] : i \in 1..N}
  BY DEF ToSet
<1>12. ASSUME Ordered(s, before) PROVE Sorted(s, before) = s
  <2>1. Len(Sorted(s, before)) = Len(s) /\ \A i \in 1..Len(s) : Sorted(s, before)[i] = s[i]
    BY <1>10, <1>12
  <2> QED BY <1>10, <2>1, SeqEqual
<1> QED BY <1>10, <1>11, <1>12

----------------------------------------------------------------------------
(* Merging *)

Apart(g) == \A i, j \in DOMAIN g : i < j => g[i].end <= g[j].start
Outdone(m, seen) == \E n \in seen \ {m} : Overlap(m, n) /\ n.score >= m.score
Kept(seen, g) ==
  /\ Apart(g)
  /\ ToSet(g) \subseteq seen
  /\ \A m \in seen \ ToSet(g) : Outdone(m, seen)

\* A moment that does not start before any other one can only overlap the last
\* one that is kept.
LEMMA KeepKeeps ==
  ASSUME NEW seen \in SUBSET Moment, NEW g \in Seq(Moment), NEW m \in Moment, Kept(seen, g),
         \A x \in seen : x.start <= m.start
  PROVE  Keep(g, m) \in Seq(Moment) /\ Kept(seen \cup {m}, Keep(g, m))
<1>1. /\ Len(g) \in Nat /\ DOMAIN g = 1..Len(g)
      /\ \A i \in 1..Len(g) : g[i] \in Moment /\ g[i] \in seen
  BY DEF Kept, ToSet
<1>2. \A x \in Moment : /\ x.start \in Int /\ x.end \in Int /\ x.score \in Nat
                        /\ x.start < x.end
  BY DEF Moment
<1> DEFINE clashes == {i \in DOMAIN g : Overlap(m, g[i])}
<1>3. \A i \in clashes : i = Len(g)
  <2> SUFFICES ASSUME NEW i \in 1..Len(g), Overlap(m, g[i]), i # Len(g) PROVE FALSE
    BY <1>1
  <2>1. Len(g) \in 1..Len(g) /\ i < Len(g)
    BY <1>1
  <2>2. g[i].end <= g[Len(g)].start /\ g[Len(g)].start <= m.start
    BY <1>1, <2>1 DEF Kept, Apart
  <2>3. m.start < g[i].end
    BY DEF Overlap
  <2>4. m.start \in Int /\ g[i].end \in Int /\ g[Len(g)].start \in Int
    BY <1>1, <1>2, <2>1
  <2> QED BY <2>2, <2>3, <2>4
<1>4. clashes \subseteq 1..Len(g)
  BY <1>1
<1>5. \A x \in seen : Outdone(x, seen) => Outdone(x, seen \cup {m})
  BY DEF Outdone
<1>6. CASE clashes = {}
  <2> DEFINE new == Append(g, m)
  <2>1. Keep(g, m) = new
    BY <1>6 DEF Keep, Clash
  <2>2. /\ new \in Seq(Moment) /\ Len(new) = Len(g) + 1
        /\ \A i \in 1..Len(g) : new[i] = g[i]
        /\ new[Len(g) + 1] = m
    BY <1>1
  <2> HIDE DEF new
  <2>3. \A i \in 1..Len(g) : g[i].end <= m.start
    <3> SUFFICES ASSUME NEW i \in 1..Len(g) PROVE g[i].end <= m.start
      OBVIOUS
    <3>1. ~ (m.start < g[i].end /\ g[i].start < m.end)
      BY <1>1, <1>6 DEF Overlap
    <3>2. g[i].start <= m.start
      BY <1>1
    <3> QED BY <1>1, <1>2, <3>1, <3>2
  <2>4. Apart(new)
    <3> SUFFICES ASSUME NEW i \in 1..(Len(g) + 1), NEW j \in 1..(Len(g) + 1), i < j
                 PROVE  new[i].end <= new[j].start
      BY <2>2 DEF Apart
    <3>1. i \in 1..Len(g) /\ (j \in 1..Len(g) \/ j = Len(g) + 1)
      BY <1>1
    <3> QED BY <1>1, <2>2, <2>3, <3>1 DEF Kept, Apart
  <2>5. ToSet(new) = ToSet(g) \cup {m}
    <3>1. DOMAIN new = 1..(Len(g) + 1) /\ Len(g) + 1 \in 1..(Len(g) + 1)
          /\ \A i \in 1..(Len(g) + 1) : i \in 1..Len(g) \/ i = Len(g) + 1
      BY <1>1, <2>2
    <3>2. \A i \in 1..Len(g) : i \in 1..(Len(g) + 1)
      BY <1>1
    <3> QED BY <1>1, <2>2, <3>1, <3>2 DEF ToSet
  <2> QED BY <1>5, <2>1, <2>2, <2>4, <2>5 DEF Kept
<1>7. CASE clashes # {}
  <2> DEFINE k == Len(g)
             last == g[k]
  <2>1. Min(clashes) \in clashes
    <3> HIDE DEF clashes
    <3> QED BY <1>1, <1>4, <1>7, Extremes
  <2>2. Min(clashes) = k /\ k \in clashes /\ k \in 1..Len(g)
    BY <1>3, <1>4, <2>1
  <2>3. last \in Moment /\ last \in seen /\ Overlap(m, last) /\ last.start <= m.start
    BY <1>1, <2>2
  <2>4. Keep(g, m) = IF m.score > last.score THEN [g EXCEPT ![k] = m] ELSE g
    <3>1. Clash(g, m) = k /\ k # 0
      BY <1>7, <2>2 DEF Clash
    <3> QED BY <3>1 DEF Keep
  <2>5. CASE m.score > last.score
    <3> DEFINE new == [g EXCEPT ![k] = m]
    <3>1. /\ new \in Seq(Moment) /\ Len(new) = Len(g)
          /\ \A i \in 1..Len(g) : new[i] = IF i = k THEN m ELSE g[i]
      BY <1>1, <2>2
    <3> HIDE DEF new
    <3>2. Apart(new)
      <4> SUFFICES ASSUME NEW i \in 1..k, NEW j \in 1..k, i < j
                   PROVE  new[i].end <= new[j].start
        BY <3>1 DEF Apart
      <4>0. i \in DOMAIN g /\ j \in DOMAIN g /\ i # k
        <5>0. Len(g) \in Nat
          OBVIOUS
        <5>1. j <= k /\ i # k
          BY <5>0
        <5> QED BY <1>1, <5>1
      <4>1. g[i].end <= g[j].start /\ i # k
        BY <4>0 DEF Kept, Apart
      <4>2. g[i].end \in Int /\ last.start \in Int /\ m.start \in Int
        BY <1>1, <1>2, <2>3
      <4>3. CASE j = k
        <5>1. g[i].end <= m.start
          BY <2>3, <4>1, <4>2, <4>3
        <5> QED BY <3>1, <4>1, <4>3, <5>1
      <4>4. CASE j # k
        BY <3>1, <4>1, <4>4
      <4> QED BY <4>3, <4>4
    <3>3. ToSet(g) \subseteq ToSet(new) \cup {last} /\ m \in ToSet(new)
          /\ ToSet(new) \subseteq ToSet(g) \cup {m}
      <4>1. DOMAIN new = 1..Len(g)
        BY <3>1
      <4>2. ASSUME NEW i \in 1..Len(g)
            PROVE  /\ g[i] \in ToSet(new) \cup {last}
                   /\ new[i] \in ToSet(g) \cup {m}
        BY <1>1, <3>1, <4>1 DEF ToSet
      <4>3. m \in ToSet(new)
        BY <2>2, <3>1, <4>1 DEF ToSet
      <4> HIDE DEF last
      <4> QED BY <1>1, <4>1, <4>2, <4>3 DEF ToSet
    <3>4. Outdone(last, seen \cup {m})
      BY <1>2, <2>3, <2>5 DEF Outdone, Overlap
    <3>5. \A x \in (seen \cup {m}) \ ToSet(new) : Outdone(x, seen \cup {m})
      <4> SUFFICES ASSUME NEW x \in seen, x \notin ToSet(new), x # last
                   PROVE  Outdone(x, seen \cup {m})
        BY <3>3, <3>4
      <4>1. x \notin ToSet(g)
        BY <3>3
      <4> QED BY <1>5, <4>1 DEF Kept
    <3>6. ToSet(new) \subseteq seen \cup {m}
      BY <3>3 DEF Kept
    <3> QED BY <2>4, <2>5, <3>1, <3>2, <3>5, <3>6 DEF Kept, new
  <2>6. CASE ~ (m.score > last.score)
    <3>1. Keep(g, m) = g
      BY <2>4, <2>6
    <3>2. m \in ToSet(g) \/ Outdone(m, seen \cup {m})
      <4>1. last \in ToSet(g)
        BY <1>1, <2>2 DEF ToSet
      <4>2. last.score >= m.score
        BY <1>2, <2>3, <2>6
      <4> QED BY <2>3, <4>1, <4>2 DEF Outdone
    <3> QED BY <1>5, <3>1, <3>2 DEF Kept
  <2> QED BY <2>5, <2>6
<1> QED BY <1>6, <1>7

\* merge_moments over moments that are sorted by their starts.
LEMMA KeepAllKeeps ==
  ASSUME NEW s \in Seq(Moment), \A i, j \in DOMAIN s : i < j => s[i].start <= s[j].start
  PROVE  KeepAll(s) \in Seq(Moment) /\ Kept(ToSet(s), KeepAll(s))
<1> DEFINE kept[n \in 0..Len(s)] ==
             IF n = 0 THEN <<>> ELSE Keep(kept[n - 1], s[n])
           N == Len(s)
           Seen(n) == {s[i] : i \in 1..n}
           Good == [n \in 0..N |-> {g \in Seq(Moment) : Kept(Seen(n), g)}]
           step == [p \in Seq(Moment) \X (1..N) |-> Keep(p[1], s[p[2]])]
<1> HIDE DEF kept
<1>1. N \in Nat /\ \A n \in 1..N : n - 1 \in 0..N /\ n \in 0..N /\ s[n] \in Moment
  OBVIOUS
<1>2. <<>> \in Good[0]
  <2>1. Seen(0) = {} /\ 0 \in 0..N
    OBVIOUS
  <2>2. <<>> \in Seq(Moment) /\ ToSet(<<>>) = {} /\ Apart(<<>>)
    BY DEF ToSet, Apart
  <2> QED BY <2>1, <2>2 DEF Kept
<1>3. ASSUME NEW n \in 1..N, NEW g \in Seq(Moment), Kept(Seen(n - 1), g)
      PROVE  Keep(g, s[n]) \in Seq(Moment) /\ Kept(Seen(n), Keep(g, s[n]))
  <2>1. Seen(n) = Seen(n - 1) \cup {s[n]}
    <3>1. \A i \in 1..n : i \in 1..(n - 1) \/ i = n
      BY <1>1
    <3>2. (\A i \in 1..(n - 1) : i \in 1..n) /\ n \in 1..n
      BY <1>1
    <3> QED BY <3>1, <3>2
  <2>2. Seen(n - 1) \in SUBSET Moment /\ \A x \in Seen(n - 1) : x.start <= s[n].start
    <3>1. \A i \in 1..(n - 1) : i \in DOMAIN s /\ n \in DOMAIN s /\ i < n
      BY <1>1
    <3> QED BY <1>1, <3>1
  <2> HIDE DEF Seen, N
  <2> QED BY <1>1, <1>3, <2>1, <2>2, KeepKeeps
<1>4. \A n \in 1..N : \A g \in Good[n - 1] :
        step[<<g, n>>] = Keep(g, s[n]) /\ step[<<g, n>>] \in Good[n]
  <2> SUFFICES ASSUME NEW n \in 1..N, NEW g \in Good[n - 1]
               PROVE  step[<<g, n>>] = Keep(g, s[n]) /\ step[<<g, n>>] \in Good[n]
    OBVIOUS
  <2> HIDE DEF Seen
  <2>1. g \in Seq(Moment) /\ Kept(Seen(n - 1), g)
    BY <1>1
  <2>2. Keep(g, s[n]) \in Seq(Moment) /\ Kept(Seen(n), Keep(g, s[n]))
    BY <1>3, <2>1
  <2> HIDE DEF N
  <2> QED BY <1>1, <2>1, <2>2
<1>5. PICK f : GoesUp(f, N, <<>>, step, Good)
  <2> HIDE DEF N, Good, step
  <2> QED BY <1>1, <1>2, <1>4, Recursion
<1> HIDE DEF step
<1>6. f = [n \in 0..N |-> IF n = 0 THEN <<>> ELSE Keep(f[n - 1], s[n])]
  <2>1. ASSUME NEW n \in 1..N PROVE f[n] = Keep(f[n - 1], s[n])
    <3>1. f[n - 1] \in Good[n - 1]
      BY <1>1, <1>5 DEF GoesUp
    <3> HIDE DEF Good
    <3> QED BY <1>4, <1>5, <3>1 DEF GoesUp
  <2>2. \A n \in 0..N : n = 0 \/ n \in 1..N
    BY <1>1
  <2> HIDE DEF N
  <2> QED BY <1>5, <2>1, <2>2 DEF GoesUp
<1>7. kept = [n \in 0..N |-> IF n = 0 THEN <<>> ELSE Keep(kept[n - 1], s[n])]
  BY <1>6, Zenon DEF kept
<1>8. N \in {n \in 0..N : kept[n] = f[n]}
  <2> DEFINE S == {n \in 0..N : kept[n] = f[n]}
  <2>1. 0 \in S /\ \A n \in 1..N : n - 1 \in S => n \in S
    BY <1>1, <1>6, <1>7
  <2>2. 0..N \subseteq S
    <3> HIDE DEF S, N
    <3> QED BY <1>1, <2>1, UpTo
  <2>3. N \in 0..N
    BY <1>1
  <2> QED BY <2>2, <2>3
<1>9. KeepAll(s) = kept[N]
  BY DEF KeepAll, kept
<1>10. KeepAll(s) \in Good[N] /\ N \in 0..N
  BY <1>1, <1>5, <1>8, <1>9 DEF GoesUp
<1>11. ToSet(s) = Seen(N)
  BY DEF ToSet
<1> HIDE DEF Seen, N
<1> QED BY <1>10, <1>11

\* The orders that sort moments are orders.
LEMMA MomentOrders ==
  ASSUME NEW ms \in SUBSET Moment
  PROVE  WeakOrder(Before(ms), ms)
<1>1. \A x \in ms : x.start \in Int /\ x.score \in Int
  BY DEF Moment
<1>2. \A x, y \in ms : <<x, y>> \in Before(ms) <=>
        x.start < y.start \/ (x.start = y.start /\ x.score > y.score)
  <2> SUFFICES ASSUME NEW x \in ms, NEW y \in ms
               PROVE  <<x, y>> \in Before(ms) <=>
                        x.start < y.start \/ (x.start = y.start /\ x.score > y.score)
    OBVIOUS
  <2> DEFINE p == <<x, y>>
  <2>1. p \in ms \X ms /\ p[1] = x /\ p[2] = y
    OBVIOUS
  <2> HIDE DEF p
  <2>2. p \in Before(ms) <=>
          \/ p[1].start < p[2].start
          \/ p[1].start = p[2].start /\ p[1].score > p[2].score
    BY <2>1, Zenon DEF Before
  <2> QED BY <2>1, <2>2 DEF p
<1>3. ASSUME NEW x \in ms, NEW y \in ms, <<x, y>> \in Before(ms) PROVE <<y, x>> \notin Before(ms)
  BY <1>1, <1>2, <1>3
<1>4. ASSUME NEW x \in ms, NEW y \in ms, NEW z \in ms,
             <<x, y>> \notin Before(ms), <<y, z>> \notin Before(ms)
      PROVE  <<x, z>> \notin Before(ms)
  <2>1. /\ ~ (x.start < y.start) /\ ~ (x.start = y.start /\ x.score > y.score)
        /\ ~ (y.start < z.start) /\ ~ (y.start = z.start /\ y.score > z.score)
    BY <1>2, <1>4, Zenon
  <2>2. ~ (x.start < z.start) /\ ~ (x.start = z.start /\ x.score > z.score)
    BY <1>1, <2>1
  <2> QED BY <1>2, <2>2
<1> QED BY <1>3, <1>4 DEF WeakOrder

\* merge_moments keeps moments that are in order and apart, and only drops one
\* for another one that is as good.
LEMMA MergeMomentsKeeps ==
  ASSUME NEW raw \in Seq(Moment)
  PROVE  MergeMoments(raw) \in Seq(Moment) /\ Kept(ToSet(raw), MergeMoments(raw))
<1> DEFINE ms == ToSet(raw)
           s == Sorted(raw, Before(ms))
           kept == KeepAll(s)
<1>1. ms \in SUBSET Moment /\ raw \in Seq(ms)
  BY DEF ToSet
<1>2. s \in Seq(ms) /\ ToSet(s) = ms /\ Ordered(s, Before(ms))
  <2> HIDE DEF ms
  <2>1. WeakOrder(Before(ms), ms)
    BY <1>1, MomentOrders
  <2>2. s \in Seq(ms) /\ ToSet(s) = ToSet(raw) /\ Ordered(s, Before(ms))
    BY <1>1, <2>1, SortedInOrder
  <2> QED BY <2>2 DEF ms
<1> HIDE DEF s, ms
<1>3. s \in Seq(Moment)
  BY <1>1, <1>2
<1>4. ASSUME NEW i \in DOMAIN s, NEW j \in DOMAIN s, i < j PROVE s[i].start <= s[j].start
  <2>1. s[i] \in ms /\ s[j] \in ms /\ <<s[j], s[i]>> \notin Before(ms)
    BY <1>2, <1>4 DEF Ordered
  <2>2. s[i].start \in Int /\ s[j].start \in Int
    BY <1>1, <2>1 DEF Moment
  <2>3. ~ (s[j].start < s[i].start)
    BY <2>1 DEF Before
  <2> QED BY <2>2, <2>3
<1>5. kept \in Seq(Moment) /\ Kept(ms, kept)
  BY <1>2, <1>3, <1>4, KeepAllKeeps
<1> HIDE DEF kept
<1>6. Ordered(kept, Earlier(ToSet(kept)))
  <2> SUFFICES ASSUME NEW i \in DOMAIN kept, NEW j \in DOMAIN kept, i < j
               PROVE  <<kept[j], kept[i]>> \notin Earlier(ToSet(kept))
    BY DEF Ordered
  <2>1. kept[i] \in Moment /\ kept[j] \in Moment /\ kept[i].end <= kept[j].start
    BY <1>5 DEF Kept, Apart
  <2>2. ~ (kept[j].start < kept[i].start)
    BY <2>1 DEF Moment
  <2> QED BY <2>2 DEF Earlier
<1>7. Sorted(kept, Earlier(ToSet(kept))) = kept
  BY <1>5, <1>6, SortedInOrder
<1>8. MergeMoments(raw) = Sorted(kept, Earlier(ToSet(kept)))
  BY DEF MergeMoments, kept, s, ms
<1> QED BY <1>5, <1>7, <1>8 DEF ms

\* What a window contributes are moments.
LEMMA ContributionType ==
  ASSUME NEW T, NEW l \in Seq(LineOf(T)), NEW window \in SUBSET DOMAIN l,
         NEW C, NEW candidates \in Seq(C)
  PROVE  Contribution(candidates, window, l) \in Seq(Moment)
<1> DEFINE valid == ValidMoments(candidates, window, l)
           best == Sorted(valid, Higher(ToSet(valid)))
           n == IF Len(best) < MaxPerWindow THEN Len(best) ELSE MaxPerWindow
<1>1. valid \in Seq(Moment)
  BY ValidMomentsType
<1> HIDE DEF valid
<1>2. best \in Seq(Moment)
  BY <1>1, SortedInOrder
<1>3. Contribution(candidates, window, l) = SubSeq(best, 1, n)
  BY DEF Contribution, valid
<1> HIDE DEF best
<1>4. n \in Nat /\ n <= Len(best) /\ Len(best) \in Nat
  BY <1>2, MomentsAssumption
<1> HIDE DEF n
<1> QED BY <1>2, <1>3, <1>4

----------------------------------------------------------------------------
(* One run *)

\* What is known of a window that was asked about.
AskedOf(vendor) ==
  {[response |-> None, outcome |-> "raised"]}
    \cup {[response |-> r, outcome |-> Read(vendor, r)] : r \in Responses}

Bill(vendor, r) ==
  CASE r.spent = Unreported -> 0
    [] vendor = "gemini" /\ r.spent = Thoughtful -> 2
    [] OTHER -> 1
Answered(windowsAsked) == {w \in DOMAIN windowsAsked : windowsAsked[w].response # None}
Bills(vendor, windowsAsked) ==
  UNION {{w} \X (1..Bill(vendor, windowsAsked[w].response)) : w \in Answered(windowsAsked)}

\* What the run goes over is the transcript, and what it keeps of it adds up.
RunInv ==
  /\ config \in [vendor : Vendors, words : Transcripts]
  /\ \/ lines = <<>> /\ windows = <<>>
     \/ lines = GroupLines(config.words) /\ windows = SplitWindows(lines)
  /\ asked \in Seq(AskedOf(config.vendor))
  /\ missing = {w \in DOMAIN asked : asked[w].outcome # "answer"}
  /\ found \in Seq(Moment)
  /\ phase \in {"engine", "client"} => asked = <<>>
  /\ Len(asked) <= Len(windows)
DoneInv ==
  /\ phase # "stopped" => unscanned = {}
  /\ analysis # None => phase = "done"
  /\ phase = "done" /\ analysis.engine = "model" =>
       /\ Len(asked) = Len(windows)
       /\ analysis.missing = missing
       /\ analysis.moments = MergeMoments(found)
BillInv ==
  /\ usage.calls = Cardinality(Answered(asked))
  /\ IsFiniteSet(Bills(config.vendor, asked))
  /\ usage.tokens = Cardinality(Bills(config.vendor, asked))

\* The lines and the windows of every transcript are what the lemmas above are about.
LEMMA WordsMakeWindows ==
  ASSUME NEW words \in Transcripts
  PROVE  LET l == GroupLines(words) IN
         /\ \E T : l \in Seq(LineOf(T)) /\ InOrder(l)
         /\ SplitWindows(l) \in Seq(SUBSET DOMAIN l)
         /\ Len(SplitWindows(l)) \in Nat
<1> DEFINE T == {words[i].text : i \in DOMAIN words}
           l == GroupLines(words)
<1>1. words \in Seq(WordOf(T)) /\ InOrder(words)
  BY DetectionAssumption DEF WordOf
<1> HIDE DEF T
<1>2. l \in Seq(LineOf(T)) /\ InOrder(l)
  BY <1>1, GroupLinesInOrder
<1>3. SplitWindows(l) \in Seq(SUBSET DOMAIN l)
  <2> HIDE DEF l
  <2> QED BY <1>2, WindowsHoldMoments
<1> QED BY <1>2, <1>3

LEMMA TranscriptsAreScanned ==
  ASSUME RunInv
  PROVE  \E T : /\ lines \in Seq(LineOf(T)) /\ InOrder(lines)
                /\ windows \in Seq(SUBSET DOMAIN lines)
                /\ lines # <<>> => windows = SplitWindows(lines)
<1>1. CASE lines = <<>> /\ windows = <<>>
  <2>1. lines \in Seq(LineOf({})) /\ InOrder(lines) /\ windows \in Seq(SUBSET DOMAIN lines)
    BY <1>1 DEF InOrder
  <2> QED BY <1>1, <2>1
<1>2. CASE lines = GroupLines(config.words) /\ windows = SplitWindows(lines)
  BY <1>2, WordsMakeWindows DEF RunInv
<1> QED BY <1>1, <1>2 DEF RunInv

\* What a window contributes is added to moments.
LEMMA FoundStaysTyped ==
  ASSUME RunInv, NEW r \in Responses, r.text = "answer", Next1 <= Len(windows)
  PROVE  found \o Contribution(r.moments, windows[Next1], lines) \in Seq(Moment)
<1>1. PICK T : lines \in Seq(LineOf(T)) /\ windows \in Seq(SUBSET DOMAIN lines)
  BY TranscriptsAreScanned
<1>2. Next1 \in 1..Len(windows)
  BY <1>1 DEF RunInv, Next1
<1>3. windows[Next1] \in SUBSET DOMAIN lines
  BY <1>1, <1>2
<1>4. r.moments \in Seq(ToSet(r.moments))
  <2>1. r.moments \in Answers
    BY DEF Responses, Plain
  <2> QED BY <2>1, DetectionAssumption
<1>5. Contribution(r.moments, windows[Next1], lines) \in Seq(Moment)
  BY <1>1, <1>3, <1>4, ContributionType
<1> QED BY <1>5 DEF RunInv

\* Only the text of an answer can be read as one.
LEMMA OnlyAnswersAreRead ==
  ASSUME NEW vendor \in Vendors, NEW r \in Responses
  PROVE  /\ Read(vendor, r) = "answer" => r.text = "answer"
         /\ Read(vendor, r) \in {"answer", "not json", "empty"} => r.ended = "complete"
         /\ Read(vendor, r) # "raised"
<1>1. r.ended \in {"complete", "cut off", "refused"}
  BY DEF Responses, Plain
<1>2. /\ Parse(r) \in {"answer", "no list", "not json"}
      /\ Parse(r) = "answer" => r.text = "answer"
  BY DEF Parse
<1>3. /\ ReadText(r) \in {"empty", "not text", "answer", "no list", "not json"}
      /\ ReadText(r) = "answer" => r.text = "answer"
  BY <1>2 DEF ReadText
<1>4. CASE vendor = "anthropic"
  BY <1>1, <1>2, <1>4 DEF Read, ReadAnthropic
<1>5. CASE vendor = "gemini"
  BY <1>1, <1>3, <1>5 DEF Read, ReadGemini
<1>6. CASE vendor = "openai"
  BY <1>1, <1>3, <1>6 DEF Read, ReadOpenAI
<1> QED BY <1>4, <1>5, <1>6 DEF Vendors

\* Another window was asked about: what is missing, and what was billed.
LEMMA AskedGrows ==
  ASSUME RunInv, NEW a \in AskedOf(config.vendor), asked' = Append(asked, a)
  PROVE  /\ asked' \in Seq(AskedOf(config.vendor))
         /\ {w \in DOMAIN asked' : asked'[w].outcome # "answer"} =
              IF a.outcome = "answer" THEN missing ELSE missing \cup {Next1}
         /\ Answered(asked') =
              IF a.response = None THEN Answered(asked) ELSE Answered(asked) \cup {Next1}
         /\ Bills(config.vendor, asked') =
              IF a.response = None THEN Bills(config.vendor, asked)
              ELSE Bills(config.vendor, asked)
                     \cup ({Next1} \X (1..Bill(config.vendor, a.response)))
         /\ Next1 \notin Answered(asked)
<1> DEFINE v == config.vendor
<1>2. /\ asked' \in Seq(AskedOf(v)) /\ Len(asked') = Next1 /\ Len(asked) \in Nat
      /\ \A w \in 1..Len(asked) : asked'[w] = asked[w]
      /\ asked'[Next1] = a
  BY DEF RunInv, Next1
<1>3. /\ DOMAIN asked = 1..Len(asked) /\ DOMAIN asked' = 1..Next1
      /\ Next1 \in 1..Next1 /\ Next1 \notin 1..Len(asked)
      /\ \A w \in 1..Next1 : w \in 1..Len(asked) \/ w = Next1
      /\ \A w \in 1..Len(asked) : w \in 1..Next1
  BY <1>2 DEF RunInv, Next1
<1>4. {w \in DOMAIN asked' : asked'[w].outcome # "answer"} =
        IF a.outcome = "answer" THEN missing ELSE missing \cup {Next1}
  BY <1>2, <1>3 DEF RunInv
<1>5. Answered(asked') =
        IF a.response = None THEN Answered(asked) ELSE Answered(asked) \cup {Next1}
  BY <1>2, <1>3 DEF Answered
<1>6. Next1 \notin Answered(asked) /\ \A w \in Answered(asked) : asked'[w] = asked[w]
  BY <1>2, <1>3 DEF Answered
<1>7. Bills(v, asked') =
        IF a.response = None THEN Bills(v, asked)
        ELSE Bills(v, asked) \cup ({Next1} \X (1..Bill(v, a.response)))
  <2>1. CASE a.response = None
    BY <1>5, <1>6, <2>1 DEF Bills
  <2>2. CASE a.response # None
    <3>1. \A b : b \in Bills(v, asked') <=>
            \E w \in Answered(asked') : b \in {w} \X (1..Bill(v, asked'[w].response))
      BY DEF Bills
    <3>2. \A b : b \in Bills(v, asked) <=>
            \E w \in Answered(asked) : b \in {w} \X (1..Bill(v, asked'[w].response))
      BY <1>6 DEF Bills
    <3>3. asked'[Next1].response = a.response
      BY <1>2
    <3> HIDE DEF v
    <3> QED BY <1>5, <2>2, <3>1, <3>2, <3>3
  <2> QED BY <2>1, <2>2
<1> QED BY <1>2, <1>4, <1>5, <1>6, <1>7

\* The run goes on over the same transcript.
LEMMA StepKeepsRun ==
  ASSUME RunInv, [Next]_vars
  PROVE  RunInv'
<1>1. ASSUME NEW file \in KeyFiles, ChooseModel(file) PROVE RunInv'
  BY <1>1 DEF RunInv, ChooseModel, scanVars
<1>2. ASSUME BuildClient PROVE RunInv'
  <2> DEFINE l == GroupLines(config.words)
             w == SplitWindows(l)
  <2>1. config' = config /\ lines' = l /\ windows' = w
        /\ asked' = <<>> /\ asked = <<>> /\ missing' = missing /\ found' = found /\ phase' = "scan"
    BY <1>2 DEF BuildClient, RunInv
  <2>2. Len(w) \in Nat
    BY WordsMakeWindows DEF RunInv
  <2> HIDE DEF l, w
  <2>3. Len(asked') <= Len(windows')
    BY <2>1, <2>2
  <2>4. lines' = GroupLines(config'.words) /\ windows' = SplitWindows(lines')
    BY <2>1 DEF l, w
  <2> QED BY <2>1, <2>3, <2>4 DEF RunInv
<1>3. ASSUME UseLexicon PROVE RunInv'
  BY <1>3 DEF RunInv, UseLexicon, scanVars
<1>4. ASSUME CallRaises PROVE RunInv'
  <2>1. [response |-> None, outcome |-> "raised"] \in AskedOf(config.vendor)
    BY DEF AskedOf
  <2>2. asked' = Append(asked, [response |-> None, outcome |-> "raised"])
    BY <1>4 DEF CallRaises
  <2>3. /\ asked' \in Seq(AskedOf(config.vendor))
        /\ {w \in DOMAIN asked' : asked'[w].outcome # "answer"} = missing \cup {Next1}
    <3> DEFINE a == [response |-> None, outcome |-> "raised"]
    <3>1. a.outcome # "answer" /\ a \in AskedOf(config.vendor) /\ asked' = Append(asked, a)
      BY <2>1, <2>2
    <3> HIDE DEF a
    <3>2. /\ asked' \in Seq(AskedOf(config.vendor))
          /\ {w \in DOMAIN asked' : asked'[w].outcome # "answer"} =
               IF a.outcome = "answer" THEN missing ELSE missing \cup {Next1}
      BY <3>1, AskedGrows
    <3> QED BY <3>1, <3>2
  <2>4. config' = config /\ lines' = lines /\ windows' = windows /\ found' = found
        /\ missing' = missing \cup {Next1} /\ Next1 <= Len(windows) /\ phase' = "scan"
    BY <1>4 DEF CallRaises, scanVars
  <2>5. Len(asked') = Next1
    BY <2>2 DEF RunInv, Next1
  <2> QED BY <2>3, <2>4, <2>5 DEF RunInv
<1>5. ASSUME NEW r \in Responses, Ask(r) PROVE RunInv'
  <2> DEFINE outcome == Read(config.vendor, r)
  <2>1. [response |-> r, outcome |-> outcome] \in AskedOf(config.vendor)
    BY DEF AskedOf
  <2>2. asked' = Append(asked, [response |-> r, outcome |-> outcome])
    BY <1>5 DEF Ask
  <2>3. /\ config' = config /\ lines' = lines /\ windows' = windows
        /\ IF outcome = "answer"
           THEN found' = found \o Contribution(r.moments, windows[Next1], lines) /\ missing' = missing
           ELSE found' = found /\ missing' = missing \cup {Next1}
        /\ Next1 <= Len(windows) /\ phase' = "scan"
    BY <1>5 DEF Ask, scanVars
  <2>4. outcome = "answer" => r.text = "answer"
    BY OnlyAnswersAreRead DEF RunInv
  <2> HIDE DEF outcome
  <2>5. /\ asked' \in Seq(AskedOf(config.vendor))
        /\ {w \in DOMAIN asked' : asked'[w].outcome # "answer"} = missing'
    <3> DEFINE a == [response |-> r, outcome |-> outcome]
    <3>1. a.outcome = outcome /\ a \in AskedOf(config.vendor) /\ asked' = Append(asked, a)
      BY <2>1, <2>2
    <3> HIDE DEF a
    <3>2. /\ asked' \in Seq(AskedOf(config.vendor))
          /\ {w \in DOMAIN asked' : asked'[w].outcome # "answer"} =
               IF a.outcome = "answer" THEN missing ELSE missing \cup {Next1}
      BY <3>1, AskedGrows
    <3> QED BY <2>3, <3>1, <3>2
  <2>6. found' \in Seq(Moment)
    BY <2>3, <2>4, FoundStaysTyped DEF RunInv
  <2>7. Len(asked') = Next1
    BY <2>2 DEF RunInv, Next1
  <2> QED BY <2>3, <2>5, <2>6, <2>7 DEF RunInv
<1>6. ASSUME Stop PROVE RunInv'
  BY <1>6 DEF RunInv, Stop, scanVars
<1>7. ASSUME FinishScan PROVE RunInv'
  BY <1>7 DEF RunInv, FinishScan, Writes, scanVars
<1>8. ASSUME UNCHANGED vars PROVE RunInv'
  BY <1>8 DEF RunInv, vars, scanVars
<1> QED BY <1>1, <1>2, <1>3, <1>4, <1>5, <1>6, <1>7, <1>8 DEF Next

\* A run that is done was done by one engine.
LEMMA StepKeepsDone ==
  ASSUME RunInv, DoneInv, [Next]_vars
  PROVE  DoneInv'
<1>1. ASSUME NEW file \in KeyFiles, ChooseModel(file) PROVE DoneInv'
  BY <1>1 DEF DoneInv, ChooseModel
<1>2. ASSUME BuildClient PROVE DoneInv'
  BY <1>2 DEF DoneInv, BuildClient
<1>3. ASSUME UseLexicon PROVE DoneInv'
  <2>1. PICK engine \in {"none", "lexicon"} : \E moments : Writes(engine, moments)
    BY <1>3 DEF UseLexicon
  <2>2. phase' = "done" /\ analysis'.engine # "model"
    BY <2>1 DEF Writes
  <2> QED BY <1>3, <2>2 DEF DoneInv, UseLexicon
<1>4. ASSUME CallRaises PROVE DoneInv'
  BY <1>4 DEF DoneInv, CallRaises
<1>5. ASSUME NEW r \in Responses, Ask(r) PROVE DoneInv'
  BY <1>5 DEF DoneInv, Ask
<1>6. ASSUME Stop PROVE DoneInv'
  BY <1>6 DEF DoneInv, Stop
<1>7. ASSUME FinishScan PROVE DoneInv'
  <2>1. Len(asked) = Len(windows)
    <3>1. PICK T : windows \in Seq(SUBSET DOMAIN lines)
      BY TranscriptsAreScanned
    <3>2. Len(asked) \in Nat /\ Len(windows) \in Nat /\ Len(asked) <= Len(windows)
      BY <3>1 DEF RunInv
    <3> QED BY <1>7, <3>2 DEF FinishScan, Next1
  <2> QED BY <1>7, <2>1 DEF DoneInv, FinishScan, Writes, scanVars
<1>8. ASSUME UNCHANGED vars PROVE DoneInv'
  BY <1>8 DEF DoneInv, vars, scanVars
<1> QED BY <1>1, <1>2, <1>3, <1>4, <1>5, <1>6, <1>7, <1>8 DEF Next

\* What a vendor reports is what it billed, whatever it leaves out.
LEMMA TokensAreBilled ==
  ASSUME NEW vendor \in Vendors, NEW r \in Responses
  PROVE  Tokens(vendor, r) = Bill(vendor, r) /\ Bill(vendor, r) \in 0..2
<1>1. r.spent \in {Thoughtful, Thoughtless, Unreported} /\ None \notin Nat
  BY DetectionAssumption DEF Responses, Plain
<1>2. CASE r.spent = Thoughtful
  <2>1. r.spent # Unreported /\ r.spent.output = 1 /\ r.spent.thought = 1
    BY <1>1, <1>2 DEF Thoughtful, Unreported
  <2> QED BY <1>1, <1>2, <2>1 DEF Tokens, GeminiTokens, Count, Bill
<1>3. CASE r.spent = Thoughtless
  <2>1. /\ r.spent # Unreported /\ r.spent # Thoughtful
        /\ r.spent.output = 1 /\ r.spent.thought = None
    BY <1>1, <1>3 DEF Thoughtful, Thoughtless, Unreported
  <2> QED BY <1>1, <2>1 DEF Tokens, GeminiTokens, Count, Bill
<1>4. CASE r.spent = Unreported
  <2>1. r.spent.output = None /\ r.spent.thought = None /\ r.spent # Thoughtful
    BY <1>1, <1>4 DEF Unreported, Thoughtful
  <2> QED BY <1>4, <2>1 DEF Tokens, GeminiTokens, Count, Bill
<1> QED BY <1>1, <1>2, <1>3, <1>4

\* The bills of a window that was not answered yet come on top.
LEMMA BillsAddUp ==
  ASSUME NEW bills, IsFiniteSet(bills), NEW w, NEW b \in 0..2, \A e \in bills : e[1] # w
  PROVE  /\ IsFiniteSet(bills \cup ({w} \X (1..b)))
         /\ Cardinality(bills \cup ({w} \X (1..b))) = Cardinality(bills) + b
<1> DEFINE new == {w} \X (1..b)
<1>1. IsFiniteSet(1..b) /\ Cardinality(1..b) = b
  <2>1. 1 \in Int /\ b \in Int /\ (IF 1 > b THEN 0 ELSE b - 1 + 1) = b
    OBVIOUS
  <2>2. IsFiniteSet(1..b) /\ Cardinality(1..b) = IF 1 > b THEN 0 ELSE b - 1 + 1
    BY <2>1, FS_Interval
  <2> QED BY <2>1, <2>2
<1>2. IsFiniteSet({w}) /\ Cardinality({w}) = 1
  BY FS_Singleton
<1>3. IsFiniteSet(new) /\ Cardinality(new) = b
  <2>1. IsFiniteSet(new) /\ Cardinality(new) = Cardinality({w}) * Cardinality(1..b)
    BY <1>1, <1>2, FS_Product
  <2> QED BY <1>1, <1>2, <2>1
<1>4. bills \cap new = {}
  BY DEF new
<1> HIDE DEF new
<1>5. Cardinality(bills \cap new) = 0 /\ Cardinality(bills) \in Nat
  BY <1>4, FS_EmptySet, FS_CardinalityType
<1>6. /\ IsFiniteSet(bills \cup new)
      /\ Cardinality(bills \cup new) = Cardinality(bills) + Cardinality(new) - Cardinality(bills \cap new)
  BY <1>3, FS_Union
<1> QED BY <1>3, <1>5, <1>6 DEF new

LEMMA StepKeepsBills ==
  ASSUME RunInv, BillInv, [Next]_vars
  PROVE  BillInv'
<1>1. ASSUME UNCHANGED <<config, asked, usage>> PROVE BillInv'
  BY <1>1 DEF BillInv
<1>2. ASSUME CallRaises PROVE BillInv'
  <2> DEFINE a == [response |-> None, outcome |-> "raised"]
  <2>1. a.response = None /\ a \in AskedOf(config.vendor)
    BY DEF AskedOf
  <2>2. asked' = Append(asked, a) /\ UNCHANGED <<config, usage>>
    BY <1>2 DEF CallRaises
  <2> HIDE DEF a
  <2>3. /\ Answered(asked') = IF a.response = None THEN Answered(asked) ELSE Answered(asked) \cup {Next1}
        /\ Bills(config.vendor, asked') =
             IF a.response = None THEN Bills(config.vendor, asked)
             ELSE Bills(config.vendor, asked) \cup ({Next1} \X (1..Bill(config.vendor, a.response)))
    BY <2>1, <2>2, AskedGrows
  <2>4. Answered(asked') = Answered(asked) /\ Bills(config.vendor, asked') = Bills(config.vendor, asked)
    BY <2>1, <2>3
  <2> QED BY <2>2, <2>4 DEF BillInv
<1>3. ASSUME NEW r \in Responses, Ask(r) PROVE BillInv'
  <2> DEFINE v == config.vendor
             a == [response |-> r, outcome |-> Read(v, r)]
  <2>1. a.response = r /\ r # None /\ a \in AskedOf(v)
    BY DetectionAssumption DEF AskedOf
  <2>2. /\ asked' = Append(asked, a) /\ config' = config
        /\ usage'.calls = usage.calls + 1 /\ usage'.tokens = usage.tokens + Tokens(v, r)
    BY <1>3 DEF Ask, Record
  <2>3. v \in Vendors
    BY DEF RunInv
  <2> HIDE DEF a
  <2>4. /\ Answered(asked') = IF a.response = None THEN Answered(asked) ELSE Answered(asked) \cup {Next1}
        /\ Bills(v, asked') =
             IF a.response = None THEN Bills(v, asked)
             ELSE Bills(v, asked) \cup ({Next1} \X (1..Bill(v, a.response)))
        /\ Next1 \notin Answered(asked)
    BY <2>1, <2>2, AskedGrows
  <2>5. /\ Answered(asked') = Answered(asked) \cup {Next1}
        /\ Bills(v, asked') = Bills(v, asked) \cup ({Next1} \X (1..Bill(v, r)))
    BY <2>1, <2>4
  <2>6. Cardinality(Answered(asked')) = Cardinality(Answered(asked)) + 1
    <3>1. Answered(asked) \in SUBSET (1..Len(asked)) /\ Len(asked) \in Nat
      BY DEF Answered, RunInv
    <3>2. IsFiniteSet(Answered(asked))
      <4>1. IsFiniteSet(1..Len(asked))
        BY <3>1, FS_Interval
      <4> QED BY <3>1, <4>1, FS_Subset
    <3> QED BY <2>4, <2>5, <3>2, FS_AddElement
  <2>7. \A e \in Bills(v, asked) : e[1] # Next1
    BY <2>4 DEF Bills
  <2>8. Tokens(v, r) = Bill(v, r) /\ Bill(v, r) \in 0..2
    BY <2>3, TokensAreBilled
  <2>9. /\ IsFiniteSet(Bills(v, asked'))
        /\ Cardinality(Bills(v, asked')) = Cardinality(Bills(v, asked)) + Bill(v, r)
    <3>1. IsFiniteSet(Bills(v, asked))
      BY DEF BillInv
    <3> DEFINE old == Bills(v, asked)
               b == Bill(v, r)
               w == Next1
    <3>2. IsFiniteSet(old) /\ b \in 0..2 /\ \A e \in old : e[1] # w
      BY <2>7, <2>8, <3>1
    <3> HIDE DEF old, b, w
    <3>3. /\ IsFiniteSet(old \cup ({w} \X (1..b)))
          /\ Cardinality(old \cup ({w} \X (1..b))) = Cardinality(old) + b
      BY <3>2, BillsAddUp
    <3> QED BY <2>5, <3>3 DEF old, b, w
  <2> QED BY <2>2, <2>6, <2>8, <2>9 DEF BillInv
<1>4. CASE \/ \E file \in KeyFiles : ChooseModel(file)
           \/ BuildClient \/ UseLexicon \/ Stop \/ FinishScan \/ UNCHANGED vars
  BY <1>1, <1>4 DEF ChooseModel, BuildClient, UseLexicon, Stop, FinishScan, vars
<1> QED BY <1>2, <1>3, <1>4 DEF Next

----------------------------------------------------------------------------
(* The theorems *)

\* The invariants hold of every run over every transcript.
THEOREM DetectionInvariantHolds == Spec => [](RunInv /\ DoneInv /\ BillInv)
<1>1. Init => RunInv /\ DoneInv /\ BillInv
  <2> SUFFICES ASSUME Init PROVE RunInv /\ DoneInv /\ BillInv
    OBVIOUS
  <2>1. RunInv /\ DoneInv
    BY DEF Init, RunInv, DoneInv
  <2>2. Answered(asked) = {} /\ Bills(config.vendor, asked) = {}
    BY DEF Init, Answered, Bills
  <2>3. BillInv
    BY <2>2, FS_EmptySet DEF Init, BillInv
  <2> QED BY <2>1, <2>3
<1>2. (RunInv /\ DoneInv /\ BillInv) /\ [Next]_vars => (RunInv /\ DoneInv /\ BillInv)'
  BY StepKeepsRun, StepKeepsDone, StepKeepsBills
<1> QED BY <1>1, <1>2, PTL DEF Spec

\* A window has moments to give or is named as missing, and every span of lines
\* that could be a moment was asked about as a whole (scan, split_windows and
\* make_caller of each provider), for every transcript whose words are in order.
THEOREM HolesAreAlwaysNamed == Spec => []HolesAreNamed
<1>1. RunInv /\ DoneInv => HolesAreNamed
  <2> SUFFICES ASSUME RunInv, DoneInv PROVE HolesAreNamed
    OBVIOUS
  <2>1. ASSUME NEW w \in DOMAIN asked
        PROVE  /\ w \in missing <=> asked[w].outcome # "answer"
               /\ asked[w].outcome \in {"answer", "not json", "empty"} =>
                    asked[w].response.ended = "complete"
    <3>1. w \in missing <=> asked[w].outcome # "answer"
      BY DEF RunInv
    <3>2. asked[w] \in AskedOf(config.vendor)
      BY DEF RunInv
    <3>3. CASE asked[w] = [response |-> None, outcome |-> "raised"]
      BY <3>1, <3>3
    <3>4. CASE \E r \in Responses : asked[w] = [response |-> r, outcome |-> Read(config.vendor, r)]
      <4>1. PICK r \in Responses : asked[w] = [response |-> r, outcome |-> Read(config.vendor, r)]
        BY <3>4
      <4>2. asked[w].response = r /\ asked[w].outcome = Read(config.vendor, r)
        BY <4>1
      <4>3. config.vendor \in Vendors
        BY DEF RunInv
      <4> QED BY <3>1, <4>2, <4>3, OnlyAnswersAreRead
    <3> QED BY <3>2, <3>3, <3>4 DEF AskedOf
  <2>2. ASSUME NEW i \in DOMAIN lines, NEW j \in DOMAIN lines,
               i <= j, Acceptable([first |-> i, last |-> j], lines)
        PROVE  \E w \in DOMAIN windows : i..j \subseteq windows[w]
    <3>1. PICK T : /\ lines \in Seq(LineOf(T)) /\ InOrder(lines)
                   /\ lines # <<>> => windows = SplitWindows(lines)
      BY TranscriptsAreScanned
    <3>2. lines # <<>>
      OBVIOUS
    <3> QED BY <2>2, <3>1, <3>2, WindowsHoldMoments
  <2>3. analysis # None /\ analysis.engine = "model" =>
          /\ Len(asked) = Len(windows) /\ unscanned = {}
          /\ analysis.missing = missing
    BY DEF DoneInv
  <2> QED BY <2>1, <2>2, <2>3 DEF HolesAreNamed
<1> QED BY <1>1, DetectionInvariantHolds, PTL

\* Every response is counted once, with what it cost (Usage.record), however
\* many windows a transcript has.
THEOREM SpentTokensAreAlwaysCounted == Spec => []SpentTokensAreCounted
<1>1. BillInv => SpentTokensAreCounted
  BY DEF BillInv, SpentTokensAreCounted, Answered, Bills, Bill
<1> QED BY <1>1, DetectionInvariantHolds, PTL

\* merge_moments keeps moments in order and apart and drops one only for
\* another one that is as good, whatever the windows contributed.
THEOREM MergeAlwaysKeepsTheBest == Spec => []MergeKeepsTheBest
<1>1. RunInv /\ DoneInv => MergeKeepsTheBest
  <2> SUFFICES ASSUME RunInv, DoneInv, phase = "done", analysis.engine = "model"
               PROVE  LET kept == analysis.moments IN
                      /\ \A i, j \in DOMAIN kept : i < j => kept[i].end <= kept[j].start
                      /\ ToSet(kept) \subseteq ToSet(found)
                      /\ \A m \in ToSet(found) \ ToSet(kept) :
                           \E n \in ToSet(found) \ {m} : Overlap(m, n) /\ n.score >= m.score
    BY DEF MergeKeepsTheBest
  <2>1. analysis.moments = MergeMoments(found)
    BY DEF DoneInv
  <2>2. Kept(ToSet(found), MergeMoments(found))
    BY MergeMomentsKeeps DEF RunInv
  <2> QED BY <2>1, <2>2 DEF Kept, Apart, Outdone
<1> QED BY <1>1, DetectionInvariantHolds, PTL

=============================================================================
