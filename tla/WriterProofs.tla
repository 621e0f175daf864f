---------------------------- MODULE WriterProofs ----------------------------
(***************************************************************************)
(* What the operators of Writer compute, for texts and lists of any        *)
(* length.  The loops of writer.py are recursive functions over what they  *)
(* have visited; what holds of them is shown by induction over that        *)
(* length.                                                                 *)
(***************************************************************************)
EXTENDS Writer, SequenceTheorems, FiniteSetTheorems, WellFoundedInduction, TLAPS

----------------------------------------------------------------------------
(* Induction, and functions defined by recursion                           *)

LEMMA LeastNumber ==
  ASSUME NEW T \in SUBSET Nat, T # {}
  PROVE  \E n \in T : \A m \in T : n <= m
<1>1. PICK n \in T : \A m \in T : ~(<<m, n>> \in OpToRel(<, Nat))
  BY NatLessThanWellFounded, WFMin
<1>2. \A m \in T : ~(m < n)
  BY <1>1 DEF OpToRel
<1> QED
  BY <1>2

LEMMA GreatestNumber ==
  ASSUME NEW n \in Nat, NEW T \in SUBSET (1 .. n), T # {}
  PROVE  \E m \in T : \A k \in T : k <= m
<1> DEFINE U == {n - m : m \in T}
<1>1. U \in SUBSET Nat /\ U # {}
  <2>1. U \in SUBSET Nat
    OBVIOUS
  <2>2. PICK m : m \in T
    OBVIOUS
  <2>3. n - m \in U
    BY <2>2
  <2> QED
    BY <2>1, <2>3
<1> HIDE DEF U
<1>2. PICK u \in U : \A v \in U : u <= v
  BY <1>1, LeastNumber
<1>3. PICK m \in T : u = n - m
  BY DEF U
<1>4. ASSUME NEW k \in T PROVE k <= m
  <2>1. n - k \in U
    BY DEF U
  <2> QED
    BY <1>2, <1>3, <2>1
<1> QED
  BY <1>4

\* A set that has 0 and with each number the next has them all.
LEMMA SetInduction ==
  ASSUME NEW T, 0 \in T, \A n \in Nat : n \in T => n + 1 \in T
  PROVE  \A n \in Nat : n \in T
<1> SUFFICES ASSUME NEW k \in Nat, k \notin T PROVE FALSE
  OBVIOUS
<1> DEFINE U == {n \in Nat : n \notin T}
<1>1. PICK n \in U : \A m \in U : n <= m
  <2>1. U \in SUBSET Nat /\ U # {}
    OBVIOUS
  <2> HIDE DEF U
  <2> QED
    BY <2>1, LeastNumber
<1>2. n # 0 /\ n - 1 \in Nat
  BY <1>1
<1>3. n - 1 \in T
  BY <1>1, <1>2
<1> QED
  BY <1>1, <1>2, <1>3

\* The same up to a bound, as the loops need it.
LEMMA BoundedInduction ==
  ASSUME NEW N \in Nat, NEW T, 0 \in T, \A n \in 1 .. N : n - 1 \in T => n \in T
  PROVE  \A n \in 0 .. N : n \in T
<1> DEFINE U == {n \in Nat : n <= N => n \in T}
<1>1. 0 \in U
  OBVIOUS
<1>2. ASSUME NEW n \in Nat, n \in U PROVE n + 1 \in U
  <2> SUFFICES ASSUME n + 1 <= N PROVE n + 1 \in T
    OBVIOUS
  <2>1. n + 1 \in 1 .. N /\ (n + 1) - 1 = n /\ n \in T
    BY <1>2
  <2> QED
    BY <2>1
<1> HIDE DEF U
<1>3. \A n \in Nat : n \in U
  BY <1>1, <1>2, SetInduction
<1> QED
  BY <1>3 DEF U

\* f starts with a and goes on by step, up to N.
Follows(f, N, A, a, step) ==
    /\ f \in [0 .. N -> A]
    /\ f[0] = a
    /\ \A n \in 1 .. N : f[n] = step[<<n, f[n - 1]>>]

\* For any first value and any step there is a function that starts with the
\* one and goes on by the other.
LEMMA PrefixRecursion ==
  ASSUME NEW N \in Nat, NEW A, NEW a \in A, NEW step \in [(1 .. N) \X A -> A]
  PROVE  \E f : Follows(f, N, A, a, step)
<1> DEFINE Good(f, k) == /\ f \in [0 .. k -> A]
                         /\ f[0] = a
                         /\ \A n \in 1 .. k : f[n] = step[<<n, f[n - 1]>>]
           T == {k \in 0 .. N : \E f : Good(f, k)}
<1>1. 0 \in T
  <2> DEFINE f == [n \in 0 .. 0 |-> a]
  <2>1. Good(f, 0)
    OBVIOUS
  <2> HIDE DEF Good, f
  <2> QED
    BY <2>1
<1>2. ASSUME NEW k \in 1 .. N, k - 1 \in T PROVE k \in T
  <2>1. PICK f : Good(f, k - 1)
    BY <1>2
  <2> DEFINE g == [n \in 0 .. k |-> IF n = k THEN step[<<k, f[k - 1]>>] ELSE f[n]]
  <2>2. f[k - 1] \in A
    BY <2>1
  <2>3. g \in [0 .. k -> A]
    BY <2>1, <2>2
  <2>4. g[0] = a
    BY <2>1
  <2>5. ASSUME NEW n \in 1 .. k PROVE g[n] = step[<<n, g[n - 1]>>]
    <3>1. n - 1 \in 0 .. k /\ n - 1 # k /\ g[n - 1] = f[n - 1]
      OBVIOUS
    <3>2. CASE n = k
      <4>1. g[n] = step[<<k, f[k - 1]>>]
        BY <3>2
      <4> HIDE DEF g
      <4> QED
        BY <3>1, <3>2, <4>1
    <3>3. CASE n # k
      <4>1. n \in 1 .. (k - 1) /\ g[n] = f[n]
        BY <3>3
      <4> QED
        BY <2>1, <3>1, <4>1
    <3> QED
      BY <3>2, <3>3
  <2>6. Good(g, k)
    BY <2>3, <2>4, <2>5
  <2> HIDE DEF Good, g
  <2> QED
    BY <2>6
<1> HIDE DEF T
<1>3. N \in T
  BY <1>1, <1>2, BoundedInduction
<1> QED
  BY <1>3 DEF T, Follows

----------------------------------------------------------------------------
(* The loops over suggestions                                              *)

\* top is what FirstSeen has after each suggestion.
Visits(top, S, limit, said) ==
    /\ top \in [0 .. Len(said) -> Seq(S)]
    /\ top[0] = <<>>
    /\ \A n \in 1 .. Len(said) :
          top[n] = IF Len(top[n - 1]) = limit \/ Contains(top[n - 1], said[n])
                   THEN top[n - 1] ELSE Append(top[n - 1], said[n])
    /\ FirstSeen(limit, said) = top[Len(said)]

LEMMA FirstSeenSteps ==
  ASSUME NEW S, NEW said \in Seq(S), NEW limit
  PROVE  \E top : Visits(top, S, limit, said)
<1> DEFINE N == Len(said)
           A == Seq(S)
           none == <<>>
           Visit(n, r) == IF Len(r) = limit \/ Contains(r, said[n])
                          THEN r ELSE Append(r, said[n])
           step == [p \in (1 .. N) \X A |-> Visit(p[1], p[2])]
           Loop(f) == f = [n \in 0 .. N |-> IF n = 0 THEN none ELSE Visit(n, f[n - 1])]
<1>1. N \in Nat /\ none \in A
  OBVIOUS
<1>2. ASSUME NEW n \in 1 .. N, NEW r \in A PROVE Visit(n, r) \in A
  <2>1. said[n] \in S
    OBVIOUS
  <2> QED
    BY <2>1
<1> HIDE DEF Visit, N, A, none
<1>3. step \in [(1 .. N) \X A -> A]
  BY <1>2
<1>4. \A n \in 1 .. N : \A r \in A : step[<<n, r>>] = Visit(n, r)
  OBVIOUS
<1> HIDE DEF step
<1>5. PICK f : Follows(f, N, A, none, step)
  BY <1>1, <1>3, PrefixRecursion
<1>6. f \in [0 .. N -> A] /\ f[0] = none
  BY <1>5 DEF Follows
<1>7. ASSUME NEW n \in 1 .. N PROVE n - 1 \in 0 .. N /\ f[n] = Visit(n, f[n - 1])
  <2>1. n - 1 \in 0 .. N
    BY <1>1
  <2>2. f[n - 1] \in A /\ f[n] = step[<<n, f[n - 1]>>]
    BY <1>5, <1>6, <2>1 DEF Follows
  <2> QED
    BY <1>4, <2>1, <2>2
<1>8. Loop(f)
  <2> DEFINE g == [n \in 0 .. N |-> IF n = 0 THEN none ELSE Visit(n, f[n - 1])]
  <2>1. \A n \in 0 .. N : g[n] = f[n]
    BY <1>1, <1>6, <1>7
  <2> QED
    BY <1>6, <2>1
<1> DEFINE top == CHOOSE g : Loop(g)
<1>9. Loop(top)
  <2> HIDE DEF Loop
  <2> QED
    BY <1>8
<1>10. FirstSeen(limit, said) = top[N]
  BY DEF FirstSeen, Visit, N, none
<1> HIDE DEF top
<1>11. top[0] = none /\ \A n \in 1 .. N : top[n] = Visit(n, top[n - 1])
  BY <1>1, <1>9
<1>12. \A n \in 0 .. N : top[n] = f[n]
  <2> DEFINE T == {n \in 0 .. N : top[n] = f[n]}
  <2>1. 0 \in T
    BY <1>1, <1>6, <1>11
  <2>2. ASSUME NEW n \in 1 .. N, n - 1 \in T PROVE n \in T
    BY <1>1, <1>7, <1>11, <2>2
  <2> HIDE DEF T
  <2>3. \A n \in 0 .. N : n \in T
    BY <1>1, <2>1, <2>2, BoundedInduction
  <2> QED
    BY <2>3 DEF T
<1>13. FirstSeen(limit, said) = f[N]
  BY <1>1, <1>10, <1>12
<1>14. Visits(f, S, limit, said)
  BY <1>6, <1>7, <1>13 DEF N, A, none, Visit, Visits
<1> QED
  BY <1>14

\* r has what a loop with this limit has chosen from the first n suggestions:
\* no more than the limit, each of them where it was first said and after all
\* that was said before it, and everything if the limit leaves room.
Chosen(r, limit, said, n) ==
    /\ Len(r) <= limit
    /\ \A j \in 1 .. Len(r) : \E p \in 1 .. n :
          /\ said[p] = r[j]
          /\ \A q \in 1 .. p - 1 : \E i \in 1 .. j - 1 : r[i] = said[q]
    /\ \A i, j \in 1 .. Len(r) : r[i] = r[j] => i = j
    /\ Len(r) < limit => \A q \in 1 .. n : \E i \in 1 .. Len(r) : r[i] = said[q]

LEMMA ChosenStep ==
  ASSUME NEW S, NEW said \in Seq(S), NEW limit \in Nat, NEW n \in 1 .. Len(said),
         NEW r \in Seq(S), Chosen(r, limit, said, n - 1)
  PROVE  Chosen(IF Len(r) = limit \/ Contains(r, said[n]) THEN r ELSE Append(r, said[n]),
                limit, said, n)
<1>1. CASE Len(r) = limit
  <2>1. 1 .. n - 1 \subseteq 1 .. n /\ ~(Len(r) < limit)
    BY <1>1
  <2>2. Chosen(r, limit, said, n)
    BY <2>1 DEF Chosen
  <2> QED
    BY <1>1, <2>2
<1>2. CASE Len(r) # limit /\ Contains(r, said[n])
  <2>1. PICK k \in 1 .. Len(r) : r[k] = said[n]
    BY <1>2 DEF Contains
  <2>2. \A q \in 1 .. n : q = n \/ q \in 1 .. n - 1
    OBVIOUS
  <2>3. Len(r) < limit => \A q \in 1 .. n : \E i \in 1 .. Len(r) : r[i] = said[q]
    BY <2>1, <2>2 DEF Chosen
  <2>4. 1 .. n - 1 \subseteq 1 .. n
    OBVIOUS
  <2> QED
    BY <1>2, <2>3, <2>4 DEF Chosen
<1>3. CASE Len(r) # limit /\ ~Contains(r, said[n])
  <2> DEFINE t == Append(r, said[n])
  <2>1. said[n] \in S /\ t \in Seq(S) /\ Len(t) = Len(r) + 1
    OBVIOUS
  <2>2. \A j \in 1 .. Len(t) : \/ j = Len(r) + 1 /\ t[j] = said[n]
                               \/ j \in 1 .. Len(r) /\ t[j] = r[j]
    BY <2>1
  <2>3. \A i \in 1 .. Len(r) : t[i] = r[i] /\ i \in 1 .. Len(t) /\ r[i] # said[n]
    BY <1>3, <2>1 DEF Contains
  <2>4. t[Len(r) + 1] = said[n] /\ Len(r) + 1 \in 1 .. Len(t)
    BY <2>1
  <2> HIDE DEF t
  <2>5. Len(r) \in Nat /\ Len(r) < limit /\ Len(t) <= limit
    BY <1>3, <2>1 DEF Chosen
  <2>6. ASSUME NEW j \in 1 .. Len(t)
        PROVE  \E p \in 1 .. n :
                  /\ said[p] = t[j]
                  /\ \A q \in 1 .. p - 1 : \E i \in 1 .. j - 1 : t[i] = said[q]
    <3>1. CASE j = Len(r) + 1 /\ t[j] = said[n]
      <4>1. \A q \in 1 .. n - 1 : \E i \in 1 .. Len(r) : r[i] = said[q]
        BY <2>5 DEF Chosen
      <4>2. \A q \in 1 .. n - 1 : \E i \in 1 .. j - 1 : t[i] = said[q]
        BY <2>3, <2>5, <3>1, <4>1
      <4> QED
        BY <3>1, <4>2
    <3>2. CASE j \in 1 .. Len(r) /\ t[j] = r[j]
      <4>1. PICK p \in 1 .. n - 1 :
               /\ said[p] = r[j]
               /\ \A q \in 1 .. p - 1 : \E i \in 1 .. j - 1 : r[i] = said[q]
        BY <3>2 DEF Chosen
      <4>2. \A i \in 1 .. j - 1 : i \in 1 .. Len(r) /\ t[i] = r[i]
        BY <2>3, <2>5, <3>2
      <4>3. p \in 1 .. n
        OBVIOUS
      <4> QED
        BY <3>2, <4>1, <4>2, <4>3
    <3> QED
      BY <2>2, <3>1, <3>2
  <2>7. ASSUME NEW i \in 1 .. Len(t), NEW j \in 1 .. Len(t), t[i] = t[j]
        PROVE  i = j
    BY <2>2, <2>3, <2>7 DEF Chosen
  <2>8. \A q \in 1 .. n : \E i \in 1 .. Len(t) : t[i] = said[q]
    <3> SUFFICES ASSUME NEW q \in 1 .. n PROVE \E i \in 1 .. Len(t) : t[i] = said[q]
      OBVIOUS
    <3>1. CASE q = n
      BY <2>4, <3>1
    <3>2. CASE q # n
      <4>1. q \in 1 .. n - 1
        BY <3>2
      <4>2. PICK i \in 1 .. Len(r) : r[i] = said[q]
        BY <2>5, <4>1 DEF Chosen
      <4> QED
        BY <2>3, <4>2
    <3> QED
      BY <3>1, <3>2
  <2>9. Chosen(t, limit, said, n)
    BY <2>5, <2>6, <2>7, <2>8 DEF Chosen
  <2> QED
    BY <1>3, <2>9 DEF t
<1> QED
  BY <1>1, <1>2, <1>3

\* FirstSeen chooses, whatever was said and however much.
THEOREM FirstSeenChooses ==
  ASSUME NEW S, NEW said \in Seq(S), NEW limit \in Nat
  PROVE  /\ FirstSeen(limit, said) \in Seq(S)
         /\ Chosen(FirstSeen(limit, said), limit, said, Len(said))
<1>1. PICK top : Visits(top, S, limit, said)
  BY FirstSeenSteps
<1> DEFINE N == Len(said)
           T == {n \in 0 .. N : Chosen(top[n], limit, said, n)}
<1>2. N \in Nat /\ top \in [0 .. N -> Seq(S)] /\ FirstSeen(limit, said) = top[N]
  BY <1>1 DEF Visits
<1>3. 0 \in T
  <2>1. Chosen(<<>>, limit, said, 0)
    BY DEF Chosen
  <2>2. top[0] = <<>>
    BY <1>1 DEF Visits
  <2> QED
    BY <1>2, <2>1, <2>2
<1>4. ASSUME NEW n \in 1 .. N, n - 1 \in T PROVE n \in T
  <2>1. top[n - 1] \in Seq(S) /\ Chosen(top[n - 1], limit, said, n - 1)
    BY <1>2, <1>4
  <2>2. top[n] = IF Len(top[n - 1]) = limit \/ Contains(top[n - 1], said[n])
                 THEN top[n - 1] ELSE Append(top[n - 1], said[n])
    BY <1>1 DEF Visits
  <2>3. Chosen(top[n], limit, said, n)
    BY <2>1, <2>2, ChosenStep
  <2> QED
    BY <2>3
<1> HIDE DEF T, N
<1>5. N \in T
  <2>1. N \in Nat
    BY <1>2
  <2>2. \A n \in 0 .. N : n \in T
    BY <2>1, <1>3, <1>4, BoundedInduction
  <2> QED
    BY <2>1, <2>2
<1> QED
  BY <1>2, <1>5 DEF T, N

----------------------------------------------------------------------------
(* Texts                                                                   *)

\* STRING has all of these titles, but the provers are not told that a literal
\* is in STRING.
Titles == STRING \cup {Sections[k] : k \in 1 .. 8}
          \cup {"", "other", "s1", "s2", "s3", "s4"}

Lines == [mark : Marks, title : Titles]
Text == {t \in Seq(Lines) : t # <<>>}

LEMMA LineIs ==
  ASSUME NEW mark \in Marks, NEW title \in Titles
  PROVE  /\ Line(mark, title) \in Lines
         /\ Line(mark, title).mark = mark /\ Line(mark, title).title = title
  BY DEF Line, Lines

LEMMA SomeMarks ==
  /\ "empty" \in Marks /\ "blanks" \in Marks /\ "text" \in Marks /\ "-" \in Marks
  /\ "|" \in Marks /\ "escaped" \in Marks
  /\ "#" \in Marks /\ "##" \in Marks /\ "###" \in Marks
  BY DEF Marks, Headings

LEMMA SomeTitles ==
  "" \in Titles /\ "other" \in Titles /\ \A k \in 1 .. 8 : Sections[k] \in Titles
  BY DEF Titles

LEMMA LineFacts ==
  /\ Blank \in Lines /\ Words \in Lines
  /\ ~Visible(Blank) /\ Visible(Words) /\ ~Structural(Blank) /\ ~Structural(Words)
<1>1. /\ Blank \in Lines /\ Blank.mark = "empty"
      /\ Words \in Lines /\ Words.mark = "text"
  BY LineIs, SomeMarks, SomeTitles DEF Blank, Words
<1>2. ~Visible(Blank) /\ Visible(Words)
  BY <1>1 DEF Visible
<1>3. ~Structural(Blank) /\ ~Structural(Words)
  BY <1>1 DEF Structural, Headings
<1> QED
  BY <1>1, <1>2, <1>3

LEMMA TextFacts ==
  ASSUME NEW t \in Text
  PROVE  t \in Seq(Lines) /\ Len(t) \in Nat /\ Len(t) >= 1 /\ t[1] \in Lines
  BY DEF Text

\* The least and the greatest of the places in a text where something holds.
LEMMA MinOfPlaces ==
  ASSUME NEW n \in Nat, NEW T \in SUBSET (1 .. n), T # {}
  PROVE  Min(T) \in T /\ \A k \in T : Min(T) <= k
<1>1. T \in SUBSET Nat
  OBVIOUS
<1>2. \E k \in T : \A m \in T : k <= m
  BY <1>1, LeastNumber
<1> QED
  BY <1>2 DEF Min

LEMMA MaxOfPlaces ==
  ASSUME NEW n \in Nat, NEW T \in SUBSET (1 .. n), T # {}
  PROVE  Max(T) \in T /\ \A k \in T : k <= Max(T)
<1>1. \E m \in T : \A k \in T : m >= k
  <2>1. PICK m \in T : \A k \in T : k <= m
    BY GreatestNumber
  <2>2. \A k \in T : m >= k
    BY <2>1
  <2> QED
    BY <2>2
<1>2. Max(T) \in T /\ \A k \in T : Max(T) >= k
  BY <1>1 DEF Max
<1> QED
  BY <1>2

\* The visible lines of t are those of u, d lines further on.
Keeps(t, u, d) ==
    /\ \A j \in 1 .. Len(t) : Visible(t[j]) => j + d \in 1 .. Len(u) /\ u[j + d] = t[j]
    /\ \A j \in 1 .. Len(u) : Visible(u[j]) => j - d \in 1 .. Len(t) /\ t[j - d] = u[j]

LEMMA KeepsOn ==
  ASSUME NEW t \in Seq(Lines), NEW u \in Seq(Lines), NEW v \in Seq(Lines),
         NEW d \in Int, NEW e \in Int, Keeps(t, u, d), Keeps(u, v, e)
  PROVE  Keeps(t, v, d + e)
<1>1. ASSUME NEW j \in 1 .. Len(t), Visible(t[j])
      PROVE  j + (d + e) \in 1 .. Len(v) /\ v[j + (d + e)] = t[j]
  <2>1. j + d \in 1 .. Len(u) /\ u[j + d] = t[j]
    BY <1>1 DEF Keeps
  <2>2. (j + d) + e \in 1 .. Len(v) /\ v[(j + d) + e] = u[j + d]
    BY <1>1, <2>1 DEF Keeps
  <2>3. (j + d) + e = j + (d + e)
    OBVIOUS
  <2> QED
    BY <2>1, <2>2, <2>3
<1>2. ASSUME NEW j \in 1 .. Len(v), Visible(v[j])
      PROVE  j - (d + e) \in 1 .. Len(t) /\ t[j - (d + e)] = v[j]
  <2>1. j - e \in 1 .. Len(u) /\ u[j - e] = v[j]
    BY <1>2 DEF Keeps
  <2>2. (j - e) - d \in 1 .. Len(t) /\ t[(j - e) - d] = u[j - e]
    BY <1>2, <2>1 DEF Keeps
  <2>3. (j - e) - d = j - (d + e)
    OBVIOUS
  <2> QED
    BY <2>1, <2>2, <2>3
<1> QED
  BY <1>1, <1>2 DEF Keeps

\* LeftStrip takes empty lines from the front only.
LEMMA LeftStripKeeps ==
  ASSUME NEW t \in Seq(Lines)
  PROVE  LeftStrip(t) \in Seq(Lines) /\ \E d \in Int : Keeps(t, LeftStrip(t), d)
<1> DEFINE kept == {k \in DOMAIN t : t[k] # Blank}
           u == LeftStrip(t)
<1>1. Len(t) \in Nat /\ DOMAIN t = 1 .. Len(t) /\ kept \in SUBSET (1 .. Len(t))
  OBVIOUS
<1>2. CASE kept = {}
  <2>1. u = <<>>
    BY <1>2 DEF LeftStrip
  <2>2. \A j \in 1 .. Len(t) : ~Visible(t[j])
    BY <1>1, <1>2, LineFacts
  <2>3. Keeps(t, <<>>, 0)
    BY <2>2 DEF Keeps
  <2> QED
    BY <2>1, <2>3
<1>3. CASE kept # {}
  <2> DEFINE f == Min(kept)
  <2>1. f \in kept /\ \A k \in kept : f <= k
    <3> HIDE DEF kept
    <3> QED
      BY <1>1, <1>3, MinOfPlaces
  <2>2. u = SubSeq(t, f, Len(t))
    BY <1>3 DEF LeftStrip
  <2>3. \A j \in 1 .. Len(t) : Visible(t[j]) => j \in kept
    BY <1>1, LineFacts
  <2>4. f \in 1 .. Len(t)
    BY <1>1, <2>1
  <2> HIDE DEF f, kept, u
  <2>5. u \in Seq(Lines) /\ Len(u) = Len(t) - f + 1
        /\ \A j \in 1 .. Len(u) : u[j] = t[j + f - 1]
    BY <2>2, <2>4, <1>1
  <2>6. ASSUME NEW j \in 1 .. Len(t), Visible(t[j])
        PROVE  j + (1 - f) \in 1 .. Len(u) /\ u[j + (1 - f)] = t[j]
    <3>1. f <= j
      BY <2>1, <2>3, <2>6
    <3>2. j + (1 - f) \in 1 .. Len(u) /\ (j + (1 - f)) + f - 1 = j
      BY <1>1, <2>4, <2>5, <3>1
    <3> QED
      BY <2>5, <3>2
  <2>7. ASSUME NEW j \in 1 .. Len(u)
        PROVE  j - (1 - f) \in 1 .. Len(t) /\ t[j - (1 - f)] = u[j]
    <3>1. j - (1 - f) = j + f - 1 /\ j - (1 - f) \in 1 .. Len(t)
      BY <1>1, <2>4, <2>5
    <3> QED
      BY <2>5, <3>1
  <2>8. Keeps(t, u, 1 - f)
    BY <2>6, <2>7 DEF Keeps
  <2>9. 1 - f \in Int
    BY <2>4
  <2> QED
    BY <2>5, <2>8, <2>9 DEF u
<1> QED
  BY <1>2, <1>3

LEMMA ShownKeeps ==
  ASSUME NEW t \in Seq(Lines)
  PROVE  Shown(t) \in Text /\ Keeps(t, Shown(t), 0)
<1>1. CASE t = <<>>
  <2>1. Shown(t) = <<Blank>> /\ <<Blank>> \in Seq(Lines) /\ <<Blank>> # <<>>
    BY <1>1, LineFacts DEF Shown
  <2>2. Keeps(<<>>, <<Blank>>, 0)
    BY LineFacts DEF Keeps
  <2> QED
    BY <1>1, <2>1, <2>2 DEF Text
<1>2. CASE t # <<>>
  <2>1. Shown(t) = t
    BY <1>2 DEF Shown
  <2>2. Keeps(t, t, 0)
    BY DEF Keeps
  <2> QED
    BY <1>2, <2>1, <2>2 DEF Text
<1> QED
  BY <1>1, <1>2

\* RightStrip takes lines that do not show from the end only.
LEMMA RightStripKeeps ==
  ASSUME NEW t \in Seq(Lines)
  PROVE  /\ RightStrip(t) \in Seq(Lines) /\ Keeps(t, RightStrip(t), 0)
         /\ Len(t) > 0 /\ Visible(t[Len(t)]) => RightStrip(t) = t
<1> DEFINE kept == {k \in DOMAIN t : Visible(t[k])}
           u == RightStrip(t)
<1>1. Len(t) \in Nat /\ DOMAIN t = 1 .. Len(t) /\ kept \in SUBSET (1 .. Len(t))
  OBVIOUS
<1>2. CASE kept = {}
  <2>1. u = <<>>
    BY <1>2 DEF RightStrip
  <2>2. \A j \in 1 .. Len(t) : ~Visible(t[j])
    BY <1>1, <1>2
  <2>3. Keeps(t, <<>>, 0)
    BY <2>2 DEF Keeps
  <2>4. Len(t) > 0 => ~Visible(t[Len(t)])
    BY <1>1, <2>2
  <2> QED
    BY <2>1, <2>3, <2>4
<1>3. CASE kept # {}
  <2> DEFINE f == Max(kept)
  <2>1. f \in kept /\ \A k \in kept : k <= f
    <3> HIDE DEF kept
    <3> QED
      BY <1>1, <1>3, MaxOfPlaces
  <2>2. u = SubSeq(t, 1, f)
    BY <1>3 DEF RightStrip
  <2>3. \A j \in 1 .. Len(t) : Visible(t[j]) => j \in kept
    BY <1>1
  <2>4. f \in 1 .. Len(t)
    BY <1>1, <2>1
  <2> HIDE DEF f, kept, u
  <2>5. u \in Seq(Lines) /\ Len(u) = f /\ \A j \in 1 .. f : u[j] = t[j]
    BY <2>2, <2>4, <1>1
  <2>6. \A j \in 1 .. Len(t) : Visible(t[j]) => j \in 1 .. f
    BY <2>1, <2>3, <2>4
  <2>7. Keeps(t, u, 0)
    BY <1>1, <2>4, <2>5, <2>6 DEF Keeps
  <2>8. Visible(t[Len(t)]) => f = Len(t)
    <3> DEFINE n == Len(t)
    <3> SUFFICES ASSUME Visible(t[n]) PROVE f = n
      OBVIOUS
    <3>1. n \in Nat /\ f \in 1 .. n
      BY <1>1, <2>4
    <3>2. n \in 1 .. n => n \in 1 .. f
      BY <2>6
    <3> HIDE DEF n
    <3> QED
      BY <3>1, <3>2
  <2>9. Visible(t[Len(t)]) => u = t
    BY <1>1, <2>2, <2>8
  <2> QED
    BY <2>5, <2>7, <2>9 DEF u
<1> QED
  BY <1>2, <1>3

\* A text in a section starts two lines below it.
Wraps(w, heading, b) ==
    /\ w \in Text /\ Len(w) > 1
    /\ w[1] = Line("##", heading) /\ w[2] = Blank
    /\ \A j \in 2 .. Len(w) : Visible(w[j]) => j - 2 \in 1 .. Len(b) /\ b[j - 2] = w[j]
    /\ \A j \in 1 .. Len(b) : Visible(b[j]) => j + 2 \in 1 .. Len(w) /\ w[j + 2] = b[j]
    /\ Visible(b[Len(b)]) =>
          Len(w) = Len(b) + 2 /\ \A j \in 1 .. Len(b) : w[j + 2] = b[j]

LEMMA WrapSectionWraps ==
  ASSUME NEW heading \in Titles, NEW b \in Text
  PROVE  Wraps(WrapSection(heading, b), heading, b)
<1> DEFINE r == RightStrip(b)
           t == Shown(r)
           h == Line("##", heading)
           w == WrapSection(heading, b)
<1>1. /\ b \in Seq(Lines) /\ r \in Seq(Lines) /\ Keeps(b, r, 0)
      /\ Visible(b[Len(b)]) => r = b
  BY TextFacts, RightStripKeeps
<1>2. t \in Text /\ t \in Seq(Lines) /\ Keeps(r, t, 0)
  BY <1>1, ShownKeeps, TextFacts
<1>3. Keeps(b, t, 0 + 0)
  BY <1>1, <1>2, KeepsOn
<1>4. Visible(b[Len(b)]) => t = b
  BY <1>1 DEF Shown, Text
<1>5. h \in Lines /\ Blank \in Lines /\ ~Visible(Blank)
  BY LineIs, LineFacts, SomeMarks
<1>6. w = <<h, Blank>> \o t
  BY DEF WrapSection
<1> HIDE DEF r, t, h, w
<1>7. /\ w \in Seq(Lines) /\ Len(w) = Len(t) + 2 /\ Len(t) \in Nat
      /\ w[1] = h /\ w[2] = Blank
      /\ \A j \in 1 .. Len(t) : w[j + 2] = t[j]
      /\ \A j \in 3 .. Len(w) : w[j] = t[j - 2]
  BY <1>2, <1>5, <1>6
<1>8. ASSUME NEW j \in 2 .. Len(w), Visible(w[j])
      PROVE  j - 2 \in 1 .. Len(b) /\ b[j - 2] = w[j]
  <2>1. j \in 3 .. Len(w) /\ j - 2 \in 1 .. Len(t)
    BY <1>5, <1>7, <1>8
  <2>2. w[j] = t[j - 2] /\ Visible(t[j - 2]) /\ (j - 2) - (0 + 0) = j - 2
    BY <1>7, <1>8, <2>1
  <2> QED
    BY <1>3, <2>1, <2>2 DEF Keeps
<1>9. ASSUME NEW j \in 1 .. Len(b), Visible(b[j])
      PROVE  j + 2 \in 1 .. Len(w) /\ w[j + 2] = b[j]
  <2>1. j + (0 + 0) = j
    OBVIOUS
  <2>2. j \in 1 .. Len(t) /\ t[j] = b[j]
    BY <1>3, <1>9, <2>1 DEF Keeps
  <2> QED
    BY <1>7, <2>2
<1>10. w \in Text /\ Len(w) > 1
  BY <1>7 DEF Text
<1> QED
  BY <1>4, <1>7, <1>8, <1>9, <1>10 DEF Wraps, w, h

\* _strip_duplicate_heading takes the heading and empty lines around it.
LEMMA StripDuplicateHeadingKeeps ==
  ASSUME NEW body \in Text, NEW heading,
         NEW rest, rest = LeftStrip(body),
         NEW own, own = IF /\ rest # <<>> /\ rest[1].mark \in {"#", "##"}
                           /\ rest[1].title = heading
                        THEN Tail(rest) ELSE body
  PROVE  /\ own \in Seq(Lines)
         /\ StripDuplicateHeading(body, heading) \in Text
         /\ \E d \in Int : Keeps(own, StripDuplicateHeading(body, heading), d)
<1> DEFINE u == StripDuplicateHeading(body, heading)
<1>1. body \in Seq(Lines) /\ rest \in Seq(Lines)
  BY TextFacts, LeftStripKeeps
<1>2. CASE rest # <<>> /\ rest[1].mark \in {"#", "##"} /\ rest[1].title = heading
  <2>1. own = Tail(rest) /\ own \in Seq(Lines)
    BY <1>1, <1>2
  <2> DEFINE v == LeftStrip(own)
  <2>2. u = Shown(v)
    BY <1>2, <2>1 DEF StripDuplicateHeading
  <2>3. PICK d \in Int : Keeps(own, v, d)
    BY <2>1, LeftStripKeeps
  <2>4. v \in Seq(Lines)
    BY <2>1, LeftStripKeeps
  <2> HIDE DEF u, v
  <2>5. u \in Text /\ u \in Seq(Lines) /\ Keeps(v, u, 0)
    BY <2>2, <2>4, ShownKeeps, TextFacts
  <2>6. 0 \in Int /\ own \in Seq(Lines)
    BY <2>1
  <2>7. Keeps(own, u, d + 0)
    BY <2>3, <2>4, <2>5, <2>6, KeepsOn, Zenon
  <2>8. d + 0 \in Int
    OBVIOUS
  <2> QED
    BY <2>5, <2>6, <2>7, <2>8 DEF u
<1>3. CASE ~(rest # <<>> /\ rest[1].mark \in {"#", "##"} /\ rest[1].title = heading)
  <2>1. own = body /\ u = body
    BY <1>3 DEF StripDuplicateHeading
  <2>2. Keeps(body, body, 0)
    BY <1>1 DEF Keeps
  <2> HIDE DEF u
  <2>3. own \in Seq(Lines) /\ u \in Text /\ Keeps(own, u, 0)
    BY <1>1, <2>1, <2>2
  <2> QED
    BY <2>3 DEF u
<1> QED
  BY <1>2, <1>3

\* _escape_markdown_structural leaves no heading and no table row.
LEMMA EscapeMarkdownStructuralIs ==
  ASSUME NEW t \in Text, NEW u, u = EscapeMarkdownStructural(t)
  PROVE  /\ u \in Text /\ Len(u) = Len(t)
         /\ \A j \in 1 .. Len(t) :
               /\ u[j] \in {t[j], [t[j] EXCEPT !.mark = "escaped"]}
               /\ u[j].title = t[j].title /\ ~Structural(u[j])
               /\ u[j].mark = "-" => t[j].mark = "-"
<1>1. /\ t \in Seq(Lines) /\ Len(t) \in Nat /\ Len(t) >= 1 /\ DOMAIN t = 1 .. Len(t)
      /\ \A j \in 1 .. Len(t) : t[j] \in Lines
  BY TextFacts
<1>2. ASSUME NEW line \in Lines
      PROVE  LET e == [line EXCEPT !.mark = "escaped"] IN
             e \in Lines /\ e.title = line.title /\ ~Structural(e) /\ e.mark # "-"
  <2> DEFINE e == [line EXCEPT !.mark = "escaped"]
  <2>1. e.mark = "escaped" /\ e.title = line.title /\ e \in Lines
    BY SomeMarks DEF Lines
  <2>2. ~Structural(e) /\ e.mark # "-"
    BY <2>1 DEF Structural, Headings
  <2> QED
    BY <2>1, <2>2
<1> DEFINE Esc(line) == IF Structural(line) THEN [line EXCEPT !.mark = "escaped"] ELSE line
<1>3. \A line \in Lines :
        /\ Esc(line) \in Lines /\ Esc(line) \in {line, [line EXCEPT !.mark = "escaped"]}
        /\ Esc(line).title = line.title /\ ~Structural(Esc(line))
        /\ Esc(line).mark = "-" => line.mark = "-"
  BY <1>2
<1>4. u = [j \in 1 .. Len(t) |-> Esc(t[j])]
  BY <1>1 DEF EscapeMarkdownStructural
<1> HIDE DEF Esc
<1>5. u \in [1 .. Len(t) -> Lines]
  BY <1>1, <1>3, <1>4
<1>6. u \in Seq(Lines) /\ Len(u) = Len(t)
  BY <1>1, <1>5
<1>7. \A j \in 1 .. Len(t) : u[j] = Esc(t[j])
  BY <1>4
<1> QED
  BY <1>1, <1>3, <1>6, <1>7 DEF Text

LEMMA AfterIs ==
  ASSUME NEW mark \in Marks, NEW t \in Text, NEW u, u = After(mark, t)
  PROVE  /\ u \in Text /\ Len(u) = Len(t)
         /\ u[1] = Line(mark, t[1].title)
         /\ \A j \in 2 .. Len(t) : u[j] = t[j]
<1> DEFINE h == Line(mark, t[1].title)
<1>1. t \in Seq(Lines) /\ Len(t) \in Nat /\ Len(t) >= 1 /\ t[1] \in Lines
  BY TextFacts
<1>2. h \in Lines
  BY <1>1, LineIs DEF Lines
<1>3. u = <<h>> \o Tail(t)
  BY DEF After
<1> HIDE DEF h
<1>4. Tail(t) \in Seq(Lines) /\ Len(Tail(t)) = Len(t) - 1
      /\ \A j \in 1 .. Len(t) - 1 : Tail(t)[j] = t[j + 1]
  BY <1>1
<1>5. u \in Seq(Lines) /\ Len(u) = Len(t) /\ u[1] = h
      /\ \A j \in 2 .. Len(t) : u[j] = Tail(t)[j - 1]
  BY <1>1, <1>2, <1>3, <1>4
<1>6. \A j \in 2 .. Len(t) : u[j] = t[j]
  BY <1>1, <1>4, <1>5
<1> QED
  BY <1>1, <1>5, <1>6 DEF Text, h

\* The first line of an item starts with "- ", what follows does not look like
\* an item or a heading.
LEMMA ItemIs ==
  ASSUME NEW t \in Text, \A j \in 2 .. Len(t) : t[j].mark # "-",
         NEW u, u = After("-", EscapeMarkdownStructural(t))
  PROVE  /\ u \in Text
         /\ u[1].mark = "-" /\ u[1].title = t[1].title
         /\ \A j \in 2 .. Len(u) : u[j].mark # "-"
         /\ \A j \in 1 .. Len(u) : ~Structural(u[j])
<1> DEFINE e == EscapeMarkdownStructural(t)
<1>1. /\ e \in Text /\ Len(e) = Len(t)
      /\ \A j \in 1 .. Len(t) : /\ e[j].title = t[j].title /\ ~Structural(e[j])
                                /\ e[j].mark = "-" => t[j].mark = "-"
  BY EscapeMarkdownStructuralIs
<1>2. Len(t) \in Nat /\ Len(t) >= 1 /\ t[1] \in Lines
  BY TextFacts
<1>3. u = After("-", e)
  OBVIOUS
<1> HIDE DEF e
<1>4. /\ u \in Text /\ Len(u) = Len(e) /\ u[1] = Line("-", e[1].title)
      /\ \A j \in 2 .. Len(e) : u[j] = e[j]
  <2>1. "-" \in Marks /\ e \in Text
    BY <1>1, SomeMarks
  <2> QED
    BY <1>3, <2>1, AfterIs
<1>5. u[1].mark = "-" /\ u[1].title = t[1].title
  <2>1. e[1].title = t[1].title /\ t[1].title \in Titles
    BY <1>1, <1>2 DEF Lines
  <2> QED
    BY <1>4, <2>1, LineIs, SomeMarks
<1>6. ~Structural(u[1])
  BY <1>5 DEF Structural, Headings
<1>7. \A j \in 2 .. Len(u) : u[j].mark # "-" /\ ~Structural(u[j])
  BY <1>1, <1>2, <1>4
<1>8. \A j \in 1 .. Len(u) : j = 1 \/ j \in 2 .. Len(u)
  BY <1>1, <1>2, <1>4
<1> QED
  BY <1>4, <1>5, <1>6, <1>7, <1>8

----------------------------------------------------------------------------
(* Lists of suggestions                                                    *)

\* A suggestion whose lines after the first start no item.
Single(t) == t \in Text /\ \A j \in 2 .. Len(t) : t[j].mark # "-"

\* The items of a text are the first n of r, each where pos says, and no line
\* of it is a heading or a table row.
Listed(text, pos, r, n) ==
    /\ text \in Seq(Lines) /\ pos \in [1 .. n -> 1 .. Len(text)]
    /\ \A i \in 1 .. n : text[pos[i]].mark = "-" /\ text[pos[i]].title = r[i][1].title
    /\ \A i, k \in 1 .. n : i < k => pos[i] < pos[k]
    /\ \A j \in 1 .. Len(text) : text[j].mark = "-" => \E i \in 1 .. n : j = pos[i]
    /\ \A j \in 1 .. Len(text) : ~Structural(text[j])

LEMMA ListedStep ==
  ASSUME NEW r, NEW n \in Nat, n >= 1, Single(r[n]),
         NEW text, NEW pos, Listed(text, pos, r, n - 1)
  PROVE  \E p : Listed(text \o After("-", EscapeMarkdownStructural(r[n])), p, r, n)
<1> DEFINE u == After("-", EscapeMarkdownStructural(r[n]))
           m == Len(text)
           t == text \o u
           p == [i \in 1 .. n |-> IF i = n THEN m + 1 ELSE pos[i]]
<1>1. /\ u \in Text /\ u[1].mark = "-" /\ u[1].title = r[n][1].title
      /\ \A j \in 2 .. Len(u) : u[j].mark # "-"
      /\ \A j \in 1 .. Len(u) : ~Structural(u[j])
  <2>1. r[n] \in Text /\ \A j \in 2 .. Len(r[n]) : r[n][j].mark # "-"
    BY DEF Single
  <2> QED
    BY <2>1, ItemIs
<1> HIDE DEF u
<1>2. u \in Seq(Lines) /\ Len(u) \in Nat /\ Len(u) >= 1
  BY <1>1, TextFacts
<1>3. text \in Seq(Lines) /\ m \in Nat /\ pos \in [1 .. n - 1 -> 1 .. m]
  BY DEF Listed
<1>4. /\ t \in Seq(Lines) /\ Len(t) = m + Len(u)
      /\ \A j \in 1 .. m : t[j] = text[j]
      /\ \A j \in m + 1 .. m + Len(u) : t[j] = u[j - m]
  BY <1>2, <1>3
<1> HIDE DEF t
<1>5. \A i \in 1 .. n - 1 : i \in 1 .. n /\ p[i] = pos[i] /\ pos[i] \in 1 .. m
  BY <1>3
<1>6. p[n] = m + 1 /\ DOMAIN p = 1 .. n
  OBVIOUS
<1>7. \A i \in 1 .. n : i = n \/ i \in 1 .. n - 1
  OBVIOUS
<1>8. p \in [1 .. n -> 1 .. Len(t)]
  BY <1>2, <1>3, <1>4, <1>5, <1>7
<1> HIDE DEF p
<1>9. \A i \in 1 .. n : t[p[i]].mark = "-" /\ t[p[i]].title = r[i][1].title
  <2>1. m + 1 \in m + 1 .. m + Len(u) /\ (m + 1) - m = 1
    BY <1>2, <1>3
  <2>2. t[p[n]] = u[1]
    BY <1>4, <1>6, <2>1
  <2>3. \A i \in 1 .. n - 1 : t[p[i]] = text[pos[i]]
    BY <1>4, <1>5
  <2>4. \A i \in 1 .. n - 1 : text[pos[i]].mark = "-" /\ text[pos[i]].title = r[i][1].title
    BY DEF Listed
  <2> QED
    BY <1>1, <1>7, <2>2, <2>3, <2>4
<1>10. ASSUME NEW i \in 1 .. n, NEW k \in 1 .. n, i < k PROVE p[i] < p[k]
  <2>1. i \in 1 .. n - 1 /\ p[i] = pos[i] /\ pos[i] \in 1 .. m
    BY <1>5, <1>10
  <2>2. CASE k = n
    BY <1>3, <1>6, <2>1, <2>2
  <2>3. CASE k # n
    <3>1. k \in 1 .. n - 1 /\ p[k] = pos[k]
      BY <1>5, <1>7, <2>3
    <3> QED
      BY <1>10, <2>1, <3>1 DEF Listed
  <2> QED
    BY <2>2, <2>3
<1>11. \A j \in 1 .. Len(t) : \/ j \in 1 .. m /\ t[j] = text[j]
                              \/ j - m \in 1 .. Len(u) /\ t[j] = u[j - m]
  <2> SUFFICES ASSUME NEW j \in 1 .. Len(t)
               PROVE  \/ j \in 1 .. m /\ t[j] = text[j]
                      \/ j - m \in 1 .. Len(u) /\ t[j] = u[j - m]
    OBVIOUS
  <2>1. CASE j <= m
    BY <1>3, <1>4, <2>1
  <2>2. CASE ~(j <= m)
    <3>1. j \in m + 1 .. m + Len(u) /\ j - m \in 1 .. Len(u)
      BY <1>2, <1>3, <1>4, <2>2
    <3> QED
      BY <1>4, <3>1
  <2> QED
    BY <2>1, <2>2
<1>12. ASSUME NEW j \in 1 .. Len(t), t[j].mark = "-"
       PROVE  \E i \in 1 .. n : j = p[i]
  <2>1. CASE j \in 1 .. m /\ t[j] = text[j]
    <3>1. PICK i \in 1 .. n - 1 : j = pos[i]
      BY <1>12, <2>1 DEF Listed
    <3> QED
      BY <1>5, <3>1
  <2>2. CASE j - m \in 1 .. Len(u) /\ t[j] = u[j - m]
    <3>1. j - m = 1
      <4>1. j - m = 1 \/ j - m \in 2 .. Len(u)
        BY <1>2, <2>2
      <4> QED
        BY <1>1, <1>12, <2>2, <4>1
    <3>2. j = m + 1 /\ n \in 1 .. n
      BY <1>3, <3>1
    <3> QED
      BY <1>6, <3>2
  <2> QED
    BY <1>11, <2>1, <2>2
<1>13. \A j \in 1 .. Len(t) : ~Structural(t[j])
  BY <1>1, <1>11 DEF Listed
<1>14. Listed(t, p, r, n)
  BY <1>4, <1>8, <1>9, <1>10, <1>12, <1>13 DEF Listed
<1> QED
  BY <1>14 DEF t, u

\* top is what Bullets has after each suggestion.
Grows(top, r) ==
    /\ top[0] = <<>>
    /\ \A n \in 1 .. Len(r) :
          top[n] = top[n - 1] \o After("-", EscapeMarkdownStructural(r[n]))
    /\ Bullets(r) = top[Len(r)]

LEMMA BulletsSteps ==
  ASSUME NEW r \in Seq(Text)
  PROVE  \E top : Grows(top, r)
<1> DEFINE N == Len(r)
           A == Seq(Lines)
           none == <<>>
           Visit(n, t) == t \o After("-", EscapeMarkdownStructural(r[n]))
           step == [p \in (1 .. N) \X A |-> Visit(p[1], p[2])]
           Loop(f) == f = [n \in 0 .. N |-> IF n = 0 THEN none ELSE Visit(n, f[n - 1])]
<1>1. N \in Nat /\ none \in A
  OBVIOUS
<1>2. ASSUME NEW n \in 1 .. N, NEW t \in A PROVE Visit(n, t) \in A
  <2> DEFINE e == EscapeMarkdownStructural(r[n])
             u == After("-", e)
  <2>1. r[n] \in Text /\ "-" \in Marks
    BY SomeMarks
  <2>2. e \in Text
    BY <2>1, EscapeMarkdownStructuralIs
  <2> HIDE DEF e
  <2>3. u \in Text
    BY <2>1, <2>2, AfterIs
  <2> HIDE DEF u
  <2>4. t \o u \in Seq(Lines)
    BY <2>3, TextFacts
  <2> QED
    BY <2>4 DEF u, e
<1> HIDE DEF Visit, N, A, none
<1>3. step \in [(1 .. N) \X A -> A]
  BY <1>2
<1>4. \A n \in 1 .. N : \A t \in A : step[<<n, t>>] = Visit(n, t)
  OBVIOUS
<1> HIDE DEF step
<1>5. PICK f : Follows(f, N, A, none, step)
  BY <1>1, <1>3, PrefixRecursion
<1>6. f \in [0 .. N -> A] /\ f[0] = none
  BY <1>5 DEF Follows
<1>7. ASSUME NEW n \in 1 .. N PROVE n - 1 \in 0 .. N /\ f[n] = Visit(n, f[n - 1])
  <2>1. n - 1 \in 0 .. N
    BY <1>1
  <2>2. f[n - 1] \in A /\ f[n] = step[<<n, f[n - 1]>>]
    BY <1>5, <1>6, <2>1 DEF Follows
  <2> QED
    BY <1>4, <2>1, <2>2
<1>8. Loop(f)
  <2> DEFINE g == [n \in 0 .. N |-> IF n = 0 THEN none ELSE Visit(n, f[n - 1])]
  <2>1. \A n \in 0 .. N : g[n] = f[n]
    BY <1>1, <1>6, <1>7
  <2> QED
    BY <1>6, <2>1
<1> DEFINE top == CHOOSE g : Loop(g)
<1>9. Loop(top)
  <2> HIDE DEF Loop
  <2> QED
    BY <1>8
<1>10. Bullets(r) = top[N]
  BY DEF Bullets, Visit, N, none
<1> HIDE DEF top
<1>11. top[0] = none /\ \A n \in 1 .. N : top[n] = Visit(n, top[n - 1])
  BY <1>1, <1>9
<1>12. Grows(top, r)
  BY <1>10, <1>11 DEF N, none, Visit, Grows
<1> QED
  BY <1>12

\* Bullets lists every suggestion once, in their order.
LEMMA BulletsListed ==
  ASSUME NEW r \in Seq(Text), \A n \in 1 .. Len(r) : Single(r[n])
  PROVE  \E pos : Listed(Bullets(r), pos, r, Len(r))
<1>1. PICK top : Grows(top, r)
  BY BulletsSteps
<1> DEFINE N == Len(r)
           T == {n \in 0 .. N : \E pos : Listed(top[n], pos, r, n)}
<1>2. N \in Nat
  OBVIOUS
<1>3. 0 \in T
  <2>1. top[0] = <<>> /\ <<>> \in [1 .. 0 -> 1 .. 0]
    BY <1>1 DEF Grows
  <2>2. Listed(<<>>, <<>>, r, 0)
    BY <2>1 DEF Listed
  <2> QED
    BY <2>1, <2>2
<1>4. ASSUME NEW n \in 1 .. N, n - 1 \in T PROVE n \in T
  <2>1. PICK pos : Listed(top[n - 1], pos, r, n - 1)
    BY <1>4
  <2>2. n \in Nat /\ n >= 1 /\ Single(r[n])
    BY <1>2
  <2>3. \E p : Listed(top[n - 1] \o After("-", EscapeMarkdownStructural(r[n])), p, r, n)
    BY <2>1, <2>2, ListedStep
  <2>4. top[n] = top[n - 1] \o After("-", EscapeMarkdownStructural(r[n]))
    BY <1>1 DEF Grows
  <2>5. \E p : Listed(top[n], p, r, n)
    BY <2>3, <2>4
  <2> QED
    BY <2>5
<1> HIDE DEF T, N
<1>5. N \in T
  <2>1. \A n \in 0 .. N : n \in T
    BY <1>2, <1>3, <1>4, BoundedInduction
  <2> QED
    BY <1>2, <2>1
<1>6. Bullets(r) = top[N]
  BY <1>1 DEF Grows, N
<1> QED
  BY <1>5, <1>6 DEF T, N

----------------------------------------------------------------------------
(* Where the sections of a document are                                    *)

LEMMA Concatenation ==
  ASSUME NEW t \in Seq(Lines), NEW u \in Seq(Lines)
  PROVE  /\ t \o u \in Seq(Lines) /\ Len(t \o u) = Len(t) + Len(u)
         /\ Len(t) \in Nat /\ Len(u) \in Nat
         /\ \A j \in 1 .. Len(t) : (t \o u)[j] = t[j]
         /\ \A j \in 1 .. Len(u) : (t \o u)[Len(t) + j] = u[j]
  OBVIOUS

LEMMA Association ==
  ASSUME NEW t \in Seq(Lines), NEW u \in Seq(Lines), NEW v \in Seq(Lines)
  PROVE  (t \o u) \o v = t \o (u \o v)
  BY ConcatAssociative

LEMMA GapIs == Gap \in Seq(Lines) /\ Len(Gap) = 1 /\ Gap[1] = Blank
  BY LineFacts DEF Gap

\* A text has another from the line after this one on.
Has(text, t, d) ==
    \A j \in 1 .. Len(t) : d + j \in 1 .. Len(text) /\ text[d + j] = t[j]

\* The lines of t, an empty line and the lines of u.
IsJoined(text, t, u) ==
    /\ text \in Seq(Lines) /\ Len(text) = Len(t) + Len(u) + 1
    /\ Has(text, t, 0) /\ text[Len(t) + 1] = Blank /\ Has(text, u, Len(t) + 1)

LEMMA Joined ==
  ASSUME NEW t \in Seq(Lines), NEW u \in Seq(Lines)
  PROVE  IsJoined(t \o Gap \o u, t, u)
<1> DEFINE v == t \o Gap
           w == v \o u
<1>1. /\ v \in Seq(Lines) /\ Len(v) = Len(t) + Len(Gap) /\ Len(t) \in Nat
      /\ \A j \in 1 .. Len(t) : v[j] = t[j]
      /\ \A j \in 1 .. Len(Gap) : v[Len(t) + j] = Gap[j]
  BY GapIs, Concatenation
<1> HIDE DEF v
<1>2. /\ w \in Seq(Lines) /\ Len(w) = Len(v) + Len(u) /\ Len(u) \in Nat
      /\ \A j \in 1 .. Len(v) : w[j] = v[j]
      /\ \A j \in 1 .. Len(u) : w[Len(v) + j] = u[j]
  BY <1>1, Concatenation
<1> HIDE DEF w
<1>3. Len(v) = Len(t) + 1 /\ v[Len(t) + 1] = Blank
  BY <1>1, GapIs
<1>4. Has(w, t, 0)
  <2>1. \A j \in 1 .. Len(t) : 0 + j = j /\ j \in 1 .. Len(w) /\ w[j] = t[j]
    BY <1>1, <1>2, <1>3
  <2> QED
    BY <2>1 DEF Has
<1>5. w[Len(t) + 1] = Blank
  BY <1>1, <1>2, <1>3
<1>6. Has(w, u, Len(t) + 1)
  <2>1. \A j \in 1 .. Len(u) : Len(v) + j \in 1 .. Len(w) /\ w[Len(v) + j] = u[j]
    BY <1>1, <1>2, <1>3
  <2> QED
    BY <1>3, <2>1 DEF Has
<1>7. Len(w) = Len(t) + Len(u) + 1
  <2>1. Len(w) = (Len(t) + 1) + Len(u) /\ Len(t) \in Nat /\ Len(u) \in Nat
    BY <1>1, <1>2, <1>3
  <2> QED
    BY <2>1
<1>8. IsJoined(w, t, u)
  BY <1>2, <1>4, <1>5, <1>6, <1>7 DEF IsJoined
<1> QED
  BY <1>8 DEF w, v

\* Whichever two of three texts are joined first.
LEMMA JoinedRow ==
  ASSUME NEW t \in Seq(Lines), NEW u \in Seq(Lines), NEW v \in Seq(Lines)
  PROVE  t \o Gap \o (u \o Gap \o v) = (t \o Gap \o u) \o Gap \o v
<1> DEFINE Cat(x, y) == x \o y
           S == Seq(Lines)
<1>1. \A x, y \in S : Cat(x, y) \in S
  BY Concatenation
<1>2. \A x, y, z \in S : Cat(Cat(x, y), z) = Cat(x, Cat(y, z))
  BY Association
<1>3. Gap \in S /\ t \in S /\ u \in S /\ v \in S
  BY GapIs
<1> HIDE DEF S, Cat
<1>4. Cat(Cat(t, Gap), u) \in S /\ Cat(t, Gap) \in S /\ Cat(u, Gap) \in S
  BY <1>1, <1>3
<1>5. Cat(Cat(Cat(t, Gap), u), Gap) = Cat(Cat(t, Gap), Cat(u, Gap))
  BY <1>2, <1>3, <1>4
<1>6. Cat(Cat(Cat(t, Gap), Cat(u, Gap)), v) = Cat(Cat(t, Gap), Cat(Cat(u, Gap), v))
  BY <1>2, <1>3, <1>4
<1>7. Cat(Cat(t, Gap), Cat(Cat(u, Gap), v)) = Cat(Cat(Cat(Cat(t, Gap), u), Gap), v)
  BY <1>5, <1>6
<1> QED
  BY <1>7, Zenon DEF Cat

LEMMA HasOn ==
  ASSUME NEW w, NEW t, NEW u, NEW d \in Int, NEW e \in Int,
         Has(w, t, d), Has(t, u, e), Len(u) \in Nat
  PROVE  Has(w, u, d + e)
<1> SUFFICES ASSUME NEW j \in 1 .. Len(u)
             PROVE  (d + e) + j \in 1 .. Len(w) /\ w[(d + e) + j] = u[j]
  BY DEF Has
<1>1. e + j \in 1 .. Len(t) /\ t[e + j] = u[j]
  BY DEF Has
<1>2. d + (e + j) \in 1 .. Len(w) /\ w[d + (e + j)] = t[e + j]
  BY <1>1 DEF Has
<1>3. d + (e + j) = (d + e) + j
  OBVIOUS
<1> QED
  BY <1>1, <1>2, <1>3

\* The first n of eight sections, each after at[k] lines, with an empty line
\* between them.
Laid(text, n, section, at) ==
    /\ text \in Seq(Lines) /\ Len(text) = at[n] + Len(section[n])
    /\ \A k \in 1 .. n : Has(text, section[k], at[k])
    /\ \A k \in 1 .. n - 1 : /\ at[k] + Len(section[k]) + 1 \in 1 .. Len(text)
                             /\ text[at[k] + Len(section[k]) + 1] = Blank

Offsets(section, at) ==
    /\ section \in [1 .. 8 -> Seq(Lines)] /\ at \in [1 .. 8 -> Nat] /\ at[1] = 0
    /\ \A k \in 1 .. 7 : at[k + 1] = at[k] + Len(section[k]) + 1

LEMMA LaidStep ==
  ASSUME NEW section, NEW at, Offsets(section, at), NEW n \in 1 .. 7,
         NEW text, Laid(text, n, section, at),
         NEW w, IsJoined(w, text, section[n + 1])
  PROVE  Laid(w, n + 1, section, at)
<1> DEFINE s == section[n + 1]
           last == at[n] + Len(section[n]) + 1
<1>1. /\ n + 1 \in 1 .. 8 /\ n \in 1 .. 8 /\ (n + 1) - 1 = n /\ s \in Seq(Lines)
      /\ section[n] \in Seq(Lines) /\ at[n] \in Nat /\ at[n + 1] = last
  <2>1. n + 1 \in 1 .. 8 /\ n \in 1 .. 8 /\ (n + 1) - 1 = n
    OBVIOUS
  <2> QED
    BY <2>1 DEF Offsets
<1>2. text \in Seq(Lines) /\ Len(text) \in Nat /\ last = Len(text) + 1
  <2>1. Len(text) = at[n] + Len(section[n]) /\ text \in Seq(Lines)
    BY DEF Laid
  <2>2. Len(section[n]) \in Nat
    BY <1>1
  <2> QED
    BY <1>1, <2>1, <2>2
<1> HIDE DEF s, last
<1>3. /\ w \in Seq(Lines) /\ Len(w) = Len(text) + Len(s) + 1
      /\ Has(w, text, 0) /\ w[Len(text) + 1] = Blank /\ Has(w, s, Len(text) + 1)
  BY DEF IsJoined, s
<1>4. Has(w, s, at[n + 1]) /\ w[last] = Blank /\ Len(s) \in Nat
      /\ Len(w) = at[n + 1] + Len(s)
  BY <1>1, <1>2, <1>3
<1>5. \A k \in 1 .. n + 1 : Has(w, section[k], at[k])
  <2> SUFFICES ASSUME NEW k \in 1 .. n + 1 PROVE Has(w, section[k], at[k])
    OBVIOUS
  <2>1. CASE k = n + 1
    BY <1>4, <2>1 DEF s
  <2>2. CASE k # n + 1
    <3>1. k \in 1 .. n /\ k \in 1 .. 8
      BY <2>2
    <3>2. Has(text, section[k], at[k]) /\ at[k] \in Nat /\ section[k] \in Seq(Lines)
      BY <3>1 DEF Laid, Offsets
    <3>3. Len(section[k]) \in Nat /\ 0 + at[k] = at[k] /\ at[k] \in Int
      BY <3>2
    <3>4. Has(w, section[k], 0 + at[k])
      BY <1>3, <3>2, <3>3, HasOn
    <3> QED
      BY <3>3, <3>4
  <2> QED
    BY <2>1, <2>2
<1>6. ASSUME NEW k \in 1 .. n
      PROVE  /\ at[k] + Len(section[k]) + 1 \in 1 .. Len(w)
             /\ w[at[k] + Len(section[k]) + 1] = Blank
  <2> DEFINE j == at[k] + Len(section[k]) + 1
  <2>1. CASE k = n
    <3>1. j = last
      BY <2>1 DEF last
    <3> HIDE DEF j
    <3>2. j \in 1 .. Len(w) /\ w[j] = Blank
      BY <1>2, <1>3, <1>4, <3>1
    <3> QED
      BY <3>2 DEF j
  <2>2. CASE k # n
    <3>1. k \in 1 .. n - 1
      BY <2>2
    <3>2. j \in 1 .. Len(text) /\ text[j] = Blank
      BY <3>1 DEF Laid
    <3> HIDE DEF j
    <3>3. 0 + j = j /\ 0 + j \in 1 .. Len(w) /\ w[0 + j] = text[j]
      BY <1>2, <1>3, <3>2 DEF Has
    <3> QED
      BY <3>2, <3>3 DEF j
  <2> QED
    BY <2>1, <2>2
<1> QED
  BY <1>1, <1>3, <1>4, <1>5, <1>6 DEF Laid, s

LEMMA OffsetsExist ==
  ASSUME NEW section \in [1 .. 8 -> Seq(Lines)]
  PROVE  \E at : Offsets(section, at)
<1> DEFINE N == 7
           zero == 0
           step == [p \in (1 .. N) \X Nat |-> p[2] + Len(section[p[1]]) + 1]
<1>1. \A n \in 1 .. N : section[n] \in Seq(Lines) /\ Len(section[n]) \in Nat
  <2>1. \A n \in 1 .. N : n \in 1 .. 8
    OBVIOUS
  <2>2. \A t \in Seq(Lines) : Len(t) \in Nat
    OBVIOUS
  <2> QED
    BY <2>1, <2>2, Zenon
<1>2. N \in Nat /\ zero \in Nat /\ step \in [(1 .. N) \X Nat -> Nat]
  <2>0. \A a, b \in Nat : a + b + 1 \in Nat
    OBVIOUS
  <2>1. ASSUME NEW p \in (1 .. N) \X Nat
        PROVE  p[2] + Len(section[p[1]]) + 1 \in Nat
    <3>1. p[1] \in 1 .. N /\ p[2] \in Nat
      OBVIOUS
    <3>2. Len(section[p[1]]) \in Nat
      BY <1>1, <3>1
    <3> QED
      BY <2>0, <3>1, <3>2, Zenon
  <2> DEFINE value(p) == p[2] + Len(section[p[1]]) + 1
  <2>2. \A p \in (1 .. N) \X Nat : value(p) \in Nat
    BY <2>1
  <2> HIDE DEF value, N, zero
  <2>3. [p \in (1 .. N) \X Nat |-> value(p)] \in [(1 .. N) \X Nat -> Nat]
    BY <2>2, Zenon
  <2> QED
    BY <2>3 DEF value, N, zero
<1>3. \A n \in 1 .. N : \A m \in Nat : step[<<n, m>>] = m + Len(section[n]) + 1
  OBVIOUS
<1> HIDE DEF N, zero, step
<1>4. PICK f : Follows(f, N, Nat, zero, step)
  BY <1>2, PrefixRecursion
<1> DEFINE at == [k \in 1 .. 8 |-> f[k - 1]]
<1>5. /\ f \in [0 .. 7 -> Nat] /\ f[0] = 0
      /\ \A n \in 1 .. 7 : f[n] = step[<<n, f[n - 1]>>]
  BY <1>4 DEF Follows, N, zero
<1>6. at \in [1 .. 8 -> Nat] /\ at[1] = 0
  BY <1>5
<1>7. ASSUME NEW k \in 1 .. 7 PROVE at[k + 1] = at[k] + Len(section[k]) + 1
  <2>1. k + 1 \in 1 .. 8 /\ (k + 1) - 1 = k /\ k \in 1 .. 8 /\ k - 1 \in 0 .. 7
    OBVIOUS
  <2>2. at[k + 1] = f[k] /\ at[k] = f[k - 1] /\ f[k - 1] \in Nat
    BY <1>5, <2>1
  <2>3. f[k] = step[<<k, f[k - 1]>>]
    BY <1>5
  <2>4. k \in 1 .. N
    BY DEF N
  <2> QED
    BY <1>3, <2>2, <2>3, <2>4
<1> HIDE DEF at
<1>8. Offsets(section, at)
  BY <1>6, <1>7 DEF Offsets
<1> QED
  BY <1>8

\* Eight texts, as assemble_spec joins them and one after the other.
Nested(u1, u2, u3, u4, u5, u6, u7, u8) ==
    u1 \o Gap \o u2 \o Gap \o (u3 \o Gap \o u4 \o Gap \o u5 \o Gap \o u6 \o Gap \o u7)
    \o Gap \o u8

Row(u1, u2, u3, u4, u5, u6, u7, u8) ==
    u1 \o Gap \o u2 \o Gap \o u3 \o Gap \o u4 \o Gap \o u5 \o Gap \o u6 \o Gap \o u7
    \o Gap \o u8

LEMMA RowLaid ==
  ASSUME NEW section \in [1 .. 8 -> Seq(Lines)], NEW at, Offsets(section, at)
  PROVE  Laid(Row(section[1], section[2], section[3], section[4], section[5], section[6],
                  section[7], section[8]), 8, section, at)
<1> DEFINE t2 == section[1] \o Gap \o section[2]
           t3 == t2 \o Gap \o section[3]
           t4 == t3 \o Gap \o section[4]
           t5 == t4 \o Gap \o section[5]
           t6 == t5 \o Gap \o section[6]
           t7 == t6 \o Gap \o section[7]
           t8 == t7 \o Gap \o section[8]
<1>1. \A k \in 1 .. 8 : section[k] \in Seq(Lines)
  OBVIOUS
<1> HIDE DEF t2, t3, t4, t5, t6, t7, t8
<1>2. Laid(section[1], 1, section, at)
  <2>1. at[1] = 0 /\ section[1] \in Seq(Lines) /\ Len(section[1]) \in Nat
    BY <1>1 DEF Offsets
  <2>2. Has(section[1], section[1], 0)
    BY <2>1 DEF Has
  <2> QED
    BY <2>1, <2>2 DEF Laid
<1>3. ASSUME NEW n \in 1 .. 7, NEW text, Laid(text, n, section, at)
      PROVE  Laid(text \o Gap \o section[n + 1], n + 1, section, at)
  <2>1. text \in Seq(Lines)
    BY <1>3 DEF Laid
  <2>2. section[n + 1] \in Seq(Lines)
    BY <1>1
  <2>3. IsJoined(text \o Gap \o section[n + 1], text, section[n + 1])
    BY <2>1, <2>2, Joined
  <2> QED
    BY <1>3, <2>3, LaidStep
<1>4. Laid(t2, 1 + 1, section, at)
  BY <1>2, <1>3 DEF t2
<1>5. Laid(t3, 2 + 1, section, at)
  BY <1>3, <1>4 DEF t3
<1>6. Laid(t4, 3 + 1, section, at)
  BY <1>3, <1>5 DEF t4
<1>7. Laid(t5, 4 + 1, section, at)
  BY <1>3, <1>6 DEF t5
<1>8. Laid(t6, 5 + 1, section, at)
  BY <1>3, <1>7 DEF t6
<1>9. Laid(t7, 6 + 1, section, at)
  BY <1>3, <1>8 DEF t7
<1>10. Laid(t8, 7 + 1, section, at)
  BY <1>3, <1>9 DEF t8
<1> QED
  BY <1>10 DEF Row, t2, t3, t4, t5, t6, t7, t8

LEMMA OneRow ==
  ASSUME NEW f \in [1 .. 8 -> Seq(Lines)]
  PROVE  Nested(f[1], f[2], f[3], f[4], f[5], f[6], f[7], f[8])
         = Row(f[1], f[2], f[3], f[4], f[5], f[6], f[7], f[8])
<1> DEFINE r == f[1]
           s == f[2]
           t == f[3]
           u == f[4]
           v == f[5]
           w == f[6]
           x == f[7]
           y == f[8]
<1> DEFINE J(a, b) == a \o Gap \o b
           S == Seq(Lines)
<1>1. \A a, b \in S : J(a, b) \in S
  BY Joined DEF IsJoined
<1>2. \A a, b, c \in S : J(a, J(b, c)) = J(J(a, b), c)
  BY JoinedRow
<1>3. r \in S /\ s \in S /\ t \in S /\ u \in S /\ v \in S /\ w \in S /\ x \in S
  OBVIOUS
<1> HIDE DEF r, s, t, u, v, w, x, y
<1> HIDE DEF S, J
<1>4. J(r, s) \in S
  BY <1>1, <1>3
<1>5. J(t, u) \in S /\ J(J(r, s), J(t, u)) = J(J(J(r, s), t), u)
  BY <1>1, <1>2, <1>3, <1>4
<1>6. /\ J(J(t, u), v) \in S
      /\ J(J(r, s), J(J(t, u), v)) = J(J(J(J(r, s), t), u), v)
  BY <1>1, <1>2, <1>3, <1>4, <1>5
<1>7. /\ J(J(J(t, u), v), w) \in S
      /\ J(J(r, s), J(J(J(t, u), v), w)) = J(J(J(J(J(r, s), t), u), v), w)
  BY <1>1, <1>2, <1>3, <1>4, <1>6
<1>8. J(J(r, s), J(J(J(J(t, u), v), w), x)) = J(J(J(J(J(J(r, s), t), u), v), w), x)
  BY <1>2, <1>3, <1>4, <1>7
<1>9. Nested(r, s, t, u, v, w, x, y)
      = J(J(J(r, s), J(J(J(J(t, u), v), w), x)), y)
  BY Zenon DEF Nested, J
<1>10. Row(r, s, t, u, v, w, x, y) = J(J(J(J(J(J(J(r, s), t), u), v), w), x), y)
  BY Zenon DEF Row, J
<1>11. Nested(r, s, t, u, v, w, x, y) = Row(r, s, t, u, v, w, x, y)
  BY <1>8, <1>9, <1>10, Zenon
<1> QED
  BY <1>11, Zenon DEF r, s, t, u, v, w, x, y

----------------------------------------------------------------------------
(* What is in the sections                                                 *)

\* No line of a text is an item, a heading or a table row.
Quiet(t) == t \in Text /\ \A j \in 1 .. Len(t) : t[j].mark # "-" /\ ~Structural(t[j])

\* No line of a text is the heading of a section.
Plain(t) == t \in Text /\ \A j \in 1 .. Len(t) : t[j].mark \notin {"#", "##"}

LEMMA WordsAreQuiet == Quiet(<<Words>>)
<1>1. Words \in Lines /\ ~Structural(Words) /\ Words.mark # "-"
  <2>1. Words.mark = "text"
    BY LineIs, SomeMarks, SomeTitles DEF Words
  <2> QED
    BY <2>1, LineFacts
<1>2. <<Words>> \in Seq(Lines) /\ <<Words>> # <<>>
  BY <1>1
<1>3. \A j \in 1 .. Len(<<Words>>) : <<Words>>[j] = Words
  OBVIOUS
<1> QED
  BY <1>1, <1>2, <1>3 DEF Quiet, Text

\* Every line of a text joined from two is one of theirs or the empty one.
LEMMA JoinedLines ==
  ASSUME NEW t \in Text, NEW u \in Text, NEW w, IsJoined(w, t, u)
  PROVE  /\ w \in Text /\ Len(w) = Len(t) + Len(u) + 1
         /\ Len(t) \in Nat /\ Len(u) \in Nat
         /\ \A j \in 1 .. Len(w) :
               \/ j \in 1 .. Len(t) /\ w[j] = t[j]
               \/ j = Len(t) + 1 /\ w[j] = Blank
               \/ j - (Len(t) + 1) \in 1 .. Len(u) /\ w[j] = u[j - (Len(t) + 1)]
<1>1. Len(t) \in Nat /\ Len(u) \in Nat /\ Len(t) >= 1
  BY TextFacts
<1>2. w \in Seq(Lines) /\ Len(w) = Len(t) + Len(u) + 1
  BY DEF IsJoined
<1>3. ASSUME NEW j \in 1 .. Len(w)
      PROVE  \/ j \in 1 .. Len(t) /\ w[j] = t[j]
             \/ j = Len(t) + 1 /\ w[j] = Blank
             \/ j - (Len(t) + 1) \in 1 .. Len(u) /\ w[j] = u[j - (Len(t) + 1)]
  <2>1. CASE j <= Len(t)
    <3>1. j \in 1 .. Len(t) /\ 0 + j = j
      BY <1>1, <1>2, <2>1
    <3>2. w[0 + j] = t[j]
      BY <3>1 DEF IsJoined, Has
    <3> QED
      BY <3>1, <3>2
  <2>2. CASE j = Len(t) + 1
    BY <2>2 DEF IsJoined
  <2>3. CASE j > Len(t) + 1
    <3> DEFINE i == j - (Len(t) + 1)
    <3>1. i \in 1 .. Len(u) /\ (Len(t) + 1) + i = j
      BY <1>1, <1>2, <2>3
    <3> HIDE DEF i
    <3>2. w[(Len(t) + 1) + i] = u[i]
      BY <3>1 DEF IsJoined, Has
    <3> QED
      BY <3>1, <3>2 DEF i
  <2> QED
    BY <1>1, <1>2, <2>1, <2>2, <2>3
<1>4. w # <<>>
  BY <1>1, <1>2
<1> QED
  BY <1>1, <1>2, <1>3, <1>4 DEF Text

LEMMA QuietJoined ==
  ASSUME NEW t, NEW u, Quiet(t), Quiet(u)
  PROVE  Quiet(t \o Gap \o u)
<1> DEFINE w == t \o Gap \o u
<1>1. t \in Text /\ u \in Text /\ t \in Seq(Lines) /\ u \in Seq(Lines)
  BY TextFacts DEF Quiet
<1>2. IsJoined(w, t, u)
  BY <1>1, Joined
<1> HIDE DEF w
<1>3. w \in Text /\ \A j \in 1 .. Len(w) :
         \/ j \in 1 .. Len(t) /\ w[j] = t[j]
         \/ j = Len(t) + 1 /\ w[j] = Blank
         \/ j - (Len(t) + 1) \in 1 .. Len(u) /\ w[j] = u[j - (Len(t) + 1)]
  BY <1>1, <1>2, JoinedLines
<1>4. Blank.mark # "-" /\ ~Structural(Blank)
  <2>1. Blank.mark = "empty"
    BY LineIs, SomeMarks, SomeTitles DEF Blank
  <2> QED
    BY <2>1, LineFacts
<1>5. Quiet(w)
  BY <1>3, <1>4 DEF Quiet
<1> QED
  BY <1>5 DEF w

LEMMA PlainJoined ==
  ASSUME NEW t, NEW u, Plain(t), Plain(u)
  PROVE  Plain(t \o Gap \o u)
<1> DEFINE w == t \o Gap \o u
<1>1. t \in Text /\ u \in Text /\ t \in Seq(Lines) /\ u \in Seq(Lines)
  BY TextFacts DEF Plain
<1>2. IsJoined(w, t, u)
  BY <1>1, Joined
<1> HIDE DEF w
<1>3. w \in Text /\ \A j \in 1 .. Len(w) :
         \/ j \in 1 .. Len(t) /\ w[j] = t[j]
         \/ j = Len(t) + 1 /\ w[j] = Blank
         \/ j - (Len(t) + 1) \in 1 .. Len(u) /\ w[j] = u[j - (Len(t) + 1)]
  BY <1>1, <1>2, JoinedLines
<1>4. Blank.mark \notin {"#", "##"}
  <2>1. Blank.mark = "empty"
    BY LineIs, SomeMarks, SomeTitles DEF Blank
  <2> QED
    BY <2>1
<1>5. Plain(w)
  BY <1>3, <1>4 DEF Plain
<1> QED
  BY <1>5 DEF w

LEMMA QuietIsPlain ==
  ASSUME NEW t, Quiet(t)
  PROVE  Plain(t)
  BY DEF Quiet, Plain, Structural, Headings

\* A list goes on as it was when quiet text is put before it.
LEMMA ListedAfter ==
  ASSUME NEW t, Quiet(t), NEW u \in Text, NEW pos, NEW r, NEW n \in Nat,
         Listed(u, pos, r, n)
  PROVE  \E p : Listed(t \o Gap \o u, p, r, n)
<1> DEFINE w == t \o Gap \o u
           d == Len(t) + 1
           p == [i \in 1 .. n |-> d + pos[i]]
<1>1. t \in Text /\ t \in Seq(Lines) /\ u \in Seq(Lines)
  BY TextFacts DEF Quiet
<1>2. IsJoined(w, t, u)
  BY <1>1, Joined
<1> HIDE DEF w
<1>3. /\ w \in Text /\ w \in Seq(Lines) /\ Len(w) = Len(t) + Len(u) + 1
      /\ Len(t) \in Nat /\ Len(u) \in Nat
      /\ \A j \in 1 .. Len(w) :
            \/ j \in 1 .. Len(t) /\ w[j] = t[j]
            \/ j = Len(t) + 1 /\ w[j] = Blank
            \/ j - d \in 1 .. Len(u) /\ w[j] = u[j - d]
  BY <1>1, <1>2, JoinedLines, TextFacts
<1>4. Blank.mark # "-" /\ ~Structural(Blank)
  <2>1. Blank.mark = "empty"
    BY LineIs, SomeMarks, SomeTitles DEF Blank
  <2> QED
    BY <2>1, LineFacts
<1>5. d \in Nat /\ Len(w) = d + Len(u)
  BY <1>3
<1>6. Has(w, u, d)
  BY <1>2 DEF IsJoined
<1> HIDE DEF d
<1>7. \A i \in 1 .. n : pos[i] \in 1 .. Len(u) /\ p[i] = d + pos[i]
  BY DEF Listed
<1>8. p \in [1 .. n -> 1 .. Len(w)]
  <2>1. \A i \in 1 .. n : pos[i] \in 1 .. Len(u)
    BY <1>7
  <2>2. \A i \in 1 .. Len(u) : d + i \in 1 .. Len(w)
    BY <1>3, <1>5
  <2> QED
    BY <2>1, <2>2, Zenon
<1> HIDE DEF p
<1>9. \A i \in 1 .. n : w[p[i]].mark = "-" /\ w[p[i]].title = r[i][1].title
  <2>1. \A j \in 1 .. Len(u) : w[d + j] = u[j]
    BY <1>6 DEF Has
  <2>2. \A i \in 1 .. n : w[p[i]] = u[pos[i]]
    BY <1>7, <2>1
  <2> QED
    BY <2>2 DEF Listed
<1>10. \A i, k \in 1 .. n : i < k => p[i] < p[k]
  <2> SUFFICES ASSUME NEW i \in 1 .. n, NEW k \in 1 .. n, i < k PROVE p[i] < p[k]
    OBVIOUS
  <2>1. pos[i] < pos[k] /\ pos[i] \in Int /\ pos[k] \in Int
    BY <1>7 DEF Listed
  <2> QED
    BY <1>5, <1>7, <2>1
<1>11. ASSUME NEW j \in 1 .. Len(w), w[j].mark = "-"
       PROVE  \E i \in 1 .. n : j = p[i]
  <2>1. j - d \in 1 .. Len(u) /\ w[j] = u[j - d]
    BY <1>3, <1>4, <1>11 DEF Quiet
  <2>2. PICK i \in 1 .. n : j - d = pos[i]
    BY <1>11, <2>1 DEF Listed
  <2>3. j = d + pos[i]
    BY <1>5, <1>7, <2>2
  <2> QED
    BY <1>7, <2>3
<1>12. \A j \in 1 .. Len(w) : ~Structural(w[j])
  BY <1>3, <1>4 DEF Quiet, Listed
<1>13. Listed(w, p, r, n)
  BY <1>3, <1>8, <1>9, <1>10, <1>11, <1>12 DEF Listed
<1> QED
  BY <1>13 DEF w

LEMMA QuietIsListed ==
  ASSUME NEW t, Quiet(t)
  PROVE  \E p : Listed(t, p, <<>>, 0)
<1>1. t \in Seq(Lines)
  BY TextFacts DEF Quiet
<1>2. <<>> \in [1 .. 0 -> 1 .. Len(t)]
  OBVIOUS
<1>3. Listed(t, <<>>, <<>>, 0)
  BY <1>1, <1>2 DEF Listed, Quiet
<1> QED
  BY <1>3

\* Suggestions listed below quiet text.
LEMMA BulletsBelow ==
  ASSUME NEW t, Quiet(t), NEW r \in Seq(Text), r # <<>>,
         \A n \in 1 .. Len(r) : Single(r[n])
  PROVE  /\ t \o Gap \o Bullets(r) \in Text
         /\ \E p : Listed(t \o Gap \o Bullets(r), p, r, Len(r))
<1> DEFINE u == Bullets(r)
           w == t \o Gap \o u
<1>1. PICK pos : Listed(u, pos, r, Len(r))
  BY BulletsListed
<1> HIDE DEF u
<1>2. Len(r) \in Nat /\ 1 \in 1 .. Len(r)
  OBVIOUS
<1>3. u \in Text
  <2>1. u \in Seq(Lines) /\ pos[1] \in 1 .. Len(u)
    BY <1>1, <1>2 DEF Listed
  <2>2. u # <<>>
    BY <2>1
  <2> QED
    BY <2>1, <2>2 DEF Text
<1>4. \E p : Listed(w, p, r, Len(r))
  BY <1>1, <1>2, <1>3, ListedAfter
<1>5. t \in Text /\ t \in Seq(Lines) /\ u \in Seq(Lines)
  BY <1>3, TextFacts DEF Quiet
<1>6. IsJoined(w, t, u)
  BY <1>5, Joined
<1>7. w \in Text
  <2> HIDE DEF w
  <2> QED
    BY <1>3, <1>5, <1>6, JoinedLines
<1> QED
  BY <1>4, <1>7 DEF u

\* _render_gate_fail_block lists the first two suggestions.
LEMMA RenderGateFailBlockIs ==
  ASSUME NEW lists, NEW r \in Seq(Text), r = TopSuggestions(2, lists),
         \A n \in 1 .. Len(r) : Single(r[n])
  PROVE  /\ RenderGateFailBlock(lists) \in Text
         /\ \E p : Listed(RenderGateFailBlock(lists), p, r, Len(r))
<1> DEFINE w2 == <<Words>> \o Gap \o <<Words>>
           w3 == w2 \o Gap \o <<Words>>
<1>1. Quiet(w2)
  BY WordsAreQuiet, QuietJoined
<1>2. Quiet(w3)
  <2> HIDE DEF w2
  <2> QED
    BY <1>1, WordsAreQuiet, QuietJoined
<1>3. CASE r = <<>>
  <2>1. RenderGateFailBlock(lists) = w2
    BY <1>3 DEF RenderGateFailBlock
  <2> HIDE DEF w2
  <2>2. w2 \in Text /\ \E p : Listed(w2, p, <<>>, 0)
    BY <1>1, QuietIsListed DEF Quiet
  <2>3. Len(<<>>) = 0
    OBVIOUS
  <2> QED
    BY <1>3, <2>1, <2>2, <2>3
<1>4. CASE r # <<>>
  <2>1. RenderGateFailBlock(lists) = w3 \o Gap \o Bullets(r)
    BY <1>4 DEF RenderGateFailBlock
  <2> HIDE DEF w3
  <2> QED
    BY <1>2, <1>4, <2>1, BulletsBelow
<1> QED
  BY <1>3, <1>4

\* _render_implementation_steps lists them all.
LEMMA RenderImplementationStepsIs ==
  ASSUME NEW lists, NEW r \in Seq(Text), r = MergedSuggestions(lists),
         \A n \in 1 .. Len(r) : Single(r[n])
  PROVE  \E b \in Text :
            /\ RenderImplementationSteps(lists) = WrapSection("Implementation Steps", b)
            /\ \E p : Listed(b, p, r, Len(r))
<1> DEFINE w1 == <<Words>>
           w2 == w1 \o Gap \o <<Words>>
<1>1. CASE r = <<>>
  <2>1. RenderImplementationSteps(lists) = WrapSection("Implementation Steps", w1)
    BY <1>1 DEF RenderImplementationSteps
  <2>2. Quiet(w1)
    BY WordsAreQuiet
  <2> HIDE DEF w1
  <2>3. w1 \in Text /\ \E p : Listed(w1, p, <<>>, 0)
    BY <2>2, QuietIsListed DEF Quiet
  <2>4. Len(<<>>) = 0
    OBVIOUS
  <2> QED
    BY <1>1, <2>1, <2>3, <2>4
<1>2. CASE r # <<>>
  <2> DEFINE b == w2 \o Gap \o Bullets(r)
  <2>1. RenderImplementationSteps(lists) = WrapSection("Implementation Steps", b)
    BY <1>2 DEF RenderImplementationSteps
  <2>2. Quiet(w2)
    BY WordsAreQuiet, QuietJoined
  <2> HIDE DEF w2
  <2>3. b \in Text /\ \E p : Listed(b, p, r, Len(r))
    BY <1>2, <2>2, BulletsBelow
  <2> HIDE DEF b
  <2> QED
    BY <2>1, <2>3
<1> QED
  BY <1>1, <1>2

\* What _render_story writes: the title and the description of the story, with
\* a backslash where they need one, and no heading.
LEMMA RenderStoryIs ==
  ASSUME NEW story, story.id \in Text, story.title \in Text, story.description \in Text
  PROVE  \E b \in Text :
            /\ RenderStory(story) = WrapSection("Story", b)
            /\ Plain(b) /\ Visible(b[Len(b)])
            /\ \E d, e \in Nat :
                  /\ Has(b, After("text", EscapeMarkdownStructural(story.title)), d)
                  /\ Has(b, EscapeMarkdownStructural(story.description), e)
                  /\ d + Len(story.title) + 1 < e
<1> DEFINE A == After("text", EscapeMarkdownStructural(story.id))
           B == After("text", EscapeMarkdownStructural(story.title))
           E == EscapeMarkdownStructural(story.description)
           W == <<Words>>
           t1 == A \o Gap \o B
           t2 == t1 \o Gap \o W
           t3 == t2 \o Gap \o E
           t4 == t3 \o Gap \o W
           t5 == t4 \o Gap \o W
           t6 == t5 \o Gap \o W
<1>1. RenderStory(story) = WrapSection("Story", t6)
  BY DEF RenderStory
<1>2. ASSUME NEW t \in Text
      PROVE  /\ Plain(EscapeMarkdownStructural(t))
             /\ Len(EscapeMarkdownStructural(t)) = Len(t)
             /\ Plain(After("text", EscapeMarkdownStructural(t)))
             /\ Len(After("text", EscapeMarkdownStructural(t))) = Len(t)
  <2> DEFINE e == EscapeMarkdownStructural(t)
             u == After("text", e)
  <2>1. e \in Text /\ Len(e) = Len(t) /\ \A j \in 1 .. Len(t) : ~Structural(e[j])
    BY EscapeMarkdownStructuralIs
  <2> HIDE DEF e
  <2>2. "text" \in Marks
    BY SomeMarks
  <2>3. /\ u \in Text /\ Len(u) = Len(e) /\ u[1] = Line("text", e[1].title)
        /\ \A j \in 2 .. Len(e) : u[j] = e[j]
    BY <2>1, <2>2, AfterIs
  <2> HIDE DEF u
  <2>4. Plain(e)
    BY <2>1 DEF Plain, Structural, Headings
  <2>5. u[1].mark \notin {"#", "##"}
    <3>1. e[1].title \in Titles
      BY <2>1, TextFacts DEF Lines
    <3>2. u[1].mark = "text"
      BY <2>2, <2>3, <3>1, LineIs
    <3> QED
      BY <3>2
  <2>6. Plain(u)
    <3>1. \A j \in 1 .. Len(u) : j = 1 \/ j \in 2 .. Len(u)
      BY <2>3, TextFacts
    <3>2. \A j \in 2 .. Len(u) : j \in 1 .. Len(e)
      BY <2>1, <2>3, TextFacts
    <3> QED
      BY <2>3, <2>4, <2>5, <3>1, <3>2 DEF Plain
  <2> QED
    BY <2>1, <2>3, <2>4, <2>6 DEF u, e
<1>3. /\ Plain(A) /\ Plain(B) /\ Plain(E) /\ Plain(W) /\ Len(W) = 1 /\ W[1] = Words
      /\ Len(B) = Len(story.title)
  BY <1>2, WordsAreQuiet, QuietIsPlain
<1> HIDE DEF A, B, E, W
<1>4. \A x, y : Plain(x) /\ Plain(y) =>
        LET z == x \o Gap \o y IN
        /\ Plain(z) /\ IsJoined(z, x, y) /\ z \in Text /\ x \in Seq(Lines) /\ y \in Seq(Lines)
        /\ Len(x) \in Nat /\ Len(y) \in Nat /\ Len(x) >= 1
  BY PlainJoined, Joined, TextFacts DEF Plain
<1>5. Plain(t1) /\ IsJoined(t1, A, B)
  BY <1>3, <1>4
<1> HIDE DEF t1
<1>6. Plain(t2) /\ IsJoined(t2, t1, W)
  BY <1>3, <1>4, <1>5
<1> HIDE DEF t2
<1>7. Plain(t3) /\ IsJoined(t3, t2, E)
  BY <1>3, <1>4, <1>6
<1> HIDE DEF t3
<1>8. Plain(t4) /\ IsJoined(t4, t3, W)
  BY <1>3, <1>4, <1>7
<1> HIDE DEF t4
<1>9. Plain(t5) /\ IsJoined(t5, t4, W)
  BY <1>3, <1>4, <1>8
<1> HIDE DEF t5
<1>10. Plain(t6) /\ IsJoined(t6, t5, W)
  BY <1>3, <1>4, <1>9
<1> HIDE DEF t6
<1>11. \A x : Plain(x) => x \in Text /\ x \in Seq(Lines) /\ Len(x) \in Nat /\ Len(x) >= 1
  BY TextFacts DEF Plain
<1> DEFINE d == Len(A) + 1
           e == Len(t2) + 1
<1>12. d \in Nat /\ e \in Nat /\ d + Len(story.title) + 1 < e
  <2>1. /\ Len(A) \in Nat /\ Len(B) \in Nat
        /\ Len(t1) = Len(A) + Len(B) + 1 /\ Len(t2) = Len(t1) + Len(W) + 1
    BY <1>3, <1>5, <1>6, <1>11 DEF IsJoined
  <2>2. Len(t2) = ((Len(A) + Len(B) + 1) + 1) + 1 /\ Len(story.title) = Len(B)
    BY <1>3, <2>1
  <2> HIDE DEF d, e
  <2>3. d = Len(A) + 1 /\ e = Len(t2) + 1
    BY DEF d, e
  <2> QED
    BY <2>1, <2>2, <2>3
<1>13. Has(t1, B, d) /\ Has(t2, t1, 0) /\ Has(t3, t2, 0) /\ Has(t4, t3, 0)
       /\ Has(t5, t4, 0) /\ Has(t6, t5, 0) /\ Has(t3, E, e)
  BY <1>5, <1>6, <1>7, <1>8, <1>9, <1>10 DEF IsJoined
<1> HIDE DEF d, e
<1>14. \A x, y, z : \A i \in Nat :
          Plain(z) /\ Has(x, y, 0) /\ Has(y, z, i) => Has(x, z, i)
  <2> SUFFICES ASSUME NEW x, NEW y, NEW z, NEW i \in Nat,
                      Plain(z), Has(x, y, 0), Has(y, z, i)
               PROVE  Has(x, z, i)
    OBVIOUS
  <2>1. Has(x, z, 0 + i)
    BY <1>11, HasOn
  <2>2. 0 + i = i
    OBVIOUS
  <2> QED
    BY <2>1, <2>2
<1>15. Has(t6, B, d)
  BY <1>3, <1>12, <1>13, <1>14
<1>16. Has(t6, E, e)
  BY <1>3, <1>12, <1>13, <1>14
<1>17. Visible(t6[Len(t6)])
  <2>1. 1 \in 1 .. Len(W) /\ Len(t6) = (Len(t5) + 1) + 1
    BY <1>3, <1>9, <1>10, <1>11 DEF IsJoined
  <2>2. t6[(Len(t5) + 1) + 1] = W[1]
    BY <1>10, <2>1 DEF IsJoined, Has
  <2> QED
    BY <1>3, <2>1, <2>2, LineFacts
<1> QED
  BY <1>1, <1>10, <1>11, <1>12, <1>15, <1>16, <1>17 DEF B, E

----------------------------------------------------------------------------
(* The document                                                            *)

\* A text is eight sections in their order, section k with the text b[k].
Document(text, section, at, b) ==
    /\ Offsets(section, at) /\ b \in [1 .. 8 -> Text]
    /\ text \in Seq(Lines) /\ Len(text) = at[8] + Len(section[8]) + 1
    /\ \A k \in 1 .. 8 :
          /\ Has(text, section[k], at[k])
          /\ text[at[k] + Len(section[k]) + 1] = Blank
          /\ Wraps(section[k], Sections[k], b[k])

LEMMA SectionNames ==
  /\ Sections[1] = "Story" /\ Sections[2] = "Evaluation Summary"
  /\ Sections[3] = "Architecture" /\ Sections[4] = "API Design"
  /\ Sections[5] = "Implementation Steps" /\ Sections[6] = "Edge Cases"
  /\ Sections[7] = "Testing Strategy" /\ Sections[8] = "Definition of Done"
  BY DEF Sections

LEMMA EightWrapped ==
  ASSUME NEW b \in [1 .. 8 -> Text],
         NEW section, section = [k \in 1 .. 8 |-> WrapSection(Sections[k], b[k])]
  PROVE  \E at : Document(Nested(section[1], section[2], section[3], section[4], section[5],
                                 section[6], section[7], section[8]) \o <<Blank>>,
                          section, at, b)
<1> DEFINE row == Row(section[1], section[2], section[3], section[4], section[5],
                      section[6], section[7], section[8])
           text == row \o Gap
<1>1. \A k \in 1 .. 8 : Wraps(section[k], Sections[k], b[k])
  <2> SUFFICES ASSUME NEW k \in 1 .. 8 PROVE Wraps(section[k], Sections[k], b[k])
    OBVIOUS
  <2>1. section[k] = WrapSection(Sections[k], b[k]) /\ b[k] \in Text
    OBVIOUS
  <2>2. Sections[k] \in Titles
    BY SomeTitles
  <2> QED
    BY <2>1, <2>2, WrapSectionWraps
<1>2. section \in [1 .. 8 -> Seq(Lines)]
  <2>1. \A k \in 1 .. 8 : section[k] \in Seq(Lines)
    BY <1>1, TextFacts DEF Wraps
  <2> QED
    BY <2>1
<1>3. PICK at : Offsets(section, at)
  BY <1>2, OffsetsExist
<1>4. Laid(row, 8, section, at)
  BY <1>2, <1>3, RowLaid
<1>5. Nested(section[1], section[2], section[3], section[4], section[5],
             section[6], section[7], section[8]) \o <<Blank>> = text
  <2>1. Nested(section[1], section[2], section[3], section[4], section[5],
               section[6], section[7], section[8]) = row
    BY <1>2, OneRow
  <2> QED
    BY <2>1 DEF Gap
<1> HIDE DEF row
<1>6. /\ row \in Seq(Lines) /\ Len(row) = at[8] + Len(section[8]) /\ Len(row) \in Nat
      /\ \A k \in 1 .. 8 : Has(row, section[k], at[k])
      /\ \A k \in 1 .. 7 : /\ at[k] + Len(section[k]) + 1 \in 1 .. Len(row)
                           /\ row[at[k] + Len(section[k]) + 1] = Blank
  BY <1>4 DEF Laid
<1>7. /\ text \in Seq(Lines) /\ Len(text) = Len(row) + 1
      /\ \A j \in 1 .. Len(row) : text[j] = row[j]
      /\ text[Len(row) + 1] = Blank
  <2>1. /\ text \in Seq(Lines) /\ Len(text) = Len(row) + Len(Gap)
        /\ \A j \in 1 .. Len(row) : text[j] = row[j]
        /\ \A j \in 1 .. Len(Gap) : text[Len(row) + j] = Gap[j]
    BY <1>6, GapIs, Concatenation
  <2> QED
    BY <2>1, GapIs
<1> HIDE DEF text
<1>8. \A k \in 1 .. 8 : Has(text, section[k], at[k])
  <2> SUFFICES ASSUME NEW k \in 1 .. 8, NEW j \in 1 .. Len(section[k])
               PROVE  /\ at[k] + j \in 1 .. Len(text)
                      /\ text[at[k] + j] = section[k][j]
    BY DEF Has
  <2> DEFINE i == at[k] + j
  <2>1. i \in 1 .. Len(row) /\ row[i] = section[k][j]
    BY <1>6 DEF Has
  <2> HIDE DEF i
  <2>2. text[i] = section[k][j]
    BY <1>7, <2>1
  <2>3. Len(row) \in Nat /\ Len(text) = Len(row) + 1
    BY <1>6, <1>7
  <2>4. i \in 1 .. Len(text)
    BY <2>1, <2>3
  <2> QED
    BY <2>2, <2>4 DEF i
<1>9. \A k \in 1 .. 8 : text[at[k] + Len(section[k]) + 1] = Blank
  <2> SUFFICES ASSUME NEW k \in 1 .. 8 PROVE text[at[k] + Len(section[k]) + 1] = Blank
    OBVIOUS
  <2>1. CASE k = 8
    BY <1>6, <1>7, <2>1
  <2>2. CASE k # 8
    <3>1. k \in 1 .. 7
      BY <2>2
    <3> QED
      BY <1>6, <1>7, <3>1
  <2> QED
    BY <2>1, <2>2
<1>10. Document(text, section, at, b)
  BY <1>1, <1>3, <1>6, <1>7, <1>8, <1>9 DEF Document
<1> QED
  BY <1>5, <1>10

\* The same line again and again.
LEMMA Repeated ==
  ASSUME NEW n \in Nat, n >= 1, NEW rows \in [1 .. n -> Lines],
         \A j \in 1 .. n : rows[j].mark \notin {"#", "##"}
  PROVE  Plain(rows)
<1>1. rows \in Seq(Lines) /\ Len(rows) = n
  OBVIOUS
<1>2. rows # <<>>
  BY <1>1
<1> QED
  BY <1>1, <1>2 DEF Plain, Text

\* Section k is the text b[k] under its heading.
Wrapped(section, b) == \A k \in 1 .. 8 : section[k] = WrapSection(Sections[k], b[k])

\* Each section under its name.
LEMMA UnderTheirNames ==
  ASSUME NEW section, NEW b, Wrapped(section, b)
  PROVE  /\ section[1] = WrapSection("Story", b[1])
         /\ section[2] = WrapSection("Evaluation Summary", b[2])
         /\ section[3] = WrapSection("Architecture", b[3])
         /\ section[4] = WrapSection("API Design", b[4])
         /\ section[5] = WrapSection("Implementation Steps", b[5])
         /\ section[6] = WrapSection("Edge Cases", b[6])
         /\ section[7] = WrapSection("Testing Strategy", b[7])
         /\ section[8] = WrapSection("Definition of Done", b[8])
<1>1. /\ section[1] = WrapSection(Sections[1], b[1])
      /\ section[2] = WrapSection(Sections[2], b[2])
      /\ section[3] = WrapSection(Sections[3], b[3])
      /\ section[4] = WrapSection(Sections[4], b[4])
      /\ section[5] = WrapSection(Sections[5], b[5])
      /\ section[6] = WrapSection(Sections[6], b[6])
      /\ section[7] = WrapSection(Sections[7], b[7])
      /\ section[8] = WrapSection(Sections[8], b[8])
  BY DEF Wrapped
<1> QED
  BY <1>1, SectionNames, Zenon

LEMMA RenderEvaluationSummaryIs ==
  \E b \in Text :
     RenderEvaluationSummary = WrapSection("Evaluation Summary", b) /\ Plain(b)
<1> DEFINE rows == [k \in 1 .. 5 |-> Line("|", "")]
           t == rows \o Gap \o <<Words>>
           u == t \o Gap \o <<Words>>
<1>1. RenderEvaluationSummary = WrapSection("Evaluation Summary", u)
  BY DEF RenderEvaluationSummary
<1>2. Plain(rows)
  <2>1. Line("|", "") \in Lines /\ Line("|", "").mark = "|"
    BY LineIs, SomeMarks, SomeTitles
  <2>2. rows \in [1 .. 5 -> Lines] /\ \A j \in 1 .. 5 : rows[j].mark \notin {"#", "##"}
    BY <2>1
  <2>3. 5 \in Nat /\ 5 >= 1
    OBVIOUS
  <2> HIDE DEF rows
  <2> QED
    BY <2>2, <2>3, Repeated, Zenon
<1>3. Plain(<<Words>>)
  BY WordsAreQuiet, QuietIsPlain
<1> HIDE DEF rows
<1>4. Plain(t)
  BY <1>2, <1>3, PlainJoined
<1> HIDE DEF t
<1>5. Plain(u)
  BY <1>3, <1>4, PlainJoined
<1> QED
  BY <1>1, <1>5 DEF Plain

LEMMA RenderDefinitionOfDoneIs ==
  \E b \in Text :
     RenderDefinitionOfDone = WrapSection("Definition of Done", b) /\ Plain(b)
<1> DEFINE items == [k \in 1 .. 6 |-> Line("-", "")]
<1>1. RenderDefinitionOfDone = WrapSection("Definition of Done", items)
  BY DEF RenderDefinitionOfDone
<1>2. Plain(items)
  <2>1. Line("-", "") \in Lines /\ Line("-", "").mark = "-"
    BY LineIs, SomeMarks, SomeTitles
  <2>2. items \in [1 .. 6 -> Lines] /\ \A j \in 1 .. 6 : items[j].mark \notin {"#", "##"}
    BY <2>1
  <2>3. 6 \in Nat /\ 6 >= 1
    OBVIOUS
  <2> HIDE DEF items
  <2> QED
    BY <2>2, <2>3, Repeated, Zenon
<1> QED
  BY <1>1, <1>2 DEF Plain

\* What assemble_spec puts in the sections.
Filled(b, story, lists, skipped, bodies) ==
    /\ Plain(b[1]) /\ Plain(b[2]) /\ Plain(b[8])
    /\ Visible(b[1][Len(b[1])])
    /\ \E d, e \in Nat :
          /\ Has(b[1], After("text", EscapeMarkdownStructural(story.title)), d)
          /\ Has(b[1], EscapeMarkdownStructural(story.description), e)
          /\ d + Len(story.title) + 1 < e
    /\ skipped =>
          \A k \in 3 .. 7 : \E p :
             Listed(b[k], p, TopSuggestions(2, lists), Len(TopSuggestions(2, lists)))
    /\ ~skipped =>
          /\ \E p : Listed(b[5], p, MergedSuggestions(lists), Len(MergedSuggestions(lists)))
          /\ \A k \in {3, 4, 6, 7} :
                b[k] = StripDuplicateHeading(bodies[Sections[k]], Sections[k])

Singles(r) == r \in Seq(Text) /\ \A n \in 1 .. Len(r) : Single(r[n])

\* The document of assemble_spec is the eight sections, filled.
THEOREM AssembleSpecIs ==
  ASSUME NEW story, story.id \in Text, story.title \in Text, story.description \in Text,
         NEW lists, Singles(TopSuggestions(2, lists)), Singles(MergedSuggestions(lists)),
         NEW skipped \in BOOLEAN,
         NEW bodies, \A k \in {3, 4, 6, 7} : bodies[Sections[k]] \in Text
  PROVE  \E section, at, b :
            /\ Document(AssembleSpec(story, lists, skipped, bodies), section, at, b)
            /\ Filled(b, story, lists, skipped, bodies)
<1> DEFINE g == RenderGateFailBlock(lists)
           Strip(k) == StripDuplicateHeading(bodies[Sections[k]], Sections[k])
<1>1. PICK b1 \in Text :
         /\ RenderStory(story) = WrapSection("Story", b1)
         /\ Plain(b1) /\ Visible(b1[Len(b1)])
         /\ \E d, e \in Nat :
               /\ Has(b1, After("text", EscapeMarkdownStructural(story.title)), d)
               /\ Has(b1, EscapeMarkdownStructural(story.description), e)
               /\ d + Len(story.title) + 1 < e
  BY RenderStoryIs
<1>2. PICK b2 \in Text :
         RenderEvaluationSummary = WrapSection("Evaluation Summary", b2) /\ Plain(b2)
  BY RenderEvaluationSummaryIs
<1>3. PICK b8 \in Text :
         RenderDefinitionOfDone = WrapSection("Definition of Done", b8) /\ Plain(b8)
  BY RenderDefinitionOfDoneIs
<1>4. g \in Text /\ \E p : Listed(g, p, TopSuggestions(2, lists),
                                  Len(TopSuggestions(2, lists)))
  BY RenderGateFailBlockIs DEF Singles
<1>5. PICK b5 \in Text :
         /\ RenderImplementationSteps(lists) = WrapSection("Implementation Steps", b5)
         /\ \E p : Listed(b5, p, MergedSuggestions(lists), Len(MergedSuggestions(lists)))
  BY RenderImplementationStepsIs DEF Singles
<1>6. \A k \in {3, 4, 6, 7} : Strip(k) \in Text
  BY StripDuplicateHeadingKeeps
<1> DEFINE b == [k \in 1 .. 8 |->
                   IF k = 1 THEN b1 ELSE IF k = 2 THEN b2 ELSE IF k = 8 THEN b8 ELSE
                   IF skipped THEN g ELSE IF k = 5 THEN b5 ELSE Strip(k)]
           section == [k \in 1 .. 8 |-> WrapSection(Sections[k], b[k])]
<1> HIDE DEF g, Strip
<1>7. /\ b[1] = b1 /\ b[2] = b2 /\ b[8] = b8
      /\ skipped => \A k \in 3 .. 7 : b[k] = g
      /\ ~skipped => b[5] = b5 /\ \A k \in {3, 4, 6, 7} : b[k] = Strip(k)
  OBVIOUS
<1>8. b \in [1 .. 8 -> Text]
  <2>1. \A k \in 1 .. 8 : k \in {1, 2, 8, 5} \/ k \in {3, 4, 6, 7}
    OBVIOUS
  <2> QED
    BY <1>4, <1>6, <2>1
<1> HIDE DEF b
<1>9. Filled(b, story, lists, skipped, bodies)
  BY <1>1, <1>2, <1>3, <1>4, <1>5, <1>7 DEF Filled, Strip
<1>10. Wrapped(section, b)
  BY DEF Wrapped
<1>11. PICK at : Document(Nested(section[1], section[2], section[3], section[4], section[5],
                                 section[6], section[7], section[8]) \o <<Blank>>,
                          section, at, b)
  BY <1>8, EightWrapped
<1> HIDE DEF section
<1>12. /\ section[1] = WrapSection("Story", b[1])
       /\ section[2] = WrapSection("Evaluation Summary", b[2])
       /\ section[3] = WrapSection("Architecture", b[3])
       /\ section[4] = WrapSection("API Design", b[4])
       /\ section[5] = WrapSection("Implementation Steps", b[5])
       /\ section[6] = WrapSection("Edge Cases", b[6])
       /\ section[7] = WrapSection("Testing Strategy", b[7])
       /\ section[8] = WrapSection("Definition of Done", b[8])
  BY <1>10, UnderTheirNames
<1>13. RenderStory(story) = section[1] /\ RenderEvaluationSummary = section[2]
       /\ RenderDefinitionOfDone = section[8]
  BY <1>1, <1>2, <1>3, <1>7, <1>12
<1>14. CASE skipped
  <2>1. /\ WrapSection("Architecture", g) = section[3]
        /\ WrapSection("API Design", g) = section[4]
        /\ WrapSection("Implementation Steps", g) = section[5]
        /\ WrapSection("Edge Cases", g) = section[6]
        /\ WrapSection("Testing Strategy", g) = section[7]
    <3>1. b[3] = g /\ b[4] = g /\ b[5] = g /\ b[6] = g /\ b[7] = g
      BY <1>7, <1>14
    <3> QED
      BY <1>12, <3>1
  <2>2. GateFailSections(lists)
        = section[3] \o Gap \o section[4] \o Gap \o section[5]
          \o Gap \o section[6] \o Gap \o section[7]
    BY <2>1, Zenon DEF GateFailSections, g
  <2>3. AssembleSpec(story, lists, skipped, bodies)
        = Nested(section[1], section[2], section[3], section[4], section[5],
                 section[6], section[7], section[8]) \o <<Blank>>
    BY <1>13, <1>14, <2>2, Zenon DEF AssembleSpec, Nested
  <2> QED
    BY <1>9, <1>11, <2>3
<1>15. CASE ~skipped
  <2>1. /\ Generated("Architecture", bodies) = section[3]
        /\ Generated("API Design", bodies) = section[4]
        /\ RenderImplementationSteps(lists) = section[5]
        /\ Generated("Edge Cases", bodies) = section[6]
        /\ Generated("Testing Strategy", bodies) = section[7]
    <3>1. /\ Strip(3) = StripDuplicateHeading(bodies["Architecture"], "Architecture")
          /\ Strip(4) = StripDuplicateHeading(bodies["API Design"], "API Design")
          /\ Strip(6) = StripDuplicateHeading(bodies["Edge Cases"], "Edge Cases")
          /\ Strip(7) = StripDuplicateHeading(bodies["Testing Strategy"], "Testing Strategy")
      BY SectionNames DEF Strip
    <3>2. b[3] = Strip(3) /\ b[4] = Strip(4) /\ b[5] = b5 /\ b[6] = Strip(6) /\ b[7] = Strip(7)
      BY <1>7, <1>15
    <3> QED
      BY <1>5, <1>12, <3>1, <3>2 DEF Generated
  <2>2. GeneratedSections(lists, bodies)
        = section[3] \o Gap \o section[4] \o Gap \o section[5]
          \o Gap \o section[6] \o Gap \o section[7]
    BY <2>1, Zenon DEF GeneratedSections
  <2>3. AssembleSpec(story, lists, skipped, bodies)
        = Nested(section[1], section[2], section[3], section[4], section[5],
                 section[6], section[7], section[8]) \o <<Blank>>
    BY <1>13, <1>15, <2>2, Zenon DEF AssembleSpec, Nested
  <2> QED
    BY <1>9, <1>11, <2>3
<1> QED
  BY <1>14, <1>15

----------------------------------------------------------------------------
(* How many there are                                                      *)

LEMMA Counted ==
  ASSUME NEW n \in Nat, NEW S, NEW f \in [1 .. n -> S],
         \A i, k \in 1 .. n : f[i] = f[k] => i = k,
         \A s \in S : \E i \in 1 .. n : s = f[i]
  PROVE  IsFiniteSet(S) /\ Cardinality(S) = n
<1>1. f \in Injection(1 .. n, S)
  BY DEF Injection, IsInjective
<1>2. f \in Surjection(1 .. n, S)
  BY DEF Surjection
<1>3. f \in Bijection(1 .. n, S)
  BY <1>1, <1>2 DEF Bijection
<1>4. ExistsBijection(1 .. n, S)
  BY <1>3 DEF ExistsBijection
<1> QED
  BY <1>4, FS_CountingElements, FS_NatBijection

----------------------------------------------------------------------------
(* Where the lines of a document come from                                 *)

LEMMA SectionsDiffer ==
  ASSUME NEW k \in 1 .. 8, NEW m \in 1 .. 8, k # m
  PROVE  Sections[k] # Sections[m]
<1>1. k = 1 \/ k = 2 \/ k = 3 \/ k = 4 \/ k = 5 \/ k = 6 \/ k = 7 \/ k = 8
  OBVIOUS
<1>2. m = 1 \/ m = 2 \/ m = 3 \/ m = 4 \/ m = 5 \/ m = 6 \/ m = 7 \/ m = 8
  OBVIOUS
<1>3. CASE k = 1
  BY <1>2, <1>3, SectionNames
<1>4. CASE k = 2
  BY <1>2, <1>4, SectionNames
<1>5. CASE k = 3
  BY <1>2, <1>5, SectionNames
<1>6. CASE k = 4
  BY <1>2, <1>6, SectionNames
<1>7. CASE k = 5
  BY <1>2, <1>7, SectionNames
<1>8. CASE k = 6
  BY <1>2, <1>8, SectionNames
<1>9. CASE k = 7
  BY <1>2, <1>9, SectionNames
<1>10. CASE k = 8
  BY <1>2, <1>10, SectionNames
<1> QED
  BY <1>1, <1>3, <1>4, <1>5, <1>6, <1>7, <1>8, <1>9, <1>10

LEMMA OffsetsAre ==
  ASSUME NEW section, NEW at, Offsets(section, at)
  PROVE  /\ \A k \in 1 .. 8 : at[k] \in Nat /\ Len(section[k]) \in Nat
         /\ at[1] = 0
         /\ \A k \in 1 .. 7 : at[k + 1] = at[k] + Len(section[k]) + 1
<1>1. /\ section \in [1 .. 8 -> Seq(Lines)] /\ at \in [1 .. 8 -> Nat] /\ at[1] = 0
      /\ \A k \in 1 .. 7 : at[k + 1] = at[k] + Len(section[k]) + 1
  BY DEF Offsets
<1>2. ASSUME NEW k \in 1 .. 8 PROVE at[k] \in Nat /\ Len(section[k]) \in Nat
  <2>1. section[k] \in Seq(Lines) /\ at[k] \in Nat
    BY <1>1
  <2> QED
    BY <2>1
<1> QED
  BY <1>1, <1>2

\* Line j of a document is in section m or is the empty line after it.
InSection(section, at, m, j) == at[m] < j /\ j <= at[m] + Len(section[m]) + 1

LEMMA BeforeSection ==
  ASSUME NEW section, NEW at, Offsets(section, at)
  PROVE  \A k \in 1 .. 8 : \A j \in 1 .. at[k] :
            \E m \in 1 .. k - 1 : InSection(section, at, m, j)
<1> DEFINE N == 7
           Found(n) == \A j \in 1 .. at[n + 1] :
                          \E m \in 1 .. n : InSection(section, at, m, j)
           T == {n \in 0 .. N : Found(n)}
<1>1. /\ \A k \in 1 .. 8 : at[k] \in Nat /\ Len(section[k]) \in Nat
      /\ at[1] = 0
      /\ \A k \in 1 .. 7 : at[k + 1] = at[k] + Len(section[k]) + 1
  BY OffsetsAre
<1>2. 0 \in T
  BY <1>1
<1>3. ASSUME NEW n \in 1 .. N, n - 1 \in T PROVE n \in T
  <2>1. \A j \in 1 .. at[n] : \E m \in 1 .. n - 1 : InSection(section, at, m, j)
    BY <1>3
  <2>2. ASSUME NEW j \in 1 .. at[n + 1] PROVE \E m \in 1 .. n : InSection(section, at, m, j)
    <3>1. /\ n \in 1 .. 7 /\ n \in 1 .. 8 /\ n + 1 \in 1 .. 8 /\ n \in 1 .. n
          /\ \A m \in 1 .. n - 1 : m \in 1 .. n
      OBVIOUS
    <3>2. at[n] \in Nat /\ Len(section[n]) \in Nat /\ at[n + 1] = at[n] + Len(section[n]) + 1
      BY <1>1, <3>1
    <3>3. j \in Int /\ j >= 1 /\ j <= at[n] + Len(section[n]) + 1
      BY <2>2, <3>2
    <3>4. CASE j <= at[n]
      <4>1. j \in 1 .. at[n]
        BY <3>2, <3>3, <3>4
      <4> QED
        BY <2>1, <3>1, <4>1
    <3>5. CASE ~(j <= at[n])
      <4>1. InSection(section, at, n, j)
        BY <3>2, <3>3, <3>5 DEF InSection
      <4> QED
        BY <3>1, <4>1
    <3> QED
      BY <3>4, <3>5
  <2> QED
    BY <2>2
<1>4. \A n \in 0 .. N : n \in T
  <2>1. N \in Nat
    OBVIOUS
  <2> HIDE DEF T, N
  <2> QED
    BY <1>2, <1>3, <2>1, BoundedInduction
<1> SUFFICES ASSUME NEW k \in 1 .. 8, NEW j \in 1 .. at[k]
             PROVE  \E m \in 1 .. k - 1 : InSection(section, at, m, j)
  OBVIOUS
<1>5. k - 1 \in 0 .. N /\ (k - 1) + 1 = k
  OBVIOUS
<1>6. Found(k - 1)
  BY <1>4, <1>5
<1> QED
  BY <1>5, <1>6

\* Section k of a document is at its place, with the text b[k].
Placed(text, section, at, b, k) ==
    /\ at[k] \in Nat /\ Len(section[k]) \in Nat /\ Len(section[k]) > 1
    /\ at[k] + Len(section[k]) + 1 <= Len(text)
    /\ b[k] \in Text /\ Len(b[k]) \in Nat /\ Len(b[k]) >= 1
    /\ text[at[k] + Len(section[k]) + 1] = Blank
    /\ Has(text, section[k], at[k])
    /\ Wraps(section[k], Sections[k], b[k])

LEMMA Ascending ==
  ASSUME NEW section, NEW at, Offsets(section, at), NEW k \in 1 .. 8
  PROVE  /\ at[k] \in Nat /\ Len(section[k]) \in Nat
         /\ at[k] + Len(section[k]) <= at[8] + Len(section[8])
<1> DEFINE End(n) == at[n] + Len(section[n])
<1>1. \A n \in 1 .. 8 : at[n] \in Nat /\ Len(section[n]) \in Nat
  BY OffsetsAre
<1>2. ASSUME NEW n \in 1 .. 8 PROVE End(n) \in Nat
  <2>1. at[n] \in Nat /\ Len(section[n]) \in Nat
    BY <1>1
  <2> QED
    BY <2>1
<1>3. ASSUME NEW n \in 1 .. 7 PROVE End(n) <= End(n + 1)
  <2>1. n \in 1 .. 8 /\ n + 1 \in 1 .. 8
    OBVIOUS
  <2>2. /\ at[n] \in Nat /\ Len(section[n]) \in Nat
        /\ at[n + 1] \in Nat /\ Len(section[n + 1]) \in Nat
    BY <1>1, <2>1
  <2>3. at[n + 1] = at[n] + Len(section[n]) + 1
    BY OffsetsAre
  <2> QED
    BY <2>2, <2>3
<1> HIDE DEF End
<1>4. /\ End(7) <= End(8) /\ End(6) <= End(7) /\ End(5) <= End(6) /\ End(4) <= End(5)
      /\ End(3) <= End(4) /\ End(2) <= End(3) /\ End(1) <= End(2)
  BY <1>3
<1>5. /\ End(1) \in Nat /\ End(2) \in Nat /\ End(3) \in Nat /\ End(4) \in Nat
      /\ End(5) \in Nat /\ End(6) \in Nat /\ End(7) \in Nat /\ End(8) \in Nat
  BY <1>2
<1>6. k = 1 \/ k = 2 \/ k = 3 \/ k = 4 \/ k = 5 \/ k = 6 \/ k = 7 \/ k = 8
  OBVIOUS
<1>7. End(k) <= End(8)
  BY <1>4, <1>5, <1>6
<1> QED
  BY <1>1, <1>7 DEF End

LEMMA DocumentFacts ==
  ASSUME NEW text, NEW section, NEW at, NEW b, Document(text, section, at, b)
  PROVE  /\ Offsets(section, at) /\ text \in Seq(Lines) /\ Len(text) \in Nat
         /\ Len(text) = at[8] + Len(section[8]) + 1
         /\ \A k \in 1 .. 8 : Placed(text, section, at, b, k)
<1>1. /\ Offsets(section, at) /\ text \in Seq(Lines) /\ Len(text) \in Nat
      /\ Len(text) = at[8] + Len(section[8]) + 1
  BY DEF Document
<1>2. ASSUME NEW k \in 1 .. 8 PROVE Placed(text, section, at, b, k)
  <2>1. /\ at[k] \in Nat /\ Len(section[k]) \in Nat
        /\ at[k] + Len(section[k]) <= at[8] + Len(section[8])
    BY <1>1, Ascending
  <2>2. /\ b[k] \in Text /\ text[at[k] + Len(section[k]) + 1] = Blank
        /\ Has(text, section[k], at[k]) /\ Wraps(section[k], Sections[k], b[k])
    BY DEF Document
  <2>3. Len(b[k]) \in Nat /\ Len(b[k]) >= 1 /\ Len(section[k]) > 1
    BY <2>2, TextFacts DEF Wraps
  <2>4. at[8] \in Nat /\ Len(section[8]) \in Nat
    BY <1>1, Ascending
  <2>5. at[k] + Len(section[k]) + 1 <= Len(text)
    <3> DEFINE i == at[k] + Len(section[k])
               j == at[8] + Len(section[8])
    <3>1. i \in Nat /\ j \in Nat /\ i <= j /\ Len(text) = j + 1
      BY <1>1, <2>1, <2>4, SMTT(30)
    <3> HIDE DEF i, j
    <3>2. i + 1 <= Len(text)
      BY <3>1
    <3> QED
      BY <3>2 DEF i
  <2> QED
    BY <2>1, <2>2, <2>3, <2>5 DEF Placed
<1> QED
  BY <1>1, <1>2

\* What line j of a document may be when it is in section m.
FromSection(text, at, b, m, j) ==
    \/ j = at[m] + 1 /\ text[j] = Line("##", Sections[m])
    \/ ~Visible(text[j])
    \/ \E i \in 1 .. Len(b[m]) : text[j] = b[m][i]

\* Of the lines of section m only the first is its heading, and every visible
\* one after it is a line of b[m].
LEMMA LineOfSection ==
  ASSUME NEW text, NEW section, NEW at, NEW b, Document(text, section, at, b),
         NEW m \in 1 .. 8, NEW j \in Int, InSection(section, at, m, j)
  PROVE  FromSection(text, at, b, m, j)
<1> DEFINE w == section[m]
           n == Len(section[m])
           a == at[m]
<1>1. /\ a \in Nat /\ n \in Nat /\ n > 1 /\ text[a + n + 1] = Blank
      /\ Has(text, w, a) /\ Wraps(w, Sections[m], b[m])
  <2>1. Placed(text, section, at, b, m)
    BY DocumentFacts
  <2> QED
    BY <2>1 DEF Placed
<1>2. a < j /\ j <= a + n + 1
  BY DEF InSection
<1>3. n = Len(w)
  OBVIOUS
<1> HIDE DEF w, n, a
<1>4. CASE j = a + n + 1
  BY <1>1, <1>4, LineFacts DEF FromSection
<1>5. CASE j # a + n + 1
  <2> DEFINE i == j - a
  <2>1. i \in 1 .. Len(w) /\ a + i = j
    BY <1>1, <1>2, <1>3, <1>5
  <2>2. text[j] = w[i]
    BY <1>1, <2>1 DEF Has
  <2>3. CASE i = 1
    <3>1. j = a + 1
      BY <1>1, <2>1, <2>3
    <3>2. text[j] = Line("##", Sections[m])
      BY <1>1, <2>2, <2>3 DEF Wraps
    <3> QED
      BY <3>1, <3>2 DEF a, FromSection
  <2>4. CASE i # 1
    <3>1. i \in 2 .. Len(w)
      BY <2>1, <2>4
    <3> HIDE DEF i
    <3> QED
      BY <1>1, <2>2, <3>1 DEF Wraps, FromSection
  <2> QED
    BY <2>3, <2>4
<1> QED
  BY <1>4, <1>5

\* No text has the heading of another section.
Separate(b) ==
    \A m, k \in 1 .. 8 : m # k =>
        \A i \in 1 .. Len(b[m]) : b[m][i] # Line("##", Sections[k])

\* The first line of section k is the first that is its heading.
Starts(text, at, k) ==
    /\ at[k] + 1 \in 1 .. Len(text) /\ text[at[k] + 1] = Line("##", Sections[k])
    /\ \A j \in 1 .. at[k] : text[j] # Line("##", Sections[k])

LEMMA FirstHeading ==
  ASSUME NEW text, NEW section, NEW at, NEW b, Document(text, section, at, b),
         Separate(b), NEW k \in 1 .. 8
  PROVE  Starts(text, at, k)
<1>1. /\ at[k] \in Nat /\ Len(section[k]) \in Nat /\ Len(section[k]) > 1
      /\ at[k] + Len(section[k]) + 1 <= Len(text) /\ Len(text) \in Nat
      /\ Has(text, section[k], at[k]) /\ Wraps(section[k], Sections[k], b[k])
      /\ Offsets(section, at)
  BY DocumentFacts DEF Placed
<1>2. at[k] + 1 \in 1 .. Len(text) /\ 1 \in 1 .. Len(section[k])
  BY <1>1
<1>3. text[at[k] + 1] = Line("##", Sections[k])
  BY <1>1, <1>2 DEF Has, Wraps
<1>4. ASSUME NEW j \in 1 .. at[k] PROVE text[j] # Line("##", Sections[k])
  <2>1. PICK m \in 1 .. k - 1 : InSection(section, at, m, j)
    BY <1>1, BeforeSection
  <2>2. m \in 1 .. 8 /\ m # k /\ j \in Int
    OBVIOUS
  <2>3. /\ "##" \in Marks
        /\ \A i \in 1 .. 8 : Sections[i] \in Titles
    BY SomeMarks, SomeTitles
  <2>4. Line("##", Sections[m]) # Line("##", Sections[k])
    <3>1. Line("##", Sections[m]).title = Sections[m] /\ Line("##", Sections[k]).title = Sections[k]
      BY <2>2, <2>3, LineIs
    <3> QED
      BY <2>2, <3>1, SectionsDiffer
  <2>5. Visible(Line("##", Sections[k]))
    <3>1. Line("##", Sections[k]).mark = "##"
      BY <2>3, LineIs
    <3> QED
      BY <3>1 DEF Visible
  <2>6. FromSection(text, at, b, m, j)
    BY <2>1, <2>2, LineOfSection
  <2> QED
    BY <2>2, <2>4, <2>5, <2>6 DEF Separate, FromSection
<1> QED
  BY <1>2, <1>3, <1>4 DEF Starts

\* When no text has a heading, the only ones are those of the sections.
LEMMA OnlyHeadings ==
  ASSUME NEW text, NEW section, NEW at, NEW b, Document(text, section, at, b),
         \A m \in 1 .. 8 : Plain(b[m]),
         NEW j \in 1 .. Len(text), text[j].mark \in {"#", "##"}
  PROVE  \E m \in 1 .. 8 : j = at[m] + 1
<1>1. /\ at[8] \in Nat /\ Len(section[8]) \in Nat /\ Offsets(section, at)
      /\ Len(text) = at[8] + Len(section[8]) + 1 /\ Len(text) \in Nat
  BY DocumentFacts DEF Placed
<1>2. \E m \in 1 .. 8 : InSection(section, at, m, j)
  <2>1. CASE j <= at[8]
    <3>1. j \in 1 .. at[8] /\ 8 \in 1 .. 8
      BY <1>1, <2>1
    <3>2. \E m \in 1 .. 8 - 1 : InSection(section, at, m, j)
      BY <1>1, <3>1, BeforeSection
    <3> QED
      BY <3>2
  <2>2. CASE ~(j <= at[8])
    <3>1. InSection(section, at, 8, j)
      BY <1>1, <2>2 DEF InSection
    <3> QED
      BY <3>1
  <2> QED
    BY <2>1, <2>2
<1>3. PICK m \in 1 .. 8 : InSection(section, at, m, j)
  BY <1>2
<1>4. FromSection(text, at, b, m, j)
  <2>1. j \in Int
    OBVIOUS
  <2> QED
    BY <1>3, <2>1, LineOfSection
<1>5. Visible(text[j])
  BY DEF Visible
<1>6. \A i \in 1 .. Len(b[m]) : b[m][i].mark \notin {"#", "##"}
  BY DEF Plain
<1> QED
  BY <1>4, <1>5, <1>6 DEF FromSection

LEMMA Slice ==
  ASSUME NEW t \in Seq(Lines), NEW i \in Int, NEW e \in Int,
         1 <= i, i <= e, e <= Len(t)
  PROVE  /\ SubSeq(t, i, e) \in Seq(Lines) /\ Len(SubSeq(t, i, e)) = e - i + 1
         /\ \A j \in 1 .. e - i + 1 : SubSeq(t, i, e)[j] = t[i + j - 1]
  OBVIOUS

\* Below its heading a section has the text it was given, one line down.
LEMMA SectionText ==
  ASSUME NEW text, NEW section, NEW at, NEW b, Document(text, section, at, b),
         NEW k \in 1 .. 8,
         NEW u, u = SubSeq(text, at[k] + 2, at[k] + Len(section[k]) + 1)
  PROVE  /\ u \in Seq(Lines)
         /\ Keeps(b[k], u, 1)
         /\ Visible(b[k][Len(b[k])]) => Has(u, b[k], 1)
<1> DEFINE w == section[k]
           n == Len(section[k])
           a == at[k]
           c == b[k]
<1>1. /\ a \in Nat /\ n \in Nat /\ n > 1 /\ a + n + 1 <= Len(text)
      /\ text \in Seq(Lines) /\ Len(text) \in Nat
      /\ text[a + n + 1] = Blank /\ Has(text, w, a) /\ Wraps(w, Sections[k], c)
      /\ Len(c) \in Nat /\ Len(c) >= 1
  <2>1. Placed(text, section, at, b, k) /\ text \in Seq(Lines) /\ Len(text) \in Nat
    BY DocumentFacts
  <2> QED
    BY <2>1 DEF Placed
<1>2. n = Len(w) /\ u = SubSeq(text, a + 2, a + n + 1)
  OBVIOUS
<1> HIDE DEF w, n, a, c
<1>3. u \in Seq(Lines) /\ Len(u) = n /\ \A j \in 1 .. n : u[j] = text[a + 1 + j]
  <2> DEFINE i == a + 2
             e == a + n + 1
  <2>1. /\ i \in Int /\ e \in Int /\ 1 <= i /\ i <= e /\ e <= Len(text)
        /\ e - i + 1 = n /\ \A j \in 1 .. n : i + j - 1 = a + 1 + j
    BY <1>1
  <2> DEFINE v == SubSeq(text, i, e)
  <2>2. u = v
    BY <1>2
  <2> HIDE DEF i, e
  <2>3. /\ v \in Seq(Lines) /\ Len(v) = e - i + 1
        /\ \A j \in 1 .. e - i + 1 : v[j] = text[i + j - 1]
    BY <1>1, <2>1, Slice
  <2> HIDE DEF v
  <2>4. /\ u \in Seq(Lines) /\ Len(u) = e - i + 1
        /\ \A j \in 1 .. e - i + 1 : u[j] = text[i + j - 1]
    BY <2>2, <2>3, Zenon
  <2>5. \A j \in 1 .. n : u[j] = text[i + j - 1]
    BY <2>1, <2>4, Zenon
  <2>6. \A j \in 1 .. n : u[j] = text[a + 1 + j]
    BY <2>1, <2>5, Zenon
  <2> QED
    BY <2>1, <2>4, <2>6, Zenon
<1>4. \A j \in 1 .. n - 1 : u[j] = w[j + 1]
  <2> SUFFICES ASSUME NEW j \in 1 .. n - 1 PROVE u[j] = w[j + 1]
    OBVIOUS
  <2>1. j \in 1 .. n /\ j + 1 \in 1 .. Len(w) /\ a + 1 + j = a + (j + 1)
    BY <1>1, <1>2
  <2>2. u[j] = text[a + (j + 1)]
    BY <1>3, <2>1, Zenon
  <2>3. text[a + (j + 1)] = w[j + 1]
    BY <1>1, <2>1, Zenon DEF Has
  <2> QED
    BY <2>2, <2>3, Zenon
<1>5. u[n] = Blank
  <2>1. n \in 1 .. n /\ a + 1 + n = a + n + 1
    BY <1>1
  <2> QED
    BY <1>1, <1>3, <2>1
<1>6. ASSUME NEW j \in 1 .. Len(c), Visible(c[j])
      PROVE  j + 1 \in 1 .. Len(u) /\ u[j + 1] = c[j]
  <2>1. j + 2 \in 1 .. Len(w) /\ w[j + 2] = c[j]
    BY <1>1, <1>6 DEF Wraps
  <2>2. j + 1 \in 1 .. n - 1 /\ (j + 1) + 1 = j + 2
    BY <1>1, <1>2, <2>1
  <2>3. u[j + 1] = w[j + 2]
    BY <1>4, <2>2
  <2> QED
    <3>1. j + 1 \in 1 .. n
      BY <1>1, <2>2
    <3> QED
      BY <1>3, <2>1, <2>3, <3>1
<1>7. ASSUME NEW j \in 1 .. Len(u), Visible(u[j])
      PROVE  j - 1 \in 1 .. Len(c) /\ c[j - 1] = u[j]
  <2>1. j # n
    BY <1>5, <1>7, LineFacts
  <2>2. j \in 1 .. n - 1 /\ j + 1 \in 2 .. Len(w) /\ (j + 1) - 2 = j - 1
    BY <1>1, <1>2, <1>3, <2>1
  <2>3. u[j] = w[j + 1]
    BY <1>4, <2>2
  <2> DEFINE i == j + 1
  <2>4. i - 2 \in 1 .. Len(c) /\ c[i - 2] = w[i]
    <3>1. i \in 2 .. Len(w) /\ Visible(w[i])
      BY <1>7, <2>2, <2>3
    <3> HIDE DEF i
    <3> QED
      BY <1>1, <3>1 DEF Wraps
  <2> QED
    BY <2>2, <2>3, <2>4
<1>8. ASSUME Visible(c[Len(c)]) PROVE Has(u, c, 1)
  <2>1. Len(w) = Len(c) + 2 /\ \A j \in 1 .. Len(c) : w[j + 2] = c[j]
    BY <1>1, <1>8 DEF Wraps
  <2>2. ASSUME NEW j \in 1 .. Len(c) PROVE 1 + j \in 1 .. Len(u) /\ u[1 + j] = c[j]
    <3>1. 1 + j \in 1 .. n - 1 /\ (1 + j) + 1 = j + 2
      BY <1>1, <1>2, <2>1
    <3>2. u[1 + j] = w[j + 2]
      BY <1>4, <3>1
    <3> QED
      <4>1. 1 + j \in 1 .. n
        BY <1>1, <3>1
      <4> QED
        BY <1>3, <2>1, <3>2, <4>1
  <2> QED
    BY <2>2 DEF Has
<1>9. Keeps(c, u, 1)
  BY <1>6, <1>7 DEF Keeps
<1> QED
  BY <1>3, <1>8, <1>9 DEF c
=============================================================================
