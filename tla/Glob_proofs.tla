---------------------------- MODULE Glob_proofs -----------------------------
(***************************************************************************)
(* Theorems about Glob: the scan of glob_match decides what the pattern       *)
(* means, whatever the pattern and the text.                                 *)
(***************************************************************************)
EXTENDS Glob, Integers, SequenceTheorems, WellFoundedInduction, TLAPS

-----------------------------------------------------------------------------
(* Recursive definitions.  Sets and functions stand for what is inductive, so *)
(* that provers can instantiate the lemmas.                                   *)

LEMMA Induct ==
  ASSUME NEW n \in Nat, NEW P, 0 \in P, \A k \in 0..n : k + 1 \in 0..n /\ k \in P => k + 1 \in P
  PROVE  \A k \in 0..n : k \in P
<1> SUFFICES ASSUME NEW m \in 0..n, m \notin P
             PROVE  FALSE
  OBVIOUS
<1> DEFINE T == {k \in 0..n : k \notin P}
<1>1. PICK R : IsWellFoundedOn(R, Nat) /\ \A x, y \in Nat : y < x => <<y, x>> \in R
  <2>1. IsWellFoundedOn(OpToRel(<, Nat), Nat)
    BY NatLessThanWellFounded
  <2>2. \A x, y \in Nat : y < x => <<y, x>> \in OpToRel(<, Nat)
    BY DEF OpToRel
  <2> QED
    BY <2>1, <2>2
<1>2. T \subseteq Nat /\ T # {}
  OBVIOUS
<1>3. PICK x \in T : \A y \in T : ~(<<y, x>> \in R)
  <2> HIDE DEF T
  <2> QED
    BY <1>1, <1>2, WFMin
<1>4. x \in 0..n /\ x \notin P /\ x # 0
  OBVIOUS
<1>5. x - 1 \in 0..n /\ x - 1 \notin T
  <2>1. x - 1 \in 0..n /\ x - 1 \in Nat /\ x \in Nat /\ x - 1 < x
    BY <1>4
  <2>2. <<x - 1, x>> \in R
    BY <1>1, <2>1
  <2> QED
    BY <1>3, <2>1, <2>2
<1>6. x - 1 \in P /\ (x - 1) + 1 = x
  BY <1>4, <1>5
<1> QED
  BY <1>4, <1>5, <1>6

\* There is a sequence of turns.
Runs(f, n, base, h) == f = [k \in 0..n |-> IF k = 0 THEN base ELSE h[k][f[k - 1]]]
LEMMA Turns ==
  ASSUME NEW n \in Nat, NEW base, NEW h
  PROVE  \E f : Runs(f, n, base, h)
<1> DEFINE Upto(m, f) == f = [k \in 0..m |-> IF k = 0 THEN base ELSE h[k][f[k - 1]]]
           P == {m \in 0..n : \E f : Upto(m, f)}
<1>1. 0 \in P
  <2> DEFINE f == [k \in 0..0 |-> base]
  <2>1. \E g : Upto(0, g)
    <3>1. Upto(0, f)
      OBVIOUS
    <3> QED
      BY <3>1
  <2> QED
    BY <2>1
<1>2. ASSUME NEW m \in 0..n, m + 1 \in 0..n, m \in P
      PROVE  m + 1 \in P
  <2>1. PICK f : Upto(m, f)
    BY <1>2
  <2> DEFINE g == [k \in 0..(m + 1) |-> IF k = 0 THEN base ELSE h[k][f[k - 1]]]
  <2>2. \A k \in 0..m : g[k] = f[k]
    BY <2>1
  <2>3. \A k \in 0..(m + 1) : k # 0 => k - 1 \in 0..m
    OBVIOUS
  <2>4. Upto(m + 1, g)
    BY <2>2, <2>3
  <2> QED
    BY <1>2, <2>4
<1>3. n \in P
  <2> HIDE DEF P
  <2> QED
    BY <1>1, <1>2, Induct
<1> QED
  BY <1>3 DEF Runs

\* What each turn keeps holds all the way.
LEMMA Stays ==
  ASSUME NEW n \in Nat, NEW f, NEW B,
         f[0] \in B[0], \A k \in 1..n : f[k - 1] \in B[k - 1] => f[k] \in B[k]
  PROVE  \A k \in 0..n : f[k] \in B[k]
<1> DEFINE P == {k \in 0..n : f[k] \in B[k]}
<1>1. 0 \in P
  OBVIOUS
<1>2. ASSUME NEW k \in 0..n, k + 1 \in 0..n, k \in P
      PROVE  k + 1 \in P
  <2>1. k + 1 \in 1..n /\ (k + 1) - 1 = k
    BY <1>2
  <2> QED
    BY <1>2, <2>1
<1>3. \A k \in 0..n : k \in P
  <2> HIDE DEF P
  <2> QED
    BY <1>1, <1>2, Induct
<1> QED
  BY <1>3

LEMMA Looping ==
  ASSUME NEW n \in Nat, NEW h, NEW B, NEW base, base \in B[0],
         \A k \in 1..n : \A x \in B[k - 1] : h[k][x] \in B[k]
  PROVE  \E f : /\ Runs(f, n, base, h)
                /\ \A k \in 0..n : f[k] \in B[k]
<1>1. PICK f : Runs(f, n, base, h)
  BY Turns
<1>2. f[0] = base /\ \A k \in 1..n : f[k] = h[k][f[k - 1]]
  BY <1>1 DEF Runs
<1>3. \A k \in 0..n : f[k] \in B[k]
  BY <1>2, Stays
<1> QED
  BY <1>1, <1>3

\* A set of naturals has a least element.
LEMMA Least ==
  ASSUME NEW T, T \subseteq Nat, T # {}
  PROVE  \E x \in T : \A y \in T : x <= y
<1>1. PICK R : IsWellFoundedOn(R, Nat) /\ \A x, y \in Nat : y < x => <<y, x>> \in R
  <2>1. IsWellFoundedOn(OpToRel(<, Nat), Nat)
    BY NatLessThanWellFounded
  <2>2. \A x, y \in Nat : y < x => <<y, x>> \in OpToRel(<, Nat)
    BY DEF OpToRel
  <2> QED
    BY <2>1, <2>2
<1>2. PICK x \in T : \A y \in T : ~(<<y, x>> \in R)
  BY <1>1, WFMin
<1>3. ASSUME NEW y \in T
      PROVE  x <= y
  <2>1. x \in Nat /\ y \in Nat /\ ~(<<y, x>> \in R)
    BY <1>2
  <2>2. ~(y < x)
    BY <1>1, <2>1
  <2> QED
    BY <2>1, <2>2
<1> QED
  BY <1>2, <1>3

\* A predicate that is settled at once or handed on to another place: there is a least
\* one, the places from which every closed set is entered.
HandsOn(F, D, yes, go, to) == F = [x \in D |-> x \in yes \/ (x \in go /\ F[to[x]])]
LEMMA HandingOn ==
  ASSUME NEW D, NEW yes, NEW go, NEW to \in [D -> D]
  PROVE  \E F : HandsOn(F, D, yes, go, to)
<1> DEFINE Closed(S) == \A x \in D : x \in yes \/ (x \in go /\ to[x] \in S) => x \in S
           L == {x \in D : \A S \in SUBSET D : Closed(S) => x \in S}
           U == {x \in D : x \in yes \/ (x \in go /\ to[x] \in L)}
           F == [x \in D |-> x \in L]
<1>1. U \subseteq L
  <2>1. ASSUME NEW x \in U, NEW S \in SUBSET D, Closed(S)
        PROVE  x \in S
    BY <2>1
  <2> QED
    BY <2>1
<1>2. L \subseteq U
  <2>1. Closed(U)
    BY <1>1
  <2> QED
    BY <2>1
<1>3. ASSUME NEW x \in D
      PROVE  F[x] = (x \in yes \/ (x \in go /\ F[to[x]]))
  <2>1. F[x] = (x \in L) /\ F[to[x]] = (to[x] \in L)
    <3> HIDE DEF L
    <3> QED
      OBVIOUS
  <2>2. (x \in L) = (x \in yes \/ (x \in go /\ to[x] \in L))
    <3> HIDE DEF L
    <3> QED
      BY <1>1, <1>2
  <2> HIDE DEF L, F
  <2> QED
    BY <2>1, <2>2, Zenon
<1>4. F = [x \in D |-> x \in yes \/ (x \in go /\ F[to[x]])]
  BY <1>3
<1> QED
  BY <1>4 DEF HandsOn

\* Of places with three numbers each, one is least by the first number, among those
\* by the second, and among those by the third.
LeastOf(x, T, a, b, c) ==
    \A y \in T : a[y] >= a[x] /\ (a[y] = a[x] => b[y] >= b[x] /\ (b[y] = b[x] => c[y] >= c[x]))
LEMMA LeastPlace ==
  ASSUME NEW T, T # {}, NEW a \in [T -> Nat], NEW b \in [T -> Nat], NEW c \in [T -> Nat]
  PROVE  \E x \in T : LeastOf(x, T, a, b, c)
<1>1. PICK A \in {a[x] : x \in T} : \A B \in {a[x] : x \in T} : A <= B
  <2>1. {a[x] : x \in T} \subseteq Nat /\ {a[x] : x \in T} # {}
    OBVIOUS
  <2> QED
    BY <2>1, Least
<1> DEFINE T1 == {x \in T : a[x] = A}
<1>2. PICK B \in {b[x] : x \in T1} : \A C \in {b[x] : x \in T1} : B <= C
  <2>1. {b[x] : x \in T1} \subseteq Nat /\ {b[x] : x \in T1} # {}
    OBVIOUS
  <2> QED
    BY <2>1, Least
<1> DEFINE T2 == {x \in T1 : b[x] = B}
<1>3. PICK C \in {c[x] : x \in T2} : \A E \in {c[x] : x \in T2} : C <= E
  <2>1. {c[x] : x \in T2} \subseteq Nat /\ {c[x] : x \in T2} # {}
    OBVIOUS
  <2> QED
    BY <2>1, Least
<1>4. PICK x \in T2 : c[x] = C
  OBVIOUS
<1>5. ASSUME NEW y \in T
      PROVE  a[y] >= a[x] /\ (a[y] = a[x] => b[y] >= b[x] /\ (b[y] = b[x] => c[y] >= c[x]))
  <2>1. a[y] \in Nat /\ b[y] \in Nat /\ c[y] \in Nat /\ a[x] = A /\ b[x] = B /\ c[x] = C
        /\ A \in Nat /\ B \in Nat /\ C \in Nat
    BY <1>4
  <2>2. A <= a[y]
    BY <1>1
  <2>3. a[y] = A => B <= b[y]
    BY <1>2
  <2>4. a[y] = A /\ b[y] = B => C <= c[y]
    BY <1>3
  <2> QED
    BY <2>1, <2>2, <2>3, <2>4
<1> QED
  BY <1>4, <1>5 DEF LeastOf

-----------------------------------------------------------------------------
(* What a pattern means.                                                      *)

\* M[i] is where in the text the pattern from i on fits the rest.
Fits(M, pattern, text) ==
    /\ M \in [1..(Len(pattern) + 1) -> SUBSET (1..(Len(text) + 1))]
    /\ M[Len(pattern) + 1] = {Len(text) + 1}
    /\ \A i \in 1..Len(pattern) :
         M[i] = IF pattern[i] = "*" THEN {j \in 1..(Len(text) + 1) : \E k \in M[i + 1] : j <= k}
                ELSE {j \in 1..Len(text) : pattern[i] \in {text[j], "?"} /\ j + 1 \in M[i + 1]}

LEMMA MatchesIs ==
  ASSUME NEW X, NEW pattern \in Seq(X), NEW text \in Seq(X)
  PROVE  \E M : Fits(M, pattern, text) /\ Matches(pattern, text) = (1 \in M[1])
<1> DEFINE p == Len(pattern)
           l == Len(text)
           V == SUBSET (1..(l + 1))
           turn(n, S) == LET c == pattern[p + 1 - n]
                         IN  IF c = "*" THEN {j \in 1..(l + 1) : \E k \in S : j <= k}
                             ELSE {j \in 1..l : c \in {text[j], "?"} /\ j + 1 \in S}
           h == [n \in 1..p |-> [S \in V |-> turn(n, S)]]
           B == [n \in 0..p |-> V]
           Def(f) == f = [n \in 0..p |->
                            LET c == pattern[p + 1 - n]
                            IN  IF n = 0 THEN {l + 1}
                                ELSE IF c = "*" THEN {j \in 1..(l + 1) : \E k \in f[n - 1] : j <= k}
                                ELSE {j \in 1..l : c \in {text[j], "?"} /\ j + 1 \in f[n - 1]}]
           g == CHOOSE f : Def(f)
<1>1. p \in Nat /\ l \in Nat
  BY LenProperties
<1>2. \A n \in 1..p : \A S \in V : turn(n, S) \in V
  BY <1>1
<1>3. \A f : Def(f) <=> f = [n \in 0..p |-> IF n = 0 THEN {l + 1} ELSE turn(n, f[n - 1])]
  OBVIOUS
<1>4. Matches(pattern, text) = (1 \in g[p])
  BY DEF Matches
<1>5. {l + 1} \in B[0]
  BY <1>1
<1> HIDE DEF p, l, turn, Def
<1>6. \A n \in 1..p : \A S \in B[n - 1] : h[n][S] \in B[n] /\ h[n][S] = turn(n, S)
  BY <1>1, <1>2
<1>7. \A n \in 0..p : B[n] = V
  OBVIOUS
<1> HIDE DEF h, B
<1>8. PICK f : Runs(f, p, {l + 1}, h) /\ \A n \in 0..p : f[n] \in B[n]
  BY <1>1, <1>5, <1>6, Looping
<1>9. Def(f)
  <2>1. \A n \in 0..p : n # 0 => n - 1 \in 0..p /\ n \in 1..p
    BY <1>1
  <2>2. \A n \in 0..p : n # 0 => h[n][f[n - 1]] = turn(n, f[n - 1])
    BY <1>6, <1>8, <2>1
  <2> QED
    BY <1>3, <1>8, <2>2 DEF Runs
<1>10. Def(g)
  BY <1>9
<1> HIDE DEF g
<1>11. g[0] = {l + 1} /\ \A n \in 1..p : g[n] = turn(n, g[n - 1])
  BY <1>1, <1>3, <1>10
<1>12. \A n \in 0..p : g[n] \in V
  <2>1. \A n \in 1..p : g[n - 1] \in B[n - 1] => g[n] \in B[n]
    BY <1>6, <1>11
  <2>2. g[0] \in B[0]
    BY <1>5, <1>11
  <2>3. \A n \in 0..p : g[n] \in B[n]
    BY <1>1, <2>1, <2>2, Stays
  <2> QED
    BY <1>7, <2>3
<1> DEFINE M == [i \in 1..(p + 1) |-> g[p + 1 - i]]
<1>13. /\ M \in [1..(p + 1) -> V] /\ M[p + 1] = {l + 1} /\ M[1] = g[p]
       /\ \A i \in 1..p : M[i] = turn(p + 1 - i, M[i + 1])
  <2>1. \A i \in 1..(p + 1) : p + 1 - i \in 0..p
    BY <1>1
  <2>2. p + 1 - (p + 1) = 0 /\ p + 1 - 1 = p /\ p + 1 \in 1..(p + 1) /\ 1 \in 1..(p + 1)
    BY <1>1
  <2>3. \A i \in 1..p : /\ p + 1 - i \in 1..p /\ i \in 1..(p + 1) /\ i + 1 \in 1..(p + 1)
                        /\ (p + 1 - i) - 1 = p + 1 - (i + 1)
    BY <1>1
  <2> QED
    BY <1>11, <1>12, <2>1, <2>2, <2>3
<1> HIDE DEF M
<1>14. \A i \in 1..p : p + 1 - (p + 1 - i) = i
  BY <1>1
<1>15. Fits(M, pattern, text)
  BY <1>13, <1>14 DEF Fits, p, l, turn
<1> QED
  BY <1>4, <1>13, <1>15

\* A run of the pattern without stars takes as many characters as it has.
LEMMA Segment ==
  ASSUME NEW X, NEW pattern \in Seq(X), NEW text \in Seq(X), NEW M, Fits(M, pattern, text),
         NEW i \in 1..(Len(pattern) + 1), NEW n \in Nat, i + n <= Len(pattern) + 1,
         \A q \in i..(i + n - 1) : pattern[q] # "*",
         NEW j \in M[i]
  PROVE  j + n \in M[i + n]
<1> DEFINE P == {m \in 0..n : j + m \in M[i + m]}
<1>1. Len(pattern) \in Nat /\ Len(text) \in Nat /\ i \in Nat /\ j \in Nat
  BY LenProperties DEF Fits
<1>2. 0 \in P
  BY <1>1
<1>3. ASSUME NEW m \in 0..n, m + 1 \in 0..n, m \in P
      PROVE  m + 1 \in P
  <2>1. i + m \in 1..Len(pattern) /\ i + m \in i..(i + n - 1)
    BY <1>1, <1>3
  <2>2. M[i + m] = {k \in 1..Len(text) : pattern[i + m] \in {text[k], "?"} /\ k + 1 \in M[i + m + 1]}
    BY <2>1 DEF Fits
  <2>3. (j + m) + 1 \in M[(i + m) + 1]
    BY <1>3, <2>2
  <2>4. (j + m) + 1 = j + (m + 1) /\ (i + m) + 1 = i + (m + 1)
    BY <1>1
  <2> QED
    BY <1>3, <2>3, <2>4
<1>4. \A m \in 0..n : m \in P
  <2> HIDE DEF P
  <2> QED
    BY <1>2, <1>3, Induct
<1>5. n \in 0..n
  OBVIOUS
<1> QED
  BY <1>4, <1>5

\* At the end of the text, the rest of the pattern has to be stars.
LEMMA AtTheEnd ==
  ASSUME NEW X, NEW pattern \in Seq(X), NEW text \in Seq(X), NEW M, Fits(M, pattern, text),
         NEW i \in 1..(Len(pattern) + 1)
  PROVE  Len(text) + 1 \in M[i] <=> \A k \in i..Len(pattern) : pattern[k] = "*"
<1> DEFINE p == Len(pattern)
           l == Len(text)
           Stars(h) == \A k \in h..p : pattern[k] = "*"
           P == {n \in 0..p : l + 1 \in M[p + 1 - n] <=> Stars(p + 1 - n)}
<1>1. p \in Nat /\ l \in Nat
  BY LenProperties
<1>2. 0 \in P
  BY <1>1 DEF Fits
<1>3. ASSUME NEW n \in 0..p, n + 1 \in 0..p, n \in P
      PROVE  n + 1 \in P
  <2> DEFINE h == p + 1 - (n + 1)
  <2>1. h \in 1..p /\ h + 1 = p + 1 - n
    BY <1>1, <1>3
  <2>2. M[h + 1] \subseteq 1..(l + 1)
    <3>1. h + 1 \in 1..(p + 1)
      BY <1>1, <2>1
    <3> QED
      BY <3>1 DEF Fits
  <2>3. M[h] = IF pattern[h] = "*" THEN {j \in 1..(l + 1) : \E k \in M[h + 1] : j <= k}
               ELSE {j \in 1..l : pattern[h] \in {text[j], "?"} /\ j + 1 \in M[h + 1]}
    BY <2>1 DEF Fits
  <2>4. Stars(h) <=> pattern[h] = "*" /\ Stars(h + 1)
    BY <1>1, <2>1
  <2>5. l + 1 \in M[h + 1] <=> Stars(h + 1)
    BY <1>3, <2>1
  <2> HIDE DEF h, Stars, p, l
  <2>6. CASE pattern[h] = "*"
    <3>1. \A k \in M[h + 1] : l + 1 <= k => k = l + 1
      BY <1>1, <2>2
    <3>2. l + 1 \in M[h] <=> l + 1 \in M[h + 1]
      BY <1>1, <2>3, <2>6, <3>1
    <3> QED
      BY <1>3, <2>4, <2>5, <2>6, <3>2 DEF h
  <2>7. CASE pattern[h] # "*"
    <3>1. l + 1 \notin M[h]
      BY <1>1, <2>3, <2>7
    <3> QED
      BY <1>3, <2>4, <2>7, <3>1 DEF h
  <2> QED
    BY <2>6, <2>7
<1>4. \A n \in 0..p : n \in P
  <2> HIDE DEF P
  <2> QED
    BY <1>1, <1>2, <1>3, Induct
<1>5. p + 1 - i \in 0..p /\ p + 1 - (p + 1 - i) = i
  BY <1>1
<1> QED
  BY <1>4, <1>5

-----------------------------------------------------------------------------
(* The scan.                                                                  *)

\* Where the scan goes from a place within the text: over a character that fits, past a
\* star, or back to the last star, whose share grows by one.
Fitting(at, pattern, text) == at.pi <= Len(pattern) /\ pattern[at.pi] \in {text[at.ti], "?"}
Starred(at, pattern) == at.pi <= Len(pattern) /\ pattern[at.pi] = "*"
Over(at) == At(at.pi + 1, at.ti + 1, at.star, at.from)
Past(at) == At(at.pi + 1, at.ti, at.pi, at.ti)
Back(at) == At(at.star + 1, at.from + 1, at.star, at.from + 1)
Start == At(1, 1, 0, 0)

Scans(F, pattern, text) ==
    \A at \in Places :
        F[at] = IF at.ti > Len(text) THEN \A k \in at.pi..Len(pattern) : pattern[k] = "*"
                ELSE IF Fitting(at, pattern, text) THEN F[Over(at)]
                ELSE IF Starred(at, pattern) THEN F[Past(at)]
                ELSE at.star # 0 /\ F[Back(at)]

LEMMA NextPlaces ==
  ASSUME NEW at \in Places
  PROVE  Over(at) \in Places /\ Past(at) \in Places /\ Back(at) \in Places
  BY DEF Places, Over, Past, Back, At

LEMMA ScanIs ==
  ASSUME NEW X, NEW pattern \in Seq(X), NEW text \in Seq(X)
  PROVE  \E F : Scans(F, pattern, text) /\ GlobMatch(pattern, text) = F[Start]
<1> DEFINE End(at) == at.ti > Len(text)
           Stars(at) == \A k \in at.pi..Len(pattern) : pattern[k] = "*"
           Body(F, at) == IF End(at) THEN Stars(at)
                          ELSE IF Fitting(at, pattern, text) THEN F[Over(at)]
                          ELSE IF Starred(at, pattern) THEN F[Past(at)]
                          ELSE at.star # 0 /\ F[Back(at)]
           Def(F) == F = [at \in Places |-> Body(F, at)]
           g == CHOOSE F : Def(F)
           yes == {at \in Places : End(at) /\ Stars(at)}
           go == {at \in Places : ~End(at) /\ (Fitting(at, pattern, text) \/ Starred(at, pattern) \/ at.star # 0)}
           to == [at \in Places |-> IF Fitting(at, pattern, text) THEN Over(at)
                                    ELSE IF Starred(at, pattern) THEN Past(at) ELSE Back(at)]
<1>1. GlobMatch(pattern, text) = g[Start]
  BY DEF GlobMatch, Start, Over, Past, Back, Fitting, Starred
<1>2. to \in [Places -> Places]
  BY NextPlaces
<1> HIDE DEF End, Stars
<1>3. PICK F : HandsOn(F, Places, yes, go, to)
  <2> HIDE DEF yes, go, to
  <2> QED
    BY <1>2, HandingOn
<1>4. F \in [Places -> BOOLEAN]
  BY <1>3 DEF HandsOn
<1>5. ASSUME NEW at \in Places
      PROVE  F[at] = Body(F, at)
  <2>1. Over(at) \in Places /\ Past(at) \in Places /\ Back(at) \in Places
    BY NextPlaces
  <2>2. F[at] \in BOOLEAN /\ F[Over(at)] \in BOOLEAN /\ F[Past(at)] \in BOOLEAN /\ F[Back(at)] \in BOOLEAN
    BY <1>4, <2>1
  <2>3. F[at] <=> at \in yes \/ (at \in go /\ F[to[at]])
    BY <1>3 DEF HandsOn
  <2>4. to[at] = IF Fitting(at, pattern, text) THEN Over(at)
                 ELSE IF Starred(at, pattern) THEN Past(at) ELSE Back(at)
    OBVIOUS
  <2>5. F[at] <=> Body(F, at)
    BY <2>1, <2>2, <2>3, <2>4
  <2>6. Body(F, at) \in BOOLEAN
    BY <2>1, <2>2 DEF Stars
  <2> QED
    BY <2>2, <2>5, <2>6
<1>6. Def(F)
  <2> HIDE DEF Body
  <2> QED
    BY <1>3, <1>5 DEF HandsOn
<1>7. Def(g)
  <2> HIDE DEF Def
  <2> QED
    BY <1>6
<1> HIDE DEF g
<1>8. \A at \in Places : g[at] = Body(g, at)
  <2> HIDE DEF Body
  <2> QED
    BY <1>7
<1>9. Scans(g, pattern, text)
  BY <1>8, NextPlaces DEF Scans, End, Stars
<1> QED
  BY <1>1, <1>9

\* A place the scan reaches: what it has compared since the last star fits so far.
Reached(at, pattern, text) ==
    /\ at \in Places /\ at.pi \in 1..(Len(pattern) + 1) /\ at.ti \in 1..(Len(text) + 1)
    /\ at.star \in 0..Len(pattern) /\ at.from \in 0..(Len(text) + 1)
    /\ at.star < at.pi
    /\ at.star # 0 =>
         /\ pattern[at.star] = "*" /\ at.from >= 1
         /\ at.ti - at.from = at.pi - (at.star + 1)
         /\ \A q \in (at.star + 1)..(at.pi - 1) : pattern[q] # "*"

\* What the scan decides there: the rest fits, or would with a larger share of the star.
Decides(at, M) ==
    at.ti \in M[at.pi] \/ (at.star # 0 /\ \E k \in M[at.star + 1] : k > at.from)

LEMMA MeaningSets ==
  ASSUME NEW X, NEW pattern \in Seq(X), NEW text \in Seq(X), NEW M, Fits(M, pattern, text)
  PROVE  /\ Len(pattern) \in Nat /\ Len(text) \in Nat
         /\ \A i \in 1..(Len(pattern) + 1) : M[i] \subseteq 1..(Len(text) + 1)
  BY LenProperties DEF Fits

LEMMA Numbers ==
  ASSUME NEW X, NEW pattern \in Seq(X), NEW text \in Seq(X), NEW at, Reached(at, pattern, text)
  PROVE  /\ Len(pattern) \in Nat /\ Len(text) \in Nat /\ at \in Places
         /\ at.pi \in Nat /\ at.ti \in Nat /\ at.star \in Nat /\ at.from \in Nat
         /\ at.pi >= 1 /\ at.pi <= Len(pattern) + 1 /\ at.ti >= 1 /\ at.ti <= Len(text) + 1
         /\ at.star < at.pi /\ at.star <= Len(pattern) /\ at.from <= Len(text) + 1
         /\ at.star # 0 => at.ti - at.from = at.pi - (at.star + 1)
<1>1. Len(pattern) \in Nat /\ Len(text) \in Nat
  BY LenProperties
<1>2. at \in Places /\ at.pi \in Nat /\ at.ti \in Nat /\ at.star \in Nat /\ at.from \in Nat
  BY DEF Reached, Places
<1> QED
  BY <1>1, <1>2 DEF Reached

\* With a larger share of the star, what was compared since would fit further on.
LEMMA LaterShare ==
  ASSUME NEW X, NEW pattern \in Seq(X), NEW text \in Seq(X), NEW M, Fits(M, pattern, text),
         NEW at, Reached(at, pattern, text), at.star # 0,
         NEW k \in M[at.star + 1], k > at.from
  PROVE  \E j \in M[at.pi] : j > at.ti
<1> DEFINE i == at.star + 1
           n == at.pi - i
<1>1. /\ Len(pattern) \in Nat /\ Len(text) \in Nat
      /\ at.pi \in Nat /\ at.ti \in Nat /\ at.star \in Nat /\ at.from \in Nat
      /\ at.pi <= Len(pattern) + 1 /\ at.star < at.pi /\ at.ti - at.from = n
  BY Numbers
<1>2. i \in 1..(Len(pattern) + 1) /\ n \in Nat /\ i + n = at.pi /\ i + n - 1 = at.pi - 1
  <2>1. i \in 1..(Len(pattern) + 1)
    BY <1>1
  <2>2. n \in Nat
    BY <1>1
  <2>3. i + n = at.pi
    BY <1>1
  <2>4. i + n - 1 = at.pi - 1
    BY <1>1
  <2> QED
    BY <2>1, <2>2, <2>3, <2>4
<1>3. k \in Nat
  BY <1>2, MeaningSets
<1> HIDE DEF i, n
<1>4. k + n \in M[i + n]
  <2>1. k \in M[i]
    BY DEF i
  <2>2. \A q \in i..(i + n - 1) : pattern[q] # "*"
    BY <1>2 DEF Reached, i
  <2>3. i + n <= Len(pattern) + 1
    BY <1>1, <1>2
  <2> QED
    BY <1>2, <2>1, <2>2, <2>3, Segment
<1>5. k + n > at.ti
  BY <1>1, <1>2, <1>3
<1> QED
  BY <1>2, <1>4, <1>5

LEMMA AtEnd ==
  ASSUME NEW X, NEW pattern \in Seq(X), NEW text \in Seq(X), NEW M, Fits(M, pattern, text),
         NEW at, Reached(at, pattern, text), at.ti > Len(text)
  PROVE  Decides(at, M) <=> \A k \in at.pi..Len(pattern) : pattern[k] = "*"
<1>1. at.ti = Len(text) + 1 /\ at.pi \in 1..(Len(pattern) + 1)
  BY MeaningSets DEF Reached
<1>2. ~(at.star # 0 /\ \E k \in M[at.star + 1] : k > at.from)
  <2> SUFFICES ASSUME at.star # 0, NEW k \in M[at.star + 1], k > at.from
               PROVE  FALSE
    OBVIOUS
  <2>1. PICK j \in M[at.pi] : j > at.ti
    BY LaterShare
  <2>2. j \in 1..(Len(text) + 1) /\ Len(text) \in Nat
    BY <1>1, MeaningSets
  <2> QED
    BY <1>1, <2>1, <2>2
<1> QED
  BY <1>1, <1>2, AtTheEnd DEF Decides

LEMMA OverFits ==
  ASSUME NEW X, NEW pattern \in Seq(X), NEW text \in Seq(X), NEW M, Fits(M, pattern, text),
         NEW at, Reached(at, pattern, text), at.ti <= Len(text), text[at.ti] # "*",
         Fitting(at, pattern, text)
  PROVE  Reached(Over(at), pattern, text) /\ (Decides(Over(at), M) <=> Decides(at, M))
<1> DEFINE o == Over(at)
<1>1. /\ Len(pattern) \in Nat /\ Len(text) \in Nat /\ at \in Places
      /\ at.pi \in 1..Len(pattern) /\ at.ti \in 1..Len(text) /\ at.star \in Nat /\ at.from \in Nat
      /\ pattern[at.pi] # "*" /\ pattern[at.pi] \in {text[at.ti], "?"}
      /\ at.star < at.pi /\ at.star <= Len(pattern) /\ at.from <= Len(text) + 1
      /\ at.star # 0 => at.ti - at.from = at.pi - (at.star + 1)
  BY Numbers DEF Fitting
<1>2. o \in Places /\ o.pi = at.pi + 1 /\ o.ti = at.ti + 1 /\ o.star = at.star /\ o.from = at.from
  BY <1>1, NextPlaces DEF Over, At
<1> HIDE DEF o
<1>3. \A q \in (at.star + 1)..((at.pi + 1) - 1) : q = at.pi \/ q \in (at.star + 1)..(at.pi - 1)
  BY <1>1
<1>4. Reached(o, pattern, text)
  <2>1. /\ o.pi \in 1..(Len(pattern) + 1) /\ o.ti \in 1..(Len(text) + 1) /\ o.star < o.pi
        /\ o.star \in 0..Len(pattern) /\ o.from \in 0..(Len(text) + 1)
    BY <1>1, <1>2
  <2>3. ASSUME o.star # 0
        PROVE  o.ti - o.from = o.pi - (o.star + 1)
    <3>1. /\ at.ti - at.from = at.pi - (at.star + 1) /\ at.ti \in Nat /\ at.pi \in Nat
          /\ at.from \in Nat /\ at.star \in Nat
      BY <1>1, <1>2, <2>3
    <3>2. (at.ti + 1) - at.from = (at.pi + 1) - (at.star + 1)
      <4>1. PICK a \in Nat, b \in Nat, c \in Nat, e \in Nat : a = at.ti /\ b = at.from /\ c = at.pi /\ e = at.star
        BY <3>1
      <4>2. a - b = c - (e + 1)
        BY <3>1, <4>1
      <4>3. (a + 1) - b = (c + 1) - (e + 1)
        BY <4>2
      <4> QED
        BY <4>1, <4>3
    <3> QED
      BY <1>2, <3>2
  <2>2. o.star # 0 =>
          /\ pattern[o.star] = "*" /\ o.from >= 1
          /\ \A q \in (o.star + 1)..(o.pi - 1) : pattern[q] # "*"
    BY <1>1, <1>2, <1>3 DEF Reached
  <2> QED
    BY <1>2, <2>1, <2>2, <2>3 DEF Reached
<1>5. at.ti \in M[at.pi] <=> at.ti + 1 \in M[at.pi + 1]
  BY <1>1 DEF Fits
<1> QED
  BY <1>2, <1>4, <1>5 DEF Decides, o

LEMMA PastFits ==
  ASSUME NEW X, NEW pattern \in Seq(X), NEW text \in Seq(X), NEW M, Fits(M, pattern, text),
         NEW at, Reached(at, pattern, text), at.ti <= Len(text), Starred(at, pattern)
  PROVE  Reached(Past(at), pattern, text) /\ (Decides(Past(at), M) <=> Decides(at, M))
<1> DEFINE o == Past(at)
<1>1. /\ Len(pattern) \in Nat /\ Len(text) \in Nat /\ at \in Places
      /\ at.pi \in 1..Len(pattern) /\ at.ti \in 1..Len(text) /\ at.star \in Nat /\ at.from \in Nat
      /\ pattern[at.pi] = "*"
  BY Numbers DEF Starred
<1>2. o \in Places /\ o.pi = at.pi + 1 /\ o.ti = at.ti /\ o.star = at.pi /\ o.from = at.ti
  BY <1>1, NextPlaces DEF Past, At
<1> HIDE DEF o
<1>3. Reached(o, pattern, text)
  <2>1. /\ o.pi \in 1..(Len(pattern) + 1) /\ o.ti \in 1..(Len(text) + 1) /\ o.star < o.pi
        /\ o.star \in 0..Len(pattern) /\ o.from \in 0..(Len(text) + 1)
        /\ o.ti - o.from = o.pi - (o.star + 1)
        /\ (o.star + 1)..(o.pi - 1) = {}
    BY <1>1, <1>2
  <2> QED
    BY <1>1, <1>2, <2>1 DEF Reached
<1>4. M[at.pi] = {j \in 1..(Len(text) + 1) : \E k \in M[at.pi + 1] : j <= k}
  BY <1>1 DEF Fits
<1>5. M[at.pi + 1] \subseteq 1..(Len(text) + 1) /\ M[at.pi] \subseteq 1..(Len(text) + 1)
  <2>1. at.pi \in 1..(Len(pattern) + 1) /\ at.pi + 1 \in 1..(Len(pattern) + 1)
    BY <1>1
  <2> QED
    BY <2>1, MeaningSets
<1>6. at.ti \in M[at.pi] <=> Decides(o, M)
  <2>1. at.ti \in M[at.pi] <=> \E k \in M[at.pi + 1] : at.ti <= k
    BY <1>1, <1>4
  <2>2. \A k \in M[at.pi + 1] : at.ti <= k <=> k = at.ti \/ k > at.ti
    BY <1>1, <1>5
  <2> QED
    BY <1>1, <1>2, <2>1, <2>2 DEF Decides
<1>7. at.star # 0 /\ (\E k \in M[at.star + 1] : k > at.from) => at.ti \in M[at.pi]
  <2> SUFFICES ASSUME at.star # 0, NEW k \in M[at.star + 1], k > at.from
               PROVE  at.ti \in M[at.pi]
    OBVIOUS
  <2>1. PICK j \in M[at.pi] : j > at.ti
    BY LaterShare
  <2>2. PICK m \in M[at.pi + 1] : j <= m
    BY <1>4, <2>1
  <2>3. j \in Nat /\ m \in Nat /\ at.ti <= m /\ at.ti \in 1..(Len(text) + 1)
    BY <1>1, <1>5, <2>1, <2>2
  <2> QED
    BY <1>4, <2>2, <2>3
<1> QED
  BY <1>3, <1>6, <1>7 DEF Decides, o

LEMMA BackFits ==
  ASSUME NEW X, NEW pattern \in Seq(X), NEW text \in Seq(X), NEW M, Fits(M, pattern, text),
         NEW at, Reached(at, pattern, text), at.ti <= Len(text),
         ~Fitting(at, pattern, text), ~Starred(at, pattern)
  PROVE  /\ at.star = 0 => ~Decides(at, M)
         /\ at.star # 0 => Reached(Back(at), pattern, text) /\ (Decides(Back(at), M) <=> Decides(at, M))
<1>1. /\ Len(pattern) \in Nat /\ Len(text) \in Nat /\ at \in Places
      /\ at.pi \in 1..(Len(pattern) + 1) /\ at.ti \in 1..Len(text) /\ at.star \in 0..Len(pattern)
      /\ at.star < at.pi /\ at.from \in Nat /\ at.pi \in Nat
      /\ at.star # 0 => at.ti - at.from = at.pi - (at.star + 1)
  BY Numbers
<1>2. at.ti \notin M[at.pi]
  <2>1. CASE at.pi = Len(pattern) + 1
    BY <1>1, <2>1 DEF Fits
  <2>2. CASE at.pi \in 1..Len(pattern)
    <3>1. pattern[at.pi] # "*" /\ pattern[at.pi] \notin {text[at.ti], "?"}
      BY <1>1, <2>2 DEF Fitting, Starred
    <3>2. M[at.pi] = {j \in 1..Len(text) : pattern[at.pi] \in {text[j], "?"} /\ j + 1 \in M[at.pi + 1]}
      BY <2>2, <3>1 DEF Fits
    <3> QED
      BY <3>1, <3>2
  <2> QED
    BY <1>1, <2>1, <2>2
<1>3. ASSUME at.star # 0
      PROVE  Reached(Back(at), pattern, text) /\ (Decides(Back(at), M) <=> Decides(at, M))
  <2> DEFINE o == Back(at)
  <2>1. o \in Places /\ o.pi = at.star + 1 /\ o.ti = at.from + 1 /\ o.star = at.star /\ o.from = at.from + 1
    BY <1>1, NextPlaces DEF Back, At
  <2> HIDE DEF o
  <2>2. at.from <= at.ti /\ pattern[at.star] = "*" /\ at.from >= 1
    BY <1>1, <1>3 DEF Reached
  <2>3. Reached(o, pattern, text)
    <3>1. /\ o.pi \in 1..(Len(pattern) + 1) /\ o.ti \in 1..(Len(text) + 1) /\ o.star < o.pi
          /\ o.star \in 0..Len(pattern) /\ o.from \in 0..(Len(text) + 1) /\ o.from >= 1
          /\ o.ti - o.from = o.pi - (o.star + 1)
      BY <1>1, <2>1, <2>2
    <3>2. (o.star + 1)..(o.pi - 1) = {}
      BY <1>1, <2>1
    <3> QED
      BY <2>1, <2>2, <3>1, <3>2 DEF Reached
  <2>4. M[at.star + 1] \subseteq 1..(Len(text) + 1)
    BY <1>1, MeaningSets
  <2>5. \A k \in M[at.star + 1] : k > at.from <=> k = at.from + 1 \/ k > at.from + 1
    BY <1>1, <2>4
  <2> QED
    BY <1>2, <1>3, <2>1, <2>3, <2>5 DEF Decides, o
<1> QED
  BY <1>2, <1>3 DEF Decides

\* The scan comes to an end, and decides what is left to decide.
LEMMA ScanDecides ==
  ASSUME NEW X, NEW pattern \in Seq(X), NEW text \in Seq(X), NEW M, Fits(M, pattern, text),
         \A k \in 1..Len(text) : text[k] # "*",
         NEW F, Scans(F, pattern, text)
  PROVE  \A at : Reached(at, pattern, text) => (F[at] <=> Decides(at, M))
<1> DEFINE p == Len(pattern)
           l == Len(text)
           Wrong == {at \in Places : Reached(at, pattern, text) /\ ~(F[at] <=> Decides(at, M))}
           a == [at \in Wrong |-> p - at.star]
           b == [at \in Wrong |-> l + 1 - at.from]
           c == [at \in Wrong |-> l + 1 - at.ti]
<1> SUFFICES ASSUME Wrong # {}
             PROVE  FALSE
  BY DEF Reached
<1>1. p \in Nat /\ l \in Nat
  BY MeaningSets
<1>2. ASSUME NEW at, Reached(at, pattern, text)
      PROVE  /\ at \in Places /\ p - at.star \in Nat /\ l + 1 - at.from \in Nat /\ l + 1 - at.ti \in Nat
             /\ at.pi \in Nat /\ at.ti \in Nat /\ at.star \in Nat /\ at.from \in Nat
  <2>1. /\ at \in Places /\ at.pi \in Nat /\ at.ti \in Nat /\ at.star \in Nat /\ at.from \in Nat
        /\ at.star <= p /\ at.from <= l + 1 /\ at.ti <= l + 1
    BY <1>2, Numbers
  <2> QED
    BY <1>1, <2>1
<1>3. a \in [Wrong -> Nat] /\ b \in [Wrong -> Nat] /\ c \in [Wrong -> Nat]
  BY <1>2
<1>4. PICK x \in Wrong : LeastOf(x, Wrong, a, b, c)
  <2>1. Wrong # {}
    OBVIOUS
  <2> HIDE DEF Wrong, a, b, c
  <2> QED
    BY <1>3, <2>1, LeastPlace
<1>5. x \in Places /\ Reached(x, pattern, text) /\ ~(F[x] <=> Decides(x, M))
  OBVIOUS
<1>6. ASSUME NEW y, Reached(y, pattern, text),
             \/ p - y.star < p - x.star
             \/ y.star = x.star /\ l + 1 - y.from < l + 1 - x.from
             \/ y.star = x.star /\ y.from = x.from /\ l + 1 - y.ti < l + 1 - x.ti
      PROVE  F[y] <=> Decides(y, M)
  <2> SUFFICES ASSUME y \in Wrong
               PROVE  FALSE
    BY <1>2, <1>6
  <2>1. /\ p - y.star >= p - x.star
        /\ p - y.star = p - x.star => l + 1 - y.from >= l + 1 - x.from
        /\ p - y.star = p - x.star /\ l + 1 - y.from = l + 1 - x.from => l + 1 - y.ti >= l + 1 - x.ti
    BY <1>4 DEF LeastOf
  <2>2. /\ p - y.star \in Nat /\ p - x.star \in Nat /\ l + 1 - y.from \in Nat /\ l + 1 - x.from \in Nat
        /\ l + 1 - y.ti \in Nat /\ l + 1 - x.ti \in Nat
    BY <1>2, <1>5, <1>6
  <2> QED
    BY <1>6, <2>1, <2>2
<1>7. x.star \in Nat /\ x.pi \in Nat /\ x.ti \in Nat /\ x.from \in Nat /\ x.star < x.pi
  BY <1>2, <1>5 DEF Reached
<1>8. CASE x.ti > l
  <2>1. F[x] = \A k \in x.pi..Len(pattern) : pattern[k] = "*"
    BY <1>5, <1>8 DEF Scans
  <2> QED
    BY <1>5, <1>8, <2>1, AtEnd
<1>9. CASE x.ti <= l /\ Fitting(x, pattern, text)
  <2>0. ~(x.ti > Len(text))
    BY <1>1, <1>7, <1>9
  <2>1. F[x] = F[Over(x)]
    BY <1>5, <1>9, <2>0 DEF Scans
  <2>2. text[x.ti] # "*"
    BY <1>5, <1>9 DEF Reached
  <2>3. Reached(Over(x), pattern, text) /\ (Decides(Over(x), M) <=> Decides(x, M))
    BY <1>5, <1>9, <2>2, OverFits
  <2>4. Over(x).star = x.star /\ Over(x).from = x.from /\ l + 1 - Over(x).ti < l + 1 - x.ti
    BY <1>1, <1>7 DEF Over, At
  <2> QED
    BY <1>5, <1>6, <2>1, <2>3, <2>4
<1>10. CASE x.ti <= l /\ ~Fitting(x, pattern, text) /\ Starred(x, pattern)
  <2>0. ~(x.ti > Len(text))
    BY <1>1, <1>7, <1>10
  <2>1. F[x] = F[Past(x)]
    BY <1>5, <1>10, <2>0 DEF Scans
  <2>2. Reached(Past(x), pattern, text) /\ (Decides(Past(x), M) <=> Decides(x, M))
    BY <1>5, <1>10, PastFits
  <2>3. p - Past(x).star < p - x.star
    BY <1>1, <1>7 DEF Past, At
  <2> QED
    BY <1>5, <1>6, <2>1, <2>2, <2>3
<1>11. CASE x.ti <= l /\ ~Fitting(x, pattern, text) /\ ~Starred(x, pattern)
  <2>0. ~(x.ti > Len(text))
    BY <1>1, <1>7, <1>11
  <2>1. F[x] = (x.star # 0 /\ F[Back(x)])
    BY <1>5, <1>11, <2>0 DEF Scans
  <2>2. /\ x.star = 0 => ~Decides(x, M)
        /\ x.star # 0 => Reached(Back(x), pattern, text) /\ (Decides(Back(x), M) <=> Decides(x, M))
    BY <1>5, <1>11, BackFits
  <2>3. Back(x).star = x.star /\ l + 1 - Back(x).from < l + 1 - x.from
    BY <1>1, <1>7 DEF Back, At
  <2>4. CASE x.star = 0
    BY <1>5, <2>1, <2>2, <2>4
  <2>5. CASE x.star # 0
    BY <1>5, <1>6, <2>1, <2>2, <2>3, <2>5
  <2> QED
    BY <2>4, <2>5
<1> QED
  BY <1>1, <1>7, <1>8, <1>9, <1>10, <1>11

\* glob_match decides whether the text is one the pattern stands for, for every pattern and
\* every text without a star of its own (model.cpp, glob_match).
THEOREM GlobCorrect ==
  ASSUME NEW X, NEW pattern \in Seq(X), NEW text \in Seq(X),
         \A k \in 1..Len(text) : text[k] # "*"
  PROVE  GlobMatch(pattern, text) <=> Matches(pattern, text)
<1>1. PICK M : Fits(M, pattern, text) /\ Matches(pattern, text) = (1 \in M[1])
  BY MatchesIs
<1>2. PICK F : Scans(F, pattern, text) /\ GlobMatch(pattern, text) = F[Start]
  BY ScanIs
<1>3. Start.pi = 1 /\ Start.ti = 1 /\ Start.star = 0 /\ Start.from = 0 /\ Start \in Places
  BY DEF Start, At, Places
<1>4. Reached(Start, pattern, text)
  <2>1. Len(pattern) \in Nat /\ Len(text) \in Nat
    BY LenProperties
  <2> QED
    BY <1>3, <2>1 DEF Reached
<1>5. F[Start] <=> Decides(Start, M)
  BY <1>1, <1>2, <1>4, ScanDecides
<1>6. Decides(Start, M) <=> 1 \in M[1]
  BY <1>3 DEF Decides
<1> QED
  BY <1>1, <1>2, <1>5, <1>6

-----------------------------------------------------------------------------
(* The filters.                                                               *)

\* What a packet's text is made of: no star is among it.
Numerals == {"0", "1", "2", "3", "4", "5", "6", "7", "8", "9"}
Words == Numerals \cup {"vlan:", " size:"}

Decimals(f, n) ==
    f = [k \in 0..n |-> IF k < 10 THEN <<Digits[k + 1]>>
                        ELSE Append(f[k \div 10], Digits[(k % 10) + 1])]

LEMMA Tenth ==
  ASSUME NEW k \in Nat, k >= 10
  PROVE  k \div 10 \in Nat /\ k \div 10 < k /\ (k % 10) + 1 \in 1..10
  OBVIOUS

LEMMA DigitsAre == \A k \in 1..10 : Digits[k] \in Numerals
<1>1. \A k \in 1..10 : k = 1 \/ k = 2 \/ k = 3 \/ k = 4 \/ k = 5 \/ k = 6 \/ k = 7 \/ k = 8 \/ k = 9 \/ k = 10
  OBVIOUS
<1> QED
  BY <1>1 DEF Digits, Numerals

LEMMA DecimalsExist ==
  ASSUME NEW n \in Nat
  PROVE  \E f : Decimals(f, n)
<1> DEFINE P == {m \in 0..n : \E f : Decimals(f, m)}
           turn(f, k) == IF k < 10 THEN <<Digits[k + 1]>>
                         ELSE Append(f[k \div 10], Digits[(k % 10) + 1])
<1>1. 0 \in P
  <2> DEFINE f == [k \in 0..0 |-> <<Digits[k + 1]>>]
  <2>1. Decimals(f, 0)
    BY DEF Decimals
  <2> QED
    BY <2>1
<1>2. ASSUME NEW m \in 0..n, m + 1 \in 0..n, m \in P
      PROVE  m + 1 \in P
  <2>1. PICK f : Decimals(f, m)
    BY <1>2
  <2> DEFINE g == [k \in 0..(m + 1) |-> turn(f, k)]
  <2>2. \A k \in 0..m : g[k] = f[k]
    <3>1. \A k \in 0..m : f[k] = turn(f, k)
      BY <2>1 DEF Decimals
    <3>2. \A k \in 0..m : g[k] = turn(f, k)
      <4> HIDE DEF turn
      <4> QED
        BY <1>2
    <3> QED
      BY <3>1, <3>2
  <2>3. \A k \in 0..(m + 1) : k >= 10 => k \div 10 \in 0..m
    <3> TAKE k \in 0..(m + 1)
    <3> HAVE k >= 10
    <3>1. k \div 10 \in Nat /\ k \div 10 < k
      BY Tenth
    <3> QED
      BY <3>1
  <2>4. \A k \in 0..(m + 1) : turn(f, k) = turn(g, k)
    <3> TAKE k \in 0..(m + 1)
    <3>1. CASE k < 10
      BY <3>1
    <3>2. CASE k >= 10
      <4>1. g[k \div 10] = f[k \div 10]
        BY <2>2, <2>3, <3>2
      <4> HIDE DEF g
      <4> QED
        BY <3>2, <4>1
    <3> QED
      BY <3>1, <3>2
  <2>5. Decimals(g, m + 1)
    <3>1. g = [k \in 0..(m + 1) |-> turn(g, k)]
      <4> HIDE DEF turn
      <4> QED
        BY <2>4
    <3> QED
      BY <3>1 DEF Decimals
  <2> QED
    BY <1>2, <2>5
<1>3. \A m \in 0..n : m \in P
  <2> HIDE DEF P
  <2> QED
    BY <1>1, <1>2, Induct
<1> QED
  BY <1>3

LEMMA DecimalIs ==
  ASSUME NEW n \in Nat
  PROVE  Decimal(n) \in Seq(Numerals)
<1> DEFINE f == CHOOSE g : Decimals(g, n)
           T == {k \in 0..n : f[k] \notin Seq(Numerals)}
<1>1. Decimal(n) = f[n]
  BY DEF Decimal, Decimals
<1>2. Decimals(f, n)
  BY DecimalsExist
<1> HIDE DEF f
<1>3. ASSUME T # {}
      PROVE  FALSE
  <2>1. PICK x \in T : \A y \in T : x <= y
    <3>1. T \subseteq Nat
      OBVIOUS
    <3> HIDE DEF T
    <3> QED
      BY <1>3, <3>1, Least
  <2>2. f[x] = IF x < 10 THEN <<Digits[x + 1]>> ELSE Append(f[x \div 10], Digits[(x % 10) + 1])
    BY <1>2 DEF Decimals
  <2>3. x \in 0..n /\ f[x] \notin Seq(Numerals)
    OBVIOUS
  <2>4. CASE x < 10
    <3>1. Digits[x + 1] \in Numerals
      BY <2>3, <2>4, DigitsAre
    <3> QED
      BY <2>2, <2>3, <2>4, <3>1
  <2>5. CASE x >= 10
    <3>1. x \div 10 \in Nat /\ x \div 10 < x /\ Digits[(x % 10) + 1] \in Numerals
      BY <2>3, <2>5, Tenth, DigitsAre
    <3>2. f[x \div 10] \in Seq(Numerals)
      BY <2>1, <2>3, <3>1
    <3>3. f[x] = Append(f[x \div 10], Digits[(x % 10) + 1])
      BY <2>2, <2>3, <2>5
    <3> QED
      BY <2>3, <3>1, <3>2, <3>3, AppendProperties
  <2> QED
    BY <2>3, <2>4, <2>5
<1> QED
  BY <1>1, <1>3

LEMMA ReprIs ==
  ASSUME NEW p, p.vlan \in Nat, p.size \in Nat
  PROVE  Repr(p) \in Seq(Words) /\ \A k \in 1..Len(Repr(p)) : Repr(p)[k] # "*"
<1>1. Decimal(p.vlan) \in Seq(Words) /\ Decimal(p.size) \in Seq(Words)
  <2>1. Decimal(p.vlan) \in Seq(Numerals) /\ Decimal(p.size) \in Seq(Numerals) /\ Numerals \subseteq Words
    BY DecimalIs DEF Words
  <2> QED
    BY <2>1
<1>2. <<"vlan:">> \in Seq(Words) /\ <<" size:">> \in Seq(Words)
  BY DEF Words
<1>3. Repr(p) \in Seq(Words)
  BY <1>1, <1>2, ConcatProperties DEF Repr
<1>4. \A w \in Words : w # "*"
  BY DEF Words, Numerals
<1>5. \A k \in 1..Len(Repr(p)) : Repr(p)[k] \in Words
  BY <1>3, ElementOfSeq
<1> QED
  BY <1>3, <1>4, <1>5

\* The rules the panel makes, over any set of characters.
Rules(chars) == [type : {"Include", "Exclude"}, expr : Seq(chars)]

\* passes_filters lets a packet through exactly when every Include pattern stands for its
\* text and no Exclude pattern does (model.cpp, passes_filters).
THEOREM FiltersSelect ==
  ASSUME NEW chars, NEW rules \in Seq(Rules(chars)), NEW p, p.vlan \in Nat, p.size \in Nat
  PROVE  PassesFilters(rules, p) <=> Selects(rules, p)
<1>1. \A k \in DOMAIN rules :
        /\ rules[k].type \in {"Include", "Exclude"}
        /\ GlobMatch(rules[k].expr, Repr(p)) <=> Matches(rules[k].expr, Repr(p))
  <2> TAKE k \in DOMAIN rules
  <2> DEFINE X == chars \cup Words
  <2>1. rules[k] \in Rules(chars)
    BY LenProperties, ElementOfSeq
  <2>2. rules[k].expr \in Seq(chars) /\ rules[k].type \in {"Include", "Exclude"}
    BY <2>1 DEF Rules
  <2>3. rules[k].expr \in Seq(X) /\ Repr(p) \in Seq(X)
    <3>1. chars \subseteq X /\ Words \subseteq X
      OBVIOUS
    <3> HIDE DEF X
    <3> QED
      BY <2>2, <3>1, ReprIs
  <2> QED
    BY <2>2, <2>3, ReprIs, GlobCorrect
<1>2. PassesFilters(rules, p) <=>
        \A k \in DOMAIN rules : GlobMatch(rules[k].expr, Repr(p)) <=> rules[k].type = "Include"
  BY DEF PassesFilters
<1>3. Selects(rules, p) <=>
        \A k \in DOMAIN rules : Matches(rules[k].expr, Repr(p)) <=> rules[k].type = "Include"
  BY <1>1 DEF Selects
<1> QED
  BY <1>1, <1>2, <1>3
=============================================================================
