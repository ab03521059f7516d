--------------------------- MODULE SqlGuardProofs ---------------------------
(* What the proof system checks about SqlGuard, for texts of any length    *)
(* over the characters of Chunks.                                          *)
EXTENDS SqlGuard, FiniteSetTheorems, WellFoundedInduction, TLAPS

-----------------------------------------------------------------------------
(* Induction. The theorems of the library that have the name want an       *)
(* operator, which the provers cannot instantiate; a set does as well.     *)

\* A non-empty set of naturals has a least element.
LEMMA LeastNat ==
  ASSUME NEW T \in SUBSET Nat, T # {}
  PROVE  \E x \in T : \A y \in T : x <= y
<1> DEFINE R == OpToRel(<, Nat)
<1>1. IsWellFoundedOn(R, Nat) BY NatLessThanWellFounded
<1>2. \A i, j \in Nat : <<i, j>> \in R <=> i < j BY DEF OpToRel
<1> HIDE DEF R
<1>3. PICK x \in T : \A y \in T : <<y, x>> \notin R BY <1>1, WFMin
<1>4. ASSUME NEW y \in T PROVE x <= y
  <2>1. x \in Nat /\ y \in Nat /\ <<y, x>> \notin R BY <1>3
  <2> QED BY <1>2, <2>1
<1> QED BY <1>4

\* What holds at a, and at the successor of where it holds, holds up to b.
LEMMA Upwards ==
  ASSUME NEW a \in Nat, NEW b \in Nat, NEW S, a \in S,
         \A i \in a .. b - 1 : i \in S => i + 1 \in S
  PROVE  a..b \subseteq S
<1> DEFINE T == {i \in a..b : i \notin S}
<1>1. SUFFICES ASSUME T # {} PROVE FALSE OBVIOUS
<1>2. T \in SUBSET Nat OBVIOUS
<1>3. PICK x \in T : \A y \in T : x <= y BY <1>1, <1>2, LeastNat
<1>4. x # a /\ x \in a..b /\ x \notin S BY <1>3
<1>5. x - 1 \in a .. b - 1 /\ x - 1 \notin T BY <1>3, <1>4
<1>6. x - 1 \in S BY <1>5
<1> QED BY <1>4, <1>5, <1>6

\* What holds at a position once it holds at all later ones holds everywhere.
LEMMA Downwards ==
  ASSUME NEW n \in Nat, NEW S,
         \A i \in 1..n : (\A j \in i + 1 .. n : j \in S) => i \in S
  PROVE  1..n \subseteq S
<1> DEFINE T == {k \in 0 .. n - 1 : n - k \notin S}
<1>1. SUFFICES ASSUME T # {} PROVE FALSE
  <2>1. ASSUME NEW i \in 1..n, i \notin S PROVE n - i \in T
    <3>1. n - i \in 0 .. n - 1 /\ n - (n - i) = i OBVIOUS
    <3> QED BY <2>1, <3>1
  <2> QED BY <2>1
<1>2. T \in SUBSET Nat OBVIOUS
<1>3. PICK x \in T : \A y \in T : x <= y BY <1>1, <1>2, LeastNat
<1>4. x \in 0 .. n - 1 /\ n - x \in 1..n /\ n - x \notin S BY <1>3
<1>5. ASSUME NEW j \in n - x + 1 .. n PROVE j \in S
  <2>1. n - j \in 0 .. n - 1 /\ n - j < x /\ n - (n - j) = j BY <1>4
  <2>2. n - j \notin T BY <1>3, <1>4, <2>1
  <2> QED BY <2>1, <2>2
<1> QED BY <1>4, <1>5

\* A fold: the values in V after each of n positions, from start on, where step
\* gives the next value from the last one and the position.
Steps(V, n, step) == step \in [V \X (1..n) -> V]
Fold(V, start, n, step, f) ==
  /\ f \in [0..n -> V]
  /\ f[0] = start
  /\ \A i \in 1..n : f[i] = step[<<f[i - 1], i>>]

LEMMA FoldExists ==
  ASSUME NEW V, NEW start, start \in V, NEW n, n \in Nat, NEW step, Steps(V, n, step)
  PROVE  \E f : Fold(V, start, n, step, f)
<1> USE DEF Steps
<1> DEFINE S == {m \in 0..n : \E f : Fold(V, start, m, step, f)}
<1>1. 0 \in S
  <2> DEFINE f == [i \in 0..0 |-> start]
  <2>1. Fold(V, start, 0, step, f) BY DEF Fold
  <2> HIDE DEF f
  <2> QED BY <2>1
<1>2. ASSUME NEW m \in 0 .. n - 1, m \in S PROVE m + 1 \in S
  <2>1. PICK f : Fold(V, start, m, step, f) BY <1>2
  <2>2. m \in 0..m /\ m + 1 \in 1..n /\ f[m] \in V BY <2>1 DEF Fold
  <2> DEFINE x == step[<<f[m], m + 1>>]
             g == [i \in 0 .. m + 1 |-> IF i = m + 1 THEN x ELSE f[i]]
  <2>3. x \in V BY <2>2
  <2>4. g \in [0 .. m + 1 -> V] BY <2>1, <2>3 DEF Fold
  <2>5. g[m + 1] = x /\ \A i \in 0..m : g[i] = f[i] OBVIOUS
  <2> HIDE DEF g
  <2>6. g[0] = start BY <2>1, <2>5 DEF Fold
  <2>7. ASSUME NEW i \in 1 .. m + 1 PROVE g[i] = step[<<g[i - 1], i>>]
    <3>1. CASE i = m + 1
      <4>1. i - 1 = m /\ g[i - 1] = f[m] BY <2>2, <2>5, <3>1
      <4> QED BY <2>5, <3>1, <4>1
    <3>2. CASE i # m + 1
      <4>1. i \in 1..m /\ i \in 0..m /\ i - 1 \in 0..m BY <3>2
      <4>2. f[i] = step[<<f[i - 1], i>>] BY <2>1, <4>1 DEF Fold
      <4> QED BY <2>5, <4>1, <4>2
    <3> QED BY <3>1, <3>2
  <2>8. Fold(V, start, m + 1, step, g) BY <2>4, <2>6, <2>7 DEF Fold
  <2> QED BY <2>2, <2>8
<1> HIDE DEF S
<1>3. 0..n \subseteq S BY <1>1, <1>2, Upwards
<1>4. n \in S BY <1>3
<1> QED BY <1>4 DEF S

\* What takes the same steps is that fold.
LEMMA FoldIn ==
  ASSUME NEW V, NEW start, start \in V, NEW n, n \in Nat, NEW step, Steps(V, n, step),
         NEW f, f = [i \in 0..n |-> f[i]], f[0] = start,
         \A i \in 1..n : f[i - 1] \in V => f[i] = step[<<f[i - 1], i>>]
  PROVE  Fold(V, start, n, step, f)
<1> USE DEF Steps
<1> DEFINE S == {i \in 0..n : f[i] \in V}
<1>1. 0 \in S OBVIOUS
<1>2. ASSUME NEW i \in 0 .. n - 1, i \in S PROVE i + 1 \in S
  <2>1. i + 1 \in 1..n /\ i + 1 - 1 = i /\ f[i] \in V BY <1>2
  <2> DEFINE k == i + 1
  <2>2. k \in 1..n /\ k - 1 = i BY <2>1
  <2> HIDE DEF k
  <2>3. f[k] = step[<<f[i], k>>] BY <2>1, <2>2
  <2>4. step[<<f[i], k>>] \in V BY <2>1, <2>2
  <2>5. k \in S BY <2>2, <2>3, <2>4
  <2> QED BY <2>5 DEF k
<1>3. 0..n \subseteq S
  <2> HIDE DEF S
  <2> QED BY <1>1, <1>2, Upwards
<1>4. \A i \in 0..n : f[i] \in V BY <1>3
<1>5. f \in [0..n -> V] BY <1>4
<1>6. \A i \in 1..n : i - 1 \in 0..n OBVIOUS
<1> QED BY <1>4, <1>5, <1>6 DEF Fold

-----------------------------------------------------------------------------
(* Texts.                                                                  *)

Chars == {"SELECT", "DELETE", ";", " ", "LF", "CR", "-", "/", "*", "!", "M", "'", "tick",
          "\\", "#", "[", "]", "$$"}

\* The texts the model reaches.
TextOK == text \in Seq(Chars)

LEMMA TextIsOK == Spec => []TextOK
<1>1. Init => TextOK
  <2>1. <<>> \in Seq(Chars) /\ <<"SELECT">> \in Seq(Chars) BY DEF Chars
  <2> QED BY <2>1 DEF Init, TextOK
<1>2. TextOK /\ [Next]_vars => TextOK'
  <2> SUFFICES ASSUME TextOK, [Next]_vars PROVE TextOK' OBVIOUS
  <2>1. ASSUME NEW c \in Chunks, Grow(c) PROVE TextOK'
    <3>1. \/ \E x \in Chars : c = <<x>>
          \/ \E x, y \in Chars : c = <<x, y>>
          \/ c = <<"/", "*", "!">>
          \/ c = <<"/", "*", "M", "!">>
      BY DEF Chunks, Chars
    <3>2. "/" \in Chars /\ "*" \in Chars /\ "!" \in Chars /\ "M" \in Chars BY DEF Chars
    <3>3. <<"/", "*", "!">> \in Seq(Chars) /\ <<"/", "*", "M", "!">> \in Seq(Chars) BY <3>2
    <3>4. c \in Seq(Chars)
      <4>1. ASSUME NEW x \in Chars, c = <<x>> PROVE c \in Seq(Chars) BY <4>1
      <4>2. ASSUME NEW x \in Chars, NEW y \in Chars, c = <<x, y>> PROVE c \in Seq(Chars)
        BY <4>2
      <4> QED BY <3>1, <3>3, <4>1, <4>2
    <3>5. text \o c \in Seq(Chars) BY <3>4 DEF TextOK
    <3> QED BY <2>1, <3>5 DEF Grow, TextOK
  <2>2. CASE UNCHANGED vars BY <2>2 DEF vars, TextOK
  <2> QED BY <2>1, <2>2 DEF Next
<1> QED BY <1>1, <1>2, PTL DEF Spec

LEMMA AtIn ==
  ASSUME NEW t \in Seq(Chars), NEW i \in Int
  PROVE  /\ i \in 1..Len(t) => At(t, i) = t[i] /\ At(t, i) \in Chars
         /\ i \notin 1..Len(t) => At(t, i) = "end"
         /\ At(t, i) = "end" => i \notin 1..Len(t)
<1>1. "end" \notin Chars BY DEF Chars
<1>2. DOMAIN t = 1..Len(t) OBVIOUS
<1> QED BY <1>1, <1>2 DEF At

LEMMA Has1 ==
  ASSUME NEW t, NEW i \in Int, NEW a
  PROVE  Has(t, i, <<a>>) <=> At(t, i) = a
<1>1. DOMAIN <<a>> = {1} /\ <<a>>[1] = a /\ i + 1 - 1 = i OBVIOUS
<1> QED BY <1>1 DEF Has

LEMMA Has2 ==
  ASSUME NEW t, NEW i \in Int, NEW a, NEW b
  PROVE  Has(t, i, <<a, b>>) <=> At(t, i) = a /\ At(t, i + 1) = b
<1> DEFINE s == <<a, b>>
<1>1. DOMAIN s = {1, 2} /\ s[1] = a /\ s[2] = b OBVIOUS
<1>2. i + 1 - 1 = i /\ i + 2 - 1 = i + 1 OBVIOUS
<1> QED BY <1>1, <1>2 DEF Has

LEMMA Has3 ==
  ASSUME NEW t, NEW i \in Int, NEW a, NEW b, NEW c
  PROVE  Has(t, i, <<a, b, c>>) <=> At(t, i) = a /\ At(t, i + 1) = b /\ At(t, i + 2) = c
<1> DEFINE s == <<a, b, c>>
<1>1. DOMAIN s = {1, 2, 3} /\ s[1] = a /\ s[2] = b /\ s[3] = c OBVIOUS
<1>2. i + 1 - 1 = i /\ i + 2 - 1 = i + 1 /\ i + 3 - 1 = i + 2 OBVIOUS
<1> QED BY <1>1, <1>2 DEF Has

LEMMA Has4 ==
  ASSUME NEW t, NEW i \in Int, NEW a, NEW b, NEW c, NEW d
  PROVE  Has(t, i, <<a, b, c, d>>) <=> /\ At(t, i) = a /\ At(t, i + 1) = b
                                       /\ At(t, i + 2) = c /\ At(t, i + 3) = d
<1> DEFINE s == <<a, b, c, d>>
<1>1. DOMAIN s = {1, 2, 3, 4} /\ s[1] = a /\ s[2] = b /\ s[3] = c /\ s[4] = d OBVIOUS
<1>2. /\ i + 1 - 1 = i /\ i + 2 - 1 = i + 1 /\ i + 3 - 1 = i + 2
      /\ i + 4 - 1 = i + 3
  OBVIOUS
<1> QED BY <1>1, <1>2 DEF Has

-----------------------------------------------------------------------------
(* What CR LF made LF leaves of a text.                                    *)

\* The character at i is copied; the number of those up to i.
Kept(t, i) == ~Has(t, i, <<"CR", "LF">>)
Count(t, i) == Len(Copied(t)[i])

LEMMA CopiedIs ==
  ASSUME NEW t \in Seq(Chars)
  PROVE  /\ Copied(t) \in [0..Len(t) -> Seq(Chars)]
         /\ Copied(t)[0] = <<>>
         /\ \A i \in 1..Len(t) :
              Copied(t)[i] = IF Kept(t, i) THEN Append(Copied(t)[i - 1], t[i]) ELSE Copied(t)[i - 1]
<1> DEFINE n == Len(t)
           V == Seq(Chars)
           Body(x, i) == IF Has(t, i, <<"CR", "LF">>) THEN x ELSE Append(x, t[i])
           step == [p \in V \X (1..n) |-> Body(p[1], p[2])]
           none == <<>>
           Is(g) == g = [i \in 0..n |-> IF i = 0 THEN none ELSE Body(g[i - 1], i)]
<1>1. Steps(V, n, step) BY DEF Steps
<1>2. ASSUME NEW x \in V, NEW i \in 1..n PROVE step[<<x, i>>] = Body(x, i) OBVIOUS
<1>3. n \in Nat /\ none \in V OBVIOUS
<1>4. Copied(t) = CHOOSE g : Is(g) BY DEF Copied
<1>5. \A i \in 1..n : Kept(t, i) = ~Has(t, i, <<"CR", "LF">>) BY DEF Kept
<1>6. \A x, i : Body(x, i) = IF Has(t, i, <<"CR", "LF">>) THEN x ELSE Append(x, t[i]) OBVIOUS
<1> HIDE DEF step, V, n, Body, none
<1>7. PICK f : Fold(V, none, n, step, f) BY <1>1, <1>3, FoldExists
<1>8. \A i \in 1..n : f[i] = Body(f[i - 1], i)
  <2>1. ASSUME NEW i \in 1..n PROVE f[i] = Body(f[i - 1], i)
    <3>1. i - 1 \in 0..n BY <1>3
    <3>2. f[i - 1] \in V /\ f[i] = step[<<f[i - 1], i>>] BY <1>7, <3>1 DEF Fold
    <3> QED BY <1>2, <3>2
  <2> QED BY <2>1
<1>9. Is(f) BY <1>3, <1>7, <1>8 DEF Fold
<1>10. Is(Copied(t)) BY <1>4, <1>9
<1> DEFINE g == Copied(t)
<1>11. g = [i \in 0..n |-> IF i = 0 THEN none ELSE Body(g[i - 1], i)] BY <1>10
<1> HIDE DEF g
<1>12. /\ g = [i \in 0..n |-> g[i]] /\ g[0] = none
       /\ \A i \in 1..n : g[i] = Body(g[i - 1], i)
  <2>1. \A i \in 0..n : g[i] = IF i = 0 THEN none ELSE Body(g[i - 1], i) BY <1>11
  <2> QED BY <1>3, <1>11, <2>1
<1>13. \A i \in 1..n : g[i - 1] \in V => g[i] = step[<<g[i - 1], i>>] BY <1>2, <1>12
<1>14. Fold(V, none, n, step, g) BY <1>1, <1>3, <1>12, <1>13, FoldIn
<1> QED BY <1>5, <1>6, <1>12, <1>14 DEF Fold, V, n, g, none

\* What was copied stays as it is.
LEMMA CopyGrows ==
  ASSUME NEW t \in Seq(Chars), NEW i \in 0..Len(t), NEW j \in i..Len(t)
  PROVE  /\ Count(t, i) <= Count(t, j)
         /\ \A k \in 1..Count(t, i) : Copied(t)[j][k] = Copied(t)[i][k]
<1> DEFINE C == Copied(t)
           n == Len(t)
           S == {m \in i..n : /\ Len(C[i]) <= Len(C[m])
                              /\ \A k \in 1..Len(C[i]) : C[m][k] = C[i][k]}
<1>1. n \in Nat /\ i \in 0..n OBVIOUS
<1>2. C \in [0..n -> Seq(Chars)] BY CopiedIs
<1>3. \A m \in 1..n : C[m] = IF Kept(t, m) THEN Append(C[m - 1], t[m]) ELSE C[m - 1]
  BY CopiedIs
<1>4. \A m \in 1..n : t[m] \in Chars OBVIOUS
<1> HIDE DEF C, n
<1>5. i \in S BY <1>1, <1>2
<1>6. ASSUME NEW m \in i .. n - 1, m \in S PROVE m + 1 \in S
  <2>1. m \in 0..n /\ m + 1 \in 1..n /\ m + 1 - 1 = m BY <1>1
  <2>2. C[m + 1] = IF Kept(t, m + 1) THEN Append(C[m], t[m + 1]) ELSE C[m] BY <1>3, <2>1
  <2>3. C[m] \in Seq(Chars) /\ C[i] \in Seq(Chars) /\ t[m + 1] \in Chars
    BY <1>1, <1>2, <1>4, <2>1
  <2>4. \A k \in 1..Len(C[i]) : k \in 1..Len(C[m]) BY <1>6, <2>3
  <2>5. CASE Kept(t, m + 1)
    <3>1. /\ Len(C[m + 1]) = Len(C[m]) + 1
          /\ \A k \in 1..Len(C[m]) : C[m + 1][k] = C[m][k]
      BY <2>2, <2>3, <2>5
    <3> QED BY <1>6, <2>1, <2>3, <2>4, <3>1
  <2>6. CASE ~Kept(t, m + 1) BY <1>1, <1>6, <2>1, <2>2, <2>6
  <2> QED BY <2>5, <2>6
<1>7. i..n \subseteq S
  <2>1. i \in Nat BY <1>1
  <2> HIDE DEF S
  <2> QED BY <1>1, <1>5, <1>6, <2>1, Upwards
<1>8. j \in i..n BY DEF n
<1>9. j \in S BY <1>7, <1>8
<1>10. /\ Len(C[i]) <= Len(C[j])
       /\ \A k \in 1..Len(C[i]) : C[j][k] = C[i][k]
  BY <1>9
<1> QED BY <1>10 DEF Count, C

\* A character that is kept has its place in the copy.
LEMMA KeptAt ==
  ASSUME NEW t \in Seq(Chars), NEW i \in 1..Len(t), Kept(t, i)
  PROVE  /\ Count(t, i) = Count(t, i - 1) + 1
         /\ Count(t, i) \in 1..Len(Normalized(t))
         /\ Normalized(t)[Count(t, i)] = t[i]
<1> DEFINE C == Copied(t)
           n == Len(t)
<1>1. n \in Nat /\ i \in 1..n /\ i - 1 \in 0..n /\ i \in 0..n /\ n \in i..n /\ n \in 0..n
  OBVIOUS
<1>2. C \in [0..n -> Seq(Chars)] BY CopiedIs
<1>3. C[i] = Append(C[i - 1], t[i]) BY CopiedIs
<1>4. t[i] \in Chars OBVIOUS
<1>5. Count(t, i) <= Count(t, n) /\ \A k \in 1..Count(t, i) : C[n][k] = C[i][k]
  BY <1>1, CopyGrows
<1>6. /\ Count(t, i) = Len(C[i]) /\ Count(t, i - 1) = Len(C[i - 1]) /\ Count(t, n) = Len(C[n])
      /\ Normalized(t) = C[n]
  BY DEF Count, Normalized
<1> HIDE DEF C, n
<1>7. C[i - 1] \in Seq(Chars) /\ C[n] \in Seq(Chars) BY <1>1, <1>2
<1>8. Len(C[i]) = Len(C[i - 1]) + 1 /\ C[i][Len(C[i])] = t[i] BY <1>3, <1>4, <1>7
<1>9. Len(C[i - 1]) \in Nat /\ Len(C[n]) \in Nat BY <1>7
<1> DEFINE k == Count(t, i)
<1>10. k = Count(t, i - 1) + 1 /\ k \in 1..k /\ k \in 1..Len(C[n]) BY <1>5, <1>6, <1>8, <1>9
<1>11. C[n][k] = C[i][k] BY <1>5, <1>10
<1>12. C[i][k] = t[i] BY <1>6, <1>8
<1> QED BY <1>6, <1>10, <1>11, <1>12

LEMMA DroppedAt ==
  ASSUME NEW t \in Seq(Chars), NEW i \in 1..Len(t), ~Kept(t, i)
  PROVE  /\ Count(t, i) = Count(t, i - 1)
         /\ t[i] = "CR" /\ i + 1 \in 1..Len(t) /\ t[i + 1] = "LF" /\ Kept(t, i + 1)
<1>1. Copied(t)[i] = Copied(t)[i - 1] BY CopiedIs
<1>2. At(t, i) = "CR" /\ At(t, i + 1) = "LF" BY Has2 DEF Kept
<1>3. i + 1 \in 1..Len(t) BY <1>2, AtIn
<1>4. t[i] = "CR" /\ t[i + 1] = "LF" BY <1>2, <1>3, AtIn
<1>5. Kept(t, i + 1) BY <1>2, Has2 DEF Kept
<1> QED BY <1>1, <1>3, <1>4, <1>5 DEF Count

LEMMA NormalizedIn ==
  ASSUME NEW t \in Seq(Chars)
  PROVE  /\ Normalized(t) \in Seq(Chars)
         /\ Count(t, 0) = 0
         /\ Count(t, Len(t)) = Len(Normalized(t))
         /\ \A i \in 0..Len(t) : Count(t, i) \in 0..Len(Normalized(t))
<1>1. Len(t) \in 0..Len(t) OBVIOUS
<1>2. Normalized(t) \in Seq(Chars) BY <1>1, CopiedIs DEF Normalized
<1>3. Count(t, 0) = 0 BY CopiedIs DEF Count
<1>4. Count(t, Len(t)) = Len(Normalized(t)) BY DEF Count, Normalized
<1>5. ASSUME NEW i \in 0..Len(t) PROVE Count(t, i) \in 0..Len(Normalized(t))
  <2>1. Copied(t)[i] \in Seq(Chars) BY CopiedIs
  <2>2. Count(t, i) \in Nat BY <2>1 DEF Count
  <2>3. Len(t) \in Nat /\ Len(t) \in i..Len(t) OBVIOUS
  <2>4. Count(t, i) <= Count(t, Len(t)) BY <2>3, CopyGrows
  <2> QED BY <1>2, <1>4, <2>2, <2>4
<1> QED BY <1>2, <1>3, <1>4, <1>5

\* The character of the copy behind what the text has up to i.
LEMMA NextAt ==
  ASSUME NEW t \in Seq(Chars), NEW i \in 0..Len(t)
  PROVE  At(Normalized(t), Count(t, i) + 1) =
           IF i < Len(t) /\ ~Kept(t, i + 1) THEN "LF" ELSE At(t, i + 1)
<1> DEFINE n == Normalized(t)
<1>1. n \in Seq(Chars) /\ Count(t, i) \in Nat
  <2>1. n \in Seq(Chars) /\ Count(t, i) \in 0..Len(n) BY NormalizedIn
  <2> QED BY <2>1
<1>2. CASE i = Len(t)
  <2>1. Count(t, i) + 1 \notin 1..Len(n) BY <1>1, <1>2, NormalizedIn
  <2>2. i + 1 \notin 1..Len(t) BY <1>2
  <2> HIDE DEF n
  <2>3. At(n, Count(t, i) + 1) = "end" BY <1>1, <2>1, AtIn
  <2>4. At(t, i + 1) = "end" BY <2>2, AtIn
  <2> QED BY <1>2, <2>3, <2>4 DEF n
<1>3. CASE i < Len(t)
  <2>1. i + 1 \in 1..Len(t) /\ i + 1 - 1 = i BY <1>3
  <2>2. CASE Kept(t, i + 1)
    <3>1. Count(t, i + 1) = Count(t, i) + 1 /\ Count(t, i + 1) \in 1..Len(n) /\ n[Count(t, i + 1)] = t[i + 1]
      BY <2>1, <2>2, KeptAt
    <3> HIDE DEF n
    <3>2. At(n, Count(t, i) + 1) = t[i + 1] BY <1>1, <3>1, AtIn
    <3> QED BY <2>1, <2>2, <3>2, AtIn DEF n
  <2>3. CASE ~Kept(t, i + 1)
    <3> DEFINE k == i + 2
    <3>1. /\ Count(t, i + 1) = Count(t, i) /\ k \in 1..Len(t) /\ k - 1 = i + 1
          /\ t[k] = "LF" /\ Kept(t, k)
      BY <2>1, <2>3, DroppedAt
    <3> HIDE DEF k
    <3>2. Count(t, k) = Count(t, i) + 1 /\ Count(t, k) \in 1..Len(n) /\ n[Count(t, k)] = "LF"
      BY <3>1, KeptAt
    <3> HIDE DEF n
    <3>3. At(n, Count(t, i) + 1) = "LF" BY <1>1, <3>2, AtIn
    <3> QED BY <1>3, <2>3, <3>3 DEF n
  <2> QED BY <2>2, <2>3
<1> QED BY <1>2, <1>3

\* The copy shows what the text shows: pairs of characters, executable comments,
\* and blanks behind a pair of dashes.
LEMMA Aligned ==
  ASSUME NEW t \in Seq(Chars), NEW i \in 1..Len(t), Kept(t, i)
  PROVE  /\ \A a, b : b \notin {"CR", "LF", "end"} =>
              (Has(Normalized(t), Count(t, i), <<a, b>>) <=> Has(t, i, <<a, b>>))
         /\ Executable(t, i) => Executable(Normalized(t), Count(t, i))
         /\ Has(t, i, <<"-", "-">>) /\ ~NoBlank(Normalized(t), Count(t, i)) => At(t, i + 2) \in Blank
<1> DEFINE n == Normalized(t)
           q == Count(t, i)
<1>1. n \in Seq(Chars) /\ q \in Int /\ q + 1 + 1 = q + 2 /\ q + 1 + 1 + 1 = q + 3
  <2>1. q \in 0..Len(n) BY NormalizedIn
  <2>2. n \in Seq(Chars) BY NormalizedIn
  <2> QED BY <2>1, <2>2
<1>2. At(n, q) = At(t, i)
  <2>1. q \in 1..Len(n) /\ n[q] = t[i] BY KeptAt
  <2> QED BY <1>1, <2>1, AtIn
<1>3. At(n, q + 1) = IF i < Len(t) /\ ~Kept(t, i + 1) THEN "LF" ELSE At(t, i + 1)
  <2>1. i \in 0..Len(t) OBVIOUS
  <2> QED BY <2>1, NextAt
<1>4. ASSUME NEW k \in 1..Len(t), ~Kept(t, k) PROVE At(t, k) = "CR" BY <1>4, DroppedAt, AtIn
<1>5. ASSUME NEW b, At(t, i + 1) = b, b \notin {"CR", "end"}
      PROVE  /\ i + 1 \in 1..Len(t) /\ Kept(t, i + 1) /\ Count(t, i + 1) = q + 1
             /\ At(n, q + 1) = b
  <2>1. i + 1 \in 1..Len(t) BY <1>5, AtIn
  <2>2. Kept(t, i + 1) BY <1>4, <1>5, <2>1
  <2>3. i + 1 - 1 = i OBVIOUS
  <2>4. Count(t, i + 1) = Count(t, i + 1 - 1) + 1 BY <2>1, <2>2, KeptAt
  <2> QED BY <1>3, <1>5, <2>1, <2>2, <2>3, <2>4
<1>6. ASSUME NEW a, NEW b, b \notin {"CR", "LF", "end"}
      PROVE  Has(n, q, <<a, b>>) <=> Has(t, i, <<a, b>>)
  <2>1. Has(n, q, <<a, b>>) <=> At(t, i) = a /\ At(n, q + 1) = b BY <1>1, <1>2, Has2
  <2>2. Has(t, i, <<a, b>>) <=> At(t, i) = a /\ At(t, i + 1) = b BY Has2
  <2>3. At(n, q + 1) = b <=> At(t, i + 1) = b BY <1>3, <1>5, <1>6
  <2> QED BY <2>1, <2>2, <2>3
<1>7. ASSUME NEW b, At(t, i + 1) = b, b \notin {"CR", "end"}
      PROVE  At(n, q + 2) = IF i + 1 < Len(t) /\ ~Kept(t, i + 2) THEN "LF" ELSE At(t, i + 2)
  <2>1. i + 1 \in 0..Len(t) /\ Count(t, i + 1) = q + 1 BY <1>5, <1>7
  <2>2. i + 1 + 1 = i + 2 OBVIOUS
  <2> HIDE DEF n, q
  <2>3. At(Normalized(t), Count(t, i + 1) + 1) =
          IF i + 1 < Len(t) /\ ~Kept(t, i + 1 + 1) THEN "LF" ELSE At(t, i + 1 + 1)
    BY <2>1, NextAt
  <2> QED BY <1>1, <2>1, <2>2, <2>3 DEF n
<1>8. ASSUME Has(t, i, <<"-", "-">>), ~NoBlank(n, q) PROVE At(t, i + 2) \in Blank
  <2>1. At(t, i + 1) = "-" BY <1>8, Has2
  <2>2. At(n, q + 2) \in {" ", "LF"} BY <1>8 DEF NoBlank
  <2>3. CASE i + 1 < Len(t) /\ ~Kept(t, i + 2)
    <3>1. i + 2 \in 1..Len(t) BY <2>3
    <3> QED BY <1>4, <2>3, <3>1 DEF Blank
  <2>4. CASE ~(i + 1 < Len(t) /\ ~Kept(t, i + 2)) BY <1>7, <2>1, <2>2, <2>4 DEF Blank
  <2> QED BY <2>3, <2>4
<1>9. ASSUME Executable(t, i) PROVE Executable(n, q)
  <2>1. /\ At(t, i) = "/" /\ At(t, i + 1) = "*"
        /\ At(t, i + 2) = "!" \/ (At(t, i + 2) = "M" /\ At(t, i + 3) = "!")
    BY <1>9, Has3, Has4 DEF Executable
  <2>2. At(n, q) = "/" /\ At(n, q + 1) = "*" BY <1>2, <1>5, <2>1
  <2>3. At(n, q + 2) = At(t, i + 2) /\ i + 2 \in 1..Len(t) /\ Kept(t, i + 2)
    <3>1. i + 2 \in 1..Len(t) BY <2>1, AtIn
    <3>2. Kept(t, i + 2) BY <1>4, <2>1, <3>1
    <3> QED BY <1>7, <2>1, <3>1, <3>2
  <2>4. CASE At(t, i + 2) = "!"
    <3>1. Has(n, q, <<"/", "*", "!">>) BY <1>1, <2>2, <2>3, <2>4, Has3
    <3> QED BY <3>1 DEF Executable
  <2>5. CASE At(t, i + 2) = "M" /\ At(t, i + 3) = "!"
    <3>1. i + 3 \in 1..Len(t) BY <2>5, AtIn
    <3>2. Kept(t, i + 3) BY <1>4, <2>5, <3>1
    <3>3. /\ i + 1 \in 1..Len(t) /\ Count(t, i + 1) = q + 1 /\ i + 2 - 1 = i + 1
          /\ i + 2 + 1 = i + 3 /\ i + 2 \in 0..Len(t) /\ q + 2 + 1 = q + 3
      BY <1>1, <1>5, <2>1, <2>3
    <3>4. Count(t, i + 2) = Count(t, i + 2 - 1) + 1 BY <2>3, KeptAt
    <3>5. Count(t, i + 2) = q + 2 BY <1>1, <3>3, <3>4
    <3> HIDE DEF n, q
    <3>6. At(Normalized(t), Count(t, i + 2) + 1) =
            IF i + 2 < Len(t) /\ ~Kept(t, i + 2 + 1) THEN "LF" ELSE At(t, i + 2 + 1)
      BY <3>3, NextAt
    <3>7. At(n, q + 3) = "!" BY <2>5, <3>2, <3>3, <3>5, <3>6 DEF n
    <3>8. Has(n, q, <<"/", "*", "M", "!">>) BY <1>1, <2>2, <2>3, <2>5, <3>7, Has4
    <3> QED BY <3>8 DEF Executable
  <2> QED BY <2>1, <2>4, <2>5
<1> QED BY <1>6, <1>8, <1>9

-----------------------------------------------------------------------------
(* The scan and the lexers as folds.                                       *)

ScanStates == [in : {"code", "line", "block"} \union Quotes, skip : BOOLEAN, ambiguous : BOOLEAN,
               empty : BOOLEAN, semi : BOOLEAN, multi : BOOLEAN]

Kinds == {"semicolon", "write", "other"}
LexStates(d) == [in : {"code", "word", "line", "block"} \union Openings(d), skip : Nat, depth : Int,
                 opened : BOOLEAN, tokens : Seq(Kinds)]

LEMMA ScanAtType ==
  ASSUME NEW t \in Seq(Chars), NEW s \in ScanStates, NEW i \in 1..Len(t)
  PROVE  ScanAt(t, s, i) \in ScanStates
<1> DEFINE ch == t[i]
           u == [s EXCEPT !.ambiguous = @ \/ ch \in Unsure]
<1>1. u \in ScanStates /\ u.in = s.in BY DEF ScanStates
<1> HIDE DEF u
<1>2. CASE s.skip BY <1>2 DEF ScanAt, ScanStates
<1>3. CASE ~s.skip /\ s.in = "line"
  <2>1. ScanAt(t, s, i) = [u EXCEPT !.in = IF ch = "LF" THEN "code" ELSE @]
    BY <1>3 DEF ScanAt, u, Quotes
  <2> QED BY <1>1, <2>1 DEF ScanStates
<1>4. CASE ~s.skip /\ s.in = "block"
  <2>1. ScanAt(t, s, i) = IF Has(t, i, <<"*", "/">>)
                            THEN [u EXCEPT !.in = "code", !.skip = TRUE]
                            ELSE [u EXCEPT !.ambiguous = @ \/ Has(t, i, <<"/", "*">>)]
    BY <1>4 DEF ScanAt, u, Quotes
  <2> QED BY <1>1, <2>1 DEF ScanStates
<1>5. CASE ~s.skip /\ s.in \in Quotes
  <2>1. ScanAt(t, s, i) = [u EXCEPT !.in = IF ch = s.in THEN "code" ELSE @]
    BY <1>5 DEF ScanAt, u, Quotes
  <2> QED BY <1>1, <2>1 DEF ScanStates
<1>6. CASE ~s.skip /\ s.in = "code"
  <2>1. ScanAt(t, s, i) =
         CASE Has(t, i, <<"-", "-">>) ->
                [u EXCEPT !.ambiguous = @ \/ NoBlank(t, i), !.in = "line", !.skip = TRUE]
           [] Has(t, i, <<"/", "*">>) ->
                [u EXCEPT !.ambiguous = @ \/ Executable(t, i), !.in = "block", !.skip = TRUE]
           [] ch = ";" -> [u EXCEPT !.empty = FALSE, !.semi = TRUE]
           [] ch \in Whitespace -> u
           [] OTHER -> [u EXCEPT !.empty = FALSE, !.multi = @ \/ s.semi,
                                 !.in = IF ch \in Quotes THEN ch ELSE "code"]
    BY <1>6 DEF ScanAt, u, Quotes
  <2> QED BY <1>1, <2>1 DEF ScanStates
<1> QED BY <1>2, <1>3, <1>4, <1>5, <1>6 DEF ScanStates

LEMMA ScannedIs ==
  ASSUME NEW t \in Seq(Chars)
  PROVE  /\ Scanned(t) \in [0..Len(t) -> ScanStates]
         /\ Scanned(t)[0] = ScanStart
         /\ \A i \in 1..Len(t) : Scanned(t)[i] = ScanAt(t, Scanned(t)[i - 1], i)
<1> DEFINE n == Len(t)
           V == ScanStates
           Body(x, i) == ScanAt(t, x, i)
           step == [p \in V \X (1..n) |-> Body(p[1], p[2])]
           Is(g) == g = [i \in 0..n |-> IF i = 0 THEN ScanStart ELSE Body(g[i - 1], i)]
<1>1. Steps(V, n, step) BY ScanAtType DEF Steps
<1>2. ASSUME NEW x \in V, NEW i \in 1..n PROVE step[<<x, i>>] = Body(x, i) OBVIOUS
<1>3. n \in Nat /\ ScanStart \in V BY DEF ScanStart, ScanStates
<1>4. Scanned(t) = CHOOSE g : Is(g) BY DEF Scanned
<1>5. \A x, i : Body(x, i) = ScanAt(t, x, i) OBVIOUS
<1> HIDE DEF step, V, n, Body
<1>6. PICK f : Fold(V, ScanStart, n, step, f) BY <1>1, <1>3, FoldExists
<1>7. \A i \in 1..n : f[i] = Body(f[i - 1], i)
  <2>1. ASSUME NEW i \in 1..n PROVE f[i] = Body(f[i - 1], i)
    <3>1. i - 1 \in 0..n BY <1>3
    <3>2. f[i - 1] \in V /\ f[i] = step[<<f[i - 1], i>>] BY <1>6, <3>1 DEF Fold
    <3> QED BY <1>2, <3>2
  <2> QED BY <2>1
<1>8. Is(f) BY <1>3, <1>6, <1>7 DEF Fold
<1>9. Is(Scanned(t)) BY <1>4, <1>8
<1> DEFINE g == Scanned(t)
<1>10. g = [i \in 0..n |-> IF i = 0 THEN ScanStart ELSE Body(g[i - 1], i)] BY <1>9
<1> HIDE DEF g
<1>11. /\ g = [i \in 0..n |-> g[i]] /\ g[0] = ScanStart
       /\ \A i \in 1..n : g[i] = Body(g[i - 1], i)
  <2>1. \A i \in 0..n : g[i] = IF i = 0 THEN ScanStart ELSE Body(g[i - 1], i) BY <1>10
  <2> QED BY <1>3, <1>10, <2>1
<1>12. \A i \in 1..n : g[i - 1] \in V => g[i] = step[<<g[i - 1], i>>] BY <1>2, <1>11
<1>13. Fold(V, ScanStart, n, step, g) BY <1>1, <1>3, <1>11, <1>12, FoldIn
<1> QED BY <1>5, <1>11, <1>13 DEF Fold, V, n, g

\* What ends a statement, under a name: the SMT encoding cannot have it in a string.
Semi == ";"

\* What one character in code does, arm by arm.
Word1(t, i) == IF Word(t, i) = <<"DELETE">> THEN "write" ELSE "other"
Dashes(d, t, i) == /\ Has(t, i, <<"-", "-">>)
                   /\ d = "mysql" => At(t, i + 2) \in Blank \union {"end"}
Executed(d, t, i) == d = "mysql" /\ Executable(t, i)
Begun(s, kind, in) == [s EXCEPT !.in = in, !.tokens = Append(@, kind)]
Into(s, in) == [s EXCEPT !.in = in]
Skipping(s, in, skip) == [s EXCEPT !.in = in, !.skip = skip]
Commented(s) == [s EXCEPT !.in = "block", !.depth = 1, !.skip = 1]
Opened(s, opened, skip) == [s EXCEPT !.in = "code", !.opened = opened, !.skip = skip]

LEMMA InCodeIs ==
  ASSUME NEW d \in Engines, NEW t \in Seq(Chars), NEW s, NEW i \in 1..Len(t)
  PROVE  /\ t[i] \in Blank => InCode(d, t, s, i) = Into(s, "code")
         /\ t[i] = "-" /\ Dashes(d, t, i) =>
              InCode(d, t, s, i) = Skipping(s, "line", 1)
         /\ t[i] = "-" /\ ~Dashes(d, t, i) => InCode(d, t, s, i) = Begun(s, "other", "code")
         /\ t[i] = "#" /\ d = "mysql" => InCode(d, t, s, i) = Into(s, "line")
         /\ t[i] = "#" /\ d # "mysql" => InCode(d, t, s, i) = Begun(s, "other", "code")
         /\ t[i] = "/" /\ Has(t, i, <<"/", "*">>) /\ ~Executed(d, t, i) =>
              InCode(d, t, s, i) = Commented(s)
         /\ t[i] = "/" /\ Has(t, i, <<"/", "*">>) /\ Executed(d, t, i) =>
              InCode(d, t, s, i) = Opened(s, TRUE, IF At(t, i + 2) = "!" THEN 2 ELSE 3)
         /\ t[i] = "/" /\ ~Has(t, i, <<"/", "*">>) => InCode(d, t, s, i) = Begun(s, "other", "code")
         /\ t[i] = "*" /\ Has(t, i, <<"*", "/">>) /\ s.opened =>
              InCode(d, t, s, i) = Opened(s, FALSE, 1)
         /\ t[i] = "*" /\ ~(Has(t, i, <<"*", "/">>) /\ s.opened) =>
              InCode(d, t, s, i) = Begun(s, "other", "code")
         /\ t[i] = Semi => InCode(d, t, s, i) = Begun(s, "semicolon", "code")
         /\ t[i] \in Openings(d) => InCode(d, t, s, i) = Begun(s, "other", t[i])
         /\ t[i] \in Letters =>
              InCode(d, t, s, i) = IF s.in = "word" THEN s ELSE Begun(s, Word1(t, i), "word")
         /\ t[i] \notin Blank \union Openings(d) \union Letters \union {"-", "#", "/", "*", Semi} =>
              InCode(d, t, s, i) = Begun(s, "other", "code")
<1> DEFINE ch == t[i]
           result == InCode(d, t, s, i)
<1>1. /\ Openings(d) \cap (Blank \union Letters \union {"-", "#", "/", "*", Semi}) = {}
      /\ Blank \cap (Letters \union {"-", "#", "/", "*", Semi}) = {}
      /\ Letters \cap {"-", "#", "/", "*", Semi} = {}
  BY DEF Openings, Blank, Letters, Semi
<1> USE DEF Semi, InCode, Begun, Into, Skipping, Commented, Opened
<1>2. ASSUME ch \in Blank PROVE result = Into(s, "code") BY <1>1, <1>2
<1>3. ASSUME ch = "-", Dashes(d, t, i) PROVE result = Skipping(s, "line", 1)
  BY <1>1, <1>3 DEF Dashes
<1>4. ASSUME ch = "-", ~Dashes(d, t, i) PROVE result = Begun(s, "other", "code")
  BY <1>1, <1>4 DEF Dashes
<1>5. ASSUME ch = "#", d = "mysql" PROVE result = Into(s, "line") BY <1>1, <1>5
<1>6. ASSUME ch = "#", d # "mysql" PROVE result = Begun(s, "other", "code") BY <1>1, <1>6
<1>7. ASSUME ch = "/", Has(t, i, <<"/", "*">>), ~Executed(d, t, i)
      PROVE  result = Commented(s)
  BY <1>1, <1>7 DEF Executed
<1>8. ASSUME ch = "/", Has(t, i, <<"/", "*">>), Executed(d, t, i)
      PROVE  result = Opened(s, TRUE, IF At(t, i + 2) = "!" THEN 2 ELSE 3)
  BY <1>1, <1>8 DEF Executed
<1>9. ASSUME ch = "/", ~Has(t, i, <<"/", "*">>) PROVE result = Begun(s, "other", "code")
  BY <1>1, <1>9
<1>10. ASSUME ch = "*", Has(t, i, <<"*", "/">>), s.opened
       PROVE  result = Opened(s, FALSE, 1)
  BY <1>1, <1>10
<1>11. ASSUME ch = "*", ~(Has(t, i, <<"*", "/">>) /\ s.opened)
       PROVE  result = Begun(s, "other", "code")
  BY <1>1, <1>11
<1>12. ASSUME ch = Semi PROVE result = Begun(s, "semicolon", "code") BY <1>1, <1>12
<1>13. ASSUME ch \in Openings(d) PROVE result = Begun(s, "other", ch) BY <1>1, <1>13
<1>14. ASSUME ch \in Letters
       PROVE  result = IF s.in = "word" THEN s ELSE Begun(s, Word1(t, i), "word")
  BY <1>1, <1>14 DEF Word1
<1>15. ASSUME ch \notin Blank \union Openings(d) \union Letters \union {"-", "#", "/", "*", Semi}
       PROVE  result = Begun(s, "other", "code")
  BY <1>1, <1>15
<1> HIDE DEF Semi, InCode, Begun, Into, Skipping, Commented, Opened
<1> QED BY <1>2, <1>3, <1>4, <1>5, <1>6, <1>7, <1>8, <1>9, <1>10, <1>11, <1>12, <1>13, <1>14, <1>15

LEMMA InCodeOther ==
  ASSUME NEW d \in Engines, NEW t \in Seq(Chars), NEW s, NEW i \in 1..Len(t),
         t[i] \notin Blank \union Openings(d) \union Letters \union {"-", "#", "/", "*", Semi}
  PROVE  InCode(d, t, s, i) = Begun(s, "other", "code")
BY ZenonT(60), InCodeIs

LEMMA LexStatesKept ==
  ASSUME NEW d, NEW s \in LexStates(d), NEW in \in {"code", "word", "line", "block"} \union Openings(d),
         NEW skip \in Nat, NEW depth \in Int, NEW opened \in BOOLEAN
  PROVE  /\ [s EXCEPT !.in = in, !.depth = depth, !.skip = skip] \in LexStates(d)
         /\ [s EXCEPT !.depth = depth, !.skip = skip] \in LexStates(d)
         /\ [s EXCEPT !.in = in, !.opened = opened, !.skip = skip] \in LexStates(d)
         /\ [s EXCEPT !.in = in, !.skip = skip] \in LexStates(d)
         /\ [s EXCEPT !.in = in] \in LexStates(d)
BY Zenon DEF LexStates

LEMMA LexAtType ==
  ASSUME NEW d \in Engines, NEW t \in Seq(Chars), NEW s \in LexStates(d), NEW i \in 1..Len(t)
  PROVE  LexAt(d, t, s, i) \in LexStates(d)
<1> DEFINE ch == t[i]
<1>1. /\ Openings(d) \cap {"code", "word", "line", "block"} = {}
      /\ ch \in Chars
  BY DEF Openings
<1>2. CASE s.skip > 0
  <2>1. LexAt(d, t, s, i) = [s EXCEPT !.skip = @ - 1] BY <1>2 DEF LexAt, LexStates
  <2> QED BY <1>2, <2>1 DEF LexStates
<1>3. CASE s.skip = 0 /\ s.in = "line"
  <2>1. LexAt(d, t, s, i) = InLine(d, s, t[i]) BY <1>1, <1>3 DEF LexAt
  <2> QED BY <2>1 DEF LexStates, InLine
<1>4. CASE s.skip = 0 /\ s.in = "block"
  <2>1. LexAt(d, t, s, i) = InBlock(d, t, s, i) BY <1>1, <1>4 DEF LexAt
  <2>2. \/ InBlock(d, t, s, i) = [s EXCEPT !.in = IF s.depth = 1 THEN "code" ELSE @, !.depth = @ - 1,
                                         !.skip = 1]
        \/ InBlock(d, t, s, i) = [s EXCEPT !.depth = @ + 1, !.skip = 1]
        \/ InBlock(d, t, s, i) = s
    <3>1. ~(Has(t, i, <<"*", "/">>) /\ Has(t, i, <<"/", "*">>)) BY Has2
    <3> QED BY <3>1 DEF InBlock
  <2>3. s.depth \in Int /\ s.depth - 1 \in Int /\ s.depth + 1 \in Int /\ 1 \in Nat
        /\ (IF s.depth = 1 THEN "code" ELSE s.in) \in {"code", "block"}
    BY <1>4 DEF LexStates
  <2>4. [s EXCEPT !.in = IF s.depth = 1 THEN "code" ELSE @, !.depth = @ - 1, !.skip = 1] \in LexStates(d)
    <3> DEFINE x == IF s.depth = 1 THEN "code" ELSE s.in
               y == s.depth - 1
    <3>1. x \in {"code", "word", "line", "block"} \union Openings(d) /\ y \in Int BY <2>3
    <3>2. [s EXCEPT !.in = x, !.depth = y, !.skip = 1] = 
            [s EXCEPT !.in = IF s.depth = 1 THEN "code" ELSE @, !.depth = @ - 1, !.skip = 1]
      OBVIOUS
    <3> HIDE DEF x, y
    <3>3. [s EXCEPT !.in = x, !.depth = y, !.skip = 1] \in LexStates(d) BY <2>3, <3>1, LexStatesKept
    <3> QED BY <3>2, <3>3
  <2>5. [s EXCEPT !.depth = @ + 1, !.skip = 1] \in LexStates(d)
    <3> DEFINE y == s.depth + 1
    <3>1. y \in Int /\ "code" \in {"code", "word", "line", "block"} \union Openings(d) BY <2>3
    <3>2. [s EXCEPT !.depth = y, !.skip = 1] = [s EXCEPT !.depth = @ + 1, !.skip = 1] OBVIOUS
    <3> HIDE DEF y
    <3>3. [s EXCEPT !.depth = y, !.skip = 1] \in LexStates(d) BY <2>3, <3>1, LexStatesKept
    <3> QED BY <3>2, <3>3
  <2> QED BY <2>1, <2>2, <2>4, <2>5
<1>5. CASE s.skip = 0 /\ s.in \in Openings(d)
  <2>1. LexAt(d, t, s, i) = InQuote(d, s, t[i]) BY <1>1, <1>5 DEF LexAt
  <2> QED BY <2>1 DEF LexStates, InQuote
<1>6. CASE s.skip = 0 /\ s.in \in {"code", "word"}
  <2>1. LexAt(d, t, s, i) = InCode(d, t, s, i) BY <1>1, <1>6 DEF LexAt
  <2>2. ASSUME NEW kind \in Kinds, NEW in \in {"code", "word"} \union Openings(d)
        PROVE  Begun(s, kind, in) \in LexStates(d)
    <3>1. Append(s.tokens, kind) \in Seq(Kinds) BY DEF LexStates
    <3> QED BY <3>1 DEF LexStates, Begun
  <2>3. /\ Into(s, "code") \in LexStates(d) /\ Into(s, "line") \in LexStates(d)
        /\ Skipping(s, "line", 1) \in LexStates(d) /\ Commented(s) \in LexStates(d)
        /\ Opened(s, TRUE, IF At(t, i + 2) = "!" THEN 2 ELSE 3) \in LexStates(d)
        /\ Opened(s, FALSE, 1) \in LexStates(d)
    <3>1. 1 \in Nat /\ 1 \in Int /\ (IF At(t, i + 2) = "!" THEN 2 ELSE 3) \in Nat OBVIOUS
    <3> QED BY <3>1, LexStatesKept DEF Into, Skipping, Commented, Opened
  <2>4. "other" \in Kinds /\ "semicolon" \in Kinds /\ Word1(t, i) \in Kinds BY DEF Kinds, Word1
  <2>5. /\ Begun(s, "other", "code") \in LexStates(d) /\ Begun(s, "semicolon", "code") \in LexStates(d)
        /\ Begun(s, Word1(t, i), "word") \in LexStates(d)
        /\ \A c \in Openings(d) : Begun(s, "other", c) \in LexStates(d)
    BY <2>2, <2>4
  <2> DEFINE result == InCode(d, t, s, i)
  <2> HIDE DEF result
  <2>6. ASSUME ch \in Blank PROVE result \in LexStates(d) BY <2>3, <2>6, InCodeIs DEF result
  <2>7. ASSUME ch = "-" PROVE result \in LexStates(d) BY <2>3, <2>5, <2>7, InCodeIs DEF result
  <2>8. ASSUME ch = "#" PROVE result \in LexStates(d) BY <2>3, <2>5, <2>8, InCodeIs DEF result
  <2>9. ASSUME ch = "/" PROVE result \in LexStates(d) BY <2>3, <2>5, <2>9, InCodeIs DEF result
  <2>10. ASSUME ch = "*" PROVE result \in LexStates(d) BY <2>3, <2>5, <2>10, InCodeIs DEF result
  <2>11. ASSUME ch = Semi PROVE result \in LexStates(d) BY <2>5, <2>11, InCodeIs DEF result
  <2>12. ASSUME ch \in Openings(d) PROVE result \in LexStates(d) BY <2>5, <2>12, InCodeIs DEF result
  <2>13. ASSUME ch \in Letters PROVE result \in LexStates(d) BY <2>5, <2>13, InCodeIs DEF result
  <2>14. ASSUME ch \notin Blank \union Openings(d) \union Letters \union {"-", "#", "/", "*", Semi}
         PROVE  result \in LexStates(d)
    <3>1. result = Begun(s, "other", "code") BY <2>14, InCodeOther DEF result
    <3> QED BY <2>5, <3>1
  <2> QED BY <2>1, <2>6, <2>7, <2>8, <2>9, <2>10, <2>11, <2>12, <2>13, <2>14 DEF result
<1> QED BY <1>2, <1>3, <1>4, <1>5, <1>6 DEF LexStates

LEMMA ReadIs ==
  ASSUME NEW d \in Engines, NEW t \in Seq(Chars)
  PROVE  /\ Read(d, t) \in [0..Len(t) -> LexStates(d)]
         /\ Read(d, t)[0] = LexStart
         /\ \A i \in 1..Len(t) : Read(d, t)[i] = LexAt(d, t, Read(d, t)[i - 1], i)
<1> DEFINE n == Len(t)
           V == LexStates(d)
           Body(x, i) == LexAt(d, t, x, i)
           step == [p \in V \X (1..n) |-> Body(p[1], p[2])]
           Is(g) == g = [i \in 0..n |-> IF i = 0 THEN LexStart ELSE Body(g[i - 1], i)]
<1>1. Steps(V, n, step) BY LexAtType DEF Steps
<1>2. ASSUME NEW x \in V, NEW i \in 1..n PROVE step[<<x, i>>] = Body(x, i) OBVIOUS
<1>3. n \in Nat /\ LexStart \in V BY DEF LexStart, LexStates
<1>4. Read(d, t) = CHOOSE g : Is(g) BY DEF Read
<1>5. \A x, i : Body(x, i) = LexAt(d, t, x, i) OBVIOUS
<1> HIDE DEF step, V, n, Body
<1>6. PICK f : Fold(V, LexStart, n, step, f) BY <1>1, <1>3, FoldExists
<1>7. \A i \in 1..n : f[i] = Body(f[i - 1], i)
  <2>1. ASSUME NEW i \in 1..n PROVE f[i] = Body(f[i - 1], i)
    <3>1. i - 1 \in 0..n BY <1>3
    <3>2. f[i - 1] \in V /\ f[i] = step[<<f[i - 1], i>>] BY <1>6, <3>1 DEF Fold
    <3> QED BY <1>2, <3>2
  <2> QED BY <2>1
<1>8. Is(f) BY <1>3, <1>6, <1>7 DEF Fold
<1>9. Is(Read(d, t)) BY <1>4, <1>8
<1> DEFINE g == Read(d, t)
<1>10. g = [i \in 0..n |-> IF i = 0 THEN LexStart ELSE Body(g[i - 1], i)] BY <1>9
<1> HIDE DEF g
<1>11. /\ g = [i \in 0..n |-> g[i]] /\ g[0] = LexStart
       /\ \A i \in 1..n : g[i] = Body(g[i - 1], i)
  <2>1. \A i \in 0..n : g[i] = IF i = 0 THEN LexStart ELSE Body(g[i - 1], i) BY <1>10
  <2> QED BY <1>3, <1>10, <2>1
<1>12. \A i \in 1..n : g[i - 1] \in V => g[i] = step[<<g[i - 1], i>>] BY <1>2, <1>11
<1>13. Fold(V, LexStart, n, step, g) BY <1>1, <1>3, <1>11, <1>12, FoldIn
<1> QED BY <1>5, <1>11, <1>13 DEF Fold, V, n, g

\* The scan's verdict so far is the same.
SameVerdict(r, s) == r.empty = s.empty /\ r.semi = s.semi /\ r.multi = s.multi

\* What one turn of the scan does, mode by mode.
LEMMA ScanAtIs ==
  ASSUME NEW t \in Seq(Chars), NEW s \in ScanStates, NEW i \in 1..Len(t), NEW r, r = ScanAt(t, s, i)
  PROVE  /\ r.ambiguous \/ ~s.ambiguous
         /\ ~s.skip /\ t[i] \in Unsure => r.ambiguous
         /\ s.skip => r.in = s.in /\ ~r.skip /\ SameVerdict(r, s)
         /\ ~s.skip /\ s.in = "line" =>
              r.in = (IF t[i] = "LF" THEN "code" ELSE "line") /\ ~r.skip /\ SameVerdict(r, s)
         /\ ~s.skip /\ s.in = "block" /\ Has(t, i, <<"*", "/">>) =>
              r.in = "code" /\ r.skip /\ SameVerdict(r, s)
         /\ ~s.skip /\ s.in = "block" /\ ~Has(t, i, <<"*", "/">>) =>
              /\ r.in = "block" /\ ~r.skip /\ SameVerdict(r, s)
              /\ Has(t, i, <<"/", "*">>) => r.ambiguous
         /\ ~s.skip /\ s.in \in Quotes =>
              r.in = (IF t[i] = s.in THEN "code" ELSE s.in) /\ ~r.skip /\ SameVerdict(r, s)
         /\ ~s.skip /\ s.in = "code" /\ Has(t, i, <<"-", "-">>) =>
              /\ r.in = "line" /\ r.skip /\ SameVerdict(r, s)
              /\ NoBlank(t, i) => r.ambiguous
         /\ ~s.skip /\ s.in = "code" /\ Has(t, i, <<"/", "*">>) =>
              /\ r.in = "block" /\ r.skip /\ SameVerdict(r, s)
              /\ Executable(t, i) => r.ambiguous
         /\ ~s.skip /\ s.in = "code" /\ t[i] = Semi =>
              r.in = "code" /\ ~r.skip /\ ~r.empty /\ r.semi /\ r.multi = s.multi
         /\ ~s.skip /\ s.in = "code" /\ t[i] \in Whitespace =>
              r.in = "code" /\ ~r.skip /\ SameVerdict(r, s)
         /\ ~s.skip /\ s.in = "code" /\ ~Has(t, i, <<"-", "-">>) /\ ~Has(t, i, <<"/", "*">>)
              /\ t[i] \notin Whitespace \union {Semi} =>
              /\ r.in = (IF t[i] \in Quotes THEN t[i] ELSE "code") /\ ~r.skip
              /\ ~r.empty /\ r.semi = s.semi /\ r.multi = (s.multi \/ s.semi)
<1> DEFINE ch == t[i]
           u == [s EXCEPT !.ambiguous = @ \/ ch \in Unsure]
<1>1. /\ u \in ScanStates /\ u.in = s.in /\ SameVerdict(u, s)
      /\ (u.skip <=> s.skip) /\ (u.ambiguous <=> s.ambiguous \/ ch \in Unsure)
  BY DEF ScanStates, SameVerdict
<1> HIDE DEF u
<1>2. ASSUME s.skip PROVE r.in = s.in /\ ~r.skip /\ SameVerdict(r, s) /\ r.ambiguous = s.ambiguous
  <2>1. r = [s EXCEPT !.skip = FALSE] BY <1>2 DEF ScanAt
  <2> QED BY <2>1 DEF ScanStates, SameVerdict
<1>3. ASSUME ~s.skip, s.in = "line"
      PROVE  /\ r.in = (IF ch = "LF" THEN "code" ELSE "line") /\ ~r.skip /\ SameVerdict(r, s)
             /\ r.ambiguous = u.ambiguous
  <2>1. r = [u EXCEPT !.in = IF ch = "LF" THEN "code" ELSE @] BY <1>3 DEF ScanAt, u, Quotes
  <2> QED BY <1>1, <1>3, <2>1 DEF ScanStates, SameVerdict
<1>4. ASSUME ~s.skip, s.in = "block", Has(t, i, <<"*", "/">>)
      PROVE  r.in = "code" /\ r.skip /\ SameVerdict(r, s) /\ r.ambiguous = u.ambiguous
  <2>1. r = [u EXCEPT !.in = "code", !.skip = TRUE] BY <1>4 DEF ScanAt, u, Quotes
  <2> QED BY <1>1, <1>4, <2>1 DEF ScanStates, SameVerdict
<1>5. ASSUME ~s.skip, s.in = "block", ~Has(t, i, <<"*", "/">>)
      PROVE  /\ r.in = "block" /\ ~r.skip /\ SameVerdict(r, s)
             /\ r.ambiguous <=> u.ambiguous \/ Has(t, i, <<"/", "*">>)
  <2>1. r = [u EXCEPT !.ambiguous = @ \/ Has(t, i, <<"/", "*">>)] BY <1>5 DEF ScanAt, u, Quotes
  <2> QED BY <1>1, <1>5, <2>1 DEF ScanStates, SameVerdict
<1>6. ASSUME ~s.skip, s.in \in Quotes
      PROVE  /\ r.in = (IF ch = s.in THEN "code" ELSE s.in) /\ ~r.skip /\ SameVerdict(r, s)
             /\ r.ambiguous = u.ambiguous
  <2>1. r = [u EXCEPT !.in = IF ch = s.in THEN "code" ELSE @] BY <1>6 DEF ScanAt, u, Quotes
  <2> QED BY <1>1, <1>6, <2>1 DEF ScanStates, SameVerdict
<1>7. ASSUME ~s.skip, s.in = "code", Has(t, i, <<"-", "-">>)
      PROVE  /\ r.in = "line" /\ r.skip /\ SameVerdict(r, s)
             /\ r.ambiguous <=> u.ambiguous \/ NoBlank(t, i)
  <2>1. ch = "-" /\ ~Has(t, i, <<"/", "*">>) BY <1>7, Has2, AtIn
  <2>2. r = [u EXCEPT !.ambiguous = @ \/ NoBlank(t, i), !.in = "line", !.skip = TRUE]
    BY <1>7, <2>1 DEF ScanAt, u, Quotes, Whitespace
  <2> QED BY <1>1, <1>7, <2>2 DEF ScanStates, SameVerdict
<1>8. ASSUME ~s.skip, s.in = "code", Has(t, i, <<"/", "*">>)
      PROVE  /\ r.in = "block" /\ r.skip /\ SameVerdict(r, s)
             /\ r.ambiguous <=> u.ambiguous \/ Executable(t, i)
  <2>1. ch = "/" /\ ~Has(t, i, <<"-", "-">>) BY <1>8, Has2, AtIn
  <2>2. r = [u EXCEPT !.ambiguous = @ \/ Executable(t, i), !.in = "block", !.skip = TRUE]
    BY <1>8, <2>1 DEF ScanAt, u, Quotes, Whitespace
  <2> QED BY <1>1, <1>8, <2>2 DEF ScanStates, SameVerdict
<1>9. ch # "-" => ~Has(t, i, <<"-", "-">>) BY Has2, AtIn
<1>10. ch # "/" => ~Has(t, i, <<"/", "*">>) BY Has2, AtIn
<1>11. ASSUME ~s.skip, s.in = "code", ch = Semi
       PROVE  /\ r.in = "code" /\ ~r.skip /\ ~r.empty /\ r.semi /\ r.multi = s.multi
              /\ r.ambiguous = u.ambiguous
  <2>1. r = [u EXCEPT !.empty = FALSE, !.semi = TRUE]
    BY <1>9, <1>10, <1>11 DEF ScanAt, u, Quotes, Whitespace, Semi
  <2> QED BY <1>1, <1>11, <2>1 DEF ScanStates, SameVerdict
<1>12. ASSUME ~s.skip, s.in = "code", ch \in Whitespace
       PROVE  r.in = "code" /\ ~r.skip /\ SameVerdict(r, s) /\ r.ambiguous = u.ambiguous
  <2>1. r = u BY <1>9, <1>10, <1>12 DEF ScanAt, u, Quotes, Whitespace, Semi
  <2> QED BY <1>1, <1>12, <2>1 DEF ScanStates, SameVerdict
<1>13. ASSUME ~s.skip, s.in = "code", ~Has(t, i, <<"-", "-">>), ~Has(t, i, <<"/", "*">>),
              ch \notin Whitespace \union {Semi}
       PROVE  /\ r.in = (IF ch \in Quotes THEN ch ELSE "code") /\ ~r.skip
              /\ ~r.empty /\ r.semi = s.semi /\ r.multi = (s.multi \/ s.semi)
              /\ r.ambiguous = u.ambiguous
  <2>1. r = [u EXCEPT !.empty = FALSE, !.multi = @ \/ s.semi,
                      !.in = IF ch \in Quotes THEN ch ELSE "code"]
    BY <1>13 DEF ScanAt, u, Quotes, Whitespace, Semi
  <2> QED BY <1>1, <1>13, <2>1 DEF ScanStates, SameVerdict
<1>14. s.in \in {"code", "line", "block"} \union Quotes BY DEF ScanStates
<1>15. r.ambiguous \/ ~s.ambiguous
  BY <1>1, <1>2, <1>3, <1>4, <1>5, <1>6, <1>7, <1>8, <1>9, <1>10, <1>11, <1>12, <1>13, <1>14
<1>16. ~s.skip /\ ch \in Unsure => r.ambiguous
  BY <1>1, <1>2, <1>3, <1>4, <1>5, <1>6, <1>7, <1>8, <1>9, <1>10, <1>11, <1>12, <1>13, <1>14
<1> QED BY <1>2, <1>3, <1>4, <1>5, <1>6, <1>7, <1>8, <1>11, <1>12, <1>13, <1>15, <1>16

LEMMA IntoIs ==
  ASSUME NEW d, NEW s \in LexStates(d), NEW in, NEW f, f = Into(s, in)
  PROVE  f.in = in /\ f.skip = s.skip /\ f.opened = s.opened /\ f.tokens = s.tokens
BY DEF LexStates, Into

LEMMA SkippingIs ==
  ASSUME NEW d, NEW s \in LexStates(d), NEW in, NEW skip, NEW f, f = Skipping(s, in, skip)
  PROVE  f.in = in /\ f.skip = skip /\ f.opened = s.opened /\ f.tokens = s.tokens
BY DEF LexStates, Skipping

LEMMA CommentedIs ==
  ASSUME NEW d, NEW s \in LexStates(d), NEW f, f = Commented(s)
  PROVE  /\ f.in = "block" /\ f.skip = 1 /\ f.depth = 1
         /\ f.opened = s.opened /\ f.tokens = s.tokens
BY DEF LexStates, Commented

LEMMA OpenedIs ==
  ASSUME NEW d, NEW s \in LexStates(d), NEW opened, NEW skip, NEW f, f = Opened(s, opened, skip)
  PROVE  f.in = "code" /\ f.skip = skip /\ f.opened = opened /\ f.tokens = s.tokens
BY DEF LexStates, Opened

LEMMA BegunIs ==
  ASSUME NEW d, NEW s \in LexStates(d), NEW kind, NEW in, NEW f, f = Begun(s, kind, in)
  PROVE  /\ f.in = in /\ f.skip = s.skip /\ f.opened = s.opened
         /\ f.tokens = Append(s.tokens, kind)
BY DEF LexStates, Begun

\* What one character does, mode by mode.
LEMMA LexAtIs ==
  ASSUME NEW d \in Engines, NEW t \in Seq(Chars), NEW s \in LexStates(d), NEW i \in 1..Len(t),
         NEW r, r = LexAt(d, t, s, i)
  PROVE  /\ s.skip > 0 => /\ r.in = s.in /\ r.skip = s.skip - 1 /\ r.depth = s.depth
                          /\ r.opened = s.opened /\ r.tokens = s.tokens
         /\ s.skip = 0 /\ s.in = "line" =>
              /\ r.in = IF t[i] = "LF" \/ (d = "postgres" /\ t[i] = "CR") THEN "code" ELSE "line"
              /\ r.skip = 0 /\ r.opened = s.opened /\ r.tokens = s.tokens
         /\ s.skip = 0 /\ s.in = "block" /\ Has(t, i, <<"*", "/">>) =>
              /\ r.in = (IF s.depth = 1 THEN "code" ELSE "block") /\ r.depth = s.depth - 1
              /\ r.skip = 1 /\ r.opened = s.opened /\ r.tokens = s.tokens
         /\ s.skip = 0 /\ s.in = "block" /\ ~Has(t, i, <<"*", "/">>)
              /\ ~(Has(t, i, <<"/", "*">>) /\ d = "postgres") => r = s
         /\ s.skip = 0 /\ s.in = "block" => r.tokens = s.tokens
         /\ s.skip = 0 /\ s.in \in Openings(d) => r.tokens = s.tokens
         /\ s.skip = 0 /\ s.in = "'" /\ ~(t[i] = "\\" /\ d = "mysql") =>
              /\ r.in = (IF t[i] = "'" THEN "code" ELSE "'") /\ r.skip = 0
              /\ r.opened = s.opened /\ r.tokens = s.tokens
         /\ s.skip = 0 /\ s.in \in {"code", "word"} => r = InCode(d, t, s, i)
<1>1. /\ Openings(d) \cap {"code", "word", "line", "block"} = {} /\ "'" \in Openings(d)
      /\ s.in \in {"code", "word", "line", "block"} \union Openings(d) /\ s.skip \in Nat
  BY DEF Openings, LexStates
<1>2. s.skip > 0 => r = [s EXCEPT !.skip = @ - 1] BY <1>1 DEF LexAt
<1>3. ASSUME s.skip = 0, s.in = "line"
      PROVE  /\ r.in = IF t[i] = "LF" \/ (d = "postgres" /\ t[i] = "CR") THEN "code" ELSE "line"
             /\ r.skip = 0 /\ r.opened = s.opened /\ r.tokens = s.tokens
  <2>1. r = InLine(d, s, t[i]) BY <1>1, <1>3 DEF LexAt
  <2> QED BY <1>3, <2>1 DEF InLine, LexStates
<1>4. ASSUME s.skip = 0, s.in = "block" PROVE r = InBlock(d, t, s, i)
  BY <1>1, <1>4 DEF LexAt
<1>5. ~(Has(t, i, <<"*", "/">>) /\ Has(t, i, <<"/", "*">>)) BY Has2
<1>6. Has(t, i, <<"*", "/">>) =>
        InBlock(d, t, s, i) = [s EXCEPT !.in = IF s.depth = 1 THEN "code" ELSE @, !.depth = @ - 1,
                                        !.skip = 1]
  BY <1>5 DEF InBlock
<1>7. ~Has(t, i, <<"*", "/">>) /\ Has(t, i, <<"/", "*">>) /\ d = "postgres" =>
        InBlock(d, t, s, i) = [s EXCEPT !.depth = @ + 1, !.skip = 1]
  BY <1>5 DEF InBlock
<1>8. ~Has(t, i, <<"*", "/">>) /\ ~(Has(t, i, <<"/", "*">>) /\ d = "postgres") =>
        InBlock(d, t, s, i) = s
  BY DEF InBlock
<1>9. ASSUME s.skip = 0, s.in \in Openings(d) PROVE r = InQuote(d, s, t[i])
  BY <1>1, <1>9 DEF LexAt
<1>10. InQuote(d, s, t[i]) \in {[s EXCEPT !.in = "code"], [s EXCEPT !.skip = 1], s}
  BY DEF InQuote
<1>11. s.in = "'" /\ ~(t[i] = "\\" /\ d = "mysql") =>
         InQuote(d, s, t[i]) = IF t[i] = "'" THEN [s EXCEPT !.in = "code"] ELSE s
  BY DEF InQuote, Closing
<1>12. s.skip = 0 /\ s.in \in {"code", "word"} => r = InCode(d, t, s, i) BY <1>1 DEF LexAt
<1>13. s.skip > 0 => /\ r.in = s.in /\ r.skip = s.skip - 1 /\ r.depth = s.depth
                     /\ r.opened = s.opened /\ r.tokens = s.tokens
  BY <1>2 DEF LexStates
<1>14. ASSUME s.skip = 0, s.in = "block", Has(t, i, <<"*", "/">>)
       PROVE  /\ r.in = (IF s.depth = 1 THEN "code" ELSE "block") /\ r.depth = s.depth - 1
              /\ r.skip = 1 /\ r.opened = s.opened /\ r.tokens = s.tokens
  <2> DEFINE x == IF s.depth = 1 THEN "code" ELSE s.in
             y == s.depth - 1
             z == [s EXCEPT !.in = x, !.depth = y, !.skip = 1]
  <2>1. r = z BY <1>4, <1>6, <1>14
  <2>2. x = (IF s.depth = 1 THEN "code" ELSE "block") BY <1>14
  <2> HIDE DEF x, y
  <2>3. z.in = x /\ z.depth = y /\ z.skip = 1 /\ z.opened = s.opened /\ z.tokens = s.tokens
    BY DEF LexStates
  <2> HIDE DEF z
  <2> QED BY <2>1, <2>2, <2>3 DEF y
<1>15. ASSUME s.skip = 0, s.in = "block" PROVE r.tokens = s.tokens
  BY <1>4, <1>6, <1>7, <1>8, <1>15 DEF LexStates
<1>16. ASSUME s.skip = 0, s.in \in Openings(d) PROVE r.tokens = s.tokens
  BY <1>9, <1>10, <1>16 DEF LexStates
<1>17. ASSUME s.skip = 0, s.in = "'", ~(t[i] = "\\" /\ d = "mysql")
       PROVE  /\ r.in = (IF t[i] = "'" THEN "code" ELSE "'") /\ r.skip = 0
              /\ r.opened = s.opened /\ r.tokens = s.tokens
  <2>1. r = IF t[i] = "'" THEN [s EXCEPT !.in = "code"] ELSE s BY <1>1, <1>9, <1>11, <1>17
  <2> QED BY <1>17, <2>1 DEF LexStates
<1> QED BY <1>3, <1>4, <1>8, <1>12, <1>13, <1>14, <1>15, <1>16, <1>17

\* Of the tokens so far, one is a semicolon; something follows a semicolon.
HasSemi(q) == \E i \in DOMAIN q : q[i] = "semicolon"
Second(q) == \E i, j \in DOMAIN q : i < j /\ q[i] = "semicolon" /\ q[j] # "semicolon"

LEMMA AppendKind ==
  ASSUME NEW q \in Seq(Kinds), NEW k \in Kinds
  PROVE  /\ Append(q, k) # <<>>
         /\ HasSemi(Append(q, k)) <=> HasSemi(q) \/ k = "semicolon"
         /\ Second(Append(q, k)) <=> Second(q) \/ (HasSemi(q) /\ k # "semicolon")
<1> DEFINE r == Append(q, k)
           n == Len(q)
<1>1. /\ n \in Nat /\ DOMAIN q = 1..n /\ DOMAIN r = 1 .. n + 1 /\ Len(r) = n + 1
      /\ r[n + 1] = k /\ \A i \in 1..n : r[i] = q[i]
  OBVIOUS
<1>2. r # <<>> BY <1>1
<1> HIDE DEF r, n
<1>3. HasSemi(r) <=> HasSemi(q) \/ k = "semicolon"
  <2>1. ASSUME HasSemi(r) PROVE HasSemi(q) \/ k = "semicolon"
    BY <1>1, <2>1 DEF HasSemi
  <2>2. ASSUME HasSemi(q) PROVE HasSemi(r)
    <3>1. PICK i \in 1..n : q[i] = "semicolon" BY <1>1, <2>2 DEF HasSemi
    <3>2. i \in 1 .. n + 1 /\ r[i] = "semicolon" BY <1>1, <3>1
    <3> QED BY <1>1, <3>2 DEF HasSemi
  <2>3. ASSUME k = "semicolon" PROVE HasSemi(r)
    <3>1. n + 1 \in DOMAIN r /\ r[n + 1] = "semicolon" BY <1>1, <2>3
    <3> QED BY <3>1 DEF HasSemi
  <2> QED BY <2>1, <2>2, <2>3
<1>4. Second(r) <=> Second(q) \/ (HasSemi(q) /\ k # "semicolon")
  <2>1. ASSUME Second(r) PROVE Second(q) \/ (HasSemi(q) /\ k # "semicolon")
    <3>1. PICK i \in 1 .. n + 1, j \in 1 .. n + 1 :
            i < j /\ r[i] = "semicolon" /\ r[j] # "semicolon"
      BY <1>1, <2>1 DEF Second
    <3>2. i \in 1..n /\ q[i] = "semicolon" BY <1>1, <3>1
    <3>3. CASE j = n + 1 BY <1>1, <3>1, <3>2, <3>3 DEF HasSemi
    <3>4. CASE j # n + 1
      <4>1. j \in 1..n /\ q[j] # "semicolon" BY <1>1, <3>1, <3>4
      <4> QED BY <1>1, <3>1, <3>2, <4>1 DEF Second
    <3> QED BY <3>3, <3>4
  <2>2. ASSUME Second(q) PROVE Second(r)
    <3>1. PICK i \in 1..n, j \in 1..n : i < j /\ q[i] = "semicolon" /\ q[j] # "semicolon"
      BY <1>1, <2>2 DEF Second
    <3>2. i \in 1 .. n + 1 /\ j \in 1 .. n + 1 /\ r[i] = q[i] /\ r[j] = q[j] BY <1>1
    <3> QED BY <1>1, <3>1, <3>2 DEF Second
  <2>3. ASSUME HasSemi(q), k # "semicolon" PROVE Second(r)
    <3>1. PICK i \in 1..n : q[i] = "semicolon" BY <1>1, <2>3 DEF HasSemi
    <3>2. /\ i \in 1 .. n + 1 /\ n + 1 \in 1 .. n + 1 /\ i < n + 1
          /\ r[i] = "semicolon" /\ r[n + 1] # "semicolon"
      BY <1>1, <2>3, <3>1
    <3> QED BY <1>1, <3>2 DEF Second
  <2> QED BY <2>1, <2>2, <2>3
<1> QED BY <1>2, <1>3, <1>4 DEF r

-----------------------------------------------------------------------------
(* A lexer and the scan, side by side.                                     *)

\* The scan's verdict is the one the tokens give.
SameTokens(s, e) == /\ s.empty <=> e.tokens = <<>>
                    /\ s.semi <=> HasSemi(e.tokens)
                    /\ s.multi <=> Second(e.tokens)
                    /\ e.in = "word" => e.tokens # <<>> /\ (HasSemi(e.tokens) => Second(e.tokens))

\* After position i both are in the same part of the text, or at a CR LF, where
\* Postgres is one character ahead of the scan.
SameMode(t, i, s, e) ==
  \/ /\ ~s.skip /\ e.skip = 0
     /\ \/ s.in = "code" /\ e.in \in {"code", "word"}
        \/ s.in = "line" /\ e.in = "line"
        \/ s.in = "block" /\ e.in = "block" /\ e.depth = 1
        \/ s.in = "'" /\ e.in = "'"
        \/ s.in = "line" /\ e.in = "code" /\ i \in 1..Len(t) /\ ~Kept(t, i)
  \/ /\ s.skip /\ e.skip = 1
     /\ i + 1 \in 1..Len(t) /\ t[i + 1] \in {"-", "*", "/"}
     /\ \/ s.in = "code" /\ e.in = "code"
        \/ s.in = "line" /\ e.in = "line"
        \/ s.in = "block" /\ e.in = "block" /\ e.depth = 1

Agree(t, i, s, e) == ~e.opened /\ SameTokens(s, e) /\ SameMode(t, i, s, e)

LEMMA AgreeDropped ==
  ASSUME NEW d \in Engines, NEW t \in Seq(Chars), NEW i \in 1..Len(t), ~Kept(t, i),
         NEW s \in ScanStates, NEW e \in LexStates(d), Agree(t, i - 1, s, e),
         NEW f, f = LexAt(d, t, e, i)
  PROVE  Agree(t, i, s, f)
<1>1. t[i] = "CR" /\ i + 1 \in 1..Len(t) /\ t[i + 1] = "LF" BY DroppedAt
<1>2. ~Has(t, i, <<"*", "/">>) /\ ~Has(t, i, <<"/", "*">>) BY <1>1, Has2, AtIn
<1>3. i - 1 + 1 = i OBVIOUS
<1>4. e.skip = 0 /\ ~s.skip BY <1>1, <1>3 DEF Agree, SameMode
<1>5. s.in = "line" /\ e.in = "code" => FALSE \/ (i - 1 \in 1..Len(t) /\ ~Kept(t, i - 1))
  BY <1>4 DEF Agree, SameMode
<1>6. ~(s.in = "line" /\ e.in = "code")
  <2>1. ASSUME i - 1 \in 1..Len(t), ~Kept(t, i - 1) PROVE FALSE
    <3>1. Kept(t, i - 1 + 1) BY <2>1, DroppedAt
    <3> QED BY <1>3, <3>1
  <2> QED BY <1>5, <2>1
<1>7. ~e.opened /\ SameTokens(s, e) BY DEF Agree
<1>8. CASE s.in = "code" /\ e.in \in {"code", "word"}
  <2>1. f = InCode(d, t, e, i) BY <1>4, <1>8, LexAtIs
  <2>2. f = Into(e, "code") BY <1>1, <2>1, InCodeIs DEF Blank
  <2>3. f.tokens = e.tokens /\ f.opened = e.opened /\ f.in = "code" /\ f.skip = e.skip
    BY <2>2, IntoIs
  <2> QED BY <1>4, <1>7, <1>8, <2>3 DEF Agree, SameMode, SameTokens
<1>9. CASE s.in = "line" /\ e.in = "line"
  <2>1. f.in \in {"code", "line"} /\ f.skip = 0 /\ f.opened = e.opened /\ f.tokens = e.tokens
    BY <1>4, <1>9, LexAtIs
  <2> QED BY <1>4, <1>7, <1>9, <2>1 DEF Agree, SameMode, SameTokens
<1>10. CASE s.in = "block" /\ e.in = "block" /\ e.depth = 1
  <2>1. f = e BY <1>2, <1>4, <1>10, LexAtIs
  <2> QED BY <1>4, <1>7, <1>10, <2>1 DEF Agree, SameMode, SameTokens
<1>11. CASE s.in = "'" /\ e.in = "'"
  <2>1. f.in = "'" /\ f.skip = 0 /\ f.opened = e.opened /\ f.tokens = e.tokens
    BY <1>1, <1>4, <1>11, LexAtIs
  <2> QED BY <1>4, <1>7, <1>11, <2>1 DEF Agree, SameMode, SameTokens
<1> QED BY <1>4, <1>6, <1>8, <1>9, <1>10, <1>11 DEF Agree, SameMode

LEMMA BegunTokens ==
  ASSUME NEW d, NEW e \in LexStates(d), NEW kind \in Kinds, NEW in, NEW f, f = Begun(e, kind, in)
  PROVE  /\ f.opened = e.opened /\ f.in = in /\ f.skip = e.skip
         /\ f.tokens # <<>>
         /\ HasSemi(f.tokens) <=> HasSemi(e.tokens) \/ kind = "semicolon"
         /\ Second(f.tokens) <=> Second(e.tokens) \/ (HasSemi(e.tokens) /\ kind # "semicolon")
<1>1. f.tokens = Append(e.tokens, kind) /\ f.opened = e.opened /\ f.in = in /\ f.skip = e.skip
  BY BegunIs
<1>2. e.tokens \in Seq(Kinds) BY DEF LexStates
<1> QED BY <1>1, <1>2, AppendKind

\* The two take one token, or the end of a statement.
TokenSeen(s, r) == ~r.empty /\ (r.semi <=> s.semi) /\ (r.multi <=> s.multi \/ s.semi)
EndSeen(s, r) == ~r.empty /\ r.semi /\ (r.multi <=> s.multi)

TokenFrom(e, kind, in, f) == f = Begun(e, kind, in) /\ kind \in Kinds /\ kind # "semicolon"

LEMMA AgreeToken ==
  ASSUME NEW d, NEW s \in ScanStates, NEW e \in LexStates(d), SameTokens(s, e), ~e.opened,
         NEW kind, NEW in, NEW f, TokenFrom(e, kind, in, f), NEW r, TokenSeen(s, r)
  PROVE  SameTokens(r, f) /\ ~f.opened /\ f.in = in /\ f.skip = e.skip
<1>1. (s.semi <=> HasSemi(e.tokens)) /\ (s.multi <=> Second(e.tokens)) BY DEF SameTokens
<1>2. f = Begun(e, kind, in) /\ kind \in Kinds /\ kind # "semicolon" BY DEF TokenFrom
<1> QED BY <1>1, <1>2, BegunTokens DEF SameTokens, TokenSeen

LEMMA AgreeEnd ==
  ASSUME NEW d, NEW s \in ScanStates, NEW e \in LexStates(d), SameTokens(s, e), ~e.opened,
         NEW kind \in Kinds, kind = "semicolon", NEW in, in # "word",
         NEW f, f = Begun(e, kind, in), NEW r, EndSeen(s, r)
  PROVE  SameTokens(r, f) /\ ~f.opened /\ f.in = in /\ f.skip = e.skip
<1>1. (s.semi <=> HasSemi(e.tokens)) /\ (s.multi <=> Second(e.tokens)) BY DEF SameTokens
<1> QED BY <1>1, BegunTokens DEF SameTokens, EndSeen

LEMMA AgreeKept ==
  ASSUME NEW d \in Engines, NEW t \in Seq(Chars), NEW i \in 1..Len(t), Kept(t, i),
         NEW s \in ScanStates, NEW e \in LexStates(d), Agree(t, i - 1, s, e),
         NEW r, r = ScanAt(Normalized(t), s, Count(t, i)), ~r.ambiguous,
         NEW f, f = LexAt(d, t, e, i)
  PROVE  Agree(t, i, r, f)
<1> DEFINE n == Normalized(t)
           q == Count(t, i)
           ch == t[i]
<1>1. n \in Seq(Chars) /\ q \in 1..Len(n) /\ n[q] = ch BY KeptAt, NormalizedIn
<1>2. /\ \A a, b : b \notin {"CR", "LF", "end"} => (Has(n, q, <<a, b>>) <=> Has(t, i, <<a, b>>))
      /\ Executable(t, i) => Executable(n, q)
      /\ Has(t, i, <<"-", "-">>) /\ ~NoBlank(n, q) => At(t, i + 2) \in Blank
  BY Aligned
<1>3. /\ Has(n, q, <<"*", "/">>) <=> Has(t, i, <<"*", "/">>)
      /\ Has(n, q, <<"/", "*">>) <=> Has(t, i, <<"/", "*">>)
      /\ Has(n, q, <<"-", "-">>) <=> Has(t, i, <<"-", "-">>)
  BY <1>2
<1>4. r = ScanAt(n, s, q) OBVIOUS
<1> HIDE DEF n, q
<1>5. i - 1 + 1 = i OBVIOUS
<1>6. ~e.opened /\ SameTokens(s, e) BY DEF Agree
<1>7. \A a, b : Has(t, i, <<a, b>>) /\ b # "end" => ch = a /\ i + 1 \in 1..Len(t) /\ t[i + 1] = b
  <2>1. ASSUME NEW a, NEW b, Has(t, i, <<a, b>>), b # "end"
        PROVE  ch = a /\ i + 1 \in 1..Len(t) /\ t[i + 1] = b
    <3>1. At(t, i) = a /\ At(t, i + 1) = b BY <2>1, Has2
    <3>2. i + 1 \in 1..Len(t) BY <2>1, <3>1, AtIn
    <3> QED BY <3>1, <3>2, AtIn
  <2> QED BY <2>1
<1>8. CASE s.skip
  <2>1. e.skip = 1 BY <1>8 DEF Agree, SameMode
  <2>2. r.in = s.in /\ ~r.skip /\ SameVerdict(r, s) BY <1>1, <1>4, <1>8, ScanAtIs
  <2>3. f.in = e.in /\ f.skip = 0 /\ f.depth = e.depth /\ f.opened = e.opened /\ f.tokens = e.tokens
    BY <2>1, LexAtIs
  <2>4. \/ s.in = "code" /\ e.in = "code"
        \/ s.in = "line" /\ e.in = "line"
        \/ s.in = "block" /\ e.in = "block" /\ e.depth = 1
    BY <1>8 DEF Agree, SameMode
  <2> QED BY <1>6, <2>2, <2>3, <2>4 DEF Agree, SameMode, SameTokens, SameVerdict
<1>9. ASSUME ~s.skip
      PROVE  /\ e.skip = 0 /\ ch \notin Unsure
             /\ \/ s.in = "code" /\ e.in \in {"code", "word"}
                \/ s.in = "line" /\ e.in = "line"
                \/ s.in = "block" /\ e.in = "block" /\ e.depth = 1
                \/ s.in = "'" /\ e.in = "'"
                \/ s.in = "line" /\ e.in = "code" /\ i - 1 \in 1..Len(t) /\ ~Kept(t, i - 1)
  <2>1. ch \notin Unsure BY <1>1, <1>4, <1>9, ScanAtIs
  <2> QED BY <1>9, <2>1 DEF Agree, SameMode
<1>10. CASE ~s.skip /\ s.in = "line" /\ e.in = "line"
  <2>1. r.in = (IF ch = "LF" THEN "code" ELSE "line") /\ ~r.skip /\ SameVerdict(r, s)
    BY <1>1, <1>4, <1>10, ScanAtIs
  <2>2. e.skip = 0 /\ ch # "CR" BY <1>9, <1>10 DEF Unsure
  <2>3. /\ f.in = IF ch = "LF" THEN "code" ELSE "line"
        /\ f.skip = 0 /\ f.opened = e.opened /\ f.tokens = e.tokens
    BY <1>10, <2>2, LexAtIs
  <2> QED BY <1>6, <2>1, <2>3 DEF Agree, SameMode, SameTokens, SameVerdict
<1>11. CASE ~s.skip /\ s.in = "line" /\ e.in = "code"
  <2>1. i - 1 \in 1..Len(t) /\ ~Kept(t, i - 1) /\ e.skip = 0 BY <1>9, <1>11
  <2>2. t[i - 1 + 1] = "LF" BY <2>1, DroppedAt
  <2>3. ch = "LF" BY <1>5, <2>2
  <2>4. r.in = "code" /\ ~r.skip /\ SameVerdict(r, s) BY <1>1, <1>4, <1>11, <2>3, ScanAtIs
  <2>5. f = InCode(d, t, e, i) BY <1>11, <2>1, LexAtIs
  <2>6. f = Into(e, "code") BY <2>3, <2>5, InCodeIs DEF Blank
  <2>7. f.tokens = e.tokens /\ f.opened = e.opened /\ f.in = "code" /\ f.skip = e.skip
    BY <2>6, IntoIs
  <2> QED BY <1>6, <2>1, <2>4, <2>7 DEF Agree, SameMode, SameTokens, SameVerdict
<1>12. CASE ~s.skip /\ s.in = "block" /\ e.in = "block" /\ e.depth = 1
  <2>1. e.skip = 0 BY <1>9, <1>12
  <2>2. CASE Has(t, i, <<"*", "/">>)
    <3>1. r.in = "code" /\ r.skip /\ SameVerdict(r, s) BY <1>1, <1>3, <1>4, <1>12, <2>2, ScanAtIs
    <3>2. f.in = "code" /\ f.skip = 1 /\ f.opened = e.opened /\ f.tokens = e.tokens
      BY <1>12, <2>1, <2>2, LexAtIs
    <3>3. i + 1 \in 1..Len(t) /\ t[i + 1] = "/" BY <1>7, <2>2
    <3> QED BY <1>6, <3>1, <3>2, <3>3 DEF Agree, SameMode, SameTokens, SameVerdict
  <2>3. CASE ~Has(t, i, <<"*", "/">>)
    <3>1. r.in = "block" /\ ~r.skip /\ SameVerdict(r, s) /\ ~Has(n, q, <<"/", "*">>)
      BY <1>1, <1>3, <1>4, <1>12, <2>3, ScanAtIs
    <3>2. f = e BY <1>3, <1>12, <2>1, <2>3, <3>1, LexAtIs
    <3> QED BY <1>6, <1>12, <2>1, <3>1, <3>2 DEF Agree, SameMode, SameTokens, SameVerdict
  <2> QED BY <2>2, <2>3
<1>13. CASE ~s.skip /\ s.in = "'" /\ e.in = "'"
  <2>1. e.skip = 0 /\ ch # "\\" BY <1>9, <1>13 DEF Unsure
  <2>2. r.in = (IF ch = s.in THEN "code" ELSE s.in) /\ ~r.skip /\ SameVerdict(r, s)
    BY <1>1, <1>4, <1>13, ScanAtIs DEF Quotes
  <2>3. /\ f.in = (IF ch = "'" THEN "code" ELSE "'") /\ f.skip = 0
        /\ f.opened = e.opened /\ f.tokens = e.tokens
    BY <1>13, <2>1, LexAtIs
  <2> QED BY <1>6, <1>13, <2>2, <2>3 DEF Agree, SameMode, SameTokens, SameVerdict
<1>14. CASE ~s.skip /\ s.in = "code" /\ e.in \in {"code", "word"}
  <2>1. e.skip = 0 /\ ch \notin Unsure /\ ch \in Chars BY <1>9, <1>14
  <2>2. f = InCode(d, t, e, i) BY <1>14, <2>1, LexAtIs
  <2>3. CASE Has(t, i, <<"-", "-">>)
    <3>1. ch = "-" /\ i + 1 \in 1..Len(t) /\ t[i + 1] = "-" BY <1>7, <2>3
    <3>2. r.in = "line" /\ r.skip /\ SameVerdict(r, s) /\ ~NoBlank(n, q)
      BY <1>1, <1>3, <1>4, <1>14, <2>3, ScanAtIs
    <3>3. Dashes(d, t, i) BY <1>2, <2>3, <3>2 DEF Dashes
    <3>4. f = Skipping(e, "line", 1) BY <2>2, <3>1, <3>3, InCodeIs
    <3>5. f.tokens = e.tokens /\ f.opened = e.opened /\ f.in = "line" /\ f.skip = 1
      BY <3>4, SkippingIs
    <3> QED BY <1>6, <3>1, <3>2, <3>5 DEF Agree, SameMode, SameTokens, SameVerdict
  <2>4. CASE Has(t, i, <<"/", "*">>)
    <3>1. ch = "/" /\ i + 1 \in 1..Len(t) /\ t[i + 1] = "*" BY <1>7, <2>4
    <3>2. r.in = "block" /\ r.skip /\ SameVerdict(r, s) /\ ~Executable(n, q)
      BY <1>1, <1>3, <1>4, <1>14, <2>4, ScanAtIs
    <3>3. ~Executed(d, t, i) BY <1>2, <3>2 DEF Executed
    <3>4. f = Commented(e) BY <2>2, <2>4, <3>1, <3>3, InCodeIs
    <3>5. /\ f.tokens = e.tokens /\ f.opened = e.opened
          /\ f.in = "block" /\ f.skip = 1 /\ f.depth = 1
      BY <3>4, CommentedIs
    <3> QED BY <1>6, <3>1, <3>2, <3>5 DEF Agree, SameMode, SameTokens, SameVerdict
  <2>5. CASE ch = Semi
    <3>1. r.in = "code" /\ ~r.skip /\ ~r.empty /\ r.semi /\ r.multi = s.multi
      BY <1>1, <1>4, <1>14, <2>5, ScanAtIs
    <3>2. f = Begun(e, "semicolon", "code") BY <2>2, <2>5, InCodeIs
    <3>3. SameTokens(r, f) /\ ~f.opened /\ f.in = "code" /\ f.skip = e.skip
      <4> DEFINE kind == "semicolon"
                 in == "code"
      <4>1. kind \in Kinds /\ kind = "semicolon" /\ in # "word" /\ in = "code" BY DEF Kinds
      <4>2. f = Begun(e, kind, in) /\ EndSeen(s, r) BY <3>1, <3>2 DEF EndSeen
      <4> HIDE DEF kind, in
      <4>3. SameTokens(r, f) /\ ~f.opened /\ f.in = in /\ f.skip = e.skip
        BY <1>6, <4>1, <4>2, AgreeEnd
      <4> QED BY <4>1, <4>3
    <3> QED BY <2>1, <3>1, <3>3 DEF Agree, SameMode
  <2>6. CASE ch \in Whitespace
    <3>1. r.in = "code" /\ ~r.skip /\ SameVerdict(r, s) BY <1>1, <1>4, <1>14, <2>6, ScanAtIs
    <3>2. f = Into(e, "code") BY <2>2, <2>6, InCodeIs DEF Blank, Whitespace
    <3>3. f.tokens = e.tokens /\ f.opened = e.opened /\ f.in = "code" /\ f.skip = e.skip
      BY <3>2, IntoIs
    <3> QED BY <1>6, <2>1, <3>1, <3>3 DEF Agree, SameMode, SameTokens, SameVerdict
  <2>7. CASE /\ ~Has(t, i, <<"-", "-">>) /\ ~Has(t, i, <<"/", "*">>)
             /\ ch \notin Whitespace \union {Semi}
    <3>1. /\ r.in = (IF ch \in Quotes THEN ch ELSE "code") /\ ~r.skip
          /\ ~r.empty /\ r.semi = s.semi /\ r.multi = (s.multi \/ s.semi)
      BY <1>1, <1>3, <1>4, <1>14, <2>7, ScanAtIs
    <3>2. ch \in {"SELECT", "DELETE", "M", "-", "/", "*", "!", "]", "'"}
      BY <2>1, <2>7 DEF Chars, Unsure, Whitespace, Semi
    <3>3. CASE ch \in Letters /\ e.in = "word"
      <4>1. f = e BY <2>2, <3>3, InCodeIs
      <4>2. r.in = "code" BY <3>1, <3>3 DEF Letters, Quotes
      <4>3. s.multi \in BOOLEAN /\ s.semi \in BOOLEAN BY DEF ScanStates
      <4>4. SameTokens(r, e) BY <1>6, <3>1, <3>3, <4>3 DEF SameTokens
      <4> QED BY <1>6, <2>1, <3>1, <3>3, <4>1, <4>2, <4>4 DEF Agree, SameMode
    <3>4. CASE ~(ch \in Letters /\ e.in = "word")
      <4>1. PICK kind \in Kinds, in \in {"code", "word", "'"} :
              /\ f = Begun(e, kind, in) /\ kind # "semicolon"
              /\ in = "'" <=> ch = "'"
        <5>1. "other" \in Kinds /\ Word1(t, i) \in Kinds /\ Word1(t, i) # "semicolon"
          BY DEF Kinds, Word1
        <5>2. CASE ch = "'"
          <6>1. ch \in Openings(d) BY <5>2 DEF Openings
          <6>2. f = Begun(e, "other", "'") BY <2>2, <5>2, <6>1, InCodeIs
          <6> QED BY <5>1, <5>2, <6>2
        <5>3. CASE ch \in Letters
          <6>1. f = Begun(e, Word1(t, i), "word") BY <2>2, <3>4, <5>3, InCodeIs
          <6> QED BY <5>1, <5>3, <6>1 DEF Letters
        <5>4. CASE ch = "-"
          <6>1. ~Dashes(d, t, i) BY <2>7 DEF Dashes
          <6>2. f = Begun(e, "other", "code") BY <2>2, <5>4, <6>1, InCodeIs
          <6> QED BY <5>1, <5>4, <6>2
        <5>5. CASE ch = "/"
          <6>1. f = Begun(e, "other", "code") BY <2>2, <2>7, <5>5, InCodeIs
          <6> QED BY <5>1, <5>5, <6>1
        <5>6. CASE ch = "*"
          <6>1. f = Begun(e, "other", "code") BY <1>6, <2>2, <5>6, InCodeIs
          <6> QED BY <5>1, <5>6, <6>1
        <5>7. CASE ch \in {"!", "]"}
          <6>1. ch \notin Blank \union Openings(d) \union Letters \union {"-", "#", "/", "*", Semi}
            BY <5>7 DEF Blank, Openings, Letters, Semi
          <6> DEFINE c == t[i]
          <6> HIDE DEF c
          <6>2. InCode(d, t, e, i) = Begun(e, "other", "code") BY <6>1, InCodeOther
          <6> QED BY <2>2, <5>1, <5>7, <6>2
        <5> QED BY <3>2, <5>2, <5>3, <5>4, <5>5, <5>6, <5>7 DEF Letters
      <4>2. SameTokens(r, f) /\ ~f.opened /\ f.in = in /\ f.skip = e.skip
        <5>1. TokenSeen(s, r) BY <3>1 DEF TokenSeen
        <5>2. TokenFrom(e, kind, in, f) BY <4>1 DEF TokenFrom
        <5>3. SameTokens(s, e) /\ ~e.opened /\ s \in ScanStates /\ e \in LexStates(d) BY <1>6
        <5> QED BY ONLY <5>1, <5>2, <5>3, AgreeToken
      <4>3. (r.in = "'" /\ f.in = "'") \/ (r.in = "code" /\ f.in \in {"code", "word"})
        <5>1. CASE ch = "'"
          <6>1. r.in = "'" BY <3>1, <5>1 DEF Quotes
          <6> QED BY <4>1, <4>2, <5>1, <6>1
        <5>2. CASE ch # "'"
          <6>1. ch \notin Quotes BY <3>2, <5>2 DEF Quotes
          <6>2. r.in = "code" BY <3>1, <6>1
          <6>3. in \in {"code", "word"} BY <4>1, <5>2
          <6> QED BY <4>2, <6>2, <6>3
        <5> QED BY <5>1, <5>2
      <4> QED BY <2>1, <3>1, <4>2, <4>3 DEF Agree, SameMode
    <3> QED BY <3>3, <3>4
  <2> QED BY <2>3, <2>4, <2>5, <2>6, <2>7
<1> QED BY <1>8, <1>9, <1>10, <1>11, <1>12, <1>13, <1>14

\* The scan, as far as the text has been read up to i.
Along(t, i) == Scanned(Normalized(t))[Count(t, i)]

LEMMA AlongIs ==
  ASSUME NEW t \in Seq(Chars)
  PROVE  /\ Along(t, 0) = ScanStart
         /\ Along(t, Len(t)) = Scanned(Normalized(t))[Len(Normalized(t))]
         /\ \A i \in 0..Len(t) : Along(t, i) \in ScanStates
         /\ \A i \in 1..Len(t) :
              Along(t, i) = IF Kept(t, i) THEN ScanAt(Normalized(t), Along(t, i - 1), Count(t, i))
                                          ELSE Along(t, i - 1)
<1> DEFINE n == Normalized(t)
<1>1. /\ n \in Seq(Chars) /\ Count(t, 0) = 0 /\ Count(t, Len(t)) = Len(n)
      /\ \A i \in 0..Len(t) : Count(t, i) \in 0..Len(n)
  BY NormalizedIn
<1>2. /\ Scanned(n) \in [0..Len(n) -> ScanStates] /\ Scanned(n)[0] = ScanStart
      /\ \A k \in 1..Len(n) : Scanned(n)[k] = ScanAt(n, Scanned(n)[k - 1], k)
  BY <1>1, ScannedIs
<1> DEFINE A(i) == Scanned(n)[Count(t, i)]
<1>3. \A i : Along(t, i) = A(i) BY DEF Along
<1> HIDE DEF n
<1>4. A(0) = ScanStart /\ A(Len(t)) = Scanned(n)[Len(n)] BY <1>1, <1>2
<1>5. \A i \in 0..Len(t) : A(i) \in ScanStates BY <1>1, <1>2
<1>6. ASSUME NEW i \in 1..Len(t) PROVE A(i) = IF Kept(t, i) THEN ScanAt(n, A(i - 1), Count(t, i)) ELSE A(i - 1)
  <2>1. CASE Kept(t, i)
    <3>1. Count(t, i) = Count(t, i - 1) + 1 /\ Count(t, i) \in 1..Len(Normalized(t)) BY <2>1, KeptAt
    <3>2. i - 1 \in 0..Len(t) OBVIOUS
    <3>3. Count(t, i - 1) \in 0..Len(n) BY <1>1, <3>2
    <3>4. Count(t, i) - 1 = Count(t, i - 1) /\ Count(t, i) \in 1..Len(n) BY <3>1, <3>3 DEF n
    <3> QED BY <1>2, <2>1, <3>4
  <2>2. CASE ~Kept(t, i)
    <3>1. Count(t, i) = Count(t, i - 1) BY <2>2, DroppedAt
    <3> QED BY <2>2, <3>1
  <2> QED BY <2>1, <2>2
<1> HIDE DEF A
<1> QED BY <1>3, <1>4, <1>5, <1>6 DEF n

\* As long as the scan is sure, every lexer agrees with it.
LEMMA Together ==
  ASSUME NEW d \in Engines, NEW t \in Seq(Chars)
  PROVE  \A i \in 0..Len(t) :
           Along(t, i).ambiguous \/ Agree(t, i, Along(t, i), Read(d, t)[i])
<1> DEFINE S == {i \in 0..Len(t) : Along(t, i).ambiguous \/ Agree(t, i, Along(t, i), Read(d, t)[i])}
<1>1. 0 \in S
  <2>1. Along(t, 0) = ScanStart /\ Read(d, t)[0] = LexStart BY AlongIs, ReadIs
  <2>2. ~HasSemi(<<>>) /\ ~Second(<<>>)
    <3>1. DOMAIN <<>> = {} OBVIOUS
    <3> QED BY <3>1 DEF HasSemi, Second
  <2>3. Agree(t, 0, ScanStart, LexStart)
    BY <2>2 DEF Agree, SameTokens, SameMode, ScanStart, LexStart
  <2> QED BY <2>1, <2>3
<1>2. ASSUME NEW k \in 0 .. Len(t) - 1, k \in S PROVE k + 1 \in S
  <2> DEFINE i == k + 1
             s == Along(t, k)
             e == Read(d, t)[k]
             r == Along(t, i)
             f == Read(d, t)[i]
  <2>1. i \in 1..Len(t) /\ i \in 0..Len(t) /\ i - 1 = k /\ k \in 0..Len(t) OBVIOUS
  <2> HIDE DEF i
  <2>2. s \in ScanStates /\ r \in ScanStates BY <2>1, AlongIs
  <2>3. e \in LexStates(d) /\ f = LexAt(d, t, e, i) BY <2>1, ReadIs
  <2>4. r = IF Kept(t, i) THEN ScanAt(Normalized(t), s, Count(t, i)) ELSE s BY <2>1, AlongIs
  <2>5. s.ambiguous \/ Agree(t, i - 1, s, e) BY <1>2, <2>1
  <2> HIDE DEF s, e, r, f
  <2>6. CASE Kept(t, i)
    <3>1. Normalized(t) \in Seq(Chars) /\ Count(t, i) \in 1..Len(Normalized(t))
      BY <2>1, <2>6, NormalizedIn, KeptAt
    <3>2. r = ScanAt(Normalized(t), s, Count(t, i)) BY <2>4, <2>6
    <3>3. r.ambiguous \/ ~s.ambiguous BY <2>2, <3>1, <3>2, ScanAtIs
    <3>4. ASSUME ~r.ambiguous PROVE Agree(t, i, r, f)
      <4>1. Agree(t, i - 1, s, e) BY <2>5, <3>3, <3>4
      <4> QED BY <2>1, <2>2, <2>3, <2>6, <3>2, <3>4, <4>1, AgreeKept
    <3> QED BY <2>1, <3>4 DEF r, f, i
  <2>7. CASE ~Kept(t, i)
    <3>1. r = s BY <2>4, <2>7
    <3>2. CASE s.ambiguous BY <2>1, <3>1, <3>2 DEF r, i
    <3>3. CASE Agree(t, i - 1, s, e)
      <4>1. Agree(t, i, r, f) BY <2>1, <2>2, <2>3, <2>7, <3>1, <3>3, AgreeDropped
      <4> QED BY <2>1, <4>1 DEF r, f, i
    <3> QED BY <2>5, <3>2, <3>3
  <2> QED BY <2>6, <2>7
<1>3. 0 \in Nat /\ Len(t) \in Nat OBVIOUS
<1> HIDE DEF S
<1>4. 0..Len(t) \subseteq S BY <1>1, <1>2, <1>3, Upwards
<1> QED BY <1>4 DEF S

\* When the scan is sure of a text, its verdict is what the tokens say.
LEMMA SureOf ==
  ASSUME NEW d \in Engines, NEW t \in Seq(Chars), ~Scan(Normalized(t)).ambiguous
  PROVE  /\ Scan(Normalized(t)).multi <=> Second(Lexed(d, t))
         /\ Scan(Normalized(t)).empty <=> Lexed(d, t) = <<>>
<1> DEFINE s == Along(t, Len(t))
           e == Read(d, t)[Len(t)]
<1>1. Len(t) \in 0..Len(t) OBVIOUS
<1>2. s \in ScanStates /\ s = Scanned(Normalized(t))[Len(Normalized(t))] BY <1>1, AlongIs
<1>3. s.ambiguous \/ Agree(t, Len(t), s, e) BY <1>1, Together
<1>4. Lexed(d, t) = e.tokens BY DEF Lexed
<1> HIDE DEF s, e
<1>5. PICK inner \in BOOLEAN :
        Scan(Normalized(t)) = [s EXCEPT !.multi = IF s.ambiguous THEN inner ELSE @]
  BY <1>2 DEF Scan
<1>6. ~s.ambiguous BY <1>2, <1>5 DEF ScanStates
<1>7. Scan(Normalized(t)).multi = s.multi /\ Scan(Normalized(t)).empty = s.empty
  BY <1>2, <1>5, <1>6 DEF ScanStates
<1> QED BY <1>3, <1>4, <1>6, <1>7 DEF Agree, SameTokens

\* When the scan is sure of a text, all engines read it as the scan does.
THEOREM SureIsExactHolds == Spec => []SureIsExact
<1>1. TextOK => SureIsExact
  <2> SUFFICES ASSUME TextOK PROVE SureIsExact OBVIOUS
  <2>1. text \in Seq(Chars) BY DEF TextOK
  <2>2. ASSUME ~Scan(Normalized(text)).ambiguous, NEW d \in Engines
        PROVE  /\ Scan(Normalized(text)).multi <=> Second(Lexed(d, text))
               /\ Scan(Normalized(text)).empty <=> Lexed(d, text) = <<>>
    BY <2>1, <2>2, SureOf
  <2> QED BY <2>2 DEF SureIsExact, Second
<1> QED BY <1>1, TextIsOK, PTL

-----------------------------------------------------------------------------
(* What passes is one statement.                                           *)

\* A token more at most, and the end of a statement only at a semicolon.
LEMMA InCodeTokens ==
  ASSUME NEW d \in Engines, NEW t \in Seq(Chars), NEW e \in LexStates(d), NEW i \in 1..Len(t),
         NEW f, f = InCode(d, t, e, i)
  PROVE  /\ t[i] \in Blank => f.tokens = e.tokens
         /\ \/ f.tokens = e.tokens
            \/ \E kind \in Kinds : /\ f.tokens = Append(e.tokens, kind)
                                   /\ kind = "semicolon" <=> t[i] = Semi
<1> DEFINE ch == t[i]
           Took == \E kind \in Kinds : /\ f.tokens = Append(e.tokens, kind)
                                       /\ kind = "semicolon" <=> ch = Semi
<1>1. /\ Openings(d) \cap (Blank \union Letters \union {"-", "#", "/", "*", Semi}) = {}
      /\ Blank \cap (Letters \union {"-", "#", "/", "*", Semi}) = {}
      /\ Letters \cap {"-", "#", "/", "*", Semi} = {}
      /\ Semi \notin {"-", "#", "/", "*"}
  BY DEF Openings, Blank, Letters, Semi
<1>2. "other" \in Kinds /\ Word1(t, i) \in Kinds /\ Word1(t, i) # "semicolon" BY DEF Kinds, Word1
<1>3. "semicolon" \in Kinds BY DEF Kinds
<1>4. ASSUME NEW in, f = Begun(e, "other", in), ch # Semi PROVE Took BY <1>2, <1>4, BegunIs
<1>5. ASSUME NEW in, NEW skip, f = Skipping(e, in, skip) PROVE f.tokens = e.tokens
  BY <1>5, SkippingIs
<1>6. ASSUME NEW in, f = Into(e, in) PROVE f.tokens = e.tokens BY <1>6, IntoIs
<1>7. ASSUME NEW opened, NEW skip, f = Opened(e, opened, skip) PROVE f.tokens = e.tokens
  BY <1>7, OpenedIs
<1> HIDE DEF Took
<1>8. CASE ch \in Blank
  <2>1. f = Into(e, "code") BY <1>8, InCodeIs
  <2> QED BY <1>6, <2>1
<1>9. CASE ch = "-"
  <2>1. f = Skipping(e, "line", 1) \/ f = Begun(e, "other", "code") BY <1>9, InCodeIs
  <2> QED BY <1>1, <1>4, <1>5, <1>9, <2>1 DEF Took
<1>10. CASE ch = "#"
  <2>1. f = Into(e, "line") \/ f = Begun(e, "other", "code") BY <1>10, InCodeIs
  <2> QED BY <1>1, <1>4, <1>6, <1>10, <2>1 DEF Took
<1>11. CASE ch = "/"
  <2>1. \/ f = Commented(e) \/ f = Begun(e, "other", "code")
        \/ f = Opened(e, TRUE, IF At(t, i + 2) = "!" THEN 2 ELSE 3)
    BY <1>11, InCodeIs
  <2>2. f = Commented(e) => f.tokens = e.tokens BY CommentedIs
  <2> QED BY <1>1, <1>4, <1>7, <1>11, <2>1, <2>2 DEF Took
<1>12. CASE ch = "*"
  <2>1. f = Opened(e, FALSE, 1) \/ f = Begun(e, "other", "code") BY <1>12, InCodeIs
  <2> QED BY <1>1, <1>4, <1>7, <1>12, <2>1 DEF Took
<1>13. CASE ch = Semi
  <2>1. f = Begun(e, "semicolon", "code") BY <1>13, InCodeIs
  <2>2. f.tokens = Append(e.tokens, "semicolon") BY <2>1, BegunIs
  <2> QED BY <1>1, <1>3, <1>13, <2>2
<1>14. CASE ch \in Openings(d)
  <2>1. f = Begun(e, "other", ch) BY <1>14, InCodeIs
  <2> QED BY <1>1, <1>4, <1>14, <2>1 DEF Took
<1>15. CASE ch \in Letters
  <2>1. f = e \/ f = Begun(e, Word1(t, i), "word") BY <1>15, InCodeIs
  <2>2. ch # Semi /\ ch \notin Blank BY <1>1, <1>15
  <2>3. ASSUME f = Begun(e, Word1(t, i), "word") PROVE f.tokens = Append(e.tokens, Word1(t, i))
    BY <2>3, BegunIs
  <2> QED BY <1>2, <2>1, <2>2, <2>3
<1>16. CASE ch \notin Blank \union Openings(d) \union Letters \union {"-", "#", "/", "*", Semi}
  <2>1. InCode(d, t, e, i) = Begun(e, "other", "code") BY <1>16, InCodeOther
  <2> QED BY <1>4, <1>16, <2>1 DEF Took
<1> QED BY <1>8, <1>9, <1>10, <1>11, <1>12, <1>13, <1>14, <1>15, <1>16

LEMMA LexAtTokens ==
  ASSUME NEW d \in Engines, NEW t \in Seq(Chars), NEW e \in LexStates(d), NEW i \in 1..Len(t),
         NEW f, f = LexAt(d, t, e, i)
  PROVE  /\ t[i] \in Blank => f.tokens = e.tokens
         /\ \/ f.tokens = e.tokens
            \/ \E kind \in Kinds : /\ f.tokens = Append(e.tokens, kind)
                                   /\ kind = "semicolon" <=> t[i] = Semi
<1>1. e.in \in {"code", "word", "line", "block"} \union Openings(d) /\ e.skip \in Nat
  BY DEF LexStates
<1>2. CASE e.skip = 0 /\ e.in \in {"code", "word"}
  <2>1. f = InCode(d, t, e, i) BY <1>2, LexAtIs
  <2> QED BY <2>1, InCodeTokens
<1>3. CASE ~(e.skip = 0 /\ e.in \in {"code", "word"})
  <2>1. f.tokens = e.tokens BY <1>1, <1>3, LexAtIs
  <2> QED BY <2>1
<1> QED BY <1>2, <1>3

\* Behind a semicolon only white space and semicolons: what the guard goes by
\* when it is not sure.
Trailing(t) == \A a, j \in 1..Len(t) : a < j /\ t[a] = Semi => t[j] \in Blank \union {Semi}

LEMMA TrailingOf ==
  ASSUME NEW t \in Seq(Chars),
         \A a, j \in 1..Len(Normalized(t)) :
            a < j /\ Normalized(t)[a] = Semi => Normalized(t)[j] \in Whitespace \union {Semi}
  PROVE  Trailing(t)
<1> SUFFICES ASSUME NEW a \in 1..Len(t), NEW j \in 1..Len(t), a < j, t[a] = Semi
             PROVE  t[j] \in Blank \union {Semi}
  BY DEF Trailing
<1>1. Kept(t, a)
  <2>1. Semi # "CR" BY DEF Semi
  <2> QED BY <2>1, DroppedAt
<1>2. Count(t, a) \in 1..Len(Normalized(t)) /\ Normalized(t)[Count(t, a)] = Semi
  BY <1>1, KeptAt
<1>3. CASE Kept(t, j)
  <2>1. /\ Count(t, j) = Count(t, j - 1) + 1 /\ Count(t, j) \in 1..Len(Normalized(t))
        /\ Normalized(t)[Count(t, j)] = t[j]
    BY <1>3, KeptAt
  <2>2. a \in 0..Len(t) /\ j - 1 \in a..Len(t) OBVIOUS
  <2>3. Count(t, a) <= Count(t, j - 1) BY <2>2, CopyGrows
  <2>4. Count(t, a) < Count(t, j)
    <3>1. j - 1 \in 0..Len(t) OBVIOUS
    <3>2. Count(t, j - 1) \in 0..Len(Normalized(t)) BY <3>1, NormalizedIn
    <3> QED BY <1>2, <2>1, <2>3, <3>2
  <2> QED BY <1>2, <2>1, <2>4 DEF Blank, Whitespace
<1>4. CASE ~Kept(t, j) BY <1>4, DroppedAt DEF Blank
<1> QED BY <1>3, <1>4

\* Then nothing follows a semicolon for any engine.
LEMMA TrailingEnds ==
  ASSUME NEW d \in Engines, NEW t \in Seq(Chars), Trailing(t)
  PROVE  ~Second(Lexed(d, t))
<1> DEFINE E(i) == Read(d, t)[i].tokens
           S == {i \in 0..Len(t) : /\ ~Second(E(i))
                                   /\ HasSemi(E(i)) => \E a \in 1..i : t[a] = Semi}
<1>1. 0 \in S
  <2>1. E(0) = <<>> BY ReadIs DEF LexStart
  <2>2. ~HasSemi(<<>>) /\ ~Second(<<>>)
    <3>1. DOMAIN <<>> = {} OBVIOUS
    <3> QED BY <3>1 DEF HasSemi, Second
  <2> QED BY <2>1, <2>2
<1>2. ASSUME NEW k \in 0 .. Len(t) - 1, k \in S PROVE k + 1 \in S
  <2> DEFINE i == k + 1
             e == Read(d, t)[k]
             f == Read(d, t)[i]
  <2>1. i \in 1..Len(t) /\ i \in 0..Len(t) /\ i - 1 = k /\ k \in 0..Len(t) OBVIOUS
  <2> HIDE DEF i
  <2>2. e \in LexStates(d) /\ f = LexAt(d, t, e, i) BY <2>1, ReadIs
  <2>3. ~Second(e.tokens) /\ (HasSemi(e.tokens) => \E a \in 1..k : t[a] = Semi) BY <1>2
  <2> HIDE DEF e, f
  <2>4. \A a \in 1..k : a \in 1..i /\ a \in 1..Len(t) /\ a < i BY <2>1
  <2>5. i \in 1..i BY <2>1
  <2>6. CASE f.tokens = e.tokens
    <3>1. ~Second(f.tokens) /\ (HasSemi(f.tokens) => \E a \in 1..i : t[a] = Semi)
      BY <2>3, <2>4, <2>6
    <3> QED BY <2>1, <3>1 DEF f, i
  <2>7. CASE f.tokens # e.tokens
    <3>1. PICK kind \in Kinds : f.tokens = Append(e.tokens, kind) /\ (kind = "semicolon" <=> t[i] = Semi)
      BY <2>1, <2>2, <2>7, LexAtTokens
    <3>2. t[i] \notin Blank BY <2>1, <2>2, <2>7, LexAtTokens
    <3>3. e.tokens \in Seq(Kinds) BY <2>2 DEF LexStates
    <3>4. /\ HasSemi(f.tokens) <=> HasSemi(e.tokens) \/ kind = "semicolon"
          /\ Second(f.tokens) <=> Second(e.tokens) \/ (HasSemi(e.tokens) /\ kind # "semicolon")
      BY <3>1, <3>3, AppendKind
    <3>5. HasSemi(e.tokens) => kind = "semicolon"
      <4>1. HasSemi(e.tokens) => \E a \in 1..Len(t) : a < i /\ t[a] = Semi BY <2>3, <2>4
      <4> QED BY <2>1, <3>1, <3>2, <4>1 DEF Trailing
    <3>6. ~Second(f.tokens) BY <2>3, <3>4, <3>5
    <3>7. HasSemi(f.tokens) => \E a \in 1..i : t[a] = Semi BY <2>3, <2>4, <2>5, <3>1, <3>4
    <3> QED BY <2>1, <3>6, <3>7 DEF f, i
  <2> QED BY <2>6, <2>7
<1>3. 0 \in Nat /\ Len(t) \in Nat /\ Len(t) \in 0..Len(t) OBVIOUS
<1>4. Lexed(d, t) = E(Len(t)) BY DEF Lexed
<1> HIDE DEF S
<1>5. 0..Len(t) \subseteq S BY <1>1, <1>2, <1>3, Upwards
<1>6. Len(t) \in S BY <1>3, <1>5
<1> QED BY <1>4, <1>6 DEF S

LEMMA OneHead ==
  ASSUME NEW q \in Seq(Kinds), ~Second(q)
  PROVE  Heads(q) \subseteq {1} /\ Cardinality(Heads(q)) <= 1
<1>1. Heads(q) \subseteq {1}
  <2>1. ASSUME NEW i \in DOMAIN q, q[i] # "semicolon", i # 1, q[i - 1] = "semicolon" PROVE FALSE
    <3>1. i - 1 \in DOMAIN q /\ i - 1 < i BY <2>1
    <3> QED BY <2>1, <3>1 DEF Second
  <2> QED BY <2>1 DEF Heads
<1>2. IsFiniteSet({1}) /\ Cardinality({1}) = 1 BY FS_Singleton
<1>3. Cardinality(Heads(q)) <= Cardinality({1}) BY <1>1, <1>2, FS_Subset
<1> QED BY <1>1, <1>2, <1>3

\* What passes has nothing behind a semicolon, for any engine.
LEMMA PassIsOne ==
  ASSUME NEW d \in Engines, NEW t \in Seq(Chars), NEW readOnly \in BOOLEAN,
         Guard(t, readOnly) = "pass"
  PROVE  ~Second(Lexed(d, t)) /\ Lexed(d, t) \in Seq(Kinds)
<1> DEFINE n == Normalized(t)
           s == Along(t, Len(t))
           inner == \E i, j \in DOMAIN n : i < j /\ n[i] = ";" /\ n[j] \notin Whitespace \union {";"}
<1>1. ~Scan(n).multi BY DEF Guard
<1>2. Len(t) \in 0..Len(t) /\ DOMAIN n = 1..Len(n)
  <2>1. n \in Seq(Chars) BY NormalizedIn
  <2> QED BY <2>1
<1>3. s \in ScanStates /\ s = Scanned(n)[Len(n)] BY <1>2, AlongIs
<1>4. Scan(n) = [s EXCEPT !.multi = IF s.ambiguous THEN inner ELSE @] BY <1>3 DEF Scan
<1>5. Scan(n).ambiguous = s.ambiguous /\ (s.ambiguous => Scan(n).multi = inner)
  <2> HIDE DEF inner
  <2> QED BY <1>3, <1>4 DEF ScanStates
<1>6. ASSUME ~s.ambiguous PROVE ~Second(Lexed(d, t)) BY <1>1, <1>5, <1>6, SureOf
<1>7. ASSUME s.ambiguous PROVE ~Second(Lexed(d, t))
  <2>1. ~inner BY <1>1, <1>5, <1>7
  <2>2. \A a, j \in 1..Len(n) : a < j /\ n[a] = Semi => n[j] \in Whitespace \union {Semi}
    BY <1>2, <2>1 DEF Semi
  <2>3. Trailing(t) BY <2>2, TrailingOf
  <2> QED BY <2>3, TrailingEnds
<1>8. Lexed(d, t) \in Seq(Kinds)
  <2>1. Read(d, t)[Len(t)] \in LexStates(d) BY <1>2, ReadIs
  <2> QED BY <2>1 DEF Lexed, LexStates
<1> QED BY <1>6, <1>7, <1>8

\* What the guard lets pass is at most one statement, for every engine.
THEOREM OneStatementHolds == Spec => []OneStatement
<1>1. TextOK => OneStatement
  <2> SUFFICES ASSUME TextOK, Guard(text, FALSE) = "pass", NEW d \in Engines
               PROVE  Cardinality(Heads(Lexed(d, text))) <= 1
    BY DEF OneStatement
  <2>1. text \in Seq(Chars) /\ FALSE \in BOOLEAN BY DEF TextOK
  <2>2. ~Second(Lexed(d, text)) /\ Lexed(d, text) \in Seq(Kinds) BY <2>1, PassIsOne
  <2> QED BY <2>2, OneHead
<1> QED BY <1>1, TextIsOK, PTL

-----------------------------------------------------------------------------
(* The first word.                                                         *)

LEMMA FindIs ==
  ASSUME NEW t \in Seq(Chars), NEW i \in Nat, NEW s, Find(t, i, s) # 0
  PROVE  /\ Find(t, i, s) \in i..Len(t) /\ Has(t, Find(t, i, s), s)
         /\ \A m \in i .. Find(t, i, s) - 1 : ~Has(t, m, s)
<1> DEFINE found == {j \in i..Len(t) : Has(t, j, s)}
<1>1. found # {} /\ Find(t, i, s) = Min(found) BY DEF Find
<1>2. found \in SUBSET Nat OBVIOUS
<1>3. \A j : j \in found <=> j \in i..Len(t) /\ Has(t, j, s) OBVIOUS
<1> HIDE DEF found
<1>4. PICK x \in found : \A y \in found : x <= y BY <1>1, <1>2, LeastNat
<1>5. Min(found) \in found /\ \A y \in found : Min(found) <= y BY <1>4 DEF Min
<1>6. Find(t, i, s) \in found /\ \A y \in found : Find(t, i, s) <= y BY <1>1, <1>5
<1>7. ASSUME NEW m \in i .. Find(t, i, s) - 1, Has(t, m, s) PROVE FALSE
  <2>1. Find(t, i, s) \in i..Len(t) BY <1>3, <1>6
  <2>2. m \in i..Len(t) /\ m < Find(t, i, s) BY <2>1
  <2>3. m \in found BY <1>3, <1>7, <2>2
  <2> QED BY <1>6, <2>1, <2>2, <2>3
<1> QED BY <1>3, <1>6, <1>7

\* The comment that opens at i: where it ends, and what is next.
Comments(t, i) == Has(t, i, <<"-", "-">>) \/ Has(t, i, <<"/", "*">>)
EndOf(t, i) == IF Has(t, i, <<"-", "-">>) THEN Find(t, i, <<"LF">>) ELSE Find(t, i + 2, <<"*", "/">>)
Beyond(t, i) == IF Has(t, i, <<"-", "-">>) THEN EndOf(t, i) + 1 ELSE EndOf(t, i) + 2

\* The first word from i on, given those from later positions on.
From(h, t, i) ==
  CASE At(t, i) \in Whitespace -> h[i + 1]
    [] Comments(t, i) ->
         IF EndOf(t, i) # 0 /\ PlainComment(t, i, EndOf(t, i)) THEN h[Beyond(t, i)] ELSE <<>>
    [] OTHER -> Word(t, i)

LEMMA SpaceOpensNone ==
  ASSUME NEW t, NEW i \in Int, At(t, i) \in Whitespace
  PROVE  ~Comments(t, i)
<1>1. At(t, i) # "-" /\ At(t, i) # "/" BY DEF Whitespace
<1>2. Has(t, i, <<"-", "-">>) => At(t, i) = "-" BY Has2
<1>3. Has(t, i, <<"/", "*">>) => At(t, i) = "/" BY Has2
<1> QED BY <1>1, <1>2, <1>3 DEF Comments

LEMMA BeyondIn ==
  ASSUME NEW t \in Seq(Chars), NEW i \in 1 .. Len(t) + 1
  PROVE  /\ At(t, i) \in Whitespace => i + 1 \in i + 1 .. Len(t) + 1
         /\ EndOf(t, i) # 0 => Beyond(t, i) \in i + 1 .. Len(t) + 1
<1>1. ASSUME At(t, i) \in Whitespace PROVE i + 1 \in i + 1 .. Len(t) + 1
  <2>1. At(t, i) # "end" BY <1>1 DEF Whitespace
  <2>2. i \in 1..Len(t) BY <2>1, AtIn
  <2> QED BY <2>2
<1>2. ASSUME EndOf(t, i) # 0 PROVE Beyond(t, i) \in i + 1 .. Len(t) + 1
  <2>1. CASE Has(t, i, <<"-", "-">>)
    <3>1. EndOf(t, i) \in i..Len(t) BY <1>2, <2>1, FindIs DEF EndOf
    <3> QED BY <2>1, <3>1 DEF Beyond
  <2>2. CASE ~Has(t, i, <<"-", "-">>)
    <3> DEFINE e == EndOf(t, i)
    <3>1. i + 2 \in Nat /\ e = Find(t, i + 2, <<"*", "/">>) BY <2>2 DEF EndOf
    <3>2. e \in i + 2 .. Len(t) /\ Has(t, e, <<"*", "/">>) BY <1>2, <3>1, FindIs
    <3>3. At(t, e + 1) = "/" BY <3>2, Has2
    <3>4. e + 1 \in 1..Len(t) BY <3>2, <3>3, AtIn
    <3>5. Beyond(t, i) = e + 2 BY <2>2 DEF Beyond
    <3> HIDE DEF e
    <3> QED BY <3>2, <3>4, <3>5
  <2> QED BY <2>1, <2>2
<1> QED BY <1>1, <1>2

LEMMA FromLater ==
  ASSUME NEW t \in Seq(Chars), NEW i \in 1 .. Len(t) + 1, NEW g, NEW h,
         \A j \in i + 1 .. Len(t) + 1 : g[j] = h[j]
  PROVE  From(g, t, i) = From(h, t, i)
<1>1. CASE At(t, i) \in Whitespace
  <2>1. g[i + 1] = h[i + 1] BY <1>1, BeyondIn
  <2>2. \A x : From(x, t, i) = IF At(t, i) \in Whitespace THEN x[i + 1] ELSE From(x, t, i)
    <3>1. At(t, i) \in Whitespace => ~Comments(t, i) BY SpaceOpensNone
    <3> QED BY <3>1 DEF From
  <2> QED BY <1>1, <2>1, <2>2
<1>2. CASE At(t, i) \notin Whitespace
  <2>1. EndOf(t, i) # 0 => g[Beyond(t, i)] = h[Beyond(t, i)] BY BeyondIn
  <2> QED BY <1>2, <2>1 DEF From
<1> QED BY <1>1, <1>2

LEMMA WordAfterIs ==
  ASSUME NEW t \in Seq(Chars)
  PROVE  \A i \in 1 .. Len(t) + 1 : WordAfter(t)[i] = From(WordAfter(t), t, i)
<1> DEFINE n == Len(t) + 1
           W == {Word(t, i) : i \in 1..n} \union {<<>>}
           V == [1..n -> W]
           Set(h, k) == [h EXCEPT ![n + 1 - k] = From(h, t, n + 1 - k)]
           step == [p \in V \X (1..n) |-> Set(p[1], p[2])]
           start == [i \in 1..n |-> <<>>]
           Is(g) == g = [i \in 1..n |-> From(g, t, i)]
<1>1. n \in Nat /\ start \in V OBVIOUS
<1>2. ASSUME NEW h \in V, NEW i \in 1..n PROVE From(h, t, i) \in W
  <2>1. \A j \in i + 1 .. n : h[j] \in W OBVIOUS
  <2>2. Word(t, i) \in W /\ <<>> \in W OBVIOUS
  <2> HIDE DEF W
  <2>3. \/ At(t, i) \in Whitespace /\ From(h, t, i) = h[i + 1]
        \/ EndOf(t, i) # 0 /\ From(h, t, i) = h[Beyond(t, i)]
        \/ From(h, t, i) = <<>>
        \/ From(h, t, i) = Word(t, i)
    <3>1. At(t, i) \in Whitespace => ~Comments(t, i)
      <4>1. i \in Int BY <1>1
      <4> QED BY <4>1, SpaceOpensNone
    <3> QED BY <3>1 DEF From
  <2> QED BY <2>1, <2>2, <2>3, BeyondIn
<1>3. ASSUME NEW h \in V, NEW k \in 1..n
      PROVE  /\ Set(h, k) \in V /\ Set(h, k)[n + 1 - k] = From(h, t, n + 1 - k)
             /\ \A j \in 1..n : j # n + 1 - k => Set(h, k)[j] = h[j]
  <2>1. n + 1 - k \in 1..n BY <1>1
  <2>2. From(h, t, n + 1 - k) \in W BY <1>2, <2>1
  <2> HIDE DEF W, n
  <2> QED BY <2>1, <2>2
<1>4. Steps(V, n, step) BY <1>3 DEF Steps
<1>5. ASSUME NEW h \in V, NEW k \in 1..n PROVE step[<<h, k>>] = Set(h, k) OBVIOUS
<1>6. WordAfter(t) = CHOOSE g : Is(g)
  BY DEF WordAfter, From, EndOf, Beyond, Comments
<1>7. \A i : i \in 1..n <=> i \in 1 .. Len(t) + 1 OBVIOUS
<1> HIDE DEF n, V, W, Set, step, start
<1>8. PICK f : Fold(V, start, n, step, f) BY <1>1, <1>4, FoldExists
<1>9. \A k \in 0..n : f[k] \in V BY <1>8 DEF Fold
<1>10. ASSUME NEW k \in 1..n
       PROVE  /\ f[k][n + 1 - k] = From(f[k - 1], t, n + 1 - k)
              /\ \A j \in 1..n : j # n + 1 - k => f[k][j] = f[k - 1][j]
  <2>1. k - 1 \in 0..n /\ f[k] = step[<<f[k - 1], k>>] BY <1>1, <1>8 DEF Fold
  <2>2. f[k] = Set(f[k - 1], k) BY <1>5, <1>9, <2>1
  <2> QED BY <1>3, <1>9, <2>1, <2>2
<1>11. ASSUME NEW k \in 0..n PROVE \A j \in n + 1 - k .. n : f[n][j] = f[k][j]
  <2> DEFINE S == {m \in k..n : \A j \in n + 1 - k .. n : f[m][j] = f[k][j]}
  <2>1. k \in S BY <1>1
  <2>2. ASSUME NEW m \in k .. n - 1, m \in S PROVE m + 1 \in S
    <3> DEFINE l == m + 1
    <3>1. l \in 1..n /\ l - 1 = m /\ l \in k..n BY <1>1
    <3>2. \A j \in n + 1 - k .. n : j \in 1..n /\ j # n + 1 - l BY <1>1
    <3> HIDE DEF l
    <3>3. \A j \in n + 1 - k .. n : f[l][j] = f[m][j] BY <1>10, <3>1, <3>2
    <3>4. \A j \in n + 1 - k .. n : f[l][j] = f[k][j] BY <2>2, <3>3
    <3> QED BY <3>1, <3>4 DEF l
  <2>3. k \in Nat /\ n \in k..n BY <1>1
  <2> HIDE DEF S
  <2>4. k..n \subseteq S BY <1>1, <2>1, <2>2, <2>3, Upwards
  <2>5. n \in S BY <2>3, <2>4
  <2> QED BY <2>5 DEF S
<1> DEFINE g == f[n]
<1>12. ASSUME NEW i \in 1..n PROVE g[i] = From(g, t, i)
  <2> DEFINE k == n + 1 - i
  <2>1. k \in 1..n /\ k \in 0..n /\ k - 1 \in 0..n /\ n + 1 - k = i /\ n + 1 - (k - 1) = i + 1 BY <1>1
  <2> HIDE DEF k
  <2>2. i \in n + 1 - k .. n BY <2>1
  <2>3. f[n][i] = f[k][i] BY <1>11, <2>1, <2>2
  <2>4. f[k][i] = From(f[k - 1], t, i) BY <1>10, <2>1
  <2>5. \A j \in i + 1 .. n : f[n][j] = f[k - 1][j] BY <1>11, <2>1
  <2>6. From(f[n], t, i) = From(f[k - 1], t, i) BY <2>5, FromLater DEF n
  <2> QED BY <2>3, <2>4, <2>6
<1>13. g \in V BY <1>1, <1>9
<1>14. Is(g)
  <2>1. g = [i \in 1..n |-> g[i]]
    <3> HIDE DEF g
    <3> QED BY <1>13 DEF V
  <2> HIDE DEF g
  <2> QED BY <1>12, <2>1
<1>15. Is(WordAfter(t)) BY <1>6, <1>14
<1>16. \A i \in 1..n : WordAfter(t)[i] = From(WordAfter(t), t, i)
  <2> DEFINE w == WordAfter(t)
  <2>1. w = [i \in 1..n |-> From(w, t, i)] BY <1>15
  <2> HIDE DEF w
  <2>2. \A i \in 1..n : w[i] = From(w, t, i) BY <2>1
  <2> QED BY <2>2 DEF w
<1> QED BY <1>7, <1>16

\* A word of one letter.
LEMMA WordIs ==
  ASSUME NEW t \in Seq(Chars), NEW i \in 1..Len(t), NEW w, Word(t, i) = <<w>>
  PROVE  t[i] = w
<1> DEFINE X == {i - 1} \union {j \in i..Len(t) : \A k \in i..j : t[k] \in Letters}
           T == {k \in 0..Len(t) : Len(t) - k \in X}
<1>1. X \subseteq i - 1 .. Len(t) /\ i - 1 \in X OBVIOUS
<1>2. Word(t, i) = SubSeq(t, i, Max(X)) BY DEF Word
<1>3. \A k : k \in T <=> k \in 0..Len(t) /\ Len(t) - k \in X OBVIOUS
<1>4. T \in SUBSET Nat OBVIOUS
<1> HIDE DEF X, T
<1>5. Len(t) - (i - 1) \in 0..Len(t) /\ Len(t) - (Len(t) - (i - 1)) = i - 1 OBVIOUS
<1>6. T # {} BY <1>1, <1>3, <1>5
<1>7. PICK k \in T : \A l \in T : k <= l BY <1>4, <1>6, LeastNat
<1>8. Len(t) - k \in X /\ k \in 0..Len(t) BY <1>3, <1>7
<1>9. ASSUME NEW y \in X PROVE Len(t) - k >= y
  <2>1. y \in i - 1 .. Len(t) BY <1>1
  <2>2. Len(t) - y \in 0..Len(t) /\ Len(t) - (Len(t) - y) = y BY <2>1
  <2>3. Len(t) - y \in T BY <1>3, <2>2
  <2>4. k <= Len(t) - y BY <1>7, <2>3
  <2> QED BY <1>8, <2>1, <2>4
<1>10. Max(X) \in X
  <2>1. \E x \in X : \A y \in X : x >= y BY <1>8, <1>9
  <2> QED BY <2>1 DEF Max
<1> DEFINE last == Max(X)
           q == SubSeq(t, i, last)
<1>11. last \in i - 1 .. Len(t) BY <1>1, <1>10
<1> HIDE DEF last
<1>12. q = <<w>> BY <1>2 DEF last
<1>13. Len(q) = 1 /\ q[1] = w BY <1>12
<1>14. last # i - 1
  <2>1. ASSUME last = i - 1 PROVE FALSE
    <3>1. Len(q) = 0 BY <2>1
    <3> HIDE DEF q
    <3> QED BY <1>13, <3>1
  <2> QED BY <2>1
<1>15. q[1] = t[i]
  <2>1. i <= last /\ last \in 1..Len(t) BY <1>11, <1>14
  <2>2. \A j \in 1 .. last - i + 1 : q[j] = t[i + j - 1] BY <2>1
  <2>3. 1 \in 1 .. last - i + 1 /\ i + 1 - 1 = i BY <2>1
  <2> QED BY <2>2, <2>3
<1> QED BY <1>13, <1>15

-----------------------------------------------------------------------------
(* What passes in read-only mode begins with no write.                     *)

\* From position k of the copy on, the first word is that of a read.
Starts(t, k) == /\ k \in 1 .. Len(Normalized(t)) + 1
                /\ WordAfter(Normalized(t))[k] = <<"SELECT">>

\* From p on, the line comment goes to z, or the block comment.
LineTo(n, p, z) == /\ z \in p..Len(n) /\ n[z] = "LF"
                   /\ \A m \in p..z : n[m] # "CR"
                   /\ \A m \in p .. z - 1 : n[m] # "LF"
BlockTo(n, p, z) == /\ z \in p..Len(n) /\ Has(n, z, <<"*", "/">>)
                    /\ \A m \in p .. z - 1 : ~Has(n, m, <<"*", "/">>)
                    /\ \A m \in p .. z - 2 : ~Has(n, m, <<"/", "*">>)

\* Up to i there was no token; the lexer is before the first word, behind the
\* end of a comment, in a line comment, or in a block comment.
Fresh(t, i, e) == e.in = "code" /\ e.skip = 0 /\ Starts(t, Count(t, i) + 1)
Ending(t, i, e) == /\ e.in = "code" /\ e.skip = 1 /\ i + 1 \in 1..Len(t) /\ t[i + 1] = "/"
                     /\ Starts(t, Count(t, i) + 2)
OnLine(t, i, e) ==
  /\ e.in = "line"
  /\ \/ e.skip = 0
     \/ e.skip = 1 /\ i + 1 \in 1..Len(t) /\ t[i + 1] = "-"
  /\ \E z \in Nat : LineTo(Normalized(t), Count(t, i) + 1, z) /\ Starts(t, z + 1)
OnBlock(t, i, e) ==
  /\ e.in = "block" /\ e.depth = 1
  /\ \/ /\ e.skip = 0
        /\ \E o \in 1 .. i - 1 : Has(t, o, <<"/", "*">>)
        /\ \E z \in Nat : BlockTo(Normalized(t), Count(t, i) + 1, z) /\ Starts(t, z + 2)
     \/ /\ e.skip = 1 /\ i + 1 \in 1..Len(t) /\ t[i + 1] = "*"
        /\ i \in 1..Len(t) /\ Has(t, i, <<"/", "*">>)
        /\ \E z \in Nat : BlockTo(Normalized(t), Count(t, i) + 2, z) /\ Starts(t, z + 2)

Lead(t, i, e) == /\ e.tokens = <<>> /\ ~e.opened
                 /\ Fresh(t, i, e) \/ Ending(t, i, e) \/ OnLine(t, i, e) \/ OnBlock(t, i, e)

\* The first token there is is no write.
NoWrite(q) == q # <<>> /\ q[1] # "write"

\* White space does not change what the first word is.
LEMMA StartsLater ==
  ASSUME NEW t \in Seq(Chars), NEW k \in Int, Starts(t, k), At(Normalized(t), k) \in Whitespace
  PROVE  Starts(t, k + 1)
<1> DEFINE n == Normalized(t)
<1>1. n \in Seq(Chars) BY NormalizedIn
<1>2. k \in 1 .. Len(n) + 1 /\ WordAfter(n)[k] = <<"SELECT">> BY DEF Starts
<1>3. At(n, k) \in Whitespace OBVIOUS
<1> HIDE DEF n
<1>4. k + 1 \in k + 1 .. Len(n) + 1 BY <1>1, <1>2, <1>3, BeyondIn
<1>5. WordAfter(n)[k] = From(WordAfter(n), n, k) BY <1>1, <1>2, WordAfterIs
<1>6. ~Comments(n, k) BY <1>3, SpaceOpensNone
<1>7. WordAfter(n)[k] = WordAfter(n)[k + 1] BY <1>3, <1>5, <1>6 DEF From
<1> QED BY <1>2, <1>4, <1>7 DEF Starts, n

LEMMA StartsEarlier ==
  ASSUME NEW t \in Seq(Chars), NEW k \in 1..Len(Normalized(t)), Starts(t, k + 1),
         Normalized(t)[k] \in Whitespace
  PROVE  Starts(t, k)
<1> DEFINE n == Normalized(t)
<1>1. n \in Seq(Chars) BY NormalizedIn
<1>2. k \in 1..Len(n) /\ WordAfter(n)[k + 1] = <<"SELECT">> /\ n[k] \in Whitespace BY DEF Starts
<1> HIDE DEF n
<1>3. At(n, k) \in Whitespace BY <1>1, <1>2, AtIn
<1>4. k \in 1 .. Len(n) + 1 BY <1>1, <1>2
<1>5. WordAfter(n)[k] = From(WordAfter(n), n, k) BY <1>1, <1>4, WordAfterIs
<1>6. ~Comments(n, k) BY <1>3, SpaceOpensNone
<1>7. WordAfter(n)[k] = WordAfter(n)[k + 1] BY <1>3, <1>5, <1>6 DEF From
<1> QED BY <1>2, <1>4, <1>7 DEF Starts, n

LEMMA LeadDropped ==
  ASSUME NEW d \in Engines, NEW t \in Seq(Chars), NEW i \in 1..Len(t), ~Kept(t, i),
         NEW e \in LexStates(d), Lead(t, i - 1, e), NEW f, f = LexAt(d, t, e, i)
  PROVE  Lead(t, i, f)
<1> DEFINE n == Normalized(t)
           p == Count(t, i) + 1
<1>1. /\ t[i] = "CR" /\ i + 1 \in 1..Len(t) /\ t[i + 1] = "LF" /\ Kept(t, i + 1)
      /\ Count(t, i - 1) + 1 = p
  BY DroppedAt
<1>2. p \in 1..Len(n) /\ n[p] = "LF" /\ n \in Seq(Chars)
  <2>1. i + 1 - 1 = i OBVIOUS
  <2>2. Count(t, i + 1) = Count(t, i + 1 - 1) + 1 BY <1>1, KeptAt
  <2>3. Count(t, i + 1) \in 1..Len(n) /\ n[Count(t, i + 1)] = t[i + 1] BY <1>1, KeptAt
  <2> QED BY <1>1, <2>1, <2>2, <2>3, NormalizedIn
<1>3. ~Has(t, i, <<"*", "/">>) /\ ~Has(t, i, <<"/", "*">>) BY <1>1, Has2, AtIn
<1>4. e.tokens = <<>> /\ ~e.opened BY DEF Lead
<1>5. i - 1 + 1 = i OBVIOUS
<1>6. e.skip # 1
  <2>1. e.skip = 1 => t[i] \in {"-", "*", "/"}
    BY <1>4, <1>5 DEF Lead, Fresh, Ending, OnLine, OnBlock
  <2> QED BY <1>1, <2>1
<1>7. CASE Fresh(t, i - 1, e)
  <2>1. e.in = "code" /\ e.skip = 0 /\ Starts(t, p) BY <1>1, <1>7 DEF Fresh
  <2>2. f = InCode(d, t, e, i) BY <2>1, LexAtIs
  <2>3. f = Into(e, "code") BY <1>1, <2>2, InCodeIs DEF Blank
  <2>4. f.tokens = e.tokens /\ f.opened = e.opened /\ f.in = "code" /\ f.skip = e.skip
    BY <2>3, IntoIs
  <2> QED BY <1>4, <2>1, <2>4 DEF Lead, Fresh
<1>8. CASE OnLine(t, i - 1, e)
  <2>1. e.in = "line" /\ e.skip = 0 BY <1>6, <1>8 DEF OnLine
  <2>2. PICK z \in Nat : LineTo(n, p, z) /\ Starts(t, z + 1) BY <1>1, <1>8 DEF OnLine
  <2>3. /\ f.in = IF d = "postgres" THEN "code" ELSE "line"
        /\ f.skip = 0 /\ f.opened = e.opened /\ f.tokens = e.tokens
    BY <1>1, <2>1, LexAtIs
  <2>4. CASE d = "postgres"
    <3>1. z = p BY <1>2, <2>2 DEF LineTo
    <3>2. Starts(t, p) BY <1>2, <2>2, <3>1, StartsEarlier DEF Whitespace
    <3> QED BY <1>4, <2>3, <2>4, <3>2 DEF Lead, Fresh
  <2>5. CASE d # "postgres" BY <1>4, <2>2, <2>3, <2>5 DEF Lead, OnLine
  <2> QED BY <2>4, <2>5
<1>9. CASE OnBlock(t, i - 1, e)
  <2>1. e.in = "block" /\ e.skip = 0 /\ e.depth = 1 BY <1>6, <1>9 DEF OnBlock
  <2>2. PICK z \in Nat : BlockTo(n, p, z) /\ Starts(t, z + 2) BY <1>1, <1>6, <1>9 DEF OnBlock
  <2>3. PICK o \in 1 .. i - 1 - 1 : Has(t, o, <<"/", "*">>) BY <1>6, <1>9 DEF OnBlock
  <2>4. o \in 1 .. i - 1 OBVIOUS
  <2>5. f = e BY <1>3, <2>1, LexAtIs
  <2> QED BY <1>4, <2>1, <2>2, <2>3, <2>4, <2>5 DEF Lead, OnBlock
<1>10. CASE Ending(t, i - 1, e) BY <1>6, <1>10 DEF Ending
<1> QED BY <1>7, <1>8, <1>9, <1>10 DEF Lead

LEMMA NoWriteStays ==
  ASSUME NEW q \in Seq(Kinds), NEW kind \in Kinds, NoWrite(q)
  PROVE  NoWrite(Append(q, kind))
<1>1. Len(q) > 0 BY DEF NoWrite
<1>2. Append(q, kind)[1] = q[1] BY <1>1
<1>3. Append(q, kind) # <<>> BY AppendKind
<1> QED BY <1>2, <1>3 DEF NoWrite

LEMMA NoWriteFirst ==
  ASSUME NEW kind \in Kinds, kind # "write"
  PROVE  NoWrite(Append(<<>>, kind))
<1>1. Append(<<>>, kind)[1] = kind OBVIOUS
<1>2. <<>> \in Seq(Kinds) OBVIOUS
<1>3. Append(<<>>, kind) # <<>> BY <1>2, AppendKind
<1> QED BY <1>1, <1>3 DEF NoWrite

\* Before the first word, at a character that is kept.
LEMMA FreshKept ==
  ASSUME NEW d \in Engines, NEW t \in Seq(Chars), NEW i \in 1..Len(t), Kept(t, i),
         NEW e \in LexStates(d), e.tokens = <<>>, ~e.opened, Fresh(t, i - 1, e),
         NEW f, f = LexAt(d, t, e, i)
  PROVE  Lead(t, i, f) \/ NoWrite(f.tokens)
<1> DEFINE n == Normalized(t)
           p == Count(t, i)
           ch == t[i]
<1>1. n \in Seq(Chars) /\ p \in 1..Len(n) /\ n[p] = ch /\ Count(t, i - 1) + 1 = p
  BY KeptAt, NormalizedIn
<1>2. /\ \A a, b : b \notin {"CR", "LF", "end"} => (Has(n, p, <<a, b>>) <=> Has(t, i, <<a, b>>))
      /\ Executable(t, i) => Executable(n, p)
  BY Aligned
<1>3. /\ Has(n, p, <<"/", "*">>) <=> Has(t, i, <<"/", "*">>)
      /\ Has(n, p, <<"-", "-">>) <=> Has(t, i, <<"-", "-">>)
  BY <1>2
<1>4. e.in = "code" /\ e.skip = 0 /\ Starts(t, p) BY <1>1 DEF Fresh
<1>5. f = InCode(d, t, e, i) BY <1>4, LexAtIs
<1>6. WordAfter(n)[p] = <<"SELECT">> /\ WordAfter(n)[p] = From(WordAfter(n), n, p)
  <2>1. p \in 1 .. Len(n) + 1 BY <1>1
  <2> QED BY <1>1, <1>4, <2>1, WordAfterIs DEF Starts
<1>7. At(n, p) = ch /\ At(t, i) = ch BY <1>1, AtIn
<1>8. "other" \in Kinds /\ "other" # "write" BY DEF Kinds
<1>9. \A a, b : Has(t, i, <<a, b>>) /\ b # "end" => ch = a /\ i + 1 \in 1..Len(t) /\ t[i + 1] = b
  <2>1. ASSUME NEW a, NEW b, Has(t, i, <<a, b>>), b # "end"
        PROVE  ch = a /\ i + 1 \in 1..Len(t) /\ t[i + 1] = b
    <3>1. At(t, i) = a /\ At(t, i + 1) = b BY <2>1, Has2
    <3>2. i + 1 \in 1..Len(t) BY <2>1, <3>1, AtIn
    <3> QED BY <3>1, <3>2, AtIn
  <2> QED BY <2>1
<1>10. p + 1 + 1 = p + 2 /\ p \in Nat BY <1>1
<1>11. ASSUME f = Begun(e, "other", "code") PROVE NoWrite(f.tokens)
  <2>1. f.tokens = Append(<<>>, "other") BY <1>11, BegunIs
  <2> QED BY <1>8, <2>1, NoWriteFirst
<1> HIDE DEF n, p
<1>12. CASE ch \in Whitespace
  <2>1. Starts(t, p + 1) BY <1>4, <1>7, <1>10, <1>12, StartsLater DEF n
  <2>2. f = Into(e, "code") BY <1>5, <1>12, InCodeIs DEF Blank, Whitespace
  <2>3. f.tokens = e.tokens /\ f.opened = e.opened /\ f.in = "code" /\ f.skip = e.skip
    BY <2>2, IntoIs
  <2> QED BY <1>4, <2>1, <2>3 DEF Lead, Fresh, p
<1>13. ASSUME Comments(n, p)
       PROVE  EndOf(n, p) # 0 /\ PlainComment(n, p, EndOf(n, p)) /\ Starts(t, Beyond(n, p))
  <2>1. At(n, p) \notin Whitespace BY <1>10, <1>13, SpaceOpensNone
  <2>2. From(WordAfter(n), n, p) =
          IF EndOf(n, p) # 0 /\ PlainComment(n, p, EndOf(n, p)) THEN WordAfter(n)[Beyond(n, p)] ELSE <<>>
    BY <1>13, <2>1 DEF From
  <2>3. <<"SELECT">> # <<>> OBVIOUS
  <2>4. /\ EndOf(n, p) # 0 /\ PlainComment(n, p, EndOf(n, p))
        /\ WordAfter(n)[Beyond(n, p)] = <<"SELECT">>
    BY <1>6, <2>2, <2>3
  <2>5. Beyond(n, p) \in 1 .. Len(n) + 1
    <3>1. p \in 1 .. Len(n) + 1 /\ Len(n) \in Nat BY <1>1
    <3>2. Beyond(n, p) \in p + 1 .. Len(n) + 1 BY <1>1, <2>4, <3>1, BeyondIn
    <3> QED BY <3>1, <3>2
  <2> QED BY <2>4, <2>5 DEF Starts, n
<1>14. CASE Has(t, i, <<"-", "-">>)
  <2> DEFINE z == EndOf(n, p)
  <2>1. ch = "-" /\ i + 1 \in 1..Len(t) /\ t[i + 1] = "-" BY <1>9, <1>14
  <2>2. Has(n, p, <<"-", "-">>) BY <1>3, <1>14
  <2>3. z # 0 /\ PlainComment(n, p, z) /\ Starts(t, z + 1) BY <1>13, <2>2 DEF Beyond, Comments
  <2>4. z = Find(n, p, <<"LF">>) BY <2>2 DEF EndOf
  <2>5. z \in p..Len(n) /\ Has(n, z, <<"LF">>) /\ \A m \in p .. z - 1 : ~Has(n, m, <<"LF">>)
    BY <1>1, <1>10, <2>3, <2>4, FindIs
  <2> HIDE DEF z
  <2>6. z \in 1..Len(n) /\ At(n, z) = "LF" BY <1>1, <2>5, Has1
  <2>7. n[z] = "LF" BY <1>1, <2>6, AtIn
  <2>8. z # p BY <1>1, <2>1, <2>7
  <2>9. ASSUME NEW m \in p .. z - 1 PROVE n[m] # "LF"
    <3>1. m \in 1..Len(n) BY <1>1, <2>5
    <3>2. At(n, m) # "LF" BY <2>5, <2>9, <3>1, Has1
    <3> QED BY <1>1, <3>1, <3>2, AtIn
  <2>10. \A m \in p..z : n[m] # "CR" BY <1>1, <2>1, <2>3 DEF PlainComment
  <2>11. LineTo(n, p + 1, z)
    <3>1. z \in p + 1 .. Len(n) BY <1>1, <2>5, <2>8
    <3>2. \A m : m \in p + 1 .. z => m \in p..z BY <1>1
    <3>3. \A m : m \in p + 1 .. z - 1 => m \in p .. z - 1 BY <1>1
    <3> QED BY <2>7, <2>9, <2>10, <3>1, <3>2, <3>3 DEF LineTo
  <2>12. CASE Dashes(d, t, i)
    <3>1. f = Skipping(e, "line", 1) BY <1>5, <2>1, <2>12, InCodeIs
    <3>2. f.tokens = e.tokens /\ f.opened = e.opened /\ f.in = "line" /\ f.skip = 1
      BY <3>1, SkippingIs
    <3>3. z \in Nat BY <2>6
    <3>4. OnLine(t, i, f) BY <2>1, <2>3, <2>11, <3>2, <3>3 DEF OnLine, p, n
    <3> QED BY <3>2, <3>4 DEF Lead
  <2>13. CASE ~Dashes(d, t, i)
    <3>1. f = Begun(e, "other", "code") BY <1>5, <2>1, <2>13, InCodeIs
    <3> QED BY <1>11, <3>1
  <2> QED BY <2>12, <2>13
<1>15. CASE Has(t, i, <<"/", "*">>)
  <2> DEFINE z == EndOf(n, p)
  <2>1. ch = "/" /\ i + 1 \in 1..Len(t) /\ t[i + 1] = "*" BY <1>9, <1>15
  <2>2. Has(n, p, <<"/", "*">>) /\ ~Has(n, p, <<"-", "-">>)
    <3>1. ch # "-" BY <2>1
    <3> QED BY <1>3, <1>9, <1>15, <3>1
  <2>3. z # 0 /\ PlainComment(n, p, z) /\ Starts(t, z + 2) BY <1>13, <2>2 DEF Beyond, Comments
  <2>4. z = Find(n, p + 2, <<"*", "/">>) BY <2>2 DEF EndOf
  <2>5. /\ z \in p + 2 .. Len(n) /\ Has(n, z, <<"*", "/">>)
        /\ \A m \in p + 2 .. z - 1 : ~Has(n, m, <<"*", "/">>)
    <3>1. p + 2 \in Nat BY <1>1
    <3> QED BY <1>1, <2>3, <2>4, <3>1, FindIs
  <2> HIDE DEF z
  <2>6. ~Executable(n, p) /\ \A m \in p + 2 .. z - 2 : ~Has(n, m, <<"/", "*">>)
    BY <1>1, <2>1, <2>3 DEF PlainComment
  <2>7. BlockTo(n, p + 2, z) BY <2>5, <2>6 DEF BlockTo
  <2>8. ~Executed(d, t, i) BY <1>2, <2>6 DEF Executed
  <2>9. f = Commented(e) BY <1>5, <1>15, <2>1, <2>8, InCodeIs
  <2>10. /\ f.tokens = e.tokens /\ f.opened = e.opened
         /\ f.in = "block" /\ f.skip = 1 /\ f.depth = 1
    BY <2>9, CommentedIs
  <2>11. z \in Nat BY <1>1, <2>5
  <2>12. OnBlock(t, i, f) BY <1>15, <2>1, <2>3, <2>7, <2>10, <2>11 DEF OnBlock, p, n
  <2> QED BY <2>10, <2>12 DEF Lead
<1>16. CASE ch \notin Whitespace /\ ~Has(t, i, <<"-", "-">>) /\ ~Has(t, i, <<"/", "*">>)
  <2>1. ~Comments(n, p) BY <1>3, <1>16 DEF Comments
  <2>2. From(WordAfter(n), n, p) = Word(n, p) BY <1>7, <1>16, <2>1 DEF From
  <2>3. Word(n, p) = <<"SELECT">> BY <1>6, <2>2
  <2>4. n[p] = "SELECT" BY <1>1, <2>3, WordIs
  <2>5. ch = "SELECT" BY <1>1, <2>4
  <2>6. Word(t, i) # <<"DELETE">>
    <3>1. ASSUME Word(t, i) = <<"DELETE">> PROVE t[i] = "DELETE" BY <3>1, WordIs
    <3> QED BY <2>5, <3>1
  <2>7. f = Begun(e, Word1(t, i), "word") BY <1>4, <1>5, <2>5, InCodeIs DEF Letters
  <2>8. Word1(t, i) = "other" BY <2>6 DEF Word1
  <2>9. f.tokens = Append(<<>>, "other") BY <2>7, <2>8, BegunIs
  <2> QED BY <1>8, <2>9, NoWriteFirst
<1> QED BY <1>12, <1>14, <1>15, <1>16

\* Within a comment or at its end, at a character that is kept.
LEMMA CommentKept ==
  ASSUME NEW d \in Engines, NEW t \in Seq(Chars), d = "postgres" => ~HiddenNesting(t),
         NEW i \in 1..Len(t), Kept(t, i),
         NEW e \in LexStates(d), Lead(t, i - 1, e), ~Fresh(t, i - 1, e),
         NEW f, f = LexAt(d, t, e, i)
  PROVE  Lead(t, i, f)
<1> DEFINE n == Normalized(t)
           p == Count(t, i)
           ch == t[i]
<1>1. /\ n \in Seq(Chars) /\ p \in 1..Len(n) /\ n[p] = ch
      /\ Count(t, i - 1) + 1 = p /\ Count(t, i - 1) + 2 = p + 1 /\ i - 1 + 1 = i
  <2>1. n \in Seq(Chars) /\ p \in 1..Len(n) /\ n[p] = ch /\ Count(t, i) = Count(t, i - 1) + 1
    BY KeptAt, NormalizedIn
  <2>2. i - 1 \in 0..Len(t) OBVIOUS
  <2>3. Count(t, i - 1) \in 0..Len(n) BY <2>2, NormalizedIn
  <2> QED BY <2>1, <2>3
<1>2. \A a, b : b \notin {"CR", "LF", "end"} => (Has(n, p, <<a, b>>) <=> Has(t, i, <<a, b>>))
  BY Aligned
<1>3. /\ Has(n, p, <<"*", "/">>) <=> Has(t, i, <<"*", "/">>)
      /\ Has(n, p, <<"/", "*">>) <=> Has(t, i, <<"/", "*">>)
  BY <1>2
<1>4. e.tokens = <<>> /\ ~e.opened BY DEF Lead
<1>5. At(n, p) = ch BY <1>1, AtIn
<1>6. ASSUME NEW z \in Nat, BlockTo(n, p, z), z # p PROVE BlockTo(n, p + 1, z)
  <2> HIDE DEF n, p
  <2>1. z \in p + 1 .. Len(n) BY <1>1, <1>6 DEF BlockTo
  <2>2. \A m : m \in p + 1 .. z - 1 => m \in p .. z - 1 BY <1>1
  <2>3. \A m : m \in p + 1 .. z - 2 => m \in p .. z - 2 BY <1>1
  <2> QED BY <1>6, <2>1, <2>2, <2>3 DEF BlockTo
<1>7. ASSUME NEW z \in Nat, LineTo(n, p, z), z # p PROVE LineTo(n, p + 1, z)
  <2> HIDE DEF n, p
  <2>1. z \in p + 1 .. Len(n) BY <1>1, <1>7 DEF LineTo
  <2>2. \A m : m \in p + 1 .. z - 1 => m \in p .. z - 1 BY <1>1
  <2>3. \A m : m \in p + 1 .. z => m \in p .. z BY <1>1
  <2> QED BY <1>7, <2>1, <2>2, <2>3 DEF LineTo
<1>8. CASE Ending(t, i - 1, e)
  <2>1. e.in = "code" /\ e.skip = 1 /\ Starts(t, p + 1) BY <1>1, <1>8 DEF Ending
  <2>2. f.in = e.in /\ f.skip = 0 /\ f.opened = e.opened /\ f.tokens = e.tokens BY <2>1, LexAtIs
  <2> QED BY <1>4, <2>1, <2>2 DEF Lead, Fresh
<1>9. CASE OnLine(t, i - 1, e) /\ e.skip = 1
  <2>1. e.in = "line" /\ ch = "-" BY <1>1, <1>9 DEF OnLine
  <2>2. PICK z \in Nat : LineTo(n, p, z) /\ Starts(t, z + 1) BY <1>1, <1>9 DEF OnLine
  <2>3. z # p BY <1>1, <2>1, <2>2 DEF LineTo
  <2>4. f.in = e.in /\ f.skip = 0 /\ f.opened = e.opened /\ f.tokens = e.tokens BY <1>9, LexAtIs
  <2>5. LineTo(n, p + 1, z) BY <1>7, <2>2, <2>3
  <2> QED BY <1>4, <2>1, <2>2, <2>4, <2>5 DEF Lead, OnLine
<1>10. CASE OnLine(t, i - 1, e) /\ e.skip = 0
  <2>1. e.in = "line" BY <1>10 DEF OnLine
  <2>2. PICK z \in Nat : LineTo(n, p, z) /\ Starts(t, z + 1) BY <1>1, <1>10 DEF OnLine
  <2>3. /\ f.in = IF ch = "LF" \/ (d = "postgres" /\ ch = "CR") THEN "code" ELSE "line"
        /\ f.skip = 0 /\ f.opened = e.opened /\ f.tokens = e.tokens
    BY <1>10, <2>1, LexAtIs
  <2>4. z \in p..Len(n) /\ n[z] = "LF" /\ n[p] # "CR" /\ (z # p => n[p] # "LF")
    <3>1. z \in p..Len(n) BY <2>2 DEF LineTo
    <3>2. p \in p..z /\ (z # p => p \in p .. z - 1) BY <1>1, <3>1
    <3> QED BY <2>2, <3>1, <3>2 DEF LineTo
  <2>5. CASE z = p
    <3>1. f.in = "code" BY <1>1, <2>3, <2>4, <2>5
    <3>2. Starts(t, p + 1) BY <2>2, <2>5
    <3> QED BY <1>4, <2>3, <3>1, <3>2 DEF Lead, Fresh
  <2>6. CASE z # p
    <3>1. f.in = "line" BY <1>1, <2>3, <2>4, <2>6
    <3>2. LineTo(n, p + 1, z) BY <1>7, <2>2, <2>6
    <3> QED BY <1>4, <2>2, <2>3, <3>1, <3>2 DEF Lead, OnLine
  <2> QED BY <2>5, <2>6
<1>11. CASE OnBlock(t, i - 1, e) /\ e.skip = 1
  <2>1. e.in = "block" /\ e.depth = 1 /\ i - 1 \in 1..Len(t) /\ Has(t, i - 1, <<"/", "*">>)
    BY <1>11 DEF OnBlock
  <2>2. PICK z \in Nat : BlockTo(n, p + 1, z) /\ Starts(t, z + 2) BY <1>1, <1>11 DEF OnBlock
  <2>3. /\ f.in = e.in /\ f.skip = 0 /\ f.depth = e.depth
        /\ f.opened = e.opened /\ f.tokens = e.tokens
    BY <1>11, LexAtIs
  <2>4. i - 1 \in 1 .. i - 1 BY <2>1
  <2> QED BY <1>4, <2>1, <2>2, <2>3, <2>4 DEF Lead, OnBlock
<1>12. CASE OnBlock(t, i - 1, e) /\ e.skip = 0
  <2>1. e.in = "block" /\ e.depth = 1 BY <1>12 DEF OnBlock
  <2>2. PICK z \in Nat : BlockTo(n, p, z) /\ Starts(t, z + 2) BY <1>1, <1>12 DEF OnBlock
  <2>3. PICK o \in 1 .. i - 1 - 1 : Has(t, o, <<"/", "*">>) BY <1>12 DEF OnBlock
  <2>4. o \in 1 .. i - 1 /\ i \in o + 2 .. Len(t) /\ o \in 1..Len(t) OBVIOUS
  <2>5. z \in p..Len(n) /\ Has(n, z, <<"*", "/">>) BY <2>2 DEF BlockTo
  <2>6. CASE z = p
    <3>1. Has(t, i, <<"*", "/">>) BY <1>3, <2>5, <2>6
    <3>2. f.in = "code" /\ f.skip = 1 /\ f.opened = e.opened /\ f.tokens = e.tokens
      BY <1>12, <2>1, <3>1, LexAtIs
    <3>3. At(t, i + 1) = "/" BY <3>1, Has2
    <3>4. i + 1 \in 1..Len(t) /\ t[i + 1] = "/"
      <4>1. i + 1 \in 1..Len(t) BY <3>3, AtIn
      <4> QED BY <3>3, <4>1, AtIn
    <3>5. Starts(t, p + 2) BY <2>2, <2>6
    <3> QED BY <1>4, <3>2, <3>4, <3>5 DEF Lead, Ending
  <2>7. CASE z # p
    <3>1. p \in p .. z - 1 /\ (z # p + 1 => p \in p .. z - 2) BY <1>1, <2>5, <2>7
    <3>2. ~Has(n, p, <<"*", "/">>) /\ (Has(n, p, <<"/", "*">>) => z = p + 1)
      BY <2>2, <3>1 DEF BlockTo
    <3>3. ~(Has(t, i, <<"/", "*">>) /\ d = "postgres")
      <4> SUFFICES ASSUME Has(t, i, <<"/", "*">>), d = "postgres" PROVE FALSE OBVIOUS
      <4>1. z = p + 1 BY <1>3, <3>2
      <4>2. At(t, i) = "/" /\ At(t, i + 1) = "*" BY Has2
      <4>3. i + 1 \in 1..Len(t) BY <4>2, AtIn
      <4> DEFINE j == i + 1
      <4>4. j \in 1..Len(t) /\ j - 1 = i /\ At(t, j) = "*" BY <4>2, <4>3
      <4> HIDE DEF j
      <4>5. Kept(t, j)
        <5>1. ~Kept(t, j) => t[j] = "CR" BY <4>4, DroppedAt
        <5>2. At(t, j) = t[j] BY <4>4, AtIn
        <5> QED BY <4>4, <5>1, <5>2
      <4>6. Count(t, j) = p + 1 BY <4>4, <4>5, KeptAt
      <4>7. Has(Normalized(t), Count(t, j), <<"*", "/">>) <=> Has(t, j, <<"*", "/">>)
        BY <4>4, <4>5, Aligned
      <4>8. Has(t, j, <<"*", "/">>) BY <2>5, <4>1, <4>6, <4>7
      <4>9. At(t, j + 1) = "/" BY <4>4, <4>8, Has2
      <4>10. At(t, i + 2) = "/"
        <5>1. j + 1 = i + 2 BY DEF j
        <5> QED BY <4>9, <5>1
      <4>11. Has(t, i, <<"/", "*", "/">>) BY <4>2, <4>10, Has3
      <4>12. DOMAIN t = 1..Len(t) OBVIOUS
      <4>13. HiddenNesting(t) BY <2>3, <2>4, <4>11, <4>12 DEF HiddenNesting
      <4> QED BY <4>13
    <3>4. f = e BY <1>3, <1>12, <2>1, <3>2, <3>3, LexAtIs
    <3>5. BlockTo(n, p + 1, z) BY <1>6, <2>2, <2>7
    <3> QED BY <1>4, <1>12, <2>1, <2>2, <2>3, <2>4, <3>4, <3>5 DEF Lead, OnBlock
  <2> QED BY <2>6, <2>7
<1>13. OnLine(t, i - 1, e) \/ OnBlock(t, i - 1, e) => e.skip \in {0, 1} BY DEF OnLine, OnBlock
<1> QED BY <1>8, <1>9, <1>10, <1>11, <1>12, <1>13 DEF Lead

\* If the first word is that of a read, then an engine's first token is no write.
LEMMA ReadFirst ==
  ASSUME NEW d \in Engines, NEW t \in Seq(Chars), d = "postgres" => ~HiddenNesting(t),
         FirstWord(Normalized(t)) = <<"SELECT">>
  PROVE  Lexed(d, t) = <<>> \/ NoWrite(Lexed(d, t))
<1> DEFINE S == {i \in 0..Len(t) : Lead(t, i, Read(d, t)[i]) \/ NoWrite(Read(d, t)[i].tokens)}
<1>1. 0 \in S
  <2>1. Read(d, t)[0] = LexStart /\ Count(t, 0) = 0 BY ReadIs, NormalizedIn
  <2>2. Starts(t, 1)
    <3>1. Normalized(t) \in Seq(Chars) BY NormalizedIn
    <3>2. 1 \in 1 .. Len(Normalized(t)) + 1 BY <3>1
    <3> QED BY <3>2 DEF Starts, FirstWord
  <2>3. Fresh(t, 0, LexStart) BY <2>1, <2>2 DEF Fresh, LexStart
  <2>4. Lead(t, 0, LexStart) BY <2>3 DEF Lead, LexStart
  <2> QED BY <2>1, <2>4
<1>2. ASSUME NEW k \in 0 .. Len(t) - 1, k \in S PROVE k + 1 \in S
  <2> DEFINE i == k + 1
             e == Read(d, t)[k]
             f == Read(d, t)[i]
  <2>1. i \in 1..Len(t) /\ i \in 0..Len(t) /\ i - 1 = k /\ k \in 0..Len(t) OBVIOUS
  <2> HIDE DEF i
  <2>2. e \in LexStates(d) /\ f = LexAt(d, t, e, i) BY <2>1, ReadIs
  <2>3. Lead(t, i - 1, e) \/ NoWrite(e.tokens) BY <1>2, <2>1
  <2> HIDE DEF e, f
  <2>4. CASE NoWrite(e.tokens)
    <3>1. e.tokens \in Seq(Kinds) BY <2>2 DEF LexStates
    <3>2. f.tokens = e.tokens \/ \E kind \in Kinds : f.tokens = Append(e.tokens, kind)
      BY <2>1, <2>2, LexAtTokens
    <3>3. NoWrite(f.tokens) BY <2>4, <3>1, <3>2, NoWriteStays
    <3> QED BY <2>1, <3>3 DEF f, i
  <2>5. CASE Lead(t, i - 1, e)
    <3>1. Lead(t, i, f) \/ NoWrite(f.tokens)
      <4>1. CASE ~Kept(t, i) BY <2>1, <2>2, <2>5, <4>1, LeadDropped
      <4>2. CASE Kept(t, i) /\ Fresh(t, i - 1, e)
        <5>1. e.tokens = <<>> /\ ~e.opened BY <2>5 DEF Lead
        <5> QED BY <2>1, <2>2, <4>2, <5>1, FreshKept
      <4>3. CASE Kept(t, i) /\ ~Fresh(t, i - 1, e) BY <2>1, <2>2, <2>5, <4>3, CommentKept
      <4> QED BY <4>1, <4>2, <4>3
    <3> QED BY <2>1, <3>1 DEF f, i
  <2> QED BY <2>3, <2>4, <2>5
<1>3. 0 \in Nat /\ Len(t) \in Nat /\ Len(t) \in 0..Len(t) OBVIOUS
<1> HIDE DEF S
<1>4. 0..Len(t) \subseteq S BY <1>1, <1>2, <1>3, Upwards
<1>5. Len(t) \in S BY <1>3, <1>4
<1> QED BY <1>5 DEF S, Lexed, Lead

\* What the guard lets pass in read-only mode begins with no write, for every
\* engine, but for Postgres where a comment opens another one unseen.
THEOREM ReadsOnlyHolds == Spec => []ReadsOnly
<1>1. TextOK => ReadsOnly
  <2> SUFFICES ASSUME TextOK, Guard(text, TRUE) = "pass", NEW d \in Engines,
                      d = "postgres" => ~HiddenNesting(text),
                      NEW i \in Heads(Lexed(d, text))
               PROVE  Lexed(d, text)[i] # "write"
    BY DEF ReadsOnly
  <2>1. text \in Seq(Chars) /\ TRUE \in BOOLEAN BY DEF TextOK
  <2>2. ~Second(Lexed(d, text)) /\ Lexed(d, text) \in Seq(Kinds) BY <2>1, PassIsOne
  <2>3. i = 1 /\ i \in DOMAIN Lexed(d, text) BY <2>2, OneHead DEF Heads
  <2>4. FirstWord(Normalized(text)) = <<"SELECT">> BY DEF Guard, ReadWords
  <2>5. Lexed(d, text) = <<>> \/ NoWrite(Lexed(d, text)) BY <2>1, <2>4, ReadFirst
  <2>6. Lexed(d, text) # <<>> BY <2>2, <2>3
  <2> QED BY <2>3, <2>5, <2>6 DEF NoWrite
<1> QED BY <1>1, TextIsOK, PTL
=============================================================================
