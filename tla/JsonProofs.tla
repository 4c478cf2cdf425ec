----------------------------- MODULE JsonProofs -----------------------------
(***************************************************************************)
(* decode of json.lua, for every text: whatever it has passed leaves open  *)
(* just the brackets of the tables that it is still scanning, so that what *)
(* it accepts is balanced, and it never builds a table with a key or value *)
(* that Lua does not take.                                                 *)
(***************************************************************************)
EXTENDS Json, SequenceTheorems, FiniteSetTheorems, WellFoundedInduction, TLAPS

\* Induction over numbers, for a set.
LEMMA Induction ==
  ASSUME NEW T, 0 \in T, \A n \in Nat : n \in T => n + 1 \in T
  PROVE  Nat \subseteq T
<1> DEFINE R == {ss \in Nat \X Nat : ss[1] < ss[2]}
           C == Nat \ T
<1>1. SUFFICES ASSUME C # {} PROVE FALSE
  OBVIOUS
<1>2. IsWellFoundedOn(R, Nat)
  BY NatLessThanWellFounded DEF OpToRel
<1>3. \A x, y \in Nat : y < x => <<y, x>> \in R
  OBVIOUS
<1> HIDE DEF R
<1>4. PICK k \in C : \A j \in C : ~ (<<j, k>> \in R)
  <2>1. C \subseteq Nat
    OBVIOUS
  <2> HIDE DEF C
  <2>2. QED BY <1>1, <1>2, <2>1, WFMin
<1>5. k \in Nat \ {0} /\ k - 1 \in Nat /\ k - 1 + 1 = k
  OBVIOUS
<1>6. k - 1 \notin C
  <2>1. k \in Nat /\ k - 1 \in Nat /\ k - 1 < k
    BY <1>5
  <2>2. <<k - 1, k>> \in R
    BY <1>3, <2>1
  <2>3. QED BY <1>4, <2>2
<1>7. QED BY <1>5, <1>6

-----------------------------------------------------------------------------
(* The tables that decode builds, and the blanks that it skips *)

\* A table that takes a key of a string or number, and no nil, stays what it was.
LEMMA WithIs ==
  ASSUME NEW f, NEW k, NEW v, WellTyped(Table(f)), v # Nil,
         Type(k) \in {"string", "number"}
  PROVE  WellTyped(Table(With(f, k, v)))
<1> DEFINE g == With(f, k, v)
<1>1. DOMAIN g = DOMAIN f \cup {k} /\ \A j \in DOMAIN g : g[j] = IF j = k THEN v ELSE f[j]
  BY DEF With
<1> HIDE DEF g
<1>2. \A j \in DOMAIN f : Type(j) \in {"string", "number"} /\ f[j] # Nil
  BY DEF WellTyped, Table, Type
<1>3. \A j \in DOMAIN g : Type(j) \in {"string", "number"} /\ g[j] # Nil
  BY <1>1, <1>2
<1>4. WellTyped(Table(g))
  BY <1>3 DEF WellTyped, Table, Type
<1>5. QED BY <1>4 DEF g

LEMMA InsertedIs ==
  ASSUME NEW f, NEW v, WellTyped(Table(f))
  PROVE  WellTyped(Table(Inserted(f, v)))
<1>1. \A n : Type(Number(n)) = "number"
  BY DEF Number, Type
<1>2. QED BY <1>1, WithIs DEF Inserted

LEMMA AssignedIs ==
  ASSUME NEW f, NEW k, NEW v, WellTyped(Table(f)), Type(k) \in {"string", "number"}
  PROVE  WellTyped(Table(Assigned(f, k, v)))
<1>1. CASE v = Nil
  <2> DEFINE g == [j \in DOMAIN f \ {k} |-> f[j]]
  <2>1. \A j \in DOMAIN f : Type(j) \in {"string", "number"} /\ f[j] # Nil
    BY DEF WellTyped, Table, Type
  <2>2. \A j \in DOMAIN g : Type(j) \in {"string", "number"} /\ g[j] # Nil
    BY <2>1
  <2> HIDE DEF g
  <2>3. WellTyped(Table(g))
    BY <2>2 DEF WellTyped, Table, Type
  <2>4. QED BY <1>1, <2>3 DEF Assigned, g
<1>2. CASE v # Nil
  BY <1>2, WithIs DEF Assigned
<1>3. QED BY <1>1, <1>2

\* The first token that is not a blank.
LEMMA SkipIs ==
  ASSUME NEW p \in 1..Len(s) + 1, Len(s) \in Nat
  PROVE  /\ Skip(p) \in p..Len(s) + 1
         /\ \A i \in p..Skip(p) - 1 : s[i] \in Whitespace
<1> DEFINE R == {ss \in Nat \X Nat : ss[1] < ss[2]}
           B == {q \in p..Len(s) : s[q] \notin Whitespace}
           C == B \cup {Len(s) + 1}
<1>1. p \in Nat \ {0} /\ p <= Len(s) + 1 /\ Len(s) + 1 \in Nat
  OBVIOUS
<1>2. Max({p, Len(s) + 1}) = Len(s) + 1
  BY <1>1 DEF Max
<1>3. C \subseteq Nat /\ C # {} /\ \A q \in C : q \in p..Len(s) + 1
  BY <1>1
<1>4. IsWellFoundedOn(R, Nat)
  BY NatLessThanWellFounded DEF OpToRel
<1>5. \A x, y \in Nat : y < x => <<y, x>> \in R
  OBVIOUS
<1> HIDE DEF R
<1>6. PICK k \in C : \A j \in C : ~ (<<j, k>> \in R)
  <2> HIDE DEF C
  <2>1. QED BY <1>3, <1>4, WFMin
<1>7. ASSUME NEW j \in C PROVE k <= j
  <2>1. j \in Nat /\ k \in Nat
    BY <1>3
  <2>2. ~(j < k)
    BY <1>5, <1>6, <2>1
  <2>3. QED BY ONLY <2>1, <2>2
<1>8. Min(C) \in C /\ \A j \in C : Min(C) <= j
  <2> HIDE DEF C
  <2>1. QED BY <1>7 DEF Min
<1>9. Skip(p) = Min(C)
  BY <1>2 DEF Skip
<1> DEFINE m == Min(C)
<1>10. m \in p..Len(s) + 1
  BY <1>3, <1>8
<1>11. \A i \in p..m - 1 : s[i] \in Whitespace
  <2>1. SUFFICES ASSUME NEW i \in p..m - 1, s[i] \notin Whitespace PROVE FALSE
    OBVIOUS
  <2>2. i \in p..Len(s) /\ i < m
    BY <1>1, <1>10
  <2>3. i \in C
    BY <2>1, <2>2
  <2>4. m <= i
    BY <1>8, <2>3
  <2>5. m \in Int
    BY <1>10
  <2> HIDE DEF m
  <2>6. QED BY <2>2, <2>4, <2>5
<1>12. QED BY <1>9, <1>10, <1>11

-----------------------------------------------------------------------------
(* What is open *)

\* A token that neither opens nor closes anything, outside strings.
Ordinary(t) == t \notin Opening \cup Ending \cup Quotes

\* d brackets open, outside of strings and in a string that began with c.
At(d) == [depth |-> d, quote |-> None, escape |-> FALSE]
Inside(d, c, e) == [depth |-> d, quote |-> c, escape |-> e]

\* The tokens that decode tells apart.
LEMMA Distinct ==
  /\ \A t \in Quotes : t # None /\ t # Backslash /\ t \notin Opening \cup Ending
  /\ Opening \cap Ending = {}
  /\ \A t \in Whitespace \cup {Comment, Comma, Colon, Token("null"), NoValue} : Ordinary(t)
  /\ \A t : Type(t) \in {"number", "boolean"} => Ordinary(t)
<1>5. \A c, e : Token(c) = Token(e) => c = e
  BY DEF Token
<1>6. \A c : Type(Token(c)) = "token"
  BY DEF Token, Type
<1>7. Type(Comment) = "comment"
  BY DEF Comment, Type
<1>1. /\ \A t \in Quotes : t # None /\ t # Backslash /\ t \notin Opening \cup Ending
      /\ Opening \cap Ending = {}
  BY DEF Quotes, Opening, Ending, Token, None, Backslash
<1>2. \A t \in Whitespace \cup {Comment, Comma, Colon, Token("null"), NoValue} : Ordinary(t)
  <2>1. \A t \in Whitespace : Ordinary(t)
    BY <1>5 DEF Quotes, Opening, Ending, Ordinary, Whitespace, NewLine, Return, Tab
  <2>2. \A t \in {Comment, Comma, Colon, Token("null"), NoValue} : Ordinary(t)
    BY <1>5, <1>6, <1>7 DEF Quotes, Opening, Ending, Ordinary, Comma, Colon, NoValue
  <2>3. QED BY <2>1, <2>2
<1>3. \A t : Type(t) \in {"number", "boolean"} => Ordinary(t)
  <2>1. \A t \in Opening \cup Ending \cup Quotes : Type(t) = "token"
    BY <1>6 DEF Quotes, Opening, Ending
  <2>2. QED BY <2>1 DEF Ordinary
<1>4. QED BY <1>1, <1>2, <1>3

\* What one token does to what is open.
LEMMA ScannedOutside ==
  ASSUME NEW d \in Int, NEW t
  PROVE  /\ Ordinary(t) => Scanned(At(d), t) = At(d)
         /\ t \in Opening => Scanned(At(d), t) = At(d + 1)
         /\ t \in Ending => Scanned(At(d), t) = At(d - 1)
         /\ t \in Quotes => Scanned(At(d), t) = Inside(d, t, FALSE)
<1>1. At(d).depth = d /\ At(d).quote = None
  BY DEF At
<1>2. /\ d + 0 = d /\ d + (-1) = d - 1
  OBVIOUS
<1>3. CASE Ordinary(t)
  <2>1. t \notin Quotes /\ t \notin Opening /\ t \notin Ending
    BY <1>3 DEF Ordinary
  <2>2. QED BY <1>1, <1>2, <2>1, Distinct DEF Scanned, At, Ordinary, Opening, Ending
<1>4. CASE t \in Opening
  <2>1. t \notin Quotes
    BY <1>4, Distinct
  <2>2. t \notin Ending /\ ~Ordinary(t)
    BY <1>4, Distinct DEF Ordinary
  <2>3. Scanned(At(d), t) = At(d + 1)
    BY <1>1, <1>4, <2>1, <2>2 DEF Scanned, At, Opening, Ending
  <2>4. QED BY <2>1, <2>2, <2>3
<1>5. CASE t \in Ending
  <2>1. t \notin Quotes /\ t \notin Opening /\ ~Ordinary(t)
    BY <1>5, Distinct DEF Ordinary
  <2>2. Scanned(At(d), t) = At(d - 1)
    BY <1>1, <1>2, <1>5, <2>1 DEF Scanned, At, Opening, Ending
  <2>3. QED BY <2>1, <2>2
<1>6. CASE t \in Quotes
  <2>1. t \notin Ending /\ t \notin Opening /\ ~Ordinary(t)
    BY <1>6, Distinct DEF Ordinary
  <2>2. Scanned(At(d), t) = Inside(d, t, FALSE)
    BY <1>1, <1>2, <1>6, <2>1 DEF Scanned, Inside, Opening, Ending
  <2>3. QED BY <2>1, <2>2
<1>7. QED BY <1>3, <1>4, <1>5, <1>6 DEF Ordinary

LEMMA ScannedInside ==
  ASSUME NEW d \in Int, NEW c, c # None, NEW e \in BOOLEAN, NEW t
  PROVE  Scanned(Inside(d, c, e), t)
           = Inside(d, IF t = c /\ ~e THEN None ELSE c, t = Backslash /\ ~e)
<1>1. Inside(d, c, e).depth = d /\ Inside(d, c, e).quote = c /\ Inside(d, c, e).escape = e
  BY DEF Inside
<1> DEFINE n == Inside(d, c, e)
<1> HIDE DEF n
<1>2. n.quote # None => Scanned(n, t) =
        [depth |-> n.depth, quote |-> IF t = n.quote /\ ~n.escape THEN None ELSE n.quote,
         escape |-> t = Backslash /\ ~n.escape]
  BY DEF Scanned
<1>3. n.depth = d /\ n.quote = c /\ n.escape = e
  BY <1>1 DEF n
<1>4. QED BY <1>2, <1>3 DEF Inside, n

\* UpTo is the function that its recursion describes.
LEMMA UpToIs ==
  ASSUME Len(s) \in Nat
  PROVE  /\ UpTo[0] = At(0)
         /\ \A i \in 1..Len(s) : UpTo[i] = Scanned(UpTo[i - 1], s[i])
<1> DEFINE Is(u, n) == u = [i \in 0..n |-> IF i = 0 THEN Outside ELSE Scanned(u[i - 1], s[i])]
           T == {n \in Nat : \E u : Is(u, n)}
<1>1. 0 \in T
  <2>1. Is([i \in 0..0 |-> Outside], 0)
    OBVIOUS
  <2>2. QED BY <2>1
<1>2. ASSUME NEW n \in Nat, n \in T PROVE n + 1 \in T
  <2>1. PICK u : Is(u, n)
    BY <1>2
  <2> DEFINE w == [i \in 0..n + 1 |-> IF i = n + 1 THEN Scanned(u[n], s[n + 1]) ELSE u[i]]
  <2>2. \A i \in 0..n : w[i] = u[i]
    OBVIOUS
  <2>3. w[n + 1] = Scanned(w[n + 1 - 1], s[n + 1])
    <3>1. n + 1 - 1 = n
      OBVIOUS
    <3>2. w[n + 1] = Scanned(u[n], s[n + 1]) /\ w[n] = u[n]
      OBVIOUS
    <3> HIDE DEF w
    <3>3. QED BY <3>1, <3>2
  <2>4. w[0] = Outside
    BY <2>1
  <2>5. \A i \in 1..n : w[i] = Scanned(w[i - 1], s[i])
    <3>1. \A i \in 1..n : u[i] = Scanned(u[i - 1], s[i])
      BY <2>1
    <3>2. \A i \in 1..n : i \in 0..n /\ i - 1 \in 0..n
      OBVIOUS
    <3> HIDE DEF w
    <3>3. QED BY <2>2, <3>1, <3>2
  <2>6. w = [i \in 0..n + 1 |-> w[i]]
    OBVIOUS
  <2>7. Is(w, n + 1)
    <3>1. \A i \in 0..n + 1 : i = 0 \/ i = n + 1 \/ i \in 1..n
      OBVIOUS
    <3>2. n + 1 # 0
      OBVIOUS
    <3> HIDE DEF w
    <3>3. \A i \in 0..n + 1 : w[i] = IF i = 0 THEN Outside ELSE Scanned(w[i - 1], s[i])
      BY <2>3, <2>4, <2>5, <3>1, <3>2
    <3>4. QED BY <2>6, <3>3
  <2> HIDE DEF w
  <2>8. QED BY <2>7
<1>3. Len(s) \in T
  <2> HIDE DEF T
  <2>1. QED BY <1>1, <1>2, Induction
<1>4. Is(UpTo, Len(s))
  BY <1>3 DEF UpTo
<1>5. UpTo[0] = Outside /\ \A i \in 1..Len(s) : UpTo[i] = Scanned(UpTo[i - 1], s[i])
  <2> DEFINE u == UpTo
  <2>1. Is(u, Len(s))
    BY <1>4
  <2> HIDE DEF u
  <2>2. u[0] = Outside
    BY <2>1
  <2>3. \A i \in 1..Len(s) : u[i] = Scanned(u[i - 1], s[i])
    BY <2>1
  <2>4. QED BY <2>2, <2>3 DEF u
<1>6. QED BY <1>5 DEF Outside, At

\* Ordinary tokens leave what is open.
LEMMA OrdinaryRun ==
  ASSUME Len(s) \in Nat, NEW d \in Int, NEW a \in 0..Len(s), NEW b \in a..Len(s),
         UpTo[a] = At(d), \A i \in a + 1..b : Ordinary(s[i])
  PROVE  UpTo[b] = At(d)
<1> DEFINE T == {n \in Nat : a + n <= b => UpTo[a + n] = At(d)}
<1>1. 0 \in T
  BY a + 0 = a
<1>2. ASSUME NEW n \in Nat, n \in T PROVE n + 1 \in T
  <2>1. SUFFICES ASSUME a + (n + 1) <= b PROVE UpTo[a + (n + 1)] = At(d)
    OBVIOUS
  <2> DEFINE i == a + (n + 1)
  <2>2. i \in 1..Len(s) /\ i \in a + 1..b /\ i - 1 = a + n /\ a + n <= b
    BY <2>1
  <2>3. UpTo[i - 1] = At(d)
    BY <1>2, <2>2
  <2>4. Ordinary(s[i])
    BY <2>2
  <2>5. UpTo[i] = Scanned(UpTo[i - 1], s[i])
    BY <2>2, UpToIs
  <2> HIDE DEF i
  <2>6. UpTo[i] = At(d)
    BY <2>3, <2>4, <2>5, ScannedOutside
  <2>7. QED BY <2>6 DEF i
<1>3. b - a \in Nat /\ a + (b - a) = b
  OBVIOUS
<1>4. b - a \in T
  <2> HIDE DEF T
  <2>1. QED BY <1>1, <1>2, <1>3, Induction
<1>5. QED BY <1>3, <1>4

\* A backslash escapes the next character unless it is escaped itself.
LEMMA EscapedNext ==
  ASSUME NEW p \in Nat, NEW r \in Nat, p < r
  PROVE  /\ ~Escaped(p, p + 1)
         /\ Escaped(p, r + 1) <=> (s[r] = Backslash /\ ~Escaped(p, r))
<1> DEFINE E(q) == {i \in p + 1..q - 1 : \A j \in i..q - 1 : s[j] = Backslash}
<1>1. \A q \in Nat : IsFiniteSet(E(q)) /\ Cardinality(E(q)) \in Nat
  <2>1. TAKE q \in Nat
  <2>2. IsFiniteSet(p + 1..q - 1)
    <3>1. p + 1 \in Int /\ q - 1 \in Int
      OBVIOUS
    <3>2. QED BY <3>1, FS_Interval
  <2>3. E(q) \subseteq p + 1..q - 1
    OBVIOUS
  <2> HIDE DEF E
  <2>4. QED BY <2>2, <2>3, FS_Subset, FS_CardinalityType
<1>2. \A q : Escaped(p, q) <=> Cardinality(E(q)) % 2 = 1
  BY DEF Escaped
<1>3. E(p + 1) = {}
  OBVIOUS
<1>8. Cardinality({}) % 2 # 1
  <2>1. Cardinality({}) = 0
    BY FS_EmptySet
  <2>2. QED BY <2>1
<1>7. ~Escaped(p, p + 1)
  <2> HIDE DEF E
  <2>1. QED BY <1>2, <1>3, <1>8
<1>4. CASE s[r] = Backslash
  <2>1. E(r + 1) = E(r) \cup {r}
    <3>1. \A i \in p + 1..r : i..r = (i..r - 1) \cup {r}
      OBVIOUS
    <3>2. r + 1 - 1 = r /\ p + 1..r = (p + 1..r - 1) \cup {r}
      OBVIOUS
    <3>3. E(r + 1) = {i \in p + 1..r : \A j \in i..r : s[j] = Backslash}
      BY <3>2
    <3>4. \A i \in p + 1..r : (\A j \in i..r : s[j] = Backslash)
                              <=> (\A j \in i..r - 1 : s[j] = Backslash)
      BY <1>4, <3>1
    <3>5. \A j \in r..r - 1 : FALSE
      OBVIOUS
    <3>6. QED BY <3>2, <3>3, <3>4, <3>5
  <2>2. r \notin E(r)
    OBVIOUS
  <2>3. Cardinality(E(r + 1)) = Cardinality(E(r)) + 1
    <3> HIDE DEF E
    <3>1. IsFiniteSet(E(r))
      BY <1>1
    <3>2. QED BY <2>1, <2>2, <3>1, FS_AddElement
  <2>4. \A c \in Nat : (c + 1) % 2 = 1 <=> c % 2 # 1
    OBVIOUS
  <2>5. Cardinality(E(r)) \in Nat
    <3> HIDE DEF E
    <3>1. QED BY <1>1
  <2> HIDE DEF E
  <2>6. Escaped(p, r + 1) <=> ~Escaped(p, r)
    BY <1>2, <2>3, <2>4, <2>5
  <2>7. QED BY <1>4, <1>7, <2>6
<1>5. CASE s[r] # Backslash
  <2>1. E(r + 1) = {}
    <3>1. \A i \in p + 1..r + 1 - 1 : r \in i..r + 1 - 1
      OBVIOUS
    <3>2. QED BY <1>5, <3>1
  <2> HIDE DEF E
  <2>2. ~Escaped(p, r + 1)
    BY <1>2, <1>8, <2>1
  <2>3. QED BY <1>5, <1>7, <2>2
<1>6. QED BY <1>4, <1>5

\* A string is scanned from its quote to the one that closes it.
LEMMA StringScanned ==
  ASSUME Len(s) \in Nat, NEW d \in Int, NEW p \in 1..Len(s), NEW q \in Closing(p),
         s[p] \in Quotes, UpTo[p - 1] = At(d)
  PROVE  q \in p + 1..Len(s) /\ UpTo[q] = At(d)
<1> DEFINE c == s[p]
           T == {n \in Nat : p + n < q => UpTo[p + n] = Inside(d, c, Escaped(p, p + n + 1))}
<1>1. /\ q \in p + 1..Len(s) /\ s[q] = c /\ ~Escaped(p, q)
      /\ \A r \in p + 1..q - 1 : s[r] = c => Escaped(p, r)
  BY DEF Closing
<1>2. c # None /\ c # Backslash
  BY Distinct
<1>3. p \in Nat
  OBVIOUS
<1>4. \A i, j : Escaped(i, j) \in BOOLEAN
  BY DEF Escaped
<1>5. 0 \in T
  <2>1. UpTo[p] = Scanned(UpTo[p - 1], c)
    BY UpToIs
  <2>2. UpTo[p] = Inside(d, c, FALSE)
    BY <2>1, ScannedOutside
  <2>3. Escaped(p, p + 1) = FALSE
    <3>1. p < p + 1 /\ p + 1 \in Nat
      OBVIOUS
    <3>2. QED BY <1>3, <1>4, <3>1, EscapedNext
  <2>4. p + 0 = p /\ p + 0 + 1 = p + 1
    OBVIOUS
  <2> HIDE DEF c
  <2>5. QED BY <2>2, <2>3, <2>4
<1>6. ASSUME NEW n \in Nat, n \in T PROVE n + 1 \in T
  <2>1. SUFFICES ASSUME p + (n + 1) < q
                 PROVE  UpTo[p + (n + 1)] = Inside(d, c, Escaped(p, p + (n + 1) + 1))
    OBVIOUS
  <2> DEFINE r == p + (n + 1)
             e == Escaped(p, r)
             f == Escaped(p, r + 1)
  <2>2. r \in 1..Len(s) /\ r \in p + 1..q - 1 /\ r - 1 = p + n /\ p + n + 1 = r /\ p + n < q
    BY <1>1, <2>1
  <2>3. UpTo[r - 1] = Inside(d, c, e)
    BY <1>6, <2>2
  <2>4. UpTo[r] = Scanned(UpTo[r - 1], s[r])
    BY <2>2, UpToIs
  <2>5. s[r] = c => e
    BY <1>1, <2>2
  <2>6. e \in BOOLEAN /\ f \in BOOLEAN
    BY <1>4
  <2>7. r \in Nat /\ p < r
    BY <2>2
  <2>8. f <=> (s[r] = Backslash /\ ~e)
    <3> HIDE DEF r
    <3>1. QED BY <1>3, <2>7, EscapedNext
  <2> HIDE DEF e, f, c
  <2>9. UpTo[r] = Inside(d, IF s[r] = c /\ ~e THEN None ELSE c, s[r] = Backslash /\ ~e)
    <3> HIDE DEF r
    <3>1. QED BY <1>2, <2>3, <2>4, <2>6, ScannedInside
  <2>10. (s[r] = Backslash /\ ~e) = f
    BY <2>6, <2>8
  <2>11. (IF s[r] = c /\ ~e THEN None ELSE c) = c
    BY <2>5
  <2>12. UpTo[r] = Inside(d, c, f)
    BY <2>9, <2>10, <2>11
  <2>13. QED BY <2>12 DEF f
<1>7. q - 1 - p \in Nat /\ p + (q - 1 - p) = q - 1 /\ q - 1 < q /\ q - 1 + 1 = q
  BY <1>1
<1>8. q - 1 - p \in T
  <2> HIDE DEF T
  <2>1. QED BY <1>5, <1>6, <1>7, Induction
<1>9. UpTo[q - 1] = Inside(d, c, Escaped(p, q))
  BY <1>7, <1>8
<1>10. UpTo[q] = Scanned(UpTo[q - 1], s[q])
  BY <1>1, UpToIs
<1>11. Escaped(p, q) = FALSE
  BY <1>1, <1>4
<1> HIDE DEF c
<1>12. UpTo[q] = Inside(d, None, FALSE)
  <2>1. UpTo[q] = Scanned(Inside(d, c, FALSE), s[q])
    BY <1>9, <1>10, <1>11
  <2>2. Scanned(Inside(d, c, FALSE), s[q])
          = Inside(d, IF s[q] = c /\ ~FALSE THEN None ELSE c, s[q] = Backslash /\ ~FALSE)
    BY <1>2, ScannedInside
  <2>3. (IF s[q] = c /\ ~FALSE THEN None ELSE c) = None
    BY <1>1
  <2>4. (s[q] = Backslash /\ ~FALSE) = FALSE
    BY <1>1, <1>2
  <2>5. QED BY <2>1, <2>2, <2>3, <2>4
<1>13. QED BY <1>1, <1>12 DEF Inside, At

-----------------------------------------------------------------------------
(* The invariant *)

\* A table that is being scanned.
IsFrame(f) ==
  /\ f = [kind |-> f.kind, table |-> f.table, key |-> f.key]
  /\ f.kind \in {"array", "object"} /\ WellTyped(Table(f.table))
  /\ f.key = None \/ Type(f.key) \in {"string", "number"}

Frames == {stack[i] : i \in 1..Len(stack)}

\* The inductive invariant: the prefix that decode has passed leaves open what is on the
\* stack, and is outside a string.
JsonInv ==
  /\ Len(s) \in Nat
  /\ TypeOK
  /\ stack \in Seq(Frames) /\ \A i \in 1..Len(stack) : IsFrame(stack[i])
  /\ pc \in {"array", "object"} => stack # <<>>
  /\ pc = "done" => stack = <<>>
  /\ pc # "raised" => UpTo[pos - 1] = At(Len(stack))

LEMMA InitJson == Init => JsonInv
<1> SUFFICES ASSUME Init PROVE JsonInv
  OBVIOUS
<1>1. Len(s) \in Nat
  BY TextsAssumption DEF Init
<1>2. UpTo[pos - 1] = At(Len(stack))
  <2>1. pos - 1 = 0 /\ Len(stack) = 0
    BY EmptySeq DEF Init
  <2>2. QED BY <1>1, <2>1, UpToIs
<1>3. WellTyped(ret)
  BY DEF Init, Nil, WellTyped, Type
<1>4. stack = <<>> /\ pos = 1 /\ pc \in {"raised", "decode"}
  BY DEF Init
<1>5. stack \in Seq(Frames) /\ \A i \in 1..Len(stack) : FALSE
  BY <1>4, EmptySeq
<1>6. QED BY <1>1, <1>2, <1>3, <1>4, <1>5 DEF JsonInv, TypeOK

\* What a step has to show.
LEMMA Keeps ==
  ASSUME Len(s) \in Nat, s' = s,
         NEW X, stack' \in Seq(X), \A i \in 1..Len(stack') : IsFrame(stack'[i]),
         pc' \in {"decode", "array", "object", "return", "done", "raised"},
         pc' \in {"array", "object"} => stack' # <<>>, pc' = "done" => stack' = <<>>,
         pos' \in 1..Len(s) + 1, WellTyped(ret'),
         pc' # "raised" => UpTo[pos' - 1] = At(Len(stack'))
  PROVE  JsonInv'
<1>1. UpTo' = UpTo
  BY DEF UpTo
<1>2. stack' \in Seq(Frames')
  <2> DEFINE t == stack'
  <2>1. t \in Seq(X)
    OBVIOUS
  <2> HIDE DEF t
  <2>2. Len(t) \in Nat /\ t = [i \in 1..Len(t) |-> t[i]]
    BY <2>1
  <2>3. t \in Seq({t[i] : i \in 1..Len(t)})
    BY <2>2
  <2>4. QED BY <2>3 DEF t, Frames
<1>3. TypeOK'
  BY DEF TypeOK, IsFrame
<1>4. Len(s') \in Nat
  OBVIOUS
<1>5. pc' # "raised" => UpTo'[pos' - 1] = At(Len(stack'))
  BY <1>1
<1>6. QED BY <1>2, <1>3, <1>4, <1>5 DEF JsonInv

LEMMA RaiseKeeps ==
  ASSUME JsonInv, s' = s, Raise PROVE JsonInv'
BY Keeps DEF JsonInv, TypeOK, Raise

\* The same tables remain open.
LEMMA MoveKeeps ==
  ASSUME JsonInv, s' = s, stack' = stack, pc' \in {"decode", "array", "object", "return"},
         pc' \in {"array", "object"} => stack # <<>>,
         pos' \in 1..Len(s) + 1, WellTyped(ret'), UpTo[pos' - 1] = At(Len(stack))
  PROVE  JsonInv'
BY Keeps DEF JsonInv

\* Neither blanks nor one token more change what decode knows to be open.
LEMMA BlanksSkipped ==
  ASSUME Len(s) \in Nat, NEW d \in Int, NEW p \in 1..Len(s) + 1, UpTo[p - 1] = At(d)
  PROVE  Skip(p) \in p..Len(s) + 1 /\ UpTo[Skip(p) - 1] = At(d)
<1> DEFINE q == Skip(p)
<1>1. q \in p..Len(s) + 1 /\ \A i \in p..q - 1 : Ordinary(s[i])
  BY SkipIs, Distinct
<1> HIDE DEF q
<1>2. p - 1 \in 0..Len(s) /\ q - 1 \in p - 1..Len(s) /\ p - 1 + 1 = p
  BY <1>1
<1>3. \A i \in p - 1 + 1..q - 1 : Ordinary(s[i])
  BY <1>1, <1>2
<1>4. UpTo[q - 1] = At(d)
  BY <1>2, <1>3, OrdinaryRun
<1>5. QED BY <1>1, <1>4 DEF q

LEMMA TokenPassed ==
  ASSUME Len(s) \in Nat, NEW d \in Int, NEW p \in 1..Len(s), UpTo[p - 1] = At(d)
  PROVE  /\ p + 1 \in 1..Len(s) + 1
         /\ Ordinary(s[p]) => UpTo[p + 1 - 1] = At(d)
         /\ s[p] \in Opening => UpTo[p + 1 - 1] = At(d + 1)
         /\ s[p] \in Ending => UpTo[p + 1 - 1] = At(d - 1)
<1>1. UpTo[p] = Scanned(UpTo[p - 1], s[p])
  BY UpToIs
<1>2. p + 1 - 1 = p /\ p + 1 \in 1..Len(s) + 1
  OBVIOUS
<1>3. QED BY <1>1, <1>2, ScannedOutside

\* Where decode is after blanks.
LEMMA Here ==
  ASSUME JsonInv, pc # "raised"
  PROVE  /\ Skip(pos) \in 1..Len(s) + 1 /\ Len(stack) \in Nat
         /\ In(Skip(pos)) => Skip(pos) \in 1..Len(s)
         /\ UpTo[Skip(pos) - 1] = At(Len(stack))
<1>1. Len(stack) \in Int /\ Len(stack) \in Nat
  BY LenProperties DEF JsonInv
<1>2. Len(s) \in Nat /\ pos \in 1..Len(s) + 1 /\ UpTo[pos - 1] = At(Len(stack))
  BY DEF JsonInv, TypeOK
<1>3. Skip(pos) \in pos..Len(s) + 1 /\ UpTo[Skip(pos) - 1] = At(Len(stack))
  BY <1>1, <1>2, BlanksSkipped
<1>4. QED BY <1>1, <1>2, <1>3 DEF In

LEMMA FrameIs ==
  ASSUME NEW kind \in {"array", "object"} PROVE IsFrame(Frame(kind))
<1> DEFINE f == Frame(kind)
<1>1. f.kind = kind /\ f.table = <<>> /\ f.key = None
  BY DEF Frame, EmptyTable
<1>2. f = [kind |-> f.kind, table |-> f.table, key |-> f.key]
  BY <1>1 DEF Frame, EmptyTable
<1>3. DOMAIN <<>> = {}
  OBVIOUS
<1>4. WellTyped(Table(<<>>))
  BY <1>3 DEF WellTyped, Table, Type
<1> HIDE DEF f
<1>5. IsFrame(f)
  BY <1>1, <1>2, <1>4 DEF IsFrame
<1>6. QED BY <1>5 DEF f

\* The actions, one by one.
LEMMA DecodeKeeps == ASSUME JsonInv, Decode PROVE JsonInv'
<1> DEFINE p == Skip(pos)
           d == Len(stack)
<1>1. /\ p \in 1..Len(s) + 1 /\ d \in Int /\ d \in Nat
      /\ In(p) => p \in 1..Len(s)
      /\ UpTo[p - 1] = At(d) /\ Len(s) \in Nat /\ s' = s /\ pc = "decode"
  <2>1. pc = "decode" /\ s' = s /\ Len(s) \in Nat
    BY DEF Decode, JsonInv
  <2>2. pc # "raised"
    BY <2>1
  <2>3. /\ p \in 1..Len(s) + 1 /\ d \in Nat
        /\ In(p) => p \in 1..Len(s)
        /\ UpTo[p - 1] = At(d)
    BY <2>2, Here
  <2> HIDE DEF p, d
  <2>4. QED BY <2>1, <2>3
<1>2. ASSUME In(p)
      PROVE  /\ p \in 1..Len(s) /\ p + 1 \in 1..Len(s) + 1
             /\ Ordinary(s[p]) => UpTo[p + 1 - 1] = At(d)
             /\ s[p] \in Opening => UpTo[p + 1 - 1] = At(d + 1)
  <2> HIDE DEF p, d
  <2>1. QED BY <1>1, <1>2, TokenPassed
<1>3. WellTyped(ret)
  BY DEF JsonInv, TypeOK
<1> HIDE DEF p
<1>4. CASE Raise
  BY <1>1, <1>4, RaiseKeeps
<1>5. CASE /\ In(p) /\ s[p] \in Opening
           /\ Go(IF s[p] = Token("[") THEN "array" ELSE "object", p + 1)
           /\ stack' = <<Frame(pc')>> \o stack /\ UNCHANGED ret
  <2>1. pc' \in {"array", "object"} /\ pos' = p + 1 /\ ret' = ret
    BY <1>5 DEF Go
  <2> DEFINE X == Frames \cup {Frame(pc')}
  <2>2. stack \in Seq(X)
    BY SeqMonotonic DEF JsonInv
  <2>3. /\ <<Frame(pc')>> \in Seq(X) /\ Len(<<Frame(pc')>>) = 1
        /\ <<Frame(pc')>>[1] = Frame(pc')
    OBVIOUS
  <2> HIDE DEF X
  <2>4. /\ stack' \in Seq(X) /\ Len(stack') = 1 + d
        /\ \A i \in 1..1 + d : stack'[i] = IF i <= 1 THEN Frame(pc') ELSE stack[i - 1]
    <3> DEFINE one == <<Frame(pc')>>
    <3>1. stack' = one \o stack
      BY <1>5
    <3>2. one \in Seq(X) /\ Len(one) = 1 /\ one[1] = Frame(pc')
      BY <2>3
    <3> HIDE DEF one
    <3>3. /\ one \o stack \in Seq(X) /\ Len(one \o stack) = Len(one) + Len(stack)
          /\ \A i \in 1..Len(one) + Len(stack) :
               (one \o stack)[i] = IF i <= Len(one) THEN one[i] ELSE stack[i - Len(one)]
      BY <2>2, <3>2, ConcatProperties
    <3>4. \A i \in 1..1 + d : i <= 1 => i = 1
      BY <1>1
    <3>5. /\ stack' \in Seq(X) /\ Len(stack') = 1 + d
          /\ \A i \in 1..1 + d : stack'[i] = IF i <= 1 THEN one[i] ELSE stack[i - 1]
      BY <3>1, <3>2, <3>3
    <3> HIDE DEF d
    <3>6. QED BY <3>2, <3>4, <3>5
  <2>5. \A i \in 1..Len(stack') : IsFrame(stack'[i])
    <3>1. \A i \in 1..d : IsFrame(stack[i])
      BY DEF JsonInv
    <3>2. \A i \in 1..1 + d : i <= 1 \/ i - 1 \in 1..d
      BY <1>1
    <3>3. IsFrame(Frame(pc'))
      BY <2>1, FrameIs
    <3>4. QED BY <2>4, <3>1, <3>2, <3>3
  <2>6. stack' # <<>>
    BY <1>1, <2>4, EmptySeq
  <2>7. UpTo[pos' - 1] = At(Len(stack'))
    <3>1. UpTo[p + 1 - 1] = At(d + 1)
      BY <1>2, <1>5 DEF Opening
    <3>2. Len(stack') = d + 1
      BY <1>1, <2>4
    <3>3. pos' - 1 = p + 1 - 1
      BY <1>1, <1>5, <2>1
    <3> HIDE DEF d
    <3>4. QED BY <3>1, <3>2, <3>3
  <2>8. QED BY <1>1, <1>2, <1>3, <1>5, <2>1, <2>4, <2>5, <2>6, <2>7, Keeps
<1>6. CASE /\ In(p) /\ s[p] \in Quotes
           /\ \E q \in Closing(p) :
                /\ IsString(p, q) /\ Go("return", q + 1)
                /\ ret' = String(Chars(p, q)) /\ UNCHANGED stack
  <2>1. PICK q \in Closing(p) : /\ Go("return", q + 1) /\ ret' = String(Chars(p, q))
                                /\ stack' = stack
    BY <1>6
  <2>2. q \in p + 1..Len(s) /\ UpTo[q] = At(d)
    <3> HIDE DEF d
    <3>1. p \in 1..Len(s) /\ s[p] \in Quotes
      BY <1>2, <1>6
    <3>2. QED BY <1>1, <3>1, StringScanned
  <2>3. q + 1 \in 1..Len(s) + 1 /\ q + 1 - 1 = q
    BY <1>1, <2>2
  <2>4. WellTyped(ret')
    BY <2>1 DEF WellTyped, Type, String
  <2>5. pos' = q + 1 /\ pc' = "return"
    BY <2>1 DEF Go
  <2>6. UpTo[pos' - 1] = At(Len(stack))
    BY <2>2, <2>3, <2>5
  <2>7. QED BY <1>1, <2>1, <2>3, <2>4, <2>5, <2>6, MoveKeeps
<1>7. CASE /\ In(p) /\ Type(s[p]) \in {"number", "boolean"}
           /\ Go("return", p + 1) /\ ret' = s[p] /\ UNCHANGED stack
  <2>0. Type(s[p]) \in {"number", "boolean"}
    BY <1>7
  <2>1. Ordinary(s[p])
    BY ONLY <2>0, Distinct
  <2>2. WellTyped(ret') /\ pos' = p + 1 /\ pc' = "return" /\ stack' = stack
    BY <1>7 DEF WellTyped, Go
  <2>3. QED BY <1>1, <1>2, <1>7, <2>1, <2>2, MoveKeeps
<1>8. CASE /\ In(p) /\ s[p] \in {Token("null"), NoValue}
           /\ Go("return", p + 1) /\ ret' = Nil /\ UNCHANGED stack
  <2>1. Ordinary(s[p])
    BY <1>8, Distinct
  <2>2. WellTyped(ret') /\ pos' = p + 1 /\ pc' = "return" /\ stack' = stack
    BY <1>8 DEF WellTyped, Go, Nil, Type
  <2>3. QED BY <1>1, <1>2, <1>8, <2>1, <2>2, MoveKeeps
<1>9. CASE In(p) /\ s[p] = Comment /\ Go("decode", Behind(p)) /\ UNCHANGED <<stack, ret>>
  <2>1. Ordinary(s[p])
    BY <1>9, Distinct
  <2>2. WellTyped(ret') /\ pos' = p + 1 /\ pc' = "decode" /\ stack' = stack
    BY <1>3, <1>9 DEF Go, Behind
  <2>3. QED BY <1>1, <1>2, <1>9, <2>1, <2>2, MoveKeeps
<1>10. QED BY <1>4, <1>5, <1>6, <1>7, <1>8, <1>9 DEF Decode, p

\* The table at the top.
LEMMA TopIs ==
  ASSUME JsonInv, stack # <<>>
  PROVE  Top = stack[1] /\ IsFrame(Top)
<1>1. Top = stack[1] /\ 1 \in 1..Len(stack)
  BY EmptySeq DEF JsonInv, Top
<1>2. QED BY <1>1 DEF JsonInv

LEMMA TurnKeeps ==
  ASSUME JsonInv, NEW kind \in {"array", "object"}, NEW bracket, Token(bracket) \in Ending,
         Turn(kind, bracket)
  PROVE  JsonInv'
<1> DEFINE p == Skip(pos)
           q == IF In(p) /\ s[p] = Comma THEN Skip(p + 1) ELSE p
           d == Len(stack)
<1>1. /\ p \in 1..Len(s) + 1 /\ d \in Int /\ d \in Nat
      /\ In(p) => p \in 1..Len(s)
      /\ UpTo[p - 1] = At(d) /\ Len(s) \in Nat /\ s' = s /\ pc = kind
  <2>1. pc = kind /\ s' = s /\ Len(s) \in Nat
    BY DEF Turn, JsonInv
  <2>2. pc # "raised"
    BY <2>1
  <2>3. /\ p \in 1..Len(s) + 1 /\ d \in Nat
        /\ In(p) => p \in 1..Len(s)
        /\ UpTo[p - 1] = At(d)
    BY <2>2, Here
  <2> HIDE DEF p, d
  <2>4. QED BY <2>1, <2>3
<1>2. ASSUME In(p)
      PROVE  /\ p \in 1..Len(s) /\ p + 1 \in 1..Len(s) + 1
             /\ Ordinary(s[p]) => UpTo[p + 1 - 1] = At(d)
             /\ s[p] \in Ending => UpTo[p + 1 - 1] = At(d - 1)
  <2> HIDE DEF p, d
  <2>1. QED BY <1>1, <1>2, TokenPassed
<1>3. WellTyped(ret) /\ stack # <<>>
  BY <1>1 DEF JsonInv, TypeOK
<1> HIDE DEF p
<1>4. q \in 1..Len(s) + 1 /\ UpTo[q - 1] = At(d)
  <2>1. CASE In(p) /\ s[p] = Comma
    <3>1. UpTo[p + 1 - 1] = At(d) /\ p + 1 \in 1..Len(s) + 1
      BY <1>2, <2>1, Distinct
    <3>0. d \in Int /\ Len(s) \in Nat /\ p \in Int
      BY <1>1
    <3>6. PICK r \in {p + 1} : UpTo[r - 1] = At(d) /\ r \in 1..Len(s) + 1
      BY ONLY <3>0, <3>1
    <3> HIDE DEF d, q
    <3>7. Skip(r) \in r..Len(s) + 1 /\ UpTo[Skip(r) - 1] = At(d)
      BY <3>0, <3>6, BlanksSkipped
    <3>2. Skip(p + 1) \in p + 1..Len(s) + 1 /\ UpTo[Skip(p + 1) - 1] = At(d)
      BY <3>7
    <3>3. q = Skip(p + 1)
      BY <2>1 DEF q
    <3>4. \A n \in p + 1..Len(s) + 1 : n \in 1..Len(s) + 1
      BY <1>1
    <3> HIDE DEF q
    <3>5. QED BY <3>2, <3>3, <3>4
  <2>2. CASE ~(In(p) /\ s[p] = Comma)
    BY <1>1, <2>2
  <2>3. QED BY <2>1, <2>2
<1>5. CASE Raise
  BY <1>1, <1>5, RaiseKeeps
<1>6. CASE /\ In(q) /\ s[p] = Token(bracket)
           /\ Go("return", Behind(p)) /\ ret' = Table(Top.table) /\ stack' = Tail(stack)
  <2>1. s[p] \in Ending /\ s[p] # Comma
    BY <1>6, Distinct DEF Ending, Ordinary
  <2>2. In(p)
    BY <1>6, <2>1
  <2>3. pc' = "return" /\ pos' = p + 1
    BY <1>6 DEF Go, Behind
  <2>4. /\ stack' \in Seq(Frames) /\ Len(stack') = d - 1
        /\ \A i \in 1..Len(stack') : stack'[i] = stack[i + 1]
    BY <1>3, <1>6, HeadTailProperties DEF JsonInv
  <2>5. \A i \in 1..Len(stack') : IsFrame(stack'[i])
    <3>1. \A n \in Nat : \A i \in 1..n - 1 : i + 1 \in 1..n
      OBVIOUS
    <3>2. \A i \in 1..d - 1 : i + 1 \in 1..d
      BY ONLY <1>1, <3>1
    <3>3. QED BY <2>4, <3>2 DEF JsonInv
  <2>6. WellTyped(ret')
    <3>1. IsFrame(Top)
      BY <1>3, TopIs
    <3>2. QED BY <1>6, <3>1 DEF IsFrame
  <2>7. UpTo[pos' - 1] = At(Len(stack'))
    <3>1. UpTo[p + 1 - 1] = At(d - 1)
      BY <1>2, <2>1, <2>2
    <3>2. pos' - 1 = p + 1 - 1
      BY <1>1, <2>2, <2>3
    <3> HIDE DEF d
    <3>3. QED BY <2>4, <3>1, <3>2
  <2>8. QED BY <1>1, <1>2, <2>2, <2>3, <2>4, <2>5, <2>6, <2>7, Keeps
<1>7. CASE In(q) /\ s[p] # Token(bracket) /\ Go("decode", q) /\ UNCHANGED <<stack, ret>>
  <2> HIDE DEF q
  <2>1. pc' = "decode" /\ pos' = q /\ stack' = stack /\ ret' = ret
    BY <1>7 DEF Go
  <2>2. QED BY <1>1, <1>3, <1>4, <2>1, MoveKeeps
<1>8. QED BY <1>5, <1>6, <1>7 DEF Turn, p

\* The table at the top is replaced.
LEMMA TopReplaced ==
  ASSUME JsonInv, s' = s, stack # <<>>, NEW f, IsFrame(f), stack' = [stack EXCEPT ![1] = f],
         pc' \in {"decode", "array", "object"},
         pos' \in 1..Len(s) + 1, WellTyped(ret'), UpTo[pos' - 1] = At(Len(stack))
  PROVE  JsonInv'
<1> DEFINE X == Frames \cup {f}
<1>1. stack \in Seq(X) /\ f \in X /\ 1 \in 1..Len(stack)
  BY SeqMonotonic, EmptySeq DEF JsonInv
<1> HIDE DEF X
<1>2. /\ stack' \in Seq(X) /\ Len(stack') = Len(stack)
      /\ \A j \in 1..Len(stack) : stack'[j] = IF j = 1 THEN f ELSE stack[j]
  BY <1>1, ExceptSeq
<1>3. stack' # <<>>
  BY <1>1, <1>2, EmptySeq
<1>4. \A i \in 1..Len(stack') : IsFrame(stack'[i])
  BY <1>2 DEF JsonInv
<1>5. Len(s) \in Nat /\ UpTo[pos' - 1] = At(Len(stack'))
  BY <1>2 DEF JsonInv
<1>6. QED BY <1>2, <1>3, <1>4, <1>5, Keeps

LEMMA ReturnKeeps ==
  ASSUME JsonInv, ReturnItem \/ ReturnKey \/ ReturnValue PROVE JsonInv'
<1>1. /\ stack # <<>> /\ s' = s /\ pc = "return" /\ WellTyped(ret)
      /\ pos \in 1..Len(s) + 1 /\ UpTo[pos - 1] = At(Len(stack))
  BY DEF ReturnItem, ReturnKey, ReturnValue, JsonInv, TypeOK
<1>2. Top = stack[1] /\ IsFrame(Top)
  BY <1>1, TopIs
<1>3. \A k, t, y : /\ k \in {"array", "object"} /\ WellTyped(Table(t))
                   /\ y = None \/ Type(y) \in {"string", "number"}
                   => IsFrame([kind |-> k, table |-> t, key |-> y])
  BY DEF IsFrame
<1>4. CASE ReturnItem
  <2> DEFINE t == Inserted(stack[1].table, ret)
             f == [kind |-> stack[1].kind, table |-> t, key |-> stack[1].key]
  <2>1. stack' = [stack EXCEPT ![1] = f] /\ pc' = "array" /\ pos' = pos /\ ret' = ret
    <3> DEFINE g == stack[1]
    <3>1. g = [kind |-> g.kind, table |-> g.table, key |-> g.key]
      BY <1>2 DEF IsFrame
    <3>2. [g EXCEPT !.table = t] = f
      BY <3>1
    <3>3. stack' = [stack EXCEPT ![1] = [g EXCEPT !.table = t]]
      BY <1>4 DEF ReturnItem
    <3>4. QED BY <1>4, <3>2, <3>3 DEF ReturnItem, Go
  <2>2. IsFrame(f)
    BY <1>2, <1>3, InsertedIs DEF IsFrame
  <2> HIDE DEF f
  <2>3. QED BY <1>1, <2>1, <2>2, TopReplaced
<1>5. CASE ReturnValue
  <2> DEFINE t == Assigned(stack[1].table, Top.key, ret)
             f == [kind |-> stack[1].kind, table |-> t, key |-> None]
  <2>1. stack' = [stack EXCEPT ![1] = f] /\ pc' = "object" /\ pos' = pos /\ ret' = ret
    <3> DEFINE g == stack[1]
    <3>1. g = [kind |-> g.kind, table |-> g.table, key |-> g.key]
      BY <1>2 DEF IsFrame
    <3>2. [g EXCEPT !.table = t, !.key = None] = f
      <4> DEFINE h == [kind |-> g.kind, table |-> t, key |-> g.key]
                 n == None
      <4> HIDE DEF t, n
      <4>1. [g EXCEPT !.table = t] = h
        BY <3>1
      <4>2. [h EXCEPT !.key = n] = [kind |-> g.kind, table |-> t, key |-> n]
        OBVIOUS
      <4>3. QED BY <4>1, <4>2 DEF n
    <3>3. stack' = [stack EXCEPT ![1] = [g EXCEPT !.table = t, !.key = None]]
      BY <1>5 DEF ReturnValue
    <3>4. QED BY <1>5, <3>2, <3>3 DEF ReturnValue, Go
  <2>2. Type(Top.key) \in {"string", "number"}
    BY <1>2, <1>5 DEF ReturnValue, IsFrame
  <2>3. IsFrame(f)
    BY <1>2, <1>3, <2>2, AssignedIs DEF IsFrame
  <2> HIDE DEF f
  <2>4. QED BY <1>1, <2>1, <2>3, TopReplaced
<1>6. CASE ReturnKey
  <2> DEFINE p == Skip(pos)
             q == Skip(p + 1)
             f == [kind |-> stack[1].kind, table |-> stack[1].table, key |-> ret]
  <2>1. CASE Raise
    BY <1>1, <2>1, RaiseKeeps
  <2>2. CASE /\ KeyTaken(ret) /\ In(p) /\ s[p] = Colon /\ In(q)
             /\ Go("decode", q) /\ stack' = [stack EXCEPT ![1].key = ret] /\ UNCHANGED ret
    <3>1. stack' = [stack EXCEPT ![1] = f] /\ pc' = "decode" /\ pos' = q /\ ret' = ret
      <4> DEFINE g == stack[1]
      <4>1. g = [kind |-> g.kind, table |-> g.table, key |-> g.key]
        BY <1>2 DEF IsFrame
      <4>2. [g EXCEPT !.key = ret] = f
        BY <4>1
      <4>3. stack' = [stack EXCEPT ![1] = [g EXCEPT !.key = ret]]
        BY <2>2
      <4>4. QED BY <2>2, <4>2, <4>3 DEF Go
    <3>2. IsFrame(f)
      BY <1>2, <1>3, <2>2 DEF IsFrame, KeyTaken
    <3>3. /\ p \in 1..Len(s) /\ Len(stack) \in Int /\ Len(s) \in Nat
          /\ UpTo[p - 1] = At(Len(stack))
      BY <1>1, <2>2, Here DEF JsonInv
    <3> HIDE DEF p
    <3>4. p + 1 \in 1..Len(s) + 1 /\ UpTo[p + 1 - 1] = At(Len(stack))
      BY <2>2, <3>3, TokenPassed, Distinct
    <3>5. q \in p + 1..Len(s) + 1 /\ UpTo[q - 1] = At(Len(stack))
      BY <3>3, <3>4, BlanksSkipped
    <3>6. q \in 1..Len(s) + 1
      BY <3>3, <3>5
    <3> HIDE DEF q, f
    <3>7. QED BY <1>1, <3>1, <3>2, <3>5, <3>6, TopReplaced
  <2>3. QED BY <1>6, <2>1, <2>2 DEF ReturnKey
<1>7. QED BY <1>4, <1>5, <1>6

LEMMA StepKeepsJson == JsonInv /\ [Next]_vars => JsonInv'
<1> SUFFICES ASSUME JsonInv, [Next]_vars PROVE JsonInv'
  OBVIOUS
<1>1. CASE Decode
  BY <1>1, DecodeKeeps
<1>2. CASE Turn("array", "]") \/ Turn("object", "}")
  <2>1. Token("]") \in Ending /\ Token("}") \in Ending
    BY DEF Ending
  <2>2. QED BY <1>2, <2>1, TurnKeeps
<1>3. CASE Finish
  <2>1. /\ stack = <<>> /\ stack' = stack /\ pc = "return" /\ pc' = "done" /\ pos' = pos
        /\ s' = s /\ ret' = ret
    BY <1>3 DEF Finish, Go
  <2>2. QED BY <2>1, Keeps DEF JsonInv, TypeOK
<1>4. CASE ReturnItem \/ ReturnKey \/ ReturnValue
  BY <1>4, ReturnKeeps
<1>5. CASE UNCHANGED vars
  <2>1. s' = s /\ stack' = stack /\ pc' = pc /\ pos' = pos /\ ret' = ret
    BY <1>5 DEF vars
  <2>2. QED BY <2>1, Keeps DEF JsonInv, TypeOK
<1>6. QED BY <1>1, <1>2, <1>3, <1>4, <1>5 DEF Next, Step, Stopped

-----------------------------------------------------------------------------
(* Theorems *)

\* decode builds only tables that Lua can hold, and never looks behind the text
\* (json.lua:119-311).
THEOREM TypeCorrect == Spec => []TypeOK
<1>1. JsonInv => TypeOK
  BY DEF JsonInv
<1>2. QED BY <1>1, InitJson, StepKeepsJson, PTL DEF Spec

\* The tables being scanned are those whose brackets are open before the position,
\* strings apart (json.lua:119-311).
THEOREM Balanced == Spec => []DepthIsNesting
<1>1. JsonInv => DepthIsNesting
  BY DEF JsonInv, DepthIsNesting, At
<1>2. QED BY <1>1, InitJson, StepKeepsJson, PTL DEF Spec

\* When decode returns to its caller, no bracket and no string of the part that it has
\* read is open (json.lua:119-145).
AcceptedIsBalanced == pc = "done" => UpTo[pos - 1] = Outside
THEOREM AcceptedTexts == Spec => []AcceptedIsBalanced
<1>1. JsonInv => AcceptedIsBalanced
  BY EmptySeq DEF JsonInv, AcceptedIsBalanced, At, Outside
<1>2. QED BY <1>1, InitJson, StepKeepsJson, PTL DEF Spec

=============================================================================
