-------------------------- MODULE ConfigStoreProofs ---------------------------
(***************************************************************************)
(* The config store keeps its promise: ConfigStore implements Settings, and*)
(* what is in memory is what the file says, for all titles, slots, values, *)
(* contents of edited files in which nothing comes twice (TidyEdits), and  *)
(* any number of changes, edits and losses of power.                       *)
(***************************************************************************)
EXTENDS ConfigStore, FiniteSetTheorems, TLAPS

-----------------------------------------------------------------------------
(* The greatest and the least of some numbers.                             *)

LEMMA LeastExists ==
    ASSUME NEW S, S \subseteq Nat, S # {}
    PROVE  \E x \in S : \A y \in S : x <= y
<1> DEFINE R == {ss \in Nat \X Nat : ss[1] < ss[2]}
<1>1. IsWellFoundedOn(R, Nat)
  BY NatLessThanWellFounded, Zenon DEF OpToRel
<1>2. PICK x \in S : \A y \in S : <<y, x>> \notin R
  <2> HIDE DEF R
  <2> QED  BY <1>1, WFMin
<1>3. ASSUME NEW y \in S, ~(x <= y)  PROVE FALSE
  <2>1. <<y, x>> \in R
    BY <1>3
  <2> HIDE DEF R
  <2> QED  BY <1>2, <2>1
<1>4. QED
  BY <1>3

LEMMA GreatestExists ==
    ASSUME NEW n \in Nat, NEW S, S \subseteq 0..n, S # {}
    PROVE  \E x \in S : \A y \in S : y <= x
<1> DEFINE D == {n - x : x \in S}
<1>1. D \subseteq Nat /\ D # {}
  <2>1. \A x \in S : n - x \in Nat
    OBVIOUS
  <2>2. QED
    BY <2>1
<1>2. PICK d \in D : \A e \in D : d <= e
  <2> HIDE DEF D
  <2> QED  BY <1>1, LeastExists
<1>3. PICK x \in S : d = n - x
  OBVIOUS
<1>4. ASSUME NEW y \in S  PROVE y <= x
  BY <1>2, <1>3
<1>5. QED
  BY <1>4

-----------------------------------------------------------------------------
(* A file as pieces that begin with the head of a section (minIni).        *)

HeadFirst(b) == b # <<>> => b[1].kind = "section"

LEMMA CatFacts ==
    ASSUME NEW a \in Seq(Line), NEW b \in Seq(Line)
    PROVE  /\ a \o b \in Seq(Line)
           /\ Len(a) \in Nat /\ Len(b) \in Nat /\ Len(a \o b) = Len(a) + Len(b)
           /\ DOMAIN a = 1..Len(a) /\ DOMAIN b = 1..Len(b)
           /\ DOMAIN (a \o b) = 1..(Len(a) + Len(b))
           /\ \A i \in 1..Len(a) : (a \o b)[i] = a[i]
           /\ \A i \in 1..Len(b) : (a \o b)[Len(a) + i] = b[i]
OBVIOUS

\* What is appended does not move the lines before it to another section.
LEMMA LiesLeft ==
    ASSUME NEW a \in Seq(Line), NEW b \in Seq(Line), NEW s, NEW i \in 1..Len(a)
    PROVE  LiesIn(a \o b, i, s) <=> LiesIn(a, i, s)
<1> DEFINE c == a \o b
<1>1. \A j \in 1..i : c[j] = a[j]
  BY CatFacts
<1> HIDE DEF c
<1>2. \A j \in 1..i : \A k \in (j + 1)..i : c[k] = a[k]
  BY <1>1
<1>3. LiesIn(c, i, s) <=> LiesIn(a, i, s)
  BY <1>1, <1>2 DEF LiesIn
<1>4. QED
  BY <1>3 DEF c

\* A piece that begins with a head does not depend on what is before it.
LEMMA LiesRight ==
    ASSUME NEW a \in Seq(Line), NEW b \in Seq(Line), HeadFirst(b), NEW s,
           NEW i \in 1..Len(b)
    PROVE  LiesIn(a \o b, Len(a) + i, s) <=> LiesIn(b, i, s)
<1> DEFINE c == a \o b
<1>1. /\ Len(a) \in Nat /\ Len(b) \in Nat
      /\ \A j \in 1..Len(b) : c[Len(a) + j] = b[j]
  BY CatFacts
<1> HIDE DEF c
<1>2. b[1].kind = "section" /\ 1 \in 1..Len(b)
  BY <1>1 DEF HeadFirst
<1>3. ASSUME LiesIn(c, Len(a) + i, s)  PROVE LiesIn(b, i, s)
  <2>1. PICK j \in 1..(Len(a) + i) :
            /\ c[j] = SectionLine(s)
            /\ \A k \in (j + 1)..(Len(a) + i) : c[k].kind # "section"
    BY <1>3 DEF LiesIn
  <2>2. j > Len(a)
    <3> SUFFICES ASSUME j <= Len(a) PROVE FALSE
      BY <1>1
    <3>1. Len(a) + 1 \in (j + 1)..(Len(a) + i)
      BY <1>1
    <3>2. c[Len(a) + 1].kind = "section"
      BY <1>1, <1>2
    <3>3. QED
      BY <2>1, <3>1, <3>2
  <2> DEFINE m == j - Len(a)
  <2>3. m \in 1..i /\ m \in 1..Len(b) /\ j = Len(a) + m
    BY <1>1, <2>2
  <2>4. b[m] = SectionLine(s)
    BY <1>1, <2>1, <2>3
  <2>5. ASSUME NEW k \in (m + 1)..i  PROVE b[k].kind # "section"
    <3>1. Len(a) + k \in (j + 1)..(Len(a) + i) /\ k \in 1..Len(b)
      BY <1>1, <2>3
    <3>2. QED
      BY <1>1, <2>1, <3>1
  <2>6. QED
    BY <2>3, <2>4, <2>5 DEF LiesIn
<1>4. ASSUME LiesIn(b, i, s)  PROVE LiesIn(c, Len(a) + i, s)
  <2>1. PICK m \in 1..i : /\ b[m] = SectionLine(s)
                          /\ \A k \in (m + 1)..i : b[k].kind # "section"
    BY <1>4 DEF LiesIn
  <2>2. Len(a) + m \in 1..(Len(a) + i) /\ c[Len(a) + m] = SectionLine(s)
    BY <1>1, <2>1
  <2>3. ASSUME NEW k \in (Len(a) + m + 1)..(Len(a) + i)
        PROVE  c[k].kind # "section"
    <3>1. k - Len(a) \in (m + 1)..i /\ k - Len(a) \in 1..Len(b)
      BY <1>1
    <3>2. c[k] = b[k - Len(a)]
      BY <1>1, <3>1
    <3>3. QED
      BY <2>1, <3>1, <3>2
  <2>4. QED
    BY <2>2, <2>3 DEF LiesIn
<1>5. QED
  BY <1>3, <1>4 DEF c

LEMMA CallbacksCat ==
    ASSUME NEW a \in Seq(Line), NEW b \in Seq(Line), HeadFirst(b), NEW s, NEW k
    PROVE  /\ Callbacks(a, s, k) \subseteq 1..Len(a)
           /\ Callbacks(b, s, k) \subseteq 1..Len(b)
           /\ Callbacks(a \o b, s, k) \subseteq 1..(Len(a) + Len(b))
           /\ \A i \in 1..Len(a) : i \in Callbacks(a \o b, s, k) <=> i \in Callbacks(a, s, k)
           /\ \A i \in 1..Len(b) :
                 Len(a) + i \in Callbacks(a \o b, s, k) <=> i \in Callbacks(b, s, k)
<1>1. \A i \in 1..Len(a) : i \in Callbacks(a \o b, s, k) <=> i \in Callbacks(a, s, k)
  BY CatFacts, LiesLeft DEF Callbacks
<1>2. ASSUME NEW i \in 1..Len(b)
      PROVE  Len(a) + i \in Callbacks(a \o b, s, k) <=> i \in Callbacks(b, s, k)
  BY CatFacts, LiesRight DEF Callbacks
<1>3. QED
  BY <1>1, <1>2, CatFacts DEF Callbacks

-----------------------------------------------------------------------------
(* The value that stands for a key (BrowseIniFunc).                        *)

Taken(lines, s, k, skip) ==
    {i \in Callbacks(lines, s, k) : lines[i].value \notin skip}

LEMMA StandingNone ==
    ASSUME NEW lines, NEW s, NEW k, NEW skip, NEW d, Taken(lines, s, k, skip) = {}
    PROVE  Standing(lines, s, k, skip, d) = d
BY DEF Standing, Taken

LEMMA StandingLast ==
    ASSUME NEW lines \in Seq(Line), NEW s, NEW k, NEW skip, NEW d,
           NEW x \in Taken(lines, s, k, skip),
           \A y \in Taken(lines, s, k, skip) : y <= x
    PROVE  Standing(lines, s, k, skip, d) = lines[x].value
<1> DEFINE T == Taken(lines, s, k, skip)
<1>1. T \subseteq Nat
  BY DEF Taken, Callbacks
<1>2. Standing(lines, s, k, skip, d) = lines[CHOOSE i \in T : \A j \in T : j <= i].value
  BY DEF Standing, Taken
<1> HIDE DEF T
<1>3. (CHOOSE i \in T : \A j \in T : j <= i) = x
  <2> DEFINE y == CHOOSE i \in T : \A j \in T : j <= i
  <2>1. x \in T /\ \A j \in T : j <= x
    BY DEF T
  <2>2. y \in T /\ \A j \in T : j <= y
    BY <2>1
  <2> HIDE DEF y
  <2>3. y = x
    BY <1>1, <2>1, <2>2
  <2>4. QED
    BY <2>3 DEF y
<1>4. QED
  BY <1>2, <1>3

\* Some line decides, or none and the default stands.
LEMMA StandingCases ==
    ASSUME NEW lines \in Seq(Line), NEW s, NEW k, NEW skip, NEW d
    PROVE  \/ /\ Taken(lines, s, k, skip) = {}
              /\ Standing(lines, s, k, skip, d) = d
           \/ \E x \in Taken(lines, s, k, skip) :
                 /\ \A y \in Taken(lines, s, k, skip) : y <= x
                 /\ Standing(lines, s, k, skip, d) = lines[x].value
<1> DEFINE T == Taken(lines, s, k, skip)
<1>1. CASE T = {}
  BY <1>1, StandingNone
<1>2. CASE T # {}
  <2>1. Len(lines) \in Nat /\ T \subseteq 0..Len(lines)
    BY DEF Taken, Callbacks
  <2> HIDE DEF T
  <2>2. PICK x \in T : \A y \in T : y <= x
    BY <1>2, <2>1, GreatestExists
  <2>3. Standing(lines, s, k, skip, d) = lines[x].value
    BY <2>2, StandingLast DEF T
  <2>4. QED
    BY <2>2, <2>3 DEF T
<1>3. QED
  BY <1>1, <1>2

\* What stands after two pieces: the second decides, and where it says nothing,
\* the first.
LEMMA StandingCat ==
    ASSUME NEW a \in Seq(Line), NEW b \in Seq(Line), HeadFirst(b),
           NEW s, NEW k, NEW skip, NEW d
    PROVE  Standing(a \o b, s, k, skip, d)
             = Standing(b, s, k, skip, Standing(a, s, k, skip, d))
<1> DEFINE c == a \o b
           TA == Taken(a, s, k, skip)
           TB == Taken(b, s, k, skip)
           TC == Taken(c, s, k, skip)
<1>1. /\ c \in Seq(Line) /\ Len(a) \in Nat /\ Len(b) \in Nat
      /\ \A i \in 1..Len(a) : c[i] = a[i]
      /\ \A i \in 1..Len(b) : c[Len(a) + i] = b[i]
  BY CatFacts
<1>2. /\ TA \subseteq 1..Len(a) /\ TB \subseteq 1..Len(b)
      /\ TC \subseteq 1..(Len(a) + Len(b))
      /\ \A i \in 1..Len(a) : i \in TC <=> i \in TA
      /\ \A i \in 1..Len(b) : Len(a) + i \in TC <=> i \in TB
  BY <1>1, CallbacksCat DEF Taken
<1>3. CASE TB # {}
  <2>1. PICK x \in TB : /\ \A y \in TB : y <= x
                        /\ \A e : Standing(b, s, k, skip, e) = b[x].value
    <3>1. PICK x \in TB : \A y \in TB : y <= x
      <4> HIDE DEF TB
      <4>1. TB \subseteq 0..Len(b)
        BY <1>1, <1>2
      <4>2. QED
        BY <1>1, <1>3, <4>1, GreatestExists
    <3>2. \A e : Standing(b, s, k, skip, e) = b[x].value
      BY <3>1, StandingLast
    <3>3. QED
      BY <3>1, <3>2
  <2>2. Len(a) + x \in TC
    BY <1>2, <2>1
  <2>3. ASSUME NEW y \in TC  PROVE y <= Len(a) + x
    <3> HIDE DEF TA, TB, TC
    <3>1. CASE y <= Len(a)
      BY <1>1, <1>2, <2>1, <3>1
    <3>2. CASE y > Len(a)
      <4>1. y - Len(a) \in 1..Len(b) /\ y = Len(a) + (y - Len(a))
        BY <1>1, <1>2, <3>2
      <4>2. y - Len(a) \in TB
        BY <1>2, <4>1
      <4>3. y - Len(a) <= x
        BY <2>1, <4>2
      <4>4. QED
        BY <1>1, <1>2, <2>1, <4>1, <4>3
    <3>3. QED
      BY <1>1, <1>2, <3>1, <3>2
  <2>4. Standing(c, s, k, skip, d) = c[Len(a) + x].value
    <3> HIDE DEF c
    <3> QED  BY <1>1, <2>2, <2>3, StandingLast
  <2>5. QED
    BY <1>1, <1>2, <2>1, <2>4
<1>4. CASE TB = {}
  <2>1. \A e : Standing(b, s, k, skip, e) = e
    BY <1>4, StandingNone
  <2>2. TC = TA
    <3> HIDE DEF TA, TB, TC
    <3>1. ASSUME NEW y \in TC  PROVE y \in 1..Len(a)
      <4> SUFFICES ASSUME y > Len(a) PROVE FALSE
        BY <1>1, <1>2
      <4>1. y - Len(a) \in 1..Len(b) /\ y = Len(a) + (y - Len(a))
        BY <1>1, <1>2
      <4>2. QED
        BY <1>2, <1>4, <4>1
    <3>2. QED
      BY <1>2, <3>1
  <2>3. Standing(c, s, k, skip, d) = Standing(a, s, k, skip, d)
    <3>1. CASE TA = {}
      BY <2>2, <3>1, StandingNone
    <3>2. CASE TA # {}
      <4>1. PICK x \in TA : \A y \in TA : y <= x
        <5> HIDE DEF TA
        <5>1. TA \subseteq 0..Len(a)
          BY <1>1, <1>2
        <5>2. QED
          BY <1>1, <3>2, <5>1, GreatestExists
      <4>2. Standing(a, s, k, skip, d) = a[x].value
        BY <4>1, StandingLast
      <4>3. Standing(c, s, k, skip, d) = c[x].value
        <5>1. x \in TC /\ \A y \in TC : y <= x
          BY <2>2, <4>1
        <5> HIDE DEF c
        <5>2. QED
          BY <1>1, <5>1, StandingLast
      <4>4. QED
        BY <1>1, <1>2, <4>2, <4>3
    <3>3. QED
      BY <3>1, <3>2
  <2>4. QED
    BY <2>1, <2>3
<1>5. QED
  BY <1>3, <1>4

\* A piece without a head of the section says nothing about its keys.
Foreign(lines, s) == \A i \in DOMAIN lines : lines[i] # SectionLine(s)

LEMMA ForeignSilent ==
    ASSUME NEW lines \in Seq(Line), NEW s, Foreign(lines, s)
    PROVE  /\ \A k : Callbacks(lines, s, k) = {}
           /\ \A k, skip, d : Standing(lines, s, k, skip, d) = d
<1>1. \A k : Callbacks(lines, s, k) = {}
  BY DEF Callbacks, LiesIn, Foreign
<1>2. ASSUME NEW k, NEW skip, NEW d  PROVE Standing(lines, s, k, skip, d) = d
  BY <1>1, StandingNone DEF Taken
<1>3. QED
  BY <1>1, <1>2

-----------------------------------------------------------------------------
(* The arrays handed to ini_putsection.                                    *)

\* InOrder lists every element of its set exactly once.
LEMMA InOrderFacts ==
    ASSUME NEW n \in Nat, NEW S, S \subseteq 1..n
    PROVE  /\ Cardinality(S) \in Nat
           /\ DOMAIN InOrder(S) = 1..Cardinality(S)
           /\ \A m \in 1..Cardinality(S) : InOrder(S)[m] \in S
           /\ \A l, m \in 1..Cardinality(S) : InOrder(S)[l] = InOrder(S)[m] => l = m
           /\ \A i \in S : \E m \in 1..Cardinality(S) : InOrder(S)[m] = i
<1> DEFINE Below(i) == {j \in S : j <= i}
           r == [i \in S |-> Cardinality(Below(i))]
           N == Cardinality(S)
<1>1. IsFiniteSet(S) /\ N \in Nat
  <2>1. IsFiniteSet(1..n)
    BY FS_Interval
  <2>2. IsFiniteSet(S)
    BY <2>1, FS_Subset
  <2>3. QED
    BY <2>2, FS_CardinalityType
<1>2. \A i \in S : IsFiniteSet(Below(i)) /\ Cardinality(Below(i)) \in 1..N
  <2> TAKE i \in S
  <2>1. Below(i) \in SUBSET S /\ i \in Below(i)
    OBVIOUS
  <2> HIDE DEF Below
  <2>2. IsFiniteSet(Below(i)) /\ Cardinality(Below(i)) <= N
    BY <1>1, <2>1, FS_Subset
  <2>3. Cardinality(Below(i)) \in Nat /\ Cardinality(Below(i)) # 0
    BY <2>1, <2>2, FS_CardinalityType, FS_EmptySet
  <2>4. QED
    BY <1>1, <2>2, <2>3
<1>3. \A i, j \in S : i < j => Cardinality(Below(i)) < Cardinality(Below(j))
  <2> SUFFICES ASSUME NEW i \in S, NEW j \in S, i < j
               PROVE  Cardinality(Below(i)) < Cardinality(Below(j))
    OBVIOUS
  <2>1. Below(i) \in SUBSET Below(j) /\ j \in Below(j) /\ j \notin Below(i)
    <3>1. \A x \in S : x \in Int /\ (x <= i => x <= j)
      OBVIOUS
    <3>2. i \in Int /\ j \in Int /\ ~(j <= i) /\ j <= j
      OBVIOUS
    <3>3. \A x \in Below(i) : x \in Below(j)
      BY <3>1
    <3>4. j \in Below(j) /\ j \notin Below(i)
      BY <3>2
    <3> HIDE DEF Below
    <3>5. QED
      BY <3>3, <3>4
  <2>2. /\ IsFiniteSet(Below(j)) /\ Cardinality(Below(i)) \in 1..N
        /\ Cardinality(Below(j)) \in 1..N
    BY <1>2
  <2> HIDE DEF Below
  <2>3. /\ Cardinality(Below(i)) <= Cardinality(Below(j))
        /\ Cardinality(Below(i)) # Cardinality(Below(j))
    BY <2>1, <2>2, FS_Subset
  <2>4. QED
    BY <1>1, <2>2, <2>3
<1>4. \A i, j \in S : r[i] = r[j] => i = j
  <2> SUFFICES ASSUME NEW i \in S, NEW j \in S, r[i] = r[j]  PROVE i = j
    OBVIOUS
  <2>1. Cardinality(Below(i)) = Cardinality(Below(j))
    OBVIOUS
  <2>2. Cardinality(Below(i)) \in Nat
    BY <1>1, <1>2
  <2> HIDE DEF Below, r
  <2>3. ~(i < j) /\ ~(j < i)
    BY <1>3, <2>1, <2>2
  <2>4. QED
    BY <2>3
<1>5. r \in Injection(S, 1..N)
  <2>1. r \in [S -> 1..N]
    BY <1>2
  <2> HIDE DEF r
  <2>2. QED
    BY <1>4, <2>1 DEF Injection, IsInjective
<1>6. \A m \in 1..N : \E i \in S : r[i] = m
  <2>1. IsFiniteSet(1..N) /\ Cardinality(1..N) = N
    BY <1>1, FS_Interval
  <2> HIDE DEF r
  <2>2. r \in Surjection(S, 1..N)
    BY <1>1, <1>5, <2>1, FS_Injection
  <2>3. QED
    BY <2>2 DEF Surjection
<1> DEFINE o == InOrder(S)
<1>7. o = [m \in 1..N |-> CHOOSE i \in S : Cardinality(Below(i)) = m]
  BY DEF InOrder
<1>8. \A i \in S : r[i] = Cardinality(Below(i))
  OBVIOUS
<1>9. \A m \in 1..N : o[m] \in S /\ r[o[m]] = m
  <2> HIDE DEF r, Below
  <2> TAKE m \in 1..N
  <2>1. o[m] = CHOOSE i \in S : Cardinality(Below(i)) = m
    BY <1>7
  <2>2. \E i \in S : Cardinality(Below(i)) = m
    BY <1>6, <1>8
  <2>3. QED
    BY <1>8, <2>1, <2>2
<1>10. \A i \in S : r[i] \in 1..N /\ o[r[i]] = i
  <2>1. \A i \in S : r[i] \in 1..N
    BY <1>2
  <2> HIDE DEF r, o
  <2>2. QED
    BY <1>4, <1>9, <2>1
<1>11. \A l, m \in 1..N : o[l] = o[m] => l = m
  <2> HIDE DEF r, o
  <2> QED  BY <1>9
<1>12. DOMAIN o = 1..N
  BY <1>7
<1> HIDE DEF r, o
<1>13. QED
  BY <1>1, <1>9, <1>10, <1>11, <1>12 DEF o

\* The array has one entry for every name that is written, and no other.
LEMMA KeyLinesFacts ==
    ASSUME NEW names, IsEnum(names), NEW value,
           NEW written, \A k \in written : value[k] \in Nat
    PROVE  LET keys == KeyLines(names, written, value)
               Names == {names[i] : i \in DOMAIN names}
           IN  /\ keys \in Seq(Line)
               /\ \A n \in 1..Len(keys) :
                     /\ keys[n].name \in Names \cap written
                     /\ keys[n] = ValueLine(keys[n].name, value[keys[n].name])
               /\ \A l, n \in 1..Len(keys) : keys[l].name = keys[n].name => l = n
               /\ \A k \in Names \cap written : \E n \in 1..Len(keys) : keys[n].name = k
<1> DEFINE S == {i \in DOMAIN names : names[i] \in written}
           o == InOrder(S)
           N == Cardinality(S)
           keys == KeyLines(names, written, value)
<1>1. Len(names) \in Nat /\ DOMAIN names = 1..Len(names)
      /\ \A i \in DOMAIN names : names[i] \in STRING
  BY DEF IsEnum
<1>2. S \subseteq 1..Len(names)
  BY <1>1
<1>3. /\ N \in Nat /\ DOMAIN o = 1..N
      /\ \A m \in 1..N : o[m] \in S
      /\ \A l, m \in 1..N : o[l] = o[m] => l = m
      /\ \A i \in S : \E m \in 1..N : o[m] = i
  <2> HIDE DEF S
  <2> QED  BY <1>1, <1>2, InOrderFacts
<1>4. keys = [n \in 1..N |-> ValueLine(names[o[n]], value[names[o[n]]])]
  BY <1>3 DEF KeyLines
<1>5. \A n \in 1..N : names[o[n]] \in STRING \cap written /\ o[n] \in DOMAIN names
  BY <1>1, <1>3
<1> HIDE DEF o, N
<1>6. \A n \in 1..N : /\ keys[n] \in Line /\ keys[n].name = names[o[n]]
                      /\ keys[n].value = value[names[o[n]]]
  BY <1>4, <1>5 DEF ValueLine, Line
<1>7. keys \in Seq(Line) /\ Len(keys) = N
  BY <1>3, <1>4, <1>6
<1>8. \A l, n \in 1..N : keys[l].name = keys[n].name => l = n
  BY <1>3, <1>5, <1>6 DEF IsEnum
<1>9. ASSUME NEW k \in {names[i] : i \in DOMAIN names} \cap written
      PROVE  \E n \in 1..N : keys[n].name = k
  <2>1. PICK i \in DOMAIN names : k = names[i]
    OBVIOUS
  <2>2. i \in S
    BY <2>1
  <2>3. PICK n \in 1..N : o[n] = i
    BY <1>3, <2>2
  <2>4. QED
    BY <1>6, <2>1, <2>3
<1>10. \A n \in 1..N : /\ keys[n].name \in {names[i] : i \in DOMAIN names} \cap written
                       /\ keys[n] = ValueLine(keys[n].name, value[keys[n].name])
  BY <1>4, <1>5, <1>6
<1> HIDE DEF keys
<1>11. QED
  BY <1>7, <1>8, <1>9, <1>10 DEF keys

-----------------------------------------------------------------------------
(* A section, and what of it has reached a file that is written new.       *)

AreKeys(keys) ==
    /\ keys \in Seq(Line)
    /\ \A n \in 1..Len(keys) : keys[n].kind = "key"
    /\ \A l, n \in 1..Len(keys) : keys[l].name = keys[n].name => l = n

\* T is the section of part with these keys, or the beginning of it.
Piece(T, part, keys) ==
    /\ part \in STRING /\ AreKeys(keys) /\ T \in Seq(Line)
    /\ Len(T) <= Len(keys) + 1
    /\ Len(T) > 0 => T[1] = SectionLine(part)
    /\ \A i \in 2..Len(T) : i - 1 \in 1..Len(keys) /\ T[i] = keys[i - 1]

LEMMA SingleInSeq ==
    ASSUME NEW L, NEW x \in L
    PROVE  <<x>> \in Seq(L)
OBVIOUS

LEMMA SectionLines ==
    ASSUME NEW part \in STRING, NEW keys, AreKeys(keys)
    PROVE  /\ Piece(Section(part, keys), part, keys)
           /\ keys # <<>> => Len(Section(part, keys)) = Len(keys) + 1
<1>1. keys \in Seq(Line) /\ Len(keys) \in Nat /\ SectionLine(part) \in Line
  BY DEF AreKeys, SectionLine, Line
<1>2. CASE keys = <<>>
  <2> DEFINE S == <<>>
  <2>1. Section(part, keys) = S
    BY <1>2 DEF Section
  <2>2. S \in Seq(Line) /\ Len(S) = 0
    OBVIOUS
  <2> HIDE DEF S
  <2>3. Piece(S, part, keys)
    <3>1. Len(S) <= Len(keys) + 1 /\ ~(Len(S) > 0) /\ \A i \in 2..Len(S) : FALSE
      BY <1>1, <2>2
    <3>2. QED
      BY <2>2, <3>1, Zenon DEF Piece
  <2>4. QED
    BY <1>2, <2>1, <2>3
<1>3. CASE keys # <<>>
  <2> DEFINE a == <<SectionLine(part)>>
             S == a \o keys
  <2>1. Section(part, keys) = S
    BY <1>3 DEF Section
  <2>2. Len(a) = 1 /\ a[1] = SectionLine(part)
    OBVIOUS
  <2>3. a \in Seq(Line)
    BY <1>1, SingleInSeq
  <2> HIDE DEF a
  <2>4. /\ S \in Seq(Line) /\ Len(S) = Len(a) + Len(keys)
        /\ \A j \in 1..Len(a) : S[j] = a[j]
        /\ \A j \in 1..Len(keys) : S[Len(a) + j] = keys[j]
    BY <1>1, <2>3, CatFacts
  <2> HIDE DEF S
  <2>5. \A i \in 2..Len(S) : i - 1 \in 1..Len(keys) /\ S[i] = keys[i - 1]
    <3>1. \A i \in 2..Len(S) : i - 1 \in 1..Len(keys) /\ Len(a) + (i - 1) = i
      BY <1>1, <2>2, <2>4
    <3>2. QED
      BY <2>4, <3>1
  <2>6. S[1] = SectionLine(part) /\ Len(S) = Len(keys) + 1
    <3>1. 1 \in 1..Len(a)
      BY <2>2
    <3>2. S[1] = a[1]
      BY <2>4, <3>1
    <3>3. Len(S) = Len(keys) + 1
      BY <1>1, <2>2, <2>4
    <3>4. QED
      BY <2>2, <3>2, <3>3
  <2>7. Piece(S, part, keys)
    <3>1. Len(S) <= Len(keys) + 1
      BY <1>1, <2>6
    <3>2. QED
      BY <2>4, <2>5, <2>6, <3>1, Zenon DEF Piece
  <2>8. QED
    BY <2>1, <2>6, <2>7
<1>4. QED
  BY <1>2, <1>3

LEMMA PiecePrefix ==
    ASSUME NEW S, NEW part, NEW keys, Piece(S, part, keys), NEW n \in 0..Len(S)
    PROVE  Piece(SubSeq(S, 1, n), part, keys)
<1> DEFINE T == SubSeq(S, 1, n)
<1>1. S \in Seq(Line) /\ Len(S) \in Nat /\ Len(keys) \in Nat
  BY DEF Piece, AreKeys
<1>2. T \in Seq(Line) /\ Len(T) = n /\ \A i \in 1..n : T[i] = S[i]
  <2> HIDE DEF Line
  <2> QED  BY <1>1
<1> HIDE DEF T
<1>3. n <= Len(keys) + 1
  BY <1>1 DEF Piece
<1>4. n > 0 => T[1] = SectionLine(part)
  <2>1. n > 0 => 1 \in 1..n /\ Len(S) > 0
    BY <1>1
  <2>2. QED
    BY <1>2, <2>1 DEF Piece
<1>5. \A i \in 2..n : i \in 1..n /\ i \in 2..Len(S)
  BY <1>1
<1>6. \A i \in 2..n : i - 1 \in 1..Len(keys) /\ T[i] = keys[i - 1]
  BY <1>2, <1>5 DEF Piece
<1>7. Piece(T, part, keys)
  BY <1>2, <1>3, <1>4, <1>6 DEF Piece
<1>8. QED
  BY <1>7 DEF T

LEMMA SectionCallbacks ==
    ASSUME NEW T, NEW part, NEW keys, Piece(T, part, keys)
    PROVE  /\ HeadFirst(T)
           /\ \A i \in 1..Len(T) : T[i].kind = "section" => i = 1
           /\ \A k : Callbacks(T, part, k) = {i \in 2..Len(T) : T[i].name = k}
           /\ \A s : s # part => Foreign(T, s)
<1> DEFINE n == Len(T)
<1>0. n \in Nat /\ DOMAIN T = 1..n
  BY DEF Piece
<1>1. /\ n \in Nat /\ T \in Seq(Line) /\ DOMAIN T = 1..n
      /\ n > 0 => T[1] = SectionLine(part)
      /\ \A i \in 2..n : i - 1 \in 1..Len(keys) /\ T[i] = keys[i - 1]
  BY <1>0 DEF Piece
<1> HIDE DEF n
<1>2. HeadFirst(T)
  BY <1>1 DEF HeadFirst, SectionLine
<1>3. \A i \in 2..n : T[i].kind = "key"
  BY <1>1 DEF AreKeys, Piece
<1>4. \A i \in 1..n : T[i].kind = "section" => i = 1
  BY <1>1, <1>3
<1>5. ASSUME NEW s, s # part  PROVE Foreign(T, s)
  <2> SUFFICES ASSUME NEW i \in 1..n, T[i] = SectionLine(s)  PROVE FALSE
    BY <1>1 DEF Foreign
  <2>1. i = 1 /\ n > 0
    BY <1>1, <1>4 DEF SectionLine
  <2>2. SectionLine(s) = SectionLine(part)
    BY <1>1, <2>1
  <2>3. SectionLine(s).name = s /\ SectionLine(part).name = part
    BY DEF SectionLine
  <2>4. QED
    BY <1>5, <2>2, <2>3
<1>6. ASSUME NEW k  PROVE Callbacks(T, part, k) = {i \in 2..n : T[i].name = k}
  <2>1. ASSUME NEW i \in 2..n  PROVE LiesIn(T, i, part)
    <3>1. 1 \in 1..i /\ n > 0
      BY <1>1
    <3>2. \A j \in (1 + 1)..i : j \in 2..n
      BY <1>1
    <3>3. QED
      BY <1>1, <1>3, <3>1, <3>2 DEF LiesIn
  <2>2. n > 0 => T[1].kind # "key"
    BY <1>1 DEF SectionLine
  <2>3. \A i \in 1..n : i = 1 \/ i \in 2..n
    BY <1>1
  <2>4. \A i \in 2..n : i \in 1..n
    BY <1>1
  <2>5. \A i : i \in Callbacks(T, part, k) <=> i \in 2..n /\ T[i].name = k
    BY <1>1, <1>3, <2>1, <2>2, <2>3, <2>4 DEF Callbacks
  <2>6. QED
    BY <2>5
<1>7. QED
  BY <1>2, <1>4, <1>5, <1>6 DEF n

\* A key that has reached the file stands with its value, and no other does.
LEMMA SectionStanding ==
    ASSUME NEW T, NEW part, NEW keys, Piece(T, part, keys), NEW k, NEW skip, NEW d
    PROVE  /\ \A m \in 1..Len(keys) :
                 m < Len(T) /\ keys[m].name = k /\ keys[m].value \notin skip
                   => Standing(T, part, k, skip, d) = keys[m].value
           /\ (\A m \in 1..Len(keys) :
                  ~(m < Len(T) /\ keys[m].name = k /\ keys[m].value \notin skip))
                => Standing(T, part, k, skip, d) = d
<1> DEFINE C == Taken(T, part, k, skip)
           n == Len(T)
<1>1. /\ n \in Nat /\ T \in Seq(Line) /\ Len(keys) \in Nat
      /\ \A i \in 2..n : i - 1 \in 1..Len(keys) /\ T[i] = keys[i - 1]
      /\ n <= Len(keys) + 1
      /\ \A l, m \in 1..Len(keys) : keys[l].name = keys[m].name => l = m
  BY DEF Piece, AreKeys
<1>2. C = {i \in 2..n : T[i].name = k /\ T[i].value \notin skip}
  BY SectionCallbacks DEF Taken
<1> HIDE DEF n, C
<1>3. ASSUME NEW m \in 1..Len(keys), m < n, keys[m].name = k, keys[m].value \notin skip
      PROVE  Standing(T, part, k, skip, d) = keys[m].value
  <2>1. m + 1 \in 2..n /\ T[m + 1] = keys[m]
    <3>1. m + 1 \in 2..n /\ (m + 1) - 1 = m
      BY <1>1, <1>3
    <3>2. QED
      BY <1>1, <3>1
  <2>2. m + 1 \in C
    BY <1>2, <1>3, <2>1
  <2>3. ASSUME NEW i \in C  PROVE i <= m + 1
    <3>1. i \in 2..n /\ T[i].name = k
      BY <1>2
    <3>2. i - 1 \in 1..Len(keys) /\ keys[i - 1].name = k
      BY <1>1, <3>1
    <3>3. i - 1 = m
      BY <1>1, <1>3, <3>2
    <3>4. QED
      BY <1>1, <3>1, <3>3
  <2>4. QED
    BY <1>1, <2>1, <2>2, <2>3, StandingLast DEF C
<1>4. ASSUME \A m \in 1..Len(keys) :
                ~(m < n /\ keys[m].name = k /\ keys[m].value \notin skip)
      PROVE  Standing(T, part, k, skip, d) = d
  <2>1. C = {}
    <3> SUFFICES ASSUME NEW i \in C PROVE FALSE
      OBVIOUS
    <3>1. i \in 2..n /\ T[i].name = k /\ T[i].value \notin skip
      BY <1>2
    <3>2. i - 1 \in 1..Len(keys) /\ i - 1 < n /\ T[i] = keys[i - 1]
      BY <1>1, <3>1
    <3>3. QED
      BY <1>4, <3>1, <3>2
  <2>2. QED
    BY <2>1, StandingNone DEF C
<1>5. QED
  BY <1>3, <1>4 DEF n

-----------------------------------------------------------------------------
(* ini_putsection: what is before the section, the section, what follows.  *)

LEMMA FirstHeadFacts ==
    ASSUME NEW lines \in Seq(Line), NEW s
    PROVE  \/ FirstHead(lines, s) = 0 /\ Foreign(lines, s)
           \/ /\ FirstHead(lines, s) \in 1..Len(lines)
              /\ lines[FirstHead(lines, s)] = SectionLine(s)
<1> DEFINE heads == {j \in DOMAIN lines : lines[j] = SectionLine(s)}
<1>1. heads \subseteq Nat /\ heads \subseteq 1..Len(lines)
  OBVIOUS
<1>2. CASE heads = {}
  BY <1>2 DEF FirstHead, Foreign
<1>3. CASE heads # {}
  <2>1. FirstHead(lines, s) = CHOOSE j \in heads : \A k \in heads : j <= k
    BY <1>3 DEF FirstHead
  <2>2. \E j \in heads : \A k \in heads : j <= k
    <3> HIDE DEF heads
    <3> QED  BY <1>1, <1>3, LeastExists
  <2>3. FirstHead(lines, s) \in heads
    BY <2>1, <2>2
  <2>4. QED
    BY <1>1, <2>3
<1>4. QED
  BY <1>2, <1>3

LEMMA NextHeadFacts ==
    ASSUME NEW lines \in Seq(Line), NEW i \in 1..(Len(lines) + 1)
    PROVE  LET e == NextHead(lines, i)
           IN  /\ e \in i..(Len(lines) + 1)
               /\ e <= Len(lines) => lines[e].kind = "section"
               /\ \A j \in i..(e - 1) : lines[j].kind # "section"
<1> DEFINE heads == {j \in i..Len(lines) : lines[j].kind = "section"}
           e == NextHead(lines, i)
<1>1. Len(lines) \in Nat /\ heads \subseteq Nat
  OBVIOUS
<1>2. CASE heads = {}
  <2>1. e = Len(lines) + 1
    BY <1>2 DEF NextHead
  <2> HIDE DEF e
  <2>2. \A j \in i..(e - 1) : j \in i..Len(lines)
    BY <1>1, <2>1
  <2>3. e \in i..(Len(lines) + 1) /\ ~(e <= Len(lines))
    BY <1>1, <2>1
  <2>4. QED
    BY <1>2, <2>2, <2>3 DEF e
<1>3. CASE heads # {}
  <2>1. e = CHOOSE j \in heads : \A k \in heads : j <= k
    BY <1>3 DEF NextHead
  <2>2. \E j \in heads : \A k \in heads : j <= k
    <3> HIDE DEF heads
    <3> QED  BY <1>1, <1>3, LeastExists
  <2>3. e \in heads /\ \A k \in heads : e <= k
    BY <2>1, <2>2
  <2> HIDE DEF e
  <2>4. e \in i..(Len(lines) + 1) /\ lines[e].kind = "section"
    BY <1>1, <2>3
  <2>5. ASSUME NEW j \in i..(e - 1)  PROVE lines[j].kind # "section"
    <3>1. j \in i..Len(lines) /\ ~(e <= j)
      BY <1>1, <2>3
    <3>2. QED
      BY <2>3, <3>1
  <2>6. QED
    BY <2>4, <2>5 DEF e
<1>4. QED
  BY <1>2, <1>3

LEMMA SubSeqFacts ==
    ASSUME NEW s \in Seq(Line), NEW m \in 1..(Len(s) + 1), NEW n \in (m - 1)..Len(s)
    PROVE  /\ SubSeq(s, m, n) \in Seq(Line)
           /\ Len(SubSeq(s, m, n)) = n - m + 1
           /\ \A j \in 1..(n - m + 1) : SubSeq(s, m, n)[j] = s[m + j - 1]
OBVIOUS

LEMMA SeqEqual ==
    ASSUME NEW s \in Seq(Line), NEW t \in Seq(Line), Len(s) = Len(t),
           \A i \in 1..Len(s) : s[i] = t[i]
    PROVE  s = t
OBVIOUS

Split(lines, part, a, b, c) ==
    /\ a \in Seq(Line) /\ b \in Seq(Line) /\ c \in Seq(Line)
    /\ lines = (a \o b) \o c
    /\ HeadFirst(b) /\ HeadFirst(c)
    /\ Foreign(a, part) /\ Foreign(c, part)
    /\ \A s : s # part => Foreign(b, s)

LEMMA PutSplit ==
    ASSUME NEW lines \in Seq(Line), SectionsOnce(lines), NEW part \in Parts
    PROVE  \E a, b, c :
              /\ Split(lines, part, a, b, c)
              /\ \A keys : Section(part, keys) \in Seq(Line) =>
                    IniPutSection(lines, part, keys) = (a \o Section(part, keys)) \o c
<1> DEFINE i == FirstHead(lines, part)
           n == Len(lines)
<1>1. n \in Nat /\ DOMAIN lines = 1..n
  OBVIOUS
<1>2. CASE i = 0
  <2>1. Foreign(lines, part)
    BY <1>2, FirstHeadFacts
  <2>2. \A s : Foreign(<<>>, s)
    BY DEF Foreign
  <2>3. <<>> \in Seq(Line) /\ HeadFirst(<<>>)
    BY DEF HeadFirst
  <2>4. \A t \in Seq(Line) : t \o <<>> = t
    OBVIOUS
  <2>5. Split(lines, part, lines, <<>>, <<>>)
    BY <2>1, <2>2, <2>3, <2>4, Zenon DEF Split
  <2>6. ASSUME NEW keys, Section(part, keys) \in Seq(Line)
        PROVE  IniPutSection(lines, part, keys) = (lines \o Section(part, keys)) \o <<>>
    <3>1. IniPutSection(lines, part, keys) = lines \o Section(part, keys)
      BY <1>2 DEF IniPutSection
    <3>2. lines \o Section(part, keys) \in Seq(Line)
      BY <2>6, CatFacts
    <3>3. QED
      BY <2>4, <3>1, <3>2
  <2>7. QED
    BY <2>5, <2>6
<1>3. CASE i # 0
  <2> DEFINE e == NextHead(lines, i + 1)
             a == SubSeq(lines, 1, i - 1)
             b == SubSeq(lines, i, e - 1)
             c == SubSeq(lines, e, n)
  <2>1. i \in 1..n /\ lines[i] = SectionLine(part)
    BY <1>3, FirstHeadFacts
  <2>2. /\ e \in (i + 1)..(n + 1)
        /\ e <= n => lines[e].kind = "section"
        /\ \A j \in (i + 1)..(e - 1) : lines[j].kind # "section"
    <3>1. i + 1 \in 1..(n + 1)
      BY <1>1, <2>1
    <3> HIDE DEF i
    <3>2. QED
      BY <3>1, NextHeadFacts
  <2>3. \A keys : IniPutSection(lines, part, keys) = (a \o Section(part, keys)) \o c
    BY <1>3 DEF IniPutSection
  <2> HIDE DEF i, e
  <2>4. /\ a \in Seq(Line) /\ Len(a) = i - 1
        /\ \A j \in 1..(i - 1) : a[j] = lines[j]
    <3>1. 1 \in 1..(n + 1) /\ i - 1 \in (1 - 1)..n
      BY <1>1, <2>1
    <3>2. /\ a \in Seq(Line) /\ Len(a) = (i - 1) - 1 + 1
          /\ \A j \in 1..((i - 1) - 1 + 1) : a[j] = lines[1 + j - 1]
      BY <3>1, SubSeqFacts
    <3>3. (i - 1) - 1 + 1 = i - 1 /\ \A j \in 1..(i - 1) : 1 + j - 1 = j
      BY <2>1
    <3> HIDE DEF a
    <3>4. QED
      BY <3>2, <3>3
  <2>5. /\ b \in Seq(Line) /\ Len(b) = e - i
        /\ \A j \in 1..(e - i) : b[j] = lines[i + j - 1]
    <3>1. i \in 1..(n + 1) /\ e - 1 \in (i - 1)..n
      BY <1>1, <2>1, <2>2
    <3>2. /\ b \in Seq(Line) /\ Len(b) = (e - 1) - i + 1
          /\ \A j \in 1..((e - 1) - i + 1) : b[j] = lines[i + j - 1]
      BY <3>1, SubSeqFacts
    <3>3. (e - 1) - i + 1 = e - i
      BY <2>1, <2>2
    <3> HIDE DEF b
    <3>4. QED
      BY <3>2, <3>3
  <2>6. /\ c \in Seq(Line) /\ Len(c) = n - e + 1
        /\ \A j \in 1..(n - e + 1) : c[j] = lines[e + j - 1]
    <3>1. e \in 1..(n + 1) /\ n \in (e - 1)..n
      BY <1>1, <2>1, <2>2
    <3>2. QED
      BY <3>1, SubSeqFacts
  <2> HIDE DEF a, b, c, n
  <2>7. /\ (a \o b) \o c \in Seq(Line) /\ Len((a \o b) \o c) = n
        /\ \A j \in 1..n : ((a \o b) \o c)[j] = lines[j]
    <3>1. /\ a \o b \in Seq(Line) /\ Len(a \o b) = e - 1
          /\ \A j \in 1..(i - 1) : (a \o b)[j] = lines[j]
          /\ \A j \in 1..(e - i) : (a \o b)[(i - 1) + j] = lines[i + j - 1]
      <4>1. /\ a \o b \in Seq(Line) /\ Len(a \o b) = Len(a) + Len(b)
            /\ \A j \in 1..Len(a) : (a \o b)[j] = a[j]
            /\ \A j \in 1..Len(b) : (a \o b)[Len(a) + j] = b[j]
        BY <2>4, <2>5, CatFacts
      <4>2. Len(a \o b) = e - 1
        BY <2>1, <2>2, <2>4, <2>5, <4>1
      <4>3. \A j \in 1..(i - 1) : (a \o b)[j] = lines[j]
        BY <2>4, <4>1
      <4>4. \A j \in 1..(e - i) : (a \o b)[(i - 1) + j] = lines[i + j - 1]
        BY <2>4, <2>5, <4>1
      <4>5. QED
        BY <4>1, <4>2, <4>3, <4>4
    <3>2. \A j \in 1..(e - 1) : (a \o b)[j] = lines[j]
      <4> TAKE j \in 1..(e - 1)
      <4>1. CASE j <= i - 1
        BY <2>1, <2>2, <3>1, <4>1
      <4>2. CASE j > i - 1
        <5>1. j - i + 1 \in 1..(e - i) /\ (i - 1) + (j - i + 1) = j /\ i + (j - i + 1) - 1 = j
          BY <2>1, <2>2, <4>2
        <5>2. QED
          BY <3>1, <5>1
      <4>3. j <= i - 1 \/ j > i - 1
        BY <2>1, <2>2
      <4>4. QED
        BY <4>1, <4>2, <4>3
    <3> DEFINE ab == a \o b
    <3>3. ab \in Seq(Line) /\ Len(ab) = e - 1 /\ \A j \in 1..(e - 1) : ab[j] = lines[j]
      BY <3>1, <3>2
    <3> HIDE DEF ab
    <3>4. /\ ab \o c \in Seq(Line) /\ Len(ab \o c) = Len(ab) + Len(c)
          /\ \A j \in 1..Len(ab) : (ab \o c)[j] = ab[j]
          /\ \A j \in 1..Len(c) : (ab \o c)[Len(ab) + j] = c[j]
      BY <2>6, <3>3, CatFacts
    <3>5. Len(ab \o c) = n
      BY <1>1, <2>1, <2>2, <2>6, <3>3, <3>4 DEF n
    <3>6. \A j \in 1..n : (ab \o c)[j] = lines[j]
      <4> TAKE j \in 1..n
      <4>1. CASE j <= e - 1
        BY <1>1, <2>1, <2>2, <3>3, <3>4, <4>1 DEF n
      <4>2. CASE j > e - 1
        <5>1. j - e + 1 \in 1..(n - e + 1) /\ (e - 1) + (j - e + 1) = j
              /\ e + (j - e + 1) - 1 = j
          BY <1>1, <2>1, <2>2, <4>2 DEF n
        <5>2. (ab \o c)[(e - 1) + (j - e + 1)] = c[j - e + 1]
          BY <2>6, <3>3, <3>4, <5>1
        <5>3. c[j - e + 1] = lines[j]
          BY <2>6, <5>1
        <5>4. QED
          BY <5>1, <5>2, <5>3
      <4>3. j <= e - 1 \/ j > e - 1
        BY <2>1, <2>2
      <4>4. QED
        BY <4>1, <4>2, <4>3
    <3>7. QED
      BY <3>4, <3>5, <3>6 DEF ab
  <2>8. lines = (a \o b) \o c
    BY <2>7, SeqEqual DEF n
  <2>9. HeadFirst(b) /\ HeadFirst(c)
    <3>1. b[1] = lines[i]
      BY <2>1, <2>2, <2>5
    <3>2. c # <<>> => c[1].kind = "section"
      <4> SUFFICES ASSUME c # <<>> PROVE c[1].kind = "section"
        OBVIOUS
      <4>1. Len(c) # 0 /\ Len(c) \in Nat
        BY <2>6
      <4>2. 1 \in 1..(n - e + 1) /\ e + 1 - 1 = e /\ e <= n
        BY <1>1, <2>2, <2>6, <4>1 DEF n
      <4>3. QED
        BY <2>2, <2>6, <4>2
    <3>3. QED
      BY <2>1, <3>1, <3>2 DEF HeadFirst, SectionLine
  <2>10. \A j \in 1..n : lines[j] = SectionLine(part) => j = i
    BY <1>1, <2>1 DEF SectionsOnce, n
  <2>11. Foreign(a, part)
    <3> SUFFICES ASSUME NEW j \in DOMAIN a, a[j] = SectionLine(part)  PROVE FALSE
      BY DEF Foreign
    <3>1. j \in 1..(i - 1) /\ j \in 1..n /\ j # i
      BY <1>1, <2>1, <2>4 DEF n
    <3>2. QED
      BY <2>4, <2>10, <3>1
  <2>12. Foreign(c, part)
    <3> SUFFICES ASSUME NEW j \in DOMAIN c, c[j] = SectionLine(part)  PROVE FALSE
      BY DEF Foreign
    <3>1. j \in 1..(n - e + 1) /\ e + j - 1 \in 1..n /\ e + j - 1 # i
      BY <1>1, <2>1, <2>2, <2>6 DEF n
    <3>2. QED
      BY <2>6, <2>10, <3>1
  <2>13. ASSUME NEW s, s # part  PROVE Foreign(b, s)
    <3> SUFFICES ASSUME NEW j \in DOMAIN b, b[j] = SectionLine(s)  PROVE FALSE
      BY DEF Foreign
    <3>1. j \in 1..(e - i) /\ b[j] = lines[i + j - 1]
      BY <2>5
    <3>2. CASE j = 1
      <4>1. SectionLine(s) = SectionLine(part)
        BY <2>1, <3>1, <3>2
      <4>2. SectionLine(s).name = s /\ SectionLine(part).name = part
        BY DEF SectionLine
      <4>3. QED
        BY <2>13, <4>1, <4>2
    <3>3. CASE j # 1
      <4>1. i + j - 1 \in (i + 1)..(e - 1)
        BY <2>1, <2>2, <3>1, <3>3
      <4>2. SectionLine(s).kind = "section"
        BY DEF SectionLine
      <4>3. QED
        BY <2>2, <3>1, <4>1, <4>2
    <3>4. QED
      BY <3>2, <3>3
  <2>14. Split(lines, part, a, b, c)
    BY <2>4, <2>5, <2>6, <2>8, <2>9, <2>11, <2>12, <2>13, Zenon DEF Split
  <2>15. QED
    BY <2>3, <2>14
<1>4. QED
  BY <1>2, <1>3

-----------------------------------------------------------------------------
(* Files in which nothing comes twice stay that way.                       *)

Tidy(lines) ==
    lines \in Seq(Line) /\ SectionsOnce(lines) /\ ClocksOnce(lines) /\ InRange(lines)

LEMMA PartNames == /\ \A p \in Parts : p \in STRING
                   /\ ValuesSection \in Parts /\ Tids \subseteq Parts
                   /\ ValuesSection \notin Tids
BY StoreAssumption, Zenon DEF Parts

LEMMA ForeignCat ==
    ASSUME NEW a \in Seq(Line), NEW b \in Seq(Line), NEW s
    PROVE  Foreign(a \o b, s) <=> Foreign(a, s) /\ Foreign(b, s)
<1> DEFINE c == a \o b
<1>1. /\ Len(a) \in Nat /\ Len(b) \in Nat
      /\ DOMAIN a = 1..Len(a) /\ DOMAIN b = 1..Len(b)
      /\ DOMAIN c = 1..(Len(a) + Len(b))
      /\ \A i \in 1..Len(a) : c[i] = a[i]
      /\ \A i \in 1..Len(b) : c[Len(a) + i] = b[i]
  BY CatFacts
<1> HIDE DEF c
<1>2. ASSUME Foreign(c, s)  PROVE Foreign(a, s) /\ Foreign(b, s)
  <2>1. /\ \A i \in 1..Len(a) : i \in 1..(Len(a) + Len(b))
        /\ \A i \in 1..Len(b) : Len(a) + i \in 1..(Len(a) + Len(b))
    BY <1>1
  <2>2. QED
    BY <1>1, <1>2, <2>1 DEF Foreign
<1>3. ASSUME Foreign(a, s), Foreign(b, s)  PROVE Foreign(c, s)
  <2> SUFFICES ASSUME NEW i \in 1..(Len(a) + Len(b))  PROVE c[i] # SectionLine(s)
    BY <1>1 DEF Foreign
  <2>1. CASE i \in 1..Len(a)
    BY <1>1, <1>3, <2>1 DEF Foreign
  <2>2. CASE i \notin 1..Len(a)
    <3>1. i - Len(a) \in 1..Len(b) /\ Len(a) + (i - Len(a)) = i
      BY <1>1, <2>2
    <3>2. QED
      BY <1>1, <1>3, <3>1 DEF Foreign
  <2>3. QED
    BY <2>1, <2>2
<1>4. QED
  BY <1>2, <1>3 DEF c

LEMMA SectionsOnceCat ==
    ASSUME NEW a \in Seq(Line), NEW b \in Seq(Line)
    PROVE  SectionsOnce(a \o b) <=>
              /\ SectionsOnce(a) /\ SectionsOnce(b)
              /\ \A p \in Parts : Foreign(a, p) \/ Foreign(b, p)
<1> DEFINE c == a \o b
<1>1. /\ Len(a) \in Nat /\ Len(b) \in Nat
      /\ DOMAIN a = 1..Len(a) /\ DOMAIN b = 1..Len(b)
      /\ DOMAIN c = 1..(Len(a) + Len(b))
      /\ \A i \in 1..Len(a) : c[i] = a[i]
      /\ \A i \in 1..Len(b) : c[Len(a) + i] = b[i]
  BY CatFacts
<1> HIDE DEF c
<1>2. /\ \A i \in 1..Len(a) : i \in 1..(Len(a) + Len(b))
      /\ \A i \in 1..Len(b) : Len(a) + i \in 1..(Len(a) + Len(b))
      /\ \A i, j \in 1..Len(b) : Len(a) + i = Len(a) + j => i = j
      /\ \A i \in 1..Len(a), j \in 1..Len(b) : i # Len(a) + j
      /\ \A i \in 1..(Len(a) + Len(b)) :
            i \in 1..Len(a) \/ \E j \in 1..Len(b) : i = Len(a) + j
  <2>1. ASSUME NEW i \in 1..(Len(a) + Len(b)), i \notin 1..Len(a)
        PROVE  \E j \in 1..Len(b) : i = Len(a) + j
    <3>1. i - Len(a) \in 1..Len(b) /\ i = Len(a) + (i - Len(a))
      BY <1>1, <2>1
    <3>2. QED
      BY <3>1
  <2>2. \A i \in 1..Len(a) : i \in 1..(Len(a) + Len(b))
    BY <1>1
  <2>3. \A i \in 1..Len(b) : Len(a) + i \in 1..(Len(a) + Len(b))
    BY <1>1
  <2>4. \A i, j \in 1..Len(b) : Len(a) + i = Len(a) + j => i = j
    BY <1>1
  <2>5. \A i \in 1..Len(a), j \in 1..Len(b) : i # Len(a) + j
    BY <1>1
  <2>6. QED
    BY <2>1, <2>2, <2>3, <2>4, <2>5, Zenon
<1>3. ASSUME SectionsOnce(c)
      PROVE  /\ SectionsOnce(a) /\ SectionsOnce(b)
             /\ \A p \in Parts : Foreign(a, p) \/ Foreign(b, p)
  <2>1. SectionsOnce(a)
    BY <1>1, <1>2, <1>3, Zenon DEF SectionsOnce
  <2>2. SectionsOnce(b)
    <3> SUFFICES ASSUME NEW p \in Parts, NEW i \in 1..Len(b), NEW j \in 1..Len(b),
                        b[i] = SectionLine(p), b[j] = SectionLine(p)
                 PROVE  i = j
      BY <1>1 DEF SectionsOnce
    <3>1. Len(a) + i = Len(a) + j
      BY <1>1, <1>2, <1>3 DEF SectionsOnce
    <3>2. QED
      BY <1>2, <3>1
  <2>3. ASSUME NEW p \in Parts, ~Foreign(a, p), ~Foreign(b, p)  PROVE FALSE
    <3>1. PICK i \in 1..Len(a) : a[i] = SectionLine(p)
      BY <1>1, <2>3 DEF Foreign
    <3>2. PICK j \in 1..Len(b) : b[j] = SectionLine(p)
      BY <1>1, <2>3 DEF Foreign
    <3>3. i = Len(a) + j
      BY <1>1, <1>2, <1>3, <3>1, <3>2 DEF SectionsOnce
    <3>4. QED
      BY <1>2, <3>3
  <2>4. QED
    BY <2>1, <2>2, <2>3
<1>4. ASSUME SectionsOnce(a), SectionsOnce(b),
             \A p \in Parts : Foreign(a, p) \/ Foreign(b, p)
      PROVE  SectionsOnce(c)
  <2> SUFFICES ASSUME NEW p \in Parts, NEW i \in DOMAIN c, NEW j \in DOMAIN c,
                      c[i] = SectionLine(p), c[j] = SectionLine(p)
               PROVE  i = j
    BY DEF SectionsOnce
  <2>1. CASE Foreign(a, p)
    <3>1. i \notin 1..Len(a) /\ j \notin 1..Len(a)
      BY <1>1, <2>1 DEF Foreign
    <3>2. PICK k \in 1..Len(b) : i = Len(a) + k
      BY <1>1, <1>2, <3>1
    <3>3. PICK l \in 1..Len(b) : j = Len(a) + l
      BY <1>1, <1>2, <3>1
    <3>4. b[k] = SectionLine(p) /\ b[l] = SectionLine(p)
      BY <1>1, <3>2, <3>3
    <3>5. k = l
      BY <1>1, <1>4, <3>4 DEF SectionsOnce
    <3>6. QED
      BY <3>2, <3>3, <3>5
  <2>2. CASE Foreign(b, p)
    <3>1. ASSUME NEW k \in 1..Len(b), c[Len(a) + k] = SectionLine(p)  PROVE FALSE
      <4>1. b[k] = SectionLine(p) /\ k \in DOMAIN b
        BY <1>1, <3>1
      <4>2. QED
        BY <2>2, <4>1 DEF Foreign
    <3>2. i \in 1..Len(a)
      BY <1>1, <1>2, <3>1
    <3>3. j \in 1..Len(a)
      BY <1>1, <1>2, <3>1
    <3>4. a[i] = SectionLine(p) /\ a[j] = SectionLine(p)
      BY <1>1, <3>2, <3>3
    <3>5. QED
      BY <1>1, <1>4, <3>2, <3>3, <3>4 DEF SectionsOnce
  <2>3. QED
    BY <1>4, <2>1, <2>2
<1>5. QED
  BY <1>3, <1>4 DEF c

LEMMA TidyCat ==
    ASSUME NEW a \in Seq(Line), NEW b \in Seq(Line), HeadFirst(b)
    PROVE  Tidy(a \o b) <=> /\ Tidy(a) /\ Tidy(b)
                            /\ \A p \in Parts : Foreign(a, p) \/ Foreign(b, p)
<1> DEFINE c == a \o b
<1>1. /\ Len(a) \in Nat /\ Len(b) \in Nat /\ c \in Seq(Line)
      /\ \A i \in 1..Len(a) : c[i] = a[i]
      /\ \A i \in 1..Len(b) : c[Len(a) + i] = b[i]
  BY CatFacts
<1>2. \A s, k : /\ Callbacks(a, s, k) \subseteq 1..Len(a)
                /\ Callbacks(b, s, k) \subseteq 1..Len(b)
                /\ Callbacks(c, s, k) \subseteq 1..(Len(a) + Len(b))
                /\ \A i \in 1..Len(a) : i \in Callbacks(c, s, k) <=> i \in Callbacks(a, s, k)
                /\ \A i \in 1..Len(b) :
                      Len(a) + i \in Callbacks(c, s, k) <=> i \in Callbacks(b, s, k)
  BY CallbacksCat
<1>3. SectionsOnce(c) <=> /\ SectionsOnce(a) /\ SectionsOnce(b)
                          /\ \A p \in Parts : Foreign(a, p) \/ Foreign(b, p)
  BY SectionsOnceCat
<1> HIDE DEF c
<1>4. ASSUME NEW s, NEW k, NEW i \in Callbacks(c, s, k)
      PROVE  \/ i \in Callbacks(a, s, k) /\ c[i] = a[i]
             \/ \E j \in Callbacks(b, s, k) : i = Len(a) + j /\ c[i] = b[j]
  <2>1. CASE i \in 1..Len(a)
    BY <1>1, <1>2, <2>1
  <2>2. CASE i \notin 1..Len(a)
    <3>1. i \in 1..(Len(a) + Len(b))
      BY <1>2
    <3>2. i - Len(a) \in 1..Len(b) /\ i = Len(a) + (i - Len(a))
      BY <1>1, <2>2, <3>1
    <3>3. QED
      BY <1>1, <1>2, <3>2
  <2>3. QED
    BY <2>1, <2>2
<1>5. ASSUME NEW s, NEW k
      PROVE  /\ \A i \in Callbacks(a, s, k) : i \in Callbacks(c, s, k) /\ c[i] = a[i]
             /\ \A i \in Callbacks(b, s, k) :
                   Len(a) + i \in Callbacks(c, s, k) /\ c[Len(a) + i] = b[i]
  BY <1>1, <1>2
<1>6. InRange(c) <=> InRange(a) /\ InRange(b)
  <2>1. ASSUME InRange(c)  PROVE InRange(a) /\ InRange(b)
    BY <1>5, <2>1 DEF InRange
  <2>2. ASSUME InRange(a), InRange(b)  PROVE InRange(c)
    <3>1. ASSUME NEW k \in Kvals, NEW i \in Callbacks(c, ValuesSection, k)
          PROVE  c[i].value \in Inputs
      BY <1>4, <2>2, <3>1 DEF InRange
    <3>2. ASSUME NEW t \in Tids, NEW s \in Slots, NEW i \in Callbacks(c, t, s)
          PROVE  c[i].value \in Mhz
      BY <1>4, <2>2, <3>2 DEF InRange
    <3>3. QED
      BY <3>1, <3>2 DEF InRange
  <2>3. QED
    BY <2>1, <2>2
<1>7. ASSUME ClocksOnce(c)  PROVE ClocksOnce(a) /\ ClocksOnce(b)
  <2>1. ASSUME NEW t \in Tids, NEW s \in Slots,
               NEW i \in Callbacks(a, t, s), NEW j \in Callbacks(a, t, s),
               a[i].value # 0, a[j].value # 0
        PROVE  i = j
    BY <1>5, <1>7, <2>1 DEF ClocksOnce
  <2>2. ASSUME NEW t \in Tids, NEW s \in Slots,
               NEW i \in Callbacks(b, t, s), NEW j \in Callbacks(b, t, s),
               b[i].value # 0, b[j].value # 0
        PROVE  i = j
    <3>1. Len(a) + i = Len(a) + j
      BY <1>5, <1>7, <2>2 DEF ClocksOnce
    <3>2. i \in Nat /\ j \in Nat
      BY <1>2
    <3>3. QED
      BY <1>1, <3>1, <3>2
  <2>3. QED
    BY <2>1, <2>2 DEF ClocksOnce
<1>8. ASSUME ClocksOnce(a), ClocksOnce(b),
             \A p \in Parts : Foreign(a, p) \/ Foreign(b, p)
      PROVE  ClocksOnce(c)
  <2> SUFFICES ASSUME NEW t \in Tids, NEW s \in Slots,
                      NEW i \in Callbacks(c, t, s), NEW j \in Callbacks(c, t, s),
                      c[i].value # 0, c[j].value # 0
               PROVE  i = j
    BY DEF ClocksOnce
  <2>1. CASE Foreign(a, t)
    <3>1. Callbacks(a, t, s) = {}
      BY <2>1, ForeignSilent
    <3>2. PICK k \in Callbacks(b, t, s) : i = Len(a) + k /\ c[i] = b[k]
      BY <1>4, <3>1
    <3>3. PICK l \in Callbacks(b, t, s) : j = Len(a) + l /\ c[j] = b[l]
      BY <1>4, <3>1
    <3>4. k = l
      BY <1>8, <3>2, <3>3 DEF ClocksOnce
    <3>5. QED
      BY <3>2, <3>3, <3>4
  <2>2. CASE Foreign(b, t)
    <3>1. Callbacks(b, t, s) = {}
      BY <2>2, ForeignSilent
    <3>2. /\ i \in Callbacks(a, t, s) /\ c[i] = a[i]
          /\ j \in Callbacks(a, t, s) /\ c[j] = a[j]
      BY <1>4, <3>1
    <3>3. QED
      BY <1>8, <3>2 DEF ClocksOnce
  <2>3. QED
    BY <1>8, <2>1, <2>2, PartNames
<1>9. QED
  BY <1>1, <1>3, <1>6, <1>7, <1>8, Zenon DEF Tidy, c

KeysRight(part, keys) ==
    \A n \in 1..Len(keys) : /\ part = ValuesSection => keys[n].value \in Inputs
                            /\ part \in Tids => keys[n].value \in Mhz

\* A section that reached the file, or its beginning, has nothing twice.
LEMMA TidyPiece ==
    ASSUME NEW T, NEW part \in Parts, NEW keys, Piece(T, part, keys), KeysRight(part, keys)
    PROVE  Tidy(T)
<1>1. /\ T \in Seq(Line) /\ DOMAIN T = 1..Len(T) /\ Len(T) \in Nat
      /\ AreKeys(keys)
      /\ \A i \in 2..Len(T) : i - 1 \in 1..Len(keys) /\ T[i] = keys[i - 1]
  BY DEF Piece
<1>2. /\ \A i \in 1..Len(T) : T[i].kind = "section" => i = 1
      /\ \A k : Callbacks(T, part, k) = {i \in 2..Len(T) : T[i].name = k}
      /\ \A s : s # part => Foreign(T, s)
  BY SectionCallbacks
<1>3. SectionsOnce(T)
  <2> SUFFICES ASSUME NEW p \in Parts, NEW i \in DOMAIN T, NEW j \in DOMAIN T,
                      T[i] = SectionLine(p), T[j] = SectionLine(p)
               PROVE  i = j
    BY DEF SectionsOnce
  <2>1. T[i].kind = "section" /\ T[j].kind = "section"
    BY DEF SectionLine
  <2>2. QED
    BY <1>1, <1>2, <2>1
<1>4. ASSUME NEW s, NEW k, NEW i \in Callbacks(T, s, k)
      PROVE  s = part /\ i \in 2..Len(T) /\ T[i].name = k
  <2>1. s = part
    <3> SUFFICES ASSUME s # part PROVE FALSE
      OBVIOUS
    <3>1. Foreign(T, s)
      BY <1>2
    <3>2. Callbacks(T, s, k) = {}
      BY <1>1, <3>1, ForeignSilent
    <3>3. QED
      BY <1>4, <3>2
  <2>2. QED
    BY <1>2, <1>4, <2>1
<1>5. ClocksOnce(T)
  <2> SUFFICES ASSUME NEW t \in Tids, NEW s \in Slots,
                      NEW i \in Callbacks(T, t, s), NEW j \in Callbacks(T, t, s)
               PROVE  i = j
    BY DEF ClocksOnce
  <2>1. i \in 2..Len(T) /\ j \in 2..Len(T) /\ T[i].name = T[j].name
    BY <1>4
  <2>2. keys[i - 1].name = keys[j - 1].name /\ i - 1 \in 1..Len(keys) /\ j - 1 \in 1..Len(keys)
    BY <1>1, <2>1
  <2>3. i - 1 = j - 1
    BY <1>1, <2>2 DEF AreKeys
  <2>4. QED
    BY <1>1, <2>1, <2>3
<1>6. InRange(T)
  <2>1. ASSUME NEW k \in Kvals, NEW i \in Callbacks(T, ValuesSection, k)
        PROVE  T[i].value \in Inputs
    <3>1. part = ValuesSection /\ i \in 2..Len(T)
      BY <1>4, <2>1
    <3>2. i - 1 \in 1..Len(keys) /\ T[i] = keys[i - 1]
      BY <1>1, <3>1
    <3>3. QED
      BY <3>1, <3>2 DEF KeysRight
  <2>2. ASSUME NEW t \in Tids, NEW s \in Slots, NEW i \in Callbacks(T, t, s)
        PROVE  T[i].value \in Mhz
    <3>1. part = t /\ i \in 2..Len(T)
      BY <1>4, <2>2
    <3>2. i - 1 \in 1..Len(keys) /\ T[i] = keys[i - 1]
      BY <1>1, <3>1
    <3>3. QED
      BY <3>1, <3>2 DEF KeysRight
  <2>3. QED
    BY <2>1, <2>2 DEF InRange
<1>7. QED
  BY <1>1, <1>3, <1>5, <1>6 DEF Tidy

\* ini_putsection: the part is the new section, every other part what it was.
LEMMA PutFacts ==
    ASSUME NEW lines, Tidy(lines), NEW part \in Parts, NEW keys, AreKeys(keys),
           KeysRight(part, keys)
    PROVE  /\ Tidy(IniPutSection(lines, part, keys))
           /\ \A s, k, skip, d : s # part =>
                 Standing(IniPutSection(lines, part, keys), s, k, skip, d)
                   = Standing(lines, s, k, skip, d)
           /\ \A k, skip, d :
                 Standing(IniPutSection(lines, part, keys), part, k, skip, d)
                   = Standing(Section(part, keys), part, k, skip, d)
<1> DEFINE S == Section(part, keys)
           P == IniPutSection(lines, part, keys)
<1>1. part \in STRING
  BY PartNames
<1>2. Piece(S, part, keys)
  BY <1>1, SectionLines
<1>3. /\ S \in Seq(Line) /\ HeadFirst(S) /\ Tidy(S)
      /\ \A s : s # part => Foreign(S, s)
  <2> HIDE DEF S
  <2>1. S \in Seq(Line)
    BY <1>2 DEF Piece
  <2>2. QED
    BY <1>2, <2>1, SectionCallbacks, TidyPiece
<1>4. lines \in Seq(Line) /\ SectionsOnce(lines)
  BY DEF Tidy
<1>5. PICK a, b, c : Split(lines, part, a, b, c) /\ P = (a \o S) \o c
  BY <1>3, <1>4, PutSplit
<1> HIDE DEF S, P
<1>6. /\ a \in Seq(Line) /\ b \in Seq(Line) /\ c \in Seq(Line)
      /\ lines = (a \o b) \o c /\ HeadFirst(b) /\ HeadFirst(c)
      /\ Foreign(a, part) /\ Foreign(c, part)
      /\ \A s : s # part => Foreign(b, s)
  BY <1>5, Zenon DEF Split
<1>7. a \o b \in Seq(Line) /\ a \o S \in Seq(Line)
  BY <1>3, <1>6, CatFacts
<1>8. /\ Tidy(a \o b) /\ Tidy(c)
      /\ \A p \in Parts : Foreign(a \o b, p) \/ Foreign(c, p)
  BY <1>6, <1>7, TidyCat
<1>9. Tidy(a) /\ Tidy(b)
  BY <1>6, <1>8, TidyCat
<1>10. Tidy(a \o S)
  <2>1. \A p \in Parts : Foreign(a, p) \/ Foreign(S, p)
    BY <1>3, <1>6
  <2>2. QED
    BY <1>3, <1>6, <1>9, <2>1, TidyCat
<1>11. Tidy(P)
  <2>1. ASSUME NEW p \in Parts  PROVE Foreign(a \o S, p) \/ Foreign(c, p)
    <3>1. CASE p = part
      BY <1>6, <3>1
    <3>2. CASE p # part
      BY <1>3, <1>6, <1>8, <3>2, ForeignCat
    <3>3. QED
      BY <3>1, <3>2
  <2>2. QED
    BY <1>5, <1>6, <1>7, <1>8, <1>10, <2>1, TidyCat
<1>12. ASSUME NEW s, NEW k, NEW skip, NEW d
       PROVE  /\ Standing(lines, s, k, skip, d) =
                   Standing(c, s, k, skip, Standing(b, s, k, skip, Standing(a, s, k, skip, d)))
              /\ Standing(P, s, k, skip, d) =
                   Standing(c, s, k, skip, Standing(S, s, k, skip, Standing(a, s, k, skip, d)))
  <2>1. \A e : /\ Standing(a \o b, s, k, skip, e) = Standing(b, s, k, skip, Standing(a, s, k, skip, e))
               /\ Standing(a \o S, s, k, skip, e) = Standing(S, s, k, skip, Standing(a, s, k, skip, e))
    BY <1>3, <1>6, StandingCat
  <2>2. ASSUME NEW x \in Seq(Line)
        PROVE  Standing(x \o c, s, k, skip, d) = Standing(c, s, k, skip, Standing(x, s, k, skip, d))
    BY <1>6, StandingCat
  <2>3. /\ Standing((a \o b) \o c, s, k, skip, d)
             = Standing(c, s, k, skip, Standing(a \o b, s, k, skip, d))
        /\ Standing((a \o S) \o c, s, k, skip, d)
             = Standing(c, s, k, skip, Standing(a \o S, s, k, skip, d))
    BY <1>7, <2>2, Zenon
  <2>4. QED
    BY <1>5, <1>6, <2>1, <2>3
<1>13. ASSUME NEW s, NEW k, NEW skip, NEW d, s # part
       PROVE  Standing(P, s, k, skip, d) = Standing(lines, s, k, skip, d)
  <2>1. Foreign(b, s) /\ Foreign(S, s)
    BY <1>3, <1>6, <1>13
  <2>2. \A e : Standing(b, s, k, skip, e) = e
    BY <1>6, <2>1, ForeignSilent
  <2>3. \A e : Standing(S, s, k, skip, e) = e
    BY <1>3, <2>1, ForeignSilent
  <2>4. QED
    BY <1>12, <2>2, <2>3
<1>14. ASSUME NEW k, NEW skip, NEW d
       PROVE  Standing(P, part, k, skip, d) = Standing(S, part, k, skip, d)
  <2>1. \A e : Standing(a, part, k, skip, e) = e /\ Standing(c, part, k, skip, e) = e
    BY <1>6, ForeignSilent
  <2>2. QED
    BY <1>12, <2>1
<1>15. QED
  BY <1>11, <1>13, <1>14 DEF P, S

LEMMA PutOthers ==
    ASSUME NEW lines, Tidy(lines), NEW part \in Parts, NEW keys, AreKeys(keys),
           KeysRight(part, keys), NEW s, s # part, NEW k, NEW skip, NEW d
    PROVE  Standing(IniPutSection(lines, part, keys), s, k, skip, d)
             = Standing(lines, s, k, skip, d)
BY PutFacts

LEMMA PutOwn ==
    ASSUME NEW lines, Tidy(lines), NEW part \in Parts, NEW keys, AreKeys(keys),
           KeysRight(part, keys), NEW k, NEW skip, NEW d
    PROVE  Standing(IniPutSection(lines, part, keys), part, k, skip, d)
             = Standing(Section(part, keys), part, k, skip, d)
BY PutFacts

-----------------------------------------------------------------------------
(* What is written is what is read.                                        *)

LEMMA WrittenKeys ==
    ASSUME NEW names, IsEnum(names), NEW value,
           NEW written, written \subseteq {names[i] : i \in DOMAIN names},
           \A k \in written : value[k] \in Nat
    PROVE  /\ AreKeys(KeyLines(names, written, value))
           /\ \A n \in 1..Len(KeyLines(names, written, value)) :
                 /\ KeyLines(names, written, value)[n].name \in written
                 /\ KeyLines(names, written, value)[n].value
                      = value[KeyLines(names, written, value)[n].name]
           /\ \A k \in written : \E n \in 1..Len(KeyLines(names, written, value)) :
                 KeyLines(names, written, value)[n].name = k
<1> DEFINE keys == KeyLines(names, written, value)
<1>1. /\ keys \in Seq(Line)
      /\ \A n \in 1..Len(keys) :
            /\ keys[n].name \in written
            /\ keys[n] = ValueLine(keys[n].name, value[keys[n].name])
      /\ \A l, n \in 1..Len(keys) : keys[l].name = keys[n].name => l = n
      /\ \A k \in written : \E n \in 1..Len(keys) : keys[n].name = k
  <2> DEFINE Names == {names[i] : i \in DOMAIN names}
  <2>1. \A k : k \in Names \cap written <=> k \in written
    OBVIOUS
  <2>2. /\ keys \in Seq(Line)
        /\ \A n \in 1..Len(keys) :
              /\ keys[n].name \in Names \cap written
              /\ keys[n] = ValueLine(keys[n].name, value[keys[n].name])
        /\ \A l, n \in 1..Len(keys) : keys[l].name = keys[n].name => l = n
        /\ \A k \in Names \cap written : \E n \in 1..Len(keys) : keys[n].name = k
    BY KeyLinesFacts
  <2> HIDE DEF Names, keys
  <2>3. QED
    BY <2>1, <2>2
<1> HIDE DEF keys
<1>2. \A k, v : ValueLine(k, v).kind = "key" /\ ValueLine(k, v).value = v
  BY DEF ValueLine
<1>3. \A n \in 1..Len(keys) : keys[n].kind = "key" /\ keys[n].value = value[keys[n].name]
  BY <1>1, <1>2
<1>4. AreKeys(keys)
  BY <1>1, <1>3, Zenon DEF AreKeys
<1>5. QED
  BY <1>1, <1>3, <1>4 DEF keys

\* All of the section has every key that is written; its beginning has some.
LEMMA WrittenStanding ==
    ASSUME NEW keys, AreKeys(keys), NEW part \in STRING, NEW skip, NEW d,
           NEW T, Piece(T, part, keys), NEW m \in 1..Len(keys), keys[m].value \notin skip
    PROVE  /\ Standing(T, part, keys[m].name, skip, d) \in {keys[m].value, d}
           /\ m < Len(T) => Standing(T, part, keys[m].name, skip, d) \in {keys[m].value}
<1>1. CASE m < Len(T)
  BY <1>1, SectionStanding
<1>2. CASE ~(m < Len(T))
  <2>1. \A l \in 1..Len(keys) : keys[l].name = keys[m].name => l = m
    BY DEF AreKeys
  <2>2. \A l \in 1..Len(keys) :
           ~(l < Len(T) /\ keys[l].name = keys[m].name /\ keys[l].value \notin skip)
    BY <1>2, <2>1
  <2>3. Standing(T, part, keys[m].name, skip, d) = d
    BY <2>2, SectionStanding
  <2>4. QED
    BY <1>2, <2>3
<1>3. QED
  BY <1>1, <1>2

LEMMA WholeStanding ==
    ASSUME NEW keys, AreKeys(keys), NEW part \in STRING, NEW skip, NEW d,
           NEW m \in 1..Len(keys), keys[m].value \notin skip
    PROVE  Standing(Section(part, keys), part, keys[m].name, skip, d) \in {keys[m].value}
<1> DEFINE T == Section(part, keys)
<1>1. Len(keys) \in Nat /\ keys # <<>>
  BY DEF AreKeys
<1>2. Piece(T, part, keys) /\ m < Len(T)
  BY <1>1, SectionLines
<1> HIDE DEF T
<1>3. Standing(T, part, keys[m].name, skip, d) \in {keys[m].value}
  BY <1>2, WrittenStanding
<1>4. QED
  BY <1>3 DEF T

LEMMA UnwrittenStanding ==
    ASSUME NEW keys, NEW part, NEW skip, NEW d, NEW k,
           NEW T, Piece(T, part, keys), \A m \in 1..Len(keys) : keys[m].name # k
    PROVE  Standing(T, part, k, skip, d) = d
BY SectionStanding

LEMMA ProfileKeysFacts ==
    ASSUME NEW t \in Tids, NEW clocks \in [Slots -> Mhz]
    PROVE  /\ AreKeys(ProfileKeys(clocks)) /\ KeysRight(t, ProfileKeys(clocks))
           /\ \A T : Piece(T, t, ProfileKeys(clocks)) => \A s \in Slots :
                 Standing(T, t, s, {0}, 0) \in {clocks[s], 0}
           /\ \A s \in Slots :
                 Standing(Section(t, ProfileKeys(clocks)), t, s, {0}, 0) = clocks[s]
<1> DEFINE W == {s \in Slots : clocks[s] # 0}
           keys == ProfileKeys(clocks)
           S    == Section(t, keys)
           In(T, j) == Standing(T, t, j, {0}, 0)
<1>1. t \in STRING /\ t # ValuesSection
  BY PartNames
<1>2. Mhz \subseteq Nat /\ IsEnum(SlotSeq)
  BY StoreAssumption
<1>3. W \subseteq {SlotSeq[i] : i \in DOMAIN SlotSeq} /\ \A s \in W : clocks[s] \in Nat
  BY <1>2 DEF Slots
<1>4. /\ \A s \in W : clocks[s] \in Mhz /\ clocks[s] \notin {0}
      /\ \A s \in Slots : s \notin W => clocks[s] = 0
  OBVIOUS
<1>5. keys = KeyLines(SlotSeq, W, clocks)
  BY DEF ProfileKeys
<1> HIDE DEF W, keys
<1>6. /\ AreKeys(keys)
      /\ \A n \in 1..Len(keys) : keys[n].name \in W /\ keys[n].value = clocks[keys[n].name]
      /\ \A s \in W : \E n \in 1..Len(keys) : keys[n].name = s
  BY <1>2, <1>3, <1>5, WrittenKeys
<1>7. KeysRight(t, keys)
  BY <1>1, <1>4, <1>6 DEF KeysRight
<1>8. Piece(S, t, keys)
  BY <1>1, <1>6, SectionLines
<1>9. ASSUME NEW n \in 1..Len(keys)
      PROVE  /\ In(S, keys[n].name) = keys[n].value
             /\ \A T : Piece(T, t, keys) => In(T, keys[n].name) \in {keys[n].value, 0}
  <2>1. keys[n].value \notin {0}
    BY <1>4, <1>6
  <2>2. In(S, keys[n].name) \in {keys[n].value}
    BY <1>1, <1>6, <2>1, WholeStanding
  <2>3. ASSUME NEW T, Piece(T, t, keys)
        PROVE  In(T, keys[n].name) \in {keys[n].value, 0}
    BY <1>1, <1>6, <2>1, <2>3, WrittenStanding
  <2>4. QED
    BY <2>2, <2>3
<1>10. ASSUME NEW T, Piece(T, t, keys), NEW s, s \notin W  PROVE In(T, s) = 0
  BY <1>6, <1>10, UnwrittenStanding
<1> HIDE DEF S, In
<1>11. ASSUME NEW s \in Slots
       PROVE  /\ In(S, s) = clocks[s]
              /\ \A T : Piece(T, t, keys) => In(T, s) \in {clocks[s], 0}
  <2>1. CASE s \in W
    <3>1. PICK n \in 1..Len(keys) : keys[n].name = s
      BY <1>6, <2>1
    <3>2. keys[n].value = clocks[s]
      BY <1>6, <3>1
    <3>3. QED
      BY <1>9, <3>1, <3>2
  <2>2. CASE s \notin W
    BY <1>4, <1>8, <1>10, <2>2
  <2>3. QED
    BY <2>1, <2>2
<1>12. QED
  BY <1>6, <1>7, <1>11 DEF keys, S, In

LEMMA ValueKeysFacts ==
    ASSUME NEW list \in [Kvals -> Inputs]
    PROVE  /\ AreKeys(ValueKeys(list)) /\ KeysRight(ValuesSection, ValueKeys(list))
           /\ \A T : Piece(T, ValuesSection, ValueKeys(list)) => \A k \in Kvals :
                 Accepted(k, InFile(T, k)) \in {Accepted(k, list[k]), DefaultConfigValue(k)}
           /\ \A k \in Kvals :
                 Accepted(k, InFile(Section(ValuesSection, ValueKeys(list)), k))
                   = Accepted(k, list[k])
<1> DEFINE W == Kept(list)
           keys == ValueKeys(list)
           S    == Section(ValuesSection, keys)
<1>1. ValuesSection \in STRING /\ ValuesSection \notin Tids
  BY PartNames
<1>2. Inputs \subseteq Nat /\ IsEnum(KvalSeq)
  BY StoreAssumption
<1>3. W \subseteq {KvalSeq[i] : i \in DOMAIN KvalSeq} /\ \A k \in W : list[k] \in Nat
  BY <1>2 DEF Kept, Kvals
<1>4. /\ \A k \in W : list[k] \in Inputs /\ Accepted(k, list[k]) = list[k]
      /\ \A k \in Kvals : k \notin W => Accepted(k, list[k]) = DefaultConfigValue(k)
      /\ \A k : Accepted(k, DefaultConfigValue(k)) = DefaultConfigValue(k)
  BY DEF Kept, Accepted
<1>5. keys = KeyLines(KvalSeq, W, list)
  BY DEF ValueKeys
<1> HIDE DEF W, keys
<1>6. /\ AreKeys(keys)
      /\ \A n \in 1..Len(keys) : keys[n].name \in W /\ keys[n].value = list[keys[n].name]
      /\ \A k \in W : \E n \in 1..Len(keys) : keys[n].name = k
  BY <1>2, <1>3, <1>5, WrittenKeys
<1>7. KeysRight(ValuesSection, keys)
  BY <1>1, <1>4, <1>6 DEF KeysRight
<1>8. Piece(S, ValuesSection, keys)
  BY <1>1, <1>6, SectionLines
<1>9. ASSUME NEW n \in 1..Len(keys)
      PROVE  /\ InFile(S, keys[n].name) = keys[n].value
             /\ \A T : Piece(T, ValuesSection, keys) =>
                  InFile(T, keys[n].name) \in {keys[n].value, DefaultConfigValue(keys[n].name)}
  <2>1. keys[n].value \notin {}
    OBVIOUS
  <2>2. InFile(S, keys[n].name) \in {keys[n].value}
    BY <1>1, <1>6, <2>1, WholeStanding DEF InFile
  <2>3. ASSUME NEW T, Piece(T, ValuesSection, keys)
        PROVE  InFile(T, keys[n].name) \in {keys[n].value, DefaultConfigValue(keys[n].name)}
    BY <1>1, <1>6, <2>1, <2>3, WrittenStanding DEF InFile
  <2>4. QED
    BY <2>2, <2>3
<1>10. ASSUME NEW T, Piece(T, ValuesSection, keys), NEW k, k \notin W
       PROVE  InFile(T, k) = DefaultConfigValue(k)
  BY <1>6, <1>10, UnwrittenStanding DEF InFile
<1> HIDE DEF S
<1>11. ASSUME NEW k \in Kvals
       PROVE  /\ Accepted(k, InFile(S, k)) = Accepted(k, list[k])
              /\ \A T : Piece(T, ValuesSection, keys) =>
                   Accepted(k, InFile(T, k)) \in {Accepted(k, list[k]), DefaultConfigValue(k)}
  <2>1. CASE k \in W
    <3>1. PICK n \in 1..Len(keys) : keys[n].name = k
      BY <1>6, <2>1
    <3>2. keys[n].value = list[k]
      BY <1>6, <3>1
    <3>3. /\ InFile(S, k) = list[k]
          /\ \A T : Piece(T, ValuesSection, keys) =>
               InFile(T, k) \in {list[k], DefaultConfigValue(k)}
      BY <1>9, <3>1, <3>2
    <3>4. QED
      BY <1>4, <2>1, <3>3
  <2>2. CASE k \notin W
    BY <1>4, <1>8, <1>10, <2>2
  <2>3. QED
    BY <2>1, <2>2
<1>12. QED
  BY <1>6, <1>7, <1>11 DEF keys, S

-----------------------------------------------------------------------------
(* What Load makes of a file, whole or with a part replaced.               *)

\* Every default is one of the values the program takes (config.h).
LEMMA DefaultIsValid ==
    ASSUME NEW v \in ConfigValue
    PROVE  ValidConfigValue(v, DefaultConfigValue(v))
BY DEF ConfigValue, Switches, Quantities, Modes, KipValues, ValidConfigValue,
       DefaultConfigValue

LEMMA AcceptedIsValid ==
    ASSUME NEW k \in Kvals, NEW x
    PROVE  ValidConfigValue(k, Accepted(k, x))
<1>1. k \in ConfigValue
  BY StoreAssumption
<1>2. QED
  BY <1>1, DefaultIsValid DEF Accepted

\* SetProfiles and SetConfigValues, by the part they change.
Keys(part, content) ==
    IF part = ValuesSection THEN ValueKeys(content) ELSE ProfileKeys(content)

ContentRight(part, content) ==
    /\ part \in Parts
    /\ part = ValuesSection => content \in [Kvals -> Inputs]
    /\ part \in Tids => content \in [Slots -> Mhz]

LEMMA PartCases ==
    ASSUME NEW part \in Parts
    PROVE  \/ part = ValuesSection /\ part \notin Tids
           \/ part # ValuesSection /\ part \in Tids
BY PartNames, Zenon DEF Parts

LEMMA KeysFacts ==
    ASSUME NEW part, NEW content, ContentRight(part, content)
    PROVE  /\ part \in STRING /\ part \in Parts
           /\ AreKeys(Keys(part, content)) /\ KeysRight(part, Keys(part, content))
<1>1. part \in Parts /\ part \in STRING
  BY PartNames DEF ContentRight
<1>2. CASE part = ValuesSection
  BY <1>1, <1>2, ValueKeysFacts DEF ContentRight, Keys
<1>3. CASE part # ValuesSection
  <2>1. part \in Tids /\ content \in [Slots -> Mhz]
    BY <1>1, <1>3, PartCases DEF ContentRight
  <2>2. QED
    BY <1>1, <1>3, <2>1, ProfileKeysFacts DEF Keys
<1>4. QED
  BY <1>2, <1>3

LEMMA PutLoaded ==
    ASSUME NEW lines, Tidy(lines), NEW part, NEW content, ContentRight(part, content)
    PROVE  /\ Tidy(IniPutSection(lines, part, Keys(part, content)))
           /\ LoadedValues(IniPutSection(lines, part, Keys(part, content))) =
                 IF part = ValuesSection THEN [k \in Kvals |-> Accepted(k, content[k])]
                 ELSE LoadedValues(lines)
           /\ LoadedClocks(IniPutSection(lines, part, Keys(part, content))) =
                 IF part \in Tids THEN [LoadedClocks(lines) EXCEPT ![part] = content]
                 ELSE LoadedClocks(lines)
<1> DEFINE K == Keys(part, content)
           P == IniPutSection(lines, part, K)
           S == Section(part, K)
<1>1. part \in Parts /\ AreKeys(K) /\ KeysRight(part, K)
  BY KeysFacts
<1> HIDE DEF K
<1>2. /\ Tidy(P)
      /\ \A s, k, skip, d : s # part =>
            Standing(P, s, k, skip, d) = Standing(lines, s, k, skip, d)
      /\ \A k, skip, d : Standing(P, part, k, skip, d) = Standing(S, part, k, skip, d)
  <2>1. Tidy(P)
    BY <1>1, PutFacts
  <2>2. ASSUME NEW s, NEW k, NEW skip, NEW d, s # part
        PROVE  Standing(P, s, k, skip, d) = Standing(lines, s, k, skip, d)
    BY <1>1, <2>2, PutOthers
  <2>3. ASSUME NEW k, NEW skip, NEW d
        PROVE  Standing(P, part, k, skip, d) = Standing(S, part, k, skip, d)
    BY <1>1, PutOwn
  <2> HIDE DEF P, S
  <2>4. QED
    BY <2>1, <2>2, <2>3
<1> HIDE DEF P, S
<1>3. CASE part = ValuesSection
  <2>1. part \notin Tids /\ content \in [Kvals -> Inputs]
    BY <1>3, PartNames DEF ContentRight
  <2>2. ASSUME NEW k \in Kvals  PROVE Accepted(k, InFile(P, k)) = Accepted(k, content[k])
    <3>1. Accepted(k, InFile(S, k)) = Accepted(k, content[k])
      BY <1>3, <2>1, ValueKeysFacts DEF S, K, Keys
    <3>2. InFile(P, k) = InFile(S, k)
      BY <1>2, <1>3 DEF InFile
    <3>3. QED
      BY <3>1, <3>2
  <2>3. LoadedValues(P) = [k \in Kvals |-> Accepted(k, content[k])]
    BY <2>2 DEF LoadedValues
  <2>4. ASSUME NEW t \in Tids, NEW s \in Slots
        PROVE  Standing(P, t, s, {0}, 0) = Standing(lines, t, s, {0}, 0)
    BY <1>2, <2>1
  <2>5. LoadedClocks(P) = LoadedClocks(lines)
    BY <2>4 DEF LoadedClocks
  <2>6. QED
    BY <1>2, <1>3, <2>1, <2>3, <2>5 DEF P, K
<1>4. CASE part # ValuesSection
  <2>1. part \in Tids /\ content \in [Slots -> Mhz]
    BY <1>1, <1>4, PartCases DEF ContentRight
  <2>2. ASSUME NEW k \in Kvals  PROVE InFile(P, k) = InFile(lines, k)
    BY <1>2, <1>4 DEF InFile
  <2>3. LoadedValues(P) = LoadedValues(lines)
    BY <2>2 DEF LoadedValues
  <2>4. ASSUME NEW t \in Tids, t # part, NEW s \in Slots
        PROVE  Standing(P, t, s, {0}, 0) = Standing(lines, t, s, {0}, 0)
    BY <1>2, <2>4
  <2>5. ASSUME NEW s \in Slots
        PROVE  Standing(P, part, s, {0}, 0) = content[s]
    <3>1. Standing(S, part, s, {0}, 0) = content[s]
      BY <1>4, <2>1, ProfileKeysFacts DEF S, K, Keys
    <3>2. Standing(P, part, s, {0}, 0) = Standing(S, part, s, {0}, 0)
      BY <1>2
    <3>3. QED
      BY <3>1, <3>2
  <2>6. content = [s \in Slots |-> content[s]]
    BY <2>1
  <2>7. LoadedClocks(P) = [LoadedClocks(lines) EXCEPT ![part] = content]
    <3>1. \A t \in Tids : LoadedClocks(P)[t] =
             IF t = part THEN content ELSE LoadedClocks(lines)[t]
      <4> TAKE t \in Tids
      <4>1. CASE t = part
        BY <2>5, <2>6, <4>1 DEF LoadedClocks
      <4>2. CASE t # part
        BY <2>4, <4>2 DEF LoadedClocks
      <4>3. QED
        BY <4>1, <4>2
    <3>2. /\ LoadedClocks(P) = [t \in Tids |-> LoadedClocks(P)[t]]
          /\ LoadedClocks(lines) = [t \in Tids |-> LoadedClocks(lines)[t]]
      BY DEF LoadedClocks
    <3>3. QED
      BY <2>1, <3>1, <3>2
  <2>8. QED
    BY <1>2, <1>4, <2>1, <2>3, <2>7 DEF P, K
<1>5. QED
  BY <1>3, <1>4

LEMMA NothingLoaded ==
    /\ Tidy(<<>>) /\ LoadedValues(<<>>) = Defaults /\ LoadedClocks(<<>>) = NoClocks
<1> DEFINE e == <<>>
<1>1. DOMAIN e = {}
  OBVIOUS
<1>0. e \in Seq(Line)
  OBVIOUS
<1> HIDE DEF e
<1>2. \A s : Foreign(e, s)
  BY <1>1 DEF Foreign
<1>3. \A s, k : Callbacks(e, s, k) = {}
  BY <1>1 DEF Callbacks
<1>4. Tidy(e)
  BY <1>0, <1>1, <1>3 DEF Tidy, SectionsOnce, ClocksOnce, InRange
<1>5. LoadedClocks(e) = NoClocks
  <2>1. ASSUME NEW t \in Tids, NEW s \in Slots  PROVE Standing(e, t, s, {0}, 0) = 0
    BY <1>0, <1>2, ForeignSilent
  <2>2. QED
    BY <2>1 DEF LoadedClocks, NoClocks
<1>6. LoadedValues(e) = Defaults
  <2>1. ASSUME NEW k \in Kvals  PROVE Accepted(k, InFile(e, k)) = DefaultConfigValue(k)
    <3>1. InFile(e, k) = DefaultConfigValue(k)
      BY <1>0, <1>2, ForeignSilent DEF InFile
    <3>2. QED
      BY <3>1 DEF Accepted
  <2>2. QED
    BY <2>1 DEF LoadedValues, Defaults
<1>7. QED
  BY <1>4, <1>5, <1>6 DEF e

LEMMA PutInEmpty ==
    ASSUME NEW part, NEW content, ContentRight(part, content)
    PROVE  /\ IniPutSection(<<>>, part, Keys(part, content))
                = Section(part, Keys(part, content))
           /\ Piece(Section(part, Keys(part, content)), part, Keys(part, content))
<1> DEFINE K == Keys(part, content)
           S == Section(part, K)
           e == <<>>
<1>1. Piece(S, part, K)
  <2>1. part \in STRING /\ AreKeys(K)
    BY KeysFacts
  <2> HIDE DEF K
  <2>2. QED
    BY <2>1, SectionLines
<1>2. S \in Seq(Line)
  BY <1>1, Zenon DEF Piece
<1>3. e \in Seq(Line) /\ Len(e) = 0
  OBVIOUS
<1> HIDE DEF S, K, e
<1>4. FirstHead(e, part) = 0
  <2>1. 1..Len(e) = {}
    BY <1>3
  <2>2. FirstHead(e, part) = 0 \/ FirstHead(e, part) \in 1..Len(e)
    BY <1>3, FirstHeadFacts
  <2>3. QED
    BY <2>1, <2>2
<1>5. IniPutSection(e, part, K) = e \o S
  BY <1>4 DEF IniPutSection, S
<1>6. e \o S = S
  BY <1>2 DEF e
<1>7. QED
  BY <1>1, <1>5, <1>6 DEF S, K, e

\* A new file holds one part, and at a loss of power some of its keys.
LEMMA PieceLoaded ==
    ASSUME NEW T, NEW part, NEW content, ContentRight(part, content),
           Piece(T, part, Keys(part, content))
    PROVE  /\ Tidy(T)
           /\ part # ValuesSection => LoadedValues(T) = Defaults
           /\ \A t \in Tids : t # part => LoadedClocks(T)[t] = NoClocks[t]
           /\ part = ValuesSection => \A k \in Kvals :
                 LoadedValues(T)[k] \in {Accepted(k, content[k]), DefaultConfigValue(k)}
           /\ part \in Tids => \A s \in Slots : LoadedClocks(T)[part][s] \in {content[s], 0}
<1> DEFINE K == Keys(part, content)
<1>1. part \in Parts /\ AreKeys(K) /\ KeysRight(part, K)
  BY KeysFacts
<1> HIDE DEF K
<1>2. Piece(T, part, K)
  BY DEF K
<1>3. T \in Seq(Line) /\ \A s : s # part => Foreign(T, s)
  BY <1>2, SectionCallbacks DEF Piece
<1>4. Tidy(T)
  BY <1>1, <1>2, TidyPiece
<1>5. ASSUME part # ValuesSection  PROVE LoadedValues(T) = Defaults
  <2>1. ASSUME NEW k \in Kvals  PROVE Accepted(k, InFile(T, k)) = DefaultConfigValue(k)
    <3>1. InFile(T, k) = DefaultConfigValue(k)
      BY <1>3, <1>5, ForeignSilent DEF InFile
    <3>2. QED
      BY <3>1 DEF Accepted
  <2>2. QED
    BY <2>1 DEF LoadedValues, Defaults
<1>6. ASSUME NEW t \in Tids, t # part  PROVE LoadedClocks(T)[t] = NoClocks[t]
  <2>1. ASSUME NEW s \in Slots  PROVE Standing(T, t, s, {0}, 0) = 0
    BY <1>3, <1>6, ForeignSilent
  <2>2. QED
    BY <2>1 DEF LoadedClocks, NoClocks
<1>7. ASSUME part = ValuesSection, NEW k \in Kvals
      PROVE  LoadedValues(T)[k] \in {Accepted(k, content[k]), DefaultConfigValue(k)}
  <2>1. content \in [Kvals -> Inputs] /\ K = ValueKeys(content)
    BY <1>7 DEF ContentRight, K, Keys
  <2>2. Piece(T, ValuesSection, ValueKeys(content))
    BY <1>2, <1>7, <2>1
  <2>3. Accepted(k, InFile(T, k)) \in {Accepted(k, content[k]), DefaultConfigValue(k)}
    BY <2>1, <2>2, ValueKeysFacts
  <2>4. QED
    BY <2>3 DEF LoadedValues
<1>8. ASSUME part \in Tids, NEW s \in Slots
      PROVE  LoadedClocks(T)[part][s] \in {content[s], 0}
  <2>1. part # ValuesSection
    BY <1>8, PartNames
  <2>2. content \in [Slots -> Mhz] /\ K = ProfileKeys(content)
    BY <1>8, <2>1 DEF ContentRight, K, Keys
  <2>3. Piece(T, part, ProfileKeys(content))
    BY <1>2, <2>2
  <2>4. Standing(T, part, s, {0}, 0) \in {content[s], 0}
    BY <1>8, <2>2, <2>3, ProfileKeysFacts
  <2>5. QED
    BY <1>8, <2>4 DEF LoadedClocks
<1>9. QED
  BY <1>4, <1>5, <1>6, <1>7, <1>8

LEMMA LoadedTyped ==
    ASSUME NEW lines, Tidy(lines)
    PROVE  /\ LoadedClocks(lines) \in [Tids -> [Slots -> Mhz]]
           /\ \A k \in Kvals : /\ ValidConfigValue(k, LoadedValues(lines)[k])
                               /\ LoadedValues(lines)[k] \in Inputs \cup {DefaultConfigValue(k)}
<1>1. lines \in Seq(Line) /\ InRange(lines)
  BY DEF Tidy
<1>2. ASSUME NEW t \in Tids, NEW s \in Slots  PROVE Standing(lines, t, s, {0}, 0) \in Mhz
  <2> DEFINE skip == {0}
  <2>1. 0 \in Mhz
    BY StoreAssumption
  <2> HIDE DEF skip
  <2>2. CASE Standing(lines, t, s, skip, 0) = 0
    BY <2>1, <2>2 DEF skip
  <2>3. CASE \E x \in Taken(lines, t, s, skip) : Standing(lines, t, s, skip, 0) = lines[x].value
    BY <1>1, <2>3 DEF InRange, Taken, skip
  <2>4. QED
    BY <1>1, <2>2, <2>3, StandingCases
<1>3. ASSUME NEW k \in Kvals
      PROVE  InFile(lines, k) \in Inputs \cup {DefaultConfigValue(k)}
  <2> DEFINE skip == {}
             d    == DefaultConfigValue(k)
             st   == Standing(lines, ValuesSection, k, skip, d)
  <2> HIDE DEF skip, d
  <2>1. \/ st = d
        \/ \E x \in Taken(lines, ValuesSection, k, skip) : st = lines[x].value
    BY <1>1, StandingCases
  <2>2. ASSUME NEW x \in Taken(lines, ValuesSection, k, skip)  PROVE lines[x].value \in Inputs
    BY <1>1, <2>2 DEF InRange, Taken
  <2>3. st \in Inputs \cup {d}
    BY <2>1, <2>2
  <2>4. QED
    BY <2>3 DEF InFile, d, skip
<1>4. ASSUME NEW k \in Kvals
      PROVE  /\ ValidConfigValue(k, LoadedValues(lines)[k])
             /\ LoadedValues(lines)[k] \in Inputs \cup {DefaultConfigValue(k)}
  <2>1. LoadedValues(lines)[k] = Accepted(k, InFile(lines, k))
    BY DEF LoadedValues
  <2>2. ValidConfigValue(k, Accepted(k, InFile(lines, k)))
    BY AcceptedIsValid
  <2>3. Accepted(k, InFile(lines, k)) \in {InFile(lines, k), DefaultConfigValue(k)}
    BY DEF Accepted
  <2>4. QED
    BY <1>3, <2>1, <2>2, <2>3
<1>5. QED
  BY <1>2, <1>4 DEF LoadedClocks

-----------------------------------------------------------------------------
(* The count of a title's profiles is that of its clocks.                  *)

LEMMA SlotsFinite ==
    /\ IsFiniteSet(Slots) /\ Cardinality(Slots) <= Len(SlotSeq)
    /\ Len(SlotSeq) \in Nat
    /\ \A S \in SUBSET Slots : IsFiniteSet(S) /\ Cardinality(S) \in 0..Len(SlotSeq)
<1> DEFINE n == Len(SlotSeq)
           f == [i \in 1..n |-> SlotSeq[i]]
<1>1. SlotSeq \in Seq(STRING)
  BY StoreAssumption DEF IsEnum
<1>2. n \in Nat /\ DOMAIN SlotSeq = 1..n
  BY <1>1
<1> HIDE DEF n
<1>3. f \in Surjection(1..n, Slots)
  BY <1>2 DEF Surjection, Slots
<1>4. IsFiniteSet(1..n) /\ Cardinality(1..n) = n
  BY <1>2, FS_Interval
<1> HIDE DEF f
<1>5. IsFiniteSet(Slots) /\ Cardinality(Slots) <= n
  BY <1>3, <1>4, FS_Surjection
<1>6. ASSUME NEW S \in SUBSET Slots  PROVE IsFiniteSet(S) /\ Cardinality(S) \in 0..n
  <2>1. IsFiniteSet(S) /\ Cardinality(S) <= Cardinality(Slots)
    BY <1>5, FS_Subset
  <2>2. Cardinality(S) \in Nat /\ Cardinality(Slots) \in Nat
    BY <1>5, <2>1, FS_CardinalityType
  <2>3. QED
    BY <1>2, <1>5, <2>1, <2>2
<1>7. QED
  BY <1>2, <1>5, <1>6 DEF n

WithClock(clocks) == {s \in Slots : clocks[s] # 0}

LEMMA CountFacts ==
    ASSUME NEW lines, Tidy(lines), NEW t \in Tids
    PROVE  Cardinality(Counted(lines, t)) = Cardinality(WithClock(LoadedClocks(lines)[t]))
<1> DEFINE C == Counted(lines, t)
           W == WithClock(LoadedClocks(lines)[t])
           f == [i \in C |-> lines[i].name]
<1>1. lines \in Seq(Line) /\ ClocksOnce(lines)
  BY DEF Tidy
<1>2. \A i \in C : /\ lines[i].name \in Slots /\ lines[i].value # 0
                   /\ i \in Callbacks(lines, t, lines[i].name)
  BY DEF Counted, Callbacks
<1>3. \A s \in Slots : LoadedClocks(lines)[t][s] = Standing(lines, t, s, {0}, 0)
  BY DEF LoadedClocks
<1>4. ASSUME NEW i \in C  PROVE LoadedClocks(lines)[t][lines[i].name] # 0
  <2> DEFINE s    == lines[i].name
             skip == {0}
  <2>1. s \in Slots /\ lines[i].value # 0 /\ i \in Callbacks(lines, t, s)
    BY <1>2
  <2> HIDE DEF s
  <2>2. i \in Taken(lines, t, s, skip)
    BY <2>1 DEF Taken
  <2>3. \A j \in Taken(lines, t, s, skip) : j = i
    BY <1>1, <2>1 DEF Taken, ClocksOnce
  <2>4. i \in Nat
    BY <1>1, <2>1 DEF Callbacks
  <2> HIDE DEF skip
  <2>5. \A j \in Taken(lines, t, s, skip) : j <= i
    BY <2>3, <2>4
  <2>6. Standing(lines, t, s, skip, 0) = lines[i].value
    BY <1>1, <2>2, <2>5, StandingLast
  <2>7. QED
    BY <1>3, <2>1, <2>6 DEF s, skip
<1>5. ASSUME NEW s \in W  PROVE \E i \in C : lines[i].name = s
  <2> DEFINE skip == {0}
  <2>1. s \in Slots /\ Standing(lines, t, s, skip, 0) # 0
    BY <1>3 DEF WithClock
  <2> HIDE DEF skip
  <2>2. PICK x \in Taken(lines, t, s, skip) : Standing(lines, t, s, skip, 0) = lines[x].value
    BY <1>1, <2>1, StandingCases
  <2>3. x \in Callbacks(lines, t, s) /\ lines[x].value # 0 /\ lines[x].name = s
    BY <2>1, <2>2 DEF Taken, Callbacks
  <2>4. x \in C
    BY <2>1, <2>3 DEF Counted
  <2>5. QED
    BY <2>3, <2>4
<1>6. \A i, j \in C : lines[i].name = lines[j].name => i = j
  BY <1>1, <1>2 DEF ClocksOnce
<1>7. \A i \in C : lines[i].name \in W
  BY <1>2, <1>4 DEF WithClock
<1> HIDE DEF C, W
<1>8. f \in Bijection(C, W)
  <2>1. f \in [C -> W]
    BY <1>7
  <2>2. \A i, j \in C : f[i] = f[j] => i = j
    BY <1>6
  <2>3. \A s \in W : \E i \in C : f[i] = s
    BY <1>5
  <2> HIDE DEF f
  <2>4. QED
    BY <2>1, <2>2, <2>3 DEF Bijection, Injection, Surjection, IsInjective
<1>9. IsFiniteSet(C)
  <2>1. Len(lines) \in Nat /\ C \in SUBSET (1..Len(lines))
    BY <1>1 DEF C, Counted, Callbacks
  <2>2. IsFiniteSet(1..Len(lines))
    BY <2>1, FS_Interval
  <2>3. QED
    BY <2>1, <2>2, FS_Subset
<1>10. Cardinality(W) = Cardinality(C)
  BY <1>8, <1>9, FS_Bijection DEF ExistsBijection
<1>11. QED
  BY <1>10 DEF C, W

LEMMA CountsLoaded ==
    ASSUME NEW lines, Tidy(lines)
    PROVE  LoadedCounts(lines) =
             [t \in Tids |-> Cardinality({s \in Slots : LoadedClocks(lines)[t][s] # 0})]
BY CountFacts DEF LoadedCounts, WithClock

-----------------------------------------------------------------------------
(* The inductive invariant.                                                *)

PutSteps == {"new", "temp", "removed", "apply"}

\* Every variable is of its kind; the file has nothing twice, and none is empty.
StateRight ==
    /\ gLoaded \in BOOLEAN
    /\ now \in 1..MaxTime /\ readAt \in 0..now /\ mtime \in 0..now /\ gMtime \in 0..now
    /\ Tidy(ini) /\ (mtime = 0 => ini = <<>>)
    /\ put = [step |-> put.step, part |-> put.part, content |-> put.content,
              lines |-> put.lines, time |-> put.time]
    /\ put.step \in {"idle", "load"} \cup PutSteps

\* What is in memory is of its kind, and there is nothing before the first Load.
MemoryRight ==
    /\ values = [k \in Kvals |-> values[k]]
    /\ \A k \in Kvals : ValidConfigValue(k, values[k])
    /\ mhzMap \in [Tids -> [Slots -> Mhz]]
    /\ countMap = [t \in Tids |-> Cardinality({s \in Slots : mhzMap[t][s] # 0})]
    /\ ~gLoaded => values = Defaults /\ mhzMap = NoClocks /\ put.step \in {"idle", "load"}
    /\ put.step = "load" => ~gLoaded /\ gMtime = mtime

\* How far the put has come says what is in the file and what is still to come.
PutRight ==
    put.step \in PutSteps =>
        /\ gLoaded /\ ContentRight(put.part, put.content) /\ Tidy(put.lines)
        /\ put.step = "new" =>
              /\ ini = <<>> /\ mtime # 0
              /\ put.lines = Section(put.part, Keys(put.part, put.content))
        /\ put.step = "temp" =>
              put.lines = IniPutSection(ini, put.part, Keys(put.part, put.content))
        /\ put.step = "removed" =>
              ini = <<>> /\ mtime = 0 /\ put.time \in readAt..now /\ put.time # 0
        /\ put.step = "apply" => mtime >= readAt

StoreIInv == StateRight /\ MemoryRight /\ PutRight /\ FreshWhenOlder

LEMMA Numbers ==
    /\ MaxTime \in Nat /\ MaxTime >= 1 /\ 0 \in Mhz
    /\ Inputs \subseteq Nat /\ Mhz \subseteq Nat
BY StoreAssumption

LEMMA EditsTidy ==
    ASSUME TidyEdits, NEW lines \in Edits
    PROVE  Tidy(lines)
BY EditsAssumption DEF TidyEdits, Tidy

LEMMA NothingInMemory ==
    /\ Defaults = [k \in Kvals |-> Defaults[k]]
    /\ \A k \in Kvals : ValidConfigValue(k, Defaults[k])
    /\ NoClocks \in [Tids -> [Slots -> Mhz]]
    /\ [t \in Tids |-> 0] = [t \in Tids |-> Cardinality({s \in Slots : NoClocks[t][s] # 0})]
<1>1. \A k \in Kvals : ValidConfigValue(k, Defaults[k])
  BY StoreAssumption, DefaultIsValid DEF Defaults
<1>2. \A t \in Tids : {s \in Slots : NoClocks[t][s] # 0} = {}
  BY DEF NoClocks
<1>3. [t \in Tids |-> 0] = [t \in Tids |-> Cardinality({s \in Slots : NoClocks[t][s] # 0})]
  BY <1>2, FS_EmptySet
<1>4. QED
  BY <1>1, <1>3, Numbers DEF Defaults, NoClocks

LEMMA InitRight ==
    ASSUME TidyEdits, Init
    PROVE  StoreIInv
<1>1. Tidy(ini)
  BY EditsTidy, NothingLoaded DEF Init
<1>2. put = Idle /\ gLoaded = FALSE /\ gMtime = 0 /\ readAt = 0 /\ now = 1
  BY DEF Init
<1>3. StateRight
  <2>1. mtime \in 0..now /\ (mtime = 0 => ini = <<>>)
    BY DEF Init
  <2>2. put = [step |-> put.step, part |-> put.part, content |-> put.content,
               lines |-> put.lines, time |-> put.time] /\ put.step = "idle"
    BY <1>2 DEF Idle
  <2>3. gMtime = 0 /\ readAt = 0 /\ now = 1
    BY DEF Init
  <2>4. now \in 1..MaxTime /\ readAt \in 0..now /\ gMtime \in 0..now
    BY <2>3, Numbers
  <2>5. gLoaded \in BOOLEAN
    BY <1>2, Zenon
  <2>6. QED
    BY <1>1, <2>1, <2>2, <2>4, <2>5, Zenon DEF StateRight
<1>4. MemoryRight
  BY NothingInMemory DEF Init, MemoryRight, Idle
<1>5. PutRight
  BY <1>2 DEF PutRight, PutSteps, Idle
<1>6. FreshWhenOlder
  BY <1>2 DEF FreshWhenOlder
<1>7. QED
  BY <1>3, <1>4, <1>5, <1>6 DEF StoreIInv

LEMMA RefreshStatRight ==
    ASSUME StoreIInv, RefreshStat
    PROVE  StoreIInv'
<1>1. put'.step = "load"
      /\ put' = [step |-> put'.step, part |-> put'.part, content |-> put'.content,
                 lines |-> put'.lines, time |-> put'.time]
  BY DEF RefreshStat, Idle
<1>2. StateRight'
  <2>1. /\ now' \in 1..MaxTime /\ readAt' \in 0..now' /\ mtime' \in 0..now'
        /\ gMtime' \in 0..now'
    BY Numbers DEF StoreIInv, StateRight, RefreshStat
  <2>2. Tidy(ini)' /\ (mtime' = 0 => ini' = <<>>) /\ gLoaded' \in BOOLEAN
    BY DEF StoreIInv, StateRight, RefreshStat
  <2>3. QED
    BY <1>1, <2>1, <2>2 DEF StateRight
<1>3. MemoryRight'
  <2>1. values' = Defaults /\ mhzMap' = NoClocks /\ countMap' = [t \in Tids |-> 0]
        /\ gLoaded' = FALSE /\ gMtime' = mtime'
    BY DEF RefreshStat
  <2>2. QED
    BY <1>1, <2>1, NothingInMemory DEF MemoryRight
<1>4. PutRight'
  BY <1>1 DEF PutRight, PutSteps
<1>5. FreshWhenOlder'
  BY <1>1 DEF FreshWhenOlder
<1>6. QED
  BY <1>2, <1>3, <1>4, <1>5 DEF StoreIInv

\* Either nothing is read, and no load counts as the last, or the whole file is.
LEMMA BrowseOutcomes ==
    ASSUME RefreshBrowse
    PROVE  \/ values' = values /\ mhzMap' = mhzMap /\ countMap' = countMap /\ readAt' = 0
           \/ /\ values' = LoadedValues(ini) /\ mhzMap' = LoadedClocks(ini)
              /\ countMap' = LoadedCounts(ini) /\ readAt' = readAt
BY DEF RefreshBrowse

LEMMA RefreshBrowseRight ==
    ASSUME StoreIInv, RefreshBrowse
    PROVE  StoreIInv'
<1>1. put'.step = "idle"
      /\ put' = [step |-> put'.step, part |-> put'.part, content |-> put'.content,
                 lines |-> put'.lines, time |-> put'.time]
  BY DEF RefreshBrowse, Idle
<1>2. /\ gMtime = mtime /\ values = Defaults /\ mhzMap = NoClocks /\ Tidy(ini)
      /\ gLoaded' = TRUE /\ UNCHANGED <<ini, mtime, gMtime, now>>
  BY DEF StoreIInv, StateRight, MemoryRight, RefreshBrowse
<1>3. StateRight'
  <2>1. now \in Nat /\ readAt \in 0..now
    BY Numbers DEF StoreIInv, StateRight
  <2>2. readAt' \in 0..now'
    BY <1>2, <2>1, BrowseOutcomes
  <2>3. QED
    BY <1>1, <1>2, <2>2 DEF StoreIInv, StateRight
<1>4. CASE values' = values /\ mhzMap' = mhzMap /\ countMap' = countMap /\ readAt' = 0
  <2>1. MemoryRight'
    BY <1>1, <1>2, <1>4 DEF StoreIInv, MemoryRight
  <2>2. FreshWhenOlder'
    BY <1>4 DEF FreshWhenOlder
  <2>3. QED
    BY <1>1, <1>3, <2>1, <2>2 DEF StoreIInv, PutRight, PutSteps
<1>5. CASE /\ values' = LoadedValues(ini) /\ mhzMap' = LoadedClocks(ini)
           /\ countMap' = LoadedCounts(ini) /\ readAt' = readAt
  <2>1. /\ LoadedClocks(ini) \in [Tids -> [Slots -> Mhz]]
        /\ \A k \in Kvals : ValidConfigValue(k, LoadedValues(ini)[k])
    BY <1>2, LoadedTyped
  <2>2. LoadedCounts(ini) =
           [t \in Tids |-> Cardinality({s \in Slots : LoadedClocks(ini)[t][s] # 0})]
    BY <1>2, CountsLoaded
  <2>3. LoadedValues(ini) = [k \in Kvals |-> LoadedValues(ini)[k]]
    BY DEF LoadedValues
  <2>4. MemoryRight'
    BY <1>1, <1>2, <1>5, <2>1, <2>2, <2>3 DEF MemoryRight
  <2>5. FreshWhenOlder'
    BY <1>2, <1>5 DEF FreshWhenOlder
  <2>6. QED
    BY <1>1, <1>3, <2>4, <2>5 DEF StoreIInv, PutRight, PutSteps
<1>6. QED
  BY <1>4, <1>5, BrowseOutcomes

LEMMA PutStepRight ==
    ASSUME StoreIInv, NEW part, NEW content, ContentRight(part, content),
           Put(part, content, Keys(part, content))
    PROVE  StoreIInv'
<1> DEFINE P == IniPutSection(ini, part, Keys(part, content))
<1>1. /\ gLoaded = TRUE /\ put.step = "idle" /\ Tidy(ini) /\ (mtime = 0 => ini = <<>>)
      /\ UNCHANGED <<ini, gLoaded, gMtime, values, mhzMap, countMap, now, readAt>>
  BY DEF StoreIInv, StateRight, Put
<1>2. now \in 1..MaxTime /\ readAt \in 0..now /\ mtime \in 0..now /\ gMtime \in 0..now
  BY DEF StoreIInv, StateRight
<1>3. Tidy(P)
  BY <1>1, PutLoaded
<1> HIDE DEF P
<1>4. CASE put' = put
  <2>1. mtime' = mtime
    BY <1>1, <1>4 DEF Put
  <2>2. StateRight' /\ MemoryRight' /\ PutRight' /\ FreshWhenOlder'
    BY <1>1, <1>4, <2>1
       DEF StoreIInv, StateRight, MemoryRight, PutRight, FreshWhenOlder, PutSteps
  <2>3. QED
    BY <2>2 DEF StoreIInv
<1>5. CASE put' = [step |-> IF mtime = 0 THEN "new" ELSE "temp", part |-> part,
                   content |-> content, lines |-> P, time |-> now]
  <2>1. /\ put'.part = part /\ put'.content = content /\ put'.lines = P
        /\ put'.step \in {"new", "temp"} /\ (put'.step = "new" <=> mtime = 0)
        /\ put' = [step |-> put'.step, part |-> put'.part, content |-> put'.content,
                   lines |-> put'.lines, time |-> put'.time]
    BY <1>5
  <2>2. mtime' = IF put'.step = "new" THEN now ELSE mtime
    BY DEF Put
  <2>3. mtime' \in 0..now' /\ mtime' # 0
    BY <1>1, <1>2, <2>1, <2>2
  <2>4. StateRight'
    <3>1. /\ now' \in 1..MaxTime /\ readAt' \in 0..now' /\ gMtime' \in 0..now'
          /\ Tidy(ini)' /\ gLoaded' \in BOOLEAN
      BY <1>1, <1>2
    <3>2. put'.step \in {"idle", "load"} \cup PutSteps
      BY <2>1 DEF PutSteps
    <3>3. QED
      BY <2>1, <2>3, <3>1, <3>2, Zenon DEF StateRight
  <2>5. MemoryRight'
    BY <1>1, <2>1 DEF StoreIInv, MemoryRight
  <2>6. PutRight'
    <3>1. ASSUME put'.step = "new"
          PROVE  ini' = <<>> /\ P = Section(part, Keys(part, content))
      <4>1. ini = <<>>
        BY <1>1, <2>1, <3>1
      <4>2. QED
        BY <1>1, <4>1, PutInEmpty DEF P
    <3>2. ASSUME put'.step = "temp"
          PROVE  P = IniPutSection(ini', part, Keys(part, content))
      BY <1>1 DEF P
    <3>3. gLoaded' /\ ContentRight(put'.part, put'.content) /\ Tidy(put'.lines)
      BY <1>1, <1>3, <2>1
    <3>4. /\ put'.step = "new" =>
               /\ ini' = <<>> /\ mtime' # 0
               /\ put'.lines = Section(put'.part, Keys(put'.part, put'.content))
          /\ put'.step = "temp" =>
               put'.lines = IniPutSection(ini', put'.part, Keys(put'.part, put'.content))
          /\ put'.step # "removed" /\ put'.step # "apply"
      BY <2>1, <2>3, <3>1, <3>2
    <3>5. QED
      BY <3>3, <3>4, Zenon DEF PutRight
  <2>7. FreshWhenOlder'
    BY <2>1 DEF FreshWhenOlder
  <2>8. QED
    BY <2>4, <2>5, <2>6, <2>7 DEF StoreIInv
<1>6. QED
  BY <1>4, <1>5 DEF Put, P

LEMMA WriteNewRight ==
    ASSUME StoreIInv, WriteNew
    PROVE  StoreIInv'
<1>1. /\ put'.step = "apply" /\ put'.part = put.part /\ put'.content = put.content
      /\ put'.lines = put.lines
      /\ put' = [step |-> put'.step, part |-> put'.part, content |-> put'.content,
                 lines |-> put'.lines, time |-> put'.time]
  BY DEF StoreIInv, StateRight, WriteNew
<1>2. /\ put.step = "new" /\ put.step \in PutSteps /\ ini' = put.lines /\ mtime' = now
      /\ UNCHANGED <<gLoaded, gMtime, values, mhzMap, countMap, now, readAt>>
  BY DEF WriteNew, PutSteps
<1>3. gLoaded /\ ContentRight(put.part, put.content) /\ Tidy(put.lines)
  BY <1>2 DEF StoreIInv, PutRight
<1>4. now \in 1..MaxTime /\ readAt \in 0..now /\ gMtime \in 0..now /\ gLoaded \in BOOLEAN
  BY DEF StoreIInv, StateRight
<1>5. mtime' \in 0..now' /\ mtime' # 0 /\ mtime' >= readAt'
  BY <1>2, <1>4
<1>6. StateRight'
  <2>1. put'.step \in {"idle", "load"} \cup PutSteps
    BY <1>1 DEF PutSteps
  <2>2. QED
    BY <1>1, <1>2, <1>3, <1>4, <1>5, <2>1 DEF StateRight
<1>7. MemoryRight'
  BY <1>1, <1>2, <1>3 DEF StoreIInv, MemoryRight
<1>8. PutRight'
  BY <1>1, <1>2, <1>3, <1>5 DEF PutRight
<1>9. FreshWhenOlder'
  BY <1>1 DEF FreshWhenOlder
<1>10. QED
  BY <1>6, <1>7, <1>8, <1>9 DEF StoreIInv

LEMMA RemoveRight ==
    ASSUME StoreIInv, Remove
    PROVE  StoreIInv'
<1>1. /\ put'.step = "removed" /\ put'.part = put.part /\ put'.content = put.content
      /\ put'.lines = put.lines /\ put'.time = now
      /\ put' = [step |-> put'.step, part |-> put'.part, content |-> put'.content,
                 lines |-> put'.lines, time |-> put'.time]
  BY DEF StoreIInv, StateRight, Remove
<1>2. /\ put.step = "temp" /\ put.step \in PutSteps /\ ini' = <<>> /\ mtime' = 0
      /\ UNCHANGED <<gLoaded, gMtime, values, mhzMap, countMap, now, readAt>>
  BY DEF Remove, PutSteps
<1>3. gLoaded /\ ContentRight(put.part, put.content) /\ Tidy(put.lines)
  BY <1>2 DEF StoreIInv, PutRight
<1>4. now \in 1..MaxTime /\ readAt \in 0..now /\ gMtime \in 0..now /\ gLoaded \in BOOLEAN
  BY DEF StoreIInv, StateRight
<1>5. mtime' \in 0..now' /\ put'.time \in readAt'..now' /\ put'.time # 0
  BY <1>1, <1>2, <1>4, Numbers
<1>6. StateRight'
  <2>1. put'.step \in {"idle", "load"} \cup PutSteps
    BY <1>1 DEF PutSteps
  <2>2. Tidy(ini)'
    BY <1>2, NothingLoaded
  <2>3. QED
    BY <1>1, <1>2, <1>4, <1>5, <2>1, <2>2 DEF StateRight
<1>7. MemoryRight'
  BY <1>1, <1>2, <1>3 DEF StoreIInv, MemoryRight
<1>8. PutRight'
  BY <1>1, <1>2, <1>3, <1>5 DEF PutRight
<1>9. FreshWhenOlder'
  BY <1>1 DEF FreshWhenOlder
<1>10. QED
  BY <1>6, <1>7, <1>8, <1>9 DEF StoreIInv

LEMMA RenameRight ==
    ASSUME StoreIInv, Rename
    PROVE  StoreIInv'
<1>1. /\ put'.step = "apply" /\ put'.part = put.part /\ put'.content = put.content
      /\ put'.lines = put.lines
      /\ put' = [step |-> put'.step, part |-> put'.part, content |-> put'.content,
                 lines |-> put'.lines, time |-> put'.time]
  BY DEF StoreIInv, StateRight, Rename
<1>2. /\ put.step = "removed" /\ put.step \in PutSteps /\ ini' = put.lines /\ mtime' = put.time
      /\ UNCHANGED <<gLoaded, gMtime, values, mhzMap, countMap, now, readAt>>
  BY DEF Rename, PutSteps
<1>3. /\ gLoaded /\ ContentRight(put.part, put.content) /\ Tidy(put.lines)
      /\ put.time \in readAt..now /\ put.time # 0
  BY <1>2 DEF StoreIInv, PutRight
<1>4. now \in 1..MaxTime /\ readAt \in 0..now /\ gMtime \in 0..now /\ gLoaded \in BOOLEAN
  BY DEF StoreIInv, StateRight
<1>5. mtime' \in 0..now' /\ mtime' # 0 /\ mtime' >= readAt'
  BY <1>2, <1>3, <1>4, Numbers
<1>6. StateRight'
  <2>1. put'.step \in {"idle", "load"} \cup PutSteps
    BY <1>1 DEF PutSteps
  <2>2. QED
    BY <1>1, <1>2, <1>3, <1>4, <1>5, <2>1 DEF StateRight
<1>7. MemoryRight'
  BY <1>1, <1>2, <1>3 DEF StoreIInv, MemoryRight
<1>8. PutRight'
  BY <1>1, <1>2, <1>3, <1>5 DEF PutRight
<1>9. FreshWhenOlder'
  BY <1>1 DEF FreshWhenOlder
<1>10. QED
  BY <1>6, <1>7, <1>8, <1>9 DEF StoreIInv

LEMMA ApplyRight ==
    ASSUME StoreIInv, Apply
    PROVE  StoreIInv'
<1>1. /\ put'.step = "idle"
      /\ put' = [step |-> put'.step, part |-> put'.part, content |-> put'.content,
                 lines |-> put'.lines, time |-> put'.time]
  BY DEF Apply, Idle
<1>2. /\ put.step = "apply" /\ put.step \in PutSteps
      /\ UNCHANGED <<ini, mtime, gLoaded, gMtime, now, readAt>>
      /\ values' = NewValues /\ mhzMap' = NewClocks /\ countMap' = NewCounts
  BY DEF Apply, PutSteps
<1>3. /\ gLoaded /\ ContentRight(put.part, put.content) /\ mtime >= readAt
  BY <1>2 DEF StoreIInv, PutRight
<1>4. /\ now \in 1..MaxTime /\ readAt \in 0..now /\ mtime \in 0..now
  BY DEF StoreIInv, StateRight
<1>5. StateRight'
  BY <1>1, <1>2 DEF StoreIInv, StateRight
<1>6. MemoryRight'
  <2>1. CASE put.part = ValuesSection
    <3>1. put.part \notin Tids
      BY <2>1, PartNames
    <3>2. /\ values' = [k \in Kvals |-> Accepted(k, put.content[k])]
          /\ mhzMap' = mhzMap /\ countMap' = countMap
      BY <1>2, <2>1, <3>1 DEF NewValues, NewClocks, NewCounts
    <3>3. \A k \in Kvals : ValidConfigValue(k, values'[k])
      BY <3>2, AcceptedIsValid
    <3>4. QED
      BY <1>1, <1>2, <1>3, <3>2, <3>3 DEF StoreIInv, MemoryRight
  <2>2. CASE put.part # ValuesSection
    <3> DEFINE t == put.part
               c == put.content
    <3>1. t \in Tids /\ c \in [Slots -> Mhz]
      BY <1>3, <2>2, PartCases DEF ContentRight
    <3>2. /\ values' = values /\ mhzMap' = [mhzMap EXCEPT ![t] = c]
          /\ countMap' = [countMap EXCEPT ![t] = Cardinality({s \in Slots : c[s] # 0})]
      BY <1>2, <2>2, <3>1 DEF NewValues, NewClocks, NewCounts
    <3> HIDE DEF t, c
    <3>3. /\ mhzMap \in [Tids -> [Slots -> Mhz]]
          /\ countMap = [u \in Tids |-> Cardinality({s \in Slots : mhzMap[u][s] # 0})]
      BY DEF StoreIInv, MemoryRight
    <3>4. mhzMap' \in [Tids -> [Slots -> Mhz]]
      BY <3>1, <3>2, <3>3
    <3>5. countMap' = [u \in Tids |-> Cardinality({s \in Slots : mhzMap'[u][s] # 0})]
      <4> DEFINE N(clocks) == Cardinality({s \in Slots : clocks[s] # 0})
      <4>1. /\ countMap = [u \in Tids |-> N(mhzMap[u])]
            /\ countMap' = [countMap EXCEPT ![t] = N(c)]
        BY <3>2, <3>3
      <4> HIDE DEF N
      <4>2. countMap' = [u \in Tids |-> N(mhzMap'[u])]
        BY <3>1, <3>2, <3>3, <4>1
      <4>3. QED
        BY <4>2 DEF N
    <3>6. QED
      BY <1>1, <1>2, <1>3, <3>2, <3>4, <3>5 DEF StoreIInv, MemoryRight
  <2>3. QED
    BY <2>1, <2>2
<1>7. PutRight'
  BY <1>1 DEF PutRight, PutSteps
<1>8. FreshWhenOlder'
  BY <1>2, <1>3, <1>4, Numbers DEF FreshWhenOlder
<1>9. QED
  BY <1>5, <1>6, <1>7, <1>8 DEF StoreIInv

LEMMA EditFileRight ==
    ASSUME TidyEdits, StoreIInv, EditFile
    PROVE  StoreIInv'
<1>1. /\ put.step = "idle"
      /\ UNCHANGED <<gLoaded, gMtime, values, mhzMap, countMap, put, now, readAt>>
      /\ (ini' \in Edits /\ mtime' = now) \/ (ini' = <<>> /\ mtime' = 0)
  BY DEF EditFile
<1>2. now \in 1..MaxTime /\ readAt \in 0..now
  BY DEF StoreIInv, StateRight
<1>3. Tidy(ini)'
  BY <1>1, EditsTidy, NothingLoaded
<1>4. mtime' \in 0..now' /\ (mtime' = 0 => ini' = <<>>) /\ ~(mtime' \in 1..readAt' - 1)
  BY <1>1, <1>2, Numbers
<1>5. StateRight'
  BY <1>1, <1>3, <1>4 DEF StoreIInv, StateRight
<1>6. MemoryRight'
  BY <1>1 DEF StoreIInv, MemoryRight
<1>7. PutRight'
  BY <1>1 DEF PutRight, PutSteps
<1>8. FreshWhenOlder'
  BY <1>4 DEF FreshWhenOlder
<1>9. QED
  BY <1>5, <1>6, <1>7, <1>8 DEF StoreIInv

LEMMA PowerLossRight ==
    ASSUME StoreIInv, PowerLoss
    PROVE  StoreIInv'
<1>1. /\ put' = Idle /\ put'.step = "idle"
      /\ put' = [step |-> put'.step, part |-> put'.part, content |-> put'.content,
                 lines |-> put'.lines, time |-> put'.time]
  BY DEF PowerLoss, Idle
<1>2. /\ gLoaded' = FALSE /\ gMtime' = 0 /\ readAt' = now /\ UNCHANGED <<mtime, now>>
      /\ values' = Defaults /\ mhzMap' = NoClocks /\ countMap' = [t \in Tids |-> 0]
  BY DEF PowerLoss
<1>3. now \in 1..MaxTime /\ mtime \in 0..now /\ Tidy(ini) /\ (mtime = 0 => ini = <<>>)
  BY DEF StoreIInv, StateRight
<1>4. Tidy(ini)' /\ (mtime' = 0 => ini' = <<>>)
  <2>1. CASE put.step = "new"
    <3> DEFINE K == Keys(put.part, put.content)
               S == Section(put.part, K)
    <3>1. ContentRight(put.part, put.content) /\ put.lines = S /\ mtime # 0
      BY <2>1 DEF StoreIInv, PutRight, PutSteps
    <3>2. Piece(S, put.part, K)
      BY <3>1, PutInEmpty
    <3>3. PICK n \in 0..Len(S) : ini' = SubSeq(S, 1, n)
      BY <2>1, <3>1 DEF PowerLoss
    <3> HIDE DEF S
    <3>4. Piece(ini', put.part, K)
      BY <3>2, <3>3, PiecePrefix
    <3>5. Tidy(ini)'
      BY <3>1, <3>4, PieceLoaded
    <3>6. QED
      BY <1>2, <3>1, <3>5
  <2>2. CASE put.step # "new"
    BY <1>2, <1>3, <2>2 DEF PowerLoss
  <2>3. QED
    BY <2>1, <2>2
<1>5. StateRight'
  <2>1. now' \in 1..MaxTime /\ readAt' \in 0..now' /\ mtime' \in 0..now' /\ gMtime' \in 0..now'
    BY <1>2, <1>3, Numbers
  <2>2. gLoaded' \in BOOLEAN
    BY <1>2, Zenon
  <2>3. QED
    BY <1>1, <1>4, <2>1, <2>2 DEF StateRight
<1>6. MemoryRight'
  BY <1>1, <1>2, NothingInMemory DEF MemoryRight
<1>7. PutRight'
  BY <1>1 DEF PutRight, PutSteps
<1>8. FreshWhenOlder'
  BY <1>2 DEF FreshWhenOlder
<1>9. QED
  BY <1>5, <1>6, <1>7, <1>8 DEF StoreIInv

LEMMA ClockRight ==
    ASSUME StoreIInv, Clock
    PROVE  StoreIInv'
<1>1. /\ now < MaxTime /\ now' = now + 1
      /\ UNCHANGED <<ini, mtime, gLoaded, gMtime, values, mhzMap, countMap, put, readAt>>
  BY DEF Clock
<1>2. now \in 1..MaxTime /\ readAt \in 0..now /\ mtime \in 0..now
  BY DEF StoreIInv, StateRight
<1>3. now' \in 1..MaxTime /\ readAt' \in 0..now' /\ mtime' \in 0..now'
  BY <1>1, <1>2, Numbers
<1>4. StateRight'
  BY <1>1, <1>3 DEF StoreIInv, StateRight
<1>5. MemoryRight'
  BY <1>1 DEF StoreIInv, MemoryRight
<1>6. PutRight'
  <2>1. put.step = "removed" => put.time \in readAt..now'
    <3>1. put.step = "removed" => put.time \in readAt..now
      BY DEF StoreIInv, PutRight, PutSteps
    <3>2. QED
      BY <1>1, <1>2, <3>1, Numbers
  <2>2. QED
    BY <1>1, <2>1 DEF StoreIInv, PutRight
<1>7. FreshWhenOlder'
  BY <1>1 DEF StoreIInv, FreshWhenOlder
<1>8. QED
  BY <1>4, <1>5, <1>6, <1>7 DEF StoreIInv

LEMMA SetProfilesPuts ==
    ASSUME NEW t \in Tids, NEW clocks \in [Slots -> Mhz]
    PROVE  ContentRight(t, clocks) /\ ProfileKeys(clocks) = Keys(t, clocks)
<1>1. t # ValuesSection /\ t \in Parts
  BY PartNames
<1>2. QED
  BY <1>1 DEF ContentRight, Keys

LEMMA SetConfigValuesPuts ==
    ASSUME NEW list \in [Kvals -> Inputs]
    PROVE  ContentRight(ValuesSection, list) /\ ValueKeys(list) = Keys(ValuesSection, list)
<1>1. ValuesSection \notin Tids /\ ValuesSection \in Parts
  BY PartNames
<1>2. QED
  BY <1>1 DEF ContentRight, Keys

\* The commands, as the puts they are.
APut == \E part, content : ContentRight(part, content)
                             /\ Put(part, content, Keys(part, content))

LEMMA NextCases ==
    ASSUME Next
    PROVE  \/ RefreshStat \/ RefreshBrowse
           \/ WriteNew \/ Remove \/ Rename \/ Apply
           \/ APut \/ EditFile \/ PowerLoss \/ Clock
<1>1. ASSUME NEW t \in Tids, NEW clocks \in [Slots -> Mhz], SetProfiles(t, clocks)
      PROVE  APut
  BY <1>1, SetProfilesPuts DEF SetProfiles, APut
<1>2. ASSUME NEW list \in [Kvals -> Inputs], SetConfigValues(list)
      PROVE  APut
  BY <1>2, SetConfigValuesPuts DEF SetConfigValues, APut
<1>3. QED
  BY <1>1, <1>2, Zenon DEF Next, Refresh, PutStep

LEMMA StepRight ==
    ASSUME TidyEdits, StoreIInv, [Next]_vars
    PROVE  StoreIInv'
<1>1. CASE Next
  <2>1. CASE APut
    BY <2>1, PutStepRight DEF APut
  <2>2. QED
    BY <1>1, <2>1, NextCases, RefreshStatRight, RefreshBrowseRight, WriteNewRight,
       RemoveRight, RenameRight, ApplyRight, EditFileRight, PowerLossRight, ClockRight
<1>2. CASE UNCHANGED vars
  BY <1>2 DEF vars, StoreIInv, StateRight, MemoryRight, PutRight, FreshWhenOlder
<1>3. QED
  BY <1>1, <1>2

LEMMA RightMeansInv ==
    ASSUME StoreIInv
    PROVE  StoreInv
<1>1. StateRight /\ MemoryRight /\ FreshWhenOlder
  BY DEF StoreIInv
<1>2. mtime \in 0..MaxTime /\ gMtime \in 0..MaxTime /\ readAt \in 0..now /\ now \in 1..MaxTime
  BY <1>1, Numbers DEF StateRight
<1>3. \A i \in DOMAIN ini : ini[i].kind \in {"section", "key", "other"}
  <2>1. ini \in Seq(Line)
    BY <1>1 DEF StateRight, Tidy
  <2>2. \A i \in DOMAIN ini : ini[i] \in Line
    BY <2>1
  <2>3. QED
    BY <2>2 DEF Line
<1>4. CountMatches
  BY <1>1 DEF MemoryRight, CountMatches
<1>5. countMap \in [Tids -> 0..Len(SlotSeq)]
  <2>1. \A t \in Tids : Cardinality({s \in Slots : mhzMap[t][s] # 0}) \in 0..Len(SlotSeq)
    BY SlotsFinite
  <2>2. countMap = [t \in Tids |-> Cardinality({s \in Slots : mhzMap[t][s] # 0})]
    BY <1>1 DEF MemoryRight
  <2>3. QED
    BY <2>1, <2>2
<1>6. put.step \in {"idle", "load", "new", "temp", "removed", "apply"} /\ gLoaded \in BOOLEAN
  BY <1>1 DEF StateRight, PutSteps
<1>7. mhzMap \in [Tids -> [Slots -> Mhz]] /\ \A k \in Kvals : ValidConfigValue(k, values[k])
  BY <1>1 DEF MemoryRight
<1>8. TypeOK
  BY <1>2, <1>3, <1>5, <1>6, <1>7, Zenon DEF TypeOK
<1>9. QED
  BY <1>1, <1>4, <1>8 DEF StoreInv

\* What the sysmodule has in memory is worth something (config.cpp Load, Refresh,
\* SetProfiles): the count of a title's profiles is that of the clocks it has, all
\* config values are valid, and where the modification time tells the file from
\* the one that was loaded, memory is what the file says; for any titles, slots,
\* values and edits in which nothing comes twice.
THEOREM StoreInvHolds == TidyEdits => (Spec => []StoreInv)
<1> SUFFICES ASSUME TidyEdits PROVE Spec => []StoreInv
  OBVIOUS
<1>1. Init => StoreIInv
  BY InitRight
<1>2. StoreIInv /\ [Next]_vars => StoreIInv'
  BY StepRight
<1>3. StoreIInv => StoreInv
  BY RightMeansInv
<1>4. QED
  BY <1>1, <1>2, <1>3, PTL DEF Spec

-----------------------------------------------------------------------------
(* The promise to the clients, step by step.                               *)

StoredIn(lines) == Whole(LoadedValues(lines), LoadedClocks(lines))

LEMMA WholeFacts ==
    ASSUME NEW vs, NEW clocks
    PROVE  /\ DOMAIN Whole(vs, clocks) = Parts
           /\ Whole(vs, clocks)[ValuesSection] = vs
           /\ \A t \in Tids : Whole(vs, clocks)[t] = clocks[t]
           /\ Whole(vs, clocks) # NotLoaded
<1>1. DOMAIN Whole(vs, clocks) = Parts
  BY DEF Whole
<1>2. ValuesSection \in Parts /\ Tids \subseteq Parts /\ ValuesSection \notin Tids
  BY PartNames
<1>3. Whole(vs, clocks)[ValuesSection] = vs
  BY <1>2 DEF Whole
<1>4. \A t \in Tids : Whole(vs, clocks)[t] = clocks[t]
  BY <1>2 DEF Whole
<1>5. DOMAIN NotLoaded = {}
  BY DEF NotLoaded
<1>6. QED
  BY <1>1, <1>2, <1>3, <1>4, <1>5

LEMMA ContentFacts ==
    /\ Content[ValuesSection] = [Kvals -> Inputs \cup {DefaultConfigValue(k) : k \in Kvals}]
    /\ \A t \in Tids : Content[t] = [Slots -> Mhz]
    /\ Empty[ValuesSection] = Defaults
    /\ \A t \in Tids : Empty[t] = NoClocks[t]
    /\ Empty = Whole(Defaults, NoClocks)
<1>1. ValuesSection \in Parts /\ Tids \subseteq Parts /\ ValuesSection \notin Tids
  BY PartNames
<1>2. \A t \in Tids : t \in Parts /\ t # ValuesSection
  BY <1>1
<1>3. \A p \in Parts : p # ValuesSection => p \in Tids
  BY PartCases
<1>4. Empty = Whole(Defaults, NoClocks)
  BY <1>3 DEF Empty, Whole, NoClocks
<1>5. QED
  BY <1>1, <1>2, <1>4 DEF Content, Empty, NoClocks

LEMMA StoredWhole ==
    ASSUME NEW lines, Tidy(lines)
    PROVE  Promise!IsWhole(StoredIn(lines))
<1> DEFINE vs     == LoadedValues(lines)
           clocks == LoadedClocks(lines)
<1>1. /\ clocks \in [Tids -> [Slots -> Mhz]]
      /\ \A k \in Kvals : vs[k] \in Inputs \cup {DefaultConfigValue(k)}
  BY LoadedTyped
<1>2. vs \in [Kvals -> Inputs \cup {DefaultConfigValue(k) : k \in Kvals}]
  BY <1>1 DEF LoadedValues
<1> HIDE DEF vs, clocks
<1>3. ASSUME NEW p \in Parts  PROVE Whole(vs, clocks)[p] \in Content[p]
  <2>1. CASE p = ValuesSection
    BY <1>2, <2>1, WholeFacts, ContentFacts
  <2>2. CASE p \in Tids
    BY <1>1, <2>2, WholeFacts, ContentFacts
  <2>3. QED
    BY <2>1, <2>2, PartCases
<1>4. QED
  BY <1>3, WholeFacts DEF Promise!IsWhole, StoredIn, vs, clocks

LEMMA InitMaps ==
    ASSUME TidyEdits, Init
    PROVE  Promise!SInit
<1>1. Tidy(ini)
  BY InitRight DEF StoreIInv, StateRight
<1>2. put.step = "idle" /\ gLoaded = FALSE /\ edits = 0 /\ losses = 0
  BY DEF Init, Idle
<1>3. StoredNow = StoredIn(ini) /\ LoadedNow = NotLoaded
  BY <1>2 DEF StoredNow, StoredIn, LoadedNow
<1>4. QED
  BY <1>1, <1>2, <1>3, StoredWhole DEF Promise!SInit

\* Settings with a part replaced, as NewValues and NewClocks have them.
ValuesWith(vs, part, content) ==
    IF part = ValuesSection THEN [k \in Kvals |-> Accepted(k, content[k])] ELSE vs
ClocksWith(clocks, part, content) ==
    IF part \in Tids THEN [clocks EXCEPT ![part] = content] ELSE clocks
With(vs, clocks, part, content) ==
    Whole(ValuesWith(vs, part, content), ClocksWith(clocks, part, content))

\* The new part is the same whatever the others are.
LEMMA WithFacts ==
    ASSUME NEW part, NEW content, ContentRight(part, content),
           NEW vs, NEW clocks \in [Tids -> [Slots -> Mhz]],
           NEW ws, NEW docks \in [Tids -> [Slots -> Mhz]]
    PROVE  /\ With(vs, clocks, part, content)[part] \in Content[part]
           /\ With(ws, docks, part, content)
                = [Whole(ws, docks) EXCEPT ![part] = With(vs, clocks, part, content)[part]]
<1> DEFINE V == ValuesWith(vs, part, content)
           C == ClocksWith(clocks, part, content)
           W == ValuesWith(ws, part, content)
           D == ClocksWith(docks, part, content)
<1>1. part \in Parts
  BY DEF ContentRight
<1>2. /\ part # ValuesSection => W = ws
      /\ \A t \in Tids : t # part => D[t] = docks[t]
  BY DEF ValuesWith, ClocksWith
<1>3. Whole(V, C)[part] = Whole(W, D)[part] /\ Whole(V, C)[part] \in Content[part]
  <2>1. CASE part = ValuesSection
    <3>1. V = [k \in Kvals |-> Accepted(k, content[k])] /\ W = V
      BY <2>1 DEF ValuesWith
    <3>2. content \in [Kvals -> Inputs]
      BY <2>1 DEF ContentRight
    <3>3. \A k \in Kvals : Accepted(k, content[k]) \in Inputs \cup {DefaultConfigValue(j) : j \in Kvals}
      BY <3>2 DEF Accepted
    <3>4. V \in [Kvals -> Inputs \cup {DefaultConfigValue(j) : j \in Kvals}]
      BY <3>1, <3>3
    <3> HIDE DEF V, C, W, D
    <3>5. QED
      BY <2>1, <3>1, <3>4, WholeFacts, ContentFacts
  <2>2. CASE part \in Tids
    <3>1. C[part] = content /\ D[part] = content
      BY <2>2 DEF ClocksWith
    <3>2. content \in [Slots -> Mhz]
      BY <2>2 DEF ContentRight
    <3> HIDE DEF V, C, W, D
    <3>3. QED
      BY <2>2, <3>1, <3>2, WholeFacts, ContentFacts
  <2>3. QED
    BY <1>1, <2>1, <2>2, PartCases
<1> HIDE DEF V, C, W, D
<1>4. Whole(W, D) = [Whole(ws, docks) EXCEPT ![part] = Whole(W, D)[part]]
  <2>1. \A p \in Parts : p # part => Whole(W, D)[p] = Whole(ws, docks)[p]
    BY <1>2, PartCases DEF Whole
  <2>2. /\ Whole(W, D) = [p \in Parts |-> Whole(W, D)[p]]
        /\ Whole(ws, docks) = [p \in Parts |-> Whole(ws, docks)[p]]
    BY DEF Whole
  <2>3. QED
    BY <1>1, <2>1, <2>2
<1>5. QED
  BY <1>3, <1>4 DEF With, V, C, W, D

\* A put changes what is stored as it changes what is loaded.
LEMMA ChangeFacts ==
    ASSUME NEW lines, Tidy(lines), NEW part, NEW content, ContentRight(part, content),
           NEW vs, NEW clocks \in [Tids -> [Slots -> Mhz]]
    PROVE  /\ With(vs, clocks, part, content)[part] \in Content[part]
           /\ With(vs, clocks, part, content)
                = [Whole(vs, clocks) EXCEPT ![part] = With(vs, clocks, part, content)[part]]
           /\ StoredIn(IniPutSection(lines, part, Keys(part, content)))
                = [StoredIn(lines) EXCEPT ![part] = With(vs, clocks, part, content)[part]]
<1> DEFINE ws == LoadedValues(lines)
           docks == LoadedClocks(lines)
           P == IniPutSection(lines, part, Keys(part, content))
<1>1. docks \in [Tids -> [Slots -> Mhz]]
  BY LoadedTyped
<1>2. LoadedValues(P) = ValuesWith(ws, part, content)
      /\ LoadedClocks(P) = ClocksWith(docks, part, content)
  BY PutLoaded DEF ValuesWith, ClocksWith
<1>3. StoredIn(P) = With(ws, docks, part, content) /\ StoredIn(lines) = Whole(ws, docks)
  BY <1>2 DEF StoredIn, With
<1> HIDE DEF ws, docks, P
<1>4. With(ws, docks, part, content)
        = [Whole(ws, docks) EXCEPT ![part] = With(vs, clocks, part, content)[part]]
  BY <1>1, WithFacts
<1>5. /\ With(vs, clocks, part, content)[part] \in Content[part]
      /\ With(vs, clocks, part, content)
           = [Whole(vs, clocks) EXCEPT ![part] = With(vs, clocks, part, content)[part]]
  BY WithFacts
<1>6. QED
  BY <1>3, <1>4, <1>5 DEF P

SNow == <<StoredNow, LoadedNow, edits, losses>>

\* The step at which a put takes effect, whatever the put was doing before.
LEMMA ChangeMaps ==
    ASSUME NEW part, NEW content, ContentRight(part, content), Tidy(ini),
           mhzMap \in [Tids -> [Slots -> Mhz]],
           StoredNow = StoredIn(ini), LoadedNow = Whole(values, mhzMap),
           StoredNow' = StoredIn(IniPutSection(ini, part, Keys(part, content))),
           LoadedNow' = With(values, mhzMap, part, content),
           UNCHANGED <<edits, losses>>
    PROVE  Promise!Change(part)
<1> DEFINE P == IniPutSection(ini, part, Keys(part, content))
           V == With(values, mhzMap, part, content)[part]
<1>1. /\ V \in Content[part]
      /\ With(values, mhzMap, part, content) = [Whole(values, mhzMap) EXCEPT ![part] = V]
      /\ StoredIn(P) = [StoredIn(ini) EXCEPT ![part] = V]
  BY ChangeFacts
<1>2. LoadedNow'[part] = V
  OBVIOUS
<1> HIDE DEF P, V
<1>3. NotLoaded # LoadedNow
  BY WholeFacts
<1>4. NotLoaded # LoadedNow'
  BY WholeFacts DEF With
<1>5. LoadedNow' = [LoadedNow EXCEPT ![part] = V]
  BY <1>1
<1>6. StoredNow' = [StoredNow EXCEPT ![part] = V]
  BY <1>1 DEF P
<1>7. QED
  BY <1>1, <1>2, <1>3, <1>4, <1>5, <1>6 DEF Promise!Change

LEMMA PutMaps ==
    ASSUME StoreIInv, NEW part, NEW content, ContentRight(part, content),
           Put(part, content, Keys(part, content))
    PROVE  Promise!Change(part) \/ UNCHANGED SNow
<1>1. /\ gLoaded = TRUE /\ put.step = "idle"
      /\ UNCHANGED <<ini, gLoaded, values, mhzMap, edits, losses>>
  BY DEF StoreIInv, StateRight, Put
<1>2. Tidy(ini) /\ mhzMap \in [Tids -> [Slots -> Mhz]]
  BY DEF StoreIInv, StateRight, MemoryRight
<1>3. StoredNow = StoredIn(ini) /\ LoadedNow = Whole(values, mhzMap)
  BY <1>1 DEF StoredNow, StoredIn, LoadedNow
<1>4. CASE put' = put
  BY <1>1, <1>4 DEF SNow, StoredNow, LoadedNow
<1> DEFINE P == IniPutSection(ini, part, Keys(part, content))
<1>5. CASE put' = [step |-> IF mtime = 0 THEN "new" ELSE "temp", part |-> part,
                   content |-> content, lines |-> P, time |-> now]
  <2>1. /\ put'.step \in {"new", "temp"} /\ put'.part = part
        /\ put'.content = content /\ put'.lines = P
    BY <1>5
  <2> HIDE DEF P
  <2>2. CASE put'.step = "temp"
    <3>1. StoredNow' = StoredIn(ini) /\ LoadedNow' = Whole(values, mhzMap)
      BY <1>1, <2>2 DEF StoredNow, StoredIn, LoadedNow
    <3>2. QED
      BY <1>1, <1>3, <3>1 DEF SNow
  <2>3. CASE put'.step = "new"
    <3>1. StoredNow' = StoredIn(P)
      BY <2>1, <2>3 DEF StoredNow, StoredIn
    <3>2. LoadedNow' = With(values, mhzMap, part, content)
      BY <1>1, <2>1, <2>3
         DEF LoadedNow, With, ValuesWith, ClocksWith, NewValues, NewClocks
    <3>3. QED
      BY <1>1, <1>2, <1>3, <3>1, <3>2, ChangeMaps DEF P
  <2>4. QED
    BY <2>1, <2>2, <2>3
<1>6. QED
  BY <1>4, <1>5 DEF Put

LEMMA RemoveMaps ==
    ASSUME StoreIInv, Remove
    PROVE  Promise!Change(put.part)
<1>1. /\ put.step = "temp" /\ put.step \in PutSteps
      /\ UNCHANGED <<gLoaded, values, mhzMap, edits, losses>>
      /\ put' = [put EXCEPT !.step = "removed", !.time = now]
  BY DEF Remove, PutSteps
<1>2. /\ put'.step = "removed" /\ put'.part = put.part /\ put'.content = put.content
      /\ put'.lines = put.lines
  BY <1>1 DEF StoreIInv, StateRight
<1>3. Tidy(ini) /\ mhzMap \in [Tids -> [Slots -> Mhz]]
  BY DEF StoreIInv, StateRight, MemoryRight
<1>4. /\ gLoaded /\ ContentRight(put.part, put.content)
      /\ put.lines = IniPutSection(ini, put.part, Keys(put.part, put.content))
  BY <1>1 DEF StoreIInv, PutRight
<1>5. StoredNow = StoredIn(ini) /\ LoadedNow = Whole(values, mhzMap)
  BY <1>1, <1>4 DEF StoredNow, StoredIn, LoadedNow
<1>6. StoredNow' = StoredIn(put.lines)
  BY <1>2 DEF StoredNow, StoredIn
<1>7. LoadedNow' = With(values, mhzMap, put.part, put.content)
  BY <1>1, <1>2, <1>4 DEF LoadedNow, With, ValuesWith, ClocksWith, NewValues, NewClocks
<1>8. QED
  BY <1>1, <1>3, <1>4, <1>5, <1>6, <1>7, ChangeMaps

\* The other steps of a put change nothing that a client can see.
LEMMA WriteNewMaps ==
    ASSUME StoreIInv, WriteNew
    PROVE  UNCHANGED SNow
<1>1. /\ put.step = "new" /\ put.step \in PutSteps /\ ini' = put.lines
      /\ UNCHANGED <<gLoaded, values, mhzMap, edits, losses>>
  BY DEF WriteNew, PutSteps
<1>2. /\ put'.step = "apply" /\ put'.part = put.part /\ put'.content = put.content
  BY DEF StoreIInv, StateRight, WriteNew
<1>3. StoredNow' = StoredNow
  BY <1>1, <1>2 DEF StoredNow
<1>4. NewValues' = NewValues /\ NewClocks' = NewClocks
  BY <1>1, <1>2 DEF NewValues, NewClocks
<1>5. LoadedNow' = LoadedNow
  BY <1>1, <1>2, <1>4 DEF LoadedNow
<1>6. QED
  BY <1>1, <1>3, <1>5 DEF SNow

LEMMA RenameMaps ==
    ASSUME StoreIInv, Rename
    PROVE  UNCHANGED SNow
<1>1. /\ put.step = "removed" /\ put.step \in PutSteps /\ ini' = put.lines
      /\ UNCHANGED <<gLoaded, values, mhzMap, edits, losses>>
  BY DEF Rename, PutSteps
<1>2. /\ put'.step = "apply" /\ put'.part = put.part /\ put'.content = put.content
  BY DEF StoreIInv, StateRight, Rename
<1>3. StoredNow' = StoredNow
  BY <1>1, <1>2 DEF StoredNow
<1>4. NewValues' = NewValues /\ NewClocks' = NewClocks
  BY <1>1, <1>2 DEF NewValues, NewClocks
<1>5. LoadedNow' = LoadedNow
  BY <1>1, <1>2, <1>4 DEF LoadedNow
<1>6. QED
  BY <1>1, <1>3, <1>5 DEF SNow

LEMMA ApplyMaps ==
    ASSUME StoreIInv, Apply
    PROVE  UNCHANGED SNow
<1>1. /\ put.step = "apply" /\ put.step \in PutSteps /\ put'.step = "idle"
      /\ UNCHANGED <<ini, gLoaded, edits, losses>>
      /\ values' = NewValues /\ mhzMap' = NewClocks
  BY DEF Apply, PutSteps, Idle
<1>2. gLoaded
  BY <1>1 DEF StoreIInv, PutRight
<1>3. StoredNow' = StoredNow
  BY <1>1 DEF StoredNow
<1>4. LoadedNow = Whole(NewValues, NewClocks)
  BY <1>1, <1>2 DEF LoadedNow
<1>5. LoadedNow' = Whole(values', mhzMap')
  BY <1>1, <1>2 DEF LoadedNow, Whole
<1>6. QED
  BY <1>1, <1>3, <1>4, <1>5 DEF SNow, Whole

LEMMA RefreshStatMaps ==
    ASSUME StoreIInv, RefreshStat
    PROVE  Promise!Drop
<1>1. /\ put.step = "idle" /\ put'.step = "load" /\ gLoaded' = FALSE
      /\ UNCHANGED <<ini, edits, losses>>
  BY DEF RefreshStat, Idle
<1>2. StoredNow' = StoredNow
  BY <1>1 DEF StoredNow
<1>3. LoadedNow' = NotLoaded
  BY <1>1 DEF LoadedNow
<1>4. QED
  BY <1>1, <1>2, <1>3 DEF Promise!Drop

LEMMA RefreshBrowseMaps ==
    ASSUME StoreIInv, RefreshBrowse
    PROVE  Promise!Read
<1>1. /\ put.step = "load" /\ put'.step = "idle" /\ gLoaded' = TRUE
      /\ UNCHANGED <<ini, edits, losses>>
  BY DEF RefreshBrowse, Idle
<1>2. ~gLoaded /\ gMtime = mtime /\ values = Defaults /\ mhzMap = NoClocks
      /\ (mtime = 0 => ini = <<>>)
  BY <1>1 DEF StoreIInv, StateRight, MemoryRight
<1>3. StoredNow = StoredIn(ini) /\ StoredNow' = StoredNow
  BY <1>1 DEF StoredNow, StoredIn
<1>4. LoadedNow = NotLoaded /\ LoadedNow' = Whole(values', mhzMap')
  BY <1>1, <1>2 DEF LoadedNow, Whole
<1>5. \/ values' = Defaults /\ mhzMap' = NoClocks
      \/ values' = LoadedValues(ini) /\ mhzMap' = LoadedClocks(ini)
  BY <1>2, BrowseOutcomes
<1>6. Whole(Defaults, NoClocks) = Empty
  <2>1. ASSUME NEW t \in Parts, t # ValuesSection
        PROVE  NoClocks[t] = [s \in Slots |-> 0]
    BY <2>1 DEF Parts, NoClocks
  <2>2. QED
    BY <2>1 DEF Whole, Empty
<1>7. QED
  BY <1>1, <1>3, <1>4, <1>5, <1>6 DEF Promise!Read, StoredIn

LEMMA EditFileMaps ==
    ASSUME TidyEdits, StoreIInv, EditFile
    PROVE  Promise!Edit
<1>1. /\ put.step = "idle" /\ UNCHANGED <<gLoaded, values, mhzMap, put, losses>>
      /\ edits' = edits + 1
  BY DEF EditFile
<1>2. Tidy(ini)'
  BY EditFileRight DEF StoreIInv, StateRight
<1>3. StoredNow' = StoredIn(ini')
  BY <1>1 DEF StoredNow, StoredIn
<1>4. LoadedNow' = LoadedNow
  BY <1>1 DEF LoadedNow
<1>5. Promise!IsWhole(StoredIn(ini'))
  BY <1>2, StoredWhole
<1>6. Promise!IsWhole(StoredNow)'
  BY <1>3, <1>5 DEF Promise!IsWhole
<1>7. QED
  BY <1>1, <1>4, <1>6 DEF Promise!Edit

LEMMA PowerLossMaps ==
    ASSUME StoreIInv, PowerLoss
    PROVE  Promise!PowerLoss
<1>1. /\ put'.step = "idle" /\ gLoaded' = FALSE /\ edits' = edits /\ losses' = losses + 1
  BY DEF PowerLoss, Idle
<1>2. LoadedNow' = NotLoaded /\ StoredNow' = StoredIn(ini')
  BY <1>1 DEF LoadedNow, StoredNow, StoredIn
<1>3. CASE put.step = "new"
  <2> DEFINE p == put.part
             c == put.content
             K == Keys(p, c)
             S == Section(p, K)
             L == StoredIn(S)
  <2>1. ContentRight(p, c) /\ put.lines = S /\ p \in Parts
    BY <1>3 DEF StoreIInv, PutRight, PutSteps, ContentRight
  <2>2. StoredNow = L
    BY <1>3, <2>1 DEF StoredNow, StoredIn
  <2>3. PICK n \in 0..Len(S) : ini' = SubSeq(S, 1, n)
    BY <1>3, <2>1 DEF PowerLoss
  <2>4. Piece(S, p, K) /\ S = IniPutSection(<<>>, p, K)
    BY <2>1, PutInEmpty
  <2>5. Piece(ini', p, K)
    <3> HIDE DEF S, K, p, c
    <3> QED  BY <2>3, <2>4, PiecePrefix
  <2> DEFINE T == ini'
  <2>6. /\ LoadedValues(S) = ValuesWith(Defaults, p, c)
        /\ LoadedClocks(S) = ClocksWith(NoClocks, p, c)
    BY <2>1, <2>4, NothingLoaded, PutLoaded DEF ValuesWith, ClocksWith
  <2>7. /\ p # ValuesSection => LoadedValues(T) = Defaults
        /\ \A t \in Tids : t # p => LoadedClocks(T)[t] = NoClocks[t]
        /\ p = ValuesSection => \A k \in Kvals :
              LoadedValues(T)[k] \in {Accepted(k, c[k]), DefaultConfigValue(k)}
        /\ p \in Tids => \A s \in Slots : LoadedClocks(T)[p][s] \in {c[s], 0}
    BY <2>1, <2>5, PieceLoaded
  <2> HIDE DEF S, K, p, c, T
  <2>8. ASSUME NEW q \in Parts, q # p
        PROVE  L[q] = Empty[q] /\ StoredIn(T)[q] = Empty[q]
    <3>1. CASE q = ValuesSection
      BY <2>6, <2>7, <2>8, <3>1, WholeFacts, ContentFacts DEF StoredIn, ValuesWith
    <3>2. CASE q \in Tids
      <4>1. LoadedClocks(S)[q] = NoClocks[q] /\ LoadedClocks(T)[q] = NoClocks[q]
        BY <2>6, <2>7, <2>8, <3>2 DEF ClocksWith, NoClocks
      <4>2. QED
        BY <3>2, <4>1, WholeFacts, ContentFacts DEF StoredIn
    <3>3. QED
      BY <3>1, <3>2, PartCases
  <2>9. \A k \in DOMAIN L[p] : StoredIn(T)[p][k] \in {L[p][k], Empty[p][k]}
    <3>1. CASE p = ValuesSection
      <4>1. L[p] = [k \in Kvals |-> Accepted(k, c[k])] /\ StoredIn(T)[p] = LoadedValues(T)
        BY <2>6, <3>1, WholeFacts DEF StoredIn, ValuesWith
      <4>2. Empty[p] = Defaults
        BY <3>1, ContentFacts
      <4>3. \A k \in Kvals : Defaults[k] = DefaultConfigValue(k)
        BY DEF Defaults
      <4> HIDE DEF L
      <4>4. QED
        BY <2>7, <3>1, <4>1, <4>2, <4>3
    <3>2. CASE p \in Tids
      <4>1. c \in [Slots -> Mhz]
        BY <2>1, <3>2 DEF ContentRight
      <4>2. L[p] = c /\ StoredIn(T)[p] = LoadedClocks(T)[p]
        BY <2>6, <3>2, WholeFacts DEF StoredIn, ClocksWith, NoClocks
      <4>3. \A s \in Slots : Empty[p][s] = 0
        BY <3>2, ContentFacts DEF NoClocks
      <4> HIDE DEF L
      <4>4. QED
        BY <2>7, <3>2, <4>1, <4>2, <4>3
    <3>3. QED
      BY <2>1, <3>1, <3>2, PartCases
  <2>10. StoredIn(T) = [L EXCEPT ![p] = StoredIn(T)[p]]
    <3>1. /\ L = [q \in Parts |-> L[q]]
          /\ StoredIn(T) = [q \in Parts |-> StoredIn(T)[q]]
      BY DEF StoredIn, Whole
    <3> HIDE DEF L
    <3>2. QED
      BY <2>1, <2>8, <3>1
  <2> HIDE DEF L
  <2>11. StoredNow' = StoredIn(T)
    BY <1>2 DEF T
  <2>12. QED
    BY <1>1, <1>2, <2>1, <2>2, <2>8, <2>9, <2>10, <2>11 DEF Promise!PowerLoss
<1>4. CASE put.step = "removed"
  <2>1. ini' = <<>>
    BY <1>4 DEF StoreIInv, PutRight, PutSteps, PowerLoss
  <2>2. StoredNow' = Empty
    BY <1>2, <2>1, NothingLoaded, ContentFacts DEF StoredIn
  <2>3. QED
    BY <1>1, <1>2, <2>2 DEF Promise!PowerLoss
<1>5. CASE put.step \notin {"new", "removed"}
  <2>1. ini' = ini /\ StoredNow = StoredIn(ini)
    BY <1>5 DEF PowerLoss, StoredNow, StoredIn
  <2>2. StoredNow' = StoredNow
    BY <1>2, <2>1
  <2>3. QED
    BY <1>1, <1>2, <2>2 DEF Promise!PowerLoss
<1>6. QED
  BY <1>3, <1>4, <1>5

LEMMA ClockMaps ==
    ASSUME Clock \/ UNCHANGED vars
    PROVE  UNCHANGED SNow
<1>1. UNCHANGED <<ini, gLoaded, values, mhzMap, put, edits, losses>>
  BY DEF Clock, vars
<1>2. StoredNow' = StoredNow
  BY <1>1 DEF StoredNow
<1>3. LoadedNow' = LoadedNow
  BY <1>1 DEF LoadedNow, NewValues, NewClocks
<1>4. QED
  BY <1>1, <1>2, <1>3 DEF SNow

LEMMA StepMaps ==
    ASSUME TidyEdits, StoreIInv, [Next]_vars
    PROVE  [Promise!SNext]_(Promise!sVars)
<1>1. SNow = Promise!sVars
  BY DEF SNow, Promise!sVars
<1>2. CASE Next
  <2>1. CASE APut
    <3>1. PICK part, content : ContentRight(part, content)
                                 /\ Put(part, content, Keys(part, content))
      BY <2>1 DEF APut
    <3>2. part \in Parts
      BY <3>1 DEF ContentRight
    <3>3. Promise!Change(part) \/ UNCHANGED SNow
      BY <3>1, PutMaps
    <3>4. QED
      BY <3>2, <3>3 DEF Promise!SNext, SNow, Promise!sVars
  <2>2. CASE Remove
    <3>1. put.part \in Parts
      BY <2>2 DEF StoreIInv, PutRight, PutSteps, Remove, ContentRight
    <3>2. QED
      BY <2>2, <3>1, RemoveMaps DEF Promise!SNext
  <2>3. CASE RefreshStat \/ RefreshBrowse \/ EditFile \/ PowerLoss
    BY <2>3, RefreshStatMaps, RefreshBrowseMaps, EditFileMaps, PowerLossMaps
       DEF Promise!SNext
  <2>4. CASE WriteNew \/ Rename \/ Apply \/ Clock
    BY <2>4, WriteNewMaps, RenameMaps, ApplyMaps, ClockMaps DEF SNow, Promise!sVars
  <2>5. QED
    BY <1>2, <2>1, <2>2, <2>3, <2>4, NextCases
<1>3. CASE UNCHANGED vars
  BY <1>3, ClockMaps DEF SNow, Promise!sVars
<1>4. QED
  BY <1>2, <1>3

\* config.cpp over minIni implements Settings: whatever the order of commands,
\* loads, edits and losses of power, a change replaces its part in the file and in
\* memory together and no other, a load brings what is stored, and a loss of power
\* leaves all of the old settings, all of the new ones or none.
THEOREM ImplementsSettings == TidyEdits => (Spec => PromiseKept)
<1> SUFFICES ASSUME TidyEdits PROVE Spec => PromiseKept
  OBVIOUS
<1>1. Init => StoreIInv /\ Promise!SInit
  BY InitRight, InitMaps
<1>2. StoreIInv /\ [Next]_vars => StoreIInv' /\ [Promise!SNext]_(Promise!sVars)
  BY StepRight, StepMaps
<1>3. QED
  BY <1>1, <1>2, PTL DEF Spec, PromiseKept, Promise!SSpec

=============================================================================
