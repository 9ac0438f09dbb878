----------------------------- MODULE LinkProofs -----------------------------
(***************************************************************************)
(* Proofs about names and trees, in the composition of all programs: a     *)
(* link of a page leads to the file it names, and a recursive listing      *)
(* prints every file once.                                                 *)
(***************************************************************************)
EXTENDS ProgramProofs, ServerProofs, SyncProofs, WellFoundedInduction

-----------------------------------------------------------------------------
(* Induction *)

\* A set of numbers has a least one: of the sets 0..x, which are well-founded
\* by inclusion, one is smallest.
LEMMA LeastOne ==
  ASSUME NEW A \in SUBSET Nat, A # {}
  PROVE  \E n \in A : \A x \in A : n <= x
<1> DEFINE U == {0..x : x \in A}
<1>1. U \subseteq FiniteSubsetsOf(Nat) /\ U # {}
  <2>1. ASSUME NEW x \in A PROVE IsFiniteSet(0..x) /\ 0..x \in SUBSET Nat
    <3>1. 0 \in Int /\ x \in Int
      OBVIOUS
    <3> QED BY <3>1, FS_Interval
  <2> QED BY <2>1 DEF FiniteSubsetsOf
<1>2. PICK E \in U : \A G \in U : ~ (<<G, E>> \in StrictSubsetOrdering(Nat))
  BY <1>1, FS_StrictSubsetOrderingWellFounded, WFMin
<1>3. PICK n \in A : E = 0..n
  OBVIOUS
<1>4. ASSUME NEW y \in A, y < n PROVE FALSE
  <2>1. 0..y \in U /\ 0..y \subseteq E /\ 0..y # E
    BY <1>3, <1>4
  <2>2. <<0..y, E>> \in StrictSubsetOrdering(Nat)
    BY <2>1 DEF StrictSubsetOrdering
  <2> QED BY <1>2, <2>1, <2>2
<1>5. \A y \in A : n <= y
  BY <1>4
<1> QED BY <1>5

\* What holds of 0 and passes from each number to the next up to n holds of all
\* of them; Q is the set of the numbers it holds of.
LEMMA CountUp ==
  ASSUME NEW n \in Nat, NEW Q, 0 \in Q,
         \A k \in 0..n - 1 : k \in Q => k + 1 \in Q
  PROVE  \A k \in 0..n : k \in Q
<1> SUFFICES ASSUME NEW b \in 0..n, b \notin Q PROVE FALSE
  OBVIOUS
<1> DEFINE A == {k \in 0..n : k \notin Q}
<1>1. A \in SUBSET Nat /\ A # {}
  OBVIOUS
<1>2. PICK k \in A : \A x \in A : k <= x
  BY <1>1, LeastOne
<1>3. k # 0 /\ k \in 0..n
  OBVIOUS
<1>4. k - 1 \in 0..n - 1 /\ k - 1 \in 0..n /\ k - 1 + 1 = k
  BY <1>3
<1>5. k - 1 \in Q
  BY <1>2, <1>4
<1> QED BY <1>4, <1>5

\* Some element of a set, and the set without it.
OneOf(s) == CHOOSE x \in s : TRUE

LEMMA SmallerSet ==
  ASSUME NEW V, IsFiniteSet(V), NEW s \in SUBSET V, s # {}
  PROVE  /\ OneOf(s) \in s /\ s \ {OneOf(s)} \in SUBSET V
         /\ Cardinality(s) \in Nat \ {0}
         /\ Cardinality(s \ {OneOf(s)}) = Cardinality(s) - 1
<1>1. OneOf(s) \in s
  BY DEF OneOf
<1>2. IsFiniteSet(s)
  BY FS_Subset
<1>3. Cardinality(s) \in Nat /\ Cardinality(s) # 0
  BY <1>2, FS_CardinalityType, FS_EmptySet
<1>4. Cardinality(s \ {OneOf(s)}) = Cardinality(s) - 1
  BY <1>1, <1>2, FS_RemoveElement
<1> QED BY <1>1, <1>3, <1>4

\* What holds of the empty set, and of a set if it holds of the set without one
\* of its elements, holds of all subsets of a finite one; Q is what it holds of.
LEMMA BuildUp ==
  ASSUME NEW V, IsFiniteSet(V), NEW Q, {} \in Q,
         \A s \in SUBSET V : s # {} /\ s \ {OneOf(s)} \in Q => s \in Q
  PROVE  \A s \in SUBSET V : s \in Q
<1> SUFFICES ASSUME NEW b \in SUBSET V, b \notin Q PROVE FALSE
  OBVIOUS
<1> DEFINE A == {Cardinality(s) : s \in {r \in SUBSET V : r \notin Q}}
<1>1. \A s \in SUBSET V : Cardinality(s) \in Nat
  BY FS_Subset, FS_CardinalityType
<1>2. A \in SUBSET Nat /\ A # {}
  BY <1>1
<1>3. PICK k \in A : \A x \in A : k <= x
  BY <1>2, LeastOne
<1>4. PICK s \in SUBSET V : s \notin Q /\ k = Cardinality(s)
  BY <1>3
<1>5. s # {}
  BY <1>4
<1>6. /\ s \ {OneOf(s)} \in SUBSET V /\ k \in Nat
      /\ Cardinality(s \ {OneOf(s)}) = k - 1
  BY <1>4, <1>5, SmallerSet
<1>7. s \ {OneOf(s)} \notin Q
  BY <1>4, <1>5
<1>8. k - 1 \in A
  BY <1>6, <1>7
<1> QED BY <1>3, <1>6, <1>8

-----------------------------------------------------------------------------
(* Names in links *)

\* The places of a sequence that is put before another, and those of the other.
LEMMA Joined ==
  ASSUME NEW V, NEW a \in Seq(V), NEW b \in Seq(V)
  PROVE  /\ a \o b \in Seq(V) /\ Len(a \o b) = Len(a) + Len(b)
         /\ \A J \in 1..Len(a) : (a \o b)[J] = a[J]
         /\ \A J \in 1..Len(b) : (a \o b)[Len(a) + J] = b[J]
<1>1. Len(a) \in Nat /\ Len(b) \in Nat
  OBVIOUS
<1>2. /\ a \o b \in Seq(V) /\ Len(a \o b) = Len(a) + Len(b)
      /\ \A i \in 1..Len(a) + Len(b) :
           (a \o b)[i] = IF i <= Len(a) THEN a[i] ELSE b[i - Len(a)]
  BY ConcatProperties
<1>3. \A J \in 1..Len(a) : J \in 1..Len(a) + Len(b) /\ J <= Len(a)
  BY <1>1
<1>4. \A J \in 1..Len(b) : /\ Len(a) + J \in 1..Len(a) + Len(b)
                           /\ ~ (Len(a) + J <= Len(a))
                           /\ Len(a) + J - Len(a) = J
  BY <1>1
<1>5. ASSUME NEW J \in 1..Len(b) PROVE (a \o b)[Len(a) + J] = b[J]
  <2>1. (a \o b)[Len(a) + J] = IF Len(a) + J <= Len(a) THEN a[Len(a) + J]
                               ELSE b[Len(a) + J - Len(a)]
    BY <1>2, <1>4
  <2> QED BY <1>4, <2>1, Zenon
<1> QED BY <1>2, <1>3, <1>5

\* a is a beginning of c.
Begins(a, c) == /\ Len(a) \in 0..Len(c)
                /\ \A J \in 1..Len(a) : c[J] = a[J]

LEMMA BeginsJoined ==
  ASSUME NEW V, NEW a \in Seq(V), NEW b \in Seq(V), NEW x, Begins(x, a)
  PROVE  Begins(x, a \o b)
<1>1. /\ Len(a \o b) = Len(a) + Len(b)
      /\ \A J \in 1..Len(a) : (a \o b)[J] = a[J]
  BY Joined
<1>2. Len(a) \in Nat /\ Len(b) \in Nat
  OBVIOUS
<1>3. Len(x) \in 0..Len(a \o b) /\ \A J \in 1..Len(x) : J \in 1..Len(a)
  BY <1>1, <1>2 DEF Begins
<1> QED BY <1>1, <1>3 DEF Begins

\* In e the n sequences of q are one after the other: the j-th begins behind
\* place p[j - 1].
Laid(q, n, e, p) ==
  /\ p[0] = 0 /\ p[n] = Len(e)
  /\ \A j \in 1..n : /\ p[j] = p[j - 1] + Len(q[j]) /\ p[j] <= p[n]
                    /\ \A J \in 1..Len(q[j]) : e[p[j - 1] + J] = q[j][J]

\* FlattenSeq puts them so.
LEMMA Flattened ==
  ASSUME NEW V, NEW n \in Nat, NEW q \in [1..n -> Seq(V)]
  PROVE  /\ H!FlattenSeq(q) \in Seq(V)
         /\ \E p \in [0..n -> Nat] : Laid(q, n, H!FlattenSeq(q), p)
<1>0. q \in Seq(Seq(V)) /\ Len(q) = n
  OBVIOUS
<1>1. CASE n = 0
  <2>1. q = <<>> /\ H!FlattenSeq(q) = q
    BY <1>0, <1>1 DEF H!FlattenSeq
  <2> DEFINE p == [k \in 0..n |-> 0]
  <2>2. /\ p \in [0..n -> Nat] /\ p[0] = 0 /\ p[n] = Len(H!FlattenSeq(q))
        /\ 1..n = {}
    BY <1>1, <2>1
  <2>3. H!FlattenSeq(q) \in Seq(V)
    <3>1. <<>> \in Seq(V)
      OBVIOUS
    <3> QED BY <2>1, <3>1, Zenon
  <2> QED BY <2>2, <2>3 DEF Laid
<1>2. CASE n # 0
  <2> DEFINE Upto(f, m) == f = [k \in 1..m |-> IF k = 1 THEN q[k]
                                            ELSE f[k - 1] \o q[k]]
             Q == {m \in Nat : \E f : Upto(f, m)}
  <2>1. 0 \in Q
    <3>1. Upto([k \in 1..0 |-> <<>>], 0)
      OBVIOUS
    <3> QED BY <3>1
  <2>2. ASSUME NEW m \in 0..n - 1, m \in Q PROVE m + 1 \in Q
    <3>1. PICK f : Upto(f, m)
      BY <2>2
    <3> DEFINE g == [k \in 1..m + 1 |-> IF k = m + 1
                       THEN IF k = 1 THEN q[k] ELSE f[k - 1] \o q[k]
                       ELSE f[k]]
    <3>2. \A k \in 1..m : f[k] = IF k = 1 THEN q[k] ELSE f[k - 1] \o q[k]
      BY <3>1
    <3>3. \A k \in 1..m + 1 : g[k] = IF k = 1 THEN q[k] ELSE g[k - 1] \o q[k]
      <4>1. \A k \in 1..m + 1 : k # 1 => k - 1 \in 1..m /\ g[k - 1] = f[k - 1]
        OBVIOUS
      <4>2. \A k \in 1..m + 1 : k # m + 1 => k \in 1..m /\ g[k] = f[k]
        OBVIOUS
      <4> QED BY <3>2, <4>1, <4>2
    <3>4. Upto(g, m + 1)
      BY <3>3
    <3>5. m + 1 \in Nat
      OBVIOUS
    <3> QED BY <3>4, <3>5, Zenon
  <2>3. n \in Q
    <3>1. \A m \in 0..n - 1 : m \in Q => m + 1 \in Q
      BY <2>2
    <3>2. n \in 0..n
      OBVIOUS
    <3> HIDE DEF Q
    <3> QED BY <2>1, <3>1, <3>2, CountUp, Zenon
  <2>4. PICK f : Upto(f, n) /\ H!FlattenSeq(q) = f[n]
    <3>1. \E f : Upto(f, n)
      BY <2>3
    <3> QED BY <1>0, <1>2, <3>1 DEF H!FlattenSeq
  <2>5. \A k \in 1..n : f[k] = IF k = 1 THEN q[k] ELSE f[k - 1] \o q[k]
    BY <2>4
  <2>6. \A k \in 1..n - 1 : f[k + 1] = f[k] \o q[k + 1]
    <3>1. ASSUME NEW k \in 1..n, k # 1, NEW m \in 1..n, m = k - 1
          PROVE  f[k] = f[m] \o q[k]
      BY <2>5, <3>1
    <3>2. \A k \in 1..n - 1 : /\ k + 1 \in 1..n /\ k + 1 # 1 /\ k \in 1..n
                              /\ k = (k + 1) - 1
      OBVIOUS
    <3> QED BY <3>1, <3>2
  <2>7. \A k \in 1..n : q[k] \in Seq(V)
    OBVIOUS
  \* What the first k give is a beginning of what the first m give.
  <2> DEFINE Good == {m \in 0..n : m > 0 => /\ f[m] \in Seq(V)
                                           /\ \A k \in 1..m : Begins(f[k], f[m])}
  <2>8. 0 \in Good
    OBVIOUS
  <2>s. \A x \in Seq(V) : Begins(x, x)
    BY DEF Begins
  <2>9. ASSUME NEW m \in 0..n - 1, m \in Good PROVE m + 1 \in Good
    <3>1. CASE m = 0
      <4>1. f[1] = q[1] /\ f[1] \in Seq(V)
        BY <2>5, <1>2
      <4> QED BY <2>s, <3>1, <4>1
    <3>2. CASE m # 0
      <4>1. m \in 1..n - 1 /\ m + 1 \in 1..n /\ m > 0 /\ m + 1 \in 0..n
        BY <3>2
      <4>2. f[m + 1] = f[m] \o q[m + 1] /\ q[m + 1] \in Seq(V)
        BY <2>6, <2>7, <4>1
      <4>3. f[m] \in Seq(V) /\ \A k \in 1..m : Begins(f[k], f[m])
        BY <2>9, <4>1
      <4>4. f[m + 1] \in Seq(V)
        BY <4>2, <4>3
      <4>5. \A k \in 1..m : Begins(f[k], f[m + 1])
        BY <4>2, <4>3, BeginsJoined
      <4>6. \A k \in 1..m + 1 : k \in 1..m \/ k = m + 1
        OBVIOUS
      <4>7. \A k \in 1..m + 1 : Begins(f[k], f[m + 1])
        BY <2>s, <4>4, <4>5, <4>6
      <4> QED BY <4>1, <4>4, <4>7
    <3> QED BY <3>1, <3>2
  <2>10. \A m \in 0..n : m \in Good
    <3>1. \A m \in 0..n - 1 : m \in Good => m + 1 \in Good
      BY <2>9
    <3> HIDE DEF Good
    <3> QED BY <2>8, <3>1, CountUp, Zenon
  <2> DEFINE p == [k \in 0..n |-> IF k = 0 THEN 0 ELSE Len(f[k])]
  <2>11. \A k \in 1..n : f[k] \in Seq(V) /\ Begins(f[k], f[n])
    <3>1. n \in 0..n /\ n > 0 /\ \A k \in 1..n : k \in 0..n /\ k > 0
      BY <1>2
    <3> QED BY <2>10, <3>1
  <2>12. p \in [0..n -> Nat] /\ p[0] = 0 /\ p[n] = Len(f[n])
    BY <1>2, <2>11 DEF Begins
  <2>13. ASSUME NEW j \in 1..n
         PROVE  /\ p[j] = p[j - 1] + Len(q[j]) /\ p[j] <= p[n]
                /\ \A J \in 1..Len(q[j]) : f[n][p[j - 1] + J] = q[j][J]
    <3>1. p[j] = Len(f[j]) /\ p[j] <= p[n] /\ j - 1 \in 0..n
      BY <2>11, <1>2 DEF Begins
    <3>2. /\ p[j] = p[j - 1] + Len(q[j])
          /\ \A J \in 1..Len(q[j]) : f[j][p[j - 1] + J] = q[j][J]
      <4>1. CASE j = 1
        BY <2>5, <2>7, <4>1
      <4>2. CASE j # 1
        <5>1. PICK k \in 1..n - 1 : j = k + 1
          <6>1. j - 1 \in 1..n - 1 /\ j = j - 1 + 1
            BY <4>2
          <6> QED BY <6>1
        <5>2. k \in 1..n /\ p[j - 1] = Len(f[k])
          BY <5>1
        <5>3. f[j] = f[k] \o q[j] /\ f[k] \in Seq(V) /\ q[j] \in Seq(V)
          BY <2>6, <2>7, <2>11, <5>1, <5>2
        <5>4. /\ Len(f[j]) = Len(f[k]) + Len(q[j])
              /\ \A J \in 1..Len(q[j]) : f[j][Len(f[k]) + J] = q[j][J]
          <6>1. \A a, b \in Seq(V) :
                  /\ Len(a \o b) = Len(a) + Len(b)
                  /\ \A J \in 1..Len(b) : (a \o b)[Len(a) + J] = b[J]
            BY Joined
          <6> QED BY <5>3, <6>1
        <5> QED BY <3>1, <5>2, <5>4, Zenon
      <4> QED BY <4>1, <4>2
    <3>3. \A J \in 1..Len(q[j]) : p[j - 1] + J \in 1..Len(f[j])
      BY <2>7, <2>12, <3>1, <3>2
    <3>4. \A J \in 1..Len(f[j]) : f[n][J] = f[j][J]
      BY <2>11 DEF Begins
    <3> QED BY <3>1, <3>2, <3>3, <3>4
  <2>14. H!FlattenSeq(q) = f[n] /\ f[n] \in Seq(V)
    <3>1. n \in 1..n
      BY <1>2
    <3> QED BY <2>4, <2>11, <3>1
  <2> HIDE DEF p
  <2> QED BY <2>12, <2>13, <2>14 DEF Laid
<1> QED BY <1>1, <1>2

\* strdecode from place k of s on, f being what it makes of the rest.
IsEscape(s, k) == /\ k + 2 <= Len(s) /\ s[k] = "%"
                  /\ H!IsDigit(s[k + 1]) /\ H!IsDigit(s[k + 2])
Decodes(s, f, k) ==
  IF k > Len(s) THEN <<>>
  ELSE IF IsEscape(s, k) THEN <<H!hexit(s[k + 1], s[k + 2])>> \o f[k + 3]
  ELSE <<s[k]>> \o f[k + 1]

\* The recursion of strdecode comes to an end.
LEMMA DecodedFrom ==
  ASSUME NEW s, Len(s) \in Nat
  PROVE  \E f : /\ H!strdecode(s) = f[1]
               /\ \A k \in 1..Len(s) + 1 : f[k] = Decodes(s, f, k)
<1> DEFINE n == Len(s)
           Upto(f, m) == f = [k \in n + 1 - m..n + 1 |-> Decodes(s, f, k)]
           Q == {m \in Nat : \E f : Upto(f, m)}
<1>1. 0 \in Q
  <2>1. Upto([k \in n + 1 - 0..n + 1 |-> <<>>], 0)
    BY DEF Decodes
  <2> QED BY <2>1
<1>2. ASSUME NEW m \in 0..n - 1, m \in Q PROVE m + 1 \in Q
  <2>1. PICK f : Upto(f, m)
    BY <1>2
  <2> DEFINE g == [k \in n + 1 - (m + 1)..n + 1 |->
                     IF k = n - m THEN Decodes(s, f, k) ELSE f[k]]
  <2>2. \A k \in n + 1 - m..n + 1 : f[k] = Decodes(s, f, k)
    BY <2>1
  <2>3. ASSUME NEW k \in n + 1 - (m + 1)..n + 1
        PROVE  g[k] = Decodes(s, g, k)
    <3>1. g[k] = Decodes(s, f, k)
      <4>1. CASE k = n - m
        BY <4>1
      <4>2. CASE k # n - m
        <5>1. k \in n + 1 - m..n + 1
          BY <4>2
        <5> QED BY <2>2, <4>2, <5>1
      <4> QED BY <4>1, <4>2
    <3>2. k <= n => k + 1 \in n + 1 - m..n + 1
      OBVIOUS
    <3>3. k + 2 <= n => k + 3 \in n + 1 - m..n + 1
      OBVIOUS
    <3>4. \A j \in n + 1 - m..n + 1 : g[j] = f[j]
      OBVIOUS
    <3>5. (k <= n => g[k + 1] = f[k + 1]) /\ (k + 2 <= n => g[k + 3] = f[k + 3])
      BY <3>2, <3>3, <3>4
    <3> HIDE DEF g
    <3> QED BY <3>1, <3>5 DEF Decodes, IsEscape
  <2>4. Upto(g, m + 1)
    BY <2>3
  <2>5. m + 1 \in Nat
    OBVIOUS
  <2> QED BY <2>4, <2>5, Zenon
<1>3. n \in Q
  <2>1. \A m \in 0..n - 1 : m \in Q => m + 1 \in Q
    BY <1>2
  <2>2. n \in 0..n
    OBVIOUS
  <2> HIDE DEF Q
  <2> QED BY <1>1, <2>1, <2>2, CountUp, Zenon
<1>4. \E f : f = [k \in 1..n + 1 |-> Decodes(s, f, k)]
  <2>1. n + 1 - n = 1
    OBVIOUS
  <2> QED BY <1>3, <2>1, Zenon
<1>5. \E f : /\ H!strdecode(s) = f[1]
            /\ f = [k \in 1..n + 1 |-> Decodes(s, f, k)]
  BY <1>4 DEF H!strdecode, Decodes, IsEscape
<1>6. PICK f : /\ H!strdecode(s) = f[1]
               /\ f = [k \in 1..n + 1 |-> Decodes(s, f, k)]
  BY <1>5, Zenon
<1>7. \A k \in 1..n + 1 : f[k] = Decodes(s, f, k)
  BY <1>6
<1> QED BY <1>6, <1>7, Zenon

\* A character of a name in a link, and what hexit makes of it again.
Escaped(ch) == IF ch \in DOMAIN Hex THEN <<"%">> \o Hex[ch] ELSE <<ch>>

LEMMA EscapedFacts ==
  ASSUME NEW ch \in Chars
  PROVE  /\ Escaped(ch) \in Seq(Chars)
         /\ ch \in DOMAIN Hex =>
              /\ Len(Escaped(ch)) = 3 /\ Escaped(ch)[1] = "%"
              /\ H!IsDigit(Escaped(ch)[2]) /\ H!IsDigit(Escaped(ch)[3])
              /\ H!hexit(Escaped(ch)[2], Escaped(ch)[3]) = ch
         /\ ch \notin DOMAIN Hex =>
              Len(Escaped(ch)) = 1 /\ Escaped(ch)[1] = ch /\ ch # "%"
<1>1. /\ "%" \in DOMAIN Hex /\ "%" \in Chars
      /\ \A x \in DOMAIN Hex : Hex[x] \in Chars \X Chars
      /\ \A x, y \in DOMAIN Hex : Hex[x] = Hex[y] => x = y
  BY ProgramsAssumption DEF H!LibeventAssumption, H!Range, H!IsInjective
<1>2. CASE ch \notin DOMAIN Hex
  BY <1>1, <1>2 DEF Escaped
<1>3. CASE ch \in DOMAIN Hex
  <2>1. PICK x \in Chars, y \in Chars : Hex[ch] = <<x, y>>
    BY <1>1, <1>3
  <2>2. Escaped(ch) = <<"%", x, y>>
    <3>1. <<"%">> \o <<x, y>> = <<"%", x, y>>
      <4>1. /\ <<"%">> \in Seq(Chars) /\ <<x, y>> \in Seq(Chars)
            /\ Len(<<"%">>) = 1 /\ Len(<<x, y>>) = 2
        BY <1>1
      <4>2. PICK e : e = <<"%">> \o <<x, y>>
        OBVIOUS
      <4>3. e \in Seq(Chars) /\ Len(e) = 3
        BY <4>1, <4>2, Joined
      <4>4. e[1] = "%" /\ e[2] = x /\ e[3] = y
        <5>1. /\ \A J \in 1..1 : e[J] = <<"%">>[J]
              /\ \A J \in 1..2 : e[1 + J] = <<x, y>>[J]
          BY <4>1, <4>2, Joined
        <5> QED BY <5>1
      <4>5. e = <<"%", x, y>>
        BY <4>3, <4>4
      <4> QED BY <4>2, <4>5
    <3> QED BY <1>3, <2>1, <3>1 DEF Escaped
  <2>3. H!IsDigit(x) /\ H!IsDigit(y)
    <3>1. x \in H!Range(Hex[ch]) /\ y \in H!Range(Hex[ch])
      <4>1. /\ DOMAIN Hex[ch] = 1..2 /\ Hex[ch][1] = x /\ Hex[ch][2] = y
        BY <2>1
      <4> QED BY <4>1 DEF H!Range
    <3> QED BY <1>3, <3>1 DEF H!IsDigit
  <2>4. H!hexit(x, y) = ch
    BY <1>1, <1>3, <2>1 DEF H!hexit
  <2>5. <<"%", x, y>> \in Seq(Chars) /\ Len(<<"%", x, y>>) = 3
    BY <1>1
  <2> QED BY <1>3, <2>2, <2>3, <2>4, <2>5
<1> QED BY <1>2, <1>3

\* The name in a link.
LEMMA NameTyped ==
  ASSUME NEW name \in Seq(Chars)
  PROVE  H!strencode(name) \in Seq(Chars)
<1>1. PICK n \in Nat : n = Len(name) /\ DOMAIN name = 1..n
  OBVIOUS
<1>2. PICK q : q = [k \in 1..n |-> Escaped(name[k])]
  OBVIOUS
<1>3. q \in [1..n -> Seq(Chars)]
  BY <1>1, <1>2, EscapedFacts
<1>4. H!strencode(name) = H!FlattenSeq(q)
  BY <1>1, <1>2 DEF H!strencode, Escaped
<1> QED BY <1>3, <1>4, Flattened

\* Whatever its characters, strdecode gives back the name that strencode was
\* given.
THEOREM NameBack ==
  ASSUME NEW name \in Seq(Chars)
  PROVE  H!strdecode(H!strencode(name)) = name
<1> DEFINE n == Len(name)
           q == [k \in 1..n |-> Escaped(name[k])]
           Rest(j) == [k \in 1..n - j |-> name[j + k]]
<1>1. n \in Nat /\ DOMAIN name = 1..n /\ \A k \in 1..n : name[k] \in Chars
  OBVIOUS
<1>2. q \in [1..n -> Seq(Chars)]
  BY <1>1, EscapedFacts
<1>3. PICK e : e = H!strencode(name)
  OBVIOUS
<1>4. e = H!FlattenSeq(q)
  BY <1>1, <1>3 DEF H!strencode, Escaped
<1>5. PICK p \in [0..n -> Nat] : Laid(q, n, e, p)
  <2> HIDE DEF n, q
  <2> QED BY <1>1, <1>2, <1>4, Flattened, Zenon
<1>6. Len(e) \in Nat
  BY <1>1, <1>5 DEF Laid
<1>7. PICK f : /\ H!strdecode(e) = f[1]
               /\ \A k \in 1..Len(e) + 1 : f[k] = Decodes(e, f, k)
  BY <1>6, DecodedFrom
<1> DEFINE Q == {m \in 0..n : f[p[n - m] + 1] = Rest(n - m)}
<1>8. 0 \in Q
  <2>1. n - 0 = n /\ Len(e) + 1 \in 1..Len(e) + 1 /\ Len(e) + 1 > Len(e)
    BY <1>1, <1>6
  <2>2. f[Len(e) + 1] = <<>>
    BY <1>7, <2>1 DEF Decodes
  <2>3. Rest(n) = <<>>
    <3>1. n - n = 0 /\ 1..0 = {}
      BY <1>1
    <3>2. Rest(n) = [k \in {} |-> name[n + k]]
      BY <3>1
    <3> QED BY <3>2
  <2> QED BY <1>1, <1>5, <2>1, <2>2, <2>3 DEF Laid
<1>9. ASSUME NEW m \in 0..n - 1, m \in Q PROVE m + 1 \in Q
  <2>1. PICK j \in 1..n : j = n - m
    <3>1. n - m \in 1..n
      BY <1>1
    <3> QED BY <3>1
  <2>2. j - 1 \in 0..n /\ j - 1 = n - (m + 1) /\ m + 1 \in 0..n
    BY <1>1, <2>1
  <2>3. PICK k, l : k = p[j - 1] + 1 /\ l = p[j] + 1
    OBVIOUS
  <2>4. f[l] = Rest(j)
    BY <1>9, <2>1, <2>3
  <2>5. PICK ch \in Chars : ch = name[j] /\ q[j] = Escaped(ch)
    BY <1>1
  <2>6. /\ k \in 1..Len(e) + 1 /\ l = k + Len(q[j]) /\ l <= Len(e) + 1
        /\ \A J \in 1..Len(q[j]) : e[k + J - 1] = q[j][J]
    <3>1. /\ p[j] = p[j - 1] + Len(q[j]) /\ p[j] <= p[n] /\ p[n] = Len(e)
          /\ \A J \in 1..Len(q[j]) : e[p[j - 1] + J] = q[j][J]
      BY <1>5 DEF Laid
    <3>2. p[j - 1] \in Nat /\ p[j] \in Nat /\ Len(q[j]) \in Nat
      <4>1. q[j] \in Seq(Chars)
        BY <1>2
      <4>2. j \in 0..n
        BY <1>1
      <4> HIDE DEF q
      <4>3. p[j - 1] \in Nat /\ p[j] \in Nat
        BY <2>2, <4>2
      <4>4. Len(q[j]) \in Nat
        BY <4>1
      <4> QED BY <4>3, <4>4
    <3>3. \A J \in 1..Len(q[j]) : k + J - 1 = p[j - 1] + J
      BY <2>3, <3>2
    <3>4. \A J \in 1..Len(q[j]) : e[k + J - 1] = q[j][J]
      BY <3>1, <3>3
    <3>5. k \in 1..Len(e) + 1 /\ l = k + Len(q[j]) /\ l <= Len(e) + 1
      <4> HIDE DEF q, Rest, Q
      <4>1. PICK a, b, z, x :
              a = p[j - 1] /\ b = p[j] /\ z = Len(q[j]) /\ x = Len(e)
        BY Zenon
      <4>2. /\ a \in Nat /\ b \in Nat /\ z \in Nat /\ x \in Nat
            /\ b = a + z /\ b <= x /\ k = a + 1 /\ l = b + 1
        BY <1>6, <2>3, <3>1, <3>2, <4>1
      <4>3. k \in 1..x + 1 /\ l = k + z /\ l <= x + 1
        BY <4>2
      <4> QED BY <4>1, <4>3
    <3> QED BY <3>4, <3>5
  <2>7. <<ch>> \o Rest(j) = Rest(j - 1)
    <3>1. /\ <<ch>> \in Seq(Chars) /\ Len(<<ch>>) = 1
          /\ Rest(j) \in Seq(Chars) /\ Len(Rest(j)) = n - j
          /\ Rest(j - 1) \in Seq(Chars) /\ Len(Rest(j - 1)) = n - j + 1
      BY <1>1
    <3>2. PICK r : r = <<ch>> \o Rest(j)
      OBVIOUS
    <3>3. r \in Seq(Chars) /\ Len(r) = n - j + 1
      <4>1. \A a, b \in Seq(Chars) : /\ a \o b \in Seq(Chars)
                                     /\ Len(a \o b) = Len(a) + Len(b)
        BY Joined
      <4>2. Len(r) = 1 + (n - j)
        <5> HIDE DEF n, q, Rest, Q
        <5>1. PICK a, b \in Seq(Chars) : a = <<ch>> /\ b = Rest(j)
          BY <3>1
        <5>2. Len(a \o b) = Len(a) + Len(b)
          BY <4>1
        <5> QED BY <3>1, <3>2, <5>1, <5>2
      <4>3. r \in Seq(Chars)
        <5> HIDE DEF Rest
        <5> QED BY <3>1, <3>2, <4>1
      <4> QED BY <1>1, <4>2, <4>3
    <3>4. /\ \A J \in 1..1 : r[J] = <<ch>>[J]
          /\ \A J \in 1..n - j : r[1 + J] = Rest(j)[J]
      <4>1. \A a, b \in Seq(Chars) :
              /\ \A J \in 1..Len(a) : (a \o b)[J] = a[J]
              /\ \A J \in 1..Len(b) : (a \o b)[Len(a) + J] = b[J]
        BY Joined
      <4> HIDE DEF Rest
      <4> QED BY <3>1, <3>2, <4>1
    <3>5. r[1] = Rest(j - 1)[1]
      BY <1>1, <2>5, <3>4
    <3>6. \A J \in 1..n - j : Rest(j)[J] = Rest(j - 1)[1 + J]
      BY <1>1
    <3>7. ASSUME NEW J \in 1..n - j + 1 PROVE r[J] = Rest(j - 1)[J]
      <4>1. CASE J = 1
        BY <3>5, <4>1
      <4>2. CASE J # 1
        <5>1. PICK i \in 1..n - j : J = 1 + i
          <6>1. J - 1 \in 1..n - j /\ J = 1 + (J - 1)
            BY <1>1, <4>2
          <6> QED BY <6>1
        <5> HIDE DEF Rest
        <5> QED BY <3>4, <3>6, <5>1
      <4> QED BY <4>1, <4>2
    <3>8. r = Rest(j - 1)
      <4> HIDE DEF Rest
      <4> QED BY <3>1, <3>3, <3>7, SeqEqual
    <3> QED BY <3>2, <3>8
  <2>8. f[k] = <<ch>> \o f[l]
    <3>1. k <= Len(e) /\ f[k] = Decodes(e, f, k)
      <4>1. Len(q[j]) \in Nat /\ Len(q[j]) >= 1
        <5>1. ch \in DOMAIN Hex \/ ch \notin DOMAIN Hex
          OBVIOUS
        <5>2. Len(Escaped(ch)) \in {1, 3}
          BY EscapedFacts
        <5> QED BY <2>5, <5>2
      <4> QED BY <1>6, <1>7, <2>6, <4>1
    <3>2. CASE ch \in DOMAIN Hex
      <4>1. /\ e[k] = "%" /\ H!IsDigit(e[k + 1]) /\ H!IsDigit(e[k + 2])
            /\ H!hexit(e[k + 1], e[k + 2]) = ch /\ l = k + 3
        <5>1. PICK g : g = q[j]
          OBVIOUS
        <5>2. /\ Len(g) = 3 /\ g[1] = "%" /\ H!IsDigit(g[2]) /\ H!IsDigit(g[3])
              /\ H!hexit(g[2], g[3]) = ch
          BY <2>5, <3>2, <5>1, EscapedFacts
        <5>3. l = k + 3 /\ \A J \in 1..3 : e[k + J - 1] = g[J]
          BY <2>6, <5>1, <5>2
        <5>4. e[k] = g[1] /\ e[k + 1] = g[2] /\ e[k + 2] = g[3]
          <6>1. k + 1 - 1 = k /\ k + 2 - 1 = k + 1 /\ k + 3 - 1 = k + 2
            BY <2>6
          <6> QED BY <5>3, <6>1
        <5> QED BY <5>2, <5>3, <5>4
      <4>2. IsEscape(e, k)
        BY <1>6, <2>6, <4>1 DEF IsEscape
      <4>3. ~ (k > Len(e))
        BY <1>6, <2>6, <3>1
      <4>4. f[k] = <<H!hexit(e[k + 1], e[k + 2])>> \o f[k + 3]
        BY <3>1, <4>2, <4>3, Zenon DEF Decodes
      <4> QED BY <4>1, <4>4, Zenon
    <3>3. CASE ch \notin DOMAIN Hex
      <4>1. e[k] = ch /\ ch # "%" /\ l = k + 1
        <5>1. PICK g : g = q[j]
          OBVIOUS
        <5>2. Len(g) = 1 /\ g[1] = ch /\ ch # "%"
          BY <2>5, <3>3, <5>1, EscapedFacts
        <5>3. l = k + 1 /\ e[k + 1 - 1] = g[1] /\ k + 1 - 1 = k
          <6> HIDE DEF q, Rest, Q
          <6>1. Len(q[j]) = 1 /\ 1 \in 1..Len(q[j])
            BY <5>1, <5>2
          <6>2. e[k + 1 - 1] = q[j][1] /\ l = k + 1
            BY <2>6, <6>1
          <6>3. k + 1 - 1 = k
            BY <2>6
          <6> QED BY <5>1, <6>2, <6>3
        <5> QED BY <5>2, <5>3
      <4>3. ~ (k > Len(e)) /\ ~ IsEscape(e, k)
        BY <1>6, <2>6, <3>1, <4>1 DEF IsEscape
      <4>4. f[k] = <<e[k]>> \o f[k + 1]
        BY <3>1, <4>3, Zenon DEF Decodes
      <4> QED BY <4>1, <4>4, Zenon
    <3> QED BY <3>2, <3>3
  <2> QED BY <2>2, <2>3, <2>4, <2>7, <2>8
<1>10. n \in Q
  <2>1. \A m \in 0..n - 1 : m \in Q => m + 1 \in Q
    BY <1>9
  <2>2. n \in 0..n /\ n \in Nat
    BY <1>1
  <2> HIDE DEF Q
  <2> QED BY <1>8, <2>1, <2>2, CountUp, Zenon
<1>11. f[1] = Rest(0)
  BY <1>1, <1>5, <1>10 DEF Laid
<1>12. Rest(0) = name
  BY <1>1
<1> QED BY <1>3, <1>7, <1>11, <1>12

-----------------------------------------------------------------------------
(* Ways through the directories *)

\* The entry of m that has the name s, if K is what is there.
EnterIn(K, m, s) ==
  IF \E x \in K : Parent[x] = H!Real(m) /\ Name[x] = s
  THEN CHOOSE x \in K : Parent[x] = H!Real(m) /\ Name[x] = s ELSE H!Nothing

LEMMA TreeGiven ==
  /\ H!Root # H!Nothing /\ H!Root \notin Nodes /\ H!Nothing \notin Nodes
  /\ \A m \in Nodes : \/ Parent[m] = H!Root
                      \/ Parent[m] \in Nodes /\ Kind[Parent[m]] = "dir"
  /\ \A m \in Nodes : Name[m] \in Seq(Chars)
  /\ \A m, n \in Nodes : Parent[m] = Parent[n] /\ Name[m] = Name[n] => m = n
<1>1. H!LibeventAssumption
  BY ProgramsAssumption
<1>2. H!Root # H!Nothing
  BY DEF H!Root, H!Nothing
<1> QED BY <1>1, <1>2 DEF H!LibeventAssumption

LEMMA EnterGives ==
  ASSUME NEW K \in SUBSET Nodes, NEW m, NEW x \in K, Parent[x] = H!Real(m)
  PROVE  EnterIn(K, m, Name[x]) = x
<1>1. \A y \in K : Parent[y] = H!Real(m) /\ Name[y] = Name[x] => y = x
  BY TreeGiven
<1> QED BY <1>1 DEF EnterIn

LEMMA EnterGets ==
  ASSUME NEW K \in SUBSET Nodes, NEW m, NEW s
  PROVE  \/ EnterIn(K, m, s) = H!Nothing
         \/ /\ EnterIn(K, m, s) \in K /\ Name[EnterIn(K, m, s)] = s
            /\ Parent[EnterIn(K, m, s)] = H!Real(m)
BY DEF EnterIn

\* There is nothing in a file.
LEMMA EnterNone ==
  ASSUME NEW K \in SUBSET Nodes, NEW m, NEW s, m # H!Root, ~ H!IsDir(m)
  PROVE  EnterIn(K, m, s) = H!Nothing
<1>1. H!Real(m) = m
  BY DEF H!Real, H!IsDir
<1>2. \A x \in K : Parent[x] # m
  BY TreeGiven DEF H!IsDir
<1> QED BY <1>1, <1>2 DEF EnterIn

\* A file less.
LEMMA EnterLess ==
  ASSUME NEW K \in SUBSET Nodes, NEW f \in K, NEW m, NEW s
  PROVE  EnterIn(K \ {f}, m, s) =
           IF EnterIn(K, m, s) = f THEN H!Nothing ELSE EnterIn(K, m, s)
<1>1. K \ {f} \in SUBSET Nodes /\ f # H!Nothing
  BY TreeGiven
<1>2. CASE \E x \in K : Parent[x] = H!Real(m) /\ Name[x] = s
  <2>1. PICK x \in K : Parent[x] = H!Real(m) /\ Name[x] = s
    BY <1>2
  <2>2. EnterIn(K, m, s) = x
    BY <2>1, EnterGives
  <2>3. CASE x = f
    <3>1. \A y \in K \ {f} : ~ (Parent[y] = H!Real(m) /\ Name[y] = s)
      BY <2>1, <2>3, TreeGiven
    <3>2. EnterIn(K \ {f}, m, s) = H!Nothing
      BY <3>1 DEF EnterIn
    <3> QED BY <2>2, <2>3, <3>2
  <2>4. CASE x # f
    <3>1. x \in K \ {f}
      BY <2>4
    <3>2. EnterIn(K \ {f}, m, s) = x
      BY <1>1, <2>1, <3>1, EnterGives
    <3> QED BY <2>2, <2>4, <3>2
  <2> QED BY <2>3, <2>4
<1>3. CASE ~ \E x \in K : Parent[x] = H!Real(m) /\ Name[x] = s
  BY <1>1, <1>3 DEF EnterIn
<1> QED BY <1>2, <1>3

\* The names lead from Root to n.
Walks(K, names, w) ==
  /\ w[0] = H!Root
  /\ \A k \in 1..Len(names) : w[k] = EnterIn(K, w[k - 1], H!strdecode(names[k]))
Leads(K, names, n) == \E w : Walks(K, names, w) /\ w[Len(names)] = n

Segments == Seq(Chars)

\* They lead to one place.
LEMMA LeadsToOne ==
  ASSUME NEW K, NEW names \in Seq(Segments), NEW m, NEW n,
         Leads(K, names, m), Leads(K, names, n)
  PROVE  m = n
<1>1. PICK v : Walks(K, names, v) /\ v[Len(names)] = m
  BY DEF Leads
<1>2. PICK w : Walks(K, names, w) /\ w[Len(names)] = n
  BY DEF Leads
<1>3. Len(names) \in Nat /\ Len(names) \in 0..Len(names)
  OBVIOUS
<1> DEFINE Q == {k \in 0..Len(names) : v[k] = w[k]}
<1>4. 0 \in Q
  BY <1>1, <1>2, <1>3 DEF Walks
<1>5. ASSUME NEW k \in 0..Len(names) - 1, k \in Q PROVE k + 1 \in Q
  <2>1. k + 1 \in 1..Len(names) /\ k + 1 - 1 = k /\ k + 1 \in 0..Len(names)
    BY <1>3
  <2>2. v[k + 1] = w[k + 1]
    BY <1>1, <1>2, <1>5, <2>1 DEF Walks
  <2> QED BY <2>1, <2>2
<1>6. Len(names) \in Q
  <2>1. \A k \in 0..Len(names) - 1 : k \in Q => k + 1 \in Q
    BY <1>5
  <2> HIDE DEF Q
  <2> QED BY <1>3, <1>4, <2>1, CountUp, Zenon
<1> QED BY <1>1, <1>2, <1>6

\* A name more.
LEMMA LeadsOn ==
  ASSUME NEW K, NEW names \in Seq(Segments), NEW m, Leads(K, names, m),
         NEW s \in Segments
  PROVE  Leads(K, Append(names, s), EnterIn(K, m, H!strdecode(s)))
<1>1. PICK w : Walks(K, names, w) /\ w[Len(names)] = m
  BY DEF Leads
<1>2. PICK N \in Nat : N = Len(names)
  OBVIOUS
<1>3. PICK a : a = Append(names, s)
  OBVIOUS
<1>4. /\ Len(a) = N + 1 /\ a[N + 1] = s
      /\ \A k \in 1..N : a[k] = names[k]
  BY <1>2, <1>3, AppendProperties
<1> DEFINE e == EnterIn(K, m, H!strdecode(s))
           v == [k \in 0..N + 1 |-> IF k = N + 1 THEN e ELSE w[k]]
<1>5. v[0] = w[0] /\ v[N + 1] = e /\ \A k \in 0..N : v[k] = w[k]
  BY <1>2
<1> HIDE DEF v, e
<1>6. ASSUME NEW k \in 1..N + 1
      PROVE  v[k] = EnterIn(K, v[k - 1], H!strdecode(a[k]))
  <2>1. CASE k = N + 1
    <3>1. k - 1 = N /\ v[N] = m
      BY <1>1, <1>2, <1>5, <2>1
    <3> QED BY <1>4, <1>5, <2>1, <3>1 DEF e
  <2>2. CASE k # N + 1
    <3>1. k \in 1..N /\ k \in 0..N /\ k - 1 \in 0..N
      BY <2>2
    <3> QED BY <1>1, <1>2, <1>4, <1>5, <3>1 DEF Walks
  <2> QED BY <2>1, <2>2
<1>7. Walks(K, a, v)
  BY <1>1, <1>4, <1>5, <1>6 DEF Walks
<1> QED BY <1>3, <1>4, <1>5, <1>7 DEF Leads, e

\* A file less: what led to it leads to nothing, and all other ways are as they
\* were.
LEMMA LeadsLess ==
  ASSUME NEW K \in SUBSET Nodes, NEW f \in K, Kind[f] = "file",
         NEW names \in Seq(Segments), NEW m, Leads(K, names, m), m # f
  PROVE  Leads(K \ {f}, names, m)
<1>1. PICK w : Walks(K, names, w) /\ w[Len(names)] = m
  BY DEF Leads
<1>2. PICK N \in Nat : N = Len(names)
  OBVIOUS
<1> DEFINE v == [k \in 0..N |-> IF w[k] = f THEN H!Nothing ELSE w[k]]
<1>3. f # H!Root /\ f # H!Nothing /\ ~ H!IsDir(f) /\ ~ H!IsDir(H!Nothing)
  BY TreeGiven DEF H!IsDir
<1>4. v[0] = H!Root
  BY <1>1, <1>3 DEF Walks
<1>5. \A k \in 0..N : v[k] = IF w[k] = f THEN H!Nothing ELSE w[k]
  OBVIOUS
<1> HIDE DEF v
<1>6. ASSUME NEW k \in 1..N
      PROVE  v[k] = EnterIn(K \ {f}, v[k - 1], H!strdecode(names[k]))
  <2>1. k \in 0..N /\ k - 1 \in 0..N
    OBVIOUS
  <2>2. PICK s : s = H!strdecode(names[k])
    OBVIOUS
  <2>3. w[k] = EnterIn(K, w[k - 1], s)
    BY <1>1, <1>2, <2>2 DEF Walks
  <2>4. CASE w[k - 1] = f
    <3>1. w[k] = H!Nothing
      BY <1>3, <2>3, <2>4, EnterNone
    <3>2. v[k] = H!Nothing /\ v[k - 1] = H!Nothing
      BY <1>3, <1>5, <2>1, <2>4, <3>1
    <3>3. K \ {f} \in SUBSET Nodes /\ H!Nothing # H!Root
      BY TreeGiven
    <3>4. EnterIn(K \ {f}, H!Nothing, s) = H!Nothing
      BY <1>3, <3>3, EnterNone
    <3> QED BY <2>2, <3>2, <3>4
  <2>5. CASE w[k - 1] # f
    <3>1. v[k - 1] = w[k - 1]
      BY <1>5, <2>1, <2>5
    <3>2. EnterIn(K \ {f}, w[k - 1], s) =
            IF EnterIn(K, w[k - 1], s) = f THEN H!Nothing
            ELSE EnterIn(K, w[k - 1], s)
      BY EnterLess
    <3> QED BY <1>5, <2>1, <2>2, <2>3, <3>1, <3>2
  <2> QED BY <2>4, <2>5
<1>7. Walks(K \ {f}, names, v)
  BY <1>2, <1>4, <1>6 DEF Walks
<1>8. v[Len(names)] = m
  <2>1. N \in 0..N
    OBVIOUS
  <2> QED BY <1>1, <1>2, <1>5, <2>1
<1> QED BY <1>7, <1>8 DEF Leads

\* What Find goes through.
Walk(names) ==
  H!FoldLeft(LAMBDA m, s : H!Enter(m, H!strdecode(s)), H!Root, names)
Fold(names, f, m) ==
  f = [s \in SUBSET (1..m) |->
         IF s = {} THEN H!Root
         ELSE H!Enter(f[s \ {H!Max(s)}], H!strdecode(names[H!Max(s)]))]

LEMMA EnterIs ==
  ASSUME present \in SUBSET Nodes, NEW m, NEW s
  PROVE  H!Enter(m, s) = EnterIn(present, m, s)
<1>1. CASE \E x \in present : Parent[x] = H!Real(m) /\ Name[x] = s
  <2>1. PICK x \in present : Parent[x] = H!Real(m) /\ Name[x] = s
    BY <1>1
  <2>2. EnterIn(present, m, s) = x
    BY <2>1, EnterGives
  <2>3. x \in H!Entries(m) /\ \A y \in H!Entries(m) : Name[y] = s => y = x
    BY <2>1, TreeGiven DEF H!Entries
  <2> QED BY <2>1, <2>2, <2>3 DEF H!Enter
<1>2. CASE ~ \E x \in present : Parent[x] = H!Real(m) /\ Name[x] = s
  BY <1>2 DEF H!Enter, H!Entries, EnterIn
<1> QED BY <1>1, <1>2

\* The greatest of some numbers.
LEMMA MaxOf ==
  ASSUME NEW m \in Nat, NEW s \in SUBSET (1..m + 1)
  PROVE  /\ m + 1 \in s => H!Max(s) = m + 1 /\ s \ {m + 1} \in SUBSET (1..m)
         /\ m + 1 \notin s => s \in SUBSET (1..m)
<1>1. m + 1 \in s => H!Max(s) = m + 1
  <2> SUFFICES ASSUME m + 1 \in s PROVE H!Max(s) = m + 1
    OBVIOUS
  <2>1. \A y \in s : m + 1 >= y
    OBVIOUS
  <2>2. \A x \in s : (\A y \in s : x >= y) => x = m + 1
    OBVIOUS
  <2> QED BY <2>1, <2>2 DEF H!Max
<1>2. \A x \in s : x # m + 1 => x \in 1..m
  OBVIOUS
<1> QED BY <1>1, <1>2

\* The fold is defined, whatever the names.
LEMMA FoldIs ==
  ASSUME NEW n \in Nat, NEW names
  PROVE  \E f : Fold(names, f, n)
<1> DEFINE Q == {m \in Nat : \E f : Fold(names, f, m)}
<1>1. 0 \in Q
  <2>1. Fold(names, [s \in SUBSET (1..0) |-> H!Root], 0)
    <3>1. \A s \in SUBSET (1..0) : s = {}
      OBVIOUS
    <3> QED BY <3>1 DEF Fold
  <2> QED BY <2>1
<1>2. ASSUME NEW m \in 0..n - 1, m \in Q PROVE m + 1 \in Q
  <2>1. PICK f : Fold(names, f, m)
    BY <1>2
  <2> DEFINE Of(h, s) ==
               IF s = {} THEN H!Root
               ELSE H!Enter(h[s \ {H!Max(s)}], H!strdecode(names[H!Max(s)]))
             g == [s \in SUBSET (1..m + 1) |->
                     IF m + 1 \in s THEN Of(f, s) ELSE f[s]]
  <2>2. \A s \in SUBSET (1..m) : f[s] = Of(f, s)
    BY <2>1 DEF Fold
  <2>3. \A s \in SUBSET (1..m + 1) :
          g[s] = IF m + 1 \in s THEN Of(f, s) ELSE f[s]
    OBVIOUS
  <2>m. m \in Nat /\ m + 1 \in Nat
    OBVIOUS
  <2>4. ASSUME NEW s \in SUBSET (1..m + 1) PROVE g[s] = Of(g, s)
    <3>1. g[s] = Of(f, s)
      BY <2>2, <2>3, <2>m, MaxOf
    <3>2. CASE s = {}
      BY <3>1, <3>2
    <3>3. CASE s # {}
      <4>1. PICK r : r = s \ {H!Max(s)}
        OBVIOUS
      <4>2. r \in SUBSET (1..m)
        <5>1. CASE m + 1 \in s
          BY <2>m, <4>1, <5>1, MaxOf
        <5>2. CASE m + 1 \notin s
          BY <2>m, <4>1, <5>2, MaxOf
        <5> QED BY <5>1, <5>2
      <4>3. g[r] = f[r]
        <5>1. r \in SUBSET (1..m + 1) /\ m + 1 \notin r
          BY <2>m, <4>2
        <5> HIDE DEF g
        <5> QED BY <2>3, <5>1
      <4> HIDE DEF g
      <4> QED BY <3>1, <3>3, <4>1, <4>3
    <3> QED BY <3>2, <3>3
  <2>5. Fold(names, g, m + 1)
    BY <2>4 DEF Fold
  <2> QED BY <2>m, <2>5, Zenon
<1>3. n \in Q
  <2>1. \A m \in 0..n - 1 : m \in Q => m + 1 \in Q
    BY <1>2
  <2>2. n \in 0..n
    OBVIOUS
  <2> HIDE DEF Q
  <2> QED BY <1>1, <2>1, <2>2, CountUp, Zenon
<1> QED BY <1>3

\* It goes the way that the names lead.
LEMMA WalkLeads ==
  ASSUME present \in SUBSET Nodes, NEW names \in Seq(Segments)
  PROVE  Leads(present, names, Walk(names))
<1>1. PICK n \in Nat : n = Len(names) /\ DOMAIN names = 1..n
  OBVIOUS
<1>2. PICK f : Fold(names, f, n) /\ Walk(names) = f[1..n]
  <2>1. \E f : Fold(names, f, n)
    BY FoldIs
  <2>2. \E f : f = [s \in SUBSET DOMAIN names |->
                     IF s = {} THEN H!Root
                     ELSE H!Enter(f[s \ {H!Max(s)}],
                                  H!strdecode(names[H!Max(s)]))]
    BY <1>1, <2>1 DEF Fold
  <2>3. \E f : /\ f = [s \in SUBSET DOMAIN names |->
                        IF s = {} THEN H!Root
                        ELSE H!Enter(f[s \ {H!Max(s)}],
                                     H!strdecode(names[H!Max(s)]))]
               /\ Walk(names) = f[DOMAIN names]
    BY <2>2 DEF Walk, H!FoldLeft, H!MapThenFoldSet
  <2> QED BY <1>1, <2>3 DEF Fold
<1> DEFINE w == [k \in 0..n |-> f[1..k]]
<1>3. \A s \in SUBSET (1..n) :
        f[s] = IF s = {} THEN H!Root
               ELSE H!Enter(f[s \ {H!Max(s)}], H!strdecode(names[H!Max(s)]))
  BY <1>2 DEF Fold
<1>4. w[0] = H!Root
  <2>1. 1..0 = {} /\ 0 \in 0..n
    OBVIOUS
  <2> QED BY <1>3, <2>1
<1>5. ASSUME NEW k \in 1..n
      PROVE  w[k] = EnterIn(present, w[k - 1], H!strdecode(names[k]))
  <2>1. /\ 1..k \in SUBSET (1..n) /\ 1..k # {} /\ (1..k) \ {k} = 1..k - 1
        /\ k - 1 \in 0..n /\ k \in 0..n /\ k - 1 \in Nat /\ k - 1 + 1 = k
        /\ k \in 1..k
    <3>1. k \in Nat /\ k >= 1 /\ k <= n
      OBVIOUS
    <3>2. \A x : x \in 1..k => x \in 1..n
      BY <3>1
    <3>3. \A x : x \in (1..k) \ {k} <=> x \in 1..k - 1
      BY <3>1
    <3>4. (1..k) \ {k} = 1..k - 1
      BY <3>3
    <3>5. k \in 1..k
      BY <3>1
    <3>6. 1..k \in SUBSET (1..n) /\ 1..k # {}
      BY <3>2, <3>5, Zenon
    <3>7. k - 1 \in 0..n /\ k \in 0..n /\ k - 1 \in Nat /\ k - 1 + 1 = k
      BY <3>1
    <3> QED BY <3>4, <3>5, <3>6, <3>7, Zenon
  <2>2. H!Max(1..k) = k
    BY <2>1, MaxOf
  <2>3. f[1..k] = H!Enter(f[1..k - 1], H!strdecode(names[k]))
    BY <1>3, <2>1, <2>2
  <2> QED BY <2>1, <2>3, EnterIs
<1>6. w[n] = Walk(names)
  BY <1>2
<1> HIDE DEF w
<1>7. Walks(present, names, w)
  BY <1>1, <1>4, <1>5 DEF Walks
<1> QED BY <1>1, <1>6, <1>7 DEF Leads

\* A request finds n, if K is what is there.
UrlType == [names : Seq(Segments), slash : BOOLEAN]
Finds(K, u, n) == /\ Leads(K, u.names, n) /\ n \in K \union {H!Root}
                  /\ u.slash => H!IsDir(n)

LEMMA FindIs ==
  ASSUME present \in SUBSET Nodes, NEW u \in UrlType
  PROVE  /\ H!Find(u) = H!Nothing \/ Finds(present, u, H!Find(u))
         /\ \A n : Finds(present, u, n) => H!Find(u) = n
<1>1. u.names \in Seq(Segments)
  BY DEF UrlType
<1>2. PICK m : m = Walk(u.names)
  OBVIOUS
<1>3. Leads(present, u.names, m)
  BY <1>1, <1>2, WalkLeads
<1>4. H!Find(u) = IF m \in present \union {H!Root} /\ (u.slash => H!IsDir(m))
                  THEN m ELSE H!Nothing
  BY <1>2 DEF H!Find, Walk
<1>5. ASSUME NEW n, Finds(present, u, n) PROVE H!Find(u) = n
  <2>1. n = m
    BY <1>1, <1>3, <1>5, LeadsToOne DEF Finds
  <2> QED BY <1>4, <1>5, <2>1 DEF Finds
<1> QED BY <1>3, <1>4, <1>5 DEF Finds

-----------------------------------------------------------------------------
(* Links *)

\* The link that a browser followed: what it names is gone, or its url finds
\* it; n is what the server found for it.
Missing(n) == n \in Nodes \ present
Meant(c) == goal[c] = H!Nothing \/ Missing(goal[c])
              \/ Finds(present, url[c], goal[c])
AtGoal(c, n) == astray[c] \/ goal[c] = H!Nothing \/ Missing(goal[c]) \/ n = goal[c]

\* The url of a page with links leads to the directory they are in.
Page(c, n) == H!IsDir(n) => Leads(present, url[c].names, n)
LinkTo(n, l) ==
  \E m \in Nodes : /\ Parent[m] = H!Real(n)
                   /\ l.names = m /\ l.name = H!strencode(Name[m])
                   /\ l.slash \in BOOLEAN /\ (l.slash => Kind[m] = "dir")
Piece(c, p) ==
  /\ AtGoal(c, p.node)
  /\ p.what = "body" => \A l \in p.links : /\ H!IsDir(p.node) /\ Page(c, p.node)
                                           /\ LinkTo(p.node, l)

\* What a browser has of the answer, or will have.
Holds(c, p) == \/ \E k \in DOMAIN got[c] : p = got[c][k]
               \/ \E k \in DOMAIN output[c] : p = output[c][k]

LinkOf(c) ==
  /\ arrived[c] # <<>> => arrived[c] = <<[url |-> url[c], part |-> "all"]>>
  /\ astray[c] \/ Meant(c)
  /\ InCall(c) => AtGoal(c, cb.node) /\ Page(c, cb.node)
  /\ \A p : Holds(c, p) => Piece(c, p)

LinkTyped == /\ url \in [Browsers -> UrlType]
             /\ DOMAIN goal = Browsers /\ DOMAIN astray = Browsers
             /\ present \in SUBSET Nodes
LinkInv == LinkTyped /\ \A c \in Browsers : LinkOf(c)

\* Everybody begins at the root.
LEMMA LinkInit == ASSUME Init PROVE LinkInv
<1>1. /\ url = [c \in Browsers |-> H!Top] /\ goal = [c \in Browsers |-> H!Root]
      /\ astray = [c \in Browsers |-> FALSE] /\ present = Nodes /\ cb = H!Idle
      /\ arrived = [c \in H!HttpClients |-> <<>>]
      /\ output = [c \in H!HttpClients |-> <<>>]
      /\ got = [c \in Browsers |-> <<>>]
  BY DEF Init, H!Init
<1>2. H!Top \in UrlType /\ H!Top.names = <<>>
  BY DEF H!Top, UrlType, Segments
<1>3. Leads(present, <<>>, H!Root)
  <2>1. Walks(present, <<>>, [k \in {0} |-> H!Root])
    BY DEF Walks
  <2> QED BY <2>1 DEF Leads
<1>4. Finds(present, H!Top, H!Root)
  BY <1>2, <1>3 DEF Finds, H!IsDir
<1>5. ASSUME NEW c \in Browsers PROVE LinkOf(c)
  BY <1>1, <1>4, HttpGiven DEF LinkOf, Meant, InCall, Holds
<1> QED BY <1>1, <1>2, <1>5 DEF LinkInv, LinkTyped

\* A step that leaves the link itself alone, except that a file may be removed:
\* nothing is to be said but of pieces and of a callback that are new.
LEMMA LinkStays ==
  ASSUME LinkTyped, NEW c \in Browsers, LinkOf(c),
         url'[c] = url[c], goal'[c] = goal[c], astray'[c] = astray[c],
         arrived'[c] \in {arrived[c], <<>>},
         \/ present' = present
         \/ \E f \in present : Kind[f] = "file" /\ present' = present \ {f},
         InCall(c)' => \/ InCall(c) /\ cb' = cb
                       \/ AtGoal(c, cb.node)' /\ Page(c, cb.node)',
         \A p : Holds(c, p)' => Holds(c, p) \/ Piece(c, p)'
  PROVE  LinkOf(c)'
<1>1. url[c].names \in Seq(Segments)
  BY DEF LinkTyped, UrlType
<1>2. \A n : Missing(n) => Missing(n)'
  BY DEF Missing
<1>3. ASSUME NEW n, Leads(present, url[c].names, n), n \in present' \/ H!IsDir(n)
      PROVE  Leads(present', url[c].names, n)
  <2>1. CASE present' = present
    BY <1>3, <2>1
  <2>2. ASSUME NEW f \in present, Kind[f] = "file", present' = present \ {f}
        PROVE  Leads(present', url[c].names, n)
    <3>1. n # f
      BY <1>3, <2>2, TreeGiven DEF LinkTyped, H!IsDir
    <3> QED BY <1>1, <1>3, <2>2, <3>1, LeadsLess DEF LinkTyped
  <2> QED BY <2>1, <2>2
<1>4. Meant(c) => Meant(c)'
  <2>1. ASSUME Finds(present, url[c], goal[c]), ~ Missing(goal[c])'
        PROVE  Finds(present', url'[c], goal'[c])
    <3>1. goal[c] \in present' \union {H!Root}
      BY <2>1 DEF Finds, Missing, LinkTyped
    <3>2. Leads(present', url[c].names, goal[c])
      BY <1>3, <2>1, <3>1 DEF Finds, H!IsDir
    <3> QED BY <2>1, <3>1, <3>2 DEF Finds
  <2> QED BY <1>2, <2>1 DEF Meant, Missing
<1>5. \A n : AtGoal(c, n) => AtGoal(c, n)'
  BY <1>2 DEF AtGoal, Missing
<1>6. \A n : Page(c, n) => Page(c, n)'
  BY <1>3 DEF Page
<1>7. \A p : Piece(c, p) => Piece(c, p)'
  BY <1>5, <1>6 DEF Piece
<1>8. arrived'[c] # <<>> =>
        arrived'[c] = <<[url |-> url'[c], part |-> "all"]>>
  BY DEF LinkOf
<1>9. astray'[c] \/ Meant(c)'
  BY <1>4 DEF LinkOf
<1>10. InCall(c)' => AtGoal(c, cb.node)' /\ Page(c, cb.node)'
  <2>1. PICK m : m = cb.node
    OBVIOUS
  <2>2. InCall(c) => AtGoal(c, m)' /\ Page(c, m)'
    BY <1>5, <1>6, <2>1 DEF LinkOf
  <2> QED BY <2>1, <2>2 DEF AtGoal, Page
<1>11. \A p : Holds(c, p)' => Piece(c, p)'
  BY <1>7 DEF LinkOf
<1> QED BY <1>8, <1>9, <1>10, <1>11 DEF LinkOf, AtGoal, Page, Missing

\* What sequences of no, one and two pieces hold.
LEMMA PairHolds ==
  /\ \A p : ~ \E k \in DOMAIN <<>> : p = <<>>[k]
  /\ \A h, p : (\E k \in DOMAIN <<h>> : p = <<h>>[k]) <=> p = h
  /\ \A h, b, p : (\E k \in DOMAIN <<h, b>> : p = <<h, b>>[k]) <=> p \in {h, b}
<1>1. ASSUME NEW h, NEW b
      PROVE  /\ DOMAIN <<>> = {} /\ DOMAIN <<h>> = {1} /\ DOMAIN <<h, b>> = {1, 2}
             /\ <<h>>[1] = h /\ <<h, b>>[1] = h /\ <<h, b>>[2] = b
  OBVIOUS
<1>2. \A p : ~ \E k \in DOMAIN <<>> : p = <<>>[k]
  BY <1>1
<1>3. ASSUME NEW h, NEW p PROVE (\E k \in DOMAIN <<h>> : p = <<h>>[k]) <=> p = h
  BY <1>1
<1>4. ASSUME NEW h, NEW b, NEW p
      PROVE  (\E k \in DOMAIN <<h, b>> : p = <<h, b>>[k]) <=> p \in {h, b}
  <2>1. PICK e : e = <<h, b>>
    OBVIOUS
  <2>2. DOMAIN e = {1, 2} /\ e[1] = h /\ e[2] = b
    BY <1>1, <2>1
  <2>3. (\E k \in DOMAIN e : p = e[k]) <=> p \in {h, b}
    BY <2>2
  <2> QED BY <2>1, <2>3
<1> QED BY <1>2, <1>3, <1>4

\* A browser asks for what was typed, or for what a link leads to.
LEMMA LinkAsk ==
  ASSUME HttpInv, LinkInv, NEW c \in Browsers, H!Ready(c),
         NEW u \in UrlType, NEW n, NEW away, H!Ask(c, u, n, away),
         away \/ n = H!Nothing \/ Missing(n) \/ Finds(present, u, n)
  PROVE  LinkInv'
<1>0. LinkTyped /\ \A d \in Browsers : LinkOf(d)
  BY DEF LinkInv
<1>1. /\ arrived' = [arrived EXCEPT ![c] =
                       Append(@, [url |-> u, part |-> "all"])]
      /\ url' = [url EXCEPT ![c] = u] /\ goal' = [goal EXCEPT ![c] = n]
      /\ astray' = [astray EXCEPT ![c] = away]
      /\ got' = [got EXCEPT ![c] = <<>>]
      /\ UNCHANGED <<output, cb, present>>
  BY DEF H!Ask, H!AtServer, H!fileVars
<1>2. BrowserInv(c) /\ HttpTyped
  BY DEF HttpInv
<1>3. output[c] = <<>> /\ ~InCall(c) /\ arrived[c] = <<>>
  <2>1. CASE asked[c] = 0
    <3>1. output[c] = <<>> /\ arrived[c] = <<>>
      BY <1>2, <2>1 DEF BrowserInv
    <3>2. ~ HeaderOut(c)
      BY <3>1 DEF HeaderOut
    <3> QED BY <1>2, <3>1, <3>2 DEF BrowserInv
  <2>2. CASE H!Complete(c)
    <3>1. Len(got[c]) = 2
      BY <2>2 DEF H!Complete
    <3>2. got[c] # <<>>
      BY <3>1
    <3>3. ~InCall(c) /\ arrived[c] = <<>> /\ OneAnswerOf(c)
      BY <1>2, <3>2 DEF BrowserInv
    <3>4. output[c] = <<>>
      <4>1. \A h : got[c] # <<h>> /\ got[c] # <<>>
        BY <3>1
      <4> QED BY <3>3, <4>1 DEF OneAnswerOf
    <3> QED BY <3>3, <3>4
  <2> QED BY <2>1, <2>2 DEF H!Ready
<1>4. /\ url'[c] = u /\ goal'[c] = n /\ astray'[c] = away /\ got'[c] = <<>>
      /\ output'[c] = <<>> /\ ~InCall(c)'
      /\ arrived'[c] = <<[url |-> u, part |-> "all"]>>
  BY <1>0, <1>1, <1>2, <1>3, HttpGiven DEF LinkTyped, HttpTyped, InCall
<1>5. LinkOf(c)'
  <2>1. astray'[c] \/ Meant(c)'
    BY <1>1, <1>4 DEF Meant, Missing
  <2>2. ~ \E p : Holds(c, p)'
    BY <1>4, PairHolds DEF Holds
  <2> QED BY <1>4, <2>1, <2>2 DEF LinkOf
<1>6. ASSUME NEW d \in Browsers, d # c PROVE LinkOf(d)'
  <2>1. /\ url'[d] = url[d] /\ goal'[d] = goal[d] /\ astray'[d] = astray[d]
        /\ arrived'[d] = arrived[d] /\ got'[d] = got[d] /\ output'[d] = output[d]
    BY <1>0, <1>1, <1>2, <1>6, HttpGiven DEF LinkTyped, HttpTyped
  <2>2. InCall(d)' => InCall(d) /\ cb' = cb
    BY <1>1 DEF InCall
  <2>3. \A p : Holds(d, p)' => Holds(d, p)
    BY <2>1 DEF Holds
  <2> QED BY <1>0, <1>1, <1>6, <2>1, <2>2, <2>3, LinkStays
<1>7. LinkTyped'
  BY <1>0, <1>1 DEF LinkTyped
<1> QED BY <1>5, <1>6, <1>7 DEF LinkInv

\* What the link of a page leads to is found, while it is there.
LEMMA LinkFinds ==
  ASSUME LinkTyped, NEW c \in Browsers, NEW d, NEW l,
         H!IsDir(d), Leads(present, url[c].names, d), LinkTo(d, l),
         NEW u, u = [names |-> Append(url[c].names, l.name), slash |-> l.slash]
  PROVE  u \in UrlType /\ (Missing(l.names) \/ Finds(present, u, l.names))
<1>1. PICK m \in Nodes : /\ Parent[m] = H!Real(d)
                         /\ l.names = m /\ l.name = H!strencode(Name[m])
                         /\ l.slash \in BOOLEAN /\ (l.slash => Kind[m] = "dir")
  BY DEF LinkTo
<1>2. url[c].names \in Seq(Segments) /\ Name[m] \in Seq(Chars)
  BY TreeGiven DEF LinkTyped, UrlType
<1>3. l.name \in Segments /\ H!strdecode(l.name) = Name[m]
  BY <1>1, <1>2, NameTyped, NameBack DEF Segments
<1>4. u \in UrlType
  <2>1. Append(url[c].names, l.name) \in Seq(Segments)
    BY <1>2, <1>3, AppendProperties
  <2> QED BY <1>1, <2>1 DEF UrlType
<1>5. ASSUME m \in present PROVE Finds(present, u, m)
  <2>1. EnterIn(present, d, Name[m]) = m
    BY <1>1, <1>5, EnterGives DEF LinkTyped
  <2>2. Leads(present, Append(url[c].names, l.name), m)
    BY <1>2, <1>3, <2>1, LeadsOn
  <2> QED BY <1>1, <1>5, <2>2 DEF Finds, H!IsDir
<1> QED BY <1>1, <1>4, <1>5 DEF Missing

\* All names but the last.
LEMMA FrontTyped ==
  ASSUME NEW names \in Seq(Segments) PROVE H!Front(names) \in Seq(Segments)
<1>1. /\ \A i \in 1..Len(names) - 1 : names[i] \in Segments
      /\ 1 \in Int /\ Len(names) - 1 \in Int
  OBVIOUS
<1> QED BY <1>1, SubSeqProperties DEF H!Front

\* "." and ".." of a page are urls; nothing is claimed of where they lead, as
\* nothing is of what users type.
LEMMA DotsAsk ==
  ASSUME LinkTyped, NEW c \in Browsers, H!FollowDots(c)
  PROVE  \E u \in UrlType : H!Ask(c, u, H!Find(u), FALSE)
<1>1. url[c].names \in Seq(Segments)
  BY DEF LinkTyped, UrlType
<1>2. H!Base(c) \in Seq(Segments)
  BY <1>1, FrontTyped DEF H!Base
<1>3. H!Above(H!Base(c)) \in Seq(Segments)
  BY <1>2, FrontTyped DEF H!Above
<1>4. PICK names \in {H!Base(c), H!Above(H!Base(c))} :
        H!Ask(c, [names |-> names, slash |-> TRUE],
              H!Find([names |-> names, slash |-> TRUE]), FALSE)
  BY DEF H!FollowDots
<1>5. [names |-> names, slash |-> TRUE] \in UrlType
  BY <1>2, <1>3 DEF UrlType
<1> QED BY <1>4, <1>5

\* What users type are urls.
LEMMA TypedUrls == \A u \in Typed \union {H!Top} : u \in UrlType
<1>1. H!Top \in UrlType
  BY DEF H!Top, UrlType, Segments
<1>2. Typed \subseteq UrlType
  BY ProgramsAssumption DEF H!LibeventAssumption, UrlType, Segments
<1> QED BY <1>1, <1>2

\* The links of a page lead to what is in its directory.
LEMMA PageLinks ==
  ASSUME HttpInv, LinkInv, NEW c \in Browsers, H!Complete(c),
         NEW l \in got[c][2].links
  PROVE  LET n == got[c][2].node IN H!IsDir(n) /\ Page(c, n) /\ LinkTo(n, l)
<1>1. PICK p : p = got[c][2]
  OBVIOUS
<1>2. BrowserInv(c) /\ LinkOf(c)
  BY DEF HttpInv, LinkInv
<1>3. Len(got[c]) = 2
  BY DEF H!Complete
<1>4. PICK h, b : Fits(h, b) /\ got[c] = <<h, b>>
  <2>1. got[c] # <<>> /\ \A x : got[c] # <<x>>
    BY <1>3
  <2>2. ~ InCall(c)
    BY <1>2, <2>1 DEF BrowserInv
  <2>3. OneAnswerOf(c)
    BY <1>2, <2>2 DEF BrowserInv
  <2> QED BY <2>1, <2>3 DEF OneAnswerOf
<1>5. p = b
  BY <1>1, <1>4
<1>6. \E k \in DOMAIN got[c] : p = got[c][k]
  BY <1>4, <1>5, PairHolds
<1>7. p.what = "body" /\ Holds(c, p)
  BY <1>4, <1>5, <1>6 DEF Fits, Holds
<1> QED BY <1>1, <1>2, <1>7 DEF LinkOf, Piece

\* A step of one client's connection.
LEMMA LinkStepOf ==
  ASSUME HttpInv, LinkInv, NEW c \in H!HttpClients,
         \/ H!Connect(c) \/ H!Send(c) \/ H!Leave(c)
         \/ c \in Browsers /\ (H!Type(c) \/ H!Follow(c) \/ H!FollowDots(c))
         \/ H!OneClient(c)
  PROVE  LinkInv'
<1> USE HttpGiven
<1>0. /\ LinkTyped /\ HttpTyped /\ \A d \in Browsers : LinkOf(d)
      /\ \A d \in Browsers : BrowserInv(d)
  BY DEF LinkInv, HttpInv
<1>1. CASE H!Connect(c) \/ H!listener_cb(c) \/ H!Send(c) \/ H!Leave(c)
  <2>1. /\ \A d \in Browsers : arrived'[d] = arrived[d]
        /\ UNCHANGED <<output, got, cb, url, goal, astray, present>>
    BY <1>0, <1>1 DEF H!Connect, H!listener_cb, H!Send, H!Leave, H!AtServer,
      H!AtClients, H!clientVars, H!fileVars, HttpTyped
  <2>2. ASSUME NEW d \in Browsers PROVE LinkOf(d)'
    <3>1. (InCall(d)' => InCall(d)) /\ \A p : Holds(d, p)' => Holds(d, p)
      BY <2>1 DEF InCall, Holds
    <3> QED BY <1>0, <2>1, <3>1, LinkStays
  <2> QED BY <1>0, <2>1, <2>2 DEF LinkInv, LinkTyped
<1>2. CASE c \in Browsers /\ H!Type(c)
  <2>1. PICK u \in Typed \union {H!Top} : H!Ask(c, u, H!Find(u), FALSE)
    BY <1>2 DEF H!Type
  <2>2. u \in UrlType
    BY TypedUrls
  <2>3. H!Find(u) = H!Nothing \/ Finds(present, u, H!Find(u))
    BY <1>0, <2>2, FindIs DEF LinkTyped
  <2> QED BY <1>2, <2>1, <2>2, <2>3, LinkAsk DEF H!Type
<1>3. CASE c \in Browsers /\ H!Follow(c)
  <2>1. PICK l \in got[c][2].links :
          LET base == IF url[c].slash THEN url[c].names ELSE H!Front(url[c].names)
          IN H!Ask(c, [names |-> Append(base, l.name), slash |-> l.slash],
                   l.names, ~url[c].slash)
    BY <1>3 DEF H!Follow, H!Base
  <2>2. PICK p : p = got[c][2]
    OBVIOUS
  <2>4. H!IsDir(p.node) /\ Page(c, p.node) /\ LinkTo(p.node, l)
    BY <1>3, <2>1, <2>2, PageLinks DEF H!Follow
  <2>5. Leads(present, url[c].names, p.node)
    BY <2>4 DEF Page
  <2>6. l.name \in Segments /\ l.slash \in BOOLEAN
    BY <2>4, NameTyped, TreeGiven DEF LinkTo, Segments
  <2>7. url[c].names \in Seq(Segments)
    BY <1>0, <1>3 DEF LinkTyped, UrlType
  <2>8. CASE url[c].slash
    <3>1. PICK u : u = [names |-> Append(url[c].names, l.name),
                        slash |-> l.slash]
      OBVIOUS
    <3>2. u \in UrlType /\ (Missing(l.names) \/ Finds(present, u, l.names))
      BY <1>0, <1>3, <2>4, <2>5, <3>1, LinkFinds
    <3>3. H!Ask(c, u, l.names, ~url[c].slash)
      BY <2>1, <2>8, <3>1
    <3> QED BY <1>3, <3>2, <3>3, LinkAsk DEF H!Follow
  <2>9. CASE ~ url[c].slash
    <3>1. PICK base : base = H!Front(url[c].names)
      OBVIOUS
    <3>2. base \in Seq(Segments)
      BY <2>7, <3>1, FrontTyped
    <3>3. PICK u : u = [names |-> Append(base, l.name), slash |-> l.slash]
      OBVIOUS
    <3>4. u \in UrlType
      <4>1. Append(base, l.name) \in Seq(Segments)
        BY <2>6, <3>2, AppendProperties
      <4> QED BY <2>6, <3>3, <4>1 DEF UrlType
    <3>5. H!Ask(c, u, l.names, TRUE)
      BY <2>1, <2>9, <3>1, <3>3
    <3> QED BY <1>3, <3>4, <3>5, LinkAsk DEF H!Follow
  <2> QED BY <2>8, <2>9
<1>4. CASE H!conn_readcb(c)
  <2>1. /\ cb = H!Idle /\ arrived[c] # <<>>
        /\ arrived' = [arrived EXCEPT ![c] = <<>>]
        /\ UNCHANGED <<got, url, goal, astray, present>>
    BY <1>4 DEF H!conn_readcb, H!Loop, H!AtClients, H!clientVars, H!fileVars
  <2>2. LinkTyped'
    BY <1>0, <2>1 DEF LinkTyped
  <2>3. CASE UNCHANGED <<output, cb>>
    <3>1. ASSUME NEW d \in Browsers PROVE LinkOf(d)'
      <4>1. arrived'[d] \in {arrived[d], <<>>}
        BY <1>0, <2>1 DEF HttpTyped
      <4>2. (InCall(d)' => InCall(d)) /\ \A p : Holds(d, p)' => Holds(d, p)
        BY <2>1, <2>3 DEF InCall, Holds
      <4> QED BY <1>0, <2>1, <2>3, <4>1, <4>2, LinkStays
    <3> QED BY <2>2, <3>1 DEF LinkInv
  <2>4. ASSUME NEW u \in H!Parsed(c), NEW n, NEW bytes, n = H!Find(u),
               output' = [output EXCEPT ![c] = Append(@, H!Header(n, bytes))],
               cb' = [who |-> c, node |-> n, size |-> bytes, slash |-> u.slash]
        PROVE  LinkInv'
    <3>1. ASSUME c \in Browsers
          PROVE  /\ AtGoal(c, n) /\ Page(c, n)
                 /\ \A p : Holds(c, p)' => p.node = n /\ p.what = "header"
      <4>1. arrived[c] = <<[url |-> url[c], part |-> "all"]>>
        BY <1>0, <2>1, <3>1 DEF LinkOf
      <4>2. u = url[c] /\ url[c] \in UrlType
        BY <1>0, <3>1, <4>1 DEF H!Parsed, LinkTyped
      <4>3. /\ H!Find(u) = H!Nothing \/ Finds(present, u, n)
            /\ \A m : Finds(present, u, m) => H!Find(u) = m
        BY <1>0, <2>4, <4>2, FindIs DEF LinkTyped
      <4>4. AtGoal(c, n)
        BY <1>0, <2>4, <3>1, <4>2, <4>3 DEF LinkOf, Meant, AtGoal
      <4>5. Page(c, n)
        BY <2>4, <4>2, <4>3, TreeGiven DEF Page, Finds, H!IsDir
      <4>6. got[c] = <<>> /\ output[c] = <<>>
        BY <1>0, <2>1, <3>1 DEF BrowserInv
      <4>7. got'[c] = <<>> /\ output'[c] = <<H!Header(n, bytes)>>
        BY <1>0, <2>1, <2>4, <3>1, <4>6 DEF HttpTyped
      <4>8. \A p : Holds(c, p)' => p = H!Header(n, bytes)
        BY <4>7, PairHolds DEF Holds
      <4> QED BY <4>4, <4>5, <4>8 DEF H!Header
    <3>2. ASSUME NEW d \in Browsers PROVE LinkOf(d)'
      <4>1. arrived'[d] \in {arrived[d], <<>>}
        BY <1>0, <2>1 DEF HttpTyped
      <4>2. CASE d = c
        <5>1. AtGoal(c, cb.node)' /\ Page(c, cb.node)'
          BY <2>1, <2>4, <3>1, <4>2 DEF AtGoal, Page, Missing
        <5>2. \A p : Holds(c, p)' => Piece(c, p)'
          BY <2>1, <3>1, <4>2 DEF Piece, AtGoal, Missing
        <5> QED BY <1>0, <2>1, <4>1, <4>2, <5>1, <5>2, LinkStays
      <4>3. CASE d # c
        <5>1. ~ InCall(d)'
          BY <2>4, <4>3 DEF InCall
        <5>2. \A p : Holds(d, p)' => Holds(d, p)
          BY <1>0, <2>1, <2>4, <4>3 DEF Holds, HttpTyped
        <5> QED BY <1>0, <2>1, <4>1, <5>1, <5>2, LinkStays
      <4> QED BY <4>2, <4>3
    <3> QED BY <2>2, <3>2 DEF LinkInv
  <2> QED BY <1>4, <2>3, <2>4 DEF H!conn_readcb, H!Puts
<1>5. CASE H!Flush(c)
  <2>1. /\ cb = H!Idle /\ output[c] # <<>>
        /\ UNCHANGED <<arrived, cb, url, goal, astray, present>>
    BY <1>5 DEF H!Flush, H!Loop, H!clientVars, H!fileVars
  <2>2. LinkTyped'
    BY <1>0, <2>1 DEF LinkTyped
  <2>3. ASSUME NEW d \in Browsers PROVE \A p : Holds(d, p)' => Holds(d, p)
    <3>1. CASE UNCHANGED <<output, got>>
      BY <3>1 DEF Holds
    <3>2. CASE /\ output' = [output EXCEPT ![c] = Tail(@)]
               /\ got' = IF c \in Browsers
                         THEN [got EXCEPT ![c] = Append(@, Head(output[c]))]
                         ELSE got
      <4>1. CASE d # c
        BY <1>0, <3>2, <4>1 DEF Holds, HttpTyped
      <4>2. CASE d = c
        <5>1. ~InCall(c) /\ OneAnswerOf(c)
          BY <1>0, <2>1, <4>2 DEF BrowserInv, InCall
        <5>2. PICK h, b : \/ got[c] = <<>> /\ output[c] = <<h, b>>
                          \/ got[c] = <<h>> /\ output[c] = <<b>>
          BY <2>1, <5>1 DEF OneAnswerOf
        <5>3. /\ output'[c] = Tail(output[c])
              /\ got'[c] = Append(got[c], Head(output[c]))
          BY <1>0, <3>2, <4>2 DEF HttpTyped
        <5>4. \A p : Holds(c, p) <=> p \in {h, b}
          BY <5>2, PairHolds DEF Holds
        <5>5. \/ got'[c] = <<h>> /\ output'[c] = <<b>>
              \/ got'[c] = <<h, b>> /\ output'[c] = <<>>
          <6>1. /\ Tail(<<h, b>>) = <<b>> /\ Head(<<h, b>>) = h
                /\ Append(<<>>, h) = <<h>>
            OBVIOUS
          <6>2. /\ Tail(<<b>>) = <<>> /\ Head(<<b>>) = b
                /\ Append(<<h>>, b) = <<h, b>>
            BY PairAppended
          <6>3. CASE got[c] = <<>> /\ output[c] = <<h, b>>
            BY <5>3, <6>1, <6>3, Zenon
          <6>4. CASE got[c] = <<h>> /\ output[c] = <<b>>
            BY <5>3, <6>2, <6>4, Zenon
          <6> QED BY <5>2, <6>3, <6>4
        <5>6. \A p : Holds(c, p)' => p \in {h, b}
          BY <5>5, PairHolds DEF Holds
        <5> QED BY <4>2, <5>4, <5>6
      <4> QED BY <4>1, <4>2
    <3> QED BY <1>5, <3>1, <3>2 DEF H!Flush
  <2>4. \A d \in Browsers : InCall(d)' => InCall(d) /\ cb' = cb
    BY <2>1 DEF InCall
  <2>5. \A d \in Browsers : LinkOf(d)'
    BY <1>0, <2>1, <2>3, <2>4, LinkStays
  <2> QED BY <2>2, <2>5 DEF LinkInv
<1>6. CASE H!conn_eventcb(c)
  <2>1. /\ output' = [output EXCEPT ![c] = <<>>]
        /\ UNCHANGED <<arrived, got, cb, url, goal, astray, present>>
    BY <1>6 DEF H!conn_eventcb, H!AtClients, H!clientVars, H!fileVars
  <2>2. ASSUME NEW d \in Browsers PROVE LinkOf(d)'
    <3>1. InCall(d)' => InCall(d) /\ cb' = cb
      BY <2>1 DEF InCall
    <3>2. output'[d] \in {output[d], <<>>}
      BY <1>0, <2>1 DEF HttpTyped
    <3>3. \A p : Holds(d, p)' => Holds(d, p)
      BY <2>1, <3>2, PairHolds DEF Holds
    <3> QED BY <1>0, <2>1, <3>1, <3>3, LinkStays
  <2> QED BY <1>0, <2>1, <2>2 DEF LinkInv, LinkTyped
<1>7. CASE c \in Browsers /\ H!FollowDots(c)
  <2>1. PICK u \in UrlType : H!Ask(c, u, H!Find(u), FALSE)
    BY <1>0, <1>7, DotsAsk
  <2>2. H!Find(u) = H!Nothing \/ Finds(present, u, H!Find(u))
    BY <1>0, FindIs DEF LinkTyped
  <2> QED BY <1>7, <2>1, <2>2, LinkAsk DEF H!FollowDots
<1> QED BY <1>1, <1>2, <1>3, <1>4, <1>5, <1>6, <1>7 DEF H!OneClient

\* A callback puts the body of its page.
LEMMA LinkBody ==
  ASSUME HttpInv, LinkInv, NEW b, cb # H!Idle, cb' = H!Idle,
         output' = [output EXCEPT ![cb.who] = Append(@, b)],
         UNCHANGED <<arrived, got, url, goal, astray, present>>,
         b.node = cb.node,
         \A l \in b.links : H!IsDir(cb.node) /\ LinkTo(cb.node, l)
  PROVE  LinkInv'
<1>0. /\ LinkTyped /\ HttpTyped /\ \A d \in Browsers : LinkOf(d)
      /\ \A d \in Browsers : BrowserInv(d)
  BY DEF LinkInv, HttpInv
<1>1. ASSUME NEW d \in Browsers PROVE LinkOf(d)'
  <2>1. ~ InCall(d)'
    BY DEF InCall
  <2>2. CASE cb.who # d
    <3>1. \A p : Holds(d, p)' => Holds(d, p)
      BY <1>0, <2>2, HttpGiven DEF Holds, HttpTyped
    <3> QED BY <1>0, <2>1, <3>1, LinkStays
  <2>3. CASE cb.who = d
    <3>1. InCall(d) /\ got[d] = <<>> /\ HeaderOut(d)
      BY <1>0, <2>3 DEF InCall, BrowserInv
    <3>2. PICK h : output[d] = <<h>>
      BY <3>1 DEF HeaderOut
    <3>3. output'[d] = <<h, b>> /\ got'[d] = got[d]
      <4>1. output'[d] = Append(<<h>>, b)
        BY <1>0, <2>3, <3>2, HttpGiven DEF HttpTyped
      <4> QED BY <4>1, PairAppended
    <3>4. \A p : Holds(d, p)' => p = h \/ p = b
      <4>1. got'[d] = <<>>
        BY <3>1, <3>3
      <4>2. \A p : ~ \E k \in DOMAIN got'[d] : p = got'[d][k]
        BY <4>1, PairHolds
      <4>3. \A p : (\E k \in DOMAIN output'[d] : p = output'[d][k])
                     <=> p \in {h, b}
        <5>1. PICK o : o = output'[d]
          OBVIOUS
        <5>2. o = <<h, b>>
          BY <3>3, <5>1
        <5>3. DOMAIN o = {1, 2} /\ o[1] = h /\ o[2] = b
          BY <5>2
        <5>4. \A p : (\E k \in DOMAIN o : p = o[k]) <=> p \in {h, b}
          BY <5>3
        <5> QED BY <5>1, <5>4, Zenon
      <4> QED BY <4>2, <4>3 DEF Holds
    <3>5. Holds(d, h)
      BY <3>2, PairHolds DEF Holds
    <3>6. AtGoal(d, cb.node) /\ Page(d, cb.node)
      BY <1>0, <3>1 DEF LinkOf
    <3>7. Piece(d, b)
      BY <3>6 DEF Piece
    <3>8. Piece(d, b)'
      BY <3>7 DEF Piece, AtGoal, Page, Missing
    <3>9. \A p : Holds(d, p)' => Holds(d, p) \/ Piece(d, p)'
      BY <3>4, <3>5, <3>8
    <3> QED BY <1>0, <2>1, <3>9, LinkStays
  <2> QED BY <2>2, <2>3
<1> QED BY <1>0, <1>1 DEF LinkInv, LinkTyped

LEMMA LinkStep == ASSUME HttpInv, LinkInv, HttpRun PROVE LinkInv'
<1>0. /\ LinkTyped /\ HttpTyped /\ \A d \in Browsers : LinkOf(d)
  BY DEF LinkInv, HttpInv
\* Steps of which a browser notices at most that a file is gone.
<1>1. ASSUME UNCHANGED <<arrived, output, got, cb, url, goal, astray>>,
             \/ present' = present
             \/ \E f \in present : Kind[f] = "file" /\ present' = present \ {f}
      PROVE  LinkInv'
  <2>1. ASSUME NEW d \in Browsers PROVE LinkOf(d)'
    <3>1. (InCall(d)' => InCall(d)) /\ \A p : Holds(d, p)' => Holds(d, p)
      BY <1>1 DEF InCall, Holds
    <3> QED BY <1>0, <1>1, <3>1, LinkStays
  <2> QED BY <1>0, <1>1, <2>1 DEF LinkInv, LinkTyped
<1>2. CASE UNCHANGED httpVars
  BY <1>1, <1>2 DEF httpVars
<1>3. CASE H!Change
  BY <1>1, <1>3 DEF H!Change, H!clientVars
<1>4. CASE H!signal_cb \/ H!OpenFails
  BY <1>1, <1>4 DEF H!signal_cb, H!OpenFails, H!clientVars, H!fileVars
<1>5. CASE H!send_dir
  <2>1. PICK b : b = H!List(cb.node, cb.slash)
    OBVIOUS
  <2>2. /\ b.node = cb.node /\ b.links = H!Listing(cb.node, cb.slash)
    BY <2>1 DEF H!List
  <2>3. ASSUME NEW l \in b.links PROVE LinkTo(cb.node, l)
    <3>1. PICK m \in present :
            /\ Parent[m] = H!Real(cb.node)
            /\ l = [name |-> H!strencode(Name[m]),
                    slash |-> cb.slash /\ Kind[m] = "dir", names |-> m]
      BY <2>2 DEF H!Listing, H!Entries
    <3>2. m \in Nodes
      BY <1>0 DEF LinkTyped
    <3>3. /\ l.names = m /\ l.name = H!strencode(Name[m])
          /\ l.slash \in BOOLEAN /\ (l.slash => Kind[m] = "dir")
      BY <3>1
    <3> QED BY <3>1, <3>2, <3>3 DEF LinkTo
  <2> QED BY <1>5, <2>1, <2>2, <2>3, LinkBody
      DEF H!send_dir, H!Puts, H!AtClients, H!clientVars, H!fileVars
<1>6. CASE H!send_file_to_http
  <2>1. PICK b : b = H!Body(cb.node,
                            IF cb.node = H!Nothing THEN -1 ELSE size[cb.node])
    OBVIOUS
  <2>2. b.node = cb.node /\ b.links = {}
    BY <2>1 DEF H!Body
  <2> QED BY <1>6, <2>1, <2>2, LinkBody
      DEF H!send_file_to_http, H!Puts, H!AtClients, H!clientVars, H!fileVars
<1> QED BY <1>1, <1>2, <1>3, <1>4, <1>5, <1>6, LinkStepOf
    DEF HttpRun, H!Next, H!Sends

LEMMA LinksHold == ASSUME HttpInv, LinkInv PROVE H!LinksOpen
<1>1. ASSUME NEW c \in Browsers, got[c] # <<>> PROVE AtGoal(c, got[c][1].node)
  <2>1. OneAnswerOf(c)
    BY <1>1 DEF HttpInv, BrowserInv
  <2>2. PICK h, b : got[c] \in {<<h>>, <<h, b>>}
    BY <1>1, <2>1 DEF OneAnswerOf
  <2>3. Holds(c, got[c][1])
    BY <2>2, PairHolds DEF Holds
  <2> QED BY <2>3 DEF LinkInv, LinkOf, Piece
<1> QED BY <1>1 DEF H!LinksOpen, AtGoal, Missing

-----------------------------------------------------------------------------
(* Recursive listings *)

ListRun == R!Next \/ UNCHANGED listVars

\* A step of the composition is a step of Listing or leaves its variables alone.
LEMMA ListSteps == ASSUME [Next]_vars PROVE ListRun
BY DEF ListRun, Next, vars, InTableServers, InForkServers, InProducers,
  InLocks, InChildren, InStreams, InStreamWrap, InLibevent, InDatagrams,
  InListing, InBufferevents

\* A way down the tree: it begins below the first directory, and each node is in
\* the directory before it.
OnTree(q) ==
  /\ q \in Seq(Tree) /\ Len(q) > 0 /\ TreeParent[q[1]] = R!Root
  /\ \A i \in 1..Len(q) - 1 : TreeParent[q[i + 1]] = q[i]

\* A call has its directory itself to print, and what is below the entries that
\* it has not read.
Still(call1, q) ==
  /\ Begins(call1.path, q)
  /\ Len(q) = Len(call1.path) \/ q[Len(call1.path) + 1] \in call1.left

CallType == [path : Seq(Tree), left : SUBSET Tree]
ListTyped == /\ calls \in Seq(CallType) /\ printed \in Seq(Seq(Tree))
             /\ cut \subseteq Seq(Tree) /\ leaked \in Nat
             /\ Len(calls) + leaked <= DirLimit

\* Each call was made by the one before it, for an entry it has read.
Nested ==
  \A k \in 1..Len(calls) :
    /\ Len(calls[k].path) = k - 1
    /\ \A j \in 1..k - 1 : /\ Begins(calls[j].path, calls[k].path)
                           /\ calls[k].path[j] \notin calls[j].left

PrintedOnce ==
  /\ \A x, y \in 1..Len(printed) : printed[x] = printed[y] => x = y
  /\ \A x \in 1..Len(printed), k \in 1..Len(calls) :
       ~ Still(calls[k], printed[x])

\* Nothing of the tree is forgotten.
Covered(q) == \/ \E x \in 1..Len(printed) : printed[x] = q
              \/ \E d \in cut : Begins(d, q) /\ d # q
              \/ \E k \in 1..Len(calls) : Still(calls[k], q)

ListingInv == /\ ListTyped /\ Nested /\ PrintedOnce
           /\ \A q : OnTree(q) => Covered(q)

LEMMA ListGiven ==
  /\ R!Root \notin Tree /\ TreeKind \in [Tree -> {"file", "dir", "link"}]
  /\ PATH_LEN \in Nat \ {0} /\ MaxLinks \in Nat \ {0} /\ DirLimit \in Nat \ {0}
  /\ \A n \in Tree : \/ TreeParent[n] = R!Root
                     \/ TreeParent[n] \in Tree /\ TreeKind[TreeParent[n]] = "dir"
  /\ \A A \in SUBSET Tree : A # {} => \E n \in A : TreeParent[n] \notin A
<1>1. R!ListingAssumption
  BY ProgramsAssumption
<1> QED BY <1>1 DEF R!ListingAssumption

\* The first call has everything ahead.
LEMMA ListInit == ASSUME Init PROVE ListingInv
<1> DEFINE first == R!Fetch(<<>>)
<1>1. calls = <<first>> /\ leaked = 0 /\ printed = <<>> /\ cut = {}
  BY DEF Init, R!Init
<1>2. first \in CallType /\ first.path = <<>> /\ first.left = R!Entries(R!Root)
  <2>1. R!Real(<<>>) = R!Root /\ <<>> \in Seq(Tree)
    BY DEF R!Real
  <2> QED BY <2>1 DEF R!Fetch, R!Entries, CallType
<1> HIDE DEF first
<1>3. Len(calls) = 1 /\ calls[1] = first /\ Len(printed) = 0
  BY <1>1
<1>4. ListTyped
  BY <1>1, <1>2, <1>3, ListGiven DEF ListTyped
<1>5. Nested
  BY <1>2, <1>3 DEF Nested
<1>6. PrintedOnce
  BY <1>3 DEF PrintedOnce
<1>7. ASSUME NEW q, OnTree(q) PROVE Covered(q)
  <2>1. q[1] \in first.left /\ Len(q) \in Nat
    BY <1>2, <1>7 DEF OnTree, R!Entries
  <2>2. Still(first, q)
    BY <1>2, <2>1 DEF Still, Begins
  <2> QED BY <1>3, <2>2 DEF Covered
<1> QED BY <1>4, <1>5, <1>6, <1>7 DEF ListingInv

\* The stack of calls without the last, and with an entry less for it to read.
LEMMA CallFacts ==
  ASSUME ListTyped, calls # <<>>
  PROVE  /\ Len(calls) \in Nat \ {0} /\ R!Call = calls[Len(calls)]
         /\ R!Call \in CallType
         /\ R!Callers \in Seq(CallType) /\ Len(R!Callers) = Len(calls) - 1
         /\ \A k \in 1..Len(calls) - 1 : R!Callers[k] = calls[k]
         /\ \A n : /\ R!Past(n) \in Seq(CallType)
                   /\ Len(R!Past(n)) = Len(calls)
                   /\ \A k \in 1..Len(calls) - 1 : R!Past(n)[k] = calls[k]
                   /\ R!Past(n)[Len(calls)].path = R!Call.path
                   /\ R!Past(n)[Len(calls)].left = R!Call.left \ {n}
<1>1. Len(calls) \in Nat \ {0} /\ calls \in Seq(CallType)
  BY DEF ListTyped
<1>2. R!Call = calls[Len(calls)] /\ R!Call \in CallType
  BY <1>1 DEF R!Call, R!Last
<1>3. /\ R!Callers \in Seq(CallType) /\ Len(R!Callers) = Len(calls) - 1
      /\ \A k \in 1..Len(calls) - 1 : R!Callers[k] = calls[k]
  <2>1. R!Callers = SubSeq(calls, 1, Len(calls) - 1)
    BY DEF R!Callers, R!Front
  <2>2. /\ \A k \in 1..Len(calls) - 1 : calls[k] \in CallType
        /\ Len(calls) - 1 \in Int /\ 1 \in Int
    BY <1>1
  <2>3. /\ SubSeq(calls, 1, Len(calls) - 1) \in Seq(CallType)
        /\ Len(SubSeq(calls, 1, Len(calls) - 1)) =
             IF 1 <= Len(calls) - 1 THEN Len(calls) - 1 - 1 + 1 ELSE 0
        /\ \A k \in 1..Len(calls) - 1 - 1 + 1 :
             SubSeq(calls, 1, Len(calls) - 1)[k] = calls[1 + k - 1]
    BY <2>2, SubSeqProperties
  <2>4. Len(calls) - 1 - 1 + 1 = Len(calls) - 1
    BY <1>1
  <2>5. \A k \in 1..Len(calls) - 1 : 1 + k - 1 = k
    BY <1>1
  <2> QED BY <1>1, <2>1, <2>3, <2>4, <2>5
<1>4. ASSUME NEW n
      PROVE  /\ R!Past(n) \in Seq(CallType) /\ Len(R!Past(n)) = Len(calls)
             /\ \A k \in 1..Len(calls) - 1 : R!Past(n)[k] = calls[k]
             /\ R!Past(n)[Len(calls)].path = R!Call.path
             /\ R!Past(n)[Len(calls)].left = R!Call.left \ {n}
  <2>1. PICK c : c = [R!Call EXCEPT !.left = @ \ {n}]
    OBVIOUS
  <2>2. c \in CallType /\ c.path = R!Call.path /\ c.left = R!Call.left \ {n}
    BY <1>2, <2>1 DEF CallType
  <2>3. R!Past(n) = Append(R!Callers, c)
    BY <2>1 DEF R!Past
  <2>4. /\ R!Past(n) \in Seq(CallType)
        /\ Len(R!Past(n)) = Len(R!Callers) + 1
        /\ \A k \in 1..Len(R!Callers) : R!Past(n)[k] = R!Callers[k]
        /\ R!Past(n)[Len(R!Callers) + 1] = c
    BY <1>3, <2>2, <2>3, AppendProperties
  <2>5. Len(R!Callers) + 1 = Len(calls)
    BY <1>1, <1>3
  <2> QED BY <1>3, <2>2, <2>4, <2>5
<1> QED BY <1>1, <1>2, <1>3, <1>4

\* Printing one path more.
LEMMA PrintsOne ==
  ASSUME printed \in Seq(Seq(Tree)), NEW p \in Seq(Tree),
         printed' = Append(printed, p)
  PROVE  /\ printed' \in Seq(Seq(Tree)) /\ Len(printed') = Len(printed) + 1
         /\ \A x \in 1..Len(printed) : printed'[x] = printed[x]
         /\ printed'[Len(printed) + 1] = p
         /\ \A x \in 1..Len(printed') : x \in 1..Len(printed) \/ x = Len(printed) + 1
<1>1. Len(printed) \in Nat
  OBVIOUS
<1>2. /\ printed' \in Seq(Seq(Tree)) /\ Len(printed') = Len(printed) + 1
      /\ \A x \in 1..Len(printed) : printed'[x] = printed[x]
      /\ printed'[Len(printed) + 1] = p
  BY AppendProperties
<1> QED BY <1>1, <1>2

\* What is printed once: the calls that are left have it not ahead of them.
LEMMA StillOnce ==
  ASSUME printed \in Seq(Seq(Tree)), NEW p \in Seq(Tree),
         printed' = Append(printed, p) \/ printed' = printed,
         \A x, y \in 1..Len(printed) : printed[x] = printed[y] => x = y,
         printed' # printed => \A x \in 1..Len(printed) : printed[x] # p,
         \A k \in 1..Len(calls') :
           /\ \A x \in 1..Len(printed) : ~ Still(calls'[k], printed[x])
           /\ printed' # printed => ~ Still(calls'[k], p)
  PROVE  PrintedOnce'
<1>1. CASE printed' = printed
  BY <1>1 DEF PrintedOnce, Still, Begins
<1>2. CASE printed' # printed
  <2>1. /\ Len(printed) \in Nat /\ Len(printed') = Len(printed) + 1
        /\ \A x \in 1..Len(printed) : printed'[x] = printed[x]
        /\ printed'[Len(printed) + 1] = p
        /\ \A x \in 1..Len(printed') : x \in 1..Len(printed) \/ x = Len(printed) + 1
    BY <1>2, PrintsOne
  <2>2. \A x, y \in 1..Len(printed') : printed'[x] = printed'[y] => x = y
    BY <1>2, <2>1
  <2>3. ASSUME NEW x \in 1..Len(printed'), NEW k \in 1..Len(calls')
        PROVE  ~ Still(calls'[k], printed'[x])
    BY <1>2, <2>1
  <2> QED BY <2>2, <2>3 DEF PrintedOnce, Still, Begins
<1> QED BY <1>1, <1>2

\* A call returns: its directory is printed, and it was read to the end or cut.
LEMMA ListPop ==
  ASSUME ListingInv, calls # <<>>, calls' = R!Callers,
         printed' = Append(printed, R!Call.path), leaked' \in {leaked, leaked + 1},
         (cut' = cut /\ R!Call.left = {}) \/ cut' = cut \union {R!Call.path}
  PROVE  ListingInv'
<1>0. ListTyped /\ Nested /\ PrintedOnce /\ \A q : OnTree(q) => Covered(q)
  BY DEF ListingInv
<1>1. PICK len, K : len = Len(calls) /\ K = R!Call.path
  OBVIOUS
<1>2. /\ len \in Nat \ {0} /\ R!Call = calls[len] /\ K \in Seq(Tree)
      /\ calls' \in Seq(CallType) /\ Len(calls') = len - 1
      /\ \A k \in 1..len - 1 : calls'[k] = calls[k]
  BY <1>0, <1>1, CallFacts DEF CallType
<1>3. /\ printed \in Seq(Seq(Tree)) /\ printed' \in Seq(Seq(Tree))
      /\ Len(printed') = Len(printed) + 1 /\ printed' # printed
      /\ \A x \in 1..Len(printed) : printed'[x] = printed[x]
      /\ printed'[Len(printed) + 1] = K
  <2>1. printed \in Seq(Seq(Tree)) /\ Len(printed) \in Nat
    BY <1>0 DEF ListTyped
  <2>2. Len(printed) + 1 # Len(printed)
    BY <2>1
  <2>3. /\ printed' \in Seq(Seq(Tree)) /\ Len(printed') = Len(printed) + 1
        /\ \A x \in 1..Len(printed) : printed'[x] = printed[x]
        /\ printed'[Len(printed) + 1] = K
    BY <1>1, <1>2, <2>1, PrintsOne
  <2> QED BY <2>1, <2>2, <2>3
<1>4. ListTyped'
  <2>1. cut' \subseteq Seq(Tree)
    BY <1>0, <1>1, <1>2 DEF ListTyped
  <2>2. leaked' \in Nat /\ Len(calls') + leaked' <= DirLimit
    BY <1>0, <1>1, <1>2, ListGiven DEF ListTyped
  <2> QED BY <1>2, <1>3, <2>1, <2>2 DEF ListTyped
<1>5. Nested'
  <2>1. ASSUME NEW k \in 1..Len(calls')
        PROVE  /\ Len(calls'[k].path) = k - 1
               /\ \A j \in 1..k - 1 :
                    /\ Begins(calls'[j].path, calls'[k].path)
                    /\ calls'[k].path[j] \notin calls'[j].left
    <3>1. k \in 1..len /\ k \in 1..len - 1 /\ \A j \in 1..k - 1 : j \in 1..len - 1
      BY <1>2
    <3>2. /\ Len(calls[k].path) = k - 1
          /\ \A j \in 1..k - 1 : /\ Begins(calls[j].path, calls[k].path)
                                 /\ calls[k].path[j] \notin calls[j].left
      BY <1>0, <1>1, <3>1, Zenon DEF Nested
    <3> QED BY <1>2, <3>1, <3>2
  <2> QED BY <2>1 DEF Nested, Begins
<1>6. Len(K) = len - 1 /\ \A k \in 1..len - 1 : K[k] \notin calls[k].left
  <2>1. len \in 1..Len(calls) /\ K = calls[len].path
    BY <1>1, <1>2
  <2>2. /\ Len(calls[len].path) = len - 1
        /\ \A k \in 1..len - 1 : calls[len].path[k] \notin calls[k].left
    BY <1>0, <2>1, Zenon DEF Nested
  <2> QED BY <2>1, <2>2
<1>7. PrintedOnce'
  <2>1. Still(R!Call, K)
    BY <1>1, <1>2, <1>6 DEF Still, Begins
  <2>2. \A x \in 1..Len(printed) : printed[x] # K
    BY <1>0, <1>1, <1>2, <2>1 DEF PrintedOnce
  <2>3. ASSUME NEW k \in 1..len - 1 PROVE ~ Still(calls[k], K)
    <3>1. Len(calls[k].path) = k - 1 /\ k - 1 + 1 = k /\ len - 1 # k - 1
      BY <1>0, <1>1, <1>2 DEF Nested
    <3> QED BY <1>6, <3>1 DEF Still
  <2>4. \A k \in 1..Len(calls') :
          /\ \A x \in 1..Len(printed) : ~ Still(calls'[k], printed[x])
          /\ ~ Still(calls'[k], K)
    BY <1>0, <1>1, <1>2, <2>3 DEF PrintedOnce
  <2> QED BY <1>0, <1>1, <1>2, <1>3, <2>2, <2>4, StillOnce DEF PrintedOnce
<1>8. ASSUME NEW q, OnTree(q) PROVE Covered(q)'
  <2>1. Covered(q)
    BY <1>0, <1>8
  <2>2. CASE \E x \in 1..Len(printed) : printed[x] = q
    BY <1>3, <2>2 DEF Covered
  <2>3. CASE \E d \in cut : Begins(d, q) /\ d # q
    BY <2>3 DEF Covered, Begins
  <2>4. CASE \E k \in 1..len - 1 : Still(calls[k], q)
    <3>1. \A k \in 1..len - 1 : k \in 1..Len(calls') /\ calls'[k] = calls[k]
      BY <1>2
    <3>2. \E k \in 1..Len(calls') : Still(calls'[k], q)
      BY <2>4, <3>1
    <3> QED BY <3>2 DEF Covered, Still, Begins
  <2>5. CASE Still(R!Call, q)
    <3>1. q \in Seq(Tree) /\ Begins(K, q)
      BY <1>1, <1>8, <2>5 DEF OnTree, Still
    <3>2. CASE Len(q) = Len(K)
      <4>1. q = K
        BY <1>2, <3>1, <3>2, SeqEqual DEF Begins
      <4>2. Len(printed) + 1 \in 1..Len(printed')
        BY <1>3
      <4> QED BY <1>3, <4>1, <4>2 DEF Covered
    <3>3. CASE Len(q) # Len(K)
      <4>1. K \in cut' /\ K # q
        BY <1>1, <2>5, <3>3 DEF Still
      <4> QED BY <3>1, <4>1 DEF Covered, Begins
    <3> QED BY <3>2, <3>3
  <2> QED BY <1>1, <1>2, <2>1, <2>2, <2>3, <2>4, <2>5 DEF Covered
<1> QED BY <1>4, <1>5, <1>7, <1>8 DEF ListingInv, OnTree

\* The path of the entry n that the last call, number len, reads now.
Extends(len, K, n, path) ==
  /\ path \in Seq(Tree) /\ Len(path) = len /\ path[len] = n
  /\ \A k \in 1..len : Begins(calls[k].path, path)
  /\ \A k \in 1..len - 1 : path[k] \notin calls[k].left
  /\ \A q : Begins(K, q) /\ Len(q) # Len(K) /\ q[len] = n => Begins(path, q)
  /\ \A q : Begins(path, q) => Begins(K, q) /\ q[len] = n

LEMMA PathFacts ==
  ASSUME ListTyped, Nested, calls # <<>>, NEW len, NEW K, NEW n \in Tree,
         NEW path, len = Len(calls), K = R!Call.path, path = Append(K, n)
  PROVE  Extends(len, K, n, path)
<1>1. /\ len \in Nat \ {0} /\ K \in Seq(Tree) /\ Len(K) = len - 1
      /\ K = calls[len].path
  BY CallFacts DEF CallType, Nested
<1>2. /\ path \in Seq(Tree) /\ Len(path) = len /\ path[len] = n
      /\ \A J \in 1..len - 1 : path[J] = K[J]
  <2>1. /\ path \in Seq(Tree) /\ Len(path) = Len(K) + 1
        /\ \A J \in 1..Len(K) : path[J] = K[J]
        /\ path[Len(K) + 1] = n
    BY <1>1, AppendProperties
  <2>2. len - 1 + 1 = len
    BY <1>1
  <2> QED BY <1>1, <2>1, <2>2
<1>3. Begins(K, path)
  BY <1>1, <1>2 DEF Begins
<1>4. ASSUME NEW k \in 1..len PROVE Begins(calls[k].path, path)
  <2>1. CASE k = len
    BY <1>1, <1>3, <2>1
  <2>2. CASE k # len
    <3>1. k \in 1..len - 1 /\ len \in 1..len
      BY <1>1, <2>2
    <3>2. Begins(calls[k].path, K)
      BY <1>1, <3>1 DEF Nested
    <3> QED BY <1>1, <1>2, <3>2 DEF Begins
  <2> QED BY <2>1, <2>2
<1>5. ASSUME NEW k \in 1..len - 1 PROVE path[k] \notin calls[k].left
  <2>1. len \in 1..len
    BY <1>1
  <2> QED BY <1>1, <1>2, <2>1 DEF Nested
<1>6. ASSUME NEW q, Begins(K, q), Len(q) # Len(K), q[len] = n
      PROVE  Begins(path, q)
  <2>1. len \in 0..Len(q)
    BY <1>1, <1>6 DEF Begins
  <2>2. \A J \in 1..len : q[J] = path[J]
    BY <1>1, <1>2, <1>6 DEF Begins
  <2> QED BY <1>2, <2>1, <2>2 DEF Begins
<1>7. ASSUME NEW q, Begins(path, q) PROVE Begins(K, q) /\ q[len] = n
  BY <1>1, <1>2, <1>7 DEF Begins
<1> QED BY <1>2, <1>4, <1>5, <1>6, <1>7 DEF Extends

\* What the tree says of a path that a way down it begins with.
LEMMA BelowPath ==
  ASSUME NEW len \in Nat \ {0}, NEW path \in Seq(Tree), Len(path) = len,
         NEW q, OnTree(q), Begins(path, q)
  PROVE  /\ R!Stat(path)
         /\ q # path => /\ R!IsDir(path) /\ Len(q) > len
                        /\ q[len + 1] \in R!Entries(R!Real(path))
<1>1. /\ \A k \in 1..len : path[k] = q[k] /\ path[k] \in Tree
      /\ Len(q) \in Nat /\ Len(q) >= len
  BY DEF OnTree, Begins
<1>2. \A k \in 1..Len(q) - 1 : q[k + 1] \in Tree /\ TreeParent[q[k + 1]] = q[k]
                               /\ q[k] \in Tree /\ TreeKind[q[k]] = "dir"
  <2>1. ASSUME NEW k \in 1..Len(q) - 1
        PROVE  /\ q[k + 1] \in Tree /\ TreeParent[q[k + 1]] = q[k]
               /\ q[k] \in Tree /\ TreeKind[q[k]] = "dir"
    <3>1. /\ k \in 1..Len(q) /\ k + 1 \in 1..Len(q)
      BY <1>1
    <3>2. q[k + 1] \in Tree /\ q[k] \in Tree /\ TreeParent[q[k + 1]] = q[k]
      BY <3>1 DEF OnTree
    <3> QED BY <3>2, ListGiven
  <2> QED BY <2>1
<1>3. \A k \in 1..len - 1 : TreeKind[path[k]] = "dir"
  <2>1. \A k \in 1..len - 1 : k \in 1..len /\ k \in 1..Len(q) - 1
    BY <1>1
  <2> QED BY <1>1, <1>2, <2>1
<1>4. R!Links(path) \subseteq {len}
  BY <1>3 DEF R!Links
<1>5. R!Stat(path)
  <2>1. /\ IsFiniteSet(R!Links(path))
        /\ Cardinality(R!Links(path)) <= Cardinality({len})
    BY <1>4, FS_Singleton, FS_Subset
  <2>2. Cardinality({len}) = 1 /\ Cardinality(R!Links(path)) \in Nat
    BY <2>1, FS_Singleton, FS_CardinalityType
  <2>3. MaxLinks \in Nat /\ MaxLinks >= 1
    BY ListGiven
  <2>4. R!Cardinality(R!Links(path)) = Cardinality(R!Links(path))
    BY DEF R!Cardinality, Cardinality
  <2> QED BY <2>1, <2>2, <2>3, <2>4 DEF R!Stat
<1>6. ASSUME q # path
      PROVE  /\ R!IsDir(path) /\ Len(q) > len
             /\ q[len + 1] \in R!Entries(R!Real(path))
  <2>1. Len(q) > len
    BY <1>1, <1>6, SeqEqual DEF OnTree
  <2>2. len \in 1..Len(q) - 1 /\ len \in 1..len
    BY <1>1, <2>1
  <2>3. /\ q[len + 1] \in Tree /\ TreeParent[q[len + 1]] = path[len]
        /\ TreeKind[path[len]] = "dir"
    BY <1>1, <1>2, <2>2
  <2>4. R!Real(path) = path[len]
    <3>1. path # <<>>
      BY <2>2
    <3> QED BY <2>3, <3>1 DEF R!Real, R!Last
  <2> QED BY <2>1, <2>3, <2>4 DEF R!IsDir, R!Entries
<1> QED BY <1>5, <1>6

\* The last call has read an entry: it is printed, or it has a call of its own,
\* or it is cut, unless nothing in the tree is so deep.
LEMMA ListRead ==
  ASSUME ListingInv, calls # <<>>, NEW n \in R!Call.left, NEW path,
         path = Append(R!Call.path, n),
         \/ /\ calls' = Append(R!Past(n), R!Fetch(path)) /\ R!IsDir(path)
            /\ R!Opens /\ printed' = printed /\ cut' = cut
         \/ /\ calls' = R!Past(n)
            /\ \/ ~ R!Stat(path) /\ printed' = printed /\ cut' = cut
               \/ /\ printed' = Append(printed, path)
                  /\ cut' = IF R!IsDir(path) THEN cut \union {path} ELSE cut,
         leaked' = leaked
  PROVE  ListingInv'
<1>0. ListTyped /\ Nested /\ PrintedOnce /\ \A q : OnTree(q) => Covered(q)
  BY DEF ListingInv
<1>1. PICK len, K : len = Len(calls) /\ K = R!Call.path
  OBVIOUS
<1> DEFINE pushed == calls' # R!Past(n)
<1>2. /\ len \in Nat \ {0} /\ R!Call = calls[len] /\ K \in Seq(Tree) /\ Len(K) = len - 1
      /\ n \in Tree /\ R!Call.left \subseteq Tree
  <2>1. len \in Nat \ {0} /\ R!Call = calls[len] /\ R!Call \in CallType
    BY <1>0, <1>1, CallFacts
  <2>2. Len(K) = len - 1
    BY <1>0, <1>1, <2>1 DEF Nested
  <2> QED BY <1>1, <2>1, <2>2 DEF CallType
<1>3. /\ path \in Seq(Tree) /\ Len(path) = len /\ path[len] = n
      /\ \A k \in 1..len : Begins(calls[k].path, path)
      /\ \A k \in 1..len - 1 : path[k] \notin calls[k].left
      /\ \A q : Begins(K, q) /\ Len(q) # Len(K) /\ q[len] = n => Begins(path, q)
      /\ \A q : Begins(path, q) => Begins(K, q) /\ q[len] = n
  <2>1. path = Append(K, n)
    BY <1>1
  <2>2. Extends(len, K, n, path)
    BY <1>0, <1>1, <1>2, <2>1, PathFacts, Zenon
  <2> QED BY <2>2 DEF Extends
<1>4. /\ R!Past(n) \in Seq(CallType) /\ Len(R!Past(n)) = len
      /\ \A k \in 1..len - 1 : R!Past(n)[k] = calls[k]
      /\ R!Past(n)[len].path = K /\ R!Past(n)[len].left = R!Call.left \ {n}
  BY <1>0, <1>1, CallFacts
<1>5. /\ R!Fetch(path) \in CallType /\ R!Fetch(path).path = path
      /\ R!Fetch(path).left = R!Entries(R!Real(path))
  BY <1>3 DEF R!Fetch, CallType, R!Entries
<1>6. /\ calls' \in Seq(CallType) /\ Len(calls') = IF pushed THEN len + 1 ELSE len
      /\ \A k \in 1..len - 1 : calls'[k] = calls[k]
      /\ calls'[len].path = K /\ calls'[len].left = R!Call.left \ {n}
      /\ pushed => /\ calls'[len + 1] = R!Fetch(path) /\ R!IsDir(path) /\ R!Opens
                   /\ printed' = printed /\ cut' = cut
      /\ ~ pushed =>
           \/ ~ R!Stat(path) /\ printed' = printed /\ cut' = cut
           \/ /\ printed' = Append(printed, path)
              /\ cut' = IF R!IsDir(path) THEN cut \union {path} ELSE cut
  <2>1. CASE calls' = R!Past(n)
    <3>1. ~ pushed
      BY <2>1
    <3>2. calls' # Append(R!Past(n), R!Fetch(path))
      <4>1. Len(Append(R!Past(n), R!Fetch(path))) = len + 1
        BY <1>4, <1>5, AppendProperties
      <4> QED BY <1>2, <1>4, <2>1, <4>1
    <3> QED BY <1>4, <2>1, <3>1, <3>2
  <2>2. CASE calls' # R!Past(n)
    <3>1. calls' = Append(R!Past(n), R!Fetch(path))
      BY <2>2
    <3>2. /\ calls' \in Seq(CallType) /\ Len(calls') = len + 1
          /\ \A k \in 1..len : calls'[k] = R!Past(n)[k]
          /\ calls'[len + 1] = R!Fetch(path)
      BY <1>4, <1>5, <3>1, AppendProperties
    <3>3. len \in 1..len /\ \A k \in 1..len - 1 : k \in 1..len
      BY <1>2
    <3>4. /\ \A k \in 1..len - 1 : calls'[k] = calls[k]
          /\ calls'[len].path = K /\ calls'[len].left = R!Call.left \ {n}
      BY <1>4, <3>2, <3>3
    <3> QED BY <2>2, <3>2, <3>4
  <2> QED BY <2>1, <2>2
<1> HIDE DEF pushed
<1>7. ListTyped'
  <2>1. printed' \in Seq(Seq(Tree))
    <3>1. printed \in Seq(Seq(Tree))
      BY <1>0 DEF ListTyped
    <3> QED BY <1>3, <1>6, <3>1, PrintsOne
  <2>2. cut' \subseteq Seq(Tree)
    <3>1. cut' = cut \/ cut' = cut \union {path}
      BY <1>6
    <3> QED BY <1>0, <1>3, <3>1 DEF ListTyped
  <2>3. leaked' \in Nat /\ Len(calls') + leaked' <= DirLimit
    BY <1>0, <1>1, <1>2, <1>6, ListGiven DEF ListTyped, R!Opens
  <2> QED BY <1>6, <2>1, <2>2, <2>3 DEF ListTyped
<1>8. Nested'
  <2>1. ASSUME NEW k \in 1..len
        PROVE  /\ calls'[k].path = calls[k].path /\ Len(calls[k].path) = k - 1
               /\ calls'[k].left \subseteq calls[k].left
               /\ \A j \in 1..k - 1 :
                    /\ Begins(calls[j].path, calls[k].path)
                    /\ calls[k].path[j] \notin calls[j].left
    <3>1. k = len \/ k \in 1..len - 1
      BY <1>2
    <3>2. /\ calls'[k].path = calls[k].path
          /\ calls'[k].left \subseteq calls[k].left
      BY <1>1, <1>2, <1>6, <3>1
    <3>3. /\ Len(calls[k].path) = k - 1
          /\ \A j \in 1..k - 1 : /\ Begins(calls[j].path, calls[k].path)
                                 /\ calls[k].path[j] \notin calls[j].left
      BY <1>0, <1>1, Zenon DEF Nested
    <3> QED BY <3>2, <3>3
  <2>2. ASSUME NEW k \in 1..Len(calls')
        PROVE  /\ Len(calls'[k].path) = k - 1
               /\ \A j \in 1..k - 1 :
                    /\ Begins(calls'[j].path, calls'[k].path)
                    /\ calls'[k].path[j] \notin calls'[j].left
    <3>1. CASE k \in 1..len
      <4>1. \A j \in 1..k - 1 : j \in 1..len
        BY <1>2, <3>1
      <4> QED BY <2>1, <3>1, <4>1
    <3>2. CASE k \notin 1..len
      <4>1. pushed /\ k = len + 1 /\ k - 1 = len /\ calls'[k].path = path
        BY <1>2, <1>5, <1>6, <3>2
      <4>2. ASSUME NEW j \in 1..len
            PROVE  /\ Begins(calls'[j].path, path) /\ path[j] \notin calls'[j].left
        <5>1. j = len \/ j \in 1..len - 1
          BY <1>2
        <5>2. /\ calls'[j].path = calls[j].path
              /\ calls'[j].left \subseteq calls[j].left
          BY <2>1
        <5>3. CASE j = len
          <6>1. path[j] \notin calls'[j].left
            BY <1>3, <1>6, <5>3
          <6> QED BY <1>3, <5>2, <6>1
        <5>4. CASE j \in 1..len - 1
          <6>1. path[j] \notin calls[j].left
            BY <1>3, <5>4
          <6> QED BY <1>3, <5>2, <6>1
        <5> QED BY <5>1, <5>3, <5>4
      <4> QED BY <1>3, <4>1, <4>2
    <3> QED BY <3>1, <3>2
  <2> QED BY <2>2 DEF Nested, Begins
\* What was printed is ahead of no call, and so is the entry now.
<1>9. PrintedOnce'
  <2>1. ASSUME NEW x \in 1..Len(printed) PROVE ~ Begins(path, printed[x])
    <3>1. ~ Still(R!Call, printed[x]) /\ len - 1 + 1 = len
      BY <1>0, <1>1, <1>2 DEF PrintedOnce
    <3> QED BY <1>1, <1>2, <1>3, <3>1 DEF Still
  <2>2. Begins(path, path)
    BY <1>2, <1>3 DEF Begins
  <2>3. \A x \in 1..Len(printed) : printed[x] # path
    BY <2>1, <2>2
  <2>4. ASSUME NEW k \in 1..len
        PROVE  /\ \A x \in 1..Len(printed) : ~ Still(calls'[k], printed[x])
               /\ ~ Still(calls'[k], path)
    <3>1. CASE k = len
      <4>1. \A q : Still(calls'[len], q) => Still(R!Call, q)
        BY <1>1, <1>6 DEF Still
      <4>2. \A x \in 1..Len(printed) : ~ Still(R!Call, printed[x])
        BY <1>0, <1>1, <1>2 DEF PrintedOnce
      <4>3. ~ Still(calls'[len], path)
        <5>1. Len(path) # Len(K) /\ Len(K) + 1 = len
          BY <1>2, <1>3
        <5> QED BY <1>3, <1>6, <5>1 DEF Still
      <4> QED BY <3>1, <4>1, <4>2, <4>3
    <3>2. CASE k # len
      <4>1. k \in 1..len - 1 /\ calls'[k] = calls[k]
        <5>1. k \in 1..len - 1
          BY <1>2, <3>2
        <5> QED BY <1>6, <5>1
      <4>2. \A x \in 1..Len(printed) : ~ Still(calls[k], printed[x])
        BY <1>0, <1>1 DEF PrintedOnce
      <4>3. Len(calls[k].path) = k - 1 /\ k - 1 + 1 = k /\ len # k - 1
        BY <1>0, <1>1, <1>2, <4>1 DEF Nested
      <4> QED BY <1>3, <4>1, <4>2, <4>3 DEF Still
    <3> QED BY <3>1, <3>2
  <2>5. \A k \in 1..Len(calls') :
          /\ \A x \in 1..Len(printed) : ~ Still(calls'[k], printed[x])
          /\ printed' # printed => ~ Still(calls'[k], path)
    <3>1. \A x \in 1..Len(printed) : pushed => ~ Still(calls'[len + 1], printed[x])
      BY <1>5, <1>6, <2>1 DEF Still
    <3>2. \A k \in 1..Len(calls') : k \in 1..len \/ (pushed /\ k = len + 1)
      BY <1>2, <1>6
    <3> QED BY <1>6, <2>4, <3>1, <3>2
  <2>6. printed \in Seq(Seq(Tree))
    BY <1>0 DEF ListTyped
  <2>7. \A x, y \in 1..Len(printed) : printed[x] = printed[y] => x = y
    BY <1>0 DEF PrintedOnce
  <2> QED BY <1>3, <1>6, <2>3, <2>5, <2>6, <2>7, StillOnce
<1>10. ASSUME NEW q, OnTree(q) PROVE Covered(q)'
  <2>1. Covered(q)
    BY <1>0, <1>10
  <2>p. /\ Len(printed) \in Nat /\ Len(printed') \in Nat
        /\ Len(printed') >= Len(printed)
        /\ \A x \in 1..Len(printed) : printed'[x] = printed[x]
        /\ printed' = Append(printed, path) =>
             Len(printed) + 1 \in 1..Len(printed') /\ printed'[Len(printed) + 1] = path
    <3>1. printed \in Seq(Seq(Tree)) /\ Len(printed) \in Nat
      BY <1>0 DEF ListTyped
    <3>2. CASE printed' = printed
      <4>1. printed' # Append(printed, path)
        <5>1. Len(Append(printed, path)) = Len(printed) + 1
          BY <1>3, <3>1, AppendProperties
        <5> QED BY <3>1, <3>2, <5>1
      <4> QED BY <3>1, <3>2, <4>1
    <3>3. CASE printed' = Append(printed, path)
      BY <1>3, <3>1, <3>3, PrintsOne
    <3> QED BY <1>6, <3>2, <3>3
  <2>2. CASE \E x \in 1..Len(printed) : printed[x] = q
    BY <2>2, <2>p DEF Covered
  <2>3. CASE \E d \in cut : Begins(d, q) /\ d # q
    BY <1>6, <2>3 DEF Covered, Begins
  <2>4. CASE \E k \in 1..Len(calls') : Still(calls'[k], q)
    BY <2>4 DEF Covered, Still, Begins
  <2>5. CASE \E k \in 1..len - 1 : Still(calls[k], q)
    <3>1. \A k \in 1..len - 1 : k \in 1..Len(calls') /\ calls'[k] = calls[k]
      BY <1>2, <1>6
    <3> QED BY <2>4, <2>5, <3>1
  <2>6. CASE Still(R!Call, q) /\ ~ Still(calls'[len], q)
    <3>1. Begins(path, q)
      <4>1. Len(K) + 1 = len
        BY <1>2
      <4>2. Begins(K, q) /\ (Len(q) = Len(K) \/ q[len] \in R!Call.left)
        BY <1>1, <2>6, <4>1 DEF Still
      <4>3. ~ (Len(q) = Len(K) \/ q[len] \in R!Call.left \ {n})
        BY <1>6, <2>6, <4>1, <4>2 DEF Still
      <4> QED BY <1>3, <4>2, <4>3
    <3>2. /\ R!Stat(path)
          /\ q # path => /\ R!IsDir(path) /\ Len(q) > len
                         /\ q[len + 1] \in R!Entries(R!Real(path))
      BY <1>2, <1>3, <1>10, <3>1, BelowPath
    <3>3. CASE pushed
      <4>1. Still(calls'[len + 1], q)
        BY <1>3, <1>5, <1>6, <3>1, <3>2, <3>3 DEF Still
      <4>2. len + 1 \in 1..Len(calls')
        BY <1>2, <1>6, <3>3
      <4> QED BY <2>4, <4>1, <4>2
    <3>4. CASE ~ pushed
      <4>1. /\ printed' = Append(printed, path)
            /\ R!IsDir(path) => path \in cut'
        BY <1>6, <3>2, <3>4
      <4>2. CASE q = path
        BY <2>p, <4>1, <4>2 DEF Covered
      <4>3. CASE q # path
        BY <3>1, <3>2, <4>1, <4>3 DEF Covered, Begins
      <4> QED BY <4>2, <4>3
    <3> QED BY <3>3, <3>4
  <2>7. CASE Still(calls'[len], q)
    BY <1>2, <1>6, <2>4, <2>7
  <2>8. \A k \in 1..len : k = len \/ k \in 1..len - 1
    BY <1>2
  <2> QED BY <1>1, <1>2, <2>1, <2>2, <2>3, <2>5, <2>6, <2>7, <2>8 DEF Covered
<1> QED BY <1>7, <1>8, <1>9, <1>10 DEF ListingInv, OnTree

LEMMA ListingStep == ASSUME ListingInv, ListRun PROVE ListingInv'
<1>0. ListTyped
  BY DEF ListingInv
<1>1. CASE UNCHANGED listVars
  <2>1. UNCHANGED <<calls, leaked, printed, cut>>
    BY <1>1 DEF listVars
  <2>2. ListTyped'
    BY <2>1 DEF ListingInv, ListTyped
  <2>n. Nested'
    <3>1. ASSUME NEW k \in 1..Len(calls')
          PROVE  /\ Len(calls'[k].path) = k - 1
                 /\ \A j \in 1..k - 1 :
                      /\ Begins(calls'[j].path, calls'[k].path)
                      /\ calls'[k].path[j] \notin calls'[j].left
      BY <2>1, Zenon DEF ListingInv, Nested
    <3> QED BY <3>1 DEF Nested, Begins
  <2>3. PrintedOnce'
    <3>1. calls' = calls /\ printed' = printed /\ PrintedOnce
      BY <2>1 DEF ListingInv
    <3>2. \A x, y \in 1..Len(printed') : printed'[x] = printed'[y] => x = y
      BY <3>1, Zenon DEF PrintedOnce
    <3>3. ASSUME NEW x \in 1..Len(printed'), NEW k \in 1..Len(calls')
          PROVE  ~ Still(calls'[k], printed'[x])
      BY <3>1, Zenon DEF PrintedOnce
    <3> QED BY <3>2, <3>3 DEF PrintedOnce, Still, Begins
  <2>4. ASSUME NEW q, OnTree(q) PROVE Covered(q)'
    <3>1. Covered(q)
      BY <2>4 DEF ListingInv
    <3> QED BY <2>1, <3>1 DEF Covered, Still, Begins
  <2> QED BY <2>2, <2>n, <2>3, <2>4 DEF ListingInv, OnTree
<1>2. CASE R!Closedir
  BY <1>2, ListPop DEF R!Closedir
<1>3. ASSUME NEW n \in Tree, R!GivesUp(n) PROVE ListingInv'
  BY <1>3, ListPop DEF R!GivesUp
<1>4. ASSUME NEW n \in Tree, R!IsFile(n) PROVE ListingInv'
  <2>1. PICK path : path = Append(R!Call.path, n)
    OBVIOUS
  <2>2. CASE R!Stat(path) /\ R!IsDir(path) /\ R!Opens
    BY <1>4, <2>1, <2>2, ListRead DEF R!IsFile
  <2>3. CASE ~ (R!Stat(path) /\ R!IsDir(path) /\ R!Opens)
    BY <1>4, <2>1, <2>3, ListRead DEF R!IsFile
  <2> QED BY <2>2, <2>3
<1> QED BY <1>1, <1>2, <1>3, <1>4 DEF ListRun, R!Next

-----------------------------------------------------------------------------
(* The paths of the tree *)

\* One way leads down to each node.
LEMMA OneWay ==
  ASSUME NEW n \in Tree
  PROVE  \E q : OnTree(q) /\ q[Len(q)] = n
<1> SUFFICES ASSUME \A q : OnTree(q) => q[Len(q)] # n PROVE FALSE
  OBVIOUS
<1> DEFINE A == {m \in Tree : \A q : OnTree(q) => q[Len(q)] # m}
<1>1. PICK m \in A : TreeParent[m] \notin A
  <2>1. A \in SUBSET Tree /\ A # {}
    OBVIOUS
  <2> HIDE DEF A
  <2> QED BY <2>1, ListGiven
<1>2. CASE TreeParent[m] = R!Root
  <2>1. OnTree(<<m>>) /\ <<m>>[Len(<<m>>)] = m
    BY <1>2 DEF OnTree
  <2> QED BY <2>1
<1>3. CASE TreeParent[m] # R!Root
  <2>1. TreeParent[m] \in Tree
    BY <1>3, ListGiven
  <2>2. PICK q : OnTree(q) /\ q[Len(q)] = TreeParent[m]
    BY <1>1, <2>1
  <2>3. PICK p : p = Append(q, m)
    OBVIOUS
  <2>4. /\ p \in Seq(Tree) /\ Len(p) = Len(q) + 1 /\ Len(q) \in Nat \ {0}
        /\ \A k \in 1..Len(q) : p[k] = q[k]
        /\ p[Len(q) + 1] = m
    BY <2>2, <2>3, AppendProperties DEF OnTree
  <2>5. ASSUME NEW i \in 1..Len(p) - 1 PROVE TreeParent[p[i + 1]] = p[i]
    <3>1. CASE i = Len(q)
      BY <2>2, <2>4, <3>1
    <3>2. CASE i # Len(q)
      <4>1. i \in 1..Len(q) - 1 /\ i \in 1..Len(q) /\ i + 1 \in 1..Len(q)
        BY <2>4, <3>2
      <4> QED BY <2>2, <2>4, <4>1 DEF OnTree
    <3> QED BY <3>1, <3>2
  <2>6. OnTree(p)
    <3>1. 1 \in 1..Len(q)
      BY <2>4
    <3> QED BY <2>2, <2>4, <2>5, <3>1 DEF OnTree
  <2> QED BY <2>4, <2>6
<1> QED BY <1>2, <1>3

\* The way down to a node, without the node, is that to its directory.
LEMMA WayUp ==
  ASSUME NEW q, OnTree(q), Len(q) # 1
  PROVE  \E u \in Seq(Tree) : /\ OnTree(u) /\ q = Append(u, q[Len(q)])
                             /\ u[Len(u)] = TreeParent[q[Len(q)]]
<1>1. PICK N \in Nat : Len(q) = N + 1 /\ N > 0
  <2>1. PICK M : M = Len(q)
    OBVIOUS
  <2>2. M \in Nat /\ M > 0 /\ M # 1
    BY <2>1 DEF OnTree
  <2>3. M - 1 \in Nat /\ M = M - 1 + 1 /\ M - 1 > 0
    BY <2>2
  <2> QED BY <2>1, <2>3
<1> DEFINE u == [k \in 1..N |-> q[k]]
<1>2. u \in Seq(Tree) /\ Len(u) = N
  BY <1>1 DEF OnTree
<1>3. \A k \in 1..N : u[k] = q[k] /\ k \in 1..Len(q) - 1
  BY <1>1
<1>4. OnTree(u)
  <2>1. 1 \in 1..N /\ \A i \in 1..N - 1 : i \in 1..N /\ i + 1 \in 1..N
    BY <1>1
  <2> HIDE DEF u
  <2> QED BY <1>1, <1>2, <1>3, <2>1 DEF OnTree
<1>5. u[Len(u)] = TreeParent[q[Len(q)]]
  <2>1. N \in 1..N
    BY <1>1
  <2> HIDE DEF u
  <2> QED BY <1>1, <1>2, <1>3, <2>1 DEF OnTree
<1>6. q = Append(u, q[Len(q)])
  <2> HIDE DEF u
  <2>1. q[Len(q)] \in Tree /\ q \in Seq(Tree)
    BY <1>1 DEF OnTree
  <2>2. PICK a : a = Append(u, q[Len(q)])
    OBVIOUS
  <2>3. /\ a \in Seq(Tree) /\ Len(a) = N + 1
        /\ \A k \in 1..N : a[k] = u[k]
        /\ a[N + 1] = q[N + 1]
    BY <1>1, <1>2, <2>1, <2>2, AppendProperties
  <2>4. \A k \in 1..N + 1 : a[k] = q[k]
    BY <1>1, <1>3, <2>3
  <2>5. a = q
    BY <1>1, <2>1, <2>3, <2>4, SeqEqual
  <2> QED BY <2>2, <2>5
<1> HIDE DEF u
<1> QED BY <1>2, <1>4, <1>5, <1>6

\* No other does.
LEMMA NoOtherWay ==
  ASSUME NEW p, NEW q, OnTree(p), OnTree(q), p[Len(p)] = q[Len(q)]
  PROVE  p = q
<1> SUFFICES ASSUME p # q PROVE FALSE
  OBVIOUS
<1> DEFINE Two(m) == \E x, y : /\ OnTree(x) /\ OnTree(y) /\ x # y
                              /\ x[Len(x)] = m /\ y[Len(y)] = m
           A == {m \in Tree : Two(m)}
<1>1. p[Len(p)] \in A
  <2>1. p[Len(p)] \in Tree
    <3>1. p \in Seq(Tree) /\ Len(p) \in 1..Len(p)
      BY DEF OnTree
    <3> QED BY <3>1
  <2> QED BY <2>1
<1>2. PICK m \in A : TreeParent[m] \notin A
  <2>1. A \in SUBSET Tree /\ A # {}
    BY <1>1
  <2> HIDE DEF A
  <2> QED BY <2>1, ListGiven
<1>3. PICK x, y : /\ OnTree(x) /\ OnTree(y) /\ x # y
                  /\ x[Len(x)] = m /\ y[Len(y)] = m
  OBVIOUS
<1>4. m \in Tree /\ R!Root \notin Tree
  BY ListGiven
<1>5. ASSUME NEW z, OnTree(z), z[Len(z)] = m
      PROVE  Len(z) = 1 <=> TreeParent[m] = R!Root
  <2>1. CASE Len(z) = 1
    BY <1>5, <2>1 DEF OnTree
  <2>2. CASE Len(z) # 1
    <3>1. PICK u \in Seq(Tree) : OnTree(u) /\ u[Len(u)] = TreeParent[m]
      BY <1>5, <2>2, WayUp
    <3>2. u[Len(u)] \in Tree
      BY <3>1 DEF OnTree
    <3> QED BY <1>4, <2>2, <3>1, <3>2
  <2> QED BY <2>1, <2>2
<1>6. CASE Len(x) = 1
  <2>1. Len(y) = 1 /\ x[1] = y[1]
    BY <1>3, <1>5, <1>6
  <2>2. x = y
    <3>1. x \in Seq(Tree) /\ y \in Seq(Tree) /\ \A k \in 1..1 : x[k] = y[k]
      BY <1>3, <2>1 DEF OnTree
    <3> QED BY <1>6, <2>1, <3>1, SeqEqual
  <2> QED BY <1>3, <2>2
<1>7. CASE Len(x) # 1
  <2>1. Len(y) # 1
    BY <1>3, <1>5, <1>7
  <2>2. PICK u \in Seq(Tree) :
          OnTree(u) /\ x = Append(u, m) /\ u[Len(u)] = TreeParent[m]
    <3>1. OnTree(x) /\ Len(x) # 1 /\ x[Len(x)] = m
      BY <1>3, <1>7
    <3> QED BY <3>1, WayUp
  <2>3. PICK v \in Seq(Tree) :
          OnTree(v) /\ y = Append(v, m) /\ v[Len(v)] = TreeParent[m]
    BY <1>3, <2>1, WayUp
  <2>4. u # v
    BY <1>3, <2>2, <2>3
  <2>5. TreeParent[m] \in Tree
    BY <2>2 DEF OnTree
  <2>6. Two(TreeParent[m])
    BY <2>2, <2>3, <2>4
  <2> QED BY <1>2, <2>5, <2>6
<1> QED BY <1>6, <1>7

\* PathOf is the way down to a node.
LEMMA PathOfIs ==
  ASSUME NEW n \in Tree
  PROVE  OnTree(R!PathOf[n])
<1> DEFINE Is(f) == f = [m \in Tree |-> IF TreeParent[m] = R!Root THEN <<m>>
                                        ELSE Append(f[TreeParent[m]], m)]
           g == [m \in Tree |-> CHOOSE q : OnTree(q) /\ q[Len(q)] = m]
<1>1. \A m \in Tree : OnTree(g[m]) /\ g[m][Len(g[m])] = m
  BY OneWay
<1>2. ASSUME NEW m \in Tree
      PROVE  g[m] = IF TreeParent[m] = R!Root THEN <<m>>
                    ELSE Append(g[TreeParent[m]], m)
  <2> HIDE DEF g
  <2>1. PICK q : q = g[m]
    OBVIOUS
  <2>2. OnTree(q) /\ q[Len(q)] = m
    BY <1>1, <2>1
  <2>3. CASE TreeParent[m] = R!Root
    <3>1. OnTree(<<m>>) /\ <<m>>[Len(<<m>>)] = m
      BY <2>3 DEF OnTree
    <3>2. q = <<m>>
      BY <2>2, <3>1, NoOtherWay
    <3> QED BY <2>1, <2>3, <3>2
  <2>4. CASE TreeParent[m] # R!Root
    <3>1. Len(q) # 1
      BY <2>2, <2>4 DEF OnTree
    <3>2. PICK u \in Seq(Tree) :
            OnTree(u) /\ q = Append(u, m) /\ u[Len(u)] = TreeParent[m]
      BY <2>2, <3>1, WayUp
    <3>3. TreeParent[m] \in Tree
      BY <2>4, ListGiven
    <3>4. u = g[TreeParent[m]]
      BY <1>1, <3>2, <3>3, NoOtherWay
    <3> QED BY <2>1, <2>4, <3>2, <3>4
  <2> QED BY <2>3, <2>4
<1>3. Is(g)
  <2>1. g = [m \in Tree |-> g[m]]
    OBVIOUS
  <2> HIDE DEF g
  <2> QED BY <1>2, <2>1
<1>4. R!PathOf = CHOOSE f : Is(f)
  BY Zenon DEF R!PathOf
<1>5. Is(R!PathOf)
  <2> HIDE DEF Is, g
  <2> QED BY <1>3, <1>4, Zenon
<1>6. \A m \in Tree : R!PathOf[m] = IF TreeParent[m] = R!Root THEN <<m>>
                                    ELSE Append(R!PathOf[TreeParent[m]], m)
  <2> HIDE DEF g
  <2>1. PICK h : h = R!PathOf
    OBVIOUS
  <2>2. Is(h)
    BY <1>5, <2>1, Zenon
  <2>3. \A m \in Tree : h[m] = IF TreeParent[m] = R!Root THEN <<m>>
                                ELSE Append(h[TreeParent[m]], m)
    BY <2>2
  <2> QED BY <2>1, <2>3, Zenon
<1> DEFINE A == {m \in Tree : R!PathOf[m] # g[m]}
<1>7. A = {}
  <2> SUFFICES ASSUME A # {} PROVE FALSE
    OBVIOUS
  <2>1. PICK m \in A : TreeParent[m] \notin A
    <3>1. A \in SUBSET Tree
      OBVIOUS
    <3> HIDE DEF A
    <3> QED BY <3>1, ListGiven
  <2>2. TreeParent[m] = R!Root \/ TreeParent[m] \in Tree
    BY ListGiven
  <2>3. TreeParent[m] \in Tree => R!PathOf[TreeParent[m]] = g[TreeParent[m]]
    BY <2>1
  <2> HIDE DEF g
  <2> QED BY <1>2, <1>6, <2>2, <2>3
<1>8. R!PathOf[n] = g[n]
  BY <1>7
<1> HIDE DEF g
<1> QED BY <1>1, <1>8

\* What the listing promises.
LEMMA ListHolds == ASSUME ListingInv PROVE R!AllListed
<1>1. /\ printed \in Seq(Seq(Tree)) /\ cut \subseteq Seq(Tree)
      /\ DOMAIN printed = 1..Len(printed)
  BY DEF ListingInv, ListTyped
<1>2. R!IsInjective(printed)
  BY <1>1 DEF ListingInv, PrintedOnce, R!IsInjective
<1>3. ASSUME R!Ended, NEW n \in Tree
      PROVE  \/ R!PathOf[n] \in R!Range(printed)
             \/ \E path \in cut : R!IsStrictPrefix(path, R!PathOf[n])
  <2>1. PICK q : q = R!PathOf[n] /\ OnTree(q)
    BY PathOfIs
  <2>2. Covered(q) /\ Len(calls) = 0
    BY <1>3, <2>1 DEF ListingInv, R!Ended
  <2>3. ASSUME NEW d \in cut, Begins(d, q), d # q
        PROVE  R!IsStrictPrefix(d, q)
    <3>1. d \in Seq(Tree) /\ q \in Seq(Tree) /\ Len(d) <= Len(q)
          /\ Len(d) \in Nat /\ Len(q) \in Nat
      BY <1>1, <2>1, <2>3 DEF OnTree, Begins
    <3>2. SubSeq(d, 1, Len(d)) = d
      BY <3>1, SubSeqFull
    <3>3. PICK e : e = SubSeq(q, 1, Len(d))
      OBVIOUS
    <3>4. /\ e \in Seq(Tree) /\ Len(e) = Len(d)
          /\ \A i \in 1..Len(d) : e[i] = q[i]
      <4>1. /\ \A i \in 1..Len(d) : q[i] \in Tree
            /\ 1 \in Int /\ Len(d) \in Int
        BY <3>1
      <4>2. /\ e \in Seq(Tree)
            /\ Len(e) = IF 1 <= Len(d) THEN Len(d) - 1 + 1 ELSE 0
            /\ \A i \in 1..Len(d) - 1 + 1 : e[i] = q[1 + i - 1]
        BY <3>3, <4>1, SubSeqProperties
      <4>3. Len(d) - 1 + 1 = Len(d) /\ \A i \in 1..Len(d) : 1 + i - 1 = i
        BY <3>1
      <4> QED BY <3>1, <4>2, <4>3
    <3>5. e = d
      BY <2>3, <3>1, <3>4, SeqEqual DEF Begins
    <3> QED BY <2>3, <3>1, <3>2, <3>3, <3>5 DEF R!IsStrictPrefix, R!IsPrefix
  <2>4. CASE \E x \in 1..Len(printed) : printed[x] = q
    BY <1>1, <2>1, <2>4 DEF R!Range
  <2>5. CASE \E d \in cut : Begins(d, q) /\ d # q
    BY <2>1, <2>3, <2>5
  <2>6. ~ \E k \in 1..Len(calls) : Still(calls[k], q)
    BY <2>2
  <2> QED BY <2>2, <2>4, <2>5, <2>6 DEF Covered
<1> QED BY <1>2, <1>3 DEF R!AllListed

-----------------------------------------------------------------------------
(* Types *)

\* Clients are processes.
LEMMA HastyFinite == IsFiniteSet(Hasty)
<1>1. H!IsFiniteSet(Hasty)
  BY ProgramsAssumption DEF H!LibeventAssumption
<1> QED BY <1>1 DEF H!IsFiniteSet, IsFiniteSet

\* The sum over the hasty clients.
SumIs(a, f, U) ==
  f = [s \in U |-> IF s = {} THEN 0 ELSE a[OneOf(s)] + f[s \ {OneOf(s)}]]

LEMMA SumExists ==
  ASSUME NEW a
  PROVE  \E f : SumIs(a, f, SUBSET Hasty)
<1>0. IsFiniteSet(Hasty)
  BY HastyFinite
<1> DEFINE n == Cardinality(Hasty)
           Small(k) == {s \in SUBSET Hasty : Cardinality(s) <= k}
           Q == {k \in Nat : \E f : SumIs(a, f, Small(k))}
<1>1. n \in Nat /\ Small(n) = SUBSET Hasty
  BY <1>0, FS_CardinalityType, FS_Subset
<1>s. \A s \in SUBSET Hasty : s # {} =>
        /\ OneOf(s) \in s /\ s \ {OneOf(s)} \in SUBSET Hasty
        /\ Cardinality(s) \in Nat \ {0}
        /\ Cardinality(s \ {OneOf(s)}) = Cardinality(s) - 1
  BY <1>0, SmallerSet
<1>2. 0 \in Q
  <2>1. SumIs(a, [s \in Small(0) |-> 0], Small(0))
    <3>1. ASSUME NEW s \in Small(0), s # {} PROVE FALSE
      <4>1. s \in SUBSET Hasty /\ Cardinality(s) <= 0
        BY <3>1
      <4>2. Cardinality(s) \in Nat \ {0}
        BY <1>s, <3>1, <4>1, Zenon
      <4> QED BY <4>1, <4>2
    <3> QED BY <3>1 DEF SumIs
  <2> QED BY <2>1
<1>3. ASSUME NEW k \in 0..n - 1, k \in Q PROVE k + 1 \in Q
  <2>1. PICK f : SumIs(a, f, Small(k))
    BY <1>3
  <2> DEFINE g == [s \in Small(k + 1) |->
                     IF s \in Small(k) THEN f[s]
                     ELSE a[OneOf(s)] + f[s \ {OneOf(s)}]]
  <2>2. ASSUME NEW s \in Small(k + 1)
        PROVE  g[s] = IF s = {} THEN 0 ELSE a[OneOf(s)] + g[s \ {OneOf(s)}]
    <3>1. CASE s = {}
      <4>1. s \in Small(k)
        BY <3>1, FS_EmptySet
      <4> QED BY <2>1, <3>1, <4>1 DEF SumIs
    <3>2. CASE s # {}
      <4>1. s \ {OneOf(s)} \in Small(k) /\ s \ {OneOf(s)} \in Small(k + 1)
        BY <1>s, <3>2
      <4>2. g[s \ {OneOf(s)}] = f[s \ {OneOf(s)}]
        BY <4>1
      <4>3. g[s] = a[OneOf(s)] + f[s \ {OneOf(s)}]
        BY <2>1, <3>2 DEF SumIs
      <4> QED BY <3>2, <4>2, <4>3
    <3> QED BY <3>1, <3>2
  <2>3. SumIs(a, g, Small(k + 1))
    BY <2>2 DEF SumIs
  <2>4. k + 1 \in Nat
    BY <1>1
  <2> QED BY <2>3, <2>4, Zenon
<1>4. n \in Q
  <2>1. \A k \in 0..n - 1 : k \in Q => k + 1 \in Q
    BY <1>3
  <2>2. n \in 0..n
    BY <1>1
  <2> HIDE DEF Q, n
  <2> QED BY <1>1, <1>2, <2>1, <2>2, CountUp, Zenon
<1> QED BY <1>1, <1>4

Sums(a) == H!MapThenSumSet(LAMBDA c : a[c], Hasty)

LEMMA SumsAre ==
  ASSUME NEW a
  PROVE  \E f : SumIs(a, f, SUBSET Hasty) /\ Sums(a) = f[Hasty]
<1>1. \E f : f = [s \in SUBSET Hasty |->
                    IF s = {} THEN 0
                    ELSE a[CHOOSE x \in s : TRUE]
                           + f[s \ {CHOOSE x \in s : TRUE}]]
  <2>1. \E f : SumIs(a, f, SUBSET Hasty)
    BY SumExists
  <2> QED BY <2>1, Zenon DEF SumIs, OneOf
<1> QED BY <1>1 DEF Sums, H!MapThenSumSet, H!MapThenFoldSet, SumIs, OneOf

LEMMA SumTyped ==
  ASSUME NEW a \in [H!HttpClients -> Nat], NEW f, SumIs(a, f, SUBSET Hasty)
  PROVE  \A s \in SUBSET Hasty : f[s] \in Nat
<1> DEFINE Q == {s \in SUBSET Hasty : f[s] \in Nat}
<1>0. IsFiniteSet(Hasty) /\ Hasty \subseteq H!HttpClients
  BY HastyFinite, HttpGiven
<1>1. {} \in Q
  BY DEF SumIs
<1>2. ASSUME NEW s \in SUBSET Hasty, s # {}, s \ {OneOf(s)} \in Q
      PROVE  s \in Q
  <2>1. a[OneOf(s)] \in Nat
    BY <1>0, <1>2, SmallerSet
  <2>2. f[s] = a[OneOf(s)] + f[s \ {OneOf(s)}]
    BY <1>2 DEF SumIs
  <2> QED BY <1>2, <2>1, <2>2
<1>3. \A s \in SUBSET Hasty : s \in Q
  <2>1. \A s \in SUBSET Hasty : s # {} /\ s \ {OneOf(s)} \in Q => s \in Q
    BY <1>2
  <2> HIDE DEF Q
  <2> QED BY <1>0, <1>1, <2>1, BuildUp, Zenon
<1> QED BY <1>3

\* A client that asks once more adds one if it is a hasty one.
LEMMA BotheredMore ==
  ASSUME HttpTyped, changes \in Nat, UNCHANGED changes,
         NEW c \in H!HttpClients, asked' = [asked EXCEPT ![c] = @ + 1]
  PROVE  H!Bothered' = IF c \in Hasty THEN H!Bothered + 1 ELSE H!Bothered
<1>1. PICK f : SumIs(asked, f, SUBSET Hasty) /\ Sums(asked) = f[Hasty]
  BY SumsAre
<1>2. PICK g : SumIs(asked', g, SUBSET Hasty) /\ Sums(asked') = g[Hasty]
  BY SumsAre
<1>3. H!Bothered = changes + Sums(asked) /\ H!Bothered' = changes' + Sums(asked')
  BY DEF H!Bothered, Sums, H!MapThenSumSet, H!MapThenFoldSet
<1>4. asked \in [H!HttpClients -> Nat]
  BY DEF HttpTyped
<1>5. g[Hasty] = IF c \in Hasty THEN f[Hasty] + 1 ELSE f[Hasty]
  <2>1. PICK a, b : a = asked /\ b = asked'
    OBVIOUS
  <2>2. /\ a \in [H!HttpClients -> Nat]
        /\ \A d \in H!HttpClients : b[d] = IF d = c THEN a[d] + 1 ELSE a[d]
    BY <1>4, <2>1
  <2>3. SumIs(a, f, SUBSET Hasty) /\ SumIs(b, g, SUBSET Hasty)
    BY <1>1, <1>2, <2>1
  <2> DEFINE Q == {s \in SUBSET Hasty : g[s] = IF c \in s THEN f[s] + 1 ELSE f[s]}
  <2>5. IsFiniteSet(Hasty) /\ Hasty \subseteq H!HttpClients
    BY HastyFinite, HttpGiven
  <2>6. {} \in Q
    BY <2>3 DEF SumIs
  <2>7. ASSUME NEW s \in SUBSET Hasty, s # {}, s \ {OneOf(s)} \in Q
        PROVE  s \in Q
    <3>1. PICK x, r : x = OneOf(s) /\ r = s \ {x}
      OBVIOUS
    <3>2. x \in s /\ x \in H!HttpClients /\ r \in SUBSET Hasty
      BY <2>5, <2>7, <3>1, SmallerSet
    <3>3. f[s] = a[x] + f[r] /\ g[s] = b[x] + g[r]
      BY <2>3, <2>7, <3>1 DEF SumIs
    <3>4. a[x] \in Nat /\ f[r] \in Nat
      BY <3>2, <2>2, <2>3, SumTyped
    <3>5. b[x] = IF x = c THEN a[x] + 1 ELSE a[x]
      BY <2>2, <3>2
    <3>6. g[r] = IF c \in r THEN f[r] + 1 ELSE f[r]
      BY <2>7, <3>1
    <3>7. c \in s <=> c = x \/ c \in r
      BY <3>1, <3>2
    <3>8. c = x => c \notin r
      BY <3>1
    <3> QED BY <3>3, <3>4, <3>5, <3>6, <3>7, <3>8
  <2>8. \A s \in SUBSET Hasty : s \in Q
    <3>1. \A s \in SUBSET Hasty : s # {} /\ s \ {OneOf(s)} \in Q => s \in Q
      BY <2>7
    <3> HIDE DEF Q
    <3> QED BY <2>5, <2>6, <3>1, BuildUp, Zenon
  <2> QED BY <2>8
<1>6. f[Hasty] \in Nat
  BY <1>1, <1>4, SumTyped
<1> QED BY <1>1, <1>2, <1>3, <1>5, <1>6

\* What the halves of requests and the changes come to.
LEMMA BotheredKept ==
  ASSUME UNCHANGED asked
  PROVE  H!Bothered = changes + Sums(asked) /\ H!Bothered' = changes' + Sums(asked)
<1>1. H!Bothered = changes + Sums(asked) /\ H!Bothered' = changes' + Sums(asked')
  BY DEF H!Bothered, Sums, H!MapThenSumSet, H!MapThenFoldSet
<1> QED BY <1>1

LEMMA SumsTyped ==
  ASSUME HttpTyped PROVE Sums(asked) \in Nat
<1>1. PICK f : SumIs(asked, f, SUBSET Hasty) /\ Sums(asked) = f[Hasty]
  BY SumsAre
<1>2. asked \in [H!HttpClients -> Nat]
  BY DEF HttpTyped
<1> QED BY <1>1, <1>2, SumTyped

HttpMore ==
  /\ bev \in [H!HttpClients -> {"new", "queued", "open", "freed"}]
  /\ httpPeer \in [H!HttpClients -> {"up", "shut", "closed"}]
  /\ astray \in [Browsers -> BOOLEAN]
  /\ goal \in [Browsers -> Nodes \union {H!Root, H!Nothing}]
  /\ changes \in Nat /\ H!Bothered \in 0..Bothers
  /\ down \in {"no", "ended", "crashed"}

LEMMA HttpTypesAre == ASSUME HttpInv, HttpMore PROVE H!TypeOK
<1>1. HttpTyped /\ KnownFile
  BY DEF HttpInv
<1>2. ASSUME NEW c \in Browsers PROVE Len(got[c]) <= 2
  <2>1. BrowserInv(c)
    BY DEF HttpInv
  <2>2. got[c] = <<>> \/ \E h, b : got[c] = <<h>> \/ got[c] = <<h, b>>
    BY <2>1 DEF BrowserInv, OneAnswerOf
  <2>3. \A h, b : Len(<<h>>) = 1 /\ Len(<<h, b>>) = 2 /\ Len(<<>>) = 0
    OBVIOUS
  <2>4. Len(got[c]) \in {0, 1, 2}
    BY <2>2, <2>3
  <2>5. \A k \in {0, 1, 2} : k <= 2
    OBVIOUS
  <2> QED BY <2>4, <2>5, Zenon
<1>3. cb.who \in H!HttpClients \union {H!Nothing}
  BY <1>1 DEF KnownFile, H!Idle
<1> QED BY <1>1, <1>2, <1>3 DEF HttpTyped, HttpMore, H!TypeOK

LEMMA HttpTypesInit == ASSUME Init PROVE HttpMore
<1>1. /\ bev = [c \in H!HttpClients |-> "new"]
      /\ httpPeer = [c \in H!HttpClients |-> "up"]
      /\ asked = [c \in H!HttpClients |-> 0]
      /\ goal = [c \in Browsers |-> H!Root]
      /\ astray = [c \in Browsers |-> FALSE]
      /\ changes = 0 /\ down = "no"
  BY DEF Init, H!Init
<1>2. H!Bothered = 0
  <2>1. PICK f : SumIs(asked, f, SUBSET Hasty) /\ Sums(asked) = f[Hasty]
    BY SumsAre
  <2> DEFINE Q == {s \in SUBSET Hasty : f[s] = 0}
  <2>2. {} \in Q
    BY <2>1 DEF SumIs
  <2>3. ASSUME NEW s \in SUBSET Hasty, s # {}, s \ {OneOf(s)} \in Q
        PROVE  s \in Q
    <3>1. OneOf(s) \in H!HttpClients
      BY <2>3, HastyFinite, HttpGiven, SmallerSet
    <3>2. asked[OneOf(s)] = 0
      BY <1>1, <3>1
    <3>3. f[s] = asked[OneOf(s)] + f[s \ {OneOf(s)}]
      BY <2>1, <2>3 DEF SumIs
    <3> QED BY <2>3, <3>2, <3>3
  <2>4. \A s \in SUBSET Hasty : s \in Q
    <3>1. \A s \in SUBSET Hasty : s # {} /\ s \ {OneOf(s)} \in Q => s \in Q
      BY <2>3
    <3> HIDE DEF Q
    <3> QED BY <2>2, <3>1, HastyFinite, BuildUp, Zenon
  <2>5. f[Hasty] = 0
    BY <2>4
  <2>6. H!Bothered = changes + Sums(asked)
    BY DEF H!Bothered, Sums, H!MapThenSumSet, H!MapThenFoldSet
  <2> QED BY <1>1, <2>1, <2>5, <2>6
<1>3. Bothers \in Nat
  BY ProgramsAssumption DEF H!LibeventAssumption
<1> QED BY <1>1, <1>2, <1>3 DEF HttpMore

LEMMA HttpTypesStep ==
  ASSUME HttpInv, LinkInv, HttpMore, HttpRun PROVE HttpMore'
<1> USE HttpGiven
<1>0. HttpTyped /\ LinkTyped /\ Bothers \in Nat
  BY ProgramsAssumption DEF HttpInv, LinkInv, H!LibeventAssumption
<1>k. ASSUME UNCHANGED <<asked, changes>>
      PROVE  changes' \in Nat /\ H!Bothered' \in 0..Bothers
  BY <1>k, BotheredKept DEF HttpMore
<1>1. ASSUME NEW c \in H!HttpClients,
             H!Connect(c) \/ H!listener_cb(c) \/ H!Leave(c) \/ H!conn_eventcb(c)
      PROVE  HttpMore'
  <2>1. UNCHANGED <<asked, changes, astray, goal, down>>
    BY <1>1 DEF H!Connect, H!listener_cb, H!Leave, H!conn_eventcb, H!AtServer,
      H!AtClients, H!clientVars, H!fileVars
  <2>2. bev' = bev \/ \E s \in {"queued", "open", "freed"} :
                        bev' = [bev EXCEPT ![c] = s]
    BY <1>1 DEF H!Connect, H!listener_cb, H!Leave, H!conn_eventcb
  <2>3. httpPeer' = httpPeer \/ \E s \in {"shut", "closed"} :
                                  httpPeer' = [httpPeer EXCEPT ![c] = s]
    BY <1>1 DEF H!Connect, H!listener_cb, H!Leave, H!conn_eventcb, H!AtClients,
      H!clientVars
  <2>4. bev' \in [H!HttpClients -> {"new", "queued", "open", "freed"}]
    BY <2>2 DEF HttpMore
  <2>5. httpPeer' \in [H!HttpClients -> {"up", "shut", "closed"}]
    BY <2>3 DEF HttpMore
  <2> QED BY <1>k, <2>1, <2>4, <2>5 DEF HttpMore
<1>2. ASSUME NEW c \in H!HttpClients, H!conn_readcb(c) \/ H!Flush(c)
      PROVE  HttpMore'
  <2>1. /\ UNCHANGED <<asked, changes, astray, goal, bev, httpPeer>>
        /\ down' \in {down, "ended"}
    BY <1>2 DEF H!conn_readcb, H!Flush, H!AtClients, H!clientVars, H!fileVars
  <2> QED BY <1>k, <2>1 DEF HttpMore
<1>3. ASSUME NEW c \in H!HttpClients, H!Send(c) PROVE HttpMore'
  <2>1. /\ c \in Hasty /\ H!Bothered < Bothers
        /\ asked' = [asked EXCEPT ![c] = @ + 1]
        /\ UNCHANGED <<changes, astray, goal, bev, httpPeer, down>>
    BY <1>3 DEF H!Send, H!Up, H!AtServer, H!fileVars
  <2>2. H!Bothered' = H!Bothered + 1
    BY <1>0, <2>1, BotheredMore DEF HttpMore
  <2>3. H!Bothered' \in 0..Bothers
    BY <1>0, <2>1, <2>2 DEF HttpMore
  <2> QED BY <2>1, <2>3 DEF HttpMore
<1>4. ASSUME NEW c \in Browsers, NEW u, NEW n, NEW away, H!Ask(c, u, n, away),
             n \in Nodes \union {H!Root, H!Nothing}, away \in BOOLEAN
      PROVE  HttpMore'
  <2>1. /\ asked' = [asked EXCEPT ![c] = @ + 1]
        /\ goal' = [goal EXCEPT ![c] = n]
        /\ astray' = [astray EXCEPT ![c] = away]
        /\ UNCHANGED <<changes, bev, httpPeer, down>>
    BY <1>4 DEF H!Ask, H!AtServer, H!fileVars
  <2>2. H!Bothered' = H!Bothered
    BY <1>0, <2>1, BotheredMore DEF HttpMore
  <2>3. /\ goal' \in [Browsers -> Nodes \union {H!Root, H!Nothing}]
        /\ astray' \in [Browsers -> BOOLEAN]
    BY <1>4, <2>1 DEF HttpMore
  <2> QED BY <2>1, <2>2, <2>3 DEF HttpMore
<1>5. ASSUME NEW c \in Browsers, H!Type(c) PROVE HttpMore'
  <2>1. PICK u \in Typed \union {H!Top} : H!Ask(c, u, H!Find(u), FALSE)
    BY <1>5 DEF H!Type
  <2>2. u \in UrlType
    BY TypedUrls
  <2>3. H!Find(u) \in Nodes \union {H!Root, H!Nothing}
    BY <1>0, <2>2, FindIs DEF LinkTyped, Finds
  <2> QED BY <1>4, <2>1, <2>3
<1>6. ASSUME NEW c \in Browsers, H!Follow(c) PROVE HttpMore'
  <2>1. PICK l \in got[c][2].links :
          \E u : H!Ask(c, u, l.names, ~url[c].slash)
    BY <1>6 DEF H!Follow
  <2>2. LinkTo(got[c][2].node, l)
    BY <1>6, PageLinks DEF H!Follow
  <2>3. l.names \in Nodes
    BY <2>2 DEF LinkTo
  <2>4. (~url[c].slash) \in BOOLEAN
    BY <1>0, <1>6 DEF LinkTyped, UrlType
  <2> QED BY <1>4, <2>1, <2>3, <2>4
<1>7. ASSUME NEW c \in Browsers, H!FollowDots(c) PROVE HttpMore'
  <2>1. PICK u \in UrlType : H!Ask(c, u, H!Find(u), FALSE)
    BY <1>0, <1>7, DotsAsk
  <2>2. H!Find(u) \in Nodes \union {H!Root, H!Nothing}
    BY <1>0, FindIs DEF LinkTyped, Finds
  <2> QED BY <1>4, <2>1, <2>2
<1>8. CASE UNCHANGED httpVars
  BY <1>8, <1>k DEF httpVars, HttpMore
<1>9. CASE H!Sends
  <2>1. /\ UNCHANGED <<asked, changes, astray, goal, bev, httpPeer>>
        /\ down' \in {down, "crashed"}
    BY <1>9 DEF H!Sends, H!send_dir, H!send_file_to_http, H!OpenFails,
      H!AtClients, H!clientVars, H!fileVars
  <2> QED BY <1>k, <2>1 DEF HttpMore
<1>10. CASE H!Change
  <2>1. /\ H!Bothered < Bothers /\ changes' = changes + 1
        /\ UNCHANGED <<asked, astray, goal, bev, httpPeer, down>>
    BY <1>10 DEF H!Change, H!clientVars
  <2>2. H!Bothered' = H!Bothered + 1 /\ changes' \in Nat
    BY <1>0, <2>1, BotheredKept, SumsTyped DEF HttpMore
  <2>3. H!Bothered' \in 0..Bothers
    BY <1>0, <2>1, <2>2 DEF HttpMore
  <2> QED BY <2>1, <2>2, <2>3 DEF HttpMore
<1>11. CASE H!signal_cb
  <2>1. /\ UNCHANGED <<asked, changes, astray, goal, bev, httpPeer>>
        /\ down' = "ended"
    BY <1>11 DEF H!signal_cb, H!clientVars, H!fileVars
  <2> QED BY <1>k, <2>1 DEF HttpMore
<1> QED BY <1>1, <1>2, <1>3, <1>5, <1>6, <1>7, <1>8, <1>9, <1>10, <1>11
    DEF HttpRun, H!Next, H!OneClient

LEMMA ListTypesAre == ASSUME ListingInv PROVE R!TypeOK
<1>1. /\ calls \in Seq(CallType) /\ leaked \in Nat
      /\ Len(calls) + leaked <= DirLimit /\ DirLimit \in Nat
  BY ListGiven DEF ListingInv, ListTyped
<1>2. Len(calls) \in Nat
  BY <1>1
<1>3. leaked \in 0..DirLimit /\ Len(calls) <= DirLimit
  BY <1>1, <1>2
<1> QED BY <1>1, <1>3 DEF ListingInv, ListTyped, R!TypeOK, CallType

-----------------------------------------------------------------------------
(* What readers of a listing may rely on *)

\* Whatever the files, their names and the links between directories, a link of
\* a page that was asked for with its last "/" leads to the file it names, as
\* long as nobody removes it; a recursive listing prints no path twice, and in
\* the end none is left out but below a directory that was given up or could not
\* be opened.
THEOREM LinksLead == Spec => []LinksOpen
<1>1. Init => HttpInv /\ LinkInv /\ ListingInv
  BY HttpInit, LinkInit, ListInit
<1>2. HttpInv /\ LinkInv /\ ListingInv /\ [Next]_vars
        => HttpInv' /\ LinkInv' /\ ListingInv'
  BY HttpSteps, HttpStep, LinkStep, ListSteps, ListingStep
<1>3. HttpInv /\ LinkInv /\ ListingInv => LinksOpen
  BY LinksHold, ListHolds DEF LinksOpen
<1> QED BY <1>1, <1>2, <1>3, PTL DEF Spec

\* What the types rest on: the invariants of each module, and beside them what
\* its types alone ask for.
Kinds == {"table", "fork", "prod", "lock", "wait", "strm", "wrap", "http",
          "dgram", "list", "bev"}
ServersTyped == /\ TableInv /\ T!SocketTypeOK /\ TableMore /\ Counted
                /\ ForkInv /\ F!SocketTypeOK /\ ForkMore
                /\ DgramInv /\ D!TypeOK /\ WorkTyped
OthersTyped == /\ BufferInv /\ LockInv /\ WaitInv
               /\ S!TypeOK /\ InPairs /\ WrapInv /\ ReadFits /\ BevInv /\ BevMore
               /\ HttpInv /\ LinkInv /\ HttpMore /\ ListingInv

\* Each of the programs in Programs.cfg keeps to its types: no counter of the
\* table servers, of the ring or of a listing leaves its bounds, no descriptor,
\* slot or position is taken that does not exist, whatever the clients do and
\* however many there are.
THEOREM TypesKept == Spec => []TypeOK
<1> DEFINE Inv == which \in Kinds /\ ServersTyped /\ OthersTyped
<1>1. ASSUME Init PROVE Inv
  <2>1. which \in Kinds
    BY <1>1 DEF Init, Kinds
  <2>2. ServersTyped
    BY <1>1, TableInit, TableTypesInit, ForkInit, ForkTypesInit, DgramInit,
      DgramTypesInit DEF ServersTyped
  <2>3. OthersTyped
    BY <1>1, BufferInit, LockInit, WaitInit, StreamTypesInit, WrapInit,
      WrapTypesInit, BevInit, BevTypesInit, HttpInit, LinkInit, HttpTypesInit,
      ListInit DEF OthersTyped
  <2> QED BY <2>1, <2>2, <2>3
<1>2. ASSUME Inv, [Next]_vars PROVE Inv'
  <2>1. which' = which
    BY <1>2 DEF Next, vars, InTableServers, InForkServers, InProducers, InLocks,
      InChildren, InStreams, InStreamWrap, InLibevent, InDatagrams, InListing,
      InBufferevents
  <2>2. TableInv' /\ T!SocketTypeOK' /\ TableMore' /\ Counted'
    <3>1. TableInv /\ T!SocketTypeOK /\ TableMore /\ Counted /\ TableRun
      BY <1>2, TableSteps DEF ServersTyped
    <3>2. TableInv'
      BY <3>1, TableStep
    <3> QED BY <3>1, <3>2, TableTypesStep, CountedStep
  <2>3. ForkInv' /\ F!SocketTypeOK' /\ ForkMore'
    <3>1. ForkInv /\ F!SocketTypeOK /\ ForkMore /\ ForkRun
      BY <1>2, ForkSteps DEF ServersTyped
    <3>2. ForkInv'
      BY <3>1, ForkStep
    <3> QED BY <3>1, <3>2, ForkTypesStep
  <2>4. DgramInv' /\ D!TypeOK' /\ WorkTyped'
    <3>1. DgramInv /\ D!TypeOK /\ WorkTyped /\ DgramRun
      BY <1>2, DgramSteps DEF ServersTyped
    <3> QED BY <3>1, DgramStep, DgramTypesStep
  <2>5. BufferInv' /\ LockInv' /\ WaitInv'
    <3>1. BufferInv /\ LockInv /\ WaitInv
      BY <1>2 DEF OthersTyped
    <3>2. ProducersRun /\ LocksRun /\ ChildrenRun
      BY <1>2, ProducersSteps, LocksSteps, ChildrenSteps
    <3> QED BY <3>1, <3>2, BufferStep, LockStep, WaitsStep
  <2>6. S!TypeOK' /\ InPairs' /\ WrapInv' /\ ReadFits' /\ BevInv' /\ BevMore'
    <3>1. S!TypeOK /\ InPairs /\ WrapInv /\ ReadFits /\ BevInv /\ BevMore
      BY <1>2 DEF OthersTyped
    <3>2. StreamRun /\ StreamWrapRun /\ BevRun
      BY <1>2, StreamSteps, StreamWrapSteps, BevSteps
    <3> QED BY <3>1, <3>2, StreamTypesStep, WrapStep, WrapTypesStep, BevStep,
              BevTypesStep
  <2>7. HttpInv' /\ LinkInv' /\ HttpMore' /\ ListingInv'
    <3>1. HttpInv /\ LinkInv /\ HttpMore /\ ListingInv
      BY <1>2 DEF OthersTyped
    <3>2. HttpRun /\ ListRun
      BY <1>2, HttpSteps, ListSteps
    <3> QED BY <3>1, <3>2, HttpStep, LinkStep, HttpTypesStep, ListingStep
  <2>8. which' \in Kinds
    BY <1>2, <2>1
  <2>9. ServersTyped'
    BY <2>2, <2>3, <2>4 DEF ServersTyped
  <2>10. OthersTyped'
    BY <2>5, <2>6, <2>7 DEF OthersTyped
  <2> QED BY <2>8, <2>9, <2>10
<1>3. ASSUME Inv PROVE TypeOK
  <2>1. T!TypeOK /\ F!TypeOK /\ D!TypeOK
    BY <1>3, TableTypesAre, ForkTypesAre DEF ServersTyped
  <2>2. P!TypeOK /\ L!TypeOK /\ C!TypeOK
    BY <1>3, ProducersTypes DEF OthersTyped, LockInv, WaitInv
  <2>3. S!TypeOK /\ W!TypeOK /\ B!TypeOK
    BY <1>3, WrapTypesAre, BevTypesAre DEF OthersTyped
  <2>4. H!TypeOK /\ R!TypeOK
    BY <1>3, HttpTypesAre, ListTypesAre DEF OthersTyped
  <2> QED BY <1>3, <2>1, <2>2, <2>3, <2>4 DEF TypeOK, Kinds
<1>4. (Init => Inv) /\ (Inv /\ [Next]_vars => Inv') /\ (Inv => TypeOK)
  BY <1>1, <1>2, <1>3
<1> HIDE DEF Inv
<1> QED BY <1>4, PTL DEF Spec

=============================================================================
