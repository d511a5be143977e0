--------------------------- MODULE CompilerProofs ---------------------------
(***************************************************************************)
(* The control stack of the compiler, for every program: a definition that *)
(* has a meaning leaves it as it found it.  The code keeps the entries of  *)
(* a definition in another order than the standard does, so what is proved *)
(* is that above what earlier definitions have left it holds as many       *)
(* entries of each kind as the standard's control-flow stack has items.    *)
(***************************************************************************)
EXTENDS Compiler, FiniteSetTheorems, SequenceTheorems, WellFoundedInduction, TLAPS

-----------------------------------------------------------------------------
(* Counting *)

\* How often q occurs in a sequence.
Places(s, q) == {k \in DOMAIN s : s[k] = q}
Occ(s, q) == Cardinality(Places(s, q))

LEMMA PlacesFinite ==
  ASSUME NEW K, NEW s \in Seq(K), NEW q
  PROVE  IsFiniteSet(Places(s, q)) /\ Occ(s, q) \in Nat
<1>1. Len(s) \in Nat /\ DOMAIN s = 1..Len(s)
  BY LenProperties
<1>2. IsFiniteSet(1..Len(s))
  BY <1>1, FS_Interval
<1>3. Places(s, q) \in SUBSET (1..Len(s))
  BY <1>1 DEF Places
<1> QED BY <1>2, <1>3, FS_Subset, FS_CardinalityType DEF Occ

\* Appending e makes one more e.
LEMMA OccAppend ==
  ASSUME NEW K, NEW s \in Seq(K), NEW e \in K, NEW q
  PROVE  Occ(Append(s, e), q) = Occ(s, q) + (IF e = q THEN 1 ELSE 0)
<1> DEFINE t == Append(s, e)
<1>1. Len(s) \in Nat /\ DOMAIN s = 1..Len(s) /\ DOMAIN t = 1..(Len(s) + 1)
  BY LenProperties, AppendProperties
<1>2. t[Len(s) + 1] = e /\ \A k \in 1..Len(s) : t[k] = s[k]
  BY <1>1
<1>3. IsFiniteSet(Places(s, q)) /\ Occ(s, q) \in Nat
  BY PlacesFinite
<1> HIDE DEF t
<1>4. CASE e = q
  <2>1. Places(t, q) = Places(s, q) \cup {Len(s) + 1}
    <3>1. \A k \in 1..(Len(s) + 1) : t[k] = q <=> (k \in 1..Len(s) /\ s[k] = q) \/ k = Len(s) + 1
      BY <1>1, <1>2, <1>4
    <3> QED BY <3>1, <1>1 DEF Places
  <2>2. Len(s) + 1 \notin Places(s, q)
    BY <1>1 DEF Places
  <2>3. Cardinality(Places(t, q)) = Cardinality(Places(s, q)) + 1
    BY <2>1, <2>2, <1>3, FS_AddElement
  <2> QED BY <2>3, <1>4 DEF Occ, t
<1>5. CASE e # q
  <2>1. Places(t, q) = Places(s, q)
    <3>1. \A k \in 1..(Len(s) + 1) : t[k] = q <=> (k \in 1..Len(s) /\ s[k] = q)
      BY <1>1, <1>2, <1>5
    <3> QED BY <3>1, <1>1 DEF Places
  <2> QED BY <2>1, <1>5, <1>3 DEF Occ, t
<1> QED BY <1>4, <1>5

\* What removing the i-th element leaves.
LEMMA Removing ==
  ASSUME NEW S, NEW s \in Seq(S), NEW i \in 1..Len(s)
  PROVE  /\ RemoveAt(s, i) \in Seq(S)
         /\ Len(RemoveAt(s, i)) = Len(s) - 1
         /\ \A k \in 1..(Len(s) - 1) :
              RemoveAt(s, i)[k] = IF k < i THEN s[k] ELSE s[k + 1]
<1>1. Len(s) \in Nat /\ i \in Nat
  BY LenProperties
<1> DEFINE a == SubSeq(s, 1, i - 1)
           b == SubSeq(s, i + 1, Len(s))
<1>2. a \in Seq(S) /\ Len(a) = i - 1 /\ \A k \in 1..(i - 1) : a[k] = s[k]
  BY <1>1
<1>3. b \in Seq(S) /\ Len(b) = Len(s) - i /\ \A k \in 1..(Len(s) - i) : b[k] = s[i + k]
  BY <1>1
<1> HIDE DEF a, b
<1>4. a \o b \in Seq(S) /\ Len(a \o b) = Len(s) - 1
  <2>1. a \o b \in Seq(S) /\ Len(a \o b) = Len(a) + Len(b)
    BY <1>2, <1>3, ConcatProperties
  <2> QED BY <2>1, <1>1, <1>2, <1>3
<1>5. ASSUME NEW k \in 1..(Len(s) - 1)
      PROVE  (a \o b)[k] = IF k < i THEN s[k] ELSE s[k + 1]
  <2>1. CASE k < i
    BY <2>1, <1>1, <1>2, <1>3
  <2>2. CASE ~ (k < i)
    <3>1. (a \o b)[k] = b[k - (i - 1)]
      BY <2>2, <1>1, <1>2, <1>3
    <3>2. k - (i - 1) \in 1..(Len(s) - i)
      BY <2>2, <1>1
    <3> QED BY <3>1, <3>2, <2>2, <1>1, <1>3
  <2> QED BY <2>1, <2>2
<1>6. RemoveAt(s, i) = a \o b
  BY DEF RemoveAt, a, b
<1> QED BY <1>4, <1>5, <1>6

\* Two sequences with the same elements in the same places are one.
LEMMA SameSequence ==
  ASSUME NEW S, NEW s \in Seq(S), NEW t \in Seq(S), Len(s) = Len(t),
         \A k \in 1..Len(s) : s[k] = t[k]
  PROVE  s = t
BY LenProperties

LEMMA FrontFacts ==
  ASSUME NEW S, NEW s \in Seq(S), s # <<>>
  PROVE  /\ Len(s) \in Nat \ {0}
         /\ Front(s) \in Seq(S) /\ Len(Front(s)) = Len(s) - 1
         /\ \A k \in 1..(Len(s) - 1) : Front(s)[k] = s[k]
         /\ Last(s) \in S /\ Front(s) = RemoveAt(s, Len(s))
<1>1. Len(s) \in Nat \ {0}
  BY EmptySeq
<1>2. \A k \in 1..(Len(s) - 1) : s[k] \in S
  BY <1>1, ElementOfSeq
<1>3. /\ Front(s) \in Seq(S) /\ Len(Front(s)) = Len(s) - 1
      /\ \A k \in 1..(Len(s) - 1) : Front(s)[k] = s[k]
  <2> DEFINE m == Len(s) - 1
  <2>1. m \in Nat
    BY <1>1
  <2> HIDE DEF m
  <2>2. \A k \in 1..m : s[k] \in S
    BY <1>2 DEF m
  <2>3. /\ SubSeq(s, 1, m) \in Seq(S)
        /\ Len(SubSeq(s, 1, m)) = IF 1 <= m THEN m - 1 + 1 ELSE 0
        /\ \A i \in 1..(m - 1 + 1) : SubSeq(s, 1, m)[i] = s[1 + i - 1]
    BY <2>1, <2>2, SubSeqProperties
  <2>4. Len(SubSeq(s, 1, m)) = m /\ \A i \in 1..m : SubSeq(s, 1, m)[i] = s[i]
    BY <2>1, <2>3
  <2> QED BY <2>3, <2>4 DEF m, Front
<1>4. Last(s) \in S
  BY <1>1, ElementOfSeq DEF Last
<1>5. Front(s) = RemoveAt(s, Len(s))
  <2>1. Len(s) \in 1..Len(s)
    BY <1>1
  <2>2. /\ RemoveAt(s, Len(s)) \in Seq(S) /\ Len(RemoveAt(s, Len(s))) = Len(s) - 1
        /\ \A k \in 1..(Len(s) - 1) :
             RemoveAt(s, Len(s))[k] = IF k < Len(s) THEN s[k] ELSE s[k + 1]
    BY <2>1, Removing
  <2>3. \A k \in 1..(Len(s) - 1) : RemoveAt(s, Len(s))[k] = s[k]
    BY <1>1, <2>2
  <2> QED BY <1>3, <2>2, <2>3, SameSequence
<1> QED BY <1>1, <1>3, <1>4, <1>5

\* Removing makes one occurrence less of what is removed.
LEMMA OccRemove ==
  ASSUME NEW K, NEW s \in Seq(K), NEW i \in 1..Len(s), NEW q
  PROVE  Occ(s, q) = Occ(RemoveAt(s, i), q) + (IF s[i] = q THEN 1 ELSE 0)
<1> DEFINE t == RemoveAt(s, i)
           from(k) == IF k < i THEN k ELSE k + 1
           f == [k \in Places(t, q) |-> from(k)]
<1>1. Len(s) \in Nat /\ DOMAIN s = 1..Len(s) /\ i \in Nat
  BY LenProperties
<1>2. /\ t \in Seq(K) /\ DOMAIN t = 1..(Len(s) - 1)
      /\ \A k \in 1..(Len(s) - 1) : t[k] = s[from(k)]
  BY <1>1, Removing, LenProperties
<1>3. IsFiniteSet(Places(t, q)) /\ IsFiniteSet(Places(s, q)) /\ Occ(s, q) \in Nat
      /\ Occ(t, q) \in Nat
  BY <1>2, PlacesFinite
<1> HIDE DEF t
<1>4. f \in Bijection(Places(t, q), Places(s, q) \ {i})
  <2>1. ASSUME NEW k \in Places(t, q) PROVE f[k] \in Places(s, q) \ {i}
    <3>1. k \in 1..(Len(s) - 1) /\ t[k] = q
      BY <1>2 DEF Places
    <3>2. from(k) \in 1..Len(s) /\ from(k) # i /\ s[from(k)] = q
      BY <3>1, <1>1, <1>2
    <3> QED BY <3>2, <1>1 DEF Places
  <2>2. ASSUME NEW j \in Places(s, q) \ {i} PROVE \E k \in Places(t, q) : f[k] = j
    <3>1. j \in 1..Len(s) /\ j # i /\ s[j] = q
      BY <1>1 DEF Places
    <3>2. CASE j < i
      <4>1. j \in 1..(Len(s) - 1) /\ from(j) = j
        BY <3>1, <3>2, <1>1
      <4>2. j \in Places(t, q)
        BY <4>1, <3>1, <1>2 DEF Places
      <4> QED BY <4>1, <4>2
    <3>3. CASE j > i
      <4>1. j - 1 \in 1..(Len(s) - 1) /\ from(j - 1) = j
        BY <3>1, <3>3, <1>1
      <4>2. j - 1 \in Places(t, q)
        BY <4>1, <3>1, <1>2 DEF Places
      <4> QED BY <4>1, <4>2
    <3> QED BY <3>1, <3>2, <3>3, <1>1
  <2>3. ASSUME NEW k \in Places(t, q), NEW m \in Places(t, q), f[k] = f[m] PROVE k = m
    <3>1. k \in Nat /\ m \in Nat /\ from(k) = from(m)
      BY <2>3, <1>1, <1>2 DEF Places
    <3> QED BY <3>1, <1>1
  <2> QED BY <2>1, <2>2, <2>3 DEF Bijection, Injection, Surjection, IsInjective
<1>5. Cardinality(Places(s, q) \ {i}) = Cardinality(Places(t, q))
  BY <1>3, <1>4, FS_Bijection DEF ExistsBijection
<1>6. Cardinality(Places(s, q) \ {i}) =
        IF i \in Places(s, q) THEN Cardinality(Places(s, q)) - 1 ELSE Cardinality(Places(s, q))
  BY <1>3, FS_RemoveElement
<1>7. i \in Places(s, q) <=> s[i] = q
  BY <1>1 DEF Places
<1> QED BY <1>3, <1>5, <1>6, <1>7 DEF Occ, t

-----------------------------------------------------------------------------
(* Sequences with the same elements, in any order *)

Same(u, v) == \A q : Occ(u, q) = Occ(v, q)

LEMMA SameAppend ==
  ASSUME NEW K, NEW u \in Seq(K), NEW v \in Seq(K), NEW e \in K, Same(u, v)
  PROVE  Same(Append(u, e), Append(v, e))
<1> SUFFICES ASSUME NEW q PROVE Occ(Append(u, e), q) = Occ(Append(v, e), q)
  BY DEF Same
<1>1. Occ(u, q) = Occ(v, q)
  BY DEF Same
<1>2. /\ Occ(Append(u, e), q) = Occ(u, q) + (IF e = q THEN 1 ELSE 0)
      /\ Occ(Append(v, e), q) = Occ(v, q) + (IF e = q THEN 1 ELSE 0)
  BY OccAppend
<1> QED BY <1>1, <1>2

LEMMA SameRemove ==
  ASSUME NEW K, NEW u \in Seq(K), NEW v \in Seq(K), Same(u, v),
         NEW i \in 1..Len(u), NEW j \in 1..Len(v), u[i] = v[j]
  PROVE  Same(RemoveAt(u, i), RemoveAt(v, j))
<1> SUFFICES ASSUME NEW q
             PROVE  Occ(RemoveAt(u, i), q) = Occ(RemoveAt(v, j), q)
  BY DEF Same
<1>1. Occ(u, q) = Occ(RemoveAt(u, i), q) + (IF u[i] = q THEN 1 ELSE 0)
  BY OccRemove
<1>2. Occ(v, q) = Occ(RemoveAt(v, j), q) + (IF v[j] = q THEN 1 ELSE 0)
  BY OccRemove
<1>3. Occ(RemoveAt(u, i), q) \in Nat /\ Occ(RemoveAt(v, j), q) \in Nat
  BY Removing, PlacesFinite
<1>4. Occ(u, q) = Occ(v, q)
  BY DEF Same
<1> QED BY <1>1, <1>2, <1>3, <1>4

\* An element that one has the other has.
LEMMA SameFinds ==
  ASSUME NEW K, NEW u \in Seq(K), NEW v \in Seq(K), Same(u, v), NEW j \in 1..Len(v)
  PROVE  \E i \in 1..Len(u) : u[i] = v[j]
<1>1. v[j] \in K /\ DOMAIN u = 1..Len(u) /\ DOMAIN v = 1..Len(v)
  BY ElementOfSeq, LenProperties
<1>2. Occ(u, v[j]) = Occ(v, v[j])
  BY <1>1 DEF Same
<1>3. j \in Places(v, v[j])
  BY <1>1 DEF Places
<1>4. Places(u, v[j]) # {}
  BY <1>2, <1>3, PlacesFinite, FS_EmptySet DEF Occ
<1> QED BY <1>1, <1>4 DEF Places

LEMMA SameEmpty ==
  ASSUME NEW K, NEW u \in Seq(K), NEW v \in Seq(K), Same(u, v), u # <<>>
  PROVE  v # <<>>
<1>1. 1 \in 1..Len(u)
  BY EmptySeq
<1>2. Same(v, u)
  BY DEF Same
<1>3. \E i \in 1..Len(v) : v[i] = u[1]
  BY <1>1, <1>2, SameFinds
<1>4. Len(v) # 0
  BY <1>3
<1> QED BY <1>4

\* 1 CS-ROLL.
Twisted(s) == Append(Append(Front(Front(s)), Last(s)), Last(Front(s)))

\* The order of two elements does not matter.
LEMMA SameTwisted ==
  ASSUME NEW K, NEW s \in Seq(K), Len(s) > 1
  PROVE  Twisted(s) \in Seq(K) /\ Same(Twisted(s), s)
<1> DEFINE s1 == Front(s)
           s2 == Front(s1)
           x == Last(s)
           y == Last(s1)
<1>0. s # <<>>
  BY LenProperties
<1>1. /\ Len(s) \in Nat \ {0} /\ s1 \in Seq(K) /\ Len(s1) = Len(s) - 1
      /\ x \in K /\ s1 = RemoveAt(s, Len(s)) /\ x = s[Len(s)]
  BY <1>0, FrontFacts DEF Last
<1> HIDE DEF s1, x
<1>2. Len(s1) \in Nat \ {0} /\ s1 # <<>>
  BY <1>1
<1>3. s2 \in Seq(K) /\ y \in K /\ s2 = RemoveAt(s1, Len(s1)) /\ y = s1[Len(s1)]
  BY <1>1, <1>2, FrontFacts DEF Last
<1> HIDE DEF s2, y
<1>4. Append(s2, x) \in Seq(K) /\ Append(Append(s2, x), y) \in Seq(K)
  BY <1>1, <1>3, AppendProperties
<1>5. ASSUME NEW q PROVE Occ(Append(Append(s2, x), y), q) = Occ(s, q)
  <2>1. Len(s) \in 1..Len(s) /\ Len(s1) \in 1..Len(s1)
    BY <1>1, <1>2
  <2>2. Occ(s, q) = Occ(s1, q) + (IF x = q THEN 1 ELSE 0)
    BY <2>1, <1>1, OccRemove
  <2>3. Occ(s1, q) = Occ(s2, q) + (IF y = q THEN 1 ELSE 0)
    BY <2>1, <1>1, <1>3, OccRemove
  <2>4. Occ(Append(s2, x), q) = Occ(s2, q) + (IF x = q THEN 1 ELSE 0)
    BY <1>1, <1>3, OccAppend
  <2>5. Occ(Append(Append(s2, x), y), q) = Occ(Append(s2, x), q) + (IF y = q THEN 1 ELSE 0)
    <3> DEFINE s3 == Append(s2, x)
    <3>1. s3 \in Seq(K) /\ y \in K
      BY <1>3, <1>4
    <3> HIDE DEF s3
    <3>2. Occ(Append(s3, y), q) = Occ(s3, q) + (IF y = q THEN 1 ELSE 0)
      BY <3>1, OccAppend
    <3> QED BY <3>2 DEF s3
  <2>6. Occ(s2, q) \in Nat
    BY <1>3, PlacesFinite
  <2> QED BY <2>2, <2>3, <2>4, <2>5, <2>6
<1>6. Twisted(s) = Append(Append(s2, x), y)
  BY DEF Twisted, s1, s2, x, y
<1> QED BY <1>4, <1>5, <1>6 DEF Same

LEMMA SameTwo ==
  ASSUME NEW K, NEW u \in Seq(K), NEW v \in Seq(K), Same(u, v), Len(v) > 1
  PROVE  Len(u) > 1
<1> DEFINE m == Len(v)
<1>1. m \in Nat /\ m > 1 /\ Len(u) \in Nat
  BY LenProperties
<1>2. m \in 1..Len(v)
  BY <1>1
<1>3. PICK i \in 1..Len(u) : u[i] = v[m]
  BY <1>2, SameFinds
<1> DEFINE u1 == RemoveAt(u, i)
           v1 == RemoveAt(v, m)
<1>4. Same(u1, v1)
  BY <1>2, <1>3, SameRemove
<1>5. /\ u1 \in Seq(K) /\ Len(u1) = Len(u) - 1
      /\ v1 \in Seq(K) /\ Len(v1) = m - 1
  BY <1>2, <1>3, Removing
<1> HIDE DEF u1, v1
<1>6. 1 \in 1..Len(v1)
  BY <1>1, <1>5
<1>7. \E k \in 1..Len(u1) : u1[k] = v1[1]
  BY <1>4, <1>5, <1>6, SameFinds
<1>8. Len(u1) # 0
  BY <1>7
<1>9. Len(u1) \in Nat
  BY <1>5, LenProperties
<1> QED BY <1>1, <1>5, <1>8, <1>9

-----------------------------------------------------------------------------
(* The two stacks *)

CtrlKinds == {"IF", "ELSE", "WHILE", "BEGIN", "DO", "CASE", "OF"}
CfKinds == {"orig", "dest", "do-sys", "case-sys", "of-sys"}

\* What an entry of the code stands for.
Standard(kind) ==
  CASE kind \in {"IF", "ELSE", "WHILE"} -> "orig"
    [] kind = "BEGIN" -> "dest"
    [] kind = "DO" -> "do-sys"
    [] kind = "CASE" -> "case-sys"
    [] kind = "OF" -> "of-sys"

LEMMA StandardKinds == \A kind \in CtrlKinds : Standard(kind) \in CfKinds
BY DEF CtrlKinds, CfKinds, Standard

EntryShape(e) == DOMAIN e = {"kind", "index", "leaves"} /\ e.kind \in CtrlKinds
ItemShape(i) == DOMAIN i = {"kind", "at", "places"} /\ i.kind \in CfKinds

Entries(S) == \A e \in S : EntryShape(e)
Things(S) == \A i \in S : ItemShape(i)

\* The kinds of what lies above the first n entries, and of all items.
Above(c, n) == [k \in 1..(Len(c) - n) |-> Standard(c[n + k].kind)]
Kinds(cf) == [k \in 1..Len(cf) |-> cf[k].kind]

\* c is what lay there, l, and above it what cf stands for, in some order.
Kept(c, l, cf) ==
  /\ Len(l) <= Len(c)
  /\ \A k \in 1..Len(l) : c[k] = l[k]
  /\ Same(Above(c, Len(l)), Kinds(cf))

LEMMA AboveFacts ==
  ASSUME NEW S, Entries(S), NEW c \in Seq(S), NEW n \in Nat, n <= Len(c)
  PROVE  /\ Above(c, n) \in Seq(CfKinds)
         /\ Len(Above(c, n)) = Len(c) - n
         /\ \A k \in 1..(Len(c) - n) : Above(c, n)[k] = Standard(c[n + k].kind)
<1>1. Len(c) \in Nat /\ Len(c) - n \in Nat
  BY LenProperties
<1>2. ASSUME NEW k \in 1..(Len(c) - n) PROVE Standard(c[n + k].kind) \in CfKinds
  <2>1. n + k \in 1..Len(c)
    BY <1>1
  <2>2. c[n + k] \in S
    BY <2>1, ElementOfSeq
  <2> QED BY <2>2, StandardKinds DEF Entries, EntryShape
<1> DEFINE m == Len(c) - n
           e(k) == Standard(c[n + k].kind)
<1>3. [k \in 1..m |-> e(k)] \in Seq(CfKinds)
  BY <1>1, <1>2, IsASeq
<1>4. Len([k \in 1..m |-> e(k)]) = m
  BY <1>1
<1> QED BY <1>1, <1>3, <1>4 DEF Above

LEMMA KindsFacts ==
  ASSUME NEW T, Things(T), NEW cf \in Seq(T)
  PROVE  /\ Kinds(cf) \in Seq(CfKinds)
         /\ Len(Kinds(cf)) = Len(cf)
         /\ \A k \in 1..Len(cf) : Kinds(cf)[k] = cf[k].kind
<1>1. Len(cf) \in Nat
  BY LenProperties
<1>2. ASSUME NEW k \in 1..Len(cf) PROVE cf[k].kind \in CfKinds
  <2>1. cf[k] \in T
    BY ElementOfSeq
  <2> QED BY <2>1 DEF Things, ItemShape
<1> DEFINE m == Len(cf)
           e(k) == cf[k].kind
<1>3. [k \in 1..m |-> e(k)] \in Seq(CfKinds)
  BY <1>1, <1>2, IsASeq
<1>4. Len([k \in 1..m |-> e(k)]) = m
  BY <1>1
<1> QED BY <1>1, <1>3, <1>4 DEF Kinds

\* What appending and removing do to the kinds.
LEMMA AboveAppend ==
  ASSUME NEW S, Entries(S), NEW c \in Seq(S), NEW n \in Nat, n <= Len(c), NEW e \in S
  PROVE  Above(Append(c, e), n) = Append(Above(c, n), Standard(e.kind))
<1> DEFINE c1 == Append(c, e)
           b == Above(c, n)
           q == Standard(e.kind)
           a == Append(b, q)
<1>1. Len(c) \in Nat /\ Len(c) + 1 - n = Len(c) - n + 1 /\ Len(c) - n \in Nat
  BY LenProperties
<1>2. /\ c1 \in Seq(S) /\ Len(c1) = Len(c) + 1 /\ c1[Len(c) + 1] = e
      /\ \A k \in 1..Len(c) : c1[k] = c[k]
  BY AppendProperties
<1>3. q \in CfKinds
  BY StandardKinds DEF Entries, EntryShape
<1>4. /\ b \in Seq(CfKinds) /\ Len(b) = Len(c) - n
      /\ \A k \in 1..(Len(c) - n) : b[k] = Standard(c[n + k].kind)
  BY AboveFacts
<1> HIDE DEF c1, b, q
<1>5. /\ Above(c1, n) \in Seq(CfKinds) /\ Len(Above(c1, n)) = Len(c1) - n
      /\ \A k \in 1..(Len(c1) - n) : Above(c1, n)[k] = Standard(c1[n + k].kind)
  <2>1. n <= Len(c1)
    BY <1>1, <1>2
  <2> QED BY <2>1, <1>2, AboveFacts
<1>6. /\ a \in Seq(CfKinds) /\ Len(a) = Len(b) + 1 /\ a[Len(b) + 1] = q
      /\ \A k \in 1..Len(b) : a[k] = b[k]
  BY <1>3, <1>4, AppendProperties
<1> HIDE DEF a
<1>7. ASSUME NEW k \in 1..(Len(c1) - n) PROVE Above(c1, n)[k] = a[k]
  <2>1. CASE k = Len(b) + 1
    <3>1. n + k = Len(c) + 1
      BY <2>1, <1>1, <1>4
    <3> QED BY <2>1, <3>1, <1>2, <1>5, <1>6 DEF q
  <2>2. CASE k # Len(b) + 1
    <3>1. k \in 1..(Len(c) - n) /\ k \in 1..Len(b) /\ n + k \in 1..Len(c)
      BY <2>2, <1>1, <1>2, <1>4
    <3> QED BY <3>1, <1>2, <1>4, <1>5, <1>6
  <2> QED BY <2>1, <2>2
<1>8. Len(Above(c1, n)) = Len(a)
  BY <1>1, <1>2, <1>4, <1>5, <1>6
<1>9. Above(c1, n) = a
  BY <1>5, <1>6, <1>7, <1>8, SameSequence
<1> QED BY <1>9 DEF a, b, c1, q

LEMMA KindsAppend ==
  ASSUME NEW T, Things(T), NEW cf \in Seq(T), NEW i \in T
  PROVE  Kinds(Append(cf, i)) = Append(Kinds(cf), i.kind) /\ i.kind \in CfKinds
<1> DEFINE f1 == Append(cf, i)
           a == Append(Kinds(cf), i.kind)
<1>1. i.kind \in CfKinds
  BY DEF Things, ItemShape
<1>2. /\ f1 \in Seq(T) /\ Len(f1) = Len(cf) + 1 /\ f1[Len(cf) + 1] = i
      /\ \A k \in 1..Len(cf) : f1[k] = cf[k]
  BY AppendProperties
<1>3. /\ Kinds(cf) \in Seq(CfKinds) /\ Len(Kinds(cf)) = Len(cf)
      /\ \A k \in 1..Len(cf) : Kinds(cf)[k] = cf[k].kind
  BY KindsFacts
<1> HIDE DEF f1
<1>4. /\ Kinds(f1) \in Seq(CfKinds) /\ Len(Kinds(f1)) = Len(cf) + 1
      /\ \A k \in 1..(Len(cf) + 1) : Kinds(f1)[k] = f1[k].kind
  BY <1>2, KindsFacts
<1>5. /\ a \in Seq(CfKinds) /\ Len(a) = Len(cf) + 1 /\ a[Len(cf) + 1] = i.kind
      /\ \A k \in 1..Len(cf) : a[k] = Kinds(cf)[k]
  BY <1>1, <1>3, AppendProperties
<1> HIDE DEF a
<1>6. ASSUME NEW k \in 1..(Len(cf) + 1) PROVE Kinds(f1)[k] = a[k]
  <2>1. CASE k = Len(cf) + 1
    BY <2>1, <1>2, <1>4, <1>5
  <2>2. CASE k \in 1..Len(cf)
    BY <2>2, <1>2, <1>3, <1>4, <1>5
  <2> QED BY <2>1, <2>2, LenProperties
<1> QED BY <1>1, <1>4, <1>5, <1>6, SameSequence DEF a, f1

LEMMA AboveRemove ==
  ASSUME NEW S, Entries(S), NEW c \in Seq(S), NEW n \in Nat, n <= Len(c),
         NEW p \in (n + 1)..Len(c)
  PROVE  Above(RemoveAt(c, p), n) = RemoveAt(Above(c, n), p - n)
<1> DEFINE c1 == RemoveAt(c, p)
<1>1. Len(c) \in Nat /\ p \in 1..Len(c) /\ p - n \in 1..(Len(c) - n)
  BY LenProperties
<1>2. /\ c1 \in Seq(S) /\ Len(c1) = Len(c) - 1
      /\ \A k \in 1..(Len(c) - 1) : c1[k] = IF k < p THEN c[k] ELSE c[k + 1]
  BY <1>1, Removing
<1>4. /\ Above(c, n) \in Seq(CfKinds) /\ Len(Above(c, n)) = Len(c) - n
      /\ \A k \in 1..(Len(c) - n) : Above(c, n)[k] = Standard(c[n + k].kind)
  BY <1>1, AboveFacts
<1> HIDE DEF c1
<1>6. Above(c1, n) = RemoveAt(Above(c, n), p - n)
  <2> DEFINE b == Above(c, n)
             a == RemoveAt(b, p - n)
  <2>0. /\ b \in Seq(CfKinds) /\ Len(b) = Len(c) - n
        /\ \A k \in 1..(Len(c) - n) : b[k] = Standard(c[n + k].kind)
    BY <1>4
  <2> HIDE DEF b
  <2>1. /\ a \in Seq(CfKinds) /\ Len(a) = Len(b) - 1
        /\ \A k \in 1..(Len(b) - 1) : a[k] = IF k < p - n THEN b[k] ELSE b[k + 1]
    <3>1. p - n \in 1..Len(b)
      BY <2>0, <1>1
    <3> QED BY <3>1, <2>0, Removing
  <2>2. n <= Len(c1) /\ Len(c1) - n = Len(b) - 1
    BY <1>1, <1>2, <2>0
  <2>3. /\ Above(c1, n) \in Seq(CfKinds) /\ Len(Above(c1, n)) = Len(c1) - n
        /\ \A k \in 1..(Len(c1) - n) : Above(c1, n)[k] = Standard(c1[n + k].kind)
    BY <2>2, <1>1, <1>2, AboveFacts
  <2> HIDE DEF a
  <2>4. ASSUME NEW k \in 1..(Len(c1) - n) PROVE Above(c1, n)[k] = a[k]
    <3>1. n + k \in 1..(Len(c) - 1) /\ k \in 1..(Len(b) - 1)
      BY <1>1, <1>2, <2>2
    <3>2. CASE k < p - n
      <4>1. n + k < p /\ k \in 1..(Len(c) - n)
        <5>1. k \in 1..(Len(c) - n - 1) /\ p \in Nat
          BY <3>1, <2>0, <1>1
        <5> QED BY <5>1, <3>2, <1>1
      <4>2. c1[n + k] = c[n + k] /\ a[k] = b[k]
        BY <4>1, <3>1, <3>2, <1>2, <2>1
      <4> QED BY <4>1, <4>2, <2>0, <2>3
    <3>3. CASE ~ (k < p - n)
      <4>1. ~ (n + k < p) /\ k + 1 \in 1..(Len(c) - n) /\ n + (k + 1) = (n + k) + 1
        <5>1. k \in 1..(Len(c) - n - 1) /\ p \in Nat
          BY <3>1, <2>0, <1>1
        <5> QED BY <5>1, <3>3, <1>1
      <4>2. c1[n + k] = c[(n + k) + 1] /\ a[k] = b[k + 1]
        BY <4>1, <3>1, <3>3, <1>2, <2>1
      <4>3. b[k + 1] = Standard(c[n + (k + 1)].kind)
        BY <4>1, <2>0
      <4> QED BY <4>1, <4>2, <4>3, <2>3
    <3> QED BY <3>2, <3>3
  <2> QED BY <2>1, <2>2, <2>3, <2>4, SameSequence DEF a, b
<1> QED BY <1>6 DEF c1

LEMMA KindsRemove ==
  ASSUME NEW T, Things(T), NEW cf \in Seq(T), cf # <<>>
  PROVE  Kinds(Front(cf)) = RemoveAt(Kinds(cf), Len(cf))
<1> DEFINE m == Len(cf)
           f1 == Front(cf)
<1>1. m \in Nat \ {0}
  BY EmptySeq
<1>3. f1 \in Seq(T) /\ Len(f1) = m - 1 /\ \A k \in 1..(m - 1) : f1[k] = cf[k]
  BY FrontFacts
<1>5. /\ Kinds(cf) \in Seq(CfKinds) /\ Len(Kinds(cf)) = m
      /\ \A k \in 1..m : Kinds(cf)[k] = cf[k].kind
  BY KindsFacts
<1> HIDE DEF f1
<1>7. Kinds(f1) = RemoveAt(Kinds(cf), m)
  <2> DEFINE b == Kinds(cf)
             a == RemoveAt(b, m)
  <2>0. b \in Seq(CfKinds) /\ Len(b) = m /\ \A k \in 1..m : b[k] = cf[k].kind
    BY <1>5
  <2> HIDE DEF b
  <2>1. /\ a \in Seq(CfKinds) /\ Len(a) = m - 1
        /\ \A k \in 1..(m - 1) : a[k] = IF k < m THEN b[k] ELSE b[k + 1]
    <3>1. m \in 1..Len(b)
      BY <2>0, <1>1
    <3> QED BY <3>1, <2>0, Removing
  <2>2. /\ Kinds(f1) \in Seq(CfKinds) /\ Len(Kinds(f1)) = Len(f1)
        /\ \A k \in 1..Len(f1) : Kinds(f1)[k] = f1[k].kind
    BY <1>3, KindsFacts
  <2> HIDE DEF a
  <2>3. ASSUME NEW k \in 1..(m - 1) PROVE Kinds(f1)[k] = a[k]
    <3>1. k < m /\ k \in 1..m
      BY <1>1
    <3> QED BY <3>1, <2>1, <2>2, <1>3, <2>0
  <2> QED BY <2>1, <2>2, <2>3, <1>3, SameSequence DEF a, b
<1> QED BY <1>7 DEF f1

LEMMA AboveFront ==
  ASSUME NEW S, Entries(S), NEW c \in Seq(S), NEW n \in Nat, n < Len(c)
  PROVE  Above(Front(c), n) = Front(Above(c, n)) /\ Last(Above(c, n)) = Standard(Last(c).kind)
<1> DEFINE b == Above(c, n)
           m == Len(c)
<1>0. m \in Nat /\ n < m /\ m = Len(c)
  BY LenProperties
<1> HIDE DEF m
<1>1. /\ m \in (n + 1)..m /\ n <= m /\ m - n \in 1..(m - n)
      /\ n + (m - n) = m /\ m # 0 /\ m - n # 0
  BY <1>0
<1>2. /\ b \in Seq(CfKinds) /\ Len(b) = m - n
      /\ \A k \in 1..(m - n) : b[k] = Standard(c[n + k].kind)
  BY <1>0, <1>1, AboveFacts
<1>3. Above(RemoveAt(c, m), n) = RemoveAt(b, m - n)
  BY <1>0, <1>1, AboveRemove
<1>4. c # <<>>
  BY <1>0, <1>1
<1>5. Front(c) = RemoveAt(c, m)
  BY <1>0, <1>4, FrontFacts
<1> HIDE DEF b
<1>6. b # <<>>
  BY <1>1, <1>2
<1>7. Front(b) = RemoveAt(b, m - n)
  BY <1>2, <1>6, FrontFacts
<1>8. b[m - n] = Standard(c[m].kind)
  <2>2. b[m - n] = Standard(c[n + (m - n)].kind)
    BY <1>1, <1>2
  <2> QED BY <2>2, <1>1
<1> QED BY <1>0, <1>2, <1>3, <1>5, <1>7, <1>8 DEF b, Last

LEMMA KindsFront ==
  ASSUME NEW T, Things(T), NEW cf \in Seq(T), cf # <<>>
  PROVE  Kinds(Front(cf)) = Front(Kinds(cf)) /\ Last(Kinds(cf)) = Last(cf).kind
<1>1. /\ Kinds(cf) \in Seq(CfKinds) /\ Len(Kinds(cf)) = Len(cf)
      /\ \A k \in 1..Len(cf) : Kinds(cf)[k] = cf[k].kind
  BY KindsFacts
<1>2. Len(cf) \in Nat \ {0} /\ Len(cf) \in 1..Len(cf)
  BY EmptySeq
<1>3. Kinds(cf) # <<>>
  BY <1>1, <1>2
<1>4. Front(Kinds(cf)) = RemoveAt(Kinds(cf), Len(cf))
  BY <1>1, <1>3, FrontFacts
<1> QED BY <1>1, <1>2, <1>4, KindsRemove DEF Last

LEMMA AboveTwisted ==
  ASSUME NEW S, Entries(S), NEW c \in Seq(S), NEW n \in Nat, n + 1 < Len(c)
  PROVE  Above(Twisted(c), n) = Twisted(Above(c, n))
<1> DEFINE c1 == Front(c)
           c2 == Front(c1)
           x == Last(c)
           y == Last(c1)
<1>1. Len(c) \in Nat /\ n < Len(c) /\ c # <<>>
  BY LenProperties
<1>2. c1 \in Seq(S) /\ Len(c1) = Len(c) - 1 /\ x \in S
  BY <1>1, FrontFacts
<1>3. Above(c1, n) = Front(Above(c, n)) /\ Last(Above(c, n)) = Standard(x.kind)
  BY <1>1, AboveFront
<1> HIDE DEF c1, x
<1>4. n < Len(c1) /\ Len(c1) \in Nat /\ c1 # <<>>
  BY <1>1, <1>2
<1>5. c2 \in Seq(S) /\ Len(c2) = Len(c1) - 1 /\ y \in S
  BY <1>2, <1>4, FrontFacts
<1>6. Above(c2, n) = Front(Above(c1, n)) /\ Last(Above(c1, n)) = Standard(y.kind)
  BY <1>2, <1>4, AboveFront
<1> HIDE DEF c2, y
<1> DEFINE c3 == Append(c2, x)
<1>7. n <= Len(c2) /\ c3 \in Seq(S) /\ Len(c3) = Len(c2) + 1 /\ Len(c2) \in Nat
  BY <1>2, <1>4, <1>5, AppendProperties, SMTT(30)
<1>8. Above(c3, n) = Append(Above(c2, n), Standard(x.kind))
  BY <1>2, <1>5, <1>7, AboveAppend
<1> HIDE DEF c3
<1>9. n <= Len(c3)
  BY <1>7
<1>10. Above(Append(c3, y), n) = Append(Above(c3, n), Standard(y.kind))
  BY <1>5, <1>7, <1>9, AboveAppend
<1> QED BY <1>3, <1>6, <1>8, <1>10 DEF Twisted, c1, c2, c3, x, y

LEMMA KindsTwisted ==
  ASSUME NEW T, Things(T), NEW cf \in Seq(T), Len(cf) > 1
  PROVE  Kinds(Twisted(cf)) = Twisted(Kinds(cf))
<1> DEFINE f1 == Front(cf)
           f2 == Front(f1)
           x == Last(cf)
           y == Last(f1)
<1>1. Len(cf) \in Nat /\ cf # <<>>
  BY LenProperties
<1>2. f1 \in Seq(T) /\ Len(f1) = Len(cf) - 1 /\ x \in T
  BY <1>1, FrontFacts
<1>3. Kinds(f1) = Front(Kinds(cf)) /\ Last(Kinds(cf)) = x.kind
  BY <1>1, KindsFront
<1> HIDE DEF f1, x
<1>4. f1 # <<>>
  BY <1>1, <1>2
<1>5. f2 \in Seq(T) /\ y \in T
  BY <1>2, <1>4, FrontFacts
<1>6. Kinds(f2) = Front(Kinds(f1)) /\ Last(Kinds(f1)) = y.kind
  BY <1>2, <1>4, KindsFront
<1> HIDE DEF f2, y
<1>7. Append(f2, x) \in Seq(T)
  BY <1>2, <1>5, AppendProperties
<1>8. Kinds(Append(f2, x)) = Append(Kinds(f2), x.kind)
  BY <1>2, <1>5, KindsAppend
<1>9. Kinds(Append(Append(f2, x), y)) = Append(Kinds(Append(f2, x)), y.kind)
  BY <1>5, <1>7, KindsAppend
<1> QED BY <1>3, <1>6, <1>8, <1>9 DEF Twisted, f1, f2, x, y

\* An entry and an item are pushed.
LEMMA KeptPush ==
  ASSUME NEW S, Entries(S), NEW c \in Seq(S), NEW T, Things(T), NEW cf \in Seq(T),
         NEW l, Len(l) \in Nat, Kept(c, l, cf),
         NEW e \in S, NEW i \in T, Standard(e.kind) = i.kind
  PROVE  Kept(Append(c, e), l, Append(cf, i))
<1> DEFINE n == Len(l)
<1>1. Len(c) \in Nat /\ n \in Nat /\ n <= Len(c)
  BY LenProperties DEF Kept
<1>2. /\ Len(Append(c, e)) = Len(c) + 1
      /\ \A k \in 1..Len(c) : Append(c, e)[k] = c[k]
  BY AppendProperties
<1>3. Above(c, n) \in Seq(CfKinds) /\ Kinds(cf) \in Seq(CfKinds)
  BY <1>1, AboveFacts, KindsFacts
<1>4. Above(Append(c, e), n) = Append(Above(c, n), i.kind)
  BY <1>1, AboveAppend
<1>5. Kinds(Append(cf, i)) = Append(Kinds(cf), i.kind) /\ i.kind \in CfKinds
  BY KindsAppend
<1>6. Same(Above(c, n), Kinds(cf)) /\ \A k \in 1..n : c[k] = l[k]
  BY DEF Kept
<1> HIDE DEF n
<1>7. Same(Append(Above(c, n), i.kind), Append(Kinds(cf), i.kind))
  BY <1>3, <1>5, <1>6, SameAppend
<1>8. n <= Len(Append(c, e)) /\ \A k \in 1..n : Append(c, e)[k] = l[k]
  <2>1. \A k \in 1..n : k \in 1..Len(c)
    BY <1>1
  <2> QED BY <2>1, <1>1, <1>2, <1>6
<1> QED BY <1>4, <1>5, <1>7, <1>8 DEF Kept, n

\* An entry is taken out, wherever it lies above the others, and the last item.
LEMMA KeptRemove ==
  ASSUME NEW S, Entries(S), NEW c \in Seq(S), NEW T, Things(T), NEW cf \in Seq(T),
         NEW l, Len(l) \in Nat, Kept(c, l, cf), cf # <<>>,
         NEW p \in (Len(l) + 1)..Len(c), Standard(c[p].kind) = Last(cf).kind
  PROVE  Kept(RemoveAt(c, p), l, Front(cf))
<1> DEFINE n == Len(l)
           m == Len(cf)
           b == Above(c, n)
<1>1. /\ Len(c) \in Nat /\ n \in Nat /\ n <= Len(c) /\ m \in Nat \ {0}
      /\ p \in 1..Len(c) /\ p - n \in 1..(Len(c) - n)
  BY LenProperties, EmptySeq DEF Kept
<1>2. /\ Len(RemoveAt(c, p)) = Len(c) - 1
      /\ \A k \in 1..(Len(c) - 1) : RemoveAt(c, p)[k] = IF k < p THEN c[k] ELSE c[k + 1]
  BY <1>1, Removing
<1>3. /\ b \in Seq(CfKinds) /\ Len(b) = Len(c) - n
      /\ \A k \in 1..(Len(c) - n) : b[k] = Standard(c[n + k].kind)
  BY <1>1, AboveFacts
<1>4. /\ Kinds(cf) \in Seq(CfKinds) /\ Len(Kinds(cf)) = m
      /\ \A k \in 1..m : Kinds(cf)[k] = cf[k].kind
  BY KindsFacts
<1>5. Above(RemoveAt(c, p), n) = RemoveAt(b, p - n)
  BY <1>1, AboveRemove
<1>6. Kinds(Front(cf)) = RemoveAt(Kinds(cf), m)
  BY KindsRemove
<1>7. Same(b, Kinds(cf)) /\ \A k \in 1..n : c[k] = l[k]
  BY DEF Kept
<1>8. Last(cf) = cf[m]
  BY DEF Last
<1> HIDE DEF n, m, b
<1>9. Same(RemoveAt(b, p - n), RemoveAt(Kinds(cf), m))
  <2>1. p - n \in 1..Len(b) /\ m \in 1..Len(Kinds(cf)) /\ n + (p - n) = p
    BY <1>1, <1>3, <1>4
  <2>2. b[p - n] = Kinds(cf)[m]
    BY <2>1, <1>1, <1>3, <1>4, <1>8
  <2> QED BY <2>1, <2>2, <1>3, <1>4, <1>7, SameRemove
<1>10. n <= Len(RemoveAt(c, p)) /\ \A k \in 1..n : RemoveAt(c, p)[k] = l[k]
  <2>1. p \in (n + 1)..Len(c)
    BY DEF n
  <2>2. \A k \in 1..n : k \in 1..(Len(c) - 1) /\ k < p
    BY <2>1, <1>1
  <2> QED BY <2>1, <2>2, <1>1, <1>2, <1>7
<1> QED BY <1>5, <1>6, <1>9, <1>10 DEF Kept, n, b, m

\* An item has an entry, above what lay there.
LEMMA KeptFinds ==
  ASSUME NEW S, Entries(S), NEW c \in Seq(S), NEW T, Things(T), NEW cf \in Seq(T),
         NEW l, Len(l) \in Nat, Kept(c, l, cf), NEW j \in 1..Len(cf)
  PROVE  \E p \in (Len(l) + 1)..Len(c) : Standard(c[p].kind) = cf[j].kind
<1> DEFINE n == Len(l)
<1>1. Len(c) \in Nat /\ n \in Nat /\ n <= Len(c)
  BY LenProperties DEF Kept
<1>2. /\ Above(c, n) \in Seq(CfKinds) /\ Len(Above(c, n)) = Len(c) - n
      /\ \A k \in 1..(Len(c) - n) : Above(c, n)[k] = Standard(c[n + k].kind)
  BY <1>1, AboveFacts
<1>3. /\ Kinds(cf) \in Seq(CfKinds) /\ Len(Kinds(cf)) = Len(cf)
      /\ \A k \in 1..Len(cf) : Kinds(cf)[k] = cf[k].kind
  BY KindsFacts
<1>4. Same(Above(c, n), Kinds(cf))
  BY DEF Kept
<1> HIDE DEF n
<1>5. PICK i \in 1..Len(Above(c, n)) : Above(c, n)[i] = Kinds(cf)[j]
  BY <1>2, <1>3, <1>4, SameFinds
<1>6. n + i \in (n + 1)..Len(c) /\ Standard(c[n + i].kind) = cf[j].kind
  BY <1>1, <1>2, <1>3, <1>5
<1> QED BY <1>6 DEF n

\* Entries above and items are equally many.
LEMMA KeptEmpty ==
  ASSUME NEW S, Entries(S), NEW c \in Seq(S), NEW T, Things(T), NEW cf \in Seq(T),
         NEW l, Len(l) \in Nat, Kept(c, l, cf), Len(c) > Len(l)
  PROVE  cf # <<>>
<1> DEFINE n == Len(l)
<1>1. Len(c) \in Nat /\ n \in Nat /\ n <= Len(c)
  BY LenProperties DEF Kept
<1>2. /\ Above(c, n) \in Seq(CfKinds) /\ Len(Above(c, n)) = Len(c) - n
  BY <1>1, AboveFacts
<1>3. Kinds(cf) \in Seq(CfKinds) /\ Len(Kinds(cf)) = Len(cf)
  BY KindsFacts
<1>4. Same(Above(c, n), Kinds(cf))
  BY DEF Kept
<1>5. Above(c, n) # <<>>
  BY <1>1, <1>2
<1>6. Kinds(cf) # <<>>
  BY <1>2, <1>3, <1>4, <1>5, SameEmpty
<1> QED BY <1>3, <1>6, EmptySeq

\* Leaves and places may change, kinds may not.
LEMMA KeptKinds ==
  ASSUME NEW c, NEW d, NEW cf, NEW df, NEW l, Len(l) \in Nat, Len(c) \in Nat, Len(cf) \in Nat,
         Kept(c, l, cf),
         Len(d) = Len(c), \A k \in 1..Len(l) : d[k] = c[k],
         \A k \in 1..Len(c) : d[k].kind = c[k].kind,
         Len(df) = Len(cf), \A k \in 1..Len(cf) : df[k].kind = cf[k].kind
  PROVE  Kept(d, l, df)
<1>1. Kinds(df) = Kinds(cf)
  BY DEF Kinds
<1>2. Above(d, Len(l)) = Above(c, Len(l))
  <2>1. \A k \in 1..(Len(c) - Len(l)) : Len(l) + k \in 1..Len(c)
    OBVIOUS
  <2> QED BY <2>1 DEF Above
<1>3. /\ Len(l) <= Len(c)
      /\ \A k \in 1..Len(l) : c[k] = l[k]
      /\ Same(Above(c, Len(l)), Kinds(cf))
  BY DEF Kept
<1> QED BY <1>1, <1>2, <1>3 DEF Kept

LEMMA TwistedFacts ==
  ASSUME NEW S, NEW s \in Seq(S), Len(s) > 1
  PROVE  /\ Twisted(s) \in Seq(S) /\ Len(Twisted(s)) = Len(s)
         /\ \A k \in 1..(Len(s) - 2) : Twisted(s)[k] = s[k]
<1> DEFINE s1 == Front(s)
           s2 == Front(s1)
           x == Last(s)
           y == Last(s1)
           s3 == Append(s2, x)
<1>0. s # <<>> /\ Len(s) \in Nat
  BY LenProperties
<1>1. s1 \in Seq(S) /\ Len(s1) = Len(s) - 1 /\ x \in S /\ \A k \in 1..(Len(s) - 1) : s1[k] = s[k]
  BY <1>0, FrontFacts
<1> HIDE DEF s1, x
<1>2. s1 # <<>>
  BY <1>0, <1>1
<1>3. /\ s2 \in Seq(S) /\ Len(s2) = Len(s1) - 1 /\ y \in S
      /\ \A k \in 1..(Len(s1) - 1) : s2[k] = s1[k]
  BY <1>1, <1>2, FrontFacts
<1> HIDE DEF s2, y
<1>4. s3 \in Seq(S) /\ Len(s3) = Len(s2) + 1 /\ \A k \in 1..Len(s2) : s3[k] = s2[k]
  BY <1>1, <1>3, AppendProperties
<1> HIDE DEF s3
<1>5. /\ Append(s3, y) \in Seq(S) /\ Len(Append(s3, y)) = Len(s3) + 1
      /\ \A k \in 1..Len(s3) : Append(s3, y)[k] = s3[k]
  BY <1>3, <1>4, AppendProperties
<1>6. Twisted(s) = Append(s3, y)
  BY DEF Twisted, s1, s2, s3, x, y
<1>7. ASSUME NEW k \in 1..(Len(s) - 2) PROVE Append(s3, y)[k] = s[k]
  <2>1. k \in 1..Len(s3) /\ k \in 1..Len(s2) /\ k \in 1..(Len(s1) - 1) /\ k \in 1..(Len(s) - 1)
    BY <1>0, <1>1, <1>3, <1>4
  <2> QED BY <2>1, <1>1, <1>3, <1>4, <1>5
<1> QED BY <1>0, <1>1, <1>3, <1>4, <1>5, <1>6, <1>7

\* 1 CS-ROLL on both stacks, whatever lies on top of each.
LEMMA KeptTwisted ==
  ASSUME NEW S, Entries(S), NEW c \in Seq(S), NEW T, Things(T), NEW cf \in Seq(T),
         NEW l, Len(l) \in Nat, Kept(c, l, cf), Len(cf) > 1
  PROVE  Len(c) > Len(l) + 1 /\ Kept(Twisted(c), l, Twisted(cf))
<1> DEFINE n == Len(l)
           b == Above(c, n)
           f == Kinds(cf)
<1>1. Len(c) \in Nat /\ n \in Nat /\ n <= Len(c)
  BY LenProperties DEF Kept
<1>2. b \in Seq(CfKinds) /\ Len(b) = Len(c) - n
  BY <1>1, AboveFacts
<1>3. f \in Seq(CfKinds) /\ Len(f) = Len(cf)
  BY KindsFacts
<1>4. Same(b, f) /\ \A k \in 1..n : c[k] = l[k]
  BY DEF Kept
<1>5. Kinds(Twisted(cf)) = Twisted(f)
  BY KindsTwisted
<1> HIDE DEF f
<1>6. Len(b) > 1
  BY <1>2, <1>3, <1>4, SameTwo
<1>7. Len(c) > n + 1
  BY <1>1, <1>2, <1>6
<1>8. Above(Twisted(c), n) = Twisted(b)
  BY <1>1, <1>7, AboveTwisted
<1> HIDE DEF b
<1>9. Same(Twisted(b), b) /\ Same(Twisted(f), f)
  BY <1>2, <1>3, <1>6, SameTwisted
<1>10. Same(Twisted(b), Twisted(f))
  BY <1>4, <1>9 DEF Same
<1> HIDE DEF n
<1>11. /\ Len(Twisted(c)) = Len(c)
       /\ \A k \in 1..(Len(c) - 2) : Twisted(c)[k] = c[k]
  <2>1. Len(c) > 1
    BY <1>1, <1>7
  <2> QED BY <2>1, TwistedFacts
<1>12. n <= Len(Twisted(c)) /\ \A k \in 1..n : Twisted(c)[k] = l[k]
  <2>1. \A k \in 1..n : k \in 1..(Len(c) - 2)
    BY <1>1, <1>7
  <2> QED BY <2>1, <1>1, <1>4, <1>11
<1> QED BY <1>5, <1>7, <1>8, <1>10, <1>12 DEF Kept, n

-----------------------------------------------------------------------------
(* Well-formed stacks, without their sets *)

IsCtrl(c) == \E S : c \in Seq(S) /\ Entries(S)
IsItems(cf) == \E T : cf \in Seq(T) /\ Things(T)

LEMMA SeqWider ==
  ASSUME NEW S, NEW s \in Seq(S), NEW e
  PROVE  s \in Seq(S \cup {e})
<1>1. Len(s) \in Nat /\ DOMAIN s = 1..Len(s) /\ \A k \in 1..Len(s) : s[k] \in S
  BY LenProperties, ElementOfSeq
<1>2. s = [k \in 1..Len(s) |-> s[k]]
  BY LenProperties
<1> DEFINE m == Len(s)
           g(k) == s[k]
<1>3. [k \in 1..m |-> g(k)] \in Seq(S \cup {e})
  <2>1. m \in Nat /\ \A k \in 1..m : g(k) \in S \cup {e}
    BY <1>1
  <2> QED BY <2>1, IsASeq
<1> QED BY <1>2, <1>3

LEMMA SeqReplaced ==
  ASSUME NEW S, NEW s \in Seq(S), NEW i \in DOMAIN s, NEW e
  PROVE  /\ [s EXCEPT ![i] = e] \in Seq(S \cup {e})
         /\ Len([s EXCEPT ![i] = e]) = Len(s)
         /\ \A k \in 1..Len(s) : [s EXCEPT ![i] = e][k] = IF k = i THEN e ELSE s[k]
<1>1. s \in Seq(S \cup {e}) /\ DOMAIN s = 1..Len(s)
  BY SeqWider, LenProperties
<1>2. [s EXCEPT ![i] = e] \in Seq(S \cup {e})
  BY <1>1, ExceptSeq
<1> QED BY <1>1, <1>2, LenProperties, ExceptSeq

LEMMA CtrlFacts ==
  ASSUME NEW c, IsCtrl(c)
  PROVE  /\ Len(c) \in Nat /\ DOMAIN c = 1..Len(c)
         /\ c # <<>> <=> Len(c) > 0
         /\ \A k \in 1..Len(c) : EntryShape(c[k])
<1>1. PICK S : c \in Seq(S) /\ Entries(S)
  BY DEF IsCtrl
<1>2. \A k \in 1..Len(c) : c[k] \in S
  BY <1>1, ElementOfSeq
<1>3. c # <<>> <=> Len(c) > 0
  BY <1>1
<1> QED BY <1>1, <1>2, <1>3, LenProperties DEF Entries

LEMMA ItemsFacts ==
  ASSUME NEW c, IsItems(c)
  PROVE  /\ Len(c) \in Nat /\ DOMAIN c = 1..Len(c)
         /\ c # <<>> <=> Len(c) > 0
         /\ \A k \in 1..Len(c) : ItemShape(c[k])
<1>1. PICK S : c \in Seq(S) /\ Things(S)
  BY DEF IsItems
<1>2. \A k \in 1..Len(c) : c[k] \in S
  BY <1>1, ElementOfSeq
<1>3. c # <<>> <=> Len(c) > 0
  BY <1>1
<1> QED BY <1>1, <1>2, <1>3, LenProperties DEF Things

LEMMA CtrlAppend ==
  ASSUME NEW c, IsCtrl(c), NEW e, EntryShape(e)
  PROVE  IsCtrl(Append(c, e))
<1>1. PICK S : c \in Seq(S) /\ Entries(S)
  BY DEF IsCtrl
<1>2. c \in Seq(S \cup {e}) /\ e \in S \cup {e}
  BY <1>1, SeqWider
<1>3. Append(c, e) \in Seq(S \cup {e})
  BY <1>2, AppendProperties
<1>4. Entries(S \cup {e})
  BY <1>1 DEF Entries
<1> QED BY <1>3, <1>4 DEF IsCtrl

LEMMA ItemsAppend ==
  ASSUME NEW c, IsItems(c), NEW e, ItemShape(e)
  PROVE  IsItems(Append(c, e))
<1>1. PICK S : c \in Seq(S) /\ Things(S)
  BY DEF IsItems
<1>2. c \in Seq(S \cup {e}) /\ e \in S \cup {e}
  BY <1>1, SeqWider
<1>3. Append(c, e) \in Seq(S \cup {e})
  BY <1>2, AppendProperties
<1>4. Things(S \cup {e})
  BY <1>1 DEF Things
<1> QED BY <1>3, <1>4 DEF IsItems

LEMMA CtrlReplace ==
  ASSUME NEW c, IsCtrl(c), NEW i \in DOMAIN c, NEW e, EntryShape(e)
  PROVE  /\ IsCtrl([c EXCEPT ![i] = e]) /\ Len([c EXCEPT ![i] = e]) = Len(c)
         /\ \A k \in 1..Len(c) : [c EXCEPT ![i] = e][k] = IF k = i THEN e ELSE c[k]
<1>1. PICK S : c \in Seq(S) /\ Entries(S)
  BY DEF IsCtrl
<1>2. Entries(S \cup {e})
  BY <1>1 DEF Entries
<1>3. /\ [c EXCEPT ![i] = e] \in Seq(S \cup {e})
      /\ Len([c EXCEPT ![i] = e]) = Len(c)
      /\ \A k \in 1..Len(c) : [c EXCEPT ![i] = e][k] = IF k = i THEN e ELSE c[k]
  BY <1>1, SeqReplaced
<1> QED BY <1>2, <1>3 DEF IsCtrl

LEMMA ItemsReplace ==
  ASSUME NEW c, IsItems(c), NEW i \in DOMAIN c, NEW e, ItemShape(e)
  PROVE  /\ IsItems([c EXCEPT ![i] = e]) /\ Len([c EXCEPT ![i] = e]) = Len(c)
         /\ \A k \in 1..Len(c) : [c EXCEPT ![i] = e][k] = IF k = i THEN e ELSE c[k]
<1>1. PICK S : c \in Seq(S) /\ Things(S)
  BY DEF IsItems
<1>2. Things(S \cup {e})
  BY <1>1 DEF Things
<1>3. /\ [c EXCEPT ![i] = e] \in Seq(S \cup {e})
      /\ Len([c EXCEPT ![i] = e]) = Len(c)
      /\ \A k \in 1..Len(c) : [c EXCEPT ![i] = e][k] = IF k = i THEN e ELSE c[k]
  BY <1>1, SeqReplaced
<1> QED BY <1>2, <1>3 DEF IsItems

LEMMA CtrlRemove ==
  ASSUME NEW c, IsCtrl(c), NEW i \in 1..Len(c)
  PROVE  IsCtrl(RemoveAt(c, i)) /\ Len(RemoveAt(c, i)) = Len(c) - 1
<1>1. PICK S : c \in Seq(S) /\ Entries(S)
  BY DEF IsCtrl
<1> QED BY <1>1, Removing DEF IsCtrl

LEMMA CtrlFront ==
  ASSUME NEW c, IsCtrl(c), c # <<>>
  PROVE  /\ IsCtrl(Front(c)) /\ Len(Front(c)) = Len(c) - 1 /\ EntryShape(Last(c))
         /\ Front(c) = RemoveAt(c, Len(c)) /\ Len(c) \in Nat \ {0}
         /\ \A k \in 1..(Len(c) - 1) : Front(c)[k] = c[k]
<1>1. PICK S : c \in Seq(S) /\ Entries(S)
  BY DEF IsCtrl
<1> QED BY <1>1, FrontFacts DEF IsCtrl, Entries

LEMMA ItemsFront ==
  ASSUME NEW c, IsItems(c), c # <<>>
  PROVE  /\ IsItems(Front(c)) /\ Len(Front(c)) = Len(c) - 1 /\ ItemShape(Last(c))
         /\ \A k \in 1..(Len(c) - 1) : Front(c)[k] = c[k]
<1>1. PICK S : c \in Seq(S) /\ Things(S)
  BY DEF IsItems
<1> QED BY <1>1, FrontFacts DEF IsItems, Things

-----------------------------------------------------------------------------
(* The reference meaning *)

RefShape(r) == DOMAIN r = {"text", "cf", "ok"} /\ IsItems(r.cf)

LEMMA ItemIsShaped ==
  ASSUME NEW kind \in CfKinds, NEW at, NEW places
  PROVE  ItemShape(Item(kind, at, places)) /\ Item(kind, at, places).kind = kind
BY DEF ItemShape, Item

LEMMA SaysRef ==
  ASSUME NEW r, RefShape(r), NEW op, NEW arg
  PROVE  /\ RefShape(Says(r, op, arg))
         /\ Says(r, op, arg).cf = r.cf /\ Says(r, op, arg).ok = r.ok
BY DEF RefShape, Says

LEMMA ResolvesRef ==
  ASSUME NEW r, RefShape(r), NEW places
  PROVE  /\ RefShape(Resolves(r, places))
         /\ Resolves(r, places).cf = r.cf /\ Resolves(r, places).ok = r.ok
BY DEF RefShape, Resolves

LEMMA WrongRef ==
  ASSUME NEW r, RefShape(r)
  PROVE  RefShape(Wrong(r)) /\ Wrong(r).ok = FALSE
BY DEF RefShape, Wrong

LEMMA HoldsRef ==
  ASSUME NEW r, RefShape(r), NEW item, ItemShape(item)
  PROVE  /\ RefShape(Holds(r, item))
         /\ Holds(r, item).cf = Append(r.cf, item) /\ Holds(r, item).ok = r.ok
<1>1. IsItems(Append(r.cf, item))
  BY ItemsAppend DEF RefShape
<1> QED BY <1>1 DEF RefShape, Holds

LEMMA DropsRef ==
  ASSUME NEW r, RefShape(r), r.cf # <<>>
  PROVE  RefShape(Drops(r)) /\ Drops(r).cf = Front(r.cf) /\ Drops(r).ok = r.ok
<1>1. IsItems(Front(r.cf))
  BY ItemsFront DEF RefShape
<1> QED BY <1>1 DEF RefShape, Drops

LEMMA HasRef ==
  ASSUME NEW r, RefShape(r), NEW kind, Has(r, kind)
  PROVE  r.cf # <<>> /\ Last(r.cf).kind = kind
BY DEF Has

LEMMA ForwardRef ==
  ASSUME NEW r, RefShape(r), NEW op
  PROVE  /\ RefShape(Forward(r, op)) /\ Forward(r, op).ok = r.ok
         /\ Forward(r, op).cf = Append(r.cf, Item("orig", Len(r.text), {}))
<1> DEFINE i == Item("orig", Len(r.text), {})
<1>1. ItemShape(i)
  BY ItemIsShaped DEF CfKinds
<1> HIDE DEF i
<1>2. RefShape(Holds(r, i)) /\ Holds(r, i).cf = Append(r.cf, i) /\ Holds(r, i).ok = r.ok
  BY <1>1, HoldsRef
<1> DEFINE h == Holds(r, i)
<1> HIDE DEF h
<1>3. RefShape(Says(h, op, 0)) /\ Says(h, op, 0).cf = h.cf /\ Says(h, op, 0).ok = h.ok
  BY <1>2, SaysRef DEF h
<1> QED BY <1>2, <1>3 DEF Forward, h, i

\* r says it is well, then cf is its stack without the top, which was of a kind.
Dropped(r, s, kind) ==
  /\ RefShape(s)
  /\ s.ok => /\ r.ok /\ r.cf # <<>> /\ Last(r.cf).kind = kind
             /\ s.cf = Front(r.cf)

LEMMA LandsRef ==
  ASSUME NEW r, RefShape(r)
  PROVE  Dropped(r, Lands(r), "orig")
<1>1. CASE Has(r, "orig")
  <2>1. r.cf # <<>> /\ Last(r.cf).kind = "orig"
    BY <1>1 DEF Has
  <2> DEFINE d == Drops(r)
             p == {Last(r.cf).at}
  <2>2. RefShape(d) /\ d.cf = Front(r.cf) /\ d.ok = r.ok
    BY <2>1, DropsRef
  <2>3. Lands(r) = Resolves(d, p)
    BY <1>1 DEF Lands
  <2> HIDE DEF d, p
  <2>4. RefShape(Resolves(d, p)) /\ Resolves(d, p).cf = d.cf /\ Resolves(d, p).ok = d.ok
    BY <2>2, ResolvesRef
  <2> QED BY <2>1, <2>2, <2>3, <2>4 DEF Dropped
<1>2. CASE ~ Has(r, "orig")
  BY <1>2, WrongRef DEF Lands, Dropped
<1> QED BY <1>1, <1>2

LEMMA BackRef ==
  ASSUME NEW r, RefShape(r), NEW op
  PROVE  Dropped(r, Back(r, op), "dest")
<1>1. CASE Has(r, "dest")
  <2>1. r.cf # <<>> /\ Last(r.cf).kind = "dest"
    BY <1>1 DEF Has
  <2> DEFINE d == Drops(r)
             p == Last(r.cf).at
  <2>2. RefShape(d) /\ d.cf = Front(r.cf) /\ d.ok = r.ok
    BY <2>1, DropsRef
  <2>3. Back(r, op) = Says(d, op, p)
    BY <1>1 DEF Back
  <2> HIDE DEF d, p
  <2>4. RefShape(Says(d, op, p)) /\ Says(d, op, p).cf = d.cf /\ Says(d, op, p).ok = d.ok
    BY <2>2, SaysRef
  <2> QED BY <2>1, <2>2, <2>3, <2>4 DEF Dropped
<1>2. CASE ~ Has(r, "dest")
  BY <1>2, WrongRef DEF Back, Dropped
<1> QED BY <1>1, <1>2

LEMMA LoopsRef ==
  ASSUME NEW r, RefShape(r), NEW op
  PROVE  Dropped(r, Loops(r, op), "do-sys")
<1>1. CASE Has(r, "do-sys")
  <2>1. r.cf # <<>> /\ Last(r.cf).kind = "do-sys"
    BY <1>1 DEF Has
  <2> DEFINE d == Drops(r)
             e == Says(d, op, Last(r.cf).at)
             p == Last(r.cf).places
  <2>2. RefShape(d) /\ d.cf = Front(r.cf) /\ d.ok = r.ok
    BY <2>1, DropsRef
  <2>3. Loops(r, op) = Resolves(e, p)
    BY <1>1 DEF Loops
  <2> HIDE DEF d
  <2>4. RefShape(e) /\ e.cf = d.cf /\ e.ok = d.ok
    BY <2>2, SaysRef
  <2> HIDE DEF e, p
  <2>5. RefShape(Resolves(e, p)) /\ Resolves(e, p).cf = e.cf /\ Resolves(e, p).ok = e.ok
    BY <2>4, ResolvesRef
  <2> QED BY <2>1, <2>2, <2>3, <2>4, <2>5 DEF Dropped
<1>2. CASE ~ Has(r, "do-sys")
  BY <1>2, WrongRef DEF Loops, Dropped
<1> QED BY <1>1, <1>2

LEMMA CaseEndsRef ==
  ASSUME NEW r, RefShape(r)
  PROVE  Dropped(r, CaseEnds(r), "case-sys")
<1>1. CASE Has(r, "case-sys")
  <2>1. r.cf # <<>> /\ Last(r.cf).kind = "case-sys"
    BY <1>1 DEF Has
  <2> DEFINE d == Drops(r)
             e == Says(d, "DROP", 0)
             p == Last(r.cf).places
  <2>2. RefShape(d) /\ d.cf = Front(r.cf) /\ d.ok = r.ok
    BY <2>1, DropsRef
  <2>3. CaseEnds(r) = Resolves(e, p)
    BY <1>1 DEF CaseEnds
  <2> HIDE DEF d
  <2>4. RefShape(e) /\ e.cf = d.cf /\ e.ok = d.ok
    BY <2>2, SaysRef
  <2> HIDE DEF e, p
  <2>5. RefShape(Resolves(e, p)) /\ Resolves(e, p).cf = e.cf /\ Resolves(e, p).ok = e.ok
    BY <2>4, ResolvesRef
  <2> QED BY <2>1, <2>2, <2>3, <2>4, <2>5 DEF Dropped
<1>2. CASE ~ Has(r, "case-sys")
  BY <1>2, WrongRef DEF CaseEnds, Dropped
<1> QED BY <1>1, <1>2

LEMMA RollsRef ==
  ASSUME NEW r, RefShape(r)
  PROVE  /\ RefShape(Rolls(r))
         /\ Rolls(r).ok => r.ok /\ Len(r.cf) > 1 /\ Rolls(r).cf = Twisted(r.cf)
<1> DEFINE good == /\ Len(r.cf) > 1
                   /\ {Last(r.cf).kind, Last(Front(r.cf)).kind} \subseteq {"orig", "dest"}
<1>1. CASE good
  <2> DEFINE d == Drops(r)
             e == Drops(d)
             x == Last(r.cf)
             y == Last(Front(r.cf))
             f == Holds(e, x)
  <2>0. Len(r.cf) > 1 /\ IsItems(r.cf) /\ Len(r.cf) \in Nat
    BY <1>1, ItemsFacts DEF RefShape
  <2>1. r.cf # <<>>
    BY <2>0, ItemsFacts
  <2>2. RefShape(d) /\ d.cf = Front(r.cf) /\ d.ok = r.ok
    BY <2>1, DropsRef
  <2>3. IsItems(Front(r.cf)) /\ Len(Front(r.cf)) = Len(r.cf) - 1 /\ ItemShape(x)
    BY <2>0, <2>1, ItemsFront
  <2>4. Front(r.cf) # <<>>
    BY <2>0, <2>3, ItemsFacts
  <2>5. ItemShape(y)
    BY <2>3, <2>4, ItemsFront
  <2>6. Rolls(r) = Holds(f, y)
    BY <1>1 DEF Rolls
  <2> HIDE DEF d, x, y
  <2>7. RefShape(e) /\ e.cf = Front(d.cf) /\ e.ok = d.ok
    BY <2>2, <2>4, DropsRef
  <2> HIDE DEF e
  <2>8. RefShape(f) /\ f.cf = Append(e.cf, x) /\ f.ok = e.ok
    BY <2>3, <2>7, HoldsRef
  <2> HIDE DEF f
  <2>9. RefShape(Holds(f, y)) /\ Holds(f, y).cf = Append(f.cf, y) /\ Holds(f, y).ok = f.ok
    BY <2>5, <2>8, HoldsRef
  <2> QED BY <2>0, <2>2, <2>6, <2>7, <2>8, <2>9 DEF Twisted, x, y
<1>2. CASE ~ good
  BY <1>2, WrongRef DEF Rolls
<1> QED BY <1>1, <1>2

\* The do-sys that LEAVE adds a place to stays what it is.
LEMMA LeavesRef ==
  ASSUME NEW r, RefShape(r), NEW dos, dos = {k \in DOMAIN r.cf : r.cf[k].kind = "do-sys"},
         Max(dos) \in dos \/ dos = {}
  PROVE  /\ RefShape(Leaves(r))
         /\ Leaves(r).ok =>
              /\ r.ok /\ dos # {}
              /\ Len(Leaves(r).cf) = Len(r.cf)
              /\ \A k \in 1..Len(r.cf) : Leaves(r).cf[k].kind = r.cf[k].kind
<1>0. IsItems(r.cf) /\ Len(r.cf) \in Nat /\ DOMAIN r.cf = 1..Len(r.cf)
      /\ \A k \in 1..Len(r.cf) : ItemShape(r.cf[k])
  BY ItemsFacts DEF RefShape
<1>1. CASE dos # {}
  <2> DEFINE m == Max(dos)
             p == Len(r.text)
             e == [r.cf[m] EXCEPT !.places = @ \cup {p}]
             s == [r EXCEPT !.cf[m].places = @ \cup {p}]
             f == [r.cf EXCEPT ![m] = e]
  <2>1. m \in DOMAIN r.cf
    BY <1>1
  <2>2. Leaves(r) = Says(s, "LEAVE", 0)
    BY <1>1 DEF Leaves
  <2> HIDE DEF m, p
  <2>3. ItemShape(e) /\ e.kind = r.cf[m].kind
    BY <2>1, <1>0 DEF ItemShape
  <2>4. DOMAIN s = {"text", "cf", "ok"} /\ s.cf = f /\ s.ok = r.ok
    BY DEF RefShape
  <2> HIDE DEF e, s
  <2>5. /\ IsItems(f) /\ Len(f) = Len(r.cf)
        /\ \A k \in 1..Len(r.cf) : f[k] = IF k = m THEN e ELSE r.cf[k]
    BY <1>0, <2>1, <2>3, ItemsReplace
  <2> HIDE DEF f
  <2>6. RefShape(s)
    BY <2>4, <2>5 DEF RefShape
  <2>7. /\ RefShape(Says(s, "LEAVE", 0))
        /\ Says(s, "LEAVE", 0).cf = s.cf /\ Says(s, "LEAVE", 0).ok = s.ok
    BY <2>6, SaysRef
  <2>8. \A k \in 1..Len(r.cf) : f[k].kind = r.cf[k].kind
    BY <2>3, <2>5
  <2> QED BY <1>1, <2>2, <2>4, <2>5, <2>7, <2>8
<1>2. CASE dos = {}
  BY <1>2, WrongRef DEF Leaves
<1> QED BY <1>1, <1>2

LEMMA ClauseRef ==
  ASSUME NEW r, RefShape(r)
  PROVE  /\ RefShape(Clause(r)) /\ Clause(r).ok = r.ok
         /\ \E i : ItemShape(i) /\ i.kind = "of-sys" /\ Clause(r).cf = Append(r.cf, i)
<1> DEFINE a == Says(r, "OVER", 0)
           b == Says(a, "=", 0)
           i == Item("of-sys", Len(b.text), {})
           d == Holds(b, i)
           e == Says(d, "0BR", 0)
           f == Says(e, "DROP", 0)
<1>0. Clause(r) = f
  BY DEF Clause
<1>1. ItemShape(i) /\ i.kind = "of-sys"
  BY ItemIsShaped DEF CfKinds
<1>2. RefShape(a) /\ a.cf = r.cf /\ a.ok = r.ok
  BY SaysRef
<1> HIDE DEF a
<1>3. RefShape(b) /\ b.cf = a.cf /\ b.ok = a.ok
  BY <1>2, SaysRef
<1> HIDE DEF b, i
<1>4. RefShape(d) /\ d.cf = Append(b.cf, i) /\ d.ok = b.ok
  BY <1>1, <1>3, HoldsRef
<1> HIDE DEF d
<1>5. RefShape(e) /\ e.cf = d.cf /\ e.ok = d.ok
  BY <1>4, SaysRef
<1> HIDE DEF e
<1>6. RefShape(f) /\ f.cf = e.cf /\ f.ok = e.ok
  BY <1>5, SaysRef
<1> HIDE DEF f
<1> QED BY <1>0, <1>1, <1>2, <1>3, <1>4, <1>5, <1>6

LEMMA ClauseEndsRef ==
  ASSUME NEW r, RefShape(r)
  PROVE  /\ RefShape(ClauseEnds(r))
         /\ ClauseEnds(r).ok =>
              /\ r.ok /\ r.cf # <<>> /\ Last(r.cf).kind = "of-sys"
              /\ Front(r.cf) # <<>>
              /\ \E i : /\ ItemShape(i) /\ i.kind = Last(Front(r.cf)).kind
                        /\ ClauseEnds(r).cf = Append(Front(Front(r.cf)), i)
<1> DEFINE good == Has(r, "of-sys") /\ Has(Drops(r), "case-sys")
<1>1. CASE good
  <2> DEFINE d == Drops(r)
             e == Drops(d)
             x == Last(Front(r.cf))
             i == [x EXCEPT !.places = @ \cup {Len(r.text)}]
             p == {Last(r.cf).at}
             f == Holds(e, i)
             g == Says(f, "BR", 0)
  <2>1. r.cf # <<>> /\ Last(r.cf).kind = "of-sys" /\ IsItems(r.cf)
    BY <1>1 DEF Has, RefShape
  <2>2. RefShape(d) /\ d.cf = Front(r.cf) /\ d.ok = r.ok
    BY <2>1, DropsRef
  <2>3. IsItems(Front(r.cf))
    BY <2>1, ItemsFront
  <2>4. Front(r.cf) # <<>>
    BY <1>1, <2>2 DEF Has
  <2>5. ItemShape(x)
    BY <2>3, <2>4, ItemsFront
  <2>6. ClauseEnds(r) = Resolves(g, p)
    BY <1>1 DEF ClauseEnds
  <2>7. ItemShape(i) /\ i.kind = x.kind
    BY <2>5 DEF ItemShape
  <2> HIDE DEF d, x, i, p
  <2>8. RefShape(e) /\ e.cf = Front(d.cf) /\ e.ok = d.ok
    BY <2>2, <2>4, DropsRef
  <2> HIDE DEF e
  <2>9. RefShape(f) /\ f.cf = Append(e.cf, i) /\ f.ok = e.ok
    BY <2>7, <2>8, HoldsRef
  <2> HIDE DEF f
  <2>10. RefShape(g) /\ g.cf = f.cf /\ g.ok = f.ok
    BY <2>9, SaysRef
  <2> HIDE DEF g
  <2>11. RefShape(Resolves(g, p)) /\ Resolves(g, p).cf = g.cf /\ Resolves(g, p).ok = g.ok
    BY <2>10, ResolvesRef
  <2> QED BY <2>1, <2>2, <2>4, <2>6, <2>7, <2>8, <2>9, <2>10, <2>11 DEF x
<1>2. CASE ~ good
  BY <1>2, WrongRef DEF ClauseEnds
<1> QED BY <1>1, <1>2

-----------------------------------------------------------------------------
(* The greatest of some places *)

LEMMA LeastNatural ==
  ASSUME NEW S \in SUBSET Nat, S # {}
  PROVE  \E m \in S : \A k \in S : m <= k
<1>1. PICK m \in S : \A k \in S : ~ (<<k, m>> \in OpToRel(<, Nat))
  BY NatLessThanWellFounded, WFMin
<1>2. \A k \in S : ~ (k < m)
  BY <1>1 DEF OpToRel
<1> QED BY <1>2

LEMMA Greatest ==
  ASSUME NEW n \in Nat, NEW S \in SUBSET (1..n), S # {}
  PROVE  Max(S) \in S /\ \A k \in S : k <= Max(S)
<1> DEFINE D == {n - k : k \in S}
<1>1. D \in SUBSET Nat /\ D # {}
  OBVIOUS
<1> HIDE DEF D
<1>2. PICK d \in D : \A e \in D : d <= e
  BY <1>1, LeastNatural
<1>3. PICK m \in S : d = n - m
  BY <1>2 DEF D
<1>4. \A k \in S : m >= k
  <2> SUFFICES ASSUME NEW k \in S PROVE m >= k
    OBVIOUS
  <2>1. n - k \in D
    BY DEF D
  <2>2. n - m <= n - k
    BY <2>1, <1>2, <1>3
  <2> QED BY <2>2
<1>5. Max(S) \in S /\ \A k \in S : Max(S) >= k
  BY <1>4 DEF Max
<1> QED BY <1>5

-----------------------------------------------------------------------------
(* One word: the code's control stack c and the reference r, over what     *)
(* earlier definitions left, l                                             *)

InStep(c, l, r) ==
  /\ IsCtrl(c) /\ IsCtrl(l) /\ RefShape(r)
  /\ r.ok => Kept(c, l, r.cf)

LEMMA Shaped ==
  ASSUME NEW c, NEW l, NEW r, InStep(c, l, r), r.ok
  PROVE  /\ IsCtrl(c) /\ IsCtrl(l) /\ RefShape(r) /\ IsItems(r.cf) /\ Kept(c, l, r.cf)
         /\ Len(l) \in Nat /\ Len(c) \in Nat /\ Len(r.cf) \in Nat /\ Len(l) <= Len(c)
         /\ DOMAIN c = 1..Len(c) /\ DOMAIN r.cf = 1..Len(r.cf)
<1>1. IsCtrl(c) /\ IsCtrl(l) /\ RefShape(r) /\ IsItems(r.cf) /\ Kept(c, l, r.cf)
  BY DEF InStep, RefShape
<1>2. /\ Len(l) \in Nat /\ Len(c) \in Nat /\ Len(r.cf) \in Nat
      /\ DOMAIN c = 1..Len(c) /\ DOMAIN r.cf = 1..Len(r.cf)
  BY <1>1, CtrlFacts, ItemsFacts
<1> QED BY <1>1, <1>2 DEF Kept

LEMMA StepSame ==
  ASSUME NEW c, NEW l, NEW r, InStep(c, l, r), NEW s, RefShape(s),
         s.ok => r.ok /\ s.cf = r.cf
  PROVE  InStep(c, l, s)
BY DEF InStep

LEMMA StepPush ==
  ASSUME NEW c, NEW l, NEW r, InStep(c, l, r), r.ok, NEW e, EntryShape(e), NEW s, RefShape(s),
         s.ok => \E i : ItemShape(i) /\ i.kind = Standard(e.kind) /\ s.cf = Append(r.cf, i)
  PROVE  InStep(Append(c, e), l, s)
<1>1. IsCtrl(c) /\ IsCtrl(l) /\ IsItems(r.cf) /\ Kept(c, l, r.cf) /\ Len(l) \in Nat
  BY Shaped
<1>2. IsCtrl(Append(c, e))
  BY <1>1, CtrlAppend
<1>3. ASSUME s.ok PROVE Kept(Append(c, e), l, s.cf)
  <2>1. PICK i : ItemShape(i) /\ i.kind = Standard(e.kind) /\ s.cf = Append(r.cf, i)
    BY <1>3
  <2>2. PICK S : c \in Seq(S) /\ Entries(S)
    BY <1>1 DEF IsCtrl
  <2>3. PICK T : r.cf \in Seq(T) /\ Things(T)
    BY <1>1 DEF IsItems
  <2> DEFINE S2 == S \cup {e}
             T2 == T \cup {i}
  <2>4. c \in Seq(S2) /\ e \in S2 /\ Entries(S2)
    BY <2>2, SeqWider DEF Entries
  <2>5. r.cf \in Seq(T2) /\ i \in T2 /\ Things(T2)
    BY <2>1, <2>3, SeqWider DEF Things
  <2> HIDE DEF S2, T2
  <2> DEFINE cf == r.cf
  <2> HIDE DEF cf
  <2>7. cf \in Seq(T2) /\ Kept(c, l, cf) /\ Standard(e.kind) = i.kind
    BY <2>1, <2>5, <1>1 DEF cf
  <2>8. Kept(Append(c, e), l, Append(cf, i))
    BY <2>4, <2>5, <2>7, <1>1, KeptPush
  <2>6. Kept(Append(c, e), l, Append(r.cf, i))
    BY <2>8 DEF cf
  <2> QED BY <2>1, <2>6
<1> QED BY <1>1, <1>2, <1>3 DEF InStep

\* An item of a kind has an entry, and the last item's can be taken out.
LEMMA StepFinds ==
  ASSUME NEW c, NEW l, NEW r, InStep(c, l, r), r.ok, NEW j \in 1..Len(r.cf)
  PROVE  \E p \in (Len(l) + 1)..Len(c) : Standard(c[p].kind) = r.cf[j].kind
<1>1. IsCtrl(c) /\ IsItems(r.cf) /\ Kept(c, l, r.cf) /\ Len(l) \in Nat
  BY Shaped
<1>2. PICK S : c \in Seq(S) /\ Entries(S)
  BY <1>1 DEF IsCtrl
<1>3. PICK T : r.cf \in Seq(T) /\ Things(T)
  BY <1>1 DEF IsItems
<1> DEFINE cf == r.cf
<1>4. cf \in Seq(T) /\ Kept(c, l, cf) /\ j \in 1..Len(cf)
  BY <1>1, <1>3
<1> HIDE DEF cf
<1>5. \E p \in (Len(l) + 1)..Len(c) : Standard(c[p].kind) = cf[j].kind
  BY <1>1, <1>2, <1>3, <1>4, KeptFinds
<1> QED BY <1>5 DEF cf

LEMMA StepLast ==
  ASSUME NEW c, NEW l, NEW r, InStep(c, l, r), r.ok, r.cf # <<>>
  PROVE  /\ Len(c) > Len(l) /\ c # <<>>
         /\ \E p \in (Len(l) + 1)..Len(c) : Standard(c[p].kind) = Last(r.cf).kind
<1>1. IsItems(r.cf) /\ Len(l) \in Nat /\ Len(c) \in Nat
  BY Shaped
<1>2. Len(r.cf) \in 1..Len(r.cf)
  BY <1>1, ItemsFacts
<1>3. \E p \in (Len(l) + 1)..Len(c) : Standard(c[p].kind) = r.cf[Len(r.cf)].kind
  BY <1>2, StepFinds, SMTT(30)
<1>4. Len(c) > Len(l) /\ Len(c) # 0
  BY <1>1, <1>3
<1> QED BY <1>3, <1>4 DEF Last

LEMMA StepRemove ==
  ASSUME NEW c, NEW l, NEW r, InStep(c, l, r), r.ok,
         NEW p \in 1..Len(c), NEW s, NEW kind, Dropped(r, s, kind),
         s.ok => p > Len(l) /\ Standard(c[p].kind) = kind
  PROVE  InStep(RemoveAt(c, p), l, s)
<1>1. IsCtrl(c) /\ IsCtrl(l) /\ IsItems(r.cf) /\ Kept(c, l, r.cf) /\ Len(l) \in Nat
      /\ Len(c) \in Nat
  BY Shaped
<1>2. IsCtrl(RemoveAt(c, p))
  BY <1>1, CtrlRemove
<1>3. ASSUME s.ok PROVE Kept(RemoveAt(c, p), l, s.cf)
  <2>1. r.cf # <<>> /\ Last(r.cf).kind = kind /\ s.cf = Front(r.cf)
    BY <1>3 DEF Dropped
  <2>2. PICK S : c \in Seq(S) /\ Entries(S)
    BY <1>1 DEF IsCtrl
  <2>3. PICK T : r.cf \in Seq(T) /\ Things(T)
    BY <1>1 DEF IsItems
  <2>4. p \in (Len(l) + 1)..Len(c) /\ Standard(c[p].kind) = Last(r.cf).kind
    BY <1>1, <1>3, <2>1
  <2>5. Kept(RemoveAt(c, p), l, Front(r.cf))
    BY <2>1, <2>2, <2>3, <2>4, <1>1, KeptRemove
  <2> QED BY <2>1, <2>5
<1> QED BY <1>1, <1>2, <1>3 DEF InStep, Dropped

LEMMA StepPop ==
  ASSUME NEW c, NEW l, NEW r, InStep(c, l, r), r.ok, c # <<>>,
         NEW s, NEW kind, Dropped(r, s, kind), Standard(Last(c).kind) = kind
  PROVE  InStep(Front(c), l, s)
<1>1. IsCtrl(c) /\ Len(c) \in Nat /\ Len(l) \in Nat
  BY Shaped
<1>2. Front(c) = RemoveAt(c, Len(c)) /\ Len(c) \in Nat \ {0} /\ Last(c) = c[Len(c)]
  BY <1>1, CtrlFront DEF Last
<1>3. s.ok => Len(c) > Len(l)
  BY StepLast DEF Dropped
<1>4. Len(c) \in 1..Len(c)
  BY <1>2
<1> QED BY <1>2, <1>3, <1>4, StepRemove

LEMMA StepTwisted ==
  ASSUME NEW c, NEW l, NEW r, InStep(c, l, r), r.ok, NEW s, RefShape(s),
         s.ok => r.ok /\ Len(r.cf) > 1 /\ s.cf = Twisted(r.cf), NEW d, IsCtrl(d),
         Len(c) > 1 => d = Twisted(c)
  PROVE  InStep(d, l, s)
<1>1. IsCtrl(c) /\ IsCtrl(l) /\ IsItems(r.cf) /\ Kept(c, l, r.cf) /\ Len(l) \in Nat
      /\ Len(c) \in Nat
  BY Shaped
<1>3. ASSUME s.ok PROVE Kept(d, l, s.cf)
  <2>2. PICK S : c \in Seq(S) /\ Entries(S)
    BY <1>1 DEF IsCtrl
  <2>3. PICK T : r.cf \in Seq(T) /\ Things(T)
    BY <1>1 DEF IsItems
  <2>5. Len(c) > Len(l) + 1 /\ Kept(Twisted(c), l, Twisted(r.cf))
    BY <1>3, <2>2, <2>3, <1>1, KeptTwisted
  <2> QED BY <1>1, <1>3, <2>5
<1> QED BY <1>1, <1>3 DEF InStep

\* Entries and items whose kinds do not change.
LEMMA StepKinds ==
  ASSUME NEW c, NEW l, NEW r, InStep(c, l, r), r.ok, NEW s, RefShape(s), NEW d, IsCtrl(d),
         s.ok => /\ r.ok /\ Len(s.cf) = Len(r.cf)
                 /\ \A k \in 1..Len(r.cf) : s.cf[k].kind = r.cf[k].kind
                 /\ Len(d) = Len(c) /\ \A k \in 1..Len(l) : d[k] = c[k]
                 /\ \A k \in 1..Len(c) : d[k].kind = c[k].kind
  PROVE  InStep(d, l, s)
<1>1. IsCtrl(c) /\ IsCtrl(l) /\ IsItems(r.cf) /\ Kept(c, l, r.cf) /\ Len(l) \in Nat
      /\ Len(c) \in Nat /\ Len(r.cf) \in Nat
  BY Shaped
<1>2. ASSUME s.ok PROVE Kept(d, l, s.cf)
  BY <1>1, <1>2, KeptKinds
<1> QED BY <1>1, <1>2 DEF InStep

\* The order of the items alone may change, too.
LEMMA StepTwistedItems ==
  ASSUME NEW c, NEW l, NEW r, InStep(c, l, r), NEW s, RefShape(s),
         s.ok => r.ok /\ Len(r.cf) > 1 /\ s.cf = Twisted(r.cf)
  PROVE  InStep(c, l, s)
<1> SUFFICES ASSUME s.ok PROVE Kept(c, l, s.cf)
  BY DEF InStep
<1> DEFINE cf == r.cf
<1>1. IsItems(cf) /\ Kept(c, l, cf) /\ Len(cf) > 1 /\ s.cf = Twisted(cf)
  BY Shaped
<1> HIDE DEF cf
<1>2. PICK T : cf \in Seq(T) /\ Things(T)
  BY <1>1 DEF IsItems
<1>3. Kinds(cf) \in Seq(CfKinds) /\ Len(Kinds(cf)) = Len(cf)
  BY <1>2, KindsFacts
<1>4. Kinds(Twisted(cf)) = Twisted(Kinds(cf))
  BY <1>1, <1>2, KindsTwisted
<1> DEFINE f == Kinds(cf)
<1> HIDE DEF f
<1>5. Same(Twisted(f), f)
  <2>1. f \in Seq(CfKinds) /\ Len(f) > 1
    BY <1>1, <1>3 DEF f
  <2> QED BY <2>1, SameTwisted
<1>6. /\ Len(l) <= Len(c) /\ \A k \in 1..Len(l) : c[k] = l[k]
      /\ Same(Above(c, Len(l)), f)
  BY <1>1 DEF Kept, f
<1>7. Same(Above(c, Len(l)), Twisted(f))
  BY <1>5, <1>6 DEF Same
<1> QED BY <1>1, <1>4, <1>6, <1>7 DEF Kept, f

LEMMA StandardOf ==
  /\ \A kind \in CtrlKinds :
       /\ Standard(kind) = "dest" => kind = "BEGIN"
       /\ Standard(kind) = "do-sys" => kind = "DO"
       /\ Standard(kind) = "orig" => kind \in {"IF", "ELSE", "WHILE"}
  /\ Standard("IF") = "orig" /\ Standard("ELSE") = "orig" /\ Standard("WHILE") = "orig"
  /\ Standard("BEGIN") = "dest" /\ Standard("DO") = "do-sys"
  /\ Standard("CASE") = "case-sys" /\ Standard("OF") = "of-sys"
BY DEF Standard, CtrlKinds

LEMMA EntryIsShaped ==
  ASSUME NEW kind \in CtrlKinds, NEW index, NEW leaves
  PROVE  EntryShape(Entry(kind, index, leaves)) /\ Entry(kind, index, leaves).kind = kind
BY DEF EntryShape, Entry

\* Front and Last of what has just been appended.
LEMMA FrontAppend ==
  ASSUME NEW S, NEW s \in Seq(S), NEW e \in S
  PROVE  Front(Append(s, e)) = s /\ Last(Append(s, e)) = e /\ Append(s, e) # <<>>
<1> DEFINE t == Append(s, e)
<1>1. /\ t \in Seq(S) /\ Len(t) = Len(s) + 1 /\ t[Len(s) + 1] = e
      /\ \A k \in 1..Len(s) : t[k] = s[k]
  BY AppendProperties
<1> HIDE DEF t
<1>2. Len(s) \in Nat
  BY LenProperties
<1>3. t # <<>>
  BY <1>1, <1>2
<1>4. /\ Front(t) \in Seq(S) /\ Len(Front(t)) = Len(t) - 1
      /\ \A k \in 1..(Len(t) - 1) : Front(t)[k] = t[k]
  BY <1>1, <1>3, FrontFacts
<1>5. Len(Front(t)) = Len(s) /\ Len(t) - 1 = Len(s)
  BY <1>1, <1>2, <1>4
<1>6. \A k \in 1..Len(s) : Front(t)[k] = s[k]
  BY <1>1, <1>4, <1>5
<1>7. Front(t) = s
  BY <1>4, <1>5, <1>6, SameSequence
<1> QED BY <1>1, <1>3, <1>7 DEF t, Last

LEMMA ItemsFrontAppend ==
  ASSUME NEW cf, IsItems(cf), NEW i, ItemShape(i)
  PROVE  /\ Front(Append(cf, i)) = cf /\ Last(Append(cf, i)) = i
         /\ Append(cf, i) # <<>> /\ IsItems(Append(cf, i)) /\ Len(Append(cf, i)) = Len(cf) + 1
<1>1. PICK T : cf \in Seq(T) /\ Things(T)
  BY DEF IsItems
<1>2. cf \in Seq(T \cup {i}) /\ i \in T \cup {i}
  BY <1>1, SeqWider
<1> QED BY <1>2, FrontAppend, ItemsAppend, AppendProperties

\* ELSE in the standard: AHEAD 1 CS-ROLL THEN.
LEMMA ElseRef ==
  ASSUME NEW r, RefShape(r), NEW s, s = Lands(Rolls(Forward(r, "BR")))
  PROVE  /\ RefShape(s)
         /\ s.ok => /\ r.ok /\ r.cf # <<>> /\ Last(r.cf).kind = "orig"
                    /\ \E i : ItemShape(i) /\ i.kind = "orig" /\ s.cf = Append(Front(r.cf), i)
<1> DEFINE i == Item("orig", Len(r.text), {})
           f == Forward(r, "BR")
           g == Rolls(f)
<1>1. ItemShape(i) /\ i.kind = "orig"
  BY ItemIsShaped DEF CfKinds
<1>2. RefShape(f) /\ f.ok = r.ok /\ f.cf = Append(r.cf, i)
  BY ForwardRef
<1> HIDE DEF f, i
<1>3. RefShape(g) /\ (g.ok => f.ok /\ Len(f.cf) > 1 /\ g.cf = Twisted(f.cf))
  BY <1>2, RollsRef
<1> HIDE DEF g
<1>4. Dropped(g, s, "orig")
  <2>1. s = Lands(g)
    BY DEF f, g
  <2> QED BY <1>3, <2>1, LandsRef
<1>5. RefShape(s) /\ (s.ok => g.ok /\ g.cf # <<>> /\ Last(g.cf).kind = "orig" /\ s.cf = Front(g.cf))
  BY <1>4 DEF Dropped
<1>6. /\ Front(Append(r.cf, i)) = r.cf /\ Last(Append(r.cf, i)) = i
      /\ Append(r.cf, i) # <<>> /\ IsItems(Append(r.cf, i)) /\ IsItems(r.cf)
      /\ Len(Append(r.cf, i)) = Len(r.cf) + 1 /\ Len(r.cf) \in Nat
  BY <1>1, ItemsFrontAppend, ItemsFacts DEF RefShape
<1>7. ASSUME s.ok
      PROVE  r.ok /\ r.cf # <<>> /\ Last(r.cf).kind = "orig" /\ s.cf = Append(Front(r.cf), i)
  <2>1. g.cf = Twisted(Append(r.cf, i)) /\ Len(r.cf) > 0 /\ r.ok
    <3>1. Len(Append(r.cf, i)) > 1
      BY <1>2, <1>3, <1>5, <1>7
    <3> QED BY <3>1, <1>2, <1>3, <1>5, <1>6, <1>7
  <2>2. r.cf # <<>>
    BY <2>1, <1>6, ItemsFacts
  <2> DEFINE cf == r.cf
             h == Append(Front(cf), i)
  <2>3. IsItems(Front(cf)) /\ ItemShape(Last(cf))
    BY <2>2, <1>6, ItemsFront
  <2>4. IsItems(h)
    BY <2>3, <1>1, ItemsAppend
  <2>5. g.cf = Append(h, Last(cf))
    BY <2>1, <1>6 DEF Twisted
  <2> HIDE DEF h, cf
  <2>6. Front(g.cf) = h /\ Last(g.cf) = Last(cf)
    BY <2>3, <2>4, <2>5, ItemsFrontAppend
  <2> QED BY <2>1, <2>2, <2>6, <1>5, <1>7 DEF h, cf
<1> QED BY <1>1, <1>5, <1>7

LEMMA FrontRemove ==
  ASSUME NEW S, NEW c \in Seq(S), NEW p \in 1..(Len(c) - 1)
  PROVE  /\ RemoveAt(c, p) # <<>> /\ Last(RemoveAt(c, p)) = Last(c)
         /\ Front(RemoveAt(c, p)) = RemoveAt(Front(c), p)
<1> DEFINE n == Len(c)
           d == RemoveAt(c, p)
           f == Front(c)
           e == RemoveAt(f, p)
<1>1. n \in Nat /\ n > 1 /\ p \in 1..n /\ p \in Nat /\ c # <<>>
  BY LenProperties
<1>2. d \in Seq(S) /\ Len(d) = n - 1 /\ \A k \in 1..(n - 1) : d[k] = IF k < p THEN c[k] ELSE c[k + 1]
  BY <1>1, Removing
<1>3. f \in Seq(S) /\ Len(f) = n - 1 /\ \A k \in 1..(n - 1) : f[k] = c[k]
  BY <1>1, FrontFacts
<1> HIDE DEF d, f
<1>4. e \in Seq(S) /\ Len(e) = n - 2 /\ \A k \in 1..(n - 2) : e[k] = IF k < p THEN f[k] ELSE f[k + 1]
  <2>1. p \in 1..Len(f)
    BY <1>3
  <2>2. /\ e \in Seq(S) /\ Len(e) = Len(f) - 1
        /\ \A k \in 1..(Len(f) - 1) : e[k] = IF k < p THEN f[k] ELSE f[k + 1]
    BY <2>1, <1>3, Removing
  <2>3. Len(f) - 1 = n - 2
    BY <1>1, <1>3
  <2> QED BY <2>2, <2>3
<1> HIDE DEF e, n
<1>5. d # <<>>
  BY <1>1, <1>2
<1>6. Last(d) = Last(c)
  <2>1. n - 1 \in 1..(n - 1) /\ ~ (n - 1 < p) /\ (n - 1) + 1 = n
    BY <1>1 DEF n
  <2>2. d[n - 1] = c[(n - 1) + 1]
    BY <2>1, <1>2
  <2> QED BY <2>1, <2>2, <1>2 DEF Last, n
<1>7. /\ Front(d) \in Seq(S) /\ Len(Front(d)) = Len(d) - 1
      /\ \A k \in 1..(Len(d) - 1) : Front(d)[k] = d[k]
  BY <1>2, <1>5, FrontFacts
<1>8. Len(d) - 1 = n - 2 /\ Len(Front(d)) = n - 2
  BY <1>1, <1>2, <1>7
<1>9. ASSUME NEW k \in 1..(n - 2) PROVE Front(d)[k] = e[k]
  <2>1. k \in 1..(n - 1) /\ k + 1 \in 1..(n - 1)
    BY <1>1
  <2> QED BY <2>1, <1>2, <1>3, <1>4, <1>7, <1>8
<1>10. Front(d) = e
  BY <1>4, <1>7, <1>8, <1>9, SameSequence
<1> QED BY <1>5, <1>6, <1>10 DEF d, e, f

LEMMA CtrlFrontRemove ==
  ASSUME NEW c, IsCtrl(c), NEW p \in 1..(Len(c) - 1)
  PROVE  /\ RemoveAt(c, p) # <<>> /\ Last(RemoveAt(c, p)) = Last(c)
         /\ Front(RemoveAt(c, p)) = RemoveAt(Front(c), p)
BY FrontRemove DEF IsCtrl

\* The entry below the top is taken out.
LEMMA BelowTop ==
  ASSUME NEW c, IsCtrl(c), Len(c) > 1
  PROVE  /\ Append(Front(Front(c)), Last(c)) = RemoveAt(c, Len(c) - 1)
         /\ Last(Front(c)) = c[Len(c) - 1] /\ Len(c) - 1 \in 1..Len(c)
<1>1. PICK S : c \in Seq(S)
  BY DEF IsCtrl
<1> DEFINE n == Len(c)
           f == Front(c)
           g == Front(f)
           x == Last(c)
           a == Append(g, x)
           b == RemoveAt(c, n - 1)
<1>2. n \in Nat /\ n > 1 /\ c # <<>> /\ n = Len(c) /\ n - 1 \in 1..Len(c)
  BY <1>1, LenProperties
<1>3. f \in Seq(S) /\ Len(f) = n - 1 /\ x \in S /\ \A k \in 1..(n - 1) : f[k] = c[k]
  BY <1>1, <1>2, FrontFacts
<1>4. b \in Seq(S) /\ Len(b) = n - 1
      /\ \A k \in 1..(n - 1) : b[k] = IF k < n - 1 THEN c[k] ELSE c[k + 1]
  BY <1>1, <1>2, Removing
<1> HIDE DEF f, b
<1>5. f # <<>> /\ n - 1 \in 1..(n - 1)
  BY <1>2, <1>3
<1>6. g \in Seq(S) /\ Len(g) = (n - 1) - 1 /\ \A k \in 1..((n - 1) - 1) : g[k] = f[k]
  BY <1>3, <1>5, FrontFacts
<1>7. x = c[n]
  BY DEF Last
<1> HIDE DEF g, x, n
<1>8. a \in Seq(S) /\ Len(a) = Len(g) + 1 /\ a[Len(g) + 1] = x /\ \A k \in 1..Len(g) : a[k] = g[k]
  BY <1>3, <1>6, AppendProperties
<1>9. Len(a) = n - 1 /\ Len(g) = n - 2 /\ Len(g) + 1 = n - 1 /\ (n - 1) - 1 = n - 2
  BY <1>2, <1>6, <1>8
<1> HIDE DEF a
<1>10. ASSUME NEW k \in 1..(n - 1) PROVE a[k] = b[k]
  <2>1. CASE k = n - 1
    <3>1. ~ (k < n - 1) /\ k + 1 = n
      BY <2>1, <1>2
    <3>2. b[k] = c[n]
      BY <3>1, <1>4
    <3> QED BY <2>1, <3>2, <1>7, <1>8, <1>9
  <2>2. CASE k # n - 1
    <3>1. k \in 1..(n - 2) /\ k < n - 1
      BY <2>2, <1>2
    <3> QED BY <3>1, <1>3, <1>4, <1>6, <1>8, <1>9
  <2> QED BY <2>1, <2>2
<1>11. a = b
  BY <1>4, <1>8, <1>9, <1>10, SameSequence
<1>12. Last(f) = c[n - 1]
  BY <1>3, <1>5 DEF Last
<1> QED BY <1>2, <1>11, <1>12 DEF a, b, f, g, x, n

LEMMA TwistedIs ==
  ASSUME NEW c, IsCtrl(c), Len(c) > 1
  PROVE  /\ Front(Front(c)) \o <<Last(c), Last(Front(c))>> = Twisted(c)
         /\ IsCtrl(Twisted(c))
<1>1. PICK S : c \in Seq(S) /\ Entries(S)
  BY DEF IsCtrl
<1> DEFINE f == Front(c)
           g == Front(f)
           x == Last(c)
           y == Last(f)
<1>2. c # <<>> /\ Len(c) \in Nat
  BY <1>1, LenProperties
<1>3. f \in Seq(S) /\ Len(f) = Len(c) - 1 /\ x \in S
  BY <1>1, <1>2, FrontFacts
<1> HIDE DEF f, x
<1>4. f # <<>>
  BY <1>2, <1>3
<1>5. g \in Seq(S) /\ y \in S
  BY <1>3, <1>4, FrontFacts
<1> HIDE DEF g, y
<1>6. g \o <<x, y>> = Append(Append(g, x), y)
  BY <1>3, <1>5
<1>7. Twisted(c) \in Seq(S)
  BY <1>1, TwistedFacts
<1> QED BY <1>1, <1>6, <1>7 DEF Twisted, IsCtrl, f, g, x, y

\* ELSE: the entry on top is replaced.
LEMMA ElseStep ==
  ASSUME NEW c, NEW l, NEW r, InStep(c, l, r), r.ok,
         c # <<>>, Last(c).kind \in {"IF", "WHILE"}, NEW e, EntryShape(e), e.kind = "ELSE"
  PROVE  InStep(Append(Front(c), e), l, Lands(Rolls(Forward(r, "BR"))))
<1> DEFINE s == Lands(Rolls(Forward(r, "BR")))
           d == Drops(r)
<1>1. IsCtrl(c) /\ IsCtrl(l) /\ RefShape(r)
  BY Shaped
<1>2. /\ RefShape(s)
      /\ s.ok => /\ r.ok /\ r.cf # <<>> /\ Last(r.cf).kind = "orig"
                 /\ \E i : ItemShape(i) /\ i.kind = "orig" /\ s.cf = Append(Front(r.cf), i)
  BY <1>1, ElseRef
<1> HIDE DEF s
<1>3. CASE s.ok
  <2>1. RefShape(d) /\ d.cf = Front(r.cf) /\ d.ok = r.ok
    BY <1>1, <1>2, <1>3, DropsRef
  <2> HIDE DEF d
  <2>2. Dropped(r, d, "orig") /\ Standard(Last(c).kind) = "orig"
    BY <2>1, <1>2, <1>3, StandardOf DEF Dropped
  <2>3. InStep(Front(c), l, d)
    BY <2>2, StepPop
  <2>4. s.ok => \E i : ItemShape(i) /\ i.kind = Standard(e.kind) /\ s.cf = Append(d.cf, i)
    BY <2>1, <1>2, StandardOf
  <2>5. d.ok
    BY <2>1
  <2> QED BY <2>3, <2>4, <2>5, <1>2, StepPush DEF s
<1>4. CASE ~ s.ok
  <2>1. IsCtrl(Append(Front(c), e))
    BY <1>1, CtrlFront, CtrlAppend
  <2> QED BY <2>1, <1>1, <1>2, <1>4 DEF InStep, s
<1> QED BY <1>3, <1>4

\* WHILE: 1 CS-ROLL puts the orig below the dest, the code leaves it on top.
LEMMA WhileStep ==
  ASSUME NEW c, NEW l, NEW r, InStep(c, l, r), r.ok, NEW e, EntryShape(e), e.kind = "WHILE"
  PROVE  InStep(Append(c, e), l, Rolls(Forward(r, "0BR")))
<1> DEFINE i == Item("orig", Len(r.text), {})
           f == Forward(r, "0BR")
<1>1. RefShape(r)
  BY Shaped
<1>2. ItemShape(i) /\ i.kind = Standard(e.kind)
  BY ItemIsShaped, StandardOf DEF CfKinds
<1>3. RefShape(f) /\ f.ok = r.ok /\ f.cf = Append(r.cf, i)
  BY <1>1, ForwardRef
<1> HIDE DEF f, i
<1>4. InStep(Append(c, e), l, f)
  BY <1>2, <1>3, StepPush
<1>5. RefShape(Rolls(f)) /\ (Rolls(f).ok => f.ok /\ Len(f.cf) > 1 /\ Rolls(f).cf = Twisted(f.cf))
  BY <1>3, RollsRef
<1>6. InStep(Append(c, e), l, Rolls(f))
  BY <1>4, <1>5, StepTwistedItems
<1> QED BY <1>6 DEF f

\* The greatest place of a kind is the code's own, above what lay there, when
\* the standard has an item of that kind.
LEMMA OwnPlace ==
  ASSUME NEW c, NEW l, NEW r, InStep(c, l, r), r.ok,
         NEW kind \in {"BEGIN", "DO"},
         NEW P, P = {k \in DOMAIN c : c[k].kind = kind}
  PROVE  /\ P # {} => Max(P) \in P /\ Max(P) \in 1..Len(c)
         /\ \A j \in 1..Len(r.cf) : r.cf[j].kind = Standard(kind) => Max(P) > Len(l)
<1>1. /\ IsCtrl(c) /\ Len(c) \in Nat /\ DOMAIN c = 1..Len(c) /\ Len(l) \in Nat
      /\ Len(l) <= Len(c)
  BY Shaped
<1>2. P \in SUBSET (1..Len(c))
  BY <1>1
<1>3. P # {} => Max(P) \in P /\ \A k \in P : k <= Max(P)
  BY <1>1, <1>2, Greatest
<1>4. ASSUME NEW j \in 1..Len(r.cf), r.cf[j].kind = Standard(kind) PROVE Max(P) > Len(l)
  <2>1. PICK p \in (Len(l) + 1)..Len(c) : Standard(c[p].kind) = Standard(kind)
    BY <1>4, StepFinds
  <2>2. p \in 1..Len(c)
    BY <1>1
  <2>3. c[p].kind \in CtrlKinds
    BY <2>2, <1>1, CtrlFacts DEF EntryShape
  <2>4. c[p].kind = kind
    BY <2>1, <2>3, StandardOf
  <2>5. p \in P
    BY <2>2, <2>4, <1>1
  <2>6. Max(P) \in 1..Len(c) /\ p <= Max(P)
    BY <2>5, <1>2, <1>3
  <2> QED BY <2>6, <1>1
<1> QED BY <1>2, <1>3, <1>4

\* REPEAT: the last BEGIN, wherever it lies, and the WHILE on top.
LEMMA RepeatStep ==
  ASSUME NEW c, NEW l, NEW r, InStep(c, l, r), r.ok,
         c # <<>>, Last(c).kind = "WHILE",
         NEW P, P = {k \in DOMAIN c : c[k].kind = "BEGIN"}, P # {}
  PROVE  InStep(RemoveAt(Front(c), Max(P)), l, Lands(Back(r, "BR")))
<1> DEFINE p == Max(P)
           m == Back(r, "BR")
           s == Lands(m)
           d == RemoveAt(c, p)
<1>1. IsCtrl(c) /\ IsCtrl(l) /\ RefShape(r) /\ Len(c) \in Nat /\ DOMAIN c = 1..Len(c)
      /\ IsItems(r.cf)
  BY Shaped
<1>2. Dropped(r, m, "dest")
  BY <1>1, BackRef
<1>3. RefShape(m)
  BY <1>2 DEF Dropped
<1> HIDE DEF m
<1>4. Dropped(m, s, "orig")
  BY <1>3, LandsRef
<1> HIDE DEF s
<1>5. p \in P /\ p \in 1..Len(c)
  BY OwnPlace
<1>6. c[p].kind = "BEGIN"
  BY <1>5
<1>7. p # Len(c)
  BY <1>6 DEF Last
<1>8. p \in 1..(Len(c) - 1)
  BY <1>1, <1>5, <1>7
<1>9. m.ok => p > Len(l)
  <2> SUFFICES ASSUME m.ok PROVE p > Len(l)
    OBVIOUS
  <2>1. r.cf # <<>> /\ Last(r.cf).kind = "dest"
    BY <1>2 DEF Dropped
  <2>2. Len(r.cf) \in 1..Len(r.cf) /\ r.cf[Len(r.cf)].kind = Standard("BEGIN")
    BY <2>1, <1>1, ItemsFacts, StandardOf DEF Last
  <2> QED BY <2>2, OwnPlace
<1> HIDE DEF p
<1>10. InStep(d, l, m)
  <2>1. Standard(c[p].kind) = "dest"
    BY <1>6, StandardOf
  <2> QED BY <2>1, <1>2, <1>5, <1>9, StepRemove
<1>11. d # <<>> /\ Last(d) = Last(c) /\ Front(d) = RemoveAt(Front(c), p)
  BY <1>1, <1>8, CtrlFrontRemove
<1> HIDE DEF d
<1>12. InStep(Front(d), l, s)
  <2>1. CASE m.ok
    <3>1. Standard(Last(d).kind) = "orig"
      BY <1>11, StandardOf
    <3> QED BY <2>1, <3>1, <1>4, <1>10, <1>11, StepPop
  <2>2. CASE ~ m.ok
    <3>1. IsCtrl(d)
      BY <1>10 DEF InStep
    <3>2. IsCtrl(Front(d))
      BY <3>1, <1>11, CtrlFront
    <3> QED BY <3>2, <2>2, <1>1, <1>4 DEF InStep, Dropped
  <2> QED BY <2>1, <2>2
<1> QED BY <1>11, <1>12 DEF p, s, m

\* BEGIN .. WHILE .. UNTIL.
LEMMA UntilStep ==
  ASSUME NEW c, NEW l, NEW r, InStep(c, l, r), r.ok,
         Last(c).kind = "WHILE", Len(c) > 1, Last(Front(c)).kind = "BEGIN"
  PROVE  InStep(Append(Front(Front(c)), Last(c)), l, Back(r, "0BR"))
<1> DEFINE s == Back(r, "0BR")
           p == Len(c) - 1
<1>1. IsCtrl(c) /\ IsCtrl(l) /\ RefShape(r) /\ Len(c) \in Nat /\ Len(l) \in Nat
      /\ IsItems(r.cf)
  BY Shaped
<1>2. Dropped(r, s, "dest")
  BY <1>1, BackRef
<1> HIDE DEF s
<1>3. /\ Append(Front(Front(c)), Last(c)) = RemoveAt(c, p)
      /\ Last(Front(c)) = c[p] /\ p \in 1..Len(c)
  BY <1>1, BelowTop
<1>4. ASSUME s.ok PROVE p > Len(l)
  <2>1. r.cf # <<>> /\ Last(r.cf).kind = "dest"
    BY <1>2, <1>4 DEF Dropped
  <2>2. PICK q \in (Len(l) + 1)..Len(c) : Standard(c[q].kind) = "dest"
    BY <2>1, StepLast
  <2>3. q # Len(c)
    BY <2>2, StandardOf DEF Last
  <2> QED BY <2>2, <2>3, <1>1
<1>5. Standard(c[p].kind) = "dest"
  BY <1>3, StandardOf
<1> HIDE DEF p
<1>6. InStep(RemoveAt(c, p), l, s)
  BY <1>2, <1>3, <1>4, <1>5, StepRemove
<1> QED BY <1>3, <1>6 DEF s

\* One more place changes no kind.
More(c, p, at) == [c EXCEPT ![p].leaves = @ \cup {at}]

LEMMA MoreLeaves ==
  ASSUME NEW c, IsCtrl(c), NEW p \in 1..Len(c), NEW at
  PROVE  /\ IsCtrl(More(c, p, at)) /\ Len(More(c, p, at)) = Len(c)
         /\ \A k \in 1..Len(c) :
              /\ More(c, p, at)[k].kind = c[k].kind
              /\ k # p => More(c, p, at)[k] = c[k]
<1> DEFINE e == [c[p] EXCEPT !.leaves = @ \cup {at}]
           d == [c EXCEPT ![p] = e]
<1>1. p \in DOMAIN c /\ EntryShape(c[p])
  BY CtrlFacts
<1>2. EntryShape(e) /\ e.kind = c[p].kind
  BY <1>1 DEF EntryShape
<1>3. More(c, p, at) = d
  BY DEF More
<1> HIDE DEF e
<1>4. /\ IsCtrl(d) /\ Len(d) = Len(c)
      /\ \A k \in 1..Len(c) : d[k] = IF k = p THEN e ELSE c[k]
  BY <1>1, <1>2, CtrlReplace
<1> HIDE DEF d
<1> QED BY <1>2, <1>3, <1>4

\* LEAVE: the last DO gets one more place.
LEMMA LeaveStep ==
  ASSUME NEW c, NEW l, NEW r, InStep(c, l, r), r.ok, NEW here0,
         NEW P, P = {k \in DOMAIN c : c[k].kind = "DO"}, P # {}
  PROVE  InStep([c EXCEPT ![Max(P)].leaves = @ \cup {here0}], l, Leaves(r))
<1> DEFINE p == Max(P)
           d == More(c, p, here0)
           s == Leaves(r)
           dos == {k \in DOMAIN r.cf : r.cf[k].kind = "do-sys"}
<1>1. /\ IsCtrl(c) /\ IsCtrl(l) /\ RefShape(r) /\ Len(c) \in Nat /\ DOMAIN c = 1..Len(c)
      /\ IsItems(r.cf) /\ Len(l) \in Nat /\ Len(l) <= Len(c)
      /\ Len(r.cf) \in Nat /\ DOMAIN r.cf = 1..Len(r.cf)
  BY Shaped
<1>2. p \in P /\ p \in 1..Len(c)
  BY OwnPlace
<1> HIDE DEF p
<1>5. /\ IsCtrl(d) /\ Len(d) = Len(c)
      /\ \A k \in 1..Len(c) : d[k].kind = c[k].kind /\ (k # p => d[k] = c[k])
  BY <1>1, <1>2, MoreLeaves
<1> HIDE DEF d
<1>7. Max(dos) \in dos \/ dos = {}
  <2>1. dos \in SUBSET (1..Len(r.cf))
    BY <1>1
  <2> HIDE DEF dos
  <2> QED BY <2>1, <1>1, Greatest
<1>8. /\ RefShape(s)
      /\ s.ok => /\ r.ok /\ dos # {} /\ Len(s.cf) = Len(r.cf)
                 /\ \A k \in 1..Len(r.cf) : s.cf[k].kind = r.cf[k].kind
  BY <1>1, <1>7, LeavesRef
<1> HIDE DEF s
<1>9. ASSUME s.ok PROVE p > Len(l)
  <2>1. PICK j \in 1..Len(r.cf) : r.cf[j].kind = "do-sys"
    BY <1>1, <1>8, <1>9
  <2>2. r.cf[j].kind = Standard("DO")
    BY <2>1, StandardOf
  <2> QED BY <2>2, OwnPlace DEF p
<1>10. s.ok => \A k \in 1..Len(l) : d[k] = c[k]
  <2> SUFFICES ASSUME s.ok, NEW k \in 1..Len(l) PROVE d[k] = c[k]
    OBVIOUS
  <2>1. p > Len(l) /\ k \in 1..Len(c) /\ k # p
    BY <1>1, <1>2, <1>9
  <2> QED BY <2>1, <1>5
<1>11. \A k \in 1..Len(c) : d[k].kind = c[k].kind
  BY <1>5
<1>12. InStep(d, l, s)
  BY <1>5, <1>8, <1>10, <1>11, StepKinds
<1> QED BY <1>12 DEF More, d, s, p

\* ENDOF: the OF goes, the CASE below gets one more place.
LEMMA EndOfStep ==
  ASSUME NEW c, NEW l, NEW r, InStep(c, l, r), r.ok, NEW here0,
         c # <<>>, Last(c).kind = "OF"
  PROVE  InStep([Front(c) EXCEPT ![Len(c) - 1].leaves = @ \cup {here0}], l, ClauseEnds(r))
<1> DEFINE f == Front(c)
           p == Len(c) - 1
           d == More(f, p, here0)
           s == ClauseEnds(r)
           q == Drops(r)
<1>1. IsCtrl(c) /\ IsCtrl(l) /\ RefShape(r) /\ IsItems(r.cf) /\ Len(l) \in Nat
  BY Shaped
<1>2. IsCtrl(f) /\ Len(f) = p /\ Len(c) \in Nat \ {0}
  BY <1>1, CtrlFront
<1>3. DOMAIN f = 1..p /\ p \in Nat
  BY <1>2, CtrlFacts
<1>4. [Front(c) EXCEPT ![Len(c) - 1].leaves = @ \cup {here0}] = d
  BY DEF More
<1>5. /\ RefShape(s)
      /\ s.ok => /\ r.ok /\ r.cf # <<>> /\ Last(r.cf).kind = "of-sys"
                 /\ Front(r.cf) # <<>>
                 /\ \E i : /\ ItemShape(i) /\ i.kind = Last(Front(r.cf)).kind
                           /\ s.cf = Append(Front(Front(r.cf)), i)
  BY <1>1, ClauseEndsRef
<1> HIDE DEF f, p, s
<1>6. CASE p = 0
  <2>1. d = f
    <3>1. p \notin DOMAIN f /\ IsCtrl(f)
      BY <1>2, <1>3, <1>6
    <3>2. PICK S : f \in Seq(S)
      BY <3>1 DEF IsCtrl
    <3> QED BY <3>1, <3>2 DEF More
  <2>2. ~ s.ok
    <3> SUFFICES ASSUME s.ok PROVE FALSE
      OBVIOUS
    <3>1. RefShape(q) /\ q.cf = Front(r.cf) /\ q.ok = r.ok
      BY <1>1, <1>5, DropsRef
    <3>2. Dropped(r, q, "of-sys") /\ Standard(Last(c).kind) = "of-sys"
      BY <3>1, <1>5, StandardOf DEF Dropped
    <3> HIDE DEF q
    <3>3. InStep(f, l, q)
      BY <3>2, StepPop DEF f
    <3>4. f # <<>>
      BY <3>1, <3>3, <1>5, StepLast
    <3> QED BY <3>4, <1>2, <1>6, CtrlFacts
  <2> QED BY <2>1, <2>2, <1>1, <1>2, <1>4, <1>5 DEF InStep, s
<1>7. CASE p # 0
  <2>1. p \in 1..Len(f) /\ p \in DOMAIN f
    BY <1>2, <1>3, <1>7
  <2>4. /\ IsCtrl(d) /\ Len(d) = Len(f)
        /\ \A k \in 1..Len(f) : d[k].kind = f[k].kind /\ (k # p => d[k] = f[k])
    BY <2>1, <1>2, MoreLeaves
  <2> HIDE DEF d
  <2>5. ASSUME ~ s.ok PROVE InStep(d, l, s)
    BY <2>4, <2>5, <1>1, <1>5 DEF InStep
  <2>6. ASSUME s.ok PROVE InStep(d, l, s)
    <3>1. RefShape(q) /\ q.cf = Front(r.cf) /\ q.ok = r.ok
      BY <2>6, <1>1, <1>5, DropsRef
    <3>2. Dropped(r, q, "of-sys") /\ Standard(Last(c).kind) = "of-sys"
      BY <2>6, <3>1, <1>5, StandardOf DEF Dropped
    <3> HIDE DEF q
    <3>3. InStep(f, l, q)
      BY <3>2, StepPop DEF f
    <3>4. q.ok /\ q.cf # <<>> /\ IsItems(q.cf)
      BY <2>6, <3>1, <1>5 DEF RefShape
    <3>5. Len(f) > Len(l)
      BY <3>3, <3>4, StepLast
    <3>6. \A k \in 1..Len(l) : d[k] = f[k]
      <4>1. \A k \in 1..Len(l) : k \in 1..Len(f) /\ k # p
        BY <3>5, <1>1, <1>2, <1>3
      <4> QED BY <4>1, <2>4
    <3>7. \A k \in 1..Len(f) : d[k].kind = f[k].kind
      BY <2>4
    <3>8. Len(s.cf) = Len(q.cf) /\ \A k \in 1..Len(q.cf) : s.cf[k].kind = q.cf[k].kind
      <4> DEFINE u == q.cf
                 g == Front(u)
      <4>1. PICK i : ItemShape(i) /\ i.kind = Last(u).kind /\ s.cf = Append(g, i)
        BY <2>6, <3>1, <1>5
      <4>2. /\ IsItems(g) /\ Len(g) = Len(u) - 1 /\ Len(u) \in Nat \ {0}
            /\ \A k \in 1..(Len(u) - 1) : g[k] = u[k]
        BY <3>4, ItemsFront, ItemsFacts
      <4> HIDE DEF u, g
      <4>3. PICK T : g \in Seq(T)
        BY <4>2 DEF IsItems
      <4>4. g \in Seq(T \cup {i}) /\ i \in T \cup {i}
        BY <4>3, SeqWider
      <4>5. /\ Len(Append(g, i)) = Len(g) + 1 /\ Append(g, i)[Len(g) + 1] = i
            /\ \A k \in 1..Len(g) : Append(g, i)[k] = g[k]
        BY <4>4, AppendProperties
      <4>6. Len(g) + 1 = Len(u) /\ Len(g) \in Nat
        BY <4>2
      <4>7. ASSUME NEW k \in 1..Len(u) PROVE Append(g, i)[k].kind = u[k].kind
        <5>1. CASE k = Len(u)
          BY <5>1, <4>1, <4>5, <4>6 DEF Last
        <5>2. CASE k # Len(u)
          <6>1. k \in 1..Len(g) /\ k \in 1..(Len(u) - 1)
            BY <5>2, <4>2, <4>6
          <6> QED BY <6>1, <4>2, <4>5
        <5> QED BY <5>1, <5>2
      <4>8. Len(s.cf) = Len(u) /\ \A k \in 1..Len(u) : s.cf[k].kind = u[k].kind
        BY <4>1, <4>5, <4>6, <4>7
      <4> QED BY <4>8 DEF u
    <3>9. InStep(d, l, s)
      BY <2>4, <3>1, <3>3, <3>4, <3>6, <3>7, <3>8, <1>5, StepKinds
    <3> QED BY <3>9
  <2> QED BY <2>5, <2>6, <1>4 DEF s
<1> QED BY <1>6, <1>7

LEMMA StepDropped ==
  ASSUME NEW c, NEW l, NEW r, InStep(c, l, r), r.ok, c # <<>>,
         NEW kind, Standard(Last(c).kind) = kind, NEW s, Dropped(r, s, kind)
  PROVE  InStep(Front(c), l, s)
BY StepPop

\* A definition begins.
LEMMA Begun ==
  ASSUME NEW c, IsCtrl(c)
  PROVE  InStep(c, c, NoText)
<1>1. RefShape(NoText) /\ NoText.cf = <<>>
  <2>1. <<>> \in Seq({}) /\ Things({})
    BY DEF Things
  <2>2. IsItems(<<>>)
    BY <2>1 DEF IsItems
  <2> QED BY <2>2 DEF RefShape, NoText
<1>2. Len(c) \in Nat
  BY CtrlFacts
<1>3. Above(c, Len(c)) = Kinds(<<>>)
  <2>1. Len(c) - Len(c) = 0 /\ Len(<<>>) = 0
    BY <1>2
  <2>2. Above(c, Len(c)) = [k \in {} |-> 0]
    <3>1. 1..(Len(c) - Len(c)) = {}
      BY <2>1
    <3> QED BY <3>1 DEF Above
  <2>3. Kinds(<<>>) = [k \in {} |-> 0]
    <3>1. 1..Len(<<>>) = {}
      BY <2>1
    <3> QED BY <3>1 DEF Kinds
  <2> QED BY <2>2, <2>3
<1>4. Kept(c, c, <<>>)
  BY <1>2, <1>3 DEF Kept, Same
<1> QED BY <1>1, <1>4 DEF InStep

-----------------------------------------------------------------------------
(* The invariant: the two control stacks go in step. *)

StacksInStep == InStep(ctrl, left, ref)

LEMMA InitStacks == Init => StacksInStep
<1> SUFFICES ASSUME Init PROVE StacksInStep
  OBVIOUS
<1>1. IsCtrl(<<>>)
  <2>1. <<>> \in Seq({}) /\ Entries({})
    BY DEF Entries
  <2> QED BY <2>1 DEF IsCtrl
<1>2. InStep(<<>>, <<>>, NoText)
  BY <1>1, Begun
<1> QED BY <1>2 DEF Init, StacksInStep

\* The rows of Meaning.
LEMMA MeaningOf ==
  ASSUME NEW r
  PROVE  /\ Meaning(r, "IF") = Forward(r, "0BR")
         /\ Meaning(r, "ELSE") = Lands(Rolls(Forward(r, "BR")))
         /\ Meaning(r, "THEN") = Lands(r)
         /\ Meaning(r, "BEGIN") = Holds(r, Item("dest", Len(r.text), {}))
         /\ Meaning(r, "WHILE") = Rolls(Forward(r, "0BR"))
         /\ Meaning(r, "REPEAT") = Lands(Back(r, "BR"))
         /\ Meaning(r, "AGAIN") = Back(r, "BR")
         /\ Meaning(r, "UNTIL") = Back(r, "0BR")
         /\ Meaning(r, "1 CS-ROLL") = Rolls(r)
         /\ Meaning(r, "DO") = Holds(Says(r, "DO", 0), Item("do-sys", Len(r.text) + 1, {}))
         /\ Meaning(r, "?DO") =
              Holds(Says(r, "?DO", 0), Item("do-sys", Len(r.text) + 1, {Len(r.text)}))
         /\ \A t \in {"LOOP", "+LOOP"} : Meaning(r, t) = Loops(r, t)
         /\ Meaning(r, "LEAVE") = Leaves(r)
         /\ Meaning(r, "CASE") = Holds(r, Item("case-sys", 0, {}))
         /\ Meaning(r, "OF") = Clause(r)
         /\ Meaning(r, "ENDOF") = ClauseEnds(r)
         /\ Meaning(r, "ENDCASE") = CaseEnds(r)
         /\ Meaning(r, "DOES>") = Says(Says(r, "(DOES>)", 0), "EXIT", 0)
         /\ \A t \in {"word", "EXIT"} : Meaning(r, t) = Says(r, t, 0)
BY DEF Meaning

LEMMA CompileStep ==
  ASSUME NEW t, NEW c, NEW k, Compile(t, c, k),
         ref.ok => InStep(k, left, Meaning(ref, t))
  PROVE  StacksInStep'
<1>1. ref.ok /\ ctrl' = k /\ ref' = Meaning(ref, t) /\ left' = left
  BY DEF Compile, Takes
<1> QED BY <1>1 DEF StacksInStep

\* A word that puts an entry and an item on top.
LEMMA PushStep ==
  ASSUME StacksInStep, ref.ok, NEW kind \in CtrlKinds, NEW index, NEW leaves, NEW s, RefShape(s),
         NEW i, ItemShape(i), i.kind = Standard(kind), s.cf = Append(ref.cf, i)
  PROVE  InStep(Append(ctrl, Entry(kind, index, leaves)), left, s)
<1> DEFINE e == Entry(kind, index, leaves)
<1>1. EntryShape(e) /\ e.kind = kind
  BY EntryIsShaped
<1> HIDE DEF e
<1>2. s.ok => \E j : ItemShape(j) /\ j.kind = Standard(e.kind) /\ s.cf = Append(ref.cf, j)
  BY <1>1
<1>3. InStep(ctrl, left, ref)
  BY DEF StacksInStep
<1>4. InStep(Append(ctrl, e), left, s)
  BY <1>1, <1>2, <1>3, StepPush
<1> QED BY <1>4 DEF e

LEMMA IfStacks == StacksInStep /\ If => StacksInStep'
<1> SUFFICES ASSUME StacksInStep, If PROVE StacksInStep'
  OBVIOUS
<1> DEFINE i == Item("orig", Len(ref.text), {})
<1>1. RefShape(ref)
  BY DEF StacksInStep, InStep
<1>2. RefShape(Forward(ref, "0BR")) /\ Forward(ref, "0BR").cf = Append(ref.cf, i)
  BY <1>1, ForwardRef
<1>3. ItemShape(i) /\ i.kind = Standard("IF") /\ "IF" \in CtrlKinds
  BY ItemIsShaped, StandardOf DEF CfKinds, CtrlKinds
<1> HIDE DEF i
<1>4. ref.ok => InStep(Append(ctrl, Entry("IF", here, {})), left, Meaning(ref, "IF"))
  <2>1. Meaning(ref, "IF") = Forward(ref, "0BR")
    BY MeaningOf
  <2> DEFINE s == Forward(ref, "0BR")
  <2> HIDE DEF s
  <2>2. ref.ok => InStep(Append(ctrl, Entry("IF", here, {})), left, s)
    BY <1>2, <1>3, PushStep DEF s
  <2> QED BY <2>1, <2>2 DEF s
<1> QED BY <1>4, CompileStep DEF If

LEMMA BeginStacks == StacksInStep /\ Begin => StacksInStep'
<1> SUFFICES ASSUME StacksInStep, Begin PROVE StacksInStep'
  OBVIOUS
<1> DEFINE i == Item("dest", Len(ref.text), {})
<1>1. RefShape(ref)
  BY DEF StacksInStep, InStep
<1>2. ItemShape(i) /\ i.kind = Standard("BEGIN") /\ "BEGIN" \in CtrlKinds
  BY ItemIsShaped, StandardOf DEF CfKinds, CtrlKinds
<1>3. Meaning(ref, "BEGIN") = Holds(ref, i)
  BY MeaningOf
<1> HIDE DEF i
<1>4. RefShape(Holds(ref, i)) /\ Holds(ref, i).cf = Append(ref.cf, i)
  BY <1>1, <1>2, HoldsRef
<1>5. ref.ok => InStep(Append(ctrl, Entry("BEGIN", here, {})), left, Meaning(ref, "BEGIN"))
  BY <1>2, <1>3, <1>4, PushStep
<1> QED BY <1>5, CompileStep DEF Begin

LEMMA CaseStacks == StacksInStep /\ Case => StacksInStep'
<1> SUFFICES ASSUME StacksInStep, Case PROVE StacksInStep'
  OBVIOUS
<1> DEFINE i == Item("case-sys", 0, {})
<1>1. RefShape(ref)
  BY DEF StacksInStep, InStep
<1>2. ItemShape(i) /\ i.kind = Standard("CASE") /\ "CASE" \in CtrlKinds
  BY ItemIsShaped, StandardOf DEF CfKinds, CtrlKinds
<1>3. Meaning(ref, "CASE") = Holds(ref, i)
  BY MeaningOf
<1> HIDE DEF i
<1>4. RefShape(Holds(ref, i)) /\ Holds(ref, i).cf = Append(ref.cf, i)
  BY <1>1, <1>2, HoldsRef
<1>5. ref.ok => InStep(Append(ctrl, Entry("CASE", 0, {})), left, Meaning(ref, "CASE"))
  BY <1>2, <1>3, <1>4, PushStep
<1> QED BY <1>5, CompileStep DEF Case

LEMMA DoStacks == StacksInStep /\ (Do \/ QDo) => StacksInStep'
<1>0. SUFFICES ASSUME StacksInStep, Do \/ QDo PROVE StacksInStep'
  OBVIOUS
<1>1. RefShape(ref) /\ "DO" \in CtrlKinds
  BY <1>0 DEF StacksInStep, InStep, CtrlKinds
<1>2. ASSUME NEW op, NEW places, NEW index, NEW leaves, ref.ok
      PROVE  InStep(Append(ctrl, Entry("DO", index, leaves)), left,
                    Holds(Says(ref, op, 0), Item("do-sys", Len(ref.text) + 1, places)))
  <2> DEFINE i == Item("do-sys", Len(ref.text) + 1, places)
             a == Says(ref, op, 0)
  <2>1. ItemShape(i) /\ i.kind = Standard("DO")
    BY ItemIsShaped, StandardOf DEF CfKinds
  <2>2. RefShape(a) /\ a.cf = ref.cf
    BY <1>1, SaysRef
  <2> HIDE DEF i, a
  <2>3. RefShape(Holds(a, i)) /\ Holds(a, i).cf = Append(ref.cf, i)
    BY <2>1, <2>2, HoldsRef
  <2>4. InStep(Append(ctrl, Entry("DO", index, leaves)), left, Holds(a, i))
    BY <1>0, <1>1, <1>2, <2>1, <2>3, PushStep
  <2> QED BY <2>4 DEF a, i
<1>3. CASE Do
  <2> DEFINE s == Holds(Says(ref, "DO", 0), Item("do-sys", Len(ref.text) + 1, {}))
             k == Append(ctrl, Entry("DO", here + 1, {}))
  <2>0. Meaning(ref, "DO") = s
    BY MeaningOf
  <2>1. ref.ok => InStep(k, left, Meaning(ref, "DO"))
    BY <2>0, <1>2
  <2> QED BY <1>3, <2>1, CompileStep DEF Do
<1>4. CASE QDo
  <2> DEFINE s == Holds(Says(ref, "?DO", 0), Item("do-sys", Len(ref.text) + 1, {Len(ref.text)}))
             k == Append(ctrl, Entry("DO", here + 1, {here}))
  <2>0. Meaning(ref, "?DO") = s
    BY MeaningOf
  <2>1. ref.ok => InStep(k, left, Meaning(ref, "?DO"))
    BY <2>0, <1>2
  <2> QED BY <1>4, <2>1, CompileStep DEF QDo
<1> QED BY <1>0, <1>3, <1>4

LEMMA OfStacks == StacksInStep /\ Of => StacksInStep'
<1> SUFFICES ASSUME StacksInStep, Of PROVE StacksInStep'
  OBVIOUS
<1>1. RefShape(ref) /\ "OF" \in CtrlKinds
  BY DEF StacksInStep, InStep, CtrlKinds
<1>2. PICK i : ItemShape(i) /\ i.kind = "of-sys" /\ Clause(ref).cf = Append(ref.cf, i)
  BY <1>1, ClauseRef
<1>3. RefShape(Clause(ref)) /\ i.kind = Standard("OF")
  BY <1>1, <1>2, ClauseRef, StandardOf
<1>4. ref.ok => InStep(Append(ctrl, Entry("OF", here + 2, {})), left, Meaning(ref, "OF"))
  <2> DEFINE s == Clause(ref)
  <2>1. Meaning(ref, "OF") = s
    BY MeaningOf
  <2> HIDE DEF s
  <2>2. ref.ok => InStep(Append(ctrl, Entry("OF", here + 2, {})), left, s)
    BY <1>1, <1>2, <1>3, PushStep DEF s
  <2> QED BY <2>1, <2>2
<1> QED BY <1>4, CompileStep DEF Of

LEMMA WhileStacks == StacksInStep /\ While => StacksInStep'
<1> SUFFICES ASSUME StacksInStep, While PROVE StacksInStep'
  OBVIOUS
<1> DEFINE e == Entry("WHILE", here, {})
<1>1. EntryShape(e) /\ e.kind = "WHILE"
  BY EntryIsShaped DEF CtrlKinds
<1>2. Compile("WHILE", Emitted("0BR", 0), Append(ctrl, e))
  BY DEF While
<1> HIDE DEF e
<1>3. ref.ok => InStep(Append(ctrl, e), left, Meaning(ref, "WHILE"))
  <2>1. Meaning(ref, "WHILE") = Rolls(Forward(ref, "0BR"))
    BY MeaningOf
  <2>2. ref.ok => InStep(Append(ctrl, e), left, Rolls(Forward(ref, "0BR")))
    BY <1>1, WhileStep DEF StacksInStep
  <2> QED BY <2>1, <2>2
<1> QED BY <1>2, <1>3, CompileStep

LEMMA ElseStacks == StacksInStep /\ Else => StacksInStep'
<1> SUFFICES ASSUME StacksInStep, Else PROVE StacksInStep'
  OBVIOUS
<1> DEFINE e == Entry("ELSE", here, {})
           c == Patch(Emitted("BR", 0), {Last(ctrl).index}, here + 1)
<1>1. EntryShape(e) /\ e.kind = "ELSE"
  BY EntryIsShaped DEF CtrlKinds
<1>2. Compile("ELSE", c, Append(Front(ctrl), e))
  BY DEF Else
<1>3. ctrl # <<>> /\ Last(ctrl).kind \in {"IF", "WHILE"}
  BY DEF Else, TopIs
<1> HIDE DEF e, c
<1>4. ref.ok => InStep(Append(Front(ctrl), e), left, Meaning(ref, "ELSE"))
  <2>1. Meaning(ref, "ELSE") = Lands(Rolls(Forward(ref, "BR")))
    BY MeaningOf
  <2>2. ref.ok => InStep(Append(Front(ctrl), e), left, Lands(Rolls(Forward(ref, "BR"))))
    BY <1>1, <1>3, ElseStep DEF StacksInStep
  <2> QED BY <2>1, <2>2
<1> QED BY <1>2, <1>4, CompileStep

LEMMA ThenStacks == StacksInStep /\ Then => StacksInStep'
<1> SUFFICES ASSUME StacksInStep, Then PROVE StacksInStep'
  OBVIOUS
<1> DEFINE c == Patch(code, {Last(ctrl).index}, here)
           s == Lands(ref)
<1>1. Compile("THEN", c, Front(ctrl))
  BY DEF Then
<1>2. ctrl # <<>> /\ Last(ctrl).kind \in {"IF", "ELSE", "WHILE"}
  BY DEF Then, TopIs
<1> HIDE DEF c
<1>3. Dropped(ref, s, "orig")
  BY LandsRef DEF StacksInStep, InStep
<1>4. Meaning(ref, "THEN") = s
  BY MeaningOf
<1> HIDE DEF s
<1>5. Standard(Last(ctrl).kind) = "orig"
  BY <1>2, StandardOf
<1>6. ref.ok => InStep(Front(ctrl), left, s)
  BY <1>2, <1>3, <1>5, StepDropped DEF StacksInStep
<1> QED BY <1>1, <1>4, <1>6, CompileStep

LEMMA AgainStacks == StacksInStep /\ Again => StacksInStep'
<1> SUFFICES ASSUME StacksInStep, Again PROVE StacksInStep'
  OBVIOUS
<1> DEFINE c == Emitted("BR", Last(ctrl).index)
           s == Back(ref, "BR")
<1>1. Compile("AGAIN", c, Front(ctrl))
  BY DEF Again
<1>2. ctrl # <<>> /\ Last(ctrl).kind \in {"BEGIN"}
  BY DEF Again, TopIs
<1> HIDE DEF c
<1>3. Dropped(ref, s, "dest")
  BY BackRef DEF StacksInStep, InStep
<1>4. Meaning(ref, "AGAIN") = s
  BY MeaningOf
<1> HIDE DEF s
<1>5. Standard(Last(ctrl).kind) = "dest"
  BY <1>2, StandardOf
<1>6. ref.ok => InStep(Front(ctrl), left, s)
  BY <1>2, <1>3, <1>5, StepDropped DEF StacksInStep
<1> QED BY <1>1, <1>4, <1>6, CompileStep

LEMMA EndCaseStacks == StacksInStep /\ EndCase => StacksInStep'
<1> SUFFICES ASSUME StacksInStep, EndCase PROVE StacksInStep'
  OBVIOUS
<1> DEFINE c == Patch(Emitted("DROP", 0), Last(ctrl).leaves, here + 1)
           s == CaseEnds(ref)
<1>1. Compile("ENDCASE", c, Front(ctrl))
  BY DEF EndCase
<1>2. ctrl # <<>> /\ Last(ctrl).kind \in {"CASE"}
  BY DEF EndCase, TopIs
<1> HIDE DEF c
<1>3. Dropped(ref, s, "case-sys")
  BY CaseEndsRef DEF StacksInStep, InStep
<1>4. Meaning(ref, "ENDCASE") = s
  BY MeaningOf
<1> HIDE DEF s
<1>5. Standard(Last(ctrl).kind) = "case-sys"
  BY <1>2, StandardOf
<1>6. ref.ok => InStep(Front(ctrl), left, s)
  BY <1>2, <1>3, <1>5, StepDropped DEF StacksInStep
<1> QED BY <1>1, <1>4, <1>6, CompileStep

LEMMA LoopStacks ==
  ASSUME NEW t \in {"LOOP", "+LOOP"}, StacksInStep, Loop(t)
  PROVE  StacksInStep'
<1> DEFINE c == Patch(Emitted(t, Last(ctrl).index), Last(ctrl).leaves, here + 1)
           s == Loops(ref, t)
<1>1. Compile(t, c, Front(ctrl))
  BY DEF Loop
<1>2. ctrl # <<>> /\ Last(ctrl).kind \in {"DO"}
  BY DEF Loop, TopIs
<1> HIDE DEF c
<1>3. Dropped(ref, s, "do-sys")
  BY LoopsRef DEF StacksInStep, InStep
<1>4. Meaning(ref, t) = s
  BY MeaningOf
<1> HIDE DEF s
<1>5. Standard(Last(ctrl).kind) = "do-sys"
  BY <1>2, StandardOf
<1>6. ref.ok => InStep(Front(ctrl), left, s)
  BY <1>2, <1>3, <1>5, StepDropped DEF StacksInStep
<1> QED BY <1>1, <1>4, <1>6, CompileStep

LEMMA RepeatStacks == StacksInStep /\ Repeat => StacksInStep'
<1> SUFFICES ASSUME StacksInStep, Repeat PROVE StacksInStep'
  OBVIOUS
<1> DEFINE c == Patch(Emitted("BR", ctrl[Max(Begins)].index), {Last(ctrl).index}, here + 1)
           P == Begins
<1>1. Compile("REPEAT", c, RemoveAt(Front(ctrl), Max(P)))
  BY DEF Repeat
<1>2. ctrl # <<>> /\ Last(ctrl).kind = "WHILE" /\ P # {}
  BY DEF Repeat, TopIs
<1>3. P = {k \in DOMAIN ctrl : ctrl[k].kind = "BEGIN"}
  BY DEF Begins
<1> HIDE DEF c, P
<1>4. Meaning(ref, "REPEAT") = Lands(Back(ref, "BR"))
  BY MeaningOf
<1>5. ref.ok => InStep(RemoveAt(Front(ctrl), Max(P)), left, Lands(Back(ref, "BR")))
  BY <1>2, <1>3, RepeatStep DEF StacksInStep
<1> QED BY <1>1, <1>4, <1>5, CompileStep

LEMMA UntilStacks == StacksInStep /\ Until => StacksInStep'
<1>0. SUFFICES ASSUME StacksInStep, Until PROVE StacksInStep'
  OBVIOUS
<1> DEFINE s == Back(ref, "0BR")
<1>1. Meaning(ref, "UNTIL") = s
  BY MeaningOf
<1>2. CASE TopIs({"BEGIN"}) /\ Compile("UNTIL", Emitted("0BR", Last(ctrl).index), Front(ctrl))
  <2>1. ctrl # <<>> /\ Last(ctrl).kind = "BEGIN"
    BY <1>2 DEF TopIs
  <2>2. Dropped(ref, s, "dest")
    BY <1>0, BackRef DEF StacksInStep, InStep
  <2> HIDE DEF s
  <2>3. Standard(Last(ctrl).kind) = "dest"
    BY <2>1, StandardOf
  <2>4. ref.ok => InStep(Front(ctrl), left, s)
    BY <1>0, <2>1, <2>2, <2>3, StepDropped DEF StacksInStep
  <2> QED BY <1>1, <1>2, <2>4, CompileStep
<1>3. CASE /\ TopIs({"WHILE"}) /\ Len(ctrl) > 1 /\ Last(Front(ctrl)).kind = "BEGIN"
           /\ Compile("UNTIL", Emitted("0BR", Last(Front(ctrl)).index),
                      Append(Front(Front(ctrl)), Last(ctrl)))
  <2>1. Last(ctrl).kind = "WHILE"
    BY <1>3 DEF TopIs
  <2>2. ref.ok => InStep(Append(Front(Front(ctrl)), Last(ctrl)), left, s)
    BY <1>0, <1>3, <2>1, UntilStep DEF StacksInStep
  <2> HIDE DEF s
  <2> QED BY <1>1, <1>3, <2>2, CompileStep
<1> QED BY <1>0, <1>2, <1>3 DEF Until

LEMMA LeaveStacks == StacksInStep /\ Leave => StacksInStep'
<1> SUFFICES ASSUME StacksInStep, Leave PROVE StacksInStep'
  OBVIOUS
<1> DEFINE P == Dos
           d == [ctrl EXCEPT ![Max(P)].leaves = @ \cup {here}]
<1>1. Compile("LEAVE", Emitted("LEAVE", 0), d)
  BY DEF Leave
<1>2. P # {} /\ P = {k \in DOMAIN ctrl : ctrl[k].kind = "DO"}
  BY DEF Leave, Dos
<1> HIDE DEF P
<1>3. Meaning(ref, "LEAVE") = Leaves(ref)
  BY MeaningOf
<1>4. ref.ok => InStep(d, left, Leaves(ref))
  BY <1>2, LeaveStep DEF StacksInStep
<1> HIDE DEF d
<1> QED BY <1>1, <1>3, <1>4, CompileStep

LEMMA EndOfStacks == StacksInStep /\ EndOf => StacksInStep'
<1> SUFFICES ASSUME StacksInStep, EndOf PROVE StacksInStep'
  OBVIOUS
<1> DEFINE c == Patch(Emitted("BR", 0), {Last(ctrl).index}, here + 1)
           d == [Front(ctrl) EXCEPT ![Len(ctrl) - 1].leaves = @ \cup {here}]
<1>1. Compile("ENDOF", c, d)
  BY DEF EndOf
<1>2. ctrl # <<>> /\ Last(ctrl).kind = "OF"
  BY DEF EndOf, TopIs
<1> HIDE DEF c
<1>3. Meaning(ref, "ENDOF") = ClauseEnds(ref)
  BY MeaningOf
<1>4. ref.ok => InStep(d, left, ClauseEnds(ref))
  BY <1>2, EndOfStep DEF StacksInStep
<1> HIDE DEF d
<1> QED BY <1>1, <1>3, <1>4, CompileStep

LEMMA CsRollStacks == StacksInStep /\ CsRoll => StacksInStep'
<1> SUFFICES ASSUME StacksInStep, CsRoll PROVE StacksInStep'
  OBVIOUS
<1> DEFINE d == IF Len(ctrl) > 1
                THEN Front(Front(ctrl)) \o <<Last(ctrl), Last(Front(ctrl))>> ELSE ctrl
           s == Rolls(ref)
<1>1. Compile("1 CS-ROLL", code, d)
  BY DEF CsRoll
<1>2. Meaning(ref, "1 CS-ROLL") = s
  BY MeaningOf
<1>3. IsCtrl(ctrl)
  BY DEF StacksInStep, InStep
<1>4. IsCtrl(d) /\ (Len(ctrl) > 1 => d = Twisted(ctrl))
  BY <1>3, TwistedIs
<1>5. RefShape(s) /\ (s.ok => ref.ok /\ Len(ref.cf) > 1 /\ s.cf = Twisted(ref.cf))
  BY RollsRef DEF StacksInStep, InStep
<1> HIDE DEF d, s
<1>6. ref.ok => InStep(d, left, s)
  BY <1>4, <1>5, StepTwisted DEF StacksInStep
<1> QED BY <1>1, <1>2, <1>6, CompileStep

LEMMA PlainStacks ==
  ASSUME NEW t \in {"word", "EXIT"}, StacksInStep, Plain(t)
  PROVE  StacksInStep'
<1> DEFINE s == Says(ref, t, 0)
<1>1. Compile(t, Emitted(t, 0), ctrl)
  BY DEF Plain
<1>2. Meaning(ref, t) = s
  BY MeaningOf
<1>3. RefShape(s) /\ s.cf = ref.cf /\ s.ok = ref.ok
  BY SaysRef DEF StacksInStep, InStep
<1> HIDE DEF s
<1>4. InStep(ctrl, left, s)
  BY <1>3, StepSame DEF StacksInStep
<1> QED BY <1>1, <1>2, <1>4, CompileStep

-----------------------------------------------------------------------------
(* The other actions *)

\* The text grows, the stacks do not.
LEMMA UnchangedStacks ==
  ASSUME StacksInStep, ctrl' = ctrl, left' = left, RefShape(ref'),
         ref'.ok => ref.ok /\ ref'.cf = ref.cf
  PROVE  StacksInStep'
<1> DEFINE s == ref'
<1>1. RefShape(s) /\ (s.ok => ref.ok /\ s.cf = ref.cf)
  OBVIOUS
<1> HIDE DEF s
<1>2. InStep(ctrl, left, s)
  BY <1>1, StepSame DEF StacksInStep
<1> QED BY <1>2 DEF StacksInStep, s

\* A word that does not fit: the definition has no meaning any more.
LEMMA RejectStacks ==
  ASSUME NEW t, StacksInStep, Reject(t)
  PROVE  StacksInStep'
<1> DEFINE d == IF Pops(t) /\ ctrl # <<>> THEN Front(ctrl) ELSE ctrl
           s == Wrong(ref)
<1>1. ctrl' = d /\ ref' = s /\ left' = left
  BY DEF Reject
<1>2. IsCtrl(ctrl) /\ IsCtrl(left) /\ RefShape(ref)
  BY DEF StacksInStep, InStep
<1>3. IsCtrl(d)
  BY <1>2, CtrlFront
<1>4. RefShape(s) /\ s.ok = FALSE
  BY <1>2, WrongRef
<1> HIDE DEF d, s
<1>5. InStep(d, left, s)
  BY <1>2, <1>3, <1>4 DEF InStep
<1> QED BY <1>1, <1>5 DEF StacksInStep

LEMMA CompiledStacks ==
  ASSUME NEW c, NEW w, StacksInStep, Compiled(c, w)
  PROVE  StacksInStep'
<1>1. ctrl' = ctrl /\ left' = left /\ ref' = Says(ref, "CALL", w)
  BY DEF Compiled
<1>2. RefShape(Says(ref, "CALL", w)) /\ Says(ref, "CALL", w).cf = ref.cf
      /\ Says(ref, "CALL", w).ok = ref.ok
  BY SaysRef DEF StacksInStep, InStep
<1> QED BY <1>1, <1>2, UnchangedStacks

LEMMA ChildStacks ==
  ASSUME NEW w, StacksInStep, CallChild(w)
  PROVE  StacksInStep'
<1> DEFINE a == Says(ref, "LIT", 0)
           s == Says(a, "CALL", w)
<1>1. ctrl' = ctrl /\ left' = left /\ ref' = s
  BY DEF CallChild
<1>2. RefShape(a) /\ a.cf = ref.cf /\ a.ok = ref.ok
  BY SaysRef DEF StacksInStep, InStep
<1> HIDE DEF a
<1>3. RefShape(s) /\ s.cf = a.cf /\ s.ok = a.ok
  BY <1>2, SaysRef
<1> HIDE DEF s
<1> QED BY <1>1, <1>2, <1>3, UnchangedStacks

LEMMA DoesStacks == StacksInStep /\ Does => StacksInStep'
<1> SUFFICES ASSUME StacksInStep, Does PROVE StacksInStep'
  OBVIOUS
<1> DEFINE a == Says(ref, "(DOES>)", 0)
           b == Says(a, "EXIT", 0)
           s == IF ref.cf = <<>> THEN b ELSE Wrong(b)
<1>1. Meaning(ref, "DOES>") = b
  BY MeaningOf
<1>2. ctrl' = ctrl /\ left' = left /\ ref' = s
  BY <1>1 DEF Does
<1>3. RefShape(a) /\ a.cf = ref.cf /\ a.ok = ref.ok
  BY SaysRef DEF StacksInStep, InStep
<1> HIDE DEF a
<1>4. RefShape(b) /\ b.cf = a.cf /\ b.ok = a.ok
  BY <1>3, SaysRef
<1> HIDE DEF b
<1>5. RefShape(s) /\ (s.ok => ref.ok /\ s.cf = ref.cf)
  BY <1>3, <1>4, WrongRef
<1> HIDE DEF s
<1> QED BY <1>2, <1>5, UnchangedStacks

LEMMA SemicolonStacks == StacksInStep /\ (Semicolon \/ SemicolonUnbalanced) => StacksInStep'
<1>0. SUFFICES ASSUME StacksInStep, Semicolon \/ SemicolonUnbalanced PROVE StacksInStep'
  OBVIOUS
<1>1. ctrl' = ctrl /\ left' = ctrl /\ ref' = NoText
  BY <1>0 DEF Semicolon, SemicolonUnbalanced, Fresh
<1>2. InStep(ctrl, ctrl, NoText)
  BY <1>0, Begun DEF StacksInStep, InStep
<1> QED BY <1>1, <1>2 DEF StacksInStep

LEMMA StacksKept == StacksInStep /\ UNCHANGED <<ctrl, left, ref>> => StacksInStep'
BY DEF StacksInStep

LEMMA NextStacks == StacksInStep /\ [Next]_vars => StacksInStep'
<1> SUFFICES ASSUME StacksInStep, [Next]_vars PROVE StacksInStep'
  OBVIOUS
<1>1. CASE \E t \in {"word", "EXIT"} : Plain(t)
  BY <1>1, PlainStacks
<1>2. CASE If \/ Else \/ Then
  BY <1>2, IfStacks, ElseStacks, ThenStacks
<1>3. CASE Begin \/ While \/ Repeat \/ Again \/ Until
  BY <1>3, BeginStacks, WhileStacks, RepeatStacks, AgainStacks, UntilStacks
<1>4. CASE Do \/ QDo \/ Loop("LOOP") \/ Loop("+LOOP") \/ Leave
  BY <1>4, DoStacks, LoopStacks, LeaveStacks
<1>5. CASE Case \/ Of \/ EndOf \/ EndCase \/ CsRoll
  BY <1>5, CaseStacks, OfStacks, EndOfStacks, EndCaseStacks, CsRollStacks
<1>6. CASE \E t \in UNION {lesson[n].words : n \in DOMAIN lesson} : Reject(t)
  BY <1>6, RejectStacks
<1>7. CASE Recurse
  BY <1>7, CompiledStacks DEF Recurse
<1>8. CASE \E w \in DOMAIN dict : Call(w) \/ CallChild(w)
  BY <1>8, CompiledStacks, ChildStacks DEF Call
<1>9. CASE Does
  BY <1>9, DoesStacks
<1>10. CASE Semicolon \/ SemicolonUnbalanced
  BY <1>10, SemicolonStacks
<1>11. CASE (\E w \in DOMAIN dict : Start(w)) \/ RunSilent("code") \/ RunSilent("text") \/ RunVisible
  BY <1>11, StacksKept DEF Start, RunSilent, RunVisible, definition
<1>12. CASE UNCHANGED vars
  BY <1>12, StacksKept DEF vars, definition
<1> QED BY <1>1, <1>2, <1>3, <1>4, <1>5, <1>6, <1>7, <1>8, <1>9, <1>10, <1>11, <1>12 DEF Next

\* In every reachable state the code's control stack is what earlier
\* definitions left there and above it one entry for each item the standard's
\* control-flow stack has, kind by kind, as long as the text has a meaning.
THEOREM StacksAlwaysInStep == Spec => []StacksInStep
BY InitStacks, NextStacks, PTL DEF Spec

LEMMA StacksRestored == StacksInStep => ControlStackRestored
<1> SUFFICES ASSUME StacksInStep, ref.ok, ref.cf = <<>> PROVE ctrl = left
  BY DEF ControlStackRestored, Balanced
<1>1. InStep(ctrl, left, ref)
  BY DEF StacksInStep
<1>2. /\ IsCtrl(ctrl) /\ IsCtrl(left) /\ Kept(ctrl, left, <<>>)
      /\ Len(left) \in Nat /\ Len(ctrl) \in Nat
  BY <1>1, Shaped
<1>3. PICK S : ctrl \in Seq(S) /\ Entries(S)
  BY <1>2 DEF IsCtrl
<1>4. PICK S2 : left \in Seq(S2)
  BY <1>2 DEF IsCtrl
<1>5. ~ (Len(ctrl) > Len(left))
  <2> DEFINE cf == <<>>
  <2>1. cf \in Seq({}) /\ Things({}) /\ Kept(ctrl, left, cf) /\ cf = <<>>
    BY <1>2 DEF Things
  <2> HIDE DEF cf
  <2> QED BY <2>1, <1>2, <1>3, KeptEmpty
<1>6. Len(left) <= Len(ctrl) /\ \A k \in 1..Len(left) : ctrl[k] = left[k]
  BY <1>2 DEF Kept
<1>7. Len(ctrl) = Len(left)
  BY <1>2, <1>5, <1>6
<1> QED BY <1>3, <1>4, <1>6, <1>7, LenProperties

\* A definition that has a meaning neither takes control-stack entries that
\* an abandoned one before it has left, nor leaves any of its own.
THEOREM ControlStack == Spec => []ControlStackRestored
BY StacksAlwaysInStep, StacksRestored, PTL
=============================================================================
