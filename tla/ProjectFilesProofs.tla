------------------------- MODULE ProjectFilesProofs -------------------------
(***************************************************************************)
(* The files of a project for every tree, every set of calls and any number *)
(* of them: nothing outside is touched, calls are changes at once, the log  *)
(* has no phase that was not checked and the panel shows the plan.  And what *)
(* a plan of any length keeps when it is saved and loaded again.            *)
(***************************************************************************)
EXTENDS ProjectFiles, Inputs, OperatorProofs, FiniteSetTheorems

Names == Seq(STRING)

-----------------------------------------------------------------------------
(* Prefixes of paths.                                                       *)

\* A prefix, name by name.
LEMMA PrefixByName ==
  ASSUME NEW s \in Names, NEW t \in Names
  PROVE  IsPrefix(s, t) <=> Len(s) <= Len(t) /\ \A k \in 1 .. Len(s) : s[k] = t[k]
<1>1. Prefix(s, Len(s)) = s
  BY PrefixFull DEF Names
<1>2. IsPrefix(s, t) <=> Len(s) <= Len(t) /\ s = Prefix(t, Len(s))
  BY <1>1 DEF IsPrefix, Prefix
<1>3. ASSUME Len(s) <= Len(t)
      PROVE  s = Prefix(t, Len(s)) <=> \A k \in 1 .. Len(s) : s[k] = t[k]
  <2>1. Len(s) \in Nat /\ Len(s) \in 0 .. Len(t)
    BY <1>3 DEF Names
  <2>2. /\ Prefix(t, Len(s)) \in Names /\ Len(Prefix(t, Len(s))) = Len(s)
        /\ \A k \in 1 .. Len(s) : Prefix(t, Len(s))[k] = t[k]
    BY <2>1, PrefixIs DEF Names
  <2> QED BY <2>1, <2>2, SeqEqual DEF Names
<1> QED BY <1>2, <1>3

\* The ancestors of a path are its strict prefixes.
LEMMA AncestorIs ==
  ASSUME NEW t \in Names, NEW s
  PROVE  s \in Ancestors(t) <=> s \in Names /\ IsPrefix(s, t) /\ Len(s) < Len(t)
<1>1. ASSUME s \in Ancestors(t) PROVE s \in Names /\ IsPrefix(s, t) /\ Len(s) < Len(t)
  <2>1. PICK i \in 0 .. Len(t) - 1 : s = Prefix(t, i)
    BY <1>1 DEF Ancestors, Prefix
  <2>2. i \in 0 .. Len(t) /\ i < Len(t)
    BY DEF Names
  <2>3. s \in Names /\ Len(s) = i /\ \A k \in 1 .. i : s[k] = t[k]
    BY <2>1, <2>2, PrefixIs DEF Names
  <2> QED BY <2>2, <2>3, PrefixByName
<1>2. ASSUME s \in Names, IsPrefix(s, t), Len(s) < Len(t) PROVE s \in Ancestors(t)
  <2>1. Len(s) \in 0 .. Len(t) - 1
    BY <1>2 DEF Names
  <2>2. s = SubSeq(t, 1, Len(s))
    BY <1>2, PrefixFull DEF IsPrefix, Prefix, Names
  <2> QED BY <2>1, <2>2 DEF Ancestors
<1> QED BY <1>1, <1>2

\* The parent is the longest ancestor.
LEMMA ParentIs ==
  ASSUME NEW t \in Names, t # <<>>
  PROVE  /\ Parent(t) \in Names /\ Len(Parent(t)) = Len(t) - 1
         /\ \A s \in Names : IsPrefix(s, Parent(t)) <=> IsPrefix(s, t) /\ Len(s) < Len(t)
<1>1. Len(t) \in Nat /\ Len(t) > 0
  BY DEF Names
<1>2. Parent(t) = Prefix(t, Len(t) - 1)
  BY DEF Parent, Front, Prefix
<1>3. /\ Parent(t) \in Names /\ Len(Parent(t)) = Len(t) - 1
      /\ \A k \in 1 .. Len(t) - 1 : Parent(t)[k] = t[k]
  BY <1>1, <1>2, PrefixIs DEF Names
<1>4. ASSUME NEW s \in Names
      PROVE  IsPrefix(s, Parent(t)) <=> IsPrefix(s, t) /\ Len(s) < Len(t)
  <2>1. Len(s) \in Nat
    BY DEF Names
  <2>2. IsPrefix(s, Parent(t)) <=> Len(s) <= Len(t) - 1 /\ \A k \in 1 .. Len(s) : s[k] = Parent(t)[k]
    BY <1>3, PrefixByName
  <2>3. IsPrefix(s, t) <=> Len(s) <= Len(t) /\ \A k \in 1 .. Len(s) : s[k] = t[k]
    BY PrefixByName
  <2> QED BY <1>1, <1>3, <2>1, <2>2, <2>3
<1> QED BY <1>3, <1>4

\* A prefix of a prefix is a prefix.
LEMMA PrefixTransitive ==
  ASSUME NEW s \in Names, NEW t \in Names, NEW u \in Names, IsPrefix(s, t), IsPrefix(t, u)
  PROVE  IsPrefix(s, u)
<1>1. Len(s) \in Nat /\ Len(t) \in Nat /\ Len(u) \in Nat
  BY DEF Names
<1> QED BY <1>1, PrefixByName

\* A path, and the root, is a prefix of the path.
LEMMA PrefixReflexive ==
  ASSUME NEW s \in Names PROVE IsPrefix(s, s) /\ IsPrefix(<<>>, s)
<1>1. Len(s) \in Nat /\ <<>> \in Names /\ Len(<<>>) = 0
  BY DEF Names
<1> QED BY <1>1, PrefixByName

\* Of two prefixes of a path one is a prefix of the other.
LEMMA PrefixesCompare ==
  ASSUME NEW s \in Names, NEW t \in Names, NEW u \in Names,
         IsPrefix(s, u), IsPrefix(t, u), Len(s) <= Len(t)
  PROVE  IsPrefix(s, t)
<1>1. Len(s) \in Nat /\ Len(t) \in Nat /\ Len(u) \in Nat
  BY DEF Names
<1> QED BY <1>1, PrefixByName

\* A prefix as long as the path is the path.
LEMMA SamePath ==
  ASSUME NEW s \in Names, NEW t \in Names, IsPrefix(s, t), Len(s) = Len(t)
  PROVE  s = t
<1>1. Len(s) \in Nat
  BY DEF Names
<1> QED BY <1>1, PrefixByName, SeqEqual DEF Names

\* A path and what begins with it are both inside or both outside.
LEMMA PrefixInside ==
  ASSUME NEW s \in Names, NEW t \in Names, s # <<>>, IsPrefix(s, t)
  PROVE  t # <<>> /\ Head(s) = Head(t) /\ (Inside(s) <=> Inside(t))
<1>1. Len(s) \in Nat /\ Len(s) > 0 /\ Len(t) \in Nat /\ Len(s) <= Len(t) /\ s[1] = t[1]
  BY PrefixByName DEF Names
<1>2. t # <<>> /\ Head(s) = s[1] /\ Head(t) = t[1]
  BY <1>1 DEF Names
<1> QED BY <1>1, <1>2 DEF Inside

-----------------------------------------------------------------------------
(* Paths that resolve() yields.                                             *)

\* A path inside that goes through none of the links.
Clean(links, path) ==
    path \in Names /\ Inside(path) /\ (path # <<>> => <<Head(path)>> \notin DOMAIN links)

\* Where the walk over the segments stands after each of them.
IsWalk(g, links, rel) ==
    g = [i \in 0 .. Len(rel) |->
            IF i = 0 THEN <<>>
            ELSE IF rel[i] \in {"", "."} THEN g[i - 1]
            ELSE Led(links, Append(g[i - 1], rel[i]))]

\* The walk over the segments ends.
LEMMA WalkExists ==
  ASSUME NEW links, NEW rel \in Names
  PROVE  \E g : IsWalk(g, links, rel)
<1> DEFINE Step(at, i) == IF rel[i] \in {"", "."} THEN at ELSE Led(links, Append(at, rel[i]))
           Walk(g, m) == g = [i \in 0 .. m |-> IF i = 0 THEN <<>> ELSE Step(g[i - 1], i)]
           S == {m \in 0 .. Len(rel) : \A g : ~Walk(g, m)}
<1>1. Len(rel) \in Nat
  BY DEF Names
<1>2. S = {}
  <2> SUFFICES ASSUME S # {} PROVE FALSE
    OBVIOUS
  <2> HIDE DEF Walk, Step
  <2>1. S \in SUBSET Nat
    BY <1>1
  <2>2. PICK m \in S : \A k \in S : m <= k
    <3> HIDE DEF S
    <3> QED BY <2>1, LeastElement
  <2>3. CASE m = 0
    <3> DEFINE h == [i \in 0 .. 0 |-> <<>>]
    <3>1. Walk(h, 0)
      BY DEF Walk
    <3> QED BY <2>2, <2>3, <3>1
  <2>4. CASE m # 0
    <3>1. m \in Nat /\ m - 1 \in 0 .. Len(rel) /\ m - 1 \in Nat /\ ~(m <= m - 1)
      BY <1>1, <2>2, <2>4
    <3>2. m - 1 \notin S
      BY <2>2, <3>1
    <3>3. PICK g : Walk(g, m - 1)
      BY <3>1, <3>2
    <3> DEFINE h == [i \in 0 .. m |-> IF i = m THEN Step(g[m - 1], m) ELSE g[i]]
    <3>4. ASSUME NEW i \in 0 .. m
          PROVE  h[i] = IF i = 0 THEN <<>> ELSE Step(h[i - 1], i)
      <4>1. CASE i = m
        <5>1. h[m] = Step(g[m - 1], m) /\ h[m - 1] = g[m - 1]
          BY <3>1
        <5> QED BY <2>4, <4>1, <5>1
      <4>2. CASE i # m
        <5>1. i \in 0 .. m - 1 /\ h[i] = g[i]
          BY <3>1, <4>2
        <5>2. g[i] = IF i = 0 THEN <<>> ELSE Step(g[i - 1], i)
          BY <3>3, <5>1 DEF Walk
        <5>3. i # 0 => h[i - 1] = g[i - 1]
          BY <3>1, <5>1
        <5> QED BY <5>1, <5>2, <5>3
      <4> QED BY <4>1, <4>2
    <3>5. h = [i \in 0 .. m |-> IF i = 0 THEN <<>> ELSE Step(h[i - 1], i)]
      <4>1. h = [i \in 0 .. m |-> h[i]]
        OBVIOUS
      <4> HIDE DEF h
      <4> QED BY <3>4, <4>1
    <3>6. Walk(h, m)
      BY <3>5 DEF Walk
    <3> QED BY <2>2, <3>6
  <2> QED BY <2>3, <2>4
<1>3. \E g : Walk(g, Len(rel))
  <2> HIDE DEF Walk
  <2>1. Len(rel) \in 0 .. Len(rel) /\ Len(rel) \notin S
    BY <1>1, <1>2
  <2> QED BY <2>1
<1> QED BY <1>3 DEF IsWalk

\* Where links are in the root and lead out, a walk that ends inside has
\* followed none and goes through none.
LEMMA CanonicalIsClean ==
  ASSUME NEW links, NEW rel \in Names,
         \A p \in DOMAIN links : Len(p) = 1 /\ links[p] \in Names /\ ~Inside(links[p])
  PROVE  /\ Canonical(links, rel) \in Names
         /\ Inside(Canonical(links, rel)) => Clean(links, Canonical(links, rel))
<1> DEFINE at == CHOOSE g : IsWalk(g, links, rel)
           Good(p) == p \in Names /\ (Inside(p) => Clean(links, p))
           S == {m \in 0 .. Len(rel) : ~Good(at[m])}
<1>0. IsWalk(at, links, rel)
  BY WalkExists
<1>2. Canonical(links, rel) = at[Len(rel)]
  BY DEF Canonical, IsWalk
<1> HIDE DEF at
<1>1. \A i \in 0 .. Len(rel) :
         at[i] = IF i = 0 THEN <<>>
                 ELSE IF rel[i] \in {"", "."} THEN at[i - 1]
                 ELSE Led(links, Append(at[i - 1], rel[i]))
  BY <1>0 DEF IsWalk
<1>3. Len(rel) \in Nat
  BY DEF Names
<1>4. S = {}
  <2> SUFFICES ASSUME S # {} PROVE FALSE
    OBVIOUS
  <2> HIDE DEF Good
  <2>1. S \in SUBSET Nat
    BY <1>3
  <2>2. PICK m \in S : \A k \in S : m <= k
    <3> HIDE DEF S
    <3> QED BY <2>1, LeastElement
  <2>3. m # 0
    <3>1. 0 \in 0 .. Len(rel)
      BY <1>3
    <3>3. at[0] = <<>>
      BY <1>1, <3>1
    <3>2. Good(<<>>)
      BY DEF Good, Clean, Names
    <3> QED BY <2>2, <3>3, <3>2
  <2>4. m \in 0 .. Len(rel) /\ m - 1 \in 0 .. Len(rel) /\ ~(m <= m - 1) /\ m \in 1 .. Len(rel)
    BY <1>3, <2>2, <2>3
  <2>5. Good(at[m - 1])
    BY <2>2, <2>4
  <2>6. rel[m] \in STRING
    BY <2>4 DEF Names
  <2>7. at[m] = IF rel[m] \in {"", "."} THEN at[m - 1] ELSE Led(links, Append(at[m - 1], rel[m]))
    BY <1>1, <2>3, <2>4
  <2> DEFINE p == at[m - 1]
             q == Append(p, rel[m])
  <2>8. p \in Names
    BY <2>5 DEF Good
  <2> HIDE DEF p
  <2>9. q \in Names /\ q # <<>> /\ Len(q) = Len(p) + 1 /\ Head(q) = (IF p = <<>> THEN rel[m] ELSE Head(p))
    <3>1. /\ q \in Names /\ Len(q) = Len(p) + 1 /\ q[Len(p) + 1] = rel[m]
          /\ \A k \in 1 .. Len(p) : q[k] = p[k]
      BY <2>6, <2>8, AppendProperties DEF Names
    <3>2. Len(p) \in Nat /\ (p = <<>> <=> Len(p) = 0)
      BY <2>8, EmptySeq DEF Names
    <3>3. q # <<>> /\ Head(q) = q[1]
      BY <3>1, <3>2 DEF Names
    <3>4. p # <<>> => Head(p) = p[1] /\ 1 \in 1 .. Len(p)
      BY <2>8, <3>2 DEF Names
    <3> QED BY <3>1, <3>2, <3>3, <3>4
  <2>10. CASE q \in DOMAIN links
    <3>1. Led(links, q) \in Names /\ ~Inside(Led(links, q))
      BY <2>10 DEF Led
    <3> QED BY <2>2, <2>5, <2>7, <3>1 DEF Good, p
  <2>11. CASE q \notin DOMAIN links
    <3>1. Led(links, q) = q
      BY <2>11 DEF Led
    <3>2. ASSUME Inside(q) PROVE Clean(links, q)
      <4>1. CASE p = <<>>
        <5>1. q = <<Head(q)>>
          BY <4>1, <2>6, <2>9 DEF Names
        <5> QED BY <2>9, <2>11, <3>2, <5>1 DEF Clean
      <4>2. CASE p # <<>>
        <5>1. Inside(p)
          BY <2>9, <3>2, <4>2 DEF Inside
        <5>2. Clean(links, p)
          BY <2>5, <5>1 DEF Good, p
        <5> QED BY <2>9, <3>2, <4>2, <5>2 DEF Clean
      <4> QED BY <4>1, <4>2
    <3>3. Good(q)
      BY <2>9, <3>2 DEF Good
    <3> QED BY <2>2, <2>5, <2>7, <3>1, <3>3 DEF p
  <2> QED BY <2>10, <2>11
<1>5. Good(at[Len(rel)])
  BY <1>3, <1>4
<1> QED BY <1>2, <1>5

\* Links in the root that lead out.
LinksOut(links) ==
    \A p \in DOMAIN links :
        /\ p \in Names /\ Inside(p) /\ Len(p) = 1
        /\ links[p] \in Names /\ ~Inside(links[p])

Behind(links, path) == path # <<>> /\ <<Head(path)>> \in DOMAIN links

\* What a segment adds to a path.
LEMMA AppendedName ==
  ASSUME NEW p \in Names, NEW n \in STRING
  PROVE  /\ Append(p, n) \in Names /\ Append(p, n) # <<>> /\ Len(Append(p, n)) = Len(p) + 1
         /\ Head(Append(p, n)) = IF p = <<>> THEN n ELSE Head(p)
<1> DEFINE q == Append(p, n)
<1>1. /\ q \in Names /\ Len(q) = Len(p) + 1 /\ q[Len(p) + 1] = n
      /\ \A k \in 1 .. Len(p) : q[k] = p[k]
  <2>1. p \in Seq(STRING)
    BY DEF Names
  <2>2. /\ q \in Seq(STRING) /\ Len(q) = Len(p) + 1 /\ q[Len(p) + 1] = n
        /\ \A k \in 1 .. Len(p) : q[k] = p[k]
    <3>1. PICK S : S = STRING
      OBVIOUS
    <3>2. p \in Seq(S) /\ n \in S
      BY <2>1, <3>1
    <3>3. /\ Append(p, n) \in Seq(S) /\ Len(Append(p, n)) = Len(p) + 1
          /\ \A k \in 1 .. Len(p) : Append(p, n)[k] = p[k]
          /\ Append(p, n)[Len(p) + 1] = n
      BY <3>2, AppendProperties
    <3> QED BY <3>1, <3>3
  <2> QED BY <2>2 DEF Names
<1> HIDE DEF q
<1>2. Len(p) \in Nat /\ (p = <<>> <=> Len(p) = 0)
  <2>1. p \in Seq(STRING)
    BY DEF Names
  <2> QED BY <2>1, EmptySeq
<1>3. q # <<>> /\ Head(q) = q[1]
  BY <1>1, <1>2 DEF Names
<1>4. p # <<>> => Head(p) = p[1] /\ 1 \in 1 .. Len(p)
  BY <1>2 DEF Names
<1>5. Head(q) = IF p = <<>> THEN n ELSE Head(p)
  <2>1. CASE p = <<>>
    <3>1. Len(p) + 1 = 1
      BY <1>2, <2>1
    <3> QED BY <1>1, <1>3, <2>1, <3>1
  <2>2. CASE p # <<>>
    BY <1>1, <1>3, <1>4, <2>2
  <2> QED BY <2>1, <2>2
<1> QED BY <1>1, <1>3, <1>5 DEF q

\* With more links the walk ends where it did, or is led out where it went through
\* a name that has become a link.
LEMMA MoreLinks ==
  ASSUME NEW few, NEW many, LinksOut(few), LinksOut(many), NEW rel \in Names,
         \A p \in DOMAIN few : p \in DOMAIN many /\ many[p] = few[p]
  PROVE  \/ Canonical(many, rel) = Canonical(few, rel)
         \/ ~Inside(Canonical(many, rel)) /\ Behind(many, Canonical(few, rel))
<1> DEFINE f == CHOOSE g : IsWalk(g, few, rel)
           h == CHOOSE g : IsWalk(g, many, rel)
           Good(m) == /\ f[m] \in Names /\ h[m] \in Names
                      /\ f[m] = h[m] \/ (~Inside(h[m]) /\ Behind(many, f[m]))
           S == {m \in 0 .. Len(rel) : ~Good(m)}
<1>0. IsWalk(f, few, rel) /\ IsWalk(h, many, rel)
  BY WalkExists
<1>2. Canonical(few, rel) = f[Len(rel)] /\ Canonical(many, rel) = h[Len(rel)]
  BY DEF Canonical, IsWalk
<1> HIDE DEF f, h
<1>1. \A i \in 0 .. Len(rel) :
         /\ f[i] = IF i = 0 THEN <<>>
                   ELSE IF rel[i] \in {"", "."} THEN f[i - 1]
                   ELSE Led(few, Append(f[i - 1], rel[i]))
         /\ h[i] = IF i = 0 THEN <<>>
                   ELSE IF rel[i] \in {"", "."} THEN h[i - 1]
                   ELSE Led(many, Append(h[i - 1], rel[i]))
  BY <1>0 DEF IsWalk
<1>3. Len(rel) \in Nat
  BY DEF Names
<1>4. S = {}
  <2> SUFFICES ASSUME S # {} PROVE FALSE
    OBVIOUS
  <2> HIDE DEF Good
  <2>1. S \in SUBSET Nat
    BY <1>3
  <2>2. PICK m \in S : \A k \in S : m <= k
    <3> HIDE DEF S
    <3> QED BY <2>1, LeastElement
  <2>3. m # 0
    <3>1. 0 \in 0 .. Len(rel) /\ <<>> \in Names
      BY <1>3 DEF Names
    <3>2. Good(0)
      BY <1>1, <3>1 DEF Good
    <3> QED BY <2>2, <3>2
  <2>4. m \in 0 .. Len(rel) /\ m - 1 \in 0 .. Len(rel) /\ ~(m <= m - 1) /\ m \in 1 .. Len(rel)
    BY <1>3, <2>2, <2>3
  <2>5. Good(m - 1)
    BY <2>2, <2>4
  <2>6. rel[m] \in STRING
    BY <2>4 DEF Names
  <2> DEFINE n == rel[m]
             p == f[m - 1]
             q == h[m - 1]
  <2>7. CASE n \in {"", "."}
    <3>1. f[m] = f[m - 1] /\ h[m] = h[m - 1]
      BY <1>1, <2>3, <2>4, <2>7
    <3> QED BY <2>2, <2>5, <3>1 DEF Good
  <2>8. CASE n \notin {"", "."}
    <3>1. f[m] = Led(few, Append(p, n)) /\ h[m] = Led(many, Append(q, n))
      BY <1>1, <2>3, <2>4, <2>8
    <3>2. p \in Names /\ q \in Names /\ (p = q \/ (~Inside(q) /\ Behind(many, p)))
      BY <2>5 DEF Good
    <3> HIDE DEF p, q, n
    <3>3. n \in STRING
      BY <2>6 DEF n
    <3> DEFINE x == Append(p, n)
               y == Append(q, n)
    <3>4. /\ x \in Names /\ x # <<>> /\ Len(x) = Len(p) + 1
          /\ Head(x) = (IF p = <<>> THEN n ELSE Head(p))
          /\ y \in Names /\ y # <<>> /\ Len(y) = Len(q) + 1
          /\ Head(y) = (IF q = <<>> THEN n ELSE Head(q))
      BY <3>2, <3>3, AppendedName
    <3>5. f[m] = Led(few, x) /\ h[m] = Led(many, y) /\ (p = q => x = y)
      BY <3>1
    <3> HIDE DEF x, y
    <3>6. f[m] \in Names /\ h[m] \in Names
      BY <3>4, <3>5 DEF Led, LinksOut
    <3>7. CASE p = q /\ x \in DOMAIN many /\ x \notin DOMAIN few
      <4>1. f[m] = x /\ ~Inside(h[m])
        BY <3>5, <3>7 DEF Led, LinksOut
      <4>2. Len(x) = 1
        BY <3>7 DEF LinksOut
      <4>3. <<Head(x)>> = x
        <5>1. Head(x) = x[1] /\ 1 \in 1 .. Len(x) /\ x \in Seq(STRING)
          BY <3>4, <4>2 DEF Names
        <5>2. x[1] \in STRING
          BY <5>1, ElementOfSeq
        <5>3. <<x[1]>> \in Seq(STRING) /\ Len(<<x[1]>>) = 1 /\ <<x[1]>>[1] = x[1]
          BY <5>2
        <5> QED BY <4>2, <5>1, <5>3, SeqEqual
      <4>4. Behind(many, f[m])
        BY <3>4, <3>7, <4>1, <4>3 DEF Behind
      <4> QED BY <2>2, <3>6, <4>1, <4>4 DEF Good
    <3>8. CASE p = q /\ ~(x \in DOMAIN many /\ x \notin DOMAIN few)
      <4>1. f[m] = h[m]
        BY <3>5, <3>8 DEF Led
      <4> QED BY <2>2, <3>6, <4>1 DEF Good
    <3>9. CASE ~Inside(q) /\ Behind(many, p)
      <4>1. q # <<>> /\ ~Inside(y)
        BY <3>4, <3>9 DEF Inside
      <4>2. y \notin DOMAIN many
        BY <4>1 DEF LinksOut
      <4>3. h[m] = y
        BY <3>5, <4>2 DEF Led
      <4>4. p # <<>> /\ Len(x) # 1
        <5>1. p # <<>> /\ p \in Seq(STRING)
          BY <3>2, <3>9 DEF Behind, Names
        <5>2. Len(p) \in Nat /\ Len(p) # 0
          BY <5>1, EmptySeq
        <5> QED BY <3>4, <5>1, <5>2
      <4>5. x \notin DOMAIN few
        BY <4>4 DEF LinksOut
      <4>6. f[m] = x /\ Head(x) = Head(p)
        BY <3>4, <3>5, <4>4, <4>5 DEF Led
      <4>7. Behind(many, f[m])
        BY <3>4, <3>9, <4>6 DEF Behind
      <4> QED BY <2>2, <3>6, <4>1, <4>3, <4>7 DEF Good
    <3> QED BY <3>2, <3>7, <3>8, <3>9
  <2> QED BY <2>7, <2>8
<1>5. Good(Len(rel))
  BY <1>3, <1>4
<1> QED BY <1>2, <1>5

-----------------------------------------------------------------------------
(* The trees of a project.                                                  *)

\* No link is new, and none is gone but one that led to nothing.
LinksKept(t) ==
    /\ \A p \in DOMAIN Links(t) : p \in DOMAIN Tree /\ t[p] = Tree[p]
    /\ \A p \in DOMAIN LiveLinks(Tree) : p \in DOMAIN t /\ t[p] = Tree[p]

\* All that lies outside is that of the start, and files that dangling links led to.
OutsideSame(t) ==
    \A p \in DOMAIN t \cup DOMAIN Tree :
        ~Inside(p) =>
            \/ p \in DOMAIN t /\ p \in DOMAIN Tree /\ t[p] = Tree[p]
            \/ IsFile(t, p) /\ p \in Dangling

ProjectTree(t) == IsTree(t) /\ LinksKept(t) /\ OutsideSame(t)

\* The links that lead to something, one by one.
LEMMA LiveLinksAre ==
  ASSUME NEW t
  PROVE  /\ \A p : p \in DOMAIN LiveLinks(t) <=> IsLink(t, p) /\ t[p].to \in DOMAIN t
         /\ \A p \in DOMAIN LiveLinks(t) : LiveLinks(t)[p] = t[p].to
         /\ \A p : p \in DOMAIN Links(t) <=> IsLink(t, p)
         /\ \A p \in DOMAIN Links(t) : Links(t)[p] = t[p].to
  BY DEF LiveLinks, Links, Restrict, IsLink, Exists

\* The links of the project are in its root and lead out.
LEMMA TreeLinks == LinksOut(Links(Tree))
<1>1. \A p \in DOMAIN Links(Tree) :
         p \in Names /\ Inside(p) /\ Len(p) = 1 /\ Tree[p].to \in Names /\ ~Inside(Tree[p].to)
  BY LiveLinksAre, TreeAssumption DEF IsTree, Names, IsLink, Exists
<1> QED BY <1>1, LiveLinksAre DEF LinksOut

\* A link of the tree is a link of the start.
LEMMA LinkIs ==
  ASSUME NEW t, ProjectTree(t), NEW p, IsLink(t, p)
  PROVE  /\ p \in DOMAIN Links(Tree) /\ p \in Names /\ Inside(p) /\ Len(p) = 1
         /\ t[p] = Tree[p] /\ t[p].to \in Names /\ ~Inside(t[p].to) /\ t[p].to # NoPath
<1>1. p \in DOMAIN Links(t)
  BY LiveLinksAre
<1>2. p \in DOMAIN Tree /\ t[p] = Tree[p]
  BY <1>1 DEF ProjectTree, LinksKept
<1>3. p \in DOMAIN Links(Tree) /\ Links(Tree)[p] = t[p].to
  BY <1>2, LiveLinksAre DEF IsLink, Exists
<1>4. t[p].to # NoPath
  BY <1>2, <1>3, TreeAssumption
<1> QED BY <1>2, <1>3, <1>4, TreeLinks DEF LinksOut

\* The links that lead to something only become more.
LEMMA LiveLinksGrow ==
  ASSUME NEW t, ProjectTree(t)
  PROVE  /\ LinksOut(LiveLinks(t)) /\ LinksOut(LiveLinks(Tree))
         /\ \A p \in DOMAIN LiveLinks(Tree) :
               p \in DOMAIN LiveLinks(t) /\ LiveLinks(t)[p] = LiveLinks(Tree)[p]
         /\ DOMAIN LiveLinks(t) \subseteq DOMAIN Links(Tree)
<1>1. LinksOut(LiveLinks(t)) /\ DOMAIN LiveLinks(t) \subseteq DOMAIN Links(Tree)
  BY LiveLinksAre, LinkIs DEF LinksOut
<1>2. LinksOut(LiveLinks(Tree))
  BY LiveLinksAre, TreeLinks DEF LinksOut
<1>3. ASSUME NEW p \in DOMAIN LiveLinks(Tree)
      PROVE  p \in DOMAIN LiveLinks(t) /\ LiveLinks(t)[p] = LiveLinks(Tree)[p]
  <2>1. IsLink(Tree, p) /\ Tree[p].to \in DOMAIN Tree /\ LiveLinks(Tree)[p] = Tree[p].to
    BY LiveLinksAre
  <2>2. p \in DOMAIN t /\ t[p] = Tree[p]
    BY DEF ProjectTree, LinksKept
  <2>3. IsLink(t, p)
    BY <2>1, <2>2 DEF IsLink, Exists
  <2>4. ~Inside(Tree[p].to)
    BY <2>2, <2>3, LinkIs
  <2>5. Tree[p].to \in DOMAIN t
    BY <2>1, <2>4 DEF ProjectTree, OutsideSame, IsFile, Exists
  <2> QED BY <2>1, <2>2, <2>3, <2>5, LiveLinksAre
<1> QED BY <1>1, <1>2, <1>3

\* What resolve() lets through is inside and behind no link that leads anywhere.
LEMMA ResolvedIsClean ==
  ASSUME NEW t, LinksOut(LiveLinks(t)), NEW rel \in Names, Resolve(t, rel) # NoPath
  PROVE  Clean(LiveLinks(t), Resolve(t, rel))
<1>1. /\ Resolve(t, rel) = Canonical(LiveLinks(t), rel)
      /\ Inside(Resolve(t, rel))
  BY DEF Resolve, Target
<1> QED BY <1>1, CanonicalIsClean DEF LinksOut

\* A path resolves to what it did at the start, or is refused since a link on its
\* way leads to something.
LEMMA ResolveStays ==
  ASSUME NEW t, ProjectTree(t), NEW rel \in Names
  PROVE  \/ Resolve(t, rel) = Resolve(Tree, rel)
         \/ Resolve(t, rel) = NoPath /\ Behind(Links(Tree), Resolve(Tree, rel))
<1> DEFINE c == Canonical(LiveLinks(Tree), rel)
           d == Canonical(LiveLinks(t), rel)
<1>1. /\ Resolve(Tree, rel) = IF Malformed(rel) \/ ~Inside(c) THEN NoPath ELSE c
      /\ Resolve(t, rel) = IF Malformed(rel) \/ ~Inside(d) THEN NoPath ELSE d
  BY DEF Resolve, Target
<1>2. d = c \/ (~Inside(d) /\ Behind(LiveLinks(t), c))
  BY LiveLinksGrow, MoreLinks
<1> HIDE DEF c, d
<1>3. Behind(LiveLinks(t), c) => Behind(Links(Tree), c)
  BY LiveLinksGrow DEF Behind
<1> QED BY <1>1, <1>2, <1>3

\* The server's own files lie behind no link.
LEMMA OwnPathsAre ==
  ASSUME NEW p \in OwnPaths
  PROVE  /\ p \in Names /\ p # <<>> /\ Inside(p) /\ p # NoPath
         /\ <<Head(p)>> \notin DOMAIN Links(Tree) /\ Resolve(Tree, p) = p
<1>1. /\ p \in Names /\ p # <<>> /\ Inside(p)
      /\ <<Head(p)>> \notin DOMAIN Links(Tree) /\ Resolve(Tree, p) = p
  BY JobsAssumption DEF Names
<1>2. ~Inside(NoPath)
  BY DEF Inside, NoPath
<1> QED BY <1>1, <1>2

LEMMA OwnPathsResolve ==
  ASSUME NEW t, ProjectTree(t), NEW p \in OwnPaths
  PROVE  Resolve(t, p) = p
  BY OwnPathsAre, ResolveStays DEF Behind

\* A path a call may be at: inside and behind no link that leads anywhere, or the
\* file a dangling link leads to.
Spot(p) == p \in Names /\ (Clean(LiveLinks(Tree), p) \/ (~Inside(p) /\ p \in Dangling))

\* The first name of a path is a prefix of it.
LEMMA FirstName ==
  ASSUME NEW p \in Names, p # <<>>
  PROVE  /\ <<Head(p)>> \in Names /\ IsPrefix(<<Head(p)>>, p) /\ Len(<<Head(p)>>) = 1
         /\ Len(p) = 1 => p = <<Head(p)>>
<1>1. Head(p) = p[1] /\ 1 \in 1 .. Len(p) /\ p \in Seq(STRING) /\ Len(p) \in Nat
  BY EmptySeq DEF Names
<1>2. p[1] \in STRING
  BY <1>1, ElementOfSeq
<1>3. <<p[1]>> \in Names /\ Len(<<p[1]>>) = 1 /\ <<p[1]>>[1] = p[1]
  BY <1>2 DEF Names
<1>4. IsPrefix(<<p[1]>>, p)
  BY <1>1, <1>3, PrefixByName
<1> QED BY <1>1, <1>3, <1>4, SamePath

\* Where a dangling link leads.
LEMMA DanglingIs ==
  ASSUME NEW t, ProjectTree(t), NEW p, Clean(LiveLinks(Tree), p), IsLink(t, p)
  PROVE  /\ Len(p) = 1 /\ t[p].to \in Dangling /\ t[p].to \in Names /\ ~Inside(t[p].to)
         /\ t[p].to # NoPath /\ IsLink(Tree, p) /\ Tree[p] = t[p]
<1>1. /\ p \in DOMAIN Links(Tree) /\ p \in Names /\ Len(p) = 1 /\ t[p] = Tree[p]
      /\ t[p].to \in Names /\ ~Inside(t[p].to) /\ t[p].to # NoPath
  BY LinkIs
<1>2. p = <<Head(p)>> /\ p # <<>>
  <2>1. p # <<>>
    <3>1. Len(<<>>) = 0
      BY EmptySeq
    <3> QED BY <1>1, <3>1
  <2> QED BY <1>1, <2>1, FirstName
<1>3. p \notin DOMAIN LiveLinks(Tree)
  BY <1>2 DEF Clean
<1>4. IsLink(Tree, p) /\ Links(Tree)[p] = t[p].to
  BY <1>1, LiveLinksAre
<1>5. t[p].to \notin DOMAIN Tree
  BY <1>1, <1>3, <1>4, LiveLinksAre
<1>6. t[p].to \in Range(Links(Tree))
  BY <1>1, <1>4 DEF Range
<1> QED BY <1>1, <1>4, <1>5, <1>6 DEF Dangling

LEMMA TreeIsProject == ProjectTree(Tree)
<1>1. LinksKept(Tree)
  BY LiveLinksAre DEF LinksKept, IsLink, Exists
<1> QED BY <1>1, TreeAssumption DEF ProjectTree, OutsideSame

\* The spots of a path that is sent.
LEMMA SpotsAre ==
  ASSUME NEW rel \in Names, NEW p \in Spots(rel), p # NoPath
  PROVE  Spot(p)
<1> DEFINE r == Resolve(Tree, rel)
<1>1. r # NoPath
  <2>1. NoPath \notin DOMAIN Tree
    BY TreeAssumption DEF Exists
  <2>2. p \in {r, Landing(Tree, r)}
    BY DEF Spots
  <2> HIDE DEF r
  <2> QED BY <2>1, <2>2 DEF Landing, IsLink, Exists
<1>2. Clean(LiveLinks(Tree), r)
  BY <1>1, ResolvedIsClean, LiveLinksGrow, TreeIsProject
<1>3. CASE p = r
  BY <1>2, <1>3 DEF Spot, Clean
<1>4. CASE p # r
  <2>1. IsLink(Tree, r) /\ p = Tree[r].to
    BY <1>4 DEF Spots, Landing
  <2> QED BY <1>2, <2>1, DanglingIs, TreeIsProject DEF Spot
<1> QED BY <1>3, <1>4

LEMMA AllPathsAreSpots ==
  ASSUME NEW p \in AllPaths, p # NoPath
  PROVE  Spot(p)
<1>1. CASE p \in OwnPaths
  <2>1. p \in Spots(p) /\ p \in Names
    BY <1>1, OwnPathsAre DEF Spots
  <2> QED BY <2>1, SpotsAre
<1>2. CASE \E j \in AllJobs : p \in Spots(j.rel)
  <2>1. PICK j \in AllJobs : p \in Spots(j.rel)
    BY <1>2
  <2>2. j.rel \in Names
    BY JobsAssumption DEF Names
  <2> QED BY <2>1, <2>2, SpotsAre
<1> QED BY <1>1, <1>2 DEF AllPaths

-----------------------------------------------------------------------------
(* What the operations do to a tree.                                        *)

\* A path inside on whose way, and below which, there is no link.
Clear(t, p) ==
    p \in Names /\ Inside(p) /\ (p # <<>> => ~IsLink(t, <<Head(p)>>))

\* There is no link on the way to a clear path nor below it.
LEMMA NoLinkAbout ==
  ASSUME NEW t, ProjectTree(t), NEW p, Clear(t, p), NEW q \in Names,
         IsPrefix(q, p) \/ (p # <<>> /\ IsPrefix(p, q))
  PROVE  ~IsLink(t, q)
<1> SUFFICES ASSUME IsLink(t, q) PROVE FALSE
  OBVIOUS
<1>1. p \in Names /\ q \in DOMAIN Links(Tree) /\ Len(q) = 1
  BY LinkIs DEF Clear
<1>2. p # <<>> /\ Head(p) = Head(q)
  <2>1. CASE IsPrefix(q, p)
    <3>1. q # <<>>
      BY <1>1
    <3> QED BY <1>1, <2>1, <3>1, PrefixInside
  <2>2. CASE p # <<>> /\ IsPrefix(p, q)
    BY <1>1, <2>2, PrefixInside
  <2> QED BY <2>1, <2>2
<1>3. q = <<Head(q)>>
  <2>1. q \in Seq(STRING) /\ Head(q) = q[1] /\ q[1] \in STRING
    <3>1. q \in Seq(STRING) /\ 1 \in 1 .. Len(q)
      BY <1>1 DEF Names
    <3>2. q[1] \in STRING
      BY <3>1, ElementOfSeq
    <3> QED BY <3>1, <3>2
  <2>2. <<q[1]>> \in Seq(STRING) /\ Len(<<q[1]>>) = 1 /\ <<q[1]>>[1] = q[1]
    BY <2>1
  <2> QED BY <1>1, <2>1, <2>2, SeqEqual
<1> QED BY <1>1, <1>2, <1>3 DEF Clear

\* What exists and is no link has none on its way.
LEMMA FoundIsClear ==
  ASSUME NEW t, ProjectTree(t), NEW p \in Names, Inside(p), Found(t, p)
  PROVE  Clear(t, p)
<1> SUFFICES ASSUME p # <<>> PROVE ~IsLink(t, <<Head(p)>>)
  BY DEF Clear
<1> DEFINE h == <<Head(p)>>
<1>1. h \in Names /\ IsPrefix(h, p) /\ Len(h) = 1 /\ (Len(p) = 1 => p = h)
  BY FirstName
<1>2. Len(p) \in Nat /\ Len(p) >= 1
  BY EmptySeq DEF Names
<1> HIDE DEF h
<1>3. CASE Len(p) = 1
  BY <1>1, <1>3 DEF Found, h
<1>4. CASE Len(p) # 1
  <2>1. h \in Ancestors(p)
    <3>1. PICK n : n = Len(p)
      OBVIOUS
    <3>2. n \in Nat /\ n >= 1 /\ n # 1
      BY <1>2, <1>4, <3>1
    <3>3. 1 < n
      BY <3>2
    <3>4. Len(h) < Len(p)
      BY <1>1, <3>1, <3>3
    <3> QED BY <1>1, <3>4, AncestorIs
  <2>2. IsDir(t, h)
    BY <2>1 DEF ProjectTree, IsTree, Found, Exists
  <2> QED BY <2>2 DEF IsDir, IsLink, h
<1> QED BY <1>3, <1>4

\* A tree that has no other links than a project's tree, none less of those that
\* lead anywhere, and outside no more than the files dangling links lead to.
LEMMA BecomesProjectTree ==
  ASSUME NEW t, ProjectTree(t), NEW u, IsTree(u),
         \A p : IsLink(u, p) => p \in DOMAIN t /\ u[p] = t[p],
         \A p \in DOMAIN LiveLinks(Tree) : p \in DOMAIN u /\ u[p] = t[p],
         \A p \in Names : ~Inside(p) =>
            \/ (p \in DOMAIN u <=> p \in DOMAIN t) /\ (p \in DOMAIN t => u[p] = t[p])
            \/ IsFile(u, p) /\ p \in Dangling
  PROVE  ProjectTree(u)
<1>1. LinksKept(u)
  <2>1. ASSUME NEW p \in DOMAIN Links(u) PROVE p \in DOMAIN Tree /\ u[p] = Tree[p]
    <3>1. IsLink(u, p) /\ p \in DOMAIN t /\ u[p] = t[p]
      BY LiveLinksAre
    <3>2. IsLink(t, p)
      BY <3>1 DEF IsLink, Exists
    <3> QED BY <3>1, <3>2, LiveLinksAre DEF ProjectTree, LinksKept
  <2> QED BY <2>1 DEF ProjectTree, LinksKept
<1>2. DOMAIN u \subseteq Names /\ DOMAIN t \subseteq Names /\ DOMAIN Tree \subseteq Names
  BY TreeAssumption DEF ProjectTree, IsTree, Names
<1>3. OutsideSame(u)
  <2> SUFFICES ASSUME NEW p \in DOMAIN u \cup DOMAIN Tree, ~Inside(p)
               PROVE  \/ p \in DOMAIN u /\ p \in DOMAIN Tree /\ u[p] = Tree[p]
                      \/ IsFile(u, p) /\ p \in Dangling
    BY DEF OutsideSame
  <2>1. CASE (p \in DOMAIN u <=> p \in DOMAIN t) /\ (p \in DOMAIN t => u[p] = t[p])
    <3>1. \/ p \in DOMAIN t /\ p \in DOMAIN Tree /\ t[p] = Tree[p]
          \/ IsFile(t, p) /\ p \in Dangling
      BY <2>1 DEF ProjectTree, OutsideSame
    <3> QED BY <2>1, <3>1 DEF IsFile, Exists
  <2> QED BY <1>2, <2>1
<1> QED BY <1>1, <1>3 DEF ProjectTree

\* A tree that differs from a project's tree in no link and nothing outside.
LEMMA StaysProjectTree ==
  ASSUME NEW t, ProjectTree(t), NEW u, IsTree(u),
         \A p : IsLink(t, p) \/ IsLink(u, p) => p \in DOMAIN t /\ p \in DOMAIN u /\ u[p] = t[p],
         \A p \in Names : ~Inside(p) =>
            (p \in DOMAIN u <=> p \in DOMAIN t) /\ (p \in DOMAIN t => u[p] = t[p])
  PROVE  ProjectTree(u)
<1>1. \A p \in DOMAIN LiveLinks(Tree) : IsLink(t, p)
  BY LiveLinksGrow, LiveLinksAre
<1> QED BY <1>1, BecomesProjectTree

\* create_directories: what is added are directories on the way to the path.
LEMMA WithDirsIs ==
  ASSUME NEW t, NEW p \in Names
  PROVE  /\ \A q : q \in DOMAIN WithDirs(t, p) <=>
                     q \in DOMAIN t \/ (q \in Names /\ IsPrefix(q, p))
         /\ \A q \in DOMAIN t : q \in DOMAIN WithDirs(t, p) /\ WithDirs(t, p)[q] = t[q]
         /\ \A q \in DOMAIN WithDirs(t, p) : q \notin DOMAIN t => WithDirs(t, p)[q] = Dir
<1>1. \A q : q \in Ancestors(p) \cup {p} <=> q \in Names /\ IsPrefix(q, p)
  <2>1. IsPrefix(p, p)
    BY PrefixReflexive
  <2>2. ASSUME NEW q \in Names, IsPrefix(q, p), ~(Len(q) < Len(p)) PROVE q = p
    <3>1. Len(q) = Len(p)
      BY <2>2, PrefixByName DEF Names
    <3> QED BY <2>2, <3>1, SamePath
  <2> QED BY <2>1, <2>2, AncestorIs
<1> QED BY <1>1 DEF WithDirs

\* Where directories can be made, what exists on the way is a directory.
LEMMA CanMakeDirsIs ==
  ASSUME NEW t, NEW p \in Names, CanMakeDirs(t, p), NEW q \in Names, IsPrefix(q, p),
         q \in DOMAIN t
  PROVE  IsDir(t, q)
<1>1. q \in Ancestors(p) \cup {p}
  <2>1. CASE Len(q) < Len(p)
    BY <2>1, AncestorIs
  <2>2. CASE ~(Len(q) < Len(p))
    <3>1. Len(q) = Len(p)
      BY <2>2, PrefixByName DEF Names
    <3> QED BY <3>1, SamePath
  <2> QED BY <2>1, <2>2
<1> QED BY <1>1 DEF CanMakeDirs, Exists

\* Where directories can be made there is no link.
LEMMA MadeIsClear ==
  ASSUME NEW t, NEW p \in Names, Inside(p), CanMakeDirs(t, p)
  PROVE  Clear(t, p)
<1> SUFFICES ASSUME p # <<>>, IsLink(t, <<Head(p)>>) PROVE FALSE
  BY DEF Clear
<1>1. <<Head(p)>> \in Names /\ IsPrefix(<<Head(p)>>, p)
  BY FirstName
<1>2. IsDir(t, <<Head(p)>>)
  BY <1>1, CanMakeDirsIs DEF IsLink, Exists
<1> QED BY <1>2 DEF IsDir, IsLink

\* Nor is there where they can be made for the parent, and no link is at the path.
LEMMA ChildIsClear ==
  ASSUME NEW t, NEW p \in Names, p # <<>>, Inside(p), CanMakeDirs(t, Parent(p)), ~IsLink(t, p)
  PROVE  Clear(t, p)
<1> SUFFICES ASSUME IsLink(t, <<Head(p)>>) PROVE FALSE
  BY DEF Clear
<1>1. /\ <<Head(p)>> \in Names /\ IsPrefix(<<Head(p)>>, p) /\ Len(<<Head(p)>>) = 1
      /\ Len(p) = 1 => p = <<Head(p)>>
  BY FirstName
<1>2. Len(p) \in Nat /\ Len(p) > 1
  BY <1>1, EmptySeq DEF Names
<1>3. Parent(p) \in Names /\ IsPrefix(<<Head(p)>>, Parent(p))
  BY <1>1, <1>2, ParentIs
<1>4. IsDir(t, <<Head(p)>>)
  BY <1>1, <1>3, CanMakeDirsIs DEF IsLink, Exists
<1> QED BY <1>4 DEF IsDir, IsLink

\* Directories may be made on the way to a path inside, and at it.
LEMMA WithDirsKeeps ==
  ASSUME NEW t, ProjectTree(t), NEW p \in Names, Inside(p), CanMakeDirs(t, p)
  PROVE  ProjectTree(WithDirs(t, p))
<1> DEFINE u == WithDirs(t, p)
<1>0. p \in Names /\ Inside(p) /\ IsTree(t) /\ DOMAIN t \subseteq Names
  BY DEF ProjectTree, IsTree, Names
<1>1. /\ \A q : q \in DOMAIN u <=> q \in DOMAIN t \/ (q \in Names /\ IsPrefix(q, p))
      /\ \A q \in DOMAIN t : q \in DOMAIN u /\ u[q] = t[q]
      /\ \A q \in DOMAIN u : q \notin DOMAIN t => u[q] = Dir
  BY <1>0, WithDirsIs
<1> HIDE DEF u
<1>2. \A q \in Names : IsPrefix(q, p) => IsDir(u, q)
  BY <1>0, <1>1, CanMakeDirsIs DEF IsDir, Exists, Dir
<1>3. \A q : IsDir(t, q) => IsDir(u, q)
  BY <1>1 DEF IsDir, Exists
<1>4. IsTree(u)
  <2>1. DOMAIN u \subseteq Names /\ IsDir(u, <<>>)
    BY <1>0, <1>1, <1>3 DEF IsTree
  <2>2. ASSUME NEW q \in DOMAIN u PROVE u[q].kind \in {"dir", "file", "link"}
    BY <1>0, <1>1 DEF IsTree, Dir
  <2>3. ASSUME NEW q \in DOMAIN u, Inside(q), NEW r \in Ancestors(q) PROVE IsDir(u, r)
    <3>1. q \in Names /\ r \in Names /\ IsPrefix(r, q)
      BY <2>1, AncestorIs
    <3>2. CASE q \in DOMAIN t
      BY <1>0, <1>3, <2>3, <3>2 DEF IsTree
    <3>3. CASE IsPrefix(q, p)
      BY <1>0, <1>2, <3>1, <3>3, PrefixTransitive
    <3> QED BY <1>1, <3>2, <3>3
  <2> QED BY <2>1, <2>2, <2>3 DEF IsTree, Names
<1>5. ASSUME NEW q, IsLink(t, q) \/ IsLink(u, q)
      PROVE  q \in DOMAIN t /\ q \in DOMAIN u /\ u[q] = t[q]
  BY <1>1, <1>5 DEF IsLink, Exists, Dir
<1>6. ASSUME NEW q \in Names, ~Inside(q), q \in DOMAIN u
      PROVE  q \in DOMAIN t
  <2> SUFFICES ASSUME IsPrefix(q, p) PROVE FALSE
    BY <1>1, <1>6
  <2>1. q # <<>>
    BY <1>6 DEF Inside
  <2> QED BY <1>0, <1>6, <2>1, PrefixInside
<1>7. ProjectTree(u)
  BY <1>1, <1>4, <1>5, <1>6, StaysProjectTree
<1> QED BY <1>7 DEF u

\* The path is opened empty, its parents are made, all else stays.
LEMMA OpenedIs ==
  ASSUME NEW t, NEW p \in Names, p # <<>>, ~IsLink(t, p)
  PROVE  /\ \A q : q \in DOMAIN Opened(t, p) <=>
                     q \in DOMAIN t \/ (q \in Names /\ IsPrefix(q, p))
         /\ p \in DOMAIN Opened(t, p) /\ Opened(t, p)[p] = File(<<>>)
         /\ \A q \in DOMAIN t : q # p => q \in DOMAIN Opened(t, p) /\ Opened(t, p)[q] = t[q]
         /\ \A q \in DOMAIN Opened(t, p) :
              q \notin DOMAIN t /\ q # p => Opened(t, p)[q] = Dir
<1> DEFINE u == WithDirs(t, Parent(p))
<1>1. Parent(p) \in Names
  BY ParentIs
<1>2. \A q \in Names : IsPrefix(q, p) <=> IsPrefix(q, Parent(p)) \/ q = p
  <2>1. ASSUME NEW q \in Names, IsPrefix(q, p), ~(Len(q) < Len(p)) PROVE q = p
    <3>1. Len(q) = Len(p)
      BY <2>1, PrefixByName DEF Names
    <3> QED BY <2>1, <3>1, SamePath
  <2> QED BY <2>1, ParentIs, PrefixReflexive
<1>3. /\ \A q : q \in DOMAIN u <=>
                  q \in DOMAIN t \/ (q \in Names /\ IsPrefix(q, Parent(p)))
      /\ \A q \in DOMAIN t : q \in DOMAIN u /\ u[q] = t[q]
      /\ \A q \in DOMAIN u : q \notin DOMAIN t => u[q] = Dir
  BY <1>1, WithDirsIs
<1>4. Opened(t, p) = [q \in DOMAIN u \cup {p} |-> IF q = p THEN File(<<>>) ELSE u[q]]
  BY DEF Opened, Landing
<1> HIDE DEF u
<1> QED BY <1>2, <1>3, <1>4

\* Opening a file inside, through no link, leaves a project's tree.
LEMMA OpenedKeeps ==
  ASSUME NEW t, ProjectTree(t), NEW p \in Names, Inside(p), CanWrite(t, p), ~IsLink(t, p)
  PROVE  ProjectTree(Opened(t, p))
<1> DEFINE u == Opened(t, p)
<1>0. /\ p \in Names /\ Inside(p) /\ IsTree(t) /\ DOMAIN t \subseteq Names /\ p # <<>>
      /\ ~IsDir(t, p) /\ CanMakeDirs(t, Parent(p)) /\ Parent(p) \in Names
  BY ParentIs DEF ProjectTree, IsTree, Names, CanWrite, Landing
<1>1. /\ \A q : q \in DOMAIN u <=> q \in DOMAIN t \/ (q \in Names /\ IsPrefix(q, p))
      /\ p \in DOMAIN u /\ u[p] = File(<<>>)
      /\ \A q \in DOMAIN t : q # p => q \in DOMAIN u /\ u[q] = t[q]
      /\ \A q \in DOMAIN u : q \notin DOMAIN t /\ q # p => u[q] = Dir
  BY <1>0, OpenedIs
<1> HIDE DEF u
<1>2. ASSUME NEW q \in Names, IsPrefix(q, p), q # p PROVE IsDir(u, q)
  <2>1. Len(q) < Len(p)
    <3>1. Len(q) <= Len(p) /\ Len(q) \in Nat /\ Len(p) \in Nat
      BY <1>0, <1>2, PrefixByName DEF Names
    <3> QED BY <1>0, <1>2, <3>1, SamePath
  <2>2. IsPrefix(q, Parent(p))
    BY <1>0, <1>2, <2>1, ParentIs
  <2>3. q \in DOMAIN t => IsDir(t, q)
    BY <1>0, <2>2, CanMakeDirsIs
  <2> QED BY <1>1, <1>2, <2>3 DEF IsDir, Exists, Dir
<1>3. \A q : IsDir(t, q) => IsDir(u, q)
  BY <1>0, <1>1 DEF IsDir, Exists
<1>4. IsTree(u)
  <2>1. DOMAIN u \subseteq Names /\ IsDir(u, <<>>)
    BY <1>0, <1>1, <1>3 DEF IsTree
  <2>2. ASSUME NEW q \in DOMAIN u PROVE u[q].kind \in {"dir", "file", "link"}
    BY <1>0, <1>1 DEF IsTree, Dir, File
  <2>3. ASSUME NEW q \in DOMAIN u, Inside(q), NEW r \in Ancestors(q) PROVE IsDir(u, r)
    <3>1. q \in Names /\ r \in Names /\ IsPrefix(r, q) /\ Len(r) < Len(q)
      BY <2>1, AncestorIs
    <3>2. CASE q \in DOMAIN t
      BY <1>0, <1>3, <2>3, <3>2 DEF IsTree
    <3>3. CASE IsPrefix(q, p)
      <4>1. IsPrefix(r, p)
        BY <1>0, <3>1, <3>3, PrefixTransitive
      <4>2. r # p
        <5>1. Len(q) <= Len(p) /\ Len(q) \in Nat /\ Len(p) \in Nat
          BY <1>0, <3>1, <3>3, PrefixByName DEF Names
        <5> QED BY <3>1, <5>1
      <4> QED BY <1>2, <3>1, <4>1, <4>2
    <3> QED BY <1>1, <3>2, <3>3
  <2> QED BY <2>1, <2>2, <2>3 DEF IsTree, Names
<1>5. ~IsLink(t, p)
  OBVIOUS
<1>6. ASSUME NEW q, IsLink(t, q) \/ IsLink(u, q)
      PROVE  q \in DOMAIN t /\ q \in DOMAIN u /\ u[q] = t[q]
  BY <1>1, <1>5, <1>6 DEF IsLink, Exists, Dir, File
<1>7. ASSUME NEW q \in Names, ~Inside(q)
      PROVE  q # p /\ (q \in DOMAIN u => q \in DOMAIN t)
  <2>1. q # <<>>
    BY <1>7 DEF Inside
  <2>2. ~IsPrefix(q, p)
    BY <1>0, <1>7, <2>1, PrefixInside
  <2> QED BY <1>0, <1>1, <1>7, <2>2
<1>8. ProjectTree(u)
  BY <1>1, <1>4, <1>6, <1>7, StaysProjectTree
<1> QED BY <1>8 DEF u

\* Through a link a file is opened where it leads, and nothing else changes.
LEMMA OpenedThrough ==
  ASSUME NEW t, ProjectTree(t), NEW p, IsLink(t, p)
  PROVE  /\ DOMAIN Opened(t, p) = DOMAIN t \cup {t[p].to}
         /\ Opened(t, p)[t[p].to] = File(<<>>)
         /\ \A q \in DOMAIN t : q # t[p].to => Opened(t, p)[q] = t[q]
<1>1. p \in Names /\ Len(p) = 1 /\ <<>> \in DOMAIN t
  BY LinkIs DEF ProjectTree, IsTree, IsDir, Exists
<1>2. Parent(p) = <<>>
  <2>1. p # <<>>
    BY <1>1
  <2>2. Parent(p) \in Names /\ Len(Parent(p)) = Len(p) - 1
    BY <1>1, <2>1, ParentIs
  <2>3. Len(Parent(p)) = 0
    BY <1>1, <2>2
  <2> QED BY <2>2, <2>3, EmptySeq DEF Names
<1>3. /\ DOMAIN WithDirs(t, <<>>) = DOMAIN t
      /\ \A q \in DOMAIN t : WithDirs(t, <<>>)[q] = t[q]
  <2>1. Ancestors(<<>>) = {}
    BY DEF Ancestors
  <2> QED BY <1>1, <2>1 DEF WithDirs
<1> QED BY <1>2, <1>3 DEF Opened, Landing

\* It leaves a project's tree where the link leads nowhere at the start.
LEMMA OpenedThroughKeeps ==
  ASSUME NEW t, ProjectTree(t), NEW p, Clean(LiveLinks(Tree), p), CanWrite(t, p), IsLink(t, p)
  PROVE  ProjectTree(Opened(t, p))
<1> DEFINE u == Opened(t, p)
           to == t[p].to
<1>0. /\ to \in Dangling /\ to \in Names /\ ~Inside(to)
      /\ IsTree(t) /\ DOMAIN t \subseteq Names
  BY DanglingIs DEF ProjectTree, IsTree, Names
<1>1. /\ DOMAIN u = DOMAIN t \cup {to} /\ u[to] = File(<<>>)
      /\ \A q \in DOMAIN t : q # to => u[q] = t[q]
  BY OpenedThrough
<1>2. ~IsDir(t, to) /\ ~IsLink(t, to)
  BY <1>0, LinkIs DEF CanWrite, Landing
<1> HIDE DEF u, to
<1>3. \A q : IsDir(t, q) => IsDir(u, q)
  BY <1>1, <1>2 DEF IsDir, Exists
<1>4. IsTree(u)
  <2>1. DOMAIN u \subseteq Names /\ IsDir(u, <<>>)
    BY <1>0, <1>1, <1>3 DEF IsTree
  <2>2. ASSUME NEW q \in DOMAIN u PROVE u[q].kind \in {"dir", "file", "link"}
    BY <1>0, <1>1 DEF IsTree, File
  <2>3. ASSUME NEW q \in DOMAIN u, Inside(q), NEW r \in Ancestors(q) PROVE IsDir(u, r)
    BY <1>0, <1>1, <1>3, <2>3 DEF IsTree
  <2> QED BY <2>1, <2>2, <2>3 DEF IsTree, Names
<1>5. ASSUME NEW q, IsLink(t, q) \/ IsLink(u, q)
      PROVE  q \in DOMAIN t /\ q \in DOMAIN u /\ u[q] = t[q]
  BY <1>1, <1>2, <1>5 DEF IsLink, Exists, File
<1>6. \A q \in DOMAIN LiveLinks(Tree) : IsLink(t, q)
  BY LiveLinksGrow, LiveLinksAre
<1>7. IsFile(u, to)
  BY <1>1 DEF IsFile, Exists, File
<1>8. ProjectTree(u)
  BY <1>0, <1>1, <1>4, <1>5, <1>6, <1>7, BecomesProjectTree
<1> QED BY <1>8 DEF u

\* Storing changes the text of a file and nothing else.
LEMMA StoredKeeps ==
  ASSUME NEW t, ProjectTree(t), NEW p, Spot(p), NEW text, IsFile(t, p)
  PROVE  ProjectTree(Stored(t, p, text))
<1> DEFINE u == Stored(t, p, text)
<1>0. /\ p \in Names /\ (Inside(p) \/ p \in Dangling)
      /\ IsTree(t) /\ DOMAIN t \subseteq Names
  BY DEF Spot, Clean, ProjectTree, IsTree, Names
<1>1. /\ DOMAIN u = DOMAIN t /\ p \in DOMAIN u /\ u[p].kind = "file"
      /\ \A q \in DOMAIN t : q # p => u[q] = t[q]
  BY DEF Stored, File, IsFile, Exists
<1> HIDE DEF u
<1>2. \A q : IsDir(t, q) => IsDir(u, q)
  BY <1>1 DEF IsDir, IsFile, Exists
<1>3. IsTree(u)
  <2>1. DOMAIN u \subseteq Names /\ IsDir(u, <<>>)
    BY <1>0, <1>1, <1>2 DEF IsTree
  <2>2. ASSUME NEW q \in DOMAIN u PROVE u[q].kind \in {"dir", "file", "link"}
    BY <1>0, <1>1 DEF IsTree
  <2>3. ASSUME NEW q \in DOMAIN u, Inside(q), NEW r \in Ancestors(q) PROVE IsDir(u, r)
    BY <1>0, <1>1, <1>2, <2>3 DEF IsTree
  <2> QED BY <2>1, <2>2, <2>3 DEF IsTree, Names
<1>4. ASSUME NEW q, IsLink(t, q) \/ IsLink(u, q)
      PROVE  q \in DOMAIN t /\ q \in DOMAIN u /\ u[q] = t[q]
  BY <1>1, <1>4 DEF IsLink, IsFile, Exists
<1>5. \A q \in DOMAIN LiveLinks(Tree) : IsLink(t, q)
  BY LiveLinksGrow, LiveLinksAre
<1>6. IsFile(u, p)
  BY <1>1 DEF IsFile, Exists
<1>7. ProjectTree(u)
  BY <1>0, <1>1, <1>3, <1>4, <1>5, <1>6, BecomesProjectTree
<1> QED BY <1>7 DEF u

\* What is removed takes all below it along, and nothing else.
LEMMA RemovedKeeps ==
  ASSUME NEW t, ProjectTree(t), NEW p, Clear(t, p), p # <<>>
  PROVE  ProjectTree(Removed(t, p))
<1> DEFINE u == Removed(t, p)
<1>0. p \in Names /\ Inside(p) /\ IsTree(t) /\ DOMAIN t \subseteq Names
  BY DEF Clear, ProjectTree, IsTree, Names
<1>1. \A q : q \in DOMAIN u <=> q \in DOMAIN t /\ ~IsPrefix(p, q)
  BY DEF Removed, Below
<1>2. \A q \in DOMAIN u : u[q] = t[q]
  BY DEF Removed, Below
<1> HIDE DEF u
<1>3. IsTree(u)
  <2>1. ~IsPrefix(p, <<>>)
    <3>1. <<>> \in Names /\ Len(p) > 0 /\ Len(<<>>) = 0
      BY <1>0 DEF Names
    <3> QED BY <1>0, <3>1, PrefixByName
  <2>2. DOMAIN u \subseteq Names /\ IsDir(u, <<>>)
    BY <1>0, <1>1, <1>2, <2>1 DEF IsTree, IsDir, Exists
  <2>3. ASSUME NEW q \in DOMAIN u PROVE u[q].kind \in {"dir", "file", "link"}
    BY <1>0, <1>1, <1>2 DEF IsTree
  <2>4. ASSUME NEW q \in DOMAIN u, Inside(q), NEW r \in Ancestors(q) PROVE IsDir(u, r)
    <3>1. q \in Names /\ r \in Names /\ IsPrefix(r, q)
      BY <2>2, AncestorIs
    <3>2. IsDir(t, r)
      BY <1>0, <1>1, <2>4 DEF IsTree
    <3>3. ~IsPrefix(p, r)
      BY <1>0, <1>1, <3>1, PrefixTransitive
    <3> QED BY <1>1, <1>2, <3>2, <3>3 DEF IsDir, Exists
  <2> QED BY <2>2, <2>3, <2>4 DEF IsTree, Names
<1>4. ASSUME NEW q, IsLink(t, q) \/ IsLink(u, q)
      PROVE  q \in DOMAIN t /\ q \in DOMAIN u /\ u[q] = t[q]
  <2>1. IsLink(t, q)
    BY <1>1, <1>2, <1>4 DEF IsLink, Exists
  <2>2. q \in Names /\ ~IsPrefix(p, q)
    BY <2>1, LinkIs, NoLinkAbout
  <2> QED BY <1>1, <1>2, <2>1, <2>2 DEF IsLink, Exists
<1>5. ASSUME NEW q \in Names, ~Inside(q) PROVE ~IsPrefix(p, q)
  BY <1>0, <1>5, PrefixInside
<1>6. ProjectTree(u)
  BY <1>1, <1>2, <1>3, <1>4, <1>5, StaysProjectTree
<1> QED BY <1>6 DEF u

\* What a path is that is rebased from one directory to another.
IsRebased(q, p, from, to) ==
    /\ q \in Names /\ Len(q) = Len(to) + (Len(p) - Len(from))
    /\ \A k \in 1 .. Len(to) : q[k] = to[k]
    /\ \A k \in 1 .. Len(p) - Len(from) : q[Len(to) + k] = p[Len(from) + k]
    /\ IsPrefix(to, q)

\* Rebasing keeps what is below the directory, and can be undone.
LEMMA RebasedAre ==
  ASSUME NEW from \in Names, NEW to \in Names, NEW p \in Names, IsPrefix(from, p)
  PROVE  IsRebased(Rebased(p, from, to), p, from, to)
<1> DEFINE n == Len(from)
           m == Len(p) - Len(from)
           s == SubSeq(p, n + 1, n + m)
           q == to \o s
<1>1. /\ n \in Nat /\ m \in Nat /\ Len(to) \in Nat /\ n + m = Len(p) /\ n + m <= Len(p)
  <2>1. Len(from) \in Nat /\ Len(p) \in Nat /\ Len(to) \in Nat /\ Len(from) <= Len(p)
    BY PrefixByName DEF Names
  <2> QED BY <2>1
<1>2. Rebased(p, from, to) = q
  BY <1>1 DEF Rebased
<1> HIDE DEF n, m
<1>3. s \in Names /\ Len(s) = m /\ \A k \in 1 .. m : s[k] = p[n + k]
  BY <1>1, SliceIs DEF Names
<1> HIDE DEF s
<1>4. /\ q \in Names /\ Len(q) = Len(to) + m
      /\ \A k \in 1 .. Len(to) : q[k] = to[k]
      /\ \A k \in 1 .. m : q[Len(to) + k] = s[k]
  <2>1. /\ q \in Seq(STRING) /\ Len(q) = Len(to) + Len(s)
        /\ \A i \in 1 .. Len(to) + Len(s) :
             q[i] = IF i <= Len(to) THEN to[i] ELSE s[i - Len(to)]
    BY <1>3, ConcatProperties DEF Names
  <2>2. \A k \in 1 .. m : Len(to) + k \in 1 .. Len(to) + m /\ ~(Len(to) + k <= Len(to))
                          /\ (Len(to) + k) - Len(to) = k
    BY <1>1
  <2> HIDE DEF q
  <2>3. \A k \in 1 .. Len(to) : k \in 1 .. Len(to) + m /\ k <= Len(to)
    BY <1>1
  <2> QED BY <1>3, <2>1, <2>2, <2>3 DEF Names
<1> HIDE DEF q
<1>5. IsPrefix(to, q)
  <2>1. Len(to) <= Len(q)
    BY <1>1, <1>4
  <2> QED BY <1>4, <2>1, PrefixByName
<1>6. \A k \in 1 .. m : q[Len(to) + k] = p[n + k]
  BY <1>3, <1>4
<1>7. IsRebased(q, p, from, to)
  BY <1>4, <1>5, <1>6 DEF IsRebased, n, m
<1> QED BY <1>2, <1>7

\* The same without that name.
LEMMA RebasedIs ==
  ASSUME NEW from \in Names, NEW to \in Names, NEW p \in Names, IsPrefix(from, p)
  PROVE  /\ Rebased(p, from, to) \in Names
         /\ Len(Rebased(p, from, to)) = Len(to) + (Len(p) - Len(from))
         /\ \A k \in 1 .. Len(to) : Rebased(p, from, to)[k] = to[k]
         /\ \A k \in 1 .. Len(p) - Len(from) :
               Rebased(p, from, to)[Len(to) + k] = p[Len(from) + k]
         /\ IsPrefix(to, Rebased(p, from, to))
<1>1. IsRebased(Rebased(p, from, to), p, from, to)
  BY RebasedAre
<1> QED BY <1>1 DEF IsRebased

\* What is rebased there and back is what it was.
LEMMA RebasedBack ==
  ASSUME NEW from \in Names, NEW to \in Names, NEW p \in Names, IsPrefix(from, p)
  PROVE  Rebased(Rebased(p, from, to), to, from) = p
<1> DEFINE q == Rebased(p, from, to)
           r == Rebased(q, to, from)
<1>0. Len(from) \in Nat /\ Len(p) \in Nat /\ Len(to) \in Nat /\ Len(from) <= Len(p)
  BY PrefixByName DEF Names
<1>1. /\ q \in Names /\ Len(q) = Len(to) + (Len(p) - Len(from))
      /\ \A k \in 1 .. Len(p) - Len(from) : q[Len(to) + k] = p[Len(from) + k]
      /\ IsPrefix(to, q)
  <2>1. IsRebased(q, p, from, to)
    BY RebasedAre
  <2> HIDE DEF q
  <2> QED BY <2>1 DEF IsRebased
<1> HIDE DEF q
<1>2. /\ r \in Names /\ Len(r) = Len(from) + (Len(q) - Len(to))
      /\ \A k \in 1 .. Len(from) : r[k] = from[k]
      /\ \A k \in 1 .. Len(q) - Len(to) : r[Len(from) + k] = q[Len(to) + k]
  <2>1. IsRebased(r, q, to, from)
    BY <1>1, RebasedAre
  <2> HIDE DEF r
  <2> QED BY <2>1 DEF IsRebased
<1> HIDE DEF r
<1>3. Len(r) = Len(p) /\ Len(q) - Len(to) = Len(p) - Len(from)
  BY <1>0, <1>1, <1>2
<1>4. ASSUME NEW i \in 1 .. Len(p) PROVE r[i] = p[i]
  <2>1. CASE i <= Len(from)
    <3>1. i \in 1 .. Len(from)
      BY <1>0, <2>1
    <3>2. p[i] = from[i]
      BY <3>1, PrefixByName
    <3> QED BY <1>2, <3>1, <3>2
  <2>2. CASE ~(i <= Len(from))
    <3>1. i - Len(from) \in 1 .. Len(p) - Len(from) /\ Len(from) + (i - Len(from)) = i
      BY <1>0, <2>2
    <3> QED BY <1>1, <1>2, <1>3, <3>1
  <2> QED BY <2>1, <2>2
<1>5. r = p
  BY <1>2, <1>3, <1>4, SeqEqual DEF Names
<1> QED BY <1>5 DEF q, r

\* A prefix of a rebased path that reaches below the directory is a rebased prefix.
LEMMA RebasedPrefix ==
  ASSUME NEW from \in Names, NEW to \in Names, NEW p \in Names, IsPrefix(from, p),
         NEW r \in Names, IsPrefix(to, r), IsPrefix(r, Rebased(p, from, to))
  PROVE  LET s == Rebased(r, to, from)
         IN s \in Names /\ IsPrefix(s, p) /\ IsPrefix(from, s) /\ r = Rebased(s, from, to)
            /\ Len(s) = Len(from) + (Len(r) - Len(to))
<1> DEFINE s == Rebased(r, to, from)
           q == Rebased(p, from, to)
<1>0. /\ Len(from) \in Nat /\ Len(p) \in Nat /\ Len(to) \in Nat /\ Len(from) <= Len(p)
      /\ Len(r) \in Nat /\ Len(to) <= Len(r)
  BY PrefixByName DEF Names
<1>1. /\ q \in Names /\ Len(q) = Len(to) + (Len(p) - Len(from))
      /\ \A k \in 1 .. Len(p) - Len(from) : q[Len(to) + k] = p[Len(from) + k]
  <2>1. IsRebased(q, p, from, to)
    BY RebasedAre
  <2> HIDE DEF q
  <2> QED BY <2>1 DEF IsRebased
<1>2. /\ s \in Names /\ Len(s) = Len(from) + (Len(r) - Len(to))
      /\ \A k \in 1 .. Len(from) : s[k] = from[k]
      /\ \A k \in 1 .. Len(r) - Len(to) : s[Len(from) + k] = r[Len(to) + k]
      /\ IsPrefix(from, s)
  <2>1. IsRebased(s, r, to, from)
    BY RebasedAre
  <2> HIDE DEF s
  <2> QED BY <2>1 DEF IsRebased
<1>3. r = Rebased(s, from, to)
  BY RebasedBack
<1>4. Len(r) <= Len(q) /\ \A k \in 1 .. Len(r) : r[k] = q[k]
  <2>1. IsPrefix(r, q)
    OBVIOUS
  <2> HIDE DEF q
  <2> QED BY <1>1, <2>1, PrefixByName
<1> HIDE DEF s, q
<1>5. IsPrefix(s, p)
  <2>1. Len(s) <= Len(p)
    BY <1>0, <1>1, <1>2, <1>4
  <2>2. ASSUME NEW i \in 1 .. Len(s) PROVE s[i] = p[i]
    <3>1. CASE i <= Len(from)
      <4>1. i \in 1 .. Len(from)
        BY <1>0, <3>1
      <4>2. p[i] = from[i]
        BY <4>1, PrefixByName
      <4> QED BY <1>2, <4>1, <4>2
    <3>2. CASE ~(i <= Len(from))
      <4>1. PICK k \in 1 .. Len(r) - Len(to) : i = Len(from) + k
        <5>1. i - Len(from) \in 1 .. Len(r) - Len(to) /\ i = Len(from) + (i - Len(from))
          BY <1>0, <1>2, <3>2
        <5> QED BY <5>1
      <4>2. k \in 1 .. Len(p) - Len(from) /\ Len(to) + k \in 1 .. Len(r)
        BY <1>0, <1>1, <1>4, <4>1
      <4> QED BY <1>1, <1>2, <1>4, <4>1, <4>2
    <3> QED BY <3>1, <3>2
  <2> QED BY <1>2, <2>1, <2>2, PrefixByName
<1> QED BY <1>2, <1>3, <1>5 DEF s

\* Nothing lies below a path that does not exist, or is a link.
LEMMA NothingBelow ==
  ASSUME NEW t, IsTree(t), NEW p \in Names, p # <<>>, Inside(p), ~Found(t, p),
         NEW q \in DOMAIN t, q # p
  PROVE  ~IsPrefix(p, q)
<1> SUFFICES ASSUME IsPrefix(p, q) PROVE FALSE
  OBVIOUS
<1>1. q \in Names /\ Inside(q) /\ Len(p) <= Len(q) /\ Len(p) \in Nat /\ Len(q) \in Nat
  <2>1. q \in Names
    BY DEF IsTree, Names
  <2> QED BY <2>1, PrefixInside, PrefixByName DEF Names
<1>2. CASE Len(p) < Len(q)
  <2>1. p \in Ancestors(q)
    BY <1>1, <1>2, AncestorIs
  <2> QED BY <1>1, <2>1 DEF IsTree, IsDir, IsLink, Found, Exists
<1>3. CASE Len(p) = Len(q)
  BY <1>1, <1>3, SamePath
<1> QED BY <1>1, <1>2, <1>3

\* What is renamed takes all below it to the new place; its parents are made.
LEMMA MovedIs ==
  ASSUME NEW t, ProjectTree(t), NEW from \in Names, Inside(from), NEW to \in Names, Inside(to),
         CanRename(t, from, to), ~RenameFails(t, from, to)
  PROVE  LET v == Moved(t, from, to)
         IN /\ from # <<>> /\ to # <<>> /\ from # to
            /\ \A q \in DOMAIN t : q # to => ~IsPrefix(to, q)
            /\ \A q \in DOMAIN v :
                 \/ q \in DOMAIN t /\ ~IsPrefix(from, q) /\ q # to
                 \/ q \in Names /\ IsPrefix(q, Parent(to))
                 \/ \E m \in DOMAIN t : IsPrefix(from, m) /\ q = Rebased(m, from, to)
            /\ \A q \in DOMAIN t :
                 ~IsPrefix(from, q) /\ q # to => q \in DOMAIN v /\ v[q] = t[q]
            /\ \A q \in Names : IsPrefix(q, Parent(to)) => IsDir(v, q)
            /\ \A m \in DOMAIN t : IsPrefix(from, m) =>
                 Rebased(m, from, to) \in DOMAIN v /\ v[Rebased(m, from, to)] = t[m]
<1> DEFINE u == WithDirs(t, Parent(to))
           v == Moved(t, from, to)
<1>0. /\ from \in Names /\ Inside(from) /\ to \in Names /\ Inside(to)
      /\ IsTree(t) /\ DOMAIN t \subseteq Names /\ <<>> \in DOMAIN t
      /\ from \in DOMAIN t /\ ~Found(t, to)
      /\ CanMakeDirs(t, Parent(to)) /\ ~IsPrefix(from, to)
  BY DEF ProjectTree, IsTree, Names, CanRename, RenameFails, Found, IsDir, Exists
<1>1. from # <<>> /\ to # <<>> /\ from # to
  <2>1. from # <<>> /\ from # to
    BY <1>0, PrefixReflexive
  <2>2. Found(t, <<>>)
    BY <1>0 DEF Found, IsTree, IsDir, IsLink, Exists
  <2> QED BY <1>0, <2>1, <2>2
<1>2. /\ Parent(to) \in Names /\ Len(Parent(to)) = Len(to) - 1
      /\ \A s \in Names : IsPrefix(s, Parent(to)) <=> IsPrefix(s, to) /\ Len(s) < Len(to)
  BY <1>0, <1>1, ParentIs
<1>3. \A q \in DOMAIN t : q # to => ~IsPrefix(to, q)
  BY <1>0, <1>1, NothingBelow
<1>4. /\ \A q : q \in DOMAIN u <=> q \in DOMAIN t \/ (q \in Names /\ IsPrefix(q, Parent(to)))
      /\ \A q \in DOMAIN t : q \in DOMAIN u /\ u[q] = t[q]
      /\ \A q \in DOMAIN u : q \notin DOMAIN t => u[q] = Dir
  BY <1>2, WithDirsIs
<1>5. v = [p \in (DOMAIN u \ Below(from, t)) \cup {Rebased(q, from, to) : q \in Below(from, t)} |->
             IF IsPrefix(to, p) THEN t[Rebased(p, to, from)] ELSE u[p]]
  BY DEF Moved
<1> HIDE DEF u, v
<1>6. ASSUME NEW q \in Names, IsPrefix(q, Parent(to))
      PROVE  ~IsPrefix(to, q) /\ ~IsPrefix(from, q) /\ IsDir(u, q)
  <2>1. IsPrefix(q, to) /\ Len(q) < Len(to) /\ Len(q) \in Nat /\ Len(to) \in Nat
    BY <1>0, <1>2, <1>6 DEF Names
  <2>2. ~IsPrefix(to, q)
    BY <1>0, <2>1, PrefixByName
  <2>3. ~IsPrefix(from, q)
    BY <1>0, <2>1, PrefixTransitive
  <2>4. IsDir(u, q)
    BY <1>0, <1>2, <1>4, <1>6, CanMakeDirsIs DEF IsDir, Exists, Dir
  <2> QED BY <2>2, <2>3, <2>4
<1>7. ASSUME NEW q \in DOMAIN u, ~IsPrefix(from, q), q # to
      PROVE  q \in DOMAIN v /\ v[q] = u[q]
  <2>1. ~IsPrefix(to, q)
    BY <1>3, <1>4, <1>6, <1>7
  <2>2. q \notin Below(from, t)
    BY <1>7 DEF Below
  <2> QED BY <1>5, <2>1, <2>2
<1>8. ASSUME NEW m \in DOMAIN t, IsPrefix(from, m)
      PROVE  Rebased(m, from, to) \in DOMAIN v /\ v[Rebased(m, from, to)] = t[m]
  <2>1. m \in Below(from, t) /\ m \in Names
    BY <1>0, <1>8 DEF Below
  <2>2. IsPrefix(to, Rebased(m, from, to))
    BY <1>0, <1>8, <2>1, RebasedIs
  <2>3. Rebased(Rebased(m, from, to), to, from) = m
    BY <1>0, <1>8, <2>1, RebasedBack
  <2> QED BY <1>5, <2>1, <2>2, <2>3
<1>9. ASSUME NEW q \in DOMAIN v
      PROVE  \/ q \in DOMAIN t /\ ~IsPrefix(from, q) /\ q # to
             \/ q \in Names /\ IsPrefix(q, Parent(to))
             \/ \E m \in DOMAIN t : IsPrefix(from, m) /\ q = Rebased(m, from, to)
  <2>3. CASE q = to
    <3>1. from \in Names /\ IsPrefix(from, from)
      BY PrefixReflexive
    <3>2. Rebased(from, from, to) = to
      <4>1. IsPrefix(to, Rebased(from, from, to)) /\ Len(Rebased(from, from, to)) = Len(to)
            /\ Rebased(from, from, to) \in Names
        <5>1. Len(from) \in Nat /\ Len(to) \in Nat
          BY DEF Names
        <5>2. /\ Rebased(from, from, to) \in Names /\ IsPrefix(to, Rebased(from, from, to))
              /\ Len(Rebased(from, from, to)) = Len(to) + (Len(from) - Len(from))
          BY <3>1, RebasedIs
        <5> QED BY <5>1, <5>2
      <4> QED BY <4>1, SamePath
    <3> QED BY <1>0, <2>3, <3>1, <3>2
  <2>1. CASE q \in DOMAIN u \ Below(from, t)
    BY <1>4, <2>1, <2>3 DEF Below
  <2>2. CASE q \in {Rebased(m, from, to) : m \in Below(from, t)}
    BY <2>2 DEF Below
  <2> QED BY <1>5, <2>1, <2>2
<1>10. \A q \in DOMAIN t : ~IsPrefix(from, q) /\ q # to => q \in DOMAIN v /\ v[q] = t[q]
  BY <1>4, <1>7
<1>11. \A q \in Names : IsPrefix(q, Parent(to)) => IsDir(v, q)
  BY <1>0, <1>4, <1>6, <1>7, PrefixReflexive DEF IsDir, Exists
<1> QED BY <1>1, <1>3, <1>8, <1>9, <1>10, <1>11 DEF v

\* A rename inside leaves a project's tree, over a link that leads nowhere too.
LEMMA MovedKeeps ==
  ASSUME NEW t, ProjectTree(t), NEW from \in Names, Inside(from),
         NEW to, Clean(LiveLinks(Tree), to),
         CanRename(t, from, to), ~RenameFails(t, from, to)
  PROVE  ProjectTree(Moved(t, from, to))
<1> DEFINE v == Moved(t, from, to)
<1>0. /\ from \in Names /\ Inside(from) /\ to \in Names /\ Inside(to)
      /\ IsTree(t) /\ DOMAIN t \subseteq Names
  BY DEF Clean, ProjectTree, IsTree, Names
<1>1. /\ from # <<>> /\ to # <<>> /\ \A q \in DOMAIN t : q # to => ~IsPrefix(to, q)
      /\ \A q \in DOMAIN v :
           \/ q \in DOMAIN t /\ ~IsPrefix(from, q) /\ q # to
           \/ q \in Names /\ IsPrefix(q, Parent(to))
           \/ \E m \in DOMAIN t : IsPrefix(from, m) /\ q = Rebased(m, from, to)
      /\ \A q \in DOMAIN t : ~IsPrefix(from, q) /\ q # to => q \in DOMAIN v /\ v[q] = t[q]
      /\ \A q \in Names : IsPrefix(q, Parent(to)) => IsDir(v, q)
      /\ \A m \in DOMAIN t : IsPrefix(from, m) =>
           Rebased(m, from, to) \in DOMAIN v /\ v[Rebased(m, from, to)] = t[m]
  BY <1>0, MovedIs
<1>a. /\ ~Found(t, to) /\ (IsLink(t, to) => ~IsDir(t, from)) /\ Found(t, from)
      /\ to \notin DOMAIN LiveLinks(Tree)
  <2>1. ~Found(t, to) /\ (IsLink(t, to) => ~IsDir(t, from)) /\ Found(t, from)
    BY DEF CanRename, RenameFails
  <2>2. ASSUME to \in DOMAIN LiveLinks(Tree) PROVE FALSE
    <3>1. IsLink(t, to)
      BY <2>2, LiveLinksGrow, LiveLinksAre
    <3>2. to # <<>> /\ Len(to) = 1
      BY <1>1, <3>1, LinkIs
    <3>3. to = <<Head(to)>>
      BY <1>0, <3>2, FirstName
    <3> QED BY <2>2, <3>2, <3>3 DEF Clean
  <2> QED BY <2>1, <2>2
<1> HIDE DEF v
<1>2. /\ Parent(to) \in Names
      /\ \A s \in Names : IsPrefix(s, Parent(to)) <=> IsPrefix(s, to) /\ Len(s) < Len(to)
  BY <1>0, <1>1, ParentIs
<1>3. \A m \in DOMAIN t : IsPrefix(from, m) =>
         /\ Rebased(m, from, to) \in Names /\ IsPrefix(to, Rebased(m, from, to))
         /\ Inside(m) /\ Inside(Rebased(m, from, to))
  <2> TAKE m \in DOMAIN t
  <2> HAVE IsPrefix(from, m)
  <2>1. m \in Names /\ Inside(m)
    BY <1>0, <1>1, PrefixInside
  <2>2. Rebased(m, from, to) \in Names /\ IsPrefix(to, Rebased(m, from, to))
    BY <1>0, <2>1, RebasedIs
  <2> QED BY <1>0, <1>1, <2>1, <2>2, PrefixInside
<1>4. \A q \in Names : IsPrefix(q, Parent(to)) => Inside(q)
  <2> TAKE q \in Names
  <2> HAVE IsPrefix(q, Parent(to))
  <2>1. IsPrefix(q, to)
    BY <1>2
  <2> QED BY <1>0, <2>1, PrefixInside DEF Inside
<1>5. \A m \in DOMAIN t : IsPrefix(from, m) => ~IsLink(t, m)
  BY <1>0, <1>1, <1>a, FoundIsClear, NoLinkAbout
<1>6. IsTree(v)
  <2>1. DOMAIN v \subseteq Names
    BY <1>0, <1>1, <1>3
  <2>2. IsDir(v, <<>>)
    <3>1. <<>> \in Names /\ IsPrefix(<<>>, Parent(to))
      BY <1>2, PrefixReflexive DEF Names
    <3> QED BY <1>1, <3>1
  <2>3. ASSUME NEW q \in DOMAIN v PROVE v[q].kind \in {"dir", "file", "link"}
    <3>1. CASE q \in DOMAIN t /\ ~IsPrefix(from, q) /\ q # to
      BY <1>0, <1>1, <3>1 DEF IsTree
    <3>2. CASE q \in Names /\ IsPrefix(q, Parent(to))
      BY <1>1, <3>2 DEF IsDir
    <3>3. CASE \E m \in DOMAIN t : IsPrefix(from, m) /\ q = Rebased(m, from, to)
      BY <1>0, <1>1, <3>3 DEF IsTree
    <3> QED BY <1>1, <3>1, <3>2, <3>3
  <2>4. ASSUME NEW q \in DOMAIN v, Inside(q), NEW r \in Ancestors(q) PROVE IsDir(v, r)
    <3>1. q \in Names /\ r \in Names /\ IsPrefix(r, q) /\ Len(r) < Len(q)
      BY <2>1, AncestorIs
    <3>2. CASE q \in DOMAIN t /\ ~IsPrefix(from, q) /\ q # to
      <4>1. IsDir(t, r)
        BY <1>0, <2>4, <3>2 DEF IsTree
      <4>2. ~IsPrefix(from, r)
        BY <1>0, <3>1, <3>2, PrefixTransitive
      <4>3. r # to
        BY <1>a, <4>1 DEF Found, IsLink, IsDir, Exists
      <4> QED BY <1>1, <4>1, <4>2, <4>3 DEF IsDir, Exists
    <3>3. CASE q \in Names /\ IsPrefix(q, Parent(to))
      BY <1>1, <1>2, <3>1, <3>3, PrefixTransitive
    <3>4. CASE \E m \in DOMAIN t : IsPrefix(from, m) /\ q = Rebased(m, from, to)
      <4>1. PICK m \in DOMAIN t : IsPrefix(from, m) /\ q = Rebased(m, from, to)
        BY <3>4
      <4>2. m \in Names /\ IsPrefix(to, q) /\ Inside(m)
        BY <1>0, <1>3, <4>1
      <4>3. Len(q) = Len(to) + (Len(m) - Len(from))
        BY <1>0, <4>1, <4>2, RebasedIs
      <4>4. CASE Len(r) < Len(to)
        <5>1. IsPrefix(r, to)
          BY <1>0, <3>1, <4>2, <4>4, PrefixesCompare DEF Names
        <5> QED BY <1>1, <1>2, <3>1, <4>4, <5>1
      <4>5. CASE ~(Len(r) < Len(to))
        <5>1. IsPrefix(to, r)
          <6>1. Len(to) <= Len(r)
            BY <1>0, <3>1, <4>5 DEF Names
          <6> QED BY <1>0, <3>1, <4>2, <6>1, PrefixesCompare
        <5> DEFINE s == Rebased(r, to, from)
        <5>2. /\ s \in Names /\ IsPrefix(s, m) /\ IsPrefix(from, s) /\ r = Rebased(s, from, to)
              /\ Len(s) = Len(from) + (Len(r) - Len(to))
          BY <1>0, <3>1, <4>1, <4>2, <5>1, RebasedPrefix
        <5> HIDE DEF s
        <5>3. Len(s) < Len(m)
          <6>1. /\ Len(s) \in Nat /\ Len(m) \in Nat /\ Len(from) \in Nat /\ Len(to) \in Nat
                /\ Len(r) \in Nat /\ Len(q) \in Nat
            BY <1>0, <3>1, <4>2, <5>2 DEF Names
          <6> QED BY <3>1, <4>3, <5>2, <6>1
        <5>4. s \in Ancestors(m)
          BY <4>2, <5>2, <5>3, AncestorIs
        <5>5. IsDir(t, s)
          BY <1>0, <4>2, <5>4 DEF IsTree
        <5> QED BY <1>1, <5>2, <5>5 DEF IsDir, Exists
      <4> QED BY <4>4, <4>5
    <3> QED BY <1>1, <3>2, <3>3, <3>4
  <2> QED BY <2>1, <2>2, <2>3, <2>4 DEF IsTree, Names
<1>7. ASSUME NEW q \in DOMAIN LiveLinks(Tree)
      PROVE  q \in DOMAIN v /\ v[q] = t[q]
  <2>1. IsLink(t, q) /\ q # to
    BY <1>a, <1>7, LiveLinksGrow, LiveLinksAre
  <2> QED BY <1>1, <1>5, <2>1 DEF IsLink, Exists
<1>8. ASSUME NEW q, IsLink(v, q)
      PROVE  q \in DOMAIN t /\ v[q] = t[q]
  <2>1. CASE q \in DOMAIN t /\ ~IsPrefix(from, q) /\ q # to
    BY <1>1, <2>1
  <2>2. CASE q \in Names /\ IsPrefix(q, Parent(to))
    BY <1>1, <1>8, <2>2 DEF IsDir, IsLink
  <2>3. CASE \E m \in DOMAIN t : IsPrefix(from, m) /\ q = Rebased(m, from, to)
    BY <1>1, <1>5, <1>8, <2>3 DEF IsLink, Exists
  <2> QED BY <1>1, <1>8, <2>1, <2>2, <2>3 DEF IsLink, Exists
<1>9. ASSUME NEW q \in Names, ~Inside(q)
      PROVE  (q \in DOMAIN v <=> q \in DOMAIN t) /\ (q \in DOMAIN t => v[q] = t[q])
  <2>1. q \in DOMAIN t => ~IsPrefix(from, q) /\ q # to
    BY <1>0, <1>3, <1>9
  <2>2. q \in DOMAIN v => q \in DOMAIN t
    BY <1>1, <1>3, <1>4, <1>9
  <2> QED BY <1>1, <2>1, <2>2
<1>10. ProjectTree(v)
  BY <1>6, <1>7, <1>8, <1>9, BecomesProjectTree
<1> QED BY <1>10 DEF v

-----------------------------------------------------------------------------
(* Where the calls are: every step keeps them good.                         *)

Calls == DOMAIN call = Actors /\ \A a \in Actors : IsCall(call[a]) /\ GoodCall(a, call[a])

\* What a path resolves to, unless it is refused, is what it did at the start.
LEMMA ResolvedAt ==
  ASSUME NEW t, ProjectTree(t), NEW rel \in Names, Resolve(t, rel) # NoPath
  PROVE  /\ Resolve(t, rel) = Resolve(Tree, rel)
         /\ Clean(LiveLinks(Tree), Resolve(t, rel))
<1>1. Resolve(t, rel) = Resolve(Tree, rel)
  BY ResolveStays
<1>2. Clean(LiveLinks(Tree), Resolve(Tree, rel))
  BY <1>1, ResolvedIsClean, LiveLinksGrow, TreeIsProject
<1> QED BY <1>1, <1>2

\* A link leads where it did at the start, to a name; the server's files are no links.
LEMMA LandingIs ==
  ASSUME NEW t, ProjectTree(t), NEW p
  PROVE  /\ ~IsLink(t, p) => Landing(t, p) = p
         /\ IsLink(t, p) => /\ Landing(t, p) = Landing(Tree, p) /\ Landing(t, p) = t[p].to
                            /\ Landing(t, p) \notin {<<>>, NoPath}
         /\ p \in OwnPaths => ~IsLink(t, p)
<1>1. ASSUME IsLink(t, p)
      PROVE  /\ Landing(t, p) = Landing(Tree, p) /\ Landing(t, p) = t[p].to
             /\ Landing(t, p) \notin {<<>>, NoPath}
  <2>1. t[p] = Tree[p] /\ p \in DOMAIN Links(Tree) /\ t[p].to # NoPath /\ ~Inside(t[p].to)
    BY <1>1, LinkIs
  <2>2. IsLink(Tree, p)
    BY <2>1, LiveLinksAre
  <2>3. t[p].to # <<>>
    BY <2>1 DEF Inside
  <2> QED BY <1>1, <2>1, <2>2, <2>3 DEF Landing
<1>2. ASSUME IsLink(t, p), p \in OwnPaths PROVE FALSE
  <2>1. p \in DOMAIN Links(Tree) /\ Len(p) = 1
    BY <1>2, LinkIs
  <2>2. p \in Names /\ p # <<>> /\ <<Head(p)>> \notin DOMAIN Links(Tree)
    BY <1>2, OwnPathsAre
  <2>3. p = <<Head(p)>>
    BY <2>1, <2>2, FirstName
  <2> QED BY <2>1, <2>2, <2>3
<1> QED BY <1>1, <1>2 DEF Landing

\* The fields of a call that is none.
LEMMA IdleFields ==
  /\ DOMAIN Idle = {"at", "job", "path", "text", "then", "held"}
  /\ Idle.at = "rest" /\ Idle.path = NoPath /\ Idle.then = "end" /\ Idle.held = Absent
  BY DEF Idle

\* An actor at rest does nothing anywhere.
LEMMA IdleIsGood == \A a : IsCall(Idle) /\ GoodCall(a, Idle)
  BY IdleFields DEF IsCall, GoodCall, AllPaths

\* An agent that loads the plan again has ended its call.
LEMMA LoadingIsGood ==
  IsCall([Idle EXCEPT !.at = "load"]) /\ GoodCall("agent", [Idle EXCEPT !.at = "load"])
<1> DEFINE c == [Idle EXCEPT !.at = "load"]
<1>1. DOMAIN c = DOMAIN Idle /\ c.at = "load" /\ c.path = NoPath /\ c.then = "end"
  BY IdleFields
<1> QED BY <1>1, IdleFields DEF IsCall, GoodCall, AllPaths

\* A step of one actor leaves the other's call alone.
LEMMA OneCallChanges ==
  ASSUME Calls, NEW a \in Actors, DOMAIN call' = Actors,
         \A b \in Actors : b # a => call'[b] = call[b],
         IsCall(call'[a]), GoodCall(a, call'[a])
  PROVE  Calls'
  BY DEF Calls

\* A call that is refused ends.
LEMMA RefuseCalls ==
  ASSUME Calls, NEW a \in Actors, Refuse(a) PROVE Calls'
<1>1. DOMAIN call' = Actors /\ call'[a] = Idle /\ \A b \in Actors : b # a => call'[b] = call[b]
  BY DEF Refuse, Calls
<1> QED BY <1>1, IdleIsGood, OneCallChanges

\* What a call reads takes it to its write, or ends it.
LEMMA ProceedCalls ==
  ASSUME Calls, NEW a \in Actors, At(a, "read"), NEW ok, NEW text, Proceed(a, ok, text)
  PROVE  Calls'
<1> DEFINE c == [call[a] EXCEPT !.at = "open", !.text = text]
<1>1. CASE ~ok
  BY <1>1, RefuseCalls DEF Proceed
<1>2. CASE ok
  <2>1. DOMAIN call' = Actors /\ call'[a] = c /\ \A b \in Actors : b # a => call'[b] = call[b]
    BY <1>2 DEF Proceed, Calls
  <2>2. IsCall(call[a]) /\ GoodCall(a, call[a]) /\ call[a].at = "read"
    BY DEF Calls, At
  <2>3. /\ DOMAIN c = DOMAIN call[a] /\ c.at = "open" /\ c.job = call[a].job
        /\ c.path = call[a].path /\ c.then = call[a].then
    BY <2>2 DEF IsCall
  <2> HIDE DEF c
  <2>4. IsCall(c) /\ GoodCall(a, c)
    BY <2>2, <2>3 DEF IsCall, GoodCall
  <2> QED BY <2>1, <2>4, OneCallChanges
<1> QED BY <1>1, <1>2

\* A call begins at the path its job names.
LEMMA BeginWriteCalls ==
  ASSUME Calls, ProjectTree(disk), NEW a \in Actors, NEW j, BeginWrite(a, j) PROVE Calls'
<1> DEFINE p == Resolve(disk, j.rel)
           c == [Idle EXCEPT
             !.job = j, !.path = p,
             !.at = IF j.kind = "write" THEN "open" ELSE "read",
             !.text = IF j.kind = "write" THEN j.text ELSE <<>>,
             !.then = IF j.kind = "phase" /\ j.done THEN "log" ELSE AfterCall(a, p)]
<1>1. DOMAIN call' = Actors /\ call'[a] = c /\ \A b \in Actors : b # a => call'[b] = call[b]
  BY DEF BeginWrite, Calls
<1>2. j \in AllJobs /\ j.kind \in {"write", "edit", "phase"}
  BY DEF BeginWrite, Takes, JobsOf, AllJobs
<1>3. p \in {NoPath, Resolve(Tree, j.rel)} /\ p \in AllPaths /\ p \in Spots(j.rel) \cup {NoPath}
  <2>1. j.rel \in Names
    BY <1>2, JobsAssumption DEF Names
  <2>2. p \in {NoPath, Resolve(Tree, j.rel)}
    BY <2>1, ResolveStays
  <2> HIDE DEF p
  <2> QED BY <1>2, <2>2 DEF AllPaths, Spots
<1>4. j.kind = "phase" => p = PlanPath
  <2>1. j.kind = "phase" => j.rel = PlanPath
    BY <1>2, JobsAssumption DEF PhaseJob
  <2>2. PlanPath \in OwnPaths
    BY DEF OwnPaths
  <2> QED BY <2>1, <2>2, OwnPathsResolve
<1>5. /\ DOMAIN c = DOMAIN Idle /\ c.job = j /\ c.path = p
      /\ c.at = IF j.kind = "write" THEN "open" ELSE "read"
      /\ c.then = IF j.kind = "phase" /\ j.done THEN "log" ELSE AfterCall(a, p)
  BY IdleFields
<1>6. AfterCall(a, p) \in {"end", "load"} /\ (AfterCall(a, p) = "load" => a = "agent")
  BY DEF AfterCall
<1> HIDE DEF c, p
<1>7. IsCall(c)
  BY <1>3, <1>5, <1>6, IdleFields DEF IsCall
<1>8. GoodCall(a, c)
  BY <1>2, <1>3, <1>4, <1>5, <1>6 DEF GoodCall
<1> QED BY <1>1, <1>7, <1>8, OneCallChanges

\* rename(), remove() and mkdir() end in their step.
LEMMA ChangeTreeCalls ==
  ASSUME Calls, NEW a \in Actors, NEW j, ChangeTree(a, j) PROVE Calls'
<1>1. At(a, "rest")
  BY DEF ChangeTree, Takes
<1>2. call[a] = Idle
  BY <1>1 DEF Calls, GoodCall, At
<1>3. PICK at : /\ call' = [call EXCEPT ![a].at = at]
                /\ at = "rest" \/ (at = "load" /\ a = "agent")
  BY DEF ChangeTree, AfterCall
<1>4. /\ DOMAIN call' = Actors /\ call'[a] = [Idle EXCEPT !.at = at]
      /\ \A b \in Actors : b # a => call'[b] = call[b]
  BY <1>2, <1>3 DEF Calls
<1>5. IsCall(call'[a]) /\ GoodCall(a, call'[a])
  <2>1. [Idle EXCEPT !.at = "rest"] = Idle
    BY DEF Idle
  <2> QED BY <1>3, <1>4, <2>1, LoadingIsGood, IdleIsGood
<1> QED BY <1>4, <1>5, OneCallChanges

\* A file is opened at a name, or where a link leads, for a write that follows.
LEMMA OpenCalls ==
  ASSUME Calls, ProjectTree(disk), NEW a \in Actors, Open(a) PROVE Calls'
<1> DEFINE p == Landing(disk, Path(a))
           held == Content(disk, p)
           c == [call[a] EXCEPT !.at = "put", !.path = p, !.held = held]
<1>1. CASE ~CanWrite(disk, Path(a))
  BY <1>1, RefuseCalls DEF Open
<1>2. CASE CanWrite(disk, Path(a))
  <2>1. DOMAIN call' = Actors /\ call'[a] = c /\ \A b \in Actors : b # a => call'[b] = call[b]
    BY <1>2 DEF Open, Calls
  <2>2. /\ IsCall(call[a]) /\ GoodCall(a, call[a]) /\ call[a].at = "open"
        /\ call[a].path \notin {<<>>, NoPath}
    BY <1>2 DEF Calls, At, Open, CanWrite, Path
  <2>3. /\ p \notin {<<>>, NoPath}
        /\ p = call[a].path \/ p = Landing(Tree, call[a].path)
        /\ call[a].path \in OwnPaths => p = call[a].path
    BY <2>2, LandingIs DEF Path
  <2> HIDE DEF held, p
  <2>4. /\ DOMAIN c = DOMAIN call[a] /\ c.at = "put" /\ c.job = call[a].job
        /\ c.path = p /\ c.then = call[a].then
    BY <2>2 DEF IsCall
  <2> HIDE DEF c
  <2>5. PlanPath \in OwnPaths /\ LogPath \in OwnPaths
    BY DEF OwnPaths
  <2>6. GoodCall(a, c)
    <3>1. CASE call[a].job \in AllJobs /\ call[a].job.kind \in {"write", "edit"}
      <4>1. call[a].path = Resolve(Tree, call[a].job.rel)
        BY <2>2, <3>1 DEF GoodCall
      <4>2. p \in Spots(call[a].job.rel)
        BY <2>3, <4>1 DEF Spots
      <4> QED BY <2>2, <2>3, <2>4, <3>1, <4>2 DEF GoodCall
    <3>2. CASE call[a].job.kind \in {"phase", "fix"}
      <4>1. call[a].path \in {PlanPath, LogPath}
        BY <2>2, <3>2 DEF GoodCall
      <4>2. p = call[a].path
        BY <2>3, <2>5, <4>1
      <4> QED BY <2>2, <2>3, <2>4, <3>2, <4>2 DEF GoodCall
    <3> QED BY <2>2, <3>1, <3>2 DEF GoodCall
  <2>7. c.path \in AllPaths
    BY <2>3, <2>4, <2>5, <2>6 DEF GoodCall, AllPaths
  <2>8. IsCall(c)
    BY <2>2, <2>4, <2>7 DEF IsCall
  <2> QED BY <2>1, <2>6, <2>8, OneCallChanges
<1> QED BY <1>1, <1>2

\* A store is followed by the log, a load of the plan, or nothing.
LEMMA PutCalls ==
  ASSUME Calls, NEW a \in Actors, Put(a) PROVE Calls'
<1>1. /\ DOMAIN call' = Actors /\ call'[a] = AfterPut(call[a])
      /\ \A b \in Actors : b # a => call'[b] = call[b]
  BY DEF Put, Calls
<1>2. IsCall(call[a]) /\ GoodCall(a, call[a]) /\ call[a].at = "put"
  BY DEF Calls, At, Put
<1>3. IsCall(AfterPut(call[a])) /\ GoodCall(a, AfterPut(call[a]))
  <2>1. CASE call[a].then = "end"
    BY <2>1, IdleIsGood DEF AfterPut
  <2>2. CASE call[a].then = "log"
    <3> DEFINE c == AfterPut(call[a])
    <3>1. /\ DOMAIN c = DOMAIN Idle /\ c.at = "read" /\ c.job = call[a].job
          /\ c.path = LogPath /\ c.then = "end"
      BY <2>2, IdleFields DEF AfterPut
    <3> HIDE DEF c
    <3>2. LogPath \in AllPaths
      BY DEF AllPaths, OwnPaths
    <3>3. /\ call[a].job.kind = "phase" /\ call[a].job \in AllJobs /\ call[a].job.done
      BY <1>2, <2>2 DEF GoodCall
    <3>4. IsCall(c) /\ GoodCall(a, c)
      BY <3>1, <3>2, <3>3, IdleFields DEF IsCall, GoodCall
    <3> QED BY <3>4 DEF c
  <2>3. CASE call[a].then = "load"
    <3>1. AfterPut(call[a]) = [Idle EXCEPT !.at = "load"] /\ a = "agent"
      BY <1>2, <2>3 DEF AfterPut, GoodCall
    <3> QED BY <3>1, LoadingIsGood
  <2> QED BY <1>2, <2>1, <2>2, <2>3 DEF IsCall
<1> QED BY <1>1, <1>3, OneCallChanges

\* The agent that loaded the plan again rests, or unchecks its boxes.
LEMMA LoadAgainCalls ==
  ASSUME Calls, LoadAgain PROVE Calls'
<1> DEFINE plan == LoadedPlan(disk)
           fix == PlanLoads(disk) /\ MustFix(plan)
           text == RenderPlan(Unchecked(plan))
           c == [Idle EXCEPT !.at = "open", !.job = [kind |-> "fix"], !.path = PlanPath,
                             !.text = text]
<1>1. /\ DOMAIN call' = Actors /\ call'["agent"] = IF fix THEN c ELSE Idle
      /\ \A b \in Actors : b # "agent" => call'[b] = call[b]
  BY DEF LoadAgain, Calls, Actors
<1> HIDE DEF fix, text
<1>2. /\ DOMAIN c = DOMAIN Idle /\ c.at = "open" /\ c.job.kind = "fix"
      /\ c.path = PlanPath /\ c.then = "end"
  BY IdleFields
<1>3. PlanPath \in AllPaths
  BY DEF AllPaths, OwnPaths
<1>4. IsCall(c) /\ GoodCall("agent", c)
  <2> HIDE DEF c
  <2> QED BY <1>2, <1>3, IdleFields DEF IsCall, GoodCall
<1> HIDE DEF c
<1>5. "agent" \in Actors
  BY DEF Actors
<1> QED BY <1>1, <1>4, <1>5, IdleIsGood, OneCallChanges

\* A failed write ends its call.
LEMMA PutFailsCalls ==
  ASSUME Calls, NEW a \in Actors, PutFails(a) PROVE Calls'
<1>1. DOMAIN call' = Actors /\ call'[a] = Idle /\ \A b \in Actors : b # a => call'[b] = call[b]
  BY DEF PutFails, AfterFailure, Calls
<1> QED BY <1>1, IdleIsGood, OneCallChanges

\* Every step keeps the calls good.
LEMMA NextCalls ==
  ASSUME Calls, ProjectTree(disk), Next PROVE Calls'
<1>1. ASSUME NEW a \in Actors, Call(a) PROVE Calls'
  <2>1. ASSUME NEW j, BeginWrite(a, j) \/ ChangeTree(a, j) PROVE Calls'
    BY <2>1, BeginWriteCalls, ChangeTreeCalls
  <2>2. CASE ReadForEdit(a)
    BY <2>2, ProceedCalls DEF ReadForEdit
  <2>3. CASE ReadForPhase(a)
    BY <2>3, ProceedCalls DEF ReadForPhase
  <2>4. CASE ReadForLog(a)
    BY <2>4, ProceedCalls DEF ReadForLog
  <2> QED BY <1>1, <2>1, <2>2, <2>3, <2>4, OpenCalls, PutCalls, PutFailsCalls DEF Call
<1>2. CASE \E planning \in BOOLEAN : BeginTurn(planning)
  BY <1>2 DEF BeginTurn, Calls
<1>3. CASE EndTurn
  BY <1>3 DEF EndTurn, Calls
<1>4. CASE Stop
  BY <1>4, IdleIsGood DEF Stop, Calls
<1> QED BY <1>1, <1>2, <1>3, <1>4, LoadAgainCalls DEF Next

-----------------------------------------------------------------------------
(* The tree on the disk: every step keeps it that of the project.           *)

\* The invariant in the parts the lemmas use.
LEMMA IndInvGives ==
  ASSUME IndInv PROVE Calls /\ ProjectTree(disk)
  BY DEF IndInv, TypeOK, CallInv, Calls, ProjectTree, LinksStay, LinksKept,
         OutsideUntouched, OutsideSame

\* A call's path is one it may be at unless it was refused; only a store is where a
\* link leads.
LEMMA PathIsSpot ==
  ASSUME Calls, NEW a \in Actors, Path(a) # NoPath
  PROVE  /\ Spot(Path(a)) /\ Path(a) \in Names
         /\ At(a, "open") => Clean(LiveLinks(Tree), Path(a))
<1>1. Path(a) \in AllPaths /\ GoodCall(a, call[a])
  BY DEF Calls, IsCall, Path
<1>2. ASSUME At(a, "open") PROVE Clean(LiveLinks(Tree), Path(a))
  <2>1. CASE Path(a) \in OwnPaths
    <3>1. Resolve(Tree, Path(a)) = Path(a) /\ Path(a) \in Names
      BY <2>1, OwnPathsAre
    <3> QED BY <3>1, ResolvedAt, TreeIsProject
  <2>2. CASE call[a].job \in AllJobs /\ Path(a) = Resolve(Tree, call[a].job.rel)
    <3>1. call[a].job.rel \in Names
      BY <2>2, JobsAssumption DEF Names
    <3> QED BY <2>2, <3>1, ResolvedAt, TreeIsProject
  <2> QED BY <1>1, <1>2, <2>1, <2>2 DEF GoodCall, At, Path, OwnPaths
<1> QED BY <1>1, <1>2, AllPathsAreSpots DEF Spot

\* Where rename(), remove() and mkdir() work.
LEMMA ChangeTreeAt ==
  ASSUME ProjectTree(disk), NEW a \in Actors, NEW j, ChangeTree(a, j)
  PROVE  /\ j \in AllJobs /\ j.kind \in {"rename", "remove", "mkdir"}
         /\ Resolve(disk, j.rel) # NoPath =>
               /\ Resolve(disk, j.rel) = Resolve(Tree, j.rel)
               /\ Clean(LiveLinks(Tree), Resolve(disk, j.rel))
         /\ j.kind = "rename" /\ Resolve(disk, j.to) # NoPath =>
               /\ Resolve(disk, j.to) = Resolve(Tree, j.to)
               /\ Clean(LiveLinks(Tree), Resolve(disk, j.to))
<1>1. j \in AllJobs /\ j.kind \in {"rename", "remove", "mkdir"}
  BY DEF ChangeTree, Takes, JobsOf, AllJobs
<1>2. j.rel \in Names /\ (j.kind = "rename" => j.to \in Names)
  BY <1>1, JobsAssumption DEF Names
<1> QED BY <1>1, <1>2, ResolvedAt

\* rename(), remove() and mkdir() keep links and outside as they are.
LEMMA ChangeTreeKeeps ==
  ASSUME ProjectTree(disk), NEW a \in Actors, NEW j, ChangeTree(a, j)
  PROVE  ProjectTree(disk')
<1> DEFINE from == Resolve(disk, j.rel)
           to == IF j.kind = "rename" THEN Resolve(disk, j.to) ELSE from
<1>1. j \in AllJobs /\ j.kind \in {"rename", "remove", "mkdir"}
  BY ChangeTreeAt
<1>2. from # NoPath => Clean(LiveLinks(Tree), from)
  BY ChangeTreeAt
<1>3. to # NoPath => Clean(LiveLinks(Tree), to)
  BY <1>2, ChangeTreeAt
<1>4. disk' = disk \/
        CASE j.kind = "rename" -> CanRename(disk, from, to) /\ disk' = Renamed(disk, from, to)
          [] j.kind = "remove" -> CanRemove(disk, from) /\ disk' = Removed(disk, from)
          [] j.kind = "mkdir" -> CanMkdir(disk, from) /\ disk' = WithDirs(disk, from)
  BY <1>1 DEF ChangeTree
<1> HIDE DEF from, to
<1>6. CASE CanRename(disk, from, to) /\ disk' = Renamed(disk, from, to)
  <2>1. /\ Clean(LiveLinks(Tree), to) /\ from \in Names /\ Inside(from)
        /\ to \in Names /\ Inside(to)
    BY <1>2, <1>3, <1>6 DEF CanRename, Clean
  <2>2. CASE ~RenameFails(disk, from, to)
    <3>1. ProjectTree(Moved(disk, from, to))
      BY <1>6, <2>1, <2>2, MovedKeeps
    <3> QED BY <1>6, <2>2, <3>1 DEF Renamed
  <2>3. CASE RenameFails(disk, from, to) /\ CanMakeDirs(disk, Parent(to))
    <3>1. to # <<>>
      BY <1>6 DEF CanRename, Found, ProjectTree, IsTree, IsDir, IsLink
    <3>2. Parent(to) \in Names /\ Inside(Parent(to))
      <4>1. Parent(to) \in Names /\ IsPrefix(Parent(to), to)
        BY <2>1, <3>1, ParentIs, PrefixReflexive
      <4> QED BY <2>1, <4>1, PrefixInside DEF Inside
    <3>3. ProjectTree(WithDirs(disk, Parent(to)))
      BY <2>3, <3>2, WithDirsKeeps
    <3> QED BY <1>6, <2>3, <3>3 DEF Renamed
  <2>4. CASE RenameFails(disk, from, to) /\ ~CanMakeDirs(disk, Parent(to))
    BY <1>6, <2>4 DEF Renamed
  <2> QED BY <2>2, <2>3, <2>4
<1>7. CASE CanRemove(disk, from) /\ disk' = Removed(disk, from)
  <2>1. from \in Names /\ Inside(from) /\ Found(disk, from) /\ from # <<>>
    BY <1>2, <1>7 DEF CanRemove, Clean
  <2> QED BY <1>7, <2>1, FoundIsClear, RemovedKeeps
<1>8. CASE CanMkdir(disk, from) /\ disk' = WithDirs(disk, from)
  <2>1. from \in Names /\ Inside(from) /\ CanMakeDirs(disk, from)
    BY <1>2, <1>8 DEF CanMkdir, Clean
  <2> QED BY <1>8, <2>1, WithDirsKeeps
<1> QED BY <1>1, <1>4, <1>6, <1>7, <1>8

\* Opening keeps them so, through a link that leads to nothing too.
LEMMA OpenKeeps ==
  ASSUME ProjectTree(disk), Calls, NEW a \in Actors, Open(a), CanWrite(disk, Path(a))
  PROVE  ProjectTree(disk')
<1>1. disk' = Opened(disk, Path(a)) /\ At(a, "open")
  BY DEF Open
<1>2. /\ Clean(LiveLinks(Tree), Path(a))
      /\ Path(a) \in Names /\ Inside(Path(a))
  BY <1>1, PathIsSpot DEF CanWrite, Clean
<1>3. CASE IsLink(disk, Path(a))
  BY <1>1, <1>2, <1>3, OpenedThroughKeeps
<1>4. CASE ~IsLink(disk, Path(a))
  BY <1>1, <1>2, <1>4, OpenedKeeps
<1> QED BY <1>3, <1>4

\* Every step keeps links and outside as they are.
LEMMA NextKeepsTree ==
  ASSUME ProjectTree(disk), Calls, Next
  PROVE  ProjectTree(disk')
<1>1. ASSUME NEW a \in Actors, Open(a) PROVE ProjectTree(disk')
  <2>1. CASE CanWrite(disk, Path(a))
    BY <1>1, <2>1, OpenKeeps
  <2>2. CASE ~CanWrite(disk, Path(a))
    <3>1. disk' = disk
      BY <1>1, <2>2 DEF Open, Refuse
    <3> QED BY <3>1
  <2> QED BY <2>1, <2>2
<1>2. ASSUME NEW a \in Actors, Put(a) PROVE ProjectTree(disk')
  <2>1. Path(a) # NoPath
    BY <1>2 DEF Calls, GoodCall, Put, At, Path
  <2>2. CASE IsFile(disk, Path(a))
    <3>1. ProjectTree(Stored(disk, Path(a), call[a].text))
      BY <2>1, <2>2, PathIsSpot, StoredKeeps
    <3>2. disk' = Stored(disk, Path(a), call[a].text)
      BY <1>2, <2>2 DEF Put
    <3> QED BY <3>1, <3>2
  <2>3. CASE ~IsFile(disk, Path(a))
    <3>1. disk' = disk
      BY <1>2, <2>3 DEF Put
    <3> QED BY <3>1
  <2> QED BY <2>2, <2>3
<1>3. ASSUME NEW a \in Actors, Call(a) PROVE ProjectTree(disk')
  <2>1. ASSUME NEW j, BeginWrite(a, j) PROVE disk' = disk
    BY <2>1 DEF BeginWrite
  <2>2. ASSUME ReadForEdit(a) \/ ReadForPhase(a) \/ ReadForLog(a) \/ PutFails(a)
        PROVE  disk' = disk
    BY <2>2 DEF ReadForEdit, ReadForPhase, ReadForLog, Proceed, Refuse, PutFails
  <2> QED BY <1>1, <1>2, <1>3, <2>1, <2>2, ChangeTreeKeeps DEF Call
<1>4. ASSUME (\E planning \in BOOLEAN : BeginTurn(planning)) \/ LoadAgain \/ EndTurn \/ Stop
      PROVE  disk' = disk
  BY <1>4 DEF BeginTurn, LoadAgain, EndTurn, Stop
<1> QED BY <1>3, <1>4 DEF Next

-----------------------------------------------------------------------------
(* The contents of files under each operation.                              *)

\* Making directories changes no file.
LEMMA WithDirsContent ==
  ASSUME NEW t, NEW p \in Names, NEW q
  PROVE  Content(WithDirs(t, p), q) = Content(t, q)
<1>1. IsFile(WithDirs(t, p), q) <=> IsFile(t, q)
  BY WithDirsIs DEF IsFile, Exists, Dir
<1>2. IsFile(t, q) => WithDirs(t, p)[q] = t[q]
  BY WithDirsIs DEF IsFile, Exists
<1> QED BY <1>1, <1>2 DEF Content

\* Opening a file empties it, where a link leads too, and changes no other.
LEMMA OpenedContent ==
  ASSUME NEW t, ProjectTree(t), NEW p \in Names, p # <<>>, NEW q
  PROVE  Content(Opened(t, p), q) =
           IF q = Landing(t, p) THEN [there |-> TRUE, text |-> <<>>] ELSE Content(t, q)
<1> DEFINE u == Opened(t, p)
           l == Landing(t, p)
<1>1. /\ l \in DOMAIN u /\ u[l] = File(<<>>)
      /\ \A r \in DOMAIN t : r # l => r \in DOMAIN u /\ u[r] = t[r]
      /\ \A r \in DOMAIN u : r \notin DOMAIN t /\ r # l => u[r] = Dir
  <2>1. CASE IsLink(t, p)
    <3>1. l = t[p].to
      BY <2>1, LandingIs
    <3>2. /\ DOMAIN u = DOMAIN t \cup {t[p].to} /\ u[t[p].to] = File(<<>>)
          /\ \A r \in DOMAIN t : r # t[p].to => u[r] = t[r]
      BY <2>1, OpenedThrough
    <3> HIDE DEF u, l
    <3> QED BY <3>1, <3>2
  <2>2. CASE ~IsLink(t, p)
    BY <2>2, OpenedIs, LandingIs
  <2> QED BY <2>1, <2>2
<1> HIDE DEF u, l
<1>2. CASE q = l
  <2>1. IsFile(u, l) /\ u[l].text = <<>>
    BY <1>1 DEF IsFile, Exists, File
  <2>2. Content(u, l) = [there |-> TRUE, text |-> <<>>]
    BY <2>1 DEF Content
  <2> QED BY <1>2, <2>2 DEF u, l
<1>3. CASE q # l
  <2>1. IsFile(u, q) <=> IsFile(t, q)
    BY <1>1, <1>3 DEF IsFile, Exists, Dir
  <2>2. IsFile(t, q) => u[q] = t[q]
    BY <1>1, <1>3 DEF IsFile, Exists
  <2> QED BY <1>3, <2>1, <2>2 DEF Content, u, l
<1> QED BY <1>2, <1>3

\* Storing in an empty file gives it the text and changes no other.
LEMMA StoredContent ==
  ASSUME NEW t, NEW p, NEW text, Content(t, p) = [there |-> TRUE, text |-> <<>>], NEW q
  PROVE  Content(Stored(t, p, text), q) =
           IF q = p THEN [there |-> TRUE, text |-> text] ELSE Content(t, q)
<1> DEFINE u == Stored(t, p, text)
<1>1. p \in DOMAIN t /\ t[p].kind = "file" /\ t[p].text = <<>>
  BY DEF Content, Absent, IsFile, Exists
<1>2. DOMAIN u = DOMAIN t /\ u[p] = File(text) /\ \A r \in DOMAIN t : r # p => u[r] = t[r]
  BY <1>1 DEF Stored
<1> HIDE DEF u
<1>3. CASE q = p
  <2>1. IsFile(u, p) /\ u[p].text = text
    BY <1>1, <1>2 DEF IsFile, Exists, File
  <2>2. Content(u, p) = [there |-> TRUE, text |-> text]
    BY <2>1 DEF Content
  <2> QED BY <1>3, <2>2 DEF u
<1>4. CASE q # p
  BY <1>1, <1>2, <1>4 DEF Content, IsFile, Exists, u
<1> QED BY <1>3, <1>4

\* Removing takes the files below and changes no other.
LEMMA RemovedContent ==
  ASSUME NEW t, NEW p, NEW q
  PROVE  Content(Removed(t, p), q) = IF IsPrefix(p, q) THEN Absent ELSE Content(t, q)
<1> DEFINE u == Removed(t, p)
<1>1. \A r : r \in DOMAIN u <=> r \in DOMAIN t /\ ~IsPrefix(p, r)
  BY DEF Removed, Below
<1>2. \A r \in DOMAIN u : u[r] = t[r]
  BY DEF Removed, Below
<1> HIDE DEF u
<1>3. Content(u, q) = IF IsPrefix(p, q) THEN Absent ELSE Content(t, q)
  BY <1>1, <1>2 DEF Content, IsFile, Exists
<1> QED BY <1>3 DEF u

\* Renaming takes the files below to the new place and changes no other.
LEMMA MovedContent ==
  ASSUME NEW t, ProjectTree(t), NEW from \in Names, Inside(from), NEW to \in Names, Inside(to),
         CanRename(t, from, to), ~RenameFails(t, from, to), NEW q \in Names
  PROVE  Content(Moved(t, from, to), q) =
           IF IsPrefix(from, q) THEN Absent
           ELSE IF IsPrefix(to, q) THEN Content(t, Rebased(q, to, from))
           ELSE Content(t, q)
<1> DEFINE v == Moved(t, from, to)
<1>0. /\ from \in Names /\ to \in Names /\ from \in DOMAIN t /\ ~IsPrefix(from, to)
      /\ DOMAIN t \subseteq Names
  BY DEF CanRename, RenameFails, Found, Exists, ProjectTree, IsTree, Names
<1>1. /\ from # <<>> /\ to # <<>> /\ from # to
      /\ \A r \in DOMAIN t : r # to => ~IsPrefix(to, r)
      /\ \A r \in DOMAIN v :
           \/ r \in DOMAIN t /\ ~IsPrefix(from, r) /\ r # to
           \/ r \in Names /\ IsPrefix(r, Parent(to))
           \/ \E m \in DOMAIN t : IsPrefix(from, m) /\ r = Rebased(m, from, to)
      /\ \A r \in DOMAIN t : ~IsPrefix(from, r) /\ r # to => r \in DOMAIN v /\ v[r] = t[r]
      /\ \A r \in Names : IsPrefix(r, Parent(to)) => IsDir(v, r)
      /\ \A m \in DOMAIN t : IsPrefix(from, m) =>
           Rebased(m, from, to) \in DOMAIN v /\ v[Rebased(m, from, to)] = t[m]
  BY MovedIs
<1> HIDE DEF v
<1>2. /\ Parent(to) \in Names
      /\ \A r \in Names : IsPrefix(r, Parent(to)) <=> IsPrefix(r, to) /\ Len(r) < Len(to)
  BY <1>0, <1>1, ParentIs
<1>3. \A m \in DOMAIN t : IsPrefix(from, m) => IsPrefix(to, Rebased(m, from, to))
  BY <1>0, RebasedIs
<1>4. CASE IsPrefix(from, q)
  <2>1. ~IsPrefix(to, q)
    <3> SUFFICES ASSUME IsPrefix(to, q) PROVE FALSE
      OBVIOUS
    <3>1. Len(from) <= Len(to) \/ Len(to) <= Len(from)
      BY <1>0 DEF Names
    <3>2. IsPrefix(from, to) \/ IsPrefix(to, from)
      BY <1>0, <1>4, <3>1, PrefixesCompare
    <3> QED BY <1>0, <1>1, <3>2
  <2>2. ~IsPrefix(q, Parent(to))
    BY <1>0, <1>2, <1>4, PrefixTransitive
  <2>3. q \notin DOMAIN v
    BY <1>1, <1>3, <1>4, <2>1, <2>2
  <2> QED BY <1>4, <2>3 DEF Content, IsFile, Exists, v
<1>5. CASE ~IsPrefix(from, q) /\ IsPrefix(to, q)
  <2> DEFINE m == Rebased(q, to, from)
  <2>1. IsPrefix(from, m) /\ q = Rebased(m, from, to)
    BY <1>0, <1>5, RebasedIs, RebasedBack
  <2>2. m \in DOMAIN t => q \in DOMAIN v /\ v[q] = t[m]
    BY <1>1, <2>1
  <2>3. q \in DOMAIN v => m \in DOMAIN t
    <3> SUFFICES ASSUME q \in DOMAIN v PROVE m \in DOMAIN t
      OBVIOUS
    <3>1. ~IsPrefix(q, Parent(to))
      <4>1. Len(to) <= Len(q) /\ Len(to) \in Nat /\ Len(q) \in Nat
        BY <1>0, <1>5, PrefixByName DEF Names
      <4> QED BY <1>2, <4>1
    <3>2. PICK k \in DOMAIN t : IsPrefix(from, k) /\ q = Rebased(k, from, to)
      BY <1>1, <1>5, <3>1
    <3>3. m = k
      BY <1>0, <3>2, RebasedBack
    <3> QED BY <3>3
  <2> HIDE DEF m
  <2>4. Content(v, q) = Content(t, m)
    BY <2>2, <2>3 DEF Content, IsFile, Exists
  <2> QED BY <1>5, <2>4 DEF v, m
<1>6. CASE ~IsPrefix(from, q) /\ ~IsPrefix(to, q)
  <2>1. q \in DOMAIN t => q \in DOMAIN v /\ v[q] = t[q]
    BY <1>1, <1>6, PrefixReflexive
  <2>2. q \in DOMAIN v /\ q \notin DOMAIN t => IsDir(v, q)
    BY <1>1, <1>3, <1>6
  <2>3. Content(v, q) = Content(t, q)
    BY <2>1, <2>2 DEF Content, IsFile, IsDir, Exists
  <2> QED BY <1>6, <2>3 DEF v
<1> QED BY <1>4, <1>5, <1>6

-----------------------------------------------------------------------------
(* A plan and its text.                                                     *)

\* The text of a plan depends on its head and on what each phase says.
LEMMA SameText ==
  ASSUME NEW p, NEW q, p.title = q.title, p.requested = q.requested, p.started = q.started,
         DOMAIN p.phases = DOMAIN q.phases,
         \A i \in DOMAIN p.phases : /\ p.phases[i].done = q.phases[i].done
                                   /\ p.phases[i].text = q.phases[i].text
  PROVE  RenderPlan(p) = RenderPlan(q)
<1>1. [i \in DOMAIN p.phases |->
          Item(Box(p.phases[i].done),
               <<"Phase", Space, Numbers[i], ":", Space>> \o p.phases[i].text)]
      = [i \in DOMAIN q.phases |->
          Item(Box(q.phases[i].done),
               <<"Phase", Space, Numbers[i], ":", Space>> \o q.phases[i].text)]
  OBVIOUS
<1> QED BY <1>1 DEF RenderPlan

\* What ParsePlan yields is a record with phases that are records.
LEMMA PlanIs ==
  ASSUME NEW lines, NEW todos
  PROVE  LET p == ParsePlan(lines)
             q == WithTodos(p, todos)
         IN /\ DOMAIN p = {"title", "requested", "started", "phases"}
            /\ DOMAIN q = DOMAIN p /\ DOMAIN q.phases = DOMAIN p.phases
            /\ p.title = q.title /\ p.requested = q.requested /\ p.started = q.started
            /\ \A i \in DOMAIN p.phases :
                 /\ DOMAIN p.phases[i] = {"done", "text", "todos"}
                 /\ DOMAIN q.phases[i] = {"done", "text", "todos"}
                 /\ p.phases[i].done = q.phases[i].done
                 /\ p.phases[i].text = q.phases[i].text
<1> DEFINE p == ParsePlan(lines)
           q == WithTodos(p, todos)
<1>1. DOMAIN p = {"title", "requested", "started", "phases"} /\ p.phases = Phases(lines)
  BY DEF ParsePlan
<1>2. \A i \in DOMAIN p.phases : DOMAIN p.phases[i] = {"done", "text", "todos"}
  BY <1>1 DEF Phases
<1> HIDE DEF p
<1>3. /\ DOMAIN q = DOMAIN p
      /\ p.title = q.title /\ p.requested = q.requested /\ p.started = q.started
      /\ q.phases = [i \in DOMAIN p.phases |->
           [p.phases[i] EXCEPT !.todos =
              Selected(todos, {k \in DOMAIN todos : todos[k].mark = "todo" /\ todos[k].phase = i})]]
  BY <1>1 DEF WithTodos
<1> HIDE DEF q
<1>4. DOMAIN q.phases = DOMAIN p.phases
  BY <1>3
<1>5. ASSUME NEW i \in DOMAIN p.phases
      PROVE  /\ DOMAIN q.phases[i] = {"done", "text", "todos"}
             /\ p.phases[i].done = q.phases[i].done
             /\ p.phases[i].text = q.phases[i].text
  <2> DEFINE x == Selected(todos, {k \in DOMAIN todos : todos[k].mark = "todo" /\ todos[k].phase = i})
  <2>1. q.phases[i] = [p.phases[i] EXCEPT !.todos = x]
    BY <1>3
  <2> HIDE DEF x
  <2> QED BY <1>2, <2>1
<1> QED BY <1>1, <1>2, <1>3, <1>4, <1>5 DEF p, q

\* The todos are no part of the plan's text.
LEMMA TodosUnseen ==
  ASSUME NEW lines, NEW todos
  PROVE  LET p == ParsePlan(lines)
             q == WithTodos(p, todos)
         IN /\ \A n \in DOMAIN p.phases, done \in BOOLEAN :
                 RenderPlan(Check(q, n, done)) = RenderPlan(Check(p, n, done))
            /\ RenderPlan(Unchecked(q)) = RenderPlan(Unchecked(p))
<1> DEFINE p == ParsePlan(lines)
           q == WithTodos(p, todos)
<1>1. /\ DOMAIN p = {"title", "requested", "started", "phases"}
      /\ DOMAIN q = DOMAIN p /\ DOMAIN q.phases = DOMAIN p.phases
      /\ p.title = q.title /\ p.requested = q.requested /\ p.started = q.started
      /\ \A i \in DOMAIN p.phases :
           /\ DOMAIN p.phases[i] = {"done", "text", "todos"}
           /\ DOMAIN q.phases[i] = {"done", "text", "todos"}
           /\ p.phases[i].done = q.phases[i].done
           /\ p.phases[i].text = q.phases[i].text
  BY PlanIs
<1> HIDE DEF p, q
<1>2. ASSUME NEW n \in DOMAIN p.phases, NEW done \in BOOLEAN
      PROVE  RenderPlan(Check(q, n, done)) = RenderPlan(Check(p, n, done))
  <2> DEFINE pc == Check(p, n, done)
             qc == Check(q, n, done)
  <2>1. /\ pc.title = p.title /\ pc.requested = p.requested /\ pc.started = p.started
        /\ pc.phases = [p.phases EXCEPT ![n].done = done]
    BY <1>1 DEF Check
  <2>2. /\ qc.title = q.title /\ qc.requested = q.requested /\ qc.started = q.started
        /\ qc.phases = [q.phases EXCEPT ![n].done = done]
    BY <1>1 DEF Check
  <2> HIDE DEF pc, qc
  <2>3. DOMAIN pc.phases = DOMAIN p.phases /\ DOMAIN qc.phases = DOMAIN p.phases
    BY <1>1, <2>1, <2>2
  <2>4. ASSUME NEW i \in DOMAIN p.phases
        PROVE  pc.phases[i].done = qc.phases[i].done /\ pc.phases[i].text = qc.phases[i].text
    <3>1. CASE i = n
      <4>1. /\ pc.phases[n] = [p.phases[n] EXCEPT !.done = done]
            /\ qc.phases[n] = [q.phases[n] EXCEPT !.done = done]
        BY <1>1, <2>1, <2>2
      <4> QED BY <1>1, <3>1, <4>1
    <3>2. CASE i # n
      <4>1. pc.phases[i] = p.phases[i] /\ qc.phases[i] = q.phases[i]
        BY <1>1, <2>1, <2>2, <3>2
      <4> QED BY <1>1, <4>1
    <3> QED BY <3>1, <3>2
  <2>5. RenderPlan(qc) = RenderPlan(pc)
    BY <1>1, <2>1, <2>2, <2>3, <2>4, SameText
  <2> QED BY <2>5 DEF pc, qc
<1>3. RenderPlan(Unchecked(q)) = RenderPlan(Unchecked(p))
  <2> DEFINE pc == Unchecked(p)
             qc == Unchecked(q)
  <2>1. /\ pc.title = p.title /\ pc.requested = p.requested /\ pc.started = p.started
        /\ pc.phases = [i \in DOMAIN p.phases |-> [p.phases[i] EXCEPT !.done = FALSE]]
    BY <1>1 DEF Unchecked
  <2>2. /\ qc.title = q.title /\ qc.requested = q.requested /\ qc.started = q.started
        /\ qc.phases = [i \in DOMAIN q.phases |-> [q.phases[i] EXCEPT !.done = FALSE]]
    BY <1>1 DEF Unchecked
  <2> HIDE DEF pc, qc
  <2>3. DOMAIN pc.phases = DOMAIN p.phases /\ DOMAIN qc.phases = DOMAIN p.phases
    BY <1>1, <2>1, <2>2
  <2>4. ASSUME NEW i \in DOMAIN p.phases
        PROVE  pc.phases[i].done = qc.phases[i].done /\ pc.phases[i].text = qc.phases[i].text
    <3>1. /\ pc.phases[i] = [p.phases[i] EXCEPT !.done = FALSE]
          /\ qc.phases[i] = [q.phases[i] EXCEPT !.done = FALSE]
      BY <1>1, <2>1, <2>2
    <3> QED BY <1>1, <3>1
  <2>5. /\ qc.title = pc.title /\ qc.requested = pc.requested /\ qc.started = pc.started
        /\ DOMAIN qc.phases = DOMAIN pc.phases
        /\ \A i \in DOMAIN qc.phases : /\ qc.phases[i].done = pc.phases[i].done
                                      /\ qc.phases[i].text = pc.phases[i].text
    BY <1>1, <2>1, <2>2, <2>3, <2>4
  <2>6. RenderPlan(qc) = RenderPlan(pc)
    BY <2>5, SameText
  <2> QED BY <2>6 DEF pc, qc
<1> QED BY <1>2, <1>3 DEF p, q

-----------------------------------------------------------------------------
(* The texts of the calls: every step that runs into nobody keeps them good. *)

\* There are two actors.
LEMMA OtherIs ==
  ASSUME NEW a \in Actors
  PROVE  Other(a) \in Actors /\ Other(a) # a /\ \A b \in Actors : b # a => b = Other(a)
  BY DEF Actors, Other

\* An actor that has emptied a file, or has read what it is about to write there.
Busy(b) == At(b, "put") \/ (At(b, "open") /\ Kind(b) # "write")

\* What is not in use is not at or above the file of a busy actor.
LEMMA InUseIs ==
  ASSUME NEW a \in Actors, NEW p, ~InUse(a, p), NEW b \in Actors, b # a, Busy(b)
  PROVE  ~IsPrefix(p, Path(b))
<1>1. b = Other(a)
  BY OtherIs
<1> QED BY <1>1 DEF InUse, Busy

\* The file a busy actor is at has a name.
LEMMA BusyIsName ==
  ASSUME IndInv, ~clobbered, NEW b \in Actors, Busy(b)
  PROVE  Path(b) \in Names
<1>1. Calls /\ ProjectTree(disk)
  BY IndInvGives
<1>2. CASE At(b, "put")
  <2>1. Path(b) # NoPath
    BY <1>1, <1>2 DEF Calls, GoodCall, At, Path
  <2> QED BY <1>1, <2>1, PathIsSpot
<1>3. CASE At(b, "open") /\ Kind(b) = "edit"
  <2>1. Makes(call[b], Content(disk, Path(b)))
    BY <1>3 DEF IndInv, TextInv, GoodText, At, Path
  <2>2. Content(disk, Path(b)).there
    BY <1>3, <2>1 DEF Makes, Kind
  <2>3. Path(b) \in DOMAIN disk
    BY <2>2 DEF Content, Absent, IsFile, Exists
  <2> QED BY <1>1, <2>3 DEF ProjectTree, IsTree, Names
<1>4. CASE At(b, "open") /\ Kind(b) \notin {"edit", "write"}
  <2>1. Path(b) \in {PlanPath, LogPath}
    BY <1>1, <1>4 DEF Calls, GoodCall, At, Kind, Path
  <2> QED BY <2>1, JobsAssumption DEF OwnPaths, Names
<1> QED BY <1>2, <1>3, <1>4 DEF Busy

\* A call's text stays good while its file holds what it held.
LEMMA GoodTextFrame ==
  ASSUME NEW c, NEW t, NEW u, GoodText(c, t),
         c.at = "put" \/ (c.at = "open" /\ c.job.kind # "write")
           => Content(u, c.path) = Content(t, c.path)
  PROVE  GoodText(c, u)
<1>1. CASE c.at = "open" /\ c.job.kind = "write"
  BY <1>1 DEF GoodText, Makes
<1>2. CASE c.at = "put" \/ (c.at = "open" /\ c.job.kind # "write")
  BY <1>2 DEF GoodText
<1>3. CASE c.at \notin {"put", "open"}
  BY <1>3 DEF GoodText
<1> QED BY <1>1, <1>2, <1>3

\* A step of one actor that leaves the files of a busy other alone.
LEMMA TextStep ==
  ASSUME TextInv, ~clobbered, NEW a \in Actors,
         \A b \in Actors : b # a => call'[b] = call[b],
         GoodText(call'[a], disk'),
         \A b \in Actors : b # a /\ Busy(b) => Content(disk', Path(b)) = Content(disk, Path(b)),
         call'[a].at = "put" =>
           \A b \in Actors : b # a /\ At(b, "put") => Path(b) # call'[a].path
  PROVE  TextInv'
<1>1. ASSUME NEW b \in Actors PROVE GoodText(call'[b], disk')
  <2>1. CASE b = a
    BY <2>1
  <2>2. CASE b # a
    <3>1. GoodText(call[b], disk)
      BY DEF TextInv
    <3>2. call[b].at = "put" \/ (call[b].at = "open" /\ call[b].job.kind # "write")
            => Content(disk', call[b].path) = Content(disk, call[b].path)
      BY <2>2 DEF Busy, At, Kind, Path
    <3> QED BY <2>2, <3>1, <3>2, GoodTextFrame
  <2> QED BY <2>1, <2>2
<1>2. ASSUME NEW b \in Actors, NEW d \in Actors, call'[b].at = "put", call'[d].at = "put", b # d
      PROVE  call'[b].path # call'[d].path
  <2>1. CASE b = a
    BY <1>2, <2>1 DEF At, Path
  <2>2. CASE d = a
    BY <1>2, <2>2 DEF At, Path
  <2>3. CASE b # a /\ d # a
    BY <1>2, <2>3 DEF TextInv, At, Path
  <2> QED BY <2>1, <2>2, <2>3
<1> QED BY <1>1, <1>2 DEF TextInv, At, Path

\* An actor at rest has no text to be good.
LEMMA IdleText == \A t : GoodText(Idle, t)
  BY IdleFields DEF GoodText

\* A step that changes no file and takes its actor to no file.
LEMMA QuietStep ==
  ASSUME TextInv, ~clobbered, NEW a \in Actors, disk' = disk,
         \A b \in Actors : b # a => call'[b] = call[b],
         call'[a].at \notin {"open", "put"}
  PROVE  TextInv'
<1>1. GoodText(call'[a], disk')
  BY DEF GoodText
<1> QED BY <1>1, TextStep

\* A call that is refused leaves the other's text good.
LEMMA RefuseText ==
  ASSUME IndInv, ~clobbered, NEW a \in Actors, Refuse(a) PROVE TextInv'
<1>1. /\ disk' = disk /\ call'[a] = Idle /\ \A b \in Actors : b # a => call'[b] = call[b]
  BY DEF Refuse, IndInv, TypeOK
<1> QED BY <1>1, IdleFields, QuietStep DEF IndInv

\* What was read makes the text.
LEMMA ProceedText ==
  ASSUME IndInv, ~clobbered, NEW a \in Actors, At(a, "read"), NEW ok, NEW text,
         Proceed(a, ok, text),
         NEW c, c = [call[a] EXCEPT !.at = "open", !.text = text],
         ok => Makes(c, Content(disk, c.path))
  PROVE  TextInv'
<1>1. CASE ~ok
  BY <1>1, RefuseText DEF Proceed
<1>2. CASE ok
  <2>1. /\ disk' = disk /\ call'[a] = c /\ \A b \in Actors : b # a => call'[b] = call[b]
    BY <1>2 DEF Proceed, IndInv, TypeOK
  <2>2. c.at = "open"
    BY DEF IndInv, TypeOK, IsCall
  <2>3. GoodText(call'[a], disk')
    BY <1>2, <2>1, <2>2 DEF GoodText
  <2> QED BY <2>1, <2>2, <2>3, TextStep DEF IndInv
<1> QED BY <1>1, <1>2

\* An edit reads its file whole: what it will store is made of what is there.
LEMMA ReadForEditText ==
  ASSUME IndInv, ~clobbered, NEW a \in Actors, ReadForEdit(a) PROVE TextInv'
<1> DEFINE edits == call[a].job.edits
           ok == Editable(disk, Path(a), edits)
           text == EditText(ReadText(disk, Path(a)), edits).text
           c == [call[a] EXCEPT !.at = "open", !.text = text]
           old == Content(disk, Path(a))
<1>1. At(a, "read") /\ Kind(a) = "edit" /\ Proceed(a, ok, text)
  BY DEF ReadForEdit
<1>2. /\ c.job = call[a].job /\ c.path = Path(a) /\ c.text = text
  BY DEF IndInv, TypeOK, IsCall, Path
<1>3. ok => old.there /\ old.text = ReadText(disk, Path(a)) /\ EditText(old.text, edits).ok
  <2> SUFFICES ASSUME ok PROVE old.there /\ old.text = ReadText(disk, Path(a))
                               /\ EditText(old.text, edits).ok
    OBVIOUS
  <2>1. IsFile(disk, Path(a)) /\ ~(Len(disk[Path(a)].text) > MaxRead)
    BY DEF Editable, Readable, Truncated
  <2>2. ReadText(disk, Path(a)) = disk[Path(a)].text
    BY <2>1 DEF ReadText, Head2M
  <2>3. old = [there |-> TRUE, text |-> disk[Path(a)].text]
    BY <2>1 DEF Content
  <2> QED BY <2>2, <2>3 DEF Editable
<1> HIDE DEF c, old
<1>4. ok => Makes(c, old)
  <2> HIDE DEF ok
  <2>1. c.job.kind = "edit" /\ c.job.edits = edits
    BY <1>1, <1>2 DEF Kind
  <2>2. ok => /\ old.there /\ EditText(old.text, c.job.edits).ok
              /\ c.text = EditText(old.text, c.job.edits).text
    BY <1>2, <1>3, <2>1
  <2> QED BY <2>1, <2>2 DEF Makes
<1> HIDE DEF ok
<1>5. ok => Makes(c, Content(disk, c.path))
  BY <1>2, <1>4 DEF old
<1>6. c = [call[a] EXCEPT !.at = "open", !.text = text]
  BY DEF c
<1> HIDE DEF text
<1> QED BY <1>1, <1>5, <1>6, ProceedText

\* The plan that is loaded is that of the file's text, with its todos.
LEMMA LoadedIs ==
  ASSUME PlanLoads(disk), NEW n \in DOMAIN LoadedPlan(disk).phases
  PROVE  LET old == Content(disk, PlanPath)
             plan == ParsePlan(Head2M(old.text))
         IN /\ old.there /\ n \in DOMAIN plan.phases
            /\ \A done \in BOOLEAN :
                 RenderPlan(Check(LoadedPlan(disk), n, done)) = RenderPlan(Check(plan, n, done))
            /\ RenderPlan(Unchecked(LoadedPlan(disk))) = RenderPlan(Unchecked(plan))
<1>1. Exists(disk, PlanPath)
  <2> SUFFICES ASSUME ~Exists(disk, PlanPath) PROVE FALSE
    OBVIOUS
  <2>1. LoadedPlan(disk) = NoPlan
    BY DEF LoadedPlan
  <2>2. NoPlan.phases = <<>>
    BY DEF NoPlan
  <2> QED BY <2>1, <2>2
<1>2. IsFile(disk, PlanPath)
  BY <1>1 DEF PlanLoads, Readable
<1> DEFINE old == Content(disk, PlanPath)
           lines == ReadText(disk, PlanPath)
           todos == IF Exists(disk, TodosPath) THEN ReadText(disk, TodosPath) ELSE <<>>
<1>3. LoadedPlan(disk) = WithTodos(ParsePlan(lines), todos)
  BY <1>1 DEF LoadedPlan
<1>4. old.there /\ Head2M(old.text) = lines
  BY <1>2 DEF Content, ReadText
<1> HIDE DEF old, lines, todos
<1>5. n \in DOMAIN ParsePlan(lines).phases
  BY <1>3, PlanIs
<1> QED BY <1>3, <1>4, <1>5, TodosUnseen DEF old

\* So does the plan's handler.
LEMMA ReadForPhaseText ==
  ASSUME IndInv, ~clobbered, NEW a \in Actors, ReadForPhase(a) PROVE TextInv'
<1> DEFINE plan == LoadedPlan(disk)
           j == call[a].job
           ok == PlanLoads(disk) /\ j.number \in DOMAIN plan.phases
           text == RenderPlan(Check(plan, j.number, j.done))
           c == [call[a] EXCEPT !.at = "open", !.text = text]
           old == Content(disk, PlanPath)
           read == ParsePlan(Head2M(old.text))
<1>1. At(a, "read") /\ j.kind = "phase" /\ Path(a) = PlanPath /\ Proceed(a, ok, text)
  BY DEF ReadForPhase, Kind
<1>2. c.job = j /\ c.path = PlanPath /\ c.text = text
  BY <1>1 DEF IndInv, TypeOK, IsCall, Path
<1>3. j.done \in BOOLEAN
  <2>1. j \in AllJobs
    BY <1>1 DEF IndInv, CallInv, GoodCall, At
  <2> QED BY <1>1, <2>1, JobsAssumption
<1>4. ok => old.there /\ j.number \in DOMAIN read.phases
            /\ text = RenderPlan(Check(read, j.number, j.done))
  <2> SUFFICES ASSUME ok PROVE old.there /\ j.number \in DOMAIN read.phases
                               /\ text = RenderPlan(Check(read, j.number, j.done))
    OBVIOUS
  <2> HIDE DEF j
  <2> QED BY <1>3, LoadedIs
<1> HIDE DEF c, old, ok, text
<1>5. ok => Makes(c, old)
  <2>1. c.job.kind = "phase" /\ c.path # LogPath
    BY <1>1, <1>2, JobsAssumption
  <2> HIDE DEF j
  <2> QED BY <1>2, <1>4, <2>1 DEF Makes
<1>6. ok => Makes(c, Content(disk, c.path))
  BY <1>2, <1>5 DEF old
<1>7. c = [call[a] EXCEPT !.at = "open", !.text = text]
  BY DEF c
<1> QED BY <1>1, <1>6, <1>7, ProceedText

\* So does the log, of at most MaxRead.
LEMMA ReadForLogText ==
  ASSUME IndInv, ~clobbered, NEW a \in Actors, ReadForLog(a) PROVE TextInv'
<1> DEFINE j == call[a].job
           ok == Exists(disk, LogPath) => Readable(disk, LogPath)
           text == Append(IF Exists(disk, LogPath) THEN ReadText(disk, LogPath)
                          ELSE <<Prose(<<"log">>)>>, LogLine(j.number))
           c == [call[a] EXCEPT !.at = "open", !.text = text]
           old == Content(disk, LogPath)
<1>1. At(a, "read") /\ j.kind = "phase" /\ Path(a) = LogPath /\ Proceed(a, ok, text)
  BY DEF ReadForLog, Kind
<1>2. c.job = j /\ c.path = LogPath /\ c.text = text
  BY <1>1 DEF IndInv, TypeOK, IsCall, Path
<1>3. ok => text = Append(IF old.there THEN Head2M(old.text) ELSE <<Prose(<<"log">>)>>,
                          LogLine(j.number))
  <2> SUFFICES ASSUME ok
               PROVE  text = Append(IF old.there THEN Head2M(old.text)
                                    ELSE <<Prose(<<"log">>)>>, LogLine(j.number))
    OBVIOUS
  <2>1. CASE Exists(disk, LogPath)
    <3>1. IsFile(disk, LogPath)
      BY <2>1 DEF Readable
    <3>2. old.there /\ Head2M(old.text) = ReadText(disk, LogPath)
      BY <3>1 DEF Content, ReadText
    <3> QED BY <2>1, <3>2
  <2>2. CASE ~Exists(disk, LogPath)
    <3>1. ~old.there
      BY <2>2 DEF Content, Absent, IsFile
    <3> QED BY <2>2, <3>1
  <2> QED BY <2>1, <2>2
<1> HIDE DEF c, old, ok, text
<1>4. ok => Makes(c, old)
  <2>1. c.job.kind = "phase" /\ c.path # PlanPath
    BY <1>1, <1>2, JobsAssumption
  <2> HIDE DEF j
  <2> QED BY <1>2, <1>3, <2>1 DEF Makes
<1>5. ok => Makes(c, Content(disk, c.path))
  BY <1>2, <1>4 DEF old
<1>6. c = [call[a] EXCEPT !.at = "open", !.text = text]
  BY DEF c
<1> QED BY <1>1, <1>5, <1>6, ProceedText

\* A file is opened empty by one that keeps what it held, and by no other.
LEMMA OpenText ==
  ASSUME IndInv, NEW a \in Actors, Open(a), ~clobbered' PROVE TextInv'
<1>1. CASE ~CanWrite(disk, Path(a))
  <2>1. Refuse(a)
    BY <1>1 DEF Open
  <2>2. ~clobbered
    BY <2>1 DEF Refuse, ghosts
  <2> QED BY <2>1, <2>2, RefuseText
<1>2. CASE CanWrite(disk, Path(a))
  <2> DEFINE p == Landing(disk, Path(a))
             held == Content(disk, p)
             c == [call[a] EXCEPT !.at = "put", !.path = p, !.held = held]
  <2>1. /\ call[a].at = "open" /\ disk' = Opened(disk, Path(a))
        /\ Path(a) # <<>> /\ Path(a) # NoPath
        /\ ~clobbered /\ ~InUse(a, p)
    BY <1>2 DEF Open, At, Clobbers, CanWrite
  <2>2. call'[a] = c /\ \A b \in Actors : b # a => call'[b] = call[b]
    BY <1>2 DEF Open, IndInv, TypeOK
  <2>3. /\ c.at = "put" /\ c.job = call[a].job /\ c.path = p /\ c.text = call[a].text
        /\ c.held = held
    BY DEF IndInv, TypeOK, IsCall, Path
  <2>4. Path(a) \in Names /\ ProjectTree(disk) /\ GoodCall(a, call[a])
    BY <2>1, IndInvGives, PathIsSpot DEF Calls
  <2>5. Makes(call[a], Content(disk, Path(a)))
    BY <2>1 DEF IndInv, TextInv, GoodText, Path
  <2>b. p = Path(a) \/ (call[a].job.kind = "write" /\ p \in Names)
    <3> SUFFICES ASSUME IsLink(disk, Path(a))
                 PROVE  call[a].job.kind = "write" /\ p \in Names
      BY <2>4, LandingIs
    <3>1. p \in Names /\ Path(a) \notin OwnPaths
      BY <2>4, LandingIs, LinkIs
    <3>2. ~Content(disk, Path(a)).there
      BY DEF Content, Absent, IsFile, IsLink, Exists
    <3>3. call[a].job.kind # "edit"
      BY <2>5, <3>2 DEF Makes
    <3> QED BY <2>1, <2>4, <3>1, <3>3 DEF GoodCall, Path, OwnPaths
  <2>c. p \in Names
    BY <2>4, <2>b
  <2>d. p = Path(a) => held = Content(disk, Path(a))
    OBVIOUS
  <2>7. \A q : Content(disk', q) =
                 IF q = p THEN [there |-> TRUE, text |-> <<>>] ELSE Content(disk, q)
    BY <2>1, <2>4, OpenedContent
  <2> HIDE DEF c, held, p
  <2>6. Makes(c, c.held)
    <3>1. CASE p = Path(a)
      BY <2>3, <2>5, <2>d, <3>1 DEF Makes, Path
    <3>2. CASE call[a].job.kind = "write"
      BY <2>3, <2>5, <3>2 DEF Makes
    <3> QED BY <2>b, <3>1, <3>2
  <2>8. GoodText(call'[a], disk')
    BY <2>2, <2>3, <2>6, <2>7 DEF GoodText
  <2>9. ASSUME NEW b \in Actors, b # a, Busy(b)
        PROVE  Content(disk', Path(b)) = Content(disk, Path(b)) /\ Path(b) # p
    <3>1. ~IsPrefix(p, Path(b))
      BY <2>1, <2>9, InUseIs
    <3>2. Path(b) # p
      BY <2>c, <3>1, PrefixReflexive
    <3> QED BY <2>7, <3>2
  <2>10. \A b \in Actors : b # a /\ At(b, "put") => Path(b) # call'[a].path
    BY <2>2, <2>3, <2>9 DEF Busy
  <2> QED BY <2>1, <2>2, <2>8, <2>9, <2>10, TextStep DEF IndInv
<1> QED BY <1>1, <1>2

\* A file being written is there, empty, until its text is stored.
LEMMA PutIs ==
  ASSUME IndInv, NEW a \in Actors, Put(a), ~clobbered'
  PROVE  /\ ~clobbered /\ ~InUse(a, Path(a)) /\ Path(a) \in Names
         /\ \A q : Content(disk', q) =
                     IF q = Path(a) THEN [there |-> TRUE, text |-> call[a].text]
                     ELSE Content(disk, q)
         /\ \A b \in Actors : b # a /\ Busy(b) =>
              Path(b) # Path(a) /\ Content(disk', Path(b)) = Content(disk, Path(b))
<1>1. call[a].at = "put" /\ ~clobbered /\ ~InUse(a, Path(a))
  BY DEF Put, At, Clobbers
<1>2. Path(a) \in Names
  BY <1>1, BusyIsName DEF Busy, At
<1>3. Content(disk, Path(a)) = [there |-> TRUE, text |-> <<>>]
  BY <1>1 DEF IndInv, TextInv, GoodText, Path
<1>4. IsFile(disk, Path(a))
  BY <1>3 DEF Content, Absent
<1>5. disk' = Stored(disk, Path(a), call[a].text)
  BY <1>4 DEF Put
<1>6. \A q : Content(disk', q) =
               IF q = Path(a) THEN [there |-> TRUE, text |-> call[a].text]
               ELSE Content(disk, q)
  <2> DEFINE path == Path(a)
             text == call[a].text
  <2> SUFFICES \A q : Content(disk', q) = IF q = path THEN [there |-> TRUE, text |-> text]
                                          ELSE Content(disk, q)
    OBVIOUS
  <2>1. Content(disk, path) = [there |-> TRUE, text |-> <<>>] /\ disk' = Stored(disk, path, text)
    BY <1>3, <1>5
  <2> HIDE DEF path, text
  <2>2. \A q : Content(Stored(disk, path, text), q) =
                 IF q = path THEN [there |-> TRUE, text |-> text] ELSE Content(disk, q)
    BY <2>1, StoredContent
  <2> QED BY <2>1, <2>2
<1>7. ASSUME NEW b \in Actors, b # a, Busy(b) PROVE Path(b) # Path(a)
  <2>1. ~IsPrefix(Path(a), Path(b))
    BY <1>1, <1>7, InUseIs
  <2> QED BY <1>2, <2>1, PrefixReflexive
<1> QED BY <1>1, <1>2, <1>6, <1>7

\* After a store no file is open.
LEMMA AfterPutIs ==
  ASSUME NEW c, IsCall(c) PROVE AfterPut(c).at \in {"rest", "read", "load"}
<1>1. CASE c.then = "end"
  BY <1>1, IdleFields DEF AfterPut
<1>2. CASE c.then = "log"
  <2>1. AfterPut(c) = [Idle EXCEPT !.at = "read", !.job = c.job, !.path = LogPath]
    BY <1>2 DEF AfterPut
  <2> QED BY <2>1, IdleFields
<1>3. CASE c.then = "load"
  <2>1. AfterPut(c) = [Idle EXCEPT !.at = "load"]
    BY <1>3 DEF AfterPut
  <2> QED BY <2>1, IdleFields
<1> QED BY <1>1, <1>2, <1>3 DEF IsCall

\* A store that runs into nobody leaves the other's text good.
LEMMA PutText ==
  ASSUME IndInv, NEW a \in Actors, Put(a), ~clobbered' PROVE TextInv'
<1>1. call'[a] = AfterPut(call[a]) /\ \A b \in Actors : b # a => call'[b] = call[b]
  BY DEF Put, IndInv, TypeOK
<1>2. call'[a].at \notin {"open", "put"}
  <2>1. IsCall(call[a])
    BY DEF IndInv, TypeOK
  <2> QED BY <1>1, <2>1, AfterPutIs
<1>3. GoodText(call'[a], disk')
  BY <1>2 DEF GoodText
<1>4. ~clobbered /\ \A b \in Actors : b # a /\ Busy(b) =>
        Content(disk', Path(b)) = Content(disk, Path(b))
  BY PutIs
<1> QED BY <1>1, <1>2, <1>3, <1>4, TextStep DEF IndInv

\* What rename(), remove() and mkdir() make of the contents.
ChangedContent(j, from, to) ==
    \/ \A q \in Names : Content(disk', q) = Content(disk, q)
    \/ /\ j.kind = "rename" /\ CanRename(disk, from, to) /\ ~RenameFails(disk, from, to)
       /\ \A q \in Names : Content(disk', q) =
            IF IsPrefix(from, q) THEN Absent
            ELSE IF IsPrefix(to, q) THEN Content(disk, Rebased(q, to, from))
            ELSE Content(disk, q)
    \/ /\ j.kind = "remove"
       /\ \A q \in Names : Content(disk', q) =
            IF IsPrefix(from, q) THEN Absent ELSE Content(disk, q)

\* rename(), remove() and mkdir() change the contents at their clean paths.
LEMMA ChangeTreeContent ==
  ASSUME IndInv, NEW a \in Actors, NEW j, ChangeTree(a, j), disk' # disk
  PROVE  LET from == Resolve(Tree, j.rel)
             to == IF j.kind = "rename" THEN Resolve(Tree, j.to) ELSE from
         IN /\ Resolve(disk, j.rel) = from /\ (j.kind = "rename" => Resolve(disk, j.to) = to)
            /\ Clean(LiveLinks(Tree), from) /\ (j.kind = "rename" => Clean(LiveLinks(Tree), to))
            /\ ChangedContent(j, from, to)
<1> DEFINE from == Resolve(disk, j.rel)
           to == IF j.kind = "rename" THEN Resolve(disk, j.to) ELSE from
<1>0. ProjectTree(disk)
  BY IndInvGives
<1>1. /\ j.kind \in {"rename", "remove", "mkdir"}
      /\ from # NoPath => from = Resolve(Tree, j.rel) /\ Clean(LiveLinks(Tree), from)
      /\ j.kind = "rename" /\ to # NoPath =>
            to = Resolve(Tree, j.to) /\ Clean(LiveLinks(Tree), to)
  BY <1>0, ChangeTreeAt
<1>4. \/ j.kind = "rename" /\ CanRename(disk, from, to) /\ disk' = Renamed(disk, from, to)
      \/ j.kind = "remove" /\ CanRemove(disk, from) /\ disk' = Removed(disk, from)
      \/ j.kind = "mkdir" /\ CanMkdir(disk, from) /\ disk' = WithDirs(disk, from)
  BY <1>1 DEF ChangeTree
<1>5. from # NoPath /\ (j.kind = "rename" => to # NoPath)
  <2> HIDE DEF from, to
  <2> QED BY <1>4 DEF CanRename, CanRemove, CanMkdir
<1>6. /\ from = Resolve(Tree, j.rel) /\ Clean(LiveLinks(Tree), from)
      /\ j.kind = "rename" => to = Resolve(Tree, j.to) /\ Clean(LiveLinks(Tree), to)
      /\ j.kind # "rename" => to = from
  BY <1>1, <1>5
<1> SUFFICES ChangedContent(j, from, to)
  BY <1>6
<1> HIDE DEF from, to
<1>7. CASE j.kind = "rename" /\ CanRename(disk, from, to) /\ disk' = Renamed(disk, from, to)
  <2>1. from \in Names /\ Inside(from) /\ to \in Names /\ Inside(to)
    BY <1>6, <1>7 DEF Clean
  <2>2. CASE ~RenameFails(disk, from, to)
    <3>1. disk' = Moved(disk, from, to)
      BY <1>7, <2>2 DEF Renamed
    <3>2. \A q \in Names : Content(Moved(disk, from, to), q) =
            IF IsPrefix(from, q) THEN Absent
            ELSE IF IsPrefix(to, q) THEN Content(disk, Rebased(q, to, from))
            ELSE Content(disk, q)
      BY <1>0, <1>7, <2>1, <2>2, MovedContent
    <3> QED BY <1>7, <2>2, <3>1, <3>2 DEF ChangedContent
  <2>3. CASE RenameFails(disk, from, to) /\ CanMakeDirs(disk, Parent(to))
    <3>1. to # <<>>
      BY <1>0, <1>7 DEF CanRename, Found, ProjectTree, IsTree, IsDir, IsLink
    <3>2. Parent(to) \in Names
      BY <2>1, <3>1, ParentIs
    <3>3. disk' = WithDirs(disk, Parent(to))
      BY <1>7, <2>3 DEF Renamed
    <3> QED BY <3>2, <3>3, WithDirsContent DEF ChangedContent
  <2>4. CASE RenameFails(disk, from, to) /\ ~CanMakeDirs(disk, Parent(to))
    <3>1. disk' = disk
      BY <1>7, <2>4 DEF Renamed
    <3> QED BY <3>1
  <2> QED BY <2>2, <2>3, <2>4
<1>8. CASE j.kind = "remove" /\ CanRemove(disk, from) /\ disk' = Removed(disk, from)
  BY <1>8, RemovedContent DEF ChangedContent
<1>9. CASE j.kind = "mkdir" /\ CanMkdir(disk, from) /\ disk' = WithDirs(disk, from)
  <2>1. from \in Names
    BY <1>6 DEF Clean
  <2> QED BY <1>9, <2>1, WithDirsContent DEF ChangedContent
<1> QED BY <1>4, <1>7, <1>8, <1>9

\* Unless they run into a call, which is remembered.
LEMMA ChangeTreeIs ==
  ASSUME IndInv, NEW a \in Actors, NEW j, ChangeTree(a, j), disk' # disk, ~clobbered'
  PROVE  LET from == Resolve(Tree, j.rel)
             to == IF j.kind = "rename" THEN Resolve(Tree, j.to) ELSE from
         IN /\ ~InUse(a, from) /\ ~InUse(a, to)
            /\ Clean(LiveLinks(Tree), from) /\ (j.kind = "rename" => Clean(LiveLinks(Tree), to))
            /\ ChangedContent(j, from, to)
<1> DEFINE from == Resolve(disk, j.rel)
           to == IF j.kind = "rename" THEN Resolve(disk, j.to) ELSE from
<1>2. ~InUse(a, from) /\ ~InUse(a, to)
  BY DEF ChangeTree
<1>3. /\ from = Resolve(Tree, j.rel)
      /\ to = IF j.kind = "rename" THEN Resolve(Tree, j.to) ELSE from
  BY ChangeTreeContent
<1> HIDE DEF from, to
<1> QED BY <1>2, <1>3, ChangeTreeContent

\* So they leave the other's text good.
LEMMA ChangeTreeText ==
  ASSUME IndInv, NEW a \in Actors, NEW j, ChangeTree(a, j), ~clobbered' PROVE TextInv'
<1>1. /\ ~clobbered /\ At(a, "rest")
      /\ \A b \in Actors : b # a => call'[b] = call[b]
      /\ call'[a].at \in {"rest", "load"}
  BY DEF ChangeTree, Takes, IndInv, TypeOK, IsCall
<1>2. CASE disk' = disk
  BY <1>1, <1>2, QuietStep DEF IndInv
<1>3. CASE disk' # disk
  <2> DEFINE from == Resolve(Tree, j.rel)
             to == IF j.kind = "rename" THEN Resolve(Tree, j.to) ELSE from
  <2>1. ~InUse(a, from) /\ ~InUse(a, to) /\ ChangedContent(j, from, to)
    BY <1>3, ChangeTreeIs
  <2> HIDE DEF from, to
  <2>2. ASSUME NEW b \in Actors, b # a, Busy(b)
        PROVE  Content(disk', Path(b)) = Content(disk, Path(b))
    <3>1. Path(b) \in Names
      BY <1>1, <2>2, BusyIsName
    <3>2. ~IsPrefix(from, Path(b)) /\ ~IsPrefix(to, Path(b))
      BY <2>1, <2>2, InUseIs
    <3> QED BY <2>1, <3>1, <3>2 DEF ChangedContent
  <2>3. GoodText(call'[a], disk')
    BY <1>1 DEF GoodText
  <2> QED BY <1>1, <2>2, <2>3, TextStep DEF IndInv
<1> QED BY <1>2, <1>3

\* A call that begins has the text of its job, or none.
LEMMA BeginWriteText ==
  ASSUME IndInv, NEW a \in Actors, NEW j, BeginWrite(a, j), ~clobbered' PROVE TextInv'
<1> DEFINE p == Resolve(disk, j.rel)
           then == IF j.kind = "phase" /\ j.done THEN "log" ELSE AfterCall(a, p)
           c == [Idle EXCEPT
             !.job = j, !.path = p,
             !.at = IF j.kind = "write" THEN "open" ELSE "read",
             !.text = IF j.kind = "write" THEN j.text ELSE <<>>,
             !.then = then]
<1>1. /\ ~clobbered /\ disk' = disk /\ call'[a] = c
      /\ \A b \in Actors : b # a => call'[b] = call[b]
  BY DEF BeginWrite, IndInv, TypeOK, ghosts
<1>2. /\ c.job = j /\ c.at = (IF j.kind = "write" THEN "open" ELSE "read")
      /\ j.kind = "write" => c.text = j.text
  <2> HIDE DEF p, then
  <2> QED BY IdleFields
<1> HIDE DEF c, p, then
<1>3. GoodText(c, disk)
  BY <1>2 DEF GoodText, Makes
<1>4. c.at # "put"
  BY <1>2
<1> QED BY <1>1, <1>3, <1>4, TextStep DEF IndInv

\* The plan with its boxes cleared is made of the plan that was loaded.
LEMMA LoadAgainText ==
  ASSUME IndInv, LoadAgain, ~clobbered' PROVE TextInv'
<1> DEFINE plan == LoadedPlan(disk)
           fix == PlanLoads(disk) /\ MustFix(plan)
           text == RenderPlan(Unchecked(plan))
           c == [Idle EXCEPT !.at = "open", !.job = [kind |-> "fix"], !.path = PlanPath,
                             !.text = text]
           old == Content(disk, PlanPath)
<1>1. /\ ~clobbered /\ disk' = disk /\ "agent" \in Actors
      /\ call'["agent"] = IF fix THEN c ELSE Idle
      /\ \A b \in Actors : b # "agent" => call'[b] = call[b]
  BY DEF LoadAgain, IndInv, TypeOK, Actors
<1>2. CASE ~fix
  <2> HIDE DEF fix, c
  <2> QED BY <1>1, <1>2, IdleFields, QuietStep DEF IndInv
<1>3. CASE fix
  <2>1. old.there /\ text = RenderPlan(Unchecked(ParsePlan(Head2M(old.text))))
    <3>1. PICK n \in DOMAIN plan.phases : TRUE
      BY <1>3 DEF MustFix, Done
    <3> QED BY <1>3, <3>1, LoadedIs
  <2> HIDE DEF text, fix
  <2>2. c.at = "open" /\ c.job.kind = "fix" /\ c.path = PlanPath /\ c.text = text
    BY IdleFields
  <2> HIDE DEF c, old
  <2>3. Makes(c, old)
    BY <2>1, <2>2 DEF Makes
  <2>4. GoodText(c, disk)
    BY <2>2, <2>3 DEF GoodText, old
  <2> QED BY <1>1, <1>3, <2>2, <2>4, TextStep DEF IndInv
<1> QED BY <1>2, <1>3

\* Every step that runs into nobody keeps the texts good.
LEMMA NextText ==
  ASSUME IndInv, Next PROVE TextInv'
<1> SUFFICES ASSUME ~clobbered' PROVE TextInv'
  BY DEF TextInv
<1>1. ASSUME NEW a \in Actors, Call(a) PROVE TextInv'
  <2>1. ASSUME NEW j, BeginWrite(a, j) \/ ChangeTree(a, j) PROVE TextInv'
    BY <2>1, BeginWriteText, ChangeTreeText
  <2>2. CASE ReadForEdit(a) \/ ReadForPhase(a) \/ ReadForLog(a)
    <3>1. ~clobbered
      BY <2>2 DEF ReadForEdit, ReadForPhase, ReadForLog, Proceed, Refuse, ghosts
    <3> QED BY <2>2, <3>1, ReadForEditText, ReadForPhaseText, ReadForLogText
  <2>3. CASE PutFails(a)
    <3>1. /\ ~clobbered /\ disk' = disk /\ call'[a] = Idle
          /\ \A b \in Actors : b # a => call'[b] = call[b]
      BY <2>3 DEF PutFails, AfterFailure, IndInv, TypeOK
    <3> QED BY <3>1, IdleFields, QuietStep DEF IndInv
  <2> QED BY <1>1, <2>1, <2>2, <2>3, OpenText, PutText DEF Call
<1>2. CASE (\E planning \in BOOLEAN : BeginTurn(planning)) \/ EndTurn
  <2>1. UNCHANGED <<disk, call, clobbered>>
    BY <1>2 DEF BeginTurn, EndTurn, ghosts
  <2> QED BY <2>1 DEF IndInv, TextInv, At, Path
<1>3. CASE Stop
  <2>1. \A a \in Actors : call'[a] = Idle
    BY <1>3 DEF Stop
  <2> QED BY <2>1, IdleFields, IdleText DEF TextInv, At
<1> QED BY <1>1, <1>2, <1>3, LoadAgainText DEF Next

-----------------------------------------------------------------------------
(* The theorems.                                                            *)

\* The server starts on the project's tree with nobody busy.
LEMMA InitInvariant ==
  ASSUME Init PROVE IndInv
<1>1. disk = Tree /\ \A a \in Actors : call[a] = Idle
  BY DEF Init
<1>2. TypeOK
  <2>1. DOMAIN call = Actors /\ \A a \in Actors : IsCall(call[a])
    BY <1>1, IdleIsGood DEF Init
  <2>2. At("agent", "rest")
    BY <1>1, IdleFields DEF At, Actors
  <2>3. turn = [stage |-> turn.stage, planning |-> turn.planning,
                written |-> turn.written, prompt |-> turn.prompt]
    BY DEF Init, NoTurn
  <2>4. /\ jobs \in [Actors -> 0 .. MaxJobs] /\ stops \in 0 .. MaxStops
    BY BoundsAssumption DEF Init
  <2>5. lost \subseteq AllPaths /\ clobbered \in BOOLEAN
    BY DEF Init
  <2> QED BY <1>1, <2>1, <2>2, <2>3, <2>4, <2>5, TreeAssumption DEF TypeOK
<1>3. OutsideUntouched /\ LinksStay
  BY <1>1, TreeIsProject DEF OutsideUntouched, LinksStay, ProjectTree, OutsideSame, LinksKept
<1>4. CallInv
  BY <1>1, IdleIsGood DEF CallInv
<1>5. TextInv
  BY <1>1, IdleText, IdleFields DEF TextInv, At
<1> QED BY <1>2, <1>3, <1>4, <1>5 DEF IndInv

\* Outside a turn the agent is at rest: it begins a call in a turn, and the turn
\* ends between two.
LEMMA NextTurn ==
  ASSUME IndInv, Next
  PROVE  /\ turn'.stage = "none" => call'["agent"].at = "rest"
         /\ turn' = [stage |-> turn'.stage, planning |-> turn'.planning,
                     written |-> turn'.written, prompt |-> turn'.prompt]
<1>0. /\ turn.stage = "none" => call["agent"].at = "rest"
      /\ turn = [stage |-> turn.stage, planning |-> turn.planning,
                 written |-> turn.written, prompt |-> turn.prompt]
      /\ "agent" \in Actors /\ DOMAIN call = Actors /\ IsCall(call["agent"])
  BY DEF IndInv, TypeOK, At, Actors
<1>1. ASSUME NEW a \in Actors, Call(a)
      PROVE  turn' = turn /\ (turn.stage = "none" => call'["agent"].at = "rest")
  <2>1. turn' = turn
    BY <1>1 DEF Call, BeginWrite, ChangeTree, ReadForEdit, ReadForPhase, ReadForLog, Proceed,
                Refuse, Open, Put, PutFails
  <2>2. CASE a # "agent"
    <3>1. call'["agent"] = call["agent"]
      BY <1>0, <1>1, <2>2 DEF Call, BeginWrite, ChangeTree, ReadForEdit, ReadForPhase,
                              ReadForLog, Proceed, Refuse, Open, Put, PutFails
    <3> QED BY <1>0, <2>1, <3>1
  <2>3. CASE a = "agent"
    <3>1. call["agent"].at # "rest" \/ turn.stage = "calls"
      BY <1>1, <2>3 DEF Call, BeginWrite, ChangeTree, Takes, Allowed, ReadForEdit,
                        ReadForPhase, ReadForLog, Open, Put, PutFails, At
    <3> QED BY <1>0, <2>1, <3>1
  <2> QED BY <2>1, <2>2, <2>3
<1>2. CASE \E planning \in BOOLEAN : BeginTurn(planning)
  BY <1>2 DEF BeginTurn
<1>3. CASE LoadAgain
  <2>1. turn.stage # "none"
    BY <1>0, <1>3 DEF LoadAgain, At
  <2>2. turn' = turn \/ turn' = [turn EXCEPT !.written = TRUE]
    BY <1>3 DEF LoadAgain
  <2> QED BY <1>0, <2>1, <2>2
<1>4. CASE EndTurn
  BY <1>0, <1>4 DEF EndTurn, NoTurn, At
<1>5. CASE Stop
  BY <1>0, <1>5, IdleFields DEF Stop, NoTurn
<1> QED BY <1>0, <1>1, <1>2, <1>3, <1>4, <1>5 DEF Next

\* What a step may do to the counters, to what is lost and to clobbered.
Framed ==
    /\ jobs' = jobs \/ \E a \in Actors, j \in AllJobs : Takes(a, j)
    /\ stops' = stops \/ (stops < MaxStops /\ stops' = stops + 1)
    /\ \/ lost' = lost \/ (\E a \in Actors : lost' = lost \cup {Path(a)})
       \/ lost' = lost \cup {Path(a) : a \in {b \in Actors : At(b, "put")}}
    /\ clobbered' = clobbered \/ \E x : clobbered' = (clobbered \/ x)

\* Every step does that.
LEMMA NextFramed ==
  ASSUME Next PROVE Framed
<1>1. ASSUME NEW a \in Actors, Call(a) PROVE Framed
  <2>1. ASSUME NEW j \in JobsOf(a), BeginWrite(a, j) \/ ChangeTree(a, j) PROVE Framed
    <3>1. \E b \in Actors, i \in AllJobs : Takes(b, i)
      <4>1. j \in AllJobs /\ Takes(a, j)
        BY <2>1 DEF BeginWrite, ChangeTree, JobsOf, AllJobs
      <4> QED BY <4>1
    <3>2. stops' = stops /\ lost' = lost
      BY <2>1 DEF BeginWrite, ChangeTree, ghosts
    <3>3. clobbered' = clobbered \/ \E x : clobbered' = (clobbered \/ x)
      BY <2>1 DEF BeginWrite, ChangeTree, ghosts
    <3> QED BY <3>1, <3>2, <3>3 DEF Framed
  <2>2. CASE ReadForEdit(a) \/ ReadForPhase(a) \/ ReadForLog(a)
    <3>1. jobs' = jobs /\ \E ok, text : Proceed(a, ok, text)
      BY <2>2 DEF ReadForEdit, ReadForPhase, ReadForLog
    <3>2. stops' = stops /\ lost' = lost /\ clobbered' = clobbered
      BY <3>1 DEF Proceed, Refuse, ghosts
    <3> QED BY <3>1, <3>2 DEF Framed
  <2>3. CASE Open(a)
    <3>1. jobs' = jobs /\ stops' = stops /\ lost' = lost
      BY <2>3 DEF Open, Refuse, ghosts
    <3>2. clobbered' = clobbered \/ \E x : clobbered' = (clobbered \/ x)
      BY <2>3 DEF Open, Clobbers, Refuse, ghosts
    <3> QED BY <3>1, <3>2 DEF Framed
  <2>4. CASE Put(a)
    <3>1. jobs' = jobs /\ stops' = stops /\ lost' = lost
      BY <2>4 DEF Put
    <3>2. \E x : clobbered' = (clobbered \/ x)
      BY <2>4 DEF Put, Clobbers
    <3> QED BY <3>1, <3>2 DEF Framed
  <2>5. CASE PutFails(a)
    <3>1. /\ jobs' = jobs /\ clobbered' = clobbered /\ lost' = lost \cup {Path(a)}
          /\ stops < MaxStops /\ stops' = stops + 1
      BY <2>5 DEF PutFails
    <3> QED BY <3>1 DEF Framed
  <2> QED BY <1>1, <2>1, <2>2, <2>3, <2>4, <2>5 DEF Call
<1>2. CASE (\E planning \in BOOLEAN : BeginTurn(planning)) \/ LoadAgain \/ EndTurn
  <2>1. jobs' = jobs /\ stops' = stops /\ lost' = lost /\ clobbered' = clobbered
    BY <1>2 DEF BeginTurn, LoadAgain, EndTurn, ghosts
  <2> QED BY <2>1 DEF Framed
<1>3. CASE Stop
  <2>1. /\ jobs' = jobs /\ clobbered' = clobbered /\ stops < MaxStops /\ stops' = stops + 1
        /\ lost' = lost \cup {Path(a) : a \in {b \in Actors : At(b, "put")}}
    BY <1>3 DEF Stop
  <2> QED BY <2>1 DEF Framed
<1> QED BY <1>1, <1>2, <1>3 DEF Next

\* Counters stay within their bounds, and what is lost was at the path of a call.
LEMMA NextBounds ==
  ASSUME IndInv, Next
  PROVE  /\ jobs' \in [Actors -> 0 .. MaxJobs] /\ stops' \in 0 .. MaxStops
         /\ lost' \subseteq AllPaths /\ clobbered' \in BOOLEAN
<1>0. /\ jobs \in [Actors -> 0 .. MaxJobs] /\ stops \in 0 .. MaxStops /\ lost \subseteq AllPaths
      /\ \A a \in Actors : Path(a) \in AllPaths
  BY DEF IndInv, TypeOK, IsCall, Path
<1>1. jobs' \in [Actors -> 0 .. MaxJobs]
  <2>1. ASSUME NEW a \in Actors, NEW j, Takes(a, j) PROVE jobs' \in [Actors -> 0 .. MaxJobs]
    <3>1. jobs[a] + 1 \in 0 .. MaxJobs
      BY <1>0, <2>1, BoundsAssumption DEF Takes
    <3> QED BY <1>0, <2>1, <3>1 DEF Takes
  <2>2. jobs' = jobs \/ \E a \in Actors, j \in AllJobs : Takes(a, j)
    BY NextFramed DEF Framed
  <2> QED BY <1>0, <2>1, <2>2
<1>2. stops' \in 0 .. MaxStops
  <2>1. stops' = stops \/ (stops < MaxStops /\ stops' = stops + 1)
    BY NextFramed DEF Framed
  <2> QED BY <1>0, <2>1, BoundsAssumption
<1>3. lost' \subseteq AllPaths
  <2>1. \/ lost' = lost \/ (\E a \in Actors : lost' = lost \cup {Path(a)})
        \/ lost' = lost \cup {Path(a) : a \in {b \in Actors : At(b, "put")}}
    BY NextFramed DEF Framed
  <2> QED BY <1>0, <2>1
<1>4. clobbered' \in BOOLEAN
  <2>1. clobbered' = clobbered \/ \E x : clobbered' = (clobbered \/ x)
    BY NextFramed DEF Framed
  <2> QED BY <2>1 DEF IndInv, TypeOK
<1> QED BY <1>1, <1>2, <1>3, <1>4

\* Every step keeps the invariant.
LEMMA NextInvariant ==
  ASSUME IndInv, [Next]_vars PROVE IndInv'
<1>1. CASE Next
  <2>1. Calls' /\ TextInv' /\ ProjectTree(disk')
    BY <1>1, IndInvGives, NextCalls, NextText, NextKeepsTree
  <2>2. TypeOK'
    BY <1>1, <2>1, NextTurn, NextBounds DEF TypeOK, Calls, ProjectTree, At
  <2>3. OutsideUntouched' /\ LinksStay' /\ CallInv'
    BY <2>1 DEF ProjectTree, OutsideSame, LinksKept, OutsideUntouched, LinksStay, Calls, CallInv
  <2> QED BY <2>1, <2>2, <2>3 DEF IndInv
<1>2. CASE UNCHANGED vars
  BY <1>2 DEF vars, ghosts, IndInv, TypeOK, OutsideUntouched, LinksStay, CallInv, TextInv, At, Path
<1> QED BY <1>1, <1>2

\* The inductive invariant: the tree is the project's, the calls are where their jobs
\* take them, and their texts are made of what the files held.
THEOREM InvariantHolds == Spec => []IndInv
<1>1. Init => IndInv
  BY InitInvariant
<1>2. IndInv /\ [Next]_vars => IndInv'
  BY NextInvariant
<1> QED BY <1>1, <1>2, PTL DEF Spec

\* Every state is a tree with calls on its files.
THEOREM TypeCorrect == Spec => []TypeOK
<1>1. IndInv => TypeOK
  BY DEF IndInv
<1> QED BY <1>1, InvariantHolds, PTL

\* Nothing that was outside is changed or removed by any request, and nothing comes to
\* be there but files that links of the start dangled at (workspace.cpp 99-170, 273-300),
\* whatever the tree, the links that lead out of it, the jobs and their order.
THEOREM OutsideUntouchedHolds == Spec => []OutsideUntouched
<1>1. IndInv => OutsideUntouched
  BY DEF IndInv
<1> QED BY <1>1, InvariantHolds, PTL

-----------------------------------------------------------------------------
(* The operators of AtomicFiles are those of the modules it shares.         *)

\* Prefixes, rebasing and the limit of a read.
LEMMA SameFileOperators ==
  /\ \A x, y : Atomic!IsPrefix(x, y) = IsPrefix(x, y)
  /\ \A x, y, z : Atomic!Rebased(x, y, z) = Rebased(x, y, z)
  /\ \A x : Atomic!Head2M(x) = Head2M(x)
  BY DEF Atomic!IsPrefix, IsPrefix, Atomic!Rebased, Rebased, Atomic!Head2M, Head2M

\* What edits make of a text.
LEMMA SameEdits == \A x, y : Atomic!EditText(x, y) = EditText(x, y)
  BY DEF Atomic!EditText, EditText, Atomic!Applies, Applies, Atomic!Matches, Matches,
         Atomic!Cardinality, Cardinality, Atomic!Replaced, Replaced

\* The plan of a text.
LEMMA SameParse ==
  ASSUME NEW x PROVE Atomic!ParsePlan(x) = ParsePlan(x)
<1>1. \A y : Atomic!Trimmed(y) = Trimmed(y)
  BY DEF Atomic!Trimmed, Trimmed, Atomic!Space, Space, Atomic!Min, Min, Atomic!Max, Max
<1>2. \A y : Atomic!StripPhasePrefix(y) = StripPhasePrefix(y)
  BY DEF Atomic!StripPhasePrefix, StripPhasePrefix, Atomic!Space, Space, Atomic!DropLeading, DropLeading,
         Atomic!Min, Min, Atomic!Range, Range
<1>3. \A y : Atomic!PhaseText(y) = PhaseText(y)
  BY <1>1, <1>2 DEF Atomic!PhaseText, PhaseText
<1>0. \A y, k : Atomic!Selected(y, k) = Selected(y, k)
  BY DEF Atomic!Selected, Selected, Atomic!Cardinality, Cardinality
<1>4. \A m : Atomic!Marked(x, m) = Marked(x, m)
  BY <1>0 DEF Atomic!Marked, Marked
<1>5. Atomic!Titles(x) = Titles(x)
  BY <1>0, <1>1 DEF Atomic!Titles, Titles
<1>6. \A y : Atomic!FirstText(y) = FirstText(y) /\ Atomic!LastText(y) = LastText(y)
  BY <1>1 DEF Atomic!FirstText, FirstText, Atomic!LastText, LastText, Atomic!Last, Last
<1>7. Atomic!Phases(x) = Phases(x)
  BY <1>0, <1>3 DEF Atomic!Phases, Phases
<1> QED BY <1>4, <1>5, <1>6, <1>7 DEF Atomic!ParsePlan, ParsePlan

\* The text of a plan.
LEMMA SameRender == \A x : Atomic!RenderPlan(x) = RenderPlan(x)
  BY DEF Atomic!RenderPlan, RenderPlan, Atomic!Line, Line, Atomic!OrDefault, OrDefault,
         Atomic!Item, Item, Atomic!Box, Box, Atomic!Space, Space

\* Checking off, unchecking and the line of the log.
LEMMA SameChanges ==
  /\ \A x, n, d : Atomic!Check(x, n, d) = Check(x, n, d)
  /\ \A x : Atomic!Unchecked(x) = Unchecked(x)
  /\ \A x : Atomic!Prose(x) = Prose(x)
  /\ \A n : Atomic!LogLine(n) = LogLine(n)
  BY DEF Atomic!Check, Check, Atomic!Unchecked, Unchecked, Atomic!Prose, Prose,
         Atomic!Line, Line, Atomic!LogLine, LogLine

-----------------------------------------------------------------------------
(* The files as a client may think of them.                                 *)

WritesAt(b, p) == At(b, "put") /\ Path(b) = p

StoreInv ==
    ~clobbered =>
        /\ \A b \in Actors : At(b, "put") => Seen(Path(b)) = call[b].held
        /\ \A q : (\A b \in Actors : ~WritesAt(b, q)) => Seen(q) = Content(disk, q)
        /\ \A q : q \in DOMAIN FileTexts <=> Seen(q).there
        /\ \A q \in DOMAIN FileTexts : q \in Names /\ FileTexts[q] = Seen(q).text
        /\ \A q \in DOMAIN FileTexts : IsFile(disk, q)

\* The invariant says what the files as a client sees them are.
LEMMA StoreIs == IndInv => StoreInv
<1> SUFFICES ASSUME IndInv, ~clobbered
             PROVE  /\ \A b \in Actors : At(b, "put") => Seen(Path(b)) = call[b].held
                    /\ \A q : (\A b \in Actors : ~WritesAt(b, q)) => Seen(q) = Content(disk, q)
                    /\ \A q : q \in DOMAIN FileTexts <=> Seen(q).there
                    /\ \A q \in DOMAIN FileTexts : q \in Names /\ FileTexts[q] = Seen(q).text
                    /\ \A q \in DOMAIN FileTexts : IsFile(disk, q)
  BY DEF StoreInv
<1>1. ASSUME NEW b \in Actors, At(b, "put") PROVE Seen(Path(b)) = call[b].held
  <2>1. Writers(Path(b)) = {b}
    BY <1>1 DEF IndInv, TextInv, Writers
  <2>2. (CHOOSE x \in Writers(Path(b)) : TRUE) = b
    BY <2>1
  <2> QED BY <2>1, <2>2 DEF Seen
<1>2. ASSUME NEW q, \A b \in Actors : ~WritesAt(b, q) PROVE Seen(q) = Content(disk, q)
  BY <1>2 DEF Seen, Writers, WritesAt
<1>3. ASSUME NEW q, Seen(q).there PROVE q \in DOMAIN disk /\ IsFile(disk, q)
  <2>1. Content(disk, q).there
    <3>1. CASE \E b \in Actors : WritesAt(b, q)
      BY <3>1 DEF IndInv, TextInv, GoodText, WritesAt, At, Path
    <3>2. CASE \A b \in Actors : ~WritesAt(b, q)
      BY <1>2, <1>3, <3>2
    <3> QED BY <3>1, <3>2
  <2> QED BY <2>1 DEF Content, Absent, IsFile, Exists
<1>4. \A q : q \in DOMAIN FileTexts <=> Seen(q).there
  BY <1>3 DEF FileTexts
<1>5. \A q \in DOMAIN FileTexts : q \in Names /\ FileTexts[q] = Seen(q).text
  <2>1. DOMAIN disk \subseteq Names
    BY DEF IndInv, TypeOK, IsTree, Names
  <2> QED BY <1>3, <1>4, <2>1 DEF FileTexts
<1>6. \A q \in DOMAIN FileTexts : IsFile(disk, q)
  BY <1>3, <1>4
<1> QED BY <1>1, <1>2, <1>4, <1>5, <1>6

\* The same after a step.
LEMMA StoreIsNext == IndInv' => StoreInv'
  BY StoreIs, PTL

Unclobbered == IndInv /\ ~clobbered /\ IndInv' /\ ~clobbered'

\* A step that ends with nobody run into began so.
LEMMA StaysUnclobbered ==
  ASSUME Unclobbered PROVE clobbered' = clobbered
<1>1. clobbered \in BOOLEAN /\ clobbered' \in BOOLEAN
  BY DEF Unclobbered, IndInv, TypeOK
<1> QED BY <1>1 DEF Unclobbered

\* A file nobody began or ended to write is seen as before.
LEMMA SeenStays ==
  ASSUME Unclobbered, NEW q,
         \A b \in Actors : WritesAt(b, q) <=> WritesAt(b, q)',
         \A b \in Actors : WritesAt(b, q) => call'[b].held = call[b].held,
         (\A b \in Actors : ~WritesAt(b, q)) => Content(disk', q) = Content(disk, q)
  PROVE  Seen(q)' = Seen(q)
<1>1. StoreInv /\ StoreInv'
  BY StoreIs, StoreIsNext DEF Unclobbered
<1>2. CASE \E b \in Actors : WritesAt(b, q)
  <2>1. PICK b \in Actors : WritesAt(b, q)
    BY <1>2
  <2>2. Seen(q) = call[b].held
    BY <1>1, <2>1 DEF StoreInv, Unclobbered, WritesAt
  <2>3. WritesAt(b, q)'
    BY <2>1
  <2>4. Seen(q)' = call'[b].held
    BY <1>1, <2>3 DEF StoreInv, Unclobbered, WritesAt
  <2> QED BY <2>1, <2>2, <2>4
<1>3. CASE \A b \in Actors : ~WritesAt(b, q)
  <2>1. Seen(q) = Content(disk, q)
    BY <1>1, <1>3 DEF StoreInv, Unclobbered
  <2>2. Seen(q)' = Content(disk', q)
    BY <1>1, <1>3 DEF StoreInv, Unclobbered
  <2> QED BY <1>3, <2>1, <2>2
<1> QED BY <1>2, <1>3

\* Where every file is seen as before, the store is as before.
LEMMA StoreStays ==
  ASSUME Unclobbered, \A q \in Names : Seen(q)' = Seen(q)
  PROVE  FileTexts' = FileTexts
<1>1. StoreInv /\ StoreInv'
  BY StoreIs, StoreIsNext DEF Unclobbered
<1>2. DOMAIN FileTexts' = DOMAIN FileTexts
  BY <1>1 DEF StoreInv, Unclobbered
<1>3. \A q \in DOMAIN FileTexts : FileTexts'[q] = FileTexts[q]
  BY <1>1, <1>2 DEF StoreInv, Unclobbered
<1>4. FileTexts = [q \in DOMAIN FileTexts |-> FileTexts[q]]
      /\ FileTexts' = [q \in DOMAIN FileTexts' |-> FileTexts'[q]]
  BY DEF FileTexts
<1> HIDE DEF FileTexts
<1> QED BY <1>2, <1>3, <1>4

\* What one file is seen to hold, the others seen as before.
LEMMA StoreBecomes ==
  ASSUME Unclobbered, NEW paths, NEW text,
         \A q \in paths : q \in Names /\ Seen(q)'.there /\ Seen(q)'.text = text,
         \A q \in Names : q \notin paths => Seen(q)' = Seen(q)
  PROVE  /\ DOMAIN FileTexts' = DOMAIN FileTexts \cup paths
         /\ \A q \in DOMAIN FileTexts' :
              FileTexts'[q] = IF q \in paths THEN text ELSE FileTexts[q]
         /\ FileTexts' = [q \in DOMAIN FileTexts' |-> FileTexts'[q]]
<1>1. StoreInv /\ StoreInv'
  BY StoreIs, StoreIsNext DEF Unclobbered
<1>2. DOMAIN FileTexts' = DOMAIN FileTexts \cup paths
  <2>1. ASSUME NEW q \in DOMAIN FileTexts' PROVE q \in DOMAIN FileTexts \cup paths
    BY <1>1, <2>1 DEF StoreInv, Unclobbered
  <2>2. ASSUME NEW q \in DOMAIN FileTexts \cup paths PROVE q \in DOMAIN FileTexts'
    BY <1>1, <2>2 DEF StoreInv, Unclobbered
  <2> QED BY <2>1, <2>2
<1>3. \A q \in DOMAIN FileTexts' : FileTexts'[q] = IF q \in paths THEN text ELSE FileTexts[q]
  BY <1>1, <1>2 DEF StoreInv, Unclobbered
<1>4. FileTexts' = [q \in DOMAIN FileTexts' |-> FileTexts'[q]]
  BY DEF FileTexts
<1> HIDE DEF FileTexts
<1> QED BY <1>2, <1>3, <1>4

-----------------------------------------------------------------------------
(* Each step as one of AtomicFiles.                                         *)

Refined == Atomic!Next \/ UNCHANGED <<FileTexts, lost, clobbered>>

\* The abstract job is the concrete one with its paths resolved.
LEMMA CanonIs ==
  ASSUME NEW j \in AllJobs, NEW p \in Spots(j.rel)
  PROVE  /\ Canon(j, p) \in AtomicJobs
         /\ Canon(j, p).path = p /\ Canon(j, p).kind = j.kind
         /\ j.kind = "write" => Canon(j, p).text = j.text
         /\ j.kind = "edit" => Canon(j, p).edits = j.edits
         /\ j.kind = "rename" => Canon(j, p).to = Resolve(Tree, j.to)
         /\ j.kind = "phase" => Canon(j, p).number = j.number /\ Canon(j, p).done = j.done
<1>1. /\ j.kind \in {"write", "edit", "rename", "remove", "mkdir", "phase"}
      /\ j.kind = "write" => DOMAIN j = {"kind", "rel", "text"}
      /\ j.kind = "edit" => DOMAIN j = {"kind", "rel", "edits"}
      /\ j.kind = "rename" => DOMAIN j = {"kind", "rel", "to"}
      /\ j.kind \in {"remove", "mkdir"} => DOMAIN j = {"kind", "rel"}
      /\ j.kind = "phase" => DOMAIN j = {"kind", "rel", "number", "done"}
  BY JobsAssumption DEF WriteJob, EditJob, RenameJob, RemoveJob, MkdirJob, PhaseJob
<1>2. Canon(j, p) \in AtomicJobs
  BY DEF AtomicJobs
<1>3. /\ "path" \in DOMAIN Canon(j, p) /\ Canon(j, p)["path"] = p
      /\ \A f \in DOMAIN j : f \notin {"path", "to"} => Canon(j, p)[f] = j[f]
      /\ "to" \in DOMAIN j => Canon(j, p)["to"] = Resolve(Tree, j.to)
  BY DEF Canon
<1> HIDE DEF Canon
<1> QED BY <1>1, <1>2, <1>3

\* The job of an atomic step is one that may be asked.
LEMMA JobIsStep ==
  ASSUME NEW j \in AllJobs, NEW p \in Spots(j.rel), Atomic!Do(Canon(j, p)),
         UNCHANGED <<lost, clobbered>>
  PROVE  Refined
<1>1. Canon(j, p) \in AtomicJobs
  BY CanonIs
<1> HIDE DEF Canon, AtomicJobs
<1> QED BY <1>1 DEF Refined, Atomic!Next

\* A step that changes no file and neither empties nor ends the writing of one.
LEMMA RefineQuiet ==
  ASSUME Unclobbered, disk' = disk, UNCHANGED <<lost, clobbered>>,
         \A b \in Actors : /\ call[b].at = "put" <=> call'[b].at = "put"
                           /\ call[b].at = "put" => call'[b] = call[b]
  PROVE  Refined
<1>1. ASSUME NEW q \in Names PROVE Seen(q)' = Seen(q)
  <2>1. \A b \in Actors : WritesAt(b, q) <=> WritesAt(b, q)'
    BY DEF WritesAt, At, Path
  <2>2. \A b \in Actors : WritesAt(b, q) => call'[b].held = call[b].held
    BY DEF WritesAt, At, Path
  <2> QED BY <2>1, <2>2, SeenStays
<1>2. FileTexts' = FileTexts
  BY <1>1, StoreStays
<1> QED BY <1>2 DEF Refined

\* A file that is opened is seen with the text it had: a stutter.
LEMMA RefineOpen ==
  ASSUME Unclobbered, NEW a \in Actors, Open(a), CanWrite(disk, Path(a)) PROVE Refined
<1>0. PICK p : p = Landing(disk, Path(a))
  OBVIOUS
<1>1. /\ call[a].at = "open" /\ disk' = Opened(disk, Path(a))
      /\ Path(a) # <<>> /\ Path(a) # NoPath
      /\ ~InUse(a, p) /\ UNCHANGED <<lost, clobbered>>
  BY <1>0, StaysUnclobbered DEF Open, At, Clobbers, CanWrite, Unclobbered
<1>2. /\ call'[a] = [call[a] EXCEPT !.at = "put", !.path = p, !.held = Content(disk, p)]
      /\ \A b \in Actors : b # a => call'[b] = call[b]
  BY <1>0 DEF Open, IndInv, TypeOK, Unclobbered
<1>3. call'[a].at = "put" /\ call'[a].path = p /\ call'[a].held = Content(disk, p)
  <2> DEFINE held == Content(disk, p)
  <2>1. DOMAIN call[a] = {"at", "job", "path", "text", "then", "held"}
    BY DEF IndInv, TypeOK, IsCall, Unclobbered
  <2>2. call'[a] = [call[a] EXCEPT !.at = "put", !.path = p, !.held = held]
    BY <1>2
  <2> HIDE DEF held
  <2>3. call'[a].at = "put" /\ call'[a].path = p /\ call'[a].held = held
    BY <2>1, <2>2
  <2> QED BY <2>3 DEF held
<1>a. ProjectTree(disk) /\ Path(a) \in Names
  BY <1>1, IndInvGives, PathIsSpot DEF Unclobbered
<1>4. p \in Names
  <2>1. CASE IsLink(disk, Path(a))
    BY <1>0, <1>a, <2>1, LandingIs, LinkIs
  <2>2. CASE ~IsLink(disk, Path(a))
    BY <1>0, <1>a, <2>2, LandingIs
  <2> QED BY <2>1, <2>2
<1>5. \A q : q # p => Content(disk', q) = Content(disk, q)
  BY <1>0, <1>1, <1>a, OpenedContent
<1>6. \A b \in Actors : ~WritesAt(b, p)
  <2> TAKE b \in Actors
  <2> SUFFICES ASSUME At(b, "put"), Path(b) = p PROVE FALSE
    BY DEF WritesAt
  <2>1. b # a
    BY <1>1 DEF At
  <2>2. ~IsPrefix(p, Path(b))
    BY <1>1, <2>1, InUseIs DEF Busy
  <2> QED BY <1>4, <2>2, PrefixReflexive
<1>7. Seen(p)' = Seen(p)
  <2>1. StoreInv /\ StoreInv'
    BY StoreIs, StoreIsNext DEF Unclobbered
  <2>2. Seen(p) = Content(disk, p)
    BY <1>6, <2>1 DEF StoreInv, Unclobbered
  <2>3. At(a, "put")' /\ Path(a)' = p
    BY <1>3 DEF At, Path
  <2>4. Seen(Path(a))' = call'[a].held
    BY <2>1, <2>3 DEF StoreInv, Unclobbered
  <2>5. Seen(Path(a))' = Seen(p)'
    BY <2>3 DEF Seen, Writers
  <2> QED BY <1>3, <2>2, <2>4, <2>5
<1>8. ASSUME NEW q \in Names, q # p PROVE Seen(q)' = Seen(q)
  <2>1. \A b \in Actors : WritesAt(b, q) <=> WritesAt(b, q)'
    BY <1>0, <1>1, <1>2, <1>3, <1>8 DEF WritesAt, At, Path
  <2>2. \A b \in Actors : WritesAt(b, q) => call'[b].held = call[b].held
    BY <1>1, <1>2 DEF WritesAt, At
  <2> QED BY <1>5, <1>8, <2>1, <2>2, SeenStays
<1>9. FileTexts' = FileTexts
  BY <1>7, <1>8, StoreStays
<1> QED BY <1>1, <1>9 DEF Refined

\* What is seen when a file that was being written gets a text.
LEMMA SeenAtPut ==
  ASSUME Unclobbered, NEW a \in Actors, At(a, "put"),
         call'[a].at # "put", \A b \in Actors : b # a => call'[b] = call[b],
         NEW text,
         \A q : Content(disk', q) = IF q = Path(a) THEN [there |-> TRUE, text |-> text]
                                    ELSE Content(disk, q)
  PROVE  /\ Path(a) \in Names /\ Seen(Path(a)) = call[a].held
         /\ FileTexts' = Atomic!With(Path(a), text)
<1>1. StoreInv /\ StoreInv'
  BY StoreIs, StoreIsNext DEF Unclobbered
<1>2. PICK p : p = Path(a)
  OBVIOUS
<1>3. p \in Names /\ Seen(p) = call[a].held
  BY <1>1, <1>2, BusyIsName DEF Busy, Unclobbered, StoreInv
<1>4. \A b \in Actors : ~WritesAt(b, p)'
  <2>1. \A b \in Actors : b # a => ~WritesAt(b, p)
    BY <1>2 DEF Unclobbered, IndInv, TextInv, WritesAt
  <2> QED BY <2>1 DEF WritesAt, At, Path
<1>5. Seen(p)' = [there |-> TRUE, text |-> text]
  <2>1. Seen(p)' = Content(disk', p)
    BY <1>1, <1>4 DEF StoreInv, Unclobbered
  <2> QED BY <1>2, <2>1
<1>6. ASSUME NEW q \in Names, q # p PROVE Seen(q)' = Seen(q)
  <2>1. \A b \in Actors : WritesAt(b, q) <=> WritesAt(b, q)'
    BY <1>2, <1>6 DEF WritesAt, At, Path
  <2>2. \A b \in Actors : WritesAt(b, q) => call'[b].held = call[b].held
    BY <1>2, <1>6 DEF WritesAt, At
  <2>3. Content(disk', q) = Content(disk, q)
    BY <1>2, <1>6
  <2> QED BY <2>1, <2>2, <2>3, SeenStays
<1>7. FileTexts' = [q \in DOMAIN FileTexts \cup {p} |-> IF q = p THEN text ELSE FileTexts[q]]
  <2>1. \A q \in {p} : q \in Names /\ Seen(q)'.there /\ Seen(q)'.text = text
    BY <1>3, <1>5
  <2>2. \A q \in Names : q \notin {p} => Seen(q)' = Seen(q)
    BY <1>6
  <2>3. /\ DOMAIN FileTexts' = DOMAIN FileTexts \cup {p}
        /\ \A q \in DOMAIN FileTexts' :
             FileTexts'[q] = IF q \in {p} THEN text ELSE FileTexts[q]
        /\ FileTexts' = [q \in DOMAIN FileTexts' |-> FileTexts'[q]]
    BY <2>1, <2>2, StoreBecomes
  <2> QED BY <2>3
<1>8. FileTexts' = Atomic!With(p, text)
  BY <1>7 DEF Atomic!With
<1> QED BY <1>2, <1>3, <1>8

\* The log begins as a heading and a line.
LEMMA AppendPair ==
  ASSUME NEW x, NEW y PROVE Append(<<x>>, y) = <<x, y>>
<1> DEFINE S == {x, y}
           s == Append(<<x>>, y)
           t == <<x, y>>
<1>1. <<x>> \in Seq(S) /\ t \in Seq(S) /\ y \in S
  OBVIOUS
<1>2. Len(<<x>>) = 1 /\ Len(t) = 2 /\ <<x>>[1] = x /\ t[1] = x /\ t[2] = y
  OBVIOUS
<1>3. s \in Seq(S) /\ Len(s) = 2 /\ s[1] = x /\ s[2] = y
  BY <1>1, <1>2, AppendProperties
<1> HIDE DEF S, s, t
<1>4. \A i \in 1 .. Len(s) : s[i] = t[i]
  BY <1>2, <1>3
<1>5. s = t
  BY <1>1, <1>2, <1>3, <1>4, SeqEqual
<1> QED BY <1>5 DEF s, t

\* Storing its text ends what the call was to do with the file.
LEMMA RefinePut ==
  ASSUME Unclobbered, NEW a \in Actors, Put(a) PROVE Refined
<1> DEFINE c == call[a]
           held == call[a].held
           read == ParsePlan(Head2M(held.text))
<1>1. PICK p : p = Path(a)
  OBVIOUS
<1>2. /\ c.at = "put" /\ c.path = p /\ UNCHANGED <<lost, clobbered>>
      /\ call'[a].at # "put" /\ \A b \in Actors : b # a => call'[b] = call[b]
  <2>1. call'[a] = AfterPut(call[a]) /\ \A b \in Actors : b # a => call'[b] = call[b]
    BY DEF Put, Unclobbered, IndInv, TypeOK
  <2>2. call'[a].at # "put"
    BY <2>1, AfterPutIs DEF Unclobbered, IndInv, TypeOK
  <2> QED BY <1>1, <2>1, <2>2, StaysUnclobbered DEF Put, At, Path
<1>3. FileTexts' = Atomic!With(p, c.text) /\ Seen(p) = held
  <2>1. \A q : Content(disk', q) = IF q = Path(a) THEN [there |-> TRUE, text |-> call[a].text]
                                   ELSE Content(disk, q)
    BY PutIs DEF Unclobbered
  <2>2. PICK text : text = call[a].text
    OBVIOUS
  <2> QED BY <1>1, <1>2, <2>1, <2>2, SeenAtPut DEF At
<1>4. (p \in DOMAIN FileTexts <=> held.there) /\ (held.there => FileTexts[p] = held.text)
  <2>1. StoreInv
    BY StoreIs DEF Unclobbered
  <2> QED BY <1>3, <2>1 DEF StoreInv, Unclobbered
<1>5. Makes(c, held)
  BY <1>2 DEF Unclobbered, IndInv, TextInv, GoodText
<1>6. GoodCall(a, c)
  BY DEF Unclobbered, IndInv, CallInv
<1> HIDE DEF c, held
<1>7. ASSUME c.job \in AllJobs, c.job.kind = "write", p \in Spots(c.job.rel) PROVE Refined
  <2>1. c.text = c.job.text
    BY <1>5, <1>7 DEF Makes
  <2>2. Atomic!DoWrite(Canon(c.job, p))
    BY <1>3, <1>7, <2>1, CanonIs DEF Atomic!DoWrite
  <2> QED BY <1>2, <1>7, <2>2, CanonIs, JobIsStep DEF Atomic!Do
<1>8. ASSUME c.job \in AllJobs, c.job.kind = "edit", p \in Spots(c.job.rel) PROVE Refined
  <2>1. /\ held.there /\ EditText(held.text, c.job.edits).ok
        /\ c.text = EditText(held.text, c.job.edits).text
    BY <1>5, <1>8 DEF Makes
  <2>2. /\ Canon(c.job, p).path = p /\ Canon(c.job, p).edits = c.job.edits
        /\ Canon(c.job, p).kind = "edit"
    BY <1>8, CanonIs
  <2>3. Atomic!DoEdit(Canon(c.job, p))
    BY <1>3, <1>4, <2>1, <2>2, SameEdits DEF Atomic!DoEdit
  <2> QED BY <1>2, <1>8, <2>2, <2>3, JobIsStep DEF Atomic!Do
<1>9. ASSUME c.job \in AllJobs, c.job.kind = "phase", p = PlanPath PROVE Refined
  <2>1. /\ held.there /\ c.job.number \in DOMAIN read.phases
        /\ c.text = RenderPlan(Check(read, c.job.number, c.job.done))
    BY <1>2, <1>5, <1>9 DEF Makes
  <2>2. Atomic!CurrentPlan = read
    BY <1>4, <1>9, <2>1, SameParse, SameFileOperators DEF Atomic!CurrentPlan
  <2> HIDE DEF read
  <2>a. PICK r : r = Resolve(Tree, c.job.rel)
    OBVIOUS
  <2>b. r \in Spots(c.job.rel)
    BY <2>a DEF Spots
  <2>3. /\ Canon(c.job, r).number = c.job.number /\ Canon(c.job, r).done = c.job.done
        /\ Canon(c.job, r).kind = "phase"
    BY <1>9, <2>b, CanonIs
  <2>4. Atomic!RenderPlan(Atomic!Check(read, c.job.number, c.job.done)) = c.text
    BY <2>1, SameRender, SameChanges
  <2>5. Atomic!CheckOff(Canon(c.job, r))
    BY <1>3, <1>4, <1>9, <2>1, <2>2, <2>3, <2>4 DEF Atomic!CheckOff
  <2> QED BY <1>2, <1>9, <2>b, <2>3, <2>5, JobIsStep DEF Atomic!Do
<1>10. ASSUME c.job \in AllJobs, c.job.kind = "phase", p = LogPath, c.job.done PROVE Refined
  <2> DEFINE entry == LogLine(c.job.number)
  <2>1. c.text = Append(IF held.there THEN Head2M(held.text) ELSE <<Prose(<<"log">>)>>, entry)
    BY <1>2, <1>5, <1>10 DEF Makes
  <2>a. PICK r : r = Resolve(Tree, c.job.rel)
    OBVIOUS
  <2>b. r \in Spots(c.job.rel)
    BY <2>a DEF Spots
  <2>2. /\ Canon(c.job, r).number = c.job.number /\ Canon(c.job, r).done = c.job.done
        /\ Canon(c.job, r).kind = "phase" /\ Atomic!LogLine(c.job.number) = entry
    BY <1>10, <2>b, CanonIs, SameChanges
  <2> HIDE DEF entry
  <2>3. Atomic!Record(entry)
    <3>1. CASE held.there
      <4>1. p \in DOMAIN FileTexts /\ Atomic!Head2M(FileTexts[p]) = Head2M(held.text)
        BY <1>4, <3>1, SameFileOperators
      <4> QED BY <1>3, <1>10, <2>1, <3>1, <4>1 DEF Atomic!Record
    <3>2. CASE ~held.there
      <4>1. p \notin DOMAIN FileTexts /\ c.text = Append(<<Prose(<<"log">>)>>, entry)
        BY <1>4, <2>1, <3>2
      <4>2. c.text = <<Atomic!Prose(<<"log">>), entry>>
        <5>1. Atomic!Prose(<<"log">>) = Prose(<<"log">>)
          BY SameChanges
        <5> QED BY <4>1, <5>1, AppendPair
      <4> QED BY <1>3, <1>10, <4>1, <4>2 DEF Atomic!Record
    <3> QED BY <3>1, <3>2
  <2> QED BY <1>2, <1>10, <2>b, <2>2, <2>3, JobIsStep DEF Atomic!Do
<1>11. ASSUME c.job.kind = "fix", p = PlanPath PROVE Refined
  <2>1. held.there /\ c.text = RenderPlan(Unchecked(read))
    BY <1>5, <1>11 DEF Makes
  <2>2. Atomic!CurrentPlan = read
    BY <1>4, <1>11, <2>1, SameParse, SameFileOperators DEF Atomic!CurrentPlan
  <2> HIDE DEF read
  <2>3. Atomic!UncheckAll
    BY <1>3, <1>4, <1>11, <2>1, <2>2, SameRender, SameChanges DEF Atomic!UncheckAll
  <2> QED BY <1>2, <2>3 DEF Refined, Atomic!Next
<1> QED BY <1>2, <1>6, <1>7, <1>8, <1>9, <1>10, <1>11 DEF GoodCall

\* The path of a file that is written is that of a job or one of the server's own.
LEMMA PathOfJob ==
  ASSUME IndInv, NEW a \in Actors, At(a, "put")
  PROVE  Path(a) \in {j.path : j \in AtomicJobs} \cup {PlanPath, LogPath}
<1>1. GoodCall(a, call[a]) /\ call[a].at = "put"
  BY DEF IndInv, CallInv, At
<1>2. ASSUME call[a].job \in AllJobs, Path(a) \in Spots(call[a].job.rel)
      PROVE  \E j \in AtomicJobs : Path(a) = j.path
  BY <1>2, CanonIs
<1> HIDE DEF AtomicJobs
<1> QED BY <1>1, <1>2 DEF GoodCall, Path

\* A failed write loses the file it had opened.
LEMMA RefinePutFails ==
  ASSUME Unclobbered, NEW a \in Actors, PutFails(a) PROVE Refined
<1>1. PICK p : p = Path(a)
  OBVIOUS
<1>2. /\ At(a, "put") /\ disk' = disk /\ lost' = lost \cup {p} /\ UNCHANGED clobbered
      /\ call'[a] = Idle /\ \A b \in Actors : b # a => call'[b] = call[b]
  BY <1>1 DEF PutFails, AfterFailure, Unclobbered, IndInv, TypeOK
<1>3. Content(disk, p) = [there |-> TRUE, text |-> <<>>]
  BY <1>1, <1>2 DEF Unclobbered, IndInv, TextInv, GoodText, At, Path
<1>4. \A q : Content(disk', q) = IF q = Path(a) THEN [there |-> TRUE, text |-> <<>>]
                                 ELSE Content(disk, q)
  BY <1>1, <1>2, <1>3
<1>5. FileTexts' = Atomic!With(p, <<>>)
  BY <1>1, <1>2, <1>4, IdleFields, SeenAtPut
<1>6. Atomic!Lose({p, p})
  BY <1>2, <1>5 DEF Atomic!Lose, Atomic!With
<1>7. p \in {j.path : j \in AtomicJobs} \cup {PlanPath, LogPath}
  BY <1>1, <1>2, PathOfJob DEF Unclobbered
<1> HIDE DEF AtomicJobs
<1> QED BY <1>6, <1>7 DEF Refined, Atomic!Next

\* A stop loses the files that were being written.
LEMMA RefineStop ==
  ASSUME Unclobbered, Stop PROVE Refined
<1>1. PICK paths : paths = {Path(b) : b \in {d \in Actors : At(d, "put")}}
  OBVIOUS
<1>2. /\ disk' = disk /\ lost' = lost \cup paths /\ UNCHANGED clobbered
      /\ \A b \in Actors : call'[b].at # "put"
  BY <1>1, IdleFields DEF Stop
<1>3. StoreInv /\ StoreInv'
  BY StoreIs, StoreIsNext DEF Unclobbered
<1>4. \A q : Seen(q)' = Content(disk, q)
  <2>1. \A q : \A b \in Actors : ~WritesAt(b, q)'
    BY <1>2 DEF WritesAt, At
  <2> QED BY <1>2, <1>3, <2>1 DEF StoreInv, Unclobbered
<1>5. \A q \in paths : q \in Names /\ Seen(q)'.there /\ Seen(q)'.text = <<>>
  <2> SUFFICES ASSUME NEW b \in Actors, At(b, "put"), NEW q, q = Path(b)
               PROVE  q \in Names /\ Seen(q)'.there /\ Seen(q)'.text = <<>>
    BY <1>1
  <2>1. q \in Names
    BY BusyIsName DEF Busy, Unclobbered
  <2>2. Content(disk, q) = [there |-> TRUE, text |-> <<>>]
    BY DEF Unclobbered, IndInv, TextInv, GoodText, At, Path
  <2> QED BY <1>4, <2>1, <2>2
<1>6. \A q \in Names : q \notin paths => Seen(q)' = Seen(q)
  <2> TAKE q \in Names
  <2> HAVE q \notin paths
  <2>1. \A b \in Actors : ~WritesAt(b, q)
    BY <1>1 DEF WritesAt
  <2> QED BY <1>3, <1>4, <2>1 DEF StoreInv, Unclobbered
<1>7. FileTexts' = [q \in DOMAIN FileTexts \cup paths |-> IF q \in paths THEN <<>> ELSE FileTexts[q]]
  <2>1. /\ DOMAIN FileTexts' = DOMAIN FileTexts \cup paths
        /\ \A q \in DOMAIN FileTexts' :
             FileTexts'[q] = IF q \in paths THEN <<>> ELSE FileTexts[q]
        /\ FileTexts' = [q \in DOMAIN FileTexts' |-> FileTexts'[q]]
    BY <1>5, <1>6, StoreBecomes
  <2> QED BY <2>1
<1>8. Atomic!Lose(paths)
  BY <1>2, <1>7 DEF Atomic!Lose
<1>9. paths \subseteq {j.path : j \in AtomicJobs} \cup {PlanPath, LogPath}
  BY <1>1, PathOfJob DEF Unclobbered
<1>10. CASE paths = {}
  <2>1. FileTexts' = [q \in DOMAIN FileTexts |-> FileTexts[q]] /\ lost' = lost
    BY <1>2, <1>7, <1>10
  <2>2. FileTexts = [q \in DOMAIN FileTexts |-> FileTexts[q]]
    BY DEF FileTexts
  <2> HIDE DEF FileTexts
  <2> QED BY <1>2, <2>1, <2>2 DEF Refined
<1>11. CASE paths # {}
  <2>1. \E p, q \in paths : paths = {p, q}
    BY <1>1, <1>11 DEF Actors
  <2>2. PICK p, q \in {j.path : j \in AtomicJobs} \cup {PlanPath, LogPath} : paths = {p, q}
    BY <1>9, <2>1
  <2>3. Atomic!Lose({p, q})
    BY <1>8, <2>2
  <2> HIDE DEF AtomicJobs
  <2> QED BY <2>3 DEF Refined, Atomic!Next
<1> QED BY <1>10, <1>11

\* What is renamed or removed is gone from its place, with all below it; nobody is
\* writing there, nor where it goes.
LEMMA SeenAfterChange ==
  ASSUME Unclobbered, NEW a \in Actors, NEW j, ChangeTree(a, j), disk' # disk,
         NEW from, from = Resolve(Tree, j.rel),
         NEW to, to = IF j.kind = "rename" THEN Resolve(Tree, j.to) ELSE from
  PROVE  \/ \A q \in Names : Seen(q)' = Seen(q)
         \/ /\ j.kind = "rename" /\ CanRename(disk, from, to) /\ ~RenameFails(disk, from, to)
            /\ \A q \in Names : Seen(q)' =
                 IF IsPrefix(from, q) THEN Absent
                 ELSE IF IsPrefix(to, q) THEN Seen(Rebased(q, to, from))
                 ELSE Seen(q)
         \/ /\ j.kind = "remove"
            /\ \A q \in Names : Seen(q)' = IF IsPrefix(from, q) THEN Absent ELSE Seen(q)
<1>1. /\ ~InUse(a, from) /\ ~InUse(a, to)
      /\ Clean(LiveLinks(Tree), from) /\ (j.kind = "rename" => Clean(LiveLinks(Tree), to))
      /\ ChangedContent(j, from, to)
  BY ChangeTreeIs DEF Unclobbered
<1>2. /\ At(a, "rest") /\ call'[a].at \in {"rest", "load"}
      /\ \A b \in Actors : b # a => call'[b] = call[b]
  BY DEF ChangeTree, Takes, Unclobbered, IndInv, TypeOK, IsCall
<1>3. StoreInv /\ StoreInv'
  BY StoreIs, StoreIsNext DEF Unclobbered
<1>4. \A q : \A b \in Actors : /\ WritesAt(b, q) <=> WritesAt(b, q)'
                               /\ WritesAt(b, q) => call'[b] = call[b]
  BY <1>2 DEF WritesAt, At, Path
<1>5. ASSUME NEW q, IsPrefix(from, q) \/ IsPrefix(to, q), NEW b \in Actors
      PROVE  ~WritesAt(b, q)
  <2> SUFFICES ASSUME At(b, "put"), Path(b) = q PROVE FALSE
    BY DEF WritesAt
  <2>1. b # a
    BY <1>2 DEF At
  <2> QED BY <1>1, <1>5, <2>1, InUseIs DEF Busy
<1>6. ASSUME NEW q, IsPrefix(from, q) \/ IsPrefix(to, q)
      PROVE  Seen(q) = Content(disk, q) /\ Seen(q)' = Content(disk', q)
  <2>1. \A b \in Actors : ~WritesAt(b, q) /\ ~WritesAt(b, q)'
    BY <1>4, <1>5, <1>6
  <2> QED BY <1>3, <2>1 DEF StoreInv, Unclobbered
<1>7. ASSUME NEW q, Content(disk', q) = Content(disk, q) PROVE Seen(q)' = Seen(q)
  BY <1>4, <1>7, SeenStays
<1>8. CASE \A q \in Names : Content(disk', q) = Content(disk, q)
  BY <1>7, <1>8
<1>9. CASE /\ j.kind = "rename" /\ CanRename(disk, from, to) /\ ~RenameFails(disk, from, to)
           /\ \A q \in Names : Content(disk', q) =
                IF IsPrefix(from, q) THEN Absent
                ELSE IF IsPrefix(to, q) THEN Content(disk, Rebased(q, to, from))
                ELSE Content(disk, q)
  <2>1. from \in Names /\ to \in Names
    BY <1>1, <1>9 DEF Clean
  <2>2. ASSUME NEW q \in Names
        PROVE  Seen(q)' = IF IsPrefix(from, q) THEN Absent
                          ELSE IF IsPrefix(to, q) THEN Seen(Rebased(q, to, from))
                          ELSE Seen(q)
    <3>1. CASE IsPrefix(from, q)
      BY <1>6, <1>9, <3>1
    <3>2. CASE ~IsPrefix(from, q) /\ IsPrefix(to, q)
      <4>1. IsPrefix(from, Rebased(q, to, from))
        BY <2>1, <3>2, RebasedIs
      <4>2. Seen(Rebased(q, to, from)) = Content(disk, Rebased(q, to, from))
        BY <1>6, <4>1
      <4>3. Seen(q)' = Content(disk', q)
        BY <1>6, <3>2
      <4> QED BY <1>9, <3>2, <4>2, <4>3
    <3>3. CASE ~IsPrefix(from, q) /\ ~IsPrefix(to, q)
      BY <1>7, <1>9, <3>3
    <3> QED BY <3>1, <3>2, <3>3
  <2> QED BY <1>9, <2>2
<1>10. CASE /\ j.kind = "remove"
            /\ \A q \in Names : Content(disk', q) =
                 IF IsPrefix(from, q) THEN Absent ELSE Content(disk, q)
  <2>1. ASSUME NEW q \in Names
        PROVE  Seen(q)' = IF IsPrefix(from, q) THEN Absent ELSE Seen(q)
    <3>1. CASE IsPrefix(from, q)
      BY <1>6, <1>10, <3>1
    <3>2. CASE ~IsPrefix(from, q)
      BY <1>7, <1>10, <3>2
    <3> QED BY <3>1, <3>2
  <2> QED BY <1>10, <2>1
<1> QED BY <1>1, <1>8, <1>9, <1>10 DEF ChangedContent

\* A removal takes the files below its path at once.
LEMMA RefineRemove ==
  ASSUME Unclobbered, NEW j \in AllJobs, j.kind = "remove", UNCHANGED <<lost, clobbered>>,
         NEW from, from = Resolve(Tree, j.rel),
         \A q \in Names : Seen(q)' = IF IsPrefix(from, q) THEN Absent ELSE Seen(q)
  PROVE  Refined
<1>1. StoreInv /\ StoreInv'
  BY StoreIs, StoreIsNext DEF Unclobbered
<1>2. ~Absent.there
  BY DEF Absent
<1>3. DOMAIN FileTexts' = {q \in DOMAIN FileTexts : ~IsPrefix(from, q)}
  <2>1. ASSUME NEW q \in Names
        PROVE  q \in DOMAIN FileTexts' <=> q \in DOMAIN FileTexts /\ ~IsPrefix(from, q)
    BY <1>1, <1>2 DEF StoreInv, Unclobbered
  <2>2. DOMAIN FileTexts \subseteq Names /\ DOMAIN FileTexts' \subseteq Names
    BY <1>1 DEF StoreInv, Unclobbered
  <2> QED BY <2>1, <2>2
<1>4. \A q \in DOMAIN FileTexts' : FileTexts'[q] = FileTexts[q]
  BY <1>1, <1>3 DEF StoreInv, Unclobbered
<1>5. FileTexts' = [q \in DOMAIN FileTexts' |-> FileTexts'[q]]
  BY DEF FileTexts
<1>6. from \in Spots(j.rel)
  BY DEF Spots
<1>7. Canon(j, from).path = from /\ Canon(j, from).kind = "remove"
  BY <1>6, CanonIs
<1>8. Atomic!DoRemove(Canon(j, from))
  BY <1>3, <1>4, <1>5, <1>7, SameFileOperators DEF Atomic!DoRemove
<1> QED BY <1>6, <1>7, <1>8, JobIsStep DEF Atomic!Do

\* A rename moves the files below its path at once.
LEMMA RefineRename ==
  ASSUME Unclobbered, NEW j \in AllJobs, j.kind = "rename", UNCHANGED <<lost, clobbered>>,
         NEW from, from = Resolve(Tree, j.rel), Clean(LiveLinks(Tree), from),
         NEW to, to = Resolve(Tree, j.to), Clean(LiveLinks(Tree), to),
         CanRename(disk, from, to), ~RenameFails(disk, from, to),
         \A q \in Names : Seen(q)' = IF IsPrefix(from, q) THEN Absent
                                     ELSE IF IsPrefix(to, q) THEN Seen(Rebased(q, to, from))
                                     ELSE Seen(q)
  PROVE  Refined
<1> DEFINE moved == {q \in DOMAIN FileTexts : IsPrefix(from, q)}
<1>1. StoreInv /\ StoreInv' /\ ProjectTree(disk)
  BY StoreIs, StoreIsNext, IndInvGives DEF Unclobbered
<1>2. DOMAIN FileTexts \subseteq Names /\ DOMAIN FileTexts' \subseteq Names
  BY <1>1 DEF StoreInv, Unclobbered
<1>3. DOMAIN FileTexts \subseteq DOMAIN disk
  BY DEF FileTexts
<1>4. /\ from \in Names /\ to \in Names /\ from \in DOMAIN disk /\ ~IsPrefix(from, to)
      /\ ~Absent.there /\ Inside(from) /\ Inside(to) /\ ~Found(disk, to)
  BY DEF Clean, CanRename, RenameFails, Found, Exists, Absent
<1>a. from # to /\ \A q \in DOMAIN disk : q # to => ~IsPrefix(to, q)
  BY <1>1, <1>4, MovedIs
<1>5. \A q \in DOMAIN FileTexts : ~IsPrefix(to, q)
  <2>1. to \notin DOMAIN FileTexts
    BY <1>1, <1>4 DEF StoreInv, Unclobbered, Found, IsFile, IsLink
  <2> QED BY <1>3, <1>a, <2>1
<1>6. \A q \in Names : ~(IsPrefix(from, q) /\ IsPrefix(to, q))
  <2> TAKE q \in Names
  <2> SUFFICES ASSUME IsPrefix(from, q), IsPrefix(to, q) PROVE FALSE
    OBVIOUS
  <2>1. Len(from) <= Len(to) \/ Len(to) <= Len(from)
    BY <1>4 DEF Names
  <2>2. IsPrefix(from, to) \/ IsPrefix(to, from)
    BY <1>4, <2>1, PrefixesCompare
  <2> QED BY <1>4, <1>a, <2>2
<1>7. \A q \in Names : q \in DOMAIN FileTexts <=> Seen(q).there
  BY <1>1 DEF StoreInv, Unclobbered
<1>8. \A q \in Names : q \in DOMAIN FileTexts' <=> Seen(q)'.there
  BY <1>1 DEF StoreInv, Unclobbered
<1>9. \A q \in DOMAIN FileTexts : FileTexts[q] = Seen(q).text
  BY <1>1 DEF StoreInv, Unclobbered
<1>10. \A q \in DOMAIN FileTexts' : FileTexts'[q] = Seen(q)'.text
  BY <1>1 DEF StoreInv, Unclobbered
<1>11. FileTexts' = [q \in DOMAIN FileTexts' |-> FileTexts'[q]]
  BY DEF FileTexts
<1>12. FileTexts = [q \in DOMAIN FileTexts |-> FileTexts[q]]
  BY DEF FileTexts
<1> HIDE DEF FileTexts
<1>13. \A q \in Names : IsPrefix(to, q) =>
         /\ Rebased(q, to, from) \in Names /\ IsPrefix(from, Rebased(q, to, from))
         /\ q = Rebased(Rebased(q, to, from), from, to)
  BY <1>4, RebasedIs, RebasedBack
<1>14. \A q \in Names : IsPrefix(from, q) =>
         /\ Rebased(q, from, to) \in Names /\ IsPrefix(to, Rebased(q, from, to))
         /\ q = Rebased(Rebased(q, from, to), to, from)
  BY <1>4, RebasedIs, RebasedBack
<1>15. DOMAIN FileTexts' = (DOMAIN FileTexts \ moved) \cup {Rebased(q, from, to) : q \in moved}
  <2>1. ASSUME NEW q \in DOMAIN FileTexts'
        PROVE  q \in (DOMAIN FileTexts \ moved) \cup {Rebased(m, from, to) : m \in moved}
    <3>1. q \in Names /\ Seen(q)'.there /\ ~IsPrefix(from, q)
      BY <1>2, <1>4, <1>8, <2>1
    <3>2. CASE IsPrefix(to, q)
      <4>1. Rebased(q, to, from) \in moved
        BY <1>7, <1>13, <3>1, <3>2
      <4> QED BY <1>13, <3>1, <3>2, <4>1
    <3>3. CASE ~IsPrefix(to, q)
      BY <1>7, <3>1, <3>3
    <3> QED BY <3>2, <3>3
  <2>2. ASSUME NEW q \in DOMAIN FileTexts \ moved PROVE q \in DOMAIN FileTexts'
    <3>1. q \in Names /\ ~IsPrefix(from, q) /\ ~IsPrefix(to, q) /\ Seen(q).there
      BY <1>2, <1>5, <1>7, <2>2
    <3> QED BY <1>8, <3>1
  <2>3. ASSUME NEW m \in moved PROVE Rebased(m, from, to) \in DOMAIN FileTexts'
    <3> DEFINE q == Rebased(m, from, to)
    <3>1. m \in Names /\ Seen(m).there
      BY <1>2, <1>7, <2>3
    <3>2. q \in Names /\ IsPrefix(to, q) /\ m = Rebased(q, to, from)
      BY <1>14, <2>3, <3>1
    <3> HIDE DEF q
    <3>3. ~IsPrefix(from, q)
      BY <1>6, <3>2
    <3>4. q \in DOMAIN FileTexts'
      BY <1>8, <3>1, <3>2, <3>3
    <3> QED BY <3>4 DEF q
  <2> QED BY <2>1, <2>2, <2>3
<1>16. ASSUME NEW q \in DOMAIN FileTexts'
       PROVE  FileTexts'[q] = IF IsPrefix(to, q) THEN FileTexts[Rebased(q, to, from)]
                              ELSE FileTexts[q]
  <2>1. q \in Names /\ Seen(q)'.there /\ ~IsPrefix(from, q)
    BY <1>2, <1>4, <1>8, <1>16
  <2>2. CASE IsPrefix(to, q)
    <3>1. Seen(q)' = Seen(Rebased(q, to, from)) /\ Rebased(q, to, from) \in Names
      BY <1>13, <2>1, <2>2
    <3> QED BY <1>7, <1>9, <1>10, <1>16, <2>1, <2>2, <3>1
  <2>3. CASE ~IsPrefix(to, q)
    BY <1>7, <1>9, <1>10, <1>16, <2>1, <2>3
  <2> QED BY <2>2, <2>3
<1>17. CASE moved = {}
  <2>1. DOMAIN FileTexts' = DOMAIN FileTexts
    BY <1>15, <1>17
  <2>2. \A q \in DOMAIN FileTexts : FileTexts'[q] = FileTexts[q]
    BY <1>5, <1>16, <2>1
  <2> QED BY <1>11, <1>12, <2>1, <2>2 DEF Refined
<1>18. CASE moved # {}
  <2>a. from \in Spots(j.rel)
    BY DEF Spots
  <2>1. /\ Canon(j, from).path = from /\ Canon(j, from).to = to
        /\ Canon(j, from).kind = "rename"
    BY <2>a, CanonIs
  <2>2. \A q \in DOMAIN FileTexts : ~IsPrefix(to, q)
    BY <1>5
  <2>3. FileTexts' = [q \in (DOMAIN FileTexts \ moved) \cup {Rebased(m, from, to) : m \in moved} |->
                        IF IsPrefix(to, q) THEN FileTexts[Rebased(q, to, from)]
                        ELSE FileTexts[q]]
    <3> DEFINE D == (DOMAIN FileTexts \ moved) \cup {Rebased(m, from, to) : m \in moved}
    <3>1. DOMAIN FileTexts' = D
      BY <1>15
    <3> HIDE DEF D
    <3>2. FileTexts' = [q \in D |-> IF IsPrefix(to, q) THEN FileTexts[Rebased(q, to, from)]
                                    ELSE FileTexts[q]]
      BY <1>11, <1>16, <3>1
    <3> QED BY <3>2 DEF D
  <2>4. Atomic!DoRename(Canon(j, from))
    BY <1>18, <2>1, <2>2, <2>3, SameFileOperators DEF Atomic!DoRename
  <2> QED BY <2>a, <2>1, <2>4, JobIsStep DEF Atomic!Do
<1> QED BY <1>17, <1>18

\* rename(), remove() and mkdir() do their job at once, or nothing.
LEMMA RefineChangeTree ==
  ASSUME Unclobbered, NEW a \in Actors, NEW j, ChangeTree(a, j) PROVE Refined
<1>1. /\ j \in AllJobs /\ At(a, "rest") /\ call'[a].at \in {"rest", "load"}
      /\ \A b \in Actors : b # a => call'[b] = call[b]
      /\ UNCHANGED <<lost, clobbered>>
  <2>1. j \in AllJobs /\ At(a, "rest") /\ lost' = lost
    BY DEF ChangeTree, Takes, JobsOf, AllJobs
  <2>2. PICK x : x \in {"rest", "load"} /\ call' = [call EXCEPT ![a].at = x]
    BY DEF ChangeTree
  <2>3. DOMAIN call = Actors /\ DOMAIN call[a] = {"at", "job", "path", "text", "then", "held"}
    BY DEF Unclobbered, IndInv, TypeOK, IsCall
  <2>4. call'[a].at = x /\ \A b \in Actors : b # a => call'[b] = call[b]
    BY <2>2, <2>3
  <2> QED BY <2>1, <2>2, <2>4, StaysUnclobbered
<1>2. CASE disk' = disk
  <2>1. \A b \in Actors : /\ call[b].at = "put" <=> call'[b].at = "put"
                          /\ call[b].at = "put" => call'[b] = call[b]
    BY <1>1 DEF At
  <2> QED BY <1>1, <1>2, <2>1, RefineQuiet
<1>3. CASE disk' # disk
  <2>1. PICK from : from = Resolve(Tree, j.rel)
    OBVIOUS
  <2>2. PICK to : to = IF j.kind = "rename" THEN Resolve(Tree, j.to) ELSE from
    OBVIOUS
  <2>3. Clean(LiveLinks(Tree), from) /\ (j.kind = "rename" => Clean(LiveLinks(Tree), to))
    BY <1>3, <2>1, <2>2, ChangeTreeIs DEF Unclobbered
  <2>4. CASE \A q \in Names : Seen(q)' = Seen(q)
    BY <1>1, <2>4, StoreStays DEF Refined
  <2>5. CASE /\ j.kind = "rename" /\ CanRename(disk, from, to) /\ ~RenameFails(disk, from, to)
             /\ \A q \in Names : Seen(q)' =
                  IF IsPrefix(from, q) THEN Absent
                  ELSE IF IsPrefix(to, q) THEN Seen(Rebased(q, to, from))
                  ELSE Seen(q)
    BY <1>1, <2>1, <2>2, <2>3, <2>5, RefineRename
  <2>6. CASE /\ j.kind = "remove"
             /\ \A q \in Names : Seen(q)' = IF IsPrefix(from, q) THEN Absent ELSE Seen(q)
    BY <1>1, <2>1, <2>6, RefineRemove
  <2> QED BY <1>3, <2>1, <2>2, <2>4, <2>5, <2>6, SeenAfterChange
<1> QED BY <1>2, <1>3

\* Every step that runs into nobody is one of AtomicFiles.
LEMMA RefineNext ==
  ASSUME IndInv, [Next]_vars, IndInv' PROVE Refined
<1>1. CASE UNCHANGED vars
  BY <1>1 DEF vars, ghosts, Refined, FileTexts, Seen, Writers, At, Path
<1>2. CASE clobbered'
  BY <1>2 DEF Refined, Atomic!Next
<1>3. CASE Next /\ ~clobbered'
  <2>1. ~clobbered
    <3>1. clobbered' = clobbered \/ \E x : clobbered' = (clobbered \/ x)
      BY <1>3, NextFramed DEF Framed
    <3> QED BY <1>3, <3>1
  <2>2. Unclobbered
    BY <1>3, <2>1 DEF Unclobbered
  <2>3. ASSUME UNCHANGED <<disk, lost, clobbered>>, NEW a \in Actors,
               call[a].at # "put", call'[a].at # "put",
               \A b \in Actors : b # a => call'[b] = call[b]
        PROVE  Refined
    BY <2>2, <2>3, RefineQuiet
  <2>4. ASSUME NEW a \in Actors, Call(a) PROVE Refined
    <3>1. ASSUME NEW j, BeginWrite(a, j) PROVE Refined
      <4>1. UNCHANGED <<disk, lost, clobbered>> /\ At(a, "rest")
        BY <3>1 DEF BeginWrite, Takes, ghosts
      <4>2. \A b \in Actors : b # a => call'[b] = call[b]
        BY <3>1 DEF BeginWrite, IndInv, TypeOK
      <4>3. call'[a].at # "put"
        <5> DEFINE p == Resolve(disk, j.rel)
                   then == IF j.kind = "phase" /\ j.done THEN "log" ELSE AfterCall(a, p)
                   text == IF j.kind = "write" THEN j.text ELSE <<>>
        <5>1. call'[a] = [Idle EXCEPT !.job = j, !.path = p,
                            !.at = IF j.kind = "write" THEN "open" ELSE "read",
                            !.text = text, !.then = then]
          BY <3>1 DEF BeginWrite, IndInv, TypeOK
        <5> HIDE DEF p, then, text
        <5> QED BY <5>1, IdleFields
      <4> QED BY <2>3, <4>1, <4>2, <4>3 DEF At
    <3>2. CASE ReadForEdit(a) \/ ReadForPhase(a) \/ ReadForLog(a)
      <4>1. PICK ok, text : At(a, "read") /\ Proceed(a, ok, text)
        BY <3>2 DEF ReadForEdit, ReadForPhase, ReadForLog
      <4>2. UNCHANGED <<disk, lost, clobbered>>
        BY <4>1 DEF Proceed, Refuse, ghosts
      <4>3. \A b \in Actors : b # a => call'[b] = call[b]
        BY <4>1 DEF Proceed, Refuse, IndInv, TypeOK
      <4>4. call'[a].at # "put"
        BY <4>1, IdleFields DEF Proceed, Refuse, IndInv, TypeOK, IsCall
      <4> QED BY <2>3, <4>1, <4>2, <4>3, <4>4 DEF At
    <3>3. CASE Open(a)
      <4>1. CASE CanWrite(disk, Path(a))
        BY <2>2, <3>3, <4>1, RefineOpen
      <4>2. CASE ~CanWrite(disk, Path(a))
        <5>1. At(a, "open") /\ Refuse(a)
          BY <3>3, <4>2 DEF Open
        <5>2. /\ UNCHANGED <<disk, lost, clobbered>> /\ call'[a].at # "put"
              /\ \A b \in Actors : b # a => call'[b] = call[b]
          BY <5>1, IdleFields DEF Refuse, ghosts, IndInv, TypeOK
        <5> QED BY <2>3, <5>1, <5>2 DEF At
      <4> QED BY <4>1, <4>2
    <3> QED BY <2>2, <2>4, <3>1, <3>2, <3>3, RefineChangeTree, RefinePut, RefinePutFails DEF Call
  <2>5. CASE (\E planning \in BOOLEAN : BeginTurn(planning)) \/ EndTurn
    <3>1. UNCHANGED <<disk, call, lost, clobbered>>
      BY <2>5 DEF BeginTurn, EndTurn, ghosts
    <3> QED BY <2>2, <3>1, RefineQuiet
  <2>6. CASE LoadAgain
    <3>1. /\ UNCHANGED <<disk, lost, clobbered>> /\ At("agent", "load") /\ "agent" \in Actors
          /\ \A b \in Actors : b # "agent" => call'[b] = call[b]
      BY <2>6 DEF LoadAgain, IndInv, TypeOK, Actors
    <3>2. call'["agent"].at # "put"
      <4> DEFINE text == RenderPlan(Unchecked(LoadedPlan(disk)))
      <4>1. \/ call'["agent"] = Idle
            \/ call'["agent"] = [Idle EXCEPT !.at = "open", !.job = [kind |-> "fix"],
                                             !.path = PlanPath, !.text = text]
        BY <2>6, <3>1 DEF LoadAgain, IndInv, TypeOK
      <4> HIDE DEF text
      <4> QED BY <4>1, IdleFields
    <3> QED BY <2>3, <3>1, <3>2 DEF At
  <2>7. CASE Stop
    BY <2>2, <2>7, RefineStop
  <2> QED BY <1>3, <2>4, <2>5, <2>6, <2>7 DEF Next
<1> QED BY <1>1, <1>2, <1>3

\* Under its mutex and as long as no call of the agent runs into another, the
\* workspace is what its clients count on, whatever the tree, the jobs, their
\* interleaving, failures and restarts (http_server.cpp 420, 493-659).
THEOREM AtomicFilesImplemented == Spec => ImplementsAtomicFiles
<1>1. Init => Atomic!Init
  BY DEF Init, Atomic!Init
<1>2. IndInv /\ [Next]_vars /\ IndInv' => [Atomic!Next]_<<FileTexts, lost, clobbered>>
  BY RefineNext DEF Refined
<1> QED BY <1>1, <1>2, InvariantHolds, PTL DEF Spec, ImplementsAtomicFiles, Atomic!Spec

-----------------------------------------------------------------------------
(* Texts and the lines in them.                                             *)

\* A sequence is a text.
LEMMA SeqIsText ==
  ASSUME NEW S, NEW t \in Seq(S) PROVE IsText(t) /\ Range(t) \subseteq S
<1>1. Len(t) \in Nat /\ DOMAIN t = 1 .. Len(t) /\ t \in [1 .. Len(t) -> Range(t)]
  BY DEF Range
<1>2. t \in Seq(Range(t))
  BY <1>1
<1> QED BY <1>2 DEF IsText, Range

\* A sequence of sequences is as long as it says, and holds what it says.
LEMMA TextIs ==
  ASSUME NEW t, IsText(t)
  PROVE  Len(t) \in Nat /\ DOMAIN t = 1 .. Len(t) /\ \A i \in 1 .. Len(t) : t[i] \in Range(t)
  BY DEF IsText, Range

\* Two texts are over one set of lines.
LEMMA TextsTogether ==
  ASSUME NEW s, NEW t, IsText(s), IsText(t)
  PROVE  \E L : s \in Seq(L) /\ t \in Seq(L) /\ L = Range(s) \cup Range(t)
<1> DEFINE L == Range(s) \cup Range(t)
<1>1. s \in Seq(L) /\ t \in Seq(L)
  BY SeqMonotonic DEF IsText
<1> QED BY <1>1

\* The places of a line in a text are finitely many.
LEMMA CountType ==
  ASSUME NEW t, IsText(t), NEW x
  PROVE  /\ IsFiniteSet(Matches(t, x)) /\ Count(t, x) \in Nat
         /\ (Count(t, x) = 0 <=> Matches(t, x) = {})
         /\ (Matches(t, x) = {} <=> x \notin Range(t))
<1>1. IsFiniteSet(1 .. Len(t))
  BY TextIs, FS_Interval
<1>2. Matches(t, x) \subseteq 1 .. Len(t)
  BY TextIs DEF Matches
<1>3. IsFiniteSet(Matches(t, x))
  BY <1>1, <1>2, FS_Subset
<1>4. Matches(t, x) = {} <=> x \notin Range(t)
  BY DEF Matches, Range
<1> QED BY <1>3, <1>4, FS_CardinalityType, FS_EmptySet DEF Count

\* A line is in a text joined of two as often as in both.
LEMMA CountConcat ==
  ASSUME NEW s, NEW t, IsText(s), IsText(t), NEW x
  PROVE  /\ IsText(s \o t) /\ Range(s \o t) = Range(s) \cup Range(t)
         /\ Count(s \o t, x) = Count(s, x) + Count(t, x)
<1>1. PICK L : s \in Seq(L) /\ t \in Seq(L)
  BY TextsTogether
<1>2. /\ Len(s) \in Nat /\ Len(t) \in Nat /\ DOMAIN s = 1 .. Len(s) /\ DOMAIN t = 1 .. Len(t)
      /\ s \o t \in Seq(L) /\ Len(s \o t) = Len(s) + Len(t)
      /\ DOMAIN (s \o t) = 1 .. Len(s) + Len(t)
      /\ \A i \in 1 .. Len(s) + Len(t) :
            (s \o t)[i] = IF i <= Len(s) THEN s[i] ELSE t[i - Len(s)]
  BY <1>1, ConcatProperties
<1>3. IsText(s \o t)
  BY <1>2, SeqIsText
<1> DEFINE n == Len(s)
           A == Matches(s, x)
           B == Matches(t, x)
           C == {i \in n + 1 .. n + Len(t) : i - n \in B}
           f == [i \in B |-> n + i]
<1>4. A \subseteq 1 .. n /\ B \subseteq 1 .. Len(t)
  BY <1>2 DEF Matches
<1>5. Matches(s \o t, x) = A \cup C
  <2>1. ASSUME NEW i \in 1 .. n + Len(t) PROVE (s \o t)[i] = x <=> i \in A \cup C
    <3>1. CASE i <= n
      <4>1. i \in 1 .. n /\ (s \o t)[i] = s[i] /\ i \notin C
        BY <1>2, <3>1
      <4> QED BY <1>2, <4>1 DEF Matches
    <3>2. CASE ~(i <= n)
      <4>1. i - n \in 1 .. Len(t) /\ i \in n + 1 .. n + Len(t) /\ (s \o t)[i] = t[i - n] /\ i \notin A
        BY <1>2, <1>4, <3>2
      <4> QED BY <1>2, <4>1 DEF Matches
    <3> QED BY <3>1, <3>2
  <2>2. A \cup C \subseteq 1 .. n + Len(t)
    BY <1>2, <1>4
  <2> HIDE DEF A, C
  <2> QED BY <1>2, <2>1, <2>2 DEF Matches
<1>6. A \cap C = {}
  BY <1>2, <1>4
<1>7. IsFiniteSet(A) /\ IsFiniteSet(B) /\ Cardinality(A) \in Nat /\ Cardinality(B) \in Nat
  BY CountType, FS_CardinalityType
<1>8. f \in Bijection(B, C)
  <2>1. \A i \in B : i \in Int /\ n + i \in C
    BY <1>2, <1>4
  <2>2. f \in [B -> C]
    BY <2>1
  <2>3. \A i, j \in B : f[i] = f[j] => i = j
    BY <1>2, <2>1
  <2>4. \A c \in C : c - n \in B /\ f[c - n] = c
    BY <1>2
  <2> HIDE DEF f, B, C
  <2> QED BY <2>2, <2>3, <2>4 DEF Bijection, Injection, Surjection, IsInjective
<1>9. IsFiniteSet(C) /\ Cardinality(C) = Cardinality(B)
  <2> HIDE DEF f, B, C
  <2> QED BY <1>7, <1>8, FS_Bijection DEF ExistsBijection
<1>10. Cardinality(A \cup C) = Cardinality(A) + Cardinality(B)
  <2>1. Cardinality(A \cap C) = 0
    BY <1>6, FS_EmptySet
  <2>2. Cardinality(A \cup C) = Cardinality(A) + Cardinality(C) - Cardinality(A \cap C)
    <3> HIDE DEF A, C
    <3> QED BY <1>7, <1>9, FS_Union
  <2> HIDE DEF A, B, C
  <2> QED BY <1>7, <1>9, <2>1, <2>2
<1>11. Range(s \o t) = Range(s) \cup Range(t)
  <2>1. \A i \in 1 .. n : i \in 1 .. n + Len(t) /\ (s \o t)[i] = s[i]
    BY <1>2
  <2>2. \A i \in 1 .. Len(t) : n + i \in 1 .. n + Len(t) /\ (s \o t)[n + i] = t[i]
    BY <1>2
  <2>3. ASSUME NEW i \in 1 .. n + Len(t) PROVE (s \o t)[i] \in Range(s) \cup Range(t)
    <3>1. CASE i <= n
      <4>1. i \in DOMAIN s /\ (s \o t)[i] = s[i]
        BY <1>2, <3>1
      <4> QED BY <4>1 DEF Range
    <3>2. CASE ~(i <= n)
      <4>1. i - n \in DOMAIN t /\ (s \o t)[i] = t[i - n]
        BY <1>2, <3>2
      <4> QED BY <4>1 DEF Range
    <3> QED BY <3>1, <3>2
  <2>4. \A i \in 1 .. n : s[i] \in Range(s \o t)
    BY <1>2, <2>1 DEF Range
  <2>5. \A i \in 1 .. Len(t) : t[i] \in Range(s \o t)
    BY <1>2, <2>2 DEF Range
  <2>6. Range(s) \subseteq Range(s \o t) /\ Range(t) \subseteq Range(s \o t)
    BY <1>2, <2>4, <2>5 DEF Range
  <2>7. Range(s \o t) \subseteq Range(s) \cup Range(t)
    <3>1. \A y \in Range(s \o t) : \E i \in 1 .. n + Len(t) : y = (s \o t)[i]
      BY <1>2 DEF Range
    <3> QED BY <2>3, <3>1
  <2> QED BY <2>6, <2>7
<1> QED BY <1>3, <1>5, <1>10, <1>11 DEF Count

\* The text of one line.
LEMMA CountLine ==
  ASSUME NEW y, NEW x
  PROVE  IsText(<<y>>) /\ Range(<<y>>) = {y} /\ Count(<<y>>, x) = IF x = y THEN 1 ELSE 0
<1>1. <<y>> \in Seq({y})
  OBVIOUS
<1>2. Range(<<y>>) = {y}
  BY DEF Range
<1>3. Matches(<<y>>, x) = IF x = y THEN {1} ELSE {}
  BY DEF Matches
<1> QED BY <1>1, <1>2, <1>3, SeqIsText, FS_Singleton, FS_EmptySet DEF Count

\* A line more at the end.
LEMMA CountAppend ==
  ASSUME NEW t, IsText(t), NEW y, NEW x
  PROVE  /\ IsText(Append(t, y)) /\ Range(Append(t, y)) = Range(t) \cup {y}
         /\ Count(Append(t, y), x) = Count(t, x) + (IF x = y THEN 1 ELSE 0)
<1>1. Append(t, y) = t \o <<y>>
  <2>1. t \in Seq(Range(t) \cup {y})
    BY SeqMonotonic DEF IsText
  <2> QED BY <2>1, AppendIsConcat
<1> QED BY <1>1, CountLine, CountConcat

\* No text holds nothing, and what is read of a text holds no more than it.
LEMMA CountHead ==
  ASSUME NEW t, IsText(t), NEW x
  PROVE  /\ IsText(Head2M(t)) /\ Range(Head2M(t)) \subseteq Range(t)
         /\ Count(Head2M(t), x) <= Count(t, x)
<1>1. CASE Len(t) > MaxRead
  <2>1. MaxRead \in 0 .. Len(t)
    BY <1>1, TextIs, MaxReadAssumption
  <2>2. Head2M(t) = Prefix(t, MaxRead)
    BY <1>1 DEF Head2M, Prefix
  <2>3. /\ Prefix(t, MaxRead) \in Seq(Range(t)) /\ Len(Prefix(t, MaxRead)) = MaxRead
        /\ \A k \in 1 .. MaxRead : Prefix(t, MaxRead)[k] = t[k]
    BY <2>1, PrefixIs DEF IsText
  <2>4. IsText(Head2M(t)) /\ Range(Head2M(t)) \subseteq Range(t)
    BY <2>2, <2>3, SeqIsText
  <2>5. Matches(Head2M(t), x) \subseteq Matches(t, x)
    <3>1. DOMAIN Prefix(t, MaxRead) = 1 .. MaxRead
      BY <2>3
    <3>2. 1 .. MaxRead \subseteq DOMAIN t
      BY <2>1, TextIs
    <3> QED BY <2>2, <2>3, <3>1, <3>2 DEF Matches
  <2> QED BY <2>4, <2>5, CountType, FS_Subset DEF Count
<1>2. CASE ~(Len(t) > MaxRead)
  BY <1>2, CountType DEF Head2M
<1> QED BY <1>1, <1>2

\* The empty text.
LEMMA CountEmpty == IsText(<<>>) /\ \A x : Matches(<<>>, x) = {} /\ Count(<<>>, x) = 0
<1>1. <<>> \in Seq({})
  OBVIOUS
<1>2. \A x : Matches(<<>>, x) = {}
  BY DEF Matches
<1> QED BY <1>1, <1>2, SeqIsText, FS_EmptySet DEF Count

-----------------------------------------------------------------------------
(* What an edit makes of a text.                                            *)

\* A line that the edit does not bring is in the text no more often than before.
LEMMA ReplacedIs ==
  ASSUME NEW text, IsText(text), NEW edit, IsText(edit.replace),
         NEW x, x \notin Range(edit.replace)
  PROVE  /\ IsText(Replaced(text, edit))
         /\ Range(Replaced(text, edit)) \subseteq Range(text) \cup Range(edit.replace)
         /\ Count(Replaced(text, edit), x) <= Count(text, x)
<1> DEFINE n == Len(text)
           L == Range(text) \cup Range(edit.replace)
           V == Seq(L)
           piece(i) == IF text[i] = edit.find THEN edit.replace ELSE <<text[i]>>
           Walk(u) == u = [i \in 0 .. n |-> IF i = 0 THEN <<>> ELSE u[i - 1] \o piece(i)]
           g == [p \in (1 .. n) \X V |-> p[2] \o piece(p[1])]
<1>1. n \in Nat /\ DOMAIN text = 1 .. n
  BY TextIs
<1>2. <<>> \in V /\ edit.replace \in V /\ text \in V
  BY SeqMonotonic DEF IsText
<1>3. \A i \in 1 .. n : text[i] \in L /\ piece(i) \in V
  <2>1. ASSUME NEW i \in 1 .. n PROVE text[i] \in L
    BY <1>1 DEF Range
  <2> HIDE DEF L
  <2>2. \A i \in 1 .. n : <<text[i]>> \in V
    BY <2>1
  <2> HIDE DEF V
  <2> QED BY <1>2, <2>1, <2>2
<1>4. \E u : Walk(u)
  <2> HIDE DEF L, piece
  <2>1. \A v \in V, i \in 1 .. n : v \o piece(i) \in V
    BY <1>3, ConcatProperties
  <2>2. g \in Steps(n, V)
    <3> HIDE DEF V
    <3> QED BY <2>1 DEF Steps
  <2>3. PICK f : f \in [0 .. n -> V] /\ f[0] = <<>> /\ \A i \in 1 .. n : f[i] = g[<<i, f[i - 1]>>]
    <3> HIDE DEF V, g, n
    <3>1. PICK f : f \in Walks(n, V, <<>>, g)
      BY <1>1, <1>2, <2>2, RecursionExists
    <3> QED BY <3>1 DEF Walks
  <2>4. ASSUME NEW i \in 0 .. n
        PROVE  f[i] = IF i = 0 THEN <<>> ELSE f[i - 1] \o piece(i)
    <3>1. CASE i = 0
      BY <2>3, <3>1
    <3>2. CASE i # 0
      <4>1. i \in 1 .. n /\ i - 1 \in 0 .. n /\ f[i - 1] \in V
        BY <2>3, <3>2
      <4>2. g[<<i, f[i - 1]>>] = f[i - 1] \o piece(i)
        <5> HIDE DEF V
        <5> QED BY <4>1
      <4> QED BY <2>3, <3>2, <4>1, <4>2
    <3> QED BY <3>1, <3>2
  <2>5. f = [i \in 0 .. n |-> f[i]]
    BY <2>3
  <2>6. Walk(f)
    BY <2>4, <2>5
  <2> QED BY <2>6
<1> DEFINE u == CHOOSE w : Walk(w)
<1>5. Walk(u)
  BY <1>4
<1>6. Replaced(text, edit) = u[n]
  BY DEF Replaced
<1> HIDE DEF u
<1>7. \A i \in 0 .. n : u[i] = IF i = 0 THEN <<>> ELSE u[i - 1] \o piece(i)
  BY <1>5
<1> DEFINE S == {i \in 0 .. n : u[i] \in V /\ Count(u[i], x) <= Count(Prefix(text, i), x)}
<1>8. 0 \in S
  <2>0. 0 \in 0 .. n
    BY <1>1
  <2>1. u[0] = <<>>
    BY <1>7, <2>0
  <2>2. Prefix(text, 0) = <<>>
    <3>1. Len(Prefix(text, 0)) = 0 /\ Prefix(text, 0) \in Seq(Range(text))
      BY <1>1, PrefixIs DEF IsText
    <3> QED BY <3>1, EmptySeq
  <2>3. Count(<<>>, x) <= Count(<<>>, x)
    BY CountEmpty
  <2> HIDE DEF V
  <2> QED BY <1>2, <2>0, <2>1, <2>2, <2>3
<1>9. ASSUME NEW i \in 1 .. n, i - 1 \in S PROVE i \in S
  <2> DEFINE p == Prefix(text, i - 1)
  <2>1. u[i - 1] \in V /\ Count(u[i - 1], x) <= Count(p, x) /\ i \in 0 .. n /\ i # 0
    BY <1>9
  <2>2. u[i] = u[i - 1] \o piece(i)
    BY <1>7, <2>1
  <2>3. Prefix(text, i) = Append(p, text[i])
    <3>1. i - 1 \in Nat /\ i - 1 < Len(text) /\ i - 1 + 1 = i
      BY <1>1
    <3> QED BY <3>1, PrefixGrows DEF IsText
  <2>4. IsText(p)
    <3>1. i - 1 \in 0 .. Len(text)
      BY <1>1
    <3>2. p \in Seq(Range(text))
      BY <3>1, PrefixIs DEF IsText
    <3> QED BY <3>2, SeqIsText
  <2>5. IsText(u[i - 1]) /\ IsText(piece(i))
    BY <1>3, <2>1, SeqIsText
  <2>6. Count(piece(i), x) <= IF x = text[i] THEN 1 ELSE 0
    <3>1. CASE text[i] = edit.find
      BY <2>5, <3>1, CountType
    <3>2. CASE text[i] # edit.find
      BY <3>2, CountLine
    <3> QED BY <3>1, <3>2
  <2>7. /\ Count(u[i - 1], x) \in Nat /\ Count(piece(i), x) \in Nat /\ Count(p, x) \in Nat
        /\ Count(u[i], x) = Count(u[i - 1], x) + Count(piece(i), x)
        /\ Count(Prefix(text, i), x) = Count(p, x) + (IF x = text[i] THEN 1 ELSE 0)
    <3> HIDE DEF p, piece
    <3> QED BY <2>2, <2>3, <2>4, <2>5, CountType, CountConcat, CountAppend
  <2>8. u[i] \in V
    <3> HIDE DEF piece, V
    <3>1. piece(i) \in V
      BY <1>3
    <3> QED BY <2>1, <2>2, <3>1, ConcatProperties DEF V
  <2> HIDE DEF p, piece, V
  <2> QED BY <2>1, <2>6, <2>7, <2>8
<1>10. n \in S
  <2> HIDE DEF S, n
  <2>1. \A i \in 0 .. n : i \in S
    BY <1>1, <1>8, <1>9, UpTo
  <2> QED BY <1>1, <2>1
<1>11. Prefix(text, n) = text
  BY PrefixFull DEF IsText
<1>12. u[n] \in V
  BY <1>10
<1> QED BY <1>6, <1>10, <1>11, <1>12, SeqIsText

\* The same of one edit after the other.
LEMMA EditTextIs ==
  ASSUME NEW text, IsText(text), NEW edits, Len(edits) \in Nat,
         \A i \in 1 .. Len(edits) : IsText(edits[i].replace),
         NEW x, \A i \in 1 .. Len(edits) : x \notin Range(edits[i].replace)
  PROVE  /\ IsText(EditText(text, edits).text)
         /\ Range(EditText(text, edits).text)
               \subseteq Range(text) \cup UNION {Range(edits[i].replace) : i \in 1 .. Len(edits)}
         /\ Count(EditText(text, edits).text, x) <= Count(text, x)
<1> DEFINE n == Len(edits)
           L == Range(text) \cup UNION {Range(edits[i].replace) : i \in 1 .. n}
           V == [ok : BOOLEAN, text : Seq(L)]
           next(r, i) == IF r.ok /\ Applies(r.text, edits[i])
                         THEN [ok |-> TRUE, text |-> Replaced(r.text, edits[i])]
                         ELSE [ok |-> FALSE, text |-> r.text]
           base == [ok |-> TRUE, text |-> text]
           Walk(u) == u = [i \in 0 .. n |-> IF i = 0 THEN base ELSE next(u[i - 1], i)]
           g == [p \in (1 .. n) \X V |-> next(p[2], p[1])]
<1>1. base \in V
  <2>1. text \in Seq(L)
    BY SeqMonotonic DEF IsText
  <2> QED BY <2>1
<1>2. ASSUME NEW r \in V, NEW i \in 1 .. n
      PROVE  /\ next(r, i) \in V
             /\ Count(next(r, i).text, x) <= Count(r.text, x)
             /\ Count(next(r, i).text, x) \in Nat /\ Count(r.text, x) \in Nat
  <2>1. r.text \in Seq(L) /\ IsText(r.text) /\ Range(r.text) \subseteq L
    BY SeqIsText
  <2>2. IsText(Replaced(r.text, edits[i]))
        /\ Range(Replaced(r.text, edits[i])) \subseteq Range(r.text) \cup Range(edits[i].replace)
        /\ Count(Replaced(r.text, edits[i]), x) <= Count(r.text, x)
    BY <2>1, ReplacedIs
  <2>3. Range(edits[i].replace) \subseteq L
    OBVIOUS
  <2>4. Range(Replaced(r.text, edits[i])) \subseteq L
    BY <2>1, <2>2, <2>3
  <2>5. Replaced(r.text, edits[i]) \in Seq(L)
    <3> HIDE DEF L
    <3> QED BY <2>2, <2>4, SeqMonotonic DEF IsText
  <2>6. next(r, i) \in V /\ next(r, i).text \in {r.text, Replaced(r.text, edits[i])}
    <3> HIDE DEF L
    <3> QED BY <2>1, <2>5
  <2>7. IsText(next(r, i).text) /\ Count(r.text, x) \in Nat /\ Count(next(r, i).text, x) \in Nat
    <3> HIDE DEF next
    <3> QED BY <2>1, <2>2, <2>6, CountType
  <2> HIDE DEF next, V
  <2> QED BY <2>2, <2>6, <2>7
<1> HIDE DEF next, L
<1>3. \E u : Walk(u)
  <2>1. g \in Steps(n, V) /\ n \in Nat
    <3> HIDE DEF V
    <3> QED BY <1>2 DEF Steps
  <2>2. PICK f : f \in [0 .. n -> V] /\ f[0] = base /\ \A i \in 1 .. n : f[i] = g[<<i, f[i - 1]>>]
    <3> HIDE DEF V, g, base, n
    <3>1. PICK f : f \in Walks(n, V, base, g)
      BY <1>1, <2>1, RecursionExists
    <3> QED BY <3>1 DEF Walks
  <2>3. ASSUME NEW i \in 0 .. n
        PROVE  f[i] = IF i = 0 THEN base ELSE next(f[i - 1], i)
    <3>1. CASE i = 0
      BY <2>2, <3>1
    <3>2. CASE i # 0
      <4>1. i \in 1 .. n /\ i - 1 \in 0 .. n /\ f[i - 1] \in V
        BY <2>2, <3>2
      <4>2. g[<<i, f[i - 1]>>] = next(f[i - 1], i)
        <5> HIDE DEF V
        <5> QED BY <4>1
      <4> QED BY <2>2, <3>2, <4>1, <4>2
    <3> QED BY <3>1, <3>2
  <2>4. f = [i \in 0 .. n |-> f[i]]
    BY <2>2
  <2>5. Walk(f)
    BY <2>3, <2>4
  <2> QED BY <2>5
<1> DEFINE u == CHOOSE w : Walk(w)
<1>4. Walk(u)
  BY <1>3
<1>5. EditText(text, edits) = u[n]
  BY DEF EditText, next
<1> HIDE DEF u
<1>6. \A i \in 0 .. n : u[i] = IF i = 0 THEN base ELSE next(u[i - 1], i)
  BY <1>4
<1> DEFINE S == {i \in 0 .. n : u[i] \in V /\ Count(u[i].text, x) <= Count(text, x)}
<1>7. 0 \in S
  <2>1. Count(text, x) \in Nat
    BY CountType
  <2>2. 0 \in 0 .. n
    OBVIOUS
  <2>3. u[0] = base
    BY <1>6, <2>2
  <2>4. Count(base.text, x) <= Count(text, x)
    BY <2>1
  <2> HIDE DEF V, base
  <2> QED BY <1>1, <2>2, <2>3, <2>4
<1>8. ASSUME NEW i \in 1 .. n, i - 1 \in S PROVE i \in S
  <2>1. u[i - 1] \in V /\ Count(u[i - 1].text, x) <= Count(text, x) /\ i \in 0 .. n
        /\ u[i] = next(u[i - 1], i)
    BY <1>6, <1>8
  <2>2. Count(text, x) \in Nat
    BY CountType
  <2> HIDE DEF V
  <2> QED BY <1>2, <2>1, <2>2
<1>9. n \in S
  <2>1. n \in Nat
    OBVIOUS
  <2> HIDE DEF S, n
  <2>2. \A i \in 0 .. n : i \in S
    BY <1>7, <1>8, <2>1, UpTo
  <2> QED BY <2>1, <2>2
<1>10. IsText(u[n].text) /\ Range(u[n].text) \subseteq L /\ Count(u[n].text, x) <= Count(text, x)
  BY <1>9, SeqIsText
<1> QED BY <1>5, <1>10 DEF L

-----------------------------------------------------------------------------
(* What a plan is written as.                                               *)

\* The lines selected from a text are so many.
LEMMA SelectedIs ==
  ASSUME NEW t, IsText(t), NEW kept \in SUBSET DOMAIN t
  PROVE  Cardinality(kept) \in Nat /\ DOMAIN Selected(t, kept) = 1 .. Cardinality(kept)
<1>1. IsFiniteSet(1 .. Len(t)) /\ DOMAIN t = 1 .. Len(t)
  BY TextIs, FS_Interval
<1>2. IsFiniteSet(kept)
  BY <1>1, FS_Subset
<1> QED BY <1>2, FS_CardinalityType DEF Selected

\* A plan that was parsed has its phases in a sequence.
LEMMA ParsedPhases ==
  ASSUME NEW t, IsText(t)
  PROVE  \E k \in Nat : DOMAIN ParsePlan(t).phases = 1 .. k
<1> DEFINE kept == {i \in DOMAIN t : t[i].mark = "item" /\ t[i].box # "none"}
<1>1. DOMAIN Phases(t) = DOMAIN Selected(t, kept)
  BY DEF Phases
<1>2. Cardinality(kept) \in Nat /\ DOMAIN Selected(t, kept) = 1 .. Cardinality(kept)
  BY SelectedIs
<1>3. ParsePlan(t).phases = Phases(t)
  BY DEF ParsePlan
<1> QED BY <1>1, <1>2, <1>3

\* A line of the log is none of a plan.
LEMMA RenderedIs ==
  ASSUME NEW plan, NEW k \in Nat, DOMAIN plan.phases = 1 .. k
  PROVE  /\ IsText(RenderPlan(plan))
         /\ \A n : Count(RenderPlan(plan), LogLine(n)) = 0 /\ Matches(RenderPlan(plan), LogLine(n)) = {}
<1> DEFINE title == <<Line("title", "none", OrDefault(plan.title, <<"Untitled", "project">>))>>
           requested == IF plan.requested = <<>> THEN <<>>
                        ELSE <<Line("requested", "none", plan.requested)>>
           started == <<Line("started", "none", OrDefault(plan.started, <<"now">>))>>
           phases == [i \in DOMAIN plan.phases |->
                        Item(Box(plan.phases[i].done),
                             <<"Phase", Space, Numbers[i], ":", Space>> \o plan.phases[i].text)]
           Plain(t) == IsText(t) /\ \A y \in Range(t) : y.mark # "prose"
<1>1. Plain(title)
  BY CountLine DEF Line
<1>2. Plain(requested)
  <2>1. Range(<<>>) = {}
    BY DEF Range
  <2> QED BY <2>1, CountEmpty, CountLine DEF Line
<1>3. Plain(started)
  BY CountLine DEF Line
<1>4. Plain(phases)
  <2> DEFINE S == {y \in {phases[i] : i \in 1 .. k} : y.mark # "prose"}
  <2>1. \A i \in 1 .. k : phases[i].mark = "item"
    BY DEF Item, Line
  <2>2. phases \in [1 .. k -> S]
    <3> HIDE DEF phases
    <3>1. DOMAIN phases = 1 .. k /\ phases = [i \in 1 .. k |-> phases[i]]
      BY DEF phases
    <3> QED BY <2>1, <3>1
  <2>3. phases \in Seq(S)
    <3> HIDE DEF S, phases
    <3> QED BY <2>2
  <2> HIDE DEF phases
  <2> QED BY <2>3, SeqIsText
<1>5. ASSUME NEW s, NEW t, Plain(s), Plain(t) PROVE Plain(s \o t)
  BY <1>5, CountConcat
<1>6. RenderPlan(plan) = ((title \o requested) \o started) \o phases
  BY DEF RenderPlan
<1>7. Plain(RenderPlan(plan))
  <2> HIDE DEF title, requested, started, phases, Plain
  <2> QED BY <1>1, <1>2, <1>3, <1>4, <1>5, <1>6
<1>8. \A n : LogLine(n).mark = "prose"
  BY DEF LogLine, Prose, Line
<1>9. \A n : LogLine(n) \notin Range(RenderPlan(plan))
  <2> HIDE DEF title, requested, started, phases
  <2> QED BY <1>7, <1>8
<1> QED BY <1>7, <1>9, CountType

\* A set of natural numbers below a bound that is not empty has a greatest element.
LEMMA GreatestElement ==
  ASSUME NEW n \in Nat, NEW S \in SUBSET (1 .. n), S # {}
  PROVE  \E x \in S : \A y \in S : y <= x
<1> DEFINE T == {k \in Nat : n - k \in S}
<1>1. T \in SUBSET Nat /\ T # {}
  <2>1. PICK x \in S : TRUE
    OBVIOUS
  <2>2. n - x \in Nat /\ n - (n - x) = x
    BY <2>1
  <2> QED BY <2>1, <2>2
<1>2. PICK k \in T : \A m \in T : k <= m
  <2> HIDE DEF T
  <2> QED BY <1>1, LeastElement
<1>3. n - k \in S /\ \A y \in S : y \in 1 .. n /\ n - y \in T
  BY <1>2
<1>4. \A y \in S : y <= n - k
  BY <1>2, <1>3
<1> QED BY <1>3, <1>4

\* The least and the greatest of the positions of a sequence that are kept.
LEMMA MinMaxIs ==
  ASSUME NEW n \in Nat, NEW S \in SUBSET (1 .. n), S # {}
  PROVE  /\ Min(S) \in S /\ \A y \in S : Min(S) <= y
         /\ Max(S) \in S /\ \A y \in S : y <= Max(S)
<1>1. \E x \in S : \A y \in S : x <= y
  BY LeastElement
<1>2. \E x \in S : \A y \in S : y <= x
  BY GreatestElement
<1>3. Min(S) \in S /\ \A y \in S : Min(S) <= y
  BY <1>1 DEF Min
<1>4. Max(S) \in S /\ \A y \in S : y <= Max(S)
  BY <1>2 DEF Max
<1> QED BY <1>3, <1>4

-----------------------------------------------------------------------------
(* The text of a phase.                                                     *)

\* A part of a text, by its positions.
LEMMA PartIs ==
  ASSUME NEW S, NEW x \in Seq(S), NEW a \in 1 .. Len(x), NEW b \in a .. Len(x)
  PROVE  /\ SubSeq(x, a, b) \in Seq(S) /\ Len(SubSeq(x, a, b)) = b - a + 1
         /\ \A i \in 1 .. b - a + 1 : SubSeq(x, a, b)[i] = x[a + i - 1]
<1>1. Len(x) \in Nat /\ a \in Nat /\ b \in Nat /\ a <= b /\ b <= Len(x)
  OBVIOUS
<1>2. \A i \in a .. b : x[i] \in S
  BY <1>1
<1> QED BY <1>1, <1>2, SubSeqProperties

\* What the text between two words that are no spaces is trimmed to.
LEMMA TrimmedTo ==
  ASSUME NEW S, NEW x \in Seq(S), NEW a \in 1 .. Len(x), NEW b \in 1 .. Len(x),
         x[a] # Space, x[b] # Space, \A i \in 1 .. Len(x) : i < a \/ b < i => x[i] = Space
  PROVE  Trimmed(x) = SubSeq(x, a, b) /\ a <= b
<1> DEFINE kept == {i \in DOMAIN x : x[i] # Space}
<1>1. Len(x) \in Nat /\ DOMAIN x = 1 .. Len(x)
  OBVIOUS
<1>2. a \in kept /\ b \in kept /\ kept \in SUBSET (1 .. Len(x))
  BY <1>1
<1>3. \A i \in kept : a <= i /\ i <= b
  BY <1>1
<1> HIDE DEF kept
<1>4. PICK lo, hi : lo = Min(kept) /\ hi = Max(kept)
  OBVIOUS
<1>5. lo \in kept /\ lo <= a /\ hi \in kept /\ b <= hi
  BY <1>1, <1>2, <1>4, MinMaxIs
<1>6. lo \in 1 .. Len(x) /\ hi \in 1 .. Len(x) /\ a <= lo /\ hi <= b
  BY <1>2, <1>3, <1>5
<1>7. lo = a /\ hi = b
  BY <1>5, <1>6
<1>8. kept # {} /\ a <= b
  BY <1>2, <1>3
<1> QED BY <1>4, <1>7, <1>8 DEF Trimmed, kept

\* Trimming leaves no space at the ends.
LEMMA TrimmedIs ==
  ASSUME NEW x, IsText(x) PROVE IsTrimmed(Trimmed(x)) /\ Range(Trimmed(x)) \subseteq Range(x)
<1> DEFINE kept == {i \in DOMAIN x : x[i] # Space}
           S == Range(x)
<1>1. x \in Seq(S) /\ Len(x) \in Nat /\ DOMAIN x = 1 .. Len(x)
  BY TextIs DEF IsText
<1>2. CASE kept = {}
  <2>1. Trimmed(x) = <<>>
    BY <1>2 DEF Trimmed
  <2> QED BY <2>1, CountEmpty DEF IsTrimmed, Range
<1>3. CASE kept # {}
  <2>1. kept \in SUBSET (1 .. Len(x)) /\ \A i \in kept : x[i] # Space
    BY <1>1
  <2>2. \A i \in DOMAIN x : i \notin kept => x[i] = Space
    OBVIOUS
  <2> HIDE DEF kept, S
  <2>3. PICK a \in kept : \A i \in kept : a <= i
    BY <1>1, <1>3, <2>1, LeastElement
  <2>4. PICK b \in kept : \A i \in kept : i <= b
    BY <1>1, <1>3, <2>1, GreatestElement
  <2>5. /\ a \in 1 .. Len(x) /\ b \in 1 .. Len(x) /\ x[a] # Space /\ x[b] # Space
    BY <2>1
  <2>6. \A i \in 1 .. Len(x) : i < a \/ b < i => x[i] = Space
    BY <1>1, <2>1, <2>2, <2>3, <2>4, <2>5
  <2>7. Trimmed(x) = SubSeq(x, a, b) /\ a <= b
    BY <1>1, <2>5, <2>6, TrimmedTo
  <2>8. PICK t : t = Trimmed(x)
    OBVIOUS
  <2>9. b \in a .. Len(x)
    BY <1>1, <2>5, <2>7
  <2>10. t \in Seq(S) /\ Len(t) = b - a + 1 /\ \A i \in 1 .. b - a + 1 : t[i] = x[a + i - 1]
    BY <1>1, <2>5, <2>7, <2>8, <2>9, PartIs
  <2>11. /\ 1 \in 1 .. b - a + 1 /\ b - a + 1 \in 1 .. b - a + 1
         /\ a + 1 - 1 = a /\ a + (b - a + 1) - 1 = b
    BY <1>1, <2>5, <2>7
  <2>12. t[1] # Space /\ t[Len(t)] # Space
    BY <2>5, <2>10, <2>11
  <2> QED BY <2>8, <2>10, <2>12, SeqIsText DEF IsTrimmed, S
<1> QED BY <1>2, <1>3

\* A text with no space at either end is left as it is.
LEMMA TrimmedSame ==
  ASSUME NEW x, IsTrimmed(x) PROVE Trimmed(x) = x
<1>1. x \in Seq(Range(x)) /\ Len(x) \in Nat /\ DOMAIN x = 1 .. Len(x)
  BY TextIs DEF IsText, IsTrimmed
<1>2. CASE x = <<>>
  BY <1>2 DEF Trimmed
<1>3. CASE x # <<>>
  <2>1. 1 \in 1 .. Len(x) /\ Len(x) \in 1 .. Len(x) /\ x[1] # Space /\ x[Len(x)] # Space
    BY <1>1, <1>3 DEF IsTrimmed
  <2>2. Trimmed(x) = SubSeq(x, 1, Len(x))
    BY <1>1, <2>1, TrimmedTo
  <2> QED BY <1>1, <2>2, SubSeqFull
<1> QED BY <1>2, <1>3

\* What is left when the leading marks are dropped begins at the first other word.
LEMMA DropLeadingAt ==
  ASSUME NEW S, NEW x \in Seq(S), NEW marks, NEW k \in 1 .. Len(x),
         x[k] \notin marks, \A i \in 1 .. Len(x) : i < k => x[i] \in marks
  PROVE  DropLeading(x, marks) = SubSeq(x, k, Len(x))
<1> DEFINE kept == {i \in DOMAIN x : x[i] \notin marks}
<1>1. Len(x) \in Nat /\ DOMAIN x = 1 .. Len(x)
  OBVIOUS
<1>2. k \in kept /\ kept \in SUBSET (1 .. Len(x)) /\ \A i \in kept : k <= i
  BY <1>1
<1> HIDE DEF kept
<1>3. PICK lo : lo = Min(kept)
  OBVIOUS
<1>4. lo \in kept /\ lo <= k
  BY <1>1, <1>2, <1>3, MinMaxIs
<1>5. lo = k /\ kept # {}
  BY <1>2, <1>4
<1> QED BY <1>3, <1>5 DEF DropLeading, kept

\* What is left is a text of the same words.
LEMMA DropLeadingIs ==
  ASSUME NEW S, NEW x \in Seq(S), NEW marks
  PROVE  DropLeading(x, marks) \in Seq(S)
<1> DEFINE kept == {i \in DOMAIN x : x[i] \notin marks}
<1>1. Len(x) \in Nat /\ DOMAIN x = 1 .. Len(x)
  OBVIOUS
<1>2. CASE kept = {}
  BY <1>2 DEF DropLeading
<1>3. CASE kept # {}
  <2>1. kept \in SUBSET (1 .. Len(x)) /\ \A i \in kept : x[i] \notin marks
    BY <1>1
  <2>2. \A i \in DOMAIN x : i \notin kept => x[i] \in marks
    OBVIOUS
  <2> HIDE DEF kept
  <2>3. PICK k \in kept : \A i \in kept : k <= i
    BY <1>1, <1>3, <2>1, LeastElement
  <2>4. k \in 1 .. Len(x) /\ x[k] \notin marks
    BY <2>1
  <2>5. \A i \in 1 .. Len(x) : i < k => x[i] \in marks
    BY <1>1, <2>2, <2>3, <2>4
  <2>6. DropLeading(x, marks) = SubSeq(x, k, Len(x))
    BY <2>4, <2>5, DropLeadingAt
  <2>7. Len(x) \in k .. Len(x)
    BY <1>1, <2>4
  <2> QED BY <2>4, <2>6, <2>7, PartIs
<1> QED BY <1>2, <1>3

\* The number and its marks in front of a text are dropped with the word before them,
\* and nothing comes in.
LEMMA PhaseTextIs ==
  ASSUME NEW x, IsText(x) PROVE IsTrimmed(PhaseText(x))
<1> DEFINE S == Range(x)
<1>1. PICK y : y = Trimmed(x)
  OBVIOUS
<1>2. y \in Seq(S)
  BY <1>1, TrimmedIs, SeqMonotonic DEF IsTrimmed, IsText
<1> HIDE DEF S
<1>3. StripPhasePrefix(y) \in Seq(S)
  <2>1. CASE y = <<>>
    BY <2>1 DEF StripPhasePrefix
  <2>2. CASE y # <<>>
    <3>1. Tail(y) \in Seq(S)
      BY <1>2, <2>2, HeadTailProperties
    <3>2. PICK rest \in Seq(S) : rest = DropLeading(Tail(y), {Space})
      BY <3>1, DropLeadingIs
    <3>3. rest # <<>> => Tail(rest) \in Seq(S)
      BY HeadTailProperties
    <3>4. rest # <<>> => DropLeading(Tail(rest), {":", ".", Space}) \in Seq(S)
      BY <3>3, DropLeadingIs
    <3> QED BY <1>2, <3>2, <3>4 DEF StripPhasePrefix
  <2> QED BY <2>1, <2>2
<1> QED BY <1>1, <1>3, SeqIsText, TrimmedIs DEF PhaseText

\* Five words and a text behind them.
LEMMA FiveWords ==
  ASSUME NEW S, NEW a \in S, NEW b \in S, NEW c \in S, NEW d \in S, NEW e \in S, NEW x \in Seq(S),
         NEW y, y = <<a, b, c, d, e>> \o x
  PROVE  /\ y \in Seq(S) /\ Len(x) \in Nat /\ Len(y) = 5 + Len(x)
         /\ y[1] = a /\ y[2] = b /\ y[3] = c /\ y[4] = d /\ y[5] = e
         /\ \A i \in 1 .. Len(x) : y[5 + i] = x[i]
<1>1. PICK p : p = <<a, b, c, d, e>>
  OBVIOUS
<1>2. /\ p \in Seq(S) /\ Len(p) = 5 /\ p[1] = a /\ p[2] = b /\ p[3] = c /\ p[4] = d /\ p[5] = e
  BY <1>1
<1>3. /\ y \in Seq(S) /\ Len(x) \in Nat /\ Len(y) = 5 + Len(x)
      /\ \A i \in 1 .. 5 + Len(x) : y[i] = IF i <= 5 THEN p[i] ELSE x[i - 5]
  BY <1>1, <1>2, ConcatProperties
<1>4. \A i \in 1 .. 5 : y[i] = p[i]
  BY <1>3
<1>5. \A i \in 1 .. Len(x) : y[5 + i] = x[i]
  <2> SUFFICES ASSUME NEW i \in 1 .. Len(x) PROVE y[5 + i] = x[i]
    OBVIOUS
  <2>1. 5 + i \in 1 .. 5 + Len(x) /\ ~(5 + i <= 5) /\ 5 + i - 5 = i
    BY <1>3
  <2> QED BY <1>3, <2>1
<1> QED BY <1>2, <1>3, <1>4, <1>5

\* A phase of the plan is read as it is written.
LEMMA PhaseTextBack ==
  ASSUME NEW n, n \in Range(Numbers), NEW x, IsTrimmed(x), x = <<>> \/ Head(x) \notin {":", "."}
  PROVE  PhaseText(<<"Phase", Space, n, ":", Space>> \o x) = x
<1> DEFINE S == Range(x) \cup {"Phase", Space, n, ":"}
           marks == {":", ".", Space}
<1>1. PICK y : y = <<"Phase", Space, n, ":", Space>> \o x
  OBVIOUS
<1>2. x \in Seq(S) /\ Len(x) \in Nat /\ DOMAIN x = 1 .. Len(x)
  <2>1. x \in Seq(Range(x))
    BY DEF IsTrimmed, IsText
  <2>2. x \in Seq(S)
    BY <2>1, SeqMonotonic
  <2> HIDE DEF S
  <2> QED BY <2>2
<1>3. "Phase" \in S /\ Space \in S /\ n \in S /\ ":" \in S
  OBVIOUS
<1>4. n # Space /\ ":" # Space /\ "Phase" # Space
  <2>1. n \notin {":", ".", Space}
    BY NumbersAssumption
  <2>2. ":" # Space /\ "Phase" # Space
    BY DEF Space
  <2> QED BY <2>1, <2>2
<1> HIDE DEF S
<1>5. PICK l \in Nat : l = Len(x)
  BY <1>2
<1>6. /\ y \in Seq(S) /\ Len(y) = 5 + l /\ DOMAIN y = 1 .. 5 + l
      /\ y[1] = "Phase" /\ y[2] = Space /\ y[3] = n /\ y[4] = ":" /\ y[5] = Space
      /\ \A i \in 1 .. l : y[5 + i] = x[i]
  <2>1. /\ y \in Seq(S) /\ Len(y) = 5 + l
        /\ y[1] = "Phase" /\ y[2] = Space /\ y[3] = n /\ y[4] = ":" /\ y[5] = Space
        /\ \A i \in 1 .. l : y[5 + i] = x[i]
    BY <1>1, <1>2, <1>3, <1>5, FiveWords
  <2> QED BY <2>1
<1>7. l # 0 => x # <<>> /\ x[1] \notin marks /\ x[l] # Space
  <2> SUFFICES ASSUME l # 0 PROVE x # <<>> /\ x[1] \notin marks /\ x[l] # Space
    OBVIOUS
  <2>1. x # <<>>
    BY <1>5
  <2>2. Head(x) = x[1]
    BY <1>2, <2>1
  <2> QED BY <1>5, <2>1, <2>2 DEF IsTrimmed
<1> DEFINE m == IF l = 0 THEN 4 ELSE 5 + l
<1>8. m \in 1 .. 5 + l /\ y[m] # Space /\ \A i \in 1 .. 5 + l : m < i => y[i] = Space
  <2>1. CASE l = 0
    BY <1>4, <1>6, <2>1
  <2>2. CASE l # 0
    <3>1. l \in 1 .. l /\ y[5 + l] = x[l]
      BY <1>6, <2>2
    <3> QED BY <1>7, <2>2, <3>1
  <2> QED BY <2>1, <2>2
<1>9. /\ m \in Nat /\ 4 <= m /\ (l = 0 => m = 4) /\ (l # 0 => m = 5 + l)
  OBVIOUS
<1> HIDE DEF m
<1>10. PICK t : t = Trimmed(y)
  OBVIOUS
<1>11. t \in Seq(S) /\ Len(t) = m /\ \A i \in 1 .. m : t[i] = y[i]
  <2>1. 1 \in 1 .. Len(y) /\ m \in 1 .. Len(y) /\ m \in 1 .. 5 + l
    BY <1>6, <1>8
  <2>2. y[1] # Space /\ \A i \in 1 .. Len(y) : i < 1 \/ m < i => y[i] = Space
    BY <1>4, <1>6, <1>8
  <2>3. t = SubSeq(y, 1, m)
    BY <1>6, <1>8, <1>10, <2>1, <2>2, TrimmedTo
  <2>4. /\ t \in Seq(S) /\ Len(t) = m - 1 + 1 /\ \A i \in 1 .. m - 1 + 1 : t[i] = y[1 + i - 1]
    BY <1>6, <2>1, <2>3, PartIs
  <2> QED BY <1>9, <2>4
<1>12. t # <<>> /\ Head(t) = "Phase"
  BY <1>6, <1>9, <1>11
<1>13. PICK u : u = Tail(t)
  OBVIOUS
<1>14. u \in Seq(S) /\ Len(u) = m - 1 /\ \A i \in 1 .. m - 1 : u[i] = y[i + 1]
  BY <1>9, <1>11, <1>12, <1>13, HeadTailProperties
<1>15. PICK rest : rest = DropLeading(u, {Space})
  OBVIOUS
<1>16. rest \in Seq(S) /\ Len(rest) = m - 2 /\ \A i \in 1 .. m - 2 : rest[i] = y[i + 2]
  <2>1. 2 \in 1 .. Len(u) /\ u[2] = n /\ u[1] = Space /\ Len(u) \in 2 .. Len(u)
    BY <1>6, <1>9, <1>14
  <2>2. \A i \in 1 .. Len(u) : i < 2 => u[i] \in {Space}
    BY <2>1, <1>9, <1>14
  <2>3. rest = SubSeq(u, 2, Len(u))
    BY <1>4, <1>14, <1>15, <2>1, <2>2, DropLeadingAt
  <2>4. rest \in Seq(S) /\ Len(rest) = Len(u) - 2 + 1 /\ \A i \in 1 .. Len(u) - 2 + 1 : rest[i] = u[2 + i - 1]
    BY <1>14, <2>1, <2>3, PartIs
  <2>5. Len(rest) = m - 2
    BY <1>9, <1>14, <2>4
  <2>6. ASSUME NEW i \in 1 .. m - 2 PROVE rest[i] = y[i + 2]
    <3>1. rest[i] = u[i + 1] /\ i + 1 \in 1 .. m - 1
      BY <1>9, <1>14, <2>4, <2>6
    <3>2. u[i + 1] = y[(i + 1) + 1]
      BY <1>14, <3>1
    <3> QED BY <1>9, <3>1, <3>2
  <2> QED BY <2>4, <2>5, <2>6
<1>17. rest # <<>> /\ Head(rest) = n
  BY <1>6, <1>9, <1>16
<1>18. PICK v : v = Tail(rest)
  OBVIOUS
<1>19. v \in Seq(S) /\ Len(v) = m - 3 /\ \A i \in 1 .. m - 3 : v[i] = y[i + 3]
  BY <1>9, <1>16, <1>17, <1>18, HeadTailProperties
<1>20. DropLeading(v, marks) = x
  <2>1. CASE l = 0
    <3>1. Len(v) = 1 /\ DOMAIN v = 1 .. 1 /\ v[1] = ":"
      <4>1. m = 4 /\ Len(v) = 1 /\ 1 \in 1 .. m - 3 /\ 1 + 3 = 4
        BY <1>9, <1>19, <2>1
      <4>2. v[1] = y[4]
        BY <1>19, <4>1
      <4>3. DOMAIN v = 1 .. 1
        BY <1>19, <4>1
      <4> QED BY <1>6, <4>1, <4>2, <4>3
    <3>2. {i \in DOMAIN v : v[i] \notin marks} = {}
      BY <3>1
    <3>3. x = <<>>
      BY <1>2, <1>5, <2>1
    <3> QED BY <3>2, <3>3 DEF DropLeading
  <2>2. CASE l # 0
    <3>1. Len(v) = 2 + l /\ v[1] = ":" /\ v[2] = Space /\ \A i \in 1 .. l : v[2 + i] = x[i]
      <4>1. m = 5 + l
        BY <1>9, <2>2
      <4>2. \A i \in 1 .. l : 2 + i \in 1 .. m - 3 /\ 2 + i + 3 = 5 + i
        BY <4>1
      <4> QED BY <1>6, <1>19, <4>1, <4>2
    <3>2. 3 \in 1 .. Len(v) /\ Len(v) \in 3 .. Len(v) /\ 1 \in 1 .. l /\ 2 + 1 = 3
      BY <2>2, <3>1
    <3>3. v[3] = x[1]
      BY <3>1, <3>2
    <3>4. v[3] \notin marks
      BY <1>7, <2>2, <3>3
    <3>5. \A i \in 1 .. Len(v) : i < 3 => v[i] \in marks
      <4>1. \A i \in 1 .. Len(v) : i < 3 => i = 1 \/ i = 2
        BY <3>1
      <4> QED BY <3>1, <4>1
    <3>6. PICK z : z = DropLeading(v, marks)
      OBVIOUS
    <3> HIDE DEF marks
    <3>7. z = SubSeq(v, 3, Len(v))
      BY <1>19, <3>2, <3>4, <3>5, <3>6, DropLeadingAt
    <3>8. z \in Seq(S) /\ Len(z) = Len(v) - 3 + 1 /\ \A i \in 1 .. Len(v) - 3 + 1 : z[i] = v[3 + i - 1]
      BY <1>19, <3>2, <3>7, PartIs
    <3>9. Len(z) = l /\ \A i \in 1 .. l : z[i] = x[i]
      <4>1. Len(v) - 3 + 1 = l /\ \A i \in 1 .. l : 3 + i - 1 = 2 + i
        BY <3>1
      <4> QED BY <3>1, <3>8, <4>1
    <3>10. z = x
      BY <1>2, <1>5, <3>8, <3>9, SeqEqual
    <3> QED BY <3>6, <3>10
  <2> QED BY <2>1, <2>2
<1>21. StripPhasePrefix(t) = x
  BY <1>12, <1>13, <1>15, <1>17, <1>18, <1>20 DEF StripPhasePrefix
<1>22. PhaseText(y) = x
  BY <1>10, <1>21, TrimmedSame DEF PhaseText
<1> QED BY <1>1, <1>22

-----------------------------------------------------------------------------
(* A plan that is written and read again.                                   *)

\* What is selected from where to where.
LEMMA SelectedRun ==
  ASSUME NEW t, NEW h \in Nat, NEW n \in Nat, NEW kept, kept = (h + 1) .. (h + n)
  PROVE  /\ DOMAIN Selected(t, kept) = 1 .. n
         /\ \A k \in 1 .. n : Selected(t, kept)[k] = t[h + k]
<1>1. Cardinality(kept) = n
  <2>1. \A a, b \in Int : Cardinality(a .. b) = IF a > b THEN 0 ELSE b - a + 1
    BY FS_Interval
  <2> QED BY <2>1
<1>2. ASSUME NEW i \in kept PROVE Cardinality({j \in kept : j <= i}) = i - h
  <2>1. {j \in kept : j <= i} = (h + 1) .. i
    BY <1>2
  <2>2. Cardinality((h + 1) .. i) = IF h + 1 > i THEN 0 ELSE i - (h + 1) + 1
    BY <1>2, FS_Interval
  <2>3. i \in Int /\ ~(h + 1 > i) /\ i - (h + 1) + 1 = i - h
    BY <1>2
  <2> QED BY <2>1, <2>2, <2>3
<1>3. ASSUME NEW k \in 1 .. n
      PROVE  (CHOOSE i \in kept : Cardinality({j \in kept : j <= i}) = k) = h + k
  <2>1. h + k \in kept /\ (h + k) - h = k
    BY <1>3
  <2>2. Cardinality({j \in kept : j <= h + k}) = k
    BY <1>2, <2>1
  <2>3. \A i \in kept : i - h = k => i = h + k
    BY <1>3
  <2> QED BY <1>2, <2>1, <2>2, <2>3
<1> DEFINE at(k) == CHOOSE i \in kept : Cardinality({j \in kept : j <= i}) = k
<1>4. Selected(t, kept) = [k \in 1 .. n |-> t[at(k)]]
  BY <1>1 DEF Selected
<1>5. \A k \in 1 .. n : at(k) = h + k
  BY <1>3
<1> HIDE DEF at
<1> QED BY <1>4, <1>5

\* The lines of one text after those of another.
Joins(x, s, t) ==
    /\ IsText(x) /\ Len(s) \in Nat /\ Len(t) \in Nat /\ Len(x) = Len(s) + Len(t)
    /\ \A i \in 1 .. Len(s) : x[i] = s[i]
    /\ \A i \in 1 .. Len(t) : x[Len(s) + i] = t[i]

\* The lines of two texts in one.
LEMMA ConcatAt ==
  ASSUME NEW s, NEW t, IsText(s), IsText(t), NEW x, x = s \o t
  PROVE  Joins(x, s, t)
<1>1. PICK L : s \in Seq(L) /\ t \in Seq(L)
  BY TextsTogether
<1>2. IsText(x)
  BY CountConcat
<1>4. /\ Len(s) \in Nat /\ Len(t) \in Nat /\ Len(x) = Len(s) + Len(t)
      /\ \A i \in 1 .. Len(s) + Len(t) : x[i] = IF i <= Len(s) THEN s[i] ELSE t[i - Len(s)]
  BY <1>1, ConcatProperties
<1>5. \A i \in 1 .. Len(s) : x[i] = s[i]
  BY <1>4
<1>6. \A i \in 1 .. Len(t) : x[Len(s) + i] = t[i]
  <2> SUFFICES ASSUME NEW i \in 1 .. Len(t) PROVE x[Len(s) + i] = t[i]
    OBVIOUS
  <2>1. Len(s) + i \in 1 .. Len(s) + Len(t) /\ ~(Len(s) + i <= Len(s)) /\ Len(s) + i - Len(s) = i
    BY <1>4
  <2> QED BY <1>4, <2>1
<1> QED BY <1>2, <1>4, <1>5, <1>6 DEF Joins

TitleLine(plan) == Line("title", "none", OrDefault(plan.title, <<"Untitled", "project">>))
StartedLine(plan) == Line("started", "none", OrDefault(plan.started, <<"now">>))
PhaseLine(plan, i) ==
    Item(Box(plan.phases[i].done),
         <<"Phase", Space, Numbers[i], ":", Space>> \o plan.phases[i].text)

\* How many lines a plan has before its phases.
HeadOf(plan) == IF plan.requested = <<>> THEN 2 ELSE 3

\* The lines a plan with k phases is rendered to, h of them before the phases.
Rendered(lines, plan, h, k) ==
    /\ h \in {2, 3} /\ IsText(lines) /\ Len(lines) = h + k /\ DOMAIN lines = 1 .. h + k
    /\ lines[1] = TitleLine(plan) /\ lines[h] = StartedLine(plan)
    /\ h = 3 => lines[2] = Line("requested", "none", plan.requested)
    /\ \A i \in 1 .. k : lines[h + i] = PhaseLine(plan, i)

\* The lines of a plan that is written.
LEMMA RenderedLines ==
  ASSUME NEW plan, NEW k \in Nat, DOMAIN plan.phases = 1 .. k,
         NEW h, h = HeadOf(plan), NEW lines, lines = RenderPlan(plan)
  PROVE  Rendered(lines, plan, h, k)
<1> DEFINE title == <<TitleLine(plan)>>
           requested == IF plan.requested = <<>> THEN <<>>
                        ELSE <<Line("requested", "none", plan.requested)>>
           started == <<StartedLine(plan)>>
           phases == [i \in 1 .. k |-> PhaseLine(plan, i)]
           two == title \o requested
           three == two \o started
<1>1. lines = three \o phases
  BY DEF RenderPlan, TitleLine, StartedLine, PhaseLine
<1>2. /\ IsText(title) /\ Len(title) = 1 /\ title[1] = TitleLine(plan)
      /\ IsText(started) /\ Len(started) = 1 /\ started[1] = StartedLine(plan)
  <2>1. ASSUME NEW y PROVE IsText(<<y>>) /\ Len(<<y>>) = 1 /\ <<y>>[1] = y
    BY CountLine
  <2> QED BY <2>1
<1>3. /\ IsText(requested) /\ Len(requested) = h - 2 /\ h \in {2, 3}
      /\ h = 3 => requested[1] = Line("requested", "none", plan.requested)
  <2>1. CASE plan.requested = <<>>
    BY <2>1, CountEmpty DEF HeadOf
  <2>2. CASE plan.requested # <<>>
    <3>1. ASSUME NEW y PROVE IsText(<<y>>) /\ Len(<<y>>) = 1 /\ <<y>>[1] = y
      BY CountLine
    <3> QED BY <2>2, <3>1 DEF HeadOf
  <2> QED BY <2>1, <2>2
<1>4. IsText(phases) /\ Len(phases) = k /\ \A i \in 1 .. k : phases[i] = PhaseLine(plan, i)
  <2> DEFINE S == {PhaseLine(plan, i) : i \in 1 .. k}
  <2>1. phases \in [1 .. k -> S]
    OBVIOUS
  <2>2. phases \in Seq(S) /\ Len(phases) = k
    <3> HIDE DEF phases, S
    <3> QED BY <2>1
  <2>3. \A i \in 1 .. k : phases[i] = PhaseLine(plan, i)
    OBVIOUS
  <2> HIDE DEF phases, S
  <2> QED BY <2>2, <2>3, SeqIsText
<1> HIDE DEF title, requested, started, phases
<1>5. /\ IsText(two) /\ Len(two) = h - 1 /\ two[1] = TitleLine(plan)
      /\ h = 3 => two[2] = Line("requested", "none", plan.requested)
  <2>1. /\ IsText(two) /\ Len(two) = 1 + (h - 2)
        /\ \A i \in 1 .. 1 : two[i] = title[i]
        /\ \A i \in 1 .. h - 2 : two[1 + i] = requested[i]
    <3>0. two = title \o requested
      OBVIOUS
    <3>00. IsText(title) /\ IsText(requested)
      BY <1>2, <1>3
    <3> HIDE DEF two
    <3>1. Joins(two, title, requested)
      BY <3>0, <3>00, ConcatAt
    <3> QED BY <1>2, <1>3, <3>1 DEF Joins
  <2> QED BY <1>2, <1>3, <2>1
<1> HIDE DEF two
<1>6. /\ IsText(three) /\ Len(three) = h /\ three[1] = TitleLine(plan) /\ three[h] = StartedLine(plan)
      /\ h = 3 => three[2] = Line("requested", "none", plan.requested)
  <2>1. /\ IsText(three) /\ Len(three) = (h - 1) + 1
        /\ \A i \in 1 .. h - 1 : three[i] = two[i]
        /\ \A i \in 1 .. 1 : three[(h - 1) + i] = started[i]
    <3>0. three = two \o started
      OBVIOUS
    <3>00. IsText(two) /\ IsText(started)
      BY <1>2, <1>5
    <3> HIDE DEF three
    <3>1. Joins(three, two, started)
      BY <3>0, <3>00, ConcatAt
    <3> QED BY <1>2, <1>5, <3>1 DEF Joins
  <2>2. CASE h = 2
    BY <1>2, <1>5, <2>1, <2>2
  <2>3. CASE h = 3
    BY <1>2, <1>5, <2>1, <2>3
  <2> QED BY <1>3, <2>2, <2>3
<1> HIDE DEF three
<1>7. /\ IsText(lines) /\ Len(lines) = h + k
      /\ \A i \in 1 .. h : lines[i] = three[i]
      /\ \A i \in 1 .. k : lines[h + i] = phases[i]
  <2>0. IsText(three) /\ IsText(phases)
    BY <1>4, <1>6
  <2>1. Joins(lines, three, phases)
    BY <1>1, <2>0, ConcatAt
  <2> QED BY <1>4, <1>6, <2>1 DEF Joins
<1>8. DOMAIN lines = 1 .. h + k
  BY <1>7, TextIs
<1>9. 1 \in 1 .. h /\ h \in 1 .. h /\ 2 \in 1 .. h
  BY <1>3
<1> QED BY <1>3, <1>4, <1>6, <1>7, <1>8, <1>9 DEF Rendered

\* The phases of a plan, as they are parsed.
PhasesAre(phases, k) ==
    /\ DOMAIN phases = 1 .. k
    /\ \A i \in 1 .. k : phases[i].done \in BOOLEAN /\ IsTrimmed(phases[i].text)

\* The phases of a plan that reads back are those that were written.
LEMMA PhasesBack ==
  ASSUME NEW plan, NEW k \in Nat, PhasesAre(plan.phases, k), ReadsBack(plan)
  PROVE  ParsePlan(RenderPlan(plan)).phases
            = [i \in 1 .. k |-> [done |-> plan.phases[i].done, text |-> plan.phases[i].text,
                                 todos |-> <<>>]]
<1>1. PICK lines : lines = RenderPlan(plan)
  OBVIOUS
<1>2. PICK h : h = HeadOf(plan)
  OBVIOUS
<1>3. DOMAIN plan.phases = 1 .. k
  BY DEF PhasesAre
<1>4. /\ h \in {2, 3} /\ DOMAIN lines = 1 .. h + k
      /\ lines[1] = TitleLine(plan) /\ lines[h] = StartedLine(plan)
      /\ h = 3 => lines[2] = Line("requested", "none", plan.requested)
      /\ \A i \in 1 .. k : lines[h + i] = PhaseLine(plan, i)
  <2>1. Rendered(lines, plan, h, k)
    BY <1>1, <1>2, <1>3, RenderedLines
  <2> QED BY <2>1 DEF Rendered
<1> DEFINE kept == {i \in DOMAIN lines : lines[i].mark = "item" /\ lines[i].box # "none"}
<1>5. \A i \in 1 .. k : /\ PhaseLine(plan, i).mark = "item" /\ PhaseLine(plan, i).box # "none"
                        /\ (PhaseLine(plan, i).box \in {"x", "X"} <=> plan.phases[i].done)
  <2>1. \A done \in BOOLEAN : Box(done) # "none" /\ (Box(done) \in {"x", "X"} <=> done)
    BY Zenon DEF Box, Space
  <2>2. \A i \in 1 .. k : plan.phases[i].done \in BOOLEAN
    BY DEF PhasesAre
  <2>3. \A i \in 1 .. k : PhaseLine(plan, i).mark = "item"
                          /\ PhaseLine(plan, i).box = Box(plan.phases[i].done)
    BY DEF PhaseLine, Item, Line
  <2> QED BY <2>1, <2>2, <2>3
<1>6. \A i \in 1 .. h : lines[i].mark # "item"
  <2>1. lines[1].mark # "item" /\ lines[h].mark # "item" /\ (h = 3 => lines[2].mark # "item")
    BY <1>4 DEF TitleLine, StartedLine, Line
  <2>2. \A i \in 1 .. h : i = 1 \/ i = h \/ (h = 3 /\ i = 2)
    BY <1>4
  <2> QED BY <2>1, <2>2
<1>7. kept = (h + 1) .. (h + k)
  <2>1. \A i \in (h + 1) .. (h + k) : i \in kept
    <3> SUFFICES ASSUME NEW i \in (h + 1) .. (h + k) PROVE i \in kept
      OBVIOUS
    <3>1. i - h \in 1 .. k /\ h + (i - h) = i /\ i \in 1 .. h + k
      BY <1>4
    <3>2. lines[i] = PhaseLine(plan, i - h)
      BY <1>4, <3>1
    <3> QED BY <1>4, <1>5, <3>1, <3>2
  <2>2. \A i \in kept : i \in (h + 1) .. (h + k)
    BY <1>4, <1>6
  <2> QED BY <2>1, <2>2
<1> DEFINE items == Selected(lines, kept)
<1>8. DOMAIN items = 1 .. k /\ \A i \in 1 .. k : items[i] = PhaseLine(plan, i)
  <2>1. h \in Nat
    BY <1>4
  <2> HIDE DEF kept
  <2>2. DOMAIN items = 1 .. k /\ \A i \in 1 .. k : items[i] = lines[h + i]
    BY <1>7, <2>1, SelectedRun
  <2> HIDE DEF items
  <2> QED BY <1>4, <2>2
<1>9. ASSUME NEW i \in 1 .. k PROVE PhaseText(PhaseLine(plan, i).text) = plan.phases[i].text
  <2>1. PhaseLine(plan, i).text = <<"Phase", Space, Numbers[i], ":", Space>> \o plan.phases[i].text
    BY DEF PhaseLine, Item, Line
  <2>2. i \in DOMAIN Numbers /\ (plan.phases[i].text = <<>> \/ Head(plan.phases[i].text) \notin {":", "."})
    BY <1>3, <1>9 DEF ReadsBack
  <2>3. Numbers[i] \in Range(Numbers)
    BY <2>2 DEF Range
  <2>4. IsTrimmed(plan.phases[i].text)
    BY <1>9 DEF PhasesAre
  <2> QED BY <2>1, <2>2, <2>3, <2>4, PhaseTextBack
<1>10. ParsePlan(lines).phases = [i \in DOMAIN items |-> [done  |-> items[i].box \in {"x", "X"},
                                                         text  |-> PhaseText(items[i].text),
                                                         todos |-> <<>>]]
  BY DEF ParsePlan, Phases
<1> HIDE DEF items, kept
<1>11. /\ DOMAIN items = 1 .. k
       /\ \A i \in 1 .. k : /\ (items[i].box \in {"x", "X"}) = plan.phases[i].done
                            /\ PhaseText(items[i].text) = plan.phases[i].text
  <2>1. \A i \in 1 .. k : plan.phases[i].done \in BOOLEAN
    BY DEF PhasesAre
  <2> QED BY <1>5, <1>8, <1>9, <2>1
<1> QED BY <1>1, <1>10, <1>11

\* Among the positions kept there is one with so many of them up to it.
LEMMA KeptAt ==
  ASSUME NEW n \in Nat, NEW kept \in SUBSET (1 .. n), NEW k \in 1 .. Cardinality(kept)
  PROVE  \E i \in kept : Cardinality({j \in kept : j <= i}) = k
<1> DEFINE upto(m) == {j \in kept : j <= m}
           Enough == {m \in Nat : m <= n /\ k <= Cardinality(upto(m))}
<1>0. \A j \in kept : j \in Int /\ 1 <= j /\ j <= n
  OBVIOUS
<1>1. IsFiniteSet(kept) /\ Cardinality(kept) \in Nat
  <2>1. IsFiniteSet(1 .. n)
    BY FS_Interval
  <2> QED BY <2>1, FS_Subset, FS_CardinalityType
<1>2. \A m : IsFiniteSet(upto(m)) /\ Cardinality(upto(m)) \in Nat
  <2>1. \A m : upto(m) \subseteq kept
    OBVIOUS
  <2> HIDE DEF upto
  <2> QED BY <1>1, <2>1, FS_Subset, FS_CardinalityType
<1>3. n \in Enough
  <2>1. upto(n) = kept
    BY <1>0
  <2> HIDE DEF upto
  <2> QED BY <1>1, <2>1
<1>4. PICK m \in Enough : \A i \in Enough : m <= i
  <2>1. Enough \in SUBSET Nat /\ Enough # {}
    BY <1>3
  <2> HIDE DEF Enough
  <2> QED BY <2>1, LeastElement
<1>5. m \in Nat /\ m <= n /\ k \in Nat /\ 1 <= k /\ k <= Cardinality(upto(m))
  <2> HIDE DEF upto
  <2> QED BY <1>1, <1>4
<1>6. m # 0
  <2>1. upto(0) = {}
    <3> SUFFICES ASSUME NEW j \in kept, j <= 0 PROVE FALSE
      OBVIOUS
    <3>1. j \in Int /\ 1 <= j
      BY <1>0
    <3> QED BY <3>1
  <2> HIDE DEF upto
  <2> QED BY <1>5, <2>1, FS_EmptySet
<1>7. m - 1 \in Nat /\ ~(k <= Cardinality(upto(m - 1)))
  <2>1. m - 1 \in Nat /\ m - 1 <= n /\ m - 1 \notin Enough
    <3> HIDE DEF Enough
    <3> QED BY <1>4, <1>5, <1>6
  <2> HIDE DEF upto
  <2> QED BY <2>1
<1>8. m \in kept
  <2> SUFFICES ASSUME m \notin kept PROVE FALSE
    OBVIOUS
  <2>1. upto(m) = upto(m - 1)
    <3>1. \A j \in kept : j <= m <=> j <= m - 1
      BY <1>0, <1>5
    <3> QED BY <3>1
  <2> HIDE DEF upto
  <2> QED BY <1>5, <1>7, <2>1
<1>9. Cardinality(upto(m)) = Cardinality(upto(m - 1)) + 1
  <2>1. upto(m) = upto(m - 1) \cup {m} /\ m \notin upto(m - 1)
    <3>1. \A j \in kept : (j <= m <=> j <= m - 1 \/ j = m)
      BY <1>0, <1>5
    <3>2. ~(m <= m - 1) /\ m <= m
      BY <1>5
    <3> QED BY <1>8, <3>1, <3>2
  <2> HIDE DEF upto
  <2>2. IsFiniteSet(upto(m - 1))
    BY <1>2
  <2> QED BY <2>1, <2>2, FS_AddElement
<1>10. Cardinality(upto(m)) = k
  <2> HIDE DEF upto
  <2>1. Cardinality(upto(m - 1)) \in Nat
    BY <1>2
  <2> QED BY <1>5, <1>7, <1>9, <2>1
<1> QED BY <1>8, <1>10

\* What is selected from a text are lines of it.
LEMMA SelectedFrom ==
  ASSUME NEW t, IsText(t), NEW kept \in SUBSET DOMAIN t
  PROVE  Selected(t, kept) \in Seq(Range(t))
<1> DEFINE at(k) == CHOOSE i \in kept : Cardinality({j \in kept : j <= i}) = k
           c == Cardinality(kept)
<1>1. c \in Nat
  BY SelectedIs
<1>2. Len(t) \in Nat /\ kept \in SUBSET (1 .. Len(t))
  BY TextIs
<1>3. ASSUME NEW k \in 1 .. c PROVE at(k) \in kept
  <2>1. \E i \in kept : Cardinality({j \in kept : j <= i}) = k
    BY <1>2, <1>3, KeptAt
  <2> QED BY <2>1
<1>4. Selected(t, kept) = [k \in 1 .. c |-> t[at(k)]]
  BY DEF Selected
<1> HIDE DEF at, c
<1>5. \A k \in 1 .. c : t[at(k)] \in Range(t)
  BY <1>3 DEF Range
<1> QED BY <1>1, <1>4, <1>5

\* The text of the first and of the last of some lines has no space at its ends.
LEMMA FirstLastIs ==
  ASSUME NEW L, NEW s \in Seq(L), \A y \in L : IsText(y.text)
  PROVE  IsTrimmed(FirstText(s)) /\ IsTrimmed(LastText(s))
<1>1. CASE s = <<>>
  <2>1. IsTrimmed(<<>>)
    BY CountEmpty DEF IsTrimmed
  <2> QED BY <1>1, <2>1 DEF FirstText, LastText
<1>2. CASE s # <<>>
  <2>1. Len(s) \in Nat /\ 1 \in 1 .. Len(s) /\ Len(s) \in 1 .. Len(s) /\ Head(s) = s[1]
    BY <1>2
  <2>2. Head(s) \in L /\ Last(s) \in L
    BY <2>1 DEF Last
  <2>3. IsTrimmed(Trimmed(Head(s).text)) /\ IsTrimmed(Trimmed(Last(s).text))
    BY <2>2, TrimmedIs
  <2> QED BY <1>2, <2>3 DEF FirstText, LastText
<1> QED BY <1>1, <1>2

\* What a plan is made of that was parsed.
IsParsed(plan) ==
    /\ IsTrimmed(plan.title) /\ IsTrimmed(plan.requested) /\ IsTrimmed(plan.started)
    /\ \E k \in Nat : /\ PhasesAre(plan.phases, k)
                      /\ plan.phases = [i \in 1 .. k |-> [done |-> plan.phases[i].done,
                                                          text |-> plan.phases[i].text,
                                                          todos |-> <<>>]]

\* What a plan is parsed to.
LEMMA ParsedIs ==
  ASSUME NEW t, IsLines(t), NEW plan, plan = ParsePlan(t)
  PROVE  IsParsed(plan)
<1> DEFINE L == Range(t)
<1>1. IsText(t) /\ \A y \in L : IsText(y.text)
  BY DEF IsLines
<1>2. Titles(t) \in Seq(L)
  <2> DEFINE kept == {i \in DOMAIN t : t[i].mark = "title" /\ Trimmed(t[i].text) # <<>>}
  <2>1. kept \in SUBSET DOMAIN t /\ Titles(t) = Selected(t, kept)
    BY DEF Titles
  <2> HIDE DEF kept
  <2> QED BY <1>1, <2>1, SelectedFrom
<1>3. ASSUME NEW mark PROVE Marked(t, mark) \in Seq(L)
  <2> DEFINE kept == {i \in DOMAIN t : t[i].mark = mark}
  <2>1. kept \in SUBSET DOMAIN t /\ Marked(t, mark) = Selected(t, kept)
    BY DEF Marked
  <2> HIDE DEF kept
  <2> QED BY <1>1, <2>1, SelectedFrom
<1>4. IsTrimmed(plan.title) /\ IsTrimmed(plan.requested) /\ IsTrimmed(plan.started)
  <2>1. /\ plan.title = FirstText(Titles(t)) /\ plan.requested = LastText(Marked(t, "requested"))
        /\ plan.started = LastText(Marked(t, "started"))
    BY DEF ParsePlan
  <2> HIDE DEF L
  <2> QED BY <1>1, <1>2, <1>3, <2>1, FirstLastIs
<1> DEFINE kept == {i \in DOMAIN t : t[i].mark = "item" /\ t[i].box # "none"}
           items == Selected(t, kept)
<1>5. items \in Seq(L)
  <2>1. kept \in SUBSET DOMAIN t
    OBVIOUS
  <2> HIDE DEF kept
  <2> QED BY <1>1, <2>1, SelectedFrom
<1>6. plan.phases = [i \in DOMAIN items |-> [done  |-> items[i].box \in {"x", "X"},
                                             text  |-> PhaseText(items[i].text),
                                             todos |-> <<>>]]
  BY DEF ParsePlan, Phases
<1> HIDE DEF items, L
<1>7. PICK k \in Nat : DOMAIN items = 1 .. k /\ \A i \in 1 .. k : items[i] \in L
  BY <1>5
<1>8. \A i \in 1 .. k : IsTrimmed(PhaseText(items[i].text))
  BY <1>1, <1>7, PhaseTextIs
<1>9. PhasesAre(plan.phases, k)
  <2>1. \A i \in 1 .. k : /\ plan.phases[i].done = (items[i].box \in {"x", "X"})
                          /\ plan.phases[i].text = PhaseText(items[i].text)
    BY <1>6, <1>7
  <2>0. \A b : (b \in {"x", "X"}) \in BOOLEAN
    OBVIOUS
  <2>2. \A i \in 1 .. k : plan.phases[i].done \in BOOLEAN
    BY <2>0, <2>1, Zenon
  <2> QED BY <1>6, <1>7, <1>8, <2>1, <2>2 DEF PhasesAre
<1>10. plan.phases = [i \in 1 .. k |-> [done |-> plan.phases[i].done, text |-> plan.phases[i].text,
                                        todos |-> <<>>]]
  BY <1>6, <1>7
<1> QED BY <1>4, <1>9, <1>10 DEF IsParsed

\* One line of a text, when it is the only one to be selected.
LEMMA SelectedOne ==
  ASSUME NEW t, NEW m \in Nat \ {0}, IsText(t[m].text)
  PROVE  LET s == Selected(t, {m})
         IN s # <<>> /\ FirstText(s) = Trimmed(t[m].text) /\ LastText(s) = Trimmed(t[m].text)
<1> DEFINE kept == {m}
<1>1. PICK s : s = Selected(t, kept)
  OBVIOUS
<1>2. PICK h \in Nat : h + 1 = m /\ kept = (h + 1) .. (h + 1)
  <2>1. m - 1 \in Nat /\ (m - 1) + 1 = m /\ m .. m = {m}
    OBVIOUS
  <2> QED BY <2>1
<1>3. DOMAIN s = 1 .. 1 /\ s[1] = t[m]
  <2>1. PICK n \in Nat : n = 1
    OBVIOUS
  <2>2. /\ DOMAIN Selected(t, kept) = 1 .. n
        /\ \A k \in 1 .. n : Selected(t, kept)[k] = t[h + k]
    <3>1. kept = (h + 1) .. (h + n)
      BY <1>2, <2>1
    <3> HIDE DEF kept
    <3> QED BY <3>1, SelectedRun
  <2>3. DOMAIN s = 1 .. 1 /\ s[1] = t[h + 1]
    BY <1>1, <2>1, <2>2
  <2> QED BY <1>2, <2>3
<1>4. s = [k \in 1 .. 1 |-> t[m]]
  <2>1. s = [k \in 1 .. Cardinality(kept) |->
                t[CHOOSE i \in kept : Cardinality({j \in kept : j <= i}) = k]]
    BY <1>1 DEF Selected
  <2>2. s = [k \in DOMAIN s |-> s[k]]
    BY <2>1
  <2>3. \A k \in 1 .. 1 : s[k] = t[m]
    BY <1>3
  <2> QED BY <1>3, <2>2, <2>3
<1>5. s \in Seq({t[m]}) /\ Len(s) = 1
  BY <1>4
<1>6. s # <<>> /\ Head(s) = t[m] /\ Last(s) = t[m]
  BY <1>3, <1>5 DEF Last
<1> QED BY <1>1, <1>6 DEF FirstText, LastText

\* A plan that is saved, as a checked phase makes it, and loaded again is the plan it
\* was, if it has no more phases than there are numbers and none begins with a dot or
\* a colon: whatever the file looked like that it was loaded from.
THEOREM PlanRoundTrips ==
  ASSUME NEW t, IsLines(t), ReadsBack(ParsePlan(t))
  PROVE  RoundTrips(ParsePlan(t))
<1>1. PICK plan : plan = ParsePlan(t)
  OBVIOUS
<1>2. PICK k \in Nat : /\ PhasesAre(plan.phases, k)
                       /\ plan.phases = [i \in 1 .. k |-> [done |-> plan.phases[i].done,
                                                           text |-> plan.phases[i].text,
                                                           todos |-> <<>>]]
  <2>1. IsParsed(plan)
    BY <1>1, ParsedIs
  <2> QED BY <2>1 DEF IsParsed
<1>3. IsTrimmed(plan.title) /\ IsTrimmed(plan.requested) /\ IsTrimmed(plan.started)
  BY <1>1, ParsedIs DEF IsParsed
<1>4. PICK lines, again : lines = RenderPlan(plan) /\ again = ParsePlan(lines)
  OBVIOUS
<1>5. again.phases = plan.phases
  BY <1>1, <1>2, <1>4, PhasesBack
<1>6. PICK h : h = HeadOf(plan)
  OBVIOUS
<1>7. /\ h \in {2, 3} /\ DOMAIN lines = 1 .. h + k
      /\ lines[1] = TitleLine(plan) /\ lines[h] = StartedLine(plan)
      /\ h = 3 => lines[2] = Line("requested", "none", plan.requested)
      /\ \A i \in 1 .. k : lines[h + i].mark = "item"
  <2>1. DOMAIN plan.phases = 1 .. k
    BY <1>2 DEF PhasesAre
  <2>2. /\ h \in {2, 3} /\ DOMAIN lines = 1 .. h + k
        /\ lines[1] = TitleLine(plan) /\ lines[h] = StartedLine(plan)
        /\ h = 3 => lines[2] = Line("requested", "none", plan.requested)
        /\ \A i \in 1 .. k : lines[h + i] = PhaseLine(plan, i)
    <3>1. Rendered(lines, plan, h, k)
      BY <1>4, <1>6, <2>1, RenderedLines
    <3> QED BY <3>1 DEF Rendered
  <2>3. \A i \in 1 .. k : PhaseLine(plan, i).mark = "item"
    BY DEF PhaseLine, Item, Line
  <2> QED BY <2>2, <2>3
<1>8. ASSUME NEW m, m # "item" PROVE \A i \in DOMAIN lines : lines[i].mark = m => i \in 1 .. h
  <2> SUFFICES ASSUME NEW i \in 1 .. h + k, lines[i].mark = m, i \notin 1 .. h PROVE FALSE
    BY <1>7
  <2>1. i - h \in 1 .. k /\ h + (i - h) = i
    BY <1>7
  <2> QED BY <1>7, <1>8, <2>1
<1>9. /\ lines[1].mark = "title" /\ lines[h].mark = "started"
      /\ h = 3 => lines[2].mark = "requested" /\ lines[2].text = plan.requested
      /\ lines[1].text = OrDefault(plan.title, <<"Untitled", "project">>)
      /\ lines[h].text = OrDefault(plan.started, <<"now">>)
  BY <1>7 DEF TitleLine, StartedLine, Line
<1>10. ASSUME NEW x, IsTrimmed(x), NEW d, d \in {<<"Untitled", "project">>, <<"now">>}
       PROVE  IsTrimmed(OrDefault(x, d)) /\ OrDefault(x, d) # <<>>
              /\ OrDefault(OrDefault(x, d), d) = OrDefault(x, d)
  <2>1. IsTrimmed(d) /\ d # <<>>
    <3>1. CASE d = <<"Untitled", "project">>
      <4>1. d \in Seq({"Untitled", "project"}) /\ Len(d) = 2 /\ d[1] = "Untitled" /\ d[2] = "project"
        BY <3>1
      <4>2. "Untitled" # Space /\ "project" # Space
        BY Zenon DEF Space
      <4> QED BY <4>1, <4>2, SeqIsText DEF IsTrimmed
    <3>2. CASE d = <<"now">>
      <4>1. d \in Seq({"now"}) /\ Len(d) = 1 /\ d[1] = "now"
        BY <3>2
      <4>2. "now" # Space
        BY Zenon DEF Space
      <4> QED BY <4>1, <4>2, SeqIsText DEF IsTrimmed
    <3> QED BY <1>10, <3>1, <3>2
  <2> QED BY <1>10, <2>1 DEF OrDefault
<1>11. again.title = OrDefault(plan.title, <<"Untitled", "project">>)
  <2> DEFINE d == <<"Untitled", "project">>
             kept == {i \in DOMAIN lines : lines[i].mark = "title" /\ Trimmed(lines[i].text) # <<>>}
  <2>1. IsTrimmed(lines[1].text) /\ lines[1].text # <<>>
    BY <1>3, <1>9, <1>10
  <2>2. Trimmed(lines[1].text) = lines[1].text
    BY <2>1, TrimmedSame
  <2>3. kept = {1}
    <3>1. 1 \in kept
      BY <1>7, <1>9, <2>1, <2>2
    <3>2. \A i \in kept : i \in 1 .. h
      BY <1>8
    <3>3. ASSUME NEW i \in kept PROVE i = 1
      <4>1. lines[i].mark = "title"
        OBVIOUS
      <4>2. i = 1 \/ i = h \/ (h = 3 /\ i = 2)
        <5> HIDE DEF kept
        <5> QED BY <1>7, <3>2, <3>3
      <4> QED BY <1>9, <4>1, <4>2
    <3> QED BY <3>1, <3>3
  <2>4. again.title = FirstText(Selected(lines, kept))
    BY <1>4 DEF ParsePlan, Titles
  <2> HIDE DEF kept
  <2>5. FirstText(Selected(lines, kept)) = Trimmed(lines[1].text)
    BY <2>1, <2>3, SelectedOne DEF IsTrimmed
  <2> QED BY <1>9, <2>2, <2>4, <2>5
<1>12. again.started = OrDefault(plan.started, <<"now">>)
  <2> DEFINE kept == {i \in DOMAIN lines : lines[i].mark = "started"}
  <2>1. IsTrimmed(lines[h].text)
    BY <1>3, <1>9, <1>10
  <2>2. Trimmed(lines[h].text) = lines[h].text
    BY <2>1, TrimmedSame
  <2>3. kept = {h}
    <3>1. h \in kept
      BY <1>7, <1>9
    <3>2. \A i \in kept : i \in 1 .. h
      BY <1>8
    <3>3. ASSUME NEW i \in kept PROVE i = h
      <4>1. lines[i].mark = "started"
        OBVIOUS
      <4>2. i = 1 \/ i = h \/ (h = 3 /\ i = 2)
        <5> HIDE DEF kept
        <5> QED BY <1>7, <3>2, <3>3
      <4> QED BY <1>9, <4>1, <4>2
    <3> QED BY <3>1, <3>3
  <2>4. again.started = LastText(Selected(lines, kept))
    BY <1>4 DEF ParsePlan, Marked
  <2> HIDE DEF kept
  <2>5. LastText(Selected(lines, kept)) = Trimmed(lines[h].text)
    BY <1>7, <2>1, <2>3, SelectedOne DEF IsTrimmed
  <2> QED BY <1>9, <2>2, <2>4, <2>5
<1>13. again.requested = plan.requested
  <2> DEFINE kept == {i \in DOMAIN lines : lines[i].mark = "requested"}
  <2>1. again.requested = LastText(Selected(lines, kept))
    BY <1>4 DEF ParsePlan, Marked
  <2>2. \A i \in kept : h = 3 /\ i = 2
    <3> SUFFICES ASSUME NEW i \in kept PROVE h = 3 /\ i = 2
      OBVIOUS
    <3>1. lines[i].mark = "requested" /\ i \in 1 .. h
      BY <1>8
    <3>2. i = 1 \/ i = h \/ (h = 3 /\ i = 2)
      <4> HIDE DEF kept
      <4> QED BY <1>7, <3>1
    <3> QED BY <1>9, <3>1, <3>2
  <2>3. CASE h = 3
    <3>1. kept = {2}
      BY <1>7, <1>9, <2>2, <2>3
    <3>2. lines[2].text = plan.requested /\ IsText(lines[2].text)
      BY <1>3, <1>9, <2>3 DEF IsTrimmed
    <3> HIDE DEF kept
    <3>3. LastText(Selected(lines, kept)) = Trimmed(lines[2].text)
      <4>1. 2 \in Nat \ {0}
        OBVIOUS
      <4> QED BY <3>1, <3>2, <4>1, SelectedOne
    <3> QED BY <1>3, <2>1, <3>2, <3>3, TrimmedSame
  <2>4. CASE h = 2
    <3>1. kept = {}
      BY <2>2, <2>4
    <3>2. plan.requested = <<>>
      BY <1>6, <2>4 DEF HeadOf
    <3> HIDE DEF kept
    <3>3. Cardinality(kept) = 0
      BY <3>1, FS_EmptySet
    <3>4. Selected(lines, kept) = <<>>
      BY <3>3 DEF Selected
    <3> QED BY <2>1, <3>2, <3>4 DEF LastText
  <2> QED BY <1>7, <2>3, <2>4
<1>14. RenderPlan(again) = RenderPlan(plan)
  <2>1. /\ OrDefault(again.title, <<"Untitled", "project">>) = OrDefault(plan.title, <<"Untitled", "project">>)
        /\ OrDefault(again.started, <<"now">>) = OrDefault(plan.started, <<"now">>)
    BY <1>3, <1>10, <1>11, <1>12
  <2> QED BY <1>5, <1>13, <2>1 DEF RenderPlan
<1>15. PlanForPrompt(again) = PlanForPrompt(plan)
  BY <1>5 DEF PlanForPrompt, Complete, Pending, Active, Done
<1> QED BY <1>1, <1>4, <1>5, <1>13, <1>14, <1>15 DEF RoundTrips

\* So every plan that is loaded, saved and loaded again is the same plan.
THEOREM SavedPlanIsThePlanHolds == InputsSpec => []SavedPlanIsThePlan
<1> DEFINE LinesInv == Is("plan") => IsLines(input.of)
<1>1. InputsInit => LinesInv
  BY DEF InputsInit, Is
<1>2. LinesInv /\ [InputsNext]_input => LinesInv'
  <2> SUFFICES ASSUME LinesInv, [InputsNext]_input PROVE LinesInv'
    OBVIOUS
  <2>1. CASE UNCHANGED input
    BY <2>1 DEF Is
  <2>2. ASSUME NEW of, PickPlan(of) PROVE LinesInv'
    BY <2>2 DEF PickPlan, Pick, Is
  <2>3. ASSUME NEW of, PickLogits(of) \/ PickFile(of) \/ PickMetadata(of) PROVE LinesInv'
    BY <2>3 DEF PickLogits, PickFile, PickMetadata, Pick, Is
  <2> QED BY <2>1, <2>2, <2>3 DEF InputsNext
<1>3. LinesInv => SavedPlanIsThePlan
  BY PlanRoundTrips DEF SavedPlanIsThePlan
<1> QED BY <1>1, <1>2, <1>3, PTL DEF InputsSpec

\* What load_plan() may give.
Loaded(plan) ==
    /\ DOMAIN plan = {"title", "requested", "started", "phases"}
    /\ IsTrimmed(plan.title) /\ IsTrimmed(plan.requested) /\ IsTrimmed(plan.started)
    /\ GoodPhases(plan.phases)
    /\ \A i \in DOMAIN plan.phases : DOMAIN plan.phases[i] = {"done", "text", "todos"}

\* A sequence of phases, by its places.
LEMMA PhasesTogether ==
  ASSUME NEW phases, NEW k \in Nat, PhasesAre(phases, k), phases = [i \in 1 .. k |-> phases[i]]
  PROVE  GoodPhases(phases) /\ Len(phases) = k
<1> DEFINE S == {phases[i] : i \in 1 .. k}
<1>1. phases \in [1 .. k -> S]
  OBVIOUS
<1>2. phases \in Seq(S) /\ Len(phases) = k
  <2> HIDE DEF S
  <2> QED BY <1>1
<1>3. IsText(phases)
  BY <1>2, SeqIsText
<1> QED BY <1>2, <1>3 DEF GoodPhases, PhasesAre

\* A plan that is parsed is one of those, with its todos or without.
LEMMA ParsedIsLoaded ==
  ASSUME NEW t, IsLines(t), NEW todos
  PROVE  Loaded(ParsePlan(t)) /\ Loaded(WithTodos(ParsePlan(t), todos))
<1>1. PICK plan : plan = ParsePlan(t)
  OBVIOUS
<1>2. PICK q : q = WithTodos(plan, todos)
  OBVIOUS
<1>3. IsParsed(plan)
  BY <1>1, ParsedIs
<1>4. PICK k \in Nat : /\ PhasesAre(plan.phases, k)
                       /\ plan.phases = [i \in 1 .. k |-> [done |-> plan.phases[i].done,
                                                           text |-> plan.phases[i].text,
                                                           todos |-> <<>>]]
  BY <1>3 DEF IsParsed
<1>5. /\ DOMAIN plan = {"title", "requested", "started", "phases"}
      /\ DOMAIN q = DOMAIN plan /\ DOMAIN q.phases = DOMAIN plan.phases
      /\ plan.title = q.title /\ plan.requested = q.requested /\ plan.started = q.started
      /\ \A i \in DOMAIN plan.phases :
           /\ DOMAIN plan.phases[i] = {"done", "text", "todos"}
           /\ DOMAIN q.phases[i] = {"done", "text", "todos"}
           /\ plan.phases[i].done = q.phases[i].done
           /\ plan.phases[i].text = q.phases[i].text
  BY <1>1, <1>2, PlanIs
<1>6. DOMAIN plan.phases = 1 .. k
  BY <1>4
<1>7. plan.phases = [i \in 1 .. k |-> plan.phases[i]]
  BY <1>4
<1>8. GoodPhases(plan.phases)
  BY <1>4, <1>7, PhasesTogether
<1>9. PhasesAre(q.phases, k)
  BY <1>4, <1>5, <1>6 DEF PhasesAre
<1>10. q.phases = [i \in 1 .. k |-> q.phases[i]]
  <2>1. q.phases = [i \in DOMAIN plan.phases |->
           [plan.phases[i] EXCEPT !.todos =
              Selected(todos, {j \in DOMAIN todos : todos[j].mark = "todo" /\ todos[j].phase = i})]]
    BY <1>2, <1>5 DEF WithTodos
  <2> QED BY <1>6, <2>1
<1>11. GoodPhases(q.phases)
  BY <1>9, <1>10, PhasesTogether
<1>12. Loaded(plan)
  BY <1>3, <1>5, <1>8 DEF Loaded, IsParsed
<1>13. Loaded(q)
  BY <1>3, <1>5, <1>11 DEF Loaded, IsParsed
<1> QED BY <1>1, <1>2, <1>12, <1>13

\* So is no plan.
LEMMA NoPlanIsLoaded == Loaded(NoPlan)
<1>1. IsTrimmed(<<>>) /\ IsText(<<>>)
  BY CountEmpty DEF IsTrimmed
<1> QED BY <1>1 DEF Loaded, NoPlan, GoodPhases

\* A plan with other boxes.
LEMMA BoxesLoaded ==
  ASSUME NEW plan, Loaded(plan), NEW q, DOMAIN q = DOMAIN plan,
         q.title = plan.title, q.requested = plan.requested, q.started = plan.started,
         q.phases = [i \in DOMAIN plan.phases |-> q.phases[i]],
         \A i \in DOMAIN plan.phases :
            /\ DOMAIN q.phases[i] = DOMAIN plan.phases[i]
            /\ q.phases[i].done \in BOOLEAN /\ q.phases[i].text = plan.phases[i].text
  PROVE  Loaded(q)
<1>1. PICK k \in Nat : DOMAIN plan.phases = 1 .. k
  BY TextIs DEF Loaded, GoodPhases
<1>2. PhasesAre(q.phases, k)
  BY <1>1 DEF PhasesAre, Loaded, GoodPhases
<1>3. q.phases = [i \in 1 .. k |-> q.phases[i]] /\ DOMAIN q.phases = 1 .. k
  BY <1>1
<1>4. GoodPhases(q.phases)
  BY <1>2, <1>3, PhasesTogether
<1> QED BY <1>1, <1>3, <1>4 DEF Loaded

\* One that checks a phase off, or opens it again.
LEMMA CheckLoaded ==
  ASSUME NEW plan, Loaded(plan), NEW n \in DOMAIN plan.phases, NEW done \in BOOLEAN
  PROVE  Loaded(Check(plan, n, done))
<1>1. PICK q : q = Check(plan, n, done)
  OBVIOUS
<1>2. /\ q.title = plan.title /\ q.requested = plan.requested /\ q.started = plan.started
      /\ DOMAIN q = DOMAIN plan /\ q.phases = [plan.phases EXCEPT ![n].done = done]
  BY <1>1 DEF Check, Loaded
<1>3. q.phases = [i \in DOMAIN plan.phases |-> q.phases[i]]
  BY <1>2
<1>4. ASSUME NEW i \in DOMAIN plan.phases
      PROVE  /\ DOMAIN q.phases[i] = DOMAIN plan.phases[i]
             /\ q.phases[i].done \in BOOLEAN /\ q.phases[i].text = plan.phases[i].text
  <2>1. DOMAIN plan.phases[i] = {"done", "text", "todos"} /\ plan.phases[i].done \in BOOLEAN
    BY DEF Loaded, GoodPhases
  <2>2. q.phases[i] = IF i = n THEN [plan.phases[i] EXCEPT !.done = done] ELSE plan.phases[i]
    BY <1>2
  <2> QED BY <2>1, <2>2
<1>5. Loaded(q)
  BY <1>2, <1>3, <1>4, BoxesLoaded
<1> QED BY <1>1, <1>5

\* One whose boxes are cleared.
LEMMA UncheckedLoaded ==
  ASSUME NEW plan, Loaded(plan)
  PROVE  Loaded(Unchecked(plan)) /\ Done(Unchecked(plan)) = {}
<1>1. PICK q : q = Unchecked(plan)
  OBVIOUS
<1>2. /\ q.title = plan.title /\ q.requested = plan.requested /\ q.started = plan.started
      /\ DOMAIN q = DOMAIN plan
      /\ q.phases = [i \in DOMAIN plan.phases |-> [plan.phases[i] EXCEPT !.done = FALSE]]
  BY <1>1 DEF Unchecked, Loaded
<1>3. q.phases = [i \in DOMAIN plan.phases |-> q.phases[i]]
  BY <1>2
<1>4. ASSUME NEW i \in DOMAIN plan.phases
      PROVE  /\ DOMAIN q.phases[i] = DOMAIN plan.phases[i]
             /\ q.phases[i].done = FALSE /\ q.phases[i].text = plan.phases[i].text
  <2>1. DOMAIN plan.phases[i] = {"done", "text", "todos"}
    BY DEF Loaded
  <2>2. q.phases[i] = [plan.phases[i] EXCEPT !.done = FALSE]
    BY <1>2
  <2> QED BY <2>1, <2>2
<1>5. \A i \in DOMAIN plan.phases : q.phases[i].done \in BOOLEAN
  BY <1>4
<1>6. Loaded(q)
  BY <1>2, <1>3, <1>4, <1>5, BoxesLoaded
<1>7. Done(q) = {}
  <2>1. DOMAIN q.phases = DOMAIN plan.phases
    BY <1>3
  <2> QED BY <1>4, <2>1 DEF Done
<1> QED BY <1>1, <1>6, <1>7

\* The lines of a plan that is written are texts.
LEMMA RenderedAreLines ==
  ASSUME NEW plan, Loaded(plan) PROVE IsLines(RenderPlan(plan))
<1>1. PICK lines, h : lines = RenderPlan(plan) /\ h = HeadOf(plan)
  OBVIOUS
<1>2. PICK k \in Nat : DOMAIN plan.phases = 1 .. k
  BY TextIs DEF Loaded, GoodPhases
<1>3. /\ h \in {2, 3} /\ IsText(lines) /\ DOMAIN lines = 1 .. h + k
      /\ lines[1] = TitleLine(plan) /\ lines[h] = StartedLine(plan)
      /\ h = 3 => lines[2] = Line("requested", "none", plan.requested)
      /\ \A i \in 1 .. k : lines[h + i] = PhaseLine(plan, i)
  <2>1. Rendered(lines, plan, h, k)
    BY <1>1, <1>2, RenderedLines
  <2> QED BY <2>1 DEF Rendered
<1>4. IsText(TitleLine(plan).text) /\ IsText(StartedLine(plan).text)
  <2>1. <<"Untitled", "project">> \in Seq({"Untitled", "project"}) /\ <<"now">> \in Seq({"now"})
    OBVIOUS
  <2>2. IsText(<<"Untitled", "project">>) /\ IsText(<<"now">>)
    BY <2>1, SeqIsText
  <2> QED BY <2>2 DEF TitleLine, StartedLine, Line, OrDefault, Loaded, IsTrimmed
<1>5. IsText(Line("requested", "none", plan.requested).text)
  BY DEF Line, Loaded, IsTrimmed
<1>6. ASSUME NEW i \in 1 .. k PROVE IsText(PhaseLine(plan, i).text)
  <2>1. IsText(plan.phases[i].text)
    BY <1>2 DEF Loaded, GoodPhases, IsTrimmed
  <2> DEFINE five == <<"Phase", Space, Numbers[i], ":", Space>>
  <2>2. IsText(five)
    <3>1. ASSUME NEW S, NEW a \in S, NEW b \in S, NEW c \in S, NEW d \in S, NEW e \in S
          PROVE  <<a, b, c, d, e>> \in Seq(S)
      OBVIOUS
    <3>2. five \in Seq({"Phase", Space, Numbers[i], ":"})
      BY <3>1
    <3> HIDE DEF five
    <3> QED BY <3>2, SeqIsText
  <2>3. IsText(five \o plan.phases[i].text)
    <3> HIDE DEF five
    <3> QED BY <2>1, <2>2, CountConcat
  <2>4. PhaseLine(plan, i).text = five \o plan.phases[i].text
    BY DEF PhaseLine, Item, Line
  <2> HIDE DEF five
  <2> QED BY <2>3, <2>4
<1>7. ASSUME NEW i \in 1 .. h + k PROVE IsText(lines[i].text)
  <2>1. CASE i \in 1 .. h
    <3>1. i = 1 \/ i = h \/ (h = 3 /\ i = 2)
      BY <1>3, <2>1
    <3> QED BY <1>3, <1>4, <1>5, <3>1
  <2>2. CASE i \notin 1 .. h
    <3>1. i - h \in 1 .. k /\ h + (i - h) = i
      BY <1>3, <2>2
    <3> QED BY <1>3, <1>6, <3>1
  <2> QED BY <2>1, <2>2
<1>8. \A y \in Range(lines) : IsText(y.text)
  BY <1>3, <1>7 DEF Range
<1> QED BY <1>1, <1>3, <1>8 DEF IsLines

-----------------------------------------------------------------------------
(* What fits.                                                               *)

\* No text is one, and what is read of a text is.
LEMMA HeadLines == IsLines(<<>>) /\ \A t : IsLines(t) => IsLines(Head2M(t))
<1>1. Range(<<>>) = {}
  BY DEF Range
<1>2. ASSUME NEW t, IsLines(t) PROVE IsLines(Head2M(t))
  <2>1. IsText(Head2M(t)) /\ Range(Head2M(t)) \subseteq Range(t)
    BY <1>2, CountHead DEF IsLines
  <2> QED BY <1>2, <2>1 DEF IsLines
<1> QED BY <1>1, <1>2, CountEmpty DEF IsLines

\* What fits is a text.
LEMMA FitsIsText ==
  ASSUME NEW who, NEW t, Fits(who, t) PROVE IsText(t) /\ IsLines(t)
BY DEF Fits, IsLines

\* What is due is one or none, and what was checked is counted.
LEMMA DueIs ==
  ASSUME LogInv
  PROVE  /\ \A n : Due(n) \in {0, 1} /\ Count(checked, n) \in Nat
         /\ \A n : Due(n) = 1 <=> /\ Kind("user") = "phase" /\ Path("user") = LogPath
                                  /\ call["user"].job.number = n
         /\ \A n : Matches(checked, n) = {} <=> Count(checked, n) = 0
<1>1. IsText(checked)
  BY SeqIsText DEF LogInv
<1> QED BY <1>1, CountType DEF Due

\* No text fits always.
LEMMA EmptyFits ==
  ASSUME LogInv, NEW who PROVE Fits(who, <<>>)
<1>1. \A n \in Recorded : Due(n) <= Count(checked, n) /\ Due(n) \in {0, 1} /\ Count(checked, n) \in Nat
  BY DueIs DEF LogInv, Recorded
<1>2. \A n \in Recorded : Matches(<<>>, LogLine(n)) = {} /\ Count(<<>>, LogLine(n)) = 0
  BY CountEmpty
<1> QED BY <1>1, <1>2, HeadLines DEF Fits

\* What fits a file fits every call.
LEMMA FileFits ==
  ASSUME LogInv, NEW who, NEW t, Fits("disk", t) PROVE Fits(who, t)
<1>1. \A n \in Recorded : Count(t, LogLine(n)) \in Nat
  BY FitsIsText, CountType
<1> QED BY <1>1, DueIs DEF Fits

\* What has no more of the lines fits as well.
LEMMA LessFits ==
  ASSUME LogInv, NEW who, NEW t, Fits(who, t), NEW s, IsLines(s),
         \A n \in Recorded : Count(s, LogLine(n)) <= Count(t, LogLine(n))
  PROVE  Fits(who, s)
<1>1. ASSUME NEW n \in Recorded
      PROVE  /\ Count(s, LogLine(n)) \in Nat /\ Count(t, LogLine(n)) \in Nat
             /\ Matches(s, LogLine(n)) # {} => Matches(t, LogLine(n)) # {}
  <2>1. /\ Count(s, LogLine(n)) \in Nat /\ Count(t, LogLine(n)) \in Nat
        /\ Count(s, LogLine(n)) = 0 <=> Matches(s, LogLine(n)) = {}
        /\ Count(t, LogLine(n)) = 0 <=> Matches(t, LogLine(n)) = {}
    BY FitsIsText, CountType DEF IsLines
  <2> QED BY <2>1
<1> QED BY <1>1, DueIs DEF Fits

\* What has none of the lines fits.
LEMMA NoneFits ==
  ASSUME LogInv, NEW who, NEW t, IsLines(t),
         \A n \in Recorded : LogLine(n) \notin Range(t)
  PROVE  Fits(who, t)
<1>1. \A n \in Recorded : Matches(t, LogLine(n)) = {} /\ Count(t, LogLine(n)) = 0
  BY CountType DEF IsLines
<1>2. \A n \in Recorded : Due(n) <= Count(checked, n) /\ Due(n) \in {0, 1} /\ Count(checked, n) \in Nat
  BY DueIs DEF LogInv, Recorded
<1> QED BY <1>1, <1>2 DEF Fits

\* A step after which no more is due than it has checked: what fitted still does.
Loosens ==
    /\ clobbered => clobbered'
    /\ checked' \in Seq(DOMAIN Numbers)
    /\ \A n \in DOMAIN Numbers :
          /\ Due(n)' \in {0, 1}
          /\ Count(checked, n) <= Count(checked', n)
          /\ Count(checked, n) + Due(n)' <= Count(checked', n) + Due(n)

\* What was checked is counted, and never forgotten.
LEMMA LooseCounts ==
  ASSUME LogInv, Loosens, NEW n \in DOMAIN Numbers
  PROVE  /\ Count(checked', n) \in Nat /\ Due(n)' <= Count(checked', n)
         /\ Matches(checked, n) # {} => Matches(checked', n) # {}
<1>1. IsText(checked')
  BY SeqIsText DEF Loosens
<1>2. Count(checked', n) \in Nat /\ (Count(checked', n) = 0 <=> Matches(checked', n) = {})
  BY <1>1, CountType
<1>3. Due(n) <= Count(checked, n)
  BY DEF LogInv
<1> QED BY <1>2, <1>3, DueIs DEF Loosens

\* So it is.
LEMMA StillFits ==
  ASSUME LogInv, Loosens, NEW who, NEW t, Fits(who, t) PROVE Fits(who, t)'
<1>1. ASSUME NEW n \in Recorded
      PROVE  /\ Matches(t, LogLine(n)) # {} => Matches(checked', n) # {}
             /\ ~clobbered' =>
                   Count(t, LogLine(n)) + (IF who = "user" THEN 0 ELSE Due(n)')
                       <= Count(checked', n)
  <2>1. n \in DOMAIN Numbers
    BY DEF Recorded
  <2>2. /\ Matches(t, LogLine(n)) # {} => Matches(checked, n) # {}
        /\ ~clobbered =>
              Count(t, LogLine(n)) + (IF who = "user" THEN 0 ELSE Due(n))
                  <= Count(checked, n)
    BY DEF Fits
  <2>3. Count(t, LogLine(n)) \in Nat /\ Count(checked, n) \in Nat /\ Due(n) \in {0, 1}
    BY FitsIsText, CountType, DueIs
  <2>4. /\ Count(checked', n) \in Nat
        /\ Matches(checked, n) # {} => Matches(checked', n) # {}
    BY <2>1, LooseCounts
  <2>5. /\ Due(n)' \in {0, 1}
        /\ Count(checked, n) <= Count(checked', n)
        /\ Count(checked, n) + Due(n)' <= Count(checked', n) + Due(n)
        /\ clobbered => clobbered'
    BY <2>1 DEF Loosens
  <2>6. CASE who = "user"
    BY <2>2, <2>3, <2>4, <2>5, <2>6
  <2>7. CASE who # "user"
    BY <2>2, <2>3, <2>4, <2>5, <2>7
  <2> QED BY <2>6, <2>7
<1> QED BY <1>1 DEF Fits

\* Such a step keeps the invariant, when what the files and the calls hold fits.
LEMMA LooseLog ==
  ASSUME LogInv, Loosens, Kind("agent")' # "phase",
         \A p \in DOMAIN disk' : IsFile(disk', p) => Fits("disk", disk[p].text)',
         \A a \in Actors : Fits(a, call'[a].text)
  PROVE  LogInv'
<1>1. ASSUME NEW a \in Actors PROVE Fits(a, call[a].text)'
  <2>1. PICK t : t = call'[a].text
    OBVIOUS
  <2>2. Fits(a, t)'
    BY <2>1, StillFits
  <2> QED BY <2>1, <2>2 DEF Fits
<1>2. \A n \in DOMAIN Numbers : (Due(n) <= Count(checked, n))'
  BY LooseCounts
<1> QED BY <1>1, <1>2 DEF LogInv, Loosens

\* A file that held what it holds, or holds what fits, is one of those.
LEMMA FileStillFits ==
  ASSUME LogInv, Loosens, NEW p, Fits("disk", disk'[p].text)
  PROVE  Fits("disk", disk[p].text)'
<1>1. PICK t : t = disk'[p].text
  OBVIOUS
<1>2. Fits("disk", t)'
  BY <1>1, StillFits
<1> QED BY <1>1, <1>2 DEF Fits

-----------------------------------------------------------------------------
(* Every step keeps the log's invariant.                                    *)

\* An actor at rest has nothing due.
LEMMA NothingDue ==
  ASSUME Calls PROVE call["user"] = Idle => \A n : Due(n) = 0
<1>1. Idle.path # LogPath
  <2>1. Inside(LogPath)
    BY JobsAssumption DEF OwnPaths
  <2>2. ~Inside(NoPath)
    BY DEF Inside, NoPath
  <2> QED BY <2>1, <2>2, IdleFields
<1> QED BY <1>1 DEF Due, Path

\* A step of one call that checks nothing keeps the invariant, when its text and
\* those of the files fit and it does not begin to owe a line.
LEMMA CallLog ==
  ASSUME LogInv, Calls, NEW a \in Actors, DOMAIN call' = Actors,
         \A b \in Actors : b # a => call'[b] = call[b],
         checked' = checked, clobbered => clobbered',
         \A p : IsFile(disk', p) => Fits("disk", disk'[p].text),
         Fits(a, call'[a].text),
         a = "agent" => call'[a].job.kind # "phase",
         call'[a].job.kind = "phase" /\ call'[a].path = LogPath =>
            call'[a].job = call[a].job /\ call'[a].path = call[a].path
  PROVE  LogInv'
<1>1. Actors = {"user", "agent"}
  BY DEF Actors
<1>2. Kind("agent")' # "phase"
  BY <1>1 DEF LogInv, Kind
<1>3. ASSUME NEW n PROVE Due(n)' \in {0, Due(n)}
  <2>1. CASE a = "user"
    BY <2>1 DEF Due, Kind, Path
  <2>2. CASE a = "agent"
    <3>1. call'["user"] = call["user"]
      BY <1>1, <2>2
    <3> QED BY <3>1 DEF Due, Kind, Path
  <2> QED BY <1>1, <2>1, <2>2
<1>4. Loosens
  <2>1. checked' \in Seq(DOMAIN Numbers)
    BY DEF LogInv
  <2> QED BY <1>3, <2>1, DueIs DEF Loosens
<1>5. \A b \in Actors : Fits(b, call'[b].text)
  BY DEF LogInv
<1>6. \A p \in DOMAIN disk' : IsFile(disk', p) => Fits("disk", disk[p].text)'
  BY <1>4, FileStillFits
<1> QED BY <1>2, <1>4, <1>5, <1>6, LooseLog

\* What the files hold fits.
LEMMA FilesFit ==
  ASSUME LogInv, NEW p, IsFile(disk, p) PROVE Fits("disk", disk[p].text)
  BY DEF LogInv, IsFile, Exists

\* A call that ends without a change.
LEMMA RefuseLog ==
  ASSUME LogInv, Calls, NEW a \in Actors, Refuse(a) PROVE LogInv'
<1>1. /\ DOMAIN call' = Actors /\ call'[a] = Idle /\ \A b \in Actors : b # a => call'[b] = call[b]
      /\ disk' = disk /\ checked' = checked /\ clobbered' = clobbered
  BY DEF Refuse, Calls, ghosts
<1>2. Idle.text = <<>> /\ Idle.job.kind # "phase"
  BY DEF Idle
<1>3. Fits(a, Idle.text)
  BY <1>2, EmptyFits
<1> QED BY <1>1, <1>2, <1>3, FilesFit, CallLog

\* A call whose text fits goes on.
LEMMA ProceedLog ==
  ASSUME LogInv, Calls, NEW a \in Actors, NEW ok, NEW text, Proceed(a, ok, text),
         ok => Fits(a, text)
  PROVE  LogInv'
<1>1. CASE ~ok
  BY <1>1, RefuseLog DEF Proceed
<1>2. CASE ok
  <2>1. /\ call' = [call EXCEPT ![a].at = "open", ![a].text = text]
        /\ disk' = disk /\ checked' = checked /\ clobbered' = clobbered
    BY <1>2 DEF Proceed, ghosts
  <2>2. /\ DOMAIN call' = Actors /\ \A b \in Actors : b # a => call'[b] = call[b]
        /\ call'[a] = [call[a] EXCEPT !.at = "open", !.text = text]
    BY <2>1 DEF Calls
  <2>3. DOMAIN call[a] = {"at", "job", "path", "text", "then", "held"}
    BY DEF Calls, IsCall
  <2>4. call'[a].text = text /\ call'[a].job = call[a].job /\ call'[a].path = call[a].path
    BY <2>2, <2>3
  <2>5. a = "agent" => call[a].job.kind # "phase"
    BY DEF LogInv, Kind
  <2> QED BY <1>2, <2>1, <2>2, <2>4, <2>5, FilesFit, CallLog
<1> QED BY <1>1, <1>2

\* An edit brings no line of the log that was not written by hand.
LEMMA ReadForEditLog ==
  ASSUME LogInv, Calls, NEW a \in Actors, ReadForEdit(a) PROVE LogInv'
<1> DEFINE edits == call[a].job.edits
           lines == ReadText(disk, Path(a))
           text == EditText(lines, edits).text
<1>1. Proceed(a, Editable(disk, Path(a), edits), text)
  BY DEF ReadForEdit
<1>2. ASSUME Editable(disk, Path(a), edits) PROVE Fits(a, text)
  <2>1. IsFile(disk, Path(a)) /\ lines = Head2M(disk[Path(a)].text)
    BY <1>2 DEF Editable, Readable, ReadText
  <2>2. Fits("disk", disk[Path(a)].text)
    BY <2>1, FilesFit
  <2>3. Fits("disk", lines) /\ IsText(lines) /\ IsLines(lines)
    <3>1. IsText(disk[Path(a)].text) /\ IsLines(disk[Path(a)].text)
      BY <2>2, FitsIsText
    <3>2. IsLines(lines) /\ \A n \in Recorded :
            Count(lines, LogLine(n)) <= Count(disk[Path(a)].text, LogLine(n))
      BY <2>1, <3>1, CountHead, HeadLines
    <3> HIDE DEF lines
    <3> QED BY <2>2, <3>2, LessFits, FitsIsText
  <2>4. call[a].job \in AllJobs /\ call[a].job.kind = "edit"
    BY DEF ReadForEdit, At, Kind, Calls, GoodCall
  <2>5. edits \in Seq(Range(edits)) /\ \A i \in DOMAIN edits : IsLines(edits[i].replace)
    BY <2>4, JobsAssumption
  <2>6. Len(edits) \in Nat /\ DOMAIN edits = 1 .. Len(edits)
    BY <2>5
  <2>7. \A n \in Recorded, i \in DOMAIN edits : LogLine(n) \notin Range(edits[i].replace)
    BY <2>4 DEF Recorded, Written
  <2>8. IsLines(text) /\ \A n \in Recorded : Count(text, LogLine(n)) <= Count(lines, LogLine(n))
    <3> HIDE DEF lines, edits
    <3>1. ASSUME NEW x, \A i \in 1 .. Len(edits) : x \notin Range(edits[i].replace)
          PROVE  /\ IsText(text) /\ Count(text, x) <= Count(lines, x)
                 /\ Range(text) \subseteq
                       Range(lines) \cup UNION {Range(edits[i].replace) : i \in 1 .. Len(edits)}
      <4>1. \A i \in 1 .. Len(edits) : IsText(edits[i].replace)
        BY <2>5, <2>6 DEF IsLines
      <4> QED BY <2>3, <2>6, <3>1, <4>1, EditTextIs
    <3>2. \A n \in Recorded : Count(text, LogLine(n)) <= Count(lines, LogLine(n))
      BY <2>6, <2>7, <3>1
    <3>3. IsLines(text)
      <4>1. PICK x : x \notin UNION {Range(edits[i].replace) : i \in 1 .. Len(edits)}
        BY SomethingElse
      <4>2. /\ IsText(text)
            /\ Range(text) \subseteq
                  Range(lines) \cup UNION {Range(edits[i].replace) : i \in 1 .. Len(edits)}
        BY <3>1, <4>1
      <4>3. \A i \in 1 .. Len(edits) : IsLines(edits[i].replace)
        BY <2>5, <2>6
      <4> HIDE DEF text
      <4> QED BY <2>3, <4>2, <4>3 DEF IsLines
    <3> QED BY <3>2, <3>3
  <2>9. Fits("disk", text)
    <3> HIDE DEF text, lines
    <3> QED BY <2>3, <2>8, LessFits
  <2> HIDE DEF text
  <2> QED BY <2>9, FileFits
<1> HIDE DEF text
<1> QED BY <1>1, <1>2, ProceedLog

\* A plan that loads is one that was parsed, or none.
LEMMA LoadedPlanIs ==
  ASSUME LogInv, PlanLoads(disk)
  PROVE  Loaded(LoadedPlan(disk))
<1>1. CASE ~Exists(disk, PlanPath)
  BY <1>1, NoPlanIsLoaded DEF LoadedPlan
<1>2. CASE Exists(disk, PlanPath)
  <2> DEFINE lines == ReadText(disk, PlanPath)
             todos == IF Exists(disk, TodosPath) THEN ReadText(disk, TodosPath) ELSE <<>>
  <2>1. IsFile(disk, PlanPath)
    BY <1>2 DEF PlanLoads, Readable
  <2>2. IsLines(disk[PlanPath].text)
    BY <2>1, FilesFit, FitsIsText
  <2>3. IsLines(lines)
    BY <2>2, HeadLines DEF ReadText
  <2>4. LoadedPlan(disk) = WithTodos(ParsePlan(lines), todos)
    BY <1>2 DEF LoadedPlan
  <2> HIDE DEF lines, todos
  <2> QED BY <2>3, <2>4, ParsedIsLoaded
<1> QED BY <1>1, <1>2

\* A plan that is written brings no line of the log.
LEMMA PlanFits ==
  ASSUME LogInv, NEW who, NEW plan, Loaded(plan)
  PROVE  Fits(who, RenderPlan(plan))
<1>0. PICK k \in Nat : DOMAIN plan.phases = 1 .. k
  BY TextIs DEF Loaded, GoodPhases
<1>1. IsText(RenderPlan(plan)) /\ \A n : Matches(RenderPlan(plan), LogLine(n)) = {}
  BY <1>0, RenderedIs
<1>2. \A n : LogLine(n) \notin Range(RenderPlan(plan))
  BY <1>1, CountType
<1>3. IsLines(RenderPlan(plan))
  BY RenderedAreLines
<1> QED BY <1>2, <1>3, NoneFits

\* Neither does the plan's handler.
LEMMA ReadForPhaseLog ==
  ASSUME LogInv, Calls, NEW a \in Actors, ReadForPhase(a) PROVE LogInv'
<1> DEFINE plan == LoadedPlan(disk)
           j == call[a].job
           text == RenderPlan(Check(plan, j.number, j.done))
<1>1. Proceed(a, PlanLoads(disk) /\ j.number \in DOMAIN plan.phases, text)
  BY DEF ReadForPhase
<1>2. ASSUME PlanLoads(disk), j.number \in DOMAIN plan.phases PROVE Fits(a, text)
  <2>1. Loaded(plan)
    BY <1>2, LoadedPlanIs
  <2>2. j.done \in BOOLEAN
    <3>1. j \in AllJobs /\ j.kind = "phase"
      BY DEF ReadForPhase, At, Kind, Calls, GoodCall
    <3> QED BY <3>1, JobsAssumption
  <2>3. Loaded(Check(plan, j.number, j.done))
    <3> HIDE DEF plan, j
    <3> QED BY <1>2, <2>1, <2>2, CheckLoaded
  <2> HIDE DEF plan, j
  <2> QED BY <2>3, PlanFits
<1> HIDE DEF text, plan
<1> QED BY <1>1, <1>2, ProceedLog

\* The agent that unchecks what it wrote brings none either.
LEMMA LoadAgainLog ==
  ASSUME LogInv, Calls, LoadAgain PROVE LogInv'
<1> DEFINE plan == LoadedPlan(disk)
           fix == PlanLoads(disk) /\ MustFix(plan)
           text == RenderPlan(Unchecked(plan))
           c == [Idle EXCEPT !.at = "open", !.job = [kind |-> "fix"], !.path = PlanPath,
                             !.text = text]
<1>1. /\ DOMAIN call' = Actors /\ call'["agent"] = IF fix THEN c ELSE Idle
      /\ \A b \in Actors : b # "agent" => call'[b] = call[b]
      /\ disk' = disk /\ checked' = checked /\ clobbered' = clobbered
  BY DEF LoadAgain, Calls, Actors
<1>2. PlanLoads(disk) => Fits("agent", text)
  <2> SUFFICES ASSUME PlanLoads(disk) PROVE Fits("agent", text)
    OBVIOUS
  <2>1. Loaded(plan)
    BY LoadedPlanIs
  <2> HIDE DEF plan
  <2>2. Loaded(Unchecked(plan))
    BY <2>1, UncheckedLoaded
  <2> QED BY <2>2, PlanFits
<1> HIDE DEF text, plan
<1>3. /\ c.text = text /\ c.job.kind # "phase" /\ Idle.text = <<>> /\ Idle.job.kind # "phase"
  BY DEF Idle
<1> HIDE DEF c
<1>4. Fits("agent", call'["agent"].text) /\ call'["agent"].job.kind # "phase"
  BY <1>1, <1>2, <1>3, EmptyFits
<1>5. "agent" \in Actors
  BY DEF Actors
<1> QED BY <1>1, <1>4, <1>5, FilesFit, CallLog

\* The line that is due is one more than the log has.
LEMMA ReadForLogLog ==
  ASSUME LogInv, Calls, NEW a \in Actors, ReadForLog(a) PROVE LogInv'
<1> DEFINE lines == IF Exists(disk, LogPath) THEN ReadText(disk, LogPath)
                    ELSE <<Prose(<<"log">>)>>
           m == call[a].job.number
           text == Append(lines, LogLine(m))
           ok == Exists(disk, LogPath) => Readable(disk, LogPath)
<1>1. Proceed(a, ok, text)
  BY DEF ReadForLog
<1>2. a = "user" /\ Kind("user") = "phase" /\ Path("user") = LogPath
  BY DEF ReadForLog, LogInv, Actors
<1>3. m \in DOMAIN Numbers
  <2>1. call[a].job \in AllJobs /\ call[a].job.kind = "phase"
    BY DEF ReadForLog, At, Kind, Calls, GoodCall
  <2> QED BY <2>1, JobsAssumption
<1>4. Due(m) = 1 /\ Matches(checked, m) # {} /\ \A n : n # m => Due(n) = 0
  <2>1. Due(m) = 1 /\ \A n : n # m => Due(n) = 0
    BY <1>2 DEF Due
  <2> QED BY <1>3, <2>1, DueIs DEF LogInv
<1>5. ASSUME ok PROVE Fits("disk", lines) /\ IsText(lines)
  <2>1. CASE Exists(disk, LogPath)
    <3>1. IsFile(disk, LogPath) /\ lines = Head2M(disk[LogPath].text)
      BY <1>5, <2>1 DEF Readable, ReadText
    <3>2. Fits("disk", disk[LogPath].text)
      BY <3>1, FilesFit
    <3>3. IsText(disk[LogPath].text) /\ IsLines(disk[LogPath].text)
      BY <3>2, FitsIsText
    <3>4. IsLines(lines) /\ \A n \in Recorded :
            Count(lines, LogLine(n)) <= Count(disk[LogPath].text, LogLine(n))
      BY <3>1, <3>3, CountHead, HeadLines
    <3> HIDE DEF lines
    <3> QED BY <3>2, <3>4, LessFits, FitsIsText
  <2>2. CASE ~Exists(disk, LogPath)
    <3>1. lines = <<Prose(<<"log">>)>>
      BY <2>2
    <3>2. \A n : LogLine(n) # Prose(<<"log">>)
      BY DEF LogLine, Prose, Line
    <3>3. IsText(lines) /\ Range(lines) = {Prose(<<"log">>)}
      BY <3>1, CountLine
    <3>4. IsText(Prose(<<"log">>).text)
      BY CountLine DEF Prose, Line
    <3> HIDE DEF lines
    <3>5. IsLines(lines) /\ \A n : LogLine(n) \notin Range(lines)
      BY <3>2, <3>3, <3>4 DEF IsLines
    <3> QED BY <3>5, NoneFits, FitsIsText
  <2> QED BY <2>1, <2>2
<1>6. ASSUME ok PROVE Fits(a, text)
  <2>1. Fits("disk", lines) /\ IsText(lines)
    BY <1>5, <1>6
  <2> HIDE DEF lines
  <2>2. IsText(text) /\ Range(text) = Range(lines) \cup {LogLine(m)}
    BY <2>1, CountAppend
  <2>5. IsLines(text)
    <3>1. IsText(LogLine(m).text)
      <4>1. <<"phase", Numbers[m], "done">> \in Seq({"phase", Numbers[m], "done"})
        OBVIOUS
      <4>2. LogLine(m).text = <<"phase", Numbers[m], "done">>
        BY DEF LogLine, Prose, Line
      <4> QED BY <4>1, <4>2, SeqIsText
    <3>2. IsLines(lines)
      BY <2>1, FitsIsText
    <3> HIDE DEF text
    <3> QED BY <2>2, <3>1, <3>2 DEF IsLines
  <2>3. ASSUME NEW n \in Recorded
        PROVE  /\ Matches(text, LogLine(n)) # {} => Matches(checked, n) # {}
               /\ ~clobbered => Count(text, LogLine(n)) <= Count(checked, n)
    <3>1. /\ Matches(lines, LogLine(n)) # {} => Matches(checked, n) # {}
          /\ ~clobbered => Count(lines, LogLine(n)) + Due(n) <= Count(checked, n)
      BY <2>1 DEF Fits
    <3>2. /\ Count(text, LogLine(n)) =
                 Count(lines, LogLine(n)) + (IF LogLine(n) = LogLine(m) THEN 1 ELSE 0)
          /\ Count(lines, LogLine(n)) \in Nat /\ Count(text, LogLine(n)) \in Nat
          /\ Count(text, LogLine(n)) = 0 <=> Matches(text, LogLine(n)) = {}
          /\ Count(lines, LogLine(n)) = 0 <=> Matches(lines, LogLine(n)) = {}
      BY <2>1, <2>2, CountAppend, CountType
    <3>3. LogLine(n) = LogLine(m) => n = m
      <4>1. n \in DOMAIN Numbers
        BY DEF Recorded
      <4>2. LogLine(n).text[2] = Numbers[n] /\ LogLine(m).text[2] = Numbers[m]
        BY DEF LogLine, Prose, Line
      <4>3. Numbers[n] = Numbers[m] => n = m
        BY <1>3, <4>1, NumbersAssumption
      <4> QED BY <4>2, <4>3
    <3>4. CASE n = m
      BY <1>4, <3>1, <3>2, <3>4, DueIs
    <3>5. CASE n # m
      BY <1>4, <3>1, <3>2, <3>3, <3>5, DueIs
    <3> QED BY <3>4, <3>5
  <2>4. \A n \in Recorded : Count(text, LogLine(n)) \in Nat
    BY <2>2, CountType
  <2> HIDE DEF text
  <2> QED BY <1>2, <2>3, <2>4, <2>5 DEF Fits
<1> HIDE DEF text, ok
<1> QED BY <1>1, <1>6, ProceedLog

\* A write brings no line of the log that was not written by hand, and the handler
\* of the plan owes none before the box is checked.
LEMMA BeginWriteLog ==
  ASSUME LogInv, Calls, ProjectTree(disk), NEW a \in Actors, NEW j \in JobsOf(a),
         BeginWrite(a, j)
  PROVE  LogInv'
<1> DEFINE p == Resolve(disk, j.rel)
           c == [Idle EXCEPT
             !.job = j, !.path = p,
             !.at = IF j.kind = "write" THEN "open" ELSE "read",
             !.text = IF j.kind = "write" THEN j.text ELSE <<>>,
             !.then = IF j.kind = "phase" /\ j.done THEN "log" ELSE AfterCall(a, p)]
<1>1. /\ DOMAIN call' = Actors /\ call'[a] = c /\ \A b \in Actors : b # a => call'[b] = call[b]
      /\ disk' = disk /\ checked' = checked /\ clobbered' = clobbered
  BY DEF BeginWrite, Calls, ghosts
<1>2. j \in AllJobs /\ (a = "agent" => j.kind # "phase")
  BY JobsAssumption DEF JobsOf, AllJobs
<1>3. j.kind = "phase" => p = PlanPath
  <2>1. j.kind = "phase" => j.rel = PlanPath
    BY <1>2, JobsAssumption DEF PhaseJob
  <2>2. PlanPath \in OwnPaths
    BY DEF OwnPaths
  <2> QED BY <2>1, <2>2, OwnPathsResolve
<1>4. c.job = j /\ c.path = p /\ c.text = IF j.kind = "write" THEN j.text ELSE <<>>
  BY DEF Idle
<1>5. j.kind = "write" => Fits(a, j.text)
  <2> SUFFICES ASSUME j.kind = "write" PROVE Fits(a, j.text)
    OBVIOUS
  <2>1. IsLines(j.text)
    BY <1>2, JobsAssumption
  <2>2. \A n \in Recorded : LogLine(n) \notin Range(j.text)
    BY <1>2 DEF Recorded, Written
  <2> QED BY <2>1, <2>2, NoneFits
<1> HIDE DEF c, p
<1>6. Fits(a, call'[a].text)
  BY <1>1, <1>4, <1>5, EmptyFits
<1>7. PlanPath # LogPath
  BY JobsAssumption
<1> QED BY <1>1, <1>2, <1>3, <1>4, <1>6, <1>7, FilesFit, CallLog

\* rename(), remove() and mkdir() bring no text.
LEMMA ChangeTreeLog ==
  ASSUME LogInv, IndInv, IndInv', NEW a \in Actors, NEW j, ChangeTree(a, j)
  PROVE  LogInv'
<1>0. Calls /\ ProjectTree(disk) /\ ProjectTree(disk)'
  BY IndInvGives, PTL
<1>1. call[a] = Idle
  BY <1>0 DEF ChangeTree, Takes, Calls, GoodCall, At
<1>2. PICK at : call' = [call EXCEPT ![a].at = at]
  BY DEF ChangeTree
<1>3. /\ DOMAIN call' = Actors /\ call'[a] = [Idle EXCEPT !.at = at]
      /\ \A b \in Actors : b # a => call'[b] = call[b]
  BY <1>0, <1>1, <1>2 DEF Calls
<1>4. call'[a].text = <<>> /\ call'[a].job.kind # "phase"
  BY <1>3 DEF Idle
<1>5. ASSUME NEW p, IsFile(disk', p) PROVE Fits("disk", disk'[p].text)
  <2>1. CASE disk' = disk
    BY <1>5, <2>1, FilesFit
  <2>2. CASE disk' # disk
    <3>1. p \in Names
      BY <1>0, <1>5 DEF ProjectTree, IsTree, IsFile, Exists, Names
    <3>2. Content(disk', p) = [there |-> TRUE, text |-> disk'[p].text]
      BY <1>5 DEF Content
    <3>3. \E q : Content(disk', p) = Content(disk, q)
      <4> DEFINE from == Resolve(Tree, j.rel)
                 to == IF j.kind = "rename" THEN Resolve(Tree, j.to) ELSE from
      <4>1. ChangedContent(j, from, to)
        BY <2>2, ChangeTreeContent
      <4> HIDE DEF from, to
      <4> QED BY <3>1, <3>2, <4>1 DEF ChangedContent, Absent
    <3>4. PICK q : Content(disk', p) = Content(disk, q)
      BY <3>3
    <3>5. IsFile(disk, q) /\ disk[q].text = disk'[p].text
      BY <3>2, <3>4 DEF Content, Absent
    <3>6. Fits("disk", disk[q].text)
      BY <3>5, FilesFit
    <3> QED BY <3>5, <3>6
  <2> QED BY <2>1, <2>2
<1>6. checked' = checked /\ (clobbered => clobbered')
  BY DEF ChangeTree
<1>7. Fits(a, call'[a].text)
  BY <1>4, EmptyFits
<1> QED BY <1>0, <1>3, <1>4, <1>5, <1>6, <1>7, CallLog

\* A file that is opened is empty.
LEMMA OpenLog ==
  ASSUME LogInv, IndInv, NEW a \in Actors, Open(a) PROVE LogInv'
<1>0. Calls /\ ProjectTree(disk)
  BY IndInvGives
<1>1. CASE ~CanWrite(disk, Path(a))
  BY <1>0, <1>1, RefuseLog DEF Open
<1>2. CASE CanWrite(disk, Path(a))
  <2> DEFINE p == Landing(disk, Path(a))
             held == Content(disk, p)
  <2>1. /\ DOMAIN call' = Actors
        /\ call'[a] = [call[a] EXCEPT !.at = "put", !.path = p, !.held = held]
        /\ \A b \in Actors : b # a => call'[b] = call[b]
        /\ disk' = Opened(disk, Path(a)) /\ checked' = checked /\ (clobbered => clobbered')
    BY <1>0, <1>2 DEF Open, Calls, Clobbers
  <2>2. /\ DOMAIN call[a] = {"at", "job", "path", "text", "then", "held"}
        /\ GoodCall(a, call[a]) /\ call[a].at = "open" /\ call[a].path = Path(a)
        /\ Path(a) \in Names /\ Path(a) # <<>>
    BY <1>0, <1>2, PathIsSpot DEF Open, Calls, IsCall, At, Path, CanWrite
  <2>3. Path(a) \in {PlanPath, LogPath} => p = Path(a)
    BY <1>0, LandingIs DEF OwnPaths
  <2> HIDE DEF held, p
  <2>4. call'[a].text = call[a].text /\ call'[a].job = call[a].job /\ call'[a].path = p
    BY <2>1, <2>2
  <2>5. a = "agent" => call'[a].job.kind # "phase"
    BY <2>4 DEF LogInv, Kind
  <2>6. Fits(a, call'[a].text)
    BY <2>4 DEF LogInv
  <2>7. ASSUME NEW q, IsFile(disk', q) PROVE Fits("disk", disk'[q].text)
    <3>1. Content(disk', q) = IF q = p THEN [there |-> TRUE, text |-> <<>>]
                              ELSE Content(disk, q)
      BY <1>0, <2>1, <2>2, OpenedContent DEF p
    <3>2. Content(disk', q) = [there |-> TRUE, text |-> disk'[q].text]
      BY <2>7 DEF Content
    <3>3. disk'[q].text = <<>> \/ (IsFile(disk, q) /\ disk'[q].text = disk[q].text)
      BY <3>1, <3>2 DEF Content, Absent
    <3> QED BY <3>3, EmptyFits, FilesFit
  <2>8. call'[a].job.kind = "phase" => call'[a].job = call[a].job /\ call'[a].path = call[a].path
    BY <2>2, <2>3, <2>4 DEF GoodCall
  <2> QED BY <1>0, <2>1, <2>5, <2>6, <2>7, <2>8, CallLog
<1> QED BY <1>1, <1>2

\* A call that ends after a failure, and one that waits for nothing.
LEMMA PutFailsLog ==
  ASSUME LogInv, Calls, NEW a \in Actors, PutFails(a) PROVE LogInv'
<1>1. /\ DOMAIN call' = Actors /\ call'[a] = Idle /\ \A b \in Actors : b # a => call'[b] = call[b]
      /\ disk' = disk /\ checked' = checked /\ clobbered' = clobbered
  BY DEF PutFails, AfterFailure, Calls
<1>2. Idle.text = <<>> /\ Idle.job.kind # "phase"
  BY DEF Idle
<1>3. Fits(a, Idle.text)
  BY <1>2, EmptyFits
<1> QED BY <1>1, <1>2, <1>3, FilesFit, CallLog

\* After a store the line of the phase is due where its box was checked, and no
\* longer due where it was stored.
LEMMA PutLoosens ==
  ASSUME LogInv, Calls, NEW a \in Actors, Put(a)
  PROVE  /\ Loosens /\ Kind("agent")' # "phase"
         /\ a = "user" => \A n \in DOMAIN Numbers :
                             Count(checked, n) + Due(n)' <= Count(checked', n)
         /\ \A b \in Actors : call'[b].text \in {call[b].text, <<>>}
<1>0. Actors = {"user", "agent"}
  BY DEF Actors
<1>1. /\ DOMAIN call' = Actors /\ call'[a] = AfterPut(call[a])
      /\ \A b \in Actors : b # a => call'[b] = call[b]
      /\ clobbered => clobbered'
  BY DEF Put, Calls, Clobbers
<1>2. IsCall(call[a]) /\ GoodCall(a, call[a]) /\ call[a].at = "put"
  BY DEF Calls, At, Put
<1>3. LogPath # NoPath
  <2>1. Inside(LogPath)
    BY JobsAssumption DEF OwnPaths
  <2>2. ~Inside(NoPath)
    BY DEF Inside, NoPath
  <2> QED BY <2>1, <2>2
<1>4. CASE call[a].then = "log"
  <2> DEFINE m == call[a].job.number
  <2>1. /\ call[a].job.kind = "phase" /\ call[a].path = PlanPath /\ call[a].job \in AllJobs
    BY <1>2, <1>4 DEF GoodCall
  <2>2. a = "user" /\ m \in DOMAIN Numbers
    BY <1>0, <2>1, JobsAssumption DEF LogInv, Kind
  <2>3. /\ call'[a].text = <<>> /\ call'[a].job = call[a].job /\ call'[a].path = LogPath
    BY <1>1, <1>4 DEF AfterPut, Idle
  <2>4. checked' = Append(checked, m)
    BY <1>4 DEF Put
  <2>5. \A n : Due(n) = 0 /\ Due(n)' = IF n = m THEN 1 ELSE 0
    <3>1. PlanPath # LogPath
      BY JobsAssumption
    <3> QED BY <2>1, <2>2, <2>3, <3>1 DEF Due, Kind, Path
  <2> HIDE DEF m
  <2>6. checked' \in Seq(DOMAIN Numbers)
    BY <2>2, <2>4, AppendProperties DEF LogInv
  <2>7. \A n : /\ Count(checked', n) = Count(checked, n) + (IF n = m THEN 1 ELSE 0)
               /\ Count(checked, n) \in Nat
    <3>1. IsText(checked)
      BY SeqIsText DEF LogInv
    <3> QED BY <2>4, <3>1, CountAppend, CountType
  <2>8. \A n : /\ Count(checked, n) <= Count(checked', n)
               /\ Count(checked, n) + Due(n)' <= Count(checked', n)
               /\ Count(checked, n) + Due(n)' <= Count(checked', n) + Due(n)
    BY <2>5, <2>7
  <2>9. Kind("agent")' # "phase"
    <3>1. call'["agent"] = call["agent"]
      BY <1>0, <1>1, <2>2
    <3> QED BY <3>1 DEF Kind, LogInv
  <2> QED BY <1>1, <2>2, <2>3, <2>5, <2>6, <2>8, <2>9 DEF Loosens
<1>5. CASE call[a].then # "log"
  <2>1. /\ call'[a].text = <<>> /\ call'[a].job.kind # "phase" /\ call'[a].path = NoPath
    <3>1. call[a].then \in {"end", "load"}
      BY <1>2, <1>5 DEF IsCall
    <3> QED BY <1>1, <3>1 DEF AfterPut, Idle
  <2>2. checked' = checked
    BY <1>5 DEF Put
  <2>3. a = "user" => \A n : Due(n)' = 0
    BY <2>1 DEF Due, Kind
  <2>4. a = "agent" => \A n : Due(n)' = Due(n)
    <3>1. a = "agent" => call'["user"] = call["user"]
      BY <1>0, <1>1
    <3> QED BY <3>1 DEF Due, Kind, Path
  <2>5. \A n : Due(n)' \in {0, Due(n)} /\ (a = "user" => Due(n)' = 0)
    BY <1>0, <2>3, <2>4
  <2>6. Loosens
    BY <1>1, <2>2, <2>5, DueIs DEF Loosens, LogInv
  <2>7. a = "user" => \A n \in DOMAIN Numbers : Count(checked, n) + Due(n)' <= Count(checked', n)
    BY <2>2, <2>5, DueIs
  <2>8. Kind("agent")' # "phase"
    <3>1. a = "user" => call'["agent"] = call["agent"]
      BY <1>0, <1>1
    <3> QED BY <1>0, <2>1, <3>1 DEF Kind, LogInv
  <2> QED BY <1>1, <2>1, <2>6, <2>7, <2>8
<1> QED BY <1>4, <1>5

\* What is stored fits the file: alone unless somebody ran into the call, or else
\* followed by the rest of a longer text.
LEMMA StoredFits ==
  ASSUME LogInv, IndInv, NEW a \in Actors, Put(a), NEW p, p = Path(a), IsFile(disk, p)
  PROVE  Fits("disk", disk[p].text)'
<1> DEFINE t == call[a].text
           old == disk[p].text
<1>1. /\ Loosens
      /\ a = "user" => \A n \in DOMAIN Numbers : Count(checked, n) + Due(n)' <= Count(checked', n)
  BY IndInvGives, PutLoosens
<1>2. Fits(a, t) /\ Fits("disk", old)
  BY FilesFit DEF LogInv
<1>3. IsText(t) /\ IsText(old) /\ IsLines(t) /\ IsLines(old)
  BY <1>2, FitsIsText
<1> DEFINE tail == SubSeq(old, Len(t) + 1, Len(old))
           x == IF old = <<>> THEN t ELSE t \o tail
<1>4. disk'[p].text = x
  BY DEF Put, Stored, File, IsFile, Exists
<1>5. ~clobbered' => x = t
  <2>1. ~clobbered' => ~clobbered /\ call[a].at = "put"
    BY DEF Put, At, Clobbers
  <2>2. ~clobbered' => Content(disk, p) = [there |-> TRUE, text |-> <<>>]
    BY <2>1 DEF IndInv, TextInv, GoodText, Path
  <2>3. Content(disk, p) = [there |-> TRUE, text |-> old]
    BY DEF Content
  <2> HIDE DEF old, t
  <2> QED BY <2>2, <2>3
<1>6. IsText(tail) /\ Range(tail) \subseteq Range(old)
  <2>1. Len(t) \in Nat /\ Len(old) \in Nat /\ old \in Seq(Range(old))
    BY <1>3, TextIs DEF IsText
  <2>2. tail \in Seq(Range(old))
    <3> HIDE DEF t, old
    <3> QED BY <2>1
  <2> HIDE DEF tail, old
  <2> QED BY <2>2, SeqIsText
<1> HIDE DEF tail, t, old
<1>7. IsText(x) /\ Range(x) \subseteq Range(t) \cup Range(old)
  <2>1. IsText(t \o tail) /\ Range(t \o tail) = Range(t) \cup Range(tail)
    BY <1>3, <1>6, CountConcat
  <2> QED BY <1>3, <1>6, <2>1
<1> HIDE DEF x
<1>8. ASSUME NEW n \in Recorded
      PROVE  /\ Matches(x, LogLine(n)) # {} => Matches(checked', n) # {}
             /\ ~clobbered' => Count(x, LogLine(n)) + Due(n)' <= Count(checked', n)
  <2>1. n \in DOMAIN Numbers
    BY DEF Recorded
  <2>2. Matches(x, LogLine(n)) # {} =>
           Matches(t, LogLine(n)) # {} \/ Matches(old, LogLine(n)) # {}
    BY <1>3, <1>7, CountType
  <2>3. Matches(x, LogLine(n)) # {} => Matches(checked', n) # {}
    BY <1>1, <1>2, <2>1, <2>2, LooseCounts DEF Fits
  <2>4. ASSUME ~clobbered' PROVE Count(x, LogLine(n)) + Due(n)' <= Count(checked', n)
    <3>1. x = t /\ ~clobbered
      BY <1>1, <1>5, <2>4 DEF Loosens
    <3>2. Count(t, LogLine(n)) + (IF a = "user" THEN 0 ELSE Due(n)) <= Count(checked, n)
      BY <1>2, <3>1 DEF Fits
    <3>3. /\ Count(t, LogLine(n)) \in Nat /\ Count(checked, n) \in Nat /\ Due(n) \in {0, 1}
          /\ Count(checked', n) \in Nat /\ Due(n)' \in {0, 1}
          /\ Count(checked, n) + Due(n)' <= Count(checked', n) + Due(n)
      BY <1>1, <1>3, <2>1, CountType, DueIs, LooseCounts DEF Loosens
    <3>4. CASE a = "user"
      <4>1. Count(checked, n) + Due(n)' <= Count(checked', n)
        BY <1>1, <2>1, <3>4
      <4> QED BY <3>1, <3>2, <3>3, <3>4, <4>1
    <3>5. CASE a # "user"
      BY <3>1, <3>2, <3>3, <3>5
    <3> QED BY <3>4, <3>5
  <2> QED BY <2>3, <2>4
<1>9. IsLines(x)
  BY <1>3, <1>7 DEF IsLines
<1> QED BY <1>4, <1>8, <1>9 DEF Fits

\* A store keeps the invariant.
LEMMA PutLog ==
  ASSUME LogInv, IndInv, NEW a \in Actors, Put(a) PROVE LogInv'
<1>1. /\ Loosens /\ Kind("agent")' # "phase"
      /\ \A b \in Actors : call'[b].text \in {call[b].text, <<>>}
  BY IndInvGives, PutLoosens
<1>2. \A b \in Actors : Fits(b, call'[b].text)
  BY <1>1, EmptyFits DEF LogInv
<1>3. ASSUME NEW p \in DOMAIN disk', IsFile(disk', p) PROVE Fits("disk", disk[p].text)'
  <2>1. CASE IsFile(disk, Path(a)) /\ p = Path(a)
    BY <2>1, StoredFits
  <2>2. CASE ~(IsFile(disk, Path(a)) /\ p = Path(a))
    <3>1. p \in DOMAIN disk /\ disk'[p] = disk[p]
      BY <2>2 DEF Put, Stored
    <3>2. IsFile(disk, p)
      BY <1>3, <3>1 DEF IsFile, Exists
    <3>3. Fits("disk", disk'[p].text)
      BY <3>1, <3>2, FilesFit
    <3> QED BY <1>1, <3>3, FileStillFits
  <2> QED BY <2>1, <2>2
<1> QED BY <1>1, <1>2, <1>3, LooseLog

\* A stop ends every call, and what was due with it.
LEMMA StopLog ==
  ASSUME LogInv, Stop PROVE LogInv'
<1>1. /\ call' = [a \in Actors |-> Idle] /\ disk' = disk
      /\ checked' = checked /\ clobbered' = clobbered
  BY DEF Stop
<1>2. Actors = {"user", "agent"} /\ Idle.text = <<>> /\ Idle.job.kind # "phase"
  BY DEF Actors, Idle
<1>3. Kind("agent")' # "phase" /\ \A n : Due(n)' = 0
  BY <1>1, <1>2 DEF Kind, Due
<1>4. Loosens
  BY <1>1, <1>3, DueIs DEF Loosens, LogInv
<1>5. \A a \in Actors : Fits(a, call'[a].text)
  BY <1>1, <1>2, EmptyFits
<1>6. \A p \in DOMAIN disk' : IsFile(disk', p) => Fits("disk", disk[p].text)'
  BY <1>1, <1>4, FilesFit, FileStillFits
<1> QED BY <1>3, <1>4, <1>5, <1>6, LooseLog

\* A step that leaves files, calls and histories alone.
LEMMA IdleStepLog ==
  ASSUME LogInv, UNCHANGED <<disk, call, checked, clobbered>> PROVE LogInv'
<1>1. \A n : Due(n)' = Due(n)
  BY DEF Due, Kind, Path
<1>2. Loosens
  BY <1>1, DueIs DEF Loosens, LogInv
<1>3. Kind("agent")' # "phase" /\ \A a \in Actors : Fits(a, call'[a].text)
  BY DEF LogInv, Kind
<1>4. \A p \in DOMAIN disk' : IsFile(disk', p) => Fits("disk", disk[p].text)'
  BY <1>2, FilesFit, FileStillFits
<1> QED BY <1>2, <1>3, <1>4, LooseLog

\* Every step keeps the log's invariant.
LEMMA NextLog ==
  ASSUME IndInv, IndInv', LogInv, [Next]_vars PROVE LogInv'
<1>0. Calls /\ ProjectTree(disk)
  BY IndInvGives
<1>1. ASSUME NEW a \in Actors, Call(a) PROVE LogInv'
  <2>1. ASSUME NEW j \in JobsOf(a), BeginWrite(a, j) \/ ChangeTree(a, j) PROVE LogInv'
    BY <1>0, <2>1, BeginWriteLog, ChangeTreeLog
  <2> QED BY <1>0, <1>1, <2>1, ReadForEditLog, ReadForPhaseLog, ReadForLogLog, OpenLog, PutLog,
             PutFailsLog DEF Call
<1>2. CASE \E planning \in BOOLEAN : BeginTurn(planning)
  BY <1>2, IdleStepLog DEF BeginTurn, ghosts
<1>3. CASE EndTurn
  BY <1>3, IdleStepLog DEF EndTurn, ghosts
<1>4. CASE UNCHANGED vars
  BY <1>4, IdleStepLog DEF vars, ghosts
<1> QED BY <1>0, <1>1, <1>2, <1>3, <1>4, StopLog, LoadAgainLog DEF Next

\* At the start nothing is checked or due, and the lines of the files were written
\* by hand.
LEMMA InitLog == Init => LogInv
<1> SUFFICES ASSUME Init PROVE LogInv
  OBVIOUS
<1>1. /\ disk = Tree /\ checked = <<>> /\ call = [a \in Actors |-> Idle]
      /\ Actors = {"user", "agent"} /\ Idle.text = <<>> /\ Idle.job.kind # "phase"
  BY DEF Init, Actors, Idle
<1>2. /\ Kind("agent") # "phase" /\ \A n : Due(n) = 0
  BY <1>1 DEF Kind, Due
<1>3. checked \in Seq(DOMAIN Numbers) /\ \A n : Matches(checked, n) = {} /\ Count(checked, n) = 0
  BY <1>1, CountEmpty
<1>4. ASSUME NEW who, NEW t, IsLines(t), \A n \in Recorded : LogLine(n) \notin Range(t)
      PROVE  Fits(who, t)
  <2>1. \A n \in Recorded : Matches(t, LogLine(n)) = {} /\ Count(t, LogLine(n)) = 0
    BY <1>4, CountType DEF IsLines
  <2> QED BY <1>2, <1>3, <1>4, <2>1 DEF Fits
<1>5. ASSUME NEW p \in DOMAIN disk, IsFile(disk, p) PROVE Fits("disk", disk[p].text)
  <2>1. IsLines(Tree[p].text)
    BY <1>1, <1>5, TreeAssumption
  <2>2. \A n \in Recorded : LogLine(n) \notin Range(Tree[p].text)
    BY <1>1, <1>5 DEF Recorded, Written
  <2> QED BY <1>1, <1>4, <2>1, <2>2
<1>6. \A a \in Actors : Fits(a, call[a].text)
  <2>1. Range(<<>>) = {}
    BY DEF Range
  <2> QED BY <1>1, <1>4, <2>1, HeadLines
<1> QED BY <1>2, <1>3, <1>5, <1>6 DEF LogInv

\* The invariant says of the log what is claimed of it.
LEMMA LogGives == LogInv => RecordedPhasesWereChecked
<1> SUFFICES ASSUME LogInv, IsFile(disk, LogPath), NEW n \in Recorded
             PROVE  /\ Matches(disk[LogPath].text, LogLine(n)) # {} => Matches(checked, n) # {}
                    /\ ~clobbered => Count(disk[LogPath].text, LogLine(n)) <= Count(checked, n)
  BY DEF RecordedPhasesWereChecked
<1>1. Fits("disk", disk[LogPath].text)
  BY FilesFit
<1>2. Count(disk[LogPath].text, LogLine(n)) \in Nat
  BY <1>1, CountType, FitsIsText
<1> QED BY <1>1, <1>2, DueIs DEF Fits

\* A line of the log that nobody wrote by hand is of a phase whose box was checked,
\* and no phase has more lines than times it was, unless two calls ran into each
\* other: whatever files and calls there are, and wherever the process stops or a
\* write fails.
THEOREM RecordedPhasesWereCheckedHolds == Spec => []RecordedPhasesWereChecked
<1>1. Init => LogInv
  BY InitLog
<1>2. IndInv /\ IndInv' /\ LogInv /\ [Next]_vars => LogInv'
  BY NextLog
<1>3. LogInv => RecordedPhasesWereChecked
  BY LogGives
<1> QED BY <1>1, <1>2, <1>3, InvariantHolds, PTL DEF Spec

-----------------------------------------------------------------------------
(* The panel.                                                               *)

\* A step that sends the panel nothing, and after which it has what the file has
\* only if it had it before and the file is as it was.
PanelStays ==
    /\ shown' = [plan |-> shown.plan, current |-> shown'.current, fixed |-> shown.fixed]
    /\ shown'.current \in BOOLEAN
    /\ turn'.planning /\ turn'.written => turn.planning /\ turn.written
    /\ \A a \in Actors : call'[a].job.kind = "fix" =>
          call[a].job.kind = "fix" /\ call'[a].text = call[a].text
    /\ shown'.current /\ ~clobbered' =>
          shown.current /\ ~clobbered /\ Content(disk', PlanPath) = Content(disk, PlanPath)

\* Such a step keeps the invariant.
LEMMA StaysPanel == ASSUME PanelInv, PanelStays PROVE PanelInv'
<1>1. shown'.plan = shown.plan /\ shown'.fixed = shown.fixed
  BY DEF PanelStays
<1>2. /\ (shown = [plan |-> shown.plan, current |-> shown.current, fixed |-> shown.fixed])'
      /\ shown'.current \in BOOLEAN /\ shown'.fixed \in BOOLEAN
      /\ GoodPhases(shown'.plan.phases)
      /\ turn'.planning /\ turn'.written => Done(shown'.plan) = {}
  <2>1. shown' = [plan |-> shown'.plan, current |-> shown'.current, fixed |-> shown'.fixed]
    BY <1>1 DEF PanelStays
  <2> QED BY <1>1, <2>1 DEF PanelInv, PanelStays
<1>3. ASSUME NEW a \in Actors, call'[a].job.kind = "fix"
      PROVE  a = "agent" /\ shown'.fixed /\ call'[a].text = RenderPlan(shown'.plan)
  BY <1>1, <1>3 DEF PanelInv, PanelStays, Kind
<1>4. ASSUME shown'.current, ~clobbered', shown'.fixed => Storable(shown'.plan)
      PROVE  SamePhases(FilePhases(disk'), shown'.plan.phases)
  <2>1. SamePhases(FilePhases(disk), shown.plan.phases)
    BY <1>1, <1>4 DEF PanelInv, PanelStays
  <2>2. FilePhases(disk') = FilePhases(disk)
    BY <1>4 DEF FilePhases, PanelStays
  <2> QED BY <1>1, <2>1, <2>2
<1> QED BY <1>2, <1>3, <1>4 DEF PanelInv, Kind

\* A step that leaves the panel, its file and the turn alone, of one call that is
\* not about boxes afterwards.
LEMMA QuietPanel ==
  ASSUME PanelInv, shown' = shown, turn' = turn, disk' = disk, clobbered' = clobbered,
         NEW a \in Actors, \A b \in Actors : b # a => call'[b] = call[b],
         call'[a].job.kind # "fix"
  PROVE  PanelInv'
<1>1. PanelStays
  BY DEF PanelInv, PanelStays
<1> QED BY <1>1, StaysPanel

\* A call that ends without a change.
LEMMA RefusePanel ==
  ASSUME PanelInv, Calls, NEW a \in Actors, Refuse(a) PROVE PanelInv'
<1>1. call'[a] = Idle /\ \A b \in Actors : b # a => call'[b] = call[b]
  BY DEF Refuse, Calls
<1>2. Idle.job.kind # "fix"
  BY DEF Idle
<1>3. shown' = shown /\ turn' = turn /\ disk' = disk /\ clobbered' = clobbered
  BY DEF Refuse, ghosts
<1> QED BY <1>1, <1>2, <1>3, QuietPanel

\* A call that reads is not about boxes.
LEMMA ProceedPanel ==
  ASSUME PanelInv, Calls, NEW a \in Actors, At(a, "read"), NEW ok, NEW text, Proceed(a, ok, text)
  PROVE  PanelInv'
<1>1. CASE ~ok
  BY <1>1, RefusePanel DEF Proceed
<1>2. CASE ok
  <2>1. /\ call' = [call EXCEPT ![a].at = "open", ![a].text = text]
        /\ shown' = shown /\ turn' = turn /\ disk' = disk /\ clobbered' = clobbered
    BY <1>2 DEF Proceed, ghosts
  <2>2. /\ \A b \in Actors : b # a => call'[b] = call[b]
        /\ call'[a] = [call[a] EXCEPT !.at = "open", !.text = text]
    BY <2>1 DEF Calls
  <2>3. DOMAIN call[a] = {"at", "job", "path", "text", "then", "held"}
    BY DEF Calls, IsCall
  <2>4. call'[a].job = call[a].job
    BY <2>2, <2>3
  <2>5. call[a].job.kind \in {"edit", "phase"}
    BY DEF Calls, GoodCall, At
  <2> QED BY <2>1, <2>2, <2>4, <2>5, QuietPanel
<1> QED BY <1>1, <1>2

\* Neither is one that begins.
LEMMA BeginWritePanel ==
  ASSUME PanelInv, Calls, NEW a \in Actors, NEW j, BeginWrite(a, j) PROVE PanelInv'
<1> DEFINE p == Resolve(disk, j.rel)
           c == [Idle EXCEPT
             !.job = j, !.path = p,
             !.at = IF j.kind = "write" THEN "open" ELSE "read",
             !.text = IF j.kind = "write" THEN j.text ELSE <<>>,
             !.then = IF j.kind = "phase" /\ j.done THEN "log" ELSE AfterCall(a, p)]
<1>1. /\ call'[a] = c /\ \A b \in Actors : b # a => call'[b] = call[b]
      /\ shown' = shown /\ turn' = turn /\ disk' = disk /\ clobbered' = clobbered
      /\ j.kind \in {"write", "edit", "phase"}
  BY DEF BeginWrite, Calls, ghosts
<1>2. c.job = j
  BY DEF Idle
<1> HIDE DEF c, p
<1> QED BY <1>1, <1>2, QuietPanel

\* The file of the plan is as it was unless it, or a directory it is in, is moved,
\* removed or made.
LEMMA ChangeTreePanel ==
  ASSUME PanelInv, IndInv, NEW a \in Actors, NEW j, ChangeTree(a, j) PROVE PanelInv'
<1>0. Calls
  BY IndInvGives
<1> DEFINE from == Resolve(disk, j.rel)
           to == IF j.kind = "rename" THEN Resolve(disk, j.to) ELSE from
<1>1. disk' # disk => ChangedContent(j, from, to)
  BY ChangeTreeContent
<1>2. /\ shown' = [shown EXCEPT !.current =
                     @ /\ (disk' # disk => ~Touches(from) /\ ~Touches(to))]
      /\ turn' = turn /\ (clobbered => clobbered')
  BY DEF ChangeTree
<1>3. PICK at : call' = [call EXCEPT ![a].at = at]
  BY DEF ChangeTree
<1>4. call[a] = Idle
  BY <1>0 DEF ChangeTree, Takes, Calls, GoodCall, At
<1>5. /\ call'[a].job.kind # "fix" /\ \A b \in Actors : b # a => call'[b] = call[b]
  <2>1. call'[a] = [Idle EXCEPT !.at = at] /\ \A b \in Actors : b # a => call'[b] = call[b]
    BY <1>0, <1>3, <1>4 DEF Calls
  <2>2. [Idle EXCEPT !.at = at].job.kind # "fix"
    BY DEF Idle
  <2> QED BY <2>1, <2>2
<1> HIDE DEF from, to
<1>7. /\ shown' = [plan |-> shown.plan, current |-> shown'.current, fixed |-> shown.fixed]
      /\ shown'.current \in BOOLEAN
      /\ shown'.current => shown.current /\ (disk' # disk => ~Touches(from) /\ ~Touches(to))
  <2> DEFINE stays == disk' # disk => ~Touches(from) /\ ~Touches(to)
  <2>1. shown' = [shown EXCEPT !.current = @ /\ stays]
    BY <1>2
  <2> HIDE DEF stays
  <2>2. /\ shown' = [plan |-> shown.plan, current |-> shown.current /\ stays, fixed |-> shown.fixed]
    BY <2>1 DEF PanelInv
  <2>3. /\ shown' = [plan |-> shown.plan, current |-> shown'.current, fixed |-> shown.fixed]
        /\ shown'.current = (shown.current /\ stays)
    BY <2>2
  <2> QED BY <2>3 DEF PanelInv, stays
<1>8. ASSUME shown'.current PROVE Content(disk', PlanPath) = Content(disk, PlanPath)
  <2>1. CASE disk' = disk
    BY <2>1
  <2>2. CASE disk' # disk
    <3>1. ~IsPrefix(from, PlanPath) /\ ~IsPrefix(to, PlanPath)
      BY <1>7, <1>8, <2>2 DEF Touches
    <3>2. PlanPath \in Names
      BY JobsAssumption DEF OwnPaths, Names
    <3> QED BY <1>1, <2>2, <3>1, <3>2 DEF ChangedContent
  <2> QED BY <2>1, <2>2
<1>9. PanelStays
  BY <1>2, <1>5, <1>7, <1>8 DEF PanelStays
<1> QED BY <1>9, StaysPanel

\* What StalePanel does to what the panel has.
LEMMA StalePanelIs ==
  ASSUME PanelInv, NEW p \in Names, StalePanel(p)
  PROVE  /\ shown' = [plan |-> shown.plan, current |-> shown'.current, fixed |-> shown.fixed]
         /\ shown'.current \in BOOLEAN
         /\ shown'.current => shown.current /\ p # PlanPath
<1> DEFINE stays == ~Touches(p)
<1>1. shown' = [shown EXCEPT !.current = @ /\ stays]
  BY DEF StalePanel
<1>2. stays => p # PlanPath
  BY PrefixReflexive DEF Touches
<1> HIDE DEF stays
<1>3. shown' = [plan |-> shown.plan, current |-> shown.current /\ stays, fixed |-> shown.fixed]
  BY <1>1 DEF PanelInv
<1>4. /\ shown' = [plan |-> shown.plan, current |-> shown'.current, fixed |-> shown.fixed]
      /\ shown'.current = (shown.current /\ stays)
  BY <1>3
<1> QED BY <1>2, <1>4 DEF PanelInv

\* A file that is opened is another than the plan, or the panel is out of date.
LEMMA OpenPanel ==
  ASSUME PanelInv, IndInv, NEW a \in Actors, Open(a) PROVE PanelInv'
<1>0. Calls /\ ProjectTree(disk)
  BY IndInvGives
<1>1. CASE ~CanWrite(disk, Path(a))
  BY <1>0, <1>1, RefusePanel DEF Open
<1>2. CASE CanWrite(disk, Path(a))
  <2> DEFINE p == Landing(disk, Path(a))
             held == Content(disk, p)
  <2>1. /\ call'[a] = [call[a] EXCEPT !.at = "put", !.path = p, !.held = held]
        /\ \A b \in Actors : b # a => call'[b] = call[b]
        /\ disk' = Opened(disk, Path(a)) /\ turn' = turn /\ (clobbered => clobbered')
        /\ StalePanel(p) /\ Path(a) # <<>> /\ Path(a) # NoPath
    BY <1>0, <1>2 DEF Open, Calls, Clobbers, CanWrite
  <2>2. DOMAIN call[a] = {"at", "job", "path", "text", "then", "held"}
    BY <1>0 DEF Calls, IsCall
  <2>3. Path(a) \in Names
    BY <1>0, <2>1, PathIsSpot
  <2>4. p \in Names
    BY <1>0, <2>3, LandingIs, LinkIs
  <2> HIDE DEF held, p
  <2>5. call'[a].text = call[a].text /\ call'[a].job = call[a].job
    BY <2>1, <2>2
  <2>6. /\ shown' = [plan |-> shown.plan, current |-> shown'.current, fixed |-> shown.fixed]
        /\ shown'.current \in BOOLEAN
        /\ shown'.current => shown.current /\ p # PlanPath
    BY <2>1, <2>4, StalePanelIs
  <2>7. shown'.current => Content(disk', PlanPath) = Content(disk, PlanPath)
    BY <1>0, <2>1, <2>3, <2>6, OpenedContent DEF p
  <2>8. PanelStays
    BY <2>1, <2>5, <2>6, <2>7 DEF PanelStays
  <2> QED BY <2>8, StaysPanel
<1> QED BY <1>1, <1>2

\* After a store comes nothing that is about boxes.
LEMMA AfterPutKind ==
  ASSUME NEW a \in Actors, NEW c, IsCall(c), GoodCall(a, c) PROVE AfterPut(c).job.kind # "fix"
<1>1. CASE c.then = "end"
  BY <1>1 DEF AfterPut, Idle
<1>2. CASE c.then = "log"
  <2>1. AfterPut(c) = [Idle EXCEPT !.at = "read", !.job = c.job, !.path = LogPath]
    BY <1>2 DEF AfterPut
  <2>2. AfterPut(c).job = c.job
    BY <2>1, IdleFields DEF Idle
  <2> QED BY <1>2, <2>2 DEF GoodCall
<1>3. CASE c.then = "load"
  BY <1>3 DEF AfterPut, Idle
<1> QED BY <1>1, <1>2, <1>3 DEF IsCall

\* A plan that is stored is loaded as the panel has it, if it can be.
LEMMA StoredIsShown ==
  ASSUME NEW plan, GoodPhases(plan.phases), Storable(plan), NEW t,
         Content(t, PlanPath) = [there |-> TRUE, text |-> RenderPlan(plan)]
  PROVE  SamePhases(FilePhases(t), plan.phases)
<1>1. PICK k \in Nat : DOMAIN plan.phases = 1 .. k /\ PhasesAre(plan.phases, k)
  BY TextIs DEF GoodPhases, PhasesAre
<1>2. IsText(RenderPlan(plan))
  BY <1>1, RenderedIs
<1>3. Head2M(RenderPlan(plan)) = RenderPlan(plan)
  BY <1>2, TextIs, MaxReadAssumption DEF Storable, Head2M
<1>4. FilePhases(t) = ParsePlan(RenderPlan(plan)).phases
  BY <1>3 DEF FilePhases
<1>5. FilePhases(t) = [i \in 1 .. k |-> [done |-> plan.phases[i].done, text |-> plan.phases[i].text,
                                         todos |-> <<>>]]
  BY <1>1, <1>4, PhasesBack DEF Storable
<1> QED BY <1>1, <1>5 DEF SamePhases

\* A store leaves the plan as it was, puts the panel out of date, or is the one the
\* panel was sent.
LEMMA PutPanel ==
  ASSUME PanelInv, IndInv, NEW a \in Actors, Put(a) PROVE PanelInv'
<1>0. Calls
  BY IndInvGives
<1>1. /\ call' = [call EXCEPT ![a] = AfterPut(@)] /\ turn' = turn /\ (clobbered => clobbered')
      /\ call[a].at = "put"
  BY DEF Put, Clobbers, At
<1>2. call'[a] = AfterPut(call[a]) /\ \A b \in Actors : b # a => call'[b] = call[b]
  BY <1>0, <1>1 DEF Calls
<1>3. call'[a].job.kind # "fix"
  BY <1>0, <1>2, AfterPutKind DEF Calls
<1>4. Path(a) \in Names
  <2>1. Path(a) # NoPath
    BY <1>0, <1>1 DEF Calls, GoodCall, Path
  <2> QED BY <1>0, <2>1, PathIsSpot
<1>5. ~clobbered' =>
        /\ ~clobbered
        /\ \A q : Content(disk', q) = IF q = Path(a) THEN [there |-> TRUE, text |-> call[a].text]
                                      ELSE Content(disk, q)
  BY PutIs
<1>6. CASE Kind(a) # "fix"
  <2>1. StalePanel(Path(a))
    BY <1>6 DEF Put
  <2>2. /\ shown' = [plan |-> shown.plan, current |-> shown'.current, fixed |-> shown.fixed]
        /\ shown'.current \in BOOLEAN
        /\ shown'.current => shown.current /\ Path(a) # PlanPath
    BY <1>4, <2>1, StalePanelIs
  <2>3. PanelStays
    BY <1>1, <1>2, <1>3, <1>5, <2>2 DEF PanelStays
  <2> QED BY <2>3, StaysPanel
<1>7. CASE Kind(a) = "fix"
  <2>1. /\ a = "agent" /\ shown.fixed /\ call[a].text = RenderPlan(shown.plan)
        /\ GoodPhases(shown.plan.phases)
    BY <1>7 DEF PanelInv
  <2>2. Path(a) = PlanPath
    <3>1. call[a].job.kind = "fix" /\ GoodCall(a, call[a])
      BY <1>0, <1>7 DEF Kind, Calls
    <3> QED BY <1>1, <3>1 DEF GoodCall, Path
  <2>3. shown' = [plan |-> shown.plan, current |-> TRUE, fixed |-> shown.fixed]
    <3>1. shown' = [shown EXCEPT !.current = TRUE]
      BY <1>7 DEF Put
    <3> QED BY <3>1 DEF PanelInv
  <2>4. /\ shown'.plan = shown.plan /\ shown'.current = TRUE /\ shown'.fixed = shown.fixed
        /\ shown' = [plan |-> shown'.plan, current |-> shown'.current, fixed |-> shown'.fixed]
    BY <2>3
  <2>5. ASSUME ~clobbered', Storable(shown.plan)
        PROVE  SamePhases(FilePhases(disk'), shown.plan.phases)
    <3>1. Content(disk', PlanPath) = [there |-> TRUE, text |-> RenderPlan(shown.plan)]
      BY <1>5, <2>1, <2>2, <2>5
    <3> QED BY <2>1, <2>5, <3>1, StoredIsShown
  <2>6. turn'.planning /\ turn'.written => Done(shown'.plan) = {}
    BY <1>1, <2>4 DEF PanelInv
  <2>7. ASSUME NEW b \in Actors, call'[b].job.kind = "fix"
        PROVE  b = "agent" /\ shown'.fixed /\ call'[b].text = RenderPlan(shown'.plan)
    BY <1>2, <1>3, <2>4, <2>7 DEF PanelInv, Kind
  <2>8. ASSUME ~clobbered', shown'.fixed => Storable(shown'.plan)
        PROVE  SamePhases(FilePhases(disk'), shown'.plan.phases)
    BY <2>1, <2>4, <2>5, <2>8
  <2>9. shown'.fixed \in BOOLEAN /\ GoodPhases(shown'.plan.phases)
    BY <2>1, <2>4 DEF PanelInv
  <2> QED BY <2>4, <2>6, <2>7, <2>8, <2>9 DEF PanelInv, Kind
<1> QED BY <1>6, <1>7

\* What is loaded has the phases of the file.
LEMMA LoadedIsFile ==
  ASSUME LogInv, PlanLoads(disk)
  PROVE  SamePhases(FilePhases(disk), LoadedPlan(disk).phases)
<1>1. CASE ~Exists(disk, PlanPath)
  <2>1. Content(disk, PlanPath).text = <<>>
    BY <1>1 DEF Content, Absent, IsFile
  <2>2. Head2M(<<>>) = <<>>
    BY CountHead, CountEmpty, MaxReadAssumption DEF Head2M
  <2>3. FilePhases(disk) = Phases(<<>>)
    BY <2>1, <2>2 DEF FilePhases, ParsePlan
  <2>4. DOMAIN Phases(<<>>) = {}
    <3> DEFINE kept == {i \in DOMAIN <<>> : <<>>[i].mark = "item" /\ <<>>[i].box # "none"}
    <3>1. kept = {}
      OBVIOUS
    <3> HIDE DEF kept
    <3>2. Cardinality(kept) = 0
      BY <3>1, FS_EmptySet
    <3>3. DOMAIN Selected(<<>>, kept) = {}
      BY <3>2 DEF Selected
    <3>4. DOMAIN Phases(<<>>) = DOMAIN Selected(<<>>, kept)
      BY DEF Phases, kept
    <3> QED BY <3>3, <3>4
  <2>5. LoadedPlan(disk).phases = <<>>
    BY <1>1 DEF LoadedPlan, NoPlan
  <2>6. DOMAIN <<>> = {}
    OBVIOUS
  <2> QED BY <2>3, <2>4, <2>5, <2>6 DEF SamePhases
<1>2. CASE Exists(disk, PlanPath)
  <2> DEFINE lines == ReadText(disk, PlanPath)
             todos == IF Exists(disk, TodosPath) THEN ReadText(disk, TodosPath) ELSE <<>>
  <2>1. IsFile(disk, PlanPath)
    BY <1>2 DEF PlanLoads, Readable
  <2>2. FilePhases(disk) = ParsePlan(lines).phases
    BY <2>1 DEF FilePhases, Content, ReadText
  <2>3. LoadedPlan(disk) = WithTodos(ParsePlan(lines), todos)
    BY <1>2 DEF LoadedPlan
  <2> HIDE DEF lines, todos
  <2> QED BY <2>2, <2>3, PlanIs DEF SamePhases
<1> QED BY <1>1, <1>2

\* What the panel is sent has the phases of the file, or is about to be written.
LEMMA LoadAgainPanel ==
  ASSUME PanelInv, IndInv, LogInv, LoadAgain PROVE PanelInv'
<1> DEFINE plan == LoadedPlan(disk)
           fix == PlanLoads(disk) /\ MustFix(plan)
           sent == IF fix THEN Unchecked(plan) ELSE plan
           c == [Idle EXCEPT !.at = "open", !.job = [kind |-> "fix"], !.path = PlanPath,
                             !.text = RenderPlan(Unchecked(plan))]
<1>0. Calls
  BY IndInvGives
<1>1. /\ call'["agent"] = (IF fix THEN c ELSE Idle)
      /\ \A b \in Actors : b # "agent" => call'[b] = call[b]
      /\ disk' = disk /\ clobbered' = clobbered /\ "agent" \in Actors
  BY <1>0 DEF LoadAgain, Calls, Actors
<1>2. Idle.job.kind # "fix"
  BY DEF Idle
<1>3. CASE ~PlanLoads(disk)
  <2>1. ~fix
    BY <1>3
  <2>2. shown' = shown /\ turn' = turn /\ call'["agent"] = Idle
    BY <1>1, <1>3 DEF LoadAgain
  <2> HIDE DEF fix, c, plan
  <2> QED BY <1>1, <1>2, <2>2, QuietPanel
<1>4. CASE PlanLoads(disk)
  <2>1. turn' = [turn EXCEPT !.written = TRUE]
    BY <1>4 DEF LoadAgain
  <2>2. turn'.planning = turn.planning
    BY <2>1 DEF IndInv, TypeOK
  <2>3. /\ shown' = [plan |-> sent, current |-> ~fix /\ ~InUse("agent", PlanPath), fixed |-> fix]
    BY <1>4 DEF LoadAgain
  <2>4. /\ shown'.plan = sent /\ shown'.fixed = fix /\ shown'.current \in BOOLEAN
        /\ shown'.current => ~fix
        /\ shown' = [plan |-> shown'.plan, current |-> shown'.current, fixed |-> shown'.fixed]
    <3> HIDE DEF fix, sent
    <3> QED BY <2>3
  <2>5. fix \in BOOLEAN /\ (fix <=> turn.planning /\ Done(plan) # {})
    BY <1>4 DEF MustFix
  <2>6. Loaded(plan)
    BY <1>4, LoadedPlanIs
  <2> DEFINE cleared == Unchecked(plan)
  <2>7. Loaded(cleared) /\ Done(cleared) = {}
    <3> HIDE DEF plan
    <3> QED BY <2>6, UncheckedLoaded
  <2>8. sent = IF fix THEN cleared ELSE plan
    OBVIOUS
  <2>9. fix => c.job.kind = "fix" /\ c.text = RenderPlan(cleared)
    BY DEF Idle
  <2>10. SamePhases(FilePhases(disk), plan.phases)
    BY <1>4, LoadedIsFile
  <2> HIDE DEF fix, sent, plan, cleared, c
  <2>11. GoodPhases(shown'.plan.phases)
    BY <2>4, <2>6, <2>7, <2>8 DEF Loaded
  <2>12. turn'.planning /\ turn'.written => Done(shown'.plan) = {}
    BY <2>2, <2>4, <2>5, <2>7, <2>8
  <2>13. ASSUME NEW b \in Actors, call'[b].job.kind = "fix"
         PROVE  b = "agent" /\ shown'.fixed /\ call'[b].text = RenderPlan(shown'.plan)
    <3>1. b = "agent"
      <4>1. b # "agent" => call[b].job.kind = "fix"
        BY <1>1, <2>13
      <4> QED BY <4>1 DEF PanelInv, Kind
    <3>2. fix
      BY <1>1, <1>2, <2>13, <3>1
    <3>3. call'[b] = c /\ sent = cleared
      BY <1>1, <2>8, <3>1, <3>2
    <3> QED BY <2>4, <2>9, <3>1, <3>2, <3>3
  <2>14. ASSUME shown'.current PROVE SamePhases(FilePhases(disk'), shown'.plan.phases)
    <3>1. ~fix /\ sent = plan
      BY <2>4, <2>8, <2>14
    <3> QED BY <1>1, <2>4, <2>10, <3>1
  <2>15. shown'.fixed \in BOOLEAN
    BY <2>4, <2>5
  <2> QED BY <2>4, <2>11, <2>12, <2>13, <2>14, <2>15 DEF PanelInv, Kind
<1> QED BY <1>3, <1>4

\* After a stop the panel has nothing.
LEMMA StopPanel ==
  ASSUME Stop PROVE PanelInv'
<1>1. /\ shown' = Nothing /\ turn' = NoTurn /\ call' = [a \in Actors |-> Idle]
  BY DEF Stop
<1>2. /\ Nothing = [plan |-> NoPlan, current |-> FALSE, fixed |-> FALSE]
      /\ NoPlan.phases = <<>> /\ NoTurn.written = FALSE /\ Idle.job.kind # "fix"
  BY DEF Nothing, NoPlan, NoTurn, Idle
<1>3. GoodPhases(<<>>)
  BY CountEmpty DEF GoodPhases
<1>4. GoodPhases(shown'.plan.phases)
  BY <1>1, <1>2, <1>3
<1>5. \A a \in Actors : call'[a].job.kind # "fix"
  BY <1>1, <1>2
<1>6. /\ shown' = [plan |-> shown'.plan, current |-> shown'.current, fixed |-> shown'.fixed]
      /\ shown'.current = FALSE /\ shown'.fixed = FALSE /\ turn'.written = FALSE
  BY <1>1, <1>2
<1> QED BY <1>4, <1>5, <1>6 DEF PanelInv, Kind

\* So it has at the start.
LEMMA InitPanel == Init => PanelInv
<1> SUFFICES ASSUME Init PROVE PanelInv
  OBVIOUS
<1>1. /\ shown = Nothing /\ turn = NoTurn /\ call = [a \in Actors |-> Idle]
  BY DEF Init
<1>2. /\ Nothing = [plan |-> NoPlan, current |-> FALSE, fixed |-> FALSE]
      /\ NoPlan.phases = <<>> /\ NoTurn.written = FALSE /\ Idle.job.kind # "fix"
  BY DEF Nothing, NoPlan, NoTurn, Idle
<1>3. GoodPhases(<<>>)
  BY CountEmpty DEF GoodPhases
<1>4. GoodPhases(shown.plan.phases)
  BY <1>1, <1>2, <1>3
<1>5. \A a \in Actors : call[a].job.kind # "fix"
  BY <1>1, <1>2
<1>6. /\ shown = [plan |-> shown.plan, current |-> shown.current, fixed |-> shown.fixed]
      /\ shown.current = FALSE /\ shown.fixed = FALSE /\ turn.written = FALSE
  BY <1>1, <1>2
<1> QED BY <1>4, <1>5, <1>6 DEF PanelInv, Kind

\* A step of the turn itself: the panel is sent nothing, and nothing is written.
LEMMA TurnPanel ==
  ASSUME PanelInv, UNCHANGED <<disk, call, shown, clobbered>>, turn' = turn \/ turn'.written = FALSE
  PROVE  PanelInv'
<1>1. PanelStays
  BY DEF PanelInv, PanelStays
<1> QED BY <1>1, StaysPanel

\* Every step keeps what the panel has in order.
LEMMA NextPanel ==
  ASSUME IndInv, LogInv, PanelInv, [Next]_vars PROVE PanelInv'
<1>0. Calls
  BY IndInvGives
<1>1. ASSUME NEW a \in Actors, Call(a) PROVE PanelInv'
  <2>1. ASSUME NEW j \in JobsOf(a), BeginWrite(a, j) \/ ChangeTree(a, j) PROVE PanelInv'
    BY <1>0, <2>1, BeginWritePanel, ChangeTreePanel
  <2>2. CASE ReadForEdit(a) \/ ReadForPhase(a) \/ ReadForLog(a)
    BY <1>0, <2>2, ProceedPanel DEF ReadForEdit, ReadForPhase, ReadForLog
  <2>3. CASE PutFails(a)
    <3>1. /\ call'[a] = Idle /\ \A b \in Actors : b # a => call'[b] = call[b]
          /\ shown' = shown /\ turn' = turn /\ disk' = disk /\ clobbered' = clobbered
      BY <1>0, <2>3 DEF PutFails, AfterFailure, Calls
    <3>2. Idle.job.kind # "fix"
      BY DEF Idle
    <3> QED BY <3>1, <3>2, QuietPanel
  <2> QED BY <1>1, <2>1, <2>2, <2>3, OpenPanel, PutPanel DEF Call
<1>2. ASSUME NEW planning \in BOOLEAN, BeginTurn(planning) PROVE PanelInv'
  <2>1. turn'.written = FALSE /\ UNCHANGED <<disk, call, shown, clobbered>>
    BY <1>2 DEF BeginTurn, ghosts
  <2> QED BY <2>1, TurnPanel
<1>3. CASE EndTurn
  <2>1. turn'.written = FALSE /\ UNCHANGED <<disk, call, shown, clobbered>>
    BY <1>3 DEF EndTurn, NoTurn, ghosts
  <2> QED BY <2>1, TurnPanel
<1>4. CASE UNCHANGED vars
  BY <1>4, TurnPanel DEF vars, ghosts
<1> QED BY <1>1, <1>2, <1>3, <1>4, StopPanel, LoadAgainPanel DEF Next

\* The invariant says of the panel what is claimed of it.
LEMMA PanelGives == PanelInv => PanelShowsThePlan
<1> SUFFICES ASSUME PanelInv, shown.current, ~clobbered, shown.fixed => Storable(shown.plan)
             PROVE  /\ SamePhases(FilePhases(disk), shown.plan.phases)
                    /\ turn.planning /\ turn.written =>
                          \A i \in DOMAIN FilePhases(disk) : ~FilePhases(disk)[i].done
  BY DEF PanelShowsThePlan
<1>1. SamePhases(FilePhases(disk), shown.plan.phases)
  BY DEF PanelInv
<1>2. turn.planning /\ turn.written => Done(shown.plan) = {}
  BY DEF PanelInv
<1> QED BY <1>1, <1>2 DEF SamePhases, Done

\* The phases the panel was sent are those of the file until somebody changes it, and
\* a planning turn that wrote its plan leaves no box of it checked: whatever files and
\* calls there are, unless a handler and the agent run into each other.
THEOREM PanelShowsThePlanHolds == Spec => []PanelShowsThePlan
<1>1. Init => LogInv /\ PanelInv
  BY InitLog, InitPanel
<1>2. IndInv /\ IndInv' /\ LogInv /\ PanelInv /\ [Next]_vars => LogInv' /\ PanelInv'
  BY NextLog, NextPanel
<1>3. PanelInv => PanelShowsThePlan
  BY PanelGives
<1> QED BY <1>1, <1>2, <1>3, InvariantHolds, PTL DEF Spec
=============================================================================
