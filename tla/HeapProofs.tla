------------------------------ MODULE HeapProofs ------------------------------
(***************************************************************************)
(* Proofs for Heap: for every page size and every sequence of calls, the   *)
(* boundary tags are right, the used blocks are the ones callers hold, and *)
(* malloc, malloc_pages and free keep what Allocator promises.             *)
(***************************************************************************)
EXTENDS Heap, FiniteSetTheorems, WellFoundedInduction, TLAPS

Overhead == MetaSize + SizeT

\* f with the value v at a.
Ext(f, B, a, v) == [x \in B \cup {a} |-> IF x = a THEN v ELSE f[x]]
Cut(f, B) == [x \in B |-> f[x]]

Flags == BOOLEAN
IsFunction(f) == f = [x \in DOMAIN f |-> f[x]]

\* The tags of t are the headers and footers of the blocks B, of those sizes,
\* and nothing else: a block holds no old tags.
Tagged(t, B, sz, us) ==
    /\ B \subseteq Nat /\ sz \in [B -> Nat] /\ us \in [B -> Flags]
    /\ IsFunction(t)
    /\ \A b \in B : b \in DOMAIN t /\ t[b] = Header(us[b], sz[b])
    /\ \A b \in B : /\ EndingSizeField(b, sz[b]) \in DOMAIN t
                    /\ t[EndingSizeField(b, sz[b])] = Footer(sz[b])
    /\ \A x \in DOMAIN t : \E b \in B : x = b \/ x = EndingSizeField(b, sz[b])

Apart(B, sz) == \A b, c \in B : b < c => EndBlock(b, sz[b]) <= c

\* The blocks follow one another from s to e without gaps.
Tiles(B, sz, s, e) ==
    /\ s \in B /\ e \in B /\ \A b \in B : s <= b /\ b <= e
    /\ \A b \in B : b # e => EndBlock(b, sz[b]) \in B
    /\ \A b \in B : b # s => \E c \in B : EndBlock(c, sz[c]) = b
    /\ Apart(B, sz)

-------------------------------------------------------------------------------
(* Writing tags *)

Plain(t) == \A x \in DOMAIN t : x \in Int /\ t[x].width \in Nat \ {0}
Outside(t, lo, hi) == {x \in DOMAIN t : x + t[x].width <= lo \/ hi <= x}
\* The tags that are kept when a block of n bytes is written at b.
Kept(t, b, n) == Outside(t, b, b + 9 + n)

LEMMA Widths ==
  ASSUME NEW used, NEW size
  PROVE  Header(used, size).width = 5 /\ Footer(size).width = 4
BY DEF Header, Footer, MetaSize, SizeT

LEMMA TaggedPlain ==
  ASSUME NEW t, NEW B, NEW sz, NEW us, Tagged(t, B, sz, us)
  PROVE  Plain(t) /\ \A x \in DOMAIN t : t[x].width \in {4, 5}
<1> SUFFICES ASSUME NEW x \in DOMAIN t PROVE x \in Int /\ t[x].width \in {4, 5}
  BY DEF Plain
<1>1. PICK b \in B : x = b \/ x = EndingSizeField(b, sz[b]) BY DEF Tagged
<1>2. b \in Nat /\ sz[b] \in Nat BY <1>1 DEF Tagged
<1>3. t[x] = Header(us[b], sz[b]) \/ t[x] = Footer(sz[b]) BY <1>1 DEF Tagged
<1>4. t[x].width \in {4, 5} BY <1>3, Widths
<1> QED BY <1>1, <1>2, <1>4 DEF EndingSizeField, MetaSize

LEMMA PutBlockIs ==
  ASSUME NEW t, Plain(t), NEW b \in Int, NEW n \in Nat, NEW used
  PROVE  /\ \A x : x \in DOMAIN PutBlock(t, b, used, n) <=>
                     x \in Kept(t, b, n) \/ x = b \/ x = b + 5 + n
         /\ IsFunction(PutBlock(t, b, used, n))
         /\ PutBlock(t, b, used, n)[b] = Header(used, n)
         /\ PutBlock(t, b, used, n)[b + 5 + n] = Footer(n)
         /\ \A x \in Kept(t, b, n) :
                x # b /\ x # b + 5 + n /\ PutBlock(t, b, used, n)[x] = t[x]
<1> DEFINE K == Kept(t, b, n)
           h == Header(used, n)
           f == Footer(n)
           o == Over(t, b, 9 + n)
           q == Put(o, b, h)
           p == Put(q, b + 5 + n, f)
<1>1. PutBlock(t, b, used, n) = p
  <2>1. MetaSize + n + SizeT = 9 + n /\ EndingSizeField(b, n) = b + 5 + n
    BY DEF MetaSize, SizeT, EndingSizeField
  <2> QED BY <2>1 DEF PutBlock
<1>2. o = [x \in K |-> t[x]]
  <2>1. b + (9 + n) = b + 9 + n OBVIOUS
  <2> QED BY <2>1 DEF Over, Kept, Outside
<1>3. \A x \in K : /\ x \in Int /\ t[x].width \in Nat \ {0}
                   /\ x + t[x].width <= b \/ b + 9 + n <= x
  BY DEF Plain, Kept, Outside
<1>4. h.width = 5 /\ f.width = 4 BY Widths
<1>5. Over(o, b, 5) = o
  <2>1. \A x \in K : x + t[x].width <= b \/ b + 5 <= x BY <1>3
  <2>2. DOMAIN o = K /\ \A x \in K : o[x] = t[x] BY <1>2
  <2>3. {x \in DOMAIN o : x + o[x].width <= b \/ b + 5 <= x} = K BY <2>1, <2>2
  <2> HIDE DEF o
  <2> QED BY <2>2, <2>3, <1>2 DEF Over
<1>6. q = [x \in K \cup {b} |-> IF x = b THEN h ELSE t[x]]
  <2> HIDE DEF o, h
  <2>1. q = [x \in DOMAIN o \cup {b} |-> IF x = b THEN h ELSE o[x]] BY <1>4, <1>5 DEF Put
  <2> QED BY <2>1, <1>2
<1>7. \A x \in K : x # b /\ x # b + 5 + n BY <1>3
<1>8. Over(q, b + 5 + n, 4) = q
  <2> HIDE DEF h, q
  <2>1. \A x \in K \cup {b} : x + q[x].width <= b + 5 + n \/ b + 5 + n + 4 <= x
    <3>1. q[b].width = 5 BY <1>4, <1>6
    <3>2. ASSUME NEW x \in K PROVE x + q[x].width <= b + 5 + n \/ b + 5 + n + 4 <= x
      <4>1. q[x] = t[x] BY <1>6, <1>7
      <4> QED BY <1>3, <4>1
    <3> QED BY <3>1, <3>2
  <2>2. DOMAIN q = K \cup {b} BY <1>6
  <2>3. {x \in DOMAIN q : x + q[x].width <= b + 5 + n \/ b + 5 + n + 4 <= x} = DOMAIN q
    BY <2>1, <2>2
  <2>4. IsFunction(q) BY <1>6 DEF IsFunction
  <2> QED BY <2>3, <2>4 DEF Over, IsFunction
<1>9. p = [x \in K \cup {b, b + 5 + n} |-> IF x = b + 5 + n THEN f ELSE IF x = b THEN h ELSE t[x]]
  <2> HIDE DEF h, q, f
  <2>1. p = [x \in DOMAIN q \cup {b + 5 + n} |-> IF x = b + 5 + n THEN f ELSE q[x]] BY <1>4, <1>8 DEF Put
  <2>2. DOMAIN q = K \cup {b} BY <1>6
  <2>3. \A x \in K \cup {b} : q[x] = IF x = b THEN h ELSE t[x] BY <1>6
  <2>4. DOMAIN q \cup {b + 5 + n} = K \cup {b, b + 5 + n} BY <2>2
  <2> QED BY <2>1, <2>3, <2>4
<1>10. b # b + 5 + n OBVIOUS
<1> HIDE DEF p, h, f
<1>11. /\ DOMAIN p = K \cup {b, b + 5 + n}
       /\ IsFunction(p)
       /\ p[b] = h /\ p[b + 5 + n] = f
       /\ \A x \in K : x # b /\ x # b + 5 + n /\ p[x] = t[x]
  BY <1>7, <1>9, <1>10 DEF IsFunction
<1> QED BY <1>1, <1>11 DEF h, f

LEMMA OverIs ==
  ASSUME NEW t, Plain(t), NEW b \in Int, NEW n \in Nat, NEW o, o = Over(t, b, n)
  PROVE  /\ DOMAIN o = Outside(t, b, b + n) /\ IsFunction(o)
         /\ \A x \in DOMAIN o : o[x] = t[x]
         /\ Plain(o)
BY DEF Over, Outside, Plain, IsFunction

\* Two functions with one domain and the same values are one.
LEMMA SameFunction ==
  ASSUME NEW f, NEW g, IsFunction(f), IsFunction(g),
         DOMAIN f = DOMAIN g, \A x \in DOMAIN f : f[x] = g[x]
  PROVE  f = g
BY DEF IsFunction

\* A block that is written over old ones: they may be forgotten first.
LEMMA ForgetFirst ==
  ASSUME NEW t, Plain(t), NEW b \in Int, NEW n \in Nat, NEW used
  PROVE  PutBlock(t, b, used, n) = PutBlock(Over(t, b, 9 + n), b, used, n)
<1> DEFINE o == Over(t, b, 9 + n)
           p == PutBlock(t, b, used, n)
           q == PutBlock(o, b, used, n)
           K == Outside(t, b, b + 9 + n)
<1>1. DOMAIN o = K /\ (\A x \in K : o[x] = t[x]) /\ Plain(o)
  <2>1. 9 + n \in Nat /\ b + (9 + n) = b + 9 + n OBVIOUS
  <2> QED BY <2>1, OverIs
<1>2. Outside(o, b, b + 9 + n) = K BY <1>1 DEF Outside
<1>3. /\ DOMAIN p = K \cup {b, b + 5 + n} /\ IsFunction(p)
      /\ p[b] = Header(used, n) /\ p[b + 5 + n] = Footer(n)
      /\ \A x \in K : p[x] = t[x]
  <2>1. p = PutBlock(t, b, used, n) /\ K = Kept(t, b, n) BY DEF Kept
  <2> HIDE DEF p, K
  <2>3. \A x : x \in DOMAIN p <=> x \in K \/ x = b \/ x = b + 5 + n
    BY <2>1, PutBlockIs
  <2>4. DOMAIN p = K \cup {b, b + 5 + n} BY <2>3
  <2>5. IsFunction(p) BY <2>1, PutBlockIs
  <2>6. p[b] = Header(used, n) /\ p[b + 5 + n] = Footer(n) BY <2>1, PutBlockIs
  <2>7. \A x \in K : x # b /\ x # b + 5 + n /\ p[x] = t[x] BY <2>1, PutBlockIs
  <2> QED BY <2>4, <2>5, <2>6, <2>7
<1>4. /\ DOMAIN q = K \cup {b, b + 5 + n} /\ IsFunction(q)
      /\ q[b] = Header(used, n) /\ q[b + 5 + n] = Footer(n)
      /\ \A x \in K : q[x] = t[x]
  <2>1. q = PutBlock(o, b, used, n) /\ K = Kept(o, b, n) BY <1>2 DEF Kept
  <2> HIDE DEF o, q, K
  <2>2. /\ DOMAIN q = K \cup {b, b + 5 + n} /\ IsFunction(q)
        /\ q[b] = Header(used, n) /\ q[b + 5 + n] = Footer(n)
        /\ \A x \in K : q[x] = o[x]
    BY <1>1, <2>1, PutBlockIs
  <2> QED BY <1>1, <2>2
<1> HIDE DEF p, q, K
<1>5. \A x \in DOMAIN p : p[x] = q[x] BY <1>3, <1>4
<1>6. p = q BY <1>3, <1>4, <1>5, SameFunction
<1> QED BY <1>6 DEF p, q, o

\* The same for the two blocks that a block is split into.
LEMMA ForgetBeforeSplit ==
  ASSUME NEW t, Plain(t), NEW b \in Int, NEW n \in Nat, NEW k \in Nat, NEW u, NEW v
  PROVE  PutBlock(PutBlock(t, b + 9 + n, v, k), b, u, n)
           = PutBlock(PutBlock(Over(t, b, 18 + n + k), b + 9 + n, v, k), b, u, n)
<1> DEFINE m == b + 9 + n
           o == Over(t, b, 18 + n + k)
           p == PutBlock(t, m, v, k)
           r == PutBlock(o, m, v, k)
           p2 == PutBlock(p, b, u, n)
           r2 == PutBlock(r, b, u, n)
           K == Outside(t, b, b + 18 + n + k)
           L == Outside(t, m, m + 9 + k)
<1>1. m \in Int OBVIOUS
<1>2. DOMAIN o = K /\ (\A x \in K : o[x] = t[x]) /\ Plain(o)
  <2>1. 18 + n + k \in Nat /\ b + (18 + n + k) = b + 18 + n + k OBVIOUS
  <2> HIDE DEF K
  <2>2. DOMAIN o = Outside(t, b, b + 18 + n + k) /\ (\A x \in DOMAIN o : o[x] = t[x]) /\ Plain(o)
    BY <2>1, OverIs
  <2> QED BY <2>2 DEF K
<1>3. /\ DOMAIN p = L \cup {m, m + 5 + k} /\ p[m] = Header(v, k) /\ p[m + 5 + k] = Footer(k)
      /\ \A x \in L : p[x] = t[x] /\ x # m /\ x # m + 5 + k
  <2>1. p = PutBlock(t, m, v, k) /\ L = Kept(t, m, k) BY DEF Kept
  <2> HIDE DEF p, L, m
  <2>3. \A x : x \in DOMAIN p <=> x \in L \/ x = m \/ x = m + 5 + k
    BY <1>1, <2>1, PutBlockIs
  <2>4. DOMAIN p = L \cup {m, m + 5 + k} BY <2>3
  <2>5. IsFunction(p) BY <1>1, <2>1, PutBlockIs
  <2>6. p[m] = Header(v, k) /\ p[m + 5 + k] = Footer(k) BY <1>1, <2>1, PutBlockIs
  <2>7. \A x \in L : x # m /\ x # m + 5 + k /\ p[x] = t[x] BY <1>1, <2>1, PutBlockIs
  <2> QED BY <2>4, <2>5, <2>6, <2>7
<1>4. Outside(o, m, m + 9 + k) = K
  <2>1. \A x \in K : x \in Int /\ t[x].width \in Nat \ {0} /\ (x + t[x].width <= b \/ m + 9 + k <= x)
    BY DEF Outside, Plain
  <2>2. \A x \in K : x + t[x].width <= m \/ m + 9 + k <= x BY <2>1
  <2> HIDE DEF o, K
  <2> QED BY <1>2, <2>2 DEF Outside
<1>5. /\ DOMAIN r = K \cup {m, m + 5 + k} /\ r[m] = Header(v, k) /\ r[m + 5 + k] = Footer(k)
      /\ \A x \in K : r[x] = t[x] /\ x # m /\ x # m + 5 + k
  <2> HIDE DEF o, K, m
  <2> HIDE DEF r
  <2>1. /\ DOMAIN r = K \cup {m, m + 5 + k}
        /\ r[m] = Header(v, k) /\ r[m + 5 + k] = Footer(k)
        /\ \A x \in K : x # m /\ x # m + 5 + k /\ r[x] = o[x]
    <3>1. r = PutBlock(o, m, v, k) /\ K = Kept(o, m, k) BY <1>4 DEF r, Kept
    <3> QED BY <1>1, <1>2, <3>1, PutBlockIs
  <2> QED BY <1>2, <2>1
<1>6. Header(v, k).width = 5 /\ Footer(k).width = 4 BY Widths
<1>7. \A x \in DOMAIN t : x \in Int /\ t[x].width \in Nat \ {0} BY DEF Plain
<1>8. Plain(p) /\ Plain(r)
  <2>1. L \subseteq DOMAIN t /\ K \subseteq DOMAIN t BY DEF Outside
  <2> HIDE DEF p, r, K, L
  <2>2. Plain(p)
    <3> SUFFICES ASSUME NEW x \in DOMAIN p PROVE x \in Int /\ p[x].width \in Nat \ {0} BY DEF Plain
    <3>1. CASE x \in L BY <3>1, <1>3, <1>7, <2>1
    <3>2. CASE x = m BY <3>2, <1>1, <1>3, <1>6
    <3>3. CASE x = m + 5 + k BY <3>3, <1>1, <1>3, <1>6
    <3> QED BY <3>1, <3>2, <3>3, <1>3
  <2>3. Plain(r)
    <3> SUFFICES ASSUME NEW x \in DOMAIN r PROVE x \in Int /\ r[x].width \in Nat \ {0} BY DEF Plain
    <3>1. CASE x \in K BY <3>1, <1>5, <1>7, <2>1
    <3>2. CASE x = m BY <3>2, <1>1, <1>5, <1>6
    <3>3. CASE x = m + 5 + k BY <3>3, <1>1, <1>5, <1>6
    <3> QED BY <3>1, <3>2, <3>3, <1>5
  <2> QED BY <2>2, <2>3
\* Neither b nor what ends before m and not before b survives the second write.
<1>9. Outside(p, b, b + 9 + n) = K \cup {m, m + 5 + k}
  <2> DEFINE O == Outside(p, b, b + 9 + n)
  <2>1. ASSUME NEW x \in L PROVE x \in O <=> x \in K
    <3>1. x \in DOMAIN t /\ x \in DOMAIN p /\ p[x] = t[x] BY <1>3 DEF Outside
    <3>2. x \in O <=> x + t[x].width <= b \/ m <= x
      <4> HIDE DEF p
      <4> QED BY <3>1 DEF Outside
    <3>3. x + t[x].width <= m \/ m + 9 + k <= x BY DEF Outside
    <3>4. x \in K <=> x + t[x].width <= b \/ m + 9 + k <= x
      <4>1. b + 18 + n + k = m + 9 + k OBVIOUS
      <4> HIDE DEF m
      <4> QED BY <3>1, <4>1 DEF Outside
    <3> HIDE DEF O, K
    <3>5. x \in Int /\ t[x].width \in Nat \ {0} BY <3>1, <1>7
    <3> QED BY <3>2, <3>3, <3>4, <3>5
  <2>2. K \subseteq L
    <3> SUFFICES ASSUME NEW x \in K PROVE x \in L OBVIOUS
    <3>1. x \in DOMAIN t /\ (x + t[x].width <= b \/ b + 18 + n + k <= x) BY DEF Outside
    <3>2. x \in Int /\ t[x].width \in Nat \ {0} BY <3>1, <1>7
    <3>3. x + t[x].width <= m \/ m + 9 + k <= x BY <3>1, <3>2
    <3> QED BY <3>1, <3>3 DEF Outside
  <2>3. m \in O /\ m + 5 + k \in O
    <3>1. m >= b + 9 + n /\ m + 5 + k >= b + 9 + n OBVIOUS
    <3> HIDE DEF p, m
    <3> QED BY <3>1, <1>3 DEF Outside
  <2>4. O \subseteq DOMAIN p BY DEF Outside
  <2>5. DOMAIN p = L \cup {m, m + 5 + k} BY <1>3
  <2> HIDE DEF O, K, L, p, m
  <2>6. O = K \cup {m, m + 5 + k} BY <2>1, <2>2, <2>3, <2>4, <2>5
  <2> QED BY <2>6 DEF O, m
<1>10. Outside(r, b, b + 9 + n) = K \cup {m, m + 5 + k}
  <2> DEFINE O == Outside(r, b, b + 9 + n)
  <2>1. ASSUME NEW x \in K PROVE x \in O
    <3>1. x \in DOMAIN t /\ (x + t[x].width <= b \/ b + 18 + n + k <= x) BY DEF Outside
    <3>2. x \in DOMAIN r /\ r[x] = t[x] BY <1>5
    <3>3. b + 18 + n + k <= x => b + 9 + n <= x BY <3>1, <1>7
    <3> HIDE DEF r
    <3> QED BY <3>1, <3>2, <3>3 DEF Outside
  <2>2. m \in O /\ m + 5 + k \in O
    <3>1. m >= b + 9 + n /\ m + 5 + k >= b + 9 + n OBVIOUS
    <3> HIDE DEF r, m
    <3> QED BY <3>1, <1>5 DEF Outside
  <2>3. O \subseteq DOMAIN r /\ DOMAIN r = K \cup {m, m + 5 + k} BY <1>5 DEF Outside
  <2> HIDE DEF O, K, r, m
  <2>4. O = K \cup {m, m + 5 + k} BY <2>1, <2>2, <2>3
  <2> QED BY <2>4 DEF O, m
<1>11. \A x \in K \cup {m, m + 5 + k} : p[x] = r[x]
  <2>1. K \subseteq L
    <3> SUFFICES ASSUME NEW x \in K PROVE x \in L OBVIOUS
    <3>1. x \in DOMAIN t /\ (x + t[x].width <= b \/ b + 18 + n + k <= x) BY DEF Outside
    <3>2. x \in Int /\ t[x].width \in Nat \ {0} BY <3>1, <1>7
    <3>3. x + t[x].width <= m \/ m + 9 + k <= x BY <3>1, <3>2
    <3> QED BY <3>1, <3>3 DEF Outside
  <2> HIDE DEF K, L, p, r, m
  <2> QED BY <2>1, <1>3, <1>5
<1> DEFINE M == K \cup {m, m + 5 + k}
<1>12. /\ DOMAIN p2 = M \cup {b, b + 5 + n} /\ IsFunction(p2)
       /\ p2[b] = Header(u, n) /\ p2[b + 5 + n] = Footer(n) /\ \A x \in M : p2[x] = p[x]
  <2>1. p2 = PutBlock(p, b, u, n) OBVIOUS
  <2>2. M = Kept(p, b, n) BY <1>9 DEF Kept
  <2> HIDE DEF p, p2, M
  <2>3. \A x : x \in DOMAIN p2 <=> x \in M \/ x = b \/ x = b + 5 + n
    BY <1>8, <2>1, <2>2, PutBlockIs
  <2>4. DOMAIN p2 = M \cup {b, b + 5 + n} BY <2>3
  <2>5. IsFunction(p2) BY <1>8, <2>1, <2>2, PutBlockIs
  <2>6. p2[b] = Header(u, n) /\ p2[b + 5 + n] = Footer(n) BY <1>8, <2>1, <2>2, PutBlockIs
  <2>7. \A x \in M : x # b /\ x # b + 5 + n /\ p2[x] = p[x] BY <1>8, <2>1, <2>2, PutBlockIs
  <2> QED BY <2>4, <2>5, <2>6, <2>7
<1>13. /\ DOMAIN r2 = M \cup {b, b + 5 + n} /\ IsFunction(r2)
       /\ r2[b] = Header(u, n) /\ r2[b + 5 + n] = Footer(n) /\ \A x \in M : r2[x] = r[x]
  <2>1. r2 = PutBlock(r, b, u, n) OBVIOUS
  <2>2. M = Kept(r, b, n) BY <1>10 DEF Kept
  <2> HIDE DEF r, r2, M
  <2>3. \A x : x \in DOMAIN r2 <=> x \in M \/ x = b \/ x = b + 5 + n
    BY <1>8, <2>1, <2>2, PutBlockIs
  <2>4. DOMAIN r2 = M \cup {b, b + 5 + n} BY <2>3
  <2>5. IsFunction(r2) BY <1>8, <2>1, <2>2, PutBlockIs
  <2>6. r2[b] = Header(u, n) /\ r2[b + 5 + n] = Footer(n) BY <1>8, <2>1, <2>2, PutBlockIs
  <2>7. \A x \in M : x # b /\ x # b + 5 + n /\ r2[x] = r[x] BY <1>8, <2>1, <2>2, PutBlockIs
  <2> QED BY <2>4, <2>5, <2>6, <2>7
<1>14. \A x \in DOMAIN p2 : p2[x] = r2[x]
  <2> HIDE DEF p2, r2, p, r, M
  <2> QED BY <1>11, <1>12, <1>13 DEF M
<1>15. p2 = r2
  <2> HIDE DEF p2, r2, M
  <2> QED BY <1>12, <1>13, <1>14, SameFunction
<1> QED BY <1>15

-------------------------------------------------------------------------------
(* Blocks and their tags *)

\* Where the tags of a block are.
LEMMA TagsOfBlock ==
  ASSUME NEW t, NEW B, NEW sz, NEW us, Tagged(t, B, sz, us), NEW b \in B
  PROVE  /\ b \in Nat /\ sz[b] \in Nat /\ us[b] \in Flags
         /\ b \in DOMAIN t /\ t[b] = Header(us[b], sz[b]) /\ t[b].width = 5
         /\ b + 5 + sz[b] \in DOMAIN t /\ t[b + 5 + sz[b]] = Footer(sz[b]) /\ t[b + 5 + sz[b]].width = 4
<1>1. b \in Nat /\ sz[b] \in Nat /\ us[b] \in Flags BY DEF Tagged
<1>2. EndingSizeField(b, sz[b]) = b + 5 + sz[b] BY <1>1 DEF EndingSizeField, MetaSize
<1>3. b \in DOMAIN t /\ t[b] = Header(us[b], sz[b]) BY DEF Tagged
<1>4. b + 5 + sz[b] \in DOMAIN t /\ t[b + 5 + sz[b]] = Footer(sz[b]) BY <1>2 DEF Tagged
<1> QED BY <1>1, <1>3, <1>4, Widths

LEMMA TagOfBlock ==
  ASSUME NEW t, NEW B, NEW sz, NEW us, Tagged(t, B, sz, us), NEW x \in DOMAIN t
  PROVE  \E b \in B : /\ b \in Nat /\ sz[b] \in Nat
                      /\ \/ x = b /\ t[x].width = 5
                         \/ x = b + 5 + sz[b] /\ t[x].width = 4
<1>1. PICK b \in B : x = b \/ x = EndingSizeField(b, sz[b]) BY DEF Tagged
<1>2. b \in Nat /\ sz[b] \in Nat BY DEF Tagged
<1>3. EndingSizeField(b, sz[b]) = b + 5 + sz[b] BY <1>2 DEF EndingSizeField, MetaSize
<1>4. t[b].width = 5 /\ t[b + 5 + sz[b]].width = 4 BY TagsOfBlock
<1> QED BY <1>1, <1>2, <1>3, <1>4

\* The blocks of a region are forgotten.
LEMMA Forget ==
  ASSUME NEW t, NEW B, NEW sz, NEW us, Tagged(t, B, sz, us),
         NEW lo \in Int, NEW n \in Nat, NEW C \in SUBSET B,
         \A b \in C : b + 9 + sz[b] <= lo \/ lo + n <= b,
         \A b \in B \ C : lo <= b /\ b + 9 + sz[b] <= lo + n
  PROVE  Tagged(Over(t, lo, n), C, Cut(sz, C), Cut(us, C))
<1> DEFINE o == Over(t, lo, n)
           D == Outside(t, lo, lo + n)
<1>1. Plain(t) BY TaggedPlain
<1>2. DOMAIN o = D /\ IsFunction(o) /\ \A x \in DOMAIN o : o[x] = t[x] BY <1>1, OverIs
<1>3. C \subseteq Nat /\ sz \in [B -> Nat] /\ us \in [B -> Flags] BY DEF Tagged
<1>4. /\ Cut(sz, C) \in [C -> Nat] /\ \A x \in C : Cut(sz, C)[x] = sz[x] BY <1>3 DEF Cut
<1>5. /\ Cut(us, C) \in [C -> Flags] /\ \A x \in C : Cut(us, C)[x] = us[x] BY <1>3 DEF Cut
<1> HIDE DEF o
<1>6. ASSUME NEW b \in C
      PROVE  /\ b \in DOMAIN o /\ o[b] = Header(Cut(us, C)[b], Cut(sz, C)[b])
             /\ EndingSizeField(b, Cut(sz, C)[b]) \in DOMAIN o
             /\ o[EndingSizeField(b, Cut(sz, C)[b])] = Footer(Cut(sz, C)[b])
  <2>1. b \in B /\ Cut(sz, C)[b] = sz[b] /\ Cut(us, C)[b] = us[b] BY <1>4, <1>5
  <2>2. /\ b \in Nat /\ sz[b] \in Nat
        /\ b \in DOMAIN t /\ t[b] = Header(us[b], sz[b]) /\ t[b].width = 5
        /\ b + 5 + sz[b] \in DOMAIN t /\ t[b + 5 + sz[b]] = Footer(sz[b]) /\ t[b + 5 + sz[b]].width = 4
    BY <2>1, TagsOfBlock
  <2>3. b + 9 + sz[b] <= lo \/ lo + n <= b OBVIOUS
  <2>4. b \in D /\ b + 5 + sz[b] \in D BY <2>2, <2>3 DEF Outside
  <2>5. EndingSizeField(b, sz[b]) = b + 5 + sz[b] BY <2>2 DEF EndingSizeField, MetaSize
  <2> HIDE DEF D
  <2> QED BY <1>2, <2>1, <2>2, <2>4, <2>5
<1>7. ASSUME NEW x \in DOMAIN o
      PROVE  \E b \in C : x = b \/ x = EndingSizeField(b, Cut(sz, C)[b])
  <2>1. x \in DOMAIN t /\ (x + t[x].width <= lo \/ lo + n <= x) BY <1>2 DEF Outside
  <2>2. PICK b \in B : /\ b \in Nat /\ sz[b] \in Nat
                       /\ \/ x = b /\ t[x].width = 5
                          \/ x = b + 5 + sz[b] /\ t[x].width = 4
    BY <2>1, TagOfBlock
  <2>3. b \in C
    <3> SUFFICES ASSUME b \notin C PROVE FALSE OBVIOUS
    <3>1. lo <= b /\ b + 9 + sz[b] <= lo + n BY <2>2
    <3> QED BY <3>1, <2>1, <2>2
  <2>4. EndingSizeField(b, Cut(sz, C)[b]) = b + 5 + sz[b] BY <1>4, <2>2, <2>3 DEF EndingSizeField, MetaSize
  <2> QED BY <2>2, <2>3, <2>4
<1>8. Tagged(o, C, Cut(sz, C), Cut(us, C)) BY <1>2, <1>3, <1>4, <1>5, <1>6, <1>7 DEF Tagged
<1> QED BY <1>8 DEF o

\* A block is written where there is none.
LEMMA Insert ==
  ASSUME NEW t, NEW B, NEW sz, NEW us, Tagged(t, B, sz, us),
         NEW a \in Nat, NEW n \in Nat, NEW u \in Flags,
         \A b \in B : b + 9 + sz[b] <= a \/ a + 9 + n <= b
  PROVE  Tagged(PutBlock(t, a, u, n), B \cup {a}, Ext(sz, B, a, n), Ext(us, B, a, u))
<1> DEFINE p == PutBlock(t, a, u, n)
           K == Kept(t, a, n)
           S == Ext(sz, B, a, n)
           U == Ext(us, B, a, u)
<1>1. Plain(t) BY TaggedPlain
<1>p. p = PutBlock(t, a, u, n) /\ K = Kept(t, a, n) OBVIOUS
<1> HIDE DEF p, K
<1>2. \A x : x \in DOMAIN p <=> x \in K \/ x = a \/ x = a + 5 + n BY <1>1, <1>p, PutBlockIs
<1>3. IsFunction(p) BY <1>1, <1>p, PutBlockIs
<1>4. p[a] = Header(u, n) /\ p[a + 5 + n] = Footer(n) BY <1>1, <1>p, PutBlockIs
<1>5. \A x \in K : x # a /\ x # a + 5 + n /\ p[x] = t[x] BY <1>1, <1>p, PutBlockIs
<1>6. B \subseteq Nat /\ sz \in [B -> Nat] /\ us \in [B -> Flags] BY DEF Tagged
<1>7. S \in [B \cup {a} -> Nat] /\ S[a] = n /\ \A x \in B : x # a => S[x] = sz[x]
  BY <1>6 DEF Ext
<1>8. U \in [B \cup {a} -> Flags] /\ U[a] = u /\ \A x \in B : x # a => U[x] = us[x]
  BY <1>6 DEF Ext
<1>9. \A b \in B : b # a /\ b \in K /\ b + 5 + sz[b] \in K
  <2> SUFFICES ASSUME NEW b \in B PROVE b # a /\ b \in K /\ b + 5 + sz[b] \in K OBVIOUS
  <2>1. /\ b \in Nat /\ sz[b] \in Nat /\ b \in DOMAIN t /\ t[b].width = 5
        /\ b + 5 + sz[b] \in DOMAIN t /\ t[b + 5 + sz[b]].width = 4
    BY TagsOfBlock
  <2>2. b + 9 + sz[b] <= a \/ a + 9 + n <= b OBVIOUS
  <2> QED BY <2>1, <2>2 DEF K, Kept, Outside
<1> HIDE DEF S, U
<1>10. ASSUME NEW b \in B \cup {a}
       PROVE  /\ b \in DOMAIN p /\ p[b] = Header(U[b], S[b])
              /\ EndingSizeField(b, S[b]) \in DOMAIN p
              /\ p[EndingSizeField(b, S[b])] = Footer(S[b])
  <2>1. CASE b = a
    <3>1. EndingSizeField(a, n) = a + 5 + n BY DEF EndingSizeField, MetaSize
    <3> QED BY <2>1, <3>1, <1>2, <1>4, <1>7, <1>8
  <2>2. CASE b \in B
    <3>1. /\ b \in Nat /\ sz[b] \in Nat
          /\ t[b] = Header(us[b], sz[b]) /\ t[b + 5 + sz[b]] = Footer(sz[b])
      BY <2>2, TagsOfBlock
    <3>2. b # a /\ b \in K /\ b + 5 + sz[b] \in K BY <2>2, <1>9
    <3>3. S[b] = sz[b] /\ U[b] = us[b] BY <2>2, <3>2, <1>7, <1>8
    <3>4. p[b] = t[b] /\ p[b + 5 + sz[b]] = t[b + 5 + sz[b]] BY <3>2, <1>5
    <3>5. EndingSizeField(b, sz[b]) = b + 5 + sz[b] BY <3>1 DEF EndingSizeField, MetaSize
    <3> QED BY <1>2, <3>1, <3>2, <3>3, <3>4, <3>5
  <2> QED BY <2>1, <2>2
<1>11. ASSUME NEW x \in DOMAIN p
       PROVE  \E b \in B \cup {a} : x = b \/ x = EndingSizeField(b, S[b])
  <2>1. CASE x \in K
    <3>1. x \in DOMAIN t BY <2>1 DEF K, Kept, Outside
    <3>2. PICK b \in B : b \in Nat /\ sz[b] \in Nat /\ (x = b \/ x = b + 5 + sz[b])
      BY <3>1, TagOfBlock
    <3>3. S[b] = sz[b] BY <1>7, <1>9
    <3>4. EndingSizeField(b, S[b]) = b + 5 + sz[b] BY <3>2, <3>3 DEF EndingSizeField, MetaSize
    <3> QED BY <3>2, <3>4
  <2>2. CASE x = a BY <2>2
  <2>3. CASE x = a + 5 + n
    <3>1. EndingSizeField(a, S[a]) = a + 5 + n BY <1>7 DEF EndingSizeField, MetaSize
    <3> QED BY <2>3, <3>1
  <2> QED BY <1>2, <2>1, <2>2, <2>3
<1>12. Tagged(p, B \cup {a}, S, U)
  <2>1. B \cup {a} \subseteq Nat BY <1>6
  <2> QED BY <2>1, <1>3, <1>7, <1>8, <1>10, <1>11 DEF Tagged
<1> QED BY <1>12 DEF p, S, U

LEMMA ExtOfCut ==
  ASSUME NEW f, NEW C, NEW a, NEW v
  PROVE  Ext(Cut(f, C), C, a, v) = Ext(f, C, a, v)
BY DEF Ext, Cut

\* Of two blocks one ends before the other begins.
LEMMA BeforeOrBehind ==
  ASSUME NEW t, NEW B, NEW sz, NEW us, Tagged(t, B, sz, us), Apart(B, sz),
         NEW b \in B, NEW c \in B, b # c
  PROVE  b + 9 + sz[b] <= c \/ c + 9 + sz[c] <= b
<1>1. b \in Nat /\ c \in Nat /\ sz[b] \in Nat /\ sz[c] \in Nat BY TagsOfBlock
<1>2. EndBlock(b, sz[b]) = b + 9 + sz[b] /\ EndBlock(c, sz[c]) = c + 9 + sz[c]
  BY <1>1 DEF EndBlock, MetaSize, SizeT
<1>3. (b < c => EndBlock(b, sz[b]) <= c) /\ (c < b => EndBlock(c, sz[c]) <= b) BY DEF Apart
<1> QED BY <1>1, <1>2, <1>3

\* What callers write in their blocks leaves the tags alone.
LEMMA TagsOutlastCallers ==
  ASSUME NEW t, NEW B, NEW sz, NEW us, Tagged(t, B, sz, us), Apart(B, sz),
         NEW b \in B, NEW n \in Nat, n <= sz[b]
  PROVE  Over(t, b + MetaSize, n) = t
<1> DEFINE o == Over(t, b + 5, n)
<1>1. b \in Nat /\ sz[b] \in Nat BY TagsOfBlock
<1>2. DOMAIN o = Outside(t, b + 5, b + 5 + n) /\ IsFunction(o) /\ \A x \in DOMAIN o : o[x] = t[x]
  BY <1>1, TaggedPlain, OverIs
<1>3. ASSUME NEW x \in DOMAIN t PROVE x \in Outside(t, b + 5, b + 5 + n)
  <2>1. PICK c \in B : /\ c \in Nat /\ sz[c] \in Nat
                       /\ \/ x = c /\ t[x].width = 5
                          \/ x = c + 5 + sz[c] /\ t[x].width = 4
    BY TagOfBlock
  <2>2. b # c => b + 9 + sz[b] <= c \/ c + 9 + sz[c] <= b BY BeforeOrBehind
  <2>3. x + t[x].width <= b + 5 \/ b + 5 + n <= x BY <1>1, <2>1, <2>2
  <2> QED BY <2>3 DEF Outside
<1>4. Outside(t, b + 5, b + 5 + n) \subseteq DOMAIN t BY DEF Outside
<1>5. DOMAIN o = DOMAIN t BY <1>2, <1>3, <1>4
<1>6. IsFunction(t) BY DEF Tagged
<1> HIDE DEF o
<1>7. o = t BY <1>2, <1>5, <1>6, SameFunction
<1> QED BY <1>7 DEF o, MetaSize

LEMMA Retag ==
  ASSUME NEW t, NEW B, NEW sz, NEW us, Tagged(t, B, sz, us), Apart(B, sz),
         NEW b \in B, NEW u \in Flags
  PROVE  Tagged(Put(t, b, Header(u, sz[b])), B, sz, Ext(us, B, b, u))
<1> DEFINE h == Header(u, sz[b])
           o == Over(t, b, 5)
           p == Put(t, b, h)
           U == Ext(us, B, b, u)
<1>1. b \in Nat /\ sz[b] \in Nat BY TagsOfBlock
<1>2. DOMAIN o = Outside(t, b, b + 5) /\ IsFunction(o) /\ \A x \in DOMAIN o : o[x] = t[x]
  BY <1>1, TaggedPlain, OverIs
<1>3. b \in DOMAIN t BY TagsOfBlock
<1>4. ASSUME NEW x \in DOMAIN t, x # b PROVE x \in Outside(t, b, b + 5)
  <2>1. PICK c \in B : /\ c \in Nat /\ sz[c] \in Nat
                       /\ \/ x = c /\ t[x].width = 5
                          \/ x = c + 5 + sz[c] /\ t[x].width = 4
    BY TagOfBlock
  <2>2. b # c => b + 9 + sz[b] <= c \/ c + 9 + sz[c] <= b BY BeforeOrBehind
  <2>3. x + t[x].width <= b \/ b + 5 <= x BY <1>1, <1>4, <2>1, <2>2
  <2> QED BY <2>3 DEF Outside
<1>5. Outside(t, b, b + 5) \subseteq DOMAIN t BY DEF Outside
<1>6. DOMAIN o \cup {b} = DOMAIN t BY <1>2, <1>3, <1>4, <1>5
<1>7. p = [x \in DOMAIN t |-> IF x = b THEN h ELSE t[x]]
  <2>1. h.width = 5 BY Widths
  <2> HIDE DEF h, o
  <2>2. p = [x \in DOMAIN o \cup {b} |-> IF x = b THEN h ELSE o[x]] BY <2>1 DEF Put, o
  <2>3. \A x \in DOMAIN t : x # b => o[x] = t[x] BY <1>2, <1>4
  <2> QED BY <2>2, <2>3, <1>6
<1>8. U \in [B -> Flags] /\ U[b] = u /\ \A x \in B : x # b => U[x] = us[x]
  <2>1. us \in [B -> Flags] /\ B \cup {b} = B BY DEF Tagged
  <2> QED BY <2>1 DEF Ext
<1> HIDE DEF p, U, h
<1>9. DOMAIN p = DOMAIN t /\ IsFunction(p) /\ p[b] = h /\ \A x \in DOMAIN t : x # b => p[x] = t[x]
  BY <1>3, <1>7 DEF IsFunction
<1>10. ASSUME NEW c \in B
       PROVE  /\ c \in DOMAIN p /\ p[c] = Header(U[c], sz[c])
              /\ EndingSizeField(c, sz[c]) \in DOMAIN p
              /\ p[EndingSizeField(c, sz[c])] = Footer(sz[c])
  <2>1. c \in DOMAIN t /\ EndingSizeField(c, sz[c]) \in DOMAIN t
        /\ t[c] = Header(us[c], sz[c]) /\ t[EndingSizeField(c, sz[c])] = Footer(sz[c])
    BY DEF Tagged
  <2>2. p[c] = Header(U[c], sz[c]) BY <2>1, <1>8, <1>9 DEF h
  <2>3. EndingSizeField(c, sz[c]) # b
    <3>1. c \in Nat /\ sz[c] \in Nat BY TagsOfBlock
    <3>2. b # c => b + 9 + sz[b] <= c \/ c + 9 + sz[c] <= b BY BeforeOrBehind
    <3> QED BY <1>1, <3>1, <3>2 DEF EndingSizeField, MetaSize
  <2> QED BY <1>9, <2>1, <2>2, <2>3
<1>11. Tagged(p, B, sz, U)
  <2>1. B \subseteq Nat /\ sz \in [B -> Nat] /\ \A x \in DOMAIN t : \E c \in B : x = c \/ x = EndingSizeField(c, sz[c])
    BY DEF Tagged
  <2> QED BY <2>1, <1>8, <1>9, <1>10 DEF Tagged
<1> QED BY <1>11 DEF p, U, h

\* A block over the bytes of one that is there.
LEMMA Replace ==
  ASSUME NEW t, NEW B, NEW sz, NEW us, Tagged(t, B, sz, us), Apart(B, sz),
         NEW b \in B, NEW n \in Nat, NEW u \in Flags, n <= sz[b], NEW C, C = B \ {b}
  PROVE  Tagged(PutBlock(Over(t, b, 9 + sz[b]), b, u, n), C \cup {b}, Ext(sz, C, b, n), Ext(us, C, b, u))
<1>1. b \in Nat /\ sz[b] \in Nat /\ sz \in [B -> Nat] BY TagsOfBlock DEF Tagged
<1>2. \A c \in C : c \in Nat /\ sz[c] \in Nat /\ (b + 9 + sz[b] <= c \/ c + 9 + sz[c] <= b)
  BY TagsOfBlock, BeforeOrBehind
<1>3. Tagged(Over(t, b, 9 + sz[b]), C, Cut(sz, C), Cut(us, C))
  <2> DEFINE k == 9 + sz[b]
  <2>1. \A c \in C : c + 9 + sz[c] <= b \/ b + k <= c BY <1>1, <1>2
  <2>2. \A c \in B \ C : b <= c /\ c + 9 + sz[c] <= b + k BY <1>1
  <2>3. C \in SUBSET B /\ k \in Nat /\ b \in Int BY <1>1
  <2> HIDE DEF k
  <2>4. Tagged(Over(t, b, k), C, Cut(sz, C), Cut(us, C)) BY <2>1, <2>2, <2>3, Forget
  <2> QED BY <2>4 DEF k
<1>4. \A c \in C : Cut(sz, C)[c] = sz[c] BY DEF Cut
<1>5. \A c \in C : c + 9 + Cut(sz, C)[c] <= b \/ b + 9 + n <= c BY <1>1, <1>2, <1>4
<1>6. Tagged(PutBlock(Over(t, b, 9 + sz[b]), b, u, n), C \cup {b},
             Ext(Cut(sz, C), C, b, n), Ext(Cut(us, C), C, b, u))
  <2> DEFINE o == Over(t, b, 9 + sz[b])
  <2> HIDE DEF o
  <2>1. Tagged(o, C, Cut(sz, C), Cut(us, C)) BY <1>3 DEF o
  <2>2. Tagged(PutBlock(o, b, u, n), C \cup {b}, Ext(Cut(sz, C), C, b, n), Ext(Cut(us, C), C, b, u))
    BY <1>1, <1>5, <2>1, Insert
  <2> QED BY <2>2 DEF o
<1> QED BY <1>6, ExtOfCut

-------------------------------------------------------------------------------
(* Blocks that follow one another *)

Sized(B, sz) == B \subseteq Nat /\ sz \in [B -> Nat]

LEMMA Ends ==
  ASSUME NEW B, NEW sz, Sized(B, sz), NEW b \in B
  PROVE  b \in Nat /\ sz[b] \in Nat /\ EndBlock(b, sz[b]) = b + 9 + sz[b]
BY DEF Sized, EndBlock, MetaSize, SizeT

\* Tiles without the operators.
LEMMA TilesMeans ==
  ASSUME NEW B, NEW sz, NEW s, NEW e, Sized(B, sz)
  PROVE  Tiles(B, sz, s, e) <=>
           /\ s \in B /\ e \in B /\ \A b \in B : s <= b /\ b <= e
           /\ \A b \in B : b # e => b + 9 + sz[b] \in B
           /\ \A b \in B : b # s => \E c \in B : c + 9 + sz[c] = b
           /\ \A b, c \in B : b < c => b + 9 + sz[b] <= c
<1>1. \A b \in B : EndBlock(b, sz[b]) = b + 9 + sz[b] BY Ends
<1> QED BY <1>1 DEF Tiles, Apart

LEMMA TilesAppended ==
  ASSUME NEW B, NEW sz, NEW s, NEW e, Sized(B, sz), Tiles(B, sz, s, e),
         NEW a, a = e + 9 + sz[e], NEW n \in Nat,
         NEW D, D = B \cup {a}, NEW z, Sized(D, z), z[a] = n, \A c \in B : z[c] = sz[c]
  PROVE  Tiles(D, z, s, a)
<1>1. /\ s \in B /\ e \in B /\ \A b \in B : s <= b /\ b <= e
      /\ \A b \in B : b # e => b + 9 + sz[b] \in B
      /\ \A b \in B : b # s => \E c \in B : c + 9 + sz[c] = b
      /\ \A b, c \in B : b < c => b + 9 + sz[b] <= c
  BY TilesMeans
<1>2. \A b \in B : b \in Nat /\ sz[b] \in Nat BY Ends
<1>3. a \in Nat /\ \A b \in B : b < a BY <1>1, <1>2
<1>4. \A b \in D : s <= b /\ b <= a BY <1>1, <1>2, <1>3
<1>5. \A b \in D : b # a => b + 9 + z[b] \in D BY <1>1, <1>3
<1>6. \A b \in D : b # s => \E c \in D : c + 9 + z[c] = b
  <2>1. e + 9 + z[e] = a BY <1>1
  <2>2. ASSUME NEW b \in B, b # s PROVE \E c \in D : c + 9 + z[c] = b
    <3>1. PICK c \in B : c + 9 + sz[c] = b BY <1>1, <2>2
    <3> QED BY <3>1
  <2> QED BY <1>1, <2>1, <2>2
<1>7. \A b, c \in D : b < c => b + 9 + z[b] <= c
  <2> SUFFICES ASSUME NEW b \in D, NEW c \in D, b < c PROVE b + 9 + z[b] <= c OBVIOUS
  <2>1. b \in B BY <1>2, <1>3
  <2>2. CASE c \in B BY <2>1, <2>2, <1>1
  <2>3. CASE c = a
    <3>1. b = e \/ b + 9 + sz[b] <= e BY <2>1, <1>1, <1>2
    <3> QED BY <2>1, <2>3, <3>1, <1>1, <1>2
  <2> QED BY <2>2, <2>3
<1> QED BY <1>1, <1>4, <1>5, <1>6, <1>7, TilesMeans

LEMMA TilesSplit ==
  ASSUME NEW B, NEW sz, NEW s, NEW e, Sized(B, sz), Tiles(B, sz, s, e),
         NEW b \in B, b # e, NEW n \in Nat, NEW k \in Nat, sz[b] = n + 9 + k,
         NEW m, m = b + 9 + n, NEW D, D = B \cup {m},
         NEW z, Sized(D, z), z[b] = n, z[m] = k, \A c \in B : c # b => z[c] = sz[c]
  PROVE  m \notin B /\ Tiles(D, z, s, e)
<1>1. /\ s \in B /\ e \in B /\ \A c \in B : s <= c /\ c <= e
      /\ \A c \in B : c # e => c + 9 + sz[c] \in B
      /\ \A c \in B : c # s => \E d \in B : d + 9 + sz[d] = c
      /\ \A c, d \in B : c < d => c + 9 + sz[c] <= d
  BY TilesMeans
<1>2. \A c \in B : c \in Nat /\ sz[c] \in Nat BY Ends
<1>3. m \in Nat /\ b < m /\ m < b + 9 + sz[b] /\ m + 9 + k = b + 9 + sz[b] BY <1>2
<1>4. m \notin B BY <1>1, <1>3
<1>5. b + 9 + sz[b] \in B /\ b + 9 + sz[b] # b BY <1>1, <1>2
<1>6. \A c \in D : s <= c /\ c <= e BY <1>1, <1>2, <1>3, <1>5
<1>7. \A c \in D : c # e => c + 9 + z[c] \in D
  <2> SUFFICES ASSUME NEW c \in D, c # e PROVE c + 9 + z[c] \in D OBVIOUS
  <2>1. CASE c = b BY <2>1
  <2>2. CASE c = m BY <2>2, <1>3, <1>5
  <2>3. CASE c \in B /\ c # b BY <2>3, <1>1
  <2> QED BY <2>1, <2>2, <2>3
<1>8. \A c \in D : c # s => \E d \in D : d + 9 + z[d] = c
  <2> SUFFICES ASSUME NEW c \in D, c # s PROVE \E d \in D : d + 9 + z[d] = c OBVIOUS
  <2>1. CASE c = m BY <2>1
  <2>2. CASE c \in B
    <3>1. PICK d \in B : d + 9 + sz[d] = c BY <2>2, <1>1
    <3>2. CASE d = b
      <4>1. m + 9 + z[m] = c BY <3>1, <3>2, <1>3
      <4> QED BY <4>1
    <3>3. CASE d # b BY <3>1, <3>3
    <3> QED BY <3>2, <3>3
  <2> QED BY <2>1, <2>2
<1>9. \A c, d \in D : c < d => c + 9 + z[c] <= d
  <2> SUFFICES ASSUME NEW c \in D, NEW d \in D, c < d PROVE c + 9 + z[c] <= d OBVIOUS
  <2>1. CASE c = m /\ d \in B
    <3>1. b + 9 + sz[b] <= d BY <2>1, <1>1, <1>2, <1>3
    <3> QED BY <2>1, <3>1, <1>3
  <2>2. CASE c = b /\ d \in B
    <3>1. b + 9 + sz[b] <= d BY <2>2, <1>1
    <3> QED BY <2>2, <3>1, <1>2
  <2>3. CASE c = b /\ d = m BY <2>3, <1>2
  <2>4. CASE c \in B /\ c # b /\ d = m
    <3>1. c < b
      <4> SUFFICES ASSUME b < c PROVE FALSE BY <2>4, <1>2
      <4>1. b + 9 + sz[b] <= c BY <2>4, <1>1
      <4> QED BY <2>4, <4>1, <1>2, <1>3
    <3>2. c + 9 + sz[c] <= b BY <2>4, <3>1, <1>1
    <3> QED BY <2>4, <3>2, <1>2, <1>3
  <2>5. CASE c \in B /\ c # b /\ d \in B BY <2>5, <1>1
  <2> QED BY <2>1, <2>2, <2>3, <2>4, <2>5, <1>3
<1> QED BY <1>1, <1>4, <1>6, <1>7, <1>8, <1>9, TilesMeans

\* The blocks D, of sizes z, are B with c joined to b; l is the last of them.
Joins(B, sz, b, c, D, z) ==
    /\ b \in B /\ c \in B /\ c = b + 9 + sz[b]
    /\ D \subseteq B /\ \A d \in B : d # c <=> d \in D
    /\ Sized(D, z) /\ z[b] = sz[b] + 9 + sz[c] /\ \A d \in D : d # b => z[d] = sz[d]
LastOf(b, c, e, l) == (c = e => l = b) /\ (c # e => l = e)

LEMMA TilesJoin ==
  ASSUME NEW B, NEW sz, NEW s, NEW e, Sized(B, sz), Tiles(B, sz, s, e),
         NEW b, NEW c, NEW D, NEW z, NEW l, Joins(B, sz, b, c, D, z), LastOf(b, c, e, l)
  PROVE  Tiles(D, z, s, l)
<1> USE DEF Joins, LastOf
<1>1. /\ s \in B /\ e \in B /\ \A d \in B : s <= d /\ d <= e
      /\ \A d \in B : d # e => d + 9 + sz[d] \in B
      /\ \A d \in B : d # s => \E x \in B : x + 9 + sz[x] = d
      /\ \A d, x \in B : d < x => d + 9 + sz[d] <= x
  BY TilesMeans
<1>2. \A d \in B : d \in Nat /\ sz[d] \in Nat BY Ends
<1>3. b < c /\ b \in D /\ s \in D /\ b + 9 + z[b] = c + 9 + sz[c]
  <2>1. b \in Nat /\ sz[b] \in Nat /\ c \in Nat /\ sz[c] \in Nat /\ s \in Nat BY <1>1, <1>2
  <2>2. s <= b BY <1>1
  <2>3. b # c /\ s # c BY <2>1, <2>2
  <2> QED BY <1>1, <2>1, <2>3
<1>4. l \in D BY <1>1, <1>3
<1>5. ASSUME NEW d \in D PROVE s <= d /\ d <= l
  <2>1. s <= d /\ d <= e BY <1>1
  <2>2. ASSUME c = e PROVE d <= b
    <3> SUFFICES ASSUME b < d PROVE FALSE BY <1>2
    <3>1. c <= d BY <1>1
    <3> QED BY <2>1, <2>2, <3>1, <1>2
  <2> QED BY <2>1, <2>2
<1>6. ASSUME NEW d \in D, d # l PROVE d + 9 + z[d] \in D
  <2>1. CASE d = b
    <3>1. c # e BY <1>6, <2>1
    <3>2. c + 9 + sz[c] \in B /\ c + 9 + sz[c] # c BY <3>1, <1>1, <1>2
    <3> QED BY <2>1, <3>2, <1>3
  <2>2. CASE d # b
    <3>1. d # e BY <1>6
    <3>2. d + 9 + sz[d] \in B BY <3>1, <1>1
    <3>3. d + 9 + sz[d] # c
      <4>1. d \in Nat /\ b \in Nat /\ sz[d] \in Nat /\ sz[b] \in Nat BY <1>2
      <4>2. (b < d => c <= d) /\ (d < b => d + 9 + sz[d] <= b) BY <1>1
      <4> QED BY <2>2, <4>1, <4>2
    <3> QED BY <2>2, <3>2, <3>3
  <2> QED BY <2>1, <2>2
<1>7. ASSUME NEW d \in D, d # s PROVE \E x \in D : x + 9 + z[x] = d
  <2>1. PICK x \in B : x + 9 + sz[x] = d BY <1>1, <1>7
  <2>2. CASE x = c BY <2>1, <2>2, <1>3
  <2>3. CASE x # c
    <3>1. x # b BY <2>1
    <3> QED BY <2>1, <2>3, <3>1
  <2> QED BY <2>2, <2>3
<1>8. ASSUME NEW d \in D, NEW x \in D, d < x PROVE d + 9 + z[d] <= x
  <2>1. CASE d = b
    <3>1. c <= x BY <2>1, <1>1, <1>8
    <3>2. c < x BY <3>1, <1>2
    <3>3. c + 9 + sz[c] <= x BY <3>2, <1>1
    <3> QED BY <2>1, <3>3, <1>3
  <2>2. CASE d # b BY <2>2, <1>1, <1>8
  <2> QED BY <2>1, <2>2
<1>9. /\ s \in D /\ l \in D /\ \A d \in D : s <= d /\ d <= l
      /\ \A d \in D : d # l => d + 9 + z[d] \in D
      /\ \A d \in D : d # s => \E x \in D : x + 9 + z[x] = d
      /\ \A d, x \in D : d < x => d + 9 + z[d] <= x
  BY <1>3, <1>4, <1>5, <1>6, <1>7, <1>8
<1> QED BY <1>9, TilesMeans

LEMMA TilesShrunk ==
  ASSUME NEW B, NEW sz, NEW s, NEW e, Sized(B, sz), Tiles(B, sz, s, e),
         NEW n \in Nat, n <= sz[e],
         NEW z, Sized(B, z), z[e] = n, \A c \in B : c # e => z[c] = sz[c]
  PROVE  Tiles(B, z, s, e)
<1>1. /\ s \in B /\ e \in B /\ \A b \in B : s <= b /\ b <= e
      /\ \A b \in B : b # e => b + 9 + sz[b] \in B
      /\ \A b \in B : b # s => \E c \in B : c + 9 + sz[c] = b
      /\ \A b, c \in B : b < c => b + 9 + sz[b] <= c
  BY TilesMeans
<1>2. \A b \in B : b \in Nat /\ sz[b] \in Nat BY Ends
<1>3. \A b \in B : b # e => b + 9 + z[b] \in B BY <1>1
<1>4. ASSUME NEW b \in B, b # s PROVE \E c \in B : c + 9 + z[c] = b
  <2>1. PICK c \in B : c + 9 + sz[c] = b BY <1>1, <1>4
  <2>2. c # e BY <2>1, <1>1, <1>2
  <2> QED BY <2>1, <2>2
<1>5. ASSUME NEW b \in B, NEW c \in B, b < c PROVE b + 9 + z[b] <= c
  <2>1. b # e BY <1>1, <1>2, <1>5
  <2> QED BY <2>1, <1>1, <1>5
<1> QED BY <1>1, <1>3, <1>4, <1>5, TilesMeans

-------------------------------------------------------------------------------
(* The walk along the blocks *)

\* A set of numbers has a least one: the one below which fewest lie.
LEMMA LeastOf ==
  ASSUME NEW T \in SUBSET Nat, T # {}
  PROVE  \E m \in T : \A y \in T : m <= y
<1> DEFINE UpTo(x) == T \cap (0 .. x)
           family == {UpTo(x) : x \in T}
<1>1. family \subseteq FiniteSubsetsOf(Nat)
  <2> SUFFICES ASSUME NEW x \in T PROVE UpTo(x) \in FiniteSubsetsOf(Nat) OBVIOUS
  <2>1. IsFiniteSet(0 .. x) BY FS_Interval
  <2>2. IsFiniteSet(UpTo(x)) BY <2>1, FS_Subset
  <2> QED BY <2>2 DEF FiniteSubsetsOf
<1>2. IsWellFoundedOn(StrictSubsetOrdering(Nat), FiniteSubsetsOf(Nat)) BY FS_StrictSubsetOrderingWellFounded
<1>3. family # {} OBVIOUS
<1>4. PICK least \in family : \A other \in family : ~(<<other, least>> \in StrictSubsetOrdering(Nat))
  <2> HIDE DEF family
  <2> QED BY <1>1, <1>2, <1>3, WFMin
<1>5. PICK m \in T : least = UpTo(m) BY <1>4
<1>6. ASSUME NEW y \in T PROVE m <= y
  <2> SUFFICES ASSUME y < m PROVE FALSE OBVIOUS
  <2>1. UpTo(y) \subseteq UpTo(m) /\ m \in UpTo(m) /\ m \notin UpTo(y) OBVIOUS
  <2>2. UpTo(y) \in SUBSET Nat /\ UpTo(m) \in SUBSET Nat /\ UpTo(y) # UpTo(m) BY <2>1
  <2>3. <<UpTo(y), UpTo(m)>> \in StrictSubsetOrdering(Nat)
    <3> HIDE DEF UpTo
    <3> QED BY <2>1, <2>2 DEF StrictSubsetOrdering
  <2>4. UpTo(y) \in family OBVIOUS
  <2> HIDE DEF UpTo, family
  <2> QED BY <1>4, <1>5, <2>3, <2>4
<1> QED BY <1>6

\* What a walk meets: the numbers in every set that has the first and, with each
\* number, the next.
LEMMA WalkExists ==
  ASSUME NEW G \in SUBSET Int, NEW next \in [G -> Int]
  PROVE  \E h : h = [b \in Int |-> {b} \cup IF b \in G THEN h[next[b]] ELSE {}]
<1> DEFINE Closed(S) == \A x \in S : x \in G => next[x] \in S
           met(b) == {c \in Int : \A S \in SUBSET Int : b \in S /\ Closed(S) => c \in S}
           h == [b \in Int |-> met(b)]
           more(b) == IF b \in G THEN met(next[b]) ELSE {}
<1>1. \A b \in Int : b \in met(b) OBVIOUS
<1>2. \A b \in Int : Closed(met(b)) OBVIOUS
<1>3. ASSUME NEW b \in Int PROVE met(b) = {b} \cup more(b)
  <2>1. {b} \cup more(b) \subseteq met(b)
    <3>1. ASSUME b \in G, NEW c \in met(next[b]) PROVE c \in met(b)
      <4> SUFFICES ASSUME NEW S \in SUBSET Int, b \in S, Closed(S) PROVE c \in S OBVIOUS
      <4>1. next[b] \in S BY <3>1
      <4> QED BY <4>1
    <3> QED BY <1>1, <3>1
  <2>2. met(b) \subseteq {b} \cup more(b)
    <3> DEFINE S == {b} \cup more(b)
    <3>1. S \in SUBSET Int /\ b \in S OBVIOUS
    <3>2. Closed(S)
      <4> SUFFICES ASSUME NEW x \in S, x \in G PROVE next[x] \in S OBVIOUS
      <4>1. CASE x = b
        <5>1. next[b] \in met(next[b]) BY <4>1, <1>1
        <5> QED BY <4>1, <5>1
      <4>2. CASE x # b
        <5>1. b \in G /\ x \in met(next[b]) BY <4>2
        <5>2. next[b] \in Int BY <5>1
        <5>3. next[x] \in met(next[b]) BY <5>1, <5>2, <1>2
        <5> QED BY <5>1, <5>3
      <4> QED BY <4>1, <4>2
    <3> QED BY <3>1, <3>2
  <2> QED BY <2>1, <2>2
<1>4. \A b \in Int : h[b] = met(b) OBVIOUS
<1>5. \A b \in Int : more(b) = IF b \in G THEN h[next[b]] ELSE {} OBVIOUS
<1>6. h = [b \in Int |-> {b} \cup IF b \in G THEN h[next[b]] ELSE {}]
  <2> HIDE DEF met, more
  <2>1. \A b \in Int : met(b) = {b} \cup IF b \in G THEN h[next[b]] ELSE {} BY <1>3, <1>5
  <2> QED BY <2>1
<1> QED BY <1>6

LEMMA ChainWalks ==
  ASSUME start # NULL, \A x \in DOMAIN tags : x \in Int /\ tags[x].size \in Int
  PROVE  \E f : /\ Chain = f[start]
                /\ f = [b \in Int |-> {b} \cup IF b < end /\ b \in DOMAIN tags
                                              THEN f[NextBlock(b)] ELSE {}]
<1> DEFINE G == {b \in Int : b < end /\ b \in DOMAIN tags}
           next == [b \in G |-> NextBlock(b)]
<1>1. \A b \in G : NextBlock(b) \in Int
  BY DEF NextBlock, EndBlock, MetaSize, SizeT
<1>2. G \in SUBSET Int /\ next \in [G -> Int] BY <1>1
<1>3. PICK h : h = [b \in Int |-> {b} \cup IF b \in G THEN h[next[b]] ELSE {}]
  <2> HIDE DEF G, next
  <2> QED BY <1>2, WalkExists
<1>4. \A b \in Int : ({b} \cup IF b \in G THEN h[next[b]] ELSE {})
                       = ({b} \cup IF b < end /\ b \in DOMAIN tags THEN h[NextBlock(b)] ELSE {})
  OBVIOUS
<1>5. h = [b \in Int |-> {b} \cup IF b < end /\ b \in DOMAIN tags THEN h[NextBlock(b)] ELSE {}]
  <2> HIDE DEF G, next
  <2> QED BY <1>3, <1>4
<1>6. \E f : Chain = f[start] /\ f = CHOOSE g : g = [b \in Int |->
             {b} \cup IF b < end /\ b \in DOMAIN tags THEN g[NextBlock(b)] ELSE {}]
  BY DEF Chain
<1> QED BY <1>5, <1>6

\* From start the walk meets the blocks, all of them.
LEMMA ChainOfTiles ==
  ASSUME NEW B, NEW sz, NEW us, start # NULL, Tagged(tags, B, sz, us), Tiles(B, sz, start, end)
  PROVE  Chain = B
<1>1. Sized(B, sz) BY DEF Tagged, Sized
<1>2. /\ start \in B /\ end \in B /\ \A b \in B : start <= b /\ b <= end
      /\ \A b \in B : b # end => b + 9 + sz[b] \in B
      /\ \A b, c \in B : b < c => b + 9 + sz[b] <= c
  BY <1>1, TilesMeans
<1>3. \A b \in B : b \in Nat /\ sz[b] \in Nat /\ b \in DOMAIN tags BY TagsOfBlock
<1>4. \A x \in DOMAIN tags : x \in Int /\ tags[x].size \in Int
  <2> SUFFICES ASSUME NEW x \in DOMAIN tags PROVE x \in Int /\ tags[x].size \in Int OBVIOUS
  <2>1. PICK b \in B : x = b \/ x = EndingSizeField(b, sz[b]) BY DEF Tagged
  <2>2. tags[x] = Header(us[b], sz[b]) \/ tags[x] = Footer(sz[b]) BY <2>1 DEF Tagged
  <2>3. tags[x].size = sz[b] BY <2>2 DEF Header, Footer
  <2> QED BY <2>1, <2>3, <1>3 DEF EndingSizeField, MetaSize
<1>5. PICK f : /\ Chain = f[start]
               /\ f = [b \in Int |-> {b} \cup IF b < end /\ b \in DOMAIN tags
                                             THEN f[NextBlock(b)] ELSE {}]
  BY <1>4, ChainWalks
<1>6. \A b \in B : NextBlock(b) = b + 9 + sz[b]
  <2> SUFFICES ASSUME NEW b \in B PROVE NextBlock(b) = b + 9 + sz[b] OBVIOUS
  <2>1. tags[b] = Header(us[b], sz[b]) BY TagsOfBlock
  <2>2. tags[b].size = sz[b] BY <2>1 DEF Header
  <2> QED BY <1>3, <2>2 DEF NextBlock, EndBlock, MetaSize, SizeT
<1> DEFINE From(b) == {c \in B : b <= c}
           Bad == {b \in B : f[b] # From(b)}
<1>7. f[end] = From(end)
  <2>1. f[end] = {end} BY <1>2, <1>3, <1>5
  <2>2. From(end) = {end} BY <1>2, <1>3
  <2> QED BY <2>1, <2>2
<1>8. ASSUME NEW b \in B, b # end, NEW n, n = b + 9 + sz[b], f[n] = From(n) PROVE f[b] = From(b)
  <2>1. b < end /\ b \in DOMAIN tags /\ NextBlock(b) = n BY <1>2, <1>3, <1>6, <1>8
  <2>2. f[b] = {b} \cup f[n]
    <3>1. b \in Int BY <1>3
    <3>2. f[b] = {b} \cup IF b < end /\ b \in DOMAIN tags THEN f[NextBlock(b)] ELSE {} BY <3>1, <1>5
    <3> QED BY <3>2, <2>1
  <2>3. From(b) = {b} \cup From(n)
    <3>1. n \in Nat /\ b < n BY <1>3, <1>8
    <3>2. \A c \in B : b <= c <=> c = b \/ n <= c BY <1>2, <1>3, <1>8, <3>1
    <3> QED BY <3>2
  <2> QED BY <2>2, <2>3, <1>8
<1>9. Bad = {}
  <2> SUFFICES ASSUME Bad # {} PROVE FALSE OBVIOUS
  <2> DEFINE T == {end - b : b \in Bad}
  <2>1. T \in SUBSET Nat /\ T # {} BY <1>2, <1>3
  <2>2. PICK d \in T : \A y \in T : d <= y
    <3> HIDE DEF T
    <3> QED BY <2>1, LeastOf
  <2>3. PICK b \in Bad : d = end - b OBVIOUS
  <2>4. b # end BY <1>7
  <2> DEFINE n == b + 9 + sz[b]
  <2>5. n \in B BY <1>2, <2>4
  <2>6. n \notin Bad
    <3> SUFFICES ASSUME n \in Bad PROVE FALSE OBVIOUS
    <3>1. end - n \in T OBVIOUS
    <3>2. d <= end - n BY <2>2, <3>1
    <3> QED BY <2>3, <2>5, <3>2, <1>2, <1>3
  <2>7. f[n] = From(n) BY <2>5, <2>6
  <2>8. b \in B OBVIOUS
  <2>9. f[b] = From(b)
    <3> HIDE DEF From, Bad
    <3> QED BY <1>8, <2>4, <2>7, <2>8
  <2> QED BY <2>9
<1>10. f[start] = From(start)
  <2> HIDE DEF From
  <2> QED BY <1>2, <1>9
<1>11. From(start) = B BY <1>2
<1> QED BY <1>5, <1>10, <1>11

-------------------------------------------------------------------------------
(* The inductive invariant *)

\* Callers hold the used blocks, each one of them.
Held(B, sz, us, held) ==
    /\ \A r \in held :
        /\ r.ptr \in Nat /\ r.size \in Nat \ {0}
        /\ r.ptr - MetaSize \in B /\ us[r.ptr - MetaSize]
        /\ r.size <= sz[r.ptr - MetaSize]
    /\ \A q, r \in held : q.ptr = r.ptr => q = r
    /\ \A b \in B : us[b] => \E r \in held : r.ptr = b + MetaSize

WholePages(n) == \E k \in 0 .. n : n = k * PageSize

\* The heap is the blocks B, of those sizes and flags.
State(B, sz, us) ==
    /\ start \in Nat /\ heapEnd \in Nat
    /\ Tagged(tags, B, sz, us) /\ Tiles(B, sz, start, end)
    /\ EndBlock(end, sz[end]) <= heapEnd
    /\ Held(B, sz, us, live)

Empty == start = NULL /\ heapEnd = 0 /\ live = {} /\ DOMAIN tags = {} /\ IsFunction(tags)

SizeOf == [b \in Chain |-> tags[b].size]
UsedOf == [b \in Chain |-> tags[b].used]

IInv == WholePages(heapEnd) /\ (Empty \/ State(Chain, SizeOf, UsedOf))

LEMMA BlocksFound ==
  ASSUME NEW B, NEW sz, NEW us, State(B, sz, us)
  PROVE  Chain = B /\ SizeOf = sz /\ UsedOf = us
<1>1. start # NULL /\ Tagged(tags, B, sz, us) /\ Tiles(B, sz, start, end) BY DEF State, NULL
<1>2. Chain = B BY <1>1, ChainOfTiles
<1>3. \A b \in B : tags[b].size = sz[b] /\ tags[b].used = us[b]
  <2> SUFFICES ASSUME NEW b \in B PROVE tags[b].size = sz[b] /\ tags[b].used = us[b] OBVIOUS
  <2>1. tags[b] = Header(us[b], sz[b]) BY <1>1, TagsOfBlock
  <2> QED BY <2>1 DEF Header
<1>4. sz \in [B -> Nat] /\ us \in [B -> Flags] BY <1>1 DEF Tagged
<1>5. SizeOf = sz
  <2>1. SizeOf = [b \in B |-> tags[b].size] BY <1>2 DEF SizeOf
  <2> QED BY <2>1, <1>3, <1>4
<1>6. UsedOf = us
  <2>1. UsedOf = [b \in B |-> tags[b].used] BY <1>2 DEF UsedOf
  <2> QED BY <2>1, <1>3, <1>4
<1> QED BY <1>2, <1>5, <1>6

Determined == \A B, sz, us : State(B, sz, us) => State(Chain, SizeOf, UsedOf)

LEMMA StateDetermined == Determined
BY BlocksFound DEF Determined

\* What callers are given is theirs alone, and mapped.
LEMMA HeldApart ==
  ASSUME NEW B, NEW sz, NEW us, State(B, sz, us)
  PROVE  /\ \A r \in live : r.ptr \in Nat /\ r.size \in Nat /\ r.size > 0 /\ r.ptr + r.size <= heapEnd
         /\ \A q, r \in live : q # r => A!Bytes(q) \cap A!Bytes(r) = {}
<1>1. /\ Tagged(tags, B, sz, us) /\ Tiles(B, sz, start, end) /\ heapEnd \in Nat
      /\ EndBlock(end, sz[end]) <= heapEnd /\ Held(B, sz, us, live)
  BY DEF State
<1>2. Apart(B, sz) /\ end \in B /\ \A b \in B : b <= end BY <1>1 DEF Tiles
<1>3. ASSUME NEW r \in live
      PROVE  \E b \in B : /\ b \in Nat /\ sz[b] \in Nat /\ r.ptr = b + 5
                          /\ r.size \in Nat /\ r.size > 0 /\ r.size <= sz[b]
  <2>1. /\ r.ptr \in Nat /\ r.size \in Nat \ {0} /\ r.ptr - MetaSize \in B
        /\ r.size <= sz[r.ptr - MetaSize]
    BY <1>1 DEF Held
  <2>2. PICK b \in B : b = r.ptr - MetaSize BY <2>1
  <2>3. b \in Nat /\ sz[b] \in Nat BY <1>1, TagsOfBlock
  <2>4. r.ptr = b + 5 BY <2>1, <2>2, <2>3 DEF MetaSize
  <2> QED BY <2>1, <2>2, <2>3, <2>4
<1>4. ASSUME NEW r \in live PROVE r.ptr \in Nat /\ r.size \in Nat /\ r.size > 0 /\ r.ptr + r.size <= heapEnd
  <2>1. PICK b \in B : /\ b \in Nat /\ sz[b] \in Nat /\ r.ptr = b + 5
                       /\ r.size \in Nat /\ r.size > 0 /\ r.size <= sz[b]
    BY <1>3
  <2>2. end \in Nat /\ sz[end] \in Nat BY <1>1, <1>2, TagsOfBlock
  <2>3. end + 9 + sz[end] <= heapEnd BY <1>1, <2>2 DEF EndBlock, MetaSize, SizeT
  <2>4. b = end \/ b + 9 + sz[b] <= end
    <3>1. b <= end BY <1>2
    <3>2. b # end => b + 9 + sz[b] <= end \/ end + 9 + sz[end] <= b BY <1>1, <1>2, BeforeOrBehind
    <3> QED BY <2>1, <2>2, <3>1, <3>2
  <2> QED BY <1>1, <2>1, <2>2, <2>3, <2>4
<1>5. ASSUME NEW q \in live, NEW r \in live, q # r
      PROVE  A!Bytes(q) \cap A!Bytes(r) = {}
  <2>1. PICK b \in B : /\ b \in Nat /\ sz[b] \in Nat /\ q.ptr = b + 5
                       /\ q.size \in Nat /\ q.size > 0 /\ q.size <= sz[b]
    BY <1>3
  <2>2. PICK c \in B : /\ c \in Nat /\ sz[c] \in Nat /\ r.ptr = c + 5
                       /\ r.size \in Nat /\ r.size > 0 /\ r.size <= sz[c]
    BY <1>3
  <2>3. b # c BY <1>1, <1>5, <2>1, <2>2 DEF Held
  <2>4. b + 9 + sz[b] <= c \/ c + 9 + sz[c] <= b BY <1>1, <1>2, <2>3, BeforeOrBehind
  <2>5. q.ptr + q.size <= r.ptr \/ r.ptr + r.size <= q.ptr BY <2>1, <2>2, <2>4
  <2> QED BY <2>1, <2>2, <2>5 DEF A!Bytes
<1> QED BY <1>4, <1>5

-------------------------------------------------------------------------------
(* The blocks after each way to write them *)

LEMMA Appended ==
  ASSUME NEW t, NEW B, NEW sz, NEW us, NEW s, NEW e, Tagged(t, B, sz, us), Tiles(B, sz, s, e),
         NEW a, a = e + 9 + sz[e], NEW n \in Nat, NEW u \in Flags
  PROVE  /\ Tagged(PutBlock(t, a, u, n), B \cup {a}, Ext(sz, B, a, n), Ext(us, B, a, u))
         /\ Tiles(B \cup {a}, Ext(sz, B, a, n), s, a)
         /\ a \in Nat /\ a \notin B
<1>1. Sized(B, sz) BY DEF Tagged, Sized
<1>2. e \in B /\ \A b \in B : b <= e /\ (b < e => b + 9 + sz[b] <= e) BY <1>1, TilesMeans
<1>3. \A b \in B : b \in Nat /\ sz[b] \in Nat BY <1>1, Ends
<1>4. a \in Nat /\ \A b \in B : b + 9 + sz[b] <= a
  <2>1. e \in Nat /\ sz[e] \in Nat BY <1>2, <1>3
  <2>2. ASSUME NEW b \in B PROVE b + 9 + sz[b] <= a
    <3>1. b = e \/ b + 9 + sz[b] <= e BY <1>2, <1>3
    <3> QED BY <2>1, <3>1, <1>3
  <2> QED BY <2>1, <2>2
<1>5. Tagged(PutBlock(t, a, u, n), B \cup {a}, Ext(sz, B, a, n), Ext(us, B, a, u))
  BY <1>4, Insert
<1>6. a \notin B BY <1>3, <1>4
<1> DEFINE D == B \cup {a}  z == Ext(sz, B, a, n)
<1>7. Sized(D, z) /\ z[a] = n /\ \A c \in B : z[c] = sz[c]
  <2>1. Sized(D, z) BY <1>5 DEF Tagged, Sized
  <2>2. z[a] = n /\ \A c \in B : z[c] = sz[c] BY <1>6 DEF Ext
  <2> QED BY <2>1, <2>2
<1>8. Tiles(D, z, s, a)
  <2>1. D = B \cup {a} OBVIOUS
  <2> HIDE DEF D, z
  <2> QED BY <1>1, <1>7, <2>1, TilesAppended
<1> QED BY <1>4, <1>5, <1>6, <1>8

\* Of the blocks in B only b has another size and flag.
Only(B, sz, us, z, w, b, n, u) ==
    /\ z[b] = n /\ w[b] = u
    /\ \A c \in B : c # b => z[c] = sz[c] /\ w[c] = us[c]

\* Block b is cut into n bytes and, at m, k bytes.
Cuts(sz, b, n, k, m) == n \in Nat /\ k \in Nat /\ sz[b] = n + 9 + k /\ m = b + 9 + n
AfterSplit(X, B, sz, us, s, e, b, n, m, u, v) ==
    \E z, w : /\ Tagged(X, B \cup {m}, z, w) /\ Tiles(B \cup {m}, z, s, e)
              /\ m \notin B /\ w[m] = v /\ Only(B, sz, us, z, w, b, n, u)

LEMMA Split ==
  ASSUME NEW t, NEW B, NEW sz, NEW us, NEW s, NEW e, Tagged(t, B, sz, us), Tiles(B, sz, s, e),
         NEW b \in B, b # e, NEW n, NEW k, NEW m, Cuts(sz, b, n, k, m),
         NEW u \in Flags, NEW v \in Flags
  PROVE  AfterSplit(PutBlock(PutBlock(t, m, v, k), b, u, n), B, sz, us, s, e, b, n, m, u, v)
<1> USE DEF Cuts
<1>1. Sized(B, sz) /\ us \in [B -> Flags] BY DEF Tagged, Sized
<1>2. Apart(B, sz) BY DEF Tiles
<1>3. b \in Nat /\ sz[b] \in Nat /\ m \in Nat /\ m # b BY <1>1, Ends
<1> DEFINE C == B \ {b}
           o == Over(t, b, 18 + n + k)
           z1 == Ext(sz, C, m, k)
           w1 == Ext(us, C, m, v)
           z == Ext(z1, C \cup {m}, b, n)
           w == Ext(w1, C \cup {m}, b, u)
           p1 == PutBlock(o, m, v, k)
<1>4. \A c \in C : c \in Nat /\ sz[c] \in Nat /\ (b + 9 + sz[b] <= c \/ c + 9 + sz[c] <= b)
  <2> SUFFICES ASSUME NEW c \in C
               PROVE  c \in Nat /\ sz[c] \in Nat /\ (b + 9 + sz[b] <= c \/ c + 9 + sz[c] <= b)
    OBVIOUS
  <2>1. c \in B /\ b # c OBVIOUS
  <2> QED BY <2>1, <1>1, <1>2, Ends, BeforeOrBehind
<1>5. Tagged(o, C, Cut(sz, C), Cut(us, C))
  <2> DEFINE j == 18 + n + k
  <2>1. \A c \in C : c + 9 + sz[c] <= b \/ b + j <= c BY <1>3, <1>4
  <2>2. \A c \in B \ C : b <= c /\ c + 9 + sz[c] <= b + j BY <1>3
  <2>3. C \in SUBSET B /\ j \in Nat /\ b \in Int BY <1>3
  <2> HIDE DEF j, C
  <2>4. Tagged(Over(t, b, j), C, Cut(sz, C), Cut(us, C)) BY <2>1, <2>2, <2>3, Forget
  <2> QED BY <2>4 DEF j
<1>6. Tagged(p1, C \cup {m}, z1, w1)
  <2>1. \A c \in C : Cut(sz, C)[c] = sz[c] BY DEF Cut
  <2>2. \A c \in C : c + 9 + Cut(sz, C)[c] <= m \/ m + 9 + k <= c BY <1>3, <1>4, <2>1
  <2> HIDE DEF C, o
  <2>3. Tagged(p1, C \cup {m}, Ext(Cut(sz, C), C, m, k), Ext(Cut(us, C), C, m, v))
    BY <1>3, <1>5, <2>2, Insert
  <2> QED BY <2>3, ExtOfCut
<1>7. m \notin C BY <1>3, <1>4
<1>8. z1[m] = k /\ \A c \in C : z1[c] = sz[c] BY <1>7 DEF Ext
<1>9. w1[m] = v /\ \A c \in C : w1[c] = us[c] BY <1>7 DEF Ext
<1>10. Tagged(PutBlock(p1, b, u, n), (C \cup {m}) \cup {b}, z, w)
  <2>1. \A c \in C \cup {m} : c + 9 + z1[c] <= b \/ b + 9 + n <= c BY <1>3, <1>4, <1>8
  <2> HIDE DEF C, p1, z1, w1
  <2> QED BY <1>3, <1>6, <2>1, Insert
<1>11. (C \cup {m}) \cup {b} = B \cup {m} OBVIOUS
<1>12. PutBlock(PutBlock(t, m, v, k), b, u, n) = PutBlock(p1, b, u, n)
  <2>1. Plain(t) BY TaggedPlain
  <2> HIDE DEF o
  <2> QED BY <2>1, <1>3, ForgetBeforeSplit DEF o
<1>13. z[b] = n /\ z[m] = k /\ \A c \in B : c # b => z[c] = sz[c]
  <2>1. z[b] = n /\ \A c \in C \cup {m} : c # b => z[c] = z1[c]
    <3> HIDE DEF z1, C
    <3> QED BY DEF Ext
  <2> QED BY <2>1, <1>3, <1>8
<1>14. w[b] = u /\ w[m] = v /\ \A c \in B : c # b => w[c] = us[c]
  <2>1. w[b] = u /\ \A c \in C \cup {m} : c # b => w[c] = w1[c]
    <3> HIDE DEF w1, C
    <3> QED BY DEF Ext
  <2> QED BY <2>1, <1>3, <1>9
<1> HIDE DEF z, w, p1
<1>15. Tagged(PutBlock(PutBlock(t, m, v, k), b, u, n), B \cup {m}, z, w) BY <1>10, <1>11, <1>12
<1>16. Sized(B \cup {m}, z) BY <1>15 DEF Tagged, Sized
<1>17. m \notin B /\ Tiles(B \cup {m}, z, s, e) BY <1>1, <1>13, <1>16, TilesSplit
<1>18. Only(B, sz, us, z, w, b, n, u) BY <1>13, <1>14 DEF Only
<1> QED BY <1>14, <1>15, <1>17, <1>18 DEF AfterSplit

LEMMA Shrunk ==
  ASSUME NEW t, NEW B, NEW sz, NEW us, NEW s, NEW e, Tagged(t, B, sz, us), Tiles(B, sz, s, e),
         NEW n \in Nat, n <= sz[e], NEW u \in Flags
  PROVE  \E z, w :
           /\ Tagged(PutBlock(Over(t, e, 9 + sz[e]), e, u, n), B, z, w)
           /\ Tiles(B, z, s, e) /\ Only(B, sz, us, z, w, e, n, u)
<1>1. Sized(B, sz) /\ us \in [B -> Flags] BY DEF Tagged, Sized
<1>2. Apart(B, sz) /\ e \in B BY DEF Tiles
<1> DEFINE C == B \ {e}
           z == Ext(sz, C, e, n)
           w == Ext(us, C, e, u)
           p == PutBlock(Over(t, e, 9 + sz[e]), e, u, n)
<1>3. C \cup {e} = B BY <1>2
<1>4. Tagged(p, C \cup {e}, z, w)
  <2>1. C = B \ {e} OBVIOUS
  <2> HIDE DEF C
  <2> QED BY <1>2, <2>1, Replace
<1>5. z[e] = n /\ \A c \in B : c # e => z[c] = sz[c] BY DEF Ext
<1>6. w[e] = u /\ \A c \in B : c # e => w[c] = us[c] BY DEF Ext
<1> HIDE DEF z, w, p, C
<1>7. Tagged(p, B, z, w) BY <1>3, <1>4
<1>8. Sized(B, z) BY <1>7 DEF Tagged, Sized
<1>9. Tiles(B, z, s, e) BY <1>1, <1>5, <1>8, TilesShrunk
<1>10. Only(B, sz, us, z, w, e, n, u) BY <1>5, <1>6 DEF Only
<1> QED BY <1>7, <1>9, <1>10 DEF p

LEMMA Joined ==
  ASSUME NEW t, NEW B, NEW sz, NEW us, NEW s, NEW e, Tagged(t, B, sz, us), Tiles(B, sz, s, e),
         NEW b \in B, NEW c \in B, c = b + 9 + sz[b], NEW n, n = sz[b] + 9 + sz[c], NEW u \in Flags,
         NEW l, c = e => l = b, c # e => l = e
  PROVE  \E z, w :
           /\ Tagged(PutBlock(t, b, u, n), B \ {c}, z, w)
           /\ Tiles(B \ {c}, z, s, l) /\ Only(B \ {c}, sz, us, z, w, b, n, u)
<1>1. Sized(B, sz) /\ us \in [B -> Flags] BY DEF Tagged, Sized
<1>2. Apart(B, sz) BY DEF Tiles
<1>3. b \in Nat /\ sz[b] \in Nat /\ c \in Nat /\ sz[c] \in Nat /\ n \in Nat /\ b # c BY <1>1, Ends
<1> DEFINE C == B \ {b, c}
           D == B \ {c}
           o == Over(t, b, 9 + n)
           z == Ext(sz, C, b, n)
           w == Ext(us, C, b, u)
           p == PutBlock(t, b, u, n)
<1>4. \A d \in C : d \in Nat /\ sz[d] \in Nat /\ (b + 9 + n <= d \/ d + 9 + sz[d] <= b)
  <2> SUFFICES ASSUME NEW d \in C
               PROVE  d \in Nat /\ sz[d] \in Nat /\ (b + 9 + n <= d \/ d + 9 + sz[d] <= b)
    OBVIOUS
  <2>1. d \in B /\ b # d /\ c # d OBVIOUS
  <2>2. d \in Nat /\ sz[d] \in Nat BY <2>1, <1>1, Ends
  <2>3. b + 9 + sz[b] <= d \/ d + 9 + sz[d] <= b BY <2>1, <1>2, BeforeOrBehind
  <2>4. c + 9 + sz[c] <= d \/ d + 9 + sz[d] <= c BY <2>1, <1>2, BeforeOrBehind
  <2> QED BY <2>2, <2>3, <2>4, <1>3
<1>5. Tagged(o, C, Cut(sz, C), Cut(us, C))
  <2> DEFINE j == 9 + n
  <2>1. \A d \in C : d + 9 + sz[d] <= b \/ b + j <= d BY <1>3, <1>4
  <2>2. \A d \in B \ C : b <= d /\ d + 9 + sz[d] <= b + j BY <1>3
  <2>3. C \in SUBSET B /\ j \in Nat /\ b \in Int BY <1>3
  <2> HIDE DEF j, C
  <2>4. Tagged(Over(t, b, j), C, Cut(sz, C), Cut(us, C)) BY <2>1, <2>2, <2>3, Forget
  <2> QED BY <2>4 DEF j
<1>6. Tagged(PutBlock(o, b, u, n), C \cup {b}, z, w)
  <2>1. \A d \in C : Cut(sz, C)[d] = sz[d] BY DEF Cut
  <2>2. \A d \in C : d + 9 + Cut(sz, C)[d] <= b \/ b + 9 + n <= d BY <1>3, <1>4, <2>1
  <2> HIDE DEF C, o
  <2>3. Tagged(PutBlock(o, b, u, n), C \cup {b}, Ext(Cut(sz, C), C, b, n), Ext(Cut(us, C), C, b, u))
    BY <1>3, <1>5, <2>2, Insert
  <2> QED BY <2>3, ExtOfCut
<1>7. C \cup {b} = D BY <1>3
<1>8. p = PutBlock(o, b, u, n) BY <1>3, TaggedPlain, ForgetFirst
<1>9. z[b] = n /\ \A d \in D : d # b => z[d] = sz[d] BY DEF Ext
<1>10. w[b] = u /\ \A d \in D : d # b => w[d] = us[d] BY DEF Ext
<1>11. Tagged(p, D, z, w)
  <2> HIDE DEF p, o, C, z, w, D
  <2> QED BY <1>6, <1>7, <1>8
<1>12. D \subseteq B /\ \A d \in B : d # c <=> d \in D OBVIOUS
<1> HIDE DEF z, w, p, D
<1>13. Sized(D, z) BY <1>11 DEF Tagged, Sized
<1>14. Tiles(D, z, s, l)
  <2>1. z[b] = sz[b] + 9 + sz[c] BY <1>9
  <2>2. \A d \in D : d # b => z[d] = sz[d] BY <1>9
  <2>3. D \subseteq B BY <1>12
  <2>4. \A d \in B : d # c <=> d \in D BY <1>12
  <2>5. Sized(B, sz) /\ Joins(B, sz, b, c, D, z) BY <2>1, <2>2, <2>3, <2>4, <1>1, <1>13 DEF Joins
  <2>6. LastOf(b, c, e, l) BY DEF LastOf
  <2> QED BY <2>5, <2>6, TilesJoin
<1>15. Only(D, sz, us, z, w, b, n, u) BY <1>9, <1>10 DEF Only
<1> QED BY <1>11, <1>14, <1>15 DEF p, D

\* Blocks b and c of n bytes together follow one another.
Neighbours(B, sz, b, c, n) == b \in B /\ c \in B /\ c = b + 9 + sz[b] /\ n = sz[b] + 9 + sz[c]
AfterJoin(X, C, sz, us, s, l, b, n) ==
    \E z, w : Tagged(X, C, z, w) /\ Tiles(C, z, s, l) /\ Only(C, sz, us, z, w, b, n, FALSE)

LEMMA JoinedFree ==
  ASSUME NEW t, NEW B, NEW sz, NEW us, NEW s, NEW e, Tagged(t, B, sz, us), Tiles(B, sz, s, e),
         NEW b, NEW c, NEW n, Neighbours(B, sz, b, c, n), NEW l, LastOf(b, c, e, l)
  PROVE  AfterJoin(PutBlock(t, b, FALSE, n), B \ {c}, sz, us, s, l, b, n)
<1> USE DEF Neighbours, LastOf
<1>1. FALSE \in Flags BY DEF Flags
<1>2. b \in B /\ c \in B /\ c = b + 9 + sz[b] /\ n = sz[b] + 9 + sz[c] OBVIOUS
<1>3. (c = e => l = b) /\ (c # e => l = e) OBVIOUS
<1> QED BY <1>1, <1>2, <1>3, Joined DEF AfterJoin

-------------------------------------------------------------------------------
(* What callers hold *)

\* The used blocks of D are those of B, and the block a.
OneMore(B, sz, us, D, z, w, a) ==
    /\ a \in D /\ w[a]
    /\ \A c \in B : us[c] => c # a /\ c \in D /\ w[c] /\ z[c] = sz[c]
    /\ \A c \in D : c # a /\ w[c] => c \in B /\ us[c]
\* The used blocks of D are those of B without the block a.
OneLess(B, sz, us, D, z, w, a) ==
    /\ \A c \in B : us[c] /\ c # a => c \in D /\ w[c] /\ z[c] = sz[c]
    /\ \A c \in D : w[c] => c \in B /\ us[c] /\ c # a
GivenAt(r, a, z) == a \in Nat /\ r.ptr = a + MetaSize /\ r.size \in Nat \ {0} /\ r.size <= z[a]

LEMMA HeldMore ==
  ASSUME NEW B, NEW sz, NEW us, NEW L, Held(B, sz, us, L),
         NEW D, NEW z, NEW w, NEW a, OneMore(B, sz, us, D, z, w, a), NEW r, GivenAt(r, a, z)
  PROVE  Held(D, z, w, L \cup {r}) /\ r \notin L
<1> USE DEF OneMore, GivenAt
<1>1. r.ptr \in Nat /\ r.ptr - MetaSize = a BY DEF MetaSize
<1>2. \A q \in L : /\ q.ptr \in Nat /\ q.size \in Nat \ {0}
                   /\ q.ptr - MetaSize \in B /\ us[q.ptr - MetaSize] /\ q.size <= sz[q.ptr - MetaSize]
  BY DEF Held
<1>3. \A q \in L : /\ q.ptr - MetaSize # a /\ q.ptr - MetaSize \in D /\ w[q.ptr - MetaSize]
                   /\ z[q.ptr - MetaSize] = sz[q.ptr - MetaSize]
  BY <1>2
<1>4. \A q \in L : q.ptr # r.ptr BY <1>1, <1>3
<1>5. r \notin L BY <1>4
<1>6. ASSUME NEW q \in L \cup {r}
      PROVE  /\ q.ptr \in Nat /\ q.size \in Nat \ {0}
             /\ q.ptr - MetaSize \in D /\ w[q.ptr - MetaSize] /\ q.size <= z[q.ptr - MetaSize]
  <2>1. CASE q = r BY <2>1, <1>1
  <2>2. CASE q \in L BY <2>2, <1>2, <1>3
  <2> QED BY <2>1, <2>2
<1>7. \A p, q \in L \cup {r} : p.ptr = q.ptr => p = q
  <2>1. \A p, q \in L : p.ptr = q.ptr => p = q BY DEF Held
  <2> QED BY <2>1, <1>4
<1>8. ASSUME NEW c \in D, w[c] PROVE \E q \in L \cup {r} : q.ptr = c + MetaSize
  <2>1. CASE c = a BY <2>1
  <2>2. CASE c # a
    <3>1. c \in B /\ us[c] BY <2>2, <1>8
    <3> QED BY <3>1 DEF Held
  <2> QED BY <2>1, <2>2
<1>9. Held(D, z, w, L \cup {r}) BY <1>6, <1>7, <1>8 DEF Held
<1> QED BY <1>5, <1>9

LEMMA HeldLess ==
  ASSUME NEW B, NEW sz, NEW us, NEW L, Held(B, sz, us, L), B \subseteq Nat, NEW r \in L,
         NEW D, NEW z, NEW w, NEW a, a = r.ptr - MetaSize, OneLess(B, sz, us, D, z, w, a)
  PROVE  Held(D, z, w, L \ {r})
<1> USE DEF OneLess
<1>1. \A q \in L : /\ q.ptr \in Nat /\ q.size \in Nat \ {0}
                   /\ q.ptr - MetaSize \in B /\ us[q.ptr - MetaSize] /\ q.size <= sz[q.ptr - MetaSize]
  BY DEF Held
<1>2. \A p, q \in L : p.ptr = q.ptr => p = q BY DEF Held
<1>3. ASSUME NEW q \in L \ {r}
      PROVE  /\ q.ptr - MetaSize # a /\ q.ptr - MetaSize \in D /\ w[q.ptr - MetaSize]
             /\ z[q.ptr - MetaSize] = sz[q.ptr - MetaSize]
  <2>1. q.ptr # r.ptr BY <1>2
  <2>2. q.ptr - MetaSize # a BY <2>1, <1>1 DEF MetaSize
  <2> QED BY <2>2, <1>1
<1>4. ASSUME NEW c \in D, w[c] PROVE \E q \in L \ {r} : q.ptr = c + MetaSize
  <2>1. c \in B /\ us[c] /\ c # a BY <1>4
  <2>2. PICK q \in L : q.ptr = c + MetaSize BY <2>1 DEF Held
  <2>3. q # r BY <2>1, <2>2, <1>1 DEF MetaSize
  <2> QED BY <2>2, <2>3
<1> QED BY <1>1, <1>2, <1>3, <1>4 DEF Held

-------------------------------------------------------------------------------
(* Pages *)

LEMMA ProductsOrdered ==
  ASSUME NEW x \in Int, NEW y \in Int, NEW k \in Nat, x <= y
  PROVE  x * k <= y * k
<1>1. (y - x) * k >= 0 OBVIOUS
<1>2. (y - x) * k = y * k - x * k OBVIOUS
<1>3. x * k \in Int /\ y * k \in Int OBVIOUS
<1> QED BY <1>1, <1>2, <1>3

LEMMA PageIsNat == PageSize \in Nat /\ PageSize >= 22
BY HeapAssumption

PageNumber(x) == x \div PageSize
Offset(x) == x % PageSize

LEMMA PageOf ==
  ASSUME NEW x \in Nat
  PROVE  /\ PageNumber(x) \in Nat /\ Offset(x) \in Nat /\ Offset(x) < PageSize
         /\ PageNumber(x) * PageSize \in Nat
         /\ x = PageNumber(x) * PageSize + Offset(x)
<1> DEFINE q == PageNumber(x)  r == Offset(x)
<1>1. PageSize \in Nat /\ PageSize > 0 BY PageIsNat
<1>2. q \in Int /\ r \in 0 .. PageSize - 1 /\ x = PageSize * q + r
  BY <1>1, SMT DEF PageNumber, Offset
<1>3. q >= 0
  <2> SUFFICES ASSUME q <= -1 PROVE FALSE BY <1>2
  <2>1. q * PageSize <= (-1) * PageSize BY <1>1, <1>2, ProductsOrdered
  <2> QED BY <2>1, <1>1, <1>2
<1>4. PageSize * q = q * PageSize /\ q * PageSize \in Nat BY <1>1, <1>2, <1>3
<1> HIDE DEF q, r
<1>5. q \in Nat /\ r \in Nat /\ r < PageSize /\ q * PageSize \in Nat /\ x = q * PageSize + r
  BY <1>1, <1>2, <1>3, <1>4
<1> QED BY <1>5 DEF q, r

LEMMA MultipleOfPage ==
  ASSUME NEW j \in Nat
  PROVE  (j * PageSize) % PageSize = 0
<1> DEFINE x == j * PageSize  q == PageNumber(x)  r == Offset(x)
<1>1. PageSize \in Nat /\ PageSize > 0 /\ x \in Nat BY PageIsNat
<1>2. q \in Nat /\ r \in Nat /\ r < PageSize /\ q * PageSize \in Nat /\ x = q * PageSize + r
  BY <1>1, PageOf
<1>3. ~(j < q)
  <2> SUFFICES ASSUME j + 1 <= q PROVE FALSE BY <1>2
  <2>1. (j + 1) * PageSize <= q * PageSize BY <1>1, <1>2, ProductsOrdered
  <2>2. (j + 1) * PageSize = j * PageSize + PageSize BY <1>1
  <2> QED BY <1>1, <1>2, <2>1, <2>2
<1>4. ~(q < j)
  <2> SUFFICES ASSUME q + 1 <= j PROVE FALSE BY <1>2
  <2>1. (q + 1) * PageSize <= j * PageSize BY <1>1, <1>2, ProductsOrdered
  <2>2. (q + 1) * PageSize = q * PageSize + PageSize BY <1>1, <1>2
  <2> QED BY <1>1, <1>2, <2>1, <2>2
<1>5. q = j BY <1>2, <1>3, <1>4
<1> HIDE DEF q, r
<1>6. r = 0 BY <1>1, <1>2, <1>5
<1> QED BY <1>6 DEF r, Offset

LEMMA WholeIsMultiple ==
  ASSUME NEW n \in Nat, WholePages(n)
  PROVE  n % PageSize = 0
<1>1. PICK k \in 0 .. n : n = k * PageSize BY DEF WholePages
<1>2. k \in Nat BY <1>1
<1> QED BY <1>1, <1>2, MultipleOfPage

LEMMA WholePagesMore ==
  ASSUME NEW n \in Nat, WholePages(n), NEW p \in Nat
  PROVE  p * PageSize \in Nat /\ n + p * PageSize \in Nat /\ WholePages(n + p * PageSize)
<1>1. PICK k \in 0 .. n : n = k * PageSize BY DEF WholePages
<1>2. k \in Nat /\ PageSize \in Nat /\ PageSize >= 1 BY <1>1, PageIsNat
<1>3. p * PageSize \in Nat /\ (k + p) * PageSize = k * PageSize + p * PageSize BY <1>2
<1>4. 1 * (k + p) <= PageSize * (k + p) BY <1>2, ProductsOrdered
<1>5. PageSize * (k + p) = (k + p) * PageSize /\ k + p \in Nat BY <1>2
<1>6. k + p <= n + p * PageSize BY <1>1, <1>2, <1>3, <1>4, <1>5
<1>7. k + p \in 0 .. n + p * PageSize BY <1>2, <1>3, <1>6
<1> QED BY <1>1, <1>3, <1>7 DEF WholePages

\* The pages asked for hold what goes behind the last one.
LEMMA PagesCover ==
  ASSUME NEW n \in Nat, WholePages(n), NEW from \in Nat, NEW to \in Nat, from <= n, from <= to
  PROVE  /\ NumPages(from, to) \in Nat
         /\ n + NumPages(from, to) * PageSize >= to
<1> DEFINE a == PageNumber(from)  b == PageNumber(to)  x == Offset(from)  y == Offset(to)
           c == IF y # 0 THEN 1 ELSE 0
<1>1. PICK k \in 0 .. n : n = k * PageSize BY DEF WholePages
<1>2. k \in Nat /\ PageSize \in Nat /\ PageSize >= 1 BY <1>1, PageIsNat
<1>3. a \in Nat /\ x \in Nat /\ x < PageSize /\ a * PageSize \in Nat /\ from = a * PageSize + x BY PageOf
<1>4. b \in Nat /\ y \in Nat /\ y < PageSize /\ b * PageSize \in Nat /\ to = b * PageSize + y BY PageOf
<1>5. c \in {0, 1} /\ (y # 0 => c = 1) OBVIOUS
<1>6. NumPages(from, to) = b - a + c BY DEF NumPages, PageNumber, Offset
<1> HIDE DEF a, b, c, x, y
<1>7. a <= k
  <2> SUFFICES ASSUME k + 1 <= a PROVE FALSE BY <1>2, <1>3
  <2>1. (k + 1) * PageSize <= a * PageSize BY <1>2, <1>3, ProductsOrdered
  <2>2. (k + 1) * PageSize = k * PageSize + PageSize BY <1>2
  <2> QED BY <1>1, <1>2, <1>3, <2>1, <2>2
<1>8. a <= b
  <2> SUFFICES ASSUME b + 1 <= a PROVE FALSE BY <1>3, <1>4
  <2>1. (b + 1) * PageSize <= a * PageSize BY <1>2, <1>3, <1>4, ProductsOrdered
  <2>2. (b + 1) * PageSize = b * PageSize + PageSize BY <1>2, <1>4
  <2> QED BY <1>2, <1>3, <1>4, <2>1, <2>2
<1>9. b - a + c \in Nat BY <1>3, <1>4, <1>5, <1>8
<1>10. a * PageSize <= k * PageSize BY <1>2, <1>3, <1>7, ProductsOrdered
<1>11. (b - a + c) * PageSize = b * PageSize - a * PageSize + c * PageSize
  BY <1>2, <1>3, <1>4, <1>5
<1>12. y <= c * PageSize
  <2>1. CASE y = 0
    <3>1. c * PageSize \in Nat BY <1>2, <1>5
    <3> QED BY <2>1, <3>1
  <2>2. CASE y # 0
    <3>1. c * PageSize = PageSize BY <1>2, <1>5, <2>2
    <3> QED BY <3>1, <1>2, <1>4
  <2> QED BY <2>1, <2>2
<1>13. c * PageSize \in Nat /\ k * PageSize \in Nat BY <1>2, <1>5
<1>14. n + (b - a + c) * PageSize >= to
  BY <1>1, <1>3, <1>4, <1>10, <1>11, <1>12, <1>13
<1> QED BY <1>6, <1>9, <1>14

-------------------------------------------------------------------------------
(* One lemma for each way to allocate and to free *)

Served ==
    \E r : /\ r \notin live /\ live' = live \cup {r}
           /\ r.aligned => r.ptr % PageSize = 0 /\ r.size % PageSize = 0

Found(B, sz, us) == WholePages(heapEnd) /\ State(B, sz, us)

\* What a step leaves: the tags X are the blocks D.
Leaves(X, D, z, w) ==
    /\ Tagged(X, D, z, w) /\ Tiles(D, z, start', end')
    /\ start' \in Nat /\ heapEnd' \in Nat /\ EndBlock(end', z[end']) <= heapEnd'
\* A size that block b holds, pages if aligned.
Holds(z, b, n, al) ==
    /\ n \in Nat \ {0} /\ n <= z[b]
    /\ al => (b + MetaSize) % PageSize = 0 /\ n % PageSize = 0

\* A block of the new blocks D is returned to a caller.
LEMMA ServedBlock ==
  ASSUME NEW B, NEW sz, NEW us, Held(B, sz, us, live),
         NEW X, NEW D, NEW z, NEW w, Leaves(X, D, z, w),
         NEW b, OneMore(B, sz, us, D, z, w, b), NEW n, NEW al, Holds(z, b, n, al),
         Return(X, b, n, al)
  PROVE  Served /\ State(D, z, w)'
<1>0. b \in D BY DEF OneMore
<1> DEFINE r == [ptr |-> b + MetaSize, size |-> n, aligned |-> al]
<1>1. tags' = Over(X, b + MetaSize, n) /\ live' = live \cup {r} BY DEF Return
<1>2. Tagged(X, D, z, w) /\ Apart(D, z) /\ b \in Nat BY <1>0, TagsOfBlock DEF Tiles, Leaves
<1>3. tags' = X
  <2>1. n \in Nat /\ n <= z[b] BY DEF Holds
  <2> QED BY <1>0, <1>1, <1>2, <2>1, TagsOutlastCallers
<1>4. r.ptr = b + MetaSize /\ r.size = n /\ r.aligned = al OBVIOUS
<1> HIDE DEF r
<1>5. Held(D, z, w, live \cup {r}) /\ r \notin live
  <2>1. GivenAt(r, b, z) BY <1>2, <1>4 DEF GivenAt, Holds
  <2> QED BY <2>1, HeldMore
<1>6. Served BY <1>1, <1>4, <1>5 DEF Served, Holds
<1>7. State(D, z, w)'
  <2>1. Tagged(tags', D, z, w) BY <1>2, <1>3
  <2>2. Held(D, z, w, live') BY <1>1, <1>5
  <2> QED BY <2>1, <2>2 DEF State, Leaves
<1> QED BY <1>6, <1>7

LEMMA Grown ==
  ASSUME WholePages(heapEnd), heapEnd \in Nat, NEW p \in Nat, Grow(p)
  PROVE  /\ heapEnd' = heapEnd + p * PageSize /\ p * PageSize \in Nat
         /\ heapEnd' \in Nat /\ WholePages(heapEnd') /\ heapEnd' >= heapEnd
<1>1. heapEnd' = heapEnd + p * PageSize BY DEF Grow
<1>2. p * PageSize \in Nat /\ heapEnd + p * PageSize \in Nat /\ WholePages(heapEnd + p * PageSize)
  BY WholePagesMore
<1>3. heapEnd' \in Nat /\ WholePages(heapEnd') BY <1>1, <1>2
<1> QED BY <1>1, <1>2, <1>3

\* The first block of an empty heap.
LEMMA FirstBlock ==
  ASSUME Empty, NEW n \in Nat, NEW u \in Flags
  PROVE  \E z, w : /\ Tagged(PutBlock(tags, 0, u, n), {0}, z, w) /\ Tiles({0}, z, 0, 0)
                   /\ z[0] = n /\ w[0] = u
<1> DEFINE z0 == [b \in {} |-> 0]
           w0 == [b \in {} |-> 0]
           z == Ext(z0, {}, 0, n)
           w == Ext(w0, {}, 0, u)
<1>1. Tagged(tags, {}, z0, w0) BY DEF Tagged, Empty
<1>2. Tagged(PutBlock(tags, 0, u, n), {} \cup {0}, z, w)
  <2> HIDE DEF z0, w0
  <2>1. \A b \in {} : b + 9 + z0[b] <= 0 \/ 0 + 9 + n <= b OBVIOUS
  <2> QED BY <1>1, <2>1, Insert
<1>3. {} \cup {0} = {0} OBVIOUS
<1>4. z[0] = n /\ w[0] = u BY DEF Ext
<1> HIDE DEF z, w
<1>5. Tagged(PutBlock(tags, 0, u, n), {0}, z, w) BY <1>2, <1>3
<1>6. Sized({0}, z) BY <1>5 DEF Tagged, Sized
<1>7. Tiles({0}, z, 0, 0) BY <1>6, TilesMeans
<1> QED BY <1>4, <1>5, <1>7

LEMMA FirstMalloc ==
  ASSUME Empty, WholePages(heapEnd), NEW size \in Sizes, MallocFirst(size)
  PROVE  Served /\ heapEnd' >= heapEnd /\ \E B, sz, us : Found(B, sz, us)'
<1>1. heapEnd = 0 /\ start' = 0 /\ end' = 0 BY DEF Empty, MallocFirst
<1>2. size \in Nat \ {0} BY HeapAssumption
<1>3. EndBlock(0, size) = 9 + size /\ 9 + size \in Nat BY <1>2 DEF EndBlock, MetaSize, SizeT
<1> DEFINE p == NumPages(0, EndBlock(0, size))
<1>4. p \in Nat /\ heapEnd + p * PageSize >= EndBlock(0, size) BY <1>1, <1>3, PagesCover
<1>5. /\ heapEnd' = heapEnd + p * PageSize /\ heapEnd' \in Nat /\ WholePages(heapEnd')
      /\ heapEnd' >= heapEnd
  <2>1. Grow(p) BY DEF MallocFirst
  <2> HIDE DEF p
  <2> QED BY <1>1, <1>4, <2>1, Grown
<1>6. PICK z, w : /\ Tagged(PutBlock(tags, 0, TRUE, size), {0}, z, w) /\ Tiles({0}, z, 0, 0)
                  /\ z[0] = size /\ w[0] = TRUE
  <2>1. TRUE \in Flags BY DEF Flags
  <2> QED BY <1>2, <2>1, FirstBlock
<1> DEFINE X == PutBlock(tags, 0, TRUE, size)
<1>7. Return(X, 0, size, FALSE) BY <1>1 DEF MallocFirst
<1>8. Held({}, z, w, live) BY DEF Empty, Held
<1>9. Served /\ State({0}, z, w)'
  <2>1. EndBlock(end', z[end']) <= heapEnd' BY <1>1, <1>4, <1>5, <1>6
  <2>2. Leaves(X, {0}, z, w) BY <1>1, <1>5, <1>6, <2>1 DEF Leaves
  <2>3. OneMore({}, z, w, {0}, z, w, 0) BY <1>6 DEF OneMore
  <2>4. Holds(z, 0, size, FALSE) BY <1>2, <1>6 DEF Holds
  <2> HIDE DEF X
  <2> QED BY <1>7, <1>8, <2>2, <2>3, <2>4, ServedBlock
<1> QED BY <1>5, <1>9 DEF Found

\* What the code reads at a block.
LEMMA Reads ==
  ASSUME NEW B, NEW sz, NEW us, State(B, sz, us), NEW b \in B
  PROVE  /\ b \in Nat /\ sz[b] \in Nat /\ us[b] \in Flags
         /\ tags[b].size = sz[b] /\ tags[b].used = us[b] /\ NextBlock(b) = b + 9 + sz[b]
<1>1. Tagged(tags, B, sz, us) BY DEF State
<1>2. b \in Nat /\ sz[b] \in Nat /\ us[b] \in Flags BY <1>1, TagsOfBlock
<1>3. tags[b] = Header(us[b], sz[b]) BY <1>1, TagsOfBlock
<1>4. tags[b].size = sz[b] /\ tags[b].used = us[b] BY <1>3 DEF Header
<1>5. NextBlock(b) = b + 9 + sz[b] BY <1>2, <1>4 DEF NextBlock, EndBlock, MetaSize, SizeT
<1> QED BY <1>2, <1>4, <1>5

\* The blocks end inside the heap.
LEMMA EndInside ==
  ASSUME NEW B, NEW sz, NEW us, State(B, sz, us)
  PROVE  /\ end \in B /\ start \in B /\ heapEnd \in Nat /\ end + 9 + sz[end] <= heapEnd
         /\ start # NULL
<1>1. end \in B /\ start \in B /\ heapEnd \in Nat /\ EndBlock(end, sz[end]) <= heapEnd /\ start # NULL
  BY DEF State, Tiles, NULL
<1>2. end \in Nat /\ sz[end] \in Nat BY <1>1, Reads
<1>3. EndBlock(end, sz[end]) = end + 9 + sz[end] BY <1>2 DEF EndBlock, MetaSize, SizeT
<1> QED BY <1>1, <1>3

LEMMA ExtendMalloc ==
  ASSUME NEW B, NEW sz, NEW us, Found(B, sz, us), NEW size \in Sizes, MallocExtend(size)
  PROVE  Served /\ heapEnd' >= heapEnd /\ \E D, z, w : Found(D, z, w)'
<1>1. /\ WholePages(heapEnd) /\ State(B, sz, us) /\ Held(B, sz, us, live)
      /\ Tagged(tags, B, sz, us) /\ Tiles(B, sz, start, end)
  BY DEF Found, State
<1>2. end \in B /\ heapEnd \in Nat /\ end + 9 + sz[end] <= heapEnd BY <1>1, EndInside
<1>3. end \in Nat /\ sz[end] \in Nat /\ NextBlock(end) = end + 9 + sz[end] BY <1>1, <1>2, Reads
<1>4. size \in Nat \ {0} /\ TRUE \in Flags BY HeapAssumption DEF Flags
<1> DEFINE a == end + 9 + sz[end]
           X == PutBlock(tags, a, TRUE, size)
           D == B \cup {a}
           z == Ext(sz, B, a, size)
           w == Ext(us, B, a, TRUE)
<1>5. end' = a /\ start' = start /\ Return(X, a, size, FALSE) /\ a \in Nat /\ a <= heapEnd
  <2>1. end' = a /\ start' = start BY <1>3 DEF MallocExtend
  <2>2. Return(PutBlock(tags, end', TRUE, size), end', size, FALSE) BY DEF MallocExtend
  <2>3. a \in Nat /\ a <= heapEnd BY <1>2, <1>3
  <2> HIDE DEF a
  <2> QED BY <2>1, <2>2, <2>3
<1>6. Tagged(X, D, z, w) /\ Tiles(D, z, start, a) /\ a \notin B
  <2>1. a = end + 9 + sz[end] OBVIOUS
  <2> HIDE DEF a
  <2> QED BY <1>1, <1>4, <2>1, Appended
<1>7. EndBlock(a, size) = a + 9 + size /\ a + 9 + size \in Nat
  BY <1>4, <1>5 DEF EndBlock, MetaSize, SizeT
<1>8. /\ heapEnd' \in Nat /\ WholePages(heapEnd') /\ heapEnd' >= heapEnd
      /\ EndBlock(a, size) <= heapEnd'
  <2>1. CASE NeedsPages(a, size)
    <3> DEFINE p == NumPages(a, EndBlock(a, size))
    <3>1. Grow(p) BY <2>1, <1>3 DEF MallocExtend
    <3>2. p \in Nat /\ heapEnd + p * PageSize >= EndBlock(a, size)
      <4> DEFINE E == EndBlock(a, size)
      <4>1. E \in Nat /\ a <= E BY <1>4, <1>5, <1>7
      <4> HIDE DEF E, a
      <4> QED BY <1>1, <1>2, <1>5, <4>1, PagesCover DEF E
    <3> HIDE DEF p, a
    <3> QED BY <1>1, <1>2, <3>1, <3>2, Grown
  <2>2. CASE ~NeedsPages(a, size)
    <3>1. heapEnd' = heapEnd BY <2>2, <1>3 DEF MallocExtend
    <3> QED BY <3>1, <2>2, <1>1, <1>2, <1>7 DEF NeedsPages
  <2> QED BY <2>1, <2>2
<1>9. z[a] = size /\ w[a] = TRUE /\ \A c \in B : z[c] = sz[c] /\ w[c] = us[c]
  <2> HIDE DEF a
  <2> QED BY <1>6 DEF Ext
<1>10. start' \in Nat BY <1>1, <1>5 DEF State
<1> HIDE DEF X, D, z, w, a
<1>11. Leaves(X, D, z, w) BY <1>5, <1>6, <1>8, <1>9, <1>10 DEF Leaves
<1>12. OneMore(B, sz, us, D, z, w, a) BY <1>6, <1>9 DEF OneMore, D
<1>13. Holds(z, a, size, FALSE) BY <1>4, <1>9 DEF Holds
<1>14. Served /\ \E E, y, v : State(E, y, v)'
  <2>1. Held(B, sz, us, live) /\ Return(X, a, size, FALSE) BY <1>1, <1>5
  <2>2. PICK E, y, v : Leaves(X, E, y, v) /\ OneMore(B, sz, us, E, y, v, a) /\ Holds(y, a, size, FALSE)
    BY <1>11, <1>12, <1>13
  <2>3. Served /\ State(E, y, v)' BY <2>1, <2>2, ServedBlock
  <2> QED BY <2>3
<1> QED BY <1>8, <1>14 DEF Found

\* Cutting a block from a free one keeps the blocks and uses one more.
LEMMA CutBlock ==
  ASSUME NEW B, NEW sz, NEW us, State(B, sz, us), NEW b \in B, ~us[b],
         NEW size \in Nat \ {0}, size <= sz[b]
  PROVE  \E D, z, w : /\ Tagged(CutTo(b, size), D, z, w) /\ Tiles(D, z, start, end)
                      /\ OneMore(B, sz, us, D, z, w, b) /\ size <= z[b]
                      /\ z[end] <= sz[end]
<1>1. Tagged(tags, B, sz, us) /\ Tiles(B, sz, start, end) /\ Apart(B, sz) /\ end \in B
  BY DEF State, Tiles
<1>2. b \in Nat /\ sz[b] \in Nat /\ us[b] \in Flags /\ tags[b].size = sz[b] BY Reads
<1>3. TRUE \in Flags /\ FALSE \in Flags BY DEF Flags
<1>4. sz[end] \in Nat BY <1>1, Reads
<1> DEFINE left == sz[b] - size
<1>5. CASE left >= 13 /\ b = end
  <2>1. CutTo(b, size) = PutBlock(Over(tags, b, 9 + sz[b]), b, TRUE, size)
    <3>1. MetaSize + tags[b].size + SizeT = 9 + sz[b] BY <1>2 DEF MetaSize, SizeT
    <3>2. tags[b].size - size >= SplitFrom BY <1>2, <1>5 DEF SplitFrom, MinSplit, MetaSize, SizeT
    <3> QED BY <3>1, <3>2, <1>5 DEF CutTo
  <2>2. PICK z, w : /\ Tagged(PutBlock(Over(tags, end, 9 + sz[end]), end, TRUE, size), B, z, w)
                    /\ Tiles(B, z, start, end) /\ Only(B, sz, us, z, w, end, size, TRUE)
    <3>1. size <= sz[end] BY <1>5
    <3> QED BY <1>1, <1>3, <3>1, Shrunk
  <2>3. OneMore(B, sz, us, B, z, w, b) BY <2>2, <1>5 DEF OneMore, Only
  <2>4. size <= z[b] /\ z[end] <= sz[end] BY <2>2, <1>5 DEF Only
  <2>5. Tagged(CutTo(b, size), B, z, w) BY <2>1, <2>2, <1>5
  <2> QED BY <2>2, <2>3, <2>4, <2>5
<1>6. CASE left >= 13 /\ b # end
  <2> DEFINE k == left - 9  m == b + 9 + size
  <2>1. k \in Nat /\ sz[b] = size + 9 + k /\ size \in Nat BY <1>2, <1>6
  <2>2. CutTo(b, size) = PutBlock(PutBlock(tags, m, FALSE, k), b, TRUE, size)
    <3>1. tags[b].size - size - MetaSize - SizeT = k BY <1>2 DEF MetaSize, SizeT
    <3>2. EndBlock(b, size) = m BY <1>2 DEF EndBlock, MetaSize, SizeT
    <3>3. tags[b].size - size >= SplitFrom BY <1>2, <1>6 DEF SplitFrom, MinSplit, MetaSize, SizeT
    <3> HIDE DEF k, m
    <3> QED BY <3>1, <3>2, <3>3, <1>6 DEF CutTo
  <2>3. m = b + 9 + size OBVIOUS
  <2> HIDE DEF k, m
  <2>4. PICK z, w : /\ Tagged(PutBlock(PutBlock(tags, m, FALSE, k), b, TRUE, size), B \cup {m}, z, w)
                    /\ Tiles(B \cup {m}, z, start, end) /\ m \notin B /\ w[m] = FALSE
                    /\ Only(B, sz, us, z, w, b, size, TRUE)
    <3>1. Cuts(sz, b, size, k, m) BY <2>1, <2>3 DEF Cuts
    <3> DEFINE X == PutBlock(PutBlock(tags, m, FALSE, k), b, TRUE, size)
    <3>2. AfterSplit(X, B, sz, us, start, end, b, size, m, TRUE, FALSE)
      BY <1>1, <1>3, <1>6, <3>1, Split
    <3> QED BY <3>2 DEF AfterSplit
  <2>5. OneMore(B, sz, us, B \cup {m}, z, w, b) BY <2>4 DEF OneMore, Only
  <2>6. size <= z[b] /\ z[end] <= sz[end] BY <2>4, <1>1, <1>4, <1>6 DEF Only
  <2>7. Tagged(CutTo(b, size), B \cup {m}, z, w) BY <2>2, <2>4
  <2> QED BY <2>4, <2>5, <2>6, <2>7
<1>7. CASE ~(left >= 13)
  <2> DEFINE w == Ext(us, B, b, TRUE)
  <2>1. CutTo(b, size) = Put(tags, b, Header(TRUE, sz[b]))
    <3>1. ~(tags[b].size - size >= SplitFrom) BY <1>2, <1>7 DEF SplitFrom, MinSplit, MetaSize, SizeT
    <3> QED BY <3>1, <1>2 DEF CutTo
  <2>2. Tagged(CutTo(b, size), B, sz, w) BY <1>1, <1>3, <2>1, Retag
  <2>3. w[b] = TRUE /\ \A c \in B : c # b => w[c] = us[c] BY DEF Ext
  <2> HIDE DEF w
  <2>4. OneMore(B, sz, us, B, sz, w, b) BY <2>3 DEF OneMore
  <2>5. sz[end] <= sz[end] BY <1>4
  <2> QED BY <1>1, <2>2, <2>4, <2>5
<1> HIDE DEF left
<1> QED BY <1>5, <1>6, <1>7

LEMMA ReuseMalloc ==
  ASSUME NEW B, NEW sz, NEW us, Found(B, sz, us), NEW size \in Sizes, MallocReuse(size)
  PROVE  Served /\ heapEnd' >= heapEnd /\ \E D, z, w : Found(D, z, w)'
<1>1. /\ WholePages(heapEnd) /\ State(B, sz, us) /\ Held(B, sz, us, live) /\ Chain = B
      /\ start \in Nat /\ heapEnd \in Nat
  BY BlocksFound DEF Found, State
<1>2. PICK b \in Fits(size) : Return(CutTo(b, size), b, size, FALSE)
  BY DEF MallocReuse
<1>3. start' = start /\ end' = end /\ heapEnd' = heapEnd BY DEF MallocReuse
<1>4. size \in Nat \ {0} BY HeapAssumption
<1>5. b \in B /\ ~tags[b].used /\ tags[b].size >= size BY <1>1, <1>2 DEF Fits
<1>6. b \in Nat /\ sz[b] \in Nat /\ tags[b].size = sz[b] /\ tags[b].used = us[b] BY <1>1, <1>5, Reads
<1>7. ~us[b] /\ size <= sz[b] BY <1>4, <1>5, <1>6
<1>8. PICK D, z, w : /\ Tagged(CutTo(b, size), D, z, w) /\ Tiles(D, z, start, end)
                     /\ OneMore(B, sz, us, D, z, w, b) /\ size <= z[b] /\ z[end] <= sz[end]
  BY <1>1, <1>4, <1>5, <1>7, CutBlock
<1>9. Leaves(CutTo(b, size), D, z, w)
  <2>1. end \in B /\ end + 9 + sz[end] <= heapEnd BY <1>1, EndInside
  <2>2. end \in Nat /\ sz[end] \in Nat BY <1>1, <2>1, Reads
  <2>3. end \in D /\ z[end] \in Nat BY <1>8 DEF Tagged, Tiles
  <2>4. EndBlock(end, z[end]) <= heapEnd BY <1>1, <1>8, <2>1, <2>2, <2>3 DEF EndBlock, MetaSize, SizeT
  <2> QED BY <1>1, <1>3, <1>8, <2>4 DEF Leaves
<1>10. Holds(z, b, size, FALSE) BY <1>4, <1>8 DEF Holds
<1>11. Served /\ State(D, z, w)' BY <1>1, <1>2, <1>8, <1>9, <1>10, ServedBlock
<1>12. WholePages(heapEnd') /\ heapEnd' >= heapEnd BY <1>1, <1>3
<1> QED BY <1>11, <1>12 DEF Found

\* The blocks D have the used blocks of B, and no other.
SameUsed(B, sz, us, D, z, w) ==
    /\ \A c \in B : us[c] => c \in D /\ w[c] /\ z[c] = sz[c]
    /\ \A c \in D : w[c] => c \in B /\ us[c]
\* What a step wrote first: the tags X of the blocks D, the last of them at a.
Wrote(X, D, z, w, a) == Tagged(X, D, z, w) /\ Tiles(D, z, start', a) /\ start' \in Nat

\* The pages behind the block that fills the gap, which ends MetaSize bytes
\* before a page boundary.
LEMMA PagesBehind ==
  ASSUME WholePages(heapEnd), heapEnd \in Nat, NEW pages \in PageCounts, MallocPages(pages),
         NEW B, NEW sz, NEW us, Held(B, sz, us, live),
         NEW Y, NEW C, NEW y, NEW v, NEW a, Wrote(Y, C, y, v, a), SameUsed(B, sz, us, C, y, v),
         a = AfterEnd, y[a] = FillerSize, Y = PutBlock(tags, AfterEnd, FALSE, FillerSize)
  PROVE  Served /\ heapEnd' >= heapEnd /\ \E D, z, w : Found(D, z, w)'
<1> DEFINE h == heapEnd + FirstPages * PageSize
           e == a + 9 + y[a]
           n == PageSize * pages
           X == PutBlock(Y, e, TRUE, n)
           D == C \cup {e}
           z == Ext(y, C, e, n)
           w == Ext(v, C, e, TRUE)
<1>1. PageSize \in Nat /\ PageSize >= 22 /\ pages \in Nat /\ pages >= 1 BY HeapAssumption
<1>2. FirstPages \in Nat BY DEF FirstPages
<1>3. h \in Nat /\ WholePages(h) /\ h % PageSize = 0
  <2>1. FirstPages * PageSize \in Nat /\ heapEnd + FirstPages * PageSize \in Nat /\ WholePages(heapEnd + FirstPages * PageSize)
    BY <1>2, WholePagesMore
  <2> HIDE DEF h
  <2>2. h \in Nat /\ WholePages(h) BY <2>1 DEF h
  <2> QED BY <2>2, WholeIsMultiple
<1>4. n = pages * PageSize /\ n \in Nat /\ n >= PageSize /\ n % PageSize = 0
  <2>1. pages * PageSize \in Nat /\ n = pages * PageSize BY <1>1
  <2>2. 1 * PageSize <= pages * PageSize BY <1>1, ProductsOrdered
  <2>3. (pages * PageSize) % PageSize = 0 BY <1>1, MultipleOfPage
  <2> HIDE DEF n
  <2> QED BY <1>1, <2>1, <2>2, <2>3
<1>5. Tagged(Y, C, y, v) /\ Tiles(C, y, start', a) /\ start' \in Nat BY DEF Wrote
<1>6. a \in C /\ a \in Nat /\ y[a] \in Nat
  <2>1. a \in C BY <1>5 DEF Tiles
  <2> QED BY <2>1, <1>5, TagsOfBlock
<1>7. e = h - 5 /\ e \in Nat
  <2>1. y[a] = h - a - 14
    <3>1. Gap = h - a
      <4> DEFINE k == FirstPages * PageSize
      <4>1. k \in Nat BY <1>1, <1>2
      <4>2. Gap = heapEnd + (k - AfterEnd) BY DEF Gap
      <4> HIDE DEF k
      <4>3. Gap = (heapEnd + k) - a BY <4>1, <4>2, <1>6
      <4> QED BY <4>3 DEF k
    <3> HIDE DEF h
    <3>2. Gap \in Int BY <3>1, <1>3, <1>6
    <3>3. FillerSize = Gap - 14 BY <3>2 DEF FillerSize, MetaSize, SizeT
    <3> QED BY <3>1, <3>3
  <2> HIDE DEF h
  <2> QED BY <2>1, <1>3, <1>6
<1>8. end' = e /\ Return(X, e, n, TRUE)
  <2>1. EndBlock(AfterEnd, FillerSize) = e
    <3>1. EndBlock(a, y[a]) = e BY <1>6 DEF EndBlock, MetaSize, SizeT
    <3> HIDE DEF e
    <3> QED BY <3>1
  <2>2. end' = e BY <2>1 DEF MallocPages
  <2>3. Return(PutBlock(PutBlock(tags, AfterEnd, FALSE, FillerSize), end', TRUE, PageSize * pages),
               end', PageSize * pages, TRUE)
    BY DEF MallocPages
  <2> HIDE DEF e
  <2> QED BY <2>2, <2>3
<1>9. Tagged(X, D, z, w) /\ Tiles(D, z, start', e) /\ e \notin C
  <2>1. e = a + 9 + y[a] /\ TRUE \in Flags BY DEF Flags
  <2>2. n \in Nat BY <1>4
  <2> HIDE DEF e, n
  <2> QED BY <1>5, <2>1, <2>2, Appended
<1>10. z[e] = n /\ w[e] = TRUE /\ \A c \in C : z[c] = y[c] /\ w[c] = v[c]
  <2> HIDE DEF e, n
  <2> QED BY <1>9 DEF Ext
<1>11. /\ heapEnd' \in Nat /\ WholePages(heapEnd') /\ heapEnd' >= heapEnd
       /\ e + 9 + n <= heapEnd'
  <2>1. Grow(FirstPages + pages + 1) BY DEF MallocPages
  <2> DEFINE p == FirstPages + pages + 1
  <2>2. p \in Nat BY <1>1, <1>2
  <2>3. p * PageSize = FirstPages * PageSize + pages * PageSize + PageSize BY <1>1, <1>2
  <2> HIDE DEF p
  <2>4. /\ heapEnd' = heapEnd + p * PageSize /\ heapEnd' \in Nat /\ WholePages(heapEnd')
        /\ heapEnd' >= heapEnd
    BY <2>1, <2>2, Grown DEF p
  <2>5. FirstPages * PageSize \in Nat BY <1>1, <1>2
  <2>6. heapEnd' = h + n + PageSize BY <1>1, <1>4, <2>3, <2>4, <2>5
  <2> HIDE DEF h, n, e
  <2> QED BY <1>1, <1>3, <1>4, <1>7, <2>4, <2>6
<1>12. EndBlock(end', z[end']) <= heapEnd'
  <2> HIDE DEF e, n, z
  <2> QED BY <1>4, <1>7, <1>8, <1>10, <1>11 DEF EndBlock, MetaSize, SizeT
<1>13. e + MetaSize = h
  <2> HIDE DEF e, h
  <2> QED BY <1>3, <1>7 DEF MetaSize
<1> HIDE DEF X, D, z, w, e, n, h
<1>14. Leaves(X, D, z, w) BY <1>5, <1>8, <1>9, <1>11, <1>12 DEF Leaves
<1>15. OneMore(B, sz, us, D, z, w, e) BY <1>9, <1>10 DEF OneMore, SameUsed, D
<1>16. Holds(z, e, n, TRUE) BY <1>1, <1>3, <1>4, <1>10, <1>13 DEF Holds
<1>17. Served /\ \E E, x, u : State(E, x, u)'
  <2>1. PICK E, x, u : Leaves(X, E, x, u) /\ OneMore(B, sz, us, E, x, u, e) /\ Holds(x, e, n, TRUE)
    BY <1>14, <1>15, <1>16
  <2>2. Served /\ State(E, x, u)' BY <1>8, <2>1, ServedBlock
  <2> QED BY <2>2
<1> QED BY <1>11, <1>17 DEF Found

LEMMA FirstPagesMalloc ==
  ASSUME Empty, WholePages(heapEnd), NEW pages \in PageCounts, MallocPages(pages)
  PROVE  Served /\ heapEnd' >= heapEnd /\ \E D, z, w : Found(D, z, w)'
<1>1. heapEnd = 0 /\ start = NULL /\ start' = 0 /\ AfterEnd = 0 BY DEF Empty, MallocPages, AfterEnd
<1>2. PageSize \in Nat BY HeapAssumption
<1>3. Gap \in Int /\ Gap >= 18
  <2>1. Gap >= 2 * MetaSize + SizeT + 4 BY DEF MallocPages
  <2>2. Gap \in Int BY <1>1, <1>2 DEF Gap, FirstPages
  <2> QED BY <2>1, <2>2 DEF MetaSize, SizeT
<1>4. FillerSize \in Nat BY <1>3 DEF FillerSize, MetaSize, SizeT
<1>5. FALSE \in Flags BY DEF Flags
<1> DEFINE Y == PutBlock(tags, 0, FALSE, FillerSize)
<1>6. PICK y, v : /\ Tagged(Y, {0}, y, v) /\ Tiles({0}, y, 0, 0)
                  /\ y[0] = FillerSize /\ v[0] = FALSE
  BY <1>4, <1>5, FirstBlock
<1>7. Y = PutBlock(tags, AfterEnd, FALSE, FillerSize) BY <1>1
<1> HIDE DEF Y
<1>8. Wrote(Y, {0}, y, v, AfterEnd) BY <1>1, <1>6 DEF Wrote
<1>9. SameUsed({}, y, v, {0}, y, v) BY <1>6 DEF SameUsed
<1>10. Held({}, y, v, live) BY DEF Empty, Held
<1>11. heapEnd \in Nat /\ y[AfterEnd] = FillerSize BY <1>1, <1>6
<1> QED BY <1>7, <1>8, <1>9, <1>10, <1>11, PagesBehind

LEMMA LaterPagesMalloc ==
  ASSUME NEW B, NEW sz, NEW us, Found(B, sz, us), NEW pages \in PageCounts, MallocPages(pages)
  PROVE  Served /\ heapEnd' >= heapEnd /\ \E D, z, w : Found(D, z, w)'
<1>1. /\ WholePages(heapEnd) /\ State(B, sz, us) /\ Held(B, sz, us, live)
      /\ Tagged(tags, B, sz, us) /\ Tiles(B, sz, start, end) /\ start \in Nat
  BY DEF Found, State
<1>2. end \in B /\ heapEnd \in Nat /\ end + 9 + sz[end] <= heapEnd /\ start # NULL BY <1>1, EndInside
<1>3. end \in Nat /\ sz[end] \in Nat /\ NextBlock(end) = end + 9 + sz[end] BY <1>1, <1>2, Reads
<1> DEFINE a == AfterEnd
<1>4. a = end + 9 + sz[end] /\ start' = start BY <1>2, <1>3 DEF AfterEnd, MallocPages
<1>5. Gap \in Int /\ Gap >= 18
  <2>1. Gap >= 2 * MetaSize + SizeT + 4 BY DEF MallocPages
  <2>2. PageSize \in Nat /\ FirstPages \in Nat BY HeapAssumption DEF FirstPages
  <2>3. FirstPages * PageSize \in Nat BY <2>2
  <2>4. Gap \in Int BY <1>2, <1>3, <1>4, <2>3 DEF Gap
  <2> QED BY <2>1, <2>4 DEF MetaSize, SizeT
<1> DEFINE n == FillerSize
           Y == PutBlock(tags, a, FALSE, n)
           C == B \cup {a}
           y == Ext(sz, B, a, n)
           v == Ext(us, B, a, FALSE)
<1>6. n \in Nat BY <1>5 DEF FillerSize, MetaSize, SizeT
<1>7. Tagged(Y, C, y, v) /\ Tiles(C, y, start, a) /\ a \notin B
  <2>1. FALSE \in Flags BY DEF Flags
  <2> HIDE DEF a, n
  <2> QED BY <1>1, <1>4, <1>6, <2>1, Appended
<1>8. y[a] = n /\ v[a] = FALSE /\ \A c \in B : y[c] = sz[c] /\ v[c] = us[c]
  <2> HIDE DEF a, n
  <2> QED BY <1>7 DEF Ext
<1> HIDE DEF C, y, v
<1>9. Wrote(Y, C, y, v, AfterEnd) BY <1>1, <1>4, <1>7 DEF Wrote
<1>10. SameUsed(B, sz, us, C, y, v) BY <1>8 DEF SameUsed, C
<1>11. Y = PutBlock(tags, AfterEnd, FALSE, FillerSize) /\ y[AfterEnd] = FillerSize BY <1>8
<1> HIDE DEF Y
<1> QED BY <1>1, <1>2, <1>9, <1>10, <1>11, PagesBehind

\* The size of the block that is freed, the last block and the tags once it has
\* joined the next one.
SizeFreed(b) ==
    IF JoinsNext(b) THEN JoinedSize(tags[b].size, tags[NextBlock(b)].size) ELSE tags[b].size
LastFreed(b) == IF JoinsNext(b) /\ NextBlock(b) = end THEN b ELSE end
TagsFreed(b) ==
    IF JoinsNext(b) THEN PutBlock(tags, b, FALSE, SizeFreed(b))
    ELSE Put(tags, b, Header(FALSE, SizeFreed(b)))

\* The blocks C once b is free with n bytes: those in front of b are as before.
Freed(X, B, sz, us, C, y, v, b, n, l) ==
    /\ Tagged(X, C, y, v) /\ Tiles(C, y, start, l) /\ l + 9 + y[l] <= heapEnd
    /\ C \subseteq B /\ b \in C /\ y[b] = n /\ v[b] = FALSE
    /\ \A c \in B : c < b => c \in C
    /\ \A c \in C : c # b => y[c] = sz[c] /\ v[c] = us[c]
    /\ OneLess(B, sz, us, C, y, v, b)

LEMMA JoinNext ==
  ASSUME NEW B, NEW sz, NEW us, State(B, sz, us), NEW b \in B
  PROVE  \E C, y, v : Freed(TagsFreed(b), B, sz, us, C, y, v, b, SizeFreed(b), LastFreed(b))
<1>1. /\ Tagged(tags, B, sz, us) /\ Tiles(B, sz, start, end) /\ Apart(B, sz)
  BY DEF State, Tiles
<1>2. end \in B /\ heapEnd \in Nat /\ end + 9 + sz[end] <= heapEnd BY EndInside
<1>3. /\ b \in Nat /\ sz[b] \in Nat /\ tags[b].size = sz[b] /\ NextBlock(b) = b + 9 + sz[b]
  BY Reads
<1>4. end \in Nat /\ sz[end] \in Nat BY <1>2, Reads
<1>5. FALSE \in Flags BY DEF Flags
<1>6. B \subseteq Nat BY <1>1 DEF Tagged
<1>7. CASE JoinsNext(b)
  <2> DEFINE c == NextBlock(b)
             n == SizeFreed(b)
             l == LastFreed(b)
  <2>1. b # end /\ ~tags[c].used BY <1>7 DEF JoinsNext
  <2>2. c \in B /\ c = b + 9 + sz[b]
    <3>1. EndBlock(b, sz[b]) = b + 9 + sz[b] BY <1>3 DEF EndBlock, MetaSize, SizeT
    <3> QED BY <1>1, <1>3, <2>1, <3>1 DEF Tiles
  <2>3. c \in Nat /\ sz[c] \in Nat /\ tags[c].size = sz[c] /\ ~us[c]
    <3> HIDE DEF c
    <3> QED BY <2>1, <2>2, Reads
  <2>4. n = sz[b] + 9 + sz[c]
    <3> HIDE DEF c
    <3>1. n = JoinedSize(tags[b].size, tags[c].size) BY <1>7 DEF SizeFreed, c
    <3> QED BY <3>1, <1>3, <2>3 DEF JoinedSize, MetaSize, SizeT
  <2>5. (c = end => l = b) /\ (c # end => l = end) BY <1>7 DEF LastFreed
  <2>6. TagsFreed(b) = PutBlock(tags, b, FALSE, n) BY <1>7 DEF TagsFreed
  <2> HIDE DEF c, n, l
  <2>7. PICK y, v : /\ Tagged(PutBlock(tags, b, FALSE, n), B \ {c}, y, v)
                    /\ Tiles(B \ {c}, y, start, l) /\ Only(B \ {c}, sz, us, y, v, b, n, FALSE)
    <3>1. Neighbours(B, sz, b, c, n) BY <2>2, <2>4 DEF Neighbours
    <3>2. LastOf(b, c, end, l) BY <2>5 DEF LastOf
    <3>3. AfterJoin(PutBlock(tags, b, FALSE, n), B \ {c}, sz, us, start, l, b, n)
      BY <1>1, <3>1, <3>2, JoinedFree
    <3> QED BY <3>3 DEF AfterJoin
  <2> DEFINE C == B \ {c}
  <2>8. /\ C \subseteq B /\ b \in C /\ \A d \in B : d < b => d \in C
    BY <1>3, <1>6, <2>2
  <2>9. y[b] = n /\ v[b] = FALSE /\ \A d \in C : d # b => y[d] = sz[d] /\ v[d] = us[d]
    BY <2>7 DEF Only
  <2>10. l + 9 + y[l] <= heapEnd
    <3>1. CASE c = end BY <3>1, <1>2, <1>3, <2>2, <2>3, <2>4, <2>5, <2>9
    <3>2. CASE c # end
      <4>1. l = end /\ end \in C /\ end # b BY <3>2, <1>2, <2>1, <2>5
      <4>2. y[end] = sz[end] BY <4>1, <2>9
      <4> QED BY <4>1, <4>2, <1>2
    <3> QED BY <3>1, <3>2
  <2>11. OneLess(B, sz, us, C, y, v, b)
    <3>1. \A d \in B : us[d] => d \in C BY <2>3
    <3> QED BY <2>8, <2>9, <3>1 DEF OneLess
  <2>12. Freed(PutBlock(tags, b, FALSE, n), B, sz, us, C, y, v, b, n, l)
    BY <2>7, <2>8, <2>9, <2>10, <2>11 DEF Freed
  <2> QED BY <2>6, <2>12 DEF n, l
<1>8. CASE ~JoinsNext(b)
  <2>1. /\ SizeFreed(b) = sz[b] /\ LastFreed(b) = end
        /\ TagsFreed(b) = Put(tags, b, Header(FALSE, sz[b]))
    BY <1>3, <1>8 DEF SizeFreed, LastFreed, TagsFreed
  <2> DEFINE v == Ext(us, B, b, FALSE)
  <2>2. Tagged(TagsFreed(b), B, sz, v) BY <1>1, <1>5, <2>1, Retag
  <2>3. v[b] = FALSE /\ \A d \in B : d # b => v[d] = us[d] BY DEF Ext
  <2> HIDE DEF v
  <2>4. OneLess(B, sz, us, B, sz, v, b) BY <2>3 DEF OneLess
  <2>5. Freed(TagsFreed(b), B, sz, us, B, sz, v, b, SizeFreed(b), LastFreed(b))
    BY <1>1, <1>2, <2>1, <2>2, <2>3, <2>4 DEF Freed
  <2> QED BY <2>5
<1> QED BY <1>7, <1>8

\* The block in front of b, where the footer before b says it is.
LEMMA Previous ==
  ASSUME NEW B, NEW sz, NEW us, State(B, sz, us), NEW b \in B, b # start
  PROVE  /\ PrevBlock(b) \in B /\ PrevBlock(b) < b
         /\ b = PrevBlock(b) + 9 + sz[PrevBlock(b)]
<1>1. Tagged(tags, B, sz, us) /\ Tiles(B, sz, start, end) BY DEF State
<1>2. PICK p \in B : EndBlock(p, sz[p]) = b BY <1>1 DEF Tiles
<1>3. p \in Nat /\ sz[p] \in Nat /\ b \in Nat BY <1>1, TagsOfBlock
<1>4. b = p + 9 + sz[p] BY <1>2, <1>3 DEF EndBlock, MetaSize, SizeT
<1>5. tags[EndingSizeField(p, sz[p])] = Footer(sz[p]) BY <1>1 DEF Tagged
<1>6. EndingSizeField(p, sz[p]) = b - SizeT BY <1>3, <1>4 DEF EndingSizeField, MetaSize, SizeT
<1>7. tags[b - SizeT] = Footer(sz[p]) BY <1>5, <1>6
<1>8. tags[b - SizeT].size = sz[p] BY <1>7 DEF Footer
<1>9. PrevBlock(b) = p
  <2>1. PrevBlock(b) = b - SizeT - sz[p] - MetaSize BY <1>8 DEF PrevBlock
  <2> QED BY <2>1, <1>3, <1>4 DEF MetaSize, SizeT
<1> QED BY <1>3, <1>4, <1>9

LEMMA JoinPrevious ==
  ASSUME NEW B, NEW sz, NEW us, State(B, sz, us), NEW b \in B, JoinsPrevious(b),
         NEW X, NEW C, NEW y, NEW v, NEW n, NEW l, Freed(X, B, sz, us, C, y, v, b, n, l),
         NEW e, e = IF b = l THEN PrevBlock(b) ELSE l
  PROVE  \E D, z, w :
           /\ Tagged(PutBlock(X, PrevBlock(b), FALSE, JoinedSize(tags[PrevBlock(b)].size, n)), D, z, w)
           /\ Tiles(D, z, start, e) /\ e + 9 + z[e] <= heapEnd
           /\ OneLess(B, sz, us, D, z, w, b)
<1> DEFINE p == PrevBlock(b)
           m == JoinedSize(tags[p].size, n)
<1>1. b # start /\ ~tags[p].used BY DEF JoinsPrevious
<1>2. p \in B /\ p < b /\ b = p + 9 + sz[p] BY <1>1, Previous
<1>3. e = IF b = l THEN p ELSE l OBVIOUS
<1>4. PrevBlock(b) = p /\ JoinedSize(tags[PrevBlock(b)].size, n) = m OBVIOUS
<1>5. m = JoinedSize(tags[p].size, n) OBVIOUS
<1> HIDE DEF p, m
<1>6. p \in Nat /\ sz[p] \in Nat /\ tags[p].size = sz[p] /\ ~us[p] BY <1>1, <1>2, Reads
<1>7. b \in Nat /\ heapEnd \in Nat BY Reads, EndInside
<1>8. /\ Tagged(X, C, y, v) /\ Tiles(C, y, start, l) /\ l + 9 + y[l] <= heapEnd
      /\ C \subseteq B /\ b \in C /\ y[b] = n /\ v[b] = FALSE
      /\ \A c \in B : c < b => c \in C
      /\ \A c \in C : c # b => y[c] = sz[c] /\ v[c] = us[c]
      /\ OneLess(B, sz, us, C, y, v, b)
  BY DEF Freed
<1>9. p \in C /\ p # b BY <1>2, <1>6, <1>7, <1>8
<1>10. y[p] = sz[p] /\ ~v[p] BY <1>6, <1>8, <1>9
<1>11. y[b] \in Nat BY <1>8 DEF Tagged
<1>12. m = y[p] + 9 + y[b] BY <1>5, <1>6, <1>8, <1>10, <1>11 DEF JoinedSize, MetaSize, SizeT
<1>13. b = p + 9 + y[p] BY <1>2, <1>10
<1>14. (b = l => e = p) /\ (b # l => e = l) BY <1>3
<1>16. PICK z, w : /\ Tagged(PutBlock(X, p, FALSE, m), C \ {b}, z, w)
                   /\ Tiles(C \ {b}, z, start, e) /\ Only(C \ {b}, y, v, z, w, p, m, FALSE)
  <2>1. Neighbours(C, y, p, b, m) BY <1>8, <1>9, <1>12, <1>13 DEF Neighbours
  <2>2. LastOf(p, b, l, e) BY <1>14 DEF LastOf
  <2>3. AfterJoin(PutBlock(X, p, FALSE, m), C \ {b}, y, v, start, e, p, m)
    BY <1>8, <2>1, <2>2, JoinedFree
  <2> QED BY <2>3 DEF AfterJoin
<1> DEFINE D == C \ {b}
<1>17. z[p] = m /\ w[p] = FALSE /\ \A c \in D : c # p => z[c] = y[c] /\ w[c] = v[c]
  BY <1>16 DEF Only
<1>18. e + 9 + z[e] <= heapEnd
  <2>1. CASE b = l BY <2>1, <1>6, <1>7, <1>8, <1>10, <1>11, <1>12, <1>13, <1>14, <1>17
  <2>2. CASE b # l
    <3>1. e = l /\ l \in D BY <2>2, <1>8, <1>14 DEF Tiles
    <3>2. l # p
      <4>1. b <= l /\ l \in Nat BY <1>8 DEF Tiles, Tagged
      <4> QED BY <4>1, <1>2, <1>6, <1>7
    <3> QED BY <3>1, <3>2, <1>8, <1>17
  <2> QED BY <2>1, <2>2
<1>19. OneLess(B, sz, us, D, z, w, b)
  <2>1. \A c \in B : us[c] /\ c # b => c \in D /\ w[c] /\ z[c] = sz[c]
    BY <1>6, <1>8, <1>17 DEF OneLess
  <2>2. \A c \in D : w[c] => c \in B /\ us[c] /\ c # b
    BY <1>8, <1>17 DEF OneLess
  <2> QED BY <2>1, <2>2 DEF OneLess
<1> QED BY <1>4, <1>16, <1>18, <1>19

LEMMA FreeBlock ==
  ASSUME NEW B, NEW sz, NEW us, Found(B, sz, us), NEW r \in live, Free(r)
  PROVE  /\ live' = live \ {r} /\ heapEnd' = heapEnd /\ start' = start
         /\ \E D, z, w : Found(D, z, w)'
<1> DEFINE b == r.ptr - MetaSize
<1>1. /\ WholePages(heapEnd) /\ State(B, sz, us) /\ Held(B, sz, us, live)
      /\ start \in Nat /\ heapEnd \in Nat /\ B \subseteq Nat
  BY DEF Found, State, Tagged
<1>2. b \in B /\ us[b] BY <1>1 DEF Held
<1>3. /\ live' = live \ {r} /\ heapEnd' = heapEnd /\ start' = start
      /\ end' = IF JoinsPrevious(b) /\ b = LastFreed(b) THEN PrevBlock(b) ELSE LastFreed(b)
      /\ tags' = IF JoinsPrevious(b)
                 THEN PutBlock(TagsFreed(b), PrevBlock(b), FALSE,
                               JoinedSize(tags[PrevBlock(b)].size, SizeFreed(b)))
                 ELSE TagsFreed(b)
  BY DEF Free, LastFreed, TagsFreed, SizeFreed
<1>4. b = r.ptr - MetaSize OBVIOUS
<1> HIDE DEF b
<1>5. PICK C, y, v : Freed(TagsFreed(b), B, sz, us, C, y, v, b, SizeFreed(b), LastFreed(b))
  BY <1>1, <1>2, JoinNext
<1>6. PICK D, z, w : /\ Tagged(tags', D, z, w) /\ Tiles(D, z, start, end')
                     /\ end' + 9 + z[end'] <= heapEnd /\ OneLess(B, sz, us, D, z, w, b)
  <2>1. CASE JoinsPrevious(b)
    <3> DEFINE e == IF b = LastFreed(b) THEN PrevBlock(b) ELSE LastFreed(b)
               Y == PutBlock(TagsFreed(b), PrevBlock(b), FALSE,
                             JoinedSize(tags[PrevBlock(b)].size, SizeFreed(b)))
    <3>1. end' = e /\ tags' = Y BY <2>1, <1>3
    <3>2. \E D, z, w :
           /\ Tagged(Y, D, z, w)
           /\ Tiles(D, z, start, e) /\ e + 9 + z[e] <= heapEnd
           /\ OneLess(B, sz, us, D, z, w, b)
      BY <2>1, <1>1, <1>2, <1>5, JoinPrevious
    <3> HIDE DEF e, Y
    <3> QED BY <3>1, <3>2
  <2>2. CASE ~JoinsPrevious(b)
    <3>1. end' = LastFreed(b) /\ tags' = TagsFreed(b) BY <2>2, <1>3
    <3>2. /\ Tagged(TagsFreed(b), C, y, v) /\ Tiles(C, y, start, LastFreed(b))
          /\ LastFreed(b) + 9 + y[LastFreed(b)] <= heapEnd /\ OneLess(B, sz, us, C, y, v, b)
      BY <1>5 DEF Freed
    <3> QED BY <3>1, <3>2
  <2> QED BY <2>1, <2>2
<1>7. Held(D, z, w, live \ {r}) BY <1>1, <1>4, <1>6, HeldLess
<1>8. EndBlock(end', z[end']) <= heapEnd
  <2>1. end' \in Nat /\ z[end'] \in Nat BY <1>6 DEF Tagged, Tiles
  <2> QED BY <2>1, <1>6 DEF EndBlock, MetaSize, SizeT
<1>9. State(D, z, w)'
  <2>1. Tiles(D, z, start', end') BY <1>3, <1>6
  <2>2. Held(D, z, w, live') BY <1>3, <1>7
  <2>3. EndBlock(end', z[end']) <= heapEnd' BY <1>3, <1>8
  <2>4. start' \in Nat /\ heapEnd' \in Nat BY <1>1, <1>3
  <2> QED BY <1>6, <2>1, <2>2, <2>3, <2>4 DEF State
<1>10. WholePages(heapEnd)' BY <1>1, <1>3 DEF WholePages
<1> QED BY <1>3, <1>9, <1>10 DEF Found

-------------------------------------------------------------------------------
(* The invariant is inductive *)

\* What a step does to what callers hold and to what is mapped.
Frees == \E r \in live : live' = live \ {r} /\ heapEnd' = heapEnd
Outcome == (Served /\ heapEnd' >= heapEnd) \/ Frees \/ UNCHANGED <<live, heapEnd>>

LEMMA InitIInv == Init => IInv
<1> SUFFICES ASSUME Init PROVE IInv OBVIOUS
<1>1. tags = <<>> BY DEF Init
<1>2. DOMAIN tags = {} BY <1>1
<1>3. IsFunction(tags) BY <1>1 DEF IsFunction
<1>4. WholePages(heapEnd)
  <2>1. heapEnd = 0 /\ 0 \in 0 .. 0 BY DEF Init
  <2>2. 0 = 0 * PageSize BY PageIsNat
  <2> QED BY <2>1, <2>2 DEF WholePages
<1> QED BY <1>2, <1>3, <1>4 DEF IInv, Init, Empty

LEMMA FoundIInv == (\E B, sz, us : Found(B, sz, us)) => IInv
BY StateDetermined DEF Determined, Found, IInv

LEMMA MallocStep ==
  ASSUME IInv, NEW size \in Sizes, Malloc(size)
  PROVE  IInv' /\ Outcome
<1>1. (\E B, sz, us : Found(B, sz, us))' => IInv' BY FoundIInv, PTL
<1>2. Served /\ heapEnd' >= heapEnd /\ \E D, z, w : Found(D, z, w)'
  <2>1. CASE Empty
    <3>1. MallocFirst(size) BY <2>1 DEF Malloc, MallocReuse, MallocExtend, Empty
    <3> QED BY <2>1, <3>1, FirstMalloc DEF IInv
  <2>2. CASE ~Empty
    <3>1. Found(Chain, SizeOf, UsedOf) BY <2>2 DEF IInv, Found
    <3>2. start # NULL BY <3>1, EndInside DEF Found
    <3>3. MallocReuse(size) \/ MallocExtend(size) BY <3>2 DEF Malloc, MallocFirst
    <3> QED BY <3>1, <3>3, ReuseMalloc, ExtendMalloc
  <2> QED BY <2>1, <2>2
<1> QED BY <1>1, <1>2 DEF Outcome

LEMMA MallocPagesStep ==
  ASSUME IInv, NEW pages \in PageCounts, MallocPages(pages)
  PROVE  IInv' /\ Outcome
<1>1. (\E B, sz, us : Found(B, sz, us))' => IInv' BY FoundIInv, PTL
<1>2. Served /\ heapEnd' >= heapEnd /\ \E D, z, w : Found(D, z, w)'
  <2>1. CASE Empty BY <2>1, FirstPagesMalloc DEF IInv
  <2>2. CASE ~Empty
    <3>1. Found(Chain, SizeOf, UsedOf) BY <2>2 DEF IInv, Found
    <3> QED BY <3>1, LaterPagesMalloc
  <2> QED BY <2>1, <2>2
<1> QED BY <1>1, <1>2 DEF Outcome

LEMMA FreeStep ==
  ASSUME IInv, NEW r \in live, Free(r)
  PROVE  IInv' /\ Outcome
<1>1. (\E B, sz, us : Found(B, sz, us))' => IInv' BY FoundIInv, PTL
<1>2. Found(Chain, SizeOf, UsedOf) BY DEF IInv, Found, Empty
<1>3. live' = live \ {r} /\ heapEnd' = heapEnd /\ \E D, z, w : Found(D, z, w)'
  BY <1>2, FreeBlock
<1> QED BY <1>1, <1>3 DEF Outcome, Frees

LEMMA SameHeap ==
  ASSUME IInv, UNCHANGED <<start, end, heapEnd, tags, live>>
  PROVE  IInv' /\ Outcome
<1>1. start' = start /\ end' = end /\ heapEnd' = heapEnd /\ tags' = tags /\ live' = live OBVIOUS
<1>2. (\E B, sz, us : Found(B, sz, us))' => IInv' BY FoundIInv, PTL
<1>3. CASE Empty
  <2>1. Empty' BY <1>1, <1>3 DEF Empty, IsFunction
  <2>2. WholePages(heapEnd)' BY <1>1 DEF IInv, WholePages
  <2> QED BY <1>1, <2>1, <2>2 DEF IInv, Outcome
<1>4. CASE ~Empty
  <2>1. PICK B, sz, us : Found(B, sz, us) BY <1>4 DEF IInv, Found
  <2>2. Found(B, sz, us)' BY <2>1, <1>1 DEF Found, WholePages, State
  <2> QED BY <1>1, <1>2, <2>2 DEF Outcome
<1> QED BY <1>3, <1>4

LEMMA Step == IInv /\ [Next]_vars => IInv' /\ Outcome
<1> SUFFICES ASSUME IInv, [Next]_vars PROVE IInv' /\ Outcome OBVIOUS
<1>1. ASSUME NEW size \in Sizes, Malloc(size) PROVE IInv' /\ Outcome BY <1>1, MallocStep
<1>2. ASSUME NEW pages \in PageCounts, MallocPages(pages) PROVE IInv' /\ Outcome
  BY <1>2, MallocPagesStep
<1>3. ASSUME NEW pages \in PageCounts, MallocPagesSmallGap(pages) PROVE IInv' /\ Outcome
  BY <1>3, SameHeap DEF MallocPagesSmallGap
<1>4. ASSUME NEW r \in live, Free(r) PROVE IInv' /\ Outcome BY <1>4, FreeStep
<1>5. ASSUME NEW r \in live, NEW size \in Sizes, ReallocAllocates(r, size) PROVE IInv' /\ Outcome
  BY <1>5, <1>1 DEF ReallocAllocates
<1>6. CASE ReallocFrees BY <1>6, <1>4 DEF ReallocFrees
<1>7. CASE UNCHANGED vars BY <1>7, SameHeap DEF vars, heapVars
<1> QED BY <1>1, <1>2, <1>3, <1>4, <1>5, <1>6, <1>7 DEF Next

\* The heap is the blocks from start to end, tagged and held as State says, and
\* is whole pages, in every reachable state.
LEMMA Inductive == Spec => []IInv
BY InitIInv, Step, PTL DEF Spec

-------------------------------------------------------------------------------
(* What follows *)

\* The boundary tags are right whatever callers write in their memory: each
\* block from start to end has the header and the footer malloc, malloc_pages
\* and free left there, and the last ends in mapped memory, for every page size
\* and every sequence of calls.
THEOREM TagsKept == Spec => []BlocksTagged
<1>1. IInv => BlocksTagged
  <2> SUFFICES ASSUME IInv, start # NULL
               PROVE  /\ \A b \in Chain : b <= end /\ IsBlock(b)
                      /\ end \in Chain /\ NextBlock(end) <= heapEnd
    BY DEF BlocksTagged
  <2>1. PICK B, sz, us : State(B, sz, us) BY DEF IInv, Empty
  <2>2. Chain = B BY <2>1, BlocksFound
  <2>3. /\ Tagged(tags, B, sz, us) /\ \A b \in B : b <= end
    BY <2>1 DEF State, Tiles
  <2>4. ASSUME NEW b \in B PROVE b <= end /\ IsBlock(b)
    <3>1. b \in DOMAIN tags /\ tags[b] = Header(us[b], sz[b]) BY <2>3 DEF Tagged
    <3>2. tags[b].width = MetaSize /\ tags[b].size = sz[b] BY <3>1 DEF Header
    <3>3. /\ EndingSizeField(b, sz[b]) \in DOMAIN tags
          /\ tags[EndingSizeField(b, sz[b])] = Footer(sz[b])
      BY <2>3 DEF Tagged
    <3> QED BY <2>3, <3>1, <3>2, <3>3 DEF IsBlock
  <2>5. end \in B /\ NextBlock(end) <= heapEnd
    <3>1. end \in B /\ end + 9 + sz[end] <= heapEnd BY <2>1, EndInside
    <3>2. NextBlock(end) = end + 9 + sz[end] BY <2>1, <3>1, Reads
    <3> QED BY <3>1, <3>2
  <2> QED BY <2>2, <2>4, <2>5
<1> QED BY <1>1, Inductive, PTL

\* What callers hold are the used blocks, all of them: splitting, joining and
\* freeing blocks neither lose one nor mark one free that is held.
THEOREM HeldBlocksUsed == Spec => []UsedBlocksHeld
<1>1. IInv => UsedBlocksHeld
  <2> SUFFICES ASSUME IInv PROVE UsedBlocksHeld OBVIOUS
  <2>1. CASE Empty
    <3>1. Chain = {} /\ live = {} BY <2>1 DEF Empty, Chain
    <3> QED BY <3>1 DEF UsedBlocksHeld
  <2>2. CASE ~Empty
    <3>1. PICK B, sz, us : State(B, sz, us) BY <2>2 DEF IInv
    <3>2. Chain = B BY <3>1, BlocksFound
    <3>3. Held(B, sz, us, live) BY <3>1 DEF State
    <3>4. \A b \in B : tags[b].used = us[b] /\ tags[b].size = sz[b] BY <3>1, Reads
    <3>5. \A r \in live : r.ptr - MetaSize \in B /\ tags[r.ptr - MetaSize].used
      BY <3>3, <3>4 DEF Held
    <3>6. ASSUME NEW b \in B, tags[b].used
          PROVE  \E r \in live : r.ptr = b + MetaSize /\ r.size <= tags[b].size
      <4>1. b \in Nat BY <3>1, Reads
      <4>2. PICK r \in live : r.ptr = b + MetaSize BY <3>3, <3>4, <3>6 DEF Held
      <4>3. r.ptr - MetaSize = b BY <4>1, <4>2 DEF MetaSize
      <4>4. r.size <= sz[b] BY <3>3, <4>3 DEF Held
      <4> QED BY <3>4, <4>2, <4>4
    <3> QED BY <3>2, <3>5, <3>6 DEF UsedBlocksHeld
  <2> QED BY <2>1, <2>2
<1> QED BY <1>1, Inductive, PTL

\* What callers hold is mapped and no one else's.
Separate ==
    /\ heapEnd \in Nat
    /\ \A r \in live : r.ptr \in Nat /\ r.size \in Nat /\ r.size > 0 /\ r.ptr + r.size <= heapEnd
    /\ \A q, r \in live : q # r => A!Bytes(q) \cap A!Bytes(r) = {}

LEMMA IInvSeparate == IInv => Separate
<1>1. CASE Empty BY <1>1 DEF Empty, Separate
<1>2. CASE ~Empty
  <2> SUFFICES ASSUME IInv PROVE Separate OBVIOUS
  <2>1. PICK B, sz, us : State(B, sz, us) BY <1>2 DEF IInv
  <2> QED BY <2>1, HeldApart DEF Separate, State
<1> QED BY <1>1, <1>2

\* The heap implements the allocator its callers count on: every malloc,
\* malloc_pages and realloc takes mapped memory that overlaps no one else's, on
\* a page boundary if pages were asked for, and free gives back only its own.
THEOREM ImplementsAllocator == Spec => AllocatorSpec
<1>1. Init => A!Init BY DEF Init, A!Init
<1>2. IInv /\ [Next]_vars => [A!Next]_(A!vars)
  <2> SUFFICES ASSUME IInv, [Next]_vars PROVE [A!Next]_(A!vars) OBVIOUS
  <2>1. IInv' /\ Outcome BY Step
  <2>2. IInv' => Separate' BY IInvSeparate, PTL
  <2>3. CASE Served /\ heapEnd' >= heapEnd
    <3>1. PICK r : /\ r \notin live /\ live' = live \cup {r}
                   /\ r.aligned => r.ptr % PageSize = 0 /\ r.size % PageSize = 0
      BY <2>3 DEF Served
    <3>2. r \in live' \ live BY <3>1
    <3>3. /\ heapEnd' \in Nat /\ r.ptr \in Nat /\ r.size \in Nat /\ r.size > 0 /\ r.ptr + r.size <= heapEnd'
          /\ \A q \in live : A!Bytes(q) \cap A!Bytes(r) = {}
      BY <2>1, <2>2, <3>1 DEF Separate
    <3>4. A!Bytes(r) \subseteq 0 .. heapEnd' - 1 BY <3>3 DEF A!Bytes
    <3>5. A!Allocate BY <2>3, <3>1, <3>2, <3>3, <3>4 DEF A!Allocate
    <3> QED BY <3>5 DEF A!Next
  <2>4. CASE Frees BY <2>4 DEF Frees, A!Next, A!Free
  <2>5. CASE UNCHANGED <<live, heapEnd>> BY <2>5 DEF A!vars
  <2> QED BY <2>1, <2>3, <2>4, <2>5 DEF Outcome
<1> QED BY <1>1, <1>2, Inductive, PTL DEF Spec, AllocatorSpec, A!Spec
===============================================================================
