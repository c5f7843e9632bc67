--------------------------- MODULE LRUCacheProofs ---------------------------
(***************************************************************************)
(* Proofs about LRUCache for any keys, values and limits: the byte count   *)
(* is exact, the limit is kept, the order is that of the last use, and the *)
(* callbacks tell all.                                                     *)
(***************************************************************************)
EXTENDS LRUHistory, SequenceTheorems, FiniteSetTheorems, WellFoundedInduction, TLAPS

\* A list of entries of different keys.
Keyed(s) ==
    /\ s \in Seq(Entry)
    /\ \A i, j \in DOMAIN s : s[i].key = s[j].key => i = j

\* The keys of s stand in the order of R.
Ordered(s, R) == \A i, j \in DOMAIN s : i < j => <<s[i].key, s[j].key>> \in R

-----------------------------------------------------------------------------
\* The elements of a list, by their places.
LEMMA Places ==
    ASSUME NEW s \in Seq(Entry)
    PROVE  /\ Len(s) \in Nat /\ DOMAIN s = 1..Len(s)
           /\ \A e : e \in Range(s) <=> \E i \in 1..Len(s) : s[i] = e
           /\ \A i \in 1..Len(s) : s[i] \in Entry /\ s[i] \in Range(s)
           /\ IsFiniteSet(Range(s)) /\ Range(s) \subseteq Entry
<1>1. Len(s) \in Nat /\ DOMAIN s = 1..Len(s) /\ \A i \in 1..Len(s) : s[i] \in Entry
  OBVIOUS
<1>2. \A e : e \in Range(s) <=> \E i \in 1..Len(s) : s[i] = e
  BY <1>1 DEF Range
<1>3. s \in Surjection(1..Len(s), Range(s))
  <2>1. s \in [1..Len(s) -> Range(s)]
    BY <1>1, <1>2
  <2> QED BY <2>1, <1>2 DEF Surjection
<1>4. IsFiniteSet(1..Len(s))
  BY <1>1, FS_Interval
<1>5. IsFiniteSet(Range(s))
  BY <1>3, <1>4, FS_Surjection
<1> QED BY <1>1, <1>2, <1>5

\* What stands where in a concatenation.
LEMMA Joined ==
    ASSUME NEW S, NEW a \in Seq(S), NEW b \in Seq(S)
    PROVE  /\ a \o b \in Seq(S) /\ Len(a \o b) = Len(a) + Len(b)
           /\ \A j \in 1..Len(a) : (a \o b)[j] = a[j]
           /\ \A j \in 1..Len(b) : (a \o b)[Len(a) + j] = b[j]
<1>1. /\ a \o b \in Seq(S) /\ Len(a \o b) = Len(a) + Len(b)
      /\ \A j \in 1..Len(a) + Len(b) :
            (a \o b)[j] = IF j <= Len(a) THEN a[j] ELSE b[j - Len(a)]
  BY ConcatProperties
<1> PICK p \in Nat : p = Len(a)
  OBVIOUS
<1> PICK q \in Nat : q = Len(b)
  OBVIOUS
<1>2. \A j \in 1..p : j \in 1..p + q /\ j <= p
  OBVIOUS
<1>3. \A j \in 1..q : p + j \in 1..p + q /\ ~(p + j <= p) /\ (p + j) - p = j
  OBVIOUS
<1> QED BY <1>1, <1>2, <1>3

\* What stands where when one entry is taken out.
LEMMA Removed ==
    ASSUME NEW S, NEW s \in Seq(S), NEW i \in 1..Len(s)
    PROVE  /\ RemoveAt(s, i) \in Seq(S) /\ Len(RemoveAt(s, i)) = Len(s) - 1
           /\ \A j \in 1..Len(s) - 1 :
                 RemoveAt(s, i)[j] = IF j < i THEN s[j] ELSE s[j + 1]
<1>n. PICK n \in Nat : n = Len(s)
  OBVIOUS
<1>i. i \in 1..n
  BY <1>n
<1>a. PICK a : a = SubSeq(s, 1, i - 1)
  OBVIOUS
<1>b. PICK b : b = SubSeq(s, i + 1, n)
  OBVIOUS
<1>1. a \in Seq(S) /\ Len(a) = i - 1 /\ \A j \in 1..i - 1 : a[j] = s[j]
  BY <1>a, <1>n
<1>2. b \in Seq(S) /\ Len(b) = n - i /\ \A j \in 1..n - i : b[j] = s[i + j]
  BY <1>b, <1>n
<1>3. RemoveAt(s, i) = a \o b
  BY <1>a, <1>b, <1>n DEF RemoveAt
<1>t. PICK t : t = RemoveAt(s, i)
  OBVIOUS
<1>4. /\ t \in Seq(S) /\ Len(t) = (i - 1) + (n - i)
      /\ \A j \in 1..i - 1 : t[j] = a[j]
      /\ \A j \in 1..n - i : t[(i - 1) + j] = b[j]
  <2>1. a \in Seq(S) /\ b \in Seq(S)
    BY <1>1, <1>2
  <2>2. /\ t \in Seq(S) /\ Len(t) = Len(a) + Len(b)
        /\ \A j \in 1..Len(a) : t[j] = a[j]
        /\ \A j \in 1..Len(b) : t[Len(a) + j] = b[j]
    <3>1. t = a \o b
      BY <1>3, <1>t
    <3>2. /\ a \o b \in Seq(S) /\ Len(a \o b) = Len(a) + Len(b)
          /\ \A j \in 1..Len(a) : (a \o b)[j] = a[j]
          /\ \A j \in 1..Len(b) : (a \o b)[Len(a) + j] = b[j]
      BY ONLY <2>1, Joined
    <3> QED BY <3>1, <3>2, Zenon
  <2> QED BY <1>1, <1>2, <2>2, Zenon
<1>5. Len(t) = n - 1
  BY <1>i, <1>4
<1>6. ASSUME NEW j \in 1..n - 1 PROVE t[j] = IF j < i THEN s[j] ELSE s[j + 1]
  <2>1. CASE j < i
    BY <1>i, <1>1, <1>4, <2>1
  <2>2. CASE ~(j < i)
    <3> DEFINE k == j - (i - 1)
    <3>1. k \in 1..n - i /\ (i - 1) + k = j /\ i + k = j + 1
      BY <1>i, <2>2
    <3> HIDE DEF k
    <3>2. t[(i - 1) + k] = s[i + k]
      BY <1>2, <1>4, <3>1
    <3> QED BY <2>2, <3>1, <3>2
  <2> QED BY <2>1, <2>2
<1>7. t \in Seq(S) /\ Len(t) = n - 1
  BY <1>4, <1>5
<1> QED BY <1>n, <1>t, <1>7, <1>6, Zenon

\* t is made of entries of s in their order: the j-th is the f[j]-th of s.
Picked(s, t, f) ==
    /\ t \in Seq(Entry)
    /\ f \in [1..Len(t) -> 1..Len(s)]
    /\ \A j \in 1..Len(t) : t[j] = s[f[j]]
    /\ \A j, k \in 1..Len(t) : j < k => f[j] < f[k]

LEMMA Selection ==
    ASSUME NEW s, Keyed(s), NEW t, NEW f, Picked(s, t, f)
    PROVE  /\ Keyed(t)
           /\ \A R : Ordered(s, R) => Ordered(t, R)
           /\ \A e : e \in Range(t) <=> \E j \in 1..Len(t) : s[f[j]] = e
<1>0. s \in Seq(Entry) /\ t \in Seq(Entry)
  BY DEF Keyed, Picked
<1>n. PICK n \in Nat : n = Len(s)
  BY <1>0
<1>m. PICK m \in Nat : m = Len(t)
  BY <1>0
<1>1. DOMAIN t = 1..m /\ DOMAIN s = 1..n
  BY <1>0, <1>n, <1>m
<1>2. \A j, k \in 1..n : s[j].key = s[k].key => j = k
  BY <1>1 DEF Keyed
<1>3. /\ f \in [1..m -> 1..n]
      /\ \A j \in 1..m : t[j] = s[f[j]]
      /\ \A j, k \in 1..m : j < k => f[j] < f[k]
  BY <1>n, <1>m DEF Picked
<1>4. ASSUME NEW j \in 1..m, NEW k \in 1..m, t[j].key = t[k].key PROVE j = k
  <2>1. f[j] = f[k]
    BY <1>2, <1>3, <1>4
  <2>2. f[j] \in Int /\ ~(f[j] < f[k]) /\ ~(f[k] < f[j])
    BY <1>3, <2>1
  <2> QED BY <1>3, <2>2
<1>5. Keyed(t)
  BY <1>0, <1>1, <1>4 DEF Keyed
<1>6. ASSUME NEW R, Ordered(s, R) PROVE Ordered(t, R)
  <2>1. \A j, k \in 1..n : j < k => <<s[j].key, s[k].key>> \in R
    BY <1>1, <1>6 DEF Ordered
  <2>2. \A j, k \in 1..m : j < k => <<t[j].key, t[k].key>> \in R
    BY <1>3, <2>1
  <2> QED BY <1>1, <2>2 DEF Ordered
<1>7. \A e : e \in Range(t) <=> \E j \in 1..Len(t) : s[f[j]] = e
  <2>1. \A e : e \in Range(t) <=> \E j \in 1..Len(t) : t[j] = e
    BY <1>0, Places
  <2> QED BY <1>3, <1>m, <2>1
<1> QED BY <1>5, <1>6, <1>7

\* One entry is taken out of a list.
LEMMA TakeOut ==
    ASSUME NEW s, Keyed(s), NEW i \in 1..Len(s)
    PROVE  /\ Keyed(RemoveAt(s, i))
           /\ \A e : e \in Range(RemoveAt(s, i)) <=> e \in Range(s) /\ e.key # s[i].key
           /\ \A R : Ordered(s, R) => Ordered(RemoveAt(s, i), R)
<1>t. PICK t : t = RemoveAt(s, i)
  OBVIOUS
<1>1. s \in Seq(Entry)
  BY DEF Keyed
<1>2. PICK n \in Nat : n = Len(s)
  BY <1>1
<1>3. i \in 1..n /\ DOMAIN s = 1..n
  BY <1>1, <1>2
<1>f. PICK f : f = [j \in 1..n - 1 |-> IF j < i THEN j ELSE j + 1]
  OBVIOUS
<1>4. f \in [1..n - 1 -> 1..n] /\ \A j, k \in 1..n - 1 : j < k => f[j] < f[k]
  BY <1>3, <1>f
<1>5. /\ t \in Seq(Entry) /\ Len(t) = n - 1
      /\ \A j \in 1..n - 1 : t[j] = IF j < i THEN s[j] ELSE s[j + 1]
  BY <1>1, <1>2, <1>t, Removed, Zenon
<1>6. \A j \in 1..n - 1 : t[j] = s[f[j]]
  BY <1>3, <1>5, <1>f
<1>7. /\ Keyed(t)
      /\ \A R : Ordered(s, R) => Ordered(t, R)
      /\ \A e : e \in Range(t) <=> \E j \in 1..n - 1 : s[f[j]] = e
  <2>1. Picked(s, t, f)
    BY <1>2, <1>4, <1>5, <1>6 DEF Picked
  <2>2. /\ Keyed(t)
        /\ \A R : Ordered(s, R) => Ordered(t, R)
        /\ \A e : e \in Range(t) <=> \E j \in 1..Len(t) : s[f[j]] = e
    <3>1. Keyed(s)
      OBVIOUS
    <3> QED BY ONLY <2>1, <3>1, Selection
  <2> QED BY <1>5, <2>2, Zenon
<1>8. \A j \in 1..n - 1 : f[j] # i
  BY <1>3, <1>f
<1>9. ASSUME NEW k \in 1..n, k # i PROVE \E j \in 1..n - 1 : f[j] = k
  <2>1. CASE k < i
    BY <1>3, <1>f, <2>1
  <2>2. CASE k > i
    <3>1. k - 1 \in 1..n - 1 /\ f[k - 1] = k
      BY <1>3, <1>f, <2>2
    <3> QED BY <3>1
  <2> QED BY <1>3, <1>9, <2>1, <2>2
<1>10. \A j, k \in 1..n : s[j].key = s[k].key => j = k
  BY <1>3 DEF Keyed
<1>11. \A e : e \in Range(s) <=> \E j \in 1..n : s[j] = e
  BY <1>1, <1>2, Places
<1>12. ASSUME NEW e PROVE e \in Range(t) <=> e \in Range(s) /\ e.key # s[i].key
  <2>1. ASSUME e \in Range(t) PROVE e \in Range(s) /\ e.key # s[i].key
    <3> PICK j \in 1..n - 1 : s[f[j]] = e
      BY <1>7, <2>1
    <3>1. f[j] \in 1..n /\ f[j] # i
      BY <1>4, <1>8
    <3> QED BY <1>3, <1>10, <1>11, <3>1
  <2>2. ASSUME e \in Range(s), e.key # s[i].key PROVE e \in Range(t)
    <3> PICK k \in 1..n : s[k] = e
      BY <1>11, <2>2
    <3>1. PICK j \in 1..n - 1 : f[j] = k
      BY <1>9, <2>2
    <3> QED BY <1>7, <3>1
  <2> QED BY <2>1, <2>2
<1> QED BY <1>7, <1>12, <1>t, Zenon

\* One entry of a new key is put in front.
LEMMA PutInFront ==
    ASSUME NEW t, Keyed(t), NEW e \in Entry, \A x \in Range(t) : x.key # e.key
    PROVE  /\ Keyed(<<e>> \o t)
           /\ \A x : x \in Range(<<e>> \o t) <=> x \in Range(t) \/ x = e
           /\ \A R : Ordered(t, R) /\ (\A x \in Range(t) : <<e.key, x.key>> \in R)
                        => Ordered(<<e>> \o t, R)
<1>1. t \in Seq(Entry) /\ Len(t) \in Nat
  BY DEF Keyed
<1>u. PICK u : u = <<e>> \o t
  OBVIOUS
<1>n. PICK n \in Nat : n = Len(t)
  BY <1>1
<1>2. /\ u \in Seq(Entry) /\ Len(u) = n + 1 /\ u[1] = e
      /\ \A j \in 2..n + 1 : u[j] = t[j - 1]
  <2>1. <<e>> \in Seq(Entry) /\ Len(<<e>>) = 1 /\ <<e>>[1] = e
    OBVIOUS
  <2>2. /\ u \in Seq(Entry) /\ Len(u) = 1 + n
        /\ \A j \in 1..1 + n : u[j] = IF j <= 1 THEN <<e>>[j] ELSE t[j - 1]
    BY <1>1, <1>n, <1>u, <2>1, ConcatProperties
  <2>3. \A j \in 2..n + 1 : j \in 1..1 + n /\ ~(j <= 1)
    OBVIOUS
  <2> QED BY <2>1, <2>2, <2>3
<1>3. DOMAIN u = 1..n + 1 /\ DOMAIN t = 1..n
  BY <1>1, <1>2, <1>n
<1>4. \A j \in 2..n + 1 : j - 1 \in 1..n /\ t[j - 1] \in Range(t)
  <2>1. \A k \in 1..n : t[k] \in Range(t)
    BY <1>1, <1>n, Places
  <2> QED BY <2>1
<1>5. Keyed(u)
  <2>1. \A j \in 2..n + 1 : u[j].key # u[1].key
    BY <1>2, <1>4
  <2>2. ASSUME NEW j \in 2..n + 1, NEW k \in 2..n + 1, u[j].key = u[k].key PROVE j = k
    <3>1. j - 1 \in DOMAIN t /\ k - 1 \in DOMAIN t /\ t[j - 1].key = t[k - 1].key
      BY <1>2, <1>3, <2>2
    <3>2. j - 1 = k - 1
      BY <3>1 DEF Keyed
    <3> QED BY <3>2
  <2>3. \A j \in 1..n + 1 : j = 1 \/ j \in 2..n + 1
    OBVIOUS
  <2> QED BY <1>2, <1>3, <2>1, <2>2, <2>3 DEF Keyed
<1>6. ASSUME NEW x PROVE x \in Range(u) <=> x \in Range(t) \/ x = e
  <2>1. x \in Range(u) <=> \E j \in 1..n + 1 : u[j] = x
    <3>1. u \in Seq(Entry) /\ Len(u) = n + 1
      BY <1>2
    <3> QED BY <3>1, Places
  <2>2. x \in Range(t) <=> \E j \in 1..n : t[j] = x
    BY <1>1, <1>n, Places
  <2>3. \A j \in 1..n : j + 1 \in 2..n + 1 /\ u[j + 1] = t[j]
    BY <1>2
  <2>4. ASSUME x \in Range(u) PROVE x \in Range(t) \/ x = e
    <3> PICK j \in 1..n + 1 : u[j] = x
      BY <2>1, <2>4
    <3>1. CASE j = 1
      BY <1>2, <3>1
    <3>2. CASE j # 1
      <4>1. j \in 2..n + 1
        BY <3>2
      <4> QED BY <1>2, <1>4, <4>1
    <3> QED BY <3>1, <3>2
  <2>5. ASSUME x \in Range(t) PROVE x \in Range(u)
    <3> PICK j \in 1..n : t[j] = x
      BY <2>2, <2>5
    <3>1. j + 1 \in 1..n + 1 /\ u[j + 1] = x
      BY <2>3
    <3> QED BY <2>1, <3>1, Zenon
  <2>6. e \in Range(u)
    <3>1. \A i \in 1..Len(u) : u[i] \in Range(u)
      BY <1>2, Places
    <3>2. 1 \in 1..Len(u)
      BY <1>2
    <3> QED BY <1>2, <3>1, <3>2
  <2> QED BY <2>4, <2>5, <2>6
<1>7. ASSUME NEW R, Ordered(t, R), \A x \in Range(t) : <<e.key, x.key>> \in R
      PROVE  Ordered(u, R)
  <2> SUFFICES ASSUME NEW j \in 1..n + 1, NEW k \in 1..n + 1, j < k
               PROVE  <<u[j].key, u[k].key>> \in R
    BY <1>3 DEF Ordered
  <2>1. CASE j = 1
    BY <1>2, <1>4, <1>7, <2>1
  <2>2. CASE j # 1
    <3>1. j - 1 \in 1..n /\ k - 1 \in 1..n /\ j - 1 < k - 1
      BY <2>2
    <3>2. <<t[j - 1].key, t[k - 1].key>> \in R
      BY <1>3, <1>7, <3>1 DEF Ordered
    <3>3. j \in 2..n + 1 /\ k \in 2..n + 1
      BY <2>2
    <3>4. u[j] = t[j - 1] /\ u[k] = t[k - 1]
      BY <1>2, <3>3
    <3> QED BY <3>2, <3>4
  <2> QED BY <2>1, <2>2
<1> QED BY <1>5, <1>6, <1>7, <1>u, Zenon

\* A list is cut in two.
LEMMA Cut ==
    ASSUME NEW s, Keyed(s), NEW n \in 0..Len(s)
    PROVE  LET front == SubSeq(s, 1, n)
               back == SubSeq(s, n + 1, Len(s))
           IN  /\ Keyed(front) /\ Keyed(back)
               /\ \A R : Ordered(s, R) => Ordered(front, R)
               /\ \A e : e \in Range(s) <=> e \in Range(front) \/ e \in Range(back)
               /\ \A e \in Range(front), x \in Range(back) : e.key # x.key
<1>s. s \in Seq(Entry)
  BY DEF Keyed
<1>l. PICK l \in Nat : l = Len(s)
  BY <1>s
<1>n. n \in 0..l /\ n \in Nat
  BY <1>l
<1>a. PICK a : a = SubSeq(s, 1, n)
  OBVIOUS
<1>b. PICK b : b = SubSeq(s, n + 1, l)
  OBVIOUS
<1>1. a \in Seq(Entry) /\ Len(a) = n /\ \A j \in 1..n : a[j] = s[j]
  BY <1>s, <1>l, <1>n, <1>a
<1>2. b \in Seq(Entry) /\ Len(b) = l - n /\ \A j \in 1..l - n : b[j] = s[n + j]
  BY <1>s, <1>l, <1>n, <1>b
<1>f. PICK f : f = [j \in 1..n |-> j]
  OBVIOUS
<1>g. PICK g : g = [j \in 1..l - n |-> n + j]
  OBVIOUS
<1>3. Picked(s, a, f)
  <2>1. f \in [1..n -> 1..l] /\ \A j \in 1..n : f[j] = j
    BY <1>n, <1>f
  <2> QED BY <1>1, <1>l, <2>1 DEF Picked
<1>4. Picked(s, b, g)
  <2>1. g \in [1..l - n -> 1..l] /\ \A j \in 1..l - n : g[j] = n + j
    BY <1>n, <1>g
  <2> QED BY <1>2, <1>l, <1>n, <2>1 DEF Picked
<1>5. Keyed(s)
  OBVIOUS
<1>6. /\ Keyed(a)
      /\ \A R : Ordered(s, R) => Ordered(a, R)
      /\ \A e : e \in Range(a) <=> \E j \in 1..Len(a) : s[f[j]] = e
  BY ONLY <1>3, <1>5, Selection
<1>7. /\ Keyed(b)
      /\ \A e : e \in Range(b) <=> \E j \in 1..Len(b) : s[g[j]] = e
  BY ONLY <1>4, <1>5, Selection
<1>8. \A e : e \in Range(a) <=> \E j \in 1..n : s[j] = e
  BY <1>1, <1>6, <1>f
<1>9. \A e : e \in Range(b) <=> \E j \in n + 1..l : s[j] = e
  <2>1. \A j \in 1..l - n : n + j \in n + 1..l /\ g[j] = n + j
    BY <1>n, <1>g
  <2>2. \A j \in n + 1..l : j - n \in 1..l - n /\ n + (j - n) = j
    BY <1>n
  <2> SUFFICES ASSUME NEW e
               PROVE  e \in Range(b) <=> \E j \in n + 1..l : s[j] = e
    OBVIOUS
  <2>3. e \in Range(b) <=> \E j \in 1..l - n : s[g[j]] = e
    BY <1>2, <1>7
  <2>4. ASSUME e \in Range(b) PROVE \E j \in n + 1..l : s[j] = e
    BY <2>1, <2>3, <2>4
  <2>5. ASSUME NEW j \in n + 1..l, s[j] = e PROVE e \in Range(b)
    <3>1. j - n \in 1..l - n /\ g[j - n] = j
      BY <2>1, <2>2
    <3> QED BY <2>3, <2>5, <3>1
  <2> QED BY <2>4, <2>5
<1>10. \A e : e \in Range(s) <=> \E j \in 1..l : s[j] = e
  BY <1>s, <1>l, Places
<1>11. \A j : j \in 1..l <=> j \in 1..n \/ j \in n + 1..l
  BY <1>n
<1>12. \A e : e \in Range(s) <=> e \in Range(a) \/ e \in Range(b)
  BY <1>8, <1>9, <1>10, <1>11, Zenon
<1>13. \A j \in 1..n, i \in n + 1..l : s[j].key # s[i].key
  <2>1. DOMAIN s = 1..l
    BY <1>s, <1>l
  <2>2. \A j \in 1..n, i \in n + 1..l : j # i /\ j \in 1..l /\ i \in 1..l
    BY <1>n
  <2> QED BY <2>1, <2>2 DEF Keyed
<1>14. \A e \in Range(a), x \in Range(b) : e.key # x.key
  BY <1>8, <1>9, <1>13
<1> QED BY <1>6, <1>7, <1>12, <1>14, <1>a, <1>b, <1>l, Zenon

\* The entry a key is found at.
Found(s, k) == s[CHOOSE i \in DOMAIN s : s[i].key = k]

LEMMA FoundIs ==
    ASSUME NEW s, Keyed(s), NEW e \in Range(s)
    PROVE  Found(s, e.key) = e
<1>1. s \in Seq(Entry) /\ \A i, j \in DOMAIN s : s[i].key = s[j].key => i = j
  BY DEF Keyed
<1>2. PICK i \in DOMAIN s : s[i] = e
  BY <1>1, Places
<1>3. \A j \in DOMAIN s : s[j].key = e.key <=> j = i
  BY <1>1, <1>2
<1>4. (CHOOSE j \in DOMAIN s : s[j].key = e.key) = i
  BY <1>3
<1> QED BY <1>2, <1>4 DEF Found

-----------------------------------------------------------------------------
\* The entries E take up b bytes.
Takes(E, b) == IsFiniteSet(Bytes(E)) /\ b \in Nat /\ Cardinality(Bytes(E)) = b

\* One entry takes up the bytes of its key and of its value.
LEMMA OneTakes ==
    ASSUME NEW e \in Entry
    PROVE  Size(e) \in Nat /\ Takes({e}, Size(e))
<1>1. e.key \in Keys /\ e.value \in Values
  BY DEF Entry
<1>2. Size(e) \in Nat
  BY <1>1, LengthAssumption DEF Size
<1> PICK n \in Nat : n = Size(e)
  BY <1>2
<1>3. IsFiniteSet({e}) /\ Cardinality({e}) = 1
  BY FS_Singleton
<1>4. IsFiniteSet(1..n) /\ Cardinality(1..n) = n
  BY FS_Interval
<1>5. IsFiniteSet({e} \X (1..n)) /\ Cardinality({e} \X (1..n)) = n
  <2>1. /\ IsFiniteSet({e} \X (1..n))
        /\ Cardinality({e} \X (1..n)) = Cardinality({e}) * Cardinality(1..n)
    BY ONLY <1>3, <1>4, FS_Product
  <2> QED BY <1>3, <1>4, <2>1
<1>6. Bytes({e}) = {e} \X (1..n)
  BY DEF Bytes
<1> QED BY <1>2, <1>5, <1>6 DEF Takes

\* Different entries share no bytes.
LEMMA BothTake ==
    ASSUME NEW E, NEW F, E \cap F = {}, NEW b, Takes(E, b), NEW c, Takes(F, c)
    PROVE  Takes(E \cup F, b + c)
<1>1. Bytes(E \cup F) = Bytes(E) \cup Bytes(F)
  BY DEF Bytes
<1>2. Bytes(E) \cap Bytes(F) = {}
  <2>1. \A x \in Bytes(E) : x[1] \in E
    BY DEF Bytes
  <2>2. \A x \in Bytes(F) : x[1] \in F
    BY DEF Bytes
  <2> QED BY <2>1, <2>2
<1>3. IsFiniteSet(Bytes(E)) /\ IsFiniteSet(Bytes(F))
  BY DEF Takes
<1>4. PICK X : X = Bytes(E)
  OBVIOUS
<1>5. PICK Y : Y = Bytes(F)
  OBVIOUS
<1>6. /\ IsFiniteSet(X \cup Y)
      /\ Cardinality(X \cup Y) = Cardinality(X) + Cardinality(Y) - Cardinality(X \cap Y)
  BY <1>3, <1>4, <1>5, FS_Union
<1>7. X \cap Y = {} /\ Cardinality({}) = 0
  BY <1>2, <1>4, <1>5, FS_EmptySet
<1>8. /\ b \in Nat /\ Cardinality(X) = b
      /\ c \in Nat /\ Cardinality(Y) = c
  BY <1>4, <1>5 DEF Takes
<1>9. b + c \in Nat /\ Cardinality(X \cup Y) = b + c
  <2>1. Cardinality(X \cup Y) = b + c - 0
    BY <1>6, <1>7, <1>8, Zenon
  <2> QED BY <1>8, <2>1
<1> QED BY <1>1, <1>4, <1>5, <1>6, <1>9 DEF Takes

\* No entries take up no bytes.
LEMMA NoneTake == Takes({}, 0)
<1>1. Bytes({}) = {}
  BY DEF Bytes
<1> QED BY <1>1, FS_EmptySet DEF Takes

\* A bounded set of naturals has a greatest element, and Max is one.
LEMMA MaxIsIn ==
    ASSUME NEW l \in Nat, NEW T \in SUBSET (0..l), T # {}
    PROVE  Max(T) \in T
<1> DEFINE above == {n..l : n \in T}
<1>2. above \subseteq FiniteSubsetsOf(Nat) /\ above # {}
  <2>1. \A n \in T : IsFiniteSet(n..l) /\ n..l \in SUBSET Nat
    BY FS_Interval
  <2> QED BY <2>1 DEF FiniteSubsetsOf
<1>3. \E b \in above : \A c \in above : <<c, b>> \notin StrictSubsetOrdering(Nat)
  <2> HIDE DEF above
  <2> QED BY <1>2, WFMin, FS_StrictSubsetOrderingWellFounded
<1>4. PICK m \in T : \A n \in T : <<n..l, m..l>> \notin StrictSubsetOrdering(Nat)
  BY <1>3
<1>5. \A n \in T : m < n => <<n..l, m..l>> \in StrictSubsetOrdering(Nat)
  BY DEF StrictSubsetOrdering
<1>6. \A n \in T : m >= n
  <2>1. \A n \in T : ~(m < n)
    BY <1>4, <1>5, Zenon
  <2>2. \A n \in T : n \in Nat /\ m \in Nat
    OBVIOUS
  <2> QED BY <2>1, <2>2
<1> QED BY <1>6 DEF Max

\* What entries take up together, each part takes up its share of.
LEMMA PartsTake ==
    ASSUME NEW E, NEW F, E \cap F = {}, NEW b, Takes(E \cup F, b)
    PROVE  /\ Takes(E, Cardinality(Bytes(E)))
           /\ Takes(F, Cardinality(Bytes(F)))
           /\ b = Cardinality(Bytes(E)) + Cardinality(Bytes(F))
<1>1. Bytes(E) \subseteq Bytes(E \cup F) /\ Bytes(F) \subseteq Bytes(E \cup F)
  BY DEF Bytes
<1>2. IsFiniteSet(Bytes(E)) /\ IsFiniteSet(Bytes(F))
  BY <1>1, FS_Subset DEF Takes
<1>3. Takes(E, Cardinality(Bytes(E))) /\ Takes(F, Cardinality(Bytes(F)))
  BY <1>2, FS_CardinalityType DEF Takes
<1>4. E \cap F = {}
  OBVIOUS
<1>5. Takes(E \cup F, Cardinality(Bytes(E)) + Cardinality(Bytes(F)))
  BY ONLY <1>3, <1>4, BothTake
<1> QED BY <1>3, <1>5 DEF Takes

-----------------------------------------------------------------------------
\* The inductive invariant: the checked ones, and that the bytes are finitely
\* many, without which their number would say nothing.
LRUInv ==
    /\ LRUTypeOK
    /\ Takes(Range(list_), bytes_)
    /\ WithinLimit

\* The constructor's value is an int.
LEMMA NarrowIsInt ==
    ASSUME NEW n \in Int
    PROVE  Narrow(n) \in -(IntMod \div 2) .. IntMod - IntMod \div 2 - 1
<1>1. IntMod \in Int /\ IntMod > 0 /\ IntMod \div 2 \in Int
  BY CapacityAssumption
<1>2. (n + IntMod \div 2) % IntMod \in 0..IntMod - 1
  BY <1>1
<1> QED BY <1>1, <1>2 DEF Narrow

\* A new cache is empty.
LEMMA InitLRU == LRUInit => LRUInv
<1> SUFFICES ASSUME LRUInit PROVE LRUInv
  OBVIOUS
<1>1. capacity \in Capacities /\ capacity \in Int
  BY CapacityAssumption DEF LRUInit
<1>2. max_bytes_ \in -(IntMod \div 2) .. IntMod - IntMod \div 2 - 1
  BY <1>1, NarrowIsInt DEF LRUInit
<1>3. Range(<<>>) = {}
  BY DEF Range
<1>4. LRUTypeOK
  <2>1. KeysOf(list_) = {}
    BY <1>3 DEF LRUInit, KeysOf
  <2> QED BY <1>1, <1>2, <2>1 DEF LRUInit, LRUTypeOK
<1>5. Takes(Range(list_), bytes_)
  BY <1>3, NoneTake DEF LRUInit
<1>6. WithinLimit
  BY DEF LRUInit, WithinLimit
<1> QED BY <1>4, <1>5, <1>6 DEF LRUInv

\* The node of an indexed key is the one that holds it.
LEMMA NodeIs ==
    ASSUME LRUInv, NEW k \in cache_
    PROVE  /\ k \in Keys /\ Node(k) \in 1..Len(list_) /\ list_[Node(k)].key = k
           /\ ValueOf(k) \in Values
           /\ list_[Node(k)] = [key |-> k, value |-> ValueOf(k)]
           /\ list_[Node(k)] \in Range(list_)
<1>1. list_ \in Seq(Entry) /\ cache_ = KeysOf(list_) /\ cache_ \subseteq Keys
  BY DEF LRUInv, LRUTypeOK
<1>2. PICK e \in Range(list_) : e.key = k
  BY <1>1 DEF KeysOf
<1>3. PICK i \in DOMAIN list_ : list_[i] = e
  BY <1>1, Places
<1>4. Node(k) \in DOMAIN list_ /\ list_[Node(k)].key = k
  BY <1>2, <1>3 DEF Node
<1>5. DOMAIN list_ = 1..Len(list_) /\ list_[Node(k)] \in Entry
  BY <1>1, <1>4
<1>6. list_[Node(k)] \in Range(list_)
  BY <1>1, <1>4, <1>5, Places
<1> QED BY <1>1, <1>4, <1>5, <1>6 DEF ValueOf, Entry

\* What is left without a key, and the bytes it takes up.
LEMMA WithoutIs ==
    ASSUME LRUInv, NEW k \in Keys
    PROVE  /\ Keyed(Without(k))
           /\ \A e : e \in Range(Without(k)) <=> e \in Range(list_) /\ e.key # k
           /\ \A R : Ordered(list_, R) => Ordered(Without(k), R)
           /\ k \notin cache_ => Takes(Range(Without(k)), bytes_)
           /\ k \in cache_ =>
                Takes(Range(Without(k)), bytes_ - (KeyLen[k] + ValLen[ValueOf(k)]))
<1>1. /\ Keyed(list_) /\ cache_ = KeysOf(list_)
      /\ Takes(Range(list_), bytes_)
  BY DEF LRUInv, LRUTypeOK, Keyed
<1>2. CASE k \notin cache_
  <2>1. Without(k) = list_
    BY <1>2 DEF Without
  <2>2. \A e \in Range(list_) : e.key # k
    BY <1>1, <1>2 DEF KeysOf
  <2> QED BY <1>1, <1>2, <2>1, <2>2, Zenon
<1>3. CASE k \in cache_
  <2>1. /\ Node(k) \in 1..Len(list_) /\ list_[Node(k)].key = k
        /\ ValueOf(k) \in Values
        /\ list_[Node(k)] = [key |-> k, value |-> ValueOf(k)]
        /\ list_[Node(k)] \in Range(list_)
    BY <1>3, NodeIs
  <2>2. Without(k) = RemoveAt(list_, Node(k))
    BY <1>3 DEF Without
  <2>3. /\ Keyed(RemoveAt(list_, Node(k)))
        /\ \A e : e \in Range(RemoveAt(list_, Node(k)))
                    <=> e \in Range(list_) /\ e.key # list_[Node(k)].key
        /\ \A R : Ordered(list_, R) => Ordered(RemoveAt(list_, Node(k)), R)
    BY ONLY <1>1, <2>1, TakeOut
  <2>4. /\ Keyed(Without(k))
        /\ \A e : e \in Range(Without(k)) <=> e \in Range(list_) /\ e.key # k
        /\ \A R : Ordered(list_, R) => Ordered(Without(k), R)
    BY <2>1, <2>2, <2>3, Zenon
  <2>o. PICK old : old = [key |-> k, value |-> ValueOf(k)]
    OBVIOUS
  <2>5. old \in Entry /\ old.key = k /\ old \in Range(list_)
        /\ Size(old) = KeyLen[k] + ValLen[ValueOf(k)]
    BY <2>1, <2>o DEF Entry, Size
  <2>6. Range(list_) = Range(Without(k)) \cup {old} /\ Range(Without(k)) \cap {old} = {}
    <3>1. \A e \in Range(list_) : e.key = k => e = old
      BY <1>1, <2>5, FoundIs, Zenon
    <3> QED BY <2>4, <2>5, <3>1
  <2>7. Size(old) \in Nat /\ Takes({old}, Size(old))
    BY <2>5, OneTakes
  <2>e. PICK E : E = Range(Without(k))
    OBVIOUS
  <2>8. E \cap {old} = {} /\ Takes(E \cup {old}, bytes_)
    BY <1>1, <2>6, <2>e, Zenon
  <2>9. /\ Takes(E, Cardinality(Bytes(E)))
        /\ bytes_ = Cardinality(Bytes(E)) + Cardinality(Bytes({old}))
    BY ONLY <2>8, PartsTake
  <2>10. Cardinality(Bytes({old})) = Size(old) /\ Cardinality(Bytes(E)) \in Nat
    BY <2>7, <2>9 DEF Takes
  <2>11. Cardinality(Bytes(E)) = bytes_ - Size(old)
    BY <2>7, <2>9, <2>10
  <2>12. Takes(E, bytes_ - Size(old))
    BY <2>9, <2>11, Zenon
  <2> QED BY <1>3, <2>4, <2>5, <2>12, <2>e, Zenon
<1> QED BY <1>2, <1>3

\* The list once k is in front of what is left without it.
Filled(k, v) == <<[key |-> k, value |-> v]>> \o Without(k)

\* The bytes counted for it.
Counted(k, v) ==
    bytes_ + (IF k \in cache_ THEN ValLen[v] - ValLen[ValueOf(k)]
                              ELSE KeyLen[k] + ValLen[v])

LEMMA FilledIs ==
    ASSUME LRUInv, NEW k \in Keys, NEW v \in Values
    PROVE  /\ Keyed(Filled(k, v)) /\ Filled(k, v) # <<>>
           /\ \A e : e \in Range(Filled(k, v)) <=>
                        (e \in Range(list_) /\ e.key # k) \/ e = [key |-> k, value |-> v]
           /\ KeysOf(Filled(k, v)) = cache_ \cup {k}
           /\ Counted(k, v) \in Int /\ Takes(Range(Filled(k, v)), Counted(k, v))
<1>e. PICK e : e = [key |-> k, value |-> v]
  OBVIOUS
<1>t. PICK t : t = Without(k)
  OBVIOUS
<1>u. PICK u : u = <<e>> \o t
  OBVIOUS
<1>1. e \in Entry /\ e.key = k /\ Size(e) = KeyLen[k] + ValLen[v]
  BY <1>e DEF Entry, Size
<1>2. /\ Keyed(t)
      /\ \A x : x \in Range(t) <=> x \in Range(list_) /\ x.key # k
      /\ k \notin cache_ => Takes(Range(t), bytes_)
      /\ k \in cache_ =>
            Takes(Range(t), bytes_ - (KeyLen[k] + ValLen[ValueOf(k)]))
  BY <1>t, WithoutIs
<1>3. \A x \in Range(t) : x.key # e.key
  BY <1>1, <1>2
<1>4. /\ Keyed(<<e>> \o t)
      /\ \A x : x \in Range(<<e>> \o t) <=> x \in Range(t) \/ x = e
  BY ONLY <1>1, <1>2, <1>3, PutInFront
<1>5. Keyed(u) /\ \A x : x \in Range(u) <=> x \in Range(t) \/ x = e
  BY <1>4, <1>u, Zenon
<1>6. Filled(k, v) = u
  BY <1>e, <1>t, <1>u, Zenon DEF Filled
<1>7. \A x : x \in Range(u) <=> (x \in Range(list_) /\ x.key # k) \/ x = e
  BY <1>2, <1>5, Zenon
<1>8. cache_ = KeysOf(list_)
  BY DEF LRUInv, LRUTypeOK
<1>9. KeysOf(u) = cache_ \cup {k}
  BY <1>1, <1>7, <1>8 DEF KeysOf
<1>10. u # <<>>
  <2>1. \E x : x \in Range(u)
    BY <1>7
  <2> QED BY <2>1 DEF Range
<1>11. Range(u) = Range(t) \cup {e} /\ Range(t) \cap {e} = {}
  BY <1>3, <1>5
<1>12. Size(e) \in Nat /\ Takes({e}, Size(e))
  BY <1>1, OneTakes
<1>13. KeyLen[k] \in Nat /\ ValLen[v] \in Nat /\ bytes_ \in Int
  BY LengthAssumption DEF LRUInv, LRUTypeOK
<1>14. ASSUME NEW b \in Int, Takes(Range(t), b) PROVE Takes(Range(u), b + Size(e))
  <2>1. Range(t) \cap {e} = {}
    BY <1>11
  <2>2. Takes(Range(t) \cup {e}, b + Size(e))
    BY ONLY <1>12, <1>14, <2>1, BothTake
  <2> QED BY <1>11, <2>2
<1>15. Counted(k, v) \in Int /\ Takes(Range(u), Counted(k, v))
  <2>1. CASE k \notin cache_
    <3>1. Takes(Range(u), bytes_ + Size(e))
      BY <1>2, <1>13, <1>14, <2>1
    <3>2. Counted(k, v) = bytes_ + Size(e) /\ bytes_ + Size(e) \in Int
      BY <1>1, <1>13, <2>1 DEF Counted
    <3> QED BY <3>1, <3>2
  <2>2. CASE k \in cache_
    <3>1. ValLen[ValueOf(k)] \in Nat
      BY <2>2, NodeIs, LengthAssumption
    <3>2. bytes_ - (KeyLen[k] + ValLen[ValueOf(k)]) \in Int
      BY <1>13, <3>1
    <3>3. Takes(Range(u), bytes_ - (KeyLen[k] + ValLen[ValueOf(k)]) + Size(e))
      BY <1>2, <1>14, <2>2, <3>2
    <3>4. Counted(k, v) = bytes_ + (ValLen[v] - ValLen[ValueOf(k)])
      BY <2>2 DEF Counted
    <3>5. Counted(k, v) = bytes_ - (KeyLen[k] + ValLen[ValueOf(k)]) + Size(e)
          /\ Counted(k, v) \in Int
      BY <1>1, <1>13, <3>1, <3>4
    <3> QED BY <3>3, <3>5
  <2> QED BY <2>1, <2>2
<1> QED BY <1>5, <1>6, <1>7, <1>9, <1>10, <1>15, <1>e, Zenon

\* How many entries the eviction loop leaves.
LEMMA KeptIs ==
    ASSUME NEW s, Len(s) \in Nat, NEW b
    PROVE  /\ Kept(s, b) \in 0..Len(s)
           /\ \/ Kept(s, b) = 0
              \/ max_bytes_ = 0
              \/ b - Weight(SubSeq(s, Kept(s, b) + 1, Len(s))) <= max_bytes_
<1> DEFINE T == {n \in 0..Len(s) :
                    \/ n = 0
                    \/ max_bytes_ = 0
                    \/ b - Weight(SubSeq(s, n + 1, Len(s))) <= max_bytes_}
<1>1. Kept(s, b) = Max(T)
  BY DEF Kept
<1>2. 0 \in T
  OBVIOUS
<1>3. T \in SUBSET (0..Len(s)) /\ T # {} /\ Len(s) \in Nat
  BY <1>2
<1>4. Max(T) \in T
  <2> HIDE DEF T
  <2> QED BY ONLY <1>3, MaxIsIn
<1> QED BY <1>1, <1>4

\* A list and the bytes counted for it, cut where the loop stops.
LEMMA CutTakes ==
    ASSUME NEW s, Keyed(s), NEW b, Takes(Range(s), b), NEW n \in 0..Len(s)
    PROVE  LET front == SubSeq(s, 1, n)
               back == SubSeq(s, n + 1, Len(s))
           IN  /\ Keyed(front) /\ Keyed(back)
               /\ KeysOf(front) = KeysOf(s) \ KeysOf(back)
               /\ b - Weight(back) \in Nat /\ Weight(back) \in Nat
               /\ Takes(Range(front), b - Weight(back))
<1>a. PICK a : a = SubSeq(s, 1, n)
  OBVIOUS
<1>d. PICK d : d = SubSeq(s, n + 1, Len(s))
  OBVIOUS
<1>0. Keyed(s) /\ Takes(Range(s), b)
  OBVIOUS
<1>1. /\ Keyed(a) /\ Keyed(d)
      /\ \A e : e \in Range(s) <=> e \in Range(a) \/ e \in Range(d)
      /\ \A e \in Range(a), x \in Range(d) : e.key # x.key
  BY <1>0, <1>a, <1>d, Cut, Zenon
<1>2. Range(s) = Range(a) \cup Range(d) /\ Range(a) \cap Range(d) = {}
  BY <1>1
<1>3. KeysOf(a) = KeysOf(s) \ KeysOf(d)
  BY <1>1 DEF KeysOf
<1>4. Range(a) \cap Range(d) = {} /\ Takes(Range(a) \cup Range(d), b)
  BY <1>0, <1>2
<1>5. /\ Takes(Range(a), Cardinality(Bytes(Range(a))))
      /\ Takes(Range(d), Cardinality(Bytes(Range(d))))
      /\ b = Cardinality(Bytes(Range(a))) + Cardinality(Bytes(Range(d)))
  BY ONLY <1>4, PartsTake
<1>6. Weight(d) \in Nat /\ Weight(d) = Cardinality(Bytes(Range(d)))
      /\ Cardinality(Bytes(Range(a))) \in Nat
  BY <1>5 DEF Takes, Weight
<1>7. b - Weight(d) = Cardinality(Bytes(Range(a)))
  BY <1>5, <1>6
<1>8. b - Weight(d) \in Nat /\ Takes(Range(a), b - Weight(d))
  BY <1>5, <1>6, <1>7, Zenon
<1> QED BY <1>1, <1>3, <1>6, <1>8, <1>a, <1>d, Zenon

\* The callbacks are told of entries; turning their order round adds none.
LEMMA TurnedIs ==
    ASSUME NEW s \in Seq(Entry)
    PROVE  /\ Reverse(s) \in Seq(Entry) /\ Range(Reverse(s)) = Range(s)
           /\ Callbacks(s) \in Seq(Entry)
<1>n. PICK n \in Nat : n = Len(s)
  OBVIOUS
<1>r. PICK r : r = Reverse(s)
  OBVIOUS
<1>1. s \in [1..n -> Entry]
  BY <1>n
<1>2. r = [i \in 1..n |-> s[(n - i) + 1]]
  BY <1>n, <1>r DEF Reverse
<1>3. \A i \in 1..n : (n - i) + 1 \in 1..n /\ (n - ((n - i) + 1)) + 1 = i
  OBVIOUS
<1>4. r \in Seq(Entry) /\ Len(r) = n
  <2>1. r \in [1..n -> Entry]
    BY <1>1, <1>2, <1>3
  <2> QED BY <1>2, <2>1
<1>5. Range(r) = Range(s)
  <2>1. \A e : e \in Range(r) <=> \E i \in 1..n : r[i] = e
    BY <1>4, Places
  <2>2. \A e : e \in Range(s) <=> \E i \in 1..n : s[i] = e
    BY <1>n, Places
  <2>3. \A i \in 1..n : r[i] = s[(n - i) + 1]
    BY <1>2
  <2>4. \A i \in 1..n : s[i] = r[(n - i) + 1]
    BY <1>3, <2>3
  <2>5. ASSUME NEW e \in Range(r) PROVE e \in Range(s)
    <3> PICK i \in 1..n : r[i] = e
      BY <2>1
    <3> QED BY <1>3, <2>2, <2>3
  <2>6. ASSUME NEW e \in Range(s) PROVE e \in Range(r)
    <3> PICK i \in 1..n : s[i] = e
      BY <2>2
    <3> QED BY <1>3, <2>1, <2>4
  <2> QED BY <2>5, <2>6
<1>6. Callbacks(s) \in Seq(Entry)
  BY DEF Callbacks
<1> QED BY <1>4, <1>5, <1>6, <1>r

\* Set keeps the invariant.
LEMMA SetLRU ==
    ASSUME LRUInv, NEW k \in Keys, NEW v \in Values, Set(k, v)
    PROVE  LRUInv'
<1>s. PICK s : s = Filled(k, v)
  OBVIOUS
<1>b. PICK b : b = Counted(k, v)
  OBVIOUS
<1>1. Keyed(s) /\ KeysOf(s) = cache_ \cup {k} /\ b \in Int /\ Takes(Range(s), b)
  BY <1>s, <1>b, FilledIs
<1>2. s \in Seq(Entry) /\ Len(s) \in Nat
  BY <1>1 DEF Keyed
<1>n. PICK n : n = Kept(s, b)
  OBVIOUS
<1>3. /\ n \in 0..Len(s)
      /\ n = 0 \/ max_bytes_ = 0 \/ b - Weight(SubSeq(s, n + 1, Len(s))) <= max_bytes_
  BY <1>2, <1>n, KeptIs
<1>a. PICK a : a = SubSeq(s, 1, n)
  OBVIOUS
<1>d. PICK d : d = SubSeq(s, n + 1, Len(s))
  OBVIOUS
<1>4. /\ Keyed(a) /\ Keyed(d)
      /\ KeysOf(a) = KeysOf(s) \ KeysOf(d)
      /\ b - Weight(d) \in Nat /\ Weight(d) \in Nat
      /\ Takes(Range(a), b - Weight(d))
  BY <1>1, <1>3, <1>a, <1>d, CutTakes, Zenon
<1>5. /\ list_' = a /\ cache_' = (cache_ \cup {k}) \ KeysOf(d)
      /\ bytes_' = b - Weight(d)
      /\ evicted' = Callbacks(Reverse(d))
      /\ max_bytes_' = max_bytes_ /\ capacity' = capacity
  BY <1>s, <1>b, <1>n, <1>a, <1>d, Zenon DEF Set, Filled, Counted
<1>6. LRUTypeOK'
  <2>1. /\ capacity \in Capacities
        /\ max_bytes_ \in -(IntMod \div 2) .. IntMod - IntMod \div 2 - 1
        /\ cache_ \subseteq Keys
    BY DEF LRUInv, LRUTypeOK
  <2>2. evicted' \in Seq(Entry)
    <3>1. d \in Seq(Entry)
      BY <1>4 DEF Keyed
    <3> QED BY <1>5, <3>1, TurnedIs
  <2>3. /\ list_' \in Seq(Entry)
        /\ \A i, j \in DOMAIN list_' : list_'[i].key = list_'[j].key => i = j
    BY <1>4, <1>5 DEF Keyed
  <2>4. cache_' \subseteq Keys /\ cache_' = KeysOf(list_')
    BY <1>1, <1>4, <1>5, <2>1, Zenon
  <2>5. bytes_' \in Int
    BY <1>4, <1>5
  <2> QED BY <1>5, <2>1, <2>2, <2>3, <2>4, <2>5 DEF LRUTypeOK, KeysOf
<1>7. Takes(Range(list_'), bytes_')
  BY <1>4, <1>5
<1>8. WithinLimit'
  <2>1. CASE n = 0
    <3>1. a = <<>>
      BY <1>2, <1>a, <2>1
    <3> QED BY <1>5, <3>1 DEF WithinLimit
  <2>2. CASE n # 0
    BY <1>3, <1>5, <1>d, <2>2 DEF WithinLimit
  <2> QED BY <2>1, <2>2
<1> QED BY <1>6, <1>7, <1>8 DEF LRUInv, Takes, Bytes

\* A hit keeps the invariant: it is what a Set of the same value would do if
\* there were no limit.
LEMMA HitLRU == ASSUME LRUInv, NEW k \in Keys, Hit(k) PROVE LRUInv'
<1>1. k \in cache_ /\ ValueOf(k) \in Values
  BY NodeIs DEF Hit
<1>s. PICK s : s = Filled(k, ValueOf(k))
  OBVIOUS
<1>b. PICK b : b = Counted(k, ValueOf(k))
  OBVIOUS
<1>2. /\ Keyed(s) /\ s # <<>> /\ KeysOf(s) = cache_ \cup {k}
      /\ b \in Int /\ Takes(Range(s), b)
  BY <1>1, <1>s, <1>b, FilledIs
<1>3. b = bytes_
  <2>1. bytes_ \in Int /\ ValLen[ValueOf(k)] \in Int
    BY <1>1, LengthAssumption DEF LRUInv, LRUTypeOK
  <2>2. b = bytes_ + (ValLen[ValueOf(k)] - ValLen[ValueOf(k)])
    BY <1>1, <1>b DEF Counted
  <2> QED BY <2>1, <2>2
<1>4. /\ list_' = s /\ evicted' = <<>>
      /\ UNCHANGED <<capacity, max_bytes_, cache_, bytes_>>
  BY <1>s, Zenon DEF Hit, Filled
<1>5. LRUTypeOK'
  <2>1. /\ list_' \in Seq(Entry)
        /\ \A i, j \in DOMAIN list_' : list_'[i].key = list_'[j].key => i = j
    BY <1>2, <1>4 DEF Keyed
  <2>2. cache_' = KeysOf(list_')
    BY <1>1, <1>2, <1>4
  <2>3. evicted' \in Seq(Entry)
    BY <1>4
  <2> QED BY <1>4, <2>1, <2>2, <2>3 DEF LRUInv, LRUTypeOK, KeysOf
<1>6. Takes(Range(list_'), bytes_')
  BY <1>2, <1>3, <1>4
<1>7. WithinLimit'
  <2>1. list_ # <<>>
    <3>1. list_ \in Seq(Entry) /\ Node(k) \in 1..Len(list_)
      BY <1>1, NodeIs DEF LRUInv, LRUTypeOK
    <3> QED BY <3>1
  <2> QED BY <1>4, <2>1 DEF LRUInv, WithinLimit
<1> QED BY <1>5, <1>6, <1>7 DEF LRUInv, Takes, Bytes

\* Delete keeps the invariant.
LEMMA DeleteLRU == ASSUME LRUInv, NEW k \in Keys, Delete(k) PROVE LRUInv'
<1>t. PICK t : t = Without(k)
  OBVIOUS
<1>e. PICK e : e = [key |-> k, value |-> ValueOf(k)]
  OBVIOUS
<1>1. k \in cache_ /\ e \in Entry /\ e \in Range(list_)
  BY <1>e, NodeIs DEF Delete, Entry
<1>2. /\ Keyed(t)
      /\ \A x : x \in Range(t) <=> x \in Range(list_) /\ x.key # k
      /\ Takes(Range(t), bytes_ - (KeyLen[k] + ValLen[ValueOf(k)]))
  BY <1>t, <1>1, WithoutIs
<1>3. /\ list_' = t /\ cache_' = cache_ \ {k}
      /\ bytes_' = bytes_ - (KeyLen[k] + ValLen[ValueOf(k)])
      /\ evicted' = Callbacks(<<e>>)
      /\ UNCHANGED <<capacity, max_bytes_>>
  BY <1>t, <1>e, Zenon DEF Delete
<1>4. KeyLen[k] \in Nat /\ ValLen[ValueOf(k)] \in Nat /\ bytes_ \in Int
  BY <1>1, NodeIs, LengthAssumption DEF LRUInv, LRUTypeOK
<1>5. bytes_' \in Int /\ bytes_' <= bytes_
  BY <1>3, <1>4
<1>6. LRUTypeOK'
  <2>1. /\ list_' \in Seq(Entry)
        /\ \A i, j \in DOMAIN list_' : list_'[i].key = list_'[j].key => i = j
    BY <1>2, <1>3 DEF Keyed
  <2>2. cache_ = KeysOf(list_) /\ cache_ \subseteq Keys
    BY DEF LRUInv, LRUTypeOK
  <2>3. cache_' = KeysOf(list_') /\ cache_' \subseteq Keys
    BY <1>2, <1>3, <2>2 DEF KeysOf
  <2>4. evicted' \in Seq(Entry)
    <3>1. <<e>> \in Seq(Entry)
      BY <1>1
    <3> QED BY <1>3, <3>1, TurnedIs
  <2> QED BY <1>3, <1>5, <2>1, <2>3, <2>4 DEF LRUInv, LRUTypeOK, KeysOf
<1>7. Takes(Range(list_'), bytes_')
  BY <1>2, <1>3
<1>8. WithinLimit'
  <2>1. max_bytes_ \in Int
    <3>1. IntMod \in Int /\ IntMod \div 2 \in Int
      BY CapacityAssumption
    <3> QED BY <3>1 DEF LRUInv, LRUTypeOK
  <2>2. list_ # <<>>
    BY <1>1 DEF Range
  <2>3. max_bytes_ # 0 => bytes_ <= max_bytes_
    BY <2>2 DEF LRUInv, WithinLimit
  <2>4. max_bytes_' = max_bytes_ /\ (max_bytes_ # 0 => bytes_' <= max_bytes_)
    BY <1>3, <1>4, <1>5, <2>1, <2>3
  <2> QED BY <2>4 DEF WithinLimit
<1> QED BY <1>6, <1>7, <1>8 DEF LRUInv, Takes, Bytes

\* RemoveOldest keeps the invariant.
LEMMA RemoveOldestLRU == ASSUME LRUInv, RemoveOldest PROVE LRUInv'
<1>1. /\ Keyed(list_) /\ Takes(Range(list_), bytes_)
      /\ list_ \in Seq(Entry) /\ list_ # <<>>
      /\ cache_ = KeysOf(list_) /\ cache_ \subseteq Keys
  BY DEF RemoveOldest, LRUInv, LRUTypeOK, Keyed
<1>n. PICK n \in Nat : Len(list_) = n + 1
  <2>1. Len(list_) \in Nat /\ Len(list_) # 0
    BY <1>1
  <2>2. Len(list_) - 1 \in Nat /\ Len(list_) = (Len(list_) - 1) + 1
    BY <2>1
  <2> QED BY <2>2
<1>2. n \in 0..Len(list_)
  BY <1>n
<1>a. PICK a : a = SubSeq(list_, 1, n)
  OBVIOUS
<1>d. PICK d : d = SubSeq(list_, n + 1, Len(list_))
  OBVIOUS
<1>3. /\ Keyed(a) /\ Keyed(d)
      /\ KeysOf(a) = KeysOf(list_) \ KeysOf(d)
      /\ bytes_ - Weight(d) \in Nat /\ Weight(d) \in Nat
      /\ Takes(Range(a), bytes_ - Weight(d))
  BY <1>1, <1>2, <1>a, <1>d, CutTakes, Zenon
<1>l. PICK l : l = Last(list_)
  OBVIOUS
<1>4. l = list_[n + 1] /\ l \in Entry
  BY <1>1, <1>n, <1>l DEF Last
<1>5. Range(d) = {l}
  <2>1. d \in Seq(Entry) /\ Len(d) = 1 /\ d[1] = list_[n + 1]
    BY <1>1, <1>n, <1>d
  <2>2. \A e : e \in Range(d) <=> \E i \in 1..1 : d[i] = e
    BY <2>1, Places
  <2>3. \A i : i \in 1..1 <=> i = 1
    OBVIOUS
  <2> QED BY <1>4, <2>1, <2>2, <2>3
<1>6. Weight(d) = Size(l) /\ KeysOf(d) = {l.key}
  <2>1. Takes({l}, Size(l))
    BY <1>4, OneTakes
  <2> QED BY <1>5, <2>1 DEF Weight, KeysOf, Takes
<1>7. /\ list_' = a /\ cache_' = cache_ \ {l.key}
      /\ bytes_' = bytes_ - Size(l)
      /\ evicted' = Callbacks(<<l>>)
      /\ UNCHANGED <<capacity, max_bytes_>>
  <2>1. Front(list_) = a
    BY <1>n, <1>a DEF Front
  <2> QED BY <1>l, <2>1 DEF RemoveOldest
<1>8. LRUTypeOK'
  <2>1. /\ list_' \in Seq(Entry)
        /\ \A i, j \in DOMAIN list_' : list_'[i].key = list_'[j].key => i = j
    BY <1>3, <1>7 DEF Keyed
  <2>2. cache_' = KeysOf(list_') /\ cache_' \subseteq Keys
    BY <1>1, <1>3, <1>6, <1>7, Zenon
  <2>3. evicted' \in Seq(Entry)
    <3>1. <<l>> \in Seq(Entry)
      BY <1>4
    <3> QED BY <1>7, <3>1, TurnedIs
  <2>4. bytes_' \in Int
    BY <1>3, <1>6, <1>7
  <2> QED BY <1>7, <2>1, <2>2, <2>3, <2>4 DEF LRUInv, LRUTypeOK, KeysOf
<1>9. Takes(Range(list_'), bytes_')
  BY <1>3, <1>6, <1>7
<1>10. WithinLimit'
  <2>1. max_bytes_ \in Int /\ bytes_ \in Int
    <3>1. IntMod \in Int /\ IntMod \div 2 \in Int
      BY CapacityAssumption
    <3> QED BY <3>1 DEF LRUInv, LRUTypeOK
  <2>2. max_bytes_ # 0 => bytes_ <= max_bytes_
    BY <1>1 DEF LRUInv, WithinLimit
  <2>3. Size(l) \in Nat
    BY <1>4, OneTakes
  <2>4. max_bytes_' = max_bytes_ /\ (max_bytes_ # 0 => bytes_' <= max_bytes_)
    BY <1>7, <2>1, <2>2, <2>3
  <2> QED BY <2>4 DEF WithinLimit
<1> QED BY <1>8, <1>9, <1>10 DEF LRUInv, Takes, Bytes

\* A step that changes nothing but forgets the last victims.
LEMMA MissLRU == ASSUME LRUInv, NEW k \in Keys, Miss(k) PROVE LRUInv'
<1>1. evicted' \in Seq(Entry)
  BY DEF Miss
<1>2. LRUTypeOK'
  BY <1>1 DEF LRUInv, LRUTypeOK, Miss, KeysOf
<1> QED BY <1>2 DEF LRUInv, WithinLimit, Takes, Bytes, Miss

\* Every step keeps the invariant.
LEMMA NextLRU == LRUInv /\ [LRUNext]_lruVars => LRUInv'
<1> SUFFICES ASSUME LRUInv, [LRUNext]_lruVars PROVE LRUInv'
  OBVIOUS
<1>1. ASSUME NEW k \in Keys, Miss(k) \/ DeleteAbsent(k) PROVE LRUInv'
  BY <1>1, MissLRU DEF DeleteAbsent
<1>2. ASSUME NEW k \in Keys, Hit(k) PROVE LRUInv'
  BY <1>2, HitLRU
<1>3. ASSUME NEW k \in Keys, Delete(k) PROVE LRUInv'
  BY <1>3, DeleteLRU
<1>4. ASSUME NEW k \in Keys, NEW v \in Values, Set(k, v) PROVE LRUInv'
  BY <1>4, SetLRU
<1>5. CASE RemoveOldest
  BY <1>5, RemoveOldestLRU
<1>6. CASE UNCHANGED lruVars
  <2>1. LRUTypeOK'
    BY <1>6 DEF LRUInv, LRUTypeOK, lruVars, KeysOf
  <2> QED BY <1>6, <2>1 DEF LRUInv, WithinLimit, Takes, Bytes, lruVars
<1> QED BY <1>1, <1>2, <1>3, <1>4, <1>5, <1>6, Zenon DEF LRUNext

\* k is held with the value v.
Held(k, v) == [key |-> k, value |-> v] \in Range(list_)

\* A cache begins with nothing, and what ValueOf tells of a key is held.
LEMMA HeldIsShown ==
    /\ LRUInit => \A k, v : ~Held(k, v)
    /\ LRUInv => \A k \in cache_ : Held(k, ValueOf(k))
<1>1. ASSUME LRUInit, NEW k, NEW v PROVE ~Held(k, v)
  BY <1>1 DEF LRUInit, Held, Range
<1>2. ASSUME LRUInv, NEW k \in cache_ PROVE Held(k, ValueOf(k))
  BY <1>2, NodeIs DEF Held
<1> QED BY <1>1, <1>2

\* Only a Set adds anything, and only its value for its key.
LEMMA SetHeld ==
    ASSUME LRUInv, NEW k \in Keys, NEW v \in Values, Set(k, v),
           NEW j, NEW w, Held(j, w)'
    PROVE  Held(j, w) \/ (j = k /\ w = v)
<1>s. PICK s : s = Filled(k, v)
  OBVIOUS
<1>n. PICK n : n = Kept(s, Counted(k, v))
  OBVIOUS
<1>a. PICK a : a = SubSeq(s, 1, n)
  OBVIOUS
<1>x. PICK x : x = [key |-> j, value |-> w]
  OBVIOUS
<1>1. Keyed(s) /\ Len(s) \in Nat
  BY <1>s, FilledIs DEF Keyed
<1>2. n \in 0..Len(s)
  BY <1>1, <1>n, KeptIs
<1>3. \A e : e \in Range(a) => e \in Range(s)
  BY <1>1, <1>2, <1>a, Cut, Zenon
<1>4. list_' = a
  BY <1>s, <1>n, <1>a, Zenon DEF Set, Filled, Counted
<1>5. x \in Range(s)
  BY <1>3, <1>4, <1>x DEF Held, Range
<1>6. x \in Range(list_) \/ x = [key |-> k, value |-> v]
  BY <1>5, <1>s, FilledIs
<1> QED BY <1>6, <1>x DEF Held

LEMMA HitHeld ==
    ASSUME LRUInv, NEW k \in Keys, Hit(k), NEW j, NEW w, Held(j, w)'
    PROVE  Held(j, w)
<1>s. PICK s : s = Filled(k, ValueOf(k))
  OBVIOUS
<1>x. PICK x : x = [key |-> j, value |-> w]
  OBVIOUS
<1>1. k \in cache_ /\ ValueOf(k) \in Values
  BY NodeIs DEF Hit
<1>2. list_' = s
  BY <1>s, Zenon DEF Hit, Filled
<1>3. x \in Range(s)
  BY <1>2, <1>x DEF Held, Range
<1>4. x \in Range(list_) \/ x = [key |-> k, value |-> ValueOf(k)]
  BY <1>1, <1>3, <1>s, FilledIs
<1>5. [key |-> k, value |-> ValueOf(k)] \in Range(list_)
  BY <1>1, HeldIsShown DEF Held
<1> QED BY <1>4, <1>5, <1>x DEF Held

LEMMA DeleteHeld ==
    ASSUME LRUInv, NEW k \in Keys, Delete(k) \/ Miss(k), NEW j, NEW w, Held(j, w)'
    PROVE  Held(j, w)
<1>t. PICK t : t = Without(k)
  OBVIOUS
<1>1. CASE Miss(k)
  BY <1>1 DEF Miss, Held, Range
<1>2. CASE Delete(k)
  <2>1. list_' = t
    BY <1>2, <1>t, Zenon DEF Delete
  <2>2. \A e : e \in Range(t) => e \in Range(list_)
    BY <1>t, WithoutIs
  <2> QED BY <2>1, <2>2 DEF Held, Range
<1> QED BY <1>1, <1>2

LEMMA LRUInvariant == LRUSpec => []LRUInv
<1> QED BY InitLRU, NextLRU, PTL DEF LRUSpec

\* The variables have their types, and the index and the list of nodes agree:
\* every key has one node, whatever is looked up, set, deleted or evicted.
THEOREM LRUTypeCorrect == LRUSpec => []LRUTypeOK
<1>1. LRUInv => LRUTypeOK
  BY DEF LRUInv
<1> QED BY <1>1, LRUInvariant, PTL

\* The running count of Set, Delete and RemoveOldest is the number of bytes held.
THEOREM CountIsExact == LRUSpec => []BytesExact
<1>1. LRUInv => BytesExact
  BY DEF LRUInv, BytesExact, Weight, Takes
<1> QED BY <1>1, LRUInvariant, PTL

\* The eviction loop of Set leaves the cache within its limit, and nothing else
\* takes it out of it.
THEOREM LimitIsKept == LRUSpec => []WithinLimit
<1>1. LRUInv => WithinLimit
  BY DEF LRUInv
<1> QED BY <1>1, LRUInvariant, PTL

-----------------------------------------------------------------------------
\* The observer constrains no step of the cache, whose invariant holds under it.
LEMMA StepOfCache == [HNext]_hVars => [LRUNext]_lruVars
<1>1. ASSUME HNext PROVE LRUNext
  BY <1>1, Zenon DEF HNext, LRUNext
<1>2. ASSUME UNCHANGED hVars PROVE UNCHANGED lruVars
  BY <1>2 DEF hVars
<1> QED BY <1>1, <1>2

LEMMA CacheUnderHistory == HSpec => []LRUInv
<1>1. HInit => LRUInv
  BY InitLRU DEF HInit
<1>2. LRUInv /\ [HNext]_hVars => LRUInv'
  BY StepOfCache, NextLRU
<1> QED BY <1>1, <1>2, PTL DEF HSpec

\* The list with k in front is in the order of the uses once k is used.
LEMMA UsedIsFirst ==
    ASSUME LRUInv, NEW k \in Keys, NEW v \in Values, Ordered(list_, later), Touch(k)
    PROVE  Ordered(Filled(k, v), later')
<1>e. PICK e : e = [key |-> k, value |-> v]
  OBVIOUS
<1>t. PICK t : t = Without(k)
  OBVIOUS
<1>q. PICK Q : Q = later'
  OBVIOUS
<1>1. e \in Entry /\ e.key = k
  BY <1>e DEF Entry
<1>2. /\ Keyed(t)
      /\ \A x : x \in Range(t) <=> x \in Range(list_) /\ x.key # k
      /\ Ordered(t, later)
  BY <1>t, WithoutIs
<1>3. \A x \in Range(t) : x.key # e.key
  BY <1>1, <1>2
<1>4. Q = {p \in later : p[1] # k /\ p[2] # k} \cup ({k} \X (Keys \ {k}))
  BY <1>q DEF Touch
<1>5. \A i \in DOMAIN t : t[i] \in Range(t) /\ t[i] \in Entry
  BY <1>2, Places DEF Keyed
<1>6. Ordered(t, Q)
  <2> SUFFICES ASSUME NEW i \in DOMAIN t, NEW j \in DOMAIN t, i < j
               PROVE  <<t[i].key, t[j].key>> \in Q
    BY DEF Ordered
  <2>1. <<t[i].key, t[j].key>> \in later
    BY <1>2 DEF Ordered
  <2>2. t[i].key # k /\ t[j].key # k
    BY <1>2, <1>5
  <2> QED BY <1>4, <2>1, <2>2
<1>7. \A x \in Range(t) : <<e.key, x.key>> \in Q
  <2> SUFFICES ASSUME NEW x \in Range(t) PROVE <<e.key, x.key>> \in Q
    OBVIOUS
  <2>1. x \in Entry
    BY <1>2, Places DEF Keyed
  <2>2. x.key \in Keys \ {k}
    BY <1>1, <1>3, <2>1 DEF Entry
  <2> QED BY <1>1, <1>4, <2>2
<1>8. \A R : Ordered(t, R) /\ (\A x \in Range(t) : <<e.key, x.key>> \in R)
                => Ordered(<<e>> \o t, R)
  BY ONLY <1>1, <1>2, <1>3, PutInFront
<1>9. Ordered(<<e>> \o t, Q)
  BY <1>6, <1>7, <1>8, Zenon
<1> QED BY <1>9, <1>e, <1>t, <1>q, Zenon DEF Filled

\* The order is kept by every step.
LEMMA NextOrdered ==
    LRUInv /\ RecencyOrder /\ [HNext]_hVars => RecencyOrder'
<1> SUFFICES ASSUME LRUInv, RecencyOrder, [HNext]_hVars PROVE RecencyOrder'
  OBVIOUS
<1>1. Keyed(list_) /\ Ordered(list_, later)
  BY DEF LRUInv, LRUTypeOK, Keyed, RecencyOrder, Ordered
<1> SUFFICES Ordered(list_', later')
  BY DEF RecencyOrder, Ordered
<1>2. ASSUME UNCHANGED <<list_, later>> PROVE Ordered(list_', later')
  BY <1>1, <1>2
<1>3. ASSUME NEW k \in Keys, Hit(k), Touch(k) PROVE Ordered(list_', later')
  <2>1. ValueOf(k) \in Values
    BY <1>3, NodeIs DEF Hit
  <2>2. Ordered(Filled(k, ValueOf(k)), later')
    BY <1>1, <1>3, <2>1, UsedIsFirst
  <2>3. list_' = Filled(k, ValueOf(k))
    BY <1>3, Zenon DEF Hit, Filled
  <2> QED BY <2>2, <2>3, Zenon
<1>4. ASSUME NEW k \in Keys, NEW v \in Values, Set(k, v), Touch(k)
      PROVE  Ordered(list_', later')
  <2>s. PICK s : s = Filled(k, v)
    OBVIOUS
  <2>b. PICK b : b = Counted(k, v)
    OBVIOUS
  <2>1. Keyed(s) /\ s \in Seq(Entry) /\ Len(s) \in Nat
    BY <2>s, FilledIs DEF Keyed
  <2>n. PICK n : n = Kept(s, b)
    OBVIOUS
  <2>2. n \in 0..Len(s)
    BY <2>1, <2>n, KeptIs
  <2>3. Ordered(s, later')
    BY <1>1, <1>4, <2>s, UsedIsFirst
  <2>4. \A R : Ordered(s, R) => Ordered(SubSeq(s, 1, n), R)
    BY ONLY <2>1, <2>2, Cut
  <2>5. list_' = SubSeq(s, 1, n)
    BY <1>4, <2>s, <2>b, <2>n, Zenon DEF Set, Filled, Counted
  <2> QED BY <2>3, <2>4, <2>5, Zenon
<1>5. ASSUME NEW k \in Keys, Delete(k), UNCHANGED later
      PROVE  Ordered(list_', later')
  <2>1. \A R : Ordered(list_, R) => Ordered(Without(k), R)
    BY WithoutIs
  <2> QED BY <1>1, <1>5, <2>1, Zenon DEF Delete
<1>6. ASSUME RemoveOldest, UNCHANGED later PROVE Ordered(list_', later')
  <2>1. list_ \in Seq(Entry) /\ list_ # <<>> /\ Len(list_) \in Nat
    BY <1>6 DEF RemoveOldest, LRUInv, LRUTypeOK
  <2>2. Len(list_) - 1 \in 0..Len(list_)
    BY <2>1
  <2>3. \A R : Ordered(list_, R) => Ordered(SubSeq(list_, 1, Len(list_) - 1), R)
    BY ONLY <1>1, <2>2, Cut
  <2> QED BY <1>1, <1>6, <2>3 DEF RemoveOldest, Front
<1>7. ASSUME HNext PROVE Ordered(list_', later')
  <2>1. ASSUME NEW k \in Keys, Miss(k) \/ DeleteAbsent(k), UNCHANGED <<later, copy>>
        PROVE  Ordered(list_', later')
    BY <1>2, <2>1 DEF Miss, DeleteAbsent
  <2> QED BY <1>3, <1>4, <1>5, <1>6, <1>7, <2>1, Zenon DEF HNext
<1> QED BY <1>2, <1>7 DEF hVars, lruVars

\* The list is in the order of the last uses.
THEOREM RecencyHolds == HSpec => []RecencyOrder
<1>1. HInit => RecencyOrder
  BY DEF HInit, LRUInit, RecencyOrder
<1> QED BY <1>1, NextOrdered, CacheUnderHistory, PTL DEF HSpec

\* c is the content of s: the keys of s, each with its value.
Content(s, c) ==
    /\ c = [k \in KeysOf(s) |-> c[k]]
    /\ \A e \in Range(s) : c[e.key] = e.value

\* A copy tells the content of s just when it is what looking up each key shows.
LEMMA ContentIsShown ==
    ASSUME NEW s, Keyed(s), NEW c
    PROVE  c = [k \in KeysOf(s) |-> Found(s, k).value] <=> Content(s, c)
<1>1. \A e \in Range(s) : Found(s, e.key).value = e.value
  BY FoundIs
<1>2. ASSUME c = [k \in KeysOf(s) |-> Found(s, k).value] PROVE Content(s, c)
  <2>1. \A e \in Range(s) : e.key \in KeysOf(s)
    BY DEF KeysOf
  <2> QED BY <1>1, <1>2, <2>1 DEF Content
<1>3. ASSUME Content(s, c) PROVE c = [k \in KeysOf(s) |-> Found(s, k).value]
  <2>1. c = [k \in KeysOf(s) |-> c[k]]
    BY <1>3 DEF Content
  <2>2. \A k \in KeysOf(s) : c[k] = Found(s, k).value
    BY <1>1, <1>3 DEF Content, KeysOf
  <2> QED BY <2>1, <2>2
<1> QED BY <1>2, <1>3

\* Dropping the keys that were reported from a copy of s leaves one of what is
\* left of s.
LEMMA ReportedIsLeft ==
    ASSUME NEW s, NEW a, NEW c, Content(s, c), NEW D,
           KeysOf(a) = KeysOf(s) \ D, Range(a) \subseteq Range(s)
    PROVE  Content(a, Restrict(c, DOMAIN c \ D))
<1>1. DOMAIN c = KeysOf(s) /\ \A e \in Range(s) : c[e.key] = e.value
  BY DEF Content
<1>r. PICK r : r = Restrict(c, DOMAIN c \ D)
  OBVIOUS
<1>2. r = [k \in KeysOf(a) |-> c[k]]
  BY <1>1, <1>r DEF Restrict
<1>3. \A e \in Range(a) : r[e.key] = e.value
  <2>1. \A e \in Range(a) : e.key \in KeysOf(a) /\ e \in Range(s)
    BY DEF KeysOf
  <2> QED BY <1>1, <1>2, <2>1
<1> QED BY <1>2, <1>3, <1>r DEF Content

\* The copy stays the content, step by step.
LEMMA NextCopied ==
    LRUInv /\ LRUInv' /\ CallbacksTellAll /\ [HNext]_hVars => CallbacksTellAll'
<1> SUFFICES ASSUME LRUInv, LRUInv', CallbacksTellAll, [HNext]_hVars, HasEvictedFunc
             PROVE  CallbacksTellAll'
  BY DEF CallbacksTellAll
<1>1. Keyed(list_) /\ cache_ = KeysOf(list_) /\ list_ \in Seq(Entry)
  BY DEF LRUInv, LRUTypeOK, Keyed
<1>2. (Keyed(list_) /\ cache_ = KeysOf(list_))'
  BY DEF LRUInv, LRUTypeOK, Keyed
<1>3. Content(list_, copy)
  <2>1. copy = [k \in KeysOf(list_) |-> Found(list_, k).value]
    BY <1>1 DEF CallbacksTellAll, ValueOf, Node, Found
  <2> QED BY ONLY <1>1, <2>1, ContentIsShown
<1>4. ASSUME Content(list_', copy') PROVE CallbacksTellAll'
  <2>1. Keyed(list_') /\ cache_' = KeysOf(list_')
    BY <1>2 DEF Keyed, KeysOf
  <2>2. copy' = [k \in KeysOf(list_') |-> Found(list_', k).value]
    BY ONLY <1>4, <2>1, ContentIsShown
  <2> QED BY <2>1, <2>2 DEF CallbacksTellAll, ValueOf, Node, Found
<1> SUFFICES Content(list_', copy')
  BY <1>4
<1>5. ASSUME UNCHANGED <<list_, copy>> PROVE Content(list_', copy')
  BY <1>3, <1>5
<1>6. ASSUME NEW k \in Keys, Hit(k), UNCHANGED copy PROVE Content(list_', copy')
  <2>1. k \in cache_ /\ ValueOf(k) \in Values
        /\ [key |-> k, value |-> ValueOf(k)] \in Range(list_)
    BY <1>6, NodeIs, Zenon DEF Hit
  <2>s. PICK s : s = Filled(k, ValueOf(k))
    OBVIOUS
  <2>2. /\ \A e : e \in Range(s) <=> (e \in Range(list_) /\ e.key # k)
                                       \/ e = [key |-> k, value |-> ValueOf(k)]
        /\ KeysOf(s) = cache_ \cup {k}
    BY <2>1, <2>s, FilledIs
  <2>3. KeysOf(s) = KeysOf(list_) /\ \A e \in Range(s) : e \in Range(list_)
    BY <1>1, <2>1, <2>2
  <2>4. Content(s, copy)
    BY <1>3, <2>3 DEF Content
  <2>5. list_' = s
    BY <1>6, <2>s, Zenon DEF Hit, Filled
  <2> QED BY <1>6, <2>4, <2>5, Zenon
<1>7. ASSUME NEW k \in Keys, NEW v \in Values, Set(k, v), Reported(Stored(k, v))
      PROVE  Content(list_', copy')
  <2>s. PICK s : s = Filled(k, v)
    OBVIOUS
  <2>b. PICK b : b = Counted(k, v)
    OBVIOUS
  <2>c. PICK c : c = Stored(k, v)
    OBVIOUS
  <2>1. /\ Keyed(s) /\ s \in Seq(Entry) /\ Len(s) \in Nat
        /\ \A e : e \in Range(s) <=> (e \in Range(list_) /\ e.key # k)
                                       \/ e = [key |-> k, value |-> v]
        /\ KeysOf(s) = cache_ \cup {k}
        /\ Takes(Range(s), b)
    BY <2>s, <2>b, FilledIs DEF Keyed
  <2>2. Content(s, c)
    <3>1. DOMAIN copy = cache_ /\ \A e \in Range(list_) : copy[e.key] = e.value
      BY <1>1, <1>3 DEF Content
    <3>2. c = [x \in {k} \cup cache_ |-> IF x = k THEN v ELSE copy[x]]
      BY <2>c, <3>1 DEF Stored
    <3>3. \A e \in Range(s) : c[e.key] = e.value
      <4> SUFFICES ASSUME NEW e \in Range(s) PROVE c[e.key] = e.value
        OBVIOUS
      <4>1. CASE e \in Range(list_) /\ e.key # k
        <5>1. e.key \in cache_
          BY <1>1, <4>1 DEF KeysOf
        <5> QED BY <3>1, <3>2, <4>1, <5>1
      <4>2. CASE e = [key |-> k, value |-> v]
        BY <3>2, <4>2
      <4> QED BY <2>1, <4>1, <4>2
    <3>4. c = [x \in KeysOf(s) |-> c[x]]
      BY <2>1, <3>2
    <3> QED BY <3>3, <3>4 DEF Content
  <2>n. PICK n : n = Kept(s, b)
    OBVIOUS
  <2>3. n \in 0..Len(s)
    BY <2>1, <2>n, KeptIs
  <2>a. PICK a : a = SubSeq(s, 1, n)
    OBVIOUS
  <2>d. PICK d : d = SubSeq(s, n + 1, Len(s))
    OBVIOUS
  <2>4. /\ Keyed(d) /\ KeysOf(a) = KeysOf(s) \ KeysOf(d)
        /\ \A e \in Range(a) : e \in Range(s)
    <3>1. Keyed(d) /\ KeysOf(a) = KeysOf(s) \ KeysOf(d)
      BY <2>1, <2>3, <2>a, <2>d, CutTakes, Zenon
    <3>2. \A e \in Range(a) : e \in Range(s)
      BY <2>1, <2>3, <2>a, Cut, Zenon
    <3> QED BY <3>1, <3>2
  <2>5. list_' = a /\ evicted' = Callbacks(Reverse(d))
    BY <1>7, <2>s, <2>b, <2>n, <2>a, <2>d, Zenon DEF Set, Filled, Counted
  <2>6. evicted' = Reverse(d) /\ Range(Reverse(d)) = Range(d)
    BY <2>4, <2>5, TurnedIs DEF Callbacks, Keyed
  <2>7. KeysOf(evicted') = KeysOf(d)
    BY <2>6 DEF KeysOf
  <2>8. copy' = Restrict(c, DOMAIN c \ KeysOf(d))
    BY <1>7, <2>7, <2>c, Zenon DEF Reported
  <2>9. Range(a) \subseteq Range(s) /\ KeysOf(a) = KeysOf(s) \ KeysOf(d)
    BY <2>4
  <2>10. Content(a, Restrict(c, DOMAIN c \ KeysOf(d)))
    BY ONLY <2>2, <2>9, ReportedIsLeft
  <2> QED BY <2>5, <2>8, <2>10, Zenon
<1>8. ASSUME NEW l, evicted' = <<l>>, cache_' = cache_ \ {l.key}, Reported(copy),
             Range(list_') \subseteq Range(list_)
      PROVE  Content(list_', copy')
  <2>a. PICK a : a = list_'
    OBVIOUS
  <2>1. Range(<<l>>) = {l}
    BY DEF Range
  <2>2. KeysOf(evicted') = {l.key}
    BY <1>8, <2>1 DEF KeysOf
  <2>3. KeysOf(a) = KeysOf(list_) \ {l.key} /\ Range(a) \subseteq Range(list_)
    BY <1>1, <1>2, <1>8, <2>a DEF KeysOf
  <2>4. copy' = Restrict(copy, DOMAIN copy \ {l.key})
    BY <1>8, <2>2 DEF Reported
  <2>5. Content(a, Restrict(copy, DOMAIN copy \ {l.key}))
    BY ONLY <1>3, <2>3, ReportedIsLeft
  <2> QED BY <2>4, <2>5, <2>a, Zenon
<1>9. ASSUME NEW k \in Keys, Delete(k), Reported(copy) PROVE Content(list_', copy')
  <2>1. Range(list_') \subseteq Range(list_)
    BY <1>9, WithoutIs DEF Delete
  <2>2. evicted' = <<[key |-> k, value |-> ValueOf(k)]>> /\ cache_' = cache_ \ {k}
    BY <1>9 DEF Delete, Callbacks
  <2> QED BY <1>8, <1>9, <2>1, <2>2
<1>10. ASSUME RemoveOldest, Reported(copy) PROVE Content(list_', copy')
  <2>1. list_ # <<>> /\ Len(list_) \in Nat /\ Len(list_) # 0
    BY <1>1, <1>10 DEF RemoveOldest
  <2>2. Len(list_) - 1 \in 0..Len(list_)
    BY <2>1
  <2>3. \A e \in Range(SubSeq(list_, 1, Len(list_) - 1)) : e \in Range(list_)
    BY <1>1, <2>2, Cut, Zenon
  <2>4. Range(list_') \subseteq Range(list_)
    BY <1>10, <2>3 DEF RemoveOldest, Front
  <2>5. evicted' = <<Last(list_)>> /\ cache_' = cache_ \ {Last(list_).key}
    BY <1>10 DEF RemoveOldest, Callbacks
  <2> QED BY <1>8, <1>10, <2>4, <2>5
<1>11. ASSUME HNext PROVE Content(list_', copy')
  <2>1. ASSUME NEW k \in Keys, Miss(k) \/ DeleteAbsent(k), UNCHANGED <<later, copy>>
        PROVE  Content(list_', copy')
    BY <1>5, <2>1 DEF Miss, DeleteAbsent
  <2> QED BY <1>6, <1>7, <1>9, <1>10, <1>11, <2>1, Zenon DEF HNext
<1> QED BY <1>5, <1>11 DEF hVars, lruVars

\* The eviction callbacks report every departure and nothing else.
THEOREM CallbacksHold == HSpec => []CallbacksTellAll
<1>1. HInit => CallbacksTellAll
  BY DEF HInit, LRUInit, CallbacksTellAll
<1> QED BY <1>1, NextCopied, CacheUnderHistory, PTL DEF HSpec
=============================================================================
