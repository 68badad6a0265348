----------------------------- MODULE IdeProofs -----------------------------
(***************************************************************************)
(* Proofs about IdeServer: for every geometry, cluster and block size, for *)
(* files with and without an RDB of ours and for cards, the FIFO has room, *)
(* the task file gets the address of the last sector, the file cursor is   *)
(* coherent, and the whole keeps the promise of AbstractDisk.              *)
(*                                                                         *)
(* A command is in one of five phases: it waits for the server, it reads,  *)
(* it writes, it identifies, or it has ended.  While it reads, the sectors *)
(* that have moved, those in the FIFO and those the server has still to    *)
(* bring are together what was asked for (ReadsOn), and Where says for     *)
(* every loop of the server how its locals follow from the first two.      *)
(*                                                                         *)
(* What the address goes through one step at a time (Advance) is shown by  *)
(* induction over a set of naturals: Induct, from their well-foundedness.  *)
(***************************************************************************)
EXTENDS IdeServer, FiniteSetTheorems, TLAPS

\* A set of naturals that is not empty has a least element.
LEMMA LeastNatural ==
  ASSUME NEW S \in SUBSET Nat, S # {}
  PROVE  \E m \in S : \A k \in S : m <= k
  <1> DEFINE T == {0..m : m \in S}
  <1>1. T \subseteq FiniteSubsetsOf(Nat)
    <2>1. ASSUME NEW m \in S PROVE 0..m \in FiniteSubsetsOf(Nat)
      BY FS_Interval DEF FiniteSubsetsOf
    <2> QED
      BY <2>1
  <1>2. PICK t \in T : \A u \in T : ~ (<<u, t>> \in StrictSubsetOrdering(Nat))
    <2> HIDE DEF T
    <2>1. T # {}
      BY DEF T
    <2> QED
      BY <1>1, <2>1, FS_StrictSubsetOrderingWellFounded, WFMin
  <1>3. PICK m \in S : t = 0..m
    OBVIOUS
  <1>4. ASSUME NEW k \in S, k < m
        PROVE  FALSE
    <2>1. 0..k \in T
      OBVIOUS
    <2>2. 0..k \subseteq 0..m /\ 0..k # 0..m
      BY <1>4
    <2>3. <<0..k, t>> \in StrictSubsetOrdering(Nat)
      BY <1>3, <2>2 DEF StrictSubsetOrdering
    <2> QED
      BY <1>2, <2>1, <2>3
  <1> QED
    BY <1>4

\* What holds of 0 and passes from n to n + 1 holds of every natural number.
LEMMA Induct ==
  ASSUME NEW S \in SUBSET Nat, 0 \in S, \A n \in S : n + 1 \in S
  PROVE  \A n \in Nat : n \in S
  <1> SUFFICES ASSUME Nat \ S # {} PROVE FALSE
    OBVIOUS
  <1>1. PICK m \in Nat \ S : \A k \in Nat \ S : m <= k
    BY LeastNatural
  <1>2. m - 1 \in Nat /\ m - 1 \notin Nat \ S
    BY <1>1
  <1>3. (m - 1) + 1 \in S
    BY <1>2
  <1> QED
    BY <1>3

\* The quotient and the remainder.
LEMMA DivMod ==
  ASSUME NEW a \in Nat, NEW b \in Nat \ {0}
  PROVE  a = (b * (a \div b)) + (a % b) /\ a % b \in 0..(b - 1) /\ a \div b \in Nat
  OBVIOUS

\* ... of which there is one pair only.
LEMMA DivUnique ==
  ASSUME NEW a \in Nat, NEW b \in Nat \ {0}, NEW q \in Nat, NEW r \in 0..(b - 1), a = (b * q) + r
  PROVE  a \div b = q /\ a % b = r
  OBVIOUS

\* A divisor more is a quotient more, and the same remainder.
LEMMA DivNext ==
  ASSUME NEW a \in Nat, NEW b \in Nat \ {0}
  PROVE  (a + b) \div b = (a \div b) + 1 /\ (a + b) % b = a % b
  <1> DEFINE q == a \div b  r == a % b
  <1>1. a = (b * q) + r /\ r \in 0..(b - 1) /\ q \in Nat
    BY DivMod
  <1> HIDE DEF q, r
  <1>2. a + b = (b * (q + 1)) + r
    BY <1>1
  <1>3. q + 1 \in Nat /\ a + b \in Nat
    BY <1>1
  <1>4. (a + b) \div b = q + 1 /\ (a + b) % b = r
    BY <1>1, <1>2, <1>3, DivUnique
  <1> QED
    BY <1>4 DEF q, r

\* A greater number has no smaller quotient.
LEMMA DivMonotonic ==
  ASSUME NEW a \in Nat, NEW c \in Nat, a <= c, NEW b \in Nat \ {0}
  PROVE  a \div b <= c \div b
  OBVIOUS

\* Division by a product.
LEMMA DivTwice ==
  ASSUME NEW l \in Nat, NEW H \in Nat \ {0}, NEW S \in Nat \ {0}
  PROVE  /\ H * S \in Nat \ {0}
         /\ l \div (H * S) = (l \div S) \div H
         /\ ((l \div (H * S)) * H + ((l \div S) % H)) * S + (l % S) = l
  <1> DEFINE q == l \div S  r == l % S  p == q \div H  t == q % H
  <1>1. l = (S * q) + r /\ r \in 0..(S - 1) /\ q \in Nat
    BY DivMod
  <1>2. q = (H * p) + t /\ t \in 0..(H - 1) /\ p \in Nat
    BY <1>1, DivMod
  <1> HIDE DEF q, r, p, t
  <1>3. H * S \in Nat \ {0}
    OBVIOUS
  <1>4. l = ((H * S) * p) + ((t * S) + r)
    <2>1. S * q = S * (H * p) + S * t
      BY <1>2
    <2>2. S * (H * p) = (H * S) * p
      BY <1>2
    <2> QED
      BY <1>1, <1>2, <2>1, <2>2
  <1>5. (t * S) + r \in 0..((H * S) - 1)
    <2>1. (t + 1) * S <= H * S
      BY <1>2
    <2>2. (t + 1) * S = t * S + S /\ t * S \in Nat
      BY <1>2
    <2> QED
      BY <1>1, <2>1, <2>2
  <1>6. l \div (H * S) = p
    BY <1>2, <1>3, <1>4, <1>5, DivUnique
  <1>7. (p * H + t) * S + r = l
    <2>1. p * H = H * p
      BY <1>2
    <2>2. (p * H + t) * S = S * q
      BY <1>1, <1>2, <2>1
    <2> QED
      BY <1>1, <2>2
  <1> QED
    BY <1>3, <1>6, <1>7 DEF q, r, p, t

ChsSet == [c : Nat, h : Nat, s : Nat]

\* chs2lba takes back what the driver put into the task file.
LEMMA ChsBack ==
  ASSUME Heads \in Nat \ {0}, Sectors \in Nat \ {0}, NEW l \in Nat
  PROVE  ChsOf(l) \in ChsSet /\ chs2lba(ChsOf(l)) = l
  <1> DEFINE H == Heads  S == Sectors
  <1> HIDE DEF H, S
  <1> USE DEF ChsSet
  <1>0. H \in Nat \ {0} /\ S \in Nat \ {0}
    BY DEF H, S
  <1>1. /\ H * S \in Nat \ {0}
        /\ ((l \div (H * S)) * H + ((l \div S) % H)) * S + (l % S) = l
    BY <1>0, DivTwice
  <1>2. l \div (H * S) \in Nat /\ l \div S \in Nat /\ l % S \in Nat /\ (l \div S) % H \in Nat
    <2>1. l \div (H * S) \in Nat
      BY <1>1, DivMod
    <2>2. l \div S \in Nat /\ l % S \in Nat
      BY <1>0, DivMod
    <2>3. (l \div S) % H \in Nat
      BY <1>0, <2>2, DivMod
    <2> QED
      BY <2>1, <2>2, <2>3
  <1>3. ChsOf(l) = [c |-> l \div (H * S), h |-> (l \div S) % H, s |-> (l % S) + 1]
    BY DEF ChsOf, H, S
  <1>4. ChsOf(l) \in ChsSet
    BY <1>2, <1>3
  <1>5. chs2lba(ChsOf(l)) = (ChsOf(l).c * H + ChsOf(l).h) * S + ChsOf(l).s - 1
    BY DEF chs2lba, H, S
  <1> DEFINE c == l \div (H * S)  h == (l \div S) % H  s == l % S
  <1>6. ChsOf(l).c = c /\ ChsOf(l).h = h /\ ChsOf(l).s = s + 1
    BY <1>3
  <1>7. (c * H + h) * S + s = l /\ c \in Nat /\ h \in Nat /\ s \in Nat
    BY <1>1, <1>2
  <1> HIDE DEF c, h, s
  <1>8. (c * H + h) * S + (s + 1) - 1 = l
    <2>1. (c * H + h) * S \in Nat
      BY <1>0, <1>7
    <2> QED
      BY <1>7, <2>1
  <1> QED
    BY <1>4, <1>5, <1>6, <1>8

\* Dividing the successor.
LEMMA DivStep ==
  ASSUME NEW a \in Nat, NEW b \in Nat \ {0}
  PROVE  /\ (a % b) + 1 # b => (a + 1) \div b = a \div b /\ (a + 1) % b = (a % b) + 1
         /\ (a % b) + 1 = b => (a + 1) \div b = (a \div b) + 1 /\ (a + 1) % b = 0
  <1> DEFINE q == a \div b  r == a % b
  <1>1. a = (b * q) + r /\ r \in 0..(b - 1) /\ q \in Nat
    BY DivMod
  <1> HIDE DEF q, r
  <1>2. CASE r + 1 # b
    <2>1. a + 1 = (b * q) + (r + 1) /\ r + 1 \in 0..(b - 1) /\ a + 1 \in Nat
      BY <1>1, <1>2
    <2>2. (a + 1) \div b = q /\ (a + 1) % b = r + 1
      BY <1>1, <2>1, DivUnique
    <2> QED
      BY <1>2, <2>2 DEF q, r
  <1>3. CASE r + 1 = b
    <2>1. a + 1 = (b * (q + 1)) + 0 /\ 0 \in 0..(b - 1) /\ a + 1 \in Nat /\ q + 1 \in Nat
      BY <1>1, <1>3
    <2>2. (a + 1) \div b = q + 1 /\ (a + 1) % b = 0
      BY <1>1, <2>1, DivUnique
    <2> QED
      BY <1>3, <2>2 DEF q, r
  <1> QED
    BY <1>2, <1>3 DEF q, r

\* "Advance CHS values" goes from the address of a sector to that of the next.
LEMMA NextChsOf ==
  ASSUME Heads \in Nat \ {0}, Sectors \in Nat \ {0}, NEW l \in Nat
  PROVE  NextChs(ChsOf(l)) = ChsOf(l + 1)
  <1> DEFINE H == Heads  S == Sectors
  <1> HIDE DEF H, S
  <1>0. H \in Nat \ {0} /\ S \in Nat \ {0} /\ l + 1 \in Nat
    BY DEF H, S
  <1> DEFINE Of(x) == [c |-> (x \div S) \div H, h |-> (x \div S) % H, s |-> (x % S) + 1]
  <1>1. ASSUME NEW x \in Nat PROVE ChsOf(x) = Of(x)
    <2>1. x \div (H * S) = (x \div S) \div H
      BY <1>0, DivTwice
    <2> QED
      BY <2>1 DEF ChsOf, H, S
  <1>2. ChsOf(l) = Of(l) /\ ChsOf(l + 1) = Of(l + 1)
    BY <1>0, <1>1
  <1>3. l \div S \in Nat /\ l % S \in 0..(S - 1)
    BY <1>0, DivMod
  <1>4. (l \div S) \div H \in Nat /\ (l \div S) % H \in 0..(H - 1)
    BY <1>0, <1>3, DivMod
  <1> DEFINE a == Of(l)
  <1>5. a.s = (l % S) + 1 /\ a.h = (l \div S) % H /\ a.c = (l \div S) \div H
    OBVIOUS
  <1>6. CASE a.s # S
    <2>1. (l + 1) \div S = l \div S /\ (l + 1) % S = (l % S) + 1
      BY <1>0, <1>5, <1>6, DivStep
    <2>2. NextChs(a) = [a EXCEPT !.s = a.s + 1]
      BY <1>6 DEF NextChs, S
    <2>3. [a EXCEPT !.s = a.s + 1] = [c |-> a.c, h |-> a.h, s |-> a.s + 1]
      OBVIOUS
    <2> QED
      BY <1>2, <1>5, <2>1, <2>2, <2>3
  <1>7. CASE a.s = S /\ a.h + 1 # H
    <2>1. (l + 1) \div S = (l \div S) + 1 /\ (l + 1) % S = 0
      BY <1>0, <1>5, <1>7, DivStep
    <2>2. ((l \div S) + 1) \div H = (l \div S) \div H /\ ((l \div S) + 1) % H = ((l \div S) % H) + 1
      BY <1>0, <1>3, <1>5, <1>7, DivStep
    <2>3. NextChs(a) = [[a EXCEPT !.s = 1] EXCEPT !.h = a.h + 1]
      BY <1>7 DEF NextChs, S, H
    <2> DEFINE b == [a EXCEPT !.s = 1]
    <2>5. b = [c |-> a.c, h |-> a.h, s |-> 1]
      OBVIOUS
    <2> HIDE DEF b
    <2>4. [b EXCEPT !.h = a.h + 1] = [c |-> a.c, h |-> a.h + 1, s |-> 1]
      BY <2>5
    <2> QED
      BY <1>2, <1>5, <2>1, <2>2, <2>3, <2>4 DEF b
  <1>8. CASE a.s = S /\ a.h + 1 = H
    <2>1. (l + 1) \div S = (l \div S) + 1 /\ (l + 1) % S = 0
      BY <1>0, <1>5, <1>8, DivStep
    <2>2. ((l \div S) + 1) \div H = ((l \div S) \div H) + 1 /\ ((l \div S) + 1) % H = 0
      BY <1>0, <1>3, <1>5, <1>8, DivStep
    <2>3. NextChs(a) = [c |-> a.c + 1, h |-> 0, s |-> 1]
      BY <1>8 DEF NextChs, S, H
    <2> QED
      BY <1>2, <1>5, <2>1, <2>2, <2>3
  <1> QED
    BY <1>2, <1>6, <1>7, <1>8

\* The loop of "Advance CHS values", for every length of it.
LEMMA AdvanceIs ==
  ASSUME Heads \in Nat \ {0}, Sectors \in Nat \ {0}, NEW l \in Nat, NEW n \in Nat \ {0}
  PROVE  Advance(ChsOf(l), n) = ChsOf(l + n - 1)
  <1> DEFINE IsLoop(f) == f = [k \in 0..(n - 1) |-> IF k = 0 THEN ChsOf(l) ELSE NextChs(f[k - 1])]
             w == [k \in 0..(n - 1) |-> ChsOf(l + k)]
  <1>1. \A k \in 0..(n - 1) : k # 0 => ChsOf(l + k) = NextChs(ChsOf(l + (k - 1)))
    <2> TAKE k \in 0..(n - 1)
    <2> HAVE k # 0
    <2>1. l + (k - 1) \in Nat /\ (l + (k - 1)) + 1 = l + k
      OBVIOUS
    <2> QED
      BY <2>1, NextChsOf
  <1>2. IsLoop(w)
    <2>1. ASSUME NEW k \in 0..(n - 1)
          PROVE  w[k] = IF k = 0 THEN ChsOf(l) ELSE NextChs(w[k - 1])
      <3>1. CASE k = 0
        BY <3>1
      <3>2. CASE k # 0
        <4>1. k - 1 \in 0..(n - 1)
          BY <3>2
        <4> QED
          BY <1>1, <3>2, <4>1
      <3> QED
        BY <3>1, <3>2
    <2> DEFINE v == [k \in 0..(n - 1) |-> IF k = 0 THEN ChsOf(l) ELSE NextChs(w[k - 1])]
    <2>2. w = v
      BY <2>1
    <2> QED
      BY <2>2
  <1>3. PICK f : IsLoop(f) /\ Advance(ChsOf(l), n) = f[n - 1]
    <2> HIDE DEF w
    <2> QED
      BY <1>2 DEF Advance
  <1>4. \A k \in 0..(n - 1) : f[k] = IF k = 0 THEN ChsOf(l) ELSE NextChs(f[k - 1])
    BY <1>3
  <1> HIDE DEF IsLoop, w
  <1> DEFINE P == {k \in Nat : k \in 0..(n - 1) => f[k] = ChsOf(l + k)}
  <1>5. 0 \in P
    BY <1>4
  <1>6. ASSUME NEW k \in P
        PROVE  k + 1 \in P
    <2>1. CASE k + 1 \in 0..(n - 1)
      <3>1. f[k + 1] = NextChs(f[(k + 1) - 1])
        BY <1>4, <2>1
      <3>2. f[k] = ChsOf(l + k)
        BY <2>1
      <3>3. (k + 1) - 1 = k /\ l + k \in Nat /\ (l + k) + 1 = l + (k + 1)
        OBVIOUS
      <3>4. NextChs(ChsOf(l + k)) = ChsOf((l + k) + 1)
        BY <3>3, NextChsOf
      <3>5. f[k + 1] = ChsOf(l + (k + 1))
        BY <3>1, <3>2, <3>3, <3>4
      <3> QED
        BY <3>5
    <2> QED
      BY <2>1
  <1>7. \A k \in Nat : k \in P
    <2> HIDE DEF P
    <2>1. P \in SUBSET Nat
      BY DEF P
    <2> QED
      BY <1>5, <1>6, <2>1, Induct
  <1>8. f[n - 1] = ChsOf(l + (n - 1))
    BY <1>7
  <1>9. l + (n - 1) = l + n - 1
    OBVIOUS
  <1> QED
    BY <1>3, <1>8, <1>9

\* The least element of a set of naturals is in it.
LEMMA MinIn ==
  ASSUME NEW S \in SUBSET Nat, S # {}
  PROVE  Min(S) \in S
  <1>1. \E m \in S : \A k \in S : m <= k
    BY LeastNatural
  <1> QED
    BY <1>1 DEF Min

\* The smaller of two.
LEMMA MinTwo ==
  ASSUME NEW a \in Nat, NEW b \in Nat
  PROVE  Min({a, b}) = IF a <= b THEN a ELSE b
  BY DEF Min

\* The greater of two.
LEMMA MaxTwo ==
  ASSUME NEW a \in Int, NEW b \in Int
  PROVE  Max({a, b}) = IF a >= b THEN a ELSE b
  BY DEF Max

Shape == [cylinders : Nat, heads : Nat \ {0}, sectors : Nat \ {0}]

\* The cylinders are those of the pair the loops of GetHardfileGeometry stop at.
LEMMA ApproximateFits ==
  ASSUME NEW k \in Kinds, NEW n \in Sizes
  PROVE  LET a == Approximate(k, n) IN
         a \in Shape /\ (GeometryFound => a.cylinders = n \div (a.heads * a.sectors))
  <1> USE GeometryConstants, IdeServerAssumption
  <1> DEFINE heads == HeadRange[1]..HeadRange[2]
             cyl(s, h) == n \div (h * s)
             tracks == {i \in DOMAIN sptt : \E h \in heads : Plausible(k, n, h, cyl(sptt[i], h))}
             s == sptt[Min(tracks)]
             found == {h \in heads : Plausible(k, n, h, cyl(s, h))}
             head == Min(found)
  <1>1. GeometryFound => tracks # {}
    BY DEF GeometryFound, Found
  <1>2. tracks \subseteq Nat
    OBVIOUS
  <1>c. ASSUME NEW h \in Nat \ {0}, NEW t \in Nat \ {0} PROVE cyl(t, h) \in Nat
    <2>1. h * t \in Nat \ {0} /\ n \in Nat
      OBVIOUS
    <2> QED
      BY <2>1, DivMod
  <1>a. CASE tracks = {}
    <2> DEFINE last == sptt[Len(sptt)]  top == HeadRange[2]
    <2>1. last \in Nat \ {0} /\ top \in Nat \ {0}
      OBVIOUS
    <2>2. Approximate(k, n) = [cylinders |-> cyl(last, top), heads |-> top + 1, sectors |-> last]
      <3> HIDE DEF heads
      <3> QED
        BY <1>a DEF Approximate, heads
    <2>3. cyl(last, top) \in Nat
      BY <1>c, <2>1
    <2> HIDE DEF last, top, cyl
    <2> QED
      BY <1>1, <1>a, <2>1, <2>2, <2>3, SMTT(30) DEF Shape
  <1>b. CASE tracks # {}
    <2>3. Min(tracks) \in tracks
      <3> HIDE DEF tracks
      <3> QED
        BY <1>b, <1>2, MinIn
    <2>4. s \in Nat \ {0}
      <3>1. Min(tracks) \in DOMAIN sptt
        BY <2>3
      <3> HIDE DEF tracks
      <3> QED
        BY <3>1
    <2>5. found # {}
      BY <2>3
    <2>6. heads \subseteq Nat \ {0}
      OBVIOUS
    <2>7. head \in heads
      <3>1. found \in SUBSET Nat /\ found \subseteq heads
        BY <2>6
      <3> HIDE DEF found, heads
      <3> QED
        BY <2>5, <3>1, MinIn
    <2>8. Approximate(k, n) = [cylinders |-> cyl(s, head), heads |-> head, sectors |-> s]
      <3> HIDE DEF heads
      <3> QED
        BY <1>b DEF Approximate, heads
    <2>9. head \in Nat \ {0}
      BY <2>6, <2>7
    <2>10. cyl(s, head) \in Nat
      <3> HIDE DEF head, s, cyl
      <3> QED
        BY <1>c, <2>4, <2>9
    <2> HIDE DEF head, s, cyl
    <2> QED
      BY <2>4, <2>8, <2>9, <2>10 DEF Shape, cyl
  <1> QED
    BY <1>a, <1>b

\* A remainder is no greater than the number.
LEMMA ModBound ==
  ASSUME NEW c \in Nat, NEW b \in Nat \ {0}
  PROVE  c % b \in Nat /\ c % b <= c
  <1> DEFINE q == c \div b  r == c % b
  <1>1. c = (b * q) + r /\ r \in 0..(b - 1) /\ q \in Nat
    BY DivMod
  <1> HIDE DEF q, r
  <1>2. b * q \in Nat
    BY <1>1
  <1>3. r \in Nat /\ r <= c
    BY <1>1, <1>2
  <1> QED
    BY <1>3 DEF r

\* So many cylinders as a division gives fit.
LEMMA CylindersFit ==
  ASSUME NEW n \in Nat, NEW h \in Nat \ {0}, NEW s \in Nat \ {0}, NEW c \in Nat, c <= n \div (h * s)
  PROVE  c * h * s <= n
  <1> DEFINE d == h * s
  <1>1. d \in Nat \ {0}
    OBVIOUS
  <1>2. c * h * s = c * d
    OBVIOUS
  <1> HIDE DEF d
  <1> DEFINE q == n \div d  r == n % d
  <1>3. n = (d * q) + r /\ r \in 0..(d - 1) /\ q \in Nat
    BY <1>1, DivMod
  <1>4. c <= q
    BY DEF d
  <1> HIDE DEF q, r
  <1>5. c * d <= q * d
    BY <1>1, <1>3, <1>4
  <1>6. q * d = d * q /\ d * q \in Nat
    BY <1>1, <1>3
  <1>7. d * q <= n
    BY <1>3, <1>6
  <1>8. c * d \in Nat
    BY <1>1
  <1> QED
    BY <1>2, <1>5, <1>6, <1>7, <1>8

\* And one more is a cylinder too many.
LEMMA CylindersAndOne ==
  ASSUME NEW n \in Nat, NEW h \in Nat \ {0}, NEW s \in Nat \ {0}, NEW c \in Nat, c <= (n \div (h * s)) + 1
  PROVE  c * h * s <= n + h * s
  <1>1. h * s \in Nat \ {0}
    OBVIOUS
  <1>2. CASE c = 0
    <2>1. c * h * s = 0
      BY <1>2
    <2> QED
      BY <1>1, <2>1
  <1>3. CASE c # 0
    <2> DEFINE q == n \div (h * s)
    <2>1. q \in Nat /\ c <= q + 1
      BY <1>1, DivMod
    <2> HIDE DEF q
    <2> DEFINE b == c - 1
    <2>2. b \in Nat /\ b <= q /\ c = b + 1
      BY <1>3, <2>1
    <2> HIDE DEF b
    <2> DEFINE bh == b * h
    <2>5. bh \in Nat /\ c * h = bh + h
      BY <2>2
    <2> HIDE DEF bh
    <2>6. (bh + h) * s = bh * s + h * s /\ bh * s \in Nat
      BY <2>5
    <2>3. c * h * s = b * h * s + h * s /\ b * h * s \in Nat
      BY <2>5, <2>6 DEF bh
    <2>4. b * h * s <= n
      BY <2>2, CylindersFit DEF q
    <2> QED
      BY <1>1, <2>3, <2>4
  <1> QED
    BY <1>2, <1>3

\* A drive has no sector beyond its end: cut to 16 bits the cylinders only get fewer.
LEMMA GeometryFits ==
  ASSUME NEW k \in Kinds, NEW n \in Sizes
  PROVE  /\ Geo[k][n] \in Shape
         /\ GeometryFound =>
              Announced(k, n) <= n + (IF k = "synth" THEN Geo[k][n].heads * Geo[k][n].sectors ELSE 0)
  <1> USE GeometryConstants, IdeServerAssumption
  <1> DEFINE a == Approximate(k, n)  all == Limits.all + 1  ge == GetHardfileGeometry(k, n)
  <1>1. Geo[k][n] = ge
    BY DEF Geo
  <1>2. a \in Shape /\ (GeometryFound => a.cylinders = n \div (a.heads * a.sectors))
    BY ApproximateFits
  <1>3. all \in Nat \ {0} /\ n \in Nat
    OBVIOUS
  <1> HIDE DEF a, all
  <1>4. a.cylinders \in Nat /\ a.heads \in Nat \ {0} /\ a.sectors \in Nat \ {0}
    BY <1>2 DEF Shape
  <1>6. CASE k # "synth"
    <2>1. ge = [a EXCEPT !.cylinders = a.cylinders % all]
      BY <1>6 DEF GetHardfileGeometry, a, all
    <2> DEFINE c == a.cylinders % all
    <2>2. c \in Nat /\ c <= a.cylinders
      BY <1>3, <1>4, ModBound
    <2> HIDE DEF c
    <2>3. ge = [a EXCEPT !.cylinders = c]
      BY <2>1 DEF c
    <2> HIDE DEF ge
    <2>4. ge \in Shape /\ ge.cylinders = c /\ ge.heads = a.heads /\ ge.sectors = a.sectors
      BY <1>2, <2>2, <2>3 DEF Shape
    <2>5. GeometryFound => c * a.heads * a.sectors <= n
      BY <1>2, <1>3, <1>4, <2>2, CylindersFit, ZenonT(30)
    <2> QED
      BY <1>1, <1>3, <1>6, <2>4, <2>5 DEF Announced
  <1>8. CASE k = "synth" /\ Exact(n) # {}
    <2> DEFINE h == Min(Exact(n))
    <2>1. Exact(n) \in SUBSET Nat
      BY DEF Exact
    <2>2. h \in Exact(n)
      BY <1>8, <2>1, MinIn
    <2>3. h \in Nat \ {0} /\ SynthSectors \in Nat \ {0}
      BY <2>2 DEF Exact
    <2> HIDE DEF h
    <2>4. h * SynthSectors \in Nat \ {0}
      BY <2>3
    <2> DEFINE q == n \div (h * SynthSectors)  c == q + 1
    <2>6. ge = [cylinders |-> c, heads |-> h, sectors |-> SynthSectors]
      BY <1>8 DEF GetHardfileGeometry, h
    <2>9. q \in Nat
      BY <1>3, <2>4, DivMod
    <2>5. c \in Nat /\ c <= q + 1
      <3> HIDE DEF q
      <3> QED
        BY <2>9
    <2> HIDE DEF c
    <2>10. c <= (n \div (h * SynthSectors)) + 1
      BY <2>5
    <2>7. c * h * SynthSectors <= n + h * SynthSectors
      BY <1>3, <2>3, <2>5, <2>10, CylindersAndOne
    <2> HIDE DEF ge
    <2>8. ge \in Shape
      BY <2>3, <2>5, <2>6 DEF Shape
    <2> QED
      BY <1>1, <1>8, <2>6, <2>7, <2>8 DEF Announced
  <1>9. CASE k = "synth" /\ Exact(n) = {}
    <2>1. ge = [a EXCEPT !.cylinders = (a.cylinders + 1) % all]
      BY <1>9 DEF GetHardfileGeometry, a, all
    <2> DEFINE c == (a.cylinders + 1) % all
    <2>0. a.cylinders + 1 \in Nat
      BY <1>4, SMTT(30)
    <2>2. c \in Nat /\ c <= a.cylinders + 1
      BY <1>3, <2>0, ModBound
    <2> HIDE DEF c
    <2>3. ge = [a EXCEPT !.cylinders = c]
      BY <2>1 DEF c
    <2> HIDE DEF ge
    <2>4. ge \in Shape /\ ge.cylinders = c /\ ge.heads = a.heads /\ ge.sectors = a.sectors
      BY <1>2, <2>2, <2>3 DEF Shape
    <2>5. GeometryFound => c * a.heads * a.sectors <= n + a.heads * a.sectors
      BY <1>2, <1>3, <1>4, <2>2, CylindersAndOne
    <2> QED
      BY <1>1, <1>9, <2>4, <2>5 DEF Announced
  <1> QED
    BY <1>6, <1>8, <1>9

-----------------------------------------------------------------------------
\* The inductive invariant

\* The server is in a loop of this kind, or will be when FileSeek returns.
In == IF pc = "seek" THEN back.found ELSE pc
ReadStates == {"read", "empty", "block", "patch", "readex", "burst", "sent"}
WriteStates == {"write", "full"}
Reading == In \in ReadStates
Storing == In \in WriteStates

Places == {"identify", "card", "file", "synth", "rdb", "wild", "stale"} \X Int
Gayle == [busy : BOOLEAN, pio_in : BOOLEAN, pio_out : BOOLEAN, error : BOOLEAN, mark : BOOLEAN,
          intreq : BOOLEAN, count : 0..(CountRegister - 1), fifo : Seq(Places)]
Commands == DataCommands \cup OtherCommands

\* What FileSeek may return to.
Labels == {[found |-> "loop", failed |-> "loop"], [found |-> "patch", failed |-> "patch"],
           [found |-> "block", failed |-> "block"], [found |-> "readex", failed |-> "readex"],
           [found |-> "readex", failed |-> "sent"], [found |-> "write", failed |-> "write"],
           [found |-> "full", failed |-> "full"]}

DriveOK == /\ type \in Kinds /\ size \in Sizes /\ spb \in {0, MaxMultiple}
           /\ file \in [sector : Nat, cluster : Nat]
           /\ request \in RequestsTo(type, size)
           /\ active \in BOOLEAN /\ moved \in Seq(Places) /\ trusted \in BOOLEAN
ServerOK == /\ pc \in {"loop", "dispatch", "identified", "seek"} \cup ReadStates \cup WriteStates
            /\ lba \in Int /\ sector_count \in 0..CountRegister /\ block_count \in Nat /\ nSize \in Nat
            /\ bc \in Nat /\ goal \in Nat /\ back \in Labels
            /\ pc = "seek" => back.found # "loop"
RegistersOK == /\ g \in Gayle
               /\ tfr \in [cmd : Commands, chs : ChsSet, count : 0..(CountRegister - 1)]
TypeOK == DriveOK /\ ServerOK /\ RegistersOK

\* Gayle's flags, whatever fails: it is open to one side at a time, and to the
\* Amiga only while the server stores.
Flags == /\ g.pio_out => Storing /\ ~g.pio_in
         /\ Storing => g.pio_out /\ g.busy
         /\ g.fifo # <<>> => g.pio_in \/ g.pio_out
         /\ g.pio_in => g.busy \/ g.fifo # <<>>

\* What is in the FIFO, and what the block under way will still bring.
Room == /\ Len(g.fifo) <= FifoSectors /\ block_count <= FifoSectors
        /\ In \in {"empty", "block", "patch", "readex", "burst", "sent", "full"} =>
                block_count <= sector_count
        /\ In \in {"empty", "write"} => sector_count # 0
        /\ In = "patch" => nSize # 0
        /\ In \in {"block", "patch", "readex"} => Len(g.fifo) + nSize <= block_count
        /\ In = "burst" => goal <= bc /\ Len(g.fifo) + nSize + (bc - goal) <= block_count
        /\ Storing => /\ Len(g.fifo) <= 1 /\ Len(g.fifo) <= sector_count
                      /\ \/ g.count = sector_count - Len(g.fifo)
                         \/ g.count = 0 /\ g.fifo = <<>> /\ sector_count = CountRegister
        /\ Reading => lba >= 0

\* The cursor's cluster is the one its sector is in, but for the end of a file
\* that fills its last cluster: there FileSeek stops with the mark of the end.
Coherent(f) ==
    /\ ClusterOf(f.sector) + 1 <= Clusters
    /\ \/ f.cluster = ClusterOf(f.sector) + 1
       \/ f.cluster = EOC /\ ClusterOf(f.sector) + 1 = Clusters /\ size % ClusterSize = 0
Cursor == /\ Coherent(file)
          /\ pc = "seek" => ClusterOf(file.sector) <= ClusterOf(goal) /\ goal <= size
          /\ pc = "burst" /\ type # "card" => file.sector + bc <= size
          /\ pc = "sent" => nSize = 0

\* The sectors the server has still to bring for the command it is reading.
Rest == IF In \in {"read", "empty"} THEN sector_count
        ELSE IF In \in {"block", "patch", "readex"} THEN sector_count - block_count + nSize
        ELSE IF In = "burst" THEN sector_count - block_count + nSize + (bc - goal)
        ELSE IF In = "sent" THEN sector_count - block_count
        ELSE 0

\* A command that the server has not come to yet.
Fresh == /\ active /\ moved = <<>> /\ g.fifo = <<>>
         /\ g.busy /\ ~g.pio_in /\ ~g.pio_out /\ ~g.error /\ ~g.intreq
         /\ tfr.cmd = request.cmd /\ tfr.chs = ChsOf(request.lba)
         /\ g.count = tfr.count
         /\ request.cmd \in DataCommands => tfr.count = request.count % CountRegister
         /\ request.cmd = "multiple" => tfr.count = MaxMultiple
         /\ request.cmd = "identify" => tfr.count = 0
         /\ Multiple(request) => spb # 0

LastSector == request.lba + request.count - 1

\* So many sectors from the cursor on lie in its cluster.
Within(f, n) == (f.sector % ClusterSize) + n <= ClusterSize

\* Where the server is in what it reads, when done sectors are in the FIFO or
\* have left it.
Where(done) ==
    /\ In \in {"read", "empty", "block", "sent"} => lba = request.lba + done
    /\ In = "burst" /\ type = "card" => lba + goal = request.lba + done /\ nSize = 0
    /\ In = "burst" /\ type # "card" =>
            /\ lba = request.lba + done + nSize + (bc - goal)
            /\ file.sector + goal = request.lba + done + Offset
            /\ Within(file, bc)
    /\ In = "readex" =>
            /\ type # "card"
            /\ lba = request.lba + done + nSize
            /\ pc = "seek" => goal = request.lba + done + Offset
            /\ pc # "seek" /\ nSize # 0 => file.sector = request.lba + done + Offset
    /\ In = "patch" => /\ type = "file" /\ lba = 0 /\ request.lba + done = 0
                       /\ pc = "seek" => goal = 0
                       /\ pc # "seek" => file.sector = 0

ReadsOn ==
    /\ Reading \/ pc = "loop"
    /\ request.cmd \in {"read", "readm"} /\ tfr.cmd = request.cmd
    /\ Multiple(request) => spb # 0
    /\ Len(moved) + Len(g.fifo) + Rest = request.count
    /\ g.count = (request.count - Len(moved)) % CountRegister
    /\ (active <=> Len(moved) < request.count) /\ (g.busy <=> active)
    /\ ~g.pio_out /\ ~g.error
    /\ active => g.pio_in \/ (In = "read" /\ Len(moved) + Len(g.fifo) = 0)
    /\ tfr.chs = ChsOf(LastSector)
    /\ Where(Len(moved) + Len(g.fifo))

WritesOn ==
    /\ Storing
    /\ Writing(request) /\ tfr.cmd = request.cmd
    /\ Multiple(request) => spb # 0
    /\ active /\ ~g.error
    /\ sector_count = request.count - Len(moved)
    /\ lba = request.lba + Offset + Len(moved)
    /\ type # "card" /\ sector_count # 0 =>
            /\ pc = "seek" => goal = Max({lba, 0})
            /\ pc # "seek" => file.sector = Max({lba, 0})
    /\ tfr.chs = ChsOf(LastSector)

Identifies ==
    /\ request.cmd = "identify"
    /\ Len(moved) + Len(g.fifo) = 1 /\ (active <=> g.fifo # <<>>) /\ (active => g.count = 0)
    /\ ~g.pio_out /\ ~g.error
    /\ \/ pc = "identified" /\ g.busy /\ g.pio_in
       \/ pc = "loop" /\ ~g.busy /\ (g.pio_in <=> g.fifo # <<>>)

Ended == /\ pc = "loop" /\ ~g.busy /\ ~g.pio_in /\ ~g.pio_out /\ g.fifo = <<>>
         /\ request.cmd \notin {"identify", "read", "readm"}
         /\ Len(moved) = request.count
         /\ Writing(request) => tfr.chs = ChsOf(LastSector)
         /\ g.error => request.count = 0

Waits == Fresh /\ (pc \in {"loop", "dispatch"} \/ (Reading /\ Rest = 0))
Phase == Waits \/ ReadsOn \/ WritesOn \/ Identifies \/ Ended

IInv == /\ TypeOK /\ Flags /\ Room
        /\ pc \in {"dispatch", "identified"} => trusted
        /\ trusted => Cursor /\ Phase

\* And what the FIFO holds is what comes next.
InFifo == \A i \in 1..Len(g.fifo) : g.fifo[i] = PlaceOf(request, request.lba + Len(moved) + i - 1)
Content == trusted => InFifo

\* What may follow a change of Gayle's registers: an interrupt, and the end of PIO in.
LEMMA SettleIs ==
  ASSUME NEW old, NEW r \in Gayle
  PROVE  LET s == Settle(old, r) IN
         /\ s \in Gayle
         /\ s.busy = r.busy /\ s.pio_out = r.pio_out /\ s.error = r.error
         /\ s.count = r.count /\ s.fifo = r.fifo
         /\ s.pio_in <=> r.pio_in /\ (r.busy \/ Drq(r))
  <1> DEFINE edge == r.pio_in /\ r.mark /\ ~Drq(old) /\ Drq(r)
             m == [r EXCEPT !.intreq = TRUE]
             e == [m EXCEPT !.mark = FALSE]
             s == IF edge THEN e ELSE r
             t == [s EXCEPT !.pio_in = FALSE]
  <1> HIDE DEF edge, m, e, s, t
  <1>1. m \in Gayle /\ m.busy = r.busy /\ m.pio_out = r.pio_out /\ m.error = r.error
        /\ m.count = r.count /\ m.fifo = r.fifo /\ m.pio_in = r.pio_in
    BY DEF Gayle, m
  <1>2. e \in Gayle /\ e.busy = r.busy /\ e.pio_out = r.pio_out /\ e.error = r.error
        /\ e.count = r.count /\ e.fifo = r.fifo /\ e.pio_in = r.pio_in
    BY <1>1 DEF Gayle, e
  <1>3. s \in Gayle /\ s.busy = r.busy /\ s.pio_out = r.pio_out /\ s.error = r.error
        /\ s.count = r.count /\ s.fifo = r.fifo /\ s.pio_in = r.pio_in
    BY <1>2 DEF s
  <1>4. t \in Gayle /\ t.busy = r.busy /\ t.pio_out = r.pio_out /\ t.error = r.error
        /\ t.count = r.count /\ t.fifo = r.fifo /\ t.pio_in = FALSE
    BY <1>3 DEF Gayle, t
  <1>5. Drq(s) <=> Drq(r)
    BY <1>3 DEF Drq
  <1>6. Settle(old, r) = IF ~s.busy /\ ~Drq(s) THEN t ELSE s
    BY DEF Settle, s, t, edge, e, m
  <1> QED
    BY <1>3, <1>4, <1>5, <1>6

\* What WriteStatus does to the registers the invariant speaks of.
LEMMA StatusIs ==
  ASSUME NEW r \in Gayle, NEW bits
  PROVE  LET s == Status(r, bits) IN
         /\ s \in Gayle
         /\ s.busy <=> r.busy /\ "END" \notin bits
         /\ s.pio_out <=> (r.pio_out \/ (r.busy /\ "REQ" \in bits)) /\ ~(r.busy /\ "END" \in bits)
         /\ s.error <=> r.error \/ (r.busy /\ "ERR" \in bits)
         /\ s.count = r.count /\ s.fifo = r.fifo
         /\ s.pio_in <=> (r.pio_in \/ (r.busy /\ "RDY" \in bits))
                         /\ (s.busy \/ r.fifo # <<>> \/ (s.pio_out /\ r.count # 0))
  <1> DEFINE t == [
        busy |-> r.busy /\ "END" \notin bits,
        pio_in |-> r.pio_in \/ (r.busy /\ "RDY" \in bits),
        pio_out |-> /\ r.pio_out \/ (r.busy /\ "REQ" \in bits)
                    /\ ~(r.busy /\ "END" \in bits),
        error |-> r.error \/ (r.busy /\ "ERR" \in bits),
        mark |-> r.mark \/ (r.busy /\ "RDY" \in bits) \/ (r.pio_in /\ "IRQ" \in bits),
        intreq |-> \/ r.intreq
                   \/ ~r.pio_in /\ r.pio_out /\ "IRQ" \in bits
                   \/ ~r.pio_in /\ ~r.pio_out /\ "END" \in bits,
        count |-> r.count, fifo |-> r.fifo]
  <1>1. t \in Gayle
    BY DEF Gayle
  <1>2. Status(r, bits) = Settle(r, t)
    BY DEF Status
  <1>3. /\ t.busy <=> r.busy /\ "END" \notin bits
        /\ t.pio_out <=> (r.pio_out \/ (r.busy /\ "REQ" \in bits)) /\ ~(r.busy /\ "END" \in bits)
        /\ t.error <=> r.error \/ (r.busy /\ "ERR" \in bits)
        /\ t.count = r.count /\ t.fifo = r.fifo
        /\ t.pio_in <=> r.pio_in \/ (r.busy /\ "RDY" \in bits)
    OBVIOUS
  <1> HIDE DEF t
  <1>4. Drq(t) <=> \/ t.pio_in /\ r.fifo # <<>>
                   \/ t.pio_out /\ r.fifo = <<>> /\ r.count # 0
    BY <1>3 DEF Drq
  <1> DEFINE s == Settle(r, t)
  <1>5. /\ s \in Gayle
        /\ s.busy = t.busy /\ s.pio_out = t.pio_out /\ s.error = t.error
        /\ s.count = t.count /\ s.fifo = t.fifo
        /\ s.pio_in <=> t.pio_in /\ (t.busy \/ Drq(t))
    BY <1>1, SettleIs
  <1> HIDE DEF s
  <1>6. t.busy \in BOOLEAN /\ t.pio_in \in BOOLEAN /\ t.pio_out \in BOOLEAN /\ t.error \in BOOLEAN
    BY <1>1 DEF Gayle
  <1>7. s.busy \in BOOLEAN /\ s.pio_in \in BOOLEAN /\ s.pio_out \in BOOLEAN /\ s.error \in BOOLEAN
    BY <1>5 DEF Gayle
  <1>8. s = Status(r, bits)
    BY <1>2 DEF s
  <1> QED
    BY <1>3, <1>4, <1>5, <1>6, <1>7, <1>8

\* What a sector for the FIFO does to them.
LEMMA PushIs ==
  ASSUME NEW r \in Gayle, NEW s \in Places
  PROVE  LET p == Push(r, s) IN
         /\ p \in Gayle
         /\ p.busy = r.busy /\ p.pio_out = r.pio_out /\ p.error = r.error /\ p.pio_in = r.pio_in
         /\ p.count = r.count /\ p.fifo = IF r.pio_in THEN Append(r.fifo, s) ELSE r.fifo
  <1> DEFINE t == [r EXCEPT !.fifo = Append(r.fifo, s)]
  <1>1. /\ t \in Gayle /\ t.busy = r.busy /\ t.pio_out = r.pio_out /\ t.error = r.error
        /\ t.count = r.count /\ t.fifo = Append(r.fifo, s) /\ t.pio_in = r.pio_in
    <2> DEFINE q == Append(r.fifo, s)
    <2>1. q \in Seq(Places)
      BY DEF Gayle
    <2> HIDE DEF q
    <2>2. [r EXCEPT !.fifo = q] \in Gayle
      BY <2>1 DEF Gayle
    <2> QED
      BY <2>2 DEF q, Gayle
  <1>2. Append(r.fifo, s) # <<>>
    BY DEF Gayle
  <1>3. CASE r.pio_in
    <2>1. Push(r, s) = Settle(r, t)
      BY <1>3 DEF Push
    <2> HIDE DEF t
    <2>2. Drq(t)
      BY <1>1, <1>2, <1>3 DEF Drq
    <2> DEFINE z == Settle(r, t)
    <2>3. /\ z \in Gayle
          /\ z.busy = t.busy /\ z.pio_out = t.pio_out /\ z.error = t.error
          /\ z.count = t.count /\ z.fifo = t.fifo
          /\ z.pio_in <=> t.pio_in /\ (t.busy \/ Drq(t))
      BY <1>1, SettleIs
    <2> HIDE DEF z
    <2>4. z.pio_in \in BOOLEAN /\ r.pio_in \in BOOLEAN
      BY <2>3 DEF Gayle
    <2>5. z = Push(r, s)
      BY <2>1 DEF z
    <2> QED
      BY <1>1, <1>3, <2>2, <2>3, <2>4, <2>5
  <1>4. CASE ~r.pio_in
    BY <1>4 DEF Push
  <1> QED
    BY <1>3, <1>4

\* What the Amiga's reading of a sector does to them.
LEMMA PopIs ==
  ASSUME NEW r \in Gayle, r.fifo # <<>>
  PROVE  LET p == Pop(r) IN
         /\ p \in Gayle
         /\ p.busy <=> r.busy /\ r.count # 1
         /\ p.pio_out = r.pio_out /\ p.error = r.error
         /\ p.count = (r.count - 1) % CountRegister /\ p.fifo = Tail(r.fifo)
         /\ p.pio_in <=> r.pio_in /\ (p.busy \/ p.fifo # <<>> \/ (r.pio_out /\ p.count # 0))
  <1> USE IdeServerAssumption
  <1> DEFINE q == Tail(r.fifo)  n == (r.count - 1) % CountRegister  b == r.busy /\ r.count # 1
             t == [r EXCEPT !.fifo = q]  u == [t EXCEPT !.count = n]  v == [u EXCEPT !.busy = b]
  <1>1. q \in Seq(Places) /\ n \in 0..(CountRegister - 1) /\ b \in BOOLEAN
    BY DEF Gayle
  <1>2. Pop(r) = Settle(r, v)
    BY DEF Pop
  <1>3. b <=> r.busy /\ r.count # 1
    OBVIOUS
  <1> HIDE DEF q, n, b, t, u, v
  <1>4. /\ t \in Gayle /\ t.busy = r.busy /\ t.pio_out = r.pio_out /\ t.error = r.error
        /\ t.count = r.count /\ t.fifo = q /\ t.pio_in = r.pio_in
    BY <1>1 DEF Gayle, t
  <1>5. /\ u \in Gayle /\ u.busy = r.busy /\ u.pio_out = r.pio_out /\ u.error = r.error
        /\ u.count = n /\ u.fifo = q /\ u.pio_in = r.pio_in
    BY <1>1, <1>4 DEF Gayle, u
  <1>6. /\ v \in Gayle /\ v.busy = b /\ v.pio_out = r.pio_out /\ v.error = r.error
        /\ v.count = n /\ v.fifo = q /\ v.pio_in = r.pio_in
    BY <1>1, <1>5 DEF Gayle, v
  <1> DEFINE z == Settle(r, v)
  <1>7. /\ z \in Gayle
        /\ z.busy = v.busy /\ z.pio_out = v.pio_out /\ z.error = v.error
        /\ z.count = v.count /\ z.fifo = v.fifo
        /\ z.pio_in <=> v.pio_in /\ (v.busy \/ Drq(v))
    BY <1>6, SettleIs
  <1>8. Drq(v) <=> (r.pio_in /\ q # <<>>) \/ (r.pio_out /\ q = <<>> /\ n # 0)
    BY <1>6 DEF Drq
  <1> HIDE DEF z
  <1>9. z.pio_in \in BOOLEAN /\ r.pio_in \in BOOLEAN /\ z.busy \in BOOLEAN /\ r.pio_out \in BOOLEAN
    BY <1>7 DEF Gayle
  <1>10. z = Pop(r)
    BY <1>2 DEF z
  <1> QED
    BY <1>1, <1>3, <1>6, <1>7, <1>8, <1>9, <1>10 DEF q, n

-----------------------------------------------------------------------------
\* What the addresses come to

\* The drive's geometry, and the sectors the RDB of ours takes.
LEMMA ShapeFacts ==
  ASSUME type \in Kinds, size \in Sizes
  PROVE  /\ Heads \in Nat \ {0} /\ Sectors \in Nat \ {0} /\ Heads * Sectors \in Nat
         /\ Offset \in Int /\ Offset <= 0 /\ (type # "synth" => Offset = 0)
         /\ type = "synth" => Offset = 0 - Geo[type][size].heads * Geo[type][size].sectors
         /\ Announced(type, size) \in Nat
         /\ GeometryFound => Announced(type, size) + Offset <= size
         /\ size \in Nat \ {0}
  <1> DEFINE geo == Geo[type][size]  rdb == geo.heads * geo.sectors
  <1>1. geo \in Shape
        /\ (GeometryFound => Announced(type, size) <= size + (IF type = "synth" THEN rdb ELSE 0))
    BY GeometryFits
  <1>2. geo.cylinders \in Nat /\ geo.heads \in Nat \ {0} /\ geo.sectors \in Nat \ {0}
    BY <1>1 DEF Shape
  <1>3. rdb \in Nat
    BY <1>2
  <1>4. Announced(type, size) = geo.cylinders * geo.heads * geo.sectors
    BY DEF Announced
  <1>5. Announced(type, size) \in Nat
    BY <1>2, <1>4
  <1>6. Offset = IF type = "synth" THEN 0 - rdb ELSE 0
    BY DEF Offset, Heads, Sectors
  <1>7. Heads = geo.heads /\ Sectors = geo.sectors
    BY DEF Heads, Sectors
  <1>8. size \in Nat \ {0}
    BY IdeServerAssumption
  <1> HIDE DEF geo
  <1>9. rdb = geo.heads * geo.sectors
    OBVIOUS
  <1>10. Heads * Sectors \in Nat
    BY <1>3, <1>7
  <1> HIDE DEF rdb
  <1>11. GeometryFound => Announced(type, size) + Offset <= size
    BY <1>1, <1>3, <1>5, <1>6, <1>8
  <1>12. type = "synth" => Offset = 0 - Geo[type][size].heads * Geo[type][size].sectors
    BY <1>6 DEF rdb, geo
  <1> QED
    BY <1>2, <1>3, <1>5, <1>6, <1>7, <1>8, <1>10, <1>11, <1>12

\* What the driver asks for lies on the drive.
LEMMA RequestFacts ==
  ASSUME type \in Kinds, size \in Sizes, NEW r \in RequestsTo(type, size)
  PROVE  /\ r.lba \in Nat /\ r.count \in 0..CountRegister /\ r.cmd \in Commands
         /\ r.kind = type /\ r.size = size
         /\ r.cmd \in DataCommands => r.count # 0 /\ (GeometryFound => r.lba + r.count + Offset <= size)
         /\ r.cmd = "identify" => r.lba = 0 /\ r.count = 1
         /\ r.cmd \in OtherCommands \ {"identify"} => r.count = 0
         /\ r.cmd = "multiple" => r.lba = MaxMultiple
  <1> USE IdeServerAssumption
  <1> DEFINE a == Announced(type, size)
  <1>1. a \in Nat /\ Offset \in Int /\ (GeometryFound => a + Offset <= size) /\ size \in Nat
    BY ShapeFacts
  <1> HIDE DEF a
  <1>2. CASE r \in [cmd : DataCommands, kind : {type}, size : {size}, lba : 0..a, count : 1..CountRegister]
             /\ r.lba + r.count <= a
    <2>1. /\ r.lba \in Nat /\ r.count \in 1..CountRegister /\ r.cmd \in DataCommands
          /\ r.kind = type /\ r.size = size
      BY <1>1, <1>2
    <2>2. GeometryFound => r.lba + r.count + Offset <= size
      BY <1>1, <1>2, <2>1
    <2> QED
      BY <2>1, <2>2 DEF Commands, DataCommands, OtherCommands
  <1>3. CASE r \in [cmd : {"identify"}, kind : {type}, size : {size}, lba : {0}, count : {1}]
    BY <1>3 DEF Commands, DataCommands, OtherCommands
  <1>4. CASE r \in [cmd : {"multiple"}, kind : {type}, size : {size}, lba : {MaxMultiple}, count : {0}]
    BY <1>4 DEF Commands, DataCommands, OtherCommands
  <1>5. CASE r \in [cmd : {"nodata", "unknown", "disabled"}, kind : {type}, size : {size}, lba : {0}, count : {0}]
    BY <1>5 DEF Commands, DataCommands, OtherCommands
  <1> QED
    BY <1>2, <1>3, <1>4, <1>5 DEF RequestsTo, a

\* Every sector of the drive has a place.
LEMMA PlaceIn ==
  ASSUME type \in Kinds, size \in Sizes, NEW r \in RequestsTo(type, size), NEW l \in Int
  PROVE  PlaceOf(r, l) \in Places
  <1>1. r.kind = type /\ type \in {"file", "synth", "card"}
    BY RequestFacts, IdeServerAssumption
  <1> DEFINE rdb == Geo[r.kind][r.size].heads * Geo[r.kind][r.size].sectors
  <1>2. rdb \in Int
    <2>1. r.size = size /\ Geo[type][size].heads * Geo[type][size].sectors \in Nat
      BY RequestFacts, ShapeFacts DEF Heads, Sectors
    <2> QED
      BY <1>1, <2>1
  <1> HIDE DEF rdb
  <1>3. PlaceOf(r, l) = IF r.cmd = "identify" THEN <<"identify", 0>>
                        ELSE IF r.kind # "synth" THEN <<r.kind, l>>
                        ELSE IF l < rdb THEN <<"rdb", l>> ELSE <<"file", l - rdb>>
    BY DEF PlaceOf, rdb
  <1> QED
    BY <1>1, <1>2, <1>3 DEF Places

-----------------------------------------------------------------------------
\* Clusters

\* Sectors and clusters.
LEMMA ClusterFacts ==
  ASSUME NEW x \in Nat
  PROVE  /\ ClusterOf(x) \in Nat /\ ClusterOf(x + ClusterSize) = ClusterOf(x) + 1
         /\ x % ClusterSize \in 0..(ClusterSize - 1)
         /\ x = ClusterSize * ClusterOf(x) + (x % ClusterSize)
  <1>1. ClusterSize \in Nat \ {0}
    BY IdeServerAssumption
  <1> QED
    BY <1>1, DivMod, DivNext DEF ClusterOf

\* A later sector is in no earlier cluster.
LEMMA ClusterMonotonic ==
  ASSUME NEW x \in Nat, NEW y \in Nat, x <= y
  PROVE  ClusterOf(x) <= ClusterOf(y)
  BY IdeServerAssumption, DivMonotonic DEF ClusterOf

\* The clusters of a file hold its sectors.
LEMMA ClustersOf ==
  ASSUME size \in Sizes, NEW x \in Nat
  PROVE  /\ Clusters \in Nat
         /\ x < size => ClusterOf(x) + 1 <= Clusters
         /\ x <= size => ClusterOf(x) + 1 <= Clusters \/ (x = size /\ size % ClusterSize = 0)
  <1> DEFINE C == ClusterSize
  <1>1. C \in Nat \ {0} /\ size \in Nat \ {0}
    BY IdeServerAssumption
  <1>2. size + C - 1 \in Nat
    BY <1>1
  <1>3. Clusters = (size + C - 1) \div C
    BY DEF Clusters
  <1> HIDE DEF C
  <1>4. Clusters \in Nat
    BY <1>1, <1>2, <1>3, DivMod
  <1>5. ASSUME x < size PROVE ClusterOf(x) + 1 <= Clusters
    <2>1. x + C \in Nat /\ x + C <= size + C - 1
      BY <1>1, <1>5
    <2>2. (x + C) \div C <= Clusters
      BY <1>1, <1>2, <1>3, <2>1, DivMonotonic
    <2>3. (x + C) \div C = ClusterOf(x) + 1
      BY <1>1, DivNext DEF ClusterOf, C
    <2> QED
      BY <2>2, <2>3
  <1>6. ASSUME size % C # 0 PROVE ClusterOf(size) + 1 <= Clusters
    <2> DEFINE q == size \div C  r == size % C
    <2>1. size = (C * q) + r /\ r \in 0..(C - 1) /\ q \in Nat
      BY <1>1, DivMod
    <2>2. r # 0
      BY <1>6
    <2>3. ClusterOf(size) = q
      BY DEF ClusterOf, C
    <2> HIDE DEF q, r
    <2>4. size + C - 1 = (C * (q + 1)) + (r - 1)
      <3>1. C * (q + 1) = (C * q) + C /\ C * q \in Nat
        BY <1>1, <2>1
      <3> QED
        BY <1>1, <2>1, <3>1
    <2>5. q + 1 \in Nat /\ r - 1 \in 0..(C - 1)
      BY <1>1, <2>1, <2>2
    <2>6. Clusters = q + 1
      BY <1>1, <1>2, <1>3, <2>4, <2>5, DivUnique
    <2> QED
      BY <2>1, <2>3, <2>6
  <1>7. x <= size => x < size \/ x = size
    BY <1>1
  <1> QED
    BY <1>4, <1>5, <1>6, <1>7 DEF C

\* Where FileSeek starts from: a cursor that agrees with itself, and not behind
\* the goal.
LEMMA SeekStart ==
  ASSUME size \in Sizes, NEW f \in [sector : Nat, cluster : Nat], Coherent(f),
         NEW offset \in Nat, offset < size \/ f.sector <= offset
  PROVE  LET r == Rewind(f, offset) IN
         /\ r \in [sector : Nat, cluster : Nat] /\ Coherent(r)
         /\ ClusterOf(r.sector) <= ClusterOf(offset)
  <1> DEFINE r == Rewind(f, offset)
  <1>1. CASE f.sector <= offset
    <2>1. r = f
      BY <1>1 DEF Rewind
    <2>2. ClusterOf(f.sector) <= ClusterOf(offset)
      BY <1>1, ClusterMonotonic
    <2> QED
      BY <2>1, <2>2
  <1>2. CASE ~(f.sector <= offset) /\ ClusterOf(f.sector) # ClusterOf(offset)
    <2>1. r = [sector |-> 0, cluster |-> 1]
      BY <1>2 DEF Rewind
    <2>2. ClusterOf(0) <= ClusterOf(offset)
      BY ClusterMonotonic
    <2>3. ClusterOf(0) = 0
      <3>1. ClusterSize \in Nat \ {0} /\ 0 = (ClusterSize * 0) + 0 /\ 0 \in 0..(ClusterSize - 1)
        BY IdeServerAssumption
      <3> QED
        BY <3>1, DivUnique DEF ClusterOf
    <2>4. 0 < size /\ size \in Nat
      BY IdeServerAssumption
    <2>5. ClusterOf(0) + 1 <= Clusters
      BY <2>4, ClustersOf
    <2> QED
      BY <2>1, <2>2, <2>3, <2>5 DEF Coherent
  <1>3. CASE ~(f.sector <= offset) /\ ClusterOf(f.sector) = ClusterOf(offset)
    <2>1. r = [f EXCEPT !.sector = offset]
      BY <1>3 DEF Rewind
    <2>2. r \in [sector : Nat, cluster : Nat] /\ r.sector = offset /\ r.cluster = f.cluster
      BY <2>1
    <2>3. ClusterOf(offset) \in Nat
      BY ClusterFacts
    <2> QED
      BY <1>3, <2>2, <2>3 DEF Coherent
  <1> QED
    BY <1>1, <1>2, <1>3

\* HardFileSeek's index gives the cluster that begins a stretch of the file.
LEMMA JumpStart ==
  ASSUME size \in Sizes, NEW f \in [sector : Nat, cluster : Nat],
         NEW offset \in Nat
  PROVE  LET j == Jump(f, offset) IN
         /\ j \in [sector : Nat, cluster : Nat]
         /\ Coherent(f) /\ offset < size => Coherent(j)
  <1> DEFINE j == Jump(f, offset)  i == offset \div IndexStep  s == i * IndexStep
  <1>1. IndexStep \in Nat \ {0} /\ ClusterSize \in Nat \ {0} /\ size \in Nat \ {0}
    BY IdeServerAssumption
  <1>2. i \in Nat /\ s \in Nat /\ s <= offset
    <2> DEFINE r == offset % IndexStep
    <2>1. offset = (IndexStep * i) + r /\ r \in 0..(IndexStep - 1) /\ i \in Nat
      BY <1>1, DivMod
    <2> HIDE DEF i, r
    <2>2. IndexStep * i = i * IndexStep /\ i * IndexStep \in Nat
      BY <1>1, <2>1
    <2> QED
      BY <2>1, <2>2
  <1>3. index(i) = ClusterOf(s) + 1
    BY DEF index, ClusterOf
  <1>4. ClusterOf(s) \in Nat
    <2> HIDE DEF s
    <2> QED
      BY <1>2, ClusterFacts
  <1>5. CASE j = [sector |-> s, cluster |-> index(i)]
    <2>1. offset < size => ClusterOf(s) + 1 <= Clusters
      <3> HIDE DEF s
      <3> QED
        BY <1>1, <1>2, ClustersOf
    <2> HIDE DEF s, i, j
    <2>2. j.sector = s /\ j.cluster = ClusterOf(s) + 1
      BY <1>3, <1>5
    <2> QED
      BY <1>2, <1>3, <1>4, <1>5, <2>1, <2>2 DEF Coherent, j
  <1>6. CASE j = f
    BY <1>6
  <1> QED
    BY <1>5, <1>6 DEF Jump

\* Going back leaves a cursor.
LEMMA CursorIn ==
  ASSUME NEW f \in [sector : Nat, cluster : Nat], NEW offset \in Nat
  PROVE  Rewind(f, offset) \in [sector : Nat, cluster : Nat]
  <1>1. \/ Rewind(f, offset) = f
        \/ Rewind(f, offset) = [sector |-> 0, cluster |-> 1]
        \/ Rewind(f, offset) = [f EXCEPT !.sector = offset]
    BY DEF Rewind
  <1> QED
    BY <1>1

\* Operators of the drive's type and size alone.
LEMMA Same ==
  ASSUME type' = type, size' = size
  PROVE  Heads' = Heads /\ Sectors' = Sectors /\ Offset' = Offset /\ Clusters' = Clusters /\ EOC' = EOC
  BY DEF Heads, Sectors, Offset, Clusters, EOC

\* The last sector's address belongs to the request.
LEMMA SameLast ==
  ASSUME type' = type, size' = size, request' = request
  PROVE  ChsOf(LastSector)' = ChsOf(LastSector) /\ LastSector' = LastSector
  BY DEF Heads, Sectors, ChsOf, LastSector

\* Where the card is read is a place.
LEMMA AtIn ==
  ASSUME NEW f \in [sector : Nat, cluster : Nat], NEW k \in Nat
  PROVE  At(f, k) \in Places
  <1> DEFINE m == f.sector % ClusterSize
  <1>1. m \in Int /\ ClusterSize \in Int
    BY IdeServerAssumption, ClusterFacts
  <1>2. At(f, k) = IF f.cluster = EOC \/ m + k >= ClusterSize
                   THEN <<"wild", f.sector + k>>
                   ELSE <<"file", (f.cluster - 1) * ClusterSize + m + k>>
    BY DEF At
  <1> HIDE DEF m
  <1> QED
    BY <1>1, <1>2 DEF Places

\* The phases, by where the server is.
LEMMA PhaseAt ==
  ASSUME IInv, trusted
  PROVE  /\ pc = "dispatch" => Waits
         /\ pc = "identified" => Identifies
         /\ Reading => (Waits /\ Rest = 0) \/ ReadsOn
         /\ Storing => WritesOn
  BY DEF IInv, Phase, Waits, ReadsOn, WritesOn, Identifies, Ended, Reading, Storing, In,
         ReadStates, WriteStates, TypeOK, ServerOK, Labels

\* The kinds of numbers the steps are about.
LEMMA Numbers ==
  ASSUME TypeOK
  PROVE  /\ lba \in Int /\ sector_count \in Nat /\ block_count \in Nat /\ nSize \in Nat
         /\ bc \in Nat /\ goal \in Nat
         /\ file \in [sector : Nat, cluster : Nat] /\ file.sector \in Nat
         /\ size \in Nat /\ size > 0 /\ Offset \in Int /\ Offset <= 0
         /\ request.lba \in Nat /\ request.count \in Nat /\ Len(moved) \in Nat
         /\ Len(g.fifo) \in Nat /\ (g.fifo = <<>> <=> Len(g.fifo) = 0)
         /\ FifoSectors \in Nat /\ FifoSectors > 0 /\ CountRegister \in Nat /\ CountRegister > 1
         /\ ClusterSize \in Nat /\ ClusterSize > 0
         /\ sector_count <= CountRegister
  <1>1. size \in Nat /\ size > 0 /\ Offset \in Int /\ Offset <= 0
    BY ShapeFacts DEF TypeOK, DriveOK
  <1>2. request.lba \in Nat /\ request.count \in Nat
    BY RequestFacts, IdeServerAssumption DEF TypeOK, DriveOK
  <1>3. Len(g.fifo) \in Nat /\ (g.fifo = <<>> <=> Len(g.fifo) = 0)
    BY DEF TypeOK, RegistersOK, Gayle
  <1>4. file \in [sector : Nat, cluster : Nat] /\ file.sector \in Nat /\ Len(moved) \in Nat
    BY DEF TypeOK, DriveOK
  <1>5. /\ lba \in Int /\ sector_count \in 0..CountRegister /\ block_count \in Nat /\ nSize \in Nat
        /\ bc \in Nat /\ goal \in Nat
    BY DEF TypeOK, ServerOK
  <1>6. /\ FifoSectors \in Nat /\ FifoSectors > 0 /\ CountRegister \in Nat /\ CountRegister > 1
        /\ ClusterSize \in Nat /\ ClusterSize > 0
    BY IdeServerAssumption
  <1> QED
    BY <1>1, <1>2, <1>3, <1>4, <1>5, <1>6

\* What is still to come, and that it is not negative.
LEMMA RestIs ==
  ASSUME TypeOK, Room
  PROVE  /\ Rest \in Nat
         /\ In \in {"read", "empty"} => Rest = sector_count
         /\ In \in {"block", "patch", "readex"} =>
                block_count <= sector_count /\ Rest = sector_count - block_count + nSize
         /\ In = "burst" => /\ block_count <= sector_count /\ goal <= bc
                            /\ Rest = sector_count - block_count + nSize + (bc - goal)
         /\ In = "sent" => block_count <= sector_count /\ Rest = sector_count - block_count
  <1>1. /\ sector_count \in Nat /\ block_count \in Nat /\ nSize \in Nat /\ bc \in Nat /\ goal \in Nat
    BY Numbers
  <1>2. In \in {"block", "patch", "readex", "burst", "sent"} => block_count <= sector_count
    BY DEF Room
  <1>3. In = "burst" => goal <= bc
    BY DEF Room
  <1> QED
    BY <1>1, <1>2, <1>3 DEF Rest

\* What FileSeek does before its loop.
LEMMA FileSeekIs ==
  ASSUME TypeOK, NEW f \in [sector : Nat, cluster : Nat], NEW offset \in Nat,
         NEW label \in Labels, FileSeek(f, offset, label)
  PROVE  /\ file' \in [sector : Nat, cluster : Nat] /\ goal' = offset /\ pc' = "seek"
         /\ back' = label /\ In' = label.found
         /\ (size' = size /\ Coherent(f) /\ (offset < size \/ f.sector <= offset) /\ offset <= size)
                => Cursor'
  <1>1. file' = Rewind(f, offset) /\ goal' = offset /\ pc' = "seek" /\ back' = label
    BY DEF FileSeek
  <1>2. file' \in [sector : Nat, cluster : Nat]
    BY <1>1, CursorIn
  <1>3. In' = label.found
    BY <1>1 DEF In
  <1>4. ASSUME size' = size, Coherent(f), offset < size \/ f.sector <= offset, offset <= size
        PROVE  Cursor'
    <2>1. size \in Sizes
      BY DEF TypeOK, DriveOK
    <2>2. Coherent(file') /\ ClusterOf(file'.sector) <= ClusterOf(goal')
      BY <1>1, <1>4, <2>1, SeekStart
    <2>3. Clusters' = Clusters /\ EOC' = EOC
      BY <1>4 DEF Clusters, EOC
    <2> QED
      BY <1>1, <1>4, <2>2, <2>3 DEF Cursor, Coherent
  <1> QED
    BY <1>1, <1>2, <1>3, <1>4

\* What HardFileSeek does before FileSeek's loop.
LEMMA HardFileSeekIs ==
  ASSUME TypeOK, NEW offset \in Nat, NEW label \in Labels, HardFileSeek(offset, label)
  PROVE  /\ file' \in [sector : Nat, cluster : Nat] /\ goal' = offset /\ pc' = "seek"
         /\ back' = label /\ In' = label.found
         /\ size' = size /\ Coherent(file) /\ offset < size => Cursor'
  <1> DEFINE j == Jump(file, offset)
  <1>1. size \in Sizes /\ file \in [sector : Nat, cluster : Nat] /\ size \in Nat
    BY Numbers DEF TypeOK, DriveOK
  <1>2. j \in [sector : Nat, cluster : Nat] /\ (Coherent(file) /\ offset < size => Coherent(j))
    BY <1>1, JumpStart
  <1>3. FileSeek(j, offset, label)
    BY DEF HardFileSeek
  <1> HIDE DEF j
  <1> QED
    BY <1>1, <1>2, <1>3, FileSeekIs

\* Steps that leave the registers alone.
Quiet == UNCHANGED <<type, size, spb, g, tfr, request, active, moved>>

\* Gayle's flags keep while nobody writes them and the server keeps its side.
LEMMA FlagsKept ==
  ASSUME Flags, g' = g, Storing' <=> Storing
  PROVE  Flags'
  BY DEF Flags

\* A command waits until HandleFpga comes to the hard disk.
LEMMA WaitsKept ==
  ASSUME Waits, Quiet, pc' \in {"loop", "dispatch"} \/ (Reading' /\ Rest' = 0)
  PROVE  Phase'
  <1>1. type' = type /\ size' = size /\ spb' = spb /\ g' = g /\ tfr' = tfr /\ request' = request
        /\ active' = active /\ moved' = moved
    BY DEF Quiet
  <1>2. ChsOf(request.lba)' = ChsOf(request.lba)
    BY <1>1, Same DEF ChsOf
  <1>3. Fresh'
    BY <1>1, <1>2 DEF Waits, Fresh, Multiple
  <1> QED
    BY <1>3 DEF Waits, Phase

\* A step of a command that reads, the registers left alone.
LEMMA ReadingKept ==
  ASSUME IInv, trusted, Reading, In # "read" \/ Rest = 0, Quiet,
         Reading' \/ (pc' = "loop" /\ Rest = 0), Rest' = Rest,
         \A d \in Nat : Where(d) /\ d + Rest = request.count => Where(d)'
  PROVE  Phase'
  <1>1. type' = type /\ size' = size /\ spb' = spb /\ g' = g /\ tfr' = tfr /\ request' = request
        /\ active' = active /\ moved' = moved
    BY DEF Quiet
  <1>2. (Waits /\ Rest = 0) \/ ReadsOn
    BY PhaseAt
  <1>3. CASE Waits /\ Rest = 0
    BY <1>3, WaitsKept
  <1>4. CASE ReadsOn
    <2> DEFINE d == Len(moved) + Len(g.fifo)
    <2>1. d \in Nat /\ Rest \in Nat /\ Len(moved) \in Nat /\ request.count \in Nat /\ Len(g.fifo) \in Nat
      BY Numbers, RestIs DEF IInv
    <2>2. Where(d) /\ d + Rest = request.count
      BY <1>4 DEF ReadsOn
    <2>3. Where(d)'
      <3> HIDE DEF d
      <3>1. \A e \in Nat : Where(e) /\ e + Rest = request.count => Where(e)'
        OBVIOUS
      <3>2. d' = d
        BY <1>1 DEF d
      <3>3. PICK e \in Nat : e = d
        BY <2>1
      <3>4. Where(e)'
        BY <2>2, <3>1, <3>3
      <3> QED
        BY <3>2, <3>3, <3>4
    <2>4. LastSector' = LastSector /\ ChsOf(LastSector)' = ChsOf(LastSector)
      BY <1>1, SameLast
    <2>5. active => g.pio_in
      <3>1. CASE Rest = 0
        <4>1. d = request.count
          BY <2>1, <2>2, <3>1
        <4>2. request.count # 0
          BY <1>4, RequestFacts DEF IInv, TypeOK, DriveOK, ReadsOn, DataCommands
        <4> QED
          BY <1>4, <4>1, <4>2 DEF ReadsOn
      <3>2. CASE In # "read"
        BY <1>4, <3>2 DEF ReadsOn
      <3> QED
        BY <3>1, <3>2
    <2>6. d' + Rest' = request.count
      BY <1>1, <2>2
    <2>7. ReadsOn'
      BY <1>1, <1>4, <2>3, <2>4, <2>5, <2>6 DEF ReadsOn, Multiple
    <2> QED
      BY <2>7 DEF Phase
  <1> QED
    BY <1>2, <1>3, <1>4

\* The types of what a quiet step leaves alone.
LEMMA QuietKept ==
  ASSUME TypeOK, Quiet, file' \in [sector : Nat, cluster : Nat], trusted' \in BOOLEAN
  PROVE  DriveOK' /\ RegistersOK'
  BY DEF TypeOK, DriveOK, RegistersOK, Quiet

\* A sector that the server gives to the FIFO.
LEMMA Pushed ==
  ASSUME IInv, Reading, Reading', NEW p \in Places, g' = Push(g, p)
  PROVE  /\ g' \in Gayle /\ Flags'
         /\ g'.busy = g.busy /\ g'.pio_out = g.pio_out /\ g'.error = g.error /\ g'.pio_in = g.pio_in
         /\ g'.count = g.count
         /\ g.pio_in => g'.fifo = Append(g.fifo, p) /\ Len(g'.fifo) = Len(g.fifo) + 1
         /\ Len(g'.fifo) \in Nat /\ Len(g'.fifo) <= Len(g.fifo) + 1
  <1>1. /\ g' \in Gayle
        /\ g'.busy = g.busy /\ g'.pio_out = g.pio_out /\ g'.error = g.error /\ g'.pio_in = g.pio_in
        /\ g'.count = g.count /\ g'.fifo = IF g.pio_in THEN Append(g.fifo, p) ELSE g.fifo
    BY PushIs DEF IInv, TypeOK, RegistersOK
  <1>2. g.fifo \in Seq(Places)
    BY DEF IInv, TypeOK, RegistersOK, Gayle
  <1>3. Len(g.fifo) \in Nat /\ Append(g.fifo, p) # <<>> /\ Len(Append(g.fifo, p)) = Len(g.fifo) + 1
    BY <1>2
  <1>4. ~Storing /\ ~Storing'
    BY DEF Reading, Storing, ReadStates, WriteStates
  <1>5. Flags'
    BY <1>1, <1>3, <1>4 DEF Flags, IInv
  <1> QED
    BY <1>1, <1>3, <1>5

\* A sector into the FIFO is one less to come.
LEMMA ReadingPush ==
  ASSUME IInv, trusted, Reading, Reading', In # "read", NEW p \in Places, g' = Push(g, p),
         UNCHANGED <<type, size, spb, tfr, request, active, moved>>,
         Rest > 0, Rest' = Rest - 1,
         \A d \in Nat : Where(d) /\ d + Rest = request.count => Where(d + 1)'
  PROVE  Phase' /\ ReadsOn /\ g.pio_in
  <1>1. type' = type /\ size' = size /\ spb' = spb /\ tfr' = tfr /\ request' = request
        /\ active' = active /\ moved' = moved
    OBVIOUS
  <1>2. Rest \in Nat
    BY RestIs DEF IInv
  <1>3. ReadsOn
    BY <1>2, PhaseAt
  <1> DEFINE d == Len(moved) + Len(g.fifo)
  <1>4. d \in Nat /\ Len(moved) \in Nat /\ request.count \in Nat /\ Len(g.fifo) \in Nat
    BY Numbers DEF IInv
  <1>5. Where(d) /\ d + Rest = request.count
    BY <1>3 DEF ReadsOn
  <1>6. active
    BY <1>2, <1>3, <1>4, <1>5 DEF ReadsOn
  <1>7. g.pio_in
    BY <1>3, <1>6 DEF ReadsOn
  <1>8. /\ g'.busy = g.busy /\ g'.pio_out = g.pio_out /\ g'.error = g.error /\ g'.pio_in = g.pio_in
        /\ g'.count = g.count /\ Len(g'.fifo) = Len(g.fifo) + 1
    BY <1>7, Pushed
  <1>9. Where(d)'
    <2>1. d' = d + 1
      BY <1>1, <1>4, <1>8
    <2> HIDE DEF d
    <2>2. PICK e \in Nat : e = d
      BY <1>4
    <2>3. Where(e + 1)'
      BY <1>5, <2>2
    <2>4. d' = e + 1
      BY <2>1, <2>2
    <2> QED
      BY <2>3, <2>4
  <1>10. LastSector' = LastSector /\ ChsOf(LastSector)' = ChsOf(LastSector)
    BY <1>1, SameLast
  <1>11. d' + Rest' = request.count
    BY <1>1, <1>2, <1>4, <1>5, <1>8
  <1>12. ReadsOn'
    BY <1>1, <1>3, <1>7, <1>8, <1>9, <1>10, <1>11 DEF ReadsOn, Multiple
  <1> QED
    BY <1>3, <1>7, <1>12 DEF Phase

-----------------------------------------------------------------------------
\* The server's steps, one by one

\* HandleFpga finds a command: Gayle is busy and has nothing for the Amiga.
LEMMA PollKeeps ==
  ASSUME IInv, Poll
  PROVE  IInv'
  <1> USE DEF IInv, TypeOK
  <1>1. /\ pc = "loop" /\ Bsy(g) /\ trusted /\ pc' = "dispatch"
        /\ UNCHANGED <<type, size, spb, file, lba, sector_count, block_count, nSize, bc, goal, back,
                       g, tfr, host, request, active, moved, trusted>>
    BY DEF Poll, fw_locals, disk_vars
  <1>2. In = "loop" /\ In' = "dispatch"
    BY <1>1 DEF In
  <1>3. ~Reading /\ ~Storing /\ ~Reading' /\ ~Storing'
    BY <1>2 DEF Reading, Storing, ReadStates, WriteStates
  <1>4. Quiet /\ file' = file /\ trusted'
    BY <1>1 DEF Quiet
  <1>5. DriveOK' /\ RegistersOK'
    BY <1>1, <1>4, QuietKept, Numbers
  <1>6. ServerOK'
    BY <1>1 DEF ServerOK
  <1>7. Flags'
    BY <1>1, <1>3, FlagsKept
  <1>8. Room'
    BY <1>1, <1>2, <1>3 DEF Room
  <1>9. Cursor'
    BY <1>1, Same DEF Cursor, Coherent
  <1>10. Phase'
    <2>1. g.busy /\ ~(g.pio_in /\ g.fifo # <<>>)
      BY <1>1 DEF Bsy, Drq
    <2>2. ~ReadsOn
      <3> SUFFICES ASSUME ReadsOn PROVE FALSE
        OBVIOUS
      <3>1. active /\ g.pio_in /\ g.fifo = <<>> /\ Len(moved) < request.count
        BY <1>2, <2>1 DEF ReadsOn
      <3>2. Rest = 0
        BY <1>2 DEF Rest
      <3>3. Len(moved) + Len(g.fifo) + Rest = request.count
        BY DEF ReadsOn
      <3> QED
        BY <3>1, <3>2, <3>3, Numbers, SMTT(30)
    <2>3. Waits
      BY <1>1, <1>3, <2>1, <2>2 DEF Phase, WritesOn, Identifies, Ended
    <2> QED
      BY <1>1, <1>4, <2>3, WaitsKept
  <1> QED
    BY <1>1, <1>5, <1>6, <1>7, <1>8, <1>9, <1>10

\* A command without data ends with its status.
LEMMA NoDataKeeps ==
  ASSUME IInv, NoData
  PROVE  IInv'
  <1> USE DEF IInv, TypeOK
  <1> DEFINE bits == {"END", "IRQ"} \cup (IF tfr.cmd \in {"unknown", "disabled"} THEN {"ERR"} ELSE {})
  <1>1. /\ pc = "dispatch" /\ tfr.cmd \in {"multiple", "nodata", "unknown", "disabled"}
        /\ g' = Status(g, bits) /\ pc' = "loop"
        /\ spb' = IF tfr.cmd = "multiple" THEN tfr.count ELSE spb
        /\ UNCHANGED <<type, size, file, lba, sector_count, block_count, nSize, bc, goal, back,
                       tfr, host, request, active, moved, trusted>>
    BY DEF NoData, WriteStatus, fw_locals, disk_vars
  <1>2. In = "dispatch" /\ In' = "loop"
    BY <1>1 DEF In
  <1>3. ~Reading /\ ~Storing /\ ~Reading' /\ ~Storing'
    BY <1>2 DEF Reading, Storing, ReadStates, WriteStates
  <1>4. trusted /\ Fresh
    BY <1>1, PhaseAt DEF Waits
  <1>5. "END" \in bits /\ "RDY" \notin bits /\ "REQ" \notin bits
    OBVIOUS
  <1> HIDE DEF bits
  <1>6. g' \in Gayle /\ ~g'.busy /\ ~g'.pio_out /\ ~g'.pio_in /\ g'.count = g.count /\ g'.fifo = <<>>
    BY <1>1, <1>4, <1>5, StatusIs DEF Fresh, RegistersOK
  <1>7. request.cmd = tfr.cmd /\ (tfr.cmd = "multiple" => tfr.count = MaxMultiple)
    BY <1>4 DEF Fresh
  <1>8. DriveOK'
    BY <1>1, <1>7 DEF DriveOK
  <1>9. ServerOK' /\ RegistersOK'
    BY <1>1, <1>6 DEF ServerOK, RegistersOK
  <1>10. Flags'
    BY <1>3, <1>6 DEF Flags
  <1>11. Room'
    BY <1>1, <1>2, <1>3, <1>6, Numbers DEF Room
  <1>12. Cursor'
    BY <1>1, <1>4, Same DEF Cursor, Coherent
  <1>13. Phase'
    <2>1. request.cmd \in OtherCommands \ {"identify"}
      BY <1>1, <1>7 DEF OtherCommands
    <2>2. request.count = 0 /\ request.cmd \notin DataCommands
      BY <2>1, RequestFacts DEF DriveOK, DataCommands, OtherCommands
    <2>3. Len(moved) = 0
      BY <1>4 DEF Fresh
    <2>4. Ended'
      BY <1>1, <1>6, <1>7, <2>2, <2>3 DEF Ended, Writing, DataCommands
    <2> QED
      BY <2>4 DEF Phase
  <1> QED
    BY <1>1, <1>4, <1>8, <1>9, <1>10, <1>11, <1>12, <1>13

\* IDENTIFY's sector goes into the FIFO.
LEMMA IdentifyDeviceKeeps ==
  ASSUME IInv, IdentifyDevice
  PROVE  IInv'
  <1> USE DEF IInv, TypeOK
  <1> DEFINE r == Status(g, {"RDY"})  p == <<"identify", 0>>
  <1>1. /\ pc = "dispatch" /\ tfr.cmd = "identify" /\ g' = Push(r, p) /\ pc' = "identified"
        /\ UNCHANGED <<type, size, spb, file, lba, sector_count, block_count, nSize, bc, goal, back,
                       tfr, host, request, active, moved, trusted>>
    BY DEF IdentifyDevice, fw_locals, disk_vars
  <1>2. In = "dispatch" /\ In' = "identified"
    BY <1>1 DEF In
  <1>3. ~Reading /\ ~Storing /\ ~Reading' /\ ~Storing'
    BY <1>2 DEF Reading, Storing, ReadStates, WriteStates
  <1>4. trusted /\ Fresh
    BY <1>1, PhaseAt DEF Waits
  <1>5. p \in Places
    BY DEF Places
  <1>6. r \in Gayle /\ r.busy /\ ~r.pio_out /\ r.pio_in /\ ~r.error /\ r.count = g.count /\ r.fifo = <<>>
    BY <1>4, StatusIs DEF Fresh, RegistersOK
  <1> HIDE DEF r, p
  <1>7. g' \in Gayle /\ g'.busy /\ ~g'.pio_out /\ g'.pio_in /\ ~g'.error /\ g'.count = g.count
        /\ g'.fifo = Append(<<>>, p)
    <2>1. /\ g' \in Gayle
          /\ g'.busy = r.busy /\ g'.pio_out = r.pio_out /\ g'.error = r.error /\ g'.pio_in = r.pio_in
          /\ g'.count = r.count /\ g'.fifo = IF r.pio_in THEN Append(r.fifo, p) ELSE r.fifo
      <3>1. /\ Push(r, p) \in Gayle
            /\ Push(r, p).busy = r.busy /\ Push(r, p).pio_out = r.pio_out
            /\ Push(r, p).error = r.error /\ Push(r, p).pio_in = r.pio_in /\ Push(r, p).count = r.count
            /\ Push(r, p).fifo = IF r.pio_in THEN Append(r.fifo, p) ELSE r.fifo
        BY <1>5, <1>6, PushIs, ZenonT(30)
      <3>2. g' = Push(r, p)
        BY <1>1
      <3> QED
        BY <3>1, <3>2
    <2>2. g'.fifo = Append(<<>>, p)
      BY <1>6, <2>1
    <2> QED
      BY <1>6, <2>1, <2>2
  <1>8. g'.fifo # <<>> /\ Len(g'.fifo) = 1
    BY <1>5, <1>7
  <1>9. DriveOK'
    BY <1>1 DEF DriveOK
  <1>10. ServerOK' /\ RegistersOK'
    BY <1>1, <1>7 DEF ServerOK, RegistersOK
  <1>11. Flags'
    BY <1>3, <1>7 DEF Flags
  <1>12. Room'
    BY <1>1, <1>2, <1>3, <1>8, Numbers DEF Room
  <1>13. Cursor'
    BY <1>1, <1>4, Same DEF Cursor, Coherent
  <1>14. Phase'
    <2>1. Len(moved) = 0 /\ request.cmd = "identify" /\ active /\ g.count = 0
      BY <1>1, <1>4 DEF Fresh
    <2>2. Identifies'
      BY <1>1, <1>7, <1>8, <2>1 DEF Identifies
    <2> QED
      BY <2>2 DEF Phase
  <1> QED
    BY <1>1, <1>4, <1>9, <1>10, <1>11, <1>12, <1>13, <1>14

\* ... and the command ends, with the sector there or gone.
LEMMA IdentifyEndsKeeps ==
  ASSUME IInv, IdentifyEnds
  PROVE  IInv'
  <1> USE DEF IInv, TypeOK
  <1>1. /\ pc = "identified" /\ g' = Status(g, {"END", "IRQ"}) /\ pc' = "loop"
        /\ UNCHANGED <<type, size, spb, file, lba, sector_count, block_count, nSize, bc, goal, back,
                       tfr, host, request, active, moved, trusted>>
    BY DEF IdentifyEnds, WriteStatus, fw_locals, disk_vars
  <1>2. In = "identified" /\ In' = "loop"
    BY <1>1 DEF In
  <1>3. ~Reading /\ ~Storing /\ ~Reading' /\ ~Storing'
    BY <1>2 DEF Reading, Storing, ReadStates, WriteStates
  <1>4. trusted /\ Identifies
    BY <1>1, PhaseAt
  <1>5. g.busy /\ g.pio_in /\ ~g.pio_out /\ ~g.error
    BY <1>1, <1>4 DEF Identifies
  <1>6. g' \in Gayle /\ ~g'.busy /\ ~g'.pio_out /\ ~g'.error /\ g'.count = g.count /\ g'.fifo = g.fifo
        /\ (g'.pio_in <=> g.fifo # <<>>)
    BY <1>1, <1>5, StatusIs DEF RegistersOK
  <1>7. DriveOK'
    BY <1>1 DEF DriveOK
  <1>8. ServerOK' /\ RegistersOK'
    BY <1>1, <1>6 DEF ServerOK, RegistersOK
  <1>9. Flags'
    BY <1>3, <1>6 DEF Flags
  <1>10. Room'
    BY <1>1, <1>2, <1>3, <1>6 DEF Room
  <1>11. Cursor'
    BY <1>1, <1>4, Same DEF Cursor, Coherent
  <1>12. Phase'
    <2>1. Identifies'
      BY <1>1, <1>4, <1>6 DEF Identifies
    <2> QED
      BY <2>1 DEF Phase
  <1> QED
    BY <1>1, <1>4, <1>7, <1>8, <1>9, <1>10, <1>11, <1>12

\* What stays of Reading and Storing on FileSeek's way back.
LEMMA Labelled ==
  ASSUME TypeOK, pc = "seek"
  PROVE  /\ In = back.found
         /\ back.found \in {"patch", "block", "readex", "write", "full"}
         /\ back.failed = back.found \/ (back.found = "readex" /\ back.failed = "sent")
         /\ Reading <=> back.found \in {"patch", "block", "readex"}
         /\ Storing <=> back.found \in {"write", "full"}
  <1>1. back \in Labels /\ back.found # "loop" /\ In = back.found
    BY DEF TypeOK, ServerOK, In
  <1>2. /\ back.found \in {"patch", "block", "readex", "write", "full"}
        /\ back.failed = back.found \/ (back.found = "readex" /\ back.failed = "sent")
    BY <1>1 DEF Labels
  <1> QED
    BY <1>1, <1>2 DEF Reading, Storing, ReadStates, WriteStates

\* The way back out of the loop, found or failed.
LEMMA BackKeeps ==
  ASSUME IInv, pc = "seek", pc' \in {back.found, back.failed},
         UNCHANGED <<lba, sector_count, block_count, nSize, bc, goal, back, g>>
  PROVE  /\ In' = pc' /\ ServerOK' /\ Flags' /\ Room'
         /\ (Reading' <=> Reading) /\ (Storing' <=> Storing)
         /\ pc' \notin {"dispatch", "identified", "seek", "burst"}
         /\ In' = In \/ (In = "readex" /\ In' = "sent")
  <1> USE DEF IInv
  <1>0. /\ lba' = lba /\ sector_count' = sector_count /\ block_count' = block_count /\ nSize' = nSize
        /\ bc' = bc /\ goal' = goal /\ back' = back /\ g' = g
    OBVIOUS
  <1>1. /\ In = back.found
        /\ back.found \in {"patch", "block", "readex", "write", "full"}
        /\ back.failed = back.found \/ (back.found = "readex" /\ back.failed = "sent")
        /\ Reading <=> back.found \in {"patch", "block", "readex"}
        /\ Storing <=> back.found \in {"write", "full"}
    BY Labelled
  <1>2. pc' = back.found \/ (back.found = "readex" /\ pc' = "sent")
    BY <1>1
  <1>3. In' = pc'
    BY <1>1, <1>2 DEF In
  <1>4. (Reading' <=> Reading) /\ (Storing' <=> Storing)
    BY <1>1, <1>2, <1>3 DEF Reading, Storing, ReadStates, WriteStates
  <1>5. ServerOK'
    BY <1>0, <1>1, <1>2 DEF TypeOK, ServerOK, ReadStates, WriteStates
  <1>6. Flags'
    BY <1>0, <1>4, FlagsKept
  <1>7. Room'
    BY <1>0, <1>1, <1>2, <1>3, <1>4 DEF Room
  <1> QED
    BY <1>1, <1>2, <1>3, <1>4, <1>5, <1>6, <1>7

\* The card fails in FileSeek: nothing is promised any more, the flags hold.
LEMMA SeekFailsKeeps ==
  ASSUME IInv, SeekFails
  PROVE  IInv'
  <1> USE DEF IInv
  <1>1. /\ pc = "seek" /\ trusted' = FALSE /\ pc' = back.failed
        /\ UNCHANGED <<type, size, spb, file, lba, sector_count, block_count, nSize, bc, goal, back,
                       g, tfr, request, active, moved>>
    BY DEF SeekFails, fw_locals
  <1>2. ServerOK' /\ Flags' /\ Room' /\ pc' \notin {"dispatch", "identified"}
    BY <1>1, BackKeeps
  <1>3. Quiet /\ file' = file
    BY <1>1 DEF Quiet
  <1>4. DriveOK' /\ RegistersOK'
    BY <1>1, <1>3, QuietKept, Numbers
  <1> QED
    BY <1>1, <1>2, <1>4 DEF TypeOK

\* A command that writes goes on as it was.
LEMMA WritingKept ==
  ASSUME IInv, trusted, Storing, Storing', Quiet,
         lba' = lba, sector_count' = sector_count,
         (type # "card" /\ sector_count # 0 =>
            /\ pc = "seek" => goal = Max({lba, 0})
            /\ pc # "seek" => file.sector = Max({lba, 0}))
         => (type # "card" /\ sector_count # 0 =>
            /\ pc' = "seek" => goal' = Max({lba, 0})
            /\ pc' # "seek" => file'.sector = Max({lba, 0}))
  PROVE  Phase'
  <1>1. type' = type /\ size' = size /\ spb' = spb /\ g' = g /\ tfr' = tfr /\ request' = request
        /\ active' = active /\ moved' = moved
    BY DEF Quiet
  <1>2. WritesOn
    BY PhaseAt
  <1>3. LastSector' = LastSector /\ ChsOf(LastSector)' = ChsOf(LastSector) /\ Offset' = Offset
    BY <1>1, SameLast, Same
  <1>4. /\ type' # "card" /\ sector_count' # 0 =>
            /\ pc' = "seek" => goal' = Max({lba', 0})
            /\ pc' # "seek" => file'.sector = Max({lba', 0})
    BY <1>1, <1>2 DEF WritesOn
  <1>5. WritesOn'
    BY <1>1, <1>2, <1>3, <1>4 DEF WritesOn, Writing, Multiple
  <1> QED
    BY <1>5 DEF Phase

\* How far the sectors reach that a command has still to move.
LEMMA WithinFile ==
  ASSUME IInv, trusted, GeometryFound
  PROVE  /\ \A d \in Nat : ReadsOn /\ d + Rest = request.count =>
                request.lba + d + Offset + Rest <= size
         /\ WritesOn => lba + sector_count <= size
  <1> USE DEF IInv
  <1>1. /\ request.lba \in Nat /\ request.count \in Nat /\ Offset \in Int /\ Rest \in Nat /\ size \in Nat
        /\ lba \in Int /\ sector_count \in Nat /\ Len(moved) \in Nat
    BY Numbers, RestIs
  <1>2. request.cmd \in DataCommands => request.lba + request.count + Offset <= size
    BY RequestFacts DEF TypeOK, DriveOK
  <1>3. ASSUME NEW d \in Nat, ReadsOn, d + Rest = request.count
        PROVE  request.lba + d + Offset + Rest <= size
    <2>1. request.lba + request.count + Offset <= size
      BY <1>2, <1>3 DEF ReadsOn, DataCommands
    <2> QED
      BY <1>1, <1>3, <2>1
  <1>4. ASSUME WritesOn PROVE lba + sector_count <= size
    <2>3. request.cmd \in DataCommands
      <3>1. Writing(request)
        BY <1>4 DEF WritesOn
      <3> QED
        BY <3>1 DEF Writing, DataCommands
    <2>1. request.lba + request.count + Offset <= size
      BY <1>2, <2>3
    <2>2. sector_count = request.count - Len(moved) /\ lba = request.lba + Offset + Len(moved)
      BY <1>4 DEF WritesOn
    <2> QED
      BY <1>1, <2>1, <2>2, SMTT(30)
  <1> QED
    BY <1>3, <1>4

\* FileSeek stops before its goal only at the end of the file, where nothing is
\* left to move.
LEMMA StopsAtEnd ==
  ASSUME IInv, trusted, pc = "seek", ClusterOf(file.sector) # ClusterOf(goal), Link(file.cluster) = EOC
  PROVE  /\ goal = size /\ size % ClusterSize = 0 /\ ClusterOf(file.sector) + 1 = Clusters
  <1> USE DEF IInv
  <1>1. file.sector \in Nat /\ goal \in Nat /\ size \in Nat /\ size > 0 /\ size \in Sizes
    BY Numbers DEF TypeOK, DriveOK
  <1> DEFINE s == ClusterOf(file.sector)  q == ClusterOf(goal)
  <1>2. s \in Nat /\ q \in Nat
    BY <1>1, ClusterFacts
  <1>3. s <= q /\ goal <= size /\ Coherent(file)
    BY DEF Cursor
  <1>4. Clusters \in Nat /\ (q + 1 <= Clusters \/ (goal = size /\ size % ClusterSize = 0))
    BY <1>1, <1>3, ClustersOf
  <1>5. s # q
    OBVIOUS
  <1>6. s + 1 <= Clusters
        /\ (file.cluster = s + 1 \/ (file.cluster = EOC /\ s + 1 = Clusters))
    BY <1>3 DEF Coherent
  <1>7. ~(file.cluster < Clusters) \/ file.cluster + 1 = EOC
    BY DEF Link
  <1> HIDE DEF s, q
  <1>8. s + 1 = Clusters
    BY <1>2, <1>4, <1>6, <1>7 DEF EOC
  <1>9. ~(q + 1 <= Clusters)
    BY <1>2, <1>3, <1>4, <1>5, <1>8
  <1> QED
    BY <1>4, <1>8, <1>9 DEF s

\* A link of the FAT: the cursor goes on by a cluster, and meets the end of the
\* chain only at the end of a file that fills it.
LEMMA SeekLinkKeeps ==
  ASSUME IInv, SeekLink, GeometryFound
  PROVE  IInv'
  <1> USE DEF IInv
  <1> DEFINE next == Link(file.cluster)
  <1>1. /\ pc = "seek" /\ ClusterOf(file.sector) # ClusterOf(goal)
        /\ \/ next = EOC /\ file' = [file EXCEPT !.cluster = EOC] /\ pc' = back.failed
           \/ next # EOC /\ file' = [sector |-> file.sector + ClusterSize, cluster |-> next] /\ pc' = pc
        /\ UNCHANGED <<type, size, spb, lba, sector_count, block_count, nSize, bc, goal, back,
                       g, tfr, request, active, moved, trusted>>
    BY DEF SeekLink, fw_locals, disk_vars
  <1>2. Quiet /\ type' = type /\ size' = size /\ lba' = lba /\ nSize' = nSize /\ goal' = goal /\ back' = back
        /\ sector_count' = sector_count /\ block_count' = block_count /\ bc' = bc /\ g' = g
        /\ request' = request /\ trusted' = trusted
    BY <1>1 DEF Quiet
  <1>3. /\ lba \in Int /\ sector_count \in Nat /\ block_count \in Nat /\ nSize \in Nat
        /\ bc \in Nat /\ goal \in Nat /\ file \in [sector : Nat, cluster : Nat] /\ file.sector \in Nat
        /\ size \in Nat /\ size > 0 /\ ClusterSize \in Nat /\ Offset \in Int
        /\ request.lba \in Nat /\ request.count \in Nat /\ size \in Sizes
    BY Numbers DEF TypeOK, DriveOK
  <1>4. Clusters \in Nat /\ EOC = Clusters + 1 /\ Clusters' = Clusters /\ EOC' = EOC /\ Offset' = Offset
    BY <1>2, <1>3, ClustersOf, Same DEF EOC
  <1>5. file.cluster \in Nat /\ next \in Nat
    BY <1>3, <1>4 DEF Link
  <1> HIDE DEF next
  <1>6. file' \in [sector : Nat, cluster : Nat]
    BY <1>1, <1>3, <1>4, <1>5
  <1>7. DriveOK' /\ RegistersOK'
    BY <1>2, <1>6, QuietKept DEF TypeOK, DriveOK
  <1>8. CASE next = EOC
    <2>1. file' = [file EXCEPT !.cluster = EOC] /\ pc' = back.failed
      BY <1>1, <1>8
    <2>2. /\ In' = pc' /\ ServerOK' /\ Flags' /\ Room'
          /\ (Reading' <=> Reading) /\ (Storing' <=> Storing)
          /\ pc' \notin {"dispatch", "identified", "seek", "burst"}
          /\ In' = In \/ (In = "readex" /\ In' = "sent")
      BY <1>1, <1>2, <2>1, BackKeeps
    <2>3. ASSUME trusted PROVE goal = size /\ Cursor' /\ Phase'
      <3>1. goal = size /\ size % ClusterSize = 0 /\ ClusterOf(file.sector) + 1 = Clusters
        BY <1>1, <1>8, <2>3, StopsAtEnd DEF next
      <3>2. file'.cluster = EOC /\ file'.sector = file.sector
        BY <1>3, <2>1
      <3>3. Coherent(file)'
        BY <1>2, <1>4, <3>1, <3>2 DEF Coherent
      \* nothing is left of a command that reads
      <3>4. ASSUME NEW d \in Nat, ReadsOn, Where(d), d + Rest = request.count, In = "readex" PROVE nSize = 0
        <4>1. goal = request.lba + d + Offset
          BY <1>1, <3>4 DEF Where
        <4>2. request.lba + d + Offset + Rest <= size
          BY <2>3, <3>4, WithinFile
        <4>3. block_count <= sector_count /\ Rest = sector_count - block_count + nSize
          BY <3>4, RestIs
        <4>4. Rest \in Nat
          BY RestIs
        <4>5. Rest = 0
          BY <1>3, <3>1, <3>4, <4>1, <4>2, <4>4
        <4> QED
          BY <1>3, <4>3, <4>5
      <3>5. ASSUME Reading PROVE Phase' /\ (In = "readex" => nSize = 0)
        <4>1. (Waits /\ Rest = 0) \/ ReadsOn
          BY <2>3, <3>5, PhaseAt
        <4>2. In = "readex" => nSize = 0
          <5>1. CASE Rest = 0
            BY <1>3, <5>1, RestIs
          <5>2. CASE ReadsOn
            <6> DEFINE d == Len(moved) + Len(g.fifo)
            <6>1. d \in Nat
              BY Numbers
            <6>2. Where(d) /\ d + Rest = request.count
              BY <5>2 DEF ReadsOn
            <6> HIDE DEF d
            <6> QED
              BY <3>4, <5>2, <6>1, <6>2
          <5> QED
            BY <4>1, <5>1, <5>2
        <4>3. In # "read" /\ In # "burst"
          BY <1>1, Labelled
        <4>4. Rest' = Rest
          BY <1>2, <1>3, <2>2, <4>2 DEF Rest
        <4>5. CASE ReadsOn
          <5>1. ASSUME NEW d \in Nat, Where(d), d + Rest = request.count PROVE Where(d)'
            <6>1. In # "patch"
              BY <1>1, <1>3, <3>1, <5>1 DEF Where
            <6>2. In \in {"block", "readex"}
              BY <1>1, <3>5, <6>1, Labelled
            <6>3. In' = "sent" => lba = request.lba + d
              BY <1>3, <2>2, <4>2, <5>1, <6>2 DEF Where
            <6> QED
              BY <1>2, <2>2, <4>2, <5>1, <6>2, <6>3 DEF Where
          <5>2. \A d \in Nat : Where(d) /\ d + Rest = request.count => Where(d)'
            BY <5>1
          <5>3. Reading' /\ In # "read"
            BY <2>2, <3>5, <4>3
          <5> QED
            BY <1>2, <2>3, <3>5, <4>2, <4>4, <5>2, <5>3, ReadingKept
        <4>6. CASE Waits /\ Rest = 0
          <5>1. Reading' /\ Rest' = 0
            BY <2>2, <3>5, <4>4, <4>6
          <5> QED
            BY <1>2, <4>2, <4>6, <5>1, WaitsKept
        <4> QED
          BY <4>1, <4>2, <4>5, <4>6
      <3>6. ASSUME Storing PROVE Phase'
        <4>1. WritesOn
          BY <2>3, <3>6, PhaseAt
        <4>2. lba + sector_count <= size
          BY <2>3, <4>1, WithinFile
        <4>3. type # "card" => sector_count = 0
          <5> SUFFICES ASSUME type # "card", sector_count # 0 PROVE FALSE
            OBVIOUS
          <5>1. goal = Max({lba, 0})
            BY <1>1, <4>1 DEF WritesOn
          <5>2. Max({lba, 0}) = IF lba >= 0 THEN lba ELSE 0
            BY <1>3, MaxTwo
          <5> QED
            BY <1>3, <3>1, <4>2, <5>1, <5>2
        <4> QED
          BY <1>2, <2>2, <2>3, <3>6, <4>3, WritingKept
      <3>7. Reading \/ Storing
        BY <1>1, Labelled
      <3>8. In' = "sent" => nSize = 0
        <4>1. In' = "sent" => Reading /\ In = "readex"
          BY <1>1, <2>2, Labelled
        <4> QED
          BY <3>5, <4>1
      <3>9. Cursor'
        BY <1>2, <2>2, <3>3, <3>8 DEF Cursor
      <3> QED
        BY <3>1, <3>5, <3>6, <3>7, <3>9
    <2> QED
      BY <1>2, <1>7, <2>2, <2>3 DEF TypeOK
  <1>9. CASE next # EOC
    <2>1. file' = [sector |-> file.sector + ClusterSize, cluster |-> next] /\ pc' = pc
      BY <1>1, <1>9
    <2>2. In' = In /\ (Reading' <=> Reading) /\ (Storing' <=> Storing) /\ (Reading \/ Storing)
          /\ In # "read" /\ In # "burst"
      BY <1>1, <1>2, <2>1, Labelled DEF In, Reading, Storing
    <2>3. ServerOK'
      BY <1>2, <2>1 DEF TypeOK, ServerOK
    <2>4. Flags'
      BY <1>2, <2>2, FlagsKept
    <2>5. Room'
      BY <1>2, <2>2 DEF Room
    <2>6. ASSUME trusted PROVE Cursor'
      <3> DEFINE s == ClusterOf(file.sector)  q == ClusterOf(goal)
      <3>1. s \in Nat /\ q \in Nat /\ ClusterOf(file.sector + ClusterSize) = s + 1
        BY <1>3, ClusterFacts
      <3>2. s <= q /\ goal <= size /\ s # q
        BY <1>1, <2>6 DEF Cursor
      <3>3. s + 1 <= Clusters /\ (file.cluster = s + 1 \/ file.cluster = EOC)
        BY <2>6 DEF Cursor, Coherent
      <3>4. file.cluster < Clusters /\ next = file.cluster + 1
        BY <1>9 DEF Link, next
      <3> HIDE DEF s, q
      <3>5. file.cluster = s + 1 /\ next = s + 2 /\ s + 2 <= Clusters /\ s + 1 <= q
        BY <1>4, <1>5, <3>1, <3>2, <3>3, <3>4
      <3>6. file'.sector = file.sector + ClusterSize /\ file'.cluster = next
        BY <2>1
      <3>7. ClusterOf(file'.sector) = s + 1
        BY <3>1, <3>6
      <3>8. Coherent(file)'
        BY <1>4, <3>1, <3>5, <3>6, <3>7 DEF Coherent
      <3>9. ClusterOf(file'.sector) <= ClusterOf(goal)
        BY <3>5, <3>7 DEF q
      <3> QED
        BY <1>1, <1>2, <2>1, <3>2, <3>8, <3>9 DEF Cursor
    <2>7. ASSUME trusted PROVE Phase'
      <3>1. Rest' = Rest
        BY <1>2, <2>2 DEF Rest
      <3>2. ASSUME NEW d \in Nat, Where(d) PROVE Where(d)'
        BY <1>1, <1>2, <1>4, <2>1, <2>2, <3>2 DEF Where
      <3>3. CASE Reading
        BY <1>2, <2>2, <2>7, <3>1, <3>2, <3>3, ReadingKept
      <3>4. CASE Storing
        BY <1>1, <1>2, <2>1, <2>2, <2>7, <3>4, WritingKept
      <3> QED
        BY <2>2, <3>3, <3>4
    <2> QED
      BY <1>1, <1>2, <1>7, <2>1, <2>3, <2>4, <2>5, <2>6, <2>7 DEF TypeOK
  <1> QED
    BY <1>8, <1>9

\* FileSeek's loop is over: the cursor is at the offset, in its cluster.
LEMMA SeekDoneKeeps ==
  ASSUME IInv, SeekDone
  PROVE  IInv'
  <1> USE DEF IInv
  <1>1. /\ pc = "seek" /\ ClusterOf(file.sector) = ClusterOf(goal)
        /\ file' = [file EXCEPT !.sector = goal] /\ pc' = back.found
        /\ UNCHANGED <<type, size, spb, lba, sector_count, block_count, nSize, bc, goal, back,
                       g, tfr, request, active, moved, trusted>>
    BY DEF SeekDone, fw_locals, disk_vars
  <1>2. Quiet /\ type' = type /\ size' = size /\ lba' = lba /\ nSize' = nSize /\ goal' = goal /\ back' = back
        /\ sector_count' = sector_count /\ block_count' = block_count /\ bc' = bc /\ g' = g
        /\ request' = request /\ trusted' = trusted
    BY <1>1 DEF Quiet
  <1>3. goal \in Nat /\ file \in [sector : Nat, cluster : Nat]
    BY Numbers
  <1>4. file' \in [sector : Nat, cluster : Nat] /\ file'.sector = goal /\ file'.cluster = file.cluster
    BY <1>1, <1>3
  <1>5. DriveOK' /\ RegistersOK'
    BY <1>2, <1>4, QuietKept DEF TypeOK, DriveOK
  <1>6. /\ In' = pc' /\ ServerOK' /\ Flags' /\ Room'
        /\ (Reading' <=> Reading) /\ (Storing' <=> Storing)
        /\ pc' \notin {"dispatch", "identified", "seek", "burst"}
    BY <1>1, <1>2, BackKeeps
  <1>7. In' = In /\ (Reading \/ Storing) /\ In # "read" /\ In # "sent" /\ In # "burst"
    BY <1>1, <1>6, Labelled
  <1>8. ASSUME trusted PROVE Cursor'
    <2>1. Coherent(file)'
      BY <1>1, <1>2, <1>4, <1>8, Same DEF Cursor, Coherent
    <2> QED
      BY <1>6, <1>7, <2>1 DEF Cursor
  <1>9. ASSUME trusted PROVE Phase'
    <2>1. Rest' = Rest
      BY <1>2, <1>7 DEF Rest
    <2>2. Offset' = Offset
      BY <1>2, Same
    <2>3. ASSUME NEW d \in Nat, Where(d) PROVE Where(d)'
      BY <1>1, <1>2, <1>4, <1>6, <1>7, <2>2, <2>3 DEF Where
    <2>4. CASE Reading
      BY <1>2, <1>6, <1>7, <1>9, <2>1, <2>3, <2>4, ReadingKept
    <2>5. CASE Storing
      BY <1>1, <1>2, <1>4, <1>6, <1>7, <1>9, <2>5, WritingKept
    <2> QED
      BY <1>7, <2>4, <2>5
  <1> QED
    BY <1>2, <1>5, <1>6, <1>8, <1>9 DEF TypeOK

\* The count register, taken as HandleHDD takes it, is the count that was asked for.
LEMMA CountIs ==
  ASSUME NEW c \in 1..CountRegister
  PROVE  c = IF c % CountRegister = 0 THEN CountRegister ELSE c % CountRegister
  <1>1. CountRegister \in Nat \ {0} /\ CountRegister > 1
    BY IdeServerAssumption
  <1>2. CASE c = CountRegister
    <2>1. c = (CountRegister * 1) + 0
      BY <1>1, <1>2
    <2>2. c % CountRegister = 0
      BY <1>1, <2>1, DivUnique
    <2> QED
      BY <1>2, <2>2
  <1>3. CASE c # CountRegister
    <2>1. c = (CountRegister * 0) + c /\ c \in 0..(CountRegister - 1)
      BY <1>1, <1>3
    <2>2. c % CountRegister = c
      BY <1>1, <2>1, DivUnique
    <2> QED
      BY <2>2
  <1> QED
    BY <1>2, <1>3

\* A block is no longer than the FIFO and than what is left.
LEMMA BlockFits ==
  ASSUME TypeOK, NEW n \in Nat \ {0}
  PROVE  BlockCount(n) \in Nat /\ BlockCount(n) <= FifoSectors /\ BlockCount(n) <= n
  <1>1. spb \in Nat /\ spb <= FifoSectors /\ FifoSectors \in Nat /\ FifoSectors > 0
    BY IdeServerAssumption DEF TypeOK, DriveOK
  <1>2. Min({n, spb}) = IF n <= spb THEN n ELSE spb
    BY <1>1, MinTwo
  <1>3. BlockCount(n) = 1 \/ BlockCount(n) = Min({n, spb})
    BY DEF BlockCount
  <1> QED
    BY <1>1, <1>2, <1>3

\* A command of the host's that the server turns to: what it finds in the task file.
LEMMA Dispatched ==
  ASSUME IInv, pc = "dispatch", tfr.cmd \in DataCommands
  PROVE  /\ trusted /\ Fresh /\ request.cmd = tfr.cmd
         /\ request.count \in 1..CountRegister /\ SectorCount = request.count
         /\ chs2lba(tfr.chs) = request.lba
         /\ Advance(tfr.chs, SectorCount) = ChsOf(LastSector) /\ ChsOf(LastSector) \in ChsSet
         /\ LastSector \in Nat
  <1> USE DEF IInv
  <1>1. trusted /\ Fresh
    BY PhaseAt DEF Waits
  <1>2. request.cmd = tfr.cmd /\ tfr.chs = ChsOf(request.lba)
        /\ (request.cmd \in DataCommands => tfr.count = request.count % CountRegister)
    BY <1>1 DEF Fresh
  <1>3. type \in Kinds /\ size \in Sizes /\ request \in RequestsTo(type, size)
    BY DEF TypeOK, DriveOK
  <1>4. request.lba \in Nat /\ request.count \in 0..CountRegister /\ request.count # 0
    BY <1>2, <1>3, RequestFacts
  <1>5. request.count \in 1..CountRegister /\ request.count \in Nat \ {0} /\ CountRegister \in Nat
    BY <1>4, IdeServerAssumption
  <1>6. SectorCount = request.count
    BY <1>2, <1>5, CountIs DEF SectorCount
  <1>7. Heads \in Nat \ {0} /\ Sectors \in Nat \ {0}
    BY <1>3, ShapeFacts
  <1>8. LastSector \in Nat
    BY <1>4, <1>5 DEF LastSector
  <1>9. chs2lba(tfr.chs) = request.lba /\ ChsOf(LastSector) \in ChsSet
    BY <1>2, <1>4, <1>7, <1>8, ChsBack
  <1>10. Advance(tfr.chs, SectorCount) = ChsOf(LastSector)
    BY <1>2, <1>4, <1>5, <1>6, <1>7, AdvanceIs DEF LastSector
  <1> QED
    BY <1>1, <1>2, <1>5, <1>6, <1>8, <1>9, <1>10

\* WriteTaskFile changes the address alone.
LEMMA TaskFileKept ==
  ASSUME RegistersOK, NEW a \in ChsSet, WriteTaskFile(a)
  PROVE  tfr'.cmd = tfr.cmd /\ tfr'.chs = a /\ tfr'.count = tfr.count
         /\ tfr' \in [cmd : Commands, chs : ChsSet, count : 0..(CountRegister - 1)]
  BY DEF WriteTaskFile, RegistersOK

\* ATA_ReadSectors begins: the address of the last sector is in the task file.
LEMMA ReadSectorsKeeps ==
  ASSUME IInv, ReadSectors
  PROVE  IInv'
  <1> USE DEF IInv
  <1>1. /\ pc = "dispatch" /\ tfr.cmd \in {"read", "readm"} /\ lba' = chs2lba(tfr.chs)
        /\ sector_count' = SectorCount /\ WriteTaskFile(Advance(tfr.chs, SectorCount)) /\ pc' = "read"
        /\ UNCHANGED <<type, size, spb, file, block_count, nSize, bc, goal, back, g,
                       request, active, moved, trusted>>
    BY DEF ReadSectors, disk_vars
  <1>2. /\ trusted /\ Fresh /\ request.cmd = tfr.cmd
        /\ request.count \in 1..CountRegister /\ SectorCount = request.count
        /\ chs2lba(tfr.chs) = request.lba
        /\ Advance(tfr.chs, SectorCount) = ChsOf(LastSector) /\ ChsOf(LastSector) \in ChsSet
    BY <1>1, Dispatched DEF DataCommands
  <1>3. tfr'.cmd = tfr.cmd /\ tfr'.chs = ChsOf(LastSector) /\ tfr'.count = tfr.count
        /\ tfr' \in [cmd : Commands, chs : ChsSet, count : 0..(CountRegister - 1)]
    BY <1>1, <1>2, TaskFileKept DEF TypeOK
  <1>4. In = "dispatch" /\ In' = "read"
    BY <1>1 DEF In
  <1>5. ~Reading /\ ~Storing /\ Reading' /\ ~Storing'
    BY <1>4 DEF Reading, Storing, ReadStates, WriteStates
  <1>6. request.lba \in Nat /\ request.count \in Nat /\ Len(moved) \in Nat /\ Len(g.fifo) \in Nat
        /\ CountRegister \in Nat
    BY Numbers
  <1>7. lba' = request.lba /\ sector_count' = request.count /\ g' = g /\ request' = request /\ moved' = moved
        /\ active' = active /\ spb' = spb /\ type' = type /\ size' = size
    BY <1>1, <1>2
  <1>8. /\ active /\ moved = <<>> /\ g.fifo = <<>> /\ g.busy /\ ~g.pio_in /\ ~g.pio_out /\ ~g.error
        /\ g.count = request.count % CountRegister /\ (Multiple(request) => spb # 0)
    BY <1>1, <1>2 DEF Fresh, DataCommands
  <1>9. Len(moved) = 0 /\ Len(g.fifo) = 0
    BY <1>8
  <1>10. DriveOK' /\ RegistersOK'
    BY <1>1, <1>3 DEF TypeOK, DriveOK, RegistersOK
  <1>11. ServerOK'
    BY <1>1, <1>2, <1>6, <1>7 DEF TypeOK, ServerOK, ReadStates
  <1>12. Flags'
    BY <1>7, <1>8, <1>5 DEF Flags
  <1>13. Room'
    BY <1>1, <1>4, <1>5, <1>6, <1>7 DEF Room
  <1>14. Cursor'
    BY <1>1, <1>2, Same DEF Cursor, Coherent
  <1>15. Phase'
    <2>1. Rest' = request.count
      BY <1>4, <1>7 DEF Rest
    <2>2. LastSector' = LastSector /\ ChsOf(LastSector)' = ChsOf(LastSector)
      BY <1>7, SameLast
    <2> DEFINE d == Len(moved) + Len(g.fifo)
    <2>3. d' = 0
      BY <1>7, <1>9
    <2>4. Where(d)'
      <3> HIDE DEF d
      <3> QED
        BY <1>4, <1>6, <1>7, <2>3 DEF Where
    <2>5. d' + Rest' = request'.count
      BY <1>6, <1>7, <2>1, <2>3
    <2>6. g'.count = (request'.count - Len(moved')) % CountRegister
      BY <1>6, <1>7, <1>8, <1>9
    <2>7. (active' <=> Len(moved') < request'.count) /\ (g'.busy <=> active')
      BY <1>2, <1>7, <1>8, <1>9
    <2>8. request'.cmd \in {"read", "readm"} /\ tfr'.cmd = request'.cmd
      BY <1>1, <1>2, <1>3, <1>7
    <2>9. ReadsOn'
      BY <1>3, <1>4, <1>5, <1>7, <1>8, <2>2, <2>3, <2>4, <2>5, <2>6, <2>7, <2>8 DEF ReadsOn, Multiple
    <2> QED
      BY <2>9 DEF Phase
  <1> QED
    BY <1>1, <1>2, <1>10, <1>11, <1>12, <1>13, <1>14, <1>15 DEF TypeOK

\* The block is announced.
LEMMA ReadBlockKeeps ==
  ASSUME IInv, ReadBlock
  PROVE  IInv'
  <1> USE DEF IInv
  <1>1. /\ pc = "read" /\ sector_count # 0 /\ block_count' = BlockCount(sector_count)
        /\ g' = Status(g, {"RDY"}) /\ pc' = "empty"
        /\ UNCHANGED <<type, size, spb, file, lba, sector_count, nSize, bc, goal, back,
                       tfr, request, active, moved, trusted>>
    BY DEF ReadBlock, WriteStatus, disk_vars
  <1>2. In = "read" /\ In' = "empty"
    BY <1>1 DEF In
  <1>3. Reading /\ ~Storing /\ Reading' /\ ~Storing'
    BY <1>2 DEF Reading, Storing, ReadStates, WriteStates
  <1>4. lba \in Int /\ sector_count \in Nat /\ request.lba \in Nat /\ request.count \in Nat
        /\ Len(moved) \in Nat /\ Len(g.fifo) \in Nat /\ (g.fifo = <<>> <=> Len(g.fifo) = 0)
    BY Numbers
  <1>5. block_count' \in Nat /\ block_count' <= FifoSectors /\ block_count' <= sector_count
    BY <1>1, <1>4, BlockFits
  <1>6. /\ g' \in Gayle
        /\ g'.busy <=> g.busy
        /\ g'.pio_out <=> g.pio_out
        /\ g'.error <=> g.error
        /\ g'.count = g.count /\ g'.fifo = g.fifo
        /\ g'.pio_in <=> (g.pio_in \/ g.busy) /\ (g'.busy \/ g.fifo # <<>> \/ (g'.pio_out /\ g.count # 0))
    <2>1. /\ g' \in Gayle
          /\ g'.busy <=> g.busy /\ "END" \notin {"RDY"}
          /\ g'.pio_out <=> (g.pio_out \/ (g.busy /\ "REQ" \in {"RDY"})) /\ ~(g.busy /\ "END" \in {"RDY"})
          /\ g'.error <=> g.error \/ (g.busy /\ "ERR" \in {"RDY"})
          /\ g'.count = g.count /\ g'.fifo = g.fifo
          /\ g'.pio_in <=> (g.pio_in \/ (g.busy /\ "RDY" \in {"RDY"}))
                           /\ (g'.busy \/ g.fifo # <<>> \/ (g'.pio_out /\ g.count # 0))
      BY <1>1, StatusIs DEF TypeOK, RegistersOK
    <2>2. "END" \notin {"RDY"} /\ "REQ" \notin {"RDY"} /\ "ERR" \notin {"RDY"} /\ "RDY" \in {"RDY"}
      OBVIOUS
    <2> QED
      BY <2>1, <2>2
  <1>7. DriveOK' /\ RegistersOK'
    BY <1>1, <1>6 DEF TypeOK, DriveOK, RegistersOK
  <1>8. ServerOK'
    BY <1>1, <1>5 DEF TypeOK, ServerOK, ReadStates
  <1>9. Flags'
    BY <1>3, <1>6 DEF Flags
  <1>10. Room'
    BY <1>1, <1>2, <1>3, <1>5, <1>6 DEF Room
  <1>11. ASSUME trusted PROVE Cursor'
    BY <1>1, <1>11, Same DEF Cursor, Coherent
  <1>12. ASSUME trusted PROVE Phase'
    <2>1. Rest = sector_count /\ Rest' = sector_count
      BY <1>1, <1>2 DEF Rest
    <2>2. ReadsOn
      BY <1>1, <1>3, <1>12, <2>1, PhaseAt
    <2> DEFINE d == Len(moved) + Len(g.fifo)
    <2>3. Where(d) /\ d + Rest = request.count /\ d \in Nat
      BY <1>4, <2>2 DEF ReadsOn
    <2>4. active /\ g.busy
      BY <1>1, <1>4, <2>1, <2>2, <2>3 DEF ReadsOn
    <2>5. g'.pio_in
      BY <1>6, <2>4
    <2>6. d' = d /\ lba' = lba /\ request' = request /\ moved' = moved /\ active' = active /\ tfr' = tfr /\ spb' = spb
      BY <1>1, <1>6
    <2>7. Where(d)'
      <3>1. lba = request.lba + d
        BY <1>2, <2>3 DEF Where
      <3> HIDE DEF d
      <3> QED
        BY <1>2, <2>6, <3>1 DEF Where
    <2>8. LastSector' = LastSector /\ ChsOf(LastSector)' = ChsOf(LastSector)
      BY <1>1, SameLast
    <2>9. d' + Rest' = request.count
      BY <2>1, <2>3, <2>6
    <2>10. ReadsOn'
      BY <1>3, <1>6, <2>2, <2>5, <2>6, <2>7, <2>8, <2>9 DEF ReadsOn, Multiple
    <2> QED
      BY <2>10 DEF Phase
  <1> QED
    BY <1>1, <1>7, <1>8, <1>9, <1>10, <1>11, <1>12 DEF TypeOK

\* The last block has been read: the server is back in its loop.
LEMMA ReadEndsKeeps ==
  ASSUME IInv, ReadEnds
  PROVE  IInv'
  <1> USE DEF IInv
  <1>1. /\ pc = "read" /\ sector_count = 0 /\ pc' = "loop"
        /\ lba' = 0 /\ sector_count' = 0 /\ block_count' = 0 /\ nSize' = 0 /\ bc' = 0 /\ goal' = 0
        /\ back' = [found |-> "loop", failed |-> "loop"]
        /\ UNCHANGED <<type, size, spb, file, g, tfr, request, active, moved, trusted>>
    BY DEF ReadEnds, Forget, disk_vars
  <1>2. In = "read" /\ In' = "loop"
    BY <1>1 DEF In
  <1>3. Reading /\ ~Storing /\ ~Reading' /\ ~Storing'
    BY <1>2 DEF Reading, Storing, ReadStates, WriteStates
  <1>4. Quiet /\ g' = g
    BY <1>1 DEF Quiet
  <1>5. DriveOK' /\ RegistersOK'
    BY <1>1, <1>4, QuietKept, Numbers DEF TypeOK, DriveOK
  <1>6. ServerOK'
    BY <1>1, Numbers DEF ServerOK, Labels
  <1>7. Flags'
    BY <1>3, <1>4, FlagsKept
  <1>8. Room'
    BY <1>1, <1>2, <1>3, Numbers DEF Room
  <1>9. ASSUME trusted PROVE Cursor'
    BY <1>1, <1>9, Same DEF Cursor, Coherent
  <1>10. ASSUME trusted PROVE Phase'
    <2>1. Rest = 0 /\ Rest' = Rest
      BY <1>1, <1>2 DEF Rest
    <2>2. ASSUME NEW d \in Nat PROVE Where(d)'
      BY <1>2 DEF Where
    <2> QED
      BY <1>1, <1>3, <1>4, <1>10, <2>1, <2>2, ReadingKept
  <1> QED
    BY <1>1, <1>5, <1>6, <1>7, <1>8, <1>9, <1>10 DEF TypeOK

\* The FIFO is empty before a block is read.
LEMMA BufferEmptyKeeps ==
  ASSUME IInv, BufferEmpty
  PROVE  IInv'
  <1> USE DEF IInv
  <1>1. /\ pc = "empty" /\ Bsy(g) /\ nSize' = block_count /\ pc' = "block"
        /\ UNCHANGED <<type, size, spb, file, lba, sector_count, block_count, bc, goal, back,
                       g, tfr, request, active, moved, trusted>>
    BY DEF BufferEmpty, disk_vars
  <1>2. In = "empty" /\ In' = "block"
    BY <1>1 DEF In
  <1>3. Reading /\ ~Storing /\ Reading' /\ ~Storing'
    BY <1>2 DEF Reading, Storing, ReadStates, WriteStates
  <1>4. Quiet /\ g' = g
    BY <1>1 DEF Quiet
  <1>5. g.fifo = <<>> /\ Len(g.fifo) = 0
    <2>1. g.fifo = <<>>
      BY <1>1, <1>3 DEF Bsy, Drq, Flags
    <2> QED
      BY <2>1
  <1>6. block_count \in Nat /\ sector_count \in Nat /\ nSize \in Nat
    BY Numbers
  <1>7. DriveOK' /\ RegistersOK'
    BY <1>1, <1>4, QuietKept, Numbers DEF TypeOK, DriveOK
  <1>8. ServerOK'
    BY <1>1 DEF TypeOK, ServerOK, ReadStates
  <1>9. Flags'
    BY <1>3, <1>4, FlagsKept
  <1>10. Room'
    BY <1>1, <1>2, <1>3, <1>5, <1>6 DEF Room
  <1>11. ASSUME trusted PROVE Cursor'
    BY <1>1, <1>11, Same DEF Cursor, Coherent
  <1>12. ASSUME trusted PROVE Phase'
    <2>1. Rest' = Rest
      BY <1>1, <1>2, <1>6 DEF Rest
    <2>2. ASSUME NEW d \in Nat, Where(d) PROVE Where(d)'
      BY <1>1, <1>2, <2>2 DEF Where
    <2> QED
      BY <1>2, <1>3, <1>4, <1>12, <2>1, <2>2, ReadingKept
  <1> QED
    BY <1>1, <1>7, <1>8, <1>9, <1>10, <1>11, <1>12 DEF TypeOK

\* A block of the RDB we make up.
LEMMA SendRDBKeeps ==
  ASSUME IInv, SendRDB
  PROVE  IInv'
  <1> USE DEF IInv
  <1> DEFINE p == <<"rdb", lba>>
  <1>1. /\ pc = "block" /\ nSize # 0 /\ g' = Push(g, p) /\ lba' = lba + 1 /\ nSize' = nSize - 1
        /\ UNCHANGED <<type, size, spb, file, pc, sector_count, block_count, bc, goal, back,
                       tfr, request, active, moved, trusted>>
    BY DEF SendRDB, disk_vars
  <1>2. In = "block" /\ In' = "block"
    BY <1>1 DEF In
  <1>3. Reading /\ ~Storing /\ Reading' /\ ~Storing'
    BY <1>2 DEF Reading, Storing, ReadStates, WriteStates
  <1>4. /\ lba \in Int /\ sector_count \in Nat /\ block_count \in Nat /\ nSize \in Nat
        /\ Len(g.fifo) \in Nat /\ FifoSectors \in Nat /\ request.lba \in Nat
    BY Numbers
  <1>5. p \in Places
    BY <1>4 DEF Places
  <1> HIDE DEF p
  <1>6. g' \in Gayle /\ Flags' /\ Len(g'.fifo) \in Nat /\ Len(g'.fifo) <= Len(g.fifo) + 1
    BY <1>1, <1>3, <1>5, Pushed
  <1>7. DriveOK' /\ RegistersOK'
    BY <1>1, <1>6 DEF TypeOK, DriveOK, RegistersOK
  <1>8. ServerOK'
    BY <1>1, <1>4 DEF TypeOK, ServerOK
  <1>9. Room'
    <2>1. /\ block_count <= FifoSectors /\ block_count <= sector_count /\ lba >= 0
          /\ Len(g.fifo) + nSize <= block_count
      BY <1>2, <1>3 DEF Room
    <2>2. Len(g'.fifo) + nSize' <= block_count /\ Len(g'.fifo) <= FifoSectors /\ lba' >= 0
      BY <1>1, <1>4, <1>6, <2>1
    <2> QED
      BY <1>1, <1>2, <1>3, <2>1, <2>2 DEF Room
  <1>10. ASSUME trusted PROVE Cursor'
    BY <1>1, <1>10, Same DEF Cursor, Coherent
  <1>11. ASSUME trusted PROVE Phase'
    <2>1. Rest = sector_count - block_count + nSize /\ Rest' = sector_count - block_count + (nSize - 1)
          /\ block_count <= sector_count
      BY <1>1, <1>2 DEF Rest, Room
    <2>2. Rest > 0 /\ Rest' = Rest - 1
      BY <1>1, <1>4, <2>1
    <2>3. ASSUME NEW d \in Nat, Where(d) PROVE Where(d + 1)'
      <3>1. lba = request.lba + d
        BY <1>2, <2>3 DEF Where
      <3>2. lba' = request'.lba + (d + 1)
        BY <1>1, <1>4, <3>1
      <3> QED
        BY <1>2, <3>2 DEF Where
    <2> QED
      BY <1>1, <1>2, <1>3, <1>5, <1>11, <2>2, <2>3, ReadingPush
  <1> QED
    BY <1>1, <1>6, <1>7, <1>8, <1>9, <1>10, <1>11 DEF TypeOK

\* HardFileSeek to sector 0.
LEMMA SeekPatchedKeeps ==
  ASSUME IInv, SeekPatched
  PROVE  IInv'
  <1> USE DEF IInv
  <1> DEFINE label == [found |-> "patch", failed |-> "patch"]
  <1>1. /\ pc = "block" /\ nSize # 0 /\ type = "file" /\ lba = 0
        /\ HardFileSeek(lba, label)
        /\ UNCHANGED <<type, size, spb, lba, sector_count, block_count, nSize, bc, g,
                       tfr, request, active, moved, trusted>>
    BY DEF SeekPatched, Patched, disk_vars
  <1>2. label \in Labels /\ label.found = "patch"
    BY DEF Labels
  <1> HIDE DEF label
  <1>3. /\ file' \in [sector : Nat, cluster : Nat] /\ goal' = 0 /\ pc' = "seek"
        /\ back' = label /\ In' = "patch"
        /\ (Coherent(file) /\ 0 < size => Cursor')
    BY <1>1, <1>2, HardFileSeekIs
  <1>4. In = "block"
    BY <1>1 DEF In
  <1>5. Reading /\ ~Storing /\ Reading' /\ ~Storing'
    BY <1>3, <1>4 DEF Reading, Storing, ReadStates, WriteStates
  <1>6. Quiet /\ g' = g
    BY <1>1 DEF Quiet
  <1>7. DriveOK' /\ RegistersOK'
    BY <1>1, <1>3, <1>6, QuietKept DEF TypeOK, DriveOK
  <1>8. ServerOK'
    BY <1>1, <1>2, <1>3 DEF TypeOK, ServerOK
  <1>9. Flags'
    BY <1>5, <1>6, FlagsKept
  <1>10. Room'
    BY <1>1, <1>3, <1>4, <1>5 DEF Room
  <1>11. ASSUME trusted PROVE Cursor'
    BY <1>3, <1>11, Numbers DEF Cursor
  <1>12. ASSUME trusted PROVE Phase'
    <2>1. Rest' = Rest
      BY <1>1, <1>3, <1>4 DEF Rest
    <2>2. ASSUME NEW d \in Nat, Where(d) PROVE Where(d)'
      BY <1>1, <1>3, <1>4, <2>2 DEF Where
    <2> QED
      BY <1>4, <1>5, <1>6, <1>12, <2>1, <2>2, ReadingKept
  <1> QED
    BY <1>1, <1>3, <1>7, <1>8, <1>9, <1>10, <1>11, <1>12 DEF TypeOK

\* Sector 0 goes through sector_buffer, or a failing card leaves an old one there.
LEMMA SendPatchedKeeps ==
  ASSUME IInv, SendPatched
  PROVE  IInv'
  <1> USE DEF IInv
  <1> DEFINE p == IF trusted' THEN At(file, 0) ELSE <<"stale", 0>>
             label == [found |-> "block", failed |-> "block"]
  <1>1. /\ pc = "patch" /\ lba' = lba + 1 /\ nSize' = nSize - 1
        /\ UNCHANGED <<type, size, spb, sector_count, block_count, bc, tfr, request, active, moved>>
        /\ \/ g' = Push(g, At(file, 0)) /\ FileSeek(file, file.sector + 1, label) /\ trusted' = trusted
           \/ g' = Push(g, <<"stale", 0>>) /\ trusted' = FALSE /\ pc' = "block"
              /\ file' = file /\ goal' = goal /\ back' = back
    BY DEF SendPatched
  <1>2. label \in Labels /\ label.found = "block"
    BY DEF Labels
  <1> HIDE DEF label
  <1>3. /\ lba \in Int /\ sector_count \in Nat /\ block_count \in Nat /\ nSize \in Nat
        /\ Len(g.fifo) \in Nat /\ FifoSectors \in Nat /\ request.lba \in Nat
        /\ file \in [sector : Nat, cluster : Nat] /\ file.sector \in Nat /\ goal \in Nat
        /\ size \in Nat /\ size > 0
    BY Numbers
  <1>4. At(file, 0) \in Places /\ <<"stale", 0>> \in Places
    BY <1>3, AtIn DEF Places
  <1>5. PICK q \in Places : g' = Push(g, q)
    BY <1>1, <1>4
  <1>6. In = "patch"
    BY <1>1 DEF In
  <1>7. /\ file' \in [sector : Nat, cluster : Nat] /\ goal' \in Nat /\ In' = "block" /\ back' \in Labels
        /\ trusted' \in BOOLEAN /\ (pc' = "block" \/ (pc' = "seek" /\ back'.found = "block"))
    <2>1. CASE FileSeek(file, file.sector + 1, label) /\ trusted' = trusted
      BY <1>2, <1>3, <2>1, FileSeekIs DEF TypeOK, DriveOK
    <2>2. CASE trusted' = FALSE /\ pc' = "block" /\ file' = file /\ goal' = goal /\ back' = back
      BY <1>3, <2>2 DEF TypeOK, ServerOK, In
    <2> QED
      BY <1>1, <2>1, <2>2
  <1>8. Reading /\ ~Storing /\ Reading' /\ ~Storing'
    BY <1>6, <1>7 DEF Reading, Storing, ReadStates, WriteStates
  <1>9. g' \in Gayle /\ Flags' /\ Len(g'.fifo) \in Nat /\ Len(g'.fifo) <= Len(g.fifo) + 1
    BY <1>5, <1>8, Pushed
  <1>10. DriveOK' /\ RegistersOK'
    BY <1>1, <1>7, <1>9 DEF TypeOK, DriveOK, RegistersOK
  <1>11. /\ block_count <= FifoSectors /\ block_count <= sector_count /\ lba >= 0 /\ nSize # 0
         /\ Len(g.fifo) + nSize <= block_count
    BY <1>6, <1>8 DEF Room
  <1>12. ServerOK'
    <2>1. lba' \in Int /\ nSize' \in Nat
      BY <1>1, <1>3, <1>11
    <2> QED
      BY <1>1, <1>7, <2>1 DEF TypeOK, ServerOK, ReadStates
  <1>13. Room'
    <2>2. Len(g'.fifo) + nSize' <= block_count /\ Len(g'.fifo) <= FifoSectors /\ lba' >= 0
      BY <1>1, <1>3, <1>9, <1>11, SMTT(30)
    <2> QED
      BY <1>1, <1>7, <1>8, <1>11, <2>2 DEF Room
  <1>14. ASSUME trusted' PROVE trusted /\ Phase' /\ Cursor'
    <2>1. g' = Push(g, At(file, 0)) /\ FileSeek(file, file.sector + 1, label) /\ trusted' = trusted
      BY <1>1, <1>14
    <2>2. trusted
      BY <1>14, <2>1
    <2>3. Rest = sector_count - block_count + nSize /\ Rest' = sector_count - block_count + (nSize - 1)
      BY <1>1, <1>6, <1>7 DEF Rest
    <2>4. Rest > 0 /\ Rest' = Rest - 1
      BY <1>3, <1>11, <2>3
    <2>5. ASSUME NEW d \in Nat, Where(d) PROVE Where(d + 1)'
      <3>1. lba = 0 /\ request.lba + d = 0
        BY <1>6, <2>5 DEF Where
      <3>2. lba' = request'.lba + (d + 1)
        BY <1>1, <1>3, <3>1
      <3> QED
        BY <1>7, <3>2 DEF Where
    <2>6. Phase' /\ ReadsOn
      BY <1>1, <1>5, <1>6, <1>8, <2>2, <2>4, <2>5, ReadingPush
    <2>7. file.sector = 0
      BY <1>1, <1>6, <2>6 DEF ReadsOn, Where
    <2>8. file.sector + 1 \in Nat /\ file.sector <= file.sector + 1 /\ file.sector + 1 <= size
      BY <1>3, <2>7
    <2>9. Coherent(file) /\ size' = size
      BY <1>1, <2>2 DEF Cursor
    <2>10. Cursor'
      BY <1>2, <1>3, <2>1, <2>8, <2>9, FileSeekIs
    <2> QED
      BY <2>2, <2>6, <2>10
  <1> QED
    BY <1>7, <1>9, <1>10, <1>12, <1>13, <1>14 DEF TypeOK

\* HardFileSeek to the block.
LEMMA SeekBlockKeeps ==
  ASSUME IInv, SeekBlock, GeometryFound
  PROVE  IInv'
  <1> USE DEF IInv
  <1> DEFINE label == [found |-> "readex", failed |-> "readex"]  offset == lba + Offset
  <1>1. /\ pc = "block" /\ nSize # 0 /\ type # "card" /\ ~MadeUp
        /\ HardFileSeek(offset, label) /\ lba' = lba + nSize
        /\ UNCHANGED <<type, size, spb, sector_count, block_count, nSize, bc, g,
                       tfr, request, active, moved, trusted>>
    BY DEF SeekBlock, disk_vars
  <1>2. label \in Labels /\ label.found = "readex"
    BY DEF Labels
  <1>3. /\ lba \in Int /\ sector_count \in Nat /\ block_count \in Nat /\ nSize \in Nat
        /\ Len(g.fifo) \in Nat /\ request.lba \in Nat /\ Offset \in Int /\ size \in Nat
    BY Numbers
  <1>4. In = "block"
    BY <1>1 DEF In
  <1>5. Reading /\ ~Storing
    BY <1>4 DEF Reading, Storing, ReadStates, WriteStates
  <1>6. lba >= 0 /\ (type # "synth" => Offset = 0)
    BY <1>5, ShapeFacts DEF Room, TypeOK, DriveOK
  <1>7. offset \in Nat
    BY <1>1, <1>3, <1>6 DEF MadeUp
  <1> HIDE DEF label, offset
  <1>8. /\ file' \in [sector : Nat, cluster : Nat] /\ goal' = offset /\ pc' = "seek"
        /\ back' = label /\ In' = "readex"
        /\ (Coherent(file) /\ offset < size => Cursor')
    BY <1>1, <1>2, <1>7, HardFileSeekIs
  <1>9. Reading' /\ ~Storing'
    BY <1>8 DEF Reading, Storing, ReadStates, WriteStates
  <1>10. Quiet /\ g' = g
    BY <1>1 DEF Quiet
  <1>11. DriveOK' /\ RegistersOK'
    BY <1>1, <1>8, <1>10, QuietKept DEF TypeOK, DriveOK
  <1>12. lba' \in Int /\ lba' >= 0
    BY <1>1, <1>3, <1>6
  <1>13. ServerOK'
    BY <1>1, <1>2, <1>7, <1>8, <1>12 DEF TypeOK, ServerOK
  <1>14. Flags'
    BY <1>5, <1>9, <1>10, FlagsKept
  <1>15. Room'
    BY <1>1, <1>4, <1>8, <1>9, <1>12 DEF Room
  <1>16. Rest = sector_count - block_count + nSize /\ Rest' = Rest
         /\ block_count <= sector_count
    BY <1>1, <1>4, <1>8 DEF Rest, Room
  <1>17. ASSUME trusted PROVE offset < size
    <2>1. ReadsOn
      BY <1>1, <1>3, <1>5, <1>16, <1>17, PhaseAt
    <2> DEFINE d == Len(moved) + Len(g.fifo)
    <2>2. d \in Nat /\ Where(d) /\ d + Rest = request.count
      BY <2>1, Numbers DEF ReadsOn
    <2> HIDE DEF d
    <2>3. request.lba + d + Offset + Rest <= size
      BY <1>17, <2>1, <2>2, WithinFile
    <2>4. lba = request.lba + d
      BY <1>4, <2>2 DEF Where
    <2>5. Rest \in Nat /\ Rest > 0
      BY <1>1, <1>3, <1>16
    <2>6. lba + Offset + Rest <= size
      BY <2>3, <2>4
    <2> QED
      BY <1>3, <2>5, <2>6 DEF offset
  <1>18. ASSUME trusted PROVE Cursor'
    BY <1>8, <1>17, <1>18 DEF Cursor
  <1>19. ASSUME trusted PROVE Phase'
    <2>1. Offset' = Offset
      BY <1>1, Same
    <2>2. ASSUME NEW d \in Nat, Where(d) PROVE Where(d)'
      <3>1. lba = request.lba + d
        BY <1>4, <2>2 DEF Where
      <3>2. lba' = request'.lba + d + nSize' /\ goal' = request'.lba + d + Offset'
        BY <1>1, <1>3, <1>8, <2>1, <3>1 DEF offset
      <3> QED
        BY <1>1, <1>8, <3>2 DEF Where
    <2> QED
      BY <1>4, <1>5, <1>9, <1>10, <1>16, <1>19, <2>2, ReadingKept
  <1> QED
    BY <1>1, <1>8, <1>11, <1>13, <1>14, <1>15, <1>18, <1>19 DEF TypeOK

\* FileReadEx takes no more than the cluster has.
LEMMA ReadClusterKeeps ==
  ASSUME IInv, ReadCluster, GeometryFound
  PROVE  IInv'
  <1> USE DEF IInv
  <1> DEFINE left == ClusterSize - (file.sector % ClusterSize)
  <1>1. /\ pc = "readex" /\ nSize # 0 /\ bc' = Min({nSize, left}) /\ nSize' = nSize - bc'
        /\ goal' = 0 /\ pc' = "burst"
        /\ UNCHANGED <<type, size, spb, file, lba, sector_count, block_count, back, g,
                       tfr, request, active, moved, trusted>>
    BY DEF ReadCluster, disk_vars
  <1>2. /\ lba \in Int /\ sector_count \in Nat /\ block_count \in Nat /\ nSize \in Nat
        /\ Len(g.fifo) \in Nat /\ request.lba \in Nat /\ Offset \in Int /\ size \in Nat
        /\ file.sector \in Nat /\ ClusterSize \in Nat
    BY Numbers
  <1>3. left \in Nat /\ left > 0
    <2>1. file.sector % ClusterSize \in 0..(ClusterSize - 1)
      BY <1>2, ClusterFacts
    <2> DEFINE m == file.sector % ClusterSize
    <2> HIDE DEF m
    <2> QED
      BY <1>2, <2>1 DEF m
  <1>4. Within(file, left)
    <2> DEFINE m == file.sector % ClusterSize
    <2>1. m \in 0..(ClusterSize - 1)
      BY <1>2, ClusterFacts
    <2>2. Within(file, left) <=> m + left <= ClusterSize
      BY DEF Within
    <2>3. left = ClusterSize - m
      OBVIOUS
    <2> HIDE DEF m, left
    <2> QED
      BY <1>2, <2>1, <2>2, <2>3
  <1> HIDE DEF left
  <1> DEFINE b == Min({nSize, left})  n == nSize - b
  <1>5. b \in Nat /\ b <= left /\ b <= nSize /\ b > 0
    <2>1. b = IF nSize <= left THEN nSize ELSE left
      BY <1>2, <1>3, MinTwo
    <2> HIDE DEF b
    <2> QED
      BY <1>1, <1>2, <1>3, <2>1
  <1> HIDE DEF b
  <1>7. n \in Nat /\ n + b = nSize
    BY <1>2, <1>5
  <1> HIDE DEF n
  <1>20. bc' = b /\ nSize' = n /\ goal' = 0
    BY <1>1 DEF b, n
  <1>6. Within(file, b)
    <2> DEFINE m == file.sector % ClusterSize
    <2>1. m \in 0..(ClusterSize - 1)
      BY <1>2, ClusterFacts
    <2>2. m + left <= ClusterSize
      BY <1>4 DEF Within
    <2>3. m + b <= ClusterSize
      <3> HIDE DEF m
      <3> QED
        BY <1>2, <1>3, <1>5, <2>1, <2>2
    <2> QED
      BY <2>3 DEF Within
  <1>8. In = "readex" /\ In' = "burst"
    BY <1>1 DEF In
  <1>9. Reading /\ ~Storing /\ Reading' /\ ~Storing'
    BY <1>8 DEF Reading, Storing, ReadStates, WriteStates
  <1>10. Quiet /\ g' = g /\ file' = file
    BY <1>1 DEF Quiet
  <1>11. DriveOK' /\ RegistersOK'
    BY <1>1, <1>10, QuietKept DEF TypeOK, DriveOK
  <1>12. ServerOK'
    BY <1>1, <1>5, <1>7, <1>20 DEF TypeOK, ServerOK, ReadStates
  <1>13. Flags'
    BY <1>9, <1>10, FlagsKept
  <1>14. /\ block_count <= FifoSectors /\ block_count <= sector_count /\ lba >= 0
         /\ Len(g.fifo) + nSize <= block_count
    BY <1>8, <1>9 DEF Room
  <1>15. Room'
    <2>1. 0 <= b /\ Len(g.fifo) + n + (b - 0) <= block_count
      BY <1>2, <1>5, <1>7, <1>14
    <2>2. Len(g.fifo) <= FifoSectors
      BY DEF Room
    <2> QED
      BY <1>1, <1>8, <1>9, <1>14, <1>20, <2>1, <2>2 DEF Room
  <1>16. Rest = sector_count - block_count + nSize
         /\ Rest' = sector_count - block_count + n + (b - 0)
    BY <1>1, <1>8, <1>20 DEF Rest
  <1>17. Rest' = Rest
    BY <1>2, <1>5, <1>7, <1>16
  <1>18. ASSUME trusted PROVE Cursor'
    <2>1. ReadsOn
      BY <1>1, <1>2, <1>9, <1>14, <1>16, <1>18, PhaseAt
    <2> DEFINE d == Len(moved) + Len(g.fifo)
    <2>2. d \in Nat /\ Where(d) /\ d + Rest = request.count
      BY <2>1, Numbers DEF ReadsOn
    <2> HIDE DEF d
    <2>3. request.lba + d + Offset + Rest <= size
      BY <1>18, <2>1, <2>2, WithinFile
    <2>4. file.sector = request.lba + d + Offset
      BY <1>1, <1>8, <2>2 DEF Where
    <2>5. file.sector + Rest <= size
      BY <2>3, <2>4
    <2>6. b <= Rest /\ Rest \in Nat
      BY <1>2, <1>5, <1>14, <1>16
    <2>7. file.sector + b <= size
      BY <1>2, <1>5, <2>5, <2>6
    <2> QED
      BY <1>1, <1>18, <1>20, <2>7, Same DEF Cursor, Coherent
  <1>19. ASSUME trusted PROVE Phase'
    <2>1. Offset' = Offset
      BY <1>1, Same
    <2>2. ASSUME NEW d \in Nat, Where(d), d + Rest = request.count PROVE Where(d)'
      <3>1. lba = request.lba + d + nSize /\ file.sector = request.lba + d + Offset
        BY <1>1, <1>8, <2>2 DEF Where
      <3>2. lba = request.lba + d + n + (b - 0)
        <4>1. lba = request.lba + d + (n + b)
          BY <1>7, <3>1
        <4>2. request.lba \in Nat /\ b - 0 = b
          BY <1>2, <1>5
        <4> QED
          BY <1>5, <1>7, <4>1, <4>2
      <3>3. file.sector + 0 = request.lba + d + Offset
        BY <1>2, <3>1
      \* the card has no cursor to read at
      <3>4. type # "card"
        BY <1>1, <1>8, <2>2 DEF Where
      <3> QED
        BY <1>1, <1>6, <1>8, <1>20, <2>1, <3>2, <3>3, <3>4 DEF Where
    <2> QED
      BY <1>8, <1>9, <1>10, <1>17, <1>19, <2>2, ReadingKept
  <1> QED
    BY <1>1, <1>11, <1>12, <1>13, <1>15, <1>18, <1>19 DEF TypeOK

\* A block of a card is read in one go.
LEMMA CardBlockKeeps ==
  ASSUME IInv, CardBlock
  PROVE  IInv'
  <1> USE DEF IInv
  <1>1. /\ pc = "block" /\ nSize # 0 /\ type = "card" /\ bc' = nSize /\ nSize' = 0 /\ goal' = 0
        /\ pc' = "burst"
        /\ UNCHANGED <<type, size, spb, file, lba, sector_count, block_count, back, g,
                       tfr, request, active, moved, trusted>>
    BY DEF CardBlock, disk_vars
  <1>2. /\ lba \in Int /\ sector_count \in Nat /\ block_count \in Nat /\ nSize \in Nat
        /\ Len(g.fifo) \in Nat /\ request.lba \in Nat
    BY Numbers
  <1>3. In = "block" /\ In' = "burst"
    BY <1>1 DEF In
  <1>4. Reading /\ ~Storing /\ Reading' /\ ~Storing'
    BY <1>3 DEF Reading, Storing, ReadStates, WriteStates
  <1>5. Quiet /\ g' = g /\ file' = file
    BY <1>1 DEF Quiet
  <1>6. DriveOK' /\ RegistersOK'
    BY <1>1, <1>5, QuietKept DEF TypeOK, DriveOK
  <1>7. ServerOK'
    BY <1>1, <1>2 DEF TypeOK, ServerOK, ReadStates
  <1>8. Flags'
    BY <1>4, <1>5, FlagsKept
  <1>9. Room'
    <2>1. /\ block_count <= FifoSectors /\ block_count <= sector_count /\ lba >= 0
          /\ Len(g.fifo) + nSize <= block_count /\ Len(g.fifo) <= FifoSectors
      BY <1>3, <1>4 DEF Room
    <2>2. 0 <= nSize /\ Len(g.fifo) + 0 + (nSize - 0) <= block_count
      BY <1>2, <2>1
    <2> QED
      BY <1>1, <1>3, <1>4, <2>1, <2>2 DEF Room
  <1>10. ASSUME trusted PROVE Cursor'
    BY <1>1, <1>10, Same DEF Cursor, Coherent
  <1>11. ASSUME trusted PROVE Phase'
    <2>1. Rest = sector_count - block_count + nSize
          /\ Rest' = sector_count - block_count + 0 + (nSize - 0)
      BY <1>1, <1>3 DEF Rest
    <2>2. Rest' = Rest
      BY <1>2, <2>1
    <2>3. ASSUME NEW d \in Nat, Where(d) PROVE Where(d)'
      <3>1. lba = request.lba + d
        BY <1>3, <2>3 DEF Where
      <3>2. lba + 0 = request.lba + d
        BY <1>2, <3>1
      <3> QED
        BY <1>1, <1>3, <3>2 DEF Where
    <2> QED
      BY <1>3, <1>4, <1>5, <1>11, <2>2, <2>3, ReadingKept
  <1> QED
    BY <1>1, <1>6, <1>7, <1>8, <1>9, <1>10, <1>11 DEF TypeOK

\* The sums of the next sector.
LEMMA NextOfBurst ==
  ASSUME NEW l \in Int, NEW r \in Nat, NEW d \in Nat, NEW n \in Nat, NEW b \in Nat, NEW h \in Nat,
         NEW s \in Nat, NEW o \in Int,
         l = r + d + n + (b - h), s + h = r + d + o
  PROVE  l = r + (d + 1) + n + (b - (h + 1)) /\ s + (h + 1) = r + (d + 1) + o
  OBVIOUS

\* A sector from the card.
LEMMA SendSectorKeeps ==
  ASSUME IInv, SendSector
  PROVE  IInv'
  <1> USE DEF IInv
  <1> DEFINE p == IF type = "card" THEN <<"card", lba + goal>> ELSE At(file, goal)
  <1>1. /\ pc = "burst" /\ goal < bc /\ g' = Push(g, p) /\ goal' = goal + 1
        /\ UNCHANGED <<type, size, spb, file, pc, lba, sector_count, block_count, nSize, bc, back,
                       tfr, request, active, moved, trusted>>
    BY DEF SendSector, disk_vars
  <1>2. /\ lba \in Int /\ sector_count \in Nat /\ block_count \in Nat /\ nSize \in Nat
        /\ bc \in Nat /\ goal \in Nat /\ FifoSectors \in Nat /\ Offset \in Int
        /\ Len(g.fifo) \in Nat /\ request.lba \in Nat /\ file \in [sector : Nat, cluster : Nat]
        /\ file.sector \in Nat
    BY Numbers
  <1>3. p \in Places
    BY <1>2, AtIn, SMTT(30) DEF Places
  <1> HIDE DEF p
  <1>4. In = "burst" /\ In' = "burst"
    BY <1>1 DEF In
  <1>5. Reading /\ ~Storing /\ Reading' /\ ~Storing'
    BY <1>4 DEF Reading, Storing, ReadStates, WriteStates
  <1>6. g' \in Gayle /\ Flags' /\ Len(g'.fifo) \in Nat /\ Len(g'.fifo) <= Len(g.fifo) + 1
    BY <1>1, <1>3, <1>5, Pushed
  <1>7. DriveOK' /\ RegistersOK'
    BY <1>1, <1>6 DEF TypeOK, DriveOK, RegistersOK
  <1>8. ServerOK'
    BY <1>1, <1>2 DEF TypeOK, ServerOK
  <1>9. /\ block_count <= FifoSectors /\ block_count <= sector_count /\ goal <= bc /\ lba >= 0
        /\ Len(g.fifo) + nSize + (bc - goal) <= block_count
    BY <1>4, <1>5 DEF Room
  <1>10. Room'
    <2>1. /\ Len(g'.fifo) <= FifoSectors /\ goal + 1 <= bc
          /\ Len(g'.fifo) + nSize + (bc - (goal + 1)) <= block_count
      BY <1>1, <1>2, <1>6, <1>9
    <2> QED
      BY <1>1, <1>4, <1>5, <1>9, <2>1 DEF Room
  <1>11. ASSUME trusted PROVE Cursor'
    BY <1>1, <1>11, Same DEF Cursor, Coherent
  <1>12. ASSUME trusted PROVE Phase'
    <2>1. Rest = sector_count - block_count + nSize + (bc - goal)
          /\ Rest' = sector_count - block_count + nSize + (bc - (goal + 1))
      BY <1>1, <1>4 DEF Rest
    <2>2. Rest > 0 /\ Rest' = Rest - 1
      BY <1>1, <1>2, <1>9, <2>1
    <2>3. Offset' = Offset
      BY <1>1, Same
    <2>4. ASSUME NEW d \in Nat, Where(d) PROVE Where(d + 1)'
      <3>1. CASE type = "card"
        <4>1. lba + goal = request.lba + d /\ nSize = 0
          BY <1>4, <2>4, <3>1 DEF Where
        <4>2. lba + (goal + 1) = request.lba + (d + 1)
          BY <1>2, <2>4, <4>1
        <4> QED
          BY <1>1, <1>4, <3>1, <4>1, <4>2 DEF Where
      <3>2. CASE type # "card"
        <4>1. /\ lba = request.lba + d + nSize + (bc - goal)
              /\ file.sector + goal = request.lba + d + Offset
              /\ Within(file, bc)
          BY <1>4, <2>4, <3>2 DEF Where
        <4>2. /\ lba = request.lba + (d + 1) + nSize + (bc - (goal + 1))
              /\ file.sector + (goal + 1) = request.lba + (d + 1) + Offset
          <5>1. /\ lba \in Int /\ request.lba \in Nat /\ nSize \in Nat /\ bc \in Nat /\ goal \in Nat
                /\ file.sector \in Nat /\ Offset \in Int
            BY <1>2
          <5>2. lba = request.lba + d + nSize + (bc - goal)
            BY <4>1
          <5>3. file.sector + goal = request.lba + d + Offset
            BY <4>1
          <5>4. d \in Nat
            BY <2>4
          <5> QED
            BY <5>1, <5>2, <5>3, <5>4, NextOfBurst
        <4> QED
          BY <1>1, <1>4, <2>3, <3>2, <4>1, <4>2 DEF Where
      <3> QED
        BY <3>1, <3>2
    <2> QED
      BY <1>1, <1>3, <1>4, <1>5, <1>12, <2>2, <2>4, ReadingPush
  <1> QED
    BY <1>1, <1>6, <1>7, <1>8, <1>10, <1>11, <1>12 DEF TypeOK

\* MMC_ReadMultiple fails within a block.
LEMMA SendFailsKeeps ==
  ASSUME IInv, SendFails
  PROVE  IInv'
  <1> USE DEF IInv
  <1>1. /\ pc = "burst" /\ goal < bc /\ trusted' = FALSE /\ nSize' = 0 /\ pc' = "sent"
        /\ lba' = IF type = "card" THEN lba + bc ELSE lba
        /\ UNCHANGED <<type, size, spb, file, sector_count, block_count, bc, goal, back,
                       g, tfr, request, active, moved>>
    BY DEF SendFails
  <1>2. lba \in Int /\ bc \in Nat
    BY Numbers
  <1>3. In = "burst" /\ In' = "sent"
    BY <1>1 DEF In
  <1>4. Reading /\ ~Storing /\ Reading' /\ ~Storing'
    BY <1>3 DEF Reading, Storing, ReadStates, WriteStates
  <1>5. Quiet /\ g' = g /\ file' = file
    BY <1>1 DEF Quiet
  <1>6. DriveOK' /\ RegistersOK'
    BY <1>1, <1>5, QuietKept DEF TypeOK, DriveOK
  <1>7. lba >= 0
    BY <1>4 DEF Room
  <1>8. lba' \in Int /\ lba' >= 0
    <2>1. lba + bc \in Int /\ lba + bc >= 0
      BY <1>2, <1>7
    <2> QED
      BY <1>1, <1>2, <1>7, <2>1
  <1>9. ServerOK'
    BY <1>1, <1>8 DEF TypeOK, ServerOK, ReadStates
  <1>10. Flags'
    BY <1>4, <1>5, FlagsKept
  <1>11. Room'
    BY <1>1, <1>3, <1>4, <1>8 DEF Room
  <1> QED
    BY <1>1, <1>6, <1>9, <1>10, <1>11 DEF TypeOK

\* The cluster's sectors are sent, and FileReadEx goes on from there.
LEMMA ClusterSentKeeps ==
  ASSUME IInv, ClusterSent
  PROVE  IInv'
  <1> USE DEF IInv
  <1> DEFINE label == [found |-> "readex", failed |-> "sent"]
  <1>1. /\ pc = "burst" /\ goal = bc
        /\ UNCHANGED <<type, size, spb, sector_count, block_count, nSize, bc, g,
                       tfr, request, active, moved, trusted>>
        /\ \/ type = "card" /\ lba' = lba + bc /\ pc' = "sent"
              /\ file' = file /\ goal' = goal /\ back' = back
           \/ type # "card" /\ FileSeek(file, file.sector + bc, label) /\ lba' = lba
    BY DEF ClusterSent, disk_vars
  <1>2. /\ lba \in Int /\ sector_count \in Nat /\ block_count \in Nat /\ nSize \in Nat
        /\ bc \in Nat /\ goal \in Nat /\ Offset \in Int
        /\ request.lba \in Nat /\ file \in [sector : Nat, cluster : Nat]
        /\ file.sector \in Nat /\ size \in Nat
    BY Numbers
  <1>3. In = "burst"
    BY <1>1 DEF In
  <1>4. Reading /\ ~Storing
    BY <1>3 DEF Reading, Storing, ReadStates, WriteStates
  <1>5. Quiet /\ g' = g
    BY <1>1 DEF Quiet
  <1>6. /\ block_count <= FifoSectors /\ block_count <= sector_count /\ lba >= 0
        /\ Len(g.fifo) + nSize + (bc - goal) <= block_count
    BY <1>3, <1>4 DEF Room
  <1>7. bc - goal = 0 /\ Len(g.fifo) + nSize <= block_count
    BY <1>1, <1>2, <1>6, Numbers
  <1>8. Rest = sector_count - block_count + nSize
    <2>1. Rest = sector_count - block_count + nSize + (bc - goal)
      BY <1>3 DEF Rest
    <2> QED
      BY <1>2, <1>7, <2>1
  <1>9. CASE type = "card"
    <2>1. lba' = lba + bc /\ pc' = "sent" /\ file' = file /\ goal' = goal /\ back' = back
      BY <1>1, <1>9
    <2>2. In' = "sent"
      BY <2>1 DEF In
    <2>3. Reading' /\ ~Storing'
      BY <2>2 DEF Reading, Storing, ReadStates, WriteStates
    <2>4. DriveOK' /\ RegistersOK'
      BY <1>1, <1>5, <2>1, QuietKept DEF TypeOK, DriveOK
    <2>5. lba + bc \in Int /\ lba + bc >= 0
      BY <1>2, <1>6
    <2>6. ServerOK'
      BY <1>1, <2>1, <2>5 DEF TypeOK, ServerOK, ReadStates
    <2>7. Flags'
      BY <1>4, <1>5, <2>3, FlagsKept
    <2>8. Room'
      BY <1>1, <1>6, <2>1, <2>2, <2>3, <2>5 DEF Room
    <2>9. ASSUME trusted PROVE nSize = 0
      <3>1. (Waits /\ Rest = 0) \/ ReadsOn
        BY <1>4, <2>9, PhaseAt
      <3>2. CASE Rest = 0
        BY <1>2, <1>6, <1>8, <3>2
      <3>3. CASE ReadsOn
        BY <1>3, <1>9, <3>3 DEF ReadsOn, Where
      <3> QED
        BY <3>1, <3>2, <3>3
    <2>10. ASSUME trusted PROVE Cursor'
      BY <1>1, <2>1, <2>9, <2>10, Same DEF Cursor, Coherent
    <2>11. ASSUME trusted PROVE Phase'
      <3>1. Rest' = sector_count - block_count
        BY <1>1, <2>2 DEF Rest
      <3>2. Rest' = Rest
        BY <1>2, <1>8, <2>9, <2>11, <3>1
      <3>3. ASSUME NEW d \in Nat, Where(d) PROVE Where(d)'
        <4>1. lba + bc = request.lba + d
          BY <1>1, <1>3, <1>9, <3>3 DEF Where
        <4> QED
          BY <1>1, <2>1, <2>2, <4>1 DEF Where
      <3> QED
        BY <1>3, <1>4, <1>5, <2>3, <2>11, <3>2, <3>3, ReadingKept
    <2> QED
      BY <1>1, <2>1, <2>4, <2>6, <2>7, <2>8, <2>10, <2>11 DEF TypeOK
  <1>10. CASE type # "card"
    <2> DEFINE offset == file.sector + bc
    <2>1. FileSeek(file, offset, label) /\ lba' = lba
      BY <1>1, <1>10
    <2>2. label \in Labels /\ label.found = "readex"
      BY DEF Labels
    <2>3. offset \in Nat /\ file.sector <= offset
      BY <1>2
    <2> HIDE DEF label, offset
    <2>4. /\ file' \in [sector : Nat, cluster : Nat] /\ goal' = offset /\ pc' = "seek"
          /\ back' = label /\ In' = "readex"
          /\ (Coherent(file) /\ offset <= size => Cursor')
      BY <1>1, <1>2, <2>1, <2>2, <2>3, FileSeekIs
    <2>5. Reading' /\ ~Storing'
      BY <2>4 DEF Reading, Storing, ReadStates, WriteStates
    <2>6. DriveOK' /\ RegistersOK'
      BY <1>1, <1>5, <2>4, QuietKept DEF TypeOK, DriveOK
    <2>7. ServerOK'
      BY <1>1, <2>1, <2>2, <2>3, <2>4 DEF TypeOK, ServerOK
    <2>8. Flags'
      BY <1>4, <1>5, <2>5, FlagsKept
    <2>9. Room'
      BY <1>1, <1>6, <1>7, <2>1, <2>4, <2>5 DEF Room
    <2>10. ASSUME trusted PROVE Cursor'
      <3>1. Coherent(file) /\ file.sector + bc <= size
        BY <1>1, <1>10, <2>10 DEF Cursor
      <3> QED
        BY <2>4, <3>1 DEF offset
    <2>11. ASSUME trusted PROVE Phase'
      <3>1. Rest' = Rest
        BY <1>1, <1>8, <2>4 DEF Rest
      <3>2. Offset' = Offset
        BY <1>1, Same
      <3>3. ASSUME NEW d \in Nat, Where(d) PROVE Where(d)'
        <4>1. /\ lba = request.lba + d + nSize + (bc - goal)
              /\ file.sector + goal = request.lba + d + Offset
          BY <1>3, <1>10, <3>3 DEF Where
        <4>2. lba = request.lba + d + nSize
          BY <1>2, <1>7, <4>1
        <4>3. offset = request.lba + d + Offset
          BY <1>1, <4>1 DEF offset
        <4> QED
          BY <1>1, <1>10, <2>1, <2>4, <3>2, <4>2, <4>3 DEF Where
      <3> QED
        BY <1>3, <1>4, <1>5, <2>5, <2>11, <3>1, <3>3, ReadingKept
    <2> QED
      BY <1>1, <2>4, <2>6, <2>7, <2>8, <2>9, <2>10, <2>11 DEF TypeOK
  <1> QED
    BY <1>9, <1>10

\* The block is sent.
LEMMA BlockSentKeeps ==
  ASSUME IInv, BlockSent
  PROVE  IInv'
  <1> USE DEF IInv
  <1> DEFINE rest == sector_count - block_count
  <1>1. /\ pc = "sent" \/ (pc \in {"block", "readex"} /\ nSize = 0)
        /\ sector_count' = rest /\ pc' = "read"
        /\ UNCHANGED <<type, size, spb, file, lba, block_count, nSize, bc, goal, back,
                       g, tfr, request, active, moved, trusted>>
    BY DEF BlockSent, disk_vars
  <1>2. In = pc /\ In' = "read"
    BY <1>1 DEF In
  <1>3. Reading /\ ~Storing /\ Reading' /\ ~Storing'
    BY <1>1, <1>2 DEF Reading, Storing, ReadStates, WriteStates
  <1>4. /\ lba \in Int /\ sector_count \in Nat /\ block_count \in Nat /\ nSize \in Nat
        /\ request.lba \in Nat /\ sector_count <= CountRegister /\ CountRegister \in Nat
    BY Numbers
  <1>5. block_count <= sector_count /\ lba >= 0
    BY <1>1, <1>2, <1>3 DEF Room
  <1>6. rest \in 0..CountRegister
    BY <1>4, <1>5
  <1>7. Rest = rest
    BY <1>1, <1>2, <1>4 DEF Rest
  <1> HIDE DEF rest
  <1>8. Quiet /\ g' = g /\ file' = file
    BY <1>1 DEF Quiet
  <1>9. DriveOK' /\ RegistersOK'
    BY <1>1, <1>8, QuietKept DEF TypeOK, DriveOK
  <1>10. ServerOK'
    BY <1>1, <1>6 DEF TypeOK, ServerOK, ReadStates
  <1>11. Flags'
    BY <1>3, <1>8, FlagsKept
  <1>12. Room'
    BY <1>1, <1>2, <1>3, <1>5 DEF Room
  <1>13. ASSUME trusted PROVE Cursor'
    BY <1>1, <1>13, Same DEF Cursor, Coherent
  <1>14. ASSUME trusted PROVE Phase'
    <2>1. Rest' = Rest
      BY <1>1, <1>2, <1>7 DEF Rest
    <2>2. ASSUME NEW d \in Nat, Where(d) PROVE Where(d)'
      <3>1. lba = request.lba + d
        <4>1. CASE pc = "readex"
          <5>1. lba = request.lba + d + nSize /\ nSize = 0
            BY <1>1, <1>2, <2>2, <4>1 DEF Where
          <5> QED
            BY <1>4, <5>1
        <4>2. CASE pc # "readex"
          BY <1>1, <1>2, <2>2, <4>2 DEF Where
        <4> QED
          BY <4>1, <4>2
      <3> QED
        BY <1>1, <1>2, <3>1 DEF Where
    <2> QED
      BY <1>1, <1>2, <1>3, <1>8, <1>14, <2>1, <2>2, ReadingKept
  <1> QED
    BY <1>1, <1>9, <1>10, <1>11, <1>12, <1>13, <1>14 DEF TypeOK

\* ATA_WriteSectors begins: the cursor is sent to the first sector.
LEMMA WriteSectorsKeeps ==
  ASSUME IInv, WriteSectors, GeometryFound
  PROVE  IInv'
  <1> USE DEF IInv
  <1> DEFINE l == request.lba + Offset
             offset == Max({l, 0})
             label == [found |-> "write", failed |-> "write"]
  <1>1. /\ pc = "dispatch" /\ tfr.cmd \in {"write", "writem"} /\ lba' = chs2lba(tfr.chs) + Offset
        /\ sector_count' = SectorCount /\ WriteTaskFile(Advance(tfr.chs, SectorCount))
        /\ g' = Status(g, {"REQ"})
        /\ \/ type = "card" /\ pc' = "write" /\ file' = file /\ goal' = goal /\ back' = back
           \/ type # "card" /\ HardFileSeek(Max({lba', 0}), label)
        /\ UNCHANGED <<type, size, spb, block_count, nSize, bc, request, active, moved, trusted>>
    BY DEF WriteSectors, WriteStatus, disk_vars
  <1>2. /\ trusted /\ Fresh /\ request.cmd = tfr.cmd
        /\ request.count \in 1..CountRegister /\ SectorCount = request.count
        /\ chs2lba(tfr.chs) = request.lba
        /\ Advance(tfr.chs, SectorCount) = ChsOf(LastSector) /\ ChsOf(LastSector) \in ChsSet
    BY <1>1, Dispatched DEF DataCommands
  <1>3. tfr'.cmd = tfr.cmd /\ tfr'.chs = ChsOf(LastSector) /\ tfr'.count = tfr.count
        /\ tfr' \in [cmd : Commands, chs : ChsSet, count : 0..(CountRegister - 1)]
    BY <1>1, <1>2, TaskFileKept DEF TypeOK
  <1>4. request.lba \in Nat /\ request.count \in Nat /\ request.count > 0 /\ Len(moved) \in Nat
        /\ CountRegister \in Nat /\ FifoSectors \in Nat /\ Offset \in Int /\ size \in Nat /\ size > 0
    BY <1>2, Numbers, SMTT(30)
  <1>5. request.lba + request.count + Offset <= size
    BY <1>1, <1>2, RequestFacts DEF TypeOK, DriveOK, DataCommands
  <1>6. l \in Int /\ l < size
    BY <1>4, <1>5
  <1>7. offset \in Nat /\ offset < size
    <2>1. offset = IF l >= 0 THEN l ELSE 0
      BY <1>6, MaxTwo
    <2> QED
      BY <1>4, <1>6, <2>1
  <1>8. lba' = l /\ sector_count' = request.count
    BY <1>1, <1>2
  <1> HIDE DEF l, label
  <1>9. \/ type = "card" /\ pc' = "write" /\ file' = file /\ goal' = goal /\ back' = back
        \/ type # "card" /\ HardFileSeek(offset, label)
    BY <1>1, <1>8
  <1> HIDE DEF offset
  <1>10. label \in Labels /\ label.found = "write"
    BY DEF Labels, label
  <1>11. /\ active /\ moved = <<>> /\ g.fifo = <<>> /\ g.busy /\ ~g.pio_in /\ ~g.pio_out /\ ~g.error
         /\ g.count = request.count % CountRegister /\ (Multiple(request) => spb # 0)
    BY <1>1, <1>2 DEF Fresh, DataCommands
  <1>12. g' \in Gayle /\ g'.busy /\ g'.pio_out /\ ~g'.pio_in /\ ~g'.error /\ g'.count = g.count
         /\ g'.fifo = <<>>
    <2>1. /\ g' \in Gayle
          /\ g'.busy <=> g.busy /\ "END" \notin {"REQ"}
          /\ g'.pio_out <=> (g.pio_out \/ (g.busy /\ "REQ" \in {"REQ"})) /\ ~(g.busy /\ "END" \in {"REQ"})
          /\ g'.error <=> g.error \/ (g.busy /\ "ERR" \in {"REQ"})
          /\ g'.count = g.count /\ g'.fifo = g.fifo
          /\ g'.pio_in <=> (g.pio_in \/ (g.busy /\ "RDY" \in {"REQ"}))
                           /\ (g'.busy \/ g.fifo # <<>> \/ (g'.pio_out /\ g.count # 0))
      BY <1>1, StatusIs DEF TypeOK, RegistersOK
    <2>2. "END" \notin {"REQ"} /\ "REQ" \in {"REQ"} /\ "ERR" \notin {"REQ"} /\ "RDY" \notin {"REQ"}
      OBVIOUS
    <2> QED
      BY <1>11, <2>1, <2>2
  <1>13. /\ file' \in [sector : Nat, cluster : Nat] /\ In' = "write" /\ pc' \in {"write", "seek"}
         /\ goal' \in Nat /\ back' \in Labels /\ (pc' = "seek" => back'.found = "write" /\ goal' = offset)
         /\ (type = "card" \/ pc' = "seek") /\ Cursor'
    <2>1. CASE type = "card"
      <3>1. pc' = "write" /\ file' = file /\ goal' = goal /\ back' = back
        BY <1>9, <2>1
      <3>2. Cursor'
        BY <1>1, <1>2, <3>1, Same DEF Cursor, Coherent
      <3>3. In' = "write"
        BY <3>1 DEF In
      <3> QED
        BY <2>1, <3>1, <3>2, <3>3 DEF TypeOK, DriveOK, ServerOK
    <2>2. CASE type # "card"
      <3>1. HardFileSeek(offset, label)
        BY <1>9, <2>2
      <3>2. Coherent(file)
        BY <1>2 DEF Cursor
      <3>3. /\ file' \in [sector : Nat, cluster : Nat] /\ goal' = offset /\ pc' = "seek"
            /\ back' = label /\ In' = label.found
            /\ size' = size /\ Coherent(file) /\ offset < size => Cursor'
        BY <1>7, <1>10, <3>1, HardFileSeekIs
      <3>4. Cursor'
        BY <1>1, <1>7, <3>2, <3>3
      <3> QED
        BY <1>7, <1>10, <3>3, <3>4
    <2> QED
      BY <2>1, <2>2
  <1>14. Storing' /\ ~Reading'
    BY <1>13 DEF Reading, Storing, ReadStates, WriteStates
  <1>15. DriveOK' /\ RegistersOK'
    BY <1>1, <1>3, <1>12, <1>13 DEF TypeOK, DriveOK, RegistersOK
  <1>16. ServerOK'
    <2>1. sector_count' \in 0..CountRegister
      BY <1>2, <1>4, <1>8
    <2> QED
      BY <1>1, <1>6, <1>8, <1>13, <2>1 DEF TypeOK, ServerOK, WriteStates
  <1>17. Flags'
    BY <1>12, <1>14 DEF Flags
  <1>18. Room'
    <2>1. request.count = IF g.count = 0 THEN CountRegister ELSE g.count
      BY <1>2, <1>11, CountIs
    <2>2. Len(g'.fifo) = 0
      BY <1>12
    <2>3. \/ g'.count = sector_count' - Len(g'.fifo)
          \/ g'.count = 0 /\ g'.fifo = <<>> /\ sector_count' = CountRegister
      BY <1>4, <1>8, <1>12, <2>1, <2>2
    <2>4. /\ Len(g'.fifo) <= FifoSectors /\ block_count' <= FifoSectors /\ sector_count' # 0
          /\ Len(g'.fifo) <= 1 /\ Len(g'.fifo) <= sector_count'
      BY <1>1, <1>4, <1>8, <2>2 DEF Room
    <2> QED
      BY <1>13, <1>14, <2>3, <2>4 DEF Room
  <1>19. Phase'
    <2>1. request' = request /\ moved' = moved /\ active' = active /\ spb' = spb /\ type' = type
      BY <1>1
    <2>2. LastSector' = LastSector /\ ChsOf(LastSector)' = ChsOf(LastSector) /\ Offset' = Offset
      BY <1>1, SameLast, Same
    <2>3. Len(moved) = 0
      BY <1>11
    <2>4. sector_count' = request.count - Len(moved) /\ lba' = request.lba + Offset + Len(moved)
      BY <1>4, <1>8, <2>3 DEF l
    <2>5. offset = Max({lba', 0})
      BY <1>8 DEF offset
    <2>6. Writing(request) /\ tfr'.cmd = request.cmd
      BY <1>1, <1>2, <1>3 DEF Writing
    <2>7. WritesOn'
      BY <1>3, <1>11, <1>12, <1>13, <1>14, <2>1, <2>2, <2>4, <2>5, <2>6 DEF WritesOn, Writing, Multiple
    <2> QED
      BY <2>7 DEF Phase
  <1> QED
    BY <1>1, <1>2, <1>13, <1>15, <1>16, <1>17, <1>18, <1>19 DEF TypeOK

\* The next block to be written.
LEMMA WriteBlockKeeps ==
  ASSUME IInv, WriteBlock
  PROVE  IInv'
  <1> USE DEF IInv
  <1>1. /\ pc = "write" /\ sector_count # 0 /\ block_count' = BlockCount(sector_count) /\ pc' = "full"
        /\ UNCHANGED <<type, size, spb, file, lba, sector_count, nSize, bc, goal, back,
                       g, tfr, request, active, moved, trusted>>
    BY DEF WriteBlock, disk_vars
  <1>2. In = "write" /\ In' = "full"
    BY <1>1 DEF In
  <1>3. ~Reading /\ Storing /\ ~Reading' /\ Storing'
    BY <1>2 DEF Reading, Storing, ReadStates, WriteStates
  <1>4. sector_count \in Nat \ {0}
    BY <1>1, Numbers
  <1>5. block_count' \in Nat /\ block_count' <= FifoSectors /\ block_count' <= sector_count
    BY <1>1, <1>4, BlockFits
  <1>6. Quiet /\ g' = g
    BY <1>1 DEF Quiet
  <1>7. DriveOK' /\ RegistersOK'
    BY <1>1, <1>6, QuietKept DEF TypeOK, DriveOK
  <1>8. ServerOK'
    BY <1>1, <1>5 DEF TypeOK, ServerOK, WriteStates
  <1>9. Flags'
    BY <1>3, <1>6, FlagsKept
  <1>10. Room'
    BY <1>1, <1>2, <1>3, <1>5 DEF Room
  <1>11. ASSUME trusted PROVE Cursor'
    BY <1>1, <1>11, Same DEF Cursor, Coherent
  <1>12. ASSUME trusted PROVE Phase'
    BY <1>1, <1>3, <1>6, <1>12, WritingKept
  <1> QED
    BY <1>1, <1>7, <1>8, <1>9, <1>10, <1>11, <1>12 DEF TypeOK

\* A sector is written where the cursor is, and the cursor goes on with lba.
LEMMA StoreSectorKeeps ==
  ASSUME IInv, StoreSector, GeometryFound
  PROVE  IInv'
  <1> USE DEF IInv
  <1> DEFINE label == [found |-> "full", failed |-> "full"]
             p == IF type = "card" THEN <<"card", lba>> ELSE IF lba < 0 THEN Head(g.fifo) ELSE At(file, 0)
             next == file.sector + 1
  <1>1. /\ pc = "full" /\ block_count # 0 /\ g.pio_out /\ g.fifo # <<>> /\ g' = [g EXCEPT !.fifo = <<>>]
        /\ \/ moved' = Append(moved, p) /\ trusted' = trusted
           \/ moved' = moved /\ ~trusted'
        /\ \/ (type = "card" \/ lba < 0) /\ file' = file /\ goal' = goal /\ back' = back /\ pc' = pc
           \/ type # "card" /\ ~(lba < 0) /\ FileSeek(file, next, label)
        /\ lba' = lba + 1 /\ sector_count' = sector_count - 1 /\ block_count' = block_count - 1
        /\ trusted' \in {trusted, FALSE}
        /\ UNCHANGED <<type, size, spb, nSize, bc, tfr, request, active>>
    BY DEF StoreSector
  <1>2. /\ lba \in Int /\ sector_count \in Nat /\ block_count \in Nat /\ Offset \in Int
        /\ request.lba \in Nat /\ request.count \in Nat /\ Len(moved) \in Nat /\ Len(g.fifo) \in Nat
        /\ FifoSectors \in Nat /\ CountRegister \in Nat /\ sector_count <= CountRegister
        /\ size \in Nat /\ size > 0
    BY Numbers
  <1>3. file.sector \in Nat /\ file \in [sector : Nat, cluster : Nat] /\ next \in Nat /\ file.sector <= next
    <2>1. file.sector \in Nat /\ file \in [sector : Nat, cluster : Nat]
      BY Numbers
    <2> DEFINE s == file.sector
    <2>2. s \in Nat
      BY <2>1
    <2> HIDE DEF s
    <2>3. s + 1 \in Nat /\ s <= s + 1
      BY <2>2
    <2> QED
      BY <2>1, <2>3 DEF s
  <1>4. g \in Gayle /\ moved \in Seq(Places)
    BY DEF TypeOK, DriveOK, RegistersOK
  <1>5. Head(g.fifo) \in Places
    BY <1>1, <1>4 DEF Gayle
  <1>6. p \in Places
    BY <1>2, <1>3, <1>5, AtIn DEF Places
  <1>7. In = "full"
    BY <1>1 DEF In
  <1>8. ~Reading /\ Storing
    BY <1>7 DEF Reading, Storing, ReadStates, WriteStates
  <1>9. g' \in Gayle /\ g'.busy = g.busy /\ g'.pio_out = g.pio_out /\ g'.pio_in = g.pio_in
        /\ g'.error = g.error /\ g'.count = g.count /\ g'.fifo = <<>>
    <2> DEFINE q == <<>>
    <2>1. q \in Seq(Places) /\ g' = [g EXCEPT !.fifo = q]
      BY <1>1
    <2> HIDE DEF q
    <2>2. g' \in Gayle /\ g'.busy = g.busy /\ g'.pio_out = g.pio_out /\ g'.pio_in = g.pio_in
          /\ g'.error = g.error /\ g'.count = g.count /\ g'.fifo = q
      BY <1>4, <2>1 DEF Gayle
    <2> QED
      BY <2>2 DEF q
  <1>10. g.pio_out /\ g.busy /\ ~g.pio_in
    BY <1>8 DEF Flags
  <1>11. /\ Len(g.fifo) = 1 /\ sector_count >= 1 /\ g.count = sector_count - 1
         /\ block_count >= 1 /\ block_count <= sector_count /\ block_count <= FifoSectors
    <2>1. /\ Len(g.fifo) <= 1 /\ Len(g.fifo) <= sector_count /\ g.count = sector_count - Len(g.fifo)
          /\ block_count <= sector_count /\ block_count <= FifoSectors
      BY <1>1, <1>7, <1>8 DEF Room
    <2>2. Len(g.fifo) # 0
      BY <1>1, Numbers
    <2>3. Len(g.fifo) = 1
      <3>1. Len(g.fifo) \in Nat /\ Len(g.fifo) <= 1
        BY <1>2, <2>1
      <3> QED
        BY <2>2, <3>1, SMTT(30)
    <2>4. block_count >= 1
      BY <1>1, <1>2
    <2> QED
      BY <2>1, <2>3, <2>4
  <1> HIDE DEF p, label, next
  <1>12. label \in Labels /\ label.found = "full"
    BY DEF Labels, label
  <1>13. /\ file' \in [sector : Nat, cluster : Nat] /\ In' = "full" /\ pc' \in {"full", "seek"}
         /\ goal' \in Nat /\ back' \in Labels /\ (pc' = "seek" => back'.found = "full")
    <2>1. CASE type = "card" \/ lba < 0
      <3>1. file' = file /\ goal' = goal /\ back' = back /\ pc' = pc
        BY <1>1, <2>1
      <3>2. In' = "full"
        BY <1>1, <3>1 DEF In
      <3> QED
        BY <1>1, <1>3, <3>1, <3>2 DEF TypeOK, ServerOK
    <2>2. CASE ~(type = "card" \/ lba < 0)
      <3>1. FileSeek(file, next, label)
        BY <1>1, <2>2
      <3>2. /\ file' \in [sector : Nat, cluster : Nat] /\ goal' = next /\ pc' = "seek"
            /\ back' = label /\ In' = label.found
        BY <1>3, <1>12, <3>1, FileSeekIs
      <3> QED
        BY <1>3, <1>12, <3>2
    <2> QED
      BY <2>1, <2>2
  <1>14. ~Reading' /\ Storing'
    BY <1>13 DEF Reading, Storing, ReadStates, WriteStates
  <1>15. moved' \in Seq(Places)
    BY <1>1, <1>4, <1>6
  <1>16. DriveOK'
    <2>1. trusted' \in BOOLEAN
      BY <1>1 DEF TypeOK, DriveOK
    <2> QED
      BY <1>1, <1>13, <1>15, <2>1 DEF TypeOK, DriveOK
  <1>17. RegistersOK'
    BY <1>1, <1>9 DEF TypeOK, RegistersOK
  <1>18. ServerOK'
    <2>1. lba + 1 \in Int /\ sector_count - 1 \in 0..CountRegister /\ block_count - 1 \in Nat
      BY <1>2, <1>11
    <2> QED
      BY <1>1, <1>13, <2>1 DEF TypeOK, ServerOK, WriteStates
  <1>19. Flags'
    BY <1>9, <1>10, <1>14 DEF Flags
  <1>20. Room'
    <2>1. Len(g'.fifo) = 0
      BY <1>9
    <2>2. /\ 0 <= FifoSectors /\ block_count - 1 <= FifoSectors /\ block_count - 1 <= sector_count - 1
          /\ 0 <= sector_count - 1 /\ g.count = (sector_count - 1) - 0
      BY <1>2, <1>11
    <2> QED
      BY <1>1, <1>9, <1>13, <1>14, <2>1, <2>2 DEF Room
  <1>21. ASSUME trusted' PROVE WritesOn /\ trusted /\ moved' = Append(moved, p)
         /\ (type # "card" => file.sector = (IF lba >= 0 THEN lba ELSE 0)) /\ lba + sector_count <= size
    <2>1. trusted /\ moved' = Append(moved, p)
      BY <1>1, <1>21 DEF TypeOK, DriveOK
    <2>2. WritesOn
      BY <1>8, <2>1, PhaseAt
    <2>3. type # "card" => file.sector = Max({lba, 0})
      BY <1>1, <1>2, <1>11, <2>2 DEF WritesOn
    <2>4. Max({lba, 0}) = IF lba >= 0 THEN lba ELSE 0
      BY <1>2, MaxTwo
    <2>5. lba + sector_count <= size
      BY <2>1, <2>2, WithinFile
    <2> QED
      BY <2>1, <2>2, <2>3, <2>4, <2>5
  <1>22. ASSUME trusted' PROVE Cursor'
    <2>1. CASE type = "card" \/ lba < 0
      <3>1. file' = file /\ pc' = "full"
        BY <1>1, <2>1
      <3> QED
        BY <1>1, <1>21, <1>22, <3>1, Same DEF Cursor, Coherent
    <2>2. CASE ~(type = "card" \/ lba < 0)
      <3>1. FileSeek(file, next, label)
        BY <1>1, <2>2
      <3>2. Coherent(file) /\ file.sector = lba /\ lba + sector_count <= size
        BY <1>2, <1>21, <1>22, <2>2 DEF Cursor
      <3>3. next <= size
        BY <1>2, <1>11, <3>2 DEF next
      <3>4. (size' = size /\ Coherent(file) /\ (next < size \/ file.sector <= next) /\ next <= size)
                => Cursor'
        BY <1>3, <1>12, <3>1, FileSeekIs
      <3> QED
        BY <1>1, <1>3, <3>2, <3>3, <3>4
    <2> QED
      BY <2>1, <2>2
  <1>23. ASSUME trusted' PROVE Phase'
    <2>1. WritesOn /\ moved' = Append(moved, p)
      BY <1>21, <1>23
    <2>2. LastSector' = LastSector /\ ChsOf(LastSector)' = ChsOf(LastSector) /\ Offset' = Offset
      BY <1>1, SameLast, Same
    <2>3. Len(moved') = Len(moved) + 1
      BY <1>4, <1>6, <2>1
    <2>4. sector_count = request.count - Len(moved) /\ lba = request.lba + Offset + Len(moved)
      BY <2>1 DEF WritesOn
    <2>5. sector_count - 1 = request.count - (Len(moved) + 1)
          /\ lba + 1 = request.lba + Offset + (Len(moved) + 1)
      <3>1. /\ sector_count \in Nat /\ request.count \in Nat /\ Len(moved) \in Nat
            /\ lba \in Int /\ request.lba \in Nat /\ Offset \in Int
        BY <1>2
      <3>2. sector_count = request.count - Len(moved)
        BY <2>4
      <3>3. lba = request.lba + Offset + Len(moved)
        BY <2>4
      <3> DEFINE s == sector_count  c == request.count  m == Len(moved)
                 l == lba  r == request.lba  o == Offset
      <3>4. s \in Nat /\ c \in Nat /\ m \in Nat /\ l \in Int /\ r \in Nat /\ o \in Int
        BY <3>1
      <3>5. s = c - m /\ l = r + o + m
        BY <3>2, <3>3
      <3> HIDE DEF s, c, m, l, r, o
      <3>6. s - 1 = c - (m + 1)
        BY <3>4, <3>5
      <3>7. l + 1 = r + o + (m + 1)
        BY <3>4, <3>5
      <3> QED
        BY <3>6, <3>7 DEF s, c, m, l, r, o
    <2>6. Max({lba + 1, 0}) = IF lba + 1 >= 0 THEN lba + 1 ELSE 0
      BY <1>2, MaxTwo
    <2>7. type # "card" => /\ pc' = "seek" => goal' = Max({lba + 1, 0})
                           /\ pc' # "seek" => file'.sector = Max({lba + 1, 0})
      <3> SUFFICES ASSUME type # "card" PROVE /\ pc' = "seek" => goal' = Max({lba + 1, 0})
                                              /\ pc' # "seek" => file'.sector = Max({lba + 1, 0})
        OBVIOUS
      <3>1. file.sector = IF lba >= 0 THEN lba ELSE 0
        BY <1>21, <1>23
      <3>2. CASE lba < 0
        <4>1. file' = file /\ pc' = "full"
          BY <1>1, <3>2
        <4>2. file.sector = Max({lba + 1, 0})
          BY <1>2, <2>6, <3>1, <3>2
        <4> QED
          BY <4>1, <4>2
      <3>3. CASE ~(lba < 0)
        <4>1. goal' = next /\ pc' = "seek"
          BY <1>1, <3>3 DEF FileSeek
        <4>2. next = Max({lba + 1, 0})
          BY <1>2, <2>6, <3>1, <3>3 DEF next
        <4> QED
          BY <4>1, <4>2
      <3> QED
        BY <3>2, <3>3
    <2>8. sector_count' = request'.count - Len(moved') /\ lba' = request'.lba + Offset' + Len(moved')
      BY <1>1, <2>2, <2>3, <2>5
    <2>9. type' # "card" => /\ pc' = "seek" => goal' = Max({lba', 0})
                            /\ pc' # "seek" => file'.sector = Max({lba', 0})
      BY <1>1, <2>7
    <2>10. ~g'.error /\ active' /\ tfr' = tfr /\ request' = request /\ spb' = spb
      BY <1>1, <1>9, <2>1 DEF WritesOn
    <2>11. WritesOn'
      BY <1>14, <2>1, <2>2, <2>8, <2>9, <2>10 DEF WritesOn, Writing, Multiple
    <2> QED
      BY <2>11 DEF Phase
  <1>24. pc' \notin {"dispatch", "identified"}
    BY <1>13
  <1> QED
    BY <1>16, <1>17, <1>18, <1>19, <1>20, <1>22, <1>23, <1>24 DEF TypeOK

\* A block is written: the next is asked for, or the command ends.
LEMMA BlockStoredKeeps ==
  ASSUME IInv, BlockStored
  PROVE  IInv'
  <1> USE DEF IInv
  <1>1. /\ pc = "full" /\ block_count = 0
        /\ \/ /\ sector_count = 0 /\ g' = Status(g, {"END", "IRQ"}) /\ pc' = "loop"
              /\ lba' = 0 /\ sector_count' = 0 /\ block_count' = 0 /\ nSize' = 0 /\ bc' = 0 /\ goal' = 0
              /\ back' = [found |-> "loop", failed |-> "loop"]
           \/ /\ sector_count # 0 /\ g' = Status(g, {"IRQ"}) /\ pc' = "write"
              /\ UNCHANGED <<lba, sector_count, block_count, nSize, bc, goal, back>>
        /\ UNCHANGED <<type, size, spb, file, tfr, request, active, moved, trusted>>
    BY DEF BlockStored, WriteStatus, Forget, fw_locals, disk_vars
  <1>2. In = "full"
    BY <1>1 DEF In
  <1>3. ~Reading /\ Storing
    BY <1>2 DEF Reading, Storing, ReadStates, WriteStates
  <1>4. g \in Gayle /\ g.pio_out /\ g.busy /\ ~g.pio_in
    BY <1>3 DEF Flags, TypeOK, RegistersOK
  <1>5. type' = type /\ size' = size /\ spb' = spb /\ tfr' = tfr /\ request' = request /\ moved' = moved
        /\ active' = active /\ trusted' = trusted /\ file' = file
    BY <1>1
  <1>6. LastSector' = LastSector /\ ChsOf(LastSector)' = ChsOf(LastSector) /\ Offset' = Offset
    BY <1>5, SameLast, Same
  <1>7. DriveOK'
    BY <1>5 DEF TypeOK, DriveOK
  <1>8. ASSUME trusted PROVE WritesOn
    BY <1>3, <1>8, PhaseAt
  <1>9. sector_count \in Nat /\ Len(g.fifo) \in Nat /\ request.count \in Nat /\ Len(moved) \in Nat
        /\ (g.fifo = <<>> <=> Len(g.fifo) = 0)
    BY Numbers
  <1>10. CASE sector_count = 0
    <2> DEFINE bits == {"END", "IRQ"}
    <2>1. /\ g' = Status(g, bits) /\ pc' = "loop"
          /\ lba' = 0 /\ sector_count' = 0 /\ block_count' = 0 /\ nSize' = 0 /\ bc' = 0 /\ goal' = 0
          /\ back' = [found |-> "loop", failed |-> "loop"]
      BY <1>1, <1>10
    <2>2. "END" \in bits /\ "RDY" \notin bits /\ "REQ" \notin bits /\ "ERR" \notin bits
      OBVIOUS
    <2> HIDE DEF bits
    <2>3. /\ g' \in Gayle /\ ~g'.busy /\ ~g'.pio_out /\ ~g'.pio_in /\ g'.fifo = g.fifo
          /\ (g'.error <=> g.error)
      BY <1>4, <2>1, <2>2, StatusIs
    <2>4. g.fifo = <<>>
      <3>1. Len(g.fifo) <= sector_count
        BY <1>3 DEF Room
      <3> QED
        BY <1>9, <1>10, <3>1
    <2>5. In' = "loop"
      BY <2>1 DEF In
    <2>6. ~Reading' /\ ~Storing'
      BY <2>5 DEF Reading, Storing, ReadStates, WriteStates
    <2>7. ServerOK' /\ RegistersOK'
      BY <1>5, <2>1, <2>3, Numbers DEF TypeOK, ServerOK, RegistersOK, Labels
    <2>8. Flags'
      BY <2>3, <2>4, <2>6 DEF Flags
    <2>9. Room'
      BY <1>9, <2>1, <2>3, <2>4, <2>5, <2>6, Numbers DEF Room
    <2>10. ASSUME trusted PROVE Cursor'
      BY <1>5, <2>1, <2>10, Same DEF Cursor, Coherent
    <2>11. ASSUME trusted PROVE Phase'
      <3>1. WritesOn
        BY <1>8, <2>11
      <3>2. Len(moved) = request.count
        <4>1. sector_count = request.count - Len(moved)
          BY <3>1 DEF WritesOn
        <4> QED
          BY <1>9, <1>10, <4>1
      <3>3. Ended'
        BY <1>5, <1>6, <2>1, <2>3, <2>4, <3>1, <3>2 DEF Ended, WritesOn, Writing
      <3> QED
        BY <3>3 DEF Phase
    <2> QED
      BY <1>5, <1>7, <2>1, <2>7, <2>8, <2>9, <2>10, <2>11 DEF TypeOK
  <1>11. CASE sector_count # 0
    <2> DEFINE bits == {"IRQ"}
    <2>1. /\ g' = Status(g, bits) /\ pc' = "write"
          /\ lba' = lba /\ sector_count' = sector_count /\ block_count' = block_count /\ nSize' = nSize
          /\ bc' = bc /\ goal' = goal /\ back' = back
      BY <1>1, <1>11
    <2>2. "END" \notin bits /\ "RDY" \notin bits /\ "REQ" \notin bits /\ "ERR" \notin bits
      OBVIOUS
    <2> HIDE DEF bits
    <2>3. /\ g' \in Gayle /\ g'.busy /\ g'.pio_out /\ ~g'.pio_in /\ g'.fifo = g.fifo
          /\ (g'.error <=> g.error) /\ g'.count = g.count
      BY <1>4, <2>1, <2>2, StatusIs
    <2>4. In' = "write"
      BY <2>1 DEF In
    <2>5. ~Reading' /\ Storing'
      BY <2>4 DEF Reading, Storing, ReadStates, WriteStates
    <2>6. ServerOK' /\ RegistersOK'
      BY <1>5, <2>1, <2>3 DEF TypeOK, ServerOK, RegistersOK, WriteStates
    <2>7. Flags'
      BY <2>3, <2>5 DEF Flags
    <2>8. Room'
      BY <1>3, <1>11, <2>1, <2>3, <2>4, <2>5 DEF Room
    <2>9. ASSUME trusted PROVE Cursor'
      BY <1>5, <2>1, <2>9, Same DEF Cursor, Coherent
    <2>10. ASSUME trusted PROVE Phase'
      <3>1. WritesOn
        BY <1>8, <2>10
      <3>2. WritesOn'
        BY <1>1, <1>5, <1>6, <2>1, <2>3, <2>5, <3>1 DEF WritesOn, Writing, Multiple
      <3> QED
        BY <3>2 DEF Phase
    <2> QED
      BY <1>5, <1>7, <2>1, <2>6, <2>7, <2>8, <2>9, <2>10 DEF TypeOK
  <1> QED
    BY <1>10, <1>11

-----------------------------------------------------------------------------
\* The host's steps

\* A new command: the one before has left Gayle idle and its FIFO empty.
LEMMA HostAskKeeps ==
  ASSUME IInv, NEW r \in RequestsTo(type, size), HostAsk(r)
  PROVE  IInv'
  <1> USE DEF IInv
  <1> DEFINE n == IF r.cmd = "multiple" THEN r.lba
                  ELSE IF r.cmd = "identify" THEN 0 ELSE r.count % CountRegister
             t == [cmd |-> r.cmd, chs |-> ChsOf(r.lba), count |-> n]
             g1 == [g EXCEPT !.busy = TRUE]
             g2 == [g1 EXCEPT !.fifo = <<>>]
             g3 == [g2 EXCEPT !.error = FALSE]
             g4 == [g3 EXCEPT !.intreq = FALSE]
             g5 == [g4 EXCEPT !.count = n]
  <1>1. /\ ~active /\ ~g.busy /\ ~Drq(g) /\ trusted /\ (Multiple(r) => spb # 0)
        /\ request' = r /\ active' = TRUE /\ moved' = <<>> /\ tfr' = t
        /\ g' = [g EXCEPT !.busy = TRUE, !.fifo = <<>>, !.error = FALSE, !.intreq = FALSE,
                          !.count = tfr'.count]
        /\ type' = type /\ size' = size /\ spb' = spb /\ file' = file /\ trusted' = trusted /\ pc' = pc
        /\ lba' = lba /\ sector_count' = sector_count /\ block_count' = block_count /\ nSize' = nSize
        /\ bc' = bc /\ goal' = goal /\ back' = back
    BY DEF HostAsk, fw_vars, fw_locals
  <1>2. t.count = n /\ t.cmd = r.cmd /\ t.chs = ChsOf(r.lba)
    OBVIOUS
  <1>3. g' = g5
    BY <1>1, <1>2
  <1>4. type \in Kinds /\ size \in Sizes
    BY DEF TypeOK, DriveOK
  <1>5. /\ r.lba \in Nat /\ r.count \in 0..CountRegister /\ r.cmd \in Commands
        /\ r.cmd = "multiple" => r.lba = MaxMultiple
    BY <1>4, RequestFacts
  <1>6. ChsOf(r.lba) \in ChsSet
    BY <1>4, <1>5, ShapeFacts, ChsBack
  <1>7. n \in 0..(CountRegister - 1)
    <2>1. CountRegister \in Nat \ {0} /\ MaxMultiple \in Nat /\ MaxMultiple < CountRegister
      BY IdeServerAssumption
    <2>2. r.count \in Nat
      BY <1>5, <2>1
    <2>3. r.count % CountRegister \in 0..(CountRegister - 1)
      BY <2>1, <2>2, DivMod
    <2> QED
      BY <1>5, <2>1, <2>3
  <1>8. n = IF r.cmd = "multiple" THEN r.lba
            ELSE IF r.cmd = "identify" THEN 0 ELSE r.count % CountRegister
    OBVIOUS
  <1> HIDE DEF n
  <1>9. t \in [cmd : Commands, chs : ChsSet, count : 0..(CountRegister - 1)]
    BY <1>5, <1>6, <1>7
  <1> HIDE DEF t, g1, g2, g3, g4, g5
  <1>10. g \in Gayle
    BY DEF TypeOK, RegistersOK
  <1>11. g1 \in Gayle /\ g1.busy = TRUE /\ g1.pio_in = g.pio_in /\ g1.pio_out = g.pio_out
    BY <1>10 DEF Gayle, g1
  <1>12. g2 \in Gayle /\ g2.busy = TRUE /\ g2.pio_in = g.pio_in /\ g2.pio_out = g.pio_out /\ g2.fifo = <<>>
    <2> DEFINE q == <<>>
    <2>1. q \in Seq(Places) /\ g2 = [g1 EXCEPT !.fifo = q]
      BY DEF g2
    <2> HIDE DEF q
    <2>2. g2 \in Gayle /\ g2.busy = TRUE /\ g2.pio_in = g.pio_in /\ g2.pio_out = g.pio_out /\ g2.fifo = q
      BY <1>11, <2>1 DEF Gayle
    <2> QED
      BY <2>2 DEF q
  <1>13. g3 \in Gayle /\ g3.busy = TRUE /\ g3.pio_in = g.pio_in /\ g3.pio_out = g.pio_out /\ g3.fifo = <<>>
         /\ g3.error = FALSE
    BY <1>12 DEF Gayle, g3
  <1>14. g4 \in Gayle /\ g4.busy = TRUE /\ g4.pio_in = g.pio_in /\ g4.pio_out = g.pio_out /\ g4.fifo = <<>>
         /\ g4.error = FALSE /\ g4.intreq = FALSE
    BY <1>13 DEF Gayle, g4
  <1>15. g5 \in Gayle /\ g5.busy = TRUE /\ g5.pio_in = g.pio_in /\ g5.pio_out = g.pio_out /\ g5.fifo = <<>>
         /\ g5.error = FALSE /\ g5.intreq = FALSE /\ g5.count = n
    BY <1>7, <1>14 DEF Gayle, g5
  <1>16. Rest \in Nat /\ Len(moved) \in Nat /\ Len(g.fifo) \in Nat /\ request.count \in Nat
         /\ (g.fifo = <<>> <=> Len(g.fifo) = 0)
    BY Numbers, RestIs
  <1>17. g.fifo = <<>> /\ ~g.pio_out /\ (pc = "loop" \/ (Reading /\ Rest = 0))
    <2>1. ReadsOn \/ Identifies \/ Ended
      BY <1>1 DEF Phase, Waits, Fresh, WritesOn
    <2>2. CASE ReadsOn
      <3>1. ~(Len(moved) < request.count) /\ Len(moved) + Len(g.fifo) + Rest = request.count
            /\ ~g.pio_out /\ (Reading \/ pc = "loop")
        BY <1>1, <2>2 DEF ReadsOn
      <3>2. Len(g.fifo) = 0 /\ Rest = 0
        BY <1>16, <3>1
      <3> QED
        BY <1>16, <3>1, <3>2
    <2>3. CASE Identifies
      BY <1>1, <2>3 DEF Identifies
    <2>4. CASE Ended
      BY <2>4 DEF Ended
    <2> QED
      BY <2>1, <2>2, <2>3, <2>4
  <1>18. ~g.pio_in
    BY <1>1, <1>17 DEF Flags
  <1>19. In' = In /\ (Reading' <=> Reading) /\ (Storing' <=> Storing)
    BY <1>1 DEF In, Reading, Storing
  <1>20. ~Storing
    BY <1>17 DEF Flags
  <1>21. DriveOK'
    <2>1. request' \in RequestsTo(type', size')
      BY <1>1
    <2>2. moved' \in Seq(Places)
      BY <1>1
    <2> QED
      BY <1>1, <2>1, <2>2 DEF TypeOK, DriveOK
  <1>22. RegistersOK'
    BY <1>1, <1>3, <1>9, <1>15 DEF RegistersOK
  <1>23. ServerOK'
    BY <1>1 DEF TypeOK, ServerOK
  <1>24. Flags'
    BY <1>3, <1>15, <1>17, <1>18, <1>19, <1>20 DEF Flags
  <1>25. Room'
    <2>1. Len(g'.fifo) = 0 /\ Len(g.fifo) = 0
      BY <1>3, <1>15, <1>16, <1>17
    <2> QED
      BY <1>1, <1>17, <1>19, <1>20, <2>1 DEF Room
  <1>26. Cursor'
    BY <1>1, Same DEF Cursor, Coherent
  <1>27. Phase'
    <2>1. Rest' = Rest
      BY <1>1, <1>19 DEF Rest
    <2>2. ChsOf(request.lba)' = ChsOf(r.lba)
      BY <1>1, Same DEF ChsOf
    <2>3. tfr'.cmd = r.cmd /\ tfr'.chs = ChsOf(r.lba) /\ tfr'.count = n
      BY <1>1, <1>2
    <2>4. /\ r.cmd \in DataCommands => n = r.count % CountRegister
          /\ r.cmd = "multiple" => n = MaxMultiple
          /\ r.cmd = "identify" => n = 0
      BY <1>5, <1>8 DEF DataCommands
    <2>5. Fresh'
      BY <1>1, <1>3, <1>15, <1>17, <1>18, <2>2, <2>3, <2>4 DEF Fresh, Multiple
    <2>6. Waits'
      BY <1>1, <1>17, <1>19, <2>1, <2>5 DEF Waits
    <2> QED
      BY <2>6 DEF Phase
  <1> QED
    BY <1>1, <1>21, <1>22, <1>23, <1>24, <1>25, <1>26, <1>27 DEF TypeOK

\* Steps of the host that leave the server where it is.
LEMMA ServerKept ==
  ASSUME IInv, UNCHANGED <<type, size, spb, file, fw_vars, tfr, request, trusted>>,
         moved' \in Seq(Places), active' \in BOOLEAN, g' \in Gayle
  PROVE  /\ TypeOK' /\ In' = In /\ Rest' = Rest /\ (Reading' <=> Reading) /\ (Storing' <=> Storing)
         /\ LastSector' = LastSector /\ ChsOf(LastSector)' = ChsOf(LastSector) /\ Offset' = Offset
         /\ trusted => Cursor'
         /\ \A d \in Nat : Where(d) => Where(d)'
  <1> USE DEF IInv
  <1>1. /\ type' = type /\ size' = size /\ spb' = spb /\ file' = file /\ trusted' = trusted /\ pc' = pc
        /\ lba' = lba /\ sector_count' = sector_count /\ block_count' = block_count /\ nSize' = nSize
        /\ bc' = bc /\ goal' = goal /\ back' = back /\ tfr' = tfr /\ request' = request
    BY DEF fw_vars, fw_locals
  <1>2. In' = In
    BY <1>1 DEF In
  <1>3. TypeOK'
    BY <1>1 DEF TypeOK, DriveOK, ServerOK, RegistersOK
  <1>4. Rest' = Rest
    BY <1>1, <1>2 DEF Rest
  <1>5. LastSector' = LastSector /\ ChsOf(LastSector)' = ChsOf(LastSector) /\ Offset' = Offset
    BY <1>1, SameLast, Same
  <1>6. trusted => Cursor'
    BY <1>1, Same DEF Cursor, Coherent
  <1>7. ASSUME NEW d \in Nat, Where(d) PROVE Where(d)'
    BY <1>1, <1>2, <1>5, <1>7 DEF Where
  <1> QED
    BY <1>2, <1>3, <1>4, <1>5, <1>6, <1>7 DEF Reading, Storing

\* The driver takes the interrupt, and takes a command for over only when it is.
LEMMA HostIrqKeeps ==
  ASSUME IInv, HostIrq
  PROVE  IInv'
  <1> USE DEF IInv
  <1> DEFINE over == g.error \/ request.count = 0 \/ (Writing(request) /\ ~g.busy)
  <1>1. /\ active /\ g.intreq /\ g' = [g EXCEPT !.intreq = FALSE] /\ active' = ~over
        /\ UNCHANGED <<type, size, spb, file, fw_vars, tfr, request, moved, trusted>>
    BY DEF HostIrq
  <1>2. active' \in BOOLEAN /\ (active' <=> ~over)
    BY <1>1
  <1> HIDE DEF over
  <1>3. /\ type' = type /\ size' = size /\ spb' = spb /\ file' = file /\ trusted' = trusted /\ pc' = pc
        /\ lba' = lba /\ sector_count' = sector_count /\ block_count' = block_count /\ nSize' = nSize
        /\ bc' = bc /\ goal' = goal /\ back' = back /\ tfr' = tfr /\ request' = request /\ moved' = moved
    BY <1>1 DEF fw_vars, fw_locals
  <1>4. g' \in Gayle /\ g'.busy = g.busy /\ g'.pio_in = g.pio_in /\ g'.pio_out = g.pio_out
        /\ g'.error = g.error /\ g'.count = g.count /\ g'.fifo = g.fifo
    BY <1>1 DEF Gayle, TypeOK, RegistersOK
  <1>5. moved' \in Seq(Places)
    BY <1>3 DEF TypeOK, DriveOK
  <1>6. /\ TypeOK' /\ In' = In /\ Rest' = Rest /\ (Reading' <=> Reading) /\ (Storing' <=> Storing)
        /\ LastSector' = LastSector /\ ChsOf(LastSector)' = ChsOf(LastSector) /\ Offset' = Offset
        /\ trusted => Cursor'
        /\ \A d \in Nat : Where(d) => Where(d)'
    BY <1>1, <1>2, <1>4, <1>5, ServerKept
  <1>7. Flags'
    BY <1>4, <1>6 DEF Flags
  <1>8. Room'
    BY <1>3, <1>4, <1>6 DEF Room
  <1>9. ASSUME trusted PROVE Phase'
    <2>1. Len(moved) + Len(g.fifo) \in Nat
      BY Numbers
    <2>2. (ReadsOn \/ WritesOn \/ Identifies) \/ Ended
      BY <1>1, <1>9 DEF Phase, Waits, Fresh
    <2>3. CASE ReadsOn \/ WritesOn \/ Identifies
      <3>1. ~over
        <4>1. CASE ReadsOn
          <5>1. request.cmd \in {"read", "readm"} /\ ~g.error
            BY <4>1 DEF ReadsOn
          <5>2. request.count # 0
            BY <5>1, RequestFacts DEF TypeOK, DriveOK, DataCommands
          <5> QED
            BY <5>1, <5>2 DEF over, Writing
        <4>2. CASE WritesOn
          <5>1. Writing(request) /\ ~g.error /\ g.busy
            BY <4>2 DEF WritesOn, Flags
          <5>2. request.count # 0
            BY <5>1, RequestFacts DEF TypeOK, DriveOK, DataCommands, Writing
          <5> QED
            BY <5>1, <5>2 DEF over
        <4>3. CASE Identifies
          <5>1. request.cmd = "identify" /\ ~g.error
            BY <4>3 DEF Identifies
          <5>2. request.count = 1
            BY <5>1, RequestFacts DEF TypeOK, DriveOK
          <5> QED
            BY <5>1, <5>2 DEF over, Writing
        <4> QED
          BY <2>3, <4>1, <4>2, <4>3
      <3>2. active' /\ active
        BY <1>1, <1>2, <3>1
      <3>3. ReadsOn => ReadsOn'
        <4> SUFFICES ASSUME ReadsOn PROVE ReadsOn'
          OBVIOUS
        <4> DEFINE d == Len(moved) + Len(g.fifo)
        <4>1. Where(d) /\ d' = d
          BY <1>3, <1>4 DEF ReadsOn
        <4>2. Where(d)'
          <5> HIDE DEF d
          <5>1. PICK e \in Nat : e = d
            BY <2>1 DEF d
          <5>2. Where(e)'
            BY <1>6, <4>1, <5>1
          <5> QED
            BY <4>1, <5>1, <5>2
        <4> QED
          BY <1>3, <1>4, <1>6, <3>2, <4>1, <4>2 DEF ReadsOn, Multiple
      <3>4. WritesOn => WritesOn'
        BY <1>3, <1>4, <1>6, <3>2 DEF WritesOn, Writing, Multiple
      <3>5. Identifies => Identifies'
        BY <1>3, <1>4, <1>6, <3>2 DEF Identifies
      <3> QED
        BY <2>3, <3>3, <3>4, <3>5 DEF Phase
    <2>4. CASE Ended
      <3>1. Ended'
        BY <1>3, <1>4, <1>6, <2>4 DEF Ended, Writing
      <3> QED
        BY <3>1 DEF Phase
    <2> QED
      BY <2>2, <2>3, <2>4
  <1> QED
    BY <1>3, <1>6, <1>7, <1>8, <1>9

\* The driver writes a sector.
LEMMA HostWriteKeeps ==
  ASSUME IInv, HostWrite
  PROVE  IInv'
  <1> USE DEF IInv
  <1> DEFINE p == PlaceOf(request, request.lba + request.count - g.count)
             q == <<p>>
             n == g.count - 1
  <1>1. /\ active /\ g.pio_out /\ Drq(g) /\ g' = [g EXCEPT !.fifo = q, !.count = n]
        /\ UNCHANGED <<type, size, spb, file, fw_vars, tfr, request, active, moved, trusted>>
    BY DEF HostWrite, disk_vars
  <1>2. Storing /\ ~Reading
    BY <1>1 DEF Flags, Storing, Reading, ReadStates, WriteStates
  <1>3. ~g.pio_in /\ g.fifo = <<>> /\ g.count # 0
    BY <1>1 DEF Drq, Flags
  <1>4. g \in Gayle /\ g.count \in 0..(CountRegister - 1) /\ CountRegister \in Nat
    BY IdeServerAssumption DEF TypeOK, RegistersOK, Gayle
  <1>5. request.lba \in Nat /\ request.count \in Nat /\ sector_count \in Nat
    BY Numbers
  <1>6. request.lba + request.count - g.count \in Int
    BY <1>4, <1>5
  <1>7. p \in Places
    BY <1>6, PlaceIn DEF TypeOK, DriveOK
  <1>8. q \in Seq(Places) /\ Len(q) = 1 /\ q # <<>>
    BY <1>7
  <1>9. n \in 0..(CountRegister - 1)
    BY <1>3, <1>4
  <1> HIDE DEF p, q
  <1>10. g' \in Gayle /\ g'.busy = g.busy /\ g'.pio_in = g.pio_in /\ g'.pio_out = g.pio_out
         /\ g'.error = g.error /\ g'.count = n /\ g'.fifo = q
    <2> DEFINE a == [g EXCEPT !.fifo = q]
               b == [a EXCEPT !.count = n]
    <2>1. g' = b
      BY <1>1
    <2> HIDE DEF a, b, n
    <2>2. a \in Gayle /\ a.busy = g.busy /\ a.pio_in = g.pio_in /\ a.pio_out = g.pio_out
          /\ a.error = g.error /\ a.fifo = q
      BY <1>4, <1>8 DEF Gayle, a
    <2>3. b \in Gayle /\ b.busy = g.busy /\ b.pio_in = g.pio_in /\ b.pio_out = g.pio_out
          /\ b.error = g.error /\ b.count = n /\ b.fifo = q
      BY <1>9, <2>2 DEF Gayle, b
    <2> QED
      BY <2>1, <2>3
  <1>11. /\ type' = type /\ size' = size /\ spb' = spb /\ file' = file /\ trusted' = trusted /\ pc' = pc
         /\ lba' = lba /\ sector_count' = sector_count /\ block_count' = block_count /\ nSize' = nSize
         /\ bc' = bc /\ goal' = goal /\ back' = back /\ tfr' = tfr /\ request' = request /\ moved' = moved
         /\ active' = active
    BY <1>1 DEF fw_vars, fw_locals
  <1>12. moved' \in Seq(Places) /\ active' \in BOOLEAN
    BY <1>11 DEF TypeOK, DriveOK
  <1>13. /\ TypeOK' /\ In' = In /\ Rest' = Rest /\ (Reading' <=> Reading) /\ (Storing' <=> Storing)
         /\ LastSector' = LastSector /\ ChsOf(LastSector)' = ChsOf(LastSector) /\ Offset' = Offset
         /\ trusted => Cursor'
         /\ \A d \in Nat : Where(d) => Where(d)'
    BY <1>1, <1>10, <1>12, ServerKept
  <1>14. Flags'
    BY <1>1, <1>2, <1>3, <1>8, <1>10, <1>13 DEF Flags
  <1>15. g.count = sector_count /\ FifoSectors >= 1
    <2>1. g.count = sector_count - Len(g.fifo) /\ Len(g.fifo) = 0
      BY <1>2, <1>3 DEF Room
    <2> QED
      BY <1>5, <2>1, Numbers
  <1>16. Room'
    <2>1. 1 <= sector_count /\ n = sector_count - 1
      BY <1>3, <1>5, <1>15
    <2>2. Len(g'.fifo) = 1 /\ g'.count = n
      BY <1>8, <1>10
    <2> HIDE DEF n
    <2>3. In \in WriteStates
      BY <1>2 DEF Storing
    <2>4. /\ In = "full" => block_count <= sector_count
          /\ In = "write" => sector_count # 0
          /\ block_count <= FifoSectors
      BY DEF Room
    <2>5. g'.count = sector_count' - Len(g'.fifo)
      BY <1>11, <2>1, <2>2
    <2> QED
      BY <1>2, <1>11, <1>13, <1>15, <2>1, <2>2, <2>3, <2>4, <2>5 DEF Room, WriteStates
  <1>17. ASSUME trusted PROVE Phase'
    <2>1. WritesOn
      BY <1>2, <1>17, PhaseAt
    <2>2. WritesOn'
      BY <1>10, <1>11, <1>13, <2>1 DEF WritesOn, Writing, Multiple
    <2> QED
      BY <2>2 DEF Phase
  <1> QED
    BY <1>11, <1>13, <1>14, <1>16, <1>17

\* What is left of a transfer and the count register, when one more has moved.
LEMMA CountDown ==
  ASSUME NEW a \in 1..CountRegister
  PROVE  /\ ((a % CountRegister) - 1) % CountRegister = (a - 1) % CountRegister
         /\ a % CountRegister = 1 <=> a = 1
  <1> DEFINE c == CountRegister
  <1>1. c \in Nat \ {0} /\ c > 1 /\ a \in Nat \ {0} /\ a <= c
    BY IdeServerAssumption
  <1> HIDE DEF c
  <1>2. CASE a = c
    <2>1. a % c = 0
      <3>1. a = (c * 1) + 0
        BY <1>1, <1>2
      <3> QED
        BY <1>1, <3>1, DivUnique
    <2>2. (0 - 1) % c = c - 1
      BY <1>1
    <2>3. (a - 1) % c = c - 1
      <3>1. a - 1 = (c * 0) + (c - 1) /\ c - 1 \in 0..(c - 1) /\ a - 1 \in Nat
        BY <1>1, <1>2
      <3> QED
        BY <1>1, <3>1, DivUnique
    <2> QED
      BY <1>1, <1>2, <2>1, <2>2, <2>3 DEF c
  <1>3. CASE a # c
    <2>1. a % c = a
      <3>1. a = (c * 0) + a /\ a \in 0..(c - 1)
        BY <1>1, <1>3
      <3> QED
        BY <1>1, <3>1, DivUnique
    <2> QED
      BY <2>1 DEF c
  <1> QED
    BY <1>2, <1>3

\* The driver reads a sector, and Gayle ends the command with the last.
LEMMA HostReadKeeps ==
  ASSUME IInv, HostRead
  PROVE  IInv'
  <1> USE DEF IInv
  <1> DEFINE m == Append(moved, Head(g.fifo))
  <1>1. /\ active /\ g.pio_in /\ Drq(g) /\ moved' = m /\ g' = Pop(g)
        /\ active' = (Len(moved') < request.count)
        /\ UNCHANGED <<type, size, spb, file, fw_vars, tfr, request, trusted>>
    BY DEF HostRead
  <1>2. ~g.pio_out /\ g.fifo # <<>> /\ g \in Gayle /\ moved \in Seq(Places)
    BY <1>1 DEF Drq, Flags, TypeOK, RegistersOK, DriveOK
  <1>3. /\ Head(g.fifo) \in Places /\ Len(Tail(g.fifo)) = Len(g.fifo) - 1 /\ Len(g.fifo) \in Nat
        /\ (Tail(g.fifo) = <<>> <=> Len(g.fifo) = 1) /\ Len(g.fifo) >= 1
    <2>1. g.fifo \in Seq(Places) /\ g.fifo # <<>>
      BY <1>2 DEF Gayle
    <2> DEFINE s == g.fifo
    <2>2. s \in Seq(Places) /\ s # <<>>
      BY <2>1
    <2> HIDE DEF s
    <2>3. Head(s) \in Places /\ Tail(s) \in Seq(Places) /\ Len(Tail(s)) = Len(s) - 1 /\ Len(s) \in Nat
      BY <2>2
    <2>4. Len(s) # 0
      BY <2>2
    <2>5. Tail(s) = <<>> <=> Len(Tail(s)) = 0
      <3> DEFINE t == Tail(s)
      <3>1. t \in Seq(Places)
        BY <2>3
      <3> HIDE DEF t
      <3>2. t = <<>> <=> Len(t) = 0
        BY <3>1
      <3> QED
        BY <3>2 DEF t
    <2>6. Tail(s) = <<>> <=> Len(s) = 1
      BY <2>3, <2>5
    <2> QED
      BY <2>3, <2>4, <2>6 DEF s
  <1>4. m \in Seq(Places) /\ Len(m) = Len(moved) + 1 /\ Len(moved) \in Nat
    BY <1>2, <1>3
  <1> HIDE DEF m
  <1>5. /\ g' \in Gayle
        /\ (g'.busy <=> g.busy /\ g.count # 1)
        /\ ~g'.pio_out /\ (g'.error <=> g.error)
        /\ g'.count = (g.count - 1) % CountRegister /\ g'.fifo = Tail(g.fifo)
        /\ (g'.pio_in <=> g'.busy \/ g'.fifo # <<>>)
    <2>1. LET p == Pop(g) IN
         /\ p \in Gayle
         /\ p.busy <=> g.busy /\ g.count # 1
         /\ p.pio_out = g.pio_out /\ p.error = g.error
         /\ p.count = (g.count - 1) % CountRegister /\ p.fifo = Tail(g.fifo)
         /\ p.pio_in <=> g.pio_in /\ (p.busy \/ p.fifo # <<>> \/ (g.pio_out /\ p.count # 0))
      BY <1>2, PopIs
    <2> QED
      BY <1>1, <1>2, <2>1
  <1>6. /\ type' = type /\ size' = size /\ spb' = spb /\ file' = file /\ trusted' = trusted /\ pc' = pc
        /\ lba' = lba /\ sector_count' = sector_count /\ block_count' = block_count /\ nSize' = nSize
        /\ bc' = bc /\ goal' = goal /\ back' = back /\ tfr' = tfr /\ request' = request /\ moved' = m
    BY <1>1 DEF fw_vars, fw_locals
  <1>7. moved' \in Seq(Places) /\ active' \in BOOLEAN /\ (active' <=> Len(m) < request.count)
    <2> DEFINE b == Len(m) < request.count
    <2>1. active' = b
      BY <1>1
    <2>2. b \in BOOLEAN
      OBVIOUS
    <2> HIDE DEF b
    <2>3. active' \in BOOLEAN /\ (active' <=> b)
      BY <2>1, <2>2
    <2> QED
      BY <1>4, <1>6, <2>3 DEF b
  <1>8. /\ TypeOK' /\ In' = In /\ Rest' = Rest /\ (Reading' <=> Reading) /\ (Storing' <=> Storing)
        /\ LastSector' = LastSector /\ ChsOf(LastSector)' = ChsOf(LastSector) /\ Offset' = Offset
        /\ trusted => Cursor'
        /\ \A d \in Nat : Where(d) => Where(d)'
    BY <1>1, <1>5, <1>7, ServerKept
  <1>9. ~Storing
    BY <1>2 DEF Flags
  <1>10. Len(g'.fifo) = Len(g.fifo) - 1
    BY <1>3, <1>5
  <1>11. Flags'
    BY <1>5, <1>8, <1>9 DEF Flags
  <1>12. Room'
    <2>1. /\ Len(g.fifo) <= FifoSectors
          /\ In \in {"block", "patch", "readex"} => Len(g.fifo) + nSize <= block_count
          /\ In = "burst" => Len(g.fifo) + nSize + (bc - goal) <= block_count
      BY DEF Room
    <2>2. nSize \in Nat /\ bc \in Nat /\ goal \in Nat /\ block_count \in Nat /\ FifoSectors \in Nat
          /\ Len(g.fifo) \in Nat
      BY Numbers
    <2>3. /\ Len(g.fifo) - 1 <= FifoSectors
          /\ In \in {"block", "patch", "readex"} => (Len(g.fifo) - 1) + nSize <= block_count
          /\ In = "burst" => (Len(g.fifo) - 1) + nSize + (bc - goal) <= block_count
      BY <2>1, <2>2
    <2> QED
      BY <1>6, <1>8, <1>9, <1>10, <2>3 DEF Room
  <1>13. ASSUME trusted PROVE Phase'
    <2>1. request.count \in 0..CountRegister
      BY RequestFacts DEF TypeOK, DriveOK
    <2>2. Len(moved') + Len(g'.fifo) = Len(moved) + Len(g.fifo)
      BY <1>3, <1>4, <1>6, <1>10, SMTT(30)
    <2>3. ReadsOn \/ Identifies
      <3>1. ~WritesOn
        BY <1>9 DEF WritesOn
      <3>2. ~Waits /\ ~Ended
        BY <1>2 DEF Waits, Fresh, Ended
      <3> QED
        BY <1>13, <3>1, <3>2 DEF Phase
    <2>4. CASE ReadsOn
      <3> DEFINE d == Len(moved) + Len(g.fifo)
                 a == request.count - Len(moved)
      <3>1. /\ d + Rest = request.count /\ g.count = a % CountRegister
            /\ Len(moved) < request.count /\ g.busy /\ Where(d)
        BY <1>1, <2>4 DEF ReadsOn
      <3>2. a \in 1..CountRegister
        <4>1. request.count \in 0..CountRegister /\ CountRegister \in Nat /\ Len(moved) \in Nat
          BY <1>4, <2>1, Numbers
        <4>2. Len(moved) < request.count
          BY <3>1
        <4> QED
          BY <4>1, <4>2
      <3>3. g'.count = (a - 1) % CountRegister /\ (g.count = 1 <=> a = 1)
        <4> HIDE DEF a
        <4> QED
          BY <1>5, <3>1, <3>2, CountDown
      <3>4. a - 1 = request.count - (Len(moved) + 1) /\ (a = 1 <=> ~(Len(moved) + 1 < request.count))
        <4>1. request.count \in Nat /\ Len(moved) \in Nat
          BY <1>4, <2>1, Numbers
        <4>2. Len(moved) < request.count
          BY <3>1
        <4> QED
          BY <4>1, <4>2
      <3>5. g'.count = (request.count - Len(m)) % CountRegister
        BY <1>4, <3>3, <3>4
      <3>6. (active' <=> Len(moved') < request'.count) /\ (g'.busy <=> active')
        BY <1>4, <1>5, <1>6, <1>7, <3>1, <3>3, <3>4
      <3>7. d' = d
        BY <2>2
      <3>8. Where(d)'
        <4> HIDE DEF d
        <4>1. PICK e \in Nat : e = d
          BY <1>3, <1>4 DEF d
        <4>2. Where(e)'
          BY <1>8, <3>1, <4>1
        <4> QED
          BY <3>7, <4>1, <4>2
      <3>9. active' => g'.pio_in
        BY <1>5, <3>6
      <3>10. d' + Rest' = request'.count
        BY <1>6, <1>8, <3>1, <3>7
      <3>11. /\ ~g'.pio_out /\ ~g'.error
             /\ g'.count = (request'.count - Len(moved')) % CountRegister
        BY <1>5, <1>6, <2>4, <3>5 DEF ReadsOn
      <3>12. /\ Reading' \/ pc' = "loop"
             /\ request'.cmd \in {"read", "readm"} /\ tfr'.cmd = request'.cmd
             /\ tfr'.chs = ChsOf(LastSector)'
             /\ Multiple(request') => spb' # 0
        BY <1>6, <1>8, <2>4 DEF ReadsOn, Multiple
      <3>13. ReadsOn'
        BY <3>6, <3>8, <3>9, <3>10, <3>11, <3>12 DEF ReadsOn
      <3> QED
        BY <3>13 DEF Phase
    <2>5. CASE Identifies
      <3>1. Len(g.fifo) = 1 /\ Len(moved) = 0 /\ g.count = 0 /\ request.cmd = "identify"
            /\ Len(moved) + Len(g.fifo) = 1
        BY <1>1, <1>3, <1>4, <2>5 DEF Identifies
      <3>2. g'.fifo = <<>> /\ Len(m) = 1
        BY <1>3, <1>4, <1>5, <3>1
      <3>3. request.count = 1
        BY <3>1, RequestFacts DEF TypeOK, DriveOK
      <3>4. ~active'
        BY <1>7, <3>2, <3>3
      <3>5. (g'.busy <=> g.busy) /\ (g'.pio_in <=> g'.busy)
        <4>1. g.count # 1
          BY <3>1
        <4> QED
          BY <1>5, <3>2, <4>1
      <3>6. ~g'.error
        BY <1>5, <2>5 DEF Identifies
      <3>7. \/ pc' = "identified" /\ g'.busy /\ g'.pio_in
            \/ pc' = "loop" /\ ~g'.busy /\ (g'.pio_in <=> g'.fifo # <<>>)
        BY <1>6, <2>5, <3>2, <3>5 DEF Identifies
      <3>8. Len(moved') + Len(g'.fifo) = 1
        BY <2>2, <3>1
      <3>9. Identifies'
        BY <1>5, <1>6, <3>1, <3>2, <3>4, <3>6, <3>7, <3>8 DEF Identifies
      <3> QED
        BY <3>9 DEF Phase
    <2> QED
      BY <2>3, <2>4, <2>5
  <1> QED
    BY <1>6, <1>8, <1>11, <1>12, <1>13

-----------------------------------------------------------------------------
\* The invariant

\* What nobody changes keeps.
LEMMA StutterKeeps ==
  ASSUME IInv, UNCHANGED vars
  PROVE  IInv'
  <1> USE DEF IInv
  <1>1. /\ g' = g /\ moved' = moved /\ active' = active
        /\ UNCHANGED <<type, size, spb, file, fw_vars, tfr, request, trusted>>
    BY DEF vars, disk_vars
  <1>2. moved' \in Seq(Places) /\ active' \in BOOLEAN /\ g' \in Gayle
    BY <1>1 DEF TypeOK, DriveOK, RegistersOK
  <1>3. /\ TypeOK' /\ In' = In /\ Rest' = Rest /\ (Reading' <=> Reading) /\ (Storing' <=> Storing)
        /\ LastSector' = LastSector /\ ChsOf(LastSector)' = ChsOf(LastSector) /\ Offset' = Offset
        /\ trusted => Cursor'
        /\ \A d \in Nat : Where(d) => Where(d)'
    BY <1>1, <1>2, ServerKept
  <1>4. /\ type' = type /\ size' = size /\ spb' = spb /\ file' = file /\ trusted' = trusted /\ pc' = pc
        /\ lba' = lba /\ sector_count' = sector_count /\ block_count' = block_count /\ nSize' = nSize
        /\ bc' = bc /\ goal' = goal /\ back' = back /\ tfr' = tfr /\ request' = request
    BY <1>1 DEF fw_vars, fw_locals
  <1>5. Flags'
    BY <1>1, <1>3 DEF Flags
  <1>6. Room'
    BY <1>1, <1>3, <1>4 DEF Room
  <1>7. ASSUME trusted PROVE Phase'
    <2>1. Waits => Waits'
      <3>1. ChsOf(request.lba)' = ChsOf(request.lba)
        BY <1>4, Same DEF ChsOf
      <3>2. Fresh => Fresh'
        BY <1>1, <1>4, <3>1 DEF Fresh, Multiple
      <3> QED
        BY <1>3, <1>4, <3>2 DEF Waits
    <2>2. ReadsOn => ReadsOn'
      <3> SUFFICES ASSUME ReadsOn PROVE ReadsOn'
        OBVIOUS
      <3> DEFINE d == Len(moved) + Len(g.fifo)
      <3>1. Where(d) /\ d' = d /\ d \in Nat
        BY <1>1, Numbers DEF ReadsOn
      <3>2. Where(d)'
        <4> HIDE DEF d
        <4>1. PICK e \in Nat : e = d
          BY <3>1
        <4>2. Where(e)'
          BY <1>3, <3>1, <4>1
        <4> QED
          BY <3>1, <4>1, <4>2
      <3> QED
        BY <1>1, <1>3, <1>4, <3>1, <3>2 DEF ReadsOn, Multiple
    <2>3. WritesOn => WritesOn'
      BY <1>1, <1>3, <1>4 DEF WritesOn, Writing, Multiple
    <2>4. Identifies => Identifies'
      BY <1>1, <1>4 DEF Identifies
    <2>5. Ended => Ended'
      BY <1>1, <1>3, <1>4 DEF Ended, Writing
    <2> QED
      BY <1>7, <2>1, <2>2, <2>3, <2>4, <2>5 DEF Phase
  <1> QED
    BY <1>3, <1>4, <1>5, <1>6, <1>7

\* After BuildHardfileIndex the cursor is at the index's last entry, and nothing is asked.
LEMMA InitHolds ==
  ASSUME Init
  PROVE  IInv
  <1> USE DEF Init
  <1>1. size \in Nat /\ size > 0 /\ type \in Kinds /\ size \in Sizes
    BY IdeServerAssumption
  <1>2. Heads \in Nat \ {0} /\ Sectors \in Nat \ {0}
    BY <1>1, ShapeFacts
  <1>3. 0 \in Nat /\ ChsOf(0) \in ChsSet
    BY <1>2, ChsBack
  <1>4. file \in [sector : Nat, cluster : Nat] /\ file.sector < size
        /\ file.cluster = ClusterOf(file.sector) + 1
    <2>1. CASE type = "card"
      <3>1. file = [sector |-> 0, cluster |-> 1]
        BY <2>1
      <3>2. ClusterOf(0) = 0
        BY IdeServerAssumption DEF ClusterOf
      <3> QED
        BY <1>1, <3>1, <3>2
    <2>2. CASE type # "card"
      <3> DEFINE i == (size - 1) \div IndexStep
                 s == i * IndexStep
      <3>1. file = [sector |-> s, cluster |-> index(i)]
        BY <2>2 DEF Indexed
      <3>2. s \in Nat /\ s < size
        <4>1. IndexStep \in Nat \ {0} /\ size - 1 \in Nat
          BY <1>1, IdeServerAssumption
        <4>2. /\ size - 1 = (IndexStep * i) + ((size - 1) % IndexStep) /\ i \in Nat
              /\ (size - 1) % IndexStep \in 0..(IndexStep - 1)
          BY <4>1, DivMod
        <4> DEFINE r == (size - 1) % IndexStep
        <4>3. IndexStep * i = s /\ s \in Nat
          <5>1. i \in Nat /\ s = i * IndexStep
            BY <4>2
          <5> HIDE DEF s, i
          <5> QED
            BY <4>1, <5>1
        <4>4. s \in Nat
          BY <4>3
        <4>5. r \in Nat /\ size - 1 = s + r
          BY <4>1, <4>2, <4>3
        <4> HIDE DEF s, r, i
        <4> QED
          BY <1>1, <4>4, <4>5
      <3>3. index(i) = ClusterOf(s) + 1
        BY DEF index, ClusterOf
      <3> HIDE DEF s, i
      <3>4. ClusterOf(s) \in Nat
        BY <3>2, ClusterFacts
      <3> QED
        BY <3>1, <3>2, <3>3, <3>4
    <2> QED
      BY <2>1, <2>2
  <1>5. In = "loop" /\ ~Reading /\ ~Storing
    BY DEF In, Reading, Storing, ReadStates, WriteStates
  <1>6. request \in RequestsTo(type, size)
    BY DEF RequestsTo
  <1>7. DriveOK
    <2>1. moved \in Seq(Places)
      OBVIOUS
    <2> QED
      BY <1>1, <1>4, <1>6, <2>1 DEF DriveOK
  <1>8. ServerOK
    BY IdeServerAssumption DEF ServerOK, Labels
  <1>9. RegistersOK
    <2>1. 0 \in 0..(CountRegister - 1)
      BY IdeServerAssumption
    <2>2. g \in Gayle
      <3> DEFINE q == <<>>
      <3>1. q \in Seq(Places)
        OBVIOUS
      <3>2. g = [busy |-> FALSE, pio_in |-> FALSE, pio_out |-> FALSE, error |-> FALSE,
                 mark |-> FALSE, intreq |-> FALSE, count |-> 0, fifo |-> q]
        OBVIOUS
      <3> HIDE DEF q
      <3> QED
        BY <2>1, <3>1, <3>2 DEF Gayle
    <2>3. tfr \in [cmd : Commands, chs : ChsSet, count : 0..(CountRegister - 1)]
      BY <1>3, <2>1 DEF Commands, OtherCommands
    <2> QED
      BY <2>2, <2>3 DEF RegistersOK
  <1>10. Flags
    BY <1>5 DEF Flags
  <1>11. Room
    <2>1. Len(g.fifo) = 0 /\ FifoSectors \in Nat
      BY IdeServerAssumption
    <2> QED
      BY <1>5, <2>1 DEF Room
  <1>12. Cursor
    <2>1. ClusterOf(file.sector) + 1 <= Clusters
      BY <1>1, <1>4, ClustersOf
    <2> QED
      BY <1>4, <2>1 DEF Cursor, Coherent
  <1>13. Phase
    <2>1. Len(moved) = request.count
      OBVIOUS
    <2>2. Ended
      BY <2>1 DEF Ended, Writing
    <2> QED
      BY <2>2 DEF Phase
  <1> QED
    BY <1>7, <1>8, <1>9, <1>10, <1>11, <1>12, <1>13 DEF IInv, TypeOK

\* No step breaks the invariant.
LEMMA StepKeeps ==
  ASSUME IInv, [Next]_vars, GeometryFound
  PROVE  IInv'
  <1>1. CASE Host
    BY <1>1, HostAskKeeps, HostIrqKeeps, HostReadKeeps, HostWriteKeeps DEF Host
  <1>2. CASE Server
    BY <1>2, PollKeeps, NoDataKeeps, IdentifyDeviceKeeps, IdentifyEndsKeeps,
       SeekLinkKeeps, SeekFailsKeeps, SeekDoneKeeps,
       ReadSectorsKeeps, ReadBlockKeeps, ReadEndsKeeps, BufferEmptyKeeps,
       SendRDBKeeps, SeekPatchedKeeps, SendPatchedKeeps, SeekBlockKeeps,
       ReadClusterKeeps, CardBlockKeeps, SendSectorKeeps, SendFailsKeeps, ClusterSentKeeps,
       BlockSentKeeps, WriteSectorsKeeps, WriteBlockKeeps, StoreSectorKeeps, BlockStoredKeeps
    DEF Server
  <1>3. CASE UNCHANGED vars
    BY <1>3, StutterKeeps
  <1> QED
    BY <1>1, <1>2, <1>3 DEF Next

\* The invariant holds of every drive that has a geometry, with any block size,
\* any number of links in a sector of the FAT and any stretch of the index,
\* whether the card fails or not.
THEOREM Invariant ==
  ASSUME GeometryFound
  PROVE  Spec => []IInv
  <1>1. Init => IInv
    BY InitHolds
  <1>2. IInv /\ [Next]_vars => IInv'
    BY StepKeeps
  <1> QED
    BY <1>1, <1>2, PTL DEF Spec

-----------------------------------------------------------------------------
\* What follows at once

\* The FIFO never holds more than its memory: SPIFIFO's writes are not refused
\* when it is full (gayle_fifo.v), so the waits of hdd.c before each block have
\* to make room for all of it, also when the card fails within a block.
THEOREM FifoFitsHolds ==
  ASSUME GeometryFound
  PROVE  Spec => []FifoFits
  <1>1. IInv => FifoFits
    BY DEF IInv, Room, FifoFits
  <1> QED
    BY <1>1, Invariant, PTL

\* When a transfer is over the task file holds the address of its last sector,
\* as ATA_ReadSectors and ATA_WriteSectors put it there before they began.
THEOREM EndAddressHolds ==
  ASSUME GeometryFound
  PROVE  Spec => []EndAddress
  <1>1. ASSUME IInv PROVE EndAddress
    <2> SUFFICES ASSUME pc = "loop", ~active, trusted, request.cmd \in DataCommands
                 PROVE  chs2lba(tfr.chs) = request.lba + request.count - 1
      BY DEF EndAddress
    <2>1. In = "loop"
      BY DEF In
    <2>2. ~Storing
      BY <2>1 DEF Storing, WriteStates
    <2>3. ReadsOn \/ Ended
      BY <1>1, <2>2 DEF IInv, Phase, Waits, Fresh, WritesOn, Identifies, DataCommands
    <2>4. tfr.chs = ChsOf(LastSector)
      BY <2>3 DEF ReadsOn, Ended, Writing, DataCommands
    <2>5. request.lba \in Nat /\ request.count \in Nat /\ Heads \in Nat \ {0} /\ Sectors \in Nat \ {0}
      BY <1>1, Numbers, ShapeFacts DEF IInv, TypeOK, DriveOK
    <2>6. request.count # 0
      BY <1>1, RequestFacts DEF IInv, TypeOK, DriveOK
    <2>7. LastSector \in Nat
      BY <2>5, <2>6 DEF LastSector
    <2>8. chs2lba(tfr.chs) = LastSector
      BY <2>4, <2>5, <2>7, ChsBack
    <2> QED
      BY <2>8 DEF LastSector
  <1> QED
    BY <1>1, Invariant, PTL

\* The cursor, when no file fills its last cluster.
LEMMA CoherentIs ==
  ASSUME IInv, trusted, PartlyFilled
  PROVE  file.cluster = ClusterOf(file.sector) + 1 /\ file.cluster # EOC
  <1>1. size \in Sizes /\ file.sector \in Nat
    BY Numbers DEF IInv, TypeOK, DriveOK
  <1>2. ClusterOf(file.sector) + 1 <= Clusters /\ file.cluster = ClusterOf(file.sector) + 1
    BY <1>1 DEF IInv, Cursor, Coherent, PartlyFilled
  <1>3. Clusters \in Nat /\ ClusterOf(file.sector) \in Nat
    BY <1>1, ClustersOf, ClusterFacts
  <1> QED
    BY <1>2, <1>3 DEF EOC

\* The cursor's cluster is the one its sector is in: FileSeek's way back, the
\* index of HardFileSeek and every link followed agree on that.
THEOREM CursorCoherentHolds ==
  ASSUME GeometryFound, PartlyFilled
  PROVE  Spec => []CursorCoherent
  <1>1. IInv => CursorCoherent
    BY CoherentIs DEF CursorCoherent
  <1> QED
    BY <1>1, Invariant, PTL

-----------------------------------------------------------------------------
\* What the FIFO holds

\* Where the card is read or written, when the cursor can be trusted.
LEMMA AtCursor ==
  ASSUME IInv, trusted, PartlyFilled, NEW k \in Nat, (file.sector % ClusterSize) + k < ClusterSize
  PROVE  At(file, k) = <<"file", file.sector + k>>
  <1> DEFINE c == ClusterOf(file.sector)
             m == file.sector % ClusterSize
  <1>1. file.sector \in Nat /\ ClusterSize \in Nat
    BY Numbers DEF IInv
  <1>2. c \in Nat /\ m \in Nat /\ file.sector = ClusterSize * c + m
    <2>1. c \in Nat /\ m \in 0..(ClusterSize - 1)
      BY <1>1, ClusterFacts
    <2>2. file.sector = ClusterSize * c + m
      BY <1>1, ClusterFacts
    <2> HIDE DEF c, m
    <2>3. m \in Nat
      BY <1>1, <2>1
    <2> QED
      BY <2>1, <2>2, <2>3
  <1>3. file.cluster = c + 1 /\ file.cluster # EOC
    BY CoherentIs
  <1>4. At(file, k) = <<"file", (file.cluster - 1) * ClusterSize + m + k>>
    <2>1. ~(m + k >= ClusterSize)
      BY <1>1, <1>2
    <2> QED
      BY <1>3, <2>1 DEF At
  <1> HIDE DEF c, m
  <1>5. (file.cluster - 1) * ClusterSize = ClusterSize * c
    <2>1. file.cluster - 1 = c
      BY <1>2, <1>3
    <2> QED
      BY <1>1, <1>2, <2>1
  <1>6. (file.cluster - 1) * ClusterSize + m + k = file.sector + k
    BY <1>2, <1>5
  <1> QED
    BY <1>4, <1>6

\* The place of a sector of the hardfile, by where it is in the file.
LEMMA PlaceIs ==
  ASSUME IInv, NEW l \in Int, request.cmd # "identify"
  PROVE  /\ type = "card" => PlaceOf(request, l) = <<"card", l>>
         /\ type # "card" /\ l + Offset >= 0 => PlaceOf(request, l) = <<"file", l + Offset>>
         /\ type = "synth" /\ l + Offset < 0 => PlaceOf(request, l) = <<"rdb", l>>
  <1> DEFINE rdb == Geo[request.kind][request.size].heads * Geo[request.kind][request.size].sectors
  <1>1. request.kind = type /\ request.size = size /\ type \in Kinds /\ size \in Sizes
    BY RequestFacts DEF IInv, TypeOK, DriveOK
  <1>2. Offset \in Int /\ (type # "synth" => Offset = 0) /\ (type = "synth" => Offset = 0 - rdb)
    BY <1>1, ShapeFacts
  <1>3. PlaceOf(request, l) = IF request.kind # "synth" THEN <<request.kind, l>>
                              ELSE IF l < rdb THEN <<"rdb", l>> ELSE <<"file", l - rdb>>
    BY DEF PlaceOf
  <1>4. rdb \in Int
    BY <1>1, ShapeFacts DEF Heads, Sectors
  <1>5. type \in {"file", "synth", "card"}
    BY <1>1, IdeServerAssumption
  <1> HIDE DEF rdb
  <1>6. CASE type = "synth"
    <2>1. (l < rdb <=> l + Offset < 0) /\ l - rdb = l + Offset
      BY <1>2, <1>4, <1>6
    <2> QED
      BY <1>1, <1>2, <1>3, <1>4, <1>6, <2>1
  <1>7. CASE type # "synth"
    <2>1. l + Offset = l
      BY <1>2, <1>7
    <2> QED
      BY <1>1, <1>3, <1>5, <1>7, <2>1
  <1> QED
    BY <1>6, <1>7

\* A sector that goes into the FIFO is the next of those asked for.
LEMMA PushContent ==
  ASSUME IInv, trusted, InFifo, ReadsOn, active, In # "read", NEW p \in Places, g' = Push(g, p),
         request' = request, moved' = moved,
         p = PlaceOf(request, request.lba + (Len(moved) + Len(g.fifo)))
  PROVE  InFifo'
  <1>1. g.pio_in
    BY DEF ReadsOn
  <1>2. g'.fifo = Append(g.fifo, p)
    BY <1>1, PushIs, ZenonT(30) DEF IInv, TypeOK, RegistersOK
  <1>3. g.fifo \in Seq(Places) /\ Len(g.fifo) \in Nat /\ Len(moved) \in Nat /\ request.lba \in Nat
    BY Numbers DEF IInv, TypeOK, RegistersOK, Gayle
  <1>4. Len(g'.fifo) = Len(g.fifo) + 1
    BY <1>2, <1>3
  <1>5. ASSUME NEW i \in 1..(Len(g.fifo) + 1)
        PROVE  g'.fifo[i] = PlaceOf(request, request.lba + Len(moved) + i - 1)
    <2>1. CASE i = Len(g.fifo) + 1
      <3>1. g'.fifo[i] = p
        BY <1>2, <1>3, <2>1
      <3>2. request.lba + Len(moved) + i - 1 = request.lba + (Len(moved) + Len(g.fifo))
        BY <1>3, <2>1
      <3> QED
        BY <3>1, <3>2
    <2>2. CASE i # Len(g.fifo) + 1
      <3>1. i \in 1..Len(g.fifo)
        BY <1>3, <1>5, <2>2
      <3> DEFINE f == g.fifo
      <3>2. f \in Seq(Places) /\ i \in 1..Len(f)
        BY <1>3, <3>1
      <3> HIDE DEF f
      <3>3. Append(f, p)[i] = f[i]
        BY <3>2
      <3>4. g'.fifo[i] = g.fifo[i]
        BY <1>2, <3>3 DEF f
      <3> QED
        BY <3>1, <3>4 DEF InFifo
    <2> QED
      BY <2>1, <2>2
  <1> QED
    BY <1>4, <1>5 DEF InFifo

\* Who leaves the FIFO alone leaves its content.
LEMMA SameContent ==
  ASSUME InFifo, request' = request, moved' = moved, g'.fifo = g.fifo
  PROVE  InFifo'
  BY DEF InFifo

\* An empty FIFO holds nothing wrong.
LEMMA EmptyContent ==
  ASSUME g'.fifo = <<>>
  PROVE  InFifo'
  BY DEF InFifo

\* WriteStatus leaves the FIFO alone.
LEMMA StatusFifo ==
  ASSUME IInv, NEW bits, g' = Status(g, bits)
  PROVE  g'.fifo = g.fifo
  BY StatusIs DEF IInv, TypeOK, RegistersOK

\* What a command that is being read has in front of it.
LEMMA ReadsAt ==
  ASSUME IInv, trusted, Reading, In # "read", Rest > 0
  PROVE  /\ ReadsOn /\ active /\ request.cmd # "identify"
         /\ Len(moved) + Len(g.fifo) \in Nat /\ Where(Len(moved) + Len(g.fifo))
         /\ request.lba + (Len(moved) + Len(g.fifo)) \in Int
  <1>1. Rest \in Nat /\ Len(moved) \in Nat /\ Len(g.fifo) \in Nat /\ request.count \in Nat /\ request.lba \in Nat
    BY Numbers, RestIs DEF IInv
  <1>2. ReadsOn
    BY <1>1, PhaseAt
  <1>3. Len(moved) + Len(g.fifo) + Rest = request.count /\ (active <=> Len(moved) < request.count)
    BY <1>2 DEF ReadsOn
  <1>4. active
    BY <1>1, <1>3
  <1> QED
    BY <1>1, <1>2, <1>4 DEF ReadsOn

\* A block of our RDB has its place in front of the file.
LEMMA SendRDBContent ==
  ASSUME IInv, InFifo, trusted, SendRDB
  PROVE  InFifo'
  <1> DEFINE d == Len(moved) + Len(g.fifo)
             p == <<"rdb", lba>>
  <1>1. pc = "block" /\ nSize # 0 /\ MadeUp /\ g' = Push(g, p) /\ request' = request /\ moved' = moved
    BY DEF SendRDB, disk_vars
  <1>2. In = "block" /\ Reading
    BY <1>1 DEF In, Reading, ReadStates
  <1>3. Rest > 0
    <2>1. /\ block_count <= sector_count /\ Rest = sector_count - block_count + nSize
          /\ block_count \in Nat /\ sector_count \in Nat /\ nSize \in Nat
      BY <1>2, RestIs, Numbers DEF IInv
    <2> QED
      BY <1>1, <2>1
  <1>4. ReadsOn /\ active /\ request.cmd # "identify" /\ Where(d) /\ request.lba + d \in Int
    BY <1>2, <1>3, ReadsAt
  <1>5. lba = request.lba + d
    BY <1>2, <1>4 DEF Where
  <1>6. type = "synth" /\ lba + Offset < 0
    BY <1>1 DEF MadeUp
  <1>7. p = PlaceOf(request, request.lba + d)
    BY <1>4, <1>5, <1>6, PlaceIs
  <1>8. p \in Places
    BY <1>4, <1>5 DEF Places
  <1> HIDE DEF p
  <1> QED
    BY <1>1, <1>2, <1>4, <1>7, <1>8, PushContent

\* The patched sector is sector 0 of the file.
LEMMA SendPatchedContent ==
  ASSUME IInv, InFifo, trusted, trusted', SendPatched, PartlyFilled
  PROVE  InFifo'
  <1> DEFINE d == Len(moved) + Len(g.fifo)
             p == At(file, 0)
  <1>1. pc = "patch" /\ g' = Push(g, p) /\ request' = request /\ moved' = moved
    BY DEF SendPatched
  <1>2. In = "patch" /\ Reading
    BY <1>1 DEF In, Reading, ReadStates
  <1>3. Rest > 0
    <2>1. /\ block_count <= sector_count /\ Rest = sector_count - block_count + nSize
          /\ block_count \in Nat /\ sector_count \in Nat /\ nSize \in Nat
      BY <1>2, RestIs, Numbers DEF IInv
    <2>2. nSize # 0
      BY <1>2 DEF IInv, Room
    <2> QED
      BY <2>1, <2>2
  <1>4. ReadsOn /\ active /\ request.cmd # "identify" /\ Where(d) /\ request.lba + d \in Int
    BY <1>2, <1>3, ReadsAt
  <1>5. type = "file" /\ request.lba + d = 0 /\ file.sector = 0
    BY <1>1, <1>2, <1>4 DEF Where
  <1>6. Offset = 0
    BY <1>5, ShapeFacts DEF IInv, TypeOK, DriveOK
  <1>7. p = <<"file", 0>>
    <2>1. (file.sector % ClusterSize) + 0 < ClusterSize /\ file.sector + 0 = 0
      BY <1>5, IdeServerAssumption
    <2> QED
      BY <2>1, AtCursor
  <1>8. p = PlaceOf(request, request.lba + d)
    <2> HIDE DEF d, p
    <2>1. (request.lba + d) + Offset = 0 /\ 0 >= 0
      BY <1>5, <1>6
    <2> QED
      BY <1>4, <1>5, <1>7, <2>1, PlaceIs
  <1>9. p \in Places
    BY <1>7 DEF Places
  <1> HIDE DEF p
  <1> QED
    BY <1>1, <1>2, <1>4, <1>8, <1>9, PushContent

\* The sector read is the next one: FileReadEx stays within the cursor's cluster.
LEMMA SendSectorContent ==
  ASSUME IInv, InFifo, trusted, SendSector, PartlyFilled
  PROVE  InFifo'
  <1> DEFINE d == Len(moved) + Len(g.fifo)
             p == IF type = "card" THEN <<"card", lba + goal>> ELSE At(file, goal)
             l == request.lba + d
  <1>1. pc = "burst" /\ goal < bc /\ g' = Push(g, p) /\ request' = request /\ moved' = moved
    BY DEF SendSector, disk_vars
  <1>2. In = "burst" /\ Reading
    BY <1>1 DEF In, Reading, ReadStates
  <1>3. /\ block_count \in Nat /\ sector_count \in Nat /\ nSize \in Nat /\ bc \in Nat /\ goal \in Nat
        /\ file.sector \in Nat /\ Offset \in Int /\ ClusterSize \in Nat
    BY Numbers DEF IInv
  <1>4. Rest > 0
    <2>1. /\ block_count <= sector_count /\ Rest = sector_count - block_count + nSize + (bc - goal)
      BY <1>2, RestIs DEF IInv
    <2> QED
      BY <1>1, <1>3, <2>1
  <1>5. ReadsOn /\ active /\ request.cmd # "identify" /\ Where(d) /\ l \in Int
    BY <1>2, <1>4, ReadsAt
  <1>6. p = PlaceOf(request, l) /\ p \in Places
    <2>1. CASE type = "card"
      <3>1. lba + goal = l
        BY <1>2, <1>5, <2>1 DEF Where
      <3> HIDE DEF l
      <3>2. p = <<"card", l>>
        BY <2>1, <3>1
      <3>3. p \in Places
        BY <1>5, <3>2 DEF Places
      <3> QED
        BY <1>5, <2>1, <3>2, <3>3, PlaceIs
    <2>2. CASE type # "card"
      <3>1. file.sector + goal = request.lba + d + Offset /\ (file.sector % ClusterSize) + bc <= ClusterSize
        BY <1>2, <1>5, <2>2 DEF Where, Within
      <3>2. (file.sector % ClusterSize) + goal < ClusterSize
        <4> DEFINE m == file.sector % ClusterSize
        <4>1. m \in 0..(ClusterSize - 1)
          BY <1>3, ClusterFacts
        <4> HIDE DEF m
        <4>2. m + bc <= ClusterSize
          BY <3>1 DEF m
        <4>3. m + goal < ClusterSize
          BY <1>1, <1>3, <4>1, <4>2
        <4> QED
          BY <4>3 DEF m
      <3>3. p = <<"file", file.sector + goal>>
        BY <1>3, <2>2, <3>2, AtCursor
      <3>4. file.sector + goal = l + Offset /\ l + Offset >= 0 /\ file.sector + goal \in Int
        <4>1. file.sector + goal = l + Offset
          BY <3>1
        <4>2. file.sector + goal \in Int /\ file.sector + goal >= 0
          BY <1>3
        <4> HIDE DEF l
        <4> QED
          BY <4>1, <4>2
      <3> HIDE DEF l, p
      <3>5. p \in Places
        BY <3>3, <3>4 DEF Places
      <3>6. p = PlaceOf(request, l)
        BY <1>5, <2>2, <3>3, <3>4, PlaceIs
      <3> QED
        BY <3>5, <3>6
    <2> QED
      BY <2>1, <2>2
  <1> HIDE DEF p
  <1> QED
    BY <1>1, <1>2, <1>5, <1>6, PushContent

\* IDENTIFY's answer is IDENTIFY's.
LEMMA IdentifyDeviceContent ==
  ASSUME IInv, IdentifyDevice
  PROVE  InFifo'
  <1> DEFINE r == Status(g, {"RDY"})  p == <<"identify", 0>>
  <1>1. pc = "dispatch" /\ tfr.cmd = "identify" /\ g' = Push(r, p) /\ request' = request
    BY DEF IdentifyDevice, disk_vars
  <1>2. Fresh
    BY <1>1, PhaseAt DEF Waits, IInv
  <1>3. p \in Places
    BY DEF Places
  <1>4. r \in Gayle /\ r.pio_in /\ r.fifo = <<>>
    BY <1>2, StatusIs DEF Fresh, IInv, TypeOK, RegistersOK
  <1> HIDE DEF r
  <1>5. g'.fifo = Append(<<>>, p)
    <2> HIDE DEF p
    <2>1. g'.fifo = Append(r.fifo, p)
      BY <1>1, <1>3, <1>4, PushIs, ZenonT(30)
    <2> QED
      BY <1>4, <2>1
  <1>6. Len(g'.fifo) = 1 /\ g'.fifo[1] = p
    BY <1>3, <1>5
  <1>7. request'.cmd = "identify"
    BY <1>1, <1>2 DEF Fresh
  <1>8. ASSUME NEW l PROVE PlaceOf(request', l) = p
    BY <1>7 DEF PlaceOf
  <1> QED
    BY <1>6, <1>8 DEF InFifo

\* The first sector out, the others move up.
LEMMA HostReadContent ==
  ASSUME IInv, InFifo, HostRead
  PROVE  InFifo'
  <1>1. g.pio_in /\ Drq(g) /\ moved' = Append(moved, Head(g.fifo)) /\ g' = Pop(g) /\ request' = request
    BY DEF HostRead
  <1>2. g.fifo # <<>> /\ g \in Gayle /\ moved \in Seq(Places) /\ g.fifo \in Seq(Places)
    BY <1>1 DEF Drq, IInv, Flags, TypeOK, RegistersOK, DriveOK, Gayle
  <1>3. g'.fifo = Tail(g.fifo)
    BY <1>1, <1>2, PopIs
  <1> DEFINE f == g.fifo
  <1>4. f \in Seq(Places) /\ f # <<>>
    BY <1>2
  <1>5. Len(moved') = Len(moved) + 1 /\ Len(moved) \in Nat /\ request.lba \in Nat
    <2>1. Head(f) \in Places
      BY <1>4
    <2> QED
      BY <1>1, <1>2, <2>1, Numbers DEF IInv
  <1> HIDE DEF f
  <1>6. Len(Tail(f)) = Len(f) - 1 /\ Len(f) \in Nat
    BY <1>4
  <1>7. ASSUME NEW i \in 1..Len(Tail(f))
        PROVE  Tail(f)[i] = PlaceOf(request, request.lba + (Len(moved) + 1) + i - 1)
    <2>1. Tail(f)[i] = f[i + 1] /\ i + 1 \in 1..Len(f) /\ i \in Nat
      BY <1>4, <1>6
    <2>2. f[i + 1] = PlaceOf(request, request.lba + Len(moved) + (i + 1) - 1)
      BY <2>1 DEF InFifo, f
    <2>3. request.lba + Len(moved) + (i + 1) - 1 = request.lba + (Len(moved) + 1) + i - 1
      <3> DEFINE l == request.lba  m == Len(moved)
      <3>1. l \in Nat /\ m \in Nat /\ i \in Nat
        BY <1>5, <2>1
      <3> HIDE DEF l, m
      <3>2. l + m + (i + 1) - 1 = l + (m + 1) + i - 1
        BY <3>1
      <3> QED
        BY <3>2 DEF l, m
    <2> QED
      BY <2>1, <2>2, <2>3
  <1>8. g'.fifo = Tail(f)
    BY <1>3 DEF f
  <1> QED
    BY <1>1, <1>5, <1>7, <1>8 DEF InFifo

\* The driver writes the sector that is next in its count.
LEMMA HostWriteContent ==
  ASSUME IInv, trusted, HostWrite
  PROVE  InFifo'
  <1> DEFINE l == request.lba + request.count - g.count
             q == <<PlaceOf(request, l)>>
  <1>1. g.pio_out /\ Drq(g) /\ g' = [g EXCEPT !.fifo = q, !.count = g.count - 1]
        /\ request' = request /\ moved' = moved
    BY DEF HostWrite, disk_vars
  <1>2. Storing
    BY <1>1 DEF IInv, Flags
  <1>3. WritesOn
    BY <1>2, PhaseAt
  <1>4. g.fifo = <<>> /\ g.count # 0
    BY <1>1 DEF Drq, IInv, Flags
  <1>5. g.count = sector_count - 0
    <2>1. g.count = sector_count - Len(g.fifo)
      BY <1>2, <1>4 DEF IInv, Room
    <2> QED
      BY <1>4, <2>1
  <1>6. sector_count = request.count - Len(moved)
    BY <1>3 DEF WritesOn
  <1>7. l = request.lba + Len(moved) + 1 - 1
    <2>1. request.count \in Nat /\ Len(moved) \in Nat /\ request.lba \in Nat /\ sector_count \in Nat
      BY Numbers DEF IInv
    <2> QED
      BY <1>5, <1>6, <2>1
  <1>8. g'.fifo = q
    BY <1>1 DEF IInv, TypeOK, RegistersOK, Gayle
  <1> HIDE DEF l
  <1>9. Len(g'.fifo) = 1 /\ g'.fifo[1] = PlaceOf(request, l)
    BY <1>8
  <1> QED
    BY <1>1, <1>7, <1>9 DEF InFifo

\* A sector out of the FIFO goes where the driver meant it to go.
LEMMA StoredPlace ==
  ASSUME IInv, InFifo, trusted, WritesOn, PartlyFilled, pc = "full", g.fifo # <<>>
  PROVE  (IF type = "card" THEN <<"card", lba>> ELSE IF lba < 0 THEN Head(g.fifo) ELSE At(file, 0))
            = PlaceOf(request, request.lba + Len(moved))
  <1> DEFINE l == request.lba + Len(moved)
  <1>1. /\ request.lba \in Nat /\ Len(moved) \in Nat /\ lba \in Int /\ Offset \in Int /\ file.sector \in Nat
        /\ sector_count \in Nat /\ Len(g.fifo) \in Nat /\ (g.fifo = <<>> <=> Len(g.fifo) = 0)
    BY Numbers DEF IInv
  <1>2. lba = request.lba + Offset + Len(moved) /\ Storing /\ request.cmd # "identify"
    BY DEF WritesOn, Writing
  <1>3. l \in Int /\ lba = l + Offset
    BY <1>1, <1>2
  <1>4. sector_count # 0 /\ Len(g.fifo) = 1
    <2>1. Len(g.fifo) <= sector_count /\ Len(g.fifo) <= 1 /\ Len(g.fifo) # 0
      BY <1>1, <1>2 DEF IInv, Room
    <2>2. Len(g.fifo) \in Nat /\ sector_count \in Nat
      BY <1>1
    <2> DEFINE f == Len(g.fifo)
    <2>3. f \in Nat /\ sector_count \in Nat /\ f <= sector_count /\ f <= 1 /\ f # 0
      BY <2>1, <2>2
    <2> HIDE DEF f
    <2>4. sector_count # 0 /\ f = 1
      BY <2>3
    <2> QED
      BY <2>4 DEF f
  <1>5. CASE type = "card"
    <2>1. Offset = 0
      BY <1>5, ShapeFacts DEF IInv, TypeOK, DriveOK
    <2>2. lba = l
      BY <1>3, <2>1
    <2> HIDE DEF l
    <2>3. PlaceOf(request, l) = <<"card", l>>
      BY <1>2, <1>3, <1>5, PlaceIs
    <2> QED
      BY <1>5, <2>2, <2>3 DEF l
  <1>6. CASE type # "card" /\ lba < 0
    <2>1. Head(g.fifo) = g.fifo[1] /\ 1 \in 1..Len(g.fifo)
      BY <1>4
    <2>2. g.fifo[1] = PlaceOf(request, request.lba + Len(moved) + 1 - 1)
      BY <2>1 DEF InFifo
    <2>3. request.lba + Len(moved) + 1 - 1 = l
      BY <1>1
    <2> QED
      BY <1>6, <2>1, <2>2, <2>3
  <1>7. CASE type # "card" /\ ~(lba < 0)
    <2>1. file.sector = Max({lba, 0})
      BY <1>4, <1>7 DEF WritesOn
    <2>2. file.sector = lba
      BY <1>1, <1>7, <2>1, MaxTwo
    <2>3. (file.sector % ClusterSize) + 0 < ClusterSize
      <3> DEFINE m == file.sector % ClusterSize
      <3>1. m \in 0..(ClusterSize - 1) /\ ClusterSize \in Nat
        BY <1>1, ClusterFacts, IdeServerAssumption
      <3> HIDE DEF m
      <3>2. m + 0 < ClusterSize
        BY <3>1
      <3> QED
        BY <3>2 DEF m
    <2>4. At(file, 0) = <<"file", file.sector + 0>>
      BY <2>3, AtCursor
    <2>5. At(file, 0) = <<"file", lba>>
      <3>1. file.sector + 0 = lba
        BY <1>1, <2>2
      <3> QED
        BY <2>4, <3>1
    <2>6. PlaceOf(request, l) = <<"file", l + Offset>>
      <3> HIDE DEF l
      <3>1. l + Offset >= 0
        BY <1>1, <1>3, <1>7
      <3> QED
        BY <1>2, <1>3, <1>7, <3>1, PlaceIs
    <2> HIDE DEF l
    <2> QED
      BY <1>3, <1>7, <2>5, <2>6 DEF l
  <1> QED
    BY <1>5, <1>6, <1>7

\* The server's steps, but one, do not move sectors to the medium.
LEMMA ServerMoves ==
  ASSUME Server
  PROVE  \/ StoreSector
         \/ UNCHANGED <<request, active, moved>> /\ (trusted' = trusted \/ ~trusted')
  <1>1. CASE Poll \/ NoData \/ IdentifyDevice \/ IdentifyEnds
    BY <1>1 DEF Poll, NoData, IdentifyDevice, IdentifyEnds, disk_vars
  <1>2. CASE SeekLink \/ SeekFails \/ SeekDone
    BY <1>2 DEF SeekLink, SeekFails, SeekDone, disk_vars
  <1>3. CASE ReadSectors \/ ReadBlock \/ ReadEnds \/ BufferEmpty
    BY <1>3 DEF ReadSectors, ReadBlock, ReadEnds, BufferEmpty, disk_vars
  <1>4. CASE SendRDB \/ SeekPatched \/ SendPatched \/ SeekBlock
    BY <1>4 DEF SendRDB, SeekPatched, SendPatched, SeekBlock, disk_vars
  <1>5. CASE ReadCluster \/ CardBlock \/ SendSector \/ SendFails \/ ClusterSent \/ BlockSent
    BY <1>5 DEF ReadCluster, CardBlock, SendSector, SendFails, ClusterSent, BlockSent, disk_vars
  <1>6. CASE WriteSectors \/ WriteBlock \/ BlockStored
    BY <1>6 DEF WriteSectors, WriteBlock, BlockStored, disk_vars
  <1> QED
    BY <1>1, <1>2, <1>3, <1>4, <1>5, <1>6 DEF Server

\* No step of the server puts a wrong sector into the FIFO.
LEMMA ServerContent ==
  ASSUME IInv, InFifo, trusted, trusted', PartlyFilled, Server
  PROVE  InFifo'
  <1>1. CASE StoreSector
    <2>1. g'.fifo = <<>>
      BY <1>1 DEF StoreSector, IInv, TypeOK, RegistersOK, Gayle
    <2> QED
      BY <2>1, EmptyContent
  <1>2. CASE ~StoreSector
    <2>1. request' = request /\ moved' = moved
      BY <1>2, ServerMoves
    <2>2. CASE Poll \/ SeekLink \/ SeekFails \/ SeekDone
      BY <2>1, <2>2, SameContent DEF Poll, SeekLink, SeekFails, SeekDone
    <2>3. CASE ReadSectors \/ ReadEnds \/ BufferEmpty \/ SeekPatched \/ SeekBlock
      BY <2>1, <2>3, SameContent DEF ReadSectors, ReadEnds, BufferEmpty, SeekPatched, SeekBlock
    <2>4. CASE ReadCluster \/ CardBlock \/ SendFails \/ ClusterSent \/ BlockSent \/ WriteBlock
      BY <2>1, <2>4, SameContent DEF ReadCluster, CardBlock, SendFails, ClusterSent, BlockSent, WriteBlock
    <2>5. CASE NoData \/ IdentifyEnds \/ ReadBlock \/ WriteSectors \/ BlockStored
      <3>1. \E bits : g' = Status(g, bits)
        BY <2>5 DEF NoData, IdentifyEnds, ReadBlock, WriteSectors, BlockStored, WriteStatus
      <3> QED
        BY <2>1, <3>1, StatusFifo, SameContent
    <2>6. CASE IdentifyDevice
      BY <2>6, IdentifyDeviceContent
    <2>7. CASE SendRDB
      BY <2>7, SendRDBContent
    <2>8. CASE SendPatched
      BY <2>8, SendPatchedContent
    <2>9. CASE SendSector
      BY <2>9, SendSectorContent
    <2> QED
      BY <1>2, <2>2, <2>3, <2>4, <2>5, <2>6, <2>7, <2>8, <2>9 DEF Server
  <1> QED
    BY <1>1, <1>2

\* What the FIFO holds is what comes next, after any step.
LEMMA ContentKeeps ==
  ASSUME IInv, Content, PartlyFilled, [Next]_vars
  PROVE  Content'
  <1> SUFFICES ASSUME trusted' PROVE InFifo'
    BY DEF Content
  <1>1. CASE Server
    <2>1. trusted
      BY <1>1, ServerMoves DEF StoreSector, IInv, TypeOK, DriveOK
    <2> QED
      BY <1>1, <2>1, ServerContent DEF Content
  <1>2. CASE \E r \in RequestsTo(type, size) : HostAsk(r)
    <2>1. g'.fifo = <<>>
      BY <1>2 DEF HostAsk, IInv, TypeOK, RegistersOK, Gayle
    <2> QED
      BY <2>1, EmptyContent
  <1>3. CASE HostIrq
    <2>1. trusted /\ request' = request /\ moved' = moved /\ g'.fifo = g.fifo
      BY <1>3 DEF HostIrq, IInv, TypeOK, RegistersOK, Gayle
    <2> QED
      BY <2>1, SameContent DEF Content
  <1>4. CASE HostRead
    <2>1. trusted
      BY <1>4 DEF HostRead
    <2> QED
      BY <1>4, <2>1, HostReadContent DEF Content
  <1>5. CASE HostWrite
    <2>1. trusted
      BY <1>5 DEF HostWrite, disk_vars
    <2> QED
      BY <1>5, <2>1, HostWriteContent
  <1>6. CASE UNCHANGED vars
    <2>1. trusted /\ request' = request /\ moved' = moved /\ g'.fifo = g.fifo
      BY <1>6 DEF vars, disk_vars
    <2> QED
      BY <2>1, SameContent DEF Content
  <1> QED
    BY <1>1, <1>2, <1>3, <1>4, <1>5, <1>6 DEF Next, Host

-----------------------------------------------------------------------------
\* The promise

\* Every step is one that AbstractDisk allows, or none.
LEMMA StepAllowed ==
  ASSUME IInv, Content, PartlyFilled, [Next]_vars
  PROVE  [Drive!Next]_(Drive!disk_vars)
  <1>1. CASE Server
    <2>1. CASE StoreSector
      <3> DEFINE p == IF type = "card" THEN <<"card", lba>> ELSE IF lba < 0 THEN Head(g.fifo) ELSE At(file, 0)
      <3>1. /\ pc = "full" /\ g.fifo # <<>> /\ request' = request /\ active' = active
            /\ (moved' = Append(moved, p) /\ trusted' = trusted) \/ ~trusted'
        BY <2>1 DEF StoreSector
      <3> HIDE DEF p
      <3>2. CASE ~trusted'
        BY <3>1, <3>2 DEF Drive!Next, Drive!Fail
      <3>3. CASE trusted'
        <4>1. trusted /\ moved' = Append(moved, p) /\ trusted' = trusted
          BY <3>1, <3>3 DEF IInv, TypeOK, DriveOK
        <4>2. Storing
          BY <3>1 DEF Storing, In, WriteStates
        <4>3. WritesOn
          BY <4>1, <4>2, PhaseAt
        <4>4. p = PlaceOf(request, request.lba + Len(moved))
          BY <3>1, <4>1, <4>3, StoredPlace DEF Content, p
        <4>5. active /\ active' = TRUE
          BY <3>1, <4>3 DEF WritesOn, IInv, TypeOK, DriveOK
        <4>6. Len(moved) < request.count
          <5>1. sector_count = request.count - Len(moved)
            BY <4>3 DEF WritesOn
          <5>2. Len(g.fifo) <= sector_count /\ Len(g.fifo) # 0
            BY <3>1, <4>2, Numbers DEF IInv, Room
          <5>3. /\ Len(g.fifo) \in Nat /\ sector_count \in Nat /\ request.count \in Nat
                /\ Len(moved) \in Nat
            BY Numbers DEF IInv
          <5> QED
            BY <5>1, <5>2, <5>3
        <4>7. Drive!Move
          BY <3>1, <4>1, <4>4, <4>5, <4>6 DEF Drive!Move
        <4> QED
          BY <4>7 DEF Drive!Next
      <3> QED
        BY <3>2, <3>3
    <2>2. CASE ~StoreSector
      <3>1. request' = request /\ active' = active /\ moved' = moved /\ (trusted' = trusted \/ ~trusted')
        BY <1>1, <2>2, ServerMoves
      <3>2. CASE ~trusted'
        BY <3>1, <3>2 DEF Drive!Next, Drive!Fail
      <3>3. CASE trusted' = trusted
        BY <3>1, <3>3 DEF Drive!disk_vars
      <3> QED
        BY <3>1, <3>2, <3>3
    <2> QED
      BY <2>1, <2>2
  <1>2. ASSUME NEW r \in RequestsTo(type, size), HostAsk(r) PROVE Drive!Next
    <2>1. ~active /\ request' = r /\ active' = TRUE /\ moved' = <<>> /\ trusted' = trusted
      BY <1>2 DEF HostAsk
    <2>2. r \in Requests
      BY <1>2 DEF Requests, IInv, TypeOK, DriveOK
    <2> QED
      BY <2>1, <2>2 DEF Drive!Next, Drive!Ask
  <1>3. CASE HostIrq
    <2> DEFINE over == g.error \/ request.count = 0 \/ (Writing(request) /\ ~g.busy)
    <2>1. active /\ g.intreq /\ active' = ~over /\ request' = request /\ moved' = moved /\ trusted' = trusted
      BY <1>3 DEF HostIrq
    <2> HIDE DEF over
    <2>2. CASE over
      <3>1. active' = FALSE
        BY <2>1, <2>2
      <3>2. ASSUME trusted PROVE Len(moved) = request.count
        <4>1. ~Waits
          BY <2>1 DEF Waits, Fresh
        <4>2. ReadsOn => ~over
          <5> SUFFICES ASSUME ReadsOn PROVE ~over
            OBVIOUS
          <5>1. request.cmd \in {"read", "readm"} /\ ~g.error
            BY DEF ReadsOn
          <5>2. request.count # 0
            BY <5>1, RequestFacts DEF IInv, TypeOK, DriveOK, DataCommands
          <5> QED
            BY <5>1, <5>2 DEF over, Writing
        <4>3. WritesOn => ~over
          <5> SUFFICES ASSUME WritesOn PROVE ~over
            OBVIOUS
          <5>1. Writing(request) /\ ~g.error /\ g.busy
            BY DEF WritesOn, Flags, IInv
          <5>2. request.count # 0
            BY <5>1, RequestFacts DEF IInv, TypeOK, DriveOK, DataCommands, Writing
          <5> QED
            BY <5>1, <5>2 DEF over
        <4>4. Identifies => ~over
          <5> SUFFICES ASSUME Identifies PROVE ~over
            OBVIOUS
          <5>1. request.cmd = "identify" /\ ~g.error
            BY DEF Identifies
          <5>2. request.count = 1
            BY <5>1, RequestFacts DEF IInv, TypeOK, DriveOK
          <5> QED
            BY <5>1, <5>2 DEF over, Writing
        <4>5. Ended
          BY <2>2, <3>2, <4>1, <4>2, <4>3, <4>4 DEF IInv, Phase
        <4> QED
          BY <4>5 DEF Ended
      <3> QED
        BY <2>1, <3>1, <3>2 DEF Drive!Next, Drive!End
    <2>3. CASE ~over
      <3>1. active' = active
        BY <2>1, <2>3 DEF IInv, TypeOK, DriveOK
      <3> QED
        BY <2>1, <3>1 DEF Drive!disk_vars
    <2> QED
      BY <2>2, <2>3
  <1>4. CASE HostRead
    <2>1. /\ active /\ g.pio_in /\ Drq(g) /\ moved' = Append(moved, Head(g.fifo))
          /\ active' = (Len(moved') < request.count)
          /\ request' = request /\ trusted' = trusted
      BY <1>4 DEF HostRead
    <2>2. CASE ~trusted
      BY <2>1, <2>2 DEF Drive!Next, Drive!Fail
    <2>3. CASE trusted
      <3>1. g.fifo # <<>> /\ ~g.pio_out
        BY <2>1 DEF Drq, IInv, Flags
      <3>2. Len(g.fifo) >= 1 /\ Len(g.fifo) \in Nat /\ Len(moved) \in Nat /\ request.count \in Nat
            /\ request.lba \in Nat
        BY <3>1, Numbers DEF IInv
      <3>3. Head(g.fifo) = g.fifo[1] /\ 1 \in 1..Len(g.fifo)
        BY <3>1, <3>2
      <3>4. g.fifo[1] = PlaceOf(request, request.lba + Len(moved) + 1 - 1)
        BY <2>3, <3>3 DEF Content, InFifo
      <3>5. request.lba + Len(moved) + 1 - 1 = request.lba + Len(moved)
        BY <3>2
      <3>6. Head(g.fifo) = PlaceOf(request, request.lba + Len(moved))
        BY <3>3, <3>4, <3>5
      <3>7. Len(moved) < request.count
        <4>1. ReadsOn \/ Identifies
          <5>1. ~Storing
            BY <3>1 DEF IInv, Flags
          <5> QED
            BY <2>3, <3>1, <5>1 DEF IInv, Phase, Waits, Fresh, WritesOn, Ended
        <4>2. CASE ReadsOn
          BY <2>1, <4>2 DEF ReadsOn
        <4>3. CASE Identifies
          <5>1. request.count = 1 /\ Len(moved) + Len(g.fifo) = 1
            BY <4>3, RequestFacts DEF Identifies, IInv, TypeOK, DriveOK
          <5> QED
            BY <3>2, <5>1
        <4> QED
          BY <4>1, <4>2, <4>3
      <3>8. Drive!Move
        BY <2>1, <2>3, <3>6, <3>7 DEF Drive!Move
      <3> QED
        BY <3>8 DEF Drive!Next
    <2> QED
      BY <2>2, <2>3
  <1>5. CASE HostWrite
    BY <1>5 DEF HostWrite, disk_vars, Drive!disk_vars
  <1>6. CASE UNCHANGED vars
    BY <1>6 DEF vars, disk_vars, Drive!disk_vars
  <1> QED
    BY <1>1, <1>2, <1>3, <1>4, <1>5, <1>6 DEF Next, Host

\* The server, Gayle and the driver together keep AbstractDisk's promise: the
\* sectors that move are those that were asked for, each once, in order and from
\* or to its own place on the medium; a command ends without error when all have
\* moved; and that lasts until the card fails.
THEOREM DriveRefined ==
  ASSUME GeometryFound, PartlyFilled
  PROVE  Spec => DriveSpec
  <1>1. ASSUME Init PROVE Drive!Init
    <2>1. request \in RequestsTo(type, size) /\ type \in Kinds /\ size \in Sizes
      BY <1>1, InitHolds DEF IInv, TypeOK, DriveOK
    <2>2. request \in Requests
      BY <2>1 DEF Requests
    <2> QED
      BY <1>1, <2>2 DEF Init, Drive!Init
  <1>2. Init => Content
    BY DEF Init, Content, InFifo
  <1>3. IInv /\ Content /\ [Next]_vars => Content'
    BY ContentKeeps
  <1>4. IInv /\ Content /\ [Next]_vars => [Drive!Next]_(Drive!disk_vars)
    BY StepAllowed
  <1>5. Spec => []IInv
    BY Invariant
  <1> QED
    BY <1>1, <1>2, <1>3, <1>4, <1>5, PTL DEF Spec, DriveSpec, Drive!Spec
=============================================================================
