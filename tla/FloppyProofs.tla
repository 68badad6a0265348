---------------------------- MODULE FloppyProofs ----------------------------
(***************************************************************************)
(* Proofs about Floppy, for any drives, images, tracks and clusters.       *)
(*                                                                         *)
(* The reading half rests on one inductive invariant, IInv.  A cursor is   *)
(* in place (InPlace) when its cluster is the one its sector lies in; the  *)
(* lemmas on Ahead say that FileNextSector and the index of cache clusters *)
(* keep it there.  Remembered says so of what a drive keeps between two    *)
(* DMAs, Reading that the cursor of a running ReadTrack is where its drive *)
(* remembers (At), Steps what each await has already looked at, Order that *)
(* the drive remembers the sector behind the last one played, and Reported *)
(* that Paula knows the disks while the menu is up.                        *)
(*                                                                         *)
(* The writing half is a second invariant beside it, WInv.  Streaming says *)
(* that what a write DMA still has to bring is a track as the Amiga writes *)
(* it, Writing that the cursor of WriteTrack is where the drive is asked   *)
(* to be, and Taking how much of a sector the server has found in front of *)
(* the FIFO.  It needs what the code leaves to the Amiga: no write is      *)
(* stopped early, and none goes to a track that the image does not have    *)
(* (WithinImage).                                                          *)
(***************************************************************************)
EXTENDS Floppy, FiniteSetTheorems, SequenceTheorems, WellFoundedInduction, TLAPS

-----------------------------------------------------------------------------
\* Numbers

\* A set of naturals that is not empty has a least element.
LEMMA LeastNatural ==
  ASSUME NEW S \in SUBSET Nat, S # {}
  PROVE  \E m \in S : \A k \in S : m <= k
  <1> DEFINE T == {0..m : m \in S}
  <1>1. T \subseteq FiniteSubsetsOf(Nat)
    <2>1. ASSUME NEW m \in S PROVE 0..m \in FiniteSubsetsOf(Nat)
      BY FS_Interval DEF FiniteSubsetsOf
    <2> QED
      BY <2>1
  <1>2. PICK t \in T : \A u \in T : ~ (<<u, t>> \in StrictSubsetOrdering(Nat))
    <2> HIDE DEF T
    <2>1. T # {}
      BY DEF T
    <2> QED
      BY <1>1, <2>1, FS_StrictSubsetOrderingWellFounded, WFMin
  <1>3. PICK m \in S : t = 0..m
    OBVIOUS
  <1>4. ASSUME NEW k \in S, k < m
        PROVE  FALSE
    <2>1. 0..k \in T
      OBVIOUS
    <2>2. 0..k \subseteq 0..m /\ 0..k # 0..m
      BY <1>4
    <2>3. <<0..k, t>> \in StrictSubsetOrdering(Nat)
      BY <1>3, <2>2 DEF StrictSubsetOrdering
    <2> QED
      BY <1>2, <2>1, <2>3
  <1> QED
    BY <1>4

\* What holds of 0 and passes from i to i + 1 holds of every natural number.
LEMMA Induct ==
  ASSUME NEW S \in SUBSET Nat, 0 \in S, \A i \in S : i + 1 \in S
  PROVE  \A i \in Nat : i \in S
  <1> SUFFICES ASSUME Nat \ S # {} PROVE FALSE
    OBVIOUS
  <1>1. PICK m \in Nat \ S : \A k \in Nat \ S : m <= k
    BY LeastNatural
  <1>2. m - 1 \in Nat /\ m - 1 \notin Nat \ S
    BY <1>1
  <1>3. (m - 1) + 1 \in S
    BY <1>2
  <1> QED
    BY <1>3

\* The quotient and the remainder.
LEMMA DivMod ==
  ASSUME NEW a \in Nat, NEW b \in Nat \ {0}
  PROVE  a = (b * (a \div b)) + (a % b) /\ a % b \in 0..(b - 1) /\ a \div b \in Nat
  OBVIOUS

\* ... of which there is one pair only.
LEMMA DivUnique ==
  ASSUME NEW a \in Nat, NEW b \in Nat \ {0}, NEW q \in Nat, NEW r \in 0..(b - 1), a = (b * q) + r
  PROVE  a \div b = q /\ a % b = r
  OBVIOUS

\* A greater number has no smaller quotient.
LEMMA DivMonotonic ==
  ASSUME NEW a \in Nat, NEW c \in Nat, a <= c, NEW b \in Nat \ {0}
  PROVE  a \div b <= c \div b
  OBVIOUS

\* Dividing the successor.
LEMMA DivStep ==
  ASSUME NEW a \in Nat, NEW b \in Nat \ {0}
  PROVE  /\ (a % b) + 1 # b => (a + 1) \div b = a \div b /\ (a + 1) % b = (a % b) + 1
         /\ (a % b) + 1 = b => (a + 1) \div b = (a \div b) + 1 /\ (a + 1) % b = 0
  <1> DEFINE q == a \div b  r == a % b
  <1>1. a = (b * q) + r /\ r \in 0..(b - 1) /\ q \in Nat
    BY DivMod
  <1> HIDE DEF q, r
  <1>2. CASE r + 1 # b
    <2>1. a + 1 = (b * q) + (r + 1) /\ r + 1 \in 0..(b - 1) /\ a + 1 \in Nat
      BY <1>1, <1>2
    <2>2. (a + 1) \div b = q /\ (a + 1) % b = r + 1
      BY <1>1, <2>1, DivUnique
    <2> QED
      BY <1>2, <2>2 DEF q, r
  <1>3. CASE r + 1 = b
    <2>1. a + 1 = (b * (q + 1)) + 0 /\ 0 \in 0..(b - 1) /\ a + 1 \in Nat /\ q + 1 \in Nat
      BY <1>1, <1>3
    <2>2. (a + 1) \div b = q + 1 /\ (a + 1) % b = 0
      BY <1>1, <2>1, DivUnique
    <2> QED
      BY <1>3, <2>2 DEF q, r
  <1> QED
    BY <1>2, <1>3 DEF q, r

-----------------------------------------------------------------------------
\* The cursor

\* The cluster of the chain that holds sector s of an image.
ClusterOf(s) == (s \div ClusterSize) + 1

Image == DOMAIN Images \cup {None}
Cursor == [image : Image, sector : Nat, cluster : Nat]

LEMMA Constants ==
  /\ SECTOR_COUNT \in Nat \ {0} /\ ClusterSize \in Nat \ {0}
  /\ Drives \subseteq Nat /\ 0 \in Drives /\ MaxTrack \in [Drives -> Nat]
  /\ \A i \in DOMAIN Images : Images[i] \in [tracks : Nat \ {0}, writable : BOOLEAN]
  BY FloppyAssumption

LEMMA Clusters ==
  ASSUME NEW s \in Nat
  PROVE  /\ s = (ClusterSize * (s \div ClusterSize)) + (s % ClusterSize)
         /\ s % ClusterSize \in Nat /\ s \div ClusterSize \in Nat
  <1>1. ClusterSize \in Nat \ {0}
    BY Constants
  <1>2. /\ s = (ClusterSize * (s \div ClusterSize)) + (s % ClusterSize)
        /\ s % ClusterSize \in 0..(ClusterSize - 1) /\ s \div ClusterSize \in Nat
    BY <1>1, DivMod
  <1> QED
    BY <1>1, <1>2

\* k sectors on from f, in one step.
Ahead(f, k) ==
    [image |-> f.image, sector |-> f.sector + k,
     cluster |-> f.cluster + (((f.sector + k) \div ClusterSize) - (f.sector \div ClusterSize))]

LEMMA AheadTyped ==
  ASSUME NEW f \in Cursor, NEW k \in Nat
  PROVE  Ahead(f, k) \in Cursor
  <1> DEFINE s == f.sector
  <1>1. s \in Nat /\ s + k \in Nat /\ f.cluster \in Nat /\ f.image \in Image /\ s <= s + k
    BY DEF Cursor
  <1>2. s \div ClusterSize \in Nat /\ (s + k) \div ClusterSize \in Nat
    BY <1>1, Clusters
  <1>3. s \div ClusterSize <= (s + k) \div ClusterSize
    BY <1>1, Constants, DivMonotonic
  <1> DEFINE a == s \div ClusterSize  b == (s + k) \div ClusterSize
  <1> HIDE DEF a, b
  <1>4. a \in Nat /\ b \in Nat /\ a <= b
    BY <1>2, <1>3 DEF a, b
  <1>5. f.cluster + (b - a) \in Nat
    BY <1>1, <1>4
  <1>6. Ahead(f, k) = [image |-> f.image, sector |-> s + k, cluster |-> f.cluster + (b - a)]
    BY DEF Ahead, a, b
  <1> QED
    BY <1>1, <1>5, <1>6 DEF Cursor

LEMMA AheadNext ==
  ASSUME NEW f \in Cursor, NEW k \in Nat
  PROVE  FileNextSector(Ahead(f, k)) = Ahead(f, k + 1)
  <1> DEFINE s == f.sector  t == s + k  a == s \div ClusterSize  b == t \div ClusterSize
             c == (t + 1) \div ClusterSize  m == (t + 1) % ClusterSize
  <1>1. s \in Nat /\ t \in Nat /\ t + 1 = s + (k + 1) /\ f.cluster \in Nat
    BY DEF Cursor
  <1>2. a \in Nat /\ b \in Nat /\ t % ClusterSize \in Nat
    <2>1. a \in Nat
      BY <1>1, Clusters
    <2>2. b \in Nat /\ t % ClusterSize \in Nat
      BY <1>1, Clusters
    <2> QED
      BY <2>1, <2>2
  <1>3. (m = 0 => c = b + 1) /\ (m # 0 => c = b)
    <2>1. /\ (t % ClusterSize) + 1 # ClusterSize => c = b /\ m = (t % ClusterSize) + 1
          /\ (t % ClusterSize) + 1 = ClusterSize => c = b + 1 /\ m = 0
      BY <1>1, Constants, DivStep
    <2> HIDE DEF m, c, b
    <2> QED
      BY <1>2, <2>1
  <1>4. Ahead(f, k) = [image |-> f.image, sector |-> t, cluster |-> f.cluster + (b - a)]
    BY DEF Ahead
  <1>5. Ahead(f, k + 1) = [image |-> f.image, sector |-> t + 1, cluster |-> f.cluster + (c - a)]
    BY <1>1 DEF Ahead
  <1>6. FileNextSector(Ahead(f, k)) =
          [image |-> f.image, sector |-> t + 1,
           cluster |-> IF m = 0 THEN f.cluster + (b - a) + 1 ELSE f.cluster + (b - a)]
    <2> DEFINE e == Ahead(f, k)  l == f.cluster + (b - a)
    <2>1. e = [image |-> f.image, sector |-> t, cluster |-> l]
      BY <1>4
    <2>2. FileNextSector(e) = [e EXCEPT !.sector = e.sector + 1,
                                        !.cluster = IF m = 0 THEN e.cluster + 1 ELSE e.cluster]
      BY <2>1 DEF FileNextSector
    <2> HIDE DEF e, l, t, m
    <2> DEFINE x == t + 1  y == IF m = 0 THEN l + 1 ELSE l
    <2>3. e.sector + 1 = x /\ (IF m = 0 THEN e.cluster + 1 ELSE e.cluster) = y
      BY <2>1
    <2> HIDE DEF x, y
    <2>4. FileNextSector(e) = [image |-> f.image, sector |-> x, cluster |-> y]
      BY <2>1, <2>2, <2>3
    <2> QED
      BY <2>4 DEF x, y, l, e
  <1> HIDE DEF a, b, c, m, t, s
  <1>7. (IF m = 0 THEN f.cluster + (b - a) + 1 ELSE f.cluster + (b - a)) = f.cluster + (c - a)
    BY <1>1, <1>2, <1>3
  <1> QED
    BY <1>5, <1>6, <1>7

LEMMA AheadZero ==
  ASSUME NEW f \in Cursor
  PROVE  Ahead(f, 0) = f
  <1>1. f.sector \in Nat /\ f.cluster \in Nat /\ f.sector + 0 = f.sector
    BY DEF Cursor
  <1>2. f.sector \div ClusterSize \in Nat
    BY <1>1, Clusters
  <1> DEFINE a == f.sector \div ClusterSize
  <1> HIDE DEF a
  <1>3. a \in Nat /\ f.cluster + (a - a) = f.cluster
    BY <1>1, <1>2 DEF a
  <1>4. Ahead(f, 0) = [image |-> f.image, sector |-> f.sector, cluster |-> f.cluster]
    BY <1>1, <1>3 DEF Ahead, a
  <1> QED
    BY <1>4 DEF Cursor

\* FileNextSector, for as often as GetHeader and InsertFloppy call it.
LEMMA SkipIs ==
  ASSUME NEW f \in Cursor, NEW k \in Nat
  PROVE  Skip(f, k) = Ahead(f, k) /\ Skip(f, k) \in Cursor
  <1> DEFINE IsLoop(g) == g = [j \in 0..k |-> IF j = 0 THEN f ELSE FileNextSector(g[j - 1])]
             w == [j \in 0..k |-> Ahead(f, j)]
  <1>0. Ahead(f, 0) = f
    BY AheadZero
  <1>1. \A j \in 0..k : j # 0 => Ahead(f, j) = FileNextSector(Ahead(f, j - 1))
    <2> TAKE j \in 0..k
    <2> HAVE j # 0
    <2>1. j - 1 \in Nat /\ (j - 1) + 1 = j
      OBVIOUS
    <2> QED
      BY <2>1, AheadNext
  <1>2. IsLoop(w)
    <2>1. ASSUME NEW j \in 0..k
          PROVE  w[j] = IF j = 0 THEN f ELSE FileNextSector(w[j - 1])
      <3>1. CASE j = 0
        BY <1>0, <3>1
      <3>2. CASE j # 0
        <4>1. j - 1 \in 0..k
          BY <3>2
        <4> QED
          BY <1>1, <3>2, <4>1
      <3> QED
        BY <3>1, <3>2
    <2> DEFINE v == [j \in 0..k |-> IF j = 0 THEN f ELSE FileNextSector(w[j - 1])]
    <2>2. w = v
      BY <2>1
    <2> QED
      BY <2>2
  <1>3. PICK g : IsLoop(g) /\ Skip(f, k) = g[k]
    <2> HIDE DEF w
    <2> QED
      BY <1>2 DEF Skip
  <1>4. \A j \in 0..k : g[j] = IF j = 0 THEN f ELSE FileNextSector(g[j - 1])
    BY <1>3
  <1> HIDE DEF IsLoop, w
  <1> DEFINE P == {j \in Nat : j \in 0..k => g[j] = Ahead(f, j)}
  <1>5. 0 \in P
    BY <1>0, <1>4
  <1>6. ASSUME NEW j \in P
        PROVE  j + 1 \in P
    <2>1. CASE j + 1 \in 0..k
      <3>1. g[j + 1] = FileNextSector(g[(j + 1) - 1])
        BY <1>4, <2>1
      <3>2. g[j] = Ahead(f, j)
        BY <2>1
      <3>3. (j + 1) - 1 = j
        OBVIOUS
      <3>4. FileNextSector(Ahead(f, j)) = Ahead(f, j + 1)
        BY AheadNext
      <3>5. g[j + 1] = Ahead(f, j + 1)
        BY <3>1, <3>2, <3>3, <3>4
      <3> QED
        BY <3>5
    <2> QED
      BY <2>1
  <1>7. \A j \in Nat : j \in P
    <2> HIDE DEF P
    <2>1. P \in SUBSET Nat
      BY DEF P
    <2> QED
      BY <1>5, <1>6, <2>1, Induct
  <1>8. g[k] = Ahead(f, k)
    BY <1>7
  <1> QED
    BY <1>3, <1>8, AheadTyped

\* A cursor is in place when its cluster is that of its sector.
InPlace(f) == f.cluster = ClusterOf(f.sector)

LEMMA AheadInPlace ==
  ASSUME NEW f \in Cursor, NEW k \in Nat, InPlace(f)
  PROVE  InPlace(Ahead(f, k))
  <1> DEFINE s == f.sector  a == s \div ClusterSize  b == (s + k) \div ClusterSize
  <1>1. s \in Nat /\ s + k \in Nat
    BY DEF Cursor
  <1>2. a \in Nat /\ b \in Nat
    <2>1. a \in Nat
      BY <1>1, Clusters
    <2>2. b \in Nat
      BY <1>1, Clusters
    <2> QED
      BY <2>1, <2>2
  <1>3. f.cluster = a + 1
    BY DEF InPlace, ClusterOf
  <1>4. Ahead(f, k).cluster = f.cluster + (b - a) /\ Ahead(f, k).sector = s + k
    BY DEF Ahead
  <1>5. ClusterOf(s + k) = b + 1
    BY DEF ClusterOf
  <1> HIDE DEF s, a, b
  <1>6. (a + 1) + (b - a) = b + 1
    BY <1>2
  <1> QED
    BY <1>3, <1>4, <1>5, <1>6 DEF InPlace

LEMMA NextInPlace ==
  ASSUME NEW f \in Cursor
  PROVE  /\ FileNextSector(f) \in Cursor /\ FileNextSector(f).image = f.image
         /\ FileNextSector(f).sector = f.sector + 1
         /\ InPlace(f) => InPlace(FileNextSector(f))
  <1>1. Ahead(f, 0) = f
    BY AheadZero
  <1>2. FileNextSector(f) = Ahead(f, 1)
    BY <1>1, AheadNext
  <1>3. Ahead(f, 1) \in Cursor
    BY AheadTyped
  <1>4. Ahead(f, 1).image = f.image /\ Ahead(f, 1).sector = f.sector + 1
    BY DEF Ahead
  <1> QED
    BY <1>2, <1>3, <1>4, AheadInPlace

\* InsertFloppy's cache holds the cluster of the first sector of each track.
LEMMA CacheIs ==
  ASSUME NEW i \in Image, NEW t \in Nat
  PROVE  cache(i, t) = ClusterOf(t * SECTOR_COUNT) /\ cache(i, t) \in Nat
  <1>1. Start(i) \in Cursor
    BY DEF Start, Cursor
  <1>2. InPlace(Start(i))
    <2>1. 0 \div ClusterSize = 0
      BY Constants, DivUnique
    <2> QED
      BY <2>1 DEF InPlace, Start, ClusterOf
  <1>3. t * SECTOR_COUNT \in Nat
    BY Constants
  <1>4. Skip(Start(i), t * SECTOR_COUNT) = Ahead(Start(i), t * SECTOR_COUNT)
    BY <1>1, <1>3, SkipIs
  <1>5. InPlace(Ahead(Start(i), t * SECTOR_COUNT))
    BY <1>1, <1>2, <1>3, AheadInPlace
  <1>6. Ahead(Start(i), t * SECTOR_COUNT).sector = t * SECTOR_COUNT
    BY <1>3 DEF Ahead, Start
  <1>7. Ahead(Start(i), t * SECTOR_COUNT) \in Cursor
    BY <1>1, <1>3, AheadTyped
  <1> QED
    BY <1>4, <1>5, <1>6, <1>7 DEF cache, InPlace, Cursor

\* What FileRead and FileWrite address through a cursor in place is its sector.
LEMMA PlaceIs ==
  ASSUME NEW f \in Cursor
  PROVE  Place(f) \in Int /\ (InPlace(f) => Place(f) = f.sector)
  <1> DEFINE s == f.sector  q == s \div ClusterSize  r == s % ClusterSize
  <1>1. s \in Nat /\ f.cluster \in Nat
    BY DEF Cursor
  <1>2. s = (ClusterSize * q) + r /\ r \in Nat /\ q \in Nat
    BY <1>1, Clusters
  <1>3. Place(f) = (f.cluster - 1) * ClusterSize + r
    BY DEF Place
  <1>4. InPlace(f) => f.cluster = q + 1
    BY DEF InPlace, ClusterOf
  <1> HIDE DEF q, r, s
  <1>5. (f.cluster - 1) * ClusterSize + r \in Int
    BY <1>1, <1>2, Constants
  <1>6. ((q + 1) - 1) * ClusterSize + r = s
    <2>1. (q + 1) - 1 = q /\ q * ClusterSize = ClusterSize * q
      BY <1>2, Constants
    <2> QED
      BY <1>2, <2>1
  <1> QED
    BY <1>3, <1>4, <1>5, <1>6 DEF s
-----------------------------------------------------------------------------
\* What the variables hold

Drive == [inserted : BOOLEAN, writable : BOOLEAN, image : Image, tracks : Nat,
          cluster_offset : Nat, sector_offset : 0..(SECTOR_COUNT - 1), track : Nat,
          track_prev : Nat \cup {-1}]

\* What the Amiga writes, what the server plays, and what the FIFO may hold.
Written == [k : {"gap", "sync", "part"}] \cup [k : {"head", "data"}, track : Nat, sector : Nat]
Played == [k : {"sector"}, image : Image, place : Int, track : Nat, sector : Nat]
Unit == Written \cup Played

Controller == [sel : Drives, track : [Drives -> Nat], dskstate : {"idle", "active"},
               dmaen : BOOLEAN, write : BOOLEAN, dsklen : Nat, fifo : Seq(Unit),
               present : SUBSET Drives, writable : SUBSET Drives]

ReadPlaces == {"first", "fileread", "check", "send"}
WritePlaces == {"sync", "word", "headpoll", "head", "datapoll", "data"}

TypeInv ==
    /\ df \in [Drives -> Drive]
    /\ paula \in Controller
    /\ file \in Cursor
    /\ pc \in ReadPlaces \cup WritePlaces \cup {"main", "status", "ui", "stop"}
    /\ sel \in Drives /\ sector \in Nat /\ buf \in Int \cup {None}
    /\ Track \in Nat /\ Sector \in Nat
    /\ out \in Seq(Written)

Active(p) == p.dskstate = "active"
Heads(p) == p.track[p.sel]

\* The FIFO is of a DMA, and a write DMA ends with what the Amiga has to write.
Dma ==
    /\ Active(paula) => paula.dmaen
    /\ ~Active(paula) => paula.fifo = <<>>
    /\ paula.dmaen /\ paula.write => paula.dsklen = Len(out)

\* Where a drive goes on reading is in place, on a track the image has.
Recalled(x) ==
    (x.track_prev >= 0 /\ x.track_prev < x.tracks) =>
        x.cluster_offset = ClusterOf(x.track_prev * SECTOR_COUNT + x.sector_offset)

\* A drive that may be written holds an image that may be.
Guarded(x) == x.writable => x.image \in DOMAIN Images /\ Images[x.image].writable

Remembered == \A d \in Drives : Recalled(df[d]) /\ Guarded(df[d])

\* The cursor f and the local s of ReadTrack are where the drive x remembers.
At(x, f, s) ==
    /\ f.image = x.image
    /\ f.sector = x.track * SECTOR_COUNT + s
    /\ x.track_prev = x.track
    /\ x.sector_offset = s
    /\ x.cluster_offset = f.cluster

\* The track that a read request plays, and the one CheckRequest sees.
Wanted(t, x) == IF t >= x.tracks THEN (x.tracks - 1) % 256 ELSE t
Seen(t, x) == IF t >= x.tracks THEN x.tracks - 1 ELSE t

\* A read DMA that ReadTrack can serve is of its drive and of its track.
Reading ==
    pc \in ReadPlaces =>
        /\ At(df[sel], file, sector)
        /\ Active(paula) => /\ paula.sel = sel /\ ~paula.write
                            /\ df[sel].track = Wanted(Heads(paula), df[sel])

Steps ==
    /\ pc = "first" => (paula.dmaen => Active(paula))
    /\ pc \in {"check", "send"} => buf = Place(file)
    /\ pc = "send" => /\ df[sel].track < df[sel].tracks
                      /\ Active(paula) => /\ paula.dsklen # 0
                                          /\ df[sel].track = Seen(Heads(paula), df[sel])

\* While a DMA reads, the drive remembers the sector behind the last one played.
Follows(x, l) == x.sector_offset = (l.sector + 1) % SECTOR_COUNT

Order ==
    last # None =>
        /\ Active(paula) /\ ~paula.write /\ pc \notin WritePlaces
        /\ Follows(df[paula.sel], last)
        /\ df[paula.sel].track_prev = Wanted(Heads(paula), df[paula.sel])

\* While the user has the menu, Paula knows which drives hold a disk.
Reported == pc = "ui" => paula.present = {d \in Drives : df[d].inserted}

IInv == TypeInv /\ Dma /\ Remembered /\ Reading /\ Steps /\ Order /\ Reported

-----------------------------------------------------------------------------
\* Paula's steps

LEMMA PolledIs ==
  ASSUME NEW p \in Controller
  PROVE  /\ Polled(p) \in Controller
         /\ Polled(p).sel = p.sel /\ Polled(p).track = p.track
         /\ Polled(p).dmaen = p.dmaen /\ Polled(p).write = p.write
         /\ Polled(p).dsklen = p.dsklen /\ Polled(p).fifo = p.fifo
         /\ Polled(p).present = p.present
         /\ Active(p) => Polled(p) = p
         /\ Active(Polled(p)) => Active(p) \/ p.dmaen
  <1>1. CASE p.dskstate = "idle" /\ p.dmaen /\ p.dsklen # 0
    <2>1. Polled(p) = [p EXCEPT !.dskstate = "active"]
      BY <1>1 DEF Polled
    <2> QED
      BY <1>1, <2>1 DEF Controller, Active
  <1>2. CASE ~ (p.dskstate = "idle" /\ p.dmaen /\ p.dsklen # 0)
    <2>1. Polled(p) = p
      BY <1>2 DEF Polled
    <2> QED
      BY <2>1
  <1> QED
    BY <1>1, <1>2

LEMMA PutIs ==
  ASSUME NEW p \in Controller, NEW u \in Unit
  PROVE  /\ Put(p, u) \in Controller
         /\ Put(p, u).sel = p.sel /\ Put(p, u).track = p.track
         /\ Put(p, u).dmaen = p.dmaen /\ Put(p, u).write = p.write
         /\ Put(p, u).dskstate = p.dskstate /\ Put(p, u).present = p.present
         /\ trackrd(p) => Put(p, u).fifo = Append(p.fifo, u)
         /\ ~trackrd(p) => Put(p, u) = p
  <1>1. CASE trackrd(p)
    <2> DEFINE q == Append(p.fifo, u)  l == p.dsklen - 1
    <2>1. Put(p, u) = [p EXCEPT !.fifo = q, !.dsklen = l]
      BY <1>1 DEF Put
    <2>2. q \in Seq(Unit) /\ l \in Nat
      BY <1>1 DEF Controller, trackrd
    <2> HIDE DEF q, l
    <2>3. Put(p, u) = [sel |-> p.sel, track |-> p.track, dskstate |-> p.dskstate,
                       dmaen |-> p.dmaen, write |-> p.write, dsklen |-> l, fifo |-> q,
                       present |-> p.present, writable |-> p.writable]
      BY <2>1 DEF Controller
    <2> QED
      BY <1>1, <2>2, <2>3 DEF Controller, q
  <1>2. CASE ~trackrd(p)
    <2>1. Put(p, u) = p
      BY <1>2 DEF Put
    <2> QED
      BY <1>2, <2>1
  <1> QED
    BY <1>1, <1>2

LEMMA TakeIs ==
  ASSUME NEW p \in Controller
  PROVE  /\ Take(p) \in Controller
         /\ Take(p).sel = p.sel /\ Take(p).track = p.track
         /\ Take(p).dmaen = p.dmaen /\ Take(p).write = p.write /\ Take(p).dsklen = p.dsklen
         /\ Take(p).dskstate = p.dskstate /\ Take(p).present = p.present
         /\ trackwr(p) /\ p.fifo # <<>> => Take(p).fifo = Tail(p.fifo)
         /\ p.fifo = <<>> => Take(p).fifo = <<>>
  <1>1. CASE trackwr(p) /\ p.fifo # <<>>
    <2> DEFINE q == Tail(p.fifo)
    <2>1. Take(p) = [p EXCEPT !.fifo = q]
      BY <1>1 DEF Take
    <2>2. q \in Seq(Unit)
      BY <1>1 DEF Controller
    <2> HIDE DEF q
    <2> QED
      BY <1>1, <2>1, <2>2 DEF Controller, q
  <1>2. CASE ~ (trackwr(p) /\ p.fifo # <<>>)
    <2>1. Take(p) = p
      BY <1>2 DEF Take
    <2> QED
      BY <1>2, <2>1
  <1> QED
    BY <1>1, <1>2

LEMMA StopIs ==
  ASSUME NEW p \in Controller
  PROVE  /\ Stop(p) \in Controller
         /\ Stop(p).sel = p.sel /\ Stop(p).track = p.track /\ Stop(p).write = p.write
         /\ Stop(p).present = p.present
         /\ ~Stop(p).dmaen /\ Stop(p).fifo = <<>> /\ Stop(p).dskstate = "idle"
  <1>1. ASSUME NEW b \in BOOLEAN, NEW q \in Seq(Unit), NEW z \in {"idle", "active"}, NEW l \in Nat
        PROVE  [p EXCEPT !.dmaen = b, !.fifo = q, !.dskstate = z, !.dsklen = l]
               = [sel |-> p.sel, track |-> p.track, dskstate |-> z, dmaen |-> b,
                  write |-> p.write, dsklen |-> l, fifo |-> q, present |-> p.present,
                  writable |-> p.writable]
    <2> DEFINE r == [p EXCEPT !.dmaen = b]  s == [r EXCEPT !.fifo = q]
               t == [s EXCEPT !.dskstate = z]
    <2>1. r = [sel |-> p.sel, track |-> p.track, dskstate |-> p.dskstate, dmaen |-> b,
               write |-> p.write, dsklen |-> p.dsklen, fifo |-> p.fifo, present |-> p.present,
               writable |-> p.writable]
      BY SMTT(30) DEF Controller
    <2>2. [p EXCEPT !.dmaen = b, !.fifo = q, !.dskstate = z, !.dsklen = l]
          = [t EXCEPT !.dsklen = l]
      OBVIOUS
    <2> HIDE DEF r
    <2>3. s = [sel |-> p.sel, track |-> p.track, dskstate |-> p.dskstate, dmaen |-> b,
               write |-> p.write, dsklen |-> p.dsklen, fifo |-> q, present |-> p.present,
               writable |-> p.writable]
      BY <2>1
    <2> HIDE DEF s
    <2>4. t = [sel |-> p.sel, track |-> p.track, dskstate |-> z, dmaen |-> b,
               write |-> p.write, dsklen |-> p.dsklen, fifo |-> q, present |-> p.present,
               writable |-> p.writable]
      BY <2>3
    <2> HIDE DEF t
    <2>5. [t EXCEPT !.dsklen = l]
          = [sel |-> p.sel, track |-> p.track, dskstate |-> z, dmaen |-> b,
             write |-> p.write, dsklen |-> l, fifo |-> q, present |-> p.present,
             writable |-> p.writable]
      BY <2>4
    <2> QED
      BY <2>2, <2>5
  <1>2. Stop(p) = [sel |-> p.sel, track |-> p.track, dskstate |-> "idle", dmaen |-> FALSE,
                   write |-> p.write, dsklen |-> 0, fifo |-> <<>>, present |-> p.present,
                   writable |-> p.writable]
    <2>1. Stop(p) = [p EXCEPT !.dmaen = FALSE, !.fifo = <<>>, !.dskstate = "idle", !.dsklen = 0]
      BY DEF Stop
    <2>2. <<>> \in Seq(Unit) /\ FALSE \in BOOLEAN /\ 0 \in Nat /\ "idle" \in {"idle", "active"}
      OBVIOUS
    <2>3. [p EXCEPT !.dmaen = FALSE, !.fifo = <<>>, !.dskstate = "idle", !.dsklen = 0]
               = [sel |-> p.sel, track |-> p.track, dskstate |-> "idle", dmaen |-> FALSE,
                  write |-> p.write, dsklen |-> 0, fifo |-> <<>>, present |-> p.present,
                  writable |-> p.writable]
      BY <1>1, <2>2, Zenon
    <2> QED
      BY <2>1, <2>3, Zenon
  <1>3. <<>> \in Seq(Unit)
    OBVIOUS
  <1> QED
    BY <1>2, <1>3 DEF Controller

LEMMA ToldIs ==
  ASSUME NEW p \in Controller
  PROVE  /\ Told(p) \in Controller
         /\ Told(p).sel = p.sel /\ Told(p).track = p.track /\ Told(p).dmaen = p.dmaen
         /\ Told(p).write = p.write /\ Told(p).dsklen = p.dsklen
         /\ Told(p).dskstate = p.dskstate /\ Told(p).fifo = p.fifo
         /\ Told(p).present = {d \in Drives : df[d].inserted}
  <1> DEFINE a == {d \in Drives : df[d].inserted}  b == {d \in Drives : df[d].writable}
  <1>1. a \in SUBSET Drives /\ b \in SUBSET Drives
    OBVIOUS
  <1>2. Told(p) = [p EXCEPT !.present = a, !.writable = b]
    BY DEF Told
  <1> HIDE DEF a, b
  <1>3. Told(p) = [sel |-> p.sel, track |-> p.track, dskstate |-> p.dskstate,
                   dmaen |-> p.dmaen, write |-> p.write, dsklen |-> p.dsklen,
                   fifo |-> p.fifo, present |-> a, writable |-> b]
    BY <1>2 DEF Controller
  <1> QED
    BY <1>1, <1>3 DEF Controller, a

-----------------------------------------------------------------------------
\* The invariant, for the steps of Paula and of the Amiga

\* These leave the server alone, let no DMA become active, and end what the
\* Amiga sees of a DMA with the DMA.
LEMMA HostSteps ==
  ASSUME IInv, UNCHANGED host_rest, Dma',
         paula' \in Controller, out' \in Seq(Written),
         paula'.present = paula.present,
         Active(paula') => /\ Active(paula) /\ paula'.sel = paula.sel
                           /\ paula'.track = paula.track /\ paula'.write = paula.write,
         pc = "first" /\ paula'.dmaen => Active(paula'),
         pc = "send" /\ Active(paula') => paula'.dsklen = paula.dsklen,
         last' = None \/ (last' = last /\ (last # None => Active(paula')))
  PROVE  IInv'
  <1>0. /\ UNCHANGED <<df, pc, sel, file, sector, buf, Track, Sector>>
        /\ TypeInv /\ Remembered /\ Reading /\ Steps /\ Order /\ Reported
    BY DEF IInv, host_rest, fw_vars
  <1>1. TypeInv'
    BY <1>0 DEF TypeInv
  <1>2. Remembered'
    BY <1>0 DEF Remembered
  <1>3. Active(paula') => Heads(paula') = Heads(paula)
    BY DEF Heads
  <1>4. Reading'
    BY <1>0, <1>3 DEF Reading
  <1>5. Steps'
    BY <1>0, <1>3 DEF Steps
  <1>6. Order'
    <2>1. CASE last' = None
      BY <2>1 DEF Order
    <2>2. CASE last' # None
      <3>1. last' = last /\ last # None /\ Active(paula')
        BY <2>2
      <3> QED
        BY <1>0, <1>3, <3>1 DEF Order
    <2> QED
      BY <2>1, <2>2
  <1>7. Reported'
    BY <1>0 DEF Reported
  <1> QED
    BY <1>1, <1>2, <1>4, <1>5, <1>6, <1>7 DEF IInv

LEMMA BlockDoneStep ==
  ASSUME IInv, BlockDone
  PROVE  IInv'
  <1>1. TypeInv /\ paula' = Stop(paula) /\ last' = None /\ out' = out /\ UNCHANGED host_rest
    BY DEF IInv, BlockDone
  <1>2. paula \in Controller /\ out \in Seq(Written)
    BY <1>1 DEF TypeInv
  <1>3. /\ paula' \in Controller /\ paula'.present = paula.present
        /\ ~paula'.dmaen /\ paula'.fifo = <<>> /\ ~Active(paula')
    BY <1>1, <1>2, StopIs DEF Active
  <1>4. Dma'
    BY <1>3 DEF Dma
  <1> QED
    BY <1>1, <1>2, <1>3, <1>4, HostSteps

LEMMA ReadDmaStep ==
  ASSUME IInv, ReadDma
  PROVE  IInv'
  <1>1. /\ TypeInv /\ Dma /\ Order /\ Steps /\ UNCHANGED <<host_rest, out, last>>
        /\ paula.dmaen /\ ~paula.write /\ paula.dskstate = "active" /\ paula.fifo # <<>>
        /\ paula' = [paula EXCEPT !.fifo = Tail(paula.fifo)]
    BY DEF IInv, ReadDma, amiga_vars
  <1>2. paula \in Controller /\ out \in Seq(Written)
    BY <1>1 DEF TypeInv
  <1>3. /\ paula' \in Controller /\ paula'.present = paula.present
        /\ paula'.sel = paula.sel /\ paula'.track = paula.track /\ paula'.dmaen = paula.dmaen
        /\ paula'.write = paula.write /\ paula'.dskstate = paula.dskstate
        /\ paula'.dsklen = paula.dsklen
    <2> DEFINE q == Tail(paula.fifo)
    <2>1. q \in Seq(Unit)
      BY <1>1, <1>2 DEF Controller
    <2> HIDE DEF q
    <2>2. paula' = [paula EXCEPT !.fifo = q]
      BY <1>1 DEF q
    <2> QED
      BY <1>2, <2>1, <2>2 DEF Controller
  <1>4. Dma'
    BY <1>1, <1>3 DEF Dma, Active
  <1> QED
    BY <1>1, <1>2, <1>3, <1>4, HostSteps DEF Active

LEMMA WriteDmaStep ==
  ASSUME IInv, WriteDma
  PROVE  IInv'
  <1>1. /\ TypeInv /\ Dma /\ Reading /\ UNCHANGED <<host_rest, last>>
        /\ trackwr(paula) /\ paula.dsklen # 0 /\ out' = Tail(out)
        /\ paula' = [paula EXCEPT !.fifo = Append(paula.fifo, out[1]),
                                  !.dsklen = paula.dsklen - 1]
    BY DEF IInv, WriteDma
  <1>2. paula \in Controller /\ out \in Seq(Written)
    BY <1>1 DEF TypeInv
  <1>3. paula.dskstate = "active" /\ paula.write /\ paula.dmaen /\ paula.dsklen = Len(out)
    BY <1>1 DEF Dma, Active, trackwr
  <1>4. out # <<>> /\ Len(out) \in Nat \ {0}
    BY <1>1, <1>2, <1>3
  <1>5. out' \in Seq(Written) /\ Len(out') = Len(out) - 1 /\ out[1] \in Written
    BY <1>1, <1>2, <1>4
  <1> DEFINE q == Append(paula.fifo, out[1])  l == paula.dsklen - 1
  <1>6. q \in Seq(Unit) /\ l \in Nat /\ l = Len(out')
    BY <1>2, <1>3, <1>4, <1>5 DEF Controller, Unit
  <1>7. paula' = [paula EXCEPT !.fifo = q, !.dsklen = l]
    BY <1>1
  <1> HIDE DEF q, l
  <1>8. paula' = [sel |-> paula.sel, track |-> paula.track, dskstate |-> paula.dskstate,
                  dmaen |-> paula.dmaen, write |-> paula.write, dsklen |-> l, fifo |-> q,
                  present |-> paula.present, writable |-> paula.writable]
    BY <1>2, <1>7 DEF Controller
  <1>9. paula' \in Controller
    BY <1>2, <1>6, <1>8 DEF Controller
  <1>10. /\ paula'.present = paula.present /\ paula'.sel = paula.sel
         /\ paula'.track = paula.track /\ paula'.dmaen = paula.dmaen
         /\ paula'.write = paula.write /\ paula'.dskstate = paula.dskstate /\ paula'.dsklen = l
    BY <1>8
  <1>11. Dma'
    BY <1>3, <1>6, <1>10 DEF Dma, Active
  <1>12. pc \notin {"first", "send"}
    BY <1>1, <1>3 DEF Reading, ReadPlaces, Active
  <1> QED
    BY <1>1, <1>3, <1>5, <1>9, <1>10, <1>11, <1>12, HostSteps DEF Active

\* Between two DMAs nothing is active, and nothing has been played.
LEMMA IdleFacts ==
  ASSUME IInv, AmigaIdle
  PROVE  /\ ~Active(paula) /\ paula.fifo = <<>> /\ ~paula.dmaen /\ pc # "first" /\ last = None
         /\ paula \in Controller /\ out \in Seq(Written)
  BY DEF IInv, AmigaIdle, TypeInv, Dma, Order

LEMMA SelectStep ==
  ASSUME IInv, Select
  PROVE  IInv'
  <1>1. PICK d \in Drives : paula' = [paula EXCEPT !.sel = d]
    BY DEF Select
  <1>2. AmigaIdle /\ UNCHANGED <<host_rest, out, last>>
    BY DEF Select, amiga_vars
  <1>3. /\ ~Active(paula) /\ paula.fifo = <<>> /\ ~paula.dmaen /\ last = None
        /\ paula \in Controller /\ out \in Seq(Written)
    BY <1>2, IdleFacts
  <1>4. /\ paula' \in Controller /\ paula'.present = paula.present /\ ~Active(paula')
        /\ ~paula'.dmaen /\ paula'.fifo = <<>>
    BY <1>1, <1>3 DEF Controller, Active
  <1>5. Dma'
    BY <1>4 DEF Dma
  <1> QED
    BY <1>2, <1>3, <1>4, <1>5, HostSteps

LEMMA StepStep ==
  ASSUME IInv, Step
  PROVE  IInv'
  <1>0. AmigaIdle /\ UNCHANGED <<host_rest, out, last>>
    BY DEF Step, amiga_vars
  <1>1. /\ ~Active(paula) /\ paula.fifo = <<>> /\ ~paula.dmaen /\ last = None
        /\ paula \in Controller /\ out \in Seq(Written)
    BY <1>0, IdleFacts
  <1>2. paula.sel \in Drives /\ paula.track \in [Drives -> Nat] /\ MaxTrack[paula.sel] \in Nat
    BY <1>1, Constants DEF Controller
  <1>3. PICK t \in 0..MaxTrack[paula.sel] : paula' = [paula EXCEPT !.track[paula.sel] = t]
    BY DEF Step
  <1> DEFINE h == [paula.track EXCEPT ![paula.sel] = t]
  <1>4. h \in [Drives -> Nat]
    BY <1>2
  <1>5. paula' = [paula EXCEPT !.track = h]
    BY <1>3
  <1> HIDE DEF h
  <1>6. /\ paula' \in Controller /\ paula'.present = paula.present /\ ~Active(paula')
        /\ ~paula'.dmaen /\ paula'.fifo = <<>>
    BY <1>1, <1>4, <1>5 DEF Controller, Active
  <1>7. Dma'
    BY <1>6 DEF Dma
  <1> QED
    BY <1>0, <1>1, <1>6, <1>7, HostSteps

\* A DMA that begins is not active before the next poll.
LEMMA BeginIs ==
  ASSUME NEW p \in Controller, NEW b \in BOOLEAN, NEW l \in Nat, NEW w \in BOOLEAN
  PROVE  LET q == [p EXCEPT !.dmaen = b, !.dsklen = l, !.write = w]
         IN  /\ q \in Controller /\ q.present = p.present /\ q.dskstate = p.dskstate
             /\ q.fifo = p.fifo /\ q.dsklen = l
             /\ q = [sel |-> p.sel, track |-> p.track, dskstate |-> p.dskstate, dmaen |-> b,
                     write |-> w, dsklen |-> l, fifo |-> p.fifo, present |-> p.present,
                     writable |-> p.writable]
  <1> DEFINE r == [p EXCEPT !.dmaen = b]  s == [r EXCEPT !.dsklen = l]
             t == [s EXCEPT !.write = w]
  <1>1. r = [sel |-> p.sel, track |-> p.track, dskstate |-> p.dskstate, dmaen |-> b,
             write |-> p.write, dsklen |-> p.dsklen, fifo |-> p.fifo, present |-> p.present,
             writable |-> p.writable]
    BY SMTT(30) DEF Controller
  <1>2. [p EXCEPT !.dmaen = b, !.dsklen = l, !.write = w] = t
    OBVIOUS
  <1> HIDE DEF r
  <1>3. s = [sel |-> p.sel, track |-> p.track, dskstate |-> p.dskstate, dmaen |-> b,
             write |-> p.write, dsklen |-> l, fifo |-> p.fifo, present |-> p.present,
             writable |-> p.writable]
    BY <1>1
  <1> HIDE DEF s
  <1>4. t = [sel |-> p.sel, track |-> p.track, dskstate |-> p.dskstate, dmaen |-> b,
             write |-> w, dsklen |-> l, fifo |-> p.fifo, present |-> p.present,
             writable |-> p.writable]
    BY <1>3
  <1> HIDE DEF t
  <1>5. t \in Controller
    BY <1>4 DEF Controller
  <1>6. /\ t.present = p.present /\ t.dskstate = p.dskstate /\ t.fifo = p.fifo /\ t.dsklen = l
    BY <1>4
  <1> QED
    BY <1>2, <1>4, <1>5, <1>6

LEMMA ReadTrackDmaStep ==
  ASSUME IInv, ReadTrackDma
  PROVE  IInv'
  <1>0. AmigaIdle /\ UNCHANGED <<host_rest, out, last>>
    BY DEF ReadTrackDma, amiga_vars
  <1>1. /\ ~Active(paula) /\ paula.fifo = <<>> /\ last = None /\ pc # "first"
        /\ paula \in Controller /\ out \in Seq(Written)
    BY <1>0, IdleFacts
  <1>2. PICK k \in 1..MaxUnits :
          paula' = [paula EXCEPT !.dmaen = TRUE, !.dsklen = k, !.write = FALSE]
    BY DEF ReadTrackDma
  <1>3. k \in Nat
    BY FloppyAssumption
  <1>4. LET q == [paula EXCEPT !.dmaen = TRUE, !.dsklen = k, !.write = FALSE]
        IN  /\ q \in Controller /\ q.present = paula.present /\ q.dskstate = paula.dskstate
            /\ q.fifo = paula.fifo /\ q.dsklen = k
            /\ q = [sel |-> paula.sel, track |-> paula.track, dskstate |-> paula.dskstate,
                    dmaen |-> TRUE, write |-> FALSE, dsklen |-> k, fifo |-> paula.fifo,
                    present |-> paula.present, writable |-> paula.writable]
    <2>1. TRUE \in BOOLEAN
      OBVIOUS
    <2>2. FALSE \in BOOLEAN
      OBVIOUS
    <2> QED
      BY <1>1, <1>3, <2>1, <2>2, BeginIs, Zenon
  <1>5. /\ paula' \in Controller /\ paula'.present = paula.present /\ ~Active(paula')
        /\ paula'.fifo = <<>> /\ ~paula'.write
    BY <1>1, <1>2, <1>4 DEF Active
  <1>6. Dma'
    BY <1>5 DEF Dma
  <1> QED
    BY <1>0, <1>1, <1>5, <1>6, HostSteps

LEMMA StreamTyped ==
  ASSUME NEW shape, NEW t \in Nat, NEW s \in Nat
  PROVE  Stream(shape, t, s) \in Seq(Written)
  <1>1. ASSUME NEW a \in Nat, NEW b \in Nat
        PROVE  Header(a, b) \in Written /\ Data(a, b) \in Written
    BY DEF Header, Data, Written
  <1>2. Gap \in Written /\ Sync \in Written /\ Part \in Written
    BY DEF Gap, Sync, Part, Written
  <1>3. t + 1 \in Nat /\ 0 \in Nat
    OBVIOUS
  <1>4. /\ Header(t, s) \in Written /\ Data(t, s) \in Written
        /\ Header(t, 0) \in Written /\ Data(t, 0) \in Written
        /\ Header(t + 1, s) \in Written /\ Data(t + 1, s) \in Written
    BY <1>1, <1>3
  <1> HIDE DEF Written, Header, Data, Gap, Sync, Part
  <1> QED
    BY <1>2, <1>4 DEF Stream

LEMMA WriteTrackDmaStep ==
  ASSUME IInv, WriteTrackDma
  PROVE  IInv'
  <1>0. AmigaIdle /\ UNCHANGED <<host_rest, last>>
    BY DEF WriteTrackDma
  <1>1. /\ ~Active(paula) /\ paula.fifo = <<>> /\ last = None /\ pc # "first"
        /\ paula \in Controller
    BY <1>0, IdleFacts
  <1>2. PICK shape \in Shapes, s \in 0..(SECTOR_COUNT - 1) :
          /\ out' = Stream(shape, paula.track[paula.sel], s)
          /\ paula' = [paula EXCEPT !.dmaen = TRUE, !.dsklen = Len(out'), !.write = TRUE]
    BY DEF WriteTrackDma
  <1>3. paula.track[paula.sel] \in Nat /\ s \in Nat
    BY <1>1, Constants DEF Controller
  <1>4. out' \in Seq(Written)
    BY <1>2, <1>3, StreamTyped
  <1> DEFINE l == Len(out')
  <1>5. l \in Nat
    BY <1>4
  <1>6. paula' = [paula EXCEPT !.dmaen = TRUE, !.dsklen = l, !.write = TRUE]
    BY <1>2
  <1> HIDE DEF l
  <1>7. LET q == [paula EXCEPT !.dmaen = TRUE, !.dsklen = l, !.write = TRUE]
        IN  /\ q \in Controller /\ q.present = paula.present /\ q.dskstate = paula.dskstate
            /\ q.fifo = paula.fifo /\ q.dsklen = l
            /\ q = [sel |-> paula.sel, track |-> paula.track, dskstate |-> paula.dskstate,
                    dmaen |-> TRUE, write |-> TRUE, dsklen |-> l, fifo |-> paula.fifo,
                    present |-> paula.present, writable |-> paula.writable]
    <2>1. TRUE \in BOOLEAN
      OBVIOUS
    <2> QED
      BY <1>1, <1>5, <2>1, BeginIs, Zenon
  <1>8. /\ paula' \in Controller /\ paula'.present = paula.present /\ ~Active(paula')
        /\ paula'.fifo = <<>> /\ paula'.dsklen = l
    BY <1>1, <1>6, <1>7 DEF Active
  <1>9. Dma'
    BY <1>8 DEF Dma, l
  <1> QED
    BY <1>0, <1>1, <1>4, <1>8, <1>9, HostSteps

LEMMA AbortStep ==
  ASSUME IInv, Abort
  PROVE  IInv'
  <1>1. TypeInv /\ paula' = Stop(paula) /\ last' = None /\ out' = <<>> /\ UNCHANGED host_rest
    BY DEF IInv, Abort
  <1>2. paula \in Controller /\ out' \in Seq(Written)
    BY <1>1 DEF TypeInv
  <1>3. /\ paula' \in Controller /\ paula'.present = paula.present
        /\ ~paula'.dmaen /\ paula'.fifo = <<>> /\ ~Active(paula')
    BY <1>1, <1>2, StopIs DEF Active
  <1>4. Dma'
    BY <1>3 DEF Dma
  <1> QED
    BY <1>1, <1>2, <1>3, <1>4, HostSteps

-----------------------------------------------------------------------------
\* What becomes of a drive

\* ... at a read request,
Placed(F, d, t, s, c) ==
    [F EXCEPT ![d].track = t, ![d].track_prev = t, ![d].sector_offset = s,
                 ![d].cluster_offset = c]

LEMMA PlacedIs ==
  ASSUME NEW F \in [Drives -> Drive], NEW d \in Drives, NEW t \in Nat,
         NEW s \in 0..(SECTOR_COUNT - 1), NEW c \in Nat
  PROVE  /\ Placed(F, d, t, s, c) \in [Drives -> Drive]
         /\ \A e \in Drives : e # d => Placed(F, d, t, s, c)[e] = F[e]
         /\ Placed(F, d, t, s, c)[d] = [inserted |-> F[d].inserted, writable |-> F[d].writable,
                    image |-> F[d].image, tracks |-> F[d].tracks, cluster_offset |-> c,
                    sector_offset |-> s, track |-> t, track_prev |-> t]
  <1> DEFINE f1 == [F EXCEPT ![d].track = t]  f2 == [f1 EXCEPT ![d].track_prev = t]
             f3 == [f2 EXCEPT ![d].sector_offset = s]  f4 == [f3 EXCEPT ![d].cluster_offset = c]
             x == F[d]
             y == [inserted |-> F[d].inserted, writable |-> F[d].writable,
                   image |-> F[d].image, tracks |-> F[d].tracks, cluster_offset |-> c,
                   sector_offset |-> s, track |-> t, track_prev |-> t]
  <1>0. Placed(F, d, t, s, c) = f4
    BY DEF Placed
  <1>1. y \in Drive
    BY DEF Drive
  <1>2. DOMAIN F = Drives
    OBVIOUS
  <1>3. /\ f1 = [F EXCEPT ![d] = [F[d] EXCEPT !.track = t]]
        /\ f2 = [f1 EXCEPT ![d] = [f1[d] EXCEPT !.track_prev = t]]
        /\ f3 = [f2 EXCEPT ![d] = [f2[d] EXCEPT !.sector_offset = s]]
        /\ f4 = [f3 EXCEPT ![d] = [f3[d] EXCEPT !.cluster_offset = c]]
    OBVIOUS
  <1>4. /\ DOMAIN f1 = Drives /\ f1 = [e \in Drives |-> f1[e]]
        /\ f1[d] = [x EXCEPT !.track = t]
        /\ \A e \in Drives : e # d => f1[e] = F[e]
    BY <1>2
  <1> HIDE DEF f1
  <1>5. /\ DOMAIN f2 = Drives /\ f2 = [e \in Drives |-> f2[e]]
        /\ f2[d] = [f1[d] EXCEPT !.track_prev = t]
        /\ \A e \in Drives : e # d => f2[e] = F[e]
    BY <1>4
  <1> HIDE DEF f2
  <1>6. /\ DOMAIN f3 = Drives /\ f3 = [e \in Drives |-> f3[e]]
        /\ f3[d] = [f2[d] EXCEPT !.sector_offset = s]
        /\ \A e \in Drives : e # d => f3[e] = F[e]
    BY <1>5
  <1> HIDE DEF f3
  <1>7. /\ DOMAIN f4 = Drives /\ f4 = [e \in Drives |-> f4[e]]
        /\ f4[d] = [f3[d] EXCEPT !.cluster_offset = c]
        /\ \A e \in Drives : e # d => f4[e] = F[e]
    BY <1>6
  <1> HIDE DEF f4, x
  <1>8. x \in Drive
    BY DEF x
  <1>9. f1[d]
        = [inserted |-> x.inserted, writable |-> x.writable, image |-> x.image,
           tracks |-> x.tracks, cluster_offset |-> x.cluster_offset,
           sector_offset |-> x.sector_offset, track |-> t, track_prev |-> x.track_prev]
    BY <1>4, <1>8 DEF Drive
  <1>10. f2[d] = [inserted |-> x.inserted, writable |-> x.writable, image |-> x.image,
           tracks |-> x.tracks, cluster_offset |-> x.cluster_offset,
           sector_offset |-> x.sector_offset, track |-> t, track_prev |-> t]
    BY <1>5, <1>9
  <1>11. f3[d] = [inserted |-> x.inserted, writable |-> x.writable, image |-> x.image,
           tracks |-> x.tracks, cluster_offset |-> x.cluster_offset,
           sector_offset |-> s, track |-> t, track_prev |-> t]
    BY <1>6, <1>10
  <1>12. f4[d] = y
    BY <1>7, <1>11 DEF x
  <1> HIDE DEF y
  <1>13. f4 \in [Drives -> Drive]
    <2>1. \A e \in Drives : f4[e] \in Drive
      BY <1>1, <1>7, <1>12
    <2> QED
      BY <1>7, <2>1
  <1> QED
    BY <1>0, <1>7, <1>12, <1>13 DEF y

\* ... of SendSector,
Sent(F, d, s, c) ==
    [F EXCEPT ![d].sector_offset = s, ![d].cluster_offset = c]

LEMMA SentIs ==
  ASSUME NEW F \in [Drives -> Drive], NEW d \in Drives,
         NEW s \in 0..(SECTOR_COUNT - 1), NEW c \in Nat
  PROVE  /\ Sent(F, d, s, c) \in [Drives -> Drive]
         /\ \A e \in Drives : e # d => Sent(F, d, s, c)[e] = F[e]
         /\ Sent(F, d, s, c)[d] = [inserted |-> F[d].inserted, writable |-> F[d].writable,
                     image |-> F[d].image, tracks |-> F[d].tracks,
                     cluster_offset |-> c, sector_offset |-> s, track |-> F[d].track,
                     track_prev |-> F[d].track_prev]
  <1> DEFINE f1 == [F EXCEPT ![d].sector_offset = s]  f2 == [f1 EXCEPT ![d].cluster_offset = c]
             x == F[d]
             y == [inserted |-> F[d].inserted, writable |-> F[d].writable,
                   image |-> F[d].image, tracks |-> F[d].tracks, cluster_offset |-> c,
                   sector_offset |-> s, track |-> F[d].track,
                   track_prev |-> F[d].track_prev]
  <1>0. Sent(F, d, s, c) = f2
    BY DEF Sent
  <1>1. y \in Drive
    BY DEF Drive
  <1>2. DOMAIN F = Drives
    OBVIOUS
  <1>3. /\ f1 = [F EXCEPT ![d] = [F[d] EXCEPT !.sector_offset = s]]
        /\ f2 = [f1 EXCEPT ![d] = [f1[d] EXCEPT !.cluster_offset = c]]
    OBVIOUS
  <1>4. /\ DOMAIN f1 = Drives /\ f1[d] = [x EXCEPT !.sector_offset = s]
        /\ \A e \in Drives : e # d => f1[e] = F[e]
    BY <1>2
  <1> HIDE DEF f1
  <1>5. /\ f2 = [e \in Drives |-> f2[e]] /\ f2[d] = [f1[d] EXCEPT !.cluster_offset = c]
        /\ \A e \in Drives : e # d => f2[e] = F[e]
    BY <1>4
  <1> HIDE DEF f2, x
  <1>6. x \in Drive
    BY DEF x
  <1>7. f1[d] = [inserted |-> x.inserted, writable |-> x.writable, image |-> x.image,
                 tracks |-> x.tracks, cluster_offset |-> x.cluster_offset,
                 sector_offset |-> s, track |-> x.track, track_prev |-> x.track_prev]
    BY <1>4, <1>6 DEF Drive
  <1>8. f2[d] = y
    BY <1>5, <1>7 DEF x
  <1> HIDE DEF y
  <1>9. f2 \in [Drives -> Drive]
    <2>1. \A e \in Drives : f2[e] \in Drive
      BY <1>1, <1>5, <1>8
    <2> QED
      BY <1>5, <2>1
  <1> QED
    BY <1>0, <1>5, <1>8, <1>9 DEF y

\* ... at a write request,
Requested(F, d, t, v) ==
    [F EXCEPT ![d].track = t, ![d].track_prev = v]

LEMMA RequestedIs ==
  ASSUME NEW F \in [Drives -> Drive], NEW d \in Drives, NEW t \in Nat, NEW v \in {-1}
  PROVE  /\ Requested(F, d, t, v) \in [Drives -> Drive]
         /\ \A e \in Drives : e # d => Requested(F, d, t, v)[e] = F[e]
         /\ Requested(F, d, t, v)[d] = [inserted |-> F[d].inserted, writable |-> F[d].writable,
                     image |-> F[d].image, tracks |-> F[d].tracks,
                     cluster_offset |-> F[d].cluster_offset,
                     sector_offset |-> F[d].sector_offset, track |-> t,
                     track_prev |-> v]
  <1> DEFINE f1 == [F EXCEPT ![d].track = t]  f2 == [f1 EXCEPT ![d].track_prev = v]
             x == F[d]
             y == [inserted |-> F[d].inserted, writable |-> F[d].writable,
                   image |-> F[d].image, tracks |-> F[d].tracks,
                   cluster_offset |-> F[d].cluster_offset,
                   sector_offset |-> F[d].sector_offset, track |-> t, track_prev |-> v]
  <1>0. Requested(F, d, t, v) = f2
    BY DEF Requested
  <1>1. y \in Drive
    BY DEF Drive
  <1>2. DOMAIN F = Drives
    OBVIOUS
  <1>3. /\ f1 = [F EXCEPT ![d] = [F[d] EXCEPT !.track = t]]
        /\ f2 = [f1 EXCEPT ![d] = [f1[d] EXCEPT !.track_prev = v]]
    OBVIOUS
  <1>4. /\ DOMAIN f1 = Drives /\ f1[d] = [x EXCEPT !.track = t]
        /\ \A e \in Drives : e # d => f1[e] = F[e]
    BY <1>2
  <1> HIDE DEF f1
  <1>5. /\ f2 = [e \in Drives |-> f2[e]] /\ f2[d] = [f1[d] EXCEPT !.track_prev = v]
        /\ \A e \in Drives : e # d => f2[e] = F[e]
    BY <1>4
  <1> HIDE DEF f2, x
  <1>6. x \in Drive
    BY DEF x
  <1>7. f1[d] = [inserted |-> x.inserted, writable |-> x.writable, image |-> x.image,
                 tracks |-> x.tracks, cluster_offset |-> x.cluster_offset,
                 sector_offset |-> x.sector_offset, track |-> t,
                 track_prev |-> x.track_prev]
    BY <1>4, <1>6 DEF Drive
  <1>8. f2[d] = y
    BY <1>5, <1>7 DEF x
  <1> HIDE DEF y
  <1>9. f2 \in [Drives -> Drive]
    <2>1. \A e \in Drives : f2[e] \in Drive
      BY <1>1, <1>5, <1>8
    <2> QED
      BY <1>5, <2>1
  <1> QED
    BY <1>0, <1>5, <1>8, <1>9 DEF y

\* ... and when its disk is taken out.
Ejected(F, d, a, b) ==
    [F EXCEPT ![d].inserted = a, ![d].writable = b]

LEMMA EjectedIs ==
  ASSUME NEW F \in [Drives -> Drive], NEW d \in Drives, NEW a \in BOOLEAN, NEW b \in BOOLEAN
  PROVE  /\ Ejected(F, d, a, b) \in [Drives -> Drive]
         /\ \A e \in Drives : e # d => Ejected(F, d, a, b)[e] = F[e]
         /\ Ejected(F, d, a, b)[d] = [inserted |-> a, writable |-> b, image |-> F[d].image,
                     tracks |-> F[d].tracks, cluster_offset |-> F[d].cluster_offset,
                     sector_offset |-> F[d].sector_offset, track |-> F[d].track,
                     track_prev |-> F[d].track_prev]
  <1> DEFINE f1 == [F EXCEPT ![d].inserted = a]  f2 == [f1 EXCEPT ![d].writable = b]
             x == F[d]
             y == [inserted |-> a, writable |-> b, image |-> F[d].image,
                   tracks |-> F[d].tracks, cluster_offset |-> F[d].cluster_offset,
                   sector_offset |-> F[d].sector_offset, track |-> F[d].track,
                   track_prev |-> F[d].track_prev]
  <1>0. Ejected(F, d, a, b) = f2
    BY DEF Ejected
  <1>1. y \in Drive
    BY DEF Drive
  <1>2. DOMAIN F = Drives
    OBVIOUS
  <1>3. /\ f1 = [F EXCEPT ![d] = [F[d] EXCEPT !.inserted = a]]
        /\ f2 = [f1 EXCEPT ![d] = [f1[d] EXCEPT !.writable = b]]
    OBVIOUS
  <1>4. /\ DOMAIN f1 = Drives /\ f1[d] = [x EXCEPT !.inserted = a]
        /\ \A e \in Drives : e # d => f1[e] = F[e]
    BY <1>2
  <1> HIDE DEF f1
  <1>5. /\ f2 = [e \in Drives |-> f2[e]] /\ f2[d] = [f1[d] EXCEPT !.writable = b]
        /\ \A e \in Drives : e # d => f2[e] = F[e]
    BY <1>4
  <1> HIDE DEF f2, x
  <1>6. x \in Drive
    BY DEF x
  <1>7. f1[d] = [inserted |-> a, writable |-> x.writable, image |-> x.image,
                 tracks |-> x.tracks, cluster_offset |-> x.cluster_offset,
                 sector_offset |-> x.sector_offset, track |-> x.track,
                 track_prev |-> x.track_prev]
    BY <1>4, <1>6 DEF Drive
  <1>8. f2[d] = y
    BY <1>5, <1>7 DEF x
  <1> HIDE DEF y
  <1>9. f2 \in [Drives -> Drive]
    <2>1. \A e \in Drives : f2[e] \in Drive
      BY <1>1, <1>5, <1>8
    <2> QED
      BY <1>5, <2>1
  <1> QED
    BY <1>0, <1>5, <1>8, <1>9 DEF y

-----------------------------------------------------------------------------
\* The invariant, for the steps of the server

LEMMA TrackStartIs ==
  ASSUME TypeInv, NEW d \in Drives, NEW t \in Nat
  PROVE  /\ TrackStart(d, t) \in Cursor
         /\ TrackStart(d, t).image = df[d].image
         /\ TrackStart(d, t).sector = t * SECTOR_COUNT
         /\ t < df[d].tracks => InPlace(TrackStart(d, t))
  <1>1. df[d] \in Drive /\ df[d].image \in Image
    BY DEF TypeInv, Drive
  <1>2. cache(df[d].image, t) = ClusterOf(t * SECTOR_COUNT) /\ cache(df[d].image, t) \in Nat
    BY <1>1, CacheIs
  <1>3. t * SECTOR_COUNT \in Nat
    BY Constants
  <1> DEFINE c == IF t < df[d].tracks THEN cache(df[d].image, t) ELSE 0
  <1>4. c \in Nat /\ (t < df[d].tracks => c = ClusterOf(t * SECTOR_COUNT))
    BY <1>2
  <1>5. TrackStart(d, t) = [image |-> df[d].image, sector |-> t * SECTOR_COUNT, cluster |-> c]
    BY DEF TrackStart
  <1> HIDE DEF c
  <1> QED
    BY <1>1, <1>3, <1>4, <1>5 DEF Cursor, InPlace

LEMMA PolledFacts ==
  ASSUME IInv, paula' = Polled(paula), out' = out
  PROVE  /\ paula' \in Controller /\ Dma'
         /\ paula'.sel = paula.sel /\ Heads(paula') = Heads(paula)
         /\ paula'.dmaen = paula.dmaen /\ paula'.write = paula.write
         /\ paula'.fifo = paula.fifo
         /\ Active(paula) => paula' = paula
         /\ Active(paula') => Active(paula) \/ paula.dmaen
         /\ last # None => paula' = paula
  <1>1. paula \in Controller /\ Dma /\ Order
    BY DEF IInv, TypeInv
  <1>2. /\ paula' \in Controller /\ paula'.sel = paula.sel /\ paula'.track = paula.track
        /\ paula'.dmaen = paula.dmaen /\ paula'.write = paula.write
        /\ paula'.dsklen = paula.dsklen /\ paula'.fifo = paula.fifo
        /\ Active(paula) => paula' = paula
        /\ Active(paula') => Active(paula) \/ paula.dmaen
    BY <1>1, PolledIs
  <1>3. Dma'
    BY <1>1, <1>2 DEF Dma
  <1> QED
    BY <1>1, <1>2, <1>3 DEF Heads, Order

\* The steps of WriteTrack, none of which touches a drive.
LEMMA WriteSteps ==
  ASSUME IInv, pc \in WritePlaces, df' = df, last' = last, out' = out,
         pc' \in WritePlaces \cup {"status"}, paula' \in Controller, Dma',
         file' \in Cursor, sel' \in Drives, sector' \in Nat, buf' \in Int \cup {None},
         Track' \in Nat, Sector' \in Nat
  PROVE  IInv'
  <1>1. TypeInv /\ Remembered /\ Order
    BY DEF IInv
  <1>2. TypeInv'
    BY <1>1 DEF TypeInv
  <1>3. Remembered'
    BY <1>1 DEF Remembered
  <1>4. last' = None
    BY <1>1 DEF Order
  <1>5. Order'
    BY <1>4 DEF Order
  <1>6. pc' \notin ReadPlaces /\ pc' # "ui"
    BY DEF WritePlaces, ReadPlaces
  <1>7. Reading' /\ Steps' /\ Reported'
    BY <1>6 DEF Reading, Steps, Reported, ReadPlaces
  <1> QED
    BY <1>2, <1>3, <1>5, <1>7 DEF IInv

LEMMA FinishFacts ==
  ASSUME Finish
  PROVE  /\ pc' = "status" /\ file' \in Cursor /\ sel' \in Drives /\ sector' \in Nat
         /\ buf' \in Int \cup {None} /\ Track' \in Nat /\ Sector' \in Nat
  <1>1. Closed \in Cursor
    BY DEF Closed, Cursor, Image
  <1> QED
    BY <1>1, Constants DEF Finish

LEMMA SyncPollStep ==
  ASSUME IInv, SyncPoll
  PROVE  IInv'
  <1>1. /\ pc = "sync" /\ paula' = Polled(paula) /\ out' = out /\ last' = last /\ df' = df
        /\ TypeInv
    BY DEF SyncPoll, amiga_vars, IInv
  <1>2. \/ Finish
        \/ pc' \in {"sync", "word"} /\ UNCHANGED <<sel, file, sector, buf, Track, Sector>>
    <2> DEFINE a == Answer(paula)
               over == ~a.wr \/ a.track # df[sel].track \/ (a.cnt = 0 /\ ~a.dma)
    <2>1. IF over THEN Finish
          ELSE /\ pc' = IF n' = 0 THEN "sync" ELSE "word"
               /\ UNCHANGED <<sel, file, sector, buf, Track, Sector>>
      BY DEF SyncPoll
    <2> HIDE DEF over
    <2> QED
      BY <2>1
  <1>3. pc \in WritePlaces
    BY <1>1 DEF WritePlaces
  <1>4. paula' \in Controller /\ Dma'
    BY <1>1, PolledFacts
  <1>5. CASE Finish
    BY <1>1, <1>3, <1>4, <1>5, FinishFacts, WriteSteps
  <1>6. CASE pc' \in {"sync", "word"} /\ UNCHANGED <<sel, file, sector, buf, Track, Sector>>
    <2>1. pc' \in WritePlaces
      BY <1>6 DEF WritePlaces
    <2>2. /\ file' \in Cursor /\ sel' \in Drives /\ sector' \in Nat
          /\ buf' \in Int \cup {None} /\ Track' \in Nat /\ Sector' \in Nat
      BY <1>1, <1>6 DEF TypeInv
    <2> QED
      BY <1>1, <1>3, <1>4, <2>1, <2>2, WriteSteps
  <1> QED
    BY <1>2, <1>5, <1>6

LEMMA TakeFacts ==
  ASSUME IInv, paula' = Take(paula), out' = out
  PROVE  paula' \in Controller /\ Dma'
  <1>1. paula \in Controller /\ Dma
    BY DEF IInv, TypeInv
  <1>2. /\ paula' \in Controller /\ paula'.dmaen = paula.dmaen /\ paula'.write = paula.write
        /\ paula'.dsklen = paula.dsklen /\ paula'.dskstate = paula.dskstate
        /\ paula.fifo = <<>> => paula'.fifo = <<>>
    BY <1>1, TakeIs
  <1>3. Dma'
    BY <1>1, <1>2 DEF Dma, Active
  <1> QED
    BY <1>2, <1>3

LEMMA SyncWordStep ==
  ASSUME IInv, SyncWord
  PROVE  IInv'
  <1>1. /\ pc = "word" /\ paula' = Take(paula) /\ out' = out /\ last' = last /\ df' = df
        /\ UNCHANGED <<sel, file, sector, buf, Track, Sector>> /\ TypeInv
        /\ pc' \in {"headpoll", "sync", "word"}
    BY DEF SyncWord, write_rest, amiga_vars, IInv
  <1>2. pc \in WritePlaces /\ pc' \in WritePlaces
    BY <1>1 DEF WritePlaces
  <1>3. paula' \in Controller /\ Dma'
    BY <1>1, TakeFacts
  <1>4. /\ file' \in Cursor /\ sel' \in Drives /\ sector' \in Nat
        /\ buf' \in Int \cup {None} /\ Track' \in Nat /\ Sector' \in Nat
    BY <1>1 DEF TypeInv
  <1> QED
    BY <1>1, <1>2, <1>3, <1>4, WriteSteps

LEMMA WaitStep ==
  ASSUME IInv, HeaderPoll \/ DataPoll
  PROVE  IInv'
  <1>1. PICK from \in {"headpoll", "datapoll"}, to \in {"head", "data"}, enough \in Nat :
          Wait(from, to, enough)
    BY DEF HeaderPoll, DataPoll
  <1>2. /\ pc = from /\ paula' = Polled(paula) /\ out' = out /\ last' = last /\ df' = df
        /\ UNCHANGED <<sel, file, sector, buf, Track, Sector>> /\ TypeInv
        /\ pc' \in {"sync", to, from}
    BY <1>1 DEF Wait, write_rest, amiga_vars, IInv
  <1>3. pc \in WritePlaces /\ pc' \in WritePlaces
    BY <1>2 DEF WritePlaces
  <1>4. paula' \in Controller /\ Dma'
    BY <1>2, PolledFacts
  <1>5. /\ file' \in Cursor /\ sel' \in Drives /\ sector' \in Nat
        /\ buf' \in Int \cup {None} /\ Track' \in Nat /\ Sector' \in Nat
    BY <1>2 DEF TypeInv
  <1> QED
    BY <1>2, <1>3, <1>4, <1>5, WriteSteps

LEMMA NextWordIs ==
  ASSUME NEW p \in Controller
  PROVE  LET h == NextWord(p)
         IN  h.k = "head" => h.track \in Nat /\ h.sector \in Nat
  <1> DEFINE h == NextWord(p)
  <1>1. CASE trackwr(p) /\ p.fifo # <<>>
    <2>1. h = p.fifo[1] /\ p.fifo[1] \in Unit
      BY <1>1 DEF NextWord, Controller
    <2> QED
      BY <2>1 DEF Unit, Written, Played
  <1>2. CASE ~ (trackwr(p) /\ p.fifo # <<>>)
    <2>1. h = Zero
      BY <1>2 DEF NextWord
    <2> QED
      BY <2>1 DEF Zero
  <1> QED
    BY <1>1, <1>2

\* The cursor, moved from one sector of a track to another.
LEMMA MovedIs ==
  ASSUME TypeInv, NEW t \in Nat, NEW s \in Nat
  PROVE  LET from == IF s < sector THEN TrackStart(sel, t) ELSE file
             ahead == IF s < sector THEN s ELSE s - sector
         IN  /\ from \in Cursor /\ ahead \in Nat
             /\ Skip(from, ahead) = Ahead(from, ahead) /\ Skip(from, ahead) \in Cursor
  <1>1. sel \in Drives /\ file \in Cursor /\ sector \in Nat
    BY DEF TypeInv
  <1>2. CASE s < sector
    BY <1>1, <1>2, TrackStartIs, SkipIs
  <1>3. CASE ~ (s < sector)
    <2>1. s - sector \in Nat
      BY <1>1, <1>3
    <2> QED
      BY <1>1, <1>3, <2>1, SkipIs
  <1> QED
    BY <1>2, <1>3

LEMMA GetHeaderStep ==
  ASSUME IInv, GetHeader
  PROVE  IInv'
  <1> DEFINE h == NextWord(paula)
             mine == h.k = "head" /\ h.track = df[sel].track
             from == IF h.sector < sector THEN TrackStart(sel, h.track) ELSE file
             ahead == IF h.sector < sector THEN h.sector ELSE h.sector - sector
  <1>1. /\ pc = "head" /\ paula' = Take(paula) /\ out' = out /\ last' = last /\ df' = df
        /\ UNCHANGED <<sel, buf>> /\ TypeInv
    BY DEF GetHeader, write_rest, amiga_vars, IInv
  <1>2. pc \in WritePlaces
    BY <1>1 DEF WritePlaces
  <1>3. paula' \in Controller /\ Dma' /\ paula \in Controller
    BY <1>1, TakeFacts DEF TypeInv
  <1>4. sel' \in Drives /\ buf' \in Int \cup {None}
    BY <1>1 DEF TypeInv
  <1>5. IF mine
        THEN /\ file' = Skip(from, ahead)
             /\ sector' = h.sector /\ Track' = h.track /\ Sector' = h.sector
             /\ pc' = "datapoll"
        ELSE pc' = "sync" /\ UNCHANGED <<file, sector, Track, Sector>>
    BY DEF GetHeader
  <1>6. CASE mine
    <2>1. h.track \in Nat /\ h.sector \in Nat
      BY <1>3, <1>6, NextWordIs
    <2>2. Skip(from, ahead) \in Cursor
      <3> HIDE DEF h
      <3> QED
        BY <1>1, <2>1, MovedIs
    <2>3. pc' \in WritePlaces
      BY <1>5, <1>6 DEF WritePlaces
    <2>4. file' \in Cursor /\ sector' \in Nat /\ Track' \in Nat /\ Sector' \in Nat
      <3> HIDE DEF h, from, ahead
      <3> QED
        BY <1>5, <1>6, <2>1, <2>2
    <2> QED
      BY <1>1, <1>2, <1>3, <1>4, <2>3, <2>4, WriteSteps
  <1>7. CASE ~mine
    <2>1. pc' \in WritePlaces /\ UNCHANGED <<file, sector, Track, Sector>>
      BY <1>5, <1>7 DEF WritePlaces
    <2>2. file' \in Cursor /\ sector' \in Nat /\ Track' \in Nat /\ Sector' \in Nat
      BY <1>1, <2>1 DEF TypeInv
    <2> QED
      BY <1>1, <1>2, <1>3, <1>4, <2>1, <2>2, WriteSteps
  <1> QED
    BY <1>6, <1>7

LEMMA GetDataStep ==
  ASSUME IInv, GetData
  PROVE  IInv'
  <1>1. /\ pc = "data" /\ paula' = Take(paula) /\ out' = out /\ last' = last /\ df' = df
        /\ UNCHANGED <<sel, file, sector, buf, Track, Sector>> /\ TypeInv
        /\ pc' = "sync"
    BY DEF GetData, amiga_vars, IInv
  <1>2. pc \in WritePlaces /\ pc' \in WritePlaces
    BY <1>1 DEF WritePlaces
  <1>3. paula' \in Controller /\ Dma'
    BY <1>1, TakeFacts
  <1>4. /\ file' \in Cursor /\ sel' \in Drives /\ sector' \in Nat
        /\ buf' \in Int \cup {None} /\ Track' \in Nat /\ Sector' \in Nat
    BY <1>1 DEF TypeInv
  <1> QED
    BY <1>1, <1>2, <1>3, <1>4, WriteSteps

LEMMA FirstPollStep ==
  ASSUME IInv, FirstPoll
  PROVE  IInv'
  <1>1. /\ pc = "first" /\ pc' = "fileread" /\ paula' = Polled(paula)
        /\ UNCHANGED <<df, sel, file, sector, buf, Track, Sector, out, last>>
        /\ TypeInv /\ Remembered /\ Reading /\ Steps /\ Order
    BY DEF FirstPoll, read_rest, amiga_vars, IInv
  <1>2. /\ paula' \in Controller /\ Dma' /\ paula'.sel = paula.sel
        /\ Heads(paula') = Heads(paula) /\ paula'.write = paula.write
        /\ Active(paula') => Active(paula) \/ paula.dmaen
        /\ last # None => paula' = paula
    BY <1>1, PolledFacts
  <1>3. TypeInv'
    BY <1>1, <1>2 DEF TypeInv, ReadPlaces
  <1>4. Remembered'
    BY <1>1 DEF Remembered
  <1>5. Active(paula') => Active(paula)
    BY <1>1, <1>2 DEF Steps
  <1>6. Reading'
    BY <1>1, <1>2, <1>5 DEF Reading, ReadPlaces
  <1>7. Steps' /\ Reported'
    BY <1>1 DEF Steps, Reported
  <1>8. Order'
    BY <1>1, <1>2 DEF Order, WritePlaces
  <1> QED
    BY <1>2, <1>3, <1>4, <1>6, <1>7, <1>8 DEF IInv

LEMMA FileReadStep ==
  ASSUME IInv, FileRead
  PROVE  IInv'
  <1>1. /\ pc = "fileread" /\ pc' = "check" /\ buf' = Place(file)
        /\ UNCHANGED <<df, sel, file, sector, paula, Track, Sector, out, last>>
        /\ TypeInv /\ Dma /\ Remembered /\ Reading /\ Order
    BY DEF FileRead, read_rest, amiga_vars, IInv
  <1>2. buf' \in Int
    BY <1>1, PlaceIs DEF TypeInv
  <1>3. TypeInv'
    BY <1>1, <1>2 DEF TypeInv, ReadPlaces
  <1>4. Remembered' /\ Dma'
    BY <1>1 DEF Remembered, Dma
  <1>5. Reading'
    BY <1>1 DEF Reading, ReadPlaces
  <1>6. buf' = Place(file')
    BY <1>1
  <1>7. Steps' /\ Reported'
    BY <1>1, <1>6 DEF Steps, Reported
  <1>8. Order'
    BY <1>1 DEF Order, WritePlaces
  <1> QED
    BY <1>3, <1>4, <1>5, <1>7, <1>8 DEF IInv

LEMMA CheckRequestStep ==
  ASSUME IInv, CheckRequest
  PROVE  IInv'
  <1>1. /\ pc = "check" /\ paula' = Polled(paula)
        /\ UNCHANGED <<df, sel, file, sector, buf, Track, Sector, out, last>>
        /\ TypeInv /\ Remembered /\ Reading /\ Steps /\ Order
    BY DEF CheckRequest, read_rest, amiga_vars, IInv
  <1>2. /\ paula' \in Controller /\ Dma'
        /\ Active(paula) => paula' = paula
        /\ last # None => paula' = paula
    BY <1>1, PolledFacts
  <1>3. \/ pc' = "stop"
        \/ /\ pc' = "send" /\ Answer(paula).rd
           /\ df[sel].track = Seen(Answer(paula).track, df[sel])
    BY DEF CheckRequest, Seen
  <1>4. TypeInv'
    BY <1>1, <1>2, <1>3 DEF TypeInv, ReadPlaces
  <1>5. Remembered'
    BY <1>1 DEF Remembered
  <1>6. Order'
    BY <1>1, <1>2, <1>3 DEF Order, WritePlaces
  <1>7. CASE pc' = "stop"
    <2>1. Reading' /\ Steps' /\ Reported'
      BY <1>7 DEF Reading, Steps, Reported, ReadPlaces
    <2> QED
      BY <1>2, <1>4, <1>5, <1>6, <2>1 DEF IInv
  <1>8. CASE pc' # "stop"
    <2>1. pc' = "send" /\ Answer(paula).rd /\ df[sel].track = Seen(Heads(paula), df[sel])
      BY <1>3, <1>8 DEF Answer, Heads
    <2>2. Active(paula) /\ paula.dsklen # 0
      BY <2>1 DEF Answer, trackrd, Active
    <2>3. paula' = paula
      BY <1>2, <2>2
    <2>4. Reading'
      BY <1>1, <2>1, <2>3 DEF Reading, ReadPlaces
    <2>5. df[sel].track < df[sel].tracks
      <3> DEFINE x == df[sel]  t == Heads(paula)
      <3>1. x \in Drive /\ t \in Nat
        BY <1>1 DEF TypeInv, Controller, Heads
      <3>2. x.track \in Nat /\ x.tracks \in Nat /\ x.track = Seen(t, x)
        BY <2>1, <3>1 DEF Drive
      <3> HIDE DEF x, t
      <3>3. x.track < x.tracks
        BY <3>1, <3>2 DEF Seen
      <3> QED
        BY <3>3 DEF x
    <2>6. buf' = Place(file')
      BY <1>1 DEF Steps
    <2>7. Steps'
      BY <1>1, <2>1, <2>2, <2>3, <2>5, <2>6 DEF Steps
    <2>8. Reported'
      BY <2>1 DEF Reported
    <2> QED
      BY <1>2, <1>4, <1>5, <1>6, <2>4, <2>7, <2>8 DEF IInv
  <1> QED
    BY <1>7, <1>8

LEMMA StopReadingStep ==
  ASSUME IInv, StopReading
  PROVE  IInv'
  <1>1. /\ Finish /\ UNCHANGED <<df, paula, out, last>>
        /\ TypeInv /\ Dma /\ Remembered /\ Order
    BY DEF StopReading, amiga_vars, IInv
  <1>2. /\ pc' = "status" /\ file' \in Cursor /\ sel' \in Drives /\ sector' \in Nat
        /\ buf' \in Int \cup {None} /\ Track' \in Nat /\ Sector' \in Nat
    BY <1>1, FinishFacts
  <1>3. TypeInv'
    BY <1>1, <1>2 DEF TypeInv
  <1>4. Remembered' /\ Dma'
    BY <1>1 DEF Remembered, Dma
  <1>5. Reading' /\ Steps' /\ Reported'
    BY <1>2 DEF Reading, Steps, Reported, ReadPlaces
  <1>6. Order'
    BY <1>1, <1>2 DEF Order, WritePlaces
  <1> QED
    BY <1>3, <1>4, <1>5, <1>6 DEF IInv

\* What ReadTrack reads, it reads from the sector whose number it sends.
LEMMA ReadInPlace ==
  ASSUME IInv, pc \in ReadPlaces, df[sel].track < df[sel].tracks
  PROVE  InPlace(file)
  <1>1. TypeInv /\ Remembered /\ Reading
    BY DEF IInv
  <1> DEFINE x == df[sel]
  <1>2. x \in Drive /\ Recalled(x) /\ At(x, file, sector) /\ x.track < x.tracks
    BY <1>1 DEF TypeInv, Remembered, Reading
  <1> HIDE DEF x
  <1>3. x.track \in Nat /\ x.track_prev = x.track /\ x.sector_offset = sector
    BY <1>2 DEF Drive, At
  <1>4. x.track_prev >= 0 /\ x.track_prev < x.tracks
    BY <1>2, <1>3
  <1>5. x.cluster_offset = ClusterOf(x.track_prev * SECTOR_COUNT + x.sector_offset)
    BY <1>2, <1>4 DEF Recalled
  <1> QED
    BY <1>2, <1>3, <1>5 DEF At, InPlace

\* What is sent, and where ReadTrack goes on.
LEMMA SentFacts ==
  ASSUME IInv, SendSector
  PROVE  LET x == df[sel]
             u == Sec(file.image, buf, x.track, sector)
             s == (sector + 1) % SECTOR_COUNT
             f == IF sector = SECTOR_COUNT - 1 THEN TrackStart(sel, x.track)
                  ELSE FileNextSector(file)
         IN  /\ u \in Unit /\ u.place = x.track * SECTOR_COUNT + sector
             /\ s \in 0..(SECTOR_COUNT - 1)
             /\ f \in Cursor /\ InPlace(f) /\ f.image = x.image
             /\ f.sector = x.track * SECTOR_COUNT + s
  <1> DEFINE x == df[sel]  t == x.track
             u == Sec(file.image, buf, x.track, sector)
             s == (sector + 1) % SECTOR_COUNT
             f == IF sector = SECTOR_COUNT - 1 THEN TrackStart(sel, x.track)
                  ELSE FileNextSector(file)
  <1>1. /\ pc = "send" /\ TypeInv /\ Reading /\ Steps
    BY DEF SendSector, IInv
  <1>2. /\ sel \in Drives /\ x \in Drive /\ At(x, file, sector) /\ file \in Cursor
        /\ x.track < x.tracks /\ buf = Place(file)
    BY <1>1 DEF TypeInv, Reading, Steps, ReadPlaces
  <1>3. /\ t \in Nat /\ sector \in 0..(SECTOR_COUNT - 1) /\ file.image = x.image
        /\ file.sector = t * SECTOR_COUNT + sector
    BY <1>2 DEF Drive, At
  <1>4. InPlace(file)
    BY <1>1, <1>2, ReadInPlace DEF ReadPlaces
  <1>5. buf = file.sector /\ buf \in Int
    BY <1>2, <1>4, PlaceIs
  <1>6. u \in Unit /\ u.place = t * SECTOR_COUNT + sector
    <2>1. file.image \in Image /\ sector \in Nat
      BY <1>2, <1>3, Constants DEF Cursor
    <2> HIDE DEF x
    <2> QED
      BY <1>3, <1>5, <2>1 DEF Sec, Unit, Played
  <1>7. /\ sector = SECTOR_COUNT - 1 => s = 0
        /\ sector # SECTOR_COUNT - 1 => s = sector + 1 /\ sector + 1 < SECTOR_COUNT
    <2>1. SECTOR_COUNT \in Nat \ {0} /\ sector \in Nat
      BY <1>3, Constants
    <2>2. CASE sector = SECTOR_COUNT - 1
      <3>1. sector + 1 = (SECTOR_COUNT * 1) + 0 /\ 0 \in 0..(SECTOR_COUNT - 1)
        BY <2>1, <2>2
      <3>2. (sector + 1) % SECTOR_COUNT = 0
        BY <2>1, <3>1, DivUnique
      <3> QED
        BY <2>1, <2>2, <3>2
    <2>3. CASE sector # SECTOR_COUNT - 1
      <3>1. sector + 1 = (SECTOR_COUNT * 0) + (sector + 1) /\ sector + 1 \in 0..(SECTOR_COUNT - 1)
        BY <1>3, <2>1, <2>3
      <3>2. (sector + 1) % SECTOR_COUNT = sector + 1
        BY <2>1, <3>1, DivUnique
      <3> QED
        BY <2>1, <2>3, <3>1, <3>2
    <2> QED
      BY <2>2, <2>3
  <1> HIDE DEF x, s, u
  <1>8. s \in 0..(SECTOR_COUNT - 1)
    BY <1>3, <1>7, Constants
  <1>9. f \in Cursor /\ InPlace(f) /\ f.image = x.image /\ f.sector = t * SECTOR_COUNT + s
    <2>1. CASE sector = SECTOR_COUNT - 1
      <3>1. /\ TrackStart(sel, t) \in Cursor /\ TrackStart(sel, t).image = x.image
            /\ TrackStart(sel, t).sector = t * SECTOR_COUNT
            /\ InPlace(TrackStart(sel, t))
        BY <1>1, <1>2, <1>3, TrackStartIs DEF x
      <3>2. t * SECTOR_COUNT + 0 = t * SECTOR_COUNT
        BY <1>3, Constants
      <3> QED
        BY <1>7, <2>1, <3>1, <3>2
    <2>2. CASE sector # SECTOR_COUNT - 1
      <3>1. /\ FileNextSector(file) \in Cursor /\ FileNextSector(file).image = file.image
            /\ FileNextSector(file).sector = file.sector + 1
            /\ InPlace(FileNextSector(file))
        BY <1>2, <1>4, NextInPlace
      <3>2. (t * SECTOR_COUNT + sector) + 1 = t * SECTOR_COUNT + (sector + 1)
        BY <1>3, Constants
      <3> QED
        BY <1>3, <1>7, <2>2, <3>1, <3>2
    <2> QED
      BY <2>1, <2>2
  <1> QED
    BY <1>6, <1>8, <1>9 DEF x, s, u

LEMMA SendSectorStep ==
  ASSUME IInv, SendSector
  PROVE  IInv'
  <1> DEFINE x == df[sel]
             u == Sec(file.image, buf, x.track, sector)
             s == (sector + 1) % SECTOR_COUNT
             f == IF sector = SECTOR_COUNT - 1 THEN TrackStart(sel, x.track)
                  ELSE FileNextSector(file)
             sent == Put(paula, u)
             y == df'[sel]
  <1>1. /\ pc = "send" /\ pc' = "fileread" /\ sector' = s /\ file' = f
        /\ paula' = IF sector = SECTOR_COUNT - 1 THEN Put(sent, Gap) ELSE sent
        /\ last' = IF sent # paula THEN u ELSE last
        /\ df' = [df EXCEPT ![sel].sector_offset = s, ![sel].cluster_offset = f.cluster]
        /\ UNCHANGED <<sel, buf, Track, Sector, out>>
        /\ TypeInv /\ Dma /\ Remembered /\ Reading /\ Steps /\ Order
    BY DEF SendSector, IInv
  <1>2. /\ u \in Unit /\ s \in 0..(SECTOR_COUNT - 1)
        /\ f \in Cursor /\ InPlace(f) /\ f.image = x.image
        /\ f.sector = x.track * SECTOR_COUNT + s
    BY SentFacts
  <1>3. u.sector = sector
    BY DEF Sec
  <1>4. /\ x \in Drive /\ At(x, file, sector) /\ x.track < x.tracks /\ Guarded(x)
        /\ sel \in Drives /\ df \in [Drives -> Drive] /\ paula \in Controller
        /\ Active(paula) => /\ paula.sel = sel /\ ~paula.write /\ paula.dsklen # 0
                            /\ x.track = Wanted(Heads(paula), x)
    BY <1>1 DEF TypeInv, Remembered, Reading, Steps, ReadPlaces
  <1> HIDE DEF u, s, f, x
  <1>5. f.cluster \in Nat
    BY <1>2 DEF Cursor
  <1>6. /\ df' \in [Drives -> Drive]
        /\ \A e \in Drives : e # sel => df'[e] = df[e]
        /\ y = [inserted |-> x.inserted, writable |-> x.writable, image |-> x.image,
                tracks |-> x.tracks, cluster_offset |-> f.cluster,
                sector_offset |-> s, track |-> x.track, track_prev |-> x.track_prev]
    <2> DEFINE c == f.cluster
    <2>1. c \in Nat
      BY <1>5
    <2>2. df' = Sent(df, sel, s, c)
      BY <1>1 DEF Sent
    <2>3. s \in 0..(SECTOR_COUNT - 1) /\ sel \in Drives /\ df \in [Drives -> Drive]
      BY <1>2, <1>4
    <2> HIDE DEF c
    <2>4. /\ df' \in [Drives -> Drive]
          /\ \A e \in Drives : e # sel => df'[e] = df[e]
          /\ df'[sel] = [inserted |-> df[sel].inserted, writable |-> df[sel].writable,
                         image |-> df[sel].image, tracks |-> df[sel].tracks,
                         cluster_offset |-> c, sector_offset |-> s,
                         track |-> df[sel].track, track_prev |-> df[sel].track_prev]
      BY ONLY <2>1, <2>2, <2>3, SentIs
    <2> QED
      BY <2>4 DEF x, c
  <1> HIDE DEF y
  <1>7. /\ y.image = x.image /\ y.tracks = x.tracks /\ y.cluster_offset = f.cluster
        /\ y.writable = x.writable
        /\ y.sector_offset = s /\ y.track = x.track /\ y.track_prev = x.track
    BY <1>4, <1>6 DEF At
  <1>8. At(y, f, s)
    BY <1>2, <1>7 DEF At
  <1>9. Recalled(y) /\ Guarded(y)
    BY <1>2, <1>4, <1>7 DEF Recalled, Guarded, InPlace
  <1>10. Remembered'
    BY <1>1, <1>4, <1>6, <1>9 DEF Remembered, y
  <1>11. /\ sent \in Controller /\ sent.sel = paula.sel /\ sent.track = paula.track
         /\ sent.dmaen = paula.dmaen /\ sent.write = paula.write
         /\ sent.dskstate = paula.dskstate
         /\ trackrd(paula) => sent.fifo = Append(paula.fifo, u)
         /\ ~trackrd(paula) => sent = paula
    BY <1>2, <1>4, PutIs
  <1> HIDE DEF sent
  <1>12. Gap \in Unit
    BY DEF Gap, Unit, Written
  <1>13. /\ Put(sent, Gap) \in Controller /\ Put(sent, Gap).sel = sent.sel
         /\ Put(sent, Gap).track = sent.track
         /\ Put(sent, Gap).dmaen = sent.dmaen /\ Put(sent, Gap).write = sent.write
         /\ Put(sent, Gap).dskstate = sent.dskstate
         /\ ~trackrd(sent) => Put(sent, Gap) = sent
    BY <1>11, <1>12, PutIs
  <1>14. /\ paula' \in Controller /\ paula'.sel = paula.sel /\ paula'.track = paula.track
         /\ paula'.dmaen = paula.dmaen /\ paula'.write = paula.write
         /\ paula'.dskstate = paula.dskstate
         /\ ~trackrd(paula) => paula' = paula
    BY <1>1, <1>11, <1>13
  <1>15. Dma'
    <2>1. CASE trackrd(paula)
      BY <1>1, <1>14, <2>1 DEF Dma, trackrd, Active
    <2>2. CASE ~trackrd(paula)
      BY <1>1, <1>14, <2>2 DEF Dma
    <2> QED
      BY <2>1, <2>2
  <1>16. TypeInv'
    <2>1. sector' \in Nat
      BY <1>1, <1>2
    <2> QED
      BY <1>1, <1>2, <1>6, <1>14, <2>1 DEF TypeInv, ReadPlaces
  <1>17. Wanted(Heads(paula'), y) = Wanted(Heads(paula), x)
    BY <1>7, <1>14 DEF Wanted, Heads
  <1>18. Reading'
    <2>1. At(df'[sel'], file', sector')
      BY <1>1, <1>8 DEF y
    <2>2. Active(paula') => /\ paula'.sel = sel' /\ ~paula'.write
                            /\ df'[sel'].track = Wanted(Heads(paula'), df'[sel'])
      BY <1>1, <1>4, <1>7, <1>14, <1>17 DEF Active, y
    <2> QED
      BY <2>1, <2>2 DEF Reading
  <1>19. Steps' /\ Reported'
    BY <1>1 DEF Steps, Reported
  <1>20. Order'
    <2>1. CASE trackrd(paula)
      <3>1. sent # paula
        <4>1. sent.fifo # paula.fifo
          <5>1. paula.fifo \in Seq(Unit)
            BY <1>4 DEF Controller
          <5>2. Len(Append(paula.fifo, u)) = Len(paula.fifo) + 1 /\ Len(paula.fifo) \in Nat
            BY <1>2, <5>1
          <5> QED
            BY <1>11, <2>1, <5>2
        <4> QED
          BY <4>1
      <3>2. last' = u
        BY <1>1, <3>1
      <3>3. Active(paula') /\ ~paula'.write /\ paula'.sel = sel
        BY <1>4, <1>14, <2>1 DEF trackrd, Active
      <3>4. Follows(y, u)
        BY <1>3, <1>7 DEF Follows, s
      <3>5. y.track_prev = Wanted(Heads(paula'), y)
        BY <1>4, <1>7, <1>17, <2>1 DEF trackrd, Active
      <3>6. df'[paula'.sel] = y
        BY <3>3 DEF y
      <3> QED
        BY <1>1, <3>2, <3>3, <3>4, <3>5, <3>6 DEF Order, WritePlaces
    <2>2. CASE ~trackrd(paula)
      <3>1. last' = last
        BY <1>1, <1>11, <2>2
      <3>2. last = None
        BY <1>1, <1>4, <2>2 DEF Order, trackrd, Active
      <3> QED
        BY <3>1, <3>2 DEF Order
    <2> QED
      BY <2>1, <2>2
  <1> QED
    BY <1>10, <1>15, <1>16, <1>18, <1>19, <1>20 DEF IInv

LEMMA PolledAnswer ==
  ASSUME IInv
  PROVE  /\ Answer(paula).sel = paula.sel /\ paula.sel \in Drives
         /\ Answer(paula).track = Heads(paula) /\ Heads(paula) \in Nat
         /\ Answer(paula).rd => trackrd(paula)
         /\ Answer(paula).wr <=> trackwr(paula)
  <1>1. paula \in Controller
    BY DEF IInv, TypeInv
  <1> QED
    BY <1>1 DEF Answer, Heads, Controller

LEMMA BeginsInPlace ==
  ASSUME TypeInv, Remembered, NEW d \in Drives, NEW t \in Nat
  PROVE  /\ FirstCursor(d, t) \in Cursor /\ FirstCursor(d, t).image = df[d].image
         /\ FirstCursor(d, t).sector = t * SECTOR_COUNT + FirstSector(d, t)
         /\ FirstSector(d, t) \in 0..(SECTOR_COUNT - 1)
         /\ t < df[d].tracks => InPlace(FirstCursor(d, t))
  <1> DEFINE x == df[d]  b == TrackStart(d, t)
  <1>1. /\ b \in Cursor /\ b.image = x.image /\ b.sector = t * SECTOR_COUNT
        /\ t < x.tracks => InPlace(b)
    BY TrackStartIs
  <1>2. /\ x \in Drive /\ x.cluster_offset \in Nat /\ x.sector_offset \in 0..(SECTOR_COUNT - 1)
        /\ Recalled(x) /\ x.tracks \in Nat
    BY DEF TypeInv, Remembered, Drive
  <1>3. CASE t # x.track_prev
    <2>1. FirstSector(d, t) = 0 /\ FirstCursor(d, t) = b
      BY <1>3 DEF FirstSector, FirstCursor
    <2>2. t * SECTOR_COUNT + 0 = t * SECTOR_COUNT /\ 0 \in 0..(SECTOR_COUNT - 1)
      BY Constants
    <2> HIDE DEF b
    <2> QED
      BY <1>1, <2>1, <2>2
  <1>4. CASE t = x.track_prev
    <2> DEFINE c == x.cluster_offset  s == x.sector_offset  e == t * SECTOR_COUNT + s
               g == [image |-> x.image, sector |-> e, cluster |-> c]
    <2>1. FirstSector(d, t) = s /\ FirstCursor(d, t) = g
      BY <1>4 DEF FirstSector, FirstCursor
    <2> HIDE DEF x, b
    <2>2. e \in Nat /\ c \in Nat
      BY <1>1, <1>2, Constants
    <2>3. t < x.tracks => c = ClusterOf(e)
      <3>1. t >= 0 /\ t = x.track_prev
        BY <1>4
      <3> QED
        BY <1>2, <3>1 DEF Recalled
    <2>4. x.image \in Image
      BY <1>2 DEF Drive
    <2> HIDE DEF c, e
    <2>5. g \in Cursor /\ g.image = x.image /\ g.sector = e /\ (t < x.tracks => InPlace(g))
      BY <2>2, <2>3, <2>4 DEF Cursor, InPlace
    <2> QED
      BY <1>2, <2>1, <2>5 DEF e, x
  <1> QED
    BY <1>3, <1>4

LEMMA ReadRequestStep ==
  ASSUME IInv, HandleFpga, Answer(paula).rd, ReadRequest(Answer(paula))
  PROVE  IInv'
  <1> DEFINE d == paula.sel  x == df[d]
             t == IF Heads(paula) >= x.tracks THEN (x.tracks - 1) % 256 ELSE Heads(paula)
             f == FirstCursor(d, t)  s == FirstSector(d, t)  c == f.cluster  y == df'[d]
  <1>1. /\ TypeInv /\ Dma /\ Remembered /\ Order
        /\ d \in Drives /\ trackrd(paula) /\ Heads(paula) \in Nat
        /\ Answer(paula).sel = d /\ Answer(paula).track = Heads(paula)
        /\ df \in [Drives -> Drive] /\ x \in Drive
    BY PolledAnswer DEF IInv, TypeInv
  <1>2. Active(paula) /\ ~paula.write
    BY <1>1 DEF trackrd, Active
  <1>3. paula' = paula /\ last' = last /\ out' = out
    <2>1. paula' = Polled(paula) /\ last' = last /\ out' = out
      BY DEF HandleFpga, amiga_vars
    <2> QED
      BY <1>2, <2>1, PolledFacts
  <1>4. /\ sel' = d /\ file' = f /\ sector' = s /\ pc' = "first"
        /\ df' = Placed(df, d, t, s, c)
        /\ UNCHANGED <<buf, Track, Sector>>
    <2> DEFINE a == Answer(paula)
    <2>1. a.sel = d /\ a.track = Heads(paula)
      BY <1>1
    <2>2. ReadRequest(a)
      OBVIOUS
    <2> HIDE DEF a
    <2>3. sel' = d /\ pc' = "first" /\ UNCHANGED <<buf, Track, Sector>>
      BY <2>1, <2>2 DEF ReadRequest
    <2>4. file' = f
      BY <2>1, <2>2, ZenonT(30) DEF ReadRequest
    <2>5. sector' = s
      BY <2>1, <2>2, ZenonT(30) DEF ReadRequest
    <2> DEFINE v == IF a.track >= df[a.sel].tracks THEN (df[a.sel].tracks - 1) % 256
                    ELSE a.track
    <2>6. df' = Placed(df, a.sel, v, FirstSector(a.sel, v), FirstCursor(a.sel, v).cluster)
      BY <2>2 DEF ReadRequest, Placed
    <2>7. v = t
      BY <2>1
    <2> QED
      BY <2>1, <2>3, <2>4, <2>5, <2>6, <2>7
  <1>5. t \in Nat /\ t = Wanted(Heads(paula), x)
    <2>1. x.tracks \in Nat
      BY <1>1 DEF Drive
    <2>2. (x.tracks - 1) % 256 \in Nat
      BY <2>1
    <2> QED
      BY <1>1, <2>2 DEF Wanted
  <1> HIDE DEF t
  <1>6. /\ f \in Cursor /\ f.image = x.image /\ f.sector = t * SECTOR_COUNT + s
        /\ s \in 0..(SECTOR_COUNT - 1)
        /\ t < x.tracks => InPlace(f)
    BY <1>1, <1>5, BeginsInPlace
  <1> HIDE DEF f, s, x
  <1>7. c \in Nat /\ df' = Placed(df, d, t, s, c)
    BY <1>4, <1>6 DEF Cursor
  <1> HIDE DEF c
  <1>8. /\ df' \in [Drives -> Drive]
        /\ \A e \in Drives : e # d => df'[e] = df[e]
        /\ y = [inserted |-> df[d].inserted, writable |-> df[d].writable,
                image |-> df[d].image, tracks |-> df[d].tracks, cluster_offset |-> c,
                sector_offset |-> s, track |-> t, track_prev |-> t]
    <2> HIDE DEF d
    <2> QED
      BY <1>1, <1>5, <1>6, <1>7, PlacedIs
  <1> HIDE DEF y
  <1>9. /\ y.image = x.image /\ y.tracks = x.tracks /\ y.cluster_offset = f.cluster
        /\ y.writable = x.writable
        /\ y.sector_offset = s /\ y.track = t /\ y.track_prev = t
    BY <1>8 DEF x, c
  <1>10. At(y, f, s)
    BY <1>6, <1>9 DEF At
  <1>11. Guarded(x)
    BY <1>1 DEF Remembered, x
  <1>12. Recalled(y) /\ Guarded(y)
    BY <1>6, <1>9, <1>11 DEF Recalled, Guarded, InPlace
  <1>13. Remembered'
    BY <1>1, <1>8, <1>12 DEF Remembered, y
  <1>14. Wanted(Heads(paula), y) = Wanted(Heads(paula), x)
    BY <1>9 DEF Wanted
  <1>15. TypeInv'
    BY <1>1, <1>3, <1>4, <1>6, <1>8 DEF TypeInv, ReadPlaces
  <1>16. Reading'
    <2>1. At(df'[sel'], file', sector')
      BY <1>4, <1>10 DEF y
    <2>2. paula'.sel = sel' /\ ~paula'.write
          /\ df'[sel'].track = Wanted(Heads(paula'), df'[sel'])
      BY <1>2, <1>3, <1>4, <1>5, <1>9, <1>14 DEF y
    <2> QED
      BY <2>1, <2>2 DEF Reading
  <1>17. Steps' /\ Reported' /\ Dma'
    BY <1>1, <1>2, <1>3, <1>4 DEF Steps, Reported, Dma
  <1>18. Order'
    <2>1. CASE last = None
      BY <1>3, <2>1 DEF Order
    <2>2. CASE last # None
      <3>1. Follows(x, last) /\ x.track_prev = t
        BY <1>1, <1>5, <2>2 DEF Order, x
      <3>2. s = x.sector_offset
        BY <3>1 DEF s, FirstSector, x
      <3>3. Follows(y, last) /\ y.track_prev = Wanted(Heads(paula), y)
        BY <1>5, <1>9, <1>14, <3>1, <3>2 DEF Follows
      <3> QED
        BY <1>2, <1>3, <1>4, <3>3 DEF Order, WritePlaces, y
    <2> QED
      BY <2>1, <2>2
  <1> QED
    BY <1>13, <1>15, <1>16, <1>17, <1>18 DEF IInv

LEMMA WriteRequestStep ==
  ASSUME IInv, HandleFpga, Answer(paula).wr, WriteRequest(Answer(paula))
  PROVE  IInv'
  <1> DEFINE d == paula.sel  x == df[d]  t == Heads(paula)  y == df'[d]
  <1>1. /\ TypeInv /\ Dma /\ Remembered /\ Order
        /\ d \in Drives /\ trackwr(paula) /\ t \in Nat
        /\ Answer(paula).sel = d /\ Answer(paula).track = t
        /\ df \in [Drives -> Drive]
    BY PolledAnswer DEF IInv, TypeInv
  <1>2. paula' = Polled(paula) /\ last' = last /\ out' = out
    BY DEF HandleFpga, amiga_vars
  <1>3. paula' \in Controller /\ Dma'
    BY <1>2, PolledFacts
  <1>4. last = None
    BY <1>1 DEF Order, trackwr
  <1>5. /\ sel' = d /\ file' = TrackStart(d, t) /\ sector' = 0 /\ pc' = "sync"
        /\ df' = [df EXCEPT ![d].track = t, ![d].track_prev = -1]
        /\ UNCHANGED <<buf, Track, Sector>>
    BY <1>1 DEF WriteRequest
  <1>6. TrackStart(d, t) \in Cursor
    BY <1>1, TrackStartIs
  <1> HIDE DEF t
  <1>7. df' = Requested(df, d, t, -1) /\ -1 \in {-1}
    BY <1>5 DEF Requested
  <1>8. /\ df' \in [Drives -> Drive]
        /\ \A e \in Drives : e # d => df'[e] = df[e]
        /\ y = [inserted |-> df[d].inserted, writable |-> df[d].writable,
                image |-> df[d].image, tracks |-> df[d].tracks,
                cluster_offset |-> df[d].cluster_offset,
                sector_offset |-> df[d].sector_offset, track |-> t, track_prev |-> -1]
    <2> HIDE DEF d
    <2> QED
      BY <1>1, <1>7, RequestedIs
  <1> HIDE DEF y
  <1>9. Recalled(y)
    BY <1>8 DEF Recalled
  <1>10. Guarded(y)
    BY <1>1, <1>8 DEF Guarded, Remembered
  <1>11. Remembered'
    BY <1>1, <1>8, <1>9, <1>10 DEF Remembered, y
  <1>12. TypeInv'
    BY <1>1, <1>2, <1>3, <1>5, <1>6, <1>8 DEF TypeInv, WritePlaces
  <1>13. Reading' /\ Steps' /\ Reported' /\ Order'
    BY <1>2, <1>4, <1>5 DEF Reading, Steps, Reported, Order, ReadPlaces
  <1> QED
    BY <1>3, <1>11, <1>12, <1>13 DEF IInv

LEMMA NoRequestStep ==
  ASSUME IInv, HandleFpga, NoRequest(Answer(paula))
  PROVE  IInv'
  <1> DEFINE d == paula.sel  x == df[d]  t == Heads(paula)
  <1>1. /\ TypeInv /\ Dma /\ Remembered /\ Order
        /\ d \in Drives /\ t \in Nat
        /\ Answer(paula).sel = d /\ Answer(paula).track = t
        /\ df \in [Drives -> Drive] /\ x \in Drive
    BY PolledAnswer DEF IInv, TypeInv
  <1>2. paula' = Polled(paula) /\ last' = last /\ out' = out
    BY DEF HandleFpga, amiga_vars
  <1>3. paula' \in Controller /\ Dma' /\ (last # None => paula' = paula)
    BY <1>2, PolledFacts
  <1>4. pc' = "status" /\ UNCHANGED <<sel, file, sector, buf, Track, Sector>>
    BY DEF NoRequest
  <1>5. df' = df \/ df' = [df EXCEPT ![d].track = t]
    BY <1>1 DEF NoRequest
  <1> HIDE DEF t
  <1>6. /\ df' \in [Drives -> Drive]
        /\ \A e \in Drives :
             /\ df'[e].track_prev = df[e].track_prev /\ df'[e].tracks = df[e].tracks
             /\ df'[e].cluster_offset = df[e].cluster_offset
             /\ df'[e].sector_offset = df[e].sector_offset
             /\ df'[e].image = df[e].image /\ df'[e].writable = df[e].writable
    <2>1. CASE df' = df
      BY <1>1, <2>1
    <2>2. CASE df' = [df EXCEPT ![d].track = t]
      <3> DEFINE y == [x EXCEPT !.track = t]
      <3>1. /\ y \in Drive /\ y.track_prev = x.track_prev /\ y.tracks = x.tracks
            /\ y.cluster_offset = x.cluster_offset /\ y.sector_offset = x.sector_offset
            /\ y.image = x.image /\ y.writable = x.writable
        <4> HIDE DEF x
        <4> QED
          BY <1>1 DEF Drive
      <3>2. df' = [df EXCEPT ![d] = y]
        BY <2>2
      <3> HIDE DEF y
      <3> QED
        BY <1>1, <3>1, <3>2
    <2> QED
      BY <1>5, <2>1, <2>2
  <1>7. Remembered'
    <2>1. ASSUME NEW e \in Drives
          PROVE  Recalled(df'[e]) /\ Guarded(df'[e])
      <3> DEFINE v == df[e]  w == df'[e]
      <3>1. Recalled(v) /\ Guarded(v)
        BY <1>1 DEF Remembered
      <3>2. /\ w.track_prev = v.track_prev /\ w.tracks = v.tracks
            /\ w.cluster_offset = v.cluster_offset
            /\ w.sector_offset = v.sector_offset
            /\ w.image = v.image /\ w.writable = v.writable
        BY <1>6
      <3> HIDE DEF v, w
      <3>3. Recalled(w) /\ Guarded(w)
        BY <3>1, <3>2 DEF Recalled, Guarded
      <3> QED
        BY <3>3 DEF w
    <2> QED
      BY <2>1 DEF Remembered
  <1>8. TypeInv'
    BY <1>1, <1>2, <1>3, <1>4, <1>6 DEF TypeInv
  <1>9. Reading' /\ Steps' /\ Reported'
    BY <1>4 DEF Reading, Steps, Reported, ReadPlaces
  <1>10. Order'
    <2>1. CASE last = None
      BY <1>2, <2>1 DEF Order
    <2>2. CASE last # None
      <3>1. paula' = paula /\ Follows(x, last) /\ Active(paula) /\ ~paula.write
            /\ x.track_prev = Wanted(Heads(paula), x)
        BY <1>1, <1>3, <2>2 DEF Order
      <3>2. Follows(df'[d], last) /\ df'[d].track_prev = Wanted(Heads(paula), df'[d])
        BY <1>1, <1>6, <3>1 DEF Follows, Wanted
      <3> QED
        BY <1>2, <1>4, <3>1, <3>2 DEF Order, WritePlaces
    <2> QED
      BY <2>1, <2>2
  <1> QED
    BY <1>3, <1>7, <1>8, <1>9, <1>10 DEF IInv

LEMMA UpdateDriveStatusStep ==
  ASSUME IInv, UpdateDriveStatus
  PROVE  IInv'
  <1>1. /\ pc = "status" /\ pc' = "ui" /\ paula' = Told(paula)
        /\ UNCHANGED <<df, sel, file, sector, buf, Track, Sector, out, last>>
        /\ TypeInv /\ Dma /\ Remembered /\ Order /\ paula \in Controller
    BY DEF UpdateDriveStatus, amiga_vars, IInv, TypeInv
  <1>2. /\ paula' \in Controller /\ paula'.sel = paula.sel /\ paula'.track = paula.track
        /\ paula'.dmaen = paula.dmaen /\ paula'.write = paula.write
        /\ paula'.dsklen = paula.dsklen
        /\ paula'.dskstate = paula.dskstate /\ paula'.fifo = paula.fifo
        /\ paula'.present = {d \in Drives : df[d].inserted}
    BY <1>1, ToldIs
  <1>3. TypeInv'
    BY <1>1, <1>2 DEF TypeInv
  <1>4. Remembered' /\ Dma'
    BY <1>1, <1>2 DEF Remembered, Dma, Active
  <1>5. Reading' /\ Steps' /\ Reported'
    BY <1>1, <1>2 DEF Reading, Steps, Reported, ReadPlaces
  <1>6. Heads(paula') = Heads(paula)
    BY <1>2 DEF Heads
  <1>7. Order'
    BY <1>1, <1>2, <1>6 DEF Order, Active, WritePlaces
  <1> QED
    BY <1>3, <1>4, <1>5, <1>7 DEF IInv

LEMMA InsertedIs ==
  ASSUME NEW i \in DOMAIN Images
  PROVE  InsertFloppy(i) \in Drive /\ Recalled(InsertFloppy(i)) /\ Guarded(InsertFloppy(i))
  <1>1. Images[i] \in [tracks : Nat \ {0}, writable : BOOLEAN] /\ i \in Image
    BY Constants DEF Image
  <1>2. cache(i, 0) \in Nat
    BY <1>1, CacheIs
  <1>3. 0 \in 0..(SECTOR_COUNT - 1)
    BY Constants
  <1>4. InsertFloppy(i) \in Drive
    BY <1>1, <1>2, <1>3 DEF InsertFloppy, Drive
  <1>5. /\ InsertFloppy(i).track_prev = -1 /\ InsertFloppy(i).image = i
        /\ InsertFloppy(i).writable = Images[i].writable
    BY DEF InsertFloppy
  <1> QED
    BY <1>4, <1>5 DEF Recalled, Guarded

LEMMA HandleUIStep ==
  ASSUME IInv, HandleUI
  PROVE  IInv'
  <1>1. /\ pc = "ui" /\ pc' = "main"
        /\ UNCHANGED <<sel, file, sector, buf, Track, Sector, paula, out>>
        /\ TypeInv /\ Dma /\ Remembered /\ Order
        /\ df \in [Drives -> Drive] /\ paula.sel \in Drives
    BY DEF HandleUI, IInv, TypeInv, Controller
  <1>2. /\ df' \in [Drives -> Drive]
        /\ \A e \in Drives : Recalled(df'[e]) /\ Guarded(df'[e])
        /\ \/ last' = None
           \/ /\ last' = last
              /\ \A e \in Drives : /\ df'[e].sector_offset = df[e].sector_offset
                                   /\ df'[e].track_prev = df[e].track_prev
                                   /\ df'[e].tracks = df[e].tracks
    <2>1. CASE UNCHANGED <<df, last>>
      BY <1>1, <2>1 DEF Remembered
    <2>2. CASE \E d \in Drives, i \in DOMAIN Images :
                 df' = [df EXCEPT ![d] = InsertFloppy(i)] /\ last' = None
      <3>1. PICK d \in Drives, i \in DOMAIN Images :
              df' = [df EXCEPT ![d] = InsertFloppy(i)] /\ last' = None
        BY <2>2
      <3>2. /\ InsertFloppy(i) \in Drive /\ Recalled(InsertFloppy(i))
            /\ Guarded(InsertFloppy(i))
        BY InsertedIs
      <3> QED
        BY <1>1, <3>1, <3>2 DEF Remembered
    <2>3. CASE \E d \in Drives :
                 /\ df' = [df EXCEPT ![d].inserted = FALSE, ![d].writable = FALSE]
                 /\ last' = last
      <3>1. PICK d \in Drives :
              /\ df' = [df EXCEPT ![d].inserted = FALSE, ![d].writable = FALSE]
              /\ last' = last
        BY <2>3
      <3>2. df' = Ejected(df, d, FALSE, FALSE)
        BY <3>1 DEF Ejected
      <3>3. ASSUME NEW no \in BOOLEAN, no = FALSE
            PROVE  /\ Ejected(df, d, no, no) \in [Drives -> Drive]
                   /\ \A e \in Drives : e # d => Ejected(df, d, no, no)[e] = df[e]
                   /\ Ejected(df, d, no, no)[d] =
                        [inserted |-> no, writable |-> no, image |-> df[d].image,
                         tracks |-> df[d].tracks, cluster_offset |-> df[d].cluster_offset,
                         sector_offset |-> df[d].sector_offset, track |-> df[d].track,
                         track_prev |-> df[d].track_prev]
        BY <1>1, EjectedIs
      <3>4. /\ df' \in [Drives -> Drive]
            /\ \A e \in Drives : e # d => df'[e] = df[e]
            /\ df'[d] = [inserted |-> FALSE, writable |-> FALSE, image |-> df[d].image,
                         tracks |-> df[d].tracks, cluster_offset |-> df[d].cluster_offset,
                         sector_offset |-> df[d].sector_offset, track |-> df[d].track,
                         track_prev |-> df[d].track_prev]
        BY <3>2, <3>3
      <3>5. Recalled(df[d]) /\ \A e \in Drives : Recalled(df[e]) /\ Guarded(df[e])
        BY <1>1 DEF Remembered
      <3>6. Recalled(df'[d]) /\ Guarded(df'[d])
        BY <3>4, <3>5 DEF Recalled, Guarded
      <3> QED
        BY <3>1, <3>4, <3>5, <3>6
    <2> QED
      BY <2>1, <2>2, <2>3 DEF HandleUI
  <1>3. TypeInv'
    BY <1>1, <1>2 DEF TypeInv
  <1>4. Remembered' /\ Dma'
    BY <1>1, <1>2 DEF Remembered, Dma
  <1>5. Reading' /\ Steps' /\ Reported'
    BY <1>1 DEF Reading, Steps, Reported, ReadPlaces
  <1>6. Order'
    <2>1. CASE last' = None
      BY <2>1 DEF Order
    <2>2. CASE last' # None
      <3> DEFINE x == df[paula.sel]  y == df'[paula.sel]
      <3>1. /\ last' = last /\ Active(paula) /\ ~paula.write /\ Follows(x, last)
            /\ x.track_prev = Wanted(Heads(paula), x)
            /\ y.sector_offset = x.sector_offset /\ y.track_prev = x.track_prev
            /\ y.tracks = x.tracks
        BY <1>1, <1>2, <2>2 DEF Order
      <3>2. Follows(y, last) /\ y.track_prev = Wanted(Heads(paula), y)
        BY <3>1 DEF Follows, Wanted
      <3> QED
        BY <1>1, <3>1, <3>2 DEF Order, WritePlaces
    <2> QED
      BY <2>1, <2>2
  <1> QED
    BY <1>3, <1>4, <1>5, <1>6 DEF IInv

LEMMA UnchangedStep ==
  ASSUME IInv, UNCHANGED <<df, pc, sel, file, sector, buf, Track, Sector, paula, out, last>>
  PROVE  IInv'
  BY DEF IInv, TypeInv, Dma, Remembered, Reading, Steps, Order, Reported

-----------------------------------------------------------------------------
\* The invariant of the specification

LEMMA InitHolds ==
  ASSUME Init
  PROVE  IInv
  <1>1. 0 \in Drives /\ 0 \in 0..(SECTOR_COUNT - 1)
    BY Constants
  <1>2. Empty \in Drive
    BY <1>1 DEF Empty, Drive, Image
  <1>3. df \in [Drives -> Drive] /\ \A d \in Drives : df[d] = Empty
    BY <1>2 DEF Init
  <1>4. ASSUME NEW no \in BOOLEAN
        PROVE  [sel |-> 0, track |-> [d \in Drives |-> 0], dskstate |-> "idle",
                dmaen |-> no, write |-> no, dsklen |-> 0,
                fifo |-> <<>>, present |-> {}, writable |-> {}] \in Controller
    BY <1>1 DEF Controller
  <1>5. /\ paula = [sel |-> 0, track |-> [d \in Drives |-> 0], dskstate |-> "idle",
                    dmaen |-> FALSE, write |-> FALSE, dsklen |-> 0,
                    fifo |-> <<>>, present |-> {}, writable |-> {}]
        /\ FALSE \in BOOLEAN
    BY DEF Init
  <1>6. paula \in Controller
    BY <1>4, <1>5, Zenon
  <1>7. file \in Cursor
    BY DEF Init, Closed, Cursor, Image
  <1>8. out \in Seq(Written)
    BY DEF Init
  <1>9. TypeInv
    BY <1>1, <1>3, <1>6, <1>7, <1>8 DEF Init, TypeInv
  <1>10. paula.dskstate = "idle" /\ ~paula.dmaen /\ paula.fifo = <<>>
    BY <1>5
  <1>11. Dma
    BY <1>10 DEF Dma, Active
  <1>12. Remembered
    <2>1. Recalled(Empty) /\ Guarded(Empty)
      BY DEF Empty, Recalled, Guarded
    <2> QED
      BY <1>3, <2>1 DEF Remembered
  <1>13. Reading /\ Steps /\ Order /\ Reported
    BY DEF Init, Reading, Steps, Order, Reported, ReadPlaces
  <1> QED
    BY <1>9, <1>11, <1>12, <1>13 DEF IInv

LEMMA HandleFpgaStep ==
  ASSUME IInv, HandleFpga
  PROVE  IInv'
  <1>1. \/ Answer(paula).rd /\ ReadRequest(Answer(paula))
        \/ Answer(paula).wr /\ WriteRequest(Answer(paula))
        \/ NoRequest(Answer(paula))
    BY DEF HandleFpga
  <1> QED
    BY <1>1, ReadRequestStep, WriteRequestStep, NoRequestStep

LEMMA NextHolds ==
  ASSUME IInv, [Next]_vars
  PROVE  IInv'
  <1>1. CASE Chip \/ Amiga
    BY <1>1, BlockDoneStep, ReadDmaStep, WriteDmaStep, SelectStep, StepStep,
       ReadTrackDmaStep, WriteTrackDmaStep, AbortStep DEF Chip, Amiga
  <1>2. CASE UNCHANGED vars \/ ClearError
    <2>1. UNCHANGED <<df, pc, sel, file, sector, buf, Track, Sector, paula, out, last>>
      BY <1>2 DEF vars, fw_vars, amiga_vars, ClearError
    <2> QED
      BY <2>1, UnchangedStep
  <1>3. CASE Server
    BY <1>2, <1>3, HandleFpgaStep, UpdateDriveStatusStep, HandleUIStep,
       FirstPollStep, FileReadStep, CheckRequestStep, StopReadingStep, SendSectorStep,
       SyncPollStep, SyncWordStep, WaitStep, GetHeaderStep, GetDataStep DEF Server
  <1> QED
    BY <1>1, <1>2, <1>3 DEF Next

\* The server's bookkeeping of drives, cursors and DMAs (fdd.c) agrees with Paula's and the
\* Amiga's in every reachable state, whatever the disks, the heads and the DMAs do.
THEOREM FloppyInvariant == Spec => []IInv
  <1>1. Init => IInv
    BY InitHolds
  <1>2. IInv /\ [Next]_vars => IInv'
    BY NextHolds
  <1> QED
    BY <1>1, <1>2, PTL DEF Spec

-----------------------------------------------------------------------------
\* What enters the FIFO

\* Nothing enters it but what the server sends and the Amiga writes.
LEMMA FifoSteps ==
  ASSUME IInv, [Next]_vars
  PROVE  \/ SendSector \/ WriteDma
         \/ paula'.fifo = paula.fifo \/ paula'.fifo = <<>>
         \/ paula.fifo # <<>> /\ paula'.fifo = Tail(paula.fifo)
  <1>0. paula \in Controller
    BY DEF IInv, TypeInv
  <1>1. CASE BlockDone \/ Abort
    BY <1>0, <1>1, StopIs DEF BlockDone, Abort
  <1>2. CASE ReadDma
    BY <1>0, <1>2 DEF ReadDma, Controller
  <1>3. CASE Select
    BY <1>0, <1>3 DEF Select, Controller
  <1>4. CASE Step
    BY <1>0, <1>4 DEF Step, Controller
  <1>5. CASE ReadTrackDma
    BY <1>0, <1>5 DEF ReadTrackDma, Controller
  <1>6. CASE WriteTrackDma
    BY <1>0, <1>6 DEF WriteTrackDma, Controller
  <1>7. CASE paula' = paula
    BY <1>7
  <1>8. CASE paula' = Polled(paula)
    BY <1>0, <1>8, PolledIs
  <1>9. CASE paula' = Take(paula)
    <2>1. CASE trackwr(paula) /\ paula.fifo # <<>>
      BY <1>0, <1>9, <2>1, TakeIs
    <2>2. CASE ~ (trackwr(paula) /\ paula.fifo # <<>>)
      BY <1>9, <2>2 DEF Take
    <2> QED
      BY <2>1, <2>2
  <1>10. CASE paula' = Told(paula)
    BY <1>0, <1>10, ToldIs
  <1>11. CASE Server /\ ~SendSector
    <2>1. paula' \in {paula, Polled(paula), Take(paula), Told(paula)}
      BY <1>11 DEF Server, HandleFpga, UpdateDriveStatus, HandleUI, ClearError, FirstPoll,
         FileRead, CheckRequest, StopReading, SyncPoll, SyncWord, HeaderPoll, DataPoll,
         Wait, GetHeader, GetData
    <2> QED
      BY <1>7, <1>8, <1>9, <1>10, <2>1
  <1>12. CASE UNCHANGED vars
    BY <1>7, <1>12 DEF vars
  <1> QED
    BY <1>1, <1>2, <1>3, <1>4, <1>5, <1>6, <1>11, <1>12 DEF Next, Chip, Amiga

LEMMA MinIs ==
  ASSUME NEW a \in Int, NEW b \in Int
  PROVE  Min({a, b}) = IF a <= b THEN a ELSE b
  <1>1. \A x \in {a, b} : (\A y \in {a, b} : x =< y) <=> x = IF a <= b THEN a ELSE b
    OBVIOUS
  <1>2. Min({a, b}) \in {a, b} /\ \A y \in {a, b} : Min({a, b}) =< y
    BY <1>1 DEF Min
  <1> QED
    BY <1>1, <1>2

\* What SendSector puts into the FIFO, when it puts anything there.
LEMMA SendSectorPuts ==
  ASSUME IInv, SendSector
  PROVE  LET u == Sec(file.image, buf, df[sel].track, sector)
         IN  \/ paula' = paula
             \/ /\ Active(paula) /\ ~paula.write /\ paula.sel = sel
                /\ df[sel].track = Seen(Heads(paula), df[sel])
                /\ \/ paula'.fifo = Append(paula.fifo, u)
                   \/ paula'.fifo = Append(Append(paula.fifo, u), Gap)
                /\ last' = u
  <1> DEFINE u == Sec(file.image, buf, df[sel].track, sector)  sent == Put(paula, u)
  <1>1. /\ paula' = IF sector = SECTOR_COUNT - 1 THEN Put(sent, Gap) ELSE sent
        /\ last' = IF sent # paula THEN u ELSE last
        /\ pc = "send" /\ Reading /\ Steps /\ paula \in Controller
    BY DEF SendSector, IInv, TypeInv
  <1>2. u \in Unit
    BY SentFacts
  <1>3. Gap \in Unit
    BY DEF Gap, Unit, Written
  <1> HIDE DEF u
  <1>4. /\ sent \in Controller /\ sent.dskstate = paula.dskstate /\ sent.write = paula.write
        /\ trackrd(paula) => sent.fifo = Append(paula.fifo, u)
        /\ ~trackrd(paula) => sent = paula
    BY <1>1, <1>2, PutIs
  <1> HIDE DEF sent
  <1>5. /\ trackrd(sent) => Put(sent, Gap).fifo = Append(sent.fifo, Gap)
        /\ ~trackrd(sent) => Put(sent, Gap) = sent
    BY <1>3, <1>4, PutIs
  <1>6. CASE trackrd(paula)
    <2>1. Active(paula) /\ ~paula.write
      BY <1>6 DEF trackrd, Active
    <2>2. paula.sel = sel /\ df[sel].track = Seen(Heads(paula), df[sel])
      BY <1>1, <2>1 DEF Reading, Steps, ReadPlaces
    <2>3. sent.fifo = Append(paula.fifo, u)
      BY <1>4, <1>6
    <2>4. sent # paula
      <3>1. paula.fifo \in Seq(Unit)
        BY <1>1 DEF Controller
      <3>2. Len(Append(paula.fifo, u)) = Len(paula.fifo) + 1 /\ Len(paula.fifo) \in Nat
        BY <1>2, <3>1
      <3> QED
        BY <2>3, <3>2
    <2>5. \/ paula'.fifo = Append(paula.fifo, u)
          \/ paula'.fifo = Append(Append(paula.fifo, u), Gap)
      BY <1>1, <1>5, <2>3
    <2> QED
      BY <1>1, <2>1, <2>2, <2>4, <2>5 DEF u
  <1>7. CASE ~trackrd(paula)
    BY <1>1, <1>4, <1>5, <1>7
  <1> QED
    BY <1>6, <1>7

LEMMA WriteDmaPuts ==
  ASSUME IInv, WriteDma
  PROVE  /\ out \in Seq(Written) /\ out # <<>> /\ out[1] \in Written
         /\ paula'.fifo = Append(paula.fifo, out[1]) /\ out' = Tail(out)
         /\ last = None
         /\ paula'.dskstate = paula.dskstate /\ paula'.write = paula.write
         /\ paula'.dmaen = paula.dmaen /\ paula'.sel = paula.sel
         /\ paula'.track = paula.track
  <1>1. /\ trackwr(paula) /\ paula.dsklen # 0 /\ out' = Tail(out)
        /\ paula' = [paula EXCEPT !.fifo = Append(paula.fifo, out[1]),
                                  !.dsklen = paula.dsklen - 1]
        /\ Dma /\ Order /\ paula \in Controller /\ out \in Seq(Written)
    BY DEF IInv, WriteDma, TypeInv
  <1>2. paula.dsklen = Len(out) /\ last = None
    BY <1>1 DEF Dma, Order, trackwr, Active
  <1>3. out # <<>> /\ out[1] \in Written
    BY <1>1, <1>2
  <1> DEFINE q == Append(paula.fifo, out[1])  l == paula.dsklen - 1
  <1>4. paula' = [paula EXCEPT !.fifo = q, !.dsklen = l]
    BY <1>1
  <1> HIDE DEF q, l
  <1>5. paula' = [sel |-> paula.sel, track |-> paula.track, dskstate |-> paula.dskstate,
                  dmaen |-> paula.dmaen, write |-> paula.write, dsklen |-> l, fifo |-> q,
                  present |-> paula.present, writable |-> paula.writable]
    BY <1>1, <1>4 DEF Controller
  <1> QED
    BY <1>1, <1>2, <1>3, <1>5 DEF q

LEMMA RangeAppend ==
  ASSUME NEW S, NEW q \in Seq(S), NEW u \in S
  PROVE  Range(Append(q, u)) \ Range(q) \subseteq {u}
  <1>1. ASSUME NEW i \in DOMAIN Append(q, u)
        PROVE  Append(q, u)[i] = u \/ Append(q, u)[i] \in Range(q)
    <2>1. CASE i = Len(q) + 1
      BY <2>1
    <2>2. CASE i # Len(q) + 1
      <3>1. i \in DOMAIN q /\ Append(q, u)[i] = q[i]
        BY <2>2
      <3> QED
        BY <3>1 DEF Range
    <2> QED
      BY <2>1, <2>2
  <1> QED
    BY <1>1 DEF Range

LEMMA RangeShrinks ==
  ASSUME NEW S, NEW q \in Seq(S), NEW r, r = q \/ r = <<>> \/ (q # <<>> /\ r = Tail(q))
  PROVE  Range(r) \subseteq Range(q) /\ Len(r) <= Len(q)
  <1>1. CASE r = q
    BY <1>1
  <1>2. CASE r = <<>>
    BY <1>2 DEF Range
  <1>3. CASE q # <<>> /\ r = Tail(q)
    <2>1. Len(r) = Len(q) - 1 /\ DOMAIN r = 1..Len(r) /\ DOMAIN q = 1..Len(q) /\ Len(q) \in Nat
      BY <1>3
    <2>2. ASSUME NEW i \in DOMAIN r
          PROVE  r[i] \in Range(q)
      <3>1. i + 1 \in DOMAIN q
        BY <2>1
      <3>2. r[i] = q[i + 1]
        <4>1. i \in 1..(Len(q) - 1)
          BY <2>1
        <4>2. Tail(q)[i] = q[i + 1]
          BY <1>3, <4>1
        <4> QED
          BY <1>3, <4>2
      <3> QED
        BY <3>1, <3>2 DEF Range
    <2> QED
      BY <2>1, <2>2 DEF Range
  <1> QED
    BY <1>1, <1>2, <1>3

-----------------------------------------------------------------------------
\* The action properties

\* SectorsTrue, for a step.
Truly(u) ==
    u.k = "sector" =>
        /\ u.place = u.track * SECTOR_COUNT + u.sector
        /\ u.image = df[paula.sel].image
        /\ u.track = Min({paula.track[paula.sel], df[paula.sel].tracks - 1})

LEMMA TrueSector ==
  ASSUME IInv, SendSector, paula.sel = sel, df[sel].track = Seen(Heads(paula), df[sel])
  PROVE  Truly(Sec(file.image, buf, df[sel].track, sector))
  <1> DEFINE x == df[sel]  u == Sec(file.image, buf, x.track, sector)
  <1>1. /\ u.place = x.track * SECTOR_COUNT + sector /\ pc = "send" /\ Reading /\ TypeInv
        /\ paula \in Controller /\ sel \in Drives
    BY SentFacts DEF IInv, SendSector, TypeInv
  <1>2. u.image = file.image /\ u.track = x.track /\ u.sector = sector
    BY DEF Sec
  <1>3. file.image = x.image
    BY <1>1 DEF Reading, ReadPlaces, At
  <1>4. x.tracks \in Nat /\ Heads(paula) \in Nat
    BY <1>1 DEF TypeInv, Drive, Controller, Heads
  <1>5. x.track = Min({Heads(paula), x.tracks - 1})
    <2> DEFINE a == Heads(paula)  b == x.tracks - 1
    <2>1. a \in Int /\ b \in Int
      BY <1>4
    <2>2. Min({a, b}) = IF a <= b THEN a ELSE b
      BY <2>1, MinIs
    <2>3. Seen(a, x) = IF a <= b THEN a ELSE b
      BY <1>4 DEF Seen
    <2> QED
      BY <2>2, <2>3
  <1> HIDE DEF u, x
  <1> QED
    BY <1>1, <1>2, <1>3, <1>5 DEF Truly, Heads, u, x

LEMMA SectorsTrueStep ==
  ASSUME IInv, [Next]_vars
  PROVE  \A u \in Range(paula'.fifo) \ Range(paula.fifo) : Truly(u)
  <1>1. paula.fifo \in Seq(Unit)
    BY DEF IInv, TypeInv, Controller
  <1>2. CASE SendSector
    <2> DEFINE v == Sec(file.image, buf, df[sel].track, sector)
    <2>1. CASE paula' = paula
      BY <2>1
    <2>2. CASE paula' # paula
      <3>1. /\ paula.sel = sel /\ df[sel].track = Seen(Heads(paula), df[sel])
            /\ \/ paula'.fifo = Append(paula.fifo, v)
               \/ paula'.fifo = Append(Append(paula.fifo, v), Gap)
        BY <1>2, <2>2, SendSectorPuts
      <3>2. v \in Unit /\ Gap \in Unit
        BY <1>2, SentFacts DEF Gap, Unit, Written
      <3>3. Truly(v)
        BY <1>2, <3>1, TrueSector
      <3>4. Truly(Gap)
        BY DEF Truly, Gap
      <3> HIDE DEF v
      <3>5. Append(paula.fifo, v) \in Seq(Unit)
        BY <1>1, <3>2
      <3>6. /\ Range(Append(paula.fifo, v)) \ Range(paula.fifo) \subseteq {v}
            /\ Range(Append(Append(paula.fifo, v), Gap)) \ Range(Append(paula.fifo, v))
                 \subseteq {Gap}
        BY <1>1, <3>2, <3>5, RangeAppend
      <3> DEFINE g == Gap  old == Range(paula.fifo)  q == Append(paula.fifo, v)
                 one == Range(q)  two == Range(Append(q, g))
      <3>7. Range(paula'.fifo) = one \/ Range(paula'.fifo) = two
        BY <3>1, Zenon
      <3>8. one \ old \subseteq {v} /\ two \ one \subseteq {g}
        BY <3>6, Zenon
      <3>9. Truly(g)
        BY <3>4
      <3> HIDE DEF g, old, one, two
      <3>10. \A u \in Range(paula'.fifo) \ old : u = v \/ u = g
        BY <3>7, <3>8
      <3> QED
        BY <3>3, <3>9, <3>10 DEF old
    <2> QED
      BY <2>1, <2>2
  <1>3. CASE WriteDma
    <2>1. out[1] \in Written /\ paula'.fifo = Append(paula.fifo, out[1])
      BY <1>3, WriteDmaPuts
    <2>2. Range(paula'.fifo) \ Range(paula.fifo) \subseteq {out[1]}
      BY <1>1, <2>1, RangeAppend DEF Unit
    <2>3. Truly(out[1])
      BY <2>1 DEF Truly, Written
    <2> QED
      BY <2>2, <2>3
  <1>4. CASE ~SendSector /\ ~WriteDma
    <2>1. \/ paula'.fifo = paula.fifo \/ paula'.fifo = <<>>
          \/ paula.fifo # <<>> /\ paula'.fifo = Tail(paula.fifo)
      BY <1>4, FifoSteps
    <2>2. Range(paula'.fifo) \subseteq Range(paula.fifo)
      BY <1>1, <2>1, RangeShrinks
    <2> QED
      BY <2>2
  <1> QED
    BY <1>2, <1>3, <1>4

\* A sector that enters the FIFO of a read is the sector its header names, of the disk
\* in the selected drive, on the track under the heads (SendSector, fdd.c), for every
\* size of track, cluster and image and however DMAs, drives and disks follow each other.
THEOREM PlaysTrueSectors == Spec => SectorsTrue
  <1>1. IInv /\ [Next]_vars =>
          [\A u \in Range(paula'.fifo) \ Range(paula.fifo) :
             (u.k = "sector") =>
                 /\ u.place = u.track * SECTOR_COUNT + u.sector
                 /\ u.image = df[paula.sel].image
                 /\ u.track = Min({paula.track[paula.sel], df[paula.sel].tracks - 1})]_vars
    <2>1. ASSUME IInv, [Next]_vars
          PROVE  \A u \in Range(paula'.fifo) \ Range(paula.fifo) : Truly(u)
      BY <2>1, SectorsTrueStep
    <2> QED
      BY <2>1 DEF Truly
  <1> QED
    BY <1>1, FloppyInvariant, PTL DEF Spec, SectorsTrue

LEMMA SectorsInOrderStep ==
  ASSUME IInv, [Next]_vars, last # None, Len(paula'.fifo) > Len(paula.fifo)
  PROVE  last'.sector = (last.sector + 1) % SECTOR_COUNT
  <1>1. paula.fifo \in Seq(Unit) /\ Len(paula.fifo) \in Nat /\ Order /\ Reading
    BY DEF IInv, TypeInv, Controller
  <1>2. CASE SendSector
    <2> DEFINE v == Sec(file.image, buf, df[sel].track, sector)
    <2>1. paula' # paula
      BY <1>1
    <2>2. paula.sel = sel /\ last' = v
      BY <1>2, <2>1, SendSectorPuts
    <2>3. Follows(df[sel], last)
      BY <1>1, <2>2 DEF Order
    <2>4. df[sel].sector_offset = sector
      BY <1>1, <1>2 DEF Reading, ReadPlaces, SendSector, At
    <2> QED
      BY <2>2, <2>3, <2>4 DEF Follows, Sec
  <1>3. CASE WriteDma
    BY <1>3, WriteDmaPuts
  <1>4. CASE ~SendSector /\ ~WriteDma
    <2>1. \/ paula'.fifo = paula.fifo \/ paula'.fifo = <<>>
          \/ paula.fifo # <<>> /\ paula'.fifo = Tail(paula.fifo)
      BY <1>4, FifoSteps
    <2>2. Len(paula'.fifo) <= Len(paula.fifo)
      BY <1>1, <2>1, RangeShrinks
    <2>3. Len(paula'.fifo) \in Nat
      BY <1>1, <2>1
    <2> QED
      BY <1>1, <2>2, <2>3
  <1> QED
    BY <1>2, <1>3, <1>4

\* Within a DMA the sectors come in the order they pass under the heads, however often
\* ReadTrack (fdd.c) gives up in between.
THEOREM PlaysInOrder == Spec => SectorsInOrder
  <1>1. IInv /\ [Next]_vars =>
          [(last # None /\ Len(paula'.fifo) > Len(paula.fifo)) =>
              last'.sector = (last.sector + 1) % SECTOR_COUNT]_vars
    BY SectorsInOrderStep
  <1> QED
    BY <1>1, FloppyInvariant, PTL DEF Spec, SectorsInOrder

-----------------------------------------------------------------------------
\* Which disks are in the drives

\* Nobody but the user changes the disks.
LEMMA DisksStay ==
  ASSUME IInv, [Next]_vars
  PROVE  HandleUI \/ \A d \in Drives : df'[d].image = df[d].image
  <1>0. df \in [Drives -> Drive] /\ sel \in Drives
    BY DEF IInv, TypeInv
  <1>1. CASE df' = df
    BY <1>1
  <1>2. CASE \E e \in Drives : \E t, v, s, c :
               df' = [df EXCEPT ![e].track = t, ![e].track_prev = v,
                                ![e].sector_offset = s, ![e].cluster_offset = c]
    BY <1>0, <1>2 DEF Drive
  <1>3. CASE \E e \in Drives : \E t, v :
               df' = [df EXCEPT ![e].track = t, ![e].track_prev = v]
    BY <1>0, <1>3 DEF Drive
  <1>4. CASE \E e \in Drives : \E t : df' = [df EXCEPT ![e].track = t]
    BY <1>0, <1>4 DEF Drive
  <1>5. CASE \E e \in Drives : \E s, c :
               df' = [df EXCEPT ![e].sector_offset = s, ![e].cluster_offset = c]
    BY <1>0, <1>5 DEF Drive
  <1>6. CASE HandleFpga
    <2> DEFINE a == Answer(paula)
    <2>1. a.sel \in Drives
      BY PolledAnswer
    <2>2. ReadRequest(a) \/ WriteRequest(a) \/ NoRequest(a)
      BY <1>6 DEF HandleFpga
    <2> HIDE DEF a
    <2>3. CASE ReadRequest(a)
      <3> DEFINE e == a.sel
                 t == IF a.track >= df[e].tracks THEN (df[e].tracks - 1) % 256 ELSE a.track
                 s == FirstSector(e, t)  c == FirstCursor(e, t).cluster
      <3>1. df' = [df EXCEPT ![e].track = t, ![e].track_prev = t,
                             ![e].sector_offset = s, ![e].cluster_offset = c]
        BY <2>3 DEF ReadRequest
      <3>2. e \in Drives
        BY <2>1
      <3> HIDE DEF e, t, s, c
      <3> QED
        BY <1>2, <3>1, <3>2
    <2>4. CASE WriteRequest(a)
      BY <1>3, <2>1, <2>4 DEF WriteRequest
    <2>5. CASE NoRequest(a)
      BY <1>1, <1>4, <2>1, <2>5 DEF NoRequest
    <2> QED
      BY <2>2, <2>3, <2>4, <2>5
  <1>7. CASE SendSector
    BY <1>0, <1>5, <1>7 DEF SendSector
  <1>8. CASE Chip \/ Amiga
    BY <1>1, <1>8 DEF Chip, Amiga, BlockDone, ReadDma, WriteDma, Select, Step, ReadTrackDma,
       WriteTrackDma, Abort, host_rest
  <1>9. CASE Server /\ ~HandleFpga /\ ~SendSector /\ ~HandleUI
    BY <1>1, <1>9 DEF Server, UpdateDriveStatus, ClearError, FirstPoll, FileRead,
       CheckRequest, StopReading, SyncPoll, SyncWord, HeaderPoll, DataPoll, Wait, GetHeader,
       GetData, read_rest, write_rest
  <1>10. CASE UNCHANGED vars
    BY <1>1, <1>10 DEF vars
  <1> QED
    BY <1>6, <1>7, <1>8, <1>9, <1>10 DEF Next

LEMMA ChangeSeenStep ==
  ASSUME IInv, [Next]_vars, NEW d \in Drives, df'[d].image # df[d].image
  PROVE  d \notin paula.present
  <1>1. HandleUI
    BY DisksStay
  <1>2. pc = "ui" /\ df \in [Drives -> Drive] /\ Reported
    BY <1>1 DEF HandleUI, IInv, TypeInv
  <1>3. paula.present = {e \in Drives : df[e].inserted}
    BY <1>2 DEF Reported
  <1>4. df' # df
    OBVIOUS
  <1>5. PICK e \in Drives :
          \/ df' = [df EXCEPT ![e].inserted = FALSE, ![e].writable = FALSE]
          \/ ~df[e].inserted /\ \E i \in DOMAIN Images : df' = [df EXCEPT ![e] = InsertFloppy(i)]
    BY <1>1, <1>4 DEF HandleUI
  <1>6. CASE df' = [df EXCEPT ![e].inserted = FALSE, ![e].writable = FALSE]
    BY <1>2, <1>6 DEF Drive
  <1>7. CASE ~df[e].inserted /\ \E i \in DOMAIN Images : df' = [df EXCEPT ![e] = InsertFloppy(i)]
    <2>1. d = e
      BY <1>2, <1>7
    <2> QED
      BY <1>3, <1>7, <2>1
  <1> QED
    BY <1>5, <1>6, <1>7

\* A drive gets a disk only while Paula reports it empty (InsertFloppy from the menu,
\* which is behind UpdateDriveStatus in the main loop).
THEOREM DisksChangeUnseen == Spec => ChangeSeen
  <1>1. IInv /\ [Next]_vars =>
          [\A d \in Drives : df'[d].image # df[d].image => d \notin paula.present]_vars
    BY ChangeSeenStep
  <1> QED
    BY <1>1, FloppyInvariant, PTL DEF Spec, ChangeSeen

-----------------------------------------------------------------------------
\* What the Amiga writes

\* A sync is followed by a header, and a header by its sector's data: all of it, or
\* the part that ends the DMA.
IsStream(q) ==
    \A i \in 1..Len(q) :
        /\ q[i].k = "sync" => i < Len(q) /\ q[i + 1].k = "head"
        /\ q[i].k = "head" => /\ i < Len(q)
                              /\ \/ q[i + 1] = Data(q[i].track, q[i].sector)
                                 \/ q[i + 1] = Part /\ i + 1 = Len(q)

LEMMA Single ==
  ASSUME NEW S, NEW q \in Seq(S), Len(q) = 1
  PROVE  q = <<q[1]>>
  <1> DEFINE r == <<q[1]>>
  <1>1. r \in Seq(S) /\ Len(r) = 1 /\ r[1] = q[1]
    OBVIOUS
  <1> HIDE DEF r
  <1>2. \A i \in 1..Len(q) : q[i] = r[i]
    BY <1>1
  <1>3. q = r
    BY <1>1, <1>2, SeqEqual
  <1> QED
    BY <1>3 DEF r

\* Taking the first of one sequence and putting it at the end of the one before.
LEMMA Shift ==
  ASSUME NEW S, NEW q \in Seq(S), NEW o \in Seq(S), o # <<>>
  PROVE  Append(q, o[1]) \o Tail(o) = q \o o
  <1> DEFINE a == Append(q, o[1])  b == Tail(o)
  <1>1. /\ Len(q) \in Nat /\ Len(o) \in Nat /\ Len(o) >= 1 /\ o[1] \in S
        /\ a \in Seq(S) /\ Len(a) = Len(q) + 1 /\ a[Len(q) + 1] = o[1]
        /\ \A i \in 1..Len(q) : a[i] = q[i]
        /\ b \in Seq(S) /\ Len(b) = Len(o) - 1
        /\ \A i \in 1..Len(b) : b[i] = o[i + 1]
    OBVIOUS
  <1> HIDE DEF a, b
  <1> DEFINE r == a \o b  t == q \o o
  <1>2. /\ r \in Seq(S) /\ t \in Seq(S)
        /\ Len(r) = Len(a) + Len(b) /\ Len(t) = Len(q) + Len(o)
        /\ \A i \in 1..Len(r) : r[i] = IF i <= Len(a) THEN a[i] ELSE b[i - Len(a)]
        /\ \A i \in 1..Len(t) : t[i] = IF i <= Len(q) THEN q[i] ELSE o[i - Len(q)]
    <2>1. a \in Seq(S) /\ b \in Seq(S)
      BY <1>1
    <2>2. /\ r \in Seq(S) /\ Len(r) = Len(a) + Len(b)
          /\ \A i \in 1..Len(a) + Len(b) : r[i] = IF i <= Len(a) THEN a[i] ELSE b[i - Len(a)]
      BY ONLY <2>1, ConcatProperties
    <2>3. /\ t \in Seq(S) /\ Len(t) = Len(q) + Len(o)
          /\ \A i \in 1..Len(q) + Len(o) : t[i] = IF i <= Len(q) THEN q[i] ELSE o[i - Len(q)]
      BY ConcatProperties
    <2> HIDE DEF r, t
    <2> QED
      BY <2>2, <2>3
  <1> HIDE DEF r, t
  <1>3. Len(r) = Len(t)
    BY <1>1, <1>2
  <1>4. ASSUME NEW i \in 1..Len(r)
        PROVE  r[i] = t[i]
    <2>1. CASE i <= Len(q)
      <3>1. i \in 1..Len(q) /\ i <= Len(a) /\ i \in 1..Len(t)
        BY <1>1, <1>3, <2>1
      <3> QED
        BY <1>1, <1>2, <2>1, <3>1
    <2>2. CASE i = Len(q) + 1
      <3>1. i <= Len(a) /\ ~ (i <= Len(q)) /\ i - Len(q) = 1 /\ i \in 1..Len(t)
        BY <1>1, <1>3, <2>2
      <3> QED
        BY <1>1, <1>2, <2>2, <3>1
    <2>3. CASE i > Len(q) + 1
      <3> DEFINE j == i - Len(a)
      <3>1. /\ ~ (i <= Len(a)) /\ ~ (i <= Len(q)) /\ j \in 1..Len(b)
            /\ i - Len(q) = j + 1 /\ i \in 1..Len(t)
        BY <1>1, <1>2, <1>3, <2>3
      <3>2. r[i] = b[j] /\ t[i] = o[i - Len(q)]
        BY <1>2, <3>1
      <3>3. b[j] = o[j + 1]
        BY <1>1, <3>1
      <3> HIDE DEF j
      <3> QED
        BY <3>1, <3>2, <3>3
    <2> QED
      BY <1>1, <1>2, <2>1, <2>2, <2>3
  <1>5. r = t
    BY <1>2, <1>3, <1>4, SeqEqual
  <1> QED
    BY <1>5 DEF r, t, a, b

LEMMA StreamTail ==
  ASSUME NEW q \in Seq(Unit), q # <<>>, IsStream(q)
  PROVE  /\ IsStream(Tail(q)) /\ Tail(q) \in Seq(Unit)
         /\ q[1].k = "sync" => Tail(q) # <<>> /\ Tail(q)[1].k = "head"
         /\ q[1].k = "head" => /\ Tail(q) # <<>>
                               /\ \/ Tail(q)[1] = Data(q[1].track, q[1].sector)
                                  \/ Tail(q) = <<Part>>
  <1> DEFINE r == Tail(q)
  <1>1. /\ r \in Seq(Unit) /\ Len(r) = Len(q) - 1 /\ Len(q) \in Nat /\ Len(q) >= 1
        /\ \A i \in 1..Len(r) : r[i] = q[i + 1]
    OBVIOUS
  <1> HIDE DEF r
  <1>2. ASSUME NEW i \in 1..Len(r)
        PROVE  /\ r[i].k = "sync" => i < Len(r) /\ r[i + 1].k = "head"
               /\ r[i].k = "head" => /\ i < Len(r)
                                     /\ \/ r[i + 1] = Data(r[i].track, r[i].sector)
                                        \/ r[i + 1] = Part /\ i + 1 = Len(r)
    <2> DEFINE j == i + 1
    <2>1. j \in 1..Len(q) /\ r[i] = q[j]
      BY <1>1
    <2>2. /\ q[j].k = "sync" => j < Len(q) /\ q[j + 1].k = "head"
          /\ q[j].k = "head" => /\ j < Len(q)
                                /\ \/ q[j + 1] = Data(q[j].track, q[j].sector)
                                   \/ q[j + 1] = Part /\ j + 1 = Len(q)
      BY <2>1 DEF IsStream
    <2>3. j < Len(q) => i < Len(r) /\ r[i + 1] = q[j + 1]
      BY <1>1, <2>1
    <2>4. j + 1 = Len(q) => i + 1 = Len(r)
      BY <1>1
    <2> HIDE DEF j
    <2> QED
      BY <2>1, <2>2, <2>3, <2>4
  <1>3. 1 \in 1..Len(q)
    BY <1>1
  <1>4. /\ q[1].k = "sync" => 1 < Len(q) /\ q[1 + 1].k = "head"
        /\ q[1].k = "head" => /\ 1 < Len(q)
                              /\ \/ q[1 + 1] = Data(q[1].track, q[1].sector)
                                 \/ q[1 + 1] = Part /\ 1 + 1 = Len(q)
    BY <1>3 DEF IsStream
  <1>5. 1 < Len(q) => r # <<>> /\ r[1] = q[1 + 1]
    BY <1>1
  <1>6. 1 + 1 = Len(q) /\ r[1] = Part => r = <<Part>>
    <2> DEFINE a == Len(q)  b == Len(r)
    <2>1. a \in Nat /\ b = a - 1
      BY <1>1
    <2>2. b = 1 => r = <<r[1]>>
      BY <1>1, Single
    <2> HIDE DEF a, b
    <2>3. 1 + 1 = a => b = 1
      BY <2>1
    <2> QED
      BY <2>2, <2>3 DEF a
  <1>7. IsStream(r)
    BY <1>2 DEF IsStream
  <1> QED
    BY <1>1, <1>4, <1>5, <1>6, <1>7 DEF r

\* Whatever the Amiga writes to a track is such a stream.
LEMMA StreamIs ==
  ASSUME NEW shape, NEW t \in Nat, NEW s \in Nat
  PROVE  IsStream(Stream(shape, t, s))
  <1> DEFINE h == Header(t, s)  d == Data(t, s)  g == Header(t, 0)  e == Data(t, 0)
             a == Header(t + 1, s)  b == Data(t + 1, s)
  <1>1. /\ h.k = "head" /\ d = Data(h.track, h.sector) /\ d.k = "data"
        /\ g.k = "head" /\ e = Data(g.track, g.sector) /\ e.k = "data"
        /\ a.k = "head" /\ b = Data(a.track, a.sector) /\ b.k = "data"
    BY DEF Header, Data
  <1>2. Gap.k = "gap" /\ Sync.k = "sync" /\ Part.k = "part"
    BY DEF Gap, Sync, Part
  <1>3. CASE shape = "sector"
    <2> DEFINE q == <<Gap, Sync, h, d>>
    <2>1. Stream(shape, t, s) = q
      BY <1>3 DEF Stream
    <2> HIDE DEF h, d
    <2>2. Len(q) = 4 /\ q[1] = Gap /\ q[2] = Sync /\ q[3] = h /\ q[4] = d
      OBVIOUS
    <2> HIDE DEF q
    <2>3. \A i \in 1..Len(q) : i = 1 \/ i = 2 \/ i = 3 \/ i = 4
      BY <2>2
    <2>4. IsStream(q)
      BY <1>1, <1>2, <2>2, <2>3 DEF IsStream
    <2> QED
      BY <2>1, <2>4
  <1>4. CASE shape = "pair"
    <2> DEFINE q == <<Sync, h, d, Sync, g, e, Gap>>
    <2>1. Stream(shape, t, s) = q
      BY <1>4 DEF Stream
    <2> HIDE DEF h, d, g, e
    <2>2. /\ Len(q) = 7 /\ q[1] = Sync /\ q[2] = h /\ q[3] = d /\ q[4] = Sync
          /\ q[5] = g /\ q[6] = e /\ q[7] = Gap
      OBVIOUS
    <2> HIDE DEF q
    <2>3. \A i \in 1..Len(q) : i = 1 \/ i = 2 \/ i = 3 \/ i = 4 \/ i = 5 \/ i = 6 \/ i = 7
      BY <2>2
    <2>4. IsStream(q)
      BY <1>1, <1>2, <2>2, <2>3 DEF IsStream
    <2> QED
      BY <2>1, <2>4
  <1>5. CASE shape = "foreign"
    <2> DEFINE q == <<Sync, a, b>>
    <2>1. Stream(shape, t, s) = q
      BY <1>5 DEF Stream
    <2> HIDE DEF a, b
    <2>2. Len(q) = 3 /\ q[1] = Sync /\ q[2] = a /\ q[3] = b
      OBVIOUS
    <2> HIDE DEF q
    <2>3. \A i \in 1..Len(q) : i = 1 \/ i = 2 \/ i = 3
      BY <2>2
    <2>4. IsStream(q)
      BY <1>1, <1>2, <2>2, <2>3 DEF IsStream
    <2> QED
      BY <2>1, <2>4
  <1>6. CASE shape \notin {"sector", "pair", "foreign"}
    <2> DEFINE q == <<Sync, h, Part>>
    <2>1. Stream(shape, t, s) = q
      BY <1>6 DEF Stream
    <2> HIDE DEF h
    <2>2. Len(q) = 3 /\ q[1] = Sync /\ q[2] = h /\ q[3] = Part
      OBVIOUS
    <2> HIDE DEF q
    <2>3. \A i \in 1..Len(q) : i = 1 \/ i = 2 \/ i = 3
      BY <2>2
    <2>4. IsStream(q)
      BY <1>1, <1>2, <2>2, <2>3 DEF IsStream
    <2> QED
      BY <2>1, <2>4
  <1> QED
    BY <1>3, <1>4, <1>5, <1>6

-----------------------------------------------------------------------------
\* The words in the FIFO

LEMMA CountEmpty == Count(<<>>) = 0
  <1> DEFINE q == <<>>
             IsSum(f) == f = [i \in 0..Len(q) |-> IF i = 0 THEN 0 ELSE f[i - 1] + words[q[i].k]]
             w == [i \in 0..0 |-> 0]
  <1>1. Len(q) = 0 /\ 0..Len(q) = 0..0 /\ 0..0 = {0}
    OBVIOUS
  <1>2. IsSum(w)
    BY <1>1
  <1>3. PICK f : IsSum(f) /\ Count(q) = f[Len(q)]
    <2> HIDE DEF w
    <2> QED
      BY <1>2 DEF Count
  <1>4. f[0] = 0
    BY <1>1, <1>3
  <1> QED
    BY <1>1, <1>3, <1>4

LEMMA CountPart == Count(<<Part>>) = 258
  <1> DEFINE q == <<Part>>
             IsSum(f) == f = [i \in 0..Len(q) |-> IF i = 0 THEN 0 ELSE f[i - 1] + words[q[i].k]]
             w == [i \in 0..1 |-> IF i = 0 THEN 0 ELSE 258]
  <1>1. Len(q) = 1 /\ words[q[1].k] = 258
    BY DEF Part, words
  <1>2. IsSum(w)
    <2>1. ASSUME NEW i \in 0..1
          PROVE  w[i] = IF i = 0 THEN 0 ELSE w[i - 1] + words[q[i].k]
      <3>1. CASE i = 0
        BY <3>1
      <3>2. CASE i = 1
        BY <1>1, <3>2
      <3> QED
        BY <3>1, <3>2
    <2> DEFINE v == [i \in 0..1 |-> IF i = 0 THEN 0 ELSE w[i - 1] + words[q[i].k]]
    <2>2. w = v
      BY <2>1
    <2> QED
      BY <1>1, <2>2
  <1>3. PICK f : IsSum(f) /\ Count(q) = f[Len(q)]
    <2> HIDE DEF w
    <2> QED
      BY <1>2 DEF Count
  <1>4. \A i \in 0..1 : f[i] = IF i = 0 THEN 0 ELSE f[i - 1] + words[q[i].k]
    BY <1>1, <1>3
  <1>5. f[0] = 0 /\ f[1] = f[1 - 1] + words[q[1].k]
    BY <1>4
  <1>6. 1 - 1 = 0
    OBVIOUS
  <1> QED
    BY <1>1, <1>3, <1>5, <1>6

-----------------------------------------------------------------------------
\* The write path

\* What of a write DMA the server has yet to take.
Remaining == paula.fifo \o out

Streaming == (paula.dmaen /\ paula.write) => IsStream(Remaining)

\* The cursor f and the local s of WriteTrack are where the drive x is asked to be.
Aimed(x, f, s) ==
    /\ f.image = x.image
    /\ f.sector = x.track * SECTOR_COUNT + s
    /\ x.writable => x.track < x.tracks /\ InPlace(f)

Writing == pc \in WritePlaces => Aimed(df[sel], file, sector)

\* The server has found a sync, a header or data, and the DMA still runs.
FoundPlaces == {"word", "headpoll", "head", "datapoll", "data"}

Taking ==
    pc \in FoundPlaces =>
        /\ trackwr(paula)
        /\ pc = "word" => n \in 1..Len(paula.fifo)
        /\ pc \in {"headpoll", "head"} => Remaining # <<>> /\ Remaining[1].k = "head"
        /\ pc \in {"datapoll", "data"} =>
             /\ Track = df[sel].track /\ Sector = sector
             /\ Remaining # <<>>
             /\ Remaining[1] = Data(Track, Sector) \/ Remaining = <<Part>>
        /\ pc \in {"head", "data"} => paula.fifo # <<>>
        /\ pc = "data" => Remaining[1] = Data(Track, Sector)

WInv == Streaming /\ Writing /\ Taking /\ StoreInPlace

\* No write to a track that the image does not have: what WriteTrack leaves to the Amiga.
WithinImage ==
    (trackwr(paula) /\ df[paula.sel].writable) => paula.track[paula.sel] < df[paula.sel].tracks

LEMMA RemainingIs ==
  ASSUME TypeInv
  PROVE  /\ Remaining \in Seq(Unit) /\ paula.fifo \in Seq(Unit) /\ out \in Seq(Unit)
         /\ paula.fifo = <<>> => Remaining = out
         /\ paula.fifo # <<>> => /\ Remaining # <<>> /\ Remaining[1] = paula.fifo[1]
                                 /\ Tail(Remaining) = Tail(paula.fifo) \o out
  <1> DEFINE q == paula.fifo
  <1>1. q \in Seq(Unit)
    BY DEF TypeInv, Controller
  <1>2. out \in Seq(Unit)
    <2>1. out \in Seq(Written) /\ Written \subseteq Unit
      BY DEF TypeInv, Unit
    <2> HIDE DEF Written, Unit
    <2> QED
      BY <2>1
  <1> HIDE DEF q
  <1>3. /\ q \o out \in Seq(Unit)
        /\ q = <<>> => q \o out = out
        /\ q # <<>> => q \o out # <<>> /\ (q \o out)[1] = q[1] /\ Tail(q \o out) = Tail(q) \o out
    BY <1>1, <1>2
  <1> QED
    BY <1>1, <1>2, <1>3 DEF Remaining, q

\* A step that leaves the write path, or is not of it.
LEMMA Elsewhere ==
  ASSUME IInv, WInv, pc' \notin WritePlaces, Streaming', stored' = stored \/ stored' = None
  PROVE  WInv'
  <1>1. Writing' /\ Taking'
    BY DEF Writing, Taking, WritePlaces, FoundPlaces
  <1>2. StoreInPlace'
    BY DEF WInv, StoreInPlace
  <1> QED
    BY <1>1, <1>2 DEF WInv

LEMMA StreamStays ==
  ASSUME WInv, paula'.dmaen = paula.dmaen, paula'.write = paula.write,
         paula.write => paula'.fifo = paula.fifo, out' = out
  PROVE  Streaming'
  BY DEF WInv, Streaming, Remaining

\* A step of Paula or the Amiga.
LEMMA HostWrites ==
  ASSUME IInv, WInv, UNCHANGED host_rest, Streaming', Taking'
  PROVE  WInv'
  <1>1. Writing' /\ StoreInPlace'
    BY DEF host_rest, fw_vars, WInv, Writing, StoreInPlace
  <1> QED
    BY <1>1 DEF WInv

\* While no write runs, nothing has been found.
LEMMA NothingFound ==
  ASSUME WInv, ~trackwr(paula), UNCHANGED host_rest
  PROVE  Taking'
  BY DEF WInv, Taking, host_rest, fw_vars

LEMMA ChipWrites ==
  ASSUME IInv, WInv, Chip
  PROVE  WInv'
  <1>1. /\ paula \in Controller /\ TypeInv /\ Dma /\ Streaming /\ Taking
        /\ UNCHANGED host_rest
        /\ UNCHANGED <<df, pc, sel, file, sector, n, Track, Sector>>
    BY DEF IInv, TypeInv, WInv, Chip, BlockDone, ReadDma, WriteDma, host_rest, fw_vars
  <1>2. CASE BlockDone
    <2>1. ~paula'.dmaen
      BY <1>1, <1>2, StopIs DEF BlockDone
    <2>2. Streaming'
      BY <2>1 DEF Streaming
    <2>3. CASE pc \in FoundPlaces
      <3>1. trackwr(paula) /\ paula.fifo = <<>> /\ paula.dsklen = 0
        BY <1>1, <1>2, <2>3 DEF Taking, BlockDone
      <3>2. Len(out) = 0
        BY <1>1, <3>1 DEF Dma, trackwr, Active
      <3>3. out = <<>>
        BY <1>1, <3>2 DEF TypeInv
      <3>4. Remaining = <<>>
        BY <1>1, <3>1, <3>3, RemainingIs
      <3>5. n \notin 1..Len(paula.fifo)
        BY <3>1
      <3> QED
        BY <1>1, <2>3, <3>4, <3>5 DEF Taking, FoundPlaces
    <2>4. CASE pc \notin FoundPlaces
      <3>1. pc' \notin FoundPlaces
        BY <1>1, <2>4
      <3>2. Taking'
        BY <3>1 DEF Taking
      <3> QED
        BY <1>1, <2>2, <3>2, HostWrites
    <2> QED
      BY <2>3, <2>4
  <1>3. CASE ReadDma
    <2>1. ~paula.write /\ paula'.write = paula.write
      BY <1>1, <1>3 DEF ReadDma, Controller
    <2> QED
      BY <1>1, <2>1, HostWrites, NothingFound DEF Streaming, trackwr
  <1>4. CASE WriteDma
    <2>1. /\ out \in Seq(Written) /\ out # <<>> /\ out[1] \in Written
          /\ paula'.fifo = Append(paula.fifo, out[1]) /\ out' = Tail(out)
          /\ paula'.dskstate = paula.dskstate /\ paula'.write = paula.write
          /\ paula'.dmaen = paula.dmaen
      BY <1>4, WriteDmaPuts
    <2>2. paula.fifo \in Seq(Unit) /\ out \in Seq(Unit)
      BY <1>1, RemainingIs
    <2>3. Remaining' = Remaining
      <3> DEFINE q == paula.fifo
      <3>1. Append(q, out[1]) \o Tail(out) = q \o out
        BY <2>1, <2>2, Shift
      <3> QED
        BY <2>1, <3>1 DEF Remaining
    <2>4. paula'.fifo # <<>> /\ Len(paula'.fifo) = Len(paula.fifo) + 1 /\ Len(paula.fifo) \in Nat
      <3> DEFINE q == paula.fifo  u == out[1]
      <3>1. u \in Unit /\ q \in Seq(Unit) /\ paula'.fifo = Append(q, u)
        BY <2>1, <2>2 DEF Unit
      <3> HIDE DEF q, u
      <3>2. Append(q, u) # <<>> /\ Len(Append(q, u)) = Len(q) + 1 /\ Len(q) \in Nat
        BY <3>1
      <3> QED
        BY <3>1, <3>2 DEF q
    <2>5. Streaming'
      BY <1>1, <2>1, <2>3 DEF Streaming
    <2>6. trackwr(paula') <=> trackwr(paula)
      BY <2>1 DEF trackwr
    <2>7. n \in 1..Len(paula.fifo) => n \in 1..Len(paula'.fifo)
      BY <2>4
    <2>8. Taking'
      BY <1>1, <2>3, <2>4, <2>6, <2>7 DEF Taking
    <2> QED
      BY <1>1, <2>5, <2>8, HostWrites
  <1> QED
    BY <1>2, <1>3, <1>4 DEF Chip

LEMMA AmigaWrites ==
  ASSUME IInv, WInv, "write" \notin AbortKinds, Amiga
  PROVE  WInv'
  <1>1. paula \in Controller /\ TypeInv /\ Dma /\ UNCHANGED host_rest
    BY DEF IInv, TypeInv, Amiga, Select, Step, ReadTrackDma, WriteTrackDma, Abort
  <1>2. CASE Select \/ Step
    <2>1. paula'.dmaen = paula.dmaen /\ out' = out /\ ~paula.dmaen
      BY <1>1, <1>2 DEF Select, Step, AmigaIdle, amiga_vars, Controller
    <2>2. ~trackwr(paula) /\ Streaming'
      BY <1>1, <2>1 DEF Dma, trackwr, Active, Streaming
    <2> QED
      BY <1>1, <2>2, HostWrites, NothingFound
  <1>3. CASE ReadTrackDma
    <2>1. AmigaIdle /\ ~paula'.write
      BY <1>1, <1>3 DEF ReadTrackDma, Controller
    <2>2. ~trackwr(paula) /\ Streaming'
      BY <1>1, <2>1 DEF Dma, trackwr, Active, Streaming, AmigaIdle
    <2> QED
      BY <1>1, <2>2, HostWrites, NothingFound
  <1>4. CASE WriteTrackDma
    <2>1. AmigaIdle /\ paula'.fifo = paula.fifo
      BY <1>1, <1>4 DEF WriteTrackDma, Controller
    <2>2. ~trackwr(paula) /\ paula.fifo = <<>>
      BY <1>1, <2>1 DEF Dma, trackwr, Active, AmigaIdle
    <2>3. PICK shape \in Shapes, s \in 0..(SECTOR_COUNT - 1) : out' = Stream(shape, Heads(paula), s)
      BY <1>4 DEF WriteTrackDma, Heads
    <2>4. Heads(paula) \in Nat /\ s \in Nat
      BY <1>1, Constants DEF Heads, Controller
    <2>5. IsStream(out')
      BY <2>3, <2>4, StreamIs
    <2>6. out' \in Seq(Written)
      BY <2>3, <2>4, StreamTyped
    <2>7. <<>> \o out' = out'
      BY <2>6
    <2>8. Streaming'
      BY <2>1, <2>2, <2>5, <2>7 DEF Streaming, Remaining
    <2> QED
      BY <1>1, <2>2, <2>8, HostWrites, NothingFound
  <1>5. CASE Abort
    <2>1. ~paula.write /\ paula' = Stop(paula)
      BY <1>5 DEF Abort
    <2>2. ~trackwr(paula) /\ ~paula'.dmaen
      BY <1>1, <2>1, StopIs DEF trackwr
    <2> QED
      BY <1>1, <2>2, HostWrites, NothingFound DEF Streaming
  <1> QED
    BY <1>2, <1>3, <1>4, <1>5 DEF Amiga

LEMMA FpgaWrites ==
  ASSUME IInv, WInv, WithinImage, HandleFpga
  PROVE  WInv'
  <1>1. /\ paula' = Polled(paula) /\ out' = out /\ stored' = stored /\ TypeInv
    BY DEF HandleFpga, amiga_vars, IInv
  <1>2. /\ paula'.dmaen = paula.dmaen /\ paula'.write = paula.write
        /\ paula'.fifo = paula.fifo
    BY <1>1, PolledFacts
  <1>3. Streaming'
    BY <1>1, <1>2, StreamStays
  <1>4. CASE ReadRequest(Answer(paula)) \/ NoRequest(Answer(paula))
    <2>1. pc' \in {"first", "status"}
      BY <1>4 DEF ReadRequest, NoRequest
    <2> QED
      BY <1>1, <1>3, <2>1, Elsewhere DEF WritePlaces
  <1>5. CASE Answer(paula).wr /\ WriteRequest(Answer(paula))
    <2> DEFINE d == paula.sel  x == df[d]  t == Heads(paula)  f == TrackStart(d, t)
               y == df'[d]
    <2>1. /\ d \in Drives /\ trackwr(paula) /\ t \in Nat
          /\ Answer(paula).sel = d /\ Answer(paula).track = t
          /\ df \in [Drives -> Drive]
      BY <1>1, <1>5, PolledAnswer DEF TypeInv
    <2>2. /\ sel' = d /\ file' = f /\ sector' = 0 /\ pc' = "sync"
          /\ df' = [df EXCEPT ![d].track = t, ![d].track_prev = -1]
      BY <1>5, <2>1 DEF WriteRequest
    <2>3. f.image = x.image /\ f.sector = t * SECTOR_COUNT /\ (t < x.tracks => InPlace(f))
      BY <1>1, <2>1, TrackStartIs
    <2>4. x.writable => t < x.tracks
      BY <2>1 DEF WithinImage, Heads
    <2> HIDE DEF t
    <2>5. df' = Requested(df, d, t, -1) /\ -1 \in {-1}
      BY <2>2 DEF Requested
    <2>6. y = [inserted |-> df[d].inserted, writable |-> df[d].writable,
               image |-> df[d].image, tracks |-> df[d].tracks,
               cluster_offset |-> df[d].cluster_offset,
               sector_offset |-> df[d].sector_offset, track |-> t, track_prev |-> -1]
      <3> HIDE DEF d
      <3> QED
        BY <2>1, <2>5, RequestedIs
    <2> HIDE DEF y, f
    <2>7. /\ y.image = x.image /\ y.writable = x.writable /\ y.tracks = x.tracks
          /\ y.track = t
      BY <2>6
    <2> HIDE DEF x
    <2>8. t * SECTOR_COUNT + 0 = t * SECTOR_COUNT
      BY <2>1, Constants
    <2>9. Aimed(y, f, 0)
      BY <2>3, <2>4, <2>7, <2>8 DEF Aimed
    <2>10. Writing'
      BY <2>2, <2>9 DEF Writing, y
    <2>11. Taking'
      BY <2>2 DEF Taking, FoundPlaces
    <2>12. StoreInPlace'
      BY <1>1 DEF WInv, StoreInPlace
    <2> QED
      BY <1>3, <2>10, <2>11, <2>12 DEF WInv
  <1> QED
    BY <1>4, <1>5 DEF HandleFpga

\* The steps of the server that have nothing to do with writing.
LEMMA OtherWrites ==
  ASSUME IInv, WInv,
         \/ UpdateDriveStatus \/ HandleUI \/ ClearError \/ FirstPoll
         \/ FileRead \/ CheckRequest \/ StopReading \/ SendSector
  PROVE  WInv'
  <1>1. paula \in Controller /\ out' = out
    BY DEF IInv, TypeInv, UpdateDriveStatus, HandleUI, ClearError, FirstPoll, FileRead,
       CheckRequest, StopReading, SendSector, amiga_vars
  <1>2. pc' \notin WritePlaces
    BY DEF UpdateDriveStatus, HandleUI, ClearError, FirstPoll, FileRead, CheckRequest,
       StopReading, Finish, SendSector, fw_vars, WritePlaces
  <1>3. stored' = stored \/ stored' = None
    BY DEF UpdateDriveStatus, HandleUI, ClearError, FirstPoll, FileRead, CheckRequest,
       StopReading, Finish, SendSector, read_rest
  <1>4. /\ paula'.dmaen = paula.dmaen /\ paula'.write = paula.write
        /\ paula.write => paula'.fifo = paula.fifo
    <2>1. CASE paula' = paula
      BY <2>1
    <2>2. CASE paula' = Polled(paula)
      BY <1>1, <2>2, PolledIs
    <2>3. CASE paula' = Told(paula)
      BY <1>1, <2>3, ToldIs
    <2>4. CASE SendSector
      <3> DEFINE u == Sec(file.image, buf, df[sel].track, sector)  sent == Put(paula, u)
      <3>1. u \in Unit
        BY <2>4, SentFacts
      <3>2. paula' = IF sector = SECTOR_COUNT - 1 THEN Put(sent, Gap) ELSE sent
        BY <2>4 DEF SendSector
      <3>3. Gap \in Unit
        BY DEF Gap, Unit, Written
      <3> HIDE DEF u
      <3>4. /\ sent \in Controller /\ sent.write = paula.write /\ sent.dmaen = paula.dmaen
            /\ ~trackrd(paula) => sent = paula
        BY <1>1, <3>1, PutIs
      <3> HIDE DEF sent
      <3>5. /\ Put(sent, Gap).write = sent.write /\ Put(sent, Gap).dmaen = sent.dmaen
            /\ ~trackrd(sent) => Put(sent, Gap) = sent
        BY <3>3, <3>4, PutIs
      <3>6. paula.write => ~trackrd(paula) /\ ~trackrd(sent)
        BY <3>4 DEF trackrd
      <3> QED
        BY <3>2, <3>4, <3>5, <3>6
    <2>5. SendSector \/ paula' \in {paula, Polled(paula), Told(paula)}
      BY DEF UpdateDriveStatus, HandleUI, ClearError, FirstPoll, FileRead, CheckRequest,
         StopReading
    <2> QED
      BY <2>1, <2>2, <2>3, <2>4, <2>5
  <1>5. Streaming'
    BY <1>1, <1>4, StreamStays
  <1> QED
    BY <1>2, <1>3, <1>5, Elsewhere

\* The server takes the word it has found.
LEMMA TakeMoves ==
  ASSUME IInv, WInv, pc \in FoundPlaces, paula.fifo # <<>>, paula' = Take(paula), out' = out
  PROVE  /\ Streaming' /\ trackwr(paula) /\ trackwr(paula')
         /\ NextWord(paula) = Remaining[1] /\ NextWord(paula) \in Unit
         /\ Remaining' = Tail(Remaining) /\ Len(paula'.fifo) = Len(paula.fifo) - 1
         /\ Remaining[1].k = "sync" => Remaining' # <<>> /\ Remaining'[1].k = "head"
         /\ Remaining[1].k = "head" =>
              /\ Remaining' # <<>>
              /\ \/ Remaining'[1] = Data(Remaining[1].track, Remaining[1].sector)
                 \/ Remaining' = <<Part>>
  <1>1. /\ paula \in Controller /\ TypeInv /\ Dma /\ Streaming /\ trackwr(paula)
    BY DEF IInv, TypeInv, WInv, Taking
  <1>2. /\ paula'.dmaen = paula.dmaen /\ paula'.write = paula.write
        /\ paula'.dskstate = paula.dskstate /\ paula'.fifo = Tail(paula.fifo)
    BY <1>1, TakeIs
  <1>3. /\ Remaining \in Seq(Unit) /\ paula.fifo \in Seq(Unit)
        /\ Remaining # <<>> /\ Remaining[1] = paula.fifo[1]
        /\ Tail(Remaining) = Tail(paula.fifo) \o out
    BY <1>1, RemainingIs
  <1>4. trackwr(paula')
    BY <1>1, <1>2 DEF trackwr
  <1>5. NextWord(paula) = Remaining[1] /\ NextWord(paula) \in Unit
    <2>1. NextWord(paula) = paula.fifo[1]
      BY <1>1 DEF NextWord
    <2> DEFINE q == paula.fifo
    <2>2. q \in Seq(Unit) /\ q # <<>>
      BY <1>3
    <2> HIDE DEF q
    <2>3. q[1] \in Unit
      BY <2>2
    <2> QED
      BY <1>3, <2>1, <2>3 DEF q
  <1>6. Remaining' = Tail(Remaining)
    BY <1>2, <1>3 DEF Remaining
  <1>7. IsStream(Remaining)
    BY <1>1 DEF Streaming, Dma, trackwr, Active
  <1> DEFINE r == Remaining
  <1>8. /\ IsStream(Tail(r)) 
        /\ r[1].k = "sync" => Tail(r) # <<>> /\ Tail(r)[1].k = "head"
        /\ r[1].k = "head" => /\ Tail(r) # <<>>
                              /\ \/ Tail(r)[1] = Data(r[1].track, r[1].sector)
                                 \/ Tail(r) = <<Part>>
    <2>1. r \in Seq(Unit) /\ r # <<>> /\ IsStream(r)
      BY <1>3, <1>7
    <2> HIDE DEF r
    <2> QED
      BY <2>1, StreamTail
  <1>9. Streaming'
    BY <1>6, <1>8 DEF Streaming
  <1>10. Len(paula'.fifo) = Len(paula.fifo) - 1
    <2> DEFINE q == paula.fifo
    <2>1. q \in Seq(Unit) /\ q # <<>> /\ paula'.fifo = Tail(q)
      BY <1>2, <1>3
    <2> HIDE DEF q
    <2>2. Len(Tail(q)) = Len(q) - 1
      BY <2>1
    <2> QED
      BY <2>1, <2>2 DEF q
  <1> QED
    BY <1>1, <1>4, <1>5, <1>6, <1>8, <1>9, <1>10

\* A step of WriteTrack that stores nothing.
LEMMA StaysWriting ==
  ASSUME IInv, WInv, UNCHANGED <<df, sel, stored>>, Streaming', Aimed(df[sel], file', sector'),
         Taking'
  PROVE  WInv'
  <1>1. Writing'
    BY DEF Writing
  <1>2. StoreInPlace'
    BY DEF WInv, StoreInPlace
  <1> QED
    BY <1>1, <1>2 DEF WInv

LEMMA PolledWrites ==
  ASSUME IInv, WInv, paula' = Polled(paula), out' = out
  PROVE  /\ Streaming' /\ (trackwr(paula) => paula' = paula /\ Remaining' = Remaining)
         /\ Answer(paula).wr <=> trackwr(paula)
  <1>1. /\ paula'.dmaen = paula.dmaen /\ paula'.write = paula.write
        /\ paula'.fifo = paula.fifo /\ (Active(paula) => paula' = paula)
    BY PolledFacts
  <1>2. Streaming'
    BY <1>1, StreamStays
  <1> QED
    BY <1>1, <1>2 DEF trackwr, Active, Remaining, Answer

LEMMA SyncPollWrites ==
  ASSUME IInv, WInv, SyncPoll
  PROVE  WInv'
  <1>1. pc = "sync" /\ paula' = Polled(paula) /\ out' = out /\ df' = df
        /\ Aimed(df[sel], file, sector)
    BY DEF SyncPoll, amiga_vars, WInv, Writing, WritePlaces
  <1>2. /\ Streaming' /\ (trackwr(paula) => paula' = paula)
        /\ Answer(paula).wr <=> trackwr(paula)
    BY <1>1, PolledWrites
  <1>3. CASE Finish
    BY <1>2, <1>3, Elsewhere DEF Finish, WritePlaces
  <1>4. CASE ~Finish
    <2>1. /\ Answer(paula).wr /\ n' = Len(paula.fifo)
          /\ pc' = IF n' = 0 THEN "sync" ELSE "word"
          /\ UNCHANGED <<stored, sel, file, sector>>
      BY <1>4 DEF SyncPoll
    <2>2. trackwr(paula) /\ paula' = paula
      BY <1>2, <2>1
    <2>3. paula.fifo \in Seq(Unit) /\ Len(paula.fifo) \in Nat
      BY RemainingIs DEF IInv
    <2> DEFINE l == Len(paula.fifo)
    <2>4. l # 0 => l \in 1..l
      BY <2>3
    <2>5. Taking'
      BY <2>1, <2>2, <2>4 DEF Taking, FoundPlaces
    <2> QED
      BY <1>1, <1>2, <2>1, <2>5, StaysWriting
  <1> QED
    BY <1>3, <1>4

LEMMA SyncWordWrites ==
  ASSUME IInv, WInv, SyncWord
  PROVE  WInv'
  <1>1. /\ pc = "word" /\ paula' = Take(paula) /\ out' = out
        /\ UNCHANGED <<df, sel, stored, file, sector>>
        /\ n' = IF NextWord(paula) = Sync THEN 0 ELSE n - 1
        /\ pc' = IF NextWord(paula) = Sync THEN "headpoll" ELSE IF n = 1 THEN "sync" ELSE "word"
        /\ Aimed(df[sel], file, sector) /\ n \in 1..Len(paula.fifo)
    BY DEF SyncWord, write_rest, amiga_vars, WInv, Writing, WritePlaces, Taking, FoundPlaces
  <1>2. paula.fifo \in Seq(Unit) /\ Len(paula.fifo) \in Nat
    BY RemainingIs DEF IInv
  <1>3. paula.fifo # <<>>
    BY <1>1, <1>2
  <1>4. /\ Streaming' /\ trackwr(paula') /\ NextWord(paula) = Remaining[1]
        /\ Len(paula'.fifo) = Len(paula.fifo) - 1
        /\ Remaining[1].k = "sync" => Remaining' # <<>> /\ Remaining'[1].k = "head"
    BY <1>1, <1>3, TakeMoves DEF FoundPlaces
  <1>5. Taking'
    <2>1. CASE NextWord(paula) = Sync
      BY <1>1, <1>4, <2>1 DEF Taking, Sync
    <2>2. CASE NextWord(paula) # Sync /\ n = 1
      BY <1>1, <2>2 DEF Taking, FoundPlaces
    <2>3. CASE NextWord(paula) # Sync /\ n # 1
      <3> DEFINE l == Len(paula.fifo)
      <3>1. n - 1 \in 1..(l - 1)
        BY <1>1, <1>2, <2>3
      <3> HIDE DEF l
      <3>2. n' = n - 1 /\ Len(paula'.fifo) = l - 1 /\ pc' = "word"
        BY <1>1, <1>4, <2>3 DEF l
      <3> QED
        BY <1>4, <3>1, <3>2 DEF Taking
    <2> QED
      BY <2>1, <2>2, <2>3
  <1> QED
    BY <1>1, <1>4, <1>5, StaysWriting

LEMMA WaitWrites ==
  ASSUME IInv, WInv, HeaderPoll \/ DataPoll
  PROVE  WInv'
  <1>1. /\ pc \in {"headpoll", "datapoll"} /\ paula' = Polled(paula) /\ out' = out
        /\ UNCHANGED <<df, sel, stored, file, sector, Track, Sector>>
        /\ Aimed(df[sel], file, sector) /\ trackwr(paula)
    BY DEF HeaderPoll, DataPoll, Wait, write_rest, amiga_vars, WInv, Writing, WritePlaces,
       Taking, FoundPlaces
  <1>2. /\ Streaming' /\ paula' = paula /\ Remaining' = Remaining
    BY <1>1, PolledWrites
  <1>3. Answer(paula).cnt = Count(paula.fifo)
    BY DEF Answer
  <1>4. TypeInv /\ Taking
    BY DEF IInv, WInv
  <1>5. CASE HeaderPoll
    <2>1. /\ pc = "headpoll" /\ pc' \in {"sync", "head", "headpoll"}
          /\ pc' = "head" => Count(paula.fifo) >= 25
      BY <1>3, <1>5 DEF HeaderPoll, Wait
    <2>2. pc' = "head" => paula.fifo # <<>>
      BY <2>1, CountEmpty
    <2>3. Taking'
      BY <1>1, <1>2, <1>4, <2>1, <2>2 DEF Taking, FoundPlaces
    <2> QED
      BY <1>1, <1>2, <2>3, StaysWriting
  <1>6. CASE DataPoll
    <2>1. /\ pc = "datapoll" /\ pc' \in {"sync", "data", "datapoll"}
          /\ pc' = "data" => Count(paula.fifo) >= 516
      BY <1>3, <1>6 DEF DataPoll, Wait
    <2>2. /\ Remaining # <<>>
          /\ Remaining[1] = Data(Track, Sector) \/ Remaining = <<Part>>
          /\ Track = df[sel].track /\ Sector = sector
      BY <1>4, <2>1 DEF Taking, FoundPlaces
    <2>3. pc' = "data" => paula.fifo # <<>>
      BY <2>1, CountEmpty
    <2>4. pc' = "data" => Remaining # <<Part>>
      <3> SUFFICES ASSUME pc' = "data", Remaining = <<Part>>
                   PROVE  FALSE
        OBVIOUS
      <3> DEFINE q == paula.fifo
      <3>1. q \in Seq(Unit) /\ out \in Seq(Unit) /\ q # <<>>
        BY <1>4, <2>3, RemainingIs
      <3>2. q \o out = <<Part>>
        BY DEF Remaining
      <3> HIDE DEF q
      <3>3. Len(q) + Len(out) = 1 /\ q[1] = Part
        <4>1. Len(q \o out) = Len(q) + Len(out) /\ (q \o out)[1] = q[1]
          BY <3>1
        <4>2. Len(<<Part>>) = 1 /\ <<Part>>[1] = Part
          OBVIOUS
        <4> QED
          BY <3>2, <4>1, <4>2
      <3>4. Len(q) = 1
        BY <3>1, <3>3
      <3>5. q = <<Part>>
        BY <3>1, <3>3, <3>4, Single
      <3>6. Count(q) >= 516
        BY <2>1 DEF q
      <3> QED
        BY <3>5, <3>6, CountPart
    <2>5. Taking'
      BY <1>1, <1>2, <2>1, <2>2, <2>3, <2>4 DEF Taking, FoundPlaces
    <2> QED
      BY <1>1, <1>2, <2>5, StaysWriting
  <1> QED
    BY <1>5, <1>6

\* GetHeader moves the cursor to the sector of the header.
LEMMA MovedAimed ==
  ASSUME TypeInv, NEW t \in Nat, NEW s \in Nat, Aimed(df[sel], file, sector), t = df[sel].track
  PROVE  LET from == IF s < sector THEN TrackStart(sel, t) ELSE file
             ahead == IF s < sector THEN s ELSE s - sector
         IN  Aimed(df[sel], Skip(from, ahead), s)
  <1> DEFINE x == df[sel]
             from == IF s < sector THEN TrackStart(sel, t) ELSE file
             ahead == IF s < sector THEN s ELSE s - sector
  <1>1. /\ from \in Cursor /\ ahead \in Nat /\ Skip(from, ahead) = Ahead(from, ahead)
    BY MovedIs
  <1>2. sel \in Drives /\ sector \in Nat /\ file \in Cursor
    BY DEF TypeInv
  <1>3. /\ TrackStart(sel, t).image = x.image /\ TrackStart(sel, t).sector = t * SECTOR_COUNT
        /\ t < x.tracks => InPlace(TrackStart(sel, t))
    BY <1>2, TrackStartIs
  <1>4. /\ file.image = x.image /\ file.sector = t * SECTOR_COUNT + sector
        /\ x.writable => t < x.tracks /\ InPlace(file)
    BY DEF Aimed
  <1> HIDE DEF x
  <1>5. from.image = x.image /\ (x.writable => InPlace(from))
    BY <1>3, <1>4
  <1>6. from.sector + ahead = t * SECTOR_COUNT + s
    <2> DEFINE b == t * SECTOR_COUNT
    <2>1. b \in Nat
      BY Constants
    <2>2. s < sector => from.sector = b /\ ahead = s
      BY <1>3
    <2>3. ~ (s < sector) => from.sector = b + sector /\ ahead = s - sector
      BY <1>4
    <2> HIDE DEF b, from, ahead
    <2>4. from.sector + ahead = b + s
      BY <1>2, <2>1, <2>2, <2>3
    <2> QED
      BY <2>4 DEF b
  <1> HIDE DEF from, ahead
  <1>7. InPlace(from) => InPlace(Ahead(from, ahead))
    BY <1>1, AheadInPlace
  <1>8. Ahead(from, ahead).image = from.image /\ Ahead(from, ahead).sector = from.sector + ahead
    BY DEF Ahead
  <1>9. Aimed(x, Skip(from, ahead), s)
    BY <1>1, <1>4, <1>5, <1>6, <1>7, <1>8 DEF Aimed, x
  <1> QED
    BY <1>9 DEF from, ahead, x

LEMMA GetHeaderWrites ==
  ASSUME IInv, WInv, GetHeader
  PROVE  WInv'
  <1> DEFINE h == NextWord(paula)
             mine == h.k = "head" /\ h.track = df[sel].track
             from == IF h.sector < sector THEN TrackStart(sel, h.track) ELSE file
             ahead == IF h.sector < sector THEN h.sector ELSE h.sector - sector
  <1>1. /\ pc = "head" /\ paula' = Take(paula) /\ out' = out
        /\ UNCHANGED <<df, sel, stored>> /\ TypeInv
        /\ Aimed(df[sel], file, sector) /\ paula.fifo # <<>>
    BY DEF GetHeader, write_rest, amiga_vars, IInv, WInv, Writing, WritePlaces, Taking,
       FoundPlaces
  <1>2. IF mine
        THEN /\ file' = Skip(from, ahead)
             /\ sector' = h.sector /\ Track' = h.track /\ Sector' = h.sector
             /\ pc' = "datapoll"
        ELSE pc' = "sync" /\ UNCHANGED <<file, sector, Track, Sector>>
    BY DEF GetHeader
  <1>3. /\ Streaming' /\ trackwr(paula') /\ h = Remaining[1]
        /\ Remaining[1].k = "head" =>
             /\ Remaining' # <<>>
             /\ \/ Remaining'[1] = Data(Remaining[1].track, Remaining[1].sector)
                \/ Remaining' = <<Part>>
    BY <1>1, TakeMoves DEF FoundPlaces
  <1>4. CASE mine
    <2>1. h.track \in Nat /\ h.sector \in Nat
      BY <1>1, <1>4, NextWordIs DEF TypeInv
    <2>2. Aimed(df[sel], Skip(from, ahead), h.sector)
      <3> HIDE DEF h
      <3> QED
        BY <1>1, <1>4, <2>1, MovedAimed
    <2> HIDE DEF from, ahead
    <2>3. Aimed(df[sel], file', sector')
      BY <1>2, <1>4, <2>2
    <2>4. Taking'
      <3> HIDE DEF h
      <3>1. /\ Remaining' # <<>>
            /\ Remaining'[1] = Data(Track', Sector') \/ Remaining' = <<Part>>
        BY <1>2, <1>3, <1>4
      <3>2. Track' = df[sel].track /\ Sector' = sector' /\ pc' = "datapoll"
        BY <1>2, <1>4
      <3> QED
        BY <1>1, <1>3, <3>1, <3>2 DEF Taking
    <2> QED
      BY <1>1, <1>3, <2>3, <2>4, StaysWriting
  <1>5. CASE ~mine
    <2>1. pc' = "sync" /\ UNCHANGED <<file, sector>>
      BY <1>2, <1>5
    <2>2. Taking'
      BY <2>1 DEF Taking, FoundPlaces
    <2> QED
      BY <1>1, <1>3, <2>1, <2>2, StaysWriting
  <1> QED
    BY <1>4, <1>5

LEMMA GetDataWrites ==
  ASSUME IInv, WInv, GetData
  PROVE  WInv'
  <1> DEFINE u == NextWord(paula)  x == df[sel]
  <1>1. /\ pc = "data" /\ pc' = "sync" /\ paula' = Take(paula) /\ out' = out
        /\ UNCHANGED <<df, sel, file, sector>> /\ TypeInv /\ Remembered
        /\ Aimed(x, file, sector) /\ paula.fifo # <<>> /\ sel \in Drives /\ file \in Cursor
        /\ Remaining[1] = Data(Track, Sector) /\ Track = x.track /\ Sector = sector
        /\ StoreInPlace
    BY DEF GetData, amiga_vars, IInv, TypeInv, WInv, Writing, WritePlaces, Taking, FoundPlaces
  <1>2. Streaming' /\ u = Data(Track, Sector)
    BY <1>1, TakeMoves DEF FoundPlaces
  <1>3. u.k = "data" /\ u.track = x.track /\ u.sector = sector
    BY <1>1, <1>2 DEF Data
  <1>4. stored' = IF u.k \in {"data", "zero"} /\ x.writable
                  THEN [image |-> file.image, place |-> Place(file), unit |-> u]
                  ELSE stored
    BY DEF GetData
  <1> HIDE DEF u
  <1>5. StoreInPlace'
    <2>1. CASE stored' = stored
      BY <1>1, <2>1 DEF StoreInPlace
    <2>2. CASE stored' # stored
      <3>1. x.writable /\ stored' = [image |-> file.image, place |-> Place(file), unit |-> u]
        BY <1>4, <2>2
      <3>2. Images[x.image].writable
        BY <1>1, <3>1 DEF Remembered, Guarded
      <3>3. InPlace(file) /\ file.image = x.image /\ file.sector = x.track * SECTOR_COUNT + sector
        BY <1>1, <3>1 DEF Aimed
      <3>4. Place(file) = file.sector
        BY <1>1, <3>3, PlaceIs
      <3> QED
        BY <1>3, <3>1, <3>2, <3>3, <3>4 DEF StoreInPlace
    <2> QED
      BY <2>1, <2>2
  <1>6. Writing'
    BY <1>1 DEF Writing
  <1>7. Taking'
    BY <1>1 DEF Taking, FoundPlaces
  <1> QED
    BY <1>2, <1>5, <1>6, <1>7 DEF WInv

LEMMA WInvHolds ==
  ASSUME IInv, WInv, WithinImage, "write" \notin AbortKinds, [Next]_vars
  PROVE  WInv'
  <1>1. CASE Chip \/ Amiga
    BY <1>1, ChipWrites, AmigaWrites
  <1>2. CASE Server
    BY <1>2, FpgaWrites, OtherWrites, SyncPollWrites, SyncWordWrites, WaitWrites,
       GetHeaderWrites, GetDataWrites DEF Server
  <1>3. CASE UNCHANGED vars
    BY <1>3 DEF vars, fw_vars, amiga_vars, WInv, Streaming, Remaining, Writing, Taking,
       StoreInPlace
  <1> QED
    BY <1>1, <1>2, <1>3 DEF Next

LEMMA WInvInit ==
  ASSUME Init
  PROVE  WInv
  <1>1. paula.dmaen = FALSE
    BY DEF Init
  <1> QED
    BY <1>1 DEF Init, WInv, Streaming, Writing, WritePlaces, Taking, FoundPlaces, StoreInPlace

\* What goes into an image is what the Amiga wrote to that very sector, on a disk that may
\* be written (WriteTrack, GetHeader and GetData, fdd.c), as long as the Amiga stops no
\* write early and no writable image is shorter than the tracks the Amiga writes to: the
\* code checks neither.
THEOREM StoresInPlace ==
  ASSUME "write" \notin AbortKinds
  PROVE  Spec /\ []WithinImage => []StoreInPlace
  <1>1. Init => WInv
    BY WInvInit
  <1>2. IInv /\ WInv /\ WithinImage /\ [Next]_vars => WInv'
    BY WInvHolds
  <1>3. WInv => StoreInPlace
    BY DEF WInv
  <1> QED
    BY <1>1, <1>2, <1>3, FloppyInvariant, PTL DEF Spec
=============================================================================
