-------------------------- MODULE SystemPartsProofs --------------------------
(***************************************************************************)
(* Theorems about the object a request is served with, the page map and    *)
(* the calls of the pal, for every size of page, granule, entry and        *)
(* address space, every request, and whatever system calls fail.           *)
(***************************************************************************)
EXTENDS SystemParts, SizeclassProofs

ZeroOps == {"commit_zero", "zero", "zero_large", "zero_part"}

(* How a call comes to where it is: what has failed on the way to a bzero  *)
(* that would fault, and that a call which is to leave zeros has done so   *)
(* when it returns.                                                        *)
PalPaths ==
  /\ pc = "map" => op = "commit_zero" /\ system = "apple"
  /\ pc = "advise" => op = "decommit" \/ (system = "apple" /\ op \in {"commit", "commit_zero"})
  /\ pc \in {"zero", "clear"} => op \in ZeroOps
  /\ pc = "dont_need" => op = "zero_large"
  /\ pc = "protect" => op \notin {"zero", "zero_large", "zero_part"}
  /\ op \in {"zero", "zero_large", "zero_part"} => prot = "write"
  /\ pc = "return" /\ op \in ZeroOps =>
       prot = "write" /\ (content = "zero" \/ "dont_need" \in failed)

(* What is left to make the memory of commit<YesZero> accessible shrinks   *)
(* from step to step.                                                      *)
PalWays ==
  op = "commit_zero" /\ prot # "write" =>
    /\ system = "apple" /\ pc \in {"protect", "advise", "zero", "clear"} => "map" \in failed
    /\ pc \in {"advise", "zero", "clear"} => "protect" \in failed
    /\ pc = "clear" => "zero" \in failed

(* In a call without a keep_errno only a step that has failed, and is not  *)
(* of pal_posix::zero, has changed errno.                                  *)
PalErrno == errno # kept => OS!Keeps \/ failed \ {"zero"} # {}

PalIInv ==
  /\ system \in OS!Systems
  /\ pc \in {"idle", "map", "zero", "clear", "protect", "advise", "dont_need", "return"}
  /\ op \in DOMAIN OS!First \cup {"none"}
  /\ zeroed => pc = "idle"
  /\ PalPaths
  /\ PalWays
  /\ PalErrno
  /\ OS!ErrnoKept
  /\ OS!ZerosAreZero

(* The pal's invariant holds at first,                                     *)
LEMMA PalInitially == OS!Init => PalIInv
BY DEF OS!Init, OS!Systems, PalIInv, PalPaths, PalWays, PalErrno, OS!Keeps, OS!ErrnoKept,
       OS!ZerosAreZero, ZeroOps, OS!First

(* is kept where the pal does nothing,                                     *)
LEMMA PalKept ==
  ASSUME PalIInv, UNCHANGED pal_vars
  PROVE  PalIInv'
BY DEF pal_vars, PalIInv, PalPaths, PalWays, PalErrno, OS!Keeps, OS!ErrnoKept, OS!ZerosAreZero, ZeroOps,
       OS!First

(* and by every system call, whether it fails or not.                      *)
LEMMA PalStepKeeps ==
  ASSUME PalIInv, OS!Next
  PROVE  PalIInv'
<1> USE DEF PalIInv, PalPaths, PalWays, PalErrno, OS!Keeps, OS!ErrnoKept, OS!ZerosAreZero, ZeroOps,
            OS!First, OS!Systems, OS!GoOn, OS!Fails
<1>1. ASSUME NEW o \in DOMAIN OS!First, OS!Call(o) PROVE PalIInv'
  BY <1>1 DEF OS!Call
<1>2. CASE OS!Map
  BY <1>2 DEF OS!Map
<1>3. CASE OS!Zero
  BY <1>3 DEF OS!Zero
<1>4. CASE OS!Clear
  BY <1>4 DEF OS!Clear, OS!Faulted
<1>5. CASE OS!Protect
  BY <1>5 DEF OS!Protect, OS!AfterProtect
<1>6. CASE OS!Advise
  BY <1>6 DEF OS!Advise, OS!AdviseEnds, OS!Advised, OS!AfterAdvise
<1>7. CASE OS!DontNeed
  BY <1>7 DEF OS!DontNeed
<1>8. CASE OS!Return
  BY <1>8 DEF OS!Return
<1>9. CASE OS!AdviseAgain
  BY <1>9 DEF OS!AdviseAgain, OS!AfterAdvise
<1>10. CASE OS!Use
  BY <1>10 DEF OS!Use, OS!Errnos
<1>11. CASE OS!Discard
  BY <1>11 DEF OS!Discard
<1>12. CASE OS!Terminating
  BY <1>12 DEF OS!Terminating, OS!vars
<1> HIDE DEF PalIInv
<1> QED
  BY <1>1, <1>2, <1>3, <1>4, <1>5, <1>6, <1>7, <1>8, <1>9, <1>10, <1>11, <1>12
     DEF OS!Next, OS!Step

-----------------------------------------------------------------------------
(* Pages and entries.  Quotients are not changed by aligning down, or up   *)
(* to the end of a page.                                                   *)
LEMMA AlignedQuot ==
  ASSUME NEW p \in Nat \ {0}, NEW a \in Nat, NEW b \in Nat \ {0}
  PROVE  /\ ((a \div p) * p) \div p = a \div p
         /\ (((b + p - 1) \div p) * p - 1) \div p = (b - 1) \div p
         /\ b <= ((b + p - 1) \div p) * p
<1>1. a \div p \in Nat /\ (b - 1) \div p \in Nat /\ (b - 1) % p \in Nat /\ (b - 1) % p < p
      /\ b - 1 = ((b - 1) \div p) * p + ((b - 1) % p)
  BY QuotRem
<1>2. ((a \div p) * p + 0) \div p = a \div p
  BY <1>1, RemOfSum
<1> DEFINE q == (b - 1) \div p
           r == (b - 1) % p
<1>3. q \in Nat /\ r \in Nat /\ r < p /\ b - 1 = q * p + r
  BY <1>1
<1> HIDE DEF q, r
<1>4. (q + 1) * p = q * p + p /\ q * p \in Nat
  BY <1>3
<1>5. b + p - 1 = (q + 1) * p + r
  BY <1>3, <1>4
<1>6. (b + p - 1) \div p = q + 1
  BY <1>3, <1>5, RemOfSum
<1>7. (q + 1) * p - 1 = q * p + (p - 1)
  BY <1>4
<1>8. (q * p + (p - 1)) \div p = q
  BY <1>3, RemOfSum
<1>9. b <= (q + 1) * p
  BY <1>3, <1>4
<1>10. (((b + p - 1) \div p) * p - 1) \div p = q /\ b <= ((b + p - 1) \div p) * p
  BY <1>6, <1>7, <1>8, <1>9
<1>11. ((a \div p) * p) \div p = a \div p
  <2> DEFINE c == a \div p
  <2>1. c \in Nat /\ (c * p + 0) \div p = c
    BY <1>1, <1>2
  <2> HIDE DEF c
  <2>2. c * p + 0 = c * p
    BY <2>1
  <2>3. (c * p) \div p = c
    BY <2>1, <2>2
  <2> QED BY <2>3 DEF c
<1> QED BY <1>10, <1>11 DEF q

(* The pages of a run of entries are those of its entries: each page has a *)
(* byte of the run, and that byte belongs to an entry.                     *)
RunPages(p, start, size, i, j) ==
  (start + i * size) \div p .. (start + (j + 1) * size - 1) \div p

(* The pages of a run of entries are those of its entries.                 *)
LEMMA PagesOfRun ==
  ASSUME NEW p \in Nat \ {0}, NEW start \in Nat, NEW size \in Nat \ {0},
         NEW i \in Nat, NEW j \in Nat, i <= j
  PROVE  RunPages(p, start, size, i, j) = UNION {RunPages(p, start, size, k, k) : k \in i .. j}
<1> DEFINE At(k) == start + k * size
           Last(k) == start + (k + 1) * size - 1
<1>1. \A k \in Nat : At(k) \in Nat /\ Last(k) \in Nat /\ Last(k) = At(k) + size - 1
  <2> TAKE k \in Nat
  <2>1. PICK e \in Nat : e = k * size
    OBVIOUS
  <2>2. (k + 1) * size = e + size
    BY <2>1
  <2> QED BY <2>1, <2>2
<1>2. \A k \in Nat, l \in Nat : k <= l => At(k) <= At(l) /\ Last(k) <= Last(l)
  <2> SUFFICES ASSUME NEW k \in Nat, NEW l \in Nat, k <= l
               PROVE  At(k) <= At(l) /\ Last(k) <= Last(l)
    OBVIOUS
  <2>1. k * size <= l * size
    <3>1. CASE k = l
      BY <3>1
    <3>2. CASE k < l
      <4>1. k * size + size <= l * size
        BY <3>2, MultMono
      <4>2. PICK e \in Nat, f \in Nat : e = k * size /\ f = l * size
        OBVIOUS
      <4> QED BY <4>1, <4>2
    <3> QED BY <3>1, <3>2
  <2>2. PICK e \in Nat, f \in Nat : e = k * size /\ f = l * size
    OBVIOUS
  <2>3. (k + 1) * size = e + size /\ (l + 1) * size = f + size
    BY <2>2
  <2> QED BY <2>1, <2>2, <2>3
<1>3. \A b \in Nat : At(i) <= b /\ b <= Last(j) => \E k \in i .. j : At(k) <= b /\ b <= Last(k)
  <2> SUFFICES ASSUME NEW b \in Nat, At(i) <= b, b <= Last(j)
               PROVE  \E k \in i .. j : At(k) <= b /\ b <= Last(k)
    OBVIOUS
  <2> DEFINE d == b - start
             k == d \div size
  <2>0. PICK e \in Nat, f \in Nat : e = i * size /\ f = (j + 1) * size
    OBVIOUS
  <2>1. d \in Nat /\ e <= d /\ d < f
    BY <2>0
  <2>2. k \in Nat /\ (d % size) \in Nat /\ (d % size) < size /\ d = k * size + (d % size)
    BY <2>1, QuotRem
  <2>3. PICK g \in Nat : g = k * size
    BY <2>2
  <2>4. b = start + d
    OBVIOUS
  <2> HIDE DEF d, k
  <2>5. (k + 1) * size = g + size
    BY <2>2, <2>3
  <2>6. At(k) <= b /\ b <= Last(k)
    BY <2>1, <2>2, <2>3, <2>4, <2>5
  <2>7. ~(k < i)
    <3> SUFFICES ASSUME k < i PROVE FALSE
      OBVIOUS
    <3>1. k * size + size <= i * size
      BY <2>2, MultMono
    <3> QED BY <3>1, <2>0, <2>1, <2>2, <2>3
  <2>8. ~(j < k)
    <3> SUFFICES ASSUME j + 1 <= k PROVE FALSE
      BY <2>2
    <3>1. CASE j + 1 = k
      BY <3>1, <2>0, <2>1, <2>2, <2>3
    <3>2. CASE j + 1 < k
      <4>1. (j + 1) * size + size <= k * size
        BY <3>2, <2>2, MultMono
      <4> QED BY <4>1, <2>0, <2>1, <2>2, <2>3
    <3> QED BY <3>1, <3>2, <2>2
  <2>9. k \in i .. j
    BY <2>2, <2>7, <2>8
  <2> QED BY <2>6, <2>9
<1> HIDE DEF At, Last
<1>4. \A k \in i .. j : At(k) \div p .. Last(k) \div p \subseteq At(i) \div p .. Last(j) \div p
  <2> TAKE k \in i .. j
  <2>0. /\ k \in Nat /\ i <= k /\ k <= j
        /\ At(i) \in Nat /\ At(k) \in Nat /\ Last(k) \in Nat /\ Last(j) \in Nat
        /\ At(i) <= At(k) /\ Last(k) <= Last(j)
    BY <1>1, <1>2
  <2>1. At(i) \div p <= At(k) \div p /\ Last(k) \div p <= Last(j) \div p
    BY <2>0, QuotMono
  <2>2. /\ At(i) \div p \in Nat /\ At(k) \div p \in Nat
        /\ Last(k) \div p \in Nat /\ Last(j) \div p \in Nat
    BY <2>0, QuotRem
  <2> QED BY <2>1, <2>2
<1>5. ASSUME NEW n \in At(i) \div p .. Last(j) \div p
      PROVE  \E k \in i .. j : n \in At(k) \div p .. Last(k) \div p
  <2>0. PICK a \in Nat, z \in Nat : a = At(i) /\ z = Last(j)
    BY <1>1
  <2>1. PICK q \in Nat, l \in Nat, r \in Nat, s \in Nat :
          /\ q = a \div p /\ r < p /\ a = q * p + r
          /\ l = z \div p /\ z = l * p + s
    BY QuotRem
  <2>2. PICK b \in Nat : At(i) <= b /\ b <= Last(j) /\ b \div p = n
    <3>0. n \in Nat /\ q <= n /\ n <= l
      BY <2>0, <2>1
    <3>1. CASE n = q
      <4>1. a <= z
        BY <2>0, <1>1, <1>2
      <4> QED BY <3>1, <4>1, <2>0, <2>1
    <3>2. CASE q < n
      <4>1. q * p + p <= n * p
        BY <3>2, <3>0, MultMono
      <4>2. PICK e \in Nat, f \in Nat, g \in Nat : e = q * p /\ f = n * p /\ g = l * p
        BY <3>0
      <4>3. f <= g
        <5>1. CASE n = l
          BY <5>1, <4>2
        <5>2. CASE n < l
          <6>1. n * p + p <= l * p
            BY <5>2, <3>0, MultMono
          <6> QED BY <6>1, <4>2
        <5> QED BY <5>1, <5>2, <3>0
      <4>4. (n * p + 0) \div p = n
        BY <3>0, RemOfSum
      <4>5. f + 0 = f
        OBVIOUS
      <4>6. a <= f /\ f <= z /\ f \div p = n
        BY <4>1, <4>2, <4>3, <4>4, <4>5, <2>1
      <4> QED BY <4>6, <2>0
    <3> QED BY <3>0, <3>1, <3>2
  <2>3. PICK k \in i .. j : At(k) <= b /\ b <= Last(k)
    BY <2>2, <1>3
  <2>4. At(k) \in Nat /\ Last(k) \in Nat
    BY <1>1
  <2>5. At(k) \div p <= n /\ n <= Last(k) \div p
    BY <2>2, <2>3, <2>4, QuotMono
  <2>6. At(k) \div p \in Nat /\ Last(k) \div p \in Nat
    BY <2>4, QuotRem
  <2> QED BY <2>1, <2>5, <2>6
<1>6. At(i) \div p .. Last(j) \div p = UNION {At(k) \div p .. Last(k) \div p : k \in i .. j}
  BY <1>4, <1>5
<1> QED BY <1>6 DEF At, Last, RunPages

-----------------------------------------------------------------------------
(* The page map. *)
LEMMA MapSizes ==
  /\ Map!PageSize \in Nat \ {0} /\ Map!Granularity \in Nat \ {0} /\ Map!MapSize \in Nat \ {0}
  /\ 2 ^ MapAddressBits = Map!MapSize * Map!Granularity
  /\ EntrySizes \subseteq Nat \ {0} /\ Body \in Nat \ {0}
<1>1. /\ MapPageBits \in Nat /\ GranularityBits \in Nat /\ MapAddressBits \in Nat
      /\ GranularityBits <= MapAddressBits
      /\ EntrySizes \subseteq Nat \ {0} /\ Body \in Nat \ {0}
  BY MapConstants DEF Map!PagemapConstants
<1>2. /\ MapAddressBits - GranularityBits \in Nat
      /\ MapAddressBits = (MapAddressBits - GranularityBits) + GranularityBits
  BY <1>1
<1>3. 2 ^ MapAddressBits = 2 ^ (MapAddressBits - GranularityBits) * 2 ^ GranularityBits
  BY <1>1, <1>2, Pow2Add
<1> QED
  BY <1>1, <1>2, <1>3, Pow2Pos DEF Map!PageSize, Map!Granularity, Map!MapSize

(* The granule of an address. *)
LEMMA GranuleOf ==
  ASSUME NEW ptr \in Nat, ptr < 2 ^ MapAddressBits
  PROVE  /\ ptr \div Map!Granularity \in 0 .. Map!MapSize - 1
         /\ (ptr \div Map!Granularity) * Map!Granularity <= ptr
         /\ ptr < (ptr \div Map!Granularity) * Map!Granularity + Map!Granularity
<1> DEFINE g == Map!Granularity
           m == Map!MapSize
<1>1. g \in Nat \ {0} /\ m \in Nat \ {0} /\ ptr < m * g
  BY MapSizes
<1> HIDE DEF g, m
<1>2. PICK q \in Nat, r \in Nat : q = ptr \div g /\ r < g /\ ptr = q * g + r
  BY <1>1, QuotRem
<1>3. q < m
  <2>1. CASE m = q
    BY <2>1, <1>1, <1>2
  <2>2. CASE m < q
    <3>1. m * g + g <= q * g
      BY <2>2, <1>1, <1>2, MultMono
    <3>2. PICK e \in Nat, f \in Nat : e = m * g /\ f = q * g
      BY <1>1, <1>2
    <3> QED BY <3>1, <3>2, <1>1, <1>2
  <2> QED BY <2>1, <2>2, <1>1, <1>2
<1>4. PICK e \in Nat : e = q * g
  BY <1>1, <1>2
<1>5. (ptr \div g) * g <= ptr /\ ptr < (ptr \div g) * g + g
  BY <1>1, <1>2, <1>4
<1> QED BY <1>1, <1>2, <1>3, <1>5 DEF g, m

(* What register_range commits: the pages of the entries of the granules,  *)
(* all of them in the map.                                                 *)
LEMMA CommittedPages ==
  ASSUME entry_size \in EntrySizes,
         NEW i \in 0 .. Map!MapSize - 1, NEW j \in 0 .. Map!MapSize - 1, i <= j
  PROVE  /\ Map!PagesBetween(Map!align_down(Map!EntryAt(i)), Map!align_up(Map!EntryAt(j + 1)))
            = UNION {Map!PagesOfEntry(k) : k \in i .. j}
         /\ UNION {Map!PagesOfEntry(k) : k \in i .. j} \subseteq Map!MapPages
<1>1. PICK p \in Nat \ {0}, n \in Nat \ {0}, es \in Nat \ {0} :
        p = Map!PageSize /\ n = Map!MapSize /\ es = entry_size /\ Body \in Nat \ {0}
  BY MapSizes
<1>2. i \in Nat /\ j \in Nat /\ j + 1 <= n
  BY <1>1
<1>3. PICK a \in Nat, b \in Nat, c \in Nat : a = i * es /\ b = (j + 1) * es /\ c = n * es
  BY <1>1, <1>2
<1>4. b <= c /\ b > 0
  <2>1. CASE j + 1 = n
    <3>1. b = j * es + es /\ j * es \in Nat
      BY <1>1, <1>2, <1>3
    <3> QED BY <2>1, <3>1, <1>1, <1>3
  <2>2. CASE j + 1 < n
    <3>1. (j + 1) * es + es <= n * es
      BY <2>2, <1>1, <1>2, MultMono
    <3>2. b = j * es + es /\ j * es \in Nat
      BY <1>1, <1>2, <1>3
    <3> QED BY <3>1, <3>2, <1>1, <1>3
  <2> QED BY <2>1, <2>2, <1>1, <1>2
<1> DEFINE first == Body + a
           last == Body + b
<1>5. first \in Nat /\ last \in Nat \ {0} /\ last - 1 \in Nat
  BY <1>1, <1>3, <1>4
<1>6. /\ ((first \div p) * p) \div p = first \div p
      /\ (((last + p - 1) \div p) * p - 1) \div p = (last - 1) \div p
  <2> HIDE DEF first, last
  <2> QED BY <1>1, <1>5, AlignedQuot
<1>7. Map!PagesBetween(Map!align_down(Map!EntryAt(i)), Map!align_up(Map!EntryAt(j + 1)))
      = first \div p .. (last - 1) \div p
  <2>1. Map!EntryAt(i) = first /\ Map!EntryAt(j + 1) = last
    BY <1>1, <1>3 DEF Map!EntryAt
  <2> HIDE DEF first, last
  <2>2. PICK low, high : low = Map!align_down(first) /\ high = Map!align_up(last)
    OBVIOUS
  <2>3. low \div p = first \div p /\ (high - 1) \div p = (last - 1) \div p
    BY <1>1, <1>6, <2>2 DEF Map!align_down, Map!align_up
  <2>4. Map!PagesBetween(low, high) = low \div p .. (high - 1) \div p
    BY <1>1 DEF Map!PagesBetween
  <2> QED BY <2>1, <2>2, <2>3, <2>4, Zenon
<1>8. RunPages(p, Body, es, i, j) = UNION {RunPages(p, Body, es, k, k) : k \in i .. j}
  <2>1. Body \in Nat
    BY <1>1
  <2> HIDE DEF first, last
  <2> QED BY <1>2, <2>1, PagesOfRun
<1>9. \A k \in i .. j : Map!PagesOfEntry(k) = RunPages(p, Body, es, k, k)
  BY <1>1 DEF Map!PagesOfEntry, Map!PagesBetween, Map!EntryAt, RunPages
<1>10. first \div p .. (last - 1) \div p = UNION {Map!PagesOfEntry(k) : k \in i .. j}
  <2>1. RunPages(p, Body, es, i, j) = first \div p .. (last - 1) \div p
    BY <1>1, <1>2, <1>3 DEF RunPages
  <2> QED BY <2>1, <1>8, <1>9
<1>11. first \div p .. (last - 1) \div p \subseteq Map!MapPages
  <2>1. c \in Nat \ {0} /\ Body <= first /\ last - 1 <= Body + c - 1
    BY <1>1, <1>3, <1>4
  <2> DEFINE u == ((c + p - 1) \div p) * p
  <2>2. c + p - 1 \in Nat /\ p > 0
    BY <1>1, <2>1
  <2>3. c <= u /\ u \in Nat
    <3>1. (c + p - 1) \div p \in Nat
      BY <1>1, <2>2, QuotRem
    <3>2. c <= u
      BY <1>1, <2>1, AlignedQuot
    <3> QED BY <3>1, <3>2, <1>1
  <2>4. Map!MapPages = Body \div p .. (Body + u - 1) \div p
    <3>1. c = Map!MapSize * entry_size
      BY <1>1, <1>3
    <3> QED BY <1>1, <2>3, <3>1 DEF Map!MapPages, Map!PagesBetween, Map!MapSizeBytes, Map!align_up
  <2> HIDE DEF u, first, last
  <2>5. last - 1 <= Body + u - 1 /\ Body + u - 1 \in Nat
    BY <1>1, <1>5, <2>1, <2>3
  <2>6. Body \div p <= first \div p /\ (last - 1) \div p <= (Body + u - 1) \div p
    BY <1>1, <1>5, <2>1, <2>5, QuotMono
  <2>7. /\ Body \div p \in Nat /\ first \div p \in Nat
        /\ (last - 1) \div p \in Nat /\ (Body + u - 1) \div p \in Nat
    BY <1>1, <1>5, <2>5, QuotRem
  <2> QED BY <2>4, <2>6, <2>7
<1> QED BY <1>7, <1>10, <1>11

MapTypes == entry_size \in EntrySizes /\ LazyCommit \in BOOLEAN /\ Map!TypeOK

ReadAtOnce == LazyCommit => \A page \in Map!MapPages : access[page] # "none"

(* What get and set refer to has been registered, or is only to be read.   *)
Referred ==
  \/ ref = Map!NoRef
  \/ \E ptr \in Map!Addresses, o \in {"get", "set"} :
       /\ ref = [op |-> o, ptr |-> ptr, entry |-> Map!EntryAt(ptr \div Map!Granularity)]
       /\ ptr \div Map!Granularity \in registered \/ (LazyCommit /\ o = "get")

MapIInv == MapTypes /\ ReadAtOnce /\ Map!RegisteredCommitted /\ Referred

(* The page map's invariant holds at first,                                *)
LEMMA MapInitially == Map!Init => MapIInv
<1> SUFFICES ASSUME Map!Init PROVE MapIInv
  OBVIOUS
<1>1. entry_size \in EntrySizes /\ LazyCommit \in BOOLEAN
  BY DEF Map!Init
<1>2. /\ \A page \in Map!MapPages : access[page] = (IF LazyCommit THEN "read" ELSE "none")
      /\ access \in [Map!MapPages -> {"none", "read", "write"}]
      /\ registered = {} /\ ref = Map!NoRef
  BY DEF Map!Init
<1> QED
  BY <1>1, <1>2 DEF MapIInv, MapTypes, ReadAtOnce, Referred, Map!TypeOK, Map!RegisteredCommitted

(* is kept where the map does nothing,                                     *)
LEMMA MapKept ==
  ASSUME MapIInv, UNCHANGED map_vars
  PROVE  MapIInv'
BY DEF map_vars, MapIInv, MapTypes, ReadAtOnce, Referred, Map!TypeOK, Map!RegisteredCommitted,
       Map!MapPages, Map!PagesBetween, Map!MapSizeBytes, Map!PagesOfEntry, Map!EntryAt

(* Registering a range, also when get does it. *)
LEMMA Registers ==
  ASSUME MapIInv, UNCHANGED <<entry_size, LazyCommit>>,
         NEW ptr \in Nat, NEW length \in Nat \ {0}, ptr + length <= 2 ^ MapAddressBits,
         access' = Map!register_range(ptr, length),
         registered' = registered \cup Map!Granules(ptr, length)
  PROVE  /\ MapTypes' /\ ReadAtOnce' /\ Map!RegisteredCommitted'
         /\ ptr \div Map!Granularity \in registered'
<1>1. PICK g \in Nat \ {0}, n \in Nat \ {0} : g = Map!Granularity /\ n = Map!MapSize
  BY MapSizes
<1>2. PICK x \in Nat : x = ptr + length - 1
  OBVIOUS
<1>3. ptr <= x /\ x < 2 ^ MapAddressBits /\ ptr < 2 ^ MapAddressBits
  <2>1. 2 ^ MapAddressBits \in Nat
    BY MapSizes
  <2> QED BY <1>2, <2>1
<1>4. PICK i \in 0 .. n - 1, j \in 0 .. n - 1 : i = ptr \div g /\ j = x \div g
  BY <1>1, <1>3, GranuleOf
<1>5. i <= j
  BY <1>1, <1>3, <1>4, QuotMono
<1>6. (ptr + length - 1 + g) \div g = j + 1
  <2>1. PICK r \in Nat : r < g /\ x = j * g + r
    BY <1>1, <1>4, QuotRem, SMTT(30)
  <2>2. (j + 1) * g = j * g + g
    BY <1>1, <1>4
  <2>3. PICK e \in Nat : e = j * g
    BY <1>1, <1>4
  <2>4. ptr + length - 1 + g = (j + 1) * g + r
    BY <1>2, <2>1, <2>2, <2>3
  <2>5. ((j + 1) * g + r) \div g = j + 1
    BY <1>1, <1>4, <2>1, RemOfSum
  <2> QED BY <2>4, <2>5
<1> DEFINE pages == UNION {Map!PagesOfEntry(k) : k \in i .. j}
<1>7. /\ Map!PagesBetween(Map!align_down(Map!EntryAt(i)), Map!align_up(Map!EntryAt(j + 1))) = pages
      /\ pages \subseteq Map!MapPages
  <2>1. entry_size \in EntrySizes
    BY DEF MapIInv, MapTypes
  <2> QED BY <1>1, <1>5, <2>1, CommittedPages
<1>8. Map!Granules(ptr, length) = i .. j
  BY <1>1, <1>2, <1>4 DEF Map!Granules
<1> HIDE DEF pages
<1>9. access' = [page \in Map!MapPages |-> IF page \in pages THEN "write" ELSE access[page]]
  <2>1. Map!register_range(ptr, length)
        = [page \in Map!MapPages \cup pages |-> IF page \in pages THEN "write" ELSE access[page]]
    BY <1>1, <1>4, <1>6, <1>7 DEF Map!register_range
  <2>2. Map!MapPages \cup pages = Map!MapPages
    BY <1>7
  <2> QED BY <2>1, <2>2
<1>10. Map!MapPages' = Map!MapPages /\ \A k : Map!PagesOfEntry(k)' = Map!PagesOfEntry(k)
  BY DEF Map!MapPages, Map!PagesBetween, Map!MapSizeBytes, Map!PagesOfEntry, Map!EntryAt
<1>11. access \in [Map!MapPages -> {"none", "read", "write"}] /\ registered \subseteq 0 .. n - 1
  BY <1>1 DEF MapIInv, MapTypes, Map!TypeOK
<1>12. MapTypes'
  <2>0. i .. j \subseteq 0 .. n - 1
    BY <1>4
  <2>1. registered' \subseteq 0 .. n - 1
    BY <2>0, <1>8, <1>11
  <2>2. access' \in [Map!MapPages -> {"none", "read", "write"}]
    BY <1>9, <1>11
  <2> QED BY <2>1, <2>2, <1>1, <1>10 DEF MapIInv, MapTypes, Map!TypeOK
<1>13. ReadAtOnce'
  BY <1>9, <1>10 DEF MapIInv, ReadAtOnce
<1>14. Map!RegisteredCommitted'
  <2>1. {page \in Map!MapPages : access[page] = "write"}
        = UNION {Map!PagesOfEntry(index) : index \in registered}
    BY DEF MapIInv, Map!RegisteredCommitted
  <2>2. {page \in Map!MapPages : access'[page] = "write"}
        = {page \in Map!MapPages : access[page] = "write"} \cup pages
    BY <1>7, <1>9
  <2>3. UNION {Map!PagesOfEntry(index) : index \in registered'}
        = (UNION {Map!PagesOfEntry(index) : index \in registered}) \cup pages
    BY <1>8 DEF pages
  <2>4. {page \in Map!MapPages' : access'[page] = "write"}
        = UNION {Map!PagesOfEntry(index)' : index \in registered'}
    BY <2>1, <2>2, <2>3, <1>10
  <2> QED BY <2>4 DEF Map!RegisteredCommitted
<1>15. ptr \div Map!Granularity \in registered'
  BY <1>1, <1>4, <1>5, <1>8
<1> QED BY <1>12, <1>13, <1>14, <1>15

(* and by registering, reading and writing entries.                        *)
LEMMA MapStepKeeps ==
  ASSUME MapIInv, Map!Next
  PROVE  MapIInv'
<1>0. PICK ptr \in Map!Addresses :
        \/ \E length \in 1 .. 2 ^ MapAddressBits - ptr : Map!Register(ptr, length)
        \/ \E AssumeRegistered \in BOOLEAN : Map!Get(ptr, AssumeRegistered)
        \/ Map!Set(ptr)
  BY DEF Map!Next
<1>1. ptr \in Nat /\ ptr + 1 <= 2 ^ MapAddressBits /\ 2 ^ MapAddressBits \in Nat
  BY MapSizes DEF Map!Addresses
<1> DEFINE granule == ptr \div Map!Granularity
           Refers(o) == ref' = [op |-> o, ptr |-> ptr, entry |-> Map!EntryAt(granule)]
<1>2. ASSUME UNCHANGED <<entry_size, LazyCommit>>, NEW o \in {"get", "set"}, Refers(o),
             granule \in registered' \/ (LazyCommit /\ o = "get")
      PROVE  Referred'
  <2>1. Map!EntryAt(granule)' = Map!EntryAt(granule)
    BY <1>2 DEF Map!EntryAt
  <2> QED BY <1>2, <2>1 DEF Referred
<1> HIDE DEF granule
<1>3. CASE \E length \in 1 .. 2 ^ MapAddressBits - ptr : Map!Register(ptr, length)
  <2>1. PICK length \in 1 .. 2 ^ MapAddressBits - ptr : Map!Register(ptr, length)
    BY <1>3
  <2>2. length \in Nat \ {0} /\ ptr + length <= 2 ^ MapAddressBits
    BY <1>1
  <2>3. MapTypes' /\ ReadAtOnce' /\ Map!RegisteredCommitted'
    BY <1>1, <2>1, <2>2, Registers DEF Map!Register
  <2>4. Referred'
    BY <2>1 DEF Map!Register, Referred, Map!NoRef
  <2> QED BY <2>3, <2>4 DEF MapIInv
<1>4. CASE \E AssumeRegistered \in BOOLEAN : Map!Get(ptr, AssumeRegistered)
  <2>1. PICK AssumeRegistered \in BOOLEAN : Map!Get(ptr, AssumeRegistered)
    BY <1>4
  <2>2. UNCHANGED <<entry_size, LazyCommit>> /\ Refers("get")
    BY <2>1 DEF Map!Get, granule
  <2>3. CASE ~AssumeRegistered /\ ~LazyCommit
    <3>1. /\ access' = Map!register_range(ptr, 1)
          /\ registered' = registered \cup Map!Granules(ptr, 1)
      BY <2>1, <2>3 DEF Map!Get
    <3>2. /\ MapTypes' /\ ReadAtOnce' /\ Map!RegisteredCommitted'
          /\ granule \in registered'
      BY <1>1, <2>2, <3>1, Registers DEF granule
    <3>3. Referred'
      BY <1>2, <2>2, <3>2
    <3> QED BY <3>2, <3>3 DEF MapIInv
  <2>4. CASE ~(~AssumeRegistered /\ ~LazyCommit)
    <3>1. UNCHANGED <<access, registered>> /\ (granule \in registered \/ LazyCommit)
      BY <2>1, <2>4 DEF Map!Get, granule, MapIInv, MapTypes
    <3>2. MapTypes' /\ ReadAtOnce' /\ Map!RegisteredCommitted'
      BY <2>2, <3>1 DEF MapIInv, MapTypes, ReadAtOnce, Map!TypeOK, Map!RegisteredCommitted,
           Map!MapPages, Map!PagesBetween, Map!MapSizeBytes, Map!PagesOfEntry, Map!EntryAt
    <3>3. Referred'
      BY <1>2, <2>2, <3>1
    <3> QED BY <3>2, <3>3 DEF MapIInv
  <2> QED BY <2>3, <2>4
<1>5. CASE Map!Set(ptr)
  <2>1. /\ UNCHANGED <<entry_size, LazyCommit, access, registered>> /\ Refers("set")
        /\ granule \in registered
    BY <1>5 DEF Map!Set, granule
  <2>2. MapTypes' /\ ReadAtOnce' /\ Map!RegisteredCommitted'
    BY <2>1 DEF MapIInv, MapTypes, ReadAtOnce, Map!TypeOK, Map!RegisteredCommitted,
         Map!MapPages, Map!PagesBetween, Map!MapSizeBytes, Map!PagesOfEntry, Map!EntryAt
  <2>3. Referred'
    BY <1>2, <2>1
  <2> QED BY <2>2, <2>3 DEF MapIInv
<1> QED BY <1>0, <1>3, <1>4, <1>5

(* What is referred to is safe to read or write, and leads back. *)
LEMMA MapIsSound ==
  ASSUME MapIInv
  PROVE  Map!RegisteredCommitted /\ Map!NeverFaults /\ Map!EntryLeadsBack
<1>1. Map!RegisteredCommitted
  BY DEF MapIInv
<1>2. ASSUME ref # Map!NoRef PROVE Map!NeverFaults /\ Map!EntryLeadsBack
  <2>1. PICK ptr \in Map!Addresses, o \in {"get", "set"} :
          /\ ref = [op |-> o, ptr |-> ptr, entry |-> Map!EntryAt(ptr \div Map!Granularity)]
          /\ ptr \div Map!Granularity \in registered \/ (LazyCommit /\ o = "get")
    BY <1>2 DEF MapIInv, Referred
  <2>2. ptr \in Nat /\ ptr < 2 ^ MapAddressBits
    BY MapSizes DEF Map!Addresses
  <2>3. PICK g \in Nat \ {0}, n \in Nat \ {0}, es \in Nat \ {0}, p \in Nat \ {0} :
          g = Map!Granularity /\ n = Map!MapSize /\ es = entry_size /\ p = Map!PageSize
          /\ Body \in Nat \ {0}
    BY MapSizes DEF MapIInv, MapTypes
  <2>4. PICK i \in 0 .. n - 1 : /\ i = ptr \div Map!Granularity
                                /\ i * g <= ptr /\ ptr < i * g + g
    BY <2>2, <2>3, GranuleOf
  <2>5. ref.op = o /\ ref.ptr = ptr /\ ref.entry = Map!EntryAt(i)
    BY <2>1, <2>4
  <2>6. Map!get_page_ptr(ref.entry) = i * g
    <3>1. PICK e \in Nat : e = i * es
      BY <2>3, <2>4
    <3>2. (i * es + 0) \div es = i
      BY <2>3, <2>4, RemOfSum
    <3>3. Map!EntryAt(i) - Body = i * es + 0
      BY <2>3, <3>1 DEF Map!EntryAt
    <3> QED BY <2>3, <2>5, <3>2, <3>3 DEF Map!get_page_ptr
  <2>7. Map!EntryLeadsBack
    BY <2>3, <2>4, <2>5, <2>6 DEF Map!EntryLeadsBack
  <2>8. Map!PagesBetween(ref.entry, ref.entry + entry_size) = Map!PagesOfEntry(i)
    <3>1. PICK e \in Nat : e = i * es
      BY <2>3, <2>4
    <3>2. (i + 1) * es = e + es
      BY <2>3, <2>4, <3>1
    <3>3. ref.entry + entry_size = Map!EntryAt(i + 1)
      BY <2>3, <2>5, <3>1, <3>2 DEF Map!EntryAt
    <3> QED BY <2>5, <3>3 DEF Map!PagesOfEntry
  <2>9. Map!PagesOfEntry(i) \subseteq Map!MapPages
    <3>1. UNION {Map!PagesOfEntry(k) : k \in i .. i} \subseteq Map!MapPages
      BY <2>3, <2>4, CommittedPages DEF MapIInv, MapTypes
    <3>2. i \in i .. i
      BY <2>4
    <3> QED BY <3>1, <3>2
  <2>10. ASSUME NEW page \in Map!PagesOfEntry(i)
         PROVE  access[page] \in (IF ref.op = "get" THEN {"read", "write"} ELSE {"write"})
    <3>1. CASE i \in registered
      BY <3>1, <1>1 DEF Map!RegisteredCommitted
    <3>2. CASE LazyCommit /\ o = "get"
      BY <3>2, <2>5, <2>9 DEF MapIInv, MapTypes, Map!TypeOK, ReadAtOnce
    <3> QED BY <3>1, <3>2, <2>1, <2>4
  <2>11. Map!NeverFaults
    BY <2>8, <2>10 DEF Map!NeverFaults
  <2> QED BY <2>7, <2>11
<1> QED BY <1>1, <1>2 DEF Map!NeverFaults, Map!EntryLeadsBack

-----------------------------------------------------------------------------
(* The entry points.  A size that is served is passed on as it is, or as 1 *)
(* if it is 0.                                                             *)
Servable ==
  /\ entry \in Entries /\ request \in Requests
  /\ request <= 2 ^ (AddressBits - 1)
  /\ entry = "malloc.cpp" => request > 0

(* A request reaches the classes as a size between 1 and the largest that  *)
(* is served.                                                              *)
LEMMA PassedOn ==
  ASSUME Servable
  PROVE  \E v \in Nat : /\ malloc_size(entry, request) = v + 1
                        /\ v + 1 <= 2 ^ (AddressBits - 1)
                        /\ request = v + 1 \/ (request = 0 /\ v = 0)
<1>1. request \in Nat /\ entry \in {"interface", "malloc.cpp"}
  <2>1. 2 ^ Bits \in Nat
    BY Widths, Pow2Nat
  <2> QED BY <2>1, InterfaceConstants DEF Servable
<1>2. PICK h \in Nat \ {0}, a \in Nat \ {0} :
        h = 2 ^ (Bits - 1) /\ 2 ^ Bits = 2 * h /\ a = 2 ^ (AddressBits - 1) /\ a < h
  <2>1. Bits - 1 \in Nat /\ AddressBits - 1 \in Nat /\ AddressBits - 1 < Bits - 1
        /\ (Bits - 1) + 1 = Bits
    BY Widths
  <2>2. 2 ^ ((Bits - 1) + 1) = 2 * 2 ^ (Bits - 1) /\ 2 * 2 ^ (AddressBits - 1) <= 2 ^ (Bits - 1)
    BY <2>1, Pow2Succ, Pow2Mono
  <2>3. 2 ^ (Bits - 1) \in Nat \ {0} /\ 2 ^ (AddressBits - 1) \in Nat \ {0}
    BY <2>1, Pow2Pos
  <2> QED BY <2>1, <2>2, <2>3
<1>3. CASE request > 0
  <2>1. PICK v \in Nat : request = v + 1
    <3>1. request - 1 \in Nat /\ request = (request - 1) + 1
      BY <1>1, <1>3
    <3> QED BY <3>1
  <2>2. v + 1 <= a /\ v + 1 < 2 * h /\ v < h
    BY <1>2, <2>1 DEF Servable
  <2>3. SizeT(v) = v /\ SizeT(v + 1) = v + 1
    BY <1>2, <2>2, SizeTSame
  <2>4. (0 * h + v) \div h = 0 /\ 0 * h + v = v
    BY <1>2, <2>2, RemOfSum
  <2>5. request - 1 = v /\ v \div h + request = v + 1
    BY <2>1, <2>4
  <2>6. malloc_size(entry, request) = v + 1
    BY <2>1, <2>3, <2>5, <1>2 DEF malloc_size
  <2> QED BY <2>1, <2>2, <2>6, <1>2
<1>4. CASE request = 0
  <2>1. entry = "interface"
    BY <1>1, <1>4 DEF Servable
  <2>2. SizeT(request - 1) = 2 * h - 1
    <3>1. PICK p \in Nat \ {0} : p = 2 * h
      BY <1>2
    <3>2. -1 \in Int /\ p - 1 \in Nat /\ p - 1 < p /\ (-1) * p + (p - 1) = -1
      BY <3>1
    <3>3. ((-1) * p + (p - 1)) % p = p - 1
      BY <3>1, <3>2, IntRemUnique
    <3>4. request - 1 = -1
      BY <1>4
    <3> QED BY <3>1, <3>2, <3>3, <3>4, <1>2 DEF SizeT
  <2>3. (2 * h - 1) \div h = 1
    <3>1. 2 * h - 1 \in Nat /\ h <= 2 * h - 1 /\ 2 * h - 1 < 2 * h /\ h > 0
      BY <1>2
    <3> QED BY <3>1, <1>2, QuotOne
  <2>4. SizeT(1) = 1
    BY <1>2, SizeTSame
  <2>5. malloc_size(entry, request) = 1
    <3>1. malloc_size(entry, request) = SizeT(SizeT(request - 1) \div 2 ^ (Bits - 1) + request)
      BY <2>1 DEF malloc_size
    <3>2. SizeT(request - 1) \div 2 ^ (Bits - 1) + request = 1
      BY <2>2, <2>3, <1>2, <1>4
    <3> QED BY <2>4, <3>1, <3>2
  <2>6. 0 \in Nat /\ 1 = 0 + 1 /\ 0 + 1 <= 2 ^ (AddressBits - 1)
    BY <1>2
  <2> QED BY <2>5, <2>6, <1>4
<1> QED BY <1>1, <1>3, <1>4

(* What a size is served with, that of a slab or a large one. *)
LEMMA SlabServes ==
  ASSUME NEW c \in SlabClasses, NEW size, c = size_to_sizeclass(size)
  PROVE  LET o == allocate(size)
         IN  /\ o.kind \in {"Small", "Medium"}
             /\ o.size = sizeclass_to_size[c] /\ o.alignment = sizeclass_to_alignment[c]
             /\ o.kind = "Small" => c \in SmallClasses /\ o.slots = small_slab_slots[c]
             /\ o.kind = "Medium" => c \in MediumClasses /\ o.slots = medium_slab_slots[c]
<1>1. CASE c \in SmallClasses
  BY <1>1 DEF allocate
<1>2. CASE c \notin SmallClasses
  <2>1. c \in MediumClasses
    BY <1>2 DEF SlabClasses, sizeclass_to_size
  <2> QED BY <1>2, <2>1 DEF allocate
<1> QED BY <1>1, <1>2

(* A large request is served with the least power of two that is not below *)
(* it.                                                                     *)
LEMMA LargeServes ==
  ASSUME NEW v \in Nat, v + 1 <= 2 ^ (AddressBits - 1), size_to_sizeclass(v + 1) \notin SlabClasses
  PROVE  \E n \in LargeClasses :
           /\ allocate(v + 1) = [kind |-> "Large", class |-> n, size |-> 2 ^ n]
           /\ v < 2 ^ n /\ 2 ^ n <= 2 * v
           /\ \A k \in Nat : v < 2 ^ k => 2 ^ n <= 2 ^ k
<1> USE InterfaceConstants
<1>1. AddressBits - 1 \in Nat /\ AddressBits - 1 < Bits /\ AddressBits <= 256
  BY Widths, PowEight DEF CountersFit
<1>2. 2 ^ (AddressBits - 1) \in Nat /\ 2 ^ Bits \in Nat /\ 2 * 2 ^ (AddressBits - 1) <= 2 ^ Bits
  BY <1>1, Widths, Pow2Nat, Pow2Mono
<1>3. v + 1 < 2 ^ Bits /\ v < 2 ^ (AddressBits - 1)
  BY <1>2
<1>4. Bound(NumSizeclasses) <= v
  BY <1>3, FirstFit
<1>5. PICK b \in Nat, t \in Nat \ {0} :
        /\ b = Bound(NumSizeclasses) /\ t = LargeThreshold /\ t <= 2 * b /\ t = 2 ^ LargeThresholdBits
  <2>1. LargeThreshold \in Nat \ {0}
    BY Widths, Pow2Pos DEF LargeThreshold, one_at_bit
  <2> QED BY <2>1, LargestSlabClass DEF LargeThreshold, one_at_bit
<1>6. v # 0
  BY <1>4, <1>5
<1>7. PICK k \in 0 .. AddressBits - 1 - 1 : 2 ^ k <= v /\ v < 2 ^ (k + 1)
  BY <1>1, <1>3, <1>6, LeadingBit
<1>8. PICK n \in Nat : n = k + 1
  BY <1>7
<1>9. 2 ^ n = 2 * 2 ^ k /\ 2 ^ k \in Nat
  BY <1>7, <1>8, Pow2Succ, Pow2Nat
<1>10. n \in LargeClasses
  <2>1. n <= AddressBits - 1
    BY <1>1, <1>7, <1>8
  <2>2. ASSUME n < LargeThresholdBits PROVE FALSE
    <3>1. 2 * 2 ^ n <= t
      BY <1>5, <2>2, Widths, Pow2Mono
    <3>2. v < 2 ^ n /\ b <= v
      BY <1>4, <1>5, <1>7, <1>8
    <3> QED BY <3>1, <3>2, <1>5, <1>9
  <2> QED BY <1>8, <2>1, <2>2, Widths DEF LargeClasses
<1>11. next_pow2_bits(v + 1) = n
  <2>1. v + 1 \in Nat /\ (v + 1) - 1 = v /\ k \in 0 .. Bits - 1
    BY <1>1, <1>7, Widths
  <2> QED BY <2>1, <1>7, <1>8, NextPow2
<1>12. Uint8(n) = n /\ SizeT(2 ^ n) = 2 ^ n
  <2>1. n < 256
    BY <1>1, <1>7, <1>8, Widths
  <2>2. 2 ^ n < 2 ^ Bits
    <3>1. n < Bits
      BY <1>1, <1>7, <1>8, Widths
    <3>2. 2 * 2 ^ n <= 2 ^ Bits /\ 2 ^ n \in Nat \ {0} /\ 2 ^ Bits \in Nat
      BY <3>1, Widths, Pow2Mono, Pow2Pos
    <3> QED BY <3>2
  <2> QED BY <2>1, <2>2, <1>9, Uint8Same, SizeTSame
<1>13. allocate(v + 1) = [kind |-> "Large", class |-> n, size |-> 2 ^ n]
  <2>1. size_to_sizeclass(v + 1) \notin SmallClasses /\ size_to_sizeclass(v + 1) \notin MediumClasses
    BY DEF SlabClasses, sizeclass_to_size
  <2>2. v + 1 # 0
    OBVIOUS
  <2> QED BY <2>1, <2>2, <1>11, <1>12 DEF allocate, one_at_bit
<1>14. ASSUME NEW j \in Nat, v < 2 ^ j PROVE 2 ^ n <= 2 ^ j
  <2>1. 2 ^ k < 2 ^ j
    BY <1>7, <1>9, <1>14, Pow2Nat
  <2> QED BY <2>1, <1>7, <1>8, PowBelow, PowMono
<1>15. v < 2 ^ n /\ 2 ^ n <= 2 * v
  BY <1>7, <1>8, <1>9
<1> QED BY <1>10, <1>13, <1>14, <1>15

(* The least of a set of numbers.                                          *)
LEMMA MinIs ==
  ASSUME NEW S \in SUBSET Nat, NEW x \in S, \A y \in S : x <= y
  PROVE  Min(S) = x
<1>1. \A z \in S : (\A y \in S : z <= y) => z = x
  OBVIOUS
<1>2. (CHOOSE z \in S : \A y \in S : z <= y) = x
  BY <1>1
<1> QED BY <1>2 DEF Min

(* The call is served as the entry point and allocate say, or not yet.     *)
Answered ==
  /\ entry \in Entries /\ request \in Requests
  /\ object \in {None, allocate(malloc_size(entry, request))}

(* At first there is no answer to be wrong,                                *)
LEMMA AnsweredInitially == Init => Answered
BY DEF Init, Answered

(* and every call is answered rightly.                                     *)
LEMMA AnsweredKept ==
  ASSUME Answered, [Next]_vars
  PROVE  Answered'
BY DEF Answered, Next, Malloc, Free, vars

(* The sizes that are offered are those of the classes and the powers of   *)
(* two of the large stacks.                                                *)
LEMMA Offered ==
  /\ SizesOffered \in SUBSET Nat
  /\ \A c \in SlabClasses : sizeclass_to_size[c] \in SizesOffered
  /\ \A n \in LargeClasses : 2 ^ n \in SizesOffered
  /\ \A s \in SizesOffered : \/ \E c \in SlabClasses : s = sizeclass_to_size[c]
                             \/ \E n \in LargeClasses : s = 2 ^ n
<1>1. \A c \in SlabClasses : sizeclass_to_size[c] \in Nat
  BY SlabSizes, InterfaceConstants
<1>2. \A n \in LargeClasses : n \in Nat /\ 2 ^ n \in Nat
  <2>1. \A n \in LargeClasses : n \in Nat
    BY Widths DEF LargeClasses
  <2> QED BY <2>1, Pow2Nat
<1>3. SizesOffered = {sizeclass_to_size[c] : c \in SlabClasses} \cup {2 ^ n : n \in LargeClasses}
  BY DEF SizesOffered, SlabClasses
<1> QED BY <1>1, <1>2, <1>3

(* The three promises, of whatever a size that can be served is given.     *)
LEMMA AnswerIsRight ==
  ASSUME Answered
  PROVE  SmallestFit /\ WasteBounded /\ TablesSound
<1> USE InterfaceConstants
<1> SUFFICES ASSUME Served PROVE SmallestFit /\ WasteBounded /\ TablesSound
  BY DEF SmallestFit, WasteBounded, TablesSound, StackExists, SlabsFilled, MediumIsWholePages
<1>1. Servable /\ object = allocate(malloc_size(entry, request))
  BY DEF Served, Servable, Answered
<1>2. PICK v \in Nat : /\ malloc_size(entry, request) = v + 1
                       /\ v + 1 <= 2 ^ (AddressBits - 1)
                       /\ request = v + 1 \/ (request = 0 /\ v = 0)
  BY <1>1, PassedOn
<1>3. object = allocate(v + 1) /\ v + 1 < 2 ^ Bits
  <2>1. /\ 2 * 2 ^ (AddressBits - 1) <= 2 ^ Bits
        /\ 2 ^ (AddressBits - 1) \in Nat \ {0} /\ 2 ^ Bits \in Nat
    <3>1. AddressBits - 1 \in Nat /\ AddressBits - 1 < Bits /\ Bits \in Nat
      BY Widths
    <3> QED BY <3>1, Pow2Mono, Pow2Pos
  <2> QED BY <1>1, <1>2, <2>1
<1> DEFINE Fits == {s \in SizesOffered : s >= request /\ s > 0}
<1>4. Fits = {s \in SizesOffered : v < s} /\ Fits \in SUBSET Nat
  <2>1. SizesOffered \in SUBSET Nat
    BY Offered
  <2>2. \A s \in SizesOffered : (s >= request /\ s > 0) <=> v < s
    BY <1>2, <2>1
  <2> QED BY <2>1, <2>2
<1> HIDE DEF Fits
<1>5. \A x \in Fits : (\A y \in Fits : x <= y) => Min(Fits) = x
  BY <1>4, MinIs
<1>6. CASE size_to_sizeclass(v + 1) \in SlabClasses
  <2>1. PICK c \in SlabClasses : c = size_to_sizeclass(v + 1)
    BY <1>6
  <2>2. PICK s \in Nat : /\ s = sizeclass_to_size[c] /\ v < s
                         /\ \A d \in SlabClasses : v < sizeclass_to_size[d] => s <= sizeclass_to_size[d]
                         /\ s <= Bound(NumSizeclasses)
    BY <1>3, <2>1, FirstFit, SlabSizes
  <2>3. /\ object.kind \in {"Small", "Medium"}
        /\ object.size = s /\ object.alignment = sizeclass_to_alignment[c]
        /\ object.kind = "Small" => c \in SmallClasses /\ object.slots = small_slab_slots[c]
        /\ object.kind = "Medium" => c \in MediumClasses /\ object.slots = medium_slab_slots[c]
    BY <1>3, <2>1, <2>2, SlabServes
  <2>4. SmallestFit
    <3>1. s \in Fits
      BY <1>4, <2>2, Offered
    <3>2. ASSUME NEW y \in Fits PROVE s <= y
      <4>1. CASE \E d \in SlabClasses : y = sizeclass_to_size[d]
        BY <4>1, <1>4, <2>2
      <4>2. CASE \E n \in LargeClasses : y = 2 ^ n
        <5>1. PICK n \in LargeClasses : y = 2 ^ n
          BY <4>2
        <5>2. 2 ^ LargeThresholdBits <= 2 ^ n /\ 2 ^ n \in Nat
          <6>1. n \in Nat /\ LargeThresholdBits \in Nat /\ LargeThresholdBits <= n
            BY Widths DEF LargeClasses
          <6> QED BY <6>1, PowMono, Pow2Nat
        <5>3. PICK b \in Nat, p \in Nat, t \in Nat :
                /\ b = Bound(NumSizeclasses) /\ p = PageSize
                /\ t = 2 ^ LargeThresholdBits /\ b + p <= t
          <6>1. PageSize \in Nat /\ 2 ^ LargeThresholdBits \in Nat
            BY Widths, Pow2Nat DEF PageSize, one_at_bit
          <6> QED BY <6>1, LargestSlabClass DEF LargeThreshold, one_at_bit
        <5> QED BY <5>1, <5>2, <5>3, <2>2
      <4> QED BY <4>1, <4>2, <1>4, Offered
    <3>3. object.size = Min(Fits)
      BY <3>1, <3>2, <1>5, <2>3
    <3> QED BY <3>3 DEF SmallestFit, Fits
  <2>5. WasteBounded
    <3>1. CASE request = v + 1
      <4>1. \/ s - (v + 1) < MinAllocSize
            \/ (2 ^ IntermediateBits + 1) * (s - (v + 1)) < s
        BY <1>3, <2>1, <2>2, SlabWaste
      <4> QED BY <3>1, <4>1, <2>3 DEF WasteBounded
    <3>2. CASE request = 0
      BY <3>2, <2>3 DEF WasteBounded
    <3> QED BY <3>1, <3>2, <1>2
  <2>6. CASE object.kind = "Small"
    <3>1. /\ small_slab_slots[c] \in 1 .. 2 ^ 16 - 1
          /\ small_slab_slots[c] * s <= MediumThreshold
          /\ MediumThreshold < (small_slab_slots[c] + 1) * s
      BY <2>2, <2>3, <2>6, SmallSlots
    <3>2. TablesSound
      BY <3>1, <2>3, <2>6 DEF TablesSound, StackExists, SlabsFilled, MediumIsWholePages
    <3> QED BY <3>2, <2>4, <2>5
  <2>7. CASE object.kind = "Medium"
    <3>1. /\ medium_slab_slots[c] \in 1 .. 255
          /\ medium_slab_slots[c] * s <= LargeThreshold - PageSize
          /\ LargeThreshold - PageSize < (medium_slab_slots[c] + 1) * s
          /\ s % PageSize = 0 /\ object.alignment % PageSize = 0
      BY <2>2, <2>3, <2>7, MediumSlots, WholePages
    <3>2. TablesSound
      BY <3>1, <2>3, <2>7 DEF TablesSound, StackExists, SlabsFilled, MediumIsWholePages
    <3> QED BY <3>2, <2>4, <2>5
  <2> QED BY <2>3, <2>6, <2>7
<1>7. CASE size_to_sizeclass(v + 1) \notin SlabClasses
  <2>1. PICK n \in LargeClasses :
           /\ allocate(v + 1) = [kind |-> "Large", class |-> n, size |-> 2 ^ n]
           /\ v < 2 ^ n /\ 2 ^ n <= 2 * v
           /\ \A k \in Nat : v < 2 ^ k => 2 ^ n <= 2 ^ k
    BY <1>2, <1>7, LargeServes
  <2>2. object.kind = "Large" /\ object.class = n /\ object.size = 2 ^ n
    BY <2>1, <1>3
  <2>3. PICK s \in Nat : s = 2 ^ n /\ v < s /\ s <= 2 * v
    BY <2>1, Offered
  <2>4. SmallestFit
    <3>1. s \in Fits
      BY <1>4, <2>3, Offered
    <3>2. ASSUME NEW y \in Fits PROVE s <= y
      <4>1. CASE \E d \in SlabClasses : y = sizeclass_to_size[d]
        <5>1. PICK d \in SlabClasses : y = sizeclass_to_size[d]
          BY <4>1
        <5>2. y <= Bound(NumSizeclasses) /\ Bound(NumSizeclasses) <= v /\ v < y
          BY <5>1, <1>3, <1>4, <1>7, SlabSizes, FirstFit
        <5>3. Bound(NumSizeclasses) \in Nat
          BY LargestSlabClass
        <5> QED BY <5>2, <5>3, <1>4
      <4>2. CASE \E k \in LargeClasses : y = 2 ^ k
        <5>1. PICK k \in LargeClasses : y = 2 ^ k
          BY <4>2
        <5>2. k \in Nat
          BY Widths DEF LargeClasses
        <5> QED BY <5>1, <5>2, <1>4, <2>1, <2>3
      <4> QED BY <4>1, <4>2, <1>4, Offered
    <3>3. object.size = Min(Fits)
      BY <3>1, <3>2, <1>5, <2>2, <2>3
    <3> QED BY <3>3 DEF SmallestFit, Fits
  <2>5. WasteBounded
    <3>1. request = v + 1
      BY <1>2, <2>3
    <3>2. 2 * (s - request) < s
      BY <3>1, <2>3
    <3> QED BY <3>2, <2>2, <2>3 DEF WasteBounded
  <2>6. TablesSound
    BY <2>2 DEF TablesSound, StackExists, SlabsFilled, MediumIsWholePages
  <2> QED BY <2>4, <2>5, <2>6
<1> QED BY <1>6, <1>7

-----------------------------------------------------------------------------
(* What holds of the last answer, of the pal's block and of the page map. *)
IInv == Answered /\ PalIInv /\ MapIInv

(* The parts keep their invariants, whichever takes the steps. *)
THEOREM Inductive == SystemSpec => []IInv
<1>1. SystemInit => IInv
  BY AnsweredInitially, PalInitially, MapInitially DEF SystemInit, IInv
<1>2. IInv /\ [SystemNext]_all_vars => IInv'
  <2> SUFFICES ASSUME IInv, [SystemNext]_all_vars PROVE IInv'
    OBVIOUS
  <2>1. Answered /\ PalIInv /\ MapIInv
    BY DEF IInv
  <2>2. CASE UNCHANGED all_vars
    <3>1. UNCHANGED vars /\ UNCHANGED pal_vars /\ UNCHANGED map_vars
      BY <2>2 DEF all_vars
    <3> QED BY <2>1, <3>1, AnsweredKept, PalKept, MapKept DEF IInv
  <2>3. CASE part = "interface" /\ Next /\ UNCHANGED <<part, map_vars, pal_vars>>
    BY <2>1, <2>3, AnsweredKept, PalKept, MapKept DEF IInv
  <2>4. CASE part = "pagemap" /\ Map!Next /\ UNCHANGED <<part, vars, pal_vars>>
    BY <2>1, <2>4, AnsweredKept, PalKept, MapStepKeeps DEF IInv
  <2>5. CASE part = "pal" /\ OS!Next /\ UNCHANGED <<part, vars, map_vars>>
    BY <2>1, <2>5, AnsweredKept, PalStepKeeps, MapKept DEF IInv
  <2> QED BY <2>2, <2>3, <2>4, <2>5 DEF SystemNext
<1> QED BY <1>1, <1>2, PTL DEF SystemSpec

(* A request is served with the least size there is that is not below it,  *)
(* whatever the entry point makes of the number and however the bits of    *)
(* its class are computed.                                                 *)
THEOREM SmallestFitAlways == SystemSpec => []SmallestFit
<1>1. IInv => SmallestFit
  BY AnswerIsRight DEF IInv
<1> QED BY <1>1, Inductive, PTL

(* With m bits of mantissa less than one part in 2^m + 1 of a slab object  *)
(* is wasted, and less than half of a large one.                           *)
THEOREM WasteBoundedAlways == SystemSpec => []WasteBounded
<1>1. IInv => WasteBounded
  BY AnswerIsRight DEF IInv
<1> QED BY <1>1, Inductive, PTL

(* The tables are indexed within their bounds, their narrow counters hold  *)
(* as many objects as fit in a slab, and medium objects are whole pages.   *)
THEOREM TablesSoundAlways == SystemSpec => []TablesSound
<1>1. IInv => TablesSound
  BY AnswerIsRight DEF IInv
<1> QED BY <1>1, Inductive, PTL

(* Of the page map exactly the pages of registered entries are committed,  *)
(* no entry that is used can fault, and each leads back to its address,    *)
(* also with entries that lie across pages.                                *)
THEOREM MapSoundAlways == SystemSpec => []MapSound
<1>1. IInv => MapSound
  BY MapIsSound DEF IInv, MapSound
<1> QED BY <1>1, Inductive, PTL

(* Whichever system calls fail, on either system: what was to be zeroed is *)
(* zero, but for a pal_linux::zero whose MADV_DONTNEED has failed; clearing*)
(* faults only when every way to make the memory accessible has failed;    *)
(* and errno is kept where it is stored, or no mprotect or madvise failed. *)
THEOREM FailuresContainedAlways == SystemSpec => []FailuresContained
<1>1. IInv => FailuresContained
  <2> SUFFICES ASSUME IInv PROVE OS!FaultsAtLast
    BY DEF IInv, PalIInv, FailuresContained
  <2> QED BY DEF IInv, PalIInv, PalPaths, PalWays, ZeroOps, OS!FaultsAtLast, OS!Faulted, OS!Ways,
                 OS!Systems
<1> QED BY <1>1, Inductive, PTL
=============================================================================
