---------------------------- MODULE HandlersProofs ----------------------------
(***************************************************************************)
(* The content store finds what its list says, and the handlers answer     *)
(* their requests: for every list, every set of files and every number of  *)
(* workers.                                                                *)
(***************************************************************************)
EXTENDS Handlers, WellFoundedInduction, TLAPS

-----------------------------------------------------------------------------
(***************************************************************************)
(* Induction over the naturals, with a set in the place of a predicate.    *)
(***************************************************************************)

\* A set of naturals has a least element.
LEMMA LeastElement ==
    ASSUME NEW T \in SUBSET Nat, T # {}
    PROVE  \E n \in T : \A m \in T : n <= m
<1>1. PICK n \in T : \A m \in T : ~(<<m, n>> \in OpToRel(<, Nat))
      BY NatLessThanWellFounded, WFMin, Zenon
<1>2. \A m \in T : ~(m < n)
      BY <1>1 DEF OpToRel
<1>. QED BY <1>2

\* A set that has 0 and the successors of its members has every natural.
LEMMA SetInduction ==
    ASSUME NEW S, 0 \in S, \A n \in Nat : n \in S => n + 1 \in S
    PROVE  \A n \in Nat : n \in S
<1> DEFINE T == Nat \ S
<1> SUFFICES ASSUME T # {} PROVE FALSE
    OBVIOUS
<1>1. T \in SUBSET Nat
      OBVIOUS
<1> HIDE DEF T
<1>2. PICK n \in T : \A m \in T : n <= m
      BY <1>1, LeastElement
<1>3. n \in Nat /\ n \notin S
      BY <1>2 DEF T
<1>4. n # 0 /\ n - 1 \in Nat /\ n - 1 \in S
      BY <1>2, <1>3 DEF T
<1>. QED BY <1>3, <1>4

-----------------------------------------------------------------------------
(***************************************************************************)
(* The binary search.                                                      *)
(***************************************************************************)
USE DEF nitems

\* One round of the search for key between bounds, when s gives the results of
\* the rounds after it.
Round(s, key, bounds) ==
    LET lo    == bounds[1]
        hi    == bounds[2]
        mid   == lo + (hi - lo) \div 2
        found == items[mid + 1].key IN
    IF lo > hi THEN -1
    ELSE IF key < found THEN s[<<lo, mid - 1>>]
    ELSE IF key > found THEN s[<<mid + 1, hi>>]
    ELSE items[mid + 1].fildes

Bounds == (0 .. nitems + 1) \X (-1 .. nitems - 1)

\* s gives the result for every pair of bounds.
Searches(s, key) == s = [bounds \in Bounds |-> Round(s, key, bounds)]

\* The middle lies between the bounds.
LEMMA Middle ==
    ASSUME NEW lo \in Int, NEW hi \in Int, lo <= hi
    PROVE  /\ lo + (hi - lo) \div 2 \in Int
           /\ lo <= lo + (hi - lo) \div 2
           /\ lo + (hi - lo) \div 2 <= hi
OBVIOUS

\* A round looks only at results for bounds that are closer to each other.
LEMMA RoundDepends ==
    ASSUME nitems \in Nat, NEW s, NEW t, NEW key, NEW b \in Bounds,
           \A c \in Bounds : c[2] - c[1] < b[2] - b[1] => s[c] = t[c]
    PROVE  Round(s, key, b) = Round(t, key, b)
<1> DEFINE lo  == b[1]
           hi  == b[2]
           mid == lo + (hi - lo) \div 2
<1>1. lo \in 0 .. nitems + 1 /\ hi \in -1 .. nitems - 1
      BY DEF Bounds
<1>2. CASE lo > hi
      BY <1>2 DEF Round
<1>3. CASE lo <= hi
  <2>1. mid \in Int /\ lo <= mid /\ mid <= hi
        BY <1>1, <1>3, Middle
  <2> HIDE DEF mid
  <2>2. /\ <<lo, mid - 1>> \in Bounds /\ <<mid + 1, hi>> \in Bounds
        /\ mid - 1 - lo < hi - lo /\ hi - (mid + 1) < hi - lo
        BY <1>1, <2>1 DEF Bounds
  <2>3. s[<<lo, mid - 1>>] = t[<<lo, mid - 1>>] /\ s[<<mid + 1, hi>>] = t[<<mid + 1, hi>>]
        BY <2>2
  <2>.  QED BY <2>3 DEF Round, mid
<1>. QED BY <1>1, <1>2, <1>3

\* There are results for all bounds: the recursion ends.
LEMMA SearchExists ==
    ASSUME nitems \in Nat, NEW key
    PROVE  \E s : Searches(s, key)
<1> DEFINE Good(s, k) == /\ s = [b \in Bounds |-> s[b]]
                         /\ \A b \in Bounds : b[2] - b[1] < k => s[b] = Round(s, key, b)
           K == {k \in Nat : \E s : Good(s, k)}
<1>1. 0 \in K
  <2> DEFINE s == [b \in Bounds |-> -1]
  <2>1. \A b \in Bounds : b[2] - b[1] < 0 => Round(s, key, b) = -1
        BY DEF Bounds, Round
  <2>2. Good(s, 0)
        BY <2>1
  <2>.  QED BY <2>2
<1>2. ASSUME NEW k \in Nat, k \in K
      PROVE  k + 1 \in K
  <2>1. PICK s : Good(s, k)
        BY <1>2
  <2> DEFINE t == [b \in Bounds |-> IF b[2] - b[1] < k THEN s[b] ELSE Round(s, key, b)]
  <2>2. ASSUME NEW b \in Bounds, b[2] - b[1] < k + 1
        PROVE  t[b] = Round(t, key, b)
    <3>1. \A c \in Bounds : c[2] - c[1] < b[2] - b[1] => s[c] = t[c]
          BY <2>2 DEF Bounds
    <3> HIDE DEF t
    <3>2. Round(s, key, b) = Round(t, key, b)
          BY <3>1, RoundDepends
    <3>3. t[b] = Round(s, key, b)
          BY <2>1 DEF t
    <3>.  QED BY <3>2, <3>3
  <2>3. t = [b \in Bounds |-> t[b]]
        OBVIOUS
  <2> HIDE DEF t
  <2>4. Good(t, k + 1)
        BY <2>2, <2>3
  <2>.  QED BY <2>4
<1> HIDE DEF K
<1>3. nitems + 1 \in K
      BY <1>1, <1>2, SetInduction
<1>4. PICK s : Good(s, nitems + 1)
      BY <1>3 DEF K
<1>5. \A b \in Bounds : s[b] = Round(s, key, b)
  <2>1. \A b \in Bounds : b[2] - b[1] < nitems + 1
        BY DEF Bounds
  <2>.  QED BY <1>4, <2>1
<1>6. Searches(s, key)
      BY <1>4, <1>5 DEF Searches
<1>. QED BY <1>6

\* Get looks the result up for the widest bounds.
LEMMA GetSearches ==
    ASSUME nitems \in Nat, NEW key
    PROVE  \E s : Searches(s, key) /\ Get(key) = s[<<0, nitems - 1>>]
<1> DEFINE search == CHOOSE s : Searches(s, key)
<1>1. Searches(search, key)
      BY SearchExists, Zenon
<1>2. Get(key) = search[<<Lowest, nitems - 1>>]
      BY DEF Get, Searches, Round, Bounds
<1>. QED BY <1>1, <1>2 DEF Lowest

\* The entries of the index are in order.
Sorted ==
    \A i, j \in DOMAIN items : i < j => items[i].key <= items[j].key

Entry == [key : Key, fildes : DOMAIN lines]

\* A binary search of entries in order finds one with the key, if there is one.
LEMMA GetFinds ==
    ASSUME items \in Seq(Entry), Sorted, NEW key \in Nat
    PROVE  \/ Get(key) = -1 /\ \A i \in DOMAIN items : items[i].key # key
           \/ \E i \in DOMAIN items : items[i].key = key /\ Get(key) = items[i].fildes
<1>1. /\ nitems \in Nat /\ DOMAIN items = 1 .. nitems
      /\ \A i \in 1 .. nitems : items[i].key \in Nat
  <2>1. \A i \in 1 .. nitems : items[i] \in Entry
        OBVIOUS
  <2>2. \A i \in 1 .. nitems : items[i].key \in Key
        BY <2>1 DEF Entry
  <2>3. nitems \in Nat /\ DOMAIN items = 1 .. nitems
        OBVIOUS
  <2>.  QED BY <2>2, <2>3, KeyAssumption
<1>2. PICK s : Searches(s, key) /\ Get(key) = s[<<0, nitems - 1>>]
      BY <1>1, GetSearches
<1> DEFINE Found(b) ==
             \/ /\ s[b] = -1
                /\ \A i \in 1 .. nitems : b[1] < i /\ i <= b[2] + 1 => items[i].key # key
             \/ \E i \in 1 .. nitems : items[i].key = key /\ s[b] = items[i].fildes
           K == {k \in Nat : \A b \in Bounds : b[2] - b[1] < k => Found(b)}
<1>3. \A b \in Bounds : s[b] = Round(s, key, b)
      BY <1>2 DEF Searches
<1>4. 0 \in K
  <2>1. ASSUME NEW b \in Bounds, b[2] - b[1] < 0
        PROVE  s[b] = -1
    <3>1. b[1] \in Int /\ b[2] \in Int
          BY <1>1 DEF Bounds
    <3>2. b[1] > b[2]
          BY <2>1, <3>1
    <3>.  QED BY <1>3, <3>2 DEF Round
  <2>2. \A b \in Bounds : b[2] - b[1] < 0 => Found(b)
        BY <2>1, <1>1 DEF Bounds
  <2>.  QED BY <2>2
<1>5. ASSUME NEW k \in Nat, k \in K
      PROVE  k + 1 \in K
  <2> SUFFICES ASSUME NEW b \in Bounds, b[2] - b[1] < k + 1 PROVE Found(b)
      OBVIOUS
  <2> DEFINE lo  == b[1]
             hi  == b[2]
             mid == lo + (hi - lo) \div 2
  <2>1. lo \in 0 .. nitems + 1 /\ hi \in -1 .. nitems - 1
        BY DEF Bounds
  <2>2. CASE lo > hi
    <3>1. s[b] = -1
          BY <1>3, <2>2 DEF Round
    <3>.  QED BY <1>1, <2>1, <2>2, <3>1
  <2>3. CASE lo <= hi
    <3>1. mid \in Int /\ lo <= mid /\ mid <= hi
          BY <2>1, <2>3, Middle
    <3>2. s[b] = IF key < items[mid + 1].key THEN s[<<lo, mid - 1>>]
                 ELSE IF key > items[mid + 1].key THEN s[<<mid + 1, hi>>]
                 ELSE items[mid + 1].fildes
          BY <1>3, <2>1, <2>3 DEF Round
    <3> HIDE DEF mid
    <3>3. mid + 1 \in 1 .. nitems /\ items[mid + 1].key \in Nat
          BY <1>1, <2>1, <3>1
    <3>4. CASE key < items[mid + 1].key
      <4>1. <<lo, mid - 1>> \in Bounds /\ mid - 1 - lo < k
            BY <2>1, <3>1 DEF Bounds
      <4>2. Found(<<lo, mid - 1>>)
            BY <1>5, <4>1
      <4>3. \A i \in 1 .. nitems : mid + 1 <= i => items[i].key # key
            BY <1>1, <3>3, <3>4 DEF Sorted
      <4>4. \A i \in 1 .. nitems : ~(mid + 1 <= i) => i <= mid
            BY <3>1
      <4>5. s[b] = s[<<lo, mid - 1>>]
            BY <3>2, <3>4
      <4>6. <<lo, mid - 1>>[1] = lo /\ <<lo, mid - 1>>[2] + 1 = mid
            BY <3>1
      <4>.  QED BY <4>2, <4>3, <4>4, <4>5, <4>6
    <3>5. CASE key > items[mid + 1].key
      <4>1. <<mid + 1, hi>> \in Bounds /\ hi - (mid + 1) < k
            BY <2>1, <3>1 DEF Bounds
      <4>2. Found(<<mid + 1, hi>>)
            BY <1>5, <4>1
      <4>3. \A i \in 1 .. nitems : i <= mid + 1 => items[i].key # key
            BY <1>1, <3>3, <3>5 DEF Sorted
      <4>4. \A i \in 1 .. nitems : ~(i <= mid + 1) => mid + 1 < i
            BY <3>1
      <4>5. s[b] = s[<<mid + 1, hi>>]
            BY <3>2, <3>3, <3>5
      <4>6. <<mid + 1, hi>>[1] = mid + 1 /\ <<mid + 1, hi>>[2] = hi
            OBVIOUS
      <4>.  QED BY <4>2, <4>3, <4>4, <4>5, <4>6
    <3>6. CASE key = items[mid + 1].key
          BY <3>2, <3>3, <3>6
    <3>.  QED BY <3>3, <3>4, <3>5, <3>6
  <2>.  QED BY <2>1, <2>2, <2>3
<1> HIDE DEF K
<1>6. nitems \in K
      BY <1>1, <1>4, <1>5, SetInduction
<1>7. <<0, nitems - 1>> \in Bounds /\ nitems - 1 - 0 < nitems
      BY <1>1 DEF Bounds
<1>8. Found(<<0, nitems - 1>>)
      BY <1>6, <1>7 DEF K
<1>. QED BY <1>1, <1>2, <1>8

-----------------------------------------------------------------------------
(***************************************************************************)
(* The index.                                                              *)
(***************************************************************************)

\* The first entries are those of the first lines, in the order of the list.
Loaded ==
    \A i \in DOMAIN items :
      items[i] = [key |-> lines[i].key, fildes |-> i] /\ Opened(i) \in Files

\* The entries are in order, each has the key of its line, and each line has one.
Indexed ==
    /\ Sorted
    /\ \A i \in DOMAIN items : lines[items[i].fildes].key = items[i].key
    /\ \A l \in DOMAIN lines :
         Opened(l) \in Files /\ \E i \in DOMAIN items : items[i].fildes = l

\* What loading and sorting maintain.
StoreInv ==
    /\ lines \in ListFile
    /\ StoreTypeOK
    /\ capacity # 0
    /\ index \in {"load", "sort"} => Loaded /\ nitems <= Len(lines)
    /\ index = "load" => nitems < capacity
    /\ index = "sort" => nitems = Len(lines)
    /\ index = "ready" => Indexed

\* A line has a key, and the list is a sequence of lines.
LEMMA ListFileIs ==
    ASSUME lines \in ListFile
    PROVE  /\ Len(lines) \in Nat /\ DOMAIN lines = 1 .. Len(lines)
           /\ \A l \in DOMAIN lines : /\ lines[l].key \in Key
                                      /\ lines[l].path \in Path \cup {None}
                                      /\ lines[l].newline \in BOOLEAN
           /\ \A i \in 1 .. Len(lines) - 1 : lines[i].newline
<1>1. /\ lines \in Seq(Line) /\ \A i \in 1 .. Len(lines) - 1 : lines[i].newline
      BY DEF ListFile
<1>2. \A l \in DOMAIN lines : lines[l] \in Line
      BY <1>1
<1>3. \A l \in DOMAIN lines : /\ lines[l].key \in Key
                               /\ lines[l].path \in Path \cup {None}
                               /\ lines[l].newline \in BOOLEAN
      BY <1>2 DEF Line
<1>. QED BY <1>1, <1>3

\* Reading a line keeps the invariant: the memory grows in time.
LEMMA InvLoadLine == StoreInv /\ LoadLine => StoreInv'
<1> SUFFICES ASSUME StoreInv, LoadLine PROVE StoreInv'
    OBVIOUS
<1>1. /\ lines' = lines /\ lines \in ListFile /\ index = "load"
      /\ nitems < Len(lines) /\ items \in Seq(Entry) /\ nitems \in Nat
      /\ Loaded /\ nitems < capacity /\ capacity \in Nat /\ capacity # 0
      BY DEF LoadLine, StoreInv, StoreTypeOK, Entry
<1>2. CASE Opened(nitems + 1) \in Files
  <2> DEFINE n == nitems + 1
             e == [key |-> lines[n].key, fildes |-> n]
  <2>1. /\ items' = Append(items, e) /\ index' = "load"
        /\ capacity' = IF n = capacity THEN 2 * capacity ELSE capacity
        BY <1>1, <1>2 DEF LoadLine, Full
  <2>2. e \in Entry
        BY <1>1, ListFileIs DEF Entry
  <2> HIDE DEF e
  <2>3. /\ items' \in Seq(Entry) /\ Len(items') = n /\ DOMAIN items' = 1 .. n
        /\ items'[n] = e /\ \A i \in 1 .. nitems : items'[i] = items[i]
        BY <1>1, <2>1, <2>2
  <2>4. Loaded'
    <3>1. \A i \in DOMAIN items : /\ items[i] = [key |-> lines[i].key, fildes |-> i]
                                  /\ Opened(i) \in Files
          BY <1>1 DEF Loaded
    <3>2. \A i \in 1 .. n : i = n \/ i \in 1 .. nitems
          BY <1>1
    <3>3. \A i : Opened(i)' = Opened(i)
          BY <1>1 DEF Opened
    <3>4. DOMAIN items = 1 .. nitems
          BY <1>1
    <3>.  QED BY <1>1, <1>2, <2>3, <3>1, <3>2, <3>3, <3>4 DEF Loaded, e
  <2>5. nitems' < capacity' /\ capacity' \in Nat /\ capacity' # 0
        BY <1>1, <2>1, <2>3
  <2>.  QED BY <1>1, <2>1, <2>3, <2>4, <2>5 DEF StoreInv, StoreTypeOK, Entry
<1>3. CASE Opened(nitems + 1) \notin Files
      BY <1>1, <1>3 DEF LoadLine, StoreInv, StoreTypeOK
<1>. QED BY <1>2, <1>3

\* The end of the list keeps the invariant.
LEMMA InvEndOfList == StoreInv /\ EndOfList => StoreInv'
BY DEF StoreInv, EndOfList, StoreTypeOK, Loaded, Opened

\* Sorting keeps the invariant: no entry is lost.
LEMMA InvSort == StoreInv /\ Sort => StoreInv'
<1> SUFFICES ASSUME StoreInv, Sort PROVE StoreInv'
    OBVIOUS
<1>1. /\ lines' = lines /\ capacity' = capacity /\ index' = "ready"
      /\ lines \in ListFile /\ items \in Seq(Entry) /\ nitems \in Nat
      /\ Loaded /\ nitems = Len(lines) /\ capacity \in Nat /\ capacity # 0
      BY DEF Sort, StoreInv, StoreTypeOK, Entry
<1> DEFINE D == 1 .. nitems
<1>2. DOMAIN items = D /\ DOMAIN lines = D /\ \A i \in D : items[i] \in Entry
      BY <1>1, ListFileIs
<1>3. PICK order \in Bijection(D, D) :
        /\ \A i, j \in D : i < j => items[order[i]].key <= items[order[j]].key
        /\ items' = [i \in D |-> items[order[i]]]
      BY <1>2 DEF Sort
<1>4. order \in [D -> D] /\ \A t \in D : \E i \in D : order[i] = t
      BY <1>3 DEF Bijection, Surjection
<1>5. items' \in Seq(Entry) /\ DOMAIN items' = D
      BY <1>1, <1>2, <1>3, <1>4
<1>6. \A i \in D : /\ items'[i].fildes = order[i]
                   /\ items'[i].key = lines[order[i]].key
  <2>1. \A i \in D : items[i].fildes = i /\ items[i].key = lines[i].key
        BY <1>1, <1>2 DEF Loaded
  <2>.  QED BY <1>3, <1>4, <2>1
<1>7. \A i : Opened(i)' = Opened(i)
      BY <1>1 DEF Opened
<1>8. Sorted'
      BY <1>3, <1>4, <1>5 DEF Sorted
<1>9. \A i \in DOMAIN items : Opened(i) \in Files
      BY <1>1 DEF Loaded
<1>10. Indexed'
  <2>1. \A i \in D : lines'[items'[i].fildes].key = items'[i].key
        BY <1>1, <1>6
  <2>2. \A l \in D : Opened(l)' \in Files' /\ \E i \in D : items'[i].fildes = l
        BY <1>2, <1>4, <1>6, <1>7, <1>9
  <2>.  QED BY <1>1, <1>2, <1>5, <1>8, <2>1, <2>2 DEF Indexed
<1>. QED BY <1>1, <1>5, <1>10 DEF StoreInv, StoreTypeOK, Entry

\* What Get returns from an index that is ready.
LEMMA GetLists ==
    ASSUME StoreInv, index = "ready", NEW key \in Key
    PROVE  /\ Lists(key) = {} => Get(key) = -1
           /\ Lists(key) # {} => Get(key) \in Lists(key)
<1>1. /\ items \in Seq(Entry) /\ Sorted /\ lines \in ListFile
      /\ \A i \in DOMAIN items : lines[items[i].fildes].key = items[i].key
      /\ \A l \in DOMAIN lines : \E i \in DOMAIN items : items[i].fildes = l
      BY DEF StoreInv, StoreTypeOK, Entry, Indexed
<1>2. \/ Get(key) = -1 /\ \A i \in DOMAIN items : items[i].key # key
      \/ \E i \in DOMAIN items : items[i].key = key /\ Get(key) = items[i].fildes
      BY <1>1, GetFinds, KeyAssumption
<1>3. \A i \in DOMAIN items : items[i].fildes \in DOMAIN lines
  <2>1. \A i \in DOMAIN items : items[i] \in Entry
        BY <1>1
  <2>.  QED BY <2>1 DEF Entry
<1>4. CASE Get(key) = -1 /\ \A i \in DOMAIN items : items[i].key # key
      BY <1>1, <1>4 DEF Lists
<1>5. ASSUME NEW i \in DOMAIN items, items[i].key = key, Get(key) = items[i].fildes
      PROVE  Get(key) \in Lists(key)
      BY <1>1, <1>3, <1>5 DEF Lists
<1>. QED BY <1>2, <1>4, <1>5

\* The invariant says of the index what IndexFaithful does.
LEMMA FaithfulFromInv == StoreInv => IndexFaithful
<1> SUFFICES ASSUME StoreInv PROVE IndexFaithful
    OBVIOUS
<1>1. StoreTypeOK /\ (index = "load" => nitems < capacity)
      BY DEF StoreInv
<1>2. ASSUME index = "ready", NEW key \in Key, Lists(key) # {},
             lines[Len(lines)].newline
      PROVE  Opened(Get(key)) = lines[Get(key)].path
  <2>1. Get(key) \in DOMAIN lines
        BY <1>2, GetLists DEF Lists
  <2>2. \A l \in DOMAIN lines : lines[l].newline
    <3>1. /\ Len(lines) \in Nat /\ DOMAIN lines = 1 .. Len(lines)
          /\ \A i \in 1 .. Len(lines) - 1 : lines[i].newline
          BY ListFileIs DEF StoreInv
    <3>2. \A l \in 1 .. Len(lines) : l = Len(lines) \/ l \in 1 .. Len(lines) - 1
      <4>1. Len(lines) \in Int
            BY <3>1
      <4>.  QED BY <4>1
    <3>.  QED BY <1>2, <3>1, <3>2
  <2>.  QED BY <2>1, <2>2 DEF Opened
<1>. QED BY <1>1, <1>2, GetLists DEF IndexFaithful

\* A step that leaves the store alone.
LEMMA InvSame == StoreInv /\ UNCHANGED store => StoreInv'
BY DEF StoreInv, store, StoreTypeOK, Loaded, Indexed, Sorted, Opened

\* The store keeps its invariant, whatever the handlers do.
LEMMA StoreHolds == Spec => []StoreInv
<1>1. Init => StoreInv
  <2> SUFFICES ASSUME Init PROVE StoreInv
      OBVIOUS
  <2>1. /\ lines \in ListFile /\ items = <<>> /\ capacity = InitialCapacity
        /\ \/ index \in {"load", "failed"}
           \/ index = "ready" /\ lines = <<>>
    <3>1. <<>> \in ListFile
          BY DEF ListFile
    <3>2. CASE handler = "content"
          BY <3>2, ListFilesAssumption DEF Init, StoreInit
    <3>3. CASE handler # "content"
          BY <3>1, <3>3 DEF Init
    <3>.  QED BY <3>2, <3>3
  <2>2. /\ items \in Seq(Entry) /\ DOMAIN items = {} /\ nitems = 0
        BY <2>1
  <2>3. lines = <<>> => DOMAIN lines = {}
        OBVIOUS
  <2>4. Loaded /\ Sorted /\ (lines = <<>> => Indexed)
        BY <2>2, <2>3 DEF Loaded, Sorted, Indexed
  <2>5. Len(lines) \in Nat
        BY <2>1, ListFileIs
  <2>.  QED BY <2>1, <2>2, <2>4, <2>5, CapacityAssumption DEF StoreInv, StoreTypeOK, Entry
<1>2. StoreInv /\ [Next]_vars => StoreInv'
  <2> SUFFICES ASSUME StoreInv, [Next]_vars PROVE StoreInv'
      OBVIOUS
  <2>1. CASE StoreNext
        BY <2>1, InvLoadLine, InvEndOfList, InvSort DEF StoreNext
  <2>2. CASE UNCHANGED store
        BY <2>2, InvSame
  <2>3. ASSUME NEW w \in Workers, Ask(w) \/ Serve(w)
        PROVE  UNCHANGED store
        BY <2>3 DEF Ask, Serve, Lookup, Open, Announce, Head_, TestDone, Read,
                    GetBody, Send, SendShort, Return
  <2>4. ASSUME NEW p \in Files, Change(p)
        PROVE  UNCHANGED store
        BY <2>4 DEF Change
  <2>.  QED BY <2>1, <2>2, <2>3, <2>4 DEF Next, Index, vars
<1>. QED BY <1>1, <1>2, PTL DEF Spec

\* The search finds what the list says, for every list that ends, whatever the
\* order and the number of its keys, and the memory of the index is never too
\* small.
THEOREM SearchFaithful == Spec => []IndexFaithful
BY StoreHolds, FaithfulFromInv, PTL

-----------------------------------------------------------------------------
(***************************************************************************)
(* The invariant of a request: what the worker's variables say about the   *)
(* file, at each place where the worker can be.                            *)
(***************************************************************************)
Moved(r) == "moved" \in r.mishap

\* The client has nothing yet.
Fresh(r) ==
    /\ r.header = "none" /\ r.len = 0 /\ r.done = 0 /\ r.chunk = 0
    /\ r.got = 0 /\ ~r.garbled

\* The name of the request stands for the file that was found.
Target(w) ==
    IF handler = "content" THEN worker[w].fildes \in Lists(worker[w].request)
                           ELSE worker[w].request \in Files

\* What the counters say while the file is sent; as long as no file moved they
\* also agree with its size.
Progress(w) == LET r == worker[w] IN
    /\ r.header = "ok" /\ Target(w)
    /\ r.got = r.done \/ r.garbled
    /\ r.pc \in {"read", "send"} => r.done < r.len
    /\ r.pc = "return" => r.done >= r.len
    /\ r.len \in Sizes \/ r.len = Unknown

InStep(w) == LET r == worker[w] IN
    /\ \/ r.len = size[FileOf(w)] /\ r.done <= r.len
       \/ r.len = Unknown /\ "origin" \in r.mishap
    /\ r.pc = "send" => r.done + r.chunk <= r.len
    /\ handler = "curl" /\ r.pc \in {"test", "read"} =>
         (r.done = 0 /\ r.chunk = 0) \/ r.done = r.len
    /\ handler = "curl" /\ r.pc = "send" => r.done = 0 /\ r.chunk = r.len

RequestInv(w) == LET r == worker[w] IN
    /\ r.garbled => handler = "curl" /\ Moved(r) /\ r.got > 0
    /\ r.pc = "idle" => r = NewRequest
    /\ r.pc # "idle" =>
         index = "ready" /\ r.request \in IF handler = "content" THEN Key ELSE Path
    /\ r.pc \in {"lookup", "announce"} => Fresh(r)
    /\ r.pc = "announce" => Target(w) /\ handler # "curl"
    /\ r.pc \in {"test", "read", "send"} => Progress(w) /\ (Moved(r) \/ InStep(w))
    /\ r.pc = "return" =>
         \/ /\ r.header = "not_found" /\ Named(r.request) = {}
            /\ r.len = 0 /\ r.got = 0 /\ ~r.garbled
         \/ Progress(w) /\ (Moved(r) \/ InStep(w))
    /\ r.pc = "failed" /\ r.mishap = {} =>
         handler = "file" /\ opened = MaxFds /\ r.header = "none"

HandlersInv ==
    /\ TypeOK
    /\ size \in [Files -> Sizes]
    /\ \A w \in Workers : RequestInv(w)

\* The file of a request is one that its name stands for.
LEMMA TargetFile ==
    ASSUME StoreInv, HandlersInv, NEW w \in Workers, worker[w].pc # "idle", Target(w)
    PROVE  /\ FileOf(w) \in Named(worker[w].request) /\ FileOf(w) \in Files
           /\ size[FileOf(w)] \in Sizes /\ size[FileOf(w)] \in Nat
<1>1. FileOf(w) \in Named(worker[w].request) /\ FileOf(w) \in Files
  <2>1. CASE handler = "content"
    <3>1. index = "ready"
          BY DEF HandlersInv, RequestInv
    <3>2. worker[w].fildes \in DOMAIN lines /\ \A l \in DOMAIN lines : Opened(l) \in Files
          BY <2>1, <3>1 DEF Target, Lists, StoreInv, Indexed
    <3>.  QED BY <2>1, <3>2 DEF Target, FileOf, Named
  <2>2. CASE handler # "content"
        BY <2>2 DEF Target, FileOf, Named
  <2>.  QED BY <2>1, <2>2
<1>. QED BY <1>1, SizeAssumption DEF HandlersInv

\* The fields of a request.
LEMMA RequestFields ==
    ASSUME HandlersInv, NEW w \in Workers
    PROVE  LET r == worker[w] IN
           /\ r \in Request
           /\ r.fildes \in Nat /\ r.len \in Int /\ r.done \in Nat /\ r.chunk \in Nat
           /\ r.got \in Nat /\ r.garbled \in BOOLEAN
           /\ r.request \in Requests \cup {None}
           /\ r.mishap \in SUBSET {"moved", "client", "origin"}
           /\ r.header \in {"none", "ok", "not_found"}
BY DEF HandlersInv, TypeOK, Request

\* A request that a step leaves alone keeps its invariant.
LEMMA RequestFrame ==
    ASSUME NEW w, RequestInv(w), worker'[w] = worker[w],
           \/ worker[w].pc = "idle"
           \/ /\ UNCHANGED <<store, handler, size>>
              /\ opened = MaxFds => opened' = opened
    PROVE  RequestInv(w)'
<1>1. CASE worker[w].pc = "idle"
      BY <1>1 DEF RequestInv, NewRequest
<1>2. CASE UNCHANGED <<store, handler, size>> /\ (opened = MaxFds => opened' = opened)
  <2>1. /\ Target(w)' = Target(w) /\ FileOf(w)' = FileOf(w)
        /\ Named(worker[w].request)' = Named(worker[w].request)
        BY <1>2 DEF Target, FileOf, Named, Lists, Opened, store
  <2>2. Progress(w)' = Progress(w) /\ InStep(w)' = InStep(w)
        BY <1>2, <2>1 DEF Progress, InStep, store
  <2>.  QED BY <1>2, <2>1, <2>2 DEF RequestInv, store, Moved, Fresh
<1>. QED BY <1>1, <1>2

\* A step of worker w: what is left to show is the invariant of its request.
LEMMA Assemble ==
    ASSUME StoreInv, HandlersInv, NEW w \in Workers, NEW r \in Request,
           Become(w, r), UNCHANGED <<store, handler, size, changes>>,
           opened' \in 0 .. MaxFds, opened = MaxFds => opened' = opened,
           offset' \in [DOMAIN lines -> Nat], exited' \in BOOLEAN,
           worker'[w] = r => RequestInv(w)'
    PROVE  HandlersInv'
<1>1. worker \in [Workers -> Request]
      BY DEF HandlersInv, TypeOK
<1>2. /\ worker' \in [Workers -> Request] /\ worker'[w] = r
      /\ \A v \in Workers \ {w} : worker'[v] = worker[v]
      BY <1>1 DEF Become
<1>3. TypeOK' /\ (size \in [Files -> Sizes])'
      BY <1>2 DEF HandlersInv, TypeOK, store
<1>4. ASSUME NEW v \in Workers PROVE RequestInv(v)'
      BY <1>2, RequestFrame DEF HandlersInv
<1>. QED BY <1>3, <1>4 DEF HandlersInv

\* A worker takes a request.
LEMMA InvAsk ==
    ASSUME StoreInv, HandlersInv, NEW w \in Workers, Ask(w)
    PROVE  HandlersInv'
<1>1. PICK q \in IF handler = "content" THEN Key ELSE Path :
        Become(w, [NewRequest EXCEPT !.pc = "lookup", !.request = q])
      BY DEF Ask
<1> DEFINE r == [NewRequest EXCEPT !.pc = "lookup", !.request = q]
<1>2. /\ r \in Request /\ r.pc = "lookup" /\ r.request = q /\ r.mishap = {} /\ Fresh(r)
  <2>1. q \in Requests
        BY <1>1 DEF Requests
  <2>2. /\ NewRequest \in Request /\ NewRequest.mishap = {} /\ Fresh(NewRequest)
        BY DEF NewRequest, Request, Fresh
  <2>3. r.pc = "lookup" /\ r.request = q /\ r.mishap = {} /\ r \in Request
        BY <2>1, <2>2 DEF Request
  <2>.  QED BY <2>2, <2>3 DEF Fresh, Request
<1> HIDE DEF r
<1>3. /\ UNCHANGED <<store, handler, environment, offset, opened, exited>>
      /\ index = "ready"
      BY DEF Ask
<1>4. worker'[w] = r => RequestInv(w)'
      BY <1>1, <1>2, <1>3 DEF RequestInv, Fresh, store
<1>. QED BY <1>1, <1>2, <1>3, <1>4, Assemble DEF r, environment, HandlersInv, TypeOK

\* The list is searched.
LEMMA InvLookup ==
    ASSUME StoreInv, HandlersInv, NEW w \in Workers, Lookup(w)
    PROVE  HandlersInv'
<1>1. /\ UNCHANGED <<store, handler, environment, opened, exited>>
      /\ handler = "content" /\ worker[w].pc = "lookup"
      BY DEF Lookup, Step
<1>2. /\ worker[w] \in Request /\ Fresh(worker[w]) /\ index = "ready"
      /\ worker[w].request \in Key /\ RequestInv(w)
      BY <1>1 DEF HandlersInv, TypeOK, RequestInv
<1>3. CASE Get(worker[w].request) = -1
  <2> DEFINE r == [worker[w] EXCEPT !.header = "not_found", !.len = 0, !.pc = "return"]
  <2>1. Become(w, r) /\ UNCHANGED offset
        BY <1>3 DEF Lookup, Answer
  <2>2. /\ r \in Request /\ r.pc = "return" /\ r.request = worker[w].request
        /\ r.header = "not_found" /\ r.len = 0 /\ r.got = 0 /\ ~r.garbled
        BY <1>2 DEF Request, Fresh
  <2> HIDE DEF r
  <2>3. Lists(worker[w].request) = {}
    <3>1. Get(worker[w].request) \notin Lists(worker[w].request)
          BY <1>3, ListFileIs DEF Lists, StoreInv
    <3>.  QED BY <1>2, <3>1, GetLists
  <2>4. \A q : Lists(q)' = Lists(q)
        BY <1>1 DEF Lists, store
  <2>5. \A q : Lists(q) = {} => Named(q)' = {}
        BY <1>1, <2>4 DEF Named
  <2>6. ASSUME worker'[w] = r
        PROVE  RequestInv(w)'
    <3>1. Named(worker[w].request)' = {}
          BY <2>2, <2>3, <2>5, <2>6
    <3>.  QED BY <1>1, <1>2, <2>2, <2>6, <3>1 DEF RequestInv, store
  <2>.  QED BY <1>1, <2>1, <2>2, <2>6, Assemble DEF environment, HandlersInv, TypeOK
<1>4. CASE Get(worker[w].request) # -1
  <2> DEFINE f == Get(worker[w].request)
             r == [worker[w] EXCEPT !.fildes = f, !.pc = "announce"]
  <2>1. Become(w, r) /\ offset' = [offset EXCEPT ![f] = 0]
        BY <1>4 DEF Lookup
  <2>2. f \in Lists(worker[w].request)
        BY <1>2, <1>4, GetLists
  <2>3. f \in DOMAIN lines /\ f \in Nat
        BY <2>2, ListFileIs DEF Lists, StoreInv
  <2> HIDE DEF f
  <2>4. /\ r \in Request /\ r.pc = "announce" /\ r.request = worker[w].request
        /\ r.fildes = f /\ Fresh(r)
        BY <1>2, <2>3 DEF Request, Fresh
  <2> HIDE DEF r
  <2>5. offset' \in [DOMAIN lines -> Nat]
        BY <2>1 DEF HandlersInv, TypeOK
  <2>6. worker'[w] = r => Target(w)'
        BY <1>1, <2>2, <2>4 DEF Target, Lists, store
  <2>7. worker'[w] = r => RequestInv(w)'
        BY <1>1, <1>2, <2>4, <2>6 DEF RequestInv, Fresh, store
  <2>.  QED BY <1>1, <2>1, <2>4, <2>5, <2>7, Assemble DEF environment, HandlersInv, TypeOK
<1>. QED BY <1>3, <1>4

\* The file is opened, or there is none, or no descriptor.
LEMMA InvOpen ==
    ASSUME StoreInv, HandlersInv, NEW w \in Workers, Open(w)
    PROVE  HandlersInv'
<1>1. /\ UNCHANGED <<store, handler, environment, offset, exited>>
      /\ handler = "file" /\ worker[w].pc = "lookup"
      BY DEF Open, Step
<1>2. /\ worker[w] \in Request /\ Fresh(worker[w]) /\ index = "ready"
      /\ worker[w].request \in Path /\ RequestInv(w)
      BY <1>1 DEF HandlersInv, TypeOK, RequestInv
<1>3. opened \in 0 .. MaxFds /\ exited \in BOOLEAN /\ offset \in [DOMAIN lines -> Nat]
      BY DEF HandlersInv, TypeOK
<1>4. CASE opened = MaxFds
  <2> DEFINE r == [worker[w] EXCEPT !.pc = "failed", !.mishap = @ \cup {}]
  <2>1. Become(w, r) /\ opened' = opened
        BY <1>3, <1>4, HandlersBounds DEF Open, Fail
  <2>2. r \in Request /\ r.pc = "failed" /\ r.header = "none" /\ ~r.garbled
        /\ r.request = worker[w].request
        BY <1>2 DEF Request, Fresh
  <2> HIDE DEF r
  <2>3. worker'[w] = r => RequestInv(w)'
        BY <1>1, <1>2, <1>4, <2>1, <2>2 DEF RequestInv, store
  <2>.  QED BY <1>1, <1>3, <2>1, <2>2, <2>3, Assemble DEF environment
<1>5. CASE opened < MaxFds /\ worker[w].request \notin Files
  <2> DEFINE r == [worker[w] EXCEPT !.header = "not_found", !.len = 0, !.pc = "return"]
  <2>1. Become(w, r) /\ opened' = opened
        BY <1>3, <1>5, HandlersBounds DEF Open, Answer
  <2>2. /\ r \in Request /\ r.pc = "return" /\ r.request = worker[w].request
        /\ r.header = "not_found" /\ r.len = 0 /\ r.got = 0 /\ ~r.garbled
        BY <1>2 DEF Request, Fresh
  <2> HIDE DEF r
  <2>3. worker'[w] = r => RequestInv(w)'
        BY <1>1, <1>2, <1>5, <2>2 DEF RequestInv, store, Named
  <2>.  QED BY <1>1, <1>3, <2>1, <2>2, <2>3, Assemble DEF environment
<1>6. CASE opened < MaxFds /\ worker[w].request \in Files
  <2> DEFINE r == [worker[w] EXCEPT !.pc = "announce"]
  <2>1. Become(w, r) /\ opened' = opened + 1
        BY <1>3, <1>6, HandlersBounds DEF Open, Goto
  <2>2. /\ r \in Request /\ r.pc = "announce" /\ r.request = worker[w].request
        /\ Fresh(r)
        BY <1>2 DEF Request, Fresh
  <2> HIDE DEF r
  <2>3. worker'[w] = r => RequestInv(w)'
        BY <1>1, <1>2, <1>6, <2>2 DEF RequestInv, store, Target, Fresh
  <2>4. opened' \in 0 .. MaxFds /\ opened # MaxFds
        BY <1>3, <1>6, <2>1, HandlersBounds
  <2>.  QED BY <1>1, <1>3, <2>1, <2>2, <2>3, <2>4, Assemble DEF environment
<1>. QED BY <1>3, <1>4, <1>5, <1>6, HandlersBounds

\* The header with the length.
LEMMA InvAnnounce ==
    ASSUME StoreInv, HandlersInv, NEW w \in Workers, Announce(w)
    PROVE  HandlersInv'
<1> DEFINE len == size[FileOf(w)]
           r   == [worker[w] EXCEPT !.header = "ok", !.len = len, !.pc = "test"]
<1>1. /\ UNCHANGED <<store, handler, environment, opened, exited>>
      /\ worker[w].pc = "announce" /\ Become(w, r)
      /\ offset' = IF handler = "content"
                   THEN [offset EXCEPT ![worker[w].fildes] = len] ELSE offset
      BY DEF Announce, Step, Answer
<1>2. /\ worker[w] \in Request /\ Fresh(worker[w]) /\ index = "ready"
      /\ Target(w) /\ handler # "curl" /\ RequestInv(w)
      BY <1>1 DEF HandlersInv, TypeOK, RequestInv
<1>3. len \in Sizes /\ len \in Nat
      BY <1>1, <1>2, TargetFile
<1> HIDE DEF len
<1>4. /\ r \in Request /\ r.pc = "test" /\ r.request = worker[w].request
      /\ r.fildes = worker[w].fildes /\ r.header = "ok" /\ r.len = len
      /\ r.done = 0 /\ r.got = 0 /\ ~r.garbled
  <2>1. len \in Int
        BY <1>3
  <2>2. r.header = "ok" /\ r.len = len /\ r.pc = "test" /\ r \in Request
        BY <1>2, <2>1 DEF Request
  <2>.  QED BY <1>2, <2>2 DEF Fresh, Request
<1> HIDE DEF r
<1>5. offset' \in [DOMAIN lines -> Nat] /\ exited \in BOOLEAN /\ opened \in 0 .. MaxFds
      BY <1>1, <1>3 DEF HandlersInv, TypeOK
<1>6. ASSUME worker'[w] = r
      PROVE  RequestInv(w)'
  <2>1. Target(w)' /\ FileOf(w)' = FileOf(w)
        BY <1>1, <1>2, <1>4, <1>6 DEF Target, FileOf, Lists, Opened, store
  <2>2. Progress(w)'
        BY <1>3, <1>4, <1>6, <2>1 DEF Progress
  <2>3. InStep(w)'
        BY <1>1, <1>2, <1>3, <1>4, <1>6, <2>1 DEF InStep, len, environment
  <2>.  QED BY <1>1, <1>2, <1>4, <1>6, <2>2, <2>3 DEF RequestInv, store
<1>. QED BY <1>1, <1>4, <1>5, <1>6, Assemble DEF environment

\* A request that fails for a reason that is not the handler's.
LEMMA Failed ==
    ASSUME StoreInv, HandlersInv, NEW w \in Workers, worker[w].pc # "idle",
           NEW r \in Request, Become(w, r), r.pc = "failed", r.mishap # {},
           worker[w].mishap \subseteq r.mishap, r.request = worker[w].request,
           r.garbled = worker[w].garbled, r.got = worker[w].got,
           UNCHANGED <<store, handler, environment, offset, opened>>,
           exited' \in BOOLEAN
    PROVE  HandlersInv'
<1>1. RequestInv(w) /\ opened \in 0 .. MaxFds /\ offset \in [DOMAIN lines -> Nat]
      BY DEF HandlersInv, TypeOK
<1>2. worker'[w] = r => RequestInv(w)'
      BY <1>1 DEF RequestInv, Moved, store
<1>. QED BY <1>1, <1>2, Assemble DEF environment

\* The answer to the HEAD request.
LEMMA InvHead ==
    ASSUME StoreInv, HandlersInv, NEW w \in Workers, Head_(w)
    PROVE  HandlersInv'
<1>1. /\ UNCHANGED <<store, handler, environment, offset, opened, exited>>
      /\ handler = "curl" /\ worker[w].pc = "lookup"
      BY DEF Head_, Step
<1>2. /\ worker[w] \in Request /\ Fresh(worker[w]) /\ index = "ready"
      /\ worker[w].request \in Path /\ RequestInv(w)
      BY <1>1 DEF HandlersInv, TypeOK, RequestInv
<1>3. opened \in 0 .. MaxFds /\ exited \in BOOLEAN /\ offset \in [DOMAIN lines -> Nat]
      BY DEF HandlersInv, TypeOK
<1>4. CASE Fail(w, {"origin"})
  <2> DEFINE r == [worker[w] EXCEPT !.pc = "failed", !.mishap = @ \cup {"origin"}]
  <2>1. Become(w, r)
        BY <1>4 DEF Fail
  <2>2. /\ r \in Request /\ r.pc = "failed" /\ r.mishap = worker[w].mishap \cup {"origin"}
        /\ r.request = worker[w].request /\ r.garbled = worker[w].garbled
        /\ r.got = worker[w].got
        BY <1>2 DEF Request
  <2> HIDE DEF r
  <2>.  QED BY <1>1, <1>3, <2>1, <2>2, Failed
<1>5. CASE worker[w].request \notin Files /\ Answer(w, "not_found", 0, "return")
  <2> DEFINE r == [worker[w] EXCEPT !.header = "not_found", !.len = 0, !.pc = "return"]
  <2>1. Become(w, r)
        BY <1>5 DEF Answer
  <2>2. /\ r \in Request /\ r.pc = "return" /\ r.request = worker[w].request
        /\ r.header = "not_found" /\ r.len = 0 /\ r.got = 0 /\ ~r.garbled
        BY <1>2 DEF Request, Fresh
  <2> HIDE DEF r
  <2>3. worker'[w] = r => RequestInv(w)'
        BY <1>1, <1>2, <1>5, <2>2 DEF RequestInv, store, Named
  <2>.  QED BY <1>1, <1>3, <2>1, <2>2, <2>3, Assemble DEF environment
<1>6. ASSUME worker[w].request \in Files,
             NEW r \in Request, Become(w, r), r.pc = "test",
             r.request = worker[w].request, r.header = "ok",
             r.done = 0, r.chunk = 0, r.got = 0, ~r.garbled,
             \/ r.len = size[r.request] /\ r.len \in Sizes /\ r.len \in Nat
             \/ r.len = Unknown /\ "origin" \in r.mishap
      PROVE  HandlersInv'
  <2>1. ASSUME worker'[w] = r
        PROVE  RequestInv(w)'
    <3>1. Target(w)' /\ FileOf(w)' = r.request
          BY <1>1, <1>6, <2>1 DEF Target, FileOf
    <3>2. Progress(w)'
          BY <1>6, <2>1, <3>1 DEF Progress
    <3>3. InStep(w)'
          BY <1>1, <1>6, <2>1, <3>1 DEF InStep, environment
    <3>.  QED BY <1>1, <1>2, <1>6, <2>1, <3>2, <3>3 DEF RequestInv, store
  <2>.  QED BY <1>1, <1>3, <1>6, <2>1, Assemble DEF environment
<1>7. CASE worker[w].request \in Files /\ Answer(w, "ok", size[worker[w].request], "test")
  <2> DEFINE len == size[worker[w].request]
             r   == [worker[w] EXCEPT !.header = "ok", !.len = len, !.pc = "test"]
  <2>1. Become(w, r)
        BY <1>7 DEF Answer
  <2>2. len \in Sizes /\ len \in Nat /\ len \in Int
    <3>1. len \in Sizes
          BY <1>7 DEF HandlersInv
    <3>2. len \in Nat
          BY <3>1, SizeAssumption
    <3>.  QED BY <3>1, <3>2
  <2> HIDE DEF len
  <2>3. /\ r \in Request /\ r.pc = "test" /\ r.request = worker[w].request
        /\ r.header = "ok" /\ r.len = len
        BY <1>2, <2>2 DEF Request
  <2>4. r.done = 0 /\ r.chunk = 0 /\ r.got = 0 /\ ~r.garbled
        BY <1>2, <2>2 DEF Request, Fresh
  <2> HIDE DEF r
  <2>.  QED BY <1>6, <1>7, <2>1, <2>2, <2>3, <2>4 DEF len
<1>8. CASE /\ worker[w].request \in Files
           /\ Become(w, [worker[w] EXCEPT !.header = "ok", !.len = Unknown,
                           !.pc = "test", !.mishap = @ \cup {"origin"}])
  <2> DEFINE r == [worker[w] EXCEPT !.header = "ok", !.len = Unknown,
                           !.pc = "test", !.mishap = @ \cup {"origin"}]
  <2>1. /\ r \in Request /\ r.pc = "test" /\ r.request = worker[w].request
        /\ r.header = "ok" /\ r.len = Unknown /\ "origin" \in r.mishap
    <3>1. Unknown \in Int
          BY DEF Unknown
    <3>.  QED BY <1>2, <3>1 DEF Request
  <2>2. r.done = 0 /\ r.chunk = 0 /\ r.got = 0 /\ ~r.garbled
        BY <1>2 DEF Request, Fresh
  <2>3. Become(w, r)
        BY <1>8
  <2> HIDE DEF r
  <2>.  QED BY <1>6, <1>8, <2>1, <2>2, <2>3
<1>. QED BY <1>4, <1>5, <1>7, <1>8 DEF Head_

\* The file of a request depends on nothing that its own steps change.
LEMMA SameFile ==
    ASSUME NEW w, NEW r, worker'[w] = r, UNCHANGED <<store, handler>>,
           r.request = worker[w].request, r.fildes = worker[w].fildes
    PROVE  /\ Target(w)' = Target(w) /\ FileOf(w)' = FileOf(w)
           /\ \A q : Named(q)' = Named(q)
BY DEF Target, FileOf, Named, Lists, Opened, store

\* The invariant of a request that is being sent.
LEMMA Sending ==
    ASSUME HandlersInv, NEW w \in Workers, worker[w].pc \in {"test", "read", "send"}
    PROVE  LET r == worker[w] IN
           /\ r \in Request /\ r.len \in Int /\ r.done \in Nat /\ r.chunk \in Nat
           /\ r.got \in Nat
           /\ RequestInv(w) /\ Progress(w) /\ (Moved(r) \/ InStep(w))
           /\ index = "ready" /\ r.request \in IF handler = "content" THEN Key ELSE Path
           /\ (r.garbled => handler = "curl" /\ Moved(r) /\ r.got > 0)
           /\ opened \in 0 .. MaxFds /\ exited \in BOOLEAN
           /\ offset \in [DOMAIN lines -> Nat]
<1>1. RequestInv(w) /\ TypeOK
      BY DEF HandlersInv
<1>2. worker[w] \in Request
      BY <1>1 DEF TypeOK
<1>. QED BY <1>1, <1>2, RequestFields DEF TypeOK, RequestInv

\* The test of the loop.
LEMMA InvTest ==
    ASSUME StoreInv, HandlersInv, NEW w \in Workers, TestDone(w)
    PROVE  HandlersInv'
<1> DEFINE to == IF worker[w].done < worker[w].len THEN "read" ELSE "return"
           r  == [worker[w] EXCEPT !.pc = to]
<1>1. /\ UNCHANGED <<store, handler, environment, offset, opened, exited>>
      /\ worker[w].pc = "test" /\ Become(w, r)
      BY DEF TestDone, Step, Goto
<1>2. /\ worker[w] \in Request /\ worker[w].len \in Int /\ worker[w].done \in Nat
      /\ Progress(w) /\ (Moved(worker[w]) \/ InStep(w)) /\ index = "ready"
      /\ worker[w].request \in IF handler = "content" THEN Key ELSE Path
      /\ (worker[w].garbled => handler = "curl" /\ Moved(worker[w]) /\ worker[w].got > 0)
      /\ opened \in 0 .. MaxFds /\ exited \in BOOLEAN /\ offset \in [DOMAIN lines -> Nat]
      BY <1>1, Sending
<1>3. \/ to = "read" /\ worker[w].done < worker[w].len
      \/ to = "return" /\ worker[w].done >= worker[w].len
      BY <1>2
<1>4. to \in {"read", "return"}
      OBVIOUS
<1> HIDE DEF to
<1>5. /\ r \in Request /\ r.pc = to /\ r.request = worker[w].request
      /\ r.fildes = worker[w].fildes /\ r.header = worker[w].header
      /\ r.len = worker[w].len /\ r.done = worker[w].done /\ r.chunk = worker[w].chunk
      /\ r.got = worker[w].got /\ r.garbled = worker[w].garbled
      /\ r.mishap = worker[w].mishap
      BY <1>2, <1>4 DEF Request
<1> HIDE DEF r
<1>6. ASSUME worker'[w] = r
      PROVE  RequestInv(w)'
  <2>1. Target(w)' = Target(w) /\ FileOf(w)' = FileOf(w)
        BY <1>1, <1>5, <1>6, SameFile
  <2>2. Progress(w)'
        BY <1>2, <1>3, <1>5, <1>6, <2>1 DEF Progress
  <2>3. Moved(r) = Moved(worker[w])
        BY <1>5 DEF Moved
  <2>4. ASSUME InStep(w) PROVE InStep(w)'
        BY <1>1, <1>3, <1>5, <1>6, <2>1, <2>4 DEF InStep, environment
  <2>.  QED BY <1>1, <1>2, <1>4, <1>5, <1>6, <2>2, <2>3, <2>4 DEF RequestInv, store
<1>. QED BY <1>1, <1>2, <1>5, <1>6, Assemble DEF environment

\* The smaller of two numbers.
LEMMA MinOfTwo ==
    ASSUME NEW a \in Int, NEW b \in Int
    PROVE  Min({a, b}) = IF a <= b THEN a ELSE b
<1>1. CASE a <= b
  <2>1. a \in {a, b} /\ \A y \in {a, b} : a <= y
        BY <1>1
  <2>2. \A x \in {a, b} : (\A y \in {a, b} : x <= y) => x = a
        BY <1>1
  <2>.  QED BY <1>1, <2>1, <2>2 DEF Min
<1>2. CASE ~(a <= b)
  <2>1. b \in {a, b} /\ \A y \in {a, b} : b <= y
        BY <1>2
  <2>2. \A x \in {a, b} : (\A y \in {a, b} : x <= y) => x = b
        BY <1>2
  <2>.  QED BY <1>2, <2>1, <2>2 DEF Min
<1>. QED BY <1>1, <1>2

\* A read: it finds something, unless the file has become shorter.
LEMMA InvRead ==
    ASSUME StoreInv, HandlersInv, NEW w \in Workers, Read(w)
    PROVE  HandlersInv'
<1> DEFINE left  == size[FileOf(w)] - worker[w].done
           chunk == Min({BUFFER_SIZE, left})
<1>1. /\ UNCHANGED <<store, handler, environment, offset, opened, exited>>
      /\ worker[w].pc = "read" /\ handler # "curl"
      /\ \/ left <= 0 /\ Goto(w, "failed")
         \/ left > 0 /\ Become(w, [worker[w] EXCEPT !.chunk = chunk, !.pc = "send"])
      BY DEF Read, Step, ReadAt, AfterNothing
<1>2. /\ worker[w] \in Request /\ worker[w].len \in Int /\ worker[w].done \in Nat
      /\ Progress(w) /\ (Moved(worker[w]) \/ InStep(w)) /\ index = "ready"
      /\ worker[w].request \in IF handler = "content" THEN Key ELSE Path
      /\ (worker[w].garbled => handler = "curl" /\ Moved(worker[w]) /\ worker[w].got > 0)
      /\ opened \in 0 .. MaxFds /\ exited \in BOOLEAN /\ offset \in [DOMAIN lines -> Nat]
      BY <1>1, Sending
<1>3. size[FileOf(w)] \in Nat
      BY <1>1, <1>2, TargetFile DEF Progress
<1>4. worker[w].done < worker[w].len
      BY <1>1, <1>2 DEF Progress
<1>5. InStep(w) => worker[w].len = size[FileOf(w)]
      BY <1>2, <1>4 DEF InStep, Unknown
<1>6. CASE left <= 0 /\ Goto(w, "failed")
  <2> DEFINE r == [worker[w] EXCEPT !.pc = "failed"]
  <2>1. worker[w].mishap # {}
        BY <1>2, <1>3, <1>4, <1>5, <1>6 DEF Moved
  <2>2. /\ Become(w, r) /\ r \in Request /\ r.pc = "failed"
        /\ r.mishap = worker[w].mishap /\ r.request = worker[w].request
        /\ r.garbled = worker[w].garbled /\ r.got = worker[w].got
        BY <1>2, <1>6 DEF Request, Goto
  <2> HIDE DEF r
  <2>.  QED BY <1>1, <1>2, <2>1, <2>2, Failed
<1>7. CASE left > 0 /\ Become(w, [worker[w] EXCEPT !.chunk = chunk, !.pc = "send"])
  <2>1. chunk \in Nat /\ chunk <= left
        BY <1>2, <1>3, <1>7, MinOfTwo, HandlersBounds
  <2>2. worker[w].done + chunk <= size[FileOf(w)]
        BY <1>2, <1>3, <2>1
  <2> DEFINE r == [worker[w] EXCEPT !.chunk = chunk, !.pc = "send"]
  <2>3. Become(w, r)
        BY <1>7
  <2> HIDE DEF chunk
  <2>4. /\ r \in Request /\ r.pc = "send" /\ r.request = worker[w].request
        /\ r.fildes = worker[w].fildes /\ r.header = worker[w].header
        /\ r.len = worker[w].len /\ r.done = worker[w].done /\ r.chunk = chunk
        /\ r.got = worker[w].got /\ r.garbled = worker[w].garbled
        /\ r.mishap = worker[w].mishap
        BY <1>2, <2>1 DEF Request
  <2> HIDE DEF r
  <2>5. ASSUME worker'[w] = r
        PROVE  RequestInv(w)'
    <3>1. Target(w)' = Target(w) /\ FileOf(w)' = FileOf(w)
          BY <1>1, <2>4, <2>5, SameFile
    <3>2. Progress(w)'
          BY <1>2, <1>4, <2>4, <2>5, <3>1 DEF Progress
    <3>3. Moved(r) = Moved(worker[w])
          BY <2>4 DEF Moved
    <3>4. ASSUME InStep(w) PROVE InStep(w)'
          BY <1>1, <1>5, <2>2, <2>4, <2>5, <3>1, <3>4 DEF InStep, environment
    <3>.  QED BY <1>1, <1>2, <2>4, <2>5, <3>2, <3>3, <3>4 DEF RequestInv, store
  <2>.  QED BY <1>1, <1>2, <2>3, <2>4, <2>5, Assemble DEF environment
<1>. QED BY <1>1, <1>6, <1>7

\* The GET request: unless the file moved, the lump is the whole file.
LEMMA InvGetBody ==
    ASSUME StoreInv, HandlersInv, NEW w \in Workers, GetBody(w)
    PROVE  HandlersInv'
<1> DEFINE lump == Lump(w)
<1>1. /\ UNCHANGED <<store, handler, environment, offset, opened, exited>>
      /\ worker[w].pc = "read" /\ handler = "curl"
      /\ \/ Fail(w, {"origin"})
         \/ Become(w, [worker[w] EXCEPT !.chunk = lump, !.pc = "send"])
      BY DEF GetBody, Step
<1>2. /\ worker[w] \in Request /\ worker[w].len \in Int /\ worker[w].done \in Nat
      /\ worker[w].chunk \in Nat
      /\ Progress(w) /\ (Moved(worker[w]) \/ InStep(w)) /\ index = "ready"
      /\ worker[w].request \in IF handler = "content" THEN Key ELSE Path
      /\ (worker[w].garbled => handler = "curl" /\ Moved(worker[w]) /\ worker[w].got > 0)
      /\ opened \in 0 .. MaxFds /\ exited \in BOOLEAN /\ offset \in [DOMAIN lines -> Nat]
      BY <1>1, Sending
<1>3. size[FileOf(w)] \in Nat
      BY <1>1, <1>2, TargetFile DEF Progress
<1>4. worker[w].done < worker[w].len
      BY <1>1, <1>2 DEF Progress
<1>5. CASE Fail(w, {"origin"})
  <2> DEFINE r == [worker[w] EXCEPT !.pc = "failed", !.mishap = @ \cup {"origin"}]
  <2>1. Become(w, r)
        BY <1>5 DEF Fail
  <2>2. /\ r \in Request /\ r.pc = "failed" /\ r.mishap = worker[w].mishap \cup {"origin"}
        /\ r.request = worker[w].request /\ r.garbled = worker[w].garbled
        /\ r.got = worker[w].got
        BY <1>2 DEF Request
  <2> HIDE DEF r
  <2>.  QED BY <1>1, <1>2, <2>1, <2>2, Failed
<1>6. CASE Become(w, [worker[w] EXCEPT !.chunk = lump, !.pc = "send"])
  <2>1. lump \in Nat
        BY <1>2, <1>3 DEF Lump
  <2>2. ASSUME InStep(w)
        PROVE  worker[w].len = size[FileOf(w)] /\ worker[w].done = 0 /\ lump = worker[w].len
    <3>1. worker[w].len = size[FileOf(w)]
          BY <1>2, <1>4, <2>2 DEF InStep, Unknown
    <3>2. worker[w].done = 0 /\ worker[w].chunk = 0
          BY <1>1, <1>2, <1>4, <2>2 DEF InStep
    <3>.  QED BY <1>3, <3>1, <3>2 DEF Lump
  <2> DEFINE r == [worker[w] EXCEPT !.chunk = lump, !.pc = "send"]
  <2>3. Become(w, r)
        BY <1>6
  <2> HIDE DEF lump
  <2>4. /\ r \in Request /\ r.pc = "send" /\ r.request = worker[w].request
        /\ r.fildes = worker[w].fildes /\ r.header = worker[w].header
        /\ r.len = worker[w].len /\ r.done = worker[w].done /\ r.chunk = lump
        /\ r.got = worker[w].got /\ r.garbled = worker[w].garbled
        /\ r.mishap = worker[w].mishap
        BY <1>2, <2>1 DEF Request
  <2> HIDE DEF r
  <2>5. ASSUME worker'[w] = r
        PROVE  RequestInv(w)'
    <3>1. Target(w)' = Target(w) /\ FileOf(w)' = FileOf(w)
          BY <1>1, <2>4, <2>5, SameFile
    <3>2. Progress(w)'
          BY <1>2, <1>4, <2>4, <2>5, <3>1 DEF Progress
    <3>3. Moved(r) = Moved(worker[w])
          BY <2>4 DEF Moved
    <3>4. ASSUME InStep(w) PROVE InStep(w)'
      <4>1. r.done = 0 /\ r.chunk = r.len /\ r.len = size[FileOf(w)]
            BY <2>2, <2>4, <3>4
      <4>.  QED BY <1>1, <1>3, <2>4, <2>5, <3>1, <4>1 DEF InStep, environment
    <3>.  QED BY <1>1, <1>2, <2>4, <2>5, <3>2, <3>3, <3>4 DEF RequestInv, store
  <2>.  QED BY <1>1, <1>2, <2>3, <2>4, <2>5, Assemble DEF environment
<1>. QED BY <1>1, <1>5, <1>6

\* A send: unless the file moved, what is sent comes behind what the client has.
LEMMA InvSend ==
    ASSUME StoreInv, HandlersInv, NEW w \in Workers, Send(w)
    PROVE  HandlersInv'
<1> DEFINE q        == worker[w]
           repeated == handler = "curl" /\ q.got > 0
           got      == IF repeated THEN q.got ELSE q.got + q.chunk
           garbled  == q.garbled \/ repeated
           done     == q.done + q.chunk
<1>1. /\ UNCHANGED <<store, handler, environment, offset, opened, exited>>
      /\ q.pc = "send"
      /\ Become(w, [q EXCEPT !.done = done, !.pc = "test", !.got = got,
                             !.garbled = garbled])
      BY DEF Send, Step
<1>2. /\ q \in Request /\ q.len \in Int /\ q.done \in Nat /\ q.chunk \in Nat /\ q.got \in Nat
      /\ Progress(w) /\ (Moved(q) \/ InStep(w)) /\ index = "ready"
      /\ q.request \in IF handler = "content" THEN Key ELSE Path
      /\ (q.garbled => handler = "curl" /\ Moved(q) /\ q.got > 0)
      /\ opened \in 0 .. MaxFds /\ exited \in BOOLEAN /\ offset \in [DOMAIN lines -> Nat]
      BY <1>1, Sending
<1>3. q.garbled \in BOOLEAN
      BY <1>2 DEF Request
<1>4. repeated => Moved(q)
      BY <1>1, <1>2 DEF InStep, Progress
<1>5. got \in Nat /\ done \in Nat /\ garbled \in BOOLEAN
      BY <1>2, <1>3
<1>6. garbled => handler = "curl" /\ Moved(q) /\ got > 0
      BY <1>2, <1>4
<1>7. got = done \/ garbled
      BY <1>2 DEF Progress
<1> HIDE DEF got, garbled
<1> DEFINE r == [q EXCEPT !.done = done, !.pc = "test", !.got = got, !.garbled = garbled]
<1>8. Become(w, r)
      BY <1>1
<1> HIDE DEF done
<1>9. /\ r \in Request /\ r.pc = "test" /\ r.request = q.request
      /\ r.fildes = q.fildes /\ r.header = q.header
      /\ r.len = q.len /\ r.done = done /\ r.chunk = q.chunk
      /\ r.got = got /\ r.garbled = garbled /\ r.mishap = q.mishap
      BY <1>2, <1>5 DEF Request
<1> HIDE DEF r
<1>10. ASSUME worker'[w] = r
      PROVE  RequestInv(w)'
  <2>1. Target(w)' = Target(w) /\ FileOf(w)' = FileOf(w)
        BY <1>1, <1>9, <1>10, SameFile
  <2>2. Progress(w)'
        BY <1>2, <1>7, <1>9, <1>10, <2>1 DEF Progress
  <2>3. Moved(r) = Moved(q)
        BY <1>9 DEF Moved
  <2>4. ASSUME InStep(w) PROVE InStep(w)'
    <3>1. q.done + q.chunk <= q.len
          BY <1>1, <2>4 DEF InStep
    <3>2. handler = "curl" => q.done + q.chunk = q.len
          BY <1>1, <1>2, <2>4 DEF InStep
    <3>3. q.len = size[FileOf(w)] \/ (q.len = Unknown /\ "origin" \in q.mishap)
          BY <2>4 DEF InStep
    <3>.  QED BY <1>1, <1>9, <1>10, <2>1, <3>1, <3>2, <3>3 DEF InStep, environment, done
  <2>.  QED BY <1>1, <1>2, <1>6, <1>9, <1>10, <2>2, <2>3, <2>4 DEF RequestInv, store
<1>. QED BY <1>1, <1>2, <1>8, <1>9, <1>10, Assemble DEF environment

\* A send to a client that has gone.
LEMMA InvSendShort ==
    ASSUME StoreInv, HandlersInv, NEW w \in Workers, SendShort(w)
    PROVE  HandlersInv'
<1> DEFINE r == [worker[w] EXCEPT !.pc = "failed", !.mishap = @ \cup {"client"}]
<1>1. /\ UNCHANGED <<store, handler, environment, offset, opened>>
      /\ worker[w].pc = "send" /\ Become(w, r) /\ exited' \in BOOLEAN
      BY DEF SendShort, Step, Fail
<1>2. worker[w] \in Request
      BY <1>1, Sending
<1>3. /\ r \in Request /\ r.pc = "failed" /\ r.mishap = worker[w].mishap \cup {"client"}
      /\ r.request = worker[w].request /\ r.garbled = worker[w].garbled
      /\ r.got = worker[w].got
      BY <1>2 DEF Request
<1> HIDE DEF r
<1>. QED BY <1>1, <1>3, Failed

\* The handler returns.
LEMMA InvReturn ==
    ASSUME StoreInv, HandlersInv, NEW w \in Workers, Return(w)
    PROVE  HandlersInv'
<1>1. /\ UNCHANGED <<store, handler, environment, offset, opened, exited>>
      /\ Become(w, NewRequest)
      BY DEF Return
<1>2. /\ NewRequest \in Request /\ NewRequest.pc = "idle" /\ ~NewRequest.garbled
      BY DEF NewRequest, Request
<1>3. opened \in 0 .. MaxFds /\ exited \in BOOLEAN /\ offset \in [DOMAIN lines -> Nat]
      BY DEF HandlersInv, TypeOK
<1>4. worker'[w] = NewRequest => RequestInv(w)'
      BY <1>2 DEF RequestInv
<1>. QED BY <1>1, <1>2, <1>3, <1>4, Assemble DEF environment

\* A file changes: the requests that mean it have moved.
LEMMA InvChange ==
    ASSUME StoreInv, HandlersInv, NEW p \in Files, Change(p)
    PROVE  HandlersInv'
<1>1. PICK n \in Sizes : size' = [size EXCEPT ![p] = n]
      BY DEF Change
<1>2. /\ changes < MaxChanges /\ changes' = changes + 1
      /\ UNCHANGED <<store, handler, offset, opened, exited>>
      BY DEF Change
<1>3. /\ TypeOK /\ worker \in [Workers -> Request] /\ size \in [Files -> Sizes]
      /\ \A v \in Workers : RequestInv(v)
      BY DEF HandlersInv, TypeOK
<1> DEFINE Means(v) == worker[v].pc # "idle" /\ p \in Named(worker[v].request)
           r(v) == [worker[v] EXCEPT !.mishap = @ \cup {"moved"}]
<1>4. worker' = [v \in Workers |-> IF Means(v) THEN r(v) ELSE worker[v]]
      BY DEF Change
<1>5. ASSUME NEW v \in Workers
      PROVE  /\ r(v) \in Request /\ r(v).pc = worker[v].pc
             /\ r(v).request = worker[v].request /\ r(v).fildes = worker[v].fildes
             /\ r(v).header = worker[v].header /\ r(v).len = worker[v].len
             /\ r(v).done = worker[v].done /\ r(v).chunk = worker[v].chunk
             /\ r(v).got = worker[v].got /\ r(v).garbled = worker[v].garbled
             /\ Moved(r(v)) /\ r(v).mishap # {}
      BY <1>3 DEF Request, Moved
<1> HIDE DEF r
<1>6. worker' \in [Workers -> Request]
      BY <1>3, <1>4, <1>5
<1>7. size' \in [Files -> Sizes] /\ size' \in [Files -> Nat]
  <2>1. size' \in [Files -> Sizes]
        BY <1>1, <1>3
  <2>.  QED BY <2>1, SizeAssumption
<1>8. TypeOK'
      BY <1>2, <1>3, <1>6, <1>7, HandlersBounds DEF TypeOK, store
<1>9. ASSUME NEW v \in Workers
      PROVE  RequestInv(v)'
  <2>1. RequestInv(v)
        BY <1>3
  <2>2. CASE Means(v)
    <3>1. worker'[v] = r(v)
          BY <1>4, <2>2
    <3>2. /\ Target(v)' = Target(v) /\ FileOf(v)' = FileOf(v)
          /\ \A q : Named(q)' = Named(q)
          BY <1>2, <1>5, <3>1, SameFile
    <3>3. Progress(v) => Progress(v)'
          BY <1>5, <3>1, <3>2 DEF Progress
    <3>4. Fresh(worker[v]) => Fresh(r(v))
          BY <1>5 DEF Fresh
    <3>.  QED BY <1>2, <1>5, <2>1, <2>2, <3>1, <3>2, <3>3, <3>4 DEF RequestInv, store
  <2>3. CASE ~Means(v) /\ worker[v].pc # "idle"
    <3>1. worker'[v] = worker[v] /\ p \notin Named(worker[v].request)
          BY <1>4, <2>3
    <3>2. /\ Target(v)' = Target(v) /\ FileOf(v)' = FileOf(v)
          /\ \A q : Named(q)' = Named(q)
          BY <1>2, <3>1, SameFile
    <3>3. Progress(v) => Progress(v)'
          BY <3>1, <3>2 DEF Progress
    <3>4. ASSUME Progress(v), InStep(v)
          PROVE  InStep(v)'
      <4>1. Target(v)
            BY <3>4 DEF Progress
      <4>2. FileOf(v) # p /\ FileOf(v) \in Files
            BY <2>3, <3>1, <4>1, TargetFile
      <4>3. size'[FileOf(v)] = size[FileOf(v)]
            BY <1>1, <1>3, <4>2
      <4>.  QED BY <1>2, <3>1, <3>2, <3>4, <4>3 DEF InStep
    <3>.  QED BY <1>2, <2>1, <3>1, <3>2, <3>3, <3>4 DEF RequestInv, store
  <2>4. CASE worker[v].pc = "idle"
    <3>1. worker'[v] = worker[v]
          BY <1>4, <2>4
    <3>.  QED BY <2>1, <2>4, <3>1, RequestFrame
  <2>.  QED BY <2>2, <2>3, <2>4
<1>. QED BY <1>7, <1>8, <1>9 DEF HandlersInv

\* The list is loaded before the first request.
LEMMA InvIndex ==
    ASSUME StoreInv, HandlersInv, Index
    PROVE  HandlersInv'
<1>1. /\ UNCHANGED <<handler, environment, offset, worker, opened, exited>>
      /\ lines' = lines /\ index # "ready"
      BY DEF Index, StoreNext, LoadLine, EndOfList, Sort
<1>2. ASSUME NEW v \in Workers
      PROVE  RequestInv(v)'
  <2>1. RequestInv(v) /\ worker[v].pc = "idle"
        BY <1>1 DEF HandlersInv, RequestInv
  <2>.  QED BY <1>1, <2>1, RequestFrame
<1>. QED BY <1>1, <1>2 DEF HandlersInv, TypeOK, environment

\* A step that changes nothing.
LEMMA InvStutter ==
    ASSUME HandlersInv, UNCHANGED vars
    PROVE  HandlersInv'
<1>1. UNCHANGED <<store, handler, size, changes, offset, worker, opened, exited>>
      BY DEF vars, environment
<1>2. \A v \in Workers : RequestInv(v) => RequestInv(v)'
      BY <1>1, RequestFrame
<1>. QED BY <1>1, <1>2 DEF HandlersInv, TypeOK, store

\* The requests keep their invariant.
LEMMA HandlersHold == Spec => []HandlersInv
<1>1. Init => HandlersInv
  <2> SUFFICES ASSUME Init PROVE HandlersInv
      OBVIOUS
  <2>1. NewRequest \in Request /\ NewRequest.pc = "idle" /\ ~NewRequest.garbled
        BY DEF NewRequest, Request
  <2>2. \A w \in Workers : worker[w] = NewRequest
        BY DEF Init
  <2>3. \A w \in Workers : RequestInv(w)
        BY <2>1, <2>2 DEF RequestInv
  <2>4. size \in [Files -> Sizes] /\ size \in [Files -> Nat]
        BY SizeAssumption DEF Init
  <2>5. worker \in [Workers -> Request]
        BY <2>1 DEF Init
  <2>6. TypeOK
    <3>1. handler \in {"content", "file", "curl"} /\ exited \in BOOLEAN
          BY DEF Init
    <3>2. offset \in [DOMAIN lines -> Nat]
          BY DEF Init
    <3>3. opened \in 0 .. MaxFds /\ changes \in 0 .. MaxChanges
          BY HandlersBounds DEF Init
    <3>.  QED BY <2>4, <2>5, <3>1, <3>2, <3>3 DEF TypeOK
  <2>.  QED BY <2>3, <2>4, <2>6 DEF HandlersInv
<1>2. StoreInv /\ HandlersInv /\ [Next]_vars => HandlersInv'
  <2> SUFFICES ASSUME StoreInv, HandlersInv, [Next]_vars PROVE HandlersInv'
      OBVIOUS
  <2>1. CASE Index
        BY <2>1, InvIndex
  <2>2. ASSUME NEW w \in Workers, Ask(w) \/ Serve(w)
        PROVE  HandlersInv'
        BY <2>2, InvAsk, InvLookup, InvOpen, InvAnnounce, InvHead, InvTest, InvRead,
           InvGetBody, InvSend, InvSendShort, InvReturn DEF Serve
  <2>3. ASSUME NEW p \in Files, Change(p)
        PROVE  HandlersInv'
        BY <2>3, InvChange
  <2>4. CASE UNCHANGED vars
        BY <2>4, InvStutter
  <2>.  QED BY <2>1, <2>2, <2>3, <2>4 DEF Next
<1>. QED BY <1>1, <1>2, StoreHolds, PTL DEF Spec

\* What the invariant of a request says when the handler has ended.
LEMMA AnsweredFromInv == StoreInv /\ HandlersInv => AnsweredUnlessMishap
<1> SUFFICES ASSUME StoreInv, HandlersInv PROVE AnsweredUnlessMishap
    OBVIOUS
<1>1. ASSUME NEW w \in Workers, worker[w].pc = "return", worker[w].mishap = {},
             Progress(w), InStep(w)
      PROVE  /\ Named(worker[w].request) # {} /\ worker[w].header = "ok"
             /\ worker[w].got = worker[w].len
             /\ \E p \in Named(worker[w].request) : worker[w].len = size[p]
  <2>1. FileOf(w) \in Named(worker[w].request)
        BY <1>1, TargetFile DEF Progress
  <2>2. worker[w].len = size[FileOf(w)] /\ worker[w].done <= worker[w].len
        BY <1>1 DEF InStep
  <2>3. ~worker[w].garbled
        BY <1>1 DEF HandlersInv, RequestInv, Moved
  <2>4. worker[w].got = worker[w].done /\ worker[w].done >= worker[w].len
        /\ worker[w].header = "ok"
        BY <1>1, <2>3 DEF Progress
  <2>5. worker[w].len \in Int /\ worker[w].done \in Int
        BY RequestFields
  <2>.  QED BY <2>1, <2>2, <2>4, <2>5
<1>2. ASSUME NEW w \in Workers, worker[w].pc = "return", worker[w].mishap = {}
      PROVE  IF Named(worker[w].request) = {} THEN worker[w].header = "not_found"
             ELSE /\ worker[w].header = "ok" /\ worker[w].got = worker[w].len
                  /\ \E p \in Named(worker[w].request) : worker[w].len = size[p]
  <2>1. \/ worker[w].header = "not_found" /\ Named(worker[w].request) = {}
        \/ Progress(w) /\ InStep(w)
        BY <1>2 DEF HandlersInv, RequestInv, Moved
  <2>.  QED BY <1>1, <1>2, <2>1
<1>3. ASSUME NEW w \in Workers
      PROVE  /\ worker[w].pc = "failed" /\ worker[w].mishap = {} =>
                  handler = "file" /\ opened = MaxFds /\ worker[w].header = "none"
             /\ worker[w].garbled => handler = "curl" /\ "moved" \in worker[w].mishap
      BY DEF HandlersInv, RequestInv, Moved
<1>. QED BY <1>2, <1>3 DEF AnsweredUnlessMishap, HandlersInv

\* A handler answers with the whole file, or with FILE_NOT_FOUND when there is
\* none, unless something happened that it cannot help; only handle_with_file may
\* run out of descriptors, and only handle_with_curl repeats itself.
THEOREM HandlersAnswer == Spec => []AnsweredUnlessMishap
BY StoreHolds, HandlersHold, AnsweredFromInv, PTL

-----------------------------------------------------------------------------
(***************************************************************************)
(* The handlers implement FileService.                                     *)
(***************************************************************************)

\* What the service sees of all requests.
phases     == [v \in Workers |-> Phase(v)]
subjects   == [v \in Workers |-> Subject(v)]
headers    == [v \in Workers |-> worker[v].header]
lengths    == [v \in Workers |-> worker[v].len]
deliveries == [v \in Workers |-> Delivered(v)]

\* A step of worker w changes what is seen of w only.
LEMMA Seen ==
    ASSUME worker \in [Workers -> Request], NEW w \in Workers, NEW r, Become(w, r),
           UNCHANGED <<store, handler>>
    PROVE  /\ worker'[w] = r
           /\ phases'     = [phases EXCEPT ![w] = Phase(w)']
           /\ subjects'   = [subjects EXCEPT ![w] = Subject(w)']
           /\ headers'    = [headers EXCEPT ![w] = r.header]
           /\ lengths'    = [lengths EXCEPT ![w] = r.len]
           /\ deliveries' = [deliveries EXCEPT ![w] = Delivered(w)']
<1>1. worker'[w] = r /\ \A v \in Workers \ {w} : worker'[v] = worker[v]
      BY DEF Become
<1>2. \A q : Named(q)' = Named(q)
      BY DEF Named, Lists, Opened, store
<1>3. ASSUME NEW v \in Workers \ {w}
      PROVE  Phase(v)' = Phase(v) /\ Subject(v)' = Subject(v) /\ Delivered(v)' = Delivered(v)
      BY <1>1, <1>2 DEF Phase, Subject, Delivered
<1>. QED BY <1>1, <1>3 DEF phases, subjects, headers, lengths, deliveries

\* The phase of a request.
LEMMA PhaseIs ==
    ASSUME HandlersInv, NEW w \in Workers
    PROVE  LET r == worker[w] IN
           /\ r.pc = "idle" => Phase(w) = "idle"
           /\ r.pc = "failed" => Phase(w) = "broken"
           /\ r.pc # "idle" /\ r.garbled => Phase(w) = "broken"
           /\ r.pc \in {"lookup", "announce"} => Phase(w) = "asked"
           /\ r.pc \in {"read", "send"} /\ ~r.garbled => Phase(w) = "streaming"
           /\ r.pc = "return" /\ ~r.garbled => Phase(w) = "answered"
           /\ r.pc = "test" /\ ~r.garbled =>
                Phase(w) = IF r.len <= 0 THEN "answered" ELSE "streaming"
<1>1. /\ RequestInv(w) /\ worker[w] \in Request /\ worker[w].len \in Int
      /\ worker[w].done \in Nat
      BY RequestFields DEF HandlersInv
<1>2. worker[w].pc \in {"lookup", "announce"} => ~worker[w].garbled
      BY <1>1 DEF RequestInv, Fresh
<1>3. worker[w].pc \in {"read", "send"} => ~(worker[w].len <= 0)
  <2>1. worker[w].pc \in {"read", "send"} => worker[w].done < worker[w].len
        BY <1>1 DEF RequestInv, Progress
  <2>.  QED BY <1>1, <2>1
<1>. QED BY <1>2, <1>3 DEF Phase

\* What the client has of the file.
LEMMA DeliveredIs ==
    ASSUME HandlersInv, NEW w \in Workers
    PROVE  Delivered(w) = IF worker[w].len <= 0 THEN 0
                          ELSE IF worker[w].got <= worker[w].len THEN worker[w].got
                          ELSE worker[w].len
BY RequestFields, MinOfTwo DEF Delivered

\* What a request names are paths.
LEMMA NamedPaths ==
    ASSUME StoreInv, index = "ready", NEW q
    PROVE  Named(q) \in SUBSET Path
BY FilesAssumption DEF Named, Lists, StoreInv, Indexed

\* A request stands for itself and the files that it names.
LEMMA SubjectIs ==
    ASSUME StoreInv, HandlersInv, NEW w \in Workers, worker[w].pc # "idle"
    PROVE  /\ Subject(w) \in Asked /\ Subject(w)[2] = Named(worker[w].request)
           /\ Subject(w) = <<worker[w].request, Named(worker[w].request)>>
<1>1. worker[w].request \in Requests /\ index = "ready"
      BY DEF HandlersInv, RequestInv, Requests
<1>2. Named(worker[w].request) \in SUBSET Path
      BY <1>1, NamedPaths
<1>. QED BY <1>1, <1>2 DEF Subject, Asked

\* A step after which the client has as much as before, and the request is the
\* same: the service sees at most a new phase.
LEMMA NewPhase ==
    ASSUME StoreInv, HandlersInv, NEW w \in Workers, NEW r, Become(w, r),
           UNCHANGED <<store, handler>>, worker[w].pc # "idle", r.pc # "idle",
           r.request = worker[w].request, r.header = worker[w].header,
           r.len = worker[w].len, r.len <= 0 \/ r.got = worker[w].got
    PROVE  /\ worker'[w] = r
           /\ phases' = [phases EXCEPT ![w] = Phase(w)']
           /\ UNCHANGED <<subjects, headers, lengths, deliveries>>
<1>1. worker \in [Workers -> Request]
      BY DEF HandlersInv, TypeOK
<1>2. /\ worker'[w] = r
      /\ phases' = [phases EXCEPT ![w] = Phase(w)']
      /\ subjects' = [subjects EXCEPT ![w] = Subject(w)']
      /\ headers' = [headers EXCEPT ![w] = r.header]
      /\ lengths' = [lengths EXCEPT ![w] = r.len]
      /\ deliveries' = [deliveries EXCEPT ![w] = Delivered(w)']
      BY <1>1, Seen
<1>3. Subject(w)' = Subject(w)
  <2>1. \A q : Named(q)' = Named(q)
        BY DEF Named, Lists, Opened, store
  <2>.  QED BY <1>2, <2>1 DEF Subject
<1>4. Delivered(w)' = Delivered(w)
      BY <1>2 DEF Delivered
<1>. QED BY <1>2, <1>3, <1>4 DEF subjects, headers, lengths, deliveries

\* The service sees nothing of a step that leaves the phase as it is, and a request
\* broken off in one that ends it.
LEMMA Unseen ==
    ASSUME NEW w \in Workers, phases' = [phases EXCEPT ![w] = Phase(w)'],
           UNCHANGED <<subjects, headers, lengths, deliveries>>, Phase(w)' = Phase(w)
    PROVE  UNCHANGED Service!vars
BY DEF Service!vars, phases, subjects, headers, lengths, deliveries

LEMMA BreaksOff ==
    ASSUME NEW w \in Workers, phases' = [phases EXCEPT ![w] = Phase(w)'],
           UNCHANGED <<subjects, headers, lengths, deliveries>>,
           Phase(w) \in {"asked", "streaming"}, Phase(w)' = "broken"
    PROVE  Service!BreakOff(w)
BY DEF Service!BreakOff, phases, subjects, headers, lengths, deliveries

\* A request is taken.
LEMMA AskAsks ==
    ASSUME StoreInv, HandlersInv, HandlersInv', NEW w \in Workers, Ask(w)
    PROVE  \E p \in Asked : Service!Ask(w, p)
<1>1. PICK q \in IF handler = "content" THEN Key ELSE Path :
        Become(w, [NewRequest EXCEPT !.pc = "lookup", !.request = q])
      BY DEF Ask
<1> DEFINE r == [NewRequest EXCEPT !.pc = "lookup", !.request = q]
<1>2. r.pc = "lookup" /\ r.request = q /\ r.header = "none" /\ r.len = 0
      BY DEF NewRequest
<1>3. Become(w, r)
      BY <1>1
<1> HIDE DEF r
<1>4. /\ UNCHANGED <<store, handler>> /\ worker[w].pc = "idle"
      /\ worker \in [Workers -> Request]
      BY DEF Ask, Step, HandlersInv, TypeOK
<1>5. worker[w] = NewRequest
      BY <1>4 DEF HandlersInv, RequestInv
<1>6. worker[w].header = "none" /\ worker[w].len = 0
      BY <1>5 DEF NewRequest
<1>7. /\ worker'[w] = r
      /\ phases' = [phases EXCEPT ![w] = Phase(w)']
      /\ subjects' = [subjects EXCEPT ![w] = Subject(w)']
      /\ headers' = [headers EXCEPT ![w] = r.header]
      /\ lengths' = [lengths EXCEPT ![w] = r.len]
      /\ deliveries' = [deliveries EXCEPT ![w] = Delivered(w)']
      BY <1>3, <1>4, Seen
<1>8. Phase(w) = "idle"
      BY <1>4 DEF Phase
<1>9. Phase(w)' = "asked"
  <2>1. RequestInv(w)'
        BY DEF HandlersInv
  <2>2. ~worker'[w].garbled
        BY <1>2, <1>7, <2>1 DEF RequestInv, Fresh
  <2>.  QED BY <1>2, <1>7, <2>2 DEF Phase
<1>10. Subject(w)' \in Asked
  <2>1. Named(q) \in SUBSET Path /\ \A p : Named(p)' = Named(p)
        BY <1>4, NamedPaths DEF Ask, Named, Lists, Opened, store
  <2>2. Subject(w)' = <<q, Named(q)>>
        BY <1>2, <1>7, <2>1 DEF Subject
  <2>.  QED BY <1>1, <2>1, <2>2 DEF Asked, Requests
<1>11. UNCHANGED <<headers, lengths, deliveries>>
  <2>1. Delivered(w) = 0 /\ Delivered(w)' = 0
        BY <1>2, <1>6, <1>7 DEF Delivered
  <2>2. /\ headers[w] = r.header /\ lengths[w] = r.len
        /\ deliveries[w] = Delivered(w)'
        BY <1>2, <1>6, <2>1 DEF headers, lengths, deliveries
  <2>.  QED BY <1>7, <2>2 DEF headers, lengths, deliveries
<1>12. Service!Ask(w, Subject(w)')
      BY <1>7, <1>8, <1>9, <1>11 DEF Service!Ask, phases, subjects, headers, lengths, deliveries
<1>. QED BY <1>10, <1>12

\* The header that says that there is no file.
LEMMA AnswersNotFound ==
    ASSUME StoreInv, HandlersInv, NEW w \in Workers, worker[w].pc = "lookup",
           Named(worker[w].request) = {}, Answer(w, "not_found", 0, "return"),
           UNCHANGED <<store, handler>>
    PROVE  Service!NotFound(w)
<1> DEFINE r == [worker[w] EXCEPT !.header = "not_found", !.len = 0, !.pc = "return"]
<1>1. /\ Become(w, r) /\ worker \in [Workers -> Request] /\ worker[w] \in Request
      /\ Fresh(worker[w])
      BY DEF Answer, HandlersInv, TypeOK, RequestInv
<1>2. /\ r.pc = "return" /\ r.header = "not_found" /\ r.len = 0 /\ ~r.garbled
      /\ r.request = worker[w].request
      BY <1>1 DEF Request, Fresh
<1> HIDE DEF r
<1>3. /\ worker'[w] = r
      /\ phases' = [phases EXCEPT ![w] = Phase(w)']
      /\ subjects' = [subjects EXCEPT ![w] = Subject(w)']
      /\ headers' = [headers EXCEPT ![w] = r.header]
      /\ lengths' = [lengths EXCEPT ![w] = r.len]
      /\ deliveries' = [deliveries EXCEPT ![w] = Delivered(w)']
      BY <1>1, Seen
<1>4. Phase(w) = "asked" /\ Phase(w)' = "answered"
      BY <1>2, <1>3, PhaseIs DEF Phase
<1>5. Subject(w)' = Subject(w)
  <2>1. \A q : Named(q)' = Named(q)
        BY DEF Named, Lists, Opened, store
  <2>.  QED BY <1>2, <1>3, <2>1 DEF Subject
<1>6. Delivered(w) = 0 /\ Delivered(w)' = 0 /\ worker[w].len = 0
      BY <1>1, <1>2, <1>3 DEF Delivered, Fresh
<1>7. UNCHANGED <<subjects, lengths, deliveries>>
  <2>1. /\ subjects[w] = Subject(w)' /\ lengths[w] = r.len
        /\ deliveries[w] = Delivered(w)'
        BY <1>2, <1>5, <1>6 DEF subjects, lengths, deliveries
  <2>.  QED BY <1>3, <2>1 DEF subjects, lengths, deliveries
<1>8. Subject(w)[2] = {}
      BY SubjectIs
<1>. QED BY <1>2, <1>3, <1>4, <1>7, <1>8
         DEF Service!NotFound, phases, subjects, headers, lengths, deliveries

\* The header with a length.
LEMMA AnswersFound ==
    ASSUME StoreInv, HandlersInv, NEW w \in Workers,
           worker[w].pc \in {"lookup", "announce"}, Target(w),
           NEW r, Become(w, r), r.pc = "test", r.request = worker[w].request,
           r.header = "ok", r.got = 0, ~r.garbled, r.len \in Sizes \cup {Unknown},
           UNCHANGED <<store, handler>>
    PROVE  Service!Found(w)
<1>1. /\ worker \in [Workers -> Request] /\ worker[w] \in Request
      /\ Fresh(worker[w]) /\ r.len \in Int
  <2>1. r.len \in Int
    <3>1. \A n \in Sizes : n \in Nat
          BY SizeAssumption
    <3>2. r.len \in Nat \/ r.len = -1
          BY <3>1 DEF Unknown
    <3>.  QED BY <3>2
  <2>.  QED BY <2>1 DEF HandlersInv, TypeOK, RequestInv
<1>2. /\ worker'[w] = r
      /\ phases' = [phases EXCEPT ![w] = Phase(w)']
      /\ subjects' = [subjects EXCEPT ![w] = Subject(w)']
      /\ headers' = [headers EXCEPT ![w] = r.header]
      /\ lengths' = [lengths EXCEPT ![w] = r.len]
      /\ deliveries' = [deliveries EXCEPT ![w] = Delivered(w)']
      BY <1>1, Seen
<1>3. Phase(w) = "asked"
      BY PhaseIs
<1>4. Phase(w)' = IF 0 < r.len THEN "streaming" ELSE "answered"
      BY <1>1, <1>2 DEF Phase
<1>5. Subject(w)' = Subject(w)
  <2>1. \A q : Named(q)' = Named(q)
        BY DEF Named, Lists, Opened, store
  <2>.  QED BY <1>2, <2>1 DEF Subject
<1>6. Delivered(w) = 0
      BY <1>1 DEF Delivered, Fresh
<1>7. Delivered(w)' = 0
      BY <1>1, <1>2, MinOfTwo DEF Delivered
<1>8. UNCHANGED <<subjects, deliveries>>
  <2>1. subjects[w] = Subject(w)' /\ deliveries[w] = Delivered(w)'
        BY <1>5, <1>6, <1>7 DEF subjects, deliveries
  <2>.  QED BY <1>2, <2>1 DEF subjects, deliveries
<1>9. Subject(w) \in {a \in Asked : a[2] # {}}
  <2>1. Named(worker[w].request) # {}
        BY TargetFile
  <2>.  QED BY <2>1, SubjectIs
<1>10. lengths'[w] = r.len
      BY <1>2 DEF lengths
<1>. QED BY <1>2, <1>3, <1>4, <1>8, <1>9, <1>10
         DEF Service!Found, phases, subjects, headers, lengths, deliveries

\* The search of the list: it finds a file, or the client is told that there is
\* none.
LEMMA LookupStep ==
    ASSUME StoreInv, HandlersInv, NEW w \in Workers, Lookup(w)
    PROVE  Service!NotFound(w) \/ UNCHANGED Service!vars
<1>1. /\ UNCHANGED <<store, handler>> /\ handler = "content" /\ worker[w].pc = "lookup"
      BY DEF Lookup, Step
<1>2. /\ worker[w] \in Request /\ Fresh(worker[w]) /\ index = "ready"
      /\ worker[w].request \in Key
      BY <1>1 DEF HandlersInv, TypeOK, RequestInv
<1>3. CASE Get(worker[w].request) = -1
  <2>1. Get(worker[w].request) \notin Lists(worker[w].request)
        BY <1>3, ListFileIs DEF Lists, StoreInv
  <2>2. Lists(worker[w].request) = {}
        BY <1>2, <2>1, GetLists
  <2>3. Named(worker[w].request) = {}
        BY <1>1, <2>2 DEF Named
  <2>4. Answer(w, "not_found", 0, "return")
        BY <1>3 DEF Lookup
  <2>.  QED BY <1>1, <2>3, <2>4, AnswersNotFound
<1>4. CASE Get(worker[w].request) # -1
  <2> DEFINE f == Get(worker[w].request)
             r == [worker[w] EXCEPT !.fildes = f, !.pc = "announce"]
  <2>1. Become(w, r)
        BY <1>4 DEF Lookup
  <2> HIDE DEF f
  <2>2. /\ r.pc = "announce" /\ r.request = worker[w].request /\ ~r.garbled
        /\ r.header = worker[w].header /\ r.len = worker[w].len /\ r.got = worker[w].got
        BY <1>2 DEF Request, Fresh
  <2> HIDE DEF r
  <2>3. /\ worker'[w] = r /\ phases' = [phases EXCEPT ![w] = Phase(w)']
        /\ UNCHANGED <<subjects, headers, lengths, deliveries>>
        BY <1>1, <2>1, <2>2, NewPhase
  <2>4. Phase(w) = "asked" /\ Phase(w)' = "asked"
        BY <1>1, <2>2, <2>3, PhaseIs DEF Phase
  <2>.  QED BY <2>3, <2>4, Unseen
<1>. QED BY <1>3, <1>4

\* The file is opened, is not there, or there is no descriptor.
LEMMA OpenStep ==
    ASSUME StoreInv, HandlersInv, NEW w \in Workers, Open(w)
    PROVE  Service!NotFound(w) \/ Service!BreakOff(w) \/ UNCHANGED Service!vars
<1>1. /\ UNCHANGED <<store, handler>> /\ handler = "file" /\ worker[w].pc = "lookup"
      BY DEF Open, Step
<1>2. worker[w] \in Request /\ Fresh(worker[w])
      BY <1>1 DEF HandlersInv, TypeOK, RequestInv
<1>3. CASE Fail(w, {})
  <2> DEFINE r == [worker[w] EXCEPT !.pc = "failed", !.mishap = @ \cup {}]
  <2>1. Become(w, r)
        BY <1>3 DEF Fail
  <2>2. /\ r.pc = "failed" /\ r.request = worker[w].request
        /\ r.header = worker[w].header /\ r.len = worker[w].len /\ r.got = worker[w].got
        BY <1>2 DEF Request
  <2> HIDE DEF r
  <2>3. /\ worker'[w] = r /\ phases' = [phases EXCEPT ![w] = Phase(w)']
        /\ UNCHANGED <<subjects, headers, lengths, deliveries>>
        BY <1>1, <2>1, <2>2, NewPhase
  <2>4. Phase(w) = "asked" /\ Phase(w)' = "broken"
        BY <1>1, <2>2, <2>3, PhaseIs DEF Phase
  <2>.  QED BY <2>3, <2>4, BreaksOff
<1>4. CASE worker[w].request \notin Files /\ Answer(w, "not_found", 0, "return")
  <2>1. Named(worker[w].request) = {}
        BY <1>1, <1>4 DEF Named
  <2>.  QED BY <1>1, <1>4, <2>1, AnswersNotFound
<1>5. CASE Goto(w, "announce")
  <2> DEFINE r == [worker[w] EXCEPT !.pc = "announce"]
  <2>1. Become(w, r)
        BY <1>5 DEF Goto
  <2>2. /\ r.pc = "announce" /\ r.request = worker[w].request /\ ~r.garbled
        /\ r.header = worker[w].header /\ r.len = worker[w].len /\ r.got = worker[w].got
        BY <1>2 DEF Request, Fresh
  <2> HIDE DEF r
  <2>3. /\ worker'[w] = r /\ phases' = [phases EXCEPT ![w] = Phase(w)']
        /\ UNCHANGED <<subjects, headers, lengths, deliveries>>
        BY <1>1, <2>1, <2>2, NewPhase
  <2>4. Phase(w) = "asked" /\ Phase(w)' = "asked"
        BY <1>1, <2>2, <2>3, PhaseIs DEF Phase
  <2>.  QED BY <2>3, <2>4, Unseen
<1>. QED BY <1>3, <1>4, <1>5 DEF Open

\* The length of the file is announced.
LEMMA AnnounceStep ==
    ASSUME StoreInv, HandlersInv, NEW w \in Workers, Announce(w)
    PROVE  Service!Found(w)
<1> DEFINE len == size[FileOf(w)]
           r   == [worker[w] EXCEPT !.header = "ok", !.len = len, !.pc = "test"]
<1>1. /\ UNCHANGED <<store, handler>> /\ worker[w].pc = "announce" /\ Become(w, r)
      BY DEF Announce, Step, Answer
<1>2. /\ worker[w] \in Request /\ Fresh(worker[w]) /\ Target(w)
      BY <1>1 DEF HandlersInv, TypeOK, RequestInv
<1>3. len \in Sizes
      BY <1>1, <1>2, TargetFile
<1> HIDE DEF len
<1>4. /\ r.pc = "test" /\ r.request = worker[w].request
      /\ r.header = "ok" /\ r.len = len /\ r.got = 0 /\ ~r.garbled
      BY <1>2 DEF Request, Fresh
<1> HIDE DEF r
<1>. QED BY <1>1, <1>2, <1>3, <1>4, AnswersFound

\* The answer of the origin is passed on, if it comes.
LEMMA HeadStep ==
    ASSUME StoreInv, HandlersInv, NEW w \in Workers, Head_(w)
    PROVE  Service!NotFound(w) \/ Service!Found(w) \/ Service!BreakOff(w)
<1>1. /\ UNCHANGED <<store, handler>> /\ handler = "curl" /\ worker[w].pc = "lookup"
      BY DEF Head_, Step
<1>2. worker[w] \in Request /\ Fresh(worker[w])
      BY <1>1 DEF HandlersInv, TypeOK, RequestInv
<1>3. CASE Fail(w, {"origin"})
  <2> DEFINE r == [worker[w] EXCEPT !.pc = "failed", !.mishap = @ \cup {"origin"}]
  <2>1. Become(w, r)
        BY <1>3 DEF Fail
  <2>2. /\ r.pc = "failed" /\ r.request = worker[w].request
        /\ r.header = worker[w].header /\ r.len = worker[w].len /\ r.got = worker[w].got
        BY <1>2 DEF Request
  <2> HIDE DEF r
  <2>3. /\ worker'[w] = r /\ phases' = [phases EXCEPT ![w] = Phase(w)']
        /\ UNCHANGED <<subjects, headers, lengths, deliveries>>
        BY <1>1, <2>1, <2>2, NewPhase
  <2>4. Phase(w) = "asked" /\ Phase(w)' = "broken"
        BY <1>1, <2>2, <2>3, PhaseIs DEF Phase
  <2>.  QED BY <2>3, <2>4, BreaksOff
<1>4. CASE worker[w].request \notin Files /\ Answer(w, "not_found", 0, "return")
  <2>1. Named(worker[w].request) = {}
        BY <1>1, <1>4 DEF Named
  <2>.  QED BY <1>1, <1>4, <2>1, AnswersNotFound
<1>5. CASE worker[w].request \in Files /\ Answer(w, "ok", size[worker[w].request], "test")
  <2> DEFINE len == size[worker[w].request]
             r   == [worker[w] EXCEPT !.header = "ok", !.len = len, !.pc = "test"]
  <2>1. Become(w, r)
        BY <1>5 DEF Answer
  <2>2. len \in Sizes /\ Target(w)
        BY <1>1, <1>5 DEF HandlersInv, Target
  <2> HIDE DEF len
  <2>3. /\ r.pc = "test" /\ r.request = worker[w].request
        /\ r.header = "ok" /\ r.len = len /\ r.got = 0 /\ ~r.garbled
        BY <1>2 DEF Request, Fresh
  <2> HIDE DEF r
  <2>.  QED BY <1>1, <2>1, <2>2, <2>3, AnswersFound
<1>6. CASE /\ worker[w].request \in Files
           /\ Become(w, [worker[w] EXCEPT !.header = "ok", !.len = Unknown,
                           !.pc = "test", !.mishap = @ \cup {"origin"}])
  <2> DEFINE r == [worker[w] EXCEPT !.header = "ok", !.len = Unknown,
                           !.pc = "test", !.mishap = @ \cup {"origin"}]
  <2>1. Become(w, r)
        BY <1>6
  <2>2. Target(w)
        BY <1>1, <1>6 DEF Target
  <2>3. /\ r.pc = "test" /\ r.request = worker[w].request
        /\ r.header = "ok" /\ r.len = Unknown /\ r.got = 0 /\ ~r.garbled
        BY <1>2 DEF Request, Fresh
  <2> HIDE DEF r
  <2>.  QED BY <1>1, <2>1, <2>2, <2>3, AnswersFound
<1>. QED BY <1>3, <1>4, <1>5, <1>6 DEF Head_

\* The test of the loop: the file is complete, or the service sees nothing.
LEMMA TestStep ==
    ASSUME StoreInv, HandlersInv, NEW w \in Workers, TestDone(w)
    PROVE  Service!Complete(w) \/ UNCHANGED Service!vars
<1> DEFINE q  == worker[w]
           to == IF q.done < q.len THEN "read" ELSE "return"
           r  == [q EXCEPT !.pc = to]
<1>1. /\ UNCHANGED <<store, handler>> /\ q.pc = "test" /\ Become(w, r)
      BY DEF TestDone, Step, Goto
<1>2. /\ q \in Request /\ q.len \in Int /\ q.done \in Nat /\ q.got \in Nat /\ Progress(w)
      /\ q.garbled \in BOOLEAN
      BY <1>1, Sending DEF Request
<1>3. \/ to = "read" /\ q.done < q.len
      \/ to = "return" /\ q.done >= q.len
      BY <1>2
<1> HIDE DEF to
<1>4. /\ r.pc = to /\ r.request = q.request /\ r.garbled = q.garbled
      /\ r.header = q.header /\ r.len = q.len /\ r.got = q.got
      BY <1>2 DEF Request
<1> HIDE DEF r
<1>5. /\ worker'[w] = r /\ phases' = [phases EXCEPT ![w] = Phase(w)']
      /\ UNCHANGED <<subjects, headers, lengths, deliveries>>
      BY <1>1, <1>3, <1>4, NewPhase
<1>6. CASE q.garbled
  <2>1. Phase(w) = "broken" /\ Phase(w)' = "broken"
        BY <1>1, <1>3, <1>4, <1>5, <1>6, PhaseIs DEF Phase
  <2>.  QED BY <1>5, <2>1, Unseen
<1>7. CASE ~q.garbled /\ to = "read"
  <2>1. ~(q.len <= 0)
        BY <1>2, <1>3, <1>7
  <2>2. Phase(w) = "streaming" /\ Phase(w)' = "streaming"
        BY <1>1, <1>4, <1>5, <1>7, <2>1, PhaseIs DEF Phase
  <2>.  QED BY <1>5, <2>2, Unseen
<1>8. CASE ~q.garbled /\ to = "return"
  <2>1. Phase(w)' = "answered"
        BY <1>4, <1>5, <1>8 DEF Phase
  <2>2. CASE q.len <= 0
    <3>1. Phase(w) = "answered"
          BY <1>1, <1>8, <2>2, PhaseIs
    <3>.  QED BY <1>5, <2>1, <3>1, Unseen
  <2>3. CASE ~(q.len <= 0)
    <3>1. Phase(w) = "streaming"
          BY <1>1, <1>8, <2>3, PhaseIs
    <3>2. q.got = q.done /\ q.done >= q.len
          BY <1>2, <1>3, <1>8 DEF Progress
    <3>3. Delivered(w) = q.len
          BY <1>2, <2>3, <3>2, DeliveredIs
    <3>.  QED BY <1>5, <2>1, <3>1, <3>3
              DEF Service!Complete, phases, subjects, headers, lengths, deliveries
  <2>.  QED BY <2>2, <2>3
<1>. QED BY <1>3, <1>6, <1>7, <1>8, <1>2

\* A step of the loop that fails breaks the request off, if it is not broken
\* already.
LEMMA FailStep ==
    ASSUME StoreInv, HandlersInv, NEW w \in Workers, worker[w].pc \in {"read", "send"},
           NEW r, Become(w, r), UNCHANGED <<store, handler>>, r.pc = "failed",
           r.request = worker[w].request, r.header = worker[w].header,
           r.len = worker[w].len, r.got = worker[w].got
    PROVE  Service!BreakOff(w) \/ UNCHANGED Service!vars
<1>1. /\ worker'[w] = r /\ phases' = [phases EXCEPT ![w] = Phase(w)']
      /\ UNCHANGED <<subjects, headers, lengths, deliveries>>
      BY NewPhase
<1>2. Phase(w)' = "broken" /\ Phase(w) \in {"broken", "streaming"}
      BY <1>1, PhaseIs DEF Phase
<1>3. CASE Phase(w) = "broken"
      BY <1>1, <1>2, <1>3, Unseen
<1>4. CASE Phase(w) = "streaming"
      BY <1>1, <1>2, <1>4, BreaksOff
<1>. QED BY <1>2, <1>3, <1>4

\* What is read is not seen before it is sent.
LEMMA ReadStep ==
    ASSUME StoreInv, HandlersInv, NEW w \in Workers, Read(w) \/ GetBody(w)
    PROVE  Service!BreakOff(w) \/ UNCHANGED Service!vars
<1> DEFINE q == worker[w]
<1>1. /\ UNCHANGED <<store, handler>> /\ q.pc = "read"
      BY DEF Read, GetBody, Step
<1>2. /\ q \in Request /\ q.len \in Int /\ q.done \in Nat /\ Progress(w)
      BY <1>1, Sending
<1>3. CASE Goto(w, "failed")
  <2> DEFINE r == [q EXCEPT !.pc = "failed"]
  <2>1. Become(w, r)
        BY <1>3 DEF Goto
  <2>2. /\ r.pc = "failed" /\ r.request = q.request
        /\ r.header = q.header /\ r.len = q.len /\ r.got = q.got
        BY <1>2 DEF Request
  <2> HIDE DEF r
  <2>.  QED BY <1>1, <2>1, <2>2, FailStep
<1>4. CASE Fail(w, {"origin"})
  <2> DEFINE r == [q EXCEPT !.pc = "failed", !.mishap = @ \cup {"origin"}]
  <2>1. Become(w, r)
        BY <1>4 DEF Fail
  <2>2. /\ r.pc = "failed" /\ r.request = q.request
        /\ r.header = q.header /\ r.len = q.len /\ r.got = q.got
        BY <1>2 DEF Request
  <2> HIDE DEF r
  <2>.  QED BY <1>1, <2>1, <2>2, FailStep
<1>5. ASSUME NEW chunk, Become(w, [q EXCEPT !.chunk = chunk, !.pc = "send"])
      PROVE  UNCHANGED Service!vars
  <2> DEFINE r == [q EXCEPT !.chunk = chunk, !.pc = "send"]
  <2>1. Become(w, r)
        BY <1>5
  <2>2. /\ r.pc = "send" /\ r.request = q.request /\ r.garbled = q.garbled
        /\ r.header = q.header /\ r.len = q.len /\ r.got = q.got
        BY <1>2 DEF Request
  <2> HIDE DEF r
  <2>3. /\ worker'[w] = r /\ phases' = [phases EXCEPT ![w] = Phase(w)']
        /\ UNCHANGED <<subjects, headers, lengths, deliveries>>
        BY <1>1, <2>1, <2>2, NewPhase
  <2>4. ~(q.len <= 0)
        BY <1>1, <1>2 DEF Progress
  <2>5. Phase(w)' = Phase(w)
        BY <1>1, <2>2, <2>3, <2>4 DEF Phase
  <2>.  QED BY <2>3, <2>5, Unseen
<1>. QED BY <1>3, <1>4, <1>5 DEF Read, GetBody, AfterNothing

\* What is sent is the next piece of the file, as far as it was announced; sent
\* again, it breaks the request off.
LEMMA SendStep ==
    ASSUME StoreInv, HandlersInv, NEW w \in Workers, Send(w)
    PROVE  \/ \E n \in 1 .. worker[w].len : Service!Deliver(w, n)
           \/ Service!BreakOff(w)
           \/ UNCHANGED Service!vars
<1> DEFINE q        == worker[w]
           repeated == handler = "curl" /\ q.got > 0
           got      == IF repeated THEN q.got ELSE q.got + q.chunk
           garbled  == q.garbled \/ repeated
           r        == [q EXCEPT !.done = @ + q.chunk, !.pc = "test", !.got = got,
                                 !.garbled = garbled]
<1>1. /\ UNCHANGED <<store, handler>> /\ q.pc = "send" /\ Become(w, r)
      BY DEF Send, Step
<1>2. /\ q \in Request /\ q.len \in Int /\ q.done \in Nat /\ q.chunk \in Nat /\ q.got \in Nat
      /\ Progress(w) /\ (q.garbled => handler = "curl" /\ q.got > 0)
      /\ q.garbled \in BOOLEAN
      BY <1>1, Sending DEF Request
<1>3. ~(q.len <= 0)
      BY <1>1, <1>2 DEF Progress
<1> HIDE DEF got, garbled
<1>4. /\ r.pc = "test" /\ r.request = q.request /\ r.garbled = garbled
      /\ r.header = q.header /\ r.len = q.len /\ r.got = got
      BY <1>2 DEF Request
<1> HIDE DEF r
<1>5. CASE repeated
  <2>1. got = q.got /\ garbled
        BY <1>5 DEF got, garbled
  <2>2. /\ worker'[w] = r /\ phases' = [phases EXCEPT ![w] = Phase(w)']
        /\ UNCHANGED <<subjects, headers, lengths, deliveries>>
        BY <1>1, <1>4, <2>1, NewPhase
  <2>3. Phase(w)' = "broken" /\ Phase(w) \in {"broken", "streaming"}
        BY <1>1, <1>4, <2>1, <2>2, PhaseIs DEF Phase
  <2>4. CASE Phase(w) = "broken"
        BY <2>2, <2>3, <2>4, Unseen
  <2>5. CASE Phase(w) = "streaming"
        BY <2>2, <2>3, <2>5, BreaksOff
  <2>.  QED BY <2>3, <2>4, <2>5
<1>6. CASE ~repeated
  <2>1. got = q.got + q.chunk /\ ~q.garbled /\ ~garbled
        BY <1>2, <1>6 DEF got, garbled
  <2>2. worker \in [Workers -> Request]
        BY DEF HandlersInv, TypeOK
  <2>3. /\ worker'[w] = r
        /\ phases' = [phases EXCEPT ![w] = Phase(w)']
        /\ subjects' = [subjects EXCEPT ![w] = Subject(w)']
        /\ headers' = [headers EXCEPT ![w] = r.header]
        /\ lengths' = [lengths EXCEPT ![w] = r.len]
        /\ deliveries' = [deliveries EXCEPT ![w] = Delivered(w)']
        BY <1>1, <2>2, Seen
  <2>4. Phase(w) = "streaming"
        BY <1>1, <2>1, PhaseIs
  <2>5. Phase(w)' = "streaming"
        BY <1>3, <1>4, <2>1, <2>3 DEF Phase
  <2>6. Subject(w)' = Subject(w)
    <3>1. \A p : Named(p)' = Named(p)
          BY <1>1 DEF Named, Lists, Opened, store
    <3>.  QED BY <1>1, <1>4, <2>3, <3>1 DEF Subject
  <2>7. UNCHANGED <<phases, subjects, headers, lengths>>
    <3>1. /\ phases[w] = Phase(w)' /\ subjects[w] = Subject(w)'
          /\ headers[w] = r.header /\ lengths[w] = r.len
          BY <1>4, <2>4, <2>5, <2>6 DEF phases, subjects, headers, lengths
    <3>.  QED BY <2>3, <3>1 DEF phases, subjects, headers, lengths
  <2> DEFINE n == Delivered(w)' - Delivered(w)
  <2>8. Delivered(w) = IF q.got <= q.len THEN q.got ELSE q.len
        BY <1>3, DeliveredIs
  <2>9. Delivered(w)' = IF got <= q.len THEN got ELSE q.len
        BY <1>2, <1>3, <1>4, <2>1, <2>3, MinOfTwo DEF Delivered
  <2>10. /\ n \in 0 .. q.len /\ Delivered(w)' = Delivered(w) + n
         /\ Delivered(w) + n <= q.len
        BY <1>2, <1>3, <2>1, <2>8, <2>9
  <2> HIDE DEF n
  <2>11. CASE n = 0
    <3>1. Delivered(w)' = Delivered(w)
          BY <1>2, <2>8, <2>10, <2>11
    <3>2. deliveries' = deliveries
          BY <2>3, <3>1 DEF deliveries
    <3>.  QED BY <2>7, <3>2 DEF Service!vars, phases, subjects, headers, lengths, deliveries
  <2>12. CASE n # 0
    <3>1. n \in 1 .. q.len
          BY <1>2, <2>10, <2>12
    <3>2. Service!Deliver(w, n)
          BY <2>3, <2>4, <2>7, <2>10, <3>1
             DEF Service!Deliver, phases, subjects, headers, lengths, deliveries
    <3>.  QED BY <3>1, <3>2
  <2>.  QED BY <2>11, <2>12
<1>. QED BY <1>5, <1>6

\* A client that has gone gets no more.
LEMMA SendShortStep ==
    ASSUME StoreInv, HandlersInv, NEW w \in Workers, SendShort(w)
    PROVE  Service!BreakOff(w) \/ UNCHANGED Service!vars
<1> DEFINE r == [worker[w] EXCEPT !.pc = "failed", !.mishap = @ \cup {"client"}]
<1>1. /\ UNCHANGED <<store, handler>> /\ worker[w].pc = "send" /\ Become(w, r)
      BY DEF SendShort, Step, Fail
<1>2. worker[w] \in Request
      BY DEF HandlersInv, TypeOK
<1>3. /\ r.pc = "failed" /\ r.request = worker[w].request
      /\ r.header = worker[w].header /\ r.len = worker[w].len /\ r.got = worker[w].got
      BY <1>2 DEF Request
<1> HIDE DEF r
<1>. QED BY <1>1, <1>3, FailStep

\* The worker is free again.
LEMMA ReturnStep ==
    ASSUME StoreInv, HandlersInv, NEW w \in Workers, Return(w)
    PROVE  Service!Finish(w)
<1>1. /\ UNCHANGED <<store, handler>> /\ worker[w].pc \in {"return", "failed"}
      /\ Become(w, NewRequest) /\ worker \in [Workers -> Request]
      BY DEF Return, HandlersInv, TypeOK
<1>2. /\ NewRequest.pc = "idle" /\ NewRequest.header = "none" /\ NewRequest.len = 0
      BY DEF NewRequest
<1>3. /\ worker'[w] = NewRequest
      /\ phases' = [phases EXCEPT ![w] = Phase(w)']
      /\ subjects' = [subjects EXCEPT ![w] = Subject(w)']
      /\ headers' = [headers EXCEPT ![w] = "none"]
      /\ lengths' = [lengths EXCEPT ![w] = 0]
      /\ deliveries' = [deliveries EXCEPT ![w] = Delivered(w)']
      BY <1>1, <1>2, Seen
<1>4. Phase(w) \in {"answered", "broken"}
      BY <1>1 DEF Phase
<1>5. Phase(w)' = "idle" /\ Subject(w)' = None /\ Delivered(w)' = 0
      BY <1>2, <1>3 DEF Phase, Subject, Delivered
<1>. QED BY <1>3, <1>4, <1>5
         DEF Service!Finish, phases, subjects, headers, lengths, deliveries

\* The service sees neither the files change nor the list being loaded.
LEMMA OtherStep ==
    ASSUME StoreInv, HandlersInv,
           Index \/ (\E p \in Files : Change(p)) \/ UNCHANGED vars
    PROVE  UNCHANGED Service!vars
<1>1. ASSUME NEW v \in Workers
      PROVE  /\ worker'[v].pc = worker[v].pc /\ worker'[v].request = worker[v].request
             /\ worker'[v].garbled = worker[v].garbled
             /\ worker'[v].header = worker[v].header /\ worker'[v].len = worker[v].len
             /\ worker'[v].got = worker[v].got
             /\ worker[v].pc # "idle" => UNCHANGED <<lines, handler>>
  <2>1. CASE Index \/ UNCHANGED vars
        BY <2>1 DEF Index, StoreNext, LoadLine, EndOfList, Sort, vars, store
  <2>2. ASSUME NEW p \in Files, Change(p)
        PROVE  /\ UNCHANGED <<lines, handler>>
               /\ worker'[v] = [worker[v] EXCEPT !.mishap = @ \cup {"moved"}]
                  \/ worker'[v] = worker[v]
        BY <2>2 DEF Change, store
  <2>3. worker[v] \in Request
        BY DEF HandlersInv, TypeOK
  <2>.  QED BY <2>1, <2>2, <2>3 DEF Request
<1>2. ASSUME NEW v \in Workers
      PROVE  Phase(v)' = Phase(v) /\ Subject(v)' = Subject(v) /\ Delivered(v)' = Delivered(v)
  <2>1. ASSUME worker[v].pc # "idle"
        PROVE  \A q : Named(q)' = Named(q)
        BY <1>1, <2>1 DEF Named, Lists, Opened
  <2>.  QED BY <1>1, <2>1 DEF Phase, Subject, Delivered
<1>. QED BY <1>1, <1>2 DEF Service!vars

\* The first requests are asked when no one has asked before.
LEMMA ServiceInit == Init => Service!Init
<1> SUFFICES ASSUME Init PROVE Service!Init
    OBVIOUS
<1>1. ASSUME NEW w \in Workers
      PROVE  /\ worker[w].pc = "idle" /\ worker[w].header = "none"
             /\ worker[w].len = 0
      BY DEF Init, NewRequest
<1>2. ASSUME NEW w \in Workers
      PROVE  Phase(w) = "idle" /\ Subject(w) = None /\ Delivered(w) = 0
      BY <1>1 DEF Phase, Subject, Delivered
<1>. QED BY <1>1, <1>2 DEF Service!Init

\* Every step of the server is one of the service, or invisible to it.
LEMMA ServiceStep ==
    ASSUME StoreInv, HandlersInv, HandlersInv', [Next]_vars
    PROVE  [Service!Next]_(Service!vars)
<1>1. ASSUME NEW w \in Workers, Ask(w)
      PROVE  Service!Next
      BY <1>1, AskAsks DEF Service!Next
<1>2. ASSUME NEW w \in Workers, Lookup(w)
      PROVE  Service!Next \/ UNCHANGED Service!vars
      BY <1>2, LookupStep DEF Service!Next
<1>3. ASSUME NEW w \in Workers, Open(w)
      PROVE  Service!Next \/ UNCHANGED Service!vars
      BY <1>3, OpenStep DEF Service!Next
<1>4. ASSUME NEW w \in Workers, Announce(w) \/ Head_(w)
      PROVE  Service!Next
      BY <1>4, AnnounceStep, HeadStep DEF Service!Next
<1>5. ASSUME NEW w \in Workers, TestDone(w)
      PROVE  Service!Next \/ UNCHANGED Service!vars
      BY <1>5, TestStep DEF Service!Next
<1>6. ASSUME NEW w \in Workers, Read(w) \/ GetBody(w)
      PROVE  Service!Next \/ UNCHANGED Service!vars
      BY <1>6, ReadStep DEF Service!Next
<1>7. ASSUME NEW w \in Workers, Send(w)
      PROVE  Service!Next \/ UNCHANGED Service!vars
      BY <1>7, SendStep DEF Service!Next
<1>8. ASSUME NEW w \in Workers, SendShort(w)
      PROVE  Service!Next \/ UNCHANGED Service!vars
      BY <1>8, SendShortStep DEF Service!Next
<1>9. ASSUME NEW w \in Workers, Return(w)
      PROVE  Service!Next
      BY <1>9, ReturnStep DEF Service!Next
<1>. QED BY <1>1, <1>2, <1>3, <1>4, <1>5, <1>6, <1>7, <1>8, <1>9, OtherStep
         DEF Next, Serve

\* The clients of the handlers see the file service, which may break off: a header
\* comes first and once, and what comes after it is the file from its start, in
\* order and no more than was announced.
THEOREM HandlersImplementService == Spec => ImplementsFileService
<1>1. Init => Service!Init
      BY ServiceInit
<1>2. StoreInv /\ HandlersInv /\ HandlersInv' /\ [Next]_vars
        => [Service!Next]_(Service!vars)
      BY ServiceStep
<1>3. Spec => Service!Spec
      BY <1>1, <1>2, StoreHolds, HandlersHold, PTL DEF Spec, Service!Spec
<1>. QED BY <1>3 DEF ImplementsFileService
=============================================================================
