------------------------- MODULE PullSnapshotProofs -------------------------
(***************************************************************************)
(* The validator's listing and decision for any repository, page size and  *)
(* number of pages.                                                        *)
(***************************************************************************)
EXTENDS PullSnapshot, FiniteSetTheorems, SequenceTheorems, TLAPS

-----------------------------------------------------------------------------
(* Sequences *)

\* A function on 1..n is a sequence of length n.
LEMMA Sequenced ==
  ASSUME NEW n \in Nat, NEW T, NEW s \in [1..n -> T]
  PROVE  s \in Seq(T) /\ Len(s) = n /\ DOMAIN s = 1..n
  <1>1. s \in Seq(T)
    BY SeqDef
  <1>2. Len(s) \in Nat /\ DOMAIN s = 1..Len(s)
    BY <1>1, LenProperties
  <1>3. DOMAIN s = 1..n
    OBVIOUS
  <1> QED
    BY <1>1, <1>2, <1>3

\* Two pieces of a listing, joined.
LEMMA Joined ==
  ASSUME NEW T, NEW a \in Nat, NEW b \in Nat, a <= b
  PROVE  \A w \in [1..b -> T] : \A x \in [1..a -> T] : \A y \in [1..(b - a) -> T] :
           (\A i \in 1..a : x[i] = w[i]) /\ (\A k \in 1..(b - a) : y[k] = w[k + a])
             => x \o y = w
  <1> SUFFICES ASSUME NEW w \in [1..b -> T], NEW x \in [1..a -> T],
                      NEW y \in [1..(b - a) -> T],
                      \A i \in 1..a : x[i] = w[i],
                      \A k \in 1..(b - a) : y[k] = w[k + a]
               PROVE  x \o y = w
    OBVIOUS
  <1>3. b - a \in Nat
    OBVIOUS
  <1>4. x \in Seq(T) /\ Len(x) = a
    BY Sequenced
  <1>5. y \in Seq(T) /\ Len(y) = b - a
    BY <1>3, Sequenced
  <1>6. /\ x \o y \in Seq(T) /\ Len(x \o y) = b
        /\ \A i \in 1..b : (x \o y)[i] = IF i <= a THEN x[i] ELSE y[i - a]
    <2>1. /\ x \o y \in Seq(T) /\ Len(x \o y) = a + (b - a)
          /\ \A i \in 1..(a + (b - a)) :
               (x \o y)[i] = IF i <= a THEN x[i] ELSE y[i - a]
      <3>1. x \in Seq(T) /\ y \in Seq(T)
        BY <1>4, <1>5
      <3>2. /\ x \o y \in Seq(T) /\ Len(x \o y) = Len(x) + Len(y)
            /\ \A i \in 1..(Len(x) + Len(y)) :
                 (x \o y)[i] = IF i <= Len(x) THEN x[i] ELSE y[i - Len(x)]
        BY <3>1, ConcatProperties
      <3> QED
        BY <1>4, <1>5, <3>2, Zenon
    <2>2. a + (b - a) = b
      OBVIOUS
    <2> QED
      BY <2>1, <2>2
  <1>7. \A i \in 1..b : (x \o y)[i] = w[i]
    <2> TAKE i \in 1..b
    <2>1. CASE i <= a
      BY <1>6, <2>1
    <2>2. CASE i > a
      <3>1. i - a \in 1..(b - a) /\ (i - a) + a = i
        BY <2>2
      <3> QED
        BY <1>6, <2>2, <3>1
    <2> QED
      BY <2>1, <2>2
  <1>8. w \in Seq(T) /\ Len(w) = b
    BY Sequenced
  <1> QED
    BY <1>6, <1>7, <1>8, SeqEqual

-----------------------------------------------------------------------------
(* The listing *)

\* The open pull requests have the places 1 to their number, by age.
LEMMA Places ==
  ASSUME open \in SUBSET Numbers
  PROVE  /\ Cardinality(open) \in Nat /\ open \in SUBSET Nat
         /\ \A n \in open : Place(n) \in 1..Cardinality(open)
         /\ \A m, n \in open : m < n => Place(m) < Place(n)
         /\ \A k \in 1..Cardinality(open) : \E n \in open : Place(n) = k
  <1> DEFINE N == Cardinality(open)
             upTo(n) == {m \in open : m <= n}
             place == [n \in open |-> Place(n)]
  <1>1. IsFiniteSet(open) /\ open \in SUBSET Nat
    BY SnapshotAssumption, FS_Subset
  <1>2. N \in Nat
    BY <1>1, FS_CardinalityType
  <1>3. ASSUME NEW n \in open
        PROVE  Place(n) \in 1..N
    <2>1. IsFiniteSet(upTo(n)) /\ Cardinality(upTo(n)) <= N
      BY <1>1, FS_Subset
    <2>2. Cardinality(upTo(n)) \in Nat
      BY <2>1, FS_CardinalityType
    <2>3. n \in upTo(n)
      BY <1>1
    <2>4. Cardinality(upTo(n)) # 0
      BY <2>1, <2>3, FS_EmptySet
    <2> QED
      BY <1>2, <2>1, <2>2, <2>4 DEF Place
  <1>4. ASSUME NEW m \in open, NEW n \in open, m < n
        PROVE  Place(m) < Place(n)
    <2>1. IsFiniteSet(upTo(m)) /\ IsFiniteSet(upTo(n))
      BY <1>1, FS_Subset
    <2>2. upTo(m) \in SUBSET upTo(n) /\ n \in upTo(n) /\ n \notin upTo(m)
      <3>1. \A x \in open : x \in Nat
        BY <1>1
      <3>2. \A x \in open : x <= m => x <= n
        BY <1>4, <3>1
      <3> QED
        BY <1>4, <3>1, <3>2
    <2>3. Cardinality(upTo(m)) <= Cardinality(upTo(n))
          /\ Cardinality(upTo(m)) # Cardinality(upTo(n))
      BY <2>1, <2>2, FS_Subset
    <2>4. Cardinality(upTo(m)) \in Nat /\ Cardinality(upTo(n)) \in Nat
      BY <2>1, FS_CardinalityType
    <2> QED
      BY <2>3, <2>4 DEF Place
  <1>5. place \in Injection(open, 1..N)
    <2>1. place \in [open -> 1..N]
      BY <1>3
    <2>2. ASSUME NEW m \in open, NEW n \in open, place[m] = place[n]
          PROVE  m = n
      <3>1. Place(m) = Place(n) /\ Place(m) \in Nat /\ Place(n) \in Nat
        BY <1>2, <1>3, <2>2
      <3> QED
        BY <1>1, <1>4, <3>1
    <2> QED
      BY <2>1, <2>2 DEF Injection, IsInjective
  <1>6. IsFiniteSet(1..N) /\ Cardinality(1..N) = N
    BY <1>2, FS_Interval
  <1>7. place \in Surjection(open, 1..N)
    BY <1>5, <1>6, FS_Injection
  <1>8. \A k \in 1..N : \E n \in open : Place(n) = k
    BY <1>7 DEF Surjection
  <1> QED
    BY <1>1, <1>2, <1>3, <1>4, <1>8

\* The listing has every open pull request once.
LEMMA Listing ==
  ASSUME open \in SUBSET Numbers
  PROVE  /\ Len(Ordered) = Cardinality(open) /\ Len(Ordered) \in Nat
         /\ DOMAIN Ordered = 1..Len(Ordered) /\ Ordered \in Seq(open)
         /\ \A k \in 1..Len(Ordered) : Ordered[k] \in open /\ Place(Ordered[k]) = k
         /\ \A n \in open : Place(n) \in 1..Len(Ordered) /\ Ordered[Place(n)] = n
  <1> DEFINE N == Cardinality(open)
  <1>1. N \in Nat
    BY Places
  <1>2. ASSUME NEW k \in 1..N
        PROVE  Ordered[k] \in open /\ Place(Ordered[k]) = k
    BY Places DEF Ordered
  <1>3. Ordered \in Seq(open) /\ DOMAIN Ordered = 1..N
    <2>1. Ordered \in [1..N -> open]
      BY <1>2 DEF Ordered
    <2> QED
      BY <1>1, <2>1
  <1>4. Len(Ordered) = N
    BY <1>1, <1>3
  <1>5. ASSUME NEW n \in open
        PROVE  Ordered[Place(n)] = n
    <2>1. /\ Place(n) \in 1..N /\ Ordered[Place(n)] \in open
          /\ Place(Ordered[Place(n)]) = Place(n)
      BY <1>2, Places
    <2> QED
      BY <2>1, Places
  <1> QED
    BY <1>1, <1>2, <1>3, <1>4, <1>5, Places

\* The pages hold the listing, and each but the last is full.
LEMMA Paged ==
  ASSUME open \in SUBSET Numbers
  PROVE  /\ PageCount \in Nat
         /\ PageCount = 0 <=> open = {}
         /\ Len(Ordered) <= PageCount * PageSize
         /\ PageCount # 0 => (PageCount - 1) * PageSize < Len(Ordered)
  <1>1. PageSize \in Nat /\ PageSize > 0
    BY SnapshotAssumption
  <1>2. Len(Ordered) \in Nat
    BY Listing
  <1>3. PICK N \in Nat : N = Len(Ordered)
    BY <1>2
  <1>4. PICK a \in Nat : a = N + PageSize - 1
    BY <1>1, <1>3
  <1>5. /\ a \div PageSize \in Nat
        /\ (a \div PageSize) * PageSize <= a
        /\ a < (a \div PageSize) * PageSize + PageSize
    BY <1>1
  <1>6. PageCount = a \div PageSize
    BY <1>3, <1>4 DEF PageCount
  <1>7. PICK C \in Nat : C = PageCount
    BY <1>5, <1>6
  <1>8. C * PageSize <= N + PageSize - 1 /\ N - 1 < C * PageSize
    BY <1>1, <1>4, <1>5, <1>6, <1>7
  <1>9. C = 0 <=> N = 0
    BY <1>1, <1>8
  <1>10. N = 0 <=> open = {}
    BY <1>3, Listing, SnapshotAssumption, FS_Subset, FS_EmptySet
  <1>11. (C - 1) * PageSize = C * PageSize - PageSize
    BY <1>1
  <1> QED
    BY <1>1, <1>3, <1>7, <1>8, <1>9, <1>10, <1>11

\* What has been listed of the first k places, when the heads were h.
Prefix(h, k) == [i \in 1..k |-> <<Ordered[i], h[Ordered[i]]>>]

\* Where page p ends.
Until(p) ==
  IF p * PageSize <= Len(Ordered) THEN p * PageSize ELSE Len(Ordered)

LEMMA PageBounds ==
  ASSUME open \in SUBSET Numbers, NEW p \in Nat \ {0}
  PROVE  /\ p * PageSize \in Nat /\ (p - 1) * PageSize \in Nat
         /\ (p - 1) * PageSize < p * PageSize
         /\ ((p + 1) - 1) * PageSize = p * PageSize
         /\ Until(p) \in Nat /\ Until(p) <= Len(Ordered)
         /\ p >= PageCount => Until(p) = Len(Ordered)
         /\ p < PageCount =>
              Until(p) = p * PageSize /\ p * PageSize < Len(Ordered)
  <1>1. PICK S \in Nat : S = PageSize /\ S > 0
    BY SnapshotAssumption
  <1>2. PICK C \in Nat : C = PageCount
    BY Paged
  <1>3. PICK N \in Nat : N = Len(Ordered)
    BY Listing
  <1>4. PICK q \in Nat : q = p * S
    BY <1>1
  <1>5. (p - 1) * S = q - S /\ (p - 1) * S \in Nat
    BY <1>1, <1>4
  <1>6. ((p + 1) - 1) * PageSize = p * PageSize
    OBVIOUS
  <1>7. N <= C * S /\ (C # 0 => (C - 1) * S < N)
    BY <1>1, <1>2, <1>3, Paged
  <1>8. p >= C => C * S <= q
    BY <1>1, <1>2, <1>4
  <1>9. p < C => q <= (C - 1) * S
    <2> SUFFICES ASSUME p < C PROVE q <= (C - 1) * S
      OBVIOUS
    <2>1. p <= C - 1 /\ C - 1 \in Nat
      BY <1>2
    <2> QED
      BY <1>1, <1>4, <2>1
  <1>10. (C - 1) * S = C * S - S /\ C * S \in Nat
    BY <1>1, <1>2
  <1>11. Until(p) = IF q <= N THEN q ELSE N
    BY <1>1, <1>3, <1>4 DEF Until
  <1>12. p >= C => Until(p) = N
    BY <1>3, <1>4, <1>7, <1>8, <1>10, <1>11
  <1>13. p < C => Until(p) = q /\ q < N
    BY <1>2, <1>3, <1>4, <1>7, <1>9, <1>10, <1>11
  <1> QED
    BY <1>1, <1>2, <1>3, <1>4, <1>5, <1>6, <1>11, <1>12, <1>13

\* Page p holds the places after those of the earlier pages, if there are any.
LEMMA PageShows ==
  ASSUME open \in SUBSET Numbers, NEW p \in Nat \ {0},
         NEW a, a = (p - 1) * PageSize, NEW b, b = Until(p)
  PROVE  PageOf(p) = [k \in 1..(b - a) |-> Ordered[k + a]]
  <1>1. a \in Nat /\ b \in Nat /\ b <= Len(Ordered)
    BY PageBounds
  <1>2. Len(Ordered) \in Nat /\ DOMAIN Ordered = 1..Len(Ordered)
    BY Listing
  <1>3. Min({p * PageSize, Len(Ordered)}) = b
    <2>1. PICK q \in Nat : q = p * PageSize
      BY PageBounds
    <2>2. PICK N \in Nat : N = Len(Ordered)
      BY <1>2
    <2>3. Min({q, N}) = IF q <= N THEN q ELSE N
      BY DEF Min
    <2> QED
      BY <2>1, <2>2, <2>3 DEF Until
  <1>4. PageOf(p) = SubSeq(Ordered, a + 1, b)
    BY <1>3 DEF PageOf
  <1>5. CASE a < b
    <2>1. PICK N \in Nat : N = Len(Ordered)
      BY <1>2
    <2>2. a + 1 \in 1..N /\ b \in 1..N /\ a + 1 <= b
      BY <1>1, <1>5, <2>1
    <2>3. PICK w \in [1..N -> open] : w = Ordered
      BY <2>1, Listing
    <2>4. PICK m \in Nat : m = a + 1
      BY <1>1
    <2>5. \A i \in m..b : w[i] \in open
      BY <2>2, <2>4
    <2>6. /\ SubSeq(w, m, b) \in Seq(open) /\ Len(SubSeq(w, m, b)) = b - m + 1
          /\ \A k \in 1..(b - m + 1) : SubSeq(w, m, b)[k] = w[m + k - 1]
      BY <1>1, <2>2, <2>4, <2>5, SubSeqProperties
    <2>7. b - m + 1 = b - a /\ b - a \in Nat /\ \A k \in 1..(b - a) : m + k - 1 = k + a
      <3>1. b - m + 1 = b - a /\ b - a \in Nat
        BY <1>1, <1>5, <2>4
      <3>2. ASSUME NEW k \in Nat PROVE m + k - 1 = k + a
        BY <1>1, <2>4
      <3> QED
        BY <3>1, <3>2
    <2>8. /\ SubSeq(w, m, b) \in Seq(open) /\ Len(SubSeq(w, m, b)) = b - a
          /\ \A k \in 1..(b - a) : SubSeq(w, m, b)[k] = w[k + a]
      BY <2>6, <2>7
    <2>9. SubSeq(w, m, b) = [k \in 1..(b - a) |-> w[k + a]]
      <3>1. PICK v : v = SubSeq(w, m, b)
        OBVIOUS
      <3>2. v \in Seq(open) /\ Len(v) = b - a /\ \A k \in 1..(b - a) : v[k] = w[k + a]
        BY <2>8, <3>1
      <3>3. v = [k \in 1..Len(v) |-> v[k]]
        BY <3>2
      <3> QED
        BY <3>1, <3>2, <3>3
    <2> QED
      BY <1>4, <2>3, <2>4, <2>9
  <1>6. CASE b <= a
    <2>1. SubSeq(Ordered, a + 1, b) = <<>>
      BY <1>1, <1>6, SubSeqEmpty
    <2>2. 1..(b - a) = {}
      BY <1>1, <1>6
    <2>3. [k \in 1..(b - a) |-> Ordered[k + a]] = <<>>
      BY <2>2
    <2> QED
      BY <1>4, <2>1, <2>3
  <1> QED
    BY <1>1, <1>5, <1>6

\* Page p continues what the earlier pages listed, without repeating any of it,
\* if what is still to come has the heads it had.
LEMMA PageContinues ==
  ASSUME open \in SUBSET Numbers, NEW p \in Nat \ {0}, NEW h,
         (p - 1) * PageSize <= Len(Ordered),
         listed = Prefix(h, (p - 1) * PageSize),
         \A n \in open : Place(n) > (p - 1) * PageSize => h[n] = head[n],
         NEW numbers, numbers = PageOf(p)
  PROVE  /\ listed \o [k \in DOMAIN numbers |-> <<numbers[k], head[numbers[k]]>>]
              = Prefix(h, Until(p))
         /\ ~Repeated(numbers)
  <1>1. PICK a \in Nat : a = (p - 1) * PageSize
    BY PageBounds
  <1>2. PICK b \in Nat : b = Until(p) /\ b <= Len(Ordered)
    BY PageBounds
  <1>3. PICK N \in Nat : N = Len(Ordered)
    BY Listing
  <1>4. a <= b /\ b <= N
    <2>1. PICK q \in Nat : q = p * PageSize /\ a < q
      BY <1>1, PageBounds
    <2>2. a <= N
      BY <1>1, <1>3
    <2>3. b = IF q <= N THEN q ELSE N
      BY <1>2, <1>3, <2>1 DEF Until
    <2> QED
      BY <1>3, <2>1, <2>2, <2>3
  <1>5. numbers = [k \in 1..(b - a) |-> Ordered[k + a]]
    BY <1>1, <1>2, PageShows
  <1>6. PICK more : more = [k \in DOMAIN numbers |-> <<numbers[k], head[numbers[k]]>>]
    OBVIOUS
  <1>7. PICK whole : whole = [i \in 1..b |-> <<Ordered[i], h[Ordered[i]]>>]
    OBVIOUS
  <1>8. more = [k \in 1..(b - a) |-> whole[k + a]]
    <2>1. DOMAIN numbers = 1..(b - a) /\ \A k \in 1..(b - a) : numbers[k] = Ordered[k + a]
      BY <1>5
    <2>2. \A k \in 1..(b - a) : k + a \in 1..b /\ k + a \in 1..N /\ k + a > a
      BY <1>1, <1>2, <1>3, <1>4
    <2>3. \A k \in 1..(b - a) : head[Ordered[k + a]] = h[Ordered[k + a]]
      <3> TAKE k \in 1..(b - a)
      <3>1. Ordered[k + a] \in open /\ Place(Ordered[k + a]) > a
        BY <1>3, <2>2, Listing
      <3> QED
        BY <1>1, <3>1
    <2>4. \A k \in 1..(b - a) : whole[k + a] = <<Ordered[k + a], h[Ordered[k + a]]>>
      BY <1>7, <2>2
    <2>5. more = [k \in 1..(b - a) |-> <<numbers[k], head[numbers[k]]>>]
      BY <1>6, <2>1
    <2>6. \A k \in 1..(b - a) : <<numbers[k], head[numbers[k]]>> = whole[k + a]
      BY <2>1, <2>3, <2>4
    <2> QED
      BY <2>5, <2>6
  <1>9. listed = [i \in 1..a |-> whole[i]]
    <2>1. listed = [i \in 1..a |-> <<Ordered[i], h[Ordered[i]]>>]
      BY <1>1 DEF Prefix
    <2>2. \A i \in 1..a : i \in 1..b
      BY <1>1, <1>2, <1>4
    <2> QED
      BY <1>7, <2>1, <2>2
  <1>10. listed \o more = whole
    <2>1. PICK T : T = {whole[i] : i \in 1..b}
      OBVIOUS
    <2>2. whole \in [1..b -> T]
      BY <1>7, <2>1
    <2>3. /\ \A i \in 1..a : i \in 1..b
          /\ \A k \in 1..(b - a) : k + a \in 1..b
      BY <1>1, <1>2, <1>4
    <2>4. listed \in [1..a -> T]
      BY <1>9, <2>1, <2>3
    <2>5. more \in [1..(b - a) -> T]
      BY <1>8, <2>1, <2>3
    <2>6. /\ \A i \in 1..a : listed[i] = whole[i]
          /\ \A k \in 1..(b - a) : more[k] = whole[k + a]
      BY <1>8, <1>9
    <2>7. \A w \in [1..b -> T] : \A x \in [1..a -> T] : \A y \in [1..(b - a) -> T] :
            (\A i \in 1..a : x[i] = w[i]) /\ (\A k \in 1..(b - a) : y[k] = w[k + a])
              => x \o y = w
      <3>1. a \in Nat /\ b \in Nat /\ a <= b
        BY <1>1, <1>2, <1>4
      <3> HIDE <1>1, <1>2, <1>4
      <3> QED
        BY <3>1, Joined
    <2> QED
      BY <2>2, <2>4, <2>5, <2>6, <2>7, Zenon
  <1>11. ~Repeated(numbers)
    <2> SUFFICES ASSUME NEW k \in DOMAIN numbers, NEW i \in DOMAIN listed,
                        listed[i][1] = numbers[k]
                 PROVE  FALSE
      BY DEF Repeated, ToSet
    <2>1. k \in 1..(b - a) /\ i \in 1..a
      BY <1>5, <1>9
    <2>2. i \in 1..N /\ k + a \in 1..N /\ i # k + a /\ i \in 1..b
      BY <1>1, <1>2, <1>3, <1>4, <2>1
    <2>3. Ordered[i] = Ordered[k + a]
      <3>1. listed[i] = whole[i]
        BY <1>9, <2>1
      <3>2. whole[i] = <<Ordered[i], h[Ordered[i]]>>
        BY <1>7, <2>2
      <3>3. numbers[k] = Ordered[k + a]
        BY <1>5, <2>1
      <3> QED
        BY <3>1, <3>2, <3>3
    <2> QED
      BY <1>3, <2>2, <2>3, Listing
  <1>12. Prefix(h, b) = whole
    BY <1>7 DEF Prefix
  <1> QED
    BY <1>2, <1>6, <1>10, <1>11, <1>12

-----------------------------------------------------------------------------
(* A validation nobody disturbs *)

Live == Target \in open /\ head[Target] = "event" /\ base = "event"
Snapshot ==
  [pulls |-> Prefix(head, Len(Ordered)), body |-> IF RequireBody THEN body ELSE None]

Types ==
  /\ open \in SUBSET Numbers /\ body \in Bodies
  /\ changes \in Nat /\ failures \in Nat

\* How far the listing is: the pages before this one, and the last page once a
\* page has announced it.
Partial ==
  /\ page \in 1..PageCount /\ page <= MaxPages
  /\ listed = Prefix(head, (page - 1) * PageSize)
  /\ last = IF page = 1 THEN 0 ELSE PageCount
  /\ page # 1 => Fits

\* What each step relies on, and what a verdict rests on.
Undisturbed ==
  /\ result = None => at \in {"pull", "list", "commit", "compare", "issue"}
  /\ at \in {"list", "commit", "compare", "issue"} => Live /\ pulled = body
  /\ at = "list" => Partial
  /\ first \in {<<>>, <<Snapshot>>}
  /\ first # <<>> => Unique /\ Fits /\ Live
  /\ first # <<>> /\ at \in {"pull", "list"} => trailer
  /\ at \in {"commit", "compare", "issue"} => first # <<>>
  /\ at \in {"compare", "issue"} => trailer
  /\ at = "issue" /\ RequireBody => body # "invalid"
  /\ result # None =>
       /\ at = "done"
       /\ result = "PASS" <=> Legitimate
       /\ result = "INCONCLUSIVE" => ~Fits

IInv == Types /\ (changes = 0 /\ failures = 0 => Undisturbed)

LEMMA Starts == Init => IInv
  <1> SUFFICES ASSUME Init PROVE IInv
    OBVIOUS
  <1> QED
    BY DEF Init, IInv, Types, Undisturbed, None

\* While the repository stays as it is, so does what is said of it.
LEMMA HubStays ==
  ASSUME UNCHANGED hub
  PROVE  /\ Snapshot' = Snapshot /\ Live' = Live /\ Unique' = Unique
         /\ Fits' = Fits /\ Legitimate' = Legitimate /\ PageCount' = PageCount
         /\ Types /\ failures' \in Nat => Types'
         /\ \A k : Prefix(head, k)' = Prefix(head, k)
  <1>1. Ordered' = Ordered
    BY DEF hub, Ordered, Place
  <1>2. PageCount' = PageCount
    BY <1>1 DEF PageCount
  <1>3. \A k : Prefix(head, k)' = Prefix(head, k)
    BY <1>1 DEF hub, Prefix
  <1>4. Snapshot' = Snapshot
    BY <1>1, <1>3 DEF hub, Snapshot, Prefix
  <1>5. Unique' = Unique
    BY DEF hub, Unique, Holders
  <1>6. Legitimate' = Legitimate /\ Fits' = Fits
    BY <1>2, <1>5 DEF hub, Legitimate, Fits
  <1>7. Live' = Live
    BY DEF hub, Live
  <1>8. Types /\ failures' \in Nat => Types'
    BY DEF hub, Types
  <1> QED
    BY <1>2, <1>3, <1>4, <1>5, <1>6, <1>7, <1>8

\* A change ends the claim.
LEMMA ChangeKeeps ==
  ASSUME IInv, Change, open' \in SUBSET Numbers, body' \in Bodies
  PROVE  IInv'
  BY DEF IInv, Types, Change, validator

LEMMA GetPullKeeps == IInv /\ GetPull => IInv'
  <1> SUFFICES ASSUME IInv, GetPull PROVE IInv'
    OBVIOUS
  <1>1. UNCHANGED hub /\ failures' = failures /\ first' = first /\ changes' = changes
    BY DEF GetPull, hub
  <1>2. Types'
    BY <1>1, HubStays DEF IInv, Types
  <1> SUFFICES ASSUME changes = 0, failures = 0 PROVE Undisturbed'
    BY <1>1, <1>2 DEF IInv
  <1>3. Undisturbed /\ at = "pull" /\ result = None
    BY DEF IInv, Undisturbed, GetPull
  <1>4. Live <=> Target \in open /\ head[Target] = "event" /\ base = "event"
    BY DEF Live
  <1>5. CASE Live
    <2>1. /\ at' = "list" /\ pulled' = body /\ page' = 1 /\ last' = 0
          /\ listed' = <<>> /\ result' = None
      BY <1>3, <1>5 DEF GetPull, Live
    <2>2. Partial'
      <3>1. PageCount \in Nat /\ PageCount # 0
        BY <1>5, Paged DEF IInv, Types, Live
      <3>2. 1 \in 1..PageCount /\ 1 <= MaxPages
        BY <3>1, SnapshotAssumption
      <3>3. Prefix(head, (1 - 1) * PageSize) = <<>>
        BY SnapshotAssumption DEF Prefix
      <3> QED
        BY <1>1, <2>1, <3>2, <3>3, HubStays DEF Partial
    <2>3. body' = body /\ trailer' = trailer
      BY <1>1 DEF hub
    <2> QED
      BY <1>1, <1>3, <1>5, <2>1, <2>2, <2>3, HubStays DEF Undisturbed
  <1>6. CASE ~Live
    <2>1. at' = "done" /\ result' = "FAIL"
      BY <1>6 DEF GetPull, Live, Verdict
    <2>2. ~Legitimate
      BY <1>6 DEF Live, Legitimate, Unique, Holders
    <2>3. trailer' = trailer
      BY <1>1 DEF hub
    <2> QED
      BY <1>1, <1>3, <1>6, <2>1, <2>2, <2>3, HubStays DEF Undisturbed, None
  <1> QED
    BY <1>5, <1>6

\* The relations of a page agree with what earlier ones announced, and more
\* pages than the validator reads are found on the first.
LEMMA LinkAgrees ==
  ASSUME Types, Partial, NEW link \in Links(page)
  PROVE  /\ ~Contradicts(link)
         /\ page # PageCount =>
              /\ link.next = page + 1 /\ link.next # 0
              /\ KnownLast(link) = PageCount
              /\ Over(link) <=> ~Fits
         /\ page = PageCount => link.next = 0 /\ ~Over(link) /\ Fits
  <1>1. PICK C \in Nat : C = PageCount
    BY Paged DEF Types
  <1>2. PICK p \in 1..C : p = page
    BY <1>1 DEF Partial
  <1>3. PICK M \in Nat : M = MaxPages /\ p <= M
    BY <1>2, SnapshotAssumption DEF Partial
  <1>4. link = Linked(p - 1, IF p < C THEN p + 1 ELSE 0, IF p < C THEN C ELSE 0)
    BY <1>1, <1>2 DEF Links
  <1>5. last = IF p = 1 THEN 0 ELSE C
    BY <1>1, <1>2 DEF Partial
  <1>6. Fits <=> C <= M
    BY <1>1, <1>3 DEF Fits
  <1>7. CASE p # C
    <2>1. p < C
      BY <1>2, <1>7
    <2>2. link.prev = p - 1 /\ link.next = p + 1 /\ link.last = C
      BY <1>4, <2>1 DEF Linked
    <2>3. KnownLast(link) = C
      BY <1>2, <2>2 DEF KnownLast
    <2>4. link # NoLink
      BY <1>2, <2>2 DEF NoLink
    <2>5. ~Contradicts(link)
      BY <1>1, <1>2, <1>5, <2>1, <2>2, <2>3, <2>4 DEF Contradicts
    <2>6. Over(link) <=> C > M \/ p = M
      BY <1>2, <1>3, <2>2 DEF Over
    <2> QED
      BY <1>1, <1>2, <1>3, <1>6, <2>1, <2>2, <2>3, <2>5, <2>6
  <1>8. CASE p = C
    <2>1. link.prev = p - 1 /\ link.next = 0 /\ link.last = 0
      BY <1>4, <1>8 DEF Linked
    <2>2. KnownLast(link) = last
      BY <2>1 DEF KnownLast
    <2>3. ~Contradicts(link)
      BY <1>1, <1>2, <1>5, <1>8, <2>1, <2>2 DEF Contradicts
    <2>4. ~Over(link)
      BY <1>3, <2>1 DEF Over
    <2> QED
      BY <1>1, <1>2, <1>3, <1>6, <1>8, <2>1, <2>3, <2>4
  <1> QED
    BY <1>7, <1>8

\* The candidates of a whole listing are those that held the head.
LEMMA WholeCandidates ==
  ASSUME open \in SUBSET Numbers, NEW h, NEW seen, seen = Prefix(h, Len(Ordered))
  PROVE  {seen[k][1] : k \in Candidates(seen)} = {n \in open : h[n] = "event"}
  <1>1. PICK N \in Nat : N = Len(Ordered)
    BY Listing
  <1>2. seen = [i \in 1..N |-> <<Ordered[i], h[Ordered[i]]>>]
    BY <1>1 DEF Prefix
  <1>3. DOMAIN seen = 1..N
        /\ \A i \in 1..N : seen[i][1] = Ordered[i] /\ seen[i][2] = h[Ordered[i]]
    BY <1>2
  <1>4. ASSUME NEW k \in Candidates(seen)
        PROVE  seen[k][1] \in open /\ h[seen[k][1]] = "event"
    BY <1>1, <1>3, <1>4, Listing DEF Candidates
  <1>5. ASSUME NEW n \in open, h[n] = "event"
        PROVE  \E k \in Candidates(seen) : seen[k][1] = n
    <2>1. Place(n) \in 1..N /\ Ordered[Place(n)] = n
      BY <1>1, Listing
    <2> QED
      BY <1>3, <1>5, <2>1 DEF Candidates
  <1> QED
    BY <1>4, <1>5

LEMMA ListPageKeeps == IInv /\ ListPage => IInv'
  <1> SUFFICES ASSUME IInv, ListPage PROVE IInv'
    OBVIOUS
  <1>1. /\ UNCHANGED hub /\ failures' = failures /\ changes' = changes
        /\ pulled' = pulled
    BY DEF ListPage, hub
  <1>2. Types'
    BY <1>1, HubStays DEF IInv, Types
  <1> SUFFICES ASSUME changes = 0, failures = 0 PROVE Undisturbed'
    BY <1>1, <1>2 DEF IInv
  <1>3. Types /\ Undisturbed /\ at = "list" /\ result = None
    BY DEF IInv, Undisturbed, ListPage
  <1>4. Partial /\ Live /\ pulled = body
    BY <1>3 DEF Undisturbed
  <1>5. body' = body /\ trailer' = trailer
    BY <1>1 DEF hub
  <1> DEFINE numbers == PageOf(page)
             seen == listed \o [k \in DOMAIN numbers |-> <<numbers[k], head[numbers[k]]>>]
             whole == [pulls |-> seen, body |-> IF RequireBody THEN pulled ELSE None]
             found == {seen[k][1] : k \in Candidates(seen)}
  <1>14. /\ page \in Nat \ {0} /\ open \in SUBSET Numbers
         /\ page # PageCount => page < PageCount
         /\ (page - 1) * PageSize <= Len(Ordered)
    <2>1. open \in SUBSET Numbers
      BY <1>3 DEF Types
    <2>2. page \in Nat \ {0} /\ PageCount \in Nat /\ page <= PageCount
      BY <1>4, <2>1, Paged DEF Partial
    <2>3. CASE page = 1
      BY <2>1, <2>2, <2>3, Listing, SnapshotAssumption
    <2>4. CASE page # 1
      <3>1. PICK q \in Nat \ {0} : q = page - 1 /\ q < PageCount
        BY <2>2, <2>4
      <3>2. q * PageSize < Len(Ordered) /\ q * PageSize \in Nat
        BY <2>1, <3>1, PageBounds
      <3>3. (page - 1) * PageSize <= Len(Ordered)
        BY <2>1, <3>1, <3>2, Listing
      <3>4. page # PageCount => page < PageCount
        BY <2>2
      <3> QED
        BY <2>1, <2>2, <3>3, <3>4, Zenon
    <2> QED
      BY <2>1, <2>2, <2>3, <2>4
  <1>6. /\ seen = Prefix(head, Until(page)) /\ ~Repeated(numbers)
        /\ page # PageCount => Until(page) = ((page + 1) - 1) * PageSize
        /\ page = PageCount => Until(page) = Len(Ordered)
    <2>1. page \in Nat \ {0} /\ open \in SUBSET Numbers /\ PageCount \in Nat
      BY <1>14, Paged
    <2>2. listed = Prefix(head, (page - 1) * PageSize)
      BY <1>4 DEF Partial
    <2>3. \A n \in open : Place(n) > (page - 1) * PageSize => head[n] = head[n]
      OBVIOUS
    <2>4. seen = Prefix(head, Until(page)) /\ ~Repeated(numbers)
      BY <1>14, <2>1, <2>2, <2>3, PageContinues
    <2>5. page # PageCount => Until(page) = ((page + 1) - 1) * PageSize
      BY <1>14, <2>1, PageBounds
    <2>6. page = PageCount => Until(page) = Len(Ordered)
      BY <2>1, PageBounds
    <2> QED
      BY <2>4, <2>5, <2>6, Zenon
  <1>7. PICK link \in Links(page) :
           /\ listed' = seen /\ last' = KnownLast(link)
           /\ IF Repeated(numbers) \/ Contradicts(link) \/ Over(link)
              THEN Verdict("INCONCLUSIVE") /\ UNCHANGED <<page, first>>
              ELSE IF link.next # 0
              THEN page' = link.next /\ UNCHANGED <<at, first, result>>
              ELSE /\ UNCHANGED page
                   /\ IF found = {Target}
                      THEN SnapshotEnds(whole)
                      ELSE Verdict("FAIL") /\ UNCHANGED first
    BY DEF ListPage
  <1>8. whole = [pulls |-> seen, body |-> IF RequireBody THEN pulled ELSE None]
    OBVIOUS
  <1>9. seen = Prefix(head, Len(Ordered)) => found = Holders
    BY <1>14, WholeCandidates DEF Holders
  <1> HIDE DEF numbers, seen, whole, found
  <1>10. /\ ~Contradicts(link)
         /\ page # PageCount =>
              /\ link.next = page + 1 /\ link.next # 0
              /\ KnownLast(link) = PageCount
              /\ Over(link) <=> ~Fits
         /\ page = PageCount => link.next = 0 /\ ~Over(link) /\ Fits
    BY <1>3, <1>4, LinkAgrees
  <1>11. CASE page # PageCount /\ Over(link)
    <2>1. ~Fits /\ ~Legitimate /\ at' = "done" /\ result' = "INCONCLUSIVE" /\ first' = first
      BY <1>7, <1>10, <1>11 DEF Verdict, Legitimate
    <2> QED
      BY <1>1, <1>3, <1>5, <2>1, HubStays DEF Undisturbed, None
  <1>12. CASE page # PageCount /\ ~Over(link)
    <2>1. /\ page' = page + 1 /\ at' = at /\ first' = first /\ result' = result
          /\ last' = PageCount /\ Fits
      BY <1>6, <1>7, <1>10, <1>12
    <2>2. Partial'
      <3>1. page + 1 \in 1..PageCount /\ page + 1 # 1
        BY <1>3, <1>4, <1>12, Paged DEF Types, Partial
      <3>2. page + 1 <= MaxPages
        BY <1>3, <2>1, <3>1, Paged, SnapshotAssumption DEF Types, Fits
      <3>3. listed' = Prefix(head, ((page + 1) - 1) * PageSize)
        BY <1>6, <1>7, <1>12
      <3> QED
        BY <1>1, <2>1, <3>1, <3>2, <3>3, HubStays DEF Partial
    <2> QED
      BY <1>1, <1>3, <1>4, <1>5, <2>1, <2>2, HubStays DEF Undisturbed
  <1>13. CASE page = PageCount
    <2>1. /\ Fits
          /\ IF found = {Target}
             THEN SnapshotEnds(whole)
             ELSE Verdict("FAIL") /\ UNCHANGED first
      BY <1>6, <1>7, <1>10, <1>13
    <2>2. seen = Prefix(head, Len(Ordered))
      BY <1>6, <1>13
    <2>3. found = {Target} <=> Unique
      BY <1>9, <2>2 DEF Unique
    <2>4. whole = Snapshot
      BY <1>4, <1>8, <2>2 DEF Snapshot
    <2>5. CASE ~Unique
      <3>1. at' = "done" /\ result' = "FAIL" /\ first' = first /\ ~Legitimate
        BY <2>1, <2>3, <2>5 DEF Verdict, Legitimate
      <3> QED
        BY <1>1, <1>3, <1>5, <2>1, <3>1, HubStays DEF Undisturbed, None
    <2>6. CASE Unique /\ first = <<>>
      <3>1. at' = "commit" /\ first' = <<Snapshot>> /\ result' = None
        BY <1>3, <2>1, <2>3, <2>4, <2>6 DEF SnapshotEnds
      <3> QED
        BY <1>1, <1>4, <1>5, <2>1, <2>6, <3>1, HubStays DEF Undisturbed
    <2>7. CASE Unique /\ first # <<>>
      <3>1. first = <<Snapshot>> /\ trailer
        BY <1>3, <2>7 DEF Undisturbed
      <3>2. at' = "compare" /\ first' = <<Snapshot>> /\ result' = None
        BY <1>3, <2>1, <2>3, <2>4, <2>7, <3>1 DEF SnapshotEnds
      <3> QED
        BY <1>1, <1>4, <1>5, <2>1, <2>7, <3>1, <3>2, HubStays DEF Undisturbed
    <2> QED
      BY <2>5, <2>6, <2>7
  <1> QED
    BY <1>11, <1>12, <1>13

LEMMA GetCommitKeeps == IInv /\ GetCommit => IInv'
  <1> SUFFICES ASSUME IInv, GetCommit PROVE IInv'
    OBVIOUS
  <1>1. /\ UNCHANGED hub /\ failures' = failures /\ changes' = changes
        /\ pulled' = pulled /\ first' = first
    BY DEF GetCommit, hub
  <1>2. Types'
    BY <1>1, HubStays DEF IInv, Types
  <1> SUFFICES ASSUME changes = 0, failures = 0 PROVE Undisturbed'
    BY <1>1, <1>2 DEF IInv
  <1>3. Undisturbed /\ at = "commit" /\ result = None
    BY DEF IInv, Undisturbed, GetCommit
  <1>4. body' = body /\ trailer' = trailer
    BY <1>1 DEF hub
  <1>5. CASE trailer
    BY <1>1, <1>3, <1>4, <1>5, HubStays DEF GetCommit, Undisturbed
  <1>6. CASE ~trailer
    <2>1. at' = "done" /\ result' = "FAIL" /\ ~Legitimate
      BY <1>6 DEF GetCommit, Verdict, Legitimate
    <2> QED
      BY <1>1, <1>3, <1>4, <1>6, <2>1, HubStays DEF Undisturbed, None
  <1> QED
    BY <1>5, <1>6

LEMMA CompareBodyKeeps == IInv /\ CompareBody => IInv'
  <1> SUFFICES ASSUME IInv, CompareBody PROVE IInv'
    OBVIOUS
  <1>1. /\ UNCHANGED hub /\ failures' = failures /\ changes' = changes
        /\ pulled' = pulled /\ first' = first
    BY DEF CompareBody, hub
  <1>2. Types'
    BY <1>1, HubStays DEF IInv, Types
  <1> SUFFICES ASSUME changes = 0, failures = 0 PROVE Undisturbed'
    BY <1>1, <1>2 DEF IInv
  <1>3. Undisturbed /\ at = "compare" /\ result = None /\ pulled = body
    BY DEF IInv, Undisturbed, CompareBody
  <1>4. body' = body /\ trailer' = trailer
    BY <1>1 DEF hub
  <1>5. CASE RequireBody => body # "invalid"
    <2>1. at' = "issue" /\ result' = result
      BY <1>3, <1>5 DEF CompareBody
    <2> QED
      BY <1>1, <1>3, <1>4, <1>5, <2>1, HubStays DEF Undisturbed
  <1>6. CASE ~(RequireBody => body # "invalid")
    <2>1. at' = "done" /\ result' = "FAIL" /\ ~Legitimate
      BY <1>3, <1>6 DEF CompareBody, Verdict, Legitimate
    <2> QED
      BY <1>1, <1>3, <1>4, <1>6, <2>1, HubStays DEF Undisturbed, None
  <1> QED
    BY <1>5, <1>6

LEMMA GetIssueKeeps == IInv /\ GetIssue => IInv'
  <1> SUFFICES ASSUME IInv, GetIssue PROVE IInv'
    OBVIOUS
  <1>1. /\ UNCHANGED hub /\ failures' = failures /\ changes' = changes
        /\ first' = first
    BY DEF GetIssue, hub
  <1>2. Types'
    BY <1>1, HubStays DEF IInv, Types
  <1> SUFFICES ASSUME changes = 0, failures = 0 PROVE Undisturbed'
    BY <1>1, <1>2 DEF IInv
  <1>3. Undisturbed /\ at = "issue" /\ result = None
    BY DEF IInv, Undisturbed, GetIssue
  <1>4. Legitimate <=> issue
    BY <1>3 DEF Undisturbed, Legitimate, Live
  <1>5. at' = "done" /\ result' = IF issue THEN "PASS" ELSE "FAIL"
    BY DEF GetIssue, Verdict
  <1> QED
    BY <1>1, <1>3, <1>4, <1>5, HubStays DEF Undisturbed, None

LEMMA RequestFailsKeeps == IInv /\ RequestFails => IInv'
  <1> SUFFICES ASSUME IInv, RequestFails PROVE IInv'
    OBVIOUS
  <1>1. UNCHANGED hub /\ failures' = failures + 1 /\ failures \in Nat
    BY DEF RequestFails, hub, IInv, Types
  <1>2. Types'
    BY <1>1, HubStays DEF IInv, Types
  <1> QED
    BY <1>1, <1>2 DEF IInv

LEMMA RepositoryKeeps ==
  ASSUME IInv, (\E n \in Numbers : Close(n) \/ Reopen(n) \/ Push(n)) \/ Edit
  PROVE  IInv'
  <1>1. open \in SUBSET Numbers /\ body \in Bodies
    BY DEF IInv, Types
  <1>2. ASSUME NEW n \in Numbers, Close(n) \/ Reopen(n) \/ Push(n)
        PROVE  Change /\ open' \in SUBSET Numbers /\ body' \in Bodies
    BY <1>1, <1>2 DEF Close, Reopen, Push
  <1>3. Edit => Change /\ open' \in SUBSET Numbers /\ body' \in Bodies
    BY <1>1 DEF Edit
  <1> QED
    BY <1>2, <1>3, ChangeKeeps

LEMMA StutterKeeps == IInv /\ UNCHANGED vars => IInv'
  <1> SUFFICES ASSUME IInv, UNCHANGED vars PROVE IInv'
    OBVIOUS
  <1>1. UNCHANGED hub /\ Types'
    BY HubStays DEF vars, hub, IInv, Types
  <1>2. Partial => Partial'
    BY <1>1, HubStays DEF vars, Partial
  <1> QED
    BY <1>1, <1>2, HubStays DEF vars, IInv, Undisturbed

\* Whatever happens, the invariant of an undisturbed validation stays.
THEOREM Invariance == Safety => []IInv
  <1>1. IInv /\ [Next]_vars => IInv'
    BY GetPullKeeps, ListPageKeeps, GetCommitKeeps, CompareBodyKeeps, GetIssueKeeps,
       RequestFailsKeeps, RepositoryKeeps, StutterKeeps
       DEF Next, ValidatorStep, Done
  <1> QED
    BY <1>1, Starts, PTL DEF Safety

\* For any repository, page size and number of pages: while nothing changes and
\* no request fails the validator accepts exactly the authorized pull requests.
THEOREM DecidesExactly == Safety => []QuietDecided
  <1>1. IInv => QuietDecided
    BY DEF IInv, Undisturbed, QuietDecided
  <1> QED
    BY <1>1, Invariance, PTL

-----------------------------------------------------------------------------
(* A validation that meets changes *)

\* How many numbers the listing has passed, and what a snapshot shows.
Offset == (page - 1) * PageSize
Shown(pulls) == {pulls[k][1] : k \in DOMAIN pulls}

\* The listing so far, and what is still to come, are those of a repository with
\* the heads h in which Target is not alone.
Steady(h) ==
  /\ Offset <= Len(Ordered)
  /\ listed = Prefix(h, Offset)
  /\ \A n \in open : Place(n) > Offset => h[n] = head[n]
  /\ {n \in open : h[n] = "event"} # {Target}
Steadily == \E h \in [Numbers -> Shas] : Steady(h)

\* The next page will repeat a number; a snapshot shows one that is closed; the
\* second snapshot cannot show one that the first has.
Doubled == Offset + 1 <= Len(Ordered) /\ Ordered[Offset + 1] \in Shown(listed)
Gone(pulls) == \E n \in Shown(pulls) : n \notin open
Missed == \E n \in Shown(first[1].pulls) : n \notin open /\ n \notin Shown(listed)

Bounded ==
  /\ open \in SUBSET Numbers /\ head \in [Numbers -> Shas]
  /\ changes \in Nat /\ changes <= MaxChanges
  /\ page \in Nat \ {0} /\ sole \in BOOLEAN
  /\ listed \in Seq(Numbers \X Shas)

\* As long as Target was never alone with its head, and after at most two
\* changes, something is left that will end each snapshot, or the comparison of
\* the two, with a refusal.
Refusable ==
  /\ ~Unique
  /\ at \notin {"compare", "issue"} /\ result # "PASS"
  /\ at = "list" /\ first = <<>> =>
       /\ changes = 0 => Steady(head)
       /\ changes = 1 => Steadily \/ Doubled \/ Gone(listed)
  /\ first # <<>> =>
       /\ changes # 0
       /\ changes = 1 => Gone(first[1].pulls) /\ (at = "list" => Steady(head))
       /\ changes = 2 /\ at = "list" => Steadily \/ Doubled \/ Missed

Split == Bounded /\ (~sole => Refusable)

LEMMA SplitStarts == Init => Split
  <1> SUFFICES ASSUME Init PROVE Split
    OBVIOUS
  <1>1. Bounded
    BY SnapshotAssumption DEF Init, Bounded, Unique
  <1>2. ~sole => Refusable
    BY DEF Init, Refusable, None
  <1> QED
    BY <1>1, <1>2 DEF Split

\* One more element, and how many there are up to m.
LEMMA Grown ==
  ASSUME NEW S \in SUBSET Nat, IsFiniteSet(S), NEW n \in Nat, n \notin S, NEW m \in Nat
  PROVE  Cardinality({x \in S \cup {n} : x <= m})
           = Cardinality({x \in S : x <= m}) + (IF n <= m THEN 1 ELSE 0)
  <1> DEFINE A == {x \in S : x <= m}
  <1>1. IsFiniteSet(A) /\ n \notin A
    BY FS_Subset
  <1>2. Cardinality(A) \in Nat
    BY <1>1, FS_CardinalityType
  <1>3. CASE n <= m
    <2>1. {x \in S \cup {n} : x <= m} = A \cup {n}
      BY <1>3
    <2>2. Cardinality(A \cup {n}) = Cardinality(A) + 1
      BY <1>1, FS_AddElement
    <2> QED
      BY <1>3, <2>1, <2>2
  <1>4. CASE ~(n <= m)
    <2>1. {x \in S \cup {n} : x <= m} = A
      BY <1>4
    <2> QED
      BY <1>2, <1>4, <2>1
  <1> QED
    BY <1>3, <1>4

\* What Places and Listing say, of this state and of the next.
Enumerated ==
  open \in SUBSET Numbers =>
    /\ open \in SUBSET Nat /\ IsFiniteSet(open)
    /\ Len(Ordered) = Cardinality(open) /\ Len(Ordered) \in Nat
    /\ \A m, n \in open : m < n => Place(m) < Place(n)
    /\ \A k \in 1..Len(Ordered) : Ordered[k] \in open /\ Place(Ordered[k]) = k
    /\ \A n \in open : Place(n) \in 1..Len(Ordered) /\ Ordered[Place(n)] = n

LEMMA EnumeratedNow == Enumerated
  <1> SUFFICES ASSUME open \in SUBSET Numbers PROVE Enumerated
    BY DEF Enumerated
  <1>1. open \in SUBSET Nat /\ IsFiniteSet(open)
    BY SnapshotAssumption, FS_Subset
  <1> QED
    BY <1>1, Places, Listing DEF Enumerated

LEMMA EnumeratedNext == Enumerated'
  BY EnumeratedNow, PTL

\* An added number moves those after it by one place.
LEMMA Moved ==
  /\ \A n \in Numbers : open \in SUBSET Numbers /\ n \notin open /\ open' = open \cup {n} =>
       /\ \A m \in open : Place(m)' = Place(m) + (IF n <= m THEN 1 ELSE 0)
       /\ Len(Ordered)' = Len(Ordered) + 1
  /\ \A n \in open : open \in SUBSET Numbers /\ open' = open \ {n} =>
       /\ \A m \in open' : Place(m) = Place(m)' + (IF n <= m THEN 1 ELSE 0)
       /\ Len(Ordered) = Len(Ordered)' + 1
  <1>1. ASSUME NEW n \in Numbers, open \in SUBSET Numbers, n \notin open, open' = open \cup {n}
        PROVE  /\ \A m \in open : Place(m)' = Place(m) + (IF n <= m THEN 1 ELSE 0)
               /\ Len(Ordered)' = Len(Ordered) + 1
    <2>1. /\ open \in SUBSET Nat /\ IsFiniteSet(open) /\ n \in Nat
          /\ open' \in SUBSET Numbers
      BY <1>1, EnumeratedNow, SnapshotAssumption DEF Enumerated
    <2>2. \A m \in open : Place(m)' = Place(m) + (IF n <= m THEN 1 ELSE 0)
      BY <1>1, <2>1, Grown DEF Place
    <2>3. Cardinality(open') = Cardinality(open) + 1
      BY <1>1, <2>1, FS_AddElement
    <2> QED
      BY <1>1, <2>1, <2>2, <2>3, EnumeratedNow, EnumeratedNext DEF Enumerated
  <1>2. ASSUME NEW n \in open, open \in SUBSET Numbers, open' = open \ {n}
        PROVE  /\ \A m \in open' : Place(m) = Place(m)' + (IF n <= m THEN 1 ELSE 0)
               /\ Len(Ordered) = Len(Ordered)' + 1
    <2>1. /\ open' \in SUBSET Nat /\ n \in Nat /\ n \notin open' /\ open = open' \cup {n}
          /\ open' \in SUBSET Numbers
      BY <1>2, SnapshotAssumption
    <2>2. IsFiniteSet(open')
      BY <2>1, EnumeratedNext DEF Enumerated
    <2>3. \A m \in open' : Place(m) = Place(m)' + (IF n <= m THEN 1 ELSE 0)
      BY <2>1, <2>2, Grown DEF Place
    <2>4. Cardinality(open) = Cardinality(open') + 1
      BY <2>1, <2>2, FS_AddElement
    <2> QED
      BY <1>2, <2>1, <2>3, <2>4, EnumeratedNow, EnumeratedNext DEF Enumerated
  <1> QED
    BY <1>1, <1>2

\* What is before an added or a removed number keeps its place.
LEMMA EarlierStay ==
  ASSUME open \in SUBSET Numbers, open' \in SUBSET Numbers,
         NEW n \in Numbers, NEW k \in Nat, k <= Len(Ordered),
         \/ n \in open /\ open' = open \ {n} /\ Place(n) > k
         \/ n \notin open /\ open' = open \cup {n} /\ Place(n)' > k
  PROVE  k <= Len(Ordered)' /\ \A i \in 1..k : Ordered'[i] = Ordered[i]
  <1>1. CASE n \in open /\ open' = open \ {n} /\ Place(n) > k
    <2>1. /\ \A m \in open' : Place(m) = Place(m)' + (IF n <= m THEN 1 ELSE 0)
          /\ Len(Ordered) = Len(Ordered)' + 1
      BY <1>1, Moved
    <2>2. Place(n) \in 1..Len(Ordered) /\ Len(Ordered) \in Nat /\ Len(Ordered)' \in Nat
      BY <1>1, EnumeratedNow, EnumeratedNext DEF Enumerated
    <2>3. k <= Len(Ordered)'
      BY <1>1, <2>1, <2>2
    <2>4. ASSUME NEW i \in 1..k
          PROVE  Ordered'[i] = Ordered[i]
      <3>1. PICK m \in open : m = Ordered[i] /\ Place(m) = i
        BY <2>2, EnumeratedNow DEF Enumerated
      <3>2. m \in Nat /\ n \in Nat
        BY SnapshotAssumption
      <3>3. m < n
        BY <1>1, <2>2, <3>1, <3>2, EnumeratedNow DEF Enumerated
      <3>4. m \in open' /\ Place(m)' \in Nat
        BY <1>1, <2>2, <3>2, <3>3, EnumeratedNext DEF Enumerated
      <3>5. Place(m)' = i
        BY <2>1, <3>1, <3>2, <3>3, <3>4
      <3> QED
        BY <3>1, <3>4, <3>5, EnumeratedNext DEF Enumerated
    <2> QED
      BY <2>3, <2>4
  <1>2. CASE n \notin open /\ open' = open \cup {n} /\ Place(n)' > k
    <2>1. /\ \A m \in open : Place(m)' = Place(m) + (IF n <= m THEN 1 ELSE 0)
          /\ Len(Ordered)' = Len(Ordered) + 1
      BY <1>2, Moved
    <2>2. Len(Ordered) \in Nat /\ Place(n)' \in Nat
      BY <1>2, EnumeratedNow, EnumeratedNext DEF Enumerated
    <2>3. k <= Len(Ordered)'
      BY <2>1, <2>2
    <2>4. ASSUME NEW i \in 1..k
          PROVE  Ordered'[i] = Ordered[i]
      <3>1. PICK m \in open : m = Ordered[i] /\ Place(m) = i
        BY <2>2, EnumeratedNow DEF Enumerated
      <3>2. m \in Nat /\ n \in Nat /\ m # n /\ m \in open' /\ n \in open'
        BY <1>2, SnapshotAssumption
      <3>3. n < m => Place(m)' = i + 1 /\ Place(n)' < Place(m)'
        BY <2>1, <3>1, <3>2, EnumeratedNext DEF Enumerated
      <3>4. m < n
        BY <1>2, <2>2, <3>2, <3>3
      <3>5. Place(m)' = i
        BY <2>1, <3>1, <3>2, <3>4
      <3> QED
        BY <3>1, <3>2, <3>5, EnumeratedNext DEF Enumerated
    <2> QED
      BY <2>3, <2>4
  <1> QED
    BY <1>1, <1>2

\* A listing stays steady while what it has passed keeps its places.
LEMMA StaysSteady ==
  ASSUME NEW h, listed = Prefix(h, Offset), Offset \in Nat,
         UNCHANGED <<page, listed>>,
         Offset <= Len(Ordered)', \A i \in 1..Offset : Ordered'[i] = Ordered[i],
         \A m \in open' : Place(m)' > Offset => h[m] = head'[m],
         {m \in open' : h[m] = "event"} # {Target}
  PROVE  Steady(h)'
  <1>1. Offset' = Offset
    BY DEF Offset
  <1>2. PICK k \in Nat : k = Offset
    OBVIOUS
  <1>3. [i \in 1..k |-> <<Ordered'[i], h[Ordered'[i]]>>]
          = [i \in 1..k |-> <<Ordered[i], h[Ordered[i]]>>]
    BY <1>2
  <1>4. listed' = Prefix(h, k)'
    BY <1>2, <1>3 DEF Prefix
  <1> QED
    BY <1>1, <1>2, <1>4 DEF Steady

LEMMA OffsetType == page \in Nat \ {0} => Offset \in Nat
  <1> SUFFICES ASSUME page \in Nat \ {0} PROVE Offset \in Nat
    OBVIOUS
  <1>1. page - 1 \in Nat /\ PageSize \in Nat
    BY SnapshotAssumption
  <1> QED
    BY <1>1 DEF Offset

\* What a steady listing has shown is open.
LEMMA SteadyShows ==
  ASSUME Bounded, NEW h, Steady(h)
  PROVE  /\ Shown(listed) = {Ordered[i] : i \in 1..Offset}
         /\ Shown(listed) \in SUBSET open
  <1>1. PICK k \in Nat : k = Offset
    BY OffsetType DEF Bounded
  <1>2. listed = [i \in 1..k |-> <<Ordered[i], h[Ordered[i]]>>]
    BY <1>1 DEF Steady, Prefix
  <1>3. Shown(listed) = {Ordered[i] : i \in 1..k}
    BY <1>2 DEF Shown
  <1>4. \A i \in 1..k : Ordered[i] \in open
    BY <1>1, EnumeratedNow DEF Enumerated, Bounded, Steady
  <1> QED
    BY <1>1, <1>3, <1>4

\* A pull request that closes is still to come, or has been shown.
LEMMA CloseSplits ==
  ASSUME Bounded, Steady(head), NEW n \in Numbers, Close(n), ~Unique'
  PROVE  Steady(head)' \/ Gone(listed)'
  <1>1. /\ n \in open /\ open' = open \ {n} /\ head' = head
        /\ UNCHANGED <<page, listed>>
    BY DEF Close, Change, validator
  <1>2. PICK k \in Nat : k = Offset
    BY OffsetType DEF Bounded
  <1>3. open \in SUBSET Numbers /\ open' \in SUBSET Numbers
    BY <1>1 DEF Bounded
  <1>4. Place(n) \in 1..Len(Ordered) /\ Ordered[Place(n)] = n
    BY <1>1, <1>3, EnumeratedNow DEF Enumerated
  <1>5. CASE Place(n) > k
    <2>1. PICK h : h = head
      OBVIOUS
    <2>2. k <= Len(Ordered)' /\ \A i \in 1..k : Ordered'[i] = Ordered[i]
      BY <1>1, <1>2, <1>3, <1>5, EarlierStay DEF Steady
    <2>3. {m \in open' : h[m] = "event"} # {Target}
      BY <1>1, <2>1 DEF Unique, Holders
    <2>4. Steady(h)'
      BY <1>1, <1>2, <2>1, <2>2, <2>3, StaysSteady DEF Steady
    <2> QED
      BY <1>1, <2>1, <2>4 DEF Steady
  <1>6. CASE ~(Place(n) > k)
    <2>1. Place(n) \in 1..k
      BY <1>4, <1>6
    <2>2. n \in Shown(listed)
      BY <1>2, <1>4, <2>1, SteadyShows
    <2> QED
      BY <1>1, <2>2 DEF Gone, Shown
  <1> QED
    BY <1>5, <1>6

\* One that reopens is still to come, or pushes one that has been shown onto the
\* next page.
LEMMA ReopenSplits ==
  ASSUME Bounded, Steady(head), NEW n \in Numbers, Reopen(n), ~Unique'
  PROVE  Steady(head)' \/ Doubled'
  <1>1. /\ n \notin open /\ open' = open \cup {n} /\ head' = head
        /\ UNCHANGED <<page, listed>>
    BY DEF Reopen, Change, validator
  <1>2. PICK k \in Nat : k = Offset
    BY OffsetType DEF Bounded
  <1>3. open \in SUBSET Numbers /\ open' \in SUBSET Numbers
    BY <1>1 DEF Bounded
  <1>4. /\ Place(n)' \in 1..Len(Ordered)' /\ Len(Ordered)' \in Nat
        /\ Len(Ordered) \in Nat
    BY <1>1, <1>3, EnumeratedNow, EnumeratedNext DEF Enumerated
  <1>5. CASE Place(n)' > k
    <2>1. PICK h : h = head
      OBVIOUS
    <2>2. k <= Len(Ordered)' /\ \A i \in 1..k : Ordered'[i] = Ordered[i]
      BY <1>1, <1>2, <1>3, <1>5, EarlierStay DEF Steady
    <2>3. {m \in open' : h[m] = "event"} # {Target}
      BY <1>1, <2>1 DEF Unique, Holders
    <2>4. Steady(h)'
      BY <1>1, <1>2, <2>1, <2>2, <2>3, StaysSteady DEF Steady
    <2> QED
      BY <1>1, <2>1, <2>4 DEF Steady
  <1>6. CASE ~(Place(n)' > k)
    <2>1. Place(n)' <= k /\ k \in 1..Len(Ordered)
      BY <1>2, <1>4, <1>6 DEF Steady
    <2>2. PICK m \in open : m = Ordered[k] /\ Place(m) = k
      BY <1>3, <2>1, EnumeratedNow DEF Enumerated
    <2>3. /\ Place(m)' = Place(m) + (IF n <= m THEN 1 ELSE 0)
          /\ Len(Ordered)' = Len(Ordered) + 1
      BY <1>1, <1>3, Moved
    <2>4. m \in Nat /\ n \in Nat /\ m # n /\ m \in open' /\ n \in open'
      BY <1>1, <1>3, SnapshotAssumption
    <2>5. m < n => Place(m)' = k /\ Place(m)' < Place(n)'
      BY <1>3, <2>2, <2>3, <2>4, EnumeratedNext DEF Enumerated
    <2>6. Place(m)' = k + 1
      BY <1>4, <2>1, <2>2, <2>3, <2>4, <2>5
    <2>7. Ordered'[k + 1] = m /\ k + 1 <= Len(Ordered)'
      BY <1>3, <1>4, <2>1, <2>3, <2>4, <2>6, EnumeratedNext DEF Enumerated
    <2>8. k \in 1..k
      BY <2>1
    <2>9. m \in Shown(listed)
      BY <1>2, <2>2, <2>8, SteadyShows
    <2>10. Offset' = k /\ Shown(listed)' = Shown(listed)
      BY <1>1, <1>2 DEF Offset, Shown
    <2> QED
      BY <2>7, <2>9, <2>10 DEF Doubled
  <1> QED
    BY <1>5, <1>6

\* A head that moves is one still to come, or was shown as it was.
LEMMA PushSplits ==
  ASSUME Bounded, Steady(head), NEW n \in Numbers, Push(n), ~Unique, ~Unique'
  PROVE  Steadily'
  <1>1. /\ n \in open /\ open' = open /\ UNCHANGED <<page, listed>>
        /\ head' = [head EXCEPT ![n] = CHOOSE s \in Shas : s # head[n]]
    BY DEF Push, Change, validator
  <1>2. PICK k \in Nat : k = Offset
    BY OffsetType DEF Bounded
  <1>3. Ordered' = Ordered /\ \A m : Place(m)' = Place(m)
    BY <1>1 DEF Ordered, Place
  <1>4. head \in [Numbers -> Shas] /\ open \in SUBSET Numbers /\ k <= Len(Ordered)
    BY <1>2 DEF Bounded, Steady
  <1>5. head' \in [Numbers -> Shas]
    <2>1. PICK s \in Shas : s # head[n]
      BY DEF Shas
    <2>2. (CHOOSE t \in Shas : t # head[n]) \in Shas
      BY <2>1
    <2> QED
      BY <1>1, <1>4, <2>2
  <1>6. \A m \in open : m # n => head'[m] = head[m]
    BY <1>1, <1>4
  <1>7. CASE Place(n) > k
    <2>1. PICK h \in [Numbers -> Shas] : h = head'
      BY <1>5
    <2>2. \A i \in 1..k : h[Ordered[i]] = head[Ordered[i]]
      <3> TAKE i \in 1..k
      <3>1. i \in 1..Len(Ordered) /\ ~(i > k)
        BY <1>2, <1>4, EnumeratedNow DEF Enumerated
      <3>2. Ordered[i] \in open /\ Place(Ordered[i]) = i
        BY <1>4, <3>1, EnumeratedNow DEF Enumerated
      <3>3. Ordered[i] # n
        BY <1>7, <3>1, <3>2
      <3> QED
        BY <1>6, <2>1, <3>2, <3>3
    <2>3. listed = Prefix(h, k)
      BY <1>2, <2>2 DEF Steady, Prefix
    <2>4. {m \in open' : h[m] = "event"} # {Target}
      BY <2>1 DEF Unique, Holders
    <2>5. Steady(h)'
      BY <1>1, <1>2, <1>3, <1>4, <2>1, <2>3, <2>4, StaysSteady
    <2> QED
      BY <2>1, <2>5 DEF Steadily
  <1>8. CASE ~(Place(n) > k)
    <2>1. PICK h \in [Numbers -> Shas] : h = head
      BY <1>4
    <2>2. \A m \in open' : Place(m)' > k => h[m] = head'[m]
      BY <1>1, <1>3, <1>6, <1>8, <2>1
    <2>3. {m \in open' : h[m] = "event"} # {Target}
      BY <1>1, <2>1 DEF Unique, Holders
    <2>4. listed = Prefix(h, k)
      BY <1>2, <2>1 DEF Steady
    <2>5. Steady(h)'
      BY <1>1, <1>2, <1>3, <1>4, <2>2, <2>3, <2>4, StaysSteady
    <2> QED
      BY <2>1, <2>5 DEF Steadily
  <1> QED
    BY <1>7, <1>8

LEMMA EditSplits ==
  ASSUME Bounded, Steady(head), Edit, ~Unique'
  PROVE  Steady(head)'
  <1>1. open' = open /\ head' = head /\ UNCHANGED <<page, listed>>
    BY DEF Edit, Change, validator
  <1>2. Ordered' = Ordered /\ \A m : Place(m)' = Place(m)
    BY <1>1 DEF Ordered, Place
  <1>3. PICK h : h = head
    OBVIOUS
  <1>4. {m \in open' : h[m] = "event"} # {Target}
    BY <1>1, <1>3 DEF Unique, Holders
  <1>5. Offset \in Nat
    BY OffsetType DEF Bounded
  <1>6. Steady(h)'
    BY <1>1, <1>2, <1>3, <1>4, <1>5, StaysSteady DEF Steady
  <1> QED
    BY <1>1, <1>3, <1>6 DEF Steady

\* A change of the repository that is not a reopening.
Shrinks == (\E n \in Numbers : Close(n) \/ Push(n)) \/ Edit

\* The first change to a steady listing, and one in the second snapshot, whose
\* first shows a number that is closed.
LEMMA FirstChange ==
  ASSUME Bounded, Steady(head), ~Unique, ~Unique',
         Shrinks \/ \E n \in Numbers : Reopen(n)
  PROVE  Steadily' \/ Doubled' \/ Gone(listed)'
  <1>1. head' \in [Numbers -> Shas] => (Steady(head)' => Steadily')
    <2>1. PICK h : h = head'
      OBVIOUS
    <2>2. Steady(head)' => Steady(h)'
      BY <2>1 DEF Steady
    <2> QED
      BY <2>1, <2>2 DEF Steadily
  <1>2. \A n \in Numbers : Close(n) \/ Reopen(n) => head' = head
    BY DEF Close, Reopen
  <1>3. Edit => head' = head
    BY DEF Edit
  <1> QED
    BY <1>1, <1>2, <1>3, CloseSplits, ReopenSplits, PushSplits, EditSplits
       DEF Shrinks, Bounded

LEMMA SecondChange ==
  ASSUME Bounded, Steady(head), ~Unique, ~Unique', Gone(first[1].pulls),
         Shrinks \/ \E n \in Numbers : Reopen(n)
  PROVE  Steadily' \/ Doubled' \/ Missed'
  <1>1. CASE Shrinks
    <2>1. open' \in SUBSET open /\ UNCHANGED <<first, listed>>
      BY <1>1 DEF Shrinks, Close, Push, Edit, Change, validator
    <2>2. PICK x \in Shown(first[1].pulls) : x \notin open
      BY DEF Gone
    <2>3. x \notin open' /\ x \notin Shown(listed)
      BY <2>1, <2>2, SteadyShows
    <2> QED
      BY <2>1, <2>2, <2>3 DEF Missed, Shown
  <1>2. CASE \E n \in Numbers : Reopen(n)
    <2>1. PICK n \in Numbers : Reopen(n)
      BY <1>2
    <2>2. PICK h : h = head
      OBVIOUS
    <2>3. h \in [Numbers -> Shas] /\ head' = head
      BY <2>1, <2>2 DEF Bounded, Reopen
    <2>4. Steady(head)' => Steady(h)'
      BY <2>2, <2>3 DEF Steady
    <2> QED
      BY <2>1, <2>3, <2>4, ReopenSplits DEF Steadily
  <1> QED
    BY <1>1, <1>2

\* Every change of the repository keeps the split.
LEMMA ChangeSplits ==
  ASSUME Split, MaxChanges <= 2, Shrinks \/ \E n \in Numbers : Reopen(n)
  PROVE  Split'
  <1>1. Change
    BY DEF Shrinks, Close, Push, Edit, Reopen
  <1>2. /\ UNCHANGED <<at, page, listed, first, result>> /\ at # "done"
        /\ changes' = changes + 1 /\ changes < MaxChanges
        /\ sole' = (sole \/ Unique')
    BY <1>1 DEF Change, validator
  <1>3. open' \in SUBSET Numbers
    BY DEF Shrinks, Close, Push, Edit, Reopen, Split, Bounded
  <1>4. head' \in [Numbers -> Shas]
    <2>1. head \in [Numbers -> Shas]
      BY DEF Split, Bounded
    <2>2. ASSUME NEW n \in Numbers, Push(n)
          PROVE  head' \in [Numbers -> Shas]
      <3>1. PICK s \in Shas : s # head[n]
        BY DEF Shas
      <3>2. (CHOOSE t \in Shas : t # head[n]) \in Shas
        BY <3>1
      <3> QED
        BY <2>1, <2>2, <3>2 DEF Push
    <2> QED
      BY <2>1, <2>2 DEF Shrinks, Close, Edit, Reopen
  <1>5. Bounded'
    BY <1>2, <1>3, <1>4, SnapshotAssumption DEF Split, Bounded, Unique
  <1>6. ASSUME ~sole'
        PROVE  Refusable'
    <2>1. ~Unique' /\ ~sole /\ Refusable /\ ~Unique /\ Bounded
      BY <1>2, <1>6 DEF Split, Bounded, Refusable
    <2>2. changes = 0 \/ changes = 1
      BY <1>2, <2>1, SnapshotAssumption DEF Bounded
    <2>3. CASE first = <<>>
      <3>1. changes = 0 /\ at = "list" => Steadily' \/ Doubled' \/ Gone(listed)'
        BY <2>1, <2>3, FirstChange DEF Refusable
      <3>2. changes' = 1 => changes = 0
        BY <1>2, <2>2
      <3>3. changes' # 0
        BY <1>2, <2>2
      <3> QED
        BY <1>2, <2>1, <2>3, <3>1, <3>2, <3>3 DEF Refusable
    <2>4. CASE first # <<>>
      <3>1. changes = 1 /\ changes' = 2 /\ Gone(first[1].pulls)
        BY <1>2, <2>1, <2>2, <2>4 DEF Refusable
      <3>2. at = "list" => Steadily' \/ Doubled' \/ Missed'
        BY <2>1, <2>4, <3>1, SecondChange DEF Refusable
      <3> QED
        BY <1>2, <2>1, <2>4, <3>1, <3>2 DEF Refusable
    <2> QED
      BY <2>3, <2>4
  <1> QED
    BY <1>5, <1>6 DEF Split

\* A step of the validator that leaves the repository and the listing.
LEMMA HubBounded ==
  ASSUME Bounded, UNCHANGED hub, page' \in Nat \ {0}, sole' = sole,
         listed' \in Seq(Numbers \X Shas)
  PROVE  Bounded' /\ Unique' = Unique /\ Ordered' = Ordered
         /\ \A m : Place(m)' = Place(m)
  BY DEF Bounded, hub, Unique, Holders, Ordered, Place

\* A new listing is steady if Target is not alone.
LEMMA BeginsSteady ==
  ASSUME Bounded, UNCHANGED hub, page' = 1, listed' = <<>>, ~Unique
  PROVE  Steady(head)' /\ Steadily'
  <1>1. /\ open' = open /\ head' = head /\ Ordered' = Ordered
        /\ \A m : Place(m)' = Place(m)
    BY DEF hub, Ordered, Place
  <1>2. PICK h \in [Numbers -> Shas] : h = head
    BY DEF Bounded
  <1>3. Offset' = 0
    BY SnapshotAssumption DEF Offset
  <1>4. Len(Ordered) \in Nat
    BY EnumeratedNow DEF Enumerated, Bounded
  <1>5. listed' = Prefix(h, 0)'
    BY DEF Prefix
  <1>6. {m \in open : h[m] = "event"} # {Target}
    BY <1>2 DEF Unique, Holders
  <1>7. Steady(h)'
    BY <1>1, <1>2, <1>3, <1>4, <1>5, <1>6 DEF Steady
  <1> QED
    BY <1>1, <1>2, <1>7 DEF Steady, Steadily

\* Where a link leads.
LEMMA LinkLeads ==
  ASSUME Bounded, NEW link \in Links(page)
  PROVE  /\ link.next = 0 \/ (link.next = page + 1 /\ page < PageCount)
         /\ link.next = 0 => page >= PageCount
  <1>1. PICK C \in Nat : C = PageCount
    BY Paged DEF Bounded
  <1>2. PICK p \in Nat \ {0} : p = page
    BY DEF Bounded
  <1>3. CASE p > 1 /\ p > C
    BY <1>1, <1>2, <1>3 DEF Links, NoLink, Linked
  <1>4. CASE ~(p > 1 /\ p > C)
    <2>1. link.next = IF p < C THEN p + 1 ELSE 0
      BY <1>1, <1>2, <1>4 DEF Links, Linked
    <2> QED
      BY <1>1, <1>2, <2>1
  <1> QED
    BY <1>3, <1>4

\* What one page does, by where its link leads.
Seen ==
  listed \o [k \in DOMAIN PageOf(page) |-> <<PageOf(page)[k], head[PageOf(page)[k]]>>]

LEMMA PageTurns ==
  ASSUME Bounded, ListPage
  PROVE  /\ UNCHANGED <<hub, sole, pulled>> /\ listed' = Seen
         /\ \/ at' = "done" /\ result' \in {"FAIL", "INCONCLUSIVE"}
               /\ UNCHANGED <<page, first>>
            \/ /\ ~Repeated(PageOf(page))
               /\ page < PageCount /\ page' = page + 1
               /\ UNCHANGED <<at, first, result>>
            \/ /\ ~Repeated(PageOf(page))
               /\ page >= PageCount /\ page' = page
               /\ {Seen[k][1] : k \in Candidates(Seen)} = {Target}
               /\ result' = result
               /\ \/ first = <<>> /\ at' = "commit" /\ first' # <<>>
                     /\ first'[1].pulls = Seen
                  \/ first # <<>> /\ first[1].pulls = Seen /\ at' = "compare"
                     /\ first' = first
  <1> DEFINE numbers == PageOf(page)
             seen == listed \o [k \in DOMAIN numbers |-> <<numbers[k], head[numbers[k]]>>]
             whole == [pulls |-> seen, body |-> IF RequireBody THEN pulled ELSE None]
  <1>1. seen = Seen
    BY DEF Seen
  <1>2. PICK link \in Links(page) :
           /\ listed' = seen /\ last' = KnownLast(link)
           /\ IF Repeated(numbers) \/ Contradicts(link) \/ Over(link)
              THEN Verdict("INCONCLUSIVE") /\ UNCHANGED <<page, first>>
              ELSE IF link.next # 0
              THEN page' = link.next /\ UNCHANGED <<at, first, result>>
              ELSE /\ UNCHANGED page
                   /\ IF {seen[k][1] : k \in Candidates(seen)} = {Target}
                      THEN SnapshotEnds(whole)
                      ELSE Verdict("FAIL") /\ UNCHANGED first
    BY DEF ListPage
  <1>3. UNCHANGED <<hub, sole, pulled>>
    BY DEF ListPage
  <1>4. whole.pulls = seen
    OBVIOUS
  <1> HIDE DEF seen, whole, numbers
  <1>5. numbers = PageOf(page)
    BY DEF numbers
  <1>6. /\ link.next = 0 \/ (link.next = page + 1 /\ page < PageCount)
        /\ link.next = 0 => page >= PageCount
    BY LinkLeads
  <1>7. CASE Repeated(numbers) \/ Contradicts(link) \/ Over(link)
    BY <1>1, <1>2, <1>3, <1>7 DEF Verdict
  <1>8. CASE ~(Repeated(numbers) \/ Contradicts(link) \/ Over(link)) /\ link.next # 0
    BY <1>1, <1>2, <1>3, <1>5, <1>6, <1>8
  <1>9. CASE ~(Repeated(numbers) \/ Contradicts(link) \/ Over(link)) /\ link.next = 0
    <2>1. /\ UNCHANGED page
          /\ IF {seen[k][1] : k \in Candidates(seen)} = {Target}
             THEN SnapshotEnds(whole)
             ELSE Verdict("FAIL") /\ UNCHANGED first
      BY <1>2, <1>9
    <2>2. CASE {seen[k][1] : k \in Candidates(seen)} = {Target}
      <3>1. SnapshotEnds(whole)
        BY <2>1, <2>2
      <3>2. CASE first = <<>>
        <4>1. at' = "commit" /\ first' = <<whole>> /\ result' = result
          BY <3>1, <3>2 DEF SnapshotEnds
        <4>2. first' # <<>> /\ first'[1].pulls = Seen
          BY <1>1, <1>4, <4>1
        <4> QED
          BY <1>1, <1>2, <1>3, <1>5, <1>6, <1>9, <2>1, <2>2, <3>2, <4>1, <4>2
      <3>3. CASE first # <<>> /\ first = <<whole>>
        <4>1. at' = "compare" /\ first' = first /\ result' = result
          BY <3>1, <3>3 DEF SnapshotEnds
        <4>2. first[1].pulls = Seen
          BY <1>1, <1>4, <3>3
        <4> QED
          BY <1>1, <1>2, <1>3, <1>5, <1>6, <1>9, <2>1, <2>2, <3>3, <4>1, <4>2
      <3>4. CASE first # <<>> /\ first # <<whole>>
        BY <1>1, <1>2, <1>3, <2>1, <3>1, <3>4 DEF SnapshotEnds, Verdict
      <3> QED
        BY <3>2, <3>3, <3>4
    <2>3. CASE {seen[k][1] : k \in Candidates(seen)} # {Target}
      BY <1>1, <1>2, <1>3, <2>1, <2>3 DEF Verdict
    <2> QED
      BY <2>2, <2>3
  <1> QED
    BY <1>7, <1>8, <1>9

\* A page shows open pull requests, after what was listed before.
LEMMA SeenShows ==
  ASSUME Bounded
  PROVE  /\ Seen \in Seq(Numbers \X Shas)
         /\ Shown(listed) \in SUBSET Shown(Seen)
         /\ Shown(Seen) \in SUBSET (Shown(listed) \cup open)
  <1>1. PICK T : T = Numbers \X Shas
    OBVIOUS
  <1>2. PICK a \in Nat : a = (page - 1) * PageSize
    BY PageBounds DEF Bounded
  <1>3. PICK b \in Nat : b = Until(page) /\ b <= Len(Ordered)
    BY PageBounds DEF Bounded
  <1>4. PICK numbers : numbers = PageOf(page)
    OBVIOUS
  <1>5. numbers = [k \in 1..(b - a) |-> Ordered[k + a]]
    BY <1>2, <1>3, <1>4, PageShows DEF Bounded
  <1>6. PICK c \in Nat : 1..(b - a) = 1..c
    <2>1. CASE a <= b
      <3>1. b - a \in Nat
        BY <2>1
      <3> QED
        BY <3>1
    <2>2. CASE ~(a <= b)
      <3>1. 1..(b - a) = 1..0
        BY <2>2
      <3> QED
        BY <3>1
    <2> QED
      BY <2>1, <2>2
  <1>7. \A k \in 1..c : numbers[k] \in open
    <2> TAKE k \in 1..c
    <2>1. k \in 1..(b - a)
      BY <1>6
    <2>2. k + a \in 1..Len(Ordered)
      BY <1>3, <2>1, EnumeratedNow DEF Enumerated, Bounded
    <2> QED
      BY <1>5, <2>1, <2>2, EnumeratedNow DEF Enumerated, Bounded
  <1>8. DOMAIN numbers = 1..c
    BY <1>5, <1>6
  <1>9. PICK more : more = [k \in 1..c |-> <<numbers[k], head[numbers[k]]>>]
    OBVIOUS
  <1>10. more \in [1..c -> T] /\ \A k \in 1..c : more[k][1] \in open
    <2>1. \A n \in open : n \in Numbers /\ head[n] \in Shas
      BY DEF Bounded
    <2> QED
      BY <1>1, <1>7, <1>9, <2>1
  <1>11. more \in Seq(T) /\ Len(more) = c
    BY <1>10, Sequenced
  <1>12. PICK l \in Nat : l = Len(listed) /\ DOMAIN listed = 1..l /\ listed \in Seq(T)
    BY <1>1 DEF Bounded
  <1>13. Seen = listed \o more
    BY <1>4, <1>8, <1>9 DEF Seen
  <1>14. PICK seen : seen = listed \o more
    OBVIOUS
  <1>15. /\ seen \in Seq(T) /\ Len(seen) = l + c
         /\ \A i \in 1..(l + c) : seen[i] = IF i <= l THEN listed[i] ELSE more[i - l]
    BY <1>11, <1>12, <1>14, ConcatProperties
  <1>16. DOMAIN seen = 1..(l + c)
    BY <1>15
  <1>17. \A i \in 1..l : i \in 1..(l + c) /\ seen[i] = listed[i]
    BY <1>15
  <1>18. ASSUME NEW i \in 1..(l + c)
         PROVE  seen[i][1] \in Shown(listed) \cup open
    <2>1. CASE i <= l
      <3>1. i \in 1..l
        BY <2>1
      <3> QED
        BY <1>12, <1>17, <3>1 DEF Shown
    <2>2. CASE ~(i <= l)
      <3>1. i - l \in 1..c
        BY <2>2
      <3>2. seen[i] = more[i - l]
        BY <1>15, <2>2
      <3> QED
        BY <1>10, <3>1, <3>2
    <2> QED
      BY <2>1, <2>2
  <1>19. Shown(listed) \in SUBSET Shown(seen)
    BY <1>12, <1>16, <1>17 DEF Shown
  <1>20. Shown(seen) \in SUBSET (Shown(listed) \cup open)
    BY <1>16, <1>18 DEF Shown
  <1> QED
    BY <1>1, <1>13, <1>14, <1>15, <1>19, <1>20

\* The page after a shift repeats the number that was moved onto it.
LEMMA DoubledRepeats == Bounded /\ Doubled => Repeated(PageOf(page))
  <1> SUFFICES ASSUME Bounded, Doubled PROVE Repeated(PageOf(page))
    OBVIOUS
  <1>1. PICK a \in Nat : a = (page - 1) * PageSize
    BY PageBounds DEF Bounded
  <1>2. PICK b \in Nat : b = Until(page) /\ b <= Len(Ordered)
    BY PageBounds DEF Bounded
  <1>3. PICK q \in Nat : q = page * PageSize /\ a < q
    BY <1>1, PageBounds DEF Bounded
  <1>4. PICK N \in Nat : N = Len(Ordered) /\ a + 1 <= N
    BY <1>1, EnumeratedNow DEF Enumerated, Bounded, Doubled, Offset
  <1>5. 1 \in 1..(b - a)
    <2>1. b = IF q <= N THEN q ELSE N
      BY <1>2, <1>3, <1>4 DEF Until
    <2> QED
      BY <1>3, <1>4, <2>1
  <1>6. PICK numbers : numbers = PageOf(page)
    OBVIOUS
  <1>7. numbers = [k \in 1..(b - a) |-> Ordered[k + a]]
    BY <1>1, <1>2, <1>6, PageShows DEF Bounded
  <1>8. 1 \in DOMAIN numbers /\ numbers[1] = Ordered[a + 1]
    <2>1. 1 + a = a + 1
      OBVIOUS
    <2> QED
      BY <1>5, <1>7, <2>1
  <1>9. PICK i \in DOMAIN listed : listed[i][1] = Ordered[a + 1]
    BY <1>1 DEF Doubled, Offset, Shown
  <1> QED
    BY <1>6, <1>8, <1>9 DEF Repeated, ToSet

\* A steady listing stays so, and shows at its end that Target is not alone.
LEMMA SteadyTurns ==
  ASSUME Bounded, NEW h, Steady(h)
  PROVE  /\ page < PageCount /\ UNCHANGED hub /\ page' = page + 1 /\ listed' = Seen
              => Steady(h)'
         /\ page >= PageCount => {Seen[k][1] : k \in Candidates(Seen)} # {Target}
  <1>1. open \in SUBSET Numbers /\ page \in Nat \ {0}
    BY DEF Bounded
  <1>2. Seen = Prefix(h, Until(page))
    <2>1. PICK numbers : numbers = PageOf(page)
      OBVIOUS
    <2>2. /\ (page - 1) * PageSize <= Len(Ordered)
          /\ listed = Prefix(h, (page - 1) * PageSize)
          /\ \A n \in open : Place(n) > (page - 1) * PageSize => h[n] = head[n]
      BY DEF Steady, Offset
    <2>3. listed \o [k \in DOMAIN numbers |-> <<numbers[k], head[numbers[k]]>>]
            = Prefix(h, Until(page))
      BY <1>1, <2>1, <2>2, PageContinues
    <2> QED
      BY <2>1, <2>3 DEF Seen
  <1>3. ASSUME page < PageCount, UNCHANGED hub, page' = page + 1, listed' = Seen
        PROVE  Steady(h)'
    <2>1. /\ open' = open /\ head' = head /\ Ordered' = Ordered
          /\ \A m : Place(m)' = Place(m)
      BY <1>3 DEF hub, Ordered, Place
    <2>2. PICK k \in Nat : k = page * PageSize
      BY <1>1, PageBounds
    <2>3. PICK a \in Nat : a = Offset /\ a < k
      BY <1>1, <2>2, PageBounds DEF Offset
    <2>4. Offset' = k
      BY <1>1, <1>3, <2>2, PageBounds DEF Offset
    <2>5. Until(page) = k /\ k < Len(Ordered) /\ Len(Ordered) \in Nat
      BY <1>1, <1>3, <2>2, PageBounds, Listing
    <2>6. listed' = Prefix(h, k)'
      BY <1>2, <1>3, <2>1, <2>5 DEF Prefix
    <2>7. \A n \in open : Place(n) > k => h[n] = head[n]
      <3> SUFFICES ASSUME NEW n \in open, Place(n) > k PROVE h[n] = head[n]
        OBVIOUS
      <3>1. Place(n) \in Nat
        BY <1>1, Listing
      <3>2. Place(n) > a
        BY <2>2, <2>3, <3>1
      <3> QED
        BY <2>3, <3>2 DEF Steady
    <2>8. k <= Len(Ordered)
      BY <2>2, <2>5
    <2> QED
      BY <2>1, <2>4, <2>6, <2>7, <2>8 DEF Steady
  <1>4. ASSUME page >= PageCount
        PROVE  {Seen[k][1] : k \in Candidates(Seen)} # {Target}
    <2>1. Seen = Prefix(h, Len(Ordered))
      BY <1>1, <1>2, <1>4, PageBounds
    <2>2. {Seen[k][1] : k \in Candidates(Seen)} = {n \in open : h[n] = "event"}
      BY <1>1, <2>1, WholeCandidates
    <2> QED
      BY <2>2 DEF Steady
  <1> QED
    BY <1>3, <1>4

\* A page leaves what is open, so what is gone stays gone.
LEMMA ListPageSplits ==
  ASSUME Split, MaxChanges <= 2, ListPage
  PROVE  Split'
  <1> USE DEF Split
  <1>1. /\ UNCHANGED hub /\ sole' = sole /\ listed' = Seen /\ at = "list"
        /\ open' = open /\ head' = head /\ changes' = changes
    BY PageTurns DEF ListPage, hub
  <1>2. page' \in Nat \ {0}
    <2>1. page' = page \/ page' = page + 1
      BY PageTurns
    <2> QED
      BY <2>1 DEF Bounded
  <1>3. Bounded' /\ Unique' = Unique
    BY <1>1, <1>2, SeenShows, HubBounded
  <1> SUFFICES ASSUME ~sole PROVE Refusable'
    BY <1>1, <1>3
  <1>4. Refusable /\ ~Unique /\ Bounded
    BY DEF Refusable
  <1>5. changes \in {0, 1, 2}
    BY <1>4, SnapshotAssumption DEF Bounded
  <1>6. first # <<>> => changes # 0 /\ (changes = 1 => Gone(first[1].pulls))
    BY <1>4 DEF Refusable
  <1>7. \A p : Gone(p)' = Gone(p)
    BY <1>1 DEF Gone, Shown
  <1>8. CASE /\ at' = "done" /\ result' \in {"FAIL", "INCONCLUSIVE"}
             /\ UNCHANGED <<page, first>>
    <2>1. first # <<>> /\ changes = 1 => Gone(first[1].pulls)'
      BY <1>6, <1>1, <1>8 DEF Gone, Shown
    <2> QED
      BY <1>1, <1>3, <1>4, <1>6, <1>8, <2>1 DEF Refusable
  <1>9. ASSUME ~Repeated(PageOf(page)) PROVE ~Doubled
    BY <1>4, <1>9, DoubledRepeats
  <1>10. Gone(listed) => Gone(Seen)
    BY <1>4, SeenShows DEF Gone
  <1>11. CASE /\ ~Repeated(PageOf(page))
              /\ page < PageCount /\ page' = page + 1
              /\ UNCHANGED <<at, first, result>>
    <2>1. ASSUME NEW h, Steady(h) PROVE Steady(h)'
      BY <1>1, <1>4, <1>11, <2>1, SteadyTurns
    <2>2. Steadily => Steadily'
      BY <2>1 DEF Steadily
    <2>3. Steady(head) => Steady(head)'
      <3>1. PICK h : h = head
        OBVIOUS
      <3>2. Steady(head) => Steady(h)'
        BY <2>1, <3>1 DEF Steady
      <3> QED
        BY <1>1, <3>1, <3>2 DEF Steady
    <2>4. Missed => Missed'
      <3> SUFFICES ASSUME Missed PROVE Missed'
        OBVIOUS
      <3>1. PICK x \in Shown(first[1].pulls) : x \notin open /\ x \notin Shown(listed)
        BY DEF Missed
      <3>2. x \notin Shown(Seen)
        BY <1>4, <3>1, SeenShows
      <3> QED
        BY <1>1, <1>11, <3>1, <3>2 DEF Missed, Shown
    <2>5. Gone(listed) => Gone(listed)'
      BY <1>1, <1>10 DEF Gone, Shown
    <2>6. first # <<>> /\ changes = 1 => Gone(first[1].pulls)'
      BY <1>1, <1>6, <1>11 DEF Gone, Shown
    <2>7. CASE first = <<>>
      BY <1>1, <1>3, <1>4, <1>9, <1>11, <2>2, <2>3, <2>5, <2>7 DEF Refusable
    <2>8. CASE first # <<>>
      BY <1>1, <1>3, <1>4, <1>9, <1>11, <2>2, <2>3, <2>4, <2>6, <2>8 DEF Refusable
    <2> QED
      BY <2>7, <2>8
  <1>12. CASE /\ ~Repeated(PageOf(page))
              /\ page >= PageCount /\ page' = page
              /\ {Seen[k][1] : k \in Candidates(Seen)} = {Target}
              /\ result' = result
              /\ \/ first = <<>> /\ at' = "commit" /\ first' # <<>>
                    /\ first'[1].pulls = Seen
                 \/ first # <<>> /\ first[1].pulls = Seen /\ at' = "compare"
                    /\ first' = first
    <2>1. ~Steadily /\ ~Steady(head) /\ ~Doubled
      BY <1>4, <1>9, <1>12, SteadyTurns DEF Steadily
    <2>2. CASE first = <<>>
      <3>1. changes # 0 /\ (changes = 1 => Gone(listed))
        BY <1>1, <1>4, <2>1, <2>2 DEF Refusable
      <3>2. changes = 1 => Gone(first[1].pulls)'
        BY <1>1, <1>10, <1>12, <2>2, <3>1 DEF Gone, Shown
      <3> QED
        BY <1>1, <1>3, <1>4, <1>12, <2>2, <3>1, <3>2 DEF Refusable
    <2>3. CASE first # <<>>
      <3>1. Missed
        BY <1>1, <1>4, <1>5, <2>1, <2>3 DEF Refusable
      <3>2. PICK x \in Shown(first[1].pulls) : x \notin open /\ x \notin Shown(listed)
        BY <3>1 DEF Missed
      <3>3. x \in Shown(Seen)
        BY <1>12, <2>3, <3>2
      <3> QED
        BY <1>4, <3>2, <3>3, SeenShows
    <2> QED
      BY <2>2, <2>3
  <1> QED
    BY <1>4, <1>8, <1>11, <1>12, PageTurns

LEMMA GetPullSplits ==
  ASSUME Split, GetPull
  PROVE  Split'
  <1>1. /\ UNCHANGED hub /\ sole' = sole /\ first' = first /\ changes' = changes
        /\ open' = open
    BY DEF GetPull, hub
  <1>2. \/ at' = "list" /\ page' = 1 /\ listed' = <<>> /\ result' = result
        \/ at' = "done" /\ result' = "FAIL" /\ UNCHANGED <<page, listed>>
    BY DEF GetPull, Verdict
  <1>3. Bounded' /\ Unique' = Unique
    <2>1. page' \in Nat \ {0}
      BY <1>2 DEF Split, Bounded
    <2>2. listed' \in Seq(Numbers \X Shas)
      <3>1. <<>> \in Seq(Numbers \X Shas)
        OBVIOUS
      <3> QED
        BY <1>2, <3>1 DEF Split, Bounded
    <2> QED
      BY <1>1, <2>1, <2>2, HubBounded DEF Split
  <1> SUFFICES ASSUME ~sole PROVE Refusable'
    BY <1>1, <1>3 DEF Split
  <1>4. Refusable /\ ~Unique /\ Bounded
    BY DEF Split, Refusable
  <1>5. first # <<>> => changes # 0 /\ (changes = 1 => Gone(first[1].pulls)')
    BY <1>1, <1>4 DEF Refusable, Gone, Shown
  <1>6. at' = "list" => Steady(head)' /\ Steadily'
    BY <1>1, <1>2, <1>4, BeginsSteady
  <1> QED
    BY <1>1, <1>2, <1>3, <1>4, <1>5, <1>6 DEF Refusable

\* The steps that leave the listing: none of them can pass without a comparison.
LEMMA OtherSplits ==
  ASSUME Split, RequestFails \/ GetCommit \/ CompareBody \/ GetIssue \/ UNCHANGED vars
  PROVE  Split'
  <1>1. /\ UNCHANGED <<hub, sole, page, listed, first>>
        /\ changes' = changes /\ open' = open /\ head' = head
    BY DEF RequestFails, GetCommit, CompareBody, GetIssue, vars, hub
  <1>2. Bounded' /\ Unique' = Unique
    <2>1. page' \in Nat \ {0} /\ listed' \in Seq(Numbers \X Shas)
      BY <1>1 DEF Split, Bounded
    <2> QED
      BY <1>1, <2>1, HubBounded DEF Split
  <1> SUFFICES ASSUME ~sole PROVE Refusable'
    BY <1>1, <1>2 DEF Split
  <1>3. Refusable /\ ~Unique /\ Bounded
    BY DEF Split, Refusable
  <1>4. ~CompareBody /\ ~GetIssue
    BY <1>3 DEF Refusable, CompareBody, GetIssue
  <1>5. first # <<>> => changes # 0 /\ (changes = 1 => Gone(first[1].pulls)')
    BY <1>1, <1>3 DEF Refusable, Gone, Shown
  <1>6. CASE RequestFails \/ GetCommit
    <2>1. \/ at' = "done" /\ result' \in {"FAIL", "INCONCLUSIVE"}
          \/ at' = "pull" /\ result' = result
      BY <1>6 DEF RequestFails, GetCommit, Verdict
    <2> QED
      BY <1>1, <1>2, <1>3, <1>5, <2>1 DEF Refusable
  <1>7. CASE UNCHANGED vars
    <2>1. /\ Ordered' = Ordered /\ \A m : Place(m)' = Place(m)
          /\ Offset' = Offset /\ at' = at /\ result' = result
          /\ listed' = listed /\ first' = first
      BY <1>7 DEF vars, Ordered, Place, Offset
    <2>2. \A h : Steady(h)' = Steady(h)
      BY <1>1, <2>1 DEF Steady, Prefix
    <2>3. Steadily' = Steadily /\ (Steady(head) => Steady(head)')
      BY <1>1, <2>1, <2>2 DEF Steadily, Steady, Prefix
    <2>4. Doubled' = Doubled /\ Gone(listed)' = Gone(listed) /\ Missed' = Missed
      BY <1>1, <2>1 DEF Doubled, Gone, Missed, Shown
    <2> QED
      BY <1>1, <1>2, <1>3, <1>5, <2>1, <2>3, <2>4 DEF Refusable
  <1> QED
    BY <1>4, <1>6, <1>7

\* With at most two changes, whenever they happen and whatever they are, the
\* invariant of a validation that may yet have to refuse stays.
THEOREM RefusalInvariance ==
  ASSUME MaxChanges <= 2
  PROVE  Safety => []Split
  <1>1. ASSUME Split, [Next]_vars
        PROVE  Split'
    <2>1. CASE \E n \in Numbers : Close(n) \/ Reopen(n) \/ Push(n)
      BY <1>1, <2>1, ChangeSplits DEF Shrinks
    <2>2. CASE Edit
      BY <1>1, <2>2, ChangeSplits DEF Shrinks
    <2>3. CASE ListPage
      BY <1>1, <2>3, ListPageSplits
    <2>4. CASE GetPull
      BY <1>1, <2>4, GetPullSplits
    <2>5. CASE RequestFails \/ GetCommit \/ CompareBody \/ GetIssue \/ Done \/ UNCHANGED vars
      BY <1>1, <2>5, OtherSplits DEF Done
    <2> QED
      BY <1>1, <2>1, <2>2, <2>3, <2>4, <2>5 DEF Next, ValidatorStep
  <1> QED
    BY <1>1, SplitStarts, PTL DEF Safety

\* For any repository, page size and number of pages: with at most two changes
\* during a validation, one that passes saw Target be the only open pull request
\* with its head.  With three it may not have (see UniqueWitnessed).
THEOREM TwoSnapshotsSuffice ==
  ASSUME MaxChanges <= 2
  PROVE  Safety => []UniqueWitnessed
  <1>1. Split => UniqueWitnessed
    BY DEF Split, Bounded, Refusable, UniqueWitnessed
  <1> QED
    BY <1>1, RefusalInvariance, PTL
=============================================================================
