------------------------- MODULE RepoListingProofs -------------------------
(***************************************************************************)
(* A listing loses and repeats repositories only as fast as the            *)
(* installation moves.  The argument splits a listing at Offset, the last  *)
(* position read: a departure pulls one repository back over that point    *)
(* before it was read, an addition pushes one over it that was read.       *)
(***************************************************************************)
EXTENDS Upstream, FiniteSetTheorems, SequenceTheorems, TLAPS

\* The repositories still to be read.
Ahead == {installed[q] : q \in {q \in DOMAIN installed : q > Offset}}

\* Steady repositories the pages before have missed.
Passed == {r \in steady : times[r] = 0} \ Ahead

\* Repositories read twice, or once and bound to be read again.
Again == {r \in Repo : times[r] > 1} \cup {r \in Ahead : times[r] > 0}

Distinct ==
  \A p, q \in DOMAIN installed : installed[p] = installed[q] => p = q

ListTypes ==
  /\ installed \in Seq(Repo)
  /\ archived \subseteq Repo
  /\ page \in 0..(MaxListPages - 1)
  /\ nextPage \in Links \ {0}
  /\ times \in [Repo -> 0..page]
  /\ steady \subseteq Repo \ (archived \cup Foreign)
  /\ left \in Nat
  /\ joined \in Nat
  /\ left + joined <= MaxMoves

Between ==
  op # "list_repos" =>
    page = 0 /\ nextPage = 1 /\ left = 0 /\ joined = 0 /\ misled = FALSE

ListingInv ==
  /\ ListTypes
  /\ Distinct
  /\ Between
  /\ misled \in BOOLEAN
  /\ ~misled => nextPage = page + 1
  /\ ~misled => Cardinality(Passed) <= left
  /\ ~misled => Cardinality(Again) <= joined

-----------------------------------------------------------------------------
(* Sequences *)

\* t is s with e put in at position p.
Inserted(t, s, p, e) ==
  /\ Len(t) = Len(s) + 1
  /\ \A q \in 1..(Len(s) + 1) :
       t[q] = IF q < p THEN s[q] ELSE IF q = p THEN e ELSE s[q - 1]

\* t is s without what is at position p.
Removed(t, s, p) ==
  /\ Len(t) = Len(s) - 1
  /\ \A q \in 1..(Len(s) - 1) : t[q] = IF q < p THEN s[q] ELSE s[q + 1]

LEMMA InsertAtElements ==
  ASSUME NEW S, NEW s \in Seq(S), NEW p \in 1..(Len(s) + 1), NEW e \in S
  PROVE  /\ InsertAt(s, p, e) \in Seq(S)
         /\ Inserted(InsertAt(s, p, e), s, p, e)
<1> DEFINE a == SubSeq(s, 1, p - 1)
           b == <<e>>
           c == SubSeq(s, p, Len(s))
<1>1. /\ a \in Seq(S)
      /\ Len(a) = p - 1
      /\ \A i \in 1..(p - 1) : a[i] = s[i]
  <2>1. \A i \in 1..(p - 1) : s[i] \in S
    BY ElementOfSeq
  <2> QED
    BY <2>1, SubSeqProperties
<1>2. b \in Seq(S) /\ Len(b) = 1 /\ b[1] = e
  OBVIOUS
<1>3. /\ c \in Seq(S)
      /\ Len(c) = Len(s) - p + 1
      /\ \A i \in 1..(Len(s) - p + 1) : c[i] = s[p + i - 1]
  <2>1. \A i \in p..Len(s) : s[i] \in S
    BY ElementOfSeq
  <2> QED
    BY <2>1, SubSeqProperties
<1>4. /\ a \o b \in Seq(S)
      /\ Len(a \o b) = p
      /\ \A i \in 1..p : (a \o b)[i] = IF i <= p - 1 THEN a[i] ELSE b[i - (p - 1)]
  <2> HIDE DEF a, b
  <2>1. /\ a \o b \in Seq(S)
        /\ Len(a \o b) = Len(a) + Len(b)
        /\ \A i \in 1..(Len(a) + Len(b)) :
             (a \o b)[i] = IF i <= Len(a) THEN a[i] ELSE b[i - Len(a)]
    BY <1>1, <1>2, ConcatProperties
  <2>2. Len(a) = p - 1 /\ Len(a) + Len(b) = p
    BY <1>1, <1>2
  <2> QED
    BY <2>1, <2>2
<1> DEFINE d == a \o b
<1>5. /\ d \o c \in Seq(S)
      /\ Len(d \o c) = Len(s) + 1
      /\ \A i \in 1..(Len(s) + 1) : (d \o c)[i] = IF i <= p THEN d[i] ELSE c[i - p]
  <2> HIDE DEF d, c
  <2> QED
    BY <1>3, <1>4, ConcatProperties DEF d
<1>6. InsertAt(s, p, e) = d \o c
  BY DEF InsertAt
<1> DEFINE t == d \o c
<1>8. Len(s) \in Nat
  BY LenProperties
<1> HIDE DEF a, b, c, d, t
<1>7. ASSUME NEW q \in 1..(Len(s) + 1)
      PROVE  t[q] = IF q < p THEN s[q] ELSE IF q = p THEN e ELSE s[q - 1]
  <2>1. CASE q < p
    BY <2>1, <1>1, <1>4, <1>5, <1>8 DEF d, t
  <2>2. CASE q = p
    <3>1. q - (p - 1) = 1 /\ ~(q <= p - 1) /\ q \in 1..p
      BY <2>2
    <3> QED
      BY <3>1, <2>2, <1>2, <1>4, <1>5, <1>8 DEF d, t
  <2>3. CASE p < q
    <3>1. q - p \in 1..(Len(s) - p + 1) /\ p + (q - p) - 1 = q - 1
      BY <2>3
    <3> QED
      BY <3>1, <2>3, <1>3, <1>5, <1>8 DEF t
  <2> QED
    BY <2>1, <2>2, <2>3, <1>8
<1> QED
  BY <1>5, <1>6, <1>7, Zenon DEF t, Inserted

LEMMA RemoveAtElements ==
  ASSUME NEW S, NEW s \in Seq(S), NEW p \in 1..Len(s)
  PROVE  /\ RemoveAt(s, p) \in Seq(S)
         /\ Removed(RemoveAt(s, p), s, p)
<1> DEFINE a == SubSeq(s, 1, p - 1)
           b == SubSeq(s, p + 1, Len(s))
<1>1. /\ a \in Seq(S)
      /\ Len(a) = p - 1
      /\ \A i \in 1..(p - 1) : a[i] = s[i]
  <2>1. \A i \in 1..(p - 1) : s[i] \in S
    BY ElementOfSeq
  <2> QED
    BY <2>1, SubSeqProperties
<1>2. /\ b \in Seq(S)
      /\ Len(b) = Len(s) - p
      /\ \A i \in 1..(Len(s) - p) : b[i] = s[p + i]
  <2>1. \A i \in (p + 1)..Len(s) : s[i] \in S
    BY ElementOfSeq
  <2>2. /\ b \in Seq(S)
        /\ Len(b) = IF p + 1 <= Len(s) THEN Len(s) - (p + 1) + 1 ELSE 0
        /\ \A i \in 1..(Len(s) - (p + 1) + 1) : b[i] = s[(p + 1) + i - 1]
    BY <2>1, SubSeqProperties
  <2> HIDE DEF b
  <2>3. \A i \in 1..(Len(s) - p) : (p + 1) + i - 1 = p + i /\ i \in 1..(Len(s) - (p + 1) + 1)
    OBVIOUS
  <2> QED
    BY <2>2, <2>3
<1>3. /\ a \o b \in Seq(S)
      /\ Len(a \o b) = Len(s) - 1
      /\ \A i \in 1..(Len(s) - 1) : (a \o b)[i] = IF i <= p - 1 THEN a[i] ELSE b[i - (p - 1)]
  <2> HIDE DEF a, b
  <2>1. /\ a \o b \in Seq(S)
        /\ Len(a \o b) = Len(a) + Len(b)
        /\ \A i \in 1..(Len(a) + Len(b)) :
             (a \o b)[i] = IF i <= Len(a) THEN a[i] ELSE b[i - Len(a)]
    BY <1>1, <1>2, ConcatProperties
  <2>2. Len(a) = p - 1 /\ Len(a) + Len(b) = Len(s) - 1
    BY <1>1, <1>2
  <2> QED
    BY <2>1, <2>2
<1>4. RemoveAt(s, p) = a \o b
  BY DEF RemoveAt
<1> DEFINE t == a \o b
<1>6. Len(s) \in Nat
  BY LenProperties
<1> HIDE DEF a, b, t
<1>5. ASSUME NEW q \in 1..(Len(s) - 1)
      PROVE  t[q] = IF q < p THEN s[q] ELSE s[q + 1]
  <2>1. CASE q < p
    BY <2>1, <1>1, <1>3, <1>6 DEF t
  <2>2. CASE p <= q
    <3>1. q - (p - 1) \in 1..(Len(s) - p) /\ p + (q - (p - 1)) = q + 1
      BY <2>2, <1>6
    <3> QED
      BY <3>1, <2>2, <1>2, <1>3, <1>6 DEF t
  <2> QED
    BY <2>1, <2>2, <1>6
<1> QED
  BY <1>3, <1>4, <1>5, Zenon DEF t, Removed

-----------------------------------------------------------------------------
(* The repositories ahead *)

LEMMA OffsetType ==
  ASSUME ListTypes
  PROVE  Offset \in Nat
BY ApiCallAssumption DEF ListTypes, Offset

LEMMA InstalledPositions ==
  ASSUME ListTypes
  PROVE  /\ Len(installed) \in Nat
         /\ DOMAIN installed = 1..Len(installed)
         /\ \A q \in DOMAIN installed : installed[q] \in Repo
BY LenProperties, ElementOfSeq DEF ListTypes

\* An addition pushes at most one repository over the offset.
LEMMA JoinAhead ==
  ASSUME ListTypes, Distinct, NEW r \in Repo, NEW p \in 1..(Len(installed) + 1),
         Join(r, p)
  PROVE  /\ installed' \in Seq(Repo)
         /\ Distinct'
         /\ Ahead \subseteq Ahead'
         /\ \E x \in Repo : Ahead' \subseteq Ahead \cup {x}
<1> DEFINE n == Len(installed)
<1>1. installed \in Seq(Repo)
  BY DEF ListTypes
<1>2. n \in Nat /\ DOMAIN installed = 1..n /\ Offset \in Nat
  BY OffsetType, InstalledPositions
<1>3. /\ installed' \in Seq(Repo)
      /\ Len(installed') = n + 1
      /\ \A q \in 1..(n + 1) :
           installed'[q] = IF q < p THEN installed[q]
                           ELSE IF q = p THEN r ELSE installed[q - 1]
  <2>1. installed' = InsertAt(installed, p, r)
    BY DEF Join
  <2>2. installed' \in Seq(Repo) /\ Inserted(installed', installed, p, r)
    BY <1>1, <2>1, InsertAtElements, Zenon
  <2> QED
    BY <2>2 DEF Inserted
<1>4. DOMAIN installed' = 1..(n + 1)
  BY <1>3, LenProperties
<1>5. Offset' = Offset
  BY DEF Join, Offset
<1>6. \A q \in 1..n : installed[q] # r
  BY <1>2 DEF Join
<1> HIDE DEF n
<1>7. Distinct'
  <2> SUFFICES ASSUME NEW q1 \in 1..(n + 1), NEW q2 \in 1..(n + 1),
                      installed'[q1] = installed'[q2]
               PROVE  q1 = q2
    BY <1>4 DEF Distinct
  <2> DEFINE old(q) == IF q < p THEN q ELSE q - 1
  <2>1. CASE q1 = p \/ q2 = p
    BY <2>1, <1>2, <1>3, <1>6
  <2>2. CASE q1 # p /\ q2 # p
    <3>1. old(q1) \in 1..n /\ old(q2) \in 1..n
      BY <2>2, <1>2
    <3>2. installed[old(q1)] = installed[old(q2)]
      BY <2>2, <1>3
    <3>3. old(q1) = old(q2)
      BY <3>1, <3>2, <1>2 DEF Distinct
    <3> QED
      BY <3>3, <2>2
  <2> QED
    BY <2>1, <2>2
<1>8. Ahead \subseteq Ahead'
  <2> SUFFICES ASSUME NEW q \in 1..n, q > Offset
               PROVE  \E u \in 1..(n + 1) : u > Offset /\ installed'[u] = installed[q]
    BY <1>2, <1>4, <1>5 DEF Ahead
  <2>1. CASE q < p
    BY <2>1, <1>2, <1>3
  <2>2. CASE ~(q < p)
    <3>1. q + 1 \in 1..(n + 1) /\ q + 1 > Offset /\ installed'[q + 1] = installed[q]
      BY <2>2, <1>2, <1>3
    <3> QED
      BY <3>1
  <2> QED
    BY <2>1, <2>2
<1>9. \E x \in Repo : Ahead' \subseteq Ahead \cup {x}
  <2>1. CASE p > Offset
    <3>1. ASSUME NEW q \in 1..(n + 1), q > Offset
          PROVE  installed'[q] = r \/ \E u \in 1..n : u > Offset /\ installed[u] = installed'[q]
      <4>1. CASE q = p
        BY <4>1, <1>3
      <4>2. CASE q < p
        BY <3>1, <4>2, <1>2, <1>3
      <4>3. CASE q > p
        <5>1. q - 1 \in 1..n /\ q - 1 > Offset /\ installed'[q] = installed[q - 1]
          BY <2>1, <4>3, <1>2, <1>3
        <5> QED
          BY <5>1
      <4> QED
        BY <4>1, <4>2, <4>3
    <3>2. Ahead' \subseteq Ahead \cup {r}
      BY <3>1, <1>2, <1>4, <1>5 DEF Ahead
    <3> QED
      BY <3>2
  <2>2. CASE ~(p > Offset)
    <3>1. ASSUME NEW q \in 1..(n + 1), q > Offset, q # Offset + 1
          PROVE  \E u \in 1..n : u > Offset /\ installed[u] = installed'[q]
      <4>1. q - 1 \in 1..n /\ q - 1 > Offset /\ installed'[q] = installed[q - 1]
        BY <3>1, <2>2, <1>2, <1>3
      <4> QED
        BY <4>1
    <3>2. CASE Offset + 1 \in 1..(n + 1)
      <4>1. Ahead' \subseteq Ahead \cup {installed'[Offset + 1]}
        BY <3>1, <1>2, <1>4, <1>5 DEF Ahead
      <4>2. installed'[Offset + 1] \in Repo
        BY <3>2, <1>3, ElementOfSeq
      <4> QED
        BY <4>1, <4>2
    <3>3. CASE Offset + 1 \notin 1..(n + 1)
      <4>1. Ahead' = {}
        BY <3>3, <1>2, <1>4, <1>5 DEF Ahead
      <4> QED
        BY <4>1
    <3> QED
      BY <3>2, <3>3
  <2> QED
    BY <2>1, <2>2
<1> QED
  BY <1>3, <1>7, <1>8, <1>9

\* A departure pulls at most one repository back over the offset.
LEMMA LeaveAhead ==
  ASSUME ListTypes, Distinct, NEW p \in DOMAIN installed, Leave(p)
  PROVE  /\ installed' \in Seq(Repo)
         /\ Distinct'
         /\ Ahead' \subseteq Ahead
         /\ \E x \in Repo : Ahead \subseteq Ahead' \cup {x, installed[p]}
<1> DEFINE n == Len(installed)
<1>1. installed \in Seq(Repo)
  BY DEF ListTypes
<1>2. n \in Nat /\ DOMAIN installed = 1..n /\ Offset \in Nat
  BY OffsetType, InstalledPositions
<1>3. /\ installed' \in Seq(Repo)
      /\ Len(installed') = n - 1
      /\ \A q \in 1..(n - 1) :
           installed'[q] = IF q < p THEN installed[q] ELSE installed[q + 1]
  <2>1. installed' = RemoveAt(installed, p)
    BY DEF Leave
  <2>2. p \in 1..Len(installed)
    BY <1>2
  <2>3. installed' \in Seq(Repo) /\ Removed(installed', installed, p)
    BY <1>1, <2>1, <2>2, RemoveAtElements, Zenon
  <2> QED
    BY <2>3 DEF Removed
<1>4. DOMAIN installed' = 1..(n - 1)
  BY <1>3, LenProperties
<1>5. Offset' = Offset
  BY DEF Leave, Offset
<1>p. p \in 1..n
  BY <1>2
<1> HIDE DEF n
<1>7. Distinct'
  <2> SUFFICES ASSUME NEW q1 \in 1..(n - 1), NEW q2 \in 1..(n - 1),
                      installed'[q1] = installed'[q2]
               PROVE  q1 = q2
    BY <1>4 DEF Distinct
  <2> DEFINE old(q) == IF q < p THEN q ELSE q + 1
  <2>1. old(q1) \in 1..n /\ old(q2) \in 1..n
    BY <1>2
  <2>2. installed[old(q1)] = installed[old(q2)]
    BY <1>3
  <2>3. old(q1) = old(q2)
    BY <2>1, <2>2, <1>2 DEF Distinct
  <2> QED
    BY <2>3, <1>p
<1>8. Ahead' \subseteq Ahead
  <2> SUFFICES ASSUME NEW q \in 1..(n - 1), q > Offset
               PROVE  \E u \in 1..n : u > Offset /\ installed[u] = installed'[q]
    BY <1>2, <1>4, <1>5 DEF Ahead
  <2>1. CASE q < p
    BY <2>1, <1>2, <1>3
  <2>2. CASE ~(q < p)
    <3>1. q + 1 \in 1..n /\ q + 1 > Offset /\ installed'[q] = installed[q + 1]
      BY <2>2, <1>2, <1>3
    <3> QED
      BY <3>1
  <2> QED
    BY <2>1, <2>2
<1>9. ASSUME NEW q \in 1..n, q > Offset, q # p, q # Offset + 1
      PROVE  \E u \in 1..(n - 1) : u > Offset /\ installed'[u] = installed[q]
  <2>1. CASE q < p
    <3>1. q \in 1..(n - 1) /\ installed'[q] = installed[q]
      BY <2>1, <1>2, <1>3, <1>p
    <3> QED
      BY <3>1, <1>9
  <2>2. CASE q > p
    <3>1. q - 1 \in 1..(n - 1) /\ q - 1 > Offset /\ installed'[q - 1] = installed[q]
      BY <2>2, <1>2, <1>3, <1>9, <1>p
    <3> QED
      BY <3>1
  <2> QED
    BY <2>1, <2>2, <1>9, <1>p
<1>10. \E x \in Repo : Ahead \subseteq Ahead' \cup {x, installed[p]}
  <2>1. CASE Offset + 1 \in 1..n
    <3>1. Ahead \subseteq Ahead' \cup {installed[Offset + 1], installed[p]}
      BY <1>9, <1>2, <1>4, <1>5 DEF Ahead
    <3>2. installed[Offset + 1] \in Repo
      BY <2>1, <1>1, ElementOfSeq DEF n
    <3> QED
      BY <3>1, <3>2
  <2>2. CASE Offset + 1 \notin 1..n
    <3>1. Ahead = {} /\ installed[p] \in Repo
      BY <2>2, <1>2, InstalledPositions DEF Ahead
    <3> QED
      BY <3>1
  <2> QED
    BY <2>1, <2>2
<1> QED
  BY <1>3, <1>7, <1>8, <1>10
-----------------------------------------------------------------------------
(* The steps *)

LEMMA SubsetBound ==
  ASSUME NEW A \in SUBSET Repo, NEW B \in SUBSET Repo, NEW n \in Nat,
         A \subseteq B, Cardinality(B) <= n
  PROVE  Cardinality(A) <= n
<1>1. IsFiniteSet(B)
  BY FS_Subset, RepoListingAssumption
<1>2. Cardinality(A) <= Cardinality(B) /\ IsFiniteSet(A)
  BY <1>1, FS_Subset
<1>3. Cardinality(A) \in Nat /\ Cardinality(B) \in Nat
  BY <1>1, <1>2, FS_CardinalityType
<1> QED
  BY <1>2, <1>3

LEMMA OneMoreBound ==
  ASSUME NEW A \in SUBSET Repo, NEW B \in SUBSET Repo, NEW n \in Nat, NEW x \in Repo,
         A \subseteq B \cup {x}, Cardinality(B) <= n
  PROVE  Cardinality(A) <= n + 1
<1>1. IsFiniteSet(B)
  BY FS_Subset, RepoListingAssumption
<1>2. Cardinality(B \cup {x}) = IF x \in B THEN Cardinality(B) ELSE Cardinality(B) + 1
  BY <1>1, FS_AddElement
<1>3. Cardinality(B) \in Nat
  BY <1>1, FS_CardinalityType
<1>4. Cardinality(B \cup {x}) <= n + 1
  BY <1>2, <1>3
<1> QED
  BY <1>4, SubsetBound

LEMMA Subsets ==
  ASSUME ListTypes
  PROVE  Ahead \subseteq Repo /\ Passed \subseteq Repo /\ Again \subseteq Repo
BY InstalledPositions DEF Ahead, Passed, Again, ListTypes

LEMMA ListingFrame ==
  ASSUME ListingInv, UNCHANGED listVars, op = "list_repos" => op' = "list_repos"
  PROVE  ListingInv'
<1>1. Ahead' = Ahead
  BY DEF listVars, Ahead, Offset
<1>2. Passed' = Passed /\ Again' = Again
  BY <1>1 DEF listVars, Passed, Again
<1>3. ListTypes' /\ Distinct'
  BY DEF listVars, ListingInv, ListTypes, Distinct
<1>4. /\ page' = page /\ nextPage' = nextPage /\ left' = left /\ joined' = joined
      /\ misled' = misled
  BY DEF listVars
<1>5. Between'
  BY <1>4, Zenon DEF Between, ListingInv
<1> QED
  BY <1>2, <1>3, <1>4, <1>5, Zenon DEF ListingInv

LEMMA EmptyListing ==
  ASSUME ListingIdle
  PROVE  /\ ListTypes
         /\ Distinct
         /\ Passed = {}
         /\ Again = {}
<1>1. ListTypes
  BY RepoListingAssumption DEF ListingIdle, ListTypes, Links
<1>2. DOMAIN installed = {}
  BY DEF ListingIdle
<1>3. Ahead = {} /\ Distinct
  BY <1>2 DEF Ahead, Distinct
<1> QED
  BY <1>1, <1>3 DEF ListingIdle, Passed, Again

LEMMA IdleInv == ListingIdle => ListingInv
<1> SUFFICES ASSUME ListingIdle
             PROVE  ListingInv
  OBVIOUS
<1>1. Passed = {} /\ Again = {} /\ ListTypes /\ Distinct
  BY EmptyListing
<1>2. left = 0 /\ joined = 0 /\ nextPage = page + 1
  BY DEF ListingIdle
<1>3. Cardinality(Passed) <= left /\ Cardinality(Again) <= joined
  BY <1>1, <1>2, FS_EmptySet
<1>4. Between /\ misled \in BOOLEAN
  BY Zenon DEF ListingIdle, Between
<1> QED
  BY <1>1, <1>2, <1>3, <1>4, Zenon DEF ListingInv

LEMMA ForgetInv ==
  ASSUME ForgetListing
  PROVE  ListingInv'
<1>1. ListingIdle'
  BY DEF ForgetListing, ListingIdle
<1> QED
  BY <1>1, IdleInv, PTL

LEMMA BeginInv ==
  ASSUME ListingInv, BeginListRepos
  PROVE  ListingInv'
<1>1. /\ op' = "list_repos" /\ misled' = misled /\ misled = FALSE
      /\ page' = 0 /\ nextPage' = 1 /\ left' = 0 /\ joined' = 0 /\ times' = times
      /\ ListTypes /\ page = 0
  <2>1. op = "none" /\ op' = "list_repos"
    BY DEF BeginListRepos, Begin
  <2>2. page = 0 /\ nextPage = 1 /\ left = 0 /\ joined = 0 /\ misled = FALSE
    BY <2>1, Zenon DEF ListingInv, Between
  <2> QED
    BY <2>1, <2>2, Zenon DEF BeginListRepos, ListingInv
<1>2. /\ installed' \in Seq(Repo)
      /\ \A p, q \in DOMAIN installed' : installed'[p] = installed'[q] => p = q
      /\ archived' \subseteq Repo
      /\ steady' = {installed'[q] : q \in DOMAIN installed'} \ (archived' \cup Foreign)
  BY RepoListingAssumption DEF BeginListRepos, IsInjective, ToSet
<1>3. Offset' = 0
  BY <1>1, ApiCallAssumption DEF Offset
<1>4. DOMAIN installed' = 1..Len(installed') /\ Len(installed') \in Nat
  BY <1>2, LenProperties
<1>5. \A q \in DOMAIN installed' : installed'[q] \in Repo
  BY <1>2, <1>4, ElementOfSeq
<1>6. ListTypes'
  <2>1. times' \in [Repo -> 0..page']
    BY <1>1 DEF ListTypes
  <2>2. nextPage' \in Links \ {0} /\ page' \in 0..(MaxListPages - 1)
    BY <1>1, RepoListingAssumption DEF Links
  <2>3. steady' \subseteq Repo \ (archived' \cup Foreign)
    BY <1>2, <1>5
  <2> QED
    BY <1>1, <1>2, <2>1, <2>2, <2>3, RepoListingAssumption DEF ListTypes
<1>7. \A r \in Repo : times'[r] = 0
  BY <1>1 DEF ListTypes
<1>8. Passed' = {}
  BY <1>2, <1>3, <1>4 DEF Passed, Ahead
<1>9. Again' = {}
  BY <1>3, <1>4, <1>5, <1>7 DEF Again, Ahead
<1>10. Cardinality(Passed') <= left' /\ Cardinality(Again') <= joined'
  BY <1>1, <1>8, <1>9, FS_EmptySet
<1>11. Distinct' /\ Between' /\ nextPage' = page' + 1 /\ misled' \in BOOLEAN
  <2>1. Distinct' /\ nextPage' = page' + 1
    BY <1>1, <1>2 DEF Distinct
  <2> QED
    BY <1>1, <2>1, Zenon DEF Between
<1> QED
  BY <1>6, <1>10, <1>11, Zenon DEF ListingInv

LEMMA JoinInv ==
  ASSUME ListingInv, NEW r \in Repo, NEW p \in 1..(Len(installed) + 1), Join(r, p)
  PROVE  ListingInv'
<1>1. ListTypes /\ Distinct
  BY DEF ListingInv
<1>2. /\ op = "list_repos" /\ op' = op /\ archived' = archived /\ page' = page
      /\ nextPage' = nextPage /\ times' = times /\ steady' = steady /\ left' = left
      /\ misled' = misled /\ joined' = joined + 1 /\ left + joined < MaxMoves
  BY Zenon DEF Join, callVars
<1>3. installed' \in Seq(Repo) /\ Distinct' /\ Ahead \subseteq Ahead'
  BY <1>1, JoinAhead
<1>4. PICK x \in Repo : Ahead' \subseteq Ahead \cup {x}
  BY <1>1, JoinAhead
<1>5. ListTypes'
  BY <1>1, <1>2, <1>3, RepoListingAssumption DEF ListTypes
<1>6. ASSUME ~misled
      PROVE  Cardinality(Passed') <= left' /\ Cardinality(Again') <= joined'
  <2>1. /\ Cardinality(Passed) <= left /\ Cardinality(Again) <= joined
        /\ Passed \subseteq Repo /\ Again \subseteq Repo
        /\ left \in Nat /\ joined \in Nat
    BY <1>1, <1>6, Subsets DEF ListingInv, ListTypes
  <2>2. Passed' \subseteq Passed
    BY <1>2, <1>3 DEF Passed
  <2>3. Again' \subseteq Again \cup {x}
    BY <1>2, <1>4 DEF Again
  <2>4. Cardinality(Passed') <= left
    BY <2>1, <2>2, SubsetBound
  <2>5. Cardinality(Again') <= joined + 1
    BY <2>1, <2>3, OneMoreBound
  <2> QED
    BY <1>2, <2>4, <2>5
<1>7. Between' /\ misled' \in BOOLEAN /\ (~misled' => nextPage' = page' + 1)
  BY <1>2, Zenon DEF Between, ListingInv
<1> QED
  BY <1>2, <1>3, <1>5, <1>6, <1>7, Zenon DEF ListingInv

LEMMA LeaveInv ==
  ASSUME ListingInv, NEW p \in DOMAIN installed, Leave(p)
  PROVE  ListingInv'
<1>1. ListTypes /\ Distinct
  BY DEF ListingInv
<1>2. /\ op = "list_repos" /\ op' = op /\ archived' = archived /\ page' = page
      /\ nextPage' = nextPage /\ times' = times /\ steady' = steady \ {installed[p]}
      /\ left' = left + 1 /\ misled' = misled /\ joined' = joined
      /\ left + joined < MaxMoves
  BY Zenon DEF Leave, callVars
<1>3. installed' \in Seq(Repo) /\ Distinct' /\ Ahead' \subseteq Ahead
  BY <1>1, LeaveAhead
<1>4. PICK x \in Repo : Ahead \subseteq Ahead' \cup {x, installed[p]}
  BY <1>1, LeaveAhead
<1>5. ListTypes'
  BY <1>1, <1>2, <1>3, RepoListingAssumption DEF ListTypes
<1>6. ASSUME ~misled
      PROVE  Cardinality(Passed') <= left' /\ Cardinality(Again') <= joined'
  <2>1. /\ Cardinality(Passed) <= left /\ Cardinality(Again) <= joined
        /\ Passed \subseteq Repo /\ Again \subseteq Repo
        /\ left \in Nat /\ joined \in Nat
    BY <1>1, <1>6, Subsets DEF ListingInv, ListTypes
  <2>2. Passed' \subseteq Passed \cup {x}
    BY <1>2, <1>4 DEF Passed
  <2>3. Again' \subseteq Again
    BY <1>2, <1>3 DEF Again
  <2>4. Passed' \subseteq Repo
    BY <2>1, <2>2
  <2>5. Cardinality(Passed') <= left + 1
    BY <2>1, <2>2, <2>4, OneMoreBound
  <2>6. Cardinality(Again') <= joined
    BY <2>1, <2>3, SubsetBound
  <2> QED
    BY <1>2, <2>5, <2>6
<1>7. Between' /\ misled' \in BOOLEAN /\ (~misled' => nextPage' = page' + 1)
  BY <1>2, Zenon DEF Between, ListingInv
<1> QED
  BY <1>2, <1>3, <1>5, <1>6, <1>7, Zenon DEF ListingInv

LEMMA ArchivingInv ==
  ASSUME ListingInv, NEW r \in Archivable, Archive(r) \/ Unarchive(r)
  PROVE  ListingInv'
<1>1. ListTypes /\ Distinct
  BY DEF ListingInv
<1>2. /\ op = "list_repos" /\ op' = op /\ installed' = installed /\ page' = page
      /\ nextPage' = nextPage /\ times' = times
      /\ left' = left /\ misled' = misled /\ joined' = joined
  BY Zenon DEF Archive, Unarchive, callVars
<1>3. /\ archived' \subseteq archived \cup {r} /\ steady' \subseteq steady
      /\ (r \in archived' => r \notin steady' \/ r \in archived)
  BY DEF Archive, Unarchive
<1>4. ListTypes'
  BY <1>1, <1>2, <1>3, RepoListingAssumption DEF ListTypes
<1>5. Ahead' = Ahead
  BY <1>2 DEF Ahead, Offset
<1>6. ASSUME ~misled
      PROVE  Cardinality(Passed') <= left' /\ Cardinality(Again') <= joined'
  <2>1. /\ Cardinality(Passed) <= left /\ Cardinality(Again) <= joined
        /\ Passed \subseteq Repo /\ Again \subseteq Repo
        /\ left \in Nat /\ joined \in Nat
    BY <1>1, <1>6, Subsets DEF ListingInv, ListTypes
  <2>2. Passed' \subseteq Passed /\ Again' = Again
    BY <1>2, <1>3, <1>5 DEF Passed, Again
  <2>3. Cardinality(Passed') <= left
    BY <2>1, <2>2, SubsetBound
  <2> QED
    BY <1>2, <2>1, <2>2, <2>3
<1>7. /\ Between' /\ misled' \in BOOLEAN /\ (~misled' => nextPage' = page' + 1)
  BY <1>2, Zenon DEF Between, ListingInv
<1>8. Distinct'
  BY <1>1, <1>2 DEF Distinct
<1> QED
  BY <1>2, <1>4, <1>6, <1>7, <1>8, Zenon DEF ListingInv

\* A page read after true links is the beginning of what is ahead.
LEMMA ShownAhead ==
  ASSUME ListTypes, nextPage = page + 1
  PROVE  /\ Shown(nextPage) = {installed[q] : q \in {q \in DOMAIN installed :
                                  Offset < q /\ q <= Offset + PageSize}}
         /\ nextPage * PageSize = Offset + PageSize
         /\ Shown(nextPage) \subseteq Ahead
<1>1. page \in Nat /\ PageSize \in Nat
  BY ApiCallAssumption DEF ListTypes
<1>2. (nextPage - 1) * PageSize = Offset
  <2>1. nextPage - 1 = page
    BY <1>1
  <2> QED
    BY <2>1 DEF Offset
<1>3. nextPage * PageSize = Offset + PageSize
  BY <1>1 DEF Offset
<1> QED
  BY <1>2, <1>3 DEF Shown, Ahead

LEMMA FetchInv ==
  ASSUME ListingInv, NEW link \in Links, FetchPage(link)
  PROVE  ListingInv'
<1> DEFINE shown  == Shown(nextPage)
           listed == Counted(MapGitHubRepos(shown))
<1>1. CASE ForgetListing
  BY <1>1, ForgetInv
<1>2. CASE ~ForgetListing
  <2>1. /\ link # 0 /\ MorePages(link) /\ page' = page + 1 /\ nextPage' = link
        /\ times' = listed /\ misled' = (misled \/ link # TrueLink(nextPage))
        /\ op = "list_repos" /\ op' = op /\ installed' = installed
        /\ archived' = archived /\ steady' = steady /\ left' = left /\ joined' = joined
    BY <1>2, Zenon DEF FetchPage, PageOf, callVars
  <2>2. ListTypes /\ Distinct
    BY DEF ListingInv
  <2>3. \A r \in Repo : /\ times[r] \in 0..page
                         /\ listed[r] = IF r \in MapGitHubRepos(shown) THEN times[r] + 1 ELSE times[r]
    BY <2>2 DEF ListTypes, Counted
  <2>4. listed \in [Repo -> 0..(page + 1)]
    BY <2>2, <2>3 DEF ListTypes, Counted
  <2> HIDE DEF listed
  <2>5. ListTypes'
    <3>1. page' \in 0..(MaxListPages - 1)
      BY <2>1, <2>2, RepoListingAssumption DEF ListTypes, MorePages
    <3>2. nextPage' \in Links \ {0}
      BY <2>1
    <3> QED
      BY <2>1, <2>2, <2>4, <3>1, <3>2 DEF ListTypes
  <2>6. ASSUME ~misled'
        PROVE  /\ nextPage' = page' + 1
               /\ Cardinality(Passed') <= left'
               /\ Cardinality(Again') <= joined'
    <3>1. ~misled /\ link = TrueLink(nextPage)
      BY <2>1, <2>6, Zenon
    <3>2. nextPage = page + 1 /\ link = nextPage + 1
      BY <2>1, <3>1 DEF TrueLink, ListingInv
    <3>3. /\ shown = {installed[q] : q \in {q \in DOMAIN installed :
                                  Offset < q /\ q <= Offset + PageSize}}
          /\ shown \subseteq Ahead
      BY <2>2, <3>2, ShownAhead
    <3> HIDE DEF shown
    <3>4. Offset' = Offset + PageSize /\ Offset \in Nat /\ PageSize \in Nat
      <4>1. page \in Nat /\ PageSize \in Nat
        BY <2>2, ApiCallAssumption DEF ListTypes
      <4> QED
        BY <2>1, <4>1 DEF Offset
    <3>5. Ahead' = {installed[q] : q \in {q \in DOMAIN installed : q > Offset + PageSize}}
      BY <2>1, <3>4 DEF Ahead
    <3>6. DOMAIN installed = 1..Len(installed) /\ Len(installed) \in Nat
      BY <2>2, InstalledPositions
    <3>7. Ahead \subseteq shown \cup Ahead' /\ Ahead' \subseteq Ahead
      <4>1. \A q \in DOMAIN installed :
              /\ q > Offset + PageSize => q > Offset
              /\ q > Offset => q <= Offset + PageSize \/ q > Offset + PageSize
        BY <3>4, <3>6
      <4> QED
        BY <3>3, <3>5, <4>1 DEF Ahead
    <3>8. shown \cap Ahead' = {}
      <4> SUFFICES ASSUME NEW q1 \in DOMAIN installed, NEW q2 \in DOMAIN installed,
                          q1 <= Offset + PageSize, q2 > Offset + PageSize,
                          installed[q1] = installed[q2]
                   PROVE  FALSE
        BY <3>3, <3>5
      <4>1. q1 = q2
        BY <2>2 DEF Distinct
      <4> QED
        BY <3>4, <3>6, <4>1
    <3>9. /\ Cardinality(Passed) <= left /\ Cardinality(Again) <= joined
          /\ Passed \subseteq Repo /\ Again \subseteq Repo
          /\ left \in Nat /\ joined \in Nat
      BY <2>2, <3>1, Subsets DEF ListingInv, ListTypes
    <3>10. Passed' \subseteq Passed
      <4> SUFFICES ASSUME NEW r \in steady, listed[r] = 0, r \notin Ahead'
                   PROVE  times[r] = 0 /\ r \notin Ahead
        BY <2>1 DEF Passed
      <4>1. r \in Repo /\ r \notin archived \cup Foreign
        BY <2>2 DEF ListTypes
      <4>2. r \notin MapGitHubRepos(shown) /\ times[r] = 0
        BY <2>3, <4>1
      <4> QED
        BY <3>7, <4>1, <4>2 DEF MapGitHubRepos
    <3>11. Again' \subseteq Again
      <4>1. ASSUME NEW r \in Repo, listed[r] > 1
            PROVE  r \in Again
        <5>1. times[r] > 1 \/ (times[r] > 0 /\ r \in shown)
          BY <2>2, <2>3, <4>1 DEF MapGitHubRepos, ListTypes
        <5> QED
          BY <3>3, <5>1 DEF Again
      <4>2. ASSUME NEW r \in Ahead', listed[r] > 0
            PROVE  r \in Again
        <5>1. r \in Ahead /\ r \in Repo /\ r \notin shown
          BY <2>2, <3>7, <3>8, <4>2, Subsets
        <5>2. times[r] > 0
          BY <2>3, <4>2, <5>1 DEF MapGitHubRepos
        <5> QED
          BY <5>1, <5>2 DEF Again
      <4> QED
        BY <2>1, <4>1, <4>2 DEF Again
    <3>12. Cardinality(Passed') <= left /\ Cardinality(Again') <= joined
      BY <3>9, <3>10, <3>11, SubsetBound
    <3> QED
      BY <2>1, <3>2, <3>12
  <2>7. Distinct'
    BY <2>1, <2>2 DEF Distinct
  <2>8. Between' /\ misled' \in BOOLEAN
    BY <2>1, Zenon DEF Between, ListingInv
  <2> QED
    BY <2>5, <2>6, <2>7, <2>8, Zenon DEF ListingInv
<1> QED
  BY <1>1, <1>2

\* The transport works only on a request of its own.
LEMMA TransportIsRequest ==
  ASSUME TransportStep
  PROVE  op = "request" /\ (op' = op \/ op' = "none")
BY DEF TransportStep, RoundTrip, RoundTripFails, Peek, HandOver, ReadPrefix, ReadSource,
   ReadEnds, Return, callVars

\* What every step but those of a listing does to op.
LEMMA OtherSteps ==
  ASSUME \/ BeginHasOpenUpdatePR \/ \E h \in SHA : BeginGetMergedUpdatePR(h)
         \/ BeginGetHeadSHA \/ BeginGetGoMod \/ BeginGetMaintainerConfig
         \/ BeginLatestStable \/ BeginRequest \/ TakeAnswer \/ Cancel
         \/ PullRequestsStep \/ FilesStep \/ LookupStep \/ TransportStep
  PROVE  op = "list_repos" => op' = "list_repos"
<1>1. CASE \/ BeginHasOpenUpdatePR \/ \E h \in SHA : BeginGetMergedUpdatePR(h)
           \/ BeginGetHeadSHA \/ BeginGetGoMod \/ BeginGetMaintainerConfig
           \/ BeginLatestStable \/ BeginRequest
  BY <1>1 DEF BeginHasOpenUpdatePR, BeginGetMergedUpdatePR, BeginGetHeadSHA, BeginGetGoMod,
     BeginGetMaintainerConfig, BeginLatestStable, BeginRequest, Begin
<1>2. CASE TakeAnswer \/ Cancel
  BY <1>2 DEF TakeAnswer, Cancel
<1>3. CASE PullRequestsStep
  BY <1>3 DEF PullRequestsStep, ListPullRequests, ListPullRequestsFails,
     ExaminePullRequest, NoneDecides, PullRequestCall
<1>4. CASE FilesStep
  BY <1>4 DEF FilesStep, FileRequestFails, ContentFails, GetHeadSHA, GetGoMod, ScanLine,
     NoDirective, GetMaintainerConfig, FileCall
<1>5. CASE LookupStep
  BY <1>5 DEF LookupStep, FetchReleases, FetchReleasesFails, ExamineRelease, FinishLookup
<1>6. CASE TransportStep
  BY <1>6, TransportIsRequest
<1> QED
  BY <1>1, <1>2, <1>3, <1>4, <1>5, <1>6

\* A step is one of a listing, or leaves the listing alone and does not end one.
LEMMA StepKinds ==
  ASSUME [Next]_vars
  PROVE  \/ BeginListRepos
         \/ InstallationStep
         \/ ListingStep
         \/ UNCHANGED listVars /\ (op = "list_repos" => op' = "list_repos")
<1>1. CASE Caller
  BY <1>1, OtherSteps, Zenon DEF Caller
<1>2. CASE Environment
  BY <1>2, OtherSteps, Zenon DEF Environment
<1>3. CASE Client
  BY <1>3, OtherSteps, Zenon DEF Client
<1>4. CASE UNCHANGED vars
  BY <1>4 DEF vars, callVars
<1> QED
  BY <1>1, <1>2, <1>3, <1>4, Zenon DEF Next

LEMMA ListingNext ==
  ASSUME ListingInv, [Next]_vars
  PROVE  ListingInv'
<1>1. CASE BeginListRepos
  BY <1>1, BeginInv
<1>2. CASE InstallationStep
  <2>1. ASSUME NEW r \in Repo, NEW p \in 1..(Len(installed) + 1), Join(r, p)
        PROVE  ListingInv'
    BY <2>1, JoinInv
  <2>2. ASSUME NEW p \in DOMAIN installed, Leave(p)
        PROVE  ListingInv'
    BY <2>2, LeaveInv
  <2>3. ASSUME NEW r \in Archivable, Archive(r) \/ Unarchive(r)
        PROVE  ListingInv'
    BY <2>3, ArchivingInv
  <2> QED
    BY <1>2, <2>1, <2>2, <2>3, Zenon DEF InstallationStep
<1>3. CASE ListingStep
  <2>1. ASSUME NEW link \in Links, FetchPage(link)
        PROVE  ListingInv'
    BY <2>1, FetchInv
  <2>2. CASE FetchFails
    BY <2>2, ForgetInv, Zenon DEF FetchFails
  <2> QED
    BY <1>3, <2>1, <2>2, Zenon DEF ListingStep
<1>4. CASE UNCHANGED listVars /\ (op = "list_repos" => op' = "list_repos")
  BY <1>4, ListingFrame
<1> QED
  BY <1>1, <1>2, <1>3, <1>4, StepKinds, Zenon

-----------------------------------------------------------------------------
(* The theorems *)

\* The listing never loses or repeats more than the installation moved, at
\* any point of any listing.
THEOREM ListingHolds == Spec => []ListingInv
<1>1. Init => ListingInv
  BY IdleInv, Zenon DEF Init
<1>2. ListingInv /\ [Next]_vars => ListingInv'
  BY ListingNext
<1> QED
  BY <1>1, <1>2, PTL DEF Spec

\* Only a page ends a listing well or at the cap, and the last one came
\* with the number the true links led to.
LEMMA ListingReturns ==
  ASSUME ListingInv, [Next]_vars, NEW kind \in {"ok", "too_many"},
         ListingEnds(kind), LinksTrue(kind)
  PROVE  /\ nextPage = page + 1
         /\ kind = "ok" =>
              /\ TrueLink(nextPage) = 0
              /\ answer'.repos = Counted(MapGitHubRepos(Shown(nextPage)))
         /\ kind = "too_many" => page + 1 >= MaxListPages /\ TrueLink(nextPage) # 0
<1>1. op = "list_repos" /\ op' = "none" /\ answer'.kind = kind
  BY DEF ListingEnds
<1>2. ListingStep
  <2>1. ~BeginListRepos
    BY <1>1 DEF BeginListRepos, Begin
  <2>2. ~InstallationStep
    BY <1>1 DEF InstallationStep, Join, Leave, Archive, Unarchive, callVars
  <2> QED
    BY <1>1, <2>1, <2>2, StepKinds
<1>3. ~FetchFails
  BY <1>1 DEF FetchFails, Return, RequestErrors, Failed, RateLimited
<1>4. PICK link \in Links : FetchPage(link)
  BY <1>2, <1>3, Zenon DEF ListingStep
<1>5. nextPage = page + 1
  BY DEF LinksTrue, ListingInv
<1>6. CASE kind = "ok"
  <2>1. answer' = [kind |-> "ok", repos |-> Counted(MapGitHubRepos(Shown(nextPage)))]
    BY <1>1, <1>4, <1>6 DEF FetchPage, Return, callVars
  <2>2. TrueLink(nextPage) = 0
    BY <1>6 DEF LinksTrue
  <2> QED
    BY <1>5, <1>6, <2>1, <2>2
<1>7. CASE kind = "too_many"
  <2>1. ~MorePages(link)
    BY <1>1, <1>4, <1>7 DEF FetchPage, Return, callVars
  <2>2. page + 1 >= MaxListPages
    BY <2>1, RepoListingAssumption DEF MorePages, ListingInv, ListTypes
  <2>3. TrueLink(nextPage) # 0
    BY <1>7 DEF LinksTrue
  <2> QED
    BY <1>5, <1>7, <2>2, <2>3
<1> QED
  BY <1>6, <1>7

\* A last page shows all that is ahead.
LEMMA LastPage ==
  ASSUME ListTypes, nextPage = page + 1, TrueLink(nextPage) = 0
  PROVE  Shown(nextPage) = Ahead
<1>1. /\ Shown(nextPage) = {installed[q] : q \in {q \in DOMAIN installed :
                                  Offset < q /\ q <= Offset + PageSize}}
      /\ nextPage * PageSize = Offset + PageSize
  BY ShownAhead
<1>2. DOMAIN installed = 1..Len(installed) /\ Len(installed) \in Nat
  BY InstalledPositions
<1>3. Offset \in Nat /\ PageSize \in Nat
  BY OffsetType, ApiCallAssumption
<1>4. Len(installed) <= Offset + PageSize
  <2>1. nextPage + 1 # 0
    BY DEF ListTypes, Links
  <2> QED
    BY <1>1, <1>2, <1>3, <2>1 DEF TrueLink
<1> QED
  BY <1>1, <1>2, <1>3, <1>4 DEF Ahead

\* ListRepos misses at most one repository per departure
\* (githubclient.go:52, "the full set").
THEOREM MissesFewHolds == Spec => MissesFew
<1>1. ListingInv /\ [Next]_vars =>
        (ListingEnds("ok") /\ LinksTrue("ok") => Cardinality(Missed) <= left)
  <2> SUFFICES ASSUME ListingInv, [Next]_vars, ListingEnds("ok"), LinksTrue("ok")
               PROVE  Cardinality(Missed) <= left
    OBVIOUS
  <2>1. /\ nextPage = page + 1 /\ TrueLink(nextPage) = 0
        /\ answer'.repos = Counted(MapGitHubRepos(Shown(nextPage)))
    BY ListingReturns
  <2>2. ListTypes
    BY DEF ListingInv
  <2>3. Shown(nextPage) = Ahead
    BY <2>1, <2>2, LastPage
  <2>4. /\ Cardinality(Passed) <= left /\ Passed \subseteq Repo /\ left \in Nat
    BY <2>2, Subsets DEF ListingInv, ListTypes, LinksTrue
  <2>5. Missed \subseteq Passed
    <3> SUFFICES ASSUME NEW r \in steady, Counted(MapGitHubRepos(Ahead))[r] = 0
                 PROVE  times[r] = 0 /\ r \notin Ahead
      BY <2>1, <2>3 DEF Missed, Passed
    <3>1. r \in Repo /\ r \notin archived \cup Foreign /\ times[r] \in Nat
      BY <2>2 DEF ListTypes
    <3>2. r \notin MapGitHubRepos(Ahead) /\ times[r] = 0
      BY <3>1 DEF Counted
    <3> QED
      BY <3>1, <3>2 DEF MapGitHubRepos
  <2>6. Missed \subseteq Repo
    BY <2>4, <2>5
  <2> QED
    BY <2>4, <2>5, <2>6, SubsetBound
<1> QED
  BY <1>1, ListingHolds, PTL DEF Spec, MissesFew

\* ListRepos repeats at most one repository per addition.
THEOREM RepeatsFewHolds == Spec => RepeatsFew
<1>1. ListingInv /\ [Next]_vars =>
        (ListingEnds("ok") /\ LinksTrue("ok") => Cardinality(Repeated) <= joined)
  <2> SUFFICES ASSUME ListingInv, [Next]_vars, ListingEnds("ok"), LinksTrue("ok")
               PROVE  Cardinality(Repeated) <= joined
    OBVIOUS
  <2>1. /\ nextPage = page + 1 /\ TrueLink(nextPage) = 0
        /\ answer'.repos = Counted(MapGitHubRepos(Shown(nextPage)))
    BY ListingReturns
  <2>2. ListTypes
    BY DEF ListingInv
  <2>3. Shown(nextPage) = Ahead
    BY <2>1, <2>2, LastPage
  <2>4. /\ Cardinality(Again) <= joined /\ Again \subseteq Repo /\ joined \in Nat
    BY <2>2, Subsets DEF ListingInv, ListTypes, LinksTrue
  <2>5. Repeated \subseteq Again
    <3> SUFFICES ASSUME NEW r \in Repo, Counted(MapGitHubRepos(Ahead))[r] > 1
                 PROVE  times[r] > 1 \/ (times[r] > 0 /\ r \in Ahead)
      BY <2>1, <2>3 DEF Repeated, Again
    <3>1. times[r] \in Nat
      BY <2>2 DEF ListTypes
    <3> QED
      BY <3>1 DEF Counted, MapGitHubRepos
  <2>6. Repeated \subseteq Repo
    BY DEF Repeated
  <2> QED
    BY <2>4, <2>5, <2>6, SubsetBound
<1> QED
  BY <1>1, ListingHolds, PTL DEF Spec, RepeatsFew

\* The page cap stops only a listing that has more repositories to read.
THEOREM CapIsExceededHolds == Spec => CapIsExceeded
<1>1. ListingInv /\ [Next]_vars =>
        (ListingEnds("too_many") /\ LinksTrue("too_many") =>
           Len(installed) > MaxListPages * PageSize)
  <2> SUFFICES ASSUME ListingInv, [Next]_vars, ListingEnds("too_many"), LinksTrue("too_many")
               PROVE  Len(installed) > MaxListPages * PageSize
    OBVIOUS
  <2>1. nextPage = page + 1 /\ page + 1 >= MaxListPages /\ TrueLink(nextPage) # 0
    BY ListingReturns
  <2>2. nextPage = MaxListPages
    BY <2>1, RepoListingAssumption DEF ListingInv, ListTypes
  <2> QED
    BY <2>1, <2>2 DEF TrueLink
<1> QED
  BY <1>1, ListingHolds, PTL DEF Spec, CapIsExceeded

=============================================================================
