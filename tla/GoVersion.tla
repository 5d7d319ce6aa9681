----------------------------- MODULE GoVersion -----------------------------
(***************************************************************************)
(* pkg/version.go: Go versions as go.dev and go.mod files write them, and  *)
(* their order.  A text is what the two patterns tell apart: whether it    *)
(* starts with "go", the digit groups the dots separate, and whether it    *)
(* is nothing but that.                                                    *)
(***************************************************************************)
EXTENDS Integers, Sequences

CONSTANTS
  MaxInt,    \* the largest int
  NoVersion  \* the zero Version, told from the others by its empty Raw

Version == [major: 0..MaxInt, minor: 0..MaxInt, patch: 0..MaxInt]

ASSUME GoVersionAssumption ==
  /\ MaxInt \in Nat
  /\ NoVersion \notin Version

Text == [go: BOOLEAN, groups: Seq(Nat), clean: BOOLEAN]

\* goReleasePattern and goDirectivePattern, which differ in the prefix.
Matches(t, prefix) ==
  /\ t.go = prefix
  /\ t.clean
  /\ Len(t.groups) \in {2, 3}

\* strconv.Atoi has an answer for every group.
Atoi(t) == \A i \in DOMAIN t.groups : t.groups[i] <= MaxInt

ParseVersion(t, prefix) ==
  IF Matches(t, prefix) /\ Atoi(t)
  THEN [major |-> t.groups[1],
        minor |-> t.groups[2],
        patch |-> IF Len(t.groups) = 3 THEN t.groups[3] ELSE 0]
  ELSE NoVersion

ParseGoRelease(t)   == ParseVersion(t, TRUE)
ParseGoDirective(t) == ParseVersion(t, FALSE)

\* The int a subtraction of two ints gives.
Wrapped(n) ==
  IF n > MaxInt THEN n - 2 * (MaxInt + 1)
  ELSE IF n < -MaxInt - 1 THEN n + 2 * (MaxInt + 1)
  ELSE n

\* Mutant: the patch decides before the minor version does.
ComparePatchFirst(v, w) ==
  IF v.major # w.major THEN Wrapped(v.major - w.major)
  ELSE IF v.patch # w.patch THEN Wrapped(v.patch - w.patch)
  ELSE Wrapped(v.minor - w.minor)

Compare(v, w) ==
  IF v.major # w.major THEN Wrapped(v.major - w.major)
  ELSE IF v.minor # w.minor THEN Wrapped(v.minor - w.minor)
  ELSE Wrapped(v.patch - w.patch)

Less(v, w) == Compare(v, w) < 0

-----------------------------------------------------------------------------
(* What the texts mean, stated without the code *)

\* The three numbers a text writes out, an omitted one being 0.
Numbers(t) == [i \in 1..3 |-> IF i <= Len(t.groups) THEN t.groups[i] ELSE 0]

\* Lexicographic order.
Precedes(a, b) ==
  \E i \in 1..3 : a[i] < b[i] /\ \A j \in 1..(i - 1) : a[j] = b[j]

\* A text that names a version this machine can represent.
Names(t, prefix) == Matches(t, prefix) /\ \A i \in DOMAIN t.groups : t.groups[i] <= MaxInt

NumbersOf(v) == <<v.major, v.minor, v.patch>>

=============================================================================
