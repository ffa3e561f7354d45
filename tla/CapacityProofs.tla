----------------------------- MODULE CapacityProofs -----------------------------
(***************************************************************************)
(* A child is started once, the pool's journal verifies, and the pool's    *)
(* and the ledgers' journals do not contradict each other, for any         *)
(* callers, children, partitions, pools and capacities.                    *)
(*                                                                         *)
(* None of this is inductive: what a caller may assume about the journals  *)
(* depends on the step it is at, and holds because the ledger lets at most *)
(* one caller past the reservation of a child.  IInv says so, and carries  *)
(* the pool's own account (its revision is the sum of its events, its      *)
(* usage the sum of its holds), for which the first part of the module     *)
(* proves what sums over finite sets are.                                  *)
(***************************************************************************)
EXTENDS Capacity, FiniteSetTheorems, WellFoundedInduction, TLAPS

--------------------------------------------------------------------------------
(* Sums over finite sets                                                        *)

Least(s) == CHOOSE x \in s : TRUE
SumStep(f, g, s) == IF s = {} THEN 0 ELSE f[Least(s)] + g[s \ {Least(s)}]
IsSum(f, D, g) == g = [s \in D |-> SumStep(f, g, s)]
Subsets(S, n) == {s \in SUBSET S : Cardinality(s) <= n}

LEMMA SumIsChosen ==
  ASSUME NEW f, NEW S
  PROVE  SumFunctionOnSet(f, S) = (CHOOSE g : IsSum(f, SUBSET S, g))[S]
  BY DEF SumFunctionOnSet, FoldFunctionOnSet, MapThenFoldSet, IsSum, SumStep, Least

\* Every set of numbers that is not empty has a smallest member.
LEMMA SmallestNumber ==
  ASSUME NEW B \in SUBSET Nat, B # {}
  PROVE  \E m \in B : \A k \in B : m <= k
<1> DEFINE R == {ss \in Nat \X Nat : ss[1] < ss[2]}
<1>1. IsWellFoundedOn(R, Nat)
  BY NatLessThanWellFounded, Zenon DEF OpToRel
<1> HIDE DEF R
<1>2. PICK m \in B : \A k \in B : ~(<<k, m>> \in R)
  BY <1>1, WFMin
<1>3. ASSUME NEW k \in B PROVE m <= k
  <2>1. k \in Nat /\ m \in Nat
    OBVIOUS
  <2>2. ~(k < m)
    BY <1>2, <2>1 DEF R
  <2> QED
    BY <2>1, <2>2
<1> QED
  BY <1>3

\* A finite set that is not empty is a member more than the set without it.
LEMMA OneLess ==
  ASSUME NEW s, IsFiniteSet(s), NEW x \in s
  PROVE  /\ IsFiniteSet(s \ {x}) /\ Cardinality(s) \in Nat /\ Cardinality(s \ {x}) \in Nat
         /\ Cardinality(s \ {x}) = Cardinality(s) - 1
  BY FS_CardinalityType, FS_RemoveElement

LEMMA LeastIsIn == ASSUME NEW s, s # {} PROVE Least(s) \in s
  BY DEF Least

\* The recursion of a sum is well founded, so that there is a function that solves it.
LEMMA SumExists ==
  ASSUME NEW f, NEW S, IsFiniteSet(S)
  PROVE  \E g : IsSum(f, SUBSET S, g)
<1> DEFINE B == {n \in Nat : ~\E g : IsSum(f, Subsets(S, n), g)}
<1>1. \A s \in SUBSET S : IsFiniteSet(s) /\ Cardinality(s) \in Nat
  BY FS_Subset, FS_CardinalityType
<1>2. B = {}
  <2> SUFFICES ASSUME B # {} PROVE FALSE
    OBVIOUS
  <2>1. PICK n \in B : \A k \in B : n <= k
    BY SmallestNumber
  <2>2. CASE n = 0
    <3> DEFINE g == [s \in Subsets(S, 0) |-> 0]
    <3>1. \A s \in Subsets(S, 0) : s = {}
      BY <1>1, FS_EmptySet DEF Subsets
    <3>2. IsSum(f, Subsets(S, 0), g)
      BY <3>1 DEF IsSum, SumStep
    <3> QED
      BY <2>1, <2>2, <3>2
  <2>3. CASE n # 0
    <3>1. n - 1 \in Nat /\ n - 1 < n
      BY <2>1, <2>3
    <3>2. PICK h : IsSum(f, Subsets(S, n - 1), h)
      BY <2>1, <3>1
    <3> DEFINE g == [s \in Subsets(S, n) |-> SumStep(f, h, s)]
    <3>3. ASSUME NEW s \in Subsets(S, n) PROVE g[s] = SumStep(f, g, s)
      <4>1. CASE s = {}
        BY <4>1 DEF SumStep
      <4>2. CASE s # {}
        <5> DEFINE t == s \ {Least(s)}
        <5>1. Least(s) \in s
          BY <4>2, LeastIsIn
        <5>2. t \in Subsets(S, n - 1) /\ t \in Subsets(S, n)
          BY <1>1, <2>1, <5>1, OneLess DEF Subsets
        <5>3. h[t] = SumStep(f, h, t)
          BY <3>2, <5>2 DEF IsSum
        <5>4. g[t] = SumStep(f, h, t)
          BY <5>2
        <5> QED
          BY <4>2, <5>3, <5>4 DEF SumStep
      <4> QED
        BY <4>1, <4>2
    <3>4. IsSum(f, Subsets(S, n), g)
      BY <3>3 DEF IsSum
    <3> QED
      BY <2>1, <3>4
  <2> QED
    BY <2>2, <2>3
<1>3. Cardinality(S) \in Nat
  BY <1>1
<1>4. \E g : IsSum(f, Subsets(S, Cardinality(S)), g)
  BY <1>2, <1>3
<1>5. Subsets(S, Cardinality(S)) = SUBSET S
  BY FS_Subset DEF Subsets
<1> QED
  BY <1>4, <1>5

\* The function whose value a sum is.
LEMMA SumChosen ==
  ASSUME NEW f, NEW S, IsFiniteSet(S)
  PROVE  \E g : IsSum(f, SUBSET S, g) /\ SumFunctionOnSet(f, S) = g[S]
<1> DEFINE g == CHOOSE h : IsSum(f, SUBSET S, h)
<1>1. IsSum(f, SUBSET S, g)
  BY SumExists
<1> QED
  BY <1>1, SumIsChosen

\* The value of a sum over a part does not depend on the whole.
LEMMA SumOfPart ==
  \A f, S, g, T : IsFiniteSet(S) /\ IsSum(f, SUBSET S, g) /\ T \in SUBSET S => g[T] = SumFunctionOnSet(f, T)
<1> SUFFICES ASSUME NEW f, NEW S, NEW g, IsFiniteSet(S), IsSum(f, SUBSET S, g), NEW T \in SUBSET S
             PROVE  g[T] = SumFunctionOnSet(f, T)
  OBVIOUS
<1>1. \A s \in SUBSET S : IsFiniteSet(s) /\ Cardinality(s) \in Nat
  BY FS_Subset, FS_CardinalityType
<1>2. PICK h : IsSum(f, SUBSET T, h) /\ SumFunctionOnSet(f, T) = h[T]
  BY <1>1, SumChosen
<1> DEFINE B == {n \in Nat : \E s \in SUBSET T : Cardinality(s) = n /\ g[s] # h[s]}
<1>3. B = {}
  <2> SUFFICES ASSUME B # {} PROVE FALSE
    OBVIOUS
  <2>1. PICK n \in B : \A k \in B : n <= k
    BY SmallestNumber
  <2>2. PICK s \in SUBSET T : Cardinality(s) = n /\ g[s] # h[s]
    BY <2>1
  <2>3. g[s] = SumStep(f, g, s) /\ h[s] = SumStep(f, h, s)
    BY <1>2 DEF IsSum
  <2>4. s # {}
    BY <2>2, <2>3 DEF SumStep
  <2> DEFINE t == s \ {Least(s)}
  <2>5. Least(s) \in s
    BY <2>4, LeastIsIn
  <2>6. t \in SUBSET T /\ Cardinality(t) \in Nat /\ Cardinality(t) < n
    BY <1>1, <2>1, <2>2, <2>5, OneLess
  <2>7. g[t] = h[t]
    <3>1. Cardinality(t) \notin B
      BY <2>1, <2>6
    <3> QED
      BY <2>6, <3>1
  <2> QED
    BY <2>2, <2>3, <2>4, <2>7 DEF SumStep
<1>4. g[T] = h[T]
  BY <1>1, <1>3
<1> QED
  BY <1>2, <1>4

LEMMA SumEmpty == ASSUME NEW f PROVE SumFunctionOnSet(f, {}) = 0
<1>1. IsFiniteSet({})
  BY FS_EmptySet
<1>2. PICK g : IsSum(f, SUBSET {}, g) /\ SumFunctionOnSet(f, {}) = g[{}]
  BY <1>1, SumChosen
<1> QED
  BY <1>2 DEF IsSum, SumStep

LEMMA SumLeast ==
  ASSUME NEW f, NEW S, IsFiniteSet(S), S # {}
  PROVE  SumFunctionOnSet(f, S) = f[Least(S)] + SumFunctionOnSet(f, S \ {Least(S)})
<1>1. PICK g : IsSum(f, SUBSET S, g) /\ SumFunctionOnSet(f, S) = g[S]
  BY SumChosen
<1>2. ASSUME NEW T, T \in SUBSET S PROVE g[T] = SumFunctionOnSet(f, T)
  BY <1>1, <1>2, SumOfPart
<1>3. g[S] = f[Least(S)] + g[S \ {Least(S)}]
  BY <1>1 DEF IsSum, SumStep
<1>4. S \ {Least(S)} \in SUBSET S
  OBVIOUS
<1> QED
  BY <1>1, <1>2, <1>3, <1>4

\* A sum of numbers is a number.
LEMMA SumType ==
  ASSUME NEW S, IsFiniteSet(S), NEW f, \A x \in S : f[x] \in Nat
  PROVE  SumFunctionOnSet(f, S) \in Nat
<1>1. \A s \in SUBSET S : IsFiniteSet(s) /\ Cardinality(s) \in Nat
  BY FS_Subset, FS_CardinalityType
<1> DEFINE B == {n \in Nat : \E s \in SUBSET S : Cardinality(s) = n /\ SumFunctionOnSet(f, s) \notin Nat}
<1>2. B = {}
  <2> SUFFICES ASSUME B # {} PROVE FALSE
    OBVIOUS
  <2>1. PICK n \in B : \A k \in B : n <= k
    BY SmallestNumber
  <2>2. PICK s \in SUBSET S : Cardinality(s) = n /\ SumFunctionOnSet(f, s) \notin Nat
    BY <2>1
  <2>3. s # {}
    BY <2>2, SumEmpty
  <2> DEFINE t == s \ {Least(s)}
  <2>4. Least(s) \in s
    BY <2>3, LeastIsIn
  <2>5. t \in SUBSET S /\ Cardinality(t) \in Nat /\ Cardinality(t) < n
    BY <1>1, <2>1, <2>2, <2>4, OneLess
  <2>6. SumFunctionOnSet(f, t) \in Nat
    <3>1. Cardinality(t) \notin B
      BY <2>1, <2>5
    <3> QED
      BY <2>5, <3>1
  <2>7. SumFunctionOnSet(f, s) = f[Least(s)] + SumFunctionOnSet(f, t)
    BY <1>1, <2>3, SumLeast
  <2>8. f[Least(s)] \in Nat
    BY <2>4
  <2>9. SumFunctionOnSet(f, s) \in Nat
    BY <2>6, <2>7, <2>8
  <2> QED
    BY <2>2, <2>9
<1> QED
  BY <1>1, <1>2

\* A sum is any of its terms and the sum of the others.
LEMMA SumRemove ==
  ASSUME NEW S, IsFiniteSet(S), NEW f, \A x \in S : f[x] \in Nat, NEW y \in S
  PROVE  SumFunctionOnSet(f, S) = f[y] + SumFunctionOnSet(f, S \ {y})
<1>1. \A s \in SUBSET S : IsFiniteSet(s) /\ Cardinality(s) \in Nat
  BY FS_Subset, FS_CardinalityType
<1> DEFINE Bad(s, x) == SumFunctionOnSet(f, s) # f[x] + SumFunctionOnSet(f, s \ {x})
           B == {n \in Nat : \E s \in SUBSET S : Cardinality(s) = n /\ \E x \in s : Bad(s, x)}
<1>2. B = {}
  <2> SUFFICES ASSUME B # {} PROVE FALSE
    OBVIOUS
  <2>1. PICK n \in B : \A k \in B : n <= k
    BY SmallestNumber
  <2>2. PICK s \in SUBSET S : Cardinality(s) = n /\ \E x \in s : Bad(s, x)
    BY <2>1
  <2>0. \A k \in Nat : k < n => k \notin B
    <3> HIDE DEF B
    <3>1. n \in Nat
      BY <2>1 DEF B
    <3> QED
      BY <2>1, <3>1
  <2>3. PICK x \in s : Bad(s, x)
    BY <2>2
  <2> DEFINE c == Least(s)
  <2>4. c \in s
    BY <2>3, LeastIsIn
  <2>5. SumFunctionOnSet(f, s) = f[c] + SumFunctionOnSet(f, s \ {c})
    BY <1>1, <2>3, SumLeast
  <2>6. x # c
    BY <2>3, <2>5
  <2> HIDE DEF c
  <2>7. ASSUME NEW a \in s, NEW b \in s, a # b
        PROVE  SumFunctionOnSet(f, s \ {a}) = f[b] + SumFunctionOnSet(f, (s \ {a}) \ {b})
    <3>1. s \ {a} \in SUBSET S /\ Cardinality(s \ {a}) \in Nat /\ Cardinality(s \ {a}) < n
      BY <1>1, <2>1, <2>2, OneLess
    <3>2. Cardinality(s \ {a}) \notin B
      BY <2>0, <3>1
    <3>3. b \in s \ {a}
      BY <2>7
    <3> QED
      BY <3>1, <3>2, <3>3
  <2>8. SumFunctionOnSet(f, s \ {c}) = f[x] + SumFunctionOnSet(f, (s \ {c}) \ {x})
    BY <2>4, <2>6, <2>7
  <2>9. SumFunctionOnSet(f, s \ {x}) = f[c] + SumFunctionOnSet(f, (s \ {x}) \ {c})
    BY <2>4, <2>6, <2>7
  <2>10. (s \ {c}) \ {x} = (s \ {x}) \ {c}
    OBVIOUS
  <2> DEFINE z == SumFunctionOnSet(f, (s \ {x}) \ {c})
  <2>11. z \in Nat /\ f[c] \in Nat /\ f[x] \in Nat
    <3>1. (s \ {x}) \ {c} \in SUBSET S
      OBVIOUS
    <3> QED
      BY <1>1, <2>4, <3>1, SumType
  <2>12. SumFunctionOnSet(f, s) = f[c] + (f[x] + z) /\ SumFunctionOnSet(f, s \ {x}) = f[c] + z
    BY <2>5, <2>8, <2>9, <2>10
  <2> HIDE DEF z
  <2>13. SumFunctionOnSet(f, s) = f[x] + SumFunctionOnSet(f, s \ {x})
    BY <2>11, <2>12
  <2> QED
    BY <2>3, <2>13
<1>3. Cardinality(S) \in Nat /\ Cardinality(S) \notin B
  BY <1>1, <1>2
<1> QED
  BY <1>3

\* Sums of the same terms are the same.
LEMMA SumSame ==
  ASSUME NEW S, IsFiniteSet(S), NEW f, NEW h, \A x \in S : f[x] = h[x]
  PROVE  SumFunctionOnSet(f, S) = SumFunctionOnSet(h, S)
<1>1. \A s \in SUBSET S : IsFiniteSet(s) /\ Cardinality(s) \in Nat
  BY FS_Subset, FS_CardinalityType
<1> DEFINE B == {n \in Nat : \E s \in SUBSET S : Cardinality(s) = n /\ SumFunctionOnSet(f, s) # SumFunctionOnSet(h, s)}
<1>2. B = {}
  <2> SUFFICES ASSUME B # {} PROVE FALSE
    OBVIOUS
  <2>1. PICK n \in B : \A k \in B : n <= k
    BY SmallestNumber
  <2>2. PICK s \in SUBSET S : Cardinality(s) = n /\ SumFunctionOnSet(f, s) # SumFunctionOnSet(h, s)
    BY <2>1
  <2>3. s # {}
    BY <2>2, SumEmpty
  <2> DEFINE t == s \ {Least(s)}
  <2>4. Least(s) \in s
    BY <2>3, LeastIsIn
  <2>5. t \in SUBSET S /\ Cardinality(t) \in Nat /\ Cardinality(t) < n
    BY <1>1, <2>1, <2>2, <2>4, OneLess
  <2>6. SumFunctionOnSet(f, t) = SumFunctionOnSet(h, t)
    <3>1. Cardinality(t) \notin B
      BY <2>1, <2>5
    <3> QED
      BY <2>5, <3>1
  <2>7. /\ SumFunctionOnSet(f, s) = f[Least(s)] + SumFunctionOnSet(f, t)
        /\ SumFunctionOnSet(h, s) = h[Least(s)] + SumFunctionOnSet(h, t)
    BY <1>1, <2>3, SumLeast
  <2> QED
    BY <2>2, <2>4, <2>6, <2>7
<1> QED
  BY <1>1, <1>2

\* A term that is new adds itself to a sum.
LEMMA SumAdd ==
  ASSUME NEW S, IsFiniteSet(S), NEW y, y \notin S, NEW f, NEW h,
         \A x \in S : f[x] \in Nat /\ h[x] = f[x], h[y] \in Nat
  PROVE  SumFunctionOnSet(h, S \union {y}) = SumFunctionOnSet(f, S) + h[y]
<1> DEFINE T == S \union {y}
<1>1. IsFiniteSet(T) /\ y \in T /\ T \ {y} = S /\ \A x \in T : h[x] \in Nat
  BY FS_AddElement
<1> HIDE DEF T
<1>2. SumFunctionOnSet(h, T) = h[y] + SumFunctionOnSet(h, T \ {y})
  BY <1>1, SumRemove
<1>3. SumFunctionOnSet(h, S) = SumFunctionOnSet(f, S)
  BY SumSame
<1>4. SumFunctionOnSet(f, S) \in Nat
  BY SumType
<1>5. SumFunctionOnSet(h, T) = SumFunctionOnSet(f, S) + h[y]
  BY <1>1, <1>2, <1>3, <1>4
<1> QED
  BY <1>5 DEF T

\* A term that changes changes a sum by as much.
LEMMA SumChange ==
  ASSUME NEW S, IsFiniteSet(S), NEW y \in S, NEW f, NEW h,
         \A x \in S : f[x] \in Nat /\ h[x] \in Nat, \A x \in S \ {y} : h[x] = f[x]
  PROVE  SumFunctionOnSet(h, S) + f[y] = SumFunctionOnSet(f, S) + h[y]
<1> DEFINE T == S \ {y}
<1>1. IsFiniteSet(T) /\ \A x \in T : f[x] \in Nat /\ h[x] = f[x]
  BY FS_Subset
<1>2. SumFunctionOnSet(h, S) = h[y] + SumFunctionOnSet(h, T) /\ SumFunctionOnSet(f, S) = f[y] + SumFunctionOnSet(f, T)
  BY SumRemove
<1> HIDE DEF T
<1>3. SumFunctionOnSet(h, T) = SumFunctionOnSet(f, T) /\ SumFunctionOnSet(f, T) \in Nat
  BY <1>1, SumSame, SumType
<1>4. f[y] \in Nat /\ h[y] \in Nat
  OBVIOUS
<1> QED
  BY <1>2, <1>3, <1>4

--------------------------------------------------------------------------------
(* What a caller may assume                                                     *)

\* The steps after the partition's ledger has reserved the child for the caller.
Past == {"bind", "record", "launch", "observe", "complete", "settle", "acquire", "settle_common"}
Started == {"dispatched", "completed", "settled"}

Same(j, k) == j.partition = k.partition /\ j.child = k.child
Of(j) == ledger[j.partition][j.child]

\* The caller's child is in its ledger where the caller has left it.
StageInv(c) ==
  /\ pc[c] \in {"bind", "record"} => Of(job[c]).stage = "held"
  /\ pc[c] \in {"launch", "observe", "complete"} => Of(job[c]).stage = "dispatched"
  /\ pc[c] = "settle" => Of(job[c]).stage = "completed"
  /\ pc[c] \in {"acquire", "settle_common"} => Of(job[c]).stage = "settled"
  /\ pc[c] \in {"complete", "settle", "acquire", "settle_common"} => out[c] \in Out
  /\ pc[c] \in {"settle", "acquire", "settle_common"} => Of(job[c]).out = out[c]

\* Its pool holds an entry for it, bound before the dispatch is recorded.
HoldInv(c) ==
  (job[c].owner \in Pool /\ pc[c] \in Past \union {"reserve"}) =>
    LET e == pool[job[c].owner].entries[job[c].child] IN
    /\ e # None /\ e.partition = job[c].partition
    /\ pc[c] \notin {"reserve", "bind"} => e.dispatch

CallerInv(c) ==
  pc[c] # "idle" =>
    /\ job[c] \in Job
    /\ pc[c] \in {"reserve_common", "mark", "bind", "settle_common"} => job[c].owner \in Pool
    /\ StageInv(c)
    /\ HoldInv(c)
    /\ pc[c] \in {"bind", "record", "launch"} =>
         \A k \in Job : Same(k, job[c]) => launches[k] = 0

\* At most one caller is past the reservation of a child in a partition.
OneCaller ==
  \A c, d \in Caller :
    (pc[c] \in Past /\ pc[d] \in Past /\ Same(job[c], job[d])) => c = d

\* A process started is the only one of its child in its partition, is recorded in
\* the partition's ledger and bound in the pool.
LaunchInv(k) ==
  launches[k] > 0 =>
    /\ launches[k] = 1
    /\ Of(k).stage \in Started
    /\ k.owner \in Pool =>
         LET e == pool[k.owner].entries[k.child] IN
         e # None /\ e.partition = k.partition /\ e.dispatch
    /\ \A j \in Job : launches[j] > 0 /\ Same(j, k) => j = k

\* A hold is under the partition's marker, and let go of only when settled.
EntryInv(p, ch) ==
  LET e == pool[p].entries[ch] IN
  e # None =>
    /\ marker[e.partition] = p
    /\ e.retained < Hold =>
         /\ ledger[e.partition][ch].stage = "settled"
         /\ ledger[e.partition][ch].out = [performed |-> TRUE, captured |-> e.retained]

PoolInv(p) == _validate_record(pool[p])

IInv ==
  /\ TypeOK
  /\ \A c \in Caller : CallerInv(c)
  /\ OneCaller
  /\ \A k \in Job : LaunchInv(k)
  /\ \A p \in Pool, ch \in Child : EntryInv(p, ch)
  /\ \A p \in Pool : PoolInv(p)

--------------------------------------------------------------------------------
(* What the journals keep                                                       *)

\* No entry is taken away, moved or unbound; no launch, settlement or binding is undone.
PoolGrows ==
  \A p \in Pool, ch \in Child :
    pool[p].entries[ch] # None =>
      /\ pool'[p].entries[ch] # None
      /\ pool'[p].entries[ch].partition = pool[p].entries[ch].partition
      /\ pool[p].entries[ch].dispatch => pool'[p].entries[ch].dispatch
LedgerGrows ==
  \A l \in Partition, ch \in Child :
    /\ ledger[l][ch].stage \in Started => ledger'[l][ch].stage \in Started
    /\ ledger[l][ch].stage = "settled" => ledger'[l][ch] = ledger[l][ch]
MarkerGrows == \A l \in Partition : marker[l] \in Pool => marker'[l] = marker[l]

LEMMA JobTypes ==
  ASSUME NEW j \in Job
  PROVE  j.partition \in Partition /\ j.child \in Child /\ j.owner \in Pool \union {Legacy}
  BY DEF Job

\* A job is its partition, its child and its owner.
LEMMA JobIs ==
  ASSUME NEW j \in Job, NEW k \in Job, Same(j, k), j.owner = k.owner PROVE j = k
  BY DEF Job, Same

LEMMA EntryTypes ==
  ASSUME TypeOK, NEW p \in Pool, NEW ch \in Child
  PROVE  /\ pool[p] \in [entries : [Child -> Entry \union {None}], revision : Nat]
         /\ pool[p].revision \in Nat
         /\ pool[p].entries \in [Child -> Entry \union {None}]
         /\ pool[p].entries[ch] # None =>
              /\ pool[p].entries[ch] \in Entry
              /\ pool[p].entries[ch].partition \in Partition
              /\ pool[p].entries[ch].dispatch \in BOOLEAN
              /\ pool[p].entries[ch].settlement \in {None, "KNOWN", "UNKNOWN"}
              /\ pool[p].entries[ch].retained \in 0..Hold
  BY DEF TypeOK, Entry

LEMMA NoneIsNoEntry == Entry \intersect {None} = {} /\ None \notin {"KNOWN", "UNKNOWN"} /\ None \notin Pool /\ Torn \notin Pool /\ Legacy \notin Pool
  BY CapacityAssumption

LEMMA GotoEffect ==
  ASSUME TypeOK, NEW c \in Caller, NEW step \in Steps \union {"idle"}, Goto(c, step)
  PROVE  /\ pc' \in [Caller -> Steps \union {"idle"}]
         /\ job' \in [Caller -> Job \union {None}]
         /\ out' \in [Caller -> Out \union {None}]
         /\ pc'[c] = step
         /\ step # "idle" => job'[c] = job[c] /\ out'[c] = out[c]
         /\ \A d \in Caller : d # c => pc'[d] = pc[d] /\ job'[d] = job[d] /\ out'[d] = out[d]
  BY DEF TypeOK, Goto

\* A caller that does not move keeps what it may assume, when the ledger keeps its
\* child where it is.
LEMMA OthersKeep ==
  ASSUME TypeOK, NEW d \in Caller, CallerInv(d), PoolGrows,
         pc'[d] = pc[d], job'[d] = job[d], out'[d] = out[d],
         pc[d] \in Past => Of(job[d])' = Of(job[d]),
         pc[d] \in {"bind", "record", "launch"} => \A k \in Job : Same(k, job[d]) => launches'[k] = launches[k]
  PROVE  CallerInv(d)'
<1> SUFFICES ASSUME pc[d] # "idle" PROVE CallerInv(d)'
  BY DEF CallerInv
<1> USE DEF Past
<1>1. job[d] \in Job /\ (pc[d] \in {"reserve_common", "mark", "bind", "settle_common"} => job[d].owner \in Pool)
  BY DEF CallerInv
<1>2. StageInv(d)'
  BY DEF CallerInv, StageInv
<1>3. HoldInv(d)'
  <2>1. job[d].child \in Child
    BY <1>1, JobTypes
  <2>2. SUFFICES ASSUME job[d].owner \in Pool, pc[d] \in Past \union {"reserve"}
        PROVE  LET e == pool'[job[d].owner].entries[job[d].child] IN
               /\ e # None /\ e.partition = job[d].partition
               /\ pc[d] \notin {"reserve", "bind"} => e.dispatch
    BY DEF HoldInv
  <2>3. LET e == pool[job[d].owner].entries[job[d].child] IN
        /\ e # None /\ e.partition = job[d].partition
        /\ pc[d] \notin {"reserve", "bind"} => e.dispatch
    BY <2>2 DEF CallerInv, HoldInv
  <2> QED
    BY <2>1, <2>2, <2>3 DEF PoolGrows
<1>4. ASSUME pc[d] \in {"bind", "record", "launch"}, NEW k \in Job, Same(k, job[d]) PROVE launches'[k] = 0
  BY <1>4 DEF CallerInv
<1> QED
  BY <1>1, <1>2, <1>3, <1>4 DEF CallerInv, Same

LEMMA IdleKeeps == ASSUME NEW c \in Caller, pc'[c] = "idle" PROVE CallerInv(c)'
  BY DEF CallerInv

LEMMA LaunchesKeep ==
  ASSUME TypeOK, \A k \in Job : LaunchInv(k), PoolGrows, LedgerGrows, launches' = launches
  PROVE  \A k \in Job : LaunchInv(k)'
<1> SUFFICES ASSUME NEW k \in Job, launches[k] > 0 PROVE LaunchInv(k)'
  BY DEF LaunchInv
<1>1. k.partition \in Partition /\ k.child \in Child
  BY JobTypes
<1>2. LaunchInv(k)
  OBVIOUS
<1> QED
  BY <1>1, <1>2 DEF LaunchInv, PoolGrows, LedgerGrows, Of, Same

LEMMA EntryKeeps ==
  ASSUME TypeOK, NEW p \in Pool, NEW ch \in Child, EntryInv(p, ch), LedgerGrows, MarkerGrows,
         pool'[p].entries[ch] = pool[p].entries[ch]
  PROVE  EntryInv(p, ch)'
<1> SUFFICES ASSUME pool[p].entries[ch] # None PROVE EntryInv(p, ch)'
  BY DEF EntryInv
<1>1. pool[p].entries[ch].partition \in Partition
  BY EntryTypes
<1> QED
  BY <1>1 DEF EntryInv, LedgerGrows, MarkerGrows

\* No caller gets past a reservation.
LEMMA OneCallerKeeps ==
  ASSUME OneCaller, \A d \in Caller : pc'[d] \in Past => pc[d] \in Past /\ job'[d] = job[d]
  PROVE  OneCaller'
  BY DEF OneCaller, Same

\* A step of one caller that moves no journal.
LEMMA Moves ==
  ASSUME IInv, NEW c \in Caller, UNCHANGED <<marker, pool, ledger, launches>>,
         TypeOK', CallerInv(c)',
         pc'[c] \in Past => pc[c] \in Past /\ job'[c] = job[c],
         \A d \in Caller : d # c => pc'[d] = pc[d] /\ job'[d] = job[d] /\ out'[d] = out[d]
  PROVE  IInv'
<1>1. PoolGrows /\ LedgerGrows /\ MarkerGrows
  BY DEF PoolGrows, LedgerGrows, MarkerGrows
<1>2. ASSUME NEW d \in Caller, d # c PROVE CallerInv(d)'
  BY <1>1, <1>2, OthersKeep DEF IInv, Of
<1>3. OneCaller'
  BY OneCallerKeeps DEF IInv
<1>4. \A k \in Job : LaunchInv(k)'
  BY <1>1, LaunchesKeep DEF IInv
<1>5. \A p \in Pool, ch \in Child : EntryInv(p, ch)'
  BY <1>1, EntryKeeps DEF IInv
<1>6. \A p \in Pool : PoolInv(p)'
  BY DEF IInv, PoolInv
<1> QED
  BY <1>2, <1>3, <1>4, <1>5, <1>6 DEF IInv

\* The end of a call that leaves the journals as they are, or stops one.
LEMMA Leaves ==
  ASSUME IInv, NEW c \in Caller, Goto(c, "idle"), UNCHANGED <<marker, pool, ledger, launches, intact, calls>>,
         jammed' \subseteq Pool \union Partition
  PROVE  IInv'
<1>1. TypeOK
  BY DEF IInv
<1>2. /\ pc' \in [Caller -> Steps \union {"idle"}]
      /\ job' \in [Caller -> Job \union {None}]
      /\ out' \in [Caller -> Out \union {None}]
      /\ pc'[c] = "idle"
      /\ \A d \in Caller : d # c => pc'[d] = pc[d] /\ job'[d] = job[d] /\ out'[d] = out[d]
  BY <1>1, GotoEffect
<1>3. TypeOK'
  BY <1>1, <1>2 DEF TypeOK
<1>4. CallerInv(c)'
  BY <1>2, IdleKeeps
<1>5. pc'[c] \notin Past
  BY <1>2 DEF Past
<1> QED
  BY <1>2, <1>3, <1>4, <1>5, Moves

--------------------------------------------------------------------------------
(* The ledger's operations                                                      *)

LEMMA LedgerEffect ==
  ASSUME TypeOK, NEW j \in Job, NEW to \in Stage, NEW o \in Out \union {None},
         ledger' = [ledger EXCEPT ![j.partition][j.child] = [stage |-> to, out |-> o]]
  PROVE  /\ ledger' \in [Partition -> [Child -> [stage : Stage, out : Out \union {None}]]]
         /\ Of(j)' = [stage |-> to, out |-> o]
         /\ \A l \in Partition, ch \in Child : ~(l = j.partition /\ ch = j.child) => ledger'[l][ch] = ledger[l][ch]
<1>1. j.partition \in Partition /\ j.child \in Child
  BY JobTypes
<1> QED
  BY <1>1 DEF TypeOK, Of

\* A change of the ledger that is published, by the caller past the reservation or
\* by the one that gets past it.
LEMMA LedgerPublished ==
  ASSUME IInv, NEW c \in Caller, pc[c] # "idle",
         NEW from \in Stage \ {"settled"}, NEW to \in Stage, NEW o \in Out \union {None},
         from \in Started => to \in Started,
         pc[c] \in Past \/ from = "free",
         Of(job[c]).stage = from,
         ledger' = [ledger EXCEPT ![job[c].partition][job[c].child] = [stage |-> to, out |-> o]],
         NEW next \in Steps \union {"idle"}, Goto(c, next),
         UNCHANGED <<jammed, marker, pool, intact, calls, launches>>,
         CallerInv(c)'
  PROVE  IInv'
<1>1. TypeOK /\ job[c] \in Job
  BY DEF IInv, CallerInv
<1>2. /\ ledger' \in [Partition -> [Child -> [stage : Stage, out : Out \union {None}]]]
      /\ \A l \in Partition, ch \in Child :
           ~(l = job[c].partition /\ ch = job[c].child) => ledger'[l][ch] = ledger[l][ch]
      /\ ledger'[job[c].partition][job[c].child] = [stage |-> to, out |-> o]
  BY <1>1, LedgerEffect, JobTypes DEF TypeOK
<1>3. /\ pc' \in [Caller -> Steps \union {"idle"}]
      /\ job' \in [Caller -> Job \union {None}]
      /\ out' \in [Caller -> Out \union {None}]
      /\ pc'[c] = next
      /\ next # "idle" => job'[c] = job[c]
      /\ \A d \in Caller : d # c => pc'[d] = pc[d] /\ job'[d] = job[d] /\ out'[d] = out[d]
  BY <1>1, GotoEffect
<1>4. TypeOK'
  BY <1>1, <1>2, <1>3 DEF TypeOK
<1>5. PoolGrows /\ MarkerGrows
  BY DEF PoolGrows, MarkerGrows
<1>6. LedgerGrows
  BY <1>1, <1>2, JobTypes DEF LedgerGrows, Of
<1>7. ASSUME NEW d \in Caller, d # c, pc[d] \in Past PROVE job[d] \in Job /\ ~Same(job[d], job[c])
  <2>1. job[d] \in Job /\ StageInv(d)
    BY <1>7 DEF IInv, CallerInv, Past
  <2>2. Of(job[d]).stage # "free"
    BY <1>7, <2>1 DEF StageInv, Past
  <2>3. CASE pc[c] \in Past
    BY <1>7, <2>1, <2>3 DEF IInv, OneCaller, Same
  <2>4. CASE from = "free"
    BY <2>1, <2>2, <2>4 DEF Same, Of
  <2> QED
    BY <2>1, <2>3, <2>4
<1>8. ASSUME NEW d \in Caller PROVE CallerInv(d)'
  <2>1. CASE d = c
    BY <2>1
  <2>2. CASE d # c
    <3>1. pc[d] \in Past => Of(job[d])' = Of(job[d])
      BY <1>2, <1>3, <1>7, <2>2, JobTypes DEF Of, Same
    <3> QED
      BY <1>1, <1>3, <1>5, <2>2, <3>1, OthersKeep DEF IInv
  <2> QED
    BY <2>1, <2>2
<1>9. OneCaller'
  <2> SUFFICES ASSUME NEW d \in Caller, NEW e \in Caller, pc'[d] \in Past, pc'[e] \in Past,
                      Same(job'[d], job'[e]), d # e
               PROVE  FALSE
    BY DEF OneCaller, Same
  <2>1. \A b \in Caller : pc'[b] \in Past => job'[b] = job[b]
    BY <1>3 DEF Past
  <2>2. CASE d = c
    BY <1>3, <1>7, <2>1, <2>2 DEF Same
  <2>3. CASE e = c
    BY <1>3, <1>7, <2>1, <2>3 DEF Same
  <2>4. CASE d # c /\ e # c
    BY <1>3, <2>1, <2>4 DEF IInv, OneCaller, Same
  <2> QED
    BY <2>2, <2>3, <2>4
<1>10. \A k \in Job : LaunchInv(k)'
  BY <1>1, <1>5, <1>6, LaunchesKeep DEF IInv
<1>11. \A p \in Pool, ch \in Child : EntryInv(p, ch)'
  BY <1>1, <1>5, <1>6, EntryKeeps DEF IInv
<1>12. \A p \in Pool : PoolInv(p)'
  BY DEF IInv, PoolInv
<1> QED
  BY <1>4, <1>8, <1>9, <1>10, <1>11, <1>12 DEF IInv

\* The same with its interruption, and the caller gone.
LEMMA LedgerStep ==
  ASSUME IInv, NEW c \in Caller, pc[c] # "idle",
         NEW from \in Stage \ {"settled"}, NEW to \in Stage, NEW o \in Out \union {None},
         from \in Started => to \in Started,
         pc[c] \in Past \/ from = "free",
         NEW next \in Steps \union {"idle"}, LedgerChange(c, from, to, o, next),
         /\ ledger' = [ledger EXCEPT ![job[c].partition][job[c].child] = [stage |-> to, out |-> o]]
         /\ Goto(c, next)
         => CallerInv(c)'
  PROVE  IInv'
<1>1. TypeOK /\ job[c] \in Job /\ job[c].partition \in Partition
  BY JobTypes DEF IInv, CallerInv
<1>2. Of(job[c]).stage = from /\ UNCHANGED <<marker, pool, intact, calls, launches>>
  BY DEF LedgerChange, Of
<1>3. CASE /\ ledger' = [ledger EXCEPT ![job[c].partition][job[c].child] = [stage |-> to, out |-> o]]
           /\ Goto(c, next)
           /\ UNCHANGED jammed
  BY <1>2, <1>3, LedgerPublished
<1>4. CASE /\ ledger' = [ledger EXCEPT ![job[c].partition][job[c].child] = [stage |-> to, out |-> o]]
           /\ Goto(c, "idle")
           /\ UNCHANGED jammed
  <2>1. pc'[c] = "idle"
    BY <1>1, <1>4, GotoEffect
  <2>2. CallerInv(c)'
    BY <2>1, IdleKeeps
  <2> QED
    BY <1>2, <1>4, <2>2, LedgerPublished
<1>5. CASE /\ jammed' = jammed \union {job[c].partition}
           /\ Goto(c, "idle")
           /\ UNCHANGED ledger
  <2>1. jammed' \subseteq Pool \union Partition
    BY <1>1, <1>5 DEF TypeOK
  <2> QED
    BY <1>2, <1>5, <2>1, Leaves
<1> QED
  BY <1>3, <1>4, <1>5 DEF LedgerChange

\* What the next step of the caller may assume after a published change.
LEMMA NextAssumes ==
  ASSUME IInv, NEW c \in Caller, pc[c] # "idle", NEW to \in Stage, NEW o \in Out \union {None},
         ledger' = [ledger EXCEPT ![job[c].partition][job[c].child] = [stage |-> to, out |-> o]],
         NEW next \in Steps, Goto(c, next)
  PROVE  /\ pc'[c] = next /\ job'[c] = job[c] /\ out'[c] = out[c] /\ job[c] \in Job
         /\ Of(job[c])'.stage = to /\ Of(job[c])'.out = o
<1>1. TypeOK /\ job[c] \in Job
  BY DEF IInv, CallerInv
<1>2. pc'[c] = next /\ job'[c] = job[c] /\ out'[c] = out[c]
  <2>1. next \in Steps \union {"idle"} /\ next # "idle"
    BY DEF Steps
  <2> QED
    BY <1>1, <2>1, GotoEffect
<1>3. ledger'[job[c].partition][job[c].child] = [stage |-> to, out |-> o]
  BY <1>1, JobTypes DEF TypeOK
<1> QED
  BY <1>1, <1>2, <1>3 DEF Of

LEMMA ReserveKeeps ==
  ASSUME IInv, NEW c \in Caller, ledger_reserve(c) PROVE IInv'
<1> DEFINE next == IF job[c].owner = Legacy THEN "record" ELSE "bind"
<1>1. pc[c] = "reserve" /\ LedgerChange(c, "free", "held", None, next) /\ next \in Steps
  BY DEF ledger_reserve, Steps
<1>2. job[c] \in Job /\ Of(job[c]).stage = "free"
  BY <1>1 DEF IInv, CallerInv, LedgerChange, Of
<1>3. UNCHANGED <<pool, launches>>
  BY <1>1 DEF LedgerChange
<1>4. ASSUME ledger' = [ledger EXCEPT ![job[c].partition][job[c].child] = [stage |-> "held", out |-> None]],
             Goto(c, next)
      PROVE  CallerInv(c)'
  <2>1. /\ pc'[c] = next /\ job'[c] = job[c] /\ out'[c] = out[c]
        /\ Of(job[c])'.stage = "held" /\ Of(job[c])'.out = None
    BY <1>1, <1>4, NextAssumes, ZenonT(120) DEF Stage
  <2>2. next = "bind" => job[c].owner \in Pool
    BY <1>2, JobTypes
  <2>3. StageInv(c)'
    BY <2>1 DEF StageInv
  <2>4. HoldInv(c)'
    <3>1. job[c].owner \in Pool => next = "bind"
      BY NoneIsNoEntry
    <3> HIDE DEF next
    <3> QED
      BY <1>1, <1>3, <2>1, <3>1 DEF HoldInv, IInv, CallerInv, Past
  <2>5. ASSUME NEW k \in Job, Same(k, job[c]) PROVE launches'[k] = 0
    <3>1. LaunchInv(k) /\ launches[k] \in Nat
      BY DEF IInv, TypeOK
    <3>2. Of(k).stage = "free"
      BY <1>2, <2>5 DEF Same, Of
    <3> QED
      BY <1>3, <3>1, <3>2 DEF LaunchInv, Started
  <2> QED
    BY <1>2, <2>1, <2>2, <2>3, <2>4, <2>5 DEF CallerInv, Same
<1> HIDE DEF next
<1>5. next \in Steps \union {"idle"} /\ pc[c] # "idle" /\ "free" \in Stage \ {"settled"} /\ "held" \in Stage /\ "free" \notin Started
  BY <1>1 DEF Stage, Started
<1> QED
  BY <1>1, <1>4, <1>5, LedgerStep

LEMMA RecordKeeps ==
  ASSUME IInv, NEW c \in Caller, dispatch_record(c) PROVE IInv'
<1>1. pc[c] = "record" /\ LedgerChange(c, "held", "dispatched", None, "launch")
  BY DEF dispatch_record
<1>2. CallerInv(c) /\ job[c] \in Job
  BY <1>1 DEF IInv, CallerInv
<1>3. UNCHANGED <<pool, launches>>
  BY <1>1 DEF LedgerChange
<1>4. ASSUME ledger' = [ledger EXCEPT ![job[c].partition][job[c].child] = [stage |-> "dispatched", out |-> None]],
             Goto(c, "launch")
      PROVE  CallerInv(c)'
  <2>1. /\ pc'[c] = "launch" /\ job'[c] = job[c] /\ out'[c] = out[c]
        /\ Of(job[c])'.stage = "dispatched" /\ Of(job[c])'.out = None
    BY <1>1, <1>4, NextAssumes DEF Stage, Steps
  <2>2. StageInv(c)'
    BY <2>1 DEF StageInv
  <2>3. HoldInv(c)'
    BY <1>1, <1>2, <1>3, <2>1 DEF HoldInv, CallerInv, Past
  <2> QED
    BY <1>1, <1>2, <1>3, <2>1, <2>2, <2>3 DEF CallerInv, Same
<1>5. /\ "launch" \in Steps \union {"idle"} /\ pc[c] # "idle" /\ pc[c] \in Past
      /\ "held" \in Stage \ {"settled"} /\ "dispatched" \in Stage /\ "held" \notin Started
  BY <1>1 DEF Stage, Started, Steps, Past
<1> QED
  BY <1>1, <1>4, <1>5, LedgerStep

LEMMA CompleteKeeps ==
  ASSUME IInv, NEW c \in Caller, complete(c) PROVE IInv'
<1>1. pc[c] = "complete" /\ LedgerChange(c, "dispatched", "completed", out[c], "settle")
  BY DEF complete
<1>2. CallerInv(c) /\ job[c] \in Job /\ out[c] \in Out
  BY <1>1 DEF IInv, CallerInv, StageInv
<1>3. UNCHANGED <<pool, launches>>
  BY <1>1 DEF LedgerChange
<1>4. ASSUME ledger' = [ledger EXCEPT ![job[c].partition][job[c].child] = [stage |-> "completed", out |-> out[c]]],
             Goto(c, "settle")
      PROVE  CallerInv(c)'
  <2>1. /\ pc'[c] = "settle" /\ job'[c] = job[c] /\ out'[c] = out[c]
        /\ Of(job[c])'.stage = "completed" /\ Of(job[c])'.out = out[c]
    BY <1>1, <1>2, <1>4, NextAssumes DEF Stage, Steps
  <2>2. StageInv(c)'
    BY <1>2, <2>1 DEF StageInv
  <2>3. HoldInv(c)'
    BY <1>1, <1>2, <1>3, <2>1 DEF HoldInv, CallerInv, Past
  <2> QED
    BY <1>2, <2>1, <2>2, <2>3 DEF CallerInv
<1>5. /\ "settle" \in Steps \union {"idle"} /\ pc[c] # "idle" /\ pc[c] \in Past
      /\ "dispatched" \in Stage \ {"settled"} /\ "completed" \in Stage /\ "completed" \in Started
  BY <1>1 DEF Stage, Started, Steps, Past
<1> QED
  BY <1>1, <1>2, <1>4, <1>5, LedgerStep

LEMMA SettleKeeps ==
  ASSUME IInv, NEW c \in Caller, settle(c) PROVE IInv'
<1>1. pc[c] = "settle" /\ LedgerChange(c, "completed", "settled", out[c], "acquire")
  BY DEF settle
<1>2. CallerInv(c) /\ job[c] \in Job /\ out[c] \in Out
  BY <1>1 DEF IInv, CallerInv, StageInv
<1>3. UNCHANGED <<pool, launches>>
  BY <1>1 DEF LedgerChange
<1>4. ASSUME ledger' = [ledger EXCEPT ![job[c].partition][job[c].child] = [stage |-> "settled", out |-> out[c]]],
             Goto(c, "acquire")
      PROVE  CallerInv(c)'
  <2>1. /\ pc'[c] = "acquire" /\ job'[c] = job[c] /\ out'[c] = out[c]
        /\ Of(job[c])'.stage = "settled" /\ Of(job[c])'.out = out[c]
    BY <1>1, <1>2, <1>4, NextAssumes DEF Stage, Steps
  <2>2. StageInv(c)'
    BY <1>2, <2>1 DEF StageInv
  <2>3. HoldInv(c)'
    BY <1>1, <1>2, <1>3, <2>1 DEF HoldInv, CallerInv, Past
  <2> QED
    BY <1>2, <2>1, <2>2, <2>3 DEF CallerInv
<1>5. /\ "acquire" \in Steps \union {"idle"} /\ pc[c] # "idle" /\ pc[c] \in Past
      /\ "completed" \in Stage \ {"settled"} /\ "settled" \in Stage /\ "settled" \in Started
  BY <1>1 DEF Stage, Started, Steps, Past
<1> QED
  BY <1>1, <1>2, <1>4, <1>5, LedgerStep

--------------------------------------------------------------------------------
(* The pool's account                                                           *)

Body == [entries : [Child -> Entry \union {None}], revision : Nat]
Revised(b, ch, e) == [entries |-> [b.entries EXCEPT ![ch] = e], revision |-> b.revision + 1]
EventsOf(b) == [x \in Held(b) |-> Events(b.entries[x])]
RetainedOf(b) == [x \in Held(b) |-> b.entries[x].retained]

\* An entry that is not settled as performed holds everything, and no settlement
\* comes before the dispatch.
FairEntry(e) ==
  /\ e.settlement \in {None, "UNKNOWN"} => e.retained = Hold
  /\ e.settlement # None => e.dispatch

LEMMA Valid ==
  ASSUME NEW b
  PROVE  _validate_record(b) <=>
           /\ \A ch \in Held(b) : FairEntry(b.entries[ch])
           /\ b.revision = SumFunctionOnSet(EventsOf(b), Held(b))
           /\ Cardinality(Held(b)) <= Slots
           /\ SumFunctionOnSet(RetainedOf(b), Held(b)) <= Bytes
<1>1. SumFunction(EventsOf(b)) = SumFunctionOnSet(EventsOf(b), Held(b))
  BY DEF SumFunction, EventsOf
<1>2. SumFunction(RetainedOf(b)) = SumFunctionOnSet(RetainedOf(b), Held(b))
  BY DEF SumFunction, RetainedOf
<1> QED
  BY <1>1, <1>2 DEF _validate_record, usage, FairEntry, EventsOf, RetainedOf

LEMMA EventsType ==
  ASSUME NEW e \in Entry
  PROVE  Events(e) \in Nat /\ e.retained \in Nat /\ e.retained <= Hold
<1>1. Hold \in Nat
  BY CapacityAssumption
<1> QED
  BY <1>1 DEF Events, Entry

LEMMA HeldTerms ==
  ASSUME NEW b \in Body
  PROVE  /\ IsFiniteSet(Held(b))
         /\ \A x \in Held(b) : /\ b.entries[x] \in Entry
                               /\ EventsOf(b)[x] = Events(b.entries[x]) /\ EventsOf(b)[x] \in Nat
                               /\ RetainedOf(b)[x] = b.entries[x].retained /\ RetainedOf(b)[x] \in Nat
<1>1. IsFiniteSet(Held(b))
  <2>1. Held(b) \subseteq Child /\ IsFiniteSet(Child)
    BY CapacityAssumption DEF Held
  <2> QED
    BY <2>1, FS_Subset
<1>2. ASSUME NEW x \in Held(b) PROVE b.entries[x] \in Entry
  BY DEF Held, Body
<1> QED
  BY <1>1, <1>2, EventsType DEF EventsOf, RetainedOf

LEMMA RevisedIs ==
  ASSUME NEW b \in Body, NEW ch \in Child, NEW e \in Entry
  PROVE  LET b2 == Revised(b, ch, e) IN
         /\ b2 \in Body
         /\ b2.revision = b.revision + 1
         /\ b2.entries[ch] = e
         /\ \A x \in Child : x # ch => b2.entries[x] = b.entries[x]
         /\ Held(b2) = Held(b) \union {ch}
<1>1. e # None
  BY NoneIsNoEntry
<1> QED
  BY <1>1 DEF Revised, Body, Held

\* A new entry that is admissible keeps the account valid.
LEMMA AdmittedIsValid ==
  ASSUME NEW b \in Body, NEW ch \in Child, NEW e \in Entry, _validate_record(b),
         b.entries[ch] = None, FairEntry(e), Events(e) = 1, e.retained = Hold,
         Cardinality(Held(b)) + 1 <= Slots, SumFunctionOnSet(RetainedOf(b), Held(b)) + Hold <= Bytes
  PROVE  _validate_record(Revised(b, ch, e))
<1> DEFINE b2 == Revised(b, ch, e)
<1>1. /\ b2 \in Body /\ b2.revision = b.revision + 1 /\ b2.entries[ch] = e
      /\ \A x \in Child : x # ch => b2.entries[x] = b.entries[x]
      /\ Held(b2) = Held(b) \union {ch}
  BY RevisedIs
<1> HIDE DEF b2
<1>2. ch \notin Held(b) /\ Held(b) \subseteq Child
  BY DEF Held
<1>3. /\ IsFiniteSet(Held(b))
      /\ \A x \in Held(b) : EventsOf(b)[x] = Events(b.entries[x]) /\ EventsOf(b)[x] \in Nat
                            /\ RetainedOf(b)[x] = b.entries[x].retained /\ RetainedOf(b)[x] \in Nat
      /\ \A x \in Held(b2) : EventsOf(b2)[x] = Events(b2.entries[x]) /\ EventsOf(b2)[x] \in Nat
                            /\ RetainedOf(b2)[x] = b2.entries[x].retained /\ RetainedOf(b2)[x] \in Nat
  BY <1>1, HeldTerms
<1>4. \A x \in Held(b) : EventsOf(b2)[x] = EventsOf(b)[x] /\ RetainedOf(b2)[x] = RetainedOf(b)[x]
  BY <1>1, <1>2, <1>3
<1>5. EventsOf(b2)[ch] = 1 /\ RetainedOf(b2)[ch] = Hold
  BY <1>1, <1>3
<1>6. Hold \in Nat
  BY CapacityAssumption
<1>7. SumFunctionOnSet(EventsOf(b2), Held(b) \union {ch}) = SumFunctionOnSet(EventsOf(b), Held(b)) + EventsOf(b2)[ch]
  <2> DEFINE S == Held(b)
             f == EventsOf(b)
             h == EventsOf(b2)
  <2>1. IsFiniteSet(S) /\ ch \notin S /\ h[ch] \in Nat /\ \A x \in S : f[x] \in Nat /\ h[x] = f[x]
    BY <1>2, <1>3, <1>4, <1>5
  <2> HIDE DEF S, f, h
  <2>2. SumFunctionOnSet(h, S \union {ch}) = SumFunctionOnSet(f, S) + h[ch]
    BY <2>1, SumAdd
  <2> QED
    BY <2>2 DEF S, f, h
<1>8. SumFunctionOnSet(RetainedOf(b2), Held(b) \union {ch}) = SumFunctionOnSet(RetainedOf(b), Held(b)) + RetainedOf(b2)[ch]
  <2> DEFINE S == Held(b)
             f == RetainedOf(b)
             h == RetainedOf(b2)
  <2>1. IsFiniteSet(S) /\ ch \notin S /\ h[ch] \in Nat /\ \A x \in S : f[x] \in Nat /\ h[x] = f[x]
    BY <1>2, <1>3, <1>4, <1>5, <1>6
  <2> HIDE DEF S, f, h
  <2>2. SumFunctionOnSet(h, S \union {ch}) = SumFunctionOnSet(f, S) + h[ch]
    BY <2>1, SumAdd
  <2> QED
    BY <2>2 DEF S, f, h
<1>9. Cardinality(Held(b) \union {ch}) = Cardinality(Held(b)) + 1
  BY <1>2, <1>3, FS_AddElement
<1>10. b.revision = SumFunctionOnSet(EventsOf(b), Held(b)) /\ \A x \in Held(b) : FairEntry(b.entries[x])
  BY Valid
<1>11. \A x \in Held(b2) : FairEntry(b2.entries[x])
  BY <1>1, <1>2, <1>10
<1>12. _validate_record(b2)
  BY <1>1, <1>5, <1>7, <1>8, <1>9, <1>10, <1>11, Valid
<1> QED
  BY <1>12 DEF b2

\* So does an entry that counts one event more and holds no more than before.
LEMMA ReplacedIsValid ==
  ASSUME NEW b \in Body, NEW ch \in Child, NEW e \in Entry, _validate_record(b),
         b.entries[ch] # None, FairEntry(e), Events(e) = Events(b.entries[ch]) + 1,
         e.retained <= b.entries[ch].retained
  PROVE  _validate_record(Revised(b, ch, e))
<1> DEFINE b2 == Revised(b, ch, e)
           S == Held(b)
<1>1. /\ b2 \in Body /\ b2.revision = b.revision + 1 /\ b2.entries[ch] = e
      /\ \A x \in Child : x # ch => b2.entries[x] = b.entries[x]
      /\ Held(b2) = S \union {ch}
  BY RevisedIs
<1> HIDE DEF b2
<1>2. ch \in S /\ S \subseteq Child /\ Held(b2) = S
  BY <1>1 DEF Held
<1>3. /\ IsFiniteSet(S)
      /\ \A x \in S : EventsOf(b)[x] = Events(b.entries[x]) /\ EventsOf(b)[x] \in Nat
                      /\ RetainedOf(b)[x] = b.entries[x].retained /\ RetainedOf(b)[x] \in Nat
      /\ \A x \in S : EventsOf(b2)[x] = Events(b2.entries[x]) /\ EventsOf(b2)[x] \in Nat
                      /\ RetainedOf(b2)[x] = b2.entries[x].retained /\ RetainedOf(b2)[x] \in Nat
  BY <1>1, <1>2, HeldTerms
<1>4. \A x \in S \ {ch} : EventsOf(b2)[x] = EventsOf(b)[x] /\ RetainedOf(b2)[x] = RetainedOf(b)[x]
  BY <1>1, <1>2, <1>3
<1>5. /\ EventsOf(b2)[ch] = EventsOf(b)[ch] + 1 /\ RetainedOf(b2)[ch] <= RetainedOf(b)[ch]
      /\ EventsOf(b)[ch] \in Nat /\ RetainedOf(b)[ch] \in Nat /\ RetainedOf(b2)[ch] \in Nat
  BY <1>1, <1>2, <1>3
<1>6. /\ SumFunctionOnSet(EventsOf(b), S) \in Nat /\ SumFunctionOnSet(EventsOf(b2), S) \in Nat
      /\ SumFunctionOnSet(RetainedOf(b), S) \in Nat /\ SumFunctionOnSet(RetainedOf(b2), S) \in Nat
  <2> HIDE DEF S
  <2> QED
    BY <1>3, SumType
<1>7. /\ SumFunctionOnSet(EventsOf(b2), S) + EventsOf(b)[ch] = SumFunctionOnSet(EventsOf(b), S) + EventsOf(b2)[ch]
      /\ SumFunctionOnSet(RetainedOf(b2), S) + RetainedOf(b)[ch] = SumFunctionOnSet(RetainedOf(b), S) + RetainedOf(b2)[ch]
  <2> DEFINE f == EventsOf(b)
             h == EventsOf(b2)
             g == RetainedOf(b)
             r == RetainedOf(b2)
  <2>1. /\ \A x \in S : f[x] \in Nat /\ h[x] \in Nat /\ g[x] \in Nat /\ r[x] \in Nat
        /\ \A x \in S \ {ch} : h[x] = f[x] /\ r[x] = g[x]
        /\ IsFiniteSet(S) /\ ch \in S
    BY <1>2, <1>3, <1>4
  <2> HIDE DEF S, f, h, g, r
  <2>2. SumFunctionOnSet(h, S) + f[ch] = SumFunctionOnSet(f, S) + h[ch]
    BY <2>1, SumChange
  <2>3. SumFunctionOnSet(r, S) + g[ch] = SumFunctionOnSet(g, S) + r[ch]
    BY <2>1, SumChange
  <2> QED
    BY <2>2, <2>3 DEF f, h, g, r
<1>8. /\ b.revision = SumFunctionOnSet(EventsOf(b), S) /\ \A x \in S : FairEntry(b.entries[x])
      /\ Cardinality(S) <= Slots /\ SumFunctionOnSet(RetainedOf(b), S) <= Bytes
  BY Valid
<1>9. Bytes \in Nat
  BY CapacityAssumption
<1>10. b2.revision = SumFunctionOnSet(EventsOf(b2), S) /\ SumFunctionOnSet(RetainedOf(b2), S) <= Bytes
  BY <1>1, <1>5, <1>6, <1>7, <1>8, <1>9
<1>11. \A x \in S : FairEntry(b2.entries[x])
  BY <1>1, <1>2, <1>8
<1>12. _validate_record(b2)
  BY <1>2, <1>8, <1>10, <1>11, Valid
<1> QED
  BY <1>12 DEF b2

--------------------------------------------------------------------------------
(* The pool's operations                                                        *)

\* A change of a pool that is published: the new entry is valid, takes nothing away
\* and keeps the marker's and the ledger's account.
LEMMA PoolPublished ==
  ASSUME IInv, NEW c \in Caller, pc[c] # "idle", NEW p \in Pool, NEW e \in Entry,
         pool' = [pool EXCEPT ![p] = Revised(pool[p], job[c].child, e)],
         LET old == pool[p].entries[job[c].child] IN
         old # None => e.partition = old.partition /\ (old.dispatch => e.dispatch),
         _validate_record(Revised(pool[p], job[c].child, e)),
         NEW next \in Steps \union {"idle"}, Goto(c, next),
         next \in Past => pc[c] \in Past,
         UNCHANGED <<jammed, ledger, intact, calls, launches>>,
         marker' \in [Partition -> Pool \union {None, Torn}], MarkerGrows,
         marker'[e.partition] = p,
         e.retained < Hold =>
           /\ ledger[e.partition][job[c].child].stage = "settled"
           /\ ledger[e.partition][job[c].child].out = [performed |-> TRUE, captured |-> e.retained],
         CallerInv(c)'
  PROVE  IInv'
<1> DEFINE ch == job[c].child
           b2 == Revised(pool[p], ch, e)
<1>1. TypeOK /\ job[c] \in Job /\ ch \in Child
  BY JobTypes DEF IInv, CallerInv
<1>2. pool \in [Pool -> Body]
  BY <1>1 DEF TypeOK, Body
<1>3. /\ b2 \in Body /\ b2.entries[ch] = e
      /\ \A x \in Child : x # ch => b2.entries[x] = pool[p].entries[x]
  BY <1>1, <1>2, RevisedIs, SMTT(30)
<1> HIDE DEF ch
<1>4. _validate_record(b2) /\ pool' = [pool EXCEPT ![p] = b2]
  BY DEF ch
<1> HIDE DEF b2
<1>5. pool' \in [Pool -> Body] /\ pool'[p] = b2 /\ \A q \in Pool : q # p => pool'[q] = pool[q]
  BY <1>2, <1>3, <1>4
<1>6. /\ pc' \in [Caller -> Steps \union {"idle"}]
      /\ job' \in [Caller -> Job \union {None}]
      /\ out' \in [Caller -> Out \union {None}]
      /\ pc'[c] = next
      /\ next # "idle" => job'[c] = job[c]
      /\ \A d \in Caller : d # c => pc'[d] = pc[d] /\ job'[d] = job[d] /\ out'[d] = out[d]
  BY <1>1, GotoEffect
<1>7. TypeOK'
  BY <1>1, <1>5, <1>6 DEF TypeOK, Body
<1>8. e # None
  BY NoneIsNoEntry
<1>9. PoolGrows
  <2> SUFFICES ASSUME NEW q \in Pool, NEW x \in Child, pool[q].entries[x] # None
               PROVE  /\ pool'[q].entries[x] # None
                      /\ pool'[q].entries[x].partition = pool[q].entries[x].partition
                      /\ pool[q].entries[x].dispatch => pool'[q].entries[x].dispatch
    BY DEF PoolGrows
  <2>1. CASE q = p /\ x = ch
    BY <1>3, <1>5, <1>8, <2>1 DEF ch
  <2>2. CASE ~(q = p /\ x = ch)
    <3>1. CASE q = p
      BY <1>3, <1>5, <2>2, <3>1
    <3>2. CASE q # p
      BY <1>5, <3>2
    <3> QED
      BY <3>1, <3>2
  <2> QED
    BY <2>1, <2>2
<1>10. LedgerGrows
  BY DEF LedgerGrows
<1>11. ASSUME NEW d \in Caller PROVE CallerInv(d)'
  <2>1. CASE d = c
    BY <2>1
  <2>2. CASE d # c
    BY <1>1, <1>6, <1>9, <2>2, OthersKeep DEF IInv, Of
  <2> QED
    BY <2>1, <2>2
<1>12. OneCaller'
  <2>1. \A d \in Caller : pc'[d] \in Past => pc[d] \in Past /\ job'[d] = job[d]
    BY <1>6 DEF Past
  <2> QED
    BY <2>1, OneCallerKeeps DEF IInv
<1>13. \A k \in Job : LaunchInv(k)'
  BY <1>1, <1>9, <1>10, LaunchesKeep DEF IInv
<1>14. ASSUME NEW q \in Pool, NEW x \in Child PROVE EntryInv(q, x)'
  <2>1. CASE q = p /\ x = ch
    BY <1>3, <1>5, <2>1, ZenonT(120) DEF EntryInv, ch
  <2>2. CASE ~(q = p /\ x = ch)
    <3>1. pool'[q].entries[x] = pool[q].entries[x]
      BY <1>3, <1>5, <2>2
    <3> QED
      BY <1>1, <1>10, <3>1, EntryKeeps DEF IInv
  <2> QED
    BY <2>1, <2>2
<1>15. ASSUME NEW q \in Pool PROVE PoolInv(q)'
  <2>1. CASE q = p
    BY <1>4, <1>5, <2>1 DEF PoolInv
  <2>2. CASE q # p
    BY <1>5, <2>2 DEF PoolInv, IInv
  <2> QED
    BY <2>1, <2>2
<1> QED
  BY <1>7, <1>11, <1>12, <1>13, <1>14, <1>15 DEF IInv

\* The same with its interruption, and the caller gone.
LEMMA PoolStep ==
  ASSUME IInv, NEW c \in Caller, pc[c] # "idle", NEW p \in Pool, NEW e \in Entry,
         NEW next \in Steps \union {"idle"}, _change(c, p, e, next),
         LET old == pool[p].entries[job[c].child] IN
         old # None => e.partition = old.partition /\ (old.dispatch => e.dispatch),
         _validate_record(Revised(pool[p], job[c].child, e)),
         next \in Past => pc[c] \in Past,
         UNCHANGED <<marker, ledger, intact, calls, launches>>,
         marker[e.partition] = p,
         e.retained < Hold =>
           /\ ledger[e.partition][job[c].child].stage = "settled"
           /\ ledger[e.partition][job[c].child].out = [performed |-> TRUE, captured |-> e.retained],
         pool' = [pool EXCEPT ![p] = Revised(pool[p], job[c].child, e)] /\ Goto(c, next) => CallerInv(c)'
  PROVE  IInv'
<1>1. TypeOK
  BY DEF IInv
<1>2. marker' \in [Partition -> Pool \union {None, Torn}] /\ MarkerGrows /\ marker'[e.partition] = p
  BY <1>1 DEF TypeOK, MarkerGrows
<1>3. CASE pool' = [pool EXCEPT ![p] = Revised(pool[p], job[c].child, e)] /\ Goto(c, next) /\ UNCHANGED jammed
  BY <1>2, <1>3, PoolPublished
<1>4. CASE pool' = [pool EXCEPT ![p] = Revised(pool[p], job[c].child, e)] /\ Goto(c, "idle") /\ UNCHANGED jammed
  <2>1. CallerInv(c)'
    BY <1>1, <1>4, GotoEffect, IdleKeeps
  <2>2. "idle" \in Steps \union {"idle"} /\ "idle" \notin Past
    BY DEF Past
  <2> QED
    BY <1>2, <1>4, <2>1, <2>2, PoolPublished
<1>5. CASE jammed' = jammed \union {p} /\ Goto(c, "idle") /\ UNCHANGED pool
  <2>1. jammed' \subseteq Pool \union Partition
    BY <1>1, <1>5 DEF TypeOK
  <2> QED
    BY <1>5, <2>1, Leaves
<1> QED
  BY <1>3, <1>4, <1>5 DEF _change, Revised

\* The binding of the partition alone changes what no one assumes.
LEMMA MarkerKeeps ==
  ASSUME IInv, NEW c \in Caller, NEW l \in Partition, NEW m \in Pool \union {Torn},
         marker[l] = None \/ marker[l] = m, marker' = [marker EXCEPT ![l] = m],
         Goto(c, "idle"), jammed' \subseteq Pool \union Partition,
         UNCHANGED <<pool, ledger, intact, calls, launches>>
  PROVE  IInv'
<1>1. TypeOK
  BY DEF IInv
<1>2. /\ pc' \in [Caller -> Steps \union {"idle"}]
      /\ job' \in [Caller -> Job \union {None}]
      /\ out' \in [Caller -> Out \union {None}]
      /\ pc'[c] = "idle"
      /\ \A d \in Caller : d # c => pc'[d] = pc[d] /\ job'[d] = job[d] /\ out'[d] = out[d]
  BY <1>1, GotoEffect
<1>3. marker' \in [Partition -> Pool \union {None, Torn}] /\ MarkerGrows
  BY <1>1, NoneIsNoEntry DEF TypeOK, MarkerGrows
<1>4. TypeOK'
  BY <1>1, <1>2, <1>3 DEF TypeOK
<1>5. PoolGrows /\ LedgerGrows
  BY DEF PoolGrows, LedgerGrows
<1>6. ASSUME NEW d \in Caller PROVE CallerInv(d)'
  <2>1. CASE d = c
    BY <1>2, <2>1, IdleKeeps
  <2>2. CASE d # c
    BY <1>1, <1>2, <1>5, <2>2, OthersKeep DEF IInv, Of
  <2> QED
    BY <2>1, <2>2
<1>7. OneCaller'
  <2>1. \A d \in Caller : pc'[d] \in Past => pc[d] \in Past /\ job'[d] = job[d]
    BY <1>2 DEF Past
  <2> QED
    BY <2>1, OneCallerKeeps DEF IInv
<1>8. \A k \in Job : LaunchInv(k)'
  BY <1>1, <1>5, LaunchesKeep DEF IInv
<1>9. \A p \in Pool, ch \in Child : EntryInv(p, ch)'
  BY <1>1, <1>3, <1>5, EntryKeeps DEF IInv
<1>10. \A p \in Pool : PoolInv(p)'
  BY DEF IInv, PoolInv
<1> QED
  BY <1>4, <1>6, <1>7, <1>8, <1>9, <1>10 DEF IInv

\* The look for the marker moves the caller and no journal.
LEMMA PoolLookKeeps ==
  ASSUME IInv, NEW c \in Caller, pool_look(c) PROVE IInv'
<1>1. /\ pc[c] = "reserve_common" /\ Goto(c, "mark")
      /\ UNCHANGED <<marker, pool, ledger, jammed, intact, calls, launches>>
  BY DEF pool_look, journals
<1>2. TypeOK /\ CallerInv(c) /\ "mark" \in Steps \union {"idle"} /\ "mark" # "idle"
  BY DEF IInv, Steps
<1>3. /\ pc' \in [Caller -> Steps \union {"idle"}]
      /\ job' \in [Caller -> Job \union {None}]
      /\ out' \in [Caller -> Out \union {None}]
      /\ pc'[c] = "mark" /\ job'[c] = job[c]
      /\ \A d \in Caller : d # c => pc'[d] = pc[d] /\ job'[d] = job[d] /\ out'[d] = out[d]
  BY <1>1, <1>2, GotoEffect
<1>4. TypeOK'
  BY <1>1, <1>2, <1>3 DEF TypeOK
<1>5. CallerInv(c)'
  BY <1>1, <1>2, <1>3 DEF CallerInv, StageInv, HoldInv, Past
<1>6. pc'[c] \notin Past
  BY <1>3 DEF Past
<1> QED
  BY <1>1, <1>3, <1>4, <1>5, <1>6, Moves

LEMMA PoolReserveKeeps ==
  ASSUME IInv, NEW c \in Caller, pool_reserve(c) PROVE IInv'
<1> DEFINE l == job[c].partition
           p == job[c].owner
           ch == job[c].child
           e == [partition |-> l, dispatch |-> FALSE, settlement |-> None, retained |-> Hold]
<1>1. pc[c] \in {"reserve_common", "mark"} /\ TypeOK
  BY DEF pool_reserve, IInv
<1>2. job[c] \in Job /\ p \in Pool /\ l \in Partition /\ ch \in Child
  BY <1>1, JobTypes DEF IInv, CallerInv
<1>3. UNCHANGED <<ledger, intact, calls, launches>> /\ (marker[l] = None \/ marker[l] = p)
  BY DEF pool_reserve, Owns
<1>4. e \in Entry /\ e.partition = l /\ e.retained = Hold /\ FairEntry(e) /\ Events(e) = 1
  <2>1. Hold \in Nat /\ None \notin {"KNOWN", "UNKNOWN"}
    BY CapacityAssumption
  <2> QED
    BY <1>2, <2>1 DEF Entry, FairEntry, Events
<1>5. marker' = [marker EXCEPT ![l] = p] =>
        /\ marker' \in [Partition -> Pool \union {None, Torn}] /\ MarkerGrows /\ marker'[l] = p
  BY <1>1, <1>2, <1>3, NoneIsNoEntry DEF TypeOK, MarkerGrows
<1>6. CASE marker' = [marker EXCEPT ![l] = p] /\ Goto(c, "idle") /\ UNCHANGED pool
           /\ jammed' \subseteq Pool \union Partition
  <2> HIDE DEF l, p
  <2> QED
    BY <1>2, <1>3, <1>6, MarkerKeeps
<1>7. CASE marker[l] = None /\ marker' = [marker EXCEPT ![l] = Torn] /\ Goto(c, "idle") /\ UNCHANGED <<pool, jammed>>
  <2>1. jammed' \subseteq Pool \union Partition
    BY <1>1, <1>7 DEF TypeOK
  <2> HIDE DEF l
  <2> QED
    BY <1>2, <1>3, <1>7, <2>1, MarkerKeeps
<1>8. CASE /\ marker' = [marker EXCEPT ![l] = p]
           /\ Admissible(p, c)
           /\ pool' = [pool EXCEPT ![p] = Revised(pool[p], ch, e)]
           /\ UNCHANGED jammed
           /\ Goto(c, "reserve") \/ Goto(c, "idle")
  <2>1. pool[p] \in Body /\ pool[p].entries[ch] = None
    BY <1>1, <1>2, <1>8 DEF TypeOK, Body, Admissible
  <2>2. _validate_record(Revised(pool[p], ch, e))
    <3>1. _validate_record(pool[p])
      BY <1>2 DEF IInv, PoolInv
    <3>2. Cardinality(Held(pool[p])) + 1 <= Slots
      BY <1>8 DEF Admissible, usage
    <3>3. SumFunctionOnSet(RetainedOf(pool[p]), Held(pool[p])) + Hold <= Bytes
      <4>1. usage(pool[p]).retained_output_bytes = SumFunctionOnSet(RetainedOf(pool[p]), Held(pool[p]))
        BY DEF usage, RetainedOf, SumFunction
      <4> QED
        BY <1>8, <4>1 DEF Admissible
    <3> HIDE DEF e, ch
    <3> QED
      BY <1>2, <1>4, <2>1, <3>1, <3>2, <3>3, AdmittedIsValid
  <2>3. CASE Goto(c, "reserve")
    <3>1. "reserve" \in Steps \union {"idle"} /\ "reserve" \notin Past
      BY DEF Steps, Past
    <3>2. pc'[c] = "reserve" /\ job'[c] = job[c] /\ out'[c] = out[c]
      BY <1>1, <2>3, <3>1, GotoEffect
    <3>3. pool'[p].entries[ch] = e
      <4>1. Revised(pool[p], ch, e).entries[ch] = e
        <5>1. pool[p] \in Body /\ ch \in Child /\ e \in Entry
          BY <1>2, <1>4, <2>1
        <5> HIDE DEF p, ch, e
        <5> QED
          BY <5>1, RevisedIs
      <4>2. pool'[p] = Revised(pool[p], ch, e)
        BY <1>1, <1>2, <1>8 DEF TypeOK
      <4> QED
        BY <4>1, <4>2
    <3>4. e # None
      BY <1>4, NoneIsNoEntry
    <3>5. CallerInv(c)'
      <4>1. StageInv(c)'
        BY <3>2 DEF StageInv
      <4>2. HoldInv(c)'
        BY <1>4, <3>2, <3>3, <3>4 DEF HoldInv
      <4> QED
        BY <1>2, <3>2, <4>1, <4>2 DEF CallerInv
    <3>6. ~(e.retained < Hold)
      BY <1>4, CapacityAssumption
    <3>7. pc[c] # "idle"
      BY <1>1
    <3> HIDE DEF e, p, l
    <3> QED
      BY <1>2, <1>3, <1>4, <1>5, <1>8, <2>1, <2>2, <2>3, <3>1, <3>5, <3>6, <3>7, PoolPublished DEF ch
  <2>4. CASE Goto(c, "idle")
    <3>1. CallerInv(c)'
      BY <1>1, <2>4, GotoEffect, IdleKeeps
    <3>2. "idle" \in Steps \union {"idle"} /\ "idle" \notin Past /\ pc[c] # "idle"
      BY <1>1 DEF Past
    <3>3. ~(e.retained < Hold)
      BY <1>4, CapacityAssumption
    <3> HIDE DEF e, p, l
    <3> QED
      BY <1>2, <1>3, <1>4, <1>5, <1>8, <2>1, <2>2, <2>4, <3>1, <3>2, <3>3, PoolPublished DEF ch
  <2> QED
    BY <1>8, <2>3, <2>4
<1>9. (jammed' = jammed \union {p} \/ UNCHANGED jammed) => jammed' \subseteq Pool \union Partition
  BY <1>1, <1>2 DEF TypeOK
<1>10. \/ /\ marker' = [marker EXCEPT ![l] = p]
          /\ \/ Admissible(p, c) /\ _change(c, p, e, "reserve")
             \/ Goto(c, "idle") /\ UNCHANGED <<pool, jammed>>
       \/ marker[l] = None /\ marker' = [marker EXCEPT ![l] = Torn] /\ Goto(c, "idle") /\ UNCHANGED <<pool, jammed>>
  BY DEF pool_reserve, Owns
<1>11. _change(c, p, e, "reserve") =>
         \/ /\ pool' = [pool EXCEPT ![p] = Revised(pool[p], ch, e)]
            /\ UNCHANGED jammed
            /\ Goto(c, "reserve") \/ Goto(c, "idle")
         \/ jammed' = jammed \union {p} /\ Goto(c, "idle") /\ UNCHANGED pool
  BY DEF _change, Revised
<1> QED
  <2> HIDE DEF l, p, ch, e
  <2> QED
    BY <1>6, <1>7, <1>8, <1>9, <1>10, <1>11

LEMMA BindKeeps ==
  ASSUME IInv, NEW c \in Caller, bind_dispatch(c) PROVE IInv'
<1> DEFINE p == job[c].owner
           ch == job[c].child
           old == pool[p].entries[ch]
           e == [old EXCEPT !.dispatch = TRUE]
<1>1. pc[c] = "bind" /\ TypeOK /\ CallerInv(c)
  BY DEF bind_dispatch, IInv
<1>2. job[c] \in Job /\ p \in Pool /\ ch \in Child
  BY <1>1, JobTypes DEF CallerInv
<1>3. /\ UNCHANGED <<marker, ledger, intact, calls, launches>>
      /\ ~old.dispatch /\ _change(c, p, e, "record")
  BY DEF bind_dispatch
<1>4. old # None /\ old.partition = job[c].partition
  BY <1>1, <1>2 DEF CallerInv, HoldInv, Past
<1>5. old \in Entry
  BY <1>1, <1>2, <1>4, EntryTypes
<1>6. _validate_record(pool[p]) /\ pool[p] \in Body
  BY <1>1, <1>2 DEF IInv, PoolInv, TypeOK, Body
<1>7. FairEntry(old)
  BY <1>2, <1>4, <1>6, Valid DEF Held
<1> HIDE DEF old
<1>8. /\ e \in Entry /\ e.partition = old.partition /\ e.dispatch /\ e.settlement = old.settlement
      /\ e.retained = old.retained
  BY <1>5 DEF Entry
<1> HIDE DEF e
<1>9. old.settlement = None /\ old.retained = Hold
  BY <1>3, <1>7 DEF FairEntry
<1>10. FairEntry(e) /\ Events(e) = Events(old) + 1
  BY <1>3, <1>8, <1>9 DEF FairEntry, Events
<1>11. Hold \in Nat
  BY CapacityAssumption
<1>12. _validate_record(Revised(pool[p], ch, e))
  <2>1. e.retained <= old.retained
    BY <1>8, <1>9, <1>11
  <2> HIDE DEF ch, p
  <2> QED
    BY <1>2, <1>4, <1>6, <1>8, <1>10, <2>1, ReplacedIsValid DEF old
<1>13. "record" \in Steps \union {"idle"} /\ "record" # "idle" /\ pc[c] \in Past /\ pc[c] # "idle"
  BY <1>1 DEF Steps, Past
<1>14. ASSUME pool' = [pool EXCEPT ![p] = Revised(pool[p], ch, e)], Goto(c, "record")
       PROVE  CallerInv(c)'
  <2>1. pc'[c] = "record" /\ job'[c] = job[c] /\ out'[c] = out[c]
    BY <1>1, <1>13, <1>14, GotoEffect
  <2>2. pool'[p].entries[ch] = e
    <3>1. Revised(pool[p], ch, e).entries[ch] = e
      BY <1>2, <1>6, <1>8, RevisedIs
    <3>2. pool'[p] = Revised(pool[p], ch, e)
      BY <1>1, <1>2, <1>14 DEF TypeOK
    <3> QED
      BY <3>1, <3>2
  <2>3. e # None
    BY <1>8, NoneIsNoEntry
  <2>4. StageInv(c)'
    BY <1>1, <1>3, <2>1 DEF StageInv, CallerInv, Of
  <2>5. HoldInv(c)'
    BY <1>4, <1>8, <2>1, <2>2, <2>3 DEF HoldInv
  <2> QED
    BY <1>1, <1>2, <1>3, <2>1, <2>4, <2>5 DEF CallerInv, Same
<1>15. marker[e.partition] = p /\ ~(e.retained < Hold)
  <2>1. EntryInv(p, ch)
    BY <1>2 DEF IInv
  <2>2. marker[old.partition] = p
    BY <1>4, <2>1 DEF EntryInv, old
  <2>3. marker[e.partition] = p
    BY <1>8, <2>2
  <2>4. e.retained = Hold
    BY <1>8, <1>9
  <2> HIDE DEF p
  <2> QED
    BY <1>11, <2>3, <2>4
<1> QED
  <2>1. old # None => e.partition = old.partition /\ (old.dispatch => e.dispatch)
    BY <1>8
  <2> HIDE DEF p
  <2> QED
    BY <1>2, <1>3, <1>8, <1>12, <1>13, <1>14, <1>15, <2>1, PoolStep DEF old, ch

LEMMA PoolSettleKeeps ==
  ASSUME IInv, NEW c \in Caller, pool_settle(c) PROVE IInv'
<1> DEFINE p == job[c].owner
           ch == job[c].child
           old == pool[p].entries[ch]
           e == Settled(old, out[c])
<1>1. pc[c] = "settle_common" /\ TypeOK /\ CallerInv(c)
  BY DEF pool_settle, IInv
<1>2. job[c] \in Job /\ p \in Pool /\ ch \in Child
  BY <1>1, JobTypes DEF CallerInv
<1>3. /\ UNCHANGED <<marker, ledger, intact, calls, launches>>
      /\ old.dispatch /\ old.settlement = None /\ _change(c, p, e, "idle")
  BY DEF pool_settle
<1>4. old # None /\ old.partition = job[c].partition
  BY <1>1, <1>2 DEF CallerInv, HoldInv, Past
<1>5. old \in Entry /\ old.retained \in 0..Hold
  BY <1>1, <1>2, <1>4, EntryTypes
<1>6. _validate_record(pool[p]) /\ pool[p] \in Body
  BY <1>1, <1>2 DEF IInv, PoolInv, TypeOK, Body
<1>7. FairEntry(old)
  BY <1>2, <1>4, <1>6, Valid DEF Held
<1> HIDE DEF old
<1>8. /\ out[c] \in Out /\ out[c].performed \in BOOLEAN /\ out[c].captured \in 0..Hold
      /\ Of(job[c]).stage = "settled" /\ Of(job[c]).out = out[c]
  BY <1>1 DEF CallerInv, StageInv, Out
<1>9. Hold \in Nat /\ None \notin {"KNOWN", "UNKNOWN"}
  BY CapacityAssumption
<1>10. /\ e \in Entry /\ e.partition = old.partition /\ e.dispatch = old.dispatch
       /\ e.settlement = IF out[c].performed THEN "KNOWN" ELSE "UNKNOWN"
       /\ e.retained = IF out[c].performed THEN out[c].captured ELSE Hold
  <2> DEFINE s == IF out[c].performed THEN "KNOWN" ELSE "UNKNOWN"
             r == IF out[c].performed THEN out[c].captured ELSE Hold
             mid == [old EXCEPT !.settlement = s]
  <2>1. s \in {None, "KNOWN", "UNKNOWN"} /\ r \in 0..Hold
    BY <1>8, <1>9
  <2>2. e = [mid EXCEPT !.retained = r]
    BY <1>5 DEF Settled, Entry
  <2> HIDE DEF s, r
  <2>3. mid \in Entry /\ mid.settlement = s /\ mid.partition = old.partition /\ mid.dispatch = old.dispatch
    BY <1>5, <2>1 DEF Entry
  <2> HIDE DEF mid, e
  <2>4. e \in Entry /\ e.partition = mid.partition /\ e.dispatch = mid.dispatch /\ e.settlement = mid.settlement
        /\ e.retained = r
    BY <2>1, <2>2, <2>3 DEF Entry
  <2> QED
    BY <2>3, <2>4 DEF s, r
<1> HIDE DEF e
<1>11. FairEntry(e) /\ Events(e) = Events(old) + 1
  BY <1>3, <1>9, <1>10 DEF FairEntry, Events
<1>12. old.retained = Hold /\ e.retained <= old.retained
  BY <1>3, <1>7, <1>8, <1>9, <1>10 DEF FairEntry
<1>13. _validate_record(Revised(pool[p], ch, e))
  <2> HIDE DEF ch, p
  <2> QED
    BY <1>2, <1>4, <1>6, <1>10, <1>11, <1>12, ReplacedIsValid DEF old
<1>14. ASSUME Goto(c, "idle") PROVE CallerInv(c)'
  BY <1>1, <1>14, GotoEffect, IdleKeeps
<1>15. marker[e.partition] = p
  <2>1. EntryInv(p, ch)
    BY <1>2 DEF IInv
  <2> QED
    BY <1>4, <1>10, <2>1 DEF EntryInv, old
<1>16. e.retained < Hold =>
         /\ ledger[e.partition][ch].stage = "settled"
         /\ ledger[e.partition][ch].out = [performed |-> TRUE, captured |-> e.retained]
  <2> SUFFICES ASSUME e.retained < Hold PROVE out[c] = [performed |-> TRUE, captured |-> e.retained]
    BY <1>4, <1>8, <1>10 DEF Of
  <2>1. out[c].performed = TRUE /\ out[c].captured = e.retained
    BY <1>8, <1>9, <1>10
  <2> QED
    BY <1>8, <2>1 DEF Out
<1> QED
  <2>1. old # None => e.partition = old.partition /\ (old.dispatch => e.dispatch)
    BY <1>10
  <2>2. "idle" \in Steps \union {"idle"} /\ "idle" \notin Past /\ pc[c] # "idle"
    BY <1>1 DEF Past
  <2> HIDE DEF p
  <2> QED
    BY <1>2, <1>3, <1>10, <1>13, <1>14, <1>15, <1>16, <2>1, <2>2, PoolStep DEF old, ch

--------------------------------------------------------------------------------
(* The other steps                                                              *)

LEMMA CallKeeps ==
  ASSUME IInv, NEW c \in Caller, Call(c) PROVE IInv'
<1>1. PICK j \in Job :
        /\ pc[c] = "idle" /\ calls < MaxCalls /\ calls' = calls + 1
        /\ pc' = [pc EXCEPT ![c] = IF j.owner = Legacy THEN "reserve" ELSE "reserve_common"]
        /\ job' = [job EXCEPT ![c] = j]
        /\ UNCHANGED <<journals, intact, out, launches>>
  BY DEF Call
<1>2. TypeOK /\ UNCHANGED <<marker, pool, ledger, jammed, intact, out, launches>>
  BY <1>1 DEF IInv, journals
<1>3. /\ pc' \in [Caller -> Steps \union {"idle"}] /\ job' \in [Caller -> Job \union {None}]
      /\ pc'[c] = (IF j.owner = Legacy THEN "reserve" ELSE "reserve_common") /\ job'[c] = j
      /\ \A d \in Caller : d # c => pc'[d] = pc[d] /\ job'[d] = job[d] /\ out'[d] = out[d]
  BY <1>1, <1>2 DEF TypeOK, Steps
<1>4. calls' \in 0..MaxCalls
  BY <1>1, <1>2, CapacityAssumption DEF TypeOK
<1>5. TypeOK'
  BY <1>2, <1>3, <1>4 DEF TypeOK
<1>6. j.owner \in Pool \union {Legacy} /\ Legacy \notin Pool
  BY JobTypes, NoneIsNoEntry
<1>7. CallerInv(c)'
  <2>1. StageInv(c)'
    BY <1>3 DEF StageInv
  <2>2. HoldInv(c)'
    BY <1>3, <1>6 DEF HoldInv, Past
  <2> QED
    BY <1>3, <1>6, <2>1, <2>2 DEF CallerInv
<1>8. pc'[c] \notin Past
  BY <1>3 DEF Past
<1> QED
  BY <1>2, <1>3, <1>5, <1>7, <1>8, Moves

LEMMA ObserveKeeps ==
  ASSUME IInv, NEW c \in Caller, Observe(c) PROVE IInv'
<1>1. PICK o \in Out :
        /\ pc[c] = "observe" /\ pc' = [pc EXCEPT ![c] = "complete"] /\ out' = [out EXCEPT ![c] = o]
        /\ UNCHANGED <<journals, intact, job, calls, launches>>
  BY DEF Observe
<1>2. TypeOK /\ CallerInv(c) /\ UNCHANGED <<marker, pool, ledger, jammed, intact, job, calls, launches>>
  BY <1>1 DEF IInv, journals
<1>3. /\ pc' \in [Caller -> Steps \union {"idle"}] /\ out' \in [Caller -> Out \union {None}]
      /\ pc'[c] = "complete" /\ out'[c] = o /\ job'[c] = job[c]
      /\ \A d \in Caller : d # c => pc'[d] = pc[d] /\ job'[d] = job[d] /\ out'[d] = out[d]
  BY <1>1, <1>2 DEF TypeOK, Steps
<1>4. TypeOK'
  BY <1>2, <1>3 DEF TypeOK
<1>5. CallerInv(c)'
  <2>1. StageInv(c)'
    BY <1>1, <1>2, <1>3 DEF StageInv, CallerInv, Of
  <2>2. HoldInv(c)'
    BY <1>1, <1>2, <1>3 DEF HoldInv, CallerInv, Past
  <2> QED
    BY <1>1, <1>2, <1>3, <2>1, <2>2 DEF CallerInv
<1>6. pc[c] \in Past
  BY <1>1 DEF Past
<1> QED
  BY <1>2, <1>3, <1>4, <1>5, <1>6, Moves

LEMMA AcquireKeeps ==
  ASSUME IInv, NEW c \in Caller, Acquire(c) PROVE IInv'
<1> DEFINE next == IF job[c].owner = Legacy THEN "idle" ELSE "settle_common"
<1>1. pc[c] = "acquire" /\ Goto(c, next) /\ UNCHANGED <<journals, intact, calls, launches>>
  BY DEF Acquire
<1>2. TypeOK /\ CallerInv(c) /\ UNCHANGED <<marker, pool, ledger, jammed, intact, calls, launches>>
  BY <1>1 DEF IInv, journals
<1>3. CASE job[c].owner = Legacy
  <2>1. Goto(c, "idle") /\ jammed' \subseteq Pool \union Partition
    BY <1>1, <1>2, <1>3 DEF TypeOK
  <2> QED
    BY <1>2, <2>1, Leaves
<1>4. CASE job[c].owner # Legacy
  <2>1. Goto(c, "settle_common") /\ "settle_common" \in Steps \union {"idle"} /\ "settle_common" # "idle"
    BY <1>1, <1>4 DEF Steps
  <2>2. /\ pc' \in [Caller -> Steps \union {"idle"}]
        /\ job' \in [Caller -> Job \union {None}]
        /\ out' \in [Caller -> Out \union {None}]
        /\ pc'[c] = "settle_common" /\ job'[c] = job[c] /\ out'[c] = out[c]
        /\ \A d \in Caller : d # c => pc'[d] = pc[d] /\ job'[d] = job[d] /\ out'[d] = out[d]
    BY <1>2, <2>1, GotoEffect
  <2>3. TypeOK'
    BY <1>2, <2>2 DEF TypeOK
  <2>4. job[c] \in Job /\ job[c].owner \in Pool
    BY <1>1, <1>2, <1>4, JobTypes DEF CallerInv
  <2>5. CallerInv(c)'
    <3>1. StageInv(c)'
      BY <1>1, <1>2, <2>2 DEF StageInv, CallerInv, Of
    <3>2. HoldInv(c)'
      BY <1>1, <1>2, <2>2 DEF HoldInv, CallerInv, Past
    <3> QED
      BY <2>2, <2>4, <3>1, <3>2 DEF CallerInv
  <2>6. pc[c] \in Past
    BY <1>1 DEF Past
  <2> QED
    BY <1>2, <2>2, <2>3, <2>5, <2>6, Moves
<1> QED
  BY <1>3, <1>4

LEMMA StopKeeps ==
  ASSUME IInv, NEW c \in Caller, Stop(c) PROVE IInv'
<1>1. Goto(c, "idle") /\ UNCHANGED <<marker, pool, ledger, jammed, intact, calls, launches>>
  BY DEF Stop, journals
<1>2. jammed' \subseteq Pool \union Partition
  BY <1>1 DEF IInv, TypeOK
<1> QED
  BY <1>1, <1>2, Leaves

\* The launch: no process of this child was started from the partition, and the pool's
\* entry is this partition's.
LEMMA LaunchKeeps ==
  ASSUME IInv, NEW c \in Caller, Launch(c) PROVE IInv'
<1> DEFINE j == job[c]
<1>1. pc[c] = "launch" /\ Goto(c, "observe") /\ launches' = [launches EXCEPT ![j] = @ + 1]
  BY DEF Launch
<1>2. TypeOK /\ CallerInv(c) /\ UNCHANGED <<marker, pool, ledger, jammed, intact, calls>>
  BY DEF IInv, Launch, journals
<1>3. j \in Job /\ j.partition \in Partition /\ j.child \in Child /\ j.owner \in Pool \union {Legacy}
  BY <1>1, <1>2, JobTypes DEF CallerInv
<1>4. \A k \in Job : Same(k, j) => launches[k] = 0
  BY <1>1, <1>2 DEF CallerInv
<1>5. launches[j] = 0
  BY <1>3, <1>4 DEF Same
<1>6. /\ launches' \in [Job -> Nat] /\ launches'[j] = 1
      /\ \A k \in Job : k # j => launches'[k] = launches[k]
  BY <1>1, <1>2, <1>3, <1>5 DEF TypeOK
<1>7. /\ pc' \in [Caller -> Steps \union {"idle"}]
      /\ job' \in [Caller -> Job \union {None}]
      /\ out' \in [Caller -> Out \union {None}]
      /\ pc'[c] = "observe" /\ job'[c] = job[c] /\ out'[c] = out[c]
      /\ \A d \in Caller : d # c => pc'[d] = pc[d] /\ job'[d] = job[d] /\ out'[d] = out[d]
  <2>1. "observe" \in Steps \union {"idle"} /\ "observe" # "idle"
    BY DEF Steps
  <2> QED
    BY <1>1, <1>2, <2>1, GotoEffect
<1>8. TypeOK'
  BY <1>2, <1>6, <1>7 DEF TypeOK
<1>9. PoolGrows /\ LedgerGrows /\ MarkerGrows
  BY <1>2 DEF PoolGrows, LedgerGrows, MarkerGrows
<1>10. ASSUME NEW d \in Caller PROVE CallerInv(d)'
  <2>1. CASE d = c
    <3>1. StageInv(c)'
      BY <1>1, <1>2, <1>7 DEF StageInv, CallerInv, Of
    <3>2. HoldInv(c)'
      BY <1>1, <1>2, <1>7 DEF HoldInv, CallerInv, Past
    <3> QED
      BY <1>3, <1>7, <2>1, <3>1, <3>2 DEF CallerInv
  <2>2. CASE d # c
    <3>1. ASSUME pc[d] \in {"bind", "record", "launch"}, NEW k \in Job, Same(k, job[d])
          PROVE  launches'[k] = launches[k]
      <4>1. ~Same(job[d], j)
        BY <1>1, <2>2, <3>1 DEF IInv, OneCaller, Past, Same
      <4>2. k # j
        BY <3>1, <4>1 DEF Same
      <4> QED
        BY <1>6, <4>2
    <3>2. Of(job[d])' = Of(job[d])
      BY <1>2, <1>7, <2>2 DEF Of
    <3> HIDE DEF j
    <3> QED
      BY <1>2, <1>7, <1>9, <2>2, <3>1, <3>2, OthersKeep DEF IInv
  <2> QED
    BY <2>1, <2>2
<1>11. OneCaller'
  <2>1. \A d \in Caller : pc'[d] \in Past => pc[d] \in Past /\ job'[d] = job[d]
    BY <1>1, <1>7 DEF Past
  <2> QED
    BY <2>1, OneCallerKeeps DEF IInv
<1>12. ASSUME NEW k \in Job PROVE LaunchInv(k)'
  <2> HIDE DEF j
  <2>1. CASE k = j
    <3>1. Of(k)'.stage = "dispatched"
      BY <1>1, <1>2, <2>1 DEF CallerInv, StageInv, Of, j
    <3>2. k.owner \in Pool =>
            LET e == pool'[k.owner].entries[k.child] IN
            e # None /\ e.partition = k.partition /\ e.dispatch
      BY <1>1, <1>2, <2>1 DEF CallerInv, HoldInv, Past, j
    <3>3. ASSUME NEW i \in Job, launches'[i] > 0, Same(i, k) PROVE i = k
      BY <1>4, <1>6, <2>1, <3>3 DEF Same
    <3> QED
      BY <1>6, <2>1, <3>1, <3>2, <3>3 DEF LaunchInv, Started, Same
  <2>2. CASE k # j
    <3> SUFFICES ASSUME launches[k] > 0 PROVE LaunchInv(k)'
      BY <1>6, <2>2 DEF LaunchInv
    <3>1. LaunchInv(k)
      BY DEF IInv
    <3>2. ~Same(k, j)
      BY <1>4
    <3>3. ASSUME NEW i \in Job, launches'[i] > 0, Same(i, k) PROVE i = k
      <4>1. i # j
        BY <3>2, <3>3 DEF Same
      <4> QED
        BY <1>6, <3>1, <3>3, <4>1 DEF LaunchInv
    <3>4. launches'[k] = launches[k]
      BY <1>6, <2>2
    <3> QED
      BY <1>2, <3>1, <3>3, <3>4 DEF LaunchInv, Of, Same
  <2> QED
    BY <2>1, <2>2
<1>13. \A p \in Pool, ch \in Child : EntryInv(p, ch)'
  BY <1>2, <1>9, EntryKeeps DEF IInv
<1>14. \A p \in Pool : PoolInv(p)'
  BY <1>2 DEF IInv, PoolInv
<1> QED
  BY <1>8, <1>10, <1>11, <1>12, <1>13, <1>14 DEF IInv

\* What no caller does: the artifacts replaced, and stuttering.
LEMMA RestKeeps ==
  ASSUME IInv, UNCHANGED <<journals, pc, job, out, calls, launches>>, intact' \in BOOLEAN PROVE IInv'
<1>1. UNCHANGED <<marker, pool, ledger, jammed, pc, job, out, calls, launches>> /\ TypeOK
  BY DEF journals, IInv
<1>2. TypeOK'
  BY <1>1 DEF TypeOK
<1>3. PoolGrows /\ LedgerGrows /\ MarkerGrows
  BY <1>1 DEF PoolGrows, LedgerGrows, MarkerGrows
<1>4. ASSUME NEW d \in Caller PROVE CallerInv(d)'
  BY <1>1, <1>3, OthersKeep DEF IInv, Of
<1>5. OneCaller'
  BY <1>1, OneCallerKeeps DEF IInv
<1>6. \A k \in Job : LaunchInv(k)'
  BY <1>1, <1>3, LaunchesKeep DEF IInv
<1>7. \A p \in Pool, ch \in Child : EntryInv(p, ch)'
  BY <1>1, <1>3, EntryKeeps DEF IInv
<1>8. \A p \in Pool : PoolInv(p)'
  BY <1>1 DEF IInv, PoolInv
<1> QED
  BY <1>2, <1>4, <1>5, <1>6, <1>7, <1>8 DEF IInv

LEMMA InitKeeps == Init => IInv
<1> SUFFICES ASSUME Init PROVE IInv
  OBVIOUS
<1>1. /\ Slots \in Nat /\ Bytes \in Nat /\ MaxCalls \in Nat
      /\ Hold \in Nat
  BY CapacityAssumption
<1>2. TypeOK
  <2>1. pool \in [Pool -> [entries : [Child -> Entry \union {None}], revision : Nat]]
    BY DEF Init
  <2>2. ledger \in [Partition -> [Child -> [stage : Stage, out : Out \union {None}]]]
    BY DEF Init, Stage
  <2> QED
    BY <1>1, <2>1, <2>2 DEF Init, TypeOK
<1>3. ASSUME NEW p \in Pool PROVE PoolInv(p)
  <2>1. pool[p].revision = 0 /\ Held(pool[p]) = {}
    BY DEF Init, Held
  <2>2. SumFunctionOnSet(EventsOf(pool[p]), Held(pool[p])) = 0 /\ SumFunctionOnSet(RetainedOf(pool[p]), Held(pool[p])) = 0
    BY <2>1, SumEmpty
  <2>3. Cardinality(Held(pool[p])) = 0
    BY <2>1, FS_EmptySet
  <2> QED
    BY <1>1, <2>1, <2>2, <2>3, Valid DEF PoolInv
<1>4. \A c \in Caller : CallerInv(c)
  BY DEF Init, CallerInv
<1>5. OneCaller
  BY DEF Init, OneCaller, Past
<1>6. \A k \in Job : LaunchInv(k)
  BY DEF Init, LaunchInv
<1>7. \A p \in Pool, ch \in Child : EntryInv(p, ch)
  BY DEF Init, EntryInv
<1> QED
  BY <1>2, <1>3, <1>4, <1>5, <1>6, <1>7 DEF IInv

--------------------------------------------------------------------------------
(* Theorems                                                                     *)

\* Every reachable state satisfies the inductive invariant.
THEOREM CapacityInvariant == Spec => []IInv
<1>1. Init => IInv
  BY InitKeeps
<1>2. IInv /\ [Next]_vars => IInv'
  <2> SUFFICES ASSUME IInv, [Next]_vars PROVE IInv'
    OBVIOUS
  <2>1. CASE UNCHANGED vars
    <3>1. UNCHANGED <<journals, pc, job, out, calls, launches>> /\ intact' \in BOOLEAN
      BY <2>1 DEF vars, IInv, TypeOK
    <3> QED
      BY <3>1, RestKeeps
  <2>2. CASE Replaced
    <3>1. UNCHANGED <<journals, pc, job, out, calls, launches>> /\ intact' \in BOOLEAN
      BY <2>2 DEF Replaced
    <3> QED
      BY <3>1, RestKeeps
  <2>3. ASSUME NEW c \in Caller, Dispatch(c) PROVE IInv'
    BY <2>3, CallKeeps, PoolLookKeeps, PoolReserveKeeps, ReserveKeeps, BindKeeps, RecordKeeps, LaunchKeeps, ObserveKeeps,
       CompleteKeeps, SettleKeeps, AcquireKeeps, PoolSettleKeeps, StopKeeps DEF Dispatch
  <2> QED
    BY <2>1, <2>2, <2>3 DEF Next
<1> QED
  BY <1>1, <1>2, PTL DEF Spec

\* The variables keep their types.
THEOREM CapacityTypes == Spec => []TypeOK
<1>1. IInv => TypeOK
  BY DEF IInv
<1> QED
  BY CapacityInvariant, <1>1, PTL

\* However many callers ask through however many partitions and pools, and wherever
\* they stop, a child is started once from a partition and once from a pool.
THEOREM AChildIsStartedOnce == Spec => []OneLaunch
<1>1. IInv => OneLaunch
  <2> SUFFICES ASSUME IInv, NEW j \in Job, NEW k \in Job, launches[j] > 0, launches[k] > 0, j.child = k.child,
                      j.partition = k.partition \/ (j.owner = k.owner /\ j.owner # Legacy)
               PROVE  j = k /\ launches[j] = 1
    BY DEF OneLaunch
  <2>1. LaunchInv(j) /\ LaunchInv(k)
    BY DEF IInv
  <2>2. j.partition = k.partition
    BY <2>1, JobTypes DEF LaunchInv
  <2> QED
    BY <2>1, <2>2 DEF LaunchInv, Same
<1> QED
  BY CapacityInvariant, <1>1, PTL

\* A pool verifies whenever it is read, and the pool's and the ledgers' journals do
\* not contradict each other.
THEOREM JournalsNeverDisagree == Spec => []JournalsAgree
<1>1. IInv => JournalsAgree
  <2> SUFFICES ASSUME IInv PROVE JournalsAgree
    OBVIOUS
  <2>1. ASSUME NEW p \in Pool PROVE verify_capacity_snapshot(pool[p], 0)
    <3>1. _validate_record(pool[p]) /\ pool[p].revision \in Nat
      BY DEF IInv, PoolInv, TypeOK
    <3> QED
      BY <3>1 DEF verify_capacity_snapshot
  <2>2. ASSUME NEW p \in Pool, NEW ch \in Child, NEW l \in Partition,
               launches[[partition |-> l, child |-> ch, owner |-> p]] > 0
        PROVE  /\ pool[p].entries[ch] # None /\ pool[p].entries[ch].partition = l /\ pool[p].entries[ch].dispatch
               /\ ledger[l][ch].stage \in {"dispatched", "completed", "settled"}
    <3> DEFINE k == [partition |-> l, child |-> ch, owner |-> p]
    <3>1. k \in Job /\ k.partition = l /\ k.child = ch /\ k.owner = p
      BY DEF Job
    <3>2. LaunchInv(k) /\ launches[k] > 0
      BY <2>2, <3>1 DEF IInv
    <3> HIDE DEF k
    <3> QED
      BY <3>1, <3>2 DEF LaunchInv, Of, Started
  <2>3. ASSUME NEW p \in Pool, NEW ch \in Child, pool[p].entries[ch] # None, pool[p].entries[ch].retained < Hold
        PROVE  /\ ledger[pool[p].entries[ch].partition][ch].stage = "settled"
               /\ ledger[pool[p].entries[ch].partition][ch].out
                    = [performed |-> TRUE, captured |-> pool[p].entries[ch].retained]
    <3>1. EntryInv(p, ch)
      BY <2>3 DEF IInv
    <3> QED
      BY <2>3, <3>1 DEF EntryInv
  <2> QED
    BY <2>1, <2>2, <2>3 DEF JournalsAgree
<1> QED
  BY CapacityInvariant, <1>1, PTL

\* What any pool holds for a child of a partition, the pool the partition's marker
\* names does, however many pools looked for the marker before one of them wrote it.
THEOREM APartitionHasOneOwner == Spec => []OneOwner
<1>1. IInv => OneOwner
  BY DEF IInv, EntryInv, OneOwner
<1> QED
  BY CapacityInvariant, <1>1, PTL
================================================================================
