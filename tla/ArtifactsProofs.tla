-------------------------- MODULE ArtifactsProofs --------------------------
(***************************************************************************)
(* Proofs about Artifacts, for any files, contents, sizes, requests and    *)
(* budgets and any number of jobs side by side, with crashes at any point. *)
(* The budget is a statement about sums over paths, contents and jobs: the *)
(* lemmas about sums, as MapThenSumSet computes them, come first.          *)
(***************************************************************************)
EXTENDS Artifacts, FiniteSetTheorems, SequenceTheorems, WellFoundedInduction, TLAPS

-----------------------------------------------------------------------------
(* Induction, with the claim as a set of cases *)

\* A set of naturals that has every number whose predecessors it has is Nat.
LEMMA NumberInduct ==
  ASSUME NEW P \in SUBSET Nat,
         \A n \in Nat : (\A m \in Nat : m < n => m \in P) => n \in P
  PROVE  P = Nat
<1> DEFINE Bad == Nat \ P
<1> SUFFICES ASSUME Bad # {} PROVE FALSE
  OBVIOUS
<1>1. PICK n \in Bad : \A m \in Bad : ~(<<m, n>> \in OpToRel(<, Nat))
  <2>1. Bad \in SUBSET Nat
    OBVIOUS
  <2> HIDE DEF Bad
  <2> QED BY <2>1, NatLessThanWellFounded, WFMin
<1>2. \A m \in Bad : ~(m < n)
  BY <1>1 DEF OpToRel
<1> QED BY <1>2

\* A set of subsets of D that has every one whose proper subsets it has holds
\* all of them.
LEMMA SubsetInduct ==
  ASSUME NEW D, IsFiniteSet(D), NEW P \in SUBSET (SUBSET D),
         \A s \in SUBSET D : (\A t \in SUBSET s : t # s => t \in P) => s \in P
  PROVE  P = SUBSET D
<1> DEFINE N == {n \in Nat : \A s \in SUBSET D : Cardinality(s) = n => s \in P}
<1>1. \A s \in SUBSET D : Cardinality(s) \in Nat
  BY FS_Subset, FS_CardinalityType
<1>2. ASSUME NEW s \in SUBSET D, NEW t \in SUBSET s, t # s
      PROVE  Cardinality(t) < Cardinality(s)
  <2>1. IsFiniteSet(s)
    BY FS_Subset
  <2>2. Cardinality(t) <= Cardinality(s) /\ Cardinality(t) # Cardinality(s)
    BY <1>2, <2>1, FS_Subset
  <2> QED BY <1>1, <2>2
<1>3. \A n \in Nat : (\A m \in Nat : m < n => m \in N) => n \in N
  <2> SUFFICES ASSUME NEW n \in Nat, \A m \in Nat : m < n => m \in N,
                      NEW s \in SUBSET D, Cardinality(s) = n
               PROVE  s \in P
    OBVIOUS
  <2>1. ASSUME NEW t \in SUBSET s, t # s PROVE t \in P
    <3>1. Cardinality(t) < n /\ Cardinality(t) \in Nat
      BY <1>1, <1>2, <2>1
    <3>2. Cardinality(t) \in N
      BY <3>1
    <3> QED BY <3>2
  <2> QED BY <2>1
<1>4. N = Nat
  <2> HIDE DEF N
  <2> QED BY <1>3, NumberInduct DEF N
<1> QED BY <1>1, <1>4

-----------------------------------------------------------------------------
(* Sums over finite sets *)

\* What MapThenSumSet computes for a function w.
SomeOf(s) == CHOOSE x \in s : TRUE
SumStep(w, it, s) == IF s = {} THEN 0 ELSE w[SomeOf(s)] + it[s \ {SomeOf(s)}]
SumsUp(w, S, it) == it = [s \in SUBSET S |-> SumStep(w, it, s)]
SumFun(w, S) == CHOOSE it : SumsUp(w, S, it)
SumOver(w, S) == SumFun(w, S)[S]

\* A nonempty set has the member SomeOf chooses from it.
LEMMA SomeMember ==
  ASSUME NEW s, s # {}
  PROVE  SomeOf(s) \in s
BY Zenon DEF SomeOf

\* The recursion over subsets has a solution, built up by their size.
LEMMA SumExists ==
  ASSUME NEW S, IsFiniteSet(S), NEW w, \A x \in S : w[x] \in Nat
  PROVE  \E it : SumsUp(w, S, it)
<1> DEFINE Upto(n) == {s \in SUBSET S : Cardinality(s) <= n}
           Solves(g, n) == \A s \in Upto(n) : g[s] = SumStep(w, g, s)
           P == {n \in Nat : \E g \in [Upto(n) -> Nat] : Solves(g, n)}
<1>1. \A s \in SUBSET S : IsFiniteSet(s) /\ Cardinality(s) \in Nat
  BY FS_Subset, FS_CardinalityType
<1>2. ASSUME NEW n \in Nat, \A m \in Nat : m < n => m \in P PROVE n \in P
  <2>1. CASE n = 0
    <3> DEFINE g == [s \in Upto(0) |-> 0]
    <3>1. \A s \in Upto(0) : s = {}
      BY <1>1, FS_EmptySet
    <3>2. Solves(g, 0)
      BY <3>1 DEF SumStep
    <3>3. g \in [Upto(0) -> Nat]
      OBVIOUS
    <3>4. \E f \in [Upto(0) -> Nat] : Solves(f, 0)
      <4> HIDE DEF g, Upto, Solves
      <4> QED BY <3>2, <3>3
    <3> HIDE DEF g, Upto, Solves
    <3> QED BY <2>1, <3>4
  <2>2. CASE n > 0
    <3>1. PICK g \in [Upto(n - 1) -> Nat] : Solves(g, n - 1)
      <4>1. n - 1 \in P
        <5> HIDE DEF P
        <5> QED BY <1>2, <2>2
      <4> QED BY <4>1
    <3> DEFINE h == [s \in Upto(n) |-> SumStep(w, g, s)]
    <3>2. ASSUME NEW s \in Upto(n), s # {}
          PROVE  s \ {SomeOf(s)} \in Upto(n - 1) /\ SomeOf(s) \in S
      <4>1. SomeOf(s) \in s
        BY <3>2, SomeMember
      <4>2. Cardinality(s \ {SomeOf(s)}) = Cardinality(s) - 1
        BY <4>1, <1>1, FS_RemoveElement
      <4> QED BY <4>1, <4>2, <1>1
    <3>3. \A s \in Upto(n) : SumStep(w, g, s) \in Nat
      <4> SUFFICES ASSUME NEW s \in Upto(n) PROVE SumStep(w, g, s) \in Nat
        OBVIOUS
      <4>1. CASE s = {}
        BY <4>1 DEF SumStep
      <4>2. CASE s # {}
        <5>1. g[s \ {SomeOf(s)}] \in Nat /\ w[SomeOf(s)] \in Nat
          BY <3>1, <3>2, <4>2
        <5> QED BY <4>2, <5>1 DEF SumStep
      <4> QED BY <4>1, <4>2
    <3>4. h \in [Upto(n) -> Nat]
      BY <3>3
    <3>5. \A s \in Upto(n - 1) : s \in Upto(n) /\ h[s] = g[s]
      BY <3>1, <1>1
    <3>6. Solves(h, n)
      <4> SUFFICES ASSUME NEW s \in Upto(n) PROVE h[s] = SumStep(w, h, s)
        OBVIOUS
      <4>1. h[s] = SumStep(w, g, s)
        OBVIOUS
      <4>2. s # {} => h[s \ {SomeOf(s)}] = g[s \ {SomeOf(s)}]
        BY <3>2, <3>5
      <4> HIDE DEF h, Upto
      <4> QED BY <4>1, <4>2 DEF SumStep
    <3>7. \E f \in [Upto(n) -> Nat] : Solves(f, n)
      <4> HIDE DEF h, Upto, Solves
      <4> QED BY <3>4, <3>6
    <3> HIDE DEF h, Upto, Solves
    <3> QED BY <3>7
  <2> HIDE DEF P
  <2> QED BY <1>2, <2>1, <2>2
<1>3. P = Nat
  <2>1. P \in SUBSET Nat
    OBVIOUS
  <2> HIDE DEF P
  <2> QED BY <1>2, <2>1, NumberInduct
<1>4. Cardinality(S) \in P
  BY <1>1, <1>3
<1>5. PICK g \in [Upto(Cardinality(S)) -> Nat] : Solves(g, Cardinality(S))
  BY <1>4
<1>6. Upto(Cardinality(S)) = SUBSET S
  BY FS_Subset
<1>7. SumsUp(w, S, g)
  BY <1>5, <1>6 DEF SumsUp
<1> HIDE DEF Upto, Solves, P
<1> QED BY <1>7

\* The function that MapThenSumSet chooses satisfies its recursion.
LEMMA SumFunEquation ==
  ASSUME NEW S, IsFiniteSet(S), NEW w, \A x \in S : w[x] \in Nat
  PROVE  \A s \in SUBSET S : SumFun(w, S)[s] = SumStep(w, SumFun(w, S), s)
<1> DEFINE f == SumFun(w, S)
<1>1. SumsUp(w, S, f)
  BY SumExists DEF SumFun
<1>2. f = [s \in SUBSET S |-> SumStep(w, f, s)]
  <2> HIDE DEF f
  <2> QED BY <1>1, Zenon DEF SumsUp
<1> HIDE DEF f
<1>3. \A s \in SUBSET S : f[s] = SumStep(w, f, s)
  BY <1>2, Zenon
<1> QED BY <1>3 DEF f

\* The sum over a subset does not depend on the set it is computed within.
LEMMA SumWithin ==
  ASSUME NEW D, IsFiniteSet(D), NEW w, \A x \in D : w[x] \in Nat
  PROVE  \A S \in SUBSET D : \A s \in SUBSET S : SumFun(w, S)[s] = SumOver(w, s)
<1> DEFINE P == {s \in SUBSET D : \A S \in SUBSET D :
                                    s \in SUBSET S => SumFun(w, S)[s] = SumOver(w, s)}
<1>1. ASSUME NEW s \in SUBSET D, \A t \in SUBSET s : t # s => t \in P PROVE s \in P
  <2> SUFFICES ASSUME NEW S \in SUBSET D, s \in SUBSET S
               PROVE  SumFun(w, S)[s] = SumOver(w, s)
    OBVIOUS
  <2>1. /\ SumFun(w, S)[s] = SumStep(w, SumFun(w, S), s)
        /\ SumFun(w, s)[s] = SumStep(w, SumFun(w, s), s)
    <3>1. IsFiniteSet(S) /\ IsFiniteSet(s)
      BY FS_Subset
    <3> QED BY <3>1, SumFunEquation
  <2>2. CASE s = {}
    BY <2>1, <2>2 DEF SumStep, SumOver
  <2>3. CASE s # {}
    <3> DEFINE t == s \ {SomeOf(s)}
    <3>1. t \in SUBSET s /\ t # s
      BY <2>3, SomeMember
    <3>2. t \in P
      BY <1>1, <3>1
    <3>3. SumFun(w, S)[t] = SumOver(w, t) /\ SumFun(w, s)[t] = SumOver(w, t)
      BY <3>1, <3>2
    <3> QED BY <2>1, <2>3, <3>3 DEF SumStep, SumOver
  <2> QED BY <2>2, <2>3
<1>2. P = SUBSET D
  <2>1. P \in SUBSET (SUBSET D)
    OBVIOUS
  <2> HIDE DEF P
  <2> QED BY <1>1, <2>1, SubsetInduct
<1> QED BY <1>2

\* The sum as a recursion over its set alone.
LEMMA SumEquation ==
  ASSUME NEW S, IsFiniteSet(S), NEW w, \A x \in S : w[x] \in Nat
  PROVE  SumOver(w, S) = IF S = {} THEN 0 ELSE w[SomeOf(S)] + SumOver(w, S \ {SomeOf(S)})
<1>1. SumFun(w, S)[S] = SumStep(w, SumFun(w, S), S)
  BY SumFunEquation
<1>2. CASE S = {}
  BY <1>1, <1>2 DEF SumOver, SumStep
<1>3. CASE S # {}
  <2>1. S \ {SomeOf(S)} \in SUBSET S
    OBVIOUS
  <2>2. SumFun(w, S)[S \ {SomeOf(S)}] = SumOver(w, S \ {SomeOf(S)})
    BY <2>1, SumWithin
  <2> QED BY <1>1, <1>3, <2>2 DEF SumOver, SumStep
<1> QED BY <1>2, <1>3

\* A sum of naturals is a natural.
LEMMA SumType ==
  ASSUME NEW S, IsFiniteSet(S), NEW w, \A x \in S : w[x] \in Nat
  PROVE  SumOver(w, S) \in Nat
<1> DEFINE P == {s \in SUBSET S : SumOver(w, s) \in Nat}
<1>1. ASSUME NEW s \in SUBSET S, \A t \in SUBSET s : t # s => t \in P PROVE s \in P
  <2>1. SumOver(w, s) = IF s = {} THEN 0 ELSE w[SomeOf(s)] + SumOver(w, s \ {SomeOf(s)})
    BY FS_Subset, SumEquation
  <2>2. CASE s = {}
    BY <2>1, <2>2
  <2>3. CASE s # {}
    <3>1. SomeOf(s) \in s /\ s \ {SomeOf(s)} \in P
      BY <1>1, <2>3, SomeMember
    <3>2. w[SomeOf(s)] \in Nat /\ SumOver(w, s \ {SomeOf(s)}) \in Nat
      BY <3>1
    <3> QED BY <2>1, <2>3, <3>2
  <2> QED BY <2>2, <2>3
<1>2. P = SUBSET S
  <2>1. P \in SUBSET (SUBSET S)
    OBVIOUS
  <2> HIDE DEF P
  <2> QED BY <1>1, <2>1, SubsetInduct
<1> QED BY <1>2

\* Any member may be taken out first.
LEMMA SumWithout ==
  ASSUME NEW S, IsFiniteSet(S), NEW w, \A x \in S : w[x] \in Nat, NEW a \in S
  PROVE  SumOver(w, S) = w[a] + SumOver(w, S \ {a})
<1> DEFINE P == {s \in SUBSET S : \A x \in s : SumOver(w, s) = w[x] + SumOver(w, s \ {x})}
<1>1. \A s \in SUBSET S : SumOver(w, s) \in Nat
  BY FS_Subset, SumType
<1>2. ASSUME NEW s \in SUBSET S, \A t \in SUBSET s : t # s => t \in P PROVE s \in P
  <2> SUFFICES ASSUME NEW x \in s PROVE SumOver(w, s) = w[x] + SumOver(w, s \ {x})
    OBVIOUS
  <2> DEFINE y == SomeOf(s)
  <2>1. y \in s
    BY SomeMember
  <2>2. SumOver(w, s) = w[y] + SumOver(w, s \ {y})
    BY FS_Subset, SumEquation
  <2>3. CASE x = y
    BY <2>2, <2>3
  <2>4. CASE x # y
    <3> HIDE DEF y
    <3>1. s \ {x} \in P /\ s \ {y} \in P
      BY <1>2, <2>1
    <3>2. SumOver(w, s \ {y}) = w[x] + SumOver(w, (s \ {y}) \ {x})
      BY <2>4, <3>1
    <3>3. SumOver(w, s \ {x}) = w[y] + SumOver(w, (s \ {x}) \ {y})
      BY <2>1, <2>4, <3>1
    <3>4. (s \ {x}) \ {y} = (s \ {y}) \ {x}
      OBVIOUS
    <3>5. SumOver(w, (s \ {x}) \ {y}) \in Nat /\ w[x] \in Nat /\ w[y] \in Nat
      BY <1>1, <2>1
    <3> DEFINE rest == SumOver(w, (s \ {x}) \ {y})
    <3>6. SumOver(w, s) = w[y] + (w[x] + rest) /\ SumOver(w, s \ {x}) = w[y] + rest
      BY <2>2, <3>2, <3>3, <3>4
    <3> HIDE DEF rest
    <3> QED BY <3>5, <3>6 DEF rest
  <2> QED BY <2>3, <2>4
<1>3. P = SUBSET S
  <2>1. P \in SUBSET (SUBSET S)
    OBVIOUS
  <2> HIDE DEF P
  <2> QED BY <1>2, <2>1, SubsetInduct
<1> QED BY <1>3

\* A sum grows with its set.
LEMMA SumSubset ==
  ASSUME NEW T, IsFiniteSet(T), NEW w, \A x \in T : w[x] \in Nat, NEW S \in SUBSET T
  PROVE  SumOver(w, S) <= SumOver(w, T)
<1> DEFINE P == {t \in SUBSET T : \A s \in SUBSET t : SumOver(w, s) <= SumOver(w, t)}
<1>1. \A s \in SUBSET T : SumOver(w, s) \in Nat
  BY FS_Subset, SumType
<1>2. ASSUME NEW t \in SUBSET T, \A u \in SUBSET t : u # t => u \in P PROVE t \in P
  <2> SUFFICES ASSUME NEW s \in SUBSET t PROVE SumOver(w, s) <= SumOver(w, t)
    OBVIOUS
  <2>1. CASE s = t
    BY <1>1, <2>1
  <2>2. CASE s # t
    <3>1. PICK x \in t : x \notin s
      BY <2>2
    <3>2. SumOver(w, t) = w[x] + SumOver(w, t \ {x})
      BY FS_Subset, SumWithout
    <3>3. t \ {x} \in P
      BY <1>2
    <3>4. SumOver(w, s) <= SumOver(w, t \ {x})
      BY <3>1, <3>3
    <3>5. w[x] \in Nat /\ SumOver(w, t \ {x}) \in Nat /\ SumOver(w, s) \in Nat
      BY <1>1
    <3> QED BY <3>2, <3>4, <3>5
  <2> QED BY <2>1, <2>2
<1>3. P = SUBSET T
  <2>1. P \in SUBSET (SUBSET T)
    OBVIOUS
  <2> HIDE DEF P
  <2> QED BY <1>2, <2>1, SubsetInduct
<1> QED BY <1>3

\* Sums add up term by term.
LEMMA SumPlus ==
  ASSUME NEW S, IsFiniteSet(S), NEW a, NEW b, NEW c,
         \A x \in S : /\ a[x] \in Nat /\ b[x] \in Nat /\ c[x] \in Nat
                      /\ a[x] + b[x] <= c[x]
  PROVE  SumOver(a, S) + SumOver(b, S) <= SumOver(c, S)
<1> DEFINE P == {s \in SUBSET S : SumOver(a, s) + SumOver(b, s) <= SumOver(c, s)}
<1>1. \A s \in SUBSET S : /\ SumOver(a, s) \in Nat /\ SumOver(b, s) \in Nat
                          /\ SumOver(c, s) \in Nat
  BY FS_Subset, SumType
<1>2. ASSUME NEW s \in SUBSET S, \A t \in SUBSET s : t # s => t \in P PROVE s \in P
  <2>1. IsFiniteSet(s)
    BY FS_Subset
  <2>2. CASE s = {}
    <3>1. SumOver(a, s) = 0 /\ SumOver(b, s) = 0 /\ SumOver(c, s) = 0
      BY <2>1, <2>2, SumEquation
    <3> QED BY <3>1
  <2>3. CASE s # {}
    <3>1. PICK x : x \in s
      BY <2>3
    <3> DEFINE t == s \ {x}
    <3>2. t \in P /\ t \in SUBSET S
      BY <1>2, <3>1
    <3>3. /\ SumOver(a, s) = a[x] + SumOver(a, t)
          /\ SumOver(b, s) = b[x] + SumOver(b, t)
          /\ SumOver(c, s) = c[x] + SumOver(c, t)
      BY <2>1, <3>1, SumWithout
    <3>4. SumOver(a, t) + SumOver(b, t) <= SumOver(c, t)
      BY <3>2
    <3>5. /\ a[x] \in Nat /\ b[x] \in Nat /\ c[x] \in Nat /\ a[x] + b[x] <= c[x]
      BY <3>1
    <3>6. SumOver(a, t) \in Nat /\ SumOver(b, t) \in Nat /\ SumOver(c, t) \in Nat
      BY <1>1, <3>2
    <3> HIDE DEF t, P
    <3>7. SumOver(a, s) + SumOver(b, s) <= SumOver(c, s)
      BY <3>3, <3>4, <3>5, <3>6
    <3> QED BY <3>7 DEF P
  <2> QED BY <2>2, <2>3
<1>3. P = SUBSET S
  <2>1. P \in SUBSET (SUBSET S)
    OBVIOUS
  <2> HIDE DEF P
  <2> QED BY <1>2, <2>1, SubsetInduct
<1> QED BY <1>3

\* A sum is monotone in its terms.
LEMMA SumMonotone ==
  ASSUME NEW S, IsFiniteSet(S), NEW a, NEW c,
         \A x \in S : a[x] \in Nat /\ c[x] \in Nat /\ a[x] <= c[x]
  PROVE  SumOver(a, S) <= SumOver(c, S)
<1> DEFINE zero == [x \in S |-> 0]
<1>1. \A x \in S : zero[x] \in Nat /\ a[x] + zero[x] <= c[x]
  OBVIOUS
<1> HIDE DEF zero
<1>2. SumOver(a, S) + SumOver(zero, S) <= SumOver(c, S)
  BY <1>1, SumPlus
<1>3. SumOver(a, S) \in Nat /\ SumOver(c, S) \in Nat /\ SumOver(zero, S) \in Nat
  BY <1>1, SumType
<1> QED BY <1>2, <1>3

\* A term that changes changes the sum by as much.
LEMMA SumChange ==
  ASSUME NEW S, IsFiniteSet(S), NEW a, NEW c, NEW k \in S,
         \A x \in S : a[x] \in Nat /\ c[x] \in Nat,
         \A x \in S \ {k} : a[x] = c[x]
  PROVE  SumOver(a, S) + c[k] = SumOver(c, S) + a[k]
<1> DEFINE T == S \ {k}
<1>1. IsFiniteSet(T)
  BY FS_Subset
<1>2. SumOver(a, T) \in Nat /\ SumOver(c, T) \in Nat
  BY <1>1, SumType
<1>3. SumOver(a, T) = SumOver(c, T)
  <2>1. SumOver(a, T) <= SumOver(c, T) /\ SumOver(c, T) <= SumOver(a, T)
    BY <1>1, SumMonotone
  <2> QED BY <1>2, <2>1
<1>4. SumOver(a, S) = a[k] + SumOver(a, T) /\ SumOver(c, S) = c[k] + SumOver(c, T)
  BY SumWithout
<1> HIDE DEF T
<1> QED BY <1>2, <1>3, <1>4

-----------------------------------------------------------------------------
(* The jobs *)

USE ArtifactAssumption

Items == [path : Paths, max : Nat]
Statuses == {"none", "downloading", "complete", "failed", "cancelled", "lost"}
Phases == {"idle", "begin", "read", "place", "cleanup", "finish", "failed",
           "placed", "record"}

\* The phases in which a transfer is in activeTransfers.
Open == {"read", "place", "cleanup", "finish"}

JobRecords ==
  [status : Statuses, pc : Phases, todo : Seq(Items), placed : Seq(Paths),
   cancelled : BOOLEAN, active : BOOLEAN, reservation : Nat, staged : Nat,
   file : Nat \cup {NoFile}]

\* What a job k has reserved and staged in each of its phases.
Stands(k) ==
  /\ k.status = "downloading" <=> k.pc # "idle"
  /\ k.active <=> k.pc \in Open
  /\ k.pc \notin {"read", "place", "cleanup"} => k.file = NoFile
  /\ k.pc \in {"read", "place"} => k.file = k.staged /\ k.reservation = Head(k.todo).max
  /\ k.pc = "place" => k.staged = Size[Content[Head(k.todo).path]]
  /\ k.file # NoFile => k.file <= k.staged
  /\ k.reservation > 0 => k.staged <= k.reservation
  /\ k.pc \in {"begin", "read", "place", "placed"} => k.todo # <<>>
  /\ k.pc \in {"placed", "record"} => k.placed # <<>>

DiskTyped ==
  /\ present \subseteq Paths /\ blobs \subseteq Blobs
  /\ manifest \in [Paths -> {"none", "model", "companion"}]
  /\ budget \in Budgets /\ setting \in Budgets /\ stale \in Nat

Typed ==
  /\ DiskTyped
  /\ job \in [Jobs -> JobRecords]
  /\ \A j \in Jobs : Stands(job[j])

\* A file that a running job has placed has lost its manifest only with the
\* file: what the job writes into the manifest later brings nothing back.
Recorded ==
  \A j \in Jobs : \A i \in 1..Len(job[j].placed) :
    job[j].placed[i] \in present => manifest[job[j].placed[i]] # "none"

ArtifactInv == Typed /\ CacheSound /\ Recorded

-----------------------------------------------------------------------------
(* The steps of a job *)

\* A step that changes only job j, to k, in phase with what it has reserved.
Becomes(j, k) ==
  /\ k \in JobRecords /\ Stands(k)
  /\ job' = [job EXCEPT ![j] = k]

\* A requested download set is a nonempty sequence of items.
LEMMA RequestFacts ==
  ASSUME NEW q \in Requests
  PROVE  q \in Seq(Items) /\ q # <<>>
BY DEF Items

\* The item a job works on, and what is left when it is done with it, keep the types of a
\* download set.
LEMMA ItemFacts ==
  ASSUME Typed, NEW j \in Jobs, job[j].todo # <<>>
  PROVE  /\ Item(j) \in Items /\ Item(j).path \in Paths /\ Item(j).max \in Nat
         /\ Tail(job[j].todo) \in Seq(Items)
         /\ Len(job[j].todo) # 1 => Tail(job[j].todo) # <<>>
         /\ WeightsSize(j) \in Nat
<1>1. job[j].todo \in Seq(Items)
  BY DEF Typed, JobRecords
<1>2. /\ Item(j) \in Items
      /\ Tail(job[j].todo) \in Seq(Items)
      /\ Len(Tail(job[j].todo)) = Len(job[j].todo) - 1
  BY <1>1, HeadTailProperties DEF Item
<1>3. Item(j).path \in Paths /\ Item(j).max \in Nat
  BY <1>2 DEF Items
<1>4. Len(job[j].todo) # 1 => Tail(job[j].todo) # <<>>
  <2>1. Len(job[j].todo) \in Nat
    BY <1>1, LenProperties
  <2>2. Tail(job[j].todo) = <<>> => Len(Tail(job[j].todo)) = 0
    BY EmptySeq
  <2> QED BY <1>2, <2>1, <2>2
<1>5. WeightsSize(j) \in Nat
  BY <1>3 DEF WeightsSize
<1> QED BY <1>2, <1>3, <1>4, <1>5

\* StartDownloadSet gives a job its items and touches no transfer of it.
LEMMA StartStep ==
  ASSUME Typed, NEW j \in Jobs, NEW q \in Requests, StartDownloadSet(j, q)
  PROVE  \E k : /\ Becomes(j, k) /\ k.placed = job[j].placed
                /\ k.active = job[j].active /\ k.file = job[j].file
                /\ k.staged = job[j].staged /\ k.reservation = job[j].reservation
<1> DEFINE k == [job[j] EXCEPT !.status = "downloading", !.pc = "begin", !.todo = q]
<1>1. job[j] \in JobRecords /\ Stands(job[j])
  BY DEF Typed
<1>2. k \in JobRecords
  BY <1>1, RequestFacts DEF JobRecords, Statuses, Phases
<1>3. job' = [job EXCEPT ![j] = k]
  BY DEF StartDownloadSet, Typed
<1>4. Stands(k)
  BY <1>1, RequestFacts DEF JobRecords, Stands, StartDownloadSet, Open
<1>5. /\ k.placed = job[j].placed
      /\ k.active = job[j].active /\ k.file = job[j].file
      /\ k.staged = job[j].staged /\ k.reservation = job[j].reservation
  BY <1>1 DEF JobRecords
<1> HIDE DEF k
<1> QED BY <1>2, <1>3, <1>4, <1>5 DEF Becomes

\* CancelDownload changes the status of one job and nothing of its transfer.
LEMMA CancelStep ==
  ASSUME Typed, NEW j \in Jobs, CancelDownload(j)
  PROVE  \E k : /\ Becomes(j, k) /\ k.placed = job[j].placed
                /\ k.active = job[j].active /\ k.file = job[j].file
                /\ k.staged = job[j].staged /\ k.reservation = job[j].reservation
<1> DEFINE k == [job[j] EXCEPT !.cancelled = TRUE]
<1>1. job[j] \in JobRecords /\ Stands(job[j])
  BY DEF Typed
<1>2. k \in JobRecords
  BY <1>1 DEF JobRecords
<1>3. job' = [job EXCEPT ![j] = k]
  BY DEF CancelDownload, Typed
<1>4. Stands(k)
  BY <1>1 DEF JobRecords, Stands
<1>5. /\ k.placed = job[j].placed
      /\ k.active = job[j].active /\ k.file = job[j].file
      /\ k.staged = job[j].staged /\ k.reservation = job[j].reservation
  BY <1>1 DEF JobRecords
<1> HIDE DEF k
<1> QED BY <1>2, <1>3, <1>4, <1>5 DEF Becomes

\* startTransfer opens a transfer with the announced size reserved and nothing staged yet.
LEMMA StartTransferStep ==
  ASSUME Typed, NEW j \in Jobs, startTransfer(j)
  PROVE  /\ ~job[j].active /\ job[j].file = NoFile /\ Item(j).max \in Nat
         /\ \E k : /\ Becomes(j, k) /\ k.placed = job[j].placed
                   /\ k.active /\ k.staged = 0 /\ k.reservation = Item(j).max
<1> DEFINE k == [job[j] EXCEPT !.pc = "read", !.active = TRUE, !.staged = 0,
                               !.reservation = Item(j).max, !.file = 0]
<1>1. job[j] \in JobRecords /\ Stands(job[j]) /\ job[j].pc = "begin"
  BY DEF Typed, startTransfer, At
<1>2. job[j].todo # <<>> /\ ~job[j].active /\ job[j].file = NoFile
  BY <1>1 DEF Stands, Open
<1>3. Item(j).max \in Nat
  BY <1>2, ItemFacts
<1>4. k \in JobRecords
  BY <1>1, <1>3 DEF JobRecords, Phases
<1>5. job' = [job EXCEPT ![j] = k]
  BY DEF startTransfer, Typed
<1>6. Stands(k)
  BY <1>1, <1>2, <1>3 DEF JobRecords, Stands, Open, Item, NoFile
<1>7. k.placed = job[j].placed /\ k.active /\ k.staged = 0 /\ k.reservation = Item(j).max
  BY <1>1 DEF JobRecords
<1> HIDE DEF k
<1> QED BY <1>2, <1>3, <1>4, <1>5, <1>6, <1>7 DEF Becomes

\* The steps that change nothing but the phase.
LEMMA PhaseStep ==
  ASSUME Typed, NEW j \in Jobs, NEW pc \in Phases,
         job' = [job EXCEPT ![j].pc = pc],
         \/ At(j, "begin") /\ pc = "failed"
         \/ At(j, "read") /\ pc = "cleanup"
         \/ At(j, "read") /\ pc = "place" /\ job[j].staged = WeightsSize(j)
         \/ At(j, "place") /\ pc = "cleanup"
  PROVE  \E k : /\ Becomes(j, k) /\ k.placed = job[j].placed
                /\ k.active = job[j].active /\ k.file = job[j].file
                /\ k.staged = job[j].staged /\ k.reservation = job[j].reservation
<1> DEFINE k == [job[j] EXCEPT !.pc = pc]
<1>1. job[j] \in JobRecords /\ Stands(job[j])
  BY DEF Typed
<1>2. k \in JobRecords
  BY <1>1 DEF JobRecords
<1>3. job' = [job EXCEPT ![j] = k]
  BY DEF Typed
<1>4. Stands(k)
  BY <1>1 DEF JobRecords, Stands, Open, At, WeightsSize, Item
<1>5. /\ k.placed = job[j].placed
      /\ k.active = job[j].active /\ k.file = job[j].file
      /\ k.staged = job[j].staged /\ k.reservation = job[j].reservation
  BY <1>1 DEF JobRecords
<1> HIDE DEF k
<1> QED BY <1>2, <1>3, <1>4, <1>5 DEF Becomes

\* A chunk that was charged stays within the size announced.
LEMMA ChunkStep ==
  ASSUME Typed, NEW j \in Jobs, ReadChunk(j)
  PROVE  /\ job[j].active
         /\ \E k : /\ Becomes(j, k) /\ k.placed = job[j].placed
                   /\ k.active /\ k.staged = job[j].staged + 1
                   /\ k.reservation = job[j].reservation
<1> DEFINE k == [job[j] EXCEPT !.staged = @ + 1, !.file = @ + 1]
<1>1. job[j] \in JobRecords /\ Stands(job[j]) /\ job[j].pc = "read"
  BY DEF Typed, ReadChunk, At
<1>2. /\ job[j].todo # <<>> /\ job[j].active /\ job[j].file = job[j].staged
      /\ job[j].staged \in Nat /\ job[j].reservation = Item(j).max
  BY <1>1 DEF Stands, Open, JobRecords, Item
<1>3. Item(j).max \in Nat /\ (Item(j).max > 0 => job[j].staged + 1 <= Item(j).max)
  BY <1>2, ItemFacts DEF ReadChunk, chargeTransfer
<1>4. k \in JobRecords
  <2>1. k = [job[j] EXCEPT !.staged = job[j].staged + 1, !.file = job[j].staged + 1]
    BY <1>1, <1>2 DEF JobRecords
  <2>2. job[j].staged + 1 \in Nat
    BY <1>2
  <2> QED BY <1>1, <2>1, <2>2 DEF JobRecords
<1>5. job' = [job EXCEPT ![j] = k]
  BY DEF ReadChunk, Typed
<1>6. /\ k.pc = "read" /\ k.status = job[j].status /\ k.active /\ k.placed = job[j].placed
      /\ k.staged = job[j].staged + 1 /\ k.file = job[j].staged + 1
      /\ k.reservation = job[j].reservation /\ k.todo = job[j].todo
  BY <1>1, <1>2 DEF JobRecords
<1> HIDE DEF k
<1>7. Stands(k)
  BY <1>1, <1>2, <1>3, <1>6 DEF Stands, Open, Item, NoFile
<1> QED BY <1>2, <1>4, <1>5, <1>6, <1>7 DEF Becomes

\* Removing the staging file leaves the transfer open: it is still charged until
\* finishTransfer.
LEMMA RemoveStagingStep ==
  ASSUME Typed, NEW j \in Jobs, RemoveStaging(j)
  PROVE  /\ job[j].active
         /\ \E k : /\ Becomes(j, k) /\ k.placed = job[j].placed
                   /\ k.active /\ k.staged = job[j].staged
                   /\ k.reservation = job[j].reservation
<1> DEFINE k == [job[j] EXCEPT !.pc = "finish", !.file = NoFile]
<1>1. job[j] \in JobRecords /\ Stands(job[j]) /\ job[j].pc = "cleanup"
  BY DEF Typed, RemoveStaging, At
<1>2. k \in JobRecords
  BY <1>1 DEF JobRecords, Phases
<1>3. job' = [job EXCEPT ![j] = k]
  BY DEF RemoveStaging, Typed
<1>4. job[j].active
  BY <1>1 DEF Stands, Open
<1>5. /\ k.pc = "finish" /\ k.status = job[j].status /\ k.active /\ k.placed = job[j].placed
      /\ k.staged = job[j].staged /\ k.file = NoFile
      /\ k.reservation = job[j].reservation
  BY <1>1, <1>4 DEF JobRecords
<1> HIDE DEF k
<1>6. Stands(k)
  BY <1>1, <1>4, <1>5 DEF Stands, Open
<1> QED BY <1>2, <1>3, <1>4, <1>5, <1>6 DEF Becomes

\* finishTransfer releases the reservation and leaves no file behind it.
LEMMA FinishStep ==
  ASSUME Typed, NEW j \in Jobs, finishTransfer(j)
  PROVE  \E k : Becomes(j, k) /\ k.placed = job[j].placed /\ ~k.active /\ k.file = NoFile
<1> DEFINE k == [Released(job[j]) EXCEPT !.pc = "failed"]
<1>1. job[j] \in JobRecords /\ Stands(job[j]) /\ job[j].pc = "finish"
  BY DEF Typed, finishTransfer, At
<1>2. k \in JobRecords
  BY <1>1 DEF JobRecords, Phases, Released
<1>3. job' = [job EXCEPT ![j] = k]
  BY DEF finishTransfer, Typed
<1>4. /\ k.pc = "failed" /\ k.status = job[j].status /\ ~k.active /\ k.placed = job[j].placed
      /\ k.staged = 0 /\ k.file = job[j].file /\ k.reservation = 0
  BY <1>1 DEF JobRecords, Released
<1> HIDE DEF k
<1>5. Stands(k) /\ k.file = NoFile
  BY <1>1, <1>4 DEF Stands, Open
<1> QED BY <1>2, <1>3, <1>4, <1>5 DEF Becomes

\* A job that ends, in whatever way, has released its transfer before.
LEMMA EndStep ==
  ASSUME Typed, NEW j \in Jobs, NEW status \in {"complete", "failed", "cancelled"},
         At(j, "failed") \/ At(j, "record"), job' = [job EXCEPT ![j] = Ended(j, status)]
  PROVE  /\ ~job[j].active /\ job[j].file = NoFile
         /\ \E k : Becomes(j, k) /\ k.placed = <<>> /\ ~k.active /\ k.file = NoFile
<1> DEFINE k == Ended(j, status)
<1>1. job[j] \in JobRecords /\ Stands(job[j]) /\ job[j].pc \in {"failed", "record"}
  BY DEF Typed, At
<1>2. k \in JobRecords
  BY <1>1, EmptySeq DEF JobRecords, Phases, Statuses, Ended
<1>3. ~job[j].active /\ job[j].file = NoFile
  BY <1>1 DEF Stands, Open
<1>4. /\ k.pc = "idle" /\ k.status = status /\ ~k.active /\ k.placed = <<>>
      /\ k.staged = job[j].staged /\ k.file = NoFile
      /\ k.reservation = job[j].reservation
  BY <1>1, <1>3 DEF JobRecords, Ended
<1> HIDE DEF k
<1>5. Stands(k)
  BY <1>1, <1>4 DEF Stands, Open
<1> QED BY <1>2, <1>3, <1>4, <1>5 DEF Becomes, k

\* The list of placed paths, one longer.
LEMMA PlacedFacts ==
  ASSUME NEW s \in Seq(Paths), NEW p \in Paths
  PROVE  /\ Append(s, p) \in Seq(Paths) /\ Append(s, p) # <<>>
         /\ Len(Append(s, p)) = Len(s) + 1 /\ Len(s) \in Nat
         /\ \A i \in 1..Len(s) : Append(s, p)[i] = s[i]
         /\ Append(s, p)[Len(s) + 1] = p
BY AppendProperties, LenProperties

\* A download is placed at its path or at the flat one beside it, which has the
\* same content, and all of it has been staged by then.
LEMMA PlaceStep ==
  ASSUME Typed, NEW j \in Jobs, placeDownload(j)
  PROVE  /\ job[j].active
         /\ \E p \in Paths, k \in JobRecords :
              /\ job[j].staged = Size[Content[p]]
              /\ present' = present \cup {p}
              /\ blobs' = blobs \cup IF p \in Cached THEN {Content[p]} ELSE {}
              /\ manifest' = [manifest EXCEPT ![p] = "model"]
              /\ Becomes(j, k) /\ k.placed = Append(job[j].placed, p)
              /\ ~k.active /\ k.file = NoFile
<1>1. job[j] \in JobRecords /\ Stands(job[j]) /\ job[j].pc = "place"
  BY DEF Typed, placeDownload, At
<1>2. job[j].active /\ job[j].todo # <<>> /\ job[j].staged = Size[Content[Item(j).path]]
  BY <1>1 DEF Stands, Open, Item
<1>3. Item(j).path \in Paths
  BY <1>2, ItemFacts
<1>4. PICK p \in {Item(j).path, Flat[Item(j).path]} :
       /\ present' = present \cup {p}
       /\ blobs' = blobs \cup IF p \in Cached THEN {Content[p]} ELSE {}
       /\ manifest' = [manifest EXCEPT ![p] = "model"]
       /\ job' = [job EXCEPT ![j] = [Released(job[j]) EXCEPT !.pc = "placed",
                                      !.file = NoFile, !.placed = Append(@, p)]]
  BY DEF placeDownload
<1>5. p \in Paths /\ Content[p] = Content[Item(j).path]
  BY <1>3
<1> DEFINE s == Append(job[j].placed, p)
           k == [job[j] EXCEPT !.pc = "placed", !.file = NoFile, !.active = FALSE,
                               !.reservation = 0, !.staged = 0, !.placed = s]
<1>6. s \in Seq(Paths) /\ s # <<>>
  <2>1. job[j].placed \in Seq(Paths)
    BY <1>1 DEF JobRecords
  <2> QED BY <1>5, <2>1, PlacedFacts
<1>7. /\ job' = [i \in Jobs |-> job'[i]]
      /\ \A i \in Jobs \ {j} : job'[i] = job[i]
      /\ job'[j] = [Released(job[j]) EXCEPT !.pc = "placed", !.file = NoFile,
                                            !.placed = Append(@, p)]
  <2>1. DOMAIN job = Jobs
    BY DEF Typed
  <2> QED BY <1>4, <2>1, Zenon
<1>8. k \in JobRecords /\ job' = [job EXCEPT ![j] = k]
  <2>1. job'[j] = k
    BY <1>1, <1>7 DEF JobRecords, Released
  <2> HIDE DEF s
  <2>2. k \in JobRecords
    BY <1>1, <1>6 DEF JobRecords, Phases
  <2> HIDE DEF k
  <2> QED BY <1>7, <2>1, <2>2 DEF Typed
<1> HIDE DEF s
<1>9. /\ k.pc = "placed" /\ k.status = job[j].status /\ ~k.active
      /\ k.placed = s /\ k.todo = job[j].todo
      /\ k.staged = 0 /\ k.file = NoFile /\ k.reservation = 0
  BY <1>1 DEF JobRecords
<1> HIDE DEF k
<1>10. Stands(k)
  BY <1>1, <1>2, <1>6, <1>9 DEF Stands, Open
<1>11. Becomes(j, k) /\ k.placed = Append(job[j].placed, p) /\ ~k.active /\ k.file = NoFile
  BY <1>8, <1>9, <1>10, Zenon DEF Becomes, s
<1> QED BY <1>2, <1>4, <1>5, <1>8, <1>11

\* Writing the role of a companion happens between two transfers and leaves the job without
\* one.
LEMMA MarkStep ==
  ASSUME Typed, NEW j \in Jobs, MarkCompanion(j)
  PROVE  /\ ~job[j].active /\ job[j].file = NoFile
         /\ \E k : Becomes(j, k) /\ k.placed = job[j].placed /\ ~k.active /\ k.file = NoFile
<1> DEFINE pc == IF Len(job[j].todo) = 1 THEN "record" ELSE "begin"
           k == [job[j] EXCEPT !.todo = Tail(job[j].todo), !.pc = pc]
<1>1. job[j] \in JobRecords /\ Stands(job[j]) /\ job[j].pc = "placed"
  BY DEF Typed, MarkCompanion, At
<1>2. ~job[j].active /\ job[j].file = NoFile /\ job[j].todo # <<>> /\ job[j].placed # <<>>
  BY <1>1 DEF Stands, Open
<1>3. /\ Tail(job[j].todo) \in Seq(Items)
      /\ pc = "record" \/ (pc = "begin" /\ Tail(job[j].todo) # <<>>)
  BY <1>2, ItemFacts
<1>4. job' = [job EXCEPT ![j] = k]
  BY DEF MarkCompanion, Typed
<1> HIDE DEF pc
<1>5. k \in JobRecords
  BY <1>1, <1>3 DEF JobRecords, Phases
<1>6. /\ k.pc = pc /\ k.status = job[j].status /\ ~k.active
      /\ k.placed = job[j].placed /\ k.todo = Tail(job[j].todo)
      /\ k.staged = job[j].staged /\ k.file = NoFile /\ k.reservation = job[j].reservation
  BY <1>1, <1>2 DEF JobRecords
<1> HIDE DEF k
<1>7. Stands(k)
  BY <1>1, <1>2, <1>3, <1>6 DEF Stands, Open
<1> QED BY <1>2, <1>4, <1>5, <1>6, <1>7 DEF Becomes

-----------------------------------------------------------------------------
(* Sums *)

\* The larger of two numbers, as the cost of a transfer takes it.
LEMMA MaxOfTwo ==
  ASSUME NEW a \in Int, NEW b \in Int
  PROVE  Max({a, b}) = IF a >= b THEN a ELSE b
<1>1. \E x \in {a, b} : \A y \in {a, b} : x >= y
  OBVIOUS
<1>2. Max({a, b}) \in {a, b} /\ \A y \in {a, b} : Max({a, b}) >= y
  BY <1>1, Zenon DEF Max
<1> QED BY <1>2

\* What a job weighs on the budget, and what of it a crash leaves behind.
Cost(k) == (IF k.active THEN Max({k.staged, k.reservation}) ELSE 0)
           + (IF k.active \/ k.file = NoFile THEN 0 ELSE k.file)
Costs == [j \in Jobs |-> Cost(job[j])]
Left == [j \in Jobs |-> Max({job[j].file, 0})]

\* A transfer costs the larger of what it reserved and what it staged; a job without one
\* costs nothing.
LEMMA CostFacts ==
  ASSUME NEW k \in JobRecords, Stands(k)
  PROVE  /\ Cost(k) \in Nat
         /\ k.active => Cost(k) = IF k.staged >= k.reservation THEN k.staged ELSE k.reservation
         /\ ~k.active => Cost(k) = 0
         /\ Max({k.file, 0}) \in Nat /\ Max({k.file, 0}) <= Cost(k)
<1>1. /\ k.staged \in Nat /\ k.reservation \in Nat /\ k.file \in Nat \cup {-1}
      /\ ~k.active => k.file = -1
      /\ k.file # -1 => k.file <= k.staged
  BY DEF JobRecords, NoFile, Stands, Open
<1>2. Max({k.staged, k.reservation}) = IF k.staged >= k.reservation THEN k.staged ELSE k.reservation
  BY <1>1, MaxOfTwo
<1>3. Max({k.file, 0}) = IF k.file >= 0 THEN k.file ELSE 0
  BY <1>1, MaxOfTwo
<1>4. CASE k.active
  BY <1>1, <1>2, <1>3, <1>4 DEF Cost
<1>5. CASE ~k.active
  BY <1>1, <1>3, <1>5 DEF Cost, NoFile
<1> QED BY <1>4, <1>5

\* MapThenSumSet with an operator that a function stands for.
LEMMA JobsSum ==
  /\ MapThenSumSet(LAMBDA j : Reserved(j) + Unowned(j), Jobs) = SumOver(Costs, Jobs)
  /\ MapThenSumSet(LAMBDA j : Max({job[j].file, 0}), Jobs) = SumOver(Left, Jobs)
<1>1. ASSUME NEW s \in SUBSET Jobs, s # {}
      PROVE  /\ Costs[SomeOf(s)] = Reserved(SomeOf(s)) + Unowned(SomeOf(s))
             /\ Left[SomeOf(s)] = Max({job[SomeOf(s)].file, 0})
  <2>1. SomeOf(s) \in Jobs
    BY <1>1, SomeMember
  <2> QED BY <2>1 DEF Costs, Left, Cost, Reserved, Unowned
<1>2. ASSUME NEW it
      PROVE  SumsUp(Costs, Jobs, it) <=>
             it = [s \in SUBSET Jobs |-> IF s = {} THEN 0
                     ELSE (Reserved(SomeOf(s)) + Unowned(SomeOf(s))) + it[s \ {SomeOf(s)}]]
  BY <1>1 DEF SumsUp, SumStep
<1>3. ASSUME NEW it
      PROVE  SumsUp(Left, Jobs, it) <=>
             it = [s \in SUBSET Jobs |-> IF s = {} THEN 0
                     ELSE Max({job[SomeOf(s)].file, 0}) + it[s \ {SomeOf(s)}]]
  BY <1>1 DEF SumsUp, SumStep
<1>4. SumFun(Costs, Jobs) = CHOOSE it :
             it = [s \in SUBSET Jobs |-> IF s = {} THEN 0
                     ELSE (Reserved(SomeOf(s)) + Unowned(SomeOf(s))) + it[s \ {SomeOf(s)}]]
  BY <1>2, Zenon DEF SumFun
<1>5. SumFun(Left, Jobs) = CHOOSE it :
             it = [s \in SUBSET Jobs |-> IF s = {} THEN 0
                     ELSE Max({job[SomeOf(s)].file, 0}) + it[s \ {SomeOf(s)}]]
  BY <1>3, Zenon DEF SumFun
<1>6. MapThenSumSet(LAMBDA j : Reserved(j) + Unowned(j), Jobs) = SumOver(Costs, Jobs)
  BY <1>4, Zenon DEF MapThenSumSet, MapThenFoldSet, SomeOf, SumOver
<1>7. MapThenSumSet(LAMBDA j : Max({job[j].file, 0}), Jobs) = SumOver(Left, Jobs)
  BY <1>5, Zenon DEF MapThenSumSet, MapThenFoldSet, SomeOf, SumOver
<1> QED BY <1>6, <1>7

-----------------------------------------------------------------------------
(* The invariant *)

\* When one job becomes k, every other job keeps its record.
LEMMA JobMoved ==
  ASSUME Typed, NEW j \in Jobs, NEW k, Becomes(j, k)
  PROVE  /\ job' \in [Jobs -> JobRecords]
         /\ job'[j] = k
         /\ \A i \in Jobs \ {j} : job'[i] = job[i]
         /\ \A i \in Jobs : Stands(job'[i])
<1>1. k \in JobRecords /\ Stands(k) /\ job' = [job EXCEPT ![j] = k]
  BY DEF Becomes
<1>2. job \in [Jobs -> JobRecords] /\ \A i \in Jobs : Stands(job[i])
  BY DEF Typed
<1>3. /\ job' \in [Jobs -> JobRecords] /\ job'[j] = k
      /\ \A i \in Jobs \ {j} : job'[i] = job[i]
  BY <1>1, <1>2
<1> QED BY <1>1, <1>2, <1>3

\* The steps that leave the disk and the settings alone.
Quiet(j) ==
  \/ \E q \in Requests : StartDownloadSet(j, q)
  \/ CancelDownload(j)
  \/ startTransfer(j) \/ BeginFails(j)
  \/ ReadChunk(j) \/ ReadEOF(j) \/ ReadFails(j)
  \/ RemoveStaging(j) \/ finishTransfer(j) \/ Failed(j)

\* Such a step lets its job weigh more only where the budget has been checked.
LEMMA QuietStep ==
  ASSUME Typed, NEW j \in Jobs, Quiet(j)
  PROVE  /\ UNCHANGED <<present, blobs, manifest, budget, setting, stale>>
         /\ \E k : /\ Becomes(j, k)
                   /\ k.placed = job[j].placed \/ k.placed = <<>>
                   /\ \/ Cost(k) <= Cost(job[j])
                      \/ totalCommitted + (Cost(k) - Cost(job[j])) <= budget
<1>1. UNCHANGED <<present, blobs, manifest, budget, setting, stale>>
  BY DEF Quiet, StartDownloadSet, CancelDownload, startTransfer, BeginFails, ReadChunk,
         ReadEOF, ReadFails, RemoveStaging, finishTransfer, Failed, disk
<1> DEFINE Fits(k) == /\ k.placed = job[j].placed \/ k.placed = <<>>
                      /\ \/ Cost(k) <= Cost(job[j])
                         \/ totalCommitted + (Cost(k) - Cost(job[j])) <= budget
<1>2. job[j] \in JobRecords /\ Stands(job[j]) /\ Cost(job[j]) \in Nat
  BY CostFacts DEF Typed
<1>3. ASSUME NEW k, Becomes(j, k), k.placed = job[j].placed,
             k.active = job[j].active, k.file = job[j].file,
             k.staged = job[j].staged, k.reservation = job[j].reservation
      PROVE  \E l : Becomes(j, l) /\ Fits(l)
  <2>1. Cost(k) = Cost(job[j])
    BY <1>3 DEF Cost
  <2> QED BY <1>2, <1>3, <2>1
<1>4. ASSUME NEW k, Becomes(j, k), k.placed = job[j].placed \/ k.placed = <<>>, ~k.active
      PROVE  \E l : Becomes(j, l) /\ Fits(l)
  <2>1. Cost(k) = 0
    BY <1>4, CostFacts DEF Becomes
  <2> QED BY <1>2, <1>4, <2>1
<1>5. CASE \E q \in Requests : StartDownloadSet(j, q)
  BY <1>1, <1>3, <1>5, StartStep
<1>6. CASE CancelDownload(j)
  BY <1>1, <1>3, <1>6, CancelStep
<1>7. CASE startTransfer(j)
  <2>1. /\ ~job[j].active /\ Item(j).max \in Nat
        /\ Item(j).max > 0 => totalCommitted + Item(j).max <= budget
    BY <1>7, StartTransferStep DEF startTransfer, Affordable
  <2>2. PICK k : /\ Becomes(j, k) /\ k.placed = job[j].placed
                 /\ k.active /\ k.staged = 0 /\ k.reservation = Item(j).max
    BY <1>7, StartTransferStep
  <2>3. Cost(k) = Item(j).max /\ Cost(job[j]) = 0
    <3>1. k \in JobRecords /\ Stands(k)
      BY <2>2 DEF Becomes
    <3>2. Cost(k) = IF k.staged >= k.reservation THEN k.staged ELSE k.reservation
      BY <2>2, <3>1, CostFacts
    <3>3. Cost(job[j]) = 0
      BY <1>2, <2>1, CostFacts
    <3> QED BY <2>1, <2>2, <3>2, <3>3
  <2>4. Item(j).max - 0 = Item(j).max
    BY <2>1
  <2>5. Fits(k)
    BY <2>1, <2>2, <2>3, <2>4
  <2> QED BY <1>1, <2>2, <2>5
<1>8. CASE BeginFails(j)
  <2>1. At(j, "begin") /\ job' = [job EXCEPT ![j].pc = "failed"]
    BY <1>8 DEF BeginFails
  <2> QED BY <1>1, <1>3, <2>1, PhaseStep DEF Phases
<1>9. CASE ReadChunk(j)
  <2>1. PICK k : /\ Becomes(j, k) /\ k.placed = job[j].placed
                 /\ k.active /\ k.staged = job[j].staged + 1
                 /\ k.reservation = job[j].reservation
    BY <1>9, ChunkStep
  <2>2. /\ job[j].active /\ job[j].staged \in Nat /\ job[j].reservation \in Nat
    BY <1>2, <1>9, ChunkStep DEF JobRecords
  <2>3. Cost(k) = IF k.staged >= k.reservation THEN k.staged ELSE k.reservation
    BY <2>1, CostFacts DEF Becomes
  <2>4. /\ Cost(job[j]) = IF job[j].staged >= job[j].reservation
                          THEN job[j].staged ELSE job[j].reservation
        /\ Cost(job[j]) = Max({job[j].staged, job[j].reservation})
    <3>1. Cost(job[j]) = IF job[j].staged >= job[j].reservation
                         THEN job[j].staged ELSE job[j].reservation
      BY <1>2, <2>2, CostFacts
    <3>2. job[j].staged \in Int /\ job[j].reservation \in Int
      BY <2>2
    <3> QED BY <3>1, <3>2, MaxOfTwo
  <2>5. job[j].staged + 1 > Cost(job[j]) => totalCommitted + 1 <= budget
    BY <1>9, <2>4 DEF ReadChunk, chargeTransfer
  <2>6. \/ Cost(k) <= Cost(job[j])
        \/ job[j].staged + 1 > Cost(job[j]) /\ Cost(k) - Cost(job[j]) = 1
    BY <2>1, <2>2, <2>3, <2>4
  <2>7. Fits(k)
    BY <2>1, <2>5, <2>6
  <2> QED BY <1>1, <2>1, <2>7
<1>10. CASE ReadEOF(j)
  <2>1. /\ At(j, "read") /\ job[j].staged = WeightsSize(j)
        /\ job' = [job EXCEPT ![j].pc = "place"]
    BY <1>10 DEF ReadEOF
  <2> QED BY <1>1, <1>3, <2>1, PhaseStep DEF Phases
<1>11. CASE ReadFails(j)
  <2>1. At(j, "read") /\ job' = [job EXCEPT ![j].pc = "cleanup"]
    BY <1>11 DEF ReadFails
  <2> QED BY <1>1, <1>3, <2>1, PhaseStep DEF Phases
<1>12. CASE RemoveStaging(j)
  <2>1. PICK k : /\ Becomes(j, k) /\ k.placed = job[j].placed
                 /\ k.active /\ k.staged = job[j].staged
                 /\ k.reservation = job[j].reservation
    BY <1>12, RemoveStagingStep
  <2>2. job[j].active
    BY <1>12, RemoveStagingStep
  <2>3. Cost(k) = Cost(job[j])
    BY <2>1, <2>2 DEF Cost
  <2> QED BY <1>1, <1>2, <2>1, <2>3
<1>13. CASE finishTransfer(j)
  BY <1>1, <1>4, <1>13, FinishStep
<1>14. CASE Failed(j)
  <2>1. PICK status \in {"failed", "cancelled"} : job' = [job EXCEPT ![j] = Ended(j, status)]
    BY <1>14 DEF Failed
  <2>2. At(j, "failed")
    BY <1>14 DEF Failed
  <2> QED BY <1>1, <1>4, <2>1, <2>2, EndStep
<1> QED BY <1>5, <1>6, <1>7, <1>8, <1>9, <1>10, <1>11, <1>12, <1>13, <1>14 DEF Quiet

\* The disjuncts of Next, the ones that touch neither disk nor manifests under one name.
LEMMA NextCases ==
  ASSUME Next
  PROVE  \/ \E j \in Jobs : \/ Quiet(j) \/ placeDownload(j) \/ PlaceFails(j)
                            \/ MarkCompanion(j) \/ Complete(j)
         \/ \E b \in Budgets : SetMaxBudget(b)
         \/ \E p \in Paths : DeleteArtifact(p) \/ ImportLocalArtifact(p)
         \/ Restart
BY DEF Next, Step, Quiet

\* The job's part of a failed placement and of the completion.
LEMMA PlaceFailsStep ==
  ASSUME Typed, NEW j \in Jobs, PlaceFails(j)
  PROVE  \E k : Becomes(j, k) /\ k.placed = job[j].placed /\ Cost(k) = Cost(job[j])
<1>1. At(j, "place") /\ job' = [job EXCEPT ![j].pc = "cleanup"]
  BY DEF PlaceFails
<1>2. PICK k : /\ Becomes(j, k) /\ k.placed = job[j].placed
               /\ k.active = job[j].active /\ k.file = job[j].file
               /\ k.staged = job[j].staged /\ k.reservation = job[j].reservation
  BY <1>1, PhaseStep DEF Phases
<1>3. Cost(k) = Cost(job[j])
  BY <1>2 DEF Cost
<1> QED BY <1>2, <1>3

\* Completing a download set empties the list of what it placed.
LEMMA CompleteStep ==
  ASSUME Typed, NEW j \in Jobs, Complete(j)
  PROVE  \E k : Becomes(j, k) /\ k.placed = <<>> /\ ~k.active
BY EndStep DEF Complete

\* A restart turns every running job into a lost one.
LEMMA RestartStep ==
  ASSUME Typed, Restart
  PROVE  \A j \in Jobs : /\ job'[j] \in JobRecords /\ Stands(job'[j])
                         /\ ~job'[j].active
                         /\ job'[j].placed = job[j].placed \/ job'[j].placed = <<>>
<1> SUFFICES ASSUME NEW j \in Jobs
             PROVE  /\ job'[j] \in JobRecords /\ Stands(job'[j]) /\ ~job'[j].active
                    /\ job'[j].placed = job[j].placed \/ job'[j].placed = <<>>
  OBVIOUS
<1>1. job[j] \in JobRecords /\ Stands(job[j])
  BY DEF Typed
<1>2. job'[j] = IF job[j].status = "downloading"
                THEN [NewJob EXCEPT !.status = "lost"] ELSE job[j]
  BY DEF Restart
<1>3. CASE job[j].status = "downloading"
  <2> DEFINE k == [NewJob EXCEPT !.status = "lost"]
  <2>1. k \in JobRecords
    BY EmptySeq DEF NewJob, JobRecords, Statuses, Phases
  <2>2. /\ k.status = "lost" /\ k.pc = "idle" /\ ~k.active /\ k.placed = <<>>
        /\ k.file = NoFile /\ k.reservation = 0
    BY DEF NewJob
  <2> HIDE DEF k
  <2>3. Stands(k)
    BY <2>2 DEF Stands, Open
  <2> QED BY <1>2, <1>3, <2>1, <2>2, <2>3 DEF k
<1>4. CASE job[j].status # "downloading"
  <2>1. ~job[j].active
    BY <1>1, <1>4 DEF Stands, Open
  <2> QED BY <1>1, <1>2, <1>4, <2>1
<1> QED BY <1>3, <1>4

\* The manager starts with no jobs and a well-typed disk.
LEMMA InitTyped == Init => Typed
<1> SUFFICES ASSUME Init PROVE Typed
  OBVIOUS
<1>1. NewJob \in JobRecords
  BY EmptySeq DEF NewJob, JobRecords, Statuses, Phases
<1>2. Stands(NewJob)
  BY DEF NewJob, Stands, Open
<1>3. job = [j \in Jobs |-> NewJob]
  BY DEF Init
<1>4. DiskTyped
  BY DEF Init, DiskTyped
<1> QED BY <1>1, <1>2, <1>3, <1>4 DEF Typed

\* Every step keeps the types and keeps each job's transfer and file in agreement.
LEMMA NextTyped == Typed /\ [Next]_vars => Typed'
<1> SUFFICES ASSUME Typed, [Next]_vars PROVE Typed'
  OBVIOUS
<1>1. DiskTyped
  BY DEF Typed
<1>2. ASSUME DiskTyped', NEW j \in Jobs, NEW k, Becomes(j, k) PROVE Typed'
  BY <1>2, JobMoved DEF Typed
<1>3. ASSUME DiskTyped', UNCHANGED job PROVE Typed'
  BY <1>3 DEF Typed
<1>4. ASSUME NEW j \in Jobs, Quiet(j) PROVE Typed'
  <2>1. DiskTyped'
    BY <1>1, <1>4, QuietStep DEF DiskTyped
  <2> QED BY <1>2, <1>4, <2>1, QuietStep
<1>5. ASSUME NEW j \in Jobs, placeDownload(j) PROVE Typed'
  <2>1. PICK p \in Paths, k \in JobRecords :
              /\ present' = present \cup {p}
              /\ blobs' = blobs \cup IF p \in Cached THEN {Content[p]} ELSE {}
              /\ manifest' = [manifest EXCEPT ![p] = "model"]
              /\ Becomes(j, k)
    BY <1>5, PlaceStep
  <2>2. UNCHANGED <<budget, setting, stale>>
    BY <1>5 DEF placeDownload
  <2>3. DiskTyped'
    BY <1>1, <2>1, <2>2 DEF DiskTyped
  <2> QED BY <1>2, <2>1, <2>3
<1>6. ASSUME NEW j \in Jobs, PlaceFails(j) PROVE Typed'
  <2>1. Item(j).path \in Paths
    <3>1. job[j].todo # <<>>
      BY <1>6 DEF PlaceFails, At, Typed, Stands
    <3> QED BY <3>1, ItemFacts
  <2>2. DiskTyped'
    BY <1>1, <1>6, <2>1 DEF DiskTyped, PlaceFails
  <2> QED BY <1>2, <1>6, <2>2, PlaceFailsStep
<1>7. ASSUME NEW j \in Jobs, MarkCompanion(j) PROVE Typed'
  <2>1. DiskTyped'
    BY <1>1, <1>7 DEF DiskTyped, MarkCompanion
  <2> QED BY <1>2, <1>7, <2>1, MarkStep
<1>8. ASSUME NEW j \in Jobs, Complete(j) PROVE Typed'
  <2>1. DiskTyped'
    BY <1>1, <1>8 DEF DiskTyped, Complete
  <2> QED BY <1>2, <1>8, <2>1, CompleteStep
<1>9. ASSUME NEW b \in Budgets, SetMaxBudget(b) PROVE Typed'
  BY <1>1, <1>3, <1>9 DEF DiskTyped, SetMaxBudget, disk
<1>10. ASSUME NEW p \in Paths, DeleteArtifact(p) PROVE Typed'
  BY <1>1, <1>3, <1>10 DEF DiskTyped, DeleteArtifact, removeFromCache
<1>11. ASSUME NEW p \in Paths, ImportLocalArtifact(p) PROVE Typed'
  <2>1. /\ UNCHANGED <<blobs, budget, setting, job, stale>>
        /\ present' = present \cup {p} \/ present' = present \ {p}
        /\ manifest' = [manifest EXCEPT ![p] = "model"] \/ UNCHANGED manifest
    BY <1>11 DEF ImportLocalArtifact
  <2> QED BY <1>1, <1>3, <2>1 DEF DiskTyped
<1>12. CASE Restart
  <2>1. SumOver(Left, Jobs) \in Nat
    <3>1. \A j \in Jobs : Left[j] \in Nat
      BY CostFacts DEF Typed, Left
    <3> QED BY <3>1, SumType
  <2>2. stale' = stale + SumOver(Left, Jobs) /\ UNCHANGED <<present, blobs, manifest, setting>>
        /\ budget' = setting /\ DOMAIN job' = Jobs /\ job' = [j \in Jobs |-> job'[j]]
    BY <1>12, JobsSum DEF Restart, disk
  <2>3. DiskTyped'
    BY <1>1, <2>1, <2>2 DEF DiskTyped
  <2> QED BY <1>12, <2>2, <2>3, RestartStep DEF Typed
<1>13. CASE UNCHANGED vars
  BY <1>1, <1>3, <1>13 DEF vars, DiskTyped
<1> QED BY <1>4, <1>5, <1>6, <1>7, <1>8, <1>9, <1>10, <1>11, <1>12, <1>13, NextCases

\* Every variable stays in its domain, and no transfer takes more than the size
\* it announced (chargeTransfer), whatever jobs run side by side.
THEOREM TypeCorrect == Spec => []TypeOK
<1>1. ASSUME NEW k \in JobRecords, Stands(k)
      PROVE  /\ k.status \in Statuses /\ k.file \in {NoFile} \cup 0..k.staged
             /\ k.reservation > 0 => k.staged \in 0..k.reservation
  <2>1. /\ k.staged \in Nat /\ k.reservation \in Nat /\ k.file \in Nat \cup {NoFile}
        /\ k.status \in Statuses
    BY <1>1 DEF JobRecords
  <2> QED BY <1>1, <2>1 DEF Stands
<1>2. Typed => TypeOK
  BY <1>1 DEF Typed, DiskTyped, TypeOK, Statuses
<1> QED BY <1>2, InitTyped, NextTyped, PTL DEF Spec

\* Once a job has ended, on any of its ways out, nothing of its reservation or
\* its staging file is left, and a staging file always belongs to a transfer
\* that is still accounted for (DownloadArtifact).
THEOREM NothingIsLeft == Spec => []NothingLeft
<1>1. Typed => NothingLeft
  BY DEF Typed, Stands, Open, NothingLeft
<1> QED BY <1>1, InitTyped, NextTyped, PTL DEF Spec

-----------------------------------------------------------------------------
(* The cache *)

\* The invariant holds at the start: foreign cache entries have their blobs.
LEMMA InitInv == Init => ArtifactInv
<1> SUFFICES ASSUME Init PROVE ArtifactInv
  OBVIOUS
<1>1. CacheSound
  BY DEF Init, CacheSound
<1>2. Recorded
  <2>1. \A j \in Jobs : job[j].placed = <<>>
    BY DEF Init, NewJob
  <2>2. \A j \in Jobs : 1..Len(job[j].placed) = {}
    BY <2>1
  <2> QED BY <2>2 DEF Recorded
<1> QED BY <1>1, <1>2, InitTyped DEF ArtifactInv

\* A blob goes only with the last entry that names it, so that every entry
\* keeps its blob.
LEMMA NextSound ==
  ASSUME Typed, CacheSound, [Next]_vars
  PROVE  CacheSound'
<1>1. ASSUME UNCHANGED <<present, blobs>> PROVE CacheSound'
  BY <1>1 DEF CacheSound
<1>2. ASSUME NEW j \in Jobs, placeDownload(j) PROVE CacheSound'
  BY <1>2, PlaceStep DEF CacheSound
<1>3. ASSUME NEW j \in Jobs, PlaceFails(j) PROVE CacheSound'
  BY <1>3 DEF PlaceFails, CacheSound
<1>4. ASSUME NEW p \in Paths, DeleteArtifact(p) PROVE CacheSound'
  <2>1. /\ present' = present \ {p}
        /\ blobs' = IF p \in Cached THEN removeFromCache(p) ELSE blobs
    BY <1>4 DEF DeleteArtifact
  <2>2. ASSUME NEW q \in present' \cap Cached PROVE Content[q] \in blobs'
    <3>1. q \in present /\ q # p /\ Content[q] \in blobs
      BY <2>1, <2>2 DEF CacheSound
    <3>2. Content[q] = Content[p] => blobReferenced(present \ {p}, Content[p])
      BY <2>2, <3>1 DEF blobReferenced
    <3> QED BY <2>1, <3>1, <3>2 DEF removeFromCache
  <2> QED BY <2>2 DEF CacheSound
<1>5. ASSUME NEW p \in Paths, ImportLocalArtifact(p) PROVE CacheSound'
  <2>1. /\ p \notin Cached /\ UNCHANGED blobs
        /\ present' = present \cup {p} \/ present' = present \ {p}
    BY <1>5 DEF ImportLocalArtifact
  <2> QED BY <2>1 DEF CacheSound
<1>6. ASSUME NEW j \in Jobs, Quiet(j) \/ MarkCompanion(j) \/ Complete(j) PROVE CacheSound'
  <2>1. UNCHANGED <<present, blobs>>
    BY <1>6, QuietStep DEF MarkCompanion, Complete
  <2> QED BY <1>1, <2>1
<1>7. ASSUME Restart \/ UNCHANGED vars \/ \E b \in Budgets : SetMaxBudget(b) PROVE CacheSound'
  BY <1>1, <1>7 DEF Restart, vars, SetMaxBudget, disk
<1> QED BY <1>2, <1>3, <1>4, <1>5, <1>6, <1>7, NextCases

\* Removing one model damages no other: every entry of the cache, also one that
\* another tool made, names a blob that is there (removeFromCache).
THEOREM CacheStaysSound == Spec => []CacheSound
<1>1. Typed /\ CacheSound /\ [Next]_vars => CacheSound'
  BY NextSound
<1>2. Init => CacheSound
  BY InitInv DEF ArtifactInv
<1> QED BY <1>1, <1>2, InitTyped, NextTyped, PTL DEF Spec

\* What a running job has placed comes back without a manifest only if it was
\* there without one.
NoOrphan ==
  \A p \in Paths : p \in present' /\ manifest'[p] = "none"
                     => p \in present /\ manifest[p] = "none"

\* Jobs that place nothing, over manifests that orphan nothing, keep every placed path
\* recorded.
LEMMA RecordedKept ==
  ASSUME Typed, Recorded, NoOrphan,
         \A j \in Jobs : job'[j].placed = job[j].placed \/ job'[j].placed = <<>>
  PROVE  Recorded'
<1> SUFFICES ASSUME NEW j \in Jobs, NEW i \in 1..Len(job'[j].placed),
                    job'[j].placed[i] \in present'
             PROVE  manifest'[job'[j].placed[i]] # "none"
  BY DEF Recorded
<1>1. job'[j].placed = job[j].placed
  <2>1. job'[j].placed # <<>>
    OBVIOUS
  <2> QED BY <2>1
<1>2. job[j].placed \in Seq(Paths) /\ i \in 1..Len(job[j].placed)
  BY <1>1 DEF Typed, JobRecords
<1>3. job[j].placed[i] \in Paths
  BY <1>2
<1>4. job[j].placed[i] \in present => manifest[job[j].placed[i]] # "none"
  BY <1>2 DEF Recorded
<1> QED BY <1>1, <1>3, <1>4 DEF NoOrphan

\* The same when the placed ones are those of job j alone that change.
LEMMA OnePlaced ==
  ASSUME Typed, NEW j \in Jobs, NEW k, Becomes(j, k),
         k.placed = job[j].placed \/ k.placed = <<>>
  PROVE  \A i \in Jobs : job'[i].placed = job[i].placed \/ job'[i].placed = <<>>
BY JobMoved

\* Every step keeps the paths that an unfinished set has placed recorded.
LEMMA NextRecorded ==
  ASSUME Typed, Recorded, [Next]_vars
  PROVE  Recorded'
<1>1. manifest \in [Paths -> {"none", "model", "companion"}]
  BY DEF Typed, DiskTyped
<1>2. ASSUME NEW j \in Jobs, Quiet(j) PROVE Recorded'
  <2>1. NoOrphan
    BY <1>2, QuietStep DEF NoOrphan
  <2> QED BY <1>2, <2>1, QuietStep, OnePlaced, RecordedKept
<1>3. ASSUME NEW j \in Jobs, placeDownload(j) PROVE Recorded'
  <2>1. PICK p \in Paths, k \in JobRecords :
              /\ present' = present \cup {p}
              /\ manifest' = [manifest EXCEPT ![p] = "model"]
              /\ Becomes(j, k) /\ k.placed = Append(job[j].placed, p)
    BY <1>3, PlaceStep
  <2>2. manifest'[p] = "model" /\ \A q \in Paths : q # p => manifest'[q] = manifest[q]
    BY <1>1, <2>1
  <2>3. job'[j].placed = Append(job[j].placed, p) /\ \A i \in Jobs \ {j} : job'[i] = job[i]
    BY <2>1, JobMoved
  <2>4. ASSUME NEW i \in Jobs, NEW n \in 1..Len(job'[i].placed)
        PROVE  \/ job'[i].placed[n] = p
               \/ \E m \in 1..Len(job[i].placed) : job'[i].placed[n] = job[i].placed[m]
    <3>1. CASE i # j
      BY <2>3, <2>4, <3>1
    <3>2. CASE i = j
      <4> DEFINE s == job[j].placed
                 t == Append(s, p)
      <4>1. s \in Seq(Paths)
        BY DEF Typed, JobRecords
      <4>2. /\ Len(t) = Len(s) + 1 /\ Len(s) \in Nat
            /\ \A m \in 1..Len(s) : t[m] = s[m]
            /\ t[Len(s) + 1] = p
        <5> HIDE DEF s
        <5> QED BY <4>1, PlacedFacts
      <4>3. n \in 1..Len(t) /\ job'[i].placed = t /\ job[i].placed = s
        BY <2>3, <2>4, <3>2
      <4> HIDE DEF s, t
      <4> QED BY <4>2, <4>3
    <3> QED BY <3>1, <3>2
  <2>5. ASSUME NEW i \in Jobs, NEW n \in 1..Len(job'[i].placed),
               job'[i].placed[n] \in present'
        PROVE  manifest'[job'[i].placed[n]] # "none"
    <3>1. CASE job'[i].placed[n] = p
      BY <2>2, <3>1
    <3>2. CASE job'[i].placed[n] # p
      <4>1. PICK m \in 1..Len(job[i].placed) : job'[i].placed[n] = job[i].placed[m]
        BY <2>4, <2>5, <3>2
      <4>2. job[i].placed \in Seq(Paths)
        BY DEF Typed, JobRecords
      <4>3. job[i].placed[m] \in Paths
        BY <4>2
      <4>4. job[i].placed[m] \in present => manifest[job[i].placed[m]] # "none"
        BY DEF Recorded
      <4> QED BY <2>1, <2>2, <2>5, <3>2, <4>1, <4>3, <4>4
    <3> QED BY <3>1, <3>2
  <2> QED BY <2>5 DEF Recorded
<1>4. ASSUME NEW j \in Jobs, PlaceFails(j) PROVE Recorded'
  <2>1. NoOrphan
    BY <1>4 DEF NoOrphan, PlaceFails
  <2> QED BY <1>4, <2>1, PlaceFailsStep, OnePlaced, RecordedKept
<1>5. ASSUME NEW j \in Jobs, MarkCompanion(j) PROVE Recorded'
  <2>1. NoOrphan
    BY <1>1, <1>5 DEF NoOrphan, MarkCompanion
  <2> QED BY <1>5, <2>1, MarkStep, OnePlaced, RecordedKept
<1>6. ASSUME NEW j \in Jobs, Complete(j) PROVE Recorded'
  <2>1. NoOrphan
    BY <1>1, <1>6 DEF NoOrphan, Complete
  <2> QED BY <1>6, <2>1, CompleteStep, OnePlaced, RecordedKept
<1>7. ASSUME NEW p \in Paths, DeleteArtifact(p) PROVE Recorded'
  <2>1. NoOrphan /\ UNCHANGED job
    BY <1>1, <1>7 DEF NoOrphan, DeleteArtifact
  <2> QED BY <2>1, RecordedKept
<1>8. ASSUME NEW p \in Paths, ImportLocalArtifact(p) PROVE Recorded'
  <2>1. NoOrphan /\ UNCHANGED job
    BY <1>1, <1>8 DEF NoOrphan, ImportLocalArtifact
  <2> QED BY <2>1, RecordedKept
<1>9. CASE Restart
  <2>1. NoOrphan
    BY <1>9 DEF NoOrphan, Restart, disk
  <2> QED BY <1>9, <2>1, RestartStep, RecordedKept
<1>10. ASSUME UNCHANGED vars \/ \E b \in Budgets : SetMaxBudget(b) PROVE Recorded'
  <2>1. NoOrphan /\ UNCHANGED job
    BY <1>10 DEF NoOrphan, vars, SetMaxBudget, disk
  <2> QED BY <2>1, RecordedKept
<1> QED BY <1>2, <1>3, <1>4, <1>5, <1>6, <1>7, <1>8, <1>9, <1>10, NextCases

\* The inductive step.
LEMMA NextInv == ArtifactInv /\ [Next]_vars => ArtifactInv'
BY NextTyped, NextSound, NextRecorded DEF ArtifactInv

\* The inductive invariant: what a job has reserved and staged in each phase,
\* a sound cache, and that no manifest is brought back without its file.
THEOREM Invariance == Spec => []ArtifactInv
BY InitInv, NextInv, PTL DEF Spec

-----------------------------------------------------------------------------
(* The budget *)

PathSize == [p \in Paths |-> Size[Content[p]]]
Contents(M) == {Content[p] : p \in M \cap Cached}

\* The size of the files M, with content in the cache counted once.
Installed(M) == SumOver(Size, Contents(M)) + SumOver(PathSize, M \ Cached)

\* The blobs that a set of paths refers to are finitely many.
LEMMA ContentsFinite ==
  ASSUME NEW M \in SUBSET Paths
  PROVE  IsFiniteSet(Contents(M)) /\ Contents(M) \subseteq Blobs
<1> DEFINE S == M \cap Cached
           f == [p \in S |-> Content[p]]
<1>1. IsFiniteSet(S)
  BY FS_Subset
<1>2. f \in Surjection(S, Contents(M))
  BY DEF Surjection, Contents
<1>3. IsFiniteSet(Contents(M))
  <2> HIDE DEF S, f
  <2> QED BY <1>1, <1>2, FS_Surjection
<1> QED BY <1>3 DEF Contents

\* What is installed, counted by blob in the cache and by path outside it, is a natural
\* number.
LEMMA InstalledType ==
  ASSUME NEW M \in SUBSET Paths
  PROVE  /\ SumOver(Size, Contents(M)) \in Nat
         /\ SumOver(PathSize, M \ Cached) \in Nat
         /\ Installed(M) \in Nat
<1>1. IsFiniteSet(Contents(M)) /\ \A b \in Contents(M) : Size[b] \in Nat
  BY ContentsFinite
<1>2. IsFiniteSet(M \ Cached) /\ \A p \in M \ Cached : PathSize[p] \in Nat
  BY FS_Subset DEF PathSize
<1>3. SumOver(Size, Contents(M)) \in Nat /\ SumOver(PathSize, M \ Cached) \in Nat
  BY <1>1, <1>2, SumType
<1> QED BY <1>3 DEF Installed

\* Fewer manifests never weigh more, however blobs are shared between them.
LEMMA InstalledShrinks ==
  ASSUME NEW M \in SUBSET Paths, NEW N \in SUBSET M
  PROVE  Installed(N) <= Installed(M)
<1>1. IsFiniteSet(Contents(M)) /\ \A b \in Contents(M) : Size[b] \in Nat
  BY ContentsFinite
<1>2. IsFiniteSet(M \ Cached) /\ \A p \in M \ Cached : PathSize[p] \in Nat
  BY FS_Subset DEF PathSize
<1>3. Contents(N) \in SUBSET Contents(M) /\ N \ Cached \in SUBSET (M \ Cached)
  BY DEF Contents
<1>4. SumOver(Size, Contents(N)) <= SumOver(Size, Contents(M))
  BY <1>1, <1>3, SumSubset
<1>5. SumOver(PathSize, N \ Cached) <= SumOver(PathSize, M \ Cached)
  BY <1>2, <1>3, SumSubset
<1> QED BY <1>4, <1>5, InstalledType DEF Installed

\* One more file adds at most its own size.
LEMMA InstalledGrows ==
  ASSUME NEW M \in SUBSET Paths, NEW p \in Paths
  PROVE  Installed(M \cup {p}) <= Installed(M) + Size[Content[p]]
<1> DEFINE N == M \cup {p}
           cm == SumOver(Size, Contents(M))
           cn == SumOver(Size, Contents(N))
           fm == SumOver(PathSize, M \ Cached)
           fn == SumOver(PathSize, N \ Cached)
           size == Size[Content[p]]
<1>1. cm \in Nat /\ cn \in Nat /\ fm \in Nat /\ fn \in Nat /\ size \in Nat
  <2>1. N \in SUBSET Paths
    OBVIOUS
  <2> HIDE DEF N
  <2> QED BY <2>1, InstalledType
<1>2. CASE p \in Cached
  <2>1. N \ Cached = M \ Cached /\ Contents(N) = Contents(M) \cup {Content[p]}
    BY <1>2 DEF Contents
  <2>2. cn = cm \/ cn = size + cm
    <3>1. CASE Content[p] \in Contents(M)
      <4>1. Contents(N) = Contents(M)
        BY <2>1, <3>1
      <4> QED BY <4>1
    <3>2. CASE Content[p] \notin Contents(M)
      <4> DEFINE C == Contents(N)
      <4>1. C \ {Content[p]} = Contents(M) /\ Content[p] \in C
        BY <2>1, <3>2
      <4>2. IsFiniteSet(C) /\ \A b \in C : Size[b] \in Nat
        BY ContentsFinite
      <4> HIDE DEF C
      <4>3. SumOver(Size, C) = Size[Content[p]] + SumOver(Size, C \ {Content[p]})
        BY <4>1, <4>2, SumWithout
      <4> QED BY <4>1, <4>3 DEF C
    <3> QED BY <3>1, <3>2
  <2>3. fn = fm
    BY <2>1
  <2> HIDE DEF cm, cn, fm, fn, size
  <2>4. cn + fn <= cm + fm + size
    BY <1>1, <2>2, <2>3
  <2> QED BY <2>4 DEF Installed, cm, cn, fm, fn, size
<1>3. CASE p \notin Cached
  <2>1. Contents(N) = Contents(M)
    BY <1>3 DEF Contents
  <2>2. fn = fm \/ fn = size + fm
    <3>1. CASE p \in M
      <4>1. N \ Cached = M \ Cached
        BY <3>1
      <4> QED BY <4>1
    <3>2. CASE p \notin M
      <4> DEFINE T == N \ Cached
      <4>1. T \ {p} = M \ Cached /\ p \in T
        BY <1>3, <3>2
      <4>2. IsFiniteSet(T) /\ \A q \in T : PathSize[q] \in Nat
        BY FS_Subset DEF PathSize
      <4>3. PathSize[p] = size
        BY DEF PathSize
      <4> HIDE DEF T
      <4>4. SumOver(PathSize, T) = PathSize[p] + SumOver(PathSize, T \ {p})
        BY <4>1, <4>2, SumWithout
      <4> QED BY <4>1, <4>3, <4>4 DEF T
    <3> QED BY <3>1, <3>2
  <2>3. cn = cm
    BY <2>1
  <2> HIDE DEF cm, cn, fm, fn, size
  <2>4. cn + fn <= cm + fm + size
    BY <1>1, <2>2, <2>3
  <2> QED BY <2>4 DEF Installed, cm, cn, fm, fn, size
<1> QED BY <1>2, <1>3

\* totalCommitted as sums of functions.
LEMMA FilesSum ==
  /\ MapThenSumSet(LAMBDA b : Size[b], {Content[p] : p \in allManifests \cap Cached})
       = SumOver(Size, Contents(allManifests))
  /\ MapThenSumSet(LAMBDA p : Size[Content[p]], allManifests \ Cached)
       = SumOver(PathSize, allManifests \ Cached)
<1>1. MapThenSumSet(LAMBDA b : Size[b], {Content[p] : p \in allManifests \cap Cached})
       = SumOver(Size, Contents(allManifests))
  BY Zenon DEF MapThenSumSet, MapThenFoldSet, SomeOf, SumOver, SumFun, SumsUp, SumStep, Contents
<1> DEFINE F == allManifests \ Cached
<1>2. ASSUME NEW s \in SUBSET F, s # {}
      PROVE  PathSize[SomeOf(s)] = Size[Content[SomeOf(s)]]
  <2>1. SomeOf(s) \in F
    BY <1>2, SomeMember
  <2> QED BY <2>1 DEF PathSize, allManifests
<1>3. ASSUME NEW it
      PROVE  SumsUp(PathSize, F, it) <=>
             it = [s \in SUBSET F |-> IF s = {} THEN 0
                     ELSE Size[Content[SomeOf(s)]] + it[s \ {SomeOf(s)}]]
  <2> HIDE DEF F
  <2>1. \A s \in SUBSET F : SumStep(PathSize, it, s)
          = IF s = {} THEN 0 ELSE Size[Content[SomeOf(s)]] + it[s \ {SomeOf(s)}]
    BY <1>2 DEF SumStep
  <2> QED BY <2>1, Zenon DEF SumsUp
<1>4. SumFun(PathSize, F) = CHOOSE it :
             it = [s \in SUBSET F |-> IF s = {} THEN 0
                     ELSE Size[Content[SomeOf(s)]] + it[s \ {SomeOf(s)}]]
  <2> HIDE DEF F
  <2> QED BY <1>3, Zenon DEF SumFun
<1>5. MapThenSumSet(LAMBDA p : Size[Content[p]], F) = SumOver(PathSize, F)
  <2> HIDE DEF F
  <2> QED BY <1>4, Zenon DEF MapThenSumSet, MapThenFoldSet, SomeOf, SumOver
<1> QED BY <1>1, <1>5

TotalIs == totalCommitted = Installed(allManifests) + stale + SumOver(Costs, Jobs)

\* The total that is compared with the budget, in the three sums it is made of.
LEMMA Totals == TotalIs
<1>1. installedSize = Installed(allManifests)
  BY FilesSum DEF installedSize, Installed
<1> QED BY <1>1, JobsSum DEF TotalIs, totalCommitted

\* The same after the step.
LEMMA TotalsNext == TotalIs'
BY Totals, PTL

\* One job's weight changes the total by as much.
LEMMA CostsMove ==
  ASSUME Typed, Typed', NEW j \in Jobs, NEW k, Becomes(j, k)
  PROVE  SumOver(Costs', Jobs) + Cost(job[j]) = SumOver(Costs, Jobs) + Cost(k)
<1> DEFINE a == Costs'
<1>1. a = [i \in Jobs |-> Cost(job'[i])]
  BY Zenon DEF Costs, Cost
<1>2. \A i \in Jobs : Cost(job[i]) \in Nat /\ Cost(job'[i]) \in Nat
  BY CostFacts DEF Typed
<1>3. job'[j] = k /\ \A i \in Jobs \ {j} : job'[i] = job[i]
  BY JobMoved
<1>4. Costs[j] = Cost(job[j]) /\ a[j] = Cost(k)
  BY <1>1, <1>3 DEF Costs
<1>5. \A i \in Jobs : a[i] \in Nat /\ Costs[i] \in Nat
  BY <1>1, <1>2 DEF Costs
<1>6. \A i \in Jobs \ {j} : a[i] = Costs[i]
  BY <1>1, <1>3 DEF Costs
<1> HIDE DEF a
<1>7. SumOver(a, Jobs) + Costs[j] = SumOver(Costs, Jobs) + a[j]
  <2> DEFINE b == Costs
  <2>1. \A i \in Jobs : a[i] \in Nat /\ b[i] \in Nat
    BY <1>5
  <2>2. \A i \in Jobs \ {j} : a[i] = b[i]
    BY <1>6
  <2> HIDE DEF b
  <2>3. SumOver(a, Jobs) + b[j] = SumOver(b, Jobs) + a[j]
    BY <2>1, <2>2, SumChange
  <2> QED BY <2>3 DEF b
<1> QED BY <1>4, <1>7 DEF a

\* The three parts of the total are natural numbers.
LEMMA SumTypes ==
  ASSUME Typed
  PROVE  /\ SumOver(Costs, Jobs) \in Nat /\ stale \in Nat
         /\ Installed(allManifests) \in Nat /\ allManifests \in SUBSET Paths
         /\ budget \in Nat
<1>1. \A i \in Jobs : Costs[i] \in Nat
  BY CostFacts DEF Typed, Costs
<1>2. allManifests \in SUBSET Paths
  BY DEF allManifests
<1>3. stale \in Nat /\ budget \in Nat
  BY DEF Typed, DiskTyped
<1> QED BY <1>1, <1>2, <1>3, SumType, InstalledType

TypedSums ==
  /\ SumOver(Costs, Jobs) \in Nat /\ stale \in Nat
  /\ Installed(allManifests) \in Nat /\ allManifests \in SUBSET Paths
  /\ budget \in Nat

\* The same before and after a step.
LEMMA SumTypesNext == Typed /\ [Next]_vars => TypedSums /\ TypedSums'
<1>1. Typed => TypedSums
  BY SumTypes DEF TypedSums
<1> QED BY <1>1, NextTyped, PTL

\* What a step may do to the files with a manifest: a placement or an import
\* adds its own path, and nothing else adds one.
LEMMA ManifestsPlaced ==
  ASSUME ArtifactInv, NEW p \in Paths,
         present' = present \cup {p},
         blobs' = blobs \cup (IF p \in Cached THEN {Content[p]} ELSE {}) \/ UNCHANGED blobs,
         manifest' = [manifest EXCEPT ![p] = "model"]
  PROVE  allManifests' \subseteq allManifests \cup {p}
<1>1. manifest \in [Paths -> {"none", "model", "companion"}] /\ CacheSound
  BY DEF ArtifactInv, Typed, DiskTyped
<1>2. ASSUME NEW q \in Paths, q # p, manifest'[q] # "none", Weights(q)'
      PROVE  q \in allManifests
  <2>1. manifest[q] # "none" /\ q \in present
    BY <1>1, <1>2 DEF Weights
  <2>2. q \in Cached => Content[q] \in blobs
    BY <1>1, <2>1 DEF CacheSound
  <2> QED BY <2>1, <2>2 DEF allManifests, Weights
<1> QED BY <1>2 DEF allManifests

\* When a step only rewrites manifests of paths that were recorded or are not on disk, no
\* manifest is counted that was not counted before.
LEMMA ManifestsShrink ==
  ASSUME ArtifactInv, present' \subseteq present, NEW S \in SUBSET Paths,
         \A q \in Paths : manifest'[q] # "none" => manifest[q] # "none" \/ q \in S,
         \A q \in S : q \in present => manifest[q] # "none"
  PROVE  allManifests' \subseteq allManifests
<1>1. ASSUME NEW q \in Paths, manifest'[q] # "none", Weights(q)' PROVE q \in allManifests
  <2>1. q \in present
    BY <1>1 DEF Weights
  <2>2. manifest[q] # "none"
    BY <1>1, <2>1
  <2>3. q \in Cached => Content[q] \in blobs
    BY <2>1 DEF ArtifactInv, CacheSound
  <2> QED BY <2>1, <2>2, <2>3 DEF allManifests, Weights
<1> QED BY <1>1 DEF allManifests

\* When a step writes no manifest, no manifest is counted that was not counted before.
LEMMA ManifestsFewer ==
  ASSUME ArtifactInv, present' \subseteq present,
         \A q \in Paths : manifest'[q] # "none" => manifest[q] # "none"
  PROVE  allManifests' \subseteq allManifests
<1> DEFINE S == {}
<1>1. S \in SUBSET Paths /\ \A q \in S : q \in present => manifest[q] # "none"
  OBVIOUS
<1> HIDE DEF S
<1> QED BY <1>1, ManifestsShrink

\* A job writes only into manifests of what it has placed.
LEMMA PlacedPath ==
  ASSUME ArtifactInv, NEW j \in Jobs, At(j, "placed") \/ At(j, "record"),
         NEW i \in {1, Len(job[j].placed)}
  PROVE  /\ job[j].placed[i] \in Paths
         /\ job[j].placed[i] \in present => manifest[job[j].placed[i]] # "none"
<1>1. job[j].placed \in Seq(Paths) /\ job[j].placed # <<>>
  BY DEF ArtifactInv, Typed, JobRecords, Stands, At
<1>2. Len(job[j].placed) \in Nat \ {0}
  BY <1>1, EmptySeq
<1>3. i \in 1..Len(job[j].placed)
  BY <1>2
<1> QED BY <1>1, <1>3 DEF ArtifactInv, Recorded

\* Nothing that weighs on the budget grows without having been checked.
LEMMA BudgetStep ==
  ASSUME ArtifactInv, [Next]_vars, totalCommitted' > totalCommitted
  PROVE  totalCommitted' <= budget'
<1> DEFINE M == allManifests
           N == allManifests'
           c == SumOver(Costs, Jobs)
           d == SumOver(Costs', Jobs)
<1>1. Typed /\ Typed'
  BY NextTyped DEF ArtifactInv
<1>2. /\ c \in Nat /\ d \in Nat /\ stale \in Nat /\ stale' \in Nat /\ budget \in Nat
      /\ Installed(M) \in Nat /\ Installed(N) \in Nat
      /\ M \in SUBSET Paths /\ N \in SUBSET Paths
  BY <1>1, SumTypesNext DEF TypedSums
<1>3. /\ totalCommitted = Installed(M) + stale + c
      /\ totalCommitted' = Installed(N) + stale' + d
  BY Totals, TotalsNext DEF TotalIs
<1>4. N \subseteq M => Installed(N) <= Installed(M)
  <2> HIDE DEF M, N
  <2> QED BY <1>2, InstalledShrinks
<1>5. ASSUME NEW p \in Paths, N \subseteq M \cup {p}
      PROVE  Installed(N) <= Installed(M) + Size[Content[p]]
  <2> HIDE DEF M, N
  <2>1. Installed(N) <= Installed(M \cup {p}) /\ Installed(M \cup {p}) \in Nat
    BY <1>2, <1>5, InstalledShrinks, InstalledType
  <2>2. Installed(M \cup {p}) <= Installed(M) + Size[Content[p]]
    BY <1>2, InstalledGrows
  <2>3. Size[Content[p]] \in Nat
    OBVIOUS
  <2> QED BY <1>2, <2>1, <2>2, <2>3
<1>6. UNCHANGED job => d = c
  BY DEF Costs
<1> HIDE DEF M, N, c, d
<1>7. \A j \in Jobs : /\ job[j] \in JobRecords /\ Stands(job[j])
                      /\ Cost(job[j]) \in Nat
  BY <1>1, CostFacts DEF Typed
<1>8. ASSUME NEW j \in Jobs, NEW k, Becomes(j, k)
      PROVE  d + Cost(job[j]) = c + Cost(k) /\ Cost(k) \in Nat
  BY <1>1, <1>8, CostsMove, CostFacts DEF Becomes, c, d
<1>9. ASSUME UNCHANGED <<present, blobs, manifest>> PROVE N = M
  BY <1>9 DEF M, N, allManifests, Weights
<1>10. ASSUME N \subseteq M, stale' = stale, d <= c PROVE FALSE
  BY <1>2, <1>3, <1>4, <1>10
<1>11. ASSUME NEW j \in Jobs, Quiet(j) PROVE totalCommitted' <= budget'
  <2>1. PICK k : /\ Becomes(j, k)
                 /\ \/ Cost(k) <= Cost(job[j])
                    \/ totalCommitted + (Cost(k) - Cost(job[j])) <= budget
    BY <1>1, <1>11, QuietStep
  <2>2. UNCHANGED <<present, blobs, manifest, budget, stale>>
    BY <1>1, <1>11, QuietStep
  <2>3. d + Cost(job[j]) = c + Cost(k) /\ Cost(k) \in Nat /\ Cost(job[j]) \in Nat
    BY <1>7, <1>8, <2>1
  <2>4. N = M /\ stale' = stale /\ budget' = budget
    BY <1>9, <2>2
  <2>5. totalCommitted' = totalCommitted + (Cost(k) - Cost(job[j]))
    <3>1. Installed(N) = Installed(M) /\ stale' = stale
      BY <2>4
    <3> DEFINE y == Cost(job[j])
               z == Cost(k)
    <3>2. d + y = c + z /\ y \in Nat /\ z \in Nat
      BY <2>3
    <3> HIDE DEF y, z
    <3>3. d = c + (z - y)
      BY <1>2, <3>2
    <3> QED BY <1>2, <1>3, <3>1, <3>2, <3>3 DEF y, z
  <2>6. ~(Cost(k) <= Cost(job[j]))
    BY <1>2, <1>10, <2>3, <2>4
  <2> QED BY <2>1, <2>4, <2>5, <2>6
<1>12. ASSUME NEW j \in Jobs, placeDownload(j) PROVE FALSE
  <2>1. PICK p \in Paths, k \in JobRecords :
              /\ job[j].staged = Size[Content[p]]
              /\ present' = present \cup {p}
              /\ blobs' = blobs \cup IF p \in Cached THEN {Content[p]} ELSE {}
              /\ manifest' = [manifest EXCEPT ![p] = "model"]
              /\ Becomes(j, k) /\ ~k.active
    BY <1>1, <1>12, PlaceStep
  <2>2. Installed(N) <= Installed(M) + Size[Content[p]]
    <3>1. N \subseteq M \cup {p}
      BY <2>1, ManifestsPlaced DEF M, N
    <3> QED BY <1>5, <3>1
  <2>3. Cost(k) = 0
    BY <2>1, CostFacts DEF Becomes
  <2>4. Cost(job[j]) >= Size[Content[p]] /\ Size[Content[p]] \in Nat
    <3>1. job[j].active /\ job[j].reservation \in Nat /\ job[j].staged \in Nat
      BY <1>1, <1>7, <1>12, PlaceStep DEF JobRecords
    <3>2. Cost(job[j]) = IF job[j].staged >= job[j].reservation
                         THEN job[j].staged ELSE job[j].reservation
      BY <1>7, <3>1, CostFacts
    <3> QED BY <2>1, <3>1, <3>2
  <2>5. d + Cost(job[j]) = c + 0 /\ Cost(job[j]) \in Nat
    BY <1>7, <1>8, <2>1, <2>3
  <2>6. stale' = stale
    BY <1>12 DEF placeDownload
  <2> QED BY <1>2, <1>3, <2>2, <2>4, <2>5, <2>6
<1>13. ASSUME NEW j \in Jobs, PlaceFails(j) PROVE FALSE
  <2>1. N \subseteq M
    <3>1. present' \subseteq present /\ UNCHANGED manifest
      BY <1>13 DEF PlaceFails
    <3> QED BY <3>1, ManifestsFewer DEF M, N
  <2>2. PICK k : Becomes(j, k) /\ Cost(k) = Cost(job[j])
    BY <1>1, <1>13, PlaceFailsStep
  <2>3. d <= c
    BY <1>2, <1>7, <1>8, <2>2
  <2>4. stale' = stale
    BY <1>13 DEF PlaceFails
  <2> QED BY <1>10, <2>1, <2>3, <2>4
<1>14. ASSUME NEW j \in Jobs, MarkCompanion(j) \/ Complete(j) PROVE FALSE
  <2>1. At(j, "placed") \/ At(j, "record")
    BY <1>14 DEF MarkCompanion, Complete
  <2> DEFINE S == {job[j].placed[i] : i \in {1, Len(job[j].placed)}}
  <2>2. S \in SUBSET Paths /\ \A q \in S : q \in present => manifest[q] # "none"
    BY <2>1, PlacedPath
  <2>3. /\ UNCHANGED <<present, blobs, stale>>
        /\ \A q \in Paths : manifest'[q] # "none" => manifest[q] # "none" \/ q \in S
    BY <1>1, <1>14 DEF MarkCompanion, Complete, Typed, DiskTyped
  <2>4. N \subseteq M
    <3> HIDE DEF S
    <3> QED BY <2>2, <2>3, ManifestsShrink DEF M, N
  <2>5. PICK k : Becomes(j, k) /\ ~k.active
    BY <1>1, <1>14, MarkStep, CompleteStep
  <2>6. Cost(k) = 0
    BY <2>5, CostFacts DEF Becomes
  <2>7. d <= c
    BY <1>2, <1>7, <1>8, <2>5, <2>6
  <2> QED BY <1>10, <2>3, <2>4, <2>7
<1>15. ASSUME UNCHANGED vars \/ \E b \in Budgets : SetMaxBudget(b) PROVE FALSE
  <2>1. UNCHANGED <<present, blobs, manifest, job, stale>>
    BY <1>15 DEF vars, SetMaxBudget, disk
  <2> QED BY <1>2, <1>6, <1>9, <1>10, <2>1
<1>16. ASSUME NEW p \in Paths, DeleteArtifact(p) PROVE FALSE
  <2>1. /\ present' \subseteq present /\ UNCHANGED <<job, stale>>
        /\ \A q \in Paths : manifest'[q] # "none" => manifest[q] # "none"
    BY <1>1, <1>16 DEF DeleteArtifact, Typed, DiskTyped
  <2>2. N \subseteq M
    BY <2>1, ManifestsFewer DEF M, N
  <2> QED BY <1>2, <1>6, <1>10, <2>1, <2>2
<1>17. ASSUME NEW p \in Paths, ImportLocalArtifact(p) PROVE totalCommitted' <= budget'
  <2>1. /\ totalCommitted + Size[Content[p]] <= budget
        /\ UNCHANGED <<blobs, budget, job, stale>>
        /\ \/ present' = present \cup {p} /\ manifest' = [manifest EXCEPT ![p] = "model"]
           \/ present' = present \ {p} /\ UNCHANGED manifest
    BY <1>17 DEF ImportLocalArtifact
  <2>2. CASE present' = present \cup {p} /\ manifest' = [manifest EXCEPT ![p] = "model"]
    <3>1. N \subseteq M \cup {p}
      BY <2>1, <2>2, ManifestsPlaced DEF M, N
    <3>2. Installed(N) <= Installed(M) + Size[Content[p]] /\ Size[Content[p]] \in Nat
      BY <1>5, <3>1
    <3> QED BY <1>2, <1>3, <1>6, <2>1, <3>2
  <2>3. CASE present' = present \ {p} /\ UNCHANGED manifest
    <3>1. N \subseteq M
      BY <2>3, ManifestsFewer DEF M, N
    <3> QED BY <1>2, <1>6, <1>10, <2>1, <3>1
  <2> QED BY <2>1, <2>2, <2>3
<1>18. ASSUME Restart PROVE FALSE
  <2> DEFINE l == SumOver(Left, Jobs)
             a == Costs'
  <2>1. /\ UNCHANGED <<present, blobs, manifest>> /\ stale' = stale + l
    BY <1>18, JobsSum DEF Restart, disk
  <2>2. a = [i \in Jobs |-> Cost(job'[i])]
    BY Zenon DEF Costs, Cost
  <2>3. \A i \in Jobs : Cost(job'[i]) = 0
    BY <1>1, <1>18, RestartStep, CostFacts
  <2>4. \A i \in Jobs : Left[i] \in Nat /\ Costs[i] \in Nat /\ Left[i] <= Costs[i]
    BY <1>7, CostFacts DEF Left, Costs
  <2> HIDE DEF a
  <2>5. \A i \in Jobs : a[i] = 0
    BY <2>2, <2>3
  <2>6. \A i \in Jobs : /\ Left[i] \in Nat /\ a[i] \in Nat /\ Costs[i] \in Nat
                        /\ Left[i] + a[i] <= Costs[i]
    BY <2>4, <2>5
  <2>7. l + SumOver(a, Jobs) <= SumOver(Costs, Jobs)
    BY <2>6, SumPlus
  <2>8. l \in Nat
    BY <2>6, SumType
  <2>9. l + d <= c
    BY <2>7 DEF a, c, d
  <2>10. N = M
    BY <1>9, <2>1
  <2> HIDE DEF l
  <2> QED BY <1>2, <1>3, <2>1, <2>8, <2>9, <2>10
<1> QED BY <1>11, <1>12, <1>13, <1>14, <1>15, <1>16, <1>17, <1>18, NextCases

\* Whatever transfers run side by side, with or without an announced size, and
\* whatever is deleted, imported or re-budgeted meanwhile: what is installed,
\* staged and promised never grows beyond the budget in force (startTransfer,
\* chargeTransfer, ImportLocalArtifact).
THEOREM BudgetKept == Spec => BudgetRespected
<1>1. ArtifactInv /\ [Next]_vars
        => [totalCommitted' > totalCommitted => totalCommitted' <= budget']_vars
  BY BudgetStep
<1> QED BY <1>1, Invariance, PTL DEF Spec, BudgetRespected
=============================================================================
