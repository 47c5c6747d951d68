--------------------------- MODULE JobListProofs ---------------------------
(***************************************************************************)
(* Proofs about JobList, for any finite number of handles: the lists stay  *)
(* whole as long as the handler keeps out of the Window, and fg and bg     *)
(* take their own job whatever the handler does.                           *)
(*                                                                         *)
(* In order: what Path computes; a list as a set whose members rank above  *)
(* one another, and the operations on it; the invariant of the lists; the  *)
(* invariant of the job that is taken.                                     *)
(***************************************************************************)
EXTENDS JobList, FiniteSetTheorems, WellFoundedInduction, TLAPS

\* Whoever is reached from head is in S, everything in S has one predecessor,
\* and no way leads back.
Linked(c, head, S) ==
  /\ S \subseteq Handles
  /\ \A a \in S \cup {head} : c[a] \in S \cup {NULL}
  /\ \A a, b \in S \cup {head} : c[a] = c[b] /\ c[a] # NULL => a = b
  /\ \A h \in S : \E a \in S \cup {head} : c[a] = h
  /\ \E rank \in [Addresses -> Nat] :
        \A a \in S \cup {head} : c[a] # NULL => rank[a] < rank[c[a]]

Walking == {"while", "if", "next", "tmp", "load", "store"}
Adding == {"add", "step", "put"}

(* The lists, as long as the handler kept out of the Window.               *)
Whole ==
  /\ Linked(cell, current_job, Current) /\ Linked(cell, pending_removed_jobs, Done)
  /\ Done \subseteq done
  /\ Current \cap Done = {}
  /\ InHand \cap (Current \cup Done) = {}
  /\ Current \cup Done \cup InHand = {h \in Handles : mem[h] = "live"}
  /\ \A h \in Handles : mem[h] = "unused" => cell[h] = NULL

(* Where the main thread is in them.                                       *)
Placed ==
  /\ pc \in Walking => ptr \in Current \cup Done \cup {current_job, pending_removed_jobs}
  /\ pc \in {"load", "store"} => tmp = cell[ptr]
  /\ pc = "store" => tmp # NULL /\ val = cell[tmp]
  /\ pc \in {"free"} \cup Adding => cell[tmp] = NULL
  /\ pc \in Adding => ptr \in Current \cup {current_job}
  /\ pc = "put" => cell[ptr] = NULL

Typed ==
  /\ TypeOK
  /\ pc \in Walking \cup Adding => ptr \in Addresses
  /\ pc \in {"clear", "free"} \cup Adding => tmp \in Handles \cup {NULL}
  /\ done \subseteq Handles /\ torn \in BOOLEAN

ListInv == Typed /\ (~torn /\ pc # "crashed" => Whole /\ Placed)

(* What fg and bg take.  A set that is closed under next keeps what the    *)
(* handler moved: the list of jobs done is empty at the prompt.            *)
Closed(D) ==
  /\ cell[pending_removed_jobs] \in D \cup {NULL}
  /\ \A a \in D : cell[a] \in D \cup {NULL}

Seeking == pc \in {"line", "look"} \/ (op = "take" /\ pc \in Walking \ {"load", "store"})

\* What get_job_handle found is still behind ptr, or it or ptr was moved.
Shelter(D) ==
  /\ Closed(D)
  /\ op = "take" /\ pc = "tmp" => cell[ptr] = handle \/ handle \in done \/ ptr \in D

TakeInv ==
  /\ op = "take" /\ pc \in Walking => ptr # pending_removed_jobs
  /\ op = "prompt" /\ pc \in Walking => ptr = pending_removed_jobs /\ pc # "next"
  /\ Seeking => \E D \in SUBSET done : Shelter(D)
  /\ op = "take" /\ pc \in {"load", "store", "clear"} =>
       tmp = handle \/ handle \in done \/ tmp \in done \cup {NULL}

K == Cardinality(Handles)

LEMMA KNat == K \in Nat
BY HandlesAssumption, FS_CardinalityType DEF K

-----------------------------------------------------------------------------
(* Counting, without an operator for what is counted.                      *)
LEMMA LeastNat ==
  ASSUME NEW S \in SUBSET Nat, S # {}
  PROVE  \E x \in S : \A y \in S : x <= y
<1> DEFINE R == OpToRel(<, Nat)
<1>1. \A x, y \in Nat : x < y => <<x, y>> \in R
  BY DEF OpToRel
<1>2. \E x \in S : \A y \in S : ~ (<<y, x>> \in R)
  BY NatLessThanWellFounded, WFMin
<1> HIDE DEF R
<1>3. ASSUME NEW x \in S, NEW y \in S, ~(<<y, x>> \in R) PROVE x <= y
  <2>1. x \in Nat /\ y \in Nat
    OBVIOUS
  <2> QED BY <2>1, <1>1, <1>3
<1> QED BY <1>2, <1>3

LEMMA UpTo ==
  ASSUME NEW n \in Nat, NEW G, 0 \in G, \A k \in 1..n : k - 1 \in G => k \in G
  PROVE  \A k \in 0..n : k \in G
<1> DEFINE B == {k \in 0..n : k \notin G}
<1> SUFFICES ASSUME B # {} PROVE FALSE
  OBVIOUS
<1>1. B \in SUBSET Nat
  OBVIOUS
<1>2. PICK k \in B : \A y \in B : k <= y
  BY <1>1, LeastNat
<1>3. k \in 1..n
  BY <1>2
<1>4. k - 1 \in 0..n /\ k - 1 \notin B
  BY <1>2, <1>3
<1> QED BY <1>2, <1>3, <1>4

-----------------------------------------------------------------------------
(* What Path computes.                                                     *)
Follow(c, a) == IF a = NULL THEN NULL ELSE c[a]

Steps(f, c, head, n) == f[0] = head /\ \A k \in 1..n : f[k] = Follow(c, f[k - 1])

Stage(p, c, head) ==
  [n \in 0..K + 1 |-> IF n = 0 THEN head ELSE IF p[n - 1] = NULL THEN NULL ELSE c[p[n - 1]]]

LEMMA StepsExist == ASSUME NEW c, NEW head PROVE \E f : Steps(f, c, head, K + 1)
<1> DEFINE G == {n \in 0..K + 1 : \E f : Steps(f, c, head, n)}
<1>1. 0 \in G
  <2>1. Steps([k \in {0} |-> head], c, head, 0)
    BY DEF Steps
  <2> QED BY <2>1, KNat
<1>2. ASSUME NEW n \in 1..K + 1, n - 1 \in G PROVE n \in G
  <2>1. PICK f : Steps(f, c, head, n - 1)
    BY <1>2
  <2> DEFINE g == [k \in 0..n |-> IF k = n THEN Follow(c, f[n - 1]) ELSE f[k]]
  <2>2. n \in Nat /\ n >= 1
    BY KNat
  <2>3. /\ \A k \in 0..n - 1 : g[k] = f[k]
        /\ g[n] = Follow(c, f[n - 1])
    BY <2>2
  <2> HIDE DEF g
  <2>4. g[0] = head
    BY <2>1, <2>2, <2>3 DEF Steps
  <2>5. ASSUME NEW k \in 1..n PROVE g[k] = Follow(c, g[k - 1])
    <3>1. k - 1 \in 0..n - 1 /\ g[k - 1] = f[k - 1]
      BY <2>2, <2>3
    <3>2. CASE k = n
      BY <3>1, <3>2, <2>3
    <3>3. CASE k # n
      <4>1. k \in 1..n - 1 /\ k \in 0..n - 1
        BY <2>2, <3>3
      <4> QED BY <2>1, <2>3, <3>1, <4>1 DEF Steps
    <3> QED BY <3>2, <3>3
  <2>6. Steps(g, c, head, n)
    BY <2>4, <2>5 DEF Steps
  <2> QED BY <2>2, <2>6, KNat
<1>3. \A k \in 0..K + 1 : k \in G
  <2> HIDE DEF G
  <2>1. K + 1 \in Nat
    BY KNat
  <2> QED BY <1>1, <1>2, <2>1, UpTo
<1>4. K + 1 \in 0..K + 1
  BY KNat
<1> QED BY <1>3, <1>4

LEMMA PathIs == ASSUME NEW c, NEW head PROVE Steps(Path(c, head), c, head, K + 1)
<1> DEFINE p == CHOOSE p : p = Stage(p, c, head)
<1>1. Path(c, head) = p
  BY DEF Path, Stage, K
<1>2. PICK f : Steps(f, c, head, K + 1)
  BY StepsExist
<1>3. \E q : q = Stage(q, c, head)
  <2> DEFINE v == [n \in 0..K + 1 |-> f[n]]
  <2>1. ASSUME NEW n \in 0..K + 1
        PROVE  f[n] = IF n = 0 THEN head ELSE IF v[n - 1] = NULL THEN NULL ELSE c[v[n - 1]]
    <3>1. CASE n = 0
      BY <1>2, <3>1 DEF Steps
    <3>2. CASE n # 0
      <4>1. n \in 1..K + 1 /\ n - 1 \in 0..K + 1
        BY <3>2, KNat
      <4>2. v[n - 1] = f[n - 1]
        BY <4>1
      <4>3. f[n] = Follow(c, f[n - 1])
        BY <1>2, <4>1 DEF Steps
      <4> QED BY <3>2, <4>2, <4>3 DEF Follow
    <3> QED BY <3>1, <3>2
  <2>2. v = [n \in 0..K + 1 |-> f[n]]
    OBVIOUS
  <2> HIDE DEF v
  <2>3. v = Stage(v, c, head)
    BY <2>1, <2>2 DEF Stage
  <2> QED BY <2>3
<1>4. p = Stage(p, c, head)
  BY <1>3
<1> HIDE DEF p
<1>5. 0 \in 0..K + 1
  BY KNat
<1>6. p[0] = head
  BY <1>4, <1>5 DEF Stage
<1>7. ASSUME NEW n \in 1..K + 1 PROVE p[n] = Follow(c, p[n - 1])
  <2>1. n \in 0..K + 1 /\ n # 0
    BY KNat
  <2> QED BY <1>4, <2>1 DEF Stage, Follow
<1> QED BY <1>1, <1>6, <1>7 DEF Steps

LEMMA InListIs ==
  ASSUME NEW c, NEW head
  PROVE  /\ InList(c, head) = {Path(c, head)[n] : n \in 1..K} \ {NULL}
         /\ Ends(c, head) <=> Path(c, head)[K + 1] = NULL
BY DEF InList, Ends, K

\* Somebody in a list comes before each of its members.
LEMMA Before ==
  ASSUME NEW c, NEW head, head # NULL, NEW h \in InList(c, head)
  PROVE  h # NULL /\ \E a \in InList(c, head) \cup {head} : a # NULL /\ c[a] = h
<1> DEFINE p == Path(c, head)
<1>1. Steps(p, c, head, K + 1)
  BY PathIs
<1>2. InList(c, head) = {p[n] : n \in 1..K} \ {NULL}
  BY InListIs
<1> HIDE DEF p
<1>3. PICK n \in 1..K : p[n] = h /\ h # NULL
  BY <1>2
<1>4. n \in 1..K + 1 /\ n - 1 \in 0..K /\ (n - 1 = 0 \/ n - 1 \in 1..K)
  BY KNat
<1>5. p[n - 1] # NULL /\ c[p[n - 1]] = h
  BY <1>1, <1>3, <1>4 DEF Steps, Follow
<1>6. p[n - 1] \in InList(c, head) \cup {head}
  BY <1>1, <1>2, <1>4, <1>5 DEF Steps
<1> QED BY <1>3, <1>5, <1>6

\* A list that ends has an end.
LEMMA EndIn ==
  ASSUME NEW c, NEW head, head # NULL, Ends(c, head)
  PROVE  \E a \in InList(c, head) \cup {head} : a # NULL /\ c[a] = NULL
<1> DEFINE p == Path(c, head)
           Z == {n \in 0..K + 1 : p[n] = NULL}
<1>1. Steps(p, c, head, K + 1) /\ p[K + 1] = NULL
  BY PathIs, InListIs
<1>2. InList(c, head) = {p[n] : n \in 1..K} \ {NULL}
  BY InListIs
<1> HIDE DEF p
<1>3. Z \in SUBSET Nat /\ Z # {}
  <2>1. K + 1 \in 0..K + 1
    BY KNat
  <2> QED BY <1>1, <2>1
<1>4. PICK n \in Z : \A k \in Z : n <= k
  BY <1>3, LeastNat
<1>5. n \in 1..K + 1 /\ n - 1 \in 0..K /\ (n - 1 = 0 \/ n - 1 \in 1..K)
  <2>1. n # 0
    BY <1>1, <1>4 DEF Steps
  <2> QED BY <1>4, <2>1, KNat
<1>6. p[n - 1] # NULL
  <2>1. n - 1 \in 0..K + 1 /\ n - 1 < n
    BY <1>5, KNat
  <2>2. n - 1 \notin Z
    BY <1>4, <1>5, <2>1, KNat
  <2> QED BY <2>1, <2>2
<1>7. c[p[n - 1]] = NULL
  BY <1>1, <1>4, <1>5, <1>6 DEF Steps, Follow
<1>8. p[n - 1] \in InList(c, head) \cup {head}
  BY <1>1, <1>2, <1>5, <1>6 DEF Steps
<1> QED BY <1>6, <1>7, <1>8

\* What next does not lead out of holds the whole list.
LEMMA StaysIn ==
  ASSUME NEW c, NEW head, NEW S,
         c[head] \in S \cup {NULL}, \A a \in S : c[a] \in S \cup {NULL}
  PROVE  InList(c, head) \subseteq S
<1> DEFINE p == Path(c, head)
           G == {n \in 0..K : p[n] \in S \cup {NULL, head}}
<1>1. Steps(p, c, head, K + 1)
  BY PathIs
<1>2. InList(c, head) = {p[n] : n \in 1..K} \ {NULL}
  BY InListIs
<1> HIDE DEF p
<1>3. 0 \in G
  BY <1>1, KNat DEF Steps
<1>4. ASSUME NEW n \in 1..K, n - 1 \in G PROVE p[n] \in S \cup {NULL} /\ n \in G
  <2>1. n \in 1..K + 1 /\ n \in 0..K
    BY KNat
  <2>2. p[n] = Follow(c, p[n - 1]) /\ p[n - 1] \in S \cup {NULL, head}
    BY <1>1, <1>4, <2>1 DEF Steps
  <2>3. p[n] \in S \cup {NULL}
    BY <2>2 DEF Follow
  <2> QED BY <2>1, <2>3
<1>5. \A n \in 0..K : n \in G
  <2> HIDE DEF G
  <2> QED BY <1>3, <1>4, KNat, UpTo
<1>6. \A n \in 1..K : p[n] \in S \cup {NULL}
  <2> SUFFICES ASSUME NEW n \in 1..K PROVE p[n] \in S \cup {NULL}
    OBVIOUS
  <2>1. n - 1 \in 0..K
    BY KNat
  <2>2. n - 1 \in G
    BY <1>5, <2>1
  <2> QED BY <1>4, <2>2
<1> QED BY <1>2, <1>6

-----------------------------------------------------------------------------
(* Lists as sets with ranks.                                               *)
Heads == {current_job, pending_removed_jobs}

LEMMA HeadsApart ==
  ASSUME NEW head \in Heads
  PROVE  head \in Addresses /\ head \notin Handles /\ head # NULL
BY HandlesAssumption DEF Heads, Addresses

LEMMA Interval == ASSUME NEW n \in Nat PROVE IsFiniteSet(1..n) /\ Cardinality(1..n) = n
<1>1. 1 \in Int /\ n \in Int
  OBVIOUS
<1>2. Cardinality(1..n) = IF 1 > n THEN 0 ELSE n - 1 + 1
  BY <1>1, FS_Interval
<1> QED BY <1>1, <1>2, FS_Interval

\* Path goes through the members of the list by rank, and then stops: it has
\* no handles left.
LEMMA LinkedIs ==
  ASSUME NEW c, NEW head \in Heads, NEW S, Linked(c, head, S)
  PROVE  InList(c, head) = S /\ Ends(c, head)
<1> DEFINE p == Path(c, head)
<1>1. Steps(p, c, head, K + 1)
  BY PathIs
<1>2. InList(c, head) = {p[n] : n \in 1..K} \ {NULL} /\ (Ends(c, head) <=> p[K + 1] = NULL)
  BY InListIs
<1>3. InList(c, head) \subseteq S
  BY StaysIn DEF Linked
<1>4. /\ S \subseteq Handles /\ head \notin S /\ head # NULL /\ NULL \notin S
      /\ S \cup {head} \subseteq Addresses
  BY HeadsApart, HandlesAssumption DEF Linked, Addresses
<1>5. PICK rank \in [Addresses -> Nat] :
         \A a \in S \cup {head} : c[a] # NULL => rank[a] < rank[c[a]]
  BY DEF Linked
<1> HIDE DEF p
<1>6. \A n \in 0..K + 1 :
         /\ p[n] \in S \cup {head, NULL}
         /\ p[n] # NULL => \A i \in 0..n - 1 : p[i] # NULL /\ rank[p[i]] < rank[p[n]]
         /\ n # 0 => p[n] # head
  <2> DEFINE G == {n \in 0..K + 1 :
                     /\ p[n] \in S \cup {head, NULL}
                     /\ p[n] # NULL => \A i \in 0..n - 1 : p[i] # NULL /\ rank[p[i]] < rank[p[n]]
                     /\ n # 0 => p[n] # head}
  <2>1. 0 \in G
    <3>1. p[0] = head /\ 0..0 - 1 = {} /\ 0 \in 0..K + 1
      BY <1>1, KNat DEF Steps
    <3> QED BY <3>1
  <2>2. ASSUME NEW n \in 1..K + 1, n - 1 \in G PROVE n \in G
    <3>1. p[n] = Follow(c, p[n - 1]) /\ n \in 0..K + 1
      BY <1>1, KNat DEF Steps
    <3>2. p[n - 1] \in S \cup {head, NULL}
      BY <2>2
    <3>3. CASE p[n - 1] = NULL
      <4>1. p[n] = NULL
        BY <3>1, <3>3 DEF Follow
      <4> QED BY <3>1, <4>1, <1>4
    <3>4. CASE p[n - 1] # NULL
      <4>1. p[n] = c[p[n - 1]] /\ p[n - 1] \in S \cup {head}
        BY <3>1, <3>2, <3>4 DEF Follow
      <4>2. p[n] \in S \cup {NULL}
        BY <4>1 DEF Linked
      <4>3. ASSUME p[n] # NULL, NEW i \in 0..n - 1
            PROVE  p[i] # NULL /\ rank[p[i]] < rank[p[n]]
        <5>1. rank[p[n - 1]] < rank[p[n]]
          BY <1>5, <4>1, <4>3
        <5>2. CASE i = n - 1
          BY <3>4, <5>1, <5>2
        <5>3. CASE i # n - 1
          <6>1. i \in 0..(n - 1) - 1
            BY <5>3, KNat
          <6>2. p[i] # NULL /\ rank[p[i]] < rank[p[n - 1]]
            BY <2>2, <3>4, <6>1
          <6>3. p[i] \in S \cup {head, NULL}
            <7>1. i \in 0..K + 1 /\ (i = 0 \/ i \in 1..K + 1)
              BY <4>3, KNat
            <7>2. i = 0 \/ (i - 1 \in 0..K + 1)
              BY <7>1, KNat
            <7> QED BY <7>1, <1>1, <1>2, <1>3, <4>3, KNat DEF Steps
          <6>4. rank[p[i]] \in Nat /\ rank[p[n - 1]] \in Nat /\ rank[p[n]] \in Nat
            BY <1>4, <1>5, <4>1, <4>2, <4>3, <6>2, <6>3
          <6> QED BY <5>1, <6>2, <6>4
        <5> QED BY <5>2, <5>3
      <4> QED BY <1>4, <3>1, <4>2, <4>3
    <3> QED BY <3>3, <3>4
  <2>3. \A n \in 0..K + 1 : n \in G
    <3> HIDE DEF G
    <3>1. K + 1 \in Nat
      BY KNat
    <3> QED BY <2>1, <2>2, <3>1, UpTo
  <2> QED BY <2>3
<1>7. p[K + 1] = NULL
  <2> SUFFICES ASSUME p[K + 1] # NULL PROVE FALSE
    OBVIOUS
  <2> DEFINE f == [n \in 1..K + 1 |-> p[n]]
  <2>1. \A i, j \in 1..K + 1 : i < j => p[i] # p[j] /\ p[i] # NULL
    <3> SUFFICES ASSUME NEW i \in 1..K + 1, NEW j \in 1..K + 1, i < j
                 PROVE  p[i] # p[j] /\ p[i] # NULL
      OBVIOUS
    <3>0. i \in 0..K + 1 /\ j \in 0..K + 1 /\ i \in 0..j - 1 /\ K + 1 \in 0..K + 1
      BY KNat
    <3>1. p[i] # NULL
      <4>1. i \in 0..(K + 1) - 1
        BY <3>0, KNat
      <4> QED BY <1>6, <3>0, <4>1
    <3>2. p[j] # NULL
      <4>1. j = K + 1 \/ j \in 0..(K + 1) - 1
        BY <3>0, KNat
      <4> QED BY <1>6, <3>0, <4>1
    <3>3. rank[p[i]] < rank[p[j]]
      BY <1>6, <3>0, <3>2
    <3>4. rank[p[i]] \in Nat
      BY <1>4, <1>5, <1>6, <3>0, <3>1
    <3> QED BY <3>1, <3>3, <3>4
  <2>2. \A n \in 1..K + 1 : p[n] \in Handles
    <3> SUFFICES ASSUME NEW n \in 1..K + 1 PROVE p[n] \in Handles
      OBVIOUS
    <3>1. n \in 0..K + 1 /\ n # 0 /\ (n = K + 1 \/ (n < K + 1 /\ K + 1 \in 1..K + 1))
      BY KNat
    <3>2. p[n] # NULL
      BY <2>1, <3>1
    <3> QED BY <1>4, <1>6, <3>1, <3>2
  <2>3. f \in Injection(1..K + 1, Handles)
    <3>1. f \in [1..K + 1 -> Handles] /\ \A i \in 1..K + 1 : f[i] = p[i]
      BY <2>2
    <3>2. ASSUME NEW i \in 1..K + 1, NEW j \in 1..K + 1, f[i] = f[j] PROVE i = j
      <4>1. ~(i < j) /\ ~(j < i)
        BY <2>1, <3>1, <3>2
      <4> QED BY <4>1, KNat
    <3> HIDE DEF f
    <3> QED BY <3>1, <3>2 DEF Injection, IsInjective
  <2>4. Cardinality(1..K + 1) = K + 1 /\ IsFiniteSet(1..K + 1)
    <3>1. K + 1 \in Nat
      BY KNat
    <3> QED BY <3>1, Interval
  <2>5. Cardinality(1..K + 1) <= Cardinality(Handles)
    <3> HIDE DEF f
    <3> QED BY <2>3, FS_Injection, HandlesAssumption
  <2> QED BY <2>4, <2>5, KNat DEF K
<1>8. S \subseteq InList(c, head)
  <2> DEFINE B == {rank[b] : b \in S \ InList(c, head)}
  <2> SUFFICES ASSUME S \ InList(c, head) # {} PROVE FALSE
    OBVIOUS
  <2>1. B \in SUBSET Nat /\ B # {}
    BY <1>4, <1>5
  <2>2. PICK x \in B : \A y \in B : x <= y
    BY <2>1, LeastNat
  <2>3. PICK b \in S \ InList(c, head) : x = rank[b]
    OBVIOUS
  <2>4. PICK a \in S \cup {head} : c[a] = b
    BY DEF Linked
  <2>5. rank[a] < rank[b] /\ rank[a] \in Nat /\ rank[b] \in Nat
    BY <1>4, <1>5, <2>4
  <2>6. a \in InList(c, head) \cup {head}
    <3> SUFFICES ASSUME a \in S \ InList(c, head) PROVE FALSE
      OBVIOUS
    <3>1. rank[a] \in B
      OBVIOUS
    <3> QED BY <2>2, <2>3, <2>5, <3>1
  <2>7. PICK m \in 0..K : p[m] = a
    <3>1. 0 \in 0..K /\ 1..K \subseteq 0..K
      BY KNat
    <3> QED BY <1>1, <1>2, <2>6, <3>1 DEF Steps
  <2>8. m + 1 \in 1..K + 1 /\ (m + 1) - 1 = m
    BY KNat
  <2>9. p[m + 1] = b
    BY <1>1, <1>4, <2>4, <2>7, <2>8 DEF Steps, Follow
  <2>10. m + 1 \in 1..K
    BY <1>4, <1>7, <2>8, <2>9, KNat
  <2> QED BY <1>2, <1>4, <2>9, <2>10
<1> QED BY <1>2, <1>3, <1>7, <1>8

LEMMA LinkedSame ==
  ASSUME NEW c, NEW d, NEW head, NEW S, Linked(c, head, S),
         \A a \in S \cup {head} : d[a] = c[a]
  PROVE  Linked(d, head, S)
<1>1. PICK rank \in [Addresses -> Nat] :
         \A a \in S \cup {head} : c[a] # NULL => rank[a] < rank[c[a]]
  BY DEF Linked
<1>2. \A a \in S \cup {head} : d[a] # NULL => rank[a] < rank[d[a]]
  BY <1>1
<1> QED BY <1>2 DEF Linked

\* The successor h of b is taken out.
LEMMA LinkedCut ==
  ASSUME NEW c, NEW d, NEW head \in Heads, NEW S, Linked(c, head, S),
         NEW b \in S \cup {head}, NEW h, h = c[b], h # NULL,
         d[b] = c[h], \A a \in (S \cup {head}) \ {b, h} : d[a] = c[a]
  PROVE  Linked(d, head, S \ {h}) /\ h \in S /\ b # h
<1>1. /\ S \subseteq Handles /\ head \notin S /\ head # NULL /\ NULL \notin S
      /\ S \cup {head} \subseteq Addresses
  BY HeadsApart, HandlesAssumption DEF Linked, Addresses
<1>2. PICK rank \in [Addresses -> Nat] :
         \A a \in S \cup {head} : c[a] # NULL => rank[a] < rank[c[a]]
  BY DEF Linked
<1>3. h \in S /\ rank[b] < rank[h] /\ b # h
  BY <1>1, <1>2 DEF Linked
<1> DEFINE T == S \ {h}
<1>4. T \cup {head} = (S \cup {head}) \ {h}
  BY <1>1, <1>3
<1>5. \A a \in T \cup {head} : IF a = b THEN d[a] = c[h] ELSE d[a] = c[a] /\ c[a] # h
  BY <1>3, <1>4 DEF Linked
<1>6. c[h] \in S \cup {NULL} /\ c[h] # h
  BY <1>1, <1>2, <1>3 DEF Linked
<1> HIDE DEF T
<1>7. \A a \in T \cup {head} : d[a] \in T \cup {NULL}
  <2>1. \A a \in T \cup {head} : c[a] \in S \cup {NULL}
    BY <1>4 DEF Linked
  <2>2. S \ {h} = T
    BY DEF T
  <2> QED BY <1>5, <1>6, <2>1, <2>2
<1>8. \A x, y \in T \cup {head} : d[x] = d[y] /\ d[x] # NULL => x = y
  <2>1. \A x, y \in S \cup {head} : c[x] = c[y] /\ c[x] # NULL => x = y
    BY DEF Linked
  <2> QED BY <1>3, <1>4, <1>5, <2>1
<1>9. \A x \in T : \E a \in T \cup {head} : d[a] = x
  <2> SUFFICES ASSUME NEW x \in T PROVE \E a \in T \cup {head} : d[a] = x
    OBVIOUS
  <2>1. x \in S /\ x # h
    BY DEF T
  <2>2. PICK a \in S \cup {head} : c[a] = x
    BY <2>1 DEF Linked
  <2>3. CASE a = h
    <3>1. b \in T \cup {head} /\ d[b] = x
      BY <1>3, <1>4, <2>2, <2>3
    <3> QED BY <3>1
  <2>4. CASE a # h
    <3>1. a \in T \cup {head} /\ a # b
      BY <1>4, <2>1, <2>2, <2>4
    <3> QED BY <1>5, <2>2, <3>1
  <2> QED BY <2>3, <2>4
<1>10. \A a \in T \cup {head} : d[a] # NULL => rank[a] < rank[d[a]]
  <2> SUFFICES ASSUME NEW a \in T \cup {head}, d[a] # NULL PROVE rank[a] < rank[d[a]]
    OBVIOUS
  <2>1. CASE a = b
    <3>1. d[a] = c[h] /\ rank[h] < rank[c[h]]
      BY <1>2, <1>3, <1>5, <2>1
    <3>2. rank[b] \in Nat /\ rank[h] \in Nat /\ rank[c[h]] \in Nat
      BY <1>1, <1>2, <1>3, <1>6, <2>1, <3>1
    <3> QED BY <1>3, <2>1, <3>1, <3>2
  <2>2. CASE a # b
    BY <1>2, <1>4, <1>5, <2>2
  <2> QED BY <2>1, <2>2
<1>11. T \subseteq Handles
  BY <1>1 DEF T
<1>12. Linked(d, head, T)
  BY <1>7, <1>8, <1>9, <1>10, <1>11 DEF Linked
<1> QED BY <1>3, <1>12 DEF T

\* h is put behind an end b of the list.
LEMMA LinkedLast ==
  ASSUME NEW c, NEW d, NEW head \in Heads, NEW S, Linked(c, head, S),
         NEW h \in Handles, h \notin S, NEW b \in S \cup {head}, c[b] = NULL,
         d[b] = h, d[h] = NULL, \A a \in (S \cup {head}) \ {b} : d[a] = c[a]
  PROVE  Linked(d, head, S \cup {h})
<1>1. /\ S \subseteq Handles /\ head \notin S /\ head # NULL /\ NULL \notin S /\ head # h
      /\ S \cup {head} \subseteq Addresses /\ h # NULL /\ h \in Addresses
  BY HeadsApart, HandlesAssumption DEF Linked, Addresses
<1>2. PICK rank \in [Addresses -> Nat] :
         \A a \in S \cup {head} : c[a] # NULL => rank[a] < rank[c[a]]
  BY DEF Linked
<1> DEFINE T == S \cup {h}
           up == [rank EXCEPT ![h] = rank[b] + 1]
<1>3. T \cup {head} = (S \cup {head}) \cup {h} /\ h \notin S \cup {head} /\ b # h
  BY <1>1
<1>4. /\ \A a \in S \cup {head} : a # b => d[a] = c[a] /\ c[a] \in S \cup {NULL}
      /\ d[b] = h /\ d[h] = NULL
  BY DEF Linked
<1>5. /\ up \in [Addresses -> Nat] /\ up[h] = rank[b] + 1
      /\ \A a \in S \cup {head} : up[a] = rank[a]
  BY <1>1, <1>2, <1>3
<1>6. T \subseteq Handles /\ S \subseteq T /\ h \in T
  BY <1>1
<1> HIDE DEF T, up
<1>7. \A a \in T \cup {head} : d[a] \in T \cup {NULL}
  BY <1>3, <1>4, <1>6
<1>8. \A x, y \in T \cup {head} : d[x] = d[y] /\ d[x] # NULL => x = y
  <2>1. \A x, y \in S \cup {head} : c[x] = c[y] /\ c[x] # NULL => x = y
    BY DEF Linked
  <2> QED BY <1>1, <1>3, <1>4, <2>1
<1>9. \A x \in T : \E a \in T \cup {head} : d[a] = x
  <2> SUFFICES ASSUME NEW x \in T PROVE \E a \in T \cup {head} : d[a] = x
    OBVIOUS
  <2>1. CASE x = h
    BY <1>3, <1>4, <2>1
  <2>2. CASE x # h
    <3>1. x \in S
      BY <2>2 DEF T
    <3>2. PICK a \in S \cup {head} : c[a] = x
      BY <3>1 DEF Linked
    <3>3. a # b /\ a \in T \cup {head}
      BY <1>1, <1>3, <3>1, <3>2
    <3> QED BY <1>4, <3>2, <3>3
  <2> QED BY <2>1, <2>2
<1>10. \A a \in T \cup {head} : d[a] # NULL => up[a] < up[d[a]]
  <2> SUFFICES ASSUME NEW a \in T \cup {head}, d[a] # NULL PROVE up[a] < up[d[a]]
    OBVIOUS
  <2>1. a \in S \cup {head}
    BY <1>3, <1>4
  <2>2. CASE a = b
    <3>1. rank[b] \in Nat /\ up[a] = rank[b] /\ up[d[a]] = rank[b] + 1
      BY <1>1, <1>2, <1>4, <1>5, <2>2
    <3> QED BY <3>1
  <2>3. CASE a # b
    <3>1. d[a] = c[a] /\ d[a] \in S
      BY <1>4, <2>1, <2>3
    <3> QED BY <1>2, <1>5, <2>1, <3>1
  <2> QED BY <2>2, <2>3
<1>11. Linked(d, head, T)
  BY <1>5, <1>6, <1>7, <1>8, <1>9, <1>10 DEF Linked
<1> QED BY <1>11 DEF T

\* h is put before the first of the list.
LEMMA LinkedFirst ==
  ASSUME NEW c, NEW d, NEW head \in Heads, NEW S, Linked(c, head, S),
         NEW h \in Handles, h \notin S, c[head] # NULL,
         d[head] = h, d[h] = c[head], \A a \in S : d[a] = c[a]
  PROVE  Linked(d, head, S \cup {h})
<1>1. /\ S \subseteq Handles /\ head \notin S /\ head # NULL /\ NULL \notin S /\ head # h
      /\ S \cup {head} \subseteq Addresses /\ h # NULL /\ h \in Addresses /\ c[head] \in S
  BY HeadsApart, HandlesAssumption DEF Linked, Addresses
<1>2. PICK rank \in [Addresses -> Nat] :
         \A a \in S \cup {head} : c[a] # NULL => rank[a] < rank[c[a]]
  BY DEF Linked
<1> DEFINE T == S \cup {h}
           up == [a \in Addresses |-> IF a = h THEN rank[head] + rank[head] + 1
                                               ELSE rank[a] + rank[a]]
<1>3. T \cup {head} = S \cup {h, head} /\ h \notin S \cup {head}
  BY <1>1
<1>4. /\ \A a \in S : d[a] = c[a] /\ c[a] \in S \cup {NULL}
      /\ d[head] = h /\ d[h] = c[head]
  BY DEF Linked
<1>5. /\ up \in [Addresses -> Nat] /\ up[h] = rank[head] + rank[head] + 1
      /\ \A a \in S \cup {head} : up[a] = rank[a] + rank[a] /\ rank[a] \in Nat
  <2>1. head \in Addresses
    BY <1>1
  <2>2. up \in [Addresses -> Nat]
    BY <1>2, <2>1
  <2>3. up[h] = rank[head] + rank[head] + 1
    BY <1>1
  <2>4. ASSUME NEW a \in S \cup {head} PROVE up[a] = rank[a] + rank[a] /\ rank[a] \in Nat
    BY <1>1, <1>2, <1>3
  <2> HIDE DEF up
  <2> QED BY <2>2, <2>3, <2>4
<1>6. T \subseteq Handles /\ S \subseteq T /\ h \in T
  BY <1>1
<1> HIDE DEF T, up
<1>7. \A a \in T \cup {head} : d[a] \in T \cup {NULL}
  BY <1>1, <1>3, <1>4, <1>6
<1>8. \A x, y \in T \cup {head} : d[x] = d[y] /\ d[x] # NULL => x = y
  <2>1. \A x, y \in S \cup {head} : c[x] = c[y] /\ c[x] # NULL => x = y
    BY DEF Linked
  <2> QED BY <1>1, <1>3, <1>4, <2>1
<1>9. \A x \in T : \E a \in T \cup {head} : d[a] = x
  <2> SUFFICES ASSUME NEW x \in T PROVE \E a \in T \cup {head} : d[a] = x
    OBVIOUS
  <2>1. CASE x = h
    BY <1>3, <1>4, <2>1
  <2>2. CASE x # h
    <3>1. x \in S
      BY <2>2 DEF T
    <3>2. PICK a \in S \cup {head} : c[a] = x
      BY <3>1 DEF Linked
    <3>3. CASE a = head
      BY <1>3, <1>4, <3>2, <3>3
    <3>4. CASE a # head
      BY <1>3, <1>4, <3>2, <3>4
    <3> QED BY <3>3, <3>4
  <2> QED BY <2>1, <2>2
<1>10. \A a \in T \cup {head} : d[a] # NULL => up[a] < up[d[a]]
  <2> SUFFICES ASSUME NEW a \in T \cup {head}, d[a] # NULL PROVE up[a] < up[d[a]]
    OBVIOUS
  <2>1. rank[head] < rank[c[head]]
    BY <1>1, <1>2
  <2>2. CASE a = head
    <3>1. up[a] = rank[head] + rank[head] /\ up[d[a]] = up[h] /\ rank[head] \in Nat
      BY <1>4, <1>5, <2>2
    <3> QED BY <1>5, <3>1
  <2>3. CASE a = h
    <3>1. /\ up[a] = rank[head] + rank[head] + 1 /\ rank[head] \in Nat
          /\ up[d[a]] = rank[c[head]] + rank[c[head]] /\ rank[c[head]] \in Nat
      BY <1>1, <1>4, <1>5, <2>3
    <3> QED BY <2>1, <3>1
  <2>4. CASE a \in S
    <3>1. d[a] = c[a] /\ d[a] \in S /\ rank[a] < rank[d[a]]
      BY <1>2, <1>4, <2>4
    <3>2. /\ up[a] = rank[a] + rank[a] /\ rank[a] \in Nat
          /\ up[d[a]] = rank[d[a]] + rank[d[a]] /\ rank[d[a]] \in Nat
      BY <1>5, <2>4, <3>1
    <3> QED BY <3>1, <3>2
  <2> QED BY <1>3, <2>2, <2>3, <2>4
<1>11. Linked(d, head, T)
  BY <1>5, <1>6, <1>7, <1>8, <1>9, <1>10 DEF Linked
<1> QED BY <1>11 DEF T

-----------------------------------------------------------------------------
(* remove_job_handle, job_handle_add_last and job_handle_add_first, whole.  *)
Cells == [Addresses -> Handles \cup {NULL}]

LEMMA InHandles ==
  ASSUME NEW c \in Cells, NEW head \in Heads
  PROVE  InList(c, head) \subseteq Handles
<1>1. c[head] \in Handles \cup {NULL} /\ \A a \in Handles : c[a] \in Handles \cup {NULL}
  BY HeadsApart DEF Cells, Addresses
<1> QED BY <1>1, StaysIn

LEMMA RemovedIs ==
  ASSUME NEW c \in Cells, NEW head \in Heads, NEW h \in InList(c, head)
  PROVE  \E b \in InList(c, head) \cup {head} :
           c[b] = h /\ Removed(c, head, h) = [c EXCEPT ![b] = c[h], ![h] = NULL]
<1> DEFINE b == CHOOSE a \in InList(c, head) \cup {head} : c[a] = h
<1>1. \E a \in InList(c, head) \cup {head} : c[a] = h
  BY HeadsApart, Before
<1>2. b \in InList(c, head) \cup {head} /\ c[b] = h
  BY <1>1
<1>3. Removed(c, head, h) = [c EXCEPT ![b] = c[h], ![h] = NULL]
  BY DEF Removed
<1> HIDE DEF b
<1> QED BY <1>2, <1>3

LEMMA AddedLastIs ==
  ASSUME NEW c, NEW head \in Heads, Ends(c, head), NEW h
  PROVE  \E b \in InList(c, head) \cup {head} :
           c[b] = NULL /\ AddedLast(c, head, h) = [c EXCEPT ![b] = h]
<1> DEFINE b == CHOOSE a \in InList(c, head) \cup {head} : c[a] = NULL
<1>1. \E a \in InList(c, head) \cup {head} : c[a] = NULL
  BY HeadsApart, EndIn
<1>2. b \in InList(c, head) \cup {head} /\ c[b] = NULL
  BY <1>1
<1>3. AddedLast(c, head, h) = [c EXCEPT ![b] = h]
  BY DEF AddedLast
<1> HIDE DEF b
<1> QED BY <1>2, <1>3

LEMMA AddedFirstIs ==
  ASSUME NEW c \in Cells, NEW head \in Heads, NEW S, Linked(c, head, S),
         NEW h \in Handles, h \notin S, c[h] = NULL
  PROVE  /\ Linked(AddedFirst(c, head, h), head, S \cup {h})
         /\ AddedFirst(c, head, h) \in Cells
         /\ \A a \in Addresses \ {head, h} : AddedFirst(c, head, h)[a] = c[a]
<1> DEFINE d == AddedFirst(c, head, h)
<1>1. /\ S \subseteq Handles /\ head \notin S /\ head # h /\ head \in Addresses /\ h \in Addresses
      /\ S \subseteq Addresses
  BY HeadsApart DEF Linked, Addresses
<1>2. CASE c[head] = NULL
  <2>1. d = [c EXCEPT ![head] = h]
    BY <1>2 DEF AddedFirst
  <2>2. d \in Cells /\ d[head] = h /\ \A a \in Addresses \ {head} : d[a] = c[a]
    BY <1>1, <2>1 DEF Cells
  <2> HIDE DEF d
  <2>3. d[h] = NULL /\ \A a \in (S \cup {head}) \ {head} : d[a] = c[a]
    BY <1>1, <2>2
  <2>4. Linked(d, head, S \cup {h})
    BY <1>2, <2>2, <2>3, LinkedLast
  <2> QED BY <2>2, <2>4 DEF d
<1>3. CASE c[head] # NULL
  <2>1. d = [c EXCEPT ![h] = c[head], ![head] = h]
    BY <1>3 DEF AddedFirst
  <2>2. d \in Cells /\ d[head] = h /\ d[h] = c[head] /\ \A a \in Addresses \ {head, h} : d[a] = c[a]
    BY <1>1, <2>1 DEF Cells
  <2> HIDE DEF d
  <2>3. \A a \in S : d[a] = c[a]
    BY <1>1, <2>2
  <2>4. Linked(d, head, S \cup {h})
    BY <1>3, <2>2, <2>3, LinkedFirst
  <2> QED BY <2>2, <2>4 DEF d
<1> QED BY <1>2, <1>3

\* What the handler does to the lists, and to two that are whole.
MovedTo(d, c, h) ==
  \/ d = AddedLast(Removed(c, current_job, h), pending_removed_jobs, h)
  \/ d = AddedFirst(Removed(c, current_job, h), pending_removed_jobs, h)

TwoLists(c, C, D) ==
  Linked(c, current_job, C) /\ Linked(c, pending_removed_jobs, D) /\ C \cap D = {}

ListsAfter(d, c, C, D, h) ==
  /\ Linked(d, current_job, C \ {h}) /\ Linked(d, pending_removed_jobs, D \cup {h})
  /\ \A a \in Handles \ (C \cup D) : d[a] = c[a]

LEMMA Moved ==
  ASSUME NEW c \in Cells, NEW C, NEW D, TwoLists(c, C, D), NEW h \in C, NEW d, MovedTo(d, c, h)
  PROVE  ListsAfter(d, c, C, D, h)
<1> DEFINE rest == Removed(c, current_job, h)
<1> USE DEF TwoLists, ListsAfter
<1>1. /\ current_job \in Heads /\ pending_removed_jobs \in Heads
      /\ current_job # pending_removed_jobs /\ C \cup D \subseteq Handles
      /\ current_job \notin C \cup D /\ pending_removed_jobs \notin C \cup D
      /\ C \cup D \cup Heads \subseteq Addresses
  BY HeadsApart DEF Heads, Linked, Addresses, current_job, pending_removed_jobs
<1>2. h # NULL /\ h \in Handles /\ h \in Addresses /\ c[h] \in Handles \cup {NULL} /\ h \notin D
  BY <1>1, HandlesAssumption DEF Cells, Addresses
<1>3. InList(c, current_job) = C
  BY <1>1, LinkedIs
<1>4. PICK b \in C \cup {current_job} : c[b] = h /\ rest = [c EXCEPT ![b] = c[h], ![h] = NULL]
  BY <1>1, <1>3, RemovedIs
<1>5. b # h
  <2>1. \E k \in C \cup {current_job} : k # h /\ c[k] = h
    <3>1. PICK rank \in [Addresses -> Nat] :
             \A a \in C \cup {current_job} : c[a] # NULL => rank[a] < rank[c[a]]
      BY DEF Linked
    <3>2. rank[b] < rank[h] /\ rank[b] \in Nat
      BY <1>1, <1>2, <1>4, <3>1
    <3> QED BY <1>4, <3>2
  <2>2. \A x, y \in C \cup {current_job} : c[x] = c[y] /\ c[x] # NULL => x = y
    BY DEF Linked
  <2> QED BY <1>2, <1>4, <2>1, <2>2
<1>6. /\ rest \in Cells /\ rest[b] = c[h] /\ rest[h] = NULL
      /\ \A a \in Addresses \ {b, h} : rest[a] = c[a]
  BY <1>1, <1>2, <1>4, <1>5 DEF Cells
<1>7. d = AddedLast(rest, pending_removed_jobs, h) \/ d = AddedFirst(rest, pending_removed_jobs, h)
  BY DEF MovedTo
<1> HIDE DEF rest
<1>8. Linked(rest, current_job, C \ {h})
  <2>1. \A a \in (C \cup {current_job}) \ {b, h} : rest[a] = c[a]
    BY <1>1, <1>6
  <2>2. h = c[b] /\ h # NULL /\ rest[b] = c[h] /\ Linked(c, current_job, C)
    BY <1>2, <1>4, <1>6
  <2> QED BY ONLY <1>1, <2>1, <2>2, LinkedCut
<1>9. Linked(rest, pending_removed_jobs, D)
  <2>1. \A a \in D \cup {pending_removed_jobs} : rest[a] = c[a]
    BY <1>1, <1>2, <1>4, <1>6
  <2> QED BY <2>1, LinkedSame
<1>10. ASSUME \A a \in Addresses \ (D \cup {pending_removed_jobs, h}) : d[a] = rest[a],
              Linked(d, pending_removed_jobs, D \cup {h})
       PROVE  /\ Linked(d, current_job, C \ {h}) /\ Linked(d, pending_removed_jobs, D \cup {h})
              /\ \A a \in Handles \ (C \cup D) : d[a] = c[a]
  <2>1. \A a \in (C \ {h}) \cup {current_job} : d[a] = rest[a]
    BY <1>1, <1>10
  <2>2. Linked(d, current_job, C \ {h})
    BY <1>8, <2>1, LinkedSame
  <2>3. ASSUME NEW a \in Handles \ (C \cup D) PROVE d[a] = c[a]
    <3>1. a \in Addresses /\ a # pending_removed_jobs /\ a # current_job /\ a # h /\ a # b
      BY <1>1, <1>4, HeadsApart DEF Addresses
    <3> QED BY <1>6, <1>10, <3>1
  <2> QED BY <1>10, <2>2, <2>3
<1>11. CASE d = AddedLast(rest, pending_removed_jobs, h)
  <2>1. InList(rest, pending_removed_jobs) = D /\ Ends(rest, pending_removed_jobs)
    BY <1>1, <1>9, LinkedIs
  <2>2. PICK e \in D \cup {pending_removed_jobs} :
           rest[e] = NULL /\ d = [rest EXCEPT ![e] = h]
    BY <1>1, <1>11, <2>1, AddedLastIs
  <2>3. d[e] = h /\ \A a \in Addresses \ {e} : d[a] = rest[a]
    BY <1>1, <1>6, <2>2 DEF Cells
  <2>4. e # h
    BY <1>1, <1>2
  <2>5. d[h] = NULL /\ \A a \in (D \cup {pending_removed_jobs}) \ {e} : d[a] = rest[a]
    BY <1>1, <1>2, <1>6, <2>3, <2>4
  <2>6. Linked(d, pending_removed_jobs, D \cup {h})
    BY ONLY <1>1, <1>2, <1>9, <2>2, <2>3, <2>5, LinkedLast
  <2> QED BY <1>10, <2>2, <2>3, <2>6
<1>12. CASE d = AddedFirst(rest, pending_removed_jobs, h)
  <2>1. /\ Linked(d, pending_removed_jobs, D \cup {h})
        /\ \A a \in Addresses \ {pending_removed_jobs, h} : d[a] = rest[a]
    BY <1>1, <1>2, <1>6, <1>9, <1>12, AddedFirstIs
  <2> QED BY <1>10, <2>1
<1> QED BY <1>7, <1>11, <1>12


-----------------------------------------------------------------------------
(* The invariant of the lists.                                             *)
LEMMA HeadsAre ==
  /\ current_job \in Heads /\ pending_removed_jobs \in Heads
  /\ current_job # pending_removed_jobs
  /\ current_job \notin Handles /\ pending_removed_jobs \notin Handles
  /\ NULL \notin Handles /\ NULL \notin Heads
  /\ Addresses = Handles \cup Heads
<1>1. current_job \in Heads /\ pending_removed_jobs \in Heads
  BY DEF Heads
<1>2. current_job # pending_removed_jobs
  BY DEF current_job, pending_removed_jobs
<1> QED BY <1>1, <1>2, HandlesAssumption DEF Addresses, Heads

LEMMA LinkedNone == ASSUME NEW c, NEW head \in Heads, c[head] = NULL PROVE Linked(c, head, {})
<1>1. [a \in Addresses |-> 0] \in [Addresses -> Nat]
  OBVIOUS
<1> QED BY <1>1 DEF Linked

LEMMA InitListed == Init => ListInv
<1> SUFFICES ASSUME Init PROVE ListInv
  OBVIOUS
<1>1. /\ cell = [a \in Addresses |-> NULL] /\ mem = [h \in Handles |-> "unused"]
      /\ pc = "line" /\ op = "prompt" /\ ptr = NULL /\ handle = NULL /\ tmp = NULL
      /\ val = NULL /\ done = {} /\ torn = FALSE
  BY DEF Init
<1>2. Typed
  BY <1>1 DEF Typed, TypeOK, Walking, Adding
<1>3. Linked(cell, current_job, {}) /\ Linked(cell, pending_removed_jobs, {})
  BY <1>1, LinkedNone, HeadsAre
<1>4. Current = {} /\ Done = {}
  BY <1>3, LinkedIs, HeadsAre DEF Current, Done
<1>5. InHand = {} /\ {h \in Handles : mem[h] = "live"} = {}
  BY <1>1 DEF InHand
<1>6. Whole
  BY <1>1, <1>3, <1>4, <1>5, HeadsAre DEF Whole
<1>7. Placed
  BY <1>1 DEF Placed, Walking, Adding
<1> QED BY <1>2, <1>6, <1>7 DEF ListInv

(* Types, whatever the handler tore.                                       *)
LEMMA RemovedTyped ==
  ASSUME NEW c \in Cells, NEW head, NEW h \in Handles
  PROVE  Removed(c, head, h) \in Cells
<1>1. c[h] \in Handles \cup {NULL}
  BY DEF Cells, Addresses
<1> QED BY <1>1 DEF Removed, Cells

LEMMA AddedTyped ==
  ASSUME NEW c \in Cells, NEW head \in Heads, NEW h \in Handles
  PROVE  AddedLast(c, head, h) \in Cells /\ AddedFirst(c, head, h) \in Cells
<1>1. c[head] \in Handles \cup {NULL}
  BY HeadsAre DEF Cells
<1> QED BY <1>1 DEF AddedLast, AddedFirst, Cells

LEMMA HandlerTyped == ASSUME Typed, NEW h \in Handles, Handler(h) PROVE Typed'
<1> DEFINE rest == Removed(cell, current_job, h)
<1>1. cell \in Cells
  BY DEF Typed, TypeOK, Cells
<1>2. rest \in Cells
  BY <1>1, RemovedTyped
<1>3. \/ cell' = AddedLast(rest, pending_removed_jobs, h)
      \/ cell' = AddedFirst(rest, pending_removed_jobs, h)
  BY DEF Handler
<1> HIDE DEF rest
<1>4. cell' \in Cells
  BY <1>2, <1>3, AddedTyped, HeadsAre
<1>5. UNCHANGED <<mem, pc, op, ptr, handle, tmp, val>>
  BY DEF Handler
<1>6. done' = done \cup {h} /\ torn' = (torn \/ pc \in Window)
  BY DEF Handler
<1>7. torn' \in BOOLEAN
  <2>1. (pc \in Window) \in BOOLEAN
    OBVIOUS
  <2> QED BY <1>6, <2>1 DEF Typed
<1> QED BY <1>4, <1>5, <1>6, <1>7 DEF Typed, TypeOK, Cells

LEMMA MainTyped == ASSUME Typed, Main PROVE Typed'
<1> USE DEF Typed
<1>0. /\ cell \in Cells /\ TypeOK
      /\ \A a \in Addresses : cell[a] \in Handles \cup {NULL}
      /\ Handles \subseteq Addresses /\ current_job \in Addresses
      /\ pending_removed_jobs \in Addresses /\ NULL \notin Handles
  BY HeadsAre DEF TypeOK, Cells
<1>1. ASSUME NEW h \in Handles, Enlist(h) PROVE Typed'
  <2>1. cell' \in Cells
    BY <1>0, <1>1, AddedTyped, HeadsAre DEF Enlist
  <2> QED BY <1>0, <1>1, <2>1 DEF Enlist, Remove, Goto, TypeOK, Cells, Walking, Adding
<1>2. CASE Look
  BY <1>0, <1>2 DEF Look, Goto, TypeOK, Cells, Walking, Adding
<1>3. CASE LookOn
  BY <1>0, <1>3 DEF LookOn, Goto, TypeOK, Cells, Walking, Adding
<1>4. CASE NotFound \/ Found
  BY <1>0, <1>4 DEF NotFound, Found, Remove, Goto, TypeOK, Cells, Walking, Adding
<1>5. CASE While \/ WhileEnds \/ If
  BY <1>0, <1>5 DEF While, WhileEnds, If, Crash, Goto, TypeOK, Cells, Walking, Adding
<1>6. CASE NextHandle
  BY <1>0, <1>6 DEF NextHandle, Crash, Goto, TypeOK, Cells, Walking, Adding
<1>7. CASE Tmp
  BY <1>0, <1>7 DEF Tmp, Goto, TypeOK, Cells, Walking, Adding
<1>8. CASE Load
  BY <1>0, <1>8 DEF Load, Crash, Goto, TypeOK, Cells, Walking, Adding
<1>9. CASE Store
  BY <1>0, <1>9 DEF Store, Goto, TypeOK, Cells, Walking, Adding
<1>10. CASE Clear
  BY <1>0, <1>10 DEF Clear, Crash, Goto, TypeOK, Cells, Walking, Adding
<1>11. CASE Free
  BY <1>0, <1>11 DEF Free, Remove, Goto, TypeOK, Cells, Walking, Adding
<1>12. CASE AddWalk \/ AddEnd
  BY <1>0, <1>12 DEF AddWalk, AddEnd, Goto, TypeOK, Cells, Walking, Adding
<1>13. CASE AddStep
  BY <1>0, <1>13 DEF AddStep, Crash, Goto, TypeOK, Cells, Walking, Adding
<1>14. CASE Put
  BY <1>0, <1>14 DEF Put, Remove, Goto, TypeOK, Cells, Walking, Adding
<1> QED BY <1>1, <1>2, <1>3, <1>4, <1>5, <1>6, <1>7, <1>8, <1>9, <1>10, <1>11, <1>12, <1>13,
           <1>14 DEF Main

(* The lists keep whole.                                                    *)
LEMMA WholeFacts ==
  ASSUME Typed, Whole
  PROVE  /\ cell \in Cells
         /\ Linked(cell, current_job, Current) /\ Linked(cell, pending_removed_jobs, Done)
         /\ Done \subseteq done /\ Current \cap Done = {} /\ InHand \cap (Current \cup Done) = {}
         /\ Current \cup Done \cup InHand = {h \in Handles : mem[h] = "live"}
         /\ Current \subseteq Handles /\ Done \subseteq Handles
         /\ \A h \in Handles : mem[h] = "unused" => cell[h] = NULL
BY DEF Whole, Typed, TypeOK, Cells, Linked

\* What is needed of a step, with the lists it leaves.
LEMMA WholeAgain ==
  ASSUME NEW C, NEW D, Linked(cell', current_job, C), Linked(cell', pending_removed_jobs, D),
         D \subseteq done', C \cap D = {}, InHand' \cap (C \cup D) = {},
         C \cup D \cup InHand' = {h \in Handles : mem'[h] = "live"},
         \A h \in Handles : mem'[h] = "unused" => cell'[h] = NULL
  PROVE  Whole' /\ Current' = C /\ Done' = D
<1>1. InList(cell', current_job) = C /\ InList(cell', pending_removed_jobs) = D
  BY LinkedIs, HeadsAre
<1>2. Current' = C /\ Done' = D
  BY <1>1 DEF Current, Done
<1> QED BY <1>2 DEF Whole

LEMMA HandlerWhole ==
  ASSUME Typed, Whole, Placed, NEW h \in Handles, Handler(h), pc \notin Window
  PROVE  Whole' /\ Placed'
<1>1. /\ cell \in Cells
      /\ Linked(cell, current_job, Current) /\ Linked(cell, pending_removed_jobs, Done)
      /\ Done \subseteq done /\ Current \cap Done = {} /\ InHand \cap (Current \cup Done) = {}
      /\ Current \cup Done \cup InHand = {k \in Handles : mem[k] = "live"}
      /\ Current \subseteq Handles /\ Done \subseteq Handles
      /\ \A k \in Handles : mem[k] = "unused" => cell[k] = NULL
  BY WholeFacts
<1>2. /\ h \in Current /\ done' = done \cup {h}
      /\ UNCHANGED <<mem, pc, op, ptr, handle, tmp, val>>
      /\ MovedTo(cell', cell, h)
  BY DEF Handler, Current, MovedTo
<1>3. /\ Linked(cell', current_job, Current \ {h})
      /\ Linked(cell', pending_removed_jobs, Done \cup {h})
      /\ \A a \in Handles \ (Current \cup Done) : cell'[a] = cell[a]
  <2>1. TwoLists(cell, Current, Done)
    BY <1>1 DEF TwoLists
  <2>2. cell \in Cells /\ h \in Current /\ MovedTo(cell', cell, h)
    BY <1>1, <1>2
  <2>3. ListsAfter(cell', cell, Current, Done, h)
    BY ONLY <2>1, <2>2, Moved
  <2> QED BY <2>3 DEF ListsAfter
<1>4. InHand' = InHand
  BY <1>2 DEF InHand
<1>5. (Current \ {h}) \cup (Done \cup {h}) = Current \cup Done
  BY <1>2
<1>6. \A k \in Handles : mem'[k] = "unused" => cell'[k] = NULL
  <2> SUFFICES ASSUME NEW k \in Handles, mem'[k] = "unused" PROVE cell'[k] = NULL
    OBVIOUS
  <2>1. mem[k] = "unused"
    BY <1>2
  <2>2. k \notin Current \cup Done
    BY <1>1, <2>1
  <2> QED BY <1>1, <1>3, <2>1, <2>2
<1>7. Whole' /\ Current' = Current \ {h} /\ Done' = Done \cup {h}
  <2>1. Done \cup {h} \subseteq done' /\ (Current \ {h}) \cap (Done \cup {h}) = {}
    BY <1>1, <1>2
  <2>2. InHand' \cap ((Current \ {h}) \cup (Done \cup {h})) = {}
    BY <1>1, <1>4, <1>5
  <2>3. (Current \ {h}) \cup (Done \cup {h}) \cup InHand' = {k \in Handles : mem'[k] = "live"}
    BY <1>1, <1>2, <1>4, <1>5
  <2> QED BY <1>3, <1>6, <2>1, <2>2, <2>3, WholeAgain
<1>8. Placed'
  <2>1. pc' = pc /\ ptr' = ptr /\ tmp' = tmp /\ pc \notin {"load", "store"} \cup Adding
    BY <1>2 DEF Window, Adding
  <2>2. pc = "free" => cell'[tmp] = NULL
    <3> SUFFICES ASSUME pc = "free" PROVE cell'[tmp] = NULL
      OBVIOUS
    <3>1. tmp \in InHand /\ cell[tmp] = NULL
      BY DEF InHand, Placed
    <3>2. tmp \in Handles \ (Current \cup Done)
      BY <1>1, <3>1
    <3> QED BY <1>3, <3>1, <3>2
  <2>3. Current' \cup Done' = Current \cup Done
    BY <1>5, <1>7
  <2> QED BY <2>1, <2>2, <2>3 DEF Placed, Adding
<1> QED BY <1>7, <1>8

\* The steps that write nothing.
LEMMA StillWhole ==
  ASSUME Typed, Whole, UNCHANGED <<cell, mem, done>>, InHand' = InHand
  PROVE  Whole' /\ Current' = Current /\ Done' = Done
BY WholeFacts, WholeAgain

LEMMA ReadingWhole ==
  ASSUME Typed, Whole, Placed, pc' # "crashed",
         \/ Look \/ LookOn \/ NotFound \/ Found
         \/ While \/ WhileEnds \/ If \/ NextHandle \/ Tmp \/ Load
         \/ AddWalk \/ AddStep \/ AddEnd
  PROVE  Whole' /\ Placed'
<1>1. UNCHANGED <<cell, mem, done>>
  BY DEF Look, LookOn, NotFound, Found, While, WhileEnds, If, NextHandle, Tmp, Load, AddWalk,
         AddStep, AddEnd, Crash, Goto, Remove
<1>2. InHand' = InHand
  BY DEF Look, LookOn, NotFound, Found, While, WhileEnds, If, NextHandle, Tmp, Load, AddWalk,
         AddStep, AddEnd, Crash, Goto, Remove, InHand
<1>3. Whole' /\ Current' = Current /\ Done' = Done
  BY <1>1, <1>2, StillWhole
<1>4. /\ \A a \in Current \cup {current_job} : cell[a] \in Current \cup {NULL}
      /\ \A a \in Done \cup {pending_removed_jobs} : cell[a] \in Done \cup {NULL}
  BY DEF Whole, Linked
<1>5. CASE Look \/ LookOn \/ NotFound \/ Found
  BY <1>3, <1>5 DEF Placed, Look, LookOn, NotFound, Found, Goto, Remove, Walking, Adding
<1>6. CASE While \/ WhileEnds \/ If
  BY <1>1, <1>3, <1>6 DEF Placed, While, WhileEnds, If, Crash, Goto, Walking, Adding
<1>7. CASE NextHandle
  BY <1>1, <1>3, <1>4, <1>7 DEF Placed, NextHandle, Crash, Goto, Walking, Adding
<1>8. CASE Tmp
  BY <1>1, <1>3, <1>8 DEF Placed, Tmp, Goto, Walking, Adding
<1>9. CASE Load
  BY <1>1, <1>3, <1>9 DEF Placed, Load, Crash, Goto, Walking, Adding
<1>10. CASE AddWalk \/ AddEnd
  BY <1>1, <1>3, <1>10 DEF Placed, AddWalk, AddEnd, Goto, Walking, Adding
<1>11. CASE AddStep
  BY <1>1, <1>3, <1>4, <1>11 DEF Placed, AddStep, Crash, Goto, Walking, Adding
<1> QED BY <1>3, <1>5, <1>6, <1>7, <1>8, <1>9, <1>10, <1>11

LEMMA EnlistWhole ==
  ASSUME Typed, Whole, Placed, NEW h \in Handles, Enlist(h)
  PROVE  Whole' /\ Placed'
<1>1. /\ cell \in Cells
      /\ Linked(cell, current_job, Current) /\ Linked(cell, pending_removed_jobs, Done)
      /\ Done \subseteq done /\ Current \cap Done = {} /\ InHand \cap (Current \cup Done) = {}
      /\ Current \cup Done \cup InHand = {k \in Handles : mem[k] = "live"}
      /\ Current \subseteq Handles /\ Done \subseteq Handles
      /\ \A k \in Handles : mem[k] = "unused" => cell[k] = NULL
  BY WholeFacts
<1>2. /\ pc = "line" /\ mem[h] = "unused" /\ mem' = [mem EXCEPT ![h] = "live"]
      /\ cell' = AddedFirst(cell, current_job, h) /\ done' = done
      /\ pc' = "while" /\ ptr' = pending_removed_jobs
  BY DEF Enlist, Remove, Goto
<1>3. h \notin Current \cup Done /\ cell[h] = NULL /\ InHand = {} /\ InHand' = {}
  BY <1>1, <1>2 DEF InHand
<1>4. /\ Linked(cell', current_job, Current \cup {h})
      /\ \A a \in Addresses \ {current_job, h} : cell'[a] = cell[a]
  BY <1>1, <1>2, <1>3, AddedFirstIs, HeadsAre
<1>5. Linked(cell', pending_removed_jobs, Done)
  <2>1. \A a \in Done \cup {pending_removed_jobs} : cell'[a] = cell[a]
    BY <1>1, <1>3, <1>4, HeadsAre
  <2> QED BY <1>1, <2>1, LinkedSame
<1>6. \A k \in Handles : mem'[k] = IF k = h THEN "live" ELSE mem[k]
  BY <1>2 DEF Typed, TypeOK
<1>7. \A k \in Handles : mem'[k] = "unused" => cell'[k] = NULL
  <2> SUFFICES ASSUME NEW k \in Handles, mem'[k] = "unused" PROVE cell'[k] = NULL
    OBVIOUS
  <2>1. k # h /\ mem[k] = "unused" /\ k \in Addresses \ {current_job, h}
    BY <1>6, HeadsAre
  <2> QED BY <1>1, <1>4, <2>1
<1>8. (Current \cup {h}) \cup Done \cup InHand' = {k \in Handles : mem'[k] = "live"}
  BY <1>1, <1>3, <1>6
<1>9. /\ Done \subseteq done' /\ (Current \cup {h}) \cap Done = {}
      /\ InHand' \cap ((Current \cup {h}) \cup Done) = {}
  BY <1>1, <1>2, <1>3
<1>10. Whole'
  BY <1>4, <1>5, <1>7, <1>8, <1>9, WholeAgain
<1>11. Placed'
  BY <1>2 DEF Placed, Walking, Adding
<1> QED BY <1>10, <1>11

\* The successor of ptr leaves the list that ptr has got into.
LEMMA StoreWhole ==
  ASSUME Typed, Whole, Placed, Store
  PROVE  Whole' /\ Placed'
<1>1. /\ cell \in Cells
      /\ Linked(cell, current_job, Current) /\ Linked(cell, pending_removed_jobs, Done)
      /\ Done \subseteq done /\ Current \cap Done = {} /\ InHand \cap (Current \cup Done) = {}
      /\ Current \cup Done \cup InHand = {k \in Handles : mem[k] = "live"}
      /\ Current \subseteq Handles /\ Done \subseteq Handles
      /\ \A k \in Handles : mem[k] = "unused" => cell[k] = NULL
  BY WholeFacts
<1>2. /\ pc = "store" /\ pc' = "clear" /\ cell' = [cell EXCEPT ![ptr] = val]
      /\ UNCHANGED <<mem, ptr, tmp, val, done>>
  BY DEF Store, Goto
<1>3. /\ tmp = cell[ptr] /\ tmp # NULL /\ val = cell[tmp]
      /\ ptr \in Current \cup Done \cup {current_job, pending_removed_jobs}
  BY <1>2 DEF Placed, Walking
<1>4. InHand = {} /\ InHand' = {tmp}
  BY <1>2 DEF InHand
<1>5. cell'[ptr] = cell[tmp] /\ \A a \in Addresses \ {ptr} : cell'[a] = cell[a]
  BY <1>1, <1>2, <1>3, HeadsAre DEF Cells
<1>6. \A k \in Handles : mem'[k] = "unused" => cell'[k] = NULL
  <2> SUFFICES ASSUME NEW k \in Handles, mem'[k] = "unused" PROVE cell'[k] = NULL
    OBVIOUS
  <2>1. mem[k] = "unused" /\ k \notin Current \cup Done
    BY <1>1, <1>2
  <2>2. k \in Addresses \ {ptr}
    BY <1>3, <2>1, HeadsAre
  <2> QED BY <1>1, <1>5, <2>1, <2>2
<1>7. Placed'
  BY <1>2 DEF Placed, Walking, Adding
<1>8. CASE ptr \in Current \cup {current_job}
  <2>1. \A a \in (Current \cup {current_job}) \ {ptr, tmp} : cell'[a] = cell[a]
    BY <1>1, <1>5, HeadsAre
  <2>2. Linked(cell', current_job, Current \ {tmp}) /\ tmp \in Current
    BY ONLY <1>1, <1>3, <1>5, <1>8, <2>1, LinkedCut, HeadsAre
  <2>3. \A a \in Done \cup {pending_removed_jobs} : cell'[a] = cell[a]
    BY <1>1, <1>5, <1>8, HeadsAre
  <2>4. Linked(cell', pending_removed_jobs, Done)
    BY <1>1, <2>3, LinkedSame
  <2>5. (Current \ {tmp}) \cup Done \cup InHand' = {k \in Handles : mem'[k] = "live"}
    BY <1>1, <1>2, <1>4, <2>2
  <2>6. /\ Done \subseteq done' /\ (Current \ {tmp}) \cap Done = {}
        /\ InHand' \cap ((Current \ {tmp}) \cup Done) = {}
    BY <1>1, <1>2, <1>4, <2>2
  <2>7. Whole'
    BY <1>6, <2>2, <2>4, <2>5, <2>6, WholeAgain
  <2> QED BY <1>7, <2>7
<1>9. CASE ptr \in Done \cup {pending_removed_jobs}
  <2>1. \A a \in (Done \cup {pending_removed_jobs}) \ {ptr, tmp} : cell'[a] = cell[a]
    BY <1>1, <1>5, HeadsAre
  <2>2. Linked(cell', pending_removed_jobs, Done \ {tmp}) /\ tmp \in Done
    BY ONLY <1>1, <1>3, <1>5, <1>9, <2>1, LinkedCut, HeadsAre
  <2>3. \A a \in Current \cup {current_job} : cell'[a] = cell[a]
    BY <1>1, <1>5, <1>9, HeadsAre
  <2>4. Linked(cell', current_job, Current)
    BY <1>1, <2>3, LinkedSame
  <2>5. Current \cup (Done \ {tmp}) \cup InHand' = {k \in Handles : mem'[k] = "live"}
    BY <1>1, <1>2, <1>4, <2>2
  <2>6. /\ Done \ {tmp} \subseteq done' /\ Current \cap (Done \ {tmp}) = {}
        /\ InHand' \cap (Current \cup (Done \ {tmp})) = {}
    BY <1>1, <1>2, <1>4, <2>2
  <2>7. Whole'
    BY <1>6, <2>2, <2>4, <2>5, <2>6, WholeAgain
  <2> QED BY <1>7, <2>7
<1> QED BY <1>3, <1>8, <1>9

LEMMA ClearWhole ==
  ASSUME Typed, Whole, Placed, Clear, pc' # "crashed"
  PROVE  Whole' /\ Placed'
<1>1. /\ cell \in Cells
      /\ Linked(cell, current_job, Current) /\ Linked(cell, pending_removed_jobs, Done)
      /\ Done \subseteq done /\ Current \cap Done = {} /\ InHand \cap (Current \cup Done) = {}
      /\ Current \cup Done \cup InHand = {k \in Handles : mem[k] = "live"}
      /\ Current \subseteq Handles /\ Done \subseteq Handles
      /\ \A k \in Handles : mem[k] = "unused" => cell[k] = NULL
  BY WholeFacts
<1>2. /\ pc = "clear" /\ pc' \in {"free", "add"} /\ cell' = [cell EXCEPT ![tmp] = NULL]
      /\ UNCHANGED <<mem, tmp, done>> /\ (pc' = "add" => ptr' = current_job)
  BY DEF Clear, Crash, Goto
<1>3. InHand = {tmp} /\ InHand' = {tmp}
  BY <1>2 DEF InHand
<1>4. tmp \in Handles /\ tmp \notin Current \cup Done
  BY <1>1, <1>3
<1>5. cell'[tmp] = NULL /\ \A a \in Addresses \ {tmp} : cell'[a] = cell[a]
  BY <1>1, <1>2, <1>4, HeadsAre DEF Cells
<1>6. /\ \A a \in Current \cup {current_job} : cell'[a] = cell[a]
      /\ \A a \in Done \cup {pending_removed_jobs} : cell'[a] = cell[a]
      /\ \A k \in Handles : mem'[k] = "unused" => cell'[k] = NULL
  BY <1>1, <1>2, <1>4, <1>5, HeadsAre
<1>7. Linked(cell', current_job, Current) /\ Linked(cell', pending_removed_jobs, Done)
  BY <1>1, <1>6, LinkedSame
<1>8. Whole' /\ Current' = Current
  BY <1>1, <1>2, <1>3, <1>6, <1>7, WholeAgain
<1>9. Placed'
  BY <1>2, <1>5 DEF Placed, Walking, Adding
<1> QED BY <1>8, <1>9

LEMMA FreeWhole ==
  ASSUME Typed, Whole, Placed, Free
  PROVE  Whole' /\ Placed'
<1>1. /\ cell \in Cells
      /\ Linked(cell, current_job, Current) /\ Linked(cell, pending_removed_jobs, Done)
      /\ Done \subseteq done /\ Current \cap Done = {} /\ InHand \cap (Current \cup Done) = {}
      /\ Current \cup Done \cup InHand = {k \in Handles : mem[k] = "live"}
      /\ Current \subseteq Handles /\ Done \subseteq Handles
      /\ \A k \in Handles : mem[k] = "unused" => cell[k] = NULL
  BY WholeFacts
<1>2. /\ pc = "free" /\ pc' = "while" /\ mem' = [mem EXCEPT ![tmp] = "freed"]
      /\ UNCHANGED <<cell, done>> /\ ptr' = pending_removed_jobs
  BY DEF Free, Remove, Goto
<1>3. InHand = {tmp} /\ InHand' = {}
  BY <1>2 DEF InHand
<1>4. tmp \in Handles /\ tmp \notin Current \cup Done
  BY <1>1, <1>3
<1>5. \A k \in Handles : mem'[k] = IF k = tmp THEN "freed" ELSE mem[k]
  BY <1>2 DEF Typed, TypeOK
<1>6. Current \cup Done \cup InHand' = {k \in Handles : mem'[k] = "live"}
  BY <1>1, <1>3, <1>4, <1>5
<1>7. \A k \in Handles : mem'[k] = "unused" => cell'[k] = NULL
  BY <1>1, <1>2, <1>5
<1>8. Whole'
  <2>1. Linked(cell', current_job, Current) /\ Linked(cell', pending_removed_jobs, Done)
    BY <1>1, <1>2
  <2> QED BY <1>1, <1>2, <1>3, <1>6, <1>7, <2>1, WholeAgain
<1>9. Placed'
  BY <1>2 DEF Placed, Walking, Adding
<1> QED BY <1>8, <1>9

LEMMA PutWhole ==
  ASSUME Typed, Whole, Placed, Put
  PROVE  Whole' /\ Placed'
<1>1. /\ cell \in Cells
      /\ Linked(cell, current_job, Current) /\ Linked(cell, pending_removed_jobs, Done)
      /\ Done \subseteq done /\ Current \cap Done = {} /\ InHand \cap (Current \cup Done) = {}
      /\ Current \cup Done \cup InHand = {k \in Handles : mem[k] = "live"}
      /\ Current \subseteq Handles /\ Done \subseteq Handles
      /\ \A k \in Handles : mem[k] = "unused" => cell[k] = NULL
  BY WholeFacts
<1>2. /\ pc = "put" /\ pc' = "while" /\ cell' = [cell EXCEPT ![ptr] = tmp]
      /\ UNCHANGED <<mem, done>> /\ ptr' = pending_removed_jobs
  BY DEF Put, Remove, Goto
<1>3. InHand = {tmp} /\ InHand' = {}
  BY <1>2 DEF InHand
<1>4. tmp \in Handles /\ tmp \notin Current \cup Done
  BY <1>1, <1>3
<1>5. ptr \in Current \cup {current_job} /\ cell[ptr] = NULL /\ cell[tmp] = NULL
  BY <1>2 DEF Placed, Adding
<1>6. cell'[ptr] = tmp /\ \A a \in Addresses \ {ptr} : cell'[a] = cell[a]
  BY <1>1, <1>2, <1>5, HeadsAre DEF Cells
<1>7. /\ cell'[tmp] = NULL
      /\ \A a \in (Current \cup {current_job}) \ {ptr} : cell'[a] = cell[a]
      /\ \A a \in Done \cup {pending_removed_jobs} : cell'[a] = cell[a]
  BY <1>1, <1>4, <1>5, <1>6, HeadsAre
<1>8. Linked(cell', current_job, Current \cup {tmp})
  <2>1. tmp \notin Current
    BY <1>4
  <2> QED BY ONLY <1>1, <1>4, <1>5, <1>6, <1>7, <2>1, LinkedLast, HeadsAre
<1>9. Linked(cell', pending_removed_jobs, Done)
  BY <1>1, <1>7, LinkedSame
<1>10. \A k \in Handles : mem'[k] = "unused" => cell'[k] = NULL
  <2> SUFFICES ASSUME NEW k \in Handles, mem'[k] = "unused" PROVE cell'[k] = NULL
    OBVIOUS
  <2>1. mem[k] = "unused" /\ k \notin Current
    BY <1>1, <1>2
  <2>2. k \in Addresses \ {ptr}
    BY <1>5, <2>1, HeadsAre
  <2> QED BY <1>1, <1>6, <2>1, <2>2
<1>11. (Current \cup {tmp}) \cup Done \cup InHand' = {k \in Handles : mem'[k] = "live"}
  BY <1>1, <1>2, <1>3
<1>12. /\ Done \subseteq done' /\ (Current \cup {tmp}) \cap Done = {}
       /\ InHand' \cap ((Current \cup {tmp}) \cup Done) = {}
  BY <1>1, <1>2, <1>3, <1>4
<1>13. Whole'
  BY <1>8, <1>9, <1>10, <1>11, <1>12, WholeAgain
<1>14. Placed'
  BY <1>2 DEF Placed, Walking, Adding
<1> QED BY <1>13, <1>14

\* Only the handler tears, and only inside the Window.
LEMMA ListStep == ListInv /\ [Next]_vars => ListInv'
<1> SUFFICES ASSUME ListInv, [Next]_vars PROVE ListInv'
  OBVIOUS
<1>0. Typed /\ (~torn /\ pc # "crashed" => Whole /\ Placed) /\ torn \in BOOLEAN
  BY DEF ListInv, Typed
<1>1. CASE UNCHANGED vars
  BY <1>0, <1>1 DEF vars, ListInv, Typed, TypeOK, Whole, Placed, Current, Done, InHand
<1>2. ASSUME NEW h \in Handles, Handler(h) PROVE ListInv'
  <2>1. Typed'
    BY <1>0, <1>2, HandlerTyped
  <2>2. torn' = (torn \/ pc \in Window) /\ pc # "crashed" /\ pc' = pc
    BY <1>2 DEF Handler
  <2>3. CASE torn' = TRUE
    BY <2>1, <2>3 DEF ListInv
  <2>4. CASE ~torn'
    <3>1. ~torn /\ pc \notin Window
      BY <2>2, <2>4
    <3>2. Whole' /\ Placed'
      BY <1>0, <1>2, <2>2, <3>1, HandlerWhole
    <3> QED BY <2>1, <3>2 DEF ListInv
  <2>5. torn' \in BOOLEAN
    BY <2>1 DEF Typed
  <2> QED BY <2>3, <2>4, <2>5
<1>3. CASE Main
  <2>1. Typed'
    BY <1>0, <1>3, MainTyped
  <2>2. torn' = torn /\ pc # "crashed"
    BY <1>3 DEF Main, Enlist, Look, LookOn, NotFound, Found, While, WhileEnds, If, NextHandle,
                Tmp, Load, Store, Clear, Free, AddWalk, AddStep, AddEnd, Put, Crash, Remove
  <2>3. ASSUME ~torn, pc' # "crashed" PROVE Whole' /\ Placed'
    <3>1. Whole /\ Placed
      BY <1>0, <2>2, <2>3
    <3> QED BY <1>0, <1>3, <2>3, <3>1, EnlistWhole, ReadingWhole, StoreWhole, ClearWhole,
               FreeWhole, PutWhole DEF Main
  <2> QED BY <2>1, <2>2, <2>3 DEF ListInv
<1> QED BY <1>1, <1>2, <1>3 DEF Next

(* The lists are whole at every step of remove_job_handle and of            *)
(* job_handle_add_last, for any number of handles, as long as the SIGCHLD   *)
(* handler did not run between two of the steps of the Window.              *)
THEOREM ListInvariance == Spec => []ListInv
<1> QED BY InitListed, ListStep, PTL DEF Spec

(* So every handle is in one list or in the hand of the main thread, both   *)
(* lists end, and only what is done waits for its announcement.             *)
THEOREM ListsAreIntact == Spec => []Intact
<1>1. ListInv => Intact
  <2> SUFFICES ASSUME ListInv, ~torn, pc # "crashed"
               PROVE  /\ Ends(cell, current_job) /\ Ends(cell, pending_removed_jobs)
                      /\ Done \subseteq done
                      /\ Current \cap Done = {}
                      /\ InHand \cap (Current \cup Done) = {}
                      /\ Current \cup Done \cup InHand = {h \in Handles : mem[h] = "live"}
    BY DEF ListInv, Typed, Intact
  <2>1. Whole
    BY DEF ListInv
  <2>2. Ends(cell, current_job) /\ Ends(cell, pending_removed_jobs)
    BY <2>1, LinkedIs, HeadsAre DEF Whole
  <2> QED BY <2>1, <2>2 DEF Whole
<1> QED BY <1>1, ListInvariance, PTL

-----------------------------------------------------------------------------
(* The invariant of the job that is taken: it asks nothing of the lists but *)
(* that the handler finds their ends, so it holds when they are torn, too.  *)

\* h is taken out behind b.
CutOut(c, d, b, h) ==
  /\ c[b] = h /\ d[h] = NULL /\ (b # h => d[b] = c[h])
  /\ \A a \in Addresses \ {b, h} : d[a] = c[a]

\* A list that ends still ends without h: each step of the new path is one or
\* two of the old.
LEMMA EndsStill ==
  ASSUME NEW c \in Cells, NEW d, NEW head \in Heads, Ends(c, head), NEW b, NEW h \in Handles,
         CutOut(c, d, b, h)
  PROVE  Ends(d, head)
<1> USE DEF CutOut
<1> DEFINE p == Path(c, head)
           q == Path(d, head)
<1>1. Steps(p, c, head, K + 1) /\ Steps(q, d, head, K + 1) /\ p[K + 1] = NULL
  BY PathIs, InListIs
<1>2. \A m \in 0..K : p[m] # NULL => p[m] \in Addresses
  <2>1. InList(c, head) = {p[m] : m \in 1..K} \ {NULL} /\ InList(c, head) \subseteq Handles
    BY InListIs, InHandles
  <2>2. p[0] = head /\ \A m \in 0..K : m = 0 \/ m \in 1..K
    BY <1>1 DEF Steps
  <2> HIDE DEF p
  <2> QED BY <2>1, <2>2, HeadsAre
<1>3. Ends(d, head) <=> q[K + 1] = NULL
  BY InListIs
<1> HIDE DEF p, q
<1> DEFINE G == {n \in 0..K + 1 : \E m \in n..K + 1 : q[n] = p[m]}
<1>4. 0 \in G
  BY <1>1, KNat DEF Steps
<1>5. ASSUME NEW n \in 1..K + 1, n - 1 \in G PROVE n \in G
  <2>0. n \in 0..K + 1 /\ K + 1 \in n..K + 1
    BY KNat
  <2>1. PICK m \in (n - 1)..K + 1 : q[n - 1] = p[m]
    BY <1>5
  <2>2. q[n] = Follow(d, p[m])
    BY <1>1, <2>1 DEF Steps
  <2>3. CASE q[n] = NULL
    BY <1>1, <2>0, <2>3
  <2>4. CASE q[n] # NULL
    <3>1. p[m] # NULL /\ q[n] = d[p[m]] /\ p[m] # h
      BY <2>2, <2>4 DEF Follow
    <3>2. m \in 0..K /\ m + 1 \in 1..K + 1 /\ m + 1 \in n..K + 1 /\ (m + 1) - 1 = m
      <4>1. m # K + 1
        BY <1>1, <3>1
      <4> QED BY <4>1, <2>1, KNat
    <3>3. p[m] \in Addresses /\ p[m + 1] = c[p[m]]
      BY <1>1, <1>2, <3>1, <3>2 DEF Steps, Follow
    <3>4. CASE p[m] = b
      <4>1. p[m + 1] = h /\ h # NULL /\ q[n] = c[h]
        BY <3>1, <3>3, <3>4, HeadsAre
      <4>2. m + 2 \in 1..K + 1 /\ m + 2 \in n..K + 1 /\ (m + 2) - 1 = m + 1
        <5>1. m + 1 # K + 1
          BY <1>1, <4>1
        <5> QED BY <5>1, <3>2, KNat
      <4>3. p[m + 2] = c[h]
        BY <1>1, <4>1, <4>2 DEF Steps, Follow
      <4> QED BY <2>0, <4>1, <4>2, <4>3
    <3>5. CASE p[m] # b
      <4>1. q[n] = p[m + 1]
        BY <3>1, <3>3, <3>5
      <4> QED BY <2>0, <3>2, <4>1
    <3> QED BY <3>4, <3>5
  <2> QED BY <2>3, <2>4
<1>6. \A n \in 0..K + 1 : n \in G
  <2> HIDE DEF G
  <2>1. K + 1 \in Nat
    BY KNat
  <2> QED BY <1>4, <1>5, <2>1, UpTo
<1>7. PICK m \in K + 1..K + 1 : q[K + 1] = p[m]
  <2>1. K + 1 \in 0..K + 1
    BY KNat
  <2> QED BY <1>6, <2>1
<1> QED BY <1>1, <1>3, <1>7, KNat

\* What the handler moved stays closed under next, with what it moves now; and
\* nothing else changes but what led to that.
LEMMA HandlerShelters ==
  ASSUME Typed, NEW h \in Handles, Handler(h), NEW D \in SUBSET done, Closed(D)
  PROVE  /\ cell'[pending_removed_jobs] \in D \cup {h, NULL}
         /\ \A a \in D \cup {h} : cell'[a] \in D \cup {h, NULL}
         /\ \A a \in Addresses \ (D \cup {pending_removed_jobs, h}) :
               cell[a] # h => cell'[a] = cell[a]
<1> DEFINE rest == Removed(cell, current_job, h)
<1>1. cell \in Cells /\ D \subseteq Handles
  BY DEF Typed, TypeOK, Cells
<1>2. /\ Ends(cell, pending_removed_jobs) /\ h \in InList(cell, current_job)
      /\ MovedTo(cell', cell, h)
  BY DEF Handler, MovedTo
<1>3. PICK b \in InList(cell, current_job) \cup {current_job} :
         cell[b] = h /\ rest = [cell EXCEPT ![b] = cell[h], ![h] = NULL]
  BY <1>1, <1>2, RemovedIs, HeadsAre
<1>4. b \in Addresses /\ b # pending_removed_jobs /\ h \in Addresses /\ h # pending_removed_jobs
      /\ h # NULL /\ D \subseteq Addresses /\ pending_removed_jobs \notin D
  BY <1>1, InHandles, HeadsAre
<1>5. /\ rest[h] = NULL /\ (b # h => rest[b] = cell[h])
      /\ \A a \in Addresses \ {b, h} : rest[a] = cell[a]
      /\ rest \in Cells
  <2>1. rest \in Cells
    BY <1>1, RemovedTyped
  <2> QED BY <1>1, <1>3, <1>4, <2>1 DEF Cells
<1>6. \/ cell' = AddedLast(rest, pending_removed_jobs, h)
      \/ cell' = AddedFirst(rest, pending_removed_jobs, h)
  BY <1>2 DEF MovedTo
<1> HIDE DEF rest
<1>7. Ends(rest, pending_removed_jobs)
  <2>1. CutOut(cell, rest, b, h)
    BY <1>3, <1>5 DEF CutOut
  <2> QED BY <1>1, <1>2, <2>1, EndsStill, HeadsAre
<1>8. /\ rest[pending_removed_jobs] \in D \cup {NULL}
      /\ \A a \in D : rest[a] \in D \cup {NULL}
  <2>1. /\ cell[pending_removed_jobs] \in D \cup {NULL}
        /\ \A a \in D : cell[a] \in D \cup {NULL}
    BY DEF Closed
  <2>2. rest[pending_removed_jobs] = cell[pending_removed_jobs]
    BY <1>4, <1>5, HeadsAre
  <2>3. ASSUME NEW a \in D PROVE rest[a] \in D \cup {NULL}
    <3>1. CASE a = h
      BY <1>5, <3>1
    <3>2. CASE a = b /\ a # h
      <4>1. h \in D /\ rest[a] = cell[h]
        BY <1>3, <1>4, <1>5, <2>1, <3>2
      <4> QED BY <2>1, <4>1
    <3>3. CASE a # b /\ a # h
      <4>1. rest[a] = cell[a]
        BY <1>4, <1>5, <3>3
      <4> QED BY <2>1, <4>1
    <3> QED BY <3>1, <3>2, <3>3
  <2> QED BY <2>1, <2>2, <2>3
<1>9. ASSUME NEW e \in D \cup {pending_removed_jobs}, cell' = [rest EXCEPT ![e] = h]
      PROVE  /\ cell'[pending_removed_jobs] \in D \cup {h, NULL}
             /\ \A a \in D \cup {h} : cell'[a] \in D \cup {h, NULL}
             /\ \A a \in Addresses \ (D \cup {pending_removed_jobs, h}) : cell'[a] = rest[a]
  <2>1. cell'[e] = h /\ \A a \in Addresses \ {e} : cell'[a] = rest[a]
    BY <1>4, <1>5, <1>9, HeadsAre DEF Cells
  <2>2. \A a \in D \cup {h, pending_removed_jobs} : cell'[a] \in D \cup {h, NULL}
    BY <1>4, <1>5, <1>8, <2>1, HeadsAre
  <2> QED BY <2>1, <2>2
<1>10. ASSUME cell' = [rest EXCEPT ![h] = rest[pending_removed_jobs], ![pending_removed_jobs] = h]
       PROVE  /\ cell'[pending_removed_jobs] \in D \cup {h, NULL}
              /\ \A a \in D \cup {h} : cell'[a] \in D \cup {h, NULL}
              /\ \A a \in Addresses \ (D \cup {pending_removed_jobs, h}) : cell'[a] = rest[a]
  <2>1. /\ cell'[pending_removed_jobs] = h /\ cell'[h] = rest[pending_removed_jobs]
        /\ \A a \in Addresses \ {pending_removed_jobs, h} : cell'[a] = rest[a]
    BY <1>4, <1>5, <1>10, HeadsAre DEF Cells
  <2>2. \A a \in D \cup {h, pending_removed_jobs} : cell'[a] \in D \cup {h, NULL}
    BY <1>4, <1>8, <2>1
  <2> QED BY <2>1, <2>2
<1>11. /\ cell'[pending_removed_jobs] \in D \cup {h, NULL}
       /\ \A a \in D \cup {h} : cell'[a] \in D \cup {h, NULL}
       /\ \A a \in Addresses \ (D \cup {pending_removed_jobs, h}) : cell'[a] = rest[a]
  <2>1. CASE cell' = AddedLast(rest, pending_removed_jobs, h)
    <3>1. PICK e \in InList(rest, pending_removed_jobs) \cup {pending_removed_jobs} :
             AddedLast(rest, pending_removed_jobs, h) = [rest EXCEPT ![e] = h]
      BY <1>7, AddedLastIs, HeadsAre
    <3>2. InList(rest, pending_removed_jobs) \subseteq D
      BY <1>8, StaysIn
    <3> QED BY <1>9, <2>1, <3>1, <3>2
  <2>2. CASE cell' = AddedFirst(rest, pending_removed_jobs, h)
    <3>1. \/ cell' = [rest EXCEPT ![pending_removed_jobs] = h]
          \/ cell' = [rest EXCEPT ![h] = rest[pending_removed_jobs], ![pending_removed_jobs] = h]
      BY <2>2 DEF AddedFirst
    <3> QED BY <1>9, <1>10, <3>1
  <2> QED BY <1>6, <2>1, <2>2
<1>12. \A a \in Addresses \ (D \cup {pending_removed_jobs, h}) : cell[a] # h => cell'[a] = cell[a]
  BY <1>3, <1>5, <1>11
<1> QED BY <1>11, <1>12

LEMMA HandlerTake ==
  ASSUME Typed, TakeInv, NEW h \in Handles, Handler(h)
  PROVE  TakeInv'
<1>1. /\ UNCHANGED <<pc, op, ptr, handle, tmp>> /\ done' = done \cup {h}
  BY DEF Handler
<1>2. ASSUME Seeking PROVE \E D \in SUBSET done' : Shelter(D)'
  <2>1. PICK D \in SUBSET done : Shelter(D)
    BY <1>2 DEF TakeInv
  <2>2. /\ cell'[pending_removed_jobs] \in D \cup {h, NULL}
        /\ \A a \in D \cup {h} : cell'[a] \in D \cup {h, NULL}
        /\ \A a \in Addresses \ (D \cup {pending_removed_jobs, h}) :
              cell[a] # h => cell'[a] = cell[a]
    BY <2>1, HandlerShelters DEF Shelter
  <2>3. ASSUME NEW E, E = D \cup {h} PROVE Shelter(E)'
    <3>1. Closed(E)'
      BY <2>2, <2>3 DEF Closed
    <3>2. ASSUME op = "take", pc = "tmp"
          PROVE  cell'[ptr] = handle \/ handle \in done' \/ ptr \in E
      <4>1. cell[ptr] = handle \/ handle \in done \/ ptr \in D
        BY <2>1, <3>2 DEF Shelter
      <4>2. ptr \in Addresses /\ ptr # pending_removed_jobs
        BY <3>2 DEF Typed, TakeInv, Walking
      <4> QED BY <1>1, <2>2, <2>3, <4>1, <4>2
    <3> QED BY <1>1, <3>1, <3>2 DEF Shelter
  <2>4. D \cup {h} \in SUBSET done'
    BY <1>1
  <2> QED BY <2>3, <2>4
<1>3. Seeking' = Seeking
  BY <1>1 DEF Seeking
<1> QED BY <1>1, <1>2, <1>3 DEF TakeInv

\* A step that writes no cell and stays behind what was found.
LEMMA SameShelter ==
  ASSUME TakeInv, Seeking, UNCHANGED <<cell, done>>,
         op' = "take" /\ pc' = "tmp" => cell[ptr'] = handle'
  PROVE  \E D \in SUBSET done' : Shelter(D)'
<1>1. PICK D \in SUBSET done : Shelter(D)
  BY DEF TakeInv
<1>2. ASSUME NEW E, E = D PROVE Shelter(E)'
  BY <1>1, <1>2 DEF Shelter, Closed
<1> QED BY <1>1, <1>2

LEMMA MainTake == ASSUME Typed, TakeInv, Main PROVE TakeInv'
<1>1. ASSUME NEW h \in Handles, Enlist(h) PROVE TakeInv'
  BY <1>1, HeadsAre DEF Enlist, Remove, Goto, TakeInv, Seeking, Walking
<1>2. CASE Look \/ LookOn
  <2>1. pc' = "look" /\ Seeking /\ UNCHANGED <<cell, done>>
    BY <1>2 DEF Look, LookOn, Goto, Seeking
  <2>2. \E D \in SUBSET done' : Shelter(D)'
    BY <2>1, SameShelter
  <2> QED BY <2>1, <2>2 DEF TakeInv, Walking
<1>3. CASE NotFound
  BY <1>3, HeadsAre DEF NotFound, Remove, Goto, TakeInv, Seeking, Walking
<1>4. CASE Found
  <2>1. /\ pc = "look" /\ pc' = "while" /\ op' = "take" /\ ptr' = current_job
        /\ UNCHANGED <<cell, done>>
    BY <1>4 DEF Found, Remove, Goto
  <2>2. \E D \in SUBSET done' : Shelter(D)'
    BY <2>1, SameShelter DEF Seeking
  <2> QED BY <2>1, <2>2, HeadsAre DEF TakeInv, Walking
<1>5. CASE While
  <2>1. pc = "while" /\ pc' = "if" /\ UNCHANGED <<cell, done, op, ptr, handle, tmp>>
    BY <1>5 DEF While, Goto
  <2>2. Seeking' => \E D \in SUBSET done' : Shelter(D)'
    BY <2>1, SameShelter DEF Seeking, Walking
  <2> QED BY <2>1, <2>2 DEF TakeInv, Walking
<1>6. CASE WhileEnds
  <2>1. CASE op = "prompt"
    <3>1. /\ pc' = "line" /\ ptr = pending_removed_jobs /\ cell[ptr] = NULL
          /\ UNCHANGED <<cell, op, done>>
      BY <1>6, <2>1 DEF WhileEnds, Goto, TakeInv, Walking
    <3>2. ASSUME NEW E, E = {} PROVE Shelter(E)'
      BY <3>1, <3>2, <2>1 DEF Shelter, Closed
    <3>3. \E D \in SUBSET done' : Shelter(D)'
      BY <3>2
    <3> QED BY <3>1, <3>3 DEF TakeInv, Walking
  <2>2. CASE op # "prompt"
    BY <1>6, <2>2 DEF WhileEnds, Crash, Goto, TakeInv, Walking, Seeking
  <2> QED BY <2>1, <2>2
<1>7. CASE If
  <2>1. CASE cell[ptr] = NULL
    BY <1>7, <2>1 DEF If, Crash, Goto, TakeInv, Walking, Seeking
  <2>2. CASE cell[ptr] # NULL
    <3>1. /\ pc = "if" /\ pc' = IF Matches(cell[ptr]) THEN "tmp" ELSE "next"
          /\ UNCHANGED <<cell, done, op, ptr, handle, tmp>>
      BY <1>7, <2>2 DEF If, Goto
    <3>2. op = "take" /\ pc' = "tmp" => cell[ptr] = handle
      BY <3>1 DEF Matches
    <3>3. op = "prompt" => pc' = "tmp"
      BY <3>1 DEF Matches
    <3>4. Seeking' => \E D \in SUBSET done' : Shelter(D)'
      BY <3>1, <3>2, SameShelter DEF Seeking, Walking
    <3> QED BY <3>1, <3>3, <3>4 DEF TakeInv, Walking
  <2> QED BY <2>1, <2>2
<1>8. CASE NextHandle
  <2>1. CASE cell[ptr] = NULL
    BY <1>8, <2>1 DEF NextHandle, Crash, Goto, TakeInv, Walking, Seeking
  <2>2. CASE cell[ptr] # NULL
    <3>1. /\ pc = "next" /\ pc' = "while" /\ ptr' = cell[ptr]
          /\ UNCHANGED <<cell, done, op, handle, tmp>>
      BY <1>8, <2>2 DEF NextHandle, Goto
    <3>2. op = "take" /\ cell[ptr] # pending_removed_jobs
      BY <2>2, <3>1, HeadsAre DEF TakeInv, Typed, TypeOK, Walking
    <3>3. Seeking' => \E D \in SUBSET done' : Shelter(D)'
      BY <3>1, SameShelter DEF Seeking, Walking
    <3> QED BY <3>1, <3>2, <3>3 DEF TakeInv, Walking
  <2> QED BY <2>1, <2>2
<1>9. CASE Tmp
  <2>1. /\ pc = "tmp" /\ pc' = "load" /\ tmp' = cell[ptr]
        /\ UNCHANGED <<cell, done, op, ptr, handle>>
    BY <1>9 DEF Tmp, Goto
  <2>2. ASSUME op = "take" PROVE tmp' = handle \/ handle \in done \/ tmp' \in done \cup {NULL}
    <3>1. PICK D \in SUBSET done : Shelter(D)
      BY <2>1, <2>2 DEF TakeInv, Seeking, Walking
    <3> QED BY <2>1, <2>2, <3>1 DEF Shelter, Closed
  <2> QED BY <2>1, <2>2 DEF TakeInv, Walking, Seeking
<1>10. CASE Load
  BY <1>10 DEF Load, Crash, Goto, TakeInv, Walking, Seeking
<1>11. CASE Store
  BY <1>11 DEF Store, Goto, TakeInv, Walking, Seeking
<1>12. CASE Clear
  BY <1>12 DEF Clear, Crash, Goto, TakeInv, Walking, Seeking
<1>13. CASE Free
  BY <1>13, HeadsAre DEF Free, Remove, Goto, TakeInv, Walking, Seeking
<1>14. CASE AddWalk \/ AddEnd \/ AddStep
  BY <1>14 DEF AddWalk, AddEnd, AddStep, Crash, Goto, TakeInv, Walking, Seeking
<1>15. CASE Put
  BY <1>15, HeadsAre DEF Put, Remove, Goto, TakeInv, Walking, Seeking
<1> QED BY <1>1, <1>2, <1>3, <1>4, <1>5, <1>6, <1>7, <1>8, <1>9, <1>10, <1>11, <1>12, <1>13,
           <1>14, <1>15 DEF Main

LEMMA InitTake == Init => TakeInv
<1> SUFFICES ASSUME Init PROVE TakeInv
  OBVIOUS
<1>1. cell[pending_removed_jobs] = NULL /\ pc = "line"
  BY HeadsAre DEF Init
<1>2. Shelter({})
  BY <1>1 DEF Shelter, Closed
<1> QED BY <1>1, <1>2 DEF TakeInv, Walking

LEMMA TakeStep == ListInv /\ TakeInv /\ [Next]_vars => TakeInv'
<1> SUFFICES ASSUME ListInv, TakeInv, [Next]_vars PROVE TakeInv'
  OBVIOUS
<1>1. Typed
  BY DEF ListInv
<1>2. CASE UNCHANGED vars
  BY <1>2 DEF vars, TakeInv, Seeking, Shelter, Closed
<1> QED BY <1>1, <1>2, HandlerTake, MainTake DEF Next

(* For any number of handles, and wherever the handler interrupts: what fg  *)
(* or bg removes from the list is the job get_job_handle found, unless the  *)
(* one or the other is done or nothing was taken.                           *)
THEOREM TheirOwnJob == Spec => []TakesItsJob
<1>1. TakeInv => TakesItsJob
  BY DEF TakeInv, TakesItsJob
<1> QED BY <1>1, InitTake, TakeStep, ListInvariance, PTL DEF Spec

=============================================================================
