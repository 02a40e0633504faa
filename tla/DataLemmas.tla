----------------------------- MODULE DataLemmas -----------------------------
(***************************************************************************)
(* Facts about numbers and sequences that the proofs about the scripts     *)
(* rest on: induction, as a fact about sets of numbers, what a loop        *)
(* computes that joins sequences or adds up numbers, and what is known of  *)
(* two sequences put together.                                             *)
(***************************************************************************)
EXTENDS Integers, Sequences, WellFoundedInduction, TLAPS

\* The order of the natural numbers, as a relation.
Below == {ss \in Nat \X Nat : ss[1] < ss[2]}

\* There is no infinite descent in it.
LEMMA BelowWF == IsWellFoundedOn(Below, Nat)
<1>1. Below = OpToRel(<, Nat)
  BY Zenon DEF Below, OpToRel
<1>2. QED
  BY <1>1, NatLessThanWellFounded, Zenon

\* A set of natural numbers that is not empty has a least member.
LEMMA LeastNat == ASSUME NEW T \in SUBSET Nat, T # {} PROVE \E x \in T : \A y \in T : x <= y
<1>1. PICK x \in T : \A y \in T : ~ (<<y, x>> \in Below)
  BY BelowWF, WFMin
<1>2. ASSUME NEW y \in T PROVE x <= y
  <2>1. ~ (<<y, x>> \in Below)
    BY <1>1
  <2>2. y \in Nat /\ x \in Nat
    OBVIOUS
  <2>3. y < x => <<y, x>> \in Below
    BY <2>2, Z3 DEF Below
  <2>4. QED
    BY <2>1, <2>2, <2>3
<1>3. QED
  BY <1>2

\* A set of natural numbers with zero, and with the successor of each of its
\* members, has all of them.
LEMMA Induction == ASSUME NEW S \in SUBSET Nat, 0 \in S, \A n \in S : n + 1 \in S PROVE S = Nat
<1>1. SUFFICES ASSUME Nat \ S # {} PROVE FALSE
  OBVIOUS
<1>2. PICK x \in Nat \ S : \A y \in Nat \ S : x <= y
  BY <1>1, LeastNat
<1>3. x # 0 /\ x \in Nat
  BY <1>2
<1>4. x - 1 \in Nat /\ ~(x <= x - 1)
  BY <1>3
<1>5. x - 1 \in S
  BY <1>2, <1>4
<1>6. QED
  BY <1>2, <1>3, <1>5

\* The elements of a sequence are of the set it is over.
LEMMA ElementsOf ==
  ASSUME NEW R, NEW q \in Seq(R)
  PROVE  \A k \in 1..Len(q) : q[k] \in R
OBVIOUS

\* A function on 1..n is a sequence of n elements.
LEMMA FunctionIsSeq ==
  ASSUME NEW R, NEW n \in Nat, NEW q \in [1..n -> R]
  PROVE  q \in Seq(R) /\ Len(q) = n
OBVIOUS

\* A sequence over a set is one over any larger set.
LEMMA SeqMonotone ==
  ASSUME NEW S, NEW T, S \subseteq T, NEW q \in Seq(S)
  PROVE  q \in Seq(T)
OBVIOUS

\* Changing one element of a sequence leaves its length and the others alone.
LEMMA SeqExcept ==
  ASSUME NEW q \in Seq(Nat), NEW k, NEW v \in Nat
  PROVE  /\ [q EXCEPT ![k] = v] \in Seq(Nat)
         /\ Len([q EXCEPT ![k] = v]) = Len(q)
         /\ \A i \in 1..Len(q) : [q EXCEPT ![k] = v][i] = IF i = k THEN v ELSE q[i]
<1> DEFINE new == [q EXCEPT ![k] = v]
<1>1. Len(q) \in Nat /\ DOMAIN q = 1..Len(q) /\ q \in [1..Len(q) -> Nat]
  OBVIOUS
<1>2. /\ new \in [1..Len(q) -> Nat]
      /\ \A i \in 1..Len(q) : new[i] = IF i = k THEN v ELSE q[i]
  BY <1>1
<1> HIDE DEF new
<1>3. new \in Seq(Nat) /\ Len(new) = Len(q)
  BY <1>1, <1>2
<1>4. QED
  BY <1>2, <1>3 DEF new

\* The equation that defines, step by step, the concatenation of g[1], g[2], ...
Joined(g, n, f) == [k \in 0..n |-> IF k = 0 THEN << >> ELSE f[k - 1] \o g[k]]

\* What the equation says of its solutions.
LEMMA JoinedStep ==
  ASSUME NEW n \in Nat, NEW g, NEW f, f = Joined(g, n, f)
  PROVE  /\ f[0] = << >>
         /\ \A k \in 1..n : f[k] = f[k - 1] \o g[k]
<1>1. \A k \in 0..n : Joined(g, n, f)[k] = IF k = 0 THEN << >> ELSE f[k - 1] \o g[k]
  <2>1. ASSUME NEW h
        PROVE  \A k \in 0..n : Joined(g, n, h)[k] = IF k = 0 THEN << >> ELSE h[k - 1] \o g[k]
    BY Zenon DEF Joined
  <2>2. QED
    BY <2>1, Zenon
<1>2. \A k \in 0..n : f[k] = IF k = 0 THEN << >> ELSE f[k - 1] \o g[k]
  BY <1>1, Zenon
<1>3. 0 \in 0..n /\ \A k \in 1..n : k \in 0..n /\ k # 0
  OBVIOUS
<1>4. QED
  BY <1>2, <1>3, Zenon

\* It has a solution, so a function defined by it is one.
LEMMA JoinedExists ==
  ASSUME NEW n \in Nat, NEW g
  PROVE  \E f : f = Joined(g, n, f)
<1> DEFINE S == {m \in Nat : \E f : f = Joined(g, m, f)}
<1>1. 0 \in S
  <2> DEFINE f == [k \in 0..0 |-> << >>]
  <2>1. f = Joined(g, 0, f)
    BY DEF Joined
  <2>2. QED
    BY <2>1
<1>2. ASSUME NEW m \in S PROVE m + 1 \in S
  <2>1. PICK f : f = Joined(g, m, f)
    OBVIOUS
  <2>2. f[0] = << >> /\ \A k \in 1..m : f[k] = f[k - 1] \o g[k]
    BY <2>1, JoinedStep, ZenonT(60)
  <2> DEFINE h == [k \in 0..m + 1 |-> IF k = m + 1 THEN f[m] \o g[m + 1] ELSE f[k]]
  <2>3. h[m + 1] = f[m] \o g[m + 1] /\ \A k \in 0..m : h[k] = f[k]
    OBVIOUS
  <2>4. ASSUME NEW k \in 0..m + 1 PROVE h[k] = Joined(g, m + 1, h)[k]
    <3> HIDE DEF h
    <3>1. Joined(g, m + 1, h)[k] = IF k = 0 THEN << >> ELSE h[k - 1] \o g[k]
      BY DEF Joined
    <3>2. CASE k = 0
      BY <2>2, <2>3, <3>1, <3>2
    <3>3. CASE k = m + 1
      <4>1. k # 0 /\ k - 1 = m /\ m \in 0..m
        BY <1>2, <3>3 DEF S
      <4>2. h[k - 1] = f[m]
        BY <2>3, <4>1
      <4>3. QED
        BY <2>3, <3>1, <3>3, <4>1, <4>2
    <3>4. CASE k # 0 /\ k # m + 1
      <4>1. k \in 1..m /\ k - 1 \in 0..m /\ k \in 0..m
        BY <3>4
      <4>2. QED
        BY <2>2, <2>3, <3>1, <3>4, <4>1
    <3>5. QED
      BY <3>2, <3>3, <3>4
  <2>5. DOMAIN h = 0..m + 1 /\ h = [k \in 0..m + 1 |-> h[k]]
    OBVIOUS
  <2> HIDE DEF h
  <2>6. Joined(g, m + 1, h) = [k \in 0..m + 1 |-> Joined(g, m + 1, h)[k]]
    BY DEF Joined
  <2>7. h = Joined(g, m + 1, h)
    BY <2>4, <2>5, <2>6
  <2>8. QED
    BY <2>7
<1> HIDE DEF S
<1>3. S \in SUBSET Nat
  BY DEF S
<1>4. S = Nat
  BY <1>1, <1>2, <1>3, Induction
<1>5. QED
  BY <1>4 DEF S

\* f joins the first k sequences of g, for each k.
JoinedWell(R, n, g, f) ==
    /\ f[0] = << >>
    /\ \A k \in 0..n : f[k] \in Seq(R)
    /\ \A k \in 1..n : f[k] = f[k - 1] \o g[k] /\ Len(f[k]) = Len(f[k - 1]) + Len(g[k])

\* What is joined from sequences over R is one, as long as they are together.
LEMMA Joining ==
  ASSUME NEW R, NEW n \in Nat, NEW g \in [1..n -> Seq(R)], NEW f, f = Joined(g, n, f)
  PROVE  JoinedWell(R, n, g, f)
<1>1. f[0] = << >> /\ \A k \in 1..n : f[k] = f[k - 1] \o g[k]
  BY JoinedStep
<1> DEFINE S == {m \in Nat : m <= n => f[m] \in Seq(R)}
<1>2. 0 \in S
  <2>1. << >> \in Seq(R)
    OBVIOUS
  <2>2. QED
    BY <1>1, <2>1
<1>3. ASSUME NEW m \in S PROVE m + 1 \in S
  <2>1. SUFFICES ASSUME m + 1 <= n PROVE f[m + 1] \in Seq(R)
    OBVIOUS
  <2>2. m + 1 \in 1..n /\ (m + 1) - 1 = m /\ m <= n
    BY <2>1
  <2>3. f[m + 1] = f[m] \o g[m + 1] /\ f[m] \in Seq(R) /\ g[m + 1] \in Seq(R)
    BY <1>1, <2>2
  <2>4. QED
    BY <2>3
<1> HIDE DEF S
<1>4. S \in SUBSET Nat
  BY DEF S
<1>5. S = Nat
  BY <1>2, <1>3, <1>4, Induction
<1>6. \A k \in 0..n : f[k] \in Seq(R)
  BY <1>5 DEF S
<1>7. ASSUME NEW k \in 1..n PROVE Len(f[k]) = Len(f[k - 1]) + Len(g[k])
  <2>1. k - 1 \in 0..n
    OBVIOUS
  <2>2. f[k - 1] \in Seq(R) /\ g[k] \in Seq(R) /\ f[k] = f[k - 1] \o g[k]
    BY <1>1, <1>6, <2>1
  <2>3. QED
    BY <2>2
<1>8. QED
  BY <1>1, <1>6, <1>7 DEF JoinedWell

\* The equation that defines, step by step, the sum w[1] + w[2] + ...
Summed(w, n, f) == [k \in 0..n |-> IF k = 0 THEN 0 ELSE f[k - 1] + w[k]]

\* What the equation says of its solutions.
LEMMA SummedStep ==
  ASSUME NEW n \in Nat, NEW w, NEW f, f = Summed(w, n, f)
  PROVE  /\ f[0] = 0
         /\ \A k \in 1..n : f[k] = f[k - 1] + w[k]
<1>1. \A k \in 0..n : Summed(w, n, f)[k] = IF k = 0 THEN 0 ELSE f[k - 1] + w[k]
  <2>1. ASSUME NEW h
        PROVE  \A k \in 0..n : Summed(w, n, h)[k] = IF k = 0 THEN 0 ELSE h[k - 1] + w[k]
    BY Zenon DEF Summed
  <2>2. QED
    BY <2>1, Zenon
<1>2. \A k \in 0..n : f[k] = IF k = 0 THEN 0 ELSE f[k - 1] + w[k]
  BY <1>1, Zenon
<1>3. 0 \in 0..n /\ \A k \in 1..n : k \in 0..n /\ k # 0
  OBVIOUS
<1>4. QED
  BY <1>2, <1>3, Zenon

\* It has a solution.
LEMMA SummedExists ==
  ASSUME NEW n \in Nat, NEW w
  PROVE  \E f : f = Summed(w, n, f)
<1> DEFINE S == {m \in Nat : \E f : f = Summed(w, m, f)}
<1>1. 0 \in S
  <2> DEFINE f == [k \in 0..0 |-> 0]
  <2>1. f = Summed(w, 0, f)
    BY DEF Summed
  <2>2. QED
    BY <2>1
<1>2. ASSUME NEW m \in S PROVE m + 1 \in S
  <2>1. PICK f : f = Summed(w, m, f)
    OBVIOUS
  <2>2. f[0] = 0 /\ \A k \in 1..m : f[k] = f[k - 1] + w[k]
    BY <2>1, SummedStep, ZenonT(60)
  <2> DEFINE h == [k \in 0..m + 1 |-> IF k = m + 1 THEN f[m] + w[m + 1] ELSE f[k]]
  <2>3. h[m + 1] = f[m] + w[m + 1] /\ \A k \in 0..m : h[k] = f[k]
    OBVIOUS
  <2>4. ASSUME NEW k \in 0..m + 1 PROVE h[k] = Summed(w, m + 1, h)[k]
    <3> HIDE DEF h
    <3>1. Summed(w, m + 1, h)[k] = IF k = 0 THEN 0 ELSE h[k - 1] + w[k]
      BY DEF Summed
    <3>2. CASE k = 0
      BY <2>2, <2>3, <3>1, <3>2
    <3>3. CASE k = m + 1
      <4>1. k # 0 /\ k - 1 = m /\ m \in 0..m
        BY <1>2, <3>3 DEF S
      <4>2. h[k - 1] = f[m]
        BY <2>3, <4>1
      <4>3. QED
        BY <2>3, <3>1, <3>3, <4>1, <4>2
    <3>4. CASE k # 0 /\ k # m + 1
      <4>1. k \in 1..m /\ k - 1 \in 0..m /\ k \in 0..m
        BY <3>4
      <4>2. QED
        BY <2>2, <2>3, <3>1, <3>4, <4>1
    <3>5. QED
      BY <3>2, <3>3, <3>4
  <2>5. DOMAIN h = 0..m + 1 /\ h = [k \in 0..m + 1 |-> h[k]]
    OBVIOUS
  <2> HIDE DEF h
  <2>6. Summed(w, m + 1, h) = [k \in 0..m + 1 |-> Summed(w, m + 1, h)[k]]
    BY DEF Summed
  <2>7. h = Summed(w, m + 1, h)
    BY <2>4, <2>5, <2>6
  <2>8. QED
    BY <2>7
<1> HIDE DEF S
<1>3. S \in SUBSET Nat
  BY DEF S
<1>4. S = Nat
  BY <1>1, <1>2, <1>3, Induction
<1>5. QED
  BY <1>4 DEF S

\* Sums of natural numbers are natural numbers.
LEMMA SummedNat ==
  ASSUME NEW n \in Nat, NEW w, \A k \in 1..n : w[k] \in Nat, NEW f, f = Summed(w, n, f)
  PROVE  \A k \in 0..n : f[k] \in Nat
<1>1. f[0] = 0 /\ \A k \in 1..n : f[k] = f[k - 1] + w[k]
  BY SummedStep
<1> DEFINE S == {m \in Nat : m <= n => f[m] \in Nat}
<1>2. 0 \in S
  BY <1>1
<1>3. ASSUME NEW m \in S PROVE m + 1 \in S
  <2>1. SUFFICES ASSUME m + 1 <= n PROVE f[m + 1] \in Nat
    OBVIOUS
  <2>2. m + 1 \in 1..n /\ (m + 1) - 1 = m /\ m <= n
    BY <2>1
  <2>3. f[m + 1] = f[m] + w[m + 1] /\ f[m] \in Nat /\ w[m + 1] \in Nat
    BY <1>1, <2>2
  <2>4. QED
    BY <2>3
<1> HIDE DEF S
<1>4. S \in SUBSET Nat
  BY DEF S
<1>5. S = Nat
  BY <1>2, <1>3, <1>4, Induction
<1>6. QED
  BY <1>5 DEF S

\* Two solutions of the equation, for pieces that are the same as far as both go,
\* are the same as far as both go.
LEMMA JoinedSame ==
  ASSUME NEW n \in Nat, NEW m \in Nat, n <= m, NEW g, NEW h, \A k \in 1..n : g[k] = h[k],
         NEW e, e = Joined(g, n, e), NEW f, f = Joined(h, m, f)
  PROVE  \A k \in 0..n : e[k] = f[k]
<1>1. e[0] = << >> /\ \A k \in 1..n : e[k] = e[k - 1] \o g[k]
  BY JoinedStep, Zenon
<1>2. f[0] = << >> /\ \A k \in 1..m : f[k] = f[k - 1] \o h[k]
  BY JoinedStep, Zenon
<1> DEFINE S == {k \in Nat : k <= n => e[k] = f[k]}
<1>3. 0 \in S
  BY <1>1, <1>2
<1>4. ASSUME NEW k \in S PROVE k + 1 \in S
  <2>1. SUFFICES ASSUME k + 1 <= n PROVE e[k + 1] = f[k + 1]
    OBVIOUS
  <2>2. k + 1 \in 1..n /\ k + 1 \in 1..m /\ (k + 1) - 1 = k /\ e[k] = f[k]
    BY <2>1
  <2>3. e[k + 1] = e[k] \o g[k + 1] /\ f[k + 1] = f[k] \o h[k + 1] /\ g[k + 1] = h[k + 1]
    BY <1>1, <1>2, <2>2
  <2>4. QED
    BY <2>2, <2>3
<1> HIDE DEF S
<1>5. S \in SUBSET Nat
  BY DEF S
<1>6. S = Nat
  BY <1>3, <1>4, <1>5, Induction
<1>7. QED
  BY <1>6 DEF S

\* The first n pieces of g, joined: what such a loop computes.
JoinOf(g, n) == (CHOOSE f : f = Joined(g, n, f))[n]

LEMMA JoinOfNone == ASSUME NEW g PROVE JoinOf(g, 0) = << >>
<1>1. PICK f : f = (CHOOSE e : e = Joined(g, 0, e))
  OBVIOUS
<1>2. f = Joined(g, 0, f)
  BY <1>1, JoinedExists
<1>3. f[0] = << >>
  BY <1>2, JoinedStep
<1>4. QED
  BY <1>1, <1>3 DEF JoinOf

\* One more piece
LEMMA JoinOfNext ==
  ASSUME NEW n \in Nat, NEW g, NEW h, \A k \in 1..n : g[k] = h[k]
  PROVE  JoinOf(h, n + 1) = JoinOf(g, n) \o h[n + 1]
<1>1. PICK e : e = (CHOOSE f : f = Joined(g, n, f))
  OBVIOUS
<1>2. PICK f : f = (CHOOSE e1 : e1 = Joined(h, n + 1, e1))
  OBVIOUS
<1>3. e = Joined(g, n, e)
  BY <1>1, JoinedExists
<1>4. n + 1 \in Nat /\ n <= n + 1 /\ n \in 0..n /\ n + 1 \in 1..n + 1 /\ (n + 1) - 1 = n
  OBVIOUS
<1>5. f = Joined(h, n + 1, f)
  <2>1. \E e1 : e1 = Joined(h, n + 1, e1)
    BY <1>4, JoinedExists
  <2>2. QED
    BY <1>2, <2>1
<1>6. \A k \in 0..n : e[k] = f[k]
  BY <1>3, <1>4, <1>5, JoinedSame
<1>7. f[n + 1] = f[n] \o h[n + 1]
  <2>1. PICK m \in Nat : m = n + 1
    BY <1>4
  <2>2. f = Joined(h, m, f)
    BY <1>5, <2>1
  <2>3. \A k \in 1..m : f[k] = f[k - 1] \o h[k]
    BY <2>2, JoinedStep, Zenon
  <2>4. QED
    BY <1>4, <2>1, <2>3
<1>8. QED
  BY <1>1, <1>2, <1>4, <1>6, <1>7 DEF JoinOf

\* Two solutions of the equation, for numbers that are the same as far as both go,
\* are the same as far as both go.
LEMMA SummedSame ==
  ASSUME NEW n \in Nat, NEW m \in Nat, n <= m, NEW g, NEW h, \A k \in 1..n : g[k] = h[k],
         NEW e, e = Summed(g, n, e), NEW f, f = Summed(h, m, f)
  PROVE  \A k \in 0..n : e[k] = f[k]
<1>1. e[0] = 0 /\ \A k \in 1..n : e[k] = e[k - 1] + g[k]
  BY SummedStep, Zenon
<1>2. f[0] = 0 /\ \A k \in 1..m : f[k] = f[k - 1] + h[k]
  BY SummedStep, Zenon
<1> DEFINE S == {k \in Nat : k <= n => e[k] = f[k]}
<1>3. 0 \in S
  BY <1>1, <1>2
<1>4. ASSUME NEW k \in S PROVE k + 1 \in S
  <2>1. SUFFICES ASSUME k + 1 <= n PROVE e[k + 1] = f[k + 1]
    OBVIOUS
  <2>2. k + 1 \in 1..n /\ k + 1 \in 1..m /\ (k + 1) - 1 = k /\ e[k] = f[k]
    BY <2>1
  <2>3. e[k + 1] = e[k] + g[k + 1] /\ f[k + 1] = f[k] + h[k + 1] /\ g[k + 1] = h[k + 1]
    BY <1>1, <1>2, <2>2
  <2>4. QED
    BY <2>2, <2>3
<1> HIDE DEF S
<1>5. S \in SUBSET Nat
  BY DEF S
<1>6. S = Nat
  BY <1>3, <1>4, <1>5, Induction
<1>7. QED
  BY <1>6 DEF S

\* The first n numbers of g, added up.
SumOf(g, n) == (CHOOSE f : f = Summed(g, n, f))[n]

LEMMA SumOfNone == ASSUME NEW g PROVE SumOf(g, 0) = 0
<1>1. PICK f : f = (CHOOSE e : e = Summed(g, 0, e))
  OBVIOUS
<1>2. f = Summed(g, 0, f)
  BY <1>1, SummedExists
<1>3. f[0] = 0
  BY <1>2, SummedStep
<1>4. QED
  BY <1>1, <1>3 DEF SumOf

\* One more number
LEMMA SumOfNext ==
  ASSUME NEW n \in Nat, NEW g, NEW h, \A k \in 1..n : g[k] = h[k]
  PROVE  SumOf(h, n + 1) = SumOf(g, n) + h[n + 1]
<1>1. PICK e : e = (CHOOSE f : f = Summed(g, n, f))
  OBVIOUS
<1>2. PICK f : f = (CHOOSE e1 : e1 = Summed(h, n + 1, e1))
  OBVIOUS
<1>3. e = Summed(g, n, e)
  BY <1>1, SummedExists
<1>4. n + 1 \in Nat /\ n <= n + 1 /\ n \in 0..n /\ n + 1 \in 1..n + 1 /\ (n + 1) - 1 = n
  OBVIOUS
<1>5. f = Summed(h, n + 1, f)
  <2>1. \E e1 : e1 = Summed(h, n + 1, e1)
    BY <1>4, SummedExists
  <2>2. QED
    BY <1>2, <2>1
<1>6. \A k \in 0..n : e[k] = f[k]
  BY <1>3, <1>4, <1>5, SummedSame
<1>7. f[n + 1] = f[n] + h[n + 1]
  <2>1. PICK m \in Nat : m = n + 1
    BY <1>4
  <2>2. f = Summed(h, m, f)
    BY <1>5, <2>1
  <2>3. \A k \in 1..m : f[k] = f[k - 1] + h[k]
    BY <2>2, SummedStep, Zenon
  <2>4. QED
    BY <1>4, <2>1, <2>3
<1>8. QED
  BY <1>1, <1>2, <1>4, <1>6, <1>7 DEF SumOf

\* What is known of two sequences put together.
LEMMA Concats ==
  ASSUME NEW R, NEW a \in Seq(R), NEW b \in Seq(R)
  PROVE  /\ a \o b \in Seq(R) /\ Len(a \o b) = Len(a) + Len(b)
         /\ Len(a) \in Nat /\ Len(b) \in Nat
         /\ \A i \in 1..Len(a) : (a \o b)[i] = a[i]
         /\ \A i \in 1..Len(b) : (a \o b)[Len(a) + i] = b[i]
OBVIOUS

\* Putting sequences together is associative, and nothing can be put behind one.
LEMMA Concats3 ==
  ASSUME NEW R, NEW a \in Seq(R), NEW b \in Seq(R), NEW c \in Seq(R)
  PROVE  (a \o b) \o c = a \o (b \o c) /\ a \o << >> = a /\ << >> \o a = a /\ << >> \in Seq(R)
OBVIOUS

\* The same, for sequences of numbers.
LEMMA NatConcats == \A a, b, c \in Seq(Nat) : (a \o b) \o c = a \o (b \o c)
BY Concats3, SMTT(60)

\* Sequences are the same when their elements are.
LEMMA SameElements ==
  ASSUME NEW R, NEW a \in Seq(R), NEW b \in Seq(R),
         Len(a) = Len(b), \A i \in 1..Len(a) : a[i] = b[i]
  PROVE  a = b
OBVIOUS

\* Putting one element behind two sequences
LEMMA OneBehind ==
  ASSUME NEW a \in Seq(Nat), NEW b \in Seq(Nat), NEW x \in Nat
  PROVE  (a \o b) \o <<x>> = a \o Append(b, x) /\ a \o <<x>> = Append(a, x)
<1>1. \A d \in Seq(Nat) : d \o <<x>> = Append(d, x)
  OBVIOUS
<1>2. PICK c \in Seq(Nat) : c = <<x>>
  <2>1. <<x>> \in Seq(Nat)
    OBVIOUS
  <2>2. QED
    BY <2>1, Zenon
<1>3. \A d \in Seq(Nat) : (a \o b) \o d = a \o (b \o d)
  BY SMTT(60)
<1>4. QED
  BY <1>1, <1>2, <1>3, Zenon
================================================================================
