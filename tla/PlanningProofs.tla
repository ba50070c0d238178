--------------------------- MODULE PlanningProofs ---------------------------
(***************************************************************************)
(* What Topology, Planning and Aggregate promise, for lists of any length, *)
(* any names, any requests, any answers of a model, and any results.       *)
(***************************************************************************)
EXTENDS Aggregate, SequenceTheorems, FiniteSetTheorems, TLAPS

-----------------------------------------------------------------------------
(* Counting up.  A list is worked through by a recursive function over its  *)
(* positions; what holds of the first value and is kept by each step holds  *)
(* of all.                                                                  *)

\* A set that has 0 and the successors up to n has all the numbers up to n.
LEMMA CountUp ==
    ASSUME NEW n \in Nat, NEW S, 0 \in S,
           \A k \in 0..n : k # 0 /\ k - 1 \in S => k \in S
    PROVE  0..n \subseteq S
<1> DEFINE Bad == {k \in 0..n : k \notin S}
<1> SUFFICES ASSUME Bad # {} PROVE FALSE
  OBVIOUS
<1>1. PICK m \in Bad : \A y \in Bad : ~ (<<y, m>> \in OpToRel(<, Nat))
  <2>1. Bad \subseteq Nat
    OBVIOUS
  <2> HIDE DEF Bad
  <2> QED BY <2>1, NatLessThanWellFounded, WFMin
<1>2. m # 0 /\ m \in 0..n /\ m \notin S
  OBVIOUS
<1>3. m - 1 \in 0..n /\ m - 1 < m /\ m - 1 \in Nat /\ m \in Nat
  BY <1>2
<1>4. m - 1 \notin Bad
  BY <1>1, <1>3 DEF OpToRel
<1> QED BY <1>2, <1>3, <1>4

\* f starts with a value and follows a step function up to n.
Follows(f, n, V, a, step) ==
    f \in [0..n -> V] /\ f[0] = a /\ \A k \in 1..n : f[k] = step[k][f[k-1]]

\* There is such a function.
LEMMA RecursionExists ==
    ASSUME NEW n \in Nat, NEW V, NEW a \in V, NEW step \in [1..n -> [V -> V]]
    PROVE  \E f : Follows(f, n, V, a, step)
<1> DEFINE Reached == {m \in 0..n : \E f : Follows(f, m, V, a, step)}
<1>1. 0 \in Reached
  <2> DEFINE f == [k \in 0..0 |-> a]
  <2>1. f \in [0..0 -> V] /\ f[0] = a /\ 1..0 = {} /\ 0 \in 0..n
    OBVIOUS
  <2>2. Follows(f, 0, V, a, step)
    BY <2>1 DEF Follows
  <2> QED BY <2>1, <2>2
<1>2. ASSUME NEW m \in 0..n, m # 0, m - 1 \in Reached PROVE m \in Reached
  <2>1. PICK f : Follows(f, m - 1, V, a, step)
    BY <1>2
  <2>2. /\ f \in [0..(m-1) -> V] /\ f[0] = a /\ \A k \in 1..(m-1) : f[k] = step[k][f[k-1]]
    BY <2>1 DEF Follows
  <2> DEFINE g == [k \in 0..m |-> IF k = m THEN step[m][f[m-1]] ELSE f[k]]
  <2>3. m \in 1..n /\ m - 1 \in 0..(m-1) /\ \A k \in 0..m : k = m \/ k \in 0..(m-1)
    BY <1>2
  <2>4. g \in [0..m -> V]
    BY <2>2, <2>3
  <2>5. g[0] = a
    BY <2>2, <2>3
  <2>6. ASSUME NEW k \in 1..m PROVE g[k] = step[k][g[k-1]]
    <3>1. k \in 0..m /\ k - 1 \in 0..(m-1) /\ k - 1 \in 0..m /\ k - 1 # m
      BY <2>3
    <3>2. CASE k = m
      BY <3>1, <3>2
    <3>3. CASE k # m
      <4>1. k \in 1..(m-1)
        BY <2>3, <3>3
      <4> QED BY <2>2, <3>1, <3>3, <4>1
    <3> QED BY <3>2, <3>3
  <2> HIDE DEF g
  <2>7. Follows(g, m, V, a, step)
    BY <2>4, <2>5, <2>6 DEF Follows
  <2> QED BY <2>7
<1> HIDE DEF Reached
<1>3. 0..n \subseteq Reached
  BY <1>1, <1>2, CountUp
<1>4. n \in Reached
  BY <1>3
<1> QED BY <1>4 DEF Reached

-----------------------------------------------------------------------------
(* Lists of names.                                                         *)

\* The names up to position k of a list without repetitions and blanks.
Listed(N, items, k) ==
    {s \in Seq(N \ {Blank}) : /\ \A i, j \in 1..Len(s) : s[i] = s[j] => i = j
                              /\ ToSet(s) = {items[i] : i \in 1..k} \ {Blank}}

\* NormalizeList leaves each name once, and no blank one.
LEMMA Normalized ==
    ASSUME NEW N, NEW items \in Seq(N)
    PROVE  NormalizeList(items) \in Listed(N, items, Len(items))
<1> DEFINE n == Len(items)
           Body(f) == [k \in 0..n |->
                         IF k = 0 THEN <<>>
                         ELSE IF items[k] = Blank \/ items[k] \in ToSet(f[k-1]) THEN f[k-1]
                         ELSE Append(f[k-1], items[k])]
           out == CHOOSE f : f = Body(f)
<1>1. NormalizeList(items) = out[n]
  BY DEF NormalizeList
<1>2. n \in Nat /\ \A k \in 1..n : items[k] \in N
  BY ElementOfSeq
<1>3. out = Body(out)
  <2> DEFINE V == Seq(N)
             step == [k \in 1..n |-> [s \in V |->
                        IF items[k] = Blank \/ items[k] \in ToSet(s) THEN s ELSE Append(s, items[k])]]
  <2>1. <<>> \in V
    OBVIOUS
  <2>2. step \in [1..n -> [V -> V]]
    <3> SUFFICES ASSUME NEW k \in 1..n, NEW s \in V PROVE step[k][s] \in V
      OBVIOUS
    <3>1. items[k] \in N
      BY <1>2
    <3>2. Append(s, items[k]) \in V
      BY <3>1, AppendProperties
    <3> QED BY <3>1, <3>2
  <2> HIDE DEF step, V, n
  <2>3. PICK f : f \in [0..n -> V] /\ f[0] = <<>> /\ \A k \in 1..n : f[k] = step[k][f[k-1]]
    <3>1. \E f : Follows(f, n, V, <<>>, step)
      BY <1>2, <2>1, <2>2, RecursionExists
    <3> QED BY <3>1 DEF Follows
  <2>4. ASSUME NEW k \in 1..n
        PROVE  f[k] = IF items[k] = Blank \/ items[k] \in ToSet(f[k-1]) THEN f[k-1]
                      ELSE Append(f[k-1], items[k])
    <3>1. k - 1 \in 0..n /\ f[k-1] \in V
      BY <1>2, <2>3
    <3>2. step[k][f[k-1]] = IF items[k] = Blank \/ items[k] \in ToSet(f[k-1]) THEN f[k-1]
                              ELSE Append(f[k-1], items[k])
      BY <3>1 DEF step
    <3> QED BY <2>3, <3>2
  <2>5. \A k \in 0..n : k = 0 \/ k \in 1..n
    BY <1>2
  <2>6. f = Body(f)
    <3>1. f = [k \in 0..n |-> f[k]]
      BY <2>3
    <3>2. \A k \in 0..n : f[k] = Body(f)[k]
      BY <2>3, <2>4, <2>5
    <3>3. Body(f) = [k \in 0..n |-> Body(f)[k]]
      OBVIOUS
    <3> HIDE DEF Body
    <3> QED BY <3>1, <3>2, <3>3
  <2> HIDE DEF Body
  <2> QED BY <2>6
<1>4. out[0] = <<>>
  <2>1. 0 \in 0..n
    BY <1>2
  <2>2. Body(out)[0] = <<>>
    BY <2>1
  <2> HIDE DEF Body, out
  <2> QED BY <1>3, <2>2
<1>5. ASSUME NEW k \in 1..n
      PROVE  out[k] = IF items[k] = Blank \/ items[k] \in ToSet(out[k-1]) THEN out[k-1]
                      ELSE Append(out[k-1], items[k])
  <2>1. k \in 0..n /\ k # 0
    BY <1>2
  <2> HIDE DEF out
  <2>2. Body(out)[k] = IF items[k] = Blank \/ items[k] \in ToSet(out[k-1]) THEN out[k-1]
                       ELSE Append(out[k-1], items[k])
    BY <2>1
  <2> HIDE DEF Body
  <2> QED BY <1>3, <2>2
<1> HIDE DEF out, Body
<1> DEFINE Done == {k \in 0..n : out[k] \in Listed(N, items, k)}
<1>6. 0 \in Done
  <2>1. 0 \in 0..n /\ 1..0 = {}
    BY <1>2
  <2>2. <<>> \in Seq(N \ {Blank}) /\ Len(<<>>) = 0 /\ ToSet(<<>>) = {}
    BY EmptySeq DEF ToSet
  <2> QED BY <1>4, <2>1, <2>2 DEF Listed
<1>7. ASSUME NEW k \in 0..n, k # 0, k - 1 \in Done PROVE k \in Done
  <2> DEFINE s == out[k-1]
  <2>1. k \in 1..n /\ k \in Nat /\ 1..k = (1..(k-1)) \cup {k}
    BY <1>2, <1>7
  <2>2. /\ s \in Seq(N \ {Blank}) /\ \A i, j \in 1..Len(s) : s[i] = s[j] => i = j
        /\ ToSet(s) = {items[i] : i \in 1..(k-1)} \ {Blank}
    BY <1>7 DEF Listed
  <2>3. {items[i] : i \in 1..k} = {items[i] : i \in 1..(k-1)} \cup {items[k]}
    BY <2>1
  <2> HIDE DEF s
  <2>4. CASE items[k] = Blank \/ items[k] \in ToSet(s)
    <3>1. out[k] = s
      BY <1>5, <2>1, <2>4 DEF s
    <3>2. {items[i] : i \in 1..k} \ {Blank} = ToSet(s)
      BY <2>2, <2>3, <2>4
    <3> QED BY <2>2, <3>1, <3>2 DEF Listed
  <2>5. CASE items[k] # Blank /\ items[k] \notin ToSet(s)
    <3>1. out[k] = Append(s, items[k]) /\ items[k] \in N \ {Blank}
      BY <1>2, <1>5, <2>1, <2>5 DEF s
    <3>2. /\ out[k] \in Seq(N \ {Blank}) /\ Len(out[k]) = Len(s) + 1 /\ Len(s) \in Nat
          /\ out[k][Len(s) + 1] = items[k] /\ \A i \in 1..Len(s) : out[k][i] = s[i]
      BY <2>2, <3>1, AppendProperties
    <3>3. /\ DOMAIN s = 1..Len(s) /\ DOMAIN out[k] = (1..Len(s)) \cup {Len(s) + 1}
      BY <2>2, <3>2
    <3>4. ToSet(out[k]) = ToSet(s) \cup {items[k]}
      BY <3>2, <3>3 DEF ToSet
    <3>5. \A i \in 1..Len(s) : s[i] # items[k]
      BY <2>5, <3>3 DEF ToSet
    <3>6. \A i, j \in 1..Len(out[k]) : out[k][i] = out[k][j] => i = j
      <4>1. \A i \in 1..Len(out[k]) : i \in 1..Len(s) \/ i = Len(s) + 1
        BY <3>2
      <4> QED BY <2>2, <3>2, <3>5, <4>1
    <3>7. ToSet(out[k]) = {items[i] : i \in 1..k} \ {Blank}
      BY <2>2, <2>3, <2>5, <3>4
    <3> QED BY <3>2, <3>6, <3>7 DEF Listed
  <2>6. out[k] \in Listed(N, items, k)
    BY <2>4, <2>5
  <2> QED BY <2>6
<1> HIDE DEF Done
<1>8. 0..n \subseteq Done
  BY <1>2, <1>6, <1>7, CountUp
<1>9. n \in 0..n
  BY <1>2
<1> QED BY <1>1, <1>8, <1>9 DEF Done

\* A function on 1..n is a sequence of n elements.
LEMMA FunctionIsSeq ==
    ASSUME NEW S, NEW n \in Nat, NEW f \in [1..n -> S]
    PROVE  f \in Seq(S) /\ Len(f) = n
<1>1. f \in Seq(S)
  BY SeqDef
<1>2. Len(f) \in Nat /\ DOMAIN f = 1..Len(f) /\ DOMAIN f = 1..n
  BY <1>1, LenProperties
<1> QED BY <1>1, <1>2

Distinct(s) == \A i, j \in 1..Len(s) : s[i] = s[j] => i = j

\* A sequence without repetitions has as many members as elements.
LEMMA CountDistinct ==
    ASSUME NEW S, NEW s \in Seq(S), Distinct(s)
    PROVE  IsFiniteSet(ToSet(s)) /\ Cardinality(ToSet(s)) = Len(s)
<1>1. Len(s) \in Nat /\ s \in [1..Len(s) -> S] /\ DOMAIN s = 1..Len(s)
  BY LenProperties
<1>2. s \in Bijection(1..Len(s), ToSet(s))
  <2>1. s \in [1..Len(s) -> ToSet(s)]
    BY <1>1 DEF ToSet
  <2>2. s \in Injection(1..Len(s), ToSet(s))
    BY <2>1 DEF Distinct, Injection, IsInjective
  <2>3. s \in Surjection(1..Len(s), ToSet(s))
    BY <1>1, <2>1 DEF Surjection, ToSet
  <2> QED BY <2>2, <2>3 DEF Bijection
<1>3. ExistsBijection(1..Len(s), ToSet(s))
  BY <1>2 DEF ExistsBijection
<1> QED BY <1>1, <1>3, FS_CountingElements, FS_NatBijection

\* The members of a sequence.
LEMMA Members ==
    ASSUME NEW S, NEW s \in Seq(S)
    PROVE  /\ Len(s) \in Nat /\ DOMAIN s = 1..Len(s)
           /\ \A i \in 1..Len(s) : s[i] \in S /\ s[i] \in ToSet(s)
           /\ \A x \in ToSet(s) : x \in S /\ \E i \in 1..Len(s) : s[i] = x
           /\ ToSet(s) = {} <=> s = <<>>
           /\ s = <<>> <=> Len(s) = 0
<1>1. Len(s) \in Nat /\ s \in [1..Len(s) -> S] /\ DOMAIN s = 1..Len(s)
  BY LenProperties
<1>2. s = <<>> <=> Len(s) = 0
  BY EmptySeq
<1>3. \A i \in 1..Len(s) : s[i] \in S /\ s[i] \in ToSet(s)
  BY <1>1 DEF ToSet
<1>4. \A x \in ToSet(s) : \E i \in 1..Len(s) : s[i] = x
  BY <1>1 DEF ToSet
<1>5. ToSet(s) = {} <=> s = <<>>
  <2>1. CASE Len(s) = 0
    <3>1. 1..Len(s) = {}
      BY <2>1
    <3> QED BY <1>2, <1>4, <2>1, <3>1
  <2>2. CASE Len(s) # 0
    <3>1. 1 \in 1..Len(s)
      BY <1>1, <2>2
    <3> QED BY <1>2, <1>3, <2>2, <3>1
  <2> QED BY <2>1, <2>2
<1> QED BY <1>1, <1>2, <1>3, <1>4, <1>5

\* The member of a sequence of one element.
LEMMA OnlyMember ==
    ASSUME NEW S, NEW s \in Seq(S), Len(s) = 1
    PROVE  s[1] \in S /\ ToSet(s) = {s[1]}
<1>1. 1 \in 1..Len(s) /\ \A i \in 1..Len(s) : i = 1
  OBVIOUS
<1>2. s[1] \in S /\ s[1] \in ToSet(s) /\ \A x \in ToSet(s) : \E i \in 1..Len(s) : s[i] = x
  BY <1>1, Members
<1> QED BY <1>1, <1>2

\* The client of a request that names one at most.
LEMMA OnlyClient ==
    ASSUME NEW cs \in Seq(ClientNames), Len(cs) <= 1
    PROVE  /\ oneClient(cs) \in ClientNames \cup {Blank}
           /\ (IF ToSet(cs) = {} THEN {Blank} ELSE ToSet(cs)) = {oneClient(cs)}
<1>1. Len(cs) \in Nat /\ (ToSet(cs) = {} <=> cs = <<>>) /\ (cs = <<>> <=> Len(cs) = 0)
  BY Members
<1>2. CASE cs = <<>>
  BY <1>1, <1>2 DEF oneClient
<1>3. CASE cs # <<>>
  <2>1. Len(cs) \in Nat /\ Len(cs) # 0
    BY <1>1, <1>3, Zenon
  <2>2. Len(cs) = 1
    BY <2>1
  <2>3. cs[1] \in ClientNames /\ ToSet(cs) = {cs[1]}
    BY <2>2, OnlyMember
  <2> QED BY <1>3, <2>3 DEF oneClient
<1> QED BY <1>2, <1>3

\* What Build works on: the names mentioned, each once.
LEMMA Names ==
    ASSUME NEW N, NEW items \in Seq(N)
    PROVE  /\ NormalizeList(items) \in Seq(N \ {Blank}) /\ Distinct(NormalizeList(items))
           /\ ToSet(NormalizeList(items)) = named(items)
<1>1. NormalizeList(items) \in Listed(N, items, Len(items))
  BY Normalized
<1>2. ToSet(items) = {items[i] : i \in 1..Len(items)}
  BY LenProperties DEF ToSet
<1> QED BY <1>1, <1>2 DEF Listed, Distinct, named

-----------------------------------------------------------------------------
(* Pairing.                                                                *)

\* What a quotient and a remainder are, and that there is only one of each.
LEMMA Division ==
    ASSUME NEW a \in Nat, NEW n \in Nat, n # 0
    PROVE  /\ a \div n \in Nat /\ a % n \in 0..(n-1)
           /\ a = (n * (a \div n)) + (a % n)
OBVIOUS

LEMMA DivisionUnique ==
    ASSUME NEW n \in Nat, NEW q \in Nat, NEW r \in 0..(n-1), n # 0
    PROVE  ((n * q) + r) \div n = q /\ ((n * q) + r) % n = r
<1>1. (n * q) + r \in Nat
  OBVIOUS
<1> DEFINE a == (n * q) + r
<1> HIDE DEF a
<1>2. a \in Nat /\ a = (n * q) + r
  BY <1>1 DEF a
<1>3. a \div n = q /\ a % n = r
  BY <1>2
<1> QED BY <1>3 DEF a

Pairings == [client : ClientNames \cup {Blank}, target : TargetNames]

\* Every client, or the coordinator without any, with every target.
AllPairs(C, T) == {Assignment(c, t) : c \in IF C = {} THEN {Blank} ELSE C, t \in T}

\* A schedule that has every pair once.
Covers(P, cs, ts) ==
    P \in Seq(Pairings) /\ Distinct(P) /\ ToSet(P) = AllPairs(ToSet(cs), ToSet(ts))

\* An assignment is its client and its target.
LEMMA AssignmentIs ==
    /\ \A c, t : Assignment(c, t).client = c /\ Assignment(c, t).target = t
    /\ \A c \in ClientNames \cup {Blank}, t \in TargetNames : Assignment(c, t) \in Pairings
BY DEF Assignment, Pairings

\* The pairs of one client.
LEMMA OneClientPairs ==
    ASSUME NEW C, NEW T, NEW d, (IF C = {} THEN {Blank} ELSE C) = {d}
    PROVE  AllPairs(C, T) = {Assignment(d, t) : t \in T}
<1> DEFINE X == IF C = {} THEN {Blank} ELSE C
<1>1. X = {d}
  OBVIOUS
<1>2. AllPairs(C, T) = {Assignment(c, t) : c \in X, t \in T}
  BY DEF AllPairs
<1> HIDE DEF X
<1> QED BY <1>1, <1>2

\* One client, or none, and one target.
LEMMA SingleCovers ==
    ASSUME NEW cs \in Seq(ClientNames), NEW ts \in Seq(TargetNames), Len(cs) <= 1, Len(ts) = 1
    PROVE  Covers(PairUp("single", cs, ts), cs, ts)
<1> DEFINE a == Assignment(oneClient(cs), ts[1])
           P == <<a>>
<1>1. PairUp("single", cs, ts) = P
  BY DEF PairUp
<1>2. ts[1] \in TargetNames /\ ToSet(ts) = {ts[1]}
  BY OnlyMember
<1>3. /\ oneClient(cs) \in ClientNames \cup {Blank}
      /\ (IF ToSet(cs) = {} THEN {Blank} ELSE ToSet(cs)) = {oneClient(cs)}
  BY OnlyClient
<1>4. a \in Pairings /\ AllPairs(ToSet(cs), ToSet(ts)) = {a}
  <2>1. a \in Pairings
    BY <1>2, <1>3, AssignmentIs
  <2>2. AllPairs(ToSet(cs), ToSet(ts)) = {Assignment(c, t) : c \in {oneClient(cs)}, t \in {ts[1]}}
    BY <1>2, <1>3 DEF AllPairs
  <2> QED BY <2>1, <2>2
<1> HIDE DEF a
<1>5. P \in Seq(Pairings) /\ Len(P) = 1 /\ P[1] = a /\ DOMAIN P = {1}
  BY <1>4
<1>6. Distinct(P) /\ ToSet(P) = {a}
  BY <1>5 DEF Distinct, ToSet
<1> QED BY <1>1, <1>4, <1>5, <1>6 DEF Covers

\* Several clients and one target.
LEMMA PoolCovers ==
    ASSUME NEW cs \in Seq(ClientNames), NEW ts \in Seq(TargetNames), Distinct(cs), cs # <<>>, Len(ts) = 1
    PROVE  Covers(PairUp("pool", cs, ts), cs, ts)
<1> DEFINE P == [i \in 1..Len(cs) |-> Assignment(cs[i], ts[1])]
<1>1. PairUp("pool", cs, ts) = P
  BY DEF PairUp
<1>2. 1 \in 1..Len(ts) /\ \A i \in 1..Len(ts) : i = 1
  OBVIOUS
<1>3. ts[1] \in TargetNames /\ ToSet(ts) = {ts[1]} /\ Len(cs) \in Nat /\ ToSet(cs) # {}
  BY <1>2, Members
<1>4. \A i \in 1..Len(cs) : cs[i] \in ClientNames /\ cs[i] \in ToSet(cs)
  BY Members
<1>5. P \in [1..Len(cs) -> Pairings]
  BY <1>3, <1>4, AssignmentIs
<1>6. P \in Seq(Pairings) /\ Len(P) = Len(cs) /\ DOMAIN P = 1..Len(cs)
  BY <1>3, <1>5, FunctionIsSeq
<1>7. \A i \in 1..Len(cs) : P[i] = Assignment(cs[i], ts[1]) /\ P[i].client = cs[i]
  BY AssignmentIs
<1> HIDE DEF P
<1>8. Distinct(P)
  BY <1>6, <1>7 DEF Distinct
<1>9. ToSet(P) = AllPairs(ToSet(cs), ToSet(ts))
  <2>1. \A x \in ToSet(cs) : \E i \in 1..Len(cs) : cs[i] = x
    BY Members
  <2>2. ToSet(P) = {Assignment(cs[i], ts[1]) : i \in 1..Len(cs)}
    BY <1>6, <1>7 DEF ToSet
  <2>3. AllPairs(ToSet(cs), ToSet(ts)) = {Assignment(c, ts[1]) : c \in ToSet(cs)}
    BY <1>3 DEF AllPairs
  <2> QED BY <1>4, <2>1, <2>2, <2>3
<1> QED BY <1>1, <1>6, <1>8, <1>9 DEF Covers

\* One client, or none, and several targets.
LEMMA SweepCovers ==
    ASSUME NEW cs \in Seq(ClientNames), NEW ts \in Seq(TargetNames), Distinct(ts), Len(cs) <= 1
    PROVE  Covers(PairUp("sweep", cs, ts), cs, ts)
<1> DEFINE c == oneClient(cs)
           P == [i \in 1..Len(ts) |-> Assignment(c, ts[i])]
<1>1. PairUp("sweep", cs, ts) = P
  BY DEF PairUp
<1>2. /\ c \in ClientNames \cup {Blank} /\ Len(ts) \in Nat
      /\ (IF ToSet(cs) = {} THEN {Blank} ELSE ToSet(cs)) = {c}
  <2>1. Len(ts) \in Nat
    BY LenProperties
  <2> QED BY <2>1, OnlyClient
<1>3. \A i \in 1..Len(ts) : ts[i] \in TargetNames /\ ts[i] \in ToSet(ts)
  BY Members
<1> HIDE DEF c
<1>4. P \in [1..Len(ts) -> Pairings]
  BY <1>2, <1>3, AssignmentIs
<1>5. P \in Seq(Pairings) /\ Len(P) = Len(ts) /\ DOMAIN P = 1..Len(ts)
  BY <1>2, <1>4, FunctionIsSeq
<1>6. \A i \in 1..Len(ts) : P[i] = Assignment(c, ts[i]) /\ P[i].target = ts[i]
  BY AssignmentIs
<1>7. PairUp("sweep", cs, ts) = P
  BY <1>1
<1> HIDE DEF P
<1>8. Distinct(P)
  BY <1>5, <1>6 DEF Distinct
<1>9. ToSet(P) = AllPairs(ToSet(cs), ToSet(ts))
  <2>1. \A x \in ToSet(ts) : \E i \in 1..Len(ts) : ts[i] = x
    BY Members
  <2>2. ToSet(P) = {Assignment(c, ts[i]) : i \in 1..Len(ts)}
    BY <1>5, <1>6 DEF ToSet
  <2>3. (IF ToSet(cs) = {} THEN {Blank} ELSE ToSet(cs)) = {c}
    BY <1>2
  <2>4. AllPairs(ToSet(cs), ToSet(ts)) = {Assignment(c, t) : t \in ToSet(ts)}
    BY <2>3, OneClientPairs
  <2> QED BY <1>3, <2>1, <2>2, <2>3, <2>4
<1> QED BY <1>7, <1>5, <1>8, <1>9 DEF Covers

\* Every client with every target: the pairs are numbered, targets first.
LEMMA MatrixCovers ==
    ASSUME NEW cs \in Seq(ClientNames), NEW ts \in Seq(TargetNames), Distinct(cs), Distinct(ts),
           cs # <<>>, ts # <<>>
    PROVE  Covers(PairUp("matrix", cs, ts), cs, ts)
<1> DEFINE m == Len(cs)
           n == Len(ts)
           row(k) == ((k - 1) \div n) + 1
           column(k) == ((k - 1) % n) + 1
           P == [k \in 1..(m * n) |-> Assignment(cs[row(k)], ts[column(k)])]
<1>1. PairUp("matrix", cs, ts) = P
  BY DEF PairUp, WrapIndex
<1>2. m \in Nat /\ n \in Nat /\ n # 0 /\ m # 0 /\ m * n \in Nat /\ ToSet(cs) # {}
  <2>1. m \in Nat /\ n \in Nat /\ n # 0 /\ m # 0 /\ ToSet(cs) # {}
    BY Members
  <2> QED BY <2>1
<1>3. \A i \in 1..m : cs[i] \in ClientNames /\ cs[i] \in ToSet(cs)
  BY Members
<1>4. \A i \in 1..n : ts[i] \in TargetNames /\ ts[i] \in ToSet(ts)
  BY Members
<1>5. Distinct(cs) /\ Distinct(ts) /\ (\A x \in ToSet(cs) : \E i \in 1..m : cs[i] = x)
      /\ (\A x \in ToSet(ts) : \E i \in 1..n : ts[i] = x)
  BY Members
<1>6. \A i, j \in 1..m : cs[i] = cs[j] => i = j
  BY DEF Distinct
<1>7. \A i, j \in 1..n : ts[i] = ts[j] => i = j
  BY DEF Distinct
<1> HIDE DEF m, n
<1>8. ASSUME NEW k \in 1..(m * n)
      PROVE  row(k) \in 1..m /\ column(k) \in 1..n /\ k = (n * (row(k) - 1)) + column(k)
  <2> DEFINE q == (k - 1) \div n
             r == (k - 1) % n
  <2>1. k - 1 \in Nat /\ k - 1 < m * n
    BY <1>2
  <2>2. q \in Nat /\ r \in 0..(n-1) /\ k - 1 = (n * q) + r
    BY <1>2, <2>1, Division
  <2> HIDE DEF q, r
  <2>3. q < m
    <3>1. SUFFICES ASSUME q >= m PROVE FALSE
      BY <1>2, <2>2
    <3>2. n * q >= n * m
      BY <1>2, <2>2, <3>1
    <3> QED BY <1>2, <2>1, <2>2, <3>2
  <2>4. q + 1 \in 1..m /\ r + 1 \in 1..n /\ k = (n * ((q + 1) - 1)) + (r + 1)
    BY <1>2, <2>2, <2>3
  <2> QED BY <2>4 DEF q, r
<1>9. ASSUME NEW i \in 1..m, NEW j \in 1..n
      PROVE  \E k \in 1..(m * n) : row(k) = i /\ column(k) = j
  <2> DEFINE k == (n * (i - 1)) + j
  <2>1. k \in Nat /\ k >= 1 /\ k - 1 = (n * (i - 1)) + (j - 1)
    BY <1>2
  <2>2. k <= m * n
    <3>1. n * (i - 1) <= n * (m - 1)
      BY <1>2
    <3>2. n * (m - 1) = (m * n) - n
      BY <1>2
    <3>3. n * (i - 1) \in Int /\ n * (m - 1) \in Int
      BY <1>2
    <3> QED BY <1>2, <3>1, <3>2, <3>3
  <2>3. (k - 1) \div n = i - 1 /\ (k - 1) % n = j - 1
    <3>1. i - 1 \in Nat /\ j - 1 \in 0..(n-1)
      BY <1>2
    <3>2. ((n * (i - 1)) + (j - 1)) \div n = i - 1 /\ ((n * (i - 1)) + (j - 1)) % n = j - 1
      <4> DEFINE q == i - 1
                 s == j - 1
      <4> HIDE DEF q, s, k, row, column, P
      <4>1. ((n * q) + s) \div n = q /\ ((n * q) + s) % n = s
        BY <1>2, <3>1, DivisionUnique DEF q, s
      <4> QED BY <4>1 DEF q, s
    <3> HIDE DEF k
    <3> QED BY <2>1, <3>2
  <2>4. row(k) = i /\ column(k) = j
    <3> HIDE DEF k
    <3> QED BY <2>3
  <2> HIDE DEF k, row, column
  <2> QED BY <1>2, <2>1, <2>2, <2>4
<1>10. P \in [1..(m * n) -> Pairings]
  <2> HIDE DEF row, column
  <2> QED BY <1>3, <1>4, <1>8, AssignmentIs
<1>11. P \in Seq(Pairings) /\ Len(P) = m * n /\ DOMAIN P = 1..(m * n)
  <2> HIDE DEF row, column
  <2> QED BY <1>2, <1>10, FunctionIsSeq
<1>12. \A k \in 1..(m * n) : /\ P[k] = Assignment(cs[row(k)], ts[column(k)])
                            /\ P[k].client = cs[row(k)] /\ P[k].target = ts[column(k)]
  <2> HIDE DEF row, column
  <2> QED BY AssignmentIs
<1> HIDE DEF row, column, P
<1>13. Distinct(P)
  <2> SUFFICES ASSUME NEW k \in 1..(m * n), NEW l \in 1..(m * n), P[k] = P[l] PROVE k = l
    BY <1>11 DEF Distinct
  <2>1. cs[row(k)] = cs[row(l)] /\ ts[column(k)] = ts[column(l)]
    BY <1>12
  <2>2. /\ row(k) \in 1..m /\ column(k) \in 1..n /\ k = (n * (row(k) - 1)) + column(k)
        /\ row(l) \in 1..m /\ column(l) \in 1..n /\ l = (n * (row(l) - 1)) + column(l)
    BY <1>8
  <2>3. row(k) = row(l)
    BY <1>6, <2>1, <2>2
  <2>4. column(k) = column(l)
    BY <1>7, <2>1, <2>2
  <2> QED BY <2>2, <2>3, <2>4
<1>14. ToSet(P) = AllPairs(ToSet(cs), ToSet(ts))
  <2>1. ToSet(P) = {Assignment(cs[row(k)], ts[column(k)]) : k \in 1..(m * n)}
    BY <1>11, <1>12 DEF ToSet
  <2>2. AllPairs(ToSet(cs), ToSet(ts)) = {Assignment(c, t) : c \in ToSet(cs), t \in ToSet(ts)}
    BY <1>2 DEF AllPairs
  <2>3. ASSUME NEW c \in ToSet(cs), NEW t \in ToSet(ts)
        PROVE  \E k \in 1..(m * n) : Assignment(c, t) = Assignment(cs[row(k)], ts[column(k)])
    <3>1. PICK i \in 1..m, j \in 1..n : cs[i] = c /\ ts[j] = t
      BY <1>5
    <3> QED BY <1>9, <3>1
  <2>4. \A k \in 1..(m * n) : cs[row(k)] \in ToSet(cs) /\ ts[column(k)] \in ToSet(ts)
    BY <1>3, <1>4, <1>8
  <2> QED BY <2>1, <2>2, <2>3, <2>4
<1> QED BY <1>1, <1>11, <1>13, <1>14 DEF Covers

-----------------------------------------------------------------------------
(* Sharing out: the clients go round the targets.                          *)

\* The positions up to m that fall to target p of n.
Column(m, n, p) == {i \in 1..m : WrapIndex(i, n) = p}

\* They are p, n + p, 2n + p and so on.
LEMMA ColumnIs ==
    ASSUME NEW m \in Nat, NEW n \in Nat, n # 0, NEW p \in 1..n
    PROVE  /\ \A i \in Column(m, n, p) : \E a \in Nat : i = (n * a) + p
           /\ \A a \in Nat : (n * a) + p <= m => (n * a) + p \in Column(m, n, p)
<1>1. ASSUME NEW i \in Column(m, n, p) PROVE \E a \in Nat : i = (n * a) + p
  <2>1. i \in 1..m /\ ((i - 1) % n) + 1 = p
    BY DEF Column, WrapIndex
  <2> DEFINE a == (i - 1) \div n
             r == (i - 1) % n
  <2>2. i - 1 \in Nat
    BY <2>1
  <2>3. a \in Nat /\ r \in 0..(n-1) /\ i - 1 = (n * a) + r
    BY <2>2, Division
  <2>4. r + 1 = p
    BY <2>1
  <2> HIDE DEF a, r
  <2>5. i = (n * a) + p
    <3>1. n * a \in Nat
      BY <2>3
    <3> HIDE DEF a
    <3> DEFINE z == n * a
    <3>2. z \in Nat /\ i - 1 = z + r
      BY <2>3, <3>1
    <3> HIDE DEF z
    <3>3. i = z + p
      BY <2>1, <2>3, <2>4, <3>2
    <3> QED BY <3>3 DEF z
  <2> QED BY <2>3, <2>5
<1>2. ASSUME NEW a \in Nat, (n * a) + p <= m PROVE (n * a) + p \in Column(m, n, p)
  <2> DEFINE i == (n * a) + p
             r == p - 1
  <2>1. n * a \in Nat
    OBVIOUS
  <2>2. i \in 1..m /\ i - 1 = (n * a) + r
    BY <1>2, <2>1
  <2>3. r \in 0..(n-1)
    OBVIOUS
  <2> HIDE DEF r
  <2>4. ((n * a) + r) % n = r
    BY <2>3, DivisionUnique
  <2> HIDE DEF i
  <2>5. WrapIndex(i, n) = p
    BY <2>2, <2>4 DEF WrapIndex, r
  <2>6. i \in Column(m, n, p)
    BY <2>2, <2>5 DEF Column
  <2> QED BY <2>6 DEF i
<1> QED BY <1>1, <1>2

\* No target gets two clients more than another.
LEMMA ColumnsEven ==
    ASSUME NEW m \in Nat, NEW n \in Nat, n # 0, NEW p \in 1..n, NEW q \in 1..n
    PROVE  /\ IsFiniteSet(Column(m, n, p)) /\ IsFiniteSet(Column(m, n, q))
           /\ Cardinality(Column(m, n, p)) <= Cardinality(Column(m, n, q)) + 1
<1> DEFINE A == Column(m, n, p)
           B == Column(m, n, q)
<1>1. A \subseteq 1..m /\ B \subseteq 1..m
  BY DEF Column
<1>2. IsFiniteSet(1..m)
  BY FS_Interval
<1>3. IsFiniteSet(A) /\ IsFiniteSet(B)
  BY <1>1, <1>2, FS_Subset
<1>4. Cardinality(A) \in Nat /\ Cardinality(B) \in Nat
  BY <1>3, FS_CardinalityType
<1>5. \A i \in A : i \in 1..m /\ \E a \in Nat : i = (n * a) + p
  BY <1>1, ColumnIs
<1>6. \A a \in Nat : (n * a) + q <= m => (n * a) + q \in B
  BY ColumnIs
<1> HIDE DEF A, B
<1>7. CASE q <= p
  <2> DEFINE f == [i \in A |-> i - (p - q)]
  <2>1. ASSUME NEW i \in A PROVE i - (p - q) \in B
    <3>1. PICK a \in Nat : i = (n * a) + p
      BY <1>5
    <3>2. n * a \in Nat /\ i \in 1..m
      BY <1>5
    <3> DEFINE z == n * a
    <3> HIDE DEF z
    <3>3. z \in Nat /\ i = z + p /\ i <= m
      BY <3>1, <3>2 DEF z
    <3>4. i - (p - q) = z + q /\ z + q <= m
      BY <1>7, <3>3
    <3>5. z + q \in B
      BY <1>6, <3>4 DEF z
    <3> QED BY <3>4, <3>5
  <2>2. f \in [A -> B]
    BY <2>1
  <2>3. f \in Injection(A, B)
    <3>1. \A i, j \in A : f[i] = f[j] => i = j
      BY <1>5
    <3> HIDE DEF f
    <3> QED BY <2>2, <3>1 DEF Injection, IsInjective
  <2>4. Cardinality(A) <= Cardinality(B)
    BY <1>3, <2>3, FS_Injection
  <2>5. Cardinality(A) <= Cardinality(B) + 1
    BY <1>4, <2>4
  <2> QED BY <1>3, <2>5 DEF A, B
<1>8. CASE p < q
  <2> DEFINE C == A \ {p}
             f == [i \in C |-> (i - n) + (q - p)]
  <2>1. ASSUME NEW i \in C PROVE (i - n) + (q - p) \in B
    <3>1. PICK a \in Nat : i = (n * a) + p
      BY <1>5
    <3>2. a # 0 /\ i \in 1..m
      BY <1>5, <3>1
    <3> DEFINE b == a - 1
               z == n * b
    <3>3. b \in Nat /\ n * a = z + n
      BY <3>2
    <3>4. z \in Nat
      BY <3>3
    <3> HIDE DEF z, b
    <3>5. i = z + n + p /\ i <= m
      BY <3>1, <3>2, <3>3
    <3>6. (i - n) + (q - p) = z + q /\ z + q <= m
      BY <1>8, <3>4, <3>5
    <3>7. z + q \in B
      BY <1>6, <3>3, <3>6 DEF z
    <3> QED BY <3>6, <3>7
  <2>2. f \in [C -> B]
    BY <2>1
  <2>3. f \in Injection(C, B)
    <3>1. \A i, j \in C : f[i] = f[j] => i = j
      BY <1>5
    <3> HIDE DEF f
    <3> QED BY <2>2, <3>1 DEF Injection, IsInjective
  <2>4. Cardinality(C) <= Cardinality(B)
    <3> HIDE DEF f, C
    <3> QED BY <1>3, <2>3, FS_Injection
  <2>5. Cardinality(C) = IF p \in A THEN Cardinality(A) - 1 ELSE Cardinality(A)
    BY <1>3, FS_RemoveElement
  <2>6. Cardinality(A) <= Cardinality(B) + 1
    <3> HIDE DEF C
    <3> QED BY <1>4, <2>4, <2>5
  <2> QED BY <1>3, <2>6 DEF A, B
<1> QED BY <1>7, <1>8

\* A schedule that has every client once and treats the targets alike.
SharesOut(P, cs, ts) ==
    /\ P \in Seq(Pairings) /\ Distinct(P) /\ Len(P) = Len(cs)
    /\ ToSet(P) \subseteq AllPairs(ToSet(cs), ToSet(ts))
    /\ {j.client : j \in ToSet(P)} = ToSet(cs)
    /\ \A t, u \in ToSet(ts) : Cardinality({j \in ToSet(P) : j.target = t})
                                 <= Cardinality({j \in ToSet(P) : j.target = u}) + 1

LEMMA ShardShares ==
    ASSUME NEW cs \in Seq(ClientNames), NEW ts \in Seq(TargetNames), Distinct(cs), Distinct(ts),
           cs # <<>>, ts # <<>>
    PROVE  SharesOut(PairUp("shard", cs, ts), cs, ts)
<1> DEFINE m == Len(cs)
           n == Len(ts)
           col(i) == WrapIndex(i, n)
           P == [i \in 1..m |-> Assignment(cs[i], ts[col(i)])]
<1>1. PairUp("shard", cs, ts) = P
  BY DEF PairUp
<1>2. m \in Nat /\ n \in Nat /\ n # 0 /\ ToSet(cs) # {}
  BY Members
<1>3. \A i \in 1..m : cs[i] \in ClientNames /\ cs[i] \in ToSet(cs)
  BY Members
<1>4. \A i \in 1..n : ts[i] \in TargetNames /\ ts[i] \in ToSet(ts)
  BY Members
<1>5. \A x \in ToSet(cs) : \E i \in 1..m : cs[i] = x
  BY Members
<1>6. \A x \in ToSet(ts) : \E i \in 1..n : ts[i] = x
  BY Members
<1>7. \A i, j \in 1..m : cs[i] = cs[j] => i = j
  BY DEF Distinct
<1>8. \A i, j \in 1..n : ts[i] = ts[j] => i = j
  BY DEF Distinct
<1> HIDE DEF m, n
<1>9. ASSUME NEW i \in 1..m PROVE col(i) \in 1..n
  <2>1. i - 1 \in Nat
    OBVIOUS
  <2>2. (i - 1) % n \in 0..(n-1)
    BY <1>2, <2>1, Division
  <2> QED BY <1>2, <2>2 DEF WrapIndex
<1> HIDE DEF col
<1>10. P \in [1..m -> Pairings]
  BY <1>3, <1>4, <1>9, AssignmentIs
<1>11. P \in Seq(Pairings) /\ Len(P) = m /\ DOMAIN P = 1..m
  BY <1>2, <1>10, FunctionIsSeq
<1>12. \A i \in 1..m : /\ P[i] = Assignment(cs[i], ts[col(i)])
                      /\ P[i].client = cs[i] /\ P[i].target = ts[col(i)]
  BY AssignmentIs
<1> HIDE DEF P
<1>13. \A i, j \in 1..m : P[i] = P[j] => i = j
  BY <1>7, <1>12
<1>14. ToSet(P) = {P[i] : i \in 1..m}
  BY <1>11 DEF ToSet
<1>15. ToSet(P) \subseteq AllPairs(ToSet(cs), ToSet(ts))
  <2>1. AllPairs(ToSet(cs), ToSet(ts)) = {Assignment(c, t) : c \in ToSet(cs), t \in ToSet(ts)}
    BY <1>2 DEF AllPairs
  <2> QED BY <1>3, <1>4, <1>9, <1>12, <1>14, <2>1
<1>16. {j.client : j \in ToSet(P)} = ToSet(cs)
  BY <1>3, <1>5, <1>12, <1>14
<1> DEFINE Share(t) == {j \in ToSet(P) : j.target = t}
<1>17. ASSUME NEW p \in 1..n
       PROVE  Cardinality(Share(ts[p])) = Cardinality(Column(m, n, p))
  <2> DEFINE C == Column(m, n, p)
             g == [i \in C |-> P[i]]
  <2>1. \A i : i \in C <=> i \in 1..m /\ col(i) = p
    BY DEF Column, col
  <2>2. IsFiniteSet(C)
    BY <1>2, ColumnsEven
  <2> HIDE DEF C
  <2>3. \A i \in C : P[i] \in Share(ts[p])
    BY <1>12, <1>14, <2>1
  <2>4. \A j \in Share(ts[p]) : \E i \in C : j = P[i]
    <3> TAKE j \in Share(ts[p])
    <3>1. PICK i \in 1..m : j = P[i]
      BY <1>14
    <3>2. ts[col(i)] = ts[p]
      BY <1>12, <3>1
    <3>3. col(i) = p
      BY <1>8, <1>9, <3>2
    <3> QED BY <2>1, <3>1, <3>3
  <2> HIDE DEF Share
  <2>5. g \in [C -> Share(ts[p])]
    BY <2>3
  <2>6. g \in Injection(C, Share(ts[p]))
    <3>1. \A i, j \in C : g[i] = g[j] => i = j
      BY <1>13, <2>1
    <3> HIDE DEF g
    <3> QED BY <2>5, <3>1 DEF Injection, IsInjective
  <2>7. g \in Surjection(C, Share(ts[p]))
    <3>1. \A j \in Share(ts[p]) : \E i \in C : g[i] = j
      BY <2>4
    <3> HIDE DEF g
    <3> QED BY <2>5, <3>1 DEF Surjection
  <2>8. ExistsBijection(C, Share(ts[p]))
    BY <2>6, <2>7 DEF ExistsBijection, Bijection
  <2> QED BY <2>2, <2>8, FS_Bijection DEF C
<1>18. ASSUME NEW t \in ToSet(ts), NEW u \in ToSet(ts)
       PROVE  Cardinality(Share(t)) <= Cardinality(Share(u)) + 1
  <2>1. PICK p \in 1..n, q \in 1..n : ts[p] = t /\ ts[q] = u
    BY <1>6
  <2>2. /\ Cardinality(Share(t)) = Cardinality(Column(m, n, p))
        /\ Cardinality(Share(u)) = Cardinality(Column(m, n, q))
    BY <1>17, <2>1
  <2>3. Cardinality(Column(m, n, p)) <= Cardinality(Column(m, n, q)) + 1
    BY <1>2, ColumnsEven
  <2> HIDE DEF Share
  <2> QED BY <2>2, <2>3
<1>19. Distinct(P)
  BY <1>11, <1>13 DEF Distinct
<1> QED BY <1>1, <1>11, <1>15, <1>16, <1>18, <1>19 DEF SharesOut, m

-----------------------------------------------------------------------------
(* Build, for any lists.                                                   *)

\* The lists of clients and of targets that Build pairs up.
LEMMA ClientList ==
    ASSUME NEW clients \in Seq(ClientNames \cup {Blank})
    PROVE  /\ NormalizeList(clients) \in Seq(ClientNames) /\ Distinct(NormalizeList(clients))
           /\ ToSet(NormalizeList(clients)) = named(clients)
           /\ Cardinality(named(clients)) = Len(NormalizeList(clients))
<1>1. (ClientNames \cup {Blank}) \ {Blank} = ClientNames
  BY TopologyAssumption
<1>2. /\ NormalizeList(clients) \in Seq(ClientNames) /\ Distinct(NormalizeList(clients))
      /\ ToSet(NormalizeList(clients)) = named(clients)
  BY <1>1, Names
<1>3. Cardinality(ToSet(NormalizeList(clients))) = Len(NormalizeList(clients))
  BY <1>2, CountDistinct
<1> QED BY <1>2, <1>3

LEMMA TargetList ==
    ASSUME NEW targets \in Seq(TargetNames \cup {Blank})
    PROVE  /\ NormalizeList(targets) \in Seq(TargetNames) /\ Distinct(NormalizeList(targets))
           /\ ToSet(NormalizeList(targets)) = named(targets)
           /\ Cardinality(named(targets)) = Len(NormalizeList(targets))
<1>1. (TargetNames \cup {Blank}) \ {Blank} = TargetNames
  BY TopologyAssumption
<1>2. /\ NormalizeList(targets) \in Seq(TargetNames) /\ Distinct(NormalizeList(targets))
      /\ ToSet(NormalizeList(targets)) = named(targets)
  BY <1>1, Names
<1>3. Cardinality(ToSet(NormalizeList(targets))) = Len(NormalizeList(targets))
  BY <1>2, CountDistinct
<1> QED BY <1>2, <1>3

\* The mode Build works in.
Mode(mode, cs, ts) == IF mode \in {"auto", Blank} THEN inferMode(Len(cs), Len(ts)) ELSE mode

Shards(mode, cs, ts) ==
    mode = "shard" \/ (mode \in {"auto", Blank} /\ Len(cs) > 1 /\ Len(ts) > 1)

\* The mode of a request that names none.
LEMMA InferredMode ==
    ASSUME NEW c \in Nat, NEW t \in Nat
    PROVE  /\ inferMode(c, t) \in {"single", "sweep", "pool", "shard"}
           /\ inferMode(c, t) = "single" => c <= 1 /\ t <= 1
           /\ inferMode(c, t) = "sweep" => c <= 1 /\ t > 1
           /\ inferMode(c, t) = "pool" => c > 1 /\ t <= 1
           /\ inferMode(c, t) = "shard" <=> c > 1 /\ t > 1
BY DEF inferMode

\* A mode that is not refused gets the schedule it promises.
LEMMA PairUpKeeps ==
    ASSUME NEW m, NEW cs \in Seq(ClientNames), NEW ts \in Seq(TargetNames),
           Distinct(cs), Distinct(ts), ~ Refused(m, cs, ts), m # "auto"
    PROVE  IF m = "shard" THEN SharesOut(PairUp(m, cs, ts), cs, ts)
           ELSE Covers(PairUp(m, cs, ts), cs, ts)
<1>1. /\ m \in Modes /\ ts # <<>>
      /\ m \in {"single", "pool"} => Len(ts) = 1
      /\ m \in {"single", "sweep"} => ~ (Len(cs) > 1)
      /\ m \in {"pool", "shard", "matrix"} => cs # <<>>
  BY DEF Refused
<1>2. Len(cs) \in Nat /\ Len(ts) \in Nat
  BY LenProperties
<1>3. m \in {"single", "sweep"} => Len(cs) <= 1
  BY <1>1, <1>2
<1>4. CASE m = "single"
  BY <1>1, <1>3, <1>4, SingleCovers
<1>5. CASE m = "pool"
  BY <1>1, <1>5, PoolCovers
<1>6. CASE m = "sweep"
  BY <1>3, <1>6, SweepCovers
<1>7. CASE m = "matrix"
  BY <1>1, <1>7, MatrixCovers
<1>8. CASE m = "shard"
  BY <1>1, <1>8, ShardShares
<1> QED BY <1>1, <1>4, <1>5, <1>6, <1>7, <1>8 DEF Modes

\* What Build returns: the promised schedule, or an error, which a request
\* without a mode gets only when it names no target.
LEMMA BuildKeeps ==
    ASSUME NEW mode, NEW clients \in Seq(ClientNames \cup {Blank}),
           NEW targets \in Seq(TargetNames \cup {Blank})
    PROVE  LET cs == NormalizeList(clients)
               ts == NormalizeList(targets)
               P  == Build(mode, clients, targets)
           IN  /\ P = Error <=> Refused(Mode(mode, cs, ts), cs, ts)
               /\ mode \in {"auto", Blank} /\ P = Error => ts = <<>>
               /\ P # Error => IF Shards(mode, cs, ts) THEN SharesOut(P, cs, ts)
                               ELSE Covers(P, cs, ts)
<1> DEFINE cs == NormalizeList(clients)
           ts == NormalizeList(targets)
           P  == Build(mode, clients, targets)
           m  == Mode(mode, cs, ts)
<1>1. cs \in Seq(ClientNames) /\ Distinct(cs) /\ ts \in Seq(TargetNames) /\ Distinct(ts)
  BY ClientList, TargetList
<1>2. P = IF Refused(m, cs, ts) THEN Error ELSE PairUp(m, cs, ts)
  BY DEF Build, Mode
<1> HIDE DEF cs, ts, P
<1>3. Len(cs) \in Nat /\ (Len(cs) > 1 => cs # <<>>)
  BY <1>1, Members
<1>4. Len(ts) \in Nat /\ (Len(ts) = 0 => ts = <<>>)
  BY <1>1, Members
<1>5. mode \in {"auto", Blank} => m = inferMode(Len(cs), Len(ts))
  BY DEF Mode
<1>6. mode \notin {"auto", Blank} => m = mode
  BY DEF Mode
<1> HIDE DEF m
<1>7. /\ inferMode(Len(cs), Len(ts)) \in {"single", "sweep", "pool", "shard"}
      /\ inferMode(Len(cs), Len(ts)) = "single" => Len(cs) <= 1 /\ Len(ts) <= 1
      /\ inferMode(Len(cs), Len(ts)) = "sweep" => Len(cs) <= 1 /\ Len(ts) > 1
      /\ inferMode(Len(cs), Len(ts)) = "pool" => Len(cs) > 1 /\ Len(ts) <= 1
      /\ inferMode(Len(cs), Len(ts)) = "shard" <=> Len(cs) > 1 /\ Len(ts) > 1
  BY <1>3, <1>4, InferredMode
<1>8. m = "shard" <=> Shards(mode, cs, ts)
  <2>1. CASE mode \in {"auto", Blank}
    BY <1>5, <1>7, <2>1, TopologyAssumption DEF Shards, Modes
  <2>2. CASE mode \notin {"auto", Blank}
    <3>1. m = mode
      BY <1>6, <2>2
    <3> QED BY <2>2, <3>1 DEF Shards
  <2> QED BY <2>1, <2>2
<1>9. m # "auto"
  BY <1>5, <1>6, <1>7
<1>10. mode \in {"auto", Blank} /\ Refused(m, cs, ts) => ts = <<>>
  <2> SUFFICES ASSUME mode \in {"auto", Blank}, Refused(m, cs, ts), ts # <<>> PROVE FALSE
    OBVIOUS
  <2>1. m = inferMode(Len(cs), Len(ts)) /\ m \in Modes
    BY <1>5, <1>7 DEF Modes
  <2>2. CASE m \in {"single", "pool"} /\ Len(ts) # 1
    <3>1. Len(ts) <= 1
      BY <1>7, <2>1, <2>2
    <3>2. Len(ts) \in Nat /\ Len(ts) # 1
      BY <1>4, <2>2, Zenon
    <3> DEFINE k == Len(ts)
    <3>3. k \in Nat /\ k # 1 /\ k <= 1
      BY <3>1, <3>2
    <3> HIDE DEF k
    <3>4. k = 0
      BY <3>3
    <3> QED BY <1>4, <3>4, Zenon DEF k
  <2>3. CASE m \in {"single", "sweep"} /\ Len(cs) > 1
    BY <1>3, <1>7, <2>1, <2>3
  <2>4. CASE m \in {"pool", "shard", "matrix"} /\ cs = <<>>
    BY <1>3, <1>7, <2>1, <2>4
  <2> QED BY <2>1, <2>2, <2>3, <2>4 DEF Refused
<1>11. ASSUME ~ Refused(m, cs, ts)
       PROVE  /\ P # Error
              /\ IF Shards(mode, cs, ts) THEN SharesOut(P, cs, ts) ELSE Covers(P, cs, ts)
  <2>1. P = PairUp(m, cs, ts)
    BY <1>2, <1>11
  <2>2. IF m = "shard" THEN SharesOut(P, cs, ts) ELSE Covers(P, cs, ts)
    BY <1>1, <1>9, <1>11, <2>1, PairUpKeeps
  <2>3. P \in Seq(Pairings)
    BY <2>2 DEF SharesOut, Covers
  <2>4. P # Error
    BY <2>3, TopologyAssumption DEF Pairings
  <2> QED BY <1>8, <2>2, <2>4
<1>12. Refused(m, cs, ts) => P = Error
  BY <1>2
<1>13. /\ P = Error <=> Refused(m, cs, ts)
       /\ mode \in {"auto", Blank} /\ P = Error => ts = <<>>
       /\ P # Error => IF Shards(mode, cs, ts) THEN SharesOut(P, cs, ts) ELSE Covers(P, cs, ts)
  BY <1>10, <1>11, <1>12
<1> QED BY <1>13 DEF cs, ts, P, m

\* The targets of a request: the list, or else the single one.
LEMMA Merged ==
    ASSUME NEW single \in TargetNames \cup {Blank}, NEW list \in Seq(TargetNames \cup {Blank})
    PROVE  /\ MergeTargets(single, list) \in Seq(TargetNames \cup {Blank})
           /\ named(MergeTargets(single, list)) = IF list = <<>> THEN named(<<single>>) ELSE named(list)
<1>1. ToSet(<<>>) = {}
  BY DEF ToSet
<1>2. CASE list # <<>>
  <2>1. MergeTargets(single, list) = NormalizeList(list)
    BY <1>2 DEF MergeTargets
  <2>2. NormalizeList(list) \in Seq(TargetNames) /\ ToSet(NormalizeList(list)) = named(list)
    BY TargetList
  <2>3. NormalizeList(list) \in Seq(TargetNames \cup {Blank})
    BY <2>2
  <2>4. named(NormalizeList(list)) = named(list)
    BY <2>2 DEF named
  <2> QED BY <1>2, <2>1, <2>3, <2>4
<1>3. CASE list = <<>> /\ single # Blank
  <2>1. MergeTargets(single, list) = <<single>>
    BY <1>3 DEF MergeTargets
  <2>2. <<single>> \in Seq(TargetNames \cup {Blank})
    OBVIOUS
  <2> QED BY <1>3, <2>1, <2>2
<1>4. CASE list = <<>> /\ single = Blank
  <2>1. MergeTargets(single, list) = <<>>
    BY <1>4 DEF MergeTargets
  <2>2. <<>> \in Seq(TargetNames \cup {Blank})
    OBVIOUS
  <2>3. DOMAIN <<single>> = {1} /\ <<single>>[1] = Blank
    BY <1>4
  <2>4. named(<<single>>) = {}
    BY <2>3 DEF named, ToSet
  <2>5. named(<<>>) = {}
    BY <1>1 DEF named
  <2> QED BY <1>4, <2>1, <2>2, <2>4, <2>5
<1> QED BY <1>2, <1>3, <1>4

-----------------------------------------------------------------------------
(* The schedule of a request.                                              *)

Asking ==
    /\ request.clients \in Seq(ClientNames \cup {Blank})
    /\ request.target \in TargetNames \cup {Blank}
    /\ request.targets \in Seq(TargetNames \cup {Blank})

Built == Build(request.mode, request.clients, MergeTargets(request.target, request.targets))

\* What the schedule of any request is like, in terms of the request's names.
LEMMA BuiltIs ==
    ASSUME Asking
    PROVE  LET cs == NormalizeList(request.clients)
               ts == NormalizeList(MergeTargets(request.target, request.targets))
           IN  /\ cs \in Seq(ClientNames) /\ ToSet(cs) = Clients /\ Cardinality(Clients) = Len(cs)
               /\ ts \in Seq(TargetNames) /\ ToSet(ts) = Targets /\ Cardinality(Targets) = Len(ts)
               /\ Built = Error <=> Refused(Mode(request.mode, cs, ts), cs, ts)
               /\ request.mode \in {"auto", Blank} /\ Built = Error => ts = <<>>
               /\ Built # Error => IF Shards(request.mode, cs, ts) THEN SharesOut(Built, cs, ts)
                                   ELSE Covers(Built, cs, ts)
<1> DEFINE list == MergeTargets(request.target, request.targets)
<1>1. request.clients \in Seq(ClientNames \cup {Blank}) /\ list \in Seq(TargetNames \cup {Blank})
  BY Merged DEF Asking
<1>2. named(request.clients) = Clients /\ named(list) = Targets
  BY Merged DEF Asking, Clients, Targets
<1>3. Built = Build(request.mode, request.clients, list)
  BY DEF Built
<1> HIDE DEF list
<1> DEFINE cs == NormalizeList(request.clients)
           ts == NormalizeList(list)
<1>4. cs \in Seq(ClientNames) /\ ToSet(cs) = Clients /\ Cardinality(Clients) = Len(cs)
  BY <1>1, <1>2, ClientList
<1>5. ts \in Seq(TargetNames) /\ ToSet(ts) = Targets /\ Cardinality(Targets) = Len(ts)
  BY <1>1, <1>2, TargetList
<1>6. /\ Built = Error <=> Refused(Mode(request.mode, cs, ts), cs, ts)
      /\ request.mode \in {"auto", Blank} /\ Built = Error => ts = <<>>
      /\ Built # Error => IF Shards(request.mode, cs, ts) THEN SharesOut(Built, cs, ts)
                          ELSE Covers(Built, cs, ts)
  BY <1>1, <1>3, BuildKeeps
<1> QED BY <1>4, <1>5, <1>6 DEF list

\* A schedule that Build made covers what the request names.
LEMMA Coverage ==
    ASSUME Asking, schedule = Unbuilt \/ schedule = Built
    PROVE  CoverageByMode
<1> DEFINE cs == NormalizeList(request.clients)
           ts == NormalizeList(MergeTargets(request.target, request.targets))
<1>1. /\ cs \in Seq(ClientNames) /\ ToSet(cs) = Clients /\ Cardinality(Clients) = Len(cs)
      /\ ts \in Seq(TargetNames) /\ ToSet(ts) = Targets /\ Cardinality(Targets) = Len(ts)
      /\ request.mode \in {"auto", Blank} /\ Built = Error => ts = <<>>
      /\ Built # Error => IF Shards(request.mode, cs, ts) THEN SharesOut(Built, cs, ts)
                          ELSE Covers(Built, cs, ts)
  BY BuiltIs
<1> HIDE DEF cs, ts
<1>2. schedule # Unbuilt => schedule = Built
  OBVIOUS
<1>3. request.mode \in {"auto", Blank} /\ schedule = Error => Targets = {}
  <2> SUFFICES ASSUME request.mode \in {"auto", Blank}, schedule = Error PROVE Targets = {}
    OBVIOUS
  <2>1. ts = <<>>
    BY <1>1, <1>2, TopologyAssumption
  <2> QED BY <1>1, <2>1, Members
<1> DEFINE all   == {Assignment(c, t) : c \in IF Clients = {} THEN {Blank} ELSE Clients, t \in Targets}
           share == [t \in Targets |-> Cardinality({j \in Jobs : j.target = t})]
           shard == \/ request.mode = "shard"
                    \/ request.mode \in {"auto", Blank} /\ Cardinality(Clients) > 1
                       /\ Cardinality(Targets) > 1
<1>4. all = AllPairs(ToSet(cs), ToSet(ts))
  BY <1>1 DEF AllPairs
<1>5. shard <=> Shards(request.mode, cs, ts)
  BY <1>1 DEF Shards
<1> HIDE DEF all, share, shard
<1>6. ASSUME Planned
      PROVE  /\ Cardinality(Jobs) = Len(schedule)
             /\ IF shard
                THEN /\ Jobs \subseteq all /\ Len(schedule) = Cardinality(Clients)
                     /\ {j.client : j \in Jobs} = Clients
                     /\ \A t, u \in Targets : share[t] <= share[u] + 1
                ELSE Jobs = all
  <2>1. schedule = Built /\ Built # Error
    BY <1>2, <1>6 DEF Planned
  <2>2. schedule \in Seq(Pairings) /\ Distinct(schedule)
    BY <1>1, <2>1 DEF SharesOut, Covers
  <2>3. Cardinality(Jobs) = Len(schedule)
    BY <2>2, CountDistinct DEF Jobs
  <2>4. CASE Shards(request.mode, cs, ts)
    <3>1. SharesOut(schedule, cs, ts)
      BY <1>1, <2>1, <2>4
    <3>2. Jobs \subseteq all /\ Len(schedule) = Cardinality(Clients) /\ {j.client : j \in Jobs} = Clients
      BY <1>1, <1>4, <3>1 DEF SharesOut, Jobs
    <3>3. \A t, u \in Targets : Cardinality({j \in Jobs : j.target = t})
                                  <= Cardinality({j \in Jobs : j.target = u}) + 1
      BY <1>1, <3>1 DEF SharesOut, Jobs
    <3>4. \A t, u \in Targets : share[t] <= share[u] + 1
      BY <3>3 DEF share
    <3> QED BY <1>5, <2>3, <2>4, <3>2, <3>4
  <2>5. CASE ~ Shards(request.mode, cs, ts)
    <3>1. Jobs = all
      BY <1>1, <1>4, <2>1, <2>5 DEF Covers, Jobs
    <3> QED BY <1>5, <2>3, <2>5, <3>1
  <2> QED BY <2>4, <2>5
<1>7. SUFFICES ASSUME Planned
               PROVE  /\ Cardinality(Jobs) = Len(schedule)
                      /\ IF shard
                         THEN /\ Jobs \subseteq all /\ Len(schedule) = Cardinality(Clients)
                              /\ {j.client : j \in Jobs} = Clients
                              /\ \A t, u \in Targets : share[t] <= share[u] + 1
                         ELSE Jobs = all
  BY <1>3 DEF CoverageByMode, all, shard, share
<1> QED BY <1>6, <1>7

-----------------------------------------------------------------------------
(* The plan.                                                               *)

Naming(r) ==
    /\ r.target \in TargetNames \cup {Blank}
    /\ r.targets \in Seq(TargetNames \cup {Blank})
    /\ r.clients \in Seq(ClientNames \cup {Blank})

PlanOK(p) ==
    /\ p = [profile |-> p.profile, target |-> p.target, targets |-> p.targets,
            clients |-> p.clients, topology |-> p.topology, params |-> p.params]
    /\ Naming(p) /\ p.topology \in ModeWords

\* What an ask names.
LEMMA AskNames ==
    ASSUME NEW a \in Asks
    PROVE  /\ a # Blank
           /\ Naming(a) /\ a.topology \in ModeWords
           /\ Naming(a.intent) /\ a.intent.mode \in Modes \cup {Blank}
           /\ a.intent.clients \in Seq(ClientNames) /\ a.intent.targets \in Seq(TargetNames)
           /\ a.answer # Blank => Naming(a.answer) /\ a.answer.topology \in ModeWords
BY PlanningAssumption DEF Naming

\* The options an ask comes with.
LEMMA OptionNames ==
    ASSUME NEW a \in Asks
    PROVE  Naming(options(a)) /\ options(a).topology = a.topology /\ a.topology \in ModeWords
<1>1. Naming(a) /\ a.topology \in ModeWords
  BY AskNames
<1>2. MergeTargets(a.target, a.targets) \in Seq(TargetNames \cup {Blank})
  BY <1>1, Merged DEF Naming
<1> QED BY <1>1, <1>2 DEF options, Naming

\* What ParseIntent finds.
LEMMA ParsedNames ==
    ASSUME NEW a \in Asks
    PROVE  Naming(ParseIntent(a.intent)) /\ ParseIntent(a.intent).topology \in Modes \cup {Blank}
<1> DEFINE i == a.intent
           p == ParseIntent(i)
<1>1. Naming(i) /\ i.mode \in Modes \cup {Blank} /\ i.targets \in Seq(TargetNames)
  BY AskNames
<1> HIDE DEF i
<1>2. /\ p.target = First(i.target, IF Len(i.targets) = 1 THEN i.targets[1] ELSE Blank)
      /\ p.targets = i.targets /\ p.clients = i.clients
      /\ p.topology = IF OneHost(i.clients, i.targets) THEN "single" ELSE inferTopology(i)
  BY DEF ParseIntent
<1>3. (IF Len(i.targets) = 1 THEN i.targets[1] ELSE Blank) \in TargetNames \cup {Blank}
  BY <1>1, OnlyMember
<1>4. p.target \in TargetNames \cup {Blank}
  BY <1>1, <1>2, <1>3 DEF First, Naming
<1>5. inferTopology(i) \in Modes \cup {Blank}
  BY <1>1 DEF inferTopology, Modes
<1>6. p.topology \in Modes \cup {Blank}
  BY <1>2, <1>5 DEF Modes
<1> HIDE DEF p
<1>7. Naming(p)
  BY <1>1, <1>2, <1>4 DEF Naming
<1> QED BY <1>6, <1>7 DEF i, p

\* A base names what the answer names, or nothing.
LEMMA BaseNames ==
    ASSUME NEW a \in Asks, NEW base \in bases(a)
    PROVE  /\ Naming(base) /\ base.topology \in ModeWords
           /\ a.answer = Blank => base.clients = <<>> /\ base.targets = <<>>
                                  /\ base.target = Blank /\ base.topology = Blank
<1>1. CASE a.answer # Blank /\ base = a.answer
  BY <1>1, AskNames
<1>2. CASE \E n : base = [profile |-> n, target |-> Blank, targets |-> <<>>, clients |-> <<>>,
                          topology |-> Blank, params |-> <<>>]
  <2>1. /\ base.clients = <<>> /\ base.targets = <<>>
        /\ base.target = Blank /\ base.topology = Blank
    BY <1>2
  <2>2. <<>> \in Seq(TargetNames \cup {Blank}) /\ <<>> \in Seq(ClientNames \cup {Blank})
    OBVIOUS
  <2> QED BY <2>1, <2>2 DEF Naming, ModeWords
<1>3. \/ a.answer # Blank /\ base = a.answer
      \/ \E n : base = [profile |-> n, target |-> Blank, targets |-> <<>>, clients |-> <<>>,
                        topology |-> Blank, params |-> <<>>]
  BY DEF bases
<1> QED BY <1>1, <1>2, <1>3

\* The plan of an ask: well named, and what the options name it has from them.
LEMMA PlanMade ==
    ASSUME NEW a \in Asks, NEW base \in bases(a)
    PROVE  LET parsed == ParseIntent(a.intent)
               p == MergePlan(mergeParsedIntoPlan(base, parsed), options(a))
           IN  /\ PlanOK(p)
               /\ p.target   = First(options(a).target, First(base.target, parsed.target))
               /\ p.targets  = FirstList(options(a).targets, FirstList(base.targets, parsed.targets))
               /\ p.clients  = FirstList(options(a).clients, FirstList(base.clients, parsed.clients))
               /\ p.topology = IF options(a).topology \notin {Blank, "auto"} THEN options(a).topology
                               ELSE First(First(base.topology, parsed.topology), "auto")
<1> DEFINE parsed == ParseIntent(a.intent)
           o == options(a)
           b == mergeParsedIntoPlan(base, parsed)
           p == MergePlan(b, o)
<1>1. Naming(o) /\ o.topology \in ModeWords
  BY OptionNames
<1>2. Naming(parsed) /\ parsed.topology \in Modes \cup {Blank}
  BY ParsedNames
<1>3. Naming(base) /\ base.topology \in ModeWords
  BY BaseNames
<1> HIDE DEF parsed, o
<1>4. b = [profile |-> base.profile,
           target |-> First(base.target, parsed.target),
           targets |-> FirstList(base.targets, parsed.targets),
           clients |-> FirstList(base.clients, parsed.clients),
           topology |-> First(base.topology, parsed.topology),
           params |-> Overlay(base.params, parsed.params)]
  BY DEF mergeParsedIntoPlan
<1>5. Naming(b) /\ b.topology \in ModeWords
  BY <1>2, <1>3, <1>4 DEF Naming, First, FirstList, ModeWords
<1>6. p = [b EXCEPT !.target = First(o.target, b.target), !.targets = FirstList(o.targets, b.targets),
                    !.clients = FirstList(o.clients, b.clients),
                    !.topology = IF o.topology \notin {Blank, "auto"} THEN o.topology
                                 ELSE First(b.topology, "auto")]
  BY DEF MergePlan
<1>7. p = [profile |-> b.profile, target |-> First(o.target, b.target),
           targets |-> FirstList(o.targets, b.targets), clients |-> FirstList(o.clients, b.clients),
           topology |-> IF o.topology \notin {Blank, "auto"} THEN o.topology
                        ELSE First(b.topology, "auto"), params |-> b.params]
  BY <1>4, <1>6
<1>8. /\ p.target   = First(o.target, First(base.target, parsed.target))
      /\ p.targets  = FirstList(o.targets, FirstList(base.targets, parsed.targets))
      /\ p.clients  = FirstList(o.clients, FirstList(base.clients, parsed.clients))
      /\ p.topology = IF o.topology \notin {Blank, "auto"} THEN o.topology
                      ELSE First(First(base.topology, parsed.topology), "auto")
  BY <1>4, <1>7
<1>9. PlanOK(p)
  <2>1. Naming(p)
    BY <1>1, <1>5, <1>7 DEF Naming, First, FirstList
  <2>2. p.topology \in ModeWords
    BY <1>1, <1>5, <1>7 DEF First, ModeWords, Modes
  <2>3. p = [profile |-> p.profile, target |-> p.target, targets |-> p.targets,
             clients |-> p.clients, topology |-> p.topology, params |-> p.params]
    BY <1>7
  <2> HIDE DEF p
  <2> QED BY <2>1, <2>2, <2>3 DEF PlanOK
<1> HIDE DEF p
<1>10. p = MergePlan(mergeParsedIntoPlan(base, parsed), o)
  BY DEF p
<1> QED BY <1>8, <1>9 DEF p, parsed, o

\* A plan has what the options of its ask say and, when nobody but the intent
\* says anything, what ParseIntent found.
Keeps(a, p) ==
    LET o == options(a)
    IN  /\ p.topology # Blank
        /\ o.targets # <<>> => p.targets = o.targets
        /\ o.clients # <<>> => p.clients = o.clients
        /\ o.topology \notin {Blank, "auto"} => p.topology = o.topology
        /\ (/\ a.answer = Blank /\ a.targets = <<>> /\ a.clients = <<>> /\ a.front # "agent"
            /\ a.topology \in {Blank, "auto"})
           => /\ p.targets = a.intent.targets /\ p.clients = a.intent.clients
              /\ p.topology = First(ParseIntent(a.intent).topology, "auto")

\* The plan keeps them, and still does after the guide's defaults.
LEMMA PlanKeeps ==
    ASSUME NEW a \in Asks, NEW base \in bases(a)
    PROVE  Keeps(a, MergePlan(mergeParsedIntoPlan(base, ParseIntent(a.intent)), options(a)))
<1> DEFINE parsed == ParseIntent(a.intent)
           o == options(a)
           p == MergePlan(mergeParsedIntoPlan(base, parsed), o)
<1>1. /\ p.targets  = FirstList(o.targets, FirstList(base.targets, parsed.targets))
      /\ p.clients  = FirstList(o.clients, FirstList(base.clients, parsed.clients))
      /\ p.topology = IF o.topology \notin {Blank, "auto"} THEN o.topology
                      ELSE First(First(base.topology, parsed.topology), "auto")
  BY PlanMade
<1>2. /\ a.answer = Blank => base.clients = <<>> /\ base.targets = <<>> /\ base.topology = Blank
  BY BaseNames
<1>3. o.clients = a.clients /\ o.topology = a.topology /\ (a.front # "agent" => o.targets = a.targets)
  BY DEF options
<1>4. parsed.targets = a.intent.targets /\ parsed.clients = a.intent.clients
  BY DEF ParseIntent
<1>5. Blank # "auto"
  BY TopologyAssumption DEF Modes
<1> HIDE DEF parsed, o, p
<1>6. p.topology # Blank
  BY <1>1, <1>5 DEF First
<1>7. /\ o.targets # <<>> => p.targets = o.targets
      /\ o.clients # <<>> => p.clients = o.clients
      /\ o.topology \notin {Blank, "auto"} => p.topology = o.topology
  BY <1>1 DEF FirstList
<1>8. ASSUME a.answer = Blank, a.targets = <<>>, a.clients = <<>>, a.front # "agent",
             a.topology \in {Blank, "auto"}
      PROVE  /\ p.targets = a.intent.targets /\ p.clients = a.intent.clients
             /\ p.topology = First(parsed.topology, "auto")
  <2>1. p.targets = a.intent.targets /\ p.clients = a.intent.clients
    BY <1>1, <1>2, <1>3, <1>4, <1>8 DEF FirstList
  <2>2. p.topology = First(First(Blank, parsed.topology), "auto")
    BY <1>1, <1>2, <1>3, <1>8
  <2> QED BY <2>1, <2>2 DEF First
<1> QED BY <1>6, <1>7, <1>8 DEF Keeps, p, parsed, o

LEMMA GuideKeeps ==
    ASSUME NEW p, PlanOK(p), NEW lib
    PROVE  LET g == applyGuidanceDefaults(p, lib)
           IN  /\ g.target = p.target /\ g.targets = p.targets /\ g.clients = p.clients
               /\ p.topology # Blank => g.topology = p.topology /\ PlanOK(g)
<1> DEFINE g == applyGuidanceDefaults(p, lib)
           ps == Overlay(p.params, suggestEngineDefaults(p, lib))
           m == IF p.topology \in {Blank, "auto"} THEN First(defaultTopology(p), p.topology) ELSE p.topology
<1>1. g = [p EXCEPT !.params = ps, !.topology = m]
  BY DEF applyGuidanceDefaults
<1>2. p = [profile |-> p.profile, target |-> p.target, targets |-> p.targets,
           clients |-> p.clients, topology |-> p.topology, params |-> p.params]
  BY DEF PlanOK
<1>3. p.topology = "auto" => defaultTopology(p) = Blank
  BY TopologyAssumption DEF defaultTopology, Modes
<1>4. p.topology # Blank => m = p.topology
  BY <1>3 DEF First
<1> HIDE DEF ps, m, g
<1>5. g = [profile |-> p.profile, target |-> p.target, targets |-> p.targets,
           clients |-> p.clients, topology |-> m, params |-> ps]
  BY <1>1, <1>2
<1>6. /\ g = [profile |-> g.profile, target |-> g.target, targets |-> g.targets,
              clients |-> g.clients, topology |-> g.topology, params |-> g.params]
      /\ g.target = p.target /\ g.targets = p.targets /\ g.clients = p.clients /\ g.topology = m
  BY <1>5
<1>7. Naming(g)
  BY <1>6 DEF PlanOK, Naming
<1>8. p.topology # Blank => g.topology = p.topology /\ PlanOK(g)
  BY <1>4, <1>6, <1>7 DEF PlanOK
<1> QED BY <1>6, <1>8 DEF g

\* What Service.Run is given.
RequestOf(p) == [mode |-> p.topology, clients |-> p.clients,
                 target |-> First(p.target, runTargets(p)[1]), targets |-> runTargets(p)]

LEMMA RequestNames ==
    ASSUME NEW p, PlanOK(p), HasTarget(p)
    PROVE  /\ RequestOf(p).target \in TargetNames \cup {Blank}
           /\ RequestOf(p).targets \in Seq(TargetNames \cup {Blank})
           /\ RequestOf(p).clients \in Seq(ClientNames \cup {Blank})
           /\ RequestOf(p).targets # <<>>
<1>1. p.target \in TargetNames \cup {Blank} /\ p.targets \in Seq(TargetNames \cup {Blank})
      /\ p.clients \in Seq(ClientNames \cup {Blank})
  BY DEF PlanOK, Naming
<1> DEFINE ts == runTargets(p)
<1>2. ts \in Seq(TargetNames \cup {Blank}) /\ ts # <<>>
  <2>1. <<p.target>> \in Seq(TargetNames \cup {Blank}) /\ <<p.target>> # <<>>
    BY <1>1
  <2> QED BY <1>1, <2>1 DEF runTargets, FirstList
<1> HIDE DEF ts
<1>3. ts[1] \in TargetNames \cup {Blank}
  <2>1. Len(ts) \in Nat /\ Len(ts) # 0
    BY <1>2, Members
  <2>2. 1 \in 1..Len(ts)
    BY <2>1
  <2> QED BY <1>2, <2>2, Members
<1>4. First(p.target, ts[1]) \in TargetNames \cup {Blank}
  BY <1>1, <1>3 DEF First
<1> QED BY <1>1, <1>2, <1>4 DEF RequestOf, ts

-----------------------------------------------------------------------------
(* What the loop keeps up.                                                 *)

\* The part of the invariant about a run that somebody asked for.
AskOK ==
    /\ stage # "plan" => Keeps(ask, plan)
    /\ ask.front = "guide" => stage \in {"plan", "guide", "advised"}
    /\ stage \notin {"plan", "no target"} /\ ask.front # "guide" => HasTarget(plan)
    /\ stage = "request" => request = RequestOf(plan)

IInv ==
    /\ Asking
    /\ schedule = Unbuilt \/ (stage = "request" /\ schedule = Built)
    /\ PlanOK(plan)
    /\ \/ ask = Blank /\ stage = "request"
       \/ ask \in Asks /\ AskOK

\* The lists of the direct requests, however long.
LEMMA ListsAreSeqs ==
    ASSUME NEW N, NEW list \in Lists(N)
    PROVE  list \in Seq(N \cup {Blank})
<1>1. PICK n \in 0..MaxNames : list \in [1..n -> N \cup {Blank}]
  BY DEF Lists
<1>2. n \in Nat
  BY TopologyAssumption
<1> QED BY <1>1, <1>2, FunctionIsSeq

LEMMA InitHolds == ASSUME PlanningInit PROVE IInv
<1>1. PlanOK(plan)
  <2>1. /\ plan = [profile |-> FirstProfile, target |-> Blank, targets |-> <<>>, clients |-> <<>>,
                   topology |-> Blank, params |-> <<>>]
    BY DEF PlanningInit, NoPlan
  <2>2. <<>> \in Seq(TargetNames \cup {Blank}) /\ <<>> \in Seq(ClientNames \cup {Blank})
    OBVIOUS
  <2> QED BY <2>1, <2>2 DEF PlanOK, Naming, ModeWords
<1>2. CASE Direct
  <2>1. /\ request.clients \in Lists(ClientNames) /\ request.target \in TargetNames \cup {Blank}
        /\ request.targets \in Lists(TargetNames) /\ schedule = Unbuilt
        /\ stage = "request" /\ ask = Blank
    BY <1>2 DEF Direct, Init
  <2>2. Asking
    BY <2>1, ListsAreSeqs DEF Asking
  <2> QED BY <1>1, <2>1, <2>2 DEF IInv
<1>3. CASE Asked
  <2>1. /\ ask \in Asks /\ stage = "plan" /\ schedule = Unbuilt
        /\ request = [mode |-> "auto", clients |-> <<>>, target |-> Blank, targets |-> <<>>]
    BY <1>3 DEF Asked
  <2>2. <<>> \in Seq(TargetNames \cup {Blank}) /\ <<>> \in Seq(ClientNames \cup {Blank})
    OBVIOUS
  <2>3. Asking
    BY <2>1, <2>2 DEF Asking
  <2>4. AskOK
    BY <2>1 DEF AskOK
  <2> QED BY <1>1, <2>1, <2>3, <2>4 DEF IInv
<1> QED BY <1>2, <1>3 DEF PlanningInit

\* Before the request is made nothing is built and somebody has asked.
LEMMA Early ==
    ASSUME IInv, stage # "request"
    PROVE  schedule = Unbuilt /\ ask \in Asks /\ AskOK /\ ask # Blank
BY AskNames DEF IInv

LEMMA MakePlanHolds == ASSUME IInv, MakePlan PROVE IInv'
<1>1. /\ stage = "plan" /\ UNCHANGED <<ask, request, schedule>>
      /\ stage' = IF ask.front # "guide" /\ plan'.target = Blank /\ plan'.targets = <<>>
                  THEN "no target" ELSE "guide"
  BY DEF MakePlan
<1>2. schedule = Unbuilt /\ ask \in Asks
  BY <1>1, Early
<1>3. PICK base \in bases(ask) :
        plan' = MergePlan(mergeParsedIntoPlan(base, ParseIntent(ask.intent)), options(ask))
  BY DEF MakePlan
<1>4. PlanOK(plan') /\ Keeps(ask, plan')
  BY <1>2, <1>3, PlanMade, PlanKeeps
<1>5. AskOK'
  <2>1. Keeps(ask, plan)'
    BY <1>1, <1>4
  <2>2. stage' \notin {"plan", "no target"} /\ ask.front # "guide" => HasTarget(plan')
    BY <1>1 DEF HasTarget
  <2>3. stage' \in {"no target", "guide"} /\ (ask.front = "guide" => stage' = "guide")
    BY <1>1
  <2> QED BY <1>1, <2>1, <2>2, <2>3 DEF AskOK
<1>6. Asking'
  BY <1>1 DEF IInv, Asking
<1> QED BY <1>1, <1>2, <1>4, <1>5, <1>6 DEF IInv

LEMMA GuideHolds == ASSUME IInv, Guide PROVE IInv'
<1>1. /\ stage = "guide" /\ UNCHANGED <<ask, request, schedule>>
  BY DEF Guide
<1>2. schedule = Unbuilt /\ ask \in Asks /\ AskOK
  BY <1>1, Early
<1>3. PlanOK(plan) /\ Keeps(ask, plan) /\ (ask.front # "guide" => HasTarget(plan))
  BY <1>1, <1>2 DEF IInv, AskOK
<1>4. \/ ask.front = "guide" /\ stage' = "advised" /\ plan' = plan
      \/ /\ ask.front # "guide" /\ stage' \in {"clarify", "validate"}
         /\ plan' = applyGuidanceDefaults(plan, LoadByName(plan.profile))
  BY DEF Guide
<1>5. PlanOK(plan') /\ Keeps(ask, plan') /\ (ask.front # "guide" => HasTarget(plan'))
  <2>1. CASE plan' = plan
    BY <1>3, <2>1
  <2>2. CASE plan' = applyGuidanceDefaults(plan, LoadByName(plan.profile))
    <3>1. plan.topology # Blank
      BY <1>3 DEF Keeps
    <3>2. /\ plan'.target = plan.target /\ plan'.targets = plan.targets /\ plan'.clients = plan.clients
          /\ plan'.topology = plan.topology /\ PlanOK(plan')
      BY <1>3, <2>2, <3>1, GuideKeeps
    <3>3. Keeps(ask, plan')
      BY <1>3, <3>2 DEF Keeps
    <3>4. HasTarget(plan) => HasTarget(plan')
      BY <3>2 DEF HasTarget
    <3> QED BY <1>3, <3>2, <3>3, <3>4
  <2> QED BY <1>4, <2>1, <2>2
<1>6. AskOK'
  <2>1. Keeps(ask, plan)'
    BY <1>1, <1>5
  <2> QED BY <1>1, <1>4, <1>5, <2>1 DEF AskOK
<1>7. Asking'
  BY <1>1 DEF IInv, Asking
<1> QED BY <1>1, <1>2, <1>5, <1>6, <1>7 DEF IInv

LEMMA ValidateHolds == ASSUME IInv, Validate PROVE IInv'
<1>1. stage = "validate" /\ stage' \in {"start", "invalid"} /\ UNCHANGED <<ask, plan, request, schedule>>
  BY DEF Validate
<1>2. schedule = Unbuilt /\ ask \in Asks /\ AskOK
  BY <1>1, Early
<1>3. AskOK'
  <2>1. Keeps(ask, plan)'
    BY <1>1, <1>2 DEF AskOK
  <2>2. ask.front # "guide" /\ HasTarget(plan)
    BY <1>1, <1>2 DEF AskOK
  <2> QED BY <1>1, <2>1, <2>2 DEF AskOK
<1>4. Asking' /\ PlanOK(plan')
  BY <1>1 DEF IInv, Asking
<1> QED BY <1>1, <1>2, <1>3, <1>4 DEF IInv

LEMMA StartHolds == ASSUME IInv, Start PROVE IInv'
<1>1. /\ stage = "start" /\ stage' = "request" /\ request' = RequestOf(plan)
      /\ UNCHANGED <<ask, plan, schedule>>
  BY DEF Start, RequestOf
<1>2. schedule = Unbuilt /\ ask \in Asks /\ AskOK
  BY <1>1, Early
<1>3. Keeps(ask, plan) /\ ask.front # "guide" /\ HasTarget(plan) /\ PlanOK(plan)
  BY <1>1, <1>2 DEF AskOK, IInv
<1>4. AskOK'
  <2>1. Keeps(ask, plan)'
    BY <1>1, <1>3
  <2>2. RequestOf(plan)' = RequestOf(plan) /\ HasTarget(plan)'
    BY <1>1, <1>3
  <2> QED BY <1>1, <1>3, <2>1, <2>2 DEF AskOK
<1>5. Asking'
  BY <1>1, <1>3, RequestNames DEF Asking
<1> QED BY <1>1, <1>2, <1>3, <1>4, <1>5 DEF IInv

LEMMA PlanHolds == ASSUME IInv, stage = "request", Plan, UNCHANGED planVars PROVE IInv'
<1>1. schedule' = Built /\ UNCHANGED <<request, stage, ask, plan>>
  BY DEF Plan, Built, planVars
<1>2. Built' = Built /\ Asking' /\ PlanOK(plan')
  BY <1>1 DEF Built, Asking, IInv
<1>3. AskOK => AskOK'
  <2>1. Keeps(ask, plan)' <=> Keeps(ask, plan)
    BY <1>1
  <2>2. RequestOf(plan)' = RequestOf(plan) /\ (HasTarget(plan)' <=> HasTarget(plan))
    BY <1>1
  <2> QED BY <1>1, <2>1, <2>2 DEF AskOK
<1> QED BY <1>1, <1>2, <1>3 DEF IInv

LEMMA StepHolds ==
    ASSUME IInv, [PlanningNext]_<<planVars, request, schedule>>
    PROVE  IInv'
<1>1. CASE UNCHANGED <<planVars, request, schedule>>
  <2>1. UNCHANGED <<stage, ask, plan, request, schedule>>
    BY <1>1 DEF planVars
  <2>2. Keeps(ask, plan)' <=> Keeps(ask, plan)
    BY <2>1
  <2>3. RequestOf(plan)' = RequestOf(plan) /\ (HasTarget(plan)' <=> HasTarget(plan))
    BY <2>1
  <2>4. AskOK' <=> AskOK
    BY <2>1, <2>2, <2>3 DEF AskOK
  <2>5. Built' = Built /\ (Asking' <=> Asking) /\ (PlanOK(plan)' <=> PlanOK(plan))
    BY <2>1 DEF Built, Asking
  <2> QED BY <2>1, <2>4, <2>5 DEF IInv
<1>2. CASE PlanningNext
  BY <1>2, MakePlanHolds, GuideHolds, ValidateHolds, StartHolds, PlanHolds DEF PlanningNext
<1> QED BY <1>1, <1>2

LEMMA Invariance == PlanningSpec => []IInv
<1>1. PlanningInit => IInv
  BY InitHolds
<1>2. IInv /\ [PlanningNext]_<<planVars, request, schedule>> => IInv'
  BY StepHolds
<1> QED BY <1>1, <1>2, PTL DEF PlanningSpec

\* The invariant holds throughout.  Build covers what a request names: every
\* client with every target, or a fair share of the targets for each client,
\* and no pair twice; without a mode only a request without targets is refused.
THEOREM RequestsAreCovered == PlanningSpec => []CoverageByMode
<1>1. IInv => CoverageByMode
  BY Coverage DEF IInv
<1> QED BY <1>1, Invariance, PTL

\* A run of Service.Run starts with a plan of this loop and leaves it alone.
THEOREM RunsFollowPlans == AggregateSpec => PlanningSpec
<1>1. AggregateInit => PlanningInit
  BY DEF AggregateInit
<1>2. [AggregateNext]_<<planVars, request, schedule, aggregateVars>>
        => [PlanningNext]_<<planVars, request, schedule>>
  BY DEF AggregateNext
<1> QED BY <1>1, <1>2, PTL DEF AggregateSpec, PlanningSpec

\* Every job is of a target the request names, and of a client, if it names any.
LEMMA JobsAreNamed ==
    ASSUME Asking, schedule = Built, schedule # Error, NEW j \in Jobs
    PROVE  j.target \in Targets /\ (Clients # {} => j.client \in Clients)
<1> DEFINE cs == NormalizeList(request.clients)
           ts == NormalizeList(MergeTargets(request.target, request.targets))
<1>1. /\ ToSet(cs) = Clients /\ ToSet(ts) = Targets
      /\ Built # Error => IF Shards(request.mode, cs, ts) THEN SharesOut(Built, cs, ts)
                          ELSE Covers(Built, cs, ts)
  BY BuiltIs
<1> HIDE DEF cs, ts
<1>2. SharesOut(schedule, cs, ts) \/ Covers(schedule, cs, ts)
  BY <1>1
<1>3. j \in AllPairs(Clients, Targets)
  BY <1>1, <1>2 DEF SharesOut, Covers, Jobs
<1>4. PICK c \in IF Clients = {} THEN {Blank} ELSE Clients, t \in Targets : j = Assignment(c, t)
  BY <1>3 DEF AllPairs
<1> QED BY <1>4, AssignmentIs

\* An empty list names nothing.
LEMMA EmptyNames == named(<<>>) = {}
<1>1. ToSet(<<>>) = {}
  BY DEF ToSet
<1> QED BY <1>1 DEF named

\* What the options name decides what a run works on: the plan keeps it through
\* the merge and the guide's defaults, and Build covers nothing else.
THEOREM OptionsDecide == PlanningSpec => []FlagsWin
<1>1. ASSUME IInv PROVE FlagsWin
  <2> SUFFICES ASSUME Scheduled
               PROVE  LET o == options(ask)
                      IN  /\ o.targets # <<>> => \A j \in Jobs : j.target \in named(o.targets)
                          /\ named(o.clients) # {} => \A j \in Jobs : j.client \in named(o.clients)
                          /\ o.topology \notin {Blank, "auto"} => request.mode = o.topology
    BY DEF FlagsWin
  <2> DEFINE o == options(ask)
  <2>1. /\ Asking /\ stage = "request" /\ schedule = Built /\ schedule # Error
        /\ ask \in Asks /\ AskOK
    BY <1>1 DEF IInv, Scheduled, Planned
  <2>2. Keeps(ask, plan) /\ request = RequestOf(plan)
    BY <2>1 DEF AskOK
  <2> HIDE DEF o
  <2>3. /\ o.targets # <<>> => plan.targets = o.targets
        /\ o.clients # <<>> => plan.clients = o.clients
        /\ o.topology \notin {Blank, "auto"} => plan.topology = o.topology
    BY <2>2 DEF Keeps, o
  <2>4. /\ request.mode = plan.topology /\ request.clients = plan.clients
        /\ request.targets = FirstList(plan.targets, <<plan.target>>)
    BY <2>2 DEF RequestOf, runTargets
  <2>5. ASSUME o.targets # <<>>, NEW j \in Jobs PROVE j.target \in named(o.targets)
    <3>1. request.targets = o.targets
      BY <2>3, <2>4, <2>5 DEF FirstList
    <3> QED BY <2>1, <2>5, <3>1, JobsAreNamed DEF Targets
  <2>6. ASSUME named(o.clients) # {}, NEW j \in Jobs PROVE j.client \in named(o.clients)
    <3>1. o.clients # <<>>
      BY <2>6, EmptyNames
    <3>2. Clients = named(o.clients)
      BY <2>3, <2>4, <3>1 DEF Clients
    <3> QED BY <2>1, <2>6, <3>2, JobsAreNamed
  <2> QED BY <2>3, <2>4, <2>5, <2>6 DEF o
<1> QED BY <1>1, Invariance, PTL

-----------------------------------------------------------------------------
(* The inferred topology.                                                  *)

\* The hosts of a list of addresses.
Hosts(s) == {HostOf[a] : a \in ToSet(s)}

\* They are finitely many.
LEMMA HostsFinite ==
    ASSUME NEW N, NEW s \in Seq(N)
    PROVE  IsFiniteSet(Hosts(s))
<1>1. Len(s) \in Nat /\ DOMAIN s = 1..Len(s)
  BY LenProperties
<1> DEFINE f == [i \in 1..Len(s) |-> HostOf[s[i]]]
<1>2. Hosts(s) = {f[i] : i \in 1..Len(s)}
  BY <1>1 DEF Hosts, ToSet
<1>3. f \in Surjection(1..Len(s), Hosts(s))
  <2>1. f \in [1..Len(s) -> Hosts(s)] /\ \A t \in Hosts(s) : \E i \in 1..Len(s) : f[i] = t
    BY <1>2
  <2> HIDE DEF f
  <2> QED BY <2>1 DEF Surjection
<1>4. IsFiniteSet(1..Len(s))
  BY <1>1, FS_Interval
<1> HIDE DEF f
<1> QED BY <1>3, <1>4, FS_Surjection

\* Both roles on one host and every address on a host of its own: there is one
\* address in each role.
LEMMA OneHostEach ==
    ASSUME NEW cs \in Seq(ClientNames), NEW ts \in Seq(TargetNames), OneHost(cs, ts),
           Cardinality(Hosts(cs)) = Len(cs), Cardinality(Hosts(ts)) = Len(ts)
    PROVE  Len(cs) = 1 /\ Len(ts) = 1
<1> DEFINE N == ClientNames \cup TargetNames
           s == cs \o ts
<1>1. cs # <<>> /\ ts # <<>> /\ Cardinality(Hosts(s)) = 1
  BY DEF OneHost, Hosts
<1>2. cs \in Seq(N) /\ ts \in Seq(N)
  OBVIOUS
<1>3. /\ s \in Seq(N) /\ Len(s) = Len(cs) + Len(ts) /\ Len(cs) \in Nat /\ Len(ts) \in Nat
      /\ \A i \in 1..(Len(cs) + Len(ts)) : s[i] = IF i <= Len(cs) THEN cs[i] ELSE ts[i - Len(cs)]
  BY <1>2, ConcatProperties, LenProperties
<1> HIDE DEF s
<1>4. \A i \in 1..Len(s) : s[i] \in ToSet(s)
  BY <1>3, Members
<1>5. \A i \in 1..Len(cs) : cs[i] \in ToSet(s)
  <2> TAKE i \in 1..Len(cs)
  <2>1. i \in 1..Len(s) /\ s[i] = cs[i]
    BY <1>3
  <2> QED BY <1>4, <2>1
<1>6. \A i \in 1..Len(ts) : ts[i] \in ToSet(s)
  <2> TAKE i \in 1..Len(ts)
  <2> DEFINE k == i + Len(cs)
  <2>1. k \in 1..(Len(cs) + Len(ts)) /\ ~ (k <= Len(cs)) /\ k - Len(cs) = i
    BY <1>3
  <2> HIDE DEF k
  <2>2. s[k] = ts[i] /\ k \in 1..Len(s)
    BY <1>3, <2>1
  <2> QED BY <1>4, <2>2
<1>7. PICK h : Hosts(s) = {h}
  BY <1>1, <1>3, HostsFinite, FS_Singleton
<1>8. Hosts(cs) = {h}
  <2>1. ToSet(cs) \subseteq ToSet(s) /\ ToSet(cs) # {}
    BY <1>1, <1>5, Members
  <2> QED BY <1>7, <2>1 DEF Hosts
<1>9. Hosts(ts) = {h}
  <2>1. ToSet(ts) \subseteq ToSet(s) /\ ToSet(ts) # {}
    BY <1>1, <1>6, Members
  <2> QED BY <1>7, <2>1 DEF Hosts
<1> QED BY <1>8, <1>9, FS_Singleton

\* Names without a blank one among them are all named.
LEMMA AllNamed ==
    ASSUME NEW N, Blank \notin N, NEW s \in Seq(N)
    PROVE  /\ named(s) = ToSet(s)
           /\ named(s) = {} <=> s = <<>>
           /\ Len(s) = 1 => Cardinality(named(s)) = 1
<1>1. \A x \in ToSet(s) : x \in N
  BY Members
<1>2. named(s) = ToSet(s)
  BY <1>1 DEF named
<1>3. Len(s) = 1 => ToSet(s) = {s[1]}
  BY OnlyMember
<1>4. Len(s) = 1 => Cardinality(ToSet(s)) = 1
  BY <1>3, FS_Singleton
<1>5. ToSet(s) = {} <=> s = <<>>
  BY Members
<1> QED BY <1>2, <1>4, <1>5

\* Build does not refuse what ParseIntent inferred from the intent's own lists.
THEOREM InferredModesRun == PlanningSpec => []InferredTopologyRuns
<1>1. ASSUME IInv PROVE InferredTopologyRuns
  <2> DEFINE i == ask.intent
  <2> SUFFICES ASSUME ask # Blank, stage = "request", ask.answer = Blank, i.mode = Blank,
                      ask.targets = <<>>, ask.clients = <<>>, ask.front # "agent",
                      ask.topology \in {Blank, "auto"},
                      Cardinality(Hosts(i.clients)) = Len(i.clients),
                      Cardinality(Hosts(i.targets)) = Len(i.targets)
               PROVE  schedule # Error
    BY DEF InferredTopologyRuns, Hosts
  <2>1. Asking /\ ask \in Asks /\ AskOK /\ (schedule = Unbuilt \/ schedule = Built)
    BY <1>1 DEF IInv
  <2>2. ask.front # "guide"
    BY <2>1 DEF AskOK
  <2>3. Keeps(ask, plan) /\ HasTarget(plan) /\ request = RequestOf(plan)
    BY <2>1, <2>2 DEF AskOK
  <2>4. /\ plan.targets = i.targets /\ plan.clients = i.clients
        /\ plan.topology = First(ParseIntent(i).topology, "auto")
    BY <2>3 DEF Keeps
  <2>5. i.clients \in Seq(ClientNames) /\ i.targets \in Seq(TargetNames)
    BY <2>1, AskNames
  <2>6. /\ request.mode = plan.topology /\ request.clients = i.clients
        /\ request.targets = IF i.targets # <<>> THEN i.targets ELSE <<plan.target>>
    BY <2>3, <2>4 DEF RequestOf, runTargets, FirstList
  <2>7. ParseIntent(i).topology = IF OneHost(i.clients, i.targets) THEN "single" ELSE inferTopology(i)
    BY DEF ParseIntent
  <2> HIDE DEF i
  <2>8. Blank \notin ClientNames /\ Blank \notin TargetNames /\ Blank \notin Modes
    BY TopologyAssumption
  <2> DEFINE cs == NormalizeList(request.clients)
             ts == NormalizeList(MergeTargets(request.target, request.targets))
  <2>9. /\ cs \in Seq(ClientNames) /\ ToSet(cs) = Clients /\ Cardinality(Clients) = Len(cs)
        /\ ts \in Seq(TargetNames) /\ ToSet(ts) = Targets /\ Cardinality(Targets) = Len(ts)
        /\ Built = Error <=> Refused(Mode(request.mode, cs, ts), cs, ts)
        /\ request.mode \in {"auto", Blank} /\ Built = Error => ts = <<>>
    BY <2>1, BuiltIs
  <2> HIDE DEF cs, ts
  <2>10. /\ Len(cs) \in Nat /\ (cs = <<>> <=> Len(cs) = 0) /\ (Clients = {} <=> cs = <<>>)
         /\ Len(ts) \in Nat /\ (Targets = {} <=> ts = <<>>)
    BY <2>9, Members
  <2>11. /\ Len(i.clients) \in Nat /\ (i.clients = <<>> <=> Len(i.clients) = 0)
         /\ Len(i.targets) \in Nat /\ (i.targets = <<>> <=> Len(i.targets) = 0)
    BY <2>5, Members
  \* The clients: none are named, or some are, one if there is one.
  <2>12. (i.clients = <<>> <=> cs = <<>>) /\ (Len(i.clients) = 1 => Len(cs) = 1)
    <3>1. Clients = named(i.clients)
      BY <2>6 DEF Clients
    <3> QED BY <2>5, <2>8, <2>9, <2>10, <3>1, AllNamed
  \* The targets: there is one; without a list, or with a list of one, exactly one.
  <2>13. ts # <<>> /\ (i.targets = <<>> \/ Len(i.targets) = 1 => Len(ts) = 1)
    <3>1. CASE i.targets # <<>>
      <4>1. Targets = named(i.targets)
        BY <2>6, <3>1 DEF Targets
      <4> QED BY <2>5, <2>8, <2>9, <2>10, <3>1, <4>1, AllNamed
    <3>2. CASE i.targets = <<>>
      <4>1. plan.target # Blank
        BY <2>3, <2>4, <3>2 DEF HasTarget
      <4>2. request.targets = <<plan.target>> /\ request.targets # <<>>
        BY <2>6, <3>2
      <4>3. DOMAIN <<plan.target>> = {1} /\ <<plan.target>>[1] = plan.target
        OBVIOUS
      <4>4. Targets = {plan.target}
        BY <4>1, <4>2, <4>3 DEF Targets, named, ToSet
      <4>5. Cardinality(Targets) = 1 /\ Targets # {}
        BY <4>4, FS_Singleton
      <4> QED BY <2>9, <2>10, <4>5
    <3> QED BY <3>1, <3>2
  <2> DEFINE m == Mode(request.mode, cs, ts)
  <2>14. ASSUME request.mode \notin {"auto", Blank} PROVE m = request.mode
    BY <2>14 DEF Mode
  <2> HIDE DEF m
  <2>15. CASE OneHost(i.clients, i.targets)
    <3>1. Len(i.clients) = 1 /\ Len(i.targets) = 1
      BY <2>5, <2>15, OneHostEach
    <3>2. Len(cs) = 1 /\ Len(ts) = 1
      BY <2>12, <2>13, <3>1
    <3>3. request.mode = "single"
      BY <2>4, <2>6, <2>7, <2>8, <2>15 DEF First, Modes
    <3>4. m = "single"
      BY <2>8, <2>14, <3>3 DEF Modes
    <3>5. ~ Refused(m, cs, ts)
      BY <2>13, <3>2, <3>4 DEF Refused, Modes
    <3> QED BY <2>1, <2>9, <3>5, TopologyAssumption DEF m
  <2>16. CASE ~ OneHost(i.clients, i.targets)
    <3>1. plan.topology = First(inferTopology(i), "auto")
      BY <2>4, <2>7, <2>16
    <3>2. CASE i.clients # <<>> /\ i.targets # <<>>
      <4>1. request.mode = "shard"
        BY <2>6, <2>8, <3>1, <3>2 DEF inferTopology, First, Modes
      <4>2. m = "shard"
        BY <2>8, <2>14, <4>1 DEF Modes
      <4>3. ~ Refused(m, cs, ts)
        BY <2>12, <2>13, <3>2, <4>2 DEF Refused, Modes
      <4> QED BY <2>1, <2>9, <4>3, TopologyAssumption DEF m
    <3>3. CASE i.targets = <<>> /\ Len(i.clients) > 1
      <4>1. request.mode = "pool"
        BY <2>6, <2>8, <3>1, <3>3 DEF inferTopology, First, Modes
      <4>2. m = "pool"
        BY <2>8, <2>14, <4>1 DEF Modes
      <4>3. cs # <<>>
        BY <2>11, <2>12, <3>3
      <4>4. ~ Refused(m, cs, ts)
        BY <2>13, <3>3, <4>2, <4>3 DEF Refused, Modes
      <4> QED BY <2>1, <2>9, <4>4, TopologyAssumption DEF m
    <3>4. CASE i.clients = <<>> /\ Len(i.targets) > 1
      <4>1. ~ (Len(i.clients) > 1)
        BY <2>11, <3>4
      <4>2. request.mode = "sweep"
        BY <2>6, <2>8, <3>1, <3>4, <4>1 DEF inferTopology, First, Modes
      <4>3. m = "sweep"
        BY <2>8, <2>14, <4>2 DEF Modes
      <4>4. ~ (Len(cs) > 1)
        BY <2>10, <2>12, <3>4
      <4>5. ~ Refused(m, cs, ts)
        BY <2>13, <4>3, <4>4 DEF Refused, Modes
      <4> QED BY <2>1, <2>9, <4>5, TopologyAssumption DEF m
    <3>5. CASE ~ (i.clients # <<>> /\ i.targets # <<>>) /\ ~ (Len(i.clients) > 1) /\ ~ (Len(i.targets) > 1)
      <4>1. request.mode = "auto"
        BY <2>6, <3>1, <3>5 DEF inferTopology, First
      <4>2. Built # Error
        BY <2>9, <2>13, <4>1
      <4> QED BY <2>1, <4>2, TopologyAssumption
    <3> QED BY <2>11, <3>2, <3>3, <3>4, <3>5
  <2> QED BY <2>15, <2>16
<1> QED BY <1>1, Invariance, PTL

-----------------------------------------------------------------------------
(* Durations.                                                              *)

\* The entries of two maps in one, and of a map with one entry.
LEMMA OverlayIs ==
    ASSUME NEW f, NEW g
    PROVE  /\ DOMAIN Overlay(f, g) = DOMAIN f \cup DOMAIN g
           /\ \A k \in DOMAIN f : Overlay(f, g)[k] = f[k]
           /\ \A k \in DOMAIN g \ DOMAIN f : Overlay(f, g)[k] = g[k]
BY DEF Overlay

LEMMA EntryIs == \A k, v : DOMAIN Entry(k, v) = {k} /\ Entry(k, v)[k] = v
BY DEF Entry

\* Both names of the duration are there or none is, and they agree.
Aligned(ps) ==
    /\ "duration_sec" \in DOMAIN ps <=> "runtime" \in DOMAIN ps
    /\ "duration_sec" \in DOMAIN ps => ps["runtime"] = ps["duration_sec"]

LEMMA SyncAligns ==
    ASSUME NEW ps
    PROVE  LET q == syncParamAliases(ps)
           IN  /\ Aligned(q)
               /\ "duration_sec" \in DOMAIN ps
                  => "duration_sec" \in DOMAIN q /\ q["duration_sec"] = ps["duration_sec"]
<1> DEFINE timed == IF "duration_sec" \in DOMAIN ps THEN Overlay(Entry("runtime", ps["duration_sec"]), ps)
                    ELSE IF "runtime" \in DOMAIN ps THEN Overlay(Entry("duration_sec", ps["runtime"]), ps)
                    ELSE ps
           ramp == Entry("ramp_time", ps["ramp_time_sec"])
           q == syncParamAliases(ps)
<1>1. q = IF "ramp_time_sec" \in DOMAIN ps THEN Overlay(timed, ramp) ELSE timed
  BY DEF syncParamAliases
<1>2. /\ Aligned(timed)
      /\ "duration_sec" \in DOMAIN ps
         => "duration_sec" \in DOMAIN timed /\ timed["duration_sec"] = ps["duration_sec"]
  <2>1. CASE "duration_sec" \in DOMAIN ps
    <3> DEFINE e == Entry("runtime", ps["duration_sec"])
    <3>1. timed = Overlay(e, ps)
      BY <2>1
    <3>2. DOMAIN e = {"runtime"} /\ e["runtime"] = ps["duration_sec"]
      BY EntryIs
    <3> HIDE DEF e, timed
    <3>3. /\ DOMAIN timed = {"runtime"} \cup DOMAIN ps /\ timed["runtime"] = ps["duration_sec"]
          /\ timed["duration_sec"] = ps["duration_sec"]
      <4>1. /\ DOMAIN Overlay(e, ps) = DOMAIN e \cup DOMAIN ps
            /\ \A k \in DOMAIN e : Overlay(e, ps)[k] = e[k]
            /\ \A k \in DOMAIN ps \ DOMAIN e : Overlay(e, ps)[k] = ps[k]
        BY OverlayIs
      <4>2. "runtime" \in DOMAIN e /\ "duration_sec" \in DOMAIN ps \ DOMAIN e
        BY <2>1, <3>2
      <4> QED BY <3>1, <3>2, <4>1, <4>2
    <3> QED BY <2>1, <3>3 DEF Aligned
  <2>2. CASE "duration_sec" \notin DOMAIN ps /\ "runtime" \in DOMAIN ps
    <3> DEFINE e == Entry("duration_sec", ps["runtime"])
    <3>1. timed = Overlay(e, ps)
      BY <2>2
    <3>2. DOMAIN e = {"duration_sec"} /\ e["duration_sec"] = ps["runtime"]
      BY EntryIs
    <3> HIDE DEF e, timed
    <3>3. /\ DOMAIN timed = {"duration_sec"} \cup DOMAIN ps /\ timed["duration_sec"] = ps["runtime"]
          /\ timed["runtime"] = ps["runtime"]
      <4>1. /\ DOMAIN Overlay(e, ps) = DOMAIN e \cup DOMAIN ps
            /\ \A k \in DOMAIN e : Overlay(e, ps)[k] = e[k]
            /\ \A k \in DOMAIN ps \ DOMAIN e : Overlay(e, ps)[k] = ps[k]
        BY OverlayIs
      <4>2. "duration_sec" \in DOMAIN e /\ "runtime" \in DOMAIN ps \ DOMAIN e
        BY <2>2, <3>2
      <4> QED BY <3>1, <3>2, <4>1, <4>2
    <3> QED BY <2>2, <3>3 DEF Aligned
  <2>3. CASE "duration_sec" \notin DOMAIN ps /\ "runtime" \notin DOMAIN ps
    <3>1. timed = ps
      BY <2>3
    <3> HIDE DEF timed
    <3> QED BY <2>3, <3>1 DEF Aligned
  <2> QED BY <2>1, <2>2, <2>3
<1> HIDE DEF timed, q
<1>3. CASE "ramp_time_sec" \in DOMAIN ps
  <2>1. DOMAIN ramp = {"ramp_time"}
    BY EntryIs
  <2> HIDE DEF ramp
  <2>2. /\ DOMAIN q = DOMAIN timed \cup {"ramp_time"}
        /\ \A k \in DOMAIN timed : q[k] = timed[k]
    BY <1>1, <1>3, <2>1, OverlayIs
  <2>3. Aligned(q)
    BY <1>2, <2>2 DEF Aligned
  <2> QED BY <1>2, <2>2, <2>3 DEF q
<1>4. CASE "ramp_time_sec" \notin DOMAIN ps
  BY <1>1, <1>2, <1>4 DEF q
<1> QED BY <1>3, <1>4

\* What the spellings of a key become.
LEMMA KeyIs ==
    ASSUME NEW k
    PROVE  /\ normalizeParamKey(k) = "duration_sec" <=> k \in {"duration", "duration_sec"}
           /\ k = "runtime" => normalizeParamKey(k) = "runtime"
<1>1. CASE k = "duration"
  BY <1>1 DEF normalizeParamKey
<1>2. CASE k \in {"ramp", "warmup_sec"}
  BY <1>2 DEF normalizeParamKey
<1>3. CASE k # "duration" /\ k \notin {"ramp", "warmup_sec"}
  BY <1>3 DEF normalizeParamKey
<1> QED BY <1>1, <1>2, <1>3

\* The parameters of the copy: the profile's own when nothing is overridden, or
\* aligned ones, with the duration of the overrides if they spell it one way.
LEMMA OverridesAlign ==
    ASSUME NEW ps, NEW over, NEW q \in ApplyOverrides(ps, over)
    PROVE  /\ q = ps \/ (Aligned(q) /\ ("duration_sec" \in DOMAIN ps => "duration_sec" \in DOMAIN q))
           /\ \A d : /\ "duration_sec" \in DOMAIN over /\ over["duration_sec"] = d
                     /\ d # Null /\ "duration" \notin DOMAIN over
                     => Aligned(q) /\ "duration_sec" \in DOMAIN q /\ q["duration_sec"] = d
<1> DEFINE given == {k \in DOMAIN over : over[k] # Null}
           keys  == {normalizeParamKey(k) : k \in given}
           wins  == {f \in [keys -> {over[k] : k \in given}] :
                       \A n \in keys : \E k \in given : normalizeParamKey(k) = n /\ f[n] = over[k]}
<1>1. CASE DOMAIN over = {}
  <2>1. q = ps
    BY <1>1 DEF ApplyOverrides
  <2> QED BY <1>1, <2>1
<1>2. CASE DOMAIN over # {}
  <2>1. PICK f \in wins : q = syncParamAliases(Overlay(f, ps))
    BY <1>2 DEF ApplyOverrides
  <2>2. DOMAIN f = keys /\ \A n \in keys : \E k \in given : normalizeParamKey(k) = n /\ f[n] = over[k]
    BY <2>1
  <2> HIDE DEF wins
  <2> DEFINE z == Overlay(f, ps)
  <2>3. /\ Aligned(q)
        /\ "duration_sec" \in DOMAIN z
           => "duration_sec" \in DOMAIN q /\ q["duration_sec"] = z["duration_sec"]
    <3>1. q = syncParamAliases(z)
      BY <2>1
    <3> HIDE DEF z
    <3> QED BY <3>1, SyncAligns
  <2>4. DOMAIN z = keys \cup DOMAIN ps /\ \A k \in keys : z[k] = f[k]
    <3>1. DOMAIN z = DOMAIN f \cup DOMAIN ps /\ \A k \in DOMAIN f : z[k] = f[k]
      BY OverlayIs
    <3> HIDE DEF z, keys
    <3> QED BY <2>2, <3>1
  <2> HIDE DEF z, keys, given
  <2>5. ASSUME "duration_sec" \in DOMAIN over, over["duration_sec"] # Null, "duration" \notin DOMAIN over
        PROVE  Aligned(q) /\ "duration_sec" \in DOMAIN q /\ q["duration_sec"] = over["duration_sec"]
    <3>1. "duration_sec" \in given
      BY <2>5 DEF given
    <3>2. "duration_sec" \in keys
      BY <3>1, KeyIs DEF keys
    <3>3. PICK k \in given : normalizeParamKey(k) = "duration_sec" /\ f["duration_sec"] = over[k]
      BY <2>2, <3>2
    <3>4. k = "duration_sec"
      BY <2>5, <3>3, KeyIs DEF given
    <3> QED BY <2>3, <2>4, <3>2, <3>3, <3>4
  <2> QED BY <2>3, <2>4, <2>5
<1> QED BY <1>1, <1>2

\* The engine runs as long as the validator judges, whatever the copy has.
LEMMA DurationsAgree ==
    ASSUME NEW n \in DOMAIN Library, NEW ps,
           LET own == Library[n].params
           IN  ps = own \/ (Aligned(ps) /\ ("duration_sec" \in DOMAIN own => "duration_sec" \in DOMAIN ps))
    PROVE  LET lib  == Library[n]
               runs == EngineDuration(lib.engine, ps)
           IN  /\ runs = workloadDuration(ps) \/ ps["duration_sec"] = Text
               /\ workloadDuration(ps) >= lib.minRuntime => runs >= lib.minRuntime
               /\ Aligned(ps) /\ "duration_sec" \in DOMAIN ps /\ ps["duration_sec"] # Text
                  => runs = ps["duration_sec"]
<1> DEFINE lib  == Library[n]
           e    == lib.engine
           own  == lib.params
           runs == EngineDuration(e, ps)
           work == workloadDuration(ps)
           has(k) == k \in DOMAIN ps /\ ps[k] # Text
<1>1. /\ lib.minRuntime \in Nat
      /\ e = "fio" => "duration_sec" \notin DOMAIN own
      /\ e # "fio" => "runtime" \notin DOMAIN own
      /\ e \in {"vdbench", "sbk"} => "duration_sec" \in DOMAIN own /\ own["duration_sec"] # Text
  BY LibraryAssumption
<1>2. ps = own \/ (Aligned(ps) /\ ("duration_sec" \in DOMAIN own => "duration_sec" \in DOMAIN ps))
  OBVIOUS
<1>3. /\ work = IF has("runtime") THEN ps["runtime"]
                ELSE IF has("duration_sec") THEN ps["duration_sec"] ELSE 60
      /\ e = "fio" => runs = IF has("runtime") THEN ps["runtime"] ELSE 60
      /\ e \in {"vdbench", "sbk"} => runs = IF has("duration_sec") THEN ps["duration_sec"] ELSE 300
      /\ e \notin {"fio", "vdbench", "sbk"} => runs = IF has("duration_sec") THEN ps["duration_sec"] ELSE 60
  BY DEF workloadDuration, EngineDuration, ParamInt
<1> HIDE DEF lib, e, own, runs, work
<1>4. CASE ps = own
  <2>1. runs = work
    BY <1>1, <1>3, <1>4
  <2>2. Aligned(ps) /\ "duration_sec" \in DOMAIN ps => FALSE
    BY <1>1, <1>4 DEF Aligned
  <2> QED BY <2>1, <2>2 DEF lib, e, own, runs, work
<1>5. CASE Aligned(ps) /\ ("duration_sec" \in DOMAIN own => "duration_sec" \in DOMAIN ps)
  <2>1. CASE has("duration_sec")
    <3>1. runs = ps["duration_sec"] /\ work = ps["duration_sec"]
      BY <1>3, <1>5, <2>1 DEF Aligned
    <3> QED BY <3>1 DEF lib, e, own, runs, work
  <2>2. CASE "duration_sec" \in DOMAIN ps /\ ps["duration_sec"] = Text
    <3>1. work = 60 /\ runs \in {60, 300}
      BY <1>3, <1>5, <2>2 DEF Aligned
    <3>2. work >= lib.minRuntime => runs >= lib.minRuntime
      BY <1>1, <3>1
    <3> QED BY <2>2, <3>2 DEF lib, e, own, runs, work
  <2>3. CASE "duration_sec" \notin DOMAIN ps
    <3>1. runs = work
      BY <1>1, <1>3, <1>5, <2>3 DEF Aligned
    <3> QED BY <2>3, <3>1 DEF lib, e, own, runs, work
  <2> QED BY <2>1, <2>2, <2>3
<1> QED BY <1>2, <1>4, <1>5

\* A duration that the intent alone names has one spelling in the plan.
Says(a, p) ==
    a.answer = Blank /\ a.intent.duration > 0
    => /\ "duration_sec" \in DOMAIN p.params /\ p.params["duration_sec"] = a.intent.duration
       /\ "duration" \notin DOMAIN p.params

\* It gets there from the intent.
LEMMA PlanSays ==
    ASSUME NEW a \in Asks, NEW base \in bases(a)
    PROVE  LET p == MergePlan(mergeParsedIntoPlan(base, ParseIntent(a.intent)), options(a))
           IN  p.profile \in DOMAIN Library /\ Says(a, p)
<1> DEFINE i == a.intent
           parsed == ParseIntent(i)
           o == options(a)
           b == mergeParsedIntoPlan(base, parsed)
           p == MergePlan(b, o)
<1>1. b = [profile |-> base.profile,
           target |-> First(base.target, parsed.target),
           targets |-> FirstList(base.targets, parsed.targets),
           clients |-> FirstList(base.clients, parsed.clients),
           topology |-> First(base.topology, parsed.topology),
           params |-> Overlay(base.params, parsed.params)]
  BY DEF mergeParsedIntoPlan
<1>2. parsed.params = intentParams(i)
  BY DEF ParseIntent
<1> HIDE DEF parsed, o, i
<1>3. p = [b EXCEPT !.target = First(o.target, b.target), !.targets = FirstList(o.targets, b.targets),
                    !.clients = FirstList(o.clients, b.clients),
                    !.topology = IF o.topology \notin {Blank, "auto"} THEN o.topology
                                 ELSE First(b.topology, "auto")]
  BY DEF MergePlan
<1>4. p.profile = base.profile /\ p.params = Overlay(base.params, parsed.params)
  <2>1. p = [profile |-> b.profile, target |-> First(o.target, b.target),
             targets |-> FirstList(o.targets, b.targets), clients |-> FirstList(o.clients, b.clients),
             topology |-> IF o.topology \notin {Blank, "auto"} THEN o.topology
                          ELSE First(b.topology, "auto"), params |-> b.params]
    BY <1>1, <1>3
  <2>2. b.profile = base.profile /\ b.params = Overlay(base.params, parsed.params)
    BY <1>1
  <2> HIDE DEF b
  <2>3. p.profile = b.profile /\ p.params = b.params
    BY <2>1
  <2> QED BY <2>2, <2>3
<1> HIDE DEF b, p
<1>5. base.profile \in DOMAIN Library
  <2>1. \A w : SuggestProfile(w) \subseteq {FirstProfile} \cup DOMAIN Keywords
    BY DEF SuggestProfile
  <2> QED BY <2>1, LibraryAssumption DEF bases
<1>6. ASSUME a.answer = Blank, i.duration > 0
      PROVE  /\ "duration_sec" \in DOMAIN p.params /\ p.params["duration_sec"] = i.duration
             /\ "duration" \notin DOMAIN p.params
  <2>1. base.params = <<>>
    BY <1>6 DEF bases
  <2>2. DOMAIN base.params = {}
    BY <2>1
  <2>3. /\ "duration_sec" \in DOMAIN intentParams(i) /\ intentParams(i)["duration_sec"] = i.duration
        /\ "duration" \notin DOMAIN intentParams(i)
    BY <1>6 DEF intentParams
  <2>4. /\ DOMAIN p.params = DOMAIN base.params \cup DOMAIN intentParams(i)
        /\ \A k \in DOMAIN intentParams(i) \ DOMAIN base.params : p.params[k] = intentParams(i)[k]
    <3> DEFINE z == Overlay(base.params, intentParams(i))
    <3>1. /\ DOMAIN z = DOMAIN base.params \cup DOMAIN intentParams(i)
          /\ \A k \in DOMAIN intentParams(i) \ DOMAIN base.params : z[k] = intentParams(i)[k]
      BY OverlayIs
    <3>2. p.params = z
      BY <1>2, <1>4
    <3> HIDE DEF z
    <3> QED BY <3>1, <3>2
  <2> QED BY <2>2, <2>3, <2>4
<1> QED BY <1>4, <1>5, <1>6 DEF Says, p, b, parsed, o, i

\* The guide's defaults leave it alone.
LEMMA GuideSays ==
    ASSUME NEW p, PlanOK(p), NEW lib, NEW a, Says(a, p)
    PROVE  LET g == applyGuidanceDefaults(p, lib)
           IN  g.profile = p.profile /\ Says(a, g)
<1> DEFINE g == applyGuidanceDefaults(p, lib)
           more == suggestEngineDefaults(p, lib)
           m == IF p.topology \in {Blank, "auto"} THEN First(defaultTopology(p), p.topology) ELSE p.topology
<1>1. g = [p EXCEPT !.params = Overlay(p.params, more), !.topology = m]
  BY DEF applyGuidanceDefaults
<1>2. p = [profile |-> p.profile, target |-> p.target, targets |-> p.targets,
           clients |-> p.clients, topology |-> p.topology, params |-> p.params]
  BY DEF PlanOK
<1>3. "duration" \notin DOMAIN more
  <2>1. \A c \in EngineCatalog(lib.engine) : c[1] # "duration"
    BY DEF EngineCatalog
  <2> QED BY <2>1 DEF suggestEngineDefaults, Restrict
<1> HIDE DEF more, m, g
<1>4. g.profile = p.profile /\ g.params = Overlay(p.params, more)
  BY <1>1, <1>2
<1>5. /\ DOMAIN g.params = DOMAIN p.params \cup DOMAIN more
      /\ \A k \in DOMAIN p.params : g.params[k] = p.params[k]
  <2> DEFINE z == Overlay(p.params, more)
  <2>1. DOMAIN z = DOMAIN p.params \cup DOMAIN more /\ \A k \in DOMAIN p.params : z[k] = p.params[k]
    BY OverlayIs
  <2>2. g.params = z
    BY <1>4
  <2> HIDE DEF z
  <2> QED BY <2>1, <2>2
<1>6. Says(a, g)
  BY <1>3, <1>5 DEF Says
<1> QED BY <1>4, <1>6 DEF g

\* Of a run that somebody asked for: the plan says the duration of the intent,
\* the copy has the plan's parameters, and the verdict is about this copy.
TimeOK ==
    ask # Blank =>
        /\ stage # "plan" => plan.profile \in DOMAIN Library /\ Says(ask, plan)
        /\ stage \in {"validate", "start", "request"}
           => params \in ApplyOverrides(LoadByName(plan.profile).params, plan.params)
        /\ stage \in {"start", "request"}
           => /\ verdict.duration = workloadDuration(params)
              /\ workloadDuration(params) >= LoadByName(plan.profile).minRuntime \/ ask.skipValidate

LEMMA TimeStep ==
    ASSUME IInv, TimeOK, [PlanningNext]_<<planVars, request, schedule>>
    PROVE  TimeOK'
<1> SUFFICES ASSUME ask' # Blank PROVE TimeOK'
  BY DEF TimeOK
<1>1. CASE MakePlan
  <2>1. stage = "plan" /\ stage' \in {"no target", "guide"} /\ UNCHANGED ask
    BY <1>1 DEF MakePlan
  <2>2. ask \in Asks
    BY <2>1, Early
  <2>3. PICK base \in bases(ask) :
          plan' = MergePlan(mergeParsedIntoPlan(base, ParseIntent(ask.intent)), options(ask))
    BY <1>1 DEF MakePlan
  <2>4. plan'.profile \in DOMAIN Library /\ Says(ask, plan')
    BY <2>2, <2>3, PlanSays
  <2>5. Says(ask, plan)'
    BY <2>1, <2>4
  <2> QED BY <2>1, <2>4, <2>5 DEF TimeOK
<1>2. CASE Guide
  <2>1. stage = "guide" /\ UNCHANGED ask
    BY <1>2 DEF Guide
  <2>2. PlanOK(plan) /\ plan.profile \in DOMAIN Library /\ Says(ask, plan)
    BY <2>1 DEF TimeOK, IInv
  <2>3. CASE stage' = "advised" /\ plan' = plan
    <3>1. Says(ask, plan)'
      BY <2>1, <2>2, <2>3
    <3> QED BY <2>2, <2>3, <3>1 DEF TimeOK
  <2>4. CASE /\ stage' \in {"clarify", "validate"}
             /\ plan' = applyGuidanceDefaults(plan, LoadByName(plan.profile))
             /\ params' \in ApplyOverrides(LoadByName(plan.profile).params, plan'.params)
    <3>1. plan'.profile = plan.profile /\ Says(ask, plan')
      BY <2>2, <2>4, GuideSays
    <3>2. Says(ask, plan)'
      BY <2>1, <3>1
    <3>3. LoadByName(plan.profile)' = LoadByName(plan.profile)
      BY <3>1
    <3>4. params' \in ApplyOverrides(LoadByName(plan'.profile).params, plan'.params)
      BY <2>4, <3>1
    <3>5. (params \in ApplyOverrides(LoadByName(plan.profile).params, plan.params))'
      BY <3>4
    <3> QED BY <2>2, <2>4, <3>1, <3>2, <3>5 DEF TimeOK
  <2>5. \/ stage' = "advised" /\ plan' = plan
        \/ /\ stage' \in {"clarify", "validate"}
           /\ plan' = applyGuidanceDefaults(plan, LoadByName(plan.profile))
           /\ params' \in ApplyOverrides(LoadByName(plan.profile).params, plan'.params)
    BY <1>2 DEF Guide
  <2> QED BY <2>3, <2>4, <2>5
<1>3. CASE Validate
  <2>1. stage = "validate" /\ UNCHANGED <<ask, plan, params>>
    BY <1>3 DEF Validate
  <2>2. /\ plan.profile \in DOMAIN Library /\ Says(ask, plan)
        /\ params \in ApplyOverrides(LoadByName(plan.profile).params, plan.params)
    BY <2>1 DEF TimeOK
  <2>3. PICK others, ssh \in BOOLEAN :
          verdict' = [passed |-> /\ Passes(LoadByName(plan.profile), params, others)
                                 /\ ValidateHardware(LoadByName(plan.profile), ssh),
                      duration |-> workloadDuration(params)]
    BY <1>3 DEF Validate
  <2>4. verdict'.duration = workloadDuration(params)
    BY <2>3
  <2>5. verdict'.passed => workloadDuration(params) >= LoadByName(plan.profile).minRuntime
    <3>1. verdict'.passed => Passes(LoadByName(plan.profile), params, others)
      BY <2>3
    <3> QED BY <3>1 DEF Passes
  <2>6. /\ stage' \in {"start", "invalid"}
        /\ stage' = "start" => verdict'.passed \/ ask.skipValidate
    BY <1>3 DEF Validate
  <2>7. Says(ask, plan)' /\ workloadDuration(params)' = workloadDuration(params)
    BY <2>1, <2>2
  <2>8. (params \in ApplyOverrides(LoadByName(plan.profile).params, plan.params))'
    BY <2>1, <2>2
  <2>9. stage' = "start" => workloadDuration(params) >= LoadByName(plan.profile).minRuntime \/ ask.skipValidate
    BY <2>5, <2>6
  <2> QED BY <2>1, <2>2, <2>4, <2>6, <2>7, <2>8, <2>9 DEF TimeOK
<1>4. CASE Start \/ (stage = "request" /\ Plan /\ UNCHANGED planVars) \/ UNCHANGED <<planVars, request, schedule>>
  <2>1. /\ UNCHANGED <<ask, plan, params, verdict>>
        /\ (stage' = stage) \/ (stage = "start" /\ stage' = "request")
    BY <1>4 DEF Start, planVars
  <2>2. (Says(ask, plan)' <=> Says(ask, plan)) /\ workloadDuration(params)' = workloadDuration(params)
    BY <2>1
  <2>3. /\ LoadByName(plan.profile)' = LoadByName(plan.profile)
        /\ ApplyOverrides(LoadByName(plan.profile).params, plan.params)'
             = ApplyOverrides(LoadByName(plan.profile).params, plan.params)
    BY <2>1
  <2> QED BY <2>1, <2>2, <2>3 DEF TimeOK
<1> QED BY <1>1, <1>2, <1>3, <1>4 DEF PlanningNext

\* The engine runs as long as the validator judged: the copy has the duration
\* under both names or the profile's one, which is the name the runner reads; so
\* no run that was validated is shorter than its profile's minimum, and the
\* duration of an intent reaches the engine.
THEOREM DurationsReachEngines == PlanningSpec => []DurationKept
<1>1. PlanningInit => TimeOK
  BY DEF PlanningInit, Direct, Asked, TimeOK
<1>2. IInv /\ TimeOK => DurationKept
  <2> SUFFICES ASSUME IInv, TimeOK, Scheduled PROVE DurationKept
    BY DEF DurationKept
  <2> DEFINE lib  == LoadByName(plan.profile)
             runs == EngineDuration(lib.engine, params)
             work == workloadDuration(params)
             own  == Library[plan.profile].params
  <2>1. stage = "request" /\ ask # Blank /\ ask \in Asks
    BY DEF IInv, Scheduled, Planned
  <2>2. /\ plan.profile \in DOMAIN Library /\ Says(ask, plan)
        /\ params \in ApplyOverrides(own, plan.params)
        /\ verdict.duration = work
        /\ work >= lib.minRuntime \/ ask.skipValidate
    BY <2>1 DEF TimeOK, LoadByName
  <2>3. /\ params = own \/ (Aligned(params) /\ ("duration_sec" \in DOMAIN own => "duration_sec" \in DOMAIN params))
        /\ \A d : /\ "duration_sec" \in DOMAIN plan.params /\ plan.params["duration_sec"] = d
                  /\ d # Null /\ "duration" \notin DOMAIN plan.params
                  => Aligned(params) /\ "duration_sec" \in DOMAIN params /\ params["duration_sec"] = d
    BY <2>2, OverridesAlign
  <2>4. /\ runs = work \/ params["duration_sec"] = Text
        /\ work >= lib.minRuntime => runs >= lib.minRuntime
        /\ Aligned(params) /\ "duration_sec" \in DOMAIN params /\ params["duration_sec"] # Text
           => runs = params["duration_sec"]
    BY <2>2, <2>3, DurationsAgree DEF LoadByName
  <2> HIDE DEF lib, runs, work
  <2>5. ask.answer = Blank /\ ask.intent.duration > 0 => runs = ask.intent.duration
    <3> SUFFICES ASSUME ask.answer = Blank, ask.intent.duration > 0 PROVE runs = ask.intent.duration
      OBVIOUS
    <3>1. ask.intent.duration # Null /\ ask.intent.duration # Text
      BY <2>1, LibraryAssumption
    <3>2. /\ "duration_sec" \in DOMAIN plan.params /\ plan.params["duration_sec"] = ask.intent.duration
          /\ "duration" \notin DOMAIN plan.params
      BY <2>2 DEF Says
    <3> QED BY <2>3, <2>4, <3>1, <3>2
  <2>6. /\ runs >= lib.minRuntime \/ ask.skipValidate
        /\ runs = verdict.duration \/ params["duration_sec"] = Text
    BY <2>2, <2>4
  <2> QED BY <2>5, <2>6 DEF DurationKept, lib, runs
<1> QED BY <1>1, <1>2, Invariance, TimeStep, PTL DEF PlanningSpec

-----------------------------------------------------------------------------
(* Loops over the results.  A fold takes the elements of a set one by one, *)
(* the one that Pick chooses last, so that its value for a set is made of  *)
(* that of a smaller one.                                                  *)

Pick(s) == CHOOSE x \in s : TRUE

\* A collection of the subsets of a finite set that has a subset as soon as it
\* has all smaller ones has all of them.
LEMMA SetUp ==
    ASSUME NEW D, IsFiniteSet(D), NEW G,
           \A s \in SUBSET D : (\A u \in SUBSET s : u # s => u \in G) => s \in G
    PROVE  SUBSET D \subseteq G
<1> DEFINE Bad == {s \in SUBSET D : s \notin G}
<1> SUFFICES ASSUME Bad # {} PROVE FALSE
  OBVIOUS
<1>1. Bad \subseteq FiniteSubsetsOf(D)
  BY FS_Subset DEF FiniteSubsetsOf
<1>2. PICK s \in Bad : \A u \in Bad : ~ (<<u, s>> \in StrictSubsetOrdering(D))
  <2> HIDE DEF Bad
  <2> QED BY <1>1, FS_StrictSubsetOrderingWellFounded, WFMin
<1>3. ASSUME NEW u \in SUBSET s, u # s PROVE u \in G
  <2>1. <<u, s>> \in StrictSubsetOrdering(D)
    BY <1>3 DEF StrictSubsetOrdering
  <2>2. u \notin Bad
    BY <1>2, <2>1
  <2> QED BY <1>3, <2>2
<1> QED BY <1>3

\* What is left of a set without one element.
LEMMA OneLess ==
    ASSUME NEW s, IsFiniteSet(s), NEW x \in s
    PROVE  /\ s \ {x} \in SUBSET s /\ s \ {x} # s /\ IsFiniteSet(s \ {x})
           /\ Cardinality(s \ {x}) + 1 = Cardinality(s) /\ Cardinality(s \ {x}) \in Nat
<1>1. /\ IsFiniteSet(s \ {x}) /\ Cardinality(s \ {x}) = Cardinality(s) - 1
      /\ Cardinality(s) \in Nat /\ Cardinality(s \ {x}) \in Nat
  BY FS_RemoveElement, FS_CardinalityType
<1> QED BY <1>1

LEMMA PickIn == ASSUME NEW s, s # {} PROVE Pick(s) \in s
BY DEF Pick

\* g is a fold of f: its value for every set of positions, with the step function
\* from an element's number and the value so far to the next.
Folded(g, D, f, step) ==
    /\ g \in [SUBSET D -> Nat] /\ g[{}] = 0
    /\ \A s \in SUBSET D : s # {} => g[s] = step[f[Pick(s)]][g[s \ {Pick(s)}]]

LEMMA FoldExists ==
    ASSUME NEW D, IsFiniteSet(D), NEW f \in [D -> Nat], NEW step \in [Nat -> [Nat -> Nat]]
    PROVE  \E g : Folded(g, D, f, step)
<1> DEFINE V == [SUBSET D -> Nat]
           next == [h \in V |-> [s \in SUBSET D |-> IF s = {} THEN 0 ELSE step[f[Pick(s)]][h[s \ {Pick(s)}]]]]
           zero == [s \in SUBSET D |-> 0]
           n == Cardinality(D) + 1
           steps == [k \in 1..n |-> next]
<1>1. n \in Nat
  <2> DEFINE c == Cardinality(D)
  <2>1. c \in Nat
    BY FS_CardinalityType
  <2> HIDE DEF c
  <2>2. c + 1 \in Nat
    BY <2>1
  <2> QED BY <2>2 DEF c
<1>2. \A s \in SUBSET D : s # {} => Pick(s) \in s /\ s \ {Pick(s)} \in SUBSET D /\ f[Pick(s)] \in Nat
  BY PickIn
<1>3. \A h \in V : next[h] \in V
  <2> SUFFICES ASSUME NEW h \in V, NEW s \in SUBSET D, s # {}
               PROVE  step[f[Pick(s)]][h[s \ {Pick(s)}]] \in Nat
    OBVIOUS
  <2>1. f[Pick(s)] \in Nat /\ h[s \ {Pick(s)}] \in Nat
    BY <1>2
  <2> HIDE DEF V
  <2> QED BY <2>1
<1>4. zero \in V /\ steps \in [1..n -> [V -> V]]
  <2>1. next \in [V -> V]
    BY <1>3
  <2> HIDE DEF next, V
  <2> QED BY <2>1 DEF V
<1>5. PICK h : h \in [0..n -> V] /\ h[0] = zero /\ \A k \in 1..n : h[k] = next[h[k-1]]
  <2>1. \E h : Follows(h, n, V, zero, steps)
    <3> HIDE DEF n, V, zero, steps
    <3> QED BY <1>1, <1>4, RecursionExists
  <2> HIDE DEF n, V, zero, next
  <2> QED BY <2>1 DEF Follows
<1> DEFINE g == [s \in SUBSET D |-> h[Cardinality(s) + 1][s]]
<1>6. ASSUME NEW s \in SUBSET D
      PROVE  /\ IsFiniteSet(s) /\ Cardinality(s) \in Nat /\ Cardinality(s) + 1 \in 1..n
             /\ h[Cardinality(s) + 1] \in V
             /\ h[Cardinality(s) + 1][s] = IF s = {} THEN 0 ELSE step[f[Pick(s)]][h[Cardinality(s)][s \ {Pick(s)}]]
  <2>1. IsFiniteSet(s) /\ Cardinality(s) \in Nat /\ Cardinality(s) <= Cardinality(D) /\ Cardinality(D) \in Nat
    BY FS_Subset, FS_CardinalityType
  <2>2. /\ Cardinality(s) + 1 \in 1..n /\ Cardinality(s) \in 0..n /\ Cardinality(s) + 1 \in 0..n
        /\ (Cardinality(s) + 1) - 1 = Cardinality(s)
    <3> DEFINE c == Cardinality(s)
               d == Cardinality(D)
    <3> HIDE DEF c, d
    <3>1. c \in Nat /\ d \in Nat /\ c <= d
      BY <2>1 DEF c, d
    <3>2. c + 1 \in 1..(d+1) /\ c \in 0..(d+1) /\ c + 1 \in 0..(d+1) /\ (c + 1) - 1 = c
      BY <3>1
    <3> QED BY <3>2 DEF c, d
  <2>3. h[Cardinality(s)] \in V /\ h[Cardinality(s) + 1] \in V /\ h[Cardinality(s) + 1] = next[h[Cardinality(s)]]
    <3> HIDE DEF V, next, n
    <3> QED BY <1>5, <2>2
  <2>4. next[h[Cardinality(s)]][s] = IF s = {} THEN 0 ELSE step[f[Pick(s)]][h[Cardinality(s)][s \ {Pick(s)}]]
    <3> HIDE DEF V
    <3> QED BY <2>3
  <2> QED BY <2>1, <2>2, <2>3, <2>4
<1>7. g \in [SUBSET D -> Nat]
  <2> SUFFICES ASSUME NEW s \in SUBSET D PROVE h[Cardinality(s) + 1][s] \in Nat
    OBVIOUS
  <2>1. h[Cardinality(s) + 1] \in V
    BY <1>6
  <2> QED BY <2>1
<1>8. g[{}] = 0
  <2>1. {} \in SUBSET D
    OBVIOUS
  <2> QED BY <1>6, <2>1
<1>9. ASSUME NEW s \in SUBSET D, s # {} PROVE g[s] = step[f[Pick(s)]][g[s \ {Pick(s)}]]
  <2>1. IsFiniteSet(s) /\ g[s] = step[f[Pick(s)]][h[Cardinality(s)][s \ {Pick(s)}]]
    BY <1>6, <1>9
  <2>2. Cardinality(s \ {Pick(s)}) + 1 = Cardinality(s)
    BY <1>9, <2>1, PickIn, OneLess
  <2>3. g[s \ {Pick(s)}] = h[Cardinality(s)][s \ {Pick(s)}]
    BY <2>2
  <2> QED BY <2>1, <2>3
<1> HIDE DEF g
<1>10. Folded(g, D, f, step)
  BY <1>7, <1>8, <1>9 DEF Folded
<1> QED BY <1>10

\* A fold is determined by its equations, for all sets.
LEMMA FoldUnique ==
    ASSUME NEW D, IsFiniteSet(D), NEW g, NEW h, g[{}] = h[{}],
           \A s \in SUBSET D : s # {} /\ g[s \ {Pick(s)}] = h[s \ {Pick(s)}] => g[s] = h[s]
    PROVE  \A s \in SUBSET D : g[s] = h[s]
<1> DEFINE G == {s \in SUBSET D : g[s] = h[s]}
<1>1. ASSUME NEW s \in SUBSET D, \A u \in SUBSET s : u # s => u \in G PROVE s \in G
  <2>1. CASE s = {}
    BY <2>1
  <2>2. CASE s # {}
    <3>1. Pick(s) \in s
      BY <2>2, PickIn
    <3>2. s \ {Pick(s)} \in SUBSET s /\ s \ {Pick(s)} # s
      BY <3>1
    <3>3. s \ {Pick(s)} \in G
      BY <1>1, <3>2
    <3> QED BY <2>2, <3>3
  <2> QED BY <2>1, <2>2
<1> HIDE DEF G
<1>2. SUBSET D \subseteq G
  BY <1>1, SetUp
<1> QED BY <1>2 DEF G

Add    == [v \in Nat |-> [m \in Nat |-> m + v]]
Larger == [v \in Nat |-> [m \in Nat |-> IF v > m THEN v ELSE m]]
Known  == [v \in Nat |-> [m \in Nat |-> IF m = 0 \/ (v > 0 /\ v < m) THEN v ELSE m]]

LEMMA StepTypes ==
    /\ Add \in [Nat -> [Nat -> Nat]] /\ Larger \in [Nat -> [Nat -> Nat]] /\ Known \in [Nat -> [Nat -> Nat]]
    /\ \A v, m \in Nat : /\ Add[v][m] = m + v
                         /\ Larger[v][m] = IF v > m THEN v ELSE m
                         /\ Known[v][m] = IF m = 0 \/ (v > 0 /\ v < m) THEN v ELSE m
BY DEF Add, Larger, Known

\* What the equations of a fold say of its parts.
LEMMA FoldParts ==
    ASSUME NEW D, NEW f \in [D -> Nat], NEW step, NEW g, Folded(g, D, f, step)
    PROVE  \A s \in SUBSET D : s # {} =>
             /\ Pick(s) \in s /\ Pick(s) \in D /\ s \ {Pick(s)} \in SUBSET D /\ f[Pick(s)] \in Nat
             /\ g[s \ {Pick(s)}] \in Nat /\ g[s] \in Nat /\ g[s] = step[f[Pick(s)]][g[s \ {Pick(s)}]]
<1> SUFFICES ASSUME NEW s \in SUBSET D, s # {}
             PROVE /\ Pick(s) \in s /\ Pick(s) \in D /\ s \ {Pick(s)} \in SUBSET D /\ f[Pick(s)] \in Nat
                   /\ g[s \ {Pick(s)}] \in Nat /\ g[s] \in Nat /\ g[s] = step[f[Pick(s)]][g[s \ {Pick(s)}]]
  OBVIOUS
<1>1. Pick(s) \in s
  BY PickIn
<1>2. Pick(s) \in D /\ s \ {Pick(s)} \in SUBSET D
  BY <1>1
<1> QED BY <1>1, <1>2 DEF Folded

\* Total, Largest and LeastKnown are folds.
LEMMA TotalFolds ==
    ASSUME NEW D, IsFiniteSet(D), NEW f \in [D -> Nat], NEW g, Folded(g, D, f, Add)
    PROVE  Total(f) = g[D]
<1> DEFINE op(v, m) == m + v
           Body(h) == [s \in SUBSET D |-> IF s = {} THEN 0 ELSE op(f[Pick(s)], h[s \ {Pick(s)}])]
           iter == CHOOSE h : h = Body(h)
<1>1. Total(f) = iter[D]
  <2>1. DOMAIN f = D
    OBVIOUS
  <2> QED BY <2>1 DEF Total, FoldFunction, FoldFunctionOnSet, MapThenFoldSet, Pick
<1>2. \A s \in SUBSET D : s # {} => g[s] = op(f[Pick(s)], g[s \ {Pick(s)}])
  <2> SUFFICES ASSUME NEW s \in SUBSET D, s # {} PROVE g[s] = op(f[Pick(s)], g[s \ {Pick(s)}])
    OBVIOUS
  <2>1. /\ f[Pick(s)] \in Nat /\ g[s \ {Pick(s)}] \in Nat
        /\ g[s] = Add[f[Pick(s)]][g[s \ {Pick(s)}]]
    BY FoldParts
  <2> QED BY <2>1, StepTypes
<1>3. g \in [SUBSET D -> Nat] /\ g[{}] = 0 /\ {} \in SUBSET D
  BY DEF Folded
<1> HIDE DEF op
<1>4. g = Body(g)
  BY <1>2, <1>3
<1>5. iter = Body(iter)
  BY <1>4
<1> HIDE DEF iter
<1>6. \A s \in SUBSET D : iter[s] = IF s = {} THEN 0 ELSE op(f[Pick(s)], iter[s \ {Pick(s)}])
  BY <1>5
<1>7. iter[{}] = g[{}] /\ \A s \in SUBSET D : s # {} /\ iter[s \ {Pick(s)}] = g[s \ {Pick(s)}] => iter[s] = g[s]
  BY <1>2, <1>3, <1>6
<1>8. \A s \in SUBSET D : iter[s] = g[s]
  BY <1>7, FoldUnique
<1> QED BY <1>1, <1>8

LEMMA LargestFolds ==
    ASSUME NEW D, IsFiniteSet(D), NEW f \in [D -> Nat], NEW g, Folded(g, D, f, Larger)
    PROVE  Largest(f) = g[D]
<1> DEFINE op(v, m) == IF v > m THEN v ELSE m
           Body(h) == [s \in SUBSET D |-> IF s = {} THEN 0 ELSE op(f[Pick(s)], h[s \ {Pick(s)}])]
           iter == CHOOSE h : h = Body(h)
<1>1. Largest(f) = iter[D]
  <2>1. DOMAIN f = D
    OBVIOUS
  <2> QED BY <2>1 DEF Largest, FoldFunction, FoldFunctionOnSet, MapThenFoldSet, Pick
<1>2. \A s \in SUBSET D : s # {} => g[s] = op(f[Pick(s)], g[s \ {Pick(s)}])
  <2> SUFFICES ASSUME NEW s \in SUBSET D, s # {} PROVE g[s] = op(f[Pick(s)], g[s \ {Pick(s)}])
    OBVIOUS
  <2>1. /\ f[Pick(s)] \in Nat /\ g[s \ {Pick(s)}] \in Nat
        /\ g[s] = Larger[f[Pick(s)]][g[s \ {Pick(s)}]]
    BY FoldParts
  <2> QED BY <2>1, StepTypes
<1>3. g \in [SUBSET D -> Nat] /\ g[{}] = 0 /\ {} \in SUBSET D
  BY DEF Folded
<1> HIDE DEF op
<1>4. g = Body(g)
  BY <1>2, <1>3
<1>5. iter = Body(iter)
  BY <1>4
<1> HIDE DEF iter
<1>6. \A s \in SUBSET D : iter[s] = IF s = {} THEN 0 ELSE op(f[Pick(s)], iter[s \ {Pick(s)}])
  BY <1>5
<1>7. iter[{}] = g[{}] /\ \A s \in SUBSET D : s # {} /\ iter[s \ {Pick(s)}] = g[s \ {Pick(s)}] => iter[s] = g[s]
  BY <1>2, <1>3, <1>6
<1>8. \A s \in SUBSET D : iter[s] = g[s]
  BY <1>7, FoldUnique
<1> QED BY <1>1, <1>8

LEMMA LeastFolds ==
    ASSUME NEW D, IsFiniteSet(D), NEW f \in [D -> Nat], NEW g, Folded(g, D, f, Known)
    PROVE  LeastKnown(f) = g[D]
<1> DEFINE op(v, m) == IF m = 0 \/ (v > 0 /\ v < m) THEN v ELSE m
           Body(h) == [s \in SUBSET D |-> IF s = {} THEN 0 ELSE op(f[Pick(s)], h[s \ {Pick(s)}])]
           iter == CHOOSE h : h = Body(h)
<1>1. LeastKnown(f) = iter[D]
  <2>1. DOMAIN f = D
    OBVIOUS
  <2> QED BY <2>1 DEF LeastKnown, FoldFunction, FoldFunctionOnSet, MapThenFoldSet, Pick
<1>2. \A s \in SUBSET D : s # {} => g[s] = op(f[Pick(s)], g[s \ {Pick(s)}])
  <2> SUFFICES ASSUME NEW s \in SUBSET D, s # {} PROVE g[s] = op(f[Pick(s)], g[s \ {Pick(s)}])
    OBVIOUS
  <2>1. /\ f[Pick(s)] \in Nat /\ g[s \ {Pick(s)}] \in Nat
        /\ g[s] = Known[f[Pick(s)]][g[s \ {Pick(s)}]]
    BY FoldParts
  <2> QED BY <2>1, StepTypes
<1>3. g \in [SUBSET D -> Nat] /\ g[{}] = 0 /\ {} \in SUBSET D
  BY DEF Folded
<1> HIDE DEF op
<1>4. g = Body(g)
  BY <1>2, <1>3
<1>5. iter = Body(iter)
  BY <1>4
<1> HIDE DEF iter
<1>6. \A s \in SUBSET D : iter[s] = IF s = {} THEN 0 ELSE op(f[Pick(s)], iter[s \ {Pick(s)}])
  BY <1>5
<1>7. iter[{}] = g[{}] /\ \A s \in SUBSET D : s # {} /\ iter[s \ {Pick(s)}] = g[s \ {Pick(s)}] => iter[s] = g[s]
  BY <1>2, <1>3, <1>6
<1>8. \A s \in SUBSET D : iter[s] = g[s]
  BY <1>7, FoldUnique
<1> QED BY <1>1, <1>8

-----------------------------------------------------------------------------
(* Sums.                                                                   *)

\* A sum over a set is the value of any element and the sum over the others.
SumsUp(g, D, f) ==
    /\ g \in [SUBSET D -> Nat] /\ g[{}] = 0
    /\ \A s \in SUBSET D : \A x \in s : g[s] = g[s \ {x}] + f[x]
    /\ \A s \in SUBSET D : Total(Restrict(f, s)) = g[s]

LEMMA Sums ==
    ASSUME NEW D, IsFiniteSet(D), NEW f \in [D -> Nat]
    PROVE  \E g : SumsUp(g, D, f)
<1>1. PICK g : Folded(g, D, f, Add)
  <2>1. Add \in [Nat -> [Nat -> Nat]]
    BY StepTypes
  <2> QED BY <2>1, FoldExists
<1>2. g \in [SUBSET D -> Nat] /\ g[{}] = 0
  BY <1>1 DEF Folded
<1>0. \A s \in SUBSET D : s # {} =>
        /\ Pick(s) \in s /\ g[s \ {Pick(s)}] \in Nat /\ f[Pick(s)] \in Nat
        /\ g[s] = Add[f[Pick(s)]][g[s \ {Pick(s)}]]
  <2> SUFFICES ASSUME NEW s \in SUBSET D, s # {}
               PROVE  /\ Pick(s) \in s /\ g[s \ {Pick(s)}] \in Nat /\ f[Pick(s)] \in Nat
                      /\ g[s] = Add[f[Pick(s)]][g[s \ {Pick(s)}]]
    OBVIOUS
  <2>1. Pick(s) \in s
    BY PickIn
  <2>2. Pick(s) \in D /\ s \ {Pick(s)} \in SUBSET D
    BY <2>1
  <2> QED BY <1>1, <2>1, <2>2 DEF Folded
<1>3. ASSUME NEW s \in SUBSET D, s # {}
      PROVE  /\ Pick(s) \in s /\ g[s \ {Pick(s)}] \in Nat /\ f[Pick(s)] \in Nat
             /\ g[s] = g[s \ {Pick(s)}] + f[Pick(s)]
  <2>1. /\ Pick(s) \in s /\ g[s \ {Pick(s)}] \in Nat /\ f[Pick(s)] \in Nat
        /\ g[s] = Add[f[Pick(s)]][g[s \ {Pick(s)}]]
    BY <1>0, <1>3
  <2> QED BY <2>1, StepTypes
<1>4. ASSUME NEW s \in SUBSET D, NEW x \in s PROVE g[s] = g[s \ {x}] + f[x]
  <2> DEFINE G == {u \in SUBSET D : \A y \in u : g[u] = g[u \ {y}] + f[y]}
  <2>1. ASSUME NEW u \in SUBSET D, \A w \in SUBSET u : w # u => w \in G PROVE u \in G
    <3> SUFFICES ASSUME NEW y \in u PROVE g[u] = g[u \ {y}] + f[y]
      OBVIOUS
    <3> DEFINE c == Pick(u)
    <3>1. c \in u /\ g[u \ {c}] \in Nat /\ f[c] \in Nat /\ g[u] = g[u \ {c}] + f[c]
      BY <1>3
    <3> HIDE DEF c
    <3>2. CASE y = c
      BY <3>1, <3>2
    <3>3. CASE y # c
      <4>1. u \ {c} \in G /\ u \ {y} \in G
        <5>1. u \ {c} \in SUBSET u /\ u \ {c} # u /\ u \ {y} \in SUBSET u /\ u \ {y} # u
          BY <3>1
        <5> HIDE DEF G
        <5> QED BY <2>1, <5>1
      <4>2. y \in u \ {c} /\ c \in u \ {y} /\ (u \ {c}) \ {y} = (u \ {y}) \ {c}
        BY <3>1, <3>3
      <4>3. g[u \ {c}] = g[(u \ {c}) \ {y}] + f[y] /\ g[u \ {y}] = g[(u \ {y}) \ {c}] + f[c]
        BY <4>1, <4>2
      <4>4. f[y] \in Nat /\ g[(u \ {c}) \ {y}] \in Nat
        BY <1>2
      <4>5. \A a, b, e \in Nat : (a + b) + e = (a + e) + b
        OBVIOUS
      <4>6. g[u] = (g[(u \ {c}) \ {y}] + f[y]) + f[c] /\ g[u \ {y}] = g[(u \ {c}) \ {y}] + f[c]
        BY <3>1, <4>2, <4>3
      <4> QED BY <3>1, <4>4, <4>5, <4>6
    <3> QED BY <3>2, <3>3
  <2> HIDE DEF G
  <2>2. SUBSET D \subseteq G
    BY <2>1, SetUp
  <2>3. s \in G
    BY <2>2
  <2> QED BY <2>3 DEF G
<1>5. ASSUME NEW s \in SUBSET D PROVE Total(Restrict(f, s)) = g[s]
  <2> DEFINE r == Restrict(f, s)
             h == [u \in SUBSET s |-> g[u]]
  <2>1. IsFiniteSet(s) /\ r \in [s -> Nat] /\ \A k \in s : r[k] = f[k]
    BY FS_Subset DEF Restrict
  <2>2. h \in [SUBSET s -> Nat] /\ h[{}] = 0 /\ \A u \in SUBSET s : h[u] = g[u]
    BY <1>2
  <2> HIDE DEF r, h
  <2>3. ASSUME NEW u \in SUBSET s, u # {} PROVE h[u] = Add[r[Pick(u)]][h[u \ {Pick(u)}]]
    <3>1. u \in SUBSET D
      OBVIOUS
    <3>2. /\ Pick(u) \in u /\ g[u \ {Pick(u)}] \in Nat /\ f[Pick(u)] \in Nat
          /\ g[u] = g[u \ {Pick(u)}] + f[Pick(u)]
      BY <1>3, <2>3, <3>1
    <3>3. h[u] = g[u] /\ h[u \ {Pick(u)}] = g[u \ {Pick(u)}] /\ r[Pick(u)] = f[Pick(u)]
      BY <2>1, <2>2, <3>2
    <3>4. h[u] = h[u \ {Pick(u)}] + r[Pick(u)] /\ r[Pick(u)] \in Nat /\ h[u \ {Pick(u)}] \in Nat
      BY <3>2, <3>3
    <3> QED BY <3>4, StepTypes
  <2>4. Folded(h, s, r, Add)
    BY <2>2, <2>3 DEF Folded
  <2>5. Total(r) = h[s] /\ h[s] = g[s]
    BY <2>1, <2>2, <2>4, TotalFolds
  <2> QED BY <2>5 DEF r
<1>6. SumsUp(g, D, f)
  BY <1>2, <1>4, <1>5 DEF SumsUp
<1> QED BY <1>6

LEMMA RestrictIs ==
    ASSUME NEW D, NEW R, NEW f \in [D -> R], NEW s \in SUBSET D
    PROVE  Restrict(f, s) \in [s -> R] /\ \A k \in s : Restrict(f, s)[k] = f[k]
BY DEF Restrict

LEMMA SumOfAll ==
    ASSUME NEW D, NEW f \in [D -> Nat], NEW g, SumsUp(g, D, f)
    PROVE  Total(f) = g[D] /\ g[D] \in Nat
<1>1. Restrict(f, D) = f
  BY DEF Restrict
<1>2. D \in SUBSET D
  OBVIOUS
<1> QED BY <1>1, <1>2 DEF SumsUp

LEMMA TotalIsNat ==
    ASSUME NEW D, IsFiniteSet(D), NEW f \in [D -> Nat]
    PROVE  Total(f) \in Nat
<1>1. PICK g : SumsUp(g, D, f)
  BY Sums
<1> QED BY <1>1, SumOfAll

\* Nothing adds up to zero, and one value to itself.
LEMMA TotalOne ==
    ASSUME NEW D, IsFiniteSet(D), NEW f \in [D -> Nat]
    PROVE  /\ D = {} => Total(f) = 0
           /\ \A x : D = {x} => Total(f) = f[x]
<1>1. PICK g : SumsUp(g, D, f)
  BY Sums
<1>2. Total(f) = g[D] /\ g[{}] = 0
  <2>1. g[{}] = 0
    BY <1>1 DEF SumsUp
  <2> QED BY <1>1, <2>1, SumOfAll
<1>3. ASSUME NEW x, D = {x} PROVE Total(f) = f[x]
  <2>1. D \in SUBSET D /\ x \in D /\ D \ {x} = {} /\ f[x] \in Nat
    BY <1>3
  <2>2. g[D] = g[D \ {x}] + f[x]
    BY <1>1, <2>1 DEF SumsUp
  <2> QED BY <1>2, <2>1, <2>2
<1> QED BY <1>2, <1>3

\* What is zero does not count.
LEMMA TotalZeros ==
    ASSUME NEW D, IsFiniteSet(D), NEW f \in [D -> Nat], NEW T \in SUBSET D, \A k \in D \ T : f[k] = 0
    PROVE  Total(f) = Total(Restrict(f, T))
<1>1. PICK g : SumsUp(g, D, f)
  BY Sums
<1>2. /\ g \in [SUBSET D -> Nat] /\ g[{}] = 0
      /\ \A s \in SUBSET D : \A x \in s : g[s] = g[s \ {x}] + f[x]
      /\ \A s \in SUBSET D : Total(Restrict(f, s)) = g[s]
  BY <1>1 DEF SumsUp
<1> DEFINE G == {s \in SUBSET D : g[s] = g[s \cap T]}
<1>3. ASSUME NEW s \in SUBSET D, \A u \in SUBSET s : u # s => u \in G PROVE s \in G
  <2>1. CASE s \subseteq T
    <3>1. s \cap T = s
      BY <2>1
    <3> QED BY <3>1
  <2>2. CASE ~ (s \subseteq T)
    <3>1. PICK x \in s : x \notin T
      BY <2>2
    <3>2. s \ {x} \in SUBSET s /\ s \ {x} # s /\ (s \ {x}) \cap T = s \cap T
      BY <3>1
    <3>3. g[s \ {x}] = g[s \cap T]
      BY <1>3, <3>2
    <3>4. f[x] = 0 /\ g[s] = g[s \ {x}] + f[x] /\ g[s \ {x}] \in Nat
      BY <1>2, <3>1
    <3> QED BY <3>3, <3>4
  <2> QED BY <2>1, <2>2
<1> HIDE DEF G
<1>4. SUBSET D \subseteq G
  BY <1>3, SetUp
<1>5. D \in G /\ D \cap T = T
  BY <1>4
<1>6. g[D] = g[T]
  BY <1>5 DEF G
<1>7. Total(f) = g[D] /\ Total(Restrict(f, T)) = g[T]
  BY <1>1, <1>2, SumOfAll
<1> QED BY <1>6, <1>7

\* b is the sum of f and h, element by element.
Adds(b, f, h, D) ==
    /\ f \in [D -> Nat] /\ h \in [D -> Nat] /\ b \in [D -> Nat]
    /\ \A k \in D : b[k] = f[k] + h[k]

LEMMA TotalPlus ==
    ASSUME NEW D, IsFiniteSet(D), NEW f, NEW h, NEW b, Adds(b, f, h, D)
    PROVE  Total(b) = Total(f) + Total(h)
<1>1. /\ f \in [D -> Nat] /\ h \in [D -> Nat] /\ b \in [D -> Nat]
      /\ \A k \in D : b[k] = f[k] + h[k] /\ f[k] \in Nat /\ h[k] \in Nat
  BY DEF Adds
<1>2. PICK gf, gh, gb : SumsUp(gf, D, f) /\ SumsUp(gh, D, h) /\ SumsUp(gb, D, b)
  BY <1>1, Sums
<1>3. /\ gf \in [SUBSET D -> Nat] /\ gf[{}] = 0 /\ \A s \in SUBSET D : \A x \in s : gf[s] = gf[s \ {x}] + f[x]
      /\ gh \in [SUBSET D -> Nat] /\ gh[{}] = 0 /\ \A s \in SUBSET D : \A x \in s : gh[s] = gh[s \ {x}] + h[x]
      /\ gb \in [SUBSET D -> Nat] /\ gb[{}] = 0 /\ \A s \in SUBSET D : \A x \in s : gb[s] = gb[s \ {x}] + b[x]
  BY <1>2 DEF SumsUp
<1> DEFINE G == {s \in SUBSET D : gb[s] = gf[s] + gh[s]}
<1>4. ASSUME NEW s \in SUBSET D, \A u \in SUBSET s : u # s => u \in G PROVE s \in G
  <2>1. CASE s = {}
    BY <1>3, <2>1
  <2>2. CASE s # {}
    <3>1. PICK x : x \in s
      BY <2>2
    <3>2. s \ {x} \in SUBSET s /\ s \ {x} # s /\ s \ {x} \in SUBSET D
      BY <3>1
    <3>3. gb[s \ {x}] = gf[s \ {x}] + gh[s \ {x}]
      BY <1>4, <3>2
    <3>4. /\ gf[s \ {x}] \in Nat /\ gh[s \ {x}] \in Nat /\ f[x] \in Nat /\ h[x] \in Nat
          /\ gf[s] = gf[s \ {x}] + f[x] /\ gh[s] = gh[s \ {x}] + h[x] /\ gb[s] = gb[s \ {x}] + (f[x] + h[x])
      BY <1>1, <1>3, <3>1, <3>2
    <3>5. \A p, q, v, w \in Nat : (p + q) + (v + w) = (p + v) + (q + w)
      OBVIOUS
    <3>6. gb[s] = gf[s] + gh[s]
      BY <3>3, <3>4, <3>5
    <3> QED BY <3>6
  <2> QED BY <2>1, <2>2
<1> HIDE DEF G
<1>5. SUBSET D \subseteq G
  BY <1>4, SetUp
<1>6. D \in G
  BY <1>5
<1>7. gb[D] = gf[D] + gh[D]
  BY <1>6 DEF G
<1>8. Total(f) = gf[D] /\ Total(h) = gh[D] /\ Total(b) = gb[D]
  BY <1>1, <1>2, SumOfAll
<1> QED BY <1>7, <1>8

\* A table by rows and by columns, and a column of totals.
Table(a, col, D, E) ==
    /\ a \in [D -> [E -> Nat]] /\ col \in [E -> [D -> Nat]]
    /\ \A k \in D, i \in E : col[i][k] = a[k][i]
Totals(row, a, D) == row = [k \in D |-> Total(a[k])]

\* Rows and columns of a table add up to the same.
LEMMA TotalExchange ==
    ASSUME NEW D, IsFiniteSet(D), NEW E, IsFiniteSet(E), NEW a, NEW col, Table(a, col, D, E),
           NEW row, Totals(row, a, D), NEW foot, Totals(foot, col, E)
    PROVE  Total(row) = Total(foot)
<1>0. /\ a \in [D -> [E -> Nat]] /\ col \in [E -> [D -> Nat]] /\ \A k \in D, i \in E : col[i][k] = a[k][i]
      /\ row = [k \in D |-> Total(a[k])] /\ foot = [i \in E |-> Total(col[i])]
  BY DEF Table, Totals
<1> DEFINE part(s) == [i \in E |-> Total(Restrict(col[i], s))]
<1>1. row \in [D -> Nat] /\ \A k \in D : row[k] = Total(a[k]) /\ a[k] \in [E -> Nat]
  <2> SUFFICES ASSUME NEW k \in D PROVE Total(a[k]) \in Nat /\ a[k] \in [E -> Nat]
    BY <1>0
  <2>1. a[k] \in [E -> Nat]
    BY <1>0
  <2> QED BY <2>1, TotalIsNat
<1>2. \A i \in E : col[i] \in [D -> Nat]
  BY <1>0
<1>3. PICK g : SumsUp(g, D, row)
  BY <1>1, Sums
<1>4. /\ g \in [SUBSET D -> Nat] /\ g[{}] = 0
      /\ \A s \in SUBSET D : \A x \in s : g[s] = g[s \ {x}] + row[x]
  BY <1>3 DEF SumsUp
<1>5. ASSUME NEW s \in SUBSET D
      PROVE  part(s) \in [E -> Nat] /\ \A i \in E : part(s)[i] = Total(Restrict(col[i], s))
  <2> SUFFICES ASSUME NEW i \in E PROVE Total(Restrict(col[i], s)) \in Nat
    OBVIOUS
  <2>1. IsFiniteSet(s)
    BY FS_Subset
  <2>2. Restrict(col[i], s) \in [s -> Nat]
    BY <1>2, RestrictIs
  <2> QED BY <2>1, <2>2, TotalIsNat
<1>6. part({}) = [i \in E |-> 0]
  <2> SUFFICES ASSUME NEW i \in E PROVE Total(Restrict(col[i], {})) = 0
    OBVIOUS
  <2>1. IsFiniteSet({}) /\ {} \in SUBSET D
    BY FS_EmptySet
  <2>2. Restrict(col[i], {}) \in [{} -> Nat]
    BY <1>2, <2>1, RestrictIs
  <2> QED BY <2>1, <2>2, TotalOne
<1>7. ASSUME NEW s \in SUBSET D, NEW x \in s
      PROVE  part(s) = [i \in E |-> part(s \ {x})[i] + a[x][i]]
  <2> SUFFICES ASSUME NEW i \in E
               PROVE  Total(Restrict(col[i], s)) = Total(Restrict(col[i], s \ {x})) + a[x][i]
    BY <1>5
  <2>1. PICK h : SumsUp(h, D, col[i])
    BY <1>2, Sums
  <2>2. s \ {x} \in SUBSET D /\ col[i][x] = a[x][i]
    BY <1>0
  <2>3. /\ Total(Restrict(col[i], s)) = h[s] /\ Total(Restrict(col[i], s \ {x})) = h[s \ {x}]
        /\ h[s] = h[s \ {x}] + col[i][x]
    BY <2>1, <2>2 DEF SumsUp
  <2> QED BY <2>2, <2>3
<1> HIDE DEF part
<1> DEFINE G == {s \in SUBSET D : g[s] = Total(part(s))}
<1>8. ASSUME NEW s \in SUBSET D, \A u \in SUBSET s : u # s => u \in G PROVE s \in G
  <2>1. CASE s = {}
    <3> DEFINE z == [i \in E |-> 0]
    <3>1. z \in [E -> Nat] /\ \A i \in E : z[i] = 0
      OBVIOUS
    <3> HIDE DEF z
    <3>2. PICK e \in SUBSET E : e = {}
      OBVIOUS
    <3>3. Total(z) = Total(Restrict(z, e))
      <4>1. \A i \in E \ e : z[i] = 0
        BY <3>1
      <4> QED BY <3>1, <4>1, TotalZeros
    <3>4. Total(Restrict(z, e)) = 0
      <4>1. Restrict(z, e) \in [e -> Nat] /\ IsFiniteSet(e)
        BY <3>1, <3>2, FS_EmptySet DEF Restrict
      <4> QED BY <3>2, <4>1, TotalOne
    <3>5. part(s) = z
      BY <1>6, <2>1 DEF z
    <3> QED BY <1>4, <2>1, <3>3, <3>4, <3>5
  <2>2. CASE s # {}
    <3>1. PICK x : x \in s
      BY <2>2
    <3>2. s \ {x} \in SUBSET s /\ s \ {x} # s /\ s \ {x} \in SUBSET D /\ x \in D
      BY <3>1
    <3>3. g[s \ {x}] = Total(part(s \ {x}))
      BY <1>8, <3>2
    <3>4. g[s] = g[s \ {x}] + Total(a[x])
      BY <1>1, <1>4, <3>1, <3>2
    <3>5. Total(part(s)) = Total(part(s \ {x})) + Total(a[x])
      <4>1. part(s \ {x}) \in [E -> Nat] /\ a[x] \in [E -> Nat]
        <5>1. part(s \ {x}) \in [E -> Nat]
          BY <1>5, <3>2
        <5>2. a[x] \in [E -> Nat]
          BY <1>1, <3>2
        <5> QED BY <5>1, <5>2
      <4>2. part(s) \in [E -> Nat] /\ \A i \in E : part(s)[i] = part(s \ {x})[i] + a[x][i]
        BY <1>5, <1>7, <3>1
      <4> DEFINE b == part(s)
                 p == part(s \ {x})
                 q == a[x]
      <4>3. Adds(b, p, q, E)
        BY <4>1, <4>2 DEF Adds
      <4> HIDE DEF b, p, q
      <4>4. Total(b) = Total(p) + Total(q)
        BY <4>3, TotalPlus
      <4> QED BY <4>4 DEF b, p, q
    <3>6. g[s] = Total(part(s))
      BY <3>3, <3>4, <3>5
    <3> QED BY <3>6
  <2> QED BY <2>1, <2>2
<1> HIDE DEF G
<1>9. SUBSET D \subseteq G
  BY <1>8, SetUp
<1>10. D \in G
  BY <1>9
<1>11. Total(row) = Total(part(D))
  BY <1>1, <1>3, <1>10, SumOfAll DEF G
<1>12. part(D) = foot
  <2> SUFFICES ASSUME NEW i \in E PROVE Restrict(col[i], D) = col[i]
    BY <1>0 DEF part
  <2>1. col[i] \in [D -> Nat]
    BY <1>2
  <2> QED BY <2>1 DEF Restrict
<1> QED BY <1>11, <1>12

LEMMA ImageIsFinite ==
    ASSUME NEW D, IsFiniteSet(D), NEW key
    PROVE  IsFiniteSet({key[k] : k \in D})
<1> DEFINE T == {key[k] : k \in D}
           m == [k \in D |-> key[k]]
<1>1. m \in Surjection(D, T)
  BY DEF Surjection
<1> HIDE DEF m, T
<1>2. IsFiniteSet(T)
  BY <1>1, FS_Surjection
<1> QED BY <1>2 DEF T

\* The keys of some positions, and the positions with one of them.
Keys(key, D)  == {key[k] : k \in D}
Of(key, D, t) == {k \in D : key[k] = t}
TotalsByKey(rows, f, key, D) == rows = [t \in Keys(key, D) |-> Total(Restrict(f, Of(key, D, t)))]

\* A sum may be taken key by key.
LEMMA TotalByKey ==
    ASSUME NEW D, IsFiniteSet(D), NEW f \in [D -> Nat], NEW key, NEW rows, TotalsByKey(rows, f, key, D)
    PROVE  Total(f) = Total(rows)
<1> DEFINE T == Keys(key, D)
           a == [k \in D |-> [t \in T |-> IF key[k] = t THEN f[k] ELSE 0]]
           b == [t \in T |-> [k \in D |-> IF key[k] = t THEN f[k] ELSE 0]]
           of(t) == Of(key, D, t)
<1>1. IsFiniteSet(T)
  BY ImageIsFinite DEF Keys
<1>2. /\ a \in [D -> [T -> Nat]] /\ b \in [T -> [D -> Nat]]
      /\ \A k \in D, t \in T : b[t][k] = a[k][t] /\ a[k][t] = IF key[k] = t THEN f[k] ELSE 0
  OBVIOUS
<1> HIDE DEF a, b
<1>3. ASSUME NEW k \in D PROVE Total(a[k]) = f[k]
  <2>1. /\ key[k] \in T /\ {key[k]} \in SUBSET T /\ a[k] \in [T -> Nat] /\ a[k][key[k]] = f[k]
        /\ \A t \in T \ {key[k]} : a[k][t] = 0
    <3>1. key[k] \in T
      BY DEF Keys
    <3>2. a[k] \in [T -> Nat] /\ \A t \in T : a[k][t] = IF key[k] = t THEN f[k] ELSE 0
      BY <1>2
    <3> QED BY <3>1, <3>2
  <2>2. Total(a[k]) = Total(Restrict(a[k], {key[k]}))
    BY <1>1, <2>1, TotalZeros
  <2>3. Restrict(a[k], {key[k]}) \in [{key[k]} -> Nat] /\ Restrict(a[k], {key[k]})[key[k]] = f[k]
    BY <2>1 DEF Restrict
  <2>4. IsFiniteSet({key[k]})
    BY FS_Singleton
  <2>5. Total(Restrict(a[k], {key[k]})) = Restrict(a[k], {key[k]})[key[k]]
    BY <2>3, <2>4, TotalOne
  <2> QED BY <2>2, <2>3, <2>5
<1>4. ASSUME NEW t \in T PROVE Total(b[t]) = Total(Restrict(f, of(t)))
  <2>0. b[t] \in [D -> Nat] /\ \A k \in D : b[t][k] = IF key[k] = t THEN f[k] ELSE 0
    <3>1. b[t] \in [D -> Nat]
      BY <1>2
    <3>2. ASSUME NEW k \in D PROVE b[t][k] = IF key[k] = t THEN f[k] ELSE 0
      BY DEF b
    <3> QED BY <3>1, <3>2
  <2>1. /\ b[t] \in [D -> Nat] /\ of(t) \in SUBSET D
        /\ \A k \in D \ of(t) : b[t][k] = 0
        /\ \A k \in of(t) : b[t][k] = f[k]
    BY <2>0 DEF Of
  <2> HIDE DEF of
  <2>2. Total(b[t]) = Total(Restrict(b[t], of(t)))
    BY <2>1, TotalZeros
  <2>3. Restrict(b[t], of(t)) = Restrict(f, of(t))
    BY <2>1 DEF Restrict
  <2> QED BY <2>2, <2>3
<1> DEFINE row  == [k \in D |-> Total(a[k])]
           foot == [t \in T |-> Total(b[t])]
<1>5. row = f
  BY <1>3
<1>6. foot = rows
  BY <1>4 DEF TotalsByKey
<1>7. Total(row) = Total(foot)
  <2>1. Totals(row, a, D) /\ Totals(foot, b, T)
    BY DEF Totals
  <2>2. Table(a, b, D, T)
    BY <1>2 DEF Table
  <2> HIDE DEF row, foot
  <2> QED BY <1>1, <2>1, <2>2, TotalExchange
<1> QED BY <1>5, <1>6, <1>7

-----------------------------------------------------------------------------
(* Maxima, minima and means.                                               *)

LEMMA LargestIs ==
    ASSUME NEW D, IsFiniteSet(D), NEW f \in [D -> Nat]
    PROVE  /\ Largest(f) \in Nat /\ \A k \in D : f[k] <= Largest(f)
           /\ \A n \in Nat : (\A k \in D : f[k] <= n) => Largest(f) <= n
<1>1. PICK g : Folded(g, D, f, Larger)
  <2>1. Larger \in [Nat -> [Nat -> Nat]]
    BY StepTypes
  <2> QED BY <2>1, FoldExists
<1>2. g \in [SUBSET D -> Nat] /\ g[{}] = 0
  BY <1>1 DEF Folded
<1> DEFINE G == {s \in SUBSET D : /\ \A k \in s : f[k] <= g[s]
                                  /\ \A n \in Nat : (\A k \in s : f[k] <= n) => g[s] <= n}
<1>3. ASSUME NEW s \in SUBSET D, \A u \in SUBSET s : u # s => u \in G PROVE s \in G
  <2>1. CASE s = {}
    BY <1>2, <2>1
  <2>2. CASE s # {}
    <3> DEFINE c == Pick(s)
               w == s \ {c}
    <3>1. c \in s
      BY <2>2, PickIn
    <3>2. w \in SUBSET s /\ w # s /\ w \in SUBSET D /\ c \in D /\ \A k \in s : k = c \/ k \in w
      BY <3>1
    <3>3. g[s] = Larger[f[c]][g[w]]
      BY <1>1, <2>2 DEF Folded
    <3> HIDE DEF c, w
    <3>4. f[c] \in Nat /\ g[w] \in Nat /\ g[s] = IF f[c] > g[w] THEN f[c] ELSE g[w]
      <4>1. f[c] \in Nat /\ g[w] \in Nat
        BY <1>2, <3>2
      <4> QED BY <3>3, <4>1, StepTypes
    <3>5. w \in G
      BY <1>3, <3>2
    <3>6. /\ \A k \in w : f[k] <= g[w] /\ f[k] \in Nat
          /\ \A n \in Nat : (\A k \in w : f[k] <= n) => g[w] <= n
      BY <3>2, <3>5
    <3>7. ASSUME NEW k \in s PROVE f[k] <= g[s]
      <4>1. CASE k = c
        BY <3>4, <4>1
      <4>2. CASE k # c
        <5>1. f[k] <= g[w] /\ f[k] \in Nat
          BY <3>2, <3>6, <4>2
        <5> QED BY <3>4, <5>1
      <4> QED BY <4>1, <4>2
    <3>8. ASSUME NEW n \in Nat, \A k \in s : f[k] <= n PROVE g[s] <= n
      <4>1. f[c] <= n /\ g[w] <= n
        BY <3>1, <3>2, <3>6, <3>8
      <4> QED BY <3>4, <4>1
    <3> QED BY <3>7, <3>8
  <2> QED BY <2>1, <2>2
<1> HIDE DEF G
<1>4. SUBSET D \subseteq G
  BY <1>3, SetUp
<1>5. D \in SUBSET D /\ D \in G
  BY <1>4
<1>6. Largest(f) = g[D]
  BY <1>1, LargestFolds
<1> QED BY <1>2, <1>5, <1>6 DEF G

\* m is the least positive number of a set, if there is one.
IsLeast(m, S) == IF S \subseteq {0} THEN m = 0 ELSE m \in S \ {0} /\ \A n \in S \ {0} : m <= n

LEMMA LeastIs ==
    ASSUME NEW D, IsFiniteSet(D), NEW f \in [D -> Nat]
    PROVE  LeastKnown(f) \in Nat /\ IsLeast(LeastKnown(f), {f[k] : k \in D})
<1>1. PICK g : Folded(g, D, f, Known)
  <2>1. Known \in [Nat -> [Nat -> Nat]]
    BY StepTypes
  <2> QED BY <2>1, FoldExists
<1>2. g \in [SUBSET D -> Nat] /\ g[{}] = 0
  BY <1>1 DEF Folded
<1> DEFINE G == {s \in SUBSET D : IsLeast(g[s], {f[k] : k \in s})}
<1>3. ASSUME NEW s \in SUBSET D, \A u \in SUBSET s : u # s => u \in G PROVE s \in G
  <2>1. CASE s = {}
    BY <1>2, <2>1 DEF IsLeast
  <2>2. CASE s # {}
    <3> DEFINE c == Pick(s)
               w == s \ {c}
               F == {f[k] : k \in w}
    <3>1. c \in s
      BY <2>2, PickIn
    <3>2. w \in SUBSET s /\ w # s /\ w \in SUBSET D /\ c \in D /\ \A k \in s : k = c \/ k \in w
      BY <3>1
    <3>3. g[s] = Known[f[c]][g[w]]
      BY <1>1, <2>2 DEF Folded
    <3>4. {f[k] : k \in s} = F \cup {f[c]} /\ F \subseteq Nat
      BY <3>1, <3>2
    <3> HIDE DEF c, w
    <3>5. f[c] \in Nat /\ g[w] \in Nat /\ g[s] = IF g[w] = 0 \/ (f[c] > 0 /\ f[c] < g[w]) THEN f[c] ELSE g[w]
      <4>1. f[c] \in Nat /\ g[w] \in Nat
        BY <1>2, <3>2
      <4> QED BY <3>3, <4>1, StepTypes
    <3>6. w \in G
      BY <1>3, <3>2
    <3>7. IsLeast(g[w], F)
      BY <3>6
    <3> HIDE DEF F
    <3>8. IsLeast(g[s], F \cup {f[c]})
      <4>1. CASE F \subseteq {0}
        <5>1. g[s] = f[c]
          BY <3>5, <3>7, <4>1 DEF IsLeast
        <5>2. \A n \in (F \cup {f[c]}) \ {0} : n = f[c]
          BY <4>1
        <5>3. CASE f[c] = 0
          <6>1. F \cup {f[c]} \subseteq {0}
            BY <4>1, <5>3
          <6> QED BY <5>1, <5>3, <6>1 DEF IsLeast
        <5>4. CASE f[c] # 0
          <6>1. f[c] \in (F \cup {f[c]}) \ {0} /\ f[c] <= f[c]
            BY <3>5, <5>4
          <6>2. ~ (F \cup {f[c]} \subseteq {0})
            BY <5>4
          <6> QED BY <5>1, <5>2, <6>1, <6>2 DEF IsLeast
        <5> QED BY <5>3, <5>4
      <4>2. CASE ~ (F \subseteq {0})
        <5>1. g[w] \in F \ {0} /\ \A n \in F \ {0} : g[w] <= n
          BY <3>7, <4>2 DEF IsLeast
        <5>2. g[s] \in (F \cup {f[c]}) \ {0}
          BY <3>5, <5>1
        <5>3. ASSUME NEW n \in (F \cup {f[c]}) \ {0} PROVE g[s] <= n
          <6>1. n \in Nat /\ n # 0 /\ (n = f[c] \/ (n \in F /\ g[w] <= n))
            BY <3>4, <3>5, <5>1
          <6> QED BY <3>5, <5>1, <6>1
        <5> QED BY <5>2, <5>3 DEF IsLeast
      <4> QED BY <4>1, <4>2
    <3> QED BY <3>4, <3>8
  <2> QED BY <2>1, <2>2
<1> HIDE DEF G
<1>4. SUBSET D \subseteq G
  BY <1>3, SetUp
<1>5. D \in SUBSET D /\ D \in G
  BY <1>4
<1>6. LeastKnown(f) = g[D]
  BY <1>1, LeastFolds
<1> QED BY <1>2, <1>5, <1>6 DEF G

LEMMA LeastPositiveIs ==
    ASSUME NEW S \in SUBSET Nat, NEW m, IsLeast(m, S)
    PROVE  m = LeastPositive(S)
<1>1. CASE S \subseteq {0}
  BY <1>1 DEF IsLeast, LeastPositive
<1>2. CASE ~ (S \subseteq {0})
  <2> DEFINE n == CHOOSE x \in S \ {0} : \A y \in S \ {0} : x <= y
  <2>1. m \in S \ {0} /\ \A y \in S \ {0} : m <= y
    BY <1>2 DEF IsLeast
  <2>2. n \in S \ {0} /\ \A y \in S \ {0} : n <= y
    BY <2>1
  <2>3. LeastPositive(S) = n
    BY <1>2 DEF LeastPositive
  <2> HIDE DEF n
  <2>4. m <= n /\ n <= m /\ m \in Nat /\ n \in Nat
    BY <2>1, <2>2
  <2> QED BY <2>3, <2>4
<1> QED BY <1>1, <1>2

\* The least of the least of the parts is the least of all.
LeastsByKey(rows, f, key, D) ==
    /\ rows \in [Keys(key, D) -> Nat]
    /\ \A t \in Keys(key, D) : IsLeast(rows[t], {f[k] : k \in Of(key, D, t)})

LEMMA LeastByKey ==
    ASSUME NEW D, NEW f \in [D -> Nat], NEW key, NEW rows, LeastsByKey(rows, f, key, D),
           NEW m \in Nat, IsLeast(m, {f[k] : k \in D})
    PROVE  IsLeast(m, {rows[t] : t \in Keys(key, D)})
<1> DEFINE T == Keys(key, D)
           of(t) == {f[k] : k \in Of(key, D, t)}
           F == {f[k] : k \in D}
           R == {rows[t] : t \in T}
<1>0. rows \in [T -> Nat] /\ \A t \in T : IsLeast(rows[t], of(t))
  BY DEF LeastsByKey
<1>1. ASSUME NEW t \in T PROVE of(t) \subseteq F /\ (rows[t] = 0 \/ rows[t] \in F)
  BY <1>0 DEF IsLeast, Of
<1>2. ASSUME NEW k \in D, f[k] # 0
      PROVE  key[k] \in T /\ rows[key[k]] # 0 /\ rows[key[k]] <= f[k]
  <2>1. key[k] \in T /\ f[k] \in of(key[k]) \ {0}
    BY <1>2 DEF Keys, Of
  <2>2. IsLeast(rows[key[k]], of(key[k]))
    BY <1>0, <2>1
  <2> HIDE DEF of
  <2> QED BY <2>1, <2>2 DEF IsLeast
<1>3. CASE F \subseteq {0}
  <2>1. m = 0 /\ \A t \in T : rows[t] = 0
    BY <1>1, <1>3 DEF IsLeast
  <2> QED BY <2>1 DEF IsLeast
<1>4. CASE ~ (F \subseteq {0})
  <2>1. m \in F \ {0} /\ \A n \in F \ {0} : m <= n
    BY <1>4 DEF IsLeast
  <2>2. PICK k \in D : f[k] = m /\ m # 0
    BY <2>1
  <2>3. key[k] \in T /\ rows[key[k]] # 0 /\ rows[key[k]] <= m
    BY <1>2, <2>2
  <2>4. rows[key[k]] \in F /\ m <= rows[key[k]] /\ rows[key[k]] \in Nat
    BY <1>0, <1>1, <2>1, <2>3
  <2>5. rows[key[k]] = m
    BY <2>3, <2>4
  <2>6. m \in R \ {0}
    BY <2>2, <2>3, <2>5
  <2>7. \A n \in R \ {0} : m <= n
    BY <1>1, <2>1
  <2> HIDE DEF R
  <2>8. IsLeast(m, R)
    BY <2>6, <2>7 DEF IsLeast
  <2> QED BY <2>8 DEF R
<1> QED BY <1>3, <1>4

\* A sum of values between two bounds.
LEMMA TotalBetween ==
    ASSUME NEW D, IsFiniteSet(D), NEW f \in [D -> Nat], NEW lo \in Nat, NEW hi \in Nat,
           \A k \in D : lo <= f[k] /\ f[k] <= hi
    PROVE  lo * Cardinality(D) <= Total(f) /\ Total(f) <= hi * Cardinality(D)
<1>1. PICK g : SumsUp(g, D, f)
  BY Sums
<1>2. /\ g \in [SUBSET D -> Nat] /\ g[{}] = 0
      /\ \A s \in SUBSET D : \A x \in s : g[s] = g[s \ {x}] + f[x]
  BY <1>1 DEF SumsUp
<1> DEFINE G == {s \in SUBSET D : lo * Cardinality(s) <= g[s] /\ g[s] <= hi * Cardinality(s)}
<1>3. ASSUME NEW s \in SUBSET D, \A u \in SUBSET s : u # s => u \in G PROVE s \in G
  <2>1. CASE s = {}
    <3>1. Cardinality(s) = 0
      BY <2>1, FS_EmptySet
    <3>2. lo * 0 = 0 /\ hi * 0 = 0 /\ g[s] = 0
      BY <1>2, <2>1
    <3> QED BY <3>1, <3>2
  <2>2. CASE s # {}
    <3>1. PICK x : x \in s
      BY <2>2
    <3> DEFINE w == s \ {x}
               n == Cardinality(w)
               m == Cardinality(s)
    <3>2. IsFiniteSet(s)
      BY FS_Subset
    <3>3. w \in SUBSET s /\ w # s /\ n + 1 = m /\ n \in Nat
      BY <3>1, <3>2, OneLess
    <3>4. w \in SUBSET D /\ x \in D /\ g[s] = g[w] + f[x]
      BY <1>2, <3>1
    <3>5. lo * n <= g[w] /\ g[w] <= hi * n
      BY <1>3, <3>3
    <3> HIDE DEF w, n, m
    <3>6. g[w] \in Nat /\ f[x] \in Nat /\ lo <= f[x] /\ f[x] <= hi
      BY <1>2, <3>4
    <3>7. lo * (n + 1) = (lo * n) + lo /\ hi * (n + 1) = (hi * n) + hi /\ lo * n \in Nat /\ hi * n \in Nat
      BY <3>3
    <3>8. lo * m <= g[s] /\ g[s] <= hi * m
      <4> DEFINE p == lo * n
                 q == hi * n
      <4>1. p \in Nat /\ q \in Nat /\ p <= g[w] /\ g[w] <= q /\ lo * m = p + lo /\ hi * m = q + hi
        BY <3>3, <3>5, <3>7
      <4> HIDE DEF p, q
      <4>2. p + lo <= g[w] + f[x] /\ g[w] + f[x] <= q + hi
        BY <3>6, <4>1
      <4> QED BY <3>4, <4>1, <4>2
    <3> QED BY <3>8 DEF m
  <2> QED BY <2>1, <2>2
<1> HIDE DEF G
<1>4. SUBSET D \subseteq G
  BY <1>3, SetUp
<1>5. D \in G
  BY <1>4
<1>6. lo * Cardinality(D) <= g[D] /\ g[D] <= hi * Cardinality(D)
  BY <1>5 DEF G
<1>7. Total(f) = g[D]
  BY <1>1, SumOfAll
<1> QED BY <1>6, <1>7

LEMMA QuotientBetween ==
    ASSUME NEW a \in Nat, NEW n \in Nat \ {0}, NEW lo \in Nat, NEW hi \in Nat, lo * n <= a, a <= hi * n
    PROVE  a \div n \in Nat /\ lo <= a \div n /\ a \div n <= hi
<1> DEFINE q == a \div n
           r == a % n
<1>1. q \in Nat /\ r \in 0..(n-1) /\ a = (n * q) + r
  BY Division
<1> HIDE DEF q, r
<1>2. lo <= q
  <2> SUFFICES ASSUME q < lo PROVE FALSE
    BY <1>1
  <2>1. PICK d \in Nat : lo = (q + 1) + d
    <3>1. lo - (q + 1) \in Nat /\ lo = (q + 1) + (lo - (q + 1))
      BY <1>1
    <3> QED BY <3>1
  <2>2. lo * n = ((n * q) + n) + (d * n) /\ d * n \in Nat /\ n * q \in Nat
    BY <1>1, <2>1
  <2> QED BY <1>1, <2>2
<1>3. q <= hi
  <2> SUFFICES ASSUME hi < q PROVE FALSE
    BY <1>1
  <2>1. PICK d \in Nat : q = (hi + 1) + d
    <3>1. q - (hi + 1) \in Nat /\ q = (hi + 1) + (q - (hi + 1))
      BY <1>1
    <3> QED BY <3>1
  <2>2. n * q = ((hi * n) + n) + (d * n) /\ d * n \in Nat /\ hi * n \in Nat
    BY <1>1, <2>1
  <2> QED BY <1>1, <2>2
<1> QED BY <1>1, <1>2, <1>3 DEF q

\* The mean of the known values lies between their bounds.
LEMMA MeanBetween ==
    ASSUME NEW D, IsFiniteSet(D), NEW f \in [D -> Nat], NEW lo \in Nat, NEW hi \in Nat,
           \A k \in D : f[k] > 0 => lo <= f[k] /\ f[k] <= hi
    PROVE  /\ MeanKnown(f) \in Nat /\ MeanKnown(f) <= hi
           /\ MeanKnown(f) > 0 => lo <= MeanKnown(f) /\ \E k \in D : f[k] > 0
<1> DEFINE known == {k \in D : f[k] > 0}
           r == Restrict(f, known)
           n == Cardinality(known)
<1>1. MeanKnown(f) = IF known = {} THEN 0 ELSE Total(r) \div n
  <2>1. DOMAIN f = D
    OBVIOUS
  <2> QED BY <2>1 DEF MeanKnown
<1>2. CASE known = {}
  BY <1>1, <1>2
<1>3. CASE known # {}
  <2>1. IsFiniteSet(known)
    BY FS_Subset
  <2>2. n \in Nat \ {0}
    BY <1>3, <2>1, FS_CardinalityType, FS_EmptySet
  <2>3. r \in [known -> Nat] /\ \A k \in known : lo <= r[k] /\ r[k] <= hi
    BY DEF Restrict
  <2>4. \E k \in D : f[k] > 0
    BY <1>3
  <2> HIDE DEF known, r
  <2>5. lo * n <= Total(r) /\ Total(r) <= hi * n /\ Total(r) \in Nat
    BY <2>1, <2>3, TotalBetween, TotalIsNat
  <2> HIDE DEF n
  <2>6. Total(r) \div n \in Nat /\ lo <= Total(r) \div n /\ Total(r) \div n <= hi
    BY <2>2, <2>5, QuotientBetween
  <2> QED BY <1>1, <1>3, <2>4, <2>6
<1> QED BY <1>2, <1>3

-----------------------------------------------------------------------------
(* What aggregate.Results makes of some results.                           *)

Second == [seq : Nat, iops : Nat, min : Nat, avg : Nat, max : Nat]
Sample == [iops : Nat, min : Nat, max : Nat, intervals : Seq(Second)]

\* The numbers of some records by their position.
LEMMA FieldIs ==
    ASSUME NEW D, NEW rs, DOMAIN rs = D
    PROVE  /\ Field(rs, "iops") = [k \in D |-> rs[k].iops]
           /\ Field(rs, "min") = [k \in D |-> rs[k].min]
           /\ Field(rs, "max") = [k \in D |-> rs[k].max]
           /\ Field(rs, "avg") = [k \in D |-> rs[k].avg]
           /\ Field(rs, "results") = [k \in D |-> rs[k].results]
BY DEF Field

\* What the results of some positions have.
LEMMA SampleFields ==
    ASSUME NEW D, NEW rs \in [D -> Sample]
    PROVE  /\ [k \in D |-> rs[k].iops] \in [D -> Nat] /\ [k \in D |-> rs[k].min] \in [D -> Nat]
           /\ [k \in D |-> rs[k].max] \in [D -> Nat] /\ [k \in D |-> Len(rs[k].intervals)] \in [D -> Nat]
           /\ \A k \in D : /\ Len(rs[k].intervals) \in Nat
                           /\ \A i \in 1..Len(rs[k].intervals) : rs[k].intervals[i] \in Second
<1>1. ASSUME NEW k \in D
      PROVE  /\ rs[k].iops \in Nat /\ rs[k].min \in Nat /\ rs[k].max \in Nat /\ Len(rs[k].intervals) \in Nat
             /\ \A i \in 1..Len(rs[k].intervals) : rs[k].intervals[i] \in Second
  <2>1. rs[k] \in Sample
    OBVIOUS
  <2>2. rs[k].iops \in Nat /\ rs[k].min \in Nat /\ rs[k].max \in Nat /\ rs[k].intervals \in Seq(Second)
    BY <2>1 DEF Sample
  <2> QED BY <2>2, ElementOfSeq, LenProperties
<1> QED BY <1>1

\* The positions whose series reach bucket i, and what they have there.
Reach(i, rs) == {k \in DOMAIN rs : Len(rs[k].intervals) >= i}
At(i, rs)    == [k \in Reach(i, rs) |-> rs[k].intervals[i]]

\* b merges the intervals v of the positions R.
MergesTo(b, v, R, i, D) ==
    /\ R \in SUBSET D /\ v \in [R -> Second]
    /\ b.iops = Total([k \in R |-> v[k].iops]) /\ b.min = LeastKnown([k \in R |-> v[k].min])
    /\ b.max = Largest([k \in R |-> v[k].max]) /\ b.avg = MeanKnown([k \in R |-> v[k].avg])
    /\ (\A k \in R : v[k].seq = i) => b.seq = i

LEMMA BucketIs ==
    ASSUME NEW D, NEW rs \in [D -> Sample], NEW i \in Nat \ {0}
    PROVE  MergesTo(Bucket(i, rs), At(i, rs), Reach(i, rs), i, D)
<1> DEFINE b == Bucket(i, rs)
           R == Reach(i, rs)
           v == At(i, rs)
           odd == {k \in DOMAIN v : v[k].seq \notin {0, i}}
<1>1. R \in SUBSET D /\ R = {k \in DOMAIN rs : Len(rs[k].intervals) >= i}
  BY DEF Reach
<1>2. ASSUME NEW k \in R PROVE v[k] = rs[k].intervals[i] /\ v[k] \in Second
  <2>1. v[k] = rs[k].intervals[i]
    BY DEF At
  <2>2. k \in D /\ Len(rs[k].intervals) \in Nat /\ Len(rs[k].intervals) >= i
    BY SampleFields DEF Reach
  <2>3. i \in 1..Len(rs[k].intervals)
    BY <2>2
  <2> QED BY <2>1, <2>2, <2>3, SampleFields
<1>3. v \in [R -> Second] /\ DOMAIN v = R
  BY <1>2 DEF At
<1>4. b = [seq  |-> IF odd = {} THEN i ELSE v[Min(odd)].seq,
           iops |-> Total(Field(v, "iops")), min |-> LeastKnown(Field(v, "min")),
           max  |-> Largest(Field(v, "max")), avg |-> MeanKnown(Field(v, "avg"))]
  BY DEF Bucket, At, Reach
<1> HIDE DEF b, v, R
<1>5. /\ Field(v, "iops") = [k \in R |-> v[k].iops] /\ Field(v, "min") = [k \in R |-> v[k].min]
      /\ Field(v, "max") = [k \in R |-> v[k].max] /\ Field(v, "avg") = [k \in R |-> v[k].avg]
  BY <1>3, FieldIs
<1>6. /\ b.iops = Total([k \in R |-> v[k].iops]) /\ b.min = LeastKnown([k \in R |-> v[k].min])
      /\ b.max = Largest([k \in R |-> v[k].max]) /\ b.avg = MeanKnown([k \in R |-> v[k].avg])
  BY <1>4, <1>5
<1>7. (\A k \in R : v[k].seq = i) => b.seq = i
  <2> SUFFICES ASSUME \A k \in R : v[k].seq = i PROVE b.seq = i
    OBVIOUS
  <2>1. odd = {}
    BY <1>3
  <2> QED BY <1>4, <2>1
<1>8. MergesTo(b, v, R, i, D)
  BY <1>1, <1>3, <1>6, <1>7 DEF MergesTo
<1> QED BY <1>8 DEF b, v, R

LEMMA SeriesIs ==
    ASSUME NEW D, IsFiniteSet(D), NEW rs \in [D -> Sample]
    PROVE  \E n \in Nat : /\ \A k \in D : Len(rs[k].intervals) <= n
                          /\ Intervals(rs) = [i \in 1..n |-> Bucket(i, rs)]
<1> DEFINE lens == [k \in D |-> Len(rs[k].intervals)]
<1>1. lens \in [D -> Nat] /\ DOMAIN rs = D
  BY SampleFields
<1>2. Intervals(rs) = [i \in 1..Largest(lens) |-> Bucket(i, rs)]
  BY <1>1 DEF Intervals
<1>3. \A k \in D : lens[k] = Len(rs[k].intervals)
  OBVIOUS
<1> HIDE DEF lens
<1>4. Largest(lens) \in Nat /\ \A k \in D : lens[k] <= Largest(lens)
  BY <1>1, LargestIs
<1> QED BY <1>2, <1>3, <1>4

LEMMA SeriesAddUp ==
    ASSUME NEW D, IsFiniteSet(D), NEW rs \in [D -> Sample], NEW r, r.intervals = Intervals(rs)
    PROVE  SeriesTotal(r) = Total([k \in D |-> SeriesTotal(rs[k])])
<1>1. PICK n \in Nat : /\ \A k \in D : Len(rs[k].intervals) <= n
                       /\ Intervals(rs) = [i \in 1..n |-> Bucket(i, rs)]
  BY SeriesIs
<1> DEFINE E == 1..n
           cell(k, i) == IF i <= Len(rs[k].intervals) THEN rs[k].intervals[i].iops ELSE 0
           a == [k \in D |-> [i \in E |-> cell(k, i)]]
           c == [i \in E |-> [k \in D |-> cell(k, i)]]
           row == [k \in D |-> Total(a[k])]
           foot == [i \in E |-> Total(c[i])]
<1>2. ASSUME NEW k \in D, NEW i \in E PROVE cell(k, i) \in Nat
  <2>1. CASE i <= Len(rs[k].intervals)
    <3>1. Len(rs[k].intervals) \in Nat /\ i \in 1..Len(rs[k].intervals)
      BY <2>1, SampleFields
    <3>2. rs[k].intervals[i] \in Second
      BY <3>1, SampleFields
    <3> QED BY <2>1, <3>2 DEF Second
  <2>2. CASE ~ (i <= Len(rs[k].intervals))
    BY <2>2
  <2> QED BY <2>1, <2>2
<1>3. IsFiniteSet(E)
  BY FS_Interval
<1>4. Table(a, c, D, E)
  <2> HIDE DEF cell, E
  <2> QED BY <1>2 DEF Table
<1>5. Totals(row, a, D) /\ Totals(foot, c, E)
  BY DEF Totals
<1>6. Total(row) = Total(foot)
  <2> HIDE DEF a, c, row, foot, E
  <2> QED BY <1>3, <1>4, <1>5, TotalExchange
<1>7. ASSUME NEW k \in D PROVE Total(a[k]) = SeriesTotal(rs[k])
  <2> DEFINE m == Len(rs[k].intervals)
             s == rs[k].intervals
  <2>1. m \in Nat /\ m <= n /\ s \in Seq(Second) /\ DOMAIN s = 1..m
    <3>1. rs[k] \in Sample
      OBVIOUS
    <3>2. s \in Seq(Second)
      BY <3>1 DEF Sample
    <3> QED BY <1>1, <3>2, LenProperties
  <2>2. a[k] \in [E -> Nat] /\ 1..m \in SUBSET E
    <3> HIDE DEF cell
    <3> QED BY <1>2, <2>1
  <2>3. \A i \in E \ 1..m : a[k][i] = 0
    BY <2>1
  <2>4. Total(a[k]) = Total(Restrict(a[k], 1..m))
    <3> HIDE DEF a, E, m
    <3> QED BY <1>3, <2>2, <2>3, TotalZeros
  <2>5. Restrict(a[k], 1..m) = [i \in 1..m |-> s[i].iops]
    BY <2>1, <2>2 DEF Restrict
  <2>6. SeriesTotal(rs[k]) = Total([i \in 1..m |-> s[i].iops])
    <3>1. Field(s, "iops") = [i \in 1..m |-> s[i].iops]
      <4> HIDE DEF s, m
      <4> QED BY <2>1, FieldIs
    <3> QED BY <3>1 DEF SeriesTotal
  <2> QED BY <2>4, <2>5, <2>6
<1>8. ASSUME NEW i \in E PROVE Total(c[i]) = Bucket(i, rs).iops
  <2> DEFINE R == Reach(i, rs)
             v == At(i, rs)
  <2>1. i \in Nat \ {0} /\ R \in SUBSET D /\ Bucket(i, rs).iops = Total([k \in R |-> v[k].iops])
    <3>1. i \in Nat \ {0}
      BY <1>1
    <3>2. MergesTo(Bucket(i, rs), At(i, rs), Reach(i, rs), i, D)
      BY <3>1, BucketIs
    <3> HIDE DEF R, v
    <3>3. MergesTo(Bucket(i, rs), v, R, i, D)
      BY <3>2 DEF R, v
    <3> QED BY <3>1, <3>3 DEF MergesTo
  <2>2. c[i] \in [D -> Nat] /\ \A k \in D : c[i][k] = cell(k, i)
    <3> HIDE DEF cell
    <3> QED BY <1>2
  <2>3. \A k \in D : k \in R <=> i <= Len(rs[k].intervals)
    BY SampleFields DEF Reach
  <2>4. \A k \in D \ R : c[i][k] = 0
    BY <2>2, <2>3
  <2>5. Total(c[i]) = Total(Restrict(c[i], R))
    <3> HIDE DEF c, R
    <3> QED BY <2>1, <2>2, <2>4, TotalZeros
  <2>6. Restrict(c[i], R) = [k \in R |-> v[k].iops]
    BY <2>1, <2>2, <2>3 DEF Restrict, At
  <2> QED BY <2>1, <2>5, <2>6
<1>9. row = [k \in D |-> SeriesTotal(rs[k])]
  BY <1>7
<1>10. SeriesTotal(r) = Total(foot)
  <2>1. DOMAIN r.intervals = E /\ \A i \in E : r.intervals[i] = Bucket(i, rs)
    BY <1>1
  <2>2. Field(r.intervals, "iops") = foot
    BY <1>8, <2>1, FieldIs
  <2> QED BY <2>2 DEF SeriesTotal
<1> QED BY <1>6, <1>9, <1>10

\* The numbers that stand in one bucket.
LEMMA BucketFields ==
    ASSUME NEW R, NEW v \in [R -> Second]
    PROVE  /\ [k \in R |-> v[k].min] \in [R -> Nat] /\ [k \in R |-> v[k].max] \in [R -> Nat]
           /\ [k \in R |-> v[k].avg] \in [R -> Nat]
<1>1. ASSUME NEW k \in R PROVE v[k].min \in Nat /\ v[k].max \in Nat /\ v[k].avg \in Nat
  <2>1. v[k] \in Second
    OBVIOUS
  <2> QED BY <2>1 DEF Second
<1> QED BY <1>1

LEMMA BucketKeeps ==
    ASSUME NEW D, IsFiniteSet(D), NEW b, NEW v, NEW R, NEW i, MergesTo(b, v, R, i, D)
    PROVE  /\ (\A k \in R : v[k].seq = i) => b.seq = i
           /\ (\A k \in R : v[k].avg <= v[k].max) => b.avg <= b.max
           /\ (\A k \in R : v[k].avg > 0 => v[k].min \in 1..v[k].avg) => (b.avg > 0 => b.min \in 1..b.avg)
<1> DEFINE mins == [k \in R |-> v[k].min]
           maxs == [k \in R |-> v[k].max]
           avgs == [k \in R |-> v[k].avg]
<1>1. /\ R \in SUBSET D /\ v \in [R -> Second] /\ b.min = LeastKnown(mins)
      /\ b.max = Largest(maxs) /\ b.avg = MeanKnown(avgs) /\ ((\A k \in R : v[k].seq = i) => b.seq = i)
  BY DEF MergesTo
<1>2. mins \in [R -> Nat] /\ maxs \in [R -> Nat] /\ avgs \in [R -> Nat] /\ IsFiniteSet(R)
  BY <1>1, BucketFields, FS_Subset
<1>3. \A k \in R : mins[k] = v[k].min /\ maxs[k] = v[k].max /\ avgs[k] = v[k].avg
  OBVIOUS
<1> HIDE DEF mins, maxs, avgs
<1>4. b.max \in Nat /\ \A k \in R : maxs[k] <= b.max
  BY <1>1, <1>2, LargestIs
<1>5. b.min \in Nat /\ IsLeast(b.min, {mins[k] : k \in R})
  BY <1>1, <1>2, LeastIs
<1>6. ASSUME \A k \in R : v[k].avg <= v[k].max PROVE b.avg <= b.max
  <2>1. \A k \in R : avgs[k] > 0 => 0 <= avgs[k] /\ avgs[k] <= b.max
    <3> SUFFICES ASSUME NEW k \in R PROVE 0 <= avgs[k] /\ avgs[k] <= b.max
      OBVIOUS
    <3>1. avgs[k] \in Nat /\ maxs[k] \in Nat /\ avgs[k] <= maxs[k] /\ maxs[k] <= b.max
      BY <1>2, <1>3, <1>4, <1>6
    <3> QED BY <1>4, <3>1
  <2>2. MeanKnown(avgs) <= b.max
    BY <1>2, <1>4, <2>1, MeanBetween
  <2> QED BY <1>1, <2>2
<1>7. ASSUME \A k \in R : v[k].avg > 0 => v[k].min \in 1..v[k].avg, b.avg > 0 PROVE b.min \in 1..b.avg
  <2> DEFINE hi == Largest(avgs)
  <2>1. hi \in Nat /\ \A k \in R : avgs[k] <= hi
    BY <1>2, LargestIs
  <2> HIDE DEF hi
  <2>2. ASSUME NEW k \in R, avgs[k] > 0 PROVE b.min > 0 /\ b.min <= avgs[k]
    <3> DEFINE S == {mins[n] : n \in R}
    <3>1. mins[k] \in 1..avgs[k] /\ avgs[k] \in Nat
      BY <1>2, <1>3, <1>7, <2>2
    <3>2. mins[k] \in S \ {0}
      BY <3>1
    <3> HIDE DEF S
    <3>3. b.min \in S \ {0} /\ b.min <= mins[k]
      BY <1>5, <3>2 DEF IsLeast, S
    <3> QED BY <1>5, <3>1, <3>3
  <2>3. \A k \in R : avgs[k] > 0 => b.min <= avgs[k] /\ avgs[k] <= hi
    BY <2>1, <2>2
  <2>4. /\ MeanKnown(avgs) \in Nat
        /\ MeanKnown(avgs) > 0 => b.min <= MeanKnown(avgs) /\ \E k \in R : avgs[k] > 0
    BY <1>2, <1>5, <2>1, <2>3, MeanBetween
  <2>5. b.min <= b.avg /\ b.avg \in Nat /\ \E k \in R : avgs[k] > 0
    BY <1>1, <1>7, <2>4
  <2>6. b.min > 0
    BY <2>2, <2>5
  <2> QED BY <1>5, <2>5, <2>6
<1> QED BY <1>1, <1>6, <1>7

\* What is true of all series is true of the merged one.
LEMMA SeriesKeep ==
    ASSUME NEW D, IsFiniteSet(D), NEW rs \in [D -> Sample], NEW r, r.intervals = Intervals(rs)
    PROVE  /\ (\A k \in D : InStep(rs[k])) => InStep(r)
           /\ (\A k \in D : Bounded(rs[k])) => Bounded(r)
           /\ (\A k \in D : Complete(rs[k])) => Complete(r)
<1>1. PICK n \in Nat : Intervals(rs) = [i \in 1..n |-> Bucket(i, rs)]
  BY SeriesIs
<1>2. DOMAIN r.intervals = 1..n /\ \A i \in 1..n : r.intervals[i] = Bucket(i, rs)
  BY <1>1
<1>3. ASSUME NEW i \in 1..n
      PROVE  /\ MergesTo(r.intervals[i], At(i, rs), Reach(i, rs), i, D)
             /\ \A k \in Reach(i, rs) : /\ k \in D /\ i \in DOMAIN rs[k].intervals
                                        /\ At(i, rs)[k] = rs[k].intervals[i]
  <2>1. i \in Nat \ {0}
    BY <1>1
  <2>2. MergesTo(r.intervals[i], At(i, rs), Reach(i, rs), i, D)
    BY <1>2, <2>1, BucketIs
  <2>3. ASSUME NEW k \in Reach(i, rs)
        PROVE  k \in D /\ i \in DOMAIN rs[k].intervals /\ At(i, rs)[k] = rs[k].intervals[i]
    <3>1. k \in D /\ Len(rs[k].intervals) >= i
      BY DEF Reach
    <3>2. rs[k] \in Sample
      BY <3>1
    <3>3. rs[k].intervals \in Seq(Second)
      BY <3>2 DEF Sample
    <3>4. DOMAIN rs[k].intervals = 1..Len(rs[k].intervals) /\ Len(rs[k].intervals) \in Nat
      BY <3>3, LenProperties
    <3>5. At(i, rs)[k] = rs[k].intervals[i]
      BY DEF At
    <3> QED BY <2>1, <3>1, <3>4, <3>5
  <2> QED BY <2>2, <2>3
<1>4. ASSUME \A k \in D : InStep(rs[k]) PROVE InStep(r)
  <2> SUFFICES ASSUME NEW i \in 1..n PROVE r.intervals[i].seq = i
    BY <1>2 DEF InStep
  <2>1. \A k \in Reach(i, rs) : At(i, rs)[k].seq = i
    BY <1>3, <1>4 DEF InStep
  <2> QED BY <1>3, <2>1, BucketKeeps
<1>5. ASSUME \A k \in D : Bounded(rs[k]) PROVE Bounded(r)
  <2> SUFFICES ASSUME NEW i \in 1..n PROVE r.intervals[i].avg <= r.intervals[i].max
    BY <1>2 DEF Bounded
  <2>1. \A k \in Reach(i, rs) : At(i, rs)[k].avg <= At(i, rs)[k].max
    BY <1>3, <1>5 DEF Bounded
  <2> QED BY <1>3, <2>1, BucketKeeps
<1>6. ASSUME \A k \in D : Complete(rs[k]) PROVE Complete(r)
  <2> SUFFICES ASSUME NEW i \in 1..n
               PROVE  r.intervals[i].avg > 0 => r.intervals[i].min \in 1..r.intervals[i].avg
    BY <1>2 DEF Complete
  <2>1. \A k \in Reach(i, rs) : At(i, rs)[k].avg > 0 => At(i, rs)[k].min \in 1..At(i, rs)[k].avg
    BY <1>3, <1>6 DEF Complete
  <2> QED BY <1>3, <2>1, BucketKeeps
<1> QED BY <1>4, <1>5, <1>6

LEMMA SeriesIsNat == ASSUME NEW r \in Sample PROVE SeriesTotal(r) \in Nat
<1> DEFINE s == r.intervals
           n == Len(s)
           f == [i \in 1..n |-> s[i].iops]
<1>1. s \in Seq(Second)
  BY DEF Sample
<1>2. DOMAIN s = 1..n /\ n \in Nat /\ \A i \in 1..n : s[i] \in Second
  BY <1>1, LenProperties, ElementOfSeq
<1> HIDE DEF s, n
<1>3. Field(s, "iops") = f
  BY <1>2, FieldIs
<1>4. f \in [1..n -> Nat]
  BY <1>2 DEF Second
<1>5. IsFiniteSet(1..n)
  BY <1>2, FS_Interval
<1> HIDE DEF f
<1>6. Total(f) \in Nat
  BY <1>4, <1>5, TotalIsNat
<1> QED BY <1>3, <1>6 DEF SeriesTotal, s

\* r accounts for the results rs of the positions D.
Accounts(r, rs, D) ==
    /\ r.iops \in Nat /\ r.min \in Nat /\ r.max \in Nat /\ SeriesTotal(r) \in Nat
    /\ r.iops = Total([k \in D |-> rs[k].iops])
    /\ IsLeast(r.min, {rs[k].min : k \in D})
    /\ \A k \in D : rs[k].max <= r.max
    /\ \A n \in Nat : (\A k \in D : rs[k].max <= n) => r.max <= n
    /\ SeriesTotal(r) = Total([k \in D |-> SeriesTotal(rs[k])])
    /\ (\A k \in D : InStep(rs[k])) => InStep(r)
    /\ (\A k \in D : Bounded(rs[k])) => Bounded(r)
    /\ (\A k \in D : Complete(rs[k])) => Complete(r)

LEMMA ResultsAccount ==
    ASSUME NEW D, IsFiniteSet(D), D # {}, NEW rs \in [D -> Sample]
    PROVE  Accounts(Results(rs), rs, D)
<1> DEFINE r == Results(rs)
<1>0. DOMAIN rs = D
  OBVIOUS
<1>1. CASE Cardinality(D) = 1
  <2>1. PICK x : D = {x}
    BY <1>1, FS_Singleton
  <2>2. r = rs[x]
    BY <1>0, <1>1, <2>1 DEF Results
  <2>3. x \in D /\ rs[x] \in Sample
    BY <2>1
  <2>4. rs[x].iops \in Nat /\ rs[x].min \in Nat /\ rs[x].max \in Nat /\ SeriesTotal(rs[x]) \in Nat
    BY <2>3, SeriesIsNat DEF Sample
  <2> DEFINE f == [k \in D |-> rs[k].iops]
             g == [k \in D |-> SeriesTotal(rs[k])]
  <2>5. Total(f) = rs[x].iops
    <3>1. f \in [D -> Nat] /\ f[x] = rs[x].iops
      BY <2>1, <2>3, <2>4
    <3> HIDE DEF f
    <3> QED BY <2>1, <3>1, TotalOne
  <2>6. Total(g) = SeriesTotal(rs[x])
    <3>1. g \in [D -> Nat] /\ g[x] = SeriesTotal(rs[x])
      BY <2>1, <2>3, <2>4
    <3> HIDE DEF g
    <3> QED BY <2>1, <3>1, TotalOne
  <2>7. {rs[k].min : k \in D} = {rs[x].min}
    BY <2>1
  <2>8. IsLeast(rs[x].min, {rs[x].min})
    BY <2>4 DEF IsLeast
  <2>9. \A k \in D : rs[k] = rs[x]
    BY <2>1
  <2>10. (\A k \in D : rs[k].max <= rs[x].max) /\ \A n \in Nat : (\A k \in D : rs[k].max <= n) => rs[x].max <= n
    BY <2>3, <2>4, <2>9
  <2>11. Accounts(rs[x], rs, D)
    BY <2>3, <2>4, <2>5, <2>6, <2>7, <2>8, <2>10 DEF Accounts
  <2> QED BY <2>2, <2>11
<1>2. CASE Cardinality(D) # 1
  <2> DEFINE f == [k \in D |-> rs[k].iops]
             g == [k \in D |-> rs[k].min]
             h == [k \in D |-> rs[k].max]
             q == [k \in D |-> SeriesTotal(rs[k])]
  <2>1. Field(rs, "iops") = f /\ Field(rs, "min") = g /\ Field(rs, "max") = h
    BY <1>0, FieldIs
  <2>2. f \in [D -> Nat] /\ g \in [D -> Nat] /\ h \in [D -> Nat]
    BY SampleFields
  <2>3. q \in [D -> Nat]
    BY SeriesIsNat
  <2>4. {rs[k].min : k \in D} = {g[k] : k \in D} /\ \A k \in D : rs[k].max = h[k]
    OBVIOUS
  <2> HIDE DEF f, g, h, q
  <2>5. r = [iops |-> Total(f), min |-> LeastKnown(g), max |-> Largest(h), intervals |-> Intervals(rs)]
    BY <1>0, <1>2, <2>1 DEF Results
  <2> HIDE DEF r
  <2>6. /\ r.iops = Total(f) /\ r.min = LeastKnown(g) /\ r.max = Largest(h) /\ r.intervals = Intervals(rs)
    BY <2>5
  <2>7. r.iops \in Nat
    BY <2>2, <2>6, TotalIsNat
  <2>8. r.min \in Nat /\ IsLeast(r.min, {g[k] : k \in D})
    BY <2>2, <2>6, LeastIs
  <2>9. /\ r.max \in Nat /\ \A k \in D : h[k] <= r.max
        /\ \A n \in Nat : (\A k \in D : h[k] <= n) => r.max <= n
    BY <2>2, <2>6, LargestIs
  <2>10. SeriesTotal(r) = Total(q) /\ Total(q) \in Nat
    BY <2>3, <2>6, SeriesAddUp, TotalIsNat DEF q
  <2>11. /\ (\A k \in D : InStep(rs[k])) => InStep(r)
         /\ (\A k \in D : Bounded(rs[k])) => Bounded(r)
         /\ (\A k \in D : Complete(rs[k])) => Complete(r)
    BY <2>6, SeriesKeep
  <2>12. /\ \A k \in D : rs[k].max <= r.max
         /\ \A n \in Nat : (\A k \in D : rs[k].max <= n) => r.max <= n
    BY <2>4, <2>9
  <2>13. Accounts(r, rs, D)
    BY <2>4, <2>6, <2>7, <2>8, <2>9, <2>10, <2>11, <2>12 DEF Accounts, f, q
  <2> QED BY <2>13 DEF r
<1> QED BY <1>1, <1>2

\* Rows that account for the results of each key account for all of them.
AccountsByKey(rows, rs, key, D) ==
    /\ DOMAIN rows = Keys(key, D)
    /\ \A t \in DOMAIN rows : Accounts(rows[t], Restrict(rs, Of(key, D, t)), Of(key, D, t))

LEMMA RowsAccount ==
    ASSUME NEW D, IsFiniteSet(D), NEW rs \in [D -> Sample], NEW key, NEW rows,
           AccountsByKey(rows, rs, key, D), NEW total, Accounts(total, rs, D)
    PROVE  /\ total.iops = Total([t \in DOMAIN rows |-> rows[t].iops])
           /\ SeriesTotal(total) = Total([t \in DOMAIN rows |-> SeriesTotal(rows[t])])
           /\ total.min = LeastPositive({rows[t].min : t \in DOMAIN rows})
           /\ \A t \in DOMAIN rows : rows[t].max <= total.max
<1> DEFINE T == Keys(key, D)
           of(t) == Of(key, D, t)
           f == [k \in D |-> rs[k].iops]
           q == [k \in D |-> SeriesTotal(rs[k])]
           g == [k \in D |-> rs[k].min]
           mins == [t \in T |-> rows[t].min]
           iops == [t \in T |-> rows[t].iops]
           series == [t \in T |-> SeriesTotal(rows[t])]
<1>1. f \in [D -> Nat] /\ q \in [D -> Nat] /\ g \in [D -> Nat]
  BY SampleFields, SeriesIsNat
<1>2. ASSUME NEW t \in T
      PROVE  /\ of(t) \subseteq D /\ \A k \in of(t) : Restrict(rs, of(t))[k] = rs[k]
             /\ Accounts(rows[t], Restrict(rs, of(t)), of(t))
  BY DEF Restrict, AccountsByKey, Of
<1>3. iops = [t \in T |-> Total(Restrict(f, of(t)))]
  <2> SUFFICES ASSUME NEW t \in T PROVE rows[t].iops = Total(Restrict(f, of(t)))
    OBVIOUS
  <2>1. rows[t].iops = Total([k \in of(t) |-> Restrict(rs, of(t))[k].iops])
    BY <1>2 DEF Accounts
  <2>2. [k \in of(t) |-> Restrict(rs, of(t))[k].iops] = Restrict(f, of(t))
    BY <1>2 DEF Restrict
  <2> QED BY <2>1, <2>2
<1>4. series = [t \in T |-> Total(Restrict(q, of(t)))]
  <2> SUFFICES ASSUME NEW t \in T PROVE SeriesTotal(rows[t]) = Total(Restrict(q, of(t)))
    OBVIOUS
  <2>1. SeriesTotal(rows[t]) = Total([k \in of(t) |-> SeriesTotal(Restrict(rs, of(t))[k])])
    BY <1>2 DEF Accounts
  <2>2. [k \in of(t) |-> SeriesTotal(Restrict(rs, of(t))[k])] = Restrict(q, of(t))
    BY <1>2 DEF Restrict
  <2> QED BY <2>1, <2>2
<1>5. Total(f) = Total(iops) /\ Total(q) = Total(series)
  <2>1. TotalsByKey(iops, f, key, D) /\ TotalsByKey(series, q, key, D)
    <3> HIDE DEF f, q, iops, series
    <3> QED BY <1>3, <1>4 DEF TotalsByKey
  <2> HIDE DEF f, q, iops, series
  <2> QED BY <1>1, <2>1, TotalByKey
<1>6. total.iops = Total(f) /\ SeriesTotal(total) = Total(q)
  BY DEF Accounts
<1>7. ASSUME NEW t \in T
      PROVE  rows[t].min \in Nat /\ IsLeast(rows[t].min, {g[k] : k \in of(t)})
  <2>1. rows[t].min \in Nat /\ IsLeast(rows[t].min, {Restrict(rs, of(t))[k].min : k \in of(t)})
    BY <1>2 DEF Accounts
  <2>2. \A k \in of(t) : Restrict(rs, of(t))[k].min = g[k]
    BY <1>2
  <2>3. {Restrict(rs, of(t))[k].min : k \in of(t)} = {g[k] : k \in of(t)}
    BY <2>2
  <2> QED BY <2>1, <2>3
<1>8. total.min = LeastPositive({rows[t].min : t \in T})
  <2>1. mins \in [T -> Nat] /\ \A t \in T : IsLeast(mins[t], {g[k] : k \in of(t)})
    BY <1>7
  <2>7. LeastsByKey(mins, g, key, D)
    <3> HIDE DEF mins, g
    <3> QED BY <2>1 DEF LeastsByKey
  <2>2. total.min \in Nat /\ IsLeast(total.min, {g[k] : k \in D})
    <3>1. {g[k] : k \in D} = {rs[k].min : k \in D}
      OBVIOUS
    <3> QED BY <3>1 DEF Accounts
  <2>3. {rows[t].min : t \in T} = {mins[t] : t \in T}
    OBVIOUS
  <2> DEFINE M == {mins[t] : t \in T}
  <2>4. IsLeast(total.min, M)
    <3> HIDE DEF mins, g
    <3> QED BY <1>1, <2>2, <2>7, LeastByKey
  <2>5. M \in SUBSET Nat
    BY <2>1
  <2> HIDE DEF M
  <2>6. total.min = LeastPositive(M)
    BY <2>4, <2>5, LeastPositiveIs
  <2> QED BY <2>3, <2>6 DEF M
<1>9. ASSUME NEW t \in T PROVE rows[t].max <= total.max
  <2> DEFINE x == rows[t]
             p == Restrict(rs, of(t))
  <2>1. /\ \A n \in Nat : (\A k \in of(t) : p[k].max <= n) => x.max <= n
        /\ total.max \in Nat /\ \A k \in D : rs[k].max <= total.max
    BY <1>2 DEF Accounts
  <2>2. \A k \in of(t) : p[k].max <= total.max
    BY <1>2, <2>1
  <2> QED BY <2>1, <2>2
<1>10. DOMAIN rows = T
  BY DEF AccountsByKey
<1> QED BY <1>5, <1>6, <1>8, <1>9, <1>10

-----------------------------------------------------------------------------
(* The record of a run.                                                    *)

Items == Seq([assignment : Jobs, results : Samples \cup {Failed}])

LEMMA OutcomeAddsUp == ASSUME ended \in Items, record = Outcome PROVE ResultsAddUp
<1> DEFINE ok == {k \in DOMAIN ended : ended[k].results # Failed}
           rs == [k \in ok |-> ended[k].results]
           key == [k \in ok |-> ended[k].assignment.target]
           T == Keys(key, ok)
           of(t) == Of(key, ok, t)
<1>1. DOMAIN ended = 1..Len(ended) /\ Len(ended) \in Nat /\ IsFiniteSet(ok)
  <2>1. DOMAIN ended = 1..Len(ended) /\ Len(ended) \in Nat
    BY LenProperties DEF Items
  <2>2. IsFiniteSet(1..Len(ended)) /\ ok \in SUBSET (1..Len(ended))
    BY <2>1, FS_Interval
  <2> QED BY <2>1, <2>2, FS_Subset
<1>2. rs \in [ok -> Sample]
  <2> SUFFICES ASSUME NEW k \in ok PROVE ended[k].results \in Sample
    OBVIOUS
  <2>1. ended[k] \in [assignment : Jobs, results : Samples \cup {Failed}]
    BY <1>1, ElementOfSeq DEF Items
  <2>2. ended[k].results \in Samples
    BY <2>1
  <2> QED BY <2>2, AggregateAssumption DEF Sample, Second
<1>3. good = [k \in ok |-> ended[k]] /\ DOMAIN good = ok
  BY DEF good, Restrict
<1>4. CASE ok = {}
  <2>1. record = [outcome |-> "error"]
    BY <1>3, <1>4 DEF Outcome
  <2>2. record.outcome = "error" /\ "error" # "record"
    BY <2>1
  <2>3. \A k \in DOMAIN ended : ended[k].results = Failed
    BY <1>4
  <2> QED BY <2>2, <2>3 DEF ResultsAddUp
<1>5. CASE ok # {}
  <2>1. Field(good, "results") = rs
    BY <1>3, FieldIs
  <2>2. record = [outcome |-> "record", total |-> Results(rs), clients |-> clientRuns, targets |-> targetRuns]
    BY <1>3, <1>5, <2>1 DEF Outcome
  <2> DEFINE total == Results(rs)
             rows == targetRuns
  <2>3. Accounts(total, rs, ok)
    <3> HIDE DEF ok, rs
    <3> QED BY <1>1, <1>2, <1>5, ResultsAccount
  <2>4. rows = [t \in T |-> Results(Restrict(rs, of(t)))]
    <3>1. {good[k].assignment.target : k \in DOMAIN good} = T
      BY <1>3 DEF Keys
    <3>2. ASSUME NEW t \in T PROVE Field(OfTarget(t), "results") = Restrict(rs, of(t))
      <4>1. OfTarget(t) = [k \in of(t) |-> ended[k]]
        BY <1>3 DEF OfTarget, Restrict, Of
      <4> DEFINE o == OfTarget(t)
      <4>2. DOMAIN o = of(t) /\ \A k \in of(t) : o[k] = ended[k]
        BY <4>1
      <4> HIDE DEF o
      <4>3. Field(o, "results") = [k \in of(t) |-> o[k].results]
        <5> HIDE DEF of
        <5> QED BY <4>2, FieldIs
      <4>4. Restrict(rs, of(t)) = [k \in of(t) |-> ended[k].results]
        BY DEF Restrict, Of
      <4> QED BY <4>2, <4>3, <4>4 DEF o
    <3> QED BY <3>1, <3>2 DEF targetRuns
  <2>5. ASSUME NEW t \in T PROVE Accounts(rows[t], Restrict(rs, of(t)), of(t))
    <3> DEFINE p == Restrict(rs, of(t))
               O == of(t)
    <3>1. O # {} /\ O \in SUBSET ok
      BY DEF Keys, Of
    <3>2. IsFiniteSet(O) /\ p \in [O -> Sample]
      BY <1>1, <1>2, <3>1, FS_Subset, RestrictIs
    <3>3. rows[t] = Results(p)
      BY <2>4
    <3> HIDE DEF O, p
    <3>4. Accounts(Results(p), p, O)
      BY <3>1, <3>2, ResultsAccount
    <3> QED BY <3>3, <3>4 DEF O, p
  <2>6. /\ total.iops = Total([t \in T |-> rows[t].iops])
        /\ SeriesTotal(total) = Total([t \in T |-> SeriesTotal(rows[t])])
        /\ total.min = LeastPositive({rows[t].min : t \in T})
        /\ \A t \in T : rows[t].max <= total.max
    <3>1. DOMAIN rows = T
      BY <2>4
    <3>2. AccountsByKey(rows, rs, key, ok)
      <4> HIDE DEF ok, rs, rows, key
      <4> QED BY <2>5, <3>1 DEF AccountsByKey
    <3> HIDE DEF ok, rs, total, rows, key
    <3>3. /\ total.iops = Total([t \in DOMAIN rows |-> rows[t].iops])
          /\ SeriesTotal(total) = Total([t \in DOMAIN rows |-> SeriesTotal(rows[t])])
          /\ total.min = LeastPositive({rows[t].min : t \in DOMAIN rows})
          /\ \A t \in DOMAIN rows : rows[t].max <= total.max
      BY <1>1, <1>2, <2>3, <3>2, RowsAccount
    <3> QED BY <3>1, <3>3
  <2>7. DOMAIN rows = T
    BY <2>4
  <2>8. total.min = LeastPositive({ended[k].results.min : k \in ok})
    <3> DEFINE S == {ended[k].results.min : k \in ok}
    <3>1. S = {rs[k].min : k \in ok}
      OBVIOUS
    <3>2. IsLeast(total.min, S)
      BY <2>3, <3>1 DEF Accounts
    <3>3. S \in SUBSET Nat
      BY <1>2, <3>1 DEF Sample
    <3> HIDE DEF S, total
    <3>4. total.min = LeastPositive(S)
      BY <3>2, <3>3, LeastPositiveIs
    <3> QED BY <3>4 DEF S
  <2>9. /\ total.iops = Total([k \in ok |-> ended[k].results.iops])
        /\ SeriesTotal(total) = Total([k \in ok |-> SeriesTotal(ended[k].results)])
        /\ (\A k \in ok : InStep(ended[k].results)) => InStep(total)
        /\ (\A k \in ok : Bounded(ended[k].results)) => Bounded(total)
        /\ (\A k \in ok : Complete(ended[k].results)) => Complete(total)
    <3>1. /\ [k \in ok |-> ended[k].results.iops] = [k \in ok |-> rs[k].iops]
          /\ [k \in ok |-> SeriesTotal(ended[k].results)] = [k \in ok |-> SeriesTotal(rs[k])]
          /\ \A k \in ok : rs[k] = ended[k].results
      OBVIOUS
    <3> HIDE DEF total, rs
    <3> QED BY <2>3, <3>1 DEF Accounts
  <2>10. Len(schedule) > 1 => Range(clientRuns) = {ended[k] : k \in ok}
    <3> SUFFICES ASSUME Len(schedule) > 1 PROVE Range(clientRuns) = {ended[k] : k \in ok}
      OBVIOUS
    <3>1. clientRuns = [k \in ok |-> ended[k]]
      BY <1>3 DEF clientRuns, Restrict
    <3> QED BY <3>1 DEF Range
  <2>11. /\ record.outcome = "record" /\ "record" # "error" /\ record.total = total
         /\ record.clients = clientRuns /\ record.targets = rows
    BY <2>2
  <2> HIDE DEF total, rows, ok, T
  <2>12. ResultsAddUp
    BY <1>5, <2>6, <2>7, <2>8, <2>9, <2>10, <2>11 DEF ResultsAddUp, ok
  <2> QED BY <2>12
<1> QED BY <1>4, <1>5

\* Before there is a schedule nothing has ended; the record is what the items
\* that have ended come to.
RecordOK ==
    /\ ended \in Items
    /\ ended # <<>> \/ record # NoRecord => Planned
    /\ record \in {NoRecord, Outcome}

LEMMA OutcomeSame ==
    ASSUME UNCHANGED <<ended, schedule>>
    PROVE  Outcome' = Outcome /\ Items' = Items /\ (Planned' <=> Planned)
<1>1. ended' = ended /\ schedule' = schedule
  OBVIOUS
<1>2. Jobs' = Jobs /\ (Planned' <=> Planned)
  BY <1>1 DEF Jobs, Planned
<1>3. good' = good
  BY <1>1 DEF good
<1>4. clientRuns' = clientRuns
  BY <1>1, <1>3 DEF clientRuns
<1>5. targetRuns' = targetRuns
  BY <1>3 DEF targetRuns, OfTarget
<1> QED BY <1>2, <1>3, <1>4, <1>5 DEF Outcome, Items

LEMMA NothingEnded == <<>> \in Items
BY DEF Items

LEMMA RecordStep ==
    ASSUME RecordOK, [AggregateNext]_<<planVars, request, schedule, aggregateVars>>
    PROVE  RecordOK'
<1>1. CASE UNCHANGED <<schedule, ended, record>>
  BY <1>1, OutcomeSame DEF RecordOK
<1>2. CASE PlanningNext /\ UNCHANGED aggregateVars
  <2>1. ended' = ended /\ record' = record
    BY <1>2 DEF aggregateVars
  <2>2. schedule' = schedule \/ schedule = Unbuilt
    BY <1>2 DEF PlanningNext, MakePlan, Guide, Validate, Start, Plan
  <2>3. CASE schedule' = schedule
    BY <1>1, <2>1, <2>3
  <2>4. CASE schedule = Unbuilt
    <3>1. ended' = <<>> /\ record' = NoRecord /\ NoRecord' = NoRecord
      BY <2>1, <2>4 DEF RecordOK, Planned, NoRecord
    <3>2. <<>> \in Items'
      BY NothingEnded DEF Items
    <3> QED BY <3>1, <3>2 DEF RecordOK
  <2> QED BY <2>2, <2>3, <2>4
<1>3. CASE Planned /\ schedule' = schedule /\ Combine
  <2>1. ended' = ended /\ record' = Outcome
    BY <1>3 DEF Combine
  <2>2. Outcome' = Outcome /\ Items' = Items /\ Planned'
    BY <1>3, <2>1, OutcomeSame
  <2> QED BY <2>1, <2>2 DEF RecordOK
<1>4. ASSUME NEW a \in Jobs, Planned, schedule' = schedule, runAssignment(a) PROVE RecordOK'
  <2>1. record = NoRecord /\ record' = record
    BY <1>4 DEF runAssignment
  <2>2. PICK r \in Samples \cup {Failed} : ended' = Append(ended, [assignment |-> a, results |-> r])
    BY <1>4 DEF runAssignment
  <2>3. [assignment |-> a, results |-> r] \in [assignment : Jobs, results : Samples \cup {Failed}]
    OBVIOUS
  <2>4. ended' \in Items
    BY <2>2, <2>3, AppendProperties DEF RecordOK, Items
  <2>5. Items' = Items /\ Planned'
    BY <1>4 DEF Items, Jobs, Planned
  <2>6. NoRecord' = NoRecord
    BY DEF NoRecord
  <2> QED BY <2>1, <2>4, <2>5, <2>6 DEF RecordOK
<1>5. /\ UNCHANGED <<planVars, request, schedule, aggregateVars>> => UNCHANGED <<schedule, ended, record>>
      /\ UNCHANGED <<planVars, request, schedule>> => schedule' = schedule
  BY DEF aggregateVars
<1> QED BY <1>1, <1>2, <1>3, <1>4, <1>5 DEF AggregateNext

\* Whatever fails and in whatever order assignments end: the totals, the rows
\* per target and the intervals of the record each sum up exactly the results
\* that there are, minima and maxima are those of all of them, and only a run
\* without any result is an error.
THEOREM ResultsAreComplete == AggregateSpec => []ResultsAddUp
<1>1. AggregateInit => RecordOK
  BY NothingEnded DEF AggregateInit, RecordOK
<1>2. RecordOK /\ [AggregateNext]_<<planVars, request, schedule, aggregateVars>> => RecordOK'
  BY RecordStep
<1>3. RecordOK => ResultsAddUp
  <2> SUFFICES ASSUME RecordOK PROVE ResultsAddUp
    OBVIOUS
  <2>1. CASE record = NoRecord
    <3>1. record.outcome = "none"
      BY <2>1 DEF NoRecord
    <3>2. "none" # "error" /\ "none" # "record"
      OBVIOUS
    <3> QED BY <3>1, <3>2 DEF ResultsAddUp
  <2>2. CASE record = Outcome
    BY <2>2, OutcomeAddsUp DEF RecordOK
  <2> QED BY <2>1, <2>2 DEF RecordOK
<1> QED BY <1>1, <1>2, <1>3, PTL DEF AggregateSpec
=============================================================================
