---------------------------- MODULE NativeProofs ----------------------------
(***************************************************************************)
(* What NativeEngine promises, for any number of threads, seconds,         *)
(* operations and configurations.                                          *)
(*                                                                         *)
(* The file is the state that matters.  While only one writer has touched  *)
(* it, it is one line per second, the writer stands at its end, and no     *)
(* line shows more than its counter.  Whatever the follower has passed on  *)
(* is a beginning of it, and the result, taken after the writer ended,     *)
(* shows the same seconds.  A failed attempt that leaves threads behind    *)
(* ends this for good; the seconds still rise.                             *)
(***************************************************************************)
EXTENDS NativeEngine, SequenceTheorems, FiniteSetTheorems, TLAPS

-----------------------------------------------------------------------------
(* Counting up.  A list is worked through by a recursive function over its  *)
(* positions; what holds of the first value and is kept by each step holds  *)
(* of all.                                                                  *)

\* A set that has 0 and the successors up to n has all the numbers up to n.
LEMMA CountUp ==
    ASSUME NEW n \in Nat, NEW S, 0 \in S,
           \A k \in 0..n : k # 0 /\ k - 1 \in S => k \in S
    PROVE  0..n \subseteq S
<1> DEFINE Bad == {k \in 0..n : k \notin S}
<1> SUFFICES ASSUME Bad # {} PROVE FALSE
  OBVIOUS
<1>1. PICK m \in Bad : \A y \in Bad : ~ (<<y, m>> \in OpToRel(<, Nat))
  <2>1. Bad \subseteq Nat
    OBVIOUS
  <2> HIDE DEF Bad
  <2> QED BY <2>1, NatLessThanWellFounded, WFMin
<1>2. m # 0 /\ m \in 0..n /\ m \notin S
  OBVIOUS
<1>3. m - 1 \in 0..n /\ m - 1 < m /\ m - 1 \in Nat /\ m \in Nat
  BY <1>2
<1>4. m - 1 \notin Bad
  BY <1>1, <1>3 DEF OpToRel
<1> QED BY <1>2, <1>3, <1>4

\* f starts with a value and follows a step function up to n.
Follows(f, n, V, a, step) ==
    f \in [0..n -> V] /\ f[0] = a /\ \A k \in 1..n : f[k] = step[k][f[k-1]]

\* There is such a function.
LEMMA RecursionExists ==
    ASSUME NEW n \in Nat, NEW V, NEW a \in V, NEW step \in [1..n -> [V -> V]]
    PROVE  \E f : Follows(f, n, V, a, step)
<1> DEFINE Reached == {m \in 0..n : \E f : Follows(f, m, V, a, step)}
<1>1. 0 \in Reached
  <2> DEFINE f == [k \in 0..0 |-> a]
  <2>1. f \in [0..0 -> V] /\ f[0] = a /\ 1..0 = {} /\ 0 \in 0..n
    OBVIOUS
  <2>2. Follows(f, 0, V, a, step)
    BY <2>1 DEF Follows
  <2> QED BY <2>1, <2>2
<1>2. ASSUME NEW m \in 0..n, m # 0, m - 1 \in Reached PROVE m \in Reached
  <2>1. PICK f : Follows(f, m - 1, V, a, step)
    BY <1>2
  <2>2. /\ f \in [0..(m-1) -> V] /\ f[0] = a /\ \A k \in 1..(m-1) : f[k] = step[k][f[k-1]]
    BY <2>1 DEF Follows
  <2> DEFINE g == [k \in 0..m |-> IF k = m THEN step[m][f[m-1]] ELSE f[k]]
  <2>3. m \in 1..n /\ m - 1 \in 0..(m-1) /\ \A k \in 0..m : k = m \/ k \in 0..(m-1)
    BY <1>2
  <2>4. g \in [0..m -> V]
    BY <2>2, <2>3
  <2>5. g[0] = a
    BY <2>2, <2>3
  <2>6. ASSUME NEW k \in 1..m PROVE g[k] = step[k][g[k-1]]
    <3>1. k \in 0..m /\ k - 1 \in 0..(m-1) /\ k - 1 \in 0..m /\ k - 1 # m
      BY <2>3
    <3>2. CASE k = m
      BY <3>1, <3>2
    <3>3. CASE k # m
      <4>1. k \in 1..(m-1)
        BY <2>3, <3>3
      <4> QED BY <2>2, <3>1, <3>3, <4>1
    <3> QED BY <3>2, <3>3
  <2> HIDE DEF g
  <2>7. Follows(g, m, V, a, step)
    BY <2>4, <2>5, <2>6 DEF Follows
  <2> QED BY <2>7
<1> HIDE DEF Reached
<1>3. 0..n \subseteq Reached
  BY <1>1, <1>2, CountUp
<1>4. n \in Reached
  BY <1>3
<1> QED BY <1>4 DEF Reached

-----------------------------------------------------------------------------
(* The sum of intervals.                                                   *)

Shown(I, s) == IF s \in DOMAIN I THEN I[s] ELSE 0

\* sum is what Counted adds up, second by second.
Sums(I, sum) ==
    /\ sum \in [0..Seconds -> Nat] /\ sum[0] = 0
    /\ \A s \in 1..Seconds : sum[s] = sum[s-1] + Shown(I, s)

LEMMA CountedIs ==
    ASSUME NEW I, \A s \in 1..Seconds : Shown(I, s) \in Nat
    PROVE  \E sum : Sums(I, sum) /\ Counted(I) = sum[Seconds]
<1> DEFINE n == Seconds
           Body(f) == [s \in 0..n |-> IF s = 0 THEN 0
                                      ELSE f[s-1] + (IF s \in DOMAIN I THEN I[s] ELSE 0)]
           out == CHOOSE f : f = Body(f)
           step == [s \in 1..n |-> [v \in Nat |-> v + Shown(I, s)]]
<1>1. Counted(I) = out[n]
  BY DEF Counted
<1>2. n \in Nat /\ 0 \in Nat
  BY NativeAssumption
<1>3. step \in [1..n -> [Nat -> Nat]]
  OBVIOUS
<1>4. PICK f : f \in [0..n -> Nat] /\ f[0] = 0 /\ \A s \in 1..n : f[s] = step[s][f[s-1]]
  <2> HIDE DEF step, n
  <2>1. \E f : Follows(f, n, Nat, 0, step)
    BY <1>2, <1>3, RecursionExists
  <2> QED BY <2>1 DEF Follows
<1>5. \A s \in 1..n : f[s] = f[s-1] + Shown(I, s)
  <2> SUFFICES ASSUME NEW s \in 1..n PROVE f[s] = f[s-1] + Shown(I, s)
    OBVIOUS
  <2>1. s - 1 \in 0..n
    BY <1>2
  <2>2. f[s-1] \in Nat
    BY <1>4, <2>1
  <2>3. step[s][f[s-1]] = f[s-1] + Shown(I, s)
    BY <2>2
  <2> QED BY <1>4, <2>3
<1>6. f = Body(f)
  <2>1. f = [s \in 0..n |-> f[s]]
    BY <1>4
  <2>2. \A s \in 0..n : s = 0 \/ s \in 1..n
    BY <1>2
  <2>3. ASSUME NEW s \in 0..n PROVE f[s] = Body(f)[s]
    BY <1>4, <1>5, <2>2 DEF Shown
  <2>4. Body(f) = [s \in 0..n |-> Body(f)[s]]
    OBVIOUS
  <2> HIDE DEF Body
  <2> QED BY <2>1, <2>3, <2>4
<1>7. out = Body(out)
  <2> HIDE DEF Body
  <2> QED BY <1>6
<1>8. out[0] = 0
  <2>1. 0 \in 0..n
    BY <1>2
  <2>2. Body(out)[0] = 0
    BY <2>1
  <2> HIDE DEF Body, out
  <2> QED BY <1>7, <2>2
<1>9. ASSUME NEW s \in 1..n PROVE out[s] = out[s-1] + Shown(I, s)
  <2>1. s \in 0..n /\ s # 0
    BY <1>2
  <2> HIDE DEF out
  <2>2. Body(out)[s] = out[s-1] + Shown(I, s)
    BY <2>1 DEF Shown
  <2> HIDE DEF Body
  <2> QED BY <1>7, <2>2
<1>10. out = [s \in 0..n |-> out[s]]
  <2> HIDE DEF out
  <2>1. Body(out) = [s \in 0..n |-> Body(out)[s]]
    OBVIOUS
  <2> HIDE DEF Body
  <2> QED BY <1>7, <2>1
<1> HIDE DEF out, Body, step
<1> DEFINE Ok == {s \in 0..n : out[s] \in Nat}
<1>11. 0 \in Ok
  BY <1>2, <1>8
<1>12. ASSUME NEW s \in 0..n, s # 0, s - 1 \in Ok PROVE s \in Ok
  <2>1. s \in 1..n
    BY <1>2, <1>12
  <2> QED BY <1>9, <1>12, <2>1
<1> HIDE DEF Ok
<1>13. 0..n \subseteq Ok
  BY <1>2, <1>11, <1>12, CountUp
<1>14. out \in [0..n -> Nat]
  BY <1>10, <1>13 DEF Ok
<1>15. Sums(I, out)
  BY <1>8, <1>9, <1>14 DEF Sums
<1> QED BY <1>1, <1>15

\* If one second shows one more, so does the sum; if none does, it is the same.
LEMMA OneMore ==
    ASSUME NEW I, NEW J, NEW i \in 0..Seconds,
           \A s \in 1..Seconds : Shown(I, s) \in Nat,
           \A s \in 1..Seconds : Shown(J, s) = Shown(I, s) + (IF s = i THEN 1 ELSE 0)
    PROVE  /\ Counted(I) \in Nat
           /\ Counted(J) = Counted(I) + (IF i = 0 THEN 0 ELSE 1)
<1>1. Seconds \in Nat
  BY NativeAssumption
<1>2. PICK f : Sums(I, f) /\ Counted(I) = f[Seconds]
  BY CountedIs
<1>3. \A s \in 1..Seconds : Shown(J, s) \in Nat
  OBVIOUS
<1>4. PICK g : Sums(J, g) /\ Counted(J) = g[Seconds]
  BY <1>3, CountedIs
<1> DEFINE D(s) == IF i # 0 /\ i <= s THEN 1 ELSE 0
           Ok == {s \in 0..Seconds : g[s] = f[s] + D(s)}
<1>5. 0 \in Ok
  BY <1>1, <1>2, <1>4 DEF Sums
<1>6. ASSUME NEW s \in 0..Seconds, s # 0, s - 1 \in Ok PROVE s \in Ok
  <2>1. s \in 1..Seconds /\ s - 1 \in 0..Seconds
    BY <1>1, <1>6
  <2>2. f[s] = f[s-1] + Shown(I, s) /\ g[s] = g[s-1] + Shown(J, s) /\ f[s-1] \in Nat
    BY <1>2, <1>4, <2>1 DEF Sums
  <2>3. g[s-1] = f[s-1] + D(s-1)
    BY <1>6
  <2>4. Shown(I, s) \in Nat /\ Shown(J, s) = Shown(I, s) + (IF s = i THEN 1 ELSE 0)
    BY <2>1
  <2>5. D(s) = D(s-1) + (IF s = i THEN 1 ELSE 0)
    BY <2>1, <1>1
  <2>6. D(s-1) \in Nat /\ D(s) \in Nat
    OBVIOUS
  <2> HIDE DEF D
  <2>7. g[s] = f[s] + D(s)
    BY <2>2, <2>3, <2>4, <2>5, <2>6
  <2> QED BY <2>7
<1> HIDE DEF Ok
<1>7. 0..Seconds \subseteq Ok
  BY <1>1, <1>5, <1>6, CountUp
<1>8. Seconds \in 0..Seconds /\ f[Seconds] \in Nat
  BY <1>1, <1>2 DEF Sums
<1>9. g[Seconds] = f[Seconds] + D(Seconds)
  BY <1>7, <1>8 DEF Ok
<1>10. D(Seconds) = IF i = 0 THEN 0 ELSE 1
  BY <1>1
<1> QED BY <1>2, <1>4, <1>8, <1>9, <1>10

-----------------------------------------------------------------------------
(* The invariant.                                                          *)

Samples == [seq : Nat, n : Nat]
Stages  == Attempts \cup {"main", "synthetic", "exit"}
Worker  == [step : {"off", "loop", "bucket", "done"}, pending : Nat, sec : Nat]
Totals  == [total : Nat, reads : Nat, writes : Nat]
Writer  == [step : {"off", "sleep", "load", "text", "newline", "done"},
            last : BOOLEAN, at : Nat \ {0}, n : Nat, emitted : Nat]

TypeOK ==
    /\ cfg \in Configs /\ now \in Nat /\ seen \in Nat
    /\ stage \in Stages \X Nat
    /\ worker \in [Attempts -> [Workers -> Worker]]
    /\ ops \in [Attempts -> Totals]
    /\ bucket \in [Attempts -> [1..Seconds -> Nat]]
    /\ writer \in [Attempts -> Writer]
    /\ file \in Seq(Seq(Samples)) /\ file # <<>>
    /\ delivered \in Seq(Samples)

\* An attempt that has not begun, or not got as far as a worker, has not touched it.
Waits(a) == stage[1] = "main" \/ (a = "pread" /\ stage[1] = "io_uring")

NotYet ==
    \A a \in Attempts :
        /\ Waits(a) \/ stage = <<a, 0>> => writer[a] = Quiet
        /\ \A t \in Workers : Waits(a) \/ (stage[1] = a /\ stage[2] <= t) => worker[a][t] = Idle

\* The workers of an attempt that are between the totals and the second.
Between(a) == {t \in Workers : worker[a][t].step = "bucket"}

\* The totals are reads and writes, and at least what the seconds and the
\* workers on their way to a second have.
OpsAddUp ==
    \A a \in Attempts :
        /\ ops[a].total = ops[a].reads + ops[a].writes
        /\ Counted(bucket[a]) + Cardinality(Between(a)) <= ops[a].total
        /\ \A t \in Workers : worker[a][t].step \in {"off", "done"} => worker[a][t].pending = 0

\* The result is there at the end, and what the counters of its attempt say.
ResultIsFinal ==
    /\ stage[1] # "exit" => result = NoResult
    /\ stage[1] = "exit" =>
         \/ result.source = "synthetic"
         \/ \E a \in Attempts :
              /\ result = [source |-> a, total |-> ops[a].total, reads |-> ops[a].reads,
                           writes |-> ops[a].writes, intervals |-> Intervals(a)]
              /\ writer[a].step = "done" /\ \A t \in Workers : worker[a][t].step = "done"

\* The goroutine passes on samples of ever later seconds.
Rising ==
    /\ \A i \in DOMAIN delivered : delivered[i].seq <= seen
    /\ \A i, j \in DOMAIN delivered : i < j => delivered[i].seq < delivered[j].seq

Lines   == Len(file)
Written == IF Len(file[Lines]) = 1 THEN Lines ELSE Lines - 1

\* The file is one line per second, from the first; the last one may be open.
InLine ==
    /\ \A k \in 1..Lines : Len(file[k]) <= 1 /\ (Len(file[k]) = 1 => file[k][1].seq = k)
    /\ \A k \in 1..(Lines - 1) : Len(file[k]) = 1
    /\ Len(delivered) = seen /\ seen <= Written
    /\ \A i \in 1..seen : delivered[i] = file[i][1]

\* A writer stands where the file ends, with a count that is not above the
\* counter's, and so are those in the file.
AtEnd(a) ==
    LET w == writer[a]
    IN  /\ w.emitted = Lines - 1
        /\ w.step = "newline" <=> Len(file[Lines]) = 1
        /\ w.step \in {"load", "text", "newline"} => w.at = Lines
        /\ w.step \in {"text", "newline"} =>
             /\ w.at <= Seconds /\ 0 < w.n /\ w.n <= bucket[a][w.at]
        /\ \A k \in 1..Written : k <= Seconds /\ 0 < file[k][1].n /\ file[k][1].n <= bucket[a][k]

\* As long as no attempt has left threads behind, one writer at most has
\* written, and the goroutine has passed on the first lines of its file.
OneWriter ==
    ~Orphans =>
        /\ InLine
        /\ \A a \in Attempts : writer[a].step # "off" => AtEnd(a)
        /\ (\A a \in Attempts : writer[a].step = "off") =>
             \/ stage[1] = "exit"
             \/ stage[1] = "synthetic" /\ stage[2] > 0 /\ Lines = stage[2] /\ file[Lines] = <<>>
             \/ file = <<<<>>>> /\ (stage[1] = "synthetic" => stage[2] = 0)

IInv == TypeOK /\ NotYet /\ OpsAddUp /\ ResultIsFinal /\ Rising /\ OneWriter

-----------------------------------------------------------------------------
(* What the goroutine finds in the file.                                   *)

Reading == [given : Seq(Samples), seen : Nat]

\* The line has nothing for the goroutine: it is open, spoiled or known.
Skipped(k, r) == Len(file[k]) # 1 \/ file[k][1].seq <= r.seen

\* read is what Unseen has found up to each line.
Reads(read) ==
    /\ read \in [0..Lines -> Reading] /\ read[0] = [given |-> <<>>, seen |-> seen]
    /\ \A k \in 1..Lines :
         read[k] = IF Skipped(k, read[k-1]) THEN read[k-1]
                   ELSE [given |-> Append(read[k-1].given, file[k][1]), seen |-> file[k][1].seq]

LEMMA LinesAre ==
    ASSUME TypeOK
    PROVE  /\ Lines \in Nat /\ Lines > 0 /\ Seconds \in Nat /\ seen \in Nat
           /\ \A k \in 1..Lines : file[k] \in Seq(Samples) /\ Len(file[k]) \in Nat
           /\ \A k \in 1..Lines : Len(file[k]) = 1 => /\ file[k][1] \in Samples
                                                      /\ file[k][1].seq \in Nat
                                                      /\ file[k][1].n \in Nat
<1>1. file \in Seq(Seq(Samples)) /\ file # <<>> /\ seen \in Nat
  BY DEF TypeOK
<1>2. Lines \in Nat /\ Lines > 0
  BY <1>1, EmptySeq, LenProperties DEF Lines
<1>3. \A k \in 1..Lines : file[k] \in Seq(Samples)
  BY <1>1, ElementOfSeq DEF Lines
<1>4. \A k \in 1..Lines : Len(file[k]) \in Nat
  BY <1>3, LenProperties
<1>5. ASSUME NEW k \in 1..Lines, Len(file[k]) = 1 PROVE file[k][1] \in Samples
  BY <1>3, <1>5, ElementOfSeq
<1> QED BY <1>1, <1>2, <1>3, <1>4, <1>5, NativeAssumption DEF Samples

LEMMA UnseenIs ==
    ASSUME TypeOK
    PROVE  \E read : Reads(read) /\ Unseen = read[Lines]
<1> DEFINE n == Len(file)
           start == [given |-> <<>>, seen |-> seen]
           Body(f) == [k \in 0..n |->
                         IF k = 0 THEN start
                         ELSE IF Len(file[k]) # 1 \/ file[k][1].seq <= f[k-1].seen THEN f[k-1]
                         ELSE [given |-> Append(f[k-1].given, file[k][1]), seen |-> file[k][1].seq]]
           out == CHOOSE f : f = Body(f)
           step == [k \in 1..n |-> [r \in Reading |->
                      IF Skipped(k, r) THEN r
                      ELSE [given |-> Append(r.given, file[k][1]), seen |-> file[k][1].seq]]]
<1>1. Unseen = out[n]
  BY DEF Unseen
<1>2. n \in Nat /\ n = Lines
  BY LinesAre DEF Lines
<1>3. start \in Reading
  BY LinesAre DEF Reading
<1>4. step \in [1..n -> [Reading -> Reading]]
  <2> SUFFICES ASSUME NEW k \in 1..n, NEW r \in Reading, ~ Skipped(k, r)
               PROVE  [given |-> Append(r.given, file[k][1]), seen |-> file[k][1].seq] \in Reading
    BY Zenon
  <2>1. file[k][1] \in Samples /\ file[k][1].seq \in Nat
    BY <1>2, LinesAre DEF Skipped
  <2>2. r.given \in Seq(Samples)
    BY DEF Reading
  <2>3. Append(r.given, file[k][1]) \in Seq(Samples)
    BY <2>1, <2>2, AppendProperties
  <2> QED BY <2>1, <2>3 DEF Reading
<1>5. PICK f : f \in [0..n -> Reading] /\ f[0] = start /\ \A k \in 1..n : f[k] = step[k][f[k-1]]
  <2> HIDE DEF step, n, start
  <2>1. \E f : Follows(f, n, Reading, start, step)
    BY <1>2, <1>3, <1>4, RecursionExists
  <2> QED BY <2>1 DEF Follows
<1> DEFINE Next1(r, k) == IF Skipped(k, r) THEN r
                          ELSE [given |-> Append(r.given, file[k][1]), seen |-> file[k][1].seq]
<1>6. ASSUME NEW k \in 1..n PROVE f[k] = Next1(f[k-1], k)
  <2>1. k - 1 \in 0..n
    BY <1>2
  <2>2. f[k-1] \in Reading
    BY <1>5, <2>1
  <2>3. step[k][f[k-1]] = Next1(f[k-1], k)
    BY <2>2
  <2> QED BY <1>5, <2>3
<1>7. f = Body(f)
  <2>1. f = [k \in 0..n |-> f[k]]
    BY <1>5
  <2>2. \A k \in 0..n : k = 0 \/ (k # 0 /\ k \in 1..n)
    BY <1>2
  <2>3. ASSUME NEW k \in 0..n PROVE f[k] = Body(f)[k]
    <3> HIDE DEF start, n
    <3>1. CASE k = 0
      BY <1>5, <3>1
    <3>2. CASE k # 0 /\ k \in 1..n
      BY <1>6, <3>2 DEF Skipped
    <3> QED BY <2>2, <3>1, <3>2
  <2>4. Body(f) = [k \in 0..n |-> Body(f)[k]]
    OBVIOUS
  <2> HIDE DEF Body
  <2> QED BY <2>1, <2>3, <2>4
<1>8. out = Body(out)
  <2> HIDE DEF Body
  <2> QED BY <1>7
<1>9. out[0] = start
  <2>1. 0 \in 0..n
    BY <1>2
  <2> HIDE DEF out, start
  <2>2. Body(out)[0] = start
    BY <2>1
  <2> HIDE DEF Body
  <2> QED BY <1>8, <2>2
<1>10. ASSUME NEW k \in 1..n PROVE out[k] = Next1(out[k-1], k)
  <2>1. k \in 0..n /\ k # 0
    BY <1>2
  <2> HIDE DEF out, start, n
  <2>2. Body(out)[k] = Next1(out[k-1], k)
    BY <2>1 DEF Skipped
  <2> HIDE DEF Body
  <2> QED BY <1>8, <2>2
<1>11. out = [k \in 0..n |-> out[k]]
  <2> HIDE DEF out
  <2>1. Body(out) = [k \in 0..n |-> Body(out)[k]]
    OBVIOUS
  <2> HIDE DEF Body
  <2> QED BY <1>8, <2>1
<1> HIDE DEF out, Body
<1> DEFINE Ok == {k \in 0..n : out[k] \in Reading}
<1>12. 0 \in Ok
  BY <1>2, <1>3, <1>9
<1>13. ASSUME NEW k \in 0..n, k # 0, k - 1 \in Ok PROVE k \in Ok
  <2>1. k \in 1..n /\ out[k-1] \in Reading
    BY <1>2, <1>13
  <2>2. step[k][out[k-1]] = Next1(out[k-1], k)
    BY <2>1
  <2>3. step[k][out[k-1]] \in Reading
    <3> HIDE DEF step
    <3> QED BY <1>4, <2>1
  <2> QED BY <1>10, <2>1, <2>2, <2>3
<1> HIDE DEF Ok
<1>14. 0..n \subseteq Ok
  BY <1>2, <1>12, <1>13, CountUp
<1>15. out \in [0..n -> Reading]
  BY <1>11, <1>14 DEF Ok
<1>16. Reads(out)
  <2> HIDE DEF n
  <2> QED BY <1>2, <1>9, <1>10, <1>15 DEF Reads
<1> QED BY <1>1, <1>2, <1>16

\* What is new is of later and later seconds.
LEMMA UnseenRises ==
    ASSUME TypeOK
    PROVE  /\ Unseen \in Reading
           /\ seen <= Unseen.seen
           /\ \A i \in 1..Len(Unseen.given) : /\ seen < Unseen.given[i].seq
                                              /\ Unseen.given[i].seq <= Unseen.seen
           /\ \A i, j \in 1..Len(Unseen.given) : i < j => Unseen.given[i].seq < Unseen.given[j].seq
<1> DEFINE Good(r) == /\ r \in Reading /\ seen <= r.seen
                      /\ \A i \in 1..Len(r.given) : seen < r.given[i].seq /\ r.given[i].seq <= r.seen
                      /\ \A i, j \in 1..Len(r.given) : i < j => r.given[i].seq < r.given[j].seq
<1>1. PICK read : Reads(read) /\ Unseen = read[Lines]
  BY UnseenIs
<1> DEFINE Ok == {k \in 0..Lines : Good(read[k])}
<1>2. Lines \in Nat /\ seen \in Nat
  BY LinesAre
<1>3. 0 \in Ok
  <2>1. 0 \in 0..Lines
    BY <1>2
  <2>2. read[0] \in Reading /\ read[0].given = <<>> /\ read[0].seen = seen
    BY <1>1, <2>1 DEF Reads
  <2>3. Len(read[0].given) = 0
    BY <2>2
  <2> QED BY <1>2, <2>1, <2>2, <2>3
<1>4. ASSUME NEW k \in 0..Lines, k # 0, k - 1 \in Ok PROVE k \in Ok
  <2>1. k \in 1..Lines
    BY <1>2, <1>4
  <2> DEFINE r == read[k-1]
  <2>2. Good(r)
    BY <1>4
  <2>3. CASE Skipped(k, r)
    <3>1. read[k] = r
      BY <1>1, <2>1, <2>3 DEF Reads
    <3> QED BY <2>2, <3>1
  <2>4. CASE ~ Skipped(k, r)
    <3> DEFINE x == file[k][1]
               s == r.given
               u == Append(s, x)
    <3>1. read[k] = [given |-> u, seen |-> x.seq]
      BY <1>1, <2>1, <2>4 DEF Reads
    <3>2. x \in Samples /\ x.seq \in Nat /\ ~ (x.seq <= r.seen)
      <4> HIDE DEF r
      <4> QED BY <2>1, <2>4, LinesAre DEF Skipped
    <3>3. s \in Seq(Samples) /\ r.seen \in Nat
      BY <2>2 DEF Reading
    <3> HIDE DEF x, s
    <3>4. /\ u \in Seq(Samples) /\ Len(s) \in Nat /\ Len(u) = Len(s) + 1 /\ u[Len(s) + 1] = x
          /\ \A i \in 1..Len(s) : u[i] = s[i]
      BY <3>2, <3>3, AppendProperties, LenProperties
    <3> HIDE DEF u
    <3>5. read[k] \in Reading
      BY <3>1, <3>2, <3>4 DEF Reading
    <3>6. \A i \in 1..Len(s) : s[i] \in Samples /\ s[i].seq \in Nat
      <4>1. \A i \in 1..Len(s) : s[i] \in Samples
        BY <3>3, ElementOfSeq
      <4> QED BY <4>1 DEF Samples
    <3>7. \A i \in 1..Len(u) : i \in 1..Len(s) \/ i = Len(s) + 1
      BY <3>4
    <3>8. seen <= r.seen /\ \A i \in 1..Len(s) : seen < s[i].seq /\ s[i].seq <= r.seen
      BY <2>2 DEF s
    <3>9. \A i, j \in 1..Len(s) : i < j => s[i].seq < s[j].seq
      BY <2>2 DEF s
    <3> HIDE DEF r
    <3>10. seen <= x.seq /\ \A i \in 1..Len(u) : seen < u[i].seq /\ u[i].seq <= x.seq
      BY <1>2, <3>2, <3>3, <3>4, <3>6, <3>7, <3>8
    <3>11. \A i, j \in 1..Len(u) : i < j => u[i].seq < u[j].seq
      <4> SUFFICES ASSUME NEW i \in 1..Len(u), NEW j \in 1..Len(u), i < j
                   PROVE  u[i].seq < u[j].seq
        OBVIOUS
      <4>1. i \in 1..Len(s)
        BY <3>4, <3>7
      <4>2. CASE j \in 1..Len(s)
        BY <3>4, <3>9, <4>1, <4>2
      <4>3. CASE j = Len(s) + 1
        BY <3>2, <3>3, <3>4, <3>6, <3>8, <4>1, <4>3
      <4> QED BY <3>7, <4>2, <4>3
    <3> QED BY <3>1, <3>5, <3>10, <3>11
  <2> QED BY <2>3, <2>4
<1> HIDE DEF Ok
<1>5. 0..Lines \subseteq Ok
  BY <1>2, <1>3, <1>4, CountUp
<1>6. Lines \in 0..Lines
  BY <1>2
<1>7. Good(Unseen)
  BY <1>1, <1>5, <1>6 DEF Ok
<1> QED BY <1>7

\* In a file with one line per second, what is new is the rest of the file.
LEMMA UnseenIsRest ==
    ASSUME TypeOK, InLine
    PROVE  /\ Unseen.seen = Written /\ Len(Unseen.given) = Written - seen
           /\ \A i \in 1..Len(Unseen.given) : Unseen.given[i] = file[seen + i][1]
<1> DEFINE Upto(k) == IF k <= Written THEN k ELSE Written
           Good(k, r) == /\ r \in Reading
                         /\ r.seen = (IF Upto(k) <= seen THEN seen ELSE Upto(k))
                         /\ Len(r.given) = r.seen - seen
                         /\ \A i \in 1..Len(r.given) : r.given[i] = file[seen + i][1]
<1>1. PICK read : Reads(read) /\ Unseen = read[Lines]
  BY UnseenIs
<1>2. Lines \in Nat /\ Lines > 0 /\ seen \in Nat
  BY LinesAre
<1>3. /\ Written \in Nat /\ seen <= Written /\ Written <= Lines /\ Lines - 1 <= Written
      /\ \A k \in 1..Lines : k <= Written <=> Len(file[k]) = 1
      /\ \A k \in 1..Lines : Len(file[k]) = 1 => file[k][1].seq = k
  <2>1. \A k \in 1..Lines : k = Lines \/ k \in 1..(Lines - 1)
    BY <1>2
  <2>2. \A k \in 1..(Lines - 1) : Len(file[k]) = 1
    BY DEF InLine
  <2>3. (Written = Lines /\ Len(file[Lines]) = 1) \/ (Written = Lines - 1 /\ Len(file[Lines]) # 1)
    BY DEF Written
  <2>4. \A k \in 1..Lines : k <= Written <=> Len(file[k]) = 1
    BY <1>2, <2>1, <2>2, <2>3
  <2> QED BY <1>2, <2>3, <2>4 DEF InLine
<1> DEFINE Ok == {k \in 0..Lines : Good(k, read[k])}
<1>4. 0 \in Ok
  <2>1. 0 \in 0..Lines /\ Upto(0) = 0
    BY <1>2, <1>3
  <2>2. read[0] \in Reading /\ read[0].given = <<>> /\ read[0].seen = seen
    BY <1>1, <2>1 DEF Reads
  <2>3. Len(read[0].given) = 0
    BY <2>2
  <2> HIDE DEF Upto
  <2> QED BY <1>2, <2>1, <2>2, <2>3
<1>5. ASSUME NEW k \in 0..Lines, k # 0, k - 1 \in Ok PROVE k \in Ok
  <2>1. k \in 1..Lines /\ k - 1 \in Nat /\ k \in Nat
    BY <1>2, <1>5
  <2> DEFINE r == read[k-1]
  <2>2. Good(k - 1, r)
    BY <1>5
  <2>3. r.given \in Seq(Samples) /\ r.seen \in Nat
    BY <2>2 DEF Reading
  <2>4. CASE Skipped(k, r)
    <3>1. read[k] = r
      BY <1>1, <2>1, <2>4 DEF Reads
    <3>2. k > Written \/ k <= r.seen
      BY <1>3, <2>1, <2>4 DEF Skipped
    <3>3. r.seen = (IF Upto(k) <= seen THEN seen ELSE Upto(k))
      BY <1>2, <1>3, <2>1, <2>2, <3>2
    <3> QED BY <2>2, <3>1, <3>3
  <2>5. CASE ~ Skipped(k, r)
    <3> DEFINE x == file[k][1]
               s == r.given
               u == Append(s, x)
    <3>1. read[k] = [given |-> u, seen |-> x.seq]
      BY <1>1, <2>1, <2>5 DEF Reads
    <3>2. x \in Samples /\ x.seq = k /\ k <= Written /\ k > r.seen
      BY <1>3, <2>1, <2>3, <2>5, LinesAre DEF Skipped
    <3>3. r.seen = k - 1 /\ seen <= k - 1 /\ Upto(k) = k
      BY <1>2, <1>3, <2>1, <2>2, <3>2
    <3>4. Len(s) = k - 1 - seen /\ \A i \in 1..Len(s) : s[i] = file[seen + i][1]
      BY <2>2, <3>3
    <3>5. s \in Seq(Samples)
      BY <2>3
    <3> HIDE DEF x, s, r, Upto
    <3>6. /\ u \in Seq(Samples) /\ Len(s) \in Nat /\ Len(u) = Len(s) + 1 /\ u[Len(s) + 1] = x
          /\ \A i \in 1..Len(s) : u[i] = s[i]
      BY <3>2, <3>5, AppendProperties, LenProperties
    <3> HIDE DEF u
    <3>7. \A i \in 1..Len(u) : i \in 1..Len(s) \/ (i = Len(s) + 1 /\ seen + i = k)
      BY <1>2, <2>1, <3>4, <3>6
    <3>8. \A i \in 1..Len(u) : u[i] = file[seen + i][1]
      BY <3>4, <3>6, <3>7 DEF x
    <3>9. read[k] \in Reading
      BY <2>1, <3>1, <3>2, <3>6 DEF Reading
    <3>10. Len(u) = k - seen
      BY <1>2, <2>1, <3>4, <3>6
    <3>11. k = (IF Upto(k) <= seen THEN seen ELSE Upto(k))
      BY <1>2, <2>1, <3>3
    <3> QED BY <3>1, <3>2, <3>8, <3>9, <3>10, <3>11
  <2> QED BY <2>4, <2>5
<1> HIDE DEF Ok
<1>6. 0..Lines \subseteq Ok
  BY <1>2, <1>4, <1>5, CountUp
<1>7. Good(Lines, Unseen)
  BY <1>1, <1>2, <1>6 DEF Ok
<1>8. Upto(Lines) = Written
  BY <1>2, <1>3
<1> QED BY <1>2, <1>3, <1>7, <1>8

-----------------------------------------------------------------------------
(* What the steps do.                                                      *)

\* The open line of a file gets a text; a newline opens another.
LEMMA TextAdded ==
    ASSUME TypeOK, NEW x \in Samples
    PROVE  LET f == [file EXCEPT ![Len(file)] = Append(@, x)]
           IN  /\ f \in Seq(Seq(Samples)) /\ Len(f) = Lines
               /\ \A k \in 1..Lines : k # Lines => f[k] = file[k]
               /\ Len(f[Lines]) = Len(file[Lines]) + 1
               /\ Len(file[Lines]) = 0 => f[Lines][1] = x
<1> DEFINE l == Append(file[Lines], x)
<1>1. Lines \in 1..Lines /\ file \in Seq(Seq(Samples)) /\ file[Lines] \in Seq(Samples)
  BY LinesAre DEF TypeOK
<1>2. /\ l \in Seq(Samples) /\ Len(l) = Len(file[Lines]) + 1 /\ l[Len(file[Lines]) + 1] = x
  BY <1>1, AppendProperties
<1>3. [file EXCEPT ![Len(file)] = Append(@, x)] = [file EXCEPT ![Lines] = l]
  BY DEF Lines
<1> HIDE DEF l
<1>4. /\ [file EXCEPT ![Lines] = l] \in Seq(Seq(Samples))
      /\ Len([file EXCEPT ![Lines] = l]) = Lines
      /\ \A k \in 1..Lines : [file EXCEPT ![Lines] = l][k] = IF k = Lines THEN l ELSE file[k]
  BY <1>1, <1>2, ExceptSeq DEF Lines
<1> QED BY <1>1, <1>2, <1>3, <1>4

LEMMA LineAdded ==
    ASSUME NEW f \in Seq(Seq(Samples))
    PROVE  /\ Append(f, <<>>) \in Seq(Seq(Samples)) /\ Append(f, <<>>) # <<>>
           /\ Len(Append(f, <<>>)) = Len(f) + 1
           /\ \A k \in 1..Len(f) : Append(f, <<>>)[k] = f[k]
           /\ Append(f, <<>>)[Len(f) + 1] = <<>>
<1>1. <<>> \in Seq(Samples)
  BY EmptySeq
<1> QED BY <1>1, AppendProperties

LEMMA EmptyFile ==
    /\ <<<<>>>> \in Seq(Seq(Samples)) /\ <<<<>>>> # <<>>
    /\ Len(<<<<>>>>) = 1 /\ <<<<>>>>[1] = <<>> /\ Len(<<>>) = 0
<1>1. <<>> \in Seq(Samples) /\ Len(<<>>) = 0
  BY EmptySeq
<1> QED BY <1>1

\* Several fields of a worker change at once.
LEMMA WorkerUpdate ==
    ASSUME NEW w \in Worker, NEW p \in Nat, NEW s \in Nat
    PROVE  LET u == [w EXCEPT !.pending = p, !.step = "bucket", !.sec = s]
           IN  u \in Worker /\ u.step = "bucket"
BY DEF Worker

\* A worker's step.
LEMMA Works ==
    ASSUME TypeOK, NEW a \in Attempts, NEW t \in Workers, WorkerStep(a, t)
    PROVE  /\ Alive /\ UNCHANGED <<cfg, stage, now, writer, file, result, reader>>
           /\ worker' = [worker EXCEPT ![a][t] = worker'[a][t]]
           /\ worker'[a][t] \in Worker /\ worker'[a][t].step # "off"
           /\ worker'[a][t].step = "done" => worker'[a][t].pending = 0
           /\ \/ worker[a][t].step = "loop" /\ worker'[a][t].step \in {"loop", "done"}
                 /\ UNCHANGED counters
              \/ /\ worker[a][t].step = "loop" /\ worker'[a][t].step = "bucket"
                 /\ UNCHANGED bucket
                 /\ \E write \in BOOLEAN :
                      ops' = [ops EXCEPT ![a].total = @ + 1,
                                         ![a].reads = IF write THEN @ ELSE @ + 1,
                                         ![a].writes = IF write THEN @ + 1 ELSE @]
              \/ /\ worker[a][t].step = "bucket" /\ worker'[a][t].step = "loop"
                 /\ UNCHANGED ops
                 /\ bucket' = [bucket EXCEPT ![a] = [s \in 1..Seconds |->
                                 IF s = worker[a][t].sec THEN @[s] + 1 ELSE @[s]]]
<1> DEFINE w == worker[a][t]
<1>1. /\ w \in Worker /\ worker \in [Attempts -> [Workers -> Worker]]
      /\ w.pending \in Nat /\ w.sec \in Nat /\ now \in Nat
      /\ w.step \in {"off", "loop", "bucket", "done"}
  BY DEF TypeOK, Worker
<1>2. ASSUME NEW step, NEW next, Work(a, t, step, next)
      PROVE  /\ Alive /\ UNCHANGED <<cfg, stage, now, writer, file, result, reader>>
             /\ w.step = step
             /\ worker'[a][t] = next /\ worker' = [worker EXCEPT ![a][t] = worker'[a][t]]
  BY <1>1, <1>2 DEF Work
<1>3. CASE Issue(a, t)
  <2> DEFINE next == [w EXCEPT !.pending = @ + 1]
  <2>1. Work(a, t, "loop", next) /\ UNCHANGED counters
    BY <1>3 DEF Issue
  <2>2. next \in Worker /\ next.step = w.step
    <3> HIDE DEF w
    <3> QED BY <1>1 DEF Worker
  <2> HIDE DEF next
  <2>4. /\ Alive /\ UNCHANGED <<cfg, stage, now, writer, file, result, reader>>
        /\ w.step = "loop"
        /\ worker'[a][t] = next /\ worker' = [worker EXCEPT ![a][t] = worker'[a][t]]
    BY <1>2, <2>1
  <2> QED BY <2>1, <2>2, <2>4
<1>4. CASE OpFails(a, t)
  <2> DEFINE next == [w EXCEPT !.pending = @ - 1]
  <2>1. Work(a, t, "loop", next) /\ UNCHANGED counters
    BY <1>4 DEF OpFails
  <2>2. next \in Worker /\ next.step = w.step
    <3>1. w.pending > 0
      BY <1>4 DEF OpFails
    <3> HIDE DEF w
    <3> QED BY <1>1, <3>1 DEF Worker
  <2> HIDE DEF next
  <2>4. /\ Alive /\ UNCHANGED <<cfg, stage, now, writer, file, result, reader>>
        /\ w.step = "loop"
        /\ worker'[a][t] = next /\ worker' = [worker EXCEPT ![a][t] = worker'[a][t]]
    BY <1>2, <2>1
  <2> QED BY <2>1, <2>2, <2>4
<1>5. CASE CountTotals(a, t)
  <2> DEFINE next == [w EXCEPT !.pending = @ - 1, !.step = "bucket", !.sec = now + 1]
  <2>1. Work(a, t, "loop", next) /\ UNCHANGED bucket
    BY <1>5 DEF CountTotals
  <2>2. next \in Worker /\ next.step = "bucket"
    <3>1. w.pending > 0
      BY <1>5 DEF CountTotals
    <3> HIDE DEF w
    <3>2. w.pending - 1 \in Nat /\ now + 1 \in Nat
      BY <1>1, <3>1
    <3> QED BY <1>1, <3>2, WorkerUpdate
  <2>3. PICK write \in should_write :
          ops' = [ops EXCEPT ![a].total = @ + 1,
                             ![a].reads = IF write THEN @ ELSE @ + 1,
                             ![a].writes = IF write THEN @ + 1 ELSE @]
    BY <1>5 DEF CountTotals
  <2>5. write \in BOOLEAN
    BY DEF should_write
  <2> HIDE DEF next
  <2>4. /\ Alive /\ UNCHANGED <<cfg, stage, now, writer, file, result, reader>>
        /\ w.step = "loop"
        /\ worker'[a][t] = next /\ worker' = [worker EXCEPT ![a][t] = worker'[a][t]]
    BY <1>2, <2>1
  <2> QED BY <2>1, <2>2, <2>3, <2>4, <2>5
<1>6. CASE CountBucket(a, t)
  <2> DEFINE next == [w EXCEPT !.step = "loop", !.sec = 0]
  <2>1. Work(a, t, "bucket", next)
    BY <1>6 DEF CountBucket
  <2>2. next \in Worker /\ next.step = "loop"
    <3> HIDE DEF w
    <3> QED BY <1>1 DEF Worker
  <2> HIDE DEF next
  <2>4. /\ Alive /\ UNCHANGED <<cfg, stage, now, writer, file, result, reader>>
        /\ w.step = "bucket"
        /\ worker'[a][t] = next /\ worker' = [worker EXCEPT ![a][t] = worker'[a][t]]
    BY <1>2, <2>1
  <2> QED BY <1>6, <2>2, <2>4 DEF CountBucket
<1>7. CASE WorkerEnds(a, t)
  <2> DEFINE next == [w EXCEPT !.step = "done"]
  <2>1. Work(a, t, "loop", next) /\ UNCHANGED counters /\ w.pending = 0
    BY <1>7 DEF WorkerEnds
  <2>2. next \in Worker /\ next.step = "done" /\ next.pending = w.pending
    <3> HIDE DEF w
    <3> QED BY <1>1 DEF Worker
  <2> HIDE DEF next
  <2>4. /\ Alive /\ UNCHANGED <<cfg, stage, now, writer, file, result, reader>>
        /\ w.step = "loop"
        /\ worker'[a][t] = next /\ worker' = [worker EXCEPT ![a][t] = worker'[a][t]]
    BY <1>2, <2>1
  <2> QED BY <2>1, <2>2, <2>4
<1> QED BY <1>3, <1>4, <1>5, <1>6, <1>7 DEF WorkerStep

\* A writer's step.
LEMMA Writes ==
    ASSUME TypeOK, NEW a \in Attempts, WriterStep(a)
    PROVE  LET w == writer[a]
               v == writer'[a]
           IN  /\ Alive /\ UNCHANGED <<cfg, stage, now, worker, counters, result, reader>>
               /\ writer' = [writer EXCEPT ![a] = v] /\ v \in Writer
               /\ \/ /\ w.step = "sleep" /\ v.step = "load"
                     /\ v.at = w.emitted + 1 /\ v.emitted = w.emitted /\ UNCHANGED file
                  \/ /\ w.step = "load" /\ v.step \in {"sleep", "done"}
                     /\ v.emitted = w.emitted /\ UNCHANGED file
                  \/ /\ w.step = "load" /\ v.step = "load"
                     /\ v.at = w.emitted + 1 /\ v.emitted = w.emitted /\ UNCHANGED file
                  \/ /\ w.step = "load" /\ w.at <= Seconds /\ bucket[a][w.at] > 0
                     /\ v.step = "text" /\ v.n = bucket[a][w.at]
                     /\ v.at = w.at /\ v.emitted = w.emitted /\ UNCHANGED file
                  \/ /\ w.step = "text" /\ v.step = "newline"
                     /\ v.at = w.at /\ v.n = w.n /\ v.emitted = w.emitted
                     /\ file' = [file EXCEPT ![Len(file)] = Append(@, Sample(w.at, w.n))]
                  \/ /\ w.step = "newline" /\ v.step = "load"
                     /\ v.emitted = w.at /\ v.at = w.at + 1 /\ file' = Append(file, <<>>)
<1> DEFINE w == writer[a]
<1>1. /\ w \in Writer /\ writer \in [Attempts -> Writer]
      /\ w.at \in Nat \ {0} /\ w.emitted \in Nat /\ w.n \in Nat /\ w.last \in BOOLEAN
      /\ w.step \in {"off", "sleep", "load", "text", "newline", "done"}
  BY DEF TypeOK, Writer
<1>2. ASSUME NEW step, NEW next, Write(a, step, next)
      PROVE  /\ Alive /\ UNCHANGED <<cfg, stage, now, worker, counters, result, reader>>
             /\ w.step = step
             /\ writer'[a] = next /\ writer' = [writer EXCEPT ![a] = writer'[a]]
  BY <1>1, <1>2 DEF Write
<1>3. CASE FlushBegins(a)
  <2> DEFINE next == [w EXCEPT !.step = "load", !.at = w.emitted + 1]
  <2>1. Write(a, "sleep", next) /\ UNCHANGED file
    BY <1>3 DEF FlushBegins
  <2>2. next \in Writer /\ next.step = "load" /\ next.at = w.emitted + 1 /\ next.emitted = w.emitted
    <3> HIDE DEF w
    <3> DEFINE p == w.emitted + 1
    <3>1. p \in Nat \ {0}
      BY <1>1
    <3>2. next = [w EXCEPT !.step = "load", !.at = p]
      OBVIOUS
    <3> HIDE DEF w, p, next
    <3>3. next \in Writer /\ next.step = "load" /\ next.at = p /\ next.emitted = w.emitted
      BY <1>1, <3>1, <3>2 DEF Writer
    <3> QED BY <3>3 DEF p
  <2> HIDE DEF next
  <2>4. /\ Alive /\ UNCHANGED <<cfg, stage, now, worker, counters, result, reader>>
        /\ w.step = "sleep"
        /\ writer'[a] = next /\ writer' = [writer EXCEPT ![a] = writer'[a]]
    BY <1>2, <2>1
  <2> QED BY <2>1, <2>2, <2>4
<1>4. CASE LoadBucket(a) /\ w.at <= Seconds /\ bucket[a][w.at] > 0
  <2> DEFINE next == [w EXCEPT !.step = "text", !.n = bucket[a][w.at]]
  <2>1. Write(a, "load", next) /\ UNCHANGED file
    BY <1>4 DEF LoadBucket
  <2>2. next \in Writer /\ next.step = "text" /\ next.n = bucket[a][w.at]
        /\ next.at = w.at /\ next.emitted = w.emitted
    <3>1. bucket[a][w.at] \in Nat
      BY <1>1, <1>4, NativeAssumption DEF TypeOK
    <3> HIDE DEF w
    <3> QED BY <1>1, <3>1 DEF Writer
  <2> HIDE DEF next
  <2>4. /\ Alive /\ UNCHANGED <<cfg, stage, now, worker, counters, result, reader>>
        /\ w.step = "load"
        /\ writer'[a] = next /\ writer' = [writer EXCEPT ![a] = writer'[a]]
    BY <1>2, <2>1
  <2> QED BY <1>4, <2>1, <2>2, <2>4
<1>5. CASE LoadBucket(a) /\ ~ (w.at <= Seconds /\ bucket[a][w.at] > 0)
  <2>1. Write(a, "load", FlushEnds(w)) /\ UNCHANGED file
    BY <1>5 DEF LoadBucket
  <2>2. /\ FlushEnds(w) \in Writer /\ FlushEnds(w).emitted = w.emitted
        /\ \/ FlushEnds(w).step \in {"sleep", "done"}
           \/ FlushEnds(w).step = w.step /\ FlushEnds(w).at = w.emitted + 1
    <3> HIDE DEF w
    <3>1. CASE w.last
      BY <1>1, <3>1 DEF Writer, FlushEnds
    <3>2. CASE ~ w.last /\ InTime
      BY <1>1, <3>2 DEF Writer, FlushEnds
    <3>3. CASE ~ w.last /\ ~ InTime
      <4> DEFINE p == w.emitted + 1
                 next == FlushEnds(w)
      <4>1. p \in Nat \ {0}
        BY <1>1
      <4>2. next = [w EXCEPT !.last = TRUE, !.at = p]
        BY <3>3 DEF FlushEnds
      <4> HIDE DEF p, next
      <4>3. next \in Writer /\ next.step = w.step /\ next.at = p /\ next.emitted = w.emitted
        BY <1>1, <4>1, <4>2 DEF Writer
      <4> QED BY <4>3 DEF p, next
    <3> QED BY <3>1, <3>2, <3>3
  <2>4. /\ Alive /\ UNCHANGED <<cfg, stage, now, worker, counters, result, reader>>
        /\ w.step = "load"
        /\ writer'[a] = FlushEnds(w) /\ writer' = [writer EXCEPT ![a] = writer'[a]]
    BY <1>2, <2>1
  <2> QED BY <2>1, <2>2, <2>4
<1>6. CASE WriteText(a)
  <2> DEFINE next == [w EXCEPT !.step = "newline"]
  <2>1. /\ Write(a, "text", next)
        /\ file' = [file EXCEPT ![Len(file)] = Append(@, Sample(w.at, w.n))]
    BY <1>6 DEF WriteText
  <2>2. /\ next \in Writer /\ next.step = "newline"
        /\ next.at = w.at /\ next.n = w.n /\ next.emitted = w.emitted
    <3> HIDE DEF w
    <3> QED BY <1>1 DEF Writer
  <2> HIDE DEF next
  <2>4. /\ Alive /\ UNCHANGED <<cfg, stage, now, worker, counters, result, reader>>
        /\ w.step = "text"
        /\ writer'[a] = next /\ writer' = [writer EXCEPT ![a] = writer'[a]]
    BY <1>2, <2>1
  <2> QED BY <2>1, <2>2, <2>4
<1>7. CASE WriteNewline(a)
  <2> DEFINE next == [w EXCEPT !.step = "load", !.emitted = w.at, !.at = @ + 1]
  <2>1. Write(a, "newline", next) /\ file' = Append(file, <<>>)
    BY <1>7 DEF WriteNewline
  <2>2. /\ next \in Writer /\ next.step = "load" /\ next.emitted = w.at /\ next.at = w.at + 1
    <3> HIDE DEF w
    <3> DEFINE p == w.at + 1
               e == w.at
    <3>1. p \in Nat \ {0} /\ e \in Nat
      BY <1>1
    <3>2. next = [w EXCEPT !.step = "load", !.emitted = e, !.at = p]
      OBVIOUS
    <3> HIDE DEF w, p, e, next
    <3>3. next \in Writer /\ next.step = "load" /\ next.at = p /\ next.emitted = e
      BY <1>1, <3>1, <3>2 DEF Writer
    <3> QED BY <3>3 DEF p, e
  <2> HIDE DEF next
  <2>4. /\ Alive /\ UNCHANGED <<cfg, stage, now, worker, counters, result, reader>>
        /\ w.step = "newline"
        /\ writer'[a] = next /\ writer' = [writer EXCEPT ![a] = writer'[a]]
    BY <1>2, <2>1
  <2> QED BY <2>1, <2>2, <2>4
<1> QED BY <1>3, <1>4, <1>5, <1>6, <1>7 DEF WriterStep

-----------------------------------------------------------------------------
(* The invariant holds.                                                    *)

\* The actions, one by one.
LEMMA Steps ==
    ASSUME [Next]_vars
    PROVE  \/ RunBenchmark \/ SyntheticStep \/ Synthesize \/ Tick \/ Drain
           \/ \E a \in Attempts : \/ Open(a) \/ Finish(a) \/ WriterStep(a)
                                  \/ \E t \in Workers : Spawn(a, t) \/ WorkerStep(a, t)
           \/ UNCHANGED vars
BY DEF Next, MainStep

\* Where the main thread is.
LEMMA StageIs ==
    ASSUME TypeOK
    PROVE  stage = <<stage[1], stage[2]>> /\ stage[1] \in Stages /\ stage[2] \in Nat
BY DEF TypeOK

\* An operation that is counted.
LEMMA OpsCounted ==
    ASSUME TypeOK, NEW a \in Attempts, NEW write \in BOOLEAN,
           ops' = [ops EXCEPT ![a].total = @ + 1,
                              ![a].reads = IF write THEN @ ELSE @ + 1,
                              ![a].writes = IF write THEN @ + 1 ELSE @]
    PROVE  /\ ops' \in [Attempts -> Totals]
           /\ \A b \in Attempts : b # a => ops'[b] = ops[b]
           /\ ops'[a].total = ops[a].total + 1
           /\ ops'[a].reads + ops'[a].writes = ops[a].reads + ops[a].writes + 1
<1> DEFINE o == ops[a]
           r == IF write THEN o.reads ELSE o.reads + 1
           w == IF write THEN o.writes + 1 ELSE o.writes
           u == [o EXCEPT !.total = o.total + 1, !.reads = r, !.writes = w]
<1>1. ops \in [Attempts -> Totals] /\ o \in Totals
  BY DEF TypeOK
<1>2. o.total \in Nat /\ o.reads \in Nat /\ o.writes \in Nat
  BY <1>1 DEF Totals
<1>3. ops' = [ops EXCEPT ![a] = u]
  BY <1>1
<1>4. r \in Nat /\ w \in Nat /\ r + w = o.reads + o.writes + 1
  BY <1>2
<1>5. u \in Totals /\ u.total = o.total + 1 /\ u.reads = r /\ u.writes = w
  <2> DEFINE n == o.total + 1
  <2>1. n \in Nat
    BY <1>2
  <2>2. u = [o EXCEPT !.total = n, !.reads = r, !.writes = w]
    OBVIOUS
  <2> HIDE DEF o, r, w, n, u
  <2>3. u \in Totals /\ u.total = n /\ u.reads = r /\ u.writes = w
    BY <1>1, <1>4, <2>1, <2>2 DEF Totals
  <2> QED BY <2>3 DEF n
<1> HIDE DEF u, r, w
<1>6. ops'[a] = u /\ ops' \in [Attempts -> Totals] /\ \A b \in Attempts : b # a => ops'[b] = ops[b]
  <2>1. ops \in [Attempts -> Totals] /\ u \in Totals
    BY <1>1, <1>5
  <2>2. \A f \in [Attempts -> Totals] : [ops EXCEPT ![a] = u] = f
          => f[a] = u /\ \A b \in Attempts : b # a => f[b] = ops[b]
    BY <2>1
  <2>3. [ops EXCEPT ![a] = u] \in [Attempts -> Totals]
    BY <2>1
  <2> QED BY <1>3, <2>2, <2>3
<1> QED BY <1>4, <1>5, <1>6

\* A second that gets an operation.
LEMMA BucketGrows ==
    ASSUME TypeOK, NEW a \in Attempts, NEW x \in Nat,
           bucket' = [bucket EXCEPT ![a] = [s \in 1..Seconds |->
                         IF s = x THEN @[s] + 1 ELSE @[s]]]
    PROVE  /\ bucket' \in [Attempts -> [1..Seconds -> Nat]]
           /\ \A b \in Attempts : b # a => bucket'[b] = bucket[b]
           /\ \A b \in Attempts, s \in 1..Seconds : bucket[b][s] <= bucket'[b][s]
           /\ Counted(bucket[a]) \in Nat /\ Counted(bucket'[a]) <= Counted(bucket[a]) + 1
<1>1. bucket \in [Attempts -> [1..Seconds -> Nat]]
  BY DEF TypeOK
<1>2. bucket'[a] = [s \in 1..Seconds |-> IF s = x THEN bucket[a][s] + 1 ELSE bucket[a][s]]
  BY <1>1
<1>3. \A s \in 1..Seconds : bucket[a][s] \in Nat
  BY <1>1
<1>4. bucket'[a] \in [1..Seconds -> Nat]
  BY <1>2, <1>3
<1>5. /\ bucket' \in [Attempts -> [1..Seconds -> Nat]]
      /\ \A b \in Attempts : b # a => bucket'[b] = bucket[b]
  BY <1>1, <1>4
<1>6. ASSUME NEW b \in Attempts, NEW s \in 1..Seconds PROVE bucket[b][s] <= bucket'[b][s]
  <2>1. bucket[b][s] \in Nat
    BY <1>1
  <2>2. CASE b = a
    BY <1>2, <2>1, <2>2
  <2>3. CASE b # a
    BY <1>5, <2>1, <2>3
  <2> QED BY <2>2, <2>3
<1> DEFINE i == IF x \in 1..Seconds THEN x ELSE 0
<1>7. i \in 0..Seconds
  BY NativeAssumption
<1>8. \A s \in 1..Seconds : Shown(bucket[a], s) = bucket[a][s] /\ Shown(bucket'[a], s) = bucket'[a][s]
  BY <1>1, <1>2 DEF Shown
<1>9. \A s \in 1..Seconds : bucket'[a][s] = bucket[a][s] + (IF s = i THEN 1 ELSE 0)
  <2> SUFFICES ASSUME NEW s \in 1..Seconds
               PROVE  bucket'[a][s] = bucket[a][s] + (IF s = i THEN 1 ELSE 0)
    OBVIOUS
  <2>1. s # 0 /\ bucket[a][s] \in Nat /\ (s = i <=> s = x)
    BY <1>3, NativeAssumption
  <2>2. bucket'[a][s] = IF s = x THEN bucket[a][s] + 1 ELSE bucket[a][s]
    BY <1>2
  <2> HIDE DEF i
  <2> QED BY <2>1, <2>2
<1>10. /\ \A s \in 1..Seconds : Shown(bucket[a], s) \in Nat
       /\ \A s \in 1..Seconds : Shown(bucket'[a], s) = Shown(bucket[a], s) + (IF s = i THEN 1 ELSE 0)
  BY <1>3, <1>8, <1>9
<1> HIDE DEF i
<1>11. /\ Counted(bucket[a]) \in Nat
       /\ Counted(bucket'[a]) = Counted(bucket[a]) + (IF i = 0 THEN 0 ELSE 1)
  BY <1>7, <1>10, OneMore
<1> QED BY <1>5, <1>6, <1>11

LEMMA TypeHolds == ASSUME TypeOK, [Next]_vars PROVE TypeOK'
<1>1. CASE RunBenchmark
  BY <1>1 DEF RunBenchmark, FirstStage, Stages, Attempts, TypeOK, counters, reader
<1>2. CASE SyntheticStep
  <2>1. UNCHANGED <<cfg, now, worker, ops, bucket, writer, result, delivered, seen>> /\ EmitSynthetic
    BY <1>2 DEF SyntheticStep, counters, reader
  <2>2. stage' \in Stages \X Nat
    BY <2>1 DEF EmitSynthetic, Stages, Synthetic
  <2>3. file' \in Seq(Seq(Samples)) /\ file' # <<>>
    <3>1. CASE file' = <<<<>>>>
      BY <3>1, EmptyFile
    <3>2. ASSUME NEW i \in 1..Synthetic,
                 file' = Append([file EXCEPT ![Len(file)] = Append(@, Sample(i, 1))], <<>>)
          PROVE  file' \in Seq(Seq(Samples)) /\ file' # <<>>
      <4> DEFINE f == [file EXCEPT ![Len(file)] = Append(@, Sample(i, 1))]
      <4>1. Sample(i, 1) \in Samples
        BY DEF Sample, Samples, Synthetic
      <4>2. f \in Seq(Seq(Samples))
        BY <4>1, TextAdded
      <4> HIDE DEF f
      <4>3. file' = Append(f, <<>>)
        BY <3>2 DEF f
      <4> QED BY <4>2, <4>3, LineAdded
    <3> QED BY <2>1, <3>1, <3>2 DEF EmitSynthetic
  <2> QED BY <2>1, <2>2, <2>3 DEF TypeOK
<1>3. CASE Synthesize
  BY <1>3 DEF Synthesize, Stages, TypeOK, counters, reader
<1>4. ASSUME NEW a \in Attempts, Open(a) PROVE TypeOK'
  <2>1. UNCHANGED <<cfg, now, worker, ops, bucket, result, delivered, seen>>
    BY <1>4 DEF Open, counters, reader
  <2>2. stage' \in Stages \X Nat
    BY <1>4 DEF Open, NextStage, Stages, Attempts
  <2>3. file' \in Seq(Seq(Samples)) /\ file' # <<>>
    BY <1>4, EmptyFile DEF Open, TypeOK
  <2>4. writer' \in [Attempts -> Writer]
    <3>1. [writer[a] EXCEPT !.step = "sleep"] \in Writer
      BY DEF TypeOK, Writer
    <3>2. [writer EXCEPT ![a].step = "sleep"] = [writer EXCEPT ![a] = [writer[a] EXCEPT !.step = "sleep"]]
      BY DEF TypeOK
    <3> QED BY <1>4, <3>1, <3>2 DEF Open, TypeOK
  <2> QED BY <2>1, <2>2, <2>3, <2>4 DEF TypeOK
<1>5. ASSUME NEW a \in Attempts, Finish(a) PROVE TypeOK'
  BY <1>5 DEF Finish, Stages, TypeOK, counters, reader
<1>6. ASSUME NEW a \in Attempts, NEW t \in Workers, Spawn(a, t) PROVE TypeOK'
  <2>1. UNCHANGED <<cfg, now, ops, bucket, writer, file, result, delivered, seen>>
    BY <1>6 DEF Spawn, counters, reader
  <2>2. stage' \in Stages \X Nat
    <3>1. t + 1 \in Nat
      BY DEF Workers
    <3> QED BY <1>6, <3>1 DEF Spawn, NextStage, Stages, Attempts
  <2>3. worker' \in [Attempts -> [Workers -> Worker]]
    <3>1. ASSUME NEW step \in {"loop", "done"}
          PROVE  [worker EXCEPT ![a][t].step = step] \in [Attempts -> [Workers -> Worker]]
      <4>1. [worker[a][t] EXCEPT !.step = step] \in Worker
        <5> DEFINE w == worker[a][t]
        <5>1. w \in Worker
          BY DEF TypeOK
        <5> HIDE DEF w
        <5>2. [w EXCEPT !.step = step] \in Worker
          BY <5>1 DEF Worker
        <5> QED BY <5>2 DEF w
      <4>2. [worker EXCEPT ![a][t].step = step]
              = [worker EXCEPT ![a][t] = [worker[a][t] EXCEPT !.step = step]]
        BY DEF TypeOK
      <4> QED BY <4>1, <4>2 DEF TypeOK
    <3> QED BY <1>6, <3>1 DEF Spawn, TypeOK
  <2> QED BY <2>1, <2>2, <2>3 DEF TypeOK
<1>7. CASE Tick
  BY <1>7 DEF Tick, TypeOK, counters, reader
<1>8. CASE Drain
  <2>1. Unseen.given \in Seq(Samples) /\ Unseen.seen \in Nat
    BY UnseenRises DEF Reading
  <2>2. /\ UNCHANGED <<cfg, stage, now, worker, ops, bucket, writer, file, result>>
        /\ delivered' = delivered \o Unseen.given /\ seen' = Unseen.seen
    BY <1>8 DEF Drain, counters
  <2>3. delivered' \in Seq(Samples)
    BY <2>1, <2>2, ConcatProperties DEF TypeOK
  <2> QED BY <2>1, <2>2, <2>3 DEF TypeOK
<1>9. ASSUME NEW a \in Attempts, WriterStep(a) PROVE TypeOK'
  <2>1. /\ UNCHANGED <<cfg, stage, now, worker, ops, bucket, result, delivered, seen>>
        /\ writer' = [writer EXCEPT ![a] = writer'[a]] /\ writer'[a] \in Writer
    BY <1>9, Writes DEF counters, reader
  <2>2. writer' \in [Attempts -> Writer]
    BY <2>1 DEF TypeOK
  <2>3. file' \in Seq(Seq(Samples)) /\ file' # <<>>
    <3>1. CASE UNCHANGED file
      BY <3>1 DEF TypeOK
    <3>2. CASE file' = Append(file, <<>>)
      BY <3>2, LineAdded DEF TypeOK
    <3>3. CASE file' = [file EXCEPT ![Len(file)] = Append(@, Sample(writer[a].at, writer[a].n))]
      <4>1. Sample(writer[a].at, writer[a].n) \in Samples
        BY DEF Sample, Samples, TypeOK, Writer
      <4>2. file' \in Seq(Seq(Samples)) /\ Len(file') = Lines
        BY <3>3, <4>1, TextAdded
      <4> QED BY <4>2, LinesAre, EmptySeq
    <3> QED BY <1>9, <3>1, <3>2, <3>3, Writes
  <2> QED BY <2>1, <2>2, <2>3 DEF TypeOK
<1>10. ASSUME NEW a \in Attempts, NEW t \in Workers, WorkerStep(a, t) PROVE TypeOK'
  <2>1. /\ UNCHANGED <<cfg, stage, now, writer, file, result, delivered, seen>>
        /\ worker' = [worker EXCEPT ![a][t] = worker'[a][t]] /\ worker'[a][t] \in Worker
    BY <1>10, Works DEF reader
  <2>2. worker' \in [Attempts -> [Workers -> Worker]]
    <3> DEFINE v == worker'[a][t]
    <3>1. v \in Worker /\ worker' = [worker EXCEPT ![a][t] = v]
      BY <2>1
    <3> HIDE DEF v
    <3>2. [worker[a] EXCEPT ![t] = v] \in [Workers -> Worker]
      BY <3>1 DEF TypeOK
    <3>3. worker' = [worker EXCEPT ![a] = [worker[a] EXCEPT ![t] = v]]
      BY <3>1 DEF TypeOK
    <3> QED BY <3>2, <3>3 DEF TypeOK
  <2>3. ops' \in [Attempts -> Totals]
    <3>1. UNCHANGED ops \/ \E write \in BOOLEAN :
                              ops' = [ops EXCEPT ![a].total = @ + 1,
                                                 ![a].reads = IF write THEN @ ELSE @ + 1,
                                                 ![a].writes = IF write THEN @ + 1 ELSE @]
      BY <1>10, Works DEF counters
    <3>2. CASE UNCHANGED ops
      BY <3>2 DEF TypeOK
    <3> QED BY <3>1, <3>2, OpsCounted
  <2>4. bucket' \in [Attempts -> [1..Seconds -> Nat]]
    <3>1. worker[a][t].sec \in Nat
      BY DEF TypeOK, Worker
    <3>2. \/ UNCHANGED bucket
          \/ bucket' = [bucket EXCEPT ![a] = [s \in 1..Seconds |->
                           IF s = worker[a][t].sec THEN @[s] + 1 ELSE @[s]]]
      BY <1>10, Works DEF counters
    <3>3. CASE UNCHANGED bucket
      BY <3>3 DEF TypeOK
    <3> QED BY <3>1, <3>2, <3>3, BucketGrows
  <2> QED BY <2>1, <2>2, <2>3, <2>4 DEF TypeOK
<1>11. CASE UNCHANGED vars
  BY <1>11 DEF vars, TypeOK
<1> QED BY <1>1, <1>2, <1>3, <1>4, <1>5, <1>6, <1>7, <1>8, <1>9, <1>10, <1>11, Steps

\* Attempts are begun one after the other, and workers one by one.
LEMMA NotYetHolds == ASSUME TypeOK, NotYet, [Next]_vars PROVE NotYet'
<1>1. CASE RunBenchmark
  <2>1. stage = <<"main", 0>> /\ UNCHANGED <<worker, writer>>
    BY <1>1 DEF RunBenchmark
  <2>2. \A a \in Attempts : writer[a] = Quiet /\ \A t \in Workers : worker[a][t] = Idle
    BY <2>1 DEF NotYet, Waits
  <2> QED BY <2>1, <2>2 DEF NotYet
<1>2. CASE SyntheticStep \/ Synthesize
  <2>1. UNCHANGED <<worker, writer>> /\ stage'[1] \in {"synthetic", "exit"}
    BY <1>2 DEF SyntheticStep, Synthesize, EmitSynthetic
  <2> QED BY <2>1 DEF NotYet, Waits, Attempts
<1>3. ASSUME NEW a \in Attempts, UNCHANGED <<worker, writer>>, stage' = NextStage(a), stage[1] = a
      PROVE  NotYet'
  <2>1. CASE a = "io_uring"
    <3>1. stage' = <<"pread", 0>>
      BY <1>3, <2>1 DEF NextStage
    <3>2. writer["pread"] = Quiet /\ \A t \in Workers : worker["pread"][t] = Idle
      BY <1>3, <2>1 DEF NotYet, Waits, Attempts
    <3> QED BY <1>3, <3>1, <3>2 DEF NotYet, Waits, Attempts
  <2>2. CASE a # "io_uring"
    <3>1. stage' = <<"synthetic", 0>>
      BY <1>3, <2>2 DEF NextStage
    <3> QED BY <3>1 DEF NotYet, Waits, Attempts
  <2> QED BY <2>1, <2>2
<1>4. ASSUME NEW a \in Attempts, Open(a) PROVE NotYet'
  <2>1. stage = <<a, 0>> /\ UNCHANGED worker
    BY <1>4 DEF Open
  <2>2. CASE stage' = <<a, 1>> /\ writer' = [writer EXCEPT ![a].step = "sleep"]
    <3>1. \A b \in Attempts : Waits(b)' <=> Waits(b)
      BY <2>1, <2>2 DEF Waits
    <3>2. ~ Waits(a)
      BY <2>1 DEF Waits, Attempts
    <3>3. \A b \in Attempts : b # a => writer'[b] = writer[b]
      BY <2>2 DEF TypeOK
    <3>4. \A b \in Attempts : Waits(b)' \/ stage' = <<b, 0>> => b # a /\ Waits(b)
      BY <2>2, <3>1, <3>2
    <3>5. \A b \in Attempts, t \in Workers :
            Waits(b)' \/ (stage'[1] = b /\ stage'[2] <= t)
              => Waits(b) \/ (stage[1] = b /\ stage[2] <= t)
      BY <2>1, <2>2, <3>1 DEF Workers
    <3> QED BY <2>1, <3>3, <3>4, <3>5 DEF NotYet
  <2>3. CASE stage' = NextStage(a) /\ UNCHANGED writer
    BY <1>3, <2>1, <2>3
  <2> QED BY <1>4, <2>2, <2>3 DEF Open
<1>5. ASSUME NEW a \in Attempts, Finish(a) PROVE NotYet'
  <2>1. UNCHANGED <<worker, writer>> /\ stage'[1] = "exit"
    BY <1>5 DEF Finish
  <2> QED BY <2>1 DEF NotYet, Waits, Attempts
<1>6. ASSUME NEW a \in Attempts, NEW t \in Workers, Spawn(a, t) PROVE NotYet'
  <2>1. stage = <<a, t>> /\ UNCHANGED writer
    BY <1>6 DEF Spawn
  <2>2. ASSUME NEW step, worker' = [worker EXCEPT ![a][t].step = step], stage' = <<a, t + 1>>
        PROVE  NotYet'
    <3>1. \A b \in Attempts : Waits(b)' <=> Waits(b)
      BY <2>1, <2>2 DEF Waits
    <3>2. ~ Waits(a)
      BY <2>1 DEF Waits, Attempts
    <3>3. \A b \in Attempts, u \in Workers : b # a \/ u # t => worker'[b][u] = worker[b][u]
      BY <2>2 DEF TypeOK
    <3>4. \A b \in Attempts : Waits(b)' \/ stage' = <<b, 0>> => Waits(b)
      BY <2>2, <3>1 DEF Workers
    <3>5. \A b \in Attempts, u \in Workers :
            Waits(b)' \/ (stage'[1] = b /\ stage'[2] <= u)
              => (b # a \/ u # t) /\ (Waits(b) \/ (stage[1] = b /\ stage[2] <= u))
      BY <2>1, <2>2, <3>1, <3>2 DEF Workers
    <3> QED BY <2>1, <3>3, <3>4, <3>5 DEF NotYet
  <2>3. CASE stage' = NextStage(a) /\ UNCHANGED worker
    BY <1>3, <2>1, <2>3
  <2> QED BY <1>6, <2>2, <2>3 DEF Spawn
<1>7. CASE UNCHANGED <<stage, worker, writer>>
  BY <1>7 DEF NotYet, Waits
<1>8. ASSUME NEW a \in Attempts, WriterStep(a) PROVE NotYet'
  <2>1. /\ UNCHANGED <<stage, worker>> /\ writer[a].step # "off"
        /\ writer' = [writer EXCEPT ![a] = writer'[a]]
    BY <1>8, Writes
  <2>2. \A b \in Attempts : b # a => writer'[b] = writer[b]
    BY <2>1 DEF TypeOK
  <2>3. writer[a] # Quiet
    BY <2>1 DEF Quiet
  <2>4. \A b \in Attempts : Waits(b)' <=> Waits(b)
    BY <2>1 DEF Waits
  <2>5. ~ Waits(a) /\ stage # <<a, 0>>
    BY <2>3 DEF NotYet
  <2> QED BY <2>1, <2>2, <2>4, <2>5 DEF NotYet
<1>9. ASSUME NEW a \in Attempts, NEW t \in Workers, WorkerStep(a, t) PROVE NotYet'
  <2>1. /\ UNCHANGED <<stage, writer>> /\ worker[a][t].step # "off"
        /\ worker' = [worker EXCEPT ![a][t] = worker'[a][t]]
    BY <1>9, Works
  <2>2. \A b \in Attempts, u \in Workers : b # a \/ u # t => worker'[b][u] = worker[b][u]
    <3> DEFINE v == worker'[a][t]
    <3>1. worker' = [worker EXCEPT ![a][t] = v]
      BY <2>1
    <3> HIDE DEF v
    <3> QED BY <3>1 DEF TypeOK
  <2>3. worker[a][t] # Idle
    BY <2>1 DEF Idle
  <2>4. \A b \in Attempts : Waits(b)' <=> Waits(b)
    BY <2>1 DEF Waits
  <2>5. ~ (Waits(a) \/ (stage[1] = a /\ stage[2] <= t))
    BY <2>3 DEF NotYet
  <2> QED BY <2>1, <2>2, <2>4, <2>5 DEF NotYet
<1>10. CASE Tick \/ Drain \/ UNCHANGED vars
  BY <1>7, <1>10 DEF Tick, Drain, vars
<1> QED BY <1>1, <1>2, <1>4, <1>5, <1>6, <1>8, <1>9, <1>10, Steps

LEMMA BetweenFinite ==
    ASSUME NEW a \in Attempts
    PROVE  IsFiniteSet(Between(a)) /\ Cardinality(Between(a)) \in Nat
<1>1. IsFiniteSet(Workers)
  BY NativeAssumption, FS_Interval DEF Workers
<1>2. Between(a) \in SUBSET Workers
  BY DEF Between
<1> QED BY <1>1, <1>2, FS_Subset, FS_CardinalityType

\* Every operation is counted once: a worker that has counted the totals owes
\* one to the seconds.
LEMMA OpsAddUpHolds == ASSUME TypeOK, NotYet, OpsAddUp, [Next]_vars PROVE OpsAddUp'
<1>1. CASE UNCHANGED <<worker, ops, bucket>>
  BY <1>1 DEF OpsAddUp, Between
<1>2. CASE \/ RunBenchmark \/ SyntheticStep \/ Synthesize \/ Tick \/ Drain \/ UNCHANGED vars
           \/ \E a \in Attempts : Open(a) \/ Finish(a) \/ WriterStep(a)
  <2>1. ASSUME NEW a \in Attempts, WriterStep(a) PROVE UNCHANGED <<worker, ops, bucket>>
    BY <2>1, Writes DEF counters
  <2> QED BY <1>1, <1>2, <2>1
       DEF RunBenchmark, SyntheticStep, Synthesize, Tick, Drain, vars, Open, Finish, counters
<1>3. ASSUME NEW a \in Attempts, NEW t \in Workers, Spawn(a, t) PROVE OpsAddUp'
  <2>1. stage = <<a, t>> /\ UNCHANGED <<ops, bucket>>
    BY <1>3 DEF Spawn, counters
  <2>2. worker[a][t] = Idle
    BY <2>1 DEF NotYet, Workers
  <2>3. ASSUME NEW step \in {"loop", "done"}, worker' = [worker EXCEPT ![a][t].step = step]
        PROVE  OpsAddUp'
    <3>1. \A b \in Attempts, u \in Workers : b # a \/ u # t => worker'[b][u] = worker[b][u]
      BY <2>3 DEF TypeOK
    <3>2. worker'[a][t].step = step /\ worker'[a][t].pending = worker[a][t].pending
      <4>1. worker'[a][t] = [worker[a][t] EXCEPT !.step = step]
        BY <2>3 DEF TypeOK
      <4> QED BY <2>2, <4>1 DEF Idle
    <3>3. worker[a][t].step = "off" /\ worker[a][t].pending = 0
      BY <2>2 DEF Idle
    <3>4. \A b \in Attempts : Between(b)' = Between(b)
      BY <3>1, <3>2, <3>3 DEF Between
    <3>5. \A b \in Attempts, u \in Workers :
            worker'[b][u].step \in {"off", "done"} => worker'[b][u].pending = 0
      BY <3>1, <3>2, <3>3 DEF OpsAddUp
    <3> QED BY <2>1, <3>4, <3>5 DEF OpsAddUp
  <2> QED BY <1>1, <1>3, <2>1, <2>3 DEF Spawn
<1>4. ASSUME NEW a \in Attempts, NEW t \in Workers, WorkerStep(a, t) PROVE OpsAddUp'
  <2> DEFINE v == worker'[a][t]
             w == worker[a][t]
  <2>1. /\ worker' = [worker EXCEPT ![a][t] = v] /\ v.step # "off"
        /\ v.step = "done" => v.pending = 0
    BY <1>4, Works
  <2>2. \A b \in Attempts, u \in Workers : b # a \/ u # t => worker'[b][u] = worker[b][u]
    <3> HIDE DEF v
    <3> QED BY <2>1 DEF TypeOK
  <2>3. \A b \in Attempts, u \in Workers :
          worker'[b][u].step \in {"off", "done"} => worker'[b][u].pending = 0
    BY <2>1, <2>2 DEF OpsAddUp
  <2>4. \A b \in Attempts : b # a => Between(b)' = Between(b)
    BY <2>2 DEF Between
  <2>5. /\ ops[a].total \in Nat /\ ops[a].reads \in Nat /\ ops[a].writes \in Nat
        /\ IsFiniteSet(Between(a)) /\ Cardinality(Between(a)) \in Nat
    BY BetweenFinite DEF TypeOK, Totals
  <2>6. Counted(bucket[a]) \in Nat
    <3>1. \A s \in 1..Seconds : Shown(bucket[a], s) \in Nat
      BY DEF Shown, TypeOK
    <3>2. 0 \in 0..Seconds /\ \A s \in 1..Seconds : s # 0
      BY NativeAssumption
    <3>3. \A s \in 1..Seconds : Shown(bucket[a], s) = Shown(bucket[a], s) + (IF s = 0 THEN 1 ELSE 0)
      BY <3>1, <3>2
    <3> QED BY <3>1, <3>2, <3>3, OneMore
  <2>7. /\ ops[a].total = ops[a].reads + ops[a].writes
        /\ Counted(bucket[a]) + Cardinality(Between(a)) <= ops[a].total
    BY DEF OpsAddUp
  <2>8. CASE w.step = "loop" /\ v.step \in {"loop", "done"} /\ UNCHANGED counters
    <3>1. Between(a)' = Between(a)
      BY <2>2, <2>8 DEF Between
    <3> QED BY <2>3, <2>4, <2>8, <3>1 DEF OpsAddUp, counters
  <2>9. CASE /\ w.step = "loop" /\ v.step = "bucket" /\ UNCHANGED bucket
             /\ \E write \in BOOLEAN :
                  ops' = [ops EXCEPT ![a].total = @ + 1,
                                     ![a].reads = IF write THEN @ ELSE @ + 1,
                                     ![a].writes = IF write THEN @ + 1 ELSE @]
    <3>1. Between(a)' = Between(a) \cup {t} /\ t \notin Between(a)
      BY <2>2, <2>9 DEF Between
    <3>2. Cardinality(Between(a)') = Cardinality(Between(a)) + 1
      BY <2>5, <3>1, FS_AddElement
    <3>3. /\ \A b \in Attempts : b # a => ops'[b] = ops[b]
          /\ ops'[a].total = ops[a].total + 1
          /\ ops'[a].reads + ops'[a].writes = ops[a].reads + ops[a].writes + 1
      BY <2>9, OpsCounted
    <3>4. /\ ops'[a].total = ops'[a].reads + ops'[a].writes
          /\ Counted(bucket'[a]) + Cardinality(Between(a)') <= ops'[a].total
      BY <2>5, <2>6, <2>7, <2>9, <3>2, <3>3
    <3> QED BY <2>3, <2>4, <2>9, <3>3, <3>4 DEF OpsAddUp
  <2>10. CASE /\ w.step = "bucket" /\ v.step = "loop" /\ UNCHANGED ops
              /\ bucket' = [bucket EXCEPT ![a] = [s \in 1..Seconds |->
                              IF s = worker[a][t].sec THEN @[s] + 1 ELSE @[s]]]
    <3>1. Between(a)' = Between(a) \ {t} /\ t \in Between(a)
      BY <2>2, <2>10 DEF Between
    <3>2. Cardinality(Between(a)') = Cardinality(Between(a)) - 1
      BY <2>5, <3>1, FS_RemoveElement
    <3>3. worker[a][t].sec \in Nat
      BY DEF TypeOK, Worker
    <3>4. /\ \A b \in Attempts : b # a => bucket'[b] = bucket[b]
          /\ Counted(bucket'[a]) <= Counted(bucket[a]) + 1
          /\ bucket'[a] \in [1..Seconds -> Nat]
      BY <2>10, <3>3, BucketGrows
    <3>5. Counted(bucket'[a]) \in Nat
      <4>1. \A s \in 1..Seconds : Shown(bucket'[a], s) \in Nat
        BY <3>4 DEF Shown
      <4>2. 0 \in 0..Seconds /\ \A s \in 1..Seconds : s # 0
        BY NativeAssumption
      <4>3. \A s \in 1..Seconds : Shown(bucket'[a], s) = Shown(bucket'[a], s) + (IF s = 0 THEN 1 ELSE 0)
        BY <4>1, <4>2
      <4> QED BY <4>1, <4>2, <4>3, OneMore
    <3>6. Counted(bucket'[a]) + Cardinality(Between(a)') <= ops'[a].total
      BY <2>5, <2>6, <2>7, <2>10, <3>2, <3>4, <3>5
    <3> QED BY <2>3, <2>4, <2>7, <2>10, <3>4, <3>6 DEF OpsAddUp
  <2> QED BY <1>4, <2>8, <2>9, <2>10, Works
<1> QED BY <1>2, <1>3, <1>4, Steps

\* The result is written once, when nobody counts any more.
LEMMA ResultHolds == ASSUME TypeOK, ResultIsFinal, [Next]_vars PROVE ResultIsFinal'
<1>1. CASE UNCHANGED result /\ stage'[1] # "exit" /\ stage[1] # "exit"
  BY <1>1 DEF ResultIsFinal
<1>2. CASE RunBenchmark \/ SyntheticStep \/ Tick
  <2>1. UNCHANGED result /\ stage'[1] # "exit" /\ stage[1] # "exit"
    BY <1>2 DEF RunBenchmark, SyntheticStep, Tick, FirstStage, EmitSynthetic, Attempts
  <2> QED BY <1>1, <2>1
<1>3. CASE Synthesize
  BY <1>3 DEF Synthesize, ResultIsFinal, NoResult
<1>4. ASSUME NEW a \in Attempts, Open(a) \/ \E t \in Workers : Spawn(a, t) PROVE ResultIsFinal'
  <2>1. UNCHANGED result /\ stage'[1] # "exit" /\ stage[1] # "exit"
    BY <1>4 DEF Open, Spawn, NextStage, Attempts
  <2> QED BY <1>1, <2>1
<1>5. ASSUME NEW a \in Attempts, Finish(a) PROVE ResultIsFinal'
  <2>1. /\ stage'[1] = "exit" /\ UNCHANGED <<worker, writer, ops, bucket>>
        /\ writer[a].step = "done" /\ \A t \in Workers : worker[a][t].step = "done"
        /\ result' = [source |-> a, total |-> ops[a].total, reads |-> ops[a].reads,
                      writes |-> ops[a].writes, intervals |-> Intervals(a)]
    BY <1>5 DEF Finish, counters
  <2>2. Intervals(a)' = Intervals(a)
    BY <2>1 DEF Intervals
  <2> QED BY <2>1, <2>2 DEF ResultIsFinal
<1>6. ASSUME UNCHANGED <<stage, result>>, stage[1] # "exit" PROVE ResultIsFinal'
  BY <1>6 DEF ResultIsFinal
<1>7. ASSUME NEW a \in Attempts, WriterStep(a) PROVE ResultIsFinal'
  BY <1>6, <1>7, Writes DEF Alive
<1>8. ASSUME NEW a \in Attempts, NEW t \in Workers, WorkerStep(a, t) PROVE ResultIsFinal'
  BY <1>6, <1>8, Works DEF Alive
<1>9. CASE Drain \/ UNCHANGED vars
  <2>1. UNCHANGED <<stage, worker, writer, ops, bucket, result>>
    BY <1>9 DEF Drain, vars, counters
  <2>2. \A a \in Attempts : Intervals(a)' = Intervals(a)
    BY <2>1 DEF Intervals
  <2> QED BY <2>1, <2>2 DEF ResultIsFinal
<1> QED BY <1>2, <1>3, <1>4, <1>5, <1>7, <1>8, <1>9, Steps

LEMMA RisingHolds == ASSUME TypeOK, Rising, [Next]_vars PROVE Rising'
<1>1. CASE UNCHANGED <<delivered, seen>>
  BY <1>1 DEF Rising
<1>2. CASE Drain
  <2> DEFINE d == delivered
             g == Unseen.given
  <2>1. delivered' = d \o g /\ seen' = Unseen.seen
    BY <1>2 DEF Drain
  <2>2. /\ d \in Seq(Samples) /\ g \in Seq(Samples) /\ seen \in Nat /\ seen' \in Nat /\ seen <= seen'
        /\ \A i \in 1..Len(g) : seen < g[i].seq /\ g[i].seq <= seen'
        /\ \A i, j \in 1..Len(g) : i < j => g[i].seq < g[j].seq
    BY <2>1, UnseenRises DEF TypeOK, Reading
  <2>3. /\ \A i \in 1..Len(d) : d[i].seq <= seen
        /\ \A i, j \in 1..Len(d) : i < j => d[i].seq < d[j].seq
    BY <2>2 DEF Rising
  <2> HIDE DEF d, g
  <2>4. /\ Len(d) \in Nat /\ Len(g) \in Nat /\ DOMAIN (d \o g) = 1..(Len(d) + Len(g))
        /\ \A i \in 1..(Len(d) + Len(g)) : (d \o g)[i] = IF i <= Len(d) THEN d[i] ELSE g[i - Len(d)]
    BY <2>2, ConcatProperties, LenProperties
  <2>5. /\ \A i \in 1..Len(d) : d[i].seq \in Nat
        /\ \A i \in 1..Len(g) : g[i].seq \in Nat
    <3>1. /\ \A i \in 1..Len(d) : d[i] \in Samples
          /\ \A i \in 1..Len(g) : g[i] \in Samples
      BY <2>2, ElementOfSeq
    <3> QED BY <3>1 DEF Samples
  <2>6. ASSUME NEW i \in DOMAIN (d \o g)
        PROVE  \/ i \in 1..Len(d) /\ (d \o g)[i] = d[i]
               \/ i - Len(d) \in 1..Len(g) /\ i > Len(d) /\ (d \o g)[i] = g[i - Len(d)]
    BY <2>4
  <2>7. \A i \in DOMAIN (d \o g) : (d \o g)[i].seq <= seen'
    BY <2>2, <2>3, <2>5, <2>6
  <2>8. ASSUME NEW i \in DOMAIN (d \o g), NEW j \in DOMAIN (d \o g), i < j
        PROVE  (d \o g)[i].seq < (d \o g)[j].seq
    <3>1. CASE i \in 1..Len(d) /\ j \in 1..Len(d)
      BY <2>3, <2>4, <2>8, <3>1
    <3>2. CASE i \in 1..Len(d) /\ j \notin 1..Len(d)
      <4>1. (d \o g)[i] = d[i] /\ (d \o g)[j] = g[j - Len(d)] /\ j - Len(d) \in 1..Len(g)
        BY <2>4, <3>2
      <4> QED BY <2>2, <2>3, <2>5, <3>2, <4>1
    <3>3. CASE i \notin 1..Len(d)
      <4>1. /\ (d \o g)[i] = g[i - Len(d)] /\ i - Len(d) \in 1..Len(g)
            /\ (d \o g)[j] = g[j - Len(d)] /\ j - Len(d) \in 1..Len(g)
            /\ i - Len(d) < j - Len(d)
        BY <2>4, <2>8, <3>3
      <4> QED BY <2>2, <4>1
    <3> QED BY <3>1, <3>2, <3>3
  <2> QED BY <2>1, <2>7, <2>8 DEF Rising
<1>3. ASSUME NEW a \in Attempts, WriterStep(a) PROVE UNCHANGED <<delivered, seen>>
  BY <1>3, Writes DEF reader
<1>4. ASSUME NEW a \in Attempts, NEW t \in Workers, WorkerStep(a, t) PROVE UNCHANGED <<delivered, seen>>
  BY <1>4, Works DEF reader
<1> QED BY <1>1, <1>2, <1>3, <1>4, Steps
     DEF RunBenchmark, SyntheticStep, Synthesize, Tick, Open, Finish, Spawn, vars, reader

-----------------------------------------------------------------------------
(* One writer, and its reader.                                             *)

Abandoned(a) == writer[a].step # "off" /\ stage[1] # a /\ result.source # a

\* Threads that were left behind stay.
LEMMA OrphansStay ==
    ASSUME TypeOK, NotYet, ResultIsFinal, [Next]_vars, Orphans
    PROVE  Orphans'
<1>1. PICK a \in Attempts : Abandoned(a)
  BY DEF Orphans, Abandoned
<1>2. ~ Waits(a) /\ stage # <<a, 0>>
  BY <1>1 DEF NotYet, Quiet, Abandoned
<1>3. writer'[a].step # "off"
  <2>1. CASE UNCHANGED writer
    BY <1>1, <2>1 DEF Abandoned
  <2>2. ASSUME NEW b \in Attempts, Open(b) PROVE writer'[a].step # "off"
    <3>1. b # a /\ (UNCHANGED writer \/ writer' = [writer EXCEPT ![b].step = "sleep"])
      BY <1>2, <2>2 DEF Open
    <3> QED BY <1>1, <3>1 DEF TypeOK, Abandoned
  <2>3. ASSUME NEW b \in Attempts, WriterStep(b) PROVE writer'[a].step # "off"
    <3>1. writer' = [writer EXCEPT ![b] = writer'[b]] /\ writer'[b].step # "off"
      BY <2>3, Writes
    <3> DEFINE v == writer'[b]
    <3>2. writer' = [writer EXCEPT ![b] = v] /\ v.step # "off"
      BY <3>1
    <3> HIDE DEF v
    <3> QED BY <1>1, <3>2 DEF TypeOK, Abandoned
  <2>4. ASSUME NEW b \in Attempts, NEW t \in Workers, WorkerStep(b, t) PROVE UNCHANGED writer
    BY <2>4, Works
  <2> QED BY <2>1, <2>2, <2>3, <2>4, Steps
       DEF RunBenchmark, SyntheticStep, Synthesize, Tick, Drain, Finish, Spawn, vars
<1>4. stage'[1] # a
  <2>1. CASE UNCHANGED stage
    BY <1>1, <2>1 DEF Abandoned
  <2>2. CASE RunBenchmark
    BY <1>2, <2>2 DEF RunBenchmark, Waits
  <2>3. CASE SyntheticStep \/ Synthesize \/ \E b \in Attempts : Finish(b)
    BY <2>3 DEF SyntheticStep, EmitSynthetic, Synthesize, Finish, Attempts
  <2>4. CASE Tick
    BY <2>1, <2>4 DEF Tick
  <2>5. ASSUME NEW b \in Attempts, Open(b) \/ \E t \in Workers : Spawn(b, t) PROVE stage'[1] # a
    <3>1. stage[1] = b /\ (stage'[1] = b \/ stage' = NextStage(b))
      BY <2>5 DEF Open, Spawn
    <3>2. CASE stage'[1] = b
      BY <1>1, <3>1, <3>2 DEF Abandoned
    <3>3. CASE stage' = NextStage(b)
      BY <1>2, <3>1, <3>3 DEF NextStage, Waits, Attempts
    <3> QED BY <3>1, <3>2, <3>3
  <2>6. ASSUME NEW b \in Attempts, WriterStep(b) PROVE UNCHANGED stage
    BY <2>6, Writes
  <2>7. ASSUME NEW b \in Attempts, NEW t \in Workers, WorkerStep(b, t) PROVE UNCHANGED stage
    BY <2>7, Works
  <2> QED BY <2>1, <2>2, <2>3, <2>4, <2>5, <2>6, <2>7, Steps DEF Drain, vars
<1>5. result'.source # a
  <2>1. CASE UNCHANGED result
    BY <1>1, <2>1 DEF Abandoned
  <2>2. CASE Synthesize
    BY <2>2 DEF Synthesize, NoResult, Attempts
  <2>3. ASSUME NEW b \in Attempts, Finish(b) PROVE result'.source # a
    BY <1>1, <2>3 DEF Finish, Abandoned
  <2>4. ASSUME NEW b \in Attempts, WriterStep(b) PROVE UNCHANGED result
    BY <2>4, Writes
  <2>5. ASSUME NEW b \in Attempts, NEW t \in Workers, WorkerStep(b, t) PROVE UNCHANGED result
    BY <2>5, Works
  <2> QED BY <2>1, <2>2, <2>3, <2>4, <2>5, Steps
       DEF RunBenchmark, SyntheticStep, Tick, Drain, Open, Spawn, vars
<1> QED BY <1>3, <1>4, <1>5 DEF Orphans

AllOff == \A a \in Attempts : writer[a].step = "off"

\* Without orphans, a writer that was started is that of the present attempt.
LEMMA WriterIsOf ==
    ASSUME TypeOK, ResultIsFinal, ~Orphans, stage[1] # "exit",
           NEW a \in Attempts, writer[a].step # "off"
    PROVE  stage[1] = a
<1>1. result.source = "none"
  BY DEF ResultIsFinal, NoResult
<1> QED BY <1>1 DEF Orphans, Attempts

\* What is in the file and was passed on stays, and counters only grow.
LEMMA FileKept ==
    ASSUME TypeOK, InLine, UNCHANGED <<file, delivered, seen>>
    PROVE  InLine'
BY DEF InLine, Lines, Written

LEMMA EndKept ==
    ASSUME TypeOK, InLine, NEW a \in Attempts, AtEnd(a), UNCHANGED <<file, writer>>,
           TypeOK', \A s \in 1..Seconds : bucket[a][s] <= bucket'[a][s]
    PROVE  AtEnd(a)'
<1> DEFINE w == writer[a]
<1>1. /\ Lines' = Lines /\ Written' = Written /\ UNCHANGED file /\ writer'[a] = w
      /\ Lines \in Nat /\ Lines > 0
  BY LinesAre DEF Lines, Written
<1>2. /\ w.at \in Nat \ {0} /\ w.n \in Nat
      /\ \A s \in 1..Seconds : bucket[a][s] \in Nat /\ bucket'[a][s] \in Nat
  <2>1. bucket[a] \in [1..Seconds -> Nat] /\ bucket'[a] \in [1..Seconds -> Nat]
    BY DEF TypeOK
  <2>2. w \in Writer
    BY DEF TypeOK
  <2> HIDE DEF w
  <2> QED BY <2>1, <2>2 DEF Writer
<1>3. w.step \in {"text", "newline"} => /\ w.at <= Seconds /\ 0 < w.n /\ w.n <= bucket'[a][w.at]
  <2> SUFFICES ASSUME w.step \in {"text", "newline"} PROVE w.n <= bucket'[a][w.at]
    BY DEF AtEnd
  <2>1. w.at \in 1..Seconds /\ w.n <= bucket[a][w.at]
    BY <1>2, NativeAssumption DEF AtEnd
  <2> QED BY <1>2, <2>1
<1>4. ASSUME NEW k \in 1..Written
      PROVE  k <= Seconds /\ 0 < file[k][1].n /\ file[k][1].n <= bucket'[a][k]
  <2>1. k \in 1..Seconds /\ 0 < file[k][1].n /\ file[k][1].n <= bucket[a][k]
    BY <1>4, NativeAssumption DEF AtEnd
  <2>2. k \in 1..Lines /\ Len(file[k]) = 1
    <3>1. k = Lines \/ k \in 1..(Lines - 1)
      BY <1>1 DEF Written
    <3> QED BY <1>1, <3>1 DEF InLine, Written
  <2>3. file[k][1].n \in Nat
    BY <2>2, LinesAre
  <2> QED BY <1>2, <2>1, <2>3
<1> HIDE DEF w
<1>5. /\ w.emitted = Lines - 1 /\ (w.step = "newline" <=> Len(file[Lines]) = 1)
      /\ w.step \in {"load", "text", "newline"} => w.at = Lines
  BY DEF AtEnd, w
<1> QED BY <1>1, <1>3, <1>4, <1>5 DEF AtEnd

\* A step that leaves file, reader and writers alone.
LEMMA QuietStep ==
    ASSUME TypeOK, TypeOK', ~Orphans, OneWriter, UNCHANGED <<file, delivered, seen, writer>>,
           \A a \in Attempts, s \in 1..Seconds : bucket[a][s] <= bucket'[a][s],
           AllOff => \/ stage'[1] = "exit"
                     \/ stage'[1] # "synthetic" /\ file = <<<<>>>>
                     \/ stage'[1] = "synthetic" /\ stage'[2] = 0 /\ file = <<<<>>>>
                     \/ UNCHANGED stage
    PROVE  OneWriter'
<1>1. InLine /\ \A a \in Attempts : writer[a].step # "off" => AtEnd(a)
  BY DEF OneWriter
<1>2. InLine'
  BY <1>1, FileKept
<1>3. \A a \in Attempts : writer'[a].step # "off" => AtEnd(a)'
  BY <1>1, EndKept
<1>4. AllOff => /\ \/ stage[1] = "exit"
                   \/ stage[1] = "synthetic" /\ stage[2] > 0 /\ Lines = stage[2] /\ file[Lines] = <<>>
                   \/ file = <<<<>>>> /\ (stage[1] = "synthetic" => stage[2] = 0)
                /\ Lines' = Lines
  BY DEF OneWriter, AllOff, Lines
<1>5. AllOff' => \/ stage'[1] = "exit"
                 \/ stage'[1] = "synthetic" /\ stage'[2] > 0 /\ Lines' = stage'[2] /\ file'[Lines'] = <<>>
                 \/ file' = <<<<>>>> /\ (stage'[1] = "synthetic" => stage'[2] = 0)
  BY <1>4 DEF AllOff
<1> QED BY <1>2, <1>3, <1>5 DEF OneWriter, AllOff

\* The writer's step: it stays where the file ends.
LEMMA WriterInLine ==
    ASSUME TypeOK, TypeOK', InLine, NEW a \in Attempts, AtEnd(a), WriterStep(a)
    PROVE  InLine' /\ AtEnd(a)'
<1> DEFINE w == writer[a]
           v == writer'[a]
<1>1. /\ UNCHANGED <<bucket, delivered, seen>>
      /\ \/ /\ w.step = "sleep" /\ v.step = "load"
            /\ v.at = w.emitted + 1 /\ v.emitted = w.emitted /\ UNCHANGED file
         \/ /\ w.step = "load" /\ v.step \in {"sleep", "done"}
            /\ v.emitted = w.emitted /\ UNCHANGED file
         \/ /\ w.step = "load" /\ v.step = "load"
            /\ v.at = w.emitted + 1 /\ v.emitted = w.emitted /\ UNCHANGED file
         \/ /\ w.step = "load" /\ w.at <= Seconds /\ bucket[a][w.at] > 0
            /\ v.step = "text" /\ v.n = bucket[a][w.at]
            /\ v.at = w.at /\ v.emitted = w.emitted /\ UNCHANGED file
         \/ /\ w.step = "text" /\ v.step = "newline"
            /\ v.at = w.at /\ v.n = w.n /\ v.emitted = w.emitted
            /\ file' = [file EXCEPT ![Len(file)] = Append(@, Sample(w.at, w.n))]
         \/ /\ w.step = "newline" /\ v.step = "load"
            /\ v.emitted = w.at /\ v.at = w.at + 1 /\ file' = Append(file, <<>>)
  BY Writes DEF counters, reader
<1>2. /\ Lines \in Nat /\ Lines > 0 /\ seen \in Nat /\ w.at \in Nat \ {0} /\ w.n \in Nat
      /\ w.emitted \in Nat /\ \A s \in 1..Seconds : bucket[a][s] \in Nat
  <2>1. bucket[a] \in [1..Seconds -> Nat]
    BY DEF TypeOK
  <2>2. w \in Writer
    BY DEF TypeOK
  <2> HIDE DEF w
  <2>3. w.at \in Nat \ {0} /\ w.n \in Nat /\ w.emitted \in Nat
    BY <2>2 DEF Writer
  <2>4. Lines \in Nat /\ Lines > 0 /\ seen \in Nat
    BY LinesAre
  <2> QED BY <2>1, <2>3, <2>4
<1>3. /\ w.emitted = Lines - 1 /\ (w.step = "newline" <=> Len(file[Lines]) = 1)
      /\ w.step \in {"load", "text", "newline"} => w.at = Lines
      /\ w.step \in {"text", "newline"} => /\ w.at <= Seconds /\ 0 < w.n /\ w.n <= bucket[a][w.at]
      /\ \A k \in 1..Written : k <= Seconds /\ 0 < file[k][1].n /\ file[k][1].n <= bucket[a][k]
  BY DEF AtEnd
<1>4. /\ \A k \in 1..Lines : Len(file[k]) <= 1 /\ (Len(file[k]) = 1 => file[k][1].seq = k)
      /\ \A k \in 1..(Lines - 1) : Len(file[k]) = 1
      /\ Len(delivered) = seen /\ seen <= Written
      /\ \A i \in 1..seen : delivered[i] = file[i][1]
  BY DEF InLine
<1>5. /\ Lines \in 1..Lines /\ Len(file[Lines]) \in Nat
      /\ Len(file[Lines]) = 1 => Written = Lines
      /\ Len(file[Lines]) # 1 => Len(file[Lines]) = 0 /\ Written = Lines - 1
  <2>1. Lines \in 1..Lines
    BY <1>2
  <2>2. Len(file[Lines]) \in Nat
    BY <2>1, LinesAre
  <2>3. Len(file[Lines]) <= 1
    BY <1>4, <2>1
  <2>4. Len(file[Lines]) # 1 => Len(file[Lines]) = 0
    <3> DEFINE l == Len(file[Lines])
    <3>1. l \in Nat /\ l <= 1
      BY <2>2, <2>3
    <3> HIDE DEF l
    <3>2. l # 1 => l = 0
      BY <3>1
    <3> QED BY <3>2 DEF l
  <2> QED BY <2>1, <2>2, <2>4 DEF Written
<1>6. CASE UNCHANGED file
  <2>1. InLine' /\ Lines' = Lines /\ Written' = Written
    BY <1>1, <1>6, FileKept DEF Lines, Written
  <2>2. /\ v.emitted = Lines - 1 /\ (v.step = "newline" <=> Len(file[Lines]) = 1)
        /\ v.step \in {"load", "text", "newline"} => v.at = Lines
        /\ v.step \in {"text", "newline"} => /\ v.at <= Seconds /\ 0 < v.n /\ v.n <= bucket[a][v.at]
    <3>1. CASE \/ /\ w.step = "sleep" /\ v.step = "load"
                  /\ v.at = w.emitted + 1 /\ v.emitted = w.emitted
               \/ /\ w.step = "load" /\ v.step \in {"sleep", "done"} /\ v.emitted = w.emitted
               \/ /\ w.step = "load" /\ v.step = "load"
                  /\ v.at = w.emitted + 1 /\ v.emitted = w.emitted
      <4> HIDE DEF w, v
      <4> QED BY <1>2, <1>3, <3>1
    <3>2. CASE /\ w.step = "load" /\ w.at <= Seconds /\ bucket[a][w.at] > 0
               /\ v.step = "text" /\ v.n = bucket[a][w.at]
               /\ v.at = w.at /\ v.emitted = w.emitted
      <4>1. bucket[a][w.at] \in Nat
        BY <1>2, <3>2, NativeAssumption
      <4> HIDE DEF w, v
      <4> QED BY <1>2, <1>3, <3>2, <4>1
    <3>3. w.step # "text"  /\ w.step # "newline"
      <4>1. ASSUME file' = [file EXCEPT ![Len(file)] = Append(@, Sample(w.at, w.n))] PROVE FALSE
        <5>1. Sample(w.at, w.n) \in Samples
          BY <1>2 DEF Sample, Samples
        <5>2. Len(file'[Lines]) = Len(file[Lines]) + 1
          BY <4>1, <5>1, TextAdded
        <5> QED BY <1>5, <1>6, <5>2
      <4>2. ASSUME file' = Append(file, <<>>) PROVE FALSE
        <5>1. Len(file') = Len(file) + 1 /\ Len(file) \in Nat
          BY <1>2, <4>2, LineAdded DEF TypeOK, Lines
        <5> QED BY <1>6, <5>1
      <4> QED BY <1>1, <4>1, <4>2
    <3> HIDE DEF w, v
    <3> QED BY <1>1, <3>1, <3>2, <3>3
  <2> HIDE DEF w
  <2> QED BY <1>1, <1>3, <1>6, <2>1, <2>2 DEF AtEnd
<1>7. CASE /\ w.step = "text" /\ v.step = "newline"
           /\ v.at = w.at /\ v.n = w.n /\ v.emitted = w.emitted
           /\ file' = [file EXCEPT ![Len(file)] = Append(@, Sample(w.at, w.n))]
  <2> DEFINE x == Sample(w.at, w.n)
  <2>1. x \in Samples /\ x.seq = w.at /\ x.n = w.n
    BY <1>2 DEF Sample, Samples
  <2>2. w.at = Lines /\ Len(file[Lines]) = 0 /\ Written = Lines - 1
    BY <1>3, <1>5, <1>7
  <2>3. /\ Len(file') = Lines /\ \A k \in 1..Lines : k # Lines => file'[k] = file[k]
        /\ Len(file'[Lines]) = 1 /\ file'[Lines][1] = x
    BY <1>7, <2>1, <2>2, TextAdded
  <2>4. Lines' = Lines /\ Written' = Lines
    BY <2>3 DEF Lines, Written
  <2>5. \A k \in 1..Lines : k = Lines \/ (k # Lines /\ k \in 1..(Lines - 1))
    BY <1>2
  <2> HIDE DEF x
  <2>6. \A k \in 1..Lines : Len(file'[k]) = 1 /\ file'[k][1].seq = k
    BY <1>4, <2>1, <2>2, <2>3, <2>5
  <2>7. \A i \in 1..seen : i \in 1..(Lines - 1) /\ file'[i] = file[i]
    BY <1>2, <1>4, <2>2, <2>3
  <2>8. InLine'
    <3>1. \A k \in 1..(Lines - 1) : k \in 1..Lines
      BY <1>2
    <3>2. seen' <= Written' /\ Len(delivered') = seen'
      BY <1>1, <1>2, <1>4, <2>2, <2>4
    <3>3. \A i \in 1..seen' : delivered'[i] = file'[i][1]
      BY <1>1, <1>4, <2>7
    <3>4. \A k \in 1..Lines' : Len(file'[k]) <= 1 /\ (Len(file'[k]) = 1 => file'[k][1].seq = k)
      <4>1. 1..Lines' = 1..Lines
        BY <2>4
      <4>2. ASSUME NEW k \in 1..Lines' PROVE Len(file'[k]) = 1 /\ file'[k][1].seq = k
        BY <2>6, <4>1, <4>2
      <4>3. ASSUME NEW k \in 1..Lines' PROVE Len(file'[k]) <= 1
        <5>1. Len(file'[k]) = 1
          BY <4>2
        <5> QED BY <5>1
      <4> QED BY <4>2, <4>3
    <3>5. \A k \in 1..(Lines' - 1) : Len(file'[k]) = 1
      <4>1. 1..(Lines' - 1) = 1..(Lines - 1)
        BY <2>4
      <4> QED BY <2>6, <3>1, <4>1
    <3> QED BY <3>2, <3>3, <3>4, <3>5 DEF InLine
  <2>9. AtEnd(a)'
    <3>1. ASSUME NEW k \in 1..Lines
          PROVE  k <= Seconds /\ 0 < file'[k][1].n /\ file'[k][1].n <= bucket[a][k]
      <4>1. CASE k = Lines
        BY <1>3, <1>7, <2>1, <2>2, <2>3, <4>1
      <4>2. CASE k # Lines /\ k \in 1..(Lines - 1)
        BY <1>3, <2>2, <2>3, <4>2
      <4> QED BY <2>5, <4>1, <4>2
    <3>2. v.step = "newline" /\ v.at = Lines /\ v.n = w.n /\ v.emitted = Lines - 1
      BY <1>3, <1>7, <2>2
    <3>3. v.at <= Seconds /\ 0 < v.n /\ v.n <= bucket[a][v.at]
      BY <1>3, <1>7
    <3> HIDE DEF w, v
    <3>4. Lines' - 1 = Lines - 1 /\ Len(file'[Lines']) = 1
      BY <2>3, <2>4
    <3> QED BY <1>1, <2>4, <3>1, <3>2, <3>3, <3>4 DEF AtEnd, v
  <2> QED BY <2>8, <2>9
<1>8. CASE /\ w.step = "newline" /\ v.step = "load"
           /\ v.emitted = w.at /\ v.at = w.at + 1 /\ file' = Append(file, <<>>)
  <2>1. w.at = Lines /\ Len(file[Lines]) = 1 /\ Written = Lines
    BY <1>3, <1>5, <1>8
  <2>2. /\ Len(file') = Lines + 1 /\ \A k \in 1..Lines : file'[k] = file[k]
        /\ file'[Lines + 1] = <<>>
    BY <1>8, LineAdded DEF TypeOK, Lines
  <2>3. Lines' = Lines + 1 /\ Len(file'[Lines']) = 0 /\ Written' = Lines
    BY <1>2, <2>2, EmptySeq DEF Lines, Written
  <2>4. \A k \in 1..(Lines + 1) : k \in 1..Lines \/ k = Lines'
    BY <1>2, <2>3
  <2>5. \A k \in 1..Lines : Len(file[k]) = 1
    BY <1>2, <1>4, <2>1
  <2>6. InLine'
    <3>1. /\ \A k \in 1..Lines' : Len(file'[k]) <= 1 /\ (Len(file'[k]) = 1 => file'[k][1].seq = k)
          /\ \A k \in 1..(Lines' - 1) : Len(file'[k]) = 1
      BY <1>2, <1>4, <2>2, <2>3, <2>4, <2>5
    <3>2. seen' <= Written' /\ Len(delivered') = seen'
      BY <1>1, <1>4, <2>1, <2>3
    <3>3. \A i \in 1..seen' : delivered'[i] = file'[i][1]
      <4>1. \A i \in 1..seen : i \in 1..Lines
        BY <1>2, <1>4, <2>1
      <4> QED BY <1>1, <1>4, <2>2, <4>1
    <3> QED BY <3>1, <3>2, <3>3 DEF InLine
  <2>7. AtEnd(a)'
    <3>1. \A k \in 1..Lines : k <= Seconds /\ 0 < file'[k][1].n /\ file'[k][1].n <= bucket[a][k]
      BY <1>3, <2>1, <2>2
    <3>2. v.step = "load" /\ v.at = Lines' /\ v.emitted = Lines' - 1
      BY <1>2, <1>8, <2>1, <2>3
    <3> HIDE DEF w, v
    <3> QED BY <1>1, <2>3, <3>1, <3>2 DEF AtEnd, v
  <2> QED BY <2>6, <2>7
<1> HIDE DEF w, v
<1> QED BY <1>1, <1>6, <1>7, <1>8

\* The main thread's steps that leave file, reader and writers alone.
LEMMA QuietMain ==
    ASSUME TypeOK, TypeOK', ~Orphans, OneWriter, UNCHANGED <<file, delivered, seen, writer, bucket>>,
           \/ stage'[1] = "exit"
           \/ /\ stage[1] \notin {"exit", "synthetic"}
              /\ stage'[1] = "synthetic" => stage'[2] = 0
           \/ UNCHANGED stage
    PROVE  OneWriter'
<1>1. \A a \in Attempts, s \in 1..Seconds : bucket[a][s] <= bucket'[a][s]
  <2> SUFFICES ASSUME NEW a \in Attempts, NEW s \in 1..Seconds PROVE bucket[a][s] <= bucket'[a][s]
    OBVIOUS
  <2>1. bucket[a][s] \in Nat /\ bucket'[a][s] = bucket[a][s]
    BY DEF TypeOK
  <2> QED BY <2>1
<1>2. AllOff => \/ stage[1] = "exit" \/ stage[1] = "synthetic" \/ file = <<<<>>>>
  BY DEF OneWriter, AllOff
<1>3. AllOff => \/ stage'[1] = "exit"
                \/ stage'[1] # "synthetic" /\ file = <<<<>>>>
                \/ stage'[1] = "synthetic" /\ stage'[2] = 0 /\ file = <<<<>>>>
                \/ UNCHANGED stage
  BY <1>2
<1> QED BY <1>1, <1>3, QuietStep

\* The writer of an attempt begins with an empty file.
LEMMA OpenHolds ==
    ASSUME TypeOK, NotYet, ResultIsFinal, ~Orphans, OneWriter, NEW a \in Attempts, Open(a), TypeOK'
    PROVE  OneWriter'
<1>1. stage = <<a, 0>> /\ UNCHANGED <<bucket, delivered, seen>>
  BY DEF Open, counters, reader
<1>2. stage[1] = a /\ stage[1] \notin {"exit", "synthetic"}
  BY <1>1 DEF Attempts
<1>3. CASE stage' = NextStage(a) /\ UNCHANGED <<writer, file>>
  <2>1. stage'[1] = "synthetic" => stage'[2] = 0
    BY <1>3 DEF NextStage
  <2> QED BY <1>1, <1>2, <1>3, <2>1, QuietMain
<1>4. CASE writer' = [writer EXCEPT ![a].step = "sleep"] /\ file' = <<<<>>>>
  <2>1. writer[a] = Quiet /\ writer[a].step = "off"
    BY <1>1 DEF NotYet, Quiet
  <2>2. ASSUME NEW b \in Attempts, b # a PROVE writer[b].step = "off"
    BY <1>2, <2>2, WriterIsOf
  <2>3. AllOff
    BY <2>1, <2>2 DEF AllOff
  <2>4. InLine /\ file = <<<<>>>>
    BY <1>2, <2>3 DEF OneWriter, AllOff
  <2>5. UNCHANGED file
    BY <1>4, <2>4
  <2>6. InLine'
    BY <1>1, <2>4, <2>5, FileKept
  <2>7. Lines' = 1 /\ Len(file'[Lines']) = 0 /\ Written' = 0
    <3>1. Lines' = 1
      BY <1>4, EmptyFile DEF Lines
    <3>2. Len(file'[1]) = 0
      BY <1>4, EmptyFile
    <3> QED BY <3>1, <3>2 DEF Written
  <2>8. /\ writer'[a].step = "sleep" /\ writer'[a].emitted = 0
        /\ \A b \in Attempts : b # a => writer'[b].step = "off"
    <3>1. writer \in [Attempts -> Writer]
      BY DEF TypeOK
    <3> QED BY <1>4, <2>1, <2>2, <3>1 DEF Quiet
  <2>9. AtEnd(a)'
    <3>1. writer'[a].emitted = Lines' - 1 /\ Len(file'[Lines']) # 1
      BY <2>7, <2>8
    <3>2. \A k \in 1..Written' :
             k <= Seconds /\ 0 < file'[k][1].n /\ file'[k][1].n <= bucket'[a][k]
      BY <2>7
    <3> QED BY <2>8, <3>1, <3>2 DEF AtEnd
  <2>10. \A b \in Attempts : writer'[b].step # "off" => AtEnd(b)'
    BY <2>8, <2>9
  <2>11. ~ \A b \in Attempts : writer'[b].step = "off"
    BY <2>8
  <2> QED BY <2>6, <2>10, <2>11 DEF OneWriter
<1> QED BY <1>3, <1>4 DEF Open

\* A line of a synthetic run.
LEMMA SyntheticHolds ==
    ASSUME TypeOK, ResultIsFinal, ~Orphans, OneWriter, SyntheticStep, TypeOK'
    PROVE  OneWriter'
<1>1. /\ stage[1] = "synthetic" /\ stage'[1] = "synthetic"
      /\ UNCHANGED <<writer, delivered, seen>>
  BY DEF SyntheticStep, EmitSynthetic, reader
<1>2. AllOff
  <2> SUFFICES ASSUME NEW a \in Attempts, writer[a].step # "off" PROVE FALSE
    BY DEF AllOff
  <2>1. stage[1] = a
    BY <1>1, WriterIsOf
  <2> QED BY <1>1, <2>1 DEF Attempts
<1>3. /\ InLine
      /\ \/ stage[2] > 0 /\ Lines = stage[2] /\ file[Lines] = <<>>
         \/ file = <<<<>>>> /\ stage[2] = 0
  BY <1>1, <1>2 DEF OneWriter, AllOff
<1>4. ASSUME InLine', stage'[2] > 0, Lines' = stage'[2], file'[Lines'] = <<>> PROVE OneWriter'
  BY <1>1, <1>2, <1>4 DEF OneWriter, AllOff
<1>5. CASE stage = <<"synthetic", 0>> /\ stage' = <<"synthetic", 1>> /\ file' = <<<<>>>>
  <2>1. file = <<<<>>>> /\ UNCHANGED file
    BY <1>3, <1>5
  <2>2. InLine'
    BY <1>1, <1>3, <2>1, FileKept
  <2>3. Lines' = 1 /\ file'[1] = <<>>
    BY <1>5, EmptyFile DEF Lines
  <2>4. stage'[2] = 1
    BY <1>5
  <2> QED BY <1>4, <2>2, <2>3, <2>4
<1>6. ASSUME NEW i \in 1..Synthetic,
             stage = <<"synthetic", i>>, stage' = <<"synthetic", i + 1>>,
             file' = Append([file EXCEPT ![Len(file)] = Append(@, Sample(i, 1))], <<>>)
      PROVE  OneWriter'
  <2> DEFINE x == Sample(i, 1)
             f == [file EXCEPT ![Len(file)] = Append(@, x)]
  <2>1. i \in Nat /\ i > 0 /\ stage[2] = i /\ stage'[2] = i + 1
    BY <1>6 DEF Synthetic
  <2>2. Lines = i /\ file[Lines] = <<>> /\ Len(file[Lines]) = 0
    BY <1>3, <2>1, EmptySeq
  <2>3. x \in Samples /\ x.seq = i
    BY <2>1 DEF Sample, Samples
  <2>4. /\ f \in Seq(Seq(Samples)) /\ Len(f) = Lines
        /\ \A k \in 1..Lines : k # Lines => f[k] = file[k]
        /\ Len(f[Lines]) = Len(file[Lines]) + 1 /\ f[Lines][1] = x
    BY <2>2, <2>3, TextAdded
  <2>5. file' = Append(f, <<>>)
    BY <1>6
  <2> HIDE DEF f, x
  <2>6. /\ Len(file') = Lines + 1 /\ file'[Lines + 1] = <<>>
        /\ \A k \in 1..Lines : file'[k] = f[k]
    BY <2>4, <2>5, LineAdded
  <2>7. Lines' = Lines + 1 /\ file'[Lines'] = <<>> /\ Len(file'[Lines']) = 0
    BY <2>6, EmptySeq DEF Lines
  <2>8. Written' = Lines /\ Written = Lines - 1
    <3>1. Lines' - 1 = Lines
      BY <2>1, <2>2, <2>7
    <3>2. Len(file'[Lines']) # 1 /\ Len(file[Lines]) # 1
      BY <2>2, <2>7
    <3> QED BY <3>1, <3>2 DEF Written
  <2>9. ASSUME NEW k \in 1..Lines PROVE Len(file'[k]) = 1 /\ file'[k][1].seq = k
    <3>1. CASE k = Lines
      <4>1. file'[Lines] = f[Lines] /\ Len(f[Lines]) = 1
        BY <2>2, <2>4, <2>6, <3>1
      <4> QED BY <2>2, <2>3, <2>4, <3>1, <4>1
    <3>2. CASE k # Lines
      <4>1. k \in 1..(Lines - 1) /\ file'[k] = file[k]
        BY <2>1, <2>2, <2>4, <2>6, <3>2
      <4>2. Len(file[k]) = 1 /\ file[k][1].seq = k
        BY <1>3, <4>1 DEF InLine
      <4> QED BY <4>1, <4>2
    <3> QED BY <3>1, <3>2
  <2>10. InLine'
    <3>1. ASSUME NEW k \in 1..Lines'
          PROVE  Len(file'[k]) <= 1 /\ (Len(file'[k]) = 1 => file'[k][1].seq = k)
      <4>1. k \in 1..Lines \/ k = Lines'
        BY <2>1, <2>2, <2>7
      <4>2. CASE k \in 1..Lines
        <5>1. Len(file'[k]) = 1 /\ file'[k][1].seq = k
          BY <2>9, <4>2
        <5> QED BY <5>1
      <4>3. CASE k = Lines'
        <5>1. Len(file'[k]) = 0
          BY <2>7, <4>3
        <5> QED BY <5>1
      <4> QED BY <4>1, <4>2, <4>3
    <3>2. ASSUME NEW k \in 1..(Lines' - 1) PROVE Len(file'[k]) = 1
      <4>1. k \in 1..Lines
        BY <2>1, <2>2, <2>7
      <4> QED BY <2>9, <4>1
    <3>3. Len(delivered') = seen' /\ seen' <= Written'
      <4>1. Len(delivered) = seen /\ seen <= Lines - 1 /\ seen \in Nat
        BY <1>3, <2>8, LinesAre DEF InLine
      <4> QED BY <1>1, <2>1, <2>2, <2>8, <4>1
    <3>4. ASSUME NEW j \in 1..seen' PROVE delivered'[j] = file'[j][1]
      <4>1. j \in 1..seen /\ seen <= Lines - 1 /\ seen \in Nat /\ delivered[j] = file[j][1]
        BY <1>1, <1>3, <2>8, LinesAre DEF InLine
      <4>2. j \in 1..Lines /\ j # Lines
        BY <2>1, <2>2, <4>1
      <4>3. file'[j] = file[j]
        BY <2>4, <2>6, <4>2
      <4> QED BY <1>1, <4>1, <4>3
    <3> QED BY <3>1, <3>2, <3>3, <3>4 DEF InLine
  <2>11. Lines' = stage'[2] /\ stage'[2] > 0
    BY <2>1, <2>2, <2>7
  <2> QED BY <1>4, <2>7, <2>10, <2>11
<1> QED BY <1>5, <1>6 DEF SyntheticStep, EmitSynthetic

\* The goroutine passes on the rest of the file.
LEMMA DrainHolds ==
    ASSUME TypeOK, ~Orphans, OneWriter, Drain, TypeOK'
    PROVE  OneWriter'
<1> DEFINE g == Unseen.given
<1>1. /\ UNCHANGED <<stage, writer, bucket, file>>
      /\ delivered' = delivered \o g /\ seen' = Unseen.seen
  BY DEF Drain, counters
<1>2. InLine /\ \A a \in Attempts : writer[a].step # "off" => AtEnd(a)
  BY DEF OneWriter
<1>3. /\ Unseen.seen = Written /\ Len(g) = Written - seen
      /\ \A i \in 1..Len(g) : g[i] = file[seen + i][1]
  BY <1>2, UnseenIsRest
<1>4. g \in Seq(Samples) /\ delivered \in Seq(Samples)
  BY UnseenRises DEF TypeOK, Reading
<1>5. Len(delivered) = seen /\ seen <= Written /\ \A i \in 1..seen : delivered[i] = file[i][1]
  BY <1>2 DEF InLine
<1>6. Lines' = Lines /\ Written' = Written /\ seen' = Written /\ seen \in Nat
  BY <1>1, <1>3, LinesAre DEF Lines, Written
<1>7. Written \in Nat
  <2>1. Lines \in Nat /\ Lines > 0
    BY LinesAre
  <2> QED BY <2>1 DEF Written
<1> HIDE DEF g
<1>8. /\ Len(delivered \o g) = Len(delivered) + Len(g)
      /\ \A i \in 1..(Len(delivered) + Len(g)) :
           (delivered \o g)[i] = IF i <= Len(delivered) THEN delivered[i] ELSE g[i - Len(delivered)]
  BY <1>4, ConcatProperties
<1>9. Len(delivered') = seen'
  BY <1>1, <1>3, <1>5, <1>6, <1>7, <1>8
<1>10. ASSUME NEW i \in 1..seen' PROVE delivered'[i] = file'[i][1]
  <2>1. i \in 1..(Len(delivered) + Len(g)) /\ Len(delivered) = seen
    BY <1>3, <1>5, <1>6, <1>7
  <2>2. CASE i <= seen
    <3>1. i \in 1..seen /\ delivered'[i] = delivered[i]
      BY <1>1, <1>6, <1>8, <2>1, <2>2
    <3> QED BY <1>1, <1>5, <3>1
  <2>3. CASE ~ (i <= seen)
    <3>1. i - seen \in 1..Len(g) /\ seen + (i - seen) = i
      BY <1>3, <1>6, <1>7, <2>1, <2>3
    <3>2. delivered'[i] = g[i - seen]
      BY <1>1, <1>8, <2>1, <2>3
    <3>3. g[i - seen] = file[seen + (i - seen)][1]
      BY <1>3, <3>1
    <3> QED BY <1>1, <3>1, <3>2, <3>3
  <2> QED BY <2>2, <2>3
<1>11. InLine'
  <2>1. /\ \A k \in 1..Lines : Len(file[k]) <= 1 /\ (Len(file[k]) = 1 => file[k][1].seq = k)
        /\ \A k \in 1..(Lines - 1) : Len(file[k]) = 1
    BY <1>2 DEF InLine
  <2>2. seen' <= Written'
    BY <1>6, <1>7
  <2> QED BY <1>1, <1>6, <1>9, <1>10, <2>1, <2>2 DEF InLine
<1>12. \A a \in Attempts : writer'[a].step # "off" => AtEnd(a)'
  BY <1>1, <1>2, <1>6 DEF AtEnd
<1>13. (\A a \in Attempts : writer'[a].step = "off") =>
         \/ stage'[1] = "exit"
         \/ stage'[1] = "synthetic" /\ stage'[2] > 0 /\ Lines' = stage'[2] /\ file'[Lines'] = <<>>
         \/ file' = <<<<>>>> /\ (stage'[1] = "synthetic" => stage'[2] = 0)
  BY <1>1, <1>6 DEF OneWriter
<1> QED BY <1>11, <1>12, <1>13 DEF OneWriter

LEMMA OneWriterHolds ==
    ASSUME TypeOK, NotYet, ResultIsFinal, OneWriter, [Next]_vars
    PROVE  OneWriter'
<1> SUFFICES ASSUME ~Orphans' PROVE OneWriter'
  BY DEF OneWriter
<1>1. TypeOK' /\ ~Orphans
  BY TypeHolds, OrphansStay
<1>2. ASSUME RunBenchmark PROVE OneWriter'
  <2>1. stage[1] = "main" /\ stage'[2] = 0 /\ UNCHANGED <<file, delivered, seen, writer, bucket>>
    BY <1>2 DEF RunBenchmark, FirstStage, reader, counters
  <2> QED BY <1>1, <2>1, QuietMain
<1>3. ASSUME Synthesize PROVE OneWriter'
  <2>1. stage'[1] = "exit" /\ UNCHANGED <<file, delivered, seen, writer, bucket>>
    BY <1>3 DEF Synthesize, reader, counters
  <2> QED BY <1>1, <2>1, QuietMain
<1>4. ASSUME Tick \/ UNCHANGED vars PROVE OneWriter'
  <2>1. UNCHANGED <<stage, file, delivered, seen, writer, bucket>>
    BY <1>4 DEF Tick, vars, reader, counters
  <2> QED BY <1>1, <2>1, QuietMain
<1>5. ASSUME NEW a \in Attempts, Finish(a) PROVE OneWriter'
  <2>1. stage'[1] = "exit" /\ UNCHANGED <<file, delivered, seen, writer, bucket>>
    BY <1>5 DEF Finish, reader, counters
  <2> QED BY <1>1, <2>1, QuietMain
<1>6. ASSUME NEW a \in Attempts, NEW t \in Workers, Spawn(a, t) PROVE OneWriter'
  <2>1. /\ stage[1] = a /\ (stage'[1] = a \/ stage' = NextStage(a))
        /\ UNCHANGED <<file, delivered, seen, writer, bucket>>
    BY <1>6 DEF Spawn, reader, counters
  <2>2. stage'[1] = "synthetic" => stage'[2] = 0
    BY <2>1 DEF NextStage, Attempts
  <2>3. stage[1] \notin {"exit", "synthetic"}
    BY <2>1 DEF Attempts
  <2> QED BY <1>1, <2>1, <2>2, <2>3, QuietMain
<1>7. ASSUME NEW a \in Attempts, WriterStep(a) PROVE OneWriter'
  <2>1. /\ stage[1] # "exit" /\ writer[a].step # "off" /\ writer'[a].step # "off"
        /\ writer' = [writer EXCEPT ![a] = writer'[a]]
    BY <1>7, Writes DEF Alive
  <2>2. ASSUME NEW b \in Attempts, b # a PROVE writer'[b].step = "off"
    <3>1. stage[1] = a /\ (writer[b].step # "off" => stage[1] = b)
      BY <1>1, <2>1, WriterIsOf
    <3> DEFINE v == writer'[a]
    <3>2. writer' = [writer EXCEPT ![a] = v]
      BY <2>1
    <3> HIDE DEF v
    <3> QED BY <2>2, <3>1, <3>2 DEF TypeOK
  <2>3. InLine /\ AtEnd(a)
    BY <1>1, <2>1 DEF OneWriter
  <2>4. InLine' /\ AtEnd(a)'
    BY <1>1, <1>7, <2>3, WriterInLine
  <2>5. \A b \in Attempts : writer'[b].step # "off" => AtEnd(b)'
    BY <2>2, <2>4
  <2>6. ~ \A b \in Attempts : writer'[b].step = "off"
    BY <2>1
  <2> QED BY <2>4, <2>5, <2>6 DEF OneWriter
<1>8. ASSUME NEW a \in Attempts, NEW t \in Workers, WorkerStep(a, t) PROVE OneWriter'
  <2>1. UNCHANGED <<stage, file, delivered, seen, writer>>
    BY <1>8, Works DEF reader
  <2>2. \/ UNCHANGED bucket
        \/ bucket' = [bucket EXCEPT ![a] = [s \in 1..Seconds |->
                         IF s = worker[a][t].sec THEN @[s] + 1 ELSE @[s]]]
    BY <1>8, Works DEF counters
  <2>3. CASE UNCHANGED bucket
    BY <1>1, <2>1, <2>3, QuietMain
  <2>4. CASE bucket' = [bucket EXCEPT ![a] = [s \in 1..Seconds |->
                           IF s = worker[a][t].sec THEN @[s] + 1 ELSE @[s]]]
    <3> DEFINE x == worker[a][t].sec
    <3>1. x \in Nat
      BY DEF TypeOK, Worker
    <3>2. bucket' = [bucket EXCEPT ![a] = [s \in 1..Seconds |-> IF s = x THEN @[s] + 1 ELSE @[s]]]
      BY <2>4
    <3> HIDE DEF x
    <3>3. \A b \in Attempts, s \in 1..Seconds : bucket[b][s] <= bucket'[b][s]
      BY <3>1, <3>2, BucketGrows
    <3> QED BY <1>1, <2>1, <3>3, QuietStep
  <2> QED BY <2>2, <2>3, <2>4
<1> QED BY <1>1, <1>2, <1>3, <1>4, <1>5, <1>6, <1>7, <1>8,
           Steps, OpenHolds, SyntheticHolds, DrainHolds

-----------------------------------------------------------------------------
(* The invariant holds, and what it says of the three properties.          *)

LEMMA NothingCounted ==
    ASSUME NEW I, \A s \in 1..Seconds : Shown(I, s) = 0
    PROVE  Counted(I) = 0
<1>1. PICK sum : Sums(I, sum) /\ Counted(I) = sum[Seconds]
  BY CountedIs
<1> DEFINE Ok == {s \in 0..Seconds : sum[s] = 0}
<1>2. Seconds \in Nat
  BY NativeAssumption
<1>3. 0 \in Ok
  BY <1>1, <1>2 DEF Sums
<1>4. ASSUME NEW s \in 0..Seconds, s # 0, s - 1 \in Ok PROVE s \in Ok
  <2>1. s \in 1..Seconds /\ sum[s-1] = 0
    BY <1>2, <1>4
  <2> QED BY <1>1, <2>1 DEF Sums
<1> HIDE DEF Ok
<1>5. 0..Seconds \subseteq Ok
  BY <1>2, <1>3, <1>4, CountUp
<1>6. Seconds \in Ok
  BY <1>2, <1>5
<1> QED BY <1>1, <1>6 DEF Ok

LEMMA InitHolds == Init => IInv
<1> SUFFICES ASSUME Init PROVE IInv
  OBVIOUS
<1>1. TypeOK
  <2>1. file \in Seq(Seq(Samples)) /\ file # <<>>
    BY EmptyFile DEF Init
  <2>2. delivered \in Seq(Samples)
    BY EmptySeq DEF Init
  <2>3. worker \in [Attempts -> [Workers -> Worker]] /\ ops \in [Attempts -> Totals]
    BY DEF Init, Idle, Worker, Totals
  <2>4. writer \in [Attempts -> Writer]
    BY DEF Init, Quiet, Writer
  <2>5. bucket \in [Attempts -> [1..Seconds -> Nat]]
    BY DEF Init
  <2>6. cfg \in Configs /\ now \in Nat /\ seen \in Nat /\ stage \in Stages \X Nat
    BY DEF Init, Stages
  <2> QED BY <2>1, <2>2, <2>3, <2>4, <2>5, <2>6 DEF TypeOK
<1>2. NotYet
  BY DEF Init, NotYet
<1>3. OpsAddUp
  <2> SUFFICES ASSUME NEW a \in Attempts
               PROVE  /\ ops[a].total = ops[a].reads + ops[a].writes
                      /\ Counted(bucket[a]) + Cardinality(Between(a)) <= ops[a].total
                      /\ \A t \in Workers : worker[a][t].step \in {"off", "done"} =>
                                               worker[a][t].pending = 0
    BY DEF OpsAddUp
  <2>1. /\ ops[a].total = 0 /\ ops[a].reads = 0 /\ ops[a].writes = 0
        /\ \A t \in Workers : worker[a][t].pending = 0 /\ worker[a][t].step = "off"
    BY DEF Init, Idle
  <2>2. Counted(bucket[a]) = 0
    <3>1. \A s \in 1..Seconds : Shown(bucket[a], s) = 0
      BY DEF Init, Shown
    <3> QED BY <3>1, NothingCounted
  <2>3. Between(a) = {}
    BY <2>1 DEF Between
  <2>4. Cardinality(Between(a)) = 0
    BY <2>3, FS_EmptySet
  <2> QED BY <2>1, <2>2, <2>4
<1>4. ResultIsFinal
  BY DEF Init, ResultIsFinal
<1>5. Rising
  BY DEF Init, Rising
<1>6. OneWriter
  <2>1. Lines = 1 /\ Len(file[Lines]) = 0
    <3>1. Lines = 1
      BY EmptyFile DEF Init, Lines
    <3> QED BY <3>1, EmptyFile DEF Init
  <2>2. Written = 0
    BY <2>1 DEF Written
  <2>3. seen = 0 /\ Len(delivered) = 0
    BY EmptySeq DEF Init
  <2>4. InLine
    <3>1. \A k \in 1..Lines : Len(file[k]) <= 1 /\ (Len(file[k]) = 1 => file[k][1].seq = k)
      BY <2>1
    <3>2. \A k \in 1..(Lines - 1) : Len(file[k]) = 1
      BY <2>1
    <3>3. Len(delivered) = seen /\ seen <= Written /\ \A i \in 1..seen : delivered[i] = file[i][1]
      BY <2>2, <2>3
    <3> QED BY <3>1, <3>2, <3>3 DEF InLine
  <2>5. \A a \in Attempts : writer[a].step = "off"
    BY DEF Init, Quiet
  <2>6. file = <<<<>>>> /\ stage[1] # "synthetic"
    BY DEF Init
  <2> QED BY <2>4, <2>5, <2>6 DEF OneWriter
<1> QED BY <1>1, <1>2, <1>3, <1>4, <1>5, <1>6 DEF IInv

\* What the file and the counters look like in every state.
THEOREM Invariance == SafeSpec => []IInv
<1>1. IInv /\ [Next]_vars => IInv'
  BY TypeHolds, NotYetHolds, OpsAddUpHolds, ResultHolds, RisingHolds, OneWriterHolds DEF IInv
<1> QED BY InitHolds, <1>1, PTL DEF SafeSpec

\* StreamInOrder (internal/engine/native_progress.go): whatever is streamed is
\* of a later second than what was before, and without threads left behind by
\* a failed attempt no second is missing.
THEOREM SamplesInOrder == SafeSpec => []StreamInOrder
<1>1. IInv => StreamInOrder
  <2> SUFFICES ASSUME IInv PROVE StreamInOrder
    OBVIOUS
  <2>1. \A i, j \in DOMAIN delivered : i < j => delivered[i].seq < delivered[j].seq
    BY DEF IInv, Rising
  <2>2. ASSUME ~Orphans, NEW i \in DOMAIN delivered PROVE delivered[i].seq = i
    <3>1. InLine
      BY <2>2 DEF IInv, OneWriter
    <3>2. /\ Lines \in Nat /\ Lines > 0 /\ seen \in Nat /\ i \in 1..seen
      BY <2>2, <3>1, LinesAre DEF IInv, InLine, TypeOK
    <3>3. delivered[i] = file[i][1] /\ seen <= Written
      BY <3>1, <3>2 DEF InLine
    <3>4. i \in 1..Lines /\ Len(file[i]) = 1
      <4>1. i \in 1..Written
        <5>1. Written \in Nat
          BY <3>2 DEF Written
        <5> QED BY <3>2, <3>3, <5>1
      <4> QED BY <3>1, <3>2, <4>1 DEF InLine, Written
    <3> QED BY <3>1, <3>3, <3>4 DEF InLine
  <2> QED BY <2>1, <2>2 DEF StreamInOrder
<1> QED BY Invariance, <1>1, PTL

\* StreamedIsRecorded (crates/stratabench-engine, RunState::finish): a second
\* that was streamed is in the result, with at least the count that was shown.
THEOREM SamplesAreRecorded == SafeSpec => []StreamedIsRecorded
<1>1. IInv => StreamedIsRecorded
  <2> SUFFICES ASSUME IInv, result.source \in Attempts, ~Orphans, NEW i \in DOMAIN delivered
               PROVE  /\ delivered[i].seq \in DOMAIN result.intervals
                      /\ result.intervals[delivered[i].seq] >= delivered[i].n
    BY DEF StreamedIsRecorded
  <2>1. stage[1] = "exit"
    BY DEF IInv, ResultIsFinal, NoResult, Attempts
  <2>2. PICK a \in Attempts : /\ result.intervals = Intervals(a)
                              /\ writer[a].step = "done"
    BY <2>1 DEF IInv, ResultIsFinal, Attempts
  <2>3. InLine /\ AtEnd(a)
    BY <2>2 DEF IInv, OneWriter
  <2>4. Lines \in Nat /\ Lines > 0 /\ seen \in Nat /\ i \in 1..seen
    BY <2>3, LinesAre DEF IInv, InLine, TypeOK
  <2>5. delivered[i] = file[i][1] /\ seen <= Written
    BY <2>3, <2>4 DEF InLine
  <2>6. i \in 1..Written /\ i \in 1..Lines /\ Len(file[i]) = 1
    <3>1. Written \in Nat
      BY <2>4 DEF Written
    <3>2. i \in 1..Written
      BY <2>4, <2>5, <3>1
    <3> QED BY <2>3, <2>4, <3>2 DEF InLine, Written
  <2>7. delivered[i].seq = i
    BY <2>3, <2>5, <2>6 DEF InLine
  <2>8. i <= Seconds /\ 0 < file[i][1].n /\ file[i][1].n <= bucket[a][i]
    BY <2>3, <2>6 DEF AtEnd
  <2>9. i \in 1..Seconds /\ bucket[a][i] \in Nat /\ file[i][1].n \in Nat
    BY <2>4, <2>6, <2>8, LinesAre DEF IInv, TypeOK
  <2>10. bucket[a][i] > 0
    BY <2>8, <2>9
  <2>11. i \in DOMAIN Intervals(a) /\ Intervals(a)[i] = bucket[a][i]
    BY <2>9, <2>10 DEF Intervals
  <2> QED BY <2>2, <2>5, <2>7, <2>8, <2>9, <2>11
<1> QED BY Invariance, <1>1, PTL

\* ResultAddsUp (crates/stratabench-engine, RunState::record and finish): the
\* reads and the writes make the total, no operation is in two seconds, and no
\* operation of the attempt is still in flight.
THEOREM ResultsAreCounted == SafeSpec => []ResultAddsUp
<1>1. IInv => ResultAddsUp
  <2> SUFFICES ASSUME IInv, result.source \in Attempts
               PROVE  /\ result.total = result.reads + result.writes
                      /\ Counted(result.intervals) <= result.total
                      /\ \A t \in Workers : worker[result.source][t].pending = 0
    BY DEF ResultAddsUp
  <2>1. stage[1] = "exit"
    BY DEF IInv, ResultIsFinal, NoResult, Attempts
  <2>2. PICK a \in Attempts :
          /\ result.source = a /\ result.intervals = Intervals(a) /\ result.total = ops[a].total
          /\ result.reads = ops[a].reads /\ result.writes = ops[a].writes
          /\ \A t \in Workers : worker[a][t].step = "done"
    BY <2>1 DEF IInv, ResultIsFinal, Attempts
  <2>3. /\ ops[a].total = ops[a].reads + ops[a].writes
        /\ Counted(bucket[a]) + Cardinality(Between(a)) <= ops[a].total
        /\ \A t \in Workers : worker[a][t].pending = 0
    BY <2>2 DEF IInv, OpsAddUp
  <2>4. Cardinality(Between(a)) = 0
    <3>1. Between(a) = {}
      BY <2>2 DEF Between
    <3> QED BY <3>1, FS_EmptySet
  <2>5. Counted(Intervals(a)) = Counted(bucket[a]) /\ Counted(bucket[a]) \in Nat
    <3>1. bucket[a] \in [1..Seconds -> Nat] /\ 0 \in 0..Seconds
      BY NativeAssumption DEF IInv, TypeOK
    <3>2. \A s \in 1..Seconds : Shown(bucket[a], s) \in Nat /\ Shown(bucket[a], s) = bucket[a][s]
      BY <3>1 DEF Shown
    <3>3. ASSUME NEW s \in 1..Seconds
          PROVE  Shown(Intervals(a), s) = Shown(bucket[a], s) + (IF s = 0 THEN 1 ELSE 0)
      <4>1. bucket[a][s] \in Nat /\ s # 0
        <5>1. bucket[a][s] \in Nat
          BY <3>1
        <5>2. s # 0
          OBVIOUS
        <5> QED BY <5>1, <5>2
      <4>2. Shown(Intervals(a), s) = bucket[a][s]
        <5>1. CASE bucket[a][s] > 0
          <6>1. s \in DOMAIN Intervals(a) /\ Intervals(a)[s] = bucket[a][s]
            BY <5>1 DEF Intervals
          <6> QED BY <6>1 DEF Shown
        <5>2. CASE ~ (bucket[a][s] > 0)
          <6>1. s \notin DOMAIN Intervals(a)
            BY <5>2 DEF Intervals
          <6> QED BY <4>1, <5>2, <6>1 DEF Shown
        <5> QED BY <5>1, <5>2
      <4> QED BY <3>2, <4>1, <4>2
    <3> DEFINE z == 0
    <3>4. z \in 0..Seconds /\ (z = 0 => (IF z = 0 THEN 0 ELSE 1) = 0)
      BY <3>1
    <3>5. \A s \in 1..Seconds :
            Shown(Intervals(a), s) = Shown(bucket[a], s) + (IF s = z THEN 1 ELSE 0)
      BY <3>3
    <3>6. z = 0
      OBVIOUS
    <3> HIDE DEF z
    <3>7. /\ Counted(bucket[a]) \in Nat
          /\ Counted(Intervals(a)) = Counted(bucket[a]) + (IF z = 0 THEN 0 ELSE 1)
      BY <3>2, <3>4, <3>5, OneMore
    <3> QED BY <3>6, <3>7
  <2>6. ops[a].total \in Nat
    BY DEF IInv, TypeOK, Totals
  <2> QED BY <2>2, <2>3, <2>4, <2>5, <2>6
<1> QED BY Invariance, <1>1, PTL

=============================================================================
