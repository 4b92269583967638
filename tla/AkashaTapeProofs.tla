-------------------------- MODULE AkashaTapeProofs --------------------------
(* Proofs about AkashaTape: nothing durable claims more than is durable, for  *)
(* any number of workers, any range, and any crash, lost lease or cut flush.  *)
EXTENDS AkashaTape, FiniteSums, TLAPS

-----------------------------------------------------------------------------
(* Statements                                                              *)

Ops == {"header", "event", "coverage", "tail"} \X Int

\* A statement about a block, a block's coverage coming after its header and its
\* events.
Fits(q, i) ==
    /\ q[i][1] # "tail"
    /\ q[i][1] = "coverage" =>
          \E j, k \in 1..i - 1 : q[j] = <<"header", q[i][2]>> /\ q[k] = <<"event", q[i][2]>>

\* q agrees with ops, which it prolongs.
Prolongs(q, ops) ==
    /\ q \in Seq(Ops) /\ ops \in Seq(Ops)
    /\ Len(ops) <= Len(q)
    /\ \A i \in 1..Len(ops) : q[i] = ops[i]

Extends(q, ops) == Prolongs(q, ops) /\ \A i \in Len(ops) + 1..Len(q) : Fits(q, i)

Says(q, kind, h) == \E i \in 1..Len(q) : q[i] = <<kind, h>>

LEMMA ExtendsItself ==
    ASSUME NEW ops \in Seq(Ops)
    PROVE  Extends(ops, ops)
  BY DEF Extends, Prolongs

LEMMA ConcatFacts ==
    ASSUME NEW S, NEW a \in Seq(S), NEW b \in Seq(S)
    PROVE  /\ a \o b \in Seq(S) /\ Len(a \o b) = Len(a) + Len(b)
           /\ Len(a) \in Nat /\ Len(b) \in Nat
           /\ \A i \in 1..Len(a) : (a \o b)[i] = a[i]
           /\ \A i \in 1..Len(b) : (a \o b)[Len(a) + i] = b[i]
  OBVIOUS

LEMMA FitsStill ==
    ASSUME NEW q, NEW r, Prolongs(r, q), NEW i \in 1..Len(q), Fits(q, i)
    PROVE  Fits(r, i)
<1>1. r[i] = q[i] /\ \A j \in 1..i - 1 : r[j] = q[j]
  BY DEF Prolongs
<1> QED
  BY <1>1 DEF Fits

LEMMA SaysStill ==
    ASSUME NEW q, NEW r, Prolongs(r, q), NEW kind, NEW h, Says(q, kind, h)
    PROVE  Says(r, kind, h)
<1>1. PICK i \in 1..Len(q) : q[i] = <<kind, h>>
  BY DEF Says
<1>2. i \in 1..Len(r) /\ r[i] = q[i]
  BY DEF Prolongs
<1> QED
  BY <1>1, <1>2 DEF Says

\* An extension extended by fitting statements is one.
LEMMA ExtendsOn ==
    ASSUME NEW ops, NEW q, NEW r, Extends(q, ops), Prolongs(r, q),
           \A i \in Len(q) + 1..Len(r) : Fits(r, i)
    PROVE  Extends(r, ops)
<1>1. Len(ops) \in Nat /\ Len(q) \in Nat /\ Len(r) \in Nat
  BY DEF Extends, Prolongs
<1>2. Prolongs(r, ops)
  BY <1>1 DEF Extends, Prolongs
<1>3. ASSUME NEW i \in Len(ops) + 1..Len(r) PROVE Fits(r, i)
  <2>1. CASE i \in 1..Len(q)
    <3>1. Fits(q, i)
      BY <1>1, <2>1 DEF Extends
    <3> QED
      BY <2>1, <3>1, FitsStill
  <2>2. CASE i \notin 1..Len(q)
    BY <1>1, <2>2
  <2> QED
    BY <2>1, <2>2
<1> QED
  BY <1>2, <1>3 DEF Extends

LEMMA WholeBlock ==
    ASSUME NEW q \in Seq(Ops), NEW h \in Int, NEW block \in Seq(Ops), Len(block) = 3,
           block[1] = <<"header", h>>, block[2] = <<"event", h>>,
           block[3] = <<"coverage", h>>
    PROVE  /\ Prolongs(q \o block, q)
           /\ \A i \in Len(q) + 1..Len(q \o block) : Fits(q \o block, i)
           /\ Says(q \o block, "coverage", h)
<1> DEFINE n == Len(q)
           r == q \o block
<1>1. /\ n \in Nat /\ r \in Seq(Ops) /\ Len(r) = n + 3
      /\ \A i \in 1..n : r[i] = q[i]
      /\ \A i \in 1..3 : r[n + i] = block[i]
  BY ConcatFacts
<1> HIDE DEF r
<1>2. /\ r[n + 1] = <<"header", h>> /\ r[n + 2] = <<"event", h>>
      /\ r[n + 3] = <<"coverage", h>>
  BY <1>1
<1> HIDE DEF n
<1>3. /\ Fits(r, n + 1) /\ Fits(r, n + 2)
  BY <1>2 DEF Fits
<1>4. ASSUME NEW i, i = n + 3 PROVE Fits(r, i)
  <2>1. n + 1 \in 1..i - 1 /\ n + 2 \in 1..i - 1
    BY <1>1, <1>4
  <2>2. r[i] = <<"coverage", h>>
    BY <1>2, <1>4
  <2>3. r[i][1] = "coverage" /\ r[i][2] = h
    BY <2>2
  <2>4. \E j, k \in 1..i - 1 : r[j] = <<"header", h>> /\ r[k] = <<"event", h>>
    BY <1>2, <2>1
  <2> QED
    BY <2>3, <2>4 DEF Fits
<1>5. \A i \in n + 1..n + 3 : i = n + 1 \/ i = n + 2 \/ i = n + 3
  BY <1>1
<1>6. Says(r, "coverage", h)
  <2>1. n + 3 \in 1..Len(r)
    BY <1>1
  <2> QED
    BY <1>2, <2>1 DEF Says
<1>7. Prolongs(r, q)
  BY <1>1 DEF Prolongs, n
<1> QED
  BY <1>1, <1>3, <1>4, <1>5, <1>6, <1>7 DEF r, n

LEMMA HeaderOnly ==
    ASSUME NEW q \in Seq(Ops), NEW h \in Int, NEW block \in Seq(Ops), Len(block) = 1,
           block[1] = <<"header", h>>
    PROVE  /\ Prolongs(q \o block, q)
           /\ \A i \in Len(q) + 1..Len(q \o block) : Fits(q \o block, i)
<1> DEFINE n == Len(q)
           r == q \o block
<1>1. /\ n \in Nat /\ r \in Seq(Ops) /\ Len(r) = n + 1
      /\ \A i \in 1..n : r[i] = q[i]
      /\ \A i \in 1..1 : r[n + i] = block[i]
  BY ConcatFacts
<1> HIDE DEF r
<1>2. r[n + 1] = <<"header", h>>
  BY <1>1
<1> HIDE DEF n
<1>3. Fits(r, n + 1) /\ \A i \in n + 1..n + 1 : i = n + 1
  BY <1>1, <1>2 DEF Fits
<1>4. Prolongs(r, q)
  BY <1>1 DEF Prolongs, n
<1> QED
  BY <1>1, <1>3, <1>4 DEF r, n

\* The statements for one more block extend the queue.
LEMMA BlockExtends ==
    ASSUME NEW ops, NEW q, Extends(q, ops), NEW h \in Int, NEW read, NEW whole
    PROVE  /\ Extends(q \o Statements(h, read, whole), ops)
           /\ Prolongs(q \o Statements(h, read, whole), q)
           /\ h \in whole => Says(q \o Statements(h, read, whole), "coverage", h)
<1> DEFINE block == Statements(h, read, whole)
<1>1. q \in Seq(Ops)
  BY DEF Extends, Prolongs
<1>2. CASE h \in whole
  <2>1. /\ block \in Seq(Ops) /\ Len(block) = 3
        /\ block[1] = <<"header", h>> /\ block[2] = <<"event", h>>
        /\ block[3] = <<"coverage", h>>
    BY <1>2 DEF Statements, Order, Ops
  <2> HIDE DEF block
  <2>2. /\ Prolongs(q \o block, q) /\ Says(q \o block, "coverage", h)
        /\ \A i \in Len(q) + 1..Len(q \o block) : Fits(q \o block, i)
    BY <1>1, <2>1, WholeBlock
  <2>3. Extends(q \o block, ops)
    BY <2>2, ExtendsOn
  <2> QED
    BY <2>2, <2>3 DEF block
<1>3. CASE h \notin whole /\ h \in read
  <2>1. block = << <<"header", h>> >> /\ <<"header", h>> \in Ops
    BY <1>3 DEF Statements, Ops
  <2>2. block \in Seq(Ops) /\ Len(block) = 1 /\ block[1] = <<"header", h>>
    <3> HIDE DEF block
    <3> QED
      BY <2>1
  <2> HIDE DEF block
  <2>3. /\ Prolongs(q \o block, q)
        /\ \A i \in Len(q) + 1..Len(q \o block) : Fits(q \o block, i)
    BY <1>1, <2>2, HeaderOnly
  <2>4. Extends(q \o block, ops)
    BY <2>3, ExtendsOn
  <2> QED
    BY <1>3, <2>3, <2>4 DEF block
<1>4. CASE h \notin whole /\ h \notin read
  <2>1. q \o block = q
    BY <1>1, <1>4 DEF Statements
  <2>2. Prolongs(q, q)
    BY <1>1 DEF Prolongs
  <2> HIDE DEF block
  <2> QED
    BY <1>4, <2>1, <2>2 DEF block
<1> QED
  BY <1>2, <1>3, <1>4

-----------------------------------------------------------------------------
(* One walk                                                                *)

Blocks == 1..Lock - T0 + 1

Steps == [k \in Blocks |-> k]

\* FoldLeft as an equation over the sets of blocks done so far.
SolvesWalk(g, ops, read, whole) ==
    g = [s \in SUBSET DOMAIN Steps |->
            IF s = {} THEN ops
            ELSE g[s \ {Max(s)}] \o Statements(Lock + 1 - Steps[Max(s)], read, whole)]

LEMMA AppendedIs ==
    ASSUME NEW ops, NEW read, NEW whole
    PROVE  Appended(ops, read, whole)
             = (CHOOSE g : SolvesWalk(g, ops, read, whole))[DOMAIN Steps]
  BY DEF Appended, FoldLeft, MapThenFoldSet, SolvesWalk, Steps, Blocks

LEMMA BlocksFacts ==
    /\ IsFiniteSet(Blocks) /\ Blocks \in SUBSET Nat
    /\ \A k \in Blocks : Lock + 1 - k \in Int
    /\ \A s \in SUBSET Blocks : s # {} => Max(s) \in s
<1>1. IsFiniteSet(Blocks) /\ Blocks \in SUBSET Nat
  BY TapeAssumption, FS_Interval DEF Blocks
<1>2. \A s \in SUBSET Blocks : s # {} => Max(s) \in s
  BY <1>1, LargestExists DEF Max
<1> QED
  BY <1>1, <1>2, TapeAssumption

\* The walk, block after block, as a function of the blocks done.
WalkRuns(g, ops, read, whole) ==
    \A s \in SUBSET Blocks :
        /\ s = {} => g[s] = ops
        /\ s # {} => /\ Max(s) \in s
                     /\ g[s] = g[s \ {Max(s)}]
                                 \o Statements(Lock + 1 - Max(s), read, whole)

LEMMA WalkSteps ==
    ASSUME NEW ops \in Seq(Ops), NEW read, NEW whole
    PROVE  \E g : /\ Appended(ops, read, whole) = g[Blocks]
                  /\ WalkRuns(g, ops, read, whole)
<1> DEFINE V == {q \in Seq(Ops) : Extends(q, ops)}
           Next1(k, q) == q \o Statements(Lock + 1 - k, read, whole)
           step == [k \in Blocks |-> [q \in V |-> Next1(k, q)]]
           pick == [s \in SUBSET Blocks |-> Max(s)]
           G == CHOOSE g : SolvesWalk(g, ops, read, whole)
<1>1. ops \in V
  BY ExtendsItself
<1>2. step \in [Blocks -> [V -> V]]
  <2>1. ASSUME NEW k \in Blocks, NEW q \in V PROVE Next1(k, q) \in V
    <3>1. Extends(Next1(k, q), ops)
      BY BlocksFacts, BlockExtends
    <3> QED
      BY <3>1 DEF Extends, Prolongs
  <2> HIDE DEF V, Next1
  <2> QED
    BY <2>1
<1>3. Picks(pick, Blocks)
  BY BlocksFacts DEF Picks
<1>4. DOMAIN Steps = Blocks /\ \A k \in Blocks : Steps[k] = k
  BY DEF Steps
<1>5. \E g : SolvesWalk(g, ops, read, whole)
  <2>1. PICK g \in [SUBSET Blocks -> V] : SolvesFold(g, Blocks, ops, step, pick)
    <3>1. IsFiniteSet(Blocks)
      BY BlocksFacts
    <3> HIDE DEF V, step, pick
    <3> QED
      BY <1>1, <1>2, <1>3, <3>1, FoldExists
  <2>2. ASSUME NEW s \in SUBSET Blocks
        PROVE  g[s] = IF s = {} THEN ops
                      ELSE g[s \ {Max(s)}] \o Statements(Lock + 1 - Steps[Max(s)], read, whole)
    <3>1. g[s] = IF s = {} THEN ops ELSE step[pick[s]][g[s \ {pick[s]}]]
      BY <2>1 DEF SolvesFold
    <3>2. CASE s # {}
      <4>1. Max(s) \in Blocks /\ pick[s] = Max(s) /\ g[s \ {Max(s)}] \in V
        BY <3>2, BlocksFacts
      <4>2. step[Max(s)][g[s \ {Max(s)}]] = Next1(Max(s), g[s \ {Max(s)}])
        <5> HIDE DEF V, Next1
        <5> QED
          BY <4>1
      <4> HIDE DEF step, pick
      <4> QED
        BY <1>4, <3>1, <3>2, <4>1, <4>2
    <3> QED
      BY <3>1, <3>2
  <2>3. g = [s \in SUBSET Blocks |->
               IF s = {} THEN ops
               ELSE g[s \ {Max(s)}] \o Statements(Lock + 1 - Steps[Max(s)], read, whole)]
    <3> HIDE DEF V
    <3> QED
      BY <2>1, <2>2
  <2> QED
    BY <1>4, <2>3 DEF SolvesWalk
<1>6. SolvesWalk(G, ops, read, whole)
  BY <1>5
<1>7. Appended(ops, read, whole) = G[Blocks]
  BY <1>4, AppendedIs
<1> HIDE DEF G
<1>8. ASSUME NEW s \in SUBSET Blocks
      PROVE  /\ s = {} => G[s] = ops
             /\ s # {} => /\ Max(s) \in s
                          /\ G[s] = G[s \ {Max(s)}]
                                      \o Statements(Lock + 1 - Max(s), read, whole)
  <2>1. G[s] = IF s = {} THEN ops
               ELSE G[s \ {Max(s)}] \o Statements(Lock + 1 - Steps[Max(s)], read, whole)
    BY <1>4, <1>6 DEF SolvesWalk
  <2>2. s # {} => Max(s) \in s /\ Steps[Max(s)] = Max(s)
    BY <1>4, BlocksFacts
  <2> QED
    BY <2>1, <2>2
<1> QED
  BY <1>7, <1>8 DEF WalkRuns

\* What a walk appends: fitting statements only, and the coverage of every block that
\* was read in full.
LEMMA WalkExtends ==
    ASSUME NEW ops \in Seq(Ops), NEW read, NEW whole
    PROVE  /\ Extends(Appended(ops, read, whole), ops)
           /\ \A h \in Heights : h \in whole => Says(Appended(ops, read, whole), "coverage", h)
<1>1. PICK g : Appended(ops, read, whole) = g[Blocks] /\ WalkRuns(g, ops, read, whole)
  BY WalkSteps
<1> DEFINE Done(s) ==
              /\ Extends(g[s], ops)
              /\ \A k \in s : Lock + 1 - k \in whole => Says(g[s], "coverage", Lock + 1 - k)
           P == {s \in SUBSET Blocks : Done(s)}
<1>2. ASSUME NEW s \in SUBSET Blocks, \A t \in SUBSET s : t # s => t \in P
      PROVE  s \in P
  <2>1. CASE s = {}
    <3>1. g[s] = ops
      BY <1>1, <2>1 DEF WalkRuns
    <3> QED
      BY <2>1, <3>1, ExtendsItself
  <2>2. CASE s # {}
    <3> DEFINE m == Max(s)
               t == s \ {m}
               q == g[t]
               h == Lock + 1 - m
    <3>1. m \in s /\ m \in Blocks /\ g[s] = q \o Statements(h, read, whole) /\ h \in Int
      BY <1>1, <2>2, BlocksFacts DEF WalkRuns
    <3> HIDE DEF m
    <3>2. t \in P
      BY <1>2, <3>1
    <3>3. Done(t)
      BY <3>2
    <3>4. /\ Extends(g[s], ops) /\ Prolongs(g[s], q)
          /\ h \in whole => Says(g[s], "coverage", h)
      <4> HIDE DEF q, h
      <4>1. Extends(q, ops)
        BY <3>3 DEF q
      <4> QED
        BY <3>1, <4>1, BlockExtends
    <3>5. ASSUME NEW k \in s, Lock + 1 - k \in whole PROVE Says(g[s], "coverage", Lock + 1 - k)
      <4>1. CASE k = m
        BY <3>4, <3>5, <4>1
      <4>2. CASE k # m
        <5>1. Says(q, "coverage", Lock + 1 - k)
          BY <3>3, <3>5, <4>2
        <5> QED
          BY <3>4, <5>1, SaysStill
      <4> QED
        BY <4>1, <4>2
    <3> QED
      BY <3>4, <3>5
  <2> QED
    BY <2>1, <2>2
<1> HIDE DEF P
<1>3. \A s \in SUBSET Blocks : s \in P
  BY <1>2, BlocksFacts, SubsetInduction
<1>4. Done(Blocks)
  BY <1>3 DEF P
<1>5. ASSUME NEW h \in Heights, h \in whole
      PROVE  Says(Appended(ops, read, whole), "coverage", h)
  <2>1. Lock + 1 - h \in Blocks /\ Lock + 1 - (Lock + 1 - h) = h
    BY TapeAssumption DEF Heights, Blocks
  <2> QED
    BY <1>1, <1>4, <1>5, <2>1
<1> QED
  BY <1>1, <1>4, <1>5

-----------------------------------------------------------------------------
(* The invariant                                                           *)

\* The heights whose header, events, coverage are durable or were refused.
Hdr == Settled("header", headers)
Evt == Settled("event", events)
Cvd == Settled("coverage", covered)

\* A coverage statement waits behind the header and the events of its block, unless
\* they are settled.
Covers(q, i) ==
    (q[i][1] = "coverage" /\ q[i][2] \in Heights) =>
        /\ \/ q[i][2] \in Hdr
           \/ \E j \in 1..i - 1 : q[j] = <<"header", q[i][2]>>
        /\ \/ q[i][2] \in Evt
           \/ \E j \in 1..i - 1 : q[j] = <<"event", q[i][2]>>

\* A move of the tail waits behind the coverage of every block it claims, unless that
\* is settled.
Moves(q, i) ==
    q[i][1] = "tail" =>
        /\ q[i][2] \in Heights
        /\ \A h \in q[i][2]..Lock - 1 :
              h \in Cvd \/ \E j \in 1..i - 1 : q[j] = <<"coverage", h>>

QueueOK(q) == q \in Seq(Ops) /\ \A i \in 1..Len(q) : Covers(q, i) /\ Moves(q, i)

\* What a tail claims is settled or waiting in q.
Claims1(t, q) ==
    t \in Heights /\ \A h \in t..Lock - 1 : h \in Cvd \/ Says(q, "coverage", h)

Record(m) ==
    m = [pc |-> m.pc, hdr |-> m.hdr, cov |-> m.cov, tail |-> m.tail,
         pending |-> m.pending, claimed |-> m.claimed]

WorkerOK(m) == Record(m) /\ QueueOK(m.pending) /\ Claims1(m.tail, m.pending)

DurableOK == tail \in Heights /\ CoverageBacked /\ TailHonest

TapeInv ==
    /\ DurableOK
    /\ worker = [w \in Workers |-> worker[w]]
    /\ \A w \in Workers : WorkerOK(worker[w])

LEMMA SettledSame ==
    ASSUME UNCHANGED <<headers, events, covered, poisoned>>
    PROVE  UNCHANGED <<Hdr, Evt, Cvd>>
  BY DEF Hdr, Evt, Cvd, Settled

LEMMA HeightsFacts ==
    /\ Heights \subseteq Nat /\ T0 \in Heights /\ Lock \in Heights
    /\ \A t \in Heights : t..Lock - 1 \subseteq Heights
  BY TapeAssumption DEF Heights

\* A walk's statements are fit to wait.
LEMMA QueueExtended ==
    ASSUME NEW ops, NEW q, QueueOK(ops), Extends(q, ops)
    PROVE  QueueOK(q)
<1>1. /\ q \in Seq(Ops) /\ Len(ops) \in Nat /\ Len(q) \in Nat /\ Len(ops) <= Len(q)
      /\ \A i \in 1..Len(ops) : q[i] = ops[i]
      /\ \A i \in Len(ops) + 1..Len(q) : Fits(q, i)
  BY DEF Extends, Prolongs
<1>2. ASSUME NEW i \in 1..Len(q) PROVE Covers(q, i) /\ Moves(q, i)
  <2>1. CASE i \in 1..Len(ops)
    <3>1. Covers(ops, i) /\ Moves(ops, i)
      BY <2>1 DEF QueueOK
    <3>2. q[i] = ops[i] /\ \A j \in 1..i - 1 : q[j] = ops[j]
      BY <1>1, <2>1
    <3>3. Covers(q, i)
      BY <3>1, <3>2 DEF Covers
    <3>4. Moves(q, i)
      BY <3>1, <3>2 DEF Moves
    <3> QED
      BY <3>3, <3>4
  <2>2. CASE i \notin 1..Len(ops)
    <3>1. Fits(q, i)
      BY <1>1, <2>2
    <3> QED
      BY <3>1 DEF Fits, Covers, Moves
  <2> QED
    BY <2>1, <2>2
<1> QED
  BY <1>1, <1>2 DEF QueueOK

LEMMA ClaimExtended ==
    ASSUME NEW t, NEW ops, NEW q, Claims1(t, ops), Prolongs(q, ops)
    PROVE  Claims1(t, q)
  BY SaysStill DEF Claims1

\* And so is a move of the tail to what the statements before it claim.
LEMMA QueueMoved ==
    ASSUME NEW q, NEW t, QueueOK(q), Claims1(t, q)
    PROVE  /\ QueueOK(Append(q, <<"tail", t>>))
           /\ Claims1(t, Append(q, <<"tail", t>>))
<1> DEFINE r == Append(q, <<"tail", t>>)
           n == Len(q)
<1>1. t \in Int /\ q \in Seq(Ops)
  BY HeightsFacts DEF Claims1, QueueOK
<1>2. <<"tail", t>> \in Ops
  BY <1>1 DEF Ops
<1>3. /\ r \in Seq(Ops) /\ n \in Nat /\ Len(r) = n + 1 /\ r[n + 1] = <<"tail", t>>
      /\ \A i \in 1..n : r[i] = q[i]
  BY <1>1, <1>2
<1> HIDE DEF r
<1>4. Prolongs(r, q)
  BY <1>1, <1>3 DEF Prolongs
<1>5. ASSUME NEW i \in 1..n PROVE Covers(r, i) /\ Moves(r, i)
  <2>1. Covers(q, i) /\ Moves(q, i)
    BY DEF QueueOK
  <2>2. r[i] = q[i] /\ \A j \in 1..i - 1 : r[j] = q[j]
    BY <1>3
  <2>3. Covers(r, i)
    BY <2>1, <2>2 DEF Covers
  <2>4. Moves(r, i)
    BY <2>1, <2>2 DEF Moves
  <2> QED
    BY <2>3, <2>4
<1>6. ASSUME NEW i, i = n + 1 PROVE Covers(r, i) /\ Moves(r, i)
  <2>1. r[i][1] = "tail" /\ r[i][2] = t
    BY <1>3, <1>6
  <2>2. ASSUME NEW h \in t..Lock - 1, h \notin Cvd
        PROVE  \E j \in 1..i - 1 : r[j] = <<"coverage", h>>
    <3>1. PICK j \in 1..n : q[j] = <<"coverage", h>>
      BY <2>2 DEF Claims1, Says
    <3>2. j \in 1..i - 1 /\ r[j] = <<"coverage", h>>
      BY <1>3, <1>6, <3>1
    <3> QED
      BY <3>2
  <2>3. Moves(r, i)
    BY <2>1, <2>2 DEF Moves, Claims1
  <2> QED
    BY <2>1, <2>3 DEF Covers
<1>7. \A i \in 1..Len(r) : Covers(r, i) /\ Moves(r, i)
  <2>1. \A i \in 1..n + 1 : i \in 1..n \/ i = n + 1
    BY <1>3
  <2> QED
    BY <1>3, <1>5, <1>6, <2>1
<1>8. Claims1(t, r)
  BY <1>4, ClaimExtended
<1> QED
  BY <1>3, <1>7, <1>8 DEF QueueOK, r

-----------------------------------------------------------------------------
(* The steps of a worker in its memory                                     *)

LEMMA LocalStep ==
    ASSUME TapeInv, UNCHANGED durable, NEW w \in Workers, NEW m, WorkerOK(m),
           worker' = [worker EXCEPT ![w] = m]
    PROVE  TapeInv'
<1>1. UNCHANGED <<covered, tail, Hdr, Evt, Cvd>>
  BY SettledSame DEF durable
<1>2. DurableOK'
  BY <1>1 DEF TapeInv, DurableOK, CoverageBacked, TailHonest, Hdr, Evt, Cvd
<1>3. /\ worker' = [v \in Workers |-> worker'[v]]
      /\ worker'[w] = m /\ \A v \in Workers : v # w => worker'[v] = worker[v]
  BY DEF TapeInv
<1>4. ASSUME NEW v \in Workers PROVE WorkerOK(worker[v])'
  <2>1. WorkerOK(worker'[v])
    BY <1>3 DEF TapeInv
  <2> QED
    BY <1>1, <2>1 DEF WorkerOK, Record, QueueOK, Covers, Moves, Claims1
<1> QED
  BY <1>2, <1>3, <1>4 DEF TapeInv

\* Only what it read, what waits and its tail matter of a worker.
LEMMA Retold ==
    ASSUME NEW m, WorkerOK(m), NEW pc, NEW claimed
    PROVE  /\ WorkerOK([m EXCEPT !.pc = pc])
           /\ WorkerOK([m EXCEPT !.pc = pc, !.claimed = claimed])
           /\ WorkerOK([m EXCEPT !.claimed = claimed, !.pc = pc])
<1> DEFINE r1 == [m EXCEPT !.pc = pc]
           r2 == [m EXCEPT !.pc = pc, !.claimed = claimed]
           r3 == [m EXCEPT !.claimed = claimed, !.pc = pc]
<1>1. \A r \in {r1, r2, r3} :
        Record(r) /\ r.pending = m.pending /\ r.tail = m.tail
  <2>1. m = [pc |-> m.pc, hdr |-> m.hdr, cov |-> m.cov, tail |-> m.tail,
             pending |-> m.pending, claimed |-> m.claimed]
    BY DEF WorkerOK, Record
  <2>2. r1 = [pc |-> pc, hdr |-> m.hdr, cov |-> m.cov, tail |-> m.tail,
              pending |-> m.pending, claimed |-> m.claimed]
    BY <2>1
  <2>3. r2 = [pc |-> pc, hdr |-> m.hdr, cov |-> m.cov, tail |-> m.tail,
              pending |-> m.pending, claimed |-> claimed]
    <3>1. r2 = [r1 EXCEPT !.claimed = claimed] /\ r3 = r2
      BY <2>1
    <3> HIDE DEF r1, r2
    <3> QED
      BY <2>2, <3>1
  <2>4. r3 = r2
    BY <2>1
  <2> HIDE DEF r1, r2, r3
  <2> QED
    BY <2>2, <2>3, <2>4 DEF Record
<1> HIDE DEF r1, r2, r3
<1>2. WorkerOK(r1) /\ WorkerOK(r2) /\ WorkerOK(r3)
  BY <1>1 DEF WorkerOK
<1> QED
  BY <1>2 DEF r1, r2, r3

LEMMA EmptyQueue == QueueOK(<<>>)
  BY DEF QueueOK

LEMMA LoadOK ==
    ASSUME TapeInv, NEW limit
    PROVE  WorkerOK(load(limit))
<1>1. Claims1(tail, <<>>)
  BY DEF TapeInv, DurableOK, TailHonest, Claims1, Cvd
<1>2. Record(load(limit)) /\ load(limit).tail = tail /\ load(limit).pending = <<>>
  BY DEF load, Record
<1> QED
  BY <1>1, <1>2, EmptyQueue DEF WorkerOK

LEMMA DownOK == WorkerOK(Down)
<1>1. Claims1(Lock, <<>>)
  BY HeightsFacts, TapeAssumption DEF Claims1, Heights
<1>2. Record(Down) /\ Down.tail = Lock /\ Down.pending = <<>>
  BY DEF Down, Record
<1> QED
  BY <1>1, <1>2, EmptyQueue DEF WorkerOK

\* A worker that walked has what it read waiting, and claims no more than before.
LEMMA IngestedOK ==
    ASSUME NEW m, WorkerOK(m), NEW read, NEW whole
    PROVE  /\ WorkerOK(Ingested(m, read, whole))
           /\ Ingested(m, read, whole).tail = m.tail
           /\ \A h \in Heights : h \in whole =>
                 Says(Ingested(m, read, whole).pending, "coverage", h)
<1> DEFINE q == Appended(m.pending, read, whole)
           r == Ingested(m, read, whole)
<1>1. Record(r) /\ r.pending = q /\ r.tail = m.tail
  <2> HIDE DEF q
  <2>1. r = [m EXCEPT !.hdr = @ \cup read, !.cov = @ \cup whole, !.pending = q]
    BY DEF Ingested, q
  <2> HIDE DEF r
  <2> QED
    BY <2>1 DEF WorkerOK, Record
<1> HIDE DEF r
<1>2. m.pending \in Seq(Ops) /\ QueueOK(m.pending) /\ Claims1(m.tail, m.pending)
  BY DEF WorkerOK, QueueOK
<1>3. /\ Extends(q, m.pending)
      /\ \A h \in Heights : h \in whole => Says(q, "coverage", h)
  <2> HIDE DEF q
  <2> QED
    BY <1>2, WalkExtends DEF q
<1>4. QueueOK(q) /\ Claims1(m.tail, q)
  <2> HIDE DEF q
  <2> QED
    BY <1>2, <1>3, QueueExtended, ClaimExtended DEF Extends
<1> QED
  BY <1>1, <1>3, <1>4 DEF WorkerOK, r

LEMMA BootOK ==
    ASSUME TapeInv, NEW w \in Workers, Boot(w)
    PROVE  TapeInv'
<1>1. PICK limit : worker' = [worker EXCEPT ![w] = load(limit)]
  BY DEF Boot
<1> DEFINE m == load(limit)
<1>2. WorkerOK(m) /\ worker' = [worker EXCEPT ![w] = m] /\ UNCHANGED durable
  BY <1>1, LoadOK DEF Boot, durable
<1> HIDE DEF m
<1> QED
  BY <1>2, LocalStep

LEMMA PlanOK ==
    ASSUME TapeInv, NEW w \in Workers, Plan(w)
    PROVE  TapeInv'
<1> DEFINE m == [worker[w] EXCEPT !.pc = "claim"]
<1>1. WorkerOK(m)
  BY Retold DEF TapeInv
<1>2. worker' = [worker EXCEPT ![w] = m] /\ UNCHANGED durable
  BY DEF Plan, durable
<1> HIDE DEF m
<1> QED
  BY <1>1, <1>2, LocalStep

LEMMA ClaimOK ==
    ASSUME TapeInv, NEW w \in Workers, claimShards(w)
    PROVE  TapeInv'
<1>1. PICK pc, claimed :
        worker' = [worker EXCEPT ![w].pc = pc, ![w].claimed = claimed]
  BY DEF claimShards
<1> DEFINE m == [worker[w] EXCEPT !.pc = pc, !.claimed = claimed]
<1>2. WorkerOK(m)
  BY Retold DEF TapeInv
<1>3. worker' = [worker EXCEPT ![w] = m] /\ UNCHANGED durable
  BY <1>1 DEF claimShards, durable, TapeInv
<1> HIDE DEF m
<1> QED
  BY <1>2, <1>3, LocalStep

LEMMA ShardTickFailsOK ==
    ASSUME TapeInv, NEW w \in Workers, ShardTickFails(w)
    PROVE  TapeInv'
<1> DEFINE m == [worker[w] EXCEPT !.pc = "backfill", !.claimed = <<>>]
<1>1. WorkerOK(m)
  BY Retold DEF TapeInv
<1>2. worker' = [worker EXCEPT ![w] = m] /\ UNCHANGED durable
  BY DEF ShardTickFails, durable, TapeInv
<1> HIDE DEF m
<1> QED
  BY <1>1, <1>2, LocalStep

LEMMA GrownOK ==
    ASSUME Hdr \subseteq Hdr', Evt \subseteq Evt', Cvd \subseteq Cvd',
           NEW q, QueueOK(q), NEW t, Claims1(t, q)
    PROVE  QueueOK(q)' /\ Claims1(t, q)'
<1>1. ASSUME NEW i \in 1..Len(q) PROVE Covers(q, i)' /\ Moves(q, i)'
  <2>1. Covers(q, i) /\ Moves(q, i)
    BY DEF QueueOK
  <2> QED
    BY <2>1 DEF Covers, Moves
<1> QED
  BY <1>1 DEF QueueOK, Claims1, Says

LEMMA Untouched ==
    ASSUME TapeInv, UNCHANGED durable, UNCHANGED worker
    PROVE  TapeInv'
<1>1. UNCHANGED <<covered, tail, worker, Hdr, Evt, Cvd>>
  BY SettledSame DEF durable
<1>2. DurableOK'
  BY <1>1 DEF TapeInv, DurableOK, CoverageBacked, TailHonest, Hdr, Evt, Cvd
<1>3. ASSUME NEW w \in Workers PROVE WorkerOK(worker[w])'
  <2>1. PICK p, u : p = worker[w].pending /\ u = worker[w].tail
    OBVIOUS
  <2>2. WorkerOK(worker[w]) /\ worker'[w] = worker[w]
    BY <1>1 DEF TapeInv
  <2>3. QueueOK(p)' /\ Claims1(u, p)'
    <3>1. QueueOK(p) /\ Claims1(u, p)
      BY <2>1, <2>2 DEF WorkerOK
    <3> QED
      BY <1>1, <3>1, GrownOK
  <2>4. worker'[w].pending = p /\ worker'[w].tail = u /\ Record(worker'[w])
    BY <2>1, <2>2 DEF WorkerOK, Record
  <2> QED
    BY ONLY <2>3, <2>4 DEF WorkerOK, Record, QueueOK, Covers, Moves, Claims1
<1>4. worker' = [w \in Workers |-> worker'[w]]
  BY <1>1 DEF TapeInv
<1> QED
  BY <1>2, <1>3, <1>4 DEF TapeInv

LEMMA LeaseExpiresOK ==
    ASSUME TapeInv, NEW i, LeaseExpires(i)
    PROVE  TapeInv'
<1>1. UNCHANGED durable /\ UNCHANGED worker
  BY DEF LeaseExpires
<1> QED
  BY <1>1, Untouched

LEMMA WalkShardOK ==
    ASSUME TapeInv, NEW w \in Workers, WalkShard(w)
    PROVE  TapeInv'
<1>1. PICK s, rw, end, rest :
        worker' = [worker EXCEPT ![w] =
            [Ingested(@, rw[1], rw[2]) EXCEPT
                !.claimed = rest, !.pc = IF rest = <<>> THEN "backfill" ELSE "walk"]]
  BY Zenon DEF WalkShard
<1> DEFINE read == rw[1]
           whole == rw[2]
           pc == IF rest = <<>> THEN "backfill" ELSE "walk"
<1> DEFINE m == [Ingested(worker[w], read, whole) EXCEPT !.claimed = rest, !.pc = pc]
<1>2. WorkerOK(worker[w])
  BY DEF TapeInv
<1>3. WorkerOK(Ingested(worker[w], read, whole))
  BY <1>2, IngestedOK
<1>4. WorkerOK(m)
  BY <1>3, Retold
<1>5. UNCHANGED durable
  BY DEF WalkShard
<1> QED
  BY <1>1, <1>4, <1>5, LocalStep

\* The unbroken run of heights read in full down from to has a lowest one.
LEMMA ReachedFacts ==
    ASSUME NEW to \in Nat, T0 <= to, NEW whole \in SUBSET (T0..to)
    PROVE  Reached(to, whole) \in T0..to + 1 /\ Reached(to, whole)..to \subseteq whole
<1> DEFINE Depths == 0..to + 1 - T0
           B == {k \in Depths : to + 1 - k..to \subseteq whole}
<1>1. IsFiniteSet(Depths) /\ Depths \in SUBSET Nat /\ 0 \in Depths
  BY TapeAssumption, FS_Interval
<1>2. 0 \in B
  BY <1>1
<1>3. PICK k \in B : \A j \in B : k >= j
  <2> HIDE DEF Depths
  <2>1. B \in SUBSET Depths /\ B # {}
    BY <1>2
  <2> HIDE DEF B
  <2> QED
    BY <1>1, <2>1, LargestExists
<1>4. k \in Nat /\ k <= to + 1 - T0 /\ to + 1 - k..to \subseteq whole
  BY <1>1, <1>3
<1>5. to + 1 - k - 1 \notin whole
  <2> SUFFICES ASSUME to - k \in whole PROVE FALSE
    BY <1>4
  <2>1. to - k >= T0 /\ k + 1 \in Depths
    BY <1>4, TapeAssumption
  <2>2. \A h \in to + 1 - (k + 1)..to : h = to - k \/ h \in to + 1 - k..to
    BY <1>4, TapeAssumption
  <2>3. k + 1 \in B
    BY <1>4, <2>1, <2>2
  <2> QED
    BY <1>3, <1>4, <2>3
<1>6. \E h \in T0..to + 1 : h..to \subseteq whole /\ h - 1 \notin whole
  <2>1. to + 1 - k \in T0..to + 1
    BY <1>4, TapeAssumption
  <2> QED
    BY <1>4, <1>5, <2>1
<1> QED
  BY <1>6 DEF Reached

\* A worker that read an epoch may say how far down it got.
LEMMA EpochOK ==
    ASSUME NEW m, WorkerOK(m), m.tail > T0,
           NEW read, NEW whole \in SUBSET (T0..m.tail - 1),
           NEW lowest, lowest = Reached(m.tail - 1, whole), lowest < m.tail
    PROVE  WorkerOK([Ingested(m, read, whole) EXCEPT
                        !.tail = lowest, !.pending = Append(@, <<"tail", lowest>>),
                        !.pc = "again"])
<1> DEFINE r == Ingested(m, read, whole)
           q == r.pending
           s == [r EXCEPT !.tail = lowest, !.pending = Append(@, <<"tail", lowest>>),
                          !.pc = "again"]
<1>1. /\ WorkerOK(r) /\ r.tail = m.tail
      /\ \A h \in Heights : h \in whole => Says(q, "coverage", h)
  BY IngestedOK
<1>2. /\ m.tail \in Heights /\ m.tail - 1 \in Nat /\ T0 <= m.tail - 1 /\ m.tail <= Lock
  BY TapeAssumption DEF WorkerOK, Claims1, Heights
<1>3. lowest \in T0..m.tail /\ lowest..m.tail - 1 \subseteq whole
  <2> DEFINE to == m.tail - 1
  <2>1. to \in Nat /\ T0 <= to /\ whole \in SUBSET (T0..to) /\ to + 1 = m.tail
    BY <1>2, TapeAssumption DEF Heights
  <2>2. lowest = Reached(to, whole)
    OBVIOUS
  <2> HIDE DEF to
  <2>3. lowest \in T0..to + 1 /\ lowest..to \subseteq whole
    BY <2>1, <2>2, ReachedFacts
  <2> QED
    BY <2>1, <2>3 DEF to
<1> HIDE DEF r
<1>4. Claims1(lowest, q)
  <2>1. lowest \in Heights
    BY <1>2, <1>3, TapeAssumption DEF Heights
  <2>2. ASSUME NEW h \in lowest..Lock - 1 PROVE h \in Cvd \/ Says(q, "coverage", h)
    <3>1. CASE h < m.tail
      <4>1. h \in lowest..m.tail - 1 /\ h \in Heights
        BY <1>2, <1>3, <3>1, TapeAssumption DEF Heights
      <4> QED
        BY <1>1, <1>3, <4>1
    <3>2. CASE h >= m.tail
      <4>1. h \in m.tail..Lock - 1
        BY <1>2, <1>3, <3>2, TapeAssumption DEF Heights
      <4> QED
        BY <1>1, <4>1 DEF WorkerOK, Claims1
    <3> QED
      BY <1>2, <1>3, <3>1, <3>2, TapeAssumption DEF Heights
  <2> HIDE DEF q
  <2> QED
    BY <2>1, <2>2 DEF Claims1
<1>5. QueueOK(Append(q, <<"tail", lowest>>)) /\ Claims1(lowest, Append(q, <<"tail", lowest>>))
  <2>1. QueueOK(q)
    BY <1>1 DEF WorkerOK
  <2> HIDE DEF q
  <2> QED
    BY <1>4, <2>1, QueueMoved
<1>6. Record(s) /\ s.tail = lowest /\ s.pending = Append(q, <<"tail", lowest>>)
  <2> DEFINE n == Append(q, <<"tail", lowest>>)
  <2>1. r = [pc |-> r.pc, hdr |-> r.hdr, cov |-> r.cov, tail |-> r.tail,
             pending |-> r.pending, claimed |-> r.claimed]
    BY <1>1 DEF WorkerOK, Record
  <2> DEFINE r1 == [r EXCEPT !.tail = lowest]
             r2 == [r1 EXCEPT !.pending = n]
  <2>2. s = [r2 EXCEPT !.pc = "again"]
    BY <2>1
  <2> HIDE DEF n, s, r2
  <2>3. r1 = [pc |-> r.pc, hdr |-> r.hdr, cov |-> r.cov, tail |-> lowest,
              pending |-> r.pending, claimed |-> r.claimed]
    BY <2>1
  <2> HIDE DEF r1
  <2>4. r2 = [pc |-> r.pc, hdr |-> r.hdr, cov |-> r.cov, tail |-> lowest,
              pending |-> n, claimed |-> r.claimed]
    BY <2>3 DEF r2
  <2>5. s = [pc |-> "again", hdr |-> r.hdr, cov |-> r.cov, tail |-> lowest,
             pending |-> n, claimed |-> r.claimed]
    BY <2>2, <2>4
  <2> QED
    BY <2>5 DEF Record, n
<1> HIDE DEF s
<1>7. WorkerOK(s)
  BY <1>5, <1>6 DEF WorkerOK
<1> QED
  BY <1>7 DEF s, r

LEMMA BackfillOK ==
    ASSUME TapeInv, NEW w \in Workers, BackfillStep(w)
    PROVE  TapeInv'
<1> DEFINE Epoch == Higher(T0, worker[w].tail - Window)..worker[w].tail - 1
           Result(m, low, got) ==
              IF low < m.tail /\ m.tail \in m.hdr
              THEN [got EXCEPT !.tail = low, !.pending = Append(@, <<"tail", low>>),
                                !.pc = "again"]
              ELSE [got EXCEPT !.pc = "flush"]
<1>1. PICK m \in {worker[w]}, epoch \in {Epoch} :
        \E rw \in Readings(epoch) \cup {<<h..m.tail - 1, h..m.tail - 1>> : h \in epoch} :
        \E low \in {Reached(m.tail - 1, rw[2])} :
        \E got \in {Ingested(m, rw[1], rw[2])} :
            worker' = [worker EXCEPT ![w] = Result(m, low, got)]
  BY Zenon DEF BackfillStep
<1>2. PICK rw \in Readings(epoch) \cup {<<h..m.tail - 1, h..m.tail - 1>> : h \in epoch} :
        \E low \in {Reached(m.tail - 1, rw[2])}, got \in {Ingested(m, rw[1], rw[2])} :
            worker' = [worker EXCEPT ![w] = Result(m, low, got)]
  BY <1>1, Zenon
<1> DEFINE lowest == Reached(m.tail - 1, rw[2])
           read == Ingested(m, rw[1], rw[2])
           moved == [read EXCEPT !.tail = lowest, !.pending = Append(@, <<"tail", lowest>>),
                                 !.pc = "again"]
           stuck == [read EXCEPT !.pc = "flush"]
<1>3. WorkerOK(m) /\ m.tail > T0
  BY <1>1 DEF TapeInv, BackfillStep
<1>4. rw[2] \in SUBSET (T0..m.tail - 1)
  <2>1. epoch \subseteq T0..m.tail - 1
    BY <1>1, <1>3, TapeAssumption DEF Higher, WorkerOK, Claims1, Heights
  <2>2. CASE rw \in Readings(epoch)
    BY <2>1, <2>2 DEF Readings
  <2>3. CASE rw \notin Readings(epoch)
    <3>1. PICK h \in epoch : rw = <<h..m.tail - 1, h..m.tail - 1>>
      BY <1>2, <2>3
    <3>2. h \in Int /\ h >= T0
      BY <2>1, TapeAssumption
    <3> QED
      BY <3>1, <3>2, TapeAssumption
  <2> QED
    BY <2>2, <2>3
<1>5. WorkerOK(stuck)
  BY <1>3, IngestedOK, Retold
<1>6. lowest < m.tail => WorkerOK(moved)
  BY <1>3, <1>4, EpochOK
<1>7. UNCHANGED durable
  BY DEF BackfillStep
<1>8. CASE lowest < m.tail /\ m.tail \in m.hdr
  <2>1. worker' = [worker EXCEPT ![w] = moved] /\ WorkerOK(moved)
    BY <1>2, <1>6, <1>8
  <2> HIDE DEF moved
  <2> QED
    BY <1>7, <2>1, LocalStep
<1>9. CASE ~ (lowest < m.tail /\ m.tail \in m.hdr)
  <2>1. worker' = [worker EXCEPT ![w] = stuck]
    BY <1>2, <1>9
  <2> HIDE DEF stuck
  <2> QED
    BY <1>5, <1>7, <2>1, LocalStep
<1> QED
  BY <1>8, <1>9

-----------------------------------------------------------------------------
(* The flush                                                               *)

LEMMA CutFacts ==
    ASSUME NEW q \in Seq(Ops), NEW n \in 0..Len(q)
    PROVE  /\ SubSeq(q, 1, n) \in Seq(Ops) /\ Len(SubSeq(q, 1, n)) = n
           /\ \A i \in 1..n : SubSeq(q, 1, n)[i] = q[i]
           /\ SubSeq(q, n + 1, Len(q)) \in Seq(Ops)
           /\ Len(SubSeq(q, n + 1, Len(q))) = Len(q) - n
           /\ \A i \in 1..Len(q) - n : SubSeq(q, n + 1, Len(q))[i] = q[n + i]
  OBVIOUS

\* What the first n statements of q leave behind, some of them refused.
Written(q, n) ==
    /\ Hdr \subseteq Hdr' /\ Evt \subseteq Evt' /\ Cvd \subseteq Cvd'
    /\ \A h \in Heights :
          /\ (\E i \in 1..n : q[i] = <<"header", h>>) => h \in Hdr'
          /\ (\E i \in 1..n : q[i] = <<"event", h>>) => h \in Evt'
          /\ (\E i \in 1..n : q[i] = <<"coverage", h>>) => h \in Cvd'
    /\ \A h \in covered' :
          h \in covered \/ (h \in Heights /\ \E i \in 1..n : q[i] = <<"coverage", h>>)
    /\ \/ tail' = tail
       \/ \E i \in 1..n : q[i][1] = "tail" /\ tail' = q[i][2]

LEMMA DrainedFacts ==
    ASSUME NEW q \in Seq(Ops), NEW n \in 0..Len(q), NEW refused,
           Drained(SubSeq(q, 1, n), refused)
    PROVE  Written(q, n)
<1> DEFINE ops == SubSeq(q, 1, n)
           landed == DOMAIN ops \ refused
           more == {ops[i] : i \in refused}
<1>1. DOMAIN ops = 1..n /\ \A i \in 1..n : ops[i] = q[i]
  BY CutFacts
<1> HIDE DEF ops
<1>2. /\ headers' = headers \cup Rows(ops, landed, "header")
      /\ events' = events \cup Rows(ops, landed, "event")
      /\ covered' = covered \cup Rows(ops, landed, "coverage")
      /\ poisoned' = poisoned \cup more
  BY DEF Drained, ops
<1>3. tail' = tail \/ \E i \in landed : ops[i][1] = "tail" /\ tail' = ops[i][2]
  BY DEF Drained, ops
<1>4. tail' = tail \/ \E i \in 1..n : q[i][1] = "tail" /\ tail' = q[i][2]
  BY <1>1, <1>3
<1>5. ASSUME NEW h \in Heights, NEW i \in 1..n
      PROVE  /\ q[i] = <<"header", h>> => h \in headers' \/ <<"header", h>> \in poisoned'
             /\ q[i] = <<"event", h>> => h \in events' \/ <<"event", h>> \in poisoned'
             /\ q[i] = <<"coverage", h>> => h \in covered' \/ <<"coverage", h>> \in poisoned'
  <2>1. i \in DOMAIN ops /\ ops[i] = q[i]
    BY <1>1
  <2>2. CASE i \in refused
    <3>1. q[i] \in poisoned'
      BY <1>2, <2>1, <2>2
    <3> QED
      BY <3>1
  <2>3. CASE i \in landed
    <3>1. \A kind : q[i] = <<kind, h>> => h \in Rows(ops, landed, kind)
      <4> HIDE DEF landed
      <4> QED
        BY <2>1, <2>3 DEF Rows
    <3> QED
      BY <1>2, <3>1
  <2> QED
    BY <2>1, <2>2, <2>3
<1>6. \A h \in Heights :
          /\ (\E i \in 1..n : q[i] = <<"header", h>>) => h \in Hdr'
          /\ (\E i \in 1..n : q[i] = <<"event", h>>) => h \in Evt'
          /\ (\E i \in 1..n : q[i] = <<"coverage", h>>) => h \in Cvd'
  BY <1>5 DEF Hdr, Evt, Cvd, Settled
<1>7. ASSUME NEW h \in covered'
      PROVE  h \in covered \/ (h \in Heights /\ \E i \in 1..n : q[i] = <<"coverage", h>>)
  BY <1>1, <1>2 DEF Rows
<1>8. Hdr \subseteq Hdr' /\ Evt \subseteq Evt' /\ Cvd \subseteq Cvd'
  BY <1>2 DEF Hdr, Evt, Cvd, Settled
<1> QED
  BY <1>4, <1>6, <1>7, <1>8 DEF Written

\* The durable rows stay backed, and the tail honest.
LEMMA FlushDurable ==
    ASSUME DurableOK, NEW q, QueueOK(q), NEW n \in 0..Len(q), Written(q, n)
    PROVE  DurableOK'
<1>0. q \in Seq(Ops) /\ Len(q) \in Nat /\ \A i \in 1..n : i \in 1..Len(q) /\ \A j \in 1..i - 1 : j \in 1..n
  BY DEF QueueOK
<1>1. ASSUME NEW h \in covered' PROVE h \in Hdr' /\ h \in Evt'
  <2>1. CASE h \in covered
    BY <2>1 DEF DurableOK, CoverageBacked, Written, Hdr, Evt
  <2>2. CASE h \notin covered
    <3>1. h \in Heights /\ \E i \in 1..n : q[i] = <<"coverage", h>>
      BY <2>2 DEF Written
    <3>2. PICK i \in 1..n : q[i] = <<"coverage", h>>
      BY <3>1
    <3>3. Covers(q, i) /\ q[i][1] = "coverage" /\ q[i][2] = h
      BY <1>0, <3>2 DEF QueueOK
    <3>4. h \in Hdr \/ \E j \in 1..n : q[j] = <<"header", h>>
      BY <1>0, <3>1, <3>3 DEF Covers
    <3>5. h \in Evt \/ \E j \in 1..n : q[j] = <<"event", h>>
      BY <1>0, <3>1, <3>3 DEF Covers
    <3> QED
      BY <3>1, <3>4, <3>5 DEF Written
  <2> QED
    BY <2>1, <2>2
<1>2. tail' \in Heights /\ tail'..Lock - 1 \subseteq Cvd'
  <2>1. CASE tail' = tail
    BY <2>1 DEF DurableOK, TailHonest, Written, Cvd
  <2>2. CASE tail' # tail
    <3>1. PICK i \in 1..n : q[i][1] = "tail" /\ tail' = q[i][2]
      BY <2>2 DEF Written
    <3>2. Moves(q, i)
      BY <1>0 DEF QueueOK
    <3>3. tail' \in Heights
      BY <3>1, <3>2 DEF Moves
    <3>4. ASSUME NEW h \in tail'..Lock - 1 PROVE h \in Cvd'
      <4>1. h \in Heights
        BY <3>3, HeightsFacts
      <4>2. h \in Cvd \/ \E j \in 1..n : q[j] = <<"coverage", h>>
        BY <1>0, <3>1, <3>2 DEF Moves
      <4> QED
        BY <4>1, <4>2 DEF Written
    <3> QED
      BY <3>3, <3>4
  <2> QED
    BY <2>1, <2>2
<1> QED
  BY <1>1, <1>2 DEF DurableOK, CoverageBacked, TailHonest, Hdr, Evt, Cvd

\* What waits behind the first n statements may still wait.
LEMMA RestOK ==
    ASSUME NEW q, QueueOK(q), NEW n \in 0..Len(q), Written(q, n), NEW t, Claims1(t, q)
    PROVE  QueueOK(SubSeq(q, n + 1, Len(q)))' /\ Claims1(t, SubSeq(q, n + 1, Len(q)))'
<1> DEFINE r == SubSeq(q, n + 1, Len(q))
<1>0. q \in Seq(Ops) /\ Len(q) \in Nat /\ n \in Nat
  BY DEF QueueOK
<1>1. r \in Seq(Ops) /\ Len(r) = Len(q) - n /\ \A i \in 1..Len(r) : r[i] = q[n + i]
  BY <1>0, CutFacts
<1> HIDE DEF r
<1>2. ASSUME NEW s, \E j \in 1..Len(q) : q[j] = s
      PROVE  (\E j \in 1..n : q[j] = s) \/ (\E j \in 1..Len(r) : r[j] = s)
  <2>1. PICK j \in 1..Len(q) : q[j] = s
    BY <1>2
  <2>2. CASE j \in 1..n
    BY <2>1, <2>2
  <2>3. CASE j \notin 1..n
    <3>1. j - n \in 1..Len(r) /\ r[j - n] = s
      BY <1>0, <1>1, <2>1, <2>3
    <3> QED
      BY <3>1
  <2> QED
    BY <2>2, <2>3
<1>3. ASSUME NEW i \in 1..Len(r), NEW k, k = n + i, NEW s, \E j \in 1..k - 1 : q[j] = s
      PROVE  (\E j \in 1..n : q[j] = s) \/ (\E j \in 1..i - 1 : r[j] = s)
  <2>1. PICK j \in 1..n + i - 1 : q[j] = s
    BY <1>3
  <2>2. CASE j \in 1..n
    BY <2>1, <2>2
  <2>3. CASE j \notin 1..n
    <3>1. j - n \in 1..i - 1 /\ j - n \in 1..Len(r) /\ r[j - n] = s
      BY <1>0, <1>1, <2>1, <2>3
    <3> QED
      BY <3>1
  <2> QED
    BY <2>2, <2>3
<1>4. ASSUME NEW i \in 1..Len(r) PROVE Covers(r, i)' /\ Moves(r, i)'
  <2>1. n + i \in 1..Len(q) /\ r[i] = q[n + i]
    BY <1>0, <1>1
  <2> DEFINE k == n + i
             h == r[i][2]
  <2>2. Covers(q, k) /\ Moves(q, k)
    BY <2>1 DEF QueueOK
  <2>3. ASSUME NEW s, \E j \in 1..k - 1 : q[j] = s
        PROVE  (\E j \in 1..n : q[j] = s) \/ (\E j \in 1..i - 1 : r[j] = s)
    <3>1. k = n + i
      OBVIOUS
    <3> HIDE DEF k
    <3> QED
      BY <1>3, <2>3, <3>1
  <2> HIDE DEF k
  <2>4. ASSUME r[i][1] = "coverage", h \in Heights
        PROVE  /\ h \in Hdr' \/ \E j \in 1..i - 1 : r[j] = <<"header", h>>
               /\ h \in Evt' \/ \E j \in 1..i - 1 : r[j] = <<"event", h>>
    <3>1. /\ h \in Hdr \/ \E j \in 1..k - 1 : q[j] = <<"header", h>>
          /\ h \in Evt \/ \E j \in 1..k - 1 : q[j] = <<"event", h>>
      BY <2>1, <2>2, <2>4 DEF Covers, k
    <3> HIDE DEF h
    <3>2. h \in Hdr' \/ \E j \in 1..i - 1 : r[j] = <<"header", h>>
      BY <2>3, <2>4, <3>1 DEF Written
    <3>3. h \in Evt' \/ \E j \in 1..i - 1 : r[j] = <<"event", h>>
      BY <2>3, <2>4, <3>1 DEF Written
    <3> QED
      BY <3>2, <3>3
  <2>5. ASSUME r[i][1] = "tail"
        PROVE  /\ h \in Heights
               /\ \A g \in h..Lock - 1 :
                     g \in Cvd' \/ \E j \in 1..i - 1 : r[j] = <<"coverage", g>>
    <3>1. /\ h \in Heights
          /\ \A g \in h..Lock - 1 :
                g \in Cvd \/ \E j \in 1..k - 1 : q[j] = <<"coverage", g>>
      BY <2>1, <2>2, <2>5 DEF Moves, k
    <3> HIDE DEF h
    <3>2. ASSUME NEW g \in h..Lock - 1
          PROVE  g \in Cvd' \/ \E j \in 1..i - 1 : r[j] = <<"coverage", g>>
      <4>1. g \in Heights
        BY <3>1, HeightsFacts
      <4> QED
        BY <2>3, <3>1, <4>1 DEF Written
    <3> QED
      BY <3>1, <3>2
  <2> QED
    BY <2>4, <2>5 DEF Covers, Moves
<1>5. QueueOK(r)'
  BY <1>1, <1>4 DEF QueueOK
<1>6. ASSUME NEW h \in t..Lock - 1 PROVE h \in Cvd' \/ \E j \in 1..Len(r) : r[j] = <<"coverage", h>>
  <2>1. h \in Heights
    BY HeightsFacts DEF Claims1
  <2>2. h \in Cvd \/ \E j \in 1..Len(q) : q[j] = <<"coverage", h>>
    BY DEF Claims1, Says
  <2> QED
    BY <1>2, <2>1, <2>2 DEF Written
<1>7. Claims1(t, r)'
  BY <1>6 DEF Claims1, Says
<1> QED
  BY <1>5, <1>7 DEF r

LEMMA FlushOK ==
    ASSUME TapeInv, NEW w \in Workers, Flush(w)
    PROVE  TapeInv'
<1>1. PICK q, t : q = worker[w].pending /\ t = worker[w].tail
  OBVIOUS
<1>2. PICK n, refused :
        /\ n \in 0..Len(q)
        /\ Drained(SubSeq(q, 1, n), refused)
        /\ worker' = [worker EXCEPT ![w].pc = "plan",
                                    ![w].pending = SubSeq(@, n + 1, Len(@))]
  BY <1>1 DEF Flush
<1> DEFINE rest == SubSeq(q, n + 1, Len(q))
<1>3. /\ QueueOK(q) /\ q \in Seq(Ops) /\ Claims1(t, q) /\ DurableOK
      /\ WorkerOK(worker[w])
  BY <1>1 DEF TapeInv, WorkerOK, QueueOK
<1>4. Written(q, n)
  BY <1>2, <1>3, DrainedFacts
<1>5. DurableOK'
  BY <1>2, <1>3, <1>4, FlushDurable
<1>6. /\ worker' = [v \in Workers |-> worker'[v]]
      /\ \A v \in Workers : v # w => worker'[v] = worker[v]
      /\ worker'[w] = [worker[w] EXCEPT !.pc = "plan", !.pending = rest]
  BY <1>1, <1>2 DEF TapeInv
<1>7. Record(worker'[w]) /\ worker'[w].pending = rest /\ worker'[w].tail = t
  <2> DEFINE m == worker[w]
             r == [m EXCEPT !.pc = "plan"]
  <2>1. m = [pc |-> m.pc, hdr |-> m.hdr, cov |-> m.cov, tail |-> t,
             pending |-> m.pending, claimed |-> m.claimed]
    BY <1>1, <1>3 DEF WorkerOK, Record
  <2>2. worker'[w] = [r EXCEPT !.pending = rest]
    BY <1>6, <2>1
  <2> HIDE DEF m, rest
  <2>3. r = [pc |-> "plan", hdr |-> m.hdr, cov |-> m.cov, tail |-> t,
             pending |-> m.pending, claimed |-> m.claimed]
    BY <2>1
  <2> HIDE DEF r
  <2>4. worker'[w] = [pc |-> "plan", hdr |-> m.hdr, cov |-> m.cov, tail |-> t,
                      pending |-> rest, claimed |-> m.claimed]
    BY <2>2, <2>3
  <2> QED
    BY <2>4 DEF Record, m
<1>8. WorkerOK(worker[w])'
  <2>1. QueueOK(rest)' /\ Claims1(t, rest)'
    BY <1>2, <1>3, <1>4, RestOK
  <2> HIDE DEF rest
  <2> QED
    BY <1>7, <2>1 DEF WorkerOK, Record, QueueOK, Covers, Moves, Claims1
<1>9. ASSUME NEW v \in Workers, v # w PROVE WorkerOK(worker[v])'
  <2>1. PICK p, u : p = worker[v].pending /\ u = worker[v].tail
    OBVIOUS
  <2>2. WorkerOK(worker[v]) /\ worker'[v] = worker[v]
    BY <1>6, <1>9 DEF TapeInv
  <2>3. QueueOK(p)' /\ Claims1(u, p)'
    <3>1. Hdr \subseteq Hdr' /\ Evt \subseteq Evt' /\ Cvd \subseteq Cvd'
      BY <1>4 DEF Written
    <3>2. QueueOK(p) /\ Claims1(u, p)
      BY <2>1, <2>2 DEF WorkerOK
    <3> QED
      BY <3>1, <3>2, GrownOK
  <2>4. /\ worker'[v].pending = p /\ worker'[v].tail = u /\ Record(worker'[v])
    BY <2>1, <2>2 DEF WorkerOK, Record
  <2> QED
    BY <2>3, <2>4 DEF WorkerOK, Record, QueueOK, Covers, Moves, Claims1
<1> QED
  BY <1>5, <1>6, <1>8, <1>9 DEF TapeInv

\* The end of a process drains a part of its queue and leaves it nothing.
LEMMA CrashOK ==
    ASSUME TapeInv, NEW w \in Workers, Crash(w)
    PROVE  TapeInv'
<1>1. PICK q : q = worker[w].pending
  OBVIOUS
<1>2. PICK n, refused : n \in 0..Len(q) /\ Drained(SubSeq(q, 1, n), refused)
  BY <1>1 DEF Crash
<1>3. QueueOK(q) /\ q \in Seq(Ops) /\ DurableOK
  BY <1>1 DEF TapeInv, WorkerOK, QueueOK
<1>4. Written(q, n)
  BY <1>2, <1>3, DrainedFacts
<1>5. DurableOK'
  BY <1>2, <1>3, <1>4, FlushDurable
<1>6. /\ worker' = [v \in Workers |-> worker'[v]] /\ worker'[w] = Down
      /\ \A v \in Workers : v # w => worker'[v] = worker[v]
  BY DEF TapeInv, Crash
<1>7. WorkerOK(worker[w])'
  <2>1. WorkerOK(Down)'
    BY DownOK, PTL
  <2> QED
    BY <1>6, <2>1 DEF WorkerOK, Record, QueueOK, Covers, Moves, Claims1
<1>8. ASSUME NEW v \in Workers, v # w PROVE WorkerOK(worker[v])'
  <2>1. PICK p, u : p = worker[v].pending /\ u = worker[v].tail
    OBVIOUS
  <2>2. WorkerOK(worker[v]) /\ worker'[v] = worker[v]
    BY <1>6, <1>8 DEF TapeInv
  <2>3. QueueOK(p)' /\ Claims1(u, p)'
    <3>1. Hdr \subseteq Hdr' /\ Evt \subseteq Evt' /\ Cvd \subseteq Cvd'
      BY <1>4 DEF Written
    <3>2. QueueOK(p) /\ Claims1(u, p)
      BY <2>1, <2>2 DEF WorkerOK
    <3> QED
      BY <3>1, <3>2, GrownOK
  <2>4. /\ worker'[v].pending = p /\ worker'[v].tail = u /\ Record(worker'[v])
    BY <2>1, <2>2 DEF WorkerOK, Record
  <2> QED
    BY <2>3, <2>4 DEF WorkerOK, Record, QueueOK, Covers, Moves, Claims1
<1> QED
  BY <1>5, <1>6, <1>7, <1>8 DEF TapeInv

-----------------------------------------------------------------------------
(* The theorems                                                            *)

LEMMA TapeStarts ==
    TapeInit => TapeInv
<1> SUFFICES ASSUME TapeInit PROVE TapeInv
  OBVIOUS
<1>1. DurableOK
  BY HeightsFacts, TapeAssumption
     DEF TapeInit, DurableOK, CoverageBacked, TailHonest, Settled, Heights
<1>2. WorkerOK(Down)
  BY DownOK
<1> QED
  BY <1>1, <1>2 DEF TapeInit, TapeInv

LEMMA TapeStep ==
    TapeInv /\ [TapeNext]_tapeVars => TapeInv'
<1> SUFFICES ASSUME TapeInv, [TapeNext]_tapeVars PROVE TapeInv'
  OBVIOUS
<1>1. ASSUME NEW w \in Workers, HoseTick(w) PROVE TapeInv'
  BY <1>1, BootOK, PlanOK, ClaimOK, WalkShardOK, BackfillOK, FlushOK DEF HoseTick
<1>2. ASSUME NEW w \in Workers, ShardTickFails(w) PROVE TapeInv'
  BY <1>2, ShardTickFailsOK
<1>3. ASSUME NEW w \in Workers, Crash(w) PROVE TapeInv'
  BY <1>3, CrashOK
<1>4. ASSUME NEW i \in 1..MaxRows, LeaseExpires(i) PROVE TapeInv'
  BY <1>4, LeaseExpiresOK
<1>5. CASE UNCHANGED tapeVars
  <2>1. UNCHANGED durable /\ UNCHANGED worker
    BY <1>5 DEF tapeVars, durable
  <2> QED
    BY <2>1, Untouched
<1> QED
  BY <1>1, <1>2, <1>3, <1>4, <1>5 DEF TapeNext

\* A durable row that says a block is covered stands beside the block's header and
\* its events, however the workers of the crawler interleave, crash, lose their
\* leases and have their flushes cut short: only a refused statement can be missing.
THEOREM CoverageStaysBacked == TapeSpec => []CoverageBacked
<1>1. TapeInv => CoverageBacked
  BY DEF TapeInv, DurableOK
<1> QED
  BY <1>1, TapeStarts, TapeStep, PTL DEF TapeSpec

\* The durable tail never claims a height that is not covered, unless the statement of
\* that coverage was refused: no cut flush, crash, missing block or second worker
\* leaves a hole between it and the lock.
THEOREM TailStaysHonest == TapeSpec => []TailHonest
<1>1. TapeInv => TailHonest
  BY DEF TapeInv, DurableOK
<1> QED
  BY <1>1, TapeStarts, TapeStep, PTL DEF TapeSpec

=============================================================================
