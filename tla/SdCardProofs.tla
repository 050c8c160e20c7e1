---------------------------- MODULE SdCardProofs ----------------------------
(***************************************************************************)
(* Proofs about SdCard.                                                    *)
(***************************************************************************)
EXTENDS SdCard, WellFoundedInduction, TLAPS

\* Induction over the natural numbers, for a set of them.
LEMMA SetInduction ==
  ASSUME NEW T \in SUBSET Nat, 0 \in T, \A n \in T : n + 1 \in T
  PROVE  T = Nat
<1> DEFINE R == OpToRel(<, Nat)
<1>1. IsWellFoundedOn(R, Nat)
  BY NatLessThanWellFounded, Zenon
<1>2. \A m, n \in Nat : <<m, n>> \notin R => n <= m
  BY DEF OpToRel
<1> HIDE DEF R
<1>3. SUFFICES ASSUME Nat \ T # {} PROVE FALSE
  OBVIOUS
<1>4. PICK n \in Nat \ T : \A m \in Nat \ T : ~(<<m, n>> \in R)
  BY <1>1, <1>3, WFMin, Zenon
<1>5. \A m \in Nat \ T : n <= m
  BY <1>2, <1>4, Zenon
<1> QED
  BY <1>5

\* A loop of at most k rounds over the states S: it starts in a, F[i] is round i, and
\* P[i] holds after it; and a run f of the loop.
IsLoop(k, S, P, a, F) ==
  /\ k \in Nat /\ a \in P[0]
  /\ \A i \in 0 .. k : \A x \in P[i] : x \in S
  /\ \A i \in 1 .. k : \A x \in P[i - 1] : F[i][x] \in P[i]

IsRun(f, k, S, P, a, F) ==
  /\ f \in [0 .. k -> S] /\ f[0] = a
  /\ \A i \in 1 .. k : f[i] = F[i][f[i - 1]]
  /\ \A i \in 0 .. k : f[i] \in P[i]

\* A loop has a run.
LEMMA LoopRuns ==
  ASSUME NEW k, NEW S, NEW P, NEW a, NEW F, IsLoop(k, S, P, a, F)
  PROVE  \E f : IsRun(f, k, S, P, a, F)
<1> DEFINE Runs(n) == {f \in [0 .. n -> S] : /\ f[0] = a /\ \A i \in 1 .. n : f[i] = F[i][f[i - 1]]
                                            /\ \A i \in 0 .. n : f[i] \in P[i]}
           T == {n \in Nat : n <= k => Runs(n) # {}}
<1> USE DEF IsLoop
<1>1. 0 \in T
  <2>1. [i \in 0 .. 0 |-> a] \in Runs(0)
    OBVIOUS
  <2> QED
    BY <2>1
<1>2. ASSUME NEW n \in T, n + 1 <= k PROVE Runs(n + 1) # {}
  <2>0. n \in Nat /\ n + 1 \in 1 .. k /\ n + 1 \in 0 .. k /\ (n + 1) - 1 = n
    BY <1>2
  <2>1. PICK f : f \in Runs(n)
    BY <1>2, <2>0
  <2> DEFINE g == [i \in 0 .. n + 1 |-> IF i <= n THEN f[i] ELSE F[n + 1][f[n]]]
  <2>2. \A i \in 0 .. n : g[i] = f[i] /\ f[i] \in P[i] /\ f[i] \in S
    BY <2>0, <2>1
  <2>3. g[n + 1] = F[n + 1][f[n]]
    BY <2>0
  <2>4. g[n + 1] \in P[n + 1] /\ g[n + 1] \in S
    <3>1. f[n] \in P[n]
      <4>1. n \in 0 .. n
        BY <2>0
      <4> QED
        BY <4>1, <2>2, Zenon
    <3> HIDE DEF g
    <3>2. \A x \in P[(n + 1) - 1] : F[n + 1][x] \in P[n + 1]
      BY <2>0, Zenon
    <3> QED
      BY <3>1, <3>2, <2>0, <2>3, Zenon
  <2>5. ASSUME NEW i \in 1 .. n + 1 PROVE g[i] = F[i][g[i - 1]]
    <3>1. g[i - 1] = f[i - 1]
      BY <2>0, <2>2
    <3>2. CASE i <= n
      BY <3>1, <3>2, <2>0, <2>1, <2>2
    <3>3. CASE i = n + 1
      BY <3>1, <3>3, <2>0, <2>3
    <3> QED
      BY <3>2, <3>3, <2>0
  <2>6. g \in [0 .. n + 1 -> S] /\ g[0] = a /\ \A i \in 0 .. n + 1 : g[i] \in P[i]
    <3>1. g = [i \in 0 .. n + 1 |-> g[i]]
      OBVIOUS
    <3>2. f[0] = a /\ 0 \in 0 .. n
      BY <2>0, <2>1
    <3> HIDE DEF g
    <3>3. \A i \in 0 .. n + 1 : i \in 0 .. n \/ i = n + 1
      BY <2>0
    <3> QED
      BY <3>1, <3>2, <3>3, <2>2, <2>4
  <2> HIDE DEF g
  <2>7. g \in Runs(n + 1)
    BY <2>5, <2>6
  <2> HIDE DEF Runs
  <2> QED
    BY <2>7
<1> HIDE DEF Runs
<1>3. T = Nat
  <2>1. \A n \in T : n + 1 \in T
    BY <1>2
  <2> HIDE DEF T
  <2>2. T \in SUBSET Nat
    BY DEF T
  <2> QED
    BY <1>1, <2>1, <2>2, SetInduction, Zenon
<1>4. Runs(k) # {}
  BY <1>3
<1> QED
  BY <1>4 DEF Runs, IsRun

\* What holds of the first state of a run and is kept by every round holds of the
\* last.
LEMMA RunInvariant ==
  ASSUME NEW k \in Nat, NEW P, NEW f, f[0] \in P[0],
         \A i \in 1 .. k : f[i - 1] \in P[i - 1] => f[i] \in P[i]
  PROVE  f[k] \in P[k]
<1> DEFINE T == {n \in Nat : n <= k => f[n] \in P[n]}
<1>1. 0 \in T
  OBVIOUS
<1>2. ASSUME NEW n \in T PROVE n + 1 \in T
  <2>1. CASE n + 1 <= k
    <3>1. n + 1 \in 1 .. k /\ (n + 1) - 1 = n /\ f[n] \in P[n]
      BY <2>1
    <3>2. f[n + 1] \in P[n + 1]
      BY <3>1
    <3> QED
      BY <3>2
  <2> QED
    BY <2>1
<1>3. T = Nat
  <2> HIDE DEF T
  <2>1. T \in SUBSET Nat
    BY DEF T
  <2> QED
    BY <1>1, <1>2, <2>1, SetInduction, Zenon
<1> QED
  BY <1>3

\* The rule for the polls of disk_initialize: P[i] holds after i rounds.
LEMMA PollRule ==
  ASSUME NEW s, NEW cmd, NEW arg, NEW P, [s EXCEPT !.ok = TRUE] \in P[0],
         \A i \in 1 .. 2 ^ W : \A x \in P[i - 1] : (IF x.ok THEN PollRound(x, cmd, arg) ELSE x) \in P[i]
  PROVE  Poll(s, cmd, arg) \in P[2 ^ W]
<1> DEFINE a == [s EXCEPT !.ok = TRUE]
           k == 2 ^ W
           S == UNION {P[i] : i \in 0 .. k}
           Round(x, i) == IF x.ok THEN PollRound(x, cmd, arg) ELSE x
           F == [i \in 1 .. k |-> [x \in P[i - 1] |-> Round(x, i)]]
           Eq(f) == f = [i \in 0 .. k |-> IF i = 0 THEN a ELSE Round(f[i - 1], i)]
<1>1. k \in Nat /\ a \in P[0] /\ \A i \in 1 .. k : \A x \in P[i - 1] : Round(x, i) \in P[i]
  BY SdAssumption
<1>2. Poll(s, cmd, arg) = (CHOOSE f : Eq(f))[k]
  BY Zenon DEF Poll, Loop, After
<1> HIDE DEF a, k, Round
<1>3. /\ \A i \in 1 .. k : \A x \in P[i - 1] : F[i][x] = Round(x, i) /\ F[i][x] \in P[i]
      /\ \A i \in 0 .. k : \A x \in P[i] : x \in S
  BY <1>1, Zenon
<1>4. \E f : Eq(f)
  <2> HIDE DEF F, S, Eq
  <2>1. PICK f : IsRun(f, k, S, P, a, F)
    <3>1. IsLoop(k, S, P, a, F)
      BY <1>1, <1>3, Zenon DEF IsLoop
    <3> QED
      BY <3>1, LoopRuns, Zenon
  <2> DEFINE E(i) == IF i = 0 THEN a ELSE Round(f[i - 1], i)
  <2>2. ASSUME NEW i \in 0 .. k PROVE f[i] = E(i)
    <3>1. i = 0 \/ (i # 0 /\ i \in 1 .. k /\ i - 1 \in 0 .. k)
      BY <1>1
    <3> QED
      BY <3>1, <1>3, <2>1, Zenon DEF IsRun
  <2>3. f = [i \in 0 .. k |-> E(i)]
    <3> HIDE DEF E
    <3> QED
      BY <2>1, <2>2 DEF IsRun
  <2> QED
    BY <2>3, Zenon DEF Eq
<1> HIDE DEF F, S
<1>5. PICK g : g = (CHOOSE f : Eq(f)) /\ Eq(g)
  BY <1>4, Zenon
<1> DEFINE E(i) == IF i = 0 THEN a ELSE Round(g[i - 1], i)
<1>6. \A i \in 0 .. k : g[i] = E(i)
  <2>1. g = [i \in 0 .. k |-> E(i)]
    BY <1>5, Zenon
  <2> HIDE DEF E
  <2> QED
    BY <2>1, Zenon
<1> HIDE DEF Eq
<1>7. g[0] = a /\ \A i \in 1 .. k : g[i - 1] \in P[i - 1] => g[i] \in P[i]
  <2>1. 0 \in 0 .. k /\ \A i \in 1 .. k : i \in 0 .. k /\ i # 0
    BY <1>1
  <2> QED
    BY <2>1, <1>1, <1>6, Zenon
<1>8. g[k] \in P[k]
  <2> HIDE DEF E
  <2> QED
    BY <1>1, <1>7, RunInvariant, Zenon
<1> QED
  BY <1>8, <1>2, <1>5, Zenon DEF k

\* The rule for the blocks that disk_read reads.
LEMMA ReadRule ==
  ASSUME NEW s, NEW count \in Nat, NEW P, [s EXCEPT !.ok = TRUE] \in P[0],
         \A i \in 1 .. count : \A x \in P[i - 1] : (IF x.ok THEN rcvr_datablock(x) ELSE x) \in P[i]
  PROVE  ReadBlocks(s, count) \in P[count]
<1> DEFINE a == [s EXCEPT !.ok = TRUE]
           k == count
           S == UNION {P[i] : i \in 0 .. k}
           Round(x, i) == IF x.ok THEN rcvr_datablock(x) ELSE x
           F == [i \in 1 .. k |-> [x \in P[i - 1] |-> Round(x, i)]]
           Eq(f) == f = [i \in 0 .. k |-> IF i = 0 THEN a ELSE Round(f[i - 1], i)]
<1>1. k \in Nat /\ a \in P[0] /\ \A i \in 1 .. k : \A x \in P[i - 1] : Round(x, i) \in P[i]
  BY Zenon
<1>2. ReadBlocks(s, count) = (CHOOSE f : Eq(f))[k]
  BY Zenon DEF ReadBlocks, Loop, After
<1> HIDE DEF a, k, Round
<1>3. /\ \A i \in 1 .. k : \A x \in P[i - 1] : F[i][x] = Round(x, i) /\ F[i][x] \in P[i]
      /\ \A i \in 0 .. k : \A x \in P[i] : x \in S
  BY <1>1, Zenon
<1>4. \E f : Eq(f)
  <2> HIDE DEF F, S, Eq
  <2>1. PICK f : IsRun(f, k, S, P, a, F)
    <3>1. IsLoop(k, S, P, a, F)
      BY <1>1, <1>3, Zenon DEF IsLoop
    <3> QED
      BY <3>1, LoopRuns, Zenon
  <2> DEFINE E(i) == IF i = 0 THEN a ELSE Round(f[i - 1], i)
  <2>2. ASSUME NEW i \in 0 .. k PROVE f[i] = E(i)
    <3>1. i = 0 \/ (i # 0 /\ i \in 1 .. k /\ i - 1 \in 0 .. k)
      BY <1>1
    <3> QED
      BY <3>1, <1>3, <2>1, Zenon DEF IsRun
  <2>3. f = [i \in 0 .. k |-> E(i)]
    <3> HIDE DEF E
    <3> QED
      BY <2>1, <2>2 DEF IsRun
  <2> QED
    BY <2>3, Zenon DEF Eq
<1> HIDE DEF F, S
<1>5. PICK g : g = (CHOOSE f : Eq(f)) /\ Eq(g)
  BY <1>4, Zenon
<1> DEFINE E(i) == IF i = 0 THEN a ELSE Round(g[i - 1], i)
<1>6. \A i \in 0 .. k : g[i] = E(i)
  <2>1. g = [i \in 0 .. k |-> E(i)]
    BY <1>5, Zenon
  <2> HIDE DEF E
  <2> QED
    BY <2>1, Zenon
<1> HIDE DEF Eq
<1>7. g[0] = a /\ \A i \in 1 .. k : g[i - 1] \in P[i - 1] => g[i] \in P[i]
  <2>1. 0 \in 0 .. k /\ \A i \in 1 .. k : i \in 0 .. k /\ i # 0
    BY <1>1
  <2> QED
    BY <2>1, <1>1, <1>6, Zenon
<1>8. g[k] \in P[k]
  <2> HIDE DEF E
  <2> QED
    BY <1>1, <1>7, RunInvariant, Zenon
<1> QED
  BY <1>8, <1>2, <1>5, Zenon DEF k

\* The rule for the blocks that disk_write writes.
LEMMA WriteRule ==
  ASSUME NEW s, NEW ds, NEW P, [s EXCEPT !.ok = TRUE] \in P[0], Len(ds) \in Nat,
         \A i \in 1 .. Len(ds) : \A x \in P[i - 1] : (IF x.ok THEN xmit_datablock(x, ds[i]) ELSE x) \in P[i]
  PROVE  WriteBlocks(s, ds) \in P[Len(ds)]
<1> DEFINE a == [s EXCEPT !.ok = TRUE]
           k == Len(ds)
           S == UNION {P[i] : i \in 0 .. k}
           Round(x, i) == IF x.ok THEN xmit_datablock(x, ds[i]) ELSE x
           F == [i \in 1 .. k |-> [x \in P[i - 1] |-> Round(x, i)]]
           Eq(f) == f = [i \in 0 .. k |-> IF i = 0 THEN a ELSE Round(f[i - 1], i)]
<1>1. k \in Nat /\ a \in P[0] /\ \A i \in 1 .. k : \A x \in P[i - 1] : Round(x, i) \in P[i]
  BY Zenon
<1>2. WriteBlocks(s, ds) = (CHOOSE f : Eq(f))[k]
  BY Zenon DEF WriteBlocks, Loop, After
<1> HIDE DEF a, k, Round
<1>3. /\ \A i \in 1 .. k : \A x \in P[i - 1] : F[i][x] = Round(x, i) /\ F[i][x] \in P[i]
      /\ \A i \in 0 .. k : \A x \in P[i] : x \in S
  BY <1>1, Zenon
<1>4. \E f : Eq(f)
  <2> HIDE DEF F, S, Eq
  <2>1. PICK f : IsRun(f, k, S, P, a, F)
    <3>1. IsLoop(k, S, P, a, F)
      BY <1>1, <1>3, Zenon DEF IsLoop
    <3> QED
      BY <3>1, LoopRuns, Zenon
  <2> DEFINE E(i) == IF i = 0 THEN a ELSE Round(f[i - 1], i)
  <2>2. ASSUME NEW i \in 0 .. k PROVE f[i] = E(i)
    <3>1. i = 0 \/ (i # 0 /\ i \in 1 .. k /\ i - 1 \in 0 .. k)
      BY <1>1
    <3> QED
      BY <3>1, <1>3, <2>1, Zenon DEF IsRun
  <2>3. f = [i \in 0 .. k |-> E(i)]
    <3> HIDE DEF E
    <3> QED
      BY <2>1, <2>2 DEF IsRun
  <2> QED
    BY <2>3, Zenon DEF Eq
<1> HIDE DEF F, S
<1>5. PICK g : g = (CHOOSE f : Eq(f)) /\ Eq(g)
  BY <1>4, Zenon
<1> DEFINE E(i) == IF i = 0 THEN a ELSE Round(g[i - 1], i)
<1>6. \A i \in 0 .. k : g[i] = E(i)
  <2>1. g = [i \in 0 .. k |-> E(i)]
    BY <1>5, Zenon
  <2> HIDE DEF E
  <2> QED
    BY <2>1, Zenon
<1> HIDE DEF Eq
<1>7. g[0] = a /\ \A i \in 1 .. k : g[i - 1] \in P[i - 1] => g[i] \in P[i]
  <2>1. 0 \in 0 .. k /\ \A i \in 1 .. k : i \in 0 .. k /\ i # 0
    BY <1>1
  <2> QED
    BY <2>1, <1>1, <1>6, Zenon
<1>8. g[k] \in P[k]
  <2> HIDE DEF E
  <2> QED
    BY <1>1, <1>7, RunInvariant, Zenon
<1> QED
  BY <1>8, <1>2, <1>5, Zenon DEF k
----------------------------------------------------------------------------
(* Types. *)

Modes == {"off", "idle", "ready", "reg", "block", "blocks", "write", "writes"}

\* The card: one that is out has lost its state and the block that it programmed.
CardRecords ==
  [type : Types, polls : Nat, wake : Nat, present : BOOLEAN, mode : Modes, acmd : BOOLEAN,
   cur : 0 .. NSec, mem : [Sectors -> Data], pend : {<<>>} \cup (Sectors \X Data)]

Cards == {c \in CardRecords : c.present \/ (c.mode = "off" /\ c.pend = <<>>)}

States ==
  [Stat : SUBSET {"NOINIT"}, CardType : {"none", "MMC", "SD1", "SD2", "SDHC"}, sel : BOOLEAN,
   on : BOOLEAN, fifo : Nat, card : Cards, n : Nat,
   plan : [kind : FaultKinds \cup {"none"}, at : Int], ok : BOOLEAN, r : Nat,
   blocks : Seq(Data), timeout : Nat, hung : BOOLEAN]

\* What a read of the card returns.
ViewOf(c) == IF c.pend = <<>> THEN c.mem ELSE [c.mem EXCEPT ![c.pend[1]] = c.pend[2]]

\* The card goes from c to d and no sector changes: blocks that were accepted may
\* have been programmed, and are lost only when the card is pulled out.
Settles(c, d) ==
  /\ d.type = c.type /\ (d.present => c.present)
  /\ \A i \in Sectors : d.mem[i] \in {c.mem[i], ViewOf(c)[i]}
  /\ d.present => ViewOf(d) = ViewOf(c)

Asleep(c) == c.mode \in {"off", "idle"}

\* A card that is pulled out.
LEMMA PulledCard ==
  ASSUME NEW c \in Cards
  PROVE  /\ Pulled(c) \in Cards /\ Pulled(c).mode = "off" /\ Pulled(c).pend = <<>>
         /\ ~Pulled(c).present /\ Settles(c, Pulled(c)) /\ Pulled(c).cur = c.cur
  BY DEF Pulled, Cards, CardRecords, Modes, Settles

\* A card that has programmed its block.
LEMMA ProgrammedCard ==
  ASSUME NEW c \in Cards
  PROVE  /\ Program(c) \in Cards /\ Program(c).mode = c.mode /\ Program(c).pend = <<>>
         /\ Program(c).present = c.present /\ Program(c).cur = c.cur
         /\ Program(c).mem = ViewOf(c) /\ Settles(c, Program(c))
  BY DEF Program, Cards, CardRecords, Settles, ViewOf

\* What every function below the calls keeps: the variables of the driver, an empty
\* FIFO, the sectors of the card.
Keeps(s, t) ==
  /\ t \in States
  /\ t.Stat = s.Stat /\ t.CardType = s.CardType /\ t.on = s.on /\ t.hung = s.hung
  /\ s.fifo = 0 => t.fifo = 0
  /\ Settles(s.card, t.card)

\* The same without the sectors, for a call that need not return.
Holds(s, t) ==
  /\ t \in States
  /\ t.Stat = s.Stat /\ t.CardType = s.CardType /\ t.on = s.on
  /\ s.fifo = 0 => t.fifo = 0
  /\ t.card.type = s.card.type

\* The card settles in several steps as in one.
LEMMA SettlesOn ==
  ASSUME NEW c, NEW d \in Cards, NEW e, Settles(c, d), Settles(d, e)
  PROVE  Settles(c, e)
<1>1. ASSUME NEW i \in Sectors PROVE e.mem[i] \in {c.mem[i], ViewOf(c)[i]}
  <2>1. d.present => ViewOf(d)[i] = ViewOf(c)[i]
    BY DEF Settles
  <2>2. ~d.present => ViewOf(d)[i] = d.mem[i]
    BY DEF Cards, ViewOf
  <2> QED
    BY <2>1, <2>2 DEF Settles
<1> QED
  BY <1>1 DEF Settles

\* The one says more than the other.
LEMMA KeepsHolds ==
  ASSUME NEW s, NEW t, Keeps(s, t)
  PROVE  Holds(s, t)
  BY Zenon DEF Keeps, Holds, Settles

\* So do the functions one after the other.
LEMMA KeepsOn ==
  ASSUME NEW s, NEW t, NEW u, Keeps(s, t), Keeps(t, u)
  PROVE  Keeps(s, u)
<1>1. t.card \in Cards
  BY DEF Keeps, States
<1>2. Settles(s.card, u.card)
  BY <1>1, SettlesOn DEF Keeps
<1> QED
  BY <1>2 DEF Keeps

\* wait_ready: once it has seen the card ready, nothing is left to program.
LEMMA WaitKeeps ==
  ASSUME NEW s \in States
  PROVE  LET t == wait_ready(s) IN
         /\ Keeps(s, t) /\ t.sel = s.sel /\ t.r = s.r /\ t.blocks = s.blocks /\ t.timeout = s.timeout
         /\ t.card.mode \in {s.card.mode, "off"} /\ t.card.cur = s.card.cur
         /\ t.ok => t.card.pend = <<>>
<1> DEFINE c == s.card
<1>1. c \in Cards
  BY DEF States
<1>2. /\ Pulled(c) \in Cards /\ Pulled(c).mode = "off" /\ Pulled(c).pend = <<>>
      /\ ~Pulled(c).present /\ Settles(c, Pulled(c)) /\ Pulled(c).cur = c.cur
  BY <1>1, PulledCard
<1>3. /\ Program(c) \in Cards /\ Program(c).mode = c.mode /\ Program(c).pend = <<>>
      /\ Program(c).present = c.present /\ Program(c).cur = c.cur
      /\ Settles(c, Program(c))
  BY <1>1, ProgrammedCard
<1>4. Settles(c, c)
  BY <1>1 DEF Settles
<1> QED
  BY <1>2, <1>3, <1>4 DEF wait_ready, Keeps, States

\* select after deselect: on success the card is selected and has nothing to program.
LEMMA SelectKeeps ==
  ASSUME NEW s \in States
  PROVE  LET t == select(deselect(s)) IN
         /\ Keeps(s, t) /\ t.r = s.r /\ t.blocks = s.blocks /\ t.timeout = s.timeout
         /\ t.card.mode \in {s.card.mode, "off"}
         /\ t.ok => t.sel /\ t.card.pend = <<>>
<1> DEFINE a == spi_select_slave(deselect(s))
           w == wait_ready(a)
<1>1. /\ a \in States /\ a.card = s.card /\ a.sel = TRUE /\ a.r = s.r /\ a.blocks = s.blocks
      /\ a.timeout = s.timeout /\ Keeps(s, a)
  BY DEF spi_select_slave, deselect, spi_deselect_slave, Keeps, States, Settles
<1>2. /\ Keeps(a, w) /\ w.sel = a.sel /\ w.r = a.r /\ w.blocks = a.blocks
      /\ w.timeout = a.timeout /\ w.card.mode \in {a.card.mode, "off"}
      /\ w.ok => w.card.pend = <<>>
  BY <1>1, WaitKeeps, Zenon
<1>3. Keeps(s, w) /\ w \in States
  BY <1>1, <1>2, KeepsOn DEF Keeps
<1>4. select(deselect(s)) = IF w.ok THEN w ELSE deselect(w)
  BY Zenon DEF select, After
<1> DEFINE t == select(deselect(s))
<1> HIDE DEF w, a, t
<1>5. CASE w.ok
  BY <1>1, <1>2, <1>3, <1>4, <1>5 DEF States, t
<1>6. CASE ~w.ok
  <2>1. t = [w EXCEPT !.sel = FALSE]
    BY <1>4, <1>6, Zenon DEF t, deselect, spi_deselect_slave
  <2>2. Keeps(s, t) /\ t.card = w.card /\ ~t.ok
    BY <2>1, <1>3, <1>6 DEF Keeps, States
  <2> QED
    BY <2>1, <2>2, <1>1, <1>2, <1>3, <1>6 DEF States, t
<1> QED
  BY <1>5, <1>6

\* One more exchange: nothing happens, or the card is pulled out.
LEMMA ExchangeKeeps ==
  ASSUME NEW s \in States
  PROVE  LET t == Exchange(s) IN
         /\ Keeps(s, t) /\ t.sel = s.sel /\ t.ok = s.ok /\ t.r = s.r /\ t.blocks = s.blocks
         /\ t.timeout = s.timeout /\ t.card.cur = s.card.cur
         /\ t.card = s.card \/ (~t.card.present /\ t.card.mode = "off" /\ t.card.pend = <<>>)
<1> DEFINE c == s.card
<1>1. c \in Cards
  BY DEF States
<1>2. /\ Pulled(c) \in Cards /\ Pulled(c).mode = "off" /\ Pulled(c).pend = <<>>
      /\ ~Pulled(c).present /\ Settles(c, Pulled(c)) /\ Pulled(c).cur = c.cur
  BY <1>1, PulledCard
<1>3. Settles(c, c)
  BY <1>1 DEF Settles
<1> DEFINE e == [s EXCEPT !.n = @ + 1]
<1>4. /\ Keeps(s, e) /\ e.sel = s.sel /\ e.ok = s.ok /\ e.r = s.r /\ e.blocks = s.blocks
      /\ e.timeout = s.timeout /\ e.card = s.card
  BY <1>3 DEF Keeps, States
<1>5. Exchange(s) = IF Hits(e, "gone") THEN [e EXCEPT !.card = Pulled(@)] ELSE e
  BY Zenon DEF Exchange
<1> HIDE DEF e
<1>6. CASE Hits(e, "gone")
  BY <1>2, <1>4, <1>5, <1>6 DEF Keeps, States
<1>7. CASE ~Hits(e, "gone")
  BY <1>4, <1>5, <1>7, Zenon
<1> QED
  BY <1>6, <1>7, Zenon

\* The sectors that a command can address.
LEMMA SectorRange ==
  ASSUME NEW c, NEW arg \in Nat
  PROVE  SectorOf(c, arg) \in 0 .. NSec
<1>1. NSec \in Nat /\ BL \in Nat /\ BL > 0
  BY SdAssumption
<1>2. arg \div BL \in Nat
  BY <1>1
<1> QED
  BY <1>1, <1>2 DEF SectorOf

\* The answer of the card to a command.
LEMMA CardAnswers ==
  ASSUME NEW c \in Cards, c.present, NEW cmd \in Nat, NEW arg \in Nat
  PROVE  LET x == Card(c, cmd, arg)
             d == x.card
         IN
         /\ d \in Cards /\ x.r \in Nat
         /\ d.mem = c.mem /\ d.pend = c.pend /\ d.present /\ d.type = c.type
         /\ d.mode = "idle" => cmd = 0 \/ c.mode = "idle"
         /\ cmd \notin {1, 12, 41} /\ d.mode = "ready" => c.mode = "ready"
         /\ cmd \in {16, 58} /\ x.r = 0 => d.mode # "idle"
         /\ cmd \notin {1, 41} \/ (arg = 0 /\ c.type = "SDHC") => (Asleep(c) => Asleep(d))
         /\ cmd = 0 => Asleep(d)
         /\ cmd \in {17, 18, 24, 25} /\ x.r = 0 =>
              c.mode = "ready" /\ d.mode = Moves(cmd) /\ d.cur = SectorOf(c, arg) /\ d.cur < NSec
<1>1. SectorOf(c, arg) \in 0 .. NSec /\ NSec \in Nat
  BY SectorRange, SdAssumption
<1>2. Moves(17) = "block" /\ Moves(18) = "blocks" /\ Moves(24) = "write" /\ Moves(25) = "writes"
  BY DEF Moves
<1> DEFINE x == Card(c, cmd, arg)
           b == cmd = 55 /\ c.type # "MMC"
           e == [c EXCEPT !.acmd = b]
           To(d, r) == [card |-> d, r |-> r]
<1>3. /\ e \in Cards /\ e.present /\ e.type = c.type /\ e.mode = c.mode /\ e.mem = c.mem
      /\ e.pend = c.pend /\ e.wake = c.wake /\ e.polls = c.polls /\ e.cur = c.cur
  <2>1. b \in BOOLEAN
    OBVIOUS
  <2> HIDE DEF b
  <2> QED
    BY <2>1 DEF Cards, CardRecords
<1>4. SectorOf(e, arg) = SectorOf(c, arg)
  BY <1>3 DEF SectorOf
<1>5. x = Answer(c, e, cmd, arg)
  BY Zenon DEF Card
<1> HIDE DEF x, e
<1>6. CASE cmd = 0
  <2>1. x = To([e EXCEPT !.mode = "idle", !.wake = e.polls], 1)
    BY <1>5, <1>6 DEF Answer
  <2> DEFINE d == [e EXCEPT !.mode = "idle", !.wake = e.polls]
  <2>2. d \in Cards /\ d.mode = "idle" /\ d.mem = e.mem /\ d.pend = e.pend /\ d.present /\ d.type = e.type
    BY <1>3 DEF Cards, CardRecords, Modes
  <2> HIDE DEF d
  <2>3. x = To(d, 1)
    BY <2>1 DEF d
  <2> QED
    BY <2>2, <2>3, <1>3, <1>6 DEF Asleep, x
<1>7. CASE cmd = 12 /\ c.mode = "blocks"
  <2>1. x = To([e EXCEPT !.mode = "ready"], 0)
    BY <1>3, <1>5, <1>7 DEF Answer
  <2> QED
    BY <2>1, <1>3, <1>7 DEF Cards, CardRecords, Modes, Asleep, x
<1>8. CASE cmd # 0 /\ c.mode \notin {"idle", "ready"} /\ ~(cmd = 12 /\ c.mode = "blocks")
  <2>1. x = To(c, 255)
    BY <1>3, <1>5, <1>8 DEF Answer
  <2> QED
    BY <2>1, <1>8 DEF x
<1>9. CASE c.mode \in {"idle", "ready"} /\ cmd # 0 /\ ~Knows(c, cmd)
  <2>1. x = To(e, Idle(e) + 4)
    BY <1>3, <1>5, <1>9 DEF Answer, Knows
  <2>2. Idle(e) + 4 \in Nat /\ Idle(e) + 4 # 0
    BY DEF Idle
  <2> QED
    BY <2>1, <2>2, <1>3, <1>9 DEF x, Asleep
<1>10. CASE c.mode \in {"idle", "ready"} /\ Knows(c, cmd) /\ cmd \in {1, 41}
  <2>1. CASE c.mode = "idle" /\ (c.wake > 0 \/ (c.type = "SDHC" /\ arg = 0))
    <3>1. x = To([e EXCEPT !.wake = IF @ > 0 THEN @ - 1 ELSE @], 1)
      BY <1>3, <1>5, <1>10, <2>1 DEF Answer
    <3> QED
      BY <3>1, <1>3, <1>10, <2>1 DEF Cards, CardRecords, Asleep, x
  <2>2. CASE ~(c.mode = "idle" /\ (c.wake > 0 \/ (c.type = "SDHC" /\ arg = 0)))
    <3>1. x = To([e EXCEPT !.mode = "ready"], 0)
      BY <1>3, <1>5, <1>10, <2>2 DEF Answer
    <3> QED
      BY <3>1, <1>3, <1>10, <2>2 DEF Cards, CardRecords, Modes, Asleep, x
  <2> QED
    BY <2>1, <2>2
<1>11. CASE c.mode \in {"idle", "ready"} /\ Knows(c, cmd) /\ cmd \in {8, 16, 23, 55, 58}
  <2>1. x = To(e, Idle(e))
    BY <1>3, <1>5, <1>11 DEF Answer
  <2>2. Idle(e) \in Nat /\ (Idle(e) = 0 => e.mode # "idle")
    BY DEF Idle
  <2> QED
    BY <2>1, <2>2, <1>3, <1>11 DEF x, Asleep
<1>12. CASE c.mode = "ready" /\ cmd \in {9, 10, 13}
  <2>1. x = To([e EXCEPT !.mode = "reg"], 0)
    BY <1>3, <1>5, <1>12 DEF Answer, Knows
  <2> QED
    BY <2>1, <1>3, <1>12 DEF Cards, CardRecords, Modes, Asleep, x
<1>13. CASE c.mode = "ready" /\ cmd \in {17, 18, 24, 25}
  <2>1. CASE SectorOf(c, arg) = NSec
    <3>1. x = To(e, 64)
      BY <1>3, <1>4, <1>5, <1>13, <2>1 DEF Answer, Knows
    <3> QED
      BY <3>1, <1>3, <1>13 DEF x, Asleep
  <2>2. CASE SectorOf(c, arg) # NSec
    <3>1. x = To([e EXCEPT !.mode = Moves(cmd), !.cur = SectorOf(c, arg)], 0)
      BY <1>3, <1>4, <1>5, <1>13, <2>2 DEF Answer, Knows
    <3>2. Moves(cmd) \in Modes \ {"off", "idle", "ready"}
      BY <1>2, <1>13 DEF Modes
    <3> DEFINE d == [e EXCEPT !.mode = Moves(cmd), !.cur = SectorOf(c, arg)]
    <3>3. /\ d \in Cards /\ d.mode = Moves(cmd) /\ d.mem = e.mem /\ d.pend = e.pend /\ d.present
          /\ d.type = e.type /\ d.cur = SectorOf(c, arg)
      BY <3>2, <1>1, <1>3 DEF Cards, CardRecords
    <3> HIDE DEF d
    <3>4. x = To(d, 0)
      BY <3>1 DEF d
    <3> QED
      BY <3>2, <3>3, <3>4, <1>1, <1>3, <1>13, <2>2 DEF Asleep, x
  <2> QED
    BY <2>1, <2>2
<1> QED
  <2>1. c.mode \in Modes
    BY DEF Cards, CardRecords
  <2>2. c.mode \in {"idle", "ready"} /\ Knows(c, cmd) =>
          cmd \in {1, 41} \cup {8, 16, 23, 55, 58} \/ (c.mode = "ready" /\ cmd \in {9, 10, 13, 17, 18, 24, 25})
    BY DEF Knows
  <2> QED
    BY <2>1, <2>2, <1>6, <1>7, <1>8, <1>9, <1>10, <1>11, <1>12, <1>13

\* A transfer command that the card has taken: it had been initialised and no transfer
\* was open, and it stands at the sector that was asked for.
Opened(s, cmd, arg, t) ==
  /\ s.card.mode = "ready" /\ t.sel
  /\ t.card.mode = Moves(cmd) /\ t.card.cur = SectorOf(s.card, arg) /\ t.card.cur < NSec
  /\ t.card.pend = <<>> /\ t.card.present

\* What a command does.  Only the commands 1 and 41 wake a card, and not an SDHC card
\* when their argument is 0; only they and CMD12 make a card ready, only CMD0 puts it
\* to sleep, and an idle card does not answer 0 to the commands 16 and 58.
Commanded(s, cmd, arg, t) ==
  /\ Keeps(s, t) /\ t.blocks = s.blocks /\ t.timeout = s.timeout
  /\ t.card.mode = "idle" => cmd = 0 \/ s.card.mode = "idle"
  /\ cmd \notin {1, 12, 41} /\ t.card.mode = "ready" => s.card.mode = "ready"
  /\ cmd \in {16, 58} /\ t.r = 0 => t.card.mode # "idle"
  /\ cmd \notin {1, 41} \/ (arg = 0 /\ s.card.type = "SDHC") => (Asleep(s.card) => Asleep(t.card))
  /\ cmd = 0 /\ t.r = 1 => Asleep(t.card)
  /\ cmd \in {17, 18, 24, 25} /\ t.r = 0 => Opened(s, cmd, arg, t)

\* A response is stored.
LEMMA AnswerKeeps ==
  ASSUME NEW s \in States, NEW q \in Nat
  PROVE  LET u == [s EXCEPT !.r = q] IN
         /\ Keeps(s, u) /\ u.card = s.card /\ u.r = q /\ u.blocks = s.blocks
         /\ u.timeout = s.timeout /\ u.sel = s.sel /\ u.ok = s.ok
<1>1. s.card \in Cards
  BY DEF States
<1>2. Settles(s.card, s.card)
  BY <1>1 DEF Settles
<1> QED
  BY <1>2 DEF Keeps, States

\* A command and its answer.
LEMMA CommandDone ==
  ASSUME NEW s \in States, NEW cmd \in Nat, NEW arg \in Nat
  PROVE  Commanded(s, cmd, arg, Command(s, cmd, arg))
<1> DEFINE a == IF cmd = 12 THEN [s EXCEPT !.ok = TRUE] ELSE select(deselect(s))
           t == Exchange(a)
           x == Card(t.card, cmd, arg)
           u == Command(s, cmd, arg)
<1>1. /\ Keeps(s, a) /\ a.blocks = s.blocks /\ a.timeout = s.timeout
      /\ a.card.mode \in {s.card.mode, "off"}
      /\ cmd # 12 /\ a.ok => a.sel /\ a.card.pend = <<>>
  <2>1. CASE cmd = 12
    BY <2>1 DEF Keeps, States, Settles
  <2>2. CASE cmd # 12
    BY <2>2, SelectKeeps, Zenon
  <2> QED
    BY <2>1, <2>2, Zenon
<1>2. u = IF ~a.ok THEN [a EXCEPT !.r = 255]
          ELSE IF ~spi_send(t) THEN [t EXCEPT !.r = 255]
          ELSE IF Hits(t, "error") THEN [t EXCEPT !.r = 8]
          ELSE [t EXCEPT !.card = x.card, !.r = x.r]
  BY Zenon DEF Command, After
<1> HIDE DEF u, a
<1>3. a \in States
  BY <1>1 DEF Keeps
<1>4. /\ Keeps(a, t) /\ t.sel = a.sel /\ t.ok = a.ok /\ t.blocks = a.blocks /\ t.timeout = a.timeout
      /\ t.card = a.card \/ (~t.card.present /\ t.card.mode = "off" /\ t.card.pend = <<>>)
  BY <1>3, ExchangeKeeps, Zenon
<1> HIDE DEF t
<1>5. Keeps(s, t) /\ t \in States /\ t.card \in Cards
  <2>1. Keeps(s, t) /\ t \in States
    BY <1>1, <1>4, KeepsOn, Zenon DEF Keeps
  <2> QED
    BY <2>1 DEF States
<1>6. CASE ~a.ok
  <2>1. u = [a EXCEPT !.r = 255]
    BY <1>2, <1>6, Zenon
  <2>2. /\ Keeps(s, u) /\ u.card = a.card /\ u.r = 255 /\ u.blocks = a.blocks
        /\ u.timeout = a.timeout
    <3>1. 255 \in Nat
      OBVIOUS
    <3> DEFINE e == [a EXCEPT !.r = 255]
    <3>2. Keeps(a, e) /\ e.card = a.card /\ e.r = 255 /\ e.blocks = a.blocks /\ e.timeout = a.timeout
      BY <3>1, <1>3, AnswerKeeps
    <3> HIDE DEF e
    <3>3. u = e
      BY <2>1 DEF e
    <3>4. Keeps(a, u) /\ u.card = a.card /\ u.r = 255 /\ u.blocks = a.blocks /\ u.timeout = a.timeout
      BY <3>2, <3>3, Zenon
    <3> QED
      BY <3>4, <1>1, <1>6, KeepsOn, Zenon
  <2> QED
    BY <2>2, <1>1 DEF Commanded, Asleep, u
<1>7. CASE a.ok /\ (~spi_send(t) \/ Hits(t, "error"))
  <2>1. PICK q \in {8, 255} : u = [t EXCEPT !.r = q]
    BY <1>2, <1>7, Zenon
  <2>2. /\ Keeps(s, u) /\ u.card = t.card /\ u.r \in {8, 255} /\ u.blocks = t.blocks
        /\ u.timeout = t.timeout
    <3>1. q \in Nat
      OBVIOUS
    <3> DEFINE e == [t EXCEPT !.r = q]
    <3>2. Keeps(t, e) /\ e.card = t.card /\ e.r = q /\ e.blocks = t.blocks /\ e.timeout = t.timeout
      BY <3>1, <1>5, AnswerKeeps
    <3> HIDE DEF e
    <3>3. u = e
      BY <2>1 DEF e
    <3>4. Keeps(t, u) /\ u.card = t.card /\ u.r = q /\ u.blocks = t.blocks /\ u.timeout = t.timeout
      BY <3>2, <3>3, Zenon
    <3> QED
      BY <3>4, <1>5, KeepsOn, Zenon
  <2> QED
    BY <2>2, <1>1, <1>4 DEF Commanded, Asleep, u
<1>8. CASE a.ok /\ spi_send(t) /\ ~Hits(t, "error")
  <2>1. u = [t EXCEPT !.card = x.card, !.r = x.r]
    BY <1>2, <1>8, Zenon
  <2>2. t.card.present /\ t.sel /\ t.card = a.card
    BY <1>4, <1>8 DEF spi_send
  <2> DEFINE c == t.card
             d == x.card
  <2>3. /\ d \in Cards /\ x.r \in Nat
        /\ d.mem = c.mem /\ d.pend = c.pend /\ d.present /\ d.type = c.type
        /\ d.mode = "idle" => cmd = 0 \/ c.mode = "idle"
        /\ cmd \notin {1, 12, 41} /\ d.mode = "ready" => c.mode = "ready"
        /\ cmd \in {16, 58} /\ x.r = 0 => d.mode # "idle"
        /\ cmd \notin {1, 41} \/ (arg = 0 /\ c.type = "SDHC") => (Asleep(c) => Asleep(d))
        /\ cmd = 0 => Asleep(d)
        /\ cmd \in {17, 18, 24, 25} /\ x.r = 0 =>
             c.mode = "ready" /\ d.mode = Moves(cmd) /\ d.cur = SectorOf(c, arg) /\ d.cur < NSec
    BY <1>5, <2>2, CardAnswers, Zenon
  <2> HIDE DEF x
  <2>4. Settles(c, d)
    BY <2>2, <2>3, <1>5 DEF Settles, ViewOf
  <2>5. /\ Keeps(t, u) /\ u.card = d /\ u.r = x.r /\ u.blocks = t.blocks /\ u.timeout = t.timeout
        /\ u.sel = t.sel
    BY <2>1, <2>3, <2>4, <1>5 DEF Keeps, States
  <2>6. Keeps(s, u) /\ c.type = s.card.type
    BY <2>5, <1>5, KeepsOn DEF Keeps, Settles
  <2>7. c.mode \in {s.card.mode, "off"} /\ (cmd # 12 => c.pend = <<>>)
    BY <2>2, <1>1, <1>8
  <2>8. SectorOf(c, arg) = SectorOf(s.card, arg)
    BY <2>6 DEF SectorOf
  <2>9. cmd \in {17, 18, 24, 25} /\ u.r = 0 => Opened(s, cmd, arg, u)
    BY <2>2, <2>3, <2>5, <2>7, <2>8 DEF Opened, Asleep
  <2>10. u.blocks = s.blocks /\ u.timeout = s.timeout
    BY <2>5, <1>1, <1>4
  <2>11. /\ u.card.mode = "idle" => cmd = 0 \/ s.card.mode = "idle"
         /\ cmd \notin {1, 12, 41} /\ u.card.mode = "ready" => s.card.mode = "ready"
         /\ cmd \in {16, 58} /\ u.r = 0 => u.card.mode # "idle"
         /\ cmd \notin {1, 41} \/ (arg = 0 /\ s.card.type = "SDHC") => (Asleep(s.card) => Asleep(u.card))
         /\ cmd = 0 /\ u.r = 1 => Asleep(u.card)
    BY <2>3, <2>5, <2>6, <2>7 DEF Asleep
  <2> QED
    BY <2>6, <2>9, <2>10, <2>11 DEF Commanded, u
<1> QED
  BY <1>6, <1>7, <1>8, Zenon

\* send_cmd, for a plain command.
LEMMA SendDone ==
  ASSUME NEW s \in States, NEW cmd \in 0 .. 127, NEW arg \in Nat
  PROVE  Commanded(s, cmd, arg, send_cmd(s, cmd, arg))
<1>1. send_cmd(s, cmd, arg) = Command(s, cmd, arg) /\ cmd \in Nat
  BY DEF send_cmd
<1> QED
  BY <1>1, CommandDone, Zenon

\* send_cmd, for one that CMD55 announces.
LEMMA AppDone ==
  ASSUME NEW s \in States, NEW cmd \in {13, 23, 41}, NEW arg \in Nat
  PROVE  Commanded(s, cmd, arg, send_cmd(s, 128 + cmd, arg))
<1> DEFINE a == Command(s, 55, 0)
           b == Command(a, cmd, arg)
           t == send_cmd(s, 128 + cmd, arg)
<1>1. t = IF a.r > 1 THEN a ELSE b
  <2>1. ~(128 + cmd < 128) /\ (128 + cmd) - 128 = cmd
    OBVIOUS
  <2> QED
    BY <2>1, Zenon DEF send_cmd, After
<1>2. Commanded(s, 55, 0, a)
  BY CommandDone
<1> HIDE DEF a
<1>3. a \in States /\ cmd \in Nat
  BY <1>2 DEF Commanded, Keeps
<1>4. Commanded(a, cmd, arg, b)
  BY <1>3, CommandDone
<1> HIDE DEF b, t
<1>5. Keeps(s, b)
  BY <1>2, <1>4, KeepsOn, Zenon DEF Commanded
<1>6. s.card.type = a.card.type
  BY <1>2, Zenon DEF Commanded, Keeps, Settles
<1>7. Commanded(s, cmd, arg, b)
  BY <1>2, <1>4, <1>5, <1>6 DEF Commanded
<1>8. Commanded(s, cmd, arg, a)
  BY <1>2 DEF Commanded
<1> QED
  BY <1>1, <1>7, <1>8, Zenon DEF t

\* timeout--
LEMMA TickKeeps ==
  ASSUME NEW s \in States
  PROVE  Keeps(s, Tick(s)) /\ Tick(s).card = s.card /\ Tick(s).sel = s.sel
<1> DEFINE N == 2 ^ W
           k == (s.timeout - 1) % N
<1>1. N \in Nat \ {0} /\ s.timeout \in Nat
  BY SdAssumption DEF States
<1>2. Tick(s) = [s EXCEPT !.timeout = k]
  BY Zenon DEF Tick
<1> HIDE DEF N
<1>3. k \in Nat
  BY <1>1
<1>4. s.card \in Cards
  BY DEF States
<1>5. Settles(s.card, s.card)
  BY <1>4 DEF Settles
<1> HIDE DEF k
<1> QED
  BY <1>2, <1>3, <1>5 DEF Keeps, States

----------------------------------------------------------------------------
(* disk_initialize. *)

\* What the commands of the initialisation do, of which 1 and 41 have argument arg.
Woken(s, arg, t) ==
  /\ Keeps(s, t)
  /\ arg = 0 /\ s.card.type = "SDHC" /\ Asleep(s.card) => Asleep(t.card)

\* One command after the other.
LEMMA WokenOn ==
  ASSUME NEW s, NEW t, NEW u, NEW arg, Woken(s, arg, t), Woken(t, arg, u)
  PROVE  Woken(s, arg, u)
<1>1. Keeps(s, u) /\ t.card.type = s.card.type
  BY KeepsOn, Zenon DEF Woken, Keeps, Settles
<1> QED
  BY <1>1, Zenon DEF Woken

\* timeout--
LEMMA TickWakes ==
  ASSUME NEW s \in States, NEW arg
  PROVE  Woken(s, arg, Tick(s)) /\ Tick(s) \in States
  BY TickKeeps DEF Woken, Keeps

\* A command of the initialisation.
LEMMA SendWakes ==
  ASSUME NEW s \in States, NEW arg \in Nat, NEW cmd \in Nat, NEW q \in Nat,
         cmd \in {8, 16, 58} \/ (cmd \in {1, 128 + 41} /\ q = arg)
  PROVE  Woken(s, arg, send_cmd(s, cmd, q)) /\ send_cmd(s, cmd, q) \in States
<1> DEFINE t == send_cmd(s, cmd, q)
<1>1. PICK k \in {1, 8, 16, 41, 58} : Commanded(s, k, q, t) /\ (k \in {1, 41} => q = arg)
  <2>1. CASE cmd = 128 + 41
    <3>1. 41 \in {13, 23, 41}
      OBVIOUS
    <3>2. Commanded(s, 41, q, t)
      BY <3>1, <2>1, AppDone, Zenon
    <3>3. q = arg
      BY <2>1
    <3> QED
      BY <3>2, <3>3
  <2>2. CASE cmd # 128 + 41
    <3>1. cmd \in 0 .. 127 /\ cmd \in {1, 8, 16, 41, 58} /\ (cmd \in {1, 41} => q = arg)
      BY <2>2
    <3>2. Commanded(s, cmd, q, t)
      <4>1. cmd \in 0 .. 127
        BY <3>1
      <4> QED
        BY <4>1, SendDone, Zenon
    <3> QED
      BY <3>1, <3>2
  <2> QED
    BY <2>1, <2>2
<1> HIDE DEF t
<1>2. Woken(s, arg, t) /\ t \in States
  BY <1>1 DEF Commanded, Woken, Keeps
<1> QED
  BY <1>2 DEF t

\* A loop of polls.
LEMMA PollWakes ==
  ASSUME NEW s \in States, NEW arg \in Nat, NEW cmd \in {1, 128 + 41}
  PROVE  Woken(s, arg, Poll(s, cmd, arg)) /\ Poll(s, cmd, arg) \in States
<1> DEFINE Q == {x \in States : Woken(s, arg, x)}
           P == [i \in 0 .. 2 ^ W |-> Q]
<1>1. ASSUME NEW x \in Q, NEW b \in BOOLEAN
      PROVE  [x EXCEPT !.ok = b] \in Q
  <2> DEFINE y == [x EXCEPT !.ok = b]
  <2>1. x.card \in Cards
    BY DEF States
  <2>2. Settles(x.card, x.card)
    BY <2>1 DEF Settles
  <2>3. Keeps(x, y) /\ y.card = x.card
    BY <2>2 DEF Keeps, States
  <2> HIDE DEF y
  <2>4. Woken(x, arg, y) /\ y \in States
    BY <2>3, Zenon DEF Woken, Keeps
  <2>5. Woken(s, arg, y)
    BY <2>4, WokenOn, Zenon
  <2> QED
    BY <2>4, <2>5 DEF y
<1>2. [s EXCEPT !.ok = TRUE] \in Q
  <2>1. s.card \in Cards
    BY DEF States
  <2>2. Woken(s, arg, s)
    BY <2>1 DEF Woken, Keeps, Settles
  <2> QED
    BY <2>2, <1>1
<1>3. ASSUME NEW x \in Q
      PROVE  PollRound(x, cmd, arg) \in Q
  <2> DEFINE w == Tick(x)
             a == send_cmd(w, cmd, arg)
             b == a.r # 0
  <2>1. Woken(x, arg, w) /\ w \in States
    BY TickWakes, Zenon
  <2>2. cmd \in Nat
    OBVIOUS
  <2>3. w \in Q
    BY <2>1, WokenOn, Zenon
  <2>4. Woken(w, arg, a) /\ a \in States
    BY <2>1, <2>2, SendWakes
  <2>5. a \in Q
    BY <2>3, <2>4, WokenOn, Zenon
  <2>6. PollRound(x, cmd, arg) = IF x.timeout = 0 THEN [w EXCEPT !.ok = FALSE] ELSE [a EXCEPT !.ok = b]
    BY Zenon DEF PollRound, After
  <2>7. b \in BOOLEAN
    BY Zenon
  <2> HIDE DEF w, a, b, Q
  <2> QED
    BY <2>3, <2>5, <2>6, <2>7, <1>1, Zenon
<1> HIDE DEF Q
<1>4. 2 ^ W \in 0 .. 2 ^ W /\ 0 \in 0 .. 2 ^ W /\ \A i \in 1 .. 2 ^ W : i \in 0 .. 2 ^ W /\ i - 1 \in 0 .. 2 ^ W
  BY SdAssumption
<1>5. /\ [s EXCEPT !.ok = TRUE] \in P[0]
      /\ \A i \in 1 .. 2 ^ W : \A x \in P[i - 1] : (IF x.ok THEN PollRound(x, cmd, arg) ELSE x) \in P[i]
  BY <1>2, <1>3, <1>4, Zenon
<1>6. P[2 ^ W] = Q
  BY <1>4, Zenon
<1> HIDE DEF P
<1>7. Poll(s, cmd, arg) \in P[2 ^ W]
  BY <1>5, PollRule, Zenon
<1> QED
  BY <1>6, <1>7 DEF Q

\* The type that a branch of the initialisation finds for the card: addresses count
\* sectors just for SDHC cards, unless the card takes no commands; and it finds none
\* for a card that is still idle.
Finds(s, i) ==
  /\ i[1] \in States /\ Keeps(s, i[1])
  /\ i[2] # "none" => i[1].card.mode # "idle"
  /\ i[2] \in {"none", "MMC", "SD1", "SD2", "SDHC"}
  /\ i[2] # "none" /\ ~Asleep(i[1].card) => (i[2] = "SDHC" <=> i[1].card.type = "SDHC")

\* The branch for cards that answer CMD8.
LEMMA InitV2Finds ==
  ASSUME NEW s \in States
  PROVE  Finds(s, InitV2(s))
<1> DEFINE p == Poll(s, 128 + 41, 1)
           w == Tick(p)
           q == send_cmd(w, 58, 0)
           ty == IF q.r # 0 THEN "none" ELSE IF q.card.type = "SDHC" THEN "SDHC" ELSE "SD2"
<1>1. Woken(s, 1, p) /\ p \in States
  BY PollWakes
<1>2. Woken(p, 1, w) /\ w \in States
  BY <1>1, TickWakes, Zenon
<1>3. Woken(w, 1, q) /\ q \in States /\ (q.r = 0 => q.card.mode # "idle")
  <2>1. Commanded(w, 58, 0, q)
    BY <1>2, SendDone
  <2>2. Woken(w, 1, q) /\ q \in States
    BY <1>2, SendWakes
  <2> HIDE DEF p, w, q
  <2> QED
    BY <2>1, <2>2 DEF Commanded
<1>4. InitV2(s) = IF p.timeout = 0 THEN <<w, "none">> ELSE <<q, ty>>
  BY Zenon DEF InitV2, After
<1> HIDE DEF p, w, q
<1>5. Woken(s, 1, w) /\ Woken(s, 1, q)
  <2>1. Woken(s, 1, w)
    BY <1>1, <1>2, WokenOn, Zenon
  <2> QED
    BY <2>1, <1>3, WokenOn, Zenon
<1>6. CASE p.timeout = 0
  BY <1>2, <1>4, <1>5, <1>6 DEF Finds, Woken
<1>7. CASE p.timeout # 0
  BY <1>3, <1>4, <1>5, <1>7 DEF Finds, Woken
<1> QED
  BY <1>6, <1>7

\* The branch for the others: an SDHC card that comes here stays asleep.
LEMMA InitV1Finds ==
  ASSUME NEW s \in States, Asleep(s.card)
  PROVE  Finds(s, InitV1(s))
<1> DEFINE w == Tick(s)
           a == IF s.timeout = 0 THEN w ELSE send_cmd(w, 128 + 41, 0)
           ty == IF s.timeout # 0 /\ a.r <= 1 THEN "SD1" ELSE "MMC"
           cmd == IF ty = "SD1" THEN 128 + 41 ELSE 1
           p == Poll(a, cmd, 0)
           v == Tick(p)
           q == send_cmd(v, 16, BL)
<1>1. Woken(s, 0, w) /\ w \in States
  BY TickWakes, Zenon
<1>2. Woken(w, 0, send_cmd(w, 128 + 41, 0)) /\ send_cmd(w, 128 + 41, 0) \in States
  BY <1>1, SendWakes
<1>3. Woken(s, 0, a) /\ a \in States
  BY <1>1, <1>2, WokenOn, Zenon
<1>4. cmd \in {1, 128 + 41} /\ 0 \in Nat /\ ty \in {"SD1", "MMC"}
  OBVIOUS
<1>5. Woken(a, 0, p) /\ p \in States
  <2>1. a \in States /\ cmd \in {1, 128 + 41} /\ 0 \in Nat
    BY <1>3, <1>4, Zenon
  <2> HIDE DEF w, a, cmd, ty
  <2> QED
    BY <2>1, PollWakes
<1>6. InitV1(s) = IF p.timeout # 0 THEN <<v, "none">> ELSE <<q, IF q.r = 0 THEN ty ELSE "none">>
  BY Zenon DEF InitV1, After
<1> HIDE DEF w, a, ty, cmd, p
<1>7. Woken(p, 0, v) /\ v \in States
  BY <1>5, TickWakes, Zenon
<1> HIDE DEF v
<1>8. Woken(v, 0, q) /\ q \in States /\ (q.r = 0 => q.card.mode # "idle")
  <2>1. Commanded(v, 16, BL, q)
    BY <1>7, SdAssumption, SendDone
  <2>2. Woken(v, 0, q) /\ q \in States
    BY <1>7, SdAssumption, SendWakes
  <2> HIDE DEF q
  <2> QED
    BY <2>1, <2>2 DEF Commanded
<1> HIDE DEF q
<1>9. Woken(s, 0, v) /\ Woken(s, 0, q)
  <2>1. Woken(s, 0, p)
    BY <1>3, <1>5, WokenOn, Zenon
  <2>2. Woken(s, 0, v)
    BY <2>1, <1>7, WokenOn, Zenon
  <2> QED
    BY <2>2, <1>8, WokenOn, Zenon
<1>10. q.card.type = s.card.type
  BY <1>9, Zenon DEF Woken, Keeps, Settles
<1>11. CASE p.timeout # 0
  BY <1>6, <1>7, <1>9, <1>11 DEF Finds, Woken
<1>12. CASE p.timeout = 0
  <2>1. ~Asleep(q.card) => q.card.type # "SDHC"
    BY <1>9, <1>10, Zenon DEF Woken
  <2> QED
    BY <2>1, <1>4, <1>6, <1>8, <1>9, <1>12 DEF Finds, Woken
<1> QED
  BY <1>11, <1>12

\* The type of a card in the idle state.
LEMMA IdentifyFinds ==
  ASSUME NEW s \in States, Asleep(s.card)
  PROVE  Finds(s, Identify(s))
<1> DEFINE e == [s EXCEPT !.timeout = Timeout]
           w == Tick(e)
           b == send_cmd(w, 8, 426)
<1>1. Keeps(s, e) /\ e \in States /\ e.card = s.card
  <2>1. s.card \in Cards
    BY DEF States
  <2>2. Settles(s.card, s.card)
    BY <2>1 DEF Settles
  <2> QED
    BY <2>2, SdAssumption DEF Keeps, States
<1>2. Keeps(e, w) /\ w \in States /\ w.card = s.card
  BY <1>1, TickKeeps, Zenon DEF Keeps
<1>3. Commanded(w, 8, 426, b)
  BY <1>2, SendDone
<1>4. Identify(s) = IF b.r # 1 THEN InitV1(b) ELSE IF Hits(b, "echo") THEN <<b, "none">> ELSE InitV2(b)
  BY Zenon DEF Identify, After
<1> HIDE DEF e, w, b
<1>5. b \in States /\ Keeps(s, b)
  BY <1>1, <1>2, <1>3, KeepsOn, Zenon DEF Commanded, Keeps
<1>6. Asleep(b.card)
  BY <1>2, <1>3 DEF Commanded
<1>7. PICK i : i = Identify(s) /\ Finds(b, i)
  <2>1. Finds(b, <<b, "none">>)
    <3>1. b.card \in Cards
      BY <1>5 DEF States
    <3>2. Settles(b.card, b.card)
      BY <3>1 DEF Settles
    <3> QED
      BY <3>2, <1>5 DEF Finds, Keeps
  <2> QED
    BY <2>1, <1>4, <1>5, <1>6, InitV1Finds, InitV2Finds, Zenon
<1>8. Keeps(s, i[1])
  BY <1>5, <1>7, KeepsOn, Zenon DEF Finds
<1> QED
  BY <1>6, <1>7, <1>8, Zenon DEF Finds

\* The state between calls: the bus is free, unless a call does not return, a card that
\* was initialised is awake, and addresses are right.
RestInv(s) ==
  /\ s \in States
  /\ s.hung \/ ~s.sel
  /\ s.fifo = 0
  /\ s.Stat = {} /\ s.on => s.card.mode # "idle"
  /\ ~Asleep(s.card) /\ s.on => (s.CardType = "SDHC" <=> s.card.type = "SDHC")

\* disk_initialize.
LEMMA InitializeKeeps ==
  ASSUME NEW s \in States, RestInv(s)
  PROVE  RestInv(disk_initialize(s)) /\ Settles(s.card, disk_initialize(s).card)
<1> DEFINE e == power_on(power_off(s))
           a == send_cmd(e, 0, 0)
           i == IF a.r = 1 THEN Identify(a) ELSE <<a, "none">>
           f == deselect(i[1])
           d == [f EXCEPT !.CardType = i[2]]
           t == disk_initialize(s)
<1>1. e \in States /\ e.card = s.card /\ e.fifo = 0 /\ e.on
  BY DEF power_on, power_off, spi_init, spi_disable, States
<1>2. t = IF i[2] # "none" THEN [d EXCEPT !.Stat = {}] ELSE power_off(d)
  BY Zenon DEF disk_initialize, After
<1>3. Commanded(e, 0, 0, a)
  BY <1>1, SendDone
<1> HIDE DEF e, a
<1>4. /\ a \in States /\ a.fifo = 0 /\ Settles(s.card, a.card) /\ a.card \in Cards
      /\ a.r = 1 => Asleep(a.card)
  BY <1>1, <1>3 DEF Commanded, Keeps, RestInv, States
<1>5. PICK k : k = i /\ Finds(a, k)
  <2>1. CASE a.r = 1
    BY <2>1, <1>4, IdentifyFinds, Zenon
  <2>2. CASE a.r # 1
    <3>1. Settles(a.card, a.card)
      BY <1>4 DEF Settles
    <3>2. Keeps(a, a)
      BY <3>1, <1>4, Zenon DEF Keeps
    <3>3. i = <<a, "none">>
      BY <2>2, Zenon
    <3> HIDE DEF i
    <3> QED
      BY <3>2, <3>3, <1>4 DEF Finds
  <2> QED
    BY <2>1, <2>2, Zenon
<1> DEFINE q == k[1]
           ty == k[2]
<1>6. /\ q \in States /\ q.fifo = 0 /\ (ty # "none" => q.card.mode # "idle")
      /\ ty \in {"none", "MMC", "SD1", "SD2", "SDHC"}
      /\ ty # "none" /\ ~Asleep(q.card) => (ty = "SDHC" <=> q.card.type = "SDHC")
  BY <1>4, <1>5 DEF Finds, Keeps
<1>7. Settles(s.card, q.card)
  BY <1>4, <1>5, SettlesOn, Zenon DEF Finds, Keeps
<1> HIDE DEF i
<1>8. d = [deselect(q) EXCEPT !.CardType = ty]
  BY <1>5, Zenon
<1> HIDE DEF d, q, ty
<1>9. /\ d \in States /\ d.fifo = 0 /\ d.card = q.card /\ d.CardType = ty /\ ~d.sel
  BY <1>6, <1>8 DEF deselect, spi_deselect_slave, States
<1>10. CASE ty # "none"
  <2>1. t = [d EXCEPT !.Stat = {}]
    BY <1>2, <1>5, <1>10, Zenon DEF ty
  <2>2. t \in States /\ t.fifo = 0 /\ t.card = q.card /\ t.CardType = ty /\ ~t.sel
    BY <2>1, <1>9 DEF States
  <2> QED
    BY <2>2, <1>6, <1>7, <1>10 DEF RestInv
<1>11. CASE ty = "none"
  <2>1. t = [d EXCEPT !.on = FALSE, !.fifo = 0]
    BY <1>2, <1>5, <1>11, Zenon DEF ty, power_off, spi_disable
  <2>2. t \in States /\ t.fifo = 0 /\ t.card = q.card /\ ~t.on /\ ~t.sel
    BY <2>1, <1>9 DEF States
  <2> QED
    BY <2>2, <1>6, <1>7 DEF RestInv
<1> QED
  BY <1>10, <1>11

----------------------------------------------------------------------------
(* disk_read. *)

\* What the other calls do until they open a transfer: nobody wakes the card, or puts
\* it to sleep.
Quiet(s, t) ==
  /\ Keeps(s, t)
  /\ t.card.mode = "idle" => s.card.mode = "idle"
  /\ Asleep(s.card) => Asleep(t.card)

\* One function after the other.
LEMMA QuietOn ==
  ASSUME NEW s, NEW t, NEW u, Quiet(s, t), Quiet(t, u)
  PROVE  Quiet(s, u)
  BY KeepsOn, Zenon DEF Quiet

\* A command that neither resets the card nor wakes it is quiet.
LEMMA CommandedQuiet ==
  ASSUME NEW s, NEW cmd, NEW arg, NEW t, Commanded(s, cmd, arg, t), cmd \notin {0, 1, 41}
  PROVE  Quiet(s, t) /\ t \in States
<1>1. cmd # 0 /\ cmd \notin {1, 41}
  OBVIOUS
<1>2. Keeps(s, t)
  BY Zenon DEF Commanded
<1>3. t.card.mode = "idle" => s.card.mode = "idle"
  BY <1>1, Zenon DEF Commanded
<1>4. Asleep(s.card) => Asleep(t.card)
  BY <1>1, Zenon DEF Commanded
<1>5. t \in States
  BY <1>2, Zenon DEF Keeps
<1> QED
  BY <1>2, <1>3, <1>4, <1>5, Zenon DEF Quiet

\* A byte address divided by the size of a sector.
LEMMA DivMul ==
  ASSUME NEW k \in Nat, NEW b \in Nat, b > 0
  PROVE  (k * b) % b = 0 /\ (k * b) \div b = k
  OBVIOUS

\* The card takes the address of a sector for that sector.
LEMMA AddressRight ==
  ASSUME NEW s \in States, RestInv(s), s.on, ~Asleep(s.card), NEW sector \in Sectors
  PROVE  SectorOf(s.card, Address(s, sector)) = sector
<1>1. sector \in Nat /\ sector < NSec /\ BL \in Nat /\ BL > 0
  BY SdAssumption DEF Sectors
<1>2. (sector * BL) % BL = 0 /\ (sector * BL) \div BL = sector
  BY <1>1, DivMul
<1>3. s.CardType = "SDHC" <=> s.card.type = "SDHC"
  BY DEF RestInv
<1>4. CASE s.card.type = "SDHC"
  BY <1>1, <1>3, <1>4 DEF SectorOf, Address
<1>5. CASE s.card.type # "SDHC"
  <2>1. Address(s, sector) = sector * BL
    BY <1>3, <1>5 DEF Address
  <2> QED
    BY <2>1, <1>1, <1>2, <1>5 DEF SectorOf
<1> QED
  BY <1>4, <1>5

\* An address is a number.
LEMMA AddressNat ==
  ASSUME NEW s, NEW sector \in Sectors
  PROVE  Address(s, sector) \in Nat
<1>1. sector \in Nat /\ BL \in Nat
  BY SdAssumption DEF Sectors
<1>2. sector * BL \in Nat
  BY <1>1
<1> QED
  BY <1>1, <1>2 DEF Address

\* rcvr_datablock: a block that arrives is the one at which the card stands.
LEMMA ReceiveKeeps ==
  ASSUME NEW s \in States
  PROVE  LET t == rcvr_datablock(s)
             c == s.card
         IN
         /\ Quiet(s, t) /\ t.sel = s.sel /\ t.card.mode # "reg"
         /\ t.ok /\ c.mode # "reg" =>
              /\ c.cur < NSec /\ t.card.cur = c.cur + 1 /\ t.card.present
              /\ t.card.pend = c.pend /\ t.card.mem = c.mem
              /\ t.blocks = Append(s.blocks, c.mem[c.cur])
<1> DEFINE e == Exchange(s)
           c == e.card
           none == ~spi_send(e) \/ Hits(e, "token") \/ c.mode \notin {"reg", "block", "blocks"}
                     \/ (c.mode # "reg" /\ c.cur = NSec)
           mode == IF c.mode \in {"reg", "block"} THEN "ready" ELSE c.mode
           cur == IF none \/ c.mode = "reg" THEN c.cur ELSE c.cur + 1
           d == [c EXCEPT !.mode = mode, !.cur = cur]
           more == IF c.mode = "reg" THEN e.blocks ELSE Append(e.blocks, c.mem[c.cur])
           t == rcvr_datablock(s)
<1>1. /\ Keeps(s, e) /\ e.sel = s.sel /\ e.blocks = s.blocks /\ e \in States
      /\ e.card = s.card \/ (~e.card.present /\ e.card.mode = "off" /\ e.card.pend = <<>>)
  BY ExchangeKeeps, Zenon DEF Keeps
<1>2. t = IF none THEN [e EXCEPT !.card = d, !.ok = FALSE]
          ELSE [rcvr_spi_multi(e) EXCEPT !.card = d, !.ok = TRUE,
                  !.blocks = IF c.mode = "reg" THEN @ ELSE Append(@, c.mem[c.cur])]
  BY Zenon DEF rcvr_datablock, After
<1> HIDE DEF e
<1>3. c \in Cards /\ c.mode \in Modes /\ c.cur \in 0 .. NSec /\ NSec \in Nat
  BY <1>1, SdAssumption DEF States, Cards, CardRecords
<1>4. /\ mode \in Modes /\ mode # "reg" /\ (mode = "idle" => c.mode = "idle")
      /\ c.mode \in {"off", "idle"} => mode = c.mode
  BY <1>3 DEF Modes
<1>5. cur \in 0 .. NSec /\ (none => cur = c.cur) /\ (~none /\ c.mode # "reg" => c.cur < NSec /\ cur = c.cur + 1)
  BY <1>3
<1>6. ~none => spi_send(e) /\ c.mode \in {"reg", "block", "blocks"}
  OBVIOUS
<1> HIDE DEF none, mode, cur
<1>7. /\ d \in Cards /\ d.mode = mode /\ d.cur = cur /\ d.mem = c.mem /\ d.pend = c.pend
      /\ d.present = c.present /\ d.type = c.type
  BY <1>3, <1>4, <1>5 DEF Cards, CardRecords, Modes
<1> HIDE DEF d
<1>8. Settles(c, d)
  BY <1>3, <1>7 DEF Settles, ViewOf
<1>9. Quiet(s, e)
  BY <1>1 DEF Quiet, Asleep
<1> HIDE DEF t
<1>10. CASE none
  <2>1. t = [e EXCEPT !.card = d, !.ok = FALSE]
    BY <1>2, <1>10, Zenon
  <2>2. Keeps(e, t) /\ t.card = d /\ t.sel = e.sel /\ ~t.ok
    BY <2>1, <1>1, <1>7, <1>8 DEF Keeps, States
  <2>3. t.card.mode # "reg" /\ (t.card.mode = "idle" => e.card.mode = "idle")
        /\ (Asleep(e.card) => Asleep(t.card))
    BY <2>2, <1>4, <1>7 DEF Asleep
  <2> QED
    BY <2>2, <2>3, <1>1, <1>9, QuietOn DEF Quiet, t
<1>11. CASE ~none
  <2> DEFINE v == rcvr_spi_multi(e)
  <2>1. /\ v \in States /\ v.sel = e.sel /\ v.blocks = e.blocks /\ v.card = e.card /\ v.fifo = e.fifo
        /\ v.Stat = e.Stat /\ v.CardType = e.CardType /\ v.on = e.on /\ v.hung = e.hung
    BY <1>1 DEF rcvr_spi_multi, spi_recv_multi, States
  <2>2. t = [v EXCEPT !.card = d, !.ok = TRUE,
               !.blocks = IF c.mode = "reg" THEN @ ELSE Append(@, c.mem[c.cur])]
    BY <1>2, <1>11, Zenon
  <2> HIDE DEF v
  <2>3. t = [v EXCEPT !.card = d, !.ok = TRUE, !.blocks = more]
    BY <2>1, <2>2
  <2>4. more \in Seq(Data) /\ (c.mode # "reg" => more = Append(s.blocks, c.mem[c.cur]))
    <3>1. e.blocks \in Seq(Data)
      BY <1>1 DEF States
    <3>2. CASE c.mode = "reg"
      BY <3>1, <3>2
    <3>3. CASE c.mode # "reg"
      <4>1. c.cur \in Sectors /\ c.mem \in [Sectors -> Data]
        BY <3>3, <1>3, <1>5, <1>11 DEF Cards, CardRecords, Sectors
      <4> QED
        BY <4>1, <3>1, <3>3, <1>1
    <3> QED
      BY <3>2, <3>3
  <2> HIDE DEF more
  <2>5. Keeps(e, t) /\ t.card = d /\ t.sel = e.sel /\ t.blocks = more
    BY <2>1, <2>3, <2>4, <1>7, <1>8 DEF Keeps, States
  <2>6. e.card = s.card /\ e.card.present
    BY <1>1, <1>6, <1>11 DEF spi_send
  <2>7. t.card.mode # "reg" /\ (t.card.mode = "idle" => e.card.mode = "idle")
        /\ (Asleep(e.card) => Asleep(t.card))
    BY <2>5, <1>4, <1>7 DEF Asleep
  <2>8. Quiet(s, t) /\ t.sel = s.sel
    BY <2>5, <2>7, <1>1, <1>9, QuietOn DEF Quiet
  <2> QED
    BY <2>4, <2>5, <2>6, <2>7, <2>8, <1>5, <1>7, <1>11 DEF t
<1> QED
  BY <1>10, <1>11

\* The blocks that have arrived after i rounds of disk_read from a on.
HasRead(a, x, i) ==
  /\ Quiet(a, x) /\ x.sel = a.sel /\ x.card.mode # "reg"
  /\ x.ok => /\ x.card.mem = a.card.mem /\ x.card.cur = a.card.cur + i
             /\ Len(x.blocks) = i
             /\ \A j \in 1 .. i : x.blocks[j] = a.card.mem[a.card.cur + j - 1]

\* A round more.
LEMMA ReadsMore ==
  ASSUME NEW a \in States, NEW x \in States, NEW i \in Nat, x.ok, HasRead(a, x, i)
  PROVE  HasRead(a, rcvr_datablock(x), i + 1) /\ rcvr_datablock(x) \in States
<1> DEFINE y == rcvr_datablock(x)
           c == x.card
<1>1. /\ Quiet(x, y) /\ y.sel = x.sel /\ y.card.mode # "reg"
      /\ y.ok /\ c.mode # "reg" =>
              /\ c.cur < NSec /\ y.card.cur = c.cur + 1 /\ y.card.present
              /\ y.card.pend = c.pend /\ y.card.mem = c.mem
              /\ y.blocks = Append(x.blocks, c.mem[c.cur])
  BY ReceiveKeeps, Zenon
<1> HIDE DEF y
<1>2. Quiet(a, y) /\ y.sel = a.sel /\ y \in States
  BY <1>1, QuietOn, Zenon DEF HasRead, Quiet, Keeps
<1>3. ASSUME y.ok
      PROVE  /\ y.card.mem = a.card.mem /\ y.card.cur = a.card.cur + (i + 1)
             /\ Len(y.blocks) = i + 1
             /\ \A j \in 1 .. i + 1 : y.blocks[j] = a.card.mem[a.card.cur + j - 1]
  <2>1. a.card.cur \in Nat /\ x.blocks \in Seq(Data)
    BY SdAssumption DEF States, Cards, CardRecords
  <2>2. y.card.mem = a.card.mem /\ y.card.cur = a.card.cur + (i + 1)
    <3>1. y.card.mem = x.card.mem /\ y.card.cur = x.card.cur + 1
      BY <1>1, <1>3, Zenon DEF HasRead
    <3>2. x.card.mem = a.card.mem /\ x.card.cur = a.card.cur + i
      BY Zenon DEF HasRead
    <3> QED
      BY <2>1, <3>1, <3>2
  <2>3. y.blocks = Append(x.blocks, a.card.mem[a.card.cur + i]) /\ Len(x.blocks) = i
    BY <1>1, <1>3 DEF HasRead
  <2>4. Len(y.blocks) = i + 1 /\ y.blocks[i + 1] = a.card.mem[a.card.cur + i]
    BY <2>1, <2>3
  <2>5. \A j \in 1 .. i : y.blocks[j] = x.blocks[j]
    BY <2>1, <2>3
  <2>6. \A j \in 1 .. i : x.blocks[j] = a.card.mem[a.card.cur + j - 1]
    BY DEF HasRead
  <2>7. (a.card.cur + (i + 1)) - 1 = a.card.cur + i
    BY <2>1
  <2> QED
    BY <2>2, <2>4, <2>5, <2>6, <2>7
<1>4. HasRead(a, y, i + 1)
  BY <1>1, <1>2, <1>3, Zenon DEF HasRead
<1> QED
  BY <1>2, <1>4 DEF y

\* The loop of disk_read.
LEMMA ReadLoop ==
  ASSUME NEW a \in States, NEW count \in Nat, a.card.mode # "reg", a.blocks = <<>>
  PROVE  HasRead(a, ReadBlocks(a, count), count) /\ ReadBlocks(a, count) \in States
<1> DEFINE P == [i \in 0 .. count |-> {x \in States : HasRead(a, x, i)}]
           z == [a EXCEPT !.ok = TRUE]
<1>1. z \in States /\ HasRead(a, z, 0)
  <2>1. a.card \in Cards /\ a.card.cur \in Nat
    BY SdAssumption DEF States, Cards, CardRecords
  <2>2. Settles(a.card, a.card)
    BY <2>1 DEF Settles
  <2>3. Keeps(a, z) /\ z.card = a.card /\ z.sel = a.sel /\ z.blocks = <<>>
    BY <2>2 DEF Keeps, States
  <2> HIDE DEF z
  <2> QED
    BY <2>1, <2>3 DEF HasRead, Quiet, Keeps
<1>2. ASSUME NEW i \in 1 .. count, NEW x \in P[i - 1]
      PROVE  (IF x.ok THEN rcvr_datablock(x) ELSE x) \in P[i]
  <2>1. i - 1 \in Nat /\ (i - 1) + 1 = i /\ i - 1 \in 0 .. count /\ i \in 0 .. count
    OBVIOUS
  <2>2. x \in States /\ HasRead(a, x, i - 1)
    BY <2>1
  <2>3. P[i] = {y \in States : HasRead(a, y, i)}
    BY <2>1
  <2> HIDE DEF P
  <2>4. CASE x.ok
    <3>1. HasRead(a, rcvr_datablock(x), (i - 1) + 1) /\ rcvr_datablock(x) \in States
      BY <2>1, <2>2, <2>4, ReadsMore, Zenon
    <3> QED
      BY <3>1, <2>1, <2>3, <2>4, Zenon
  <2>5. CASE ~x.ok
    BY <2>2, <2>3, <2>5, Zenon DEF HasRead
  <2> QED
    BY <2>4, <2>5, Zenon
<1>3. z \in P[0] /\ P[count] = {x \in States : HasRead(a, x, count)}
  BY <1>1
<1> HIDE DEF P
<1>4. ReadBlocks(a, count) \in P[count]
  BY <1>2, <1>3, ReadRule, Zenon
<1> QED
  BY <1>3, <1>4

\* What a read returns is what the sectors hold.
Reads(s, sector, count, t) ==
  Len(t.blocks) = count /\ \A j \in 1 .. count : t.blocks[j] = ViewOf(s.card)[sector + j - 1]

\* What holds between calls does so again when the card is deselected, or the call does
\* not return, and the card has neither been woken nor put to sleep.
LEMMA RestKept ==
  ASSUME NEW s \in States, RestInv(s), NEW t, Holds(s, t), t.hung \/ ~t.sel,
         t.card.mode = "idle" => s.card.mode = "idle",
         Asleep(s.card) => Asleep(t.card)
  PROVE  RestInv(t)
  BY DEF RestInv, Holds

\* deselect at the end of a call.
LEMMA DeselectKeeps ==
  ASSUME NEW s \in States
  PROVE  LET t == deselect(s) IN
         Keeps(s, t) /\ ~t.sel /\ t.card = s.card /\ t.ok = s.ok /\ t.blocks = s.blocks
<1>1. s.card \in Cards
  BY DEF States
<1>2. Settles(s.card, s.card)
  BY <1>1 DEF Settles
<1> QED
  BY <1>2 DEF deselect, spi_deselect_slave, Keeps, States

\* The end of a call.
LEMMA ReturnKeeps ==
  ASSUME NEW s \in States
  PROVE  LET t == Return(s) IN
         /\ Keeps(s, t) /\ (t.hung \/ ~t.sel)
         /\ t.card = s.card /\ t.ok = s.ok /\ t.blocks = s.blocks
<1>1. s.card \in Cards
  BY DEF States
<1>2. Settles(s.card, s.card)
  BY <1>1 DEF Settles
<1> QED
  BY <1>2 DEF Return, deselect, spi_deselect_slave, Keeps, States

\* The result of a call is stored.
LEMMA OkKeeps ==
  ASSUME NEW s \in States, NEW b \in BOOLEAN
  PROVE  LET t == [s EXCEPT !.ok = b] IN
         Keeps(s, t) /\ t.sel = s.sel /\ t.card = s.card /\ t.ok = b /\ t.blocks = s.blocks
<1>1. s.card \in Cards
  BY DEF States
<1>2. Settles(s.card, s.card)
  BY <1>1 DEF Settles
<1> QED
  BY <1>2 DEF Keeps, States

\* disk_read returns the sectors that were asked for, and fails while a transfer is open.
LEMMA ReadKeeps ==
  ASSUME NEW s \in States, RestInv(s), s.on, s.blocks = <<>>,
         NEW sector \in Sectors, NEW count \in Nat \ {0}
  PROVE  LET t == disk_read(s, sector, count) IN
         /\ RestInv(t) /\ Settles(s.card, t.card)
         /\ t.ok => s.card.mode = "ready" /\ Reads(s, sector, count, t)
<1> DEFINE cmd == IF count > 1 THEN 18 ELSE 17
           arg == Address(s, sector)
           a == send_cmd(s, cmd, arg)
           b == ReadBlocks(a, count)
           m == send_cmd(b, 12, 0)
           e == IF count > 1 THEN [m EXCEPT !.ok = b.ok] ELSE b
           t == disk_read(s, sector, count)
<1>1. t = IF a.r = 0 THEN Return(e) ELSE [deselect(a) EXCEPT !.ok = FALSE]
  BY Zenon DEF disk_read, Transfer, After
<1>2. Commanded(s, cmd, arg, a)
  <2>1. arg \in Nat /\ cmd \in 0 .. 127
    BY AddressNat
  <2> HIDE DEF arg, cmd
  <2> QED
    BY <2>1, SendDone, Zenon
<1> HIDE DEF a, t
<1>3. a \in States /\ Keeps(s, a) /\ a.blocks = <<>>
  BY <1>2 DEF Commanded, Keeps
<1>4. (Asleep(s.card) => Asleep(a.card)) /\ (a.card.mode = "idle" => s.card.mode = "idle")
  BY <1>2 DEF Commanded
<1>5. CASE a.r # 0
  <2>1. t = [deselect(a) EXCEPT !.ok = FALSE]
    BY <1>1, <1>5, Zenon
  <2> DEFINE d == deselect(a)
  <2>2. Keeps(a, d) /\ d \in States /\ ~d.sel /\ d.card = a.card
    BY <1>3, DeselectKeeps, Zenon DEF Keeps
  <2> HIDE DEF d
  <2>3. Keeps(d, t) /\ t.sel = d.sel /\ t.card = d.card /\ ~t.ok
    BY <2>1, <2>2, OkKeeps DEF d
  <2>4. Keeps(s, t)
    BY <2>2, <2>3, <1>3, KeepsOn, Zenon
  <2>5. RestInv(t)
    BY <2>2, <2>3, <2>4, <1>4, KeepsHolds, RestKept, Zenon
  <2> QED
    BY <2>3, <2>4, <2>5, Zenon DEF Keeps, t
<1>6. CASE a.r = 0
  <2>1. Opened(s, cmd, arg, a) /\ Moves(17) = "block" /\ Moves(18) = "blocks"
    BY <1>2, <1>6 DEF Commanded, Moves
  <2>2. /\ a.card.cur = sector /\ a.card.mem = ViewOf(s.card) /\ s.card.mode = "ready"
        /\ a.card.mode # "reg"
    <3>1. a.card.cur = sector
      BY <2>1, AddressRight DEF Opened, Asleep
    <3>2. a.card.mem = ViewOf(s.card)
      BY <2>1, <1>3 DEF Opened, Keeps, Settles, ViewOf
    <3> QED
      BY <3>1, <3>2, <2>1 DEF Opened
  <2>3. HasRead(a, b, count) /\ b \in States
    BY <2>2, <1>3, ReadLoop
  <2> HIDE DEF b
  <2>4. Quiet(s, e) /\ e \in States /\ e.ok = b.ok /\ e.blocks = b.blocks
    <3>1. Quiet(s, b)
      <4>1. Quiet(s, a)
        BY <1>3, <1>4, Zenon DEF Quiet
      <4> QED
        BY <4>1, <2>3, QuietOn, Zenon DEF HasRead
    <3>2. CASE count = 1
      <4>1. e = b
        BY <3>2
      <4> HIDE DEF e
      <4> QED
        BY <4>1, <3>1, <2>3, Zenon
    <3>3. CASE count > 1
      <4>1. Commanded(b, 12, 0, m)
        <5>1. 12 \in 0 .. 127 /\ 0 \in Nat
          OBVIOUS
        <5> QED
          BY <5>1, <2>3, SendDone, Zenon
      <4> HIDE DEF m
      <4>2. m \in States /\ Quiet(b, m) /\ m.blocks = b.blocks
        BY <4>1 DEF Commanded, Keeps, Quiet
      <4>3. e = [m EXCEPT !.ok = b.ok] /\ b.ok \in BOOLEAN
        BY <3>3, <2>3 DEF States
      <4> HIDE DEF e
      <4>4. Keeps(m, e) /\ e.card = m.card /\ e.ok = b.ok /\ e.blocks = m.blocks
        BY <4>2, <4>3, OkKeeps, Zenon
      <4>5. Quiet(m, e)
        BY <4>4, Zenon DEF Quiet
      <4>6. Quiet(s, m)
        BY <4>2, <3>1, QuietOn, Zenon
      <4>7. Quiet(s, e)
        BY <4>5, <4>6, QuietOn, Zenon
      <4> QED
        BY <4>2, <4>4, <4>7, Zenon DEF Keeps
    <3> QED
      BY <3>2, <3>3
  <2> HIDE DEF e
  <2>5. t = Return(e)
    BY <1>1, <1>6, Zenon
  <2>6. /\ Keeps(e, t) /\ (t.hung \/ ~t.sel)
        /\ t.card = e.card /\ t.ok = e.ok /\ t.blocks = e.blocks
    BY <2>4, <2>5, ReturnKeeps, Zenon
  <2>7. Keeps(s, t) /\ RestInv(t)
    <3>1. Keeps(s, t)
      BY <2>4, <2>6, KeepsOn, Zenon DEF Quiet
    <3> QED
      BY <3>1, <2>4, <2>6, KeepsHolds, RestKept, Zenon DEF Quiet
  <2>8. t.ok => s.card.mode = "ready" /\ Reads(s, sector, count, t)
    BY <2>2, <2>3, <2>4, <2>6 DEF Reads, HasRead
  <2> QED
    BY <2>7, <2>8, Zenon DEF Keeps, t
<1> QED
  BY <1>5, <1>6, Zenon

----------------------------------------------------------------------------
(* disk_write. *)

\* The array m with the first k of the blocks ds written from sector on.
Part(m, sector, ds, k) ==
  [i \in Sectors |-> IF i - sector + 1 \in 1 .. k THEN ds[i - sector + 1] ELSE m[i]]

\* The card goes from c to e and its sectors become m.
Puts(c, m, e) ==
  /\ e.type = c.type /\ (e.present => c.present)
  /\ \A i \in Sectors : e.mem[i] \in {c.mem[i], ViewOf(c)[i], m[i]}
  /\ e.present => ViewOf(e) = m

\* A card that settles first, or afterwards.
LEMMA PutsOn ==
  ASSUME NEW c, NEW d \in Cards, NEW e, NEW m,
         \/ Settles(c, d) /\ Puts(d, m, e)
         \/ Puts(c, m, d) /\ Settles(d, e)
  PROVE  Puts(c, m, e)
<1>1. ASSUME NEW i \in Sectors PROVE e.mem[i] \in {c.mem[i], ViewOf(c)[i], m[i]}
  <2>1. ~d.present => ViewOf(d)[i] = d.mem[i]
    BY DEF Cards, ViewOf
  <2>2. CASE Settles(c, d) /\ Puts(d, m, e)
    BY <2>1, <2>2 DEF Settles, Puts
  <2>3. CASE Puts(c, m, d) /\ Settles(d, e)
    BY <2>1, <2>3 DEF Settles, Puts
  <2> QED
    BY <2>2, <2>3
<1> QED
  BY <1>1 DEF Settles, Puts

\* The card takes the block x for the sector at which it stands.
Accepts(c, x, e) ==
  \E v \in Cards, p \in Cards :
    /\ Settles(c, v) /\ v.present /\ v.pend = <<>> /\ v.cur = c.cur /\ v.cur < NSec
    /\ p.type = v.type /\ p.present /\ p.mem = v.mem /\ p.pend = <<v.cur, x>>
    /\ Settles(p, e) /\ e.cur = c.cur + 1

\* One block more.
LEMMA AcceptPuts ==
  ASSUME NEW c0 \in Cards, NEW c \in Cards, NEW e \in Cards, NEW ds, NEW k \in Nat,
         NEW sector \in Sectors, c.cur = sector + k,
         Puts(c0, Part(ViewOf(c0), sector, ds, k), c), Accepts(c, ds[k + 1], e)
  PROVE  Puts(c0, Part(ViewOf(c0), sector, ds, k + 1), e)
<1> DEFINE m == Part(ViewOf(c0), sector, ds, k)
           q == Part(ViewOf(c0), sector, ds, k + 1)
           x == ds[k + 1]
<1>1. PICK v \in Cards, p \in Cards :
        /\ Settles(c, v) /\ v.present /\ v.pend = <<>> /\ v.cur = c.cur /\ v.cur < NSec
        /\ p.type = v.type /\ p.present /\ p.mem = v.mem /\ p.pend = <<v.cur, x>>
        /\ Settles(p, e) /\ e.cur = c.cur + 1
  BY Zenon DEF Accepts
<1>2. sector \in Nat /\ NSec \in Nat /\ \A i \in Sectors : i \in Nat
  BY SdAssumption DEF Sectors
<1>3. /\ m \in [Sectors -> {m[i] : i \in Sectors}] /\ q = [m EXCEPT ![sector + k] = x]
  <2>1. \A i \in Sectors : (i - sector + 1 \in 1 .. k + 1) <=> (i - sector + 1 \in 1 .. k \/ i = sector + k)
    BY <1>2
  <2>2. (sector + k) - sector + 1 = k + 1
    BY <1>2
  <2>3. \A i \in Sectors : i = sector + k => i - sector + 1 = k + 1
    BY <1>2
  <2> QED
    BY <2>1, <2>2, <2>3 DEF Part
<1>4. \A i \in Sectors : m[i] \in {ViewOf(c0)[i], q[i]}
  BY <1>2 DEF Part
<1> HIDE DEF m, q, x
<1>5. Puts(c0, m, v)
  BY <1>1, PutsOn, Zenon DEF m
<1>6. v.mem = m /\ ViewOf(p) = q /\ p.mem = m
  <2>1. ViewOf(v) = m /\ ViewOf(v) = v.mem
    BY <1>1, <1>5, Zenon DEF Puts, ViewOf
  <2>2. p.pend # <<>> /\ p.pend[1] = sector + k /\ p.pend[2] = x
    BY <1>1
  <2>3. ViewOf(p) = [p.mem EXCEPT ![sector + k] = x]
    BY <2>2, Zenon DEF ViewOf
  <2> QED
    BY <2>1, <2>3, <1>1, <1>3, Zenon
<1>7. Puts(c0, q, p)
  <2>1. p.type = c0.type /\ c0.present
    BY <1>1, <1>5, Zenon DEF Puts
  <2>2. \A i \in Sectors : p.mem[i] \in {c0.mem[i], ViewOf(c0)[i], q[i]}
    BY <1>4, <1>6
  <2> QED
    BY <1>6, <2>1, <2>2, Zenon DEF Puts
<1>8. Puts(c0, q, e)
  BY <1>1, <1>7, PutsOn, Zenon
<1> QED
  BY <1>8 DEF q

\* The card takes a block or refuses it.
LEMMA TakeKeeps ==
  ASSUME NEW s \in States, s.card.pend = <<>>, NEW x \in Data
  PROVE  LET t == TakeBlock(s, x) IN
         /\ Holds(s, t) /\ t.sel = s.sel
         /\ t.card.mode \in {s.card.mode, "ready"}
         /\ ~t.ok => Settles(s.card, t.card)
         /\ t.ok => /\ s.card.present /\ s.card.cur < NSec
                    /\ t.card.present /\ t.card.mem = s.card.mem /\ t.card.pend = <<s.card.cur, x>>
                    /\ t.card.cur = s.card.cur + 1
<1> DEFINE c == s.card
           taken == spi_send(s) /\ ~Hits(s, "reject") /\ c.mode \in {"write", "writes"} /\ c.cur < NSec
           after == IF taken THEN [c EXCEPT !.pend = <<c.cur, x>>, !.cur = @ + 1] ELSE c
           d == [after EXCEPT !.mode = IF @ = "write" THEN "ready" ELSE @]
           t == TakeBlock(s, x)
<1>1. /\ t = IF Hits(s, "stuck") THEN [s EXCEPT !.hung = TRUE, !.ok = FALSE]
              ELSE [s EXCEPT !.card = d, !.ok = taken]
      /\ taken \in BOOLEAN
  BY Zenon DEF TakeBlock
<1>2. c \in Cards /\ NSec \in Nat /\ c.cur \in 0 .. NSec /\ (taken => c.present /\ c.cur < NSec)
  BY SdAssumption DEF States, Cards, CardRecords, spi_send
<1> HIDE DEF t, taken
<1>3. /\ after \in Cards /\ after.mode = c.mode /\ after.type = c.type /\ after.mem = c.mem
      /\ taken => after.present /\ after.pend = <<c.cur, x>> /\ after.cur = c.cur + 1
      /\ ~taken => after = c
  <2>1. CASE taken
    <3> DEFINE e == [c EXCEPT !.pend = <<c.cur, x>>]
    <3>1. c.cur \in Sectors
      BY <1>2, <2>1 DEF Sectors
    <3>2. e \in Cards /\ e.mode = c.mode /\ e.type = c.type /\ e.mem = c.mem /\ e.present
          /\ e.pend = <<c.cur, x>> /\ e.cur = c.cur
      BY <1>2, <2>1, <3>1 DEF Cards, CardRecords
    <3>3. after = [e EXCEPT !.cur = c.cur + 1]
      BY <1>2, <2>1 DEF Cards, CardRecords
    <3>4. c.cur + 1 \in 0 .. NSec
      BY <1>2, <2>1
    <3> HIDE DEF e, after, c
    <3>5. /\ after \in Cards /\ after.mode = e.mode /\ after.type = e.type /\ after.mem = e.mem
          /\ after.present = e.present /\ after.pend = e.pend /\ after.cur = c.cur + 1
      BY <3>2, <3>3, <3>4 DEF Cards, CardRecords
    <3> QED
      BY <2>1, <3>2, <3>5, Zenon
  <2>2. CASE ~taken
    BY <1>2, <2>2
  <2> QED
    BY <2>1, <2>2
<1> HIDE DEF after
<1>4. /\ d \in Cards /\ d.mode \in {c.mode, "ready"} /\ d.type = c.type /\ d.mem = c.mem
      /\ d.present = after.present /\ d.pend = after.pend /\ d.cur = after.cur
  BY <1>3 DEF Cards, CardRecords, Modes
<1> HIDE DEF d
<1>5. ~taken => Settles(c, d)
  BY <1>3, <1>4 DEF Settles, ViewOf
<1>6. CASE ~Hits(s, "stuck")
  <2>1. Holds(s, t) /\ t.sel = s.sel /\ t.card = d /\ t.ok = taken
    BY <1>1, <1>2, <1>4, <1>6 DEF Holds, States
  <2> QED
    BY <2>1, <1>2, <1>3, <1>4, <1>5, Zenon DEF t
<1>7. CASE Hits(s, "stuck")
  <2>1. Holds(s, t) /\ t.sel = s.sel /\ t.card = c /\ ~t.ok
    BY <1>1, <1>2, <1>7 DEF Holds, States
  <2>2. Settles(c, c)
    BY <1>2 DEF Settles
  <2> QED
    BY <2>1, <2>2, Zenon DEF t
<1> QED
  BY <1>6, <1>7

\* The wait behind a packet.
LEMMA WaitAfterKeeps ==
  ASSUME NEW s \in States
  PROVE  LET t == WaitAfter(s) IN
         /\ Keeps(s, t) /\ t.sel = s.sel /\ t.ok
         /\ t.card.mode \in {s.card.mode, "off"} /\ t.card.cur = s.card.cur
<1> DEFINE w == wait_ready(s)
           t == WaitAfter(s)
<1>1. /\ Keeps(s, w) /\ w.sel = s.sel /\ w \in States
      /\ w.card.mode \in {s.card.mode, "off"} /\ w.card.cur = s.card.cur
  BY WaitKeeps, Zenon DEF Keeps
<1>2. t = [w EXCEPT !.ok = TRUE]
  BY Zenon DEF WaitAfter
<1> HIDE DEF w, t
<1>3. Keeps(w, t) /\ t.sel = w.sel /\ t.card = w.card /\ t.ok
  BY <1>1, <1>2, OkKeeps, Zenon
<1>4. Keeps(s, t)
  BY <1>1, <1>3, KeepsOn, Zenon
<1> QED
  BY <1>1, <1>3, <1>4, Zenon DEF t

\* xmit_datablock: the card takes the block, or nothing has changed.
LEMMA XmitDone ==
  ASSUME NEW s \in States, NEW x \in Data, s.card.mode # "idle"
  PROVE  LET t == xmit_datablock(s, x) IN
         /\ Holds(s, t) /\ t.card.mode # "idle"
         /\ ~t.ok => Settles(s.card, t.card)
         /\ t.ok => Accepts(s.card, x, t.card)
<1> DEFINE w == wait_ready(s)
           e == Exchange(w)
           m == xmit_spi_multi(e)
           u == TakeBlock(m, x)
           v == WaitAfter(u)
           t == xmit_datablock(s, x)
<1>1. t = IF ~w.ok THEN w ELSE IF u.ok THEN v ELSE u
  BY Zenon DEF xmit_datablock, After
<1>2. /\ Keeps(s, w) /\ w \in States /\ w.card.mode # "idle" /\ w.card.cur = s.card.cur
      /\ w.ok => w.card.pend = <<>>
  BY WaitKeeps DEF Keeps
<1> HIDE DEF t, w
<1>3. CASE ~w.ok
  BY <1>1, <1>2, <1>3, KeepsHolds, Zenon DEF Keeps, t
<1>4. CASE w.ok
  <2>1. /\ Keeps(w, e) /\ e \in States /\ e.card.mode # "idle" /\ e.card.cur = s.card.cur
        /\ e.card.pend = <<>>
    BY <1>2, <1>4, ExchangeKeeps DEF Keeps
  <2> HIDE DEF e
  <2>2. Keeps(e, m) /\ m \in States /\ m.card = e.card
    <3>1. e.card \in Cards
      BY <2>1 DEF States
    <3>2. Settles(e.card, e.card)
      BY <3>1 DEF Settles
    <3> QED
      BY <2>1, <3>2 DEF xmit_spi_multi, spi_send_multi, Keeps, States
  <2> HIDE DEF m
  <2>3. /\ Holds(m, u) /\ u.card.mode \in {m.card.mode, "ready"}
        /\ ~u.ok => Settles(m.card, u.card)
        /\ u.ok => /\ m.card.present /\ m.card.cur < NSec
                   /\ u.card.present /\ u.card.mem = m.card.mem /\ u.card.pend = <<m.card.cur, x>>
                   /\ u.card.cur = m.card.cur + 1
    BY <2>1, <2>2, TakeKeeps, Zenon
  <2> HIDE DEF u
  <2>4. u \in States /\ u.card.mode # "idle"
    BY <2>1, <2>2, <2>3 DEF Holds
  <2>5. /\ Keeps(u, v) /\ v.ok
        /\ v.card.mode \in {u.card.mode, "off"} /\ v.card.cur = u.card.cur
    BY <2>4, WaitAfterKeeps, Zenon
  <2> HIDE DEF v
  <2>6. Keeps(s, m) /\ m.card \in Cards /\ u.card \in Cards
    BY <2>1, <2>2, <2>4, <1>2, KeepsOn DEF States
  <2>7. Holds(s, u)
    BY <2>3, <2>6, KeepsHolds DEF Holds
  <2>8. CASE ~u.ok
    <3>1. t = u
      BY <2>8, <1>1, <1>4, Zenon
    <3>2. Settles(s.card, u.card)
      BY <2>3, <2>6, <2>8, SettlesOn, Zenon DEF Keeps
    <3> QED
      BY <2>4, <2>7, <2>8, <3>1, <3>2, Zenon DEF t
  <2>9. CASE u.ok
    <3>1. t = v
      BY <2>9, <1>1, <1>4, Zenon
    <3>2. Holds(s, v) /\ v.card.mode # "idle"
      BY <2>4, <2>5, <2>7, KeepsHolds DEF Holds
    <3>3. m.card.pend = <<>> /\ m.card.cur = s.card.cur /\ u.card.type = m.card.type
      BY <2>1, <2>2, <2>3, Zenon DEF Holds
    <3>4. Accepts(s.card, x, v.card)
      BY <2>3, <2>5, <2>6, <2>9, <3>3, Zenon DEF Accepts, Keeps
    <3> QED
      BY <2>5, <3>1, <3>2, <3>4, Zenon DEF t
  <2> QED
    BY <2>8, <2>9
<1> QED
  BY <1>3, <1>4

\* The blocks that the card has taken after i rounds of disk_write, from the state a
\* on in which the card, c0 at first, took the command.
HasWritten(c0, a, sector, ds, x, i) ==
  /\ Holds(a, x) /\ x.card.mode # "idle"
  /\ \E k \in 0 .. i : /\ Puts(c0, Part(ViewOf(c0), sector, ds, k), x.card)
                       /\ x.ok => k = i /\ x.card.cur = sector + i

\* A round more.
LEMMA WritesMore ==
  ASSUME NEW c0 \in Cards, NEW a \in States, NEW x \in States, NEW i \in Nat, NEW ds,
         NEW sector \in Sectors, ds[i + 1] \in Data, HasWritten(c0, a, sector, ds, x, i)
  PROVE  LET y == IF x.ok THEN xmit_datablock(x, ds[i + 1]) ELSE x IN
         HasWritten(c0, a, sector, ds, y, i + 1) /\ y \in States
<1>1. PICK k \in 0 .. i : /\ Puts(c0, Part(ViewOf(c0), sector, ds, k), x.card)
                          /\ x.ok => k = i /\ x.card.cur = sector + i
  BY DEF HasWritten
<1>2. k \in 0 .. i + 1 /\ k + 1 \in 0 .. i + 1 /\ x.card \in Cards
  BY DEF States
<1>3. CASE ~x.ok
  BY <1>1, <1>2, <1>3, Zenon DEF HasWritten
<1>4. CASE x.ok
  <2> DEFINE y == xmit_datablock(x, ds[i + 1])
  <2>1. /\ Holds(x, y) /\ y.card.mode # "idle"
        /\ ~y.ok => Settles(x.card, y.card)
        /\ y.ok => Accepts(x.card, ds[i + 1], y.card)
    BY XmitDone, Zenon DEF HasWritten
  <2> HIDE DEF y
  <2>2. Holds(a, y) /\ y \in States /\ y.card \in Cards
    <3>1. Holds(a, x)
      BY Zenon DEF HasWritten
    <3>2. Holds(a, y) /\ y \in States
      BY <2>1, <3>1, Zenon DEF Holds
    <3> QED
      BY <3>2 DEF States
  <2>3. CASE ~y.ok
    <3>1. Puts(c0, Part(ViewOf(c0), sector, ds, k), y.card)
      BY <1>1, <1>2, <2>1, <2>3, PutsOn, Zenon
    <3> QED
      BY <1>2, <1>4, <2>1, <2>2, <2>3, <3>1, Zenon DEF HasWritten, y
  <2>4. CASE y.ok
    <3>1. k = i /\ x.card.cur = sector + i
      BY <1>1, <1>4, Zenon
    <3>2. Puts(c0, Part(ViewOf(c0), sector, ds, i + 1), y.card)
      BY <1>1, <1>2, <2>1, <2>2, <2>4, <3>1, AcceptPuts, Zenon
    <3>3. y.card.cur = x.card.cur + 1
      BY <2>1, <2>4, Zenon DEF Accepts
    <3>4. y.card.cur = sector + (i + 1)
      BY <3>1, <3>3, SdAssumption DEF Sectors
    <3> QED
      BY <1>2, <1>4, <2>1, <2>2, <3>1, <3>2, <3>4, Zenon DEF HasWritten, y
  <2> QED
    BY <2>3, <2>4
<1> QED
  BY <1>3, <1>4

\* A write that has taken nothing.
LEMMA WritesNone ==
  ASSUME NEW c \in Cards, NEW e, Settles(c, e), NEW sector, NEW ds \in Seq(Data)
  PROVE  Puts(c, Part(ViewOf(c), sector, ds, 0), e) /\ Part(ViewOf(c), sector, ds, 0) = ViewOf(c)
<1>1. ViewOf(c) \in [Sectors -> Data]
  BY DEF Cards, CardRecords, ViewOf
<1>2. ViewOf(c) = Part(ViewOf(c), sector, ds, 0)
  BY <1>1 DEF Part
<1> QED
  BY <1>2 DEF Puts, Settles

\* The loop of disk_write.
LEMMA WriteLoop ==
  ASSUME NEW c0 \in Cards, NEW a \in States, NEW sector \in Sectors, NEW ds \in Seq(Data),
         Settles(c0, a.card), a.card.cur = sector, a.card.mode # "idle"
  PROVE  LET b == WriteBlocks(a, ds) IN
         HasWritten(c0, a, sector, ds, b, Len(ds)) /\ b \in States
<1> DEFINE n == Len(ds)
           P == [i \in 0 .. n |-> {x \in States : HasWritten(c0, a, sector, ds, x, i)}]
           z == [a EXCEPT !.ok = TRUE]
<1>1. n \in Nat /\ \A i \in 1 .. n : ds[i] \in Data
  OBVIOUS
<1>2. z \in States /\ HasWritten(c0, a, sector, ds, z, 0)
  <2>1. Keeps(a, z) /\ z.card = a.card
    BY OkKeeps, Zenon
  <2> HIDE DEF z
  <2>2. Holds(a, z) /\ z \in States
    BY <2>1, KeepsHolds, Zenon DEF Keeps
  <2>3. sector \in Nat /\ sector + 0 = sector /\ 0 \in 0 .. 0
    BY SdAssumption DEF Sectors
  <2>4. Puts(c0, Part(ViewOf(c0), sector, ds, 0), z.card)
    BY <2>1, WritesNone, Zenon
  <2> QED
    BY <2>1, <2>2, <2>3, <2>4, Zenon DEF HasWritten
<1>3. ASSUME NEW i \in 1 .. n, NEW x \in P[i - 1]
      PROVE  (IF x.ok THEN xmit_datablock(x, ds[i]) ELSE x) \in P[i]
  <2>1. i - 1 \in Nat /\ (i - 1) + 1 = i /\ i \in 0 .. n /\ i - 1 \in 0 .. n /\ ds[i] \in Data
    BY <1>1
  <2>2. x \in States /\ HasWritten(c0, a, sector, ds, x, i - 1)
    BY <1>3, <2>1, Zenon
  <2> DEFINE j == i - 1
  <2>3. j \in Nat /\ ds[j + 1] \in Data /\ x \in States /\ HasWritten(c0, a, sector, ds, x, j) /\ j + 1 = i
    BY <2>1, <2>2
  <2> HIDE DEF j, P
  <2> DEFINE y == IF x.ok THEN xmit_datablock(x, ds[j + 1]) ELSE x
  <2>4. HasWritten(c0, a, sector, ds, y, j + 1) /\ y \in States
    BY <2>3, WritesMore, Zenon
  <2> HIDE DEF y
  <2>5. y \in P[i]
    BY <2>1, <2>3, <2>4 DEF P
  <2> QED
    BY <2>3, <2>5 DEF y
<1>4. z \in P[0] /\ n \in 0 .. n
  BY <1>1, <1>2
<1>5. P[n] = {x \in States : HasWritten(c0, a, sector, ds, x, n)}
  BY <1>4, Zenon
<1> HIDE DEF P
<1>6. WriteBlocks(a, ds) \in P[n]
  BY <1>1, <1>3, <1>4, WriteRule, Zenon
<1> QED
  BY <1>5, <1>6, Zenon

\* The stop token.
LEMMA StopKeeps ==
  ASSUME NEW s \in States, s.card.mode # "idle"
  PROVE  LET t == xmit_stop(s) IN Keeps(s, t) /\ t.card.mode # "idle" /\ t.ok \in BOOLEAN
<1> DEFINE w == wait_ready(s)
           e == Exchange(w)
           c == [e.card EXCEPT !.mode = IF @ = "writes" THEN "ready" ELSE @]
           u == [e EXCEPT !.card = c]
           v == WaitAfter(u)
           t == xmit_stop(s)
<1>2. Keeps(s, w) /\ w \in States /\ w.card.mode # "idle"
  BY WaitKeeps DEF Keeps
<1>3. Keeps(w, e) /\ e \in States /\ e.card.mode # "idle"
  BY <1>2, ExchangeKeeps DEF Keeps
<1>1. t = IF ~w.ok THEN w ELSE v
  <2>1. [e EXCEPT !.card.mode = IF @ = "writes" THEN "ready" ELSE @] = u
    BY <1>3 DEF States
  <2> HIDE DEF e, u
  <2> QED
    BY <2>1, Zenon DEF xmit_stop, After, e
<1> HIDE DEF t, w, e
<1>4. e.card \in Cards
  BY <1>3 DEF States
<1>5. /\ c \in Cards /\ c.type = e.card.type /\ c.present = e.card.present /\ c.mem = e.card.mem
      /\ c.pend = e.card.pend /\ c.mode # "idle"
  BY <1>3, <1>4 DEF Cards, CardRecords, Modes
<1>6. Settles(e.card, c)
  BY <1>5 DEF Settles, ViewOf
<1> HIDE DEF c
<1>7. Keeps(e, u) /\ u \in States /\ u.card.mode # "idle"
  BY <1>3, <1>5, <1>6 DEF Keeps, States
<1> HIDE DEF u
<1>8. Keeps(u, v) /\ v.card.mode # "idle"
  BY <1>7, WaitAfterKeeps
<1> HIDE DEF v
<1>9. Keeps(s, u)
  BY <1>2, <1>3, <1>7, KeepsOn, Zenon
<1>10. Keeps(s, v)
  BY <1>8, <1>9, KeepsOn, Zenon
<1>11. Keeps(s, t) /\ t.card.mode # "idle"
  BY <1>1, <1>2, <1>8, <1>10, Zenon
<1> QED
  BY <1>11 DEF Keeps, States, t

\* The card c has taken the first k blocks of a write and is e now.
Writes(c, sector, ds, ok, e) ==
  \E k \in 0 .. Len(ds) : Puts(c, Part(ViewOf(c), sector, ds, k), e) /\ (ok => k = Len(ds))

\* disk_write writes all blocks if it succeeds, and else a prefix of them; it fails while
\* a transfer is open.
LEMMA WriteKeeps ==
  ASSUME NEW s \in States, RestInv(s), s.on, NEW sector \in Sectors, NEW ds \in Seq(Data)
  PROVE  LET t == disk_write(s, sector, ds) IN
         /\ RestInv(t) /\ Writes(s.card, sector, ds, t.ok, t.card)
         /\ t.ok => s.card.mode = "ready"
<1> DEFINE single == Len(ds) = 1
           counted == ~single /\ s.CardType \in {"SD1", "SD2", "SDHC"}
           cmd == IF single THEN 24 ELSE 25
           arg == Address(s, sector)
           z == IF counted THEN send_cmd(s, 128 + 23, Len(ds)) ELSE s
           a == send_cmd(z, cmd, arg)
           b == WriteBlocks(a, ds)
           f == xmit_stop(b)
           e == IF single \/ b.hung THEN b ELSE [f EXCEPT !.ok = b.ok /\ @]
           t == disk_write(s, sector, ds)
<1>1. t = IF a.r = 0 THEN Return(e) ELSE [deselect(a) EXCEPT !.ok = FALSE]
  BY Zenon DEF disk_write, Transfer, After
<1>2. s.card \in Cards /\ Len(ds) \in Nat /\ arg \in Nat /\ cmd \in 0 .. 127 /\ cmd \in {24, 25}
  BY AddressNat DEF States
<1>3. Quiet(s, z) /\ z \in States /\ (z.card.mode = "ready" => s.card.mode = "ready")
  <2>1. CASE counted
    <3>1. Commanded(s, 23, Len(ds), z)
      <4>1. z = send_cmd(s, 128 + 23, Len(ds)) /\ 23 \in {13, 23, 41}
        BY <2>1
      <4> HIDE DEF z
      <4> QED
        BY <4>1, <1>2, AppDone, Zenon
    <3> HIDE DEF z
    <3>2. Quiet(s, z) /\ (z.card.mode = "ready" => s.card.mode = "ready")
      BY <3>1 DEF Commanded, Quiet
    <3> QED
      BY <3>2, Zenon DEF Quiet, Keeps
  <2>2. CASE ~counted
    <3>1. z = s
      BY <2>2
    <3>2. Settles(s.card, s.card)
      BY <1>2 DEF Settles
    <3> HIDE DEF z
    <3> QED
      BY <3>1, <3>2 DEF Keeps, Quiet
  <2> QED
    BY <2>1, <2>2
<1> HIDE DEF z
<1>4. Commanded(z, cmd, arg, a)
  <2> HIDE DEF cmd, arg
  <2> QED
    BY <1>2, <1>3, SendDone, Zenon
<1> HIDE DEF a, t
<1>5. a \in States /\ Quiet(s, a) /\ a.card \in Cards
  <2>1. Quiet(z, a)
    <3> HIDE DEF cmd, arg
    <3>1. cmd \notin {0, 1, 41}
      BY <1>2
    <3> QED
      BY <1>4, <3>1, CommandedQuiet, Zenon
  <2>2. Quiet(s, a) /\ a \in States
    BY <2>1, <1>3, QuietOn, Zenon DEF Quiet, Keeps
  <2> QED
    BY <2>2 DEF States
<1>6. CASE a.r # 0
  <2>1. t = [deselect(a) EXCEPT !.ok = FALSE]
    BY <1>1, <1>6, Zenon
  <2> DEFINE d == deselect(a)
  <2>2. Keeps(a, d) /\ d \in States /\ ~d.sel /\ d.card = a.card
    BY <1>5, DeselectKeeps, Zenon DEF Keeps
  <2> HIDE DEF d
  <2>3. Keeps(d, t) /\ t.sel = d.sel /\ t.card = d.card /\ ~t.ok
    BY <2>1, <2>2, OkKeeps DEF d
  <2>4. Keeps(s, t)
    BY <2>2, <2>3, <1>5, KeepsOn, Zenon DEF Quiet
  <2>5. RestInv(t)
    BY <2>2, <2>3, <2>4, <1>5, KeepsHolds, RestKept, Zenon DEF Quiet
  <2>6. Puts(s.card, Part(ViewOf(s.card), sector, ds, 0), t.card) /\ 0 \in 0 .. Len(ds)
    BY <2>4, <1>2, WritesNone DEF Keeps
  <2> QED
    BY <2>3, <2>5, <2>6, Zenon DEF Writes, t
<1>7. CASE a.r = 0
  <2>1. Opened(z, cmd, arg, a)
    BY <1>2, <1>4, <1>7 DEF Commanded
  <2>2. a.card.cur = sector /\ s.card.mode = "ready" /\ ~Asleep(s.card) /\ a.card.mode # "idle"
    <3>1. s.card.mode = "ready" /\ ~Asleep(s.card) /\ a.card.cur = SectorOf(z.card, arg)
      BY <2>1, <1>3 DEF Opened, Asleep
    <3>4. a.card.mode # "idle"
      BY <1>2, <2>1 DEF Opened, Moves
    <3>2. SectorOf(s.card, arg) = sector
      BY <3>1, AddressRight
    <3>3. z.card.type = s.card.type
      BY <1>3, Zenon DEF Quiet, Keeps, Settles
    <3> QED
      BY <3>1, <3>2, <3>3, <3>4, Zenon DEF SectorOf
  <2>3. HasWritten(s.card, a, sector, ds, b, Len(ds)) /\ b \in States
    BY <2>2, <1>2, <1>5, WriteLoop, Zenon DEF Quiet, Keeps
  <2> HIDE DEF b
  <2>4. PICK k \in 0 .. Len(ds) : /\ Puts(s.card, Part(ViewOf(s.card), sector, ds, k), b.card)
                                  /\ b.ok => k = Len(ds)
    BY <2>3, Zenon DEF HasWritten
  <2>5. /\ e \in States /\ Holds(s, e) /\ e.card.mode # "idle" /\ (e.ok => b.ok)
        /\ Puts(s.card, Part(ViewOf(s.card), sector, ds, k), e.card)
    <3>1. Holds(s, b) /\ b.card.mode # "idle" /\ b.card \in Cards /\ b.ok \in BOOLEAN
      <4>1. Holds(s, a) /\ Holds(a, b) /\ b.card.mode # "idle"
        BY <2>3, <1>5, KeepsHolds, Zenon DEF HasWritten, Quiet
      <4>2. Holds(s, b)
        BY <4>1, Zenon DEF Holds
      <4> QED
        BY <4>1, <4>2, <2>3 DEF States
    <3>2. CASE single \/ b.hung
      <4>1. e = b
        BY <3>2
      <4> HIDE DEF e
      <4> QED
        BY <4>1, <3>1, <2>3, <2>4, Zenon
    <3>3. CASE ~(single \/ b.hung)
      <4>1. Keeps(b, f) /\ f \in States /\ f.card.mode # "idle" /\ f.ok \in BOOLEAN
        BY <2>3, <3>1, StopKeeps, Zenon DEF Keeps
      <4> HIDE DEF f
      <4> DEFINE g == b.ok /\ f.ok
      <4>2. e = [f EXCEPT !.ok = g] /\ g \in BOOLEAN
        BY <3>3, <4>1 DEF States
      <4> HIDE DEF e, g
      <4>3. Keeps(f, e) /\ e.card = f.card /\ e.ok = g
        BY <4>1, <4>2, OkKeeps, Zenon
      <4>4. Keeps(b, e)
        BY <4>1, <4>3, KeepsOn, Zenon
      <4>5. Holds(s, e) /\ e \in States
        BY <4>4, <3>1, KeepsHolds DEF Holds
      <4>6. Puts(s.card, Part(ViewOf(s.card), sector, ds, k), e.card)
        BY <4>4, <3>1, <2>4, PutsOn, Zenon DEF Keeps
      <4> QED
        BY <4>1, <4>3, <4>5, <4>6, Zenon DEF g
    <3> QED
      BY <3>2, <3>3
  <2> HIDE DEF e
  <2>6. t = Return(e)
    BY <1>1, <1>7, Zenon
  <2>7. Keeps(e, t) /\ (t.hung \/ ~t.sel) /\ t.card = e.card /\ t.ok = e.ok
    BY <2>5, <2>6, ReturnKeeps, Zenon
  <2>8. Holds(s, t)
    BY <2>5, <2>7, KeepsHolds DEF Holds
  <2>9. RestInv(t)
    BY <2>2, <2>5, <2>7, <2>8, RestKept, Zenon
  <2> QED
    BY <2>2, <2>4, <2>5, <2>7, <2>9, Zenon DEF Writes, t
<1> QED
  BY <1>6, <1>7

----------------------------------------------------------------------------
(* disk_ioctl. *)

\* CTRL_SYNC waits until nothing is left to program.
LEMMA SyncKeeps ==
  ASSUME NEW s \in States, RestInv(s)
  PROVE  LET t == disk_ioctl_sync(s) IN
         RestInv(t) /\ Settles(s.card, t.card) /\ (t.ok => t.card.pend = <<>>)
<1> DEFINE a == spi_select_slave(s)
           w == wait_ready(a)
           d == IF w.ok THEN w ELSE deselect(w)
           t == disk_ioctl_sync(s)
<1>1. t = deselect(d)
  BY Zenon DEF disk_ioctl_sync, select, After
<1>2. s.card \in Cards
  BY DEF States
<1>3. Settles(s.card, s.card)
  BY <1>2 DEF Settles
<1>4. Keeps(s, a) /\ a \in States /\ a.card = s.card
  BY <1>3 DEF spi_select_slave, Keeps, States
<1> HIDE DEF a
<1>5. /\ Keeps(a, w) /\ w \in States /\ w.card.mode \in {a.card.mode, "off"}
      /\ w.ok => w.card.pend = <<>>
  BY <1>4, WaitKeeps, Zenon DEF Keeps
<1> HIDE DEF w
<1>6. Keeps(w, deselect(w)) /\ deselect(w) \in States /\ deselect(w).card = w.card /\ deselect(w).ok = w.ok
  BY <1>5, DeselectKeeps, Zenon DEF Keeps
<1>7. Keeps(s, w)
  BY <1>4, <1>5, KeepsOn, Zenon
<1>8. Keeps(s, d) /\ d \in States /\ d.card = w.card /\ d.ok = w.ok
  BY <1>5, <1>6, <1>7, KeepsOn, Zenon
<1> HIDE DEF d, t
<1>9. Keeps(d, t) /\ ~t.sel /\ t.card = d.card /\ t.ok = d.ok
  BY <1>1, <1>8, DeselectKeeps, Zenon
<1>10. Keeps(s, t)
  BY <1>8, <1>9, KeepsOn, Zenon
<1>11. (t.card.mode = "idle" => s.card.mode = "idle") /\ (Asleep(s.card) => Asleep(t.card))
  BY <1>4, <1>5, <1>8, <1>9 DEF Asleep
<1>12. RestInv(t)
  BY <1>9, <1>10, <1>11, KeepsHolds, RestKept, Zenon
<1> QED
  BY <1>5, <1>8, <1>9, <1>10, <1>12, Zenon DEF Keeps, t

\* A command of disk_ioctl with what it reads.
LEMMA ReplyKeeps ==
  ASSUME NEW s \in States, RestInv(s), NEW a, NEW e, NEW t, Quiet(s, a), Quiet(a, e),
         t = IF a.r = 0 THEN Return(e) ELSE [deselect(a) EXCEPT !.ok = FALSE]
  PROVE  RestInv(t) /\ Settles(s.card, t.card)
<1>1. Quiet(s, e) /\ a \in States /\ e \in States
  BY QuietOn, Zenon DEF Quiet, Keeps
<1> DEFINE d == deselect(a)
           f == [d EXCEPT !.ok = FALSE]
           g == Return(e)
<1>2. Keeps(a, d) /\ d \in States /\ ~d.sel /\ d.card = a.card
  BY <1>1, DeselectKeeps, Zenon DEF Keeps
<1>3. Keeps(e, g) /\ (g.hung \/ ~g.sel) /\ g.card = e.card
  BY <1>1, ReturnKeeps, Zenon
<1>4. t = IF a.r = 0 THEN g ELSE f
  BY Zenon
<1> HIDE DEF d, g
<1>5. Keeps(d, f) /\ f.sel = d.sel /\ f.card = d.card
  BY <1>2, OkKeeps, Zenon
<1> HIDE DEF f
<1>6. Quiet(s, t) /\ (t.hung \/ ~t.sel)
  <2>1. CASE a.r = 0
    <3>1. Quiet(e, g)
      BY <1>3, Zenon DEF Quiet
    <3> QED
      BY <1>1, <1>3, <1>4, <2>1, <3>1, QuietOn, Zenon
  <2>2. CASE a.r # 0
    <3>1. Quiet(a, d) /\ Quiet(d, f)
      BY <1>2, <1>5, Zenon DEF Quiet
    <3>2. Quiet(s, d)
      BY <3>1, QuietOn, Zenon
    <3>3. Quiet(s, f)
      BY <3>1, <3>2, QuietOn, Zenon
    <3> QED
      BY <1>2, <1>4, <1>5, <2>2, <3>3, Zenon
  <2> QED
    BY <2>1, <2>2
<1>7. RestInv(t)
  BY <1>6, KeepsHolds, RestKept, Zenon DEF Quiet
<1> QED
  BY <1>6, <1>7, Zenon DEF Quiet, Keeps

\* The registers that disk_ioctl reads.
LEMMA RegKeeps ==
  ASSUME NEW s \in States, RestInv(s), NEW cmd \in {9, 128 + 13}
  PROVE  LET t == disk_ioctl_reg(s, cmd) IN RestInv(t) /\ Settles(s.card, t.card)
<1> DEFINE a == send_cmd(s, cmd, 0)
           e == rcvr_datablock(a)
           t == disk_ioctl_reg(s, cmd)
<1>1. t = IF a.r = 0 THEN Return(e) ELSE [deselect(a) EXCEPT !.ok = FALSE]
  BY Zenon DEF disk_ioctl_reg, Transfer, After
<1>2. PICK k \in {9, 13} : Commanded(s, k, 0, a)
  <2>1. CASE cmd = 9
    <3>1. 9 \in 0 .. 127 /\ 0 \in Nat
      OBVIOUS
    <3>2. Commanded(s, 9, 0, a)
      BY <2>1, <3>1, SendDone, Zenon
    <3> QED
      BY <3>2, Zenon
  <2>2. CASE cmd = 128 + 13
    <3>1. 13 \in {13, 23, 41} /\ 0 \in Nat
      OBVIOUS
    <3>2. Commanded(s, 13, 0, a)
      BY <2>2, <3>1, AppDone, Zenon
    <3> QED
      BY <3>2, Zenon
  <2> QED
    BY <2>1, <2>2, Zenon
<1> HIDE DEF a
<1>3. Quiet(s, a) /\ a \in States
  <2>1. k \notin {0, 1, 41}
    OBVIOUS
  <2> QED
    BY <1>2, <2>1, CommandedQuiet, Zenon
<1>4. Quiet(a, e)
  BY <1>3, ReceiveKeeps, Zenon
<1> HIDE DEF e, t
<1>5. RestInv(t) /\ Settles(s.card, t.card)
  BY <1>1, <1>3, <1>4, ReplyKeeps, Zenon
<1> QED
  BY <1>5 DEF t

\* The register that comes with the answer.
LEMMA OcrKeeps ==
  ASSUME NEW s \in States, RestInv(s)
  PROVE  LET t == disk_ioctl_ocr(s) IN RestInv(t) /\ Settles(s.card, t.card)
<1> DEFINE a == send_cmd(s, 58, 0)
           e == [a EXCEPT !.ok = TRUE]
           t == disk_ioctl_ocr(s)
<1>1. t = IF a.r = 0 THEN Return(e) ELSE [deselect(a) EXCEPT !.ok = FALSE]
  BY Zenon DEF disk_ioctl_ocr, Transfer, After
<1>2. Commanded(s, 58, 0, a)
  BY SendDone
<1> HIDE DEF a
<1>3. Quiet(s, a) /\ a \in States
  <2>1. 58 \notin {0, 1, 41}
    OBVIOUS
  <2> QED
    BY <1>2, <2>1, CommandedQuiet, Zenon
<1>4. Keeps(a, e) /\ e.card = a.card
  BY <1>3, OkKeeps, Zenon
<1> HIDE DEF e, t
<1>5. Quiet(a, e)
  BY <1>4, Zenon DEF Quiet
<1>6. RestInv(t) /\ Settles(s.card, t.card)
  BY <1>1, <1>3, <1>5, ReplyKeeps, Zenon
<1> QED
  BY <1>6 DEF t

\* CTRL_POWER: the bus stays free, and the card as it is.
LEMMA OffKeeps ==
  ASSUME NEW s \in States, RestInv(s)
  PROVE  LET t == disk_ioctl_off(s) IN RestInv(t) /\ t.card = s.card
<1> DEFINE a == power_off(s)
           b == [a EXCEPT !.Stat = {"NOINIT"}]
           d == [b EXCEPT !.ok = TRUE]
           t == disk_ioctl_off(s)
<1>1. a \in States /\ ~a.on /\ a.fifo = 0 /\ a.card = s.card
  BY DEF power_off, spi_disable, States
<1>2. t = deselect([a EXCEPT !.Stat = {"NOINIT"}, !.ok = TRUE])
  BY Zenon DEF disk_ioctl_off
<1> HIDE DEF a
<1>3. b \in States /\ ~b.on /\ b.fifo = 0 /\ b.card = a.card
  BY <1>1 DEF States
<1>4. d = [a EXCEPT !.Stat = {"NOINIT"}, !.ok = TRUE]
  BY <1>1 DEF States
<1> HIDE DEF b
<1>5. d \in States /\ ~d.on /\ d.fifo = 0 /\ d.card = b.card
  BY <1>3 DEF States
<1> HIDE DEF d
<1>6. t \in States /\ ~t.on /\ t.fifo = 0 /\ t.card = d.card /\ ~t.sel
  <2>1. t = deselect(d)
    BY <1>2, <1>4, Zenon
  <2> HIDE DEF t
  <2>2. Keeps(d, t) /\ ~t.sel /\ t.card = d.card
    BY <1>5, <2>1, DeselectKeeps, Zenon
  <2> QED
    BY <1>5, <2>2, Zenon DEF Keeps
<1> HIDE DEF t
<1> QED
  BY <1>1, <1>3, <1>5, <1>6 DEF RestInv, t

----------------------------------------------------------------------------
(* The calls. *)

\* The inductive invariant.
SdInv == RestInv(st) /\ st.blocks = <<>>

\* A call starts with a fault.
LEMMA PlanKeeps ==
  ASSUME NEW s, RestInv(s), s.blocks = <<>>, NEW kinds, NEW p \in Plans(kinds)
  PROVE  LET e == [s EXCEPT !.plan = p] IN
         e \in States /\ RestInv(e) /\ e.card = s.card /\ e.on = s.on /\ e.blocks = <<>>
<1>1. p \in [kind : FaultKinds \cup {"none"}, at : Int] /\ s \in States
  BY SdAssumption DEF Plans, NoPlan, RestInv
<1> DEFINE e == [s EXCEPT !.plan = p]
<1>2. /\ e \in States /\ e.card = s.card /\ e.on = s.on /\ e.blocks = <<>> /\ e.sel = s.sel
      /\ e.fifo = s.fifo /\ e.CardType = s.CardType /\ e.Stat = s.Stat /\ e.hung = s.hung
  BY <1>1 DEF States
<1> HIDE DEF e
<1> QED
  BY <1>2 DEF RestInv, e

\* A call ends.
LEMMA RestDone ==
  ASSUME NEW s, RestInv(s)
  PROVE  LET e == Rest(s) IN RestInv(e) /\ e.card = s.card /\ e.blocks = <<>> /\ e.Stat = s.Stat
<1>1. NoPlan \in [kind : FaultKinds \cup {"none"}, at : Int] /\ s \in States /\ <<>> \in Seq(Data)
  BY DEF NoPlan, RestInv
<1> DEFINE e == Rest(s)
<1>2. /\ e \in States /\ e.card = s.card /\ e.on = s.on /\ e.blocks = <<>> /\ e.sel = s.sel
      /\ e.fifo = s.fifo /\ e.CardType = s.CardType /\ e.Stat = s.Stat /\ e.hung = s.hung
  BY <1>1 DEF States, Rest
<1> HIDE DEF e
<1> QED
  BY <1>2 DEF RestInv, e

\* While the SPI is disabled spi_send does not return.
LEMMA HungKeeps ==
  ASSUME NEW s, RestInv(s), s.blocks = <<>>
  PROVE  LET e == [s EXCEPT !.hung = TRUE] IN RestInv(e) /\ e.card = s.card /\ e.blocks = <<>>
<1>1. s \in States
  BY DEF RestInv
<1> DEFINE e == [s EXCEPT !.hung = TRUE]
<1>2. /\ e \in States /\ e.card = s.card /\ e.on = s.on /\ e.blocks = <<>> /\ e.sel = s.sel
      /\ e.fifo = s.fifo /\ e.CardType = s.CardType /\ e.Stat = s.Stat /\ e.hung
  BY <1>1 DEF States
<1> HIDE DEF e
<1> QED
  BY <1>2 DEF RestInv, e

\* The card on its own.
LEMMA CardKeeps ==
  ASSUME NEW s, RestInv(s), s.blocks = <<>>, NEW c \in Cards, c.type = s.card.type,
         c.mode \in {s.card.mode, "off"}
  PROVE  LET e == [s EXCEPT !.card = c] IN RestInv(e) /\ e.card = c /\ e.blocks = <<>>
<1>1. s \in States
  BY DEF RestInv
<1> DEFINE e == [s EXCEPT !.card = c]
<1>2. /\ e \in States /\ e.card = c /\ e.on = s.on /\ e.blocks = <<>> /\ e.sel = s.sel
      /\ e.fifo = s.fifo /\ e.CardType = s.CardType /\ e.Stat = s.Stat /\ e.hung = s.hung
  BY <1>1 DEF States
<1> HIDE DEF e
<1> QED
  BY <1>2 DEF RestInv, Asleep, e

\* The card settles in a step of the driver as the array of sectors does.
LEMMA StoreBecomes ==
  ASSUME SdInv, SdInv'
  PROVE  /\ \A m : Puts(st.card, m, st'.card) => Store!Becomes(m)
         /\ Settles(st.card, st'.card) => Store!Becomes(View)
<1>1. st'.card \in Cards
  BY DEF SdInv, RestInv, States
<1>2. ~st'.card.present => View' = st'.card.mem
  BY <1>1 DEF View, Cards
<1>3. View = ViewOf(st.card) /\ View' = ViewOf(st'.card)
  BY Zenon DEF View, ViewOf
<1> QED
  BY <1>2, <1>3 DEF Puts, Settles, Store!Becomes

\* A call that is refused, or never returns.
LEMMA RefusedStep ==
  ASSUME SdInv, st' = st \/ st' = [st EXCEPT !.hung = TRUE], ret'.res # "OK"
  PROVE  SdInv' /\ Store!Next
<1>1. RestInv(st') /\ st'.card = st.card /\ st'.blocks = <<>> /\ st.card \in Cards
  BY HungKeeps DEF SdInv, RestInv, States
<1>2. SdInv' /\ Settles(st.card, st'.card)
  BY <1>1 DEF SdInv, Settles
<1>3. Store!Becomes(View)
  BY <1>2, StoreBecomes, Zenon
<1> QED
  BY <1>2, <1>3, Zenon DEF Store!Next, Store!Fail

\* A call that has failed or moves no data.
LEMMA PlainStep ==
  ASSUME SdInv, NEW t, RestInv(t), Settles(st.card, t.card), st' = Rest(t),
         ret'.res # "OK" \/ ret'.call \in {"init", "info", "cut"}
  PROVE  SdInv' /\ Store!Next
<1>1. SdInv' /\ Settles(st.card, st'.card)
  BY RestDone, Zenon DEF SdInv
<1>2. Store!Becomes(View)
  BY <1>1, StoreBecomes, Zenon
<1> QED
  BY <1>1, <1>2, Zenon DEF Store!Next, Store!Fail, Store!Other

\* disk_initialize.
LEMMA InitializeStep ==
  ASSUME SdInv, Initialize
  PROVE  SdInv' /\ Store!Next
<1>1. PICK p \in Plans({"error", "echo", "gone", "pulled", "busy"}) : st' = Rest(disk_initialize([st EXCEPT !.plan = p]))
  BY Zenon DEF Initialize
<1>2. ret'.call = "init"
  BY DEF Initialize
<1> DEFINE e == [st EXCEPT !.plan = p]
           t == disk_initialize(e)
<1>3. e \in States /\ RestInv(e) /\ e.card = st.card
  BY PlanKeeps, Zenon DEF SdInv
<1> HIDE DEF e
<1>4. RestInv(t) /\ Settles(st.card, t.card)
  BY <1>3, InitializeKeeps, Zenon
<1>5. st' = Rest(t)
  BY <1>1, Zenon DEF e
<1> HIDE DEF t
<1> QED
  BY <1>2, <1>4, <1>5, PlainStep, Zenon

\* disk_read.
LEMMA ReadStep ==
  ASSUME SdInv, Read
  PROVE  SdInv' /\ Store!Next /\ (ret'.res = "OK" => st.card.mode = "ready")
<1> DEFINE Back(u, sector, count) ==
             [call |-> "read", res |-> Res(u), sec |-> sector, count |-> count,
              data |-> IF u.ok THEN u.blocks ELSE <<>>]
           K == {"error", "token", "gone", "pulled", "busy"}
<1>1. PICK sector \in Sectors, count \in 1 .. MaxCount :
        IF st.Stat # {} THEN st' = st /\ ret' = [Back(st, sector, count) EXCEPT !.res = "NOTRDY"]
        ELSE IF ~st.on THEN st' = [st EXCEPT !.hung = TRUE]
                            /\ ret' = [Back(st, sector, count) EXCEPT !.res = "HUNG"]
        ELSE \E p \in Plans(K) : \E t \in {disk_read([st EXCEPT !.plan = p], sector, count)} :
               st' = Rest(t) /\ ret' = Back(t, sector, count)
  BY Zenon DEF Read, Call
<1>2. CASE st.Stat # {} \/ ~st.on
  <2>1. (st' = st \/ st' = [st EXCEPT !.hung = TRUE]) /\ ret'.res # "OK"
    BY <1>1, <1>2
  <2> QED
    BY <2>1, RefusedStep, Zenon
<1>3. CASE st.Stat = {} /\ st.on
  <2>1. PICK p \in Plans(K) : /\ st' = Rest(disk_read([st EXCEPT !.plan = p], sector, count))
                              /\ ret' = Back(disk_read([st EXCEPT !.plan = p], sector, count), sector, count)
    BY <1>1, <1>3, Zenon
  <2> DEFINE e == [st EXCEPT !.plan = p]
             t == disk_read(e, sector, count)
  <2>2. e \in States /\ RestInv(e) /\ e.card = st.card /\ e.on /\ e.blocks = <<>>
    BY <1>3, PlanKeeps, Zenon DEF SdInv
  <2>3. st' = Rest(t) /\ ret' = Back(t, sector, count)
    BY <2>1, Zenon
  <2> HIDE DEF e
  <2>4. RestInv(t) /\ Settles(st.card, t.card) /\ (t.ok => st.card.mode = "ready" /\ Reads(e, sector, count, t))
    <3>1. count \in Nat \ {0}
      BY SdAssumption
    <3> QED
      BY <2>2, <3>1, ReadKeeps, Zenon
  <2> HIDE DEF t
  <2>5. CASE ~t.ok \/ t.hung
    <3>1. ret'.res # "OK"
      BY <2>3, <2>5 DEF Res
    <3> QED
      BY <2>3, <2>4, <3>1, PlainStep, Zenon
  <2>6. CASE t.ok /\ ~t.hung
    <3>1. SdInv' /\ Settles(st.card, st'.card)
      BY <2>3, <2>4, RestDone, Zenon DEF SdInv
    <3>2. Store!Becomes(View)
      BY <3>1, StoreBecomes, Zenon
    <3>3. /\ ret'.call = "read" /\ ret'.res = "OK" /\ ret'.sec = sector /\ ret'.count = count
          /\ ret'.data = t.blocks
      BY <2>3, <2>6 DEF Res
    <3>4. /\ Len(t.blocks) = count
          /\ \A j \in 1 .. count : t.blocks[j] = View[sector + j - 1]
      BY <2>2, <2>4, <2>6, Zenon DEF Reads, View, ViewOf
    <3>5. DOMAIN t.blocks = 1 .. count
      <4>1. t.blocks \in Seq(Data)
        BY <2>4 DEF RestInv, States
      <4> QED
        BY <3>4, <4>1
    <3>6. Store!Read
      BY <3>2, <3>3, <3>4, <3>5, Zenon DEF Store!Read, Store!Returns
    <3> QED
      BY <2>4, <2>6, <3>1, <3>6, Zenon DEF Store!Next
  <2> QED
    BY <2>5, <2>6
<1> QED
  BY <1>2, <1>3, Zenon

\* A list of blocks.
LEMMA BlockLists ==
  ASSUME NEW ds \in Blocks
  PROVE  ds \in Seq(Data)
<1>1. PICK k \in 1 .. MaxCount : ds \in [1 .. k -> Data]
  BY DEF Blocks
<1>2. k \in Nat
  BY SdAssumption
<1> QED
  BY <1>1, <1>2

\* The sectors after a write, in the words of BlockStore.
LEMMA PartOver ==
  ASSUME SdInv, NEW sector, NEW ds \in Seq(Data), NEW k \in 1 .. Len(ds)
  PROVE  /\ Store!Over(View, sector, ds) = Part(ViewOf(st.card), sector, ds, Len(ds))
         /\ Store!Over(View, sector, SubSeq(ds, 1, k)) = Part(ViewOf(st.card), sector, ds, k)
<1>1. st.card \in Cards /\ View = ViewOf(st.card)
  BY DEF SdInv, RestInv, States, View, ViewOf
<1>2. DOMAIN View = Sectors
  BY <1>1 DEF ViewOf, Cards, CardRecords
<1>3. /\ DOMAIN ds = 1 .. Len(ds) /\ DOMAIN SubSeq(ds, 1, k) = 1 .. k
      /\ \A j \in 1 .. k : SubSeq(ds, 1, k)[j] = ds[j]
  OBVIOUS
<1> QED
  BY <1>1, <1>2, <1>3 DEF Store!Over, Part

\* disk_write.
LEMMA WriteStep ==
  ASSUME SdInv, Write
  PROVE  SdInv' /\ Store!Next /\ (ret'.res = "OK" => st.card.mode = "ready")
<1> DEFINE Back(u, sector, ds) == [call |-> "write", res |-> Res(u), sec |-> sector, data |-> ds]
           K == {"error", "reject", "stuck", "gone", "pulled", "busy"}
<1>1. PICK sector \in Sectors, ds \in Blocks :
        IF st.Stat # {} THEN st' = st /\ ret' = [Back(st, sector, ds) EXCEPT !.res = "NOTRDY"]
        ELSE IF ~st.on THEN st' = [st EXCEPT !.hung = TRUE]
                            /\ ret' = [Back(st, sector, ds) EXCEPT !.res = "HUNG"]
        ELSE \E p \in Plans(K) : \E t \in {disk_write([st EXCEPT !.plan = p], sector, ds)} :
               st' = Rest(t) /\ ret' = Back(t, sector, ds)
  BY Zenon DEF Write, Call
<1>2. CASE st.Stat # {} \/ ~st.on
  <2>1. (st' = st \/ st' = [st EXCEPT !.hung = TRUE]) /\ ret'.res # "OK"
    BY <1>1, <1>2
  <2> QED
    BY <2>1, RefusedStep, Zenon
<1>3. CASE st.Stat = {} /\ st.on
  <2>1. PICK p \in Plans(K) : /\ st' = Rest(disk_write([st EXCEPT !.plan = p], sector, ds))
                              /\ ret' = Back(disk_write([st EXCEPT !.plan = p], sector, ds), sector, ds)
    BY <1>1, <1>3, Zenon
  <2> DEFINE e == [st EXCEPT !.plan = p]
             t == disk_write(e, sector, ds)
  <2>2. e \in States /\ RestInv(e) /\ e.card = st.card /\ e.on
    BY <1>3, PlanKeeps, Zenon DEF SdInv
  <2>3. st' = Rest(t) /\ ret' = Back(t, sector, ds)
    BY <2>1, Zenon
  <2> HIDE DEF e
  <2>4. ds \in Seq(Data)
    BY BlockLists, Zenon
  <2>5. /\ RestInv(t) /\ Writes(st.card, sector, ds, t.ok, t.card)
        /\ t.ok => st.card.mode = "ready"
    BY <2>2, <2>4, WriteKeeps, Zenon
  <2> HIDE DEF t
  <2>6. SdInv' /\ st'.card = t.card
    BY <2>3, <2>5, RestDone, Zenon DEF SdInv
  <2>7. PICK k \in 0 .. Len(ds) : /\ Puts(st.card, Part(ViewOf(st.card), sector, ds, k), st'.card)
                                  /\ t.ok => k = Len(ds)
    BY <2>5, <2>6, Zenon DEF Writes
  <2>8. Store!Becomes(Part(ViewOf(st.card), sector, ds, k))
    BY <2>6, <2>7, StoreBecomes, Zenon
  <2>9. /\ ret'.call = "write" /\ ret'.sec = sector /\ ret'.data = ds
        /\ t.ok /\ ~t.hung => ret'.res = "OK"
        /\ ~t.ok \/ t.hung => ret'.res # "OK"
    BY <2>3 DEF Res
  <2>10. Len(ds) \in 1 .. Len(ds)
    <3>1. PICK n \in 1 .. MaxCount : ds \in [1 .. n -> Data]
      BY DEF Blocks
    <3>2. n \in Nat /\ n > 0 /\ DOMAIN ds = 1 .. n
      BY <3>1, SdAssumption
    <3> QED
      BY <2>4, <3>2
  <2>11. CASE t.ok /\ ~t.hung
    <3>1. Store!Over(View, sector, ds) = Part(ViewOf(st.card), sector, ds, k)
      BY <2>4, <2>7, <2>10, <2>11, PartOver, Zenon
    <3>2. Store!Write
      BY <2>8, <2>9, <2>11, <3>1, Zenon DEF Store!Write, Store!Returns
    <3> QED
      BY <2>5, <2>6, <2>11, <3>2, Zenon DEF Store!Next
  <2>12. CASE (~t.ok \/ t.hung) /\ k # 0
    <3>1. k \in 1 .. Len(ds)
      BY <2>4, <2>7, <2>12
    <3>2. Store!Over(View, sector, SubSeq(ds, 1, k)) = Part(ViewOf(st.card), sector, ds, k)
      BY <2>4, <3>1, PartOver, Zenon
    <3>3. Store!Fail
      BY <2>8, <2>9, <2>12, <3>1, <3>2, Zenon DEF Store!Fail
    <3> QED
      BY <2>6, <2>9, <2>12, <3>3, Zenon DEF Store!Next
  <2>13. CASE (~t.ok \/ t.hung) /\ k = 0
    <3>1. st.card \in Cards
      BY DEF SdInv, RestInv, States
    <3>2. Settles(st.card, st.card)
      BY <3>1 DEF Settles
    <3>3. View = Part(ViewOf(st.card), sector, ds, k)
      <4>1. View = ViewOf(st.card)
        BY Zenon DEF View, ViewOf
      <4>2. Part(ViewOf(st.card), sector, ds, 0) = ViewOf(st.card)
        BY <2>4, <3>1, <3>2, WritesNone, Zenon
      <4> QED
        BY <2>13, <4>1, <4>2, Zenon
    <3>4. Store!Becomes(View)
      BY <2>8, <3>3, Zenon
    <3>5. Store!Fail
      BY <2>9, <2>13, <3>4, Zenon DEF Store!Fail
    <3> QED
      BY <2>6, <2>9, <2>13, <3>5, Zenon DEF Store!Next
  <2> QED
    BY <2>11, <2>12, <2>13, Zenon
<1> QED
  BY <1>2, <1>3, Zenon

\* CTRL_SYNC.
LEMMA SyncStep ==
  ASSUME SdInv, Sync
  PROVE  SdInv' /\ Store!Next /\ ret'.call = "sync"
<1> DEFINE Back(u) == [call |-> "sync", res |-> Res(u)]
           K == {"pulled", "busy"}
<1>1. IF st.Stat # {} THEN st' = st /\ ret' = [Back(st) EXCEPT !.res = "NOTRDY"]
      ELSE IF ~st.on THEN st' = [st EXCEPT !.hung = TRUE] /\ ret' = [Back(st) EXCEPT !.res = "HUNG"]
      ELSE \E p \in Plans(K) : \E t \in {disk_ioctl_sync([st EXCEPT !.plan = p])} :
             st' = Rest(t) /\ ret' = Back(t)
  BY Zenon DEF Sync, Call
<1>2. CASE st.Stat # {} \/ ~st.on
  <2>1. (st' = st \/ st' = [st EXCEPT !.hung = TRUE]) /\ ret'.res # "OK" /\ ret'.call = "sync"
    BY <1>1, <1>2
  <2> QED
    BY <2>1, RefusedStep, Zenon
<1>3. CASE st.Stat = {} /\ st.on
  <2>1. PICK p \in Plans(K) : /\ st' = Rest(disk_ioctl_sync([st EXCEPT !.plan = p]))
                              /\ ret' = Back(disk_ioctl_sync([st EXCEPT !.plan = p]))
    BY <1>1, <1>3, Zenon
  <2> DEFINE e == [st EXCEPT !.plan = p]
             t == disk_ioctl_sync(e)
  <2>2. e \in States /\ RestInv(e) /\ e.card = st.card
    BY PlanKeeps, Zenon DEF SdInv
  <2>3. st' = Rest(t) /\ ret' = Back(t)
    BY <2>1, Zenon
  <2> HIDE DEF e
  <2>4. RestInv(t) /\ Settles(st.card, t.card) /\ (t.ok => t.card.pend = <<>>)
    BY <2>2, SyncKeeps, Zenon
  <2> HIDE DEF t
  <2>5. CASE ~t.ok \/ t.hung
    <3>1. ret'.res # "OK" /\ ret'.call = "sync"
      BY <2>3, <2>5 DEF Res
    <3> QED
      BY <2>3, <2>4, <3>1, PlainStep, Zenon
  <2>6. CASE t.ok /\ ~t.hung
    <3>1. SdInv' /\ st'.card = t.card
      BY <2>3, <2>4, RestDone, Zenon DEF SdInv
    <3>2. Store!Becomes(View)
      BY <2>4, <3>1, StoreBecomes, Zenon
    <3>3. View' = st'.card.mem
      BY <2>4, <2>6, <3>1, Zenon DEF View
    <3>4. ret'.call = "sync" /\ ret'.res = "OK"
      BY <2>3, <2>6 DEF Res
    <3>5. Store!Sync
      BY <3>2, <3>3, <3>4, Zenon DEF Store!Sync, Store!Returns
    <3> QED
      BY <3>1, <3>4, <3>5, Zenon DEF Store!Next
  <2> QED
    BY <2>5, <2>6
<1> QED
  BY <1>2, <1>3, Zenon

\* The registers of the card.
LEMMA InfoStep ==
  ASSUME SdInv, Info
  PROVE  SdInv' /\ Store!Next /\ ret'.call = "info"
<1> DEFINE Back(u) == [call |-> "info", res |-> Res(u)]
           K == {"error", "token", "gone"}
           Refused == IF st.Stat # {} THEN st' = st /\ ret' = [Back(st) EXCEPT !.res = "NOTRDY"]
                      ELSE ~st.on /\ st' = [st EXCEPT !.hung = TRUE]
                                  /\ ret' = [Back(st) EXCEPT !.res = "HUNG"]
           Done(t) == st' = Rest(t) /\ ret' = Back(t)
<1>1. \/ Refused
      \/ \E p \in Plans(K) : \/ Done(disk_ioctl_reg([st EXCEPT !.plan = p], 9))
                             \/ Done(disk_ioctl_reg([st EXCEPT !.plan = p], 128 + 13))
                             \/ Done(disk_ioctl_ocr([st EXCEPT !.plan = p]))
  BY Zenon DEF Info, Call
<1>2. CASE Refused
  <2>1. (st' = st \/ st' = [st EXCEPT !.hung = TRUE]) /\ ret'.res # "OK" /\ ret'.call = "info"
    BY <1>2
  <2> QED
    BY <2>1, RefusedStep, Zenon
<1>3. ASSUME NEW p \in Plans(K),
             \/ Done(disk_ioctl_reg([st EXCEPT !.plan = p], 9))
             \/ Done(disk_ioctl_reg([st EXCEPT !.plan = p], 128 + 13))
             \/ Done(disk_ioctl_ocr([st EXCEPT !.plan = p]))
      PROVE  SdInv' /\ Store!Next /\ ret'.call = "info"
  <2> DEFINE e == [st EXCEPT !.plan = p]
  <2>1. e \in States /\ RestInv(e) /\ e.card = st.card
    BY PlanKeeps, Zenon DEF SdInv
  <2> HIDE DEF e
  <2>2. \A cmd \in {9, 128 + 13} : /\ RestInv(disk_ioctl_reg(e, cmd))
                                  /\ Settles(st.card, disk_ioctl_reg(e, cmd).card)
    BY <2>1, RegKeeps, Zenon
  <2>3. RestInv(disk_ioctl_ocr(e)) /\ Settles(st.card, disk_ioctl_ocr(e).card)
    BY <2>1, OcrKeeps, Zenon
  <2>4. PICK t : RestInv(t) /\ Settles(st.card, t.card) /\ Done(t)
    <3> HIDE DEF Done
    <3> QED
      BY <1>3, <2>2, <2>3, Zenon DEF e
  <2>5. st' = Rest(t) /\ ret'.call = "info"
    BY <2>4
  <2> QED
    BY <2>4, <2>5, PlainStep, Zenon
<1> HIDE DEF Refused, Done
<1> QED
  BY <1>1, <1>2, <1>3, Zenon

\* CTRL_POWER.
LEMMA PowerOffStep ==
  ASSUME SdInv, PowerOff
  PROVE  SdInv' /\ Store!Next
<1> DEFINE t == disk_ioctl_off(st)
<1>1. RestInv(t) /\ t.card = st.card /\ st.card \in Cards
  BY OffKeeps DEF SdInv, RestInv, States
<1>2. st' = Rest(t) /\ ret'.call = "info"
  BY DEF PowerOff
<1> HIDE DEF t
<1>3. Settles(st.card, t.card)
  BY <1>1 DEF Settles
<1> QED
  BY <1>1, <1>2, <1>3, PlainStep, Zenon

\* The card finishes programming.
LEMMA FinishStep ==
  ASSUME SdInv, Finish
  PROVE  SdInv' /\ Store!Next
<1> DEFINE c == Program(st.card)
<1>1. st.card \in Cards
  BY DEF SdInv, RestInv, States
<1>2. /\ c \in Cards /\ c.mode = st.card.mode /\ c.present = st.card.present
      /\ Settles(st.card, c)
  BY <1>1, ProgrammedCard, Zenon
<1>3. st' = [st EXCEPT !.card = c] /\ ret' = ret
  BY Zenon DEF Finish
<1> HIDE DEF c
<1>4. SdInv' /\ st'.card = c
  BY <1>2, <1>3, CardKeeps DEF SdInv, Settles
<1>5. Store!Becomes(View)
  BY <1>2, <1>4, StoreBecomes, Zenon
<1>6. Store!Settle
  BY <1>2, <1>3, <1>4, <1>5, Zenon DEF Store!Settle
<1> QED
  BY <1>4, <1>6, Zenon DEF Store!Next

\* The card is pulled out.
LEMMA PullStep ==
  ASSUME SdInv, Pull
  PROVE  SdInv' /\ Store!Next
<1> DEFINE c == Pulled(st.card)
<1>1. st.card \in Cards
  BY DEF SdInv, RestInv, States
<1>2. c \in Cards /\ c.mode = "off" /\ Settles(st.card, c)
  BY <1>1, PulledCard, Zenon
<1>3. st' = [st EXCEPT !.card = c]
  BY Zenon DEF Pull
<1>4. ret'.call = "cut"
  BY DEF Pull
<1> HIDE DEF c
<1>5. SdInv' /\ st'.card = c
  BY <1>2, <1>3, CardKeeps DEF SdInv, Settles
<1>6. Store!Becomes(View)
  BY <1>2, <1>5, StoreBecomes, Zenon
<1>7. Store!Other
  BY <1>4, <1>6, Zenon DEF Store!Other
<1> QED
  BY <1>5, <1>7, Zenon DEF Store!Next

\* The card is put back: what it held is what it holds.
LEMMA InsertStep ==
  ASSUME SdInv, Insert
  PROVE  SdInv' /\ Store!Next
<1> DEFINE c == [st.card EXCEPT !.present = TRUE]
<1>1. st.card \in Cards /\ st \in States /\ ~st.card.present
  BY DEF SdInv, RestInv, States, Insert
<1>2. c \in Cards /\ c.mode = st.card.mode /\ c.type = st.card.type /\ c.mem = st.card.mem /\ c.pend = st.card.pend
  BY <1>1 DEF Cards, CardRecords
<1>3. st' = [st EXCEPT !.card = c]
  BY <1>1 DEF Insert, States
<1>4. ret'.call = "cut"
  BY DEF Insert
<1> HIDE DEF c
<1>5. SdInv' /\ st'.card = c
  BY <1>2, <1>3, CardKeeps DEF SdInv
<1>6. View' = View /\ View = st.card.mem /\ st'.card.mem = st.card.mem
  BY <1>1, <1>2, <1>5 DEF View, Cards
<1>7. Store!Becomes(View)
  BY <1>6 DEF Store!Becomes
<1>8. Store!Other
  BY <1>4, <1>7, Zenon DEF Store!Other
<1> QED
  BY <1>5, <1>8, Zenon DEF Store!Next

----------------------------------------------------------------------------
(* The theorems. *)

\* The first state.
LEMMA FirstState ==
  ASSUME SdInit
  PROVE  SdInv /\ Store!Init
<1>1. PICK ty \in Types, p \in Wakes, m \in [Sectors -> Data] :
       st = [Stat |-> {"NOINIT"}, CardType |-> "none", sel |-> FALSE, on |-> FALSE, fifo |-> 0,
             card |-> [type |-> ty, polls |-> p, wake |-> p, present |-> TRUE, mode |-> "off",
                       acmd |-> FALSE, cur |-> 0, mem |-> m, pend |-> <<>>],
             n |-> 0, plan |-> NoPlan, ok |-> FALSE, r |-> 0, blocks |-> <<>>,
             timeout |-> 0, hung |-> FALSE]
  BY Zenon DEF SdInit
<1> DEFINE c == [type |-> ty, polls |-> p, wake |-> p, present |-> TRUE, mode |-> "off",
                 acmd |-> FALSE, cur |-> 0, mem |-> m, pend |-> <<>>]
<1>2. c \in Cards /\ c.mode = "off" /\ c.present = TRUE /\ c.mem = m /\ c.pend = <<>>
  BY SdAssumption DEF Cards, CardRecords, Modes
<1>3. NoPlan \in [kind : FaultKinds \cup {"none"}, at : Int] /\ <<>> \in Seq(Data)
  BY DEF NoPlan
<1> HIDE DEF c
<1>4. st \in States /\ st.card = c /\ ~st.sel /\ st.fifo = 0 /\ ~st.on /\ st.blocks = <<>>
  BY <1>1, <1>2, <1>3 DEF States, c
<1>5. SdInv
  BY <1>2, <1>4 DEF SdInv, RestInv
<1>6. View = m
  BY <1>2, <1>4, Zenon DEF View
<1>7. ret = [call |-> "none", res |-> "OK"]
  BY Zenon DEF SdInit
<1> QED
  BY <1>2, <1>4, <1>5, <1>6, <1>7, Zenon DEF Store!Init

\* Every step keeps the invariant, and is a step of the array of sectors.
LEMMA NextStep ==
  ASSUME SdInv, [SdNext]_sdVars
  PROVE  SdInv' /\ [Store!Next]_(Store!vars)
<1>1. CASE SdNext
  BY <1>1, InitializeStep, ReadStep, WriteStep, SyncStep, InfoStep, PowerOffStep, FinishStep,
     PullStep, InsertStep, Zenon DEF SdNext
<1>2. CASE UNCHANGED sdVars
  <2>1. st' = st /\ ret' = ret
    BY <1>2 DEF sdVars
  <2>2. SdInv'
    BY <2>1, Zenon DEF SdInv
  <2>3. View' = View
    BY <2>1, Zenon DEF View
  <2> QED
    BY <2>1, <2>2, <2>3 DEF Store!vars
<1> QED
  BY <1>1, <1>2

\* A read or a write that succeeds finds the card ready.
LEMMA ServedReady ==
  ASSUME SdInv, SdNext, ~Finish, ret'.call \in {"read", "write"}, ret'.res = "OK"
  PROVE  st.card.mode = "ready"
<1>1. ~Initialize /\ ~PowerOff /\ ~Pull /\ ~Insert
  BY DEF Initialize, PowerOff, Pull, Insert
<1>2. ~Sync /\ ~Info
  BY SyncStep, InfoStep
<1> QED
  BY <1>1, <1>2, ReadStep, WriteStep, Zenon DEF SdNext

\* The inductive invariant: between calls of diskio.c the driver and the card are in a
\* state of their types, the bus is free unless a call hangs, a card that was
\* initialised is awake and CardType fits the card.
THEOREM SdInvariant == SdSpec => []SdInv
<1>1. SdInit => SdInv
  BY FirstState, Zenon
<1>2. SdInv /\ [SdNext]_sdVars => SdInv'
  BY NextStep, Zenon
<1> QED
  BY <1>1, <1>2, PTL DEF SdSpec

\* After every call of diskio.c that returns the card is deselected and the receive FIFO
\* of spi.c is empty, on the paths that fail as well.
THEOREM BusFreed == SdSpec => []BusFree
<1>1. SdInv => BusFree
  BY DEF SdInv, RestInv, BusFree
<1> QED
  BY <1>1, SdInvariant, PTL

\* disk_read and disk_write address the card the way it wants to be addressed,
\* whatever went wrong in the calls of disk_initialize before.
THEOREM AddressedRight == SdSpec => []AddressesRight
<1>1. SdInv => AddressesRight
  BY DEF SdInv, RestInv, Asleep, AddressesRight
<1> QED
  BY <1>1, SdInvariant, PTL

\* disk_initialize never takes a card for initialised that is still idle, whatever the
\* try counter is when the polls end.
THEOREM InitialisedAwake == SdSpec => []InitialisedIsAwake
<1>1. SdInv => InitialisedIsAwake
  BY DEF SdInv, RestInv, InitialisedIsAwake
<1> QED
  BY <1>1, SdInvariant, PTL

\* While a transfer is open that an earlier call left behind, because the card did not
\* take CMD12 or was too busy for the stop token, no disk_read and no disk_write
\* succeeds.
THEOREM OpenRefused == SdSpec => OpenTransferRefused
<1> DEFINE A == st.card.mode \in {"blocks", "writes"} /\ ~Finish /\ ret'.call \in {"read", "write"} =>
                  ret'.res # "OK"
<1>1. SdInv /\ [SdNext]_sdVars => [A]_sdVars
  <2>1. SdInv /\ SdNext => A
    BY ServedReady
  <2> HIDE DEF A
  <2> QED
    BY <2>1
<1>2. SdSpec => [][A]_sdVars
  <2> HIDE DEF A
  <2> QED
    BY <1>1, SdInvariant, PTL DEF SdSpec
<1> QED
  BY <1>2 DEF OpenTransferRefused

\* The calls of diskio.c implement an array of sectors: disk_read returns what was
\* written last, disk_write writes all blocks or a prefix, and CTRL_SYNC makes durable.
THEOREM SdRefinement == SdSpec => ImplementsBlockStore
<1>1. SdInit => Store!Init
  BY FirstState, Zenon
<1>2. SdInv /\ [SdNext]_sdVars => [Store!Next]_(Store!vars)
  BY NextStep, Zenon
<1> QED
  BY <1>1, <1>2, SdInvariant, PTL DEF SdSpec, ImplementsBlockStore, Store!Spec
=============================================================================
