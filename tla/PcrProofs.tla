------------------------------ MODULE PcrProofs -----------------------------
(***************************************************************************)
(* Proofs about Pcr: its types, and the four invariants that its runs      *)
(* check on small instances, for any number of cores and registers.        *)
(***************************************************************************)
EXTENDS Pcr, WellFoundedInduction, TLAPS

\* The least element of a non-empty set of cores is one of them.
LEMMA FirstIsMember ==
  ASSUME NEW S \in SUBSET Core, S # {}
  PROVE  First(S) \in S
<1>1. S \in SUBSET Nat
  BY PcrAssumption DEF Core
<1> DEFINE R == OpToRel(<, Nat)
<1>2. IsWellFoundedOn(R, Nat)
  BY NatLessThanWellFounded, Zenon
<1>3. \A m, n \in Nat : <<m, n>> \notin R => n <= m
  BY DEF OpToRel
<1> HIDE DEF R
<1>4. PICK n \in S : \A m \in S : ~(<<m, n>> \in R)
  BY <1>1, <1>2, WFMin, Zenon
<1>5. \A m \in S : n <= m
  BY <1>1, <1>3, <1>4, Zenon
<1> QED
  BY <1>5, Zenon DEF First

\* The arbiter chooses a core that requests (pcr.scala 114-118).
LEMMA ChosenRequests ==
  ASSUME Requests # {}
  PROVE  chosen \in Requests
<1> DEFINE above == {c \in Requests : c > last_grant}
<1>1. Requests \in SUBSET Core /\ above \in SUBSET Core /\ above \subseteq Requests
  BY Zenon DEF Requests
<1>2. CASE above # {}
  <2>1. First(above) \in above
    BY <1>1, <1>2, FirstIsMember, Zenon
  <2> QED
    BY <2>1, <1>1, <1>2, Zenon DEF chosen
<1>3. CASE above = {}
  <2>1. First(Requests) \in Requests
    BY <1>1, FirstIsMember, Zenon
  <2> QED
    BY <2>1, <1>3, Zenon DEF chosen
<1> QED
  BY <1>2, <1>3, Zenon

\* An access that is granted is one of the accesses software makes, and what it
\* writes is a register value.
LEMMA GrantedAccess ==
  ASSUME TypeOK, fire
  PROVE  chosen \in Core /\ wdata \in Val
<1>1. chosen \in Core
  BY ChosenRequests, Zenon DEF fire, Requests
<1>2. op[chosen].data \in Val
  <2>1. op[chosen] \in Access \cup {NoAcc}
    BY <1>1, Zenon DEF TypeOK
  <2>2. CASE op[chosen] = NoAcc
    BY <2>2 DEF NoAcc, Val
  <2>3. CASE op[chosen] \in Access
    BY <2>3, AccessAssumption
  <2> QED
    BY <2>1, <2>2, <2>3, Zenon
<1>3. ReadReg(req.addr) \in Val
  <2>1. CASE req.addr \in Stored
    BY <2>1, Zenon DEF TypeOK, ReadReg
  <2>2. CASE req.addr \notin Stored
    BY <2>2 DEF TypeOK, ReadReg, Val
  <2> QED
    BY <2>1, <2>2, Zenon
<1>4. wdata \in Val
  BY <1>2, <1>3 DEF wdata, req, Apply, Val
<1> QED
  BY <1>1, <1>4, Zenon

\* The initial state has its types (pcr.scala 72-111).
LEMMA InitType == Init => TypeOK
<1> SUFFICES ASSUME Init PROVE TypeOK
  OBVIOUS
<1>1. 0 \in Core /\ 0 \in Time /\ {} \in Val /\ InitVal \in Val
  BY PcrAssumption DEF Core, Time, Val
<1>2. wall_clock \in 0 .. Div * (MaxTime + 1) - 1
  <2>1. Div * (MaxTime + 1) >= 1
    <3>1. Div \in Nat /\ Div >= 1 /\ MaxTime + 1 \in Nat /\ MaxTime + 1 >= 1
      BY PcrAssumption
    <3> QED
      BY <3>1
  <2>2. Div * (MaxTime + 1) \in Nat
    BY PcrAssumption
  <2> QED
    BY <2>1, <2>2 DEF Init
<1>3. soft_reset_cnt \in 0 .. ResetCycles - 1
  BY PcrAssumption DEF Init
<1>4. /\ update = [h \in Holder |-> update[h]]
      /\ \A h \in Holder : update[h] \in [Map(h) -> Val]
  <2>1. PICK junk \in Val : update = [h \in Holder |-> [a \in Map(h) |->
           IF a[2] = 0 THEN InitVal ELSE IF h[1] = "tc" THEN junk ELSE {}]]
    BY Zenon DEF Init
  <2>2. ASSUME NEW h \in Holder
        PROVE  update[h] \in [Map(h) -> Val]
    <3>1. update[h] = [a \in Map(h) |->
             IF a[2] = 0 THEN InitVal ELSE IF h[1] = "tc" THEN junk ELSE {}]
      BY <2>1, Zenon
    <3> QED
      BY <3>1, <1>1
  <2>3. update = [h \in Holder |-> update[h]]
    BY <2>1, Zenon
  <2> QED
    BY <2>2, <2>3, Zenon
<1>5. reg \in [Stored -> Val] /\ reg_mtimecmp \in [Core -> Time]
  BY Zenon DEF Init
<1>6. posted \in Seq(Msg)
  BY DEF Init
<1>7. op \in [Core -> Access \cup {NoAcc}]
  BY Zenon DEF Init
<1>8. /\ wb \in [Core -> BOOLEAN] /\ pcr_wait_resp \in [Core -> BOOLEAN]
      /\ mtip \in [Core -> BOOLEAN] /\ trapped \in [Core -> BOOLEAN]
  BY DEF Init
<1>9. /\ reg_fromhost \in [Core -> Val] /\ time \in [Core -> Time]
      /\ reg_tag_ctrl \in [Core -> Val] /\ call \in [Core -> Val]
  BY <1>1 DEF Init
<1>10. effect = update /\ hostq \subseteq Msg /\ unwritten \subseteq MemMap \cup IOMap
  BY DEF Init
<1>11. reg_time \in Time /\ reg_tohost \in Val /\ reg_tohost_coreId \in Core
       /\ reg_int_pending \in Val /\ soft_reset \in BOOLEAN /\ last_grant \in Core
  BY <1>1 DEF Init
<1>12. prog \subseteq Access
  BY Zenon DEF Init, Access
<1> QED
  BY <1>2, <1>3, <1>4, <1>5, <1>6, <1>7, <1>8, <1>9, <1>10, <1>11, <1>12, Zenon DEF TypeOK

\* Division of natural numbers.
LEMMA DivDef ==
  ASSUME NEW a \in Nat, NEW D \in Nat \ {0}
  PROVE  /\ a \div D \in Nat
         /\ D * (a \div D) <= a
         /\ a < D * ((a \div D) + 1)
<1>1. a \div D \in Int /\ a % D \in 0 .. D - 1 /\ a = D * (a \div D) + (a % D)
  OBVIOUS
<1> QED
  BY <1>1

\* Multiplication is monotonic.
LEMMA MulMono ==
  ASSUME NEW D \in Nat \ {0}, NEW p \in Nat, NEW q \in Nat, D * p < D * q
  PROVE  p < q
<1> SUFFICES ASSUME p >= q PROVE FALSE
  OBVIOUS
<1>1. D * p >= D * q
  OBVIOUS
<1> QED
  BY <1>1

\* Division is monotonic.
LEMMA DivMono ==
  ASSUME NEW a \in Nat, NEW b \in Nat, a <= b, NEW D \in Nat \ {0}
  PROVE  a \div D <= b \div D
<1> DEFINE p == a \div D
           q == b \div D
<1>1. p \in Nat /\ D * p <= a
  BY DivDef
<1>2. q \in Nat /\ b < D * (q + 1)
  BY DivDef
<1>3. p < q + 1
  <2> HIDE DEF p, q
  <2>1. D * p < D * (q + 1)
    BY <1>1, <1>2
  <2> QED
    BY <2>1, <1>1, <1>2, MulMono
<1> QED
  BY <1>1, <1>2, <1>3

\* The clock stays in its range, and the register follows it (pcr.scala 173-175).
LEMMA ClockType ==
  ASSUME TypeOK, Clock
  PROVE  /\ wall_clock' \in 0 .. Div * (MaxTime + 1) - 1
         /\ reg_time' \in Time
         /\ wall_clock <= wall_clock'
<1> DEFINE N == Div * (MaxTime + 1)
<1>1. N \in Nat /\ wall_clock \in 0 .. N - 1 /\ wall_clock \in Nat
  BY PcrAssumption DEF TypeOK
<1>2. wall_clock' \in 0 .. N - 1 /\ wall_clock <= wall_clock'
  <2>1. wall_clock' = IF wall_clock < N - 1 THEN wall_clock + 1 ELSE wall_clock
    BY Zenon DEF Clock
  <2> QED
    BY <1>1, <2>1
<1>3. reg_time' \in Time
  <2>1. Div \in Nat \ {0} /\ MaxTime \in Nat
    BY PcrAssumption
  <2> DEFINE q == wall_clock \div Div
  <2>2. q \in Nat /\ Div * q <= wall_clock
    BY <1>1, <2>1, DivDef
  <2>3. q < MaxTime + 1
    <3> HIDE DEF q
    <3>1. Div * q < Div * (MaxTime + 1)
      BY <1>1, <2>1, <2>2
    <3> QED
      BY <3>1, <2>1, <2>2, MulMono
  <2>4. reg_time' = q
    BY Zenon DEF Clock
  <2> QED
    BY <2>1, <2>2, <2>3, <2>4 DEF Time
<1> QED
  BY <1>2, <1>3, Zenon

\* The registers of the PCRs keep their types (pcr.scala 182-275).
LEMMA RegistersType ==
  ASSUME TypeOK, NEW taken \in BOOLEAN, NEW irqs \in SUBSET int_mask,
         Registers(taken), Interrupts(irqs), SoftReset
  PROVE  /\ reg' \in [Stored -> Val] /\ reg_tohost' \in Val
         /\ reg_tohost_coreId' \in Core /\ last_grant' \in Core
         /\ reg_int_pending' \in Val /\ soft_reset' \in BOOLEAN
         /\ soft_reset_cnt' \in 0 .. ResetCycles - 1
<1>1. wen => fire
  BY Zenon DEF wen
<1>2. fire => chosen \in Core /\ wdata \in Val
  BY GrantedAccess, Zenon
<1>3. reg' \in [Stored -> Val]
  <2>1. reg \in [Stored -> Val]
    BY Zenon DEF TypeOK
  <2>2. CASE wen /\ req.addr \in Stored
    <3>1. reg' = [reg EXCEPT ![req.addr] = wdata]
      BY <2>2, Zenon DEF Registers
    <3>2. wdata \in Val
      BY <2>2, <1>1, <1>2, Zenon
    <3> QED
      BY <2>1, <3>1, <3>2, Zenon
  <2>3. CASE ~(wen /\ req.addr \in Stored)
    BY <2>1, <2>3, Zenon DEF Registers
  <2> QED
    BY <2>2, <2>3, Zenon
<1>4. reg_tohost' \in Val
  <2>1. {} \in Val /\ reg_tohost \in Val
    BY DEF Val, TypeOK
  <2> QED
    BY <2>1, <1>1, <1>2, Zenon DEF Registers
<1>5. reg_tohost_coreId' \in Core /\ last_grant' \in Core
  BY <1>1, <1>2, Zenon DEF Registers, TypeOK
<1>6. reg_int_pending' \in Val
  BY PcrAssumption, Zenon DEF Interrupts, int_mask, Val
<1>7. soft_reset' \in BOOLEAN
  <2>1. soft_reset' = ((fire /\ req.addr = preset)
                       \/ (soft_reset /\ soft_reset_cnt # ResetCycles - 1))
    BY Zenon DEF SoftReset
  <2> QED
    BY <2>1, Zenon
<1>8. soft_reset_cnt' \in 0 .. ResetCycles - 1
  <2>1. soft_reset_cnt \in 0 .. ResetCycles - 1 /\ ResetCycles \in Nat \ {0}
    BY PcrAssumption DEF TypeOK
  <2>2. (soft_reset_cnt + 1) % ResetCycles \in 0 .. ResetCycles - 1
    BY <2>1
  <2>3. soft_reset_cnt' = IF soft_reset THEN (soft_reset_cnt + 1) % ResetCycles
                          ELSE soft_reset_cnt
    BY Zenon DEF SoftReset
  <2>4. CASE soft_reset
    BY <2>2, <2>3, <2>4, Zenon
  <2>5. CASE ~soft_reset
    BY <2>1, <2>3, <2>5, Zenon
  <2> QED
    BY <2>4, <2>5, Zenon
<1> QED
  BY <1>3, <1>4, <1>5, <1>6, <1>7, <1>8, Zenon

\* So do the registers of the cores (csr.scala 372-518; tag_check_unit.scala 38-86).
LEMMA CoreType ==
  ASSUME TypeOK, NEW h \in hostq \cup {NoMsg}, NEW d \in Traps,
         WaitResp, Fromhost(h), Timer(h), TagCheckUnit(d), Pipeline
  PROVE  /\ op' \in [Core -> Access \cup {NoAcc}] /\ wb' \in [Core -> BOOLEAN]
         /\ pcr_wait_resp' \in [Core -> BOOLEAN] /\ reg_fromhost' \in [Core -> Val]
         /\ time' \in [Core -> Time] /\ reg_mtimecmp' \in [Core -> Time]
         /\ mtip' \in [Core -> BOOLEAN] /\ reg_tag_ctrl' \in [Core -> Val]
<1>1. op' \in [Core -> Access \cup {NoAcc}] /\ wb' \in [Core -> BOOLEAN]
  <2>1. ASSUME NEW c \in Core, NEW x \in NextAccess(c)
        PROVE  x[1] \in Access \cup {NoAcc} /\ x[2] \in BOOLEAN
    <3>1. op[c] \in Access \cup {NoAcc}
      BY Zenon DEF TypeOK
    <3>2. \/ x = <<NoAcc, FALSE>> \/ x = <<op[c], FALSE>>
          \/ \E a \in Access : x = <<a, TRUE>>
          \/ \E b \in BOOLEAN : x = <<op[c], b>>
      <4>1. CASE soft_reset
        BY <4>1, Zenon DEF NextAccess
      <4>2. CASE ~soft_reset /\ wb[c] /\ csr_replay(c)
        BY <4>2, Zenon DEF NextAccess
      <4>3. CASE ~soft_reset /\ ~(wb[c] /\ csr_replay(c)) /\ (wb[c] \/ op[c] = NoAcc)
        <5>1. x \in {<<NoAcc, FALSE>>} \cup {<<a, TRUE>> : a \in prog}
          BY <4>3, Zenon DEF NextAccess
        <5>2. prog \subseteq Access
          BY Zenon DEF TypeOK
        <5> QED
          BY <5>1, <5>2, Zenon
      <4>4. CASE ~soft_reset /\ ~(wb[c] /\ csr_replay(c)) /\ ~(wb[c] \/ op[c] = NoAcc)
        <5>1. x \in {op[c]} \X (IF csr_stall(c) THEN {FALSE} ELSE BOOLEAN)
          BY <4>4, Zenon DEF NextAccess
        <5>2. x \in {op[c]} \X BOOLEAN
          <6>1. CASE csr_stall(c)
            BY <5>1, <6>1, Zenon
          <6>2. CASE ~csr_stall(c)
            BY <5>1, <6>2, Zenon
          <6> QED
            BY <6>1, <6>2, Zenon
        <5>3. x = <<x[1], x[2]>> /\ x[1] = op[c] /\ x[2] \in BOOLEAN
          BY <5>2
        <5> QED
          BY <5>3, Zenon
      <4> QED
        BY <4>1, <4>2, <4>3, <4>4, Zenon
    <3>3. PICK a \in Access \cup {NoAcc}, b \in BOOLEAN : x = <<a, b>>
      BY <3>1, <3>2, Zenon
    <3>4. x[1] = a /\ x[2] = b
      BY <3>3
    <3> QED
      BY <3>4, Zenon
  <2>2. PICK n \in NextAccesses : /\ op' = [c \in Core |-> n[c][1]]
                                 /\ wb' = [c \in Core |-> n[c][2]]
    BY Zenon DEF Pipeline
  <2>3. \A c \in Core : n[c] \in NextAccess(c)
    BY Zenon DEF NextAccesses
  <2>4. \A c \in Core : n[c][1] \in Access \cup {NoAcc} /\ n[c][2] \in BOOLEAN
    BY <2>1, <2>3, Zenon
  <2> QED
    BY <2>2, <2>4, Zenon
<1>2. pcr_wait_resp' \in [Core -> BOOLEAN] /\ mtip' \in [Core -> BOOLEAN]
  BY DEF WaitResp, Timer
<1>3. ASSUME NEW c \in Core, wb[c], op[c] # NoAcc
      PROVE  /\ op[c].data \in Val
             /\ op[c].addr[1] = "mtimecmp" => op[c].addr[2] \in Time
  <2>1. op[c] \in Access
    BY <1>3, Zenon DEF TypeOK
  <2>2. op[c] \in [addr : PcrAddrs \cup CsrAddrs, cmd : {"R", "W", "S", "C"}, data : Val]
    BY <2>1, AccessAssumption, Zenon
  <2>3. op[c].addr \in PcrAddrs \cup CsrAddrs /\ op[c].data \in Val
    BY <2>2
  <2> DEFINE a == op[c].addr
  <2>4. a[1] = "mtimecmp" => a[2] \in Time
    <3> HIDE DEF a
    <3>1. a \in PcrAddrs \cup CsrAddrs
      BY <2>3 DEF a
    <3> QED
      BY <3>1 DEF PcrAddrs, CsrAddrs, Stored, Broadcast, MemMap, IOMap, ptime, ptohost,
         preset, ptagctrl, pmem_map, pmem_map_update, pio_map, pio_map_update,
         pint_en, pint_pending, mfromhost, mtimecmp
  <2> QED
    BY <2>3, <2>4, Zenon
<1>4. reg_fromhost' \in [Core -> Val]
  <2>1. {} \in Val /\ h.data \in Val /\ reg_fromhost \in [Core -> Val]
    BY DEF Val, TypeOK, NoMsg, Msg
  <2>2. \A c \in Core : op[c].addr = mfromhost => op[c] # NoAcc
    BY DEF mfromhost, NoAcc
  <2>3. \A c \in Core : wb[c] /\ op[c].addr = mfromhost =>
           Apply(op[c], reg_fromhost[c]) \in Val
    BY <2>1, <2>2, <1>3 DEF Apply, Val
  <2> QED
    BY <2>1, <2>3 DEF Fromhost
<1>5. time' \in [Core -> Time]
  BY DEF Timer, TypeOK
<1>6. reg_mtimecmp' \in [Core -> Time]
  <2>1. \A c \in Core : writes_mtimecmp(c) => op[c].addr[2] \in Time
    <3>1. \A c \in Core : op[c].addr[1] = "mtimecmp" => op[c] # NoAcc
      BY DEF NoAcc
    <3> QED
      BY <1>3, <3>1, Zenon DEF writes_mtimecmp
  <2>2. reg_mtimecmp \in [Core -> Time]
    BY Zenon DEF TypeOK
  <2> QED
    BY <2>1, <2>2, Zenon DEF Timer
<1>7. reg_tag_ctrl' \in [Core -> Val]
  <2>1. {} \in Val /\ reg_tag_ctrl \in [Core -> Val]
    BY DEF Val, TypeOK
  <2>2. update_reg => wdata \in Val
    BY GrantedAccess, Zenon DEF update_reg, wen
  <2> QED
    BY <2>1, <2>2, Zenon DEF TagCheckUnit
<1> QED
  BY <1>1, <1>2, <1>4, <1>5, <1>6, <1>7, Zenon

\* So do the copies of the maps (memspace.scala 158-176; iospace.scala 49-63).
LEMMA SpacesType ==
  ASSUME TypeOK, Spaces
  PROVE  /\ update' = [h \in Holder |-> update'[h]] /\ effect' = [h \in Holder |-> effect'[h]]
         /\ \A h \in Holder : update'[h] \in [Map(h) -> Val] /\ effect'[h] \in [Map(h) -> Val]
<1>1. update_reg => wdata \in Val
  BY GrantedAccess, Zenon DEF update_reg, wen
<1>2. update' = [h \in Holder |-> update'[h]] /\ effect' = [h \in Holder |-> effect'[h]]
  BY Zenon DEF Spaces
<1>3. ASSUME NEW h \in Holder
      PROVE  update'[h] \in [Map(h) -> Val] /\ effect'[h] \in [Map(h) -> Val]
  <2>1. update[h] \in [Map(h) -> Val] /\ effect[h] \in [Map(h) -> Val]
    BY Zenon DEF TypeOK
  <2>2. update'[h] = IF update_reg /\ req.addr \in Map(h)
                     THEN [update[h] EXCEPT ![req.addr] = wdata] ELSE update[h]
    BY Zenon DEF Spaces
  <2>3. effect'[h] = IF update_reg /\ req.addr = Commit(h) THEN update[h] ELSE effect[h]
    BY Zenon DEF Spaces
  <2> QED
    BY <1>1, <2>1, <2>2, <2>3, Zenon
<1> QED
  BY <1>2, <1>3, Zenon

\* So do the host and the history.
LEMMA HostType ==
  ASSUME TypeOK, NEW taken \in {FALSE, host_req_valid}, NEW h \in hostq \cup {NoMsg},
         NEW d \in Traps, Host(taken, h), History(taken, d), NoWordLost
  PROVE  /\ hostq' \subseteq Msg /\ posted' \in Seq(Msg) /\ call' \in [Core -> Val]
         /\ unwritten' \subseteq MemMap \cup IOMap /\ trapped' \in [Core -> BOOLEAN]
<1>1. posts => chosen \in Core /\ wdata \in Val /\ wdata # {}
  BY GrantedAccess, Zenon DEF posts, wen
<1>2. hostq' \subseteq Msg
  <2>1. hostq \subseteq Msg /\ reg_tohost \in Val /\ reg_tohost_coreId \in Core
    BY Zenon DEF TypeOK
  <2>2. taken => reg_tohost # {}
    BY Zenon DEF host_req_valid
  <2>3. taken => [id |-> reg_tohost_coreId, data |-> reg_tohost] \in Msg
    BY <2>1, <2>2 DEF Msg
  <2> QED
    BY <2>1, <2>3, Zenon DEF Host
<1>3. posted' \in Seq(Msg)
  <2>1. posted \in Seq(Msg)
    BY Zenon DEF TypeOK
  <2>2. taken => posted # <<>>
    BY DEF NoWordLost, host_req_valid
  <2> DEFINE rest == IF taken THEN Tail(posted) ELSE posted
             new == IF posts THEN <<[id |-> chosen, data |-> wdata]>> ELSE <<>>
  <2>3. rest \in Seq(Msg)
    BY <2>1, <2>2
  <2>4. new \in Seq(Msg)
    <3>1. posts => [id |-> chosen, data |-> wdata] \in Msg
      BY <1>1 DEF Msg
    <3> QED
      BY <3>1
  <2>5. posted' = rest \o new
    BY Zenon DEF History
  <2> HIDE DEF rest, new
  <2> QED
    BY <2>3, <2>4, <2>5
<1>4. call' \in [Core -> Val]
  <2>1. {} \in Val /\ call \in [Core -> Val]
    BY DEF Val, TypeOK
  <2> QED
    BY <1>1, <2>1, Zenon DEF History
<1>5. unwritten' \subseteq MemMap \cup IOMap
  BY Zenon DEF History, TypeOK
<1>6. trapped' \in [Core -> BOOLEAN]
  BY DEF History
<1> QED
  BY <1>2, <1>3, <1>4, <1>5, <1>6, Zenon

\* tohost holds the one word that was sent and not taken: initially none is, and
\* a word is written only when tohost is empty.
LEMMA WordStep ==
  ASSUME NoWordLost, NEW taken \in {FALSE, host_req_valid}, NEW d,
         Registers(taken), History(taken, d)
  PROVE  NoWordLost'
<1> DEFINE msg == [id |-> reg_tohost_coreId, data |-> reg_tohost]
           rest == IF taken THEN Tail(posted) ELSE posted
<1>1. wen /\ req.addr = ptohost => reg_tohost = {} /\ posted = <<>> /\ ~taken
  BY Zenon DEF wen, fire, out_ready, NoWordLost, host_req_valid
<1>2. posted' = rest \o (IF posts THEN <<[id |-> chosen, data |-> wdata]>> ELSE <<>>)
  BY Zenon DEF History
<1>3. CASE wen /\ req.addr = ptohost
  <2>1. reg_tohost' = wdata /\ reg_tohost_coreId' = chosen
    BY <1>1, <1>3, Zenon DEF Registers
  <2>2. posts <=> wdata # {}
    BY <1>3, Zenon DEF posts
  <2>3. posted' = IF posts THEN <<[id |-> chosen, data |-> wdata]>> ELSE <<>>
    BY <1>1, <1>2, <1>3
  <2> QED
    BY <2>1, <2>2, <2>3, Zenon DEF NoWordLost
<1>4. CASE ~(wen /\ req.addr = ptohost) /\ taken
  <2>1. reg_tohost # {} /\ posted = <<msg>>
    BY <1>4, Zenon DEF host_req_valid, NoWordLost
  <2>2. reg_tohost' = {}
    BY <1>4, Zenon DEF Registers
  <2>3. ~posts
    BY <1>4, Zenon DEF posts
  <2>4. posted' = <<>>
    BY <2>1, <2>3, <1>2, <1>4
  <2> QED
    BY <2>2, <2>4, Zenon DEF NoWordLost
<1>5. CASE ~(wen /\ req.addr = ptohost) /\ ~taken
  <2>1. reg_tohost' = reg_tohost /\ reg_tohost_coreId' = reg_tohost_coreId
    BY <1>5, Zenon DEF Registers
  <2>2. ~posts
    BY <1>5, Zenon DEF posts
  <2>3. posted' = posted
    <3>1. posted' = posted \o <<>>
      BY <1>2, <1>5, <2>2, Zenon
    <3>2. posted = <<>> \/ posted = <<msg>>
      BY Zenon DEF NoWordLost
    <3> QED
      BY <3>1, <3>2
  <2> QED
    BY <2>1, <2>3, Zenon DEF NoWordLost
<1> QED
  BY <1>3, <1>4, <1>5, Zenon

\* The types and NoWordLost together: Tail(posted) has its type because a word
\* that is taken was sent.
WordInv == TypeOK /\ NoWordLost

\* Every cycle preserves both.
LEMMA WordInvStep == WordInv /\ [Next]_vars => WordInv'
<1> SUFFICES ASSUME TypeOK, NoWordLost, [Next]_vars
             PROVE  TypeOK' /\ NoWordLost'
  BY Zenon DEF WordInv
<1>1. CASE UNCHANGED vars
  BY <1>1 DEF vars, ctlVars, coreVars, TypeOK, NoWordLost
<1>2. CASE Next
  <2>1. PICK taken \in {FALSE, host_req_valid}, h \in hostq \cup {NoMsg},
             irqs \in SUBSET int_mask, d \in Traps : Tick(taken, h, irqs, d)
    BY <1>2, Zenon DEF Next
  <2>2. taken \in BOOLEAN
    BY Zenon DEF host_req_valid
  <2>3. /\ Clock /\ Registers(taken) /\ Interrupts(irqs) /\ SoftReset
        /\ WaitResp /\ Fromhost(h) /\ Timer(h) /\ TagCheckUnit(d) /\ Spaces
        /\ Host(taken, h) /\ History(taken, d) /\ Pipeline
        /\ prog' = prog
    BY <2>1, Zenon DEF Tick
  <2>4. /\ wall_clock' \in 0 .. Div * (MaxTime + 1) - 1
        /\ reg_time' \in Time
    BY <2>3, ClockType, Zenon
  <2>5. /\ reg' \in [Stored -> Val] /\ reg_tohost' \in Val
        /\ reg_tohost_coreId' \in Core /\ last_grant' \in Core
        /\ reg_int_pending' \in Val /\ soft_reset' \in BOOLEAN
        /\ soft_reset_cnt' \in 0 .. ResetCycles - 1
    BY <2>2, <2>3, RegistersType, Zenon
  <2>6. /\ op' \in [Core -> Access \cup {NoAcc}] /\ wb' \in [Core -> BOOLEAN]
        /\ pcr_wait_resp' \in [Core -> BOOLEAN] /\ reg_fromhost' \in [Core -> Val]
        /\ time' \in [Core -> Time] /\ reg_mtimecmp' \in [Core -> Time]
        /\ mtip' \in [Core -> BOOLEAN] /\ reg_tag_ctrl' \in [Core -> Val]
    BY <2>3, CoreType, Zenon
  <2>7. /\ update' = [g \in Holder |-> update'[g]] /\ effect' = [g \in Holder |-> effect'[g]]
        /\ \A g \in Holder : update'[g] \in [Map(g) -> Val] /\ effect'[g] \in [Map(g) -> Val]
    BY <2>3, SpacesType, Zenon
  <2>8. /\ hostq' \subseteq Msg /\ posted' \in Seq(Msg) /\ call' \in [Core -> Val]
        /\ unwritten' \subseteq MemMap \cup IOMap /\ trapped' \in [Core -> BOOLEAN]
    BY <2>3, HostType, Zenon
  <2>9. NoWordLost'
    BY <2>3, WordStep, Zenon
  <2>10. prog' \subseteq Access
    BY <2>3, Zenon DEF TypeOK
  <2> QED
    BY <2>10, <2>4, <2>5, <2>6, <2>7, <2>8, <2>9, Zenon DEF TypeOK
<1> QED
  BY <1>1, <1>2, Zenon

\* Every register of the PCRs and of their users keeps its type (pcr.scala).
THEOREM PcrTypeCorrect == Spec => []TypeOK
<1>1. Init => WordInv
  BY InitType, Zenon DEF WordInv, Init, NoWordLost
<1>2. WordInv => TypeOK
  BY Zenon DEF WordInv
<1> QED
  BY <1>1, <1>2, WordInvStep, PTL DEF Spec

\* No word for the host is lost, overwritten or attributed to another core
\* (pcr.scala 116-118, 193-204).
THEOREM HostGetsEveryWord == Spec => []NoWordLost
<1>1. Init => WordInv
  BY InitType, Zenon DEF WordInv, Init, NoWordLost
<1>2. WordInv => NoWordLost
  BY Zenon DEF WordInv
<1> QED
  BY <1>1, <1>2, WordInvStep, PTL DEF Spec

-----------------------------------------------------------------------------
\* The copies of the maps agree initially.
LEMMA InitCopies == Init => CopiesAgree
<1> SUFFICES ASSUME Init PROVE CopiesAgree
  OBVIOUS
<1>1. PICK junk \in Val : update = [h \in Holder |-> [a \in Map(h) |->
         IF a[2] = 0 THEN InitVal ELSE IF h[1] = "tc" THEN junk ELSE {}]]
  BY Zenon DEF Init
<1>2. ASSUME NEW h \in Holder, NEW a \in Map(h) \ unwritten
      PROVE  update[h][a] = reg[a]
  <2>1. a \in MemMap \cup IOMap
    BY Zenon DEF Map
  <2>2. a[2] = 0
    BY <2>1, Zenon DEF Init
  <2>3. reg[a] = InitVal
    BY <2>1, <2>2, Zenon DEF Init
  <2> QED
    BY <1>1, <2>2, <2>3, Zenon
<1>3. ASSUME NEW c \in Core
      PROVE  update[<<"dcache", c>>] = [a \in IOMap |-> IF a[2] = 0 THEN InitVal ELSE {}]
  <2>1. <<"dcache", c>> \in Holder /\ <<"dcache", c>>[1] = "dcache"
    BY DEF Holder
  <2>2. Map(<<"dcache", c>>) = IOMap
    BY <2>1 DEF Map
  <2> QED
    BY <1>1, <2>1, <2>2
<1>4. effect = update
  BY Zenon DEF Init
<1> QED
  BY <1>2, <1>3, <1>4, Zenon DEF CopiesAgree

\* A write of a register that has copies goes over the bus to all of them.
LEMMA CopiesStep ==
  ASSUME TypeOK, CopiesAgree, NEW taken, NEW d,
         Registers(taken), Spaces, History(taken, d)
  PROVE  CopiesAgree'
<1>1. ASSUME NEW h \in Holder, NEW a \in Map(h), a \notin unwritten'
      PROVE  update'[h][a] = reg'[a]
  <2>1. a \in Stored /\ a \in Broadcast
    BY Zenon DEF Map, Stored, Broadcast
  <2>2. update'[h] = IF update_reg /\ req.addr \in Map(h)
                     THEN [update[h] EXCEPT ![req.addr] = wdata] ELSE update[h]
    BY Zenon DEF Spaces
  <2>3. update[h] \in [Map(h) -> Val] /\ reg \in [Stored -> Val]
    BY Zenon DEF TypeOK
  <2>4. CASE wen /\ req.addr = a
    <3>1. update_reg
      BY <2>1, <2>4, Zenon DEF update_reg
    <3>2. update'[h][a] = wdata
      BY <2>2, <2>3, <2>4, <3>1, Zenon
    <3>3. reg'[a] = wdata
      BY <2>1, <2>3, <2>4, Zenon DEF Registers
    <3> QED
      BY <3>2, <3>3, Zenon
  <2>5. CASE ~(wen /\ req.addr = a)
    <3>1. a \notin unwritten
      BY <1>1, <2>5, Zenon DEF History
    <3>2. update[h][a] = reg[a]
      BY <3>1, Zenon DEF CopiesAgree
    <3>3. update_reg => req.addr # a
      BY <2>5, Zenon DEF update_reg
    <3>4. update'[h][a] = update[h][a]
      BY <2>2, <2>3, <3>3, Zenon
    <3>5. reg'[a] = reg[a]
      BY <2>1, <2>3, <2>5, Zenon DEF Registers
    <3> QED
      BY <3>2, <3>4, <3>5, Zenon
  <2> QED
    BY <2>4, <2>5, Zenon
<1>2. ASSUME NEW c \in Core, NEW e \in Core
      PROVE  /\ update'[<<"dcache", c>>] = update'[<<"dcache", e>>]
             /\ effect'[<<"dcache", c>>] = effect'[<<"dcache", e>>]
  <2>1. \A x \in Core : /\ <<"dcache", x>> \in Holder
                        /\ Map(<<"dcache", x>>) = IOMap
                        /\ Commit(<<"dcache", x>>) = pio_map_update
    BY DEF Holder, Map, Commit
  <2>2. /\ update[<<"dcache", c>>] = update[<<"dcache", e>>]
        /\ effect[<<"dcache", c>>] = effect[<<"dcache", e>>]
    BY Zenon DEF CopiesAgree
  <2> QED
    BY <2>1, <2>2, Zenon DEF Spaces
<1> QED
  BY <1>1, <1>2, Zenon DEF CopiesAgree

\* A core's copy of the tag control register changes with the register, and by
\* its own debug traps.
LEMMA TagCtrlStep ==
  ASSUME TypeOK, TagCtrlAgrees, NEW taken, NEW d \in Traps,
         Registers(taken), TagCheckUnit(d), History(taken, d)
  PROVE  TagCtrlAgrees'
<1> SUFFICES ASSUME NEW c \in Core
             PROVE  reg_tag_ctrl'[c] = IF trapped'[c] THEN {} ELSE reg'[ptagctrl]
  BY Zenon DEF TagCtrlAgrees
<1>1. reg_tag_ctrl[c] = IF trapped[c] THEN {} ELSE reg[ptagctrl]
  BY Zenon DEF TagCtrlAgrees
<1>2. ptagctrl \in Stored /\ ptagctrl \in Broadcast /\ reg \in [Stored -> Val]
  BY Zenon DEF Stored, Broadcast, TypeOK
<1>3. trapped'[c] = (c \in d \/ (trapped[c] /\ ~(update_reg /\ req.addr = ptagctrl)))
  BY Zenon DEF History
<1>4. reg_tag_ctrl'[c] = IF c \in d THEN {}
                         ELSE IF update_reg /\ req.addr = ptagctrl THEN wdata
                         ELSE reg_tag_ctrl[c]
  BY Zenon DEF TagCheckUnit
<1>5. reg'[ptagctrl] = IF update_reg /\ req.addr = ptagctrl THEN wdata ELSE reg[ptagctrl]
  BY <1>2, Zenon DEF Registers, update_reg
<1>6. CASE c \in d
  BY <1>3, <1>4, <1>6, Zenon
<1>7. CASE c \notin d /\ update_reg /\ req.addr = ptagctrl
  BY <1>3, <1>4, <1>5, <1>7, Zenon
<1>8. CASE c \notin d /\ ~(update_reg /\ req.addr = ptagctrl)
  BY <1>1, <1>3, <1>4, <1>5, <1>8, Zenon
<1> QED
  BY <1>6, <1>7, <1>8, Zenon

\* The copies of the time follow a clock that does not go back; a write of
\* mtimecmp clears the interrupt of its old value.
LEMMA TimerStep ==
  ASSUME TypeOK, TimerNotEarly, NEW h, Clock, Timer(h)
  PROVE  TimerNotEarly'
<1> DEFINE q == wall_clock \div Div
           r == wall_clock' \div Div
<1>1. Div \in Nat \ {0} /\ wall_clock \in Nat /\ wall_clock' \in Nat /\ wall_clock <= wall_clock'
  <2>1. Div \in Nat \ {0} /\ MaxTime \in Nat
    BY PcrAssumption, Zenon
  <2>2. wall_clock \in 0 .. Div * (MaxTime + 1) - 1
    BY Zenon DEF TypeOK
  <2>3. wall_clock' \in 0 .. Div * (MaxTime + 1) - 1 /\ wall_clock <= wall_clock'
    BY ClockType, Zenon
  <2>4. Div * (MaxTime + 1) \in Nat
    BY <2>1
  <2> QED
    BY <2>1, <2>2, <2>3, <2>4
<1>2. q \in Nat /\ r \in Nat /\ q <= r
  BY <1>1, DivDef, DivMono
<1>3. reg_time' = q
  BY Zenon DEF Clock
<1> HIDE DEF q, r
<1>4. reg_time \in Nat /\ reg_time <= q
  BY DEF TypeOK, TimerNotEarly, Time, q
<1>5. ASSUME NEW c \in Core
      PROVE  time'[c] <= reg_time' /\ (mtip'[c] => reg_mtimecmp'[c] <= r)
  <2>1. time[c] \in Nat /\ reg_mtimecmp[c] \in Nat
    BY DEF TypeOK, Time
  <2>2. time[c] <= reg_time /\ (mtip[c] => reg_mtimecmp[c] <= q)
    BY Zenon DEF TimerNotEarly, q
  <2>3. time'[c] = reg_time \/ time'[c] = time[c]
    BY Zenon DEF Timer
  <2>4. mtip'[c] => ~writes_mtimecmp(c) /\ (mtip[c] \/ time[c] >= reg_mtimecmp[c])
    BY Zenon DEF Timer
  <2>5. ~writes_mtimecmp(c) => reg_mtimecmp'[c] = reg_mtimecmp[c]
    BY Zenon DEF Timer
  <2>6. time'[c] <= reg_time'
    BY <1>2, <1>3, <1>4, <2>1, <2>2, <2>3
  <2>7. ASSUME mtip'[c] PROVE reg_mtimecmp'[c] <= r
    <3>1. reg_mtimecmp'[c] = reg_mtimecmp[c] /\ (mtip[c] \/ time[c] >= reg_mtimecmp[c])
      BY <2>4, <2>5, <2>7, Zenon
    <3>2. CASE mtip[c]
      BY <1>2, <2>1, <2>2, <3>1, <3>2
    <3>3. CASE time[c] >= reg_mtimecmp[c]
      BY <1>2, <1>4, <2>1, <2>2, <3>1, <3>3
    <3> QED
      BY <3>1, <3>2, <3>3, Zenon
  <2> QED
    BY <2>6, <2>7, Zenon
<1>6. reg_time' <= r
  BY <1>2, <1>3
<1> QED
  BY <1>5, <1>6, Zenon DEF TimerNotEarly, r

\* What every cycle preserves, together.
PcrInv == WordInv /\ CopiesAgree /\ TagCtrlAgrees /\ TimerNotEarly

\* The initial state satisfies it.
LEMMA InitPcrInv == Init => PcrInv
<1> SUFFICES ASSUME Init PROVE PcrInv
  OBVIOUS
<1>1. WordInv
  BY InitType, Zenon DEF WordInv, Init, NoWordLost
<1>2. TagCtrlAgrees
  BY Zenon DEF Init, TagCtrlAgrees
<1>3. TimerNotEarly
  <2>1. 0 \div Div = 0
    BY PcrAssumption
  <2> QED
    BY <2>1 DEF Init, TimerNotEarly
<1> QED
  BY <1>1, <1>2, <1>3, InitCopies, Zenon DEF PcrInv

\* Every cycle preserves it.
LEMMA PcrInvStep == PcrInv /\ [Next]_vars => PcrInv'
<1> SUFFICES ASSUME PcrInv, [Next]_vars
             PROVE  PcrInv'
  OBVIOUS
<1>1. WordInv'
  BY WordInvStep, Zenon DEF PcrInv
<1>2. TypeOK /\ CopiesAgree /\ TagCtrlAgrees /\ TimerNotEarly
  BY Zenon DEF PcrInv, WordInv
<1>3. CASE UNCHANGED vars
  BY <1>1, <1>2, <1>3 DEF vars, ctlVars, coreVars, PcrInv, CopiesAgree, TagCtrlAgrees,
     TimerNotEarly
<1>4. CASE Next
  <2>1. PICK taken \in {FALSE, host_req_valid}, h \in hostq \cup {NoMsg},
             irqs \in SUBSET int_mask, d \in Traps : Tick(taken, h, irqs, d)
    BY <1>4, Zenon DEF Next
  <2>2. /\ Clock /\ Registers(taken) /\ Timer(h) /\ TagCheckUnit(d) /\ Spaces
        /\ History(taken, d)
    BY <2>1, Zenon DEF Tick
  <2>3. CopiesAgree'
    BY <1>2, <2>2, CopiesStep, Zenon
  <2>4. TagCtrlAgrees'
    BY <1>2, <2>2, TagCtrlStep, Zenon
  <2>5. TimerNotEarly'
    BY <1>2, <2>2, TimerStep, Zenon
  <2> QED
    BY <1>1, <2>3, <2>4, <2>5, Zenon DEF PcrInv
<1> QED
  BY <1>3, <1>4, Zenon

\* The copies of the memory map and of the I/O map agree with the PCRs and with
\* each other (pcr.scala 163-257; memspace.scala 158-176; iospace.scala 49-63).
THEOREM MapsAgree == Spec => []CopiesAgree
<1>1. PcrInv => CopiesAgree
  BY Zenon DEF PcrInv
<1> QED
  BY <1>1, InitPcrInv, PcrInvStep, PTL DEF Spec

\* Every core checks tags by the one tag control register, or not at all after a
\* debug trap (tag_check_unit.scala 38-41, 83-86).
THEOREM TagControlAgrees == Spec => []TagCtrlAgrees
<1>1. PcrInv => TagCtrlAgrees
  BY Zenon DEF PcrInv
<1> QED
  BY <1>1, InitPcrInv, PcrInvStep, PTL DEF Spec

\* No timer interrupt is early (csr.scala 372-374, 444).
THEOREM TimersAreNotEarly == Spec => []TimerNotEarly
<1>1. PcrInv => TimerNotEarly
  BY Zenon DEF PcrInv
<1> QED
  BY <1>1, InitPcrInv, PcrInvStep, PTL DEF Spec

\* A map in effect is replaced by what the PCRs hold (memspace.scala 170-176).
THEOREM CommitsTakeRegisters == Spec => CommitTakesRegisters
<1>1. PcrInv /\ [Next]_vars => [TakesRegisters]_vars
  <2> SUFFICES ASSUME PcrInv, Next PROVE TakesRegisters
    OBVIOUS
  <2>1. Spaces
    BY Zenon DEF Next, Tick
  <2>2. ASSUME NEW h \in Holder, effect'[h] # effect[h], NEW a \in Map(h) \ unwritten
        PROVE  effect'[h][a] = reg[a]
    <3>1. effect'[h] = update[h]
      BY <2>1, <2>2, Zenon DEF Spaces
    <3> QED
      BY <3>1, Zenon DEF PcrInv, CopiesAgree
  <2> QED
    BY <2>2, Zenon DEF TakesRegisters
<1> QED
  BY <1>1, InitPcrInv, PcrInvStep, PTL DEF Spec, CommitTakesRegisters
=============================================================================
