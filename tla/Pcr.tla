--------------------------------- MODULE Pcr --------------------------------
(***************************************************************************)
(* The processor control registers (uncore/src/main/scala/pcr.scala), and  *)
(* their users: the CSR file of every core (rocket csr.scala), the copies  *)
(* of the tag control register (tag_check_unit.scala), of the memory map   *)
(* (memspace.scala) and of the I/O map (iospace.scala), and the host.      *)
(*                                                                         *)
(* One step of Next is one clock cycle.  A request is answered in the      *)
(* cycle in which it is granted, or replayed.  Writes of the shared        *)
(* registers, the host's responses and the clock share one update bus.     *)
(*                                                                         *)
(* A register value is the set of its bits, so CSRRS and CSRRC are union   *)
(* and difference.  An address is <<name, index>>.  Privilege checks are   *)
(* left out: the accesses are those that pass them.                        *)
(***************************************************************************)
EXTENDS Integers, FiniteSets, Sequences

CONSTANTS
  NCores,       \* NTiles
  Bits,         \* the bits of a register
  DebugBit,     \* DEBUG_TAG_CHECK
  IntLines,     \* the bits with a connected interrupt line
  InitVal,      \* the reset value of the registers that have one
  NMem, NIO,    \* registers of the memory and of the I/O map
  Div,          \* clock cycles per unit of time (64)
  ResetCycles,  \* length of a soft reset (20)
  MaxTime,      \* the last unit of time (bounds wall_clock)
  Programs      \* what software may do: sets of accesses [addr, cmd, data]

Core == 0 .. NCores - 1
Val  == SUBSET Bits
Time == 0 .. MaxTime

ASSUME PcrAssumption ==
  /\ NCores \in Nat \ {0} /\ NMem \in Nat /\ NIO \in Nat
  /\ Div \in Nat \ {0} /\ ResetCycles \in Nat /\ ResetCycles >= 2 /\ MaxTime \in Nat
  /\ DebugBit \in Bits /\ IntLines \subseteq Bits /\ InitVal \subseteq Bits

ptime           == <<"ptime", 0>>
ptohost         == <<"ptohost", 0>>
preset          == <<"preset", 0>>
ptagctrl        == <<"ptagctrl", 0>>
pmem_map(i)     == <<"pmem_map", i>>
pmem_map_update == <<"pmem_map_update", 0>>
pio_map(i)      == <<"pio_map", i>>
pio_map_update  == <<"pio_map_update", 0>>
pint_en(c)      == <<"pint_en", c>>
pint_pending(c) == <<"pint_pending", c>>
mfromhost       == <<"mfromhost", 0>>       \* a CSR of the core
mtimecmp(t)     == <<"mtimecmp", t>>        \* mtimecmp; a write makes it t

MemMap == {pmem_map(i) : i \in 0 .. NMem - 1}
IOMap  == {pio_map(i) : i \in 0 .. NIO - 1}
Stored == {ptagctrl} \cup MemMap \cup IOMap \cup {pint_en(c) : c \in Core}
Broadcast == {ptagctrl, pmem_map_update, pio_map_update} \cup MemMap \cup IOMap
PcrAddrs == {ptime, ptohost, preset} \cup Stored \cup Broadcast
            \cup {pint_pending(c) : c \in Core}
CsrAddrs == {mfromhost} \cup {mtimecmp(t) : t \in Time}

\* The copies of the maps: of the memory map in the tag cache, of the I/O map
\* in the data cache of every core.
Holder   == {"tc"} \X {0} \cup {"dcache"} \X Core
Map(h)   == IF h[1] = "tc" THEN MemMap ELSE IOMap
Commit(h) == IF h[1] = "tc" THEN pmem_map_update ELSE pio_map_update

Access == UNION Programs

ASSUME AccessAssumption ==
  Access \subseteq [addr : PcrAddrs \cup CsrAddrs, cmd : {"R", "W", "S", "C"}, data : Val]

NoAcc  == [addr |-> <<"none", 0>>, cmd |-> "N", data |-> {}]
Msg    == [id : Core, data : Val \ {{}}]
NoMsg  == [id |-> 0, data |-> {}]

VARIABLES
  \* PCRControl
  wall_clock, reg_time, reg, reg_tohost, reg_tohost_coreId, reg_int_pending,
  soft_reset, soft_reset_cnt, last_grant,
  \* every core: the access it executes, whether that is in the write-back
  \* stage, its CSRs, its copies of the time and of the tag control register
  op, wb, pcr_wait_resp, reg_fromhost, time, reg_mtimecmp, mtip, reg_tag_ctrl,
  \* the copies of the maps: written, and in effect
  update, effect,
  \* the host's open responses; words written to tohost and not yet taken;
  \* the word of each core's open call; the addresses not yet written and the
  \* cores whose tag control was cleared by a debug trap (history)
  hostq, posted, call, unwritten, trapped,
  \* the accesses that software makes
  prog

ctlVars  == <<wall_clock, reg_time, reg, reg_tohost, reg_tohost_coreId,
              reg_int_pending, soft_reset, soft_reset_cnt, last_grant>>
coreVars == <<op, wb, pcr_wait_resp, reg_fromhost, time, reg_mtimecmp, mtip,
              reg_tag_ctrl>>
vars == <<ctlVars, coreVars, update, effect, hostq, posted, call, unwritten, trapped, prog>>

-----------------------------------------------------------------------------
(* Wires.  h is the host's response in this cycle, or NoMsg.               *)

pcr_addr_valid(a) == a[1] \notin {"mfromhost", "mtimecmp"}
pcr_req_valid(c) == wb[c] /\ pcr_addr_valid(op[c].addr) /\ ~pcr_wait_resp[c]
Requests == {c \in Core : pcr_req_valid(c)}

\* The round-robin arbiter: the next requester above the last one granted.
First(S) == CHOOSE c \in S : \A d \in S : c <= d
chosen == LET above == {c \in Requests : c > last_grant}
          IN  IF above # {} THEN First(above) ELSE First(Requests)
req    == op[chosen]

\* Mutant: a word for the host does not wait.
out_ready_Always == TRUE
\* A word for the host waits until the host has taken the previous one.
out_ready == reg_tohost = {} \/ req.addr # ptohost
fire      == Requests # {} /\ out_ready
granted(c) == fire /\ chosen = c

\* The value read (that of ptime is not modelled) and the value written.
ReadReg(a) == IF a \in Stored THEN reg[a]
              ELSE IF a[1] = "pint_pending" THEN reg[pint_en(a[2])] \cap reg_int_pending
              ELSE {}
Apply(a, old) == CASE a.cmd = "C" -> old \ a.data
                   [] a.cmd = "S" -> old \cup a.data
                   [] OTHER       -> a.data
wen   == fire /\ req.cmd # "R"
wdata == Apply(req, ReadReg(req.addr))

\* The update bus: a register write goes first, then the host, then the clock.
update_reg      == wen /\ req.addr \in Broadcast
update_host(h)  == ~update_reg /\ h # NoMsg
update_clock(h) == ~update_reg /\ h = NoMsg
host_resp_fire(h) == update_host(h)

csr_replay(c) == pcr_req_valid(c) /\ ~granted(c)
csr_stall(c)  == pcr_wait_resp[c] /\ ~granted(c)
debugCheckActivated(c) == DebugBit \in reg_tag_ctrl[c]

-----------------------------------------------------------------------------
(* PCRControl.                                                             *)

Clock ==
  /\ wall_clock' = IF wall_clock < Div * (MaxTime + 1) - 1 THEN wall_clock + 1
                   ELSE wall_clock
  /\ reg_time' = wall_clock \div Div

\* taken says whether the host takes the word in tohost in this cycle.
host_req_valid == reg_tohost # {}

Registers(taken) ==
  /\ reg' = IF wen /\ req.addr \in Stored THEN [reg EXCEPT ![req.addr] = wdata] ELSE reg
  /\ reg_tohost' = IF taken THEN {}
                   ELSE IF wen /\ req.addr = ptohost THEN wdata ELSE reg_tohost
  /\ reg_tohost_coreId' = IF wen /\ req.addr = ptohost THEN chosen ELSE reg_tohost_coreId
  /\ last_grant' = IF fire THEN chosen ELSE last_grant

Interrupts(irqs) == reg_int_pending' = irqs

\* Mutant: the counter of the reset does not wrap.
SoftReset_NoWrap ==
  /\ soft_reset' = ((fire /\ req.addr = preset)
                    \/ (soft_reset /\ soft_reset_cnt # ResetCycles - 1))
  /\ soft_reset_cnt' = IF soft_reset THEN soft_reset_cnt + 1 ELSE soft_reset_cnt

SoftReset ==
  /\ soft_reset' = ((fire /\ req.addr = preset)
                    \/ (soft_reset /\ soft_reset_cnt # ResetCycles - 1))
  /\ soft_reset_cnt' = IF soft_reset THEN (soft_reset_cnt + 1) % ResetCycles
                       ELSE soft_reset_cnt

-----------------------------------------------------------------------------
(* The cores.                                                              *)

\* What core c may have in its write-back stage next: a replayed access is
\* fetched again, and stays in the decode stage while csr_stall holds.  A reset
\* empties the stage at once; in the code its valid bit has no reset value, and the
\* stages drain in the first cycles of the reset.
NextAccess(c) ==
  IF soft_reset THEN {<<NoAcc, FALSE>>}
  ELSE IF wb[c] /\ csr_replay(c) THEN {<<op[c], FALSE>>}
  ELSE IF wb[c] \/ op[c] = NoAcc
  THEN {<<NoAcc, FALSE>>} \cup {<<a, TRUE>> : a \in prog}
  ELSE {op[c]} \X (IF csr_stall(c) THEN {FALSE} ELSE BOOLEAN)

NextAccesses ==
  LET next == [c \in Core |-> NextAccess(c)]
  IN  {n \in [Core -> UNION {next[c] : c \in Core}] : \A c \in Core : n[c] \in next[c]}

Pipeline == \E n \in NextAccesses : /\ op' = [c \in Core |-> n[c][1]]
                                   /\ wb' = [c \in Core |-> n[c][2]]

\* Chisel's ! of a UInt: a Bool that is true for zero.
Not(x) == IF x = 0 THEN 1 ELSE 0

WaitResp ==
  pcr_wait_resp' = [c \in Core |->
    /\ ~soft_reset
    /\ \/ pcr_req_valid(c) /\ (~fire \/ Not(chosen) = c)
       \/ pcr_wait_resp[c] /\ ~granted(c)]

\* mfromhost is written by an access only while it is zero, and by the host.
Fromhost(h) ==
  reg_fromhost' = [c \in Core |->
    IF soft_reset THEN {}
    ELSE IF update_host(h) /\ h.id = c THEN h.data
    ELSE IF /\ wb[c] /\ op[c].addr = mfromhost /\ op[c].cmd # "R"
            /\ reg_fromhost[c] = {}
    THEN Apply(op[c], reg_fromhost[c])
    ELSE reg_fromhost[c]]

writes_mtimecmp(c) == wb[c] /\ op[c].addr[1] = "mtimecmp" /\ op[c].cmd # "R"

\* Mutant: a write of mtimecmp leaves the old interrupt pending.
Timer_NotCleared(h) ==
  /\ time' = [c \in Core |->
       IF update_clock(h) /\ (wall_clock % Div = 0 \/ c = 0) THEN reg_time ELSE time[c]]
  /\ reg_mtimecmp' = [c \in Core |->
       IF writes_mtimecmp(c) THEN op[c].addr[2] ELSE reg_mtimecmp[c]]
  /\ mtip' = [c \in Core |->
       ~soft_reset /\ (mtip[c] \/ time[c] >= reg_mtimecmp[c])]

\* The clock's update is valid once per unit of time; core 0 takes it in every
\* cycle, because the condition on the core's number does not ask for valid.
Timer(h) ==
  /\ time' = [c \in Core |->
       IF update_clock(h) /\ (wall_clock % Div = 0 \/ c = 0) THEN reg_time ELSE time[c]]
  /\ reg_mtimecmp' = [c \in Core |->
       IF writes_mtimecmp(c) THEN op[c].addr[2] ELSE reg_mtimecmp[c]]
  /\ mtip' = [c \in Core |->
       /\ ~soft_reset
       /\ ~writes_mtimecmp(c)
       /\ (mtip[c] \/ time[c] >= reg_mtimecmp[c])]

\* Mutant: an update in the cycle of a debug trap goes first.
TagCheckUnit_UpdateFirst(d) ==
  reg_tag_ctrl' = [c \in Core |->
    IF update_reg /\ req.addr = ptagctrl THEN wdata
    ELSE IF c \in d THEN {} ELSE reg_tag_ctrl[c]]

\* The check unit's copy; a debug trap clears it, an update in that cycle too.
TagCheckUnit(d) ==
  reg_tag_ctrl' = [c \in Core |->
    IF c \in d THEN {}
    ELSE IF update_reg /\ req.addr = ptagctrl THEN wdata
    ELSE reg_tag_ctrl[c]]

\* Mutant: only core 0 listens to the bus.
Spaces_Core0 ==
  /\ update' = [h \in Holder |->
       IF update_reg /\ req.addr \in Map(h) /\ h[2] = 0
       THEN [update[h] EXCEPT ![req.addr] = wdata] ELSE update[h]]
  /\ effect' = [h \in Holder |->
       IF update_reg /\ req.addr = Commit(h) THEN update[h] ELSE effect[h]]
\* Mutant: a write takes effect at once.
Spaces_AtOnce ==
  /\ update' = [h \in Holder |->
       IF update_reg /\ req.addr \in Map(h)
       THEN [update[h] EXCEPT ![req.addr] = wdata] ELSE update[h]]
  /\ effect' = update'

\* MemSpaceConsts and IOSpaceConsts: a map is collected and then put in effect.
Spaces ==
  /\ update' = [h \in Holder |->
       IF update_reg /\ req.addr \in Map(h)
       THEN [update[h] EXCEPT ![req.addr] = wdata] ELSE update[h]]
  /\ effect' = [h \in Holder |->
       IF update_reg /\ req.addr = Commit(h) THEN update[h] ELSE effect[h]]

-----------------------------------------------------------------------------
(* The host answers every word it takes, with that word, when it likes; the *)
(* one of the test bench (host_behav.sv) never raises req_ready and so is    *)
(* one of these.  And the history.                                          *)

Host(taken, h) ==
  hostq' = (IF host_resp_fire(h) THEN hostq \ {h} ELSE hostq)
           \cup (IF taken THEN {[id |-> reg_tohost_coreId, data |-> reg_tohost]} ELSE {})

posts   == wen /\ req.addr = ptohost /\ wdata # {}
returns(c) == wb[c] /\ op[c].addr = mfromhost /\ reg_fromhost[c] # {}

History(taken, d) ==
  /\ posted' = (IF taken THEN Tail(posted) ELSE posted)
               \o (IF posts THEN <<[id |-> chosen, data |-> wdata]>> ELSE <<>>)
  /\ call' = [c \in Core |-> IF posts /\ chosen = c THEN wdata
                             ELSE IF soft_reset \/ returns(c) THEN {} ELSE call[c]]
  /\ unwritten' = IF wen THEN unwritten \ {req.addr} ELSE unwritten
  /\ trapped' = [c \in Core |->
       c \in d \/ (trapped[c] /\ ~(update_reg /\ req.addr = ptagctrl))]

-----------------------------------------------------------------------------
\* After a power-on reset, which lasts long enough for the update bus to set the
\* cores' time and for the maps to take effect.  Some registers have no reset
\* value: the interrupt enables (those of the connected lines matter), mtimecmp,
\* and the base of a disabled map section (index 1 and up).
Init ==
  /\ wall_clock = 0 /\ reg_time = 0
  /\ reg \in {f \in [Stored -> Val] :
               /\ f[ptagctrl] = InitVal
               /\ \A a \in MemMap \cup IOMap : a[2] = 0 => f[a] = InitVal
               /\ \A c \in Core : f[pint_en(c)] \subseteq IntLines}
  /\ reg_tohost = {} /\ reg_tohost_coreId = 0 /\ reg_int_pending = {}
  /\ soft_reset = FALSE /\ soft_reset_cnt = 0 /\ last_grant = 0
  /\ op = [c \in Core |-> NoAcc] /\ wb = [c \in Core |-> FALSE]
  /\ pcr_wait_resp = [c \in Core |-> FALSE] /\ reg_fromhost = [c \in Core |-> {}]
  /\ time = [c \in Core |-> 0] /\ reg_mtimecmp \in [Core -> Time]
  /\ mtip = [c \in Core |-> FALSE] /\ reg_tag_ctrl = [c \in Core |-> InitVal]
  /\ \E junk \in Val : update = [h \in Holder |-> [a \in Map(h) |->
       IF a[2] = 0 THEN InitVal ELSE IF h[1] = "tc" THEN junk ELSE {}]]
  /\ effect = update
  /\ hostq = {} /\ posted = <<>> /\ call = [c \in Core |-> {}]
  /\ unwritten = {a \in MemMap \cup IOMap : a[2] # 0}
  /\ trapped = [c \in Core |-> FALSE]
  /\ prog \in Programs

\* One clock cycle: taken and h are the host's, irqs the enabled interrupt lines,
\* d the cores with a debug trap.
Tick(taken, h, irqs, d) ==
  /\ Clock /\ Registers(taken) /\ Interrupts(irqs) /\ SoftReset
  /\ WaitResp /\ Fromhost(h) /\ Timer(h)
  /\ TagCheckUnit(d) /\ Spaces /\ Host(taken, h) /\ History(taken, d) /\ Pipeline
  /\ prog' = prog

Traps    == SUBSET {c \in Core : debugCheckActivated(c)}
int_mask == IntLines \cap UNION {reg[pint_en(c)] : c \in Core}

Next == \E taken \in {FALSE, host_req_valid}, h \in hostq \cup {NoMsg},
           irqs \in SUBSET int_mask, d \in Traps : Tick(taken, h, irqs, d)

Spec == Init /\ [][Next]_vars

\* The scheduling: a core that is not held in its decode stage executes the access
\* it has, and the host takes what it is offered.
Executes(c) == Next /\ op[c] # NoAcc /\ wb'[c]
HostTakes   == host_req_valid /\ \E h \in hostq \cup {NoMsg},
                  irqs \in SUBSET int_mask, d \in Traps : Tick(TRUE, h, irqs, d)
FairSpec == Spec /\ (\A c \in Core : WF_vars(Executes(c))) /\ WF_vars(HostTakes)

\* Software that calls the host and then polls for the answer, as the system
\* calls of the benchmarks do.
Calls(c) == IF call[c] = {} THEN [addr : {ptohost}, cmd : {"W"}, data : Val \ {{}}]
            ELSE [addr : {mfromhost}, cmd : {"W"}, data : {{}}]
CallNext == Next /\ \A c \in Core : op'[c] \in {NoAcc} \cup Calls(c)'
CallSpec == Init /\ [][CallNext]_vars

-----------------------------------------------------------------------------
(* Properties.                                                             *)

\* The types; the clock and the counter of the reset stay in their ranges.
TypeOK ==
  /\ wall_clock \in 0 .. Div * (MaxTime + 1) - 1 /\ reg_time \in Time
  /\ reg \in [Stored -> Val] /\ reg_tohost \in Val /\ reg_tohost_coreId \in Core
  /\ reg_int_pending \in Val /\ soft_reset \in BOOLEAN
  /\ soft_reset_cnt \in 0 .. ResetCycles - 1 /\ last_grant \in Core
  /\ op \in [Core -> Access \cup {NoAcc}] /\ wb \in [Core -> BOOLEAN]
  /\ pcr_wait_resp \in [Core -> BOOLEAN] /\ reg_fromhost \in [Core -> Val]
  /\ time \in [Core -> Time] /\ reg_mtimecmp \in [Core -> Time]
  /\ mtip \in [Core -> BOOLEAN] /\ reg_tag_ctrl \in [Core -> Val]
  /\ update = [h \in Holder |-> update[h]] /\ effect = [h \in Holder |-> effect[h]]
  /\ \A h \in Holder : update[h] \in [Map(h) -> Val] /\ effect[h] \in [Map(h) -> Val]
  /\ hostq \subseteq Msg /\ posted \in Seq(Msg) /\ call \in [Core -> Val]
  /\ unwritten \subseteq MemMap \cup IOMap /\ trapped \in [Core -> BOOLEAN]
  /\ prog \subseteq Access

\* Every copy of a map holds what the PCRs hold, except in a register that has no
\* reset value and was never written; and all cores have the same I/O map.
\* No update is lost on the shared bus (pcr.scala 163-257).
CopiesAgree ==
  /\ \A h \in Holder : \A a \in Map(h) \ unwritten : update[h][a] = reg[a]
  /\ \A c, d \in Core : /\ update[<<"dcache", c>>] = update[<<"dcache", d>>]
                        /\ effect[<<"dcache", c>>] = effect[<<"dcache", d>>]

\* A map in effect changes as a whole: to what the PCRs hold (memspace.scala 170).
TakesRegisters ==
  \A h \in Holder : effect'[h] # effect[h] =>
    \A a \in Map(h) \ unwritten : effect'[h][a] = reg[a]
CommitTakesRegisters == [][TakesRegisters]_vars

\* A core checks tags by the tag control register of the PCRs, unless a debug trap
\* has switched its checks off since the last write of that register; then it
\* checks nothing (tag_check_unit.scala 38-41, 83-86).
TagCtrlAgrees ==
  \A c \in Core : reg_tag_ctrl[c] = IF trapped[c] THEN {} ELSE reg[ptagctrl]

\* The words that cores have sent and the host has not taken are what tohost holds,
\* with its sender: none is lost or overwritten (pcr.scala 116-118, 193-204).
NoWordLost ==
  posted = IF reg_tohost = {} THEN <<>>
           ELSE <<[id |-> reg_tohost_coreId, data |-> reg_tohost]>>

\* The timer interrupt of a core is pending only when the wall clock has reached
\* the core's mtimecmp, not for an earlier value of it, and no copy of the time is
\* ahead of the clock (pcr.scala 173-180; csr.scala 372-374, 444, 510).
TimerNotEarly ==
  /\ \A c \in Core : time[c] <= reg_time /\ (mtip[c] => reg_mtimecmp[c] <= wall_clock \div Div)
  /\ reg_time <= wall_clock \div Div

\* An access that is not ready is replayed until it is granted, or the core is
\* reset (csr.scala 383, "pcr write but not ready").
AccessCompletes == \A c \in Core : csr_replay(c) ~> (granted(c) \/ soft_reset)

\* A poll of mfromhost that returns a value returns the answer to the core's
\* last call (the loops over swap_csr(mfromhost, 0); csr.scala 445).
PollGetsAnswer == \A c \in Core : returns(c) => reg_fromhost[c] = call[c]
=============================================================================
