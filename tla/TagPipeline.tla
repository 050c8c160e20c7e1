----------------------------- MODULE TagPipeline -----------------------------
(***************************************************************************)
(* The tags of the registers in the pipeline of the core (rocket.scala),   *)
(* with the tag ALU and the tag check.  One step is one clock cycle.       *)
(*                                                                         *)
(* Tags take the way of the data: they are read in decode, bypassed into   *)
(* execute, and written back with the result; the result of a load that    *)
(* missed and of a division comes later, and the scoreboard keeps its      *)
(* register.  Data, addresses and the program counter are left out: what   *)
(* the front end delivers, mispredictions, faults and the answers of the   *)
(* data cache are inputs.                                                  *)
(*                                                                         *)
(* A stage is [valid, replay, xcpt, i, tag, used]: the instruction, the    *)
(* tag that the tag ALU gave it, and the tags of its operands (history);   *)
(* in execute [valid, xcpt, i, src, pre, load_use]: where the tags come    *)
(* from and the ones read in decode.  missed holds the loads whose answer  *)
(* is still to come, coming the one that comes in this cycle.              *)
(* The answers of the cache that a killed instruction leaves in write-back *)
(* do not matter: what could wait for them is killed with it.              *)
(* arch is the tag of every register after the instructions that have      *)
(* retired, in their order (history).                                      *)
(***************************************************************************)
EXTENDS Integers, FiniteSets

CONSTANTS
  Regs,      \* 0, ra = 1, and others
  User,      \* bits 2 and 3 of a tag, for the software
  Program    \* the instructions: [op, rd, rs1, rs2, mtag, bad]: mtag is what a
             \* load finds; a bad one is illegal or could not be fetched

ASSUME RegsAssumption == {0, 1} \subseteq Regs

VARIABLES ex, mem, wb, trf, arch, sboard, div, missed, coming

pipeVars == <<ex, mem, wb, trf, arch, sboard, div, missed, coming>>

IsMem(i) == i.op \in {"load", "slow", "store"}
IsCsr(i) == i.op \in {"csr", "sys"}
Wxd(i) == i.op \notin {"store", "branch", "sys", "nop", "interrupt"}
Jumps(i) == i.op \in {"jal", "jalr", "branch"}
NoInstr(op) == [op |-> op, rd |-> 0, rs1 |-> 0, rs2 |-> 0, mtag |-> {}, bad |-> FALSE]
Nop == NoInstr("nop")
Interrupt == NoInstr("interrupt")
Bubble(replay) ==
  [valid |-> FALSE, replay |-> replay, xcpt |-> "no", i |-> Nop, tag |-> {}, used |-> <<{}, {}>>]
EmptyEx(xcpt) ==
  [valid |-> FALSE, xcpt |-> xcpt, i |-> Nop, src |-> <<0, 0>>, pre |-> <<{}, {}>>, load_use |-> FALSE]
Idle == [busy |-> FALSE, fresh |-> FALSE, rd |-> 0]

----------------------------------------------------------------------------
(* Tags: the set of their bits; "inv" is bit 0, "ret" bit 1. *)

Tags == SUBSET ({"inv", "ret"} \cup User)

Instr ==
  [op : {"alu", "mv", "jal", "jalr", "branch", "load", "slow", "store", "div", "csr", "sys"},
   rd : Regs, rs1 : Regs, rs2 : Regs, mtag : Tags, bad : BOOLEAN]

ASSUME ProgramAssumption == Program \subseteq Instr

\* tag_alu.scala.
TagALU(i, in1, in2) ==
  CASE i.op \in {"jal", "jalr"} -> {"ret"}
    [] i.op = "mv" -> in1
    [] OTHER -> (in1 \cup in2) \ {"ret"}

\* invalid_jump of tag_check_unit.scala, with both checks on.
invalid_jump(i, tag_in) ==
  i.op = "jalr" /\ IF i.rs1 = 1 THEN "ret" \notin tag_in ELSE "inv" \in tag_in

\* The tag that instruction i gives its register, by the registers m.
Result(i, m) ==
  CASE i.op \in {"load", "slow"} -> i.mtag
    [] i.op \in {"div", "csr"} -> {}
    [] OTHER -> TagALU(i, m[i.rs1], m[i.rs2])

----------------------------------------------------------------------------
(* Decode. *)

\* The registers that an instruction reads or writes, but for 0.
HazardTargets(i) == ({i.rs1, i.rs2} \cup (IF Wxd(i) THEN {i.rd} ELSE {})) \ {0}

Hazard(i, s) == s.valid /\ Wxd(s.i) /\ s.i.rd \in HazardTargets(i)

CannotBypassEx(s) == s.i.op \in {"jalr", "div"} \/ IsCsr(s.i) \/ IsMem(s.i)

\* Mutant: the result of a division is bypassed.
CannotBypassMem_NoDiv(s) == s.i.op = "slow" \/ IsCsr(s.i)

CannotBypassMem(s) == s.i.op \in {"slow", "div"} \/ IsCsr(s.i)

Writes(s, r) == s.valid /\ Wxd(s.i) /\ s.i.rd = r

\* Where the tag of register r comes from: 0 for the register 0, 1 and 2 for the
\* results in execute and memory, 3 for the load in memory, 4 for the file.
BypassSource(r) ==
  IF r = 0 THEN 0
  ELSE IF Writes(ex, r) THEN 1
  ELSE IF Writes(mem, r) THEN IF IsMem(mem.i) THEN 3 ELSE 2
  ELSE 4

----------------------------------------------------------------------------
(* The inputs of a cycle, as far as they matter in the state:               *)
(*   fetch    the instruction in decode, or an interrupt in its place, or   *)
(*            Nop when there is none, or when a fence, the FPU or a wait    *)
(*            for an interrupt stalls it;                                   *)
(*   dc       what the data cache answers to the access in write-back;      *)
(*   csr      what the CSR file answers to the instruction in write-back;   *)
(*   ready    whether the data cache takes a request;                       *)
(*   next     the load that missed whose answer comes in the next cycle, so *)
(*            that no access is in the memory stage (the data cache has one *)
(*            pipeline);                                                    *)
(*   done     whether a division is finished, not before its third cycle;   *)
(*   wrong    misprediction, or a flush, of the instruction in memory;      *)
(*   fault    misaligned target or failed access of that instruction.       *)
(* The data cache drives them in nbdcache.scala 894-897 and 1149-1163.      *)

None == <<>>

Inputs ==
  [fetch : Program \cup {Nop, Interrupt},
   dc    : IF wb.valid /\ IsMem(wb.i) THEN {"hit", "miss", "nack"} ELSE {"hit"},
   csr   : IF ~wb.valid THEN {"done"}
           ELSE CASE wb.i.op = "csr" -> {"done", "replay", "xcpt"}
                  [] wb.i.op = "sys" -> {"done", "eret", "xcpt"}
                  [] OTHER -> {"done"},
   ready : BOOLEAN,
   next  : {None} \cup (IF mem.valid /\ IsMem(mem.i) THEN {} ELSE missed \ {coming}),
   done  : IF div.busy /\ ~div.fresh THEN BOOLEAN ELSE {FALSE},
   wrong : CASE ~mem.valid -> {FALSE}
             [] mem.valid /\ mem.i.op = "sys" -> {TRUE}
             [] mem.valid /\ (Jumps(mem.i) \/ mem.i.op = "csr") -> BOOLEAN
             [] OTHER -> {FALSE},
   fault : IF mem.valid /\ (IsMem(mem.i) \/ Jumps(mem.i)) THEN BOOLEAN ELSE {FALSE}]

\* What the data cache drives while no answer is valid: a tag that fails the check.
Junk == {"inv"}

\* Write-back.
miss(in) == in.dc = "miss"
replay_wb(in) == in.dc = "nack" \/ wb.replay \/ in.csr = "replay"
take_pc_wb(in) == replay_wb(in) \/ wb.xcpt # "no" \/ in.csr \in {"xcpt", "eret"}
wb_valid(in) == wb.valid /\ ~replay_wb(in) /\ in.csr # "xcpt"
wb_wen(in) == wb_valid(in) /\ Wxd(wb.i)
div_fires(in) == in.done /\ ~(wb.valid /\ Wxd(wb.i)) /\ coming = None

\* The register and the tag that are written: the late answer of the cache, a
\* division, or the instruction in write-back.
ll_waddr(in) == IF coming # None THEN {coming[1]} ELSE IF div_fires(in) THEN {div.rd} ELSE {}

\* Mutant: a division keeps the tag in write-back.
tag_wdata_Div(in) ==
  CASE coming # None -> coming[2]
    [] IsCsr(wb.i) -> {}
    [] wb.i.op \in {"load", "slow"} /\ in.dc = "hit" -> wb.i.mtag
    [] OTHER -> wb.tag

tag_wdata(in) ==
  CASE coming # None -> coming[2]
    [] coming = None /\ wb_wen(in) /\ wb.i.op \in {"load", "slow"} /\ in.dc = "hit" -> wb.i.mtag
    [] coming = None /\ (div_fires(in) \/ IsCsr(wb.i)) -> {}
    [] OTHER -> wb.tag

rf_written(in) ==
  (IF ll_waddr(in) # {} THEN ll_waddr(in) ELSE IF wb_wen(in) THEN {wb.i.rd} ELSE {}) \ {0}
NextTrf(in) == [r \in Regs |-> IF r \in rf_written(in) THEN tag_wdata(in) ELSE trf[r]]

Cleared(in) == sboard \ ll_waddr(in)
wb_set_sboard(in) == wb.i.op = "div" \/ (IsMem(wb.i) /\ miss(in))
NextSboard(in) ==
  Cleared(in) \cup (IF wb_set_sboard(in) /\ wb_wen(in) THEN {wb.i.rd} ELSE {})

\* Memory.
take_pc_mem(in) == in.wrong /\ ~in.fault
take_pc(in) == take_pc_wb(in) \/ take_pc_mem(in)
dcache_kill_mem(in) == mem.valid /\ Wxd(mem.i) /\ in.next # None
killm_common(in) == dcache_kill_mem(in) \/ take_pc_wb(in) \/ mem.xcpt # "no" \/ ~mem.valid
mem_xcpt(in) == IF mem.xcpt # "no" THEN mem.xcpt ELSE IF in.fault /\ (IsMem(mem.i) \/ in.wrong) THEN "fault" ELSE "no"

NextWb(in) ==
  [valid  |-> ~killm_common(in) /\ mem_xcpt(in) = "no",
   replay |-> (dcache_kill_mem(in) \/ mem.replay) /\ ~take_pc_wb(in),
   xcpt   |-> IF take_pc_wb(in) THEN "no" ELSE mem_xcpt(in),
   i |-> mem.i, tag |-> mem.tag, used |-> mem.used]

\* Execute.
ex_tags(in) ==
  [k \in {1, 2} |->
     CASE ex.src[k] = 0 -> {}
       [] ex.src[k] = 1 -> mem.tag
       [] ex.src[k] = 2 -> wb.tag
       [] ex.src[k] = 3 -> IF in.dc = "hit" THEN wb.i.mtag ELSE Junk
       [] ex.src[k] = 4 -> ex.pre[k]]

replay_ex(in) ==
  ex.valid /\ \/ IsMem(ex.i) /\ ~in.ready
              \/ ex.i.op = "div" /\ div.busy
              \/ miss(in) /\ ex.load_use

\* Mutant: the check does not wait for the operand.
NextMem_Early(in) ==
  LET killx == take_pc(in) \/ replay_ex(in) \/ ~ex.valid
      t == ex_tags(in)
  IN  [valid |-> ~killx, replay |-> ~take_pc(in) /\ replay_ex(in),
       xcpt |-> IF ~take_pc(in) /\ ex.xcpt = "interrupt" THEN "interrupt"
                ELSE IF take_pc(in) \/ ~ex.valid THEN "no"
                ELSE IF ex.xcpt # "no" THEN ex.xcpt
                ELSE IF invalid_jump(ex.i, t[1]) THEN "tag" ELSE "no",
       i |-> ex.i, tag |-> TagALU(ex.i, t[1], t[2]), used |-> <<t[1], t[2]>>]

NextMem(in) ==
  LET killx == take_pc(in) \/ replay_ex(in) \/ ~ex.valid
      t == ex_tags(in)
  IN  [valid |-> ~killx, replay |-> ~take_pc(in) /\ replay_ex(in),
       xcpt |-> IF ~take_pc(in) /\ ex.xcpt = "interrupt" THEN "interrupt"
                ELSE IF killx THEN "no"
                ELSE IF ex.xcpt # "no" THEN ex.xcpt
                ELSE IF invalid_jump(ex.i, t[1]) THEN "tag" ELSE "no",
       i |-> ex.i, tag |-> TagALU(ex.i, t[1], t[2]), used |-> <<t[1], t[2]>>]

\* Decode into execute.
ctrl_stalld(in) ==
  \/ Hazard(in.fetch, ex) /\ CannotBypassEx(ex)
  \/ Hazard(in.fetch, mem) /\ CannotBypassMem(mem)
  \/ Hazard(in.fetch, wb) /\ wb_set_sboard(in)
  \/ HazardTargets(in.fetch) \cap Cleared(in) # {}
  \/ IsMem(in.fetch) /\ ~in.ready

NextEx(in) ==
  LET i == in.fetch
      rs == <<i.rs1, i.rs2>>
  IN  IF i = Nop \/ take_pc(in) \/ ctrl_stalld(in) THEN EmptyEx("no")
      ELSE IF i = Interrupt THEN EmptyEx("interrupt")
      ELSE [valid |-> TRUE, xcpt |-> IF i.bad THEN "fault" ELSE "no", i |-> i,
            src |-> [k \in {1, 2} |-> BypassSource(rs[k])],
            pre |-> [k \in {1, 2} |-> IF BypassSource(rs[k]) = 4 THEN NextTrf(in)[rs[k]] ELSE {}],
            load_use |-> Hazard(i, mem) /\ IsMem(mem.i)]

\* A stage that holds nothing of importance is empty.
Tidy(s) ==
  IF s.valid \/ s.xcpt # "no" THEN s ELSE Bubble(s.replay)

\* Mutant: the divider goes on when its instruction is killed.
NextDiv_NoKill(in) ==
  IF ex.valid /\ ex.i.op = "div" /\ ~div.busy THEN [busy |-> TRUE, fresh |-> TRUE, rd |-> ex.i.rd]
  ELSE IF div_fires(in) THEN Idle
  ELSE [div EXCEPT !.fresh = FALSE]

\* The divider takes a request in execute and drops it when the instruction is
\* killed in the next cycle.
NextDiv(in) ==
  IF ex.valid /\ ex.i.op = "div" /\ ~div.busy THEN [busy |-> TRUE, fresh |-> TRUE, rd |-> ex.i.rd]
  ELSE IF div_fires(in) \/ (div.fresh /\ killm_common(in)) THEN Idle
  ELSE [div EXCEPT !.fresh = FALSE]

----------------------------------------------------------------------------

\* The tag register file has no initial value.
PipeInit ==
  /\ ex = EmptyEx("no") /\ mem = Bubble(FALSE) /\ wb = Bubble(FALSE)
  /\ trf \in [Regs -> Tags] /\ trf[0] = {} /\ arch = trf
  /\ sboard = {} /\ div = Idle /\ missed = {} /\ coming = None

Cycle(in) ==
  /\ ex' = NextEx(in)
  /\ mem' = Tidy(NextMem(in))
  /\ wb' = Tidy(NextWb(in))
  /\ trf' = NextTrf(in)
  /\ sboard' = NextSboard(in)
  /\ div' = NextDiv(in)
  /\ missed' = (missed \ {coming}) \cup
                 (IF wb_wen(in) /\ miss(in) THEN {<<wb.i.rd, wb.i.mtag>>} ELSE {})
  /\ coming' = in.next
  /\ arch' = IF wb_wen(in) /\ wb.i.rd # 0 THEN [arch EXCEPT ![wb.i.rd] = Result(wb.i, arch)] ELSE arch

\* What is killed in decode is as good as nothing, and a request that is not made
\* is as good as taken.
PipeNext ==
  \E in \in Inputs :
     /\ take_pc(in) => in.fetch = Nop
     /\ in.ready \/ IsMem(in.fetch) \/ IsMem(ex.i)
     /\ Cycle(in)

PipeSpec == PipeInit /\ [][PipeNext]_pipeVars

----------------------------------------------------------------------------
(* Properties. *)

\* An instruction that reaches write-back has computed with the tags that the
\* instructions before it left in its registers, through whatever bypass, stall,
\* replay or late answer they came (bypass_sources_tags, ex_tags).
OperandTagsRight == wb.valid => wb.used = <<arch[wb.i.rs1], arch[wb.i.rs2]>>

\* The tag trap is exact: an indirect jump that fails the check of TagCheckUnit by
\* the tags of the registers never retires, and one that passes never traps,
\* although the check is made in execute on operands that may still be replayed.
TagTrapExact ==
  /\ wb.valid => ~invalid_jump(wb.i, arch[wb.i.rs1])
  /\ wb.xcpt = "tag" => invalid_jump(wb.i, arch[wb.i.rs1])

\* The tag of a register in the tag register file is the one that the retired
\* instructions left, unless the scoreboard keeps the register for a late answer.
FileRight == \A r \in Regs : r \in sboard \/ trf[r] = arch[r]

\* The division in progress is of an instruction that has retired.
DivOut == div.busy /\ ~div.fresh /\ ~(wb.valid /\ wb.i.op = "div")

\* The scoreboard keeps exactly the registers for which an answer is outstanding:
\* a bit too few lets a stale tag be read, a bit too many stalls decode forever.
\* The bit of register 0, which nothing waits for, does not matter.
ScoreboardExact ==
  sboard \ {0} = ({p[1] : p \in missed} \cup (IF DivOut THEN {div.rd} ELSE {})) \ {0}
=============================================================================
