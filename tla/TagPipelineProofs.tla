-------------------------- MODULE TagPipelineProofs --------------------------
(***************************************************************************)
(* The properties of TagPipeline for every program and any number of       *)
(* registers.                                                              *)
(***************************************************************************)
EXTENDS TagPipeline, TLAPS

(* The inductive invariant.  What is in memory is condemned when the        *)
(* instruction in write-back traps or is replayed, what is in execute also  *)
(* when the one in memory is: of a condemned instruction nothing is said.   *)

PipeTypes ==
  /\ ex.valid \in BOOLEAN /\ ex.xcpt # "tag" /\ ex.i \in Program \cup {Nop}
  /\ mem.valid \in BOOLEAN /\ mem.replay \in BOOLEAN /\ mem.i \in Program \cup {Nop}
  /\ wb.valid \in BOOLEAN /\ wb.replay \in BOOLEAN /\ wb.i \in Program \cup {Nop}
  /\ trf \in [Regs -> Tags] /\ arch \in [Regs -> Tags] /\ trf[0] = {} /\ arch[0] = {}
  /\ sboard \subseteq Regs /\ div \in [busy : BOOLEAN, fresh : BOOLEAN, rd : Regs]
  /\ missed \subseteq Regs \X Tags

MemGoes == wb.xcpt = "no" /\ ~wb.replay
ExGoes == MemGoes /\ mem.xcpt = "no" /\ ~mem.replay

\* The result of a late instruction is not what the tag ALU says.
Late(i) == i.op \in {"load", "slow", "div", "csr"}

After(s, m) == IF s.valid /\ Wxd(s.i) /\ s.i.rd # 0 THEN [m EXCEPT ![s.i.rd] = Result(s.i, m)] ELSE m

StageRight(s, m) ==
  /\ s.used = <<m[s.i.rs1], m[s.i.rs2]>>
  /\ s.tag = TagALU(s.i, s.used[1], s.used[2])

WbInv ==
  /\ wb.valid => MemGoes /\ StageRight(wb, arch) /\ ~invalid_jump(wb.i, arch[wb.i.rs1])
  /\ wb.xcpt = "tag" => invalid_jump(wb.i, arch[wb.i.rs1])

MemInv ==
  /\ (mem.xcpt = "tag" => mem.valid) /\ (mem.replay => ~mem.valid)
  /\ mem.valid /\ MemGoes =>
       /\ StageRight(mem, After(wb, arch))
       /\ mem.xcpt = "tag" => invalid_jump(mem.i, mem.used[1])
       /\ mem.xcpt = "no" => ~invalid_jump(mem.i, mem.used[1])

\* The operand in register r, the k-th of the instruction in execute, can be had.
OperandInv(k, r) ==
  \/ ex.src[k] = 0 /\ r = 0
  \/ ex.src[k] = 1 /\ r # 0 /\ Writes(mem, r) /\ ~Late(mem.i)
  \/ ex.src[k] = 2 /\ r # 0 /\ ~Writes(mem, r) /\ Writes(wb, r) /\ ~Late(wb.i)
  \/ ex.src[k] = 3 /\ r # 0 /\ ~Writes(mem, r) /\ Writes(wb, r) /\ wb.i.op = "load"
  \/ ex.src[k] = 4 /\ r # 0 /\ ~Writes(mem, r) /\ ~Writes(wb, r) /\ ex.pre[k] = arch[r]

ExInv == ex.valid /\ ExGoes => OperandInv(1, ex.i.rs1) /\ OperandInv(2, ex.i.rs2)

\* No instruction touches a register for which an older one is still to answer.
ClashInv ==
  /\ wb.valid => HazardTargets(wb.i) \cap sboard = {}
  /\ mem.valid /\ MemGoes =>
       /\ HazardTargets(mem.i) \cap sboard = {}
       /\ wb.valid /\ Late(wb.i) => wb.i.rd \notin HazardTargets(mem.i)
  /\ ex.valid /\ ExGoes =>
       /\ HazardTargets(ex.i) \cap sboard = {}
       /\ mem.valid /\ Late(mem.i) => mem.i.rd \notin HazardTargets(ex.i)
       /\ wb.valid /\ Late(wb.i) /\ wb.i.rd \in HazardTargets(ex.i) =>
            wb.i.op = "load" /\ ex.load_use

DivInv ==
  /\ div.fresh => div.busy /\ (mem.valid => mem.i.op = "div")
  /\ mem.valid /\ mem.i.op = "div" => div.busy /\ div.fresh /\ div.rd = mem.i.rd
  /\ wb.valid /\ wb.i.op = "div" => div.busy /\ ~div.fresh /\ div.rd = wb.i.rd
  /\ DivOut /\ div.rd # 0 => arch[div.rd] = {} /\ \A p \in missed : p[1] # div.rd

MissedInv ==
  /\ \A p \in missed : p[1] # 0 => arch[p[1]] = p[2]
  /\ coming # None => coming \in missed /\ ~(wb.valid /\ (Wxd(wb.i) \/ IsMem(wb.i)))

\* What the stages, the scoreboard and the late answers hold between two cycles.
PipeInv ==
  /\ PipeTypes /\ WbInv /\ MemInv /\ ExInv /\ ClashInv /\ DivInv /\ MissedInv
  /\ FileRight /\ ScoreboardExact

----------------------------------------------------------------------------
(* What the definitions of a cycle say. *)

\* What the environment may do (front end, data cache, CSR file, divider).
LEMMA InputFacts ==
  ASSUME NEW in \in Inputs
  PROVE  /\ in.fetch \in Program \cup {Nop, Interrupt}
         /\ in.dc \in {"hit", "miss", "nack"}
         /\ in.dc # "hit" => wb.valid /\ IsMem(wb.i)
         /\ in.csr # "done" => wb.valid /\ IsCsr(wb.i)
         /\ in.csr = "eret" => ~Wxd(wb.i)
         /\ in.next # None => in.next \in missed /\ in.next # coming
         /\ in.next # None => ~(mem.valid /\ IsMem(mem.i))
         /\ in.done => div.busy /\ ~div.fresh
         /\ in.fault => mem.valid /\ (IsMem(mem.i) \/ Jumps(mem.i))
<1>1. in.dc \in IF wb.valid /\ IsMem(wb.i) THEN {"hit", "miss", "nack"} ELSE {"hit"}
  BY DEF Inputs
<1>2. in.csr \in IF ~wb.valid THEN {"done"}
                 ELSE CASE wb.i.op = "csr" -> {"done", "replay", "xcpt"}
                        [] wb.i.op = "sys" -> {"done", "eret", "xcpt"}
                        [] OTHER -> {"done"}
  BY DEF Inputs
<1>3. in.next \in {None} \cup (IF mem.valid /\ IsMem(mem.i) THEN {} ELSE missed \ {coming})
  BY DEF Inputs
<1>4. in.done \in IF div.busy /\ ~div.fresh THEN BOOLEAN ELSE {FALSE}
  BY Zenon DEF Inputs
<1>5. in.fault \in IF mem.valid /\ (IsMem(mem.i) \/ Jumps(mem.i)) THEN BOOLEAN ELSE {FALSE}
  BY Zenon DEF Inputs
<1>6. in.fetch \in Program \cup {Nop, Interrupt}
  BY DEF Inputs
<1>7. in.csr # "done" => wb.valid /\ IsCsr(wb.i)
  BY <1>2 DEF IsCsr
<1>8. in.csr = "eret" => ~Wxd(wb.i)
  BY <1>2 DEF Wxd
<1> QED
  BY Zenon, <1>1, <1>3, <1>4, <1>5, <1>6, <1>7, <1>8

\* The kinds of instructions.
LEMMA OpFacts ==
  ASSUME NEW i
  PROVE  /\ Late(i) => Wxd(i) 
         /\ IsMem(i) /\ Wxd(i) => i.op = "load" \/ i.op = "slow"
         /\ i.op = "load" \/ i.op = "slow" => Late(i) /\ IsMem(i) /\ ~IsCsr(i)
         /\ i.op = "div" => Late(i) /\ Wxd(i) /\ ~IsMem(i) /\ ~IsCsr(i) /\ ~Jumps(i)
         /\ Wxd(i) /\ IsCsr(i) => i.op = "csr"
         /\ Late(i) <=> i.op = "load" \/ i.op = "slow" \/ i.op = "div" \/ i.op = "csr"
  BY DEF Late, Wxd, IsMem, IsCsr, Jumps

\* Memory into write-back (NextWb).
LEMMA WbStep ==
  ASSUME NEW in, wb' = Tidy(NextWb(in))
  PROVE  /\ wb'.valid \in BOOLEAN /\ wb'.replay \in BOOLEAN
         /\ wb'.valid <=> ~killm_common(in) /\ mem_xcpt(in) = "no"
         /\ wb'.replay <=> (dcache_kill_mem(in) \/ mem.replay) /\ ~take_pc_wb(in)
         /\ wb'.xcpt = IF take_pc_wb(in) THEN "no" ELSE mem_xcpt(in)
         /\ wb'.valid \/ wb'.xcpt # "no" => wb'.i = mem.i /\ wb'.tag = mem.tag /\ wb'.used = mem.used
         /\ ~wb'.valid /\ wb'.xcpt = "no" => wb'.i = Nop
<1> DEFINE n == NextWb(in)
<1>1. /\ n.valid = (~killm_common(in) /\ mem_xcpt(in) = "no")
      /\ n.replay = ((dcache_kill_mem(in) \/ mem.replay) /\ ~take_pc_wb(in))
      /\ n.xcpt = (IF take_pc_wb(in) THEN "no" ELSE mem_xcpt(in))
      /\ n.i = mem.i /\ n.tag = mem.tag /\ n.used = mem.used
  BY DEF NextWb
<1> HIDE DEF n
<1>2. CASE n.valid \/ n.xcpt # "no"
  <2>1. wb' = n
    BY <1>2 DEF Tidy, n
  <2> QED
    BY Zenon, <1>1, <1>2, <2>1
<1>3. CASE ~(n.valid \/ n.xcpt # "no")
  <2>1. wb' = Bubble(n.replay)
    BY <1>3 DEF Tidy, n
  <2>2. ~wb'.valid /\ wb'.valid \in BOOLEAN /\ wb'.replay = n.replay /\ wb'.xcpt = "no" /\ wb'.i = Nop
    BY <2>1 DEF Bubble
  <2> QED
    BY Zenon, <1>1, <1>3, <2>2
<1> QED
  BY <1>2, <1>3

\* Execute into memory (NextMem).
LEMMA MemStep ==
  ASSUME NEW in, mem' = Tidy(NextMem(in)), ex.xcpt # "tag"
  PROVE  /\ mem'.valid \in BOOLEAN /\ mem'.replay \in BOOLEAN
         /\ mem'.valid <=> ~take_pc(in) /\ ~replay_ex(in) /\ ex.valid
         /\ mem'.replay <=> ~take_pc(in) /\ replay_ex(in)
         /\ mem'.xcpt = "tag" => mem'.valid /\ invalid_jump(ex.i, ex_tags(in)[1])
         /\ mem'.xcpt = "no" /\ mem'.valid => ~invalid_jump(ex.i, ex_tags(in)[1])
         /\ take_pc(in) => mem'.xcpt = "no"
         /\ mem'.valid => /\ mem'.i = ex.i
                          /\ mem'.tag = TagALU(ex.i, ex_tags(in)[1], ex_tags(in)[2])
                          /\ mem'.used = <<ex_tags(in)[1], ex_tags(in)[2]>>
         /\ mem'.i = ex.i \/ mem'.i = Nop
<1> DEFINE n == NextMem(in)
           killx == take_pc(in) \/ replay_ex(in) \/ ~ex.valid
           bad == invalid_jump(ex.i, ex_tags(in)[1])
           a == ex_tags(in)[1]
           b == ex_tags(in)[2]
<1>1. /\ n.valid = ~killx /\ n.replay = (~take_pc(in) /\ replay_ex(in))
      /\ n.xcpt = (IF ~take_pc(in) /\ ex.xcpt = "interrupt" THEN "interrupt"
                   ELSE IF killx THEN "no"
                   ELSE IF ex.xcpt # "no" THEN ex.xcpt
                   ELSE IF bad THEN "tag" ELSE "no")
      /\ n.i = ex.i /\ n.tag = TagALU(ex.i, a, b) /\ n.used = <<a, b>>
  BY DEF NextMem
<1> HIDE DEF n, bad, a, b
<1>2. CASE n.valid \/ n.xcpt # "no"
  <2>1. mem' = n
    BY <1>2 DEF Tidy, n
  <2> QED
    BY Zenon, <1>1, <1>2, <2>1 DEF bad, a, b
<1>3. CASE ~(n.valid \/ n.xcpt # "no")
  <2>1. mem' = Bubble(n.replay)
    BY <1>3 DEF Tidy, n
  <2>2. ~mem'.valid /\ mem'.valid \in BOOLEAN /\ mem'.replay = n.replay /\ mem'.xcpt = "no" /\ mem'.i = Nop
    BY <2>1 DEF Bubble
  <2> QED
    BY Zenon, <1>1, <1>3, <2>2 DEF bad
<1> QED
  BY <1>2, <1>3

\* Decode into execute (NextEx).
LEMMA ExStep ==
  ASSUME NEW in, ex' = NextEx(in)
  PROVE  /\ ex'.valid \in BOOLEAN /\ ex'.xcpt # "tag"
         /\ ex'.i = Nop \/ (ex'.i = in.fetch /\ in.fetch # Interrupt)
         /\ ex'.valid =>
              /\ ~take_pc(in) /\ ~ctrl_stalld(in) /\ ex'.i = in.fetch
              /\ ex'.src[1] = BypassSource(in.fetch.rs1) /\ ex'.src[2] = BypassSource(in.fetch.rs2)
              /\ BypassSource(in.fetch.rs1) = 4 => ex'.pre[1] = NextTrf(in)[in.fetch.rs1]
              /\ BypassSource(in.fetch.rs2) = 4 => ex'.pre[2] = NextTrf(in)[in.fetch.rs2]
              /\ ex'.load_use <=> Hazard(in.fetch, mem) /\ IsMem(mem.i)
<1>1. CASE in.fetch = Nop \/ take_pc(in) \/ ctrl_stalld(in)
  <2>1. ex' = EmptyEx("no")
    BY <1>1, Zenon DEF NextEx
  <2> QED
    BY <2>1 DEF EmptyEx
<1>2. CASE ~(in.fetch = Nop \/ take_pc(in) \/ ctrl_stalld(in)) /\ in.fetch = Interrupt
  <2>1. ex' = EmptyEx("interrupt")
    BY <1>2, Zenon DEF NextEx
  <2> QED
    BY <2>1 DEF EmptyEx
<1>3. CASE ~(in.fetch = Nop \/ take_pc(in) \/ ctrl_stalld(in)) /\ in.fetch # Interrupt
  <2> DEFINE rs == <<in.fetch.rs1, in.fetch.rs2>>
  <2>1. ex' = [valid |-> TRUE, xcpt |-> IF in.fetch.bad THEN "fault" ELSE "no", i |-> in.fetch,
               src |-> [k \in {1, 2} |-> BypassSource(rs[k])],
               pre |-> [k \in {1, 2} |-> IF BypassSource(rs[k]) = 4 THEN NextTrf(in)[rs[k]] ELSE {}],
               load_use |-> Hazard(in.fetch, mem) /\ IsMem(mem.i)]
    BY <1>3, Zenon DEF NextEx
  <2>2. rs[1] = in.fetch.rs1 /\ rs[2] = in.fetch.rs2
    OBVIOUS
  <2> HIDE DEF rs
  <2>3. /\ ex'.valid = TRUE /\ ex'.i = in.fetch
        /\ ex'.xcpt = (IF in.fetch.bad THEN "fault" ELSE "no")
        /\ ex'.load_use = (Hazard(in.fetch, mem) /\ IsMem(mem.i))
    BY <2>1
  <2>4. ex'.src = [k \in {1, 2} |-> BypassSource(rs[k])]
    BY <2>1
  <2>5. ex'.pre = [k \in {1, 2} |-> IF BypassSource(rs[k]) = 4 THEN NextTrf(in)[rs[k]] ELSE {}]
    BY <2>1
  <2>6. ex'.src[1] = BypassSource(in.fetch.rs1) /\ ex'.src[2] = BypassSource(in.fetch.rs2)
    BY <2>2, <2>4
  <2>7. /\ BypassSource(in.fetch.rs1) = 4 => ex'.pre[1] = NextTrf(in)[in.fetch.rs1]
        /\ BypassSource(in.fetch.rs2) = 4 => ex'.pre[2] = NextTrf(in)[in.fetch.rs2]
    BY <2>2, <2>5
  <2> QED
    BY Zenon, <1>3, <2>3, <2>6, <2>7
<1> QED
  BY <1>1, <1>2, <1>3

----------------------------------------------------------------------------
(* How the stages move. *)

\* The instruction in write-back retires, or sends everything behind it away.
LEMMA Retires ==
  ASSUME WbInv, NEW in \in Inputs
  PROVE  /\ take_pc_wb(in) => ~wb_wen(in)
         /\ ~take_pc_wb(in) => MemGoes /\ in.dc # "nack"
         /\ ~take_pc_wb(in) /\ wb.valid /\ Wxd(wb.i) => wb_wen(in)
         /\ wb_wen(in) => wb.valid /\ Wxd(wb.i) /\ in.dc # "nack"
         /\ wb.valid /\ wb.i.op = "div" => wb_wen(in)
<1>1. /\ in.dc # "hit" => wb.valid /\ IsMem(wb.i)
      /\ in.csr # "done" => wb.valid /\ IsCsr(wb.i)
      /\ in.csr = "eret" => ~Wxd(wb.i)
  BY InputFacts
<1>2. wb.valid => wb.xcpt = "no" /\ ~wb.replay
  BY DEF WbInv, MemGoes
<1>3. wb.i.op = "div" => Wxd(wb.i) /\ ~IsMem(wb.i) /\ ~IsCsr(wb.i)
  BY OpFacts
<1>4. take_pc_wb(in) => ~wb_wen(in)
  BY <1>1, <1>2 DEF take_pc_wb, replay_wb, wb_wen, wb_valid
<1>5. ~take_pc_wb(in) => MemGoes /\ in.dc # "nack"
  BY DEF take_pc_wb, replay_wb, MemGoes
<1>6. ~take_pc_wb(in) /\ wb.valid /\ Wxd(wb.i) => wb_wen(in)
  BY DEF take_pc_wb, wb_wen, wb_valid
<1>7. wb_wen(in) => wb.valid /\ Wxd(wb.i) /\ in.dc # "nack"
  BY DEF wb_wen, wb_valid, replay_wb
<1>8. wb.valid /\ wb.i.op = "div" => wb_wen(in)
  BY <1>1, <1>2, <1>3 DEF wb_wen, wb_valid, replay_wb
<1> QED
  BY <1>4, <1>5, <1>6, <1>7, <1>8

\* A stage that goes on finds the ones before it as they were one stage earlier.
LEMMA Advance ==
  ASSUME PipeTypes, WbInv, MemInv, NEW in \in Inputs,
         wb' = Tidy(NextWb(in)), mem' = Tidy(NextMem(in)), ex' = NextEx(in)
  PROVE  /\ wb'.valid => /\ ~take_pc_wb(in) /\ MemGoes /\ MemGoes' /\ mem.valid /\ mem.xcpt = "no"
                         /\ wb'.i = mem.i /\ wb'.tag = mem.tag /\ wb'.used = mem.used
                         /\ ~(Wxd(mem.i) /\ in.next # None)
         /\ wb'.xcpt = "tag" => /\ ~take_pc_wb(in) /\ MemGoes /\ mem.xcpt = "tag" /\ mem.valid
                                /\ wb'.i = mem.i
         /\ mem'.valid => ~take_pc_wb(in) /\ MemGoes /\ ex.valid /\ ~replay_ex(in)
         /\ mem'.valid /\ MemGoes' => ExGoes /\ (wb'.valid <=> mem.valid)
         /\ ex'.valid => ~take_pc_wb(in)
         /\ ex'.valid /\ ExGoes' => /\ ExGoes /\ (wb'.valid <=> mem.valid) /\ (mem'.valid <=> ex.valid)
                                    /\ MemGoes'
<1> USE DEF MemGoes
<1>1. /\ wb'.valid <=> ~killm_common(in) /\ mem_xcpt(in) = "no"
      /\ wb'.replay <=> (dcache_kill_mem(in) \/ mem.replay) /\ ~take_pc_wb(in)
      /\ wb'.xcpt = IF take_pc_wb(in) THEN "no" ELSE mem_xcpt(in)
      /\ wb'.valid \/ wb'.xcpt # "no" => wb'.i = mem.i /\ wb'.tag = mem.tag /\ wb'.used = mem.used
  BY WbStep
<1>2. /\ mem'.valid <=> ~take_pc(in) /\ ~replay_ex(in) /\ ex.valid
      /\ mem'.replay <=> ~take_pc(in) /\ replay_ex(in)
  BY MemStep DEF PipeTypes
<1>3. ex'.valid => ~take_pc(in)
  BY ExStep
<1>4. ~take_pc(in) => ~take_pc_wb(in)
  BY DEF take_pc
<1>5. ~take_pc_wb(in) => wb.xcpt = "no" /\ ~wb.replay
  BY Retires
<1>6. killm_common(in) <=> dcache_kill_mem(in) \/ take_pc_wb(in) \/ mem.xcpt # "no" \/ ~mem.valid
  BY DEF killm_common
<1>7. dcache_kill_mem(in) <=> mem.valid /\ Wxd(mem.i) /\ in.next # None
  BY DEF dcache_kill_mem
<1>8. /\ mem.xcpt # "no" => mem_xcpt(in) = mem.xcpt
      /\ mem.xcpt = "no" => mem_xcpt(in) \in {"no", "fault"}
  BY DEF mem_xcpt
<1>9. (mem.xcpt = "tag" => mem.valid) /\ (mem.replay => ~mem.valid)
  BY DEF MemInv
<1>10. wb'.valid => /\ ~take_pc_wb(in) /\ MemGoes /\ MemGoes' /\ mem.valid /\ mem.xcpt = "no"
                    /\ wb'.i = mem.i /\ wb'.tag = mem.tag /\ wb'.used = mem.used
                    /\ ~(Wxd(mem.i) /\ in.next # None)
  BY <1>1, <1>5, <1>6, <1>7, <1>9
<1>11. wb'.xcpt = "tag" => /\ ~take_pc_wb(in) /\ MemGoes /\ mem.xcpt = "tag" /\ mem.valid
                           /\ wb'.i = mem.i
  BY <1>1, <1>5, <1>8, <1>9
<1>12. mem'.valid => ~take_pc_wb(in) /\ MemGoes /\ ex.valid /\ ~replay_ex(in)
  BY <1>2, <1>4, <1>5
<1>13. ~take_pc_wb(in) /\ MemGoes' => ExGoes /\ (wb'.valid <=> mem.valid)
  BY <1>1, <1>5, <1>6, <1>7, <1>8 DEF ExGoes
<1>14. ex'.valid /\ ExGoes' => /\ ExGoes /\ (wb'.valid <=> mem.valid) /\ (mem'.valid <=> ex.valid)
                               /\ MemGoes'
  BY <1>2, <1>3, <1>4, <1>13 DEF ExGoes
<1> QED
  BY <1>3, <1>4, <1>10, <1>11, <1>12, <1>13, <1>14

\* The registers after an instruction.
LEMMA AfterFacts ==
  ASSUME NEW s, NEW m \in [Regs -> Tags]
  PROVE  /\ \A r \in Regs : After(s, m)[r] = IF Writes(s, r) /\ r # 0 THEN Result(s.i, m) ELSE m[r]
         /\ DOMAIN After(s, m) = Regs
BY DEF After, Writes

\* arch follows the instruction that retires.
LEMMA ArchStep ==
  ASSUME PipeTypes, WbInv, NEW in \in Inputs, Cycle(in)
  PROVE  /\ ~take_pc_wb(in) => arch' = After(wb, arch)
         /\ ~wb_wen(in) => arch' = arch
         /\ \A r \in Regs : arch'[r] = IF wb_wen(in) /\ wb.i.rd = r /\ r # 0 THEN Result(wb.i, arch)
                                       ELSE arch[r]
<1>1. arch' = IF wb_wen(in) /\ wb.i.rd # 0 THEN [arch EXCEPT ![wb.i.rd] = Result(wb.i, arch)] ELSE arch
  BY Zenon DEF Cycle
<1>2. ~take_pc_wb(in) => (wb_wen(in) <=> wb.valid /\ Wxd(wb.i))
  BY Retires
<1>3. ~take_pc_wb(in) => arch' = After(wb, arch)
  BY <1>1, <1>2 DEF After
<1>4. \A r \in Regs : arch'[r] = IF wb_wen(in) /\ wb.i.rd = r /\ r # 0 THEN Result(wb.i, arch) ELSE arch[r]
  BY <1>1 DEF PipeTypes
<1> QED
  BY <1>1, <1>3, <1>4

\* The registers and the tags of an instruction.
LEMMA InstrFacts ==
  ASSUME NEW i \in Program \cup {Nop}
  PROVE  i.rd \in Regs /\ i.rs1 \in Regs /\ i.rs2 \in Regs /\ i.mtag \in Tags
BY RegsAssumption, ProgramAssumption DEF Instr, Nop, NoInstr, Tags

\* The registers that an instruction names.
LEMMA TargetFacts ==
  ASSUME NEW i
  PROVE  /\ i.rs1 # 0 => i.rs1 \in HazardTargets(i)
         /\ i.rs2 # 0 => i.rs2 \in HazardTargets(i)
         /\ Wxd(i) /\ i.rd # 0 => i.rd \in HazardTargets(i)
         /\ 0 \notin HazardTargets(i)
BY DEF HazardTargets

\* The result of an instruction.
LEMMA ResultFacts ==
  ASSUME NEW i, NEW m
  PROVE  /\ i.op = "load" \/ i.op = "slow" => Result(i, m) = i.mtag
         /\ i.op = "div" \/ i.op = "csr" => Result(i, m) = {}
         /\ ~Late(i) => Result(i, m) = TagALU(i, m[i.rs1], m[i.rs2])
BY DEF Result, Late

\* Tags of tags are tags.
LEMMA ResultType ==
  ASSUME NEW i \in Program \cup {Nop}, NEW m \in [Regs -> Tags]
  PROVE  Result(i, m) \in Tags /\ TagALU(i, m[i.rs1], m[i.rs2]) \in Tags
<1>1. m[i.rs1] \in Tags /\ m[i.rs2] \in Tags /\ i.mtag \in Tags
  BY InstrFacts
<1>2. TagALU(i, m[i.rs1], m[i.rs2]) \in Tags
  BY <1>1 DEF TagALU, Tags
<1>3. {} \in Tags
  BY DEF Tags
<1> QED
  BY <1>1, <1>2, <1>3 DEF Result

\* The file, after the answers of the caches and of the divider (tag_wdata).
LEMMA WdataFacts ==
  ASSUME NEW in
  PROVE  /\ coming # None => tag_wdata(in) = coming[2]
         /\ coming = None /\ div_fires(in) => tag_wdata(in) = {}
         /\ coming = None /\ wb_wen(in) /\ wb.i.op \in {"load", "slow"} /\ in.dc = "hit" =>
              tag_wdata(in) = wb.i.mtag
         /\ coming = None /\ wb.i.op = "csr" => tag_wdata(in) = {}
         /\ coming = None /\ ~div_fires(in) /\ ~Late(wb.i) /\ Wxd(wb.i) => tag_wdata(in) = wb.tag
<1>1. wb_wen(in) /\ div_fires(in) => FALSE
  BY DEF wb_wen, wb_valid, div_fires
<1> QED
  BY <1>1 DEF tag_wdata, IsCsr, Late, Wxd

\* The tag in write-back is the one of the tag ALU.
LEMMA WbTag ==
  ASSUME WbInv, wb.valid
  PROVE  wb.tag = TagALU(wb.i, arch[wb.i.rs1], arch[wb.i.rs2])
<1>1. wb.used = <<arch[wb.i.rs1], arch[wb.i.rs2]>> /\ wb.tag = TagALU(wb.i, wb.used[1], wb.used[2])
  BY Zenon DEF WbInv, StageRight
<1>2. wb.used[1] = arch[wb.i.rs1] /\ wb.used[2] = arch[wb.i.rs2]
  BY <1>1
<1> QED
  BY Zenon, <1>1, <1>2

\* An operand reaches execute through its bypass, or the instruction is replayed.
LEMMA Operand ==
  ASSUME PipeTypes, WbInv, MemInv, ClashInv, NEW in \in Inputs, ExGoes,
         ~take_pc_wb(in), ~replay_ex(in), ex.valid,
         NEW k \in {1, 2}, NEW r \in Regs, r # 0 => r \in HazardTargets(ex.i), OperandInv(k, r)
  PROVE  ex_tags(in)[k] = After(mem, After(wb, arch))[r]
<1> DEFINE m == After(wb, arch)
<1>0. arch \in [Regs -> Tags] /\ arch[0] = {} /\ wb.i \in Program \cup {Nop} /\ mem.i \in Program \cup {Nop}
  BY DEF PipeTypes
<1>1. \A q \in Regs : m[q] = IF Writes(wb, q) /\ q # 0 THEN Result(wb.i, arch) ELSE arch[q]
  BY Zenon, <1>0, AfterFacts
<1>2. m \in [Regs -> Tags]
  BY Zenon, <1>0, ResultType DEF After
<1>3. \A q \in Regs : After(mem, m)[q] = IF Writes(mem, q) /\ q # 0 THEN Result(mem.i, m) ELSE m[q]
  BY <1>2, AfterFacts
<1> SUFFICES ex_tags(in)[k] = After(mem, m)[r]
  OBVIOUS
<1> HIDE DEF m
<1>4. /\ ex.src[k] = 0 => ex_tags(in)[k] = {}
      /\ ex.src[k] = 1 => ex_tags(in)[k] = mem.tag
      /\ ex.src[k] = 2 => ex_tags(in)[k] = wb.tag
      /\ ex.src[k] = 3 /\ in.dc = "hit" => ex_tags(in)[k] = wb.i.mtag
      /\ ex.src[k] = 4 => ex_tags(in)[k] = ex.pre[k]
  <2> DEFINE s == ex.src[k]
             d == IF in.dc = "hit" THEN wb.i.mtag ELSE Junk
  <2>1. ex_tags(in)[k] = CASE s = 0 -> {} [] s = 1 -> mem.tag [] s = 2 -> wb.tag
                           [] s = 3 -> d [] s = 4 -> ex.pre[k]
    BY Zenon DEF ex_tags
  <2> QED
    BY <2>1
<1>5. CASE ex.src[k] = 0 /\ r = 0
  BY <1>0, <1>1, <1>3, <1>4, <1>5
<1>6. CASE ex.src[k] = 1 /\ r # 0 /\ Writes(mem, r) /\ ~Late(mem.i)
  <2>1. mem.valid /\ MemGoes
    BY <1>6 DEF Writes, ExGoes
  <2>2. mem.tag = TagALU(mem.i, m[mem.i.rs1], m[mem.i.rs2])
    BY <2>1 DEF MemInv, StageRight, m
  <2> QED
    BY <1>3, <1>4, <1>6, <2>2, ResultFacts
<1>7. CASE ex.src[k] = 2 /\ r # 0 /\ ~Writes(mem, r) /\ Writes(wb, r) /\ ~Late(wb.i)
  <2>1. wb.valid
    BY <1>7 DEF Writes
  <2>2. wb.tag = TagALU(wb.i, arch[wb.i.rs1], arch[wb.i.rs2])
    BY <2>1, WbTag
  <2> QED
    BY <1>1, <1>3, <1>4, <1>7, <2>2, ResultFacts
<1>8. CASE ex.src[k] = 3 /\ r # 0 /\ ~Writes(mem, r) /\ Writes(wb, r) /\ wb.i.op = "load"
  <2>1. wb.valid /\ Late(wb.i) /\ wb.i.rd \in HazardTargets(ex.i)
    BY <1>8 DEF Writes, Late
  <2>2. ex.load_use
    BY <2>1 DEF ClashInv
  <2>3. in.dc = "hit"
    BY Zenon, <2>2, Retires, InputFacts DEF replay_ex, miss
  <2> QED
    BY <1>1, <1>3, <1>4, <1>8, <2>3, ResultFacts
<1>9. CASE ex.src[k] = 4 /\ r # 0 /\ ~Writes(mem, r) /\ ~Writes(wb, r) /\ ex.pre[k] = arch[r]
  BY <1>1, <1>3, <1>4, <1>9
<1> QED
  BY <1>5, <1>6, <1>7, <1>8, <1>9 DEF OperandInv

----------------------------------------------------------------------------
(* Every cycle keeps the invariant. *)

\* What a cycle does, by part.
LEMMA CycleParts ==
  ASSUME NEW in, Cycle(in)
  PROVE  /\ ex' = NextEx(in) /\ mem' = Tidy(NextMem(in)) /\ wb' = Tidy(NextWb(in))
         /\ trf' = NextTrf(in) /\ sboard' = NextSboard(in) /\ div' = NextDiv(in)
         /\ missed' = (missed \ {coming}) \cup
                       (IF wb_wen(in) /\ miss(in) THEN {<<wb.i.rd, wb.i.mtag>>} ELSE {})
         /\ coming' = in.next
  BY Zenon DEF Cycle

\* An instruction in memory that has the right tags has them in write-back.
LEMMA WbKept ==
  ASSUME PipeTypes, WbInv, MemInv, NEW in \in Inputs, Cycle(in)
  PROVE  WbInv'
<1> DEFINE m == After(wb, arch)
<1>1. /\ wb'.valid => /\ ~take_pc_wb(in) /\ MemGoes /\ MemGoes' /\ mem.valid /\ mem.xcpt = "no"
                      /\ wb'.i = mem.i /\ wb'.tag = mem.tag /\ wb'.used = mem.used
      /\ wb'.xcpt = "tag" => /\ ~take_pc_wb(in) /\ MemGoes /\ mem.xcpt = "tag" /\ mem.valid
                             /\ wb'.i = mem.i
  BY CycleParts, Advance
<1>2. ~take_pc_wb(in) => arch' = m
  BY ArchStep
<1>3. mem.valid /\ MemGoes =>
        /\ mem.used = <<m[mem.i.rs1], m[mem.i.rs2]>>
        /\ mem.tag = TagALU(mem.i, mem.used[1], mem.used[2])
        /\ mem.xcpt = "tag" => invalid_jump(mem.i, mem.used[1])
        /\ mem.xcpt = "no" => ~invalid_jump(mem.i, mem.used[1])
  BY DEF MemInv, StageRight
<1> HIDE DEF m
<1>4. mem.valid /\ MemGoes => mem.used[1] = m[mem.i.rs1]
  BY <1>3
<1>5. wb'.valid => MemGoes' /\ StageRight(wb, arch)' /\ ~invalid_jump(wb'.i, arch'[wb'.i.rs1])
  BY <1>1, <1>2, <1>3, <1>4 DEF StageRight
<1>6. wb'.xcpt = "tag" => invalid_jump(wb'.i, arch'[wb'.i.rs1])
  BY <1>1, <1>2, <1>3, <1>4
<1> QED
  BY Zenon, <1>5, <1>6 DEF WbInv

\* An instruction in execute gets the right tags.
LEMMA MemKept ==
  ASSUME PipeTypes, WbInv, MemInv, ExInv, ClashInv, NEW in \in Inputs, Cycle(in)
  PROVE  MemInv'
<1> DEFINE m == After(mem, After(wb, arch))
           a == ex_tags(in)[1]
           b == ex_tags(in)[2]
<1>1. /\ mem'.valid => ~take_pc_wb(in) /\ MemGoes /\ ex.valid /\ ~replay_ex(in)
      /\ mem'.valid /\ MemGoes' => ExGoes /\ (wb'.valid <=> mem.valid)
      /\ wb'.valid => wb'.i = mem.i
  BY Zenon, CycleParts, Advance
<1>2. /\ mem'.replay => ~mem'.valid
      /\ mem'.xcpt = "tag" => mem'.valid /\ invalid_jump(ex.i, a)
      /\ mem'.xcpt = "no" /\ mem'.valid => ~invalid_jump(ex.i, a)
      /\ mem'.valid => mem'.i = ex.i /\ mem'.tag = TagALU(ex.i, a, b) /\ mem'.used = <<a, b>>
  BY Zenon, CycleParts, MemStep DEF PipeTypes
<1> SUFFICES ASSUME mem'.valid, MemGoes'
             PROVE  /\ StageRight(mem, After(wb, arch))'
                    /\ mem'.xcpt = "tag" => invalid_jump(mem'.i, mem'.used[1])
                    /\ mem'.xcpt = "no" => ~invalid_jump(mem'.i, mem'.used[1])
  BY <1>2 DEF MemInv
<1>3. After(wb, arch)' = m
  <2>1. arch' = After(wb, arch)
    BY <1>1, ArchStep
  <2> QED
    BY Zenon, <1>1, <2>1 DEF After
<1>4. a = m[ex.i.rs1]
  <2>1. ex.i.rs1 \in Regs /\ (ex.i.rs1 # 0 => ex.i.rs1 \in HazardTargets(ex.i))
    BY InstrFacts, TargetFacts DEF PipeTypes
  <2>2. OperandInv(1, ex.i.rs1)
    BY <1>1 DEF ExInv
  <2> QED
    BY <1>1, <2>1, <2>2, Operand
<1>5. b = m[ex.i.rs2]
  <2>1. ex.i.rs2 \in Regs /\ (ex.i.rs2 # 0 => ex.i.rs2 \in HazardTargets(ex.i))
    BY InstrFacts, TargetFacts DEF PipeTypes
  <2>2. OperandInv(2, ex.i.rs2)
    BY <1>1 DEF ExInv
  <2> QED
    BY <1>1, <2>1, <2>2, Operand
<1> HIDE DEF m, a, b
<1>6. mem'.used[1] = a /\ mem'.used[2] = b
  BY <1>2
<1>7. StageRight(mem, After(wb, arch))'
  BY <1>2, <1>3, <1>4, <1>5, <1>6 DEF StageRight
<1> QED
  BY Zenon, <1>2, <1>6, <1>7

\* The scoreboard gains the register of a late instruction that retires.
LEMMA SboardStep ==
  ASSUME NEW in, Cycle(in)
  PROVE  /\ \A r : r \in sboard' <=> \/ r \in sboard /\ r \notin ll_waddr(in)
                                     \/ wb_wen(in) /\ wb_set_sboard(in) /\ r = wb.i.rd
         /\ wb_wen(in) /\ wb_set_sboard(in) => Late(wb.i) /\ (wb.i.op = "div" \/ miss(in))
<1>1. sboard' = (sboard \ ll_waddr(in)) \cup
                (IF wb_set_sboard(in) /\ wb_wen(in) THEN {wb.i.rd} ELSE {})
  BY CycleParts DEF NextSboard, Cleared
<1>2. wb_wen(in) /\ wb_set_sboard(in) => Late(wb.i) /\ (wb.i.op = "div" \/ miss(in))
  BY DEF wb_set_sboard, wb_wen, Late, Wxd, IsMem
<1>3. CASE wb_set_sboard(in) /\ wb_wen(in)
  BY <1>1, <1>2, <1>3
<1>4. CASE ~(wb_set_sboard(in) /\ wb_wen(in))
  BY <1>1, <1>4
<1> QED
  BY <1>3, <1>4

\* An instruction that enters execute finds its registers off the scoreboard.
LEMMA DecodeClear ==
  ASSUME NEW in, Cycle(in), ex'.valid, WbInv, in \in Inputs
  PROVE  HazardTargets(in.fetch) \cap sboard' = {}
<1>1. ~ctrl_stalld(in)
  BY CycleParts, ExStep
<1>2. HazardTargets(in.fetch) \cap (sboard \ ll_waddr(in)) = {}
  BY <1>1 DEF ctrl_stalld, Cleared
<1>3. wb_wen(in) /\ wb_set_sboard(in) => wb.i.rd \notin HazardTargets(in.fetch)
  BY Zenon, <1>1 DEF ctrl_stalld, Hazard, wb_wen, wb_valid
<1> QED
  BY Zenon, <1>2, <1>3, SboardStep

\* Nothing in the pipeline touches a register that waits for an answer.
LEMMA ClashKept ==
  ASSUME PipeTypes, WbInv, MemInv, ClashInv, NEW in \in Inputs, Cycle(in)
  PROVE  ClashInv'
<1>1. /\ wb'.valid => MemGoes /\ mem.valid /\ wb'.i = mem.i
      /\ mem'.valid => ~take_pc_wb(in) /\ MemGoes /\ ex.valid /\ ~replay_ex(in)
      /\ mem'.valid /\ MemGoes' => ExGoes /\ (wb'.valid <=> mem.valid)
      /\ ex'.valid /\ ExGoes' => ExGoes /\ (wb'.valid <=> mem.valid) /\ (mem'.valid <=> ex.valid)
  BY Zenon, CycleParts, Advance
<1>2. mem'.valid => mem'.i = ex.i
  BY Zenon, CycleParts, MemStep DEF PipeTypes
<1>3. /\ \A r : r \in sboard' => \/ r \in sboard
                                 \/ wb_wen(in) /\ wb_set_sboard(in) /\ r = wb.i.rd
      /\ wb_wen(in) /\ wb_set_sboard(in) => Late(wb.i) /\ wb.valid /\ (wb.i.op = "div" \/ miss(in))
  BY SboardStep DEF wb_wen, wb_valid
<1>4. ASSUME wb'.valid PROVE HazardTargets(wb'.i) \cap sboard' = {}
  <2>1. /\ HazardTargets(mem.i) \cap sboard = {}
        /\ wb.valid /\ Late(wb.i) => wb.i.rd \notin HazardTargets(mem.i)
    BY <1>1, <1>4 DEF ClashInv
  <2> QED
    BY Zenon, <1>1, <1>3, <1>4, <2>1
<1>5. ASSUME mem'.valid, MemGoes'
      PROVE  /\ HazardTargets(mem'.i) \cap sboard' = {}
             /\ wb'.valid /\ Late(wb'.i) => wb'.i.rd \notin HazardTargets(mem'.i)
  <2>1. /\ HazardTargets(ex.i) \cap sboard = {}
        /\ mem.valid /\ Late(mem.i) => mem.i.rd \notin HazardTargets(ex.i)
        /\ wb.valid /\ Late(wb.i) /\ wb.i.rd \in HazardTargets(ex.i) => wb.i.op = "load" /\ ex.load_use
    BY <1>1, <1>5 DEF ClashInv
  <2>2. ~(miss(in) /\ ex.load_use)
    BY <1>1, <1>5 DEF replay_ex
  <2>3. wb_wen(in) /\ wb_set_sboard(in) => wb.i.rd \notin HazardTargets(ex.i)
    BY <1>3, <2>1, <2>2
  <2>4. HazardTargets(ex.i) \cap sboard' = {}
    BY Zenon, <1>3, <2>1, <2>3
  <2> QED
    BY Zenon, <1>1, <1>2, <1>5, <2>1, <2>4
<1>6. ASSUME ex'.valid, ExGoes'
      PROVE  /\ HazardTargets(ex'.i) \cap sboard' = {}
             /\ mem'.valid /\ Late(mem'.i) => mem'.i.rd \notin HazardTargets(ex'.i)
             /\ wb'.valid /\ Late(wb'.i) /\ wb'.i.rd \in HazardTargets(ex'.i) =>
                  wb'.i.op = "load" /\ ex'.load_use
  <2>1. /\ ~ctrl_stalld(in) /\ ex'.i = in.fetch
        /\ ex'.load_use <=> Hazard(in.fetch, mem) /\ IsMem(mem.i)
    BY <1>6, CycleParts, ExStep
  <2>2. HazardTargets(in.fetch) \cap sboard' = {}
    BY <1>6, DecodeClear
  <2>3. ex.valid /\ Late(ex.i) => ex.i.rd \notin HazardTargets(in.fetch)
    BY <2>1 DEF ctrl_stalld, Hazard, CannotBypassEx, Late, Wxd, IsMem, IsCsr
  <2>4. mem.valid /\ Late(mem.i) /\ mem.i.rd \in HazardTargets(in.fetch) =>
          mem.i.op = "load" /\ Hazard(in.fetch, mem) /\ IsMem(mem.i)
    BY Zenon, <2>1 DEF ctrl_stalld, Hazard, CannotBypassMem, Late, Wxd, IsMem, IsCsr
  <2> QED
    BY Zenon, <1>1, <1>2, <1>6, <2>1, <2>2, <2>3, <2>4
<1> QED
  BY Zenon, <1>4, <1>5, <1>6 DEF ClashInv

\* The bypass that decode chooses leads to the operand.
LEMMA BypassRight ==
  ASSUME NEW in, ~ctrl_stalld(in), NEW r \in HazardTargets(in.fetch)
  PROVE  /\ Writes(ex, r) => BypassSource(r) = 1 /\ ~Late(ex.i)
         /\ ~Writes(ex, r) /\ Writes(mem, r) =>
              \/ BypassSource(r) = 2 /\ ~Late(mem.i)
              \/ BypassSource(r) = 3 /\ mem.i.op = "load"
         /\ ~Writes(ex, r) /\ ~Writes(mem, r) => BypassSource(r) = 4
<1>1. r # 0
  BY TargetFacts
<1>2. Writes(ex, r) => BypassSource(r) = 1 /\ ~Late(ex.i)
  BY <1>1 DEF ctrl_stalld, Hazard, CannotBypassEx, Late, Wxd, IsMem, IsCsr, Writes, BypassSource
<1>3. ~Writes(ex, r) /\ Writes(mem, r) => BypassSource(r) = IF IsMem(mem.i) THEN 3 ELSE 2
  BY <1>1 DEF BypassSource
<1>4. Writes(mem, r) => ~CannotBypassMem(mem) /\ Wxd(mem.i)
  BY DEF ctrl_stalld, Hazard, Writes
<1>5. Writes(mem, r) => IF IsMem(mem.i) THEN mem.i.op = "load" ELSE ~Late(mem.i)
  BY <1>4 DEF CannotBypassMem, Late, Wxd, IsMem, IsCsr
<1>6. ~Writes(ex, r) /\ ~Writes(mem, r) => BypassSource(r) = 4
  BY <1>1 DEF BypassSource
<1> QED
  BY <1>2, <1>3, <1>5, <1>6

\* An operand of an instruction that enters execute can be had.
LEMMA OperandKept ==
  ASSUME PipeTypes, WbInv, MemInv, FileRight', NEW in \in Inputs, Cycle(in), ex'.valid, ExGoes',
         NEW k \in {1, 2}, NEW r \in Regs, r # 0 => r \in HazardTargets(in.fetch),
         ex'.src[k] = BypassSource(r), BypassSource(r) = 4 => ex'.pre[k] = NextTrf(in)[r]
  PROVE  OperandInv(k, r)'
<1>1. /\ wb'.valid => wb'.i = mem.i
      /\ (wb'.valid <=> mem.valid) /\ (mem'.valid <=> ex.valid)
  BY Zenon, CycleParts, Advance
<1>2. mem'.valid => mem'.i = ex.i
  BY Zenon, CycleParts, MemStep DEF PipeTypes
<1>3. (Writes(mem, r)' <=> Writes(ex, r)) /\ (Writes(wb, r)' <=> Writes(mem, r))
  BY Zenon, <1>1, <1>2 DEF Writes
<1>4. CASE r = 0
  BY Zenon, <1>4 DEF OperandInv, BypassSource
<1>5. CASE r # 0
  <2>1. ~ctrl_stalld(in)
    BY Zenon, CycleParts, ExStep
  <2>2. CASE Writes(ex, r)
    BY Zenon, <1>2, <1>3, <1>5, <2>1, <2>2, BypassRight DEF OperandInv, Writes
  <2>3. CASE ~Writes(ex, r) /\ Writes(mem, r)
    <3>1. wb'.i = mem.i
      BY Zenon, <1>1, <1>3, <2>3 DEF Writes
    <3> QED
      BY Zenon, <1>3, <1>5, <2>1, <2>3, <3>1, BypassRight DEF OperandInv
  <2>4. CASE ~Writes(ex, r) /\ ~Writes(mem, r)
    <3>1. BypassSource(r) = 4
      BY <1>5, <2>1, <2>4, BypassRight
    <3>2. r \notin sboard'
      BY <1>5, DecodeClear
    <3>3. trf'[r] = arch'[r]
      BY Zenon, <3>2 DEF FileRight
    <3>4. ex'.pre[k] = arch'[r]
      BY Zenon, <3>1, <3>3, CycleParts
    <3> QED
      BY Zenon, <1>3, <1>5, <2>4, <3>1, <3>4 DEF OperandInv
  <2> QED
    BY Zenon, <2>2, <2>3, <2>4
<1> QED
  BY Zenon, <1>4, <1>5

\* Every instruction in execute can have its operands.
LEMMA ExKept ==
  ASSUME PipeTypes, WbInv, MemInv, FileRight', NEW in \in Inputs, Cycle(in)
  PROVE  ExInv'
<1> SUFFICES ASSUME ex'.valid, ExGoes' PROVE (OperandInv(1, ex.i.rs1) /\ OperandInv(2, ex.i.rs2))'
  BY Zenon DEF ExInv
<1>1. /\ ex'.i = in.fetch
      /\ ex'.src[1] = BypassSource(in.fetch.rs1) /\ ex'.src[2] = BypassSource(in.fetch.rs2)
      /\ BypassSource(in.fetch.rs1) = 4 => ex'.pre[1] = NextTrf(in)[in.fetch.rs1]
      /\ BypassSource(in.fetch.rs2) = 4 => ex'.pre[2] = NextTrf(in)[in.fetch.rs2]
      /\ in.fetch \in Program \cup {Nop}
  BY Zenon, CycleParts, ExStep, InputFacts
<1>2. /\ in.fetch.rs1 \in Regs /\ (in.fetch.rs1 # 0 => in.fetch.rs1 \in HazardTargets(in.fetch))
      /\ in.fetch.rs2 \in Regs /\ (in.fetch.rs2 # 0 => in.fetch.rs2 \in HazardTargets(in.fetch))
  BY Zenon, <1>1, InstrFacts, TargetFacts
<1>3. OperandInv(1, in.fetch.rs1)'
  BY Zenon, <1>1, <1>2, OperandKept
<1>4. OperandInv(2, in.fetch.rs2)'
  BY Zenon, <1>1, <1>2, OperandKept
<1> QED
  BY Zenon, <1>1, <1>3, <1>4 DEF OperandInv

\* The division goes on until it is answered.
LEMMA DivStep ==
  ASSUME PipeTypes, WbInv, MemInv, DivInv, NEW in \in Inputs, Cycle(in)
  PROVE  /\ DivOut' <=> ~div_fires(in) /\ (DivOut \/ (wb_wen(in) /\ wb.i.op = "div"))
         /\ DivOut' => div'.rd = div.rd
         /\ wb_wen(in) /\ wb.i.op = "div" => div.rd = wb.i.rd /\ ~div_fires(in) /\ ~DivOut
         /\ div_fires(in) => DivOut
<1> DEFINE start == ex.valid /\ ex.i.op = "div" /\ ~div.busy
<1>1. /\ start => div' = [busy |-> TRUE, fresh |-> TRUE, rd |-> ex.i.rd]
      /\ ~start /\ (div_fires(in) \/ (div.fresh /\ killm_common(in))) => div' = Idle
      /\ ~start /\ ~(div_fires(in) \/ (div.fresh /\ killm_common(in))) => div' = [div EXCEPT !.fresh = FALSE]
  BY CycleParts, Zenon DEF NextDiv
<1>2. div \in [busy : BOOLEAN, fresh : BOOLEAN, rd : Regs]
  BY DEF PipeTypes
<1>3. /\ start => div'.busy /\ div'.fresh
      /\ ~start /\ (div_fires(in) \/ (div.fresh /\ killm_common(in))) => ~div'.busy
      /\ ~start /\ ~(div_fires(in) \/ (div.fresh /\ killm_common(in))) =>
           (div'.busy <=> div.busy) /\ ~div'.fresh /\ div'.rd = div.rd
  BY <1>1, <1>2 DEF Idle
<1>4. start => ~div.busy
  OBVIOUS
<1> HIDE DEF start
<1>5. /\ div.fresh => div.busy /\ (mem.valid => mem.i.op = "div")
      /\ mem.valid /\ mem.i.op = "div" => div.busy /\ div.fresh /\ div.rd = mem.i.rd
      /\ wb.valid /\ wb.i.op = "div" => div.busy /\ ~div.fresh /\ div.rd = wb.i.rd
  BY DEF DivInv
<1>6. in.done => div.busy /\ ~div.fresh
  BY InputFacts
<1>7. div_fires(in) => in.done /\ ~(wb.valid /\ wb.i.op = "div")
  BY DEF div_fires, Wxd
<1>8. (wb_wen(in) /\ wb.i.op = "div") <=> (wb.valid /\ wb.i.op = "div")
  BY Zenon, Retires
<1>9. wb'.valid /\ wb'.i.op = "div" => mem.valid /\ mem.i.op = "div" /\ div.fresh
  BY Zenon, <1>5, CycleParts, Advance
<1>10. div.fresh /\ ~killm_common(in) => wb'.valid /\ wb'.i.op = "div"
  <2> SUFFICES ASSUME div.fresh, ~killm_common(in) PROVE wb'.valid /\ wb'.i.op = "div"
    OBVIOUS
  <2>1. mem.valid /\ mem.xcpt = "no" /\ mem.i.op = "div"
    BY Zenon, <1>5 DEF killm_common
  <2>2. mem_xcpt(in) = "no"
    BY Zenon, <2>1, InputFacts DEF mem_xcpt, IsMem, Jumps
  <2> QED
    BY Zenon, <2>1, <2>2, CycleParts, WbStep
<1>11. DivOut' <=> ~div_fires(in) /\ (DivOut \/ (wb.valid /\ wb.i.op = "div"))
  BY <1>3, <1>4, <1>5, <1>6, <1>7, <1>9, <1>10 DEF DivOut
<1>12. DivOut' => div'.rd = div.rd
  BY <1>3 DEF DivOut
<1> QED
  BY <1>5, <1>6, <1>7, <1>8, <1>11, <1>12 DEF DivOut

\* A register that waits for an answer is not written by the instruction that
\* retires.
LEMMA WaitingKept ==
  ASSUME PipeTypes, WbInv, ClashInv, ScoreboardExact, NEW in \in Inputs, Cycle(in)
  PROVE  /\ \A p \in missed : p[1] # 0 => /\ p[1] \in sboard /\ arch'[p[1]] = arch[p[1]]
                                          /\ ~(wb_wen(in) /\ wb.i.rd = p[1])
         /\ DivOut /\ div.rd # 0 => /\ div.rd \in sboard /\ arch'[div.rd] = arch[div.rd]
                                    /\ ~(wb_wen(in) /\ wb.i.rd = div.rd)
<1>1. \A r \in sboard : r # 0 => ~(wb_wen(in) /\ wb.i.rd = r)
  BY Zenon, TargetFacts DEF ClashInv, wb_wen, wb_valid
<1>2. \A r \in sboard : r # 0 => arch'[r] = arch[r]
  BY <1>1, ArchStep DEF PipeTypes
<1>3. \A p \in missed : p[1] # 0 => p[1] \in sboard
  BY DEF ScoreboardExact
<1>4. DivOut /\ div.rd # 0 => div.rd \in sboard
  BY Zenon DEF ScoreboardExact
<1> QED
  BY <1>1, <1>2, <1>3, <1>4

\* The divider works for the division in the pipeline or for one that retired.
LEMMA DivKept ==
  ASSUME PipeTypes, WbInv, MemInv, ClashInv, DivInv, ScoreboardExact, NEW in \in Inputs, Cycle(in)
  PROVE  DivInv'
<1> DEFINE start == ex.valid /\ ex.i.op = "div" /\ ~div.busy
<1>1. /\ start => div' = [busy |-> TRUE, fresh |-> TRUE, rd |-> ex.i.rd]
      /\ ~start /\ (div_fires(in) \/ (div.fresh /\ killm_common(in))) => div' = Idle
      /\ ~start /\ ~(div_fires(in) \/ (div.fresh /\ killm_common(in))) => div' = [div EXCEPT !.fresh = FALSE]
  BY CycleParts, Zenon DEF NextDiv
<1>2. div \in [busy : BOOLEAN, fresh : BOOLEAN, rd : Regs]
  BY DEF PipeTypes
<1>3. /\ start => div'.busy /\ div'.fresh /\ div'.rd = ex.i.rd
      /\ ~start => ~div'.fresh
      /\ ~start /\ ~(div_fires(in) \/ (div.fresh /\ killm_common(in))) =>
           (div'.busy <=> div.busy) /\ ~div'.fresh /\ div'.rd = div.rd
  BY <1>1, <1>2 DEF Idle
<1>4. /\ mem'.valid => mem'.i = ex.i /\ ex.valid /\ ~replay_ex(in)
      /\ wb'.valid => mem.valid /\ wb'.i = mem.i /\ ~killm_common(in)
  <2>1. mem'.valid => mem'.i = ex.i /\ ex.valid /\ ~replay_ex(in)
    BY Zenon, CycleParts, MemStep DEF PipeTypes
  <2>2. wb'.valid => wb'.i = mem.i /\ ~killm_common(in)
    BY Zenon, CycleParts, WbStep
  <2> QED
    BY Zenon, <2>1, <2>2 DEF killm_common
<1>5. ~replay_ex(in) /\ ex.valid /\ ex.i.op = "div" => ~div.busy
  BY DEF replay_ex
<1>6. mem.valid /\ mem.i.op = "div" => div.busy /\ div.fresh /\ div.rd = mem.i.rd
  BY Zenon DEF DivInv
<1>7. div_fires(in) => ~div.fresh
  BY InputFacts DEF div_fires
<1>8. div'.fresh => div'.busy /\ (mem'.valid => mem'.i.op = "div")
  BY <1>3, <1>4
<1>9. mem'.valid /\ mem'.i.op = "div" => div'.busy /\ div'.fresh /\ div'.rd = mem'.i.rd
  BY Zenon, <1>3, <1>4, <1>5
<1>10. wb'.valid /\ wb'.i.op = "div" => div'.busy /\ ~div'.fresh /\ div'.rd = wb'.i.rd
  BY <1>3, <1>4, <1>6, <1>7
<1> HIDE DEF start
<1>11. ASSUME DivOut', div'.rd # 0
       PROVE  arch'[div'.rd] = {} /\ \A p \in missed' : p[1] # div'.rd
  <2>1. div'.rd = div.rd /\ (DivOut \/ (wb_wen(in) /\ wb.i.op = "div" /\ div.rd = wb.i.rd))
    BY <1>11, DivStep
  <2>2. missed' = (missed \ {coming}) \cup
                  (IF wb_wen(in) /\ miss(in) THEN {<<wb.i.rd, wb.i.mtag>>} ELSE {})
    BY CycleParts
  <2>3. CASE DivOut
    <3>1. arch[div.rd] = {} /\ \A p \in missed : p[1] # div.rd
      BY Zenon, <1>11, <2>1, <2>3 DEF DivInv
    <3>2. arch'[div.rd] = arch[div.rd] /\ ~(wb_wen(in) /\ wb.i.rd = div.rd)
      BY <1>11, <2>1, <2>3, WaitingKept
    <3> QED
      BY <2>1, <2>2, <3>1, <3>2
  <2>4. CASE wb_wen(in) /\ wb.i.op = "div" /\ div.rd = wb.i.rd
    <3>1. arch'[wb.i.rd] = {}
      <4>1. wb.i.rd \in Regs /\ Result(wb.i, arch) = {}
        BY Zenon, <2>4, InstrFacts, ResultFacts DEF PipeTypes
      <4> QED
        BY Zenon, <1>11, <2>1, <2>4, <4>1, ArchStep
    <3>2. ~miss(in)
      BY <2>4, InputFacts DEF miss, IsMem
    <3>3. \A p \in missed : p[1] # wb.i.rd
      BY <1>11, <2>1, <2>4, WaitingKept
    <3> QED
      BY Zenon, <2>1, <2>2, <2>4, <3>1, <3>2, <3>3
  <2> QED
    BY <2>1, <2>3, <2>4
<1> QED
  BY <1>8, <1>9, <1>10, <1>11 DEF DivInv

\* The late answers of the cache are the tags that the registers should have.
LEMMA MissedKept ==
  ASSUME PipeTypes, WbInv, MemInv, ClashInv, MissedInv, ScoreboardExact, NEW in \in Inputs, Cycle(in)
  PROVE  MissedInv'
<1>1. /\ missed' = (missed \ {coming}) \cup
                    (IF wb_wen(in) /\ miss(in) THEN {<<wb.i.rd, wb.i.mtag>>} ELSE {})
      /\ coming' = in.next
  BY Zenon, CycleParts
<1>2. ASSUME NEW p \in missed', p[1] # 0 PROVE arch'[p[1]] = p[2]
  <2>1. CASE p \in missed
    BY Zenon, <1>2, <2>1, WaitingKept DEF MissedInv
  <2>2. CASE wb_wen(in) /\ miss(in) /\ p = <<wb.i.rd, wb.i.mtag>>
    <3>1. p[1] = wb.i.rd /\ p[2] = wb.i.mtag
      BY Zenon, <2>2
    <3>2. wb.i.op = "load" \/ wb.i.op = "slow"
      BY <2>2, InputFacts, Retires DEF miss, IsMem, Wxd
    <3>3. wb.i.rd \in Regs
      BY InstrFacts DEF PipeTypes
    <3> QED
      BY Zenon, <1>2, <2>2, <3>1, <3>2, <3>3, ArchStep, ResultFacts
  <2> QED
    BY Zenon, <1>1, <2>1, <2>2
<1>3. ASSUME in.next # None
      PROVE  in.next \in missed' /\ ~(wb'.valid /\ (Wxd(wb'.i) \/ IsMem(wb'.i)))
  <2>1. in.next \in missed /\ in.next # coming /\ ~(mem.valid /\ IsMem(mem.i))
    BY Zenon, <1>3, InputFacts
  <2>2. wb'.valid => mem.valid /\ wb'.i = mem.i /\ ~Wxd(mem.i)
    BY Zenon, <1>3, CycleParts, Advance
  <2> QED
    BY Zenon, <1>1, <2>1, <2>2
<1> QED
  BY <1>1, <1>2, <1>3 DEF MissedInv, None

\* Which register is written and cleared (rf_written, ll_waddr), by case.
LEMMA WriteFacts ==
  ASSUME PipeTypes, WbInv, MissedInv, NEW in \in Inputs
  PROVE  /\ coming # None => /\ ~wb_wen(in) /\ ~div_fires(in) /\ ll_waddr(in) = {coming[1]}
                             /\ rf_written(in) = {coming[1]} \ {0}
         /\ div_fires(in) => /\ ~wb_wen(in) /\ coming = None /\ ll_waddr(in) = {div.rd}
                             /\ rf_written(in) = {div.rd} \ {0}
         /\ coming = None /\ ~div_fires(in) =>
              /\ ll_waddr(in) = {}
              /\ wb_wen(in) => rf_written(in) = {wb.i.rd} \ {0}
              /\ ~wb_wen(in) => rf_written(in) = {}
<1>1. coming # None => ~(wb.valid /\ Wxd(wb.i))
  BY DEF MissedInv
<1>2. wb_wen(in) => wb.valid /\ Wxd(wb.i)
  BY Retires
<1>3. div_fires(in) => coming = None /\ ~(wb.valid /\ Wxd(wb.i))
  BY Zenon DEF div_fires
<1>4. CASE coming # None
  <2>1. ll_waddr(in) = {coming[1]}
    BY <1>4 DEF ll_waddr
  <2>2. rf_written(in) = {coming[1]} \ {0}
    BY Zenon, <2>1 DEF rf_written
  <2> QED
    BY Zenon, <1>1, <1>2, <1>3, <1>4, <2>1, <2>2
<1>5. CASE div_fires(in)
  <2>1. ll_waddr(in) = {div.rd}
    BY <1>3, <1>5 DEF ll_waddr
  <2>2. rf_written(in) = {div.rd} \ {0}
    BY Zenon, <2>1 DEF rf_written
  <2> QED
    BY <1>2, <1>3, <1>5, <2>1, <2>2
<1>6. CASE coming = None /\ ~div_fires(in)
  <2>1. ll_waddr(in) = {}
    BY <1>6 DEF ll_waddr
  <2>2. rf_written(in) = (IF wb_wen(in) THEN {wb.i.rd} ELSE {}) \ {0}
    BY <2>1 DEF rf_written
  <2> QED
    BY <1>6, <2>1, <2>2
<1> QED
  BY Zenon, <1>4, <1>5, <1>6

\* The file holds what the retired instructions left.
LEMMA FileKept ==
  ASSUME PipeInv, NEW in \in Inputs, Cycle(in)
  PROVE  FileRight'
<1> SUFFICES ASSUME NEW r \in Regs, r \notin sboard' PROVE trf'[r] = arch'[r]
  BY DEF FileRight
<1>0. PipeTypes /\ WbInv /\ MissedInv /\ DivInv /\ MemInv /\ FileRight
  BY DEF PipeInv
<1>1. trf'[r] = IF r \in rf_written(in) THEN tag_wdata(in) ELSE trf[r]
  BY Zenon, CycleParts DEF NextTrf
<1>2. arch'[r] = IF wb_wen(in) /\ wb.i.rd = r /\ r # 0 THEN Result(wb.i, arch) ELSE arch[r]
  BY Zenon, <1>0, ArchStep
<1>3. \/ r \notin sboard \/ r \in ll_waddr(in)
  BY SboardStep
<1>4. ~(wb_wen(in) /\ wb_set_sboard(in) /\ r = wb.i.rd)
  BY SboardStep
<1>5. trf[r] = arch[r] \/ r \in sboard
  BY <1>0 DEF FileRight
<1>6. r = 0 => trf[r] = arch[r] /\ arch[r] = {}
  BY Zenon, <1>0 DEF PipeTypes
<1>7. CASE coming # None
  <2>1. /\ ~wb_wen(in) /\ ll_waddr(in) = {coming[1]} /\ rf_written(in) = {coming[1]} \ {0}
        /\ tag_wdata(in) = coming[2]
    BY <1>0, <1>7, WriteFacts, WdataFacts
  <2>2. coming[1] # 0 => arch[coming[1]] = coming[2]
    BY Zenon, <1>0, <1>7 DEF MissedInv
  <2> QED
    BY <1>1, <1>2, <1>3, <1>5, <1>6, <2>1, <2>2
<1>8. CASE div_fires(in)
  <2>1. /\ ~wb_wen(in) /\ ll_waddr(in) = {div.rd} /\ rf_written(in) = {div.rd} \ {0}
        /\ tag_wdata(in) = {}
    BY Zenon, <1>0, <1>8, WriteFacts, WdataFacts
  <2>2. DivOut
    BY Zenon, <1>0, <1>8, DivStep
  <2>3. div.rd # 0 => arch[div.rd] = {}
    BY Zenon, <1>0, <2>2 DEF DivInv
  <2> QED
    BY Zenon, <1>1, <1>2, <1>3, <1>5, <1>6, <2>1, <2>3
<1>9. CASE coming = None /\ ~div_fires(in)
  <2>1. /\ ll_waddr(in) = {}
        /\ wb_wen(in) => rf_written(in) = {wb.i.rd} \ {0}
        /\ ~wb_wen(in) => rf_written(in) = {}
    BY Zenon, <1>0, <1>9, WriteFacts
  <2>2. trf[r] = arch[r]
    BY Zenon, <1>3, <1>5, <2>1
  <2>3. CASE ~(wb_wen(in) /\ wb.i.rd = r /\ r # 0)
    BY Zenon, <1>1, <1>2, <2>1, <2>2, <2>3
  <2>4. CASE wb_wen(in) /\ wb.i.rd = r /\ r # 0
    <3>1. trf'[r] = tag_wdata(in) /\ arch'[r] = Result(wb.i, arch)
      BY Zenon, <1>1, <1>2, <2>1, <2>4
    <3>2. wb.valid /\ Wxd(wb.i) /\ in.dc # "nack" /\ wb.i.op # "div" /\ ~(IsMem(wb.i) /\ miss(in))
      BY Zenon, <1>0, <1>4, <2>4, Retires DEF wb_set_sboard
    <3>3. CASE wb.i.op \in {"load", "slow"}
      <4>1. in.dc = "hit"
        BY Zenon, <3>2, <3>3, InputFacts DEF IsMem, miss
      <4> QED
        BY Zenon, <1>9, <2>4, <3>1, <3>3, <4>1, WdataFacts, ResultFacts
    <3>4. CASE wb.i.op = "csr"
      BY Zenon, <1>9, <3>1, <3>4, WdataFacts, ResultFacts
    <3>5. CASE ~Late(wb.i)
      <4>1. wb.tag = TagALU(wb.i, arch[wb.i.rs1], arch[wb.i.rs2])
        BY Zenon, <1>0, <3>2, WbTag
      <4> QED
        BY Zenon, <1>9, <3>1, <3>2, <3>5, <4>1, WdataFacts, ResultFacts
    <3> QED
      BY Zenon, <3>2, <3>3, <3>4, <3>5 DEF Late
  <2> QED
    BY Zenon, <2>3, <2>4
<1> QED
  BY <1>7, <1>8, <1>9

\* The scoreboard follows the answers.
LEMMA ScoreboardKept ==
  ASSUME PipeInv, NEW in \in Inputs, Cycle(in)
  PROVE  ScoreboardExact'
<1> DEFINE out(r) == (\E p \in missed : p[1] = r) \/ (DivOut /\ div.rd = r)
<1>0. /\ PipeTypes /\ WbInv /\ MissedInv /\ DivInv /\ MemInv /\ ClashInv /\ ScoreboardExact
  BY DEF PipeInv
<1>1. SUFFICES ASSUME NEW r, r # 0 PROVE r \in sboard' <=> out(r)'
  BY DEF ScoreboardExact
<1>2. r \in sboard <=> out(r)
  BY Zenon, <1>0, <1>1 DEF ScoreboardExact
<1>3. r \in sboard' <=> \/ r \in sboard /\ r \notin ll_waddr(in)
                        \/ wb_wen(in) /\ wb_set_sboard(in) /\ r = wb.i.rd
  BY SboardStep
<1>4. missed' = (missed \ {coming}) \cup
                (IF wb_wen(in) /\ miss(in) THEN {<<wb.i.rd, wb.i.mtag>>} ELSE {})
  BY CycleParts
<1>5. /\ DivOut' <=> ~div_fires(in) /\ (DivOut \/ (wb_wen(in) /\ wb.i.op = "div"))
      /\ DivOut' => div'.rd = div.rd
      /\ wb_wen(in) /\ wb.i.op = "div" => div.rd = wb.i.rd /\ ~div_fires(in) /\ ~DivOut
      /\ div_fires(in) => DivOut
  BY <1>0, DivStep
<1>6. \A p \in missed : p[1] # 0 => arch[p[1]] = p[2]
  BY <1>0 DEF MissedInv
<1>7. DivOut /\ div.rd # 0 => \A p \in missed : p[1] # div.rd
  BY <1>0 DEF DivInv
<1>8. CASE coming # None
  <2>1. ~wb_wen(in) /\ ~div_fires(in) /\ ll_waddr(in) = {coming[1]} /\ coming \in missed
    BY <1>0, <1>8, WriteFacts DEF MissedInv
  <2>2. \A p \in missed : p[1] = coming[1] /\ p[1] # 0 => p = coming
    <3>1. \A p \in missed : p = <<p[1], p[2]>>
      BY <1>0 DEF PipeTypes
    <3> QED
      BY Zenon, <1>6, <2>1, <3>1
  <2>3. missed' = missed \ {coming} /\ (DivOut' <=> DivOut) /\ (DivOut' => div'.rd = div.rd)
    BY Zenon, <1>4, <1>5, <2>1
  <2> QED
    BY <1>1, <1>2, <1>3, <1>7, <2>1, <2>2, <2>3
<1>9. CASE div_fires(in)
  <2>1. ~wb_wen(in) /\ coming = None /\ ll_waddr(in) = {div.rd}
    BY <1>0, <1>9, WriteFacts
  <2>2. None \notin missed
    BY <1>0 DEF PipeTypes, None
  <2>3. missed' = missed /\ ~DivOut' /\ DivOut
    BY Zenon, <1>4, <1>5, <1>9, <2>1, <2>2
  <2> QED
    BY Zenon, <1>1, <1>2, <1>3, <1>7, <2>1, <2>3
<1>10. CASE coming = None /\ ~div_fires(in)
  <2>1. ll_waddr(in) = {}
    BY Zenon, <1>0, <1>10, WriteFacts
  <2>2. None \notin missed
    BY <1>0 DEF PipeTypes, None
  <2>3. missed' = missed \cup (IF wb_wen(in) /\ miss(in) THEN {<<wb.i.rd, wb.i.mtag>>} ELSE {})
    BY Zenon, <1>4, <1>10, <2>2
  <2>4. wb_set_sboard(in) /\ wb_wen(in) <=> wb_wen(in) /\ (wb.i.op = "div" \/ miss(in))
    BY InputFacts DEF wb_set_sboard, miss
  <2>5. (\E p \in missed' : p[1] = r) <=> (\E p \in missed : p[1] = r) \/ (wb_wen(in) /\ miss(in) /\ r = wb.i.rd)
    <3>1. CASE wb_wen(in) /\ miss(in)
      <4>1. missed' = missed \cup {<<wb.i.rd, wb.i.mtag>>} /\ <<wb.i.rd, wb.i.mtag>>[1] = wb.i.rd
        BY <2>3, <3>1
      <4> QED
        BY Zenon, <3>1, <4>1
    <3>2. CASE ~(wb_wen(in) /\ miss(in))
      BY <2>3, <3>2
    <3> QED
      BY <3>1, <3>2
  <2>6. (DivOut' /\ div'.rd = r) <=> (DivOut /\ div.rd = r) \/ (wb_wen(in) /\ wb.i.op = "div" /\ r = wb.i.rd)
    BY <1>5, <1>10
  <2> QED
    BY Zenon, <1>2, <1>3, <2>1, <2>4, <2>5, <2>6
<1> QED
  BY <1>8, <1>9, <1>10

\* The types of the stages, the files and the answers.
LEMMA TypesKept ==
  ASSUME PipeInv, NEW in \in Inputs, Cycle(in)
  PROVE  PipeTypes'
<1>0. PipeTypes /\ WbInv /\ MissedInv /\ DivInv
  BY Zenon DEF PipeInv
<1>1. ex'.valid \in BOOLEAN /\ ex'.xcpt # "tag" /\ ex'.i \in Program \cup {Nop}
  BY Zenon, CycleParts, ExStep, InputFacts
<1>2. mem'.valid \in BOOLEAN /\ mem'.replay \in BOOLEAN /\ mem'.i \in Program \cup {Nop}
  BY Zenon, <1>0, CycleParts, MemStep DEF PipeTypes
<1>3. wb'.valid \in BOOLEAN /\ wb'.replay \in BOOLEAN /\ wb'.i \in Program \cup {Nop}
  <2>1. wb'.valid \in BOOLEAN /\ wb'.replay \in BOOLEAN /\ (wb'.i = mem.i \/ wb'.i = Nop)
    BY Zenon, CycleParts, WbStep
  <2> QED
    BY Zenon, <1>0, <2>1 DEF PipeTypes
<1>4. wb.i \in Program \cup {Nop} /\ wb.i.rd \in Regs /\ wb.i.mtag \in Tags
  BY <1>0, InstrFacts DEF PipeTypes
<1>5. arch \in [Regs -> Tags] /\ arch[0] = {} /\ trf \in [Regs -> Tags] /\ trf[0] = {}
  BY <1>0 DEF PipeTypes
<1>6. arch' \in [Regs -> Tags] /\ arch'[0] = {}
  <2>1. arch' = IF wb_wen(in) /\ wb.i.rd # 0 THEN [arch EXCEPT ![wb.i.rd] = Result(wb.i, arch)] ELSE arch
    BY Zenon DEF Cycle
  <2>2. Result(wb.i, arch) \in Tags
    BY <1>4, <1>5, ResultType
  <2> QED
    BY <1>4, <1>5, <2>1, <2>2, RegsAssumption
<1>7. trf' \in [Regs -> Tags] /\ trf'[0] = {}
  <2>1. trf' = [r \in Regs |-> IF r \in rf_written(in) THEN tag_wdata(in) ELSE trf[r]]
    BY CycleParts DEF NextTrf
  <2>2. 0 \notin rf_written(in)
    BY DEF rf_written
  <2>3. rf_written(in) # {} => tag_wdata(in) \in Tags
    <3>1. CASE coming # None
      BY Zenon, <1>0, <3>1, WdataFacts DEF MissedInv, PipeTypes
    <3>2. CASE div_fires(in)
      BY Zenon, <1>0, <3>2, WriteFacts, WdataFacts DEF Tags
    <3>3. CASE coming = None /\ ~div_fires(in)
      <4>1. rf_written(in) # {} => wb_wen(in) /\ wb.valid /\ Wxd(wb.i)
        BY Zenon, <1>0, <3>3, WriteFacts, Retires
      <4>2. wb.valid => wb.tag = TagALU(wb.i, arch[wb.i.rs1], arch[wb.i.rs2])
        BY <1>0, WbTag
      <4>3. wb.valid => wb.tag \in Tags
        BY <1>4, <1>5, <4>2, ResultType
      <4>4. tag_wdata(in) \in {wb.i.mtag, {}, wb.tag}
        BY Zenon, <3>3 DEF tag_wdata
      <4> QED
        BY Zenon, <1>4, <4>1, <4>3, <4>4 DEF Tags
    <3> QED
      BY Zenon, <3>1, <3>2, <3>3
  <2> QED
    BY Zenon, <1>5, <2>1, <2>2, <2>3, RegsAssumption
<1>8. sboard' \subseteq Regs
  BY <1>0, <1>4, SboardStep DEF PipeTypes
<1>9. div' \in [busy : BOOLEAN, fresh : BOOLEAN, rd : Regs]
  <2>1. ex.i.rd \in Regs /\ div \in [busy : BOOLEAN, fresh : BOOLEAN, rd : Regs]
    BY <1>0, InstrFacts DEF PipeTypes
  <2>2. Idle \in [busy : BOOLEAN, fresh : BOOLEAN, rd : Regs]
    BY RegsAssumption DEF Idle
  <2>3. \/ div' = [busy |-> TRUE, fresh |-> TRUE, rd |-> ex.i.rd]
        \/ div' = Idle
        \/ div' = [div EXCEPT !.fresh = FALSE]
    BY CycleParts, Zenon DEF NextDiv
  <2>4. [busy |-> TRUE, fresh |-> TRUE, rd |-> ex.i.rd] \in [busy : BOOLEAN, fresh : BOOLEAN, rd : Regs]
    BY <2>1
  <2>5. [div EXCEPT !.fresh = FALSE] \in [busy : BOOLEAN, fresh : BOOLEAN, rd : Regs]
    BY Zenon, <2>1
  <2> QED
    BY Zenon, <2>2, <2>3, <2>4, <2>5
<1>10. missed' \subseteq Regs \X Tags
  <2>1. missed \subseteq Regs \X Tags /\ <<wb.i.rd, wb.i.mtag>> \in Regs \X Tags
    BY <1>0, <1>4 DEF PipeTypes
  <2>2. \A p \in missed' : p \in missed \/ p = <<wb.i.rd, wb.i.mtag>>
    BY CycleParts
  <2> QED
    BY <2>1, <2>2
<1> QED
  BY <1>1, <1>2, <1>3, <1>6, <1>7, <1>8, <1>9, <1>10 DEF PipeTypes

----------------------------------------------------------------------------

\* The pipeline starts empty, with whatever tags in the file.
LEMMA PipeInvInit == PipeInit => PipeInv
<1> SUFFICES ASSUME PipeInit PROVE PipeInv
  OBVIOUS
<1>1. /\ ex.valid = FALSE /\ ex.xcpt = "no" /\ ex.i = Nop
      /\ mem.valid = FALSE /\ mem.replay = FALSE /\ mem.xcpt = "no" /\ mem.i = Nop
      /\ wb.valid = FALSE /\ wb.replay = FALSE /\ wb.xcpt = "no" /\ wb.i = Nop
  BY DEF PipeInit, EmptyEx, Bubble
<1>2. /\ trf \in [Regs -> Tags] /\ trf[0] = {} /\ arch = trf /\ sboard = {} /\ missed = {} /\ coming = None
      /\ div.busy = FALSE /\ div.fresh = FALSE /\ div \in [busy : BOOLEAN, fresh : BOOLEAN, rd : Regs]
  BY Zenon, RegsAssumption DEF PipeInit, Idle
<1>3. PipeTypes
  BY Zenon, <1>1, <1>2 DEF PipeTypes
<1>4. WbInv /\ MemInv /\ ExInv /\ ClashInv
  BY Zenon, <1>1 DEF WbInv, MemInv, ExInv, ClashInv
<1>5. DivInv /\ MissedInv /\ FileRight /\ ScoreboardExact
  BY <1>1, <1>2 DEF DivInv, MissedInv, FileRight, ScoreboardExact, DivOut
<1> QED
  BY <1>3, <1>4, <1>5 DEF PipeInv

\* Every cycle, with whatever inputs, keeps the invariant.
LEMMA PipeInvStep == PipeInv /\ [PipeNext]_pipeVars => PipeInv'
<1> SUFFICES ASSUME PipeInv, [PipeNext]_pipeVars PROVE PipeInv'
  OBVIOUS
<1>1. ASSUME NEW in \in Inputs, Cycle(in) PROVE PipeInv'
  <2>0. PipeTypes /\ WbInv /\ MemInv /\ ExInv /\ ClashInv /\ DivInv /\ MissedInv /\ ScoreboardExact
    BY DEF PipeInv
  <2>1. PipeTypes' /\ FileRight' /\ ScoreboardExact'
    BY <1>1, TypesKept, FileKept, ScoreboardKept
  <2>2. WbInv' /\ MemInv'
    BY <1>1, <2>0, WbKept, MemKept
  <2>3. ExInv'
    BY <1>1, <2>0, <2>1, ExKept
  <2>4. ClashInv' /\ DivInv' /\ MissedInv'
    BY <1>1, <2>0, ClashKept, DivKept, MissedKept
  <2> QED
    BY <2>1, <2>2, <2>3, <2>4 DEF PipeInv
<1>2. CASE UNCHANGED pipeVars
  <2>1. /\ ex' = ex /\ mem' = mem /\ wb' = wb /\ trf' = trf /\ arch' = arch /\ sboard' = sboard
        /\ div' = div /\ missed' = missed /\ coming' = coming
    BY <1>2 DEF pipeVars
  <2>2. (MemGoes' <=> MemGoes) /\ (ExGoes' <=> ExGoes) /\ (DivOut' <=> DivOut)
    BY Zenon, <2>1 DEF MemGoes, ExGoes, DivOut
  <2>3. PipeTypes' /\ FileRight'
    BY Zenon, <2>1 DEF PipeInv, PipeTypes, FileRight
  <2>4. WbInv' /\ MemInv'
    BY Zenon, <2>1, <2>2 DEF PipeInv, WbInv, MemInv, StageRight, After
  <2>5. ExInv'
    <3>1. OperandInv(1, ex.i.rs1)' <=> OperandInv(1, ex.i.rs1)
      BY Zenon, <2>1 DEF OperandInv, Writes
    <3>2. OperandInv(2, ex.i.rs2)' <=> OperandInv(2, ex.i.rs2)
      BY Zenon, <2>1 DEF OperandInv, Writes
    <3> QED
      BY Zenon, <2>1, <2>2, <3>1, <3>2 DEF PipeInv, ExInv
  <2>6. ClashInv'
    BY Zenon, <2>1, <2>2 DEF PipeInv, ClashInv
  <2>7. DivInv' /\ MissedInv' /\ ScoreboardExact'
    BY <2>1, <2>2 DEF PipeInv, DivInv, MissedInv, ScoreboardExact
  <2> QED
    BY <2>3, <2>4, <2>5, <2>6, <2>7 DEF PipeInv
<1> QED
  BY <1>1, <1>2 DEF PipeNext

\* The invariant holds in every cycle.
THEOREM PipelineInvariant == PipeSpec => []PipeInv
  BY PipeInvInit, PipeInvStep, PTL DEF PipeSpec

\* For every program, an instruction in write-back has used the tags that the
\* instructions before it left (bypass_sources_tags, ex_tags of rocket.scala).
THEOREM OperandTagsAreRight == PipeSpec => []OperandTagsRight
<1>1. PipeInv => OperandTagsRight
  BY DEF PipeInv, WbInv, StageRight, OperandTagsRight
<1> QED
  BY <1>1, PipelineInvariant, PTL

\* For every program, the tag trap is taken by exactly the jumps that fail the
\* check (tag_check_unit.scala) by the tags of the registers.
THEOREM TagTrapsAreExact == PipeSpec => []TagTrapExact
<1>1. PipeInv => TagTrapExact
  BY DEF PipeInv, WbInv, TagTrapExact
<1> QED
  BY <1>1, PipelineInvariant, PTL

\* For every program, the tag register file follows the retired instructions.
THEOREM FileIsRight == PipeSpec => []FileRight
<1>1. PipeInv => FileRight
  BY DEF PipeInv
<1> QED
  BY <1>1, PipelineInvariant, PTL

\* For every program, the scoreboard keeps the registers whose answer is outstanding.
THEOREM ScoreboardIsExact == PipeSpec => []ScoreboardExact
<1>1. PipeInv => ScoreboardExact
  BY DEF PipeInv
<1> QED
  BY <1>1, PipelineInvariant, PTL
=============================================================================
