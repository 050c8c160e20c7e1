--------------------------- MODULE MCTagPipeline ---------------------------
(* A small program for TagPipeline: every kind of instruction, ra = 1 and another  *)
(* register, so that every bypass, every stall and every late answer meets every   *)
(* other; two of the instructions are fetched with a fault.                        *)
EXTENDS TagPipeline

I(op, rd, rs1, rs2) ==
  [op |-> op, rd |-> rd, rs1 |-> rs1, rs2 |-> rs2, mtag |-> {}, bad |-> FALSE]
Load(op, rd, tag) == [I(op, rd, 0, 0) EXCEPT !.mtag = tag]
Bad(i) == [i EXCEPT !.bad = TRUE]

SmallProgram ==
  {I("mv", 1, 2, 0), I("mv", 2, 1, 0), I("alu", 2, 1, 2), I("jal", 1, 0, 0),
   I("jalr", 0, 1, 0), I("jalr", 1, 2, 0), I("branch", 0, 1, 2), I("div", 2, 1, 2),
   I("csr", 1, 0, 0), I("sys", 0, 0, 0), I("store", 0, 1, 2),
   Load("load", 1, {"ret"}), Load("slow", 2, {"inv"}),
   Bad(I("jalr", 0, 1, 0)), Bad(I("div", 1, 2, 0))}
=============================================================================
