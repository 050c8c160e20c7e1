---------------------------- MODULE TagCacheData ----------------------------
(***************************************************************************)
(* The tag cache loses no update and mixes no blocks: between requests the *)
(* data and the tags of every block are those of its last acknowledged     *)
(* write, and the L2 sees a plain memory whose blocks carry their tags.    *)
(*                                                                         *)
(* What is left of the paths is the refill and the grant.                  *)
(***************************************************************************)
EXTENDS TagCacheEvict

-----------------------------------------------------------------------------
(* The line of the request on its way from memory.                         *)

\* What a cycle does to the buffers of the refill.
LEMMA RefillStep ==
  ASSUME NEW r, NEW v, NEW w, NEW m, Cycle(r, v, w, m)
  PROVE  /\ refill_data' = mem_tag_data_read
         /\ state # "s_data_write_refill" => refill_data_cnt' = 0
         /\ state = "s_data_write_refill" =>
              refill_data_cnt' = IF refill_data_cnt = Beats - 1 THEN 0 ELSE refill_data_cnt + 1
         /\ state # "s_idle" /\ ~(mem_receive_tag /\ ognt_fire(v)) => mem_tag_data_read' = mem_tag_data_read
         /\ mem_receive_tag => ognt_fire(v) \/ (nr_cnt' = nr_cnt /\ ~nr_finish(v))
         /\ mem_receive_tag /\ ognt_fire(v) =>
              /\ nr_cnt' = IF nr_cnt = Beats - 1 THEN 0 ELSE nr_cnt + 1
              /\ nr_finish(v) => nr_cnt = Beats - 1
              /\ nr_cnt = Beats - 1 => nr_finish(v)
              /\ mem_tag_data_read'[nr_cnt] =
                   tmem[isDramAddress(addr_out)][lineOf(addr_out)][nr_cnt]
              /\ \A k \in Beat : k # nr_cnt => mem_tag_data_read'[k] = mem_tag_data_read[k]
         /\ ~mem_receive_tag /\ ~acq_data_process' => nr_cnt' = 0
<1>0. /\ RefillInv /\ Refill /\ Receive(v) /\ Request(v) /\ Memory(r, v) /\ DataInv /\ FsmInv
      /\ mem_tag_data_read \in [Beat -> Row] /\ nr_cnt \in Beat /\ refill_data_cnt \in Beat
      /\ acq_data_process \in BOOLEAN
  BY Zenon DEF Cycle, Tick, PathInv, TypeOK, BuffersOK, CountersOK, ControlInv, TrackerOK
<1>1. refill_data' = mem_tag_data_read
  BY Zenon, <1>0 DEF Refill
<1>2. state # "s_data_write_refill" => refill_data_cnt' = 0
  BY Zenon, <1>0 DEF Refill, RefillInv, Count
<1>3. state = "s_data_write_refill" =>
        refill_data_cnt' = IF refill_data_cnt = Beats - 1 THEN 0 ELSE refill_data_cnt + 1
  <2>1. refill_data_cnt' = Count(refill_data_cnt, state = "s_data_write_refill")
    BY Zenon, <1>0 DEF Refill
  <2> QED
    BY <1>0, <2>1, ParamAssumption DEF Count, Beat
<1>4. ASSUME state # "s_idle", ~(mem_receive_tag /\ ognt_fire(v))
      PROVE  mem_tag_data_read' = mem_tag_data_read
  BY Zenon, <1>0, <1>4 DEF Receive, accept, ognt_fire, tl_out_grant_ready
<1>5. nr_cnt' = Count(nr_cnt, nr_inc(v))
  BY Zenon, <1>0 DEF Receive
<1>6. ASSUME mem_receive_tag, ~ognt_fire(v) PROVE nr_cnt' = nr_cnt /\ ~nr_finish(v)
  BY Zenon, <1>5, <1>6 DEF Count, nr_inc, nr_finish
<1>7. ASSUME mem_receive_tag, ognt_fire(v)
      PROVE  /\ nr_cnt' = IF nr_cnt = Beats - 1 THEN 0 ELSE nr_cnt + 1
             /\ nr_finish(v) => nr_cnt = Beats - 1
             /\ nr_cnt = Beats - 1 => nr_finish(v)
             /\ mem_tag_data_read'[nr_cnt] =
                  tmem[isDramAddress(addr_out)][lineOf(addr_out)][nr_cnt]
             /\ \A k \in Beat : k # nr_cnt => mem_tag_data_read'[k] = mem_tag_data_read[k]
  <2>1. nr_inc(v)
    BY Zenon, <1>7 DEF nr_inc
  <2>2. nr_cnt' = IF nr_cnt = Beats - 1 THEN 0 ELSE nr_cnt + 1
    BY <1>0, <1>5, <2>1, ParamAssumption DEF Count, Beat
  <2>3. state = "s_mem_req" /\ ~acq_data_process
    BY Zenon, <1>7 DEF mem_receive_tag
  <2>4. port.op = "get" /\ port.sp = "tag" /\ port.cnt = nr_cnt
    <3>1. CanRespond
      BY Zenon, <1>0, <1>7 DEF Memory, ognt_fire
    <3> QED
      BY Zenon, <1>0, <2>3, <3>1 DEF FsmInv, CanRespond, IsPort, Quiet
  <2>5. port.ta = tagAddrConv(lineOf(addr_out), isDramAddress(addr_out))
    BY Zenon, <1>0, <2>4 DEF RefillInv
  <2>6. port.ta.dram = isDramAddress(addr_out) /\ port.ta.line = lineOf(addr_out)
    BY <2>5 DEF tagAddrConv
  <2>7. mem_tag_data_read' = [mem_tag_data_read EXCEPT ![nr_cnt] =
                                tmem[port.ta.dram][port.ta.line][port.cnt]]
    BY ZenonT(40), <1>0, <1>7, <2>3, <2>4 DEF Receive, accept, ognt_fire
  <2>8. /\ mem_tag_data_read'[nr_cnt] = tmem[port.ta.dram][port.ta.line][port.cnt]
        /\ \A k \in Beat : k # nr_cnt => mem_tag_data_read'[k] = mem_tag_data_read[k]
    BY <1>0, <2>7
  <2>9. mem_tag_data_read'[nr_cnt] = tmem[isDramAddress(addr_out)][lineOf(addr_out)][nr_cnt]
    BY Zenon, <2>4, <2>6, <2>8
  <2> QED
    BY Zenon, <2>1, <2>2, <2>8, <2>9 DEF nr_finish
<1>8. ASSUME ~mem_receive_tag, ~acq_data_process' PROVE nr_cnt' = 0
  <2>1. CASE acq_data_process
    <3>1. orig_done(v)
      BY ZenonT(40), <1>0, <1>8, <2>1 DEF Request, reqVars
    <3>2. CASE is_read
      <4>1. nr_finish(v)
        BY Zenon, <1>0, <3>1, <3>2 DEF orig_done, DataInv
      <4> QED
        BY <1>0, <1>5, <4>1, ParamAssumption DEF nr_finish, Count, Beat
    <3>3. CASE ~is_read
      <4>1. ~nr_inc(v) /\ nr_cnt = 0
        BY ZenonT(40), <1>0, <1>8, <2>1, <3>1, <3>3 DEF nr_inc, orig_done, DataInv
      <4> QED
        BY Zenon, <1>5, <4>1 DEF Count
    <3> QED
      BY Zenon, <3>2, <3>3
  <2>2. CASE ~acq_data_process
    <3>1. ~nr_inc(v) /\ state # "s_mem_req"
      BY Zenon, <1>8, <2>2 DEF nr_inc, mem_receive_tag
    <3>2. nr_cnt = 0
      BY ZenonT(40), <1>0, <2>2, <3>1 DEF FsmInv
    <3> QED
      BY Zenon, <1>5, <3>1, <3>2 DEF Count
  <2> QED
    BY Zenon, <2>1, <2>2
<1> QED
  BY Zenon, <1>1, <1>2, <1>3, <1>4, <1>6, <1>7, <1>8

\* Every row of the missing line comes right from the tag partition through
\* mem_tag_data_read and refill_data into the allocated way.
LEMMA RefillKept ==
  ASSUME NEW r, NEW v, NEW w, NEW m, Cycle(r, v, w, m)
  PROVE  RefillInv'
<1>0. /\ RefillInv /\ LookupInv /\ TagInv /\ nr_cnt \in Beat /\ refill_data_cnt \in Beat
      /\ addr_out \in ReqBlocks /\ addr_out.idx \in Sets /\ acq_way_en \in SUBSET Ways
  BY ParamAssumption DEF Cycle, PathInv, TypeOK, CountersOK, TrackerOK, Block, ArraysOK
<1>1. ASSUME port'.op = "get", port'.sp = "tag"
      PROVE  port'.ta = tagAddrConv(lineOf(addr_out'), isDramAddress(addr_out'))
  <2>1. state # "s_idle"
    BY Zenon, <1>1, ServesStep, NoTransferData DEF Quiet
  <2> QED
    BY ZenonT(40), <1>1, <2>1, ServesStep, MemoryStep
<1>2. state' # "s_data_write_refill" => refill_data_cnt' = 0
  <2>1. state = "s_data_write_refill" /\ refill_data_cnt # Beats - 1 =>
          state' = "s_data_write_refill"
    BY Zenon, StateStep DEF Cycle, Tick
  <2> QED
    BY Zenon, <2>1, RefillStep
<1>3. ASSUME NEW b \in LineBlocks', state' \in {"s_mem_req"} \cup Refilling
      PROVE  /\ state' = "s_mem_req" /\ ~acq_data_process' /\ b.row < nr_cnt' =>
                  Holds(b, mem_tag_data_read[b.row])'
             /\ state' = "s_data_write_refill" =>
                  /\ Holds(b, mem_tag_data_read[b.row])'
                  /\ b.row < Beats - 1 \/ refill_data_cnt' > 0 => Holds(b, refill_data[b.row])'
                  /\ b.row < refill_data_cnt' =>
                       \A x \in acq_way_en' : Holds(b, dataArray[x][b.idx][b.row])'
             /\ state' = "s_meta_write_refill" =>
                  \A x \in acq_way_en' : Holds(b, dataArray[x][b.idx][b.row])'
  <2>1. \/ state \in {"s_meta_resp", "s_write_back_wait_b"} /\ state' = "s_mem_req"
        \/ state = "s_mem_req" /\ state' = "s_mem_req"
        \/ /\ state = "s_mem_req" /\ state' = "s_data_write_refill"
           /\ ~acq_data_process /\ nr_finish(v)
        \/ /\ state = "s_data_write_refill" /\ state' = "s_data_write_refill"
           /\ refill_data_cnt # Beats - 1
        \/ /\ state = "s_data_write_refill" /\ state' = "s_meta_write_refill"
           /\ refill_data_cnt = Beats - 1
    BY Zenon, <1>3, Predecessors DEF Refilling
  <2>2. addr_out' = addr_out /\ golden' = golden
    BY Zenon, <2>1, ServesStep, GoldenStep
  <2>3. state # "s_meta_resp" => acq_way_en' = acq_way_en
    BY Zenon, StateStep DEF Cycle, Tick
  <2>4. b \in LineBlocks /\ b \in ReqBlocks /\ lineOf(b) = lineOf(addr_out)
    BY ZenonT(40), <1>3, <2>2 DEF LineBlocks, lineOf
  <2>5. b.tag = addr_out.tag /\ b.idx = addr_out.idx /\ isDramAddress(b) = isDramAddress(addr_out)
    BY <2>4 DEF lineOf, isDramAddress
  <2>6. b.row \in Beat /\ b.idx \in Sets
    BY <2>4, ParamAssumption DEF Block
  <2> DEFINE Good(row) == row[b.slot] = Payload(golden[b])
  <2>7. /\ \A row : Holds(b, row) <=> Good(row)
        /\ Good(mem_tag_data_read'[b.row]) => Holds(b, mem_tag_data_read[b.row])'
        /\ Good(refill_data'[b.row]) => Holds(b, refill_data[b.row])'
        /\ \A x : Good(dataArray'[x][addr_out.idx][b.row]) => Holds(b, dataArray[x][b.idx][b.row])'
    BY Zenon, <2>2, <2>5 DEF Holds, Payload
  <2>8. state = "s_mem_req" => Good(tmem[isDramAddress(addr_out)][lineOf(addr_out)][b.row])
    <3>1. state = "s_mem_req" => WaysOf(b) = {}
      BY Zenon, <1>0, <2>5 DEF LookupInv, Missing, WaysOf
    <3>2. state = "s_mem_req" => InMemory(b)
      BY Zenon, <1>0, <2>4, <3>1 DEF TagInv
    <3> QED
      BY Zenon, <2>4, <2>5, <2>7, <3>2 DEF InMemory
  <2> HIDE DEF Good
  \* A beat from memory fills the next row.
  <2>9. ASSUME mem_receive_tag,
               b.row < nr_cnt \/ (ognt_fire(v) /\ b.row = nr_cnt)
        PROVE  Good(mem_tag_data_read'[b.row])
    <3>1. state = "s_mem_req" /\ ~acq_data_process
      BY Zenon, <2>9 DEF mem_receive_tag
    <3>2. CASE b.row < nr_cnt
      <4>1. b.row # nr_cnt
        BY <1>0, <2>6, <3>2 DEF Beat
      <4>2. mem_tag_data_read'[b.row] = mem_tag_data_read[b.row]
        BY ZenonT(40), <2>6, <2>9, <3>1, <4>1, RefillStep
      <4>3. Good(mem_tag_data_read[b.row])
        BY Zenon, <1>0, <2>4, <2>7, <3>1, <3>2 DEF RefillInv
      <4> QED
        BY Zenon, <4>2, <4>3
    <3>3. CASE ognt_fire(v) /\ b.row = nr_cnt
      BY Zenon, <2>8, <2>9, <3>1, <3>3, RefillStep
    <3> QED
      BY Zenon, <2>9, <3>2, <3>3
  <2>10. CASE state' = "s_mem_req"
    <3> SUFFICES ASSUME ~acq_data_process', b.row < nr_cnt' PROVE Good(mem_tag_data_read'[b.row])
      BY Zenon, <2>7, <2>10
    <3>1. mem_receive_tag
      <4>1. nr_cnt' # 0
        BY <2>6 DEF Beat
      <4> QED
        BY Zenon, <4>1, RefillStep
    <3>2. CASE nr_cnt' = nr_cnt
      BY Zenon, <2>9, <3>1, <3>2
    <3>3. CASE ognt_fire(v)
      <4>1. nr_cnt = Beats - 1 => nr_cnt' = 0
        BY Zenon, <3>1, <3>3, RefillStep
      <4>2. nr_cnt # Beats - 1 => nr_cnt' = nr_cnt + 1
        BY Zenon, <3>1, <3>3, RefillStep
      <4>3. b.row < nr_cnt \/ (ognt_fire(v) /\ b.row = nr_cnt)
        BY <1>0, <2>6, <3>3, <4>1, <4>2 DEF Beat
      <4> QED
        BY Zenon, <2>9, <3>1, <4>3
    <3> QED
      BY Zenon, <3>1, <3>2, <3>3, RefillStep
  <2>11. CASE state = "s_mem_req" /\ state' = "s_data_write_refill"
    <3>1. mem_receive_tag /\ nr_finish(v) /\ ~acq_data_process
      BY Zenon, <2>1, <2>11 DEF mem_receive_tag
    <3>2. nr_cnt = Beats - 1 /\ ognt_fire(v) /\ refill_data_cnt' = 0
      BY Zenon, <2>11, <3>1, RefillStep DEF nr_finish, nr_inc
    <3>3. /\ b.row < nr_cnt \/ b.row = nr_cnt
          /\ ~(b.row < refill_data_cnt') /\ ~(refill_data_cnt' > 0)
          /\ b.row < Beats - 1 => b.row < nr_cnt
      BY <2>6, <3>2 DEF Beat
    <3>4. Good(mem_tag_data_read'[b.row])
      BY Zenon, <2>9, <3>1, <3>2, <3>3
    <3>5. b.row < Beats - 1 => Good(refill_data'[b.row])
      BY Zenon, <1>0, <2>4, <2>7, <2>11, <3>1, <3>3, RefillStep DEF RefillInv
    <3> QED
      BY Zenon, <2>7, <2>11, <3>3, <3>4, <3>5
  <2>12. CASE state = "s_data_write_refill"
    <3>1. Good(mem_tag_data_read[b.row])
          /\ (b.row < Beats - 1 \/ refill_data_cnt > 0 => Good(refill_data[b.row]))
      BY Zenon, <1>0, <2>4, <2>7, <2>12 DEF RefillInv
    <3>2. mem_tag_data_read' = mem_tag_data_read /\ refill_data' = mem_tag_data_read
      BY Zenon, <2>12, RefillStep DEF mem_receive_tag
    <3>3. ASSUME b.row < refill_data_cnt \/ b.row = refill_data_cnt, NEW x \in acq_way_en
          PROVE  Good(dataArray'[x][addr_out.idx][b.row])
      <4>0. x \in Ways
        BY Zenon, <1>0, <3>3
      <4>1. CASE b.row < refill_data_cnt
        <5>1. b.row # refill_data_cnt
          BY <1>0, <2>6, <4>1 DEF Beat
        <5>2. Good(dataArray[x][b.idx][b.row])
          BY Zenon, <1>0, <2>4, <2>7, <2>12, <3>3, <4>1 DEF RefillInv
        <5>3. dataArray'[x][addr_out.idx][b.row] = dataArray[x][addr_out.idx][b.row]
          BY ZenonT(40), <2>6, <2>12, <3>3, <4>0, <5>1, DataStep
        <5> QED
          BY ZenonT(40), <2>5, <5>2, <5>3
      <4>2. CASE b.row = refill_data_cnt
        <5>1. b.row < Beats - 1 \/ refill_data_cnt > 0
          BY <1>0, <2>6, <4>2, ParamAssumption DEF Beat
        <5>2. dataArray'[x][addr_out.idx][b.row] = refill_data[b.row]
          BY ZenonT(40), <2>12, <3>3, <4>0, <4>2, DataStep
        <5> QED
          BY Zenon, <3>1, <5>1, <5>2
      <4> QED
        BY Zenon, <3>3, <4>1, <4>2
    <3>4. CASE state' = "s_data_write_refill"
      <4>1. refill_data_cnt' = refill_data_cnt + 1
        BY Zenon, <2>1, <2>12, <3>4, RefillStep
      <4>2. b.row < refill_data_cnt' => b.row < refill_data_cnt \/ b.row = refill_data_cnt
        BY <1>0, <2>6, <4>1 DEF Beat
      <4> QED
        BY Zenon, <2>3, <2>7, <2>12, <3>1, <3>2, <3>3, <3>4, <4>2
    <3>5. CASE state' = "s_meta_write_refill"
      <4>1. refill_data_cnt = Beats - 1
        BY ZenonT(40), <2>1, <2>12, <3>5
      <4>2. b.row < refill_data_cnt \/ b.row = refill_data_cnt
        BY <2>6, <4>1, ParamAssumption DEF Beat
      <4> QED
        BY Zenon, <2>3, <2>7, <2>12, <3>3, <3>5, <4>2
    <3> QED
      BY ZenonT(40), <2>1, <2>12, <3>4, <3>5
  <2> QED
    BY Zenon, <2>1, <2>10, <2>11, <2>12
<1> QED
  BY ZenonT(40), <1>1, <1>2, <1>3 DEF RefillInv, Refilling

-----------------------------------------------------------------------------
(* What is granted to a reader.                                            *)

\* A beat of the grant is taken in every cycle.
LEMMA GrantStep ==
  ASSUME NEW r, NEW v, NEW w, NEW m, Cycle(r, v, w, m), gnt_enable, ~is_write_process
  PROVE  /\ state = "s_busy" /\ state' = "s_busy" /\ ~acq_data_process /\ Serves
         /\ is_write_process' = is_write_process /\ golden' = golden
         /\ gnt_data_cnt = Beats - 1 => gnt_data_done /\ ~gnt_enable' /\ gnt_data_cnt' = 0
         /\ gnt_data_cnt # Beats - 1 =>
              /\ ~gnt_data_done /\ gnt_enable' /\ gnt_data_cnt' = gnt_data_cnt + 1
              /\ \A k \in Beat : cl'[tag_out].buf[k] = IF k = gnt_data_cnt THEN gnt_data[k]
                                                       ELSE cl[tag_out].buf[k]
<1>0. /\ TypeOK /\ ControlInv /\ PathInv /\ OwnerInv /\ GrantHandler /\ Transactors(r, m)
      /\ gnt_data_cnt \in Beat /\ cl \in [Xacts -> Client] /\ finq \in {0, 1} /\ tag_out \in Xacts
  BY Zenon DEF Cycle, Tick, PathInv, TypeOK, CountersOK, L2OK, TrackerOK
<1>1. state = "s_busy" /\ state' = "s_busy"
  BY Zenon, ServesStep
<1>2. ~acq_data_process /\ Serves
  BY Zenon, <1>0, <1>1 DEF ControlInv, FsmInv, Serves
<1>3. is_write_process' = is_write_process /\ golden' = golden
  BY Zenon, <1>0, <1>1, FsmStep, GoldenStep DEF Cycle, Tick
<1>4. cl[tag_out].st = "busy"
  BY Zenon, <1>0, <1>2 DEF OwnerInv
<1>5. tl_grant_fire
  <2>1. finq < 2
    BY <1>0
  <2> QED
    BY Zenon, <1>0, <1>4, <2>1 DEF tl_grant_fire, tl_grant_ready
<1>6. gnt_data_done <=> gnt_data_cnt = Beats - 1
  BY Zenon, <1>5 DEF gnt_data_done
<1>7. gnt_data_cnt' = Count(gnt_data_cnt, TRUE) /\ (gnt_enable' <=> ~gnt_data_done)
  <2>1. gnt_data_cnt' = Count(gnt_data_cnt, tl_grant_fire /\ ~is_write_process)
    BY Zenon, <1>0 DEF GrantHandler
  <2>2. gnt_data_cnt' = Count(gnt_data_cnt, TRUE)
    BY Zenon, <1>5, <2>1 DEF Count
  <2>3. gnt_enable' <=> ~gnt_data_done
    BY Zenon, <1>0, <1>1 DEF GrantHandler
  <2> QED
    BY Zenon, <2>2, <2>3
<1>8. /\ gnt_data_cnt = Beats - 1 => gnt_data_cnt' = 0
      /\ gnt_data_cnt # Beats - 1 => gnt_data_cnt' = gnt_data_cnt + 1
  BY <1>0, <1>7, ParamAssumption DEF Count, Beat
<1>9. ASSUME gnt_data_cnt # Beats - 1, NEW k \in Beat
      PROVE  cl'[tag_out].buf[k] = IF k = gnt_data_cnt THEN gnt_data[k] ELSE cl[tag_out].buf[k]
  <2>1. ~grant_last
    BY Zenon, <1>6, <1>9 DEF grant_last
  <2>2. cl'[tag_out] = Granted(tag_out)
    BY Zenon, <1>0, <1>2, <1>5 DEF Transactors, tl_acquire_fire, tl_release_fire
  <2>3. cl'[tag_out] = [cl[tag_out] EXCEPT !.buf[gnt_data_cnt] = gnt_data[gnt_data_cnt]]
    BY Zenon, <2>1, <2>2 DEF Granted
  <2>4. cl[tag_out] \in Client
    BY Zenon, <1>0
  <2> QED
    BY <1>0, <2>3, <2>4 DEF Client
<1> QED
  BY Zenon, <1>1, <1>2, <1>3, <1>6, <1>7, <1>8, <1>9

\* The tags of a read reach the grant, and the beats already granted the client, right.
LEMMA GrantKept ==
  ASSUME NEW r, NEW v, NEW w, NEW m, Cycle(r, v, w, m)
  PROVE  GrantInv'
<1>0. /\ TypeOK /\ GrantInv /\ LookupInv /\ TagInv /\ WayInv /\ ReadInv /\ DataArray /\ GrantHandler
      /\ addr_out \in ReqBlocks /\ gnt_data_cnt \in Beat /\ AckInv' /\ AckInv
  BY Zenon DEF Cycle, Tick, PathInv, TypeOK, TrackerOK, CountersOK, ControlInv
<1>1. ASSUME state' = "s_data_resp_hit" PROVE Holds(addr_out, data_resp.row)'
  <2>1. state = "s_data_read_hit" /\ ~rst
    BY Zenon, <1>1, Predecessors
  <2>2. addr_out' = addr_out /\ golden' = golden
    BY Zenon, <2>1, ServesStep, GoldenStep
  <2>3. PICK x \in Ways : acq_way_en = {x} /\ x \in WaysOf(addr_out)
    BY Zenon, <1>0, <2>1 DEF WayInv, Fits, LookupInv, Serving
  <2>4. (CHOOSE y \in acq_way_en : TRUE) = x /\ acq_way_en # {}
    BY <2>3
  <2>5. dataArray[x][addr_out.idx][addr_out.row][addr_out.slot] = Payload(golden[addr_out])
    <3>1. \A b \in ReqBlocks : TagsOf(b) = Payload(golden[b])
      BY Zenon, <2>1, TagsStep
    <3>2. addr_out.idx < rst_cnt
      BY ZenonT(40), <1>0, <2>1, MetaStep
    <3> QED
      BY ZenonT(40), <1>0, <2>1, <2>3, <3>1, <3>2 DEF TagInv, Replaced, Refilling
  <2>6. data_resp'.row = dataArray[CHOOSE y \in acq_way_en : TRUE][addr_out.idx][addr_out.row]
    BY <1>0, <2>1, <2>4 DEF DataArray, data_read_fire
  <2> QED
    BY Zenon, <2>2, <2>4, <2>5, <2>6 DEF Holds, Payload
<1>2. ASSUME state' \in {"s_gnt", "s_busy"}, ~is_write_process'
      PROVE  gnt_tag' = Payload(golden[addr_out])'
  <2>1. state \in {"s_data_resp_hit", "s_meta_write_hit", "s_gnt", "s_busy"}
    BY Zenon, <1>2, Predecessors
  <2>2. ~is_write_process
    BY Zenon, <1>0, <1>2, <2>1, FsmStep DEF Cycle, Tick
  <2>3. addr_out' = addr_out /\ golden' = golden
    BY Zenon, <2>1, <2>2, ServesStep, GoldenStep
  <2>4. gnt_tag' = Payload(golden[addr_out])
    <3>1. CASE state = "s_data_resp_hit"
      BY Zenon, <1>0, <3>1, StateStep DEF Cycle, Tick, GrantInv, Holds
    <3>2. CASE state \in {"s_gnt", "s_busy"}
      BY Zenon, <1>0, <2>2, <3>2, StateStep DEF Cycle, Tick, GrantInv
    <3> QED
      BY Zenon, <1>0, <2>1, <2>2, <3>1, <3>2 DEF LookupInv
  <2> QED
    BY Zenon, <2>3, <2>4 DEF Payload
<1>3. ASSUME gnt_enable', ~is_write_process', NEW k \in Beat
      PROVE  /\ gnt_data'[k] = (<<<<golden[addr_out], k>>, <<golden[addr_out], k>>>>)'
             /\ k < gnt_data_cnt' =>
                  cl'[tag_out'].buf[k] = (<<<<golden[addr_out], k>>, <<golden[addr_out], k>>>>)'
  <2> DEFINE cell == <<golden[addr_out], k>>
  <2>1. state' = "s_busy"
    BY Zenon, <1>0, <1>3 DEF AckInv
  <2>2. state \in {"s_gnt", "s_busy"}
    BY Zenon, <2>1, Predecessors
  <2>3. ~is_write_process
    BY ZenonT(40), <1>0, <1>3, <2>1, <2>2, FsmStep DEF Cycle, Tick
  <2>4. addr_out' = addr_out /\ golden' = golden /\ tag_out' = tag_out
    BY Zenon, <2>2, <2>3, ServesStep, GoldenStep
  <2>5. \/ state = "s_gnt" /\ ~acq_data_process /\ ~gnt_enable
        \/ gnt_enable /\ ~gnt_data_done
    <3>1. state = "s_gnt" => ~acq_data_process /\ ~gnt_enable
      BY ZenonT(40), <1>0, <2>1, StateStep DEF Cycle, Tick, AckInv
    <3>2. state = "s_busy" => gnt_enable /\ ~gnt_data_done
      BY Zenon, <1>0, <1>3 DEF GrantHandler
    <3> QED
      BY Zenon, <2>2, <3>1, <3>2
  <2>6. Serves /\ ~acq_data_process
    BY Zenon, <2>3, <2>5, GrantStep DEF Serves
  <2>7. mem_acq_data_read = Payload(golden[addr_out]) /\ gnt_tag = Payload(golden[addr_out])
    BY Zenon, <1>0, <2>2, <2>3, <2>6 DEF ReadInv, GrantInv
  <2>8. mem_acq_data_read[k] = cell /\ gnt_tag[k] = cell
    BY Zenon, <1>3, <2>7 DEF Payload
  <2>9. gnt_data'[k] = <<cell, cell>>
    BY ZenonT(40), <1>0, <1>3, <2>8 DEF GrantHandler
  <2>10. ASSUME k < gnt_data_cnt' PROVE cl'[tag_out].buf[k] = <<cell, cell>>
    <3>1. gnt_enable
      <4>1. CASE ~gnt_enable
        <5>1. gnt_data_cnt' = 0
          BY Zenon, <1>0, <4>1 DEF GrantHandler, GrantInv, Count, tl_grant_fire
        <5> QED
          BY <1>3, <2>10, <5>1 DEF Beat
      <4> QED
        BY Zenon, <4>1
    <3>2. gnt_data_cnt # Beats - 1 /\ gnt_data_cnt' = gnt_data_cnt + 1
      BY Zenon, <1>3, <2>3, <3>1, GrantStep
    <3>3. cl'[tag_out].buf[k] = IF k = gnt_data_cnt THEN gnt_data[k] ELSE cl[tag_out].buf[k]
      BY Zenon, <1>3, <2>3, <3>1, <3>2, GrantStep
    <3>4. k < gnt_data_cnt \/ k = gnt_data_cnt
      BY <1>0, <1>3, <2>10, <3>2 DEF Beat
    <3>5. /\ gnt_data[k] = <<cell, cell>>
          /\ k < gnt_data_cnt => cl[tag_out].buf[k] = <<cell, cell>>
      BY Zenon, <1>0, <1>3, <2>3, <3>1 DEF GrantInv
    <3> QED
      BY Zenon, <3>3, <3>4, <3>5
  <2> QED
    BY Zenon, <2>4, <2>9, <2>10
<1>4. ASSUME ~(gnt_enable' /\ ~is_write_process') PROVE gnt_data_cnt' = 0
  <2>1. CASE gnt_enable /\ ~is_write_process
    BY Zenon, <1>4, <2>1, GrantStep
  <2>2. CASE ~(gnt_enable /\ ~is_write_process)
    BY Zenon, <1>0, <2>2 DEF GrantHandler, GrantInv, Count, tl_grant_fire
  <2> QED
    BY Zenon, <2>1, <2>2
<1> QED
  BY Zenon, <1>1, <1>2, <1>3, <1>4 DEF GrantInv

-----------------------------------------------------------------------------
(* The theorem.                                                            *)

\* After reset no buffer is in use, the metadata are being cleared and both partitions
\* hold the initial payload.
LEMMA InitPath == Init => PathInv
<1> SUFFICES ASSUME Init PROVE PathInv
  OBVIOUS
<1>1. OwnerInv /\ CollectInv /\ ReadInv
  BY Zenon DEF Init, OwnerInv, CollectInv, ReadInv, Serves, Unacked, NoPort
<1>2. BlockInv
  BY ZenonT(40) DEF Init, BlockInv, Unacked, Payload, Serves
<1>3. ~meta_resp.valid /\ ~data_resp.valid /\ port.op = "none"
  BY DEF Init, NoPort
<1>4. \A s \in Sets : ~(s < 0) /\ s >= 0
  BY DEF Sets
<1>5. LookupInv
  BY Zenon, <1>3, <1>4 DEF Init, LookupInv, Missing, Evicting, Refilling, Serving
<1>6. ASSUME NEW b \in ReqBlocks PROVE InMemory(b)
  <2>1. b.idx \in Sets /\ b.row \in Beat /\ b.slot \in Slot /\ b.tag \in Tags
    BY ParamAssumption DEF Block
  <2>2. lineOf(b) \in Line /\ lineOf(b).tag = b.tag /\ isDramAddress(b) \in BOOLEAN
    BY <2>1 DEF lineOf, Line, isDramAddress
  <2>3. isDramAddress(b) = (lineOf(b).tag \in DramTags)
    BY <2>2 DEF isDramAddress
  <2>4. tmem[isDramAddress(b)][lineOf(b)] = [k \in Beat |-> [s \in Slot |-> Payload(InitVal)]]
    <3>1. tmem = [d \in BOOLEAN |-> [l \in Line |->
                    IF d = (l.tag \in DramTags)
                    THEN [k \in Beat |-> [s \in Slot |-> Payload(InitVal)]] ELSE JunkLine]]
      BY Zenon DEF Init
    <3> QED
      BY <2>2, <2>3, <3>1
  <2>5. tmem[isDramAddress(b)][lineOf(b)][b.row][b.slot] = Payload(InitVal)
    BY <2>1, <2>4
  <2> QED
    BY Zenon, <2>5 DEF Init, InMemory, Holds
<1>7. TagInv
  <2>1. \A b \in ReqBlocks : ~(b.idx < rst_cnt)
    BY <1>4, ParamAssumption DEF Init, Block
  <2> QED
    BY ZenonT(40), <1>6, <2>1 DEF TagInv
<1>8. EvictInv
  <2>1. /\ data_resp.valid = FALSE /\ state = "s_idle" /\ wb_read_cnt = 0 /\ wb_data_cnt = 0
    BY DEF Init
  <2>2. (state \in {"s_data_resp_hit", "s_data_resp_wb", "s_data_resp_wb_done"}) = FALSE
    BY <2>1
  <2> QED
    BY ZenonT(40), <2>1, <2>2 DEF EvictInv
<1>9. WriteBackInv /\ RefillInv /\ GrantInv
  BY Zenon, <1>3 DEF Init, WriteBackInv, RefillInv, GrantInv
<1> QED
  BY Zenon, <1>1, <1>2, <1>5, <1>7, <1>8, <1>9 DEF PathInv

\* No clock cycle breaks an invariant of the paths.
LEMMA StepPath ==
  ASSUME "Put" \notin AcqKinds, TypeOK, ControlInv, WayInv, PathInv, [Next]_vars,
         TypeOK', ControlInv', WayInv'
  PROVE  PathInv'
<1>1. CASE Next
  <2>1. PICK r \in BOOLEAN, v \in BOOLEAN, w \in Ways, m \in Moves : Tick(r, v, w, m)
    BY Zenon, <1>1 DEF Next
  <2>2. Cycle(r, v, w, m)
    BY Zenon, <2>1 DEF Cycle
  <2>3. OwnerInv' /\ BlockInv' /\ CollectInv' /\ ReadInv' /\ LookupInv'
    BY Zenon, <2>2, OwnerKept, BlockKept, CollectKept, ReadKept, LookupKept
  <2>4. TagInv' /\ EvictInv' /\ WriteBackInv' /\ RefillInv' /\ GrantInv'
    BY Zenon, <2>2, TagKept, EvictKept, WriteBackKept, RefillKept, GrantKept
  <2> QED
    BY Zenon, <2>3, <2>4 DEF PathInv
<1>2. CASE UNCHANGED vars
  <2> USE <1>2 DEF vars, reqVars, rdVars, colVars, fsmVars, wbVars, rfVars, gntVars, arrVars,
          memVars, l2Vars
  <2>1. OwnerInv' /\ BlockInv' /\ CollectInv' /\ ReadInv'
    BY Zenon DEF PathInv, OwnerInv, BlockInv, CollectInv, ReadInv, Serves, Unacked, Payload
  <2>2. LookupInv' /\ EvictInv'
    BY Zenon DEF PathInv, LookupInv, EvictInv, WaysOf
  <2>3. /\ \A b : WaysOf(b)' = WaysOf(b) /\ TagsOf(b)' = TagsOf(b) /\ (InMemory(b)' <=> InMemory(b))
        /\ \A b, row : Holds(b, row)' <=> Holds(b, row)
        /\ \A b, x, ss : Replaced(b, x, ss)' <=> Replaced(b, x, ss)
    BY Zenon DEF WaysOf, Replaced, TagsOf, Merged, Unacked, Serves, InMemory, Holds, Payload,
           isDramAddress, lineOf
  <2>4. TagInv'
    BY Zenon, <2>3 DEF PathInv, TagInv
  <2>5. WriteBackInv' /\ RefillInv' /\ GrantInv'
    BY ZenonT(40), <2>3 DEF PathInv, WriteBackInv, RefillInv, GrantInv, Victims, LineBlocks, Holds
  <2> QED
    BY ZenonT(40), <2>1, <2>2, <2>4, <2>5 DEF PathInv
<1> QED
  BY Zenon, <1>1, <1>2

\* In particular between requests.
LEMMA PathCoherent ==
  ASSUME TypeOK, PathInv
  PROVE  Coherent
<1> SUFFICES ASSUME state = "s_idle", ~rst, NEW b \in ReqBlocks
             PROVE  dmem[b] = Payload(golden[b]) /\ CurrentTags(b) = Payload(golden[b])
  BY Zenon DEF Coherent
<1>1. dmem[b] = Payload(golden[b])
  BY Zenon DEF PathInv, BlockInv, Unacked, Serves
<1>2. b.idx < rst_cnt
  BY ParamAssumption DEF TypeOK, ArraysOK, rst, Block, Sets
<1>3. TagsOf(b) = Payload(golden[b])
  BY Zenon DEF TagsOf, Merged, Unacked, Serves
<1>4. \A x \in WaysOf(b) : dataArray[x][b.idx][b.row][b.slot] = Payload(golden[b])
  BY Zenon, <1>2, <1>3 DEF PathInv, TagInv, Replaced, Refilling
<1>5. WaysOf(b) = {} => InMemory(b)
  BY Zenon DEF PathInv, TagInv
<1>6. CASE WaysOf(b) = {}
  BY Zenon, <1>1, <1>5, <1>6 DEF CurrentTags, InMemory, Holds
<1>7. CASE WaysOf(b) # {}
  <2>1. (CHOOSE x \in WaysOf(b) : TRUE) \in WaysOf(b)
    BY Zenon, <1>7
  <2> QED
    BY Zenon, <1>1, <1>4, <1>7, <2>1 DEF CurrentTags
<1> QED
  BY Zenon, <1>6, <1>7

\* Every buffer on a word's way through the tracker holds what it should.
THEOREM PathsStayRight ==
  ASSUME "Put" \notin AcqKinds PROVE Spec => []PathInv
<1>1. TypeOK /\ ControlInv /\ WayInv /\ PathInv /\ [Next]_vars
        /\ TypeOK' /\ ControlInv' /\ WayInv' => PathInv'
  BY Zenon, StepPath
<1>2. Spec => []ControlInv
  BY ControlCorrect
<1> QED
  BY InitPath, TypeCorrect, WaysStayRight, <1>1, <1>2, PTL DEF Spec

\* Between requests the data and the tags of every block are those of its last
\* acknowledged write: neither the hit, the refill nor the write-back path loses an
\* update or applies it to another block, for any geometry of the cache.
THEOREM TagsStayCoherent ==
  ASSUME "Put" \notin AcqKinds PROVE Spec => []Coherent
<1>1. TypeOK /\ PathInv => Coherent
  BY Zenon, PathCoherent
<1>2. Spec => []PathInv
  BY PathsStayRight
<1> QED
  BY TypeCorrect, <1>1, <1>2, PTL

-----------------------------------------------------------------------------
(* The tag cache implements a tagged memory.                               *)

\* The requests that a move opens are for blocks without an open request, and for
\* different blocks.
LEMMA MoveOpens ==
  ASSUME L2OK, NEW m \in Moves, NEW j \in Xacts, cl[j].st = "idle", m[j].st # "idle"
  PROVE  /\ m[j].blk \notin InFlight
         /\ \A k \in Xacts \ {j} : cl[k].st = "idle" /\ m[k].st # "idle" => m[k].blk # m[j].blk
<1>0. cl = [i \in Xacts |-> cl[i]]
  BY Zenon DEF L2OK
<1>1. CASE m = cl
  BY Zenon, <1>1
<1>2. ASSUME NEW p \in Ids \X AcqKinds \X (ReqBlocks \ InFlight) \X Vals,
             m = [cl EXCEPT ![p[1]] = Message(p[1], "outer", p[2], p[3], p[4])]
      PROVE  /\ m[j].blk \notin InFlight
             /\ \A k \in Xacts \ {j} : cl[k].st = "idle" /\ m[k].st # "idle" =>
                                         m[k].blk # m[j].blk
  <2>1. \A k \in Xacts : k # p[1] => m[k] = cl[k]
    BY Zenon, <1>0, <1>2
  <2>2. j = p[1]
    BY Zenon, <2>1
  <2>3. m[j] = Message(p[1], "outer", p[2], p[3], p[4])
    BY Zenon, <1>0, <1>2, <2>2
  <2>4. m[j].blk = p[3] /\ p[3] \notin InFlight
    <3>1. p[3] \in ReqBlocks \ InFlight
      BY <1>2
    <3>2. Message(p[1], "outer", p[2], p[3], p[4]).blk = p[3]
      BY Zenon DEF Message, IdleCl
    <3> QED
      BY ZenonT(40), <2>3, <3>1, <3>2
  <2> QED
    BY Zenon, <2>1, <2>2, <2>4
<1>3. ASSUME NEW p \in Ids \X (ReqBlocks \ InFlight) \X (ReqBlocks \ InFlight) \X Vals,
             p[2] # p[3],
             m = [cl EXCEPT ![p[1]] = Message(p[1], "wb", "Get", p[2], InitVal),
                            ![Wb] = Message(Wb, "outer", "Rel", p[3], p[4])]
      PROVE  /\ m[j].blk \notin InFlight
             /\ \A k \in Xacts \ {j} : cl[k].st = "idle" /\ m[k].st # "idle" =>
                                         m[k].blk # m[j].blk
  <2>1. \A k \in Xacts : k # p[1] /\ k # Wb => m[k] = cl[k]
    BY Zenon, <1>0, <1>3
  <2>2. p[1] # Wb /\ p[1] \in Xacts /\ Wb \in Xacts /\ p[2] \notin InFlight /\ p[3] \notin InFlight
    <3>1. p[1] \in Ids /\ p[2] \in ReqBlocks \ InFlight /\ p[3] \in ReqBlocks \ InFlight
      BY <1>3
    <3> QED
      BY Zenon, <3>1, ParamAssumption DEF Xacts
  <2>3. m[p[1]] = Message(p[1], "wb", "Get", p[2], InitVal)
    BY Zenon, <1>0, <1>3, <2>2
  <2>4. m[Wb] = Message(Wb, "outer", "Rel", p[3], p[4])
    BY Zenon, <1>0, <1>3, <2>2
  <2>5. m[p[1]].blk = p[2] /\ m[Wb].blk = p[3]
    <3>1. Message(p[1], "wb", "Get", p[2], InitVal).blk = p[2]
      BY Zenon DEF Message, IdleCl
    <3>2. Message(Wb, "outer", "Rel", p[3], p[4]).blk = p[3]
      BY Zenon DEF Message, IdleCl
    <3> QED
      BY Zenon, <2>3, <2>4, <3>1, <3>2
  <2> QED
    BY ZenonT(40), <1>3, <2>1, <2>2, <2>5
<1>4. ASSUME NEW i \in Xacts, cl[i].st = "outer", m = [cl EXCEPT ![i].avail = @ + 1]
      PROVE  FALSE
  BY Zenon, <1>0, <1>4
<1> QED
  BY Zenon, <1>1, <1>2, <1>3, <1>4 DEF Moves

\* A transactor keeps its request, completes it, or opens one.
LEMMA RequestStep ==
  ASSUME NEW r, NEW v, NEW w, NEW m, Cycle(r, v, w, m), NEW j \in Xacts
  PROVE  /\ cl[j].st # "idle" => (cl'[j].st = "idle" <=> grant_last /\ j = tag_out)
         /\ cl[j].st = "idle" => cl'[j] = m[j] /\ ~(grant_last /\ j = tag_out)
         /\ cl[j].st = "idle" /\ cl'[j].st # "idle" =>
              \A k \in Xacts \ {j} : /\ cl[k].st # "idle" => cl[k].blk # cl'[j].blk
                                     /\ cl'[k].st # "idle" => cl'[k].blk # cl'[j].blk
<1>0. /\ L2OK /\ TypeOK /\ L2Inv /\ m \in Moves /\ Transactors(r, m) /\ "Put" \notin AcqKinds
      /\ cl[j] \in Client
  BY Zenon DEF Cycle, Tick, TypeOK, L2OK, ControlInv
<1>1. ASSUME cl[j].st # "idle" PROVE cl'[j].st = "idle" <=> grant_last /\ j = tag_out
  <2>1. grant_last /\ j = tag_out => cl[j].st = "busy"
    BY Zenon DEF grant_last, tl_grant_fire, tl_grant_ready
  <2>2. CASE cl[j].st = "busy"
    BY Zenon, <1>0, <2>2, ClientStep
  <2>3. CASE cl[j].st = "outer"
    <3>1. CASE fired(j, r)
      <4>1. cl'[j] = Sent(cl[j])
        BY ZenonT(40), <1>0, <3>1, ClientStep
      <4>2. cl'[j].st # "idle"
        BY Zenon, <1>0, <2>3, <4>1 DEF Sent, Client
      <4> QED
        BY Zenon, <2>1, <2>3, <4>2
    <3>2. CASE ~fired(j, r)
      BY Zenon, <1>0, <2>1, <2>3, <3>2, ClientStep
    <3> QED
      BY Zenon, <3>1, <3>2
  <2>4. CASE cl[j].st = "wb"
    <3>1. ~fired(j, r) /\ ~(tl_grant_fire /\ j = tag_out)
      BY Zenon, <1>0, <2>4, FiredSends DEF tl_grant_fire, tl_grant_ready
    <3>2. cl'[j] = [cl[j] EXCEPT !.st = "outer"] \/ cl'[j] = cl[j]
      BY Zenon, <1>0, <2>4, <3>1, TransactorStep DEF fired, Starts, Fetches
    <3>3. cl'[j].st # "idle"
      BY Zenon, <1>0, <2>4, <3>2 DEF Client
    <3> QED
      BY Zenon, <2>1, <2>4, <3>3
  <2>5. cl[j].st \in {"idle", "wb", "outer", "busy"}
    BY Zenon, <1>0 DEF Client
  <2> QED
    BY ZenonT(40), <1>1, <2>2, <2>3, <2>4, <2>5
<1>2. ASSUME NEW k \in Xacts, cl[k].st = "idle" PROVE cl'[k] = m[k] /\ ~(tl_grant_fire /\ k = tag_out)
  <2>1. ~fired(k, r) /\ ~(tl_grant_fire /\ k = tag_out)
    BY Zenon, <1>0, <1>2, FiredSends DEF tl_grant_fire, tl_grant_ready
  <2> QED
    BY Zenon, <1>0, <1>2, <2>1 DEF Transactors, fired
<1>3. ASSUME cl[j].st = "idle", cl'[j].st # "idle", NEW k \in Xacts \ {j}
      PROVE  /\ cl[k].st # "idle" => cl[k].blk # cl'[j].blk
             /\ cl'[k].st # "idle" => cl'[k].blk # cl'[j].blk
  <2>0. cl'[j] = m[j] /\ m[j].st # "idle"
    BY Zenon, <1>2, <1>3
  <2>1. /\ cl'[j].blk \notin InFlight
        /\ \A i \in Xacts \ {j} : cl[i].st = "idle" /\ m[i].st # "idle" => m[i].blk # cl'[j].blk
    BY Zenon, <1>0, <1>3, <2>0, MoveOpens
  <2>2. cl[k].st # "idle" => cl[k].blk # cl'[j].blk
    BY Zenon, <1>3, <2>1 DEF InFlight
  <2>3. CASE cl[k].st = "idle"
    BY Zenon, <1>2, <1>3, <2>1, <2>2, <2>3
  <2>4. CASE cl[k].st # "idle"
    BY Zenon, <1>3, <2>2, <2>4, RequestKept
  <2> QED
    BY Zenon, <2>2, <2>3, <2>4
<1> QED
  BY Zenon, <1>1, <1>2, <1>3 DEF grant_last

\* A cycle completes the request of the transactor that gets its last beat, and
\* opens what the transactors ask for.
LEMMA RefinedCycle ==
  ASSUME NEW r, NEW v, NEW w, NEW m, Cycle(r, v, w, m)
  PROVE  TM!Next
<1> DEFINE Req(i) == [kind |-> cl[i].kind, blk |-> cl[i].blk, val |-> cl[i].val]
           pend == [i \in Xacts |-> IF cl[i].st = "idle" THEN NoId ELSE Req(i)]
<1>0. /\ cl \in [Xacts -> Client] /\ cl' \in [Xacts -> Client] /\ TypeOK /\ PathInv /\ ControlInv
      /\ Completion /\ L2Inv /\ gnt_data_cnt \in Beat /\ tag_out \in Xacts
  BY ZenonT(40) DEF Cycle, Tick, TypeOK, L2OK, ControlInv, CountersOK, TrackerOK
<1>1. ASSUME NEW i \in Xacts
      PROVE  /\ cl[i].st = "idle" => pend[i] = NoId
             /\ cl[i].st # "idle" => pend[i] = Req(i) /\ pend[i] # NoId
             /\ cl'[i].st = "idle" => pend'[i] = NoId
             /\ cl'[i].st # "idle" => /\ pend'[i] = Req(i)' /\ pend'[i] # NoId
                                      /\ pend'[i] \in TM!Requests
  <2>1. cl[i] \in Client /\ cl'[i] \in Client
    BY ZenonT(40), <1>0
  <2>2. Req(i) # NoId
    <3>1. /\ cl[i].kind \in {"Get", "Put", "Rel"}
          /\ cl[i].blk \in ReqBlocks /\ cl[i].val \in Vals
      BY <2>1 DEF Client
    <3>2. Req(i) \in [kind : {"Get", "Put", "Rel"}, blk : ReqBlocks, val : Vals]
      BY <3>1
    <3> QED
      BY Zenon, <3>2, NoRequest
  <2>3. Req(i)' # NoId /\ Req(i)' \in TM!Requests
    <3>1. /\ cl'[i].kind \in {"Get", "Put", "Rel"}
          /\ cl'[i].blk \in ReqBlocks /\ cl'[i].val \in Vals
      BY <2>1 DEF Client
    <3>2. Req(i)' \in [kind : {"Get", "Put", "Rel"}, blk : ReqBlocks, val : Vals]
      BY <3>1
    <3> QED
      BY Zenon, <3>2, NoRequest DEF TM!Requests
  <2>4. Req(i)' = [kind |-> cl'[i].kind, blk |-> cl'[i].blk, val |-> cl'[i].val]
    OBVIOUS
  <2> QED
    BY Zenon, <2>2, <2>3
<1>2. ASSUME NEW i \in Xacts
      PROVE  Req(i).kind = cl[i].kind /\ Req(i).blk = cl[i].blk /\ Req(i).val = cl[i].val
             /\ (Req(i)').blk = cl'[i].blk
  OBVIOUS
<1>3. \A j \in Xacts : TM!Opens(j) <=>
         /\ pend[j] = NoId /\ pend'[j] \in TM!Requests
         /\ \A k \in Xacts \ {j} : /\ pend[k] # NoId => pend[k].blk # pend'[j].blk
                                   /\ pend'[k] # NoId => pend'[k].blk # pend'[j].blk
  BY Zenon DEF TM!Opens
<1>4. TM!Next <=>
        \/ \E i \in Xacts : /\ TM!Completes(i)
                            /\ \A j \in Xacts \ {i} : pend'[j] = pend[j] \/ TM!Opens(j)
        \/ /\ done' = NoId /\ golden' = golden
           /\ \A j \in Xacts : pend'[j] = pend[j] \/ TM!Opens(j)
  BY Zenon DEF TM!Next
<1>5. ASSUME NEW i \in Xacts, pend[i] # NoId, pend'[i] = NoId
      PROVE  /\ /\ pend[i].kind = "Get" /\ golden' = golden
                /\ done' = [id |-> i, blk |-> pend[i].blk, ret |-> TM!Tagged(golden[pend[i].blk])]
                => TM!Completes(i)
             /\ /\ pend[i].kind # "Get"
                /\ golden' = [golden EXCEPT ![pend[i].blk] = pend[i].val]
                /\ done' = [id |-> i, blk |-> pend[i].blk]
                => TM!Completes(i)
  BY Zenon, <1>5 DEF TM!Completes
<1>6. ASSUME NEW j \in Xacts, cl[j].st # "idle", cl'[j].st # "idle" PROVE pend'[j] = pend[j]
  <2>1. Req(j)' = Req(j)
    BY Zenon, <1>6, RequestKept
  <2> QED
    BY ZenonT(40), <1>1, <1>6, <2>1
<1> HIDE DEF Req, pend
<1>7. ASSUME NEW j \in Xacts, ~(grant_last /\ j = tag_out) PROVE pend'[j] = pend[j] \/ TM!Opens(j)
  <2>1. CASE cl[j].st # "idle"
    BY Zenon, <1>6, <1>7, <2>1, RequestStep
  <2>2. CASE cl[j].st = "idle" /\ cl'[j].st = "idle"
    BY Zenon, <1>1, <2>2
  <2>3. CASE cl[j].st = "idle" /\ cl'[j].st # "idle"
    <3>1. pend[j] = NoId /\ pend'[j] \in TM!Requests /\ pend'[j] = Req(j)'
      BY Zenon, <1>1, <2>3
    <3>2. ASSUME NEW k \in Xacts \ {j}
          PROVE  /\ pend[k] # NoId => pend[k].blk # pend'[j].blk
                 /\ pend'[k] # NoId => pend'[k].blk # pend'[j].blk
      <4>1. /\ cl[k].st # "idle" => cl[k].blk # cl'[j].blk
            /\ cl'[k].st # "idle" => cl'[k].blk # cl'[j].blk
        BY Zenon, <2>3, RequestStep
      <4>2. pend[k] # NoId => cl[k].st # "idle" /\ pend[k].blk = cl[k].blk
        BY Zenon, <1>1, <1>2
      <4>3. pend'[k] # NoId => cl'[k].st # "idle" /\ pend'[k].blk = cl'[k].blk
        BY Zenon, <1>1, <1>2
      <4>4. pend'[j].blk = cl'[j].blk
        BY Zenon, <1>2, <3>1
      <4> QED
        BY Zenon, <4>1, <4>2, <4>3, <4>4
    <3> QED
      BY ZenonT(40), <1>3, <3>1, <3>2
  <2> QED
    BY Zenon, <2>1, <2>2, <2>3
<1>8. CASE ~grant_last
  <2>1. done' = NoId /\ golden' = golden
    BY Zenon, <1>0, <1>8 DEF Completion
  <2> QED
    BY Zenon, <1>4, <1>7, <1>8, <2>1
<1>9. CASE grant_last
  <2>0. PICK i \in Xacts : i = tag_out
    BY Zenon, <1>0
  <2>1. gnt_enable /\ cl[tag_out].st = "busy" /\ (is_write_process \/ gnt_data_cnt = Beats - 1)
    BY Zenon, <1>9 DEF grant_last, tl_grant_fire, tl_grant_ready, gnt_data_done
  <2>2. cl[tag_out].blk = addr_out /\ (is_write_process <=> tag_out = Wb)
    <3>1. Serves
      BY Zenon, <2>1, ServesStep DEF Serves
    <3> QED
      BY Zenon, <1>0, <3>1, OwnerWaits
  <2>3. /\ pend[tag_out] = Req(tag_out) /\ pend[tag_out] # NoId /\ pend'[tag_out] = NoId
        /\ pend[tag_out].kind = cl[tag_out].kind /\ pend[tag_out].blk = cl[tag_out].blk
        /\ pend[tag_out].val = cl[tag_out].val
    <3>1. cl'[tag_out].st = "idle"
      BY Zenon, <1>0, <1>9, <2>1, RequestStep
    <3> QED
      BY Zenon, <1>0, <1>1, <1>2, <2>1, <3>1
  <2>4. cl[tag_out].kind = "Get" <=> ~is_write_process
    BY Zenon, <1>0, <2>2 DEF L2Inv, Xacts
  <2>5. /\ /\ pend[i].kind = "Get" /\ golden' = golden
           /\ done' = [id |-> i, blk |-> pend[i].blk, ret |-> TM!Tagged(golden[pend[i].blk])]
           => TM!Completes(i)
        /\ /\ pend[i].kind # "Get"
           /\ golden' = [golden EXCEPT ![pend[i].blk] = pend[i].val]
           /\ done' = [id |-> i, blk |-> pend[i].blk]
           => TM!Completes(i)
    <3>1. pend[i] # NoId /\ pend'[i] = NoId
      BY Zenon, <2>0, <2>3
    <3> QED
      BY Zenon, <1>5, <3>1
  <2>6. ASSUME is_write_process PROVE TM!Completes(i)
    <3>1. /\ golden' = [golden EXCEPT ![cl[tag_out].blk] = cl[tag_out].val]
          /\ done' = [id |-> tag_out, blk |-> cl[tag_out].blk]
      BY Zenon, <1>0, <1>9, <2>6 DEF Completion
    <3>2. pend[tag_out].kind # "Get"
      BY Zenon, <2>3, <2>4, <2>6
    <3>3. /\ golden' = [golden EXCEPT ![pend[tag_out].blk] = pend[tag_out].val]
          /\ done' = [id |-> tag_out, blk |-> pend[tag_out].blk]
      BY Zenon, <2>3, <3>1
    <3> QED
      BY Zenon, <2>0, <2>5, <3>2, <3>3
  <2>7. ASSUME ~is_write_process PROVE TM!Completes(i)
    <3>1. /\ golden' = golden
          /\ done' = [id |-> tag_out, blk |-> cl[tag_out].blk,
                      ret |-> [cl[tag_out].buf EXCEPT ![gnt_data_cnt] = gnt_data[gnt_data_cnt]]]
      BY Zenon, <1>0, <1>9, <2>7 DEF Completion
    <3>2. cl[tag_out].buf \in [Beat -> Cell \X Cell]
      BY <1>0 DEF Client
    <3>3. ASSUME NEW k \in Beat
          PROVE  [cl[tag_out].buf EXCEPT ![gnt_data_cnt] = gnt_data[gnt_data_cnt]][k]
                   = <<<<golden[addr_out], k>>, <<golden[addr_out], k>>>>
      <4>1. /\ gnt_data[k] = <<<<golden[addr_out], k>>, <<golden[addr_out], k>>>>
            /\ k < gnt_data_cnt =>
                 cl[tag_out].buf[k] = <<<<golden[addr_out], k>>, <<golden[addr_out], k>>>>
        BY Zenon, <1>0, <2>1, <2>7, <3>3 DEF PathInv, GrantInv
      <4>2. k < gnt_data_cnt \/ k = gnt_data_cnt
        BY <2>1, <2>7, <3>3, ParamAssumption DEF Beat
      <4> QED
        BY Zenon, <1>0, <3>2, <4>1, <4>2
    <3>4. [cl[tag_out].buf EXCEPT ![gnt_data_cnt] = gnt_data[gnt_data_cnt]]
            = TM!Tagged(golden[addr_out])
      BY Zenon, <3>2, <3>3 DEF TM!Tagged
    <3>5. pend[tag_out].kind = "Get"
      BY Zenon, <2>3, <2>4, <2>7
    <3>6. done' = [id |-> tag_out, blk |-> pend[tag_out].blk,
                   ret |-> TM!Tagged(golden[pend[tag_out].blk])]
      BY Zenon, <2>2, <2>3, <3>1, <3>4
    <3> QED
      BY Zenon, <2>0, <2>5, <3>1, <3>5, <3>6
  <2>8. \A j \in Xacts \ {i} : pend'[j] = pend[j] \/ TM!Opens(j)
    BY Zenon, <1>7, <2>0
  <2>9. TM!Completes(i)
    BY Zenon, <2>6, <2>7
  <2> QED
    BY Zenon, <1>4, <2>8, <2>9
<1> QED
  BY ZenonT(40), <1>8, <1>9

\* The tag cache, its arrays and the memory implement a tagged memory: every read
\* returns the data and the tags of the last acknowledged write in every beat.
THEOREM CacheIsTaggedMemory ==
  ASSUME "Put" \notin AcqKinds PROVE Spec => ImplementsTaggedMemory
<1> DEFINE Req(i) == [kind |-> cl[i].kind, blk |-> cl[i].blk, val |-> cl[i].val]
           pend == [i \in Xacts |-> IF cl[i].st = "idle" THEN NoId ELSE Req(i)]
<1>1. Init => TM!Init
  <2> SUFFICES ASSUME Init PROVE TM!Init
    OBVIOUS
  <2>1. golden = [b \in ReqBlocks |-> InitVal] /\ done = NoId /\ cl = [i \in Xacts |-> IdleCl(i)]
    BY Zenon DEF Init
  <2>2. \A i \in Xacts : cl[i].st = "idle"
    BY <2>1 DEF IdleCl
  <2>3. pend = [i \in Xacts |-> NoId]
    BY <2>2
  <2> QED
    BY Zenon, <2>1, <2>3 DEF TM!Init
<1>2. TypeOK /\ ControlInv /\ WayInv /\ PathInv /\ [Next]_vars /\ TypeOK' /\ ControlInv' /\ WayInv'
        => [TM!Next]_<<golden, pend, done>>
  <2> SUFFICES ASSUME TypeOK, ControlInv, WayInv, PathInv, [Next]_vars, TypeOK', ControlInv', WayInv'
               PROVE  [TM!Next]_<<golden, pend, done>>
    OBVIOUS
  <2>1. CASE Next
    <3>1. PICK r \in BOOLEAN, v \in BOOLEAN, w \in Ways, m \in Moves : Tick(r, v, w, m)
      BY Zenon, <2>1 DEF Next
    <3>2. Cycle(r, v, w, m)
      BY Zenon, <3>1 DEF Cycle
    <3>3. TM!Next
      BY Zenon, <3>2, RefinedCycle
    <3> QED
      BY <3>3
  <2>2. CASE UNCHANGED vars
    <3>1. golden' = golden /\ done' = done /\ cl' = cl
      BY Zenon, <2>2 DEF vars, l2Vars
    <3> QED
      BY <3>1
  <2> QED
    BY Zenon, <2>1, <2>2
<1>3. Spec => []ControlInv
  BY ControlCorrect
<1>4. Spec => []PathInv
  BY PathsStayRight
<1> QED
  BY TypeCorrect, WaysStayRight, <1>1, <1>2, <1>3, <1>4, PTL DEF Spec, ImplementsTaggedMemory, TM!Spec
=============================================================================
