--------------------------- MODULE TagCacheEvict ----------------------------
(***************************************************************************)
(* The tags of a block at rest, in the data array and in the tag           *)
(* partition, and the victim on its way from the one to the other.         *)
(***************************************************************************)
EXTENDS TagCacheControl

\* Every row of the data array after a cycle: only the chosen way changes, by the
\* merge of the collected tags or by a row of the refill.
LEMMA DataStep ==
  ASSUME NEW r, NEW v, NEW w, NEW m, Cycle(r, v, w, m), NEW x \in Ways
  PROVE  /\ x \notin acq_way_en => dataArray'[x] = dataArray[x]
         /\ \A s \in Sets : s # addr_out.idx => dataArray'[x][s] = dataArray[x][s]
         /\ state \notin {"s_data_write_hit", "s_data_write_refill"} =>
              dataArray'[x] = dataArray[x]
         /\ state = "s_data_write_hit" /\ collect_acq_data => dataArray'[x] = dataArray[x]
         /\ x \in acq_way_en /\ state = "s_data_write_hit" /\ ~collect_acq_data =>
              /\ dataArray'[x][addr_out.idx][addr_out.row][addr_out.slot] = acq_data
              /\ \A k \in Beat, s \in Slot : k # addr_out.row \/ s # addr_out.slot =>
                   dataArray'[x][addr_out.idx][k][s] = dataArray[x][addr_out.idx][k][s]
         /\ x \in acq_way_en /\ state = "s_data_write_refill" =>
              /\ dataArray'[x][addr_out.idx][refill_data_cnt] = refill_data[refill_data_cnt]
              /\ \A k \in Beat : k # refill_data_cnt =>
                   dataArray'[x][addr_out.idx][k] = dataArray[x][addr_out.idx][k]
<1>0. /\ DataArray /\ dataArray[x] \in [Sets -> [Beat -> Row]] /\ refill_data_cnt \in Beat
      /\ addr_out.idx \in Sets /\ addr_out.row \in Beat /\ addr_out.slot \in Slot
  BY Zenon, ParamAssumption DEF Cycle, Tick, TypeOK, ArraysOK, TrackerOK, CountersOK, Block
<1>1. /\ x \notin acq_way_en => dataArray'[x] = dataArray[x]
      /\ x \in acq_way_en /\ data_write_hit =>
           dataArray'[x] = [dataArray[x] EXCEPT ![addr_out.idx][addr_out.row][addr_out.slot]
                                                 = acq_data]
      /\ x \in acq_way_en /\ ~data_write_hit /\ state = "s_data_write_refill" =>
           dataArray'[x] = [dataArray[x] EXCEPT ![addr_out.idx][refill_data_cnt]
                                                 = refill_data[refill_data_cnt]]
      /\ ~data_write_hit /\ state # "s_data_write_refill" => dataArray'[x] = dataArray[x]
  BY Zenon, <1>0 DEF DataArray
<1>2. CASE x \in acq_way_en /\ data_write_hit
  <2>1. dataArray'[x] = [dataArray[x] EXCEPT ![addr_out.idx][addr_out.row][addr_out.slot]
                                               = acq_data]
    BY ZenonT(40), <1>1, <1>2
  <2>2. /\ dataArray'[x][addr_out.idx][addr_out.row][addr_out.slot] = acq_data
        /\ \A s \in Sets : s # addr_out.idx => dataArray'[x][s] = dataArray[x][s]
        /\ \A k \in Beat, s \in Slot : k # addr_out.row \/ s # addr_out.slot =>
             dataArray'[x][addr_out.idx][k][s] = dataArray[x][addr_out.idx][k][s]
    <3> DEFINE A == dataArray[x]  i == addr_out.idx  n == addr_out.row
               row == [A[i][n] EXCEPT ![addr_out.slot] = acq_data]
               line == [A[i] EXCEPT ![n] = row]
    <3>1. dataArray'[x] = [A EXCEPT ![i] = line]
      BY Zenon, <2>1
    <3>2. A \in [Sets -> [Beat -> Row]] /\ i \in Sets /\ n \in Beat /\ A[i] \in [Beat -> Row]
          /\ A[i][n] \in Row
      BY Zenon, <1>0
    <3>3. /\ row[addr_out.slot] = acq_data
          /\ \A s \in Slot : s # addr_out.slot => row[s] = A[i][n][s]
      BY Zenon, <1>0, <3>2 DEF Row
    <3> HIDE DEF row
    <3>4. line[n] = row /\ \A k \in Beat : k # n => line[k] = A[i][k]
      BY Zenon, <3>2
    <3> HIDE DEF line
    <3>5. dataArray'[x][i] = line /\ \A s \in Sets : s # i => dataArray'[x][s] = A[s]
      BY Zenon, <3>1, <3>2
    <3> QED
      BY Zenon, <3>3, <3>4, <3>5
  <2> QED
    BY Zenon, <1>2, <2>2 DEF data_write_hit
<1>3. CASE x \in acq_way_en /\ state = "s_data_write_refill"
  <2>1. dataArray'[x] = [dataArray[x] EXCEPT ![addr_out.idx][refill_data_cnt]
                                               = refill_data[refill_data_cnt]]
    BY Zenon, <1>1, <1>3 DEF data_write_hit
  <2>2. /\ dataArray'[x][addr_out.idx][refill_data_cnt] = refill_data[refill_data_cnt]
        /\ \A s \in Sets : s # addr_out.idx => dataArray'[x][s] = dataArray[x][s]
        /\ \A k \in Beat : k # refill_data_cnt =>
             dataArray'[x][addr_out.idx][k] = dataArray[x][addr_out.idx][k]
    BY <1>0, <2>1
  <2> QED
    BY Zenon, <1>3, <2>2
<1>4. CASE x \notin acq_way_en \/ (~data_write_hit /\ state # "s_data_write_refill")
  BY Zenon, <1>1, <1>4 DEF data_write_hit
<1> QED
  BY Zenon, <1>2, <1>3, <1>4

\* Which ways hold the line of a block after a cycle.
LEMMA WaysStep ==
  ASSUME NEW r, NEW v, NEW w, NEW m, Cycle(r, v, w, m), NEW b \in ReqBlocks
  PROVE  /\ rst /\ b.idx = rst_cnt => WaysOf(b)' = {}
         /\ rst /\ b.idx # rst_cnt => metaArray'[b.idx] = metaArray[b.idx]
         /\ ~rst /\ state # "s_meta_write_refill" => WaysOf(b)' = WaysOf(b)
         /\ ~rst /\ state = "s_meta_write_refill" =>
              /\ \A x \in WaysOf(b)' :
                   IF x \in acq_way_en /\ b.idx = addr_out.idx THEN lineOf(b) = lineOf(addr_out)
                   ELSE x \in WaysOf(b)
              /\ \A x \in WaysOf(b) : ~(x \in acq_way_en /\ b.idx = addr_out.idx) =>
                   x \in WaysOf(b)' /\ metaArray'[b.idx][x] = metaArray[b.idx][x]
<1>0. b.idx \in Sets /\ LookupInv /\ acq_way_en \subseteq Ways
  BY Zenon, ParamAssumption DEF Block, Cycle, PathInv, TypeOK, ArraysOK
<1>1. CASE rst
  BY Zenon, <1>0, <1>1, MetaStep DEF WaysOf
<1>2. CASE ~rst /\ state \notin {"s_meta_write_refill", "s_meta_write_hit"}
  BY Zenon, <1>2, MetaStep DEF WaysOf
<1>3. ASSUME ~rst, state \in {"s_meta_write_refill", "s_meta_write_hit"}, NEW x \in Ways
      PROVE  IF x \in acq_way_en /\ b.idx = addr_out.idx
             THEN metaArray'[b.idx][x].valid /\ metaArray'[b.idx][x].tag = addr_out.tag
             ELSE metaArray'[b.idx][x] = metaArray[b.idx][x]
  <2>1. CASE x \in acq_way_en /\ b.idx = addr_out.idx
    <3>1. metaArray'[b.idx][x] = addrToTag(addr_out, state = "s_meta_write_hit")
      BY Zenon, <1>3, <2>1, MetaStep
    <3>2. metaArray'[b.idx][x].valid /\ metaArray'[b.idx][x].tag = addr_out.tag
      BY <3>1, MetaWord
    <3> QED
      BY Zenon, <2>1, <3>2
  <2>2. CASE ~(x \in acq_way_en /\ b.idx = addr_out.idx)
    BY Zenon, <1>0, <1>3, <2>2, MetaStep
  <2> QED
    BY Zenon, <2>1, <2>2
<1>4. CASE ~rst /\ state = "s_meta_write_hit"
  <2>1. \A x \in acq_way_en : /\ metaArray[addr_out.idx][x].valid
                              /\ metaArray[addr_out.idx][x].tag = addr_out.tag
    BY Zenon, <1>0, <1>4 DEF LookupInv, Serving, WaysOf
  <2>2. \A x \in Ways : /\ metaArray'[b.idx][x].valid <=> metaArray[b.idx][x].valid
                        /\ metaArray'[b.idx][x].tag = metaArray[b.idx][x].tag
    BY Zenon, <1>3, <1>4, <2>1
  <2> QED
    BY Zenon, <1>4, <2>2 DEF WaysOf
<1>5. CASE ~rst /\ state = "s_meta_write_refill"
  <2>1. \A x \in WaysOf(b)' :
          IF x \in acq_way_en /\ b.idx = addr_out.idx THEN b.tag = addr_out.tag
          ELSE x \in WaysOf(b)
    BY Zenon, <1>3, <1>5 DEF WaysOf
  <2>2. \A x \in WaysOf(b) : ~(x \in acq_way_en /\ b.idx = addr_out.idx) =>
          x \in WaysOf(b)' /\ metaArray'[b.idx][x] = metaArray[b.idx][x]
    BY Zenon, <1>3, <1>5 DEF WaysOf
  <2> QED
    BY Zenon, <1>5, <2>1, <2>2 DEF lineOf
<1> QED
  BY Zenon, <1>1, <1>2, <1>4, <1>5

\* The tags a block should have change only when a write is merged: its
\* acknowledgement makes the merged tags the acknowledged ones.
LEMMA TagsStep ==
  ASSUME NEW r, NEW v, NEW w, NEW m, Cycle(r, v, w, m), NEW b \in ReqBlocks
  PROVE  /\ ~data_write_hit \/ b # addr_out => TagsOf(b)' = TagsOf(b)
         /\ data_write_hit /\ b = addr_out => TagsOf(b)' = acq_data
         /\ state \notin {"s_data_write_hit", "s_meta_write_hit", "s_gnt", "s_busy"} =>
              TagsOf(b) = Payload(golden[b])
<1>0. /\ TypeOK /\ PathInv /\ LookupInv /\ CollectInv /\ acq_data \in Entry
      /\ addr_out \in ReqBlocks /\ is_write_process \in BOOLEAN
  BY Zenon DEF Cycle, PathInv, TypeOK, BuffersOK, TrackerOK
<1>1. ASSUME Merged' PROVE data_write_hit \/ Merged
  <2>1. state' \in {"s_meta_write_hit", "s_gnt", "s_busy"} /\ Unacked'
    BY Zenon, <1>1 DEF Merged
  <2>2. state \in {"s_data_write_hit", "s_data_resp_hit", "s_meta_write_hit", "s_gnt", "s_busy"}
        /\ (state = "s_data_write_hit" => ~collect_acq_data)
    BY Zenon, <2>1, Predecessors
  <2>3. Unacked
    BY Zenon, <2>1, <2>2, UnackedStep
  <2> QED
    BY Zenon, <1>0, <2>2, <2>3 DEF Merged, data_write_hit, Unacked, LookupInv
<1>2. CASE data_write_hit
  <2>1. state = "s_data_write_hit" /\ ~collect_acq_data /\ is_write_process
    BY Zenon, <1>0, <1>2 DEF data_write_hit, LookupInv
  <2>2. Unacked /\ ~(gnt_enable /\ is_write_process) /\ ~Merged
    BY Zenon, <2>1, GoldenStep DEF Unacked, Serves, Merged
  <2>3. Unacked' /\ cl'[Wb].val = cl[Wb].val /\ addr_out' = addr_out /\ golden' = golden
    BY Zenon, <2>2, UnackedStep, GoldenStep
  <2>4. Merged'
    <3>1. state' = "s_meta_write_hit"
      BY Zenon, <2>1, StateStep DEF Cycle, Tick
    <3> QED
      BY Zenon, <2>3, <3>1 DEF Merged
  <2>5. acq_data = Payload(cl[Wb].val)
    <3>1. \A k \in Beat : acq_data[k] = <<cl[Wb].val, k>>
      BY Zenon, <1>0, <2>1, <2>2 DEF CollectInv
    <3>2. acq_data = [k \in Beat |-> <<cl[Wb].val, k>>]
      BY Zenon, <1>0, <3>1 DEF Entry
    <3> QED
      BY Zenon, <3>2 DEF Payload
  <2>6. b # addr_out => TagsOf(b)' = TagsOf(b)
    BY Zenon, <2>2, <2>3 DEF TagsOf, Payload
  <2>7. b = addr_out => TagsOf(b)' = acq_data
    BY Zenon, <2>3, <2>4, <2>5 DEF TagsOf, Payload
  <2> QED
    BY Zenon, <1>2, <2>1, <2>6, <2>7
<1>3. CASE ~data_write_hit /\ gnt_enable /\ is_write_process
  <2>1. /\ Unacked /\ ~Unacked' /\ state = "s_busy" /\ golden'[addr_out] = cl[Wb].val
        /\ b # addr_out => golden'[b] = golden[b]
    BY Zenon, <1>3, GoldenStep DEF Unacked
  <2>2. Merged /\ ~Merged'
    BY Zenon, <2>1 DEF Merged
  <2>3. TagsOf(b)' = TagsOf(b)
    BY Zenon, <2>1, <2>2 DEF TagsOf, Payload
  <2> QED
    BY Zenon, <1>3, <2>1, <2>3
<1>4. CASE ~data_write_hit /\ ~(gnt_enable /\ is_write_process)
  <2>1. golden' = golden
    BY Zenon, <1>4, GoldenStep
  <2>2. CASE Merged
    <3>1. Unacked /\ state \in {"s_meta_write_hit", "s_gnt", "s_busy"}
      BY Zenon, <2>2 DEF Merged
    <3>2. Unacked' /\ cl'[Wb].val = cl[Wb].val /\ addr_out' = addr_out
      BY Zenon, <1>4, <3>1, UnackedStep
    <3>3. state' \in {"s_gnt", "s_busy"}
      <4>1. /\ state = "s_meta_write_hit" => state' = "s_gnt"
            /\ state = "s_gnt" => state' \in {"s_gnt", "s_busy"}
            /\ state = "s_busy" => state' \in {"s_busy", "s_idle"}
        BY Zenon, StateStep, FsmStep DEF Cycle, Tick, WayInv
      <4> QED
        BY Zenon, <3>1, <3>2, <4>1 DEF Unacked, Serves
    <3>4. TagsOf(b)' = TagsOf(b)
      BY Zenon, <2>1, <2>2, <3>2, <3>3 DEF Merged, TagsOf, Payload
    <3> QED
      BY Zenon, <1>4, <3>1, <3>4
  <2>3. CASE ~Merged
    <3>1. ~Merged'
      BY Zenon, <1>1, <1>4, <2>3
    <3>2. TagsOf(b)' = TagsOf(b) /\ TagsOf(b) = Payload(golden[b])
      BY Zenon, <2>1, <2>3, <3>1 DEF TagsOf, Payload
    <3> QED
      BY Zenon, <1>4, <3>2
  <2> QED
    BY Zenon, <2>2, <2>3
<1> QED
  BY Zenon, <1>2, <1>3, <1>4

-----------------------------------------------------------------------------
(* The tags in the data array and in memory.                               *)

\* Two blocks of one line differ in the row or in the slot of the row.
LEMMA SameBlock ==
  ASSUME NEW b \in Block, NEW c \in Block, lineOf(b) = lineOf(c), b.row = c.row, b.slot = c.slot
  PROVE  b = c
<1>1. b.tag = c.tag /\ b.idx = c.idx
  BY DEF lineOf
<1> QED
  BY <1>1 DEF Block

\* The tags in the way that holds their line.
LEMMA ArrayKept ==
  ASSUME NEW r, NEW v, NEW w, NEW m, Cycle(r, v, w, m), NEW b \in ReqBlocks,
         b.idx < rst_cnt', NEW x \in WaysOf(b)', ~Replaced(b, x, Refilling)'
  PROVE  dataArray'[x][b.idx][b.row][b.slot] = TagsOf(b)'
<1>0. /\ TagInv /\ RefillInv /\ LookupInv /\ WayInv /\ rst_cnt \in Nat /\ addr_out \in ReqBlocks
      /\ x \in Ways /\ acq_way_en \in SUBSET Ways
  BY ParamAssumption DEF Cycle, PathInv, TypeOK, ArraysOK, TrackerOK, WaysOf
<1>1. b \in Block /\ addr_out \in Block /\ b.idx \in Sets /\ b.row \in Beat /\ b.slot \in Slot
      /\ b.idx \in Nat
  BY <1>0, ParamAssumption DEF Block, Sets
<1>2. CASE rst
  <2>1. state \in {"s_idle", "s_meta_read"} /\ rst_cnt' = rst_cnt + 1
    BY Zenon, <1>2, Predecessors, MetaStep
  <2>2. b.idx # rst_cnt
    BY Zenon, <1>2, WaysStep
  <2>3. b.idx < rst_cnt
    BY <1>0, <1>1, <2>1, <2>2
  <2>4. x \in WaysOf(b)
    BY Zenon, <1>2, <2>2, WaysStep DEF WaysOf
  <2>5. dataArray[x][b.idx][b.row][b.slot] = TagsOf(b)
    BY Zenon, <1>0, <2>1, <2>3, <2>4 DEF TagInv, Replaced, Refilling
  <2> QED
    BY Zenon, <1>0, <2>1, <2>5, DataStep, TagsStep DEF data_write_hit
<1>3. CASE ~rst
  <2>0. b.idx < rst_cnt
    BY Zenon, <1>3, MetaStep
  <2>1. CASE state = "s_meta_write_refill"
    <3>1. dataArray'[x] = dataArray[x] /\ TagsOf(b)' = TagsOf(b) /\ TagsOf(b) = Payload(golden[b])
      BY Zenon, <1>0, <2>1, DataStep, TagsStep DEF data_write_hit
    <3>2. CASE x \in acq_way_en /\ b.idx = addr_out.idx
      <4>1. b \in LineBlocks
        BY Zenon, <1>3, <2>1, <3>2, WaysStep DEF LineBlocks
      <4>2. Holds(b, dataArray[x][b.idx][b.row])
        BY Zenon, <1>0, <2>1, <3>2, <4>1 DEF RefillInv
      <4> QED
        BY Zenon, <3>1, <4>2 DEF Holds
    <3>3. CASE ~(x \in acq_way_en /\ b.idx = addr_out.idx)
      <4>1. x \in WaysOf(b)
        BY Zenon, <1>3, <2>1, <3>3, WaysStep
      <4>2. dataArray[x][b.idx][b.row][b.slot] = TagsOf(b)
        BY Zenon, <1>0, <2>0, <3>3, <4>1 DEF TagInv, Replaced
      <4> QED
        BY Zenon, <3>1, <4>2
    <3> QED
      BY Zenon, <3>2, <3>3
  <2>2. ASSUME state # "s_meta_write_refill" PROVE x \in WaysOf(b)
    BY Zenon, <1>3, <2>2, WaysStep
  <2>3. CASE data_write_hit
    <3>1. /\ state = "s_data_write_hit" /\ ~collect_acq_data /\ acq_way_en \subseteq WaysOf(addr_out)
          /\ \A y \in WaysOf(addr_out) : y \in acq_way_en
      BY Zenon, <1>0, <2>3 DEF data_write_hit, LookupInv, Serving, WayInv, Fits
    <3>2. x \in WaysOf(b) /\ dataArray[x][b.idx][b.row][b.slot] = TagsOf(b)
      BY Zenon, <1>0, <2>0, <2>2, <3>1 DEF TagInv, Replaced, Refilling
    <3>3. CASE b = addr_out
      <4>1. x \in acq_way_en
        BY Zenon, <3>1, <3>2, <3>3
      <4>2. dataArray'[x][addr_out.idx][addr_out.row][addr_out.slot] = acq_data
        BY Zenon, <1>0, <3>1, <4>1, DataStep
      <4>3. TagsOf(b)' = acq_data
        BY Zenon, <2>3, <3>3, TagsStep
      <4> QED
        BY Zenon, <3>3, <4>2, <4>3
    <3>4. CASE b # addr_out
      <4>1. TagsOf(b)' = TagsOf(b)
        BY Zenon, <3>4, TagsStep
      <4>2. CASE x \in acq_way_en /\ b.idx = addr_out.idx
        <5>1. b.tag = addr_out.tag
          BY Zenon, <3>1, <3>2, <4>2 DEF WaysOf
        <5>2. b.row # addr_out.row \/ b.slot # addr_out.slot
          BY Zenon, <1>1, <3>4, <4>2, <5>1, SameBlock DEF lineOf
        <5>3. \A k \in Beat, s \in Slot : k # addr_out.row \/ s # addr_out.slot =>
                dataArray'[x][addr_out.idx][k][s] = dataArray[x][addr_out.idx][k][s]
          BY Zenon, <1>0, <3>1, <4>2, DataStep
        <5>4. dataArray'[x][addr_out.idx][b.row][b.slot] =
                dataArray[x][addr_out.idx][b.row][b.slot]
          BY Zenon, <1>1, <5>2, <5>3
        <5> QED
          BY Zenon, <3>2, <4>1, <4>2, <5>4
      <4>3. CASE ~(x \in acq_way_en /\ b.idx = addr_out.idx)
        <5>1. dataArray'[x][b.idx] = dataArray[x][b.idx]
          BY Zenon, <1>0, <1>1, <4>3, DataStep
        <5> QED
          BY Zenon, <3>2, <4>1, <5>1
      <4> QED
        BY Zenon, <4>2, <4>3
    <3> QED
      BY Zenon, <3>3, <3>4
  <2>4. CASE state = "s_data_write_refill"
    <3>1. state' \in Refilling /\ acq_way_en' = acq_way_en /\ addr_out' = addr_out
      BY Zenon, <2>4, StateStep, ServesStep DEF Cycle, Tick, Refilling
    <3>2. ~(x \in acq_way_en /\ b.idx = addr_out.idx)
      BY Zenon, <3>1 DEF Replaced
    <3>3. dataArray[x][b.idx][b.row][b.slot] = TagsOf(b)
      BY Zenon, <1>0, <2>0, <2>2, <2>4, <3>2 DEF TagInv, Replaced
    <3>4. dataArray'[x][b.idx] = dataArray[x][b.idx]
      BY Zenon, <1>0, <1>1, <3>2, DataStep
    <3>5. TagsOf(b)' = TagsOf(b)
      BY Zenon, <2>4, TagsStep DEF data_write_hit
    <3> QED
      BY Zenon, <3>3, <3>4, <3>5
  <2>5. CASE /\ state \notin {"s_meta_write_refill", "s_data_write_refill"} /\ ~data_write_hit
    <3>1. dataArray[x][b.idx][b.row][b.slot] = TagsOf(b)
      BY Zenon, <1>0, <2>0, <2>2, <2>5 DEF TagInv, Replaced, Refilling
    <3>2. dataArray'[x] = dataArray[x]
      BY Zenon, <1>0, <2>5, DataStep DEF data_write_hit
    <3> QED
      BY Zenon, <2>5, <3>1, <3>2, TagsStep
  <2> QED
    BY Zenon, <2>1, <2>3, <2>4, <2>5
<1> QED
  BY ZenonT(40), <1>2, <1>3

\* The tags in memory.
LEMMA PartitionKept ==
  ASSUME NEW r, NEW v, NEW w, NEW m, Cycle(r, v, w, m), NEW b \in ReqBlocks,
         \/ b.idx >= rst_cnt'
         \/ \A x \in WaysOf(b)' : metaArray'[b.idx][x].dirty =>
                                    Replaced(b, x, {"s_mem_req"} \cup Refilling)'
  PROVE  InMemory(b)'
<1>0. /\ TagInv /\ WriteBackInv /\ LookupInv /\ WayInv /\ rst_cnt \in Nat
      /\ addr_out \in ReqBlocks /\ acq_way_en \in SUBSET Ways /\ tmem \in [BOOLEAN -> [Line -> [Beat -> Row]]]
  BY ParamAssumption DEF Cycle, PathInv, TypeOK, ArraysOK, TrackerOK, MemoryOK
<1>1. b \in Block /\ b.idx \in Sets /\ b.row \in Beat /\ b.slot \in Slot /\ b.idx \in Nat
      /\ isDramAddress(b) \in BOOLEAN /\ lineOf(b) \in Line
  BY <1>0, ParamAssumption DEF Block, Sets, isDramAddress, lineOf, Line
<1>2. ASSUME NEW x, Replaced(b, x, {"s_mem_req"} \cup Refilling)'
      PROVE  /\ b.idx = addr_out.idx
             /\ \/ /\ state \in {"s_mem_req", "s_data_write_refill", "s_write_back_wait_b"}
                   /\ x \in acq_way_en
                \/ /\ state = "s_meta_resp" /\ meta_resp.valid /\ x \in meta_resp.way_en
                   /\ ~(meta_resp.meta.valid /\ meta_resp.meta.dirty)
  <2>1. x \in acq_way_en' /\ b.idx = addr_out'.idx /\ state' \in {"s_mem_req"} \cup Refilling
    BY Zenon, <1>2 DEF Replaced
  <2>2. \/ state \in {"s_mem_req", "s_data_write_refill", "s_write_back_wait_b"}
        \/ /\ state = "s_meta_resp" /\ meta_resp.valid
           /\ ~(meta_resp.meta.valid /\ meta_resp.meta.dirty)
    BY Zenon, <2>1, Predecessors DEF Refilling
  <2>3. addr_out' = addr_out
    BY Zenon, <2>2, ServesStep
  <2>4. state # "s_meta_resp" => acq_way_en' = acq_way_en
    BY Zenon, StateStep DEF Cycle, Tick
  <2>5. state = "s_meta_resp" /\ meta_resp.valid => acq_way_en' = meta_resp.way_en
    BY Zenon, StateStep DEF Cycle, Tick
  <2> QED
    BY Zenon, <2>1, <2>2, <2>3, <2>4, <2>5
<1>3. ASSUME ~rst PROVE rst_cnt' = rst_cnt /\ b.idx < rst_cnt /\ ~(b.idx >= rst_cnt')
  <2>1. rst_cnt' = rst_cnt /\ b.idx < rst_cnt
    BY Zenon, <1>3, MetaStep
  <2> QED
    BY <1>0, <1>1, <2>1
\* A block whose line is in a dirty way is no concern of the partition.
<1>4. ASSUME ~rst, NEW x \in WaysOf(b)', metaArray'[b.idx][x].dirty,
             state \notin {"s_mem_req", "s_data_write_refill", "s_write_back_wait_b", "s_meta_resp"}
      PROVE  FALSE
  BY Zenon, <1>2, <1>3, <1>4
<1>5. golden'[b] = golden[b]
  <2>1. CASE gnt_enable /\ is_write_process /\ b = addr_out
    <3>1. state = "s_busy"
      BY Zenon, <2>1, ServesStep
    <3>2. ~rst
      BY Zenon, <3>1, Predecessors
    <3>3. PICK x \in acq_way_en : x \in WaysOf(addr_out) /\ metaArray[addr_out.idx][x].dirty
      BY Zenon, <1>0, <2>1, <3>1 DEF LookupInv, WayInv, Fits
    <3>4. WaysOf(b)' = WaysOf(b) /\ metaArray' = metaArray
      BY Zenon, <3>1, <3>2, WaysStep, MetaStep
    <3> QED
      BY Zenon, <1>4, <2>1, <3>1, <3>2, <3>3, <3>4
  <2>2. CASE ~(gnt_enable /\ is_write_process /\ b = addr_out)
    BY Zenon, <2>2, GoldenStep
  <2> QED
    BY Zenon, <2>1, <2>2
\* A row that is written back belongs to the dirty victim.
<1>6. ~(/\ tag_beat_sent(r) /\ acq_repl_meta.dram = isDramAddress(b)
        /\ addrFromTag(acq_repl_meta, addr_out) = lineOf(b) /\ mem_tag_data_write_cnt = b.row)
  <2> SUFFICES ASSUME tag_beat_sent(r), addrFromTag(acq_repl_meta, addr_out) = lineOf(b)
               PROVE  FALSE
    BY Zenon
  <2>1. state = "s_write_back"
    BY Zenon DEF tag_beat_sent, mem_send_tag
  <2>2. ~rst
    BY Zenon, <2>1, Predecessors
  <2>3. b.tag = acq_repl_meta.tag /\ b.idx = addr_out.idx
    BY DEF addrFromTag, lineOf
  <2>4. PICK x \in acq_way_en : x \in WaysOf(b) /\ metaArray[b.idx][x].dirty
    <3>1. PICK x \in Ways : x \in acq_way_en
      BY Zenon, <1>0, <2>1 DEF WayInv, Fits
    <3>2. metaArray[addr_out.idx][x] = acq_repl_meta /\ acq_repl_meta.valid /\ acq_repl_meta.dirty
      BY Zenon, <1>0, <2>1, <3>1 DEF LookupInv, Evicting
    <3> QED
      BY Zenon, <2>3, <3>1, <3>2 DEF WaysOf
  <2>5. WaysOf(b)' = WaysOf(b) /\ metaArray' = metaArray
    BY Zenon, <2>1, <2>2, WaysStep, MetaStep
  <2> QED
    BY Zenon, <1>4, <2>1, <2>2, <2>4, <2>5
<1>7. tmem'[isDramAddress(b)][lineOf(b)][b.row] = tmem[isDramAddress(b)][lineOf(b)][b.row]
  <2>1. CASE tag_beat_sent(r)
    <3>1. tmem' = [tmem EXCEPT ![acq_repl_meta.dram][addrFromTag(acq_repl_meta, addr_out)]
                                [mem_tag_data_write_cnt]
                                 = mem_tag_data_write[mem_tag_data_write_cnt]]
      BY Zenon, <2>1, MemoryStep
    <3> QED
      BY <1>0, <1>1, <1>6, <2>1, <3>1
  <2>2. CASE ~tag_beat_sent(r)
    BY Zenon, <2>2, MemoryStep
  <2> QED
    BY ZenonT(40), <2>1, <2>2
<1>8. InMemory(b)
  <2>1. CASE rst
    <3>1. state' \in {"s_idle", "s_meta_read"} /\ rst_cnt' = rst_cnt + 1
      BY Zenon, <2>1, Predecessors, MetaStep
    <3>2. CASE b.idx >= rst_cnt
      BY Zenon, <1>0, <3>2 DEF TagInv
    <3>3. CASE ~(b.idx >= rst_cnt)
      <4>1. b.idx # rst_cnt /\ ~(b.idx >= rst_cnt')
        BY <1>0, <1>1, <3>1, <3>3
      <4>2. \A x \in WaysOf(b) : ~metaArray[b.idx][x].dirty
        BY ZenonT(40), <2>1, <3>1, <4>1, WaysStep DEF WaysOf, Replaced, Refilling
      <4> QED
        BY Zenon, <1>0, <4>2 DEF TagInv
    <3> QED
      BY Zenon, <3>2, <3>3
  <2>2. CASE ~rst
    <3>1. SUFFICES ASSUME NEW x \in WaysOf(b), metaArray[b.idx][x].dirty,
                          ~Replaced(b, x, {"s_mem_req"} \cup Refilling)
                   PROVE  state = "s_write_back_wait_b" /\ x \in acq_way_en /\ b.idx = addr_out.idx
      <4>1. CASE \A x \in WaysOf(b) : metaArray[b.idx][x].dirty =>
                                        Replaced(b, x, {"s_mem_req"} \cup Refilling)
        BY Zenon, <1>0, <4>1 DEF TagInv
      <4>2. CASE \E x \in WaysOf(b) : state = "s_write_back_wait_b" /\ x \in acq_way_en
                                      /\ b.idx = addr_out.idx
        <5>1. b \in Victims
          BY Zenon, <4>2 DEF Victims
        <5> QED
          BY Zenon, <1>0, <4>2, <5>1 DEF WriteBackInv
      <4> QED
        BY Zenon, <4>1, <4>2
    <3>2. x \in WaysOf(b)' /\ metaArray'[b.idx][x].dirty
      <4>1. CASE state = "s_meta_write_refill"
        BY Zenon, <2>2, <3>1, <4>1, WaysStep DEF Replaced, Refilling
      <4>2. CASE state = "s_meta_write_hit"
        <5>1. x \in WaysOf(b)' /\ x \in Ways
          BY Zenon, <2>2, <3>1, <4>2, WaysStep DEF WaysOf
        <5>2. CASE x \in acq_way_en /\ b.idx = addr_out.idx
          <6>1. metaArray'[b.idx][x] = addrToTag(addr_out, state = "s_meta_write_hit")
            BY ZenonT(40), <2>2, <4>2, <5>2, MetaStep
          <6>2. metaArray'[b.idx][x].dirty = (state = "s_meta_write_hit")
            BY <6>1, MetaWord
          <6> QED
            BY Zenon, <4>2, <5>1, <6>2
        <5>3. CASE ~(x \in acq_way_en /\ b.idx = addr_out.idx)
          BY Zenon, <1>1, <2>2, <3>1, <4>2, <5>1, <5>3, MetaStep
        <5> QED
          BY Zenon, <5>2, <5>3
      <4>3. CASE state \notin {"s_meta_write_refill", "s_meta_write_hit"}
        BY Zenon, <2>2, <3>1, <4>3, WaysStep, MetaStep
      <4> QED
        BY Zenon, <4>1, <4>2, <4>3
    <3>3. Replaced(b, x, {"s_mem_req"} \cup Refilling)'
      BY Zenon, <1>3, <2>2, <3>2
    <3>4. CASE state = "s_meta_resp"
      <4>1. /\ b.idx = addr_out.idx /\ meta_resp.valid /\ x \in meta_resp.way_en
            /\ ~(meta_resp.meta.valid /\ meta_resp.meta.dirty)
        BY Zenon, <1>2, <3>3, <3>4
      <4>2. meta_resp.meta = metaArray[addr_out.idx][x]
        BY Zenon, <1>0, <4>1 DEF LookupInv
      <4>3. metaArray[b.idx][x].valid /\ metaArray[b.idx][x].dirty
        BY Zenon, <3>1 DEF WaysOf
      <4> QED
        BY <4>1, <4>2, <4>3
    <3> QED
      BY Zenon, <1>2, <3>1, <3>3, <3>4 DEF Replaced, Refilling
  <2> QED
    BY Zenon, <2>1, <2>2
<1> QED
  BY ZenonT(40), <1>5, <1>7, <1>8 DEF InMemory, Holds, isDramAddress, lineOf, Payload

\* Both copies of a block's tags stay right: the cached entry, and the tag partition
\* where no dirty line stands for it.
LEMMA TagKept ==
  ASSUME NEW r, NEW v, NEW w, NEW m, Cycle(r, v, w, m)
  PROVE  TagInv'
BY Zenon, ArrayKept, PartitionKept DEF TagInv

-----------------------------------------------------------------------------
(* The victim on its way to memory.                                        *)

\* While the victim is evicted, the chosen way holds the right tags of its blocks,
\* and the address of the write-back is that of its line.
LEMMA VictimStep ==
  ASSUME NEW r, NEW v, NEW w, NEW m, Cycle(r, v, w, m), NEW b \in Victims',
         state' \in Evicting \ {"s_data_read_wb"}
  PROVE  /\ b \in Victims /\ b \in ReqBlocks /\ state \in Evicting /\ golden' = golden
         /\ acq_way_en # {}
         /\ Holds(b, dataArray[CHOOSE y \in acq_way_en : TRUE][addr_out.idx][b.row])
         /\ isDramAddress(b) = acq_repl_meta.dram
         /\ lineOf(b) = addrFromTag(acq_repl_meta, addr_out)
<1>0. TagInv /\ LookupInv /\ WayInv /\ addr_out \in ReqBlocks
  BY Zenon DEF Cycle, PathInv, TypeOK, TrackerOK
<1>1. /\ state \in Evicting /\ ~rst
  BY Zenon, Predecessors DEF Evicting
<1>2. state \notin {"s_idle", "s_meta_read", "s_meta_resp", "s_meta_write_refill", "s_busy"}
      /\ state \notin {"s_data_write_hit", "s_meta_write_hit", "s_gnt"} /\ state \notin Refilling
  BY Zenon, <1>1 DEF Evicting, Refilling
<1>3. golden' = golden
  BY Zenon, <1>2, GoldenStep
<1>4. addr_out' = addr_out /\ acq_way_en' = acq_way_en
  BY Zenon, <1>2, ServesStep, StateStep DEF Cycle, Tick
<1>5. b \in ReqBlocks
  BY Zenon DEF Victims
<1>6. WaysOf(b)' = WaysOf(b) /\ b.idx < rst_cnt
  BY Zenon, <1>1, <1>2, <1>5, WaysStep, MetaStep
<1>7. b \in Victims
  BY Zenon, <1>4, <1>5, <1>6 DEF Victims
<1>8. PICK x \in Ways : acq_way_en = {x}
  BY Zenon, <1>0, <1>2 DEF WayInv, Fits
<1>9. x \in WaysOf(b) /\ b.idx = addr_out.idx /\ (CHOOSE y \in acq_way_en : TRUE) = x
  <2>1. (CHOOSE y \in acq_way_en : TRUE) \in acq_way_en
    BY Zenon, <1>8
  <2> QED
    BY Zenon, <1>7, <1>8, <2>1 DEF Victims
<1>10. dataArray[x][b.idx][b.row][b.slot] = Payload(golden[b])
  <2>1. TagsOf(b) = Payload(golden[b])
    BY Zenon, <1>2, <1>5, TagsStep
  <2> QED
    BY Zenon, <1>0, <1>2, <1>5, <1>6, <1>9, <2>1 DEF TagInv, Replaced
<1>11. metaArray[b.idx][x] = acq_repl_meta
  BY ZenonT(40), <1>0, <1>1, <1>8, <1>9 DEF LookupInv
<1>12. acq_repl_meta.tag = b.tag
  BY Zenon, <1>9, <1>11 DEF WaysOf
<1>13. acq_repl_meta.dram = (acq_repl_meta.tag \in DramTags)
  <2>1. acq_repl_meta.valid /\ b.idx \in Sets
    BY Zenon, <1>0, <1>1, <1>5, ParamAssumption DEF LookupInv, Block
  <2>2. metaArray[b.idx][x].valid => metaArray[b.idx][x].dram = (metaArray[b.idx][x].tag \in DramTags)
    BY Zenon, <1>0, <1>6, <2>1 DEF LookupInv
  <2> QED
    BY <1>11, <2>1, <2>2
<1>14. lineOf(b) = addrFromTag(acq_repl_meta, addr_out)
  BY Zenon, <1>9, <1>12 DEF lineOf, addrFromTag
<1>15. isDramAddress(b) = acq_repl_meta.dram
  BY <1>12, <1>13 DEF isDramAddress
<1>16. Holds(b, dataArray[CHOOSE y \in acq_way_en : TRUE][addr_out.idx][b.row])
  BY Zenon, <1>9, <1>10 DEF Holds
<1> QED
  BY Zenon, <1>1, <1>3, <1>5, <1>7, <1>8, <1>14, <1>15, <1>16

\* What a cycle does to the buffers of the write-back.
LEMMA WriteBackStep ==
  ASSUME NEW r, NEW v, NEW w, NEW m, Cycle(r, v, w, m)
  PROVE  /\ state \in {"s_data_read_wb", "s_data_resp_wb"} /\ acq_way_en # {} =>
              data_resp'.row = dataArray[CHOOSE y \in acq_way_en : TRUE][addr_out.idx][wb_read_cnt]
         /\ state \in {"s_data_resp_wb", "s_data_resp_wb_done"} =>
              /\ wb_data'[wb_data_cnt] = data_resp.row
              /\ \A k \in Beat : k # wb_data_cnt => wb_data'[k] = wb_data[k]
         /\ state = "s_write_back" => wb_data' = wb_data
         /\ mem_tag_data_write' = wb_data
         /\ tag_beat_sent(r) /\ mem_tag_data_write_cnt # Beats - 1 =>
              mem_tag_data_write_cnt' = mem_tag_data_write_cnt + 1
         /\ ~tag_beat_sent(r) => mem_tag_data_write_cnt' = mem_tag_data_write_cnt
         /\ state # "s_write_back" => ~tag_beat_sent(r) /\ mem_tag_data_write_cnt = 0
         /\ state = "s_data_read_wb" => wb_data_cnt' = 0 /\ wb_read_cnt = 0
         /\ state = "s_data_resp_wb" =>
              wb_data_cnt' = wb_data_cnt + 1 /\ wb_read_cnt = wb_data_cnt + 1
<1>0. /\ EvictInv /\ WriteBack(r) /\ DataArray /\ wb_data \in [Beat -> Row] /\ wb_data_cnt \in Beat
      /\ mem_tag_data_write_cnt \in Beat /\ FsmInv /\ wb_read_cnt \in Beat
  BY ZenonT(40) DEF Cycle, Tick, PathInv, TypeOK, BuffersOK, CountersOK, ControlInv
<1>1. ASSUME state \in {"s_data_read_wb", "s_data_resp_wb"}, acq_way_en # {}
      PROVE  data_resp'.row = dataArray[CHOOSE y \in acq_way_en : TRUE][addr_out.idx][wb_read_cnt]
  BY <1>0, <1>1 DEF DataArray, data_read_fire
<1>2. ASSUME state \in {"s_data_resp_wb", "s_data_resp_wb_done"}
      PROVE  /\ wb_data'[wb_data_cnt] = data_resp.row
             /\ \A k \in Beat : k # wb_data_cnt => wb_data'[k] = wb_data[k]
  <2>1. data_resp.valid
    BY Zenon, <1>0, <1>2 DEF EvictInv
  <2>2. wb_data' = [wb_data EXCEPT ![wb_data_cnt] = data_resp.row]
    BY Zenon, <1>0, <1>2, <2>1 DEF WriteBack, accept
  <2> QED
    BY <1>0, <2>2
<1>3. state = "s_write_back" => wb_data' = wb_data
  BY Zenon, <1>0 DEF WriteBack, accept
<1>4. /\ tag_beat_sent(r) /\ mem_tag_data_write_cnt # Beats - 1 =>
           mem_tag_data_write_cnt' = mem_tag_data_write_cnt + 1
      /\ ~tag_beat_sent(r) => mem_tag_data_write_cnt' = mem_tag_data_write_cnt
  <2>1. mem_tag_data_write_cnt' = Count(mem_tag_data_write_cnt, tag_beat_sent(r))
    BY Zenon, <1>0 DEF WriteBack
  <2> QED
    BY <1>0, <2>1, ParamAssumption DEF Count, Beat
<1>5. mem_tag_data_write' = wb_data
  BY Zenon, <1>0 DEF WriteBack
<1>6. state # "s_write_back" => ~tag_beat_sent(r) /\ mem_tag_data_write_cnt = 0
  BY Zenon, <1>0 DEF tag_beat_sent, mem_send_tag, FsmInv
<1>7. wb_data_cnt' = Count(wb_data_cnt, wb_data_inc)
  BY Zenon, <1>0 DEF WriteBack
<1>8. ASSUME state = "s_data_read_wb" PROVE wb_data_cnt' = 0 /\ wb_read_cnt = 0
  <2>1. ~wb_data_inc /\ wb_read_cnt = 0 /\ wb_data_cnt = 0
    BY Zenon, <1>0, <1>8 DEF wb_data_inc, EvictInv
  <2> QED
    BY Zenon, <1>7, <2>1 DEF Count
<1>9. ASSUME state = "s_data_resp_wb"
      PROVE  wb_data_cnt' = wb_data_cnt + 1 /\ wb_read_cnt = wb_data_cnt + 1
  <2>1. wb_data_inc /\ wb_read_cnt = wb_data_cnt + 1
    BY Zenon, <1>0, <1>9 DEF wb_data_inc, EvictInv
  <2> QED
    BY <1>0, <1>7, <2>1, ParamAssumption DEF Count, Beat
<1> QED
  BY Zenon, <1>1, <1>2, <1>3, <1>4, <1>5, <1>6, <1>8, <1>9

\* Every row of the victim line goes right from the data array through wb_data and
\* mem_tag_data_write to the tag partition.
LEMMA WriteBackKept ==
  ASSUME NEW r, NEW v, NEW w, NEW m, Cycle(r, v, w, m)
  PROVE  WriteBackInv'
<1>0. /\ WriteBackInv /\ mem_tag_data_write_cnt \in Beat /\ wb_data_cnt \in Beat
      /\ EvictInv /\ tmem \in [BOOLEAN -> [Line -> [Beat -> Row]]]
  BY Zenon DEF Cycle, PathInv, TypeOK, CountersOK, MemoryOK
<1>1. ASSUME port'.op = "put", port'.sp = "tag"
      PROVE  port'.ta = tagAddrConv(addrFromTag(acq_repl_meta', addr_out'), acq_repl_meta'.dram)
  <2>1. DataInv' /\ FsmInv'
    BY Zenon DEF Cycle, ControlInv
  <2>2. ~acq_data_process'
    BY Zenon, <1>1, <2>1 DEF DataInv, Quiet, IsPort
  <2>3. state' \in {"s_write_back", "s_write_back_wait_b"}
    BY Zenon, <1>1, <2>1, <2>2 DEF FsmInv, Quiet, IsPort
  <2>4. state \in {"s_data_resp_wb_done", "s_write_back", "s_write_back_wait_b"}
    BY Zenon, <2>3, Predecessors
  <2>5. addr_out' = addr_out /\ acq_repl_meta' = acq_repl_meta
    BY Zenon, <2>4, ServesStep, StateStep DEF Cycle, Tick
  <2> QED
    BY Zenon, <1>1, <2>5, MemoryStep
<1>2. ASSUME NEW b \in Victims', state' \in Evicting \ {"s_data_read_wb"}
      PROVE  /\ state' \in {"s_data_resp_wb", "s_data_resp_wb_done"} =>
                  /\ b.row < wb_data_cnt' => Holds(b, wb_data[b.row])'
                  /\ b.row = wb_data_cnt' => Holds(b, data_resp.row)'
             /\ state' = "s_write_back" =>
                  /\ Holds(b, wb_data[b.row])'
                  /\ b.row < Beats - 1 \/ mem_tag_data_write_cnt' > 0 =>
                       Holds(b, mem_tag_data_write[b.row])'
                  /\ b.row < mem_tag_data_write_cnt' => InMemory(b)'
             /\ state' = "s_write_back_wait_b" => InMemory(b)'
  <2>0. /\ b \in Victims /\ b \in ReqBlocks /\ state \in Evicting /\ golden' = golden
        /\ acq_way_en # {}
        /\ Holds(b, dataArray[CHOOSE y \in acq_way_en : TRUE][addr_out.idx][b.row])
        /\ isDramAddress(b) = acq_repl_meta.dram
        /\ lineOf(b) = addrFromTag(acq_repl_meta, addr_out)
    BY Zenon, <1>2, VictimStep
  <2>1. b.row \in Beat /\ isDramAddress(b) \in BOOLEAN /\ lineOf(b) \in Line
    BY <2>0, ParamAssumption DEF Block, lineOf, Line, isDramAddress
  <2> DEFINE Good(row) == row[b.slot] = Payload(golden[b])
             tags      == tmem[isDramAddress(b)][lineOf(b)]
  <2>2. /\ \A row : Holds(b, row) <=> Good(row)
        /\ Good(wb_data'[b.row]) => Holds(b, wb_data[b.row])'
        /\ Good(data_resp'.row) => Holds(b, data_resp.row)'
        /\ Good(mem_tag_data_write'[b.row]) => Holds(b, mem_tag_data_write[b.row])'
        /\ Good(tags'[b.row]) => InMemory(b)'
        /\ InMemory(b) => Good(tags[b.row])
    BY Zenon, <2>0 DEF Holds, InMemory, Payload, isDramAddress, lineOf
  <2>3. Good(dataArray[CHOOSE y \in acq_way_en : TRUE][addr_out.idx][b.row])
    BY Zenon, <2>0, <2>2
  \* The rows that have been sent are in memory.
  <2>4. /\ tag_beat_sent(r) =>
             /\ tags'[mem_tag_data_write_cnt] = mem_tag_data_write[mem_tag_data_write_cnt]
             /\ \A k \in Beat : k # mem_tag_data_write_cnt => tags'[k] = tags[k]
        /\ ~tag_beat_sent(r) => tags' = tags
    <3>1. CASE tag_beat_sent(r)
      <4>1. tmem' = [tmem EXCEPT ![isDramAddress(b)][lineOf(b)][mem_tag_data_write_cnt]
                                   = mem_tag_data_write[mem_tag_data_write_cnt]]
        BY Zenon, <2>0, <3>1, MemoryStep
      <4>2. tmem'[isDramAddress(b)][lineOf(b)] =
              [tmem[isDramAddress(b)][lineOf(b)] EXCEPT ![mem_tag_data_write_cnt]
                 = mem_tag_data_write[mem_tag_data_write_cnt]]
        BY <1>0, <2>1, <4>1
      <4>3. tags' = tmem'[isDramAddress(b)][lineOf(b)] /\ tags \in [Beat -> Row]
        BY Zenon, <1>0, <2>1 DEF isDramAddress, lineOf
      <4> QED
        BY <1>0, <3>1, <4>2, <4>3
    <3>2. CASE ~tag_beat_sent(r)
      BY Zenon, <3>2, MemoryStep DEF isDramAddress, lineOf
    <3> QED
      BY Zenon, <3>1, <3>2
  <2> HIDE DEF Good, tags
  <2>5. state = "s_write_back" =>
          /\ Good(wb_data[b.row])
          /\ b.row < Beats - 1 \/ mem_tag_data_write_cnt > 0 => Good(mem_tag_data_write[b.row])
          /\ b.row < mem_tag_data_write_cnt => Good(tags[b.row])
    BY Zenon, <1>0, <2>0, <2>2 DEF WriteBackInv
  <2>6. ASSUME state = "s_write_back",
               \/ b.row < mem_tag_data_write_cnt
               \/ tag_beat_sent(r) /\ b.row = mem_tag_data_write_cnt
        PROVE  Good(tags'[b.row])
    <3>1. CASE b.row < mem_tag_data_write_cnt
      <4>1. b.row # mem_tag_data_write_cnt
        BY <1>0, <2>1, <3>1 DEF Beat
      <4> QED
        BY Zenon, <2>1, <2>4, <2>5, <2>6, <3>1, <4>1
    <3>2. CASE tag_beat_sent(r) /\ b.row = mem_tag_data_write_cnt
      <4>1. b.row < Beats - 1 \/ mem_tag_data_write_cnt > 0
        BY <1>0, <2>1, <3>2, ParamAssumption DEF Beat
      <4> QED
        BY Zenon, <2>4, <2>5, <2>6, <3>2, <4>1
    <3> QED
      BY Zenon, <2>6, <3>1, <3>2
  <2>7. CASE state' \in {"s_data_resp_wb", "s_data_resp_wb_done"}
    <3>1. state = "s_data_read_wb" \/ state = "s_data_resp_wb"
      <4>1. state = "s_data_resp_wb_done" => data_resp.valid /\ wb_data_cnt = Beats - 1
        BY Zenon, <1>0 DEF EvictInv
      <4> QED
        BY Zenon, <2>7, <4>1, Predecessors
    <3>2. CASE state = "s_data_read_wb"
      <4>1. wb_data_cnt' = 0 /\ wb_read_cnt = 0
        BY Zenon, <3>2, WriteBackStep
      <4>2. b.row = wb_data_cnt' => Good(data_resp'.row)
        BY Zenon, <2>0, <2>3, <3>2, <4>1, WriteBackStep
      <4>3. ~(b.row < wb_data_cnt')
        BY <2>1, <4>1 DEF Beat
      <4> QED
        BY Zenon, <2>2, <2>7, <4>2, <4>3
    <3>3. CASE state = "s_data_resp_wb"
      <4>1. wb_data_cnt' = wb_data_cnt + 1 /\ wb_read_cnt = wb_data_cnt + 1
        BY Zenon, <3>3, WriteBackStep
      <4>2. b.row = wb_data_cnt' => Good(data_resp'.row)
        BY Zenon, <2>0, <2>3, <3>3, <4>1, WriteBackStep
      <4>3. /\ b.row < wb_data_cnt => Good(wb_data[b.row])
            /\ b.row = wb_data_cnt => Good(data_resp.row)
        BY Zenon, <1>0, <2>0, <2>2, <3>3 DEF WriteBackInv
      <4>4. ASSUME b.row < wb_data_cnt' PROVE Good(wb_data'[b.row])
        <5>1. b.row < wb_data_cnt \/ b.row = wb_data_cnt
          BY <1>0, <2>1, <4>1, <4>4 DEF Beat
        <5>2. b.row # wb_data_cnt => wb_data'[b.row] = wb_data[b.row]
          BY Zenon, <2>1, <3>3, WriteBackStep
        <5>3. wb_data'[wb_data_cnt] = data_resp.row
          BY Zenon, <3>3, WriteBackStep
        <5> QED
          BY Zenon, <4>3, <5>1, <5>2, <5>3
      <4> QED
        BY Zenon, <2>2, <2>7, <4>2, <4>4
    <3> QED
      BY Zenon, <3>1, <3>2, <3>3
  <2>8. CASE state' = "s_write_back"
    <3>1. state = "s_data_resp_wb_done" \/ state = "s_write_back"
      BY Zenon, <2>8, Predecessors
    <3>2. CASE state = "s_data_resp_wb_done"
      <4>1. wb_data_cnt = Beats - 1 /\ mem_tag_data_write_cnt' = 0
        BY Zenon, <1>0, <3>2, WriteBackStep DEF EvictInv
      <4>2. /\ b.row < wb_data_cnt => Good(wb_data[b.row])
            /\ b.row = wb_data_cnt => Good(data_resp.row)
        BY Zenon, <1>0, <2>0, <2>2, <3>2 DEF WriteBackInv
      <4>3. /\ b.row < Beats - 1 \/ b.row = wb_data_cnt
            /\ ~(b.row < mem_tag_data_write_cnt') /\ ~(mem_tag_data_write_cnt' > 0)
        BY <2>1, <4>1, ParamAssumption DEF Beat
      <4>4. Good(wb_data'[b.row])
        <5>1. b.row # wb_data_cnt => wb_data'[b.row] = wb_data[b.row]
          BY Zenon, <2>1, <3>2, WriteBackStep
        <5>2. wb_data'[wb_data_cnt] = data_resp.row
          BY Zenon, <3>2, WriteBackStep
        <5> QED
          BY Zenon, <4>1, <4>2, <4>3, <5>1, <5>2
      <4>5. b.row < Beats - 1 => Good(mem_tag_data_write'[b.row])
        BY Zenon, <4>1, <4>2, WriteBackStep
      <4> QED
        BY ZenonT(40), <2>2, <2>8, <4>3, <4>4, <4>5
    <3>3. CASE state = "s_write_back"
      <4>1. Good(wb_data'[b.row]) /\ Good(mem_tag_data_write'[b.row])
        BY Zenon, <2>5, <3>3, WriteBackStep
      <4>2. ASSUME b.row < mem_tag_data_write_cnt' PROVE Good(tags'[b.row])
        <5>1. ~(tag_beat_sent(r) /\ mem_tag_data_write_cnt = Beats - 1)
          BY Zenon, <2>8, <3>3, FsmStep DEF Cycle, Tick
        <5>2. \/ tag_beat_sent(r) /\ mem_tag_data_write_cnt' = mem_tag_data_write_cnt + 1
              \/ mem_tag_data_write_cnt' = mem_tag_data_write_cnt
          BY Zenon, <5>1, WriteBackStep
        <5>3. \/ b.row < mem_tag_data_write_cnt
              \/ tag_beat_sent(r) /\ b.row = mem_tag_data_write_cnt
          BY <1>0, <2>1, <4>2, <5>2 DEF Beat
        <5> QED
          BY ZenonT(40), <2>6, <3>3, <5>3
      <4> QED
        BY ZenonT(40), <2>2, <2>8, <4>1, <4>2
    <3> QED
      BY Zenon, <3>1, <3>2, <3>3
  <2>9. CASE state' = "s_write_back_wait_b"
    <3>1. state = "s_write_back" \/ state = "s_write_back_wait_b"
      BY Zenon, <2>9, Predecessors
    <3>2. CASE state = "s_write_back"
      <4>1. tag_beat_sent(r) /\ mem_tag_data_write_cnt = Beats - 1
        BY ZenonT(40), <2>9, <3>2, FsmStep DEF Cycle, Tick
      <4>2. b.row < mem_tag_data_write_cnt \/ b.row = mem_tag_data_write_cnt
        BY <2>1, <4>1, ParamAssumption DEF Beat
      <4> QED
        BY Zenon, <2>2, <2>6, <2>9, <3>2, <4>1, <4>2
    <3>3. CASE state = "s_write_back_wait_b"
      <4>1. Good(tags[b.row])
        BY Zenon, <1>0, <2>0, <2>2, <3>3 DEF WriteBackInv
      <4> QED
        BY Zenon, <2>2, <2>4, <2>9, <3>3, <4>1, WriteBackStep
    <3> QED
      BY Zenon, <3>1, <3>2, <3>3
  <2> QED
    BY Zenon, <1>2, <2>7, <2>8, <2>9 DEF Evicting
<1> QED
  BY Zenon, <1>1, <1>2 DEF WriteBackInv, Evicting
=============================================================================
