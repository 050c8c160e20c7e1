--------------------------- MODULE TagCacheControl --------------------------
(***************************************************************************)
(* Proofs about the tag cache, for every value of the constants: its types *)
(* and its control, and the first half of the proof that a word arrives:   *)
(* the request, its data and its lookup.  A clock cycle is a conjunction   *)
(* of blocks that each drive their own registers, so the preservation of   *)
(* an invariant is proved block by block and put together for Tick.        *)
(*                                                                         *)
(* The memory port carries whole bursts only, the one-cycle acknowledgement*)
(* of a write is never missed, and no line is in two ways.  The first two  *)
(* follow from ControlInv, which says for every phase of the tracker who   *)
(* owns the port, how many beats have passed and what the client that is   *)
(* served does meanwhile.  The L2 is the last level cache: it sends no     *)
(* PutBlock (its writes are releases), so "Put" \notin AcqKinds.           *)
(***************************************************************************)
EXTENDS TagCache, TLAPS

-----------------------------------------------------------------------------
(* Types.                                                                  *)

\* The values registers are cleared to have the registers' types.
LEMMA JunkTypes ==
  /\ JunkEntry \in Entry /\ JunkLine \in [Beat -> Row]
  /\ NoMeta \in Meta /\ \A i \in Xacts : IdleCl(i) \in Client
  /\ \A x \in Vals : Payload(x) \in Entry
  /\ JunkLine[0] \in Row
<1>1. JunkEntry \in Entry
  BY Zenon DEF JunkEntry, Entry, Cell
<1>2. JunkLine \in [Beat -> Row]
  BY Zenon, <1>1 DEF JunkLine, Row
<1>3. NoMeta \in Meta
  BY Zenon, ParamAssumption DEF NoMeta, Meta
<1>4. 0 \in Beat /\ 1 \in 0 .. Beats
  BY ParamAssumption DEF Beat
<1>5. \A i \in Xacts : IdleCl(i) \in Client
  BY <1>4, ParamAssumption DEF IdleCl, Client, Cell, Beat
<1>6. \A x \in Vals : Payload(x) \in Entry
  BY Zenon DEF Payload, Entry, Cell
<1> QED
  BY Zenon, <1>1, <1>2, <1>3, <1>4, <1>5, <1>6

\* A counter stays within its buffer.
LEMMA CountType ==
  ASSUME NEW n \in Beat, NEW c PROVE Count(n, c) \in Beat
BY ParamAssumption DEF Count, Beat

\* The reset state has the types.
LEMMA InitType == Init => TypeOK
<1> SUFFICES ASSUME Init PROVE TypeOK
  OBVIOUS
<1>0. 0 \in Beat
  BY ParamAssumption DEF Beat
<1>1. TrackerOK
  BY Zenon DEF Init, TrackerOK, States
<1>2. CountersOK
  BY Zenon, <1>0 DEF Init, CountersOK
<1>3. BuffersOK
  BY Zenon, JunkTypes DEF Init, BuffersOK, Cell
<1>4. ArraysOK
  <2>0. data_resp = [valid |-> FALSE, row |-> JunkLine[0]] /\ JunkLine[0] \in Row
    BY Zenon, JunkTypes DEF Init
  <2>1. data_resp \in [valid : BOOLEAN, row : Row]
    BY Zenon, <2>0
  <2>2. meta_resp \in [valid : BOOLEAN, hit : BOOLEAN, way_en : SUBSET Ways, meta : Meta]
    BY Zenon, JunkTypes DEF Init
  <2>3. dataArray \in [Ways -> [Sets -> [Beat -> Row]]]
    BY Zenon, JunkTypes DEF Init
  <2>4. rst_cnt \in 0 .. NSets
    BY ParamAssumption DEF Init
  <2>5. /\ acq_repl_meta \in Meta /\ acq_way_en \in SUBSET Ways
        /\ metaArray \in [Sets -> [Ways -> Meta]] /\ meta_s1 \in BOOLEAN
    BY Zenon, JunkTypes DEF Init
  <2> QED
    BY Zenon, <2>1, <2>2, <2>3, <2>4, <2>5 DEF ArraysOK
<1>5. MemoryOK
  BY Zenon, JunkTypes, ParamAssumption DEF Init, MemoryOK, Port, Row
<1>6. L2OK
  <2>1. \A i \in Xacts : cl[i] = IdleCl(i) /\ cl[i].avail <= MsgBeats(cl[i])
    BY ParamAssumption DEF Init, IdleCl, MsgBeats
  <2> QED
    BY Zenon, <2>1, JunkTypes, ParamAssumption DEF Init, L2OK
<1> QED
  BY Zenon, <1>1, <1>2, <1>3, <1>4, <1>5, <1>6 DEF TypeOK

\* The presented acquire and the release belong to transactors of the L2.
LEMMA ClientTypes ==
  ASSUME L2OK
  PROVE  /\ AcqValid => acq \in Ids
         /\ \A i \in Xacts : /\ cl[i] \in Client
                             /\ <<cl[i].val, cl[i].sent>> \in Cell
         /\ Wb \in Xacts /\ Ids \subseteq Xacts
<1>1. \A i \in Xacts : cl[i] \in Client
  BY Zenon DEF L2OK
<1>2. \A i \in Xacts : <<cl[i].val, cl[i].sent>> \in Cell
  BY Zenon, <1>1 DEF Client, Cell
<1> QED
  BY Zenon, <1>1, <1>2 DEF L2OK, AcqValid, Xacts

\* The request registers keep their types when a request is taken and finished.
LEMMA RequestType ==
  ASSUME TypeOK, NEW v, Request(v)
  PROVE  /\ is_read' \in BOOLEAN /\ is_write' \in BOOLEAN /\ is_acq' \in BOOLEAN
         /\ read_multiple_data' \in BOOLEAN /\ acq_data_process' \in BOOLEAN
         /\ tag_out' \in Xacts /\ addr_out' \in ReqBlocks
<1> USE DEF TypeOK
<1>1. cl[Wb].blk \in ReqBlocks /\ (AcqValid => cl[acq].blk \in ReqBlocks)
  BY Zenon, ClientTypes DEF Client
<1> QED
  BY Zenon, <1>1, ClientTypes DEF Request, TrackerOK, reqVars

\* The read buffers and their counter keep their types.
LEMMA ReceiveType ==
  ASSUME TypeOK, NEW v \in BOOLEAN, Receive(v), Memory(TRUE, v) \/ Memory(FALSE, v)
  PROVE  /\ nr_cnt' \in Beat /\ mem_acq_data_read' \in Entry
         /\ mem_tag_data_read' \in [Beat -> Row]
<1> USE DEF TypeOK
<1>1. nr_cnt' \in Beat
  BY Zenon, CountType DEF Receive, CountersOK
<1>2. mem_acq_data_read' \in Entry
  <2>1. ASSUME port.op = "get", port.sp = "data" PROVE dmem[port.blk][port.cnt] \in Cell
    BY <2>1 DEF MemoryOK, Port, NoPort, Entry
  <2> QED
    BY Zenon, <2>1, JunkTypes DEF Receive, BuffersOK, CountersOK, Entry, Cell
<1>3. mem_tag_data_read' \in [Beat -> Row]
  <2>1. ASSUME port.op = "get", port.sp = "tag"
        PROVE  tmem[port.ta.dram][port.ta.line][port.cnt] \in Row
    BY <2>1 DEF MemoryOK, Port, NoPort, TagAddress
  <2>2. JunkLine[nr_cnt] \in Row
    BY Zenon, JunkTypes DEF CountersOK
  <2> QED
    BY Zenon, <2>1, <2>2, JunkTypes DEF Receive, BuffersOK, CountersOK
<1> QED
  BY Zenon, <1>1, <1>2, <1>3

\* The beats of a write are collected within acq_data.
LEMMA CollectType ==
  ASSUME TypeOK, NEW r, Collect(r)
  PROVE  /\ acq_data_cnt' \in Beat /\ collect_acq_data' \in BOOLEAN
         /\ acq_data' \in Entry
<1> USE DEF TypeOK
<1>1. acq_data_cnt' \in Beat
  BY Zenon, CountType DEF Collect, CountersOK
<1>2. collect_acq_data' \in BOOLEAN
  BY Zenon DEF Collect, TrackerOK, RelValid, acq_data_done
<1>3. acq_data' \in Entry
  <2> DEFINE i == IF is_acq THEN acq ELSE Wb
  <2>1. (IF i = NoId THEN Junk ELSE <<cl[i].val, cl[i].sent>>) \in Cell
    BY Zenon, ClientTypes DEF L2OK, Cell
  <2> HIDE DEF i
  <2> QED
    BY Zenon, <2>1, JunkTypes DEF Collect, BuffersOK, CountersOK, Entry, i
<1> QED
  BY Zenon, <1>1, <1>2, <1>3

\* The grant registers keep their types.
LEMMA GrantType ==
  ASSUME TypeOK, GrantHandler
  PROVE  /\ gnt_enable' \in BOOLEAN /\ gnt_data' \in [Beat -> Cell \X Cell]
         /\ gnt_data_cnt' \in Beat
<1> USE DEF TypeOK
<1>1. gnt_enable' \in BOOLEAN
  BY Zenon DEF GrantHandler, TrackerOK
<1>2. gnt_data' \in [Beat -> Cell \X Cell]
  BY Zenon DEF GrantHandler, BuffersOK, Entry
<1>3. gnt_data_cnt' \in Beat
  BY Zenon, CountType DEF GrantHandler, CountersOK
<1> QED
  BY Zenon, <1>1, <1>2, <1>3

\* The write-back and the refill buffers keep their types.
LEMMA BufferType ==
  ASSUME TypeOK, NEW r, WriteBack(r), Refill
  PROVE  /\ wb_read_cnt' \in Beat /\ wb_data_cnt' \in Beat
         /\ mem_tag_data_write_cnt' \in Beat /\ refill_data_cnt' \in Beat
         /\ wb_data' \in [Beat -> Row] /\ mem_tag_data_write' \in [Beat -> Row]
         /\ refill_data' \in [Beat -> Row]
<1> USE DEF TypeOK
<1>1. /\ wb_read_cnt' \in Beat /\ wb_data_cnt' \in Beat
      /\ mem_tag_data_write_cnt' \in Beat /\ refill_data_cnt' \in Beat
  BY Zenon, CountType DEF WriteBack, Refill, CountersOK
<1>2. data_resp.row \in Row
  BY Zenon DEF ArraysOK
<1>3. wb_data' \in [Beat -> Row]
  BY Zenon, <1>2, JunkTypes DEF WriteBack, BuffersOK, CountersOK
<1>4. mem_tag_data_write' \in [Beat -> Row] /\ refill_data' \in [Beat -> Row]
  BY Zenon DEF WriteBack, Refill, BuffersOK
<1> QED
  BY Zenon, <1>1, <1>3, <1>4

\* The tag state machine stays in its states and keeps what it latched in type.
LEMMA FsmType ==
  ASSUME TypeOK, NEW r, NEW v, Fsm(r, v)
  PROVE  /\ state' \in States /\ is_write_process' \in BOOLEAN
         /\ acq_repl_meta' \in Meta /\ acq_way_en' \in SUBSET Ways
         /\ gnt_tag' \in Entry
<1> USE DEF TypeOK
<1>1. CASE SIdle
  BY Zenon, <1>1, JunkTypes DEF SIdle, TrackerOK, ArraysOK, BuffersOK, States, RelValid
<1>2. CASE SMetaResp
  BY Zenon, <1>2 DEF SMetaResp, TrackerOK, ArraysOK, BuffersOK, States, Access
<1>3. CASE SDataRespHit
  <2>1. data_resp.row[addr_out.slot] \in Entry
    BY Zenon, ParamAssumption DEF ArraysOK, TrackerOK, Row, Block
  <2> QED
    BY Zenon, <1>3, <2>1 DEF SDataRespHit, TrackerOK, ArraysOK, States
<1>4. CASE SBusy
  BY Zenon, <1>4 DEF SBusy, TrackerOK, ArraysOK, BuffersOK, States
<1>5. ASSUME NEW s, GoTo(s), s \in States
      PROVE  /\ state' \in States /\ is_write_process' \in BOOLEAN
             /\ acq_repl_meta' \in Meta /\ acq_way_en' \in SUBSET Ways
             /\ gnt_tag' \in Entry
  BY Zenon, <1>5 DEF GoTo, TrackerOK, ArraysOK, BuffersOK
<1>6. \/ SIdle \/ SMetaResp \/ SDataRespHit \/ SBusy
      \/ \E s \in States : GoTo(s)
  BY Zenon DEF Fsm, SMetaRead, SDataReadHit, SDataWriteHit, SDataReadWb, SDataRespWb,
         SDataRespWbDone, SWriteBack, SWriteBackWaitB, SMemReq, SDataWriteRefill,
         SMetaWriteRefill, SMetaWriteHit, SGnt, MoveIf, Access, States
<1> QED
  BY Zenon, <1>1, <1>2, <1>3, <1>4, <1>5, <1>6

\* The metadata array, its sweep and its response keep their types.
LEMMA MetadataType ==
  ASSUME TypeOK, NEW w \in Ways, MetadataArray(w)
  PROVE  /\ rst_cnt' \in 0 .. NSets /\ metaArray' \in [Sets -> [Ways -> Meta]]
         /\ meta_s1' \in BOOLEAN
         /\ meta_resp' \in [valid : BOOLEAN, hit : BOOLEAN, way_en : SUBSET Ways,
                            meta : Meta]
<1> USE DEF TypeOK
<1>0. addr_out.idx \in Sets /\ addr_out.tag \in Tags
  BY Zenon, ParamAssumption DEF TrackerOK, Block
<1>1. rst_cnt' \in 0 .. NSets
  <2>1. rst_cnt \in 0 .. NSets /\ NSets \in Nat
    BY Zenon, ParamAssumption DEF ArraysOK
  <2>2. rst_cnt' = IF rst_cnt < NSets THEN rst_cnt + 1 ELSE rst_cnt
    BY Zenon DEF MetadataArray, rst
  <2> HIDE DEF TypeOK
  <2> QED
    BY <2>1, <2>2
<1>2. metaArray' \in [Sets -> [Ways -> Meta]]
  <2>1. \A d \in BOOLEAN : addrToTag(addr_out, d) \in Meta
    BY <1>0 DEF addrToTag, Meta, isDramAddress
  <2>2. (state = "s_meta_write_hit") \in BOOLEAN
    OBVIOUS
  <2>3. CASE rst
    <3>1. [x \in Ways |-> NoMeta] \in [Ways -> Meta]
      BY Zenon, JunkTypes
    <3>2. metaArray' = [metaArray EXCEPT ![rst_cnt] = [x \in Ways |-> NoMeta]]
      BY Zenon, <2>3 DEF MetadataArray
    <3> QED
      BY Zenon, <3>1, <3>2 DEF ArraysOK
  <2>4. CASE ~rst /\ state \in {"s_meta_write_refill", "s_meta_write_hit"}
    <3> DEFINE word == addrToTag(addr_out, state = "s_meta_write_hit")
               new  == [x \in Ways |-> IF x \in acq_way_en THEN word
                                       ELSE metaArray[addr_out.idx][x]]
    <3>0. word \in Meta
      BY Zenon, <2>1, <2>2
    <3> HIDE DEF word
    <3>1. new \in [Ways -> Meta]
      BY <1>0, <3>0 DEF ArraysOK
    <3>2. metaArray' = [metaArray EXCEPT ![addr_out.idx] = new]
      BY Zenon, <2>4, <1>0 DEF MetadataArray, ArraysOK, word
    <3> QED
      BY Zenon, <3>1, <3>2 DEF ArraysOK
  <2>5. CASE ~rst /\ state \notin {"s_meta_write_refill", "s_meta_write_hit"}
    BY Zenon, <2>5 DEF MetadataArray, ArraysOK
  <2> QED
    BY Zenon, <2>3, <2>4, <2>5
<1>3. meta_s1' \in BOOLEAN
  BY Zenon DEF MetadataArray
<1>4. meta_resp' \in [valid : BOOLEAN, hit : BOOLEAN, way_en : SUBSET Ways, meta : Meta]
  <2> DEFINE match == {x \in Ways : /\ metaArray[addr_out.idx][x].valid
                                    /\ metaArray[addr_out.idx][x].tag = addr_out.tag}
             c == IF match # {} THEN CHOOSE y \in match : TRUE ELSE w
  <2>1. match \subseteq Ways /\ {w} \subseteq Ways /\ c \in Ways
    OBVIOUS
  <2>2. metaArray[addr_out.idx][c] \in Meta
    <3>1. metaArray \in [Sets -> [Ways -> Meta]]
      BY Zenon DEF ArraysOK
    <3> HIDE DEF c, TypeOK
    <3> QED
      BY Zenon, <1>0, <2>1, <3>1
  <2>3. meta_s1 => meta_resp' = [valid |-> TRUE, hit |-> match # {},
                                 way_en |-> IF match # {} THEN match ELSE {w},
                                 meta |-> metaArray[addr_out.idx][c]]
    BY Zenon DEF MetadataArray
  <2>4. ~meta_s1 => meta_resp' = [meta_resp EXCEPT !.valid = FALSE]
    BY Zenon DEF MetadataArray
  <2> HIDE DEF match, c
  <2>5. PICK h \in BOOLEAN : h = (match # {})
    BY Zenon
  <2>6. CASE meta_s1
    <3>1. PICK en \in SUBSET Ways : en = IF match # {} THEN match ELSE {w}
      BY Zenon, <2>1
    <3>2. meta_resp' = [valid |-> TRUE, hit |-> h, way_en |-> en,
                        meta |-> metaArray[addr_out.idx][c]]
      BY Zenon, <2>3, <2>5, <2>6, <3>1
    <3> QED
      BY Zenon, <2>2, <3>2
  <2>7. CASE ~meta_s1
    BY Zenon, <2>4, <2>7 DEF ArraysOK
  <2> QED
    BY Zenon, <2>6, <2>7
<1> QED
  BY Zenon, <1>1, <1>2, <1>3, <1>4

\* The data array and its response keep their types.
LEMMA DataArrayType ==
  ASSUME TypeOK, DataArray
  PROVE  /\ dataArray' \in [Ways -> [Sets -> [Beat -> Row]]]
         /\ data_resp' \in [valid : BOOLEAN, row : Row]
<1> USE DEF TypeOK
<1>0. addr_out.idx \in Sets /\ addr_out.row \in Beat /\ addr_out.slot \in Slot
  BY Zenon, ParamAssumption DEF TrackerOK, Block
<1>1. dataArray' \in [Ways -> [Sets -> [Beat -> Row]]]
  <2>1. ASSUME NEW x \in Ways PROVE dataArray'[x] \in [Sets -> [Beat -> Row]]
    <3>0. dataArray[x] \in [Sets -> [Beat -> Row]]
      BY Zenon DEF ArraysOK
    <3>1. [dataArray[x] EXCEPT ![addr_out.idx][addr_out.row][addr_out.slot] = acq_data]
            \in [Sets -> [Beat -> Row]]
      BY Zenon, <1>0, <3>0 DEF Row, BuffersOK
    <3>2. [dataArray[x] EXCEPT ![addr_out.idx][refill_data_cnt]
                                 = refill_data[refill_data_cnt]]
            \in [Sets -> [Beat -> Row]]
      BY Zenon, <1>0, <3>0 DEF BuffersOK, CountersOK
    <3> QED
      BY Zenon, <3>0, <3>1, <3>2 DEF DataArray
  <2>2. dataArray' = [x \in Ways |-> dataArray'[x]]
    BY Zenon DEF DataArray
  <2> QED
    BY Zenon, <2>1, <2>2
<1>2. data_resp' \in [valid : BOOLEAN, row : Row]
  <2>1. ASSUME acq_way_en # {}, NEW k \in Beat
        PROVE  dataArray[CHOOSE y \in acq_way_en : TRUE][addr_out.idx][k] \in Row
    BY <2>1, <1>0 DEF ArraysOK
  <2> DEFINE row == IF data_read_fire /\ acq_way_en # {}
                    THEN LET x == CHOOSE y \in acq_way_en : TRUE
                         IN  dataArray[x][addr_out.idx]
                               [IF state = "s_data_read_hit" THEN addr_out.row
                                ELSE wb_read_cnt]
                    ELSE JunkLine[0]
  <2>2. row \in Row
    BY Zenon, <1>0, <2>1, JunkTypes DEF CountersOK
  <2>3. data_resp' = [valid |-> data_read_fire, row |-> row]
    BY Zenon DEF DataArray
  <2> HIDE DEF row
  <2>4. CASE data_read_fire = TRUE
    <3>1. data_resp' = [valid |-> TRUE, row |-> row]
      BY Zenon, <2>3, <2>4
    <3> QED
      BY Zenon, <2>2, <3>1
  <2>5. CASE data_read_fire = FALSE
    <3>1. data_resp' = [valid |-> FALSE, row |-> row]
      BY Zenon, <2>3, <2>5
    <3> QED
      BY Zenon, <2>2, <3>1
  <2>6. data_read_fire \in BOOLEAN
    BY DEF data_read_fire
  <2> QED
    BY Zenon, <2>4, <2>5, <2>6
<1> QED
  BY Zenon, <1>1, <1>2

\* The open burst, or the one the current command opens, is a burst.
LEMMA BurstType ==
  ASSUME TypeOK PROVE Burst \in Port /\ Burst.op \in {"get", "put"}
<1> USE DEF TypeOK
<1>0. 0 \in Beat /\ 0 \in 0 .. Beats + 1
  BY ParamAssumption DEF Beat
<1>1. CASE port.op # "none"
  BY <1>1 DEF Burst, MemoryOK, Port, NoPort
<1>2. CASE port.op = "none"
  <2>1. /\ addr_out.tag \in Tags /\ addr_out.idx \in Sets
        /\ acq_repl_meta.tag \in Tags /\ meta_resp.meta.dram \in BOOLEAN
    BY ParamAssumption DEF TrackerOK, Block, ArraysOK, Meta
  <2>2. /\ tagAddrConv(addrFromTag(acq_repl_meta, addr_out), meta_resp.meta.dram)
             \in TagAddress
        /\ tagAddrConv(lineOf(addr_out), isDramAddress(addr_out)) \in TagAddress
    BY <2>1 DEF tagAddrConv, addrFromTag, lineOf, isDramAddress, TagAddress, Line
  <2> QED
    BY Zenon, <1>0, <1>2, <2>2 DEF Burst, Port, TrackerOK
<1> QED
  BY Zenon, <1>1, <1>2

\* The open burst and the two memories keep their types.
LEMMA MemoryType ==
  ASSUME TypeOK, NEW r \in BOOLEAN, NEW v \in BOOLEAN, Memory(r, v)
  PROVE  MemoryOK'
<1> USE DEF TypeOK
<1>0. InputCell \in Cell
  BY Zenon, ClientTypes DEF InputCell, L2OK, Cell
<1>1. CASE oacq_fire(r) /\ Burst.op = "put"
  <2>1. [Burst EXCEPT !.cnt = IF @ > Beats THEN @ ELSE @ + 1] \in Port
    BY <1>1, BurstType, ParamAssumption DEF Port, NoPort
  <2>2. port' \in Port
    BY Zenon, <1>1, <2>1 DEF Memory, Port
  <2>3. Burst.cnt < Beats => Burst.cnt \in Beat
    BY <1>1, BurstType, ParamAssumption DEF Port, NoPort, Beat
  <2>4. dmem' \in [ReqBlocks -> Entry]
    <3>1. CASE dmem' = dmem
      BY Zenon, <3>1 DEF MemoryOK
    <3>2. CASE /\ dmem' = [dmem EXCEPT ![Burst.blk][Burst.cnt] = InputCell]
               /\ Burst.cnt \in Beat /\ Burst.sp # "tag"
      <4>1. Burst.blk \in ReqBlocks
        BY <1>1, <3>2, BurstType DEF Port, NoPort
      <4> QED
        BY Zenon, <1>0, <3>2, <4>1 DEF MemoryOK, Entry
    <3>3. Burst.cnt \in Int
      BY BurstType, ParamAssumption DEF Port, NoPort, Beat
    <3> QED
      BY <1>1, <2>3, <3>1, <3>2, <3>3, ParamAssumption DEF Memory
  <2>5. tmem' \in [BOOLEAN -> [Line -> [Beat -> Row]]]
    <3>1. CASE tmem' = tmem
      BY Zenon, <3>1 DEF MemoryOK
    <3>2. CASE /\ tmem' = [tmem EXCEPT ![Burst.ta.dram][Burst.ta.line][Burst.cnt]
                                         = mem_tag_data_write[mem_tag_data_write_cnt]]
               /\ Burst.cnt \in Beat /\ Burst.sp = "tag"
      <4>1. Burst.ta.dram \in BOOLEAN /\ Burst.ta.line \in Line
        BY <1>1, <3>2, BurstType DEF Port, NoPort, TagAddress
      <4>2. mem_tag_data_write[mem_tag_data_write_cnt] \in Row
        BY Zenon DEF BuffersOK, CountersOK
      <4> QED
        BY Zenon, <3>2, <4>1, <4>2 DEF MemoryOK
    <3>3. Burst.cnt \in Int
      BY BurstType, ParamAssumption DEF Port, NoPort, Beat
    <3> QED
      BY <1>1, <2>3, <3>1, <3>2, <3>3, ParamAssumption DEF Memory
  <2> QED
    BY Zenon, <2>2, <2>4, <2>5 DEF MemoryOK
<1>2. CASE oacq_fire(r) /\ Burst.op = "get"
  BY Zenon, <1>2, BurstType DEF Memory, MemoryOK
<1>3. CASE ~oacq_fire(r) /\ ognt_fire(v)
  <2>1. port.op \in {"get", "put"}
    BY Zenon, <1>3 DEF Memory, CanRespond, ognt_fire
  <2>2. port.op = "get" /\ port.cnt # Beats - 1 => [port EXCEPT !.cnt = @ + 1] \in Port
    <3> SUFFICES ASSUME port.op = "get", port.cnt # Beats - 1
                 PROVE  [port EXCEPT !.cnt = @ + 1] \in Port
      OBVIOUS
    <3>1. port.cnt \in Beat /\ port.cnt + 1 \in Beat
      BY ParamAssumption DEF MemoryOK, Port, NoPort, Beat
    <3>2. \/ port \in [op : {"get"}, sp : {"data"}, cnt : Beat, blk : ReqBlocks]
          \/ port \in [op : {"get"}, sp : {"tag"}, cnt : Beat, ta : TagAddress]
      BY DEF MemoryOK, Port, NoPort
    <3> QED
      BY Zenon, <3>1, <3>2 DEF Port
  <2>3. port' \in Port
    BY Zenon, <1>3, <2>1, <2>2 DEF Memory, Port
  <2> QED
    BY Zenon, <1>3, <2>3 DEF Memory, MemoryOK
<1>4. CASE ~oacq_fire(r) /\ ~ognt_fire(v)
  BY Zenon, <1>4 DEF Memory, MemoryOK, memVars
<1> QED
  BY Zenon, <1>1, <1>2, <1>3, <1>4, BurstType

\* What a transactor does by itself.
Starts(j, c) ==
  /\ cl[j].st = "idle"
  /\ \/ /\ j \in Ids
        /\ \E k \in AcqKinds, b \in ReqBlocks, x \in Vals : c = Message(j, "outer", k, b, x)
     \/ /\ j \in Ids
        /\ \E b \in ReqBlocks, x \in Vals : c = Message(j, "wb", "Get", b, x)
     \/ /\ j = Wb
        /\ \E b \in ReqBlocks, x \in Vals : c = Message(j, "outer", "Rel", b, x)
Fetches(j, c) ==
  /\ cl[j].st = "outer" /\ cl[j].avail < MsgBeats(cl[j])
  /\ c = [cl[j] EXCEPT !.avail = @ + 1]

\* In every cycle a transactor stands still, starts, or fetches a beat.
LEMMA OwnMoves ==
  ASSUME L2OK, NEW m \in Moves, NEW j \in Xacts
  PROVE  m[j] = cl[j] \/ Starts(j, m[j]) \/ Fetches(j, m[j])
<1>0. cl = [i \in Xacts |-> cl[i]]
  BY Zenon DEF L2OK
<1>1. CASE m = cl
  BY Zenon, <1>1
<1>2. ASSUME NEW p \in Ids \X AcqKinds \X (ReqBlocks \ InFlight) \X Vals,
             cl[p[1]].st = "idle",
             m = [cl EXCEPT ![p[1]] = Message(p[1], "outer", p[2], p[3], p[4])]
      PROVE  m[j] = cl[j] \/ Starts(j, m[j])
  <2>1. p[1] \in Ids /\ p[2] \in AcqKinds /\ p[3] \in ReqBlocks /\ p[4] \in Vals
    BY Zenon, <1>2
  <2>2. CASE j = p[1]
    BY Zenon, <1>0, <1>2, <2>1, <2>2 DEF Starts
  <2>3. CASE j # p[1]
    BY Zenon, <1>0, <1>2, <2>3
  <2> QED
    BY Zenon, <2>2, <2>3
<1>3. ASSUME NEW p \in Ids \X (ReqBlocks \ InFlight) \X (ReqBlocks \ InFlight) \X Vals,
             cl[p[1]].st = "idle", cl[Wb].st = "idle",
             m = [cl EXCEPT ![p[1]] = Message(p[1], "wb", "Get", p[2], InitVal),
                            ![Wb] = Message(Wb, "outer", "Rel", p[3], p[4])]
      PROVE  m[j] = cl[j] \/ Starts(j, m[j])
  <2>1. p[1] \in Ids /\ p[2] \in ReqBlocks /\ p[3] \in ReqBlocks /\ p[4] \in Vals
    BY Zenon, <1>3
  <2>2. CASE j = Wb
    <3>1. m[j] = Message(Wb, "outer", "Rel", p[3], p[4])
      BY Zenon, <1>0, <1>3, <2>2
    <3> QED
      BY Zenon, <1>3, <2>1, <2>2, <3>1 DEF Starts
  <2>3. CASE j = p[1] /\ j # Wb
    <3>1. m[j] = Message(p[1], "wb", "Get", p[2], InitVal)
      BY Zenon, <1>0, <1>3, <2>3
    <3> QED
      BY Zenon, <1>3, <2>1, <2>3, <3>1, ParamAssumption DEF Starts
  <2>4. CASE j # p[1] /\ j # Wb
    BY Zenon, <1>0, <1>3, <2>4
  <2> QED
    BY Zenon, <2>2, <2>3, <2>4
<1>4. ASSUME NEW i \in Xacts, cl[i].st = "outer", cl[i].avail < MsgBeats(cl[i]),
             m = [cl EXCEPT ![i].avail = @ + 1]
      PROVE  m[j] = cl[j] \/ Fetches(j, m[j])
  BY Zenon, <1>0, <1>4 DEF Fetches
<1> QED
  BY Zenon, <1>1, <1>2, <1>3, <1>4 DEF Moves

\* A transactor after one cycle.
LEMMA TransactorStep ==
  ASSUME L2OK, NEW r, NEW m \in Moves, Transactors(r, m), NEW j \in Xacts
  PROVE  \/ /\ (tl_acquire_fire(r) /\ j = acq) \/ (tl_release_fire(r) /\ j = Wb)
            /\ cl'[j] = Sent(cl[j])
         \/ tl_grant_fire /\ j = tag_out /\ cl'[j] = Granted(j)
         \/ /\ tl_grant_fire /\ tag_out = Wb /\ cl[j].st = "wb"
            /\ cl'[j] = [cl[j] EXCEPT !.st = "outer"]
         \/ cl'[j] = cl[j] \/ Starts(j, cl'[j]) \/ Fetches(j, cl'[j])
BY Zenon, OwnMoves DEF Transactors

\* The transactors, the arbiter, the finish queue and the history keep their types.
LEMMA L2Type ==
  ASSUME TypeOK, NEW r, NEW m \in Moves,
         Transactors(r, m), OuterArbiter(r), FinishUnit, Completion
  PROVE  L2OK'
<1> USE DEF TypeOK
<1>1. ASSUME NEW j \in Xacts
      PROVE  cl'[j] \in Client /\ cl'[j].avail <= MsgBeats(cl'[j])
  <2>0. /\ cl[j] \in Client /\ cl[j].avail <= MsgBeats(cl[j])
        /\ MsgBeats(cl[j]) \in 1 .. Beats
    BY ParamAssumption DEF L2OK, MsgBeats
  <2>1. CASE /\ (tl_acquire_fire(r) /\ j = acq) \/ (tl_release_fire(r) /\ j = Wb)
             /\ cl'[j] = Sent(cl[j])
    <3>1. cl[j].sent < cl[j].avail
      BY Zenon, <2>1 DEF tl_acquire_fire, tl_release_fire, AcqValid, RelValid
    <3>2. 0 \in Beat /\ 0 \in 0 .. Beats
      BY ParamAssumption DEF Beat
    <3>3. CASE cl[j].sent + 1 = MsgBeats(cl[j])
      <4>1. cl'[j] = [cl[j] EXCEPT !.st = "busy", !.sent = 0, !.avail = 0]
        BY Zenon, <2>1, <3>3 DEF Sent
      <4>2. cl'[j] \in Client /\ cl'[j].avail = 0 /\ cl'[j].kind = cl[j].kind
        BY Zenon, <2>0, <3>2, <4>1 DEF Client
      <4> QED
        BY <2>0, <4>2, ParamAssumption DEF MsgBeats
    <3>4. CASE cl[j].sent + 1 # MsgBeats(cl[j])
      <4>1. cl'[j] = [cl[j] EXCEPT !.sent = @ + 1]
        BY Zenon, <2>1, <3>4 DEF Sent
      <4>2. cl[j].sent + 1 \in Beat
        BY <2>0, <3>1, <3>4, ParamAssumption DEF Client, Beat
      <4>3. /\ cl'[j] \in Client /\ cl'[j].avail = cl[j].avail
            /\ cl'[j].kind = cl[j].kind
        BY Zenon, <2>0, <4>1, <4>2 DEF Client
      <4> QED
        BY Zenon, <2>0, <4>3 DEF MsgBeats
    <3> QED
      BY Zenon, <3>3, <3>4
  <2>2. CASE tl_grant_fire /\ j = tag_out /\ cl'[j] = Granted(j)
    <3>0. IdleCl(j).avail = 0 /\ IdleCl(j) \in Client
      BY Zenon, JunkTypes DEF IdleCl
    <3>1. IdleCl(j).avail <= MsgBeats(IdleCl(j))
      BY <3>0, ParamAssumption DEF MsgBeats
    <3>2. [cl[j].buf EXCEPT ![gnt_data_cnt] = gnt_data[gnt_data_cnt]]
            \in [Beat -> Cell \X Cell]
      BY Zenon, <2>0 DEF Client, BuffersOK, CountersOK
    <3>3. [cl[j] EXCEPT !.buf[gnt_data_cnt] = gnt_data[gnt_data_cnt]] \in Client
      BY Zenon, <2>0, <3>2 DEF Client
    <3>4. CASE grant_last
      BY Zenon, <2>2, <3>0, <3>1, <3>4 DEF Granted
    <3>5. CASE ~grant_last
      <4>1. cl'[j] = [cl[j] EXCEPT !.buf[gnt_data_cnt] = gnt_data[gnt_data_cnt]]
        BY Zenon, <2>2, <3>5 DEF Granted
      <4>2. cl'[j].avail = cl[j].avail /\ cl'[j].kind = cl[j].kind
        BY Zenon, <2>0, <4>1 DEF Client
      <4> QED
        BY Zenon, <2>0, <3>3, <4>1, <4>2 DEF MsgBeats
    <3> QED
      BY Zenon, <3>4, <3>5
  <2>3. CASE cl'[j] = [cl[j] EXCEPT !.st = "outer"]
    BY Zenon, <2>0, <2>3 DEF Client, MsgBeats
  <2>4. CASE Starts(j, cl'[j])
    <3>1. ASSUME NEW st \in {"outer", "wb"}, NEW k \in {"Get", "Put", "Rel"},
                 NEW b \in ReqBlocks, NEW x \in Vals
          PROVE  /\ Message(j, st, k, b, x) \in Client
                 /\ Message(j, st, k, b, x).avail <= MsgBeats(Message(j, st, k, b, x))
      <4> DEFINE c == IdleCl(j)
                 d == Message(j, st, k, b, x)
      <4>1. c \in Client /\ 1 \in 0 .. Beats
        BY JunkTypes, ParamAssumption
      <4>2. d = [c EXCEPT !.st = st, !.kind = k, !.blk = b, !.val = x, !.avail = 1]
        BY Zenon DEF Message
      <4> HIDE DEF c, d
      <4>3. d \in Client /\ d.avail = 1
        BY Zenon, <4>1, <4>2 DEF Client
      <4> QED
        BY <4>3, ParamAssumption DEF d, MsgBeats
    <3> QED
      BY Zenon, <2>4, <3>1, ParamAssumption DEF Starts
  <2>5. CASE Fetches(j, cl'[j])
    BY <2>0, <2>5 DEF Fetches, Client, MsgBeats
  <2> QED
    BY Zenon, <2>0, <2>1, <2>2, <2>3, <2>4, <2>5, TransactorStep
<1>2. cl' \in [Xacts -> Client]
  BY Zenon, <1>1 DEF Transactors
<1>3. acq' \in Ids \cup {NoId} /\ last_grant' \in Ids
  BY Zenon DEF OuterArbiter, L2OK
<1>4. finq' \in {0, 1}
  BY DEF FinishUnit, L2OK
<1>5. golden' \in [ReqBlocks -> Vals]
  BY Zenon DEF Completion, L2OK, TrackerOK, Client
<1>6. done' \in {NoId} \cup [id : Xacts, blk : ReqBlocks]
                \cup [id : Xacts, blk : ReqBlocks, ret : [Beat -> Cell \X Cell]]
  <2>1. cl[tag_out] \in Client /\ cl[tag_out].blk \in ReqBlocks
    BY Zenon DEF L2OK, TrackerOK, Client
  <2>2. [cl[tag_out].buf EXCEPT ![gnt_data_cnt] = gnt_data[gnt_data_cnt]]
           \in [Beat -> Cell \X Cell]
    BY Zenon, <2>1 DEF Client, BuffersOK, CountersOK
  <2> QED
    BY Zenon, <2>1, <2>2 DEF Completion, TrackerOK
<1> QED
  BY <1>1, <1>2, <1>3, <1>4, <1>5, <1>6 DEF L2OK

\* Every clock cycle preserves the types.
LEMMA StepType == TypeOK /\ [Next]_vars => TypeOK'
<1> SUFFICES ASSUME TypeOK, [Next]_vars PROVE TypeOK'
  OBVIOUS
<1>1. CASE Next
  <2>1. PICK r \in BOOLEAN, v \in BOOLEAN, w \in Ways, m \in Moves : Tick(r, v, w, m)
    BY Zenon, <1>1 DEF Next
  <2>2. cmd_sent' \in BOOLEAN
    BY Zenon, <2>1 DEF Tick, CmdSent
  <2>3. TrackerOK'
    BY Zenon, <2>1, <2>2, RequestType, CollectType, GrantType, FsmType DEF Tick, TrackerOK
  <2>4. CountersOK'
    BY Zenon, <2>1, ReceiveType, CollectType, GrantType, BufferType DEF Tick, CountersOK
  <2>5. BuffersOK'
    BY Zenon, <2>1, ReceiveType, CollectType, GrantType, BufferType, FsmType
       DEF Tick, BuffersOK
  <2>6. ArraysOK'
    BY Zenon, <2>1, FsmType, MetadataType, DataArrayType DEF Tick, ArraysOK
  <2>7. MemoryOK'
    BY Zenon, <2>1, MemoryType DEF Tick
  <2>8. L2OK'
    BY Zenon, <2>1, L2Type DEF Tick
  <2> QED
    BY Zenon, <2>3, <2>4, <2>5, <2>6, <2>7, <2>8 DEF TypeOK
<1>2. CASE UNCHANGED vars
  <2> USE <1>2 DEF vars, reqVars, rdVars, colVars, fsmVars, wbVars, rfVars, gntVars,
        arrVars, memVars, l2Vars, TypeOK
  <2>1. TrackerOK' /\ CountersOK'
    BY DEF TrackerOK, CountersOK
  <2>2. BuffersOK' /\ ArraysOK' /\ MemoryOK'
    BY Zenon DEF BuffersOK, ArraysOK, MemoryOK
  <2>3. L2OK'
    BY Zenon DEF L2OK, MsgBeats
  <2> QED
    BY Zenon, <2>1, <2>2, <2>3
<1> QED
  BY Zenon, <1>1, <1>2

\* Every register keeps its type: no counter leaves its buffer, the port's burst
\* is well formed, and the finish queue holds at most one finish.
THEOREM TypeCorrect == Spec => []TypeOK
BY InitType, StepType, PTL DEF Spec

-----------------------------------------------------------------------------
(* Control.                                                                *)


fired(j, r) == \/ tl_acquire_fire(r) /\ j = acq
               \/ tl_release_fire(r) /\ j = Wb

\* Only a transactor that sends can have a beat accepted.
LEMMA FiredSends ==
  ASSUME TypeOK, L2Inv, NEW r, NEW j \in Xacts, fired(j, r)
  PROVE  cl[j].st = "outer" /\ cl[j].sent < cl[j].avail
<1>1. acq # NoId => acq \in Ids
  BY Zenon DEF TypeOK, L2OK
<1> QED
  BY Zenon, <1>1 DEF fired, tl_acquire_fire, tl_release_fire, AcqValid, RelValid, L2Inv

\* The state of a transactor after one cycle.
LEMMA ClientStep ==
  ASSUME "Put" \notin AcqKinds, TypeOK, L2Inv,
         NEW r, NEW m \in Moves, Transactors(r, m), NEW j \in Xacts
  PROVE  /\ fired(j, r) => cl'[j] = Sent(cl[j])
         /\ cl[j].st = "outer" /\ ~fired(j, r)
              => cl'[j].st = "outer" /\ cl'[j].sent = cl[j].sent
         /\ cl[j].st = "busy"
              => cl'[j].st = IF grant_last /\ j = tag_out THEN "idle" ELSE "busy"
         /\ cl[j].st \in {"idle", "wb"} => cl'[j].st # "busy"
         /\ cl[j].st \in {"idle", "wb"} /\ cl'[j].st = "outer" /\ j = Wb
              => cl'[j].sent = 0
<1>0. cl[j] \in Client /\ L2OK
  BY Zenon DEF TypeOK, L2OK
<1>1. fired(j, r) => cl'[j] = Sent(cl[j])
  BY Zenon DEF fired, Transactors
<1>2. CASE fired(j, r)
  BY Zenon, <1>1, <1>2, FiredSends
<1>3. CASE ~fired(j, r) /\ tl_grant_fire /\ j = tag_out /\ cl'[j] = Granted(j)
  <2>1. cl[j].st = "busy"
    BY Zenon, <1>3 DEF tl_grant_fire, tl_grant_ready
  <2>2. IdleCl(j).st = "idle"
    BY Zenon DEF IdleCl
  <2> QED
    BY Zenon, <1>0, <1>3, <2>1, <2>2 DEF Granted, Client
<1>4. CASE ~fired(j, r) /\ ~(tl_grant_fire /\ j = tag_out)
  <2>1. ~(grant_last /\ j = tag_out)
    BY Zenon, <1>4 DEF grant_last
  <2>2. CASE cl[j].st = "wb" /\ cl'[j] = [cl[j] EXCEPT !.st = "outer"]
    BY Zenon, <1>0, <1>4, <2>2 DEF Client, L2Inv
  <2>3. CASE cl'[j] = cl[j]
    BY Zenon, <1>4, <2>1, <2>3, <1>0 DEF Client, L2Inv
  <2>4. CASE Starts(j, cl'[j])
    <3>1. \A st, k, b, x : /\ Message(j, st, k, b, x).st = st
                           /\ Message(j, st, k, b, x).sent = 0
      BY Zenon DEF Message, IdleCl
    <3> QED
      BY <1>4, <2>1, <2>4, <3>1 DEF Starts
  <2>5. CASE Fetches(j, cl'[j])
    BY Zenon, <1>0, <1>4, <2>1, <2>5 DEF Fetches, Client
  <2> QED
    BY Zenon, <1>0, <1>4, <2>2, <2>3, <2>4, <2>5, TransactorStep DEF fired
<1>5. tl_grant_fire /\ j = tag_out /\ ~fired(j, r) => cl'[j] = Granted(j)
  BY Zenon DEF fired, Transactors
<1> QED
  BY Zenon, <1>2, <1>3, <1>4, <1>5

\* The L2 side of the invariant is preserved whatever the tracker does.
LEMMA L2Step ==
  ASSUME "Put" \notin AcqKinds, TypeOK, L2Inv,
         NEW r, NEW m \in Moves, Transactors(r, m), OuterArbiter(r)
  PROVE  L2Inv'
<1>0. L2OK /\ \A j \in Xacts : cl[j] \in Client
  BY Zenon DEF TypeOK, L2OK
<1>1. ASSUME NEW i \in Ids
      PROVE  /\ cl'[i].kind = "Get"
             /\ cl'[i].st \in {"wb", "outer"} => cl'[i].sent = 0 /\ cl'[i].avail = 1
  <2>0. /\ i \in Xacts /\ i # Wb /\ cl[i].kind = "Get" /\ MsgBeats(cl[i]) = 1
        /\ cl[i].st \in {"wb", "outer"} => cl[i].sent = 0 /\ cl[i].avail = 1
    BY Zenon, ParamAssumption DEF L2Inv, Xacts, MsgBeats
  <2>1. CASE fired(i, r)
    <3>1. cl[i].sent = 0
      BY Zenon, <2>0, <2>1, FiredSends
    <3>2. cl'[i] = Sent(cl[i])
      BY Zenon, <2>0, <2>1, ClientStep
    <3>3. Sent(cl[i]) = [cl[i] EXCEPT !.st = "busy", !.sent = 0, !.avail = 0]
      BY <2>0, <3>1 DEF Sent
    <3> QED
      BY <1>0, <2>0, <3>2, <3>3 DEF Client
  <2>2. CASE tl_grant_fire /\ i = tag_out /\ cl'[i] = Granted(i)
    <3>1. cl[i].st = "busy"
      BY Zenon, <2>2 DEF tl_grant_fire, tl_grant_ready
    <3>2. IdleCl(i).st = "idle" /\ IdleCl(i).kind = "Get"
      BY Zenon, <2>0 DEF IdleCl
    <3> QED
      BY <1>0, <2>0, <2>2, <3>1, <3>2 DEF Granted, Client
  <2>3. CASE cl[i].st = "wb" /\ cl'[i] = [cl[i] EXCEPT !.st = "outer"]
    BY Zenon, <1>0, <2>0, <2>3 DEF Client
  <2>4. CASE cl'[i] = cl[i]
    BY Zenon, <2>0, <2>4
  <2>5. CASE Starts(i, cl'[i])
    <3>1. \A st, k, b, x : /\ Message(i, st, k, b, x).kind = k
                           /\ Message(i, st, k, b, x).sent = 0
                           /\ Message(i, st, k, b, x).avail = 1
      BY DEF Message, IdleCl
    <3>2. \A k \in AcqKinds : k = "Get"
      BY Zenon, ParamAssumption
    <3> QED
      BY <2>0, <2>5, <3>1, <3>2 DEF Starts
  <2>6. CASE Fetches(i, cl'[i])
    BY <2>0, <2>6 DEF Fetches
  <2> QED
    BY Zenon, <1>0, <2>0, <2>1, <2>2, <2>3, <2>4, <2>5, <2>6, TransactorStep DEF fired
<1>2. cl'[Wb].kind = "Rel" /\ cl'[Wb].st # "wb"
  <2>0. Wb \in Xacts /\ Wb \notin Ids /\ cl[Wb].kind = "Rel" /\ cl[Wb].st # "wb"
    BY Zenon, ParamAssumption DEF L2Inv, Xacts
  <2>1. CASE cl'[Wb] = Sent(cl[Wb])
    BY <1>0, <2>0, <2>1 DEF Sent, Client
  <2>2. CASE cl'[Wb] = Granted(Wb)
    BY <1>0, <2>0, <2>2 DEF Granted, IdleCl, Client
  <2>3. CASE cl'[Wb] = cl[Wb]
    BY Zenon, <2>0, <2>3
  <2>4. CASE Starts(Wb, cl'[Wb])
    BY Zenon, <2>0, <2>4 DEF Starts, Message, IdleCl
  <2>5. CASE Fetches(Wb, cl'[Wb])
    BY Zenon, <1>0, <2>0, <2>5 DEF Fetches, Client
  <2> QED
    BY Zenon, <1>0, <2>0, <2>1, <2>2, <2>3, <2>4, <2>5, TransactorStep
<1>3. ASSUME acq' # NoId PROVE cl'[acq'].st = "outer"
  <2>1. CASE acq = NoId
    <3>1. PICK i \in Ids : cl[i].st = "outer" /\ acq' = i
      BY Zenon, <1>3, <2>1 DEF OuterArbiter
    <3>2. i \in Xacts /\ ~fired(i, r)
      BY Zenon, <2>1, ParamAssumption DEF fired, tl_acquire_fire, AcqValid, Xacts
    <3> QED
      BY Zenon, <3>1, <3>2, ClientStep
  <2>2. CASE acq # NoId
    <3>1. acq \in Ids /\ acq \in Xacts /\ acq # Wb /\ acq' = acq
      BY Zenon, <1>0, <1>3, <2>2, ParamAssumption DEF OuterArbiter, L2OK, Xacts
    <3>2. cl[acq].st = "outer" /\ cl[acq].sent + 1 = MsgBeats(cl[acq])
      BY <2>2, <3>1 DEF L2Inv, MsgBeats
    <3>3. ~fired(acq, r)
      BY Zenon, <1>3, <2>2, <3>1, <3>2 DEF OuterArbiter, fired
    <3> QED
      BY Zenon, <3>1, <3>2, <3>3, ClientStep
  <2> QED
    BY Zenon, <2>1, <2>2
<1> QED
  BY Zenon, <1>1, <1>2, <1>3 DEF L2Inv

-----------------------------------------------------------------------------
(* One cycle of the memory port and of the tag state machine.              *)

\* What a cycle does to the open burst.
LEMMA PortStep ==
  ASSUME TypeOK, NEW r \in BOOLEAN, NEW v \in BOOLEAN, Memory(r, v)
  PROVE  /\ r => CanAccept
         /\ v => CanRespond
         /\ oacq_fire(r) /\ port.op = "none" =>
              /\ port'.op = IF sendsPut THEN "put" ELSE "get"
              /\ port'.sp = IF mem_send_tag \/ mem_receive_tag THEN "tag" ELSE "data"
              /\ port'.cnt = IF sendsPut THEN 1 ELSE 0
         /\ oacq_fire(r) /\ port.op = "put" /\ port.cnt < Beats =>
              port'.op = "put" /\ port'.sp = port.sp /\ port'.cnt = port.cnt + 1
         /\ ~oacq_fire(r) /\ ~ognt_fire(v) => port' = port
         /\ ~oacq_fire(r) /\ ognt_fire(v) /\ port.op = "put" => port' = NoPort
         /\ ~oacq_fire(r) /\ ognt_fire(v) /\ port.op = "get" =>
              IF port.cnt = Beats - 1 THEN port' = NoPort
              ELSE port'.op = "get" /\ port'.sp = port.sp /\ port'.cnt = port.cnt + 1
<1>0. Beats \in Nat /\ Beats >= 2
  BY Zenon, ParamAssumption
<1>1. (r => CanAccept) /\ (v => CanRespond)
  BY Zenon DEF Memory
<1>2. ASSUME oacq_fire(r), port.op = "none"
      PROVE  /\ port'.op = IF sendsPut THEN "put" ELSE "get"
             /\ port'.sp = IF mem_send_tag \/ mem_receive_tag THEN "tag" ELSE "data"
             /\ port'.cnt = IF sendsPut THEN 1 ELSE 0
  <2>1. ~ognt_fire(v)
    BY Zenon, <1>1, <1>2 DEF CanRespond, ognt_fire
  <2>2. /\ Burst.op = IF sendsPut THEN "put" ELSE "get"
        /\ Burst.sp = IF mem_send_tag \/ mem_receive_tag THEN "tag" ELSE "data"
        /\ Burst.cnt = 0
    BY Zenon, <1>2 DEF Burst
  <2>3. CASE sendsPut
    <3>1. port' = [Burst EXCEPT !.cnt = IF @ > Beats THEN @ ELSE @ + 1]
      BY Zenon, <1>2, <2>1, <2>2, <2>3 DEF Memory
    <3>2. Burst \in Port
      BY Zenon, BurstType
    <3> QED
      BY <1>0, <2>2, <2>3, <3>1, <3>2 DEF Port, NoPort
  <2>4. CASE ~sendsPut
    BY Zenon, <1>2, <2>2, <2>4 DEF Memory
  <2> QED
    BY Zenon, <2>3, <2>4
<1>3. ASSUME oacq_fire(r), port.op = "put", port.cnt < Beats
      PROVE  port'.op = "put" /\ port'.sp = port.sp /\ port'.cnt = port.cnt + 1
  <2>0. port \in Port /\ port.cnt \in Int
    <3>1. port \in Port
      BY Zenon DEF TypeOK, MemoryOK
    <3>2. CASE port = NoPort
      BY <3>1, <3>2 DEF NoPort
    <3>3. CASE port \in [op : {"get"}, sp : {"data"}, cnt : Beat, blk : ReqBlocks]
               \/ port \in [op : {"get"}, sp : {"tag"}, cnt : Beat, ta : TagAddress]
      BY <1>0, <3>1, <3>3 DEF Beat
    <3>4. CASE port \in [op : {"put"}, sp : {"data"}, cnt : 0 .. Beats + 1, blk : ReqBlocks]
               \/ port \in [op : {"put"}, sp : {"tag"}, cnt : 0 .. Beats + 1, ta : TagAddress]
      BY <1>0, <3>1, <3>4
    <3> QED
      BY Zenon, <3>1, <3>2, <3>3, <3>4 DEF Port
  <2>1. ~ognt_fire(v)
    BY <1>0, <1>1, <1>3, <2>0 DEF CanRespond, ognt_fire
  <2>2. Burst = port
    BY Zenon, <1>3 DEF Burst
  <2>3. port' = [port EXCEPT !.cnt = IF @ > Beats THEN @ ELSE @ + 1]
    BY Zenon, <1>3, <2>1, <2>2 DEF Memory
  <2> QED
    BY <1>0, <1>3, <2>0, <2>3 DEF Port, NoPort
<1>4. ~oacq_fire(r) /\ ~ognt_fire(v) => port' = port
  BY Zenon DEF Memory, memVars
<1>5. ~oacq_fire(r) /\ ognt_fire(v) /\ port.op = "put" => port' = NoPort
  BY Zenon DEF Memory
<1>6. ASSUME ~oacq_fire(r), ognt_fire(v), port.op = "get"
      PROVE  IF port.cnt = Beats - 1 THEN port' = NoPort
             ELSE port'.op = "get" /\ port'.sp = port.sp /\ port'.cnt = port.cnt + 1
  <2>0. port \in Port
    BY Zenon DEF TypeOK, MemoryOK
  <2>1. port' = IF port.cnt = Beats - 1 THEN NoPort ELSE [port EXCEPT !.cnt = @ + 1]
    BY Zenon, <1>6 DEF Memory
  <2> QED
    BY Zenon, <1>6, <2>0, <2>1 DEF Port, NoPort
<1> QED
  BY Zenon, <1>1, <1>2, <1>3, <1>4, <1>5, <1>6

\* The states before the tag machine uses the memory port, and the refill states.
Early == {"s_meta_read", "s_meta_resp", "s_data_read_wb", "s_data_resp_wb",
          "s_data_resp_wb_done"}
Refilling == {"s_data_write_refill", "s_meta_write_refill"}
Serving == {"s_data_read_hit", "s_data_resp_hit", "s_data_write_hit",
            "s_meta_write_hit", "s_gnt"}

\* What a cycle does to the state of the tag state machine, state by state.
LEMMA FsmStep ==
  ASSUME TypeOK, NEW r, NEW v, Fsm(r, v)
  PROVE  /\ state = "s_idle" =>
              IF accept THEN /\ state' = "s_meta_read"
                             /\ is_write_process' = (RelValid \/ cl[acq].kind = "Put")
              ELSE state' = "s_idle" /\ is_write_process' = is_write_process
         /\ state = "s_busy" =>
              IF ~gnt_enable /\ ~acq_data_process
              THEN state' = "s_idle" /\ is_write_process' = FALSE
              ELSE state' = "s_busy" /\ is_write_process' = is_write_process
         /\ state \notin {"s_idle", "s_busy"} => is_write_process' = is_write_process
         /\ state = "s_write_back" =>
              state' = IF tag_beat_sent(r) /\ mem_tag_data_write_cnt = Beats - 1
                       THEN "s_write_back_wait_b" ELSE "s_write_back"
         /\ state = "s_write_back_wait_b" =>
              state' = IF ognt_fire(v) THEN "s_mem_req" ELSE "s_write_back_wait_b"
         /\ state = "s_mem_req" =>
              state' = IF ~acq_data_process /\ nr_finish(v)
                       THEN "s_data_write_refill" ELSE "s_mem_req"
         /\ state \in Early => state' \in Early \cup Serving \cup {"s_write_back", "s_mem_req"}
         /\ state \in Refilling => state' \in Refilling \cup Serving
         /\ state \in Serving => \/ state' \in Serving
                                 \/ state' = "s_busy" /\ state = "s_gnt" /\ ~acq_data_process
<1>1. CASE SIdle
  BY Zenon, <1>1 DEF SIdle, Early, Serving, Refilling
<1>2. CASE SMetaResp
  BY Zenon, <1>2 DEF SMetaResp, Early, Serving, Refilling, Access
<1>3. CASE SDataRespHit
  BY Zenon, <1>3 DEF SDataRespHit, Early, Serving, Refilling
<1>4. CASE SBusy
  BY Zenon, <1>4 DEF SBusy, Early, Serving, Refilling
<1>5. CASE SWriteBack(r) \/ SWriteBackWaitB(v) \/ SMemReq(v)
  BY Zenon, <1>5 DEF SWriteBack, SWriteBackWaitB, SMemReq, MoveIf, GoTo, Early, Serving,
     Refilling
<1>6. CASE SMetaRead \/ SDataReadWb \/ SDataRespWb \/ SDataRespWbDone
  BY Zenon, <1>6 DEF SMetaRead, SDataReadWb, SDataRespWb, SDataRespWbDone, MoveIf, GoTo,
     Early, Serving, Refilling
<1>7. CASE SDataWriteRefill \/ SMetaWriteRefill
  BY Zenon, <1>7 DEF SDataWriteRefill, SMetaWriteRefill, MoveIf, GoTo, Access, Early,
     Serving, Refilling
<1>8. CASE SDataReadHit \/ SDataWriteHit \/ SMetaWriteHit \/ SGnt
  BY Zenon, <1>8 DEF SDataReadHit, SDataWriteHit, SMetaWriteHit, SGnt, MoveIf, GoTo, Early,
     Serving, Refilling
<1> QED
  BY Zenon, <1>1, <1>2, <1>3, <1>4, <1>5, <1>6, <1>7, <1>8 DEF Fsm

\* A counter counts up to the last beat and wraps to zero.
LEMMA CountStep ==
  ASSUME NEW n \in Beat
  PROVE  /\ Count(n, FALSE) = n
         /\ Count(n, TRUE) = IF n = Beats - 1 THEN 0 ELSE n + 1
BY ParamAssumption DEF Count, Beat

-----------------------------------------------------------------------------
(* The transfer of the request's data: the tag state machine runs, but does *)
(* not touch the port, and no grant is sent.                                *)

Alone == {"s_idle", "s_write_back_wait_b", "s_data_write_refill",
          "s_meta_write_refill", "s_busy"}

\* What every cycle of the data transfer has in common.
LEMMA Transfer ==
  ASSUME TypeOK, ControlInv, NEW r \in BOOLEAN, NEW v \in BOOLEAN,
         NEW w \in Ways, NEW m \in Moves, Tick(r, v, w, m), acq_data_process
  PROVE  /\ state \notin Alone /\ state' \notin Alone
         /\ is_write_process' = is_write_process
         /\ mem_tag_data_write_cnt' = 0 /\ gnt_enable' = FALSE /\ ~tl_grant_fire
         /\ ~mem_send_tag /\ ~mem_receive_tag
         /\ tag_out' = tag_out /\ read_multiple_data' = read_multiple_data
         /\ IF orig_done(v)
            THEN ~is_read' /\ ~is_write' /\ ~is_acq' /\ ~acq_data_process'
            ELSE /\ is_read' = is_read /\ is_write' = is_write /\ is_acq' = is_acq
                 /\ acq_data_process' = TRUE
<1>1. state \notin Alone /\ state \in States
  BY Zenon DEF ControlInv, FsmInv, TypeOK, TrackerOK, Alone
<1>2. ~mem_send_tag /\ ~mem_receive_tag
  BY Zenon DEF mem_send_tag, mem_receive_tag
<1>3. state \in Early \cup Serving \cup {"s_write_back", "s_mem_req"}
  BY Zenon, <1>1 DEF States, Alone, Early, Serving
<1>4. state' \notin Alone /\ is_write_process' = is_write_process
  <2>1. ~tag_beat_sent(r)
    BY Zenon, <1>2 DEF tag_beat_sent
  <2> QED
    BY Zenon, <1>3, <2>1, FsmStep DEF Tick, Alone, Early, Serving
<1>5. mem_tag_data_write_cnt' = 0
  <2>1. mem_tag_data_write_cnt = 0 /\ 0 \in Beat
    BY ParamAssumption DEF ControlInv, FsmInv, Beat
  <2>2. tag_beat_sent(r) = FALSE
    BY Zenon, <1>2 DEF tag_beat_sent
  <2> QED
    BY Zenon, <2>1, <2>2, CountStep DEF Tick, WriteBack
<1>6. ~gnt_enable
  BY Zenon, <1>1 DEF ControlInv, AckInv, Alone
<1>7. gnt_enable' = FALSE /\ ~tl_grant_fire
  BY Zenon, <1>6 DEF Tick, GrantHandler, tl_grant_fire
<1>8. state # "s_idle" /\ ~accept
  BY Zenon, <1>1 DEF Alone, accept
<1>9. Request(v)
  BY Zenon DEF Tick
<1>10. CASE orig_done(v)
  BY Zenon, <1>1, <1>2, <1>4, <1>5, <1>7, <1>8, <1>9, <1>10 DEF Request
<1>11. CASE ~orig_done(v)
  BY Zenon, <1>1, <1>2, <1>4, <1>5, <1>7, <1>8, <1>9, <1>11 DEF Request, reqVars
<1> QED
  BY Zenon, <1>10, <1>11

\* The transfer ends: the port is free for the tag state machine.
LEMMA TransferDone ==
  ASSUME state' \notin Alone, state' \in States, ~acq_data_process', Quiet',
         nr_cnt' = 0, ~cmd_sent', mem_tag_data_write_cnt' = 0
  PROVE  FsmInv'
BY Zenon DEF FsmInv, Alone

\* A Get whose command memory has not taken yet.
LEMMA ReadCommand ==
  ASSUME "Put" \notin AcqKinds, TypeOK, ControlInv, NEW r \in BOOLEAN,
         NEW v \in BOOLEAN, NEW w \in Ways, NEW m \in Moves, Tick(r, v, w, m),
         is_read, ~cmd_sent
  PROVE  DataInv' /\ FsmInv' /\ AckInv'
<1>0. /\ acq_data_process /\ ~is_write /\ is_acq /\ ~is_write_process
      /\ read_multiple_data /\ Quiet /\ acq = tag_out /\ nr_cnt = 0 /\ acq_data_cnt = 0
      /\ cl[Wb].st = "outer" => cl[Wb].sent = 0
  BY Zenon DEF ControlInv, DataInv, TypeOK, TrackerOK
<1>1. /\ acq \in Ids /\ acq # NoId /\ acq # Wb /\ acq \in Xacts /\ Wb \in Xacts
      /\ cl[acq].st = "outer" /\ cl[acq].sent = 0 /\ cl[acq].avail = 1
      /\ cl[acq].kind = "Get" /\ finq < 2 /\ cl[acq] \in Client
  BY <1>0, ParamAssumption DEF ControlInv, L2Inv, TypeOK, L2OK, TrackerOK, Xacts
<1>2. ~v /\ ~ognt_fire(v) /\ ~orig_done(v) /\ ~nr_inc(v)
  BY Zenon, <1>0, PortStep DEF Tick, CanRespond, Quiet, ognt_fire, orig_done, nr_finish, nr_inc
<1>3. oacq_fire(r) = r /\ ~sendsPut
  BY Zenon, <1>0, Transfer DEF oacq_fire, tl_out_acquire_valid, sendsPut, mem_send_tag
<1>4. tl_acquire_fire(r) = r /\ ~tl_release_fire(r)
  <2>1. AcqValid
    BY <1>1 DEF AcqValid
  <2>2. state # "s_idle"
    BY Zenon, <1>0, Transfer DEF Alone
  <2>3. oacq_fire(r) <=> r
    BY Zenon, <1>3
  <2>4. (tl_acquire_fire(r) <=> r) /\ ~tl_release_fire(r)
    BY Zenon, <1>0, <2>1, <2>2, <2>3 DEF tl_acquire_fire, tl_release_fire
  <2> QED
    BY Zenon, <2>4 DEF tl_acquire_fire
<1>5. /\ is_read' = is_read /\ is_write' = is_write /\ is_acq' = is_acq
      /\ acq_data_process' /\ tag_out' = tag_out /\ state' \notin Alone
      /\ is_write_process' = is_write_process /\ state \notin Alone
      /\ read_multiple_data' = read_multiple_data
      /\ mem_tag_data_write_cnt' = 0 /\ gnt_enable' = FALSE
  BY Zenon, <1>0, <1>2, Transfer
<1>6. nr_cnt' = 0 /\ acq_data_cnt' = 0
  <2>1. 0 \in Beat
    BY ParamAssumption DEF Beat
  <2>2. acq_data_inc(r) = FALSE /\ nr_inc(v) = FALSE
    BY Zenon, <1>0, <1>2 DEF acq_data_inc, nr_inc
  <2> QED
    BY Zenon, <1>0, <2>1, <2>2, CountStep DEF Tick, Receive, Collect
<1>7. cmd_sent' = r
  BY Zenon, <1>2, <1>3, <1>5 DEF Tick, CmdSent, Alone
<1>8. cl'[Wb].st = "outer" => cl'[Wb].sent = 0
  <2>1. ~fired(Wb, r)
    BY Zenon, <1>1, <1>4 DEF fired
  <2>2. cl[Wb].st \in {"idle", "wb", "outer", "busy"}
    BY Zenon, <1>1 DEF TypeOK, L2OK, Client
  <2> QED
    BY Zenon, <1>0, <1>1, <2>1, <2>2, ClientStep DEF Tick, ControlInv
<1>9. CASE r
  <2>1. port'.op = "get" /\ port'.sp = "data" /\ port'.cnt = 0
    BY Zenon, <1>0, <1>3, <1>9, PortStep, Transfer DEF Tick, Quiet
  <2>2. cl'[tag_out].st = "busy"
    <3>1. fired(acq, r)
      BY Zenon, <1>4, <1>9 DEF fired
    <3>2. cl'[acq] = Sent(cl[acq])
      BY Zenon, <1>1, <3>1, ClientStep DEF Tick, ControlInv
    <3>3. Sent(cl[acq]).st = "busy"
      BY <1>1 DEF Sent, MsgBeats, Client
    <3> QED
      BY Zenon, <1>0, <3>2, <3>3
  <2> QED
    BY Zenon, <1>0, <1>5, <1>6, <1>7, <1>8, <1>9, <2>1, <2>2
       DEF DataInv, FsmInv, AckInv, IsPort, Alone
<1>10. CASE ~r
  <2>1. port' = port
    BY Zenon, <1>2, <1>3, <1>10, PortStep DEF Tick
  <2>2. acq' = acq
    BY Zenon, <1>1, <1>4, <1>10 DEF Tick, OuterArbiter
  <2> QED
    BY Zenon, <1>0, <1>5, <1>6, <1>7, <1>8, <1>10, <2>1, <2>2
       DEF DataInv, FsmInv, AckInv, Quiet, Alone
<1> QED
  BY Zenon, <1>9, <1>10

\* A Get whose beats memory returns.
LEMMA ReadData ==
  ASSUME "Put" \notin AcqKinds, TypeOK, ControlInv, NEW r \in BOOLEAN,
         NEW v \in BOOLEAN, NEW w \in Ways, NEW m \in Moves, Tick(r, v, w, m),
         is_read, cmd_sent
  PROVE  DataInv' /\ FsmInv' /\ AckInv'
<1>0. /\ acq_data_process /\ ~is_write /\ is_acq /\ ~is_write_process
      /\ read_multiple_data /\ IsPort("get", "data", nr_cnt) /\ acq_data_cnt = 0
      /\ cl[tag_out].st = "busy" /\ tag_out \in Xacts /\ Wb \in Xacts
      /\ cl[Wb].st = "outer" => cl[Wb].sent = 0
      /\ nr_cnt \in Beat /\ 0 \in Beat
  BY Zenon, ParamAssumption
     DEF ControlInv, DataInv, TypeOK, TrackerOK, CountersOK, Xacts, Beat
<1>1. ~oacq_fire(r)
  BY Zenon, <1>0, Transfer DEF oacq_fire, tl_out_acquire_valid
<1>2. ognt_fire(v) = v /\ nr_inc(v) = v
  <2>1. ognt_fire(v) = v
    BY Zenon, <1>0 DEF ognt_fire, tl_out_grant_ready
  <2> QED
    BY Zenon, <1>0, <2>1 DEF nr_inc
<1>3. orig_done(v) <=> v /\ nr_cnt = Beats - 1
  BY Zenon, <1>0, <1>2 DEF orig_done, nr_finish
<1>4. ~fired(Wb, r) /\ acq_data_inc(r) = FALSE /\ acq_data_cnt' = 0
  BY Zenon, <1>0, <1>1, CountStep
     DEF fired, tl_acquire_fire, tl_release_fire, acq_data_inc, Tick, Collect
<1>5. cl'[Wb].st = "outer" => cl'[Wb].sent = 0
  <2>2. cl[Wb].st \in {"idle", "wb", "outer", "busy"}
    BY Zenon, <1>0 DEF TypeOK, L2OK, Client
  <2> QED
    BY Zenon, <1>0, <1>4, <2>2, ClientStep DEF Tick, ControlInv
<1>6. cl'[tag_out].st = "busy"
  <2>1. ~grant_last
    BY Zenon, <1>0, Transfer DEF grant_last
  <2> QED
    BY Zenon, <1>0, <2>1, ClientStep DEF Tick, ControlInv
<1>7. nr_cnt' = Count(nr_cnt, v)
  BY Zenon, <1>2 DEF Tick, Receive
<1>8. state' \in States
  BY Zenon, StepType DEF Next, TypeOK, TrackerOK
<1>9. CASE orig_done(v)
  <2>1. nr_cnt' = 0
    BY Zenon, <1>0, <1>3, <1>7, <1>9, CountStep
  <2>2. Quiet'
    <3>1. port' = NoPort
      BY Zenon, <1>0, <1>1, <1>2, <1>3, <1>9, PortStep DEF Tick, IsPort
    <3> QED
      BY Zenon, <3>1 DEF Quiet, NoPort
  <2>3. ~cmd_sent'
    BY Zenon, <1>1, <1>9 DEF Tick, CmdSent
  <2>4. /\ ~is_read' /\ ~is_write' /\ ~is_acq' /\ ~acq_data_process'
        /\ state' \notin Alone /\ mem_tag_data_write_cnt' = 0 /\ gnt_enable' = FALSE
        /\ ~is_write_process'
    BY Zenon, <1>0, <1>9, Transfer
  <2>5. /\ is_read' = FALSE /\ is_write' = FALSE /\ is_acq' = FALSE
        /\ acq_data_process' = FALSE
    BY Zenon, <1>9, <1>0, Transfer DEF Tick, Request, accept, Alone
  <2> QED
    BY Zenon, <1>4, <1>5, <1>8, <2>1, <2>2, <2>3, <2>4, <2>5, TransferDone DEF DataInv, AckInv
<1>10. CASE ~orig_done(v)
  <2>1. /\ is_read' = is_read /\ is_write' = is_write /\ is_acq' = is_acq
        /\ acq_data_process' /\ tag_out' = tag_out /\ state' \notin Alone
        /\ is_write_process' = is_write_process /\ state \notin Alone
        /\ read_multiple_data' = read_multiple_data
        /\ mem_tag_data_write_cnt' = 0 /\ gnt_enable' = FALSE
    BY Zenon, <1>0, <1>10, Transfer
  <2>2. cmd_sent'
    BY Zenon, <1>10, <2>1 DEF Tick, CmdSent, Alone
  <2>3. IsPort("get", "data", nr_cnt)'
    <3>1. CASE v
      BY Zenon, <1>0, <1>1, <1>2, <1>3, <1>7, <1>10, <3>1, PortStep, CountStep
         DEF Tick, IsPort
    <3>2. CASE ~v
      BY Zenon, <1>0, <1>1, <1>2, <1>7, <3>2, PortStep, CountStep DEF Tick, IsPort
    <3> QED
      BY Zenon, <3>1, <3>2
  <2> QED
    BY Zenon, <1>0, <1>4, <1>5, <1>6, <2>1, <2>2, <2>3 DEF DataInv, FsmInv, AckInv, Alone
<1> QED
  BY Zenon, <1>9, <1>10

\* A release whose beats memory takes.
LEMMA WriteBeats ==
  ASSUME "Put" \notin AcqKinds, TypeOK, ControlInv, NEW r \in BOOLEAN,
         NEW v \in BOOLEAN, NEW w \in Ways, NEW m \in Moves, Tick(r, v, w, m),
         is_write, cl[Wb].st = "outer"
  PROVE  DataInv' /\ FsmInv' /\ AckInv'
<1>0. /\ acq_data_process = TRUE /\ is_read = FALSE /\ is_acq = FALSE
      /\ is_write = TRUE /\ is_write_process = TRUE /\ tag_out = Wb
      /\ nr_cnt = 0 /\ cl[Wb].sent = acq_data_cnt /\ cl[Wb].kind = "Rel"
      /\ IF acq_data_cnt = 0 THEN Quiet ELSE IsPort("put", "data", acq_data_cnt)
      /\ acq_data_cnt \in Beat /\ 0 \in Beat /\ Wb \in Xacts /\ cl[Wb] \in Client
      /\ Beats \in Nat /\ Beats >= 2
  BY Zenon, ParamAssumption
     DEF ControlInv, DataInv, L2Inv, TypeOK, TrackerOK, CountersOK, L2OK, Xacts, Beat
<1>1. ~v /\ ~ognt_fire(v) /\ ~orig_done(v) /\ nr_inc(v) = FALSE
  <2>1. ~CanRespond
    BY <1>0 DEF CanRespond, Quiet, IsPort, Beat
  <2> QED
    BY Zenon, <2>1, PortStep DEF Tick, ognt_fire, orig_done, nr_finish, nr_inc
<1>2. /\ is_read' = is_read /\ is_write' = is_write /\ is_acq' = is_acq
      /\ acq_data_process' = TRUE /\ tag_out' = tag_out /\ state' \notin Alone
      /\ is_write_process' = is_write_process /\ state \notin Alone
      /\ mem_tag_data_write_cnt' = 0 /\ gnt_enable' = FALSE
  BY Zenon, <1>0, <1>1, Transfer
<1>3. nr_cnt' = 0
  BY Zenon, <1>0, <1>1, CountStep DEF Tick, Receive
<1>4. oacq_fire(r) <=> RelValid /\ r
  BY Zenon, <1>0, Transfer DEF oacq_fire, tl_out_acquire_valid
<1>5. tl_release_fire(r) <=> oacq_fire(r)
  BY Zenon, <1>0, <1>2, <1>4 DEF tl_release_fire, Alone
<1>6. ~tl_acquire_fire(r) /\ (acq_data_inc(r) <=> oacq_fire(r))
  BY Zenon, <1>0, <1>5 DEF tl_acquire_fire, acq_data_inc
<1>7. CASE oacq_fire(r)
  <2>1. acq_data_cnt' = IF acq_data_cnt = Beats - 1 THEN 0 ELSE acq_data_cnt + 1
    <3>1. acq_data_inc(r) = TRUE
      BY Zenon, <1>6, <1>7 DEF acq_data_inc
    <3> QED
      BY Zenon, <1>0, <3>1, CountStep DEF Tick, Collect
  <2>2. port'.op = "put" /\ port'.sp = "data" /\ port'.cnt = acq_data_cnt + 1
    <3>1. CASE acq_data_cnt = 0
      <4>1. sendsPut /\ ~mem_send_tag /\ ~mem_receive_tag
        BY Zenon, <1>0, Transfer DEF sendsPut
      <4>2. Memory(r, v) /\ port.op = "none"
        BY Zenon, <1>0, <3>1 DEF Tick, Quiet
      <4>3. port'.op = "put" /\ port'.sp = "data" /\ port'.cnt = 1
        BY Zenon, <1>7, <4>1, <4>2, PortStep
      <4> QED
        BY <3>1, <4>3
    <3>2. CASE acq_data_cnt # 0
      BY <1>0, <1>7, <3>2, PortStep DEF Tick, IsPort, Beat
    <3> QED
      BY Zenon, <3>1, <3>2
  <2>3. cl'[Wb] = Sent(cl[Wb])
    <3>1. fired(Wb, r)
      BY Zenon, <1>5, <1>7 DEF fired
    <3> QED
      BY Zenon, <1>0, <3>1, ClientStep DEF Tick, ControlInv
  <2>4. IF acq_data_cnt + 1 = Beats
        THEN cl'[Wb].st = "busy"
        ELSE cl'[Wb].st = "outer" /\ cl'[Wb].sent = acq_data_cnt + 1
    BY Zenon, <1>0, <2>3 DEF Sent, MsgBeats, Client
  <2>5. \/ /\ cl'[Wb].st = "outer" /\ cl'[Wb].sent = acq_data_cnt'
           /\ acq_data_cnt' # 0 /\ IsPort("put", "data", acq_data_cnt)'
        \/ cl'[Wb].st = "busy" /\ acq_data_cnt' = 0 /\ IsPort("put", "data", Beats)'
    BY <1>0, <2>1, <2>2, <2>4 DEF IsPort, Beat
  <2> QED
    BY Zenon, <1>0, <1>2, <1>3, <2>5 DEF DataInv, FsmInv, AckInv, Alone
<1>8. CASE ~oacq_fire(r)
  <2>1. acq_data_cnt' = acq_data_cnt
    <3>1. acq_data_inc(r) = FALSE
      BY Zenon, <1>6, <1>8 DEF acq_data_inc
    <3> QED
      BY Zenon, <1>0, <3>1, CountStep DEF Tick, Collect
  <2>2. port' = port
    BY Zenon, <1>1, <1>8, PortStep DEF Tick
  <2>3. cl'[Wb].st = "outer" /\ cl'[Wb].sent = cl[Wb].sent
    <3>1. ~fired(Wb, r)
      BY Zenon, <1>5, <1>6, <1>8 DEF fired
    <3> QED
      BY Zenon, <1>0, <3>1, ClientStep DEF Tick, ControlInv
  <2> QED
    BY Zenon, <1>0, <1>2, <1>3, <2>1, <2>2, <2>3
       DEF DataInv, FsmInv, AckInv, IsPort, Quiet, Alone
<1> QED
  BY Zenon, <1>7, <1>8

\* A release memory has taken completely.
LEMMA WriteResponse ==
  ASSUME "Put" \notin AcqKinds, TypeOK, ControlInv, NEW r \in BOOLEAN,
         NEW v \in BOOLEAN, NEW w \in Ways, NEW m \in Moves, Tick(r, v, w, m),
         is_write, cl[Wb].st # "outer"
  PROVE  DataInv' /\ FsmInv' /\ AckInv'
<1>0. /\ acq_data_process = TRUE /\ is_read = FALSE /\ is_acq = FALSE
      /\ is_write = TRUE /\ is_write_process = TRUE /\ tag_out = Wb
      /\ nr_cnt = 0 /\ cl[Wb].st = "busy" /\ acq_data_cnt = 0
      /\ IsPort("put", "data", Beats) /\ 0 \in Beat /\ Wb \in Xacts
  <2>1. is_write = TRUE /\ is_read \in BOOLEAN /\ is_acq \in BOOLEAN
    BY Zenon DEF TypeOK, TrackerOK
  <2>2. is_read = FALSE /\ acq_data_process = TRUE /\ is_acq = FALSE
    BY Zenon, <2>1 DEF ControlInv, DataInv
  <2>3. /\ is_write_process = TRUE /\ tag_out = Wb /\ nr_cnt = 0
        /\ cl[Wb].st = "busy" /\ acq_data_cnt = 0 /\ IsPort("put", "data", Beats)
    BY Zenon DEF ControlInv, DataInv, TypeOK, TrackerOK
  <2>4. 0 \in Beat /\ Wb \in Xacts
    BY ParamAssumption DEF Xacts, Beat
  <2> QED
    BY Zenon, <2>1, <2>2, <2>3, <2>4
<1>1. ~oacq_fire(r)
  BY Zenon, <1>0, Transfer DEF oacq_fire, tl_out_acquire_valid, RelValid
<1>2. (ognt_fire(v) <=> v) /\ (orig_done(v) <=> v) /\ nr_inc(v) = FALSE
  BY Zenon, <1>0, Transfer DEF ognt_fire, tl_out_grant_ready, orig_done, nr_finish, nr_inc
<1>3. nr_cnt' = 0
  BY Zenon, <1>0, <1>2, CountStep DEF Tick, Receive
<1>4. acq_data_cnt' = 0
  <2>1. acq_data_inc(r) = FALSE
    BY Zenon, <1>1 DEF acq_data_inc, tl_acquire_fire, tl_release_fire
  <2> QED
    BY Zenon, <1>0, <2>1, CountStep DEF Tick, Collect
<1>5. cl'[Wb].st = "busy"
  <2>1. ~grant_last
    BY Zenon, <1>0, Transfer DEF grant_last
  <2> QED
    BY Zenon, <1>0, <2>1, ClientStep DEF Tick, ControlInv
<1>6. state' \in States
  BY Zenon, StepType DEF Next, TypeOK, TrackerOK
<1>7. CASE v
  <2>1. Quiet'
    <3>1. port' = NoPort
      BY Zenon, <1>0, <1>1, <1>2, <1>7, PortStep DEF Tick, IsPort
    <3> QED
      BY Zenon, <3>1 DEF Quiet, NoPort
  <2>2. ~cmd_sent'
    BY Zenon, <1>1, <1>2, <1>7 DEF Tick, CmdSent
  <2>3. /\ state' \notin Alone /\ mem_tag_data_write_cnt' = 0 /\ gnt_enable' = FALSE
        /\ tag_out' = tag_out
    BY Zenon, <1>0, <1>7, Transfer
  <2>4. /\ is_read' = FALSE /\ is_write' = FALSE /\ is_acq' = FALSE
        /\ acq_data_process' = FALSE
    BY Zenon, <1>2, <1>7, <1>0, Transfer DEF Tick, Request, accept, Alone
  <2> QED
    BY Zenon, <1>0, <1>3, <1>4, <1>5, <1>6, <2>1, <2>2, <2>3, <2>4, TransferDone
       DEF DataInv, AckInv
<1>8. CASE ~v
  <2>1. port' = port
    BY Zenon, <1>1, <1>2, <1>8, PortStep DEF Tick
  <2>2. /\ is_read' = is_read /\ is_write' = is_write /\ is_acq' = is_acq
        /\ acq_data_process' = TRUE /\ tag_out' = tag_out /\ state' \notin Alone
        /\ is_write_process' = is_write_process /\ state \notin Alone
        /\ mem_tag_data_write_cnt' = 0 /\ gnt_enable' = FALSE
    BY Zenon, <1>0, <1>2, <1>8, Transfer
  <2> QED
    BY Zenon, <1>0, <1>3, <1>4, <1>5, <2>1, <2>2 DEF DataInv, FsmInv, AckInv, IsPort, Alone
<1> QED
  BY Zenon, <1>7, <1>8

-----------------------------------------------------------------------------
(* After the transfer, and between requests.                               *)

\* What every cycle without a data transfer has in common.
LEMMA NoTransfer ==
  ASSUME "Put" \notin AcqKinds, TypeOK, ControlInv, NEW r \in BOOLEAN,
         NEW v \in BOOLEAN, NEW w \in Ways, NEW m \in Moves, Tick(r, v, w, m),
         ~acq_data_process
  PROVE  /\ is_read = FALSE /\ is_write = FALSE /\ is_acq = FALSE
         /\ acq_data_process = FALSE /\ ~orig_done(v) /\ ~fired(Wb, r)
         /\ ~tl_acquire_fire(r) /\ acq_data_cnt' = 0
         /\ cl'[Wb].st = "outer" => cl'[Wb].sent = 0
         /\ tl_out_acquire_valid <=> mem_send_tag \/ (mem_receive_tag /\ ~cmd_sent)
         /\ ognt_fire(v) <=> /\ v
                             /\ \/ mem_send_tag \/ mem_receive_tag
                                \/ state = "s_write_back_wait_b"
         /\ nr_inc(v) <=> v /\ mem_receive_tag
<1>1. /\ is_read \in BOOLEAN /\ is_write \in BOOLEAN /\ is_acq \in BOOLEAN
      /\ acq_data_process \in BOOLEAN
  BY Zenon DEF TypeOK, TrackerOK
<1>2. is_read = FALSE /\ is_write = FALSE /\ is_acq = FALSE /\ acq_data_process = FALSE
  BY Zenon, <1>1 DEF ControlInv, DataInv
<1>3. acq_data_cnt = 0 /\ (cl[Wb].st = "outer" => cl[Wb].sent = 0) /\ 0 \in Beat
  BY <1>2, ParamAssumption DEF ControlInv, DataInv, Beat
<1>4. ~orig_done(v) /\ ~fired(Wb, r) /\ ~tl_acquire_fire(r) /\ acq_data_inc(r) = FALSE
  BY Zenon, <1>2, ParamAssumption
     DEF orig_done, fired, tl_acquire_fire, tl_release_fire, acq_data_inc
<1>5. acq_data_cnt' = 0
  BY Zenon, <1>3, <1>4, CountStep DEF Tick, Collect
<1>6. cl'[Wb].st = "outer" => cl'[Wb].sent = 0
  <2>1. Wb \in Xacts /\ cl[Wb].st \in {"idle", "wb", "outer", "busy"}
    BY Zenon DEF TypeOK, L2OK, Client, Xacts
  <2> QED
    BY Zenon, <1>3, <1>4, <2>1, ClientStep DEF Tick, ControlInv
<1>7. /\ tl_out_acquire_valid <=> mem_send_tag \/ (mem_receive_tag /\ ~cmd_sent)
      /\ ognt_fire(v) <=> /\ v
                          /\ \/ mem_send_tag \/ mem_receive_tag
                             \/ state = "s_write_back_wait_b"
  BY Zenon, <1>2 DEF tl_out_acquire_valid, ognt_fire, tl_out_grant_ready
<1>8. nr_inc(v) <=> v /\ mem_receive_tag
  BY Zenon, <1>2, <1>7 DEF nr_inc
<1> QED
  BY Zenon, <1>2, <1>4, <1>5, <1>6, <1>7, <1>8

\* While a request is served, and until it is over, nothing disturbs it.
LEMMA Served ==
  ASSUME "Put" \notin AcqKinds, TypeOK, ControlInv, NEW r \in BOOLEAN,
         NEW v \in BOOLEAN, NEW w \in Ways, NEW m \in Moves, Tick(r, v, w, m),
         ~acq_data_process, state # "s_idle"
  PROVE  /\ DataInv' /\ AckInv' /\ acq_data_process' = FALSE
<1> USE NoTransfer
<1>1. UNCHANGED reqVars
  BY Zenon DEF Tick, Request, accept
<1>2. DataInv'
  BY Zenon, <1>1 DEF DataInv, reqVars
<1>3. CASE state = "s_busy"
  <2>1. CASE gnt_enable
    <3>1. state' = "s_busy" /\ is_write_process' = is_write_process
      BY Zenon, <1>3, <2>1, FsmStep DEF Tick
    <3>2. is_write_process => ~gnt_enable'
      BY Zenon, <1>3 DEF Tick, GrantHandler
    <3> QED
      BY Zenon, <1>1, <1>2, <3>1, <3>2 DEF AckInv, reqVars
  <2>2. CASE ~gnt_enable
    <3>1. state' = "s_idle" /\ is_write_process' = FALSE
      BY Zenon, <1>3, <2>2, FsmStep DEF Tick
    <3>2. ~gnt_enable'
      BY Zenon, <1>3, <2>2 DEF Tick, GrantHandler
    <3> QED
      BY Zenon, <1>1, <1>2, <3>1, <3>2 DEF AckInv, reqVars
  <2> QED
    BY Zenon, <2>1, <2>2
<1>4. CASE state # "s_busy"
  <2>1. is_write_process' = is_write_process
    BY Zenon, <1>4, FsmStep DEF Tick
  <2>2. ~gnt_enable /\ ~tl_grant_fire /\ ~grant_last
    BY Zenon, <1>4 DEF ControlInv, AckInv, tl_grant_fire, grant_last
  <2>3. gnt_enable' => state = "s_gnt"
    BY Zenon, <2>2 DEF Tick, GrantHandler
  <2>4. state = "s_gnt" => state' = "s_busy"
    BY Zenon DEF Tick, Fsm, SIdle, SMetaResp, SDataRespHit, SBusy, SMetaRead, SDataReadHit,
       SDataWriteHit, SDataReadWb, SDataRespWb, SDataRespWbDone, SWriteBack,
       SWriteBackWaitB, SMemReq, SDataWriteRefill, SMetaWriteRefill, SMetaWriteHit,
       SGnt, MoveIf, GoTo
  <2>5. is_write_process => tag_out = Wb /\ cl[Wb].st = "busy"
    BY Zenon, <1>4 DEF ControlInv, AckInv
  <2>6. cl[Wb].st = "busy" => cl'[Wb].st = "busy"
    <3>1. Wb \in Xacts
      BY Zenon DEF Xacts
    <3> QED
      BY Zenon, <2>2, <3>1, ClientStep DEF Tick, ControlInv
  <2>7. AckInv'
    BY Zenon, <1>1, <2>1, <2>3, <2>4, <2>5, <2>6 DEF AckInv, reqVars
  <2> QED
    BY Zenon, <1>1, <1>2, <2>7 DEF reqVars
<1> QED
  BY Zenon, <1>3, <1>4

\* The write-back of a dirty victim, its response, and the refill.
LEMMA TagTransfer ==
  ASSUME "Put" \notin AcqKinds, TypeOK, ControlInv, NEW r \in BOOLEAN,
         NEW v \in BOOLEAN, NEW w \in Ways, NEW m \in Moves, Tick(r, v, w, m),
         ~acq_data_process,
         state \in {"s_write_back", "s_write_back_wait_b", "s_mem_req"}
  PROVE  FsmInv'
<1>0. /\ 0 \in Beat /\ nr_cnt \in Beat /\ mem_tag_data_write_cnt \in Beat
      /\ Beats \in Nat /\ Beats >= 2
  BY ParamAssumption DEF TypeOK, CountersOK, Beat
<1>1. CASE state = "s_write_back"
  <2>0. /\ nr_cnt = 0
        /\ IF mem_tag_data_write_cnt = 0 THEN Quiet
           ELSE IsPort("put", "tag", mem_tag_data_write_cnt)
    BY Zenon, <1>1 DEF ControlInv, FsmInv
  <2>1. mem_send_tag /\ ~mem_receive_tag /\ sendsPut
    BY Zenon, <1>1 DEF mem_send_tag, mem_receive_tag, sendsPut
  <2>2. ~v /\ ~ognt_fire(v) /\ nr_inc(v) = FALSE
    <3>1. ~CanRespond
      BY <1>0, <2>0 DEF CanRespond, Quiet, IsPort, Beat
    <3> QED
      BY Zenon, <3>1, <2>1, PortStep, NoTransfer DEF Tick, ognt_fire, nr_inc
  <2>3. nr_cnt' = 0
    BY Zenon, <1>0, <2>0, <2>2, CountStep DEF Tick, Receive
  <2>4. (oacq_fire(r) <=> r) /\ (tag_beat_sent(r) <=> r)
    BY Zenon, <2>1, NoTransfer DEF oacq_fire, tag_beat_sent
  <2>5. CASE r
    <3>1. mem_tag_data_write_cnt' = IF mem_tag_data_write_cnt = Beats - 1 THEN 0
                                    ELSE mem_tag_data_write_cnt + 1
      <4>1. tag_beat_sent(r) = TRUE
        BY Zenon, <2>4, <2>5 DEF tag_beat_sent
      <4> QED
        BY Zenon, <1>0, <4>1, CountStep DEF Tick, WriteBack
    <3>2. /\ port'.op = "put" /\ port'.sp = "tag"
          /\ port'.cnt = mem_tag_data_write_cnt + 1
      <4>0. oacq_fire(r) /\ Memory(r, v)
        BY Zenon, <2>4, <2>5 DEF Tick
      <4>1. CASE mem_tag_data_write_cnt = 0
        <5>1. port.op = "none"
          BY Zenon, <2>0, <4>1 DEF Quiet
        <5> QED
          BY <2>1, <4>0, <4>1, <5>1, PortStep
      <4>2. CASE mem_tag_data_write_cnt # 0
        <5>1. /\ port.op = "put" /\ port.sp = "tag"
              /\ port.cnt = mem_tag_data_write_cnt /\ port.cnt < Beats
          BY <1>0, <2>0, <4>2 DEF IsPort, Beat
        <5> QED
          BY Zenon, <4>0, <5>1, PortStep
      <4> QED
        BY Zenon, <4>1, <4>2
    <3>3. state' = IF mem_tag_data_write_cnt = Beats - 1
                   THEN "s_write_back_wait_b" ELSE "s_write_back"
      BY Zenon, <1>1, <2>4, <2>5, FsmStep DEF Tick
    <3>4. \/ /\ state' = "s_write_back" /\ mem_tag_data_write_cnt' # 0
             /\ IsPort("put", "tag", mem_tag_data_write_cnt)'
          \/ /\ state' = "s_write_back_wait_b" /\ mem_tag_data_write_cnt' = 0
             /\ IsPort("put", "tag", Beats)'
      BY <1>0, <3>1, <3>2, <3>3 DEF IsPort, Beat
    <3> QED
      BY Zenon, <1>1, <2>3, <3>4, Served DEF FsmInv
  <2>6. CASE ~r
    <3>1. mem_tag_data_write_cnt' = mem_tag_data_write_cnt
      <4>1. tag_beat_sent(r) = FALSE
        BY Zenon, <2>4, <2>6 DEF tag_beat_sent
      <4> QED
        BY Zenon, <1>0, <4>1, CountStep DEF Tick, WriteBack
    <3>2. port' = port
      BY Zenon, <2>2, <2>4, <2>6, PortStep DEF Tick
    <3>3. state' = "s_write_back"
      BY Zenon, <1>1, <2>4, <2>6, FsmStep DEF Tick
    <3> QED
      BY Zenon, <1>1, <2>0, <2>3, <3>1, <3>2, <3>3, Served DEF FsmInv, IsPort, Quiet
  <2> QED
    BY Zenon, <2>5, <2>6
<1>2. CASE state # "s_write_back"
  <2>0. mem_tag_data_write_cnt' = 0
    <3>1. mem_tag_data_write_cnt = 0
      BY Zenon, <1>2 DEF ControlInv, FsmInv
    <3>2. tag_beat_sent(r) = FALSE
      BY Zenon, <1>2 DEF tag_beat_sent, mem_send_tag
    <3> QED
      BY Zenon, <1>0, <3>1, <3>2, CountStep DEF Tick, WriteBack
  <2>1. CASE state = "s_write_back_wait_b"
    <3>0. nr_cnt = 0 /\ IsPort("put", "tag", Beats)
      BY Zenon, <2>1 DEF ControlInv, FsmInv
    <3>1. ~mem_send_tag /\ ~mem_receive_tag
      BY Zenon, <2>1 DEF mem_send_tag, mem_receive_tag
    <3>2. ~oacq_fire(r) /\ (ognt_fire(v) <=> v) /\ nr_inc(v) = FALSE
      BY Zenon, <2>1, <3>1, NoTransfer DEF oacq_fire, nr_inc
    <3>3. nr_cnt' = 0
      BY Zenon, <1>0, <3>0, <3>2, CountStep DEF Tick, Receive
    <3>4. CASE v
      <4>1. Quiet'
        <5>1. port' = NoPort
          BY Zenon, <3>0, <3>2, <3>4, PortStep DEF Tick, IsPort
        <5> QED
          BY Zenon, <5>1 DEF Quiet, NoPort
      <4>2. state' = "s_mem_req" /\ ~cmd_sent'
        BY Zenon, <2>1, <3>2, <3>4, FsmStep DEF Tick, CmdSent
      <4> QED
        BY Zenon, <1>2, <2>0, <2>1, <3>3, <4>1, <4>2, Served DEF FsmInv
    <3>5. CASE ~v
      <4>1. port' = port /\ state' = "s_write_back_wait_b"
        BY Zenon, <2>1, <3>2, <3>5, PortStep, FsmStep DEF Tick
      <4> QED
        BY Zenon, <2>0, <2>1, <3>0, <3>3, <4>1, Served DEF FsmInv, IsPort
    <3> QED
      BY Zenon, <3>4, <3>5
  <2>2. CASE state = "s_mem_req"
    <3>1. ~mem_send_tag /\ mem_receive_tag /\ ~sendsPut
      BY Zenon, <2>2 DEF mem_send_tag, mem_receive_tag, sendsPut
    <3>2. /\ (oacq_fire(r) <=> ~cmd_sent /\ r) /\ (ognt_fire(v) <=> v)
          /\ (nr_inc(v) <=> v)
      BY Zenon, <3>1, NoTransfer DEF oacq_fire
    <3>3. nr_cnt' = Count(nr_cnt, v)
      <4>1. nr_inc(v) = v
        BY Zenon, <3>2 DEF nr_inc
      <4> QED
        BY Zenon, <4>1 DEF Tick, Receive
    <3>4. CASE cmd_sent
      <4>0. IsPort("get", "tag", nr_cnt) /\ ~oacq_fire(r)
        BY Zenon, <2>2, <3>2, <3>4 DEF ControlInv, FsmInv
      <4>1. CASE v /\ nr_cnt = Beats - 1
        <5>1. port' = NoPort
          BY Zenon, <3>2, <4>0, <4>1, PortStep DEF Tick, IsPort
        <5>2. nr_cnt' = 0
          BY Zenon, <1>0, <3>3, <4>1, CountStep
        <5>3. state' = "s_data_write_refill"
          BY Zenon, <2>2, <3>2, <4>1, FsmStep DEF Tick, nr_finish
        <5> QED
          BY Zenon, <2>0, <2>2, <5>1, <5>2, <5>3, Served DEF FsmInv, Quiet, NoPort
      <4>2. CASE ~(v /\ nr_cnt = Beats - 1)
        <5>1. state' = "s_mem_req"
          BY Zenon, <2>2, <3>2, <4>2, FsmStep DEF Tick, nr_finish
        <5>2. cmd_sent'
          BY Zenon, <2>2, <3>4, NoTransfer DEF Tick, CmdSent
        <5>3. IsPort("get", "tag", nr_cnt)'
          <6>1. CASE v
            BY Zenon, <1>0, <3>2, <3>3, <4>0, <4>2, <6>1, PortStep, CountStep DEF Tick, IsPort
          <6>2. CASE ~v
            BY Zenon, <1>0, <3>2, <3>3, <4>0, <6>2, PortStep, CountStep DEF Tick, IsPort
          <6> QED
            BY Zenon, <6>1, <6>2
        <5> QED
          BY Zenon, <2>0, <2>2, <5>1, <5>2, <5>3, Served DEF FsmInv
      <4> QED
        BY Zenon, <4>1, <4>2
    <3>5. CASE ~cmd_sent
      <4>0. Quiet /\ nr_cnt = 0
        BY Zenon, <2>2, <3>5 DEF ControlInv, FsmInv
      <4>1. ~v
        BY Zenon, <4>0, PortStep DEF Tick, CanRespond, Quiet
      <4>2. nr_cnt' = 0
        BY Zenon, <1>0, <3>3, <4>0, <4>1, CountStep
      <4>3. state' = "s_mem_req"
        BY Zenon, <2>2, <3>2, <4>1, FsmStep DEF Tick, nr_finish
      <4>4. CASE r
        <5>1. port'.op = "get" /\ port'.sp = "tag" /\ port'.cnt = 0
          BY Zenon, <3>1, <3>2, <3>5, <4>0, <4>4, PortStep DEF Tick, Quiet
        <5>2. cmd_sent'
          BY Zenon, <2>2, <3>2, <3>5, <4>4 DEF Tick, CmdSent
        <5> QED
          BY Zenon, <2>0, <2>2, <4>2, <4>3, <5>1, <5>2, Served DEF FsmInv, IsPort
      <4>5. CASE ~r
        <5>1. port' = port
          BY Zenon, <3>2, <4>1, <4>5, PortStep DEF Tick
        <5>2. ~cmd_sent'
          BY Zenon, <3>2, <3>5, <4>5 DEF Tick, CmdSent
        <5> QED
          BY Zenon, <2>0, <2>2, <4>0, <4>2, <4>3, <5>1, <5>2, Served DEF FsmInv, Quiet
      <4> QED
        BY Zenon, <4>4, <4>5
    <3> QED
      BY Zenon, <3>4, <3>5
  <2> QED
    BY Zenon, <1>2, <2>1, <2>2
<1> QED
  BY Zenon, <1>1, <1>2

\* The states in which nobody uses the port.
LEMMA PortIdle ==
  ASSUME "Put" \notin AcqKinds, TypeOK, ControlInv, NEW r \in BOOLEAN,
         NEW v \in BOOLEAN, NEW w \in Ways, NEW m \in Moves, Tick(r, v, w, m),
         ~acq_data_process,
         state \notin {"s_write_back", "s_write_back_wait_b", "s_mem_req"}
  PROVE  /\ Quiet' /\ nr_cnt' = 0 /\ mem_tag_data_write_cnt' = 0
         /\ ~cmd_sent => ~cmd_sent'
         /\ state = "s_idle" => ~cmd_sent'
<1>0. 0 \in Beat
  BY ParamAssumption DEF Beat
<1>1. Quiet /\ nr_cnt = 0 /\ mem_tag_data_write_cnt = 0
  BY Zenon DEF ControlInv, FsmInv
<1>2. ~mem_send_tag /\ ~mem_receive_tag
  BY Zenon DEF mem_send_tag, mem_receive_tag
<1>3. ~oacq_fire(r) /\ ~ognt_fire(v) /\ nr_inc(v) = FALSE /\ tag_beat_sent(r) = FALSE
  BY Zenon, <1>2, NoTransfer DEF oacq_fire, nr_inc, tag_beat_sent
<1>4. port' = port
  BY Zenon, <1>3, PortStep DEF Tick
<1>5. nr_cnt' = 0
  BY Zenon, <1>0, <1>1, <1>3, CountStep DEF Tick, Receive
<1>6. mem_tag_data_write_cnt' = 0
  BY Zenon, <1>0, <1>1, <1>3, CountStep DEF Tick, WriteBack
<1>7. (~cmd_sent => ~cmd_sent') /\ (state = "s_idle" => ~cmd_sent')
  BY Zenon, <1>3 DEF Tick, CmdSent
<1> QED
  BY Zenon, <1>1, <1>4, <1>5, <1>6, <1>7 DEF Quiet

\* The invariant of the tag state machine in the states that leave memory alone.
LEMMA TagSteps ==
  ASSUME "Put" \notin AcqKinds, TypeOK, ControlInv, NEW r \in BOOLEAN,
         NEW v \in BOOLEAN, NEW w \in Ways, NEW m \in Moves, Tick(r, v, w, m),
         ~acq_data_process, state # "s_idle",
         state \notin {"s_write_back", "s_write_back_wait_b", "s_mem_req"}
  PROVE  FsmInv'
<1>1. state \in Early \/ state \in Refilling \/ state \in Serving \/ state = "s_busy"
  BY Zenon DEF TypeOK, TrackerOK, States, Early, Refilling, Serving
<1>2. Quiet' /\ nr_cnt' = 0 /\ mem_tag_data_write_cnt' = 0 /\ acq_data_process' = FALSE
  BY Zenon, PortIdle, Served
<1>3. CASE state \in Early
  <2>1. ~cmd_sent'
    <3>1. ~cmd_sent
      BY Zenon, <1>3 DEF ControlInv, FsmInv, Early
    <3> QED
      BY Zenon, <3>1, PortIdle
  <2>2. state' \in Early \cup Serving \cup {"s_write_back", "s_mem_req"}
    BY Zenon, <1>3, FsmStep DEF Tick
  <2> QED
    BY Zenon, <1>2, <2>1, <2>2 DEF FsmInv, Early, Serving
<1>4. CASE state \in Refilling \/ state \in Serving
  <2>1. state' \in Refilling \cup Serving \cup {"s_busy"}
    BY Zenon, <1>4, FsmStep DEF Tick
  <2> QED
    BY Zenon, <1>2, <2>1 DEF FsmInv, Refilling, Serving
<1>5. CASE state = "s_busy"
  <2>1. \/ state' = "s_idle" /\ is_write_process' = FALSE
        \/ state' = "s_busy"
    BY Zenon, <1>5, FsmStep DEF Tick
  <2> QED
    BY Zenon, <1>2, <2>1 DEF FsmInv
<1> QED
  BY Zenon, <1>1, <1>3, <1>4, <1>5

\* Between requests: the tracker waits, or latches the presented request.
LEMMA Idle ==
  ASSUME "Put" \notin AcqKinds, TypeOK, ControlInv, NEW r \in BOOLEAN,
         NEW v \in BOOLEAN, NEW w \in Ways, NEW m \in Moves, Tick(r, v, w, m),
         state = "s_idle"
  PROVE  DataInv' /\ FsmInv' /\ AckInv'
<1>0. ~acq_data_process /\ ~is_write_process /\ is_write_process \in BOOLEAN
  BY Zenon DEF ControlInv, FsmInv, TypeOK, TrackerOK
<1>1. /\ Quiet' /\ nr_cnt' = 0 /\ mem_tag_data_write_cnt' = 0 /\ ~cmd_sent'
      /\ acq_data_cnt' = 0 /\ (cl'[Wb].st = "outer" => cl'[Wb].sent = 0)
      /\ is_acq = FALSE /\ is_read = FALSE /\ is_write = FALSE
      /\ acq_data_process = FALSE /\ ~orig_done(v) /\ ~fired(Wb, r)
      /\ ~tl_acquire_fire(r)
  BY Zenon, <1>0, PortIdle, NoTransfer
<1>2. ~gnt_enable'
  BY Zenon DEF Tick, GrantHandler, ControlInv, AckInv
<1>3. CASE ~accept
  <2>1. UNCHANGED reqVars
    BY Zenon, <1>1, <1>3 DEF Tick, Request, accept
  <2>2. state' = "s_idle" /\ ~is_write_process'
    BY Zenon, <1>0, <1>3, FsmStep DEF Tick
  <2> QED
    BY Zenon, <1>1, <1>2, <2>1, <2>2 DEF DataInv, FsmInv, AckInv, reqVars
<1>4. CASE accept /\ RelValid
  <2>1. /\ is_read' = FALSE /\ is_write' = TRUE /\ tag_out' = Wb
        /\ acq_data_process' = TRUE /\ is_acq' = FALSE
    BY Zenon, <1>1, <1>4 DEF Tick, Request, accept
  <2>2. state' = "s_meta_read" /\ is_write_process'
    BY Zenon, <1>4, FsmStep DEF Tick
  <2>3. cl'[Wb].st = "outer"
    <3>1. Wb \in Xacts /\ cl[Wb].st = "outer"
      BY Zenon, <1>4 DEF RelValid, Xacts
    <3> QED
      BY Zenon, <1>1, <3>1, ClientStep DEF Tick, ControlInv
  <2> QED
    BY Zenon, <1>1, <1>2, <2>1, <2>2, <2>3 DEF DataInv, FsmInv, AckInv
<1>5. CASE accept /\ ~RelValid
  <2>0. AcqValid /\ acq \in Ids /\ acq # NoId /\ cl[acq].kind = "Get"
    BY Zenon, <1>5 DEF accept, AcqValid, TypeOK, L2OK, ControlInv, L2Inv
  <2>1. /\ is_read' = TRUE /\ is_write' = FALSE /\ is_acq' = TRUE
        /\ read_multiple_data' = TRUE /\ tag_out' = acq /\ acq_data_process' = TRUE
    BY Zenon, <1>1, <1>5, <2>0 DEF Tick, Request, accept
  <2>2. state' = "s_meta_read" /\ ~is_write_process'
    BY Zenon, <1>5, <2>0, FsmStep DEF Tick
  <2>3. acq' = acq
    BY Zenon, <1>1, <2>0 DEF Tick, OuterArbiter
  <2> QED
    BY Zenon, <1>1, <1>2, <2>1, <2>2, <2>3 DEF DataInv, FsmInv, AckInv
<1> QED
  BY Zenon, <1>3, <1>4, <1>5

-----------------------------------------------------------------------------
\* The reset state satisfies the control invariant.
LEMMA InitControl == Init => ControlInv
<1> SUFFICES ASSUME Init PROVE ControlInv
  OBVIOUS
<1>1. Wb \in Xacts /\ Ids \subseteq Xacts /\ Wb \notin Ids
  BY Zenon, ParamAssumption DEF Xacts
<1>2. \A i \in Xacts : /\ cl[i].st = "idle"
                       /\ cl[i].kind = IF i = Wb THEN "Rel" ELSE "Get"
  BY Zenon DEF Init, IdleCl
<1>3. L2Inv
  BY Zenon, <1>1, <1>2 DEF Init, L2Inv
<1>4. DataInv /\ FsmInv /\ AckInv
  BY Zenon, <1>1, <1>2 DEF Init, DataInv, FsmInv, AckInv, Quiet, NoPort
<1> QED
  BY Zenon, <1>3, <1>4 DEF ControlInv

\* Every clock cycle preserves the control invariant.
LEMMA StepControl ==
  ASSUME "Put" \notin AcqKinds
  PROVE  TypeOK /\ ControlInv /\ [Next]_vars => ControlInv'
<1> SUFFICES ASSUME TypeOK, ControlInv, [Next]_vars PROVE ControlInv'
  OBVIOUS
<1>1. CASE Next
  <2>1. PICK r \in BOOLEAN, v \in BOOLEAN, w \in Ways, m \in Moves : Tick(r, v, w, m)
    BY Zenon, <1>1 DEF Next
  <2>2. L2Inv'
    BY Zenon, <2>1, L2Step DEF Tick, ControlInv
  <2>3. DataInv' /\ FsmInv' /\ AckInv'
    <3>1. CASE is_read
      BY Zenon, <2>1, <3>1, ReadCommand, ReadData
    <3>2. CASE is_write
      BY Zenon, <2>1, <3>2, WriteBeats, WriteResponse
    <3>3. CASE ~is_read /\ ~is_write
      <4>1. ~acq_data_process
        BY Zenon, <3>3 DEF ControlInv, DataInv
      <4>2. CASE state = "s_idle"
        BY Zenon, <2>1, <4>2, Idle
      <4>3. CASE state \in {"s_write_back", "s_write_back_wait_b", "s_mem_req"}
        BY Zenon, <2>1, <4>1, <4>3, TagTransfer, Served
      <4>4. CASE state \notin {"s_idle", "s_write_back", "s_write_back_wait_b", "s_mem_req"}
        BY Zenon, <2>1, <4>1, <4>4, TagSteps, Served
      <4> QED
        BY Zenon, <4>2, <4>3, <4>4
    <3> QED
      BY Zenon, <3>1, <3>2, <3>3
  <2> QED
    BY Zenon, <2>2, <2>3 DEF ControlInv
<1>2. CASE UNCHANGED vars
  BY Zenon, <1>2 DEF vars, reqVars, rdVars, colVars, fsmVars, wbVars, rfVars, gntVars, arrVars,
     memVars, l2Vars, ControlInv, L2Inv, DataInv, FsmInv, AckInv, Quiet, IsPort
<1> QED
  BY Zenon, <1>1, <1>2

\* The control invariant implies the two safety properties it was made for.
LEMMA ControlSafety ==
  ASSUME TypeOK, ControlInv PROVE BurstDiscipline /\ AckAccepted
<1>0. Beats \in Nat /\ Beats >= 2 /\ nr_cnt \in Beat /\ acq_data_cnt \in Beat
      /\ mem_tag_data_write_cnt \in Beat
  BY Zenon, ParamAssumption DEF TypeOK, CountersOK
<1>1. AckAccepted
  <2>1. finq < 2 /\ Wb \in Xacts
    BY DEF TypeOK, L2OK, Xacts
  <2>2. ASSUME gnt_enable, is_write_process PROVE tag_out = Wb /\ cl[Wb].st = "busy"
    BY Zenon, <2>2 DEF ControlInv, AckInv, FsmInv
  <2> QED
    BY Zenon, <2>1, <2>2 DEF AckAccepted, tl_grant_ready
<1>2. Quiet => BurstDiscipline
  BY <1>0 DEF Quiet, BurstDiscipline
<1>3. port.op = "put" /\ port.cnt \in 1 .. Beats /\ port.cnt < Beats => BurstDiscipline
  BY <1>0 DEF BurstDiscipline
<1>4. port.cnt \in 0 .. Beats /\ ~tl_out_acquire_valid => BurstDiscipline
  BY <1>0 DEF BurstDiscipline
<1>5. /\ nr_cnt \in 0 .. Beats /\ Beats \in 0 .. Beats
      /\ acq_data_cnt # 0 => acq_data_cnt \in 1 .. Beats /\ acq_data_cnt < Beats
      /\ mem_tag_data_write_cnt # 0 =>
           mem_tag_data_write_cnt \in 1 .. Beats /\ mem_tag_data_write_cnt < Beats
  BY <1>0 DEF Beat
<1>6. CASE is_read
  <2>1. acq_data_process /\ ~is_write
    BY Zenon, <1>6 DEF ControlInv, DataInv
  <2>2. cmd_sent => ~tl_out_acquire_valid
    BY Zenon, <2>1 DEF tl_out_acquire_valid, mem_send_tag, mem_receive_tag
  <2>3. (~cmd_sent => Quiet) /\ (cmd_sent => IsPort("get", "data", nr_cnt))
    BY Zenon, <1>6 DEF ControlInv, DataInv
  <2> QED
    BY Zenon, <1>1, <1>2, <1>4, <1>5, <2>2, <2>3 DEF IsPort
<1>7. CASE is_write
  <2>1. acq_data_process /\ ~is_read /\ ~is_acq
    BY Zenon, <1>7 DEF ControlInv, DataInv
  <2>2. cl[Wb].st = "busy" => ~tl_out_acquire_valid
    BY Zenon, <2>1 DEF tl_out_acquire_valid, mem_send_tag, mem_receive_tag, RelValid
  <2>3. \/ Quiet
        \/ acq_data_cnt # 0 /\ IsPort("put", "data", acq_data_cnt)
        \/ cl[Wb].st = "busy" /\ IsPort("put", "data", Beats)
    BY Zenon, <1>7 DEF ControlInv, DataInv
  <2> QED
    BY Zenon, <1>1, <1>2, <1>3, <1>4, <1>5, <2>2, <2>3 DEF IsPort
<1>8. CASE ~is_read /\ ~is_write
  <2>1. ~acq_data_process
    BY Zenon, <1>8 DEF ControlInv, DataInv
  <2>2. tl_out_acquire_valid <=> mem_send_tag \/ (mem_receive_tag /\ ~cmd_sent)
    BY Zenon, <1>8, <2>1 DEF tl_out_acquire_valid
  <2>3. \/ Quiet
        \/ mem_tag_data_write_cnt # 0 /\ IsPort("put", "tag", mem_tag_data_write_cnt)
        \/ state = "s_write_back_wait_b" /\ IsPort("put", "tag", Beats)
        \/ state = "s_mem_req" /\ cmd_sent /\ IsPort("get", "tag", nr_cnt)
    BY Zenon, <2>1 DEF ControlInv, FsmInv
  <2>4. state = "s_mem_req" /\ cmd_sent => ~tl_out_acquire_valid
    BY Zenon, <2>2 DEF mem_send_tag, mem_receive_tag
  <2>5. state = "s_write_back_wait_b" => ~tl_out_acquire_valid
    BY Zenon, <2>2 DEF mem_send_tag, mem_receive_tag
  <2> QED
    BY Zenon, <1>1, <1>2, <1>3, <1>4, <1>5, <2>3, <2>4, <2>5 DEF IsPort
<1> QED
  BY Zenon, <1>1, <1>6, <1>7, <1>8

\* For every phase of the tracker, ControlInv says who owns the memory port.
THEOREM ControlCorrect ==
  ASSUME "Put" \notin AcqKinds PROVE Spec => []ControlInv
<1>1. TypeOK /\ ControlInv /\ [Next]_vars => ControlInv'
  BY Zenon, StepControl
<1> QED
  BY InitControl, TypeCorrect, <1>1, PTL DEF Spec

\* The memory port never carries a beat outside a burst: the data transfer, the
\* write-back and the refill never overlap on the port and none sends a surplus
\* beat, for any number of trackers, beats, sets and ways.
THEOREM BurstsAreWhole ==
  ASSUME "Put" \notin AcqKinds PROVE Spec => []BurstDiscipline
<1>1. TypeOK /\ ControlInv => BurstDiscipline
  BY Zenon, ControlSafety
<1> QED
  BY TypeCorrect, ControlCorrect, <1>1, PTL

\* The one-cycle acknowledgement of a write always finds the L2 side ready.
THEOREM AcksAreAccepted ==
  ASSUME "Put" \notin AcqKinds PROVE Spec => []AckAccepted
<1>1. TypeOK /\ ControlInv => AckAccepted
  BY Zenon, ControlSafety
<1> QED
  BY TypeCorrect, ControlCorrect, <1>1, PTL

-----------------------------------------------------------------------------
(* The tag cache never holds one line in two ways.  The lookup, the choice  *)
(* of a victim and the metadata write are several cycles apart.  WayInv     *)
(* carries the fact that the chosen way is the only one that may hold the   *)
(* request's line over those cycles.                                        *)

\* The states of a request before its way is known.
Lookup == {"s_idle", "s_meta_read", "s_meta_resp"}

\* How a cycle moves the state machine and the chosen way around the lookup.
LEMMA LookupStep ==
  ASSUME NEW r, NEW v, Fsm(r, v)
  PROVE  /\ state = "s_idle" => state' \in {"s_idle", "s_meta_read"}
         /\ state = "s_meta_read" =>
              state' = IF rst THEN "s_meta_read" ELSE "s_meta_resp"
         /\ state = "s_meta_resp" /\ ~meta_resp.valid => state' = "s_meta_resp"
         /\ state = "s_meta_resp" /\ meta_resp.valid => acq_way_en' = meta_resp.way_en
         /\ state \notin Lookup => acq_way_en' = acq_way_en
<1> USE DEF Fsm, SIdle, SMetaRead, SMetaResp, SDataReadHit, SDataRespHit, SDataWriteHit,
        SDataReadWb, SDataRespWb, SDataRespWbDone, SWriteBack, SWriteBackWaitB, SMemReq,
        SDataWriteRefill, SMetaWriteRefill, SMetaWriteHit, SGnt, SBusy, MoveIf, GoTo
<1>1. state = "s_idle" => state' \in {"s_idle", "s_meta_read"}
  BY Zenon
<1>2. state = "s_meta_read" => state' = IF rst THEN "s_meta_read" ELSE "s_meta_resp"
  BY Zenon
<1>3. state = "s_meta_resp" => SMetaResp
  BY Zenon
<1>4. state \notin Lookup => acq_way_en' = acq_way_en
  BY Zenon DEF Lookup
<1> QED
  BY Zenon, <1>1, <1>2, <1>3, <1>4

\* The request's address is only latched in s_idle.
LEMMA AddressStep ==
  ASSUME NEW v, Request(v), state # "s_idle" PROVE addr_out' = addr_out
BY Zenon DEF Request, reqVars

\* A metadata write leaves every line in at most one way: the written way is the
\* only one of its set that may have held the line before.
LEMMA WriteKeeps ==
  ASSUME TypeOK, WayInv, ~rst, state \in {"s_meta_write_refill", "s_meta_write_hit"},
         NEW w \in Ways, MetadataArray(w)
  PROVE  /\ \A b \in Block : \A x, y \in WaysOf(b)' : x = y
         /\ \A b \in Block : lineOf(b) = lineOf(addr_out) =>
              \A y \in WaysOf(b)' : y \in acq_way_en
<1> DEFINE word == addrToTag(addr_out, state = "s_meta_write_hit")
           old  == metaArray[addr_out.idx]
           new  == [z \in Ways |-> IF z \in acq_way_en THEN word ELSE old[z]]
<1>0. addr_out \in Block /\ addr_out.idx \in Sets /\ addr_out.tag \in Tags
  BY Zenon, ParamAssumption DEF TypeOK, TrackerOK, Block
<1>1. metaArray' = [metaArray EXCEPT ![addr_out.idx] = new]
  BY Zenon, <1>0 DEF MetadataArray, TypeOK, ArraysOK
<1>2. word.tag = addr_out.tag
  BY Zenon DEF addrToTag
<1>3. PICK e \in Ways : acq_way_en = {e} /\ \A y \in WaysOf(addr_out) : y = e
  <2>1. state \notin {"s_idle", "s_meta_read", "s_meta_resp"}
    BY Zenon
  <2> QED
    BY Zenon, <2>1 DEF WayInv, Fits
<1>4. /\ metaArray'[addr_out.idx] = new
      /\ \A s \in Sets : s # addr_out.idx => metaArray'[s] = metaArray[s]
  BY Zenon, <1>0, <1>1 DEF TypeOK, ArraysOK
<1> HIDE DEF word
<1>5. \A b \in Block : \A x, y \in WaysOf(b) : x = y
  <2>1. \A b \in Block : b.idx < rst_cnt
    BY ParamAssumption DEF Block, Sets, rst, TypeOK, ArraysOK
  <2> QED
    BY Zenon, <2>1 DEF WayInv
<1>6. ASSUME NEW b \in Block, b.idx = addr_out.idx, NEW z \in WaysOf(b)'
      PROVE  (z = e /\ b.tag = addr_out.tag) \/ (z \in WaysOf(b) /\ z # e)
  <2>1. z \in Ways /\ new[z].valid /\ new[z].tag = b.tag
    BY Zenon, <1>4, <1>6 DEF WaysOf
  <2>2. CASE z = e
    <3>1. z \in Ways /\ z \in acq_way_en
      BY Zenon, <1>3, <2>2
    <3>2. new[z] = word
      BY Zenon, <3>1
    <3>3. b.tag = addr_out.tag
      BY Zenon, <1>2, <2>1, <3>2
    <3> QED
      BY Zenon, <2>2, <3>3
  <2>3. CASE z # e
    BY Zenon, <1>3, <1>6, <2>1, <2>3 DEF WaysOf
  <2> QED
    BY Zenon, <2>2, <2>3
<1>7. ASSUME NEW b \in Block, b.idx # addr_out.idx PROVE WaysOf(b)' = WaysOf(b)
  BY Zenon, <1>4, <1>7 DEF WaysOf, Block
<1>8. ASSUME NEW b \in Block, b.idx = addr_out.idx, b.tag = addr_out.tag
      PROVE  WaysOf(b) = WaysOf(addr_out)
  BY Zenon, <1>8 DEF WaysOf
<1>9. ASSUME NEW b \in Block, NEW x \in WaysOf(b)', NEW y \in WaysOf(b)' PROVE x = y
  <2>1. CASE b.idx # addr_out.idx
    BY Zenon, <1>5, <1>7, <2>1
  <2>2. CASE b.idx = addr_out.idx /\ b.tag = addr_out.tag
    BY Zenon, <1>3, <1>6, <1>8, <2>2
  <2>3. CASE b.idx = addr_out.idx /\ b.tag # addr_out.tag
    BY Zenon, <1>5, <1>6, <2>3
  <2> QED
    BY Zenon, <2>1, <2>2, <2>3
<1>10. ASSUME NEW b \in Block, lineOf(b) = lineOf(addr_out), NEW y \in WaysOf(b)'
       PROVE  y \in acq_way_en
  <2>1. b.idx = addr_out.idx /\ b.tag = addr_out.tag
    BY <1>10 DEF lineOf
  <2> QED
    BY Zenon, <1>3, <1>6, <1>8, <2>1
<1> QED
  BY Zenon, <1>9, <1>10

\* After power-up nothing is claimed of the metadata until reset has swept it.
LEMMA InitWays == Init => WayInv
<1> SUFFICES ASSUME Init PROVE WayInv
  OBVIOUS
<1>1. \A b \in Block : ~(b.idx < rst_cnt)
  BY DEF Init, Block, Sets
<1> QED
  BY Zenon, <1>1 DEF Init, WayInv

\* One clock cycle preserves WayInv, conjunct by conjunct.
LEMMA TickWays ==
  ASSUME TypeOK, WayInv, NEW r \in BOOLEAN, NEW v \in BOOLEAN, NEW w \in Ways,
         NEW m \in Moves, Tick(r, v, w, m)
  PROVE  WayInv'
<1> USE DEF Tick
<1> DEFINE writes == state \in {"s_meta_write_refill", "s_meta_write_hit"}
<1>0. /\ rst_cnt \in 0 .. NSets /\ NSets \in Nat
      /\ addr_out \in Block /\ addr_out.idx \in Sets
  BY Zenon, ParamAssumption DEF TypeOK, ArraysOK, TrackerOK, Block
<1>1. rst' => rst
  BY <1>0 DEF MetadataArray, rst
<1>2. rst => state \in {"s_idle", "s_meta_read"}
  BY Zenon DEF WayInv
<1>3. ~rst => \A b \in Block : \A x, y \in WaysOf(b) : x = y
  <2>1. ~rst => \A b \in Block : b.idx < rst_cnt
    BY <1>0 DEF Block, Sets, rst
  <2> QED
    BY Zenon, <2>1 DEF WayInv
<1>4. ~rst /\ ~writes => metaArray' = metaArray
  BY Zenon DEF MetadataArray
<1>5. \A b \in Block : b.idx < rst_cnt' => \A x, y \in WaysOf(b)' : x = y
  <2>1. CASE rst
    <3> SUFFICES ASSUME NEW b \in Block, b.idx < rst_cnt',
                        NEW x \in WaysOf(b)', NEW y \in WaysOf(b)'
                 PROVE  x = y
      BY Zenon
    <3>1. rst_cnt' = rst_cnt + 1 /\ b.idx \in Sets
      BY Zenon, <2>1 DEF MetadataArray, Block
    <3>2. metaArray' = [metaArray EXCEPT ![rst_cnt] = [z \in Ways |-> NoMeta]]
      BY Zenon, <2>1 DEF MetadataArray
    <3>3. CASE b.idx = rst_cnt
      <4>1. metaArray'[b.idx] = [z \in Ways |-> NoMeta]
        BY Zenon, <3>1, <3>2, <3>3 DEF TypeOK, ArraysOK
      <4>2. x \in Ways /\ metaArray'[b.idx][x].valid
        BY Zenon DEF WaysOf
      <4>3. NoMeta.valid = FALSE
        BY DEF NoMeta
      <4>4. metaArray'[b.idx][x] = NoMeta
        BY Zenon, <4>1, <4>2
      <4> QED
        BY Zenon, <4>2, <4>3, <4>4
    <3>4. CASE b.idx # rst_cnt
      <4>1. metaArray'[b.idx] = metaArray[b.idx]
        BY Zenon, <3>1, <3>2, <3>4 DEF TypeOK, ArraysOK
      <4>2. b.idx < rst_cnt
        BY <1>0, <3>1, <3>4 DEF Sets
      <4> QED
        BY Zenon, <4>1, <4>2 DEF WaysOf, WayInv
    <3> QED
      BY Zenon, <3>3, <3>4
  <2>2. CASE ~rst /\ writes
    BY Zenon, <2>2, WriteKeeps
  <2>3. CASE ~rst /\ ~writes
    BY Zenon, <1>3, <1>4, <2>3 DEF WaysOf
  <2> QED
    BY Zenon, <2>1, <2>2, <2>3
<1>6. rst' => state' \in {"s_idle", "s_meta_read"}
  BY Zenon, <1>1, <1>2, LookupStep
<1>7. meta_s1' => state' = "s_meta_resp" /\ ~meta_resp'.valid
  <2> SUFFICES ASSUME meta_s1' PROVE state' = "s_meta_resp" /\ ~meta_resp'.valid
    BY Zenon
  <2>1. state = "s_meta_read" /\ ~rst
    BY Zenon DEF MetadataArray
  <2>2. ~meta_s1
    BY Zenon, <2>1 DEF WayInv
  <2>3. meta_resp' = [meta_resp EXCEPT !.valid = FALSE]
    BY Zenon, <2>2 DEF MetadataArray
  <2>4. meta_resp'.valid = FALSE
    BY Zenon, <2>3 DEF TypeOK, ArraysOK
  <2> QED
    BY Zenon, <2>1, <2>4, LookupStep
<1>8. meta_resp'.valid => state' = "s_meta_resp" /\ Fits(meta_resp.way_en)'
  <2> SUFFICES ASSUME meta_resp'.valid
               PROVE  state' = "s_meta_resp" /\ Fits(meta_resp.way_en)'
    BY Zenon
  <2>1. meta_s1
    <3> SUFFICES ASSUME ~meta_s1 PROVE FALSE
      BY Zenon
    <3>1. meta_resp' = [meta_resp EXCEPT !.valid = FALSE]
      BY Zenon DEF MetadataArray
    <3>2. meta_resp'.valid = FALSE
      BY Zenon, <3>1 DEF TypeOK, ArraysOK
    <3> QED
      BY Zenon, <3>2
  <2>2. state = "s_meta_resp" /\ ~meta_resp.valid /\ ~rst
    BY Zenon, <1>2, <2>1 DEF WayInv
  <2>3. metaArray' = metaArray /\ addr_out' = addr_out /\ state' = "s_meta_resp"
    BY Zenon, <1>4, <2>2, LookupStep, AddressStep
  <2>4. meta_resp'.way_en = IF WaysOf(addr_out) # {} THEN WaysOf(addr_out) ELSE {w}
    BY Zenon, <2>1 DEF MetadataArray, WaysOf
  <2>5. \E x \in Ways : /\ meta_resp'.way_en = {x}
                        /\ \A y \in WaysOf(addr_out) : y = x
    <3>1. CASE WaysOf(addr_out) = {}
      BY Zenon, <2>4, <3>1
    <3>2. CASE WaysOf(addr_out) # {}
      <4>1. PICK x \in WaysOf(addr_out) : TRUE
        BY Zenon, <3>2
      <4>2. x \in Ways
        BY Zenon, <4>1 DEF WaysOf
      <4>3. \A y \in WaysOf(addr_out) : y = x
        BY Zenon, <1>0, <1>3, <2>2, <4>1
      <4>4. meta_resp'.way_en = {x}
        BY Zenon, <2>4, <3>2, <4>1, <4>3
      <4> QED
        BY Zenon, <4>2, <4>3, <4>4
    <3> QED
      BY Zenon, <3>1, <3>2
  <2> QED
    BY Zenon, <2>3, <2>5 DEF Fits, WaysOf
<1>9. state' \notin Lookup => Fits(acq_way_en)'
  <2> SUFFICES ASSUME state' \notin Lookup PROVE Fits(acq_way_en)'
    BY Zenon
  <2>1. \/ state = "s_meta_resp" /\ meta_resp.valid
        \/ state \notin Lookup
    BY Zenon, LookupStep DEF Lookup
  <2>2. ~rst /\ addr_out' = addr_out
    BY Zenon, <1>2, <2>1, AddressStep DEF Lookup
  <2>3. CASE state = "s_meta_resp" /\ meta_resp.valid
    <3>1. acq_way_en' = meta_resp.way_en /\ metaArray' = metaArray
      BY Zenon, <1>4, <2>2, <2>3, LookupStep
    <3>2. Fits(meta_resp.way_en)
      BY Zenon, <2>3 DEF WayInv
    <3> QED
      BY Zenon, <2>2, <3>1, <3>2 DEF Fits, WaysOf
  <2>4. CASE state \notin Lookup
    <3>1. acq_way_en' = acq_way_en
      BY Zenon, <2>4, LookupStep
    <3>2. PICK x \in Ways : acq_way_en = {x} /\ \A y \in WaysOf(addr_out) : y = x
      BY Zenon, <2>4 DEF WayInv, Fits, Lookup
    <3>3. CASE writes
      <4>1. \A y \in WaysOf(addr_out)' : y \in acq_way_en
        BY Zenon, <1>0, <2>2, <3>3, WriteKeeps
      <4> QED
        BY Zenon, <3>1, <3>2, <4>1 DEF Fits
    <3>4. CASE ~writes
      BY Zenon, <1>4, <2>2, <3>1, <3>2, <3>4 DEF Fits, WaysOf
    <3> QED
      BY Zenon, <3>3, <3>4
  <2> QED
    BY Zenon, <2>1, <2>3, <2>4
<1> QED
  BY Zenon, <1>5, <1>6, <1>7, <1>8, <1>9 DEF WayInv, Lookup

\* WayInv is inductive: the way chosen by the lookup stays the right one until
\* the metadata write, whatever the replacement and however long the refill.
THEOREM WaysStayRight == Spec => []WayInv
<1>1. TypeOK /\ WayInv /\ [Next]_vars => WayInv'
  <2> SUFFICES ASSUME TypeOK, WayInv, [Next]_vars PROVE WayInv'
    OBVIOUS
  <2>1. CASE Next
    BY Zenon, <2>1, TickWays DEF Next
  <2>2. CASE UNCHANGED vars
    BY ZenonT(40), <2>2 DEF vars, reqVars, fsmVars, arrVars, WayInv, WaysOf, Fits, rst
  <2> QED
    BY Zenon, <2>1, <2>2
<1> QED
  BY InitWays, TypeCorrect, <1>1, PTL DEF Spec

\* A line is in at most one way of its set, for any number of sets and ways and
\* any choice of victims.
THEOREM LinesAreUnique == Spec => []OneWayPerLine
<1>1. TypeOK /\ WayInv => OneWayPerLine
  <2> SUFFICES ASSUME TypeOK, WayInv, ~rst, NEW b \in Block,
                      NEW x \in WaysOf(b), NEW y \in WaysOf(b)
               PROVE  x = y
    BY Zenon DEF OneWayPerLine
  <2>1. b.idx < rst_cnt
    BY ParamAssumption DEF Block, Sets, rst, TypeOK, ArraysOK
  <2> QED
    BY Zenon, <2>1 DEF WayInv
<1> QED
  BY TypeCorrect, WaysStayRight, <1>1, PTL

-----------------------------------------------------------------------------
(* The way of a word through the tag cache.  A word rests in a dozen       *)
(* buffers, several of which follow another one a cycle late.  PathInv     *)
(* says for every phase which rows of which buffer are right, on top of    *)
(* what ControlInv says of the port and WayInv of the chosen way.          *)

\* The tracker works for a transactor; for a write, until it is acknowledged.
Serves  == state # "s_idle" /\ (state = "s_busy" => gnt_enable)
Unacked == Serves /\ is_write_process

\* The tags of block b in this row are those of its last acknowledged write.
Holds(b, row) == row[b.slot] = Payload(golden[b])
InMemory(b)   == Holds(b, tmem[isDramAddress(b)][lineOf(b)][b.row])

\* The transactor that is served waits for the block that the tracker works on.
OwnerInv ==
  /\ Serves => /\ cl[tag_out].blk = addr_out
               /\ ~acq_data_process => cl[tag_out].st = "busy"
               /\ is_write_process <=> tag_out = Wb
  /\ port.op # "none" /\ port.sp = "data" => port.blk = addr_out

\* Data memory: only the block being written differs, and only in beats that
\* have not been taken yet.
BlockInv ==
  /\ \A b \in ReqBlocks : ~(Unacked /\ b = addr_out) => dmem[b] = Payload(golden[b])
  /\ is_write => \A k \in Beat : cl[Wb].st = "busy" \/ k < acq_data_cnt =>
                                   dmem[addr_out][k] = <<cl[Wb].val, k>>
  /\ Unacked /\ ~acq_data_process => dmem[addr_out] = Payload(cl[Wb].val)

\* The tags that a write brings, collected beat by beat.
CollectInv ==
  /\ collect_acq_data => is_write /\ cl[Wb].st = "outer"
  /\ Unacked => \A k \in Beat : ~collect_acq_data \/ k < acq_data_cnt =>
                                  acq_data[k] = <<cl[Wb].val, k>>

\* The data that a read fetches.
ReadInv ==
  /\ is_read /\ cmd_sent =>
       \A k \in Beat : k < nr_cnt => mem_acq_data_read[k] = <<golden[addr_out], k>>
  /\ Serves /\ ~is_write_process /\ ~acq_data_process =>
       mem_acq_data_read = Payload(golden[addr_out])

\* The states in which the victim is read out and sent, and those in which the
\* request's line is in no way.
Evicting == {"s_data_read_wb", "s_data_resp_wb", "s_data_resp_wb_done", "s_write_back",
             "s_write_back_wait_b"}
Missing  == Evicting \cup {"s_mem_req"} \cup Refilling

\* What the lookup found stays true until the request is served.
LookupInv ==
  /\ \A s \in Sets : s < rst_cnt => \A x \in Ways :
       metaArray[s][x].valid => metaArray[s][x].dram = (metaArray[s][x].tag \in DramTags)
  /\ meta_resp.valid => /\ meta_resp.hit <=> WaysOf(addr_out) # {}
                        /\ \A x \in meta_resp.way_en :
                             meta_resp.meta = metaArray[addr_out.idx][x]
  /\ state \in Missing => WaysOf(addr_out) = {}
  /\ state \in Evicting =>
       /\ acq_repl_meta.valid /\ acq_repl_meta.dirty /\ meta_resp.meta = acq_repl_meta
       /\ \A x \in acq_way_en : metaArray[addr_out.idx][x] = acq_repl_meta
  /\ state \in Serving \cup {"s_busy"} => acq_way_en \subseteq WaysOf(addr_out)
  /\ state \in {"s_data_read_hit", "s_data_resp_hit"} => ~is_write_process
  /\ state \in {"s_data_write_hit", "s_meta_write_hit"} => is_write_process
  /\ state \in {"s_gnt", "s_busy"} /\ is_write_process =>
       \A x \in acq_way_en : metaArray[addr_out.idx][x].dirty

\* The tags of block b, with those of a write that is merged but not acknowledged.
Merged   == Unacked /\ state \in {"s_meta_write_hit", "s_gnt", "s_busy"}
TagsOf(b) == Payload(IF Merged /\ b = addr_out THEN cl[Wb].val ELSE golden[b])

\* Way x holds the line of b, but is the victim of the request in one of the states ss.
Replaced(b, x, ss) == state \in ss /\ x \in acq_way_en /\ b.idx = addr_out.idx

\* Every tag is right in the way that holds its line; and in memory when the line
\* is in no way, is clean, or has been written back.
TagInv ==
  \A b \in ReqBlocks :
    /\ b.idx < rst_cnt => \A x \in WaysOf(b) : ~Replaced(b, x, Refilling) =>
                            dataArray[x][b.idx][b.row][b.slot] = TagsOf(b)
    /\ \/ b.idx >= rst_cnt
       \/ \A x \in WaysOf(b) : metaArray[b.idx][x].dirty =>
                                 Replaced(b, x, {"s_mem_req"} \cup Refilling)
       => InMemory(b)

\* The blocks whose tags are in the victim, and those of the request's line.
Victims    == {b \in ReqBlocks : b.idx = addr_out.idx /\ acq_way_en \cap WaysOf(b) # {}}
LineBlocks == {b \in ReqBlocks : lineOf(b) = lineOf(addr_out)}

\* The counters of the write-back: a row is stored a cycle after it is read.
EvictInv ==
  /\ data_resp.valid = (state \in {"s_data_resp_hit", "s_data_resp_wb", "s_data_resp_wb_done"})
  /\ wb_read_cnt = IF state = "s_data_resp_wb" THEN wb_data_cnt + 1 ELSE 0
  /\ state = "s_data_resp_wb_done" => wb_data_cnt = Beats - 1
  /\ state \notin {"s_data_resp_wb", "s_data_resp_wb_done"} => wb_data_cnt = 0

\* The victim on its way to memory.
WriteBackInv ==
  /\ port.op = "put" /\ port.sp = "tag" =>
       port.ta = tagAddrConv(addrFromTag(acq_repl_meta, addr_out), acq_repl_meta.dram)
  /\ \A b \in Victims :
       /\ state \in {"s_data_resp_wb", "s_data_resp_wb_done"} =>
            /\ b.row < wb_data_cnt => Holds(b, wb_data[b.row])
            /\ b.row = wb_data_cnt => Holds(b, data_resp.row)
       /\ state = "s_write_back" =>
            /\ Holds(b, wb_data[b.row])
            /\ b.row < Beats - 1 \/ mem_tag_data_write_cnt > 0 =>
                 Holds(b, mem_tag_data_write[b.row])
            /\ b.row < mem_tag_data_write_cnt => InMemory(b)
       /\ state = "s_write_back_wait_b" => InMemory(b)

\* The request's line on its way from memory.
RefillInv ==
  /\ port.op = "get" /\ port.sp = "tag" =>
       port.ta = tagAddrConv(lineOf(addr_out), isDramAddress(addr_out))
  /\ state # "s_data_write_refill" => refill_data_cnt = 0
  /\ \A b \in LineBlocks :
       /\ state = "s_mem_req" /\ ~acq_data_process /\ b.row < nr_cnt =>
            Holds(b, mem_tag_data_read[b.row])
       /\ state = "s_data_write_refill" =>
            /\ Holds(b, mem_tag_data_read[b.row])
            /\ b.row < Beats - 1 \/ refill_data_cnt > 0 => Holds(b, refill_data[b.row])
            /\ b.row < refill_data_cnt =>
                 \A x \in acq_way_en : Holds(b, dataArray[x][b.idx][b.row])
       /\ state = "s_meta_write_refill" =>
            \A x \in acq_way_en : Holds(b, dataArray[x][b.idx][b.row])

\* What is granted to a reader, and what it has received.
GrantInv ==
  /\ state = "s_data_resp_hit" => Holds(addr_out, data_resp.row)
  /\ state \in {"s_gnt", "s_busy"} /\ ~is_write_process => gnt_tag = Payload(golden[addr_out])
  /\ gnt_enable /\ ~is_write_process =>
       \A k \in Beat :
         LET cell == <<golden[addr_out], k>> IN
         /\ gnt_data[k] = <<cell, cell>>
         /\ k < gnt_data_cnt => cl[tag_out].buf[k] = <<cell, cell>>
  /\ ~(gnt_enable /\ ~is_write_process) => gnt_data_cnt = 0

PathInv == /\ OwnerInv /\ BlockInv /\ CollectInv /\ ReadInv /\ LookupInv /\ TagInv
           /\ EvictInv /\ WriteBackInv /\ RefillInv /\ GrantInv

\* A clock cycle from a state in which the invariants hold; those of the control
\* and of the ways hold after it too.
Cycle(r, v, w, m) ==
  /\ r \in BOOLEAN /\ v \in BOOLEAN /\ w \in Ways /\ m \in Moves /\ "Put" \notin AcqKinds
  /\ TypeOK /\ ControlInv /\ WayInv /\ PathInv /\ Tick(r, v, w, m)
  /\ TypeOK' /\ ControlInv' /\ WayInv'

-----------------------------------------------------------------------------
(* What a cycle does to the state machine, the owner and the registers.    *)

\* The steps of the tag state machine that handle tags.
LEMMA StateStep ==
  ASSUME NEW r, NEW v, Fsm(r, v)
  PROVE  /\ state = "s_meta_resp" /\ meta_resp.valid =>
              /\ acq_repl_meta' = meta_resp.meta /\ acq_way_en' = meta_resp.way_en
              /\ state' = IF meta_resp.hit THEN Access
                          ELSE IF meta_resp.meta.valid /\ meta_resp.meta.dirty
                          THEN "s_data_read_wb" ELSE "s_mem_req"
         /\ state = "s_meta_resp" /\ ~meta_resp.valid => state' = "s_meta_resp"
         /\ state # "s_meta_resp" => acq_repl_meta' = acq_repl_meta /\ acq_way_en' = acq_way_en
         /\ state \notin {"s_idle", "s_data_resp_hit"} => gnt_tag' = gnt_tag
         /\ state = "s_data_resp_hit" => gnt_tag' = data_resp.row[addr_out.slot]
         /\ state = "s_data_read_hit" => state' = "s_data_resp_hit"
         /\ state = "s_data_resp_hit" => state' = "s_gnt"
         /\ state = "s_data_write_hit" =>
              state' = IF collect_acq_data THEN "s_data_write_hit" ELSE "s_meta_write_hit"
         /\ state = "s_data_read_wb" => state' = "s_data_resp_wb"
         /\ state = "s_data_resp_wb" =>
              state' = IF wb_read_cnt = Beats - 1 THEN "s_data_resp_wb_done"
                       ELSE "s_data_resp_wb"
         /\ state = "s_data_resp_wb_done" =>
              state' = IF data_resp.valid /\ wb_data_cnt = Beats - 1 THEN "s_write_back"
                       ELSE "s_data_resp_wb_done"
         /\ state = "s_data_write_refill" =>
              state' = IF refill_data_cnt = Beats - 1 THEN "s_meta_write_refill"
                       ELSE "s_data_write_refill"
         /\ state = "s_meta_write_refill" => state' = IF rst THEN state ELSE Access
         /\ state = "s_meta_write_hit" => state' = IF rst THEN state ELSE "s_gnt"
         /\ state = "s_gnt" => state' = IF acq_data_process THEN "s_gnt" ELSE "s_busy"
<1> USE DEF Fsm, SIdle, SMetaRead, SMetaResp, SDataReadHit, SDataRespHit, SDataWriteHit,
        SDataReadWb, SDataRespWb, SDataRespWbDone, SWriteBack, SWriteBackWaitB, SMemReq,
        SDataWriteRefill, SMetaWriteRefill, SMetaWriteHit, SGnt, SBusy, MoveIf, GoTo
<1>1. state = "s_meta_resp" => SMetaResp
  BY Zenon
<1>2. state # "s_meta_resp" => acq_repl_meta' = acq_repl_meta /\ acq_way_en' = acq_way_en
  BY Zenon
<1>3. state \notin {"s_idle", "s_data_resp_hit"} => gnt_tag' = gnt_tag
  BY Zenon
<1>4. state = "s_data_resp_hit" => state' = "s_gnt" /\ gnt_tag' = data_resp.row[addr_out.slot]
  BY Zenon
<1>5. /\ state = "s_data_read_hit" => state' = "s_data_resp_hit"
      /\ state = "s_data_write_hit" =>
           state' = IF collect_acq_data THEN "s_data_write_hit" ELSE "s_meta_write_hit"
  BY Zenon
<1>6. state = "s_data_read_wb" => state' = "s_data_resp_wb"
  BY Zenon
<1>7. state = "s_data_resp_wb" =>
        state' = IF wb_read_cnt = Beats - 1 THEN "s_data_resp_wb_done" ELSE "s_data_resp_wb"
  BY Zenon DEF wb_read_inc, data_read_fire
<1>8. state = "s_data_resp_wb_done" =>
        state' = IF data_resp.valid /\ wb_data_cnt = Beats - 1 THEN "s_write_back"
                 ELSE "s_data_resp_wb_done"
  BY Zenon DEF wb_data_inc
<1>9. state = "s_data_write_refill" =>
        state' = IF refill_data_cnt = Beats - 1 THEN "s_meta_write_refill"
                 ELSE "s_data_write_refill"
  BY Zenon
<1>10. /\ state = "s_meta_write_refill" => state' = IF rst THEN state ELSE Access
       /\ state = "s_meta_write_hit" => state' = IF rst THEN state ELSE "s_gnt"
  BY Zenon
<1>11. state = "s_gnt" => state' = IF acq_data_process THEN "s_gnt" ELSE "s_busy"
  BY Zenon
<1> QED
  BY Zenon, <1>1, <1>2, <1>3, <1>4, <1>5, <1>6, <1>7, <1>8, <1>9, <1>10, <1>11

\* The request stays the same until the tracker is idle again, and the tracker
\* serves it until the grant is over.
LEMMA ServesStep ==
  ASSUME NEW r, NEW v, NEW w, NEW m, Cycle(r, v, w, m)
  PROVE  /\ state # "s_idle" => addr_out' = addr_out /\ tag_out' = tag_out
         /\ Serves' /\ state # "s_idle" => Serves /\ ~grant_last
         /\ Serves' /\ state # "s_idle" => is_write_process' = is_write_process
         /\ Serves' /\ state = "s_idle" =>
              /\ accept /\ state' = "s_meta_read" /\ acq_data_process'
              /\ IF RelValid
                 THEN is_write_process' = TRUE /\ tag_out' = Wb
                 ELSE is_write_process' = FALSE /\ tag_out' = acq /\ acq \in Ids
              /\ cl[tag_out'].st = "outer" /\ addr_out' = cl[tag_out'].blk
         /\ state = "s_idle" => ~grant_last /\ ~acq_data_process /\ Quiet /\ ~gnt_enable'
         /\ gnt_enable => state = "s_busy" /\ state' = "s_busy"
<1>0. /\ TypeOK /\ ControlInv /\ "Put" \notin AcqKinds /\ Tick(r, v, w, m)
      /\ Request(v) /\ Fsm(r, v) /\ GrantHandler
  BY Zenon DEF Cycle, Tick
<1>1. gnt_enable => state = "s_busy"
  BY Zenon, <1>0 DEF ControlInv, AckInv
<1>2. gnt_enable => state' = "s_busy"
  BY Zenon, <1>0, <1>1, FsmStep
<1>3. state # "s_idle" => addr_out' = addr_out /\ tag_out' = tag_out
  BY Zenon, <1>0 DEF Request, reqVars
<1>4. ASSUME Serves', state # "s_idle"
      PROVE  Serves /\ ~grant_last /\ is_write_process' = is_write_process
  <2>1. CASE state = "s_busy"
    <3>1. gnt_enable
      BY Zenon, <1>0, <1>4, <2>1, FsmStep DEF Serves, GrantHandler
    <3>2. state' = "s_busy" /\ gnt_enable'
      BY Zenon, <1>2, <1>4, <3>1 DEF Serves
    <3>3. ~(gnt_data_done \/ is_write_process)
      BY Zenon, <1>0, <2>1, <3>2 DEF GrantHandler
    <3>4. is_write_process' = is_write_process
      BY Zenon, <1>0, <2>1, <3>1, FsmStep
    <3> QED
      BY Zenon, <1>4, <3>1, <3>3, <3>4 DEF Serves, grant_last
  <2>2. CASE state # "s_busy"
    BY Zenon, <1>0, <1>1, <1>4, <2>2, FsmStep DEF Serves, grant_last, tl_grant_fire
  <2> QED
    BY Zenon, <2>1, <2>2
<1>5. ASSUME state = "s_idle"
      PROVE  ~grant_last /\ ~acq_data_process /\ Quiet /\ ~gnt_enable'
  BY Zenon, <1>0, <1>1, <1>5 DEF grant_last, tl_grant_fire, ControlInv, FsmInv, GrantHandler
<1>6. ASSUME Serves', state = "s_idle"
      PROVE  /\ accept /\ state' = "s_meta_read" /\ acq_data_process'
             /\ IF RelValid
                THEN is_write_process' = TRUE /\ tag_out' = Wb
                ELSE is_write_process' = FALSE /\ tag_out' = acq /\ acq \in Ids
             /\ cl[tag_out'].st = "outer" /\ addr_out' = cl[tag_out'].blk
  <2>1. accept /\ state' = "s_meta_read"
    BY Zenon, <1>0, <1>6, FsmStep DEF Serves
  <2>2. is_write_process' = (RelValid \/ cl[acq].kind = "Put")
    BY Zenon, <1>0, <1>6, <2>1, FsmStep
  <2>3. CASE RelValid
    <3>1. tag_out' = Wb /\ addr_out' = cl[Wb].blk /\ acq_data_process'
      BY Zenon, <1>0, <1>6, <2>1, <2>3, <1>5 DEF Request, orig_done
    <3>2. is_write_process' = TRUE
      BY Zenon, <2>2, <2>3 
    <3> QED
      BY Zenon, <2>1, <2>3, <3>1, <3>2 DEF RelValid
  <2>4. CASE ~RelValid
    <3>1. AcqValid /\ acq \in Ids /\ acq # NoId /\ cl[acq].kind = "Get" /\ cl[acq].st = "outer"
      BY Zenon, <1>0, <2>1, <2>4 DEF accept, AcqValid, TypeOK, L2OK, ControlInv, L2Inv
    <3>2. tag_out' = acq /\ addr_out' = cl[acq].blk /\ acq_data_process'
      BY Zenon, <1>0, <1>6, <2>1, <2>4, <1>5 DEF Request, orig_done
    <3>3. is_write_process' = FALSE
      BY Zenon, <2>2, <2>4, <3>1
    <3> QED
      BY Zenon, <2>1, <2>4, <3>1, <3>2, <3>3
  <2> QED
    BY Zenon, <2>3, <2>4
<1> QED
  BY Zenon, <1>1, <1>2, <1>3, <1>4, <1>5, <1>6

\* The burst that a beat sent to memory belongs to, and the beat's place in it.
LEMMA BeatSent ==
  ASSUME NEW r, NEW v, NEW w, NEW m, Cycle(r, v, w, m), oacq_fire(r)
  PROVE  \/ /\ is_write /\ acq_data_inc(r) /\ ~tag_beat_sent(r)
            /\ cl[Wb].st = "outer" /\ cl[Wb].sent = acq_data_cnt
            /\ Burst.op = "put" /\ Burst.sp = "data" /\ Burst.cnt = acq_data_cnt
            /\ Burst.blk = addr_out /\ InputCell = <<cl[Wb].val, acq_data_cnt>>
         \/ /\ ~acq_data_inc(r) /\ tag_beat_sent(r) /\ Burst.op = "put" /\ Burst.sp = "tag"
            /\ Burst.cnt = mem_tag_data_write_cnt
            /\ Burst.ta = tagAddrConv(addrFromTag(acq_repl_meta, addr_out),
                                      acq_repl_meta.dram)
         \/ /\ ~acq_data_inc(r) /\ ~tag_beat_sent(r) /\ Burst.op = "get"
            /\ \/ Burst.sp = "data" /\ Burst.blk = addr_out
               \/ /\ Burst.sp = "tag"
                  /\ Burst.ta = tagAddrConv(lineOf(addr_out), isDramAddress(addr_out))
<1>0. /\ TypeOK /\ ControlInv /\ PathInv /\ "Put" \notin AcqKinds /\ Tick(r, v, w, m)
      /\ r \in BOOLEAN /\ v \in BOOLEAN /\ w \in Ways /\ m \in Moves /\ r
  BY Zenon DEF Cycle, oacq_fire
<1>1. /\ acq_data_process <=> is_read \/ is_write
      /\ ~(is_read /\ is_write) /\ (is_acq <=> is_read) /\ Wb # NoId /\ CanAccept
  BY Zenon, <1>0, ParamAssumption DEF ControlInv, DataInv, TypeOK, TrackerOK, Tick, Memory
<1>2. CASE is_write
  <2>1. ~is_read /\ ~is_acq /\ acq_data_process /\ is_write_process
    BY Zenon, <1>0, <1>1, <1>2 DEF ControlInv, DataInv
  <2>2. ~mem_send_tag /\ ~mem_receive_tag /\ sendsPut
    BY Zenon, <2>1 DEF mem_send_tag, mem_receive_tag, sendsPut
  <2>3. RelValid /\ cl[Wb].st = "outer"
    BY Zenon, <2>1, <2>2 DEF oacq_fire, tl_out_acquire_valid, RelValid
  <2>4. /\ cl[Wb].sent = acq_data_cnt /\ tag_out = Wb
        /\ IF acq_data_cnt = 0 THEN Quiet ELSE IsPort("put", "data", acq_data_cnt)
    BY Zenon, <1>0, <1>2, <2>3 DEF ControlInv, DataInv
  <2>5. acq_data_inc(r) /\ ~tag_beat_sent(r)
    <3>1. state # "s_idle"
      BY Zenon, <1>0, <2>1 DEF ControlInv, FsmInv
    <3> QED
      BY Zenon, <1>2, <2>1, <2>2, <2>3, <2>4, <3>1
         DEF acq_data_inc, tl_release_fire, tag_beat_sent
  <2>6. InputCell = <<cl[Wb].val, acq_data_cnt>>
    BY Zenon, <1>1, <2>1, <2>4 DEF InputCell
  <2>7. CASE port.op = "none"
    <3>1. Burst = [op |-> "put", sp |-> "data", cnt |-> 0, blk |-> addr_out]
      BY Zenon, <2>2, <2>7 DEF Burst
    <3>2. acq_data_cnt = 0
      BY Zenon, <2>4, <2>7 DEF IsPort
    <3> QED
      BY Zenon, <1>2, <2>3, <2>4, <2>5, <2>6, <3>1, <3>2
  <2>8. CASE port.op # "none"
    <3>1. Burst = port /\ IsPort("put", "data", acq_data_cnt) /\ port.blk = addr_out
      BY Zenon, <1>0, <2>4, <2>8 DEF Burst, Quiet, PathInv, OwnerInv, IsPort
    <3> QED
      BY Zenon, <1>2, <2>3, <2>4, <2>5, <2>6, <3>1 DEF IsPort
  <2> QED
    BY Zenon, <2>7, <2>8
<1>3. CASE is_read
  <2>1. ~is_write /\ acq_data_process /\ ~is_write_process
    BY Zenon, <1>0, <1>1, <1>3 DEF ControlInv, DataInv
  <2>2. ~mem_send_tag /\ ~mem_receive_tag /\ ~sendsPut
    BY Zenon, <2>1 DEF mem_send_tag, mem_receive_tag, sendsPut
  <2>3. ~cmd_sent
    BY Zenon, <2>1, <2>2 DEF oacq_fire, tl_out_acquire_valid
  <2>4. port.op = "none" /\ ~acq_data_inc(r) /\ ~tag_beat_sent(r)
    BY Zenon, <1>0, <1>3, <2>1, <2>2, <2>3
       DEF ControlInv, DataInv, Quiet, acq_data_inc, tag_beat_sent
  <2>5. Burst = [op |-> "get", sp |-> "data", cnt |-> 0, blk |-> addr_out]
    BY Zenon, <2>2, <2>4 DEF Burst
  <2> QED
    BY Zenon, <2>4, <2>5
<1>4. CASE ~is_read /\ ~is_write
  <2>0. ~acq_data_process /\ ~acq_data_inc(r)
    BY Zenon, <1>1, <1>4 DEF acq_data_inc
  <2>1. mem_send_tag \/ (mem_receive_tag /\ ~cmd_sent)
    BY Zenon, <1>0, <2>0, NoTransfer DEF oacq_fire
  <2>2. CASE mem_send_tag
    <3>1. state = "s_write_back" /\ ~mem_receive_tag /\ sendsPut
      BY Zenon, <2>2 DEF mem_send_tag, mem_receive_tag, sendsPut
    <3>2. IF mem_tag_data_write_cnt = 0 THEN Quiet
          ELSE IsPort("put", "tag", mem_tag_data_write_cnt)
      BY Zenon, <1>0, <2>0, <3>1 DEF ControlInv, FsmInv
    <3>3. tag_beat_sent(r)
      BY Zenon, <2>2 DEF tag_beat_sent
    <3>4. meta_resp.meta.dram = acq_repl_meta.dram
      BY Zenon, <1>0, <3>1 DEF PathInv, LookupInv, Evicting
    <3>5. CASE port.op = "none"
      <4>1. Burst = [op |-> "put", sp |-> "tag", cnt |-> 0,
                     ta |-> tagAddrConv(addrFromTag(acq_repl_meta, addr_out),
                                        acq_repl_meta.dram)]
        BY Zenon, <2>2, <3>1, <3>4, <3>5 DEF Burst
      <4>2. mem_tag_data_write_cnt = 0
        BY Zenon, <3>2, <3>5 DEF IsPort
      <4> QED
        BY Zenon, <2>0, <3>3, <4>1, <4>2
    <3>6. CASE port.op # "none"
      <4>1. Burst = port /\ IsPort("put", "tag", mem_tag_data_write_cnt)
        BY Zenon, <3>2, <3>6 DEF Burst, Quiet
      <4>2. port.ta = tagAddrConv(addrFromTag(acq_repl_meta, addr_out), acq_repl_meta.dram)
        BY Zenon, <1>0, <4>1 DEF IsPort, PathInv, WriteBackInv
      <4> QED
        BY Zenon, <2>0, <3>3, <4>1, <4>2 DEF IsPort
    <3> QED
      BY Zenon, <3>5, <3>6
  <2>3. CASE mem_receive_tag /\ ~cmd_sent
    <3>1. state = "s_mem_req" /\ ~mem_send_tag /\ ~sendsPut
      BY Zenon, <2>3 DEF mem_send_tag, mem_receive_tag, sendsPut
    <3>2. port.op = "none" /\ ~tag_beat_sent(r)
      BY Zenon, <1>0, <2>0, <2>3, <3>1 DEF ControlInv, FsmInv, Quiet, tag_beat_sent
    <3>3. Burst = [op |-> "get", sp |-> "tag", cnt |-> 0,
                   ta |-> tagAddrConv(lineOf(addr_out), isDramAddress(addr_out))]
      BY Zenon, <2>3, <3>1, <3>2 DEF Burst
    <3> QED
      BY Zenon, <2>0, <3>2, <3>3
  <2> QED
    BY Zenon, <2>1, <2>2, <2>3
<1> QED
  BY Zenon, <1>2, <1>3, <1>4

\* A cycle writes to memory at most the presented beat of the data or the next
\* row of the victim, and the open burst is for the request's block, for the
\* victim's line or for the request's line.
LEMMA MemoryStep ==
  ASSUME NEW r, NEW v, NEW w, NEW m, Cycle(r, v, w, m)
  PROVE  /\ acq_data_inc(r) =>
              /\ is_write /\ cl[Wb].st = "outer" /\ cl[Wb].sent = acq_data_cnt
              /\ dmem' = [dmem EXCEPT ![addr_out][acq_data_cnt] = <<cl[Wb].val, acq_data_cnt>>]
         /\ ~acq_data_inc(r) => dmem' = dmem
         /\ tag_beat_sent(r) =>
              tmem' = [tmem EXCEPT ![acq_repl_meta.dram][addrFromTag(acq_repl_meta, addr_out)]
                                    [mem_tag_data_write_cnt]
                                     = mem_tag_data_write[mem_tag_data_write_cnt]]
         /\ ~tag_beat_sent(r) => tmem' = tmem
         /\ port'.op # "none" /\ port'.sp = "data" => port'.blk = addr_out
         /\ port'.op = "put" /\ port'.sp = "tag" =>
              port'.ta = tagAddrConv(addrFromTag(acq_repl_meta, addr_out), acq_repl_meta.dram)
         /\ port'.op = "get" /\ port'.sp = "tag" =>
              port'.ta = tagAddrConv(lineOf(addr_out), isDramAddress(addr_out))
<1> DEFINE victim == tagAddrConv(addrFromTag(acq_repl_meta, addr_out), acq_repl_meta.dram)
           line   == tagAddrConv(lineOf(addr_out), isDramAddress(addr_out))
           Right(p) == /\ p.op # "none" /\ p.sp = "data" => p.blk = addr_out
                       /\ p.op = "put" /\ p.sp = "tag" => p.ta = victim
                       /\ p.op = "get" /\ p.sp = "tag" => p.ta = line
<1>0. TypeOK /\ PathInv /\ Memory(r, v) /\ port \in Port
  BY Zenon DEF Cycle, Tick, TypeOK, MemoryOK
<1>1. Right(port) /\ Right(NoPort)
  BY Zenon, <1>0 DEF PathInv, OwnerInv, WriteBackInv, RefillInv, NoPort
<1>2. ASSUME NEW p \in Port, Right(p), NEW n PROVE Right([p EXCEPT !.cnt = n])
  <2>1. CASE p = NoPort
    <3>1. [p EXCEPT !.cnt = n].op = "none"
      BY Zenon, <2>1 DEF NoPort
    <3> QED
      BY Zenon, <3>1
  <2>2. CASE \E op, c : p \in [op : op, sp : {"data"}, cnt : c, blk : ReqBlocks]
    BY Zenon, <1>2, <2>2
  <2>3. CASE \E op, c : p \in [op : op, sp : {"tag"}, cnt : c, ta : TagAddress]
    BY Zenon, <1>2, <2>3
  <2> QED
    BY Zenon, <2>1, <2>2, <2>3 DEF Port
<1>3. victim.dram = acq_repl_meta.dram /\ victim.line = addrFromTag(acq_repl_meta, addr_out)
  BY Zenon DEF tagAddrConv
<1>4. CASE oacq_fire(r)
  <2>1. Right(Burst) /\ Burst \in Port
    BY Zenon, <1>0, <1>4, BeatSent, BurstType
  <2>2. Right(port')
    <3>1. \/ port' = NoPort \/ port' = Burst
          \/ \E n : port' = [Burst EXCEPT !.cnt = n]
      BY Zenon, <1>0, <1>4 DEF Memory
    <3> HIDE DEF Right
    <3> QED
      BY Zenon, <1>1, <1>2, <2>1, <3>1
  <2>3. Burst.op = "put" /\ (Burst.cnt = acq_data_cnt \/ Burst.cnt = mem_tag_data_write_cnt)
          => ~(Burst.cnt >= Beats)
    BY <1>0, ParamAssumption DEF TypeOK, CountersOK, Beat
  <2>4. CASE /\ is_write /\ acq_data_inc(r) /\ ~tag_beat_sent(r)
             /\ cl[Wb].st = "outer" /\ cl[Wb].sent = acq_data_cnt
             /\ Burst.op = "put" /\ Burst.sp = "data" /\ Burst.cnt = acq_data_cnt
             /\ Burst.blk = addr_out /\ InputCell = <<cl[Wb].val, acq_data_cnt>>
    <3>1. dmem' = [dmem EXCEPT ![addr_out][acq_data_cnt] = <<cl[Wb].val, acq_data_cnt>>]
          /\ tmem' = tmem
      BY Zenon, <1>0, <1>4, <2>3, <2>4 DEF Memory
    <3> QED
      BY Zenon, <2>2, <2>4, <3>1
  <2>5. CASE /\ ~acq_data_inc(r) /\ tag_beat_sent(r) /\ Burst.op = "put" /\ Burst.sp = "tag"
             /\ Burst.cnt = mem_tag_data_write_cnt /\ Burst.ta = victim
    <3>1. /\ tmem' = [tmem EXCEPT ![acq_repl_meta.dram][addrFromTag(acq_repl_meta, addr_out)]
                                    [mem_tag_data_write_cnt]
                                     = mem_tag_data_write[mem_tag_data_write_cnt]]
          /\ dmem' = dmem
      BY Zenon, <1>0, <1>3, <1>4, <2>3, <2>5 DEF Memory
    <3> QED
      BY Zenon, <2>2, <2>5, <3>1
  <2>6. CASE ~acq_data_inc(r) /\ ~tag_beat_sent(r) /\ Burst.op = "get"
    <3>1. dmem' = dmem /\ tmem' = tmem
      BY Zenon, <1>0, <1>4, <2>6 DEF Memory
    <3> QED
      BY Zenon, <2>2, <2>6, <3>1
  <2> QED
    BY Zenon, <1>4, <2>4, <2>5, <2>6, BeatSent
<1>5. CASE ~oacq_fire(r)
  <2>1. ~acq_data_inc(r) /\ ~tag_beat_sent(r)
    BY Zenon, <1>5 DEF acq_data_inc, tl_acquire_fire, tl_release_fire, tag_beat_sent
  <2>2. Right(port')
    <3>1. \/ port' = NoPort \/ port' = port
          \/ \E n : port' = [port EXCEPT !.cnt = n]
      BY Zenon, <1>0, <1>5 DEF Memory, memVars
    <3> HIDE DEF Right
    <3> QED
      BY Zenon, <1>0, <1>1, <1>2, <3>1
  <2>3. dmem' = dmem /\ tmem' = tmem
    BY Zenon, <1>0, <1>5 DEF Memory, memVars
  <2> QED
    BY Zenon, <2>1, <2>2, <2>3
<1> QED
  BY Zenon, <1>4, <1>5

\* A transactor keeps its request while it is not idle.
LEMMA RequestKept ==
  ASSUME NEW r, NEW v, NEW w, NEW m, Cycle(r, v, w, m), NEW j \in Xacts,
         cl[j].st # "idle", cl'[j].st # "idle"
  PROVE  cl'[j].blk = cl[j].blk /\ cl'[j].val = cl[j].val /\ cl'[j].kind = cl[j].kind
<1>0. L2OK /\ m \in Moves /\ Transactors(r, m) /\ cl[j] \in Client
  BY Zenon DEF Cycle, Tick, TypeOK, L2OK
<1>1. CASE cl'[j] = Sent(cl[j])
  BY Zenon, <1>0, <1>1 DEF Sent, Client
<1>2. CASE cl'[j] = Granted(j)
  <2>0. IdleCl(j).st = "idle"
    BY Zenon DEF IdleCl
  <2>1. ~grant_last
    BY Zenon, <1>2, <2>0 DEF Granted
  <2> QED
    BY <1>0, <1>2, <2>1 DEF Granted, Client
<1>3. CASE cl'[j] = [cl[j] EXCEPT !.st = "outer"]
  BY Zenon, <1>0, <1>3 DEF Client
<1>4. CASE cl'[j] = cl[j]
  BY Zenon, <1>4
<1>5. CASE Fetches(j, cl'[j])
  BY Zenon, <1>0, <1>5 DEF Fetches, Client
<1> QED
  BY Zenon, <1>0, <1>1, <1>2, <1>3, <1>4, <1>5, TransactorStep DEF Starts

\* The transactor that is served has an open request.
LEMMA OwnerWaits ==
  ASSUME TypeOK, ControlInv, PathInv, Serves
  PROVE  /\ tag_out \in Xacts /\ cl[tag_out].st \in {"outer", "busy"}
         /\ cl[tag_out].blk = addr_out /\ (is_write_process <=> tag_out = Wb)
<1>1. CASE is_read
  BY Zenon, <1>1, ParamAssumption
     DEF ControlInv, DataInv, L2Inv, TypeOK, TrackerOK, PathInv, OwnerInv, Xacts
<1>2. CASE is_write
  BY Zenon, <1>2 DEF ControlInv, DataInv, TypeOK, TrackerOK, PathInv, OwnerInv
<1>3. CASE ~acq_data_process
  BY Zenon, <1>3 DEF TypeOK, TrackerOK, PathInv, OwnerInv
<1> QED
  BY Zenon, <1>1, <1>2, <1>3 DEF ControlInv, DataInv

\* The tracker goes on serving the same request, or accepts a new one.
LEMMA OwnerStep ==
  ASSUME NEW r, NEW v, NEW w, NEW m, Cycle(r, v, w, m), Serves'
  PROVE  /\ tag_out' \in Xacts /\ cl[tag_out'].st \in {"outer", "busy"}
         /\ cl'[tag_out'].st \in {"outer", "busy"}
         /\ cl'[tag_out'].blk = addr_out' /\ (is_write_process' <=> tag_out' = Wb)
         /\ cl'[tag_out'].val = cl[tag_out'].val
         /\ cl[tag_out'].st = "busy" => cl'[tag_out'].st = "busy"
<1>0. /\ TypeOK /\ ControlInv /\ "Put" \notin AcqKinds /\ Tick(r, v, w, m) /\ PathInv
      /\ TypeOK' /\ L2Inv /\ Transactors(r, m) /\ m \in Moves
      /\ (state # "s_idle" => tag_out' = tag_out /\ addr_out' = addr_out)
  BY Zenon, ServesStep DEF Cycle, Tick, ControlInv
<1>1. tag_out' \in Xacts
  BY Zenon, <1>0 DEF TypeOK, TrackerOK
<1>2. /\ cl[tag_out'].st \in {"outer", "busy"} /\ cl[tag_out'].blk = addr_out'
      /\ is_write_process' <=> tag_out' = Wb
  <2>1. CASE state = "s_idle"
    BY Zenon, <2>1, ServesStep, ParamAssumption
  <2>2. CASE state # "s_idle"
    BY Zenon, <1>0, <2>2, ServesStep, OwnerWaits
  <2> QED
    BY Zenon, <2>1, <2>2
<1>3. ~grant_last
  BY Zenon, ServesStep
<1>4. /\ cl'[tag_out'].st \in {"outer", "busy"}
      /\ cl[tag_out'].st = "busy" => cl'[tag_out'].st = "busy"
  <2>1. CASE fired(tag_out', r)
    <3>1. cl'[tag_out'] = Sent(cl[tag_out']) /\ cl[tag_out'].st = "outer"
      BY Zenon, <1>0, <1>1, <2>1, ClientStep, FiredSends
    <3>2. cl[tag_out'] \in Client
      BY Zenon, <1>0, <1>1 DEF TypeOK, L2OK
    <3> QED
      BY <3>1, <3>2 DEF Sent, Client
  <2>2. CASE ~fired(tag_out', r)
    BY Zenon, <1>0, <1>1, <1>2, <1>3, <2>2, ClientStep
  <2> QED
    BY Zenon, <2>1, <2>2
<1>5. cl'[tag_out'].blk = cl[tag_out'].blk /\ cl'[tag_out'].val = cl[tag_out'].val
  BY Zenon, <1>1, <1>2, <1>4, RequestKept
<1> QED
  BY Zenon, <1>1, <1>2, <1>4, <1>5

\* golden changes only when a write is acknowledged, and then for its block.
LEMMA GoldenStep ==
  ASSUME NEW r, NEW v, NEW w, NEW m, Cycle(r, v, w, m)
  PROVE  /\ gnt_enable /\ is_write_process =>
              /\ grant_last /\ Unacked /\ ~Serves' /\ state = "s_busy" /\ state' = "s_busy"
              /\ golden' = [golden EXCEPT ![addr_out] = cl[Wb].val]
              /\ golden'[addr_out] = cl[Wb].val
              /\ \A b \in ReqBlocks : b # addr_out => golden'[b] = golden[b]
         /\ ~(gnt_enable /\ is_write_process) => golden' = golden
<1>0. /\ TypeOK /\ ControlInv /\ PathInv /\ Completion /\ GrantHandler
      /\ golden \in [ReqBlocks -> Vals] /\ addr_out \in ReqBlocks
  BY Zenon DEF Cycle, Tick, TypeOK, L2OK, TrackerOK
<1>1. ASSUME gnt_enable, is_write_process
      PROVE  /\ grant_last /\ Unacked /\ ~Serves' /\ state = "s_busy" /\ state' = "s_busy"
             /\ golden' = [golden EXCEPT ![addr_out] = cl[Wb].val]
  <2>1. grant_last
    BY Zenon, <1>0, <1>1, ControlSafety DEF AckAccepted, grant_last, tl_grant_fire
  <2>2. state = "s_busy" /\ state' = "s_busy"
    BY Zenon, <1>1, ServesStep
  <2>3. ~gnt_enable'
    BY Zenon, <1>0, <1>1, <2>2 DEF GrantHandler
  <2>4. Serves
    BY Zenon, <1>1, <2>2 DEF Serves
  <2>5. tag_out = Wb /\ cl[tag_out].blk = addr_out
    BY Zenon, <1>0, <1>1, <2>4, OwnerWaits
  <2>6. golden' = [golden EXCEPT ![addr_out] = cl[Wb].val]
    BY Zenon, <1>0, <1>1, <2>1, <2>5 DEF Completion
  <2> QED
    BY Zenon, <1>1, <2>1, <2>2, <2>3, <2>4, <2>6 DEF Serves, Unacked
<1>2. ~(gnt_enable /\ is_write_process) => golden' = golden
  BY Zenon, <1>0 DEF Completion, grant_last, tl_grant_fire
<1> QED
  BY Zenon, <1>0, <1>1, <1>2

\* A write is served until it is acknowledged.
LEMMA UnackedStep ==
  ASSUME NEW r, NEW v, NEW w, NEW m, Cycle(r, v, w, m)
  PROVE  /\ Unacked /\ ~(gnt_enable /\ is_write_process) =>
              Unacked' /\ cl'[Wb].val = cl[Wb].val /\ addr_out' = addr_out
         /\ Unacked' /\ state # "s_idle" =>
              /\ Unacked /\ ~(gnt_enable /\ is_write_process)
              /\ cl'[Wb].val = cl[Wb].val /\ addr_out' = addr_out
         /\ Unacked' /\ state = "s_idle" =>
              /\ RelValid /\ acq_data_process' /\ cl[Wb].st = "outer"
              /\ state' = "s_meta_read" /\ accept
<1>0. /\ TypeOK /\ ControlInv /\ Fsm(r, v) /\ GrantHandler /\ PathInv
      /\ state \in States /\ is_write_process \in BOOLEAN
  BY Zenon DEF Cycle, Tick, TypeOK, TrackerOK
<1>1. ASSUME Unacked, ~(gnt_enable /\ is_write_process) PROVE Unacked'
  <2>1. state \notin {"s_idle", "s_busy"} /\ is_write_process
    BY Zenon, <1>1 DEF Unacked, Serves
  <2>2. is_write_process' = is_write_process
    BY Zenon, <1>0, <2>1, FsmStep
  <2>3. state' \notin {"s_idle", "s_busy"} \/ (state = "s_gnt" /\ state' = "s_busy"
                                               /\ ~acq_data_process)
    BY Zenon, <1>0, <2>1, FsmStep DEF States, Early, Refilling, Serving
  <2>4. state = "s_gnt" /\ ~acq_data_process => gnt_enable'
    BY Zenon, <1>0 DEF GrantHandler
  <2> QED
    BY Zenon, <2>1, <2>2, <2>3, <2>4 DEF Unacked, Serves
<1>2. ASSUME Unacked', state # "s_idle"
      PROVE  Unacked /\ ~(gnt_enable /\ is_write_process)
  <2>1. Serves /\ is_write_process' = is_write_process
    BY Zenon, <1>2, ServesStep DEF Unacked
  <2> QED
    BY Zenon, <1>2, <2>1, GoldenStep DEF Unacked
<1>3. ASSUME Unacked' PROVE tag_out' = Wb /\ cl'[Wb].val = cl[Wb].val
  BY Zenon, <1>3, OwnerStep DEF Unacked
<1>4. ASSUME Unacked', state = "s_idle"
      PROVE  /\ RelValid /\ acq_data_process' /\ cl[Wb].st = "outer"
             /\ state' = "s_meta_read" /\ accept
  BY Zenon, <1>4, ServesStep DEF Unacked, RelValid
<1>5. Unacked => state # "s_idle"
  BY Zenon DEF Unacked, Serves
<1> QED
  BY Zenon, <1>1, <1>2, <1>3, <1>4, <1>5, ServesStep

\* The data transfer of a write.
LEMMA WriteTransfer ==
  ASSUME NEW r, NEW v, NEW w, NEW m, Cycle(r, v, w, m), is_write
  PROVE  /\ acq_data_process /\ is_acq = FALSE /\ is_write_process /\ state # "s_idle"
         /\ ~gnt_enable /\ Unacked /\ Unacked'
         /\ orig_done(v) => cl[Wb].st = "busy"
         /\ cl[Wb].st = "busy" => ~acq_data_inc(r) /\ acq_data_cnt' = 0
         /\ cl[Wb].st # "busy" =>
              /\ cl[Wb].st = "outer" /\ cl[Wb].sent = acq_data_cnt
              /\ IF acq_data_inc(r)
                 THEN IF acq_data_cnt = Beats - 1
                      THEN acq_data_done(r) /\ acq_data_cnt' = 0
                      ELSE /\ ~acq_data_done(r) /\ acq_data_cnt' = acq_data_cnt + 1
                           /\ cl'[Wb].st = "outer"
                 ELSE /\ ~acq_data_done(r) /\ acq_data_cnt' = acq_data_cnt
                      /\ cl'[Wb].st = "outer"
<1>0. /\ TypeOK /\ ControlInv /\ PathInv /\ "Put" \notin AcqKinds /\ Tick(r, v, w, m)
      /\ L2Inv /\ r \in BOOLEAN /\ v \in BOOLEAN /\ w \in Ways /\ m \in Moves
      /\ Memory(r, v) /\ Collect(r) /\ Transactors(r, m) /\ Request(v)
      /\ Wb \in Xacts /\ cl[Wb] \in Client /\ acq_data_cnt \in Beat
      /\ is_acq \in BOOLEAN /\ is_read \in BOOLEAN
  BY Zenon DEF Cycle, Tick, ControlInv, TypeOK, L2OK, Xacts, CountersOK, TrackerOK
<1>1. /\ is_read = FALSE /\ acq_data_process /\ is_write_process /\ tag_out = Wb
      /\ \/ /\ cl[Wb].st = "outer" /\ cl[Wb].sent = acq_data_cnt
            /\ IF acq_data_cnt = 0 THEN Quiet ELSE IsPort("put", "data", acq_data_cnt)
         \/ /\ cl[Wb].st = "busy" /\ acq_data_cnt = 0 /\ IsPort("put", "data", Beats)
  BY Zenon, <1>0 DEF ControlInv, DataInv
<1>2. is_acq = FALSE
  BY Zenon, <1>0, <1>1 DEF ControlInv, DataInv
<1>3. state \notin Alone /\ state' \notin Alone /\ is_write_process' = is_write_process
  BY Zenon, <1>0, <1>1, Transfer
<1>4. Unacked /\ Unacked' /\ state # "s_idle" /\ ~gnt_enable
  BY Zenon, <1>0, <1>1, <1>3 DEF Unacked, Serves, Alone, ControlInv, AckInv
<1>5. orig_done(v) => cl[Wb].st = "busy"
  <2>1. acq_data_cnt < Beats /\ (acq_data_cnt # 0 => ~(acq_data_cnt >= Beats))
    BY <1>0, ParamAssumption DEF Beat
  <2>2. orig_done(v) => CanRespond
    BY Zenon, <1>0 DEF orig_done, nr_finish, nr_inc, ognt_fire, Memory
  <2> QED
    BY Zenon, <1>1, <2>1, <2>2 DEF CanRespond, Quiet, IsPort
<1>6. acq_data_inc(r) => cl[Wb].st = "outer" /\ fired(Wb, r)
  BY Zenon, <1>2 DEF acq_data_inc, tl_acquire_fire, tl_release_fire, RelValid, fired
<1>7. fired(Wb, r) => acq_data_inc(r)
  BY Zenon, ParamAssumption, <1>0, <1>2 DEF acq_data_inc, fired, tl_acquire_fire
<1>8. /\ acq_data_inc(r) => acq_data_cnt' = IF acq_data_cnt = Beats - 1 THEN 0 ELSE acq_data_cnt + 1
      /\ ~acq_data_inc(r) => acq_data_cnt' = acq_data_cnt
  <2>1. acq_data_inc(r) \in BOOLEAN
    BY Zenon DEF acq_data_inc
  <2> QED
    BY Zenon, <1>0, <2>1, CountStep DEF Collect
<1>9. ASSUME acq_data_inc(r), acq_data_cnt # Beats - 1 PROVE cl'[Wb].st = "outer"
  <2>1. cl'[Wb] = Sent(cl[Wb]) /\ cl[Wb].st = "outer" /\ MsgBeats(cl[Wb]) = Beats
    BY Zenon, <1>0, <1>6, <1>9, ClientStep DEF L2Inv, MsgBeats
  <2>2. cl[Wb].sent = acq_data_cnt
    BY Zenon, <1>1, <2>1
  <2>3. cl[Wb].sent + 1 # MsgBeats(cl[Wb])
    BY <1>0, <1>9, <2>1, <2>2, ParamAssumption DEF Beat
  <2> QED
    BY Zenon, <1>0, <2>1, <2>3 DEF Sent, Client
<1>10. ASSUME ~acq_data_inc(r), cl[Wb].st = "outer" PROVE cl'[Wb].st = "outer"
  BY Zenon, <1>0, <1>7, <1>10, ClientStep
<1> QED
  BY Zenon, <1>1, <1>2, <1>4, <1>5, <1>6, <1>8, <1>9, <1>10 DEF acq_data_done

\* The data transfer of a read.
LEMMA ReadTransfer ==
  ASSUME NEW r, NEW v, NEW w, NEW m, Cycle(r, v, w, m), is_read
  PROVE  /\ acq_data_process /\ ~is_write /\ ~is_write_process /\ state # "s_idle" /\ ~Unacked
         /\ ~gnt_enable
         /\ ~cmd_sent => ~orig_done(v) /\ nr_cnt' = 0
         /\ cmd_sent =>
              /\ cl[tag_out].st = "busy"
              /\ v => /\ nr_cnt' = IF nr_cnt = Beats - 1 THEN 0 ELSE nr_cnt + 1
                      /\ orig_done(v) <=> nr_cnt = Beats - 1
                      /\ mem_acq_data_read' = [mem_acq_data_read EXCEPT ![nr_cnt] =
                                                 dmem[addr_out][nr_cnt]]
              /\ ~v => /\ ~orig_done(v) /\ nr_cnt' = nr_cnt
                       /\ mem_acq_data_read' = mem_acq_data_read
<1>0. /\ TypeOK /\ ControlInv /\ PathInv /\ r \in BOOLEAN /\ v \in BOOLEAN
      /\ Tick(r, v, w, m) /\ w \in Ways /\ m \in Moves
      /\ Memory(r, v) /\ Receive(v) /\ nr_cnt \in Beat
      /\ is_write_process \in BOOLEAN
  BY Zenon DEF Cycle, Tick, TypeOK, CountersOK, TrackerOK
<1>1. /\ acq_data_process /\ ~is_write /\ ~is_write_process /\ read_multiple_data
      /\ ~cmd_sent => Quiet /\ nr_cnt = 0
      /\ cmd_sent  => IsPort("get", "data", nr_cnt) /\ cl[tag_out].st = "busy"
  BY Zenon, <1>0 DEF ControlInv, DataInv
<1>2. state \notin Alone /\ ~mem_receive_tag
  BY Zenon, <1>0, <1>1, Transfer
<1>3. state # "s_idle" /\ ~Unacked /\ ~accept /\ ~gnt_enable
  BY Zenon, <1>0, <1>1, <1>2 DEF Alone, Unacked, accept, ControlInv, AckInv
<1>4. /\ nr_inc(v) <=> v
      /\ orig_done(v) <=> v /\ nr_cnt = Beats - 1
  BY Zenon, <1>1 DEF nr_inc, orig_done, nr_finish, ognt_fire, tl_out_grant_ready
<1>5. /\ v => nr_cnt' = IF nr_cnt = Beats - 1 THEN 0 ELSE nr_cnt + 1
      /\ ~v => nr_cnt' = nr_cnt
  <2>1. nr_inc(v) \in BOOLEAN
    BY Zenon DEF nr_inc
  <2> QED
    BY Zenon, <1>0, <1>4, <2>1, CountStep DEF Receive
<1>6. v => cmd_sent
  BY Zenon, <1>0, <1>1 DEF Memory, CanRespond, Quiet
<1>7. ASSUME cmd_sent
      PROVE  mem_acq_data_read' = IF v THEN [mem_acq_data_read EXCEPT ![nr_cnt] =
                                               dmem[addr_out][nr_cnt]]
                                  ELSE mem_acq_data_read
  <2>1. port.op = "get" /\ port.sp = "data" /\ port.cnt = nr_cnt /\ port.blk = addr_out
    BY Zenon, <1>0, <1>1, <1>7 DEF IsPort, PathInv, OwnerInv
  <2> QED
    BY Zenon, <1>0, <1>1, <1>3, <2>1 DEF Receive
<1> QED
  BY Zenon, <1>1, <1>3, <1>4, <1>5, <1>6, <1>7

-----------------------------------------------------------------------------
(* The request's data.                                                     *)

\* Without a transfer the data memory and the transfer's buffers are left alone.
LEMMA NoTransferData ==
  ASSUME NEW r, NEW v, NEW w, NEW m, Cycle(r, v, w, m), ~acq_data_process
  PROVE  /\ is_read = FALSE /\ is_write = FALSE /\ ~acq_data_inc(r) /\ dmem' = dmem
         /\ acq_data_cnt' = 0 /\ ~fired(Wb, r)
         /\ ~accept => mem_acq_data_read' = mem_acq_data_read
         /\ state = "s_idle" => Quiet' /\ nr_cnt' = 0
<1>1. is_read = FALSE /\ is_write = FALSE /\ acq_data_cnt' = 0 /\ ~fired(Wb, r)
  BY Zenon, NoTransfer DEF Cycle
<1>2. ~acq_data_inc(r)
  BY Zenon, <1>1 DEF acq_data_inc
<1>3. ~accept => mem_acq_data_read' = mem_acq_data_read
  BY Zenon DEF Cycle, Tick, Receive
<1>4. state = "s_idle" => Quiet' /\ nr_cnt' = 0
  BY Zenon, PortIdle DEF Cycle
<1> QED
  BY Zenon, <1>1, <1>2, <1>3, <1>4, MemoryStep

\* The transactor that is served keeps waiting for the tracker's block.
LEMMA OwnerKept ==
  ASSUME NEW r, NEW v, NEW w, NEW m, Cycle(r, v, w, m)
  PROVE  OwnerInv'
<1>0. TypeOK /\ ControlInv /\ PathInv /\ Tick(r, v, w, m) /\ ControlInv'
      /\ r \in BOOLEAN /\ v \in BOOLEAN /\ w \in Ways /\ m \in Moves
  BY Zenon DEF Cycle
<1>1. ASSUME Serves', ~acq_data_process' PROVE cl'[tag_out'].st = "busy"
  <2>0. state # "s_idle" /\ Serves /\ tag_out' = tag_out
    BY Zenon, <1>1, ServesStep
  <2>1. CASE ~acq_data_process
    BY Zenon, <1>0, <1>1, <2>0, <2>1, OwnerStep DEF PathInv, OwnerInv
  <2>2. CASE is_write
    <3>1. orig_done(v) /\ cl[Wb].st = "busy" /\ tag_out = Wb
      BY Zenon, <1>0, <1>1, <2>2, WriteTransfer, Transfer DEF ControlInv, DataInv
    <3> QED
      BY Zenon, <1>1, <2>0, <3>1, OwnerStep
  <2>3. CASE is_read
    <3>1. orig_done(v)
      BY Zenon, <1>0, <1>1, <2>3, ReadTransfer, Transfer
    <3>2. cmd_sent /\ cl[tag_out].st = "busy"
      BY Zenon, <2>3, <3>1, ReadTransfer
    <3> QED
      BY Zenon, <1>1, <2>0, <3>2, OwnerStep
  <2> QED
    BY Zenon, <1>0, <2>1, <2>2, <2>3 DEF ControlInv, DataInv
<1>2. port'.op # "none" /\ port'.sp = "data" => port'.blk = addr_out'
  <2>1. CASE state = "s_idle"
    BY Zenon, <2>1, ServesStep, NoTransferData DEF Quiet
  <2>2. CASE state # "s_idle"
    BY Zenon, <2>2, ServesStep, MemoryStep
  <2> QED
    BY Zenon, <2>1, <2>2
<1> QED
  BY Zenon, <1>1, <1>2, OwnerStep DEF OwnerInv

\* The collected tags are those of the beats that memory has taken.
LEMMA CollectKept ==
  ASSUME NEW r, NEW v, NEW w, NEW m, Cycle(r, v, w, m)
  PROVE  CollectInv'
<1>0. /\ TypeOK /\ ControlInv /\ PathInv /\ Collect(r) /\ Request(v) /\ L2Inv
      /\ "Put" \notin AcqKinds /\ Transactors(r, m) /\ m \in Moves /\ Wb \in Xacts
      /\ acq_data \in Entry /\ acq_data_cnt \in Beat /\ r \in BOOLEAN /\ v \in BOOLEAN
      /\ w \in Ways /\ Tick(r, v, w, m)
  BY Zenon DEF Cycle, Tick, TypeOK, BuffersOK, CountersOK, ControlInv, Xacts
<1>1. CASE state = "s_idle"
  <2>1. ~acq_data_process /\ acq_data_cnt' = 0 /\ ~fired(Wb, r) /\ is_write = FALSE
    BY Zenon, <1>1, ServesStep, NoTransferData
  <2>2. ASSUME collect_acq_data' PROVE is_write' /\ cl'[Wb].st = "outer"
    <3>1. accept
      BY Zenon, <1>0, <2>1, <2>2 DEF Collect, PathInv, CollectInv
    <3>2. RelValid
      BY Zenon, <1>0, <2>2, <3>1 DEF Collect, accept, AcqValid, L2Inv, TypeOK, L2OK
    <3>3. cl'[Wb].st = "outer"
      BY Zenon, <1>0, <2>1, <3>2, ClientStep DEF RelValid
    <3> QED
      BY Zenon, <1>0, <1>1, <2>1, <3>1, <3>2, <3>3, ServesStep DEF Request, orig_done
  <2>3. Unacked' => collect_acq_data'
    BY Zenon, <1>0, <1>1, UnackedStep DEF Collect
  <2>4. \A k \in Beat : ~(k < acq_data_cnt')
    BY <2>1 DEF Beat
  <2> QED
    BY Zenon, <2>2, <2>3, <2>4 DEF CollectInv
<1>2. CASE state # "s_idle"
  <2>0. ~accept
    BY Zenon, <1>2 DEF accept
  <2>1. CASE ~collect_acq_data
    <3>1. ~collect_acq_data' /\ acq_data' = acq_data
      BY Zenon, <1>0, <2>0, <2>1 DEF Collect
    <3> QED
      BY Zenon, <1>0, <1>2, <2>1, <3>1, UnackedStep DEF CollectInv, PathInv
  <2>2. CASE collect_acq_data
    <3>0. is_write /\ cl[Wb].st = "outer" /\ cl[Wb].st # "busy"
      BY Zenon, <1>0, <2>2 DEF CollectInv, PathInv
    <3> USE WriteTransfer
    <3>1. is_write' = is_write /\ acq_data_process
      BY Zenon, <1>0, <3>0, Transfer
    <3>2. collect_acq_data' = ~acq_data_done(r)
      BY Zenon, <1>0, <2>0, <2>2 DEF Collect
    <3>3. acq_data' = [acq_data EXCEPT ![acq_data_cnt] = <<cl[Wb].val, acq_data_cnt>>]
      BY Zenon, <1>0, <2>0, <2>2, <3>0, ParamAssumption DEF Collect
    <3>4. Unacked /\ cl'[Wb].val = cl[Wb].val
      BY Zenon, <3>0, UnackedStep
    <3>5. \A k \in Beat : k < acq_data_cnt => acq_data[k] = <<cl[Wb].val, k>>
      BY Zenon, <1>0, <3>4 DEF PathInv, CollectInv
    <3>6. \A k \in Beat : k < acq_data_cnt \/ k = acq_data_cnt =>
                            acq_data'[k] = <<cl[Wb].val, k>>
      BY Zenon, <1>0, <3>3, <3>5 DEF Entry
    <3>7. \A k \in Beat : ~collect_acq_data' \/ k < acq_data_cnt' =>
                            k < acq_data_cnt \/ k = acq_data_cnt
      <4>1. ~collect_acq_data' => acq_data_cnt = Beats - 1
        BY Zenon, <3>2 DEF acq_data_done
      <4>2. acq_data_cnt' \in {0, acq_data_cnt, acq_data_cnt + 1}
        BY Zenon, <3>0
      <4>3. acq_data_cnt \in Beat
        BY Zenon, <1>0
      <4>4. Beats \in Nat
        BY ParamAssumption
      <4> QED
        BY <4>1, <4>2, <4>3, <4>4 DEF Beat
    <3>8. collect_acq_data' => cl'[Wb].st = "outer"
      BY Zenon, <3>0, <3>2
    <3> QED
      BY Zenon, <3>0, <3>1, <3>4, <3>6, <3>7, <3>8 DEF CollectInv
  <2> QED
    BY Zenon, <2>1, <2>2
<1> QED
  BY Zenon, <1>1, <1>2

\* Data memory differs from the acknowledged data only in the block being written.
LEMMA BlockKept ==
  ASSUME NEW r, NEW v, NEW w, NEW m, Cycle(r, v, w, m)
  PROVE  BlockInv'
<1>0. /\ TypeOK /\ ControlInv /\ PathInv /\ BlockInv /\ Request(v) /\ L2Inv
      /\ "Put" \notin AcqKinds /\ Transactors(r, m) /\ m \in Moves /\ Wb \in Xacts
      /\ dmem \in [ReqBlocks -> Entry] /\ acq_data_cnt \in Beat /\ addr_out \in ReqBlocks
      /\ r \in BOOLEAN /\ v \in BOOLEAN /\ w \in Ways /\ Tick(r, v, w, m)
  BY Zenon DEF Cycle, Tick, TypeOK, MemoryOK, CountersOK, TrackerOK, ControlInv, Xacts, PathInv
<1>1. ASSUME NEW b \in ReqBlocks, ~(Unacked' /\ b = addr_out')
      PROVE  dmem'[b] = Payload(golden'[b])
  <2>1. CASE acq_data_inc(r)
    <3>0. is_write /\ dmem' = [dmem EXCEPT ![addr_out][acq_data_cnt]
                                              = <<cl[Wb].val, acq_data_cnt>>]
      BY Zenon, <2>1, MemoryStep
    <3>1. Unacked /\ Unacked' /\ ~gnt_enable
      BY Zenon, <3>0, WriteTransfer
    <3>2. addr_out' = addr_out /\ golden' = golden
      BY Zenon, <3>1, UnackedStep, GoldenStep
    <3>3. b # addr_out /\ dmem'[b] = dmem[b]
      BY Zenon, <1>0, <1>1, <3>0, <3>1, <3>2
    <3> QED
      BY Zenon, <1>0, <3>2, <3>3 DEF BlockInv
  <2>2. CASE ~acq_data_inc(r) /\ ~(gnt_enable /\ is_write_process)
    <3>1. dmem' = dmem /\ golden' = golden
      BY Zenon, <2>2, MemoryStep, GoldenStep
    <3>2. ~(Unacked /\ b = addr_out)
      BY Zenon, <1>1, <2>2, UnackedStep
    <3> QED
      BY Zenon, <1>0, <3>1, <3>2 DEF BlockInv
  <2>3. CASE ~acq_data_inc(r) /\ gnt_enable /\ is_write_process
    <3>1. /\ dmem' = dmem /\ Unacked /\ state = "s_busy" /\ golden'[addr_out] = cl[Wb].val
          /\ b # addr_out => golden'[b] = golden[b]
      BY Zenon, <2>3, MemoryStep, GoldenStep
    <3>2. ~acq_data_process
      BY Zenon, <1>0, <3>1 DEF ControlInv, FsmInv
    <3> QED
      BY Zenon, <1>0, <3>1, <3>2 DEF BlockInv
  <2> QED
    BY Zenon, <2>1, <2>2, <2>3
<1>2. ASSUME is_write', NEW k \in Beat, cl'[Wb].st = "busy" \/ k < acq_data_cnt'
      PROVE  dmem'[addr_out'][k] = <<cl'[Wb].val, k>>
  <2>1. CASE state = "s_idle"
    <3>1. ~acq_data_process /\ acq_data_cnt' = 0 /\ ~fired(Wb, r) /\ is_write = FALSE
      BY Zenon, <2>1, ServesStep, NoTransferData
    <3>2. accept /\ RelValid
      BY Zenon, <1>0, <1>2, <3>1
         DEF Request, accept, AcqValid, reqVars, L2Inv, TypeOK, L2OK
    <3>3. cl'[Wb].st = "outer"
      BY Zenon, <1>0, <3>1, <3>2, ClientStep DEF RelValid
    <3>4. ~(k < acq_data_cnt')
      BY <3>1 DEF Beat
    <3> QED
      BY Zenon, <1>2, <3>3, <3>4
  <2>2. CASE state # "s_idle"
    <3>0. is_write
      BY Zenon, <1>0, <1>2, <2>2 DEF Request, reqVars
    <3> USE WriteTransfer
    <3>1. addr_out' = addr_out /\ cl'[Wb].val = cl[Wb].val
      BY Zenon, <3>0, UnackedStep
    <3>2. cl[Wb].st = "busy" \/ k < acq_data_cnt => dmem[addr_out][k] = <<cl[Wb].val, k>>
      BY Zenon, <1>0, <3>0 DEF BlockInv
    <3>3. CASE acq_data_inc(r)
      <4>1. dmem' = [dmem EXCEPT ![addr_out][acq_data_cnt] = <<cl[Wb].val, acq_data_cnt>>]
        BY Zenon, <3>3, MemoryStep
      <4>2. k < acq_data_cnt \/ k = acq_data_cnt
        <5>1. acq_data_cnt = Beats - 1 \/ (cl'[Wb].st = "outer" /\ acq_data_cnt' = acq_data_cnt + 1)
          BY Zenon, <3>0, <3>3
        <5> QED
          BY <1>0, <1>2, <5>1, ParamAssumption DEF Beat
      <4>3. dmem[addr_out] \in Entry
        BY Zenon, <1>0
      <4> QED
        BY Zenon, <1>0, <3>1, <3>2, <4>1, <4>2, <4>3 DEF Entry
    <3>4. CASE ~acq_data_inc(r)
      <4>1. dmem' = dmem
        BY Zenon, <3>4, MemoryStep
      <4>2. cl[Wb].st = "busy" \/ (cl'[Wb].st = "outer" /\ acq_data_cnt' = acq_data_cnt)
        BY Zenon, <3>0, <3>4
      <4> QED
        BY Zenon, <1>2, <3>1, <3>2, <4>1, <4>2
    <3> QED
      BY Zenon, <3>3, <3>4
  <2> QED
    BY Zenon, <2>1, <2>2
<1>3. ASSUME Unacked', ~acq_data_process' PROVE dmem'[addr_out'] = Payload(cl'[Wb].val)
  <2>0. state # "s_idle" /\ Unacked /\ addr_out' = addr_out /\ cl'[Wb].val = cl[Wb].val
    BY Zenon, <1>3, UnackedStep
  <2>1. CASE ~acq_data_process
    BY Zenon, <1>0, <2>0, <2>1, NoTransferData DEF BlockInv
  <2>2. CASE acq_data_process
    <3>1. is_write /\ orig_done(v)
      BY Zenon, <1>0, <1>3, <2>0, <2>2, Transfer DEF ControlInv, DataInv, Unacked
    <3>2. cl[Wb].st = "busy" /\ dmem' = dmem
      BY Zenon, <3>1, WriteTransfer, MemoryStep
    <3>3. \A k \in Beat : dmem[addr_out][k] = <<cl[Wb].val, k>>
      BY Zenon, <1>0, <3>1, <3>2 DEF BlockInv
    <3>4. dmem[addr_out] \in Entry
      BY Zenon, <1>0
    <3>5. dmem[addr_out] = [k \in Beat |-> <<cl[Wb].val, k>>]
      BY Zenon, <3>3, <3>4 DEF Entry
    <3> QED
      BY Zenon, <2>0, <3>2, <3>5 DEF Payload
  <2> QED
    BY Zenon, <2>1, <2>2
<1> QED
  BY Zenon, <1>1, <1>2, <1>3 DEF BlockInv

\* The beats of a read arrive in order and belong to the request's block.
LEMMA ReadKept ==
  ASSUME NEW r, NEW v, NEW w, NEW m, Cycle(r, v, w, m)
  PROVE  ReadInv'
<1>0. /\ TypeOK /\ ControlInv /\ PathInv /\ BlockInv /\ ReadInv /\ Request(v) /\ Receive(v)
      /\ mem_acq_data_read \in Entry /\ nr_cnt \in Beat /\ addr_out \in ReqBlocks
      /\ r \in BOOLEAN /\ v \in BOOLEAN /\ w \in Ways /\ m \in Moves /\ Tick(r, v, w, m)
  BY Zenon DEF Cycle, Tick, TypeOK, BuffersOK, CountersOK, TrackerOK, PathInv
<1>1. ASSUME is_read, cmd_sent, v
      PROVE  /\ mem_acq_data_read' \in Entry
             /\ \A k \in Beat : k < nr_cnt \/ k = nr_cnt =>
                                  mem_acq_data_read'[k] = <<golden[addr_out], k>>
  <2>1. mem_acq_data_read' = [mem_acq_data_read EXCEPT ![nr_cnt] = dmem[addr_out][nr_cnt]]
    BY Zenon, <1>1, ReadTransfer
  <2>2. dmem[addr_out] = Payload(golden[addr_out])
    BY Zenon, <1>0, <1>1, ReadTransfer DEF BlockInv
  <2>3. dmem[addr_out][nr_cnt] = <<golden[addr_out], nr_cnt>>
    BY Zenon, <1>0, <2>2 DEF Payload
  <2>4. \A k \in Beat : k < nr_cnt => mem_acq_data_read[k] = <<golden[addr_out], k>>
    BY Zenon, <1>0, <1>1 DEF ReadInv
  <2>5. mem_acq_data_read' \in Entry
    BY Zenon DEF Cycle, TypeOK, BuffersOK
  <2> QED
    BY Zenon, <1>0, <2>1, <2>3, <2>4, <2>5 DEF Entry
<1>2. ASSUME is_read', cmd_sent', NEW k \in Beat, k < nr_cnt'
      PROVE  mem_acq_data_read'[k] = <<golden'[addr_out'], k>>
  <2>0. ~(nr_cnt' = 0)
    BY <1>2 DEF Beat
  <2>1. state # "s_idle"
    BY Zenon, <2>0, ServesStep, NoTransferData
  <2>2. is_read
    BY Zenon, <1>0, <1>2, <2>1 DEF Request, reqVars
  <2>3. cmd_sent /\ addr_out' = addr_out /\ golden' = golden
    BY Zenon, <2>0, <2>1, <2>2, ReadTransfer, ServesStep, GoldenStep
  <2>4. CASE v
    <3>1. nr_cnt' \in {0, nr_cnt + 1}
      BY Zenon, <2>2, <2>3, <2>4, ReadTransfer
    <3>2. k < nr_cnt \/ k = nr_cnt
      BY <1>0, <1>2, <2>0, <3>1 DEF Beat
    <3> QED
      BY Zenon, <1>1, <2>2, <2>3, <2>4, <3>2
  <2>5. CASE ~v
    <3>1. nr_cnt' = nr_cnt /\ mem_acq_data_read' = mem_acq_data_read
      BY SMTT(30), <2>2, <2>3, <2>5, ReadTransfer
    <3> QED
      BY Zenon, <1>0, <1>2, <2>2, <2>3, <3>1 DEF ReadInv
  <2> QED
    BY Zenon, <2>4, <2>5
<1>3. ASSUME Serves', ~is_write_process', ~acq_data_process'
      PROVE  mem_acq_data_read' = Payload(golden'[addr_out'])
  <2>0. /\ state # "s_idle" /\ Serves /\ addr_out' = addr_out
        /\ ~is_write_process /\ golden' = golden
    BY Zenon, <1>3, ServesStep, GoldenStep
  <2>1. CASE ~acq_data_process
    BY Zenon, <1>0, <2>0, <2>1, NoTransferData DEF ReadInv, accept
  <2>2. CASE acq_data_process
    <3>1. is_read /\ orig_done(v)
      BY Zenon, <1>0, <1>3, <2>0, <2>2, Transfer DEF ControlInv, DataInv
    <3>2. cmd_sent /\ v /\ nr_cnt = Beats - 1
      BY Zenon, <3>1, ReadTransfer DEF orig_done, nr_finish, nr_inc, ognt_fire
    <3>3. \A k \in Beat : k < nr_cnt \/ k = nr_cnt
      BY <3>2, ParamAssumption DEF Beat
    <3>4. mem_acq_data_read' = [k \in Beat |-> <<golden[addr_out], k>>]
      BY Zenon, <1>1, <3>1, <3>2, <3>3 DEF Entry
    <3> QED
      BY Zenon, <2>0, <3>4 DEF Payload
  <2> QED
    BY Zenon, <2>1, <2>2
<1> QED
  BY Zenon, <1>2, <1>3 DEF ReadInv

-----------------------------------------------------------------------------
(* The lookup.                                                             *)

\* Where the tag state machine comes from.
LEMMA Predecessors ==
  ASSUME NEW r, NEW v, NEW w, NEW m, Cycle(r, v, w, m)
  PROVE  /\ state' \in Missing =>
              \/ state \in Missing \ {"s_meta_write_refill"}
              \/ state = "s_meta_resp" /\ meta_resp.valid /\ ~meta_resp.hit
         /\ state' \in Evicting =>
              \/ state \in Evicting
              \/ /\ state = "s_meta_resp" /\ meta_resp.valid /\ ~meta_resp.hit
                 /\ meta_resp.meta.valid /\ meta_resp.meta.dirty
         /\ state' \in Serving \cup {"s_busy"} =>
              \/ state \in Serving \cup {"s_busy"} \/ state = "s_meta_write_refill"
              \/ state = "s_meta_resp" /\ meta_resp.valid /\ meta_resp.hit
         /\ state' = "s_data_read_hit" =>
              /\ state \in {"s_meta_resp", "s_meta_write_refill"} /\ ~is_write_process
         /\ state' = "s_data_resp_hit" => state = "s_data_read_hit"
         /\ state' = "s_data_write_hit" =>
              \/ state = "s_data_write_hit" /\ collect_acq_data
              \/ state \in {"s_meta_resp", "s_meta_write_refill"} /\ is_write_process
         /\ state' = "s_meta_write_hit" => state = "s_data_write_hit" /\ ~collect_acq_data
         /\ state' = "s_gnt" => state \in {"s_data_resp_hit", "s_meta_write_hit", "s_gnt"}
         /\ state' = "s_busy" => state \in {"s_gnt", "s_busy"}
         /\ state' = "s_data_read_wb" => state = "s_meta_resp"
         /\ state' = "s_data_resp_wb" =>
              \/ state = "s_data_read_wb"
              \/ state = "s_data_resp_wb" /\ wb_read_cnt # Beats - 1
         /\ state' = "s_data_resp_wb_done" =>
              \/ state = "s_data_resp_wb" /\ wb_read_cnt = Beats - 1
              \/ state = "s_data_resp_wb_done" /\ ~(data_resp.valid /\ wb_data_cnt = Beats - 1)
         /\ state' = "s_write_back" => state \in {"s_data_resp_wb_done", "s_write_back"}
         /\ state' = "s_write_back_wait_b" => state \in {"s_write_back", "s_write_back_wait_b"}
         /\ state' = "s_mem_req" =>
              \/ state \in {"s_write_back_wait_b", "s_mem_req"}
              \/ /\ state = "s_meta_resp" /\ meta_resp.valid /\ ~meta_resp.hit
                 /\ ~(meta_resp.meta.valid /\ meta_resp.meta.dirty)
         /\ state' = "s_data_write_refill" =>
              \/ state = "s_mem_req" /\ ~acq_data_process /\ nr_finish(v)
              \/ state = "s_data_write_refill" /\ refill_data_cnt # Beats - 1
         /\ state' = "s_meta_write_refill" =>
              state = "s_data_write_refill" /\ refill_data_cnt = Beats - 1
         /\ rst => state \in {"s_idle", "s_meta_read"} /\ state' \in {"s_idle", "s_meta_read"}
<1>0. /\ TypeOK /\ Fsm(r, v) /\ state \in States
      /\ rst => state \in {"s_idle", "s_meta_read"}
  BY Zenon DEF Cycle, Tick, TypeOK, TrackerOK, WayInv
<1>1. /\ state = "s_idle" => state' \in {"s_idle", "s_meta_read"}
      /\ state = "s_meta_read" => state' \in {"s_meta_read", "s_meta_resp"}
      /\ rst => state' \in {"s_idle", "s_meta_read"}
  BY Zenon, <1>0, LookupStep
<1>2. /\ Access = IF is_write_process THEN "s_data_write_hit" ELSE "s_data_read_hit"
      /\ Access \in {"s_data_write_hit", "s_data_read_hit"}
  BY Zenon DEF Access
<1>3. state = "s_meta_resp" =>
        \/ state' = "s_meta_resp"
        \/ meta_resp.valid /\ meta_resp.hit /\ state' = Access
        \/ /\ meta_resp.valid /\ ~meta_resp.hit /\ meta_resp.meta.valid /\ meta_resp.meta.dirty
           /\ state' = "s_data_read_wb"
        \/ /\ meta_resp.valid /\ ~meta_resp.hit
           /\ ~(meta_resp.meta.valid /\ meta_resp.meta.dirty) /\ state' = "s_mem_req"
  BY Zenon, <1>0, StateStep
<1>4. /\ state = "s_meta_write_refill" => state' = Access
      /\ state = "s_meta_write_hit" => state' = "s_gnt"
  BY Zenon, <1>0, StateStep
<1>5. state = "s_busy" => state' \in {"s_busy", "s_idle"}
  BY Zenon, <1>0, FsmStep
<1>6. /\ state = "s_data_read_hit" => state' = "s_data_resp_hit"
      /\ state = "s_data_resp_hit" => state' = "s_gnt"
      /\ state = "s_gnt" => state' \in {"s_gnt", "s_busy"}
      /\ state = "s_data_write_hit" =>
           state' = IF collect_acq_data THEN "s_data_write_hit" ELSE "s_meta_write_hit"
  BY Zenon, <1>0, StateStep
<1>7. /\ state = "s_data_read_wb" => state' = "s_data_resp_wb"
      /\ state = "s_data_resp_wb" =>
           state' = IF wb_read_cnt = Beats - 1 THEN "s_data_resp_wb_done" ELSE "s_data_resp_wb"
      /\ state = "s_data_resp_wb_done" =>
           state' = IF data_resp.valid /\ wb_data_cnt = Beats - 1 THEN "s_write_back"
                    ELSE "s_data_resp_wb_done"
      /\ state = "s_data_write_refill" =>
           state' = IF refill_data_cnt = Beats - 1 THEN "s_meta_write_refill"
                    ELSE "s_data_write_refill"
  BY Zenon, <1>0, StateStep
<1>8. /\ state = "s_write_back" => state' \in {"s_write_back", "s_write_back_wait_b"}
      /\ state = "s_write_back_wait_b" => state' \in {"s_write_back_wait_b", "s_mem_req"}
      /\ state = "s_mem_req" =>
           state' = IF ~acq_data_process /\ nr_finish(v) THEN "s_data_write_refill"
                    ELSE "s_mem_req"
  BY Zenon, <1>0, FsmStep
<1> QED
  BY <1>0, <1>1, <1>2, <1>3, <1>4, <1>5, <1>6, <1>7, <1>8
     DEF States, Missing, Evicting, Refilling, Serving

\* The metadata word of an address.
LEMMA MetaWord ==
  ASSUME NEW b, NEW d, NEW word, word = addrToTag(b, d)
  PROVE  /\ word.valid /\ word.dirty = d /\ word.tag = b.tag
         /\ word.dram = (word.tag \in DramTags)
BY DEF addrToTag, isDramAddress

\* Every word of the metadata array after a cycle.
LEMMA MetaStep ==
  ASSUME NEW r, NEW v, NEW w, NEW m, Cycle(r, v, w, m)
  PROVE  /\ rst => /\ rst_cnt' = rst_cnt + 1
                   /\ \A s \in Sets, x \in Ways : s = rst_cnt => ~metaArray'[s][x].valid
                   /\ \A s \in Sets : s # rst_cnt => metaArray'[s] = metaArray[s]
         /\ ~rst => rst_cnt' = rst_cnt /\ \A b \in ReqBlocks : b.idx < rst_cnt
         /\ ~rst /\ state \notin {"s_meta_write_refill", "s_meta_write_hit"} =>
              metaArray' = metaArray
         /\ ~rst /\ state \in {"s_meta_write_refill", "s_meta_write_hit"} =>
              /\ \A s \in Sets, x \in Ways : s # addr_out.idx \/ x \notin acq_way_en =>
                   metaArray'[s][x] = metaArray[s][x]
              /\ \A x \in acq_way_en : metaArray'[addr_out.idx][x] =
                                         addrToTag(addr_out, state = "s_meta_write_hit")
<1>0. /\ MetadataArray(w) /\ metaArray \in [Sets -> [Ways -> Meta]]
      /\ addr_out.idx \in Sets /\ acq_way_en \subseteq Ways
  BY Zenon, ParamAssumption DEF Cycle, Tick, TypeOK, ArraysOK, TrackerOK, Block
<1>1. CASE rst
  <2>1. metaArray' = [metaArray EXCEPT ![rst_cnt] = [x \in Ways |-> NoMeta]]
        /\ rst_cnt' = rst_cnt + 1
    BY Zenon, <1>0, <1>1 DEF MetadataArray
  <2>2. NoMeta.valid = FALSE
    BY Zenon DEF NoMeta
  <2>3. \A s \in Sets : s = rst_cnt => metaArray'[s] = [x \in Ways |-> NoMeta]
    BY Zenon, <1>0, <2>1
  <2>4. \A s \in Sets : s # rst_cnt => metaArray'[s] = metaArray[s]
    BY Zenon, <1>0, <2>1
  <2>5. \A x \in Ways : [y \in Ways |-> NoMeta][x].valid = FALSE
    BY Zenon, <2>2
  <2>6. \A s \in Sets, x \in Ways : s = rst_cnt => ~metaArray'[s][x].valid
    BY Zenon, <2>3, <2>5
  <2> QED
    BY Zenon, <1>1, <2>1, <2>4, <2>6
<1>2. CASE ~rst
  <2>1. rst_cnt' = rst_cnt
    BY Zenon, <1>0, <1>2 DEF MetadataArray
  <2>2. \A b \in ReqBlocks : b.idx < rst_cnt
    BY <1>2, ParamAssumption DEF Cycle, TypeOK, ArraysOK, Block, Sets, rst
  <2>3. CASE state \notin {"s_meta_write_refill", "s_meta_write_hit"}
    BY Zenon, <1>0, <1>2, <2>1, <2>2, <2>3 DEF MetadataArray
  <2>4. CASE state \in {"s_meta_write_refill", "s_meta_write_hit"}
    <3> DEFINE word == addrToTag(addr_out, state = "s_meta_write_hit")
               new  == [x \in Ways |-> IF x \in acq_way_en THEN word
                                       ELSE metaArray[addr_out.idx][x]]
    <3>1. metaArray' = [metaArray EXCEPT ![addr_out.idx] = new]
      BY Zenon, <1>0, <1>2, <2>4 DEF MetadataArray
    <3> HIDE DEF word
    <3>2. /\ metaArray'[addr_out.idx] = new
          /\ \A s \in Sets : s # addr_out.idx => metaArray'[s] = metaArray[s]
      BY Zenon, <1>0, <3>1
    <3>3. /\ \A x \in Ways : x \in acq_way_en => new[x] = word
          /\ \A x \in Ways : x \notin acq_way_en => new[x] = metaArray[addr_out.idx][x]
      BY Zenon
    <3> HIDE DEF new
    <3>4. \A x \in acq_way_en : metaArray'[addr_out.idx][x] = word
      BY Zenon, <1>0, <3>2, <3>3
    <3>5. \A s \in Sets, x \in Ways : s # addr_out.idx \/ x \notin acq_way_en =>
            metaArray'[s][x] = metaArray[s][x]
      BY Zenon, <3>2, <3>3
    <3> QED
      BY Zenon, <1>2, <2>1, <2>2, <2>4, <3>4, <3>5 DEF word
  <2> QED
    BY Zenon, <2>3, <2>4
<1> QED
  BY Zenon, <1>1, <1>2

\* What the lookup found stays true until the request is served.
LEMMA LookupKept ==
  ASSUME NEW r, NEW v, NEW w, NEW m, Cycle(r, v, w, m)
  PROVE  LookupInv'
<1>0. /\ TypeOK /\ WayInv /\ PathInv /\ LookupInv /\ MetadataArray(w) /\ Fsm(r, v) /\ WayInv'
      /\ addr_out \in ReqBlocks /\ addr_out \in Block /\ addr_out.idx \in Sets
      /\ acq_way_en \subseteq Ways /\ w \in Ways
      /\ meta_resp \in [valid : BOOLEAN, hit : BOOLEAN, way_en : SUBSET Ways, meta : Meta]
      /\ rst_cnt \in 0 .. NSets /\ NSets \in Nat /\ is_write_process \in BOOLEAN
  BY Zenon, ParamAssumption DEF Cycle, Tick, TypeOK, ArraysOK, TrackerOK, Block, PathInv
<1>1. ASSUME NEW s \in Sets, s < rst_cnt', NEW x \in Ways, metaArray'[s][x].valid
      PROVE  metaArray'[s][x].dram = (metaArray'[s][x].tag \in DramTags)
  <2>1. CASE rst
    <3>1. s # rst_cnt /\ metaArray'[s] = metaArray[s] /\ rst_cnt' = rst_cnt + 1
      BY Zenon, <1>1, <2>1, MetaStep
    <3>2. s < rst_cnt
      BY <1>0, <1>1, <3>1 DEF Sets
    <3> QED
      BY Zenon, <1>0, <1>1, <3>1, <3>2 DEF LookupInv
  <2>2. CASE ~rst
    <3>1. s < rst_cnt
      BY Zenon, <1>1, <2>2, MetaStep
    <3>2. CASE metaArray'[s][x] = metaArray[s][x]
      BY ZenonT(40), <1>0, <1>1, <3>1, <3>2 DEF LookupInv
    <3>3. CASE \E d : metaArray'[s][x] = addrToTag(addr_out, d)
      BY <3>3, MetaWord
    <3>4. \/ metaArray' = metaArray
          \/ metaArray'[s][x] = metaArray[s][x]
          \/ /\ state \in {"s_meta_write_refill", "s_meta_write_hit"}
             /\ s = addr_out.idx /\ x \in acq_way_en
      BY Zenon, <2>2, MetaStep
    <3>5. CASE /\ state \in {"s_meta_write_refill", "s_meta_write_hit"}
               /\ s = addr_out.idx /\ x \in acq_way_en
      <4>1. metaArray'[s][x] = addrToTag(addr_out, state = "s_meta_write_hit")
        BY Zenon, <2>2, <3>5, MetaStep
      <4> QED
        BY Zenon, <3>3, <4>1
    <3> QED
      BY Zenon, <3>2, <3>4, <3>5
  <2> QED
    BY Zenon, <2>1, <2>2
<1>2. ~meta_s1 => meta_resp'.valid = FALSE /\ meta_resp'.meta = meta_resp.meta
  BY Zenon, <1>0 DEF MetadataArray
<1>3. ASSUME meta_resp'.valid
      PROVE  /\ meta_resp'.hit <=> WaysOf(addr_out)' # {}
             /\ \A x \in meta_resp'.way_en : meta_resp'.meta = metaArray'[addr_out'.idx][x]
  <2>1. meta_s1 /\ state = "s_meta_resp" /\ ~rst
    BY Zenon, <1>0, <1>2, <1>3 DEF WayInv
  <2>2. addr_out' = addr_out /\ metaArray' = metaArray
    BY Zenon, <2>1, ServesStep, MetaStep
  <2> DEFINE match == WaysOf(addr_out)
             c == IF match # {} THEN CHOOSE y \in match : TRUE ELSE w
  <2>3. meta_resp' = [valid |-> TRUE, hit |-> match # {},
                      way_en |-> IF match # {} THEN match ELSE {w},
                      meta |-> metaArray[addr_out.idx][c]]
    BY Zenon, <1>0, <2>1 DEF MetadataArray, WaysOf
  <2>4. \A x, y \in match : x = y
    BY Zenon, <1>0, <2>1, MetaStep DEF WayInv
  <2>5. \A x \in IF match # {} THEN match ELSE {w} : x = c
    BY Zenon, <2>4
  <2>6. WaysOf(addr_out)' = match
    BY Zenon, <2>2 DEF WaysOf
  <2> HIDE DEF match, c
  <2> QED
    BY Zenon, <2>2, <2>3, <2>5, <2>6
<1>4. /\ state # "s_idle" => addr_out' = addr_out
      /\ state # "s_meta_resp" => acq_repl_meta' = acq_repl_meta /\ acq_way_en' = acq_way_en
      /\ state = "s_meta_resp" /\ meta_resp.valid =>
           acq_repl_meta' = meta_resp.meta /\ acq_way_en' = meta_resp.way_en
  BY Zenon, <1>0, ServesStep, StateStep
<1>5. /\ ~rst \/ state \in {"s_idle", "s_meta_read"}
      /\ meta_s1 => state = "s_meta_resp" /\ ~meta_resp.valid
      /\ ~rst /\ state \notin {"s_meta_write_refill", "s_meta_write_hit"} => metaArray' = metaArray
  BY Zenon, <1>0, MetaStep DEF WayInv
<1>6. ASSUME state' \in Missing PROVE WaysOf(addr_out)' = {}
  <2>1. state \in Missing \ {"s_meta_write_refill"}
        \/ (state = "s_meta_resp" /\ meta_resp.valid /\ ~meta_resp.hit)
    BY Zenon, <1>6, Predecessors
  <2>2. metaArray' = metaArray /\ addr_out' = addr_out
    BY Zenon, <1>4, <1>5, <2>1 DEF Missing, Evicting, Refilling
  <2>3. WaysOf(addr_out) = {}
    BY Zenon, <1>0, <2>1 DEF LookupInv
  <2> QED
    BY Zenon, <2>2, <2>3 DEF WaysOf
<1>7. ASSUME state' \in Evicting
      PROVE  /\ acq_repl_meta'.valid /\ acq_repl_meta'.dirty
             /\ meta_resp'.meta = acq_repl_meta'
             /\ \A x \in acq_way_en' : metaArray'[addr_out'.idx][x] = acq_repl_meta'
  <2>1. CASE state \in Evicting
    <3>1. /\ metaArray' = metaArray /\ addr_out' = addr_out
          /\ acq_repl_meta' = acq_repl_meta /\ acq_way_en' = acq_way_en /\ ~meta_s1
      BY Zenon, <1>4, <1>5, <2>1 DEF Evicting
    <3> QED
      BY Zenon, <1>0, <1>2, <2>1, <3>1 DEF LookupInv
  <2>2. CASE /\ state = "s_meta_resp" /\ meta_resp.valid
             /\ meta_resp.meta.valid /\ meta_resp.meta.dirty
    <3>1. /\ metaArray' = metaArray /\ addr_out' = addr_out /\ acq_repl_meta' = meta_resp.meta
          /\ acq_way_en' = meta_resp.way_en /\ ~meta_s1
      BY Zenon, <1>4, <1>5, <2>2
    <3> QED
      BY Zenon, <1>0, <1>2, <2>2, <3>1 DEF LookupInv
  <2> QED
    BY Zenon, <1>7, <2>1, <2>2, Predecessors
<1>8. ASSUME state' \in Serving \cup {"s_busy"} PROVE acq_way_en' \subseteq WaysOf(addr_out)'
  <2>1. CASE state \in {"s_meta_write_refill", "s_meta_write_hit"}
    <3>1. acq_way_en' = acq_way_en /\ addr_out' = addr_out /\ ~rst
      BY Zenon, <1>4, <1>5, <2>1
    <3>2. \A x \in acq_way_en : /\ metaArray'[addr_out.idx][x].valid
                                /\ metaArray'[addr_out.idx][x].tag = addr_out.tag
      <4>1. \A x \in acq_way_en : metaArray'[addr_out.idx][x] =
                                     addrToTag(addr_out, state = "s_meta_write_hit")
        BY Zenon, <2>1, <3>1, MetaStep
      <4> QED
        BY <4>1, MetaWord
    <3> QED
      BY Zenon, <1>0, <3>1, <3>2 DEF WaysOf
  <2>2. CASE state \in (Serving \ {"s_meta_write_hit"}) \cup {"s_busy"}
    <3>1. acq_way_en' = acq_way_en /\ addr_out' = addr_out /\ metaArray' = metaArray
      BY Zenon, <1>4, <1>5, <2>2 DEF Serving
    <3>2. acq_way_en \subseteq WaysOf(addr_out)
      BY Zenon, <1>0, <2>2 DEF LookupInv
    <3> QED
      BY Zenon, <3>1, <3>2 DEF WaysOf
  <2>3. CASE state = "s_meta_resp" /\ meta_resp.valid /\ meta_resp.hit
    <3>1. acq_way_en' = meta_resp.way_en /\ addr_out' = addr_out /\ metaArray' = metaArray
      BY Zenon, <1>4, <1>5, <2>3
    <3>2. PICK x \in Ways : meta_resp.way_en = {x} /\ \A y \in WaysOf(addr_out) : y = x
      BY Zenon, <1>0, <2>3 DEF WayInv, Fits
    <3>3. WaysOf(addr_out) # {}
      BY Zenon, <1>0, <2>3 DEF LookupInv
    <3>4. meta_resp.way_en \subseteq WaysOf(addr_out)
      BY Zenon, <3>2, <3>3
    <3> QED
      BY Zenon, <3>1, <3>4 DEF WaysOf
  <2> QED
    BY Zenon, <1>8, <2>1, <2>2, <2>3, Predecessors
<1>9. /\ state' \in {"s_data_read_hit", "s_data_resp_hit"} => ~is_write_process'
      /\ state' \in {"s_data_write_hit", "s_meta_write_hit"} => is_write_process'
  <2>1. state \notin {"s_idle", "s_busy"} => is_write_process' = is_write_process
    BY Zenon, <1>0, FsmStep
  <2>2. state' \in {"s_data_read_hit", "s_data_resp_hit"} =>
          state \notin {"s_idle", "s_busy"} /\ ~is_write_process
    BY Zenon, <1>0, Predecessors DEF LookupInv
  <2>3. state' \in {"s_data_write_hit", "s_meta_write_hit"} =>
          state \notin {"s_idle", "s_busy"} /\ is_write_process
    BY Zenon, <1>0, Predecessors DEF LookupInv
  <2> QED
    BY <2>1, <2>2, <2>3
<1>10. ASSUME state' \in {"s_gnt", "s_busy"}, is_write_process', NEW x \in acq_way_en'
       PROVE  metaArray'[addr_out'.idx][x].dirty
  <2>0. /\ state \in {"s_data_resp_hit", "s_meta_write_hit", "s_gnt", "s_busy"}
        /\ is_write_process
    BY Zenon, <1>0, <1>10, Predecessors, FsmStep
  <2>1. acq_way_en' = acq_way_en /\ addr_out' = addr_out /\ ~rst
    BY Zenon, <1>4, <1>5, <2>0
  <2>2. CASE state = "s_meta_write_hit"
    <3>1. metaArray'[addr_out.idx][x] = addrToTag(addr_out, state = "s_meta_write_hit")
      BY Zenon, <1>10, <2>1, <2>2, MetaStep
    <3>2. metaArray'[addr_out.idx][x].dirty = (state = "s_meta_write_hit")
      BY <3>1, MetaWord
    <3> QED
      BY Zenon, <2>1, <2>2, <3>2
  <2>3. CASE state \in {"s_gnt", "s_busy"}
    BY Zenon, <1>0, <1>5, <1>10, <2>0, <2>1, <2>3 DEF LookupInv
  <2> QED
    BY Zenon, <1>0, <2>0, <2>2, <2>3 DEF LookupInv
<1> QED
  BY Zenon, <1>1, <1>3, <1>6, <1>7, <1>8, <1>9, <1>10 DEF LookupInv

-----------------------------------------------------------------------------
(* The tags.                                                               *)

\* The counters of the write-back move together, a cycle apart.
LEMMA EvictKept ==
  ASSUME NEW r, NEW v, NEW w, NEW m, Cycle(r, v, w, m)
  PROVE  EvictInv'
<1>0. /\ TypeOK /\ EvictInv /\ WriteBack(r) /\ DataArray /\ Fsm(r, v) /\ state \in States
      /\ wb_read_cnt \in Beat /\ wb_data_cnt \in Beat
  BY Zenon DEF Cycle, Tick, TypeOK, TrackerOK, CountersOK, PathInv
<1>1. /\ data_resp'.valid = data_read_fire
      /\ wb_read_cnt' = Count(wb_read_cnt, wb_read_inc)
      /\ wb_data_cnt' = Count(wb_data_cnt, wb_data_inc)
  BY Zenon, <1>0 DEF WriteBack, DataArray
<1>2. /\ wb_read_inc <=> state \in {"s_data_read_wb", "s_data_resp_wb"}
      /\ wb_data_inc <=> state \in {"s_data_resp_wb", "s_data_resp_wb_done"}
  BY Zenon, <1>0 DEF wb_read_inc, wb_data_inc, data_read_fire, EvictInv
<1>3. ASSUME NEW n \in Beat, NEW c \in BOOLEAN
      PROVE  Count(n, c) = IF ~c THEN n ELSE IF n = Beats - 1 THEN 0 ELSE n + 1
  BY Zenon, CountStep
<1>4. /\ wb_read_cnt' = IF state \notin {"s_data_read_wb", "s_data_resp_wb"} THEN wb_read_cnt
                        ELSE IF wb_read_cnt = Beats - 1 THEN 0 ELSE wb_read_cnt + 1
      /\ wb_data_cnt' = IF state \notin {"s_data_resp_wb", "s_data_resp_wb_done"}
                        THEN wb_data_cnt
                        ELSE IF wb_data_cnt = Beats - 1 THEN 0 ELSE wb_data_cnt + 1
  <2>1. wb_read_inc \in BOOLEAN /\ wb_data_inc \in BOOLEAN
    BY Zenon DEF wb_read_inc, wb_data_inc
  <2> QED
    BY Zenon, <1>0, <1>1, <1>2, <1>3, <2>1
<1>5. data_resp'.valid = (state \in {"s_data_read_hit", "s_data_read_wb", "s_data_resp_wb"})
  BY Zenon, <1>1 DEF data_read_fire
<1>6. CASE state = "s_data_read_wb"
  <2>1. state' = "s_data_resp_wb"
    BY Zenon, <1>0, <1>6, StateStep
  <2> QED
    BY <1>0, <1>4, <1>5, <1>6, <2>1, ParamAssumption DEF EvictInv
<1>7. CASE state = "s_data_resp_wb"
  <2>1. state' = IF wb_read_cnt = Beats - 1 THEN "s_data_resp_wb_done" ELSE "s_data_resp_wb"
    BY Zenon, <1>0, <1>7, StateStep
  <2> QED
    BY <1>0, <1>4, <1>5, <1>7, <2>1, ParamAssumption DEF EvictInv, Beat
<1>8. CASE state = "s_data_resp_wb_done"
  <2>1. state' = "s_write_back"
    BY Zenon, <1>0, <1>8, StateStep DEF EvictInv
  <2> QED
    BY <1>0, <1>4, <1>5, <1>8, <2>1, ParamAssumption DEF EvictInv
<1>9. CASE state = "s_data_read_hit"
  <2>1. state' = "s_data_resp_hit"
    BY Zenon, <1>0, <1>9, StateStep
  <2> QED
    BY <1>0, <1>4, <1>5, <1>9, <2>1 DEF EvictInv
<1>10. CASE state \notin {"s_data_read_wb", "s_data_resp_wb", "s_data_resp_wb_done",
                          "s_data_read_hit"}
  <2>1. state' \notin {"s_data_resp_wb", "s_data_resp_wb_done", "s_data_resp_hit"}
    BY Zenon, <1>10, Predecessors
  <2> QED
    BY <1>0, <1>4, <1>5, <1>10, <2>1 DEF EvictInv
<1> QED
  BY Zenon, <1>6, <1>7, <1>8, <1>9, <1>10
=============================================================================
