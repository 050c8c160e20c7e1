------------------------------ MODULE TagCache ------------------------------
(***************************************************************************)
(* The tag cache (uncore/src/main/scala/tagcache.scala), clock by clock.   *)
(*                                                                         *)
(* The tag cache sits between the L2 cache and memory.  An L2 block is     *)
(* transferred with its tags, but memory keeps the tags of many blocks in  *)
(* a separate partition; the tag cache caches lines of that partition.     *)
(* One tracker serves one L2 request at a time: the block's data goes      *)
(* straight to or from memory (acq_data_process) while the tag state       *)
(* machine (state) looks the tags up, and both use one memory port.        *)
(*                                                                         *)
(* One step of Next is one clock cycle.  Chisel registers are variables;   *)
(* wires are operators over the current state.  Around the tracker are its *)
(* two arrays, the L2 side (two acquire trackers, the write-back unit and  *)
(* the FinishUnit) and the memory side (the TileLink/NASTI converter).     *)
(*                                                                         *)
(* A beat of a block carries a data cell and a tag cell; a client writes   *)
(* the cell <<val, beat>> into both, so that a lost, stale or reordered    *)
(* beat is visible.  Registers whose old content is dead when a request is *)
(* accepted are set to Junk there: a use of stale content is then seen.    *)
(***************************************************************************)
EXTENDS Integers, FiniteSets

CONSTANTS
  Ids,        \* the L2 acquire trackers (L2_XACTORS)
  Wb,         \* the L2 write-back unit
  NoId,       \* no transaction is presented on the acquire channel
  Vals,       \* payloads a client may write
  InitVal,    \* the payload every block has after power-up
  Junk,       \* the content of a dead register
  Beats,      \* tlDataBeats: beats per block = rows per tag line
  RowBlocks,  \* tagRowBlocks: L2 blocks whose tags share a row
  NSets,      \* sets of the tag cache
  Ways,       \* ways of the tag cache
  Tags,       \* values of the tag field of an address
  DramTags,   \* the tags of DRAM addresses (bit 30 is in the tag field)
  ReqBlocks,  \* the blocks the L2 asks for
  AcqKinds    \* the acquires the L2 sends: a subset of {"Get", "Put"}

Beat  == 0 .. Beats - 1
Slot  == 0 .. RowBlocks - 1
Sets  == 0 .. NSets - 1

\* A block address is the concatenation | tag | idx | row | slot |; the tags
\* of the blocks that agree on tag and idx form one line of the tag cache.
Block == [tag : Tags, idx : Sets, row : Beat, slot : Slot]
Line  == [tag : Tags, idx : Sets]

ASSUME ParamAssumption ==
  /\ Beats \in Nat /\ Beats >= 2
  /\ RowBlocks \in Nat \ {0}
  /\ NSets \in Nat \ {0}
  /\ Wb \notin Ids /\ NoId \notin Ids \cup {Wb}
  /\ InitVal \in Vals
  /\ DramTags \subseteq Tags /\ Tags # {} /\ Ways # {}
  /\ ReqBlocks \subseteq Block /\ ReqBlocks # {} /\ Ids # {}
  /\ AcqKinds \subseteq {"Get", "Put"}

\* NoId is no request either.
ASSUME NoRequest == NoId \notin [kind : {"Get", "Put", "Rel"}, blk : ReqBlocks, val : Vals]

Xacts == Ids \cup {Wb}
Cell  == (Vals \X Beat) \cup {Junk}
Entry == [Beat -> Cell]             \* the tags, or the data, of one L2 block
Row   == [Slot -> Entry]            \* one row of a line
Meta  == [valid : BOOLEAN, dirty : BOOLEAN, dram : BOOLEAN, tag : Tags]

Payload(v) == [k \in Beat |-> <<v, k>>]
JunkEntry  == [k \in Beat |-> Junk]
JunkLine   == [k \in Beat |-> [s \in Slot |-> JunkEntry]]

-----------------------------------------------------------------------------
(* Address arithmetic.                                                     *)

lineOf(b)        == [tag |-> b.tag, idx |-> b.idx]
isDramAddress(b) == b.tag \in DramTags

\* The metadata word of the line of address b.
addrToTag(b, dirty) ==
  [valid |-> TRUE, dirty |-> dirty, dram |-> isDramAddress(b), tag |-> b.tag]

\* Mutant: the line of the request instead of that of the victim.
addrFromTag_Request(meta, b) == lineOf(b)

\* The line a metadata word stands for, given an address of the same set.
addrFromTag(meta, b) == [tag |-> meta.tag, idx |-> b.idx]

\* The shifts and masks of the code are not shown: the dirty bit that addrFromTag
\* carries along is cut by the mask of the partition.
\* Where a line lives in memory: in the DRAM or in the BRAM tag partition.
tagAddrConv(line, dram) == [dram |-> dram, line |-> line]

-----------------------------------------------------------------------------
VARIABLES
  \* the tracker: the request and the transfer of its data
  is_read, is_write, is_acq, is_write_process, read_multiple_data,
  tag_out, addr_out, cmd_sent, acq_data_process, nr_cnt, mem_acq_data_read,
  \* the tracker: the tag state machine and its buffers
  state, collect_acq_data, acq_data, acq_data_cnt, acq_repl_meta, acq_way_en,
  gnt_tag, wb_data, wb_read_cnt, wb_data_cnt, mem_tag_data_write,
  mem_tag_data_write_cnt, mem_tag_data_read, refill_data, refill_data_cnt,
  \* the tracker: the grant
  gnt_enable, gnt_data, gnt_data_cnt,
  \* the metadata and the data array
  rst_cnt, metaArray, meta_s1, meta_resp, dataArray, data_resp,
  \* the memory side: the converter's open burst, data and tag memory
  port, dmem, tmem,
  \* the L2 side: its transactors, the presented acquire, the finish queue,
  \* the last completed transaction, and what was last written to each block
  cl, acq, last_grant, finq, done, golden

reqVars == <<is_read, is_write, is_acq, read_multiple_data, tag_out, addr_out,
             acq_data_process>>
rdVars  == <<nr_cnt, mem_acq_data_read, mem_tag_data_read>>
colVars == <<collect_acq_data, acq_data, acq_data_cnt>>
fsmVars == <<state, is_write_process, acq_repl_meta, acq_way_en, gnt_tag>>
wbVars  == <<wb_data, wb_read_cnt, wb_data_cnt, mem_tag_data_write,
             mem_tag_data_write_cnt>>
rfVars  == <<refill_data, refill_data_cnt>>
gntVars == <<gnt_enable, gnt_data, gnt_data_cnt>>
arrVars == <<rst_cnt, metaArray, meta_s1, meta_resp, dataArray, data_resp>>
memVars == <<port, dmem, tmem>>
l2Vars  == <<cl, acq, last_grant, finq, done, golden>>
vars == <<reqVars, cmd_sent, rdVars, colVars, fsmVars, wbVars, rfVars, gntVars,
          arrVars, memVars, l2Vars>>

\* Chisel's Counter(cond, Beats): the next value.
Count(cnt, cond) == IF cond THEN (cnt + 1) % Beats ELSE cnt


-----------------------------------------------------------------------------
(* Wires.  r and v are the memory side's tl_out.acquire.ready and          *)
(* tl_out.grant.valid in this cycle.                                       *)

\* L2 -> tag cache: the presented acquire and the write-back unit's release.
\* A beat is valid once the client has its data (avail counts the beats).
AcqValid == acq # NoId /\ cl[acq].sent < cl[acq].avail /\ finq < 2
RelValid == cl[Wb].st = "outer" /\ cl[Wb].sent < cl[Wb].avail

rst == rst_cnt < NSets

mem_send_tag    == state = "s_write_back" /\ ~acq_data_process
mem_receive_tag == state = "s_mem_req" /\ ~acq_data_process

\* Mutant: a read command is repeated although it was sent.
tl_out_acquire_valid_Repeats ==
  \/ is_write /\ (IF is_acq THEN AcqValid ELSE RelValid)
  \/ mem_send_tag \/ (acq_data_process /\ is_read) \/ mem_receive_tag

tl_out_acquire_valid ==
  \/ is_write /\ (IF is_acq THEN AcqValid ELSE RelValid)
  \/ mem_send_tag
  \/ ((acq_data_process /\ is_read) \/ mem_receive_tag) /\ ~cmd_sent

tl_out_grant_ready ==
  is_write \/ is_read \/ mem_send_tag \/ mem_receive_tag
           \/ state = "s_write_back_wait_b"

oacq_fire(r) == tl_out_acquire_valid /\ r
ognt_fire(v) == tl_out_grant_ready /\ v

\* The acquire and the release are accepted beat by beat, as memory takes them.
tl_acquire_fire(r) == /\ AcqValid /\ tag_out = acq /\ state # "s_idle"
                      /\ is_acq /\ acq_data_process /\ oacq_fire(r)
tl_release_fire(r) == /\ RelValid /\ tag_out = Wb /\ state # "s_idle"
                      /\ ~is_acq /\ acq_data_process /\ oacq_fire(r)

nr_inc(v) == ognt_fire(v) /\ \/ read_multiple_data /\ is_read /\ acq_data_process
                             \/ mem_receive_tag
nr_finish(v) == nr_inc(v) /\ nr_cnt = Beats - 1

\* The original request is handled once its data is written or read.
orig_done(v) == acq_data_process /\ \/ ognt_fire(v) /\ is_write
                                    \/ nr_finish(v) /\ is_read

acq_data_inc(r)  == (tl_acquire_fire(r) \/ tl_release_fire(r)) /\ is_write
acq_data_done(r) == acq_data_inc(r) /\ acq_data_cnt = Beats - 1

tag_beat_sent(r) == mem_send_tag /\ oacq_fire(r)

data_read_fire == state \in {"s_data_read_hit", "s_data_read_wb", "s_data_resp_wb"}
data_write_hit == state = "s_data_write_hit" /\ ~collect_acq_data
wb_read_inc    == data_read_fire /\ state # "s_data_read_hit"
wb_data_inc    == data_resp.valid /\ state # "s_data_resp_hit"

\* The FinishUnit passes a grant on when its finish queue has room (a
\* voluntary ack needs no finish) and the L2 transactor waits for it.
requiresAck == tag_out # Wb
tl_grant_ready == /\ finq < 2 \/ ~requiresAck
                  /\ tag_out \in Xacts /\ cl[tag_out].st = "busy"
tl_grant_fire  == gnt_enable /\ tl_grant_ready
gnt_data_done  == /\ tl_grant_fire /\ ~is_write_process
                  /\ gnt_data_cnt = Beats - 1

-----------------------------------------------------------------------------
(* The tracker.                                                            *)

accept == state = "s_idle" /\ (AcqValid \/ RelValid)

\* A request is latched in s_idle (a release first) without being consumed;
\* is_acq is not written for a release.  Any built-in acquire sets is_read.
Request(v) ==
  \/ /\ state = "s_idle" /\ RelValid
     /\ is_read' = FALSE /\ is_write' = TRUE /\ read_multiple_data' = FALSE
     /\ tag_out' = Wb /\ addr_out' = cl[Wb].blk /\ acq_data_process' = TRUE
     /\ UNCHANGED is_acq
  \/ /\ state = "s_idle" /\ AcqValid /\ ~RelValid
     /\ is_read' = TRUE /\ is_write' = (cl[acq].kind = "Put") /\ is_acq' = TRUE
     /\ read_multiple_data' = (cl[acq].kind = "Get")
     /\ tag_out' = acq /\ addr_out' = cl[acq].blk /\ acq_data_process' = TRUE
  \/ /\ orig_done(v)
     /\ is_read' = FALSE /\ is_write' = FALSE /\ is_acq' = FALSE
     /\ acq_data_process' = FALSE
     /\ UNCHANGED <<read_multiple_data, tag_out, addr_out>>
  \/ ~accept /\ ~orig_done(v) /\ UNCHANGED reqVars

\* Mutant: the end of the data transfer does not clear cmd_sent.
CmdSent_NotCleared(r, v) ==
  cmd_sent' = /\ state # "s_idle"
              /\ ~(state = "s_write_back_wait_b" /\ ognt_fire(v))
              /\ oacq_fire(r) \/ cmd_sent

\* cmd_sent is shared by the data command, the tag write-back and the tag
\* refill; the last assignment in the source wins.
CmdSent(r, v) ==
  cmd_sent' = /\ state # "s_idle"
              /\ ~(state = "s_write_back_wait_b" /\ ognt_fire(v))
              /\ oacq_fire(r) \/ (cmd_sent /\ ~orig_done(v))

\* Read beats go to the data or the tag buffer, whoever owns the port.
Receive(v) ==
  /\ nr_cnt' = Count(nr_cnt, nr_inc(v))
  /\ mem_acq_data_read' =
       IF accept THEN JunkEntry
       ELSE IF v /\ acq_data_process /\ is_read
       THEN [mem_acq_data_read EXCEPT ![nr_cnt] =
               IF port.op = "get" /\ port.sp = "data"
               THEN dmem[port.blk][port.cnt] ELSE Junk]
       ELSE mem_acq_data_read
  /\ mem_tag_data_read' =
       IF accept THEN JunkLine
       ELSE IF v /\ mem_receive_tag
       THEN [mem_tag_data_read EXCEPT ![nr_cnt] =
               IF port.op = "get" /\ port.sp = "tag"
               THEN tmem[port.ta.dram][port.ta.line][port.cnt]
               ELSE JunkLine[nr_cnt]]
       ELSE mem_tag_data_read

\* The tags of the beats a writer sends are collected as memory takes the beats.
Collect(r) ==
  /\ acq_data_cnt' = Count(acq_data_cnt, acq_data_inc(r))
  /\ collect_acq_data' =
       IF accept THEN RelValid \/ cl[acq].kind = "Put"
       ELSE collect_acq_data /\ ~acq_data_done(r)
  /\ acq_data' =
       IF accept THEN JunkEntry
       ELSE IF collect_acq_data
       THEN [acq_data EXCEPT ![acq_data_cnt] =
               LET i == IF is_acq THEN acq ELSE Wb
               IN  IF i = NoId THEN Junk ELSE <<cl[i].val, cl[i].sent>>]
       ELSE acq_data

\* Mutant: the grant does not wait for the data of the request.
GrantHandler_Early ==
  /\ gnt_enable' = IF state = "s_gnt" THEN TRUE
                   ELSE gnt_enable /\ ~(gnt_data_done \/ is_write_process)
  /\ gnt_data' = [k \in Beat |-> <<mem_acq_data_read[k], gnt_tag[k]>>]
  /\ gnt_data_cnt' = Count(gnt_data_cnt, tl_grant_fire /\ ~is_write_process)

\* The grant: a read sends Beats beats; a write holds valid for one cycle.
GrantHandler ==
  /\ gnt_enable' = IF state = "s_gnt" /\ ~acq_data_process THEN TRUE
                   ELSE gnt_enable /\ ~(gnt_data_done \/ is_write_process)
  /\ gnt_data' = [k \in Beat |-> <<mem_acq_data_read[k], gnt_tag[k]>>]
  /\ gnt_data_cnt' = Count(gnt_data_cnt, tl_grant_fire /\ ~is_write_process)

\* The rows of a dirty victim are read out one per cycle, each a cycle after
\* its read, and sent one per accepted beat.
WriteBack(r) ==
  /\ wb_read_cnt' = Count(wb_read_cnt, wb_read_inc)
  /\ wb_data_cnt' = Count(wb_data_cnt, wb_data_inc)
  /\ wb_data' = IF accept THEN JunkLine
                ELSE IF /\ state \in {"s_data_resp_wb", "s_data_resp_wb_done"}
                        /\ data_resp.valid
                THEN [wb_data EXCEPT ![wb_data_cnt] = data_resp.row]
                ELSE wb_data
  /\ mem_tag_data_write' = wb_data
  /\ mem_tag_data_write_cnt' = Count(mem_tag_data_write_cnt, tag_beat_sent(r))

Refill ==
  /\ refill_data' = mem_tag_data_read
  /\ refill_data_cnt' = Count(refill_data_cnt, state = "s_data_write_refill")

\* The tag state machine, one action per state.
GoTo(s) ==
  state' = s /\ UNCHANGED <<is_write_process, acq_repl_meta, acq_way_en, gnt_tag>>
MoveIf(from, cond, to) == state = from /\ GoTo(IF cond THEN to ELSE from)

\* After a hit or a refill: merge the new tags, or read the tags out.
Access == IF is_write_process THEN "s_data_write_hit" ELSE "s_data_read_hit"

SIdle ==
  /\ state = "s_idle"
  /\ IF accept
     THEN /\ state' = "s_meta_read"
          /\ is_write_process' = (RelValid \/ cl[acq].kind = "Put")
          /\ gnt_tag' = JunkEntry
     ELSE UNCHANGED <<state, is_write_process, gnt_tag>>
  /\ UNCHANGED <<acq_repl_meta, acq_way_en>>
SMetaRead == MoveIf("s_meta_read", ~rst, "s_meta_resp")
\* Mutant: on a miss all ways of the set are enabled for the refill.
SMetaResp_AllWays ==
  /\ state = "s_meta_resp"
  /\ IF meta_resp.valid
     THEN /\ acq_repl_meta' = meta_resp.meta
          /\ acq_way_en' = IF meta_resp.hit THEN meta_resp.way_en ELSE Ways
          /\ state' = IF meta_resp.hit THEN Access
                      ELSE IF meta_resp.meta.valid /\ meta_resp.meta.dirty
                      THEN "s_data_read_wb" ELSE "s_mem_req"
     ELSE UNCHANGED <<acq_repl_meta, acq_way_en, state>>
  /\ UNCHANGED <<is_write_process, gnt_tag>>
SMetaResp ==
  /\ state = "s_meta_resp"
  /\ IF meta_resp.valid
     THEN /\ acq_repl_meta' = meta_resp.meta /\ acq_way_en' = meta_resp.way_en
          /\ state' = IF meta_resp.hit THEN Access
                      ELSE IF meta_resp.meta.valid /\ meta_resp.meta.dirty
                      THEN "s_data_read_wb" ELSE "s_mem_req"
     ELSE UNCHANGED <<acq_repl_meta, acq_way_en, state>>
  /\ UNCHANGED <<is_write_process, gnt_tag>>
SDataReadHit == MoveIf("s_data_read_hit", TRUE, "s_data_resp_hit")
\* Mutant: the tags of the first block of the row.
SDataRespHit_FirstSlot ==
  /\ state = "s_data_resp_hit" /\ state' = "s_gnt"
  /\ gnt_tag' = data_resp.row[0]
  /\ UNCHANGED <<is_write_process, acq_repl_meta, acq_way_en>>
SDataRespHit ==
  /\ state = "s_data_resp_hit" /\ state' = "s_gnt"
  /\ gnt_tag' = data_resp.row[addr_out.slot]
  /\ UNCHANGED <<is_write_process, acq_repl_meta, acq_way_en>>
SDataWriteHit  == MoveIf("s_data_write_hit", ~collect_acq_data, "s_meta_write_hit")
SDataReadWb    == MoveIf("s_data_read_wb", TRUE, "s_data_resp_wb")
SDataRespWb    == MoveIf("s_data_resp_wb", wb_read_inc /\ wb_read_cnt = Beats - 1,
                         "s_data_resp_wb_done")
SDataRespWbDone == MoveIf("s_data_resp_wb_done", wb_data_inc /\ wb_data_cnt = Beats - 1,
                          "s_write_back")
SWriteBack(r)  == MoveIf("s_write_back",
                         tag_beat_sent(r) /\ mem_tag_data_write_cnt = Beats - 1,
                         "s_write_back_wait_b")
SWriteBackWaitB(v) == MoveIf("s_write_back_wait_b", ognt_fire(v), "s_mem_req")
SMemReq(v)     == MoveIf("s_mem_req", ~acq_data_process /\ nr_finish(v),
                         "s_data_write_refill")
SDataWriteRefill == MoveIf("s_data_write_refill", refill_data_cnt = Beats - 1,
                           "s_meta_write_refill")
SMetaWriteRefill == MoveIf("s_meta_write_refill", ~rst, Access)
SMetaWriteHit  == MoveIf("s_meta_write_hit", ~rst, "s_gnt")
\* Mutant: the grant state does not wait for the data of the request.
SGnt_NoWait    == MoveIf("s_gnt", TRUE, "s_busy")
SGnt           == MoveIf("s_gnt", ~acq_data_process, "s_busy")
SBusy ==
  /\ state = "s_busy"
  /\ IF ~gnt_enable /\ ~acq_data_process
     THEN state' = "s_idle" /\ is_write_process' = FALSE
     ELSE UNCHANGED <<state, is_write_process>>
  /\ UNCHANGED <<acq_repl_meta, acq_way_en, gnt_tag>>

Fsm(r, v) ==
  \/ SIdle \/ SMetaRead \/ SMetaResp \/ SDataReadHit \/ SDataRespHit
  \/ SDataWriteHit \/ SDataReadWb \/ SDataRespWb \/ SDataRespWbDone
  \/ SWriteBack(r) \/ SWriteBackWaitB(v) \/ SMemReq(v) \/ SDataWriteRefill
  \/ SMetaWriteRefill \/ SMetaWriteHit \/ SGnt \/ SBusy

-----------------------------------------------------------------------------
(* The arrays.                                                             *)

NoMeta == [valid |-> FALSE, dirty |-> FALSE, dram |-> FALSE,
           tag |-> CHOOSE t \in Tags : TRUE]

\* Reset sweeps the sets; afterwards a read answers two cycles later with the
\* matching way or a random victim w, and holds the answer.
MetadataArray(w) ==
  /\ rst_cnt' = IF rst THEN rst_cnt + 1 ELSE rst_cnt
  /\ metaArray' =
       IF rst THEN [metaArray EXCEPT ![rst_cnt] = [x \in Ways |-> NoMeta]]
       ELSE IF state \in {"s_meta_write_refill", "s_meta_write_hit"}
       THEN [metaArray EXCEPT ![addr_out.idx] = [x \in Ways |->
               IF x \in acq_way_en
               THEN addrToTag(addr_out, state = "s_meta_write_hit") ELSE @[x]]]
       ELSE metaArray
  /\ meta_s1' = (state = "s_meta_read" /\ ~rst)
  /\ meta_resp' =
       IF meta_s1
       THEN LET match == {x \in Ways : /\ metaArray[addr_out.idx][x].valid
                                       /\ metaArray[addr_out.idx][x].tag = addr_out.tag}
                x == IF match # {} THEN CHOOSE y \in match : TRUE ELSE w
            IN  [valid |-> TRUE, hit |-> match # {},
                 way_en |-> IF match # {} THEN match ELSE {w},
                 meta |-> metaArray[addr_out.idx][x]]
       ELSE [meta_resp EXCEPT !.valid = FALSE]

DataArray ==
  /\ dataArray' =
       [x \in Ways |->
          IF x \notin acq_way_en THEN dataArray[x]
          ELSE IF data_write_hit
          THEN [dataArray[x] EXCEPT ![addr_out.idx][addr_out.row][addr_out.slot]
                                    = acq_data]
          ELSE IF state = "s_data_write_refill"
          THEN [dataArray[x] EXCEPT ![addr_out.idx][refill_data_cnt]
                                    = refill_data[refill_data_cnt]]
          ELSE dataArray[x]]
  /\ data_resp' =
       [valid |-> data_read_fire,
        row   |-> IF data_read_fire /\ acq_way_en # {}
                  THEN LET x == CHOOSE y \in acq_way_en : TRUE
                       IN  dataArray[x][addr_out.idx]
                             [IF state = "s_data_read_hit" THEN addr_out.row
                              ELSE wb_read_cnt]
                  ELSE JunkLine[0]]

-----------------------------------------------------------------------------
(* The memory side: the converter serves one burst of the tracker at a     *)
(* time.  Its write path has no bound on the beats it takes (cnt > Beats   *)
(* would be a surplus beat of the burst).                                  *)

NoPort == [op |-> "none", sp |-> "data", cnt |-> 0]
sendsPut == mem_send_tag \/ (~mem_receive_tag /\ is_write_process)

CanAccept  == port.op = "none" \/ (port.op = "put" /\ sendsPut)
CanRespond == port.op = "get" \/ (port.op = "put" /\ port.cnt >= Beats)

\* The burst a beat belongs to: the open one, or the one its command opens.
Burst ==
  IF port.op # "none" THEN port
  ELSE LET op == IF sendsPut THEN "put" ELSE "get"
       IN  IF mem_send_tag \/ mem_receive_tag
           THEN [op |-> op, sp |-> "tag", cnt |-> 0,
                 ta |-> IF mem_send_tag
                        THEN tagAddrConv(addrFromTag(acq_repl_meta, addr_out),
                                         meta_resp.meta.dram)
                        ELSE tagAddrConv(lineOf(addr_out), isDramAddress(addr_out))]
           ELSE [op |-> op, sp |-> "data", cnt |-> 0, blk |-> addr_out]

\* The data cell on the wire: the presented beat of the acquire or release.
InputCell == LET i == IF is_acq THEN acq ELSE Wb
             IN  IF i = NoId THEN Junk ELSE <<cl[i].val, cl[i].sent>>

Memory(r, v) ==
  /\ r => CanAccept
  /\ v => CanRespond
  /\ \/ /\ oacq_fire(r) /\ Burst.op = "put"
        /\ port' = IF ognt_fire(v) THEN NoPort
                   ELSE [Burst EXCEPT !.cnt = IF @ > Beats THEN @ ELSE @ + 1]
        /\ IF Burst.cnt >= Beats THEN UNCHANGED <<dmem, tmem>>
           ELSE IF Burst.sp = "tag"
           THEN /\ tmem' = [tmem EXCEPT ![Burst.ta.dram][Burst.ta.line][Burst.cnt]
                              = mem_tag_data_write[mem_tag_data_write_cnt]]
                /\ UNCHANGED dmem
           ELSE /\ dmem' = [dmem EXCEPT ![Burst.blk][Burst.cnt] = InputCell]
                /\ UNCHANGED tmem
     \/ /\ oacq_fire(r) /\ Burst.op = "get"
        /\ port' = Burst
        /\ UNCHANGED <<dmem, tmem>>
     \/ /\ ~oacq_fire(r) /\ ognt_fire(v)
        /\ port' = IF port.op = "put" \/ port.cnt = Beats - 1 THEN NoPort
                   ELSE [port EXCEPT !.cnt = @ + 1]
        /\ UNCHANGED <<dmem, tmem>>
     \/ ~oacq_fire(r) /\ ~ognt_fire(v) /\ UNCHANGED memVars

-----------------------------------------------------------------------------
(* The L2 side.  An acquire tracker is idle, waits for the write-back of   *)
(* the victim it replaces ("wb": s_wb_req, s_wb_resp), sends its acquire   *)
(* ("outer": s_outer_acquire) and waits for the grant ("busy": s_busy).    *)
(* The write-back unit is idle, sends its release ("outer": s_busy) and    *)
(* waits for the acknowledgement ("busy": s_outer_grant).                  *)

IdleCl(i) == [st |-> "idle", kind |-> IF i = Wb THEN "Rel" ELSE "Get",
              blk |-> CHOOSE b \in ReqBlocks : TRUE, val |-> InitVal,
              sent |-> 0, avail |-> 0, buf |-> [k \in Beat |-> <<Junk, Junk>>]]

MsgBeats(c) == IF c.kind = "Get" THEN 1 ELSE Beats
Message(i, st, k, b, x) ==
  [IdleCl(i) EXCEPT !.st = st, !.kind = k, !.blk = b, !.val = x, !.avail = 1]

InFlight == {cl[i].blk : i \in {j \in Xacts : cl[j].st # "idle"}}

\* What the transactors may do by themselves: start an acquire, with or without
\* writing back a victim first, or get the next beat of a write into the buffer.
\* No two transactions are for one block: an acquire for a set with a busy
\* tracker is held back.
Moves ==
  {cl}
  \cup {[cl EXCEPT ![q[1]] = Message(q[1], "outer", q[2], q[3], q[4])] :
         q \in {p \in Ids \X AcqKinds \X (ReqBlocks \ InFlight) \X Vals :
                 cl[p[1]].st = "idle" /\ (p[2] = "Get" => p[4] = InitVal)}}
  \cup {[cl EXCEPT ![q[1]] = Message(q[1], "wb", "Get", q[2], InitVal),
                   ![Wb] = Message(Wb, "outer", "Rel", q[3], q[4])] :
         q \in {p \in Ids \X (ReqBlocks \ InFlight) \X (ReqBlocks \ InFlight) \X Vals :
                 cl[p[1]].st = "idle" /\ cl[Wb].st = "idle" /\ p[2] # p[3]}}
  \cup {[cl EXCEPT ![j].avail = @ + 1] :
         j \in {i \in Xacts : cl[i].st = "outer" /\ cl[i].avail < MsgBeats(cl[i])}}

Sent(c) == IF c.sent + 1 = MsgBeats(c)
           THEN [c EXCEPT !.st = "busy", !.sent = 0, !.avail = 0]
           ELSE [c EXCEPT !.sent = @ + 1]

grant_last == tl_grant_fire /\ (is_write_process \/ gnt_data_done)
Granted(i) ==
  IF grant_last THEN IdleCl(i)
  ELSE [cl[i] EXCEPT !.buf[gnt_data_cnt] = gnt_data[gnt_data_cnt]]

\* A transactor moves on a handshake; otherwise it makes its own move in m.
Transactors(r, m) ==
  cl' = [j \in Xacts |->
          IF (tl_acquire_fire(r) /\ j = acq) \/ (tl_release_fire(r) /\ j = Wb)
          THEN Sent(cl[j])
          ELSE IF tl_grant_fire /\ j = tag_out THEN Granted(j)
          ELSE IF tl_grant_fire /\ tag_out = Wb /\ cl[j].st = "wb"
          THEN [cl[j] EXCEPT !.st = "outer"]
          ELSE m[j]]

\* The outer arbiter holds a presented acquire until it is accepted, and then
\* prefers the trackers that were not served last.
OuterArbiter(r) ==
  \/ /\ acq = NoId
     /\ \E i \in Ids : /\ cl[i].st = "outer"
                       /\ i = last_grant => \A j \in Ids \ {i} : cl[j].st # "outer"
                       /\ acq' = i /\ last_grant' = i
  \/ acq = NoId /\ (\A i \in Ids : cl[i].st # "outer") /\ UNCHANGED <<acq, last_grant>>
  \/ /\ acq # NoId
     /\ acq' = IF tl_acquire_fire(r) /\ cl[acq].sent + 1 = MsgBeats(cl[acq])
               THEN NoId ELSE acq
     /\ UNCHANGED last_grant

\* Mutant: a finish is never taken from the queue.
FinishUnit_NoDrain ==
  finq' = IF finq < 3 THEN finq + (IF grant_last /\ requiresAck THEN 1 ELSE 0) ELSE finq

\* The FinishUnit queues a finish per acquire; the tag cache always takes it.
FinishUnit ==
  finq' = finq + (IF grant_last /\ requiresAck THEN 1 ELSE 0)
               - (IF finq > 0 THEN 1 ELSE 0)

\* What the transactor sees: a completed transaction, for one cycle; golden
\* records the payload of the last acknowledged write of each block.
Completion ==
  LET t == cl[tag_out] IN
  /\ golden' = IF grant_last /\ is_write_process
               THEN [golden EXCEPT ![t.blk] = t.val] ELSE golden
  /\ done' = IF ~grant_last THEN NoId
             ELSE IF is_write_process THEN [id |-> tag_out, blk |-> t.blk]
             ELSE [id |-> tag_out, blk |-> t.blk,
                   ret |-> [t.buf EXCEPT ![gnt_data_cnt] = gnt_data[gnt_data_cnt]]]

-----------------------------------------------------------------------------
Init ==
  /\ is_read = FALSE /\ is_write = FALSE /\ is_acq = FALSE
  /\ is_write_process = FALSE /\ read_multiple_data = FALSE
  /\ tag_out \in Xacts /\ addr_out \in ReqBlocks
  /\ cmd_sent = FALSE /\ acq_data_process = FALSE
  /\ nr_cnt = 0 /\ mem_acq_data_read = JunkEntry /\ mem_tag_data_read = JunkLine
  /\ collect_acq_data = FALSE /\ acq_data = JunkEntry /\ acq_data_cnt = 0
  /\ state = "s_idle" /\ acq_way_en = {} /\ gnt_tag = JunkEntry
  /\ acq_repl_meta = NoMeta
  /\ wb_data = JunkLine /\ mem_tag_data_write = JunkLine
  /\ wb_read_cnt = 0 /\ wb_data_cnt = 0 /\ mem_tag_data_write_cnt = 0
  /\ refill_data = JunkLine /\ refill_data_cnt = 0
  /\ gnt_enable = FALSE /\ gnt_data_cnt = 0
  /\ gnt_data = [k \in Beat |-> <<Junk, Junk>>]
  /\ rst_cnt = 0 /\ meta_s1 = FALSE
  /\ metaArray \in [Sets -> [Ways -> Meta]]      \* memories power up with any content
  /\ meta_resp = [valid |-> FALSE, hit |-> FALSE, way_en |-> {}, meta |-> NoMeta]
  /\ dataArray = [x \in Ways |-> [s \in Sets |-> JunkLine]]
  /\ data_resp = [valid |-> FALSE, row |-> JunkLine[0]]
  /\ port = NoPort
  /\ dmem = [b \in ReqBlocks |-> Payload(InitVal)]
  /\ tmem = [d \in BOOLEAN |-> [l \in Line |->
               IF d = (l.tag \in DramTags)
               THEN [k \in Beat |-> [s \in Slot |-> Payload(InitVal)]]
               ELSE JunkLine]]
  /\ cl = [i \in Xacts |-> IdleCl(i)] /\ acq = NoId /\ finq = 0
  /\ last_grant \in Ids
  /\ done = NoId /\ golden = [b \in ReqBlocks |-> InitVal]

\* One clock cycle.
Tick(r, v, w, m) ==
  /\ Memory(r, v)
  /\ Request(v) /\ CmdSent(r, v) /\ Receive(v) /\ Collect(r) /\ GrantHandler
  /\ WriteBack(r) /\ Refill /\ Fsm(r, v)
  /\ MetadataArray(w) /\ DataArray
  /\ Transactors(r, m) /\ OuterArbiter(r) /\ FinishUnit /\ Completion

Next == \E r, v \in BOOLEAN, w \in Ways, m \in Moves : Tick(r, v, w, m)

Spec == Init /\ [][Next]_vars

-----------------------------------------------------------------------------
(* Properties.                                                             *)

States == {"s_idle", "s_meta_read", "s_meta_resp", "s_data_read_hit",
  "s_data_resp_hit", "s_data_write_hit", "s_data_read_wb", "s_data_resp_wb",
  "s_data_resp_wb_done", "s_write_back", "s_write_back_wait_b", "s_mem_req",
  "s_data_write_refill", "s_meta_write_refill", "s_meta_write_hit", "s_gnt",
  "s_busy"}

Client == [st : {"idle", "wb", "outer", "busy"}, kind : {"Get", "Put", "Rel"},
           blk : ReqBlocks, val : Vals, sent : Beat, avail : 0 .. Beats,
           buf : [Beat -> Cell \X Cell]]
TagAddress == [dram : BOOLEAN, line : Line]
Port == {NoPort}
   \cup [op : {"get"}, sp : {"data"}, cnt : Beat, blk : ReqBlocks]
   \cup [op : {"get"}, sp : {"tag"}, cnt : Beat, ta : TagAddress]
   \cup [op : {"put"}, sp : {"data"}, cnt : 0 .. Beats + 1, blk : ReqBlocks]
   \cup [op : {"put"}, sp : {"tag"}, cnt : 0 .. Beats + 1, ta : TagAddress]

TrackerOK ==
  /\ is_read \in BOOLEAN /\ is_write \in BOOLEAN /\ is_acq \in BOOLEAN
  /\ is_write_process \in BOOLEAN /\ read_multiple_data \in BOOLEAN
  /\ cmd_sent \in BOOLEAN /\ acq_data_process \in BOOLEAN
  /\ collect_acq_data \in BOOLEAN /\ gnt_enable \in BOOLEAN
  /\ tag_out \in Xacts /\ addr_out \in ReqBlocks /\ state \in States
CountersOK ==
  /\ nr_cnt \in Beat /\ acq_data_cnt \in Beat /\ wb_read_cnt \in Beat
  /\ wb_data_cnt \in Beat /\ mem_tag_data_write_cnt \in Beat
  /\ refill_data_cnt \in Beat /\ gnt_data_cnt \in Beat
BuffersOK ==
  /\ mem_acq_data_read \in Entry /\ acq_data \in Entry /\ gnt_tag \in Entry
  /\ wb_data \in [Beat -> Row] /\ mem_tag_data_write \in [Beat -> Row]
  /\ mem_tag_data_read \in [Beat -> Row] /\ refill_data \in [Beat -> Row]
  /\ gnt_data \in [Beat -> Cell \X Cell]
ArraysOK ==
  /\ acq_repl_meta \in Meta /\ acq_way_en \in SUBSET Ways
  /\ rst_cnt \in 0 .. NSets /\ metaArray \in [Sets -> [Ways -> Meta]]
  /\ meta_s1 \in BOOLEAN
  /\ meta_resp \in [valid : BOOLEAN, hit : BOOLEAN, way_en : SUBSET Ways, meta : Meta]
  /\ dataArray \in [Ways -> [Sets -> [Beat -> Row]]]
  /\ data_resp \in [valid : BOOLEAN, row : Row]
MemoryOK ==
  /\ port \in Port /\ dmem \in [ReqBlocks -> Entry]
  /\ tmem \in [BOOLEAN -> [Line -> [Beat -> Row]]]
L2OK ==
  /\ cl \in [Xacts -> Client] /\ \A i \in Xacts : cl[i].avail <= MsgBeats(cl[i])
  /\ acq \in Ids \cup {NoId} /\ last_grant \in Ids /\ finq \in {0, 1}
  /\ golden \in [ReqBlocks -> Vals]
  /\ done \in {NoId} \cup [id : Xacts, blk : ReqBlocks]
           \cup [id : Xacts, blk : ReqBlocks, ret : [Beat -> Cell \X Cell]]

\* The type invariant: in particular every counter stays within its buffer, and
\* the FinishUnit's queue never holds more than one finish.
TypeOK == /\ TrackerOK /\ CountersOK /\ BuffersOK /\ ArraysOK /\ MemoryOK /\ L2OK

\* The tags of block b as a reader would get them now: from the way that
\* holds its line, or from the tag partition.
WaysOf(b) == {x \in Ways : /\ metaArray[b.idx][x].valid
                           /\ metaArray[b.idx][x].tag = b.tag}
CurrentTags(b) ==
  IF WaysOf(b) # {} THEN dataArray[CHOOSE x \in WaysOf(b) : TRUE][b.idx][b.row][b.slot]
  ELSE tmem[isDramAddress(b)][lineOf(b)][b.row][b.slot]

\* Between requests every block's data and tags are those of the last
\* acknowledged write, wherever its tag line lives: no update is lost in the
\* hit, refill or write-back path, nor applied to another block's tags.
Coherent ==
  state = "s_idle" /\ ~rst =>
    \A b \in ReqBlocks : /\ dmem[b] = Payload(golden[b])
                         /\ CurrentTags(b) = Payload(golden[b])

\* The acknowledgement of a write is valid for a single cycle whatever
\* grant.ready is; the L2 side must be ready in that very cycle.
AckAccepted == gnt_enable /\ is_write_process => tl_grant_ready

\* The memory port never carries a beat outside a burst: no further write
\* beat after the last one, no command while a burst is open.
BurstDiscipline ==
  /\ port.cnt <= Beats
  /\ port.op = "put" /\ port.cnt = Beats => ~tl_out_acquire_valid
  /\ port.op = "get" => ~tl_out_acquire_valid

\* A line is in at most one way of its set, whichever victims were chosen.
OneWayPerLine ==
  ~rst => \A b \in Block : \A x, y \in WaysOf(b) : x = y

\* The tag cache, with its arrays and the memory, implements a tagged memory:
\* every read returns the data and the tags of the last acknowledged write, in
\* every beat, and nothing completes twice or unasked.
TM == INSTANCE TaggedMemory WITH
        Clients <- Xacts, Blocks <- ReqBlocks, None <- NoId, mem <- golden,
        pend <- [i \in Xacts |-> IF cl[i].st = "idle" THEN NoId
                 ELSE [kind |-> cl[i].kind, blk |-> cl[i].blk, val |-> cl[i].val]]
ImplementsTaggedMemory == TM!Spec

-----------------------------------------------------------------------------
(* Inductive invariants, for an L2 that sends no PutBlock to the tag cache *)
(* (it is the last level cache: its writes are releases).                  *)

IsPort(op, sp, cnt) == port.op = op /\ port.sp = sp /\ port.cnt = cnt
Quiet == port.op = "none" /\ port.cnt = 0

\* The L2 side: an acquire is one beat, and presented until it is accepted.
L2Inv ==
  /\ \A i \in Ids : /\ cl[i].kind = "Get"
                    /\ cl[i].st \in {"wb", "outer"} => cl[i].sent = 0 /\ cl[i].avail = 1
  /\ cl[Wb].kind = "Rel" /\ cl[Wb].st # "wb"
  /\ acq # NoId => cl[acq].st = "outer"

\* The transfer of the request's data: who owns the port, and how far it is.
DataInv ==
  /\ acq_data_process = (is_read \/ is_write) /\ ~(is_read /\ is_write)
  /\ is_acq = is_read
  /\ is_read => /\ ~is_write_process /\ read_multiple_data
                /\ ~cmd_sent => Quiet /\ acq = tag_out /\ nr_cnt = 0
                /\ cmd_sent  => /\ IsPort("get", "data", nr_cnt)
                                /\ cl[tag_out].st = "busy"
  /\ is_write =>
       /\ is_write_process /\ tag_out = Wb /\ nr_cnt = 0
       /\ \/ /\ cl[Wb].st = "outer" /\ cl[Wb].sent = acq_data_cnt
             /\ IF acq_data_cnt = 0 THEN Quiet ELSE IsPort("put", "data", acq_data_cnt)
          \/ /\ cl[Wb].st = "busy" /\ acq_data_cnt = 0 /\ IsPort("put", "data", Beats)
  /\ ~is_write => acq_data_cnt = 0 /\ (cl[Wb].st = "outer" => cl[Wb].sent = 0)

\* The tag state machine: what it has on the port once the data is through.
FsmInv ==
  /\ state \in {"s_idle", "s_write_back_wait_b", "s_data_write_refill",
                "s_meta_write_refill", "s_busy"} => ~acq_data_process
  /\ state = "s_idle" => ~is_write_process
  /\ ~acq_data_process =>
       \/ /\ state = "s_write_back" /\ nr_cnt = 0
          /\ IF mem_tag_data_write_cnt = 0 THEN Quiet
             ELSE IsPort("put", "tag", mem_tag_data_write_cnt)
       \/ state = "s_write_back_wait_b" /\ nr_cnt = 0 /\ IsPort("put", "tag", Beats)
       \/ state = "s_mem_req" /\ cmd_sent /\ IsPort("get", "tag", nr_cnt)
       \/ /\ state \notin {"s_write_back", "s_write_back_wait_b"}
          /\ Quiet /\ nr_cnt = 0
          /\ state \in {"s_meta_read", "s_meta_resp", "s_data_read_wb", "s_data_resp_wb",
                        "s_data_resp_wb_done", "s_mem_req"} => ~cmd_sent
  /\ state # "s_write_back" \/ acq_data_process => mem_tag_data_write_cnt = 0

\* The acknowledgement of a write: its client waits until it has been sent.
AckInv ==
  /\ gnt_enable => state = "s_busy"
  /\ is_write_process /\ ~acq_data_process /\ (state = "s_busy" => gnt_enable)
       => tag_out = Wb /\ cl[Wb].st = "busy"

\* The tracker's two halves, the port and the L2 agree on who does what: the
\* inductive invariant behind BurstDiscipline and AckAccepted.
ControlInv == L2Inv /\ DataInv /\ FsmInv /\ AckInv

\* Way x is the only way of the request's set that may hold the request's line.
Fits(en) == \E x \in Ways : /\ en = {x}
                            /\ \A y \in WaysOf(addr_out) : y = x

\* The chosen way stays the right one from the lookup to the metadata write.
WayInv ==
  /\ \A b \in Block : b.idx < rst_cnt => \A x, y \in WaysOf(b) : x = y
  /\ rst => state \in {"s_idle", "s_meta_read"}
  /\ meta_s1 => state = "s_meta_resp" /\ ~meta_resp.valid
  /\ meta_resp.valid => state = "s_meta_resp" /\ Fits(meta_resp.way_en)
  /\ state \notin {"s_idle", "s_meta_read", "s_meta_resp"} => Fits(acq_way_en)

-----------------------------------------------------------------------------
(* Fairness: the clock ticks; memory eventually takes an offered beat and  *)
(* answers an open burst; the L2 eventually has the next beat of a write.  *)

TickWith(r, v, ms) == \E w \in Ways, m \in ms : Tick(r, v, w, m)
MemAccepts  == tl_out_acquire_valid /\ \E v \in BOOLEAN : TickWith(TRUE, v, Moves)
MemResponds == \E r \in BOOLEAN : TickWith(r, TRUE, Moves)
BeatArrives ==
  \E i \in Xacts :
    /\ cl[i].st = "outer" /\ cl[i].avail < MsgBeats(cl[i])
    /\ \E r, v \in BOOLEAN : TickWith(r, v, {[cl EXCEPT ![i].avail = @ + 1]})

FairSpec == /\ Spec /\ WF_vars(Next) /\ WF_vars(MemAccepts) /\ WF_vars(MemResponds)
            /\ WF_vars(BeatArrives)

\* Every acquire and every release is answered: the two halves of the tracker
\* never wait for each other, no acknowledgement is dropped, and releases,
\* which go first, do not starve acquires.
EveryRequestAnswered ==
  \A i \in Xacts : cl[i].st = "outer" ~> cl[i].st = "idle"

=============================================================================
