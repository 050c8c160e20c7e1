------------------------------- MODULE SdCard -------------------------------
(***************************************************************************)
(* The SD card driver of the boot loader, driver/diskio.c over             *)
(* driver/spi.c, with the card as its environment.  One step is one call   *)
(* of the driver.  A call meets at most one fault, its `plan`: the n-th    *)
(* exchange of the call (a command or a data packet) goes wrong, or from   *)
(* that exchange on the card is gone or stays busy.                        *)
(*                                                                         *)
(* An operator takes and returns the state s of the driver and the card:   *)
(*   Stat, CardType   the two variables of the driver; of Stat only the    *)
(*                    bit STA_NOINIT is ever set;                          *)
(*   sel, on, fifo    the slave select register, the enable bit of the SPI *)
(*                    and the bytes left in its receive FIFO;              *)
(*   card             the card;                                            *)
(*   n, plan          the exchanges of this call so far, and its fault;    *)
(*   ok, r, blocks    what the functions returned: the last truth value,   *)
(*                    the last response byte, the blocks read so far;      *)
(*   timeout          the counter of disk_initialize;                      *)
(*   hung             the call never returns: spi_send waits for an SPI    *)
(*                    that is disabled, or xmit_datablock for a line that  *)
(*                    stays low.                                           *)
(***************************************************************************)
EXTENDS Integers, Sequences

CONSTANTS
  Types,      \* card types, of {"MMC", "SD1", "SD2", "SDHC"}
  NSec,       \* sectors of the card
  Data,       \* what a sector can hold
  MaxCount,   \* sectors in one call (128 in the code)
  BL,         \* bytes of a sector (512 in the code)
  Timeout,    \* tries of the initialisation (1000*1000 in the code)
  W,          \* bits of the try counter (32 in the code)
  Wakes,      \* polls that cards take to leave the idle state
  FaultKinds, \* of {"error", "echo", "token", "reject", "stuck", "gone", "pulled", "busy"}
  MaxAt       \* the last exchange of a call that can go wrong

ASSUME SdAssumption ==
  /\ Types \subseteq {"MMC", "SD1", "SD2", "SDHC"} /\ Wakes \subseteq Nat
  /\ NSec \in Nat /\ BL \in Nat \ {0} /\ Timeout \in Nat \ {0} /\ 2 ^ W \in Nat \ {0}
  /\ MaxCount \in Nat /\ MaxAt \in Nat

VARIABLES st, ret

sdVars == <<st, ret>>

Sectors == 0 .. NSec - 1
NoPlan == [kind |-> "none", at |-> 0]
Plans(kinds) == {NoPlan} \cup [kind : FaultKinds \cap kinds, at : 1 .. MaxAt]

----------------------------------------------------------------------------
(* The card.  mode is its state in SPI mode, pend the block that it has     *)
(* accepted and is still programming, as a sequence of at most one.         *)

Idle(c) == IF c.mode = "idle" THEN 1 ELSE 0

\* The sector that an argument addresses; NSec when there is none.
SectorOf(c, arg) ==
  IF c.type = "SDHC" THEN IF arg < NSec THEN arg ELSE NSec
  ELSE IF arg % BL = 0 /\ arg \div BL < NSec THEN arg \div BL ELSE NSec

\* Commands that the card knows, in a state in which it takes them.
Knows(c, cmd) ==
  \/ cmd = 1 /\ c.type = "MMC"
  \/ cmd \in {41, 23} /\ c.acmd
  \/ cmd = 8 /\ c.type \in {"SD2", "SDHC"}
  \/ cmd = 55 /\ c.type # "MMC"
  \/ cmd = 58
  \/ cmd \in {9, 10, 13, 16, 17, 18, 24, 25} /\ c.mode = "ready"

Moves(cmd) == CASE cmd = 17 -> "block" [] cmd = 18 -> "blocks"
                [] cmd = 24 -> "write" [] cmd = 25 -> "writes"

\* The card c0 after a command, with its answer R1; c is c0 with its flag for the
\* command after CMD55 brought up to date.  In the middle of a transfer the card takes
\* only the command that ends it, and CMD0.
Answer(c0, c, cmd, arg) ==
  LET To(d, r) == [card |-> d, r |-> r] IN
  CASE cmd = 0 -> To([c EXCEPT !.mode = "idle", !.wake = c.polls], 1)
    [] cmd = 12 /\ c.mode = "blocks" -> To([c EXCEPT !.mode = "ready"], 0)
    [] cmd # 0 /\ c.mode \notin {"idle", "ready"} /\ ~(cmd = 12 /\ c.mode = "blocks") ->
         To(c0, 255)
    [] c.mode \in {"idle", "ready"} /\ cmd # 0 /\ ~Knows(c0, cmd) -> To(c, Idle(c) + 4)
    [] c.mode \in {"idle", "ready"} /\ Knows(c0, cmd) /\ cmd \in {1, 41} ->
         IF c.mode = "idle" /\ (c.wake > 0 \/ (c.type = "SDHC" /\ arg = 0))
         THEN To([c EXCEPT !.wake = IF @ > 0 THEN @ - 1 ELSE @], 1)
         ELSE To([c EXCEPT !.mode = "ready"], 0)
    [] c.mode \in {"idle", "ready"} /\ Knows(c0, cmd) /\ cmd \in {8, 16, 23, 55, 58} ->
         To(c, Idle(c))
    [] c.mode = "ready" /\ cmd \in {9, 10, 13} -> To([c EXCEPT !.mode = "reg"], 0)
    [] c.mode = "ready" /\ cmd \in {17, 18, 24, 25} ->
         IF SectorOf(c, arg) = NSec THEN To(c, 64)
         ELSE To([c EXCEPT !.mode = Moves(cmd), !.cur = SectorOf(c, arg)], 0)

Card(c, cmd, arg) == Answer(c, [c EXCEPT !.acmd = cmd = 55 /\ c.type # "MMC"], cmd, arg)

\* The card finishes the block that it is programming.
Program(c) ==
  [c EXCEPT !.mem = IF c.pend = <<>> THEN @ ELSE [@ EXCEPT ![c.pend[1]] = c.pend[2]],
            !.pend = <<>>]

\* The card is pulled out and loses its power.
Pulled(c) == [c EXCEPT !.mode = "off", !.acmd = FALSE, !.pend = <<>>, !.present = FALSE]

----------------------------------------------------------------------------
(* The fault of a call. *)

Hits(s, kind) == s.plan.kind = kind /\ s.n = s.plan.at
Since(s, kind) == s.plan.kind = kind /\ s.n + 1 >= s.plan.at

\* The rest F of a function after a call that left the machine in s.
After(s, F(_)) == F(s)

\* A loop from s on that goes round while the body leaves ok set, at most k times;
\* the body is told the number of the round.
Loop(Body(_, _), s, k) ==
  LET run[i \in 0 .. k] ==
        IF i = 0 THEN [s EXCEPT !.ok = TRUE]
        ELSE After(run[i - 1], LAMBDA x : IF x.ok THEN Body(x, i) ELSE x)
  IN run[k]

\* One more exchange; at the exchange that "gone" names, the card is pulled out.
Exchange(s) ==
  LET t == [s EXCEPT !.n = @ + 1]
  IN IF Hits(t, "gone") THEN [t EXCEPT !.card = Pulled(@)] ELSE t

----------------------------------------------------------------------------
(* driver/spi.c *)

spi_init(s) == [s EXCEPT !.on = TRUE, !.fifo = 0]
spi_disable(s) == [s EXCEPT !.on = FALSE, !.fifo = 0]
spi_select_slave(s) == [s EXCEPT !.sel = TRUE]
spi_deselect_slave(s) == [s EXCEPT !.sel = FALSE]

\* A byte that is sent is answered by the byte that is read, unless older ones
\* are in front of it.
spi_send(s) == s.on /\ s.sel /\ s.fifo = 0 /\ s.card.present

\* Mutant: the receive FIFO is not reset.
spi_send_multi_NoReset(s, k) == [s EXCEPT !.fifo = @ + k]

spi_send_multi(s, k) == [s EXCEPT !.fifo = 0]

\* As many bytes are read as were sent for them.
spi_recv_multi(s, k) == [s EXCEPT !.fifo = (@ + k) - k]

----------------------------------------------------------------------------
(* driver/diskio.c: the functions below the calls. *)

\* Blocks go in pieces of at most 16 bytes, which the FIFO holds; each piece
\* leaves it as the one before did.
xmit_spi_multi(s) == spi_send_multi(s, 16)
rcvr_spi_multi(s) == spi_recv_multi(s, 16)

\* The line of an absent card reads as ready.  A card is busy while it programs.
wait_ready(s) ==
  IF Since(s, "pulled") THEN [s EXCEPT !.card = Pulled(@), !.ok = TRUE]
  ELSE IF s.fifo # 0 \/ (s.card.pend # <<>> /\ Since(s, "busy")) THEN [s EXCEPT !.ok = FALSE]
  ELSE [s EXCEPT !.card = Program(@), !.ok = TRUE]

deselect(s) == spi_deselect_slave(s)

select(s) == After(wait_ready(spi_select_slave(s)), LAMBDA t : IF t.ok THEN t ELSE deselect(t))

\* A data packet from the card: an error token, or none in time, ends it.
rcvr_datablock(s) ==
  After(Exchange(s), LAMBDA t :
    LET c == t.card
        none == ~spi_send(t) \/ Hits(t, "token") \/ c.mode \notin {"reg", "block", "blocks"}
                  \/ (c.mode # "reg" /\ c.cur = NSec)
        after == [c EXCEPT !.mode = IF @ \in {"reg", "block"} THEN "ready" ELSE @,
                           !.cur = IF none \/ c.mode = "reg" THEN @ ELSE @ + 1]
    IN  IF none THEN [t EXCEPT !.card = after, !.ok = FALSE]
        ELSE [rcvr_spi_multi(t) EXCEPT
                !.card = after, !.ok = TRUE,
                !.blocks = IF c.mode = "reg" THEN @ ELSE Append(@, c.mem[c.cur])])

\* The card takes a block, or refuses it.  Behind the block the code waits, without a
\* bound, for the line to go high: a card that keeps it low holds the call for ever.
TakeBlock(t, d) ==
  LET c == t.card
      taken == spi_send(t) /\ ~Hits(t, "reject") /\ c.mode \in {"write", "writes"} /\ c.cur < NSec
      after == IF taken THEN [c EXCEPT !.pend = <<c.cur, d>>, !.cur = @ + 1] ELSE c
  IN IF Hits(t, "stuck") THEN [t EXCEPT !.hung = TRUE, !.ok = FALSE]
     ELSE [t EXCEPT !.card = [after EXCEPT !.mode = IF @ = "write" THEN "ready" ELSE @], !.ok = taken]

\* The wait behind a packet, which the code does not look at.
WaitAfter(s) == [wait_ready(s) EXCEPT !.ok = TRUE]

\* A data packet to the card.
xmit_datablock(s, d) ==
  After(wait_ready(s), LAMBDA w :
    IF ~w.ok THEN w
    ELSE After(TakeBlock(xmit_spi_multi(Exchange(w)), d), LAMBDA u :
           IF u.ok THEN WaitAfter(u) ELSE u))

\* The stop token.
xmit_stop(s) ==
  After(wait_ready(s), LAMBDA w :
    IF ~w.ok THEN w
    ELSE WaitAfter([Exchange(w) EXCEPT !.card.mode = IF @ = "writes" THEN "ready" ELSE @]))

\* A command and its answer; CMD12 goes to the card as it is selected.  A command that
\* arrives damaged the card does not take, and says so.
Command(s, cmd, arg) ==
  After(IF cmd = 12 THEN [s EXCEPT !.ok = TRUE] ELSE select(deselect(s)), LAMBDA a :
    IF ~a.ok THEN [a EXCEPT !.r = 255]
    ELSE After(Exchange(a), LAMBDA t :
      IF ~spi_send(t) THEN [t EXCEPT !.r = 255]
      ELSE IF Hits(t, "error") THEN [t EXCEPT !.r = 8]
      ELSE After(Card(t.card, cmd, arg), LAMBDA x : [t EXCEPT !.card = x.card, !.r = x.r])))

send_cmd(s, cmd, arg) ==
  IF cmd < 128 THEN Command(s, cmd, arg)
  ELSE After(Command(s, 55, 0), LAMBDA a : IF a.r > 1 THEN a ELSE Command(a, cmd - 128, arg))

----------------------------------------------------------------------------
(* The calls. *)

power_on(s) == spi_init(s)
power_off(s) == spi_disable(s)

\* timeout--
Tick(s) == [s EXCEPT !.timeout = (@ - 1) % 2 ^ W]

\* timeout-- && send_cmd(cmd, arg)
PollRound(s, cmd, arg) ==
  IF s.timeout = 0 THEN [Tick(s) EXCEPT !.ok = FALSE]
  ELSE After(send_cmd(Tick(s), cmd, arg), LAMBDA a : [a EXCEPT !.ok = a.r # 0])

\* while (timeout-- && send_cmd(cmd, arg));  The counter ends it in time.
Poll(s, cmd, arg) == Loop(LAMBDA x, i : PollRound(x, cmd, arg), s, 2 ^ W)

\* Mutant: the CCS bit is not looked at.
InitV2_NoCcs(s) ==
  After(Poll(s, 128 + 41, 1), LAMBDA p :
    IF p.timeout = 0 THEN <<Tick(p), "none">>
    ELSE After(send_cmd(Tick(p), 58, 0), LAMBDA q : <<q, IF q.r # 0 THEN "none" ELSE "SD2">>))

\* Mutant: the answer to CMD58 is not looked at.
InitV2_Unchecked(s) ==
  After(Poll(s, 128 + 41, 1), LAMBDA p :
    IF p.timeout = 0 THEN <<Tick(p), "none">>
    ELSE After(send_cmd(Tick(p), 58, 0), LAMBDA q :
      <<q, IF q.card.type = "SDHC" THEN "SDHC" ELSE "SD2">>))

\* The branch for cards that answer CMD8: state and type.
InitV2(s) ==
  After(Poll(s, 128 + 41, 1), LAMBDA p :
    IF p.timeout = 0 THEN <<Tick(p), "none">>
    ELSE After(send_cmd(Tick(p), 58, 0), LAMBDA q :
      <<q, IF q.r # 0 THEN "none" ELSE IF q.card.type = "SDHC" THEN "SDHC" ELSE "SD2">>))

\* The branch for the others.  Line 343 asks for timeout-- || where the other
\* branch asks for timeout-- &&, so it gives up unless the last try succeeds.
InitV1(s) ==
  After(IF s.timeout = 0 THEN Tick(s) ELSE send_cmd(Tick(s), 128 + 41, 0), LAMBDA a :
    LET ty == IF s.timeout # 0 /\ a.r <= 1 THEN "SD1" ELSE "MMC"
    IN After(Poll(a, IF ty = "SD1" THEN 128 + 41 ELSE 1, 0), LAMBDA p :
      IF p.timeout # 0 THEN <<Tick(p), "none">>
      ELSE After(send_cmd(Tick(p), 16, BL), LAMBDA q : <<q, IF q.r = 0 THEN ty ELSE "none">>)))

\* The type of a card in the idle state.  An answer to CMD8 that does not repeat the
\* voltage and the pattern ends it.
Identify(a) ==
  After(send_cmd(Tick([a EXCEPT !.timeout = Timeout]), 8, 426), LAMBDA b :
    IF b.r # 1 THEN InitV1(b) ELSE IF Hits(b, "echo") THEN <<b, "none">> ELSE InitV2(b))

disk_initialize(s) ==
  After(send_cmd(power_on(power_off(s)), 0, 0), LAMBDA a :
    After(IF a.r = 1 THEN Identify(a) ELSE <<a, "none">>, LAMBDA i :
      LET d == [deselect(i[1]) EXCEPT !.CardType = i[2]]
      IN IF i[2] # "none" THEN [d EXCEPT !.Stat = {}] ELSE power_off(d)))

Address(s, sector) == IF s.CardType = "SDHC" THEN sector ELSE sector * BL

\* do { if (!rcvr_datablock(...)) break; ... } while (--count);
ReadBlocks(s, count) == Loop(LAMBDA x, i : rcvr_datablock(x), s, count)

\* The end of a call that returns.
Return(s) == IF s.hung THEN s ELSE deselect(s)

\* A command that F follows if the card has taken it.
Transfer(s, cmd, arg, F(_)) ==
  After(send_cmd(s, cmd, arg), LAMBDA a :
    IF a.r = 0 THEN Return(F(a)) ELSE [deselect(a) EXCEPT !.ok = FALSE])

\* Mutant: the answer to the read command is not looked at.
disk_read_Unchecked(s, sector, count) ==
  LET Stop(b) == IF count > 1 THEN [send_cmd(b, 12, 0) EXCEPT !.ok = b.ok] ELSE b
  IN After(send_cmd(s, IF count > 1 THEN 18 ELSE 17, Address(s, sector)), LAMBDA a :
       deselect(After(ReadBlocks(a, count), Stop)))

\* ok says whether count came down to 0.  The answer to CMD12 is ignored.
disk_read(s, sector, count) ==
  LET Stop(b) == IF count > 1 THEN [send_cmd(b, 12, 0) EXCEPT !.ok = b.ok] ELSE b
  IN Transfer(s, IF count > 1 THEN 18 ELSE 17, Address(s, sector),
              LAMBDA a : After(ReadBlocks(a, count), Stop))

\* do { if (!xmit_datablock(...)) break; ... } while (--count);
WriteBlocks(s, ds) == Loop(LAMBDA x, i : xmit_datablock(x, ds[i]), s, Len(ds))

disk_write(s, sector, ds) ==
  LET single == Len(ds) = 1
      counted == ~single /\ s.CardType \in {"SD1", "SD2", "SDHC"}
      Stop(b) == IF single \/ b.hung THEN b ELSE [xmit_stop(b) EXCEPT !.ok = b.ok /\ @]
  IN Transfer(IF counted THEN send_cmd(s, 128 + 23, Len(ds)) ELSE s,
              IF single THEN 24 ELSE 25, Address(s, sector),
              LAMBDA a : After(WriteBlocks(a, ds), Stop))

\* Mutant: the wait of CTRL_SYNC is left out.
disk_ioctl_sync_NoWait(s) == deselect([s EXCEPT !.ok = TRUE])

disk_ioctl_sync(s) == deselect(select(s))

\* A register of the card, read with command cmd.
disk_ioctl_reg(s, cmd) == Transfer(s, cmd, 0, rcvr_datablock)

disk_ioctl_ocr(s) == Transfer(s, 58, 0, LAMBDA a : [a EXCEPT !.ok = TRUE])

disk_ioctl_off(s) == deselect([power_off(s) EXCEPT !.Stat = {"NOINIT"}, !.ok = TRUE])

----------------------------------------------------------------------------

\* Between calls.
Rest(s) == [s EXCEPT !.n = 0, !.plan = NoPlan, !.ok = FALSE, !.r = 0, !.blocks = <<>>, !.timeout = 0]

Blocks == UNION {[1 .. k -> Data] : k \in 1 .. MaxCount}

SdInit ==
  /\ \E ty \in Types, p \in Wakes, m \in [Sectors -> Data] :
       st = [Stat |-> {"NOINIT"}, CardType |-> "none", sel |-> FALSE, on |-> FALSE, fifo |-> 0,
             card |-> [type |-> ty, polls |-> p, wake |-> p, present |-> TRUE, mode |-> "off",
                       acmd |-> FALSE, cur |-> 0, mem |-> m, pend |-> <<>>],
             n |-> 0, plan |-> NoPlan, ok |-> FALSE, r |-> 0, blocks |-> <<>>,
             timeout |-> 0, hung |-> FALSE]
  /\ ret = [call |-> "none", res |-> "OK"]

\* A call: refused while Stat says so; while the SPI is disabled spi_send never
\* returns; else the result of Op under some fault.
Call(Op(_), Back(_), kinds) ==
  /\ ~st.hung
  /\ IF st.Stat # {} THEN st' = st /\ ret' = [Back(st) EXCEPT !.res = "NOTRDY"]
     ELSE IF ~st.on THEN st' = [st EXCEPT !.hung = TRUE] /\ ret' = [Back(st) EXCEPT !.res = "HUNG"]
     ELSE \E p \in Plans(kinds) : \E t \in {Op([st EXCEPT !.plan = p])} :
            st' = Rest(t) /\ ret' = Back(t)

Res(t) == IF t.hung THEN "HUNG" ELSE IF t.ok THEN "OK" ELSE "ERROR"

Initialize ==
  /\ ~st.hung
  /\ \E p \in Plans({"error", "echo", "gone", "pulled", "busy"}) : st' = Rest(disk_initialize([st EXCEPT !.plan = p]))
  /\ ret' = [call |-> "init", res |-> IF st'.Stat = {} THEN "OK" ELSE "NOINIT"]

Read ==
  \E sector \in Sectors, count \in 1 .. MaxCount :
    LET Op(t) == disk_read(t, sector, count)
        Back(t) == [call |-> "read", res |-> Res(t), sec |-> sector, count |-> count,
                      data |-> IF t.ok THEN t.blocks ELSE <<>>]
    IN  Call(Op, Back, {"error", "token", "gone", "pulled", "busy"})

Write ==
  \E sector \in Sectors, ds \in Blocks :
    LET Op(t) == disk_write(t, sector, ds)
        Back(t) == [call |-> "write", res |-> Res(t), sec |-> sector, data |-> ds]
    IN  Call(Op, Back, {"error", "reject", "stuck", "gone", "pulled", "busy"})

Sync ==
  LET Back(t) == [call |-> "sync", res |-> Res(t)]
  IN  Call(disk_ioctl_sync, Back, {"pulled", "busy"})

Info ==
  LET Back(t) == [call |-> "info", res |-> Res(t)]
      Block13(t) == disk_ioctl_reg(t, 128 + 13)
      Block9(t) == disk_ioctl_reg(t, 9)
      kinds == {"error", "token", "gone"}
  IN  \/ Call(Block9, Back, kinds)
      \/ Call(Block13, Back, kinds)
      \/ Call(disk_ioctl_ocr, Back, kinds)

PowerOff ==
  /\ ~st.hung /\ st.Stat = {}
  /\ st' = Rest(disk_ioctl_off(st))
  /\ ret' = [call |-> "info", res |-> "OK"]

\* The card on its own: it finishes programming, is pulled out, is put back.
Finish == st.card.pend # <<>> /\ st' = [st EXCEPT !.card = Program(@)] /\ UNCHANGED ret

Pull == st.card.present /\ st' = [st EXCEPT !.card = Pulled(@)] /\ ret' = [call |-> "cut", res |-> "OK"]

Insert ==
  ~st.card.present /\ st' = [st EXCEPT !.card.present = TRUE] /\ ret' = [call |-> "cut", res |-> "OK"]

SdNext == Initialize \/ Read \/ Write \/ Sync \/ Info \/ PowerOff \/ Finish \/ Pull \/ Insert

SdSpec == SdInit /\ [][SdNext]_sdVars

----------------------------------------------------------------------------
(* Properties. *)

\* After every call of diskio.c that returns the bus is free: the card is deselected
\* and no byte is left in the receive FIFO, on the paths that fail as well.
BusFree == ~st.hung => ~st.sel /\ st.fifo = 0

\* A card that takes commands is addressed the way it wants to be: CardType, which
\* disk_read and disk_write go by, says SDHC just for the cards that count in
\* sectors, whatever went wrong in the calls of disk_initialize before.
AddressesRight ==
  st.card.mode # "off" /\ st.card.mode # "idle" /\ st.on =>
    (st.CardType = "SDHC" <=> st.card.type = "SDHC")

\* disk_initialize clears STA_NOINIT only for a card that has left the idle state, also
\* when its try counter has run through 0 and the tests behind the polls read the
\* wrapped value: a driver that goes on never talks to a card that is still idle.
InitialisedIsAwake == st.Stat = {} /\ st.on => st.card.mode # "idle"

\* A transfer that a call leaves open is never taken for a later one.  A read stays open
\* when the card does not take CMD12, whose answer disk_read ignores, and a write when
\* the card is too busy for the stop token; until disk_initialize resets the card or it
\* loses its power, every disk_read and disk_write fails, and so neither returns the
\* blocks of the old read nor adds to the old write.
OpenTransferRefused ==
  [][st.card.mode \in {"blocks", "writes"} /\ ~Finish /\ ret'.call \in {"read", "write"} =>
       ret'.res # "OK"]_sdVars

\* What a read returns.
View == LET c == st.card IN IF c.pend = <<>> THEN c.mem ELSE [c.mem EXCEPT ![c.pend[1]] = c.pend[2]]

Store == INSTANCE BlockStore WITH mem <- View, durable <- st.card.mem, present <- st.card.present

\* The driver and the card are an array of sectors (BlockStore): a read returns what
\* was written last, a call that returns RES_OK has done all that was asked, one that
\* fails has written a prefix, and after CTRL_SYNC nothing is lost with the power.
ImplementsBlockStore == Store!Spec
=============================================================================
