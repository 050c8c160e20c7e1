------------------------------- MODULE MCPcr --------------------------------
(* Small instances of Pcr for TLC.                                         *)
EXTENDS Pcr

acc(a, c, d) == [addr |-> a, cmd |-> c, data |-> d]

\* The maps, which both cores write and put in effect.
MapAccess == {acc(pmem_map(1), "W", {}), acc(pmem_map(1), "S", {1}),
              acc(pmem_map_update, "W", {}), acc(pio_map(0), "W", {1}),
              acc(pio_map(0), "C", {1}), acc(pio_map_update, "W", {})}

\* The tag control register and the interrupts.
TagAccess == {acc(ptagctrl, "W", {1}), acc(ptagctrl, "C", {1}),
              acc(pint_en(0), "W", {1}), acc(pint_pending(0), "R", {})}

\* The host, and the soft reset.
HostAccess == {acc(ptohost, "W", {1}), acc(mfromhost, "W", {}), acc(preset, "R", {})}

\* The timer; a write of the map that takes the update bus; and the soft reset.
TimerAccess == {acc(mtimecmp(0), "W", {}), acc(mtimecmp(1), "W", {}), acc(preset, "R", {}),
                acc(ptime, "R", {}), acc(pio_map_update, "W", {})}

\* Calls of the host, with two different words.
CallAccess == {acc(ptohost, "W", {1}), acc(ptohost, "W", {2}), acc(mfromhost, "W", {})}

\* Writes of tohost.
SendAccess == {acc(ptohost, "W", {1})}
\* Software uses the maps, or the tag control register with the interrupts, or
\* the host with the soft reset, or the timer.
SharedPrograms == {MapAccess, TagAccess, HostAccess, TimerAccess}
CallPrograms == {CallAccess}
SendPrograms == {SendAccess}

\* A register without a reset value matters to the programs that use it.
SharedInit ==
  /\ Init
  /\ prog # MapAccess =>
       \A h \in Holder : \A a \in Map(h) : update[h][a] = InitVal /\ reg[a] = InitVal
  /\ prog # TagAccess => \A c \in Core : reg[pint_en(c)] = {}
  /\ prog # TimerAccess => \A c \in Core : reg_mtimecmp[c] = MaxTime

\* A debug trap matters to the programs that use the tag control register.
SharedNext ==
  \E taken \in {FALSE, host_req_valid}, h \in hostq \cup {NoMsg}, irqs \in SUBSET int_mask,
     d \in IF prog = TagAccess THEN Traps ELSE {{}} : Tick(taken, h, irqs, d)

SharedSpec == SharedInit /\ [][SharedNext]_vars
=============================================================================
