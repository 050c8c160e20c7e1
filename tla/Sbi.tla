--------------------------------- MODULE Sbi ---------------------------------
(***************************************************************************)
(* The machine-mode firmware under the operating system: the binary        *)
(* interface calls of bbl/mtrap.c, the interrupt entry of bbl/mentry.S and *)
(* the start of the harts in bbl/minit.c and bbl/bbl.c.                    *)
(*                                                                         *)
(* pc[h] is "os" while the operating system runs on hart h.  Only hart 0   *)
(* gets there: num_harts is 1 and the other harts are parked.  Machine     *)
(* mode runs with interrupts off, so a call or an interrupt is one step.   *)
(*                                                                         *)
(* The chip has no CSR send_ipi (csr.scala 185), so the write in           *)
(* mcall_send_ipi is an illegal instruction in machine mode: a panic.      *)
(* Nothing else raises MSIP, and its branch of the interrupt entry is not  *)
(* reached.                                                                *)
(*                                                                         *)
(* A message of the operating system is in the list of requests of hart 0, *)
(* in its list of responses, or with the operating system; the lists are   *)
(* linked through sbi_private_data.  Device calls are made on hart 0: the  *)
(* line of the UART is enabled for core 0 only.                            *)
(***************************************************************************)
EXTENDS Integers, Sequences, FiniteSets, Functions

CONSTANTS
  Harts,     \* by their hart_id
  Msgs,      \* the messages of the operating system
  NULL,
  MaxChars   \* bound of the characters that the UART receives

ASSUME SbiAssumption ==
  /\ Harts \subseteq Nat /\ 0 \in Harts /\ IsFiniteSet(Harts)
  /\ IsFiniteSet(Msgs) /\ NULL \notin Msgs /\ MaxChars \in Nat

VARIABLES
  pc,                                  \* where a hart is
  root_page_table, elf_loaded,         \* set once, by hart 0
  ssip, stip, mtip, mtie,              \* bits of mip and mie of a hart
  armed, asked,                        \* mtimecmp is ahead; the timer was set
  ipi_pending,                         \* of a hart
  sbi_private_data,                    \* the link of a message
  data,                                \* the character in a message
  device_request_queue_head, device_request_queue_size,
  device_response_queue_head, device_response_queue_tail,
  irq_en, rx, received, lost,          \* the UART: its line, the receive register
                                       \* or 0, its input and what it overran
  where, got                           \* the owner of a message; characters the
                                       \* operating system has (history)

bootVars  == <<root_page_table, elf_loaded>>
timerVars == <<stip, mtip, mtie, armed, asked>>
reqVars   == <<device_request_queue_head, device_request_queue_size>>
rspVars   == <<device_response_queue_head, device_response_queue_tail>>
uartVars  == <<irq_en, rx, received, lost>>
listVars  == <<sbi_private_data, data, reqVars, rspVars, where, got>>
devVars   == <<listVars, uartVars>>
sbiVars   == <<pc, bootVars, ssip, timerVars, ipi_pending, devVars>>

\* A constant: minit.c gives it the value and nothing writes it.
num_harts == 1

OsRuns(h) == pc[h] = "os"
Goto(h, l) == pc' = [pc EXCEPT ![h] = l]

----------------------------------------------------------------------------
(* The start of a hart. *)

\* machine_init up to the first wait, hls_init included.
machine_init(h) ==
  /\ pc[h] = "reset"
  /\ Goto(h, IF h = 0 THEN "vm_init" ELSE "wait_vm")
  /\ ipi_pending' = [ipi_pending EXCEPT ![h] = FALSE]
  /\ UNCHANGED <<bootVars, ssip, timerVars, devVars>>

init_first_hart ==
  /\ pc[0] = "vm_init"
  /\ root_page_table' = TRUE
  /\ Goto(0, "load")
  /\ UNCHANGED <<elf_loaded, ssip, timerVars, ipi_pending, devVars>>

run_loaded_program ==
  /\ pc[0] = "load"
  /\ elf_loaded' = TRUE
  /\ Goto(0, "os")
  /\ UNCHANGED <<root_page_table, ssip, timerVars, ipi_pending, devVars>>

boot_other_hart(h) == elf_loaded /\ Goto(h, "os")

\* Mutant: the bound is one too high.
init_other_hart_Bound(h) ==
  /\ pc[h] = "wait_vm" /\ root_page_table
  /\ IF h > num_harts THEN Goto(h, "wfi") ELSE boot_other_hart(h)
  /\ UNCHANGED <<bootVars, ssip, timerVars, ipi_pending, devVars>>

\* A hart that is not out of bounds would go on in boot_other_hart; none is.
init_other_hart(h) ==
  /\ pc[h] = "wait_vm" /\ root_page_table
  /\ IF h >= num_harts THEN Goto(h, "wfi") ELSE boot_other_hart(h)
  /\ UNCHANGED <<bootVars, ssip, timerVars, ipi_pending, devVars>>

----------------------------------------------------------------------------
(* The calls about devices, on hart 0.  A message that is refused changes   *)
(* nothing.  A command that the device does not have ends in panic.         *)

\* Mutant: a response is put before the others.
Respond_Front(m) ==
  /\ sbi_private_data' = [sbi_private_data EXCEPT ![m] = device_response_queue_head]
  /\ device_response_queue_head' = m
  /\ device_response_queue_tail' = IF device_response_queue_tail = NULL THEN m
                                   ELSE device_response_queue_tail
  /\ where' = [where EXCEPT ![m] = "rsp"]
  /\ ssip' = [ssip EXCEPT ![0] = TRUE]

\* Message m joins the responses, and the software interrupt is raised.
Respond(m) ==
  /\ sbi_private_data' = [n \in Msgs |-> CASE n = m -> NULL
                                      [] n = device_response_queue_tail -> m
                                      [] OTHER -> sbi_private_data[n]]
  /\ device_response_queue_head' = IF device_response_queue_tail = NULL THEN m
                                   ELSE device_response_queue_head
  /\ device_response_queue_tail' = m
  /\ where' = [where EXCEPT ![m] = "rsp"]
  /\ ssip' = [ssip EXCEPT ![0] = TRUE]

\* IDENTIFY, a UART write, and the disk: answered in the call.
mcall_dev_req_now(m) ==
  /\ OsRuns(0) /\ where[m] = "os"
  /\ Respond(m)
  /\ data' = [data EXCEPT ![m] = 0]
  /\ UNCHANGED <<pc, bootVars, timerVars, ipi_pending, reqVars, got, uartVars>>

mcall_dev_req_read(m) ==
  /\ OsRuns(0) /\ where[m] = "os"
  /\ irq_en' = TRUE
  /\ sbi_private_data' = [sbi_private_data EXCEPT ![m] = device_request_queue_head]
  /\ device_request_queue_head' = m
  /\ device_request_queue_size' = device_request_queue_size + 1
  /\ where' = [where EXCEPT ![m] = "req"]
  /\ UNCHANGED <<pc, bootVars, ssip, timerVars, ipi_pending, data, rspVars, got, rx, received, lost>>

\* Short disk transfers and unknown commands.
mcall_dev_req_panic ==
  /\ OsRuns(0)
  /\ Goto(0, "panic")
  /\ UNCHANGED <<bootVars, ssip, timerVars, ipi_pending, devVars>>

\* Mutant: the walk starts after the first request.
io_irq_service_Second ==
  LET m == device_request_queue_head
  IN
  /\ OsRuns(0) /\ irq_en /\ rx # 0
  /\ IF device_request_queue_size <= 1
     THEN UNCHANGED <<pc, ssip, sbi_private_data, data, reqVars, rspVars, where, rx>>
     ELSE /\ data' = [data EXCEPT ![m] = rx]
          /\ rx' = 0
          /\ device_request_queue_head' = sbi_private_data[m]
          /\ device_request_queue_size' = device_request_queue_size - 1
          /\ Respond(m)
          /\ UNCHANGED pc
  /\ UNCHANGED <<bootVars, timerVars, ipi_pending, got, irq_en, received, lost>>

\* The UART has a character.  Only reads are ever queued, so the walk through
\* the requests stops at the first.
io_irq_service ==
  LET m == device_request_queue_head
  IN
  /\ OsRuns(0) /\ irq_en /\ rx # 0
  /\ IF device_request_queue_size = 0
     THEN /\ Goto(0, "panic")
          /\ UNCHANGED <<ssip, sbi_private_data, data, reqVars, rspVars, where, rx>>
     ELSE /\ data' = [data EXCEPT ![m] = rx]
          /\ rx' = 0
          /\ device_request_queue_head' = sbi_private_data[m]
          /\ device_request_queue_size' = device_request_queue_size - 1
          /\ Respond(m)
          /\ UNCHANGED pc
  /\ UNCHANGED <<bootVars, timerVars, ipi_pending, got, irq_en, received, lost>>

\* Mutant: the tail stays at the message that is given away.
mcall_dev_resp_Tail ==
  LET m == device_response_queue_head
      next == sbi_private_data[m]
  IN
  /\ OsRuns(0)
  /\ IF m = NULL THEN UNCHANGED <<ssip, listVars>>
     ELSE /\ device_response_queue_head' = next
          /\ where' = [where EXCEPT ![m] = "os"]
          /\ got' = IF data[m] = 0 THEN got ELSE Append(got, data[m])
          /\ IF next = NULL
             THEN /\ UNCHANGED device_response_queue_tail
                  /\ ssip' = [ssip EXCEPT ![0] = ipi_pending[0]]
             ELSE UNCHANGED <<device_response_queue_tail, ssip>>
          /\ UNCHANGED <<sbi_private_data, data, reqVars>>
  /\ UNCHANGED <<pc, bootVars, timerVars, ipi_pending, uartVars>>

\* Mutant: the last response is not given away.
mcall_dev_resp_Last ==
  LET m == device_response_queue_head
      next == sbi_private_data[m]
  IN
  /\ OsRuns(0)
  /\ IF m = NULL \/ next = NULL THEN UNCHANGED listVars
     ELSE /\ device_response_queue_head' = next
          /\ where' = [where EXCEPT ![m] = "os"]
          /\ got' = IF data[m] = 0 THEN got ELSE Append(got, data[m])
          /\ UNCHANGED <<sbi_private_data, data, reqVars, device_response_queue_tail>>
  /\ UNCHANGED <<pc, bootVars, ssip, timerVars, ipi_pending, uartVars>>

\* The first response goes to the operating system; with the last one the
\* software interrupt goes down, unless ipi_pending keeps it up.
mcall_dev_resp ==
  LET m == device_response_queue_head
      next == sbi_private_data[m]
  IN
  /\ OsRuns(0)
  /\ IF m = NULL THEN UNCHANGED <<ssip, listVars>>
     ELSE /\ device_response_queue_head' = next
          /\ where' = [where EXCEPT ![m] = "os"]
          /\ got' = IF data[m] = 0 THEN got ELSE Append(got, data[m])
          /\ IF next = NULL
             THEN /\ device_response_queue_tail' = NULL
                  /\ ssip' = [ssip EXCEPT ![0] = ipi_pending[0]]
             ELSE UNCHANGED <<device_response_queue_tail, ssip>>
          /\ UNCHANGED <<sbi_private_data, data, reqVars>>
  /\ UNCHANGED <<pc, bootVars, timerVars, ipi_pending, uartVars>>

----------------------------------------------------------------------------
(* Inter-processor interrupts. *)

\* A recipient that is out of bounds is refused, and one that has not seen the
\* last interrupt gets no other.  Else the write of send_ipi traps.
mcall_send_ipi(h, r) ==
  /\ OsRuns(h)
  /\ IF r >= num_harts THEN UNCHANGED <<pc, ipi_pending>>
     ELSE /\ ipi_pending' = [ipi_pending EXCEPT ![r] = TRUE]
          /\ IF ipi_pending[r] THEN UNCHANGED pc ELSE Goto(h, "panic")
  /\ UNCHANGED <<bootVars, ssip, timerVars, devVars>>

Responses(h) == h = 0 /\ device_response_queue_head # NULL

\* Mutant: responses that wait are not considered.
mcall_clear_ipi_Always(h) ==
  /\ OsRuns(h)
  /\ ssip' = [ssip EXCEPT ![h] = FALSE]
  /\ ipi_pending' = [ipi_pending EXCEPT ![h] = FALSE]
  /\ UNCHANGED <<pc, bootVars, timerVars, devVars>>

mcall_clear_ipi(h) ==
  /\ OsRuns(h)
  /\ ssip' = [ssip EXCEPT ![h] = @ /\ Responses(h)]
  /\ ipi_pending' = [ipi_pending EXCEPT ![h] = FALSE]
  /\ UNCHANGED <<pc, bootVars, timerVars, devVars>>

mcall_shutdown(h) ==
  /\ OsRuns(h)
  /\ Goto(h, "off")
  /\ UNCHANGED <<bootVars, ssip, timerVars, ipi_pending, devVars>>

----------------------------------------------------------------------------
(* The timer.  A write of mtimecmp clears MTIP; writes of mip do not. *)

\* Mutant: the machine's timer interrupt stays disabled.
mcall_set_timer_Masked(h) ==
  /\ OsRuns(h)
  /\ armed' = [armed EXCEPT ![h] = TRUE]
  /\ asked' = [asked EXCEPT ![h] = TRUE]
  /\ mtip' = [mtip EXCEPT ![h] = FALSE]
  /\ stip' = [stip EXCEPT ![h] = FALSE]
  /\ UNCHANGED <<pc, bootVars, ssip, mtie, ipi_pending, devVars>>

mcall_set_timer(h) ==
  /\ OsRuns(h)
  /\ armed' = [armed EXCEPT ![h] = TRUE]
  /\ asked' = [asked EXCEPT ![h] = TRUE]
  /\ mtip' = [mtip EXCEPT ![h] = FALSE]
  /\ stip' = [stip EXCEPT ![h] = FALSE]
  /\ mtie' = [mtie EXCEPT ![h] = TRUE]
  /\ UNCHANGED <<pc, bootVars, ssip, ipi_pending, devVars>>

\* The time reaches mtimecmp.
TimeReached(h) ==
  /\ armed[h]
  /\ armed' = [armed EXCEPT ![h] = FALSE]
  /\ mtip' = [mtip EXCEPT ![h] = TRUE]
  /\ UNCHANGED <<pc, bootVars, ssip, stip, mtie, asked, ipi_pending, devVars>>

Interrupt_timer(h) ==
  /\ OsRuns(h) /\ mtip[h] /\ mtie[h]
  /\ mtie' = [mtie EXCEPT ![h] = FALSE]
  /\ stip' = [stip EXCEPT ![h] = TRUE]
  /\ UNCHANGED <<pc, bootVars, ssip, mtip, armed, asked, ipi_pending, devVars>>

----------------------------------------------------------------------------

\* A character arrives.  uart_init leaves the FIFOs off, so it replaces one that
\* was not read.
UartReceives ==
  /\ received < MaxChars
  /\ received' = received + 1
  /\ rx' = received + 1
  /\ lost' = IF rx = 0 THEN lost ELSE lost \cup {rx}
  /\ UNCHANGED <<pc, bootVars, ssip, timerVars, ipi_pending, listVars, irq_en>>

\* After reset; mtimecmp is zero, so the time is already past it.
SbiInit ==
  /\ pc = [h \in Harts |-> "reset"]
  /\ root_page_table = FALSE /\ elf_loaded = FALSE
  /\ ssip = [h \in Harts |-> FALSE]
  /\ stip = [h \in Harts |-> FALSE] /\ mtip = [h \in Harts |-> TRUE]
  /\ mtie = [h \in Harts |-> FALSE]
  /\ armed = [h \in Harts |-> FALSE] /\ asked = [h \in Harts |-> FALSE]
  /\ ipi_pending = [h \in Harts |-> FALSE]
  /\ sbi_private_data = [m \in Msgs |-> NULL] /\ data = [m \in Msgs |-> 0]
  /\ device_request_queue_head = NULL /\ device_request_queue_size = 0
  /\ device_response_queue_head = NULL /\ device_response_queue_tail = NULL
  /\ irq_en = FALSE /\ rx = 0 /\ received = 0 /\ lost = {}
  /\ where = [m \in Msgs |-> "os"] /\ got = <<>>

Boot(h) == machine_init(h) \/ init_other_hart(h)

Ipi(h) == (\E r \in Harts : mcall_send_ipi(h, r)) \/ mcall_clear_ipi(h)

Timer(h) == mcall_set_timer(h) \/ TimeReached(h) \/ Interrupt_timer(h)

Devices ==
  \/ \E m \in Msgs : mcall_dev_req_now(m) \/ mcall_dev_req_read(m)
  \/ mcall_dev_req_panic \/ mcall_dev_resp
  \/ io_irq_service \/ UartReceives

SbiNext ==
  \/ init_first_hart \/ run_loaded_program
  \/ \E h \in Harts : Boot(h) \/ Ipi(h) \/ Timer(h) \/ mcall_shutdown(h)
  \/ Devices

----------------------------------------------------------------------------
(* The lists as the pointers give them. *)

\* The orders that the messages of S can have in a list.
Orders(S) == Bijection(1 .. Cardinality(S), S)

\* The i-th message of a list that is in order q; NULL behind the last.
At(q, i) == IF i \in DOMAIN q THEN q[i] ELSE NULL

\* The links lead from head through the messages in order q, and end.
Linked(link, q, head) ==
  /\ head = At(q, 1)
  /\ \A i \in DOMAIN q : link[q[i]] = At(q, i + 1)

In(place) == {m \in Msgs : where[m] = place}

----------------------------------------------------------------------------
(* Properties. *)

\* While a response waits in the list, the software interrupt of hart 0 is up:
\* mcall_clear_ipi leaves it for the responses.
ResponseSignalled == device_response_queue_head # NULL => ssip[0]

\* The request and response lists, relinked by mcall_dev_req, io_irq_service
\* and mcall_dev_resp, hold exactly the messages that the operating system
\* handed over and did not get back; size and tail agree with the links.
QueuesSound ==
  /\ \E q \in Orders(In("req")) : Linked(sbi_private_data, q, device_request_queue_head)
  /\ device_request_queue_size = Cardinality(In("req"))
  /\ \E q \in Orders(In("rsp")) :
       /\ Linked(sbi_private_data, q, device_response_queue_head)
       /\ device_response_queue_tail = At(q, Cardinality(In("rsp")))

\* Console input keeps its order on the way through io_irq_service and
\* mcall_dev_resp, though reads are answered last first, and what the register
\* did not overrun arrives once.
CharsInOrder ==
  \E q \in Orders(In("rsp")) :
    LET answered == [i \in DOMAIN q |-> data[q[i]]]
        stream == (got \o answered) \o <<rx>>
    IN  /\ Linked(sbi_private_data, q, device_response_queue_head)
        /\ \A i, j \in DOMAIN stream :
             i < j /\ stream[i] # 0 /\ stream[j] # 0 => stream[i] < stream[j]
        /\ {stream[i] : i \in DOMAIN stream} \ {0} = 1 .. received \ lost

\* A timer that was set by mcall_set_timer is running, or its interrupt will be
\* taken, or the operating system has its tick; and a hart never has the tick
\* of a timer that it has set anew.
TimerKept ==
  \A h \in Harts :
     /\ asked[h] => armed[h] \/ (mtip[h] /\ mtie[h]) \/ stip[h]
     /\ armed[h] => mtie[h] /\ ~stip[h]

Started(h) == pc[h] \in {"os", "panic", "off"}

\* init_other_hart lets no hart from num_harts on into the operating system, however
\* late it comes out of reset, and hart 0 enters it only after init_first_hart has
\* set up the page table and run_loaded_program has loaded the program.
BootOrder ==
  \A h \in Harts : Started(h) => root_page_table /\ elf_loaded /\ h < num_harts

SbiSpec == SbiInit /\ [][SbiNext]_sbiVars

\* A character that waits is served while the operating system runs, and while its
\* software interrupt is up the operating system asks for a response.
SbiFairness == WF_sbiVars(ssip[0] /\ mcall_dev_resp) /\ WF_sbiVars(io_irq_service)

Stopped(h) == pc[h] \in {"panic", "off"}

\* Every request that mcall_dev_req or io_irq_service has answered gets back to the
\* operating system, however many are answered after it: mcall_dev_resp serves the
\* responses in the order in which they came, and mcall_clear_ipi between its calls
\* does not take the signal away.
ResponseReceived == \A m \in Msgs : where[m] = "rsp" ~> where[m] = "os" \/ Stopped(0)

\* A character that the UART holds once a read was made reaches the operating
\* system through io_irq_service and mcall_dev_resp, unless the next one
\* overruns it or hart 0 stops.
CharDelivered ==
  \A c \in 1 .. MaxChars :
     (irq_en /\ received >= c) ~> (Stopped(0) \/ c \in lost \/ \E i \in DOMAIN got : got[i] = c)
=============================================================================
