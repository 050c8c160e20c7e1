----------------------------- MODULE SbiProofs ------------------------------
(***************************************************************************)
(* The firmware for any number of harts, messages and characters.          *)
(*                                                                         *)
(* The device queues: the linked request and response queues hold exactly  *)
(* the messages handed over, and console input keeps its order.  A list is *)
(* a bijection from 1 .. n onto its messages; the list lemmas say what     *)
(* pushing, appending and popping do to that bijection.                    *)
(*                                                                         *)
(* The harts: no response goes unannounced, timers are kept, and only hart *)
(* 0 enters the operating system.  The three invariants are proved         *)
(* inductive one by one; each rests on the types of the variables that it  *)
(* reads.                                                                  *)
(***************************************************************************)
EXTENDS Sbi, FiniteSetTheorems, TLAPS

(* The lists.  The three ways in which mcall_dev_req, io_irq_service and    *)
(* mcall_dev_resp relink messages, for a list of the messages S.            *)

\* The order of a list counts its messages once.
LEMMA OrderFacts ==
  ASSUME NEW S, IsFiniteSet(S), NEW q \in Orders(S)
  PROVE  /\ Cardinality(S) \in Nat
         /\ q \in [1 .. Cardinality(S) -> S]
         /\ \A i, j \in 1 .. Cardinality(S) : q[i] = q[j] => i = j
         /\ \A x \in S : \E i \in 1 .. Cardinality(S) : q[i] = x
<1>1. Cardinality(S) \in Nat
  BY FS_CardinalityType
<1> QED
  BY <1>1 DEF Orders, Bijection, Injection, Surjection, IsInjective

\* A function that lists every element of S once is an order of S.
LEMMA IsOrder ==
  ASSUME NEW S, NEW n, n = Cardinality(S), NEW q \in [1 .. n -> S],
         \A i, j \in 1 .. n : q[i] = q[j] => i = j,
         \A x \in S : \E i \in 1 .. n : q[i] = x
  PROVE  q \in Orders(S)
BY DEF Orders, Bijection, Injection, Surjection, IsInjective

\* The empty list.
LEMMA ListEmpty ==
  ASSUME NEW link
  PROVE  /\ Cardinality({}) = 0
         /\ \E q \in Orders({}) : /\ Linked(link, q, NULL) /\ NULL = At(q, Cardinality({}))
                                  /\ DOMAIN q = {}
<1> DEFINE q == [i \in 1 .. 0 |-> NULL]
<1>1. Cardinality({}) = 0
  BY FS_EmptySet
<1>2. q \in [1 .. 0 -> {}] /\ DOMAIN q = {} /\ 1 .. 0 = {}
  OBVIOUS
<1> HIDE DEF q
<1>3. q \in Orders({})
  BY Zenon, <1>1, <1>2, IsOrder
<1>4. Linked(link, q, NULL) /\ NULL = At(q, Cardinality({}))
  BY <1>1, <1>2 DEF Linked, At
<1> QED
  BY <1>1, <1>2, <1>3, <1>4

\* mcall_dev_req puts a message before the others.
LEMMA ListPush ==
  ASSUME NEW S, IsFiniteSet(S), NEW m, m \notin S, NEW link, NEW link2, NEW head,
         NEW q \in Orders(S), Linked(link, q, head),
         link2[m] = head, \A x \in S : link2[x] = link[x]
  PROVE  \E p \in Orders(S \cup {m}) : Linked(link2, p, m)
<1> DEFINE n == Cardinality(S)
           p == [i \in 1 .. n + 1 |-> IF i = 1 THEN m ELSE q[i - 1]]
<1>1. n \in Nat /\ q \in [1 .. n -> S] /\ n + 1 = Cardinality(S \cup {m})
  BY OrderFacts, FS_AddElement
<1> HIDE DEF n
<1>2. p \in [1 .. n + 1 -> S \cup {m}]
  BY <1>1
<1>3. \A i, j \in 1 .. n + 1 : p[i] = p[j] => i = j
  <2>1. \A i, j \in 1 .. n : q[i] = q[j] => i = j
    BY OrderFacts DEF n
  <2>2. \A i \in 1 .. n + 1 : i # 1 => i - 1 \in 1 .. n /\ p[i] = q[i - 1] /\ p[i] # m
    BY <1>1
  <2>3. p[1] = m
    BY <1>1
  <2> HIDE DEF p
  <2> QED
    BY <1>1, <2>1, <2>2, <2>3
<1>4. \A x \in S \cup {m} : \E i \in 1 .. n + 1 : p[i] = x
  <2>1. p[1] = m /\ 1 \in 1 .. n + 1
    BY <1>1
  <2>2. ASSUME NEW x \in S PROVE \E i \in 1 .. n + 1 : p[i] = x
    <3>1. PICK i \in 1 .. n : q[i] = x
      BY OrderFacts DEF n
    <3>2. i + 1 \in 1 .. n + 1 /\ p[i + 1] = x
      BY <1>1, <3>1
    <3> QED
      BY <3>2
  <2> QED
    BY <2>1, <2>2
<1>5. p \in Orders(S \cup {m})
  <2> HIDE DEF p
  <2> QED
    BY Zenon, <1>1, <1>2, <1>3, <1>4, IsOrder
<1>6. Linked(link2, p, m)
  <2>1. DOMAIN p = 1 .. n + 1 /\ DOMAIN q = 1 .. n
    BY <1>1
  <2>2. m = At(p, 1)
    BY <1>1, <2>1 DEF At
  <2>3. ASSUME NEW i \in 1 .. n + 1 PROVE link2[p[i]] = At(p, i + 1)
    <3>1. CASE i = 1
      <4>1. head = At(p, 2)
        BY <1>1, <2>1 DEF Linked, At
      <4> QED
        BY <3>1, <4>1
    <3>2. CASE i # 1
      <4>1. i - 1 \in 1 .. n /\ p[i] = q[i - 1] /\ q[i - 1] \in S
        BY <1>1, <2>3, <3>2
      <4>2. link2[p[i]] = At(q, i)
        BY <4>1, <2>1 DEF Linked
      <4>3. At(q, i) = At(p, i + 1)
        BY <1>1, <2>1, <4>1 DEF At
      <4> QED
        BY <4>2, <4>3
    <3> QED
      BY <3>1, <3>2
  <2> QED
    BY Zenon, <2>1, <2>2, <2>3 DEF Linked
<1> QED
  BY <1>5, <1>6

\* The orders of a list of n messages with one more at its end, and without its first.
Longer(q, n, m) == [i \in 1 .. n + 1 |-> IF i = n + 1 THEN m ELSE q[i]]
Shorter(q, n) == [i \in 1 .. n - 1 |-> q[i + 1]]

\* dev_response, at the end of mcall_dev_req and of io_irq_service, puts a
\* message behind the others.
LEMMA ListAppend ==
  ASSUME NEW S, IsFiniteSet(S), S \subseteq Msgs, NEW m \in Msgs, m \notin S,
         NEW link, NEW link2, NEW head, NEW head2, NEW tail,
         NEW q \in Orders(S), Linked(link, q, head), tail = At(q, Cardinality(S)),
         link2[m] = NULL, \A x \in S : link2[x] = IF x = tail THEN m ELSE link[x],
         head2 = IF tail = NULL THEN m ELSE head
  PROVE  /\ Longer(q, Cardinality(S), m) \in Orders(S \cup {m})
         /\ Linked(link2, Longer(q, Cardinality(S), m), head2)
         /\ m = At(Longer(q, Cardinality(S), m), Cardinality(S \cup {m}))
<1> DEFINE n == Cardinality(S)
           p == Longer(q, n, m)
<1>1. /\ n \in Nat /\ q \in [1 .. n -> S] /\ n + 1 = Cardinality(S \cup {m})
      /\ \A i, j \in 1 .. n : q[i] = q[j] => i = j
      /\ \A x \in S : \E i \in 1 .. n : q[i] = x
  BY OrderFacts, FS_AddElement
<1>2. tail = At(q, n)
  OBVIOUS
<1> HIDE DEF n
<1>3. p \in [1 .. n + 1 -> S \cup {m}] /\ p[n + 1] = m /\ n + 1 \in 1 .. n + 1
  BY <1>1 DEF Longer
<1>4. \A i \in 1 .. n : p[i] = q[i] /\ p[i] \in S /\ i \in 1 .. n + 1
  BY <1>1 DEF Longer
<1> HIDE DEF p
<1>5. \A i \in 1 .. n + 1 : i = n + 1 \/ i \in 1 .. n
  BY <1>1
<1>6. p \in Orders(S \cup {m})
  <2>1. \A i, j \in 1 .. n + 1 : p[i] = p[j] => i = j
    BY <1>1, <1>3, <1>4, <1>5
  <2>2. \A x \in S \cup {m} : \E i \in 1 .. n + 1 : p[i] = x
    BY <1>1, <1>3, <1>4
  <2> QED
    BY ZenonT(40), <1>1, <1>3, <2>1, <2>2, IsOrder
<1>7. DOMAIN p = 1 .. n + 1 /\ DOMAIN q = 1 .. n
  BY <1>1, <1>3
<1>8. tail = NULL <=> n = 0
  <2>1. CASE n = 0
    BY <1>2, <1>7, <2>1 DEF At
  <2>2. CASE n # 0
    <3>1. n \in 1 .. n
      BY <1>1, <2>2
    <3> QED
      BY <1>1, <1>2, <1>7, <2>2, <3>1, SbiAssumption DEF At
  <2> QED
    BY <2>1, <2>2
<1>9. Linked(link2, p, head2)
  <2>1. head2 = At(p, 1)
    <3>1. CASE n = 0
      BY <1>3, <1>7, <1>8, <3>1 DEF At
    <3>2. CASE n # 0
      <4>1. 1 \in 1 .. n /\ 1 \in 1 .. n + 1
        BY <1>1, <3>2
      <4> QED
        BY <1>4, <1>7, <1>8, <3>2, <4>1 DEF At, Linked
    <3> QED
      BY <3>1, <3>2
  <2>2. ASSUME NEW i \in 1 .. n + 1 PROVE link2[p[i]] = At(p, i + 1)
    <3>1. CASE i = n + 1
      BY <1>1, <1>3, <1>7, <3>1 DEF At
    <3>2. CASE i \in 1 .. n /\ i # n
      <4>1. i + 1 \in 1 .. n /\ n \in 1 .. n
        BY <1>1, <3>2
      <4>2. q[i] # tail
        BY <1>1, <1>2, <1>7, <3>2, <4>1 DEF At
      <4>3. link2[q[i]] = q[i + 1]
        BY <1>1, <1>7, <3>2, <4>1, <4>2 DEF At, Linked
      <4> QED
        BY <1>4, <1>7, <3>2, <4>1, <4>3 DEF At
    <3>3. CASE i \in 1 .. n /\ i = n
      BY <1>1, <1>2, <1>3, <1>4, <1>7, <3>3 DEF At
    <3> QED
      BY <1>5, <3>1, <3>2, <3>3
  <2> QED
    BY <1>7, <2>1, <2>2 DEF Linked
<1>10. m = At(p, n + 1)
  BY <1>3, <1>7 DEF At
<1> QED
  BY Zenon, <1>1, <1>6, <1>9, <1>10 DEF n, p

\* io_irq_service and mcall_dev_resp take the first message.
LEMMA ListPop ==
  ASSUME NEW S, IsFiniteSet(S), S \subseteq Msgs, NEW link, NEW head,
         NEW q \in Orders(S), Linked(link, q, head), S # {} \/ head # NULL
  PROVE  /\ head \in S /\ q[1] = head
         /\ Cardinality(S) > 0 /\ Cardinality(S \ {head}) = Cardinality(S) - 1
         /\ Shorter(q, Cardinality(S)) \in Orders(S \ {head})
         /\ Linked(link, Shorter(q, Cardinality(S)), link[head])
         /\ At(Shorter(q, Cardinality(S)), Cardinality(S \ {head})) =
              IF link[head] = NULL THEN NULL ELSE At(q, Cardinality(S))
<1> DEFINE n == Cardinality(S)
           p == Shorter(q, n)
<1>1. /\ n \in Nat /\ q \in [1 .. n -> S] /\ DOMAIN q = 1 .. n
      /\ \A i, j \in 1 .. n : q[i] = q[j] => i = j
      /\ \A x \in S : \E i \in 1 .. n : q[i] = x
  BY OrderFacts
<1> HIDE DEF n
<1>2. n > 0 /\ 1 \in 1 .. n /\ n \in 1 .. n
  <2>1. CASE S # {}
    BY <1>1, <2>1
  <2>2. CASE head # NULL
    BY <1>1, <2>2 DEF Linked, At
  <2> QED
    BY <2>1, <2>2
<1>3. head = q[1] /\ head \in S
  BY <1>1, <1>2 DEF Linked, At
<1>4. n - 1 = Cardinality(S \ {head})
  BY Zenon, <1>3, FS_RemoveElement DEF n
<1>5. \A i \in 1 .. n - 1 : i + 1 \in 1 .. n /\ i + 1 # 1 /\ p[i] = q[i + 1] /\ p[i] \in S \ {head}
  <2> SUFFICES ASSUME NEW i \in 1 .. n - 1
               PROVE  i + 1 \in 1 .. n /\ i + 1 # 1 /\ p[i] = q[i + 1] /\ p[i] \in S \ {head}
    OBVIOUS
  <2>1. i + 1 \in 1 .. n /\ i + 1 # 1 /\ p[i] = q[i + 1]
    BY <1>1, <1>2 DEF Shorter
  <2> HIDE DEF p
  <2> QED
    BY <1>1, <1>2, <1>3, <2>1
<1>6. p \in [1 .. n - 1 -> S \ {head}] /\ DOMAIN p = 1 .. n - 1
  BY <1>5 DEF Shorter
<1> HIDE DEF p
<1>7. p \in Orders(S \ {head})
  <2>1. \A i, j \in 1 .. n - 1 : p[i] = p[j] => i = j
    <3> SUFFICES ASSUME NEW i \in 1 .. n - 1, NEW j \in 1 .. n - 1, p[i] = p[j] PROVE i = j
      OBVIOUS
    <3>1. i + 1 = j + 1
      BY <1>1, <1>5
    <3> QED
      BY <1>1, <3>1
  <2>2. ASSUME NEW x \in S \ {head} PROVE \E i \in 1 .. n - 1 : p[i] = x
    <3>1. PICK j \in 1 .. n : q[j] = x
      BY <1>1
    <3>2. j - 1 \in 1 .. n - 1 /\ (j - 1) + 1 = j
      BY <1>1, <1>3, <3>1, <2>2
    <3> QED
      BY <1>5, <3>1, <3>2
  <2> QED
    BY Zenon, <1>4, <1>6, <2>1, <2>2, IsOrder
<1>8. \A i \in 1 .. n : At(q, i + 1) = At(p, i)
  <2> SUFFICES ASSUME NEW i \in 1 .. n PROVE At(q, i + 1) = At(p, i)
    OBVIOUS
  <2>1. CASE i \in 1 .. n - 1
    BY <1>1, <1>5, <1>6, <2>1 DEF At
  <2>2. CASE i = n
    <3>1. i + 1 \notin 1 .. n /\ i \notin 1 .. n - 1
      BY <1>1, <2>2
    <3> QED
      BY <1>1, <1>6, <3>1 DEF At
  <2>3. i \in 1 .. n - 1 \/ i = n
    BY <1>1
  <2> QED
    BY <2>1, <2>2, <2>3
<1>9. Linked(link, p, link[head])
  <2>1. link[head] = At(p, 1)
    BY <1>1, <1>2, <1>3, <1>8 DEF Linked
  <2>2. ASSUME NEW i \in 1 .. n - 1 PROVE link[p[i]] = At(p, i + 1)
    <3>1. link[p[i]] = link[q[i + 1]]
      BY <1>5
    <3>2. link[q[i + 1]] = At(q, (i + 1) + 1)
      BY <1>1, <1>5 DEF Linked
    <3>3. At(q, (i + 1) + 1) = At(p, i + 1)
      BY <1>5, <1>8
    <3> QED
      BY <3>1, <3>2, <3>3
  <2> QED
    BY <1>6, <2>1, <2>2 DEF Linked
<1>10. link[head] = NULL <=> n = 1
  <2>1. link[head] = At(p, 1)
    BY <1>1, <1>2, <1>3, <1>8 DEF Linked
  <2>2. CASE n = 1
    <3>1. 1 \notin 1 .. n - 1
      BY <2>2
    <3> QED
      BY <1>6, <2>1, <2>2, <3>1 DEF At
  <2>3. CASE n # 1
    <3>1. 1 \in 1 .. n - 1
      BY <1>1, <1>2, <2>3
    <3> QED
      BY <1>5, <1>6, <2>1, <2>3, <3>1, SbiAssumption DEF At
  <2> QED
    BY <2>2, <2>3
<1>11. n # 1 => At(p, n - 1) = At(q, n)
  <2> SUFFICES ASSUME n # 1 PROVE At(p, n - 1) = At(q, n)
    OBVIOUS
  <2>1. n - 1 \in 1 .. n /\ (n - 1) + 1 = n
    BY <1>1, <1>2
  <2> QED
    BY <1>8, <2>1
<1>12. n = 1 => At(p, n - 1) = NULL
  BY <1>6 DEF At
<1>13. At(p, Cardinality(S \ {head})) = IF link[head] = NULL THEN NULL ELSE At(q, n)
  BY <1>4, <1>10, <1>11, <1>12
<1> QED
  BY <1>2, <1>3, <1>4, <1>7, <1>9, <1>13 DEF n, p

-----------------------------------------------------------------------------
(* Queues and console input.                                                *)

ListTypes ==
  /\ where \in [Msgs -> {"os", "req", "rsp"}]
  /\ sbi_private_data \in [Msgs -> Msgs \cup {NULL}]
  /\ data \in [Msgs -> Nat]
  /\ got \in Seq(Nat) /\ rx \in Nat /\ received \in Nat

\* The list of requests, as mcall_dev_req and io_irq_service keep it.
ReqInv ==
  /\ \E q \in Orders(In("req")) : Linked(sbi_private_data, q, device_request_queue_head)
  /\ device_request_queue_size = Cardinality(In("req"))

\* The characters in a list of messages are in the order of their arrival.
Sorted(d, q) ==
  \A i, j \in DOMAIN q : i < j /\ d[q[i]] # 0 /\ d[q[j]] # 0 => d[q[i]] < d[q[j]]

\* The list of responses, with the characters in it.
RspInv ==
  \E q \in Orders(In("rsp")) :
    /\ Linked(sbi_private_data, q, device_response_queue_head)
    /\ device_response_queue_tail = At(q, Cardinality(In("rsp")))
    /\ Sorted(data, q)

\* A character is with the operating system, in a response or in the register.
Held(c) == (\E i \in DOMAIN got : got[i] = c) \/ (\E m \in In("rsp") : data[m] = c) \/ rx = c

\* What the operating system has came before what is in the responses, and that
\* before what is in the register; and what was not overrun is somewhere.
CharInv ==
  /\ \A i, j \in DOMAIN got : i < j => got[i] < got[j]
  /\ \A i \in DOMAIN got : got[i] # 0
  /\ \A i \in DOMAIN got, m \in In("rsp") : data[m] # 0 => got[i] < data[m]
  /\ rx # 0 => /\ \A i \in DOMAIN got : got[i] < rx
               /\ \A m \in In("rsp") : data[m] < rx
  /\ \A c \in Nat \ {0} : Held(c) <=> c <= received /\ c \notin lost
  /\ \A c \in lost : c \in Nat /\ c <= received

ListInv == ListTypes /\ ReqInv /\ RspInv /\ CharInv

\* Both lists are finite, and no message is in both.
LEMMA InFacts ==
  ASSUME NEW place PROVE IsFiniteSet(In(place)) /\ In(place) \subseteq Msgs
<1>1. In(place) \in SUBSET Msgs
  BY DEF In
<1> QED
  BY <1>1, FS_Subset, SbiAssumption

\* At the start both lists are empty and no character has arrived.
LEMMA ListInvInit == SbiInit => ListInv
<1> SUFFICES ASSUME SbiInit PROVE ListInv
  OBVIOUS
<1>1. ListTypes
  BY DEF SbiInit, ListTypes
<1>2. In("req") = {} /\ In("rsp") = {}
  BY DEF SbiInit, In
<1>3. ReqInv
  BY Zenon, <1>2, ListEmpty DEF SbiInit, ReqInv
<1>4. RspInv
  <2>1. PICK q \in Orders({}) : /\ Linked(sbi_private_data, q, NULL) /\ NULL = At(q, Cardinality({}))
                               /\ DOMAIN q = {}
    BY ListEmpty
  <2>2. Sorted(data, q)
    BY <2>1 DEF Sorted
  <2> QED
    BY Zenon, <1>2, <2>1, <2>2 DEF SbiInit, RspInv
<1>5. CharInv
  BY <1>2 DEF SbiInit, CharInv, Held
<1> QED
  BY <1>1, <1>3, <1>4, <1>5 DEF ListInv

\* The steps that are not about messages or characters leave both alone.
LEMMA OthersKeepLists ==
  ASSUME [SbiNext]_sbiVars, ~\E m \in Msgs : mcall_dev_req_now(m) \/ mcall_dev_req_read(m),
         ~mcall_dev_resp, ~io_irq_service, ~UartReceives
  PROVE  UNCHANGED <<sbi_private_data, data, device_request_queue_head, device_request_queue_size,
                     device_response_queue_head, device_response_queue_tail, where, got,
                     rx, received, lost>>
<1> USE DEF devVars, listVars, uartVars, reqVars, rspVars
<1>1. CASE init_first_hart \/ run_loaded_program
  BY <1>1 DEF init_first_hart, run_loaded_program
<1>2. ASSUME NEW h \in Harts, Boot(h) \/ Ipi(h)
      PROVE  UNCHANGED devVars
  BY <1>2 DEF Boot, machine_init, init_other_hart, Ipi, mcall_send_ipi, mcall_clear_ipi
<1>3. ASSUME NEW h \in Harts, Timer(h) \/ mcall_shutdown(h)
      PROVE  UNCHANGED devVars
  BY <1>3 DEF Timer, mcall_set_timer, TimeReached, Interrupt_timer, mcall_shutdown
<1>4. CASE Devices
  BY <1>4 DEF Devices, mcall_dev_req_panic
<1>5. CASE UNCHANGED sbiVars
  BY <1>5 DEF sbiVars
<1> QED BY <1>1, <1>2, <1>3, <1>4, <1>5 DEF SbiNext

\* A message with data x, which is 0 or the character in the register, joins the
\* responses behind the others; it was in no response before.
LEMMA RespondKeeps ==
  ASSUME ListInv, NEW m \in Msgs, where[m] # "rsp", Respond(m), NEW x \in {0, rx},
         data' = [data EXCEPT ![m] = x], UNCHANGED <<got, received, lost>>,
         rx' = IF x = 0 THEN rx ELSE 0
  PROVE  RspInv' /\ CharInv' /\ ListTypes'
<1> USE DEF ListInv
<1>1. /\ In("rsp")' = In("rsp") \cup {m} /\ m \notin In("rsp")
      /\ \A y \in In("rsp") : y \in Msgs /\ data'[y] = data[y]
      /\ data'[m] = x
  BY DEF ListTypes, In, Respond
<1>2. ListTypes'
  BY DEF ListTypes, Respond
<1>3. PICK q \in Orders(In("rsp")) :
        /\ Linked(sbi_private_data, q, device_response_queue_head)
        /\ device_response_queue_tail = At(q, Cardinality(In("rsp")))
        /\ Sorted(data, q)
  BY DEF RspInv
<1> DEFINE n == Cardinality(In("rsp"))
           p == Longer(q, n, m)
<1>4. /\ p \in Orders(In("rsp") \cup {m})
      /\ Linked(sbi_private_data', p, device_response_queue_head')
      /\ device_response_queue_tail' = At(p, Cardinality(In("rsp") \cup {m}))
  <2>1. /\ sbi_private_data'[m] = NULL
        /\ \A y \in In("rsp") : sbi_private_data'[y] =
               IF y = device_response_queue_tail THEN m ELSE sbi_private_data[y]
    <3>1. m # device_response_queue_tail
      <4>1. q \in [1 .. Cardinality(In("rsp")) -> In("rsp")]
        BY OrderFacts, InFacts
      <4> QED
        BY <1>1, <1>3, <4>1, SbiAssumption DEF At
    <3> QED
      BY <1>1, <3>1 DEF Respond
  <2>2. /\ device_response_queue_head' =
             IF device_response_queue_tail = NULL THEN m ELSE device_response_queue_head
        /\ device_response_queue_tail' = m
    BY DEF Respond
  <2>3. IsFiniteSet(In("rsp")) /\ In("rsp") \subseteq Msgs
    BY InFacts
  <2>4. /\ p \in Orders(In("rsp") \cup {m})
        /\ Linked(sbi_private_data', p, device_response_queue_head')
        /\ m = At(p, Cardinality(In("rsp") \cup {m}))
    <3> DEFINE S == In("rsp")
               link == sbi_private_data
               link2 == sbi_private_data'
               head == device_response_queue_head
               head2 == device_response_queue_head'
               tail == device_response_queue_tail
    <3>1. /\ m \notin S /\ Linked(link, q, head) /\ tail = At(q, Cardinality(S))
          /\ link2[m] = NULL /\ head2 = IF tail = NULL THEN m ELSE head
          /\ IsFiniteSet(S) /\ S \subseteq Msgs
      BY <1>1, <1>3, <2>1, <2>2, <2>3
    <3>2. \A y \in S : link2[y] = IF y = tail THEN m ELSE link[y]
      BY <2>1
    <3>3. q \in Orders(S)
      OBVIOUS
    <3> HIDE DEF S, link, link2, head, head2, tail
    <3>4. /\ Longer(q, Cardinality(S), m) \in Orders(S \cup {m})
          /\ Linked(link2, Longer(q, Cardinality(S), m), head2)
          /\ m = At(Longer(q, Cardinality(S), m), Cardinality(S \cup {m}))
      BY <3>1, <3>2, <3>3, ListAppend
    <3> QED
      BY <3>4 DEF S, link2, head2
  <2> QED
    BY <2>2, <2>4
<1>5. n \in Nat /\ q \in [1 .. n -> In("rsp")]
  BY OrderFacts, InFacts
<1> HIDE DEF n
<1>6. Sorted(data', p)
  <2>1. /\ DOMAIN p = 1 .. n + 1 /\ DOMAIN q = 1 .. n /\ p[n + 1] = m
        /\ \A i \in 1 .. n : p[i] = q[i] /\ q[i] \in In("rsp")
    BY <1>5 DEF Longer
  <2> HIDE DEF p
  <2> SUFFICES ASSUME NEW i \in 1 .. n + 1, NEW j \in 1 .. n + 1, i < j,
                      data'[p[i]] # 0, data'[p[j]] # 0
               PROVE  data'[p[i]] < data'[p[j]]
    BY <2>1 DEF Sorted
  <2>2. i \in 1 .. n /\ (j = n + 1 \/ j \in 1 .. n)
    BY <1>5
  <2>3. CASE j = n + 1
    BY <1>1, <2>1, <2>2, <2>3 DEF CharInv
  <2>4. CASE j \in 1 .. n
    BY <1>1, <1>3, <2>1, <2>2, <2>4 DEF Sorted
  <2> QED
    BY Zenon, <2>2, <2>3, <2>4
<1>7. RspInv'
  BY <1>1, <1>4, <1>6 DEF RspInv
<1>8. CharInv'
  <2>1. \A c \in Nat \ {0} : Held(c)' <=> Held(c)
    BY <1>1 DEF Held
  <2> HIDE DEF Held
  <2>2. \A y \in In("rsp")' : data'[y] = x \/ (y \in In("rsp") /\ data'[y] = data[y])
    BY <1>1
  <2> QED
    BY <2>1, <2>2 DEF CharInv, ListTypes
<1> QED
  BY <1>2, <1>7, <1>8

\* A list whose messages keep their links stays a list.
LEMMA ListFrame ==
  ASSUME NEW S, IsFiniteSet(S), NEW q \in Orders(S), NEW link, NEW link2, NEW head,
         Linked(link, q, head), \A x \in S : link2[x] = link[x]
  PROVE  Linked(link2, q, head)
<1>1. q \in [1 .. Cardinality(S) -> S]
  BY OrderFacts
<1> QED
  BY <1>1 DEF Linked

\* A response relinks no request.
LEMMA RespondFrame ==
  ASSUME ListInv, NEW m \in Msgs, Respond(m)
  PROVE  /\ \A x \in In("req") \ {m} : sbi_private_data'[x] = sbi_private_data[x]
         /\ where' = [where EXCEPT ![m] = "rsp"]
<1>1. PICK q \in Orders(In("rsp")) : device_response_queue_tail = At(q, Cardinality(In("rsp")))
  BY DEF ListInv, RspInv
<1>2. q \in [1 .. Cardinality(In("rsp")) -> In("rsp")]
  BY OrderFacts, InFacts
<1>3. device_response_queue_tail \notin In("req")
  BY <1>1, <1>2, SbiAssumption DEF At, In
<1>4. \A x \in In("req") : x \in Msgs
  BY DEF In
<1> QED
  BY <1>3, <1>4 DEF Respond

\* A message that is answered in the call.
LEMMA ReqNowKeeps ==
  ASSUME ListInv, NEW m \in Msgs, mcall_dev_req_now(m) PROVE ListInv'
<1>1. Respond(m) /\ where[m] = "os" /\ data' = [data EXCEPT ![m] = 0]
      /\ UNCHANGED <<got, received, lost, rx, device_request_queue_head, device_request_queue_size>>
  BY DEF mcall_dev_req_now, reqVars, uartVars
<1>2. RspInv' /\ CharInv' /\ ListTypes'
  BY Zenon, <1>1, RespondKeeps
<1>3. In("req")' = In("req") /\ m \notin In("req")
  BY <1>1, RespondFrame DEF In, ListInv, ListTypes
<1>4. \A x \in In("req") : sbi_private_data'[x] = sbi_private_data[x]
  BY <1>1, <1>3, RespondFrame
<1>5. ReqInv'
  <2>1. PICK q \in Orders(In("req")) : Linked(sbi_private_data, q, device_request_queue_head)
    BY DEF ListInv, ReqInv
  <2>2. Linked(sbi_private_data', q, device_request_queue_head)
    BY <1>4, <2>1, ListFrame, InFacts
  <2> QED
    BY <1>1, <1>3, <2>2 DEF ListInv, ReqInv
<1> QED
  BY <1>2, <1>5 DEF ListInv

\* A read that is queued.
LEMMA ReqReadKeeps ==
  ASSUME ListInv, NEW m \in Msgs, mcall_dev_req_read(m) PROVE ListInv'
<1> USE DEF ListInv
<1>1. /\ where[m] = "os" /\ where' = [where EXCEPT ![m] = "req"]
      /\ sbi_private_data' = [sbi_private_data EXCEPT ![m] = device_request_queue_head]
      /\ device_request_queue_head' = m
      /\ device_request_queue_size' = device_request_queue_size + 1
      /\ UNCHANGED <<data, got, received, lost, rx,
                     device_response_queue_head, device_response_queue_tail>>
  BY DEF mcall_dev_req_read, rspVars
<1>2. /\ In("req")' = In("req") \cup {m} /\ m \notin In("req")
      /\ In("rsp")' = In("rsp") /\ m \notin In("rsp")
  BY <1>1 DEF In, ListTypes
<1>3. /\ sbi_private_data'[m] = device_request_queue_head
      /\ \A x \in In("req") \cup In("rsp") : sbi_private_data'[x] = sbi_private_data[x]
  BY <1>1, <1>2 DEF In, ListTypes
<1>4. PICK q \in Orders(In("req")) : Linked(sbi_private_data, q, device_request_queue_head)
  BY DEF ReqInv
<1>5. device_request_queue_head \in Msgs \cup {NULL}
  <2>1. q \in [1 .. Cardinality(In("req")) -> In("req")]
    BY OrderFacts, InFacts
  <2> QED
    BY <1>4, <2>1 DEF Linked, At, In
<1>6. ReqInv'
  <2>1. \E p \in Orders(In("req") \cup {m}) : Linked(sbi_private_data', p, m)
    BY <1>2, <1>3, <1>4, ListPush, InFacts
  <2>2. Cardinality(In("req") \cup {m}) = Cardinality(In("req")) + 1
    BY ZenonT(40), <1>2, InFacts, FS_AddElement
  <2> QED
    BY <1>1, <1>2, <2>1, <2>2 DEF ReqInv
<1>7. RspInv'
  <2>1. PICK p \in Orders(In("rsp")) :
          /\ Linked(sbi_private_data, p, device_response_queue_head)
          /\ device_response_queue_tail = At(p, Cardinality(In("rsp")))
          /\ Sorted(data, p)
    BY DEF RspInv
  <2>2. Linked(sbi_private_data', p, device_response_queue_head)
    BY ZenonT(40), <1>3, <2>1, ListFrame, InFacts
  <2> QED
    BY <1>1, <1>2, <2>1, <2>2 DEF RspInv
<1>8. CharInv'
  BY <1>1, <1>2 DEF CharInv, Held
<1>9. ListTypes'
  BY <1>1, <1>5 DEF ListTypes
<1> QED
  BY <1>6, <1>7, <1>8, <1>9

\* A character of the UART answers the first request.
LEMMA IrqKeeps ==
  ASSUME ListInv, io_irq_service PROVE ListInv'
<1> USE DEF ListInv
<1> DEFINE m == device_request_queue_head
<1>1. CASE device_request_queue_size = 0
  BY ZenonT(40), <1>1 DEF io_irq_service, reqVars, rspVars, ReqInv, RspInv, CharInv, ListTypes, In, Held
<1>2. CASE device_request_queue_size # 0
  <2>1. /\ data' = [data EXCEPT ![m] = rx] /\ rx' = 0 /\ rx # 0
        /\ device_request_queue_head' = sbi_private_data[m]
        /\ device_request_queue_size' = device_request_queue_size - 1
        /\ Respond(m) /\ UNCHANGED <<got, received, lost>>
    BY Zenon, <1>2 DEF io_irq_service
  <2>2. PICK q \in Orders(In("req")) : Linked(sbi_private_data, q, m)
    BY DEF ReqInv
  <2>3. In("req") # {}
    BY <1>2, FS_EmptySet DEF ReqInv
  <2>4. m \in In("req")
    BY Zenon, <2>2, <2>3, ListPop, InFacts
  <2>5. m \in Msgs /\ where[m] = "req"
    BY <2>4 DEF In
  <2> HIDE DEF m
  <2>6. /\ Shorter(q, Cardinality(In("req"))) \in Orders(In("req") \ {m})
        /\ Linked(sbi_private_data', Shorter(q, Cardinality(In("req"))), sbi_private_data[m])
        /\ Cardinality(In("req") \ {m}) = Cardinality(In("req")) - 1
    <3>1. IsFiniteSet(In("req")) /\ In("req") \subseteq Msgs
      BY InFacts
    <3>2. /\ Shorter(q, Cardinality(In("req"))) \in Orders(In("req") \ {m})
          /\ Linked(sbi_private_data, Shorter(q, Cardinality(In("req"))), sbi_private_data[m])
          /\ Cardinality(In("req") \ {m}) = Cardinality(In("req")) - 1
      BY Zenon, <2>2, <2>3, <3>1, ListPop
    <3>3. IsFiniteSet(In("req") \ {m})
      BY <3>1, FS_RemoveElement
    <3>4. \A x \in In("req") \ {m} : sbi_private_data'[x] = sbi_private_data[x]
      BY <2>1, <2>5, RespondFrame
    <3> QED
      BY Zenon, <3>2, <3>3, <3>4, ListFrame
  <2>7. In("req")' = In("req") \ {m}
    BY <2>1, <2>5, RespondFrame DEF In, ListTypes
  <2>8. ReqInv'
    BY <2>1, <2>6, <2>7 DEF ReqInv, m
  <2>9. RspInv' /\ CharInv' /\ ListTypes'
    BY Zenon, <2>1, <2>5, RespondKeeps
  <2> QED
    BY <2>8, <2>9
<1> QED
  BY <1>1, <1>2

\* The first response goes to the operating system.
LEMMA RespKeeps ==
  ASSUME ListInv, mcall_dev_resp PROVE ListInv'
<1> USE DEF ListInv
<1> DEFINE m == device_response_queue_head
           n == Cardinality(In("rsp"))
<1>1. CASE m = NULL
  BY ZenonT(40), <1>1 DEF mcall_dev_resp, listVars, uartVars, reqVars, rspVars, ReqInv, RspInv, CharInv,
              ListTypes, In, Held
<1>2. CASE m # NULL
  <2>1. /\ device_response_queue_head' = sbi_private_data[m]
        /\ where' = [where EXCEPT ![m] = "os"]
        /\ got' = IF data[m] = 0 THEN got ELSE Append(got, data[m])
        /\ device_response_queue_tail' = IF sbi_private_data[m] = NULL THEN NULL
                                         ELSE device_response_queue_tail
        /\ UNCHANGED <<sbi_private_data, data, rx, received, lost,
                       device_request_queue_head, device_request_queue_size>>
    BY <1>2 DEF mcall_dev_resp, reqVars, uartVars
  <2>2. PICK q \in Orders(In("rsp")) :
          /\ Linked(sbi_private_data, q, m)
          /\ device_response_queue_tail = At(q, n)
          /\ Sorted(data, q)
    BY DEF RspInv
  <2>3. /\ m \in In("rsp") /\ q[1] = m /\ n > 0
        /\ Shorter(q, n) \in Orders(In("rsp") \ {m})
        /\ Linked(sbi_private_data, Shorter(q, n), sbi_private_data[m])
        /\ At(Shorter(q, n), Cardinality(In("rsp") \ {m})) =
             IF sbi_private_data[m] = NULL THEN NULL ELSE At(q, n)
    <3>1. IsFiniteSet(In("rsp")) /\ In("rsp") \subseteq Msgs
      BY InFacts
    <3> DEFINE S == In("rsp")
               link == sbi_private_data
    <3>2. Linked(link, q, m) /\ IsFiniteSet(S) /\ S \subseteq Msgs /\ q \in Orders(S)
      BY <2>2, <3>1
    <3> HIDE DEF S, link, m
    <3>3. /\ m \in S /\ q[1] = m
          /\ Cardinality(S) > 0 /\ Cardinality(S \ {m}) = Cardinality(S) - 1
          /\ Shorter(q, Cardinality(S)) \in Orders(S \ {m})
          /\ Linked(link, Shorter(q, Cardinality(S)), link[m])
          /\ At(Shorter(q, Cardinality(S)), Cardinality(S \ {m})) =
               IF link[m] = NULL THEN NULL ELSE At(q, Cardinality(S))
      BY ZenonT(40), <1>2, <3>2, ListPop
    <3> QED
      BY Zenon, <3>3 DEF S, link
  <2>4. n \in Nat /\ q \in [1 .. n -> In("rsp")] /\ \A x \in In("rsp") : \E i \in 1 .. n : q[i] = x
    BY <2>2, OrderFacts, InFacts
  <2> HIDE DEF m, n
  <2>5. /\ In("rsp")' = In("rsp") \ {m} /\ In("req")' = In("req")
        /\ m \in Msgs /\ data[m] \in Nat /\ \A x \in In("rsp") : data[x] \in Nat
    BY <2>1, <2>3 DEF In, ListTypes
  <2>6. ReqInv'
    BY <2>1, <2>5 DEF ReqInv
  <2>7. Sorted(data, Shorter(q, n))
    <3> SUFFICES ASSUME NEW i \in 1 .. n - 1, NEW j \in 1 .. n - 1, i < j,
                        data[q[i + 1]] # 0, data[q[j + 1]] # 0
                 PROVE  data[q[i + 1]] < data[q[j + 1]]
      BY DEF Sorted, Shorter
    <3>1. i + 1 \in DOMAIN q /\ j + 1 \in DOMAIN q /\ i + 1 < j + 1
      BY <2>4
    <3> QED
      BY <2>2, <3>1 DEF Sorted
  <2>8. RspInv'
    BY ZenonT(40), <2>1, <2>2, <2>3, <2>5, <2>7 DEF RspInv, m
  <2>9. ASSUME data[m] # 0, NEW x \in In("rsp") \ {m}, data[x] # 0 PROVE data[m] < data[x]
    <3>1. PICK j \in 1 .. n : q[j] = x
      BY <2>4
    <3>2. 1 < j /\ 1 \in DOMAIN q /\ j \in DOMAIN q
      BY <2>3, <2>4, <3>1
    <3> QED
      BY ZenonT(40), <2>2, <2>3, <2>9, <3>1, <3>2 DEF Sorted
  <2>10. got' \in Seq(Nat)
    BY <2>1, <2>5 DEF ListTypes
  <2>11. ListTypes'
    BY <2>1, <2>5, <2>10 DEF ListTypes
  <2>12. CharInv'
    <3>1. CASE data[m] = 0
      <4>1. got' = got /\ \A c \in Nat \ {0} : Held(c)' <=> Held(c)
        BY ZenonT(40), <2>1, <2>5, <3>1 DEF Held
      <4> QED
        BY ZenonT(40), <2>1, <2>5, <4>1 DEF CharInv
    <3>2. CASE data[m] # 0
      <4> DEFINE k == Len(got)
      <4>1. /\ k \in Nat /\ DOMAIN got = 1 .. k /\ DOMAIN got' = 1 .. k + 1
            /\ \A i \in 1 .. k : got'[i] = got[i] /\ got[i] \in Nat
            /\ got'[k + 1] = data[m]
        BY <2>1, <2>5, <3>2 DEF ListTypes
      <4> HIDE DEF k
      <4>2. \A i \in 1 .. k + 1 : i = k + 1 \/ i \in 1 .. k
        BY <4>1
      <4>3. \A c \in Nat \ {0} : Held(c)' <=> Held(c)
        <5> SUFFICES ASSUME NEW c \in Nat \ {0} PROVE Held(c)' <=> Held(c)
          OBVIOUS
        <5>1. (\E i \in DOMAIN got' : got'[i] = c) <=> (\E i \in DOMAIN got : got[i] = c) \/ data[m] = c
          <6>1. k + 1 \in 1 .. k + 1 /\ \A i \in 1 .. k : i \in 1 .. k + 1
            BY <4>1
          <6> QED
            BY <4>1, <4>2, <6>1
        <5>2. (\E x \in In("rsp") : data[x] = c) <=> (\E x \in In("rsp") \ {m} : data[x] = c) \/ data[m] = c
          BY <2>3
        <5> QED
          BY <2>1, <2>5, <5>1, <5>2 DEF Held
      <4>4. \A i, j \in 1 .. k + 1 : i < j => got'[i] < got'[j]
        <5> SUFFICES ASSUME NEW i \in 1 .. k + 1, NEW j \in 1 .. k + 1, i < j PROVE got'[i] < got'[j]
          OBVIOUS
        <5>1. i \in 1 .. k
          BY <4>1
        <5> QED
          BY ZenonT(40), <2>3, <3>2, <4>1, <4>2, <5>1 DEF CharInv
      <4>5. \A i \in 1 .. k + 1 : got'[i] # 0
        BY <3>2, <4>1, <4>2 DEF CharInv
      <4>6. \A i \in 1 .. k + 1, x \in In("rsp") \ {m} : data[x] # 0 => got'[i] < data[x]
        BY <2>9, <3>2, <4>1, <4>2 DEF CharInv
      <4>7. rx # 0 => \A i \in 1 .. k + 1 : got'[i] < rx
        BY Zenon, <2>3, <4>1, <4>2 DEF CharInv
      <4> HIDE DEF Held
      <4> QED
        BY ZenonT(40), <2>1, <2>5, <4>1, <4>3, <4>4, <4>5, <4>6, <4>7 DEF CharInv
    <3> QED
      BY <3>1, <3>2
  <2> QED
    BY <2>6, <2>8, <2>11, <2>12
<1> QED
  BY <1>1, <1>2

\* A character arrives; one that was not read is lost.
LEMMA ReceiveKeeps ==
  ASSUME ListInv, UartReceives PROVE ListInv'
<1> USE DEF ListInv
<1>1. /\ received' = received + 1 /\ rx' = received + 1
      /\ lost' = IF rx = 0 THEN lost ELSE lost \cup {rx}
      /\ UNCHANGED <<sbi_private_data, data, where, got, device_request_queue_head,
                     device_request_queue_size, device_response_queue_head,
                     device_response_queue_tail>>
  BY DEF UartReceives, listVars, reqVars, rspVars
<1>2. ReqInv' /\ RspInv' /\ ListTypes' /\ In("rsp")' = In("rsp")
  <2>1. In("req")' = In("req") /\ In("rsp")' = In("rsp")
    BY <1>1 DEF In
  <2>2. ListTypes'
    BY <1>1 DEF ListTypes
  <2> QED
    BY <1>1, <2>1, <2>2 DEF ReqInv, RspInv
<1>3. received \in Nat /\ rx \in Nat
  BY DEF ListTypes
<1>4. \A i \in DOMAIN got : got[i] \in Nat \ {0}
  BY DEF ListTypes, CharInv
<1>5. \A x \in In("rsp") : data[x] \in Nat
  BY DEF ListTypes, In
<1>6. \A i \in DOMAIN got : got[i] <= received
  BY <1>4 DEF CharInv, Held
<1>7. \A x \in In("rsp") : data[x] <= received
  BY <1>3, <1>5 DEF CharInv, Held
<1>8. rx <= received
  BY <1>3 DEF CharInv, Held
<1>9. \A c \in Nat \ {0} : Held(c)' <=> c <= received + 1 /\ c \notin lost'
  <2> SUFFICES ASSUME NEW c \in Nat \ {0} PROVE Held(c)' <=> c <= received + 1 /\ c \notin lost'
    OBVIOUS
  <2>1. Held(c)' <=> (\E i \in DOMAIN got : got[i] = c) \/ (\E x \in In("rsp") : data[x] = c)
                       \/ received + 1 = c
    BY <1>1, <1>2 DEF Held
  <2>2. CASE c = received + 1
    BY <1>1, <1>3, <1>8, <2>1, <2>2 DEF CharInv
  <2>3. CASE c # received + 1 /\ c = rx
    BY <1>1, <1>3, <1>4, <1>5, <2>1, <2>3 DEF CharInv
  <2>4. CASE c # received + 1 /\ c # rx
    <3>1. Held(c)' <=> Held(c)
      BY <2>1, <2>4 DEF Held
    <3>2. c <= received + 1 /\ c \notin lost' <=> c <= received /\ c \notin lost
      BY <1>1, <1>3, <2>4
    <3> QED
      BY <3>1, <3>2 DEF CharInv
  <2> QED
    BY <2>2, <2>3, <2>4
<1>10. \A c \in lost' : c \in Nat /\ c <= received + 1
  BY <1>1, <1>3, <1>8 DEF CharInv
<1>11. CharInv'
  BY <1>1, <1>2, <1>3, <1>4, <1>5, <1>6, <1>7, <1>9, <1>10 DEF CharInv
<1> QED
  BY <1>2, <1>11

\* The lists and the characters are right after every step.
LEMMA ListInvStep == ListInv /\ [SbiNext]_sbiVars => ListInv'
<1> SUFFICES ASSUME ListInv, [SbiNext]_sbiVars PROVE ListInv'
  OBVIOUS
<1>1. ASSUME NEW m \in Msgs, mcall_dev_req_now(m) \/ mcall_dev_req_read(m) PROVE ListInv'
  BY <1>1, ReqNowKeeps, ReqReadKeeps
<1>2. CASE mcall_dev_resp
  BY <1>2, RespKeeps
<1>3. CASE io_irq_service
  BY <1>3, IrqKeeps
<1>4. CASE UartReceives
  BY <1>4, ReceiveKeeps
<1>5. CASE UNCHANGED <<sbi_private_data, data, device_request_queue_head, device_request_queue_size,
                       device_response_queue_head, device_response_queue_tail, where, got,
                       rx, received, lost>>
  BY Zenon, <1>5 DEF ListInv, ListTypes, ReqInv, RspInv, CharInv, In, Held
<1> QED
  BY <1>1, <1>2, <1>3, <1>4, <1>5, OthersKeepLists

\* Whatever the number of messages, the two lists hold exactly the messages that
\* the operating system handed over and did not get back; size and tail agree.
THEOREM QueuesAreSound == SbiSpec => []QueuesSound
<1>1. ListInv => QueuesSound
  BY DEF ListInv, ReqInv, RspInv, QueuesSound
<1> QED
  BY <1>1, ListInvInit, ListInvStep, PTL DEF SbiSpec

\* What a concatenation holds, and where.
LEMMA Concat ==
  ASSUME NEW s \in Seq(Nat), NEW t \in Seq(Nat)
  PROVE  /\ s \o t \in Seq(Nat) /\ Len(s \o t) = Len(s) + Len(t)
         /\ \A i \in 1 .. Len(s) + Len(t) :
              (s \o t)[i] = IF i <= Len(s) THEN s[i] ELSE t[i - Len(s)]
OBVIOUS

\* Console input reaches the operating system in order and once, whatever the
\* number of messages and characters.
THEOREM CharsAreInOrder == SbiSpec => []CharsInOrder
<1>1. ListInv => CharsInOrder
  <2> SUFFICES ASSUME ListInv PROVE CharsInOrder
    OBVIOUS
  <2> USE DEF ListInv
  <2>1. PICK q \in Orders(In("rsp")) :
          Linked(sbi_private_data, q, device_response_queue_head) /\ Sorted(data, q)
    BY DEF RspInv
  <2> DEFINE n == Cardinality(In("rsp"))
             k == Len(got)
             answered == [i \in DOMAIN q |-> data[q[i]]]
             stream == (got \o answered) \o <<rx>>
  <2>2. /\ n \in Nat /\ q \in [1 .. n -> In("rsp")] /\ DOMAIN q = 1 .. n
        /\ \A x \in In("rsp") : \E i \in 1 .. n : q[i] = x
    BY OrderFacts, InFacts
  <2> HIDE DEF n
  <2>3. \A i \in 1 .. n : q[i] \in In("rsp") /\ data[q[i]] \in Nat
    BY <2>2 DEF ListTypes, In
  <2>4. answered \in Seq(Nat) /\ Len(answered) = n /\ \A i \in 1 .. n : answered[i] = data[q[i]]
    BY <2>2, <2>3
  <2>5. got \in Seq(Nat) /\ k \in Nat /\ DOMAIN got = 1 .. k /\ <<rx>> \in Seq(Nat) /\ rx \in Nat
    BY DEF ListTypes
  <2> HIDE DEF answered, k
  <2>6. /\ got \o answered \in Seq(Nat) /\ Len(got \o answered) = k + n
        /\ \A i \in 1 .. k : (got \o answered)[i] = got[i]
        /\ \A i \in 1 .. n : (got \o answered)[k + i] = data[q[i]]
    <3>1. /\ got \o answered \in Seq(Nat) /\ Len(got \o answered) = k + n
          /\ \A i \in 1 .. k + n : (got \o answered)[i] = IF i <= k THEN got[i] ELSE answered[i - k]
      BY <2>4, <2>5, Concat DEF k
    <3>2. \A i \in 1 .. k : i \in 1 .. k + n /\ i <= k
      BY <2>2, <2>5
    <3>3. \A i \in 1 .. n : k + i \in 1 .. k + n /\ ~(k + i <= k) /\ (k + i) - k = i
      BY <2>2, <2>5
    <3>4. \A i \in 1 .. k : (got \o answered)[i] = got[i]
      BY <3>1, <3>2, Zenon
    <3>5. \A i \in 1 .. n : (got \o answered)[k + i] = answered[i]
      BY <3>1, <3>3, Zenon
    <3> QED
      BY <2>4, <3>1, <3>4, <3>5, Zenon
  <2>7. /\ DOMAIN stream = 1 .. k + n + 1
        /\ \A i \in 1 .. k : stream[i] = got[i]
        /\ \A i \in 1 .. n : stream[k + i] = data[q[i]]
        /\ stream[k + n + 1] = rx
    <3>1. /\ stream \in Seq(Nat) /\ Len(stream) = k + n + 1
          /\ \A i \in 1 .. k + n + 1 :
               stream[i] = IF i <= k + n THEN (got \o answered)[i] ELSE <<rx>>[i - (k + n)]
      <4>1. Len(<<rx>>) = 1
        OBVIOUS
      <4> QED
        BY <2>5, <2>6, <4>1, Concat
    <3>2. \A i \in 1 .. k : i \in 1 .. k + n + 1 /\ i <= k + n
      BY <2>2, <2>5
    <3>3. \A i \in 1 .. n : k + i \in 1 .. k + n + 1 /\ k + i <= k + n
      BY <2>2, <2>5
    <3>4. k + n + 1 \in 1 .. k + n + 1 /\ ~(k + n + 1 <= k + n) /\ (k + n + 1) - (k + n) = 1
      BY <2>2, <2>5
    <3>5. DOMAIN stream = 1 .. k + n + 1
      BY <3>1
    <3> HIDE DEF stream
    <3>6. \A i \in 1 .. k : stream[i] = got[i]
      BY <2>6, <3>1, <3>2, Zenon
    <3>7. \A i \in 1 .. n : stream[k + i] = data[q[i]]
      BY <2>6, <3>1, <3>3, Zenon
    <3>8. stream[k + n + 1] = <<rx>>[1]
      BY <3>1, <3>4, Zenon
    <3>9. <<rx>>[1] = rx
      OBVIOUS
    <3> QED
      BY <3>5, <3>6, <3>7, <3>8, <3>9, Zenon
  <2> HIDE DEF stream
  <2>8. ASSUME NEW i \in DOMAIN stream
        PROVE  i \in 1 .. k \/ (\E j \in 1 .. n : i = k + j) \/ i = k + n + 1
    <3>1. i \in 1 .. k \/ (i - k \in 1 .. n /\ i = k + (i - k)) \/ i = k + n + 1
      <4>1. i \in 1 .. k + n + 1 /\ k \in Nat /\ n \in Nat
        BY <2>2, <2>5, <2>7
      <4> QED
        BY <4>1
    <3> QED
      BY <3>1
  <2>9. ASSUME NEW i \in DOMAIN stream, NEW j \in DOMAIN stream, i < j, stream[i] # 0, stream[j] # 0
        PROVE  stream[i] < stream[j]
    <3>1. CASE j = k + n + 1
      <4>1. rx # 0 /\ stream[j] = rx
        BY <2>7, <2>9, <3>1
      <4>2. CASE i \in 1 .. k
        BY ZenonT(40), <2>5, <2>7, <4>1, <4>2 DEF CharInv
      <4>3. ASSUME NEW a \in 1 .. n, i = k + a PROVE stream[i] < stream[j]
        BY <2>3, <2>7, <4>1, <4>3 DEF CharInv
      <4> QED
        <5>1. i # k + n + 1
          BY <2>2, <2>5, <2>7, <2>9, <3>1
        <5> QED
          BY <2>8, <4>2, <4>3, <5>1
    <3>2. ASSUME NEW b \in 1 .. n, j = k + b PROVE stream[i] < stream[j]
      <4>1. stream[j] = data[q[b]] /\ q[b] \in In("rsp")
        BY <2>3, <2>7, <3>2
      <4>2. CASE i \in 1 .. k
        BY <2>5, <2>7, <2>9, <4>1, <4>2 DEF CharInv
      <4>3. ASSUME NEW a \in 1 .. n, i = k + a PROVE stream[i] < stream[j]
        <5>1. a < b
          BY <2>2, <2>5, <2>9, <3>2, <4>3
        <5>2. stream[i] = data[q[a]]
          BY <2>7, <4>3
        <5> QED
          BY <2>1, <2>2, <2>9, <4>1, <5>1, <5>2 DEF Sorted
      <4>4. i # k + n + 1
        BY <2>2, <2>5, <2>9, <3>2
      <4> QED
        BY <2>8, <4>2, <4>3, <4>4
    <3>3. CASE j \in 1 .. k
      <4>1. i \in 1 .. k
        BY <2>5, <2>7, <2>9, <3>3
      <4> QED
        BY <2>5, <2>7, <2>9, <3>3, <4>1 DEF CharInv
    <3> QED
      BY <2>8, <3>1, <3>2, <3>3
  <2>10. {stream[i] : i \in DOMAIN stream} \ {0} = 1 .. received \ lost
    <3>1. ASSUME NEW c \in Nat \ {0} PROVE Held(c) <=> \E i \in DOMAIN stream : stream[i] = c
      <4>1. ASSUME Held(c) PROVE \E i \in DOMAIN stream : stream[i] = c
        <5>1. \A i \in 1 .. k : i \in DOMAIN stream
          BY <2>2, <2>5, <2>7
        <5>2. \A i \in 1 .. n : k + i \in DOMAIN stream
          BY <2>2, <2>5, <2>7
        <5>3. k + n + 1 \in DOMAIN stream
          BY <2>2, <2>5, <2>7
        <5>4. CASE \E i \in DOMAIN got : got[i] = c
          BY <2>5, <2>7, <5>1, <5>4
        <5>5. CASE \E x \in In("rsp") : data[x] = c
          BY <2>2, <2>7, <5>2, <5>5
        <5>6. CASE rx = c
          BY <2>7, <5>3, <5>6
        <5> QED
          BY <4>1, <5>4, <5>5, <5>6 DEF Held
      <4>2. ASSUME NEW i \in DOMAIN stream, stream[i] = c PROVE Held(c)
        <5>1. CASE i \in 1 .. k
          BY <2>5, <2>7, <4>2, <5>1 DEF Held
        <5>2. ASSUME NEW j \in 1 .. n, i = k + j PROVE Held(c)
          BY <2>3, <2>7, <4>2, <5>2 DEF Held
        <5>3. CASE i = k + n + 1
          BY <2>7, <4>2, <5>3 DEF Held
        <5> QED
          BY <2>8, <5>1, <5>2, <5>3
      <4> QED
        BY <4>1, <4>2
    <3>2. \A i \in DOMAIN stream : stream[i] \in Nat
      BY <2>3, <2>5, <2>7, <2>8
    <3>3. ASSUME NEW c PROVE c \in {stream[i] : i \in DOMAIN stream} \ {0} <=> c \in 1 .. received \ lost
      <4>1. received \in Nat
        BY DEF ListTypes
      <4> HIDE DEF Held
      <4>2. c \in Nat \ {0} => (Held(c) <=> c \in 1 .. received \ lost)
        BY <4>1 DEF CharInv
      <4>3. c \in 1 .. received => c \in Nat \ {0}
        BY <4>1
      <4> QED
        BY <3>1, <3>2, <4>2, <4>3
    <3> QED
      BY <3>3
  <2> QED
    BY Zenon, <2>1, <2>9, <2>10 DEF CharsInOrder, stream, answered
<1> QED
  BY <1>1, ListInvInit, ListInvStep, PTL DEF SbiSpec

-----------------------------------------------------------------------------
(* The harts.                                                              *)

\* The types of the harts.
HartTypes ==
  /\ pc \in [Harts -> {"reset", "vm_init", "load", "wait_vm", "wfi", "os", "panic", "off"}]
  /\ ssip \in [Harts -> BOOLEAN]
  /\ ipi_pending \in [Harts -> BOOLEAN]

TimerTypes ==
  /\ stip \in [Harts -> BOOLEAN] /\ mtip \in [Harts -> BOOLEAN] /\ mtie \in [Harts -> BOOLEAN]
  /\ armed \in [Harts -> BOOLEAN] /\ asked \in [Harts -> BOOLEAN]

\* A running timer has not yet raised the machine's interrupt.
TimerInv ==
  /\ TimerTypes
  /\ TimerKept
  /\ \A h \in Harts : armed[h] => ~mtip[h]

\* What hart 0 has done while it is being started; it never waits.
BootInv ==
  /\ BootOrder
  /\ pc[0] = "load" => root_page_table
  /\ pc[0] # "wait_vm"

-----------------------------------------------------------------------------

\* SbiInit gives the variables of the harts values of their types.
LEMMA HartTypesInit == SbiInit => HartTypes
  BY SbiAssumption DEF SbiInit, HartTypes

\* Every call, interrupt and step of the start keeps the types of the
\* harts.
LEMMA HartTypesStep == HartTypes /\ [SbiNext]_sbiVars => HartTypes'
<1> SUFFICES ASSUME HartTypes, [SbiNext]_sbiVars PROVE HartTypes'
  OBVIOUS
<1> USE SbiAssumption DEF HartTypes, Goto, OsRuns
<1>1. CASE init_first_hart
  BY <1>1 DEF init_first_hart
<1>2. CASE run_loaded_program
  BY <1>2 DEF run_loaded_program
<1>3. ASSUME NEW h \in Harts, Boot(h) PROVE HartTypes'
  BY Zenon, <1>3 DEF Boot, machine_init, init_other_hart, boot_other_hart
<1>4. ASSUME NEW h \in Harts, Ipi(h) PROVE HartTypes'
  <2>1. ASSUME NEW r \in Harts, mcall_send_ipi(h, r) PROVE HartTypes'
    BY <2>1 DEF mcall_send_ipi
  <2>2. CASE mcall_clear_ipi(h)
    BY <2>2 DEF mcall_clear_ipi, Responses
  <2> QED BY <1>4, <2>1, <2>2 DEF Ipi
<1>5. ASSUME NEW h \in Harts, Timer(h) \/ mcall_shutdown(h) PROVE HartTypes'
  BY <1>5 DEF Timer, mcall_set_timer, TimeReached, Interrupt_timer, mcall_shutdown
<1>6. CASE Devices
  <2>1. ASSUME NEW m \in Msgs, mcall_dev_req_now(m) \/ mcall_dev_req_read(m) PROVE HartTypes'
    BY Zenon, <2>1 DEF mcall_dev_req_now, mcall_dev_req_read, Respond
  <2>2. CASE mcall_dev_req_panic
    BY <2>2 DEF mcall_dev_req_panic
  <2>3. CASE mcall_dev_resp
    BY Zenon, <2>3 DEF mcall_dev_resp
  <2>4. CASE io_irq_service \/ UartReceives
    BY Zenon, <2>4 DEF io_irq_service, UartReceives, Respond
  <2> QED BY <1>6, <2>1, <2>2, <2>3, <2>4 DEF Devices
<1>7. CASE UNCHANGED sbiVars
  BY <1>7 DEF sbiVars
<1> QED BY <1>1, <1>2, <1>3, <1>4, <1>5, <1>6, <1>7 DEF SbiNext

-----------------------------------------------------------------------------

\* While a response waits, the software interrupt of hart 0 is up, whatever calls of
\* mcall_dev_resp and mcall_clear_ipi come between, for any number of messages.
THEOREM ResponseSignalledHolds == SbiSpec => []ResponseSignalled
<1> USE SbiAssumption
<1>1. SbiInit => ResponseSignalled
  BY DEF SbiInit, ResponseSignalled
<1>2. HartTypes /\ ResponseSignalled /\ [SbiNext]_sbiVars => ResponseSignalled'
  <2> SUFFICES ASSUME HartTypes, ResponseSignalled, [SbiNext]_sbiVars PROVE ResponseSignalled'
    OBVIOUS
  <2> USE DEF HartTypes, ResponseSignalled
  <2>1. CASE init_first_hart \/ run_loaded_program
    BY <2>1 DEF init_first_hart, run_loaded_program, devVars, listVars, rspVars
  <2>2. ASSUME NEW h \in Harts, Boot(h) PROVE ResponseSignalled'
    BY <2>2 DEF Boot, machine_init, init_other_hart,
                devVars, listVars, rspVars
  <2>3. ASSUME NEW h \in Harts, Ipi(h) PROVE ResponseSignalled'
    <3>1. CASE \E r \in Harts : mcall_send_ipi(h, r)
      BY <3>1 DEF mcall_send_ipi, devVars, listVars, rspVars
    <3>2. CASE mcall_clear_ipi(h)
      BY <3>2 DEF mcall_clear_ipi, Responses, devVars, listVars, rspVars
    <3> QED BY <2>3, <3>1, <3>2 DEF Ipi
  <2>4. ASSUME NEW h \in Harts, Timer(h) \/ mcall_shutdown(h) PROVE ResponseSignalled'
    BY <2>4 DEF Timer, mcall_set_timer, TimeReached, Interrupt_timer, mcall_shutdown,
                devVars, listVars, rspVars
  <2>5. CASE Devices
    <3>1. ASSUME NEW m \in Msgs, mcall_dev_req_now(m) \/ mcall_dev_req_read(m)
          PROVE ResponseSignalled'
      BY <3>1 DEF mcall_dev_req_now, mcall_dev_req_read, Respond, rspVars
    <3>2. CASE mcall_dev_req_panic
      BY <3>2 DEF mcall_dev_req_panic, devVars, listVars, rspVars
    <3>3. CASE mcall_dev_resp
      BY <3>3 DEF mcall_dev_resp, listVars, rspVars
    <3>4. CASE io_irq_service \/ UartReceives
      BY <3>4 DEF io_irq_service, UartReceives, Respond, listVars, rspVars
    <3> QED BY <2>5, <3>1, <3>2, <3>3, <3>4 DEF Devices
  <2>6. CASE UNCHANGED sbiVars
    BY <2>6 DEF sbiVars, devVars, listVars, rspVars
  <2> QED BY <2>1, <2>2, <2>3, <2>4, <2>5, <2>6 DEF SbiNext
<1> QED BY <1>1, <1>2, HartTypesInit, HartTypesStep, PTL DEF SbiSpec

-----------------------------------------------------------------------------

\* The steps that are not about the timer leave its state alone.
LEMMA OthersKeepTimer ==
  ASSUME [SbiNext]_sbiVars, ~\E h \in Harts : Timer(h)
  PROVE  UNCHANGED timerVars
<1>1. CASE init_first_hart \/ run_loaded_program
  BY <1>1 DEF init_first_hart, run_loaded_program
<1>2. ASSUME NEW h \in Harts, Boot(h) \/ Ipi(h) \/ mcall_shutdown(h) PROVE UNCHANGED timerVars
  BY <1>2 DEF Boot, machine_init, init_other_hart, Ipi, mcall_send_ipi,
              mcall_clear_ipi, mcall_shutdown
<1>3. CASE Devices
  BY <1>3 DEF Devices, mcall_dev_req_now, mcall_dev_req_read, mcall_dev_req_panic, mcall_dev_resp,
              io_irq_service, UartReceives
<1>4. CASE UNCHANGED sbiVars
  BY <1>4 DEF sbiVars
<1> QED BY <1>1, <1>2, <1>3, <1>4 DEF SbiNext

\* A timer that mcall_set_timer was asked for is running, due or delivered on
\* every hart, and no tick is left over from one that was set anew.
THEOREM TimerKeptHolds == SbiSpec => []TimerKept
<1>1. SbiInit => TimerInv
  BY DEF SbiInit, TimerInv, TimerTypes, TimerKept
<1>2. TimerInv /\ [SbiNext]_sbiVars => TimerInv'
  <2> SUFFICES ASSUME TimerInv, [SbiNext]_sbiVars PROVE TimerInv'
    OBVIOUS
  <2> USE DEF TimerInv, TimerTypes, TimerKept
  <2>1. ASSUME NEW h \in Harts, mcall_set_timer(h) PROVE TimerInv'
    BY <2>1 DEF mcall_set_timer
  <2>2. ASSUME NEW h \in Harts, TimeReached(h) PROVE TimerInv'
    BY <2>2 DEF TimeReached
  <2>3. ASSUME NEW h \in Harts, Interrupt_timer(h) PROVE TimerInv'
    BY <2>3 DEF Interrupt_timer
  <2>4. CASE ~\E h \in Harts : Timer(h)
    BY <2>4, OthersKeepTimer DEF timerVars
  <2> QED BY <2>1, <2>2, <2>3, <2>4 DEF Timer
<1>3. TimerInv => TimerKept
  BY DEF TimerInv
<1> QED BY <1>1, <1>2, <1>3, PTL DEF SbiSpec

-----------------------------------------------------------------------------

\* Whatever harts there are, only hart 0 enters the operating system, and only after
\* init_first_hart and run_loaded_program.
THEOREM BootOrderHolds == SbiSpec => []BootOrder
<1> USE SbiAssumption
<1>1. SbiInit => BootInv
  BY DEF SbiInit, BootInv, BootOrder, Started
<1>2. HartTypes /\ BootInv /\ [SbiNext]_sbiVars => BootInv'
  <2> SUFFICES ASSUME HartTypes, BootInv, [SbiNext]_sbiVars PROVE BootInv'
    OBVIOUS
  <2> USE DEF HartTypes, BootInv, BootOrder, Started, Goto, OsRuns, bootVars, num_harts
  <2>1. CASE init_first_hart \/ run_loaded_program
    BY <2>1 DEF init_first_hart, run_loaded_program
  <2>2. ASSUME NEW h \in Harts, Boot(h) PROVE BootInv'
    <3>1. CASE machine_init(h)
      BY <3>1 DEF machine_init
    <3>2. CASE init_other_hart(h)
      <4>1. h # 0 /\ h >= num_harts
        BY <3>2 DEF init_other_hart
      <4> QED BY <3>2, <4>1 DEF init_other_hart
    <3> QED BY <2>2, <3>1, <3>2 DEF Boot
  <2>3. ASSUME NEW h \in Harts, Ipi(h) \/ mcall_shutdown(h) PROVE BootInv'
    <3>1. CASE \E r \in Harts : mcall_send_ipi(h, r)
      BY <3>1 DEF mcall_send_ipi
    <3>2. CASE mcall_clear_ipi(h) \/ mcall_shutdown(h)
      BY <3>2 DEF mcall_clear_ipi, mcall_shutdown
    <3> QED BY <2>3, <3>1, <3>2 DEF Ipi
  <2>4. ASSUME NEW h \in Harts, Timer(h) PROVE BootInv'
    BY <2>4 DEF Timer, mcall_set_timer, TimeReached, Interrupt_timer
  <2>5. CASE Devices
    <3>1. CASE \E m \in Msgs : mcall_dev_req_now(m) \/ mcall_dev_req_read(m)
      BY <3>1 DEF mcall_dev_req_now, mcall_dev_req_read
    <3>2. CASE mcall_dev_req_panic \/ UartReceives
      BY <3>2 DEF mcall_dev_req_panic, UartReceives
    <3>3. CASE mcall_dev_resp
      BY <3>3 DEF mcall_dev_resp
    <3>4. CASE io_irq_service
      BY <3>4 DEF io_irq_service
    <3> QED BY <2>5, <3>1, <3>2, <3>3, <3>4 DEF Devices
  <2>6. CASE UNCHANGED sbiVars
    BY <2>6 DEF sbiVars
  <2> QED BY <2>1, <2>2, <2>3, <2>4, <2>5, <2>6 DEF SbiNext
<1>3. BootInv => BootOrder
  BY DEF BootInv
<1> QED BY <1>1, <1>2, <1>3, HartTypesInit, HartTypesStep, PTL DEF SbiSpec
=============================================================================
