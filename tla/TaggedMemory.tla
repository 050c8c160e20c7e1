---------------------------- MODULE TaggedMemory ----------------------------
(***************************************************************************)
(* What the tag cache promises the L2: a memory whose blocks carry their   *)
(* tags.  A write replaces the data and the tags of a block together; a    *)
(* read returns the data and the tags of the last completed write, as if   *)
(* there were neither a tag partition nor a cache.                         *)
(***************************************************************************)
CONSTANTS Clients, Blocks, Vals, InitVal, Beat, None

VARIABLES mem,   \* the payload of every block
          pend,  \* the open request of every client, or None
          done   \* the transaction completed in this cycle, or None

\* Every beat of a block comes back as a pair of a data cell and a tag cell.
Tagged(v) == [k \in Beat |-> <<<<v, k>>, <<v, k>>>>]

Requests == [kind : {"Get", "Put", "Rel"}, blk : Blocks, val : Vals]

Init == /\ mem = [b \in Blocks |-> InitVal]
        /\ pend = [i \in Clients |-> None]
        /\ done = None

\* A client opens a request for a block for which no other request is open.
Opens(i) == /\ pend[i] = None /\ pend'[i] \in Requests
            /\ \A j \in Clients \ {i} :
                 /\ pend[j] # None => pend[j].blk # pend'[i].blk
                 /\ pend'[j] # None => pend'[j].blk # pend'[i].blk

\* The open request of client i completes.
Completes(i) ==
  /\ pend[i] # None /\ pend'[i] = None
  /\ mem' = IF pend[i].kind = "Get" THEN mem
            ELSE [mem EXCEPT ![pend[i].blk] = pend[i].val]
  /\ done' = IF pend[i].kind = "Get"
             THEN [id |-> i, blk |-> pend[i].blk, ret |-> Tagged(mem[pend[i].blk])]
             ELSE [id |-> i, blk |-> pend[i].blk]

Next ==
  /\ \/ \E i \in Clients :
          Completes(i) /\ \A j \in Clients \ {i} : pend'[j] = pend[j] \/ Opens(j)
     \/ /\ done' = None /\ mem' = mem
        /\ \A j \in Clients : pend'[j] = pend[j] \/ Opens(j)

Spec == Init /\ [][Next]_<<mem, pend, done>>
=============================================================================
