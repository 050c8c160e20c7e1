----------------------------- MODULE BlockStore -----------------------------
(***************************************************************************)
(* What the file system assumes of the disk: an array of sectors.  `mem`   *)
(* is what a read returns, `durable` what is left after a loss of power;   *)
(* they differ only in sectors that were written and not synced.  `ret` is *)
(* the last call with its result, `present` says whether the medium is     *)
(* there after it.                                                         *)
(***************************************************************************)
EXTENDS Integers, Sequences

CONSTANTS Sectors, Data

VARIABLES mem, durable, present, ret

vars == <<mem, durable, present, ret>>

\* The array m after the blocks ds are written from sector s on.
Over(m, s, ds) == [i \in DOMAIN m |-> IF i - s + 1 \in DOMAIN ds THEN ds[i - s + 1] ELSE m[i]]

Init ==
  /\ mem \in [Sectors -> Data] /\ durable = mem
  /\ present = TRUE /\ ret = [call |-> "none", res |-> "OK"]

Returns(call) == ret'.call = call /\ ret'.res = "OK"

\* The array becomes m, of which sectors become durable at any time; when the
\* medium goes away, what was not durable may go with it.
Becomes(m) ==
  /\ \A i \in Sectors : durable'[i] \in {durable[i], mem[i], m[i]}
  /\ mem' = IF present' THEN m ELSE durable'

Write == Returns("write") /\ Becomes(Over(mem, ret'.sec, ret'.data))

Read ==
  /\ Returns("read")
  /\ Len(ret'.data) = ret'.count
  /\ \A i \in DOMAIN ret'.data : ret'.data[i] = mem[ret'.sec + i - 1]
  /\ Becomes(mem)

Sync == Returns("sync") /\ Becomes(mem) /\ durable' = mem'

\* A call that fails: a write has written a prefix.
Fail ==
  /\ ret'.res # "OK"
  /\ \/ Becomes(mem)
     \/ /\ ret'.call = "write"
        /\ \E k \in 1 .. Len(ret'.data) : Becomes(Over(mem, ret'.sec, SubSeq(ret'.data, 1, k)))

\* Calls that move no data, the medium put in or pulled out, and nothing at all.
Other == ret'.call \in {"init", "info", "cut"} /\ Becomes(mem)
Settle == UNCHANGED <<ret, present>> /\ Becomes(mem)

Next == Write \/ Read \/ Sync \/ Fail \/ Other \/ Settle

Spec == Init /\ [][Next]_vars
=============================================================================
