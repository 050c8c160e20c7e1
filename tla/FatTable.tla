------------------------------ MODULE FatTable ------------------------------
(***************************************************************************)
(* The bottom of the FAT file system of the boot loader (ff.c): the disk   *)
(* access window, the file allocation table and the cluster chains of a    *)
(* FAT32 volume.                                                           *)
(*                                                                         *)
(* The code is sequential, so a function of the code is an operator that   *)
(* takes the machine m and returns it together with a result.  m has the   *)
(* sectors of the disk, the fields of the FATFS object and the fault that  *)
(* the disk will show during this call of the file system: disk access     *)
(* number m.k fails ("err"), or the power is lost just before it ("cut").  *)
(***************************************************************************)
EXTENDS Integers

CONSTANTS NFatEnt,   \* fs->n_fatent: clusters are 2 .. NFatEnt - 1
          EPF,       \* FAT entries per sector
          SS,        \* bytes per data sector, entries per directory sector
          CSize,     \* fs->csize: sectors per cluster
          NFats,     \* fs->n_fats: copies of the FAT, 1 or 2
          EOC,       \* 0x0FFFFFFF, the last link of a chain
          Bad        \* 0xFFFFFFFF, a failed access or an unknown number

VolBase == 0
FsInfo == VolBase + 1
FatBase == VolBase + 2
FatSecs == (NFatEnt + EPF - 1) \div EPF
DataBase == FatBase + NFats * FatSecs
DirBase == 2
Sectors == VolBase .. DataBase + (NFatEnt - 2) * CSize - 1
InFat(s) == s - FatBase \in 0 .. FatSecs - 1

\* The format has 28 bits for a cluster and 32 for a sector, and the numbers with a
\* meaning of their own are none of them.
ASSUME FatAssumption ==
  /\ NFatEnt \in Nat \ 0 .. 2 /\ EPF \in Nat \ {0} /\ SS \in Nat \ {0} /\ CSize \in Nat \ {0}
  /\ NFats \in 1 .. 2
  /\ EOC \in Nat /\ NFatEnt <= EOC
  /\ Bad \in Nat /\ EOC < Bad /\ DataBase + (NFatEnt - 2) * CSize <= Bad

Ok(m) == [m |-> m, res |-> "OK"]
Fail(m, e) == [m |-> m, res |-> e]

\* The rest of a function, F, after a call that returned r; Then leaves the
\* function at once when the call failed.
After(r, F(_)) == F(r)
Then(r, F(_)) == IF r.res = "OK" THEN F(r) ELSE r

\* A loop of at most k rounds that starts in x; more says that a round follows.
Loop(Body(_), x, k) ==
  LET run[i \in 0 .. k] ==
        IF i = 0 THEN x ELSE After(run[i - 1], LAMBDA y : IF y.more THEN Body(y) ELSE y)
  IN run[k]

----------------------------------------------------------------------------
(* The disk driver, as the file system calls it. *)

Tick(m) == [m EXCEPT !.n = @ + 1]
Fails(m) == m.kind = "err" /\ m.n = m.k
Dead(m) == m.kind = "cut" /\ m.n >= m.k

disk_read(m, s) ==
  LET t == Tick(m) IN [m |-> t, ok |-> ~Fails(t), data |-> t.disk[s]]

disk_write(m, s, d) ==
  LET t == Tick(m)
  IN [m |-> IF Fails(t) \/ Dead(t) THEN t ELSE [t EXCEPT !.disk[s] = d],
      ok |-> ~Fails(t)]

disk_sync(m) == LET t == Tick(m) IN [m |-> t, ok |-> ~Fails(t)]

----------------------------------------------------------------------------
(* The window: one cached sector of the FAT or of a directory. *)

sync_window(m) ==
  IF ~m.wflag THEN Ok(m)
  ELSE After(disk_write(m, m.winsect, m.win), LAMBDA w :
         IF ~w.ok THEN Fail(w.m, "DISK_ERR")
         ELSE LET c == [w.m EXCEPT !.wflag = FALSE]
              IN IF InFat(m.winsect) /\ NFats = 2
                 THEN Ok(disk_write(c, m.winsect + FatSecs, m.win).m)
                 ELSE Ok(c))

move_window(m, s) ==
  IF s = m.winsect THEN Ok(m)
  ELSE Then(sync_window(m), LAMBDA y :
         After(disk_read(y.m, s), LAMBDA r :
           IF r.ok THEN Ok([r.m EXCEPT !.winsect = s, !.win = r.data])
           ELSE Fail([r.m EXCEPT !.winsect = Bad], "DISK_ERR")))

\* The FSInfo sector goes through the window, whatever the write says; then
\* the driver is told to flush.
FsInfoOut(m) ==
  LET info == [free |-> m.free_clust, nxt |-> m.last_clust]
      i == [m EXCEPT !.win = info, !.winsect = FsInfo]
      f == IF m.fsi_flag = 1 THEN [disk_write(i, FsInfo, info).m EXCEPT !.fsi_flag = 0] ELSE m
  IN After(disk_sync(f), LAMBDA z : IF z.ok THEN Ok(z.m) ELSE Fail(z.m, "DISK_ERR"))

sync_fs(m) == Then(sync_window(m), LAMBDA y : FsInfoOut(y.m))

\* An edit of entry i of the window.
Edit(m, i, e) == [m EXCEPT !.win[i] = e, !.wflag = TRUE]

----------------------------------------------------------------------------
(* Cluster chains. *)

IsClust(c) == 2 <= c /\ c < NFatEnt

clust2sect(c) == IF IsClust(c) THEN (c - 2) * CSize + DataBase ELSE 0

get_fat(m, c) ==
  IF ~IsClust(c) THEN [m |-> m, val |-> 1]
  ELSE After(move_window(m, FatBase + c \div EPF), LAMBDA w :
         [m |-> w.m, val |-> IF w.res = "OK" THEN w.m.win[c % EPF] ELSE Bad])

put_fat(m, c, v) ==
  IF ~IsClust(c) THEN Fail(m, "INT_ERR")
  ELSE Then(move_window(m, FatBase + c \div EPF), LAMBDA w : Ok(Edit(w.m, c % EPF, v)))

\* Mutant: freed clusters are not counted.
CountFree_Down(m, d) ==
  IF m.free_clust = Bad \/ d = 1 THEN m
  ELSE [m EXCEPT !.free_clust = @ + d, !.fsi_flag = IF @ = 0 THEN 1 ELSE @]

\* FSInfo is kept only while the number of free clusters is known.
CountFree(m, d) ==
  IF m.free_clust = Bad THEN m
  ELSE [m EXCEPT !.free_clust = @ + d, !.fsi_flag = IF @ = 0 THEN 1 ELSE @]

\* One round of remove_chain: x has the cluster to give back.
RemoveRound(x) ==
  LET End(mm, e) == [m |-> mm, c |-> x.c, res |-> e, more |-> FALSE]
      Freed(p, nxt) == IF p.res # "OK" THEN End(p.m, p.res)
                       ELSE [m |-> CountFree(p.m, 1), c |-> nxt, res |-> "OK", more |-> TRUE]
  IN IF x.c >= NFatEnt THEN End(x.m, "OK")
     ELSE After(get_fat(x.m, x.c), LAMBDA nxt :
            CASE nxt.val = 0   -> End(nxt.m, "OK")
              [] nxt.val = 1   -> End(nxt.m, "INT_ERR")
              [] nxt.val = Bad -> End(nxt.m, "DISK_ERR")
              [] OTHER -> After(put_fat(nxt.m, x.c, 0), LAMBDA p : Freed(p, nxt.val)))

\* Every round but the last gives back a cluster, so NFatEnt rounds are enough.
RemoveFrom(m, c) == Loop(RemoveRound, [m |-> m, c |-> c, res |-> "OK", more |-> TRUE], NFatEnt)

remove_chain(m, c) ==
  IF ~IsClust(c) THEN Fail(m, "INT_ERR")
  ELSE After(RemoveFrom(m, c), LAMBDA x : Fail(x.m, x.res))

\* One round of the search for a free cluster, from x.n on; it ends at scl.
SearchRound(x, scl) ==
  LET ncl == IF x.n + 1 >= NFatEnt THEN 2 ELSE x.n + 1
      End(mm, v) == [m |-> mm, n |-> ncl, val |-> v, more |-> FALSE]
  IN IF x.n + 1 >= NFatEnt /\ ncl > scl THEN End(x.m, 0)
     ELSE After(get_fat(x.m, ncl), LAMBDA cs :
            CASE cs.val = 0 -> End(cs.m, ncl)
              [] cs.val \in {1, Bad} -> End(cs.m, cs.val)
              [] OTHER -> [m |-> cs.m, n |-> ncl, val |-> 0, more |-> ncl # scl])

\* A free cluster after scl; 0 is "none".  No cluster is looked at twice.
FreeAfter(m, scl) ==
  Loop(LAMBDA x : SearchRound(x, scl), [m |-> m, n |-> scl, val |-> 0, more |-> TRUE], NFatEnt)

\* Marks ncl as the last link and hangs it behind c.
Link(m, c, ncl) ==
  LET Behind(p) == IF c = 0 THEN p ELSE put_fat(p.m, c, ncl)
  IN After(Then(put_fat(m, ncl, EOC), Behind), LAMBDA q :
       IF q.res = "OK"
       THEN [m |-> CountFree([q.m EXCEPT !.last_clust = ncl], -1), val |-> ncl]
       ELSE [m |-> q.m, val |-> IF q.res = "DISK_ERR" THEN Bad ELSE 1])

\* A new last link for the chain that ends in c, or a new chain when c is 0.
Extend(m, c, scl) ==
  After(FreeAfter(m, scl), LAMBDA ncl :
    IF ncl.val \in {0, 1, Bad} THEN ncl ELSE Link(ncl.m, c, ncl.val))

create_chain(m, c) ==
  IF c = 0
  THEN Extend(m, 0, IF m.last_clust = 0 \/ m.last_clust >= NFatEnt THEN 1 ELSE m.last_clust)
  ELSE After(get_fat(m, c), LAMBDA cs :
         CASE cs.val < 2 -> [m |-> cs.m, val |-> 1]
           [] cs.val = Bad \/ cs.val \in 2 .. NFatEnt - 1 -> cs
           [] OTHER -> Extend(cs.m, c, c))

----------------------------------------------------------------------------
(* What the sectors say. *)

\* The disk as the file system sees it, the window included.
Live(m) == [s \in Sectors |-> IF s = m.winsect THEN m.win ELSE m.disk[s]]

Clusters == 2 .. NFatEnt - 1
FatOf(img) == [c \in Clusters |-> img[FatBase + c \div EPF][c % EPF]]

\* A link leads to a cluster that is in use, no two links lead to the same one, and
\* links do not lead in a circle.
SoundTable(fat) ==
  /\ \A c \in Clusters : fat[c] # 1 /\ (fat[c] \in Clusters => fat[fat[c]] # 0)
  /\ \A c, d \in Clusters : fat[c] \in Clusters /\ fat[c] = fat[d] => c = d
  /\ \A S \in SUBSET Clusters : S # {} => \E c \in S : fat[c] \notin S
=============================================================================
