------------------------------ MODULE FatVolume ------------------------------
(***************************************************************************)
(* The directory tables of a FAT32 volume (ff.c), on top of the chains of  *)
(* FatTable.  Sectors hold what the code reads from them: FAT entries,     *)
(* directory entries or bytes.  SS stands for both the bytes and the       *)
(* directory entries of a sector.                                          *)
(***************************************************************************)
EXTENDS FatTable, FiniteSets

NoEntry == -1        \* dp->dir = 0: the start directory itself

Blank == [name |-> "", attr |-> "", ro |-> FALSE, clust |-> 0, size |-> 0]
Deleted == [Blank EXCEPT !.name = "DDEM"]
BlankSector == [i \in 0 .. SS - 1 |-> Blank]

----------------------------------------------------------------------------
(* Directory tables.  A directory object d has the table's first cluster,   *)
(* the current index, its cluster and sector, and the entry in the window.  *)

DirObj(c) == [sclust |-> c, index |-> 0, clust |-> 0, sect |-> 0, dir |-> NoEntry]
FatErr(v) == CASE v = Bad -> "DISK_ERR" [] v = 0 -> "DENIED" [] OTHER -> "INT_ERR"

RECURSIVE dir_walk(_, _, _, _)
dir_walk(m, d, c, i) ==
  IF i >= SS * CSize
  THEN After(get_fat(m, c), LAMBDA n :
         IF IsClust(n.val) THEN dir_walk(n.m, d, n.val, i - SS * CSize)
         ELSE [m |-> n.m, d |-> d, res |-> IF n.val = Bad THEN "DISK_ERR" ELSE "INT_ERR"])
  ELSE LET s == clust2sect(c)
       IN IF s = 0
          THEN [m |-> m, d |-> [d EXCEPT !.clust = c], res |-> "INT_ERR"]
          ELSE [m |-> m, res |-> "OK",
                d |-> [d EXCEPT !.clust = c, !.sect = s + i \div SS, !.dir = i % SS]]

dir_sdi(m, d, i) ==
  IF d.sclust = 1 \/ d.sclust >= NFatEnt
  THEN [m |-> m, d |-> [d EXCEPT !.index = i], res |-> "INT_ERR"]
  ELSE dir_walk(m, [d EXCEPT !.index = i], IF d.sclust = 0 THEN DirBase ELSE d.sclust, i)

\* The new last cluster of a table, cleared sector by sector.
RECURSIVE Clear(_, _)
Clear(m, n) ==
  IF n = 0 THEN Ok(m)
  ELSE Then(sync_window([m EXCEPT !.wflag = TRUE]), LAMBDA y :
         Clear([y.m EXCEPT !.winsect = @ + 1], n - 1))

Stretch(m, c) ==
  LET Blanked(y, n) == Clear([y.m EXCEPT !.win = BlankSector, !.winsect = clust2sect(n)], CSize)
      Cleared(mm, n) == Then(sync_window(mm), LAMBDA y : Blanked(y, n))
  IN After(create_chain(m, c), LAMBDA n :
       IF ~IsClust(n.val) THEN [m |-> n.m, val |-> n.val, res |-> FatErr(n.val)]
       ELSE After(Cleared(n.m, n.val), LAMBDA z :
              IF z.res # "OK" THEN [m |-> z.m, val |-> 0, res |-> "DISK_ERR"]
              ELSE [m |-> [z.m EXCEPT !.winsect = @ - CSize], val |-> n.val, res |-> "OK"]))

\* The cluster behind the current one, and a new one where the table may grow.
NextClust(m, d, stretch) ==
  After(get_fat(m, d.clust), LAMBDA c :
    CASE IsClust(c.val) -> [m |-> c.m, val |-> c.val, res |-> "OK"]
      [] c.val <= 1 -> [m |-> c.m, val |-> 0, res |-> "INT_ERR"]
      [] c.val = Bad -> [m |-> c.m, val |-> 0, res |-> "DISK_ERR"]
      [] OTHER -> IF stretch THEN Stretch(c.m, d.clust)
                  ELSE [m |-> c.m, val |-> 0, res |-> "NO_FILE"])

\* The limit of 65535 entries is beyond every volume here.
dir_next(m, d, stretch) ==
  LET i == d.index + 1
      e == [d EXCEPT !.index = i, !.dir = i % SS]
  IN IF d.sect = 0 THEN [m |-> m, d |-> d, res |-> "NO_FILE"]
     ELSE IF i % SS # 0 THEN [m |-> m, d |-> e, res |-> "OK"]
     ELSE IF (i \div SS) % CSize # 0
          THEN [m |-> m, d |-> [e EXCEPT !.sect = @ + 1], res |-> "OK"]
     ELSE After(NextClust(m, d, stretch), LAMBDA n :
            [m |-> n.m, res |-> n.res,
             d |-> IF n.res = "OK" THEN [e EXCEPT !.clust = n.val, !.sect = clust2sect(n.val)]
                   ELSE [d EXCEPT !.sect = @ + 1]])

\* The scan that dir_alloc, dir_find and dir_read share: from the current entry
\* to the first one that Stop holds for; an unused entry may end the table.
RECURSIVE Scan(_, _, _, _, _)
Scan(m, d, Stop(_), toEnd, stretch) ==
  After(move_window(m, d.sect), LAMBDA w :
    IF w.res # "OK" THEN [m |-> w.m, d |-> d, res |-> w.res]
    ELSE IF toEnd /\ w.m.win[d.dir].name = "" THEN [m |-> w.m, d |-> d, res |-> "NO_FILE"]
    ELSE IF Stop(w.m.win[d.dir]) THEN [m |-> w.m, d |-> d, res |-> "OK"]
    ELSE Then(dir_next(w.m, d, stretch), LAMBDA n : Scan(n.m, n.d, Stop, toEnd, stretch)))

IsFree(e) == e.name \in {"", "DDEM"}

dir_alloc(m, d) ==
  Then(dir_sdi(m, d, 0), LAMBDA z :
    After(Scan(z.m, z.d, IsFree, FALSE, TRUE), LAMBDA s :
      IF s.res = "NO_FILE" THEN [s EXCEPT !.res = "DENIED"] ELSE s))

dir_find(m, d, nm) ==
  LET Named(e) == e.attr # "VOL" /\ e.name = nm
  IN Then(dir_sdi(m, d, 0), LAMBDA z : Scan(z.m, z.d, Named, TRUE, FALSE))

Valid(e, vol) == e.name # "DDEM" /\ (e.attr = "VOL") = vol

\* The next file or directory, or the volume label.
dir_read(m, d, vol) ==
  LET Wanted(e) == Valid(e, vol)
  IN IF d.sect = 0 THEN [m |-> m, d |-> d, res |-> "NO_FILE"]
     ELSE After(Scan(m, d, Wanted, TRUE, FALSE), LAMBDA s :
            IF s.res = "OK" THEN s ELSE [s EXCEPT !.d.sect = 0])

dir_register(m, d, nm) ==
  Then(dir_alloc(m, d), LAMBDA a :
    After(move_window(a.m, a.d.sect), LAMBDA w :
      [m |-> IF w.res # "OK" THEN w.m
             ELSE Edit(w.m, a.d.dir, [Blank EXCEPT !.name = nm]),
       d |-> a.d, res |-> w.res]))

dir_remove(m, d) ==
  After(dir_sdi(m, d, d.index), LAMBDA z :
    IF z.res # "OK" THEN Fail(z.m, z.res)
    ELSE Then(move_window(z.m, z.d.sect), LAMBDA w : Ok(Edit(w.m, z.d.dir, Deleted))))
=============================================================================
