-------------------------------- MODULE FatFs --------------------------------
(***************************************************************************)
(* The file system calls of ff.c on one FAT32 volume: files, directories,  *)
(* the sector buffer of every open file, and a disk that may fail or lose  *)
(* its power at any access.  One action is one whole call; the calls are   *)
(* sequential (_FS_REENTRANT is 0).  The application keeps the rule of     *)
(* ffconf.h for _FS_LOCK = 0: a file that is open for writing is opened    *)
(* once, and an open object is neither removed nor renamed.                *)
(***************************************************************************)
EXTENDS FatVolume, Sequences, FiniteSetsExt, TLC

CONSTANTS Handles,     \* file objects of the application
          Paths,       \* what it names: [abs, seg] with seg a sequence of names
          Labels,      \* volume labels; "" is none
          Modes,       \* how it opens files: [rd, wr, how]
          Bytes,       \* values of a byte
          Counts,      \* lengths of a transfer
          Offsets,     \* where it seeks
          MaxSize,     \* bound of the file pointer
          MaxCalls,    \* bound of the number of calls
          FaultKinds,  \* subset of {"err", "cut"}
          MaxIo        \* bound of the access at which a fault strikes

VARIABLES disk,    \* the sectors
          fs,      \* the FATFS object
          reg,     \* FatFs[0]: the object is registered
          CurrVol, \* the current drive
          fil,     \* the FIL objects
          dp,      \* a DIR object, with the names that f_readdir has returned and the
                   \* names that stayed in the directory since it was rewound
          ret,     \* the last call: its result, its data, what it names and closes
          calls,   \* calls so far
          faults,  \* faults of the disk so far
          seen     \* history variable: what the application sees

vars == <<disk, fs, reg, CurrVol, fil, dp, ret, calls, faults, seen>>

ZeroSector == [i \in 0 .. SS - 1 |-> 0]
NoFile == [open |-> FALSE]
NoDir == [open |-> FALSE]
NoFault == [kind |-> "none", k |-> 0]
Unmounted == [mounted |-> FALSE, win |-> BlankSector, winsect |-> Bad, wflag |-> FALSE,
              free_clust |-> Bad, last_clust |-> Bad, fsi_flag |-> 128, cdir |-> 0]

\* The machine that a call starts from.
Machine(io) == [disk |-> disk, n |-> 0, kind |-> io.kind, k |-> io.k] @@ fs

----------------------------------------------------------------------------
(* Mounting and paths. *)

\* The rest of find_volume: the drive is there and can be written, and the boot
\* sector is one of a FAT32 volume.
mount_volume(m) ==
  IF m.mounted THEN Ok(m)
  ELSE Then(move_window([m EXCEPT !.wflag = FALSE, !.winsect = Bad], VolBase), LAMBDA b :
         After(move_window([b.m EXCEPT !.last_clust = Bad, !.free_clust = Bad], FsInfo), LAMBDA i :
           Ok([i.m EXCEPT !.mounted = TRUE, !.cdir = 0,
                          !.fsi_flag = IF i.res = "OK" THEN 0 ELSE 128,
                          !.free_clust = IF i.res = "OK" THEN i.m.win.free ELSE @,
                          !.last_clust = IF i.res = "OK" THEN i.m.win.nxt ELSE @])))

\* A path without a drive number is on the current drive; only drive 0 ever has a
\* file system object.
find_volume(m) == IF CurrVol = 0 /\ reg THEN mount_volume(m) ELSE Fail(m, "NOT_ENABLED")

IsDot(nm) == nm \in {".", ".."}

RECURSIVE Follow(_, _, _)
Follow(m, d, seg) ==
  After(dir_find(m, d, Head(seg)), LAMBDA r :
    LET last == Len(seg) = 1
        root == [r.d EXCEPT !.sclust = 0, !.dir = NoEntry]
        e == r.m.win[r.d.dir]
    IN IF r.res = "NO_FILE" /\ IsDot(Head(seg))
       THEN IF last THEN [m |-> r.m, d |-> root, res |-> "OK"]
            ELSE Follow(r.m, root, Tail(seg))
       ELSE IF r.res = "NO_FILE" /\ ~last THEN [r EXCEPT !.res = "NO_PATH"]
       ELSE IF r.res # "OK" \/ last THEN r
       ELSE IF e.attr # "DIR" THEN [r EXCEPT !.res = "NO_PATH"]
       ELSE Follow(r.m, [r.d EXCEPT !.sclust = e.clust], Tail(seg)))

follow_path(m, p) ==
  LET d == DirObj(IF p.abs THEN 0 ELSE m.cdir)
  IN IF p.seg = <<>> THEN [dir_sdi(m, d, 0) EXCEPT !.d.dir = NoEntry]
     ELSE Follow(m, d, p.seg)

LastName(p) == p.seg[Len(p.seg)]
DotPath(p) == p.seg # <<>> /\ IsDot(LastName(p))

\* find_volume and follow_path, as every call by name starts.
Locate(m, p) ==
  After(find_volume(m), LAMBDA v :
    IF v.res # "OK" THEN [m |-> v.m, d |-> DirObj(0), res |-> v.res]
    ELSE follow_path(v.m, p))

----------------------------------------------------------------------------
(* f_open.  mode has the access rights and the way to open. *)

Creates(mode) == mode.how # "existing"

\* Mutant: the chain is removed before the entry is cleared.
Truncated_ChainFirst(m, i) ==
  LET e == m.win[i]
      Emptied(mm) == Edit(mm, i, [Blank EXCEPT !.name = e.name])
  IN IF e.clust = 0 THEN Ok(Emptied(m))
     ELSE Then(remove_chain(m, e.clust), LAMBDA r :
            Then(move_window([r.m EXCEPT !.last_clust = e.clust - 1], m.winsect), LAMBDA w :
              Ok(Emptied(w.m))))

\* The existing or the new entry is emptied; its chain is given back after
\* the entry.
Truncated(m, i) ==
  LET e == m.win[i]
      z == Edit(m, i, [Blank EXCEPT !.name = e.name])
  IN IF e.clust = 0 THEN Ok(z)
     ELSE Then(remove_chain(z, e.clust), LAMBDA r :
            move_window([r.m EXCEPT !.last_clust = e.clust - 1], m.winsect))

FileObject(m, i, mode, created) ==
  [open |-> TRUE, rd |-> mode.rd, wr |-> mode.wr, written |-> created, dirty |-> FALSE,
   err |-> "OK", sclust |-> m.win[i].clust, clust |-> 0, fsize |-> m.win[i].size, fptr |-> 0,
   dsect |-> 0, buf |-> ZeroSector, dir_sect |-> m.winsect, dir_ptr |-> i]

\* The entry that x stands on is opened; new says that this call has made it.
OpenEntry(x, mode, new) ==
  LET e == x.m.win[x.d.dir]
      created == new \/ mode.how = "create_always"
      Quit(mm, res) == [m |-> mm, fp |-> NoFile, res |-> res]
      Opened(mm) == [m |-> mm, fp |-> FileObject(mm, x.d.dir, mode, created), res |-> "OK"]
  IN IF x.res # "OK" THEN Quit(x.m, x.res)
     ELSE IF x.d.dir = NoEntry THEN Quit(x.m, "INVALID_NAME")
     ELSE IF Creates(mode) /\ ~new /\ (e.ro \/ e.attr = "DIR") THEN Quit(x.m, "DENIED")
     ELSE IF mode.how = "create_new" /\ ~new THEN Quit(x.m, "EXIST")
     ELSE IF ~Creates(mode) /\ e.attr = "DIR" THEN Quit(x.m, "NO_FILE")
     ELSE IF ~Creates(mode) /\ mode.wr /\ e.ro THEN Quit(x.m, "DENIED")
     ELSE IF ~created THEN Opened(x.m)
     ELSE After(Truncated(x.m, x.d.dir), LAMBDA t :
            IF t.res # "OK" THEN Quit(t.m, t.res) ELSE Opened(t.m))

f_open(m, p, mode) ==
  After(Locate(m, p), LAMBDA l :
    IF Creates(mode) /\ l.res = "NO_FILE"
    THEN OpenEntry(dir_register(l.m, l.d, LastName(p)), mode, TRUE)
    ELSE OpenEntry(l, mode, FALSE))

----------------------------------------------------------------------------
(* Reading and writing.  f is the file object; data moves through its one   *)
(* sector buffer, whole sectors move directly.                              *)

Abort(m, f, e) == [m |-> m, f |-> [f EXCEPT !.err = e], res |-> e, data |-> <<>>]
CSect(f) == (f.fptr \div SS) % CSize
Splice(b, o, s) == [i \in DOMAIN b |-> IF i \in o .. o + Len(s) - 1 THEN s[i - o + 1] ELSE b[i]]
SectorOf(s) == [i \in 0 .. SS - 1 |-> s[i + 1]]
SeqOf(b, o, n) == [i \in 1 .. n |-> b[o + i - 1]]
Lesser(a, b) == IF a < b THEN a ELSE b

\* A dirty buffer goes to its sector.
WriteBack(m, f) ==
  IF ~f.dirty THEN [m |-> m, f |-> f, ok |-> TRUE]
  ELSE After(disk_write(m, f.dsect, f.buf), LAMBDA w :
         [m |-> w.m, f |-> IF w.ok THEN [f EXCEPT !.dirty = FALSE] ELSE f, ok |-> w.ok])

\* The sector is loaded into the buffer.
Load(m, f, s) ==
  After(disk_read(m, s), LAMBDA r :
    [m |-> r.m, f |-> IF r.ok THEN [f EXCEPT !.buf = r.data, !.dsect = s] ELSE f, ok |-> r.ok])

\* A direct read: a sector that is dirty in the buffer comes from there.
Direct(m, f, s, cc) ==
  [i \in 1 .. cc * SS |->
     LET q == s + (i - 1) \div SS
     IN (IF f.dirty /\ q = f.dsect THEN f.buf ELSE m.disk[q])[(i - 1) % SS]]

\* The rest F of a call once sector s is in the buffer.
Loaded(m, f, s, F(_)) ==
  After(Load(m, f, s), LAMBDA r : IF ~r.ok THEN Abort(r.m, r.f, "DISK_ERR") ELSE F(r))

\* The same where the buffer may be dirty.
Swapped(m, f, s, F(_)) ==
  After(WriteBack(m, f), LAMBDA w :
    IF ~w.ok THEN Abort(w.m, w.f, "DISK_ERR") ELSE Loaded(w.m, w.f, s, F))

\* The cluster of the pointer.
ClustToRead(m, f) ==
  IF CSect(f) # 0 THEN [m |-> m, val |-> f.clust]
  ELSE IF f.fptr = 0 THEN [m |-> m, val |-> f.sclust] ELSE get_fat(m, f.clust)

RECURSIVE ReadFrom(_, _, _, _)
ReadFrom(m, f, btr, out) ==
  LET Take(r) ==
        LET n == Lesser(SS - (r.f.fptr % SS), btr)
        IN ReadFrom(r.m, [r.f EXCEPT !.fptr = @ + n], btr - n,
                    out \o SeqOf(r.f.buf, r.f.fptr % SS, n))
  IN IF btr = 0 THEN [m |-> m, f |-> f, res |-> "OK", data |-> out]
     ELSE IF f.fptr % SS # 0 THEN Take([m |-> m, f |-> f])
     ELSE After(ClustToRead(m, f), LAMBDA c :
       LET g == [f EXCEPT !.clust = c.val]
           s == clust2sect(c.val) + CSect(f)
           cc == Lesser(btr \div SS, CSize - CSect(f))
       IN IF CSect(f) = 0 /\ c.val < 2 THEN Abort(c.m, f, "INT_ERR")
          ELSE IF CSect(f) = 0 /\ c.val = Bad THEN Abort(c.m, f, "DISK_ERR")
          ELSE IF ~IsClust(c.val) THEN Abort(c.m, g, "INT_ERR")
          ELSE IF cc > 0
          THEN After(disk_read(c.m, s), LAMBDA d :
                 IF ~d.ok THEN Abort(d.m, g, "DISK_ERR")
                 ELSE ReadFrom(d.m, [g EXCEPT !.fptr = @ + cc * SS], btr - cc * SS,
                               out \o Direct(d.m, g, s, cc)))
          ELSE IF g.dsect = s THEN Take([m |-> c.m, f |-> g])
          ELSE Swapped(c.m, g, s, Take))

f_read(m, f, btr) ==
  CASE f.err # "OK" -> [m |-> m, f |-> f, res |-> f.err, data |-> <<>>]
    [] f.err = "OK" /\ ~f.rd -> [m |-> m, f |-> f, res |-> "DENIED", data |-> <<>>]
    [] OTHER -> ReadFrom(m, f, Lesser(btr, f.fsize - f.fptr), <<>>)

\* cc whole sectors, one after the other.
RECURSIVE WriteRun(_, _, _, _)
WriteRun(m, s, data, cc) ==
  IF cc = 0 THEN [m |-> m, ok |-> TRUE]
  ELSE After(disk_write(m, s, SectorOf(data)), LAMBDA w :
         IF ~w.ok THEN w ELSE WriteRun(w.m, s + 1, SubSeq(data, SS + 1, Len(data)), cc - 1))

\* Mutant: the buffer keeps the old content of a sector written directly.
Refill_Never(f, s, data, cc) == f

\* The buffer after a direct write over its sector.
Refill(f, s, data, cc) ==
  IF f.dsect \in s .. s + cc - 1
  THEN [f EXCEPT !.dirty = FALSE,
                 !.buf = SectorOf(SubSeq(data, (f.dsect - s) * SS + 1, Len(data)))]
  ELSE f

\* The end of f_write: the size follows the pointer.
Written(m, f) == [m |-> m, res |-> "OK", data |-> <<>>,
                  f |-> [f EXCEPT !.fsize = IF f.fptr > @ THEN f.fptr ELSE @, !.written = TRUE]]

\* The cluster of the pointer, a new one at the end of the chain.
ClustToWrite(m, f) ==
  IF CSect(f) # 0 THEN [m |-> m, val |-> f.clust]
  ELSE IF f.fptr # 0 THEN create_chain(m, f.clust)
  ELSE IF f.sclust = 0 THEN create_chain(m, 0) ELSE [m |-> m, val |-> f.sclust]

RECURSIVE WriteFrom(_, _, _)
WriteFrom(m, f, data) ==
  LET Put(r) ==
        LET n == Lesser(SS - (r.f.fptr % SS), Len(data))
        IN WriteFrom(r.m, [r.f EXCEPT !.buf = Splice(@, r.f.fptr % SS, SubSeq(data, 1, n)),
                                      !.dirty = TRUE, !.fptr = @ + n],
                     SubSeq(data, n + 1, Len(data)))
      cc == Lesser(Len(data) \div SS, CSize - CSect(f))
      Run(w, s) == After(WriteRun(w.m, s, data, cc), LAMBDA d :
        IF ~d.ok THEN Abort(d.m, w.f, "DISK_ERR")
        ELSE WriteFrom(d.m, [Refill(w.f, s, data, cc) EXCEPT !.fptr = @ + cc * SS],
                       SubSeq(data, cc * SS + 1, Len(data))))
  IN IF data = <<>> THEN Written(m, f)
     ELSE IF f.fptr % SS # 0 THEN Put([m |-> m, f |-> f])
     ELSE After(ClustToWrite(m, f), LAMBDA c :
       LET g == [f EXCEPT !.clust = c.val, !.sclust = IF @ = 0 THEN c.val ELSE @]
           s == clust2sect(c.val) + CSect(f)
       IN IF CSect(f) = 0 /\ c.val = 0 THEN Written(c.m, f)
          ELSE IF CSect(f) = 0 /\ c.val = 1 THEN Abort(c.m, f, "INT_ERR")
          ELSE IF CSect(f) = 0 /\ c.val = Bad THEN Abort(c.m, f, "DISK_ERR")
          ELSE After(WriteBack(c.m, g), LAMBDA w :
            IF ~w.ok THEN Abort(w.m, w.f, "DISK_ERR")
            ELSE IF ~IsClust(c.val) THEN Abort(w.m, w.f, "INT_ERR")
            ELSE IF cc > 0 THEN Run(w, s)
            ELSE IF w.f.dsect = s \/ f.fptr >= f.fsize
            THEN Put([m |-> w.m, f |-> [w.f EXCEPT !.dsect = s]])
            ELSE Loaded(w.m, w.f, s, Put)))

\* No file comes near 4 GB, where the code clips the length.
f_write(m, f, data) ==
  CASE f.err # "OK" -> [m |-> m, f |-> f, res |-> f.err, data |-> <<>>]
    [] f.err = "OK" /\ ~f.wr -> [m |-> m, f |-> f, res |-> "DENIED", data |-> <<>>]
    [] OTHER -> WriteFrom(m, f, data)

\* Mutant: the directory entry is left to a later write-back.
f_sync_Lazy(m, f) ==
  IF ~f.written THEN [m |-> m, f |-> f, res |-> "OK"]
  ELSE After(WriteBack(m, f), LAMBDA b :
    IF ~b.ok THEN [m |-> b.m, f |-> b.f, res |-> "DISK_ERR"]
    ELSE After(move_window(b.m, f.dir_sect), LAMBDA w :
      IF w.res # "OK" THEN [m |-> w.m, f |-> b.f, res |-> w.res]
      ELSE LET e == [w.m.win[f.dir_ptr] EXCEPT !.size = f.fsize, !.clust = f.sclust]
           IN [m |-> Edit(w.m, f.dir_ptr, e), f |-> [b.f EXCEPT !.written = FALSE], res |-> "OK"]))

\* Mutant: FA__WRITTEN is cleared before the entry is in the window.
f_sync_Early(m, f) ==
  IF ~f.written THEN [m |-> m, f |-> f, res |-> "OK"]
  ELSE After(WriteBack(m, [f EXCEPT !.written = FALSE]), LAMBDA b :
    IF ~b.ok THEN [m |-> b.m, f |-> b.f, res |-> "DISK_ERR"]
    ELSE After(move_window(b.m, f.dir_sect), LAMBDA w :
      IF w.res # "OK" THEN [m |-> w.m, f |-> b.f, res |-> w.res]
      ELSE LET e == [w.m.win[f.dir_ptr] EXCEPT !.size = f.fsize, !.clust = f.sclust]
           IN After(sync_fs(Edit(w.m, f.dir_ptr, e)), LAMBDA y :
                [m |-> y.m, f |-> b.f, res |-> y.res])))

f_sync(m, f) ==
  IF ~f.written THEN [m |-> m, f |-> f, res |-> "OK"]
  ELSE After(WriteBack(m, f), LAMBDA b :
    IF ~b.ok THEN [m |-> b.m, f |-> b.f, res |-> "DISK_ERR"]
    ELSE After(move_window(b.m, f.dir_sect), LAMBDA w :
      IF w.res # "OK" THEN [m |-> w.m, f |-> b.f, res |-> w.res]
      ELSE LET e == [w.m.win[f.dir_ptr] EXCEPT !.size = f.fsize, !.clust = f.sclust]
           IN After(sync_fs(Edit(w.m, f.dir_ptr, e)), LAMBDA y :
                [m |-> y.m, f |-> [b.f EXCEPT !.written = FALSE], res |-> y.res])))

f_close(m, f) == Then(f_sync(m, f), LAMBDA y : [y EXCEPT !.f = NoFile])

----------------------------------------------------------------------------
(* Seeking and truncating. *)

ClustBytes == CSize * SS

\* From cluster c, which holds the byte before the pointer, on to the cluster of
\* byte ofs: a file open for writing grows on the way, up to a full disk.
RECURSIVE SeekFrom(_, _, _, _)
SeekFrom(m, f, c, ofs) ==
  LET Stop(mm, o) == [m |-> mm, f |-> [f EXCEPT !.fptr = @ + o], res |-> "OK",
                      nsect |-> IF o % SS = 0 THEN 0 ELSE clust2sect(c) + o \div SS]
      Quit(mm, e, o) == [m |-> mm, f |-> [f EXCEPT !.err = e, !.fptr = @ + o],
                         res |-> e, nsect |-> 0]
  IN IF ofs <= ClustBytes
     THEN IF ofs % SS # 0 /\ ~IsClust(c) THEN Quit(m, "INT_ERR", ofs) ELSE Stop(m, ofs)
     ELSE After(IF f.wr THEN create_chain(m, c) ELSE get_fat(m, c), LAMBDA n :
            IF f.wr /\ n.val = 0 THEN Stop(n.m, ClustBytes)
            ELSE IF n.val = Bad THEN Quit(n.m, "DISK_ERR", 0)
            ELSE IF ~IsClust(n.val) THEN Quit(n.m, "INT_ERR", 0)
            ELSE SeekFrom(n.m, [f EXCEPT !.clust = n.val, !.fptr = @ + ClustBytes],
                          n.val, ofs - ClustBytes))

\* The sector that the pointer stands in the middle of is loaded; the size
\* follows the pointer.
Landed(m, f, nsect) ==
  LET Grown(r) == [m |-> r.m, res |-> "OK", data |-> <<>>,
                   f |-> IF r.f.fptr > r.f.fsize
                         THEN [r.f EXCEPT !.fsize = r.f.fptr, !.written = TRUE] ELSE r.f]
  IN IF f.fptr % SS = 0 \/ nsect = f.dsect THEN Grown([m |-> m, f |-> f])
     ELSE Swapped(m, f, nsect, Grown)

\* From the start of the file, whose first cluster may have to be made.
SeekFirst(m, f, ofs) ==
  LET z == [f EXCEPT !.fptr = 0]
  IN After(IF f.sclust = 0 THEN create_chain(m, 0) ELSE [m |-> m, val |-> f.sclust], LAMBDA n :
       CASE n.val \in {1, Bad} ->
              [m |-> n.m, f |-> [z EXCEPT !.err = FatErr(n.val)], res |-> FatErr(n.val), nsect |-> 0]
         [] n.val = 0 ->
              [m |-> n.m, f |-> [z EXCEPT !.sclust = 0, !.clust = 0], res |-> "OK", nsect |-> 0]
         [] OTHER -> SeekFrom(n.m, [z EXCEPT !.sclust = n.val, !.clust = n.val], n.val, ofs))

f_lseek(m, f, off) ==
  LET ofs == IF off > f.fsize /\ ~f.wr THEN f.fsize ELSE off
      same == f.fptr > 0 /\ (ofs - 1) \div ClustBytes >= (f.fptr - 1) \div ClustBytes
      base == ((f.fptr - 1) \div ClustBytes) * ClustBytes
      Sought == IF same THEN SeekFrom(m, [f EXCEPT !.fptr = base], f.clust, ofs - base)
                ELSE SeekFirst(m, f, ofs)
  IN IF f.err # "OK" THEN [m |-> m, f |-> f, res |-> f.err, data |-> <<>>]
     ELSE IF ofs = 0 THEN Landed(m, [f EXCEPT !.fptr = 0], 0)
     ELSE After(Sought, LAMBDA s :
            IF s.res # "OK" THEN [m |-> s.m, f |-> s.f, res |-> s.res, data |-> <<>>]
            ELSE Landed(s.m, s.f, s.nsect))

\* Mutant: the last cluster that stays is not marked as the last.
Cut_NoEnd(m, f) ==
  IF f.fptr = 0 THEN remove_chain(m, f.sclust)
  ELSE After(get_fat(m, f.clust), LAMBDA n :
         CASE n.val \in {1, Bad} -> Fail(n.m, FatErr(n.val))
           [] IsClust(n.val) -> remove_chain(n.m, n.val)
           [] OTHER -> Ok(n.m))

\* The clusters behind the pointer are given back.
Cut(m, f) ==
  IF f.fptr = 0 THEN remove_chain(m, f.sclust)
  ELSE After(get_fat(m, f.clust), LAMBDA n :
         IF n.val \in {1, Bad} THEN Fail(n.m, FatErr(n.val))
         ELSE IF n.val >= NFatEnt THEN Ok(n.m)
         ELSE Then(put_fat(n.m, f.clust, EOC), LAMBDA p : remove_chain(p.m, n.val)))

\* A failed step leaves its error in the file object.
f_truncate(m, f) ==
  LET g == [f EXCEPT !.fsize = f.fptr, !.written = TRUE,
                     !.sclust = IF f.fptr = 0 THEN 0 ELSE @]
  IN IF f.err # "OK" THEN [m |-> m, f |-> f, res |-> f.err, data |-> <<>>]
     ELSE IF ~f.wr THEN [m |-> m, f |-> f, res |-> "DENIED", data |-> <<>>]
     ELSE IF f.fsize <= f.fptr THEN [m |-> m, f |-> f, res |-> "OK", data |-> <<>>]
     ELSE After(Cut(m, f), LAMBDA c :
            IF c.res # "OK" THEN Abort(c.m, g, c.res)
            ELSE After(WriteBack(c.m, g), LAMBDA w :
                   IF ~w.ok THEN Abort(w.m, w.f, "DISK_ERR")
                   ELSE [m |-> w.m, f |-> w.f, res |-> "OK", data |-> <<>>]))

----------------------------------------------------------------------------
(* Calls on directories and entries. *)

\* Mutant: a directory is removed whatever it holds.
IsEmptyDir_Always(m, c) == Ok(m)

\* Nothing behind the dot entries of the directory at cluster c.
IsEmptyDir(m, c) ==
  After(dir_sdi(m, DirObj(c), 2), LAMBDA z :
    IF z.res # "OK" THEN Fail(z.m, z.res)
    ELSE After(dir_read(z.m, z.d, FALSE), LAMBDA r :
           CASE r.res = "OK" -> Fail(r.m, "DENIED")
             [] r.res = "NO_FILE" -> Ok(r.m)
             [] OTHER -> Fail(r.m, r.res)))

\* Mutant: the current directory can be removed.
Removable_AnyDir(m, e) ==
  IF e.clust # 0 /\ e.attr = "DIR" THEN IsEmptyDir(m, e.clust) ELSE Ok(m)

Removable(m, e) ==
  IF e.clust # 0 /\ e.attr = "DIR"
  THEN IF e.clust = m.cdir THEN Fail(m, "DENIED") ELSE IsEmptyDir(m, e.clust)
  ELSE Ok(m)

f_unlink(m, p) ==
  After(Locate(m, p), LAMBDA l :
    LET e == l.m.win[l.d.dir]
        Freed(r) == IF e.clust = 0 THEN r ELSE remove_chain(r.m, e.clust)
    IN IF l.res # "OK" THEN Fail(l.m, l.res)
       ELSE IF DotPath(p) \/ l.d.dir = NoEntry THEN Fail(l.m, "INVALID_NAME")
       ELSE IF e.ro THEN Fail(l.m, "DENIED")
       ELSE Then(Removable(l.m, e), LAMBDA chk :
              Then(Then(dir_remove(chk.m, l.d), Freed), LAMBDA c : sync_fs(c.m))))

\* The first sector of a new directory, and the blank ones behind it.
DotSector(c, parent) ==
  [BlankSector EXCEPT ![0] = [Blank EXCEPT !.name = ".", !.attr = "DIR", !.clust = c],
                      ![1] = [Blank EXCEPT !.name = "..", !.attr = "DIR", !.clust = parent]]

RECURSIVE WriteTable(_, _, _)
WriteTable(m, s, n) ==
  IF n = 0 THEN Ok(m)
  ELSE Then(sync_window([m EXCEPT !.winsect = s, !.wflag = TRUE]), LAMBDA y :
         WriteTable([y.m EXCEPT !.win = BlankSector], s + 1, n - 1))

\* The new directory in cluster c, and its entry in the directory d.
MakeTable(m, d, c, nm) ==
  LET up == IF d.sclust = DirBase THEN 0 ELSE d.sclust
      Entered(g) == [g.m.win[g.d.dir] EXCEPT !.attr = "DIR", !.clust = c]
  IN Then(sync_window(m), LAMBDA y :
       Then(WriteTable([y.m EXCEPT !.win = DotSector(c, up)], clust2sect(c), CSize), LAMBDA t :
         Then(dir_register(t.m, d, nm), LAMBDA g : Ok(Edit(g.m, g.d.dir, Entered(g))))))

\* A step that fails gives the cluster back.
f_mkdir(m, p) ==
  After(Locate(m, p), LAMBDA l :
    IF l.res = "OK" THEN Fail(l.m, "EXIST")
    ELSE IF l.res # "NO_FILE" THEN Fail(l.m, l.res)
    ELSE IF DotPath(p) THEN Fail(l.m, "INVALID_NAME")
    ELSE After(create_chain(l.m, 0), LAMBDA c :
           After(IF IsClust(c.val) THEN MakeTable(c.m, l.d, c.val, LastName(p))
                 ELSE Fail(c.m, FatErr(c.val)), LAMBDA t :
             IF t.res = "OK" THEN sync_fs(t.m)
             ELSE Fail(remove_chain(t.m, c.val).m, t.res))))

\* Mutant: the parent entry keeps the old directory.
Reparent_Never(m, e, from, to) == Ok(m)

\* The parent entry of a directory that moves to another one.
Reparent(m, e, from, to) ==
  IF e.attr # "DIR" \/ from = to THEN Ok(m)
  ELSE IF clust2sect(e.clust) = 0 THEN Fail(m, "INT_ERR")
  ELSE Then(move_window(m, clust2sect(e.clust)), LAMBDA w :
         IF w.m.win[1].name # ".." THEN w
         ELSE Ok(Edit(w.m, 1, [w.m.win[1] EXCEPT !.clust = to])))

\* The entry e of o moves to the free place n, under name nm.
MoveEntry(o, e, n, nm) ==
  After(dir_register(n.m, n.d, nm), LAMBDA g :
    IF g.res # "OK" THEN Fail(g.m, g.res)
    ELSE Then(Reparent(Edit(g.m, g.d.dir, [e EXCEPT !.name = nm]), e, o.d.sclust, g.d.sclust),
              LAMBDA u : Then(dir_remove(u.m, o.d), LAMBDA r : sync_fs(r.m))))

f_rename(m, p, q) ==
  After(Locate(m, p), LAMBDA o :
    IF o.res # "OK" THEN Fail(o.m, o.res)
    ELSE IF DotPath(p) THEN Fail(o.m, "INVALID_NAME")
    ELSE IF o.d.dir = NoEntry THEN Fail(o.m, "NO_FILE")
    ELSE After(follow_path(o.m, q), LAMBDA n :
           CASE n.res = "OK" -> Fail(n.m, "EXIST")
             [] n.res = "NO_FILE" -> MoveEntry(o, o.m.win[o.d.dir], n, LastName(q))
             [] OTHER -> Fail(n.m, n.res)))

\* A call that writes the entry of p again, as F edits it.
Rewrite(m, p, F(_, _)) ==
  After(Locate(m, p), LAMBDA l :
    IF l.res # "OK" THEN Fail(l.m, l.res)
    ELSE IF DotPath(p) \/ l.d.dir = NoEntry THEN Fail(l.m, "INVALID_NAME")
    ELSE sync_fs(F(l.m, l.d.dir)))

\* The read-only attribute; the others change nothing here.
f_chmod(m, p, ro) == Rewrite(m, p, LAMBDA mm, i : Edit(mm, i, [mm.win[i] EXCEPT !.ro = ro]))

\* The time stamp is not modelled: the entry is only written again.
f_utime(m, p) == Rewrite(m, p, LAMBDA mm, i : Edit(mm, i, mm.win[i]))

f_chdir(m, p) ==
  After(Locate(m, p), LAMBDA l :
    LET e == l.m.win[l.d.dir]
    IN IF l.res = "NO_FILE" THEN Fail(l.m, "NO_PATH")
       ELSE IF l.res # "OK" THEN Fail(l.m, l.res)
       ELSE IF l.d.dir = NoEntry THEN Ok([l.m EXCEPT !.cdir = l.d.sclust])
       ELSE IF e.attr = "DIR" THEN Ok([l.m EXCEPT !.cdir = e.clust]) ELSE Fail(l.m, "NO_PATH"))

f_stat(m, p) ==
  After(Locate(m, p), LAMBDA l :
    Fail(l.m, IF l.res = "OK" /\ l.d.dir = NoEntry THEN "INVALID_NAME" ELSE l.res))

\* From directory c up to the root; the buffer has room for that many names.
RECURSIVE PathUp(_, _, _, _)
PathUp(m, c, path, room) ==
  LET Child(e) == Valid(e, FALSE) /\ e.clust = c
      Quit(x, e) == [m |-> x.m, path |-> <<>>, res |-> e]
      Parent(mm) == Then(dir_sdi(mm, DirObj(c), 1), LAMBDA z : dir_read(z.m, z.d, FALSE))
      Find(mm, up) == Then(dir_sdi(mm, DirObj(up), 0), LAMBDA y :
                        After(Scan(y.m, y.d, Child, TRUE, FALSE), LAMBDA g :
                          IF g.res = "NO_FILE" THEN [g EXCEPT !.res = "INT_ERR"] ELSE g))
  IN IF c = 0 THEN [m |-> m, path |-> path, res |-> "OK"]
     ELSE After(Parent(m), LAMBDA r :
       IF r.res # "OK" THEN Quit(r, r.res)
       ELSE LET up == r.m.win[r.d.dir].clust
            IN After(Find(r.m, up), LAMBDA g :
                 IF g.res # "OK" THEN Quit(g, g.res)
                 ELSE IF Len(path) = room THEN Quit(g, "NOT_ENOUGH_CORE")
                 ELSE PathUp(g.m, up, <<g.m.win[g.d.dir].name>> \o path, room)))

f_getcwd(m, room) ==
  After(find_volume(m), LAMBDA v :
    IF v.res # "OK" THEN [m |-> v.m, path |-> <<>>, res |-> v.res]
    ELSE PathUp(v.m, v.m.cdir, <<>>, room))

\* The label entry of the root directory.
FindLabel(m) ==
  Then(find_volume(m), LAMBDA v :
    Then(dir_sdi(v.m, DirObj(0), 0), LAMBDA z : dir_read(z.m, z.d, TRUE)))

\* The empty label removes the entry.
f_setlabel(m, label) ==
  LET new == [Blank EXCEPT !.name = label, !.attr = "VOL"]
      old == IF label = "" THEN "DDEM" ELSE label
  IN After(FindLabel(m), LAMBDA r :
       IF r.res = "OK"
       THEN sync_fs(Edit(r.m, r.d.dir, [r.m.win[r.d.dir] EXCEPT !.name = old]))
       ELSE IF r.res # "NO_FILE" THEN Fail(r.m, r.res)
       ELSE IF label = "" THEN Ok(r.m)
       ELSE After(dir_alloc(r.m, r.d), LAMBDA a :
              IF a.res # "OK" THEN Fail(a.m, a.res) ELSE sync_fs(Edit(a.m, a.d.dir, new))))

\* The serial number is read from the boot sector.
f_getlabel(m) ==
  After(FindLabel(m), LAMBDA r :
    IF r.res \notin {"OK", "NO_FILE"} THEN Fail(r.m, r.res) ELSE move_window(r.m, VolBase))

\* The old file system object is dropped; new says whether there is a new one, and
\* opt = 1 then mounts the volume at once.
f_mount(m, new, opt) ==
  LET u == [m EXCEPT !.mounted = FALSE] IN IF new /\ opt = 1 THEN mount_volume(u) ELSE Ok(u)

\* Reading a directory: dp is a directory object, closed or with a position.
f_opendir(m, p) ==
  After(Locate(m, p), LAMBDA l :
    LET e == l.m.win[l.d.dir]
    IN IF l.res = "NO_FILE" THEN [l EXCEPT !.res = "NO_PATH"]
       ELSE IF l.res # "OK" THEN l
       ELSE IF l.d.dir = NoEntry THEN dir_sdi(l.m, l.d, 0)
       ELSE IF e.attr # "DIR" THEN [l EXCEPT !.res = "NO_PATH"]
       ELSE dir_sdi(l.m, [l.d EXCEPT !.sclust = e.clust], 0))

\* Mutant: the position does not move on.
f_readdir_Stuck(m, d) ==
  After(dir_read(m, d, FALSE), LAMBDA r :
    r @@ [name |-> IF r.res = "OK" THEN r.m.win[r.d.dir].name ELSE ""])

f_readdir(m, d) ==
  After(dir_read(m, d, FALSE), LAMBDA r :
    IF r.res \notin {"OK", "NO_FILE"} THEN r @@ [name |-> ""]
    ELSE After(dir_next(r.m, r.d, FALSE), LAMBDA x :
           [m |-> x.m, name |-> IF r.res = "OK" THEN r.m.win[r.d.dir].name ELSE "",
            d |-> IF x.res = "NO_FILE" THEN [x.d EXCEPT !.sect = 0] ELSE x.d,
            res |-> IF x.res = "NO_FILE" THEN "OK" ELSE x.res]))

\* The scan of the FAT, entries 0 and 1 included, from entry c on.
RECURSIVE CountZero(_, _, _)
CountZero(m, c, n) ==
  IF c = NFatEnt THEN [m |-> m, n |-> n, res |-> "OK"]
  ELSE After(move_window(m, FatBase + c \div EPF), LAMBDA w :
         IF w.res # "OK" THEN [m |-> w.m, n |-> n, res |-> w.res]
         ELSE CountZero(w.m, c + 1, IF w.m.win[c % EPF] = 0 THEN n + 1 ELSE n))

f_getfree(m) ==
  Then(find_volume(m), LAMBDA v :
    IF v.m.free_clust <= NFatEnt - 2 THEN Ok(v.m)
    ELSE After(CountZero(v.m, 0, 0), LAMBDA z :
           Fail([z.m EXCEPT !.free_clust = z.n, !.fsi_flag = IF @ = 0 THEN 1 ELSE @], z.res)))

----------------------------------------------------------------------------
(* The tree of an image, and with the open files fl what the application     *)
(* sees.                                                                    *)

\* The clusters from c on, n at most.
RECURSIVE Chain(_, _, _)
Chain(fat, c, n) == IF n = 0 \/ ~IsClust(c) THEN <<>> ELSE <<c>> \o Chain(fat, fat[c], n - 1)
ChainOf(img, c) == Chain(FatOf(img), c, NFatEnt)

\* The used entries of the directory at c, with their places.
Slots(img, c) ==
  LET ch == ChainOf(img, c)
      At(i) == [sect |-> clust2sect(ch[i \div ClustBytes + 1]) + (i % ClustBytes) \div SS,
                dir |-> i % SS]
      Slot(at) == [at |-> at, e |-> img[at.sect][at.dir]]
      table == [i \in 1 .. Len(ch) * ClustBytes |-> Slot(At(i - 1))]
      end == Min({i \in 1 .. Len(table) + 1 : i > Len(table) \/ table[i].e.name = ""})
  IN {table[i] : i \in {j \in 1 .. end - 1 : table[j].e.name # "DDEM"}}

\* All objects below the directory at c, with their paths.
RECURSIVE Objects(_, _, _, _)
Objects(img, c, path, depth) ==
  LET own == {[path |-> Append(path, x.e.name), at |-> x.at, e |-> x.e] :
                x \in {y \in Slots(img, c) : ~IsDot(y.e.name) /\ y.e.attr # "VOL"}}
  IN own \cup UNION {Objects(img, x.e.clust, x.path, depth - 1) :
                       x \in {y \in own : y.e.attr = "DIR" /\ depth > 0}}

MaxDepth == 3
Root(img) == Objects(img, DirBase, <<>>, MaxDepth)

\* The state of an object: of the file object that writes it, or of its entry.
At(fl, h) == [sect |-> fl[h].dir_sect, dir |-> fl[h].dir_ptr]
Writer(fl, x) == {h \in Handles : fl[h].open /\ fl[h].wr /\ At(fl, h) = x.at}
Start(fl, x) == LET w == Writer(fl, x)
                IN IF w = {} THEN x.e.clust ELSE fl[CHOOSE h \in w : TRUE].sclust
Size(fl, x) == LET w == Writer(fl, x)
               IN IF w = {} THEN x.e.size ELSE fl[CHOOSE h \in w : TRUE].fsize

\* The bytes of a file in an image, the buffer of its writer w included.
Content(img, fl, start, size, w) ==
  LET ch == ChainOf(img, start)
      Byte(i) ==
        LET s == clust2sect(ch[i \div ClustBytes + 1]) + (i % ClustBytes) \div SS
            own == {h \in w : fl[h].dirty /\ fl[h].dsect = s}
        IN (IF own = {} THEN img[s] ELSE fl[CHOOSE h \in own : TRUE].buf)[i % SS]
  IN [i \in 1 .. size |-> Byte(i - 1)]

\* The tree and the open files as the application sees them.
View(m, fl) ==
  LET img == IF m.mounted THEN Live(m) ELSE m.disk
      objs == Root(img)
      Node(x) == [dir |-> x.e.attr = "DIR",
                  data |-> IF x.e.attr = "DIR" THEN <<>>
                           ELSE Content(img, fl, Start(fl, x), Size(fl, x), Writer(fl, x))]
  IN [tree |-> [p \in {x.path : x \in objs} |-> Node(CHOOSE x \in objs : x.path = p)],
      hnd |-> [h \in Handles |->
                 IF ~fl[h].open THEN [open |-> FALSE]
                 ELSE [open |-> TRUE, rd |-> fl[h].rd, wr |-> fl[h].wr, pos |-> fl[h].fptr,
                       path |-> (CHOOSE x \in objs : x.at = At(fl, h)).path]]]

----------------------------------------------------------------------------
(* The state machine. *)

Faults == {NoFault} \cup (IF faults = 0 THEN [kind : FaultKinds, k : 1 .. MaxIo] ELSE {})

Answer(res, put, got) == [res |-> res, put |-> put, got |-> got,
                          on |-> {}, ended |-> NoFile]
Running == ret.res # "POWER"

\* The names in the directory at c.
NamesAt(m, c) ==
  {x.e.name : x \in {y \in Slots(Live(m), IF c = 0 THEN DirBase ELSE c) : y.e.attr # "VOL"}}
Watch(d, m) == IF d.open THEN [d EXCEPT !.stay = @ \cap NamesAt(m, d.d.sclust)] ELSE d

\* The end of a call.  A fault counts if the call came to the access it strikes;
\* a power cut leaves what had reached the disk; on are the names of the call.
Leave(io, r, f, d, a, on) ==
  /\ io = NoFault \/ r.m.n >= io.k
  /\ calls' = calls + 1
  /\ disk' = r.m.disk
  /\ faults' = IF io = NoFault THEN faults ELSE faults + 1
  /\ IF io.kind = "cut"
     THEN /\ fs' = Unmounted
          /\ fil' = [h \in Handles |-> NoFile]
          /\ dp' = NoDir
          /\ ret' = [Answer("POWER", <<>>, <<>>) EXCEPT !.on = on]
          /\ UNCHANGED seen
     ELSE /\ fs' = [x \in DOMAIN fs |-> r.m[x]]
          /\ fil' = f
          /\ dp' = Watch(d, r.m)
          /\ ret' = a
          /\ seen' = View(r.m, f)

ReturnDir(io, r, f, d, a, on) == Leave(io, r, f, d, a, on) /\ UNCHANGED <<reg, CurrVol>>
Return(io, r, f, a, on) == ReturnDir(io, r, f, dp, a, on)

OpenAt(s, i) == {h \in Handles : fil[h].open /\ fil[h].dir_sect = s /\ fil[h].dir_ptr = i}

\* The open files that path p names.
OpenAs(p) ==
  After(Locate(Machine(NoFault), p), LAMBDA l :
    IF l.res = "OK" THEN OpenAt(l.d.sect, l.d.dir) ELSE {})

\* A call on an open file.
OnFile(h, io, r, put) ==
  Return(io, r, [fil EXCEPT ![h] = r.f], Answer(r.res, put, r.data), {})

FOpen(h, p, mode) ==
  /\ ~fil[h].open
  /\ \A g \in OpenAs(p) : ~fil[g].wr /\ ~mode.wr
  /\ \E io \in Faults : \E r \in {f_open(Machine(io), p, mode)} :
       Return(io, r, [fil EXCEPT ![h] = r.fp], Answer(r.res, <<>>, <<>>), {p.seg})

FRead(h, n) ==
  /\ fil[h].open
  /\ \E io \in Faults : \E r \in {f_read(Machine(io), fil[h], n)} : OnFile(h, io, r, <<>>)

FWrite(h, d) ==
  /\ fil[h].open /\ fil[h].fptr + Len(d) <= MaxSize
  /\ \E io \in Faults : \E r \in {f_write(Machine(io), fil[h], d)} : OnFile(h, io, r, d)

FSeek(h, ofs) ==
  /\ fil[h].open
  /\ \E io \in Faults : \E r \in {f_lseek(Machine(io), fil[h], ofs)} : OnFile(h, io, r, <<>>)

FTruncate(h) ==
  /\ fil[h].open
  /\ \E io \in Faults : \E r \in {f_truncate(Machine(io), fil[h])} : OnFile(h, io, r, <<>>)

FSync(h) ==
  /\ fil[h].open
  /\ \E io \in Faults : \E r \in {f_sync(Machine(io), fil[h])} :
       Return(io, r, [fil EXCEPT ![h] = r.f], Answer(r.res, <<>>, <<>>), {})

FClose(h) ==
  /\ fil[h].open
  /\ \E io \in Faults : \E r \in {f_close(Machine(io), fil[h])} :
       LET ended == IF r.res = "OK" THEN fil[h] ELSE NoFile
       IN Return(io, r, [fil EXCEPT ![h] = r.f],
                 [Answer(r.res, <<>>, <<>>) EXCEPT !.ended = ended], {})

\* A call by name that leaves the open files alone.
OnVolume(Op(_), on) ==
  \E io \in Faults : \E r \in {Op(Machine(io))} :
    Return(io, r, fil, Answer(r.res, <<>>, <<>>), on)

\* Path p does not name the directory that is being read.
NotRead(p) ==
  After(Locate(Machine(NoFault), p), LAMBDA l :
    dp.open /\ l.res = "OK" /\ l.d.dir # NoEntry => l.m.win[l.d.dir].clust # dp.d.sclust)

FUnlink(p) ==
  LET Op(m) == f_unlink(m, p) IN OpenAs(p) = {} /\ NotRead(p) /\ OnVolume(Op, {p.seg})

FMkdir(p) == LET Op(m) == f_mkdir(m, p) IN OnVolume(Op, {p.seg})

\* The application does not move a directory into itself.
MovesInside(o, n) ==
  LET e == o.m.win[o.d.dir]
  IN /\ o.res = "OK" /\ o.d.dir # NoEntry /\ e.attr = "DIR"
     /\ \/ n.d.sclust = e.clust
        \/ \E x \in Objects(Live(o.m), e.clust, <<>>, MaxDepth) : n.d.sclust = x.e.clust

FRename(p, q) ==
  LET Op(m) == f_rename(m, p, q)
  IN /\ OpenAs(p) = {}
     /\ \E o \in {Locate(Machine(NoFault), p)}, n \in {Locate(Machine(NoFault), q)} :
          ~MovesInside(o, n)
     /\ OnVolume(Op, {p.seg, q.seg})

FChmod(p, ro) == LET Op(m) == f_chmod(m, p, ro) IN OnVolume(Op, {p.seg})
FChdir(p) == LET Op(m) == f_chdir(m, p) IN OnVolume(Op, {p.seg})
FStat(p) == LET Op(m) == f_stat(m, p) IN OnVolume(Op, {p.seg})
FUtime(p) == LET Op(m) == f_utime(m, p) IN OnVolume(Op, {p.seg})
FSetLabel(l) == LET Op(m) == f_setlabel(m, l) IN OnVolume(Op, {})
FGetLabel == OnVolume(f_getlabel, {})
FGetCwd(room) == LET Op(m) == f_getcwd(m, room) IN OnVolume(Op, {})

\* The application mounts the volume anew, or unmounts it, only while it has nothing
\* open; it names drive 0.
FMount(new, opt) ==
  /\ (\A h \in Handles : ~fil[h].open) /\ ~dp.open
  /\ \E io \in Faults : \E r \in {f_mount(Machine(io), new, opt)} :
       Leave(io, r, fil, dp, Answer(r.res, <<>>, <<>>), {})
  /\ reg' = new /\ UNCHANGED CurrVol

FChDrive(vol) ==
  /\ Leave(NoFault, Ok(Machine(NoFault)), fil, dp, Answer("OK", <<>>, <<>>), {})
  /\ CurrVol' = vol /\ UNCHANGED reg

\* A call on the directory object.
OnDir(io, r, d) == ReturnDir(io, r, fil, d, Answer(r.res, <<>>, <<>>), {})
Rewound(m, d) == [open |-> TRUE, d |-> d, got |-> <<>>, stay |-> NamesAt(m, d.sclust)]

FOpenDir(p) ==
  /\ ~dp.open
  /\ \E io \in Faults : \E r \in {f_opendir(Machine(io), p)} :
       OnDir(io, r, IF r.res = "OK" THEN Rewound(r.m, r.d) ELSE NoDir)

FReadDir ==
  /\ dp.open
  /\ \E io \in Faults : \E r \in {f_readdir(Machine(io), dp.d)} :
       OnDir(io, r, [dp EXCEPT !.d = r.d, !.got = IF r.name = "" THEN @ ELSE Append(@, r.name)])

FRewindDir ==
  /\ dp.open
  /\ \E io \in Faults : \E r \in {dir_sdi(Machine(io), dp.d, 0)} :
       OnDir(io, r, Rewound(r.m, r.d))

FCloseDir == dp.open /\ OnDir(NoFault, Ok(Machine(NoFault)), NoDir)

FGetFree == OnVolume(f_getfree, {})

\* A freshly made volume: the root directory has one cluster; FSInfo has the
\* number of free clusters, or says that it is not known.
FatSector(i) == [j \in 0 .. EPF - 1 |->
                   IF i * EPF + j < 2 \/ i * EPF + j = DirBase \/ i * EPF + j >= NFatEnt
                   THEN EOC ELSE 0]

Formatted(info) ==
  [s \in Sectors |-> CASE s = FsInfo -> info
                       [] s \in FatBase .. DataBase - 1 -> FatSector((s - FatBase) % FatSecs)
                       [] s \in DataBase .. DataBase + CSize - 1 -> BlankSector
                       [] OTHER -> ZeroSector]

Init ==
  /\ disk \in {Formatted([free |-> n, nxt |-> 2]) : n \in {NFatEnt - 3, Bad}}
  /\ fs = Unmounted /\ reg = TRUE /\ CurrVol = 0
  /\ fil = [h \in Handles |-> NoFile]
  /\ dp = NoDir
  /\ ret = Answer("OK", <<>>, <<>>)
  /\ seen = View(Machine(NoFault), fil)
  /\ calls = 0 /\ faults = 0

FileCalls ==
  \/ \E h \in Handles :
       \/ \E p \in Paths, mode \in Modes : FOpen(h, p, mode)
       \/ \E n \in Counts : FRead(h, n)
       \/ \E n \in Counts, b \in Bytes : FWrite(h, [i \in 1 .. n |-> b])
       \/ \E ofs \in Offsets : FSeek(h, ofs)
       \/ FTruncate(h)
       \/ FSync(h)
       \/ FClose(h)
  \/ \E p \in Paths : FUnlink(p)
  \/ FGetFree

TreeCalls(paths) ==
  \/ \E p \in paths : \/ FMkdir(p)
                      \/ FChdir(p)
                      \/ \E ro \in BOOLEAN : FChmod(p, ro)
                      \/ \E q \in paths \ {p} : FRename(p, q)
  \/ \E l \in Labels : FSetLabel(l)
  \/ \E new \in BOOLEAN, opt \in 0 .. 1 : FMount(new, opt)
  \/ \E vol \in 0 .. 1 : FChDrive(vol)

\* Calls that change nothing but the window.
Queries(paths) ==
  \/ \E p \in paths : FStat(p) \/ FUtime(p)
  \/ \E room \in {0, MaxDepth} : FGetCwd(room)
  \/ FGetLabel

DirCalls(paths) ==
  \/ \E p \in paths : FOpenDir(p)
  \/ FReadDir
  \/ FRewindDir
  \/ FCloseDir

\* The application makes no more calls, or the power is gone.
Done == (calls = MaxCalls \/ ~Running) /\ UNCHANGED vars

Next == \/ calls < MaxCalls /\ Running /\ (FileCalls \/ TreeCalls(Paths) \/ DirCalls(Paths) \/ Queries(Paths))
        \/ Done

Spec == Init /\ [][Next]_vars

----------------------------------------------------------------------------
(* Properties. *)

Image == Live(Machine(NoFault))
SetOf(s) == {s[i] : i \in DOMAIN s}

\* The chains of a set of objects and of the root directory end, are as long as
\* the sizes say and share no cluster.
Sound(img, fl, objs) ==
  LET fat == FatOf(img)
      root == Chain(fat, DirBase, NFatEnt)
      ch == [x \in objs |-> Chain(fat, Start(fl, x), NFatEnt)]
      Ends(c) == Len(c) < NFatEnt /\ (c # <<>> => fat[c[Len(c)]] = EOC)
  IN /\ Ends(root)
     /\ \A x \in objs : /\ Ends(ch[x]) /\ SetOf(ch[x]) \cap SetOf(root) = {}
                        /\ IF x.e.attr = "DIR" THEN ch[x] # <<>>
                           ELSE Len(ch[x]) * ClustBytes >= Size(fl, x)
                        /\ \A y \in objs : x # y => SetOf(ch[x]) \cap SetOf(ch[y]) = {}

\* The volume is sound after every call: chains end, cover the size of their
\* file and share no cluster (create_chain, remove_chain, f_truncate, f_lseek
\* and f_rename all relink them), no link of the FAT leads to a free cluster, to
\* the same one as another or in a circle, the names of a directory are distinct, the
\* parent entry of a directory leads to its parent, and a clean window is what
\* its sector holds (file data go past the window; FSInfo may not have arrived).
VolumeSound ==
  fs.mounted =>
    LET img == Image
        objs == Root(img)
        ClustAt(p) == IF p = <<>> THEN 0 ELSE (CHOOSE x \in objs : x.path = p).e.clust
    IN /\ Sound(img, fil, objs) /\ SoundTable(FatOf(img))
       /\ \A x, y \in objs : x.path = y.path => x = y
       /\ ~fs.wflag /\ fs.winsect \notin {Bad, FsInfo} => fs.win = disk[fs.winsect]
       /\ \A x \in objs : x.e.attr = "DIR" =>
            LET up == clust2sect(x.e.clust)
            IN /\ img[up][0].clust = x.e.clust
               /\ img[up][1].clust = ClustAt(SubSeq(x.path, 1, Len(x.path) - 1))

\* No cluster is lost: a cluster is marked as used exactly if it is in a chain,
\* and a known number of free clusters is the right one (CountFree in
\* create_chain, remove_chain; f_getfree; FSInfo).
NothingLost ==
  fs.mounted =>
    LET fat == FatOf(Image)
        heads == {Start(fil, x) : x \in Root(Image)} \cup {DirBase}
        used == UNION {SetOf(Chain(fat, c, NFatEnt)) : c \in heads}
    IN /\ {c \in Clusters : fat[c] # 0} = used
       /\ fs.free_clust # Bad => fs.free_clust = Cardinality(Clusters \ used)

\* A file that was closed is saved: when f_close returns OK, no file has changed for
\* the application.  The size, the start and the bytes that only the file object had
\* are in the volume, even if f_sync failed before at any of its accesses and f_close
\* repeats it.  A file object in which a write was aborted keeps no such promise.
ClosedIsSaved ==
  [][ret'.ended.open /\ ret'.ended.err = "OK" => seen'.tree = seen.tree]_vars

\* After a loss of power the disk holds every file that the interrupted call does
\* not name and that was not open for writing: its entry, its chain and its bytes,
\* in whatever order the window, the buffers and FSInfo were written.
Durable ==
  ~Running =>
    \A p \in DOMAIN seen.tree :
      \/ seen.tree[p].dir \/ p \in ret.on
      \/ \E h \in Handles : seen.hnd[h].open /\ seen.hnd[h].wr /\ seen.hnd[h].path = p
      \/ \E x \in Root(disk) :
           /\ x.path = p /\ x.e.size = Len(seen.tree[p].data)
           /\ Content(disk, fil, x.e.clust, x.e.size, {}) = seen.tree[p].data

\* A listing is complete: f_readdir returns every name that stays in the directory
\* while it is read once, and by the end of the table all of them, whatever is made,
\* removed or renamed beside it between two reads.
ListingComplete ==
  dp.open =>
    \A nm \in dp.stay :
      LET n == Cardinality({i \in DOMAIN dp.got : dp.got[i] = nm})
      IN n <= 1 /\ (dp.d.sect = 0 => n = 1)

\* f_getcwd finds its way: the parent entries lead from the current directory to
\* the root, and the path names the current directory.
CwdNamed ==
  fs.mounted /\ CurrVol = 0 =>
    After(f_getcwd(Machine(NoFault), MaxDepth + 1), LAMBDA r :
      /\ r.res = "OK"
      /\ IF fs.cdir = 0 THEN r.path = <<>>
         ELSE \E x \in Root(Image) : x.path = r.path /\ x.e.clust = fs.cdir)

Store == INSTANCE FileStore WITH tree <- seen.tree, hnd <- seen.hnd,
                                 arg <- ret.put, out <- ret.got

\* Seen from the application, the calls of ff.c are those of a plain store of
\* files: what is read is what was written last, through the window, the buffers,
\* the direct transfers and the chains, and a call changes no other file.
ImplementsFileStore == Store!Spec
=============================================================================
