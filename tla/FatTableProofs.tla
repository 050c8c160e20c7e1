--------------------------- MODULE FatTableProofs ---------------------------
(***************************************************************************)
(* Proofs about FatTable: what the window, get_fat, put_fat, remove_chain, *)
(* create_chain and sync_fs do, on a volume of any size, while the disk    *)
(* may fail.                                                               *)
(***************************************************************************)
EXTENDS FatTable, TLAPS

CONSTANT Contents    \* what a sector outside the FAT may hold

----------------------------------------------------------------------------
(* The layout of the volume. *)

\* The second copy of the FAT, which is only written.
InCopy(s) == s \in FatBase + FatSecs .. DataBase - 1

Places == {s \in Sectors : ~InCopy(s)}

\* The sector of a cluster's entry, and the place in it.
EntrySect(c) == FatBase + c \div EPF

EntryAt(c) == c % EPF

\* Division of natural numbers.
LEMMA DivDef ==
  ASSUME NEW a \in Nat, NEW d \in Nat \ {0}
  PROVE  /\ a \div d \in Nat /\ a % d \in 0 .. d - 1
         /\ a = d * (a \div d) + (a % d)
  OBVIOUS

\* The product of positive numbers.
LEMMA MulPos ==
  ASSUME NEW a \in Nat \ {0}, NEW b \in Nat \ {0}
  PROVE  a * b \in Nat /\ a * b >= 1
  OBVIOUS

\* The FAT has room for its entries.
LEMMA FatSecsEnough ==
  /\ FatSecs \in Nat
  /\ \A c \in Clusters : c \div EPF \in 0 .. FatSecs - 1
<1> DEFINE q == FatSecs
<1>1. EPF \in Nat \ {0} /\ NFatEnt \in Nat /\ NFatEnt + EPF - 1 \in Nat
  BY FatAssumption
<1>2. q \in Nat /\ NFatEnt + EPF - 1 < EPF * q + EPF
  BY <1>1, DivDef DEF FatSecs
<1> HIDE DEF q
<1>3. ASSUME NEW c \in Clusters PROVE c \div EPF \in 0 .. q - 1
  <2> DEFINE p == c \div EPF
  <2>1. c \in Nat /\ c <= NFatEnt - 1
    BY <1>1 DEF Clusters
  <2>2. p \in Nat /\ EPF * p <= c
    <3>1. p \in Nat /\ c % EPF \in Nat /\ c = EPF * p + (c % EPF)
      BY <1>1, <2>1, DivDef
    <3>2. EPF * p \in Nat
      BY <3>1, <1>1
    <3> HIDE DEF p
    <3> QED
      BY <3>1, <3>2, <2>1
  <2> HIDE DEF p
  <2>3. EPF * p < EPF * q
    BY <1>1, <1>2, <2>1, <2>2
  <2>4. p < q
    <3>1. SUFFICES ASSUME p >= q PROVE FALSE
      BY <1>2, <2>2
    <3>2. EPF * p >= EPF * q
      BY <1>1, <1>2, <2>2, <3>1
    <3> QED
      BY <3>2, <2>3, <1>1, <1>2, <2>2
  <2> QED
    BY <1>2, <2>2, <2>4 DEF p
<1> QED
  BY <1>2, <1>3 DEF q

\* The sectors of the FAT and its copy are on the disk, before the data.
LEMMA Layout ==
  /\ FatSecs \in Nat /\ DataBase \in Nat /\ FatBase = 2 /\ FsInfo = 1
  /\ DataBase = IF NFats = 2 THEN FatBase + FatSecs + FatSecs ELSE FatBase + FatSecs
  /\ Sectors \subseteq Nat /\ Bad \notin Sectors /\ ~InFat(Bad) /\ ~InFat(FsInfo)
  /\ \A s \in Int : s \in 0 .. DataBase - 1 => s \in Sectors /\ s # Bad
  /\ \A s \in Nat : InFat(s) => s \in Places /\ s # FsInfo /\ s # Bad /\ ~InCopy(s)
  /\ \A s \in Nat : InFat(s) /\ NFats = 2 => InCopy(s + FatSecs) /\ s + FatSecs \in Sectors
  /\ FsInfo \in Places
<1>1. FatSecs \in Nat /\ NFats \in {1, 2} /\ Bad \in Nat
  BY FatSecsEnough, FatAssumption
<1>2. DataBase = IF NFats = 2 THEN FatBase + FatSecs + FatSecs ELSE FatBase + FatSecs
  BY <1>1 DEF DataBase, FatBase, VolBase
<1> DEFINE size == (NFatEnt - 2) * CSize
<1>3. size \in Nat /\ DataBase + size <= Bad /\ size >= 1
  <2>1. NFatEnt - 2 \in Nat \ {0} /\ CSize \in Nat \ {0}
    BY FatAssumption
  <2>2. size \in Nat /\ size >= 1
    BY <2>1, MulPos, Zenon
  <2> QED
    BY <2>2, FatAssumption
<1>4. Sectors = 0 .. DataBase + size - 1
  BY DEF Sectors, VolBase
<1> HIDE DEF size
<1> QED
  BY <1>1, <1>2, <1>3, <1>4 DEF FatBase, VolBase, FsInfo, InFat, InCopy, Places

\* The entry of a cluster is in the FAT, and no two clusters share one.
LEMMA EntryPlace ==
  ASSUME NEW c \in Clusters
  PROVE  /\ c \in Nat /\ IsClust(c) /\ EntrySect(c) \in Nat
         /\ InFat(EntrySect(c)) /\ EntryAt(c) \in 0 .. EPF - 1
         /\ EntrySect(c) \in Places \ {FsInfo, Bad}
         /\ \A d \in Clusters : EntrySect(c) = EntrySect(d) /\ EntryAt(c) = EntryAt(d) => c = d
<1>1. c \in Nat /\ EPF \in Nat \ {0} /\ IsClust(c)
  BY FatAssumption DEF Clusters, IsClust
<1>2. c \div EPF \in 0 .. FatSecs - 1 /\ FatSecs \in Nat
  BY FatSecsEnough
<1>3. EntrySect(c) \in Nat /\ InFat(EntrySect(c))
  BY <1>2 DEF EntrySect, InFat, FatBase, VolBase
<1>4. EntryAt(c) \in 0 .. EPF - 1
  BY <1>1, DivDef DEF EntryAt
<1>5. ASSUME NEW d \in Clusters, EntrySect(c) = EntrySect(d), EntryAt(c) = EntryAt(d)
      PROVE  c = d
  <2>1. d \in Nat
    BY FatAssumption DEF Clusters
  <2>2. d \div EPF = c \div EPF
    <3>1. d \div EPF \in Int /\ c \div EPF \in Int
      BY <1>1, <2>1, DivDef
    <3> QED
      BY <3>1, <1>5 DEF EntrySect, FatBase, VolBase
  <2> QED
    BY <2>1, <2>2, <1>1, <1>5, DivDef, Zenon DEF EntryAt
<1> QED
  BY <1>1, <1>3, <1>4, <1>5, Layout

----------------------------------------------------------------------------
(* The machine and its window. *)

Tables == [0 .. EPF - 1 -> 0 .. EOC]

Stored == Tables \cup Contents \cup [free : Int, nxt : Int]

MachineRecords ==
  [disk : [Sectors -> Stored], n : Nat, kind : {"none", "err", "cut"}, k : Nat,
   mounted : BOOLEAN, win : Stored, winsect : Places \cup {Bad}, wflag : BOOLEAN,
   free_clust : Int, last_clust : Nat, fsi_flag : Int, cdir : Int]

\* A dirty window has a sector, and the sectors of the FAT hold entries.
Machines ==
  {m \in MachineRecords : /\ m.wflag => m.winsect # Bad
                          /\ InFat(m.winsect) => m.win \in Tables
                          /\ \A s \in Sectors : InFat(s) => m.disk[s] \in Tables}

\* A clean window is what its sector holds; FSInfo alone may not have reached the disk.
WinRight(m) == ~m.wflag /\ m.winsect \notin {Bad, FsInfo} => m.win = m.disk[m.winsect]

\* The fault of the call struck on the way from m to t.
Struck(m, t) == m.kind = "err" /\ m.n < m.k /\ m.k <= t.n

\* The fields of the FATFS object other than the window.
Keeps(m, t) ==
  /\ t.n >= m.n /\ t.k = m.k /\ t.kind = m.kind
  /\ t.mounted = m.mounted /\ t.cdir = m.cdir
  /\ t.free_clust = m.free_clust /\ t.last_clust = m.last_clust /\ t.fsi_flag = m.fsi_flag

\* Outside the FAT only the sector in the window is written, with what is in the window.
Spares(m, t) ==
  /\ \A s \in Places : ~InFat(s) /\ s # FsInfo =>
       t.disk[s] = m.disk[s] \/ (s = m.winsect /\ m.wflag /\ t.disk[s] = m.win)
  /\ \/ t.winsect \in {Bad, FsInfo} \/ InFat(t.winsect)
     \/ t.winsect = m.winsect /\ t.win = m.win /\ (t.wflag => m.wflag)

\* The file system sees the same sectors.
Sees(m, t) == \A s \in Places \ {FsInfo} : Live(t)[s] = Live(m)[s]

\* What the functions do that change no entry.
Moves(m, t) ==
  /\ t \in Machines /\ Keeps(m, t) /\ Spares(m, t)
  /\ m.kind # "cut" /\ WinRight(m) => WinRight(t) /\ Sees(m, t)

\* One after the other.
LEMMA SparesOn ==
  ASSUME NEW m \in Machines, NEW t \in Machines, NEW u \in Machines, Spares(m, t), Spares(t, u)
  PROVE  Spares(m, u)
<1>1. ASSUME NEW s \in Places, ~InFat(s), s # FsInfo
      PROVE  u.disk[s] = m.disk[s] \/ (s = m.winsect /\ m.wflag /\ u.disk[s] = m.win)
  <2>1. s # Bad
    BY Layout DEF Places
  <2> QED
    BY <1>1, <2>1 DEF Spares
<1> QED
  BY <1>1 DEF Spares

\* Two moves of the window in a row are one move.
LEMMA MovesOn ==
  ASSUME NEW m \in Machines, NEW t \in Machines, NEW u \in Machines, Moves(m, t), Moves(t, u)
  PROVE  Moves(m, u)
<1>1. Spares(m, u)
  BY SparesOn DEF Moves
<1>2. Keeps(m, u)
  BY DEF Moves, Keeps, Machines, MachineRecords
<1>3. m.kind # "cut" /\ WinRight(m) => WinRight(u) /\ Sees(m, u)
  BY DEF Moves, Keeps, Sees
<1> QED
  BY <1>1, <1>2, <1>3 DEF Moves

\* A function that changes nothing.
LEMMA MovesNone ==
  ASSUME NEW m \in Machines
  PROVE  Moves(m, m)
  BY DEF Moves, Keeps, Spares, Sees, Machines, MachineRecords

\* w is the outcome of writing d to s.
Wrote(m, s, d, w) ==
  /\ w.m \in Machines /\ Keeps(m, w.m)
  /\ w.m.win = m.win /\ w.m.winsect = m.winsect /\ w.m.wflag = m.wflag
  /\ w.m.disk \in {m.disk, [m.disk EXCEPT ![s] = d]}
  /\ m.kind # "cut" /\ w.ok => w.m.disk = [m.disk EXCEPT ![s] = d]
  /\ ~w.ok => w.m.disk = m.disk /\ Struck(m, w.m)
  /\ w.ok \in BOOLEAN

\* disk_write.
LEMMA DiskWrite ==
  ASSUME NEW m \in Machines, NEW s \in Sectors, NEW d \in Stored, InFat(s) => d \in Tables
  PROVE  Wrote(m, s, d, disk_write(m, s, d))
<1>0. PICK w : w = disk_write(m, s, d)
  OBVIOUS
<1> DEFINE t == Tick(m)
<1>1. /\ t \in Machines /\ t.disk = m.disk /\ t.n = m.n + 1 /\ t.k = m.k /\ t.kind = m.kind
      /\ t.win = m.win /\ t.winsect = m.winsect /\ t.wflag = m.wflag /\ Keeps(m, t)
  BY DEF Tick, Machines, MachineRecords, Keeps
<1> DEFINE u == [t EXCEPT !.disk[s] = d]
<1>2. /\ u \in Machines /\ u.disk = [m.disk EXCEPT ![s] = d] /\ u.n = t.n
      /\ u.win = m.win /\ u.winsect = m.winsect /\ u.wflag = m.wflag /\ Keeps(m, u)
  <2> HIDE DEF t
  <2>1. u \in MachineRecords /\ u.disk = [t.disk EXCEPT ![s] = d]
    BY <1>1 DEF Machines, MachineRecords
  <2>2. /\ u.n = t.n /\ u.k = t.k /\ u.kind = t.kind /\ u.mounted = t.mounted /\ u.cdir = t.cdir
        /\ u.free_clust = t.free_clust /\ u.last_clust = t.last_clust /\ u.fsi_flag = t.fsi_flag
        /\ u.win = m.win /\ u.winsect = m.winsect /\ u.wflag = m.wflag
    BY <1>1 DEF Machines, MachineRecords
  <2>3. \A q \in Sectors : InFat(q) => u.disk[q] \in Tables
    BY <2>1, <1>1 DEF Machines, MachineRecords
  <2> HIDE DEF u
  <2>4. u \in Machines
    BY <2>1, <2>2, <2>3, <1>1, Zenon DEF Machines
  <2> QED
    BY <2>1, <2>2, <2>4, <1>1 DEF Keeps
<1>3. w = [m |-> IF Fails(t) \/ Dead(t) THEN t ELSE u, ok |-> ~Fails(t)]
  BY <1>0, Zenon DEF disk_write
<1>4. Fails(t) => Struck(m, t)
  BY <1>1 DEF Fails, Struck, Machines, MachineRecords
<1>5. m.kind # "cut" => ~Dead(t)
  BY <1>1 DEF Dead
<1> HIDE DEF t, u
<1>6. w.m = (IF Fails(t) \/ Dead(t) THEN t ELSE u) /\ w.ok = ~Fails(t) /\ Fails(t) \in BOOLEAN
  BY <1>3 DEF Fails
<1>7. Wrote(m, s, d, w)
  <2>1. CASE w.m = u /\ ~Fails(t)
    BY <1>2, <1>6, <2>1, Zenon DEF Wrote
  <2>2. CASE w.m = t /\ Fails(t)
    BY <1>1, <1>4, <1>6, <2>2, Zenon DEF Wrote
  <2>3. CASE w.m = t /\ ~Fails(t) /\ Dead(t)
    BY <1>1, <1>5, <1>6, <2>3, Zenon DEF Wrote
  <2> QED
    BY <1>6, <2>1, <2>2, <2>3
<1> QED
  BY <1>0, <1>7, Zenon

\* disk_read.
LEMMA DiskRead ==
  ASSUME NEW m \in Machines, NEW s \in Sectors, NEW r, r = disk_read(m, s)
  PROVE  /\ r.m \in Machines /\ Keeps(m, r.m) /\ r.m.disk = m.disk
         /\ r.m.win = m.win /\ r.m.winsect = m.winsect /\ r.m.wflag = m.wflag
         /\ r.data = m.disk[s] /\ r.ok \in BOOLEAN
         /\ ~r.ok => Struck(m, r.m)
<1> DEFINE t == Tick(m)
<1>1. /\ t \in Machines /\ t.disk = m.disk /\ t.n = m.n + 1 /\ t.k = m.k /\ t.kind = m.kind
      /\ t.win = m.win /\ t.winsect = m.winsect /\ t.wflag = m.wflag /\ Keeps(m, t)
  BY DEF Tick, Machines, MachineRecords, Keeps
<1>2. r = [m |-> t, ok |-> ~Fails(t), data |-> t.disk[s]]
  BY Zenon DEF disk_read
<1>3. Fails(t) => Struck(m, t)
  BY <1>1 DEF Fails, Struck, Machines, MachineRecords
<1> HIDE DEF t
<1>4. r.m = t /\ r.ok = ~Fails(t) /\ r.data = t.disk[s] /\ Fails(t) \in BOOLEAN
  BY <1>2 DEF Fails
<1> QED
  BY <1>1, <1>3, <1>4, Zenon

\* The dirty flag is cleared.
LEMMA Cleaned ==
  ASSUME NEW m \in Machines, NEW t, t = [m EXCEPT !.wflag = FALSE]
  PROVE  /\ t \in Machines /\ Keeps(m, t) /\ t.win = m.win /\ t.winsect = m.winsect
         /\ ~t.wflag /\ t.disk = m.disk
<1>1. m \in MachineRecords
  BY Zenon DEF Machines
<1>2. /\ t \in MachineRecords /\ t.win = m.win /\ t.winsect = m.winsect
      /\ t.wflag = FALSE /\ t.disk = m.disk
  BY <1>1, Zenon DEF MachineRecords
<1>3. Keeps(m, t)
  BY <1>1 DEF MachineRecords, Keeps
<1> QED
  BY <1>2, <1>3, Zenon DEF Machines

\* sync_window: afterwards the window is clean, unless the disk failed.
LEMMA SyncWindow ==
  ASSUME NEW m \in Machines, NEW y, y = sync_window(m)
  PROVE  /\ Moves(m, y.m) /\ y.m.win = m.win /\ y.m.winsect = m.winsect
         /\ y.res \in {"OK", "DISK_ERR"}
         /\ y.res = "OK" => ~y.m.wflag
         /\ y.res # "OK" => Struck(m, y.m)
<1>1. CASE ~m.wflag
  <2>1. y = [m |-> m, res |-> "OK"]
    BY <1>1, Zenon DEF sync_window, Ok
  <2>2. y.m = m /\ y.res = "OK"
    BY <2>1
  <2> QED
    BY <2>2, <1>1, MovesNone
<1>2. CASE m.wflag
  <2>0. PICK w : w = disk_write(m, m.winsect, m.win)
    OBVIOUS
  <2> DEFINE c == [w.m EXCEPT !.wflag = FALSE]
             z == disk_write(c, m.winsect + FatSecs, m.win)
  <2>1. y = IF ~w.ok THEN [m |-> w.m, res |-> "DISK_ERR"]
            ELSE IF InFat(m.winsect) /\ NFats = 2 THEN [m |-> z.m, res |-> "OK"]
            ELSE [m |-> c, res |-> "OK"]
    BY <1>2, <2>0, Zenon DEF sync_window, After, Fail, Ok
  <2>2. /\ m.winsect \in Places /\ m.winsect \in Sectors /\ m.win \in Stored
        /\ InFat(m.winsect) => m.win \in Tables
    BY <1>2 DEF Machines, MachineRecords, Places
  <2>3. /\ w.m \in Machines /\ Keeps(m, w.m)
        /\ w.m.win = m.win /\ w.m.winsect = m.winsect /\ w.m.wflag = m.wflag
        /\ w.m.disk \in {m.disk, [m.disk EXCEPT ![m.winsect] = m.win]}
        /\ m.kind # "cut" /\ w.ok => w.m.disk = [m.disk EXCEPT ![m.winsect] = m.win]
        /\ ~w.ok => w.m.disk = m.disk /\ Struck(m, w.m)
    <3>1. Wrote(m, m.winsect, m.win, w)
      BY <2>0, <2>2, DiskWrite, Zenon
    <3> QED
      BY <3>1 DEF Wrote
  <2>4. /\ c \in Machines /\ Keeps(m, c) /\ c.win = m.win /\ c.winsect = m.winsect
        /\ ~c.wflag /\ c.disk = w.m.disk
    <3>1. /\ c \in Machines /\ Keeps(w.m, c) /\ c.win = w.m.win /\ c.winsect = w.m.winsect
          /\ ~c.wflag /\ c.disk = w.m.disk
      BY <2>3, Cleaned, Zenon
    <3> HIDE DEF c
    <3> QED
      BY <2>3, <3>1 DEF Machines, MachineRecords, Keeps
  <2> HIDE DEF c
  <2>5. ASSUME NEW t \in Machines, Keeps(m, t), t.win = m.win, t.winsect = m.winsect,
               t.wflag => m.wflag,
               \A s \in Places : t.disk[s] = m.disk[s] \/ (s = m.winsect /\ t.disk[s] = m.win),
               m.kind # "cut" => t.wflag \/ t.disk[m.winsect] = m.win
        PROVE  Moves(m, t)
    <3>1. Spares(m, t)
      BY <2>5, <1>2 DEF Spares
    <3>2. m.kind # "cut" => WinRight(t)
      BY <2>5 DEF WinRight
    <3>3. Sees(m, t)
      BY <2>5 DEF Sees, Live, Places
    <3> QED
      BY <3>1, <3>2, <3>3, <2>5 DEF Moves
  <2>6. CASE ~w.ok
    <3>1. y.m = w.m /\ y.res = "DISK_ERR"
      BY <2>1, <2>6
    <3>2. Moves(m, w.m)
      BY <2>3, <2>5, <2>6, <1>2, Zenon
    <3> QED
      BY <3>1, <3>2, <2>3, <2>6
  <2>7. CASE w.ok /\ ~(InFat(m.winsect) /\ NFats = 2)
    <3>1. y.m = c /\ y.res = "OK"
      BY <2>1, <2>7
    <3>2. \A s \in Places : c.disk[s] = m.disk[s] \/ (s = m.winsect /\ c.disk[s] = m.win)
      BY <2>2, <2>3, <2>4 DEF Machines, MachineRecords, Places
    <3>3. m.kind # "cut" => c.disk[m.winsect] = m.win
      BY <2>2, <2>3, <2>4, <2>7 DEF Machines, MachineRecords
    <3>4. Moves(m, c)
      BY <3>2, <3>3, <2>4, <2>5
    <3> QED
      BY <3>1, <3>4, <2>4
  <2>8. CASE w.ok /\ InFat(m.winsect) /\ NFats = 2
    <3> DEFINE q == m.winsect + FatSecs
    <3>1. q \in Sectors /\ q \notin Places /\ ~InFat(q) /\ q # m.winsect
      <4>1. m.winsect \in Nat /\ InCopy(q) /\ q \in Sectors /\ q \in Nat
        BY <2>2, <2>8, Layout, Zenon
      <4>2. ~InFat(q)
        BY <4>1, Layout DEF InFat, InCopy
      <4> QED
        BY <4>1, <4>2, <2>8 DEF Places
    <3>2. y.m = z.m /\ y.res = "OK"
      BY <2>1, <2>8
    <3> HIDE DEF q
    <3>3. /\ z.m \in Machines /\ Keeps(c, z.m)
          /\ z.m.win = c.win /\ z.m.winsect = c.winsect /\ z.m.wflag = c.wflag
          /\ z.m.disk \in {c.disk, [c.disk EXCEPT ![q] = m.win]}
      <4>1. PICK v : v = disk_write(c, q, m.win)
        OBVIOUS
      <4>2. z = v
        BY <4>1 DEF q
      <4>3. c \in Machines /\ q \in Sectors /\ m.win \in Stored /\ (InFat(q) => m.win \in Tables)
        BY <3>1, <2>2, <2>4, Zenon
      <4> HIDE DEF z
      <4>4. /\ v.m \in Machines /\ Keeps(c, v.m)
            /\ v.m.win = c.win /\ v.m.winsect = c.winsect /\ v.m.wflag = c.wflag
            /\ v.m.disk \in {c.disk, [c.disk EXCEPT ![q] = m.win]}
        <5>1. Wrote(c, q, m.win, v)
          BY <4>1, <4>3, DiskWrite, Zenon
        <5> QED
          BY <5>1 DEF Wrote
      <4> QED
        BY <4>2, <4>4, Zenon
    <3> HIDE DEF z
    <3>4. \A s \in Places : z.m.disk[s] = c.disk[s]
      BY <3>1, <3>3, <2>4 DEF Machines, MachineRecords, Places
    <3>5. \A s \in Places : c.disk[s] = m.disk[s] \/ (s = m.winsect /\ c.disk[s] = m.win)
      BY <2>2, <2>3, <2>4 DEF Machines, MachineRecords, Places
    <3>6. m.kind # "cut" => c.disk[m.winsect] = m.win
      BY <2>2, <2>3, <2>4, <2>8 DEF Machines, MachineRecords
    <3>7. Keeps(m, z.m)
      BY <2>4, <3>3 DEF Keeps, Machines, MachineRecords
    <3>8. Moves(m, z.m)
      BY <3>3, <3>4, <3>5, <3>6, <3>7, <2>2, <2>4, <2>5
    <3> QED
      BY <3>2, <3>3, <3>8, <2>4
  <2> QED
    BY <2>6, <2>7, <2>8
<1> QED
  BY <1>1, <1>2 DEF Machines, MachineRecords

\* The window takes over the content d of sector s, or is dropped.
Take(m, s, d) == [m EXCEPT !.winsect = s, !.win = d]

Holds(m, s, d) ==
  \/ s = Bad /\ d = m.win
  \/ s \in Nat /\ InFat(s) /\ d = m.disk[s]

\* Bringing a sector into a window that is written back loses nothing, as move_window
\* does it: the bytes come from the disk, or the window is marked invalid.
LEMMA Taken ==
  ASSUME NEW m \in Machines, ~m.wflag, NEW s, NEW d, Holds(m, s, d)
  PROVE  Moves(m, Take(m, s, d)) /\ Take(m, s, d).winsect = s
<1> USE DEF Holds
<1> DEFINE t == Take(m, s, d)
<1>1. m \in MachineRecords
  BY Zenon DEF Machines
<1>2. s \in Places \cup {Bad} /\ d \in Stored /\ (InFat(s) => d \in Tables) /\ (s # Bad => s \in Sectors)
  BY <1>1, Layout DEF Machines, MachineRecords, Places
<1>3. /\ t \in MachineRecords /\ t.win = d /\ t.winsect = s /\ t.disk = m.disk
      /\ t.wflag = m.wflag
  BY <1>1, <1>2, Zenon DEF MachineRecords, Take
<1>4. Keeps(m, t)
  BY <1>1 DEF MachineRecords, Keeps, Take
<1> HIDE DEF t
<1>5. t \in Machines
  BY <1>2, <1>3 DEF Machines
<1>6. Spares(m, t)
  BY <1>3 DEF Spares
<1>7. WinRight(t)
  BY <1>2, <1>3 DEF WinRight
<1>8. ASSUME WinRight(m), NEW q \in Places \ {FsInfo} PROVE Live(t)[q] = Live(m)[q]
  <2>1. q \in Sectors /\ q # Bad
    BY Layout DEF Places
  <2>2. Live(t)[q] = m.disk[q]
    BY <2>1, <1>2, <1>3 DEF Live
  <2>3. Live(m)[q] = m.disk[q]
    BY <2>1, <1>8 DEF Live, WinRight
  <2> QED
    BY <2>2, <2>3
<1>9. Moves(m, t)
  BY <1>3, <1>4, <1>5, <1>6, <1>7, <1>8 DEF Moves, Sees
<1> QED
  BY <1>3, <1>9 DEF t

\* The fault that struck in one of two steps struck on the way.
LEMMA StruckOn ==
  ASSUME NEW m \in Machines, NEW t \in Machines, NEW u \in Machines, Keeps(m, t), Keeps(t, u),
         Struck(m, t) \/ Struck(t, u)
  PROVE  Struck(m, u)
  BY DEF Struck, Keeps, Machines, MachineRecords

\* move_window, to a sector of the FAT.
LEMMA MoveWindow ==
  ASSUME NEW m \in Machines, NEW s \in Nat, InFat(s), NEW w, w = move_window(m, s)
  PROVE  /\ Moves(m, w.m) /\ w.res \in {"OK", "DISK_ERR"}
         /\ w.res = "OK" => w.m.winsect = s
         /\ w.res # "OK" => Struck(m, w.m)
<1>1. CASE s = m.winsect
  <2>1. w = [m |-> m, res |-> "OK"]
    BY <1>1, Zenon DEF move_window, Ok
  <2>2. w.m = m /\ w.res = "OK"
    BY <2>1
  <2> QED
    BY <2>2, <1>1, MovesNone
<1>2. CASE s # m.winsect
  <2>1. PICK y : y = sync_window(m)
    OBVIOUS
  <2>2. PICK r : r = disk_read(y.m, s)
    OBVIOUS
  <2>3. PICK a, b : /\ a = Take(r.m, s, r.data) /\ b = [r.m EXCEPT !.winsect = Bad]
                    /\ w = IF y.res = "OK"
                           THEN IF r.ok THEN [m |-> a, res |-> "OK"]
                                ELSE [m |-> b, res |-> "DISK_ERR"]
                           ELSE y
    BY <1>2, <2>1, <2>2, Zenon DEF move_window, Then, After, Ok, Fail, Take
  <2>4. /\ Moves(m, y.m) /\ y.res \in {"OK", "DISK_ERR"}
        /\ y.res = "OK" => ~y.m.wflag
        /\ y.res # "OK" => Struck(m, y.m)
    BY <2>1, SyncWindow
  <2>5. CASE y.res # "OK"
    BY <2>3, <2>4, <2>5
  <2>6. CASE y.res = "OK"
    <3>1. y.m \in Machines /\ s \in Sectors
      BY <2>4, Layout DEF Moves, Places
    <3>2. /\ r.m \in Machines /\ Keeps(y.m, r.m) /\ r.m.disk = y.m.disk
          /\ r.m.win = y.m.win /\ r.m.winsect = y.m.winsect /\ r.m.wflag = y.m.wflag
          /\ r.data = y.m.disk[s] /\ r.ok \in BOOLEAN
          /\ ~r.ok => Struck(y.m, r.m)
      BY <2>2, <3>1, DiskRead
    <3>3. Moves(y.m, r.m)
      BY <3>1, <3>2 DEF Moves, Spares, Sees, Live, WinRight
    <3>4. Moves(m, r.m)
      BY <3>1, <3>2, <3>3, <2>4, MovesOn
    <3>5. Struck(y.m, r.m) => Struck(m, r.m)
      BY <3>1, <3>2, <2>4, StruckOn DEF Moves
    <3>6. CASE r.ok
      <4>1. w.m = a /\ w.res = "OK"
        BY <2>3, <2>6, <3>6
      <4>2. Moves(r.m, a) /\ a.winsect = s
        <5>1. r.m \in Machines /\ ~r.m.wflag /\ Holds(r.m, s, r.data)
          BY <3>2, <2>4, <2>6 DEF Holds
        <5>2. Moves(r.m, Take(r.m, s, r.data)) /\ Take(r.m, s, r.data).winsect = s
          BY <5>1, Taken, Zenon
        <5> QED
          BY <5>2, <2>3, Zenon
      <4>3. Moves(m, a)
        BY <3>2, <3>4, <4>2, MovesOn DEF Moves
      <4> QED
        BY <4>1, <4>2, <4>3
    <3>7. CASE ~r.ok
      <4>1. w.m = b /\ w.res = "DISK_ERR"
        BY <2>3, <2>6, <3>7
      <4>2. b = Take(r.m, Bad, r.m.win)
        BY <2>3, <3>2, Zenon DEF Machines, MachineRecords, Take
      <4>3. Moves(r.m, b)
        <5>1. r.m \in Machines /\ ~r.m.wflag /\ Holds(r.m, Bad, r.m.win)
          BY <3>2, <2>4, <2>6 DEF Holds
        <5>2. Moves(r.m, Take(r.m, Bad, r.m.win))
          BY <5>1, Taken, Zenon
        <5> QED
          BY <5>2, <4>2, Zenon
      <4>4. Moves(m, b)
        BY <3>2, <3>4, <4>3, MovesOn DEF Moves
      <4>5. Struck(m, b)
        <5>1. Struck(m, r.m)
          BY <3>2, <3>5, <3>7
        <5> QED
          BY <5>1, <3>2, <3>4, <4>3, StruckOn DEF Moves
      <4> QED
        BY <4>1, <4>4, <4>5
    <3> QED
      BY <3>2, <3>6, <3>7
  <2> QED
    BY <2>5, <2>6
<1> QED
  BY <1>1, <1>2

----------------------------------------------------------------------------
(* Entries of the FAT. *)

Table(m) == FatOf(Live(m))

Healthy(m) == m.kind # "cut" /\ WinRight(m)

\* What every function keeps: the fault, the volume, and the sectors outside the FAT.
Steps(m, t) ==
  /\ t \in Machines /\ Spares(m, t)
  /\ t.n >= m.n /\ t.k = m.k /\ t.kind = m.kind /\ t.mounted = m.mounted /\ t.cdir = m.cdir
  /\ Healthy(m) => /\ Healthy(t)
                   /\ \A s \in Places \ {FsInfo} : ~InFat(s) => Live(t)[s] = Live(m)[s]

\* FSInfo, which is kept in the FATFS object.
SameCount(m, t) ==
  t.free_clust = m.free_clust /\ t.last_clust = m.last_clust /\ t.fsi_flag = m.fsi_flag

\* Two steps in a row are one step: what each spares, both spare.
LEMMA StepsOn ==
  ASSUME NEW m \in Machines, NEW t \in Machines, NEW u \in Machines, Steps(m, t), Steps(t, u)
  PROVE  Steps(m, u)
<1>1. Spares(m, u)
  BY SparesOn DEF Steps
<1>2. u.n >= m.n
  BY DEF Steps, Machines, MachineRecords
<1> QED
  BY <1>1, <1>2 DEF Steps

\* The fault struck early, or late.
LEMMA StruckSteps ==
  ASSUME NEW m \in Machines, NEW t \in Machines, NEW u \in Machines, Steps(m, t), Steps(t, u),
         Struck(m, t) \/ Struck(t, u)
  PROVE  Struck(m, u)
<1>1. m.n \in Nat /\ m.k \in Nat /\ t.n \in Nat /\ t.k \in Nat /\ u.n \in Nat /\ u.k \in Nat
  BY DEF Machines, MachineRecords
<1>2. t.n >= m.n /\ t.k = m.k /\ t.kind = m.kind /\ u.n >= t.n /\ u.k = t.k /\ u.kind = t.kind
  BY Zenon DEF Steps
<1> QED
  BY <1>1, <1>2 DEF Struck

\* What is seen of a FAT sector.
LEMMA LiveTables ==
  ASSUME NEW m \in Machines, NEW s \in Nat, InFat(s)
  PROVE  Live(m)[s] \in Tables /\ (s = m.winsect => Live(m)[s] = m.win)
<1>1. s \in Sectors
  BY Layout DEF Places
<1>2. Live(m)[s] = IF s = m.winsect THEN m.win ELSE m.disk[s]
  BY <1>1 DEF Live
<1> QED
  BY <1>1, <1>2 DEF Machines

\* The entries are numbers of 28 bits.
LEMMA TableType ==
  ASSUME NEW m \in Machines
  PROVE  /\ Table(m) \in [Clusters -> 0 .. EOC]
         /\ \A c \in Clusters : Table(m)[c] = Live(m)[EntrySect(c)][EntryAt(c)]
<1>1. ASSUME NEW c \in Clusters
      PROVE  Live(m)[EntrySect(c)][EntryAt(c)] \in 0 .. EOC
  <2>1. EntrySect(c) \in Nat /\ InFat(EntrySect(c)) /\ EntryAt(c) \in 0 .. EPF - 1
    BY EntryPlace
  <2>2. Live(m)[EntrySect(c)] \in Tables
    BY <2>1, LiveTables
  <2> QED
    BY <2>1, <2>2, Zenon DEF Tables
<1> QED
  BY <1>1 DEF Table, FatOf, EntrySect, EntryAt

\* Moving the window changes no entry.
LEMMA MovesSteps ==
  ASSUME NEW m \in Machines, NEW t, Moves(m, t)
  PROVE  /\ t \in Machines /\ Steps(m, t) /\ SameCount(m, t)
         /\ Healthy(m) => Table(t) = Table(m)
<1>1. t \in Machines /\ SameCount(m, t) /\ Keeps(m, t)
  BY DEF Moves, Keeps, SameCount
<1>2. Steps(m, t)
  BY DEF Moves, Keeps, Steps, Healthy, Sees
<1>3. ASSUME Healthy(m) PROVE Table(t) = Table(m)
  <2>1. ASSUME NEW c \in Clusters PROVE Table(t)[c] = Table(m)[c]
    <3>1. EntrySect(c) \in Places \ {FsInfo}
      BY EntryPlace
    <3>2. Live(t)[EntrySect(c)] = Live(m)[EntrySect(c)]
      BY <3>1, <1>3 DEF Moves, Healthy, Sees
    <3> QED
      BY <3>2, <1>1, TableType
  <2> QED
    BY <2>1, <1>1, TableType
<1> QED
  BY <1>1, <1>2, <1>3

\* get_fat returns the entry as the file system sees it, or finds the disk failing.
LEMMA GetFat ==
  ASSUME NEW m \in Machines, NEW c \in Clusters
  PROVE  LET g == get_fat(m, c) IN
         /\ Moves(m, g.m)
         /\ g.val = Bad => Struck(m, g.m)
         /\ g.val # Bad => g.val \in 0 .. EOC
         /\ g.val # Bad /\ Healthy(m) => g.val = Table(m)[c]
<1> DEFINE s == EntrySect(c)
<1>1. IsClust(c) /\ s \in Nat /\ InFat(s) /\ EntryAt(c) \in 0 .. EPF - 1
  BY EntryPlace
<1>2. PICK w : w = move_window(m, s)
  OBVIOUS
<1>3. PICK g : /\ g = get_fat(m, c)
               /\ g = [m |-> w.m, val |-> IF w.res = "OK" THEN w.m.win[c % EPF] ELSE Bad]
  BY <1>1, <1>2, Zenon DEF get_fat, After, EntrySect
<1> HIDE DEF s
<1>4. /\ Moves(m, w.m) /\ w.res \in {"OK", "DISK_ERR"}
      /\ w.res = "OK" => w.m.winsect = s
      /\ w.res # "OK" => Struck(m, w.m)
  BY <1>1, <1>2, MoveWindow
<1>5. w.m \in Machines /\ (Healthy(m) => Table(w.m) = Table(m))
  BY <1>4, MovesSteps
<1>6. g.m = w.m /\ g.val = IF w.res = "OK" THEN w.m.win[EntryAt(c)] ELSE Bad
  BY <1>3 DEF EntryAt
<1>7. CASE w.res = "OK"
  <2>1. Live(w.m)[s] \in Tables /\ Live(w.m)[s] = w.m.win
    BY <1>1, <1>4, <1>5, <1>7, LiveTables
  <2>2. g.val = Table(w.m)[c]
    BY <1>5, <1>6, <1>7, <2>1, TableType DEF s
  <2>3. g.val \in 0 .. EOC /\ Bad \notin 0 .. EOC
    BY <2>2, <1>5, TableType, FatAssumption
  <2> QED
    BY <1>3, <1>4, <1>5, <1>6, <2>2, <2>3
<1>8. CASE w.res # "OK"
  BY <1>3, <1>4, <1>6, <1>8
<1> QED
  BY <1>7, <1>8

\* An entry is changed in the window, which is at its sector.
LEMMA Edited ==
  ASSUME NEW m \in Machines, NEW c \in Clusters, NEW v \in 0 .. EOC, m.winsect = EntrySect(c)
  PROVE  LET t == Edit(m, EntryAt(c), v) IN
         /\ t \in Machines /\ Steps(m, t) /\ SameCount(m, t) /\ t.n = m.n
         /\ Table(t) = [Table(m) EXCEPT ![c] = v]
<1> DEFINE t == Edit(m, EntryAt(c), v)
<1>1. /\ m \in MachineRecords /\ InFat(m.winsect) /\ m.win \in Tables /\ m.winsect \in Nat
      /\ EntryAt(c) \in 0 .. EPF - 1 /\ m.winsect \in Sectors /\ m.winsect # Bad
  BY EntryPlace DEF Machines, Places
<1>2. [m.win EXCEPT ![EntryAt(c)] = v] \in Tables
  BY <1>1 DEF Tables
<1>3. /\ t \in MachineRecords /\ t.win = [m.win EXCEPT ![EntryAt(c)] = v] /\ t.winsect = m.winsect
      /\ t.wflag = TRUE /\ t.disk = m.disk
  <2>1. t = [m EXCEPT !.win = [m.win EXCEPT ![EntryAt(c)] = v], !.wflag = TRUE]
    BY <1>1 DEF Edit, MachineRecords
  <2> HIDE DEF t
  <2> QED
    BY <1>1, <1>2, <2>1, Zenon DEF MachineRecords, Stored
<1>4. Keeps(m, t) /\ t.n = m.n
  BY <1>1 DEF MachineRecords, Keeps, Edit
<1> HIDE DEF t
<1>5. t \in Machines
  BY <1>1, <1>2, <1>3 DEF Machines
<1>6. \A s \in Sectors : s # m.winsect => Live(t)[s] = Live(m)[s]
  BY <1>3 DEF Live
<1>7. Live(t)[m.winsect] = t.win /\ Live(m)[m.winsect] = m.win
  BY <1>1, <1>3 DEF Live
<1>8. Steps(m, t)
  <2>1. Spares(m, t)
    BY <1>1, <1>3 DEF Spares
  <2>2. WinRight(t)
    BY <1>3 DEF WinRight
  <2>3. \A s \in Places \ {FsInfo} : ~InFat(s) => Live(t)[s] = Live(m)[s]
    BY <1>1, <1>6 DEF Places
  <2> QED
    BY <2>1, <2>2, <2>3, <1>4, <1>5 DEF Steps, Keeps, Healthy
<1>9. ASSUME NEW d \in Clusters PROVE Table(t)[d] = IF d = c THEN v ELSE Table(m)[d]
  <2>1. EntrySect(d) \in Sectors /\ EntryAt(d) \in 0 .. EPF - 1
    BY EntryPlace DEF Places
  <2>2. EntrySect(d) = EntrySect(c) /\ EntryAt(d) = EntryAt(c) => d = c
    BY EntryPlace
  <2>3. Table(t)[d] = Live(t)[EntrySect(d)][EntryAt(d)] /\ Table(m)[d] = Live(m)[EntrySect(d)][EntryAt(d)]
    BY <1>5, TableType
  <2>4. CASE EntrySect(d) # EntrySect(c)
    BY <2>1, <2>3, <2>4, <1>6
  <2>5. CASE EntrySect(d) = EntrySect(c)
    <3>1. t.win[EntryAt(d)] = IF EntryAt(d) = EntryAt(c) THEN v ELSE m.win[EntryAt(d)]
      BY <1>1, <1>3, <2>1, Zenon DEF Tables
    <3> QED
      BY <3>1, <2>2, <2>3, <2>5, <1>7
  <2> QED
    BY <2>4, <2>5
<1>10. Table(t) = [Table(m) EXCEPT ![c] = v]
  <2>1. Table(t) \in [Clusters -> 0 .. EOC] /\ Table(m) \in [Clusters -> 0 .. EOC]
    BY <1>5, TableType
  <2> QED
    BY <2>1, <1>9
<1> QED
  BY <1>4, <1>5, <1>8, <1>10 DEF t, Keeps, SameCount

\* put_fat changes the one entry, or finds the disk failing and changes none.
LEMMA PutFat ==
  ASSUME NEW m \in Machines, NEW c \in Clusters, NEW v \in 0 .. EOC
  PROVE  LET p == put_fat(m, c, v) IN
         /\ p.m \in Machines /\ Steps(m, p.m) /\ SameCount(m, p.m)
         /\ p.res \in {"OK", "DISK_ERR"}
         /\ p.res # "OK" => Struck(m, p.m)
         /\ Healthy(m) => Table(p.m) = IF p.res = "OK" THEN [Table(m) EXCEPT ![c] = v] ELSE Table(m)
<1> DEFINE s == EntrySect(c)
<1>1. IsClust(c) /\ s \in Nat /\ InFat(s) /\ EntryAt(c) \in 0 .. EPF - 1
  BY EntryPlace
<1>2. PICK w : w = move_window(m, s)
  OBVIOUS
<1>3. PICK p : /\ p = put_fat(m, c, v)
               /\ p = IF w.res = "OK" THEN [m |-> Edit(w.m, EntryAt(c), v), res |-> "OK"] ELSE w
  BY <1>1, <1>2, Zenon DEF put_fat, Then, Ok, EntrySect, EntryAt
<1>4. /\ Moves(m, w.m) /\ w.res \in {"OK", "DISK_ERR"}
      /\ w.res = "OK" => w.m.winsect = s
      /\ w.res # "OK" => Struck(m, w.m)
  BY <1>1, <1>2, MoveWindow
<1>5. /\ w.m \in Machines /\ Steps(m, w.m) /\ SameCount(m, w.m)
      /\ Healthy(m) => Table(w.m) = Table(m)
  BY <1>4, MovesSteps
<1>6. CASE w.res = "OK"
  <2>1. PICK t : t = Edit(w.m, EntryAt(c), v)
    OBVIOUS
  <2>2. p.m = t /\ p.res = "OK"
    BY <1>3, <1>6, <2>1
  <2>3. /\ t \in Machines /\ Steps(w.m, t) /\ SameCount(w.m, t)
        /\ Table(t) = [Table(w.m) EXCEPT ![c] = v]
    BY <1>4, <1>5, <1>6, <2>1, Edited
  <2>4. Steps(m, t)
    BY <1>5, <2>3, StepsOn
  <2> QED
    BY <1>3, <1>5, <2>2, <2>3, <2>4 DEF SameCount
<1>7. CASE w.res # "OK"
  BY <1>3, <1>4, <1>5, <1>7
<1> QED
  BY <1>6, <1>7

\* The number of free clusters, when it is known, changes by d.
CountBy(m, t, d) == t.free_clust = IF m.free_clust = Bad THEN Bad ELSE m.free_clust + d

\* CountFree.
LEMMA Counted ==
  ASSUME NEW m \in Machines, NEW d \in Int
  PROVE  LET t == CountFree(m, d) IN
         /\ t \in Machines /\ Steps(m, t) /\ t.n = m.n /\ t.last_clust = m.last_clust
         /\ Table(t) = Table(m)
         /\ CountBy(m, t, d)
<1> DEFINE t == CountFree(m, d)
<1>1. m \in MachineRecords
  BY Zenon DEF Machines
<1>2. /\ t \in MachineRecords /\ t.disk = m.disk /\ t.win = m.win /\ t.winsect = m.winsect
      /\ t.wflag = m.wflag /\ t.n = m.n /\ t.k = m.k /\ t.kind = m.kind /\ t.mounted = m.mounted
      /\ t.cdir = m.cdir /\ t.last_clust = m.last_clust
      /\ t.free_clust = IF m.free_clust = Bad THEN Bad ELSE m.free_clust + d
  <2>1. CASE m.free_clust = Bad
    BY <1>1, <2>1 DEF CountFree
  <2>2. CASE m.free_clust # Bad
    <3>1. PICK f \in Int : t = [m EXCEPT !.free_clust = m.free_clust + d, !.fsi_flag = f]
      <4>1. 1 \in Int /\ m.fsi_flag \in Int
        BY <1>1 DEF MachineRecords
      <4>2. CASE m.fsi_flag = 0
        BY <4>1, <4>2, <2>2, <1>1, Zenon DEF CountFree, MachineRecords
      <4>3. CASE m.fsi_flag # 0
        BY <4>1, <4>3, <2>2, <1>1, Zenon DEF CountFree, MachineRecords
      <4> QED
        BY <4>2, <4>3, Zenon
    <3> HIDE DEF t
    <3>2. m.free_clust + d \in Int
      BY <1>1 DEF MachineRecords
    <3>3. t \in MachineRecords
      BY <3>1, <3>2, <1>1, Zenon DEF MachineRecords
    <3>4. /\ t.disk = m.disk /\ t.win = m.win /\ t.winsect = m.winsect
          /\ t.wflag = m.wflag /\ t.n = m.n /\ t.k = m.k /\ t.kind = m.kind
      BY <3>1, <1>1 DEF MachineRecords
    <3>5. /\ t.mounted = m.mounted /\ t.cdir = m.cdir /\ t.last_clust = m.last_clust
          /\ t.free_clust = m.free_clust + d
      BY <3>1, <1>1 DEF MachineRecords
    <3> QED
      BY <3>3, <3>4, <3>5, <2>2
  <2> QED
    BY <2>1, <2>2
<1> HIDE DEF t
<1>3. t \in Machines
  BY <1>2 DEF Machines
<1>4. Live(t) = Live(m)
  BY <1>2, Zenon DEF Live
<1>5. Steps(m, t)
  BY <1>1, <1>2, <1>3, <1>4 DEF Steps, Spares, Healthy, WinRight, MachineRecords
<1> QED
  BY <1>2, <1>3, <1>4, <1>5 DEF t, Table, CountBy

\* A number is a cluster or get_fat takes it for an internal error.
LEMMA ClusterOrNot ==
  ASSUME NEW m, NEW c \in Nat
  PROVE  /\ IsClust(c) <=> c \in Clusters
         /\ ~IsClust(c) => get_fat(m, c) = [m |-> m, val |-> 1]
<1>1. IsClust(c) <=> c \in Clusters
  BY FatAssumption DEF IsClust, Clusters
<1>2. ~IsClust(c) => get_fat(m, c) = [m |-> m, val |-> 1]
  BY Zenon DEF get_fat
<1> QED
  BY <1>1, <1>2

----------------------------------------------------------------------------
(* sync_fs. *)

\* FSInfo takes the window.
LEMMA InfoTaken ==
  ASSUME NEW m \in Machines, ~m.wflag, NEW info \in [free : Int, nxt : Int]
  PROVE  LET t == [m EXCEPT !.win = info, !.winsect = FsInfo] IN
         /\ t \in Machines /\ Moves(m, t) /\ t.disk = m.disk /\ ~t.wflag /\ t.winsect = FsInfo
<1>1. PICK t : t = [m EXCEPT !.win = info, !.winsect = FsInfo]
  OBVIOUS
<1>2. m \in MachineRecords /\ info \in Stored /\ FsInfo \in Places /\ ~InFat(FsInfo)
  BY Layout DEF Machines, Stored
<1>3. t \in MachineRecords
  BY <1>1, <1>2, Zenon DEF MachineRecords
<1>4. /\ t.disk = m.disk /\ t.win = info /\ t.winsect = FsInfo /\ t.wflag = m.wflag
      /\ t.n = m.n /\ t.k = m.k /\ t.kind = m.kind
  BY <1>1, <1>2 DEF MachineRecords
<1>5. /\ t.mounted = m.mounted /\ t.cdir = m.cdir /\ t.last_clust = m.last_clust
      /\ t.free_clust = m.free_clust /\ t.fsi_flag = m.fsi_flag
  BY <1>1, <1>2 DEF MachineRecords
<1>6. t \in Machines
  BY <1>2, <1>3, <1>4 DEF Machines
<1>7. WinRight(m) => \A s \in Places \ {FsInfo} : Live(t)[s] = Live(m)[s]
  <2>1. ASSUME WinRight(m), NEW s \in Places \ {FsInfo} PROVE Live(t)[s] = Live(m)[s]
    <3>1. s \in Sectors /\ s # Bad
      BY Layout DEF Places
    <3>2. Live(t)[s] = m.disk[s]
      BY <3>1, <1>4 DEF Live
    <3>3. Live(m)[s] = IF s = m.winsect THEN m.win ELSE m.disk[s]
      BY <3>1 DEF Live
    <3> QED
      BY <2>1, <3>1, <3>2, <3>3 DEF WinRight
  <2> QED
    BY <2>1
<1>8. Moves(m, t)
  BY <1>2, <1>4, <1>5, <1>6, <1>7 DEF Moves, Keeps, Spares, Sees, WinRight, MachineRecords
<1> QED
  BY <1>1, <1>4, <1>6, <1>8

\* The flag of FSInfo is taken back.
LEMMA FlagCleared ==
  ASSUME NEW m \in Machines
  PROVE  LET t == [m EXCEPT !.fsi_flag = 0] IN
         /\ t \in Machines /\ Steps(m, t) /\ Sees(m, t) /\ t.n = m.n
         /\ t.wflag = m.wflag /\ t.fsi_flag = 0
<1>1. PICK t : t = [m EXCEPT !.fsi_flag = 0]
  BY Zenon
<1>2. m \in MachineRecords
  BY Zenon DEF Machines
<1>3. t \in MachineRecords
  BY <1>1, <1>2 DEF MachineRecords
<1>4. /\ t.disk = m.disk /\ t.win = m.win /\ t.winsect = m.winsect
      /\ t.wflag = m.wflag /\ t.n = m.n /\ t.k = m.k /\ t.kind = m.kind
  BY <1>1, <1>2 DEF MachineRecords
<1>5. t.mounted = m.mounted /\ t.cdir = m.cdir /\ t.fsi_flag = 0
  BY <1>1, <1>2 DEF MachineRecords
<1>6. t \in Machines
  BY <1>3, <1>4 DEF Machines
<1>7. Live(t) = Live(m)
  BY <1>4, Zenon DEF Live
<1>8. Steps(m, t)
  BY <1>2, <1>4, <1>5, <1>6, <1>7 DEF Steps, Spares, Healthy, WinRight, MachineRecords
<1> QED
  BY <1>1, <1>4, <1>5, <1>6, <1>7, <1>8 DEF Sees

\* disk_sync.
LEMMA DiskSync ==
  ASSUME NEW m \in Machines, NEW z, z = disk_sync(m)
  PROVE  /\ Moves(m, z.m) /\ z.m.wflag = m.wflag /\ z.ok \in BOOLEAN
         /\ ~z.ok => Struck(m, z.m)
<1>1. PICK s : s \in Sectors
  BY Layout
<1>2. PICK r : r = disk_read(m, s)
  OBVIOUS
<1>3. z.m = r.m /\ z.ok = r.ok
  BY <1>2 DEF disk_sync, disk_read
<1>4. /\ r.m \in Machines /\ Keeps(m, r.m) /\ r.m.disk = m.disk
      /\ r.m.win = m.win /\ r.m.winsect = m.winsect /\ r.m.wflag = m.wflag
      /\ r.ok \in BOOLEAN /\ (~r.ok => Struck(m, r.m))
  BY <1>1, <1>2, DiskRead
<1>5. Live(r.m) = Live(m)
  BY <1>4, Zenon DEF Live
<1>6. Moves(m, r.m)
  BY <1>4, <1>5 DEF Moves, Spares, Sees, WinRight, Machines, MachineRecords
<1> QED
  BY <1>3, <1>4, <1>6

\* FSInfo is written, or lost, and no other sector.
LEMMA InfoWritten ==
  ASSUME NEW m \in Machines, ~m.wflag, m.winsect = FsInfo, NEW info \in Stored
  PROVE  LET w == disk_write(m, FsInfo, info) IN Moves(m, w.m) /\ ~w.m.wflag
<1>1. PICK w : w = disk_write(m, FsInfo, info)
  OBVIOUS
<1>2. FsInfo \in Sectors /\ ~InFat(FsInfo)
  BY Layout DEF Places
<1>3. /\ w.m \in Machines /\ Keeps(m, w.m)
      /\ w.m.win = m.win /\ w.m.winsect = m.winsect /\ w.m.wflag = m.wflag
      /\ w.m.disk \in {m.disk, [m.disk EXCEPT ![FsInfo] = info]}
  <2>1. InFat(FsInfo) => info \in Tables
    BY <1>2
  <2>2. Wrote(m, FsInfo, info, w)
    BY <1>1, <1>2, <2>1, DiskWrite, Zenon
  <2> QED
    BY <2>2 DEF Wrote
<1>4. m.disk \in [Sectors -> Stored]
  BY DEF Machines, MachineRecords
<1>5. \A s \in Places : s \in Sectors /\ (s # FsInfo => w.m.disk[s] = m.disk[s])
  BY <1>3, <1>4 DEF Places
<1>6. Sees(m, w.m)
  BY <1>3, <1>5 DEF Sees, Live
<1>7. Spares(m, w.m)
  BY <1>3, <1>5 DEF Spares
<1>8. WinRight(w.m)
  BY <1>3 DEF WinRight
<1> QED
  BY <1>1, <1>3, <1>6, <1>7, <1>8 DEF Moves

\* FsInfoOut, with a clean window.
LEMMA InfoOut ==
  ASSUME NEW m \in Machines, ~m.wflag, NEW r, r = FsInfoOut(m)
  PROVE  /\ Steps(m, r.m) /\ ~r.m.wflag /\ r.res \in {"OK", "DISK_ERR"}
         /\ r.res # "OK" => Struck(m, r.m)
         /\ Healthy(m) => Sees(m, r.m)
<1>1. PICK info : info = [free |-> m.free_clust, nxt |-> m.last_clust]
  BY Zenon
<1>2. info \in [free : Int, nxt : Int] /\ info \in Stored
  BY <1>1 DEF Machines, MachineRecords, Stored
<1>3. PICK i : i = [m EXCEPT !.win = info, !.winsect = FsInfo]
  OBVIOUS
<1>4. PICK w : w = disk_write(i, FsInfo, info)
  OBVIOUS
<1>5. PICK f : f = IF m.fsi_flag = 1 THEN [w.m EXCEPT !.fsi_flag = 0] ELSE m
  BY Zenon
<1>6. PICK z : z = disk_sync(f)
  OBVIOUS
<1>7. r = IF z.ok THEN [m |-> z.m, res |-> "OK"] ELSE [m |-> z.m, res |-> "DISK_ERR"]
  BY <1>1, <1>3, <1>4, <1>5, <1>6 DEF FsInfoOut, After, Ok, Fail
<1>8. f \in Machines /\ Steps(m, f) /\ ~f.wflag /\ (Healthy(m) => Sees(m, f))
  <2>1. CASE m.fsi_flag # 1
    <3>1. f = m /\ Steps(m, m) /\ Sees(m, m)
      BY <1>5, <2>1, MovesNone, MovesSteps DEF Sees
    <3> QED
      BY <3>1
  <2>2. CASE m.fsi_flag = 1
    <3>1. i \in Machines /\ Moves(m, i) /\ ~i.wflag /\ i.winsect = FsInfo
      BY <1>2, <1>3, InfoTaken, Zenon
    <3>2. Moves(i, w.m) /\ ~w.m.wflag /\ w.m \in Machines
      BY <3>1, <1>2, <1>4, InfoWritten DEF Moves
    <3>3. Moves(m, w.m)
      BY <3>1, <3>2, MovesOn
    <3>4. Steps(m, w.m) /\ (Healthy(m) => Sees(m, w.m))
      BY <3>3, MovesSteps DEF Moves, Healthy
    <3>5. f \in Machines /\ Steps(w.m, f) /\ Sees(w.m, f) /\ f.wflag = w.m.wflag
      BY <3>2, <1>5, <2>2, FlagCleared
    <3>6. Steps(m, f)
      BY <3>2, <3>4, <3>5, StepsOn
    <3> QED
      BY <3>2, <3>4, <3>5, <3>6 DEF Sees
  <2> QED
    BY <2>1, <2>2
<1>9. /\ Moves(f, z.m) /\ z.m.wflag = f.wflag /\ z.ok \in BOOLEAN
      /\ ~z.ok => Struck(f, z.m)
  BY <1>6, <1>8, DiskSync
<1>10. z.m \in Machines /\ Steps(f, z.m) /\ (Healthy(m) => Sees(f, z.m))
  <2>1. z.m \in Machines /\ Steps(f, z.m)
    BY <1>8, <1>9, MovesSteps, Zenon
  <2>2. Healthy(m) => Healthy(f)
    BY <1>8, Zenon DEF Steps
  <2> QED
    BY <2>1, <2>2, <1>9, Zenon DEF Moves, Healthy
<1>11. Steps(m, z.m)
  BY <1>8, <1>10, StepsOn
<1>12. ~z.ok => Struck(m, z.m)
  BY <1>8, <1>9, <1>10, StruckSteps, Zenon
<1>13. Healthy(m) => Sees(m, z.m)
  BY <1>8, <1>10 DEF Sees
<1> QED
  BY <1>7, <1>8, <1>9, <1>11, <1>12, <1>13

\* When sync_fs says so, the disk holds what the file system sees, FSInfo apart.  An
\* error of the disk is reported, and the sectors outside the FAT change only by what
\* the window holds, whatever the disk does.
THEOREM Synced ==
  ASSUME NEW m \in Machines, NEW r, r = sync_fs(m)
  PROVE  /\ Steps(m, r.m) /\ r.res \in {"OK", "DISK_ERR"}
         /\ r.res # "OK" => Struck(m, r.m)
         /\ Healthy(m) => Table(r.m) = Table(m)
         /\ Healthy(m) /\ r.res = "OK" =>
              \A s \in Places \ {FsInfo} : r.m.disk[s] = Live(m)[s]
<1>1. PICK y : y = sync_window(m)
  OBVIOUS
<1>2. r = IF y.res = "OK" THEN FsInfoOut(y.m) ELSE y
  BY <1>1 DEF sync_fs, Then
<1>3. /\ Moves(m, y.m) /\ y.res \in {"OK", "DISK_ERR"}
      /\ y.res = "OK" => ~y.m.wflag
      /\ y.res # "OK" => Struck(m, y.m)
  BY <1>1, SyncWindow
<1>4. /\ y.m \in Machines /\ Steps(m, y.m)
      /\ Healthy(m) => Healthy(y.m) /\ Sees(m, y.m) /\ Table(y.m) = Table(m)
  BY <1>3, MovesSteps DEF Steps, Moves, Healthy
<1>5. CASE y.res # "OK"
  BY <1>2, <1>3, <1>4, <1>5
<1>6. CASE y.res = "OK"
  <2>1. /\ Steps(y.m, r.m) /\ ~r.m.wflag /\ r.res \in {"OK", "DISK_ERR"}
        /\ r.res # "OK" => Struck(y.m, r.m)
        /\ Healthy(y.m) => Sees(y.m, r.m)
    BY <1>2, <1>3, <1>4, <1>6, InfoOut
  <2>2. r.m \in Machines /\ Steps(m, r.m)
    <3>1. r.m \in Machines
      BY <2>1 DEF Steps
    <3> QED
      BY <3>1, <2>1, <1>4, StepsOn
  <2>3. r.res # "OK" => Struck(m, r.m)
    BY <2>1, <2>2, <1>4, StruckSteps, Zenon
  <2>4. Healthy(m) => Healthy(r.m) /\ Sees(m, r.m)
    BY <2>1, <2>2, <1>4 DEF Sees, Steps
  <2>5. Healthy(m) => Table(r.m) = Table(m)
    <3>1. ASSUME Sees(m, r.m) PROVE Table(r.m) = Table(m)
      <4>1. \A c \in Clusters : Live(r.m)[EntrySect(c)] = Live(m)[EntrySect(c)]
        BY <3>1, EntryPlace DEF Sees
      <4>2. /\ Table(r.m) \in [Clusters -> 0 .. EOC] /\ Table(m) \in [Clusters -> 0 .. EOC]
            /\ \A c \in Clusters : Table(m)[c] = Live(m)[EntrySect(c)][EntryAt(c)]
            /\ \A c \in Clusters : Table(r.m)[c] = Live(r.m)[EntrySect(c)][EntryAt(c)]
        BY <2>2, TableType
      <4> QED
        BY <4>1, <4>2
    <3> QED
      BY <3>1, <2>4
  <2>6. ASSUME Healthy(m), NEW s \in Places \ {FsInfo} PROVE r.m.disk[s] = Live(m)[s]
    <3>1. s \in Sectors /\ s # Bad
      BY Layout DEF Places
    <3>2. Live(r.m)[s] = Live(m)[s]
      BY <2>4, <2>6 DEF Sees
    <3>3. Live(r.m)[s] = IF s = r.m.winsect THEN r.m.win ELSE r.m.disk[s]
      BY <3>1 DEF Live
    <3> QED
      BY <3>1, <3>2, <3>3, <2>1, <2>4, <2>6 DEF Healthy, WinRight
  <2> QED
    BY <2>1, <2>2, <2>3, <2>5, <2>6
<1> QED
  BY <1>5, <1>6

----------------------------------------------------------------------------
(* Tables whose links go to clusters in use. *)

\* p has the clusters of a chain, in order.
IsChain(fat, p, n) ==
  /\ n \in Nat \ {0} /\ p \in [1 .. n -> Clusters]
  /\ \A i, j \in 1 .. n : p[i] = p[j] => i = j
  /\ \A i \in 1 .. n : IF i < n THEN fat[p[i]] = p[i + 1] ELSE fat[p[i]] >= NFatEnt

\* The first k clusters of p are free.
Cut(fat, p, k) == [c \in Clusters |-> IF \E i \in 1 .. k : p[i] = c THEN 0 ELSE fat[c]]

\* One more cluster of a chain becomes free.
CutMore(fat, p, k) ==
  /\ p[k + 1] \in Clusters /\ fat[p[k + 1]] \notin {0, 1}
  /\ Cut(fat, p, k)[p[k + 1]] = fat[p[k + 1]]
  /\ [Cut(fat, p, k) EXCEPT ![p[k + 1]] = 0] = Cut(fat, p, k + 1)

\* remove_chain frees the clusters of a chain in order: after the next one the table
\* is cut one cluster further.
LEMMA CutOn ==
  ASSUME NEW fat \in [Clusters -> 0 .. EOC], NEW p, NEW n, IsChain(fat, p, n),
         NEW k \in 0 .. n, k < n
  PROVE  CutMore(fat, p, k)
<1>1. n \in Nat /\ k + 1 \in 1 .. n /\ p[k + 1] \in Clusters
  BY DEF IsChain
<1>2. \A i \in 1 .. k : i \in 1 .. n /\ p[i] # p[k + 1]
  BY <1>1 DEF IsChain
<1>3. fat[p[k + 1]] \notin {0, 1}
  <2>1. CASE k + 1 < n
    <3>1. k + 1 + 1 \in 1 .. n /\ fat[p[k + 1]] = p[k + 1 + 1]
      BY <1>1, <2>1 DEF IsChain
    <3>2. p[k + 1 + 1] \in Clusters
      BY <3>1 DEF IsChain
    <3> QED
      BY <3>1, <3>2, FatAssumption DEF Clusters
  <2>2. CASE ~(k + 1 < n)
    <3>1. fat[p[k + 1]] >= NFatEnt /\ fat[p[k + 1]] \in Nat
      BY <1>1, <2>2, FatAssumption DEF IsChain
    <3> QED
      BY <3>1, FatAssumption
  <2> QED
    BY <2>1, <2>2
<1>4. Cut(fat, p, k)[p[k + 1]] = fat[p[k + 1]]
  BY <1>1, <1>2 DEF Cut
<1>5. [Cut(fat, p, k) EXCEPT ![p[k + 1]] = 0] = Cut(fat, p, k + 1)
  <2>1. ASSUME NEW c
        PROVE  (\E i \in 1 .. k + 1 : p[i] = c) <=> (\E i \in 1 .. k : p[i] = c) \/ c = p[k + 1]
    BY <1>1
  <2> QED
    BY <2>1, <1>1, Zenon DEF Cut
<1> QED
  BY <1>1, <1>3, <1>4, <1>5, Zenon DEF CutMore

\* The cluster v is the last link, behind c.
Linked(fat, c, v) ==
  [d \in Clusters |-> IF d = v THEN EOC ELSE IF d = c THEN v ELSE fat[d]]

\* A free cluster that becomes a last link is in no chain.
LEMMA MarkedSound ==
  ASSUME NEW fat \in [Clusters -> 0 .. EOC], SoundTable(fat), NEW v \in Clusters, fat[v] = 0
  PROVE  SoundTable([fat EXCEPT ![v] = EOC])
<1>1. EOC \notin Clusters /\ EOC \notin {0, 1} /\ 0 \notin Clusters
  BY FatAssumption DEF Clusters
<1>2. PICK t : t = [fat EXCEPT ![v] = EOC]
  BY Zenon
<1>3. \A d \in Clusters : t[d] = IF d = v THEN EOC ELSE fat[d]
  BY <1>2
<1>4. \A d \in Clusters : t[d] # 1 /\ (t[d] \in Clusters => t[t[d]] # 0)
  BY <1>1, <1>3 DEF SoundTable
<1>5. \A d, e \in Clusters : t[d] \in Clusters /\ t[d] = t[e] => d = e
  BY <1>1, <1>3 DEF SoundTable
<1>6. ASSUME NEW S \in SUBSET Clusters, S # {} PROVE \E d \in S : t[d] \notin S
  <2>1. PICK d \in S : fat[d] \notin S
    BY <1>6 DEF SoundTable
  <2> QED
    BY <2>1, <1>1, <1>3
<1> QED
  BY <1>2, <1>4, <1>5, <1>6, Zenon DEF SoundTable

\* A free cluster behind a last link, or in a chain of its own.
LEMMA LinkedSound ==
  ASSUME NEW fat \in [Clusters -> 0 .. EOC], SoundTable(fat), NEW v \in Clusters, fat[v] = 0,
         NEW c \in Clusters \cup {0}, c # 0 => fat[c] >= NFatEnt
  PROVE  SoundTable(Linked(fat, c, v))
<1>1. /\ EOC \notin Clusters /\ EOC \notin {0, 1} /\ 0 \notin Clusters /\ 1 \notin Clusters
      /\ c # v /\ (c \in Clusters => fat[c] \notin Clusters)
  BY FatAssumption DEF Clusters
<1>2. PICK t : t = Linked(fat, c, v)
  OBVIOUS
<1>3. \A d \in Clusters : t[d] = IF d = v THEN EOC ELSE IF d = c THEN v ELSE fat[d]
  BY <1>2 DEF Linked
<1>4. \A d \in Clusters : fat[d] # v
  BY DEF SoundTable
<1>5. \A d \in Clusters : t[d] # 1 /\ (t[d] \in Clusters => t[t[d]] # 0)
  BY <1>1, <1>3, <1>4 DEF SoundTable
<1>6. \A d, e \in Clusters : t[d] \in Clusters /\ t[d] = t[e] => d = e
  BY <1>1, <1>3, <1>4 DEF SoundTable
<1>7. ASSUME NEW S \in SUBSET Clusters, S # {} PROVE \E d \in S : t[d] \notin S
  <2>1. PICK d \in S : fat[d] \notin S
    BY <1>7 DEF SoundTable
  <2>2. CASE v \in S
    BY <2>2, <1>1, <1>3
  <2>3. CASE v \notin S /\ c \in S
    BY <2>3, <1>3
  <2>4. CASE v \notin S /\ c \notin S
    BY <2>1, <2>4, <1>3
  <2> QED
    BY <2>2, <2>3, <2>4
<1> QED
  BY <1>2, <1>5, <1>6, <1>7 DEF SoundTable

\* The first clusters of a chain are given back; no link leads to its head.
LEMMA CutSound ==
  ASSUME NEW fat \in [Clusters -> 0 .. EOC], SoundTable(fat), NEW p, NEW n, IsChain(fat, p, n),
         \A d \in Clusters : fat[d] # p[1], NEW k \in 0 .. n
  PROVE  SoundTable(Cut(fat, p, k))
<1>1. PICK t : t = Cut(fat, p, k)
  OBVIOUS
<1>2. PICK F : F = {d \in Clusters : \E i \in 1 .. k : p[i] = d}
  BY Zenon
<1>3. \A d \in Clusters : t[d] = IF d \in F THEN 0 ELSE fat[d]
  BY <1>1, <1>2 DEF Cut
<1>4. 0 \notin Clusters
  BY DEF Clusters
\* What leads into the part that is free is free.
<1>5. ASSUME NEW d \in Clusters, fat[d] \in F PROVE d \in F
  <2>1. PICK i \in 1 .. k : p[i] = fat[d]
    BY <1>2, <1>5
  <2>2. n \in Nat /\ i # 1 /\ i - 1 \in 1 .. k /\ i - 1 \in 1 .. n /\ i - 1 < n /\ i - 1 + 1 = i
    <3>1. n \in Nat
      BY DEF IsChain
    <3>2. i # 1
      BY <2>1
    <3> QED
      BY <3>1, <3>2
  <2>3. p[i - 1] \in Clusters /\ fat[p[i - 1]] = p[i]
    BY <2>2 DEF IsChain
  <2>4. p[i] \in Clusters
    BY <1>2, <1>5, <2>1
  <2>5. d = p[i - 1]
    BY <2>1, <2>3, <2>4 DEF SoundTable
  <2> QED
    BY <1>2, <2>2, <2>5
<1>6. \A d \in Clusters : t[d] # 1 /\ (t[d] \in Clusters => t[t[d]] # 0)
  BY <1>3, <1>4, <1>5 DEF SoundTable
<1>7. \A d, e \in Clusters : t[d] \in Clusters /\ t[d] = t[e] => d = e
  BY <1>3, <1>4 DEF SoundTable
<1>8. ASSUME NEW S \in SUBSET Clusters, S # {} PROVE \E d \in S : t[d] \notin S
  <2>1. PICK d \in S : fat[d] \notin S
    BY <1>8 DEF SoundTable
  <2> QED
    BY <2>1, <1>3, <1>4
<1> QED
  BY <1>1, <1>6, <1>7, <1>8 DEF SoundTable

\* The chain q with the cluster v behind its last one.
Longer(q, l, v) == [i \in 1 .. l + 1 |-> IF i = l + 1 THEN v ELSE q[i]]

\* A chain whose entries are as before is a chain.
LEMMA SameChain ==
  ASSUME NEW fat, NEW t, NEW q, NEW l, IsChain(fat, q, l), \A i \in 1 .. l : t[q[i]] = fat[q[i]]
  PROVE  IsChain(t, q, l)
  BY DEF IsChain

\* The entries of a chain are not free.
LEMMA ChainUsed ==
  ASSUME NEW fat \in [Clusters -> 0 .. EOC], NEW q, NEW l, IsChain(fat, q, l), NEW i \in 1 .. l
  PROVE  q[i] \in Clusters /\ fat[q[i]] # 0
<1>1. l \in Nat /\ q[i] \in Clusters
  BY DEF IsChain
<1>2. i - 1 \in 0 .. l /\ i - 1 < l /\ i - 1 + 1 = i
  BY <1>1
<1>3. fat[q[i - 1 + 1]] \notin {0, 1}
  BY <1>2, CutOn, Zenon DEF CutMore
<1> QED
  BY <1>1, <1>2, <1>3

\* The chain that gets a new last cluster.
LEMMA LinkedLonger ==
  ASSUME NEW fat \in [Clusters -> 0 .. EOC], NEW q, NEW l, IsChain(fat, q, l),
         NEW v \in Clusters, fat[v] = 0, NEW t, t = Linked(fat, q[l], v)
  PROVE  IsChain(t, Longer(q, l, v), l + 1)
<1>1. \A i \in 1 .. l : q[i] \in Clusters /\ fat[q[i]] # 0
  BY ChainUsed, Zenon
<1>2. l \in Nat \ {0} /\ l \in 1 .. l
  BY DEF IsChain
<1>3. \A i \in 1 .. l : q[i] # v
  BY <1>1, Zenon
<1>4. \A i \in 1 .. l : t[q[i]] = IF q[i] = q[l] THEN v ELSE fat[q[i]]
  BY <1>1, <1>3 DEF Linked
<1>5. PICK s : s = Longer(q, l, v)
  OBVIOUS
<1>6. /\ \A i \in 1 .. l : s[i] = q[i] /\ i \in 1 .. l + 1 /\ i # l + 1
      /\ s[l + 1] = v /\ l + 1 \in 1 .. l + 1 /\ l + 1 \in Nat \ {0}
      /\ \A i \in 1 .. l + 1 : i \in 1 .. l \/ i = l + 1
  BY <1>2, <1>5 DEF Longer
<1>7. s \in [1 .. l + 1 -> Clusters]
  BY <1>1, <1>2, <1>5 DEF Longer
<1>8. \A i, j \in 1 .. l + 1 : s[i] = s[j] => i = j
  <2>1. \A i, j \in 1 .. l : q[i] = q[j] => i = j
    BY DEF IsChain
  <2> QED
    BY <2>1, <1>3, <1>6
<1>9. ASSUME NEW i \in 1 .. l + 1
      PROVE  IF i < l + 1 THEN t[s[i]] = s[i + 1] ELSE t[s[i]] >= NFatEnt
  <2>1. CASE i = l + 1
    <3>1. t[v] = EOC
      BY DEF Linked
    <3> QED
      BY <3>1, <2>1, <1>2, <1>6, FatAssumption
  <2>2. CASE i = l
    <3>1. t[s[i]] = v /\ s[i + 1] = v
      BY <2>2, <1>2, <1>4, <1>6
    <3> QED
      BY <3>1, <2>2, <1>2
  <2>3. CASE i < l
    <3>1. i \in 1 .. l /\ i + 1 \in 1 .. l /\ i < l + 1
      BY <2>3, <1>2
    <3>2. q[i] # q[l]
      BY <3>1, <2>3, <1>2 DEF IsChain
    <3>3. t[s[i]] = fat[q[i]] /\ s[i + 1] = q[i + 1]
      BY <3>1, <3>2, <1>4, <1>6
    <3>4. fat[q[i]] = q[i + 1]
      BY <3>1, <2>3 DEF IsChain
    <3> QED
      BY <3>1, <3>3, <3>4
  <2> QED
    BY <2>1, <2>2, <2>3, <1>2
<1> QED
  BY <1>5, <1>6, <1>7, <1>8, <1>9 DEF IsChain

\* The chains that have no cluster of the change.
LEMMA LinkedOther ==
  ASSUME NEW fat \in [Clusters -> 0 .. EOC], NEW q, NEW l, IsChain(fat, q, l),
         NEW v \in Clusters, fat[v] = 0, NEW c
  PROVE  /\ (\A i \in 1 .. l : c # q[i]) => IsChain(Linked(fat, c, v), q, l)
         /\ IsChain([fat EXCEPT ![v] = EOC], q, l)
<1>1. \A i \in 1 .. l : q[i] \in Clusters /\ fat[q[i]] # 0
  BY ChainUsed, Zenon
<1>2. ASSUME \A i \in 1 .. l : c # q[i] PROVE IsChain(Linked(fat, c, v), q, l)
  <2>1. \A i \in 1 .. l : Linked(fat, c, v)[q[i]] = fat[q[i]]
    BY <1>1, <1>2 DEF Linked
  <2> QED
    BY <2>1, SameChain, Zenon
<1>3. \A i \in 1 .. l : [fat EXCEPT ![v] = EOC][q[i]] = fat[q[i]]
  BY <1>1
<1>4. IsChain([fat EXCEPT ![v] = EOC], q, l)
  BY <1>3, SameChain, Zenon
<1> QED
  BY <1>2, <1>4, Zenon

----------------------------------------------------------------------------
(* The rounds of the search for a free cluster, and the link. *)

Searches == [m : Machines, n : 1 .. NFatEnt - 1, val : 0 .. EOC \cup {Bad}, more : BOOLEAN]

\* The cluster that a round of the search looks at.
NextOf(n) == IF n + 1 >= NFatEnt THEN 2 ELSE n + 1

\* What a round of the search finds out about its cluster.
Looked(x, scl, y) ==
  LET ncl == NextOf(x.n) IN
  /\ y \in Searches /\ Moves(x.m, y.m) /\ y.n = ncl /\ ncl \in Clusters
  /\ y.val \in Clusters \cup {0, 1, Bad}
  /\ y.val = Bad => Struck(x.m, y.m)
  /\ IF x.n + 1 >= NFatEnt /\ scl = 1 THEN y.val = 0 /\ ~y.more
     ELSE /\ y.more => y.val = 0 /\ ncl # scl
          /\ ~y.more /\ y.val = 0 => ncl = scl
          /\ Healthy(x.m) => /\ y.val = 0 => Table(x.m)[ncl] # 0
                             /\ y.val \in Clusters => y.val = ncl /\ Table(x.m)[ncl] = 0
                             /\ y.val = 1 => Table(x.m)[ncl] = 1

\* One round of the search, whatever the disk does.
LEMMA SearchRoundDone ==
  ASSUME NEW x \in Searches, NEW scl \in 1 .. NFatEnt - 1, NEW y, y = SearchRound(x, scl)
  PROVE  Looked(x, scl, y)
<1> DEFINE ncl == NextOf(x.n)
<1>1. /\ x.m \in Machines /\ x.n \in 1 .. NFatEnt - 1 /\ NFatEnt \in Nat /\ NFatEnt > 2
      /\ NFatEnt <= EOC /\ EOC \in Nat /\ Bad \in Nat /\ EOC < Bad
  BY FatAssumption DEF Searches
<1>2. ncl \in Clusters /\ ncl \in 1 .. NFatEnt - 1 /\ ncl \in 0 .. EOC
  BY <1>1 DEF NextOf, Clusters
<1>3. PICK g : g = get_fat(x.m, ncl)
  OBVIOUS
<1>4. y = IF x.n + 1 >= NFatEnt /\ ncl > scl THEN [m |-> x.m, n |-> ncl, val |-> 0, more |-> FALSE]
          ELSE CASE g.val = 0 -> [m |-> g.m, n |-> ncl, val |-> ncl, more |-> FALSE]
                 [] g.val \in {1, Bad} -> [m |-> g.m, n |-> ncl, val |-> g.val, more |-> FALSE]
                 [] OTHER -> [m |-> g.m, n |-> ncl, val |-> 0, more |-> ncl # scl]
  BY <1>3 DEF SearchRound, After, NextOf
<1>5. /\ Moves(x.m, g.m)
      /\ g.val = Bad => Struck(x.m, g.m)
      /\ g.val # Bad => g.val \in 0 .. EOC
      /\ g.val # Bad /\ Healthy(x.m) => g.val = Table(x.m)[ncl]
  <2> HIDE DEF ncl
  <2> QED
    BY <1>1, <1>2, <1>3, GetFat, Zenon
<1>6. x.n + 1 >= NFatEnt /\ ncl > scl <=> x.n + 1 >= NFatEnt /\ scl = 1
  BY <1>1 DEF NextOf
<1>7. Moves(x.m, x.m) /\ g.m \in Machines
  BY <1>1, <1>5, MovesNone DEF Moves
<1> HIDE DEF ncl
<1>8. CASE x.n + 1 >= NFatEnt /\ scl = 1
  <2>1. y = [m |-> x.m, n |-> ncl, val |-> 0, more |-> FALSE]
    BY <1>4, <1>6, <1>8
  <2>2. 0 \in 0 .. EOC /\ 0 # Bad
    BY <1>1
  <2>3. y \in Searches /\ y.m = x.m /\ y.n = ncl /\ y.val = 0 /\ y.more = FALSE
    BY <2>1, <2>2, <1>1, <1>2 DEF Searches
  <2> QED
    BY <2>2, <2>3, <1>2, <1>7, <1>8, Zenon DEF Looked, ncl
<1>9. CASE ~(x.n + 1 >= NFatEnt /\ scl = 1)
  <2>0. y = CASE g.val = 0 -> [m |-> g.m, n |-> ncl, val |-> ncl, more |-> FALSE]
              [] g.val \in {1, Bad} -> [m |-> g.m, n |-> ncl, val |-> g.val, more |-> FALSE]
              [] OTHER -> [m |-> g.m, n |-> ncl, val |-> 0, more |-> ncl # scl]
    BY <1>4, <1>6, <1>9, Zenon
  <2>1. CASE g.val = 0
    <3>1. y = [m |-> g.m, n |-> ncl, val |-> ncl, more |-> FALSE]
      BY <1>1, <2>0, <2>1
    <3>2. ncl # 0 /\ ncl # Bad /\ ncl # 1 /\ 0 # Bad
      BY <1>1, <1>2 DEF Clusters
    <3>3. y \in Searches /\ y.m = g.m /\ y.n = ncl /\ y.val = ncl /\ y.more = FALSE
      BY <3>1, <1>2, <1>7 DEF Searches
    <3>4. Healthy(x.m) => Table(x.m)[ncl] = 0
      BY <3>2, <1>5, <2>1, Zenon
    <3> QED
      BY <3>2, <3>3, <3>4, <1>2, <1>5, <1>9, Zenon DEF Looked, ncl
  <2>2. CASE g.val \in {1, Bad}
    <3>1. y = [m |-> g.m, n |-> ncl, val |-> g.val, more |-> FALSE]
      BY <1>1, <2>0, <2>2
    <3>2. g.val \notin Clusters /\ g.val # 0 /\ 1 # Bad /\ g.val \in 0 .. EOC \cup {Bad}
      BY <1>1, <2>2 DEF Clusters
    <3>3. y \in Searches /\ y.m = g.m /\ y.n = ncl /\ y.val = g.val /\ y.more = FALSE
      BY <3>1, <3>2, <1>2, <1>7 DEF Searches
    <3>4. g.val = 1 /\ Healthy(x.m) => Table(x.m)[ncl] = 1
      BY <3>2, <1>5, Zenon
    <3> QED
      BY <3>2, <3>3, <3>4, <1>2, <1>5, <1>9, <2>2, Zenon DEF Looked, ncl
  <2>3. CASE g.val \notin {0, 1, Bad}
    <3>1. PICK b \in BOOLEAN : b <=> ncl # scl
      BY Zenon
    <3>2. 0 \notin Clusters /\ 0 # Bad /\ 0 # 1 /\ 0 \in 0 .. EOC
      BY <1>1 DEF Clusters
    <3>3. y = [m |-> g.m, n |-> ncl, val |-> 0, more |-> b]
      <4>1. CASE ncl = scl
        BY <3>1, <4>1, <2>0, <2>3
      <4>2. CASE ncl # scl
        BY <3>1, <4>2, <2>0, <2>3
      <4> QED
        BY <4>1, <4>2, Zenon
    <3>4. y \in Searches /\ y.m = g.m /\ y.n = ncl /\ y.val = 0 /\ y.more = b
      BY <3>2, <3>3, <1>2, <1>7 DEF Searches
    <3>5. Healthy(x.m) => Table(x.m)[ncl] # 0
      BY <1>5, <2>3, Zenon
    <3> QED
      BY <3>1, <3>2, <3>4, <3>5, <1>2, <1>5, <1>9, Zenon DEF Looked, ncl
  <2> QED
    BY <2>1, <2>2, <2>3, Zenon
<1> QED
  BY <1>8, <1>9, Zenon

\* The clusters that the search has looked at, at n, when it started after scl.
SeenAt(n, scl) == IF n >= scl THEN scl + 1 .. n ELSE (scl + 1 .. NFatEnt - 1) \cup (2 .. n)

\* What the search says when it has looked at the clusters of seen.
Found(m, x, seen) ==
  /\ Moves(m, x.m) /\ x.val \in Clusters \cup {0, 1, Bad}
  /\ x.val = Bad => Struck(m, x.m)
  /\ Healthy(m) => /\ x.val \in Clusters => Table(m)[x.val] = 0
                   /\ x.val = 1 => \E c \in Clusters : Table(m)[c] = 1
                   /\ x.val = 0 => \A c \in seen : Table(m)[c] # 0

\* The search after i rounds.
Searching(m, scl, i) ==
  {x \in Searches :
     /\ x.more => /\ x.val = 0 /\ Found(m, x, SeenAt(x.n, scl))
                  /\ IF x.n >= scl THEN x.n = scl + i ELSE x.n = scl + i - (NFatEnt - 2)
     /\ ~x.more => Found(m, x, Clusters)}

\* A round of the search of create_chain keeps what is known of the clusters seen.
LEMMA SearchingOn ==
  ASSUME NEW m \in Machines, NEW scl \in 1 .. NFatEnt - 1, NEW i \in Nat,
         NEW x \in Searching(m, scl, i)
  PROVE  (IF x.more THEN SearchRound(x, scl) ELSE x) \in Searching(m, scl, i + 1)
<1>1. /\ x \in Searches /\ x.m \in Machines /\ x.n \in 1 .. NFatEnt - 1
      /\ NFatEnt \in Nat /\ NFatEnt > 2
  BY FatAssumption DEF Searching, Searches
<1>2. CASE ~x.more
  BY <1>1, <1>2, Zenon DEF Searching
<1>3. CASE x.more
  <2>1. PICK y : y = SearchRound(x, scl)
    OBVIOUS
  <2>2. PICK ncl : ncl = NextOf(x.n)
    OBVIOUS
  <2>3. Looked(x, scl, y)
    BY <1>1, <2>1, SearchRoundDone, Zenon
  <2>4. /\ y \in Searches /\ Moves(x.m, y.m) /\ y.n = ncl /\ ncl \in Clusters
        /\ y.val \in Clusters \cup {0, 1, Bad} /\ (y.val = Bad => Struck(x.m, y.m))
    BY <2>2, <2>3, Zenon DEF Looked
  <2>5. /\ x.n + 1 >= NFatEnt /\ scl = 1 => y.val = 0 /\ ~y.more
        /\ y.more => y.val = 0 /\ ncl # scl
        /\ ~y.more /\ y.val = 0 => ncl = scl \/ (x.n + 1 >= NFatEnt /\ scl = 1)
        /\ Healthy(x.m) => /\ y.val = 0 => Table(x.m)[ncl] # 0 \/ (x.n + 1 >= NFatEnt /\ scl = 1)
                           /\ y.val \in Clusters => Table(x.m)[y.val] = 0
                           /\ y.val = 1 => Table(x.m)[ncl] = 1
    <3>1. 0 \notin Clusters /\ 0 # 1
      BY DEF Clusters
    <3> QED
      BY <3>1, <2>2, <2>3 DEF Looked
  <2>6. /\ Moves(m, x.m) /\ (Healthy(m) => \A c \in SeenAt(x.n, scl) : Table(m)[c] # 0)
        /\ IF x.n >= scl THEN x.n = scl + i ELSE x.n = scl + i - (NFatEnt - 2)
    BY <1>3, Zenon DEF Searching, Found
  <2>7. y.m \in Machines /\ Moves(m, y.m) /\ (y.val = Bad => Struck(m, y.m))
    <3>1. y.m \in Machines
      BY <2>4, Zenon DEF Moves
    <3> QED
      BY <3>1, <1>1, <2>4, <2>6, MovesOn, StruckOn, Zenon DEF Moves
  <2>8. Healthy(m) => Healthy(x.m) /\ Table(x.m) = Table(m)
    BY <1>1, <2>6, MovesSteps, Zenon DEF Steps
  <2>9. y.more => IF ncl >= scl THEN ncl = scl + (i + 1) ELSE ncl = scl + (i + 1) - (NFatEnt - 2)
    BY <1>1, <2>2, <2>5, <2>6 DEF NextOf
  <2>10. ASSUME Healthy(m), y.val = 0, NEW c,
                (y.more /\ c \in SeenAt(ncl, scl)) \/ (~y.more /\ c \in Clusters)
         PROVE  Table(m)[c] # 0
    <3>1. c \in SeenAt(x.n, scl) \/ (c = ncl /\ ~(x.n + 1 >= NFatEnt /\ scl = 1))
      <4>1. CASE y.more /\ c \in SeenAt(ncl, scl)
        BY <1>1, <2>2, <2>5, <4>1 DEF NextOf, SeenAt, Clusters
      <4>2. CASE ~y.more /\ c \in Clusters
        BY <1>1, <2>2, <2>5, <2>10, <4>2 DEF NextOf, SeenAt, Clusters
      <4> QED
        BY <4>1, <4>2, <2>10, Zenon
    <3> QED
      BY <3>1, <2>5, <2>6, <2>8, <2>10, Zenon
  <2>11. Healthy(m) => /\ y.val \in Clusters => Table(m)[y.val] = 0
                       /\ y.val = 1 => \E c \in Clusters : Table(m)[c] = 1
    BY <2>4, <2>5, <2>8, Zenon
  <2>12. /\ y.more => Found(m, y, SeenAt(ncl, scl))
         /\ ~y.more => Found(m, y, Clusters)
    <3>1. Healthy(m) /\ y.val = 0 /\ y.more => \A c \in SeenAt(ncl, scl) : Table(m)[c] # 0
      BY <2>10, Zenon
    <3>2. Healthy(m) /\ y.val = 0 /\ ~y.more => \A c \in Clusters : Table(m)[c] # 0
      BY <2>10, Zenon
    <3> QED
      BY <3>1, <3>2, <2>4, <2>7, <2>11, Zenon DEF Found
  <2>13. y \in Searching(m, scl, i + 1)
    BY <2>4, <2>5, <2>9, <2>12, Zenon DEF Searching
  <2> QED
    BY <1>3, <2>1, <2>13, Zenon
<1> QED
  BY <1>2, <1>3, Zenon

\* The search of the next call starts after the new cluster.
LEMMA Remembered ==
  ASSUME NEW m \in Machines, NEW v \in Nat
  PROVE  LET t == [m EXCEPT !.last_clust = v] IN
         /\ t \in Machines /\ Steps(m, t) /\ t.n = m.n /\ t.last_clust = v
         /\ Table(t) = Table(m) /\ t.free_clust = m.free_clust
<1>1. PICK t : t = [m EXCEPT !.last_clust = v]
  BY Zenon
<1>2. m \in MachineRecords
  BY Zenon DEF Machines
<1>3. t \in MachineRecords
  BY <1>1, <1>2 DEF MachineRecords
<1>4. /\ t.disk = m.disk /\ t.win = m.win /\ t.winsect = m.winsect
      /\ t.wflag = m.wflag /\ t.n = m.n /\ t.k = m.k /\ t.kind = m.kind
  BY <1>1, <1>2 DEF MachineRecords
<1>5. /\ t.mounted = m.mounted /\ t.cdir = m.cdir /\ t.last_clust = v
      /\ t.free_clust = m.free_clust
  BY <1>1, <1>2 DEF MachineRecords
<1>6. t \in Machines
  BY <1>3, <1>4 DEF Machines
<1>7. Live(t) = Live(m)
  BY <1>4, Zenon DEF Live
<1>8. Steps(m, t)
  BY <1>2, <1>4, <1>5, <1>6, <1>7 DEF Steps, Spares, Healthy, WinRight, MachineRecords
<1> QED
  BY <1>1, <1>4, <1>5, <1>6, <1>7, <1>8 DEF Table

\* The outcomes of Link at a free cluster: it is linked, or the disk fails and it is
\* untouched or marked as the last one of a chain.
LinkMade(m, c, v, r) ==
  /\ r.val = v /\ Table(r.m) = Linked(Table(m), c, v) /\ r.m.last_clust = v
  /\ CountBy(m, r.m, -1)

LinkFailed(m, v, r) ==
  /\ r.val = Bad /\ r.m.free_clust = m.free_clust
  /\ Table(r.m) \in {Table(m), [Table(m) EXCEPT ![v] = EOC]}

\* Link, whatever the disk does.
LEMMA LinkDone ==
  ASSUME NEW m \in Machines, NEW c \in Clusters \cup {0}, NEW v \in Clusters,
         NEW r, r = Link(m, c, v)
  PROVE  /\ r.m \in Machines /\ Steps(m, r.m) /\ r.val \in {v, Bad} /\ (r.val = Bad => Struck(m, r.m))
         /\ Healthy(m) /\ c # v => LinkMade(m, c, v, r) \/ LinkFailed(m, v, r)
<1>1. PICK p : p = put_fat(m, v, EOC)
  OBVIOUS
<1>2. PICK q : q = IF p.res = "OK" THEN (IF c = 0 THEN p ELSE put_fat(p.m, c, v)) ELSE p
  OBVIOUS
<1>3. r = IF q.res = "OK"
          THEN [m |-> CountFree([q.m EXCEPT !.last_clust = v], -1), val |-> v]
          ELSE [m |-> q.m, val |-> IF q.res = "DISK_ERR" THEN Bad ELSE 1]
  BY <1>1, <1>2 DEF Link, After, Then
<1>4. /\ v \in Nat /\ v # Bad /\ v \in 0 .. EOC /\ EOC \in 0 .. EOC /\ EOC # 0 /\ v # 0
      /\ Table(m) \in [Clusters -> 0 .. EOC]
  BY FatAssumption, TableType DEF Clusters
<1>5. /\ p.m \in Machines /\ Steps(m, p.m) /\ SameCount(m, p.m)
      /\ p.res \in {"OK", "DISK_ERR"}
      /\ p.res # "OK" => Struck(m, p.m)
      /\ Healthy(m) => Table(p.m) = IF p.res = "OK" THEN [Table(m) EXCEPT ![v] = EOC] ELSE Table(m)
  BY <1>1, <1>4, PutFat, Zenon
<1>6. /\ q.m \in Machines /\ Steps(m, q.m) /\ SameCount(m, q.m)
      /\ q.res \in {"OK", "DISK_ERR"}
      /\ q.res # "OK" => Struck(m, q.m)
      /\ Healthy(m) /\ c # v /\ q.res = "OK" => Table(q.m) = Linked(Table(m), c, v)
      /\ Healthy(m) /\ q.res # "OK" => Table(q.m) \in {Table(m), [Table(m) EXCEPT ![v] = EOC]}
  <2>1. CASE p.res # "OK"
    BY <2>1, <1>2, <1>5
  <2>2. CASE p.res = "OK" /\ c = 0
    <3>1. q = p /\ 0 \notin Clusters
      BY <1>2, <2>2 DEF Clusters
    <3>2. [Table(m) EXCEPT ![v] = EOC] = Linked(Table(m), c, v)
      BY <3>1, <1>4, <2>2, Zenon DEF Linked
    <3> QED
      BY <3>1, <3>2, <1>5, <2>2, Zenon
  <2>3. CASE p.res = "OK" /\ c # 0
    <3>1. q = put_fat(p.m, c, v) /\ c \in Clusters
      BY <1>2, <2>3
    <3>2. /\ q.m \in Machines /\ Steps(p.m, q.m) /\ SameCount(p.m, q.m)
          /\ q.res \in {"OK", "DISK_ERR"}
          /\ q.res # "OK" => Struck(p.m, q.m)
          /\ Healthy(p.m) => Table(q.m) = IF q.res = "OK" THEN [Table(p.m) EXCEPT ![c] = v] ELSE Table(p.m)
      BY <3>1, <1>4, <1>5, PutFat, Zenon
    <3>3. Steps(m, q.m)
      BY <3>2, <1>5, StepsOn, Zenon
    <3>4. q.res # "OK" => Struck(m, q.m)
      BY <3>2, <1>5, StruckSteps, Zenon
    <3>5. Healthy(m) => Healthy(p.m) /\ Table(p.m) = [Table(m) EXCEPT ![v] = EOC]
      BY <1>5, <2>3 DEF Steps
    <3>6. c # v => [[Table(m) EXCEPT ![v] = EOC] EXCEPT ![c] = v] = Linked(Table(m), c, v)
      BY <1>4, Zenon DEF Linked
    <3> QED
      BY <3>2, <3>3, <3>4, <3>5, <3>6, <1>5, Zenon DEF SameCount
  <2> QED
    BY <2>1, <2>2, <2>3
<1>7. CASE q.res # "OK"
  <2>1. r.m = q.m /\ r.val = Bad
    BY <1>3, <1>6, <1>7
  <2>2. Healthy(m) => LinkFailed(m, v, r)
    BY <2>1, <1>6, <1>7, Zenon DEF LinkFailed, SameCount
  <2> QED
    BY <2>1, <2>2, <1>6, <1>7, Zenon
<1>8. CASE q.res = "OK"
  <2>1. PICK t : t = [q.m EXCEPT !.last_clust = v]
    BY Zenon
  <2>2. /\ t \in Machines /\ Steps(q.m, t) /\ t.last_clust = v
        /\ Table(t) = Table(q.m) /\ t.free_clust = q.m.free_clust
    BY <2>1, <1>4, <1>6, Remembered, Zenon
  <2>3. PICK u : u = CountFree(t, -1)
    OBVIOUS
  <2>4. /\ u \in Machines /\ Steps(t, u) /\ u.last_clust = t.last_clust /\ Table(u) = Table(t)
        /\ CountBy(t, u, -1)
    <3>1. -1 \in Int
      OBVIOUS
    <3> QED
      BY <3>1, <2>2, <2>3, Counted, Zenon
  <2>5. r.m = u /\ r.val = v
    BY <1>3, <1>8, <2>1, <2>3
  <2>6. Steps(m, u)
    BY <1>6, <2>2, <2>4, StepsOn, Zenon
  <2>7. CountBy(m, u, -1)
    BY <1>6, <2>2, <2>4, Zenon DEF CountBy, SameCount
  <2>8. Healthy(m) /\ c # v => LinkMade(m, c, v, r)
    BY <1>6, <1>8, <2>2, <2>4, <2>5, <2>7, Zenon DEF LinkMade
  <2> QED
    BY <1>4, <2>4, <2>5, <2>6, <2>8, Zenon
<1> QED
  BY <1>7, <1>8, Zenon

----------------------------------------------------------------------------
(* The rounds of remove_chain. *)

Removals == [m : Machines, c : 0 .. EOC, res : {"OK", "INT_ERR", "DISK_ERR"}, more : BOOLEAN]

\* The outcomes of a round at a cluster in use: it becomes free, or the disk fails.
LinkFreed(x, y) ==
  /\ y.more /\ y.res = "OK" /\ y.c = Table(x.m)[x.c]
  /\ Table(y.m) = [Table(x.m) EXCEPT ![x.c] = 0] /\ CountBy(x.m, y.m, 1)

FreeFailed(x, y) ==
  /\ ~y.more /\ y.res = "DISK_ERR" /\ Struck(x.m, y.m)
  /\ Table(y.m) = Table(x.m) /\ y.m.free_clust = x.m.free_clust

\* One round of remove_chain, whatever the disk does.
LEMMA RemoveRoundDone ==
  ASSUME NEW x \in Removals, NEW y, y = RemoveRound(x)
  PROVE  /\ y \in Removals /\ Steps(x.m, y.m) /\ y.m.last_clust = x.m.last_clust
         /\ x.c >= NFatEnt => y.m = x.m /\ y.res = "OK" /\ ~y.more
         /\ x.c \in Clusters /\ Healthy(x.m) /\ Table(x.m)[x.c] \notin {0, 1}
            => LinkFreed(x, y) \/ FreeFailed(x, y)
<1>1. PICK g : g = get_fat(x.m, x.c)
  OBVIOUS
<1>2. PICK p : p = put_fat(g.m, x.c, 0)
  OBVIOUS
<1>3. PICK u : u = CountFree(p.m, 1)
  OBVIOUS
<1>4. y = IF x.c >= NFatEnt THEN [m |-> x.m, c |-> x.c, res |-> "OK", more |-> FALSE]
          ELSE CASE g.val = 0   -> [m |-> g.m, c |-> x.c, res |-> "OK", more |-> FALSE]
                 [] g.val = 1   -> [m |-> g.m, c |-> x.c, res |-> "INT_ERR", more |-> FALSE]
                 [] g.val = Bad -> [m |-> g.m, c |-> x.c, res |-> "DISK_ERR", more |-> FALSE]
                 [] OTHER -> IF p.res # "OK"
                             THEN [m |-> p.m, c |-> x.c, res |-> p.res, more |-> FALSE]
                             ELSE [m |-> u, c |-> g.val, res |-> "OK", more |-> TRUE]
  BY <1>1, <1>2, <1>3 DEF RemoveRound, After
<1>5. /\ x.m \in Machines /\ x.c \in Nat /\ x.c \in 0 .. EOC /\ NFatEnt \in Nat
      /\ x.res \in {"OK", "INT_ERR", "DISK_ERR"}
  BY FatAssumption DEF Removals
<1>6. Steps(x.m, x.m)
  BY <1>5, MovesNone, MovesSteps
<1>7. CASE x.c >= NFatEnt
  <2>1. y = [m |-> x.m, c |-> x.c, res |-> "OK", more |-> FALSE] /\ x.c \notin Clusters
    BY <1>4, <1>5, <1>7 DEF Clusters
  <2> QED
    BY <2>1, <1>5, <1>6 DEF Removals
<1>8. CASE x.c \in 0 .. 1
  <2>1. g = [m |-> x.m, val |-> 1] /\ x.c \notin Clusters
    <3>1. ~IsClust(x.c) /\ x.c \notin Clusters
      BY <1>5, <1>8 DEF Clusters, IsClust
    <3> QED
      BY <3>1, <1>1, <1>5, ClusterOrNot
  <2>2. y = [m |-> x.m, c |-> x.c, res |-> "INT_ERR", more |-> FALSE] /\ ~(x.c >= NFatEnt)
    BY <2>1, <1>4, <1>5, <1>8, FatAssumption
  <2> QED
    BY <2>1, <2>2, <1>5, <1>6 DEF Removals
<1>9. CASE x.c \in Clusters
  <2>1. /\ Moves(x.m, g.m)
        /\ g.val = Bad => Struck(x.m, g.m)
        /\ g.val # Bad => g.val \in 0 .. EOC
        /\ g.val # Bad /\ Healthy(x.m) => g.val = Table(x.m)[x.c]
    BY <1>1, <1>5, <1>9, GetFat, Zenon
  <2>2. /\ g.m \in Machines /\ Steps(x.m, g.m) /\ SameCount(x.m, g.m)
        /\ Healthy(x.m) => Table(g.m) = Table(x.m)
    BY <2>1, <1>5, MovesSteps, Zenon
  <2>3. /\ p.m \in Machines /\ Steps(g.m, p.m) /\ SameCount(g.m, p.m)
        /\ p.res \in {"OK", "DISK_ERR"}
        /\ p.res # "OK" => Struck(g.m, p.m)
        /\ Healthy(g.m) => Table(p.m) = IF p.res = "OK" THEN [Table(g.m) EXCEPT ![x.c] = 0] ELSE Table(g.m)
    <3>1. 0 \in 0 .. EOC
      BY FatAssumption
    <3> QED
      BY <3>1, <1>2, <1>9, <2>2, PutFat, Zenon
  <2>4. /\ u \in Machines /\ Steps(p.m, u) /\ u.last_clust = p.m.last_clust
        /\ Table(u) = Table(p.m) /\ CountBy(p.m, u, 1)
    <3>1. 1 \in Int
      OBVIOUS
    <3> QED
      BY <3>1, <1>3, <2>3, Counted, Zenon
  <2>5. Steps(x.m, p.m) /\ Steps(x.m, u)
    BY <1>5, <2>2, <2>3, <2>4, StepsOn, Zenon
  <2>6. ~(x.c >= NFatEnt)
    BY <1>5, <1>9 DEF Clusters
  <2>7. Healthy(x.m) => Healthy(g.m)
    BY <2>2, Zenon DEF Steps
  <2>8. CASE g.val \in {0, 1, Bad}
    <3>1. PICK e \in {"OK", "INT_ERR", "DISK_ERR"} :
            /\ y = [m |-> g.m, c |-> x.c, res |-> e, more |-> FALSE]
            /\ g.val = Bad => e = "DISK_ERR"
      BY <1>4, <2>6, <2>8, FatAssumption
    <3>2. y \in Removals /\ y.m = g.m /\ y.more = FALSE /\ y.res = e
      BY <3>1, <1>5, <2>2 DEF Removals
    <3>3. ASSUME Healthy(x.m), Table(x.m)[x.c] \notin {0, 1}
          PROVE  FreeFailed(x, y)
      <4>1. g.val = Bad
        BY <3>3, <2>1, <2>8
      <4>2. y.res = "DISK_ERR" /\ Struck(x.m, y.m) /\ Table(y.m) = Table(x.m)
        BY <4>1, <3>1, <3>2, <3>3, <2>1, <2>2, Zenon
      <4>3. y.m.free_clust = x.m.free_clust
        BY <3>2, <2>2, Zenon DEF SameCount
      <4> QED
        BY <4>2, <4>3, <3>2, Zenon DEF FreeFailed
    <3> QED
      BY <3>2, <3>3, <2>2, <2>6, Zenon DEF SameCount
  <2>9. CASE g.val \notin {0, 1, Bad} /\ p.res # "OK"
    <3>1. y = [m |-> p.m, c |-> x.c, res |-> p.res, more |-> FALSE]
      BY <1>4, <2>6, <2>9
    <3>2. y \in Removals /\ y.m = p.m /\ y.more = FALSE /\ y.res = "DISK_ERR"
      BY <3>1, <1>5, <2>3, <2>9 DEF Removals
    <3>3. Struck(x.m, p.m)
      BY <1>5, <2>2, <2>3, <2>9, StruckSteps, Zenon
    <3>4. ASSUME Healthy(x.m) PROVE FreeFailed(x, y)
      <4>1. Table(p.m) = Table(x.m)
        BY <3>4, <2>2, <2>3, <2>7, <2>9, Zenon
      <4>2. y.m.free_clust = x.m.free_clust
        BY <3>2, <2>2, <2>3, Zenon DEF SameCount
      <4> QED
        BY <4>1, <4>2, <3>2, <3>3, Zenon DEF FreeFailed
    <3> QED
      BY <3>2, <3>4, <2>2, <2>3, <2>5, <2>6, Zenon DEF SameCount
  <2>10. CASE g.val \notin {0, 1, Bad} /\ p.res = "OK"
    <3>1. y = [m |-> u, c |-> g.val, res |-> "OK", more |-> TRUE]
      BY <1>4, <2>6, <2>10
    <3>2. y \in Removals /\ y.m = u /\ y.more = TRUE /\ y.res = "OK" /\ y.c = g.val
      BY <3>1, <2>1, <2>4, <2>10 DEF Removals
    <3>3. ASSUME Healthy(x.m), Table(x.m)[x.c] \notin {0, 1}
          PROVE  LinkFreed(x, y)
      <4>1. Table(p.m) = [Table(x.m) EXCEPT ![x.c] = 0] /\ g.val = Table(x.m)[x.c]
        BY <3>3, <2>1, <2>2, <2>3, <2>7, <2>10, Zenon
      <4>2. p.m.free_clust = x.m.free_clust
        BY <2>2, <2>3, Zenon DEF SameCount
      <4>3. CountBy(x.m, u, 1)
        BY <4>2, <2>4, Zenon DEF CountBy
      <4> QED
        BY <4>1, <4>3, <3>2, <2>4, Zenon DEF LinkFreed
    <3> QED
      BY <3>2, <3>3, <2>2, <2>3, <2>4, <2>5, <2>6, Zenon DEF SameCount
  <2> QED
    BY <2>8, <2>9, <2>10, Zenon
<1> QED
  BY <1>5, <1>7, <1>8, <1>9 DEF Clusters

----------------------------------------------------------------------------
(* Loops.  The theorems of the library are needed from here on. *)

INSTANCE FiniteSetTheorems

\* Induction over the natural numbers, for a set of them.
LEMMA SetInduction ==
  ASSUME NEW T \in SUBSET Nat, 0 \in T, \A n \in T : n + 1 \in T
  PROVE  T = Nat
<1> DEFINE R == OpToRel(<, Nat)
<1>1. IsWellFoundedOn(R, Nat)
  BY NatLessThanWellFounded, Zenon
<1>2. \A m, n \in Nat : <<m, n>> \notin R => n <= m
  BY DEF OpToRel
<1> HIDE DEF R
<1>3. SUFFICES ASSUME Nat \ T # {} PROVE FALSE
  BY Zenon
<1>4. PICK n \in Nat \ T : \A m \in Nat \ T : ~(<<m, n>> \in R)
  BY <1>1, <1>3, WFMin, Zenon
<1>5. \A m \in Nat \ T : n <= m
  BY <1>2, <1>4, Zenon
<1> QED
  BY <1>5

\* A loop of at most k rounds over the states S: it starts in a, F is a round, and
\* P[i] holds after i of them; and a run f of the loop.
IsLoop(k, S, P, a, F) ==
  /\ k \in Nat /\ a \in P[0]
  /\ \A i \in 0 .. k : \A x \in P[i] : x \in S
  /\ \A i \in 1 .. k : \A x \in P[i - 1] : F[x] \in P[i]

IsRun(f, k, S, P, a, F) ==
  /\ f \in [0 .. k -> S] /\ f[0] = a
  /\ \A i \in 1 .. k : f[i] = F[f[i - 1]]
  /\ \A i \in 0 .. k : f[i] \in P[i]

\* A loop has a run.
LEMMA LoopRuns ==
  ASSUME NEW k, NEW S, NEW P, NEW a, NEW F, IsLoop(k, S, P, a, F)
  PROVE  \E f : IsRun(f, k, S, P, a, F)
<1> DEFINE Runs(n) == {f \in [0 .. n -> S] : /\ f[0] = a /\ \A i \in 1 .. n : f[i] = F[f[i - 1]]
                                            /\ \A i \in 0 .. n : f[i] \in P[i]}
           T == {n \in Nat : n <= k => Runs(n) # {}}
<1> USE DEF IsLoop
<1>1. 0 \in T
  <2>1. [i \in 0 .. 0 |-> a] \in Runs(0)
    OBVIOUS
  <2> QED
    BY <2>1
<1>2. ASSUME NEW n \in T, n + 1 <= k PROVE Runs(n + 1) # {}
  <2>0. n \in Nat /\ n + 1 \in 1 .. k /\ n + 1 \in 0 .. k /\ (n + 1) - 1 = n
    BY <1>2
  <2>1. PICK f : f \in Runs(n)
    BY <1>2, <2>0
  <2> DEFINE g == [i \in 0 .. n + 1 |-> IF i <= n THEN f[i] ELSE F[f[n]]]
  <2>2. \A i \in 0 .. n : g[i] = f[i] /\ f[i] \in P[i] /\ f[i] \in S
    BY <2>0, <2>1
  <2>3. g[n + 1] = F[f[n]]
    BY <2>0
  <2>4. g[n + 1] \in P[n + 1] /\ g[n + 1] \in S
    <3>1. f[n] \in P[n]
      <4>1. n \in 0 .. n
        BY <2>0
      <4> QED
        BY <4>1, <2>2, Zenon
    <3> HIDE DEF g
    <3>2. \A x \in P[(n + 1) - 1] : F[x] \in P[n + 1]
      BY <2>0, Zenon
    <3> QED
      BY <3>1, <3>2, <2>0, <2>3, Zenon
  <2>5. ASSUME NEW i \in 1 .. n + 1 PROVE g[i] = F[g[i - 1]]
    <3>1. g[i - 1] = f[i - 1]
      BY <2>0, <2>2
    <3>2. CASE i <= n
      BY <3>1, <3>2, <2>0, <2>1, <2>2
    <3>3. CASE i = n + 1
      BY <3>1, <3>3, <2>0, <2>3
    <3> QED
      BY <3>2, <3>3, <2>0
  <2>6. g \in [0 .. n + 1 -> S] /\ g[0] = a /\ \A i \in 0 .. n + 1 : g[i] \in P[i]
    <3>1. g = [i \in 0 .. n + 1 |-> g[i]]
      OBVIOUS
    <3>2. f[0] = a /\ 0 \in 0 .. n
      BY <2>0, <2>1
    <3> HIDE DEF g
    <3>3. \A i \in 0 .. n + 1 : i \in 0 .. n \/ i = n + 1
      BY <2>0
    <3> QED
      BY <3>1, <3>2, <3>3, <2>2, <2>4, Zenon
  <2> HIDE DEF g
  <2>7. g \in Runs(n + 1)
    BY <2>5, <2>6
  <2> HIDE DEF Runs
  <2> QED
    BY <2>7
<1> HIDE DEF Runs
<1>3. T = Nat
  <2>1. \A n \in T : n + 1 \in T
    BY <1>2
  <2> HIDE DEF T
  <2>2. T \in SUBSET Nat
    BY DEF T
  <2> QED
    BY <1>1, <2>1, <2>2, SetInduction, Zenon
<1>4. Runs(k) # {}
  BY <1>3
<1> QED
  BY <1>4 DEF Runs, IsRun

\* What holds of the first state of a run and is kept by every round holds of the
\* last.
LEMMA RunInvariant ==
  ASSUME NEW k \in Nat, NEW P, NEW f, f[0] \in P[0],
         \A i \in 1 .. k : f[i - 1] \in P[i - 1] => f[i] \in P[i]
  PROVE  f[k] \in P[k]
<1> DEFINE T == {n \in Nat : n <= k => f[n] \in P[n]}
<1>1. 0 \in T
  OBVIOUS
<1>2. ASSUME NEW n \in T PROVE n + 1 \in T
  <2>1. CASE n + 1 <= k
    <3>1. n + 1 \in 1 .. k /\ (n + 1) - 1 = n /\ f[n] \in P[n]
      BY <2>1
    <3>2. f[n + 1] \in P[n + 1]
      BY <3>1
    <3> QED
      BY <3>2
  <2> QED
    BY <2>1
<1>3. T = Nat
  <2> HIDE DEF T
  <2>1. T \in SUBSET Nat
    BY DEF T
  <2> QED
    BY <1>1, <1>2, <2>1, SetInduction, Zenon
<1> QED
  BY <1>3

\* The rule for remove_chain: P[i] holds after i rounds.
LEMMA RemoveRule ==
  ASSUME NEW m, NEW c, NEW P, [m |-> m, c |-> c, res |-> "OK", more |-> TRUE] \in P[0],
         \A i \in 1 .. NFatEnt : \A x \in P[i - 1] : (IF x.more THEN RemoveRound(x) ELSE x) \in P[i]
  PROVE  RemoveFrom(m, c) \in P[NFatEnt]
<1> DEFINE a == [m |-> m, c |-> c, res |-> "OK", more |-> TRUE]
           k == NFatEnt
           S == UNION {P[i] : i \in 0 .. k}
           Round(x) == IF x.more THEN RemoveRound(x) ELSE x
           F == [x \in S |-> Round(x)]
           Eq(f) == f = [i \in 0 .. k |-> IF i = 0 THEN a ELSE Round(f[i - 1])]
<1>1. k \in Nat /\ a \in P[0] /\ \A i \in 1 .. k : \A x \in P[i - 1] : Round(x) \in P[i]
  BY FatAssumption
<1>2. RemoveFrom(m, c) = (CHOOSE f : Eq(f))[k]
  BY Zenon DEF RemoveFrom, Loop, After
<1> HIDE DEF a, k, Round
<1>3. \A i \in 0 .. k : \A x \in P[i] : x \in S /\ F[x] = Round(x)
  BY <1>1, Zenon
<1>4. \E f : Eq(f)
  <2> HIDE DEF F, S, Eq
  <2>0. \A i \in 1 .. k : i - 1 \in 0 .. k /\ i # 0
    BY <1>1
  <2>1. PICK f : IsRun(f, k, S, P, a, F)
    <3>1. IsLoop(k, S, P, a, F)
      BY <1>1, <1>3, <2>0, Zenon DEF IsLoop
    <3> QED
      BY <3>1, LoopRuns, Zenon
  <2> DEFINE E(i) == IF i = 0 THEN a ELSE Round(f[i - 1])
  <2>2. ASSUME NEW i \in 0 .. k PROVE f[i] = E(i)
    <3>1. i = 0 \/ (i # 0 /\ i \in 1 .. k /\ i - 1 \in 0 .. k)
      BY <1>1
    <3> QED
      BY <3>1, <1>3, <2>1, Zenon DEF IsRun
  <2>3. f = [i \in 0 .. k |-> E(i)]
    <3> HIDE DEF E
    <3> QED
      BY <2>1, <2>2 DEF IsRun
  <2> QED
    BY <2>3, Zenon DEF Eq
<1> HIDE DEF F, S
<1>5. PICK g : g = (CHOOSE f : Eq(f)) /\ Eq(g)
  BY <1>4, Zenon
<1> DEFINE E(i) == IF i = 0 THEN a ELSE Round(g[i - 1])
<1>6. \A i \in 0 .. k : g[i] = E(i)
  <2>1. g = [i \in 0 .. k |-> E(i)]
    BY <1>5, Zenon
  <2> HIDE DEF E
  <2> QED
    BY <2>1, Zenon
<1> HIDE DEF Eq
<1>7. g[0] = a /\ \A i \in 1 .. k : g[i - 1] \in P[i - 1] => g[i] \in P[i]
  <2>1. 0 \in 0 .. k /\ \A i \in 1 .. k : i \in 0 .. k /\ i # 0
    BY <1>1
  <2> QED
    BY <2>1, <1>1, <1>6, Zenon
<1>8. g[k] \in P[k]
  <2> HIDE DEF E
  <2> QED
    BY <1>1, <1>7, RunInvariant, Zenon
<1> QED
  BY <1>8, <1>2, <1>5, Zenon DEF k

\* The rule for the search of create_chain.
LEMMA SearchRule ==
  ASSUME NEW m, NEW scl, NEW P, [m |-> m, n |-> scl, val |-> 0, more |-> TRUE] \in P[0],
         \A i \in 1 .. NFatEnt : \A x \in P[i - 1] : (IF x.more THEN SearchRound(x, scl) ELSE x) \in P[i]
  PROVE  FreeAfter(m, scl) \in P[NFatEnt]
<1> DEFINE a == [m |-> m, n |-> scl, val |-> 0, more |-> TRUE]
           k == NFatEnt
           S == UNION {P[i] : i \in 0 .. k}
           Round(x) == IF x.more THEN SearchRound(x, scl) ELSE x
           F == [x \in S |-> Round(x)]
           Eq(f) == f = [i \in 0 .. k |-> IF i = 0 THEN a ELSE Round(f[i - 1])]
<1>1. k \in Nat /\ a \in P[0] /\ \A i \in 1 .. k : \A x \in P[i - 1] : Round(x) \in P[i]
  BY FatAssumption
<1>2. FreeAfter(m, scl) = (CHOOSE f : Eq(f))[k]
  BY Zenon DEF FreeAfter, Loop, After
<1> HIDE DEF a, k, Round
<1>3. \A i \in 0 .. k : \A x \in P[i] : x \in S /\ F[x] = Round(x)
  BY <1>1, Zenon
<1>4. \E f : Eq(f)
  <2> HIDE DEF F, S, Eq
  <2>0. \A i \in 1 .. k : i - 1 \in 0 .. k /\ i # 0
    BY <1>1
  <2>1. PICK f : IsRun(f, k, S, P, a, F)
    <3>1. IsLoop(k, S, P, a, F)
      BY <1>1, <1>3, <2>0, Zenon DEF IsLoop
    <3> QED
      BY <3>1, LoopRuns, Zenon
  <2> DEFINE E(i) == IF i = 0 THEN a ELSE Round(f[i - 1])
  <2>2. ASSUME NEW i \in 0 .. k PROVE f[i] = E(i)
    <3>1. i = 0 \/ (i # 0 /\ i \in 1 .. k /\ i - 1 \in 0 .. k)
      BY <1>1
    <3> QED
      BY <3>1, <1>3, <2>1, Zenon DEF IsRun
  <2>3. f = [i \in 0 .. k |-> E(i)]
    <3> HIDE DEF E
    <3> QED
      BY <2>1, <2>2 DEF IsRun
  <2> QED
    BY <2>3, Zenon DEF Eq
<1> HIDE DEF F, S
<1>5. PICK g : g = (CHOOSE f : Eq(f)) /\ Eq(g)
  BY <1>4, Zenon
<1> DEFINE E(i) == IF i = 0 THEN a ELSE Round(g[i - 1])
<1>6. \A i \in 0 .. k : g[i] = E(i)
  <2>1. g = [i \in 0 .. k |-> E(i)]
    BY <1>5, Zenon
  <2> HIDE DEF E
  <2> QED
    BY <2>1, Zenon
<1> HIDE DEF Eq
<1>7. g[0] = a /\ \A i \in 1 .. k : g[i - 1] \in P[i - 1] => g[i] \in P[i]
  <2>1. 0 \in 0 .. k /\ \A i \in 1 .. k : i \in 0 .. k /\ i # 0
    BY <1>1
  <2> QED
    BY <2>1, <1>1, <1>6, Zenon
<1>8. g[k] \in P[k]
  <2> HIDE DEF E
  <2> QED
    BY <1>1, <1>7, RunInvariant, Zenon
<1> QED
  BY <1>8, <1>2, <1>5, Zenon DEF k

----------------------------------------------------------------------------
(* The number of free clusters. *)

FreeSet(fat) == {c \in Clusters : fat[c] = 0}

\* A known number of free clusters is the right one.
CountRight(m) == m.free_clust # Bad => m.free_clust = Cardinality(FreeSet(Table(m)))

\* The number stays right.
CountKept(m, t) == CountRight(m) => CountRight(t)

\* The free clusters are finitely many, and their number is not the mark of an
\* unknown free_clust.
LEMMA FreeFinite ==
  ASSUME NEW fat
  PROVE  /\ IsFiniteSet(FreeSet(fat)) /\ Cardinality(FreeSet(fat)) \in Nat
         /\ Cardinality(FreeSet(fat)) # Bad
<1>1. IsFiniteSet(Clusters) /\ Cardinality(Clusters) = NFatEnt - 2
  BY FatAssumption, FS_Interval DEF Clusters
<1>2. IsFiniteSet(FreeSet(fat)) /\ Cardinality(FreeSet(fat)) <= Cardinality(Clusters)
  BY <1>1, FS_Subset DEF FreeSet
<1> QED
  BY <1>1, <1>2, FS_CardinalityType, FatAssumption

\* A cluster becomes free, or is taken.
LEMMA FreeMore ==
  ASSUME NEW fat \in [Clusters -> 0 .. EOC], NEW c \in Clusters, fat[c] # 0
  PROVE  Cardinality(FreeSet([fat EXCEPT ![c] = 0])) = Cardinality(FreeSet(fat)) + 1
<1>1. FreeSet([fat EXCEPT ![c] = 0]) = FreeSet(fat) \cup {c} /\ c \notin FreeSet(fat)
  BY DEF FreeSet
<1> QED
  BY <1>1, FreeFinite, FS_AddElement, Zenon

\* Taking a free cluster, as create_chain does, leaves one less.
LEMMA FreeLess ==
  ASSUME NEW fat \in [Clusters -> 0 .. EOC], NEW c \in Clusters, fat[c] = 0, NEW v, v # 0
  PROVE  Cardinality(FreeSet([fat EXCEPT ![c] = v])) = Cardinality(FreeSet(fat)) - 1
<1>1. FreeSet([fat EXCEPT ![c] = v]) = FreeSet(fat) \ {c} /\ c \in FreeSet(fat)
  BY DEF FreeSet
<1> QED
  BY <1>1, FreeFinite, FS_RemoveElement, Zenon

\* A cluster that was in use is given back and counted.
LEMMA FreedOne ==
  ASSUME NEW m \in Machines, NEW t, NEW c \in Clusters, Table(m)[c] # 0,
         Table(t) = [Table(m) EXCEPT ![c] = 0], CountBy(m, t, 1)
  PROVE  CountKept(m, t)
<1>1. Table(m) \in [Clusters -> 0 .. EOC]
  BY TableType, Zenon
<1>2. Cardinality(FreeSet(Table(t))) = Cardinality(FreeSet(Table(m))) + 1
  BY <1>1, FreeMore, Zenon
<1> QED
  BY <1>2 DEF CountRight, CountKept, CountBy

\* A cluster that was free is taken and counted.
LEMMA TookOne ==
  ASSUME NEW m \in Machines, NEW t, NEW c, NEW v \in Clusters, Table(m)[v] = 0, c # 0 => Table(m)[c] # 0,
         Table(t) = Linked(Table(m), c, v), CountBy(m, t, -1)
  PROVE  CountKept(m, t)
<1>1. Table(m) \in [Clusters -> 0 .. EOC] /\ EOC # 0 /\ v # 0 /\ 0 \notin Clusters
  BY TableType, FatAssumption DEF Clusters
<1>2. FreeSet(Table(t)) = FreeSet([Table(m) EXCEPT ![v] = EOC])
  <2>1. ASSUME NEW d \in Clusters PROVE Table(t)[d] = 0 <=> [Table(m) EXCEPT ![v] = EOC][d] = 0
    <3>1. Table(t)[d] = IF d = v THEN EOC ELSE IF d = c THEN v ELSE Table(m)[d]
      BY DEF Linked
    <3>2. [Table(m) EXCEPT ![v] = EOC][d] = IF d = v THEN EOC ELSE Table(m)[d]
      BY <1>1
    <3> QED
      BY <3>1, <3>2, <1>1
  <2> QED
    BY <2>1, Zenon DEF FreeSet
<1>3. Cardinality(FreeSet([Table(m) EXCEPT ![v] = EOC])) = Cardinality(FreeSet(Table(m))) - 1
  BY <1>1, FreeLess, Zenon
<1>4. Cardinality(FreeSet(Table(t))) = Cardinality(FreeSet(Table(m))) - 1
  BY <1>2, <1>3, Zenon
<1>5. t.free_clust = IF m.free_clust = Bad THEN Bad ELSE m.free_clust + (-1)
  BY Zenon DEF CountBy
<1>6. m.free_clust \in Int
  BY DEF Machines, MachineRecords
<1> QED
  BY <1>4, <1>5, <1>6 DEF CountRight, CountKept

----------------------------------------------------------------------------
(* remove_chain. *)

\* A chain has no more links than there are clusters.
LEMMA ChainShort ==
  ASSUME NEW fat, NEW p, NEW n, IsChain(fat, p, n)
  PROVE  n \in Nat /\ n <= NFatEnt - 2
<1>1. p \in Injection(1 .. n, Clusters)
  BY DEF IsChain, Injection, IsInjective
<1>2. IsFiniteSet(Clusters) /\ Cardinality(Clusters) = NFatEnt - 2
  <2>1. NFatEnt - 1 \in Int /\ NFatEnt - 1 >= 2 /\ 2 \in Int
    BY FatAssumption
  <2>2. IsFiniteSet(Clusters) /\ Cardinality(Clusters) = NFatEnt - 1 - 2 + 1
    BY <2>1, FS_Interval DEF Clusters
  <2> QED
    BY <2>2, FatAssumption
<1>3. Cardinality(1 .. n) <= NFatEnt - 2
  BY <1>1, <1>2, FS_Injection
<1>4. n \in Nat /\ Cardinality(1 .. n) = n
  <2>1. n \in Nat \ {0} /\ 1 \in Int /\ n \in Int
    BY DEF IsChain
  <2>2. Cardinality(1 .. n) = n - 1 + 1
    BY <2>1, FS_Interval
  <2> QED
    BY <2>1, <2>2
<1> QED
  BY <1>3, <1>4

\* remove_chain after i rounds: k clusters are free, and the next one is to be looked at,
\* or it has stopped.
RemovedTo(m, p, n, i, x, k) ==
  /\ Table(x.m) = Cut(Table(m), p, k) /\ CountKept(m, x.m)
  /\ x.more => k = i /\ x.res = "OK" /\ x.c = IF k < n THEN p[k + 1] ELSE Table(m)[p[n]]
  /\ ~x.more => (x.res = "OK" => k = n) /\ (x.res # "OK" => Struck(m, x.m))

Removing(m, p, n, i) ==
  {x \in Removals : Steps(m, x.m) /\ \E k \in 0 .. n : RemovedTo(m, p, n, i, x, k)}

\* A round of remove_chain keeps what is known of the clusters freed so far.
LEMMA RemovingOn ==
  ASSUME NEW m \in Machines, Healthy(m), NEW p, NEW n, IsChain(Table(m), p, n),
         NEW i \in Nat, NEW x \in Removing(m, p, n, i)
  PROVE  (IF x.more THEN RemoveRound(x) ELSE x) \in Removing(m, p, n, i + 1)
<1>1. PICK k \in 0 .. n : RemovedTo(m, p, n, i, x, k)
  BY Zenon DEF Removing
<1>2. x \in Removals /\ Steps(m, x.m) /\ x.m \in Machines /\ Healthy(x.m)
  BY Zenon DEF Removing, Steps
<1>3. CASE ~x.more
  <2>1. RemovedTo(m, p, n, i + 1, x, k)
    BY <1>1, <1>3, Zenon DEF RemovedTo
  <2> QED
    BY <2>1, <1>2, <1>3, Zenon DEF Removing
<1>0. Table(x.m) = Cut(Table(m), p, k) /\ CountKept(m, x.m)
  BY <1>1, Zenon DEF RemovedTo
<1>4. CASE x.more
  <2>1. PICK y : y = RemoveRound(x)
    OBVIOUS
  <2>2. /\ y \in Removals /\ Steps(x.m, y.m)
        /\ x.c >= NFatEnt => y.m = x.m /\ y.res = "OK" /\ ~y.more
        /\ x.c \in Clusters /\ Table(x.m)[x.c] \notin {0, 1} => LinkFreed(x, y) \/ FreeFailed(x, y)
    BY <1>2, <2>1, RemoveRoundDone, Zenon
  <2>3. y.m \in Machines /\ Steps(m, y.m)
    <3>1. y.m \in Machines
      BY <2>2, Zenon DEF Steps
    <3> QED
      BY <3>1, <1>2, <2>2, StepsOn, Zenon
  <2>4. CASE k < n
    <3>1. Table(m) \in [Clusters -> 0 .. EOC]
      BY TableType, Zenon
    <3>2. /\ p[k + 1] \in Clusters /\ Table(m)[p[k + 1]] \notin {0, 1}
          /\ Cut(Table(m), p, k)[p[k + 1]] = Table(m)[p[k + 1]]
          /\ [Cut(Table(m), p, k) EXCEPT ![p[k + 1]] = 0] = Cut(Table(m), p, k + 1)
      <4>1. CutMore(Table(m), p, k)
        BY <3>1, <2>4, CutOn, Zenon
      <4> QED
        BY <4>1, Zenon DEF CutMore
    <3>3. x.c = p[k + 1] /\ k = i
      BY <1>1, <1>4, <2>4, Zenon DEF RemovedTo
    <3>4. CASE LinkFreed(x, y)
      <4>1. k + 1 \in 0 .. n /\ n \in Nat /\ k + 1 \in 1 .. n
        BY <2>4 DEF IsChain
      <4>2. /\ y.more /\ y.res = "OK" /\ y.c = Table(x.m)[x.c] /\ CountBy(x.m, y.m, 1)
            /\ Table(y.m) = [Table(x.m) EXCEPT ![x.c] = 0]
        BY <3>4, Zenon DEF LinkFreed
      <4>3. y.c = Table(m)[p[k + 1]]
        BY <4>2, <3>2, <3>3, <1>0, Zenon
      <4>4. y.c = IF k + 1 < n THEN p[k + 1 + 1] ELSE Table(m)[p[n]]
        <5>1. k + 1 < n \/ k + 1 = n
          BY <4>1
        <5> QED
          BY <4>1, <4>3, <5>1 DEF IsChain
      <4>5. Table(y.m) = Cut(Table(m), p, k + 1)
        BY <4>2, <1>0, <3>2, <3>3, Zenon
      <4>6. CountKept(m, y.m)
        <5>1. x.c \in Clusters /\ Table(x.m)[x.c] # 0
          BY <1>0, <3>2, <3>3, Zenon
        <5>2. CountKept(x.m, y.m)
          BY <5>1, <4>2, <1>2, FreedOne, Zenon
        <5> QED
          BY <5>2, <1>0, Zenon DEF CountKept
      <4>7. RemovedTo(m, p, n, i + 1, y, k + 1)
        BY <4>2, <4>4, <4>5, <4>6, <3>3, Zenon DEF RemovedTo
      <4> QED
        BY <4>1, <4>7, <1>4, <2>1, <2>2, <2>3, Zenon DEF Removing
    <3>5. CASE FreeFailed(x, y)
      <4>1. /\ ~y.more /\ y.res = "DISK_ERR" /\ Struck(x.m, y.m)
            /\ Table(y.m) = Table(x.m) /\ y.m.free_clust = x.m.free_clust
        BY <3>5, Zenon DEF FreeFailed
      <4>2. Struck(m, y.m)
        BY <4>1, <1>2, <2>2, <2>3, StruckSteps, Zenon
      <4>3. CountKept(m, y.m)
        BY <4>1, <1>0, Zenon DEF CountKept, CountRight
      <4>4. RemovedTo(m, p, n, i + 1, y, k)
        BY <4>1, <4>2, <4>3, <1>0, Zenon DEF RemovedTo
      <4> QED
        BY <4>4, <1>4, <2>1, <2>2, <2>3, Zenon DEF Removing
    <3> QED
      BY <1>0, <2>2, <3>2, <3>3, <3>4, <3>5, Zenon
  <2>5. CASE ~(k < n)
    <3>1. k = n /\ n \in 1 .. n
      BY <2>5 DEF IsChain
    <3>2. x.c = Table(m)[p[n]]
      BY <1>1, <1>4, <2>5, Zenon DEF RemovedTo
    <3>3. x.c >= NFatEnt
      BY <3>1, <3>2 DEF IsChain
    <3>4. y.m = x.m /\ y.res = "OK" /\ ~y.more
      BY <3>3, <2>2, Zenon
    <3>5. RemovedTo(m, p, n, i + 1, y, k)
      BY <3>1, <3>4, <1>0, Zenon DEF RemovedTo
    <3> QED
      BY <3>5, <1>4, <2>1, <2>2, <2>3, Zenon DEF Removing
  <2> QED
    BY <2>4, <2>5, Zenon
<1> QED
  BY <1>3, <1>4, Zenon

\* remove_chain gives back the clusters of the chain, all of them or, when the disk
\* fails, the first of them; the number of free clusters stays right, and no other
\* entry and no other sector changes.
THEOREM ChainRemoved ==
  ASSUME NEW m \in Machines, Healthy(m), NEW p, NEW n, IsChain(Table(m), p, n),
         NEW r, r = remove_chain(m, p[1])
  PROVE  /\ Steps(m, r.m) /\ CountKept(m, r.m)
         /\ \E k \in 0 .. n : /\ Table(r.m) = Cut(Table(m), p, k)
                              /\ r.res = "OK" => k = n
                              /\ r.res # "OK" => Struck(m, r.m)
<1> DEFINE P == [i \in 0 .. NFatEnt |-> Removing(m, p, n, i)]
           a == [m |-> m, c |-> p[1], res |-> "OK", more |-> TRUE]
<1>1. NFatEnt \in Nat /\ n \in Nat /\ n <= NFatEnt - 2 /\ 1 \in 1 .. n
  <2>1. n \in Nat /\ n <= NFatEnt - 2
    BY ChainShort, Zenon
  <2>2. n \in Nat \ {0}
    BY DEF IsChain
  <2> QED
    BY <2>1, <2>2, FatAssumption
<1>2. p[1] \in Clusters /\ p[1] \in 0 .. EOC
  <2>1. p[1] \in Clusters
    BY <1>1 DEF IsChain
  <2> QED
    BY <2>1, FatAssumption DEF Clusters
<1>3. a \in P[0]
  <2>1. Steps(m, m) /\ Table(m) = Cut(Table(m), p, 0)
    <3>1. Table(m) \in [Clusters -> 0 .. EOC]
      BY TableType, Zenon
    <3>2. Steps(m, m)
      BY MovesNone, MovesSteps, Zenon
    <3> QED
      BY <3>1, <3>2 DEF Cut
  <2>2. a \in Removals /\ a.m = m /\ a.more = TRUE /\ a.res = "OK" /\ a.c = p[1]
    BY <1>2 DEF Removals
  <2>3. 0 < n /\ 0 \in 0 .. n /\ 0 + 1 = 1 /\ 0 \in 0 .. NFatEnt
    BY <1>1
  <2> HIDE DEF a
  <2>4. RemovedTo(m, p, n, 0, a, 0)
    BY <2>1, <2>2, <2>3, Zenon DEF RemovedTo, CountKept
  <2> QED
    BY <2>1, <2>2, <2>3, <2>4, Zenon DEF Removing
<1>4. ASSUME NEW i \in 1 .. NFatEnt, NEW x \in P[i - 1]
      PROVE  (IF x.more THEN RemoveRound(x) ELSE x) \in P[i]
  <2>1. i - 1 \in Nat /\ i - 1 + 1 = i /\ x \in Removing(m, p, n, i - 1)
    BY <1>1
  <2>2. (IF x.more THEN RemoveRound(x) ELSE x) \in Removing(m, p, n, i - 1 + 1)
    BY <2>1, RemovingOn, Zenon
  <2> QED
    BY <2>1, <2>2
<1>5. PICK x : x = RemoveFrom(m, p[1])
  OBVIOUS
<1>6. x \in P[NFatEnt]
  <2> HIDE DEF P
  <2> QED
    BY <1>3, <1>4, <1>5, RemoveRule, Zenon
<1>7. r = [m |-> x.m, res |-> x.res]
  <2>1. IsClust(p[1])
    BY <1>2, EntryPlace, Zenon
  <2> QED
    BY <2>1, <1>5, Zenon DEF remove_chain, After, Fail
<1>8. x \in Removing(m, p, n, NFatEnt)
  BY <1>1, <1>6
<1>9. PICK k \in 0 .. n : Steps(m, x.m) /\ RemovedTo(m, p, n, NFatEnt, x, k)
  BY <1>8, Zenon DEF Removing
<1>10. ~x.more
  <2>1. x.more => k = NFatEnt
    BY <1>9, Zenon DEF RemovedTo
  <2>2. k # NFatEnt
    BY <1>1
  <2> QED
    BY <2>1, <2>2, Zenon
<1>11. r.m = x.m /\ r.res = x.res
  BY <1>7
<1> QED
  BY <1>9, <1>10, <1>11, Zenon DEF RemovedTo

\* Whatever the disk does, and when the power is lost, remove_chain writes of the sectors
\* outside the FAT only the one in the window, with what the window holds.
THEOREM RemoveSpares ==
  ASSUME NEW m \in Machines, NEW c \in 0 .. EOC
  PROVE  Steps(m, remove_chain(m, c).m)
<1> DEFINE Q == {x \in Removals : Steps(m, x.m)}
           P == [i \in 0 .. NFatEnt |-> Q]
           a == [m |-> m, c |-> c, res |-> "OK", more |-> TRUE]
<1>1. Steps(m, m) /\ NFatEnt \in Nat
  BY MovesNone, MovesSteps, FatAssumption
<1>2. a \in P[0]
  BY <1>1 DEF Removals
<1>3. ASSUME NEW x \in Q PROVE RemoveRound(x) \in Q
  <2>1. PICK y : y = RemoveRound(x)
    OBVIOUS
  <2>2. y \in Removals /\ Steps(x.m, y.m)
    BY <2>1, RemoveRoundDone, Zenon
  <2>3. x.m \in Machines /\ y.m \in Machines
    BY <2>2 DEF Removals
  <2> QED
    BY <2>1, <2>2, <2>3, StepsOn
<1>4. \A i \in 1 .. NFatEnt : \A x \in P[i - 1] : (IF x.more THEN RemoveRound(x) ELSE x) \in P[i]
  BY <1>1, <1>3
<1>5. PICK x : x = RemoveFrom(m, c)
  OBVIOUS
<1>6. x \in P[NFatEnt]
  <2> HIDE DEF P
  <2> QED
    BY <1>2, <1>4, <1>5, RemoveRule, Zenon
<1>7. Steps(m, x.m)
  BY <1>1, <1>6
<1>8. remove_chain(m, c) \in {[m |-> m, res |-> "INT_ERR"], [m |-> x.m, res |-> x.res]}
  BY <1>5 DEF remove_chain, After, Fail
<1> QED
  BY <1>1, <1>7, <1>8

\* remove_chain of a whole chain keeps the table sound, also when the disk fails.
THEOREM RemoveSound ==
  ASSUME NEW m \in Machines, Healthy(m), SoundTable(Table(m)), NEW p, NEW n,
         IsChain(Table(m), p, n), \A d \in Clusters : Table(m)[d] # p[1]
  PROVE  SoundTable(Table(remove_chain(m, p[1]).m))
<1>1. PICK r : r = remove_chain(m, p[1])
  OBVIOUS
<1>2. PICK k \in 0 .. n : Table(r.m) = Cut(Table(m), p, k)
  <2>1. \E k \in 0 .. n : /\ Table(r.m) = Cut(Table(m), p, k)
                          /\ r.res = "OK" => k = n
                          /\ r.res # "OK" => Struck(m, r.m)
    BY <1>1, ChainRemoved, Zenon
  <2> QED
    BY <2>1, Zenon
<1>3. Table(m) \in [Clusters -> 0 .. EOC]
  BY TableType
<1>4. SoundTable(Cut(Table(m), p, k))
  BY <1>3, CutSound
<1> QED
  BY <1>1, <1>2, <1>4

----------------------------------------------------------------------------
(* create_chain. *)

\* The search finds a free cluster if there is one, and stops in time.
LEMMA Searched ==
  ASSUME NEW m \in Machines, NEW scl \in 1 .. NFatEnt - 1, NEW x, x = FreeAfter(m, scl)
  PROVE  Found(m, x, Clusters) /\ ~x.more
<1> DEFINE P == [i \in 0 .. NFatEnt |-> Searching(m, scl, i)]
           a == [m |-> m, n |-> scl, val |-> 0, more |-> TRUE]
<1>1. NFatEnt \in Nat /\ NFatEnt > 2
  BY FatAssumption
<1>2. a \in P[0]
  <2>1. Moves(m, m)
    BY MovesNone, Zenon
  <2>2. 0 \in 0 .. EOC /\ 0 \notin Clusters /\ 0 # Bad /\ 0 # 1
    BY FatAssumption DEF Clusters
  <2>3. a \in Searches /\ a.m = m /\ a.n = scl /\ a.val = 0 /\ a.more = TRUE
    BY <2>2 DEF Searches
  <2>4. SeenAt(scl, scl) = {} /\ scl >= scl /\ scl = scl + 0 /\ 0 \in 0 .. NFatEnt
    BY <1>1 DEF SeenAt
  <2> HIDE DEF a
  <2>5. Found(m, a, SeenAt(a.n, scl))
    BY <2>1, <2>2, <2>3, <2>4, Zenon DEF Found
  <2> QED
    BY <2>3, <2>4, <2>5, Zenon DEF Searching
<1>3. ASSUME NEW i \in 1 .. NFatEnt, NEW y \in P[i - 1]
      PROVE  (IF y.more THEN SearchRound(y, scl) ELSE y) \in P[i]
  <2>1. i - 1 \in Nat /\ i - 1 + 1 = i /\ y \in Searching(m, scl, i - 1)
    BY <1>1
  <2>2. (IF y.more THEN SearchRound(y, scl) ELSE y) \in Searching(m, scl, i - 1 + 1)
    BY <2>1, SearchingOn, Zenon
  <2> QED
    BY <2>1, <2>2
<1>4. x \in P[NFatEnt]
  <2> HIDE DEF P
  <2> QED
    BY <1>2, <1>3, SearchRule, Zenon
<1>5. x \in Searching(m, scl, NFatEnt)
  BY <1>1, <1>4
<1>6. ~x.more
  <2>1. x.more => IF x.n >= scl THEN x.n = scl + NFatEnt ELSE x.n = scl + NFatEnt - (NFatEnt - 2)
    BY <1>5, Zenon DEF Searching
  <2>2. x.n \in 1 .. NFatEnt - 1
    BY <1>5 DEF Searching, Searches
  <2> QED
    BY <1>1, <2>1, <2>2
<1> QED
  BY <1>5, <1>6, Zenon DEF Searching

\* The outcomes of create_chain: a cluster that was free is the last of the chain; there
\* is none; or the disk fails, and the table is as it was or has one cluster more in use.
Appended(m, c, r) ==
  /\ r.val \in Clusters /\ Table(m)[r.val] = 0 /\ r.m.last_clust = r.val
  /\ Table(r.m) = Linked(Table(m), c, r.val) /\ CountKept(m, r.m)

NoneFree(m, r) ==
  /\ r.val = 0 /\ \A d \in Clusters : Table(m)[d] # 0
  /\ Table(r.m) = Table(m) /\ CountKept(m, r.m)

AppendFailed(m, r) ==
  /\ r.val = Bad /\ Struck(m, r.m)
  /\ \/ Table(r.m) = Table(m) /\ CountKept(m, r.m)
     \/ \E v \in Clusters : Table(m)[v] = 0 /\ Table(r.m) = [Table(m) EXCEPT ![v] = EOC]

Extension(m, c, r) == Appended(m, c, r) \/ NoneFree(m, r) \/ AppendFailed(m, r)

\* The outcome counts from before the entry was read.
LEMMA ExtensionFrom ==
  ASSUME NEW m \in Machines, NEW x \in Machines, NEW c, NEW r, r.m \in Machines,
         Steps(m, x), SameCount(m, x), Table(x) = Table(m), Steps(x, r.m), Extension(x, c, r)
  PROVE  Extension(m, c, r)
<1>1. CountKept(x, r.m) => CountKept(m, r.m)
  BY Zenon DEF CountKept, CountRight, SameCount
<1>2. Struck(x, r.m) => Struck(m, r.m)
  BY StruckSteps, Zenon
<1>3. CASE Appended(x, c, r)
  BY <1>1, <1>3, Zenon DEF Appended, Extension
<1>4. CASE NoneFree(x, r)
  BY <1>1, <1>4, Zenon DEF NoneFree, Extension
<1>5. CASE AppendFailed(x, r)
  BY <1>1, <1>2, <1>5, Zenon DEF AppendFailed, Extension
<1> QED
  BY <1>3, <1>4, <1>5, Zenon DEF Extension

\* Extend, whatever the disk does.
LEMMA Extended ==
  ASSUME NEW m \in Machines, NEW c \in Clusters \cup {0}, NEW scl \in 1 .. NFatEnt - 1,
         NEW r, r = Extend(m, c, scl)
  PROVE  /\ r.m \in Machines /\ Steps(m, r.m)
         /\ Healthy(m) /\ (c # 0 => Table(m)[c] # 0) /\ (\A d \in Clusters : Table(m)[d] # 1)
            => Extension(m, c, r)
<1>1. PICK x : x = FreeAfter(m, scl)
  OBVIOUS
<1>2. r = IF x.val \in {0, 1, Bad} THEN x ELSE Link(x.m, c, x.val)
  BY <1>1 DEF Extend, After
<1>3. /\ Moves(m, x.m) /\ x.val \in Clusters \cup {0, 1, Bad}
      /\ x.val = Bad => Struck(m, x.m)
      /\ Healthy(m) => /\ x.val \in Clusters => Table(m)[x.val] = 0
                       /\ x.val = 1 => \E d \in Clusters : Table(m)[d] = 1
                       /\ x.val = 0 => \A d \in Clusters : Table(m)[d] # 0
  BY <1>1, Searched, Zenon DEF Found
<1>4. /\ x.m \in Machines /\ Steps(m, x.m) /\ SameCount(m, x.m)
      /\ Healthy(m) => Table(x.m) = Table(m)
  BY <1>3, MovesSteps, Zenon
<1>5. Healthy(m) => Healthy(x.m)
  BY <1>4, Zenon DEF Steps
<1>6. CASE x.val \in {0, 1, Bad}
  <2>1. r = x
    BY <1>2, <1>6, Zenon
  <2>2. ASSUME Healthy(m), \A d \in Clusters : Table(m)[d] # 1
        PROVE  Extension(m, c, r)
    <3>1. CountKept(m, r.m) /\ Table(r.m) = Table(m)
      BY <2>1, <2>2, <1>4, Zenon DEF CountKept, CountRight, SameCount
    <3>2. CASE x.val = 0
      BY <3>1, <3>2, <2>1, <2>2, <1>3, Zenon DEF NoneFree, Extension
    <3>3. CASE x.val = Bad
      BY <3>1, <3>3, <2>1, <1>3, Zenon DEF AppendFailed, Extension
    <3> QED
      BY <3>2, <3>3, <2>2, <1>3, <1>6, Zenon
  <2> QED
    BY <2>1, <2>2, <1>4, Zenon
<1>7. CASE x.val \notin {0, 1, Bad}
  <2>1. PICK v \in Clusters : v = x.val
    BY <1>3, <1>7, Zenon
  <2>2. r = Link(x.m, c, v)
    BY <2>1, <1>2, <1>7, Zenon
  <2>3. /\ r.m \in Machines /\ Steps(x.m, r.m) /\ r.val \in {v, Bad}
        /\ r.val = Bad => Struck(x.m, r.m)
        /\ Healthy(x.m) /\ c # v => LinkMade(x.m, c, v, r) \/ LinkFailed(x.m, v, r)
    BY <2>2, <1>4, LinkDone, Zenon
  <2>4. Steps(m, r.m)
    BY <2>3, <1>4, StepsOn, Zenon
  <2>5. ASSUME Healthy(m), c # 0 => Table(m)[c] # 0
        PROVE  Extension(m, c, r)
    <3>1. Table(x.m) = Table(m) /\ Table(m)[v] = 0
      BY <2>1, <2>5, <1>3, <1>4, Zenon
    <3>2. v # 0 /\ c # v
      <4>1. v # 0
        BY DEF Clusters
      <4> QED
        BY <4>1, <3>1, <2>5, Zenon
    <3>3. CASE LinkMade(x.m, c, v, r)
      <4>1. CountKept(x.m, r.m)
        BY <3>1, <3>3, <2>5, <1>4, TookOne, Zenon DEF LinkMade
      <4>2. Appended(x.m, c, r)
        BY <3>1, <3>3, <4>1, Zenon DEF LinkMade, Appended
      <4> QED
        BY <4>2, <3>1, <2>3, <1>4, ExtensionFrom, Zenon DEF Extension
    <3>4. CASE LinkFailed(x.m, v, r)
      <4>1. Table(r.m) = Table(x.m) => CountKept(x.m, r.m)
        BY <3>4, Zenon DEF LinkFailed, CountKept, CountRight
      <4>2. AppendFailed(x.m, r)
        BY <4>1, <3>1, <3>4, <2>3, Zenon DEF LinkFailed, AppendFailed
      <4> QED
        BY <4>2, <3>1, <2>3, <1>4, ExtensionFrom, Zenon DEF Extension
    <3> QED
      BY <3>2, <3>3, <3>4, <2>3, <2>5, <1>5, Zenon
  <2> QED
    BY <2>3, <2>4, <2>5, Zenon
<1> QED
  BY <1>6, <1>7, Zenon

\* The chain that ends in c, or a new one when c is 0, gets a cluster that was free, and
\* the number of free clusters stays right; 0 says that the volume is full, and a link
\* that is there is returned.  A disk error leaves the table as it was, or with the new
\* cluster in use and in no chain.
THEOREM ChainExtended ==
  ASSUME NEW m \in Machines, Healthy(m), NEW c \in Clusters \cup {0},
         c # 0 => Table(m)[c] # 0, \A d \in Clusters : Table(m)[d] # 1,
         NEW r, r = create_chain(m, c)
  PROVE  /\ r.m \in Machines /\ Steps(m, r.m)
         /\ \/ /\ c # 0 /\ r.val = Table(m)[c] /\ r.val \in Clusters
               /\ Table(r.m) = Table(m) /\ CountKept(m, r.m)
            \/ Extension(m, c, r) /\ (c # 0 /\ r.val # Bad => Table(m)[c] >= NFatEnt)
<1>1. CASE c = 0
  <2>1. PICK scl \in 1 .. NFatEnt - 1 : r = Extend(m, c, scl)
    <3>1. m.last_clust \in Nat /\ NFatEnt \in Nat /\ NFatEnt > 2
      BY FatAssumption DEF Machines, MachineRecords
    <3>2. PICK scl : scl = IF m.last_clust = 0 \/ m.last_clust >= NFatEnt THEN 1 ELSE m.last_clust
      OBVIOUS
    <3>3. r = Extend(m, c, scl)
      BY <1>1, <3>2, Zenon DEF create_chain
    <3>4. scl \in 1 .. NFatEnt - 1
      BY <3>1, <3>2
    <3> QED
      BY <3>3, <3>4, Zenon
  <2> QED
    BY <1>1, <2>1, Extended, Zenon
<1>2. CASE c # 0
  <2>1. PICK g : g = get_fat(m, c)
    OBVIOUS
  <2>2. r = CASE g.val < 2 -> [m |-> g.m, val |-> 1]
              [] g.val = Bad \/ g.val \in 2 .. NFatEnt - 1 -> g
              [] OTHER -> Extend(g.m, c, c)
    BY <1>2, <2>1 DEF create_chain, After
  <2>3. /\ Moves(m, g.m)
        /\ g.val = Bad => Struck(m, g.m)
        /\ g.val # Bad => g.val \in 0 .. EOC
        /\ g.val # Bad => g.val = Table(m)[c]
    <3>1. c \in Clusters
      BY <1>2, Zenon
    <3> QED
      BY <2>1, <3>1, GetFat, Zenon
  <2>4. /\ g.m \in Machines /\ Steps(m, g.m) /\ SameCount(m, g.m) /\ Table(g.m) = Table(m)
    BY <2>3, MovesSteps, Zenon
  <2>5. Healthy(g.m) /\ CountKept(m, g.m)
    BY <2>4, Zenon DEF Steps, CountKept, CountRight, SameCount
  <2>6. /\ c \in Clusters /\ c \in 1 .. NFatEnt - 1 /\ Bad >= 2 /\ NFatEnt \in Nat /\ EOC \in Nat
        /\ Bad \in Nat /\ Bad \notin Clusters
    BY <1>2, FatAssumption DEF Clusters
  <2>7. g.val # Bad => g.val \in Nat /\ g.val # 0 /\ g.val # 1
    BY <2>3, <2>6, <1>2
  <2>8. CASE g.val = Bad
    <3>1. r = g
      BY <2>2, <2>6, <2>8
    <3>2. AppendFailed(m, r)
      BY <3>1, <2>3, <2>4, <2>5, <2>8, Zenon DEF AppendFailed
    <3> QED
      BY <3>1, <3>2, <2>4, <2>8, Zenon DEF Extension
  <2>9. CASE g.val # Bad /\ g.val \in Clusters
    <3>1. r = g
      BY <2>2, <2>6, <2>7, <2>9 DEF Clusters
    <3> QED
      BY <3>1, <1>2, <2>3, <2>4, <2>5, <2>9, Zenon
  <2>10. CASE g.val # Bad /\ g.val \notin Clusters
    <3>1. r = Extend(g.m, c, c)
      BY <2>2, <2>6, <2>7, <2>10 DEF Clusters
    <3>2. Table(m)[c] >= NFatEnt
      BY <2>3, <2>6, <2>7, <2>10 DEF Clusters
    <3>3. r.m \in Machines /\ Steps(g.m, r.m) /\ Extension(g.m, c, r)
      BY <3>1, <2>4, <2>5, <2>6, Extended, Zenon
    <3>4. Steps(m, r.m) /\ Extension(m, c, r)
      BY <3>3, <2>4, StepsOn, ExtensionFrom, Zenon
    <3> QED
      BY <3>2, <3>3, <3>4, Zenon
  <2> QED
    BY <2>8, <2>9, <2>10, Zenon
<1> QED
  BY <1>1, <1>2, Zenon

\* Whatever the disk does, and when the power is lost, create_chain writes of the sectors
\* outside the FAT only the one in the window, with what the window holds.
THEOREM CreateSpares ==
  ASSUME NEW m \in Machines, NEW c \in 0 .. EOC
  PROVE  Steps(m, create_chain(m, c).m)
<1>1. m.last_clust \in Nat /\ NFatEnt \in Nat /\ NFatEnt > 2 /\ Steps(m, m) /\ EOC \in Nat
  BY FatAssumption, MovesNone, MovesSteps DEF Machines, MachineRecords
<1>2. CASE c = 0
  <2>1. PICK scl : scl = IF m.last_clust = 0 \/ m.last_clust >= NFatEnt THEN 1 ELSE m.last_clust
    OBVIOUS
  <2>2. create_chain(m, c) = Extend(m, 0, scl)
    BY <1>2, <2>1, Zenon DEF create_chain
  <2>3. scl \in 1 .. NFatEnt - 1 /\ 0 \in Clusters \cup {0}
    BY <1>1, <2>1
  <2> QED
    BY <2>2, <2>3, Extended, Zenon
<1>3. CASE c # 0
  <2>1. PICK g : g = get_fat(m, c)
    OBVIOUS
  <2>2. create_chain(m, c) = CASE g.val < 2 -> [m |-> g.m, val |-> 1]
                               [] g.val = Bad \/ g.val \in 2 .. NFatEnt - 1 -> g
                               [] OTHER -> Extend(g.m, c, c)
    BY <1>3, <2>1 DEF create_chain, After
  <2>3. CASE c \notin Clusters
    <3>1. g = [m |-> m, val |-> 1]
      BY <2>1, <2>3, <1>1, ClusterOrNot
    <3>2. create_chain(m, c) = [m |-> m, val |-> 1]
      BY <3>1, <2>2, <1>1, FatAssumption
    <3> QED
      BY <3>2, <1>1
  <2>4. CASE c \in Clusters
    <3>1. g.m \in Machines /\ Steps(m, g.m)
      <4>1. Moves(m, g.m)
        BY <2>1, <2>4, GetFat, Zenon
      <4> QED
        BY <4>1, MovesSteps
    <3>2. PICK t : t = Extend(g.m, c, c)
      OBVIOUS
    <3>3. Steps(g.m, t.m)
      <4>1. c \in 1 .. NFatEnt - 1
        BY <2>4 DEF Clusters
      <4> QED
        BY <4>1, <3>1, <3>2, <2>4, Extended, Zenon
    <3>4. Steps(m, t.m)
      <4>1. t.m \in Machines
        BY <3>3, Zenon DEF Steps
      <4> QED
        BY <4>1, <3>1, <3>3, StepsOn
    <3>5. create_chain(m, c).m \in {g.m, t.m}
      BY <2>2, <3>2
    <3> QED
      BY <3>1, <3>4, <3>5
  <2> QED
    BY <2>3, <2>4
<1> QED
  BY <1>2, <1>3

\* create_chain keeps the table sound, also when the disk fails.
THEOREM CreateSound ==
  ASSUME NEW m \in Machines, Healthy(m), SoundTable(Table(m)), NEW c \in Clusters \cup {0},
         c # 0 => Table(m)[c] # 0
  PROVE  SoundTable(Table(create_chain(m, c).m))
<1>1. PICK r : r = create_chain(m, c)
  OBVIOUS
<1>2. \A d \in Clusters : Table(m)[d] # 1
  BY DEF SoundTable
<1>3. \/ Table(r.m) = Table(m)
      \/ /\ r.val \in Clusters /\ Table(m)[r.val] = 0 /\ (c # 0 => Table(m)[c] >= NFatEnt)
         /\ Table(r.m) = Linked(Table(m), c, r.val)
      \/ \E v \in Clusters : Table(m)[v] = 0 /\ Table(r.m) = [Table(m) EXCEPT ![v] = EOC]
  <2>1. \/ Table(r.m) = Table(m)
        \/ Extension(m, c, r) /\ (c # 0 /\ r.val # Bad => Table(m)[c] >= NFatEnt)
    BY <1>1, <1>2, ChainExtended, Zenon
  <2>2. Bad \notin Clusters
    BY FatAssumption DEF Clusters
  <2> QED
    BY <2>1, <2>2, Zenon DEF Extension, Appended, NoneFree, AppendFailed
<1>4. Table(m) \in [Clusters -> 0 .. EOC]
  BY TableType
<1>5. CASE /\ r.val \in Clusters /\ Table(m)[r.val] = 0 /\ (c # 0 => Table(m)[c] >= NFatEnt)
           /\ Table(r.m) = Linked(Table(m), c, r.val)
  BY <1>1, <1>4, <1>5, LinkedSound
<1>6. CASE \E v \in Clusters : Table(m)[v] = 0 /\ Table(r.m) = [Table(m) EXCEPT ![v] = EOC]
  <2>1. PICK v \in Clusters : Table(m)[v] = 0 /\ Table(r.m) = [Table(m) EXCEPT ![v] = EOC]
    BY <1>6
  <2>2. SoundTable([Table(m) EXCEPT ![v] = EOC])
    BY <1>4, <2>1, MarkedSound, Zenon
  <2> QED
    BY <1>1, <2>1, <2>2
<1> QED
  BY <1>1, <1>3, <1>5, <1>6

----------------------------------------------------------------------------
(* Chains. *)

\* create_chain makes the chain that ends in c longer by one cluster, which was free, or
\* leaves it as it is; every other chain stays as it is.
THEOREM ChainGrows ==
  ASSUME NEW m \in Machines, Healthy(m), SoundTable(Table(m)), NEW c \in Clusters \cup {0},
         c # 0 => Table(m)[c] # 0, NEW q, NEW l, IsChain(Table(m), q, l),
         NEW r, r = create_chain(m, c)
  PROVE  /\ c = q[l] => \/ IsChain(Table(r.m), q, l) /\ r.val \in {0, Bad}
                        \/ /\ IsChain(Table(r.m), Longer(q, l, r.val), l + 1)
                           /\ Table(m)[r.val] = 0
         /\ (\A i \in 1 .. l : c # q[i]) => IsChain(Table(r.m), q, l)
<1>1. \A d \in Clusters : Table(m)[d] # 1
  BY Zenon DEF SoundTable
<1>2. \/ Table(r.m) = Table(m) /\ (r.val \in {0, Bad} \/ (c # 0 /\ Table(m)[c] \in Clusters))
      \/ /\ r.val \in Clusters /\ Table(m)[r.val] = 0
         /\ Table(r.m) = Linked(Table(m), c, r.val)
      \/ /\ r.val = Bad
         /\ \E v \in Clusters : Table(m)[v] = 0 /\ Table(r.m) = [Table(m) EXCEPT ![v] = EOC]
  <2>1. \/ Table(r.m) = Table(m) /\ c # 0 /\ r.val = Table(m)[c] /\ r.val \in Clusters
        \/ Extension(m, c, r)
    BY <1>1, ChainExtended, Zenon
  <2> QED
    BY <2>1, Zenon DEF Extension, Appended, NoneFree, AppendFailed
<1>3. Table(m) \in [Clusters -> 0 .. EOC]
  BY TableType, Zenon
<1>4. CASE Table(r.m) = Table(m) /\ (r.val \in {0, Bad} \/ (c # 0 /\ Table(m)[c] \in Clusters))
  <2>1. Table(m)[q[l]] \notin Clusters
    <3>1. l \in 1 .. l /\ q[l] \in Clusters /\ Table(m)[q[l]] >= NFatEnt
      BY DEF IsChain
    <3>2. Table(m)[q[l]] \in Nat
      BY <3>1, <1>3, FatAssumption
    <3> QED
      BY <3>1, <3>2, FatAssumption DEF Clusters
  <2> QED
    BY <1>4, <2>1, Zenon
<1>5. CASE /\ r.val \in Clusters /\ Table(m)[r.val] = 0
           /\ Table(r.m) = Linked(Table(m), c, r.val)
  <2>1. PICK v \in Clusters : v = r.val
    BY <1>5, Zenon
  <2>2. Table(m)[v] = 0 /\ Table(r.m) = Linked(Table(m), c, v)
    BY <1>5, <2>1, Zenon
  <2>3. c = q[l] => IsChain(Table(r.m), Longer(q, l, v), l + 1)
    BY <1>3, <2>2, LinkedLonger, Zenon
  <2>4. (\A i \in 1 .. l : c # q[i]) => IsChain(Linked(Table(m), c, v), q, l)
    BY <1>3, <2>2, LinkedOther, Zenon
  <2> QED
    BY <2>1, <2>2, <2>3, <2>4, Zenon
<1>6. CASE /\ r.val = Bad
           /\ \E v \in Clusters : Table(m)[v] = 0 /\ Table(r.m) = [Table(m) EXCEPT ![v] = EOC]
  <2>1. PICK v \in Clusters : Table(m)[v] = 0 /\ Table(r.m) = [Table(m) EXCEPT ![v] = EOC]
    BY <1>6, Zenon
  <2>2. IsChain(Table(r.m), q, l)
    <3>1. IsChain([Table(m) EXCEPT ![v] = EOC], q, l)
      BY <2>1, <1>3, LinkedOther, Zenon
    <3> QED
      BY <3>1, <2>1, Zenon
  <2> QED
    BY <2>2, <1>6, Zenon
<1> QED
  BY <1>2, <1>4, <1>5, <1>6, Zenon

\* remove_chain leaves the chains alone that have no cluster of the one it is given.
THEOREM OthersStay ==
  ASSUME NEW m \in Machines, Healthy(m), NEW p, NEW n, IsChain(Table(m), p, n),
         NEW q, NEW l, IsChain(Table(m), q, l), \A i \in 1 .. n, j \in 1 .. l : p[i] # q[j]
  PROVE  IsChain(Table(remove_chain(m, p[1]).m), q, l)
<1>1. PICK r : r = remove_chain(m, p[1])
  OBVIOUS
<1>2. PICK k \in 0 .. n : Table(r.m) = Cut(Table(m), p, k)
  <2>1. \E k \in 0 .. n : /\ Table(r.m) = Cut(Table(m), p, k)
                          /\ r.res = "OK" => k = n
                          /\ r.res # "OK" => Struck(m, r.m)
    BY <1>1, ChainRemoved, Zenon
  <2> QED
    BY <2>1, Zenon
<1>3. \A j \in 1 .. l : q[j] \in Clusters /\ Table(r.m)[q[j]] = Table(m)[q[j]]
  <2>1. \A j \in 1 .. l : q[j] \in Clusters
    BY DEF IsChain
  <2>2. \A i \in 1 .. k : i \in 1 .. n
    BY DEF IsChain
  <2> QED
    BY <2>1, <2>2, <1>2 DEF Cut
<1> QED
  BY <1>1, <1>3, SameChain, Zenon

============================================================================
