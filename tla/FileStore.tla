------------------------------ MODULE FileStore ------------------------------
(***************************************************************************)
(* What the file system promises an application: a tree of files and       *)
(* directories and open files with a position.  No sectors, clusters or    *)
(* buffers.  A call that is refused changes neither.                       *)
(***************************************************************************)
EXTENDS Integers, Sequences, SequencesExt

CONSTANT Handles

VARIABLES tree,   \* path -> [dir, data]
          hnd,    \* handle -> [open, path, pos, rd, wr]
          arg,    \* the data the last call was given
          out     \* the data the last call returned

vars == <<tree, hnd, arg, out>>

Shut == [open |-> FALSE]
File(d) == [dir |-> FALSE, data |-> d]
Dir == [dir |-> TRUE, data |-> <<>>]
Has(p) == p \in DOMAIN tree
InDir(p) == p # <<>> /\ (Front(p) = <<>> \/ (Has(Front(p)) /\ tree[Front(p)].dir))
Children(p) == {q \in DOMAIN tree : q # p /\ IsPrefix(p, q)}
With(p, x) == [q \in DOMAIN tree \cup {p} |-> IF q = p THEN x ELSE tree[q]]
Data(h) == tree[hnd[h].path].data

Init == tree = <<>> /\ hnd = [h \in Handles |-> Shut] /\ arg = <<>> /\ out = <<>>

NoData == arg' = <<>> /\ out' = <<>>

Opened(h, p, rd, wr) ==
  hnd' = [hnd EXCEPT ![h] = [open |-> TRUE, path |-> p, pos |-> 0, rd |-> rd, wr |-> wr]]

Open(h, p) ==
  /\ ~hnd[h].open /\ Has(p) /\ ~tree[p].dir
  /\ \E rd, wr \in BOOLEAN : Opened(h, p, rd, wr)
  /\ NoData /\ UNCHANGED tree

\* A new file, or the emptied old one.
Create(h, p) ==
  /\ ~hnd[h].open /\ InDir(p) /\ (Has(p) => ~tree[p].dir)
  /\ \E rd, wr \in BOOLEAN : Opened(h, p, rd, wr)
  /\ tree' = With(p, File(<<>>)) /\ NoData

Read(h) ==
  /\ hnd[h].open /\ hnd[h].rd
  /\ \E n \in 0 .. Len(Data(h)) - hnd[h].pos :
       /\ out' = SubSeq(Data(h), hnd[h].pos + 1, hnd[h].pos + n)
       /\ hnd' = [hnd EXCEPT ![h].pos = @ + n]
  /\ arg' = <<>> /\ UNCHANGED tree

\* The argument replaces what follows the position, or a part of it does.
Write(h) == LET d == arg' IN
  /\ hnd[h].open /\ hnd[h].wr
  /\ \E n \in 0 .. Len(d) :
       /\ tree' = With(hnd[h].path,
                       File(SubSeq(Data(h), 1, hnd[h].pos) \o SubSeq(d, 1, n)
                              \o SubSeq(Data(h), hnd[h].pos + n + 1, Len(Data(h)))))
       /\ hnd' = [hnd EXCEPT ![h].pos = @ + n]
  /\ out' = <<>>

\* The position moves; beyond the end of a file open for writing the file
\* grows, with any content.
Seek(h) ==
  LET p == hnd[h].path IN
  /\ hnd[h].open /\ hnd'[h].open
  /\ DOMAIN tree' = DOMAIN tree /\ \A q \in DOMAIN tree \ {p} : tree'[q] = tree[q]
  /\ ~tree'[p].dir /\ IsPrefix(Data(h), tree'[p].data)
  /\ Len(tree'[p].data) > Len(Data(h)) => hnd[h].wr /\ hnd'[h].pos = Len(tree'[p].data)
  /\ hnd'[h].pos \in 0 .. Len(tree'[p].data)
  /\ hnd' = [hnd EXCEPT ![h].pos = hnd'[h].pos]
  /\ NoData

Truncate(h) ==
  /\ hnd[h].open /\ hnd[h].wr
  /\ tree' = With(hnd[h].path, File(SubSeq(Data(h), 1, hnd[h].pos)))
  /\ NoData /\ UNCHANGED hnd

Close(h) ==
  /\ hnd[h].open
  /\ hnd' = [hnd EXCEPT ![h] = Shut] /\ NoData /\ UNCHANGED tree

MakeDir(p) ==
  /\ ~Has(p) /\ InDir(p)
  /\ tree' = With(p, Dir) /\ NoData /\ UNCHANGED hnd

Delete(p) ==
  /\ Has(p) /\ Children(p) = {}
  /\ tree' = [q \in DOMAIN tree \ {p} |-> tree[q]] /\ NoData /\ UNCHANGED hnd

\* The object at p, with all below it, moves to q.
Move(p, q) ==
  LET Moved(x) == IF IsPrefix(p, x) THEN q \o SubSeq(x, Len(p) + 1, Len(x)) ELSE x
      Old(y) == IF IsPrefix(q, y) THEN p \o SubSeq(y, Len(q) + 1, Len(y)) ELSE y
  IN /\ Has(p) /\ ~Has(q) /\ InDir(q) /\ ~IsPrefix(p, q)
     /\ tree' = [y \in {Moved(x) : x \in DOMAIN tree} |-> tree[Old(y)]]
     /\ hnd' = [h \in Handles |-> IF hnd[h].open THEN [hnd[h] EXCEPT !.path = Moved(@)] ELSE Shut]
     /\ NoData

Refused == out' = <<>> /\ UNCHANGED <<tree, hnd>>

Next ==
  \/ Refused
  \/ \E h \in Handles : Read(h) \/ Write(h) \/ Seek(h) \/ Truncate(h) \/ Close(h)
  \/ \E p \in DOMAIN tree' \cup DOMAIN tree :
       \/ MakeDir(p) \/ Delete(p)
       \/ \E h \in Handles : Open(h, p) \/ Create(h, p)
       \/ \E q \in DOMAIN tree' : Move(p, q)

Spec == Init /\ [][Next]_vars
=============================================================================
