------------------------------ MODULE MCFatTree ------------------------------
(* Instances of FatFs for TLC: the directory tree.  `paths` are the paths   *)
(* that the application uses: it changes the tree, or it reads a directory  *)
(* while entries beside it come and go.                                     *)
EXTENDS MCFatFs

VARIABLE paths

\* Calls on the tree: files are made, grow by seeking and are closed.
TreeNext ==
  \/ TreeCalls(TreePaths)
  \/ \E h \in Handles : \/ \E p \in TreePaths, mode \in Modes : FOpen(h, p, mode)
                         \/ \E ofs \in Offsets : FSeek(h, ofs)
                         \/ FClose(h)
  \/ \E p \in TreePaths : FUnlink(p)

\* A directory is read while entries come and go.
Entries == ListPaths \ {P(<<>>)}
ListNext ==
  \/ DirCalls(ListPaths)
  \/ Queries({P(<<>>), P(<<"d">>)})
  \/ \E p \in Entries : FMkdir(p) \/ FUnlink(p) \/ (\E q \in Entries \ {p} : FRename(p, q))

\* FSInfo does not know the number of free clusters.
DirInit == Init /\ disk[FsInfo].free = Bad /\ paths \in {TreePaths, ListPaths}

DirNext ==
  /\ paths' = paths
  /\ \/ Running /\ paths = TreePaths /\ calls < MaxCalls - 1 /\ TreeNext
     \/ Running /\ paths = ListPaths /\ calls < MaxCalls /\ ListNext
     \/ calls >= MaxCalls - 1 /\ (paths = TreePaths \/ calls = MaxCalls) /\ UNCHANGED vars

DirSpec == DirInit /\ [][DirNext]_<<vars, paths>>
=============================================================================
