------------------------------- MODULE MCFatFs -------------------------------
(* Instances of FatFs for TLC. *)
EXTENDS FatFs

P(s) == [abs |-> TRUE, seg |-> s]
R(s) == [abs |-> FALSE, seg |-> s]

FilePaths == {P(<<"a">>), P(<<"b">>)}

M(w, how) == [rd |-> TRUE, wr |-> w, how |-> how]
WriteModes == {M(TRUE, "open_always"), M(TRUE, "create_always")}

Twins == Permutations(Handles)

\* Calls on files only; the last call only with at most one file open.
InUse == {h \in Handles : fil[h].open}
More == Running /\ (calls < MaxCalls - 1 \/ (calls < MaxCalls /\ Cardinality(InUse) <= 1))
FileSpec == Init /\ [][(More /\ FileCalls) \/ (~More /\ UNCHANGED vars)]_vars

\* Calls on files while the disk may fail.
FaultSpec == Init /\ [][(calls < MaxCalls /\ Running /\ FileCalls) \/ Done]_vars

OpenModes == {M(TRUE, "open_always"), M(FALSE, "existing")}
TreePaths == {P(<<"d">>), P(<<"e">>), P(<<"d", "e">>), R(<<"e">>), R(<<"..">>)}
ListPaths == {P(<<>>), P(<<"d">>), P(<<"e">>), P(<<"f">>)}
AllPaths == TreePaths \cup ListPaths
=============================================================================
