------------------------------ MODULE MCSessionFiles ------------------------------
(***************************************************************************)
(* An instance of SessionFiles for TLC.  There are as many inodes as       *)
(* entries and open descriptors can keep alive together.                   *)
(***************************************************************************)
EXTENDS SessionFiles, TLC

ASSUME EnoughInodes == Cardinality(Inode) >= Cardinality(Id) + Cardinality(Proc)

\* Processes and ids are interchangeable.
Symmetry == Permutations(Proc) \cup Permutations(Id)

\* So are inodes: all that matters is which entries and descriptors lead to the
\* same one, and its state; one without a name and a descriptor is free.  No step
\* depends on newId.
Inodes(ref, Keys) ==
    [k \in Keys |-> IF ref[k] = NoFile THEN <<>> ELSE <<data[ref[k]], old[ref[k]], lock[ref[k]]>>]

View ==
    <<Inodes(dir, Id), Inodes(fd, Proc),
      {<<p, i>> \in Proc \X Id : fd[p] = dir[i]}, {<<p, q>> \in Proc \X Proc : fd[p] = fd[q]},
      pc, id, minted, size, items, orig, renew, todo, victim>>

=============================================================================
