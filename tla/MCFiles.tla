------------------------------- MODULE MCFiles -------------------------------
(* Small instances of the file system: files of two bytes.                   *)
EXTENDS FilesProperties, TLC

Access == {{O_READ}, {O_READ, O_WRITE}}
Opening == {{O_READ}, {O_READ, O_WRITE, O_CREAT}}
Seeks == {-1, 1}
Pages == Permutations(Obj)

\* What the calls can tell apart: not the last reply, nor a page no one has.
View == <<procs, files, inode, mem, fault,
          [o \in Obj |-> IF ~ obj[o].live /\ Refs(o) = {} THEN NoFile ELSE obj[o]]>>
=============================================================================
