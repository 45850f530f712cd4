--------------------------- MODULE FilesProperties ---------------------------
(* What the files of gemOS should do, over Files.                            *)
EXTENDS Files

\* Types of the variables (struct file, struct inode).
TypeOK ==
    /\ procs \subseteq Proc
    /\ files \in [Proc -> [Fds -> Obj \cup {NULL}]]
    /\ obj \in [Obj -> [live : BOOLEAN, type : 0 .. REGULAR, offp : u32,
                        mode : SUBSET {O_READ, O_WRITE, O_CREAT},
                        ref_count : u32, inode : Inodes]]
    /\ inode \in [Inodes -> [is_valid : BOOLEAN, filename : Names \cup {""},
                             mode : SUBSET {O_READ, O_WRITE},
                             max_pos : Int, file_size : Int]]
    /\ mem \in [Store -> Data \cup {0}]
    /\ reply.ret \in Int /\ reply.data \in Seq(Data \cup {0})
    /\ fault \in {"none", "past", "wild"}

\* Files are neighbours in memory and nothing but the checks of the calls keeps
\* them apart: no position leaves its file, the size is that of the data, and what
\* lies beyond the data was never written, through this file or another.
InodesInBounds ==
    /\ \A o \in Obj : obj[o].type = REGULAR => obj[o].offp <= FILE_SIZE
    /\ \A i \in Inodes :
          /\ inode[i].max_pos = s_pos(i) + inode[i].file_size
          /\ inode[i].file_size \in 0 .. FILE_SIZE
          /\ \A a \in inode[i].max_pos .. e_pos(i) - 1 : mem[a] = 0

\* CS330_Assignment_2.pdf 1.5 of close: "When the last reference to the file object
\* is dropped, you need to invoke the given free_file_object function".  dup2 and
\* fork make references that are not counted, so the object is freed at the first
\* close.
DescriptorsLive == \A o \in Obj : Refs(o) # {} => obj[o].live

\* The calls keep what FlatFiles promises.
Description(o) ==
    [type |-> obj[o].type, mode |-> obj[o].mode, pos |-> obj[o].offp,
     name |-> IF obj[o].type = REGULAR THEN inode[obj[o].inode].filename ELSE ""]
NoDescription == [type |-> REGULAR, mode |-> {}, name |-> "", pos |-> 0]
Contents(i) ==
    [there |-> TRUE, mode |-> inode[i].mode,
     bytes |-> [k \in 1 .. inode[i].file_size |-> mem[s_pos(i) + k - 1]]]
NoContents == [there |-> FALSE, mode |-> {}, bytes |-> <<>>]

Held == {files[p][fd] : p \in procs, fd \in Fds}
Descriptions == LET held == Held IN
    [o \in Obj |-> IF o \in held THEN Description(o) ELSE NoDescription]
ContentsOf(S) == IF S = {} THEN NoContents ELSE Contents(CHOOSE i \in S : TRUE)

Promise == INSTANCE FlatFiles
    WITH Id <- Obj, open <- files, descr <- Descriptions,
         content <- [n \in Names |-> ContentsOf(LookupInode(n))]

ImplementsFlatFiles == Promise!Spec
=============================================================================
