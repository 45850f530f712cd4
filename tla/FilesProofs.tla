----------------------------- MODULE FilesProofs -----------------------------
(***************************************************************************)
(* Proofs about open files: types for every use of the calls, and that no  *)
(* file reaches into its neighbour for careful seeks.                      *)
(***************************************************************************)
EXTENDS FilesProperties, Orders, TLAPS

-----------------------------------------------------------------------------
(* Words and the layout of the inodes.                                      *)

LEMMA Word == ASSUME NEW n \in Int PROVE n % WIDTH \in u32
<1>1. WIDTH \in Nat /\ WIDTH > 0
  BY FilesAssumption
<1>2. QED
  BY <1>1 DEF u32

LEMMA SmallWord == ASSUME NEW n \in Nat, n < WIDTH PROVE n % WIDTH = n
<1>1. WIDTH \in Nat /\ WIDTH > 0
  BY FilesAssumption
<1>2. QED
  BY <1>1

LEMMA Layout ==
    ASSUME NEW i \in Inodes
    PROVE  /\ i \in Nat /\ s_pos(i) \in Nat /\ e_pos(i) = s_pos(i) + FILE_SIZE
           /\ s_pos(i) .. e_pos(i) - 1 \subseteq Store
           /\ 2 * e_pos(i) < WIDTH
           /\ \A j \in Inodes : j # i => e_pos(i) <= s_pos(j) \/ e_pos(j) <= s_pos(i)
<1>1. /\ NUM_FILES \in Nat \ {0} /\ FILE_SIZE \in Nat \ {0} /\ BASE \in Nat /\ WIDTH \in Nat
      /\ 2 * (BASE + (NUM_FILES + 1) * FILE_SIZE) < WIDTH
  BY FilesAssumption
<1>2. i \in Nat /\ i + 1 <= NUM_FILES /\ Inodes \subseteq Nat
  BY <1>1 DEF Inodes
<1>3. \A a, b \in Nat : a <= b => a * FILE_SIZE <= b * FILE_SIZE /\ a * FILE_SIZE \in Nat
  BY <1>1
<1>4. \A a \in Nat : (a + 1) * FILE_SIZE = a * FILE_SIZE + FILE_SIZE
  BY <1>1
<1>5. /\ i * FILE_SIZE \in Nat /\ (i + 1) * FILE_SIZE = i * FILE_SIZE + FILE_SIZE
      /\ (i + 1) * FILE_SIZE <= NUM_FILES * FILE_SIZE /\ NUM_FILES * FILE_SIZE \in Nat
      /\ (NUM_FILES + 1) * FILE_SIZE = NUM_FILES * FILE_SIZE + FILE_SIZE
  BY <1>1, <1>2, <1>3, <1>4
<1>6. s_pos(i) \in Nat /\ e_pos(i) = s_pos(i) + FILE_SIZE
  BY <1>1, <1>5 DEF s_pos, e_pos
<1>7. s_pos(i) .. e_pos(i) - 1 \subseteq Store
  BY <1>1, <1>5 DEF s_pos, e_pos, Store
<1>8. 2 * e_pos(i) < WIDTH
  BY <1>1, <1>5 DEF e_pos
<1>9. ASSUME NEW j \in Inodes, j # i
      PROVE  e_pos(i) <= s_pos(j) \/ e_pos(j) <= s_pos(i)
  <2>1. j \in Nat /\ (i + 1 <= j \/ j + 1 <= i)
    BY <1>2, <1>9
  <2>2. (i + 1) * FILE_SIZE <= j * FILE_SIZE \/ (j + 1) * FILE_SIZE <= i * FILE_SIZE
    BY <1>2, <1>3, <2>1
  <2>3. j * FILE_SIZE \in Nat /\ (j + 1) * FILE_SIZE \in Nat
    BY <1>3, <2>1
  <2>4. QED
    BY <1>1, <1>5, <2>2, <2>3 DEF s_pos, e_pos
<1>10. QED
  BY <1>2, <1>6, <1>7, <1>8, <1>9

LEMMA LeastInSet == ASSUME NEW S \in SUBSET Nat, S # {} PROVE Least(S) \in S
<1>1. Min(S) \in S /\ \A y \in S : Min(S) <= y
  BY MinInSet
<1>2. QED
  BY <1>1 DEF Least

-----------------------------------------------------------------------------
(* Types, for every use of the calls.                                       *)

FileObjects ==
    [live : BOOLEAN, type : 0 .. REGULAR, offp : u32,
     mode : SUBSET {O_READ, O_WRITE, O_CREAT}, ref_count : u32, inode : Inodes]
InodeRecords ==
    [is_valid : BOOLEAN, filename : Names \cup {""}, mode : SUBSET {O_READ, O_WRITE},
     max_pos : Int, file_size : Int]

Tables == procs \subseteq Proc /\ files \in [Proc -> [Fds -> Obj \cup {NULL}]]
Objects == obj \in [Obj -> FileObjects]
Disk == inode \in [Inodes -> InodeRecords] /\ mem \in [Store -> Data \cup {0}]
Answers ==
    /\ reply \in [ret : Int, data : Seq(Data \cup {0})]
    /\ fault \in {"none", "past", "wild"}
Types == Tables /\ Objects /\ Disk /\ Answers

LEMMA TypesCorrect == Types => TypeOK
BY DEF Types, Tables, Objects, Disk, Answers, TypeOK, FileObjects, InodeRecords

LEMMA Answered ==
    ASSUME NEW n \in Int
    PROVE  [ret |-> n, data |-> <<>>] \in [ret : Int, data : Seq(Data \cup {0})]
OBVIOUS

LEMMA FileTyped ==
    ASSUME NEW type \in 0 .. REGULAR, NEW mode \in SUBSET {O_READ, O_WRITE, O_CREAT},
           NEW i \in Inodes
    PROVE  File(type, mode, i) \in FileObjects
<1>1. 0 \in u32 /\ 1 \in u32
  BY FilesAssumption DEF u32
<1>2. QED
  BY <1>1 DEF File, FileObjects

LEMMA NoFileTyped == NoFile \in FileObjects
<1>1. 0 \in u32 /\ 0 \in Inodes
  BY FilesAssumption DEF u32, Inodes
<1>2. QED
  BY <1>1 DEF NoFile, FileObjects, REGULAR

LEMMA OffsetTyped ==
    ASSUME NEW file \in FileObjects, NEW n \in u32
    PROVE  [file EXCEPT !.offp = n] \in FileObjects
BY DEF FileObjects

LEMMA DroppedTyped ==
    ASSUME NEW file \in FileObjects, NEW k \in Int PROVE Dropped(file, k) \in FileObjects
<1>1. file.ref_count - k \in Int
  BY DEF FileObjects, u32
<1>2. (file.ref_count - k) % WIDTH \in u32
  BY <1>1, Word
<1>3. (file.live /\ ~ (1 <= file.ref_count /\ file.ref_count <= k)) \in BOOLEAN
  OBVIOUS
<1>4. Dropped(file, k) =
        [[file EXCEPT !.ref_count = (file.ref_count - k) % WIDTH]
            EXCEPT !.live = file.live /\ ~ (1 <= file.ref_count /\ file.ref_count <= k)]
  BY DEF Dropped, FileObjects
<1>5. QED
  BY <1>2, <1>3, <1>4 DEF FileObjects

LEMMA TypesInit == Init => Types
<1> SUFFICES ASSUME Init PROVE Types
  OBVIOUS
<1>1. PICK std \in [Fds -> Obj \cup {NULL}] :
         /\ \A fd \in Fds : fd \in StdStreams <=> std[fd] # NULL
         /\ files = [p \in Proc |-> IF p = Init0 THEN std ELSE [fd \in Fds |-> NULL]]
         /\ obj = [o \in Obj |->
                IF \E fd \in StdStreams : std[fd] = o
                THEN LET fd == CHOOSE fd \in StdStreams : std[fd] = o
                     IN  File(fd, StdMode(fd), 0)
                ELSE NoFile]
  BY DEF Init
<1>2. obj \in [Obj -> FileObjects]
  <2>1. \A fd \in StdStreams : File(fd, StdMode(fd), 0) \in FileObjects
    <3>1. \A fd \in StdStreams : fd \in 0 .. REGULAR /\ 0 \in Inodes
      BY FilesAssumption DEF REGULAR, Inodes
    <3>2. \A fd \in StdStreams : StdMode(fd) \in SUBSET {O_READ, O_WRITE, O_CREAT}
      BY DEF StdMode
    <3>3. QED
      BY <3>1, <3>2, FileTyped
  <2>2. ASSUME NEW o \in Obj PROVE obj[o] \in FileObjects
    <3>1. CASE \E fd \in StdStreams : std[fd] = o
      <4> DEFINE d == CHOOSE fd \in StdStreams : std[fd] = o
      <4>1. d \in StdStreams
        BY <3>1
      <4>2. obj[o] = File(d, StdMode(d), 0)
        BY <1>1, <3>1
      <4>3. QED
        BY <2>1, <4>1, <4>2
    <3>2. CASE ~ \E fd \in StdStreams : std[fd] = o
      BY <1>1, <3>2, NoFileTyped
    <3>3. QED
      BY <3>1, <3>2
  <2>3. QED
    BY <1>1, <2>2
<1>3. inode \in [Inodes -> InodeRecords]
  <2>1. \A i \in Inodes : NoInode(i) \in InodeRecords
    BY Layout DEF NoInode, InodeRecords
  <2>2. QED
    BY <2>1 DEF Init
<1>4. files \in [Proc -> [Fds -> Obj \cup {NULL}]]
  BY <1>1
<1>5. mem \in [Store -> Data \cup {0}]
  BY DEF Init
<1>6. Answers /\ procs \subseteq Proc
  BY Answered, FilesAssumption DEF Init, Answers
<1>7. QED
  BY <1>2, <1>3, <1>4, <1>5, <1>6 DEF Types, Tables, Objects, Disk

LEMMA RefuseTypes == ASSUME Types, NEW code \in Int, Refuse(code) PROVE Types'
<1>1. - code \in Int
  OBVIOUS
<1>2. QED
  BY <1>1, Answered DEF Types, Tables, Objects, Disk, Answers, Refuse, Return

LEMMA TakeTypes ==
    ASSUME Types, NEW p \in Proc, NEW o \in Obj, Take(p, o)
    PROVE  files' \in [Proc -> [Fds -> Obj \cup {NULL}]] /\ Answers'
<1>1. CASE FreeFds(p) = {}
  BY <1>1 DEF Types, Tables, Answers, Take
<1>2. CASE FreeFds(p) # {}
  <2>1. FreeFds(p) \in SUBSET Nat
    BY FilesAssumption DEF FreeFds, Fds
  <2>2. Least(FreeFds(p)) \in FreeFds(p)
    BY <1>2, <2>1, LeastInSet
  <2>3. Least(FreeFds(p)) \in Fds /\ Least(FreeFds(p)) \in Int
    BY <2>1, <2>2 DEF FreeFds
  <2>4. /\ files' = [files EXCEPT ![p][Least(FreeFds(p))] = o]
        /\ Return(Least(FreeFds(p))) /\ fault' = fault
    BY <1>2 DEF Take
  <2>5. QED
    BY <2>3, <2>4, Answered DEF Types, Tables, Answers, Return
<1>3. QED
  BY <1>1, <1>2

LEMMA OpenInodeTypes ==
    ASSUME Types, NEW p \in Proc, NEW i \in Inodes, NEW mode, NEW flags \in FlagSets,
           OpenInode(p, i, mode, flags)
    PROVE  Tables' /\ Objects' /\ Answers' /\ mem' = mem
<1>1. PICK o \in FreeObjs :
         /\ obj' = [obj EXCEPT ![o] = File(REGULAR, flags, i)]
         /\ IF flags \cap {O_READ, O_WRITE} \subseteq mode THEN Take(p, o)
            ELSE Return(- EACCES) /\ UNCHANGED <<files, fault>>
         /\ UNCHANGED <<procs, mem>>
  BY DEF OpenInode
<1>2. o \in Obj /\ flags \in SUBSET {O_READ, O_WRITE, O_CREAT} /\ REGULAR \in 0 .. REGULAR
  BY FilesAssumption DEF FreeObjs, REGULAR
<1>3. Objects'
  BY <1>1, <1>2, FileTyped DEF Types, Objects
<1>4. files' \in [Proc -> [Fds -> Obj \cup {NULL}]] /\ Answers'
  <2>1. CASE flags \cap {O_READ, O_WRITE} \subseteq mode
    BY <1>1, <1>2, <2>1, TakeTypes
  <2>2. CASE ~ flags \cap {O_READ, O_WRITE} \subseteq mode
    <3>1. - EACCES \in Int
      BY DEF EACCES
    <3>2. QED
      BY <1>1, <2>2, <3>1, Answered DEF Return, Types, Tables, Answers
  <2>3. QED
    BY <2>1, <2>2
<1>5. QED
  BY <1>1, <1>3, <1>4 DEF Types, Tables

LEMMA NewInode ==
    ASSUME \E j \in Inodes : ~ inode[j].is_valid
    PROVE  FreeInode \in Inodes /\ ~ inode[FreeInode].is_valid
<1> DEFINE S == {j \in Inodes : ~ inode[j].is_valid}
<1>1. S \in SUBSET Nat /\ S # {}
  BY Layout
<1>2. Least(S) \in S
  BY <1>1, LeastInSet
<1>3. QED
  BY <1>2 DEF FreeInode

LEMMA OpenTypes == ASSUME Types, NEW p \in Proc, Open(p) PROVE Types'
<1>1. PICK name \in Names, flags \in FlagSets, mode \in ModeSets :
         do_regular_file_open(p, name, flags, mode)
  BY DEF Open
<1>2. CASE OpenExisting(p, name, flags)
  <2>1. PICK i \in LookupInode(name) : OpenInode(p, i, inode[i].mode, flags)
    BY <1>2 DEF OpenExisting
  <2>2. Tables' /\ Objects' /\ Answers' /\ mem' = mem
    BY <2>1, OpenInodeTypes DEF LookupInode
  <2>3. inode' = inode
    BY <1>2 DEF OpenExisting
  <2>4. QED
    BY <2>2, <2>3 DEF Types, Disk
<1>3. CASE OpenNew(p, name, flags, mode)
  <2>1. FreeInode \in Inodes
    BY <1>3, NewInode DEF OpenNew
  <2>2. OpenInode(p, FreeInode, mode, flags)
    BY <1>3 DEF OpenNew
  <2>3. Tables' /\ Objects' /\ Answers' /\ mem' = mem
    BY <2>1, <2>2, OpenInodeTypes
  <2>4. mode \in SUBSET {O_READ, O_WRITE} /\ name \in Names \cup {""}
    BY FilesAssumption
  <2>5. NoInode(FreeInode) \in InodeRecords
    BY <2>1, Layout DEF NoInode, InodeRecords
  <2>6. [NoInode(FreeInode) EXCEPT !.is_valid = TRUE, !.filename = name, !.mode = mode]
            \in InodeRecords
    BY <2>4, <2>5 DEF InodeRecords
  <2>7. inode' \in [Inodes -> InodeRecords]
    BY <1>3, <2>1, <2>6 DEF OpenNew, CreateInode, Types, Disk
  <2>8. QED
    BY <2>3, <2>7 DEF Types, Disk
<1>4. CASE OpenFails(name, flags)
  BY <1>4, RefuseTypes DEF OpenFails, EINVAL, ENOMEM
<1>5. QED
  BY <1>1, <1>2, <1>3, <1>4 DEF do_regular_file_open

LEMMA OpenStdTypes == ASSUME Types, NEW p \in Proc, OpenStd(p) PROVE Types'
<1>1. PICK type \in StdStreams : open_standard_IO(p, type)
  BY DEF OpenStd
<1>2. /\ type \in 0 .. REGULAR /\ type \in Fds /\ type \in Int
      /\ files[p][type] \in Obj \cup {NULL}
      /\ StdMode(type) \in SUBSET {O_READ, O_WRITE, O_CREAT}
  <2>1. type \in 0 .. REGULAR /\ type \in Fds /\ type \in Int
    BY FilesAssumption DEF REGULAR, Fds
  <2>2. QED
    BY <2>1 DEF Types, Tables, StdMode
<1>3. /\ procs' = procs /\ inode' = inode /\ mem' = mem
  BY <1>1 DEF open_standard_IO
<1>4. CASE files[p][type] = NULL
  <2>1. PICK new \in FreeObjs :
           /\ obj' = [obj EXCEPT ![new] = File(type, StdMode(type), 0)]
           /\ files' = [files EXCEPT ![p][type] = new]
           /\ Return(type) /\ fault' = fault
    BY <1>1, <1>4 DEF open_standard_IO
  <2>2. new \in Obj /\ 0 \in Inodes
    BY FilesAssumption DEF FreeObjs, Inodes
  <2>3. File(type, StdMode(type), 0) \in FileObjects
    BY <1>2, <2>2, FileTyped
  <2>4. QED
    BY <1>2, <1>3, <2>1, <2>2, <2>3, Answered
       DEF Types, Tables, Objects, Disk, Answers, Return
<1>5. CASE files[p][type] # NULL
  <2> DEFINE o == files[p][type]
  <2>1. o \in Obj /\ obj[o] \in FileObjects
    BY <1>2, <1>5 DEF Types, Objects
  <2>2. /\ obj' = [obj EXCEPT ![o].ref_count = (@ + 1) % WIDTH]
        /\ Take(p, o)
    BY <1>1, <1>5 DEF open_standard_IO
  <2> HIDE DEF o
  <2>3. obj[o].ref_count + 1 \in Int
    BY <2>1 DEF FileObjects, u32
  <2>4. (obj[o].ref_count + 1) % WIDTH \in u32
    BY <2>3, Word
  <2>5. [obj[o] EXCEPT !.ref_count = (obj[o].ref_count + 1) % WIDTH] \in FileObjects
    BY <2>1, <2>4 DEF FileObjects
  <2>6. Objects'
    BY <2>1, <2>2, <2>5 DEF Types, Objects
  <2>7. files' \in [Proc -> [Fds -> Obj \cup {NULL}]] /\ Answers'
    BY <2>1, <2>2, TakeTypes
  <2>8. QED
    BY <1>3, <2>6, <2>7 DEF Types, Tables, Disk
<1>6. QED
  BY <1>4, <1>5

LEMMA Dup2Types == ASSUME Types, NEW p \in Proc, Dup2(p) PROVE Types'
<1>1. PICK oldfd \in Fds \cup {-1}, newfd \in NewFds : fd_dup2(p, oldfd, newfd)
  BY DEF Dup2
<1>2. - EINVAL \in Int /\ EINVAL \in Int
  BY DEF EINVAL
<1>3. CASE Refuse(EINVAL)
  BY <1>2, <1>3, RefuseTypes
<1>4. CASE ~ Refuse(EINVAL)
  <2>1. /\ oldfd \in Fds /\ newfd \in Fds /\ newfd \in Int
        /\ files' = [files EXCEPT ![p][newfd] = files[p][oldfd]]
        /\ Return(newfd) /\ UNCHANGED <<procs, obj, inode, mem, fault>>
    BY <1>1, <1>4 DEF fd_dup2, Fds
  <2>2. files[p][oldfd] \in Obj \cup {NULL}
    BY <2>1 DEF Types, Tables
  <2>3. QED
    BY <2>1, <2>2, Answered DEF Types, Tables, Objects, Disk, Answers, Return
<1>5. QED
  BY <1>3, <1>4

LEMMA ForkTypes == ASSUME Types, NEW p \in procs, Fork(p) PROVE Types'
BY Answered DEF Fork, do_fork, Types, Tables, Objects, Disk, Answers, Return

LEMMA CloseTypes == ASSUME Types, NEW p \in Proc, Close(p) PROVE Types'
<1>1. PICK fd \in Fds : do_close(p, fd)
  BY DEF Close
<1> DEFINE o == files[p][fd]
<1>2. o \in Obj \cup {NULL} /\ EINVAL \in Int
  BY DEF Types, Tables, EINVAL
<1>3. CASE o = NULL
  BY <1>1, <1>2, <1>3, RefuseTypes DEF do_close
<1>4. CASE o # NULL
  <2>1. /\ files' = [files EXCEPT ![p][fd] = NULL]
        /\ obj' = [obj EXCEPT ![o] = Dropped(obj[o], 1)]
        /\ Return(0) /\ UNCHANGED <<procs, inode, mem, fault>>
    BY <1>1, <1>4 DEF do_close
  <2> HIDE DEF o
  <2>2. o \in Obj /\ obj[o] \in FileObjects
    BY <1>2, <1>4 DEF Types, Objects
  <2>3. Dropped(obj[o], 1) \in FileObjects
    BY <2>2, DroppedTyped
  <2>4. QED
    BY <2>1, <2>2, <2>3, Answered DEF Types, Tables, Objects, Disk, Answers, Return
<1>5. QED
  BY <1>3, <1>4

LEMMA ExitTypes == ASSUME Types, NEW p \in Proc, do_exit(p) PROVE Types'
<1> DEFINE count(o) == Cardinality({fd \in Fds : files[p][fd] = o})
<1>1. /\ procs' = procs \ {p}
      /\ obj' = [o \in Obj |-> Dropped(obj[o], count(o))]
      /\ files' = [files EXCEPT ![p] = [fd \in Fds |-> NULL]]
      /\ Return(0) /\ UNCHANGED <<inode, mem, fault>>
  BY DEF do_exit
<1>2. \A o \in Obj : count(o) \in Int
  <2>1. IsFiniteSet(Fds)
    <3>1. 0 \in Int /\ MAX_OPEN_FILES - 1 \in Int
      BY FilesAssumption
    <3>2. QED
      BY <3>1, FS_Interval DEF Fds
  <2>2. ASSUME NEW o \in Obj PROVE count(o) \in Int
    <3> DEFINE S == {fd \in Fds : files[p][fd] = o}
    <3>1. IsFiniteSet(S)
      BY <2>1, FS_Subset
    <3> HIDE DEF S
    <3>2. Cardinality(S) \in Nat
      BY <3>1, FS_CardinalityType
    <3>3. QED
      BY <3>2 DEF S
  <2>3. QED
    BY <2>2
<1> HIDE DEF count
<1>3. \A o \in Obj : Dropped(obj[o], count(o)) \in FileObjects
  BY <1>2, DroppedTyped DEF Types, Objects
<1>4. QED
  BY <1>1, <1>3, Answered DEF Types, Tables, Objects, Disk, Answers, Return

LEMMA Int32Typed == ASSUME NEW n \in u32 PROVE Int32(n) \in Int
<1>1. n \in Int /\ n - WIDTH \in Int
  BY FilesAssumption DEF u32
<1>2. QED
  BY <1>1 DEF Int32

\* What a read brings: no more than was asked for, nor than the file has.
LEMMA FlatRead ==
    ASSUME Types, NEW i \in Inodes, NEW at \in Int, NEW count \in Nat
    PROVE  LET data == flat_read(i, at, count) IN
           /\ data \in Seq(Data \cup {0}) /\ Len(data) \in Nat /\ Len(data) <= count
           /\ Len(data) = 0 \/ at + Len(data) <= inode[i].file_size
<1> DEFINE left == inode[i].file_size - at
           size == IF left <= 0 THEN 0 ELSE IF count > left THEN left ELSE count
<1>1. inode[i].file_size \in Int
  BY DEF Types, Disk, InodeRecords
<1>2. size \in Nat /\ size <= count /\ (size = 0 \/ at + size <= inode[i].file_size)
  BY <1>1
<1> HIDE DEF size
<1>3. \A a : Byte(a) \in Data \cup {0}
  BY DEF Byte, Types, Disk
<1>4. flat_read(i, at, count) = [k \in 1 .. size |-> Byte(s_pos(i) + at + k - 1)]
  BY DEF flat_read, size
<1>5. /\ flat_read(i, at, count) \in Seq(Data \cup {0})
      /\ Len(flat_read(i, at, count)) = size
  BY <1>2, <1>3, <1>4
<1>6. QED
  BY <1>2, <1>5

LEMMA ReadOutTypes ==
    ASSUME Types, NEW o \in Obj, NEW offp \in u32, NEW count \in Nat
    PROVE  LET out == ReadOut(o, offp, count) IN
           /\ out \in [ret : Int, data : Seq(Data \cup {0})]
           /\ Len(out.data) \in Nat /\ Len(out.data) <= count
           /\ \/ Len(out.data) = 0
              \/ Int32(offp) + Len(out.data) <= inode[obj[o].inode].file_size
<1> DEFINE i == obj[o].inode
           data == flat_read(i, Int32(offp), count)
<1>1. i \in Inodes
  BY DEF Types, Objects, FileObjects
<1>2. Int32(offp) \in Int
  BY Int32Typed
<1>3. /\ data \in Seq(Data \cup {0}) /\ Len(data) \in Nat /\ Len(data) <= count
      /\ Len(data) = 0 \/ Int32(offp) + Len(data) <= inode[i].file_size
  BY <1>1, <1>2, FlatRead
<1>4. - EINVAL \in Int
  BY DEF EINVAL
<1>5. CASE (s_pos(i) + offp + count) % WIDTH > e_pos(i)
  BY <1>4, <1>5, Answered DEF ReadOut
<1>6. CASE ~ (s_pos(i) + offp + count) % WIDTH > e_pos(i)
  <2>1. ReadOut(o, offp, count) = [ret |-> Len(data), data |-> data]
    BY <1>6 DEF ReadOut
  <2> HIDE DEF data
  <2>2. QED
    BY <1>3, <2>1
<1>7. QED
  BY <1>5, <1>6

LEMMA ReadTypes == ASSUME Types, NEW p \in Proc, Read(p) PROVE Types'
<1>1. PICK fd \in Fds, count \in Counts : do_file_read(p, fd, count)
  BY DEF Read
<1> DEFINE o == files[p][fd]
           out == ReadOut(o, obj[o].offp, count)
<1>2. o \in Obj \cup {NULL} /\ EINVAL \in Int /\ EACCES \in Int /\ count \in Nat
  BY FilesAssumption DEF Types, Tables, EINVAL, EACCES
<1>3. CASE Refuse(EINVAL) \/ Refuse(EACCES)
  BY <1>2, <1>3, RefuseTypes
<1>4. CASE ~ (Refuse(EINVAL) \/ Refuse(EACCES))
  <2>1. /\ o # NULL
        /\ IF obj[o].type = REGULAR
           THEN /\ reply' = out
                /\ obj' = [obj EXCEPT ![o].offp = (@ + Len(out.data)) % WIDTH]
           ELSE /\ \E key \in Data : reply' = [ret |-> 1, data |-> <<key>>]
                /\ UNCHANGED obj
        /\ UNCHANGED <<procs, files, inode, mem, fault>>
    BY <1>1, <1>4 DEF do_file_read
  <2> HIDE DEF o
  <2>2. o \in Obj /\ obj[o] \in FileObjects /\ obj[o].offp \in u32
    BY <1>2, <2>1 DEF Types, Objects, FileObjects
  <2>3. out \in [ret : Int, data : Seq(Data \cup {0})] /\ Len(out.data) \in Nat
    BY <1>2, <2>2, ReadOutTypes
  <2> HIDE DEF out
  <2>4. CASE obj[o].type = REGULAR
    <3>1. obj[o].offp + Len(out.data) \in Int
      BY <2>2, <2>3, FilesAssumption DEF u32
    <3>2. (obj[o].offp + Len(out.data)) % WIDTH \in u32
      BY <3>1, Word
    <3>3. [obj[o] EXCEPT !.offp = (obj[o].offp + Len(out.data)) % WIDTH] \in FileObjects
      BY <2>2, <3>2, OffsetTyped
    <3>4. Objects'
      BY <2>1, <2>2, <2>4, <3>3 DEF Types, Objects
    <3>5. QED
      BY <2>1, <2>3, <2>4, <3>4 DEF Types, Tables, Disk, Answers
  <2>5. CASE obj[o].type # REGULAR
    <3>1. \A key \in Data : <<key>> \in Seq(Data \cup {0})
      OBVIOUS
    <3>2. \A key \in Data :
            [ret |-> 1, data |-> <<key>>] \in [ret : Int, data : Seq(Data \cup {0})]
      BY <3>1
    <3>3. reply' \in [ret : Int, data : Seq(Data \cup {0})]
      BY <2>1, <2>5, <3>2
    <3>4. QED
      BY <2>1, <2>5, <3>3 DEF Types, Tables, Objects, Disk, Answers
  <2>6. QED
    BY <2>4, <2>5
<1>5. QED
  BY <1>3, <1>4

LEMMA WriteRegularTypes ==
    ASSUME Types, NEW objs \in [Obj -> FileObjects], NEW o \in Obj,
           NEW buf \in Seq(Data \cup {0}), do_write_regular(objs, o, buf)
    PROVE  Objects' /\ Disk' /\ reply' \in [ret : Int, data : Seq(Data \cup {0})]
<1> DEFINE i == objs[o].inode
           offp == objs[o].offp
<1>1. /\ objs[o] \in FileObjects /\ i \in Inodes /\ offp \in u32 /\ offp \in Int
      /\ Len(buf) \in Nat /\ Int32(offp) \in Int
  <2>1. objs[o] \in FileObjects /\ i \in Inodes /\ offp \in u32
    BY DEF FileObjects
  <2>2. QED
    BY <2>1, Int32Typed, FilesAssumption DEF u32
<1>2. CASE (s_pos(i) + offp + Len(buf)) % WIDTH <= e_pos(i)
  <2>1. /\ obj' = [objs EXCEPT ![o].offp = (@ + Len(buf)) % WIDTH]
        /\ mem' = Written(i, Int32(offp), buf)
        /\ inode' = [inode EXCEPT ![i] = Extended(i, Int32(offp), Len(buf))]
        /\ Return(Len(buf))
    BY <1>2 DEF do_write_regular
  <2>2. (offp + Len(buf)) % WIDTH \in u32
    BY <1>1, Word
  <2>3. [objs[o] EXCEPT !.offp = (offp + Len(buf)) % WIDTH] \in FileObjects
    BY <1>1, <2>2, OffsetTyped
  <2>4. obj' \in [Obj -> FileObjects]
    BY <2>1, <2>3
  <2>5. mem' \in [Store -> Data \cup {0}]
    <3>1. \A k \in DOMAIN buf : buf[k] \in Data \cup {0}
      OBVIOUS
    <3>2. QED
      BY <2>1, <3>1 DEF Written, Types, Disk
  <2> HIDE DEF i, offp
  <2>6. Extended(i, Int32(offp), Len(buf)) \in InodeRecords
    <3>1. inode[i] \in InodeRecords /\ s_pos(i) \in Int
      BY <1>1, Layout DEF Types, Disk
    <3> DEFINE end == s_pos(i) + Int32(offp) + Len(buf)
               max == IF end > inode[i].max_pos THEN end ELSE inode[i].max_pos
    <3>2. max \in Int /\ max - s_pos(i) \in Int
      <4>1. inode[i].max_pos \in Int
        BY <3>1 DEF InodeRecords
      <4>2. end \in Int
        BY <1>1, <3>1
      <4> HIDE DEF end
      <4>3. QED
        BY <3>1, <4>1, <4>2
    <3>3. Extended(i, Int32(offp), Len(buf)) =
            [inode[i] EXCEPT !.max_pos = max, !.file_size = max - s_pos(i)]
      BY DEF Extended
    <3> HIDE DEF max
    <3>4. QED
      BY <3>1, <3>2, <3>3 DEF InodeRecords
  <2>7. inode' \in [Inodes -> InodeRecords]
    BY <1>1, <2>1, <2>6 DEF Types, Disk
  <2>8. QED
    BY <1>1, <2>1, <2>4, <2>5, <2>7, Answered DEF Return, Objects, Disk
<1>3. CASE ~ (s_pos(i) + offp + Len(buf)) % WIDTH <= e_pos(i)
  <2>1. obj' = objs /\ Return(- EINVAL) /\ UNCHANGED <<mem, inode>>
    BY <1>3 DEF do_write_regular
  <2>2. - EINVAL \in Int
    BY DEF EINVAL
  <2>3. QED
    BY <2>1, <2>2, Answered DEF Return, Objects, Disk, Types
<1>4. QED
  BY <1>2, <1>3

LEMMA WriteTypes == ASSUME Types, NEW p \in Proc, Write(p) PROVE Types'
<1>1. PICK fd \in Fds, count \in Counts, d \in Data :
         do_file_write(p, fd, [k \in 1 .. count |-> d])
  BY DEF Write
<1> DEFINE o == files[p][fd]
           buf == [k \in 1 .. count |-> d]
<1>2. o \in Obj \cup {NULL} /\ EINVAL \in Int /\ EACCES \in Int /\ count \in Nat
  BY FilesAssumption DEF Types, Tables, EINVAL, EACCES
<1>3. buf \in Seq(Data \cup {0}) /\ Len(buf) = count
  BY <1>2
<1> HIDE DEF buf
<1>4. CASE Refuse(EINVAL) \/ Refuse(EACCES)
  BY <1>2, <1>4, RefuseTypes
<1>5. CASE ~ (Refuse(EINVAL) \/ Refuse(EACCES))
  <2>1. /\ o # NULL
        /\ IF obj[o].type = REGULAR THEN do_write_regular(obj, o, buf)
           ELSE Return(Len(buf)) /\ UNCHANGED <<obj, inode, mem>>
        /\ UNCHANGED <<procs, files, fault>>
    BY <1>1, <1>5 DEF do_file_write, buf
  <2>2. o \in Obj /\ obj \in [Obj -> FileObjects]
    BY <1>2, <2>1 DEF Types, Objects
  <2> HIDE DEF o
  <2>3. Objects' /\ Disk' /\ reply' \in [ret : Int, data : Seq(Data \cup {0})]
    <3>1. CASE obj[o].type = REGULAR
      BY <1>3, <2>1, <2>2, <3>1, WriteRegularTypes
    <3>2. CASE obj[o].type # REGULAR
      <4>1. Return(Len(buf)) /\ UNCHANGED <<obj, inode, mem>> /\ Len(buf) \in Int
        BY <1>2, <1>3, <2>1, <3>2
      <4>2. QED
        BY <4>1, Answered DEF Types, Objects, Disk, Return
    <3>3. QED
      BY <3>1, <3>2
  <2>4. QED
    BY <2>1, <2>3 DEF Types, Tables, Answers
<1>6. QED
  BY <1>4, <1>5

LEMMA LseekTypes == ASSUME Types, NEW p \in Proc, Lseek(p) PROVE Types'
<1>1. PICK fd \in Fds, offset \in Offsets, whence \in Whences :
         do_lseek(p, fd, offset, whence)
  BY DEF Lseek
<1> DEFINE o == files[p][fd]
           to == SeekTarget(o, offset, whence) % WIDTH
<1>2. o \in Obj \cup {NULL} /\ EINVAL \in Int /\ offset \in Int
  BY FilesAssumption DEF Types, Tables, EINVAL
<1>3. CASE Refuse(EINVAL)
  BY <1>2, <1>3, RefuseTypes
<1>4. CASE ~ Refuse(EINVAL)
  <2>1. /\ o # NULL /\ obj' = [obj EXCEPT ![o].offp = to] /\ Return(to)
        /\ UNCHANGED <<procs, files, inode, mem, fault>>
    BY <1>1, <1>4 DEF do_lseek
  <2> HIDE DEF o
  <2>2. o \in Obj /\ obj[o] \in FileObjects /\ obj[o].offp \in Int /\ obj[o].inode \in Inodes
    BY <1>2, <2>1, FilesAssumption DEF Types, Objects, FileObjects, u32
  <2>3. inode[obj[o].inode].max_pos \in Int
    BY <2>2 DEF Types, Disk, InodeRecords
  <2>4. SeekTarget(o, offset, whence) \in Int
    BY <1>2, <2>2, <2>3 DEF SeekTarget, Whences
  <2>5. to \in u32
    BY <2>4, Word
  <2> HIDE DEF to
  <2>6. to \in Int /\ [obj[o] EXCEPT !.offp = to] \in FileObjects
    BY <2>2, <2>5, OffsetTyped, FilesAssumption DEF u32
  <2>7. QED
    BY <2>1, <2>2, <2>6, Answered DEF Types, Tables, Objects, Disk, Answers, Return
<1>5. QED
  BY <1>3, <1>4

LEMMA AfterReadTypes ==
    ASSUME Types, NEW in \in Obj, NEW from \in OffsetArgs,
           NEW out \in [ret : Int, data : Seq(Data \cup {0})]
    PROVE  AfterRead(in, from, out) \in [Obj -> FileObjects]
<1>1. /\ obj \in [Obj -> FileObjects] /\ obj[in] \in FileObjects /\ obj[in].offp \in Int
      /\ Len(out.data) \in Nat
  BY FilesAssumption DEF Types, Objects, FileObjects, u32
<1>2. \A n \in Int : [obj EXCEPT ![in].offp = n % WIDTH] \in [Obj -> FileObjects]
  <2> TAKE n \in Int
  <2>1. n % WIDTH \in u32
    BY Word
  <2>2. [obj[in] EXCEPT !.offp = n % WIDTH] \in FileObjects
    BY <1>1, <2>1, OffsetTyped
  <2>3. QED
    BY <1>1, <2>2
<1>3. from = <<>> \/ from[1] \in Int
  BY FilesAssumption DEF OffsetArgs
<1>4. obj[in].offp + Len(out.data) \in Int
  BY <1>1
<1>5. [obj EXCEPT ![in].offp = (@ + Len(out.data)) % WIDTH] \in [Obj -> FileObjects]
  BY <1>1, <1>2, <1>4
<1>6. QED
  BY <1>1, <1>2, <1>3, <1>5 DEF AfterRead

\* What a call of sendfile does once the descriptors are found in order.
Sent(out, in, from, count, offp) ==
    LET read == ReadOut(in, offp, count) IN
    /\ O_WRITE \in obj[out].mode /\ obj[in].type = REGULAR /\ obj[out].type = REGULAR
    /\ offp = IF from = <<>> THEN obj[in].offp ELSE from[1] % WIDTH
    /\ IF read.ret < 0
       THEN /\ "sendfile_fails" \in Usage
            /\ obj' = AfterRead(in, from, read)
            /\ Return(read.ret) /\ UNCHANGED <<inode, mem>>
       ELSE do_write_regular(AfterRead(in, from, read), out, read.data)
    /\ UNCHANGED <<procs, files, fault>>

LEMMA Sends ==
    ASSUME Types, NEW p \in Proc, Sendfile(p)
    PROVE  \/ Refuse(EINVAL) \/ Refuse(EACCES)
           \/ fault' = "wild" /\ UNCHANGED <<procs, files, obj, inode, mem, reply>>
           \/ \E out, in \in Obj, from \in OffsetArgs, count \in Counts, offp \in u32 :
                Sent(out, in, from, count, offp)
<1> SUFFICES ASSUME ~ (Refuse(EINVAL) \/ Refuse(EACCES)),
                    ~ (fault' = "wild" /\ UNCHANGED <<procs, files, obj, inode, mem, reply>>)
             PROVE  \E out, in \in Obj, from \in OffsetArgs, count \in Counts, offp \in u32 :
                      Sent(out, in, from, count, offp)
  OBVIOUS
<1>1. PICK outfd \in Fds, infd \in Fds, from \in OffsetArgs, count \in Counts :
         do_sendfile(p, outfd, infd, from, count)
  BY DEF Sendfile
<1> DEFINE out == files[p][outfd]
           in == files[p][infd]
           offp == IF from = <<>> THEN obj[in].offp ELSE from[1] % WIDTH
<1>2. out \in Obj \cup {NULL} /\ in \in Obj \cup {NULL}
  BY DEF Types, Tables
<1>3. out # NULL /\ in # NULL
  BY <1>1 DEF do_sendfile
<1>4. O_READ \in obj[in].mode /\ O_WRITE \in obj[out].mode
  BY <1>1, <1>3 DEF do_sendfile
<1>5. obj[in].type = REGULAR /\ obj[out].type = REGULAR
  BY <1>1, <1>3, <1>4 DEF do_sendfile
<1>6. Sent(out, in, from, count, offp)
  BY <1>1, <1>3, <1>4, <1>5 DEF do_sendfile, Sent
<1>7. offp \in u32
  <2>1. from = <<>> \/ from[1] \in Int
    BY FilesAssumption DEF OffsetArgs
  <2>2. obj[in].offp \in u32
    BY <1>2, <1>3 DEF Types, Objects, FileObjects
  <2>3. QED
    BY <2>1, <2>2, Word
<1> HIDE DEF in, out, offp
<1>8. QED
  BY <1>2, <1>3, <1>6, <1>7

LEMMA SentTypes ==
    ASSUME Types, NEW out \in Obj, NEW in \in Obj, NEW from \in OffsetArgs,
           NEW count \in Counts, NEW offp \in u32, Sent(out, in, from, count, offp)
    PROVE  Types'
<1> DEFINE read == ReadOut(in, offp, count)
           objs == AfterRead(in, from, read)
<1>1. read \in [ret : Int, data : Seq(Data \cup {0})]
  <2>1. count \in Nat
    BY FilesAssumption
  <2>2. QED
    BY <2>1, ReadOutTypes
<1>2. /\ IF read.ret < 0
         THEN obj' = objs /\ Return(read.ret) /\ UNCHANGED <<inode, mem>>
         ELSE do_write_regular(objs, out, read.data)
      /\ UNCHANGED <<procs, files, fault>>
  BY DEF Sent
<1> HIDE DEF read
<1>3. objs \in [Obj -> FileObjects]
  BY <1>1, AfterReadTypes
<1> HIDE DEF objs
<1>4. Objects' /\ Disk' /\ reply' \in [ret : Int, data : Seq(Data \cup {0})]
  <2>1. CASE read.ret < 0
    BY <1>1, <1>2, <1>3, <2>1, Answered DEF Types, Objects, Disk, Return
  <2>2. CASE ~ read.ret < 0
    <3>1. read.data \in Seq(Data \cup {0})
      BY <1>1
    <3>2. QED
      BY <1>2, <1>3, <2>2, <3>1, WriteRegularTypes
  <2>3. QED
    BY <2>1, <2>2
<1>5. QED
  BY <1>2, <1>4 DEF Types, Tables, Answers

LEMMA SendfileTypes == ASSUME Types, NEW p \in Proc, Sendfile(p) PROVE Types'
<1>1. CASE Refuse(EINVAL) \/ Refuse(EACCES)
  BY <1>1, RefuseTypes DEF EINVAL, EACCES
<1>2. CASE fault' = "wild" /\ UNCHANGED <<procs, files, obj, inode, mem, reply>>
  BY <1>2 DEF Types, Tables, Objects, Disk, Answers
<1>3. QED
  BY <1>1, <1>2, Sends, SentTypes

LEMMA TypesNext == Types /\ [Next]_vars => Types'
<1> SUFFICES ASSUME Types, [Next]_vars PROVE Types'
  OBVIOUS
<1>1. CASE UNCHANGED vars
  BY <1>1 DEF vars, Types, Tables, Objects, Disk, Answers
<1>2. ASSUME NEW p \in procs, Call(p) PROVE Types'
  <2>1. p \in Proc
    BY DEF Types, Tables
  <2>2. QED
    BY <1>2, <2>1, OpenTypes, OpenStdTypes, Dup2Types, ForkTypes, ExitTypes, CloseTypes,
       ReadTypes, WriteTypes, LseekTypes, SendfileTypes DEF Call
<1>3. QED
  BY <1>1, <1>2 DEF Next

LEMMA TypesHold == Spec => []Types
BY TypesInit, TypesNext, PTL DEF Spec

\* Every variable keeps its type, for every use of the calls: counts and positions
\* stay words, and no call makes up an inode.
THEOREM FilesTyped == Spec => []TypeOK
BY TypesHold, TypesCorrect, PTL

-----------------------------------------------------------------------------
(* Files keep to their stretch of memory.                                   *)

\* Seeks stay between the start of the file and its limit, no sendfile fails in the
\* middle, and no buffer takes half of all the addresses.
CarefulSeeks ==
    /\ Usage \cap {"seek_negative", "seek_end", "sendfile_fails"} = {}
    /\ \A count \in Counts : 2 * count < WIDTH

\* Positions within the limit, and nothing writable without an inode of its own.
Positions(objs) ==
    \A o \in Obj : objs[o].type = REGULAR =>
        /\ objs[o].offp <= FILE_SIZE
        /\ O_WRITE \in objs[o].mode => inode[objs[o].inode].is_valid

\* Sizes within the limit, an inode not yet taken empty, and zeroes behind the data.
Sizes ==
    \A i \in Inodes :
        /\ inode[i].max_pos = s_pos(i) + inode[i].file_size
        /\ inode[i].file_size \in 0 .. FILE_SIZE
        /\ ~ inode[i].is_valid => inode[i].file_size = 0
        /\ \A a \in inode[i].max_pos .. e_pos(i) - 1 : mem[a] = 0

BoundInv == Types /\ Positions(obj) /\ Sizes

LEMMA BoundsShown == BoundInv => InodesInBounds
BY DEF BoundInv, Positions, Sizes, InodesInBounds

LEMMA Limit == FILE_SIZE \in Nat /\ 2 * FILE_SIZE < WIDTH /\ WIDTH \in Nat
<1>1. FILE_SIZE \in Nat /\ WIDTH \in Nat /\ 0 \in Inodes
  BY FilesAssumption DEF Inodes
<1>2. s_pos(0) \in Nat /\ e_pos(0) = s_pos(0) + FILE_SIZE /\ 2 * e_pos(0) < WIDTH
  BY <1>1, Layout
<1>3. QED
  BY <1>1, <1>2

LEMMA NoInodeEmpty ==
    ASSUME NEW i \in Inodes
    PROVE  /\ NoInode(i).max_pos = s_pos(i) /\ NoInode(i).file_size = 0
           /\ NoInode(i).is_valid = FALSE
<1>1. NoInode(i).max_pos = s_pos(i)
  BY Zenon DEF NoInode
<1>2. NoInode(i).file_size = 0
  BY Zenon DEF NoInode
<1>3. NoInode(i).is_valid = FALSE
  BY Zenon DEF NoInode
<1>4. QED
  BY <1>1, <1>2, <1>3

LEMMA BoundInit == Init => BoundInv
<1> SUFFICES ASSUME Init PROVE BoundInv
  OBVIOUS
<1>1. Types
  BY TypesInit
<1>2. Positions(obj)
  <2>1. \A fd \in StdStreams : File(fd, StdMode(fd), 0).type # REGULAR
    BY FilesAssumption DEF File, REGULAR
  <2>2. NoFile.offp <= FILE_SIZE /\ O_WRITE \notin NoFile.mode
    BY Limit DEF NoFile
  <2>3. ASSUME NEW o \in Obj PROVE obj[o] = NoFile \/ obj[o].type # REGULAR
    <3>1. PICK std \in [Fds -> Obj \cup {NULL}] :
             obj = [q \in Obj |->
                IF \E fd \in StdStreams : std[fd] = q
                THEN LET fd == CHOOSE fd \in StdStreams : std[fd] = q
                     IN  File(fd, StdMode(fd), 0)
                ELSE NoFile]
      BY DEF Init
    <3>2. CASE \E fd \in StdStreams : std[fd] = o
      <4> DEFINE d == CHOOSE fd \in StdStreams : std[fd] = o
      <4>1. d \in StdStreams
        BY <3>2
      <4>2. obj[o] = File(d, StdMode(d), 0)
        BY <3>1, <3>2
      <4>3. QED
        BY <2>1, <4>1, <4>2
    <3>3. CASE ~ \E fd \in StdStreams : std[fd] = o
      BY <3>1, <3>3
    <3>4. QED
      BY <3>2, <3>3
  <2>4. QED
    BY <2>2, <2>3 DEF Positions
<1>3. Sizes
  <2>1. ASSUME NEW i \in Inodes
        PROVE  /\ inode[i].max_pos = s_pos(i) /\ inode[i].file_size = 0
               /\ s_pos(i) \in Int /\ s_pos(i) .. e_pos(i) - 1 \subseteq Store
    <3>1. inode[i] = NoInode(i)
      BY DEF Init
    <3>2. inode[i].max_pos = s_pos(i) /\ inode[i].file_size = 0
      BY <3>1, NoInodeEmpty
    <3>3. s_pos(i) \in Int /\ s_pos(i) .. e_pos(i) - 1 \subseteq Store
      BY Layout
    <3>4. QED
      BY <3>2, <3>3
  <2>2. \A a \in Store : mem[a] = 0
    BY DEF Init
  <2>3. 0 \in 0 .. FILE_SIZE
    BY Limit
  <2>4. QED
    BY <2>1, <2>2, <2>3 DEF Sizes
<1>4. QED
  BY <1>1, <1>2, <1>3 DEF BoundInv

\* A position in the file is the word that stands for it.
LEMMA PositionWord ==
    ASSUME NEW n \in u32, n <= FILE_SIZE
    PROVE  n \in Nat /\ Int32(n) = n
<1>1. n \in Nat /\ 2 * n < WIDTH
  BY Limit DEF u32
<1>2. QED
  BY <1>1 DEF Int32

\* Reading from the position does not leave the file.
LEMMA ReadBounds ==
    ASSUME BoundInv, NEW o \in Obj, obj[o].type = REGULAR, NEW count \in Nat
    PROVE  LET out == ReadOut(o, obj[o].offp, count) IN
           (obj[o].offp + Len(out.data)) % WIDTH <= FILE_SIZE
<1> DEFINE out == ReadOut(o, obj[o].offp, count)
           i == obj[o].inode
           offp == obj[o].offp
<1>1. offp \in u32 /\ offp <= FILE_SIZE /\ i \in Inodes
  BY DEF BoundInv, Types, Objects, FileObjects, Positions
<1>2. offp \in Nat /\ Int32(offp) = offp
  BY <1>1, PositionWord
<1>3. inode[i].file_size \in 0 .. FILE_SIZE
  BY <1>1 DEF BoundInv, Sizes
<1>4. /\ Len(out.data) \in Nat
      /\ Len(out.data) = 0 \/ Int32(offp) + Len(out.data) <= inode[i].file_size
  BY <1>1, ReadOutTypes DEF BoundInv
<1> HIDE DEF out, i, offp
<1>5. offp + Len(out.data) \in Nat /\ offp + Len(out.data) <= FILE_SIZE
  BY <1>1, <1>2, <1>3, <1>4, Limit
<1>6. offp + Len(out.data) < WIDTH
  BY <1>5, Limit
<1>7. (offp + Len(out.data)) % WIDTH = offp + Len(out.data)
  BY <1>5, <1>6, SmallWord
<1>8. QED
  BY <1>5, <1>7 DEF out, offp

\* Writing at the position changes no byte of another file, and none behind the
\* new end of this one.
LEMMA WriteBounds ==
    ASSUME BoundInv, NEW objs \in [Obj -> FileObjects], Positions(objs), NEW o \in Obj,
           objs[o].type = REGULAR, O_WRITE \in objs[o].mode,
           NEW buf \in Seq(Data \cup {0}), 2 * Len(buf) < WIDTH,
           do_write_regular(objs, o, buf)
    PROVE  Positions(obj)' /\ Sizes'
<1> DEFINE i == objs[o].inode
           at == objs[o].offp
           n == Len(buf)
           max == IF s_pos(i) + at + n > inode[i].max_pos THEN s_pos(i) + at + n
                  ELSE inode[i].max_pos
<1>1. /\ objs[o] \in FileObjects /\ i \in Inodes /\ at \in Nat /\ at <= FILE_SIZE
      /\ Int32(at) = at /\ n \in Nat /\ DOMAIN buf = 1 .. n
  <2>1. objs[o] \in FileObjects /\ i \in Inodes /\ at \in u32 /\ at <= FILE_SIZE
    BY DEF FileObjects, Positions
  <2>2. QED
    BY <2>1, PositionWord
<1>2. inode[i].is_valid
  BY DEF Positions
<1>3. /\ s_pos(i) \in Nat /\ e_pos(i) = s_pos(i) + FILE_SIZE /\ 2 * e_pos(i) < WIDTH
      /\ \A j \in Inodes : j # i => e_pos(i) <= s_pos(j) \/ e_pos(j) <= s_pos(i)
  BY <1>1, Layout
<1>4. (s_pos(i) + at + n) % WIDTH = s_pos(i) + at + n
  <2>1. s_pos(i) + at + n \in Nat /\ s_pos(i) + at + n < WIDTH
    BY <1>1, <1>3, Limit
  <2>2. QED
    BY <2>1, SmallWord
<1> HIDE DEF i, at, n
<1>5. CASE ~ (s_pos(i) + at + n) % WIDTH <= e_pos(i)
  <2>1. obj' = objs /\ UNCHANGED <<mem, inode>>
    BY <1>5 DEF do_write_regular, i, at, n
  <2>2. QED
    BY <2>1 DEF BoundInv, Positions, Sizes
<1>6. CASE (s_pos(i) + at + n) % WIDTH <= e_pos(i)
  <2>1. /\ obj' = [objs EXCEPT ![o].offp = (@ + n) % WIDTH]
        /\ mem' = Written(i, at, buf)
        /\ inode' = [inode EXCEPT ![i] = Extended(i, at, n)]
    BY <1>1, <1>6 DEF do_write_regular, i, at, n
  <2>2. at + n \in Nat /\ at + n <= FILE_SIZE
    BY <1>1, <1>3, <1>4, <1>6, Limit
  <2>3. (at + n) % WIDTH = at + n
    <3>1. at + n < WIDTH
      BY <2>2, Limit
    <3>2. QED
      BY <2>2, <3>1, SmallWord
  <2>4. /\ inode[i] \in InodeRecords
        /\ inode[i].max_pos = s_pos(i) + inode[i].file_size
        /\ inode[i].file_size \in 0 .. FILE_SIZE
        /\ \A a \in inode[i].max_pos .. e_pos(i) - 1 : mem[a] = 0
    BY <1>1 DEF BoundInv, Types, Disk, Sizes
  <2>5. /\ max \in Nat /\ max >= s_pos(i) + at + n /\ max >= inode[i].max_pos
        /\ max - s_pos(i) \in 0 .. FILE_SIZE
    <3>1. /\ s_pos(i) \in Nat /\ at \in Nat /\ n \in Nat /\ at + n <= FILE_SIZE
          /\ inode[i].max_pos = s_pos(i) + inode[i].file_size
          /\ inode[i].file_size \in 0 .. FILE_SIZE /\ FILE_SIZE \in Nat
      BY <1>1, <1>3, <2>2, <2>4, Limit
    <3>2. CASE s_pos(i) + at + n > inode[i].max_pos
      <4>1. max = s_pos(i) + at + n
        BY <3>2
      <4>2. QED
        BY <3>1, <3>2, <4>1
    <3>3. CASE ~ s_pos(i) + at + n > inode[i].max_pos
      <4>1. max = inode[i].max_pos
        BY <3>3
      <4>2. QED
        BY <3>1, <3>3, <4>1
    <3>4. QED
      BY <3>2, <3>3
  <2>6. Extended(i, at, n) = [inode[i] EXCEPT !.max_pos = max, !.file_size = max - s_pos(i)]
    BY DEF Extended
  <2> HIDE DEF max
  <2>7. /\ Extended(i, at, n).max_pos = max
        /\ Extended(i, at, n).file_size = max - s_pos(i)
        /\ Extended(i, at, n).is_valid = inode[i].is_valid
    BY <2>4, <2>6 DEF InodeRecords
  <2>8. /\ inode'[i] = Extended(i, at, n)
        /\ \A j \in Inodes : j # i => inode'[j] = inode[j]
    BY <1>1, <2>1 DEF BoundInv, Types, Disk
  <2>9. \A a \in Store : a - s_pos(i) - at + 1 \notin 1 .. n => mem'[a] = mem[a]
    BY <1>1, <2>1 DEF Written
  <2>10. Positions(obj)'
    <3>1. /\ obj'[o].offp = at + n /\ obj'[o].type = REGULAR
          /\ obj'[o].inode = i /\ obj'[o].mode = objs[o].mode
          /\ \A q \in Obj : q # o => obj'[q] = objs[q]
      BY <1>1, <2>1, <2>3 DEF FileObjects, i, at
    <3>2. \A j \in Inodes : inode'[j].is_valid = inode[j].is_valid
      BY <2>7, <2>8
    <3>3. \A q \in Obj : objs[q].inode \in Inodes
      BY DEF FileObjects
    <3>4. QED
      BY <1>1, <1>2, <2>2, <3>1, <3>2, <3>3 DEF Positions
  <2>11. ASSUME NEW j \in Inodes
         PROVE  /\ inode'[j].max_pos = s_pos(j) + inode'[j].file_size
                /\ inode'[j].file_size \in 0 .. FILE_SIZE
                /\ ~ inode'[j].is_valid => inode'[j].file_size = 0
                /\ \A a \in inode'[j].max_pos .. e_pos(j) - 1 : mem'[a] = 0
    <3>1. CASE j = i
      <4>1. ASSUME NEW a \in max .. e_pos(i) - 1 PROVE mem'[a] = 0
        <5>1. a \in Int /\ a >= s_pos(i) + at + n /\ a \in inode[i].max_pos .. e_pos(i) - 1
          BY <1>1, <1>3, <2>4, <2>5, <4>1
        <5>2. a - s_pos(i) - at + 1 \notin 1 .. n
          BY <1>1, <1>3, <5>1
        <5>3. a \in Store
          <6>1. s_pos(i) .. e_pos(i) - 1 \subseteq Store
            BY <1>1, Layout
          <6>2. s_pos(i) <= max /\ max \in Nat
            BY <1>3, <2>4, <2>5
          <6>3. a \in s_pos(i) .. e_pos(i) - 1
            BY <1>3, <4>1, <6>2, Limit
          <6>4. QED
            BY <6>1, <6>3
        <5>4. QED
          BY <2>4, <2>9, <5>1, <5>2, <5>3
      <4>2. inode'[i].max_pos = s_pos(i) + inode'[i].file_size
        BY <1>3, <2>5, <2>7, <2>8
      <4>3. inode'[i].file_size \in 0 .. FILE_SIZE /\ inode'[i].is_valid
        BY <1>2, <2>5, <2>7, <2>8
      <4>4. inode'[i].max_pos = max
        BY <2>7, <2>8
      <4>5. QED
        BY <3>1, <4>1, <4>2, <4>3, <4>4
    <3>2. CASE j # i
      <4>1. /\ inode[j].max_pos = s_pos(j) + inode[j].file_size
            /\ inode[j].file_size \in 0 .. FILE_SIZE
            /\ ~ inode[j].is_valid => inode[j].file_size = 0
            /\ \A a \in inode[j].max_pos .. e_pos(j) - 1 : mem[a] = 0
        BY DEF BoundInv, Sizes
      <4>2. s_pos(j) \in Nat /\ s_pos(j) .. e_pos(j) - 1 \subseteq Store /\ e_pos(j) \in Nat
        BY Layout, Limit
      <4>3. ASSUME NEW a \in inode[j].max_pos .. e_pos(j) - 1 PROVE mem'[a] = 0
        <5>1. a \in Int /\ a \in s_pos(j) .. e_pos(j) - 1
          BY <4>1, <4>2, Limit
        <5>2. a < s_pos(i) \/ a >= e_pos(i)
          BY <1>3, <3>2, <4>2, <5>1, Limit
        <5>3. a - s_pos(i) - at + 1 \notin 1 .. n
          BY <1>1, <1>3, <2>2, <5>1, <5>2, Limit
        <5>4. QED
          BY <2>9, <4>1, <4>2, <4>3, <5>1, <5>3
      <4>4. QED
        BY <2>8, <3>2, <4>1, <4>3
    <3>3. QED
      BY <3>1, <3>2
  <2>12. Sizes'
    BY <2>11 DEF Sizes
  <2>13. QED
    BY <2>10, <2>12
<1>7. QED
  BY <1>5, <1>6

\* Calls that leave the disk alone.
LEMMA SameDisk ==
    ASSUME BoundInv, UNCHANGED <<inode, mem>>
    PROVE  Sizes' /\ \A objs : Positions(objs) => Positions(objs)'
BY DEF BoundInv, Sizes, Positions

LEMMA SameObjects == ASSUME BoundInv, UNCHANGED <<obj, inode, mem>> PROVE Positions(obj)' /\ Sizes'
BY DEF BoundInv, Sizes, Positions

LEMMA OpenBounds == ASSUME BoundInv, NEW p \in Proc, Open(p) PROVE Positions(obj)' /\ Sizes'
<1>1. PICK name \in Names, flags \in FlagSets, mode \in ModeSets :
         do_regular_file_open(p, name, flags, mode)
  BY DEF Open
<1>2. ASSUME NEW i \in Inodes, NEW modes, OpenInode(p, i, modes, flags)
      PROVE  /\ mem' = mem
             /\ \A q \in Obj : obj'[q] = obj[q] \/ obj'[q] = File(REGULAR, flags, i)
  BY <1>2 DEF OpenInode, FreeObjs, BoundInv, Types, Objects
<1>3. \A i : File(REGULAR, flags, i).offp = 0 /\ File(REGULAR, flags, i).inode = i
  BY DEF File
<1>4. 0 <= FILE_SIZE
  BY Limit
<1>5. CASE OpenExisting(p, name, flags)
  <2>1. PICK i \in LookupInode(name) : OpenInode(p, i, inode[i].mode, flags)
    BY <1>5 DEF OpenExisting
  <2>2. i \in Inodes /\ inode[i].is_valid
    BY DEF LookupInode
  <2>3. inode' = inode /\ mem' = mem
    BY <1>2, <1>5, <2>1, <2>2 DEF OpenExisting
  <2>4. \A q \in Obj : obj'[q] = obj[q] \/ obj'[q] = File(REGULAR, flags, i)
    BY <1>2, <2>1, <2>2
  <2>5. Positions(obj)'
    BY <1>3, <1>4, <2>2, <2>3, <2>4 DEF BoundInv, Positions
  <2>6. QED
    BY <2>3, <2>5, SameDisk
<1>6. CASE OpenNew(p, name, flags, mode)
  <2> DEFINE F == FreeInode
             new == [NoInode(F) EXCEPT !.is_valid = TRUE, !.filename = name, !.mode = mode]
  <2>1. F \in Inodes /\ ~ inode[F].is_valid
    BY <1>6, NewInode DEF OpenNew
  <2>2. OpenInode(p, F, mode, flags) /\ inode' = [inode EXCEPT ![F] = new]
    BY <1>6 DEF OpenNew, CreateInode
  <2> HIDE DEF F
  <2>3. mem' = mem /\ \A q \in Obj : obj'[q] = obj[q] \/ obj'[q] = File(REGULAR, flags, F)
    BY <1>2, <2>1, <2>2
  <2>4. new.is_valid = TRUE /\ new.max_pos = s_pos(F) /\ new.file_size = 0
    <3>1. /\ NoInode(F).max_pos = s_pos(F) /\ NoInode(F).file_size = 0
          /\ DOMAIN NoInode(F) = {"is_valid", "filename", "mode", "max_pos", "file_size"}
      BY <2>1, NoInodeEmpty DEF NoInode
    <3>2. QED
      BY <3>1 DEF NoInode
  <2> HIDE DEF new
  <2>5. inode'[F] = new /\ \A j \in Inodes : j # F => inode'[j] = inode[j]
    BY <2>1, <2>2 DEF BoundInv, Types, Disk
  <2>6. \A q \in Obj : obj[q].inode \in Inodes
    BY DEF BoundInv, Types, Objects, FileObjects
  <2>7. Positions(obj)'
    BY <1>3, <1>4, <2>1, <2>3, <2>4, <2>5, <2>6 DEF BoundInv, Positions
  <2>8. ASSUME NEW j \in Inodes
        PROVE  /\ inode'[j].max_pos = s_pos(j) + inode'[j].file_size
               /\ inode'[j].file_size \in 0 .. FILE_SIZE
               /\ ~ inode'[j].is_valid => inode'[j].file_size = 0
               /\ \A a \in inode'[j].max_pos .. e_pos(j) - 1 : mem'[a] = 0
    <3>1. CASE j = F
      <4>1. inode[F].max_pos = s_pos(F) + 0 /\ s_pos(F) \in Nat
        BY <2>1, Layout DEF BoundInv, Sizes
      <4>2. inode[F].max_pos = s_pos(F)
        BY <4>1
      <4>3. \A a \in s_pos(F) .. e_pos(F) - 1 : mem[a] = 0
        BY <2>1, <4>2 DEF BoundInv, Sizes
      <4>4. QED
        BY <2>3, <2>4, <2>5, <3>1, <4>1, <4>3, Limit
    <3>2. CASE j # F
      BY <2>3, <2>5, <3>2 DEF BoundInv, Sizes
    <3>3. QED
      BY <3>1, <3>2
  <2>9. QED
    BY <2>7, <2>8 DEF Sizes
<1>7. CASE OpenFails(name, flags)
  BY <1>7, SameObjects DEF OpenFails, Refuse
<1>8. QED
  BY <1>1, <1>5, <1>6, <1>7 DEF do_regular_file_open

LEMMA OpenStdBounds ==
    ASSUME BoundInv, NEW p \in Proc, OpenStd(p) PROVE Positions(obj)' /\ Sizes'
<1>1. PICK type \in StdStreams : open_standard_IO(p, type)
  BY DEF OpenStd
<1>2. type # REGULAR /\ type \in Fds /\ UNCHANGED <<inode, mem>>
  BY <1>1, FilesAssumption DEF REGULAR, Fds, open_standard_IO
<1>3. CASE files[p][type] = NULL
  <2>1. PICK new \in Obj : obj' = [obj EXCEPT ![new] = File(type, StdMode(type), 0)]
    BY <1>1, <1>3 DEF open_standard_IO, FreeObjs
  <2>2. File(type, StdMode(type), 0).type # REGULAR
    BY <1>2 DEF File
  <2>3. \A q \in Obj : obj'[q] = obj[q] \/ obj'[q].type # REGULAR
    BY <2>1, <2>2 DEF BoundInv, Types, Objects
  <2>4. QED
    BY <1>2, <2>3, SameDisk DEF BoundInv, Positions
<1>4. CASE files[p][type] # NULL
  <2> DEFINE o == files[p][type]
  <2>1. obj' = [obj EXCEPT ![o].ref_count = (@ + 1) % WIDTH]
    BY <1>1, <1>4 DEF open_standard_IO
  <2>2. o \in Obj /\ obj \in [Obj -> FileObjects]
    BY <1>2, <1>4 DEF BoundInv, Types, Tables, Objects
  <2> HIDE DEF o
  <2>3. \A q \in Obj : /\ obj'[q].type = obj[q].type /\ obj'[q].offp = obj[q].offp
                       /\ obj'[q].mode = obj[q].mode /\ obj'[q].inode = obj[q].inode
    BY <2>1, <2>2 DEF FileObjects
  <2>4. QED
    BY <1>2, <2>3, SameDisk DEF BoundInv, Positions
<1>5. QED
  BY <1>3, <1>4

\* Dropping references moves no position.
LEMMA DropBounds ==
    ASSUME BoundInv, UNCHANGED <<inode, mem>>,
           \A q \in Obj : obj'[q] = obj[q] \/ \E k : obj'[q] = Dropped(obj[q], k)
    PROVE  Positions(obj)' /\ Sizes'
<1>1. \A q \in Obj : /\ obj'[q].type = obj[q].type /\ obj'[q].offp = obj[q].offp
                     /\ obj'[q].mode = obj[q].mode /\ obj'[q].inode = obj[q].inode
  BY DEF Dropped, BoundInv, Types, Objects, FileObjects
<1>2. QED
  BY <1>1, SameDisk DEF BoundInv, Positions

LEMMA CloseBounds ==
    ASSUME BoundInv, NEW p \in Proc, Close(p) \/ do_exit(p) PROVE Positions(obj)' /\ Sizes'
<1>1. CASE Close(p)
  <2>1. PICK fd \in Fds : do_close(p, fd)
    BY <1>1 DEF Close
  <2>2. CASE files[p][fd] = NULL
    BY <2>1, <2>2, SameObjects DEF do_close, Refuse
  <2>3. CASE files[p][fd] # NULL
    <3>1. /\ obj' = [obj EXCEPT ![files[p][fd]] = Dropped(obj[files[p][fd]], 1)]
          /\ UNCHANGED <<inode, mem>>
      BY <2>1, <2>3 DEF do_close
    <3>2. \A q \in Obj : obj'[q] = obj[q] \/ obj'[q] = Dropped(obj[q], 1)
      BY <3>1 DEF BoundInv, Types, Objects
    <3>3. QED
      BY <3>1, <3>2, DropBounds
  <2>4. QED
    BY <2>2, <2>3
<1>2. CASE do_exit(p)
  BY <1>2, DropBounds DEF do_exit
<1>3. QED
  BY <1>1, <1>2

\* Moving one position within the file.
LEMMA MoveBounds ==
    ASSUME BoundInv, NEW o \in Obj, NEW to, to <= FILE_SIZE
    PROVE  Positions([obj EXCEPT ![o].offp = to])
<1>1. obj \in [Obj -> FileObjects]
  BY DEF BoundInv, Types, Objects
<1> DEFINE objs == [obj EXCEPT ![o].offp = to]
<1>2. /\ \A q \in Obj : /\ objs[q].type = obj[q].type /\ objs[q].mode = obj[q].mode
                        /\ objs[q].inode = obj[q].inode
                        /\ q # o => objs[q].offp = obj[q].offp
      /\ objs[o].offp = to
  BY <1>1 DEF FileObjects
<1> HIDE DEF objs
<1>3. Positions(objs)
  BY <1>2 DEF BoundInv, Positions
<1>4. QED
  BY <1>3 DEF objs

LEMMA ReadCallBounds ==
    ASSUME BoundInv, NEW p \in Proc, Read(p) PROVE Positions(obj)' /\ Sizes'
<1>1. PICK fd \in Fds, count \in Counts : do_file_read(p, fd, count)
  BY DEF Read
<1> DEFINE o == files[p][fd]
           to == (obj[o].offp + Len(ReadOut(o, obj[o].offp, count).data)) % WIDTH
<1>2. CASE Refuse(EINVAL) \/ Refuse(EACCES)
  BY <1>2, SameObjects DEF Refuse
<1>3. CASE ~ (Refuse(EINVAL) \/ Refuse(EACCES))
  <2>1. /\ o # NULL /\ UNCHANGED <<inode, mem>>
        /\ obj[o].type = REGULAR => obj' = [obj EXCEPT ![o].offp = to]
        /\ obj[o].type # REGULAR => obj' = obj
    BY <1>1, <1>3 DEF do_file_read
  <2>2. o \in Obj /\ count \in Nat
    BY <2>1, FilesAssumption DEF BoundInv, Types, Tables
  <2>3. CASE obj[o].type = REGULAR
    <3>1. to <= FILE_SIZE
      BY <2>2, <2>3, ReadBounds
    <3> HIDE DEF to
    <3>2. Positions([obj EXCEPT ![o].offp = to])
      BY <2>2, <3>1, MoveBounds
    <3>3. obj' = [obj EXCEPT ![o].offp = to]
      BY <2>1, <2>3
    <3>4. Positions(obj)'
      BY <2>1, <3>2, <3>3 DEF Positions
    <3>5. QED
      BY <2>1, <3>4, SameDisk
  <2>4. CASE obj[o].type # REGULAR
    BY <2>1, <2>4, SameObjects
  <2>5. QED
    BY <2>3, <2>4
<1>4. QED
  BY <1>2, <1>3

LEMMA WriteCallBounds ==
    ASSUME CarefulSeeks, BoundInv, NEW p \in Proc, Write(p) PROVE Positions(obj)' /\ Sizes'
<1>1. PICK fd \in Fds, count \in Counts, d \in Data :
         do_file_write(p, fd, [k \in 1 .. count |-> d])
  BY DEF Write
<1> DEFINE o == files[p][fd]
           buf == [k \in 1 .. count |-> d]
<1>2. buf \in Seq(Data \cup {0}) /\ Len(buf) = count /\ 2 * count < WIDTH
  BY FilesAssumption DEF CarefulSeeks
<1> HIDE DEF buf
<1>3. CASE Refuse(EINVAL) \/ Refuse(EACCES)
  BY <1>3, SameObjects DEF Refuse
<1>4. CASE ~ (Refuse(EINVAL) \/ Refuse(EACCES))
  <2>1. /\ o # NULL /\ O_WRITE \in obj[o].mode
        /\ obj[o].type = REGULAR => do_write_regular(obj, o, buf)
        /\ obj[o].type # REGULAR => UNCHANGED <<obj, inode, mem>>
    BY <1>1, <1>4 DEF do_file_write, buf
  <2>2. o \in Obj /\ obj \in [Obj -> FileObjects] /\ Positions(obj)
    BY <2>1 DEF BoundInv, Types, Tables, Objects
  <2> HIDE DEF o
  <2>3. CASE obj[o].type = REGULAR
    BY <1>2, <2>1, <2>2, <2>3, WriteBounds
  <2>4. CASE obj[o].type # REGULAR
    BY <2>1, <2>4, SameObjects
  <2>5. QED
    BY <2>3, <2>4
<1>5. QED
  BY <1>3, <1>4

LEMMA LseekBounds ==
    ASSUME CarefulSeeks, BoundInv, NEW p \in Proc, Lseek(p) PROVE Positions(obj)' /\ Sizes'
<1>1. PICK fd \in Fds, offset \in Offsets, whence \in Whences :
         do_lseek(p, fd, offset, whence)
  BY DEF Lseek
<1> DEFINE o == files[p][fd]
           at == SeekTarget(o, offset, whence)
<1>2. CASE Refuse(EINVAL)
  BY <1>2, SameObjects DEF Refuse
<1>3. CASE ~ Refuse(EINVAL)
  <2>1. /\ o # NULL /\ obj[o].type = REGULAR /\ ~ SeekPastEnd(o, offset, whence)
        /\ at < 0 => "seek_negative" \in Usage
        /\ whence = "SEEK_END" => "seek_end" \in Usage
        /\ obj' = [obj EXCEPT ![o].offp = at % WIDTH]
        /\ UNCHANGED <<inode, mem>>
    BY <1>1, <1>3 DEF do_lseek
  <2> HIDE DEF o
  <2>2. o \in Obj
    BY <2>1 DEF o, BoundInv, Types, Tables
  <2>3. /\ obj[o].offp \in Nat /\ obj[o].offp <= FILE_SIZE /\ obj[o].inode \in Inodes
        /\ offset \in Int
    <3>1. obj[o].offp \in u32 /\ obj[o].offp <= FILE_SIZE /\ obj[o].inode \in Inodes
      BY <2>1, <2>2 DEF BoundInv, Types, Objects, FileObjects, Positions
    <3>2. QED
      BY <3>1, FilesAssumption DEF u32
  <2>4. /\ s_pos(obj[o].inode) \in Nat /\ 2 * e_pos(obj[o].inode) < WIDTH
        /\ e_pos(obj[o].inode) = s_pos(obj[o].inode) + FILE_SIZE
    BY <2>3, Layout
  <2>5. whence \in {"SEEK_SET", "SEEK_CUR"} /\ ~ at < 0
    BY <2>1 DEF CarefulSeeks, Whences
  <2>6. at \in Nat /\ at <= FILE_SIZE
    <3>1. CASE whence = "SEEK_SET"
      BY <2>1, <2>3, <2>4, <2>5, <3>1, Limit DEF SeekTarget, SeekPastEnd
    <3>2. CASE whence = "SEEK_CUR"
      <4>1. s_pos(obj[o].inode) + obj[o].offp \in Nat
            /\ s_pos(obj[o].inode) + obj[o].offp < WIDTH
        BY <2>3, <2>4, Limit
      <4>2. (s_pos(obj[o].inode) + obj[o].offp) % WIDTH = s_pos(obj[o].inode) + obj[o].offp
        BY <4>1, SmallWord
      <4>3. at = obj[o].offp + offset
        BY <3>2 DEF SeekTarget
      <4>4. s_pos(obj[o].inode) + obj[o].offp + offset <= e_pos(obj[o].inode)
        BY <2>1, <2>3, <2>4, <3>2, <4>2, Limit DEF SeekPastEnd
      <4> HIDE DEF at
      <4>5. QED
        BY <2>3, <2>4, <2>5, <4>3, <4>4, Limit
    <3>3. QED
      BY <2>5, <3>1, <3>2
  <2> HIDE DEF at
  <2>7. at % WIDTH = at
    <3>1. at < WIDTH
      BY <2>6, Limit
    <3>2. QED
      BY <2>6, <3>1, SmallWord
  <2>8. Positions([obj EXCEPT ![o].offp = at])
    BY <2>2, <2>6, MoveBounds
  <2>9. obj' = [obj EXCEPT ![o].offp = at]
    BY <2>1, <2>7
  <2>10. Positions(obj)'
    BY <2>1, <2>8, <2>9 DEF Positions
  <2>11. QED
    BY <2>1, <2>10, SameDisk
<1>4. QED
  BY <1>2, <1>3

LEMMA SentBounds ==
    ASSUME CarefulSeeks, BoundInv, NEW out \in Obj, NEW in \in Obj, NEW from \in OffsetArgs,
           NEW count \in Counts, NEW offp \in u32, Sent(out, in, from, count, offp)
    PROVE  Positions(obj)' /\ Sizes'
<1> DEFINE read == ReadOut(in, offp, count)
           objs == AfterRead(in, from, read)
           to == (obj[in].offp + Len(read.data)) % WIDTH
<1>1. /\ O_WRITE \in obj[out].mode /\ obj[in].type = REGULAR /\ obj[out].type = REGULAR
      /\ ~ read.ret < 0 /\ do_write_regular(objs, out, read.data)
  BY DEF Sent, CarefulSeeks
<1>2. from = <<>> => offp = obj[in].offp
  BY DEF Sent
<1>3. Types /\ count \in Nat /\ 2 * count < WIDTH
  BY FilesAssumption DEF BoundInv, CarefulSeeks
<1>4. /\ read \in [ret : Int, data : Seq(Data \cup {0})]
      /\ Len(read.data) \in Nat /\ Len(read.data) <= count
  BY <1>3, ReadOutTypes
<1>5. from = <<>> => to <= FILE_SIZE
  BY <1>1, <1>2, <1>3, ReadBounds
<1>6. read.ret \in Int /\ read.data \in Seq(Data \cup {0}) /\ 2 * Len(read.data) < WIDTH
  BY <1>3, <1>4, Limit
<1>7. objs \in [Obj -> FileObjects]
  BY <1>3, <1>4, AfterReadTypes
<1>8. objs = obj \/ (from = <<>> /\ objs = [obj EXCEPT ![in].offp = to])
  BY <1>1, <1>6 DEF AfterRead
<1> HIDE DEF read, to
<1>9. Positions(objs)
  <2>1. CASE objs = obj
    BY <2>1 DEF BoundInv
  <2>2. CASE from = <<>> /\ objs = [obj EXCEPT ![in].offp = to]
    BY <1>5, <2>2, MoveBounds
  <2>3. QED
    BY <1>8, <2>1, <2>2
<1>10. objs[out].type = obj[out].type /\ objs[out].mode = obj[out].mode
  <2>1. obj \in [Obj -> FileObjects]
    BY <1>3 DEF Types, Objects
  <2>2. QED
    BY <1>8, <2>1 DEF FileObjects
<1> HIDE DEF objs
<1>11. QED
  BY <1>1, <1>6, <1>7, <1>9, <1>10, WriteBounds

LEMMA BoundNext == CarefulSeeks /\ BoundInv /\ [Next]_vars => BoundInv'
<1> SUFFICES ASSUME CarefulSeeks, BoundInv, [Next]_vars PROVE BoundInv'
  OBVIOUS
<1>1. Types'
  BY TypesNext DEF BoundInv
<1>2. CASE UNCHANGED vars
  BY <1>1, <1>2, SameObjects DEF vars, BoundInv
<1>3. ASSUME NEW p \in procs, Call(p) PROVE Positions(obj)' /\ Sizes'
  <2>1. p \in Proc
    BY DEF BoundInv, Types, Tables
  <2>2. CASE Dup2(p) \/ Fork(p)
    BY <2>2, SameObjects DEF Dup2, Fork, fd_dup2, do_fork, Refuse
  <2>3. CASE Sendfile(p)
    <3>1. CASE UNCHANGED <<obj, inode, mem>>
      BY <3>1, SameObjects
    <3>2. CASE ~ UNCHANGED <<obj, inode, mem>>
      BY <2>1, <2>3, <3>2, Sends, SentBounds DEF BoundInv, Refuse
    <3>3. QED
      BY <3>1, <3>2
  <2>4. QED
    BY <1>3, <2>1, <2>2, <2>3, OpenBounds, OpenStdBounds, CloseBounds, ReadCallBounds,
       WriteCallBounds, LseekBounds DEF Call
<1>4. QED
  BY <1>1, <1>2, <1>3 DEF Next, BoundInv

\* No position leaves its file and nothing is written behind a file's data, through
\* that file or its neighbour, for any number and size of files and whatever the
\* processes share: the checks of the calls suffice as long as nobody seeks before
\* the start or from the end, or sends with an offset that cannot be read.
THEOREM FilesKeptApart == CarefulSeeks /\ Spec => []InodesInBounds
<1> SUFFICES ASSUME CarefulSeeks PROVE Spec => []InodesInBounds
  OBVIOUS
<1>1. BoundInv /\ [Next]_vars => BoundInv'
  BY BoundNext
<1>2. QED
  BY <1>1, BoundInit, BoundsShown, PTL DEF Spec
=============================================================================
