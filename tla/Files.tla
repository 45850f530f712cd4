-------------------------------- MODULE Files --------------------------------
(***************************************************************************)
(* Open files and the flat file system of gemOS: Assignment_2/gemOs/src    *)
(* file.c and fs.c, with the system call handlers of entry.c over them.    *)
(*                                                                         *)
(* A process has an array of descriptors, each NULL or a pointer to a file *)
(* object.  Objects are pages of kernel memory with a reference count; a   *)
(* freed one keeps its contents until its page is handed out again, which  *)
(* may be for another file.  An inode owns a fixed stretch of memory,      *)
(* FILE_SIZE bytes next to those of its neighbours, and positions in it    *)
(* are u32 offsets, read as int where the bytes are copied.                *)
(*                                                                         *)
(* A system call runs to its end with interrupts off: one step.            *)
(***************************************************************************)
EXTENDS Integers, Sequences, FiniteSets

CONSTANTS
  Proc, Init0,      \* processes; the first one
  Obj, NULL,        \* pages that can hold a file object; no object
  MAX_OPEN_FILES,   \* descriptors of a process
  StdStreams,       \* the standard streams, by name: their type is their fd
  Names,            \* names of regular files
  NUM_FILES, FILE_SIZE, BASE,  \* inodes, bytes of each, address of the first
  WIDTH,            \* 2^32
  FlagSets, ModeSets,          \* arguments of open, as sets of flags
  Data, Counts, Offsets,       \* bytes written, counts and seek offsets
  NewFds,           \* targets of dup2
  MaxOver,          \* bound: how often a freed object's count is dropped
  Usage             \* what the processes do beyond the careful core

EINVAL == 1
EACCES == 4
ENOMEM == 5

O_READ == "R"
O_WRITE == "W"
O_CREAT == "C"

(***************************************************************************)
(* Uses of the calls that the processes may or may not make.               *)
(***************************************************************************)
Usages ==
  {"reopen",         \* take a page while a freed object has a descriptor
   "seek_negative",  \* seek before the start of the file
   "seek_end",       \* seek from the end of the file
   "sendfile_std",   \* sendfile with a standard stream
   "sendfile_fails", \* sendfile whose read fails
   "too_many"}       \* open with every descriptor taken

Whences == {"SEEK_SET", "SEEK_CUR", "SEEK_END"}

Inodes == 0 .. NUM_FILES - 1
Fds == 0 .. MAX_OPEN_FILES - 1
s_pos(i) == BASE + i * FILE_SIZE
e_pos(i) == BASE + (i + 1) * FILE_SIZE
Store == BASE .. BASE + NUM_FILES * FILE_SIZE - 1
u32 == 0 .. WIDTH - 1

ASSUME FilesAssumption ==
    /\ Init0 \in Proc /\ NULL \notin Obj /\ Obj # {}
    /\ MAX_OPEN_FILES \in Nat /\ MAX_OPEN_FILES > 3
    /\ StdStreams \in SUBSET (0 .. 2)
    /\ NUM_FILES \in Nat \ {0} /\ FILE_SIZE \in Nat \ {0} /\ BASE \in Nat
    /\ WIDTH \in Nat /\ 2 * (BASE + (NUM_FILES + 1) * FILE_SIZE) < WIDTH
    /\ \A S \in FlagSets : S \subseteq {O_READ, O_WRITE, O_CREAT}
    /\ \A S \in ModeSets : S \subseteq {O_READ, O_WRITE}
    /\ 0 \notin Data /\ Counts \subseteq Nat /\ Offsets \subseteq Int
    /\ MaxOver \in Nat /\ Usage \subseteq Usages

VARIABLES
  procs,  \* live processes
  files,  \* ctx->files of each process
  obj,    \* the file objects: freed or not, and their fields
  inode,  \* super_block->inode
  mem,    \* the bytes of the regular files
  reply,  \* what the last call returned, and the bytes it read
  fault   \* "none", "past" (files overrun) or "wild" (an inode that is none)

vars == <<procs, files, obj, inode, mem, reply, fault>>

REGULAR == 3
File(type, mode, i) == [live |-> TRUE, type |-> type, mode |-> mode, offp |-> 0,
                        ref_count |-> 1, inode |-> i]
NoFile == [live |-> FALSE, type |-> REGULAR, mode |-> {}, offp |-> 0,
           ref_count |-> 0, inode |-> 0]

NoInode(i) == [is_valid |-> FALSE, filename |-> "", mode |-> {},
               max_pos |-> s_pos(i), file_size |-> 0]

StdMode(type) == IF type = 0 THEN {O_READ} ELSE {O_WRITE}

\* The kernel gives its first process the standard streams.
Init ==
    /\ procs = {Init0}
    /\ \E std \in [Fds -> Obj \cup {NULL}] :
          /\ \A fd \in Fds : fd \in StdStreams <=> std[fd] # NULL
          /\ \A f, g \in StdStreams : std[f] = std[g] => f = g
          /\ files = [p \in Proc |-> IF p = Init0 THEN std
                                     ELSE [fd \in Fds |-> NULL]]
          /\ obj = [o \in Obj |->
                IF \E fd \in StdStreams : std[fd] = o
                THEN LET fd == CHOOSE fd \in StdStreams : std[fd] = o
                     IN  File(fd, StdMode(fd), 0)
                ELSE NoFile]
    /\ inode = [i \in Inodes |-> NoInode(i)]
    /\ mem = [a \in Store |-> 0]
    /\ reply = [ret |-> 0, data |-> <<>>]
    /\ fault = "none"

Return(n) == reply' = [ret |-> n, data |-> <<>>]
Refuse(code) == Return(- code) /\ UNCHANGED <<procs, files, obj, inode, mem, fault>>

Least(S) == CHOOSE x \in S : \A y \in S : x <= y
FreeFds(p) == {fd \in Fds : fd >= 3 /\ files[p][fd] = NULL}

\* Descriptors of live processes that point to o.
Refs(o) == {r \in procs \X Fds : files[r[1]][r[2]] = o}

\* A page is taken for an object or a buffer.  Careful processes take none while
\* one of them has a descriptor of a freed object, whose page it may be.
AllocSafe == (\E o \in Obj : Refs(o) # {} /\ ~ obj[o].live) => "reopen" \in Usage
FreeObjs == {o \in Obj : ~ obj[o].live}

-----------------------------------------------------------------------------
(* Opening                                                                   *)

LookupInode(name) ==
    {i \in Inodes : inode[i].is_valid /\ inode[i].filename = name}

\* flat_create_inode takes the first inode that is not valid.
FreeInode == Least({j \in Inodes : ~ inode[j].is_valid})
CreateInode(name, mode) ==
    inode' = [inode EXCEPT ![FreeInode] = [NoInode(FreeInode) EXCEPT
                  !.is_valid = TRUE, !.filename = name, !.mode = mode]]

\* The search for a descriptor runs past the array when none is free.
Take(p, o) ==
    IF FreeFds(p) = {}
    THEN /\ "too_many" \in Usage
         /\ fault' = "past" /\ UNCHANGED <<files, reply>>
    ELSE /\ files' = [files EXCEPT ![p][Least(FreeFds(p))] = o]
         /\ Return(Least(FreeFds(p)))
         /\ UNCHANGED fault

\* A new object of inode i for p; the access modes are compared only after the
\* object was allocated, and it is then never freed.
OpenInode(p, i, mode, flags) ==
    \E o \in FreeObjs :
        /\ AllocSafe
        /\ obj' = [obj EXCEPT ![o] = File(REGULAR, flags, i)]
        /\ IF flags \cap {O_READ, O_WRITE} \subseteq mode THEN Take(p, o)
           ELSE Return(- EACCES) /\ UNCHANGED <<files, fault>>
        /\ UNCHANGED <<procs, mem>>

OpenExisting(p, name, flags) ==
    /\ \E i \in LookupInode(name) : OpenInode(p, i, inode[i].mode, flags)
    /\ UNCHANGED inode

OpenNew(p, name, flags, mode) ==
    /\ LookupInode(name) = {} /\ O_CREAT \in flags
    /\ \E j \in Inodes : ~ inode[j].is_valid
    /\ CreateInode(name, mode)
    /\ OpenInode(p, FreeInode, mode, flags)

OpenFails(name, flags) ==
    /\ LookupInode(name) = {}
    /\ IF O_CREAT \notin flags THEN Refuse(EINVAL)
       ELSE (\A j \in Inodes : inode[j].is_valid) /\ Refuse(ENOMEM)

do_regular_file_open(p, name, flags, mode) ==
    \/ OpenExisting(p, name, flags)
    \/ OpenNew(p, name, flags, mode)
    \/ OpenFails(name, flags)

\* A standard stream that is open is shared under the first free descriptor.
open_standard_IO(p, type) ==
    LET o == files[p][type]
    IN  /\ IF o = NULL
           THEN \E new \in FreeObjs :
                   /\ AllocSafe
                   /\ obj' = [obj EXCEPT ![new] = File(type, StdMode(type), 0)]
                   /\ files' = [files EXCEPT ![p][type] = new]
                   /\ Return(type) /\ UNCHANGED fault
           ELSE /\ obj' = [obj EXCEPT ![o].ref_count = (@ + 1) % WIDTH]
                /\ Take(p, o)
        /\ UNCHANGED <<procs, inode, mem>>

-----------------------------------------------------------------------------
(* Sharing and closing                                                       *)

\* The object at oldfd gets a second descriptor and no second count; what newfd
\* pointed to is forgotten.
fd_dup2(p, oldfd, newfd) ==
    IF oldfd \notin Fds \/ newfd \notin Fds THEN Refuse(EINVAL)
    ELSE IF files[p][oldfd] = NULL THEN Refuse(EINVAL)
    ELSE /\ files' = [files EXCEPT ![p][newfd] = files[p][oldfd]]
         /\ Return(newfd)
         /\ UNCHANGED <<procs, obj, inode, mem, fault>>

\* do_fork copies the context, with its descriptors.
do_fork(p, child) ==
    /\ child \notin procs
    /\ procs' = procs \cup {child}
    /\ files' = [files EXCEPT ![child] = files[p]]
    /\ Return(0)
    /\ UNCHANGED <<obj, inode, mem, fault>>

\* Variant: the count is signed.
DroppedSigned(file, k) ==
    [file EXCEPT !.ref_count = @ - k, !.live = @ /\ file.ref_count > k]

\* k references are dropped, one after the other; 0 is met on the way, or the
\* count of a freed object wraps around.
Dropped(file, k) ==
    [file EXCEPT !.ref_count = (@ - k) % WIDTH,
                 !.live = @ /\ ~ (1 <= file.ref_count /\ file.ref_count <= k)]

WithinBound(o, k) ==
    LET count == Dropped(obj[o], k).ref_count
    IN  2 * count < WIDTH \/ count >= WIDTH - MaxOver

do_close(p, fd) ==
    LET o == files[p][fd]
    IN  IF o = NULL THEN Refuse(EINVAL)
        ELSE /\ WithinBound(o, 1)
             /\ files' = [files EXCEPT ![p][fd] = NULL]
             /\ obj' = [obj EXCEPT ![o] = Dropped(@, 1)]
             /\ Return(0)
             /\ UNCHANGED <<procs, inode, mem, fault>>

\* do_exit closes every descriptor through do_file_exit; the context is unused
\* from then on.
do_exit(p) ==
    LET count(o) == Cardinality({fd \in Fds : files[p][fd] = o})
    IN  /\ \A o \in Obj : WithinBound(o, count(o))
        /\ procs' = procs \ {p}
        /\ obj' = [o \in Obj |-> Dropped(obj[o], count(o))]
        /\ files' = [files EXCEPT ![p] = [fd \in Fds |-> NULL]]
        /\ Return(0)
        /\ UNCHANGED <<inode, mem, fault>>

-----------------------------------------------------------------------------
(* Reading and writing                                                       *)

\* offp as the int that flat_read and flat_write take.
Int32(n) == IF 2 * n < WIDTH THEN n ELSE n - WIDTH

Byte(a) == IF a \in Store THEN mem[a] ELSE 0

\* What a read of count at offset at of inode i brings.
flat_read(i, at, count) ==
    LET left == inode[i].file_size - at
        size == IF left <= 0 THEN 0 ELSE IF count > left THEN left ELSE count
    IN  [k \in 1 .. size |-> Byte(s_pos(i) + at + k - 1)]

\* The bytes and the inode after buf is written at offset at.
Written(i, at, buf) ==
    [a \in Store |-> IF a - s_pos(i) - at + 1 \in DOMAIN buf
                     THEN buf[a - s_pos(i) - at + 1] ELSE mem[a]]
Extended(i, at, count) ==
    LET end == s_pos(i) + at + count
        max == IF end > inode[i].max_pos THEN end ELSE inode[i].max_pos
    IN  [inode[i] EXCEPT !.max_pos = max, !.file_size = max - s_pos(i)]

\* do_read_regular on o from offset offp: a code, or the bytes.
ReadOut(o, offp, count) ==
    LET i == obj[o].inode
    IN  IF (s_pos(i) + offp + count) % WIDTH > e_pos(i)
        THEN [ret |-> - EINVAL, data |-> <<>>]
        ELSE LET data == flat_read(i, Int32(offp), count)
             IN  [ret |-> Len(data), data |-> data]

\* do_write_regular of buf, with the offset moved on; objs are the objects as
\* they are when it is called.
do_write_regular(objs, o, buf) ==
    LET i == objs[o].inode
        offp == objs[o].offp
        fits == (s_pos(i) + offp + Len(buf)) % WIDTH <= e_pos(i)
    IN  IF fits
        THEN /\ obj' = [objs EXCEPT ![o].offp = (@ + Len(buf)) % WIDTH]
             /\ mem' = Written(i, Int32(offp), buf)
             /\ inode' = [inode EXCEPT ![i] = Extended(i, Int32(offp), Len(buf))]
             /\ Return(Len(buf))
        ELSE /\ obj' = objs
             /\ Return(- EINVAL)
             /\ UNCHANGED <<mem, inode>>

\* The keyboard brings one key.
do_file_read(p, fd, count) ==
    LET o == files[p][fd]
        out == ReadOut(o, obj[o].offp, count)
    IN  IF o = NULL THEN Refuse(EINVAL)
        ELSE IF O_READ \notin obj[o].mode THEN Refuse(EACCES)
        ELSE /\ IF obj[o].type = REGULAR
                THEN /\ reply' = out
                     /\ obj' = [obj EXCEPT ![o].offp = (@ + Len(out.data)) % WIDTH]
                ELSE /\ \E key \in Data : reply' = [ret |-> 1, data |-> <<key>>]
                     /\ UNCHANGED obj
             /\ UNCHANGED <<procs, files, inode, mem, fault>>

\* A write to the console prints count bytes.
do_file_write(p, fd, buf) ==
    LET o == files[p][fd]
    IN  IF o = NULL THEN Refuse(EINVAL)
        ELSE IF O_WRITE \notin obj[o].mode THEN Refuse(EACCES)
        ELSE /\ IF obj[o].type = REGULAR THEN do_write_regular(obj, o, buf)
                ELSE Return(Len(buf)) /\ UNCHANGED <<obj, inode, mem>>
             /\ UNCHANGED <<procs, files, fault>>

\* From the end of the file the offset becomes an address.
SeekTarget(o, offset, whence) ==
    CASE whence = "SEEK_SET" -> offset
      [] whence = "SEEK_CUR" -> obj[o].offp + offset
      [] whence = "SEEK_END" -> inode[obj[o].inode].max_pos + offset

\* Variant: every seek is checked as one from the start.
SeekPastEndSet(o, offset, whence) ==
    s_pos(obj[o].inode) + offset > e_pos(obj[o].inode)

SeekPastEnd(o, offset, whence) ==
    LET i == obj[o].inode
    IN  CASE whence = "SEEK_SET" -> s_pos(i) + offset > e_pos(i)
          [] whence = "SEEK_CUR" -> ((s_pos(i) + obj[o].offp) % WIDTH) + offset > e_pos(i)
          [] whence = "SEEK_END" -> inode[i].max_pos + offset > e_pos(i)

do_lseek(p, fd, offset, whence) ==
    LET o == files[p][fd]
        to == SeekTarget(o, offset, whence) % WIDTH
    IN  IF o = NULL THEN Refuse(EINVAL)
        ELSE IF obj[o].type # REGULAR THEN Refuse(EINVAL)
        ELSE IF SeekPastEnd(o, offset, whence) THEN Refuse(EINVAL)
        ELSE /\ SeekTarget(o, offset, whence) < 0 => "seek_negative" \in Usage
             /\ whence = "SEEK_END" => "seek_end" \in Usage
             /\ obj' = [obj EXCEPT ![o].offp = to]
             /\ Return(to)
             /\ UNCHANGED <<procs, files, inode, mem, fault>>

\* Variant: the offset is not put back.
AfterReadMoved(in, from, out) ==
    [obj EXCEPT ![in].offp = ((IF from = <<>> THEN @ ELSE from[1]) + Len(out.data)) % WIDTH]

\* The input's object when the read is done: its offset moved on, or, with an
\* offset of the caller's, put back, unless the read failed.
AfterRead(in, from, out) ==
    IF out.ret >= 0
    THEN IF from = <<>> THEN [obj EXCEPT ![in].offp = (@ + Len(out.data)) % WIDTH] ELSE obj
    ELSE IF from = <<>> THEN obj ELSE [obj EXCEPT ![in].offp = from[1] % WIDTH]

do_sendfile(p, outfd, infd, from, count) ==
    LET out == files[p][outfd]
        in == files[p][infd]
        read == ReadOut(in, IF from = <<>> THEN obj[in].offp ELSE from[1] % WIDTH, count)
    IN  IF out = NULL \/ in = NULL THEN Refuse(EINVAL)
        ELSE IF O_READ \notin obj[in].mode THEN Refuse(EACCES)
        ELSE IF O_WRITE \notin obj[out].mode THEN Refuse(EACCES)
        ELSE IF obj[in].type # REGULAR \/ obj[out].type # REGULAR
        THEN /\ "sendfile_std" \in Usage
             /\ fault' = "wild" /\ UNCHANGED <<procs, files, obj, inode, mem, reply>>
        ELSE /\ AllocSafe
             /\ from # <<>> /\ from[1] < 0 => "seek_negative" \in Usage
             /\ IF read.ret < 0
                THEN /\ "sendfile_fails" \in Usage
                     /\ obj' = AfterRead(in, from, read)
                     /\ Return(read.ret) /\ UNCHANGED <<inode, mem>>
                ELSE do_write_regular(AfterRead(in, from, read), out, read.data)
             /\ UNCHANGED <<procs, files, fault>>

-----------------------------------------------------------------------------
(* The specification                                                         *)

Open(p) == \E name \in Names, flags \in FlagSets, mode \in ModeSets :
              do_regular_file_open(p, name, flags, mode)
OpenStd(p) == \E type \in StdStreams : open_standard_IO(p, type)
Dup2(p) == \E oldfd \in Fds \cup {-1}, newfd \in NewFds : fd_dup2(p, oldfd, newfd)
Fork(p) == \E child \in Proc : do_fork(p, child)
Close(p) == \E fd \in Fds : do_close(p, fd)
Read(p) == \E fd \in Fds, count \in Counts : do_file_read(p, fd, count)
Write(p) == \E fd \in Fds, count \in Counts, d \in Data :
               do_file_write(p, fd, [k \in 1 .. count |-> d])
Lseek(p) == \E fd \in Fds, offset \in Offsets, whence \in Whences :
               do_lseek(p, fd, offset, whence)
\* The offset argument of sendfile: NULL, or the address of a long.
OffsetArgs == {<<>>} \cup {<<offset>> : offset \in Offsets}
Sendfile(p) == \E outfd, infd \in Fds, from \in OffsetArgs, count \in Counts :
                  do_sendfile(p, outfd, infd, from, count)

\* do_syscall and do_file_open, for the calls on files.
Call(p) ==
    \/ Open(p) \/ OpenStd(p) \/ Dup2(p) \/ Fork(p) \/ do_exit(p) \/ Close(p)
    \/ Read(p) \/ Write(p) \/ Lseek(p) \/ Sendfile(p)

Next == fault = "none" /\ \E p \in procs : Call(p)
Spec == Init /\ [][Next]_vars
=============================================================================
