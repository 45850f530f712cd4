------------------------------ MODULE FlatFiles ------------------------------
(***************************************************************************)
(* What the calls on files promise: a file is a name with access modes and *)
(* a sequence of bytes; opening one makes a description, a mode and a      *)
(* position, which dup2 and fork share and which lasts as long as some     *)
(* descriptor refers to it.  No counts, no inodes, no memory.              *)
(***************************************************************************)
EXTENDS Integers, Sequences

CONSTANTS Proc, Init0, Id, NULL, Fds, StdStreams, Names, FILE_SIZE,
          FlagSets, ModeSets, Data, Counts, Offsets, NewFds,
          O_READ, O_WRITE, O_CREAT, REGULAR, EINVAL, EACCES, ENOMEM

VARIABLES
  procs,    \* live processes
  open,     \* process -> descriptor -> description, or NULL
  descr,    \* type, mode, file and position of each description
  content,  \* of each name: NoFile, or its modes and bytes
  reply     \* what the last call returned, and the bytes it read

vars == <<procs, open, descr, content, reply>>

Closed == [type |-> REGULAR, mode |-> {}, name |-> "", pos |-> 0]
NoFile == [there |-> FALSE, mode |-> {}, bytes |-> <<>>]

Init ==
    /\ procs = {Init0}
    /\ \A fd \in Fds : fd \in StdStreams <=> open[Init0][fd] # NULL
    /\ content = [n \in Names |-> NoFile]
    /\ reply = [ret |-> 0, data |-> <<>>]

Reply(n) == reply' = [ret |-> n, data |-> <<>>]
Refuse(code) == Reply(- code) /\ UNCHANGED <<procs, open, descr, content>>

\* The descriptions d that the descriptors table of the processes ps keep alive.
Kept(d, ps, table) ==
    [o \in Id |-> IF \E p \in ps, fd \in Fds : table[p][fd] = o THEN d[o] ELSE Closed]

\* The lowest descriptor from 3 on that is free.
Lowest(p, fd) == /\ fd >= 3 /\ open[p][fd] = NULL
                 /\ \A g \in Fds : 3 <= g /\ g < fd => open[p][g] # NULL

\* A new description under descriptor fd.
Install(p, fd, new) ==
    \E o \in Id :
        /\ open' = [open EXCEPT ![p][fd] = o]
        /\ descr' = Kept([descr EXCEPT ![o] = new], procs, open')
        /\ \A q \in procs, g \in Fds : open[q][g] # o

Open(p, name, flags, mode) ==
    LET old == content[name]
        file == IF old.there THEN old
                ELSE [there |-> TRUE, mode |-> mode, bytes |-> <<>>]
        create == content' = [content EXCEPT ![name] = file] /\ UNCHANGED procs
    IN  \/ Refuse(EINVAL) /\ ~ old.there /\ O_CREAT \notin flags
        \/ Refuse(ENOMEM) /\ ~ old.there
        \/ /\ Reply(- EACCES) /\ ~ (flags \ {O_CREAT}) \subseteq file.mode
           /\ create /\ UNCHANGED <<open, descr>>
        \/ /\ reply'.ret \in Fds /\ Lowest(p, reply'.ret) /\ Reply(reply'.ret)
           /\ (flags \ {O_CREAT}) \subseteq file.mode
           /\ old.there \/ O_CREAT \in flags
           /\ Install(p, reply'.ret,
                      [type |-> REGULAR, mode |-> flags, name |-> name, pos |-> 0])
           /\ create

OpenStd(p, type) ==
    \/ /\ open[p][type] = NULL /\ Reply(type)
       /\ Install(p, type, [type |-> type, name |-> "", pos |-> 0,
                            mode |-> IF type = 0 THEN {O_READ} ELSE {O_WRITE}])
       /\ UNCHANGED <<procs, content>>
    \/ /\ open[p][type] # NULL
       /\ reply'.ret \in Fds /\ Lowest(p, reply'.ret) /\ Reply(reply'.ret)
       /\ open' = [open EXCEPT ![p][reply'.ret] = open[p][type]]
       /\ UNCHANGED <<procs, descr, content>>

Dup2(p, old, new) ==
    \/ Refuse(EINVAL) /\ (old \in Fds => open[p][old] = NULL)
    \/ /\ Reply(new) /\ old \in Fds /\ open[p][old] # NULL
       /\ open' = [open EXCEPT ![p][new] = open[p][old]]
       /\ descr' = Kept(descr, procs, open')
       /\ UNCHANGED <<procs, content>>

Fork(p, child) ==
    /\ Reply(0) /\ child \notin procs
    /\ procs' = procs \cup {child}
    /\ open' = [open EXCEPT ![child] = open[p]]
    /\ UNCHANGED <<descr, content>>

Exit(p) ==
    /\ Reply(0)
    /\ procs' = procs \ {p}
    /\ open' = [open EXCEPT ![p] = [fd \in Fds |-> NULL]]
    /\ descr' = Kept(descr, procs', open')
    /\ UNCHANGED content

Close(p, fd) ==
    /\ Reply(0)
    /\ open' = [open EXCEPT ![p][fd] = NULL]
    /\ descr' = Kept(descr, procs, open')
    /\ UNCHANGED <<procs, content>>

-----------------------------------------------------------------------------
(* Calls that leave the descriptors alone                                    *)

\* The bytes from pos on, at most count of them.
Slice(bytes, pos, count) ==
    SubSeq(bytes, pos + 1, IF pos + count < Len(bytes) THEN pos + count ELSE Len(bytes))

\* buf at pos, the gap before it filled with zeros.
Overwrite(bytes, pos, buf) ==
    [k \in 1 .. (IF pos + Len(buf) > Len(bytes) THEN pos + Len(buf) ELSE Len(bytes)) |->
        IF pos < k /\ k <= pos + Len(buf) THEN buf[k - pos]
        ELSE IF k <= Len(bytes) THEN bytes[k] ELSE 0]

Read(p, fd, count) ==
    LET o == open[p][fd]
        d == descr[o]
        data == Slice(content[d.name].bytes, d.pos, count)
    IN  \/ Refuse(EACCES) /\ O_READ \notin d.mode
        \/ /\ \E key \in Data : reply' = [ret |-> 1, data |-> <<key>>]
           /\ O_READ \in d.mode /\ d.type # REGULAR
           /\ UNCHANGED <<descr, content>>
        \/ /\ O_READ \in d.mode /\ d.type = REGULAR
           /\ \/ Refuse(EINVAL) /\ d.pos + count > FILE_SIZE
              \/ /\ d.pos + count <= FILE_SIZE
                 /\ reply' = [ret |-> Len(data), data |-> data]
                 /\ descr' = [descr EXCEPT ![o].pos = @ + Len(data)]
                 /\ UNCHANGED content

\* buf is written under o, whose position may just have been moved, as in ds.
WriteAt(ds, o, buf) ==
    LET d == ds[o]
    IN  IF d.pos + Len(buf) > FILE_SIZE
        THEN Reply(- EINVAL) /\ descr' = ds /\ UNCHANGED content
        ELSE /\ Reply(Len(buf))
             /\ content' = [content EXCEPT ![d.name].bytes = Overwrite(@, d.pos, buf)]
             /\ descr' = [ds EXCEPT ![o].pos = @ + Len(buf)]

Write(p, fd, buf) ==
    LET o == open[p][fd]
    IN  \/ Refuse(EACCES) /\ O_WRITE \notin descr[o].mode
        \/ /\ O_WRITE \in descr[o].mode
           /\ IF descr[o].type = REGULAR THEN WriteAt(descr, o, buf)
              ELSE Reply(Len(buf)) /\ UNCHANGED <<descr, content>>

Seek(p, fd, from, offset) ==
    LET o == open[p][fd]
        to == offset + (IF from = "here" THEN descr[o].pos ELSE 0)
    IN  \/ Refuse(EINVAL) /\ (descr[o].type # REGULAR \/ to > FILE_SIZE)
        \/ /\ to \in 0 .. FILE_SIZE /\ Reply(to) /\ descr[o].type = REGULAR
           /\ descr' = [descr EXCEPT ![o].pos = to]
           /\ UNCHANGED content

\* What follows the position of infd, or an offset that leaves it alone, is written
\* to outfd.
Send(p, outfd, infd, from, count) ==
    LET out == open[p][outfd]
        in == open[p][infd]
        d == descr[in]
        at == IF from = <<>> THEN d.pos ELSE from[1]
        data == Slice(content[d.name].bytes, at, count)
    IN  \/ Refuse(EACCES) /\ (O_READ \notin d.mode \/ O_WRITE \notin descr[out].mode)
        \/ /\ O_READ \in d.mode /\ O_WRITE \in descr[out].mode
           /\ d.type = REGULAR /\ descr[out].type = REGULAR
           /\ 0 <= at /\ at + count <= FILE_SIZE
           /\ WriteAt(IF from = <<>> THEN [descr EXCEPT ![in].pos = @ + Len(data)]
                      ELSE descr, out, data)

Used(p) == {fd \in Fds : open[p][fd] # NULL}

Next == \E p \in procs :
    \/ Refuse(EINVAL) /\ Used(p) # Fds   \* an empty descriptor
    \/ \E name \in Names, flags \in FlagSets, mode \in ModeSets : Open(p, name, flags, mode)
    \/ \E type \in StdStreams : OpenStd(p, type)
    \/ \E old \in Fds \cup {-1}, new \in NewFds : Dup2(p, old, new)
    \/ \E child \in Proc : Fork(p, child)
    \/ Exit(p)
    \/ \E fd \in Used(p) : Close(p, fd)
    \/ UNCHANGED <<procs, open>> /\ \E fd \in Used(p) :
          \/ \E count \in Counts : \/ Read(p, fd, count)
                                   \/ \E d \in Data : Write(p, fd, [k \in 1 .. count |-> d])
          \/ \E offset \in Offsets, from \in {"start", "here"} : Seek(p, fd, from, offset)
          \/ \E infd \in Used(p), from \in {<<>>} \cup {<<at>> : at \in Offsets}, count \in Counts :
                Send(p, fd, infd, from, count)

Spec == Init /\ [][Next]_vars
=============================================================================
