------------------------------- MODULE MsgQueue -------------------------------
(***************************************************************************)
(* The message queues of gemOS, Assignment_2/gemOs/src/msg_queue.c, with   *)
(* the fork and exit of entry.c that change who is a member, and as much   *)
(* of the descriptor table as these walk over.                             *)
(*                                                                         *)
(* A queue knows its members by position: pids[i] is the member in slot i, *)
(* and blocked[i][j] says that slot i takes nothing from slot j.  Messages *)
(* lie in one buffer for all members, in the order they were sent.         *)
(*                                                                         *)
(* Kernel code runs with interrupts off, so every system call is one step  *)
(* of whichever process runs.                                              *)
(***************************************************************************)
EXTENDS Integers, Sequences, SequencesExt, FiniteSetsExt, Ranks

CONSTANTS
  MAX_PROCESSES,   \* slots of the context table, swapper included
  MAX_OPEN_FILES,  \* slots of a descriptor table
  MAX_MEMBERS,     \* slots of a queue
  BufferSlots,     \* messages that fit into the page of the buffer
  MaxQueues,       \* bound: queues ever created
  Usage            \* what the programs do beyond the careful core

Pid   == 1 .. MAX_PROCESSES - 1
Fd    == 3 .. MAX_OPEN_FILES - 1      \* above stdin, stdout and stderr
Slot  == 0 .. MAX_MEMBERS - 1
Queue == 1 .. MaxQueues
InitPid == 1                          \* the first process

NoFile  == 0        \* values of a descriptor beside the queues
Regular == -1

EINVAL  == 1

(***************************************************************************)
(* Uses of the calls that a program may or may not make: closing a queue,  *)
(* calls by a process that is no member, closing a descriptor that is not  *)
(* open, exiting, closing a file opened before a queue, naming the process *)
(* 0 or oneself, and filling the buffer or the descriptor table.           *)
(***************************************************************************)
Usages == {"close", "stranger", "close_unopened", "exit", "close_file",
           "pid_zero", "self", "fill_buffer", "fill_table"}

ASSUME QueueAssumption ==
    /\ MAX_PROCESSES \in Nat /\ MAX_PROCESSES >= 2
    /\ MAX_OPEN_FILES \in Nat /\ MAX_OPEN_FILES >= 4
    /\ MAX_MEMBERS \in Nat /\ MAX_MEMBERS >= 2
    /\ BufferSlots \in Nat /\ MaxQueues \in Nat
    /\ Usage \subseteq Usages

VARIABLES
  alive,     \* the contexts that are not UNUSED
  files,     \* exec_context.files: what each descriptor names
  created,   \* how many queues there have been
  refs,      \* file.ref_count of each queue's file object; 0: freed
  pids,      \* msg_queue_info.pids, 0 for nobody
  blocked,   \* msg_queue_info.blocked: the slots each slot takes nothing from
  buffer,    \* msg_queue_info.msg_buffer up to the first dummy
  read,      \* msg_queue_info.read: the messages that were received
  mangled,   \* whether the pointer to the buffer was overwritten
  reply,     \* the last call, whose it was, what it returned, and whom a
             \* received message was from
  fault      \* undefined behaviour met: "none", "null", "freed", "wild", "overrun"

procVars  == <<alive, files>>
mailVars  == <<buffer, read>>
queueVars == <<created, refs, pids, blocked, mailVars, mangled>>
vars      == <<procVars, queueVars, reply, fault>>

Init ==
    /\ alive = {InitPid}
    /\ files = [p \in Pid |-> [fd \in Fd |-> NoFile]]
    /\ created = 0
    /\ refs = [q \in Queue |-> 0]
    /\ pids = [q \in Queue |-> [s \in Slot |-> 0]]
    /\ blocked = [q \in Queue |-> [s \in Slot |-> {}]]
    /\ buffer = [q \in Queue |-> <<>>]
    /\ read = [q \in Queue |-> {}]
    /\ mangled = [q \in Queue |-> FALSE]
    /\ reply = [call |-> "none", to |-> 0, value |-> 0, from |-> 0]
    /\ fault = "none"

-----------------------------------------------------------------------------
Running(p) == fault = "none" /\ p \in alive

Returns(call, p, v, from) ==
    reply' = [call |-> call, to |-> p, value |-> v, from |-> from] /\ UNCHANGED fault

Answer(call, p, v) == Returns(call, p, v, 0)

Fails(f) == fault' = f /\ UNCHANGED <<procVars, queueVars, reply>>

SlotsOf(q, p) == {s \in Slot : pids[q][s] = p}
Member(q, p)  == SlotsOf(q, p) # {}

\* A call of p through a descriptor of q, whose file object is allocated.
Through(p, fd, q) ==
    /\ Running(p)
    /\ files[p][fd] = q /\ refs[q] > 0
    /\ Member(q, p) \/ "stranger" \in Usage

\* The same, for a call that reads the buffer.
Mailing(p, fd, q) == Through(p, fd, q) /\ ~mangled[q]

\* Every call but close asks for an open descriptor of a message queue.
NotAQueue(p, fd) ==
    /\ Running(p)
    /\ files[p][fd] \in {NoFile, Regular}
    /\ Answer("no_queue", p, -EINVAL)
    /\ UNCHANGED <<procVars, queueVars>>

\* The descriptors that the fork and exit handlers look at: up to the first
\* one that is free.
Scanned(p) == {fd \in Fd : \A e \in 3 .. fd : files[p][e] # NoFile}

QueuesOf(p, fds) == {files[p][fd] : fd \in fds} \cap Queue

\* A call, fork or exit of p that looks at a file another's exit has freed.
Dangling(p) ==
    /\ Running(p)
    /\ \E q \in QueuesOf(p, Fd) : refs[q] = 0
    /\ Fails("freed")

\* A call that reads the buffer through the overwritten pointer.
Astray(p, fd) ==
    /\ Running(p)
    /\ files[p][fd] \in Queue /\ mangled[files[p][fd]]
    /\ Fails("wild")

(***************************************************************************)
(* Descriptors.  The search for a free one knows no end of the table.      *)
(***************************************************************************)
FreeFds(p) == {fd \in Fd : files[p][fd] = NoFile}

NewFd(call, p, f) ==
    /\ FreeFds(p) # {}
    /\ files' = [files EXCEPT ![p][Min(FreeFds(p))] = f]
    /\ Answer(call, p, Min(FreeFds(p)))

\* do_regular_file_open, as far as the table goes.
OpenFile(p) ==
    /\ Running(p)
    /\ NewFd("open", p, Regular)
    /\ UNCHANGED <<alive, queueVars>>

\* do_close; a queue has no fops and is refused.  It has no return statement:
\* what close returned is still in eax.
CloseFile(p, fd) ==
    /\ "close_file" \in Usage
    /\ Running(p)
    /\ files[p][fd] = Regular
    /\ files' = [files EXCEPT ![p][fd] = NoFile]
    /\ Answer("close_file", p, 0)
    /\ UNCHANGED <<alive, queueVars>>

TableFull(p) ==
    /\ "fill_table" \in Usage
    /\ Running(p)
    /\ FreeFds(p) = {}
    /\ Fails("overrun")

CreateMsgQueue(p) ==
    /\ Running(p)
    /\ created < MaxQueues
    /\ created' = created + 1
    /\ NewFd("create", p, created')
    /\ refs' = [refs EXCEPT ![created'] = 1]
    /\ pids' = [pids EXCEPT ![created'][0] = p]
    /\ UNCHANGED <<alive, blocked, mailVars, mangled>>

(***************************************************************************)
(* Messages.                                                               *)
(***************************************************************************)
\* Senders put their own pid into from_pid, as every test program does.
Message == [from : Pid, to : Pid \cup {0}]

\* The slots that take nothing from p.  For one that is no member the index
\* into the matrix was never stored, and what is read there may be anything.
Deaf(q, p) == IF Member(q, p)
              THEN {{s \in Slot : Min(SlotsOf(q, p)) \in blocked[q][s]}}
              ELSE SUBSET Slot

\* Slots in front of the first empty one.
Occupied(q) == {s \in Slot : \A t \in 0 .. s : pids[q][t] # 0}

Receivers(q, p, deaf) == (Occupied(q) \ SlotsOf(q, p)) \ deaf

\* One message for each receiver, in the order of their slots.
Copies(q, p, slots) ==
    [k \in 1 .. Cardinality(slots) |-> [from |-> p, to |-> pids[q][Nth(slots, k)]]]

\* Variant: the search stops one slot early.
StoreOver(b, ms) == IF b = <<>> THEN ms ELSE Front(b) \o ms

Store(b, ms) == b \o ms

\* The messages ms are stored in the free slots, if there are enough.
Deliver(p, q, ms) ==
    /\ Len(buffer[q]) + Len(ms) <= BufferSlots
    /\ buffer' = [buffer EXCEPT ![q] = Store(@, ms)]
    /\ Answer("send", p, Len(ms))
    /\ UNCHANGED <<procVars, created, refs, pids, blocked, read, mangled>>

Broadcast(p, fd, q) ==
    /\ Mailing(p, fd, q)
    /\ Len(buffer[q]) < BufferSlots
    /\ \E deaf \in Deaf(q, p) : Deliver(p, q, Copies(q, p, Receivers(q, p, deaf)))

\* Process 0 is found in an empty slot.
Send(p, fd, q, to) ==
    /\ Mailing(p, fd, q)
    /\ Len(buffer[q]) < BufferSlots
    /\ \E deaf \in Deaf(q, p) :
          IF Member(q, to) /\ Min(SlotsOf(q, to)) \notin deaf
          THEN Deliver(p, q, <<[from |-> p, to |-> to]>>)
          ELSE Answer("send", p, -EINVAL) /\ UNCHANGED <<procVars, queueVars>>

\* The search for a free slot, and a broadcast to more members than there are
\* free slots, run off the page.
Overflow(p, fd, q) ==
    /\ "fill_buffer" \in Usage
    /\ Mailing(p, fd, q)
    /\ \/ Len(buffer[q]) = BufferSlots
       \/ \E deaf \in Deaf(q, p) :
             Len(buffer[q]) + Cardinality(Receivers(q, p, deaf)) > BufferSlots
    /\ Fails("overrun")

Pending(q, p) == {i \in DOMAIN buffer[q] : buffer[q][i].to = p /\ i \notin read[q]}

\* read[i] == 1 compares, and stores nothing.
MarkRead(q, i) == read[q]

Receive(p, fd, q) ==
    /\ Mailing(p, fd, q)
    /\ IF Pending(q, p) = {}
       THEN Answer("receive", p, 0) /\ UNCHANGED read
       ELSE LET i == Min(Pending(q, p))
            IN  /\ Returns("receive", p, 1, buffer[q][i].from)
                /\ read' = [read EXCEPT ![q] = MarkRead(q, i)]
    /\ UNCHANGED <<procVars, created, refs, pids, blocked, buffer, mangled>>

GetMsgCount(p, fd, q) ==
    /\ Mailing(p, fd, q)
    /\ Answer("count", p, Cardinality(Pending(q, p)))
    /\ UNCHANGED <<procVars, queueVars>>

(***************************************************************************)
(* Members.                                                                *)
(***************************************************************************)
\* The count is the part of the information that is kept.
GetMemberInfo(p, fd, q) ==
    /\ Through(p, fd, q)
    /\ Answer("info", p, Cardinality({s \in Slot : pids[q][s] # 0}))
    /\ UNCHANGED <<procVars, queueVars>>

BlockSlot(b, receiver, sender) == [b EXCEPT ![receiver] = @ \cup {sender}]

\* The last slots that match; process 0 matches an empty one.
Block(p, fd, q, other) ==
    /\ Through(p, fd, q)
    /\ IF Member(q, p) /\ Member(q, other)
       THEN /\ blocked' = [blocked EXCEPT ![q] =
                    BlockSlot(@, Max(SlotsOf(q, p)), Max(SlotsOf(q, other)))]
            /\ Answer("block", p, 0)
       ELSE Answer("block", p, -EINVAL) /\ UNCHANGED blocked
    /\ UNCHANGED <<procVars, created, refs, pids, mailVars, mangled>>

\* Slots from s on are moved down by one.
ShiftFrom(ps, s) ==
    [t \in Slot |-> IF t < s THEN ps[t]
                    ELSE IF t + 1 \in Slot THEN ps[t + 1] ELSE 0]

\* close: whatever slot p is in, the search leaves 1 in indice.
CloseSlot(q, p) == 1

\* Variant: the slot is emptied and the others stay.
EmptySlot(ps, s) == [ps EXCEPT ![s] = 0]

RemoveSlot(ps, s) == ShiftFrom(ps, s)

MsgQueueClose(p, fd, q) ==
    /\ "close" \in Usage
    /\ Through(p, fd, q)
    /\ Member(q, p)
    /\ pids' = [pids EXCEPT ![q] = RemoveSlot(@, CloseSlot(q, p))]
    /\ Answer("close", p, 0)
    /\ UNCHANGED <<procVars, created, refs, blocked, mailVars, mangled>>

\* indice is -1 for a process that is no member: the upper half of the
\* pointer in front of pids becomes pids[0].
CloseStranger(p, fd, q) ==
    /\ Through(p, fd, q)
    /\ ~Member(q, p)
    /\ mangled' = [mangled EXCEPT ![q] = pids[q][0] # 0]
    /\ pids' = [pids EXCEPT ![q] = RemoveSlot(@, 0)]
    /\ Answer("close", p, 0)
    /\ UNCHANGED <<procVars, created, refs, blocked, mailVars>>

\* close does not ask whether the descriptor is open.
CloseUnopened(p, fd) ==
    /\ "close_unopened" \in Usage
    /\ Running(p)
    /\ files[p][fd] = NoFile
    /\ Fails("null")

\* Variants: the child takes every empty slot, takes its parent's slot, or
\* takes the one after the last.
JoinedAll(ps, child) == [s \in Slot |-> IF ps[s] = 0 THEN child ELSE ps[s]]

JoinedFirst(ps, child) == [ps EXCEPT ![0] = child]

JoinedBeyond(ps, child) ==
    (Min({s \in Slot : ps[s] = 0} \cup {MAX_MEMBERS}) :> child) @@ ps

\* do_add_child_to_msg_queue: the first empty slot, if there is one.
Joined(ps, child) ==
    LET empty == {s \in Slot : ps[s] = 0}
    IN  IF empty = {} THEN ps ELSE [ps EXCEPT ![Min(empty)] = child]

\* do_fork.  The file objects are not told of the new descriptors.
Fork(p) ==
    /\ Running(p)
    /\ Pid \ alive # {}
    /\ \A q \in QueuesOf(p, Scanned(p)) : refs[q] > 0
    /\ LET child == Min(Pid \ alive)
       IN  /\ alive' = alive \cup {child}
           /\ files' = [files EXCEPT ![child] = files[p]]
           /\ pids' = [q \in Queue |-> IF q \in QueuesOf(p, Scanned(p))
                                       THEN Joined(pids[q], child) ELSE pids[q]]
           /\ Answer("fork", p, child)
    /\ UNCHANGED <<created, refs, blocked, mailVars, mangled>>

\* Variant: the file objects outlive the process that opened them.
DropNone(rc, closed) == rc

Drop(rc, closed) == [q \in Queue |-> IF q \in closed THEN rc[q] - 1 ELSE rc[q]]

\* do_exit: do_msg_queue_cleanup closes the queues p is a member of, then
\* do_file_exit drops every descriptor, and with the count of a file object
\* that one process opened the object.
Exit(p) ==
    /\ "exit" \in Usage
    /\ Running(p)
    /\ \A q \in QueuesOf(p, Fd) : refs[q] > 0
    /\ alive' = alive \ {p}
    /\ pids' = [q \in Queue |->
                  IF q \in QueuesOf(p, Scanned(p)) /\ Member(q, p)
                  THEN RemoveSlot(pids[q], CloseSlot(q, p)) ELSE pids[q]]
    /\ refs' = Drop(refs, QueuesOf(p, Fd))
    /\ UNCHANGED <<files, created, blocked, mailVars, mangled, reply, fault>>

-----------------------------------------------------------------------------
\* The processes that p names in a call.
Named(p) == {other \in Pid \cup {0} : /\ other = 0 => "pid_zero" \in Usage
                                      /\ other = p => "self" \in Usage}

MailStep(p, fd, q) ==
    \/ Broadcast(p, fd, q)
    \/ \E to \in Named(p) : Send(p, fd, q, to)
    \/ Overflow(p, fd, q)
    \/ Receive(p, fd, q)
    \/ GetMsgCount(p, fd, q)

MemberStep(p, fd, q) ==
    \/ GetMemberInfo(p, fd, q)
    \/ \E other \in Named(p) : Block(p, fd, q, other)
    \/ MsgQueueClose(p, fd, q)
    \/ CloseStranger(p, fd, q)

FileStep(p) ==
    \/ CreateMsgQueue(p)
    \/ OpenFile(p)
    \/ TableFull(p)
    \/ Dangling(p)
    \/ \E fd \in Fd : CloseFile(p, fd) \/ NotAQueue(p, fd) \/ Astray(p, fd)
                    \/ CloseUnopened(p, fd)

Next ==
    \E p \in Pid :
        \/ FileStep(p)
        \/ Fork(p)
        \/ Exit(p)
        \/ \E fd \in Fd, q \in Queue : MailStep(p, fd, q) \/ MemberStep(p, fd, q)

Spec == Init /\ [][Next]_vars
=============================================================================
