-------------------------- MODULE MsgQueueProperties --------------------------
(***************************************************************************)
(* What the message queues must guarantee.                                 *)
(***************************************************************************)
EXTENDS MsgQueue

CallName == {"none", "no_queue", "open", "close_file", "create", "send", "receive",
             "count", "info", "block", "close", "fork"}

\* Every variable of the message queue model (files of exec_context, file and
\* msg_queue_info) keeps its type.
TypeOK ==
    /\ alive \subseteq Pid
    /\ files \in [Pid -> [Fd -> Queue \cup {NoFile, Regular}]]
    /\ created \in 0 .. MaxQueues
    /\ refs \in [Queue -> {0, 1}]
    /\ pids \in [Queue -> [Slot -> Pid \cup {0}]]
    /\ blocked \in [Queue -> [Slot -> SUBSET Slot]]
    /\ buffer \in [Queue -> Seq(Message)]
    /\ read \in [Queue -> SUBSET Nat]
    /\ mangled \in [Queue -> BOOLEAN]
    /\ reply \in [call : CallName, to : Pid \cup {0}, value : Int, from : Pid \cup {0}]
    /\ fault \in {"none", "null", "freed", "wild", "overrun"}

-----------------------------------------------------------------------------
MembersOf(q) == {p \in Pid : Member(q, p)}

\* Without holes in descriptor tables, and until somebody closes or exits, the
\* members of a queue are exactly the processes that hold a descriptor of it:
\* the member list that create and the fork handler keep agrees with the
\* descriptors that fork copies.
MembersHoldDescriptors ==
    \A p \in alive, q \in Queue : Member(q, p) <=> q \in QueuesOf(p, Fd)

\* However the calls are used, a queue whose file is allocated has only living
\* members that can reach it: no slot is left to a process that exited, for a
\* later one with the same pid to inherit.
MembersLive ==
    \A q \in Queue : refs[q] > 0 =>
        \A p \in MembersOf(q) : p \in alive /\ q \in QueuesOf(p, Fd)

\* However the calls are used, no process has two slots of a queue, so that a
\* broadcast reaches nobody twice.
MembersDistinct ==
    \A q \in Queue, s, t \in Slot :
        pids[q][s] = pids[q][t] /\ pids[q][s] # 0 => s = t

\* The members stand in the first slots: broadcast, which stops at the first
\* empty one, passes over nobody, after any sequence of forks and closes.
MembersPacked ==
    \A q \in Queue, s, t \in Slot : pids[q][s] = 0 /\ s < t => pids[q][t] = 0

\* However the calls are used, no queue whose file is allocated holds a message
\* for a process that exited, which the next process with its pid would find.
MailToLiving ==
    \A q \in Queue : refs[q] > 0 =>
        \A i \in DOMAIN buffer[q] : buffer[q][i].to \in alive \cup {0}

-----------------------------------------------------------------------------
(***************************************************************************)
(* Promises of the assignment text that the code breaks in some use.       *)
(***************************************************************************)
\* close takes the caller, and nobody else, off the member list.
CloseLeaves ==
    [][\A p \in Pid, fd \in Fd, q \in Queue :
          MsgQueueClose(p, fd, q) => MembersOf(q)' = MembersOf(q) \ {p}]_vars

Blocks(q, p, r) ==
    \E s \in SlotsOf(q, p), t \in SlotsOf(q, r) : t \in blocked[q][s]

\* A block lasts as long as both processes are members.
BlocksLast ==
    [][\A q \in Queue, p, r \in Pid :
          Blocks(q, p, r) /\ {p, r} \subseteq MembersOf(q)' => Blocks(q, p, r)']_vars

\* A file object lives as long as a process has a descriptor of it.
FileLives ==
    \A p \in alive : \A q \in QueuesOf(p, Fd) : refs[q] > 0

-----------------------------------------------------------------------------
(***************************************************************************)
(* The refinement: slots stand for their processes.                        *)
(***************************************************************************)
\* The senders of the messages at the places at, in their order.
Box(b, at) == [k \in 1 .. Cardinality(at) |-> b[Nth(at, k)].from]

Membership == [q \in Queue |-> MembersOf(q)]
Mail == [q \in Queue |-> [p \in Pid |-> Box(buffer[q], Pending(q, p))]]
Refusals == [q \in Queue |-> {pair \in Pid \X Pid : Blocks(q, pair[1], pair[2])}]

Boxes == INSTANCE Mailboxes WITH
    running <- alive, members <- Membership, mail <- Mail, refused <- Refusals,
    answer <- reply

\* Without holes, and until somebody closes or exits, a queue is to its members
\* a mailbox each: a message goes to exactly those that are addressed and have
\* not blocked its sender, and slots, shared buffer and matrix never show.  Of
\* receive it only says that it answers with the oldest message that was not
\* taken; that it takes the message is ImplementsMailboxes.
DeliversMail == Boxes!DeliverySpec

\* CS330_Assignment2.pdf 2.3 and 2.6: messages "are delivered in a FIFO manner",
\* and the count is that of the "pending messages"; bcast.c receives one message
\* after the other.  A message that was received is not received again.
ImplementsMailboxes == Boxes!Spec
=============================================================================
