------------------------------- MODULE Mailboxes -------------------------------
(***************************************************************************)
(* What a message queue is to its members, with no slots, descriptors or   *)
(* shared buffer: a set of processes, a mailbox for each, and a relation   *)
(* that says who refuses mail from whom.                                   *)
(*                                                                         *)
(* Spec is the promise: a message is heard once, the oldest first.         *)
(* DeliverySpec promises as much of who gets which message, in what order, *)
(* but a message may be heard again: receiving it need not take it.        *)
(***************************************************************************)
EXTENDS Integers, Sequences, FiniteSets

CONSTANTS Pid, Queue

VARIABLES
  running,   \* the processes there are
  members,   \* the members of each queue
  mail,      \* for each queue and process, the senders of its messages that
             \* were not taken, oldest first
  refused,   \* for each queue, the pairs <<receiver, sender>> that are blocked
  answer     \* the last call, whose it was, what it returned, and whom a
             \* received message was from

vars == <<running, members, mail, refused, answer>>

Init ==
    /\ \E p \in Pid : running = {p}
    /\ members = [q \in Queue |-> {}]
    /\ mail = [q \in Queue |-> [p \in Pid |-> <<>>]]
    /\ refused = [q \in Queue |-> {}]
    /\ answer = [call |-> "none", to |-> 0, value |-> 0, from |-> 0]

\* A step is a call of p.
Calls(call, p) == answer'.call = call /\ answer'.to = p

Answers(call, p, v) ==
    answer' = [call |-> call, to |-> p, value |-> v, from |-> 0]

\* Calls that change nothing.
Inquire(call, p, v) ==
    Answers(call, p, v) /\ UNCHANGED <<running, members, mail, refused>>

\* A descriptor that is no queue's is of no use here.
NoQueue(p) == p \in running /\ Inquire("no_queue", p, -1)

\* Some descriptor.
Opened(call, p) == [call : {call}, to : {p}, value : Nat, from : {0}]

Open(p) ==
    /\ Calls("open", p)
    /\ p \in running
    /\ answer' \in Opened("open", p)
    /\ UNCHANGED <<running, members, mail, refused>>

Found(p, q) ==
    /\ Calls("create", p)
    /\ p \in running /\ members[q] = {}
    /\ answer' \in Opened("create", p)
    /\ members' = [members EXCEPT ![q] = {p}]
    /\ UNCHANGED <<running, mail, refused>>

\* The child joins its parent's queues, with empty mailboxes and on speaking
\* terms with everybody.
Beget(p, c) ==
    /\ Calls("fork", p)
    /\ p \in running /\ c \notin running
    /\ Answers("fork", p, c)
    /\ running' = running \cup {c}
    /\ members' = [q \in Queue |-> IF p \in members[q] THEN members[q] \cup {c}
                                                       ELSE members[q]]
    /\ \A q \in Queue : /\ mail[q][c] = <<>>
                        /\ \A r \in Pid : {<<r, c>>, <<c, r>>} \cap refused[q] = {}
    /\ UNCHANGED <<mail, refused>>

\* Each of the processes R gets a message from p.
Post(p, q, R) ==
    /\ Answers("send", p, Cardinality(R))
    /\ mail' = [mail EXCEPT ![q] =
                    [r \in Pid |-> IF r \in R THEN Append(@[r], p) ELSE @[r]]]
    /\ UNCHANGED <<running, members, refused>>

Accepts(q, r, p) == r \in members[q] /\ <<r, p>> \notin refused[q]

Tell(p, q, r) ==
    /\ Calls("send", p)
    /\ p \in members[q]
    /\ IF Accepts(q, r, p) THEN Post(p, q, {r}) ELSE Inquire("send", p, -1)

TellAll(p, q) ==
    /\ Calls("send", p)
    /\ p \in members[q]
    /\ Post(p, q, {r \in Pid \ {p} : Accepts(q, r, p)})

\* p is told of its oldest message.
Hear(p, q) ==
    /\ Calls("receive", p)
    /\ p \in members[q]
    /\ IF mail[q][p] = <<>> THEN Answers("receive", p, 0)
       ELSE answer' = [call |-> "receive", to |-> p, value |-> 1, from |-> Head(mail[q][p])]
    /\ UNCHANGED <<running, members, refused>>

Take(p, q) ==
    /\ Hear(p, q)
    /\ mail' = IF mail[q][p] = <<>> THEN mail ELSE [mail EXCEPT ![q][p] = Tail(@)]

\* The message stays, to be heard again.
Look(p, q) == Hear(p, q) /\ UNCHANGED mail

Count(p, q) ==
    Calls("count", p) /\ p \in members[q] /\ Inquire("count", p, Len(mail[q][p]))

Info(p, q) ==
    Calls("info", p) /\ p \in members[q] /\ Inquire("info", p, Cardinality(members[q]))

Refuse(p, q, r) ==
    /\ Calls("block", p)
    /\ p \in members[q]
    /\ IF r \in members[q]
       THEN /\ Answers("block", p, 0)
            /\ refused' = [refused EXCEPT ![q] = @ \cup {<<p, r>>}]
            /\ UNCHANGED <<running, members, mail>>
       ELSE Inquire("block", p, -1)

\* All that p can do but receive.
Delivery(p) ==
    \/ NoQueue(p) \/ Open(p)
    \/ \E c \in Pid : Beget(p, c)
    \/ \E q \in Queue :
          \/ Found(p, q) \/ TellAll(p, q) \/ Count(p, q) \/ Info(p, q)
          \/ \E r \in Pid : Tell(p, q, r) \/ Refuse(p, q, r)

Next == \E p \in Pid : Delivery(p) \/ \E q \in Queue : Take(p, q)

Spec == Init /\ [][Next]_vars

DeliveryNext ==
    \E p \in Pid : Delivery(p) \/ \E q \in Queue : Take(p, q) \/ Look(p, q)

DeliverySpec == Init /\ [][DeliveryNext]_vars
=============================================================================
